---------------------------- MODULE IpfsMetadata ----------------------------
(***************************************************************************)
(* The ink! registry of property documents kept on IPFS                    *)
(* (contracts/ipfs-metadata/src/lib.rs): metadata of a property, who may   *)
(* read, write and administer its documents, and for each document its     *)
(* content identifier, its size and whether it is pinned.                  *)
(*                                                                         *)
(* What is stored on IPFS itself is out of the contract's sight.  The      *)
(* texts of metadata, which have only to be there and not too long, and    *)
(* the type, encryption and uploader of a document are left out.  The list *)
(* of a property's documents, of which the contract reads the length only, *)
(* is a bag: how often each document is in it.                             *)
(***************************************************************************)
EXTENDS LedgerClock, Functions

CONSTANTS Estates,       \* property ids
          Registrar,     \* the admin, who created the registry
          Keepers,       \* other accounts
          Cids,          \* content identifiers: form and length
          Metadata, NoMetadata,
          FileSizes, MimeTypes,
          IpfsFirstRules,    \* the validation rules of the constructor
          IpfsRuleChanges, NoDocument,
          MaxDocuments \* bounds

IpfsRules ==
  [minSize : Nat, maxSize : Nat, minValuation : Nat, maxFile : Nat,
   mimes : SUBSET MimeTypes, maxDocuments : Nat, maxPinned : Nat]

IpfsDocuments ==
  [estate : Estates, cid : Cids, size : FileSizes, pinned : BOOLEAN,
   uploadedAt : Nat, verifiedAt : Nat]

(* What is assumed of the constants.                                       *)
IpfsAssumption ==
  /\ Registrar \notin Keepers
  /\ Cids \subseteq [form : {"Qm", "b", "other"}, length : Nat]
  /\ Metadata \subseteq [size : Nat, valuation : Nat, cids : SUBSET Cids]
  /\ NoMetadata \notin Metadata
  /\ FileSizes \subseteq Nat
  /\ {IpfsFirstRules} \cup IpfsRuleChanges \subseteq IpfsRules
  /\ NoDocument \notin IpfsDocuments
  /\ MaxDocuments \in Nat

VARIABLES metadata,        \* property_metadata
          document,        \* documents, by id
          listed,          \* property_documents: how often each is listed
          cidDocument,     \* cid_to_document, 0 where there is none
          documentCount, ipfsRules,
          pinnedSize,      \* property_pinned_size
          access,          \* access_permissions
          removedPinned    \* history: size of documents removed while pinned

ipfsVars == <<metadata, document, listed, cidDocument, documentCount, ipfsRules,
              pinnedSize, access, removedPinned>>
documentVars == <<document, listed, cidDocument, documentCount, pinnedSize, removedPinned>>
indexVars == <<listed, cidDocument, documentCount>>

IpfsUsers == Keepers \cup {Registrar}
Ids == 1 .. MaxDocuments
IsStored(i) == document[i] # NoDocument

IpfsInit ==
  /\ metadata = [p \in Estates |-> NoMetadata]
  /\ document = [i \in Ids |-> NoDocument]
  /\ listed = [p \in Estates |-> [i \in Ids |-> 0]]
  /\ cidDocument = [c \in Cids |-> 0]
  /\ documentCount = 0
  /\ ipfsRules = IpfsFirstRules
  /\ pinnedSize = [p \in Estates |-> 0]
  /\ access = [p \in Estates |-> [x \in IpfsUsers |-> "None"]]
  /\ removedPinned = [p \in Estates |-> 0]

-----------------------------------------------------------------------------
MayRead(x, p)       == x = Registrar \/ access[p][x] # "None"
MayWrite(x, p)      == x = Registrar \/ access[p][x] \in {"Write", "Admin"}
MayAdminister(x, p) == x = Registrar \/ access[p][x] = "Admin"

(* Version 0 has exactly 46 characters, version 1 at least 10.             *)
ValidCid(c) == \/ c.form = "Qm" /\ c.length = 46
               \/ c.form = "b" /\ c.length >= 10

ValidMetadata(d) ==
  /\ d.size \in ipfsRules.minSize .. ipfsRules.maxSize
  /\ d.valuation >= ipfsRules.minValuation
  /\ \A c \in d.cids : ValidCid(c)

(* Whoever registers metadata administers the property, and so do those    *)
(* who registered it before.                                               *)
ValidateAndRegisterMetadata(x, p, d) ==
  /\ ValidMetadata(d)
  /\ metadata' = [metadata EXCEPT ![p] = d]
  /\ access' = [access EXCEPT ![p][x] = "Admin"]
  /\ UNCHANGED <<documentVars, ipfsRules>>

GrantAccess(x, p, y, level) ==
  /\ MayAdminister(x, p)
  /\ access' = [access EXCEPT ![p][y] = level]
  /\ UNCHANGED <<metadata, documentVars, ipfsRules>>

RevokeAccess(x, p, y) == GrantAccess(x, p, y, "None")

-----------------------------------------------------------------------------
ListLength(p) == SumFunctionOnSet(listed[p], Ids)

Admissible(c, p, size, mime) ==
  /\ ValidCid(c)
  /\ cidDocument[c] = 0
  /\ size <= ipfsRules.maxFile
  /\ ListLength(p) < ipfsRules.maxDocuments
  /\ ipfsRules.mimes # {} => mime \in ipfsRules.mimes

RegisterIpfsDocument(x, p, c, size, mime) ==
  LET id == documentCount + 1
  IN  /\ id \in Ids
      /\ MayWrite(x, p)
      /\ Admissible(c, p, size, mime)
      /\ documentCount' = id
      /\ document' = [document EXCEPT ![id] =
                       [estate |-> p, cid |-> c, size |-> size, pinned |-> FALSE,
                        uploadedAt |-> now, verifiedAt |-> now]]
      /\ cidDocument' = [cidDocument EXCEPT ![c] = id]
      /\ listed' = [listed EXCEPT ![p][id] = @ + 1]
      /\ UNCHANGED <<metadata, ipfsRules, pinnedSize, access, removedPinned>>

(* Mutant: a document that is pinned may be pinned once more.              *)
NeedsPinAgain(d) == TRUE

(* Pinning what is pinned is no error, and does nothing.                   *)
NeedsPin(d) == ~ d.pinned

PinDocument(x, i) ==
  LET d == document[i]
      total == pinnedSize[d.estate] + d.size
  IN  /\ MayWrite(x, d.estate)
      /\ NeedsPin(d)
      /\ total <= ipfsRules.maxPinned
      /\ document' = [document EXCEPT ![i].pinned = TRUE]
      /\ pinnedSize' = [pinnedSize EXCEPT ![d.estate] = total]
      /\ UNCHANGED <<metadata, indexVars, ipfsRules, access, removedPinned>>

UnpinDocument(x, i) ==
  LET d == document[i]
  IN  /\ MayWrite(x, d.estate)
      /\ d.pinned
      /\ document' = [document EXCEPT ![i].pinned = FALSE]
      /\ pinnedSize' = [pinnedSize EXCEPT ![d.estate] = IF @ >= d.size THEN @ - d.size ELSE @]
      /\ UNCHANGED <<metadata, indexVars, ipfsRules, access, removedPinned>>

(* With the hash the document was registered with; another is refused.     *)
VerifyContentHash(x, i) ==
  /\ MayRead(x, document[i].estate)
  /\ document' = [document EXCEPT ![i].verifiedAt = now]
  /\ UNCHANGED <<metadata, indexVars, ipfsRules, pinnedSize, access, removedPinned>>

(* The pinned size of the property keeps the size of a document that was   *)
(* removed while pinned.                                                   *)
ReportMaliciousFile(i) ==
  LET d == document[i]
  IN  /\ document' = [document EXCEPT ![i] = NoDocument]
      /\ cidDocument' = [cidDocument EXCEPT ![d.cid] = 0]
      /\ listed' = [listed EXCEPT ![d.estate][i] = 0]
      /\ removedPinned' = [removedPinned EXCEPT ![d.estate] =
                            @ + IF d.pinned THEN d.size ELSE 0]
      /\ UNCHANGED <<metadata, documentCount, ipfsRules, pinnedSize, access>>

UpdateValidationRules(r) ==
  /\ ipfsRules' = r
  /\ UNCHANGED <<metadata, documentVars, access>>

AddAllowedMimeType(mime) ==
  UpdateValidationRules([ipfsRules EXCEPT !.mimes = @ \cup {mime}])

IpfsTick == ClockTicks /\ UNCHANGED ipfsVars

RegistryNext ==
  \/ \E x \in IpfsUsers, p \in Estates :
       \/ \E d \in Metadata : ValidateAndRegisterMetadata(x, p, d)
       \/ \E y \in IpfsUsers :
            \/ \E level \in {"None", "Read", "Write", "Admin"} : GrantAccess(x, p, y, level)
            \/ RevokeAccess(x, p, y)
       \/ \E c \in Cids, size \in FileSizes, mime \in MimeTypes :
            RegisterIpfsDocument(x, p, c, size, mime)
  \/ \E i \in {j \in Ids : IsStored(j)} :
       \/ \E x \in IpfsUsers :
            PinDocument(x, i) \/ UnpinDocument(x, i) \/ VerifyContentHash(x, i)
       \/ ReportMaliciousFile(i)
  \/ \E r \in IpfsRuleChanges : UpdateValidationRules(r)
  \/ \E mime \in MimeTypes : AddAllowedMimeType(mime)

IpfsNext == (RegistryNext /\ UNCHANGED now) \/ IpfsTick

IpfsSpec == ClockInit /\ IpfsInit /\ [][IpfsNext]_<<now, ipfsVars>>

-----------------------------------------------------------------------------
(* Sizes are u64, ids are counted up, and a verification is not older than *)
(* the document.                                                           *)
IpfsTypeOK ==
  /\ metadata \in [Estates -> Metadata \cup {NoMetadata}]
  /\ access \in [Estates -> [IpfsUsers -> {"None", "Read", "Write", "Admin"}]]
  /\ ipfsRules \in IpfsRules
  /\ document \in [Ids -> IpfsDocuments \cup {NoDocument}]
  /\ listed \in [Estates -> [Ids -> Nat]] /\ cidDocument \in [Cids -> {0} \cup Ids]
  /\ documentCount \in 0 .. MaxDocuments
  /\ pinnedSize \in [Estates -> Nat] /\ removedPinned \in [Estates -> Nat]
  /\ \A i \in Ids : IsStored(i) =>
       /\ i <= documentCount
       /\ document[i].uploadedAt <= document[i].verifiedAt /\ document[i].verifiedAt <= now

(* The two indices and the documents name the same: each document is in    *)
(* the list of its property, once, and under its content identifier, and   *)
(* both hold nothing else.                                                 *)
IndexTrue ==
  /\ \A i \in Ids, p \in Estates :
       listed[p][i] = IF IsStored(i) /\ document[i].estate = p THEN 1 ELSE 0
  /\ \A i \in Ids : IsStored(i) => cidDocument[document[i].cid] = i
  /\ \A c \in Cids : cidDocument[c] # 0 =>
       IsStored(cidDocument[c]) /\ document[cidDocument[c]].cid = c

PinnedWeight(d, p) ==
  IF d # NoDocument /\ d.estate = p /\ d.pinned THEN d.size ELSE 0

PinnedWeights(p) == [i \in Ids |-> PinnedWeight(document[i], p)]

(* What a property has pinned is what its pinned documents weigh, and what *)
(* those weighed that were removed while pinned.                           *)
PinnedBooked ==
  \A p \in Estates :
    pinnedSize[p] = SumFunctionOnSet(PinnedWeights(p), Ids) + removedPinned[p]

(* ipfs metadata: the indices and the pinned sizes match the documents,    *)
(* through registration, pinning and removal in any order.                 *)
DocumentsIndexed == IndexTrue /\ PinnedBooked
=============================================================================
