------------------------------- MODULE Oracle -------------------------------
(***************************************************************************)
(* The ink! property valuation oracle (contracts/oracle/src/lib.rs): its   *)
(* sources with their weights and reputations, the aggregation of their    *)
(* prices into a valuation, the admin's own valuations, pending requests.  *)
(*                                                                         *)
(* Feeds answer as the code's stand-ins do, by a formula; every price is   *)
(* fresh, for it bears the time it is asked.  No operation deposits a      *)
(* stake, so that slash_source has none to take and is a failure for the   *)
(* source's reputation.  One clock counts blocks and seconds.              *)
(***************************************************************************)
EXTENDS LedgerClock, Sequences, FiniteSets, Functions

CONSTANTS Properties,     \* property ids: numbers, which the feeds add
          Sources,
          FeedOf,         \* source -> kind, base and slope of its price
          SourceConfigs,  \* weight and is_active of an added source
          NoSource,       \* oracle_sources(id) is absent
          AdminValues, Confidences,    \* what the admin may submit
          NoValuation, NotPending,
          PropertyStep,   \* 100: what a property's id adds to a price
          MinSources, OutlierThreshold, MaxStaleness,   \* 2, 2 and 3600
          FirstReputation, Gain, Loss, Floor, TopReputation,
                          \* 500, 10, 50, 200 and 1000
          KeptValuations, \* 100
          MaxValuationRequests \* bounds

(* What is assumed of the constants.                                       *)
OracleAssumption ==
  /\ Properties \subseteq Nat /\ IsFiniteSet(Properties) /\ IsFiniteSet(Sources)
  /\ FeedOf \in [Sources -> [kind : {"Feed", "Manual", "AIModel"}, base : Nat, slope : Nat]]
  /\ SourceConfigs \subseteq [weight : Nat, active : BOOLEAN]
  /\ AdminValues \cup Confidences \subseteq Nat
  /\ NoSource \notin [weight : Nat, active : BOOLEAN] /\ NotPending \notin Nat
  /\ NoValuation \notin [value : Nat, confidence : Nat, confirmedAt : Nat]
  /\ OutlierThreshold >= 1 /\ FirstReputation <= TopReputation
  /\ {PropertyStep, MinSources, OutlierThreshold, MaxStaleness, Gain, Loss, Floor,
      FirstReputation, TopReputation, KeptValuations, MaxValuationRequests} \subseteq Nat

VARIABLES source,         \* oracle_sources
          activeSources,  \* active_sources: ids, each of them once
          reputation,     \* source_reputations, a missing one the first
          aiContract,     \* ai_valuation_contract is set
          valuation,      \* property_valuations
          pastValuations, \* historical_valuations: their values
          pendingRequest, \* pending_requests: the time of the request
          requestCounter

sourceVars == <<source, activeSources, reputation, aiContract>>
valuationVars == <<valuation, pastValuations>>
requestVars == <<pendingRequest, requestCounter>>
oracleVars == <<sourceVars, valuationVars, requestVars>>

OracleInit ==
  /\ source = [s \in Sources |-> NoSource] /\ activeSources = {}
  /\ reputation = [s \in Sources |-> FirstReputation]
  /\ aiContract = FALSE
  /\ valuation = [p \in Properties |-> NoValuation]
  /\ pastValuations = [p \in Properties |-> <<>>]
  /\ pendingRequest = [p \in Properties |-> NotPending] /\ requestCounter = 0

-----------------------------------------------------------------------------
(* A source added as inactive stays in the active list it was in, and is   *)
(* asked for its price: nothing looks at is_active any more.               *)
AddOracleSource(s, c) ==
  /\ c.weight <= 100
  /\ source' = [source EXCEPT ![s] = c]
  /\ activeSources' = activeSources \cup IF c.active THEN {s} ELSE {}
  /\ UNCHANGED <<reputation, aiContract, valuationVars, requestVars>>

RemoveSource(s) ==
  /\ source' = [source EXCEPT ![s] = NoSource]
  /\ activeSources' = activeSources \ {s}
  /\ UNCHANGED <<reputation, aiContract, valuationVars, requestVars>>

NewReputation(s, success) ==
  IF success THEN IF reputation[s] + Gain < TopReputation THEN reputation[s] + Gain ELSE TopReputation
             ELSE IF reputation[s] > Loss THEN reputation[s] - Loss ELSE 0

UpdateSourceReputation(s, success) ==
  LET new == NewReputation(s, success)
      out == new < Floor /\ source[s] # NoSource
  IN  /\ reputation' = [reputation EXCEPT ![s] = new]
      /\ source' = IF out THEN [source EXCEPT ![s].active = FALSE] ELSE source
      /\ activeSources' = IF out THEN activeSources \ {s} ELSE activeSources
      /\ UNCHANGED <<aiContract, valuationVars, requestVars>>

SlashSource(s) == UpdateSourceReputation(s, FALSE)

SetAiValuationContract ==
  aiContract' = TRUE
  /\ UNCHANGED <<source, activeSources, reputation, valuationVars, requestVars>>

-----------------------------------------------------------------------------
(* Prices: a function from the sources that answer.                        *)
Answers(s) == source[s] # NoSource /\ (FeedOf[s].kind = "AIModel" => aiContract)

PriceOf(s, p) ==
  LET listed == FeedOf[s].base + p * PropertyStep IN
  IF FeedOf[s].kind = "Manual"
    THEN IF valuation[p] # NoValuation THEN valuation[p].value ELSE listed
    ELSE listed + source[s].weight * FeedOf[s].slope

PricesFor(p) == [s \in {t \in activeSources : Answers(t)} |-> PriceOf(s, p)]

Count(prices) == Cardinality(DOMAIN prices)
Mean(prices) == SumFunction(prices) \div Count(prices)
Diff(x, y) == IF x < y THEN y - x ELSE x - y

VarianceOf(prices) ==
  LET mean == Mean(prices) IN
  SumFunction([s \in DOMAIN prices |-> Diff(prices[s], mean) * Diff(prices[s], mean)])
    \div Count(prices)

NewtonStep(x, v) == (x + v \div x) \div 2

(* The integer square root, by Newton's method from v until it stops.      *)
StdDev(v) ==
  LET newton[x \in Nat \ {0}] == LET y == NewtonStep(x, v) IN IF y >= x THEN x ELSE newton[y]
  IN  IF v = 0 THEN 0 ELSE newton[v]

FilterOutliers(prices) ==
  IF Count(prices) < 3 THEN prices
  ELSE LET mean  == Mean(prices)
           limit == StdDev(VarianceOf(prices)) * OutlierThreshold
           kept  == {s \in DOMAIN prices : Diff(prices[s], mean) <= limit}
       IN  [s \in kept |-> prices[s]]

TotalWeight(prices) == SumFunction([s \in DOMAIN prices |-> source[s].weight])

Weighted(prices) == SumFunction([s \in DOMAIN prices |-> prices[s] * source[s].weight])

(* Mutant: the weighted prices are divided by their number.                *)
MeanOfWeighted(prices) == Weighted(prices) \div Count(prices)

WeightedMean(prices) == Weighted(prices) \div TotalWeight(prices)

Aggregable(prices, kept) == Count(prices) >= MinSources /\ TotalWeight(kept) > 0

(* Five steps of the same method, which need not reach the root.           *)
NextApprox(x, v) == IF x > 0 THEN NewtonStep(x, v) ELSE 0

RoughDev(v) ==
  NextApprox(NextApprox(NextApprox(NextApprox(NextApprox(v, v), v), v), v), v)

ConfidenceScore(prices) ==
  LET mean == Mean(prices)
      cv   == IF mean > 0 THEN (RoughDev(VarianceOf(prices)) * 10000) \div mean ELSE 10000
  IN  (IF Count(prices) < 3 THEN Count(prices) * 25 ELSE 75)
        + (IF cv <= 10000 THEN (10000 - cv) \div 400 ELSE 0)

-----------------------------------------------------------------------------
LastOf(seq, n) == IF Len(seq) > n THEN SubSeq(seq, Len(seq) - n + 1, Len(seq)) ELSE seq

(* The alerts are checked against the valuation just stored, so that none  *)
(* is ever raised: an alert changes no state.                              *)
Store(p, value, confidence) ==
  /\ value # 0
  /\ pastValuations' = [pastValuations EXCEPT ![p] = LastOf(Append(@, value), KeptValuations)]
  /\ valuation' = [valuation EXCEPT ![p] =
                     [value |-> value, confidence |-> confidence, confirmedAt |-> now]]

UpdatePropertyValuation(p, value, confidence) ==
  Store(p, value, confidence) /\ UNCHANGED <<sourceVars, requestVars>>

UpdateValuationFromSources(p) ==
  LET prices == PricesFor(p)
      kept   == FilterOutliers(prices)
  IN  /\ Aggregable(prices, kept)
      /\ Store(p, WeightedMean(kept), ConfidenceScore(prices))
      /\ pendingRequest' = [pendingRequest EXCEPT ![p] = NotPending]
      /\ UNCHANGED <<sourceVars, requestCounter>>

Requestable(p) == pendingRequest[p] # NotPending => now - pendingRequest[p] >= MaxStaleness

(* One property of a batch after the other; a refused one is skipped.  Of  *)
(* a list longer than MAX_BATCH_SIZE the rest is ignored: ps are those of  *)
(* the list that are looked at.                                            *)
BatchRequestValuations(ps) ==
  LET fresh == {p \in ps : Requestable(p)} IN
  /\ requestCounter + Cardinality(fresh) <= MaxValuationRequests
  /\ requestCounter' = requestCounter + Cardinality(fresh)
  /\ pendingRequest' = [p \in Properties |-> IF p \in fresh THEN now ELSE pendingRequest[p]]
  /\ UNCHANGED <<sourceVars, valuationVars>>

RequestPropertyValuation(p) == Requestable(p) /\ BatchRequestValuations({p})

OracleTick == ClockTicks /\ UNCHANGED oracleVars

AnyUpdate ==
  \E p \in Properties :
    \/ \E v \in AdminValues, c \in Confidences : UpdatePropertyValuation(p, v, c)
    \/ UpdateValuationFromSources(p)

AnySourceAdded == \E s \in Sources, c \in SourceConfigs : AddOracleSource(s, c)

(* Prices depend on neither the clock nor the requests.                    *)
PricesNext ==
  \/ AnyUpdate \/ AnySourceAdded \/ SetAiValuationContract
  \/ \E s \in Sources :
       \/ RemoveSource(s) \/ SlashSource(s)
       \/ \E ok \in BOOLEAN : UpdateSourceReputation(s, ok)

ValuationsNext ==
  \/ AnyUpdate \/ AnySourceAdded
  \/ \E p \in Properties : RequestPropertyValuation(p)
  \/ \E ps \in SUBSET Properties : BatchRequestValuations(ps)

OracleNext == ((PricesNext \/ ValuationsNext) /\ UNCHANGED now) \/ OracleTick

-----------------------------------------------------------------------------
OracleSpec == ClockInit /\ OracleInit /\ [][OracleNext]_<<now, oracleVars>>

StoredSources == [weight : Nat, active : BOOLEAN]
Valuations == [value : Nat, confidence : Nat, confirmedAt : Nat]

(* Sources in use are on record, and a reputation stays on its scale.      *)
OracleTypeOK ==
  /\ source \in [Sources -> StoredSources \cup {NoSource}]
  /\ activeSources \in SUBSET Sources /\ \A s \in activeSources : source[s] # NoSource
  /\ reputation \in [Sources -> 0 .. TopReputation] /\ aiContract \in BOOLEAN
  /\ valuation \in [Properties -> Valuations \cup {NoValuation}]
  /\ pastValuations \in [Properties -> Seq(Nat)]
  /\ \A p \in Properties : Len(pastValuations[p]) <= KeptValuations
  /\ pendingRequest \in [Properties -> Nat \cup {NotPending}]
  /\ requestCounter \in 0 .. MaxValuationRequests

(* Some price survives the outlier filter when there was one.              *)
SomePriceSurvives(prices) ==
  DOMAIN prices # {} => DOMAIN FilterOutliers(prices) # {}

(* The aggregate is neither below nor above all prices it is made of.      *)
AmongPrices(kept) ==
  /\ \E s \in DOMAIN kept : kept[s] <= WeightedMean(kept)
  /\ \E s \in DOMAIN kept : kept[s] >= WeightedMean(kept)

(* oracle: whatever sources are registered, reweighted, deactivated or     *)
(* removed and whatever the manual source feeds back, some price survives  *)
(* the outlier filter, the aggregate lies between the least and the        *)
(* greatest price that did, and its confidence is a percentage.            *)
AggregateWithinPrices ==
  \A p \in Properties :
    LET prices == PricesFor(p)
        kept   == FilterOutliers(prices)
    IN  /\ SomePriceSurvives(prices)
        /\ Aggregable(prices, kept) => AmongPrices(kept) /\ ConfidenceScore(prices) <= 100
=============================================================================
