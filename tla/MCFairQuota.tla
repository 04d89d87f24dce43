----------------------------- MODULE MCFairQuota -----------------------------
(***************************************************************************)
(* Instances for TLC of search and fetch and of what is billed.  A         *)
(* behaviour is that of one part, chosen by its initial state; the others  *)
(* rest:                                                                   *)
(*   quota  FairQuotaSafety, as the cfg declares it                        *)
(*   costs  sums of two sessions, over decimals of one digit               *)
(*   fetch  requests of up to five pages in batches of two, under a budget *)
(*          that the largest pages exceed                                  *)
(***************************************************************************)
EXTENDS FairQuotaSafety, TLC

CONSTANTS
  Parts, alpha, beta, a1, a2, b1,
  Urls, Pages, ErrorSize, BatchSize, Budget, MaxAgain, MaxUrls, None,           \* fetch
  Digits, MaxDigits, MaxExponent, DecimalPlaces, Limit, LimitDigits, Counts,    \* costs
  MaxRows, Overflow

VARIABLES
  part,
  urls, items, size, asked, phase, charged, usable,  \* fetch
  reported, amount, rows, total                      \* costs

fetchVars == <<urls, items, size, asked, phase, charged, usable>>
costVars == <<reported, amount, rows, total>>

MCActorOf == (a1 :> alpha) @@ (a2 :> alpha) @@ (b1 :> beta)
MCUnitsOf == (a1 :> 1) @@ (a2 :> 2) @@ (b1 :> 1)
\* one of the requests may be retried
MCMaxRetries == [r \in Requests |-> IF r = a1 THEN 1 ELSE 0]

MCPages == "small" :> 1 @@ "large" :> 3

Batches == INSTANCE FetchBatches WITH MaxRetries <- MaxAgain, retries <- asked
Costs == INSTANCE UsageCosts WITH Places <- DecimalPlaces

ASSUME PartsAssumption == Batches!FetchAssumption /\ Costs!CostAssumption

MCInit ==
  /\ part \in Parts
  /\ Init /\ Batches!Init /\ Costs!Init
  /\ part # "fetch" => urls = CHOOSE request \in Batches!Requested : TRUE
  /\ part # "costs" => reported = CHOOSE decimal \in Costs!Decimals : TRUE

QuotaPart == part = "quota" /\ Next /\ UNCHANGED <<part, fetchVars, costVars>>
FetchPart == part = "fetch" /\ Batches!Next /\ UNCHANGED <<part, vars, costVars>>
CostsPart == part = "costs" /\ Costs!Next /\ UNCHANGED <<part, vars, fetchVars>>

MCNext == QuotaPart \/ FetchPart \/ CostsPart

MCSpec == MCInit /\ [][MCNext]_<<part, vars, fetchVars, costVars>>
\* Fairness is the quota's: what is to happen in the end is asked of it alone.
MCFairSpec == MCSpec /\ Fairness

\* A caller gets what it asked for, each item once and in its place, within
\* the budget, and pays for the pages it got and for nothing else; and what a
\* session costs is the nearest unit to the provider's cost, and is what its
\* parts make up.
BillsAddUp ==
  /\ Batches!OneItemEach /\ Batches!WithinBudget /\ Batches!PaidForPages
  /\ Costs!NearestUnit /\ Costs!PartsMakeCost
=============================================================================
