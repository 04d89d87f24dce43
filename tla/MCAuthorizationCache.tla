------------------------ MODULE MCAuthorizationCache ------------------------
(***************************************************************************)
(* Instances for TLC of what the backend knows from others.  A behaviour   *)
(* is that of one part, chosen by its initial state; the others rest:      *)
(*   cache    AuthorizationCache, two tokens in two stripes               *)
(*   calls    one request: to share a profile with an account and the      *)
(*            accounts behind two handles, or with a bearer token, one of  *)
(*            another application or none at all, or a one-time            *)
(*            credential, also one answered with no token; a share uses no *)
(*            token, so where there is one, tokens stay; requests share    *)
(*            nothing but what Accounts knows                              *)
(*   limits   callers that ask for the provider's limits                   *)
(***************************************************************************)
EXTENDS AuthorizationCache, TLC

CONSTANTS
  Parts, t1, t2, even, odd, ada, bob, cyd, h1, h2,
  Bearers, Exchanges, Shares, Accounts, Handles, Owner, Asked,          \* calls
  Credentials, Malformed, AccountOf, AppOf, KindOf, TokenOf, MaxListed, MaxMoves,
  MaxCalls,                               \* bound: requests to Accounts
  Callers, SuccessTtl, FailureTtl, CheckTimeout, MaxAsks  \* limits

VARIABLES
  part,
  holder, former, active, live, expired, early,
  pc, answer, named, result, said, held, valid, soon, changes,
  entry, queue, elapsed, caller, quiet

callsVars ==
  <<holder, former, active, live, expired, early,
    pc, answer, named, result, said, held, valid, soon, changes>>
limitsVars == <<entry, queue, elapsed, caller, quiet>>

MCStripeOf == [t \in Tokens |-> IF t = t1 THEN even ELSE odd]

MCAsked == [r \in Shares |-> <<h1, cyd, h2>>]
MCHeld == [h \in Handles |-> IF h = h1 THEN ada ELSE bob]
MCAccountOf == [t \in Credentials |-> IF t = "new" THEN bob ELSE ada]
MCAppOf == [t \in Credentials |-> IF t = "other" THEN "other" ELSE "browser"]
MCKindOf == [t \in Credentials |-> "access_token"]
MCTokenOf ==
  [bearer |-> "ours", stranger |-> "other", garbled |-> "junk", exchange |-> "new", spoilt |-> "junk"]

Calls == INSTANCE AccountsCalls WITH Tokens <- Credentials, MaxEntries <- MaxListed, MaxChanges <- MaxMoves
Limits == INSTANCE UsageLimits

ASSUME PartsAssumption == Calls!CallsAssumption /\ Limits!LimitsAssumption

\* Bounds: one request of Accounts at a time; a share has tokens that stay good, a
\* sign-in starts from one way to hold the handles, from which they move.
MCInit ==
  /\ part \in Parts
  /\ CacheInit /\ Limits!Init /\ Calls!Init
  /\ part # "calls" => holder = [h \in Handles |-> None]
  /\ \/ early = {}
     \/ /\ part = "calls" /\ holder = MCHeld
        /\ \E t \in Credentials \ Malformed : AppOf[t] = "browser" /\ early = {t}

\* The tokens mirror each other: the account of t1 changes first, the other one when
\* the notice of that is acknowledged or lost.
CachePart ==
  /\ part = "cache" /\ CacheStep
  /\ version'[t2] <= version'[t1] /\ (version' = version \/ notices = {})
  /\ UNCHANGED <<part, callsVars, limitsVars>>
CallsPart ==
  /\ part = "calls" /\ Calls!Next
  /\ Cardinality({r \in Calls!Asking : pc'[r] # "new"}) <= MaxCalls
  /\ (\E r \in Shares : pc'[r] # "new") => live' = Credentials /\ expired' \cup early' = {}
  /\ Malformed \subseteq live' \ expired'
  /\ (\E r \in Calls!Signing : pc'[r] # "new") => \A h \in Handles : MCHeld[h] \in {holder'[h]} \cup former'[h]
  /\ UNCHANGED <<part, cacheVars, limitsVars>>
LimitsPart == part = "limits" /\ Limits!Next /\ UNCHANGED <<part, cacheVars, callsVars>>

MCNext == CachePart \/ CallsPart \/ LimitsPart

MCSpec == MCInit /\ [][MCNext]_<<part, cacheVars, callsVars, limitsVars>>
\* Where the cache rests, none of its fair actions is enabled.
MCFairSpec == MCSpec /\ Fairness

\* What Accounts says is taken for no more and no less: a profile is shared with
\* accounts that had the named handles, and the whole list is stored; a client is
\* told to give up its sign-in only after a refusal or with a token that is none or
\* outside of its time, and let in only with a good token for this application.
AccountsBelieved == Calls!GrantedHeld /\ Calls!ListWhole /\ Calls!OutageKeepsSignIn /\ Calls!ForThisApp

\* Limits that are shown are recent, and so is a failure that is told.
ToldRecent == Limits!ToldRecent
=============================================================================
