------------------------- MODULE AuthorizationCache -------------------------
(***************************************************************************)
(* Authorization snapshots of one backend process (auth_cache.rs) and the  *)
(* webhook that invalidates them (webhook.rs).  Accounts changes an account *)
(* from time to time and tells the backend with a notice, which it repeats *)
(* until it is acknowledged and may give up on.  A request asks for the    *)
(* identity behind its token: from the cache, or from Accounts under one   *)
(* of the stripe mutexes.  What an identity says is abstracted to the      *)
(* number of changes it already reflects.                                  *)
(***************************************************************************)
EXTENDS Naturals, FiniteSets

CONSTANTS
  Tokens,        \* access tokens
  Requests,      \* requests the process serves at a time
  Handlers,      \* webhook deliveries and refreshes it handles at a time
  Stripes,       \* the flights mutexes
  StripeOf,      \* [Tokens -> Stripes], from the hash of the token
  MaxEntries,    \* MAX_ENTRIES
  MaxChanges,    \* bound: changes to one account
  MaxGeneration, \* bound: invalidations of one process
  None

ASSUME CacheAssumption ==
  /\ StripeOf \in [Tokens -> Stripes]
  /\ MaxEntries \in Nat \ {0}
  /\ MaxChanges \in Nat /\ MaxGeneration \in Nat
  /\ None \notin Tokens \cup Requests \cup (Tokens \X Nat)

VARIABLES
  version,    \* changes Accounts has made to the account of each token
  notices,    \* <<token, change>>: notices not acknowledged yet
  known,      \* the newest change of each account that was acknowledged
  receipts,   \* notices recorded in accounts_webhook_receipts
  generation, \* AuthorizationCache::generation
  entries,    \* [token -> its snapshot, or None]
  flight,     \* [stripe -> the request that holds its mutex, or None]
  request,    \* the requests being served
  handler     \* the invalidations under way

accountVars == <<version, notices, known, receipts>>
cacheVars == <<version, notices, known, receipts,
               generation, entries, flight, request, handler>>

Changes == 0 .. MaxChanges
Notices == Tokens \X Changes

Idle == [pc |-> "idle"]
AtRest == [pc |-> "idle"]

CacheInit ==
  /\ version = [t \in Tokens |-> 0]
  /\ notices = {} /\ receipts = {}
  /\ known = [t \in Tokens |-> 0]
  /\ generation = 0
  /\ entries = [t \in Tokens |-> None]
  /\ flight = [s \in Stripes |-> None]
  /\ request = [r \in Requests |-> Idle]
  /\ handler = [h \in Handlers |-> AtRest]

-----------------------------------------------------------------------------
(* Accounts and the clock. *)

AccountChanges(t) ==
  /\ version[t] < MaxChanges
  /\ version' = [version EXCEPT ![t] = @ + 1]
  /\ notices' = notices \cup {<<t, version[t] + 1>>}
  /\ UNCHANGED <<known, receipts, generation, entries, flight, request, handler>>

NoticeLost(n) ==
  /\ n \in notices
  /\ notices' = notices \ {n}
  /\ UNCHANGED <<version, known, receipts, generation, entries, flight, request, handler>>

\* The TTL of a snapshot runs out, or its token expires.
SnapshotLapses(t) ==
  /\ entries[t] # None
  /\ entries[t].fresh
  /\ entries' = [entries EXCEPT ![t] =
       [change |-> @.change, generation |-> @.generation, fresh |-> FALSE]]
  /\ UNCHANGED <<accountVars, generation, flight, request, handler>>

-----------------------------------------------------------------------------
(* Invalidation. *)

HandlerAt(h, label) == handler[h].pc = label

Bump == generation < MaxGeneration /\ generation' = generation + 1

(* receive: a notice that passed every check first bumps the generation ... *)
Receive(h, n) ==
  /\ HandlerAt(h, "idle")
  /\ n \in notices
  /\ Bump
  /\ handler' = [handler EXCEPT ![h] = [pc |-> "clear", notice |-> n]]
  /\ UNCHANGED <<accountVars, entries, flight, request>>

(* refresh: Accounts answered the exchange, well or badly. *)
Refresh(h) ==
  /\ HandlerAt(h, "idle")
  /\ Bump
  /\ handler' = [handler EXCEPT ![h] = [pc |-> "clear", notice |-> None]]
  /\ UNCHANGED <<accountVars, entries, flight, request>>

(* ... then the entries are cleared under the write lock ... *)
Clear(h) ==
  /\ HandlerAt(h, "clear")
  /\ entries' = [t \in Tokens |-> None]
  /\ handler' = [handler EXCEPT ![h] =
       IF @.notice = None THEN AtRest ELSE [pc |-> "record", notice |-> @.notice]]
  /\ UNCHANGED <<accountVars, generation, flight, request>>

(* ... then the receipt is inserted, or was there: a duplicate ... *)
Record(h) ==
  /\ HandlerAt(h, "record")
  /\ receipts' = receipts \cup {handler[h].notice}
  /\ handler' = [handler EXCEPT ![h] = [pc |-> "prune", notice |-> @.notice]]
  /\ UNCHANGED <<version, notices, known, generation, entries, flight, request>>

NewerOf(m, n) == IF m < n THEN n ELSE m

(* ... then old receipts are deleted and Accounts is told 200. *)
Acknowledge(h) ==
  /\ HandlerAt(h, "prune")
  /\ LET n == handler[h].notice IN
       /\ notices' = notices \ {n}
       /\ known' = [known EXCEPT ![n[1]] = NewerOf(@, n[2])]
  /\ handler' = [handler EXCEPT ![h] = AtRest]
  /\ UNCHANGED <<version, receipts, generation, entries, flight, request>>

(* Either statement failed: 503, and Accounts delivers the notice again. *)
Unavailable(h) ==
  /\ HandlerAt(h, "record") \/ HandlerAt(h, "prune")
  /\ handler' = [handler EXCEPT ![h] = AtRest]
  /\ UNCHANGED <<accountVars, generation, entries, flight, request>>

-----------------------------------------------------------------------------
(* resolve. *)

RequestAt(r, label) == request[r].pc = label

Hit(t) ==
  /\ entries[t] # None
  /\ entries[t].generation = generation
  /\ entries[t].fresh

Unlocked(r) == [s \in Stripes |-> IF flight[s] = r THEN None ELSE flight[s]]

(* The first look at the cache; a hit answers at once. *)
Begin(r, t) ==
  /\ RequestAt(r, "idle")
  /\ ~Hit(t)
  /\ request' = [request EXCEPT ![r] = [pc |-> "waiting", token |-> t]]
  /\ UNCHANGED <<accountVars, generation, entries, flight, handler>>

Fetch(t, attempt) ==
  [pc |-> "fetching", token |-> t, generation |-> generation, attempt |-> attempt]

(* The stripe mutex is taken and the cache looked at again. *)
Enter(r) ==
  /\ RequestAt(r, "waiting")
  /\ LET t == request[r].token IN
       /\ flight[StripeOf[t]] = None
       /\ request' = [request EXCEPT ![r] = IF Hit(t) THEN Idle ELSE Fetch(t, 1)]
       /\ flight' = IF Hit(t) THEN flight ELSE [flight EXCEPT ![StripeOf[t]] = r]
  /\ UNCHANGED <<accountVars, generation, entries, handler>>

(* Accounts answers the introspection with what it knows at that moment. *)
Answer(r) ==
  /\ RequestAt(r, "fetching")
  /\ request' = [request EXCEPT ![r] =
       [pc |-> "answered", token |-> @.token, generation |-> @.generation,
        attempt |-> @.attempt, seen |-> version[@.token]]]
  /\ UNCHANGED <<accountVars, generation, entries, flight, handler>>

FaultyFetchFails(r) ==   \* mutant: the error leaves the stripe locked
  /\ RequestAt(r, "fetching")
  /\ request' = [request EXCEPT ![r] = Idle]
  /\ UNCHANGED <<accountVars, generation, entries, flight, handler>>

(* It refuses the token, answers badly or in time not at all. *)
FetchFails(r) ==
  /\ RequestAt(r, "fetching")
  /\ request' = [request EXCEPT ![r] = Idle]
  /\ flight' = Unlocked(r)
  /\ UNCHANGED <<accountVars, generation, entries, handler>>

(* A change arrived while Accounts was answering: one more attempt, then 503. *)
Fenced(r) ==
  /\ RequestAt(r, "answered")
  /\ request[r].generation # generation
  /\ IF request[r].attempt = 1
     THEN /\ request' = [request EXCEPT ![r] = Fetch(@.token, 2)]
          /\ UNCHANGED flight
     ELSE /\ request' = [request EXCEPT ![r] = Idle]
          /\ flight' = Unlocked(r)
  /\ UNCHANGED <<accountVars, generation, entries, handler>>

(* The token expired before the answer was looked at. *)
Expired(r) ==
  /\ RequestAt(r, "answered")
  /\ request[r].generation = generation
  /\ request' = [request EXCEPT ![r] = Idle]
  /\ flight' = Unlocked(r)
  /\ UNCHANGED <<accountVars, generation, entries, handler>>

Held == {t \in Tokens : entries[t] # None}

(* The entries an insertion leaves: all of them, or the live ones if the *)
(* cache is full, or none if the live ones fill it.                      *)
Kept(g) ==
  LET live == {t \in Held : entries[t].fresh /\ entries[t].generation = g}
  IN IF Cardinality(Held) < MaxEntries THEN Held
     ELSE IF Cardinality(live) < MaxEntries THEN live ELSE {}

FaultyInsert(r) ==   \* mutant: a change during the fetch is not looked for
  /\ RequestAt(r, "answered")
  /\ entries' = [t \in Tokens |->
       IF t = request[r].token
       THEN [change |-> request[r].seen, generation |-> generation, fresh |-> TRUE]
       ELSE IF t \in Kept(generation) THEN entries[t] ELSE None]
  /\ request' = [request EXCEPT ![r] = Idle]
  /\ flight' = Unlocked(r)
  /\ UNCHANGED <<accountVars, generation, handler>>

(* The generation is read once more under the write lock and the snapshot *)
(* inserted; a bump between the two would only make the entry a dead one. *)
Insert(r) ==
  /\ RequestAt(r, "answered")
  /\ request[r].generation = generation
  /\ entries' = [t \in Tokens |->
       IF t = request[r].token
       THEN [change |-> request[r].seen, generation |-> generation, fresh |-> TRUE]
       ELSE IF t \in Kept(generation) THEN entries[t] ELSE None]
  /\ request' = [request EXCEPT ![r] = Idle]
  /\ flight' = Unlocked(r)
  /\ UNCHANGED <<accountVars, generation, handler>>

(* The client hung up. *)
Leave(r) ==
  /\ ~RequestAt(r, "idle")
  /\ request' = [request EXCEPT ![r] = Idle]
  /\ flight' = Unlocked(r)
  /\ UNCHANGED <<accountVars, generation, entries, handler>>

(* The process dies and starts with an empty cache. *)
Restart ==
  /\ generation' = 0
  /\ entries' = [t \in Tokens |-> None]
  /\ flight' = [s \in Stripes |-> None]
  /\ request' = [r \in Requests |-> Idle]
  /\ handler' = [h \in Handlers |-> AtRest]
  /\ UNCHANGED accountVars

-----------------------------------------------------------------------------

Handle(h) == Clear(h) \/ Record(h) \/ Acknowledge(h) \/ Unavailable(h)
Decide(r) == FetchFails(r) \/ Answer(r) \/ Fenced(r) \/ Expired(r) \/ Insert(r)

CacheStep ==
  \/ \E t \in Tokens : AccountChanges(t) \/ SnapshotLapses(t)
  \/ \E n \in notices : NoticeLost(n)
  \/ \E h \in Handlers : Refresh(h) \/ Handle(h) \/ \E n \in notices : Receive(h, n)
  \/ \E r \in Requests : Enter(r) \/ Decide(r) \/ Leave(r) \/ \E t \in Tokens : Begin(r, t)
  \/ Restart

CacheSpec == CacheInit /\ [][CacheStep]_cacheVars

(* The introspection answers or times out (20 seconds), the code after it *)
(* runs on, and tokio's mutex is fair to the requests that wait for it.    *)
Fairness == \A r \in Requests : WF_cacheVars(Decide(r)) /\ SF_cacheVars(Enter(r))

-----------------------------------------------------------------------------

InFlight(r) == request[r].pc \in {"fetching", "answered"}

RequestStates ==
  {Idle}
  \cup [pc : {"waiting"}, token : Tokens]
  \cup [pc : {"fetching"}, token : Tokens, generation : Nat, attempt : {1, 2}]
  \cup [pc : {"answered"}, token : Tokens, generation : Nat, attempt : {1, 2}, seen : Nat]

HandlerStates ==
  {AtRest}
  \cup [pc : {"clear"}, notice : Notices \cup {None}]
  \cup [pc : {"record", "prune"}, notice : Notices]

Snapshots == [change : Nat, generation : Nat, fresh : BOOLEAN]

TypeOK ==
  /\ version \in [Tokens -> Changes] /\ known \in [Tokens -> Changes]
  /\ notices \subseteq Notices /\ receipts \subseteq Notices
  /\ generation \in Nat
  /\ entries \in [Tokens -> Snapshots \cup {None}]
  /\ flight \in [Stripes -> Requests \cup {None}]
  /\ request \in [Requests -> RequestStates]
  /\ handler \in [Handlers -> HandlerStates]

(* A snapshot the cache would still hand out reflects every change of the   *)
(* account whose notice was acknowledged, however the fetch that brought    *)
(* it, the invalidations and the redeliveries were interleaved: nobody acts *)
(* on an authority the process has confirmed is gone (resolve, invalidate,  *)
(* receive).                                                                *)
UsableIsCurrent == \A t \in Tokens : Hit(t) => entries[t].change >= known[t]

(* The cache never holds more than MAX_ENTRIES snapshots, whatever stripes *)
(* insert at once and however many entries lapsed or were fenced (resolve). *)
EntriesBounded == Cardinality(Held) <= MaxEntries

(* Two requests never ask Accounts for the same token at once, and a stripe *)
(* is held only by a request that is asking (resolve, flights).             *)
SingleFlight ==
  /\ \A r, s \in Requests : InFlight(r) /\ InFlight(s) /\ request[r].token = request[s].token => r = s
  /\ \A s \in Stripes : flight[s] # None => InFlight(flight[s])

(* A request that waits for its stripe gets it or gives up: an error, a      *)
(* timeout or a client that hung up never leaves the stripe locked (resolve). *)
WaitersProceed ==
  \A r \in Requests : RequestAt(r, "waiting") ~> ~RequestAt(r, "waiting")
=============================================================================
