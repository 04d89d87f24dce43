--------------------- MODULE AuthorizationCache_proofs ---------------------
(* The authorization cache for every number of tokens, requests, handlers,  *)
(* stripes and changes; the limits of usage; requests to Accounts.           *)
EXTENDS MCAuthorizationCache, Sequences, FiniteSetTheorems, WellFoundedInduction, TLAPS

(* Handlers at work on a notice. *)
Handling(h) == handler[h].pc # "idle" /\ handler[h].notice # None

(* The version v of the account behind t reflects every notice that was *)
(* acknowledged or that has bumped the generation.                      *)
Covers(t, v) ==
  /\ known[t] <= v
  /\ \A h \in Handlers : Handling(h) /\ handler[h].notice[1] = t => handler[h].notice[2] <= v

PastGenerations ==
  /\ \A t \in Tokens : entries[t] # None => entries[t].generation <= generation
  /\ \A r \in Requests : InFlight(r) => request[r].generation <= generation

NoticesAreTrue ==
  /\ \A n \in notices : n[2] <= version[n[1]]
  /\ \A t \in Tokens : Covers(t, version[t])

Current ==
  /\ \A t \in Tokens :
       entries[t] # None /\ entries[t].generation = generation => Covers(t, entries[t].change)
  /\ \A r \in Requests :
       RequestAt(r, "answered") /\ request[r].generation = generation
         => Covers(request[r].token, request[r].seen)

CacheInv == TypeOK /\ PastGenerations /\ NoticesAreTrue /\ Current

-----------------------------------------------------------------------------

LEMMA TypeStep == TypeOK /\ [CacheStep]_cacheVars => TypeOK'
<1> SUFFICES ASSUME TypeOK, [CacheStep]_cacheVars PROVE TypeOK'
  OBVIOUS
<1> USE CacheAssumption
<1>1. ASSUME NEW t \in Tokens, AccountChanges(t) PROVE TypeOK'
  BY <1>1 DEF AccountChanges, TypeOK, Changes, Notices, RequestStates, HandlerStates
<1>2. ASSUME NEW t \in Tokens, SnapshotLapses(t) PROVE TypeOK'
  BY <1>2 DEF SnapshotLapses, TypeOK, Snapshots, accountVars, RequestStates, HandlerStates
<1>3. ASSUME NEW n \in notices, NoticeLost(n) PROVE TypeOK'
  BY <1>3 DEF NoticeLost, TypeOK
<1>4. ASSUME NEW h \in Handlers, Refresh(h) PROVE TypeOK'
  BY <1>4 DEF Refresh, Bump, TypeOK, HandlerStates, accountVars
<1>5. ASSUME NEW h \in Handlers, Clear(h) PROVE TypeOK'
  BY <1>5 DEF Clear, TypeOK, HandlerStates, HandlerAt, AtRest, accountVars
<1>6. ASSUME NEW h \in Handlers, Record(h) PROVE TypeOK'
  BY <1>6 DEF Record, TypeOK, HandlerStates, HandlerAt, AtRest
<1>7. ASSUME NEW h \in Handlers, Acknowledge(h) PROVE TypeOK'
  <2> DEFINE n == handler[h].notice
  <2>1. n \in Notices
    BY <1>7 DEF Acknowledge, HandlerAt, TypeOK, HandlerStates, AtRest
  <2>2. n[1] \in Tokens /\ n[2] \in Changes
    BY <2>1 DEF Notices
  <2>3. known' \in [Tokens -> Changes]
    BY <1>7, <2>2 DEF Acknowledge, TypeOK, NewerOf
  <2> QED
    BY <1>7, <2>3 DEF Acknowledge, TypeOK, HandlerStates, AtRest
<1>8. ASSUME NEW h \in Handlers, Unavailable(h) PROVE TypeOK'
  BY <1>8 DEF Unavailable, TypeOK, HandlerStates, AtRest, accountVars
<1>9. ASSUME NEW h \in Handlers, NEW n \in notices, Receive(h, n) PROVE TypeOK'
  BY <1>9 DEF Receive, Bump, TypeOK, HandlerStates, accountVars
<1>10. ASSUME NEW r \in Requests, Enter(r) PROVE TypeOK'
  BY <1>10 DEF Enter, Fetch, RequestAt, TypeOK, RequestStates, Idle, accountVars
<1>11. ASSUME NEW r \in Requests, NEW t \in Tokens, Begin(r, t) PROVE TypeOK'
  BY <1>11 DEF Begin, TypeOK, RequestStates, accountVars
<1>12. ASSUME NEW r \in Requests, FetchFails(r) PROVE TypeOK'
  BY <1>12 DEF FetchFails, Unlocked, TypeOK, RequestStates, Idle, accountVars
<1>13. ASSUME NEW r \in Requests, Answer(r) PROVE TypeOK'
  <2>1. version[request[r].token] \in Nat
    BY <1>13 DEF Answer, RequestAt, TypeOK, RequestStates, Idle, Changes
  <2>2. [pc |-> "answered", token |-> request[r].token, generation |-> request[r].generation,
         attempt |-> request[r].attempt, seen |-> version[request[r].token]] \in RequestStates
    BY <1>13, <2>1 DEF Answer, RequestAt, TypeOK, RequestStates, Idle
  <2> QED
    BY <1>13, <2>2 DEF Answer, TypeOK, accountVars
<1>14. ASSUME NEW r \in Requests, Fenced(r) PROVE TypeOK'
  BY <1>14 DEF Fenced, Fetch, Unlocked, RequestAt, TypeOK, RequestStates, Idle, accountVars
<1>15. ASSUME NEW r \in Requests, Expired(r) PROVE TypeOK'
  BY <1>15 DEF Expired, Unlocked, TypeOK, RequestStates, Idle, accountVars
<1>16. ASSUME NEW r \in Requests, Insert(r) PROVE TypeOK'
  <2>1. [change |-> request[r].seen, generation |-> generation, fresh |-> TRUE] \in Snapshots
    BY <1>16 DEF Insert, RequestAt, TypeOK, RequestStates, Idle, Snapshots
  <2>2. entries' \in [Tokens -> Snapshots \cup {None}]
    BY <1>16, <2>1 DEF Insert, TypeOK
  <2> QED
    BY <1>16, <2>2 DEF Insert, Unlocked, TypeOK, RequestStates, Idle, accountVars
<1>17. ASSUME NEW r \in Requests, Leave(r) PROVE TypeOK'
  BY <1>17 DEF Leave, Unlocked, TypeOK, RequestStates, Idle, accountVars
<1>18. CASE Restart
  BY <1>18 DEF Restart, TypeOK, RequestStates, HandlerStates, Idle, AtRest, accountVars
<1>19. CASE UNCHANGED cacheVars
  BY <1>19 DEF cacheVars, TypeOK
<1> QED
  BY <1>1, <1>2, <1>3, <1>4, <1>5, <1>6, <1>7, <1>8, <1>9, <1>10, <1>11, <1>12, <1>13,
     <1>14, <1>15, <1>16, <1>17, <1>18, <1>19 DEF CacheStep, Handle, Decide

(* Variables, requests, handlers and snapshots always have their types. *)
THEOREM TypeCorrect == CacheSpec => []TypeOK
<1>1. CacheInit => TypeOK
  BY CacheAssumption DEF CacheInit, TypeOK, Changes, RequestStates, HandlerStates, Idle, AtRest, Notices
<1>2. TypeOK /\ [CacheStep]_cacheVars => TypeOK'
  BY TypeStep
<1> QED
  BY <1>1, <1>2, PTL DEF CacheSpec

-----------------------------------------------------------------------------

(* A bumped generation is one nothing was fetched or stored under. *)
LEMMA BumpFences ==
  ASSUME TypeOK, PastGenerations, generation' = generation + 1,
         UNCHANGED <<entries, request>>
  PROVE  PastGenerations' /\ Current'
<1>1. generation \in Nat
  BY DEF TypeOK
<1>2. \A t \in Tokens : entries[t] # None => entries[t].generation \in Nat
  BY DEF TypeOK, Snapshots
<1>3. \A r \in Requests : InFlight(r) => request[r].generation \in Nat
  BY DEF TypeOK, InFlight, RequestStates, Idle
<1>4. PastGenerations'
  BY <1>1, <1>2, <1>3 DEF PastGenerations, InFlight
<1>5. Current'
  BY <1>1, <1>2, <1>3 DEF PastGenerations, Current, InFlight, RequestAt
<1> QED
  BY <1>4, <1>5

(* What is covered stays covered while no notice is taken up. *)
LEMMA CoversKept ==
  ASSUME known' = known, handler' = handler, NEW t, NEW v, Covers(t, v)
  PROVE  Covers(t, v)'
BY DEF Covers, Handling

LEMMA InvHoldsFirst == CacheInit => CacheInv
<1> SUFFICES ASSUME CacheInit PROVE CacheInv
  OBVIOUS
<1>1. TypeOK
  BY CacheAssumption DEF CacheInit, TypeOK, Changes, RequestStates, HandlerStates, Idle, AtRest, Notices
<1>2. PastGenerations /\ Current
  BY DEF CacheInit, PastGenerations, Current, InFlight, RequestAt, Idle
<1>3. NoticesAreTrue
  BY DEF CacheInit, NoticesAreTrue, Covers, Handling, AtRest
<1> QED
  BY <1>1, <1>2, <1>3 DEF CacheInv
LEMMA InvStep == CacheInv /\ [CacheStep]_cacheVars => CacheInv'
<1> SUFFICES ASSUME CacheInv, [CacheStep]_cacheVars PROVE CacheInv'
  OBVIOUS
<1>0. TypeOK'
  BY TypeStep DEF CacheInv
<1> SUFFICES PastGenerations' /\ NoticesAreTrue' /\ Current'
  BY <1>0 DEF CacheInv
<1> USE DEF CacheInv
<1>1. ASSUME NEW t \in Tokens, AccountChanges(t) PROVE PastGenerations' /\ NoticesAreTrue' /\ Current'
  <2>1. PastGenerations' /\ Current'
    BY <1>1, CoversKept DEF AccountChanges, PastGenerations, Current, InFlight, RequestAt
  <2>2. \A k \in Tokens : version[k] \in Nat /\ version'[k] \in Nat /\ version[k] <= version'[k]
    BY <1>1, CacheAssumption DEF AccountChanges, TypeOK, Changes
  <2>3. \A n \in notices' : n[2] <= version'[n[1]]
    <3> SUFFICES ASSUME NEW n \in notices' PROVE n[2] <= version'[n[1]]
      OBVIOUS
    <3>1. CASE n \in notices
      <4>1. n[1] \in Tokens /\ n[2] \in Nat /\ n[2] <= version[n[1]]
        BY <3>1 DEF NoticesAreTrue, TypeOK, Notices, Changes
      <4> QED
        BY <4>1, <2>2
    <3>2. CASE n = <<t, version[t] + 1>>
      <4>1. n[1] = t /\ n[2] = version[t] + 1 /\ version'[t] = version[t] + 1
        BY <3>2, <1>1 DEF AccountChanges, TypeOK
      <4> QED
        BY <4>1, <2>2
    <3> QED
      BY <1>1, <3>1, <3>2 DEF AccountChanges
  <2>4. ASSUME NEW k \in Tokens PROVE Covers(k, version[k])'
    <3>1. Covers(k, version[k])
      BY DEF NoticesAreTrue
    <3>2. known[k] \in Nat /\ known' = known /\ handler' = handler
      BY <1>1 DEF AccountChanges, TypeOK, Changes
    <3>3. \A h \in Handlers : Handling(h) => handler[h].notice[2] \in Nat
      BY DEF TypeOK, HandlerStates, Handling, Notices, Changes, AtRest
    <3> QED
      BY <3>1, <3>2, <3>3, <2>2 DEF Covers, Handling
  <2> QED
    BY <2>1, <2>3, <2>4 DEF NoticesAreTrue
<1>2. ASSUME NEW t \in Tokens, SnapshotLapses(t) PROVE PastGenerations' /\ NoticesAreTrue' /\ Current'
  BY <1>2, CoversKept DEF SnapshotLapses, PastGenerations, NoticesAreTrue, Current, InFlight, RequestAt, accountVars, TypeOK
<1>3. ASSUME NEW n \in notices, NoticeLost(n) PROVE PastGenerations' /\ NoticesAreTrue' /\ Current'
  BY <1>3, CoversKept DEF NoticeLost, PastGenerations, NoticesAreTrue, Current, InFlight, RequestAt
<1>4. ASSUME NEW h \in Handlers, Refresh(h) PROVE PastGenerations' /\ NoticesAreTrue' /\ Current'
  <2>1. PastGenerations' /\ Current'
    BY <1>4, BumpFences DEF Refresh, Bump
  <2>2. NoticesAreTrue'
    BY <1>4 DEF Refresh, NoticesAreTrue, Covers, Handling, accountVars, TypeOK
  <2> QED
    BY <2>1, <2>2
<1>5. ASSUME NEW h \in Handlers, NEW n \in notices, Receive(h, n)
      PROVE PastGenerations' /\ NoticesAreTrue' /\ Current'
  <2>1. PastGenerations' /\ Current'
    BY <1>5, BumpFences DEF Receive, Bump
  <2>2. NoticesAreTrue'
    BY <1>5 DEF Receive, NoticesAreTrue, Covers, Handling, accountVars, TypeOK
  <2> QED
    BY <2>1, <2>2
<1>6. ASSUME NEW h \in Handlers, Clear(h) PROVE PastGenerations' /\ NoticesAreTrue' /\ Current'
  <2>1. \A k \in Tokens : \A v : Covers(k, v) => Covers(k, v)'
    BY <1>6 DEF Clear, Covers, Handling, HandlerAt, accountVars, AtRest, TypeOK
  <2>2. \A t \in Tokens : entries'[t] = None
    BY <1>6 DEF Clear
  <2>3. NoticesAreTrue'
    BY <1>6, <2>1 DEF Clear, NoticesAreTrue, accountVars
  <2>4. \A r \in Requests : RequestAt(r, "answered") => request[r].token \in Tokens
    BY DEF RequestAt, TypeOK, RequestStates, Idle
  <2> QED
    BY <1>6, <2>1, <2>2, <2>3, <2>4 DEF Clear, PastGenerations, Current, InFlight, RequestAt, accountVars
<1>7. ASSUME NEW h \in Handlers, Record(h) PROVE PastGenerations' /\ NoticesAreTrue' /\ Current'
  <2>1. \A k \in Tokens : \A v : Covers(k, v) => Covers(k, v)'
    BY <1>7 DEF Record, Covers, Handling, HandlerAt, TypeOK
  <2> QED
    BY <1>7, <2>1 DEF Record, PastGenerations, NoticesAreTrue, Current, InFlight, RequestAt, TypeOK, RequestStates, Idle
<1>8. ASSUME NEW h \in Handlers, Acknowledge(h) PROVE PastGenerations' /\ NoticesAreTrue' /\ Current'
  <2> DEFINE n == handler[h].notice
  <2>1. n \in Notices /\ Handling(h)
    <3>1. n \in Notices /\ handler[h].pc # "idle"
      BY <1>8 DEF Acknowledge, HandlerAt, TypeOK, HandlerStates, AtRest
    <3>2. n # None
      BY <3>1, CacheAssumption DEF Notices, Changes
    <3> QED
      BY <3>1, <3>2 DEF Handling
  <2>2. n[1] \in Tokens /\ n[2] \in Nat
    BY <2>1 DEF Notices, Changes
  <2>3. ASSUME NEW k \in Tokens, NEW v, Covers(k, v) PROVE Covers(k, v)'
    <3>1. known'[k] <= v
      BY <1>8, <2>1, <2>2, <2>3 DEF Acknowledge, Covers, NewerOf, TypeOK
    <3>2. \A g \in Handlers : Handling(g)' => Handling(g) /\ handler'[g] = handler[g]
      BY <1>8 DEF Acknowledge, Handling, AtRest, TypeOK
    <3> QED
      BY <2>3, <3>1, <3>2 DEF Covers, Handling
  <2> QED
    BY <1>8, <2>3 DEF Acknowledge, PastGenerations, NoticesAreTrue, Current, InFlight, RequestAt, TypeOK, RequestStates, Idle
<1>9. ASSUME NEW h \in Handlers, Unavailable(h) PROVE PastGenerations' /\ NoticesAreTrue' /\ Current'
  <2>1. \A k \in Tokens : \A v : Covers(k, v) => Covers(k, v)'
    BY <1>9 DEF Unavailable, Covers, Handling, AtRest, accountVars, TypeOK
  <2> QED
    BY <1>9, <2>1 DEF Unavailable, PastGenerations, NoticesAreTrue, Current, InFlight, RequestAt, accountVars, TypeOK, RequestStates, Idle
<1>10. ASSUME NEW r \in Requests, Enter(r) PROVE PastGenerations' /\ NoticesAreTrue' /\ Current'
  BY <1>10, CoversKept DEF Enter, Fetch, PastGenerations, NoticesAreTrue, Current, InFlight, RequestAt, accountVars, TypeOK, Idle
<1>11. ASSUME NEW r \in Requests, NEW t \in Tokens, Begin(r, t) PROVE PastGenerations' /\ NoticesAreTrue' /\ Current'
  BY <1>11, CoversKept DEF Begin, PastGenerations, NoticesAreTrue, Current, InFlight, RequestAt, accountVars, TypeOK
<1>12. ASSUME NEW r \in Requests, FetchFails(r) \/ Expired(r) \/ Leave(r)
       PROVE PastGenerations' /\ NoticesAreTrue' /\ Current'
  BY <1>12, CoversKept DEF FetchFails, Expired, Leave, PastGenerations, NoticesAreTrue, Current, InFlight, RequestAt, accountVars, TypeOK, Idle
<1>13. ASSUME NEW r \in Requests, Answer(r) PROVE PastGenerations' /\ NoticesAreTrue' /\ Current'
  <2>1. request[r].token \in Tokens
    BY <1>13 DEF Answer, RequestAt, TypeOK, RequestStates, Idle
  <2>2. Covers(request[r].token, version[request[r].token])
    BY <2>1 DEF NoticesAreTrue
  <2> QED
    BY <1>13, <2>2, CoversKept DEF Answer, PastGenerations, NoticesAreTrue, Current, InFlight, RequestAt, accountVars, TypeOK
<1>14. ASSUME NEW r \in Requests, Fenced(r) PROVE PastGenerations' /\ NoticesAreTrue' /\ Current'
  BY <1>14, CoversKept DEF Fenced, Fetch, PastGenerations, NoticesAreTrue, Current, InFlight, RequestAt, accountVars, TypeOK, Idle
<1>15. ASSUME NEW r \in Requests, Insert(r) PROVE PastGenerations' /\ NoticesAreTrue' /\ Current'
  <2>1. Covers(request[r].token, request[r].seen)
    BY <1>15 DEF Insert, Current
  <2>2. \A t \in Tokens : entries'[t] =
          IF t = request[r].token
          THEN [change |-> request[r].seen, generation |-> generation, fresh |-> TRUE]
          ELSE IF t \in Kept(generation) THEN entries[t] ELSE None
    BY <1>15 DEF Insert
  <2>3. PastGenerations'
    BY <1>15, <2>2 DEF Insert, PastGenerations, InFlight, accountVars, TypeOK, Idle
  <2>4. Current'
    BY <1>15, <2>1, <2>2, CoversKept DEF Insert, Current, RequestAt, accountVars, TypeOK, Idle
  <2>5. NoticesAreTrue'
    BY <1>15, CoversKept DEF Insert, NoticesAreTrue, accountVars
  <2> QED
    BY <2>3, <2>4, <2>5
<1>16. CASE Restart
  <2>1. PastGenerations' /\ Current'
    BY <1>16 DEF Restart, PastGenerations, Current, InFlight, RequestAt, Idle
  <2>2. NoticesAreTrue'
    BY <1>16 DEF Restart, NoticesAreTrue, Covers, Handling, AtRest, accountVars
  <2> QED
    BY <2>1, <2>2
<1>17. CASE UNCHANGED cacheVars
  BY <1>17, CoversKept DEF cacheVars, PastGenerations, NoticesAreTrue, Current, InFlight, RequestAt
<1> QED
  BY <1>1, <1>2, <1>3, <1>4, <1>5, <1>6, <1>7, <1>8, <1>9, <1>10, <1>11, <1>12, <1>13,
     <1>14, <1>15, <1>16, <1>17 DEF CacheStep, Handle, Decide

(* Whatever the interleaving of fetches, invalidations and redeliveries, a *)
(* snapshot that may still be handed out reflects every acknowledged change. *)
THEOREM UsableIsAlwaysCurrent == CacheSpec => []UsableIsCurrent
<1>1. CacheInv => UsableIsCurrent
  BY DEF CacheInv, Current, Covers, UsableIsCurrent, Hit
<1> QED
  BY <1>1, InvHoldsFirst, InvStep, PTL DEF CacheSpec

-----------------------------------------------------------------------------
(* The stripes. *)

FlightInv ==
  /\ \A r \in Requests : InFlight(r) => flight[StripeOf[request[r].token]] = r
  /\ \A s \in Stripes : flight[s] # None
       => InFlight(flight[s]) /\ StripeOf[request[flight[s]].token] = s

LEMMA FlightStep == TypeOK /\ FlightInv /\ [CacheStep]_cacheVars => FlightInv'
<1> SUFFICES ASSUME TypeOK, FlightInv, [CacheStep]_cacheVars PROVE FlightInv'
  OBVIOUS
<1> USE CacheAssumption DEF FlightInv, InFlight
<1>1. ASSUME UNCHANGED <<flight, request>> PROVE FlightInv'
  BY <1>1
<1>2. ASSUME NEW r \in Requests, Enter(r) PROVE FlightInv'
  BY <1>2 DEF Enter, Fetch, RequestAt, TypeOK, RequestStates, Idle
<1>3. ASSUME NEW r \in Requests, NEW t \in Tokens, Begin(r, t) PROVE FlightInv'
  BY <1>3 DEF Begin, RequestAt, TypeOK
<1>4. ASSUME NEW r \in Requests, request' = [request EXCEPT ![r] = Idle], flight' = Unlocked(r)
      PROVE FlightInv'
  <2>1. \A q \in Requests : InFlight(q) => StripeOf[request[q].token] \in Stripes
    BY DEF TypeOK, RequestStates, Idle
  <2>2. \A q \in Requests : InFlight(q)' => q # r /\ InFlight(q) /\ request'[q] = request[q]
    BY <1>4 DEF Idle, TypeOK
  <2>3. \A s \in Stripes : flight'[s] = IF flight[s] = r THEN None ELSE flight[s]
    BY <1>4 DEF Unlocked
  <2>4. \A s \in Stripes : flight[s] # None /\ flight[s] # r
          => flight[s] \in Requests /\ request'[flight[s]] = request[flight[s]]
    BY <1>4 DEF TypeOK
  <2> QED
    BY <2>1, <2>2, <2>3, <2>4
<1>5. ASSUME NEW r \in Requests, Answer(r) PROVE FlightInv'
  BY <1>5 DEF Answer, RequestAt, TypeOK
<1>6. ASSUME NEW r \in Requests, Fenced(r) PROVE FlightInv'
  BY <1>4, <1>6 DEF Fenced, Fetch, RequestAt, TypeOK
<1>7. CASE Restart
  BY <1>7 DEF Restart, Idle
<1> QED
  BY <1>1, <1>2, <1>3, <1>4, <1>5, <1>6, <1>7
     DEF CacheStep, Handle, Decide, AccountChanges, SnapshotLapses, NoticeLost, Refresh, Clear,
         Record, Acknowledge, Unavailable, Receive, FetchFails, Expired, Insert, Leave, cacheVars, accountVars

(* Two requests never ask Accounts about one token at the same time. *)
THEOREM OneFlightPerToken == CacheSpec => []SingleFlight
<1>1. CacheInit => FlightInv
  BY DEF CacheInit, FlightInv, InFlight, Idle
<1>2. FlightInv => SingleFlight
  BY DEF FlightInv, SingleFlight
<1> QED
  BY <1>1, <1>2, FlightStep, TypeCorrect, PTL DEF CacheSpec

-----------------------------------------------------------------------------

SizeInv == IsFiniteSet(Held) /\ EntriesBounded

(* A step that forgets snapshots leaves no more than there were. *)
LEMMA FewerHeld ==
  ASSUME SizeInv, Held' \subseteq Held
  PROVE  SizeInv'
<1>1. IsFiniteSet(Held') /\ Cardinality(Held') <= Cardinality(Held)
  BY FS_Subset DEF SizeInv
<1>2. Cardinality(Held') \in Nat /\ Cardinality(Held) \in Nat
  BY <1>1, FS_CardinalityType DEF SizeInv
<1> QED  BY <1>1, <1>2, CacheAssumption DEF SizeInv, EntriesBounded

(* Insertion makes room first. *)
LEMMA InsertFits ==
  ASSUME SizeInv, NEW r \in Requests, Insert(r)
  PROVE  SizeInv'
<1> DEFINE K == Kept(generation)
           tok == request[r].token
           alive == {t \in Held : entries[t].fresh /\ entries[t].generation = generation}
<1>1. IsFiniteSet(K) /\ Cardinality(K) \in Nat /\ Cardinality(K) < MaxEntries
  <2>1. IsFiniteSet(alive)
    BY FS_Subset DEF SizeInv
  <2>2. Cardinality(Held) < MaxEntries => IsFiniteSet(K) /\ Cardinality(K) < MaxEntries
    BY DEF Kept, SizeInv
  <2>3. ~(Cardinality(Held) < MaxEntries) => IsFiniteSet(K) /\ Cardinality(K) < MaxEntries
    <3>1. Cardinality({}) < MaxEntries /\ IsFiniteSet({})
      BY FS_EmptySet, CacheAssumption
    <3> QED  BY <2>1, <3>1 DEF Kept
  <2> QED  BY <2>2, <2>3, FS_CardinalityType
<1>2. Held' \subseteq K \cup {tok}
  BY DEF Held, Insert
<1> HIDE DEF K, tok
<1>3. IsFiniteSet(K \cup {tok}) /\ Cardinality(K \cup {tok}) <= Cardinality(K) + 1 /\ Cardinality(K \cup {tok}) \in Nat
  <2>1. IsFiniteSet(K \cup {tok}) /\ Cardinality(K \cup {tok}) = IF tok \in K THEN Cardinality(K) ELSE Cardinality(K) + 1
    BY <1>1, FS_AddElement
  <2>2. Cardinality(K \cup {tok}) \in Nat
    BY <1>1, <2>1
  <2> QED  BY <1>1, <2>1, <2>2
<1>4. IsFiniteSet(Held') /\ Cardinality(Held') <= Cardinality(K \cup {tok})
  BY <1>2, <1>3, FS_Subset
<1>5. Cardinality(Held') \in Nat
  BY <1>4, FS_CardinalityType
<1> QED  BY <1>1, <1>3, <1>4, <1>5, CacheAssumption DEF SizeInv, EntriesBounded

(* However many stripes insert at once, the cache stays within MAX_ENTRIES. *)
THEOREM EntriesAreBounded == CacheSpec => []EntriesBounded
<1>1. CacheInit => SizeInv
  <2> SUFFICES ASSUME CacheInit PROVE SizeInv
    OBVIOUS
  <2>1. Held = {}
    BY DEF CacheInit, Held
  <2> QED  BY <2>1, FS_EmptySet, CacheAssumption DEF SizeInv, EntriesBounded
<1>2. TypeOK /\ SizeInv /\ [CacheStep]_cacheVars => SizeInv'
  <2> SUFFICES ASSUME TypeOK, SizeInv, [CacheStep]_cacheVars PROVE SizeInv'
    OBVIOUS
  <2>1. ASSUME \A t \in Tokens : entries[t] = None => entries'[t] = None PROVE SizeInv'
    <3>1. Held' \subseteq Held
      BY <2>1 DEF Held
    <3> QED  BY <3>1, FewerHeld
  <2>2. ASSUME entries' = entries PROVE SizeInv'
    BY <2>1, <2>2
  <2>3. CASE UNCHANGED cacheVars
    BY <2>2, <2>3 DEF cacheVars
  <2>4. ASSUME NEW t \in Tokens, AccountChanges(t) \/ SnapshotLapses(t) PROVE SizeInv'
    <3>1. CASE AccountChanges(t)
      BY <2>2, <3>1 DEF AccountChanges
    <3>2. CASE SnapshotLapses(t)
      BY <2>1, <3>2 DEF SnapshotLapses, TypeOK
    <3> QED  BY <2>4, <3>1, <3>2
  <2>5. ASSUME NEW n \in notices, NoticeLost(n) PROVE SizeInv'
    BY <2>2, <2>5 DEF NoticeLost
  <2>6. ASSUME NEW h \in Handlers, Refresh(h) \/ Handle(h) \/ \E n \in notices : Receive(h, n) PROVE SizeInv'
    <3>1. CASE Clear(h)
      BY <2>1, <3>1 DEF Clear
    <3>2. CASE ~Clear(h)
      BY <2>2, <2>6, <3>2 DEF Refresh, Handle, Receive, Record, Acknowledge, Unavailable
    <3> QED  BY <3>1, <3>2
  <2>7. ASSUME NEW r \in Requests, Enter(r) \/ Decide(r) \/ Leave(r) \/ \E t \in Tokens : Begin(r, t) PROVE SizeInv'
    <3>1. CASE Insert(r)
      BY <3>1, InsertFits
    <3>2. CASE ~Insert(r)
      BY <2>2, <2>7, <3>2 DEF Enter, Decide, Leave, Begin, FetchFails, Answer, Fenced, Expired
    <3> QED  BY <3>1, <3>2
  <2>8. CASE Restart
    BY <2>1, <2>8 DEF Restart
  <2> QED  BY <2>3, <2>4, <2>5, <2>6, <2>7, <2>8 DEF CacheStep
<1>3. SizeInv => EntriesBounded
  BY DEF SizeInv
<1> QED  BY <1>1, <1>2, <1>3, TypeCorrect, PTL DEF CacheSpec

-----------------------------------------------------------------------------
(* The limits part of the runs (UsageLimits), for any callers and times. *)

Ttl(r) == IF r = "ok" THEN SuccessTtl ELSE FailureTtl

Results == {None, "ok", "failed"}
LimitCallers ==
  [pc : {"idle", "waits", "told", "gone"}, asks : Nat, wait : Nat, told : Results, age : Nat]

(* What an entry has aged and what it has left make up its time to live, so *)
(* that whoever is told of a usable entry is told of a recent one.          *)
LimitsInv ==
  /\ entry \in [result : Results, left : Nat, age : Nat]
  /\ caller \in [Callers -> LimitCallers]
  /\ entry.result # None /\ entry.left > 0 => entry.left + entry.age = Ttl(entry.result)
  /\ ToldRecent

LEMMA LimitsInit == Limits!Init => LimitsInv
<1> SUFFICES ASSUME Limits!Init PROVE LimitsInv
  OBVIOUS
<1>1. entry \in [result : Results, left : Nat, age : Nat] /\ entry.result = None
  BY DEF Limits!Init, Limits!Empty, Results
<1>2. caller \in [Callers -> LimitCallers] /\ \A c \in Callers : caller[c].pc = "idle"
  BY DEF Limits!Init, LimitCallers, Results
<1> QED  BY <1>1, <1>2 DEF LimitsInv, ToldRecent, Limits!ToldRecent

(* Callers that come, wait, leave and return keep what they were told. *)
LEMMA CallersMove ==
  ASSUME LimitsInv, NEW c \in Callers, UNCHANGED entry,
         caller' \in [Callers -> LimitCallers],
         \A d \in Callers : d # c => caller'[d] = caller[d],
         caller'[c].pc # "told"
  PROVE  LimitsInv'
<1>1. ToldRecent'
  <2> SUFFICES ASSUME NEW d \in Callers, caller'[d].pc = "told"
               PROVE  caller'[d].age < Ttl(caller'[d].told)
    BY DEF ToldRecent, Limits!ToldRecent, Ttl
  <2> QED  BY DEF LimitsInv, ToldRecent, Limits!ToldRecent, Ttl
<1> QED  BY <1>1 DEF LimitsInv

(* A caller is told of an entry that is young enough. *)
LEMMA TellsRecent ==
  ASSUME LimitsInv, NEW c \in Callers, NEW e \in [result : Results, left : Nat, age : Nat],
         Limits!Tell(c, e), e.age < Ttl(e.result), Limits!LimitsAssumption
  PROVE  caller' \in [Callers -> LimitCallers] /\ ToldRecent'
<1> DEFINE Wait == IF e.result = "failed" THEN FailureTtl ELSE 0
<1>0. FailureTtl \in Nat /\ e.result \in Results /\ e.age \in Nat
  BY DEF Limits!LimitsAssumption
<1>w. Wait \in Nat
  BY <1>0
<1>c. caller' = [caller EXCEPT ![c] = [caller[c] EXCEPT !.pc = "told", !.told = e.result, !.age = e.age, !.wait = Wait]]
  BY DEF Limits!Tell, LimitsInv, LimitCallers
<1> HIDE DEF Wait
<1>1. caller' \in [Callers -> LimitCallers]
  BY <1>0, <1>w, <1>c DEF LimitsInv, LimitCallers
<1>2. ASSUME NEW d \in Callers, caller'[d].pc = "told"
      PROVE  caller'[d].age < Ttl(caller'[d].told)
  BY <1>2 DEF Limits!Tell, LimitsInv, LimitCallers, ToldRecent, Limits!ToldRecent, Ttl
<1> QED  BY <1>1, <1>2 DEF ToldRecent, Limits!ToldRecent, Ttl

LEMMA LimitsNext == LimitsInv /\ [Limits!Next]_limitsVars => LimitsInv'
<1> SUFFICES ASSUME LimitsInv, [Limits!Next]_limitsVars PROVE LimitsInv'
  OBVIOUS
<1>a. Limits!LimitsAssumption
  BY PartsAssumption
<1>1. CASE UNCHANGED limitsVars
  BY <1>1 DEF limitsVars, LimitsInv, ToldRecent, Limits!ToldRecent
<1>2. ASSUME NEW c \in Callers, Limits!Ask(c) PROVE LimitsInv'
  <2>1. caller' \in [Callers -> LimitCallers]
    BY <1>2 DEF Limits!Ask, LimitsInv, LimitCallers
  <2> QED  BY <1>2, <2>1, CallersMove DEF Limits!Ask, LimitsInv, LimitCallers
<1>3. ASSUME NEW c \in Callers, Limits!Leave(c) \/ Limits!Return(c) PROVE LimitsInv'
  <2>1. caller' \in [Callers -> LimitCallers]
    BY <1>3 DEF Limits!Leave, Limits!Return, LimitsInv, LimitCallers
  <2> QED  BY <1>3, <2>1, CallersMove DEF Limits!Leave, Limits!Return, LimitsInv, LimitCallers
<1>4. ASSUME NEW c \in Callers, Limits!Hit(c) PROVE LimitsInv'
  <2>1. entry.age < Ttl(entry.result)
    BY <1>4, <1>a DEF Limits!Hit, Limits!Usable, LimitsInv, Ttl, Limits!LimitsAssumption
  <2>2. entry \in [result : Results, left : Nat, age : Nat]
    BY DEF LimitsInv
  <2>3. Limits!Tell(c, entry) /\ entry' = entry
    BY <1>4 DEF Limits!Hit
  <2>4. caller' \in [Callers -> LimitCallers] /\ ToldRecent'
    BY <2>1, <2>2, <2>3, <1>a, TellsRecent
  <2> QED  BY <2>3, <2>4 DEF LimitsInv
<1>5. ASSUME NEW c \in Callers, Limits!Check(c) PROVE LimitsInv'
  BY <1>5 DEF Limits!Check, LimitsInv, ToldRecent, Limits!ToldRecent
<1>6. ASSUME NEW c \in Callers, Limits!CheckEnds(c) PROVE LimitsInv'
  <2>1. PICK r \in {"ok", "failed"} :
          entry' = Limits!Kept(r) /\ Limits!Tell(c, Limits!Kept(r))
    BY <1>6 DEF Limits!CheckEnds
  <2>2. /\ entry' \in [result : Results, left : Nat, age : Nat]
        /\ entry'.result = r /\ entry'.age = 0 /\ entry'.left = Ttl(r) /\ Ttl(r) \in Nat \ {0}
    BY <2>1, <1>a DEF Limits!Kept, Ttl, Results, Limits!LimitsAssumption
  <2>3. caller' \in [Callers -> LimitCallers] /\ ToldRecent'
    BY <2>1, <2>2, <1>a, TellsRecent
  <2> QED  BY <2>2, <2>3 DEF LimitsInv
<1>7. CASE Limits!Tick
  <2> DEFINE Left == IF entry.left = 0 THEN 0 ELSE entry.left - 1
             Age == IF Limits!Usable THEN entry.age + 1 ELSE entry.age
  <2>0. entry' = [entry EXCEPT !.left = Left, !.age = Age]
    BY <1>7 DEF Limits!Tick, Limits!Aged, Limits!Less, LimitsInv
  <2>1. Left \in Nat /\ Age \in Nat /\ entry \in [result : Results, left : Nat, age : Nat]
    BY DEF LimitsInv
  <2>e. entry' \in [result : Results, left : Nat, age : Nat]
    <3> HIDE DEF Left, Age
    <3> QED  BY <2>0, <2>1
  <2>2. entry'.result # None /\ entry'.left > 0 => entry'.left + entry'.age = Ttl(entry'.result)
    BY <2>0, <2>1 DEF Limits!Usable, LimitsInv, Ttl
  <2>3. caller' \in [Callers -> LimitCallers]
    BY <1>7 DEF Limits!Tick, Limits!Less, LimitsInv, LimitCallers
  <2>4. ToldRecent'
    BY <1>7 DEF Limits!Tick, LimitsInv, LimitCallers, ToldRecent, Limits!ToldRecent
  <2> QED  BY <2>e, <2>2, <2>3, <2>4 DEF LimitsInv
<1> QED  BY <1>1, <1>2, <1>3, <1>4, <1>5, <1>6, <1>7 DEF Limits!Next

(* Nobody is told of limits that were checked longer ago than they are     *)
(* kept, or of a failure that is past, however many wait for the lock.     *)
THEOREM LimitsAreRecent == MCSpec => []ToldRecent
<1>1. MCInit => LimitsInv
  BY LimitsInit DEF MCInit
<1>2. LimitsInv /\ [MCNext]_<<part, cacheVars, callsVars, limitsVars>> => LimitsInv'
  BY LimitsNext DEF MCNext, CachePart, CallsPart, LimitsPart
<1>3. LimitsInv => ToldRecent
  BY DEF LimitsInv
<1> QED  BY <1>1, <1>2, <1>3, PTL DEF MCSpec

-----------------------------------------------------------------------------
(* The list that is stored: each account once (AccessList::new). *)

(* Induction over a set of numbers: no smallest number is missing from it. *)
LEMMA InductiveSet ==
  ASSUME NEW S, 0 \in S, \A n \in Nat : n \in S => n + 1 \in S
  PROVE  Nat \subseteq S
<1> DEFINE R == OpToRel(<, Nat)
           absent == Nat \ S
<1>1. IsWellFoundedOn(R, Nat) /\ absent \subseteq Nat
  BY NatLessThanWellFounded
<1>2. \A x, y \in Nat : x < y => <<x, y>> \in R
  BY DEF OpToRel
<1> HIDE DEF R, absent
<1>3. ASSUME absent # {} PROVE FALSE
  <2>1. PICK x \in absent : \A y \in absent : ~(<<y, x>> \in R)
    BY <1>1, <1>3, WFMin
  <2>2. x \in Nat /\ x # 0 /\ x - 1 \in Nat /\ x - 1 < x
    BY <2>1 DEF absent
  <2>3. x - 1 \in S
    BY <1>2, <2>1, <2>2 DEF absent
  <2> QED  BY <2>1, <2>2, <2>3 DEF absent
<1> QED  BY <1>3 DEF absent

Elements(s) == {s[i] : i \in DOMAIN s}

(* f is the function of Once, up to n. *)
Collects(f, s, n) ==
  f = [i \in 0..n |->
         IF i = 0 THEN <<>> ELSE IF s[i] \in Elements(f[i - 1]) THEN f[i - 1] ELSE Append(f[i - 1], s[i])]

LEMMA CollectsExists ==
  ASSUME NEW s
  PROVE  \A n \in Nat : \E f : Collects(f, s, n)
<1> DEFINE N == {n \in Nat : \E f : Collects(f, s, n)}
<1>1. 0 \in N
  <2>1. Collects([i \in 0..0 |-> <<>>], s, 0)
    BY DEF Collects
  <2> QED  BY <2>1
<1>2. ASSUME NEW n \in Nat, n \in N PROVE n + 1 \in N
  <2>1. PICK f : Collects(f, s, n)
    BY <1>2
  <2> DEFINE next == IF s[n + 1] \in Elements(f[n]) THEN f[n] ELSE Append(f[n], s[n + 1])
             g == [i \in 0..(n + 1) |-> IF i = n + 1 THEN next ELSE f[i]]
  <2>2. /\ \A i \in 0..n : g[i] = f[i]
        /\ g[n + 1] = next /\ g = [i \in 0..(n + 1) |-> g[i]]
    OBVIOUS
  <2>3. \A i \in 0..n : f[i] = IF i = 0 THEN <<>> ELSE IF s[i] \in Elements(f[i - 1]) THEN f[i - 1]
                               ELSE Append(f[i - 1], s[i])
    BY <2>1 DEF Collects
  <2> HIDE DEF g
  <2>4. ASSUME NEW i \in 0..(n + 1)
        PROVE  g[i] = IF i = 0 THEN <<>> ELSE IF s[i] \in Elements(g[i - 1]) THEN g[i - 1]
                      ELSE Append(g[i - 1], s[i])
    <3>1. CASE i = n + 1
      <4>1. i # 0 /\ i - 1 = n /\ n \in 0..n
        BY <3>1
      <4>2. g[i - 1] = f[n]
        BY <2>2, <4>1
      <4> QED  BY <2>2, <3>1, <4>1, <4>2
    <3>2. CASE i \in 0..n
      <4>0. i # 0 => i - 1 \in 0..n
        BY <3>2
      <4>1. g[i] = f[i] /\ (i # 0 => g[i - 1] = f[i - 1])
        BY <2>2, <3>2, <4>0
      <4> QED  BY <2>3, <3>2, <4>1
    <3> QED  BY <2>4, <3>1, <3>2
  <2>5. Collects(g, s, n + 1)
    BY <2>2, <2>4 DEF Collects
  <2> QED  BY <2>5
<1> HIDE DEF N
<1>3. Nat \subseteq N
  BY <1>1, <1>2, InductiveSet
<1> QED  BY <1>3 DEF N

(* t holds the first n elements of s, each once, the first one first. *)
Collected(t, s, n) ==
  /\ Elements(t) = {s[i] : i \in 1..n}
  /\ \A i, j \in DOMAIN t : t[i] = t[j] => i = j
  /\ n > 0 => t # <<>> /\ t[1] = s[1]

LEMMA CollectNext ==
  ASSUME NEW S, NEW s \in Seq(S), NEW n \in Nat, n + 1 <= Len(s),
         NEW t \in Seq(S), Collected(t, s, n), NEW u,
         u = IF s[n + 1] \in Elements(t) THEN t ELSE Append(t, s[n + 1])
  PROVE  u \in Seq(S) /\ Collected(u, s, n + 1)
<1>n. /\ n + 1 \in 1..Len(s) /\ s[n + 1] \in S /\ Len(t) \in Nat
      /\ \A i : i \in 1..(n + 1) <=> (i \in 1..n \/ i = n + 1)
  OBVIOUS
<1>0. /\ \A e : e \in Elements(t) <=> \E i \in 1..n : s[i] = e
      /\ \A e : e \in {s[i] : i \in 1..(n + 1)} <=> (e \in Elements(t) \/ e = s[n + 1])
  BY <1>n DEF Collected
<1>1. CASE s[n + 1] \in Elements(t)
  <2>1. u = t /\ Elements(t) = {s[i] : i \in 1..(n + 1)}
    BY <1>0, <1>1
  <2>2. n > 0
    BY <1>0, <1>1
  <2> QED  BY <2>1, <2>2 DEF Collected
<1>2. CASE s[n + 1] \notin Elements(t)
  <2>1. /\ u = Append(t, s[n + 1]) /\ u \in Seq(S) /\ Len(u) = Len(t) + 1 /\ DOMAIN u = 1..(Len(t) + 1)
        /\ u[Len(t) + 1] = s[n + 1] /\ \A i \in 1..Len(t) : u[i] = t[i]
    BY <1>n, <1>2
  <2>2. DOMAIN t = 1..Len(t) /\ \A i : i \in DOMAIN u <=> (i \in 1..Len(t) \/ i = Len(t) + 1)
    BY <1>n, <2>1
  <2>3. \A e : e \in Elements(u) <=> (e \in Elements(t) \/ e = s[n + 1])
    BY <2>1, <2>2 DEF Elements
  <2>4. Elements(u) = {s[i] : i \in 1..(n + 1)}
    BY <1>0, <2>3
  <2>5. ASSUME NEW i \in DOMAIN u, NEW j \in DOMAIN u, u[i] = u[j] PROVE i = j
    BY <1>2, <2>1, <2>2, <2>5 DEF Collected, Elements
  <2>6. u # <<>> /\ u[1] = s[1]
    <3>1. CASE n = 0
      <4>1. Elements(t) = {}
        BY <1>0, <3>1
      <4>2. 1 \notin DOMAIN t
        BY <4>1 DEF Elements
      <4>3. Len(t) = 0
        BY <2>2, <4>2, <1>n
      <4> QED  BY <2>1, <3>1, <4>3
    <3>2. CASE n > 0
      <4>1. t # <<>> /\ t[1] = s[1] /\ 1 \in 1..Len(t)
        BY <3>2, <1>n DEF Collected
      <4> QED  BY <2>1, <4>1
    <3> QED  BY <3>1, <3>2
  <2> QED  BY <2>1, <2>4, <2>5, <2>6 DEF Collected
<1> QED  BY <1>1, <1>2

LEMMA OnceCollects ==
  ASSUME NEW S, NEW s \in Seq(S)
  PROVE  Calls!Once(s) \in Seq(S) /\ Collected(Calls!Once(s), s, Len(s))
<1> DEFINE f == CHOOSE f : Collects(f, s, Len(s))
           N == {n \in Nat : n <= Len(s) => f[n] \in Seq(S) /\ Collected(f[n], s, n)}
<1>1. Collects(f, s, Len(s)) /\ Len(s) \in Nat
  BY CollectsExists
<1>2. Calls!Once(s) = f[Len(s)]
  BY DEF Calls!Once, Calls!ToSet, Collects, Elements
<1> HIDE DEF f
<1>0. \A i \in 0..Len(s) : f[i] = IF i = 0 THEN <<>> ELSE IF s[i] \in Elements(f[i - 1]) THEN f[i - 1]
                                  ELSE Append(f[i - 1], s[i])
  BY <1>1 DEF Collects
<1>3. 0 \in N
  <2>1. f[0] = <<>>
    BY <1>0, <1>1
  <2>2. Collected(<<>>, s, 0)
    BY DEF Collected, Elements
  <2>3. f[0] \in Seq(S) /\ Collected(f[0], s, 0)
    BY <2>1, <2>2
  <2> QED  BY <2>3
<1>4. ASSUME NEW n \in Nat, n \in N PROVE n + 1 \in N
  <2>1. CASE n + 1 <= Len(s)
    <3>1. f[n] \in Seq(S) /\ Collected(f[n], s, n)
      BY <1>1, <1>4, <2>1
    <3>2. n + 1 \in 0..Len(s) /\ n + 1 # 0 /\ n + 1 - 1 = n
      BY <1>1, <2>1
    <3>3. f[n + 1] = IF s[n + 1] \in Elements(f[n + 1 - 1]) THEN f[n + 1 - 1] ELSE Append(f[n + 1 - 1], s[n + 1])
      BY <1>0, <3>2
    <3>4. f[n + 1] = IF s[n + 1] \in Elements(f[n]) THEN f[n] ELSE Append(f[n], s[n + 1])
      BY <3>2, <3>3
    <3>5. f[n + 1] \in Seq(S) /\ Collected(f[n + 1], s, n + 1)
      BY <2>1, <3>1, <3>4, CollectNext
    <3> QED  BY <3>5
  <2> QED  BY <2>1
<1> HIDE DEF N
<1>5. Nat \subseteq N
  BY <1>3, <1>4, InductiveSet
<1> QED  BY <1>1, <1>2, <1>5 DEF N

(* What is stored is injective, has the owner first and holds all others. *)
LEMMA OwnerFirst ==
  ASSUME NEW S, NEW list \in Seq(S), Owner \in S
  PROVE  /\ Calls!WithOwner(list)[1] = Owner /\ Calls!IsInjective(Calls!WithOwner(list))
         /\ Calls!ToSet(Calls!WithOwner(list)) = {Owner} \cup Calls!ToSet(list)
         /\ Len(Calls!WithOwner(list)) \in Nat
<1> DEFINE s == <<Owner>> \o list
           t == Calls!Once(s)
<1>1. s \in Seq(S) /\ Len(s) = Len(list) + 1 /\ Len(list) \in Nat /\ DOMAIN list = 1..Len(list)
      /\ s[1] = Owner /\ \A i \in 1..Len(list) : s[i + 1] = list[i]
  OBVIOUS
<1>2. t \in Seq(S) /\ Collected(t, s, Len(s)) /\ Calls!WithOwner(list) = t
  BY <1>1, OnceCollects DEF Calls!WithOwner
<1> HIDE DEF s, t
<1>3. \A e : e \in {s[i] : i \in 1..Len(s)} <=> (e = Owner \/ \E i \in 1..Len(list) : list[i] = e)
  <2>1. \A i \in 1..Len(s) : i = 1 \/ (i - 1 \in 1..Len(list) /\ s[i] = list[i - 1])
    <3> TAKE i \in 1..Len(s)
    <3>1. CASE i # 1
      <4>1. i - 1 \in 1..Len(list) /\ (i - 1) + 1 = i
        BY <1>1, <3>1
      <4> QED  BY <1>1, <4>1
    <3> QED  BY <3>1
  <2>2. 1 \in 1..Len(s) /\ \A i \in 1..Len(list) : i + 1 \in 1..Len(s)
    BY <1>1
  <2> QED  BY <1>1, <2>1, <2>2
<1>4. \A e : e \in Elements(t) <=> (e = Owner \/ \E i \in 1..Len(list) : list[i] = e)
  BY <1>2, <1>3 DEF Collected
<1>5. Calls!ToSet(t) = {Owner} \cup Calls!ToSet(list)
  BY <1>1, <1>4 DEF Elements, Calls!ToSet
<1> QED  BY <1>1, <1>2, <1>5 DEF Collected, Calls!IsInjective

-----------------------------------------------------------------------------
(* The calls part of the runs (AccountsCalls), for any requests and accounts. *)

CallsTyped ==
  /\ pc = [r \in Calls!Asking |-> pc[r]] /\ answer = [r \in Calls!Asking |-> answer[r]]
  /\ named = [r \in Calls!Asking |-> named[r]] /\ result = [r \in Calls!Asking |-> result[r]]
  /\ held = [r \in Shares |-> held[r]]
  /\ holder \in [Handles -> Accounts \cup {None}] /\ former \in [Handles -> SUBSET Accounts]
  /\ active \subseteq Accounts
  /\ \A r \in Shares : named[r] \in Seq(Accounts)

(* A request has a result when it is done, and no answer while it waits for none. *)
Resting(r) ==
  /\ pc[r] # "done" => result[r] = None
  /\ pc[r] \in {"new", "share", "done"} => answer[r] = None

(* An answer that is taken for a refusal is one. *)
RefusalKnown(r) == answer[r] # None /\ ~Calls!Usable(r) /\ Calls!Refusal(answer[r]) => r \in said
(* A sign-in that is refused without Accounts: no token, or outside of its time. *)
Outside(r) ==
  \/ r \in Bearers /\ TokenOf[r] \in Malformed
  \/ r \in Calls!Signing /\ (TokenOf[r] \in expired \/ r \in soon)
SignInKept(r) == Calls!Ended(r, 401) => r \in said \/ Outside(r)

(* What a share has resolved was named, or held a handle that was named. *)
ResolvedIn(asked, list, facts) ==
  \A i \in DOMAIN list : asked[i] = list[i] \/ <<asked[i], list[i]>> \in facts
Resolved(r) == ResolvedIn(Asked[r], named[r], held[r])
LookedUp(r) ==
  answer[r] # None /\ Calls!Usable(r) /\ Calls!IsIt(answer[r].body, Calls!Selector(r)) =>
    answer[r].body.account \in Accounts /\ <<Calls!Selector(r), answer[r].body.account>> \in held[r]
Stored(r) ==
  Calls!Ended(r, 200) =>
    LET list == result[r].list IN
      /\ \A account \in Calls!ToSet(list) \ {Owner} :
           \E i \in DOMAIN Asked[r] : Asked[r][i] = account \/ <<Asked[r][i], account>> \in held[r]
      /\ list[1] = Owner /\ Calls!IsInjective(list) /\ Len(list) <= MaxListed
      /\ Calls!ToSet(list) = {Owner} \cup Calls!ToSet(named[r]) /\ Len(named[r]) = Len(Asked[r])
ShareFine(r) ==
  /\ pc[r] \in {"new", "share", "lookup", "done"}
  /\ pc[r] = "new" => named[r] = <<>>
  /\ pc[r] \in {"share", "lookup"} => Calls!Held \subseteq held[r]
  /\ Len(named[r]) <= Len(Asked[r])
  /\ Resolved(r)
  /\ pc[r] = "lookup" => Calls!Remain(r) /\ Calls!Selector(r) \in Handles /\ LookedUp(r)
  /\ Stored(r)

(* What the claims about a token say is true of it, or will be. *)
ClaimsTrue(r, c) ==
  /\ c.app = AppOf[TokenOf[r]] /\ c.type = KindOf[TokenOf[r]]
  /\ c.active => r \in valid
  /\ ~c.active => r \in said
ClaimsTold(r, c) ==
  /\ c.app = AppOf[TokenOf[r]] /\ c.type = KindOf[TokenOf[r]]
  /\ c.active => r \in valid'
  /\ ~c.active => r \in said'
LetIn(r) ==
  Calls!Ended(r, 200) =>
    /\ AppOf[TokenOf[r]] = "browser" /\ KindOf[TokenOf[r]] = "access_token"
    /\ TokenOf[r] \notin Malformed /\ r \in valid
SigningFine(r) ==
  /\ pc[r] \in {"new", "token", "introspect", "done"}
  /\ pc[r] = "introspect" => TokenOf[r] \notin Malformed
  /\ pc[r] \in {"token", "introspect"} /\ TokenOf[r] \in early => r \in soon
  /\ pc[r] = "introspect" /\ answer[r] # None /\ Calls!Usable(r) => ClaimsTrue(r, answer[r].body)
  /\ LetIn(r)

CallFine(r) ==
  /\ Resting(r) /\ RefusalKnown(r) /\ SignInKept(r)
  /\ r \in Shares => ShareFine(r)
  /\ r \in Calls!Signing => SigningFine(r)

CallsInv == CallsTyped /\ \A r \in Calls!Asking : CallFine(r)

LEMMA CallsConstants ==
  /\ Calls!Asking = Calls!Signing \cup Shares /\ Calls!Signing \cap Shares = {}
  /\ None \notin Accounts /\ None \notin Handles /\ Owner \in Accounts
  /\ Asked \in [Shares -> Seq(Accounts \cup Handles)] /\ MaxListed \in Nat
BY PartsAssumption DEF Calls!CallsAssumption, Calls!Asking

LEMMA CallsInit == Calls!Init => CallsInv
<1> SUFFICES ASSUME Calls!Init PROVE CallsInv
  OBVIOUS
<1> USE CallsConstants
<1>1. CallsTyped
  BY DEF Calls!Init, CallsTyped
<1>2. ASSUME NEW r \in Calls!Asking PROVE CallFine(r)
  <2>1. pc[r] = "new" /\ answer[r] = None /\ named[r] = <<>> /\ result[r] = None
    BY DEF Calls!Init
  <2>2. Resting(r) /\ RefusalKnown(r) /\ SignInKept(r)
    BY <2>1 DEF Resting, RefusalKnown, SignInKept, Outside, Calls!Ended
  <2>3. r \in Shares => ShareFine(r)
    BY <2>1 DEF ShareFine, Resolved, ResolvedIn, Stored, Calls!Ended
  <2>4. r \in Calls!Signing => SigningFine(r)
    BY <2>1 DEF SigningFine, LetIn, Calls!Ended
  <2> QED  BY <2>2, <2>3, <2>4 DEF CallFine
<1> QED  BY <1>1, <1>2 DEF CallsInv

-----------------------------------------------------------------------------
LEMMA PutFacts ==
  ASSUME NEW S, NEW f, f = [q \in S |-> f[q]], NEW r \in S, NEW value
  PROVE  /\ Calls!Put(f, r, value) = [q \in S |-> Calls!Put(f, r, value)[q]]
         /\ Calls!Put(f, r, value)[r] = value
         /\ \A q \in S : q # r => Calls!Put(f, r, value)[q] = f[q]
BY DEF Calls!Put

(* A step of the request r leaves the others alone. *)
Shaped ==
  /\ pc' = [q \in Calls!Asking |-> pc'[q]] /\ answer' = [q \in Calls!Asking |-> answer'[q]]
  /\ named' = [q \in Calls!Asking |-> named'[q]] /\ result' = [q \in Calls!Asking |-> result'[q]]
  /\ held' = [q \in Shares |-> held'[q]]
Same(q) == pc'[q] = pc[q] /\ answer'[q] = answer[q] /\ named'[q] = named[q] /\ result'[q] = result[q]
Only(r) ==
  /\ Shaped
  /\ \A q \in Calls!Asking : q # r => Same(q)
  /\ \A q \in Shares : q # r => held'[q] = held[q]
  /\ said \subseteq said'
  /\ \A q : q # r => (q \in valid <=> q \in valid') /\ (q \in soon <=> q \in soon')
  /\ holder' = holder /\ former' = former /\ active' = active /\ live' = live
  /\ expired' = expired /\ early' = early

(* A request that keeps its state is as it was. *)
LEMMA Still ==
  ASSUME NEW q \in Calls!Asking, CallFine(q), Same(q), q \in Shares => held'[q] = held[q],
         q \in said => q \in said', q \in valid <=> q \in valid', q \in soon <=> q \in soon',
         expired' = expired, early' = early,
         Calls!Held' = Calls!Held
  PROVE  CallFine(q)'
<1>1. (Calls!Ended(q, 200) <=> Calls!Ended(q, 200)') /\ (Calls!Ended(q, 401) <=> Calls!Ended(q, 401)')
      /\ (Calls!Usable(q) <=> Calls!Usable(q)')
      /\ Calls!Selector(q)' = Calls!Selector(q) /\ (Calls!Remain(q) <=> Calls!Remain(q)')
  BY DEF Same, Calls!Ended, Calls!Usable, Calls!Selector, Calls!Remain
<1>2. Resting(q)' /\ RefusalKnown(q)' /\ SignInKept(q)'
  BY <1>1 DEF CallFine, Same, Resting, RefusalKnown, SignInKept, Outside
<1>3. ASSUME q \in Shares PROVE ShareFine(q)'
  <2>1. ShareFine(q)
    BY <1>3 DEF CallFine
  <2>2. Resolved(q)'
    BY <1>3, <2>1 DEF Same, ShareFine, Resolved
  <2>3. LookedUp(q) => LookedUp(q)'
    BY <1>1, <1>3 DEF Same, LookedUp, Calls!IsIt
  <2>4. Stored(q)'
    BY <1>1, <1>3, <2>1 DEF Same, ShareFine, Stored
  <2> QED  BY <1>1, <1>3, <2>1, <2>2, <2>3, <2>4 DEF Same, ShareFine
<1>4. ASSUME q \in Calls!Signing PROVE SigningFine(q)'
  BY <1>1, <1>4 DEF Same, CallFine, SigningFine, ClaimsTrue, LetIn
<1> QED  BY <1>2, <1>3, <1>4 DEF CallFine

LEMMA Untouched ==
  ASSUME NEW r, NEW q \in Calls!Asking, Only(r), q # r, CallFine(q)
  PROVE  CallFine(q)'
<1>1. /\ Same(q) /\ (q \in Shares => held'[q] = held[q])
      /\ (q \in said => q \in said') /\ (q \in valid <=> q \in valid')
      /\ (q \in soon <=> q \in soon') /\ expired' = expired /\ early' = early
  BY DEF Only
<1>2. Calls!Held' = Calls!Held
  BY DEF Only, Calls!Held
<1> QED  BY <1>1, <1>2, Still

LEMMA StepFine ==
  ASSUME CallsInv, NEW r \in Calls!Asking, Only(r), CallFine(r)',
         r \in Shares => named'[r] \in Seq(Accounts)
  PROVE  CallsInv'
<1>1. \A q \in Calls!Asking : CallFine(q)'
  BY Untouched DEF CallsInv
<1>2. \A q \in Shares : named'[q] \in Seq(Accounts)
  BY CallsConstants DEF CallsInv, CallsTyped, Only, Same
<1>3. CallsTyped'
  BY <1>2 DEF CallsInv, CallsTyped, Only, Shaped
<1> QED  BY <1>1, <1>3 DEF CallsInv

LEMMA EndFacts ==
  ASSUME CallsTyped, NEW r \in Calls!Asking, NEW what, Calls!EndWith(r, what), UNCHANGED named,
         UNCHANGED <<Calls!accountsVars, Calls!historyVars>>
  PROVE  Only(r) /\ pc'[r] = "done" /\ answer'[r] = None /\ result'[r] = what /\ named' = named
<1>1. pc' = Calls!Put(pc, r, "done") /\ result' = Calls!Put(result, r, what) /\ answer' = Calls!Put(answer, r, None)
  BY DEF Calls!EndWith, Calls!Goto
<1>2. /\ pc = [q \in Calls!Asking |-> pc[q]] /\ result = [q \in Calls!Asking |-> result[q]]
      /\ answer = [q \in Calls!Asking |-> answer[q]] /\ named = [q \in Calls!Asking |-> named[q]]
      /\ held = [q \in Shares |-> held[q]]
  BY DEF CallsTyped
<1>3. pc' = [q \in Calls!Asking |-> pc'[q]] /\ pc'[r] = "done" /\ \A q \in Calls!Asking : q # r => pc'[q] = pc[q]
  BY <1>1, <1>2, PutFacts
<1>4. result' = [q \in Calls!Asking |-> result'[q]] /\ result'[r] = what
      /\ \A q \in Calls!Asking : q # r => result'[q] = result[q]
  BY <1>1, <1>2, PutFacts
<1>5. answer' = [q \in Calls!Asking |-> answer'[q]] /\ answer'[r] = None
      /\ \A q \in Calls!Asking : q # r => answer'[q] = answer[q]
  BY <1>1, <1>2, PutFacts
<1>6. named' = named /\ held' = held /\ said' = said /\ valid' = valid /\ soon' = soon /\ early' = early
      /\ holder' = holder /\ former' = former /\ active' = active /\ live' = live /\ expired' = expired
  BY DEF Calls!accountsVars, Calls!historyVars
<1> QED  BY <1>2, <1>3, <1>4, <1>5, <1>6 DEF Only, Shaped, Same

(* A failure is told as a 401 only if there was one. *)
LEMMA FailStep ==
  ASSUME CallsInv, NEW r \in Calls!Asking, NEW kind, NEW status, Calls!Fail(r, kind, status),
         UNCHANGED <<Calls!accountsVars, Calls!historyVars>>,
         Calls!Public(kind, status) = 401 => r \in said \/ Outside(r)
  PROVE  CallsInv'
<1> DEFINE what == [status |-> Calls!Public(kind, status)]
<1>0. CallsTyped /\ CallFine(r) /\ Calls!EndWith(r, what) /\ UNCHANGED named
  BY DEF CallsInv, Calls!Fail
<1>s. what.status = Calls!Public(kind, status) /\ Calls!Public(kind, status) # 200
  BY DEF Calls!Public
<1> HIDE DEF what
<1>1. Only(r) /\ pc'[r] = "done" /\ answer'[r] = None /\ result'[r] = what /\ named' = named
  BY <1>0, EndFacts
<1>2. said' = said /\ valid' = valid /\ soon' = soon /\ held' = held /\ expired' = expired
  BY DEF Calls!accountsVars, Calls!historyVars
<1>3. Resting(r)' /\ RefusalKnown(r)' /\ SignInKept(r)' /\ ~Calls!Ended(r, 200)'
  BY <1>1, <1>2, <1>s DEF Resting, RefusalKnown, SignInKept, Outside, Calls!Ended
<1>4. ASSUME r \in Shares PROVE ShareFine(r)'
  <2>1. ShareFine(r)
    BY <1>0, <1>4 DEF CallFine
  <2>2. Resolved(r)' /\ Stored(r)'
    BY <1>1, <1>2, <1>3, <2>1 DEF ShareFine, Resolved, ResolvedIn, Stored
  <2> QED  BY <1>1, <2>1, <2>2 DEF ShareFine
<1>5. r \in Calls!Signing => SigningFine(r)'
  BY <1>1, <1>3 DEF SigningFine, LetIn
<1>6. r \in Shares => named'[r] \in Seq(Accounts)
  BY <1>0, <1>1 DEF CallsTyped
<1> QED  BY <1>1, <1>3, <1>4, <1>5, <1>6, StepFine DEF CallFine

(* Accounts answers, or what it answers is lost. *)
LEMMA AnswerStep ==
  ASSUME CallsInv, NEW r \in Calls!Asking, NEW a, answer' = Calls!Put(answer, r, a),
         pc[r] \in {"token", "introspect", "lookup"},
         UNCHANGED <<Calls!accountsVars, pc, named, result, held, soon>>,
         said \subseteq said', \A q : q # r => (q \in valid <=> q \in valid'),
         ~(a.status = 200 /\ a.whole) /\ Calls!Refusal(a) => r \in said',
         pc[r] = "introspect" /\ a.status = 200 /\ a.whole => ClaimsTold(r, a.body),
         pc[r] = "lookup" /\ a.status = 200 /\ a.whole /\ Calls!IsIt(a.body, Calls!Selector(r)) =>
           a.body.account \in Accounts /\ <<Calls!Selector(r), a.body.account>> \in held[r]
  PROVE  CallsInv'
<1>0. CallsTyped /\ CallFine(r)
  BY DEF CallsInv
<1>1. answer' = [q \in Calls!Asking |-> answer'[q]] /\ answer'[r] = a
      /\ \A q \in Calls!Asking : q # r => answer'[q] = answer[q]
  BY <1>0, PutFacts DEF CallsTyped
<1>2. /\ pc' = pc /\ named' = named /\ result' = result /\ held' = held /\ expired' = expired
      /\ holder' = holder /\ former' = former /\ active' = active /\ live' = live
      /\ early' = early /\ soon' = soon
  BY DEF Calls!accountsVars
<1>3. Only(r)
  BY <1>0, <1>1, <1>2 DEF Only, Shaped, Same, CallsTyped
<1>4. ~Calls!Ended(r, 200)' /\ ~Calls!Ended(r, 401)'
  BY <1>0, <1>2 DEF CallFine, Resting, Calls!Ended
<1>5. Resting(r)' /\ SignInKept(r)'
  BY <1>0, <1>2, <1>4 DEF CallFine, Resting, SignInKept, Outside
<1>6. RefusalKnown(r)'
  BY <1>1 DEF RefusalKnown, Calls!Usable, Calls!Refusal
<1>7. ASSUME r \in Shares PROVE ShareFine(r)'
  <2>1. ShareFine(r) /\ Calls!Held' = Calls!Held /\ Calls!Selector(r)' = Calls!Selector(r)
        /\ (Calls!Remain(r) <=> Calls!Remain(r)')
    BY <1>0, <1>2, <1>7 DEF CallFine, Calls!Held, Calls!Selector, Calls!Remain
  <2>2. pc[r] = "lookup" => LookedUp(r)'
    BY <1>1, <1>2, <2>1 DEF LookedUp, Calls!Usable, Calls!IsIt
  <2>3. Resolved(r)' /\ Stored(r)'
    BY <1>2, <1>4, <2>1 DEF ShareFine, Resolved, ResolvedIn, Stored
  <2> QED  BY <1>2, <2>1, <2>2, <2>3 DEF ShareFine
<1>8. ASSUME r \in Calls!Signing PROVE SigningFine(r)'
  <2>1. LetIn(r)'
    BY <1>4 DEF LetIn
  <2>2. pc'[r] = "introspect" /\ Calls!Usable(r)' => ClaimsTrue(r, answer[r].body)'
    BY <1>1, <1>2 DEF Calls!Usable, ClaimsTrue, ClaimsTold
  <2> QED  BY <1>0, <1>2, <1>8, <2>1, <2>2 DEF CallFine, SigningFine
<1>9. r \in Shares => named'[r] \in Seq(Accounts)
  BY <1>0, <1>2 DEF CallsTyped
<1> QED  BY <1>3, <1>5, <1>6, <1>7, <1>8, <1>9, StepFine DEF CallFine

-----------------------------------------------------------------------------
(* One lemma for each step of a request. *)

LEMMA FailuresKnown ==
  ASSUME NEW r, NEW a \in Calls!Failures \cup {[status |-> 404, whole |-> TRUE]}, Calls!Reply(r, a)
  PROVE  /\ ~(a.status = 200 /\ a.whole) /\ said \subseteq said' /\ answer' = Calls!Put(answer, r, a)
         /\ Calls!Refusal(a) => r \in said'
<1>1. CASE a \in [status : {0, 200}, whole : {FALSE}]
  BY <1>1 DEF Calls!Reply
<1>2. CASE a \in [status : {401, 403, 429, 500}, whole : BOOLEAN]
  <2>1. a.status # 200
    BY <1>2
  <2> QED  BY <2>1 DEF Calls!Reply
<1>3. CASE a = [status |-> 404, whole |-> TRUE]
  <2>1. a.status # 200
    BY <1>3
  <2> QED  BY <2>1 DEF Calls!Reply
<1> QED  BY <1>1, <1>2, <1>3 DEF Calls!Failures

LEMMA ServeTokenStep ==
  ASSUME CallsInv, NEW r \in Calls!Asking, Calls!ServeToken(r)
  PROVE  CallsInv'
<1>1. PICK a \in {Calls!Answered(Calls!Name(AccountOf[TokenOf[r]])), Calls!Refused} \cup Calls!Failures : Calls!Reply(r, a)
  BY DEF Calls!ServeToken
<1>2. pc[r] = "token" /\ UNCHANGED <<Calls!accountsVars, pc, named, result, held, valid, soon>>
  BY DEF Calls!ServeToken
<1>3. said \subseteq said' /\ answer' = Calls!Put(answer, r, a)
  BY <1>1 DEF Calls!Reply
<1>4. ~(a.status = 200 /\ a.whole) /\ Calls!Refusal(a) => r \in said'
  <2>1. CASE a \in Calls!Failures
    BY <1>1, <2>1, FailuresKnown
  <2>2. CASE a = Calls!Refused
    BY <1>1, <2>2 DEF Calls!Reply
  <2>3. CASE a = Calls!Answered(Calls!Name(AccountOf[TokenOf[r]]))
    BY <2>3 DEF Calls!Answered
  <2> QED  BY <1>1, <2>1, <2>2, <2>3
<1> QED  BY <1>2, <1>3, <1>4, AnswerStep

LEMMA ServeIntrospectionStep ==
  ASSUME CallsInv, NEW r \in Calls!Asking, Calls!ServeIntrospection(r)
  PROVE  CallsInv'
<1> DEFINE t == TokenOf[r]
           claims == [active |-> Calls!Good(t), app |-> AppOf[t], type |-> KindOf[t], name |-> Calls!Name(AccountOf[t])]
<1>1. /\ pc[r] = "introspect" /\ UNCHANGED <<Calls!accountsVars, pc, named, result, held, soon>>
      /\ valid' = IF Calls!Good(t) THEN valid \cup {r} ELSE valid \ {r}
      /\ \/ /\ answer' = Calls!Put(answer, r, Calls!Answered(claims))
            /\ said' = IF Calls!Good(t) THEN said ELSE said \cup {r}
         \/ \E a \in Calls!Failures : Calls!Reply(r, a)
  BY DEF Calls!ServeIntrospection
<1>2. \A q : q # r => (q \in valid <=> q \in valid')
  BY <1>1
<1>3. ASSUME NEW a \in Calls!Failures, Calls!Reply(r, a) PROVE CallsInv'
  <2>1. /\ ~(a.status = 200 /\ a.whole) /\ said \subseteq said' /\ answer' = Calls!Put(answer, r, a)
        /\ Calls!Refusal(a) => r \in said'
    BY <1>3, FailuresKnown
  <2> QED  BY <1>1, <1>2, <2>1, AnswerStep
<1>4. ASSUME NEW c, c = claims, answer' = Calls!Put(answer, r, Calls!Answered(c)),
             said' = IF Calls!Good(t) THEN said ELSE said \cup {r}
      PROVE  CallsInv'
  <2>1. c.app = AppOf[t] /\ c.type = KindOf[t]
    BY <1>4
  <2>2. c.active <=> Calls!Good(t)
    BY <1>4
  <2>3. ClaimsTold(r, c)
    BY <1>1, <1>4, <2>1, <2>2 DEF ClaimsTold
  <2> HIDE DEF claims
  <2>4. said \subseteq said'
    BY <1>4
  <2>5. PICK a : a = Calls!Answered(c)
    OBVIOUS
  <2>6. a.status = 200 /\ a.whole /\ a.body = c
    BY <2>5 DEF Calls!Answered
  <2>7. answer' = Calls!Put(answer, r, a)
    BY <1>4, <2>5
  <2> QED  BY <1>1, <1>2, <2>3, <2>4, <2>6, <2>7, AnswerStep
<1> QED  BY <1>1, <1>3, <1>4

LEMMA NameHeld ==
  ASSUME CallsTyped, NEW h \in Handles, NEW account \in Accounts, account \in active, Calls!Name(account) = h
  PROVE  <<h, account>> \in Calls!Held
<1>1. h # None
  BY CallsConstants
<1>2. holder[h] = account
  BY <1>1 DEF Calls!Name
<1> QED  BY <1>2 DEF Calls!Held

LEMMA ServeLookupStep ==
  ASSUME CallsInv, NEW r \in Calls!Asking, Calls!ServeLookup(r)
  PROVE  CallsInv'
<1> DEFINE h == Calls!Selector(r)
<1>1. /\ pc[r] = "lookup" /\ UNCHANGED <<Calls!accountsVars, pc, named, result, held, valid, soon>>
      /\ \/ \E account \in ({holder[h]} \cup former[h]) \ {None} :
              Calls!Reply(r, Calls!Answered([account |-> account, id |-> Calls!Name(account), open |-> account \in active]))
         \/ \E a \in Calls!Failures \cup {[status |-> 404, whole |-> TRUE]} : Calls!Reply(r, a)
  BY DEF Calls!ServeLookup
<1>0. /\ CallsTyped /\ h \in Handles /\ Calls!Held \subseteq held[r]
  BY <1>1, CallsConstants DEF CallsInv, CallFine, ShareFine, SigningFine
<1> HIDE DEF h
<1>2. ASSUME NEW a \in Calls!Failures \cup {[status |-> 404, whole |-> TRUE]}, Calls!Reply(r, a) PROVE CallsInv'
  <2>1. /\ ~(a.status = 200 /\ a.whole) /\ said \subseteq said' /\ answer' = Calls!Put(answer, r, a)
        /\ Calls!Refusal(a) => r \in said'
    BY <1>2, FailuresKnown
  <2> QED  BY <1>1, <2>1, AnswerStep
<1>3. ASSUME NEW account \in ({holder[h]} \cup former[h]) \ {None}, NEW found,
             found = [account |-> account, id |-> Calls!Name(account), open |-> account \in active],
             Calls!Reply(r, Calls!Answered(found))
      PROVE  CallsInv'
  <2>1. PICK a : a = Calls!Answered(found)
    OBVIOUS
  <2>2. a.status = 200 /\ a.whole /\ a.body = found
    BY <2>1 DEF Calls!Answered
  <2>3. found.account = account /\ found.id = Calls!Name(account) /\ (found.open <=> account \in active)
    BY <1>3
  <2>4. account \in Accounts
    BY <1>0 DEF CallsTyped
  <2>5. said \subseteq said' /\ answer' = Calls!Put(answer, r, a)
    BY <1>3, <2>1 DEF Calls!Reply
  <2>6. Calls!IsIt(found, h) => found.account \in Accounts /\ <<h, found.account>> \in held[r]
    BY <1>0, <2>3, <2>4, NameHeld DEF Calls!IsIt
  <2> QED  BY <1>1, <2>2, <2>5, <2>6, AnswerStep DEF h
<1> QED  BY <1>1, <1>2, <1>3

LEMMA BeginStep ==
  ASSUME CallsInv, NEW r \in Calls!Asking, Calls!Begin(r)
  PROVE  CallsInv'
<1>0. CallsTyped /\ CallFine(r)
  BY DEF CallsInv
<1> DEFINE next == IF r \in Shares THEN "share" ELSE IF r \in Exchanges THEN "token" ELSE "introspect"
<1>1. pc[r] = "new" /\ pc' = Calls!Put(pc, r, next) /\ UNCHANGED <<Calls!accountsVars, answer, named, result, said, valid>>
      /\ soon' = (IF r \in Calls!Signing /\ TokenOf[r] \in early THEN soon \cup {r} ELSE soon)
      /\ ~Calls!Shapeless(r) /\ held' = IF r \in Shares THEN Calls!Put(held, r, Calls!Held) ELSE held
  BY DEF Calls!Begin, Calls!Goto
<1>2. pc' = [q \in Calls!Asking |-> pc'[q]] /\ pc'[r] = next /\ \A q \in Calls!Asking : q # r => pc'[q] = pc[q]
  BY <1>0, <1>1, PutFacts DEF CallsTyped
<1>3. held' = [q \in Shares |-> held'[q]] /\ (r \in Shares => held'[r] = Calls!Held)
      /\ \A q \in Shares : q # r => held'[q] = held[q]
  <2>1. held = [q \in Shares |-> held[q]]
    BY <1>0 DEF CallsTyped
  <2>2. CASE r \in Shares
    <3>1. held' = Calls!Put(held, r, Calls!Held)
      BY <1>1, <2>2
    <3> QED  BY <2>1, <2>2, <3>1, PutFacts
  <2>3. CASE r \notin Shares
    BY <1>1, <2>1, <2>3
  <2> QED  BY <2>2, <2>3
<1>4. Only(r)
  BY <1>0, <1>1, <1>2, <1>3 DEF Only, Shaped, Same, CallsTyped, Calls!accountsVars
<1>5. answer'[r] = None /\ result'[r] = None /\ named'[r] = named[r]
  BY <1>0, <1>1 DEF CallFine, Resting
<1>6. Resting(r)' /\ RefusalKnown(r)' /\ SignInKept(r)' /\ ~Calls!Ended(r, 200)'
  BY <1>2, <1>5 DEF Resting, RefusalKnown, SignInKept, Outside, Calls!Ended
<1>7. ASSUME r \in Shares PROVE ShareFine(r)'
  <2>1. ShareFine(r) /\ named[r] = <<>> /\ Calls!Held' = Calls!Held
    BY <1>0, <1>1, <1>7 DEF CallFine, ShareFine, Calls!Held, Calls!accountsVars
  <2>2. Resolved(r)' /\ Stored(r)'
    BY <1>5, <1>6, <2>1 DEF Resolved, ResolvedIn, Stored
  <2> QED  BY <1>2, <1>3, <1>5, <1>7, <2>1, <2>2 DEF ShareFine
<1>8. ASSUME r \in Calls!Signing PROVE SigningFine(r)'
  <2>1. pc'[r] \in {"token", "introspect"}
    BY <1>2, <1>8, CallsConstants
  <2>2. pc'[r] = "introspect" => TokenOf[r] \notin Malformed
    BY <1>1, <1>2, <1>8 DEF Calls!Shapeless, Calls!Signing
  <2>3. TokenOf[r] \in early' => r \in soon'
    BY <1>1, <1>8 DEF Calls!accountsVars
  <2> QED  BY <1>5, <1>6, <2>1, <2>2, <2>3 DEF SigningFine, LetIn
<1>9. r \in Shares => named'[r] \in Seq(Accounts)
  BY <1>0, <1>5 DEF CallsTyped
<1> QED  BY <1>4, <1>6, <1>7, <1>8, <1>9, StepFine DEF CallFine

LEMMA RejectStep ==
  ASSUME CallsInv, NEW r \in Calls!Asking, Calls!Reject(r)
  PROVE  CallsInv'
<1>1. Calls!Fail(r, "unauthenticated", 0) /\ UNCHANGED <<Calls!accountsVars, Calls!historyVars>> /\ Outside(r)
  BY DEF Calls!Reject, Calls!Shapeless, Outside
<1> QED  BY <1>1, FailStep

LEMMA UnusableStep ==
  ASSUME CallsInv, NEW r \in Calls!Asking, Calls!Unusable(r)
  PROVE  CallsInv'
<1> DEFINE a == answer[r]
           outage == ~a.whole \/ a.status \in {429, 500}
<1>1. /\ a # None /\ ~Calls!Usable(r) /\ UNCHANGED <<Calls!accountsVars, Calls!historyVars>>
      /\ \/ outage /\ Calls!Fail(r, "upstream", IF a.whole THEN a.status ELSE 0)
         \/ ~outage /\ a = Calls!Refused /\ Calls!Fail(r, "unauthenticated", 0)
         \/ ~outage /\ a # Calls!Refused /\ Calls!Fail(r, "rejected", a.status)
  BY DEF Calls!Unusable
<1>2. Calls!Refusal(a) => r \in said
  BY <1>1 DEF CallsInv, CallFine, RefusalKnown
<1>3. CASE Calls!Fail(r, "upstream", IF a.whole THEN a.status ELSE 0)
  <2>1. Calls!Public("upstream", IF a.whole THEN a.status ELSE 0) # 401
    BY DEF Calls!Public
  <2> QED  BY <1>1, <1>3, <2>1, FailStep
<1>4. CASE a = Calls!Refused /\ Calls!Fail(r, "unauthenticated", 0)
  <2>1. r \in said
    BY <1>2, <1>4 DEF Calls!Refusal
  <2> QED  BY <1>1, <1>4, <2>1, FailStep
<1>5. CASE ~outage /\ Calls!Fail(r, "rejected", a.status)
  <2>1. Calls!Public("rejected", a.status) = 401 => a.status = 401
    BY DEF Calls!Public
  <2>2. Calls!Public("rejected", a.status) = 401 => r \in said
    BY <1>2, <1>5, <2>1 DEF Calls!Refusal
  <2> QED  BY <1>1, <1>5, <2>2, FailStep
<1> QED  BY <1>1, <1>3, <1>4, <1>5

LEMMA ExchangedStep ==
  ASSUME CallsInv, NEW r \in Calls!Asking, Calls!Exchanged(r)
  PROVE  CallsInv'
<1>0. CallsTyped /\ CallFine(r) /\ pc[r] = "token" /\ UNCHANGED <<Calls!accountsVars, Calls!historyVars>>
  BY DEF CallsInv, Calls!Exchanged
<1>a. CASE Calls!Fail(r, "contract", 0)
  <2>1. Calls!Public("contract", 0) # 401
    BY DEF Calls!Public
  <2> QED  BY <1>0, <1>a, <2>1, FailStep
<1>b. CASE /\ TokenOf[r] \notin Malformed /\ named' = Calls!Put(named, r, <<answer[r].body>>)
           /\ answer' = Calls!Put(answer, r, None) /\ Calls!Goto(r, "introspect") /\ UNCHANGED result
  <2>1. pc' = Calls!Put(pc, r, "introspect") /\ answer' = Calls!Put(answer, r, None) /\ result' = result
        /\ named' = Calls!Put(named, r, <<answer[r].body>>)
    BY <1>b DEF Calls!Goto
  <2>2. pc' = [q \in Calls!Asking |-> pc'[q]] /\ pc'[r] = "introspect" /\ \A q \in Calls!Asking : q # r => pc'[q] = pc[q]
    BY <1>0, <2>1, PutFacts DEF CallsTyped
  <2>3. answer' = [q \in Calls!Asking |-> answer'[q]] /\ answer'[r] = None
        /\ \A q \in Calls!Asking : q # r => answer'[q] = answer[q]
    BY <1>0, <2>1, PutFacts DEF CallsTyped
  <2>4. named' = [q \in Calls!Asking |-> named'[q]] /\ \A q \in Calls!Asking : q # r => named'[q] = named[q]
    BY <1>0, <2>1, PutFacts DEF CallsTyped
  <2>5. Only(r)
    BY <1>0, <2>1, <2>2, <2>3, <2>4 DEF Only, Shaped, Same, CallsTyped, Calls!accountsVars, Calls!historyVars
  <2>6. r \notin Shares
    BY <1>0, <2>1, CallsConstants DEF CallFine, ShareFine
  <2>7. result'[r] = None
    BY <1>0, <2>1 DEF CallFine, Resting
  <2>8. Resting(r)' /\ RefusalKnown(r)' /\ SignInKept(r)' /\ ~Calls!Ended(r, 200)'
    BY <2>2, <2>3, <2>7 DEF Resting, RefusalKnown, SignInKept, Outside, Calls!Ended
  <2>9. SigningFine(r)'
    <3>1. r \in Calls!Signing /\ (TokenOf[r] \in early => r \in soon)
      BY <1>0, <2>6, CallsConstants DEF CallFine, SigningFine
    <3>2. TokenOf[r] \in early' => r \in soon'
      BY <1>0, <3>1 DEF Calls!accountsVars, Calls!historyVars
    <3> QED  BY <1>b, <2>2, <2>3, <2>8, <3>2 DEF SigningFine, LetIn
  <2> QED  BY <2>5, <2>6, <2>8, <2>9, StepFine DEF CallFine
<1> QED  BY <1>a, <1>b DEF Calls!Exchanged

LEMMA IntrospectedStep ==
  ASSUME CallsInv, NEW r \in Calls!Asking, Calls!Introspected(r)
  PROVE  CallsInv'
<1>0. CallsTyped /\ CallFine(r)
  BY DEF CallsInv
<1> DEFINE c == answer[r].body
<1>1. /\ pc[r] = "introspect" /\ answer[r] # None /\ Calls!Usable(r) /\ UNCHANGED <<Calls!accountsVars, Calls!historyVars>>
      /\ \/ ~c.active /\ Calls!Fail(r, "unauthenticated", 0)
         \/ c.active /\ ~Calls!Bound(c) /\ Calls!Fail(r, "contract", 0)
         \/ c.active /\ Calls!Bound(c) /\ ~Calls!InTime(TokenOf[r]) /\ Calls!Fail(r, "unauthenticated", 0)
         \/ /\ c.active /\ Calls!Bound(c) /\ Calls!InTime(TokenOf[r])
            /\ IF r \in Exchanges /\ named[r] # <<c.name>> THEN Calls!Fail(r, "contract", 0)
               ELSE Calls!EndWith(r, [status |-> 200]) /\ UNCHANGED named
  BY DEF Calls!Introspected
<1>2. r \in Calls!Signing /\ r \notin Shares /\ ClaimsTrue(r, c)
  BY <1>0, <1>1, CallsConstants DEF CallFine, ShareFine, SigningFine
<1>3. Calls!Public("contract", 0) # 401
  BY DEF Calls!Public
<1>4. CASE ~c.active /\ Calls!Fail(r, "unauthenticated", 0)
  <2>1. r \in said
    BY <1>2, <1>4 DEF ClaimsTrue
  <2> QED  BY <1>1, <1>4, <2>1, FailStep
<1>5. CASE Calls!Fail(r, "contract", 0)
  BY <1>1, <1>3, <1>5, FailStep
<1>6. CASE ~Calls!InTime(TokenOf[r]) /\ Calls!Fail(r, "unauthenticated", 0)
  <2>1. r \in soon \/ TokenOf[r] \in expired
    BY <1>0, <1>1, <1>2, <1>6 DEF CallFine, SigningFine, Calls!InTime
  <2>2. Outside(r)
    BY <1>2, <2>1 DEF Outside
  <2> QED  BY <1>1, <1>6, <2>2, FailStep
<1>7. CASE c.active /\ Calls!Bound(c) /\ Calls!EndWith(r, [status |-> 200]) /\ UNCHANGED named
  <2>1. Only(r) /\ pc'[r] = "done" /\ answer'[r] = None /\ result'[r] = [status |-> 200]
    BY <1>0, <1>1, <1>7, EndFacts
  <2>2. Resting(r)' /\ RefusalKnown(r)' /\ SignInKept(r)'
    BY <2>1 DEF Resting, RefusalKnown, SignInKept, Outside, Calls!Ended
  <2>3. r \in valid /\ valid' = valid
    BY <1>1, <1>2, <1>7 DEF ClaimsTrue, Calls!historyVars
  <2>4. AppOf[TokenOf[r]] = "browser" /\ KindOf[TokenOf[r]] = "access_token"
    BY <1>2, <1>7 DEF ClaimsTrue, Calls!Bound
  <2>5. TokenOf[r] \notin Malformed
    BY <1>0, <1>1, <1>2 DEF CallFine, SigningFine
  <2>6. SigningFine(r)'
    BY <2>1, <2>3, <2>4, <2>5 DEF SigningFine, LetIn
  <2> QED  BY <1>2, <2>1, <2>2, <2>6, StepFine DEF CallFine
<1> QED  BY <1>1, <1>4, <1>5, <1>6, <1>7

(* One more entry of the list is resolved. *)
OneMore(more, list, e) == more = Append(list, e)
LEMMA ResolvedMore ==
  ASSUME NEW S, NEW list \in Seq(S), NEW e \in S, NEW more, OneMore(more, list, e),
         NEW asked, NEW facts, asked[Len(list) + 1] = e \/ <<asked[Len(list) + 1], e>> \in facts,
         ResolvedIn(asked, list, facts)
  PROVE  more \in Seq(S) /\ Len(more) = Len(list) + 1 /\ ResolvedIn(asked, more, facts)
<1>1. /\ more \in Seq(S) /\ Len(more) = Len(list) + 1 /\ DOMAIN more = 1..(Len(list) + 1) /\ Len(list) \in Nat
      /\ more[Len(list) + 1] = e /\ DOMAIN list = 1..Len(list) /\ \A i \in 1..Len(list) : more[i] = list[i]
  BY DEF OneMore
<1>2. ASSUME NEW i \in DOMAIN more PROVE asked[i] = more[i] \/ <<asked[i], more[i]>> \in facts
  <2>1. CASE i = Len(list) + 1
    BY <1>1, <2>1
  <2>2. CASE i \in DOMAIN list
    BY <1>1, <2>2 DEF ResolvedIn
  <2>3. i = Len(list) + 1 \/ i \in DOMAIN list
    BY <1>1
  <2> QED  BY <2>1, <2>2, <2>3
<1> QED  BY <1>1, <1>2 DEF ResolvedIn

LEMMA TakeStep ==
  ASSUME CallsInv, NEW r \in Calls!Asking, Calls!Take(r)
  PROVE  CallsInv'
<1> DEFINE e == Calls!Selector(r)
<1>0. CallsTyped /\ CallFine(r) /\ pc[r] = "share"
  BY DEF CallsInv, Calls!Take
<1>1. r \in Shares /\ r \notin Calls!Signing /\ ShareFine(r)
  BY <1>0, CallsConstants DEF CallFine, SigningFine
<1>2. /\ Calls!Remain(r) /\ UNCHANGED <<Calls!accountsVars, answer, result, Calls!historyVars>>
      /\ IF e \in Accounts THEN named' = Calls!Put(named, r, Append(named[r], e)) /\ UNCHANGED pc
         ELSE pc' = Calls!Put(pc, r, "lookup") /\ UNCHANGED named
  BY DEF Calls!Take, Calls!Goto
<1>3. /\ named[r] \in Seq(Accounts) /\ Asked[r] \in Seq(Accounts \cup Handles)
      /\ Len(named[r]) < Len(Asked[r]) /\ e = Asked[r][Len(named[r]) + 1]
  BY <1>0, <1>1, <1>2, CallsConstants DEF CallsTyped, Calls!Remain, Calls!Selector
<1>4. e \in Accounts \cup Handles
  BY <1>3
<1> HIDE DEF e
<1>5. /\ answer' = answer /\ result' = result /\ held' = held /\ said' = said /\ valid' = valid /\ soon' = soon
      /\ Calls!accountsVars' = Calls!accountsVars /\ Calls!Held' = Calls!Held /\ answer'[r] = None /\ result'[r] = None
  BY <1>0, <1>2 DEF Calls!historyVars, Calls!accountsVars, Calls!Held, CallFine, Resting
<1>6. CASE e \in Accounts
  <2>1. named' = Calls!Put(named, r, Append(named[r], e)) /\ pc' = pc
    BY <1>2, <1>6
  <2>0. PICK more : more = Append(named[r], e)
    OBVIOUS
  <2>2. named' = [q \in Calls!Asking |-> named'[q]] /\ named'[r] = more
        /\ \A q \in Calls!Asking : q # r => named'[q] = named[q]
    <3>1. named' = Calls!Put(named, r, more) /\ named = [q \in Calls!Asking |-> named[q]]
      BY <1>0, <2>0, <2>1 DEF CallsTyped
    <3> QED  BY <3>1, PutFacts
  <2>3. Only(r)
    BY <1>0, <1>5, <2>1, <2>2 DEF Only, Shaped, Same, CallsTyped, Calls!accountsVars
  <2>4. /\ more \in Seq(Accounts) /\ Len(more) = Len(named[r]) + 1
        /\ ResolvedIn(Asked[r], more, held[r])
    <3>1. /\ ResolvedIn(Asked[r], named[r], held[r])
          /\ Asked[r][Len(named[r]) + 1] = e \/ <<Asked[r][Len(named[r]) + 1], e>> \in held[r]
      BY <1>1, <1>3 DEF ShareFine, Resolved
    <3>2. named[r] \in Seq(Accounts) /\ OneMore(more, named[r], e)
      BY <1>3, <2>0 DEF OneMore
    <3> QED  BY <1>6, <3>1, <3>2, ResolvedMore
  <2>5. Resolved(r)'
    BY <1>5, <2>2, <2>4 DEF Resolved
  <2>6. Stored(r)'
    BY <1>5 DEF Stored, Calls!Ended
  <2>7. ShareFine(r)'
    BY <1>0, <1>1, <1>3, <1>5, <2>1, <2>2, <2>4, <2>5, <2>6 DEF ShareFine
  <2>8. Resting(r)' /\ RefusalKnown(r)' /\ SignInKept(r)'
    BY <1>5, <2>1 DEF Resting, RefusalKnown, SignInKept, Outside, Calls!Ended
  <2> QED  BY <1>1, <2>2, <2>3, <2>4, <2>7, <2>8, StepFine DEF CallFine
<1>7. CASE e \notin Accounts
  <2>1. pc' = Calls!Put(pc, r, "lookup") /\ named' = named
    BY <1>2, <1>7
  <2>2. pc' = [q \in Calls!Asking |-> pc'[q]] /\ pc'[r] = "lookup" /\ \A q \in Calls!Asking : q # r => pc'[q] = pc[q]
    BY <1>0, <2>1, PutFacts DEF CallsTyped
  <2>3. Only(r)
    BY <1>0, <1>5, <2>1, <2>2 DEF Only, Shaped, Same, CallsTyped, Calls!accountsVars
  <2>4. Resolved(r)' /\ Stored(r)' /\ LookedUp(r)'
    BY <1>1, <1>5, <2>1 DEF ShareFine, Resolved, ResolvedIn, Stored, LookedUp, Calls!Ended
  <2>5. Calls!Remain(r)' /\ Calls!Selector(r)' \in Handles
    BY <1>2, <1>4, <1>7, <2>1 DEF Calls!Remain, Calls!Selector, e
  <2>a. Len(named[r]) <= Len(Asked[r]) /\ (pc[r] \in {"share", "lookup"} => Calls!Held \subseteq held[r])
    BY <1>1 DEF ShareFine
  <2>b. Calls!Held' \subseteq held'[r]
    BY <1>0, <1>5, <2>a
  <2>6. ShareFine(r)'
    BY <2>1, <2>2, <2>4, <2>5, <2>a, <2>b DEF ShareFine
  <2>7. Resting(r)' /\ RefusalKnown(r)' /\ SignInKept(r)'
    BY <1>5, <2>2 DEF Resting, RefusalKnown, SignInKept, Outside, Calls!Ended
  <2> QED  BY <1>1, <1>3, <2>1, <2>3, <2>6, <2>7, StepFine DEF CallFine
<1> QED  BY <1>6, <1>7

LEMMA LookedStep ==
  ASSUME CallsInv, NEW r \in Calls!Asking, Calls!Looked(r)
  PROVE  CallsInv'
<1> DEFINE e == Calls!Selector(r)
           found == answer[r].body
<1>0. CallsTyped /\ CallFine(r) /\ pc[r] = "lookup" /\ answer[r] # None /\ Calls!Usable(r)
  BY DEF CallsInv, Calls!Looked
<1>1. r \in Shares /\ r \notin Calls!Signing /\ ShareFine(r) /\ Calls!Remain(r)
  BY <1>0, CallsConstants DEF CallFine, SigningFine, ShareFine
<1>2. /\ UNCHANGED <<Calls!accountsVars, Calls!historyVars>>
      /\ IF Calls!IsIt(found, e)
         THEN /\ named' = Calls!Put(named, r, Append(named[r], found.account))
              /\ answer' = Calls!Put(answer, r, None) /\ pc' = Calls!Put(pc, r, "share") /\ UNCHANGED result
         ELSE Calls!Fail(r, "input", 0)
  BY DEF Calls!Looked, Calls!Goto
<1>3. CASE ~Calls!IsIt(found, e)
  <2>1. Calls!Public("input", 0) # 401
    BY DEF Calls!Public
  <2> QED  BY <1>2, <1>3, <2>1, FailStep
<1>4. CASE Calls!IsIt(found, e)
  <2>1. found.account \in Accounts /\ <<e, found.account>> \in held[r]
    BY <1>0, <1>1, <1>4 DEF ShareFine, LookedUp
  <2>2. /\ named' = Calls!Put(named, r, Append(named[r], found.account))
        /\ answer' = Calls!Put(answer, r, None) /\ pc' = Calls!Put(pc, r, "share") /\ result' = result
    BY <1>2, <1>4
  <2>3. /\ named[r] \in Seq(Accounts) /\ Asked[r] \in Seq(Accounts \cup Handles)
        /\ Len(named[r]) < Len(Asked[r]) /\ e = Asked[r][Len(named[r]) + 1]
    BY <1>0, <1>1, CallsConstants DEF CallsTyped, Calls!Remain, Calls!Selector
  <2> HIDE DEF e, found
  <2>0. PICK more : more = Append(named[r], found.account)
    OBVIOUS
  <2>4. named' = [q \in Calls!Asking |-> named'[q]] /\ named'[r] = more
        /\ \A q \in Calls!Asking : q # r => named'[q] = named[q]
    <3>1. named' = Calls!Put(named, r, more) /\ named = [q \in Calls!Asking |-> named[q]]
      BY <1>0, <2>0, <2>2 DEF CallsTyped
    <3> QED  BY <3>1, PutFacts
  <2>5. answer' = [q \in Calls!Asking |-> answer'[q]] /\ answer'[r] = None
        /\ \A q \in Calls!Asking : q # r => answer'[q] = answer[q]
    BY <1>0, <2>2, PutFacts DEF CallsTyped
  <2>6. pc' = [q \in Calls!Asking |-> pc'[q]] /\ pc'[r] = "share" /\ \A q \in Calls!Asking : q # r => pc'[q] = pc[q]
    BY <1>0, <2>2, PutFacts DEF CallsTyped
  <2>7. /\ held' = held /\ said' = said /\ valid' = valid /\ soon' = soon
        /\ Calls!accountsVars' = Calls!accountsVars /\ Calls!Held' = Calls!Held /\ result'[r] = None
    BY <1>0, <1>2, <2>2 DEF Calls!historyVars, Calls!accountsVars, Calls!Held, CallFine, Resting
  <2>8. Only(r)
    BY <1>0, <2>2, <2>4, <2>5, <2>6, <2>7 DEF Only, Shaped, Same, CallsTyped, Calls!accountsVars
  <2>9. /\ more \in Seq(Accounts) /\ Len(more) = Len(named[r]) + 1
        /\ ResolvedIn(Asked[r], more, held[r])
    <3>1. /\ ResolvedIn(Asked[r], named[r], held[r])
          /\ <<Asked[r][Len(named[r]) + 1], found.account>> \in held[r]
      BY <1>1, <2>1, <2>3 DEF ShareFine, Resolved
    <3>2. named[r] \in Seq(Accounts) /\ found.account \in Accounts /\ OneMore(more, named[r], found.account)
      BY <2>0, <2>1, <2>3 DEF OneMore
    <3> QED  BY <3>1, <3>2, ResolvedMore
  <2>10. Resolved(r)'
    BY <2>4, <2>7, <2>9 DEF Resolved
  <2>11. Stored(r)'
    BY <2>7 DEF Stored, Calls!Ended
  <2>12. ShareFine(r)'
    BY <1>0, <1>1, <2>3, <2>4, <2>6, <2>7, <2>9, <2>10, <2>11 DEF ShareFine
  <2>13. Resting(r)' /\ RefusalKnown(r)' /\ SignInKept(r)'
    BY <2>5, <2>6, <2>7 DEF Resting, RefusalKnown, SignInKept, Outside, Calls!Ended
  <2> QED  BY <1>1, <2>4, <2>8, <2>9, <2>12, <2>13, StepFine DEF CallFine
<1> QED  BY <1>3, <1>4

LEMMA StoreStep ==
  ASSUME CallsInv, NEW r \in Calls!Asking, Calls!Store(r)
  PROVE  CallsInv'
<1> DEFINE list == Calls!WithOwner(named[r])
<1>0. CallsTyped /\ CallFine(r) /\ pc[r] = "share" /\ ~Calls!Remain(r)
  BY DEF CallsInv, Calls!Store
<1>1. r \in Shares /\ r \notin Calls!Signing /\ ShareFine(r)
  BY <1>0, CallsConstants DEF CallFine, SigningFine
<1>2. /\ UNCHANGED <<Calls!accountsVars, Calls!historyVars>>
      /\ IF Len(named[r]) > MaxListed \/ Len(list) > MaxListed THEN Calls!Fail(r, "input", 0)
         ELSE Calls!EndWith(r, [status |-> 200, list |-> list]) /\ UNCHANGED named
  BY DEF Calls!Store
<1>3. named[r] \in Seq(Accounts) /\ Asked[r] \in Seq(Accounts \cup Handles) /\ Len(named[r]) = Len(Asked[r])
  BY <1>0, <1>1, CallsConstants DEF CallsTyped, Calls!Remain, ShareFine
<1>4. /\ list[1] = Owner /\ Calls!IsInjective(list) /\ Len(list) \in Nat
      /\ Calls!ToSet(list) = {Owner} \cup Calls!ToSet(named[r])
  BY <1>3, OwnerFirst, CallsConstants
<1> HIDE DEF list
<1>5. CASE Calls!Fail(r, "input", 0)
  <2>1. Calls!Public("input", 0) # 401
    BY DEF Calls!Public
  <2> QED  BY <1>2, <1>5, <2>1, FailStep
<1>6. CASE Len(list) <= MaxListed /\ Calls!EndWith(r, [status |-> 200, list |-> list]) /\ UNCHANGED named
  <2>1. Only(r) /\ pc'[r] = "done" /\ answer'[r] = None /\ result'[r] = [status |-> 200, list |-> list] /\ named' = named
    BY <1>0, <1>2, <1>6, EndFacts
  <2>2. held' = held
    BY <1>2 DEF Calls!historyVars
  <2>3. Resting(r)' /\ RefusalKnown(r)' /\ SignInKept(r)'
    BY <2>1 DEF Resting, RefusalKnown, SignInKept, Outside, Calls!Ended
  <2>4. \A account \in Calls!ToSet(list) \ {Owner} :
          \E i \in DOMAIN Asked[r] : Asked[r][i] = account \/ <<Asked[r][i], account>> \in held[r]
    <3> TAKE account \in Calls!ToSet(list) \ {Owner}
    <3>1. PICK i \in DOMAIN named[r] : named[r][i] = account
      BY <1>4 DEF Calls!ToSet
    <3>2. i \in DOMAIN Asked[r]
      BY <1>3
    <3> QED  BY <1>1, <3>1, <3>2 DEF ShareFine, Resolved, ResolvedIn
  <2>5. Stored(r)'
    BY <1>3, <1>4, <1>6, <2>1, <2>2, <2>4 DEF Stored
  <2>6. Resolved(r)'
    BY <1>1, <2>1, <2>2 DEF ShareFine, Resolved, ResolvedIn
  <2>7. ShareFine(r)'
    BY <1>1, <2>1, <2>5, <2>6 DEF ShareFine
  <2> QED  BY <1>1, <1>3, <2>1, <2>3, <2>7, StepFine DEF CallFine
<1>7. ~(Len(list) > MaxListed) => Len(list) <= MaxListed
  BY <1>4, CallsConstants
<1> QED  BY <1>2, <1>5, <1>6, <1>7

(* Accounts are closed, take other handles, tokens lapse: what a share that   *)
(* runs may rely on grows, and what was refused stays refused.                *)
LEMMA ChangeStep ==
  ASSUME CallsInv, Calls!Change
  PROVE  CallsInv'
<1>0. CallsTyped /\ \A r \in Calls!Asking : CallFine(r)
  BY DEF CallsInv
<1>1. /\ UNCHANGED <<pc, answer, named, result, said, valid, soon>>
      /\ held' = [r \in Shares |-> IF pc[r] \in {"share", "lookup"} THEN held[r] \cup Calls!Held' ELSE held[r]]
  BY DEF Calls!Change
<1>2. /\ holder' \in [Handles -> Accounts \cup {None}] /\ former' \in [Handles -> SUBSET Accounts]
      /\ active' \subseteq Accounts /\ expired \subseteq expired' /\ early' \subseteq early
  <2>1. ASSUME NEW h \in Handles, NEW account \in (active \cup {None}) \ {holder[h]},
               holder' = [g \in Handles |-> IF g = h THEN account ELSE IF holder[g] = account THEN None ELSE holder[g]],
               former' = [g \in Handles |-> former[g] \cup ({holder[g]} \ {holder'[g], None})],
               UNCHANGED <<active, live, expired, early>>
        PROVE  /\ holder' \in [Handles -> Accounts \cup {None}] /\ former' \in [Handles -> SUBSET Accounts]
               /\ active' \subseteq Accounts /\ expired \subseteq expired' /\ early' \subseteq early
    <3>1. holder' \in [Handles -> Accounts \cup {None}]
      BY <1>0, <2>1 DEF CallsTyped
    <3>2. former' \in [Handles -> SUBSET Accounts]
      BY <1>0, <2>1 DEF CallsTyped
    <3> QED  BY <1>0, <2>1, <3>1, <3>2 DEF CallsTyped
  <2>2. ASSUME UNCHANGED <<holder, former>>, active' \subseteq active, expired \subseteq expired', early' \subseteq early
        PROVE  /\ holder' \in [Handles -> Accounts \cup {None}] /\ former' \in [Handles -> SUBSET Accounts]
               /\ active' \subseteq Accounts /\ expired \subseteq expired' /\ early' \subseteq early
    BY <1>0, <2>2 DEF CallsTyped
  <2> QED  BY <2>1, <2>2 DEF Calls!Change
<1>3. CallsTyped'
  BY <1>0, <1>1, <1>2 DEF CallsTyped
<1>4. ASSUME NEW r \in Calls!Asking PROVE CallFine(r)'
  <2>0. CallFine(r)
    BY <1>0
  <2>1. Resting(r)' /\ RefusalKnown(r)' /\ SignInKept(r)'
    BY <1>1, <1>2, <2>0 DEF CallFine, Resting, RefusalKnown, SignInKept, Outside, Calls!Usable, Calls!Ended
  <2>2. ASSUME r \in Shares PROVE ShareFine(r)'
    <3>0. ShareFine(r)
      BY <2>0, <2>2 DEF CallFine
    <3>1. /\ held[r] \subseteq held'[r]
          /\ pc[r] \in {"share", "lookup"} => Calls!Held' \subseteq held'[r]
          /\ pc[r] \notin {"share", "lookup"} => held'[r] = held[r]
      BY <1>1, <2>2
    <3>2. Resolved(r)'
      BY <1>1, <3>0, <3>1 DEF ShareFine, Resolved, ResolvedIn
    <3>3. Stored(r)'
      <4>1. Calls!Ended(r, 200)' <=> Calls!Ended(r, 200)
        BY <1>1 DEF Calls!Ended
      <4> QED  BY <1>1, <3>0, <3>1, <4>1 DEF ShareFine, Stored
    <3>4. LookedUp(r) => LookedUp(r)'
      BY <1>1, <3>1 DEF LookedUp, Calls!Usable, Calls!Selector, Calls!IsIt
    <3>5. (Calls!Remain(r) => Calls!Remain(r)') /\ Calls!Selector(r)' = Calls!Selector(r)
      BY <1>1 DEF Calls!Remain, Calls!Selector
    <3> QED  BY <1>1, <3>0, <3>1, <3>2, <3>3, <3>4, <3>5 DEF ShareFine
  <2>3. ASSUME r \in Calls!Signing PROVE SigningFine(r)'
    BY <1>1, <1>2, <2>0, <2>3 DEF CallFine, SigningFine, LetIn, ClaimsTrue, Calls!Usable, Calls!Ended
  <2> QED  BY <2>1, <2>2, <2>3 DEF CallFine
<1> QED  BY <1>3, <1>4 DEF CallsInv

LEMMA CallsUntouched == CallsInv /\ UNCHANGED callsVars => CallsInv'
<1> SUFFICES ASSUME CallsInv, UNCHANGED callsVars PROVE CallsInv'
  OBVIOUS
<1>1. /\ pc' = pc /\ answer' = answer /\ named' = named /\ result' = result /\ held' = held /\ said' = said
      /\ valid' = valid /\ soon' = soon /\ early' = early /\ holder' = holder /\ former' = former
      /\ active' = active /\ expired' = expired
  BY DEF callsVars
<1>2. CallsTyped'
  BY <1>1 DEF CallsInv, CallsTyped
<1>3. ASSUME NEW r \in Calls!Asking PROVE CallFine(r)'
  BY <1>1, Still DEF CallsInv, Same, Calls!Held
<1> QED  BY <1>2, <1>3 DEF CallsInv

LEMMA CallsStep == CallsInv /\ [Calls!Next]_callsVars => CallsInv'
<1> SUFFICES ASSUME CallsInv, [Calls!Next]_callsVars PROVE CallsInv'
  OBVIOUS
<1>1. CASE UNCHANGED callsVars
  BY <1>1, CallsUntouched
<1>2. CASE Calls!Change
  BY <1>2, ChangeStep
<1>3. ASSUME NEW r \in Calls!Asking, Calls!Step(r) PROVE CallsInv'
  BY <1>3, RejectStep, BeginStep,
     UnusableStep, ExchangedStep, IntrospectedStep, TakeStep, LookedStep, StoreStep,
     ServeTokenStep, ServeIntrospectionStep, ServeLookupStep DEF Calls!Step
<1> QED  BY <1>1, <1>2, <1>3 DEF Calls!Next

(* What Accounts says is taken for no more and no less, whatever is lost, cut *)
(* or late and whatever changes meanwhile: whom a profile is shared with, when *)
(* a sign-in is given up, and who is let in (auth.rs, resolve_access).         *)
THEOREM AccountsAlwaysBelieved == MCSpec => []AccountsBelieved
<1>1. MCInit => CallsInv
  BY CallsInit DEF MCInit
<1>2. CallsInv /\ [MCNext]_<<part, cacheVars, callsVars, limitsVars>> => CallsInv'
  BY CallsStep DEF MCNext, CachePart, CallsPart, LimitsPart
<1>3. ASSUME CallsInv PROVE AccountsBelieved
  <2>1. Calls!GrantedHeld /\ Calls!ListWhole
    BY <1>3, CallsConstants DEF CallsInv, CallFine, ShareFine, Stored, Calls!GrantedHeld, Calls!ListWhole
  <2>2. Calls!OutageKeepsSignIn
    BY <1>3 DEF CallsInv, CallFine, SignInKept, Outside, Calls!OutageKeepsSignIn
  <2>3. Calls!ForThisApp
    BY <1>3, CallsConstants DEF CallsInv, CallFine, SigningFine, LetIn, Calls!ForThisApp
  <2> QED  BY <2>1, <2>2, <2>3 DEF AccountsBelieved
<1> QED  BY <1>1, <1>2, <1>3, PTL DEF MCSpec
=============================================================================
