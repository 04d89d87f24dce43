----------------------- MODULE RecordingSafety_proofs -----------------------
(***************************************************************************)
(* Proofs about the recording queue, for any number of settling tasks and  *)
(* of processes and any attempt limit; then about profiles and about a     *)
(* search of the provider, as parts of MCReconciliation.                   *)
(***************************************************************************)
EXTENDS MCReconciliation, FiniteSetTheorems, SequenceTheorems, TLAPS

LEMMA TypeInit == Init => TypeOK
<1> SUFFICES ASSUME Init PROVE TypeOK
  OBVIOUS
<1>1. knows \subseteq Tasks /\ source \in BOOLEAN
  BY Zenon DEF Init
<1> QED
  BY <1>1 DEF Init, TypeOK, Event

LEMMA TypeStep == TypeOK /\ [Next]_vars => TypeOK'
<1> SUFFICES ASSUME TypeOK, [Next]_vars PROVE TypeOK'
  OBVIOUS
<1> USE DEF TypeOK, Event, eventVars, stopVars, lookupVars
<1>1. ASSUME NEW t \in Tasks, Abandon(t) \/ RememberSource(t) PROVE TypeOK'
  <2>1. CASE Abandon(t)
    BY <2>1 DEF Abandon
  <2>2. CASE RememberSource(t)
    BY <2>2 DEF RememberSource, At
  <2> QED
    BY <1>1, <2>1, <2>2
<1>2. ASSUME NEW t \in Tasks, Enqueue(t) \/ Settle(t) PROVE TypeOK'
  <2>1. CASE Enqueue(t)
    <3>1. stage' \in [Tasks -> {"stopped", "enqueue", "settle", "idle"}]
      BY <2>1 DEF Enqueue, At
    <3> QED
      BY <2>1, <3>1 DEF Enqueue, Inserted
  <2>2. CASE Settle(t)
    BY <2>2 DEF Settle, At
  <2> QED
    BY <1>2, <2>1, <2>2
<1>3. ASSUME NEW t \in Tasks, FinalizeFailed(t) PROVE TypeOK'
  BY <1>3 DEF FinalizeFailed, At, Inserted
<1>4. CASE Trash
  BY <1>4 DEF Trash, Closed
<1>4a. CASE ProviderDecides \/ DueAgain
  BY <1>4a DEF ProviderDecides, DueAgain
<1>5. ASSUME NEW p \in Procs, Claim(p) PROVE TypeOK'
  <2>1. attempts' \in Nat /\ mine' \in [Procs -> Nat]
    BY <1>5 DEF Claim
  <2> QED
    BY <1>5, <2>1 DEF Claim, Goto
<1>5a. ASSUME NEW p \in Procs, LookUp(p) PROVE TypeOK'
  <2>1. asked' \in Nat
    BY <1>5a DEF LookUp
  <2> QED
    BY <1>5a, <2>1 DEF LookUp, Goto
<1>6. ASSUME NEW p \in Procs, Complete(p) PROVE TypeOK'
  BY <1>6 DEF Complete, Goto, Inserted
<1>7. ASSUME NEW p \in Procs, Unavailable(p) \/ DeferOrExhaust(p) PROVE TypeOK'
  <2>1. lookup' \in [Procs -> {"idle", "claimed", "complete", "unavailable", "defer"}]
    BY <1>7 DEF Unavailable, DeferOrExhaust, FailResolution, Goto
  <2>2. CASE FailResolution(p)
    BY <2>1, <2>2 DEF FailResolution
  <2>3. CASE ~FailResolution(p)
    BY <1>7, <2>1, <2>3 DEF Unavailable, DeferOrExhaust
  <2> QED
    BY <2>2, <2>3
<1>8. ASSUME NEW p \in Procs, TimesOut(p) \/ Crash(p) PROVE TypeOK'
  BY <1>8 DEF TimesOut, Crash, Goto
<1>9. ASSUME UNCHANGED vars PROVE TypeOK'
  BY <1>9 DEF vars
<1> QED
  BY <1>1, <1>2, <1>3, <1>4, <1>4a, <1>5, <1>5a, <1>6, <1>7, <1>8, <1>9 DEF Next, Reconcile

-----------------------------------------------------------------------------
(* Outcomes *)

LEMMA OutcomeInit == Init => OutcomeInv
BY TypeInit DEF Init, OutcomeInv, KnowledgeTrue, EnqueuedBeforeSettling, ClosedIsDecided,
                PendingHasSource, StoreNeedsSource, TrashClosesIntents, Tasks

LEMMA OutcomeStep == OutcomeInv /\ [Next]_vars => OutcomeInv'
<1> SUFFICES ASSUME OutcomeInv, [Next]_vars PROVE OutcomeInv'
  OBVIOUS
<1>0. TypeOK /\ TypeOK'
  BY TypeStep DEF OutcomeInv
<1> USE <1>0 DEF OutcomeInv, KnowledgeTrue, EnqueuedBeforeSettling, ClosedIsDecided,
                 PendingHasSource, StoreNeedsSource, TrashClosesIntents,
                 eventVars, stopVars, lookupVars
<1>1. ASSUME NEW t \in Tasks, Abandon(t) \/ RememberSource(t) PROVE OutcomeInv'
  BY <1>1 DEF Abandon, RememberSource, At, TypeOK, Tasks
<1>2. ASSUME NEW t \in Tasks, Enqueue(t) PROVE OutcomeInv'
  BY <1>2 DEF Enqueue, At, Inserted, TypeOK, Event, Tasks
<1>3. ASSUME NEW t \in Tasks, Settle(t) PROVE OutcomeInv'
  BY <1>3 DEF Settle, At, TypeOK, Tasks
<1>4. ASSUME NEW t \in Tasks, FinalizeFailed(t) PROVE OutcomeInv'
  BY <1>4 DEF FinalizeFailed, At, Inserted, TypeOK, Event, Tasks
<1>5. CASE Trash
  BY <1>5 DEF Trash, Closed
<1>6. CASE ProviderDecides \/ DueAgain
  BY <1>6 DEF ProviderDecides, DueAgain
<1>7. ASSUME NEW p \in Procs, Claim(p) \/ LookUp(p) \/ TimesOut(p) \/ Crash(p) PROVE OutcomeInv'
  BY <1>7 DEF Claim, LookUp, TimesOut, Crash
<1>8. ASSUME NEW p \in Procs, Complete(p) PROVE OutcomeInv'
  BY <1>8 DEF Complete, Owns, Inserted, TypeOK
<1>9. ASSUME NEW p \in Procs, Unavailable(p) \/ DeferOrExhaust(p) PROVE OutcomeInv'
  BY <1>9 DEF Unavailable, DeferOrExhaust, FailResolution, Owns, TypeOK
<1>10. ASSUME UNCHANGED vars PROVE OutcomeInv'
  BY <1>10 DEF vars
<1> QED
  BY <1>1, <1>2, <1>3, <1>4, <1>5, <1>6, <1>7, <1>8, <1>9, <1>10 DEF Next, Reconcile

\* The inductive invariant of recording outcomes holds.
THEOREM OutcomeInvariant == Spec => []OutcomeInv
BY OutcomeInit, OutcomeStep, PTL DEF Spec

\* No settled recording waits without a source or an open intent to find it.
THEOREM PendingWaitsForSomething == Spec => []PendingIsTraceable
<1>1. OutcomeInv => PendingIsTraceable
  BY DEF OutcomeInv, PendingHasSource, PendingIsTraceable
<1> QED
  BY <1>1, OutcomeInvariant, PTL

\* Every storage intent is for a recording whose source is stored.
THEOREM StoredFromSource == Spec => []StoreNeedsSource
<1>1. OutcomeInv => StoreNeedsSource
  BY DEF OutcomeInv
<1> QED
  BY <1>1, OutcomeInvariant, PTL

\* No intent is open for a trashed recording.
THEOREM TrashedHasNoIntent == Spec => []TrashClosesIntents
<1>1. OutcomeInv => TrashClosesIntents
  BY DEF OutcomeInv
<1> QED
  BY <1>1, OutcomeInvariant, PTL

LEMMA FinalStep ==
  ASSUME OutcomeInv, [Next]_vars
  PROVE  /\ recording = "trashed" => recording' = "trashed"
         /\ recording = "failed" => recording' \in {"failed", "trashed"}
<1> USE DEF eventVars, stopVars, lookupVars
<1>1. ASSUME NEW t \in Tasks, Abandon(t) \/ RememberSource(t) \/ Enqueue(t) \/ Settle(t) \/ FinalizeFailed(t)
      PROVE recording \in {"trashed", "failed"} => recording' = recording
  BY <1>1 DEF Abandon, RememberSource, Enqueue, Settle, FinalizeFailed
<1>2. CASE Trash \/ ProviderDecides \/ DueAgain
  BY <1>2 DEF Trash, ProviderDecides, DueAgain
<1>3. ASSUME NEW p \in Procs, Claim(p) \/ LookUp(p) \/ TimesOut(p) \/ Crash(p)
      PROVE recording' = recording
  BY <1>3 DEF Claim, LookUp, TimesOut, Crash
<1>4. ASSUME NEW p \in Procs, Complete(p) \/ Unavailable(p) \/ DeferOrExhaust(p)
      PROVE recording \in {"trashed", "failed"} => recording' = recording
  BY <1>4 DEF Complete, Unavailable, DeferOrExhaust, FailResolution
<1>5. ASSUME UNCHANGED vars PROVE recording' = recording
  BY <1>5 DEF vars
<1> QED
  BY <1>1, <1>2, <1>3, <1>4, <1>5 DEF Next, Reconcile

\* The outcome of a recording is final.
THEOREM OutcomesAreFinal == Spec => OutcomeFinal
<1>1. OutcomeInv /\ [Next]_vars =>
        [/\ recording = "trashed" => recording' = "trashed"
         /\ recording = "failed" => recording' \in {"failed", "trashed"}]_vars
  BY FinalStep
<1> QED
  BY <1>1, OutcomeInvariant, PTL DEF Spec, OutcomeFinal

-----------------------------------------------------------------------------
(* Claims *)

\* The claims that may still ask are finitely many, and one less or none more
\* counts accordingly.
LEMMA MayAskFinite ==
  /\ IsFiniteSet(MayAsk) /\ Cardinality(MayAsk) \in Nat
<1>1. MayAsk \subseteq Procs
  BY DEF MayAsk
<1> QED
  BY <1>1, QueueAssumption, FS_Subset, FS_CardinalityType

LEMMA MayAskShrinks ==
  ASSUME MayAsk' \subseteq MayAsk
  PROVE  Cardinality(MayAsk') \in Nat /\ Cardinality(MayAsk') <= Cardinality(MayAsk)
BY MayAskFinite, FS_Subset, FS_CardinalityType

LEMMA ClaimInit == Init => ClaimInv
<1> SUFFICES ASSUME Init PROVE ClaimInv
  OBVIOUS
<1>1. MayAsk = {}
  BY DEF Init, MayAsk
<1> QED
  BY <1>1, TypeInit, FS_EmptySet, QueueAssumption DEF Init, ClaimInv, OneLookupPerAttempt

LEMMA ClaimStep == ClaimInv /\ [Next]_vars => ClaimInv'
<1> SUFFICES ASSUME ClaimInv, [Next]_vars PROVE ClaimInv'
  OBVIOUS
<1>0. TypeOK /\ TypeOK'
  BY TypeStep DEF ClaimInv
<1> USE <1>0, QueueAssumption DEF ClaimInv, OneLookupPerAttempt, eventVars, stopVars, lookupVars
<1> DEFINE Quiet == UNCHANGED <<lookup, mine, asked, attempts>>
<1>1. ASSUME Quiet PROVE ClaimInv'
  BY <1>1 DEF MayAsk
<1>2. ASSUME NEW p \in Procs, Claim(p) PROVE ClaimInv'
  <2>1. attempts' = attempts + 1 /\ asked' = asked
    BY <1>2 DEF Claim
  <2>2. /\ lookup' = [lookup EXCEPT ![p] = "claimed"]
        /\ mine' = [mine EXCEPT ![p] = attempts + 1]
    BY <1>2 DEF Claim, Goto
  <2>3. /\ \A q \in Procs : lookup'[q] # "idle" => mine'[q] <= attempts'
        /\ OneLookupPerAttempt'
    BY <2>1, <2>2 DEF TypeOK
  <2>4. CASE attempts + 1 <= MaxAttempts
    <3>1. MayAsk' = MayAsk \cup {p} /\ p \notin MayAsk
      BY <1>2, <2>2, <2>4 DEF MayAsk, TypeOK, Claim
    <3>2. Cardinality(MayAsk') = Cardinality(MayAsk) + 1
      BY <3>1, MayAskFinite, FS_AddElement
    <3> QED
      BY <2>1, <2>3, <2>4, <3>2, MayAskFinite DEF TypeOK
  <2>5. CASE ~(attempts + 1 <= MaxAttempts)
    <3>1. MayAsk' = MayAsk
      BY <1>2, <2>2, <2>5 DEF MayAsk, TypeOK, Claim
    <3> QED
      BY <2>1, <2>3, <3>1, MayAskFinite DEF TypeOK
  <2> QED
    BY <2>4, <2>5
<1>3. ASSUME NEW p \in Procs, NEW where \in {"idle", "complete", "unavailable", "defer"},
             lookup[p] # "idle", Goto(p, where), UNCHANGED <<mine, asked, attempts>>
      PROVE ClaimInv'
  <2>1. MayAsk' \subseteq MayAsk
    BY <1>3 DEF MayAsk, Goto, TypeOK
  <2>2. \A q \in Procs : lookup'[q] # "idle" => lookup[q] # "idle"
    BY <1>3 DEF Goto, TypeOK
  <2> QED
    BY <1>3, <2>1, <2>2, MayAskShrinks, MayAskFinite DEF TypeOK
<1>4. ASSUME NEW p \in Procs, LookUp(p), mine[p] <= MaxAttempts, asked' = asked + 1
      PROVE ClaimInv'
  <2>1. /\ lookup'[p] # "claimed" /\ UNCHANGED <<mine, attempts>>
        /\ \A q \in Procs \ {p} : lookup'[q] = lookup[q]
    BY <1>4 DEF LookUp, Goto, TypeOK
  <2>2. p \in MayAsk /\ MayAsk' = MayAsk \ {p}
    BY <1>4, <2>1 DEF MayAsk, LookUp
  <2>3. Cardinality(MayAsk') = Cardinality(MayAsk) - 1
    BY <2>2, MayAskFinite, FS_RemoveElement
  <2>4. \A q \in Procs : lookup'[q] # "idle" => lookup[q] # "idle"
    BY <1>4, <2>1 DEF LookUp
  <2> QED
    BY <1>4, <2>1, <2>3, <2>4, MayAskFinite DEF TypeOK
<1>5. ASSUME NEW t \in Tasks, Abandon(t) \/ RememberSource(t) \/ Enqueue(t) \/ Settle(t) \/ FinalizeFailed(t)
      PROVE Quiet
  BY <1>5 DEF Abandon, RememberSource, Enqueue, Settle, FinalizeFailed
<1>6. Trash \/ ProviderDecides \/ DueAgain => Quiet
  BY DEF Trash, ProviderDecides, DueAgain
<1>7. ASSUME NEW p \in Procs, LookUp(p) PROVE ClaimInv'
  <2>1. CASE UNCHANGED asked
    BY <1>3, <1>7, <2>1 DEF LookUp, TypeOK
  <2>2. CASE mine[p] <= MaxAttempts /\ asked' = asked + 1
    BY <1>4, <1>7, <2>2
  <2> QED
    BY <1>7, <2>1, <2>2 DEF LookUp
<1>8. ASSUME NEW p \in Procs, Complete(p) \/ Unavailable(p) \/ DeferOrExhaust(p) \/ TimesOut(p) \/ Crash(p)
      PROVE ClaimInv'
  BY <1>3, <1>8 DEF Complete, Unavailable, DeferOrExhaust, FailResolution, TimesOut, Crash
<1>9. UNCHANGED vars => Quiet
  BY DEF vars
<1> QED
  BY <1>1, <1>2, <1>5, <1>6, <1>7, <1>8, <1>9 DEF Next, Reconcile

\* The inductive invariant of claims holds.
THEOREM ClaimInvariant == Spec => []ClaimInv
BY ClaimInit, ClaimStep, PTL DEF Spec

\* No two processes work on one attempt.
THEOREM AttemptsExclusive == Spec => []OneLookupPerAttempt
<1>1. ClaimInv => OneLookupPerAttempt
  BY DEF ClaimInv
<1> QED
  BY <1>1, ClaimInvariant, PTL

\* The provider is asked no more often than the attempt limit, whatever
\* crashes, times out or comes late.
THEOREM RequestsBounded == Spec => []LookupsBounded
<1>1. ClaimInv => LookupsBounded
  BY MayAskFinite, QueueAssumption DEF ClaimInv, LookupsBounded, TypeOK
<1> QED
  BY <1>1, ClaimInvariant, PTL

-----------------------------------------------------------------------------
(* The profile part of the runs (ProfileProvisioning), for any profiles and    *)
(* processes.                                                                  *)

ProfileStages == {"idle", "creating", "finding", "activate", "reject"}
ProfileTypes ==
  /\ row \in [Profiles -> {"none", "provisioning", "active", "failed", "ended"}]
  /\ remote \in [Profiles -> {"none", "requested", "exists", "alien"}]
  /\ creating \in [Profiles -> ProfileStages]
  /\ todo \in [Loops -> SUBSET Profiles] /\ found \in [Loops -> SUBSET Profiles]
  /\ order \in Seq(Profiles)

\* A row comes before what is at the provider, and who is about to activate
\* one has seen its profile there.
RemoteInv ==
  ProfileTypes /\ Profile!RowFirst /\ Profile!SeenBeforeActivation /\ ActiveHasRemote

LEMMA RemoteInit == Profile!Init => RemoteInv
BY DEF Profile!Init, RemoteInv, ProfileTypes, ProfileStages, Profile!RowFirst,
       Profile!SeenBeforeActivation, ActiveHasRemote, Profile!ActiveHasRemote

LEMMA RemoteStep ==
  ASSUME RemoteInv, Profile!Next
  PROVE  RemoteInv'
<1> USE DEF RemoteInv, ProfileTypes, ProfileStages, Profile!RowFirst, Profile!SeenBeforeActivation,
            ActiveHasRemote, Profile!ActiveHasRemote, Profile!loopVars, Profile!Goto
<1>1. ASSUME NEW p \in Profiles, Profile!Reserve(p) PROVE RemoteInv'
  BY <1>1, AppendProperties DEF Profile!Reserve
<1>2. ASSUME NEW p \in Profiles, Profile!ProviderCreates(p) PROVE RemoteInv'
  BY <1>2 DEF Profile!ProviderCreates
<1>3. ASSUME NEW p \in Profiles, Profile!Refused(p) \/ Profile!Answered(p) PROVE RemoteInv'
  BY <1>3 DEF Profile!Refused, Profile!Answered
<1>4. ASSUME NEW p \in Profiles, Profile!Ambiguous(p) \/ Profile!Find(p) \/ Profile!Abandon(p)
      PROVE RemoteInv'
  BY <1>4 DEF Profile!Ambiguous, Profile!Find, Profile!Abandon
<1>5. ASSUME NEW p \in Profiles, Profile!Activate(p) \/ Profile!Reject(p) PROVE RemoteInv'
  BY <1>5 DEF Profile!Activate, Profile!Reject, Profile!ActivateRow, Profile!FailRow
<1>6. ASSUME NEW p \in Profiles,
             Profile!OpenSession(p) \/ Profile!CloseSession(p) \/ Profile!EndProfile(p)
      PROVE RemoteInv'
  BY <1>6 DEF Profile!OpenSession, Profile!CloseSession, Profile!EndProfile
<1>7. ASSUME NEW q \in Loops, Profile!List(q) PROVE RemoteInv'
  <2>1. Profile!Pending(Profile!Listed) \subseteq Profiles
    BY DEF Profile!Pending, Profile!Listed
  <2> QED  BY <1>7, <2>1 DEF Profile!List
<1>8. ASSUME NEW q \in Loops, NEW p \in Profiles, Profile!LookUp(q, p) \/ Profile!Skip(q, p)
      PROVE RemoteInv'
  BY <1>8 DEF Profile!LookUp, Profile!Skip
<1>9. ASSUME NEW q \in Loops, NEW p \in Profiles, Profile!Adopt(q, p) PROVE RemoteInv'
  BY <1>9 DEF Profile!Adopt, Profile!ActivateRow
<1> QED
  BY <1>1, <1>2, <1>3, <1>4, <1>5, <1>6, <1>7, <1>8, <1>9 DEF Profile!Next, Profile!Create

LEMMA RemoteRests == RemoteInv /\ UNCHANGED profileVars => RemoteInv'
BY DEF RemoteInv, ProfileTypes, Profile!RowFirst, Profile!SeenBeforeActivation,
       ActiveHasRemote, Profile!ActiveHasRemote, profileVars

(* A profile is active only if it is there at the provider, whatever answers  *)
(* are lost and whoever adopts it (create_profile, reconcile_profiles_once).  *)
THEOREM ActiveProfilesExist == MCSpec => []ActiveHasRemote
<1>1. MCInit => RemoteInv
  BY RemoteInit DEF MCInit
<1>2. RemoteInv /\ [MCNext]_<<part, vars, profileVars, searchVars>> => RemoteInv'
  <2>1. RemoteInv /\ ProfilePart => RemoteInv'
    BY RemoteStep DEF ProfilePart
  <2>2. RemoteInv /\ (RecordingPart \/ SearchPart) => RemoteInv'
    BY RemoteRests DEF RecordingPart, SearchPart
  <2>3. RemoteInv /\ UNCHANGED <<part, vars, profileVars, searchVars>> => RemoteInv'
    BY RemoteRests
  <2> QED  BY <2>1, <2>2, <2>3 DEF MCNext
<1>3. RemoteInv => ActiveHasRemote
  BY DEF RemoteInv
<1> QED  BY <1>1, <1>2, <1>3, PTL DEF MCSpec

-----------------------------------------------------------------------------
(* The search part of the runs (ProviderSearch), for any rows, page sizes and  *)
(* numbers of pages and of changes.                                            *)

SearchTypes ==
  /\ listed \in Seq(Ours \cup Others) /\ trend \in {"grows", "shrinks"}
  /\ there \subseteq Ours /\ exact \subseteq Ours
  /\ page \in Nat \ {0} /\ expected \in Nat \cup {None}

ThereListed == \A ours \in there : \E i \in DOMAIN listed : listed[i] = ours

(* The number of rows tells whether any was added or removed since the first *)
(* page.                                                                     *)
TotalTells ==
  expected # None => /\ trend = "grows" => expected <= Len(listed)
                     /\ trend = "shrinks" => Len(listed) <= expected

RowsBefore == (page - 1) * PageSize

(* As long as the total is that of the first page, the rows of ours on the   *)
(* pages already read have been seen.                                        *)
PagesSeen ==
  /\ outcome = "searching" /\ expected = None => page = 1
  /\ outcome = "searching" /\ expected = Len(listed) =>
       \A i \in DOMAIN listed : i <= RowsBefore /\ listed[i] \in Ours => listed[i] \in exact

AnswerKept ==
  /\ outcome = "absent" => there = {}
  /\ outcome \in {"detail", "found"} => Cardinality(exact) = 1 /\ there \subseteq exact

SearchInv == SearchTypes /\ ThereListed /\ TotalTells /\ PagesSeen /\ AnswerKept

LEMMA SearchCounts ==
  \A S : Search!IsFiniteSet(S) = IsFiniteSet(S) /\ Search!Cardinality(S) = Cardinality(S)
BY Zenon DEF Search!IsFiniteSet, IsFiniteSet, Search!Cardinality, Cardinality

LEMMA SearchFacts ==
  /\ IsFiniteSet(Ours) /\ None \notin Nat /\ PageSize \in Nat \ {0}
<1>1. IsFiniteSet(Ours \cup Others) /\ None \notin Nat /\ PageSize \in Nat \ {0}
  BY PartsAssumption, SearchCounts DEF Search!SearchAssumption, Search!Rows
<1>2. IsFiniteSet(Ours)
  BY <1>1, FS_Subset
<1> QED  BY <1>1, <1>2

(* The last page is the one that the total ends on. *)
LEMMA PagesCover ==
  ASSUME NEW size \in Nat \ {0}, NEW total \in Nat, NEW at \in Nat \ {0},
         at >= (IF (total + size - 1) \div size = 0 THEN 1 ELSE (total + size - 1) \div size)
  PROVE  total <= at * size
<1> DEFINE n == (total + size - 1) \div size
<1>1. n \in Int /\ total + size - 1 < (n + 1) * size
  OBVIOUS
<1>2. (n + 1) * size = n * size + size
  BY <1>1
<1>3. at >= n
  BY <1>1
<1>4. at * size >= n * size
  BY <1>1, <1>3
<1> QED  BY <1>1, <1>2, <1>4

(* What is on a page. *)
LEMMA PageRows ==
  ASSUME SearchTypes
  PROVE  /\ RowsBefore \in Nat /\ page * PageSize = RowsBefore + PageSize
         /\ \A i \in DOMAIN listed :
              RowsBefore < i /\ i <= RowsBefore + PageSize => listed[i] \in Search!ToSet(Search!Listed)
<1> DEFINE size == Search!OnPage(Len(listed))
<1>1. RowsBefore \in Nat /\ page * PageSize = RowsBefore + PageSize
  BY SearchFacts DEF SearchTypes, RowsBefore
<1>2. /\ size \in Nat /\ (RowsBefore + size <= Len(listed) \/ size = 0)
      /\ \A i \in 1..Len(listed) : RowsBefore < i /\ i <= RowsBefore + PageSize => i <= RowsBefore + size
  <2>1. size = IF Len(listed) > RowsBefore
               THEN IF Len(listed) - RowsBefore < PageSize THEN Len(listed) - RowsBefore ELSE PageSize
               ELSE 0
    BY DEF Search!OnPage, Search!Least, RowsBefore
  <2>2. Len(listed) \in Nat /\ PageSize \in Nat
    BY SearchFacts DEF SearchTypes
  <2> HIDE DEF size, RowsBefore
  <2> QED  BY <1>1, <2>1, <2>2
<1> SUFFICES ASSUME NEW i \in DOMAIN listed, RowsBefore < i, i <= RowsBefore + PageSize
             PROVE  listed[i] \in Search!ToSet(Search!Listed)
  BY <1>1
<1>3. i \in Nat /\ i <= Len(listed)
  BY DEF SearchTypes
<1>4. i <= RowsBefore + size /\ size \in Nat
  BY <1>2, <1>3
<1>5. Search!Listed = SubSeq(listed, RowsBefore + 1, RowsBefore + size)
  BY DEF Search!Listed, RowsBefore
<1> HIDE DEF size
<1>6. i - RowsBefore \in DOMAIN Search!Listed /\ Search!Listed[i - RowsBefore] = listed[i]
  <2>1. i - RowsBefore \in 1..size
    BY <1>1, <1>3, <1>4
  <2>2. RowsBefore + size <= Len(listed)
    BY <1>2, <1>3, <1>4, <1>1
  <2> QED  BY <1>1, <1>3, <1>4, <1>5, <2>1, <2>2 DEF SearchTypes
<1> QED  BY <1>6 DEF Search!ToSet

LEMMA SearchInit == Search!Init => SearchInv
<1> SUFFICES ASSUME Search!Init PROVE SearchInv
  OBVIOUS
<1>1. listed \in Seq(Ours \cup Others)
  BY DEF Search!Init, Search!Rows
<1>2. SearchTypes
  BY <1>1 DEF Search!Init, SearchTypes
<1>3. ThereListed
  BY DEF Search!Init, ThereListed, Search!ToSet
<1>4. TotalTells /\ PagesSeen /\ AnswerKept
  BY SearchFacts, <1>1 DEF Search!Init, TotalTells, PagesSeen, AnswerKept
<1> QED  BY <1>2, <1>3, <1>4 DEF SearchInv

\* A list with a row put behind its first ones.
Put(s, at, new) == SubSeq(s, 1, at) \o <<new>> \o SubSeq(s, at + 1, Len(s))

(* The rows of a list stay in it when one is put between them. *)
LEMMA InsertedRow ==
  ASSUME NEW S, NEW s \in Seq(S), NEW new \in S, NEW at \in 0..Len(s)
  PROVE  /\ Put(s, at, new) \in Seq(S) /\ Len(Put(s, at, new)) = Len(s) + 1
         /\ \A i \in 1..at : Put(s, at, new)[i] = s[i]
         /\ \A i \in 1..Len(s) : at < i => Put(s, at, new)[i + 1] = s[i]
<1> DEFINE t == Put(s, at, new)
           front == SubSeq(s, 1, at)
           back == SubSeq(s, at + 1, Len(s))
           upto == front \o <<new>>
<1>1. /\ front \in Seq(S) /\ Len(front) = at /\ \A i \in 1..at : front[i] = s[i]
      /\ back \in Seq(S) /\ Len(back) = Len(s) - at
      /\ \A i \in 1..(Len(s) - at) : back[i] = s[i + at]
  OBVIOUS
<1>2. at \in Nat /\ Len(s) \in Nat /\ at <= Len(s) /\ <<new>> \in Seq(S) /\ Len(<<new>>) = 1
  OBVIOUS
<1> HIDE DEF front, back
<1>3. upto \in Seq(S) /\ Len(upto) = at + 1 /\ \A i \in 1..at : upto[i] = s[i]
  BY <1>1, <1>2
<1> HIDE DEF upto
<1>4. upto \o back \in Seq(S) /\ Len(upto \o back) = Len(s) + 1
  <2>1. upto \o back \in Seq(S) /\ Len(upto \o back) = Len(upto) + Len(back)
    BY <1>1, <1>3, ConcatProperties
  <2>2. Len(upto) + Len(back) = Len(s) + 1
    BY <1>1, <1>2, <1>3
  <2> QED  BY <2>1, <2>2
<1>5. \A i \in 1..at : (upto \o back)[i] = s[i]
  BY <1>1, <1>2, <1>3
<1>6. ASSUME NEW i \in 1..Len(s), at < i PROVE (upto \o back)[i + 1] = s[i]
  <2>1. (upto \o back)[i + 1] = back[i - at]
    BY <1>1, <1>2, <1>3, <1>6
  <2>2. i - at \in 1..(Len(s) - at) /\ (i - at) + at = i
    BY <1>2, <1>6
  <2> QED  BY <1>1, <2>1, <2>2
<1>7. t = upto \o back
  BY DEF upto, front, back, Put
<1> HIDE DEF t
<1>8. (\A i \in 1..at : t[i] = s[i]) /\ \A i \in 1..Len(s) : at < i => t[i + 1] = s[i]
  BY <1>5, <1>6, <1>7, Zenon
<1>9. t \in Seq(S) /\ Len(t) = Len(s) + 1
  BY <1>4, <1>7
<1> QED  BY <1>8, <1>9 DEF t

LEMMA AddedStep == ASSUME SearchInv, Search!Added PROVE SearchInv'
<1> USE DEF SearchInv, SearchTypes
<1>1. PICK new \in Ours \cup Others, at \in 0..Len(listed) : listed' = Search!InsertAt(listed, at + 1, new)
  BY DEF Search!Added, Search!Rows
<1>2. listed' = SubSeq(listed, 1, (at + 1) - 1) \o <<new>> \o SubSeq(listed, at + 1, Len(listed))
  BY <1>1 DEF Search!InsertAt
<1>2a. (at + 1) - 1 = at
  BY <1>1
<1>2b. listed' = Put(listed, at, new)
  BY <1>2, <1>2a, Zenon DEF Put
<1> DEFINE All == Ours \cup Others
<1>2c. listed \in Seq(All) /\ new \in All /\ at \in 0..Len(listed)
  BY <1>1
<1> HIDE DEF All
<1>2d. /\ listed' \in Seq(All) /\ Len(listed') = Len(listed) + 1
       /\ \A i \in 1..at : listed'[i] = listed[i]
       /\ \A i \in 1..Len(listed) : at < i => listed'[i + 1] = listed[i]
  <2>1. /\ Put(listed, at, new) \in Seq(All) /\ Len(Put(listed, at, new)) = Len(listed) + 1
        /\ \A i \in 1..at : Put(listed, at, new)[i] = listed[i]
        /\ \A i \in 1..Len(listed) : at < i => Put(listed, at, new)[i + 1] = listed[i]
    BY <1>2c, InsertedRow
  <2> QED  BY <2>1, <1>2b
<1> USE DEF All
<1>3. listed' \in Seq(Ours \cup Others) /\ Len(listed') = Len(listed) + 1
  BY <1>2d
<1>4. (\A i \in 1..at : listed'[i] = listed[i]) /\ \A i \in 1..Len(listed) : at < i => listed'[i + 1] = listed[i]
  BY <1>2d
<1>5. ThereListed'
  <2> SUFFICES ASSUME NEW r \in there' PROVE \E i \in DOMAIN listed' : listed'[i] = r
    BY DEF ThereListed
  <2>1. PICK i \in DOMAIN listed : listed[i] = r
    BY DEF ThereListed, Search!Added
  <2>2. i \in 1..at \/ (i \in 1..Len(listed) /\ at < i)
    BY <1>1, <2>1
  <2>3. i \in DOMAIN listed' /\ i + 1 \in DOMAIN listed'
    BY <1>3, <2>1
  <2> QED  BY <1>4, <2>1, <2>2, <2>3, Zenon
<1>6. SearchTypes' /\ TotalTells' /\ AnswerKept'
  BY <1>3 DEF Search!Added, TotalTells, AnswerKept
<1>7. PagesSeen'
  BY <1>3, SearchFacts DEF Search!Added, TotalTells, PagesSeen
<1> QED  BY <1>5, <1>6, <1>7

LEMMA RemovedStep == ASSUME SearchInv, Search!Removed PROVE SearchInv'
<1> USE DEF SearchInv, SearchTypes
<1>1. PICK at \in DOMAIN listed :
        listed' = Search!RemoveAt(listed, at) /\ there' = there \ {listed[at]}
  BY DEF Search!Removed
<1>2. listed' = SubSeq(listed, 1, at - 1) \o SubSeq(listed, at + 1, Len(listed))
  BY <1>1, Zenon DEF Search!RemoveAt
<1>3. listed' \in Seq(Ours \cup Others) /\ Len(listed') = Len(listed) - 1
  BY <1>1, <1>2
<1>4. \A i \in 1..Len(listed) : i # at => listed'[IF i < at THEN i ELSE i - 1] = listed[i]
  BY <1>1, <1>2
<1>5. ThereListed'
  <2> SUFFICES ASSUME NEW r \in there' PROVE \E i \in DOMAIN listed' : listed'[i] = r
    BY DEF ThereListed
  <2>1. PICK i \in DOMAIN listed : listed[i] = r
    BY <1>1 DEF ThereListed
  <2>2. i # at /\ (IF i < at THEN i ELSE i - 1) \in DOMAIN listed'
    BY <1>1, <1>3, <2>1
  <2> QED  BY <1>4, <2>1, <2>2
<1>6. SearchTypes' /\ TotalTells' /\ AnswerKept'
  BY <1>1, <1>3 DEF Search!Removed, TotalTells, AnswerKept
<1>7. PagesSeen'
  BY <1>3, SearchFacts DEF Search!Removed, TotalTells, PagesSeen
<1> QED  BY <1>5, <1>6, <1>7

LEMMA FailStep == ASSUME SearchInv, Search!Fail PROVE SearchInv'
BY DEF SearchInv, SearchTypes, ThereListed, TotalTells, PagesSeen, AnswerKept, RowsBefore, Search!Fail,
       Search!provider

LEMMA PageStep == ASSUME SearchInv, Search!Page PROVE SearchInv'
<1> USE DEF SearchInv
<1> DEFINE seen == exact \cup (Search!ToSet(Search!Listed) \cap Ours)
<1>1. CASE Search!Ambiguous(seen)
  BY <1>1, FailStep DEF Search!Page
<1>2. CASE ~Search!Ambiguous(seen)
  <2>1. /\ expected' = Len(listed) /\ exact' = seen
        /\ \/ page < Search!Pages(Len(listed)) /\ page' = page + 1 /\ outcome' = outcome
           \/ /\ ~(page < Search!Pages(Len(listed))) /\ page' = page
              /\ outcome' = IF kind = "browser" /\ seen # {} THEN "detail"
                            ELSE IF seen = {} THEN "absent" ELSE "found"
        /\ UNCHANGED Search!provider
    BY <1>2 DEF Search!Page
  <2>2. \A i \in DOMAIN listed : i <= page * PageSize /\ listed[i] \in Ours => listed[i] \in seen
    <3> SUFFICES ASSUME NEW i \in DOMAIN listed, i <= page * PageSize, listed[i] \in Ours
                 PROVE  listed[i] \in seen
      OBVIOUS
    <3>1. RowsBefore \in Nat /\ page * PageSize = RowsBefore + PageSize /\ i \in Nat
      BY PageRows DEF SearchTypes
    <3>2. CASE RowsBefore < i
      BY <3>1, <3>2, PageRows
    <3>3. CASE i <= RowsBefore
      <4>1. outcome = "searching" /\ expected \in {None, Len(listed)}
        BY DEF Search!Page, Search!Doubtful
      <4>2. CASE expected = None
        BY <3>1, <3>3, <4>1, <4>2, SearchFacts DEF PagesSeen, RowsBefore, SearchTypes
      <4>3. CASE expected = Len(listed)
        BY <3>3, <4>1, <4>3 DEF PagesSeen
      <4> QED  BY <4>1, <4>2, <4>3
    <3> QED  BY <3>1, <3>2, <3>3
  <2>3. exact' \subseteq Ours /\ IsFiniteSet(seen) /\ Cardinality(seen) <= 1 /\ Cardinality(seen) \in Nat
    <3>1. seen \subseteq Ours /\ ~(Search!Cardinality(seen) > 1)
      BY <1>2 DEF SearchTypes, Search!Ambiguous
    <3> HIDE DEF seen
    <3>2. IsFiniteSet(seen) /\ Cardinality(seen) \in Nat
      BY <3>1, SearchFacts, FS_Subset, FS_CardinalityType
    <3> QED  BY <2>1, <3>1, <3>2, SearchCounts
  <2>4. SearchTypes'
    BY <2>1, <2>3 DEF SearchTypes, Search!provider
  <2>5. ThereListed' /\ TotalTells'
    BY <2>1 DEF ThereListed, TotalTells, Search!provider, SearchTypes
  <2>6. PagesSeen'
    BY <2>1, <2>2, SearchFacts DEF PagesSeen, RowsBefore, Search!provider, SearchTypes
  <2>7. ASSUME outcome' # "searching" PROVE there \subseteq seen
    <3>1. page >= Search!Pages(Len(listed))
      BY <2>1, <2>7, SearchFacts DEF Search!Page, Search!Pages, SearchTypes
    <3>2. Len(listed) <= page * PageSize
      BY <3>1, PagesCover, SearchFacts DEF Search!Pages, SearchTypes
    <3>3. page * PageSize \in Nat
      BY SearchFacts DEF SearchTypes
    <3>4. \A i \in DOMAIN listed : i <= page * PageSize
      BY <3>2, <3>3 DEF SearchTypes
    <3> QED  BY <2>2, <3>4 DEF ThereListed, SearchTypes
  <2>8. AnswerKept'
    <3>1. outcome = "searching"
      BY DEF Search!Page
    <3>2. seen # {} => Cardinality(seen) = 1
      BY <2>3, FS_EmptySet
    <3>3. there' = there
      BY <2>1 DEF Search!provider
    <3> HIDE DEF seen
    <3> QED  BY <2>1, <2>7, <3>1, <3>2, <3>3 DEF AnswerKept
  <2> QED  BY <2>4, <2>5, <2>6, <2>8
<1> QED  BY <1>1, <1>2

LEMMA SearchStep == ASSUME SearchInv, Search!Next PROVE SearchInv'
<1>1. CASE Search!Detail
  BY <1>1 DEF Search!Detail, Search!provider, SearchInv, SearchTypes, ThereListed, TotalTells, PagesSeen,
              AnswerKept
<1> QED  BY <1>1, AddedStep, RemovedStep, FailStep, PageStep DEF Search!Next, Search!BadPage, Search!DoubtfulPage

LEMMA SearchRests == SearchInv /\ UNCHANGED searchVars => SearchInv'
BY DEF SearchInv, SearchTypes, ThereListed, TotalTells, PagesSeen, AnswerKept, RowsBefore, searchVars

(* A search answers "nothing" only when none of our rows was listed all the   *)
(* time, and with one row only when it is the only one, however the provider's *)
(* list changes between its pages (find_profile, find_browser).               *)
THEOREM SearchesAnswerTruly == MCSpec => []AbsentWasAbsent
<1>1. MCInit => SearchInv
  BY SearchInit DEF MCInit
<1>2. SearchInv /\ [MCNext]_<<part, vars, profileVars, searchVars>> => SearchInv'
  <2>1. SearchInv /\ SearchPart => SearchInv'
    BY SearchStep DEF SearchPart
  <2>2. SearchInv /\ (RecordingPart \/ ProfilePart) => SearchInv'
    BY SearchRests DEF RecordingPart, ProfilePart
  <2>3. SearchInv /\ UNCHANGED <<part, vars, profileVars, searchVars>> => SearchInv'
    BY SearchRests
  <2> QED  BY <2>1, <2>2, <2>3 DEF MCNext
<1>3. SearchInv => AbsentWasAbsent
  BY SearchCounts DEF SearchInv, AnswerKept, AbsentWasAbsent, Search!AbsentWasAbsent, Search!FoundIsOnly
<1> QED  BY <1>1, <1>2, <1>3, PTL DEF MCSpec
=============================================================================
