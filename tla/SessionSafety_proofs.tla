------------------------ MODULE SessionSafety_proofs ------------------------
(***************************************************************************)
(* Proofs that the session lifecycle keeps its promises for any sessions,  *)
(* profiles and processes; and, at the end, of what the handlers conclude  *)
(* from the provider's answers (ProviderCalls).                            *)
(***************************************************************************)
EXTENDS MCSessionLifecycle, TLAPS

\* Every step of the session lifecycle, one name per action: the proofs below
\* have one case per name.
LEMMA StepCases ==
  ASSUME [Next]_vars
  PROVE  \/ UNCHANGED vars
         \/ \E t \in Tasks :
              \/ Abandon(t) \/ ReapError(t)
              \/ Reserve(t) \/ StartRejected(t) \/ StartSucceeds(t) \/ StartAmbiguous(t)
              \/ FindBrowser(t) \/ FailSession(t) \/ Activate(t) \/ ActivateMisses(t)
              \/ KeepLateRuntime(t) \/ RetainRuntime(t)
              \/ BeginEnd(t) \/ EndRuntime(t) \/ CheckClaim(t)
              \/ StopConfirmed(t) \/ StopUnconfirmed(t) \/ RememberSource(t)
              \/ RecordTerminalUsage(t) \/ EnqueueRecording(t)
              \/ FinalizeEnd(t) \/ FinalizeExpired(t) \/ FinalizeFailed(t)
         \/ \E p \in Procs : ClaimExpired(p)
         \/ \E s \in Sessions :
              TtlElapses(s) \/ LeaseLapses(s) \/ ProviderCreates(s) \/ BrowserStops(s)
         \/ \E p \in Profiles : EndProfile(p)
BY DEF Next, Creation, Settlement

LEMMA TaskParts ==
  ASSUME NEW t \in Tasks
  PROVE  /\ t.kind \in {"create", "end", "reap"}
         /\ t.proc \in Procs
         /\ t.session \in Sessions
BY DEF Tasks

LEMMA TaskIdentity ==
  ASSUME NEW t \in Tasks, NEW u \in Tasks,
         t.kind = u.kind, t.proc = u.proc, t.session = u.session
  PROVE  t = u
BY DEF Tasks

-----------------------------------------------------------------------------
(* Types *)

\* Every variable keeps its type, whatever any task does (the columns of the
\* sessions and recordings tables and the states of the provider).
LEMMA TypeInit == Init => TypeOK
BY DEF Init, TypeOK, Stages

LEMMA TypeStep == TypeOK /\ [Next]_vars => TypeOK'
<1> SUFFICES ASSUME TypeOK, [Next]_vars PROVE TypeOK'
  OBVIOUS
<1> USE ConstantsAssumption DEF rowVars, leaseVars, outcomeVars, taskVars, Goto, Learn
<1>0. CASE UNCHANGED vars
  BY <1>0 DEF TypeOK, vars
<1>1. ASSUME NEW t \in Tasks, Abandon(t) \/ ReapError(t) PROVE TypeOK'
  BY <1>1, TaskParts DEF TypeOK, Stages, Abandon, ReapError, Fail
<1>2. ASSUME NEW t \in Tasks, Reserve(t) PROVE TypeOK'
  BY <1>2, TaskParts DEF TypeOK, Stages, Live, Reserve
<1>3. ASSUME NEW t \in Tasks,
             StartRejected(t) \/ StartSucceeds(t) \/ StartAmbiguous(t) \/ FindBrowser(t)
      PROVE  TypeOK'
  BY <1>3, TaskParts DEF TypeOK, Stages, StartRejected, StartSucceeds, StartAmbiguous, FindBrowser
<1>4. ASSUME NEW t \in Tasks, FailSession(t) PROVE TypeOK'
  BY <1>4, TaskParts DEF TypeOK, Stages, Terminal, FailSession
<1>5. ASSUME NEW t \in Tasks,
             Activate(t) \/ ActivateMisses(t) \/ KeepLateRuntime(t) \/ RetainRuntime(t)
      PROVE  TypeOK'
  BY <1>5, TaskParts DEF TypeOK, Stages, Live, StoreRuntime,
                         Activate, ActivateMisses, KeepLateRuntime, RetainRuntime
<1>6. ASSUME NEW t \in Tasks, BeginEnd(t) \/ EndRuntime(t) \/ CheckClaim(t)
      PROVE  TypeOK'
  BY <1>6, TaskParts DEF TypeOK, Stages, Live, BeginEnd, EndRuntime, CheckClaim
<1>7. ASSUME NEW t \in Tasks, StopConfirmed(t) \/ StopUnconfirmed(t) \/ RememberSource(t)
      PROVE  TypeOK'
  BY <1>7, TaskParts DEF TypeOK, Stages, Fail, StopConfirmed, StopUnconfirmed, RememberSource
<1>8. ASSUME NEW t \in Tasks, RecordTerminalUsage(t) \/ EnqueueRecording(t)
      PROVE  TypeOK'
  BY <1>8, TaskParts DEF TypeOK, Stages, Fail, RecordTerminalUsage, EnqueueRecording
<1>9. ASSUME NEW t \in Tasks, FinalizeEnd(t) \/ FinalizeExpired(t) PROVE TypeOK'
  BY <1>9, TaskParts DEF TypeOK, Stages, Terminal, Fail, SettleRecording, FinalizeEnd,
     FinalizeExpired
<1>10. ASSUME NEW t \in Tasks, FinalizeFailed(t) PROVE TypeOK'
  BY <1>10, TaskParts DEF TypeOK, Stages, Terminal, FinalizeFailed
<1>11. ASSUME NEW p \in Procs, ClaimExpired(p) PROVE TypeOK'
  BY <1>11 DEF TypeOK, Stages, Live, Terminal, ClaimExpired, ExpiredReservations, Claimable
<1>12. ASSUME NEW s \in Sessions,
              TtlElapses(s) \/ LeaseLapses(s) \/ ProviderCreates(s) \/ BrowserStops(s)
       PROVE  TypeOK'
  BY <1>12 DEF TypeOK, TtlElapses, LeaseLapses, ProviderCreates, BrowserStops
<1>13. ASSUME NEW p \in Profiles, EndProfile(p) PROVE TypeOK'
  BY <1>13 DEF TypeOK, EndProfile
<1>14. QED
  BY <1>0, <1>1, <1>2, <1>3, <1>4, <1>5, <1>6, <1>7, <1>8, <1>9, <1>10, <1>11, <1>12,
     <1>13, StepCases

THEOREM TypeCorrect == Spec => []TypeOK
BY TypeInit, TypeStep, PTL DEF Spec

-----------------------------------------------------------------------------
(* The slot of a profile *)

LEMMA SlotInit == Init => SlotInv
<1> SUFFICES ASSUME Init PROVE SlotInv
  OBVIOUS
<1>1. TypeOK
  BY TypeInit
<1>2. QED
  BY <1>1, TaskParts
  DEF Init, SlotInv, RowFirst, BoundStarted, EachStage, EndingIsReapable, SettledStopped,
      OneLivePerProfile, LiveProfileNotRetired, IsLive, IsOver, Live, Terminal,
      Named, Stopping, Confirmed

LEMMA SlotStep == SlotInv /\ [Next]_vars => SlotInv'
<1> SUFFICES ASSUME SlotInv, [Next]_vars PROVE SlotInv'
  OBVIOUS
<1> USE ConstantsAssumption
    DEF rowVars, leaseVars, outcomeVars, taskVars, Goto, Learn, Fail, IsLive, IsOver,
        Live, Terminal, Named, Stopping, Confirmed, Started
<1> USE DEF RowFirst, BoundStarted, EachStage, EndingIsReapable, SettledStopped,
            OneLivePerProfile, LiveProfileNotRetired
<1>a. TypeOK /\ TypeOK'
  BY TypeStep DEF SlotInv
<1>0. CASE UNCHANGED vars
  BY <1>0, <1>a DEF SlotInv, vars
<1>1. ASSUME NEW t \in Tasks, Abandon(t) \/ ReapError(t) PROVE SlotInv'
  BY <1>1, <1>a, TaskParts DEF SlotInv, TypeOK, Abandon, ReapError
<1>2. ASSUME NEW t \in Tasks, Reserve(t) PROVE SlotInv'
  BY <1>2, <1>a, TaskParts DEF SlotInv, TypeOK, Reserve, SlotFree
<1>3. ASSUME NEW t \in Tasks, StartRejected(t) PROVE SlotInv'
  BY <1>3, <1>a, TaskParts DEF SlotInv, TypeOK, StartRejected
<1>4. ASSUME NEW t \in Tasks, StartSucceeds(t) PROVE SlotInv'
  BY <1>4, <1>a, TaskParts DEF SlotInv, TypeOK, StartSucceeds
<1>5. ASSUME NEW t \in Tasks, StartAmbiguous(t) PROVE SlotInv'
  BY <1>5, <1>a, TaskParts DEF SlotInv, TypeOK, StartAmbiguous
<1>6. ASSUME NEW t \in Tasks, FindBrowser(t) PROVE SlotInv'
  BY <1>6, <1>a, TaskParts DEF SlotInv, TypeOK, FindBrowser
<1>7. ASSUME NEW t \in Tasks, FailSession(t) PROVE SlotInv'
  BY <1>7, <1>a, TaskParts DEF SlotInv, TypeOK, FailSession
<1>8. ASSUME NEW t \in Tasks, Activate(t) PROVE SlotInv'
  BY <1>8, <1>a, TaskParts DEF SlotInv, TypeOK, Activate, StoreRuntime
<1>9. ASSUME NEW t \in Tasks, ActivateMisses(t) PROVE SlotInv'
  BY <1>9, <1>a, TaskParts DEF SlotInv, TypeOK, ActivateMisses
<1>10. ASSUME NEW t \in Tasks, KeepLateRuntime(t) PROVE SlotInv'
  BY <1>10, <1>a, TaskParts DEF SlotInv, TypeOK, KeepLateRuntime, StoreRuntime
<1>11. ASSUME NEW t \in Tasks, RetainRuntime(t) PROVE SlotInv'
  BY <1>11, <1>a, TaskParts DEF SlotInv, TypeOK, RetainRuntime
<1>12. ASSUME NEW t \in Tasks, BeginEnd(t) PROVE SlotInv'
  BY <1>12, <1>a, TaskParts DEF SlotInv, TypeOK, BeginEnd, GateFree
<1>13. ASSUME NEW t \in Tasks, EndRuntime(t) PROVE SlotInv'
  BY <1>13, <1>a, TaskParts DEF SlotInv, TypeOK, EndRuntime
<1>14. ASSUME NEW t \in Tasks, CheckClaim(t) PROVE SlotInv'
  BY <1>14, <1>a, TaskParts DEF SlotInv, TypeOK, CheckClaim
<1>15. ASSUME NEW t \in Tasks, StopConfirmed(t) PROVE SlotInv'
  BY <1>15, <1>a, TaskParts DEF SlotInv, TypeOK, StopConfirmed
<1>16. ASSUME NEW t \in Tasks, StopUnconfirmed(t) PROVE SlotInv'
  BY <1>16, <1>a, TaskParts DEF SlotInv, TypeOK, StopUnconfirmed
<1>17. ASSUME NEW t \in Tasks, RememberSource(t) PROVE SlotInv'
  BY <1>17, <1>a, TaskParts DEF SlotInv, TypeOK, RememberSource
<1>18. ASSUME NEW t \in Tasks, RecordTerminalUsage(t) PROVE SlotInv'
  BY <1>18, <1>a, TaskParts DEF SlotInv, TypeOK, RecordTerminalUsage
<1>19. ASSUME NEW t \in Tasks, EnqueueRecording(t) PROVE SlotInv'
  BY <1>19, <1>a, TaskParts DEF SlotInv, TypeOK, EnqueueRecording
<1>20. ASSUME NEW t \in Tasks, FinalizeEnd(t) PROVE SlotInv'
  BY <1>20, <1>a, TaskParts DEF SlotInv, TypeOK, FinalizeEnd, SettleRecording
<1>21. ASSUME NEW t \in Tasks, FinalizeExpired(t) PROVE SlotInv'
  BY <1>21, <1>a, TaskParts DEF SlotInv, TypeOK, FinalizeExpired, SettleRecording
<1>22. ASSUME NEW t \in Tasks, FinalizeFailed(t) PROVE SlotInv'
  BY <1>22, <1>a, TaskParts DEF SlotInv, TypeOK, FinalizeFailed
<1>23. ASSUME NEW p \in Procs, ClaimExpired(p) PROVE SlotInv'
  BY <1>23, <1>a, TaskParts DEF SlotInv, TypeOK, ClaimExpired, ExpiredReservations, Claimable
<1>24. ASSUME NEW s \in Sessions, TtlElapses(s) \/ LeaseLapses(s) PROVE SlotInv'
  BY <1>24, <1>a, TaskParts DEF SlotInv, TypeOK, TtlElapses, LeaseLapses
<1>25. ASSUME NEW s \in Sessions, ProviderCreates(s) PROVE SlotInv'
  BY <1>25, <1>a, TaskParts DEF SlotInv, TypeOK, ProviderCreates
<1>26. ASSUME NEW s \in Sessions, BrowserStops(s) PROVE SlotInv'
  BY <1>26, <1>a, TaskParts DEF SlotInv, TypeOK, BrowserStops
<1>27. ASSUME NEW p \in Profiles, EndProfile(p) PROVE SlotInv'
  BY <1>27, <1>a, TaskParts DEF SlotInv, TypeOK, EndProfile, SlotFree
<1>28. QED
  BY <1>0, <1>1, <1>2, <1>3, <1>4, <1>5, <1>6, <1>7, <1>8, <1>9, <1>10, <1>11, <1>12, <1>13,
     <1>14, <1>15, <1>16, <1>17, <1>18, <1>19, <1>20, <1>21, <1>22, <1>23, <1>24, <1>25, <1>26,
     <1>27, StepCases

\* The slot invariant holds in every state of the lifecycle.
THEOREM SlotInvariant == Spec => []SlotInv
BY SlotInit, SlotStep, PTL DEF Spec

\* A known remote browser runs only while its session holds the profile slot.
THEOREM SlotHeldWhileRunning == Spec => []KnownBrowserHoldsSlot
<1>1. SlotInv => KnownBrowserHoldsSlot
  BY DEF SlotInv, TypeOK, RowFirst, BoundStarted, SettledStopped, KnownBrowserHoldsSlot,
         Started, IsLive, IsOver, Live, Terminal
<1>2. QED
  BY <1>1, SlotInvariant, PTL

\* A profile never has two known remote browsers running.
THEOREM OneBrowserPerProfile == Spec => []KnownBrowsersExclusive
<1>1. SlotInv => KnownBrowsersExclusive
  BY DEF SlotInv, TypeOK, RowFirst, BoundStarted, SettledStopped, OneLivePerProfile,
         KnownBrowsersExclusive, Started, IsLive, IsOver, Live, Terminal
<1>2. QED
  BY <1>1, SlotInvariant, PTL

\* No profile is ended under a live session.
THEOREM LiveProfileKept == Spec => []LiveProfileNotRetired
BY SlotInvariant, PTL DEF SlotInv

\* A session that waits to be stopped can be claimed by the reaper.
THEOREM NoneStuckInEnding == Spec => []EndingIsReapable
BY SlotInvariant, PTL DEF SlotInv

-----------------------------------------------------------------------------
(* Settled sessions *)

\* No step revives a settled session, settles it differently, or changes the
\* remote browser its row names.
LEMMA SettledStep ==
  ASSUME TypeOK, [Next]_vars, NEW s \in Sessions, IsOver(s)
  PROVE  status'[s] = status[s] /\ (s \in bound' <=> s \in bound)
<1> USE DEF rowVars, IsOver, Live, Terminal, TypeOK
<1>0. CASE UNCHANGED vars
  BY <1>0 DEF vars
<1>1. ASSUME NEW t \in Tasks,
             Reserve(t) \/ FailSession(t) \/ Activate(t) \/ KeepLateRuntime(t) \/ RetainRuntime(t)
      PROVE  status'[s] = status[s] /\ (s \in bound' <=> s \in bound)
  BY <1>1, TaskParts DEF Reserve, FailSession, Activate, KeepLateRuntime, RetainRuntime,
     StoreRuntime
<1>2. ASSUME NEW t \in Tasks,
             BeginEnd(t) \/ FinalizeEnd(t) \/ FinalizeExpired(t) \/ FinalizeFailed(t)
      PROVE  status'[s] = status[s] /\ (s \in bound' <=> s \in bound)
  BY <1>2, TaskParts DEF BeginEnd, FinalizeEnd, FinalizeExpired, FinalizeFailed
<1>3. ASSUME NEW t \in Tasks,
             \/ Abandon(t) \/ ReapError(t) \/ StartRejected(t) \/ StartSucceeds(t)
             \/ StartAmbiguous(t) \/ FindBrowser(t) \/ ActivateMisses(t) \/ EndRuntime(t)
             \/ CheckClaim(t) \/ StopConfirmed(t) \/ StopUnconfirmed(t) \/ RememberSource(t)
             \/ RecordTerminalUsage(t) \/ EnqueueRecording(t)
      PROVE  status'[s] = status[s] /\ (s \in bound' <=> s \in bound)
  BY <1>3 DEF Abandon, ReapError, StartRejected, StartSucceeds, StartAmbiguous, FindBrowser,
              ActivateMisses, EndRuntime, CheckClaim, StopConfirmed, StopUnconfirmed,
              RememberSource, RecordTerminalUsage, EnqueueRecording
<1>4. ASSUME NEW p \in Procs, ClaimExpired(p)
      PROVE  status'[s] = status[s] /\ (s \in bound' <=> s \in bound)
  BY <1>4 DEF ClaimExpired, ExpiredReservations, Claimable
<1>5. ASSUME NEW o \in Sessions,
             TtlElapses(o) \/ LeaseLapses(o) \/ ProviderCreates(o) \/ BrowserStops(o)
      PROVE  status'[s] = status[s] /\ (s \in bound' <=> s \in bound)
  BY <1>5 DEF TtlElapses, LeaseLapses, ProviderCreates, BrowserStops
<1>6. ASSUME NEW p \in Profiles, EndProfile(p)
      PROVE  status'[s] = status[s] /\ (s \in bound' <=> s \in bound)
  BY <1>6 DEF EndProfile
<1>7. QED
  BY <1>0, <1>1, <1>2, <1>3, <1>4, <1>5, <1>6, StepCases

\* A settled session stays as it was settled.
THEOREM SettledStaysSettled == Spec => SettledForGood
<1>1. TypeOK /\ [Next]_vars => [\A s \in Sessions : IsOver(s) =>
                                 /\ status'[s] = status[s]
                                 /\ s \in bound' <=> s \in bound]_vars
  BY SettledStep
<1>2. QED
  BY <1>1, TypeCorrect, PTL DEF Spec, SettledForGood

-----------------------------------------------------------------------------
(* What a settled session keeps *)

LEMMA OutcomeInit == Init => OutcomeInv
BY TaskParts
DEF Init, OutcomeInv, OneCreation, KnowledgeTrue, Prepared, LiveRecording, StoreAfterStart,
    FinalBillKept, RecordingKept, StoreHasSource, IsLive, IsOver, Live, Terminal

LEMMA OutcomeStep == SlotInv /\ OutcomeInv /\ [Next]_vars => OutcomeInv'
<1> SUFFICES ASSUME SlotInv, OutcomeInv, [Next]_vars PROVE OutcomeInv'
  OBVIOUS
<1> USE ConstantsAssumption
    DEF rowVars, leaseVars, outcomeVars, taskVars, Goto, Learn, Fail, IsLive, IsOver,
        Live, Terminal, Stopping, Confirmed
<1> USE DEF OutcomeInv, OneCreation, KnowledgeTrue, Prepared, LiveRecording, StoreAfterStart,
            FinalBillKept, RecordingKept, StoreHasSource
<1>a. TypeOK /\ RowFirst /\ BoundStarted /\ EachStage /\ EndingIsReapable
  BY DEF SlotInv
<1> USE DEF TypeOK, RowFirst, BoundStarted, EachStage, EndingIsReapable, Started, Named
<1>0. CASE UNCHANGED vars
  BY <1>0 DEF vars
<1>1. ASSUME NEW t \in Tasks, Abandon(t) \/ ReapError(t) PROVE OutcomeInv'
  BY <1>1, <1>a, TaskParts DEF Abandon, ReapError
<1>2. ASSUME NEW t \in Tasks, Reserve(t) PROVE OutcomeInv'
  BY <1>2, <1>a, TaskParts DEF Reserve
<1>3. ASSUME NEW t \in Tasks, StartRejected(t) PROVE OutcomeInv'
  BY <1>3, <1>a, TaskParts DEF StartRejected
<1>4. ASSUME NEW t \in Tasks, StartSucceeds(t) PROVE OutcomeInv'
  BY <1>4, <1>a, TaskParts DEF StartSucceeds
<1>5. ASSUME NEW t \in Tasks, StartAmbiguous(t) PROVE OutcomeInv'
  BY <1>5, <1>a, TaskParts DEF StartAmbiguous
<1>6. ASSUME NEW t \in Tasks, FindBrowser(t) PROVE OutcomeInv'
  BY <1>6, <1>a, TaskParts DEF FindBrowser
<1>7. ASSUME NEW t \in Tasks, FailSession(t) PROVE OutcomeInv'
  BY <1>7, <1>a, TaskParts DEF FailSession
<1>8. ASSUME NEW t \in Tasks, Activate(t) PROVE OutcomeInv'
  BY <1>8, <1>a, TaskParts DEF Activate, StoreRuntime
<1>9. ASSUME NEW t \in Tasks, ActivateMisses(t) PROVE OutcomeInv'
  BY <1>9, <1>a, TaskParts DEF ActivateMisses
<1>10. ASSUME NEW t \in Tasks, KeepLateRuntime(t) PROVE OutcomeInv'
  BY <1>10, <1>a, TaskParts DEF KeepLateRuntime, StoreRuntime
<1>11. ASSUME NEW t \in Tasks, RetainRuntime(t) PROVE OutcomeInv'
  BY <1>11, <1>a, TaskParts DEF RetainRuntime
<1>12. ASSUME NEW t \in Tasks, BeginEnd(t) PROVE OutcomeInv'
  BY <1>12, <1>a, TaskParts DEF BeginEnd
<1>13. ASSUME NEW t \in Tasks, EndRuntime(t) PROVE OutcomeInv'
  BY <1>13, <1>a, TaskParts DEF EndRuntime
<1>14. ASSUME NEW t \in Tasks, CheckClaim(t) PROVE OutcomeInv'
  BY <1>14, <1>a, TaskParts DEF CheckClaim
<1>15. ASSUME NEW t \in Tasks, StopConfirmed(t) PROVE OutcomeInv'
  BY <1>15, <1>a, TaskParts DEF StopConfirmed
<1>16. ASSUME NEW t \in Tasks, StopUnconfirmed(t) PROVE OutcomeInv'
  BY <1>16, <1>a, TaskParts DEF StopUnconfirmed
<1>17. ASSUME NEW t \in Tasks, RememberSource(t) PROVE OutcomeInv'
  BY <1>17, <1>a, TaskParts DEF RememberSource
<1>18. ASSUME NEW t \in Tasks, RecordTerminalUsage(t) PROVE OutcomeInv'
  BY <1>18, <1>a, TaskParts DEF RecordTerminalUsage
<1>19. ASSUME NEW t \in Tasks, EnqueueRecording(t) PROVE OutcomeInv'
  BY <1>19, <1>a, TaskParts DEF EnqueueRecording, Recordable, Settling
<1>20. ASSUME NEW t \in Tasks, FinalizeEnd(t) PROVE OutcomeInv'
  BY <1>20, <1>a, TaskParts DEF FinalizeEnd, SettleRecording
<1>21. ASSUME NEW t \in Tasks, FinalizeExpired(t) PROVE OutcomeInv'
  BY <1>21, <1>a, TaskParts DEF FinalizeExpired, SettleRecording
<1>22. ASSUME NEW t \in Tasks, FinalizeFailed(t) PROVE OutcomeInv'
  BY <1>22, <1>a, TaskParts DEF FinalizeFailed
<1>23. ASSUME NEW p \in Procs, ClaimExpired(p) PROVE OutcomeInv'
  BY <1>23, <1>a, TaskParts DEF ClaimExpired, ExpiredReservations, Claimable
<1>24. ASSUME NEW s \in Sessions, TtlElapses(s) \/ LeaseLapses(s) \/ ProviderCreates(s) \/ BrowserStops(s)
       PROVE OutcomeInv'
  BY <1>24, <1>a, TaskParts DEF TtlElapses, LeaseLapses, ProviderCreates, BrowserStops
<1>25. ASSUME NEW p \in Profiles, EndProfile(p) PROVE OutcomeInv'
  BY <1>25, <1>a, TaskParts DEF EndProfile
<1>26. QED
  BY <1>0, <1>1, <1>2, <1>3, <1>4, <1>5, <1>6, <1>7, <1>8, <1>9, <1>10, <1>11, <1>12, <1>13,
     <1>14, <1>15, <1>16, <1>17, <1>18, <1>19, <1>20, <1>21, <1>22, <1>23, <1>24, <1>25,
     StepCases

\* The invariant of bills and recordings holds together with that of the slot.
THEOREM OutcomeInvariant == Spec => [](SlotInv /\ OutcomeInv)
<1>1. Init => SlotInv /\ OutcomeInv
  BY SlotInit, OutcomeInit
<1>2. (SlotInv /\ OutcomeInv) /\ [Next]_vars => (SlotInv /\ OutcomeInv)'
  BY SlotStep, OutcomeStep
<1>3. QED
  BY <1>1, <1>2, PTL DEF Spec

\* A session whose browser was known never settles without its final bill.
THEOREM FinalBillIsKept == Spec => []FinalBillKept
BY OutcomeInvariant, PTL DEF OutcomeInv

\* Nor does it settle without its recording pending and traceable.
THEOREM RecordingIsKept == Spec => []RecordingKept
BY OutcomeInvariant, PTL DEF OutcomeInv

\* No storage intent is queued for a recording without a source.
THEOREM StoreIntentsHaveSource == Spec => []StoreHasSource
BY OutcomeInvariant, PTL DEF OutcomeInv

-----------------------------------------------------------------------------
(* Exclusion of stops *)

LEMMA WorkerStep ==
  LeaseCoversAttempt /\ TypeOK /\ EachStage /\ WorkerHoldsLease /\ [Next]_vars => WorkerHoldsLease'
<1> SUFFICES ASSUME LeaseCoversAttempt, TypeOK, EachStage, WorkerHoldsLease, [Next]_vars
             PROVE  WorkerHoldsLease'
  OBVIOUS
<1> USE ConstantsAssumption
    DEF WorkerHoldsLease, rowVars, leaseVars, outcomeVars, taskVars, Goto, Learn, Fail,
        TypeOK, EachStage, Stopping
<1>0. CASE UNCHANGED vars
  BY <1>0 DEF vars
<1>1. ASSUME NEW t \in Tasks, Abandon(t) \/ ReapError(t) PROVE WorkerHoldsLease'
  BY <1>1, TaskParts, TaskIdentity DEF Abandon, ReapError
<1>2. ASSUME NEW t \in Tasks, Reserve(t) \/ StartRejected(t) \/ StartSucceeds(t) \/ StartAmbiguous(t)
      PROVE WorkerHoldsLease'
  BY <1>2, TaskParts, TaskIdentity DEF Reserve, StartRejected, StartSucceeds, StartAmbiguous
<1>3. ASSUME NEW t \in Tasks, FindBrowser(t) \/ FailSession(t) \/ Activate(t) \/ ActivateMisses(t)
      PROVE WorkerHoldsLease'
  BY <1>3, TaskParts, TaskIdentity DEF FindBrowser, FailSession, Activate, ActivateMisses
<1>4. ASSUME NEW t \in Tasks, KeepLateRuntime(t) \/ RetainRuntime(t) PROVE WorkerHoldsLease'
  BY <1>4, TaskParts, TaskIdentity DEF KeepLateRuntime, RetainRuntime
<1>5. ASSUME NEW t \in Tasks, BeginEnd(t) \/ EndRuntime(t) \/ CheckClaim(t) PROVE WorkerHoldsLease'
  BY <1>5, TaskParts, TaskIdentity DEF BeginEnd, EndRuntime, CheckClaim
<1>6. ASSUME NEW t \in Tasks, StopConfirmed(t) \/ StopUnconfirmed(t) \/ RememberSource(t)
      PROVE WorkerHoldsLease'
  BY <1>6, TaskParts, TaskIdentity DEF StopConfirmed, StopUnconfirmed, RememberSource
<1>7. ASSUME NEW t \in Tasks, RecordTerminalUsage(t) PROVE WorkerHoldsLease'
  BY <1>7, TaskParts, TaskIdentity DEF RecordTerminalUsage
<1>8. ASSUME NEW t \in Tasks, EnqueueRecording(t) PROVE WorkerHoldsLease'
  BY <1>8, TaskParts, TaskIdentity DEF EnqueueRecording
<1>9. ASSUME NEW t \in Tasks, FinalizeEnd(t) PROVE WorkerHoldsLease'
  BY <1>9, TaskParts, TaskIdentity DEF FinalizeEnd
<1>10. ASSUME NEW t \in Tasks, FinalizeExpired(t) PROVE WorkerHoldsLease'
  BY <1>10, TaskParts, TaskIdentity DEF FinalizeExpired
<1>11. ASSUME NEW t \in Tasks, FinalizeFailed(t) PROVE WorkerHoldsLease'
  BY <1>11, TaskParts, TaskIdentity DEF FinalizeFailed
<1>12. ASSUME NEW p \in Procs, ClaimExpired(p) PROVE WorkerHoldsLease'
  BY <1>12, TaskParts, TaskIdentity DEF ClaimExpired, ExpiredReservations, Claimable
<1>13. ASSUME NEW s \in Sessions, TtlElapses(s) \/ LeaseLapses(s) \/ ProviderCreates(s) \/ BrowserStops(s)
       PROVE WorkerHoldsLease'
  BY <1>13, TaskParts, TaskIdentity DEF TtlElapses, LeaseLapses, ProviderCreates, BrowserStops
<1>14. ASSUME NEW p \in Profiles, EndProfile(p) PROVE WorkerHoldsLease'
  BY <1>14, TaskParts, TaskIdentity DEF EndProfile
<1>15. QED
  BY <1>0, <1>1, <1>2, <1>3, <1>4, <1>5, <1>6, <1>7, <1>8, <1>9, <1>10, <1>11, <1>12, <1>13,
     <1>14, StepCases

\* At most one reaper worker is past its claim check, over all processes, if
\* an attempt is over before its lease.
THEOREM StopsExclusive == ASSUME LeaseCoversAttempt PROVE Spec => []OneWorkerPerSession
<1>1. Init => WorkerHoldsLease
  BY DEF Init, WorkerHoldsLease
<1>2. SlotInv /\ WorkerHoldsLease /\ [Next]_vars => WorkerHoldsLease'
  BY WorkerStep DEF SlotInv
<1>3. WorkerHoldsLease => OneWorkerPerSession
  BY DEF WorkerHoldsLease, OneWorkerPerSession, Tasks
<1>4. QED
  BY <1>1, <1>2, <1>3, SlotInvariant, PTL DEF Spec

-----------------------------------------------------------------------------
(* The lifecycle implements the slot *)

LEMMA SlotRefinementInit == Init => Slot!Init
BY DEF Init, Slot!Init, Held, Opened, Spent, IsLive, IsOver, Live, Terminal

\* Every step of the lifecycle acquires, opens, closes or releases the slot of
\* a profile in the order ProfileSlot allows, or leaves it alone.
LEMMA SlotRefinementStep ==
  SlotInv /\ [Next]_vars => [Slot!Next]_(Slot!slotVars)
<1> SUFFICES ASSUME SlotInv, [Next]_vars
             PROVE  [Slot!Next]_(Slot!slotVars)
  OBVIOUS
<1> USE ConstantsAssumption
    DEF rowVars, leaseVars, outcomeVars, taskVars, Slot!slotVars, Held, Opened, Spent,
        IsLive, IsOver, Live, Terminal
<1>a. TypeOK /\ RowFirst /\ BoundStarted /\ EachStage /\ SettledStopped
  BY DEF SlotInv
<1>b. \A s \in Sessions : Slot!Acquire(s) \/ Slot!Open(s) \/ Slot!Close(s) => Slot!Next
  BY DEF Slot!Next
<1>c. \A S \in SUBSET Sessions : Slot!Release(S) => Slot!Next
  BY DEF Slot!Next
<1> DEFINE Unmoved == Held' = Held /\ Opened' = Opened /\ Spent' = Spent
<1>0. CASE UNCHANGED vars
  BY <1>0 DEF vars
<1>1. ASSUME NEW t \in Tasks, Reserve(t) PROVE Slot!Acquire(t.session)
  <2> DEFINE s == t.session
  <2>1. s \in Sessions
    BY TaskParts
  <2>2. s \notin Held \cup Spent
    BY <1>1, <1>a, <2>1 DEF Reserve, TypeOK
  <2>3. \A o \in Held : ~Slot!Conflicts(s, o)
    BY <1>1, <2>1 DEF Reserve, SlotFree, Slot!Conflicts
  <2>4. Held' = Held \cup {s} /\ Spent' = Spent
    BY <1>1, <1>a, <2>1 DEF Reserve, TypeOK
  <2>5. Opened' = Opened
    BY <1>1, <1>a, <2>1 DEF Reserve, TypeOK, RowFirst
  <2>6. QED
    BY <2>2, <2>3, <2>4, <2>5 DEF Slot!Acquire
<1>2. ASSUME NEW t \in Tasks,
             \/ Abandon(t) \/ ReapError(t) \/ StartSucceeds(t) \/ StartAmbiguous(t)
             \/ FindBrowser(t) \/ ActivateMisses(t) \/ EndRuntime(t) \/ CheckClaim(t)
             \/ StopUnconfirmed(t) \/ RememberSource(t) \/ RecordTerminalUsage(t)
             \/ EnqueueRecording(t)
      PROVE  Unmoved
  BY <1>2 DEF Abandon, ReapError, StartSucceeds, StartAmbiguous, FindBrowser, ActivateMisses,
              EndRuntime, CheckClaim, StopUnconfirmed, RememberSource, RecordTerminalUsage,
              EnqueueRecording
<1>3. ASSUME NEW t \in Tasks, StartRejected(t) PROVE Unmoved
  BY <1>3, <1>a, TaskParts DEF StartRejected, TypeOK
<1>4. ASSUME NEW t \in Tasks, Activate(t) \/ KeepLateRuntime(t) \/ RetainRuntime(t)
      PROVE  Unmoved \/ Slot!Open(t.session)
  <2> DEFINE s == t.session
  <2>1. \/ UNCHANGED <<status, bound>>
        \/ /\ status[s] \in Live /\ bound' = bound \cup {s}
           /\ \E l \in Live : status' = [status EXCEPT ![s] = l]
    BY <1>4 DEF Activate, KeepLateRuntime, RetainRuntime, StoreRuntime
  <2>2. browser' = browser
    BY <1>4 DEF Activate, KeepLateRuntime, RetainRuntime
  <2>3. Held' = Held /\ Spent' = Spent
    BY <2>1, <1>a, TaskParts DEF TypeOK
  <2>4. CASE UNCHANGED <<status, bound>> \/ browser[s] # "running"
    BY <2>1, <2>2, <2>3, <2>4
  <2>5. CASE bound' = bound \cup {s} /\ status[s] \in Live /\ browser[s] = "running"
    <3>1. s \in Held
      BY <2>5, TaskParts
    <3>2. Opened' = Opened \cup {s}
      BY <2>2, <2>5
    <3>3. QED
      BY <2>3, <3>1, <3>2 DEF Slot!Open
  <2>6. QED
    BY <2>1, <2>4, <2>5
<1>5. ASSUME NEW t \in Tasks, BeginEnd(t) PROVE Unmoved
  BY <1>5, <1>a, TaskParts DEF BeginEnd, TypeOK
<1>6. ASSUME NEW t \in Tasks, StopConfirmed(t) PROVE Slot!Close(t.session)
  BY <1>6, <1>a, TaskParts DEF StopConfirmed, TypeOK, Slot!Close
<1>7. ASSUME NEW t \in Tasks, FailSession(t)
      PROVE  Unmoved \/ Slot!Release({t.session})
  BY <1>7, <1>a, TaskParts DEF FailSession, TypeOK, EachStage, Slot!Release
<1>8. ASSUME NEW t \in Tasks, FinalizeEnd(t) \/ FinalizeExpired(t)
      PROVE  Unmoved \/ Slot!Release({t.session})
  BY <1>8, <1>a, TaskParts
  DEF FinalizeEnd, FinalizeExpired, TypeOK, EachStage, Confirmed, Stopping, Slot!Release
<1>9. ASSUME NEW t \in Tasks, FinalizeFailed(t)
      PROVE  Unmoved \/ Slot!Release({t.session})
  BY <1>9, <1>a, TaskParts
  DEF FinalizeFailed, TypeOK, EachStage, Confirmed, Stopping, Slot!Release
<1>10. ASSUME NEW p \in Procs, ClaimExpired(p)
       PROVE  Slot!Release(ExpiredReservations)
  <2>1. ExpiredReservations \subseteq Held \ Opened
    BY <1>a DEF TypeOK, BoundStarted, ExpiredReservations
  <2>2. Held' = Held \ ExpiredReservations /\ Spent' = Spent \cup ExpiredReservations
    BY <1>10, <1>a DEF ClaimExpired, ExpiredReservations, Claimable, TypeOK
  <2>3. Opened' = Opened
    BY <1>10 DEF ClaimExpired, ExpiredReservations, Claimable
  <2>4. QED
    BY <2>1, <2>2, <2>3 DEF Slot!Release
<1>11. ASSUME NEW s \in Sessions, TtlElapses(s) \/ LeaseLapses(s) PROVE Unmoved
  BY <1>11 DEF TtlElapses, LeaseLapses
<1>12. ASSUME NEW s \in Sessions, ProviderCreates(s) PROVE Unmoved
  BY <1>12, <1>a DEF ProviderCreates, TypeOK, BoundStarted, Started
<1>13. ASSUME NEW s \in Sessions, BrowserStops(s) PROVE Slot!Close(s)
  BY <1>13, <1>a DEF BrowserStops, TypeOK, Slot!Close
<1>14. ASSUME NEW p \in Profiles, EndProfile(p) PROVE Unmoved
  BY <1>14 DEF EndProfile
<1>15. QED
  <2>1. Unmoved => [Slot!Next]_(Slot!slotVars)
    OBVIOUS
  <2>2. \A t \in Tasks : t.session \in Sessions /\ {t.session} \in SUBSET Sessions
    BY TaskParts
  <2>3. ExpiredReservations \in SUBSET Sessions
    BY <1>a DEF TypeOK, ExpiredReservations
  <2> HIDE DEF Unmoved, Slot!slotVars, Held, Opened, Spent
  <2>4. QED
    BY <1>0, <1>1, <1>2, <1>3, <1>4, <1>5, <1>6, <1>7, <1>8, <1>9, <1>10, <1>11, <1>12,
       <1>13, <1>14, <1>b, <1>c, <2>1, <2>2, <2>3, StepCases

\* The lifecycle implements the slot of a profile.
THEOREM LifecycleImplementsSlot == Spec => SlotSpec
BY SlotRefinementInit, SlotRefinementStep, SlotInvariant, PTL DEF Spec, SlotSpec, Slot!Spec

-----------------------------------------------------------------------------
(* The calls part (ProviderCalls).  What the handler has concluded at each *)
(* stage is true of the provider, whatever happened to the answers.        *)

CallBodies ==
  [id : Calls!Ids \cup {NoId}, status : {"garbage", "odd", "active", "stopped", "none"},
   runtime : {"whole", "missing", "bad"}]
CallAnswers ==
  [status : Nat, size : {"lost", "small", "cut", "declared_large", "large"}, body : CallBodies]
CallErrors == [class : {"none", "transport", "invalid", "http", "input", "store"}, status : Nat]
CallHandlers ==
  [op : {"none", "create", "end"},
   pc : {"idle", "scope", "start", "find", "adopt", "activate", "refused", "answer", "stop", "snapshot", "finalize"},
   sent : BOOLEAN, answer : CallAnswers, id : Calls!Ids \cup {NoId}, error : CallErrors]

CallTypes ==
  /\ remote \in [Calls!Ids -> {"none", "active", "stopped"}]
  /\ late \subseteq Own \cup {"start"}
  /\ row \in [status : {"none", "starting", "active", "ending", "ended", "failed"}, id : Own \cup {NoId}]
  /\ handler \in CallHandlers
  /\ client \in [pc : {"create", "waits", "told", "ended"}, told : [status : Nat, marked : BOOLEAN],
                 calls : Nat, resent : BOOLEAN]
  /\ reserved \in {0, 1}

(* The provider starts one browser at most, and none after a stop. *)
Launched(id) == remote[id] # "none"
Unstarted == (\A id \in Own : ~Launched(id)) /\ late = {}
OneBrowser ==
  /\ \A id, other \in Own : Launched(id) /\ Launched(other) => id = other
  /\ "start" \in late => \A id \in Own : ~Launched(id)
  /\ \A id \in Own : id \in late => Launched(id)
NothingRuns == (\A id \in Own : remote[id] # "active") /\ "start" \notin late

(* An answer that tells the client it came too often. *)
TooMany(error) == error.class \in {"http", "store"} /\ error.status = 429

(* Nothing was reserved before the handler runs. *)
Reservation ==
  /\ handler.pc = "idle" <=> client.pc # "waits"
  /\ handler.pc = "scope" => ~handler.sent
  /\ handler.pc \notin {"idle", "scope"} \/ handler.op = "end" => reserved = 1
  /\ client.pc = "create" \/ (client.pc = "told" /\ client.told.marked)
       \/ (handler.op = "create" /\ handler.pc = "scope") => reserved = 0
  /\ reserved = 0 => Unstarted
  /\ reserved = 0 <=> row.status = "none"
  /\ client.pc = "told" /\ client.told.status = 429 => NothingRuns

RowTruth ==
  /\ row.status = "failed" => NothingRuns
  /\ row.status \in {"active", "ending", "ended"} => row.id \in Own /\ Launched(row.id)
  /\ row.status = "ended" => remote[row.id] = "stopped"

(* What an answer to a start tells. *)
StartTruth(answer) ==
  LET error == Calls!Classified(answer) IN
  /\ error = Calls!NoError /\ answer.body.id \in Calls!Ids => answer.body.id \in Own /\ Launched(answer.body.id)
  /\ error # Calls!NoError /\ ~Calls!MayHaveCommitted(error) => Unstarted

(* What an answer about the browser id tells. *)
StopTruth(answer, id) ==
  Calls!Classified(answer) = Calls!NoError /\ Calls!Proven(answer.body, id) => remote[id] = "stopped"

HandlerTruth ==
  /\ handler.pc = "start" =>
       /\ handler.op = "create" /\ row.status = "starting"
       /\ ~handler.sent => Unstarted
       /\ handler.sent => StartTruth(handler.answer)
  /\ handler.pc = "refused" => handler.op = "create" /\ Unstarted
  /\ handler.pc \in {"find", "activate", "adopt"} => handler.op = "create" /\ row.status = "starting"
  /\ handler.pc \in {"activate", "adopt", "stop", "snapshot", "finalize"} =>
       handler.id \in Own /\ Launched(handler.id)
  /\ handler.pc \in {"stop", "snapshot"} /\ handler.sent => StopTruth(handler.answer, handler.id)
  /\ handler.pc = "finalize" => remote[handler.id] = "stopped"
  /\ handler.pc \in {"stop", "snapshot", "finalize"} /\ handler.op # "create" =>
       row.id = handler.id /\ row.status = "ending"
  /\ handler.op = "create" /\ handler.pc \in {"find", "stop", "snapshot", "finalize"} => ~TooMany(handler.error)
  /\ handler.op = "create" /\ handler.pc = "answer" /\ TooMany(handler.error) => NothingRuns

CallsInv == CallTypes /\ OneBrowser /\ Reservation /\ RowTruth /\ HandlerTruth

LEMMA CallNames ==
  /\ NoId \notin Calls!Ids /\ "start" \notin Calls!Ids /\ Own \cap Foreign = {}
  /\ Own \subseteq Calls!Ids /\ Foreign \subseteq Calls!Ids /\ NoId \notin Own /\ "start" \notin Own
BY PartsAssumption DEF Calls!ProviderCallsAssumption, Calls!Ids

(* What an answer is taken for. *)
LEMMA Conclusions ==
  ASSUME NEW answer \in CallAnswers
  PROVE  /\ Calls!Classified(answer) \in CallErrors
         /\ Calls!Classified(answer) = Calls!NoError => Calls!Success(answer.status) /\ answer.body # Calls!Garbage
         /\ Calls!Classified(answer) # Calls!NoError /\ ~Calls!MayHaveCommitted(Calls!Classified(answer)) =>
              Calls!Classified(answer) = Calls!Error("http", answer.status) /\ answer.status \notin 500..599
                /\ ~Calls!Success(answer.status) /\ answer.size # "lost"
BY DEF CallAnswers, CallErrors, Calls!Classified, Calls!NoError, Calls!Error, Calls!MayHaveCommitted

(* An error after which something may have happened is not "too often". *)
LEMMA Committed ==
  ASSUME NEW error \in CallErrors, Calls!MayHaveCommitted(error)
  PROVE  ~TooMany(error)
BY DEF TooMany, Calls!MayHaveCommitted, CallErrors

LEMMA ErrorSets ==
  ASSUME NEW class \in {"none", "transport", "invalid", "http", "input", "store"}, NEW code \in Nat
  PROVE  /\ Calls!Error(class, code) \in CallErrors
         /\ Calls!Error(class, code).class = class /\ Calls!Error(class, code).status = code
         /\ code # 429 => ~TooMany(Calls!Error(class, code))
BY DEF Calls!Error, CallErrors, TooMany

(* A request that waits for nobody. *)
LEMMA IdleHandler ==
  /\ Calls!Idle \in CallHandlers /\ Calls!Idle.pc = "idle" /\ Calls!Idle.op = "none" /\ Calls!Idle.sent = FALSE
  /\ Calls!Lost \in CallAnswers /\ Calls!Garbage \in CallBodies
BY CallNames DEF Calls!Idle, CallHandlers, CallAnswers, CallBodies, CallErrors, Calls!Lost, Calls!Garbage, Calls!Browser,
                 Calls!NoError, Calls!Error

(* A step of the handler that only it takes notice of, or the row too. *)
LEMMA HandlerMoves ==
  ASSUME CallsInv, handler' \in CallHandlers, handler.pc \notin {"idle", "scope"}, handler'.pc \notin {"idle", "scope"},
         UNCHANGED <<remote, late, row, client, reserved>>, HandlerTruth'
  PROVE  CallsInv'
<1>1. CallTypes' /\ OneBrowser' /\ RowTruth'
  BY DEF CallsInv, CallTypes, OneBrowser, RowTruth, Launched, NothingRuns
<1>2. Reservation'
  BY DEF CallsInv, Reservation, Unstarted, Launched, NothingRuns
<1> QED  BY <1>1, <1>2 DEF CallsInv

LEMMA RowMoves ==
  ASSUME CallsInv, handler' \in CallHandlers, reserved = 1, handler.pc # "idle", handler'.pc \notin {"idle", "scope"},
         UNCHANGED <<remote, late, client, reserved>>,
         row' \in [status : {"starting", "active", "ending", "ended", "failed"}, id : Own \cup {NoId}],
         RowTruth', HandlerTruth'
  PROVE  CallsInv'
<1>1. CallTypes' /\ OneBrowser'
  BY DEF CallsInv, CallTypes, OneBrowser, Launched
<1>2. Reservation'
  BY DEF CallsInv, Reservation, NothingRuns
<1> QED  BY <1>1, <1>2 DEF CallsInv

LEMMA CallsStart ==
  Calls!Init => CallsInv
<1> SUFFICES ASSUME Calls!Init PROVE CallsInv
  OBVIOUS
<1>1. /\ remote \in [Calls!Ids -> {"none", "active", "stopped"}] /\ \A id \in Own : remote[id] = "none"
      /\ late = {} /\ row = [status |-> "none", id |-> NoId] /\ handler = Calls!Idle
      /\ client = [pc |-> "create", told |-> [status |-> 0, marked |-> FALSE], calls |-> 0, resent |-> FALSE]
      /\ reserved = 0
  BY CallNames DEF Calls!Init, Calls!Untold
<1>2. CallTypes
  BY <1>1, IdleHandler DEF CallTypes
<1>3. OneBrowser /\ RowTruth /\ Unstarted
  BY <1>1 DEF OneBrowser, RowTruth, Launched, Unstarted, NothingRuns
<1>4. Reservation /\ HandlerTruth
  BY <1>1, <1>3, IdleHandler DEF Reservation, HandlerTruth
<1> QED  BY <1>2, <1>3, <1>4 DEF CallsInv

(* The client asks, and is told. *)
LEMMA CallsSend ==
  ASSUME CallsInv, NEW op \in {"create", "end"}, Calls!Send(op)
  PROVE  CallsInv'
<1>1. /\ handler = Calls!Idle /\ client.pc # "waits"
      /\ op = "end" => row.status # "none"
      /\ op = "create" => client.pc = "create" \/ (client.pc = "told" /\ client.told.marked)
      /\ handler' = [Calls!Idle EXCEPT !.op = op, !.pc = "scope"]
      /\ client' = [client EXCEPT !.pc = "waits", !.calls = @ + 1, !.resent = (op = "create" /\ client.pc = "told")]
      /\ UNCHANGED <<remote, late, row, reserved>>
  BY IdleHandler DEF Calls!Send, CallsInv, Reservation
<1>2. handler' \in CallHandlers /\ handler'.op = op /\ handler'.pc = "scope" /\ ~handler'.sent
  BY <1>1, IdleHandler DEF CallHandlers
<1>3. client'.pc = "waits" /\ client' \in [pc : {"create", "waits", "told", "ended"},
                                          told : [status : Nat, marked : BOOLEAN], calls : Nat, resent : BOOLEAN]
  <2> DEFINE again == op = "create" /\ client.pc = "told"
             n == client.calls + 1
  <2>1. again \in BOOLEAN /\ n \in Nat
    BY DEF CallsInv, CallTypes
  <2>2. client' = [client EXCEPT !.pc = "waits", !.calls = n, !.resent = again]
    BY <1>1, Zenon
  <2> HIDE DEF again, n
  <2> QED  BY <2>1, <2>2 DEF CallsInv, CallTypes
<1>4. CallTypes'
  BY <1>1, <1>2, <1>3 DEF CallsInv, CallTypes
<1>5. OneBrowser' /\ RowTruth'
  BY <1>1 DEF CallsInv, OneBrowser, RowTruth, Launched, NothingRuns
<1>6. Reservation'
  BY <1>1, <1>2, <1>3 DEF CallsInv, Reservation, Unstarted, Launched, CallTypes
<1>7. HandlerTruth'
  BY <1>2 DEF HandlerTruth
<1> QED  BY <1>4, <1>5, <1>6, <1>7 DEF CallsInv

(* The client is told: what it is told must be true. *)
LEMMA CallsTell ==
  ASSUME CallsInv, NEW told \in [status : Nat, marked : BOOLEAN], Calls!Tell(told), handler.pc # "idle",
         handler.op = "create" /\ told.marked => reserved = 0,
         handler.op = "create" /\ told.status = 429 => NothingRuns,
         UNCHANGED <<remote, late, reserved>>,
         row' \in [status : {"none", "starting", "active", "ending", "ended", "failed"}, id : Own \cup {NoId}],
         RowTruth', reserved = 0 <=> row'.status = "none"
  PROVE  CallsInv'
<1> DEFINE stage == IF handler.op = "create" THEN "told" ELSE "ended"
<1>1. handler' = Calls!Idle /\ client' = [client EXCEPT !.pc = stage, !.told = told]
  BY DEF Calls!Tell
<1>2. stage \in {"told", "ended"} /\ (stage = "told" <=> handler.op = "create")
  OBVIOUS
<1> HIDE DEF stage
<1>3. /\ client' \in [pc : {"create", "waits", "told", "ended"}, told : [status : Nat, marked : BOOLEAN],
                      calls : Nat, resent : BOOLEAN]
      /\ client'.pc = stage /\ client'.told = told
  BY <1>1, <1>2 DEF CallsInv, CallTypes
<1>4. CallTypes'
  BY <1>1, <1>3, IdleHandler DEF CallsInv, CallTypes
<1>5. OneBrowser' /\ (Unstarted => Unstarted') /\ (NothingRuns => NothingRuns')
  BY DEF CallsInv, OneBrowser, Launched, Unstarted, NothingRuns
<1>6. Reservation'
  BY <1>1, <1>2, <1>3, <1>5, IdleHandler DEF CallsInv, Reservation
<1>7. HandlerTruth'
  BY <1>1, IdleHandler DEF HandlerTruth
<1> QED  BY <1>4, <1>5, <1>6, <1>7 DEF CallsInv

(* Refused before the handler, or answered at its end. *)
LEMMA CallsRefused ==
  ASSUME CallsInv, Calls!Unauthenticated
  PROVE  CallsInv'
<1>1. PICK code \in {400, 401, 403, 429, 500, 501, 502, 503} : Calls!Tell(Calls!BeforeHandler(code))
  BY DEF Calls!Unauthenticated
<1>2. handler.pc = "scope" /\ UNCHANGED <<remote, late, row, reserved>>
  BY DEF Calls!Unauthenticated
<1>3. Calls!BeforeHandler(code) \in [status : Nat, marked : BOOLEAN]
  BY DEF Calls!BeforeHandler
<1>4. handler.op = "create" => reserved = 0 /\ NothingRuns
  BY <1>2 DEF CallsInv, Reservation, Unstarted, Launched, NothingRuns
<1>5. row' \in [status : {"none", "starting", "active", "ending", "ended", "failed"}, id : Own \cup {NoId}]
      /\ RowTruth' /\ (reserved = 0 <=> row'.status = "none")
  BY <1>2 DEF CallsInv, CallTypes, RowTruth, Launched, NothingRuns, Reservation
<1> QED  BY <1>1, <1>2, <1>3, <1>4, <1>5, CallsTell

LEMMA CallsReply ==
  ASSUME CallsInv, Calls!Reply
  PROVE  CallsInv'
<1>1. /\ handler.pc = "answer" /\ UNCHANGED <<remote, late, row, reserved>>
      /\ Calls!Tell(Calls!Public(handler.error))
  BY DEF Calls!Reply
<1> DEFINE e == handler.error
           code == CASE e.class = "input" -> 400
                     [] e.class = "transport" -> 503
                     [] e.class = "http" /\ e.status = 429 -> 429
                     [] e.class = "store" -> e.status
                     [] OTHER -> 502
<1>2. Calls!Public(e) = [marked |-> FALSE, status |-> code]
  BY Zenon DEF Calls!Public
<1>3. e \in CallErrors
  BY DEF CallsInv, CallTypes, CallHandlers
<1>4. code \in Nat /\ (code = 429 => TooMany(e))
  <2> HIDE DEF e
  <2> QED  BY <1>3 DEF CallErrors, TooMany
<1>5. handler.op = "create" /\ code = 429 => NothingRuns
  BY <1>1, <1>4 DEF CallsInv, HandlerTruth
<1>6. row' \in [status : {"none", "starting", "active", "ending", "ended", "failed"}, id : Own \cup {NoId}]
      /\ RowTruth' /\ (reserved = 0 <=> row'.status = "none")
  BY <1>1 DEF CallsInv, CallTypes, RowTruth, Launched, NothingRuns, Reservation
<1> HIDE DEF code
<1> DEFINE told == Calls!Public(e)
<1>7. told \in [status : Nat, marked : BOOLEAN] /\ ~told.marked /\ told.status = code
  BY <1>2, <1>4
<1>8. Calls!Tell(told)
  BY <1>1
<1> HIDE DEF told
<1> QED  BY <1>1, <1>5, <1>6, <1>7, <1>8, CallsTell

(* create_session *)
LEMMA CallsReserve ==
  ASSUME CallsInv, Calls!Reserve
  PROVE  CallsInv'
<1>1. /\ handler.op = "create" /\ handler.pc = "scope" /\ row' = [status |-> "starting", id |-> NoId]
      /\ reserved' = reserved + 1 /\ handler' = [handler EXCEPT !.pc = "start"]
      /\ UNCHANGED <<remote, late, client>>
  BY DEF Calls!Reserve, Calls!At, Calls!Goto
<1>2. reserved = 0 /\ Unstarted /\ ~handler.sent /\ client.pc = "waits"
  BY <1>1 DEF CallsInv, Reservation
<1>3. handler' \in CallHandlers /\ handler'.pc = "start" /\ handler'.op = "create" /\ ~handler'.sent
  BY <1>1, <1>2 DEF CallsInv, CallTypes, CallHandlers
<1>4. CallTypes'
  BY <1>1, <1>2, <1>3 DEF CallsInv, CallTypes
<1>5. OneBrowser' /\ RowTruth' /\ Unstarted'
  BY <1>1, <1>2 DEF CallsInv, OneBrowser, RowTruth, Launched, Unstarted
<1>6. Reservation' /\ HandlerTruth'
  BY <1>1, <1>2, <1>3, <1>5 DEF Reservation, HandlerTruth
<1> QED  BY <1>4, <1>5, <1>6 DEF CallsInv

LEMMA CallsRefuseLocally ==
  ASSUME CallsInv, Calls!RefuseLocally
  PROVE  CallsInv'
<1>1. /\ handler.op = "create" /\ handler.pc = "start" /\ ~handler.sent
      /\ handler' = [handler EXCEPT !.pc = "refused", !.error = Calls!Error("input", 0)]
      /\ UNCHANGED <<remote, late, row, client, reserved>>
  BY DEF Calls!RefuseLocally, Calls!At, Calls!Fail
<1>2. handler' \in CallHandlers /\ handler'.pc = "refused" /\ handler'.op = "create"
  <2>1. Calls!Error("input", 0) \in CallErrors
    BY ErrorSets
  <2> QED  BY <1>1, <2>1 DEF CallsInv, CallTypes, CallHandlers
<1>3. Unstarted'
  BY <1>1 DEF CallsInv, HandlerTruth, Unstarted, Launched
<1>4. HandlerTruth'
  BY <1>2, <1>3 DEF HandlerTruth
<1> QED  BY <1>1, <1>2, <1>4, HandlerMoves

(* The answer to a start is taken for what it is. *)
LEMMA CallsStarted ==
  ASSUME CallsInv, Calls!Started
  PROVE  CallsInv'
<1> DEFINE e == Calls!Classified(handler.answer)
           b == handler.answer.body
<1>1. /\ handler.op = "create" /\ handler.pc = "start" /\ handler.sent
      /\ UNCHANGED <<remote, late, row, client, reserved>>
      /\ handler \in CallHandlers /\ row.status = "starting" /\ StartTruth(handler.answer)
      /\ handler.answer \in CallAnswers
  BY DEF Calls!Started, Calls!At, CallsInv, CallTypes, HandlerTruth, CallHandlers
<1>2. \/ /\ e = Calls!NoError /\ Calls!ValidBrowser(b, TRUE)
         /\ handler' = [handler EXCEPT !.pc = "activate", !.id = b.id]
      \/ /\ e = Calls!NoError /\ b.id \in Calls!Ids
         /\ handler' = [handler EXCEPT !.pc = "stop", !.id = b.id, !.sent = FALSE, !.error = Calls!Error("invalid", 0)]
      \/ handler' = [handler EXCEPT !.pc = "answer", !.error = Calls!Error("invalid", 0)]
      \/ /\ e # Calls!NoError /\ Calls!MayHaveCommitted(e)
         /\ handler' = [handler EXCEPT !.pc = "find", !.error = e]
      \/ /\ e # Calls!NoError /\ ~Calls!MayHaveCommitted(e)
         /\ handler' = [handler EXCEPT !.pc = "refused", !.error = e]
  BY DEF Calls!Started, Calls!Fail
<1>3. /\ e = Calls!NoError /\ b.id \in Calls!Ids => b.id \in Own /\ Launched(b.id)
      /\ e # Calls!NoError /\ ~Calls!MayHaveCommitted(e) => Unstarted
      /\ Calls!ValidBrowser(b, TRUE) => b.id \in Calls!Ids
      /\ e \in CallErrors
  BY <1>1, Conclusions DEF StartTruth, Calls!ValidBrowser
<1>4. Calls!Error("invalid", 0) \in CallErrors /\ ~TooMany(Calls!Error("invalid", 0))
  BY ErrorSets
<1> DEFINE invalid == Calls!Error("invalid", 0)
<1> HIDE DEF e, b, invalid
<1>5. CASE \/ e = Calls!NoError /\ b.id \in Own /\ handler' = [handler EXCEPT !.pc = "activate", !.id = b.id]
           \/ e = Calls!NoError /\ b.id \in Own
              /\ handler' = [handler EXCEPT !.pc = "stop", !.id = b.id, !.sent = FALSE, !.error = invalid]
  <2> DEFINE x == b.id
  <2>1. x \in Own /\ Launched(x) /\ x \in Calls!Ids
    BY <1>3, <1>5, CallNames
  <2>2. \/ handler' = [handler EXCEPT !.pc = "activate", !.id = x]
        \/ handler' = [handler EXCEPT !.pc = "stop", !.id = x, !.sent = FALSE, !.error = invalid]
    BY <1>5
  <2>3. invalid \in CallErrors /\ ~TooMany(invalid)
    BY <1>4 DEF invalid
  <2> HIDE DEF x
  <2>4. /\ handler' \in CallHandlers /\ handler'.op = "create" /\ handler'.id = x
        /\ handler'.pc = "activate" \/ (handler'.pc = "stop" /\ ~handler'.sent /\ ~TooMany(handler'.error))
    BY <1>1, <2>1, <2>2, <2>3 DEF CallHandlers
  <2>5. HandlerTruth'
    BY <1>1, <2>1, <2>4 DEF HandlerTruth, Launched
  <2> QED  BY <1>1, <2>4, <2>5, HandlerMoves
<1>6. CASE handler' = [handler EXCEPT !.pc = "answer", !.error = invalid]
  <2>1. handler' \in CallHandlers /\ handler'.pc = "answer" /\ ~TooMany(handler'.error)
    BY <1>1, <1>4, <1>6 DEF CallHandlers, invalid
  <2>2. HandlerTruth'
    BY <2>1 DEF HandlerTruth
  <2> QED  BY <1>1, <2>1, <2>2, HandlerMoves
<1>7. CASE Calls!MayHaveCommitted(e) /\ handler' = [handler EXCEPT !.pc = "find", !.error = e]
  <2>1. /\ handler' \in CallHandlers /\ handler'.pc = "find" /\ handler'.op = "create" /\ handler'.error = e
        /\ ~TooMany(e)
    BY <1>1, <1>3, <1>7, Committed DEF CallHandlers
  <2>2. HandlerTruth'
    BY <1>1, <2>1 DEF HandlerTruth
  <2> QED  BY <1>1, <2>1, <2>2, HandlerMoves
<1>8. CASE Unstarted /\ handler' = [handler EXCEPT !.pc = "refused", !.error = e]
  <2>1. handler' \in CallHandlers /\ handler'.pc = "refused" /\ handler'.op = "create" /\ Unstarted'
    BY <1>1, <1>3, <1>8 DEF CallHandlers, Unstarted, Launched
  <2>2. HandlerTruth'
    BY <2>1 DEF HandlerTruth
  <2> QED  BY <1>1, <2>1, <2>2, HandlerMoves
<1> QED  BY <1>2, <1>3, <1>5, <1>6, <1>7, <1>8 DEF invalid

LEMMA CallsFind ==
  ASSUME CallsInv, Calls!Find
  PROVE  CallsInv'
<1>1. /\ handler.op = "create" /\ handler.pc = "find" /\ row.status = "starting" /\ ~TooMany(handler.error)
      /\ UNCHANGED <<remote, late, row, client, reserved>> /\ handler \in CallHandlers
  BY DEF Calls!Find, Calls!At, CallsInv, CallTypes, HandlerTruth
<1>2. \/ \E id \in Calls!Running : handler' = [handler EXCEPT !.pc = "adopt", !.id = id]
      \/ handler' = [handler EXCEPT !.pc = "answer", !.error = Calls!Error("invalid", 0)]
      \/ handler' = [handler EXCEPT !.pc = "answer"]
  BY DEF Calls!Find, Calls!Fail, Calls!Goto
<1>3. Calls!Error("invalid", 0) \in CallErrors /\ ~TooMany(Calls!Error("invalid", 0))
  BY ErrorSets
<1>4. \/ /\ handler'.pc = "adopt" /\ handler'.op = "create" /\ handler'.id \in Own /\ Launched(handler'.id)
         /\ handler' \in CallHandlers
      \/ handler'.pc = "answer" /\ ~TooMany(handler'.error) /\ handler' \in CallHandlers
  <2>1. CASE \E id \in Calls!Running : handler' = [handler EXCEPT !.pc = "adopt", !.id = id]
    BY <1>1, <2>1, CallNames DEF CallHandlers, Calls!Running, Launched
  <2>2. CASE handler' = [handler EXCEPT !.pc = "answer", !.error = Calls!Error("invalid", 0)]
    <3> DEFINE e == Calls!Error("invalid", 0)
    <3>1. e \in CallErrors /\ ~TooMany(e) /\ handler' = [handler EXCEPT !.pc = "answer", !.error = e]
      BY <1>3, <2>2
    <3> HIDE DEF e
    <3> QED  BY <1>1, <3>1 DEF CallHandlers
  <2>3. CASE handler' = [handler EXCEPT !.pc = "answer"]
    BY <1>1, <2>3 DEF CallHandlers
  <2> QED  BY <1>2, <2>1, <2>2, <2>3
<1>5. HandlerTruth'
  BY <1>1, <1>4 DEF HandlerTruth, Launched
<1> QED  BY <1>1, <1>4, <1>5, HandlerMoves

LEMMA CallsActivated ==
  ASSUME CallsInv, Calls!Activated
  PROVE  CallsInv'
<1>1. /\ handler.op = "create" /\ handler.pc \in {"activate", "adopt"} /\ row' = [status |-> "active", id |-> handler.id]
      /\ Calls!Tell([status |-> 200, marked |-> FALSE]) /\ UNCHANGED <<remote, late, reserved>>
      /\ handler.id \in Own /\ Launched(handler.id) /\ reserved = 1
  BY DEF Calls!Activated, CallsInv, HandlerTruth, Reservation
<1> DEFINE told == [status |-> 200, marked |-> FALSE]
<1>2. told \in [status : Nat, marked : BOOLEAN] /\ ~told.marked /\ told.status = 200 /\ Calls!Tell(told)
  BY <1>1
<1> HIDE DEF told
<1>3. row' \in [status : {"none", "starting", "active", "ending", "ended", "failed"}, id : Own \cup {NoId}]
      /\ RowTruth' /\ (reserved = 0 <=> row'.status = "none")
  BY <1>1 DEF RowTruth, Launched
<1> QED  BY <1>1, <1>2, <1>3, CallsTell

LEMMA CallsNotActivated ==
  ASSUME CallsInv, Calls!NotActivated
  PROVE  CallsInv'
<1>1. PICK code \in {409, 500} :
        IF handler.pc = "adopt" THEN Calls!Fail("answer", Calls!Error("store", code)) /\ row' = row
        ELSE /\ handler' = [handler EXCEPT !.pc = "stop", !.sent = FALSE, !.error = Calls!Error("store", code)]
             /\ row' \in {row, [status |-> "ending", id |-> handler.id]}
  BY DEF Calls!NotActivated
<1> DEFINE e == Calls!Error("store", code)
<1>2. e \in CallErrors /\ ~TooMany(e)
  BY ErrorSets
<1>3. /\ handler.op = "create" /\ handler.pc \in {"activate", "adopt"}
      /\ UNCHANGED <<remote, late, client, reserved>> /\ handler \in CallHandlers
      /\ handler.id \in Own /\ Launched(handler.id) /\ reserved = 1 /\ row.status = "starting"
      /\ row \in [status : {"none", "starting", "active", "ending", "ended", "failed"}, id : Own \cup {NoId}]
  BY DEF Calls!NotActivated, CallsInv, CallTypes, HandlerTruth, Reservation
<1>4. \/ handler' = [handler EXCEPT !.pc = "answer", !.error = e] /\ row' = row
      \/ /\ handler' = [handler EXCEPT !.pc = "stop", !.sent = FALSE, !.error = e]
         /\ row' \in {row, [status |-> "ending", id |-> handler.id]}
  BY <1>1 DEF Calls!Fail
<1> HIDE DEF e
<1>5. /\ handler' \in CallHandlers /\ handler'.id = handler.id /\ handler'.op = "create"
      /\ handler'.pc = "answer" \/ (handler'.pc = "stop" /\ ~handler'.sent)
      /\ ~TooMany(handler'.error)
  <2>1. CASE handler' = [handler EXCEPT !.pc = "answer", !.error = e]
    BY <1>2, <1>3, <2>1 DEF CallHandlers
  <2>2. CASE handler' = [handler EXCEPT !.pc = "stop", !.sent = FALSE, !.error = e]
    BY <1>2, <1>3, <2>2 DEF CallHandlers
  <2> QED  BY <1>4, <2>1, <2>2
<1>6. /\ row' \in [status : {"starting", "active", "ending", "ended", "failed"}, id : Own \cup {NoId}]
      /\ row' = row \/ (row'.status = "ending" /\ row'.id = handler.id)
  BY <1>3, <1>4
<1>7. RowTruth'
  BY <1>3, <1>6 DEF CallsInv, RowTruth, Launched, NothingRuns
<1>8. HandlerTruth'
  BY <1>3, <1>5 DEF HandlerTruth, Launched
<1> QED  BY <1>3, <1>5, <1>6, <1>7, <1>8, RowMoves

LEMMA CallsGiveUp ==
  ASSUME CallsInv, Calls!GiveUp
  PROVE  CallsInv'
<1>1. /\ handler.op = "create" /\ handler.pc = "refused" /\ row' \in {row, [row EXCEPT !.status = "failed"]}
      /\ handler' = [handler EXCEPT !.pc = "answer"] /\ UNCHANGED <<remote, late, client, reserved>>
      /\ Unstarted /\ handler \in CallHandlers /\ reserved = 1
      /\ row \in [status : {"none", "starting", "active", "ending", "ended", "failed"}, id : Own \cup {NoId}]
      /\ row.status # "none"
  BY DEF Calls!GiveUp, Calls!At, Calls!Goto, CallsInv, CallTypes, HandlerTruth, Reservation
<1>2. handler' \in CallHandlers /\ handler'.pc = "answer"
  BY <1>1 DEF CallHandlers
<1>3. /\ row' \in [status : {"starting", "active", "ending", "ended", "failed"}, id : Own \cup {NoId}]
      /\ row' = row \/ row'.status = "failed"
  BY <1>1
<1>4. NothingRuns'
  BY <1>1 DEF Unstarted, NothingRuns, Launched
<1>5. RowTruth'
  BY <1>1, <1>3, <1>4 DEF CallsInv, RowTruth, Launched
<1>6. HandlerTruth'
  BY <1>2, <1>4 DEF HandlerTruth
<1> QED  BY <1>1, <1>2, <1>3, <1>5, <1>6, RowMoves

(* end_session, and the stop after a failed start *)
LEMMA CallsBeginEnd ==
  ASSUME CallsInv, Calls!BeginEnd
  PROVE  CallsInv'
<1> DEFINE e == Calls!Error("store", 409)
<1>1. e \in CallErrors
  BY ErrorSets
<1>2. /\ handler.op = "end" /\ handler.pc = "scope" /\ UNCHANGED <<remote, late, client, reserved>>
      /\ handler \in CallHandlers /\ reserved = 1 /\ ~handler.sent /\ row.status # "none"
      /\ row \in [status : {"none", "starting", "active", "ending", "ended", "failed"}, id : Own \cup {NoId}]
  BY DEF Calls!BeginEnd, Calls!At, CallsInv, CallTypes, Reservation
<1>3. CASE /\ row.status \in {"active", "ending"} /\ row' = [row EXCEPT !.status = "ending"]
           /\ handler' = [handler EXCEPT !.pc = "stop", !.id = row.id]
  <2>1. row.id \in Own /\ Launched(row.id) /\ row.id \in Calls!Ids
    BY <1>3, CallNames DEF CallsInv, RowTruth
  <2>2. /\ handler' \in CallHandlers /\ handler'.pc = "stop" /\ handler'.id = row.id /\ handler'.op = "end"
        /\ ~handler'.sent
    BY <1>2, <1>3, <2>1 DEF CallHandlers
  <2>3. /\ row' \in [status : {"starting", "active", "ending", "ended", "failed"}, id : Own \cup {NoId}]
        /\ row'.status = "ending" /\ row'.id = row.id
    BY <1>2, <1>3
  <2>4. RowTruth' /\ HandlerTruth'
    BY <1>2, <2>1, <2>2, <2>3 DEF RowTruth, HandlerTruth, Launched
  <2> QED  BY <1>2, <2>2, <2>3, <2>4, RowMoves
<1>4. CASE handler' = [handler EXCEPT !.pc = "answer", !.error = e] /\ row' = row
  <2> HIDE DEF e
  <2>1. handler' \in CallHandlers /\ handler'.pc = "answer" /\ handler'.op = "end"
    BY <1>1, <1>2, <1>4 DEF CallHandlers
  <2>2. RowTruth' /\ HandlerTruth'
    BY <1>2, <1>4, <2>1 DEF CallsInv, RowTruth, HandlerTruth, Launched, NothingRuns
  <2>3. row' \in [status : {"starting", "active", "ending", "ended", "failed"}, id : Own \cup {NoId}]
    BY <1>2, <1>4
  <2> QED  BY <1>2, <2>1, <2>2, <2>3, RowMoves
<1> QED  BY <1>3, <1>4 DEF Calls!BeginEnd, Calls!Fail

LEMMA CallsStopped ==
  ASSUME CallsInv, Calls!Stopped
  PROVE  CallsInv'
<1> DEFINE e == Calls!Classified(handler.answer)
           x == Calls!Answered(e)
           invalid == Calls!Answered(Calls!Error("invalid", 0))
<1>1. /\ handler.pc = "stop" /\ handler.sent /\ UNCHANGED <<remote, late, row, client, reserved>>
      /\ handler \in CallHandlers /\ handler.answer \in CallAnswers /\ handler.error \in CallErrors
      /\ StopTruth(handler.answer, handler.id) /\ handler.id \in Own /\ Launched(handler.id)
      /\ handler.op # "create" => row.id = handler.id /\ row.status = "ending"
      /\ handler.op = "create" => ~TooMany(handler.error)
  BY DEF Calls!Stopped, CallsInv, CallTypes, CallHandlers, HandlerTruth
<1>2. /\ x \in CallErrors /\ invalid \in CallErrors
      /\ handler.op = "create" => ~TooMany(x) /\ ~TooMany(invalid)
  BY <1>1, Conclusions, ErrorSets DEF Calls!Answered
<1>3. \/ /\ handler' = [handler EXCEPT !.pc = "finalize"] /\ e = Calls!NoError
         /\ Calls!Proven(handler.answer.body, handler.id)
      \/ handler' = [handler EXCEPT !.pc = "answer", !.error = invalid]
      \/ handler' = [handler EXCEPT !.pc = "snapshot", !.sent = FALSE, !.error = x]
      \/ handler' = [handler EXCEPT !.pc = "answer", !.error = x]
  BY DEF Calls!Stopped, Calls!Fail, Calls!Goto
<1>4. handler' = [handler EXCEPT !.pc = "finalize"] /\ e = Calls!NoError
        /\ Calls!Proven(handler.answer.body, handler.id) => remote[handler.id] = "stopped"
  BY <1>1 DEF StopTruth
<1> HIDE DEF e, x, invalid
<1>5. /\ handler' \in CallHandlers /\ handler'.id = handler.id /\ handler'.op = handler.op
      /\ \/ handler'.pc = "finalize" /\ handler'.error = handler.error /\ remote[handler.id] = "stopped"
         \/ handler'.pc = "answer" /\ (handler.op = "create" => ~TooMany(handler'.error))
         \/ handler'.pc = "snapshot" /\ ~handler'.sent /\ (handler.op = "create" => ~TooMany(handler'.error))
  BY <1>1, <1>2, <1>3, <1>4 DEF CallHandlers
<1>6. HandlerTruth'
  BY <1>1, <1>5 DEF HandlerTruth, Launched
<1> QED  BY <1>1, <1>5, <1>6, HandlerMoves

LEMMA CallsSnapshot ==
  ASSUME CallsInv, Calls!Snapshot
  PROVE  CallsInv'
<1> DEFINE proven == /\ Calls!Classified(handler.answer) = Calls!NoError
                     /\ Calls!Proven(handler.answer.body, handler.id)
<1>1. /\ handler.pc = "snapshot" /\ handler.sent /\ UNCHANGED <<remote, late, row, client, reserved>>
      /\ handler \in CallHandlers /\ StopTruth(handler.answer, handler.id) /\ handler.id \in Own /\ Launched(handler.id)
      /\ handler.op # "create" => row.id = handler.id /\ row.status = "ending"
      /\ handler.op = "create" => ~TooMany(handler.error)
      /\ handler' = [handler EXCEPT !.pc = IF proven THEN "finalize" ELSE "answer"]
  BY DEF Calls!Snapshot, Calls!Goto, CallsInv, CallTypes, HandlerTruth
<1>2. proven => remote[handler.id] = "stopped"
  BY <1>1 DEF StopTruth
<1> HIDE DEF proven
<1>3. /\ handler' \in CallHandlers /\ handler'.id = handler.id /\ handler'.op = handler.op
      /\ handler'.error = handler.error
      /\ (handler'.pc = "finalize" /\ remote[handler.id] = "stopped") \/ handler'.pc = "answer"
  BY <1>1, <1>2 DEF CallHandlers
<1>4. HandlerTruth'
  BY <1>1, <1>3 DEF HandlerTruth, Launched
<1> QED  BY <1>1, <1>3, <1>4, HandlerMoves

LEMMA CallsFinalize ==
  ASSUME CallsInv, Calls!Finalize
  PROVE  CallsInv'
<1> DEFINE e == Calls!Answered(Calls!Error("store", 500))
           settled == IF handler.op = "create" THEN "failed" ELSE "ended"
<1>1. /\ handler.pc = "finalize" /\ UNCHANGED <<remote, late, reserved>> /\ handler \in CallHandlers
      /\ handler.id \in Own /\ remote[handler.id] = "stopped" /\ reserved = 1 /\ row.status # "none"
      /\ handler.op = "create" => ~TooMany(handler.error)
      /\ row \in [status : {"none", "starting", "active", "ending", "ended", "failed"}, id : Own \cup {NoId}]
      /\ handler.op # "create" => row.id = handler.id
  BY DEF Calls!Finalize, CallsInv, CallTypes, HandlerTruth, Reservation
<1>2. e \in CallErrors /\ (handler.op = "create" => ~TooMany(e))
  BY <1>1, ErrorSets DEF Calls!Answered, CallHandlers
<1>3. \/ /\ row' = [row EXCEPT !.status = settled] /\ handler.op = "create"
         /\ handler' = [handler EXCEPT !.pc = "answer"] /\ client' = client
      \/ /\ row' = [row EXCEPT !.status = settled] /\ handler.op # "create"
         /\ Calls!Tell([status |-> 200, marked |-> FALSE])
      \/ handler' = [handler EXCEPT !.pc = "answer", !.error = e] /\ UNCHANGED <<row, client>>
  BY DEF Calls!Finalize, Calls!Goto, Calls!Fail
<1>4. NothingRuns
  BY <1>1 DEF CallsInv, OneBrowser, NothingRuns, Launched
<1>5. settled \in {"failed", "ended"} /\ (settled = "ended" <=> handler.op # "create")
  OBVIOUS
<1> HIDE DEF e, settled
<1>6. ASSUME row' = [row EXCEPT !.status = settled]
      PROVE  /\ row' \in [status : {"starting", "active", "ending", "ended", "failed"}, id : Own \cup {NoId}]
             /\ RowTruth'
  <2>1. row'.status = settled /\ row'.id = row.id
        /\ row' \in [status : {"starting", "active", "ending", "ended", "failed"}, id : Own \cup {NoId}]
    BY <1>1, <1>5, <1>6
  <2> QED  BY <1>1, <1>4, <1>5, <1>6, <2>1 DEF RowTruth, NothingRuns, Launched
<1>7. CASE /\ row' = [row EXCEPT !.status = settled]
           /\ handler' = [handler EXCEPT !.pc = "answer"] /\ client' = client
  <2>1. handler' \in CallHandlers /\ handler'.pc = "answer"
    BY <1>1, <1>7 DEF CallHandlers
  <2>2. HandlerTruth'
    BY <1>1, <1>4, <2>1 DEF HandlerTruth, NothingRuns
  <2> QED  BY <1>1, <1>6, <1>7, <2>1, <2>2, RowMoves
<1>8. CASE row' = [row EXCEPT !.status = settled] /\ Calls!Tell([status |-> 200, marked |-> FALSE])
  <2> DEFINE told == [status |-> 200, marked |-> FALSE]
  <2>1. told \in [status : Nat, marked : BOOLEAN] /\ ~told.marked /\ told.status = 200 /\ Calls!Tell(told)
    BY <1>8
  <2> HIDE DEF told
  <2>2. /\ row' \in [status : {"none", "starting", "active", "ending", "ended", "failed"}, id : Own \cup {NoId}]
        /\ RowTruth' /\ (reserved = 0 <=> row'.status = "none")
    BY <1>1, <1>6, <1>8
  <2> QED  BY <1>1, <2>1, <2>2, CallsTell
<1>9. CASE handler' = [handler EXCEPT !.pc = "answer", !.error = e] /\ UNCHANGED <<row, client>>
  <2>1. handler' \in CallHandlers /\ handler'.pc = "answer" /\ handler'.op = handler.op /\ handler'.error = e
    BY <1>1, <1>2, <1>9 DEF CallHandlers
  <2>2. HandlerTruth'
    BY <1>2, <2>1 DEF HandlerTruth
  <2> QED  BY <1>1, <1>9, <2>1, <2>2, HandlerMoves
<1> QED  BY <1>3, <1>7, <1>8, <1>9

(* What the provider sends. *)
LEMMA WithAnswers ==
  ASSUME NEW body \in CallBodies, NEW codes \in SUBSET Nat, NEW answer \in Calls!With(codes, body)
  PROVE  answer \in CallAnswers /\ answer.body = body /\ answer.status \in codes
BY DEF Calls!With, Calls!Answer, Calls!Sizes, CallAnswers

LEMMA BodiesOf ==
  ASSUME NEW id \in Calls!Ids, NEW now \in {"none", "active", "stopped", "odd"}
  PROVE  /\ \A body \in Calls!Bodies(id, now) : body \in CallBodies /\ body.id = id /\ body.status = now
         /\ Calls!Browser(id, now, "whole") \in CallBodies /\ Calls!Browser(id, now, "whole").id = id
BY DEF Calls!Bodies, Calls!Browser, CallBodies

LEMMA NobodysBodies ==
  /\ Calls!Garbage \in CallBodies /\ Calls!Garbage.id = NoId
  /\ Calls!Browser(NoId, "active", "whole") \in CallBodies /\ Calls!Browser(NoId, "active", "whole").id = NoId
  /\ Calls!Lost \in CallAnswers /\ Calls!Lost.body = Calls!Garbage /\ Calls!Lost.size = "lost"
BY DEF Calls!Garbage, Calls!Browser, CallBodies, Calls!Lost, CallAnswers

LEMMA SaidOf ==
  ASSUME CallTypes, NEW id \in Own, NEW now \in {"none", "active", "stopped"}, NEW answer \in Calls!Said(id, now)
  PROVE  answer \in CallAnswers /\ (answer.body.id = id => answer.body.status = now)
<1>1. PICK body \in Calls!Bodies(id, now) \cup {Calls!Garbage}
                      \cup UNION {Calls!Bodies(other, remote[other]) : other \in Foreign} :
        answer \in Calls!With({200}, body)
  BY DEF Calls!Said
<1>2. body \in CallBodies /\ (body.id = id => body.status = now)
  <2>1. CASE body \in Calls!Bodies(id, now)
    BY <2>1, BodiesOf, CallNames
  <2>2. CASE body = Calls!Garbage
    BY <2>2, NobodysBodies, CallNames
  <2>3. CASE \E other \in Foreign : body \in Calls!Bodies(other, remote[other])
    <3>1. PICK other \in Foreign : body \in Calls!Bodies(other, remote[other])
      BY <2>3
    <3>2. other \in Calls!Ids /\ other # id /\ remote[other] \in {"none", "active", "stopped"}
      BY CallNames DEF CallTypes
    <3> QED  BY <3>1, <3>2, BodiesOf
  <2> QED  BY <1>1, <2>1, <2>2, <2>3
<1> QED  BY <1>1, <1>2, WithAnswers

(* The provider answers the request that is under way. *)
LEMMA ProviderAnswers ==
  ASSUME CallsInv, handler.pc \in {"start", "stop", "snapshot"}, ~handler.sent, NEW answer \in CallAnswers,
         handler' = [handler EXCEPT !.sent = TRUE, !.answer = answer], UNCHANGED <<row, client, reserved>>,
         remote' \in [Calls!Ids -> {"none", "active", "stopped"}], late' \subseteq Own \cup {"start"}, OneBrowser',
         \A id \in Own : (Launched(id) => Launched(id)') /\ (remote[id] = "stopped" => remote'[id] = "stopped"),
         handler.pc # "start" /\ NothingRuns => NothingRuns',
         handler.pc = "start" => StartTruth(answer)',
         handler.pc # "start" => StopTruth(answer, handler.id)'
  PROVE  CallsInv'
<1>1. handler \in CallHandlers /\ reserved = 1 /\ client.pc = "waits"
  BY DEF CallsInv, CallTypes, Reservation
<1>2. /\ handler' \in CallHandlers /\ handler'.pc = handler.pc /\ handler'.op = handler.op /\ handler'.id = handler.id
      /\ handler'.error = handler.error /\ handler'.sent /\ handler'.answer = answer
  BY <1>1 DEF CallHandlers
<1>3. CallTypes'
  BY <1>2 DEF CallsInv, CallTypes
<1>4. Reservation'
  BY <1>1, <1>2 DEF CallsInv, Reservation
<1>5. RowTruth'
  BY DEF CallsInv, RowTruth, HandlerTruth
<1>6. HandlerTruth'
  BY <1>2 DEF CallsInv, HandlerTruth
<1> QED  BY <1>3, <1>4, <1>5, <1>6 DEF CallsInv

LEMMA CallsServeStart ==
  ASSUME CallsInv, Calls!ServeStart
  PROVE  CallsInv'
<1>1. /\ handler.pc = "start" /\ ~handler.sent /\ UNCHANGED <<row, client, reserved>> /\ Unstarted
      /\ remote \in [Calls!Ids -> {"none", "active", "stopped"}]
  BY DEF Calls!ServeStart, Calls!Unasked, CallsInv, CallTypes, HandlerTruth
<1>2. ASSUME NEW id \in Own, remote' = [remote EXCEPT ![id] = "active"], late' = late,
             Calls!Receive((UNION {Calls!With({200}, body) :
                                     body \in Calls!Bodies(id, "active") \cup {Calls!Garbage, Calls!Browser(id, "odd", "whole"),
                                                                               Calls!Browser(NoId, "active", "whole")}})
                             \cup Calls!With({500}, Calls!Garbage))
      PROVE  CallsInv'
  <2> DEFINE bodies == Calls!Bodies(id, "active") \cup {Calls!Garbage, Calls!Browser(id, "odd", "whole"),
                                                       Calls!Browser(NoId, "active", "whole")}
             answers == (UNION {Calls!With({200}, body) : body \in bodies}) \cup Calls!With({500}, Calls!Garbage)
  <2>1. PICK answer \in answers \cup {Calls!Lost} : handler' = [handler EXCEPT !.sent = TRUE, !.answer = answer]
    BY <1>2, Zenon DEF Calls!Receive
  <2>2. id \in Calls!Ids
    BY CallNames
  <2>3. answer \in CallAnswers /\ answer.body.id \in {id, NoId}
        /\ (answer.size = "lost" \/ answer.status \in {200, 500})
    <3>1. CASE answer = Calls!Lost
      BY <3>1, NobodysBodies
    <3>2. CASE answer \in Calls!With({500}, Calls!Garbage)
      BY <3>2, NobodysBodies, WithAnswers
    <3>3. CASE \E body \in bodies : answer \in Calls!With({200}, body)
      <4>1. PICK body \in bodies : answer \in Calls!With({200}, body)
        BY <3>3
      <4>2. body \in CallBodies /\ body.id \in {id, NoId}
        BY <2>2, <4>1, BodiesOf, NobodysBodies
      <4> QED  BY <4>1, <4>2, WithAnswers
    <3>4. answer \in answers => answer \in Calls!With({500}, Calls!Garbage)
                                \/ \E body \in bodies : answer \in Calls!With({200}, body)
      <4> HIDE DEF bodies
      <4> QED  OBVIOUS
    <3> HIDE DEF answers, bodies
    <3> QED  BY <2>1, <3>1, <3>2, <3>3, <3>4
  <2> HIDE DEF answers, bodies
  <2>4. /\ remote' \in [Calls!Ids -> {"none", "active", "stopped"}] /\ remote'[id] = "active"
        /\ \A other \in Own : other # id => remote'[other] = remote[other]
    BY <1>1, <1>2, <2>2, CallNames
  <2>5. OneBrowser' /\ Launched(id)'
    BY <1>1, <1>2, <2>4 DEF OneBrowser, Launched, Unstarted
  <2>6. StartTruth(answer)'
    <3>1. Calls!Classified(answer) # Calls!NoError => Calls!MayHaveCommitted(Calls!Classified(answer))
      BY <2>3, Conclusions DEF Calls!Success
    <3> QED  BY <2>3, <2>5, <3>1, CallNames DEF StartTruth
  <2>7. \A other \in Own : (Launched(other) => Launched(other)')
                           /\ (remote[other] = "stopped" => remote'[other] = "stopped")
    BY <1>1 DEF Unstarted, Launched
  <2>8. late' \subseteq Own \cup {"start"}
    BY <1>1, <1>2 DEF Unstarted
  <2> QED  BY <1>1, <2>1, <2>3, <2>4, <2>5, <2>6, <2>7, <2>8, ProviderAnswers
<1>3. ASSUME Calls!Receive(Calls!With(Calls!Refusals \cup {500}, Calls!Garbage)), UNCHANGED <<remote, late>>
      PROVE  CallsInv'
  <2>1. PICK answer \in Calls!With(Calls!Refusals \cup {500}, Calls!Garbage) \cup {Calls!Lost} :
          handler' = [handler EXCEPT !.sent = TRUE, !.answer = answer]
    BY <1>3 DEF Calls!Receive
  <2>2. answer \in CallAnswers /\ answer.body = Calls!Garbage
    BY <2>1, NobodysBodies, WithAnswers DEF Calls!Refusals
  <2>3. StartTruth(answer)'
    BY <1>1, <1>3, <2>2, Conclusions DEF StartTruth, Unstarted, Launched
  <2>4. OneBrowser' /\ remote' \in [Calls!Ids -> {"none", "active", "stopped"}] /\ late' \subseteq Own \cup {"start"}
        /\ \A id \in Own : (Launched(id) => Launched(id)') /\ (remote[id] = "stopped" => remote'[id] = "stopped")
    BY <1>1, <1>3 DEF CallsInv, CallTypes, OneBrowser, Launched
  <2> QED  BY <1>1, <2>1, <2>2, <2>3, <2>4, ProviderAnswers
<1>4. ASSUME Calls!Receive({}), late' = late \cup {"start"}, remote' = remote
      PROVE  CallsInv'
  <2>1. handler' = [handler EXCEPT !.sent = TRUE, !.answer = Calls!Lost]
    BY <1>4 DEF Calls!Receive
  <2>2. StartTruth(Calls!Lost)'
    BY NobodysBodies, Conclusions DEF StartTruth
  <2>3. OneBrowser' /\ remote' \in [Calls!Ids -> {"none", "active", "stopped"}] /\ late' \subseteq Own \cup {"start"}
        /\ \A id \in Own : (Launched(id) => Launched(id)') /\ (remote[id] = "stopped" => remote'[id] = "stopped")
    BY <1>1, <1>4, CallNames DEF OneBrowser, Launched, Unstarted
  <2> QED  BY <1>1, <2>1, <2>2, <2>3, NobodysBodies, ProviderAnswers
<1> QED  BY <1>2, <1>3, <1>4 DEF Calls!ServeStart

(* A stop is carried out at once, refused, or delayed. *)
LEMMA CallsServeStop ==
  ASSUME CallsInv, Calls!ServeStop
  PROVE  CallsInv'
<1> DEFINE id == handler.id
<1>1. /\ handler.pc = "stop" /\ ~handler.sent /\ UNCHANGED <<row, client, reserved>>
      /\ remote \in [Calls!Ids -> {"none", "active", "stopped"}] /\ late \subseteq Own \cup {"start"}
      /\ id \in Own /\ Launched(id) /\ id \in Calls!Ids /\ CallTypes /\ OneBrowser
  BY CallNames DEF Calls!ServeStop, Calls!Unasked, CallsInv, CallTypes, HandlerTruth
<1>2. ASSUME remote' = [remote EXCEPT ![id] = "stopped"], late' = late,
             Calls!Receive(Calls!Said(id, "stopped") \cup
               Calls!With({500} \cup (IF remote[id] = "stopped" THEN {404, 409} ELSE {}), Calls!Garbage))
      PROVE  CallsInv'
  <2> DEFINE codes == {500} \cup (IF remote[id] = "stopped" THEN {404, 409} ELSE {})
  <2>1. PICK answer \in Calls!Said(id, "stopped") \cup Calls!With(codes, Calls!Garbage) \cup {Calls!Lost} :
          handler' = [handler EXCEPT !.sent = TRUE, !.answer = answer]
    BY <1>2, Zenon DEF Calls!Receive
  <2>2. answer \in CallAnswers
    <3>1. codes \in SUBSET Nat
      OBVIOUS
    <3> HIDE DEF codes
    <3> QED  BY <1>1, <2>1, <3>1, SaidOf, NobodysBodies, WithAnswers
  <2>3. /\ remote' \in [Calls!Ids -> {"none", "active", "stopped"}] /\ remote'[id] = "stopped"
        /\ \A other \in Own : other # id => remote'[other] = remote[other]
    BY <1>1, <1>2, CallNames
  <2>4. /\ OneBrowser' /\ (NothingRuns => NothingRuns')
        /\ \A other \in Own : (Launched(other) => Launched(other)')
                              /\ (remote[other] = "stopped" => remote'[other] = "stopped")
    BY <1>1, <1>2, <2>3 DEF OneBrowser, Launched, NothingRuns
  <2>5. StopTruth(answer, handler.id)'
    BY <1>1, <2>1, <2>3 DEF StopTruth, CallHandlers, CallTypes
  <2> QED  BY <1>1, <1>2, <2>1, <2>2, <2>3, <2>4, <2>5, ProviderAnswers
<1>3. ASSUME Calls!Receive(Calls!With({401, 429, 500}, Calls!Garbage)), UNCHANGED <<remote, late>>
      PROVE  CallsInv'
  <2>1. PICK answer \in Calls!With({401, 429, 500}, Calls!Garbage) \cup {Calls!Lost} :
          handler' = [handler EXCEPT !.sent = TRUE, !.answer = answer]
    BY <1>3 DEF Calls!Receive
  <2>2. answer \in CallAnswers /\ answer.body.id = NoId
    BY <2>1, NobodysBodies, WithAnswers
  <2>3. StopTruth(answer, handler.id)'
    BY <1>1, <2>1, <2>2, CallNames DEF StopTruth, Calls!Proven, CallHandlers, CallTypes
  <2>4. OneBrowser' /\ (NothingRuns => NothingRuns')
        /\ \A other \in Own : (Launched(other) => Launched(other)')
                              /\ (remote[other] = "stopped" => remote'[other] = "stopped")
    BY <1>1, <1>3 DEF OneBrowser, Launched, NothingRuns
  <2> QED  BY <1>1, <1>3, <2>1, <2>2, <2>3, <2>4, ProviderAnswers
<1>4. ASSUME Calls!Receive(Calls!Said(id, remote[id])), late' = late \cup {id}, remote' = remote
      PROVE  CallsInv'
  <2>1. PICK answer \in Calls!Said(id, remote[id]) \cup {Calls!Lost} :
          handler' = [handler EXCEPT !.sent = TRUE, !.answer = answer]
    BY <1>4 DEF Calls!Receive
  <2>2. answer \in CallAnswers /\ (answer.body.id = id => answer.body.status = remote[id])
    BY <1>1, <2>1, SaidOf, NobodysBodies, CallNames
  <2>3. StopTruth(answer, handler.id)'
    BY <1>1, <1>4, <2>1, <2>2 DEF StopTruth, Calls!Proven, CallHandlers, CallTypes
  <2>4. /\ OneBrowser' /\ (NothingRuns => NothingRuns') /\ late' \subseteq Own \cup {"start"}
        /\ \A other \in Own : (Launched(other) => Launched(other)')
                              /\ (remote[other] = "stopped" => remote'[other] = "stopped")
    BY <1>1, <1>4, CallNames DEF OneBrowser, Launched, NothingRuns
  <2> QED  BY <1>1, <1>4, <2>1, <2>2, <2>3, <2>4, ProviderAnswers
<1> QED  BY <1>2, <1>3, <1>4 DEF Calls!ServeStop

LEMMA CallsServeGet ==
  ASSUME CallsInv, Calls!ServeGet
  PROVE  CallsInv'
<1> DEFINE id == handler.id
<1>1. /\ handler.pc = "snapshot" /\ ~handler.sent /\ UNCHANGED <<remote, late, row, client, reserved>>
      /\ remote \in [Calls!Ids -> {"none", "active", "stopped"}] /\ late \subseteq Own \cup {"start"}
      /\ id \in Own /\ id \in Calls!Ids /\ CallTypes /\ OneBrowser
      /\ Calls!Receive(Calls!Said(id, remote[id]) \cup Calls!With({404, 429, 500}, Calls!Garbage))
  BY CallNames DEF Calls!ServeGet, Calls!Unasked, CallsInv, CallTypes, HandlerTruth
<1>2. PICK answer \in Calls!Said(id, remote[id]) \cup Calls!With({404, 429, 500}, Calls!Garbage) \cup {Calls!Lost} :
        handler' = [handler EXCEPT !.sent = TRUE, !.answer = answer]
  BY <1>1 DEF Calls!Receive
<1>3. answer \in CallAnswers /\ (answer.body.id = id => answer.body.status = remote[id])
  <2>1. CASE answer \in Calls!Said(id, remote[id])
    BY <1>1, <2>1, SaidOf
  <2>2. CASE answer \in Calls!With({404, 429, 500}, Calls!Garbage) \cup {Calls!Lost}
    BY <1>1, <2>2, NobodysBodies, WithAnswers, CallNames
  <2> QED  BY <1>2, <2>1, <2>2
<1>4. StopTruth(answer, handler.id)'
  BY <1>1, <1>2, <1>3 DEF StopTruth, Calls!Proven, CallHandlers, CallTypes
<1>5. OneBrowser' /\ (NothingRuns => NothingRuns')
      /\ \A other \in Own : (Launched(other) => Launched(other)')
                            /\ (remote[other] = "stopped" => remote'[other] = "stopped")
  BY <1>1 DEF OneBrowser, Launched, NothingRuns
<1> QED  BY <1>1, <1>2, <1>3, <1>4, <1>5, ProviderAnswers

(* A delayed request is carried out; another session's browser stops. *)
LEMMA CallsBackground ==
  ASSUME CallsInv, Calls!CarryOut \/ \E id \in Foreign : Calls!OthersStop(id)
  PROVE  CallsInv'
<1>1. /\ UNCHANGED <<row, handler, client, reserved>>
      /\ remote \in [Calls!Ids -> {"none", "active", "stopped"}] /\ late \subseteq Own \cup {"start"}
      /\ CallTypes /\ OneBrowser
  BY DEF Calls!CarryOut, Calls!OthersStop, CallsInv, CallTypes
<1>2. PICK id \in Calls!Ids :
        \/ /\ id \in Own /\ "start" \in late /\ remote[id] = "none" /\ remote' = [remote EXCEPT ![id] = "active"]
           /\ late' = late \ {"start"}
        \/ id \in Own /\ id \in late /\ remote' = [remote EXCEPT ![id] = "stopped"] /\ late' = late \ {id}
        \/ id \in Foreign /\ remote' = [remote EXCEPT ![id] = "stopped"] /\ late' = late
  BY CallNames DEF Calls!CarryOut, Calls!OthersStop
<1>3. /\ remote' \in [Calls!Ids -> {"none", "active", "stopped"}] /\ late' \subseteq Own \cup {"start"}
      /\ \A other \in Own : other # id => remote'[other] = remote[other]
      /\ id \in Own => remote'[id] \in {"active", "stopped"}
      /\ id \in Own /\ Launched(id) => remote'[id] = "stopped"
  BY <1>1, <1>2, CallNames DEF OneBrowser, Launched
<1>4. \A other \in Own : (Launched(other) => Launched(other)') /\ (remote[other] = "stopped" => remote'[other] = "stopped")
  BY <1>3 DEF Launched
<1>5. OneBrowser'
  BY <1>1, <1>2, <1>3, CallNames DEF OneBrowser, Launched
<1>6. (NothingRuns => NothingRuns') /\ (Unstarted => Unstarted')
  BY <1>1, <1>2, <1>3, CallNames DEF NothingRuns, Unstarted, OneBrowser, Launched
<1>7. CallTypes'
  BY <1>1, <1>3 DEF CallTypes
<1>8. Reservation' /\ RowTruth'
  BY <1>1, <1>4, <1>6 DEF CallsInv, CallTypes, Reservation, RowTruth
<1>9. HandlerTruth'
  BY <1>1, <1>4, <1>6 DEF CallsInv, HandlerTruth, StartTruth, StopTruth
<1> QED  BY <1>5, <1>7, <1>8, <1>9 DEF CallsInv

LEMMA CallsStep ==
  ASSUME CallsInv, [Calls!Next]_callsVars
  PROVE  CallsInv'
<1>1. CASE UNCHANGED callsVars
  <2>1. UNCHANGED <<remote, late, row, handler, client, reserved>>
    BY <1>1 DEF callsVars
  <2>2. CallTypes' /\ OneBrowser' /\ RowTruth'
    BY <2>1 DEF CallsInv, CallTypes, OneBrowser, RowTruth, Launched, NothingRuns
  <2>3. Reservation'
    BY <2>1 DEF CallsInv, Reservation, Unstarted, Launched, NothingRuns
  <2>4. HandlerTruth'
    BY <2>1 DEF CallsInv, HandlerTruth, Unstarted, Launched, NothingRuns, StartTruth, StopTruth
  <2> QED  BY <2>2, <2>3, <2>4 DEF CallsInv
<1>2. CASE Calls!Next
  BY <1>2, CallsSend, CallsRefused, CallsReserve, CallsRefuseLocally, CallsStarted, CallsFind, CallsActivated,
     CallsNotActivated, CallsGiveUp, CallsReply, CallsBeginEnd, CallsStopped, CallsSnapshot, CallsFinalize,
     CallsServeStart, CallsServeStop, CallsServeGet, CallsBackground DEF Calls!Next
<1> QED  BY <1>1, <1>2

(* However answers are lost, cut, delayed or mixed up, whatever the client *)
(* repeats, and whichever write fails: a failed session has no browser and *)
(* gets none later, an ended one's is stopped, a creation told that it came*)
(* too often left nothing behind, and only one session is reserved.        *)
THEOREM NothingIsLeftRunning == MCSpec => []NothingLeftRunning
<1>1. MCInit => CallsInv
  BY CallsStart DEF MCInit
<1>2. CallsInv /\ [MCNext]_<<part, vars, callsVars>> => CallsInv'
  BY CallsStep DEF MCNext, SlotPart, StalledPart, CallsPart, Rest
<1>3. CallsInv => NothingLeftRunning
  BY DEF CallsInv, CallTypes, Reservation, RowTruth, NothingRuns, NothingLeftRunning, Calls!FailedLeavesNothing,
         Calls!EndedIsStopped, Calls!TooManyLeavesNothing, Calls!ReservedOnce, Calls!Running
<1> QED  BY <1>1, <1>2, <1>3, PTL DEF MCSpec
=============================================================================
