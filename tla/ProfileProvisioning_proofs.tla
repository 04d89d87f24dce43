-------------------- MODULE ProfileProvisioning_proofs --------------------
(***************************************************************************)
(* Proofs about profile provisioning, for any number of profiles and of    *)
(* processes.                                                              *)
(***************************************************************************)
EXTENDS ProfileProvisioning, SequenceTheorems, TLAPS

\* The invariant holds before any profile is created.
LEMMA ProfileInit == Init => ProfileInv
BY DEF Init, ProfileInv, TypeOK, RowFirst, SeenBeforeActivation, ActiveHasRemote, BusyIsActive

\* Every action of the handler, the owner, the provider and the loops keeps it.
LEMMA ProfileStep == ProfileInv /\ [Next]_vars => ProfileInv'
<1> SUFFICES ASSUME ProfileInv, [Next]_vars PROVE ProfileInv'
  OBVIOUS
<1> USE DEF ProfileInv, TypeOK, RowFirst, SeenBeforeActivation, ActiveHasRemote, BusyIsActive, loopVars
<1>1. ASSUME NEW p \in Profiles, Reserve(p) PROVE ProfileInv'
  BY <1>1, AppendProperties DEF Reserve, Goto
<1>2. ASSUME NEW p \in Profiles, ProviderCreates(p) \/ Refused(p) \/ Answered(p) PROVE ProfileInv'
  BY <1>2 DEF ProviderCreates, Refused, Answered, Goto
<1>3. ASSUME NEW p \in Profiles, Ambiguous(p) \/ Find(p) \/ Abandon(p) PROVE ProfileInv'
  BY <1>3 DEF Ambiguous, Find, Abandon, Goto
<1>4. ASSUME NEW p \in Profiles, Activate(p) \/ Reject(p) PROVE ProfileInv'
  BY <1>4 DEF Activate, Reject, ActivateRow, FailRow, Goto
<1>5. ASSUME NEW p \in Profiles, OpenSession(p) \/ CloseSession(p) \/ EndProfile(p)
      PROVE ProfileInv'
  <2>1. CASE OpenSession(p)
    BY <2>1 DEF OpenSession
  <2>2. CASE CloseSession(p)
    BY <2>2 DEF CloseSession
  <2>3. CASE EndProfile(p)
    BY <2>3 DEF EndProfile
  <2> QED
    BY <1>5, <2>1, <2>2, <2>3
<1>6. ASSUME NEW q \in Procs, List(q) PROVE ProfileInv'
  <2>1. Pending(Listed) \subseteq Profiles
    BY DEF Pending, Listed
  <2> QED
    BY <1>6, <2>1 DEF List
<1>7. ASSUME NEW q \in Procs, NEW p \in Profiles, LookUp(q, p) \/ Skip(q, p) PROVE ProfileInv'
  BY <1>7 DEF LookUp, Skip
<1>8. ASSUME NEW q \in Procs, NEW p \in Profiles, Adopt(q, p) PROVE ProfileInv'
  BY <1>8 DEF Adopt, ActivateRow
<1>9. ASSUME UNCHANGED vars PROVE ProfileInv'
  BY <1>9 DEF vars
<1> QED
  BY <1>1, <1>2, <1>3, <1>4, <1>5, <1>6, <1>7, <1>8, <1>9 DEF Next, Create

\* The inductive invariant of profile provisioning holds.
THEOREM ProfileInvariant == Spec => []ProfileInv
BY ProfileInit, ProfileStep, PTL DEF Spec

\* A row is active only while the provider has its profile.
THEOREM ActiveRowHasRemote == Spec => []ActiveHasRemote
<1>1. ProfileInv => ActiveHasRemote
  BY DEF ProfileInv
<1> QED
  BY <1>1, ProfileInvariant, PTL

\* A profile in use is never ended.
THEOREM UsedProfileStaysActive == Spec => []BusyIsActive
<1>1. ProfileInv => BusyIsActive
  BY DEF ProfileInv
<1> QED
  BY <1>1, ProfileInvariant, PTL

\* A step that changes a decided row ends it.
LEMMA DecidedStep ==
  ASSUME TypeOK, [Next]_vars
  PROVE  \A p \in Profiles : row[p] \notin {"none", "provisioning"} => row'[p] \in {row[p], "ended"}
<1> USE DEF TypeOK, loopVars
<1>1. ASSUME NEW p \in Profiles, Create(p) \/ ProviderCreates(p) \/ Abandon(p)
      PROVE \A o \in Profiles : row[o] \notin {"none", "provisioning"} => row'[o] = row[o]
  BY <1>1 DEF Create, ProviderCreates, Abandon, Reserve, Refused, Answered, Ambiguous, Find,
              Activate, Reject, ActivateRow, FailRow
<1>2. ASSUME NEW p \in Profiles, OpenSession(p) \/ CloseSession(p) \/ EndProfile(p)
      PROVE \A o \in Profiles : row'[o] \in {row[o], "ended"}
  BY <1>2 DEF OpenSession, CloseSession, EndProfile
<1>3. ASSUME NEW q \in Procs, NEW p \in Profiles, LookUp(q, p) \/ Skip(q, p) \/ Adopt(q, p)
      PROVE \A o \in Profiles : row[o] \notin {"none", "provisioning"} => row'[o] = row[o]
  BY <1>3 DEF LookUp, Skip, Adopt, ActivateRow
<1>4. ASSUME NEW q \in Procs, List(q) PROVE row' = row
  BY <1>4 DEF List
<1>5. ASSUME UNCHANGED vars PROVE row' = row
  BY <1>5 DEF vars
<1> QED
  BY <1>1, <1>2, <1>3, <1>4, <1>5 DEF Next

\* The fate of a reservation is decided once.
THEOREM ReservationsDecidedOnce == Spec => DecidedOnce
<1>1. ProfileInv /\ [Next]_vars =>
        [\A p \in Profiles : row[p] \notin {"none", "provisioning"} => row'[p] \in {row[p], "ended"}]_vars
  BY DecidedStep DEF ProfileInv
<1> QED
  BY <1>1, ProfileInvariant, PTL DEF Spec, DecidedOnce
=============================================================================
