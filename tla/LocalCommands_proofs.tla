------------------------- MODULE LocalCommands_proofs -------------------------
(* Commands of one session on a caller's machine, for any numbers of commands, *)
(* ends and sign-ins, and any lifetimes; then setups of the controller and     *)
(* transfers of files, the arguments of a command line and the output of a     *)
(* command, as parts of MCLocal.                                                *)
EXTENDS MCLocal, SequenceTheorems, WellFoundedInduction, TLAPS

\* A process has the directory of a sign-in, and does what it was started for.
Opened ==
  \A p \in Procs :
    /\ ~At(p, "idle") => Dir(p) \in SignIns
    /\ p \in Ends => proc[p].pc \in {"idle", "end", "forget", "done", "refused", "dead"}

\* Whoever checks or runs a command holds the lock of its directory.
HoldsRunLock ==
  \A p \in Procs : proc[p].pc \in {"check", "running"} => runLock[Dir(p)] = p

\* A controller works for a command that waits for it, or was killed.
Waited == \A p \in controllers : At(p, "running") \/ At(p, "dead")

\* What is under way or in a file is the backend's answer before the end, and
\* was not on its way for longer than a request may take.
Answered(answered, until) ==
  /\ answered <= until /\ until <= answered + Timeout
  /\ ended # None => answered <= ended
Underway(p) == At(p, "store") => proc[p].answered # None /\ Answered(proc[p].answered, clock)
Filed(s) ==
  stored[s] # None => stored[s].fetched <= clock /\ Answered(stored[s].answered, stored[s].fetched)
AnswersBeforeEnd == (\A p \in Commands : Underway(p)) /\ (\A s \in SignIns : Filed(s))

\* Nothing has happened later than now.
NothingLater ==
  /\ ended # None => ended <= clock
  /\ \A p \in Procs : proc[p].picked # None => proc[p].picked <= clock

LocalInv ==
  TypeOK /\ Opened /\ HoldsRunLock /\ Waited /\ AnswersBeforeEnd /\ NothingLater /\ StaleForBoundedTime

-----------------------------------------------------------------------------

LEMMA StageNames ==
  /\ "cache" \in Stages /\ "look" \in Stages /\ "store" \in Stages /\ "queue" \in Stages
  /\ "check" \in Stages /\ "running" \in Stages /\ "end" \in Stages /\ "forget" \in Stages
  /\ "done" \in Stages /\ "refused" \in Stages /\ "dead" \in Stages /\ "idle" \in Stages
BY DEF Stages

\* A process that moves on is well typed.
LEMMA Moved ==
  ASSUME TypeOK, NEW p \in Procs, NEW stage \in Stages
  PROVE  [proc EXCEPT ![p].pc = stage] \in [Procs -> Processes]
<1>1. proc[p] \in Processes /\ proc \in [Procs -> Processes]
  BY DEF TypeOK
<1>2. [proc[p] EXCEPT !.pc = stage] \in Processes
  BY <1>1 DEF Processes
<1> QED
  BY <1>1, <1>2

\* So is one that takes a connection.
LEMMA Supplied ==
  ASSUME TypeOK, NEW p \in Procs, NEW answered \in 0..MaxClock
  PROVE  [proc EXCEPT ![p].pc = "queue", ![p].answered = answered, ![p].picked = clock] \in [Procs -> Processes]
<1>1. proc[p] \in Processes /\ proc \in [Procs -> Processes] /\ clock \in 0..MaxClock
  BY DEF TypeOK
<1>2. [proc[p] EXCEPT !.pc = "queue", !.answered = answered, !.picked = clock] \in Processes
  BY <1>1, StageNames DEF Processes
<1> QED
  BY <1>1, <1>2

\* Nor does one that opens its directory or gets an answer stop being so.
LEMMA Begun ==
  ASSUME TypeOK, NEW p \in Procs, NEW stage \in Stages
  PROVE  /\ \A s \in SignIns : [proc EXCEPT ![p].pc = stage, ![p].signIn = s] \in [Procs -> Processes]
         /\ [proc EXCEPT ![p].pc = stage, ![p].answered = clock] \in [Procs -> Processes]
         /\ [proc EXCEPT ![p].pc = stage, ![p].picked = clock] \in [Procs -> Processes]
<1>1. proc[p] \in Processes /\ proc \in [Procs -> Processes] /\ clock \in 0..MaxClock
  BY DEF TypeOK
<1>2. \A s \in SignIns : [proc[p] EXCEPT !.pc = stage, !.signIn = s] \in Processes
  BY <1>1 DEF Processes
<1>3. [proc[p] EXCEPT !.pc = stage, !.answered = clock] \in Processes
  BY <1>1 DEF Processes
<1>4. [proc[p] EXCEPT !.pc = stage, !.picked = clock] \in Processes
  BY <1>1 DEF Processes
<1>5. \A r \in Processes : [proc EXCEPT ![p] = r] \in [Procs -> Processes]
  BY <1>1
<1> QED
  BY <1>2, <1>3, <1>4, <1>5

\* A process that only moves on keeps what it has picked.
LEMMA GotoKeeps ==
  ASSUME TypeOK, NEW p \in Procs, NEW stage, Goto(p, stage), NEW q \in Procs
  PROVE  proc'[q].picked = proc[q].picked
BY DEF TypeOK, Processes, Goto

LEMMA TypeStep == TypeOK /\ Opened /\ AnswersBeforeEnd /\ [Next]_vars => TypeOK'
<1> SUFFICES ASSUME TypeOK, Opened, AnswersBeforeEnd, [Next]_vars PROVE TypeOK'
  OBVIOUS
<1> USE LocalAssumption, StageNames
<1>1. CASE Tick
  BY <1>1 DEF Tick, TypeOK, files, Procs
<1>2. CASE SignInAgain
  BY <1>2 DEF SignInAgain, TypeOK, files
<1>3. ASSUME NEW p \in Procs, Open(p) PROVE TypeOK'
  <2> DEFINE stage == IF p \in Ends THEN "end" ELSE "cache"
  <2>1. stage \in Stages
    OBVIOUS
  <2>2. proc' = [proc EXCEPT ![p].pc = stage, ![p].signIn = signedIn]
    BY <1>3 DEF Open
  <2> HIDE DEF stage
  <2>3. proc' \in [Procs -> Processes]
    BY <2>1, <2>2, Begun DEF TypeOK
  <2> QED
    BY <1>3, <2>3 DEF Open, TypeOK, files
<1>4. ASSUME NEW p \in Procs, LockCache(p) PROVE TypeOK'
  <2>1. proc' \in [Procs -> Processes]
    BY <1>4, Moved DEF LockCache, Goto
  <2>2. cacheLock' \in [SignIns -> Procs \cup {None}]
    BY <1>4 DEF LockCache, TypeOK
  <2> QED
    BY <1>4, <2>1, <2>2 DEF LockCache, TypeOK
<1>5. ASSUME NEW p \in Procs, LockRun(p) PROVE TypeOK'
  <2>1. proc' \in [Procs -> Processes]
    BY <1>5, Moved DEF LockRun, Goto
  <2>2. runLock' \in [SignIns -> Procs \cup {None}]
    BY <1>5 DEF LockRun, TypeOK
  <2> QED
    BY <1>5, <2>1, <2>2 DEF LockRun, TypeOK
<1>6. ASSUME NEW p \in Procs, Hit(p) PROVE TypeOK'
  <2>1. stored[Dir(p)] \in Entries
    BY <1>6 DEF Hit, Usable, At, Opened, TypeOK
  <2>2. proc' \in [Procs -> Processes]
    <3> DEFINE answered == stored[Dir(p)].answered
    <3>1. answered \in 0..MaxClock
      BY <2>1 DEF Entries
    <3>2. proc' = [proc EXCEPT ![p].pc = "queue", ![p].answered = answered, ![p].picked = clock]
      BY <1>6 DEF Hit
    <3> QED
      BY <3>1, <3>2, Supplied
  <2>3. cacheLock' \in [SignIns -> Procs \cup {None}]
    BY <1>6 DEF Hit, Unlock, TypeOK
  <2> QED
    BY <1>6, <2>2, <2>3 DEF Hit, TypeOK
<1>7. ASSUME NEW p \in Procs, Answer(p) PROVE TypeOK'
  <2>1. proc' \in [Procs -> Processes]
    BY <1>7, Begun DEF Answer
  <2> QED
    BY <1>7, <2>1 DEF Answer, TypeOK, files
<1>8. ASSUME NEW p \in Procs, Refused(p) PROVE TypeOK'
  <2>1. proc' \in [Procs -> Processes]
    BY <1>8, Moved DEF Refused, Goto
  <2> QED
    BY <1>8, <2>1 DEF Refused, Unlock, TypeOK
<1>9. ASSUME NEW p \in Procs, Store(p) PROVE TypeOK'
  <2>1. p \in Commands /\ Dir(p) \in SignIns
    BY <1>9 DEF Store, At, Opened, Procs
  <2>2. proc[p].answered \in 0..MaxClock
    BY <1>9, <2>1 DEF Store, AnswersBeforeEnd, Underway, TypeOK, Processes
  <2>3. proc' \in [Procs -> Processes]
    BY <1>9, Begun DEF Store
  <2>4. cacheLock' \in [SignIns -> Procs \cup {None}]
    BY <1>9 DEF Store, Unlock, TypeOK
  <2>5. stored' \in [SignIns -> Entries \cup {None}]
    BY <1>9, <2>2 DEF Store, TypeOK, Entries
  <2> QED
    BY <1>9, <2>3, <2>4, <2>5 DEF Store, TypeOK
<1>10. ASSUME NEW p \in Procs, Start(p) PROVE TypeOK'
  <2>1. p \in Commands
    BY <1>10 DEF Start, At, Opened, Procs
  <2>2. proc' \in [Procs -> Processes]
    <3>1. Goto(p, "running") \/ Goto(p, "refused")
      BY <1>10 DEF Start
    <3>2. CASE Goto(p, "running")
      BY <3>2, Moved DEF Goto
    <3>3. CASE Goto(p, "refused")
      BY <3>3, Moved DEF Goto
    <3> QED
      BY <3>1, <3>2, <3>3
  <2>3. runLock' \in [SignIns -> Procs \cup {None}]
    BY <1>10 DEF Start, Unlock, TypeOK
  <2> QED
    BY <1>10, <2>1, <2>2, <2>3 DEF Start, TypeOK
<1>11. ASSUME NEW p \in Commands, ControllerExits(p) PROVE TypeOK'
  BY <1>11 DEF ControllerExits, TypeOK, files
<1>12. ASSUME NEW p \in Procs, Kill(p) PROVE TypeOK'
  BY <1>12 DEF Kill, TypeOK, files
<1>13. ASSUME NEW p \in Procs, Finish(p) PROVE TypeOK'
  <2>1. proc' \in [Procs -> Processes]
    BY <1>13, Moved DEF Finish, Goto
  <2>2. runLock' \in [SignIns -> Procs \cup {None}]
    BY <1>13 DEF Finish, Unlock, TypeOK
  <2> QED
    BY <1>13, <2>1, <2>2 DEF Finish, TypeOK
<1>14. ASSUME NEW p \in Procs, EndSession(p) PROVE TypeOK'
  <2>1. proc' \in [Procs -> Processes]
    <3>1. Goto(p, "forget") \/ Goto(p, "refused")
      BY <1>14 DEF EndSession
    <3>2. CASE Goto(p, "forget")
      BY <3>2, Moved DEF Goto
    <3>3. CASE Goto(p, "refused")
      BY <3>3, Moved DEF Goto
    <3> QED
      BY <3>1, <3>2, <3>3
  <2> QED
    BY <1>14, <2>1 DEF EndSession, TypeOK, files
<1>15. ASSUME NEW p \in Procs, Forget(p) PROVE TypeOK'
  <2>1. proc' \in [Procs -> Processes]
    BY <1>15, Moved DEF Forget, Goto
  <2> QED
    BY <1>15, <2>1 DEF Forget, TypeOK
<1>16. ASSUME NEW p \in Procs, Crash(p) PROVE TypeOK'
  <2>1. proc' \in [Procs -> Processes]
    BY <1>16, Moved DEF Crash, Goto
  <2>2. runLock' \in [SignIns -> Procs \cup {None}] /\ cacheLock' \in [SignIns -> Procs \cup {None}]
    BY <1>16 DEF Crash, Unlock, TypeOK
  <2> QED
    BY <1>16, <2>1, <2>2 DEF Crash, TypeOK
<1>17. CASE UNCHANGED vars
  BY <1>17 DEF vars, files, TypeOK
<1> QED
  BY <1>1, <1>2, <1>3, <1>4, <1>5, <1>6, <1>7, <1>8, <1>9, <1>10, <1>11, <1>12, <1>13,
     <1>14, <1>15, <1>16, <1>17 DEF Next, Step

-----------------------------------------------------------------------------
(* Who holds what. *)

LEMMA OpenedStep == TypeOK /\ Opened /\ [Next]_vars => Opened'
<1> SUFFICES ASSUME TypeOK, Opened, [Next]_vars PROVE Opened'
  OBVIOUS
<1> USE LocalAssumption
<1>1. CASE Tick \/ SignInAgain \/ UNCHANGED vars \/ \E p \in Commands : ControllerExits(p)
  BY <1>1 DEF Tick, SignInAgain, ControllerExits, Opened, At, Dir, vars, files
<1>2. ASSUME NEW p \in Procs, Open(p) PROVE Opened'
  BY <1>2 DEF Open, Opened, At, Dir, TypeOK, Processes
<1>3. ASSUME NEW p \in Procs, LockCache(p) \/ LockRun(p) \/ Hit(p) \/ Answer(p) \/ Store(p) \/ Start(p)
      PROVE  Opened'
  BY <1>3 DEF LockCache, LockRun, Hit, Answer, Store, Start, Goto, Opened, At, Dir, TypeOK, Processes
<1>4. ASSUME NEW p \in Procs, Refused(p) \/ Kill(p) \/ Finish(p) \/ EndSession(p) \/ Forget(p) \/ Crash(p)
      PROVE  Opened'
  BY <1>4 DEF Refused, Kill, Finish, EndSession, Forget, Crash, Goto, Opened, At, Dir, TypeOK, Processes
<1> QED
  BY <1>1, <1>2, <1>3, <1>4 DEF Next, Step

LEMMA RunLockStep == TypeOK /\ Opened /\ HoldsRunLock /\ [Next]_vars => HoldsRunLock'
<1> SUFFICES ASSUME TypeOK, Opened, HoldsRunLock, [Next]_vars, NEW q \in Procs,
                    (proc[q].pc \in {"check", "running"})'
             PROVE  (runLock[Dir(q)] = q)'
  BY DEF HoldsRunLock
<1> USE LocalAssumption
<1>1. CASE Tick \/ SignInAgain \/ UNCHANGED vars \/ \E p \in Commands : ControllerExits(p)
  BY <1>1 DEF Tick, SignInAgain, ControllerExits, HoldsRunLock, Dir, vars, files
<1>2. ASSUME NEW p \in Procs,
             Open(p) \/ LockCache(p) \/ Hit(p) \/ Answer(p) \/ Refused(p) \/ Store(p)
               \/ Kill(p) \/ EndSession(p) \/ Forget(p)
      PROVE  (runLock[Dir(q)] = q)'
  BY <1>2 DEF Open, LockCache, Hit, Answer, Refused, Store, Kill, EndSession, Forget, Goto,
              HoldsRunLock, Dir, At, TypeOK, Processes, files
<1>3. ASSUME NEW p \in Procs, LockRun(p) PROVE (runLock[Dir(q)] = q)'
  <2>1. Dir(p) \in SignIns /\ runLock[Dir(p)] = None /\ runLock' = [runLock EXCEPT ![Dir(p)] = p]
    BY <1>3 DEF LockRun, Opened, At
  <2>2. Dir(q)' = Dir(q) /\ (q # p => proc'[q] = proc[q])
    BY <1>3 DEF LockRun, Goto, Dir, TypeOK, Processes
  <2>3. CASE q = p
    BY <2>1, <2>2, <2>3 DEF TypeOK
  <2>4. CASE q # p
    <3>1. Dir(q) \in SignIns /\ runLock[Dir(q)] = q
      BY <2>2, <2>4 DEF HoldsRunLock, Opened, At
    <3> QED
      BY <2>1, <2>2, <3>1 DEF TypeOK, Procs
  <2> QED
    BY <2>3, <2>4
<1>4. ASSUME NEW p \in Procs, Start(p) \/ Finish(p) \/ Crash(p) PROVE (runLock[Dir(q)] = q)'
  <2>1. Dir(q)' = Dir(q) /\ (q # p => proc'[q] = proc[q])
    BY <1>4 DEF Start, Finish, Crash, Goto, Dir, TypeOK, Processes
  <2>2. runLock' = runLock \/ runLock' = Unlock(runLock, p)
    BY <1>4 DEF Start, Finish, Crash
  <2>3. CASE q = p
    BY <1>4, <2>1, <2>3 DEF Start, Finish, Crash, Goto, At, HoldsRunLock, TypeOK, Processes
  <2>4. CASE q # p
    <3>1. Dir(q) \in SignIns /\ runLock[Dir(q)] = q
      BY <2>1, <2>4 DEF HoldsRunLock, Opened, At
    <3> QED
      BY <2>1, <2>2, <2>4, <3>1 DEF TypeOK, Unlock
  <2> QED
    BY <2>3, <2>4
<1> QED
  BY <1>1, <1>2, <1>3, <1>4 DEF Next, Step

LEMMA WaitedStep == TypeOK /\ Waited /\ [Next]_vars => Waited'
<1> SUFFICES ASSUME TypeOK, Waited, [Next]_vars, NEW q \in controllers'
             PROVE  (At(q, "running") \/ At(q, "dead"))'
  BY DEF Waited
<1>0. controllers \subseteq Procs
  BY DEF TypeOK, Procs
<1>1. CASE Tick \/ SignInAgain \/ UNCHANGED vars \/ \E p \in Commands : ControllerExits(p)
  BY <1>1 DEF Tick, SignInAgain, ControllerExits, Waited, At, vars, files
<1>2. ASSUME NEW p \in Procs, Open(p) \/ LockCache(p) \/ LockRun(p) \/ Hit(p) \/ Answer(p)
      PROVE  (At(q, "running") \/ At(q, "dead"))'
  <2>1. q \in controllers /\ q # p
    BY <1>2 DEF Open, LockCache, LockRun, Hit, Answer, Waited, At, files
  <2>2. proc'[q] = proc[q]
    BY <1>0, <1>2, <2>1 DEF Open, LockCache, LockRun, Hit, Answer, Goto, TypeOK
  <2> QED  BY <2>1, <2>2 DEF Waited, At
<1>3. ASSUME NEW p \in Procs, Refused(p) \/ Store(p) \/ Finish(p) \/ EndSession(p) \/ Forget(p)
      PROVE  (At(q, "running") \/ At(q, "dead"))'
  <2>1. q \in controllers /\ q # p
    BY <1>3 DEF Refused, Store, Finish, EndSession, Forget, Waited, At, files
  <2>2. proc'[q] = proc[q]
    BY <1>0, <1>3, <2>1 DEF Refused, Store, Finish, EndSession, Forget, Goto, TypeOK
  <2> QED  BY <2>1, <2>2 DEF Waited, At
<1>4. ASSUME NEW p \in Procs, Start(p) PROVE (At(q, "running") \/ At(q, "dead"))'
  <2>1. CASE q = p
    <3>1. p \notin controllers
      BY <1>4 DEF Start, Waited, At
    <3>2. Goto(p, "running")
      BY <1>4, <2>1, <3>1 DEF Start
    <3> QED  BY <2>1, <3>2 DEF Goto, At, TypeOK, Processes
  <2>2. CASE q # p
    <3>1. q \in controllers
      BY <1>4, <2>2 DEF Start
    <3>2. proc'[q] = proc[q]
      BY <1>0, <1>4, <2>2, <3>1 DEF Start, Goto, TypeOK
    <3> QED  BY <3>1, <3>2 DEF Waited, At
  <2> QED  BY <2>1, <2>2
<1>5. ASSUME NEW p \in Procs, Kill(p) PROVE (At(q, "running") \/ At(q, "dead"))'
  BY <1>5 DEF Kill, Waited, At
<1>6. ASSUME NEW p \in Procs, Crash(p) PROVE (At(q, "running") \/ At(q, "dead"))'
  <2>1. q \in controllers /\ q \in Procs
    BY <1>0, <1>6 DEF Crash
  <2>2. proc' = [proc EXCEPT ![p].pc = "dead"]
    BY <1>6 DEF Crash, Goto
  <2>3. CASE q = p
    BY <2>1, <2>2, <2>3 DEF At, TypeOK, Processes
  <2>4. CASE q # p
    BY <2>1, <2>2, <2>4 DEF Waited, At, TypeOK
  <2> QED  BY <2>3, <2>4
<1> QED
  BY <1>1, <1>2, <1>3, <1>4, <1>5, <1>6 DEF Next, Step

-----------------------------------------------------------------------------
(* What is known of the past. *)

LEMMA Lifetimes ==
  /\ MaxAge \in Nat /\ Timeout \in Nat /\ Expiry \in Nat /\ MaxClock \in Nat
  /\ MaxAge > 0 /\ Timeout > 0 /\ \A n \in 0..MaxClock : n \in Nat /\ n # None
BY LocalAssumption

LEMMA UnderwayStep ==
  ASSUME TypeOK, Opened, AnswersBeforeEnd, [Next]_vars, NEW q \in Commands
  PROVE  Underway(q)'
<1> USE Lifetimes
<1>a. Underway(q) /\ q \in Procs
  BY DEF AnswersBeforeEnd, Procs
<1>b. proc[q].answered # None => proc[q].answered \in 0..MaxClock
  BY <1>a DEF TypeOK, Processes
<1>1. CASE SignInAgain \/ UNCHANGED vars \/ \E p \in Commands : ControllerExits(p)
  BY <1>1, <1>a DEF SignInAgain, ControllerExits, Underway, Answered, At, vars, files
<1>2. CASE Tick
  BY <1>2, <1>a, <1>b DEF Tick, Underway, Answered, At, TypeOK, files
<1>3. ASSUME NEW p \in Procs,
             Open(p) \/ LockCache(p) \/ LockRun(p) \/ Hit(p) \/ Refused(p) \/ Start(p) \/ Finish(p)
               \/ Kill(p) \/ Crash(p) \/ Store(p) \/ EndSession(p) \/ Forget(p)
      PROVE  Underway(q)'
  <2>1. At(q, "store")' => At(q, "store") /\ proc'[q] = proc[q]
    BY <1>3, <1>a DEF Open, LockCache, LockRun, Hit, Refused, Start, Finish, Kill, Crash, Store,
                      EndSession, Forget, Goto, At, TypeOK, Processes
  <2>2. clock' = clock /\ (ended' = ended \/ ended' = clock)
    BY <1>3 DEF Open, LockCache, LockRun, Hit, Refused, Start, Finish, Kill, Crash, Store, EndSession, Forget
  <2> QED
    BY <1>a, <1>b, <2>1, <2>2 DEF Underway, Answered, TypeOK
<1>4. ASSUME NEW p \in Procs, Answer(p) PROVE Underway(q)'
  <2>1. CASE q = p
    BY <1>4, <2>1 DEF Answer, Underway, Answered, At, TypeOK, Processes
  <2>2. CASE q # p
    BY <1>4, <1>a, <2>2 DEF Answer, Underway, Answered, At, TypeOK
  <2> QED
    BY <2>1, <2>2
<1> QED
  BY <1>1, <1>2, <1>3, <1>4 DEF Next, Step

LEMMA FiledStep ==
  ASSUME TypeOK, Opened, AnswersBeforeEnd, [Next]_vars, NEW s \in SignIns
  PROVE  Filed(s)'
<1> USE Lifetimes
<1>a. Filed(s)
  BY DEF AnswersBeforeEnd
<1>b. stored[s] # None => stored[s].fetched \in 0..MaxClock /\ stored[s].answered \in 0..MaxClock
  BY DEF TypeOK, Entries
<1>1. CASE SignInAgain \/ UNCHANGED vars \/ \E p \in Commands : ControllerExits(p)
  BY <1>1, <1>a DEF SignInAgain, ControllerExits, Filed, Answered, vars, files
<1>2. CASE Tick
  BY <1>2, <1>a, <1>b DEF Tick, Filed, Answered, TypeOK, files
<1>3. ASSUME NEW p \in Procs,
             Open(p) \/ LockCache(p) \/ LockRun(p) \/ Hit(p) \/ Answer(p) \/ Refused(p) \/ Start(p)
               \/ Finish(p) \/ Kill(p) \/ Crash(p)
      PROVE  Filed(s)'
  BY <1>3, <1>a DEF Open, LockCache, LockRun, Hit, Answer, Refused, Start, Finish, Kill, Crash,
                    Filed, Answered, files
<1>4. ASSUME NEW p \in Procs, Store(p) PROVE Filed(s)'
  <2>1. p \in Commands /\ Dir(p) \in SignIns
    BY <1>4 DEF Store, At, Opened, Procs
  <2>2. Underway(p) /\ proc[p].answered \in 0..MaxClock \cup {None}
    BY <2>1 DEF AnswersBeforeEnd, TypeOK, Processes, Procs
  <2>3. clock' = clock /\ ended' = ended
    BY <1>4 DEF Store
  <2>4. CASE s = Dir(p)
    <3>1. stored'[s] = [fetched |-> clock, answered |-> proc[p].answered]
      BY <1>4, <2>1, <2>4 DEF Store, TypeOK
    <3> QED
      BY <1>4, <2>2, <2>3, <3>1 DEF Store, Underway, Filed, Answered, TypeOK
  <2>5. CASE s # Dir(p)
    BY <1>4, <1>a, <2>3, <2>5 DEF Store, Filed, Answered, TypeOK
  <2> QED
    BY <2>4, <2>5
<1>5. ASSUME NEW p \in Procs, EndSession(p) PROVE Filed(s)'
  <2>1. stored' = stored /\ clock' = clock /\ (ended' = ended \/ ended' = clock)
    BY <1>5 DEF EndSession, files
  <2> QED
    BY <1>a, <1>b, <2>1 DEF Filed, Answered, TypeOK
<1>6. ASSUME NEW p \in Procs, Forget(p) PROVE Filed(s)'
  BY <1>6, <1>a DEF Forget, Filed, Answered, TypeOK
<1> QED
  BY <1>1, <1>2, <1>3, <1>4, <1>5, <1>6 DEF Next, Step

\* What was picked before stays, and what is picked now is recent.
LEMMA PickedStep ==
  ASSUME LocalInv, [Next]_vars, NEW q \in Procs, proc'[q].picked # proc[q].picked
  PROVE  /\ proc'[q].picked = clock /\ clock' = clock /\ ended' = ended
         /\ q \in Commands
         /\ ended # None => clock < ended + MaxAge + Timeout
<1> USE Lifetimes
<1>1. PICK p \in Procs : Hit(p) \/ Store(p)
  <2>1. CASE Tick \/ SignInAgain \/ UNCHANGED vars \/ \E p \in Commands : ControllerExits(p)
    BY <2>1 DEF Tick, SignInAgain, ControllerExits, vars
  <2>2. ASSUME NEW p \in Procs, Open(p) \/ Answer(p) \/ Kill(p) PROVE FALSE
    BY <2>2 DEF Open, Answer, Kill, LocalInv, TypeOK, Processes
  <2>3. ASSUME NEW p \in Procs, NEW stage, Goto(p, stage) PROVE FALSE
    BY <2>3, GotoKeeps DEF LocalInv
  <2>4. ASSUME NEW p \in Procs, LockCache(p) \/ LockRun(p) \/ Refused(p) \/ Start(p)
        PROVE  FALSE
    BY <2>3, <2>4 DEF LockCache, LockRun, Refused, Start
  <2>5. ASSUME NEW p \in Procs, Finish(p) \/ Crash(p) \/ EndSession(p) \/ Forget(p)
        PROVE  FALSE
    BY <2>3, <2>5 DEF Finish, Crash, EndSession, Forget
  <2> QED
    BY <2>1, <2>2, <2>4, <2>5 DEF Next, Step
<1>2. q = p
  BY <1>1 DEF Hit, Store, LocalInv, TypeOK
<1>3. q \in Commands /\ Dir(q) \in SignIns
  BY <1>1, <1>2 DEF Hit, Store, At, LocalInv, Opened, Procs
<1>4. proc'[q].picked = clock /\ clock' = clock /\ ended' = ended
  BY <1>1, <1>2 DEF Hit, Store, LocalInv, TypeOK, Processes
<1>5. ASSUME ended # None, Hit(q) PROVE clock < ended + MaxAge + Timeout
  <2>1. stored[Dir(q)] \in Entries /\ Filed(Dir(q)) /\ stored[Dir(q)] # None
    BY <1>3, <1>5 DEF Hit, Usable, LocalInv, TypeOK, AnswersBeforeEnd
  <2> QED
    BY <1>5, <2>1 DEF Hit, Usable, Filed, Answered, Entries, LocalInv, TypeOK
<1>6. ASSUME ended # None, Store(q) PROVE clock < ended + MaxAge + Timeout
  <2>1. Underway(q) /\ proc[q].answered \in 0..MaxClock \cup {None}
    BY <1>3 DEF LocalInv, AnswersBeforeEnd, TypeOK, Processes, Procs
  <2> QED
    BY <1>6, <2>1 DEF Store, Underway, Answered, LocalInv, TypeOK
<1> QED
  BY <1>1, <1>2, <1>3, <1>4, <1>5, <1>6

LEMMA LaterStep == LocalInv /\ [Next]_vars => NothingLater' /\ StaleForBoundedTime'
<1> SUFFICES ASSUME LocalInv, [Next]_vars PROVE NothingLater' /\ StaleForBoundedTime'
  OBVIOUS
<1> USE Lifetimes
<1>1. clock' \in {clock, clock + 1} /\ clock \in 0..MaxClock
  BY DEF Next, Step, Tick, SignInAgain, Open, LockCache, LockRun, Hit, Answer, Store, Refused, Start, Finish, Kill,
         Crash, ControllerExits, EndSession, Forget, vars, LocalInv, TypeOK
<1>2. ended' = ended \/ (ended' = clock /\ clock' = clock /\ ended = None)
  BY DEF Next, Step, Tick, SignInAgain, Open, LockCache, LockRun, Hit, Answer, Store, Refused, Start, Finish, Kill,
         Crash, ControllerExits, EndSession, Forget, vars, files
<1>3. ASSUME NEW q \in Procs, proc'[q].picked # None
      PROVE  /\ proc'[q].picked <= clock' /\ proc'[q].picked \in Nat
             /\ q \in Commands /\ ended' # None => proc'[q].picked < ended' + MaxAge + Timeout
  <2>1. CASE proc'[q].picked = proc[q].picked
    <3>1. proc[q].picked \in 0..MaxClock /\ proc[q].picked <= clock
      BY <1>3, <2>1 DEF LocalInv, NothingLater, TypeOK, Processes
    <3>2. ended # None /\ q \in Commands => proc[q].picked < ended + MaxAge + Timeout
      BY <1>3, <2>1 DEF LocalInv, StaleForBoundedTime
    <3> QED
      BY <1>1, <1>2, <2>1, <3>1, <3>2
  <2>2. CASE proc'[q].picked # proc[q].picked
    BY <1>1, <2>2, PickedStep
  <2> QED
    BY <2>1, <2>2
<1>4. ended' # None => ended' <= clock'
  BY <1>1, <1>2 DEF LocalInv, NothingLater, TypeOK
<1> QED
  BY <1>3, <1>4 DEF NothingLater, StaleForBoundedTime, Procs

-----------------------------------------------------------------------------

(* The inductive invariant: types, who holds which lock, and when what is in *)
(* the files was answered.                                                    *)
THEOREM LocalInvariant == Spec => []LocalInv
<1>1. Init => LocalInv
  BY LocalAssumption, StageNames, Lifetimes
  DEF Init, LocalInv, TypeOK, Processes, Process, Opened, HoldsRunLock, Waited, AnswersBeforeEnd, Underway, Filed,
      NothingLater, StaleForBoundedTime, At, Dir, Procs
<1>2. LocalInv /\ [Next]_vars => LocalInv'
  <2> SUFFICES ASSUME LocalInv, [Next]_vars PROVE LocalInv'
    OBVIOUS
  <2>1. TypeOK' /\ Opened' /\ HoldsRunLock' /\ Waited'
    BY TypeStep, OpenedStep, RunLockStep, WaitedStep DEF LocalInv
  <2>2. AnswersBeforeEnd'
    BY UnderwayStep, FiledStep DEF LocalInv, AnswersBeforeEnd
  <2> QED
    BY <2>1, <2>2, LaterStep DEF LocalInv
<1> QED
  BY <1>1, <1>2, PTL DEF Spec

(* Processes, locks and files always have their types.                       *)
THEOREM TypeCorrect == Spec => []TypeOK
<1>1. LocalInv => TypeOK
  BY DEF LocalInv
<1> QED
  BY <1>1, LocalInvariant, PTL

(* Under one sign-in two controllers work at once only after the process of a *)
(* command was killed: whoever waits for one holds the lock, and a lock goes  *)
(* with its process while the controller goes on (runtime.rs:50-60).          *)
THEOREM CommandsAreSerialized == Spec => []SerializedUnlessKilled
<1>1. ASSUME LocalInv, NEW p \in controllers, NEW q \in controllers, Dir(p) = Dir(q),
             ~At(p, "dead"), ~At(q, "dead")
      PROVE  p = q
  <2>1. p \in Procs /\ q \in Procs /\ proc[p].pc = "running" /\ proc[q].pc = "running"
    BY <1>1 DEF LocalInv, Waited, At, TypeOK, Procs
  <2>2. runLock[Dir(p)] = p /\ runLock[Dir(q)] = q
    BY <1>1, <2>1 DEF LocalInv, HoldsRunLock
  <2> QED  BY <1>1, <2>2
<1>2. LocalInv => SerializedUnlessKilled
  BY <1>1 DEF SerializedUnlessKilled
<1> QED
  BY <1>2, LocalInvariant, PTL

(* A connection is taken for less than its lifetime in the file and one       *)
(* request's timeout after the session was ended, whatever runs in between    *)
(* (runtime.rs:62-88).                                                         *)
THEOREM ConnectionsGoStale == Spec => []StaleForBoundedTime
<1>1. LocalInv => StaleForBoundedTime
  BY DEF LocalInv
<1> QED
  BY <1>1, LocalInvariant, PTL

-----------------------------------------------------------------------------
(* The setup part of the runs (ControllerSetup), for any setups and versions. *)

Private == {None, Setup!Link} \cup {Setup!Whole(v) : v \in Versions}
Unlocked == {"open", "create", "reopen", "lock"}
Downloading == {"write", "try", "rename", "remove"}
Locked == {"package", "target", "path", "download", "make", "installed"} \cup Downloading
SetupPlaces == Unlocked \cup Locked \cup {"ready", "unready", "failed", "gone"}

SetupTypes ==
  /\ pc \in [Setups -> SetupPlaces] /\ clean \in [Setups -> BOOLEAN]
  /\ onPath \in Versions \cup {None}

(* The private controller is whole and synced, and so is whatever a loss of  *)
(* power may bring back.                                                     *)
FilesWhole == target \in Private /\ durable \subseteq Private

(* Who is past the lock holds it, and looks at PATH only where no controller *)
(* is installed.                                                             *)
SetupLocked ==
  \A p \in Setups : 
    /\ pc[p] \in Locked => holder = p
    /\ pc[p] = "path" => target = None

(* A temporary file is of the setup that works on it or that ended; it is    *)
(* whole when it is tried.                                                   *)
OwnTemporary ==
  \A p \in Setups :
    /\ p \in DOMAIN temps => pc[p] \in Downloading \cup {"gone"}
    /\ pc[p] \in {"try", "rename"} => p \in DOMAIN temps /\ temps[p] = Setup!Whole(WantedBy[p])
    /\ pc[p] = "remove" => ~clean[p]

SetupInv == SetupTypes /\ FilesWhole /\ SetupLocked /\ OwnTemporary /\ SetupSettles

LEMMA FileSorts ==
  /\ Setup!Link \in Private /\ Setup!Link # None /\ Setup!Link.synced /\ ~Setup!Link.whole
  /\ \A v \in Versions : /\ Setup!Whole(v) \in Private /\ Setup!Whole(v) # None
                         /\ Setup!Whole(v).version = v /\ Setup!Whole(v).whole /\ Setup!Whole(v).synced
  /\ \A file \in Private : file = None \/ file.synced
  /\ \A file \in Private : file = None \/ file = Setup!Link \/ file.whole
  /\ \A p \in Setups : WantedBy[p] \in Versions
  /\ None \notin Setups /\ None \notin Versions
<1> USE PartsAssumption DEF Setup!SetupAssumption
<1>1. Setup!Link # None /\ \A v \in Versions : Setup!Whole(v) # None
  <2>1. Setup!Link \in [version : Versions \cup {None}, whole : BOOLEAN, synced : BOOLEAN]
    BY DEF Setup!Link
  <2>2. \A v \in Versions : Setup!Whole(v) \in [version : Versions \cup {None}, whole : BOOLEAN, synced : BOOLEAN]
    BY DEF Setup!Whole
  <2> QED  BY <2>1, <2>2
<1>2. Setup!Link \in Private /\ \A v \in Versions : Setup!Whole(v) \in Private
  BY DEF Private
<1>3. Setup!Link.synced /\ ~Setup!Link.whole
  BY DEF Setup!Link
<1>4. \A v \in Versions : Setup!Whole(v).version = v /\ Setup!Whole(v).whole /\ Setup!Whole(v).synced
  BY DEF Setup!Whole
<1>5. \A file \in Private : (file = None \/ file.synced) /\ (file = None \/ file = Setup!Link \/ file.whole)
  BY <1>3, <1>4 DEF Private
<1>6. (\A p \in Setups : WantedBy[p] \in Versions) /\ None \notin Setups /\ None \notin Versions
  OBVIOUS
<1> HIDE PartsAssumption DEF Setup!SetupAssumption
<1> QED  BY <1>1, <1>2, <1>3, <1>4, <1>5, <1>6

LEMMA SetupInit == Setup!Init => SetupInv
<1> SUFFICES ASSUME Setup!Init PROVE SetupInv
  OBVIOUS
<1>1. SetupTypes
  BY DEF Setup!Init, SetupTypes, SetupPlaces, Unlocked
<1>2. FilesWhole
  BY FileSorts DEF Setup!Init, FilesWhole, Private
<1>3. SetupLocked /\ OwnTemporary
  BY DEF Setup!Init, SetupLocked, OwnTemporary, Locked, Downloading
<1>4. SetupSettles
  BY <1>2, FileSorts DEF Setup!Init, SetupSettles, Setup!TargetWhole, Setup!ReadyIsPicked, Setup!RetryCures, FilesWhole
<1> QED  BY <1>1, <1>2, <1>3, <1>4 DEF SetupInv

(* A setup moves on, the files as they are. *)
LEMMA SetupMoves ==
  ASSUME SetupInv, NEW p \in Setups, NEW next \in SetupPlaces, pc' = [pc EXCEPT ![p] = next],
         UNCHANGED <<target, durable, temps, onPath>>, promised' \in {promised, None},
         clean' = clean \/ clean' = [clean EXCEPT ![p] = FALSE],
         \/ holder' = holder /\ (next \in Locked => holder = p)
         \/ holder = p /\ holder' = None /\ next \notin Locked
         \/ holder = None /\ holder' = p,
         next = "path" => target = None,
         next \notin {"try", "rename"} \/ (pc[p] = "try" /\ next = "rename"),
         next \in {"remove", "failed"} => ~clean'[p],
         p \in DOMAIN temps => next \in Downloading \cup {"gone"}
  PROVE  SetupInv'
<1> USE DEF SetupInv
<1>1. SetupTypes'
  BY DEF SetupTypes
<1>2. FilesWhole'
  BY DEF FilesWhole
<1>3. SetupLocked'
  BY FileSorts DEF SetupLocked, SetupTypes
<1>4. OwnTemporary'
  BY DEF OwnTemporary, SetupTypes
<1>5. Setup!TargetWhole' /\ Setup!ReadyIsPicked'
  BY DEF SetupSettles, Setup!TargetWhole, Setup!ReadyIsPicked, Setup!Picked, Setup!PathFile
<1>6. Setup!RetryCures'
  BY DEF SetupSettles, Setup!RetryCures, SetupTypes
<1> QED  BY <1>1, <1>2, <1>3, <1>4, <1>5, <1>6 DEF SetupSettles

(* A setup reports its version ready when that is what would be run. *)
LEMMA SetupReports ==
  ASSUME SetupInv, NEW p \in Setups, Setup!Report(p), holder = p,
         Setup!Picked # None, Setup!Picked.version = WantedBy[p], p \notin DOMAIN temps
  PROVE  SetupInv'
<1> USE DEF SetupInv, Setup!Report, Setup!Stops, Setup!Goto, Setup!files
<1>1. SetupTypes'
  BY DEF SetupTypes, SetupPlaces
<1>2. FilesWhole'
  BY DEF FilesWhole
<1>3. SetupLocked'
  BY DEF SetupLocked, SetupTypes, Locked, Downloading
<1>4. OwnTemporary'
  BY DEF OwnTemporary, SetupTypes
<1>5. Setup!TargetWhole' /\ Setup!ReadyIsPicked'
  BY DEF SetupSettles, Setup!TargetWhole, Setup!ReadyIsPicked, Setup!Picked, Setup!PathFile
<1>6. Setup!RetryCures'
  BY DEF SetupSettles, Setup!RetryCures, SetupTypes
<1> QED  BY <1>1, <1>2, <1>3, <1>4, <1>5, <1>6 DEF SetupSettles

(* A setup goes on, or fails. *)
LEMMA SetupGoesOn ==
  ASSUME SetupInv, NEW p \in Setups, NEW next \in SetupPlaces, Setup!On(p, next),
         clean' = clean \/ Setup!Unlucky(p),
         next \in Locked => holder = p,
         next = "path" => target = None,
         next # "try", next = "rename" => pc[p] = "try",
         next \in {"remove", "failed"} => Setup!Unlucky(p),
         p \in DOMAIN temps => next \in Downloading
  PROVE  SetupInv'
<1>1. next \in {"remove", "failed"} => ~clean'[p]
  BY DEF Setup!Unlucky, SetupInv, SetupTypes
<1> QED  BY <1>1, SetupMoves DEF Setup!On, Setup!Goto, Setup!files, Setup!Unlucky

LEMMA SetupBreaks ==
  ASSUME SetupInv, NEW p \in Setups, Setup!Broken(p), p \notin DOMAIN temps
  PROVE  SetupInv'
<1>1. ~clean'[p]
  BY DEF Setup!Broken, Setup!Unlucky, SetupInv, SetupTypes
<1>2. "failed" \in SetupPlaces /\ "failed" \notin Locked
  BY DEF SetupPlaces, Locked, Downloading
<1> QED  BY <1>1, <1>2, SetupMoves DEF Setup!Broken, Setup!Fails, Setup!Stops, Setup!Goto, Setup!files, Setup!Unlucky

LEMMA OpeningStep ==
  ASSUME SetupInv, NEW p \in Setups,
         Setup!Open(p) \/ Setup!Create(p) \/ Setup!Reopen(p) \/ Setup!Lock(p)
  PROVE  SetupInv'
<1>0. p \notin DOMAIN temps
  BY DEF Setup!Open, Setup!Create, Setup!Reopen, Setup!Lock, SetupInv, OwnTemporary, Downloading
<1>1. ASSUME Setup!Opened(p) PROVE SetupInv'
  BY <1>0, <1>1, SetupBreaks, SetupGoesOn DEF Setup!Opened, SetupPlaces, Unlocked, Locked, Downloading
<1>2. CASE Setup!Open(p)
  BY <1>0, <1>1, <1>2, SetupGoesOn DEF Setup!Open, SetupPlaces, Unlocked, Locked, Downloading
<1>3. CASE Setup!Create(p)
  BY <1>0, <1>3, SetupMoves DEF Setup!Create, Setup!Goto, SetupPlaces, Unlocked, Locked, Downloading
<1>4. CASE Setup!Reopen(p)
  BY <1>1, <1>4 DEF Setup!Reopen
<1>5. CASE Setup!Lock(p)
  <2> DEFINE next == IF p \in Packaged THEN "package" ELSE "target"
  <2>1. next \in SetupPlaces /\ next \notin {"path", "try", "rename", "remove", "failed"}
    BY DEF SetupPlaces, Locked
  <2>2. pc' = [pc EXCEPT ![p] = next] /\ holder = None /\ holder' = p
    BY <1>5 DEF Setup!Lock, Setup!Lockable, Setup!Goto
  <2> HIDE DEF next
  <2> QED  BY <1>0, <1>5, <2>1, <2>2, SetupMoves DEF Setup!Lock, Setup!files
<1> QED  BY <1>2, <1>3, <1>4, <1>5

LEMMA CheckingStep ==
  ASSUME SetupInv, NEW p \in Setups,
         Setup!CheckPackage(p) \/ Setup!CheckTarget(p) \/ Setup!CheckPath(p) \/ Setup!Download(p)
           \/ Setup!Installed(p)
  PROVE  SetupInv'
<1>0. p \notin DOMAIN temps /\ holder = p
  BY DEF Setup!CheckPackage, Setup!CheckTarget, Setup!CheckPath, Setup!Download, Setup!Installed, SetupInv, OwnTemporary,
         SetupLocked, Locked, Downloading
<1>1. CASE Setup!CheckPackage(p)
  <2>1. "ready" \in SetupPlaces /\ "ready" \notin Locked
    BY DEF SetupPlaces, Locked, Downloading
  <2> QED  BY <1>0, <1>1, <2>1, SetupBreaks, SetupMoves DEF Setup!CheckPackage, Setup!Stops, Setup!Goto, Setup!files
<1>2. CASE Setup!CheckTarget(p)
  <2>1. CASE target = Setup!Link
    BY <1>0, <1>2, <2>1, SetupBreaks DEF Setup!CheckTarget
  <2>2. CASE target # Setup!Link
    <3>1. PICK runs \in BOOLEAN :
            IF Setup!Ready(p, target, runs) THEN Setup!Report(p)
            ELSE Setup!On(p, IF Setup!MayUsePath THEN "path" ELSE "download") /\ UNCHANGED clean
      BY <1>2, <2>2 DEF Setup!CheckTarget
    <3>2. CASE Setup!Ready(p, target, runs)
      BY <1>0, <3>1, <3>2, SetupReports DEF Setup!Ready, Setup!Picked
    <3>3. CASE ~Setup!Ready(p, target, runs)
      BY <1>0, <3>1, <3>3, SetupGoesOn DEF Setup!MayUsePath, SetupPlaces, Locked
    <3> QED  BY <3>2, <3>3
  <2> QED  BY <2>1, <2>2
<1>3. CASE Setup!CheckPath(p)
  <2>1. PICK runs \in BOOLEAN :
          IF Setup!Ready(p, Setup!PathFile, runs) THEN Setup!Report(p) ELSE Setup!On(p, "download") /\ UNCHANGED clean
    BY <1>3 DEF Setup!CheckPath
  <2>2. target = None
    BY <1>3 DEF Setup!CheckPath, SetupInv, SetupLocked
  <2>3. CASE Setup!Ready(p, Setup!PathFile, runs)
    BY <1>0, <2>1, <2>2, <2>3, SetupReports DEF Setup!Ready, Setup!Picked
  <2>4. CASE ~Setup!Ready(p, Setup!PathFile, runs)
    BY <1>0, <2>1, <2>4, SetupGoesOn DEF SetupPlaces, Locked
  <2> QED  BY <2>3, <2>4
<1>4. CASE Setup!Download(p)
  BY <1>0, <1>4, SetupGoesOn, SetupBreaks DEF Setup!Download, SetupPlaces, Locked
<1>5. CASE Setup!Installed(p)
  <2>1. PICK runs \in BOOLEAN :
          IF Setup!Ready(p, target, runs) THEN Setup!Report(p)
          ELSE Setup!Stops(p, "unready") /\ Setup!Unlucky(p) /\ UNCHANGED <<Setup!files, onPath, promised, losses, changes>>
    BY <1>5 DEF Setup!Installed
  <2>2. CASE Setup!Ready(p, target, runs)
    BY <1>0, <2>1, <2>2, SetupReports DEF Setup!Ready, Setup!Picked
  <2>3. "unready" \in SetupPlaces /\ "unready" \notin Locked
    BY DEF SetupPlaces, Locked, Downloading
  <2>4. CASE ~Setup!Ready(p, target, runs)
    BY <1>0, <2>1, <2>3, <2>4, SetupMoves DEF Setup!Stops, Setup!Goto, Setup!files, Setup!Unlucky
  <2> QED  BY <2>2, <2>4
<1> QED  BY <1>1, <1>2, <1>3, <1>4, <1>5

LEMMA DownloadingStep ==
  ASSUME SetupInv, NEW p \in Setups,
         Setup!MakeTemporary(p) \/ Setup!Write(p) \/ Setup!Try(p) \/ Setup!Rename(p) \/ Setup!RemoveTemporary(p)
  PROVE  SetupInv'
<1> USE DEF SetupInv, Setup!Goto, Setup!Name, Setup!Put, Setup!Remove
<1>0. holder = p
  BY DEF Setup!MakeTemporary, Setup!Write, Setup!Try, Setup!Rename, Setup!RemoveTemporary, SetupLocked, Locked, Downloading
<1>a. ASSUME UNCHANGED <<target, durable, onPath, promised>> PROVE FilesWhole' /\ Setup!TargetWhole' /\ Setup!ReadyIsPicked'
  BY <1>a DEF FilesWhole, SetupSettles, Setup!TargetWhole, Setup!ReadyIsPicked, Setup!Picked, Setup!PathFile
<1>1. CASE Setup!MakeTemporary(p)
  <2> USE <1>1 DEF Setup!MakeTemporary
  <2>1. p \notin DOMAIN temps /\ pc' = [pc EXCEPT ![p] = "write"]
    BY DEF OwnTemporary, Downloading, SetupTypes
  <2>2. SetupTypes' /\ SetupLocked'
    BY <1>0, <2>1 DEF SetupTypes, SetupPlaces, Locked, Downloading, SetupLocked
  <2>3. OwnTemporary'
    BY <2>1 DEF OwnTemporary, SetupTypes, Downloading
  <2>4. Setup!RetryCures'
    BY <2>1 DEF SetupSettles, Setup!RetryCures, SetupTypes
  <2> QED  BY <1>a, <2>2, <2>3, <2>4 DEF SetupSettles
<1>2. CASE Setup!Write(p)
  <2> USE <1>2 DEF Setup!Write
  <2>1. \/ pc' = [pc EXCEPT ![p] = "try"] /\ UNCHANGED clean
           /\ temps' = [m \in DOMAIN temps \cup {p} |-> IF m = p THEN Setup!Whole(WantedBy[p]) ELSE temps[m]]
        \/ pc' = [pc EXCEPT ![p] = "remove"] /\ clean' = [clean EXCEPT ![p] = FALSE] /\ UNCHANGED temps
    BY DEF Setup!Written, Setup!Unlucky
  <2>2. SetupTypes' /\ SetupLocked'
    BY <1>0, <2>1 DEF SetupTypes, SetupPlaces, Locked, Downloading, SetupLocked
  <2>3. OwnTemporary'
    BY <2>1 DEF OwnTemporary, SetupTypes, Downloading
  <2>4. Setup!RetryCures'
    BY <2>1 DEF SetupSettles, Setup!RetryCures, SetupTypes
  <2> QED  BY <1>a, <2>2, <2>3, <2>4 DEF SetupSettles
<1>3. CASE Setup!Try(p)
  BY <1>0, <1>3, SetupGoesOn DEF Setup!Try, SetupPlaces, Locked, Downloading
<1>4. CASE Setup!Rename(p) /\ Setup!On(p, "remove") /\ Setup!Unlucky(p)
  <2>1. holder = p /\ pc[p] = "rename"
    BY <1>0, <1>4 DEF Setup!Rename
  <2> QED  BY <1>4, <2>1, SetupGoesOn DEF SetupPlaces, Locked, Downloading
<1>5. CASE Setup!Rename(p) /\ ~(Setup!On(p, "remove") /\ Setup!Unlucky(p))
  <2> USE <1>5 DEF Setup!Rename
  <2>1. target' = Setup!Whole(WantedBy[p]) /\ target' \in Private
    BY FileSorts DEF OwnTemporary
  <2>2. SetupTypes'
    BY DEF SetupTypes, SetupPlaces, Locked
  <2>3. SetupLocked'
    BY <1>0 DEF SetupTypes, SetupLocked, Locked, Downloading
  <2>4. OwnTemporary'
    BY DEF OwnTemporary, SetupTypes, Downloading
  <2>5. FilesWhole' /\ Setup!TargetWhole'
    BY <2>1, FileSorts DEF FilesWhole, Setup!TargetWhole
  <2>6. Setup!RetryCures' /\ Setup!ReadyIsPicked'
    BY DEF SetupSettles, Setup!RetryCures, Setup!ReadyIsPicked, SetupTypes
  <2> QED  BY <2>2, <2>3, <2>4, <2>5, <2>6 DEF SetupSettles
<1>6. CASE Setup!RemoveTemporary(p)
  <2> USE <1>6 DEF Setup!RemoveTemporary, Setup!Stops
  <2>1. SetupTypes' /\ SetupLocked'
    BY FileSorts, <1>0 DEF SetupTypes, SetupPlaces, Locked, Downloading, SetupLocked
  <2>2. OwnTemporary'
    BY DEF OwnTemporary, SetupTypes
  <2>3. Setup!RetryCures'
    BY DEF SetupSettles, Setup!RetryCures, SetupTypes, OwnTemporary
  <2> QED  BY <1>a, <2>1, <2>2, <2>3 DEF SetupSettles
<1> QED  BY <1>1, <1>2, <1>3, <1>4, <1>5, <1>6

(* A setup crashes, the machine loses power, PATH changes. *)
LEMMA MachineStep ==
  ASSUME SetupInv, (\E p \in Setups : Setup!Crash(p)) \/ Setup!PowerLoss \/ Setup!ChangePath
  PROVE  SetupInv'
<1>1. ASSUME NEW p \in Setups, Setup!Crash(p) PROVE SetupInv'
  <2>1. "gone" \in SetupPlaces /\ "gone" \notin Locked
    BY DEF SetupPlaces, Locked, Downloading
  <2> QED  BY <1>1, <2>1, SetupMoves DEF Setup!Crash, Setup!Left, Setup!Goto, Setup!files
<1>2. CASE Setup!PowerLoss
  <2> USE <1>2 DEF Setup!PowerLoss, SetupInv
  <2>1. PICK file \in durable : target' = Setup!After(file)
    OBVIOUS
  <2>2. target' = file /\ file \in Private
    BY <2>1, FileSorts DEF FilesWhole, Setup!After
  <2>3. FilesWhole' /\ Setup!TargetWhole' /\ Setup!ReadyIsPicked'
    BY <2>2, FileSorts DEF FilesWhole, Setup!TargetWhole, Setup!ReadyIsPicked
  <2>4. \A p \in Setups : pc'[p] \in {"ready", "unready", "failed", "gone", "open"} /\ pc'[p] \in {pc[p], "gone"}
    BY DEF Setup!Ended, SetupTypes
  <2>5. SetupTypes'
    BY <2>4 DEF SetupTypes, SetupPlaces, Unlocked
  <2>6. SetupLocked'
    BY <2>4 DEF SetupLocked, Locked, Downloading
  <2>7. OwnTemporary'
    <3>1. DOMAIN temps' = DOMAIN temps
      OBVIOUS
    <3> QED  BY <2>4, <3>1 DEF OwnTemporary, Downloading
  <2>8. Setup!RetryCures'
    BY <2>4 DEF SetupSettles, Setup!RetryCures
  <2> QED  BY <2>3, <2>5, <2>6, <2>7, <2>8 DEF SetupSettles
<1>3. CASE Setup!ChangePath
  <2> USE <1>3 DEF Setup!ChangePath, SetupInv, Setup!files
  <2>1. SetupTypes' /\ FilesWhole' /\ SetupLocked' /\ OwnTemporary'
    BY DEF SetupTypes, FilesWhole, SetupLocked, OwnTemporary
  <2>2. SetupSettles'
    BY DEF SetupSettles, Setup!TargetWhole, Setup!ReadyIsPicked, Setup!RetryCures, Setup!Picked
  <2> QED  BY <2>1, <2>2
<1> QED  BY <1>1, <1>2, <1>3

LEMMA SetupStep == SetupInv /\ [Setup!Next]_setupVars => SetupInv'
<1> SUFFICES ASSUME SetupInv, [Setup!Next]_setupVars PROVE SetupInv'
  OBVIOUS
<1>1. CASE UNCHANGED setupVars
  BY <1>1 DEF setupVars, SetupInv, SetupTypes, FilesWhole, SetupLocked, OwnTemporary, SetupSettles,
              Setup!TargetWhole, Setup!ReadyIsPicked, Setup!RetryCures, Setup!Picked, Setup!PathFile
<1>2. CASE Setup!Next
  BY <1>2, OpeningStep, CheckingStep, DownloadingStep, MachineStep DEF Setup!Next, Setup!Step
<1> QED  BY <1>1, <1>2

(* The controller in the private directory is whole, the one that a setup     *)
(* reported ready is the one that runs, and a setup for which nothing fails   *)
(* ends ready, whatever setups run beside it, crash or lose power              *)
(* (ensure_runner, install, controller_binary).                               *)
THEOREM SetupsSettle == MCSpec => []SetupSettles
<1>1. MCInit => SetupInv
  BY SetupInit DEF MCInit
<1>2. SetupInv /\ [MCNext]_<<part, vars, transferVars, outputVars, argumentVars, setupVars>> => SetupInv'
  BY SetupStep DEF MCNext, CommandsPart, TransferPart, OutputPart, ArgumentsPart, SetupPart
<1>3. SetupInv => SetupSettles
  BY DEF SetupInv
<1> QED  BY <1>1, <1>2, <1>3, PTL DEF MCSpec

-----------------------------------------------------------------------------
(* The transfer part of the runs (FileTransfer), for any transfers, and files  *)
(* of any length that are written any number of times.                         *)

Carries == Nat \cup Seq(Nat) \cup {None}
UploadScripts == {"capture", "resolve", "target", "chunk", "build", "commit", "cleanup"}
DownloadScripts == {"capture", "resolve", "begin", "read", "cleanup"}
TransferPlaces == UploadScripts \cup DownloadScripts \cup {"open", "recheck", "sync", "done"}
TransferClients ==
  [pc : TransferPlaces, waiting : BOOLEAN, failed : BOOLEAN, opened : Nat, data : Seq(Nat)]
TransferEvals ==
  [by : Transfer!Transfers, script : UploadScripts \cup DownloadScripts, carries : Carries, running : BOOLEAN]
TransferObjects ==
  [present : BOOLEAN, timer : {"off", "capture", "transfer"}, captured : BOOLEAN,
   chunks : Seq(Carries), file : Seq(Carries) \cup {None}, offset : Nat]
BodyEnds == [at : Nat, announced : BOOLEAN]
Responses == [stream : {"none", "requested", "open", "aborted"}, end : BodyEnds \cup {None}]
Contents == [by : Downloads \cup {None}, parts : Seq(Nat)]

ClientTypes == client \in [Transfer!Transfers -> TransferClients] /\ evals \subseteq TransferEvals
PageTypes ==
  /\ chain \in Seq([by : Transfer!Transfers \cup {Page}, active : BOOLEAN])
  /\ object \in [Transfer!Transfers -> TransferObjects]
  /\ response \in [Downloads -> Responses]
FileTypes ==
  /\ source \in [parts : [1..FileParts -> Nat], mtime : Nat]
  /\ dest \in Contents /\ disk \subseteq Contents

\* A download runs the scripts of a download, an upload those of an upload.
OwnScripts ==
  /\ \A t \in Uploads : client[t].pc \in UploadScripts \cup {"open", "recheck", "done"}
  /\ \A t \in Downloads : client[t].pc \in DownloadScripts \cup {"open", "sync", "done"}
  /\ \A e \in evals : e.script \in (IF e.by \in Uploads THEN UploadScripts ELSE DownloadScripts)

\* The parts that were read are those of the file as long as it has the time
\* it was opened with, and what is handed to the page is one of its versions.
UploadRead(t) ==
  /\ client[t].opened <= source.mtime
  /\ client[t].pc \in {"open", "capture", "resolve", "target"} => client[t].data = <<>>
  /\ client[t].pc \in {"chunk", "recheck"} =>
       /\ Len(client[t].data) <= FileParts
       /\ client[t].opened = source.mtime =>
            \A i \in 1..Len(client[t].data) : client[t].data[i] = source.parts[i]
  /\ client[t].pc = "chunk" /\ ~client[t].waiting => Len(client[t].data) < FileParts
  /\ client[t].pc = "recheck" => Len(client[t].data) = FileParts
  /\ client[t].pc \in {"build", "commit"} => client[t].data \in versions

UploadsRead ==
  /\ source.parts \in versions
  /\ \A t \in Uploads : UploadRead(t)
  /\ \A e \in evals : e.script = "commit" => e.carries \in versions
  /\ Transfer!OneVersionUploaded

Upto(n) == [i \in 1..n |-> i]
WholeBody(t, parts) ==
  /\ parts = Upto(response[t].end.at)
  /\ response[t].end.announced => response[t].end.at = FileParts

\* A download that has not failed waits for its only script, and what it has is
\* what the page has read for it.
InTurn(t) ==
  /\ client[t].failed => client[t].pc = "cleanup"
  /\ ~client[t].failed /\ client[t].pc # "done" =>
       /\ \A e \in evals : e.by = t =>
            \/ client[t].waiting /\ e.script = client[t].pc
            \/ e.script = "cleanup" /\ client[t].pc = "sync"
       /\ \A e, f \in evals : e.by = t /\ f.by = t => e = f
  /\ client[t].pc \in {"sync", "done"} => ~client[t].waiting

DownloadRead(t) ==
  /\ client[t].pc \in {"open", "capture", "resolve", "begin"} =>
       client[t].data = <<>> /\ object[t].offset = 0
  /\ client[t].pc = "read" /\ response[t].stream = "open" => client[t].data = Upto(object[t].offset)
  /\ client[t].pc \in {"cleanup", "sync"} /\ ~client[t].failed => WholeBody(t, client[t].data)

\* What is on the disk is complete, and of a download that is over.
CommittedWhole ==
  \A content \in {dest} \cup disk : content.by # None =>
    /\ client[content.by].pc = "done"
    /\ \A e \in evals : e.by = content.by => e.script # "read"
    /\ WholeBody(content.by, content.parts)

DownloadsRead == (\A t \in Downloads : InTurn(t) /\ DownloadRead(t)) /\ CommittedWhole

TransferInv ==
  /\ ClientTypes /\ PageTypes /\ FileTypes
  /\ OwnScripts /\ Transfer!PatchesKept /\ UploadsRead /\ DownloadsRead

LEMMA TransferFacts ==
  /\ Transfer!Transfers = Uploads \cup Downloads /\ Uploads \cap Downloads = {}
  /\ Page \notin Transfer!Transfers /\ None \notin Transfer!Transfers /\ None \notin Nat
  /\ FileParts \in Nat \ {0}
BY PartsAssumption DEF Transfer!TransferAssumption, Transfer!Transfers

(* What a transfer starts and ends with. *)
LEMMA BlankRecords ==
  /\ Transfer!Forgotten \in TransferObjects /\ Transfer!Gone \in TransferClients
  /\ Transfer!Process("open") \in TransferClients /\ Transfer!Old \in Contents
  /\ Transfer!Forgotten.offset = 0 /\ Transfer!Forgotten.timer = "off" /\ ~Transfer!Forgotten.present
  /\ Transfer!Gone.pc = "done" /\ ~Transfer!Gone.waiting /\ ~Transfer!Gone.failed
  /\ Transfer!Gone.opened = 0 /\ Transfer!Gone.data = <<>>
BY DEF Transfer!Forgotten, Transfer!Gone, Transfer!Process, Transfer!Old, TransferObjects, TransferClients,
       Contents, TransferPlaces, Carries

(* A client that gives up. *)
FailedClient(c) == [c EXCEPT !.pc = "cleanup", !.waiting = FALSE, !.failed = TRUE]
Accepts(e) == client[e.by].waiting /\ client[e.by].pc = e.script

LEMMA AnswerEffect ==
  ASSUME ClientTypes, NEW e \in evals, NEW ok \in BOOLEAN, NEW next \in TransferClients,
         Transfer!Answer(e, ok, next)
  PROVE  /\ client' \in [Transfer!Transfers -> TransferClients]
         /\ \A t \in Transfer!Transfers : t # e.by \/ ~Accepts(e) => client'[t] = client[t]
         /\ Accepts(e) => client'[e.by] = IF ok THEN next ELSE FailedClient(client[e.by])
<1>1. e.by \in Transfer!Transfers
  BY DEF ClientTypes, TransferEvals
<1>2. FailedClient(client[e.by]) \in TransferClients
  BY <1>1 DEF ClientTypes, TransferClients, TransferPlaces, UploadScripts, FailedClient
<1>3. client' = IF Accepts(e) THEN [client EXCEPT ![e.by] = IF ok THEN next ELSE FailedClient(@)] ELSE client
  BY DEF Transfer!Answer, Accepts, FailedClient
<1> QED  BY <1>1, <1>2, <1>3 DEF ClientTypes

LEMMA GivesUp ==
  ASSUME NEW c \in TransferClients
  PROVE  /\ FailedClient(c).pc = "cleanup" /\ FailedClient(c).failed /\ ~FailedClient(c).waiting
         /\ FailedClient(c).opened = c.opened /\ FailedClient(c).data = c.data
         /\ FailedClient(c) \in TransferClients
BY DEF FailedClient, TransferClients, TransferPlaces, UploadScripts

LEMMA GoesOn ==
  ASSUME ClientTypes, NEW e \in evals, NEW place \in TransferPlaces
  PROVE  LET next == Transfer!Then(e, place) IN
         /\ next \in TransferClients /\ next.pc = place /\ ~next.waiting /\ next.failed = client[e.by].failed
         /\ next.opened = client[e.by].opened /\ next.data = client[e.by].data
BY DEF Transfer!Then, ClientTypes, TransferClients, TransferEvals

-----------------------------------------------------------------------------
(* Patches *)

PatchRecords == [by : Transfer!Transfers \cup {Page}, active : BOOLEAN]
LastActive == \A i \in DOMAIN chain : i = Len(chain) => chain[i].active

(* A set of numbers up to a limit has a largest one, or is empty. *)
LEMMA LargestIndex ==
  ASSUME NEW limit \in Nat, NEW S \in SUBSET (1..limit)
  PROVE  LET n == CHOOSE n \in S \cup {0} : \A i \in S : i <= n IN
         n \in S \cup {0} /\ \A i \in S : i <= n
<1> DEFINE R == OpToRel(<, Nat)
           Above == {n \in Nat : \A i \in S : i <= n}
<1>0. IsWellFoundedOn(R, Nat)
  BY NatLessThanWellFounded
<1> HIDE DEF R
<1>1. Above \subseteq Nat /\ limit \in Above
  OBVIOUS
<1>2. PICK n \in Above : \A m \in Above : ~(<<m, n>> \in R)
  <2> HIDE DEF Above
  <2> QED  BY <1>0, <1>1, WFMin
<1>3. \A m \in Above : ~(m < n)
  BY <1>2 DEF OpToRel, R
<1>4. n \in S \cup {0}
  <2> SUFFICES ASSUME n \notin S, n # 0 PROVE FALSE
    OBVIOUS
  <2>1. n \in Nat /\ n - 1 \in Nat /\ n - 1 < n
    BY <1>1
  <2>2. \A i \in S : i <= n - 1
    BY <2>1
  <2>3. n - 1 \in Above
    BY <2>1, <2>2
  <2> QED  BY <1>3, <2>1, <2>3
<1>5. \E m \in S \cup {0} : \A i \in S : i <= m
  BY <1>2, <1>4
<1> QED  BY <1>5

LEMMA RestoredKeeps ==
  ASSUME PageTypes, NEW t \in Transfer!Transfers, LastActive
  PROVE  LET s == Transfer!Restored(t) IN
         /\ s \in Seq(PatchRecords)
         /\ \A i \in DOMAIN s : i = Len(s) => s[i].active
         /\ \A u \in Transfer!Transfers \cup {Page} : u # t /\ Transfer!Patched(u) =>
              \E i \in DOMAIN s : s[i] = Transfer!Patch(u)
<1>1. chain \in Seq(PatchRecords)
  BY DEF PageTypes, PatchRecords
<1>2. CASE ~Transfer!Patched(t)
  BY <1>1, <1>2 DEF Transfer!Restored, LastActive, Transfer!Patched
<1>3. CASE Transfer!Patched(t)
  <2> DEFINE off == [i \in DOMAIN chain |-> [chain[i] EXCEPT !.active = @ /\ chain[i].by # t]]
             used == {i \in DOMAIN off : off[i].active}
             n == CHOOSE n \in used \cup {0} : \A i \in used : i <= n
  <2>1. Transfer!Restored(t) = SubSeq(off, 1, n)
    BY <1>3 DEF Transfer!Restored
  <2>2. \A i \in DOMAIN chain : /\ chain[i] \in PatchRecords /\ off[i] \in PatchRecords
                                /\ chain[i].by # t => off[i] = chain[i]
    <3> TAKE i \in DOMAIN chain
    <3>1. chain[i] \in PatchRecords
      BY <1>1
    <3>2. off[i] = [chain[i] EXCEPT !.active = chain[i].active /\ chain[i].by # t]
      OBVIOUS
    <3>3. (chain[i].active /\ chain[i].by # t) \in BOOLEAN
      OBVIOUS
    <3>4. chain[i].by # t => (chain[i].active /\ chain[i].by # t) = chain[i].active
      BY <3>1, Zenon DEF PatchRecords
    <3> HIDE DEF off
    <3> QED  BY <3>1, <3>2, <3>3, <3>4 DEF PatchRecords
  <2>3. off \in Seq(PatchRecords) /\ Len(off) = Len(chain) /\ DOMAIN off = 1..Len(chain) /\ Len(chain) \in Nat
    BY <1>1, <2>2
  <2>4. used \in SUBSET (1..Len(chain))
    BY <2>3
  <2> HIDE DEF off
  <2>5. n \in used \cup {0} /\ \A i \in used : i <= n
    BY <2>3, <2>4, LargestIndex
  <2> HIDE DEF n
  <2>6. n \in 0..Len(off)
    BY <2>3, <2>4, <2>5
  <2> DEFINE s == SubSeq(off, 1, n)
  <2>7. s \in Seq(PatchRecords) /\ Len(s) = n /\ \A i \in 1..n : s[i] = off[i]
    BY <2>3, <2>6
  <2> HIDE DEF s
  <2>8. \A i \in DOMAIN s : i = Len(s) => s[i].active
    BY <2>5, <2>6, <2>7
  <2>9. ASSUME NEW u \in Transfer!Transfers \cup {Page}, u # t, Transfer!Patched(u)
        PROVE  \E i \in DOMAIN s : s[i] = Transfer!Patch(u)
    <3>1. PICK i \in DOMAIN chain : chain[i] = Transfer!Patch(u)
      BY <2>9 DEF Transfer!Patched
    <3>2. i \in DOMAIN off /\ i \in 1..Len(chain) /\ chain[i].by = u /\ chain[i].active
      BY <1>1, <2>3, <3>1 DEF Transfer!Patch
    <3>3. off[i] = chain[i]
      BY <2>2, <2>9, <3>2
    <3>4. off[i] = Transfer!Patch(u) /\ i \in used
      BY <3>1, <3>2, <3>3
    <3> QED  BY <2>5, <2>6, <2>7, <3>2, <3>4
  <2> QED  BY <2>1, <2>7, <2>8, <2>9 DEF s
<1> QED  BY <1>2, <1>3

-----------------------------------------------------------------------------
(* Types *)

(* A script is handed out, awaits in the page, or is over. *)
LEMMA EvalsTyped ==
  ASSUME ClientTypes, NEW e \in evals, Transfer!Over(e) \/ Transfer!Awaits(e)
  PROVE  /\ evals' \subseteq TransferEvals
         /\ \A f \in evals' : \E g \in evals : f.by = g.by /\ f.script = g.script /\ f.carries = g.carries
         /\ \A f \in evals' : (f \in evals /\ f # e) \/ (f.by = e.by /\ f.script = e.script)
         /\ UNCHANGED Transfer!localVars
<1>1. e \in TransferEvals
  BY DEF ClientTypes
<1>2. /\ [e EXCEPT !.running = TRUE] \in TransferEvals
      /\ [e EXCEPT !.running = TRUE].by = e.by /\ [e EXCEPT !.running = TRUE].script = e.script
      /\ [e EXCEPT !.running = TRUE].carries = e.carries
  BY <1>1 DEF TransferEvals
<1>3. CASE Transfer!Over(e)
  BY <1>3 DEF Transfer!Over, ClientTypes
<1>4. CASE Transfer!Awaits(e)
  BY <1>2, <1>4 DEF Transfer!Awaits, ClientTypes
<1> QED  BY <1>3, <1>4

LEMMA IssueTypes ==
  ASSUME TransferInv, NEW t \in Transfer!Transfers, Transfer!Issue(t)
  PROVE  ClientTypes'
<1> DEFINE new == [by |-> t, script |-> client[t].pc, carries |-> Transfer!Carried(t), running |-> FALSE]
<1>1. client[t] \in TransferClients /\ client[t].pc \in UploadScripts \cup DownloadScripts
  BY DEF TransferInv, ClientTypes, Transfer!Issue, Transfer!Scripts, UploadScripts, DownloadScripts
<1>2. Transfer!Carried(t) \in Carries /\ (client[t].pc = "chunk" => Transfer!Carried(t) \in Nat)
  <2>1. CASE client[t].pc = "chunk"
    <3>1. t \in Uploads
      BY <2>1, TransferFacts DEF TransferInv, OwnScripts, DownloadScripts
    <3>2. Len(client[t].data) < FileParts /\ Len(client[t].data) \in Nat
      BY <1>1, <2>1, <3>1 DEF TransferInv, UploadsRead, UploadRead, Transfer!Issue, TransferClients
    <3>3. Len(client[t].data) + 1 \in 1..FileParts
      BY <3>2, TransferFacts
    <3>4. source.parts[Len(client[t].data) + 1] \in Nat
      BY <3>3 DEF TransferInv, FileTypes
    <3>5. Transfer!Carried(t) = source.parts[Len(client[t].data) + 1]
      BY <2>1 DEF Transfer!Carried
    <3> QED  BY <3>4, <3>5 DEF Carries
  <2>2. CASE client[t].pc = "commit"
    BY <1>1, <2>2 DEF Transfer!Carried, Carries, TransferClients
  <2>3. CASE client[t].pc \notin {"chunk", "commit"}
    BY <2>3 DEF Transfer!Carried, Carries
  <2> QED  BY <2>1, <2>2, <2>3
<1>3. new \in TransferEvals
  BY <1>1, <1>2 DEF TransferEvals
<1>4. evals' \subseteq TransferEvals
  BY <1>3 DEF Transfer!Issue, TransferInv, ClientTypes
<1>5. (IF client[t].pc = "chunk" THEN Append(client[t].data, Transfer!Carried(t)) ELSE client[t].data) \in Seq(Nat)
  BY <1>1, <1>2, AppendProperties DEF TransferClients
<1> DEFINE data == IF client[t].pc = "chunk" THEN Append(client[t].data, Transfer!Carried(t)) ELSE client[t].data
<1>6. client' = [client EXCEPT ![t] = [client[t] EXCEPT !.waiting = TRUE, !.data = data]]
  BY <1>1 DEF Transfer!Issue, TransferInv, ClientTypes, TransferClients
<1> HIDE DEF data
<1>7. [client[t] EXCEPT !.waiting = TRUE, !.data = data] \in TransferClients
  BY <1>1, <1>5 DEF TransferClients, data
<1>8. client' \in [Transfer!Transfers -> TransferClients]
  BY <1>6, <1>7 DEF TransferInv, ClientTypes
<1> QED  BY <1>4, <1>8 DEF ClientTypes

LEMMA LocalTypes ==
  ASSUME TransferInv, NEW t \in Transfer!Transfers,
         Transfer!Open(t) \/ Transfer!TimeOut(t) \/ Transfer!Die(t) \/ Transfer!Recheck(t) \/ Transfer!Sync(t)
  PROVE  ClientTypes'
<1> USE BlankRecords DEF TransferInv, ClientTypes
<1>1. client[t] \in TransferClients
  OBVIOUS
<1>2. CASE Transfer!Open(t)
  BY <1>1, <1>2 DEF Transfer!Open, TransferClients, TransferPlaces, UploadScripts, FileTypes
<1>3. CASE Transfer!TimeOut(t)
  <2>1. Transfer!Rest(t) \in TransferClients
    BY <1>1 DEF Transfer!Rest, TransferClients, TransferPlaces
  <2>2. FailedClient(client[t]) \in TransferClients
    BY <1>1, GivesUp
  <2>3. client' = [client EXCEPT ![t] = IF @.pc = "cleanup" THEN Transfer!Rest(t) ELSE FailedClient(client[t])]
    BY <1>3 DEF Transfer!TimeOut, FailedClient
  <2>4. evals' \subseteq evals
    BY <1>3 DEF Transfer!TimeOut
  <2> QED  BY <2>1, <2>2, <2>3, <2>4
<1>4. CASE Transfer!Die(t)
  BY <1>4 DEF Transfer!Die, Transfer!Finishes
<1>5. CASE Transfer!Recheck(t)
  BY <1>1, <1>5 DEF Transfer!Recheck, TransferClients, TransferPlaces, UploadScripts
<1>6. CASE Transfer!Sync(t)
  BY <1>6 DEF Transfer!Sync, Transfer!Finishes
<1> QED  BY <1>2, <1>3, <1>4, <1>5, <1>6

-----------------------------------------------------------------------------
(* What a script does to the transfer that waits for it. *)

ScriptNext(e) ==
  CASE e.script = "capture" -> "resolve"
    [] e.script = "resolve" -> IF e.by \in Uploads THEN "target" ELSE "begin"
    [] e.script = "target" -> "chunk"
    [] e.script = "chunk" -> IF Len(client[e.by].data) < FileParts THEN "chunk" ELSE "recheck"
    [] e.script = "build" -> "commit"
    [] e.script = "begin" -> "read"
    [] OTHER -> "cleanup"

NextRead(e) == [Transfer!Then(e, "read") EXCEPT !.data = Append(@, object[e.by].offset + 1)]

ClientMoves(e) ==
  /\ \A t \in Transfer!Transfers : t # e.by \/ ~Accepts(e) => client'[t] = client[t]
  /\ Accepts(e) =>
       \/ client'[e.by] = client[e.by] /\ Transfer!Awaits(e)
       \/ /\ Transfer!Over(e) /\ e.script # "cleanup"
          /\ client'[e.by] \in {FailedClient(client[e.by]), Transfer!Then(e, ScriptNext(e))}
       \/ Transfer!ReadPart(e) /\ client'[e.by] = NextRead(e)
       \/ e.script = "cleanup" /\ client'[e.by] = Transfer!Rest(e.by) /\ Transfer!Over(e)

LEMMA ScriptTyped ==
  ASSUME TransferInv, NEW e \in evals
  PROVE  /\ e \in TransferEvals /\ e.by \in Transfer!Transfers
         /\ ScriptNext(e) \in TransferPlaces
         /\ object[e.by] \in TransferObjects /\ client[e.by] \in TransferClients
         /\ Transfer!Rest(e.by) \in TransferClients
<1>1. e \in TransferEvals /\ e.by \in Transfer!Transfers
  BY DEF TransferInv, ClientTypes, TransferEvals
<1>2. object[e.by] \in TransferObjects /\ client[e.by] \in TransferClients
  BY <1>1 DEF TransferInv, PageTypes, ClientTypes
<1>3. ScriptNext(e) \in TransferPlaces
  BY DEF ScriptNext, TransferPlaces, UploadScripts, DownloadScripts
<1>4. Transfer!Rest(e.by) \in TransferClients
  BY <1>2, BlankRecords DEF Transfer!Rest, TransferClients, TransferPlaces
<1> QED  BY <1>1, <1>2, <1>3, <1>4

LEMMA ThenMoves ==
  ASSUME TransferInv, NEW e \in evals, NEW ok \in BOOLEAN, Transfer!Over(e), e.script # "cleanup",
         Transfer!Answer(e, ok, Transfer!Then(e, ScriptNext(e)))
  PROVE  client' \in [Transfer!Transfers -> TransferClients] /\ ClientMoves(e)
<1>1. Transfer!Then(e, ScriptNext(e)) \in TransferClients
  BY ScriptTyped, GoesOn DEF TransferInv
<1> QED  BY <1>1, AnswerEffect DEF ClientMoves, TransferInv

LEMMA StaysMoved ==
  ASSUME TransferInv, NEW e \in evals, Transfer!Awaits(e), client' = client
  PROVE  client' \in [Transfer!Transfers -> TransferClients] /\ ClientMoves(e)
BY DEF ClientMoves, TransferInv, ClientTypes

LEMMA ScriptMoves ==
  ASSUME TransferInv, NEW e \in evals, Transfer!Evaluate(e)
  PROVE  ClientTypes' /\ ClientMoves(e) /\ (Transfer!Over(e) \/ Transfer!Awaits(e))
<1>0. Transfer!Over(e) \/ Transfer!Awaits(e)
  BY DEF Transfer!Evaluate, Transfer!Capture, Transfer!Resolve, Transfer!Cleanup, Transfer!Target, Transfer!Chunk,
         Transfer!Build, Transfer!BeginCommit, Transfer!FinishCommit, Transfer!Begin, Transfer!Respond,
         Transfer!BeginRead, Transfer!ReadPart, Transfer!ReadEnd
<1>o. object[e.by].present \in BOOLEAN /\ object[e.by].captured \in BOOLEAN
  BY ScriptTyped DEF TransferObjects
<1> SUFFICES client' \in [Transfer!Transfers -> TransferClients] /\ ClientMoves(e)
  BY <1>0, EvalsTyped DEF ClientTypes, TransferInv
<1> USE DEF Transfer!Handed, Transfer!Runs
<1>1. CASE Transfer!Capture(e)
  BY <1>1, ThenMoves DEF Transfer!Capture, ScriptNext
<1>2. CASE Transfer!Resolve(e)
  BY <1>2, ThenMoves DEF Transfer!Resolve, ScriptNext, Transfer!Patched
<1>3. CASE Transfer!Cleanup(e)
  BY <1>3, ScriptTyped, AnswerEffect DEF Transfer!Cleanup, ClientMoves, TransferInv
<1>4. CASE Transfer!Target(e)
  BY <1>4, <1>o, ThenMoves DEF Transfer!Target, ScriptNext
<1>5. CASE Transfer!Chunk(e)
  BY <1>5, <1>o, ThenMoves DEF Transfer!Chunk, ScriptNext
<1>6. CASE Transfer!Build(e)
  BY <1>6, <1>o, ThenMoves DEF Transfer!Build, ScriptNext
<1>7. CASE Transfer!BeginCommit(e)
  BY <1>7, ThenMoves, StaysMoved DEF Transfer!BeginCommit, ScriptNext
<1>8. CASE Transfer!FinishCommit(e)
  BY <1>8, ThenMoves DEF Transfer!FinishCommit, ScriptNext
<1>9. CASE Transfer!Begin(e)
  BY <1>9, ThenMoves, StaysMoved DEF Transfer!Begin, ScriptNext
<1>10. CASE Transfer!Respond(e)
  BY <1>10, ThenMoves DEF Transfer!Respond, ScriptNext
<1>11. CASE Transfer!BeginRead(e)
  BY <1>11, ThenMoves, StaysMoved DEF Transfer!BeginRead, ScriptNext
<1>12. CASE Transfer!ReadPart(e)
  <2>1. NextRead(e) \in TransferClients
    <3>1. Transfer!Then(e, "read") \in TransferClients /\ object[e.by].offset + 1 \in Nat
      BY ScriptTyped, GoesOn DEF TransferInv, TransferObjects, TransferPlaces, DownloadScripts
    <3>2. Append(Transfer!Then(e, "read").data, object[e.by].offset + 1) \in Seq(Nat)
      BY <3>1, AppendProperties DEF TransferClients
    <3> HIDE DEF Transfer!Then
    <3> QED  BY <3>1, <3>2 DEF NextRead, TransferClients
  <2>2. Transfer!Answer(e, TRUE, NextRead(e))
    BY <1>12 DEF Transfer!ReadPart, NextRead
  <2> QED  BY <1>12, <2>1, <2>2, AnswerEffect DEF ClientMoves, TransferInv
<1>13. CASE Transfer!ReadEnd(e)
  <2>1. Transfer!Over(e) /\ e.script = "read"
    BY <1>13 DEF Transfer!ReadEnd
  <2>2. PICK ok \in BOOLEAN : Transfer!Answer(e, ok, Transfer!Then(e, "cleanup"))
    <3>1. CASE response[e.by].stream = "open"
      <4>1. PICK announced \in BOOLEAN :
              Transfer!Answer(e, announced => object[e.by].offset = FileParts, Transfer!Then(e, "cleanup"))
        BY <1>13, <3>1 DEF Transfer!ReadEnd
      <4>2. (announced => object[e.by].offset = FileParts) \in BOOLEAN
        OBVIOUS
      <4> QED  BY <4>1, <4>2
    <3>2. CASE response[e.by].stream # "open"
      BY <1>13, <3>2 DEF Transfer!ReadEnd
    <3> QED  BY <3>1, <3>2
  <2> QED  BY <2>1, <2>2, ThenMoves DEF ScriptNext
<1> QED
  BY <1>1, <1>2, <1>3, <1>4, <1>5, <1>6, <1>7, <1>8, <1>9, <1>10, <1>11, <1>12, <1>13 DEF Transfer!Evaluate

-----------------------------------------------------------------------------
(* The patches of the page stay as their users need them. *)

PatchesHold == PageTypes /\ Transfer!PatchesKept

LEMMA PatchTakenBack ==
  ASSUME PatchesHold, NEW t \in Transfer!Transfers, chain' = Transfer!Restored(t),
         object' \in [Transfer!Transfers -> TransferObjects], response' \in [Downloads -> Responses],
         object'[t].timer # "capture", wrapped' = wrapped,
         \A u \in Transfer!Transfers : u # t => object'[u].timer = object[u].timer
  PROVE  PatchesHold'
<1>1. LastActive
  BY DEF PatchesHold, Transfer!PatchesKept, LastActive
<1>2. /\ chain' \in Seq(PatchRecords)
      /\ \A i \in DOMAIN chain' : i = Len(chain') => chain'[i].active
      /\ \A u \in Transfer!Transfers \cup {Page} : u # t /\ Transfer!Patched(u) =>
           \E i \in DOMAIN chain' : chain'[i] = Transfer!Patch(u)
  BY <1>1, RestoredKeeps DEF PatchesHold
<1>3. \A u \in Transfer!Transfers : object'[u].timer = "capture" => \E i \in DOMAIN chain' : chain'[i] = Transfer!Patch(u)
  BY <1>2 DEF PatchesHold, Transfer!PatchesKept
<1>4. PageTypes'
  BY <1>2 DEF PageTypes, PatchRecords
<1>5. wrapped' => \E i \in DOMAIN chain' : chain'[i] = Transfer!Patch(Page)
  BY <1>2, TransferFacts DEF PatchesHold, Transfer!PatchesKept
<1> QED  BY <1>2, <1>3, <1>4, <1>5 DEF PatchesHold, Transfer!PatchesKept, Transfer!Patched, Transfer!Patch

LEMMA PatchesLeft ==
  ASSUME PatchesHold, chain' = chain, wrapped' = wrapped,
         object' \in [Transfer!Transfers -> TransferObjects], response' \in [Downloads -> Responses],
         \A u \in Transfer!Transfers : object'[u].timer = "capture" => object[u].timer = "capture"
  PROVE  PatchesHold'
BY DEF PatchesHold, PageTypes, Transfer!PatchesKept, Transfer!Patched, Transfer!Patch

LEMMA PatchesRest == ASSUME PatchesHold, UNCHANGED <<chain, object, response, wrapped>> PROVE PatchesHold'
BY DEF PatchesHold, PageTypes, Transfer!PatchesKept, Transfer!Patched, Transfer!Patch

LEMMA PatchPut ==
  ASSUME PatchesHold, NEW t \in Transfer!Transfers \cup {Page}, chain' = Append(chain, Transfer!Patch(t)),
         object' \in [Transfer!Transfers -> TransferObjects], UNCHANGED response, wrapped' => wrapped \/ t = Page,
         \A u \in Transfer!Transfers : u # t => object'[u].timer = object[u].timer
  PROVE  PatchesHold'
<1>1. chain \in Seq(PatchRecords) /\ Transfer!Patch(t) \in PatchRecords /\ Transfer!Patch(t).active
  BY DEF PatchesHold, PageTypes, PatchRecords, Transfer!Patch
<1>2. /\ chain' \in Seq(PatchRecords) /\ Len(chain') = Len(chain) + 1 /\ chain'[Len(chain')] = Transfer!Patch(t)
      /\ \A i \in DOMAIN chain : i \in DOMAIN chain' /\ chain'[i] = chain[i]
      /\ Len(chain') \in DOMAIN chain'
  BY <1>1, AppendProperties
<1>3. \A u \in Transfer!Transfers : object'[u].timer = "capture" => \E i \in DOMAIN chain' : chain'[i] = Transfer!Patch(u)
  BY <1>2 DEF PatchesHold, Transfer!PatchesKept, Transfer!Patched
<1>4. PageTypes'
  BY <1>2 DEF PatchesHold, PageTypes, PatchRecords
<1>5. \A i \in DOMAIN chain' : i = Len(chain') => chain'[i].active
  BY <1>1, <1>2
<1>6. wrapped' => \E i \in DOMAIN chain' : chain'[i] = Transfer!Patch(Page)
  BY <1>2 DEF PatchesHold, Transfer!PatchesKept, Transfer!Patched
<1> QED  BY <1>3, <1>4, <1>5, <1>6 DEF PatchesHold, Transfer!PatchesKept, Transfer!Patched, Transfer!Patch

(* The stream of a transfer is aborted with its patch. *)
LEMMA AbortedTyped ==
  ASSUME PageTypes, NEW t \in Transfer!Transfers
  PROVE  /\ Transfer!Aborted(t) \in [Downloads -> Responses]
         /\ \A d \in Downloads : /\ Transfer!Aborted(t)[d].end = response[d].end
                                 /\ d # t => Transfer!Aborted(t)[d] = response[d]
                                 /\ Transfer!Aborted(t)[d].stream = "open" => response[d].stream = "open" /\ d # t
BY DEF PageTypes, Responses, Transfer!Aborted

LEMMA ScriptPatches ==
  ASSUME TransferInv, NEW e \in evals, Transfer!Evaluate(e)
  PROVE  PatchesHold'
<1> USE DEF Transfer!Handed, Transfer!Runs
<1>t. PatchesHold /\ e.by \in Transfer!Transfers /\ e \in TransferEvals /\ PageTypes
  BY ScriptTyped DEF PatchesHold, TransferInv
<1>o. object[e.by] \in TransferObjects /\ object \in [Transfer!Transfers -> TransferObjects]
      /\ response \in [Downloads -> Responses]
  BY ScriptTyped, <1>t DEF PageTypes
<1>s. e.script \in {"begin", "read"} => e.by \in Downloads
  BY <1>t, TransferFacts DEF TransferInv, OwnScripts, UploadScripts
<1>w. UNCHANGED wrapped
  BY DEF Transfer!Evaluate, Transfer!Capture, Transfer!Resolve, Transfer!Cleanup, Transfer!Target, Transfer!Chunk,
         Transfer!Build, Transfer!BeginCommit, Transfer!FinishCommit, Transfer!Begin, Transfer!Respond,
         Transfer!BeginRead, Transfer!ReadPart, Transfer!ReadEnd, Transfer!Over, Transfer!Awaits, Transfer!pageVars
<1>1. CASE Transfer!Capture(e)
  <2>1. [Transfer!Forgotten EXCEPT !.present = TRUE, !.timer = "capture"] \in TransferObjects
    BY BlankRecords DEF TransferObjects
  <2>2. object' \in [Transfer!Transfers -> TransferObjects]
        /\ \A u \in Transfer!Transfers : u # e.by => object'[u] = object[u]
    BY <1>1, <1>t, <1>o, <2>1 DEF Transfer!Capture
  <2>3. chain' = Append(chain, Transfer!Patch(e.by)) /\ response' = response
    BY <1>1 DEF Transfer!Capture
  <2> QED  BY <1>t, <1>w, <2>2, <2>3, PatchPut
<1>2. CASE Transfer!Resolve(e)
  <2>1. Transfer!Patched(e.by) \in BOOLEAN
    BY DEF Transfer!Patched
  <2>2. (object[e.by].captured \/ Transfer!Patched(e.by)) \in BOOLEAN
    BY <2>1
  <2>3. object' = [object EXCEPT ![e.by] = [object[e.by] EXCEPT !.captured = object[e.by].captured \/ Transfer!Patched(e.by)]]
    BY <1>2, <1>o DEF Transfer!Resolve, TransferObjects
  <2>4. [object[e.by] EXCEPT !.captured = object[e.by].captured \/ Transfer!Patched(e.by)] \in TransferObjects
        /\ [object[e.by] EXCEPT !.captured = object[e.by].captured \/ Transfer!Patched(e.by)].timer = object[e.by].timer
    BY <1>o, <2>2 DEF TransferObjects
  <2>5. chain' = chain /\ response' = response
    BY <1>2 DEF Transfer!Resolve
  <2> QED  BY <1>t, <1>w, <1>o, <2>3, <2>4, <2>5, PatchesLeft
<1>3. CASE Transfer!Cleanup(e)
  <2>1. CASE object[e.by].present
    <3>1. chain' = Transfer!Restored(e.by) /\ response' = Transfer!Aborted(e.by)
          /\ object' = [object EXCEPT ![e.by] = Transfer!Forgotten]
      BY <1>3, <2>1 DEF Transfer!Cleanup
    <3> QED  BY <1>t, <1>w, <1>o, <3>1, PatchTakenBack, AbortedTyped, BlankRecords
  <2>2. CASE ~object[e.by].present
    BY <1>3, <1>t, <1>w, <2>2, PatchesRest DEF Transfer!Cleanup
  <2> QED  BY <2>1, <2>2
<1>4. CASE Transfer!Target(e)
  <2>1. CASE object[e.by].present
    <3>1. chain' = Transfer!Restored(e.by) /\ response' = response /\ object' = [object EXCEPT ![e.by].timer = "off"]
      BY <1>4, <2>1 DEF Transfer!Target
    <3>2. object' \in [Transfer!Transfers -> TransferObjects] /\ object'[e.by].timer = "off"
          /\ \A u \in Transfer!Transfers : u # e.by => object'[u] = object[u]
      BY <1>t, <1>o, <3>1 DEF TransferObjects
    <3> QED  BY <1>t, <1>w, <1>o, <3>1, <3>2, PatchTakenBack
  <2>2. CASE ~object[e.by].present
    BY <1>4, <1>t, <1>w, <2>2, PatchesRest DEF Transfer!Target
  <2> QED  BY <2>1, <2>2
<1>5. CASE Transfer!Chunk(e)
  <2>1. CASE object[e.by].present
    <3>1. object' = [object EXCEPT ![e.by].chunks = Append(@, e.carries)] /\ UNCHANGED <<chain, response>>
      BY <1>5, <2>1 DEF Transfer!Chunk
    <3>2. Append(object[e.by].chunks, e.carries) \in Seq(Carries)
      BY <1>t, <1>o, AppendProperties DEF TransferObjects, TransferEvals
    <3>3. object' \in [Transfer!Transfers -> TransferObjects]
          /\ \A u \in Transfer!Transfers : object'[u].timer = object[u].timer
      BY <1>t, <1>o, <3>1, <3>2 DEF TransferObjects
    <3> QED  BY <1>t, <1>w, <1>o, <3>1, <3>3, PatchesLeft
  <2>2. CASE ~object[e.by].present
    BY <1>5, <1>t, <1>w, <2>2, PatchesRest DEF Transfer!Chunk
  <2> QED  BY <2>1, <2>2
<1>6. CASE Transfer!Build(e)
  <2>1. CASE object[e.by].present
    <3>1. object' = [object EXCEPT ![e.by].file = object[e.by].chunks, ![e.by].chunks = <<>>] /\ UNCHANGED <<chain, response>>
      BY <1>6, <2>1 DEF Transfer!Build
    <3>2. <<>> \in Seq(Carries)
      OBVIOUS
    <3>3. object' \in [Transfer!Transfers -> TransferObjects]
          /\ \A u \in Transfer!Transfers : object'[u].timer = object[u].timer
      BY <1>t, <1>o, <3>1, <3>2 DEF TransferObjects
    <3> QED  BY <1>t, <1>w, <1>o, <3>1, <3>3, PatchesLeft
  <2>2. CASE ~object[e.by].present
    BY <1>6, <1>t, <1>w, <2>2, PatchesRest DEF Transfer!Build
  <2> QED  BY <2>1, <2>2
<1>7. CASE Transfer!BeginCommit(e) \/ Transfer!BeginRead(e)
  BY <1>7, <1>t, <1>w, PatchesRest DEF Transfer!BeginCommit, Transfer!BeginRead, Transfer!pageVars
<1>8. CASE Transfer!FinishCommit(e)
  <2>1. object' = [object EXCEPT ![e.by] = Transfer!Forgotten] /\ chain' = chain /\ response' = response
    BY <1>8 DEF Transfer!FinishCommit
  <2> QED  BY <1>t, <1>w, <1>o, <2>1, BlankRecords, PatchesLeft
<1>9. CASE Transfer!Begin(e)
  <2>r. [response EXCEPT ![e.by].stream = "requested"] \in [Downloads -> Responses]
    BY <1>o, <1>s, <1>9 DEF Transfer!Begin, Responses
  <2>1. CASE object[e.by].present
    <3>1. chain' = Transfer!Restored(e.by) /\ response' \in [Downloads -> Responses]
          /\ \E timer \in {"off", "transfer"} : object' = [object EXCEPT ![e.by].timer = timer]
      BY <1>9, <1>o, <2>1, <2>r DEF Transfer!Begin
    <3>2. object' \in [Transfer!Transfers -> TransferObjects] /\ object'[e.by].timer \in {"off", "transfer"}
          /\ \A u \in Transfer!Transfers : u # e.by => object'[u] = object[u]
      <4>1. PICK timer \in {"off", "transfer"} : object' = [object EXCEPT ![e.by].timer = timer]
        BY <3>1
      <4>2. [object[e.by] EXCEPT !.timer = timer] \in TransferObjects
            /\ [object[e.by] EXCEPT !.timer = timer].timer = timer
        BY <1>o DEF TransferObjects
      <4>3. object' = [object EXCEPT ![e.by] = [object[e.by] EXCEPT !.timer = timer]]
        BY <1>o, <4>1
      <4> QED  BY <1>t, <1>o, <4>2, <4>3
    <3> QED  BY <1>t, <1>w, <3>1, <3>2, PatchTakenBack
  <2>2. CASE ~object[e.by].present
    BY <1>9, <1>t, <1>w, <2>2, PatchesRest DEF Transfer!Begin
  <2> QED  BY <2>1, <2>2
<1>10. CASE Transfer!Respond(e)
  <2>1. response' \in [Downloads -> Responses]
    BY <1>10, <1>o, <1>s DEF Transfer!Respond, Responses
  <2>2. chain' = chain /\ object' = object
    BY <1>10 DEF Transfer!Respond
  <2> QED  BY <1>t, <1>w, <1>o, <2>1, <2>2, PatchesLeft
<1>11. CASE Transfer!ReadPart(e)
  <2>1. object' = [object EXCEPT ![e.by].offset = @ + 1] /\ chain' = chain /\ response' = response
    BY <1>11 DEF Transfer!ReadPart
  <2>2. object' \in [Transfer!Transfers -> TransferObjects]
        /\ \A u \in Transfer!Transfers : object'[u].timer = object[u].timer
    <3>1. object[e.by].offset + 1 \in Nat
      BY <1>o DEF TransferObjects
    <3>2. [object[e.by] EXCEPT !.offset = object[e.by].offset + 1] \in TransferObjects
          /\ [object[e.by] EXCEPT !.offset = object[e.by].offset + 1].timer = object[e.by].timer
      BY <1>o, <3>1 DEF TransferObjects
    <3>3. object' = [object EXCEPT ![e.by] = [object[e.by] EXCEPT !.offset = object[e.by].offset + 1]]
      BY <1>o, <2>1
    <3> QED  BY <1>t, <1>o, <3>2, <3>3
  <2> QED  BY <1>t, <1>w, <1>o, <2>1, <2>2, PatchesLeft
<1>12. CASE Transfer!ReadEnd(e)
  <2>1. response' \in [Downloads -> Responses] /\ chain' = chain /\ object' = object
    <3>1. CASE response[e.by].stream = "open"
      <4>1. PICK announced \in BOOLEAN :
              response' = [response EXCEPT ![e.by].end = [at |-> object[e.by].offset, announced |-> announced]]
        BY <1>12, <3>1 DEF Transfer!ReadEnd
      <4>2. [at |-> object[e.by].offset, announced |-> announced] \in BodyEnds
        BY <1>o DEF TransferObjects, BodyEnds
      <4>3. e.by \in Downloads
        BY <1>s, <1>12 DEF Transfer!ReadEnd
      <4> QED  BY <1>12, <1>o, <4>1, <4>2, <4>3 DEF Transfer!ReadEnd, Responses
    <3>2. CASE response[e.by].stream # "open"
      BY <1>12, <1>o, <3>2 DEF Transfer!ReadEnd
    <3> QED  BY <3>1, <3>2
  <2> QED  BY <1>t, <1>w, <1>o, <2>1, PatchesLeft
<1> QED
  BY <1>1, <1>2, <1>3, <1>4, <1>5, <1>6, <1>7, <1>8, <1>9, <1>10, <1>11, <1>12 DEF Transfer!Evaluate

LEMMA OtherPatches ==
  ASSUME TransferInv,
         \/ \E t \in Transfer!Transfers : Transfer!Local(t) \/ Transfer!TimerFires(t)
         \/ \E i \in 1..FileParts : Transfer!Write(i)
         \/ Transfer!PageWraps \/ Transfer!Navigate \/ Transfer!PowerLoss
  PROVE  PatchesHold'
<1>t. PatchesHold /\ PageTypes /\ object \in [Transfer!Transfers -> TransferObjects]
      /\ response \in [Downloads -> Responses]
  BY DEF PatchesHold, TransferInv, PageTypes
<1>1. ASSUME NEW t \in Transfer!Transfers, Transfer!Local(t) PROVE PatchesHold'
  <2>1. UNCHANGED <<chain, object, response, wrapped>>
    BY <1>1 DEF Transfer!Local, Transfer!Open, Transfer!Issue, Transfer!TimeOut, Transfer!Die, Transfer!Recheck,
                Transfer!Sync, Transfer!pageVars
  <2> QED  BY <1>t, <2>1, PatchesRest
<1>2. ASSUME NEW t \in Transfer!Transfers, Transfer!TimerFires(t) PROVE PatchesHold'
  <2>1. chain' = Transfer!Restored(t) /\ response' = Transfer!Aborted(t)
        /\ object' = [object EXCEPT ![t] = Transfer!Forgotten] /\ wrapped' = wrapped
    BY <1>2 DEF Transfer!TimerFires
  <2> QED  BY <1>t, <2>1, PatchTakenBack, AbortedTyped, BlankRecords
<1>3. CASE (\E i \in 1..FileParts : Transfer!Write(i)) \/ Transfer!PowerLoss
  BY <1>3, <1>t, PatchesRest DEF Transfer!Write, Transfer!PowerLoss, Transfer!pageVars
<1>4. CASE Transfer!PageWraps
  BY <1>4, <1>t, PatchPut DEF Transfer!PageWraps
<1>5. CASE Transfer!Navigate
  <2>1. object' \in [Transfer!Transfers -> TransferObjects] /\ response' \in [Downloads -> Responses]
        /\ \A u \in Transfer!Transfers : object'[u].timer = "off"
    BY <1>5, <1>t, BlankRecords DEF Transfer!Navigate, Responses
  <2>2. chain' = <<>> /\ wrapped' = FALSE
    BY <1>5 DEF Transfer!Navigate
  <2> QED  BY <2>1, <2>2 DEF PatchesHold, PageTypes, Transfer!PatchesKept
<1> QED  BY <1>1, <1>2, <1>3, <1>4, <1>5

-----------------------------------------------------------------------------
(* Each kind of transfer runs its own scripts. *)

LEMMA ScriptOwn ==
  ASSUME TransferInv, NEW e \in evals, Transfer!Evaluate(e)
  PROVE  OwnScripts'
<1>1. ClientMoves(e) /\ \A f \in evals' : \E g \in evals : f.by = g.by /\ f.script = g.script
  BY ScriptMoves, EvalsTyped DEF TransferInv
<1>2. \A f \in evals' : f.script \in (IF f.by \in Uploads THEN UploadScripts ELSE DownloadScripts)
  BY <1>1 DEF TransferInv, OwnScripts
<1>t. e.by \in Transfer!Transfers /\ client[e.by] \in TransferClients
  BY ScriptTyped
<1>3. ASSUME NEW t \in Transfer!Transfers
      PROVE  client'[t].pc \in (IF t \in Uploads THEN UploadScripts \cup {"open", "recheck", "done"}
                                ELSE DownloadScripts \cup {"open", "sync", "done"})
  <2>1. CASE client'[t] = client[t]
    BY <2>1, TransferFacts DEF TransferInv, OwnScripts
  <2>2. CASE client'[t] = FailedClient(client[t]) /\ t = e.by
    BY <2>2, <1>t, GivesUp DEF UploadScripts, DownloadScripts
  <2>3. CASE client'[t] = Transfer!Then(e, ScriptNext(e)) /\ t = e.by /\ e.script # "cleanup"
    <3>1. client'[t].pc = ScriptNext(e)
      BY <2>3, GoesOn, ScriptTyped DEF TransferInv
    <3>2. e.script \in (IF t \in Uploads THEN UploadScripts ELSE DownloadScripts)
      BY <2>3 DEF TransferInv, OwnScripts
    <3> QED  BY <2>3, <3>1, <3>2 DEF ScriptNext, UploadScripts, DownloadScripts
  <2>4. CASE client'[t] = NextRead(e) /\ t = e.by /\ Transfer!ReadPart(e)
    <3>1. client'[t].pc = "read"
      <4>1. Transfer!Then(e, "read") \in TransferClients /\ Transfer!Then(e, "read").pc = "read"
        BY GoesOn DEF TransferInv, TransferPlaces, DownloadScripts
      <4> HIDE DEF Transfer!Then
      <4> QED  BY <2>4, <4>1 DEF NextRead, TransferClients
    <3>2. t \notin Uploads
      BY <2>4 DEF TransferInv, OwnScripts, UploadScripts, Transfer!ReadPart, Transfer!Runs
    <3> QED  BY <3>1, <3>2 DEF DownloadScripts
  <2>5. CASE client'[t] = Transfer!Rest(e.by) /\ t = e.by
    BY <2>5, <1>t, TransferFacts, BlankRecords DEF Transfer!Rest, TransferClients
  <2> QED  BY <1>1, <2>1, <2>2, <2>3, <2>4, <2>5 DEF ClientMoves, Transfer!Over
<1> QED  BY <1>2, <1>3, TransferFacts DEF OwnScripts

LEMMA LocalOwn ==
  ASSUME TransferInv, NEW t \in Transfer!Transfers, Transfer!Local(t)
  PROVE  OwnScripts'
<1>t. client \in [Transfer!Transfers -> TransferClients] /\ OwnScripts
  BY DEF TransferInv, ClientTypes
<1>1. CASE Transfer!Issue(t)
  <2>1. \A u \in Transfer!Transfers : client'[u].pc = client[u].pc
    BY <1>1, <1>t DEF Transfer!Issue, TransferClients
  <2>2. ASSUME NEW e \in evals' PROVE e \in evals \/ (e.by = t /\ e.script = client[t].pc)
    BY <1>1 DEF Transfer!Issue
  <2>3. client[t].pc \in Transfer!Scripts
    BY <1>1 DEF Transfer!Issue
  <2>4. client[t].pc \in (IF t \in Uploads THEN UploadScripts ELSE DownloadScripts)
    BY <2>3, <1>t, TransferFacts DEF OwnScripts, Transfer!Scripts
  <2> QED  BY <1>t, <2>1, <2>2, <2>4, TransferFacts DEF OwnScripts
<1>2. CASE ~Transfer!Issue(t)
  <2>1. evals' \subseteq evals
    BY <1>2 DEF Transfer!Local, Transfer!Open, Transfer!TimeOut, Transfer!Die, Transfer!Recheck, Transfer!Sync
  <2>2. \A u \in Transfer!Transfers : u # t => client'[u] = client[u]
    BY <1>2, <1>t DEF Transfer!Local, Transfer!Open, Transfer!TimeOut, Transfer!Die, Transfer!Recheck, Transfer!Sync,
                      Transfer!Finishes
  <2>3. \/ client'[t].pc \in {"capture", "cleanup", "done"}
        \/ client'[t].pc = "build" /\ client[t].pc = "recheck"
        \/ client'[t].pc = "sync" /\ t \in Downloads
    <3>1. CASE Transfer!Open(t)
      BY <3>1, <1>t DEF Transfer!Open, TransferClients
    <3>2. CASE Transfer!TimeOut(t)
      BY <3>2, <1>t, BlankRecords DEF Transfer!TimeOut, Transfer!Rest, TransferClients
    <3>3. CASE Transfer!Die(t) \/ Transfer!Sync(t)
      BY <3>3, <1>t, BlankRecords DEF Transfer!Die, Transfer!Sync, Transfer!Finishes
    <3>4. CASE Transfer!Recheck(t)
      BY <3>4, <1>t DEF Transfer!Recheck, Transfer!At, TransferClients
    <3> QED  BY <1>2, <3>1, <3>2, <3>3, <3>4 DEF Transfer!Local
  <2> QED  BY <1>t, <2>1, <2>2, <2>3, TransferFacts DEF OwnScripts, UploadScripts, DownloadScripts
<1> QED  BY <1>1, <1>2

-----------------------------------------------------------------------------
(* Uploads *)

LEMMA UploadUnchanged ==
  ASSUME NEW t, UploadRead(t), client'[t] = client[t], source' = source, versions' = versions
  PROVE  UploadRead(t)'
BY DEF UploadRead

LEMMA UploadStopped ==
  ASSUME FileTypes, NEW t, UploadRead(t), source' = source,
         client'[t].pc \in {"cleanup", "done"}, client'[t].opened \in {client[t].opened, 0}
  PROVE  UploadRead(t)'
BY DEF UploadRead, FileTypes

LEMMA ScriptUpload ==
  ASSUME TransferInv, NEW e \in evals, Transfer!Evaluate(e), NEW t \in Uploads
  PROVE  UploadRead(t)'
<1>1. ClientMoves(e) /\ source' = source /\ versions' = versions
  BY ScriptMoves, EvalsTyped DEF TransferInv, Transfer!localVars
<1>t. t \in Transfer!Transfers /\ t \notin Downloads /\ UploadRead(t) /\ FileTypes /\ client[t] \in TransferClients
  BY TransferFacts DEF TransferInv, UploadsRead, ClientTypes
<1>2. CASE client'[t] = client[t]
  BY <1>1, <1>2, <1>t, UploadUnchanged
<1>3. CASE client'[t] = FailedClient(client[t])
  BY <1>1, <1>3, <1>t, GivesUp, UploadStopped
<1>4. CASE client'[t] = Transfer!Then(e, ScriptNext(e)) /\ t = e.by /\ Accepts(e)
  <2>1. /\ client'[t].pc = ScriptNext(e) /\ ~client'[t].waiting
        /\ client'[t].opened = client[t].opened /\ client'[t].data = client[t].data
        /\ client[t].pc = e.script
    BY <1>4, GoesOn, ScriptTyped DEF TransferInv, Accepts
  <2>2. Len(client[t].data) \in Nat /\ FileParts \in Nat /\ FileParts > 0
    BY <1>t, TransferFacts DEF TransferClients
  <2>3. CASE e.script \in {"capture", "resolve"}
    BY <1>1, <1>4, <1>t, <2>1, <2>3 DEF UploadRead, ScriptNext
  <2>4. CASE e.script = "target"
    BY <1>1, <1>t, <2>1, <2>2, <2>4 DEF UploadRead, ScriptNext
  <2>5. CASE e.script = "chunk"
    BY <1>1, <1>4, <1>t, <2>1, <2>2, <2>5 DEF UploadRead, ScriptNext
  <2>6. CASE e.script = "build"
    BY <1>1, <1>t, <2>1, <2>6 DEF UploadRead, ScriptNext
  <2>7. CASE e.script \in {"commit", "cleanup"}
    <3>1. client'[t].pc = "cleanup"
      BY <2>1, <2>7 DEF ScriptNext
    <3> QED  BY <1>1, <1>t, <2>1, <3>1, UploadStopped
  <2>8. e.script \in UploadScripts
    BY <1>4 DEF TransferInv, OwnScripts
  <2> QED  BY <2>3, <2>4, <2>5, <2>6, <2>7, <2>8 DEF UploadScripts
<1>5. CASE client'[t] = Transfer!Rest(e.by) /\ t = e.by
  BY <1>1, <1>5, <1>t, BlankRecords, UploadStopped DEF Transfer!Rest
<1>6. ~(Transfer!ReadPart(e) /\ t = e.by)
  BY DEF TransferInv, OwnScripts, UploadScripts, Transfer!ReadPart, Transfer!Runs
<1> QED  BY <1>1, <1>t, <1>2, <1>3, <1>4, <1>5, <1>6 DEF ClientMoves

LEMMA ScriptInput ==
  ASSUME TransferInv, NEW e \in evals, Transfer!Evaluate(e)
  PROVE  /\ FileTypes' /\ source'.parts \in versions' /\ Transfer!OneVersionUploaded'
         /\ \A f \in evals' : f.script = "commit" => f.carries \in versions'
<1>1. /\ UNCHANGED <<source, versions, dest, disk>>
      /\ \A f \in evals' : \E g \in evals : f.by = g.by /\ f.script = g.script /\ f.carries = g.carries
  BY ScriptMoves, EvalsTyped DEF TransferInv, Transfer!localVars
<1>2. input' = input \/ (e.script = "commit" /\ input' = e.carries)
  BY DEF Transfer!Evaluate, Transfer!Capture, Transfer!Resolve, Transfer!Cleanup, Transfer!Target, Transfer!Chunk,
         Transfer!Build, Transfer!BeginCommit, Transfer!FinishCommit, Transfer!Begin, Transfer!Respond,
         Transfer!BeginRead, Transfer!ReadPart, Transfer!ReadEnd, Transfer!pageVars, Transfer!Runs
<1>3. FileTypes'
  BY <1>1 DEF TransferInv, FileTypes
<1> QED  BY <1>1, <1>2, <1>3 DEF TransferInv, UploadsRead, Transfer!OneVersionUploaded

LEMMA ScriptUploads ==
  ASSUME TransferInv, NEW e \in evals, Transfer!Evaluate(e)
  PROVE  UploadsRead' /\ FileTypes'
BY ScriptUpload, ScriptInput DEF UploadsRead

(* The process of an upload reads the file. *)
LEMMA LocalUpload ==
  ASSUME TransferInv, NEW t \in Transfer!Transfers, Transfer!Local(t), NEW u \in Uploads
  PROVE  UploadRead(u)'
<1>1. source' = source /\ versions' = versions
  BY DEF Transfer!Local, Transfer!Open, Transfer!Issue, Transfer!TimeOut, Transfer!Die, Transfer!Recheck,
         Transfer!Sync, Transfer!localVars
<1>t. /\ client \in [Transfer!Transfers -> TransferClients] /\ client[t] \in TransferClients
      /\ u \in Transfer!Transfers /\ u \notin Downloads /\ UploadRead(u) /\ FileTypes
  BY TransferFacts DEF TransferInv, UploadsRead, ClientTypes
<1>2. CASE u # t
  <2>1. client'[u] = client[u]
    BY <1>2, <1>t DEF Transfer!Local, Transfer!Open, Transfer!Issue, Transfer!TimeOut, Transfer!Die, Transfer!Recheck,
                      Transfer!Sync, Transfer!Finishes
  <2> QED  BY <1>1, <1>t, <2>1, UploadUnchanged
<1>3. CASE u = t /\ Transfer!Open(t)
  <2>1. /\ client'[t].pc = "capture" /\ client'[t].opened = source.mtime /\ client'[t].data = client[t].data
        /\ client[t].pc = "open"
    BY <1>3, <1>t DEF Transfer!Open, Transfer!At, TransferClients
  <2> QED  BY <1>1, <1>3, <1>t, <2>1 DEF UploadRead, FileTypes
<1>4. CASE u = t /\ Transfer!Issue(t)
  <2>1. /\ client'[t].pc = client[t].pc /\ client'[t].opened = client[t].opened /\ client'[t].waiting
        /\ client'[t].data = IF client[t].pc = "chunk" THEN Append(client[t].data, Transfer!Carried(t)) ELSE client[t].data
        /\ ~client[t].waiting /\ client[t].pc # "recheck"
    BY <1>4, <1>t DEF Transfer!Issue, TransferClients, Transfer!Scripts
  <2>2. CASE client[t].pc = "chunk"
    <3>1. Transfer!Carried(t) = source.parts[Len(client[t].data) + 1]
      BY <2>2 DEF Transfer!Carried
    <3>2. Len(client[t].data) \in Nat /\ Len(client[t].data) < FileParts /\ FileParts \in Nat
          /\ client[t].data \in Seq(Nat)
      BY <1>4, <1>t, <2>1, <2>2, TransferFacts DEF UploadRead, TransferClients
    <3>3. Transfer!Carried(t) \in Nat
      <4>1. Len(client[t].data) + 1 \in 1..FileParts
        BY <3>2
      <4> QED  BY <1>t, <3>1, <4>1 DEF FileTypes
    <3>4. /\ Len(client'[t].data) = Len(client[t].data) + 1
          /\ \A i \in 1..Len(client[t].data) : client'[t].data[i] = client[t].data[i]
          /\ client'[t].data[Len(client[t].data) + 1] = Transfer!Carried(t)
      BY <2>1, <2>2, <3>2, <3>3, AppendProperties
    <3>5. ASSUME client[t].opened = source.mtime, NEW i \in 1..Len(client'[t].data)
          PROVE  client'[t].data[i] = source.parts[i]
      <4>1. CASE i \in 1..Len(client[t].data)
        BY <1>4, <1>t, <2>2, <3>4, <3>5, <4>1 DEF UploadRead
      <4>2. CASE i = Len(client[t].data) + 1
        <5>1. client'[t].data[i] = Transfer!Carried(t)
          BY ONLY <3>4, <4>2
        <5> QED  BY ONLY <3>1, <4>2, <5>1
      <4>3. i \in 1..Len(client[t].data) \/ i = Len(client[t].data) + 1
        <5>1. PICK n \in Nat : n = Len(client[t].data)
          BY <3>2
        <5>2. i \in 1..(n + 1)
          BY <3>4, <3>5, <5>1
        <5>3. i \in 1..n \/ i = n + 1
          BY ONLY <5>1, <5>2
        <5> QED  BY <5>1, <5>3, Zenon
      <4> QED  BY <4>1, <4>2, <4>3, Zenon
    <3>6. Len(client'[t].data) <= FileParts
      BY <3>2, <3>4
    <3> HIDE DEF Transfer!Carried
    <3> QED  BY <1>1, <1>4, <1>t, <2>1, <2>2, <3>5, <3>6 DEF UploadRead
  <2>3. CASE client[t].pc # "chunk"
    BY <1>1, <1>4, <1>t, <2>1, <2>3 DEF UploadRead
  <2> QED  BY <2>2, <2>3
<1>5. CASE u = t /\ Transfer!TimeOut(t)
  <2>1. client'[t] = Transfer!Gone \/ client'[t] = FailedClient(client[t])
    BY <1>5, <1>t DEF Transfer!TimeOut, Transfer!Rest, FailedClient
  <2> QED  BY <1>1, <1>5, <1>t, <2>1, BlankRecords, GivesUp, UploadStopped
<1>6. CASE u = t /\ (Transfer!Die(t) \/ Transfer!Sync(t))
  <2>1. client'[t] = Transfer!Gone
    BY <1>6, <1>t DEF Transfer!Die, Transfer!Sync, Transfer!Finishes
  <2> QED  BY <1>1, <1>6, <1>t, <2>1, BlankRecords, UploadStopped
<1>7. CASE u = t /\ Transfer!Recheck(t)
  <2>1. /\ client'[t].pc = IF source.mtime = client[t].opened THEN "build" ELSE "cleanup"
        /\ client'[t].opened = client[t].opened /\ client'[t].data = client[t].data /\ client[t].pc = "recheck"
    BY <1>7, <1>t DEF Transfer!Recheck, Transfer!At, TransferClients
  <2>2. CASE source.mtime = client[t].opened
    <3>1. client[t].data = source.parts
      <4>1. client[t].data \in Seq(Nat) /\ Len(client[t].data) = FileParts /\ source.parts \in [1..FileParts -> Nat]
        BY <1>7, <1>t, <2>1 DEF UploadRead, FileTypes, TransferClients
      <4>2. \A i \in 1..FileParts : client[t].data[i] = source.parts[i]
        BY <1>7, <1>t, <2>1, <2>2, <4>1 DEF UploadRead
      <4> QED  BY <4>1, <4>2
    <3>2. source.parts \in versions
      BY DEF TransferInv, UploadsRead
    <3> QED  BY <1>1, <1>7, <1>t, <2>1, <2>2, <3>1, <3>2 DEF UploadRead
  <2>3. CASE source.mtime # client[t].opened
    BY <1>1, <1>7, <1>t, <2>1, <2>3, UploadStopped
  <2> QED  BY <2>2, <2>3
<1> QED  BY <1>2, <1>3, <1>4, <1>5, <1>6, <1>7 DEF Transfer!Local

LEMMA LocalUploads ==
  ASSUME TransferInv, NEW t \in Transfer!Transfers, Transfer!Local(t)
  PROVE  UploadsRead' /\ FileTypes'
<1>1. UNCHANGED <<source, versions, input>>
  BY DEF Transfer!Local, Transfer!Open, Transfer!Issue, Transfer!TimeOut, Transfer!Die, Transfer!Recheck,
         Transfer!Sync, Transfer!localVars, Transfer!pageVars
<1>t. client[t] \in TransferClients /\ FileTypes /\ UploadsRead
  BY DEF TransferInv, ClientTypes
<1>2. ASSUME NEW e \in evals', e.script = "commit" PROVE e.carries \in versions
  <2>1. CASE e \in evals
    BY <1>2, <1>t, <2>1 DEF UploadsRead
  <2>2. CASE e \notin evals
    <3>1. Transfer!Issue(t)
      BY <1>2, <2>2 DEF Transfer!Local, Transfer!Open, Transfer!TimeOut, Transfer!Die, Transfer!Recheck, Transfer!Sync
    <3>2. e.script = client[t].pc /\ e.carries = Transfer!Carried(t)
      BY <1>2, <2>2, <3>1 DEF Transfer!Issue
    <3>3. t \in Uploads /\ Transfer!Carried(t) = client[t].data
      BY <1>2, <3>2, TransferFacts DEF TransferInv, OwnScripts, DownloadScripts, Transfer!Carried
    <3> QED  BY <1>2, <1>t, <3>2, <3>3 DEF UploadsRead, UploadRead
  <2> QED  BY <2>1, <2>2
<1>3. FileTypes'
  <2>1. CASE Transfer!Sync(t)
    <3>1. t \in Downloads
      BY <2>1, TransferFacts DEF TransferInv, OwnScripts, UploadScripts, Transfer!Sync, Transfer!At
    <3>2. [by |-> t, parts |-> client[t].data] \in Contents
      BY <1>t, <3>1 DEF Contents, TransferClients
    <3> QED  BY <1>1, <1>t, <2>1, <3>2 DEF FileTypes, Transfer!Sync
  <2>2. CASE ~Transfer!Sync(t)
    <3>1. dest' = dest /\ disk' = disk
      BY <2>2 DEF Transfer!Local, Transfer!Open, Transfer!Issue, Transfer!TimeOut, Transfer!Die, Transfer!Recheck,
                  Transfer!localVars
    <3> QED  BY <1>1, <1>t, <3>1 DEF FileTypes
  <2> QED  BY <2>1, <2>2
<1>4. \A u \in Uploads : UploadRead(u)'
  BY LocalUpload
<1>5. source'.parts \in versions' /\ Transfer!OneVersionUploaded'
  BY <1>1, <1>t DEF UploadsRead, Transfer!OneVersionUploaded
<1> QED  BY <1>1, <1>2, <1>3, <1>4, <1>5 DEF UploadsRead

(* The file is written, or the machine loses power. *)
LEMMA OutsideUploads ==
  ASSUME TransferInv,
         \/ \E t \in Transfer!Transfers : Transfer!TimerFires(t)
         \/ \E i \in 1..FileParts : Transfer!Write(i)
         \/ Transfer!PageWraps \/ Transfer!Navigate \/ Transfer!PowerLoss
  PROVE  UploadsRead' /\ FileTypes' /\ ClientTypes' /\ OwnScripts'
<1>t. FileTypes /\ UploadsRead /\ ClientTypes /\ OwnScripts
  BY DEF TransferInv
<1>1. ASSUME NEW i \in 1..FileParts, Transfer!Write(i) PROVE UploadsRead' /\ FileTypes' /\ ClientTypes' /\ OwnScripts'
  <2>1. /\ source'.parts = [source.parts EXCEPT ![i] = source.mtime + 1] /\ source'.mtime = source.mtime + 1
        /\ source'.parts \in versions' /\ versions \subseteq versions'
        /\ UNCHANGED <<input, dest, disk, evals, client>> /\ source.mtime \in Nat
    BY <1>1, <1>t DEF Transfer!Write, Transfer!pageVars, FileTypes
  <2>2. source' \in [parts : [1..FileParts -> Nat], mtime : Nat]
    <3>1. [source.parts EXCEPT ![i] = source.mtime + 1] \in [1..FileParts -> Nat] /\ source.mtime + 1 \in Nat
      BY <1>t, <2>1 DEF FileTypes
    <3> QED  BY <1>1, <3>1 DEF Transfer!Write
  <2>3. FileTypes' /\ ClientTypes' /\ OwnScripts'
    BY <1>t, <2>1, <2>2 DEF FileTypes, ClientTypes, OwnScripts
  <2>4. ASSUME NEW t \in Uploads PROVE UploadRead(t)'
    <3>1. client[t].opened \in Nat /\ UploadRead(t)
      BY <1>t, TransferFacts DEF ClientTypes, TransferClients, UploadsRead
    <3>2. client[t].opened <= source'.mtime /\ client[t].opened # source'.mtime
      BY <2>1, <3>1 DEF UploadRead
    <3> QED  BY <2>1, <3>1, <3>2 DEF UploadRead
  <2> QED  BY <1>t, <2>1, <2>3, <2>4 DEF UploadsRead, Transfer!OneVersionUploaded
<1>2. CASE Transfer!PowerLoss
  <2>1. /\ \A t \in Transfer!Transfers : client'[t] = Transfer!Gone
        /\ client' \in [Transfer!Transfers -> TransferClients]
        /\ UNCHANGED <<source, versions, evals, input>>
    BY <1>2, BlankRecords DEF Transfer!PowerLoss, Transfer!pageVars
  <2>2. dest' \in disk /\ disk' = {dest'}
    BY <1>2 DEF Transfer!PowerLoss
  <2>3. FileTypes' /\ ClientTypes' /\ OwnScripts'
    BY <1>t, <2>1, <2>2, BlankRecords, TransferFacts DEF FileTypes, ClientTypes, OwnScripts
  <2>4. ASSUME NEW t \in Uploads PROVE UploadRead(t)'
    BY <1>t, <2>1, BlankRecords, TransferFacts, UploadStopped DEF UploadsRead
  <2> QED  BY <1>t, <2>1, <2>3, <2>4 DEF UploadsRead, Transfer!OneVersionUploaded
<1>3. CASE (\E t \in Transfer!Transfers : Transfer!TimerFires(t)) \/ Transfer!PageWraps \/ Transfer!Navigate
  <2>1. UNCHANGED <<source, versions, dest, disk, client>> /\ evals' \subseteq evals /\ input' \in {input, None}
    BY <1>3 DEF Transfer!TimerFires, Transfer!PageWraps, Transfer!Navigate, Transfer!localVars
  <2>2. FileTypes' /\ ClientTypes' /\ OwnScripts'
    BY <1>t, <2>1 DEF FileTypes, ClientTypes, OwnScripts
  <2>3. \A t \in Uploads : UploadRead(t)'
    BY <1>t, <2>1, UploadUnchanged DEF UploadsRead
  <2> QED  BY <1>t, <2>1, <2>2, <2>3 DEF UploadsRead, Transfer!OneVersionUploaded
<1> QED  BY <1>1, <1>2, <1>3

-----------------------------------------------------------------------------
(* Downloads *)

(* A script does to a download that is not its own nothing, and tells the end *)
(* of a body only when it reads.                                              *)
LEMMA ScriptElsewhere ==
  ASSUME TransferInv, NEW e \in evals, Transfer!Evaluate(e), NEW t \in Downloads
  PROVE  /\ t # e.by => object'[t] = object[t] /\ response'[t] = response[t]
         /\ response'[t].end # response[t].end => t = e.by /\ e.script = "read"
<1>t. /\ e.by \in Transfer!Transfers /\ t \in Transfer!Transfers
      /\ object \in [Transfer!Transfers -> TransferObjects] /\ response \in [Downloads -> Responses]
  BY ScriptTyped, TransferFacts DEF TransferInv, PageTypes
<1>1. t # e.by => object'[t] = object[t]
  BY <1>t DEF Transfer!Evaluate, Transfer!Capture, Transfer!Resolve, Transfer!Cleanup, Transfer!Target, Transfer!Chunk,
         Transfer!Build, Transfer!BeginCommit, Transfer!FinishCommit, Transfer!Begin, Transfer!Respond,
         Transfer!BeginRead, Transfer!ReadPart, Transfer!ReadEnd, Transfer!pageVars
<1>2. t # e.by => response'[t] = response[t]
  <2>1. CASE Transfer!Cleanup(e)
    BY <1>t, <2>1, AbortedTyped DEF Transfer!Cleanup, TransferInv
  <2>2. CASE ~Transfer!Cleanup(e)
    BY <1>t, <2>2 DEF Transfer!Evaluate, Transfer!Capture, Transfer!Resolve, Transfer!Target, Transfer!Chunk,
         Transfer!Build, Transfer!BeginCommit, Transfer!FinishCommit, Transfer!Begin, Transfer!Respond,
         Transfer!BeginRead, Transfer!ReadPart, Transfer!ReadEnd, Transfer!pageVars
  <2> QED  BY <2>1, <2>2
<1>3. response'[t].end # response[t].end => e.script = "read"
  <2>1. CASE Transfer!Cleanup(e)
    BY <1>t, <2>1, AbortedTyped DEF Transfer!Cleanup, TransferInv
  <2>2. CASE Transfer!Begin(e) \/ Transfer!Respond(e)
    <3>1. response' = response \/ \E stream \in {"requested", "open"} : response' = [response EXCEPT ![e.by].stream = stream]
      BY <2>2 DEF Transfer!Begin, Transfer!Respond
    <3>2. ASSUME NEW stream, response' = [response EXCEPT ![e.by].stream = stream], t = e.by
          PROVE  response'[t].end = response[t].end
      <4>1. response'[t] = [response[t] EXCEPT !.stream = stream]
        BY <1>t, <3>2
      <4>2. response[t] \in Responses
        BY <1>t
      <4> QED  BY <4>1, <4>2 DEF Responses
    <3> QED  BY <1>2, <3>1, <3>2
  <2>3. CASE ~(Transfer!Cleanup(e) \/ Transfer!Begin(e) \/ Transfer!Respond(e) \/ Transfer!ReadEnd(e))
    BY <2>3 DEF Transfer!Evaluate, Transfer!Capture, Transfer!Resolve, Transfer!Target, Transfer!Chunk,
         Transfer!Build, Transfer!BeginCommit, Transfer!FinishCommit, Transfer!BeginRead, Transfer!ReadPart,
         Transfer!pageVars
  <2>4. CASE Transfer!ReadEnd(e)
    BY <2>4 DEF Transfer!ReadEnd, Transfer!Runs
  <2> QED  BY <2>1, <2>2, <2>3, <2>4
<1> QED  BY <1>1, <1>2, <1>3

LEMMA ScriptTurn ==
  ASSUME TransferInv, NEW e \in evals, Transfer!Evaluate(e), NEW t \in Downloads
  PROVE  InTurn(t)'
<1>t. /\ t \in Transfer!Transfers /\ t \notin Uploads /\ InTurn(t) /\ client[t] \in TransferClients
      /\ e.script \in UploadScripts \cup DownloadScripts
  BY ScriptTyped, TransferFacts DEF TransferInv, DownloadsRead, ClientTypes, TransferEvals
<1>1. ClientMoves(e) /\ (Transfer!Over(e) \/ Transfer!Awaits(e))
  BY ScriptMoves
<1>2. CASE client'[t] = client[t] /\ Transfer!Awaits(e)
  <2>1. PICK f : /\ evals' = (evals \ {e}) \cup {f} /\ f.by = e.by /\ f.script = e.script
    <3>1. [e EXCEPT !.running = TRUE].by = e.by /\ [e EXCEPT !.running = TRUE].script = e.script
      BY ScriptTyped DEF TransferEvals
    <3> QED  BY <1>2, <3>1 DEF Transfer!Awaits
  <2> QED  BY <1>2, <1>t, <2>1 DEF InTurn
<1>3. CASE client'[t] = client[t] /\ evals' = evals \ {e} /\ (t # e.by \/ ~Accepts(e))
  BY <1>3, <1>t DEF InTurn, Accepts
<1>4. CASE t = e.by /\ Accepts(e) /\ evals' = evals \ {e}
           /\ client'[t] \in {FailedClient(client[t]), Transfer!Then(e, ScriptNext(e)), NextRead(e), Transfer!Rest(t)}
           /\ (e.script = "cleanup" <=> client'[t] = Transfer!Rest(t))
  <2>1. client[t].pc = e.script /\ client[t].pc # "done"
    BY <1>4, <1>t DEF Accepts, UploadScripts, DownloadScripts
  <2>2. CASE client[t].failed
    <3>1. client'[t] = Transfer!Gone
      BY <1>4, <1>t, <2>1, <2>2 DEF InTurn, Transfer!Rest
    <3> QED  BY <3>1, BlankRecords DEF InTurn
  <2>3. CASE ~client[t].failed
    <3>1. \A f \in evals' : f.by # t
      BY <1>4, <1>t, <2>1, <2>3 DEF InTurn
    <3>2. ~client'[t].waiting /\ (client'[t].failed => client'[t].pc = "cleanup")
      <4>1. CASE client'[t] = FailedClient(client[t])
        BY <1>t, <4>1, GivesUp
      <4>2. CASE client'[t] = Transfer!Then(e, ScriptNext(e))
        BY <1>4, <2>3, <4>2, GoesOn, ScriptTyped DEF TransferInv
      <4>3. CASE client'[t] = NextRead(e)
        <5>1. /\ Transfer!Then(e, "read") \in TransferClients
              /\ ~Transfer!Then(e, "read").waiting /\ ~Transfer!Then(e, "read").failed
          BY <1>4, <2>3, GoesOn DEF TransferInv, TransferPlaces, DownloadScripts
        <5> HIDE DEF Transfer!Then
        <5> QED  BY <4>3, <5>1 DEF NextRead, TransferClients
      <4>4. CASE client'[t] = Transfer!Rest(t)
        BY <1>t, <2>3, <4>4 DEF Transfer!Rest, TransferClients
      <4> QED  BY <1>4, <4>1, <4>2, <4>3, <4>4
    <3> QED  BY <3>1, <3>2 DEF InTurn
  <2> QED  BY <2>2, <2>3
<1> QED
  <2>1. CASE t # e.by \/ ~Accepts(e)
    BY <1>1, <1>2, <1>3, <1>t, <2>1 DEF ClientMoves, Transfer!Over
  <2>2. CASE t = e.by /\ Accepts(e) /\ ~(client'[t] = client[t] /\ Transfer!Awaits(e))
    <3>1. CASE Transfer!Over(e) /\ e.script # "cleanup"
               /\ client'[t] \in {FailedClient(client[t]), Transfer!Then(e, ScriptNext(e))}
      <4>1. client'[t] # Transfer!Rest(t)
        <5>1. client'[t].pc \notin {"sync", "done"}
          <6>1. client'[t] = FailedClient(client[t]) \/ client'[t].pc = ScriptNext(e)
            BY <2>2, <3>1, GoesOn, ScriptTyped DEF TransferInv
          <6> QED  BY <1>t, <6>1, GivesUp DEF ScriptNext
        <5> QED  BY <1>t, <5>1, BlankRecords DEF Transfer!Rest, TransferClients
      <4> QED  BY <1>4, <2>2, <3>1, <4>1 DEF Transfer!Over
    <3>2. CASE Transfer!ReadPart(e) /\ client'[t] = NextRead(e)
      <4>1. evals' = evals \ {e} /\ e.script = "read"
        BY <3>2 DEF Transfer!ReadPart, Transfer!Over, Transfer!Runs
      <4>2. client'[t].pc = "read"
        <5>1. Transfer!Then(e, "read") \in TransferClients /\ Transfer!Then(e, "read").pc = "read"
          BY GoesOn DEF TransferInv, TransferPlaces, DownloadScripts
        <5> HIDE DEF Transfer!Then
        <5> QED  BY <3>2, <5>1 DEF NextRead, TransferClients
      <4>3. client'[t] # Transfer!Rest(t)
        BY <1>t, <4>2, BlankRecords DEF Transfer!Rest, TransferClients
      <4> QED  BY <1>4, <2>2, <3>2, <4>1, <4>3
    <3>3. CASE e.script = "cleanup" /\ client'[t] = Transfer!Rest(t) /\ Transfer!Over(e)
      BY <1>4, <2>2, <3>3 DEF Transfer!Over
    <3> QED  BY <1>1, <2>2, <3>1, <3>2, <3>3 DEF ClientMoves
  <2> QED  BY <1>2, <2>1, <2>2

LEMMA UptoGrows ==
  /\ Upto(0) = <<>>
  /\ \A n \in Nat : Append(Upto(n), n + 1) = Upto(n + 1) /\ Upto(n) \in Seq(Nat)
<1>1. Upto(0) = <<>>
  BY DEF Upto
<1>2. ASSUME NEW n \in Nat PROVE Append(Upto(n), n + 1) = Upto(n + 1) /\ Upto(n) \in Seq(Nat)
  <2>1. Upto(n) \in Seq(Nat) /\ Len(Upto(n)) = n
    BY DEF Upto
  <2>2. /\ DOMAIN Append(Upto(n), n + 1) = 1..(n + 1)
        /\ \A i \in 1..(n + 1) : Append(Upto(n), n + 1)[i] = i
    BY <2>1, AppendProperties DEF Upto
  <2>3. Append(Upto(n), n + 1) \in Seq(Nat)
    BY <2>1, AppendProperties
  <2> QED  BY <2>1, <2>2, <2>3 DEF Upto
<1> QED  BY <1>1, <1>2

(* A download that has failed, or is over, promises nothing more. *)
LEMMA DownloadQuiet ==
  ASSUME NEW t, (client'[t].failed /\ client'[t].pc = "cleanup") \/ client'[t].pc = "done"
  PROVE  DownloadRead(t)'
BY DEF DownloadRead

LEMMA DownloadUnchanged ==
  ASSUME NEW t, DownloadRead(t), client'[t] = client[t],
         object'[t].offset = object[t].offset \/ (object'[t].offset = 0 /\ response'[t].stream # "open"),
         response'[t].end = response[t].end, response'[t].stream = "open" => response[t].stream = "open"
  PROVE  DownloadRead(t)'
BY DEF DownloadRead, WholeBody

LEMMA ScriptDownload ==
  ASSUME TransferInv, NEW e \in evals, Transfer!Evaluate(e), NEW t \in Downloads
  PROVE  DownloadRead(t)'
<1>t. /\ t \in Transfer!Transfers /\ t \notin Uploads /\ InTurn(t) /\ DownloadRead(t)
      /\ client[t] \in TransferClients /\ object[t] \in TransferObjects /\ response[t] \in Responses
      /\ object \in [Transfer!Transfers -> TransferObjects] /\ response \in [Downloads -> Responses]
      /\ e.script \in UploadScripts \cup DownloadScripts
  BY ScriptTyped, TransferFacts DEF TransferInv, DownloadsRead, ClientTypes, PageTypes, TransferEvals
<1>m. ClientMoves(e) /\ InTurn(t)'
  BY ScriptMoves, ScriptTurn
<1>1. CASE t # e.by
  <2>1. client'[t] = client[t] /\ object'[t] = object[t] /\ response'[t] = response[t]
    BY <1>1, <1>m, <1>t, ScriptElsewhere DEF ClientMoves
  <2> QED  BY <1>t, <2>1, DownloadUnchanged
<1>2. CASE t = e.by /\ ~Accepts(e)
  <2>1. client'[t] = client[t]
    BY <1>2, <1>m, <1>t DEF ClientMoves
  <2>2. CASE client[t].failed \/ client[t].pc = "done"
    BY <1>t, <2>1, <2>2, DownloadQuiet DEF InTurn
  <2>3. CASE ~client[t].failed /\ client[t].pc # "done"
    <3>1. e.script = "cleanup" /\ client[t].pc = "sync"
      BY <1>2, <1>t, <2>3 DEF InTurn, Accepts
    <3>2. response'[t].end = response[t].end
      BY <1>2, <3>1, ScriptElsewhere
    <3> QED  BY <1>t, <2>1, <3>1, <3>2 DEF DownloadRead, WholeBody
  <2> QED  BY <2>2, <2>3
<1>3. CASE t = e.by /\ Accepts(e)
  <2>0. client[t].pc = e.script /\ client[t].waiting /\ e.script \in DownloadScripts
    BY <1>3, <1>t DEF Accepts, TransferInv, OwnScripts
  <2>1. CASE client'[t] = FailedClient(client[t])
    BY <1>t, <2>1, GivesUp, DownloadQuiet
  <2>2. CASE e.script \in {"capture", "resolve", "begin"} /\ client'[t] # FailedClient(client[t])
    <3>1. /\ client'[t] = client[t] \/ client'[t] = Transfer!Then(e, ScriptNext(e))
      BY <1>3, <1>m, <2>2 DEF ClientMoves, Transfer!ReadPart, Transfer!Runs
    <3>2. client'[t].data = client[t].data /\ client'[t].pc \in {"capture", "resolve", "begin", "read"}
      BY <1>3, <1>t, <2>0, <2>2, <3>1, GoesOn, ScriptTyped DEF TransferInv, ScriptNext
    <3>3. client[t].data = <<>> /\ object[t].offset = 0
      BY <1>t, <2>0, <2>2 DEF DownloadRead
    <3>4. object'[t].offset = 0
      <4>1. CASE Transfer!Capture(e)
        BY <1>3, <1>t, <4>1, BlankRecords DEF Transfer!Capture, TransferObjects
      <4>2. CASE Transfer!Resolve(e)
        <5>1. \E known : object' = [object EXCEPT ![e.by].captured = known]
          BY <4>2 DEF Transfer!Resolve
        <5> QED  BY <1>3, <1>t, <3>3, <5>1 DEF TransferObjects
      <4>3. CASE Transfer!Begin(e)
        <5>1. object' = object \/ \E timer : object' = [object EXCEPT ![e.by].timer = timer]
          BY <4>3 DEF Transfer!Begin
        <5> QED  BY <1>3, <1>t, <3>3, <5>1 DEF TransferObjects
      <4>4. CASE Transfer!Respond(e)
        BY <3>3, <4>4 DEF Transfer!Respond
      <4> QED
        BY <2>2, <4>1, <4>2, <4>3, <4>4 DEF Transfer!Evaluate, Transfer!Cleanup, Transfer!Target, Transfer!Chunk,
           Transfer!Build, Transfer!BeginCommit, Transfer!FinishCommit, Transfer!BeginRead, Transfer!ReadPart,
           Transfer!ReadEnd, Transfer!Handed, Transfer!Runs
    <3> QED  BY <3>2, <3>3, <3>4, UptoGrows DEF DownloadRead
  <2>3. CASE e.script = "read" /\ Transfer!BeginRead(e) /\ client'[t] # FailedClient(client[t])
    <3>1. client'[t] = client[t]
      <4>1. CASE object[e.by].present
        BY <2>3, <4>1 DEF Transfer!BeginRead
      <4>2. CASE ~object[e.by].present
        <5>1. Transfer!Answer(e, FALSE, Transfer!Then(e, "cleanup"))
          BY <2>3, <4>2 DEF Transfer!BeginRead
        <5>2. client'[t] = FailedClient(client[t])
          BY <1>3, <1>t, <5>1 DEF Transfer!Answer, Accepts, FailedClient, TransferInv, ClientTypes
        <5> QED  BY <2>3, <5>2
      <4> QED  BY <4>1, <4>2
    <3>2. object' = object /\ response' = response
      BY <2>3 DEF Transfer!BeginRead, Transfer!pageVars
    <3> QED  BY <1>t, <3>1, <3>2, DownloadUnchanged
  <2>4. CASE e.script = "read" /\ Transfer!ReadPart(e)
    <3>1. client[t].data = Upto(object[t].offset) /\ object[t].offset \in Nat
      BY <1>3, <1>t, <2>0, <2>4 DEF DownloadRead, Transfer!ReadPart, TransferObjects
    <3>2. object'[t].offset = object[t].offset + 1
      BY <1>3, <1>t, <2>4 DEF Transfer!ReadPart, TransferObjects
    <3>3. client'[t] = NextRead(e)
      BY <1>3, <1>t, <2>4 DEF Transfer!ReadPart, Transfer!Answer, NextRead, Accepts, TransferInv, ClientTypes
    <3>4. client'[t].data = Append(client[t].data, object[t].offset + 1) /\ client'[t].pc = "read"
      <4>1. /\ Transfer!Then(e, "read") \in TransferClients /\ Transfer!Then(e, "read").data = client[t].data
            /\ Transfer!Then(e, "read").pc = "read"
        BY <1>3, GoesOn DEF TransferInv, TransferPlaces, DownloadScripts
      <4> HIDE DEF Transfer!Then
      <4> QED  BY <1>3, <3>3, <4>1 DEF NextRead, TransferClients
    <3> QED  BY <3>1, <3>2, <3>4, UptoGrows DEF DownloadRead
  <2>5. CASE e.script = "read" /\ Transfer!ReadEnd(e) /\ client'[t] # FailedClient(client[t])
    <3>1. CASE response[t].stream = "open"
      <4>1. PICK announced \in BOOLEAN :
              /\ response' = [response EXCEPT ![e.by].end = [at |-> object[e.by].offset, announced |-> announced]]
              /\ Transfer!Answer(e, announced => object[e.by].offset = FileParts, Transfer!Then(e, "cleanup"))
        BY <1>3, <2>5, <3>1 DEF Transfer!ReadEnd
      <4>2. (announced => object[t].offset = FileParts) /\ client'[t] = Transfer!Then(e, "cleanup")
        BY <1>3, <1>t, <2>5, <4>1 DEF Transfer!Answer, Accepts, FailedClient, TransferInv, ClientTypes
      <4>3. response'[t].end = [at |-> object[t].offset, announced |-> announced]
        BY <1>3, <1>t, <4>1 DEF Responses
      <4>4. client'[t].data = Upto(object[t].offset) /\ client'[t].pc = "cleanup"
        BY <1>3, <1>t, <2>0, <2>5, <3>1, <4>2, GoesOn DEF DownloadRead, TransferInv, TransferPlaces, DownloadScripts
      <4> QED  BY <4>2, <4>3, <4>4 DEF DownloadRead, WholeBody
    <3>2. CASE response[t].stream # "open"
      <4>1. Transfer!Answer(e, FALSE, Transfer!Then(e, "cleanup"))
        BY <1>3, <2>5, <3>2 DEF Transfer!ReadEnd
      <4>2. client'[t] = FailedClient(client[t])
        BY <1>3, <1>t, <4>1 DEF Transfer!Answer, Accepts, FailedClient, TransferInv, ClientTypes
      <4> QED  BY <2>5, <4>2
    <3> QED  BY <3>1, <3>2
  <2>6. CASE e.script = "cleanup" /\ client'[t] # FailedClient(client[t])
    <3>1. response'[t].end = response[t].end
      BY <2>6, ScriptElsewhere
    <3>2. client'[t] \in {Transfer!Rest(t), client[t]}
      BY <1>3, <1>m, <2>6 DEF ClientMoves, Transfer!ReadPart, Transfer!Runs
    <3>3. CASE client[t].failed /\ client'[t] = Transfer!Rest(t)
      BY <1>t, <3>3, BlankRecords, DownloadQuiet DEF Transfer!Rest
    <3>4. CASE client[t].failed /\ client'[t] = client[t]
      BY <1>t, <3>4, DownloadQuiet DEF InTurn
    <3>5. CASE ~client[t].failed
      <4>1. client'[t].pc \in {"cleanup", "sync"} /\ client'[t].data = client[t].data
        BY <1>t, <2>0, <2>6, <3>2, <3>5 DEF Transfer!Rest, TransferClients
      <4> QED  BY <1>t, <2>0, <2>6, <3>1, <3>5, <4>1 DEF DownloadRead, WholeBody
    <3> QED  BY <3>2, <3>3, <3>4, <3>5
  <2>7. e.script = "read" => Transfer!BeginRead(e) \/ Transfer!ReadPart(e) \/ Transfer!ReadEnd(e)
    BY DEF Transfer!Evaluate, Transfer!Capture, Transfer!Resolve, Transfer!Cleanup, Transfer!Target, Transfer!Chunk,
           Transfer!Build, Transfer!BeginCommit, Transfer!FinishCommit, Transfer!Begin, Transfer!Respond,
           Transfer!Handed, Transfer!Runs
  <2> QED  BY <2>0, <2>1, <2>2, <2>3, <2>4, <2>5, <2>6, <2>7 DEF DownloadScripts
<1> QED  BY <1>1, <1>2, <1>3

LEMMA ScriptCommitted ==
  ASSUME TransferInv, NEW e \in evals, Transfer!Evaluate(e)
  PROVE  CommittedWhole'
<1>1. /\ UNCHANGED <<dest, disk>> /\ ClientMoves(e)
      /\ \A f \in evals' : \E g \in evals : f.by = g.by /\ f.script = g.script
  BY ScriptMoves, EvalsTyped DEF TransferInv, Transfer!localVars
<1>2. SUFFICES ASSUME NEW content \in {dest} \cup disk, content.by # None
               PROVE  /\ client'[content.by].pc = "done"
                      /\ \A f \in evals' : f.by = content.by => f.script # "read"
                      /\ WholeBody(content.by, content.parts)'
  BY <1>1 DEF CommittedWhole
<1> DEFINE t == content.by
<1>3. /\ t \in Downloads /\ t \in Transfer!Transfers /\ client[t].pc = "done"
      /\ \A f \in evals : f.by = t => f.script # "read"
      /\ WholeBody(t, content.parts)
  BY <1>2, TransferFacts DEF TransferInv, FileTypes, Contents, DownloadsRead, CommittedWhole
<1>4. client'[t] = client[t]
  <2>1. e.script # "done"
    BY ScriptTyped DEF TransferEvals, UploadScripts, DownloadScripts
  <2>2. t # e.by \/ ~Accepts(e)
    BY <1>3, <2>1 DEF Accepts
  <2> QED  BY <1>1, <1>3, <2>2 DEF ClientMoves
<1>5. response'[t].end = response[t].end
  BY <1>3, ScriptElsewhere
<1> QED  BY <1>1, <1>3, <1>4, <1>5 DEF WholeBody

LEMMA ScriptDownloads ==
  ASSUME TransferInv, NEW e \in evals, Transfer!Evaluate(e)
  PROVE  DownloadsRead'
BY ScriptTurn, ScriptDownload, ScriptCommitted DEF DownloadsRead

(* The process of a download commits what it has. *)
LEMMA LocalDownload ==
  ASSUME TransferInv, NEW t \in Transfer!Transfers, Transfer!Local(t), NEW d \in Downloads
  PROVE  InTurn(d)' /\ DownloadRead(d)'
<1>1. object' = object /\ response' = response
  BY DEF Transfer!Local, Transfer!Open, Transfer!Issue, Transfer!TimeOut, Transfer!Die, Transfer!Recheck,
         Transfer!Sync, Transfer!pageVars
<1>t. /\ client \in [Transfer!Transfers -> TransferClients] /\ client[d] \in TransferClients
      /\ d \in Transfer!Transfers /\ d \notin Uploads /\ InTurn(d) /\ DownloadRead(d)
  BY TransferFacts DEF TransferInv, DownloadsRead, ClientTypes
<1>2. CASE d # t
  <2>1. client'[d] = client[d] /\ \A e \in evals' : e.by = d => e \in evals
    BY <1>2, <1>t DEF Transfer!Local, Transfer!Open, Transfer!Issue, Transfer!TimeOut, Transfer!Die, Transfer!Recheck,
                      Transfer!Sync, Transfer!Finishes
  <2> QED  BY <1>1, <1>t, <2>1, DownloadUnchanged DEF InTurn
<1>3. CASE d = t /\ Transfer!Open(t)
  <2>1. /\ client'[t].pc = "capture" /\ client'[t].data = client[t].data /\ client'[t].failed = client[t].failed
        /\ client'[t].waiting = client[t].waiting
        /\ client[t].pc = "open" /\ ~client[t].waiting /\ evals' = evals
    BY <1>3, <1>t DEF Transfer!Open, Transfer!At, TransferClients
  <2> QED  BY <1>1, <1>3, <1>t, <2>1 DEF InTurn, DownloadRead
<1>4. CASE d = t /\ Transfer!Issue(t)
  <2>1. /\ client'[t].pc = client[t].pc /\ client'[t].failed = client[t].failed /\ client'[t].waiting
        /\ ~client[t].waiting /\ client[t].pc \in Transfer!Scripts
    BY <1>4, <1>t DEF Transfer!Issue, TransferClients
  <2>2. client[t].pc \notin {"chunk", "sync", "done"}
    BY <1>4, <1>t, <2>1 DEF Transfer!Scripts, TransferInv, OwnScripts, DownloadScripts
  <2>3. client'[t].data = client[t].data
    BY <1>4, <1>t, <2>2 DEF Transfer!Issue, TransferClients
  <2> DEFINE new == [by |-> t, script |-> client[t].pc, carries |-> Transfer!Carried(t), running |-> FALSE]
  <2>4. evals' = evals \cup {new} /\ new.by = t /\ new.script = client[t].pc
    BY <1>4 DEF Transfer!Issue
  <2> HIDE DEF new
  <2>5. InTurn(d)'
    BY <1>4, <1>t, <2>1, <2>2, <2>4 DEF InTurn
  <2>6. DownloadRead(d)'
    BY <1>1, <1>4, <1>t, <2>1, <2>2, <2>3 DEF DownloadRead, WholeBody
  <2> QED  BY <2>5, <2>6
<1>5. CASE d = t /\ Transfer!TimeOut(t)
  <2>1. evals' \subseteq evals /\ client[t].waiting
    BY <1>5 DEF Transfer!TimeOut
  <2>2. CASE client[t].pc # "cleanup"
    <3>1. client'[t] = FailedClient(client[t])
      BY <1>5, <1>t, <2>2 DEF Transfer!TimeOut, FailedClient
    <3> QED  BY <1>5, <1>t, <3>1, GivesUp, DownloadQuiet DEF InTurn
  <2>3. CASE client[t].pc = "cleanup"
    <3>1. client'[t] = Transfer!Rest(t)
      BY <1>5, <1>t, <2>3 DEF Transfer!TimeOut
    <3>2. CASE client[t].failed
      <4>1. client'[t] = Transfer!Gone
        BY <3>1, <3>2 DEF Transfer!Rest
      <4> QED  BY <1>5, <4>1, BlankRecords, DownloadQuiet DEF InTurn
    <3>3. CASE ~client[t].failed
      <4>1. client'[t].pc = "sync" /\ ~client'[t].waiting /\ ~client'[t].failed /\ client'[t].data = client[t].data
        BY <1>5, <1>t, <3>1, <3>3 DEF Transfer!Rest, TransferClients
      <4> QED  BY <1>1, <1>5, <1>t, <2>1, <2>3, <3>3, <4>1 DEF InTurn, DownloadRead, WholeBody
    <3> QED  BY <3>2, <3>3
  <2> QED  BY <2>2, <2>3
<1>6. CASE d = t /\ (Transfer!Die(t) \/ Transfer!Sync(t))
  <2>1. client'[t] = Transfer!Gone
    BY <1>6, <1>t DEF Transfer!Die, Transfer!Sync, Transfer!Finishes
  <2> QED  BY <1>6, <2>1, BlankRecords, DownloadQuiet DEF InTurn
<1>7. ~(d = t /\ Transfer!Recheck(t))
  BY <1>t DEF TransferInv, OwnScripts, DownloadScripts, Transfer!Recheck, Transfer!At
<1> QED  BY <1>2, <1>3, <1>4, <1>5, <1>6, <1>7 DEF Transfer!Local

LEMMA LocalCommitted ==
  ASSUME TransferInv, NEW t \in Transfer!Transfers, Transfer!Local(t)
  PROVE  CommittedWhole'
<1>1. object' = object /\ response' = response
  BY DEF Transfer!Local, Transfer!Open, Transfer!Issue, Transfer!TimeOut, Transfer!Die, Transfer!Recheck,
         Transfer!Sync, Transfer!pageVars
<1>t. /\ client \in [Transfer!Transfers -> TransferClients] /\ client[t] \in TransferClients
      /\ FileTypes /\ CommittedWhole
      /\ t \in Downloads => InTurn(t) /\ DownloadRead(t)
  BY TransferFacts DEF TransferInv, DownloadsRead, ClientTypes
<1>2. ASSUME NEW content \in {dest} \cup disk, content.by # None
      PROVE  /\ client'[content.by].pc = "done"
             /\ \A f \in evals' : f.by = content.by => f.script # "read"
             /\ WholeBody(content.by, content.parts)'
  <2>1. /\ content.by \in Downloads /\ content.by \in Transfer!Transfers /\ client[content.by].pc = "done"
        /\ \A f \in evals : f.by = content.by => f.script # "read"
        /\ WholeBody(content.by, content.parts)
    BY <1>2, <1>t, TransferFacts DEF FileTypes, Contents, CommittedWhole
  <2>2. ~client[content.by].waiting
    BY <2>1 DEF TransferInv, DownloadsRead, InTurn
  <2>3. client'[content.by] = client[content.by]
    BY <1>t, <2>1, <2>2 DEF Transfer!Local, Transfer!Open, Transfer!Issue, Transfer!TimeOut, Transfer!Die,
       Transfer!Recheck, Transfer!Sync, Transfer!Finishes, Transfer!At, Transfer!Scripts
  <2>4. \A f \in evals' : f.by = content.by => f \in evals
    BY <2>1, <2>2 DEF Transfer!Local, Transfer!Open, Transfer!Issue, Transfer!TimeOut, Transfer!Die,
       Transfer!Recheck, Transfer!Sync, Transfer!Scripts
  <2> QED  BY <1>1, <2>1, <2>3, <2>4 DEF WholeBody
<1>3. CASE Transfer!Sync(t)
  <2>1. /\ t \in Downloads /\ client[t].pc = "sync" /\ evals' = evals /\ client'[t] = Transfer!Gone
        /\ dest' = [by |-> t, parts |-> client[t].data] /\ disk' = disk \cup {dest'}
    <3>1. client[t].pc = "sync"
      BY <1>3 DEF Transfer!Sync, Transfer!At
    <3>2. t \in Downloads
      BY <3>1, TransferFacts DEF TransferInv, OwnScripts, UploadScripts
    <3> QED  BY <1>3, <1>t, <3>1, <3>2 DEF Transfer!Sync, Transfer!Finishes
  <2>2. ~client[t].failed /\ \A f \in evals : f.by = t => f.script # "read"
    BY <1>t, <2>1 DEF InTurn
  <2>3. WholeBody(t, client[t].data)
    BY <1>t, <2>1, <2>2 DEF DownloadRead
  <2>4. WholeBody(t, dest.parts)' /\ dest'.by = t
    BY <1>1, <2>1, <2>3 DEF WholeBody
  <2>5. client'[t].pc = "done"
    BY <2>1, BlankRecords
  <2>6. ASSUME NEW content \in ({dest} \cup disk)', content.by # None
        PROVE  /\ client'[content.by].pc = "done"
               /\ \A f \in evals' : f.by = content.by => f.script # "read"
               /\ WholeBody(content.by, content.parts)'
    <3>1. CASE content = dest'
      BY <2>1, <2>2, <2>4, <2>5, <3>1
    <3>2. CASE content \in disk
      BY <1>2, <2>6, <3>2
    <3> QED  BY <2>1, <2>6, <3>1, <3>2
  <2> QED  BY <2>6 DEF CommittedWhole
<1>4. CASE ~Transfer!Sync(t)
  <2>1. dest' = dest /\ disk' = disk
    BY <1>4 DEF Transfer!Local, Transfer!Open, Transfer!Issue, Transfer!TimeOut, Transfer!Die, Transfer!Recheck,
                Transfer!localVars
  <2> QED  BY <1>2, <2>1 DEF CommittedWhole
<1> QED  BY <1>3, <1>4

LEMMA OutsideDownloads ==
  ASSUME TransferInv,
         \/ \E t \in Transfer!Transfers : Transfer!TimerFires(t)
         \/ \E i \in 1..FileParts : Transfer!Write(i)
         \/ Transfer!PageWraps \/ Transfer!Navigate \/ Transfer!PowerLoss
  PROVE  DownloadsRead'
<1>t. /\ FileTypes /\ CommittedWhole /\ PageTypes /\ client \in [Transfer!Transfers -> TransferClients]
      /\ \A t \in Downloads : /\ InTurn(t) /\ DownloadRead(t) /\ t \in Transfer!Transfers
                             /\ response[t] \in Responses
      /\ object \in [Transfer!Transfers -> TransferObjects] /\ response \in [Downloads -> Responses]
  BY TransferFacts DEF TransferInv, DownloadsRead, ClientTypes, PageTypes
<1>1. CASE Transfer!PowerLoss
  <2>1. /\ \A t \in Transfer!Transfers : client'[t] = Transfer!Gone
        /\ UNCHANGED <<object, response, evals>> /\ dest' \in disk /\ disk' = {dest'}
    BY <1>1 DEF Transfer!PowerLoss, Transfer!pageVars
  <2>2. \A t \in Downloads : InTurn(t)' /\ DownloadRead(t)'
    BY <1>t, <2>1, BlankRecords, DownloadQuiet DEF InTurn
  <2>3. ASSUME NEW content \in ({dest} \cup disk)', content.by # None
        PROVE  /\ client'[content.by].pc = "done"
               /\ \A f \in evals' : f.by = content.by => f.script # "read"
               /\ WholeBody(content.by, content.parts)'
    <3>1. content \in disk /\ content.by \in Transfer!Transfers
      BY <1>t, <2>1, <2>3 DEF FileTypes, Contents
    <3> QED  BY <1>t, <2>1, <2>3, <3>1, BlankRecords DEF CommittedWhole, WholeBody
  <2> QED  BY <2>2, <2>3 DEF DownloadsRead, CommittedWhole
<1>2. CASE ~Transfer!PowerLoss
  <2> DEFINE Kept ==
        /\ UNCHANGED <<client, dest, disk>> /\ evals' \subseteq evals
        /\ \A t \in Downloads :
             /\ object'[t].offset = object[t].offset \/ (object'[t].offset = 0 /\ response'[t].stream # "open")
             /\ response'[t].end = response[t].end /\ (response'[t].stream = "open" => response[t].stream = "open")
  <2>1. Kept
    <3>1. ASSUME NEW u \in Transfer!Transfers, Transfer!TimerFires(u) PROVE Kept
      <4>1. /\ response' = Transfer!Aborted(u) /\ object' = [object EXCEPT ![u] = Transfer!Forgotten]
            /\ UNCHANGED <<client, dest, disk, evals>>
        BY <3>1 DEF Transfer!TimerFires, Transfer!localVars
      <4>2. ASSUME NEW t \in Downloads
            PROVE  /\ object'[t].offset = object[t].offset \/ (object'[t].offset = 0 /\ response'[t].stream # "open")
                   /\ response'[t].end = response[t].end /\ (response'[t].stream = "open" => response[t].stream = "open")
        <5>1. /\ response'[t].end = response[t].end
              /\ response'[t].stream = "open" => response[t].stream = "open" /\ t # u
          BY <1>t, <3>1, <4>1, AbortedTyped
        <5>2. object'[t] = IF t = u THEN Transfer!Forgotten ELSE object[t]
          BY <1>t, <4>1
        <5> QED  BY <5>1, <5>2, BlankRecords
      <4> QED  BY <4>1, <4>2
    <3>2. CASE Transfer!PageWraps \/ \E i \in 1..FileParts : Transfer!Write(i)
      BY <3>2 DEF Transfer!PageWraps, Transfer!Write, Transfer!localVars, Transfer!pageVars
    <3>3. CASE Transfer!Navigate
      <4>1. /\ UNCHANGED <<client, dest, disk>> /\ evals' \subseteq evals
            /\ \A t \in Downloads : /\ object'[t] = Transfer!Forgotten
                  /\ response'[t] = [response[t] EXCEPT !.stream = IF @ = "none" THEN @ ELSE "aborted"]
        BY <1>t, <3>3 DEF Transfer!Navigate, Transfer!localVars
      <4>2. \A t \in Downloads : response'[t].end = response[t].end /\ response'[t].stream # "open"
        BY <1>t, <4>1 DEF Responses
      <4> QED  BY <4>1, <4>2, BlankRecords
    <3> QED  BY <1>2, <3>1, <3>2, <3>3
  <2>2. \A t \in Downloads : DownloadRead(t)'
    BY <1>t, <2>1, DownloadUnchanged
  <2>3. \A t \in Downloads : InTurn(t)'
    BY <1>t, <2>1 DEF InTurn
  <2>4. CommittedWhole'
    <3>1. \A content \in {dest} \cup disk : content.by # None => content.by \in Downloads
      BY <1>t DEF FileTypes, Contents
    <3> QED  BY <1>t, <2>1, <3>1 DEF CommittedWhole, WholeBody
  <2> QED  BY <2>2, <2>3, <2>4 DEF DownloadsRead
<1> QED  BY <1>1, <1>2

-----------------------------------------------------------------------------

LEMMA TransferInit == Transfer!Init => TransferInv
<1> SUFFICES ASSUME Transfer!Init PROVE TransferInv
  OBVIOUS
<1> USE DEF Transfer!Init
<1>1. ClientTypes /\ PageTypes
  BY BlankRecords, TransferFacts DEF ClientTypes, PageTypes, Responses
<1>2. FileTypes
  BY BlankRecords DEF FileTypes
<1>p. /\ Transfer!Process("open").pc = "open" /\ ~Transfer!Process("open").waiting /\ ~Transfer!Process("open").failed
      /\ Transfer!Process("open").opened = 0 /\ Transfer!Process("open").data = <<>>
  BY DEF Transfer!Process
<1>3. OwnScripts
  BY <1>p, TransferFacts DEF OwnScripts
<1>4. Transfer!PatchesKept
  BY BlankRecords DEF Transfer!PatchesKept
<1>5. UploadsRead
  BY <1>p, TransferFacts DEF UploadsRead, UploadRead, Transfer!OneVersionUploaded
<1>6. DownloadsRead
  <2>1. Transfer!Old.by = None
    BY DEF Transfer!Old
  <2> QED  BY <1>p, <2>1, TransferFacts, BlankRecords DEF DownloadsRead, InTurn, DownloadRead, CommittedWhole
<1> QED  BY <1>1, <1>2, <1>3, <1>4, <1>5, <1>6 DEF TransferInv

LEMMA TransferStep ==
  ASSUME TransferInv, Transfer!Next
  PROVE  TransferInv'
<1>1. ASSUME NEW t \in Transfer!Transfers, Transfer!Local(t) PROVE TransferInv'
  <2>1. ClientTypes'
    BY <1>1, IssueTypes, LocalTypes DEF Transfer!Local
  <2>2. PatchesHold'
    BY <1>1, OtherPatches
  <2>3. UploadsRead' /\ FileTypes' /\ OwnScripts'
    BY <1>1, LocalUploads, LocalOwn
  <2>4. DownloadsRead'
    BY <1>1, LocalDownload, LocalCommitted DEF DownloadsRead
  <2> QED  BY <2>1, <2>2, <2>3, <2>4 DEF TransferInv, PatchesHold
<1>2. ASSUME NEW e \in evals, Transfer!Evaluate(e) PROVE TransferInv'
  BY <1>2, ScriptMoves, ScriptPatches, ScriptUploads, ScriptOwn, ScriptDownloads DEF TransferInv, PatchesHold
<1>3. ASSUME \/ \E t \in Transfer!Transfers : Transfer!TimerFires(t)
             \/ \E i \in 1..FileParts : Transfer!Write(i)
             \/ Transfer!PageWraps \/ Transfer!Navigate \/ Transfer!PowerLoss
      PROVE  TransferInv'
  BY <1>3, OtherPatches, OutsideUploads, OutsideDownloads DEF TransferInv, PatchesHold
<1> QED  BY <1>1, <1>2, <1>3 DEF Transfer!Next

LEMMA TransferRests == TransferInv /\ UNCHANGED transferVars => TransferInv'
<1> SUFFICES ASSUME TransferInv, UNCHANGED transferVars PROVE TransferInv'
  OBVIOUS
<1> USE DEF TransferInv, transferVars
<1>1. ClientTypes' /\ PageTypes' /\ FileTypes' /\ OwnScripts'
  BY DEF ClientTypes, PageTypes, FileTypes, OwnScripts
<1>2. Transfer!PatchesKept'
  BY DEF Transfer!PatchesKept, Transfer!Patched, Transfer!Patch
<1>3. UploadsRead'
  BY DEF UploadsRead, UploadRead, Transfer!OneVersionUploaded
<1>4. DownloadsRead'
  BY DEF DownloadsRead, InTurn, DownloadRead, CommittedWhole, WholeBody
<1> QED  BY <1>1, <1>2, <1>3, <1>4

(* A transfer moves one version of the file, whole; its patch is in place while *)
(* it looks for its element, and the page's own until the page is left,        *)
(* whatever is killed, comes late, or loses power                              *)
(* (upload_local, download_local, capture_script).                             *)
THEOREM TransfersWhole == MCSpec => []TransferWhole
<1>1. MCInit => TransferInv
  BY TransferInit DEF MCInit
<1>2. TransferInv /\ [MCNext]_<<part, vars, transferVars, outputVars, argumentVars, setupVars>> => TransferInv'
  <2>1. TransferInv /\ TransferPart => TransferInv'
    BY TransferStep DEF TransferPart
  <2>2. TransferInv /\ (CommandsPart \/ OutputPart \/ ArgumentsPart \/ SetupPart) => TransferInv'
    BY TransferRests DEF CommandsPart, OutputPart, ArgumentsPart, SetupPart
  <2>3. TransferInv /\ UNCHANGED <<part, vars, transferVars, outputVars, argumentVars, setupVars>> => TransferInv'
    BY TransferRests
  <2> QED  BY <2>1, <2>2, <2>3 DEF MCNext
<1>3. TransferInv => TransferWhole
  <2> SUFFICES ASSUME TransferInv PROVE TransferWhole
    OBVIOUS
  <2>1. Transfer!DestinationWhole
    BY DEF TransferInv, DownloadsRead, CommittedWhole, WholeBody, Upto, Transfer!DestinationWhole
  <2> QED  BY <2>1 DEF TransferInv, UploadsRead, TransferWhole
<1> QED  BY <1>1, <1>2, <1>3, PTL DEF MCSpec

-----------------------------------------------------------------------------
(* Induction *)

\* Induction over a set of numbers: no smallest number is missing from it.
LEMMA InductiveSet ==
  ASSUME NEW S, 0 \in S, \A n \in Nat : n \in S => n + 1 \in S
  PROVE  Nat \subseteq S
<1> DEFINE R == OpToRel(<, Nat)
           missing == Nat \ S
<1>1. IsWellFoundedOn(R, Nat)
  BY NatLessThanWellFounded
<1>2. \A x, y \in Nat : x < y => <<x, y>> \in R
  BY DEF OpToRel
<1>3. missing \subseteq Nat
  OBVIOUS
<1> HIDE DEF R, missing
<1>4. ASSUME missing # {} PROVE FALSE
  <2>1. PICK x \in missing : \A y \in missing : ~(<<y, x>> \in R)
    BY <1>1, <1>3, <1>4, WFMin
  <2>2. x \in Nat /\ x # 0 /\ x - 1 \in Nat /\ x - 1 < x
    BY <2>1 DEF missing
  <2>3. x - 1 \in S
    BY <1>2, <2>1, <2>2 DEF missing
  <2>4. x \in S
    BY <2>2, <2>3
  <2> QED
    BY <2>1, <2>4 DEF missing
<1> QED
  BY <1>4 DEF missing

\* Induction over sequences, by their last element.
LEMMA InductiveSequences ==
  ASSUME NEW S, NEW P, <<>> \in P, \A s \in Seq(S), e \in S : s \in P => Append(s, e) \in P
  PROVE  Seq(S) \subseteq P
<1> DEFINE N == {n \in Nat : \A s \in Seq(S) : Len(s) = n => s \in P}
<1>1. 0 \in N
  <2>1. \A s \in Seq(S) : Len(s) = 0 => s = <<>>
    OBVIOUS
  <2> QED  BY <2>1
<1>2. ASSUME NEW n \in Nat, n \in N PROVE n + 1 \in N
  <2>1. SUFFICES ASSUME NEW s \in Seq(S), Len(s) = n + 1 PROVE s \in P
    OBVIOUS
  <2>2. s # <<>>
    BY <2>1
  <2>3. PICK t \in Seq(S), e \in S : s = Append(t, e)
    BY <2>2, SequenceEmptyOrAppend
  <2>4. Len(t) = n
    BY <2>1, <2>3
  <2> QED  BY <1>2, <2>3, <2>4
<1> HIDE DEF N
<1>3. Nat \subseteq N
  BY <1>1, <1>2, InductiveSet
<1> QED  BY <1>3 DEF N

-----------------------------------------------------------------------------
(* Recursive functions over sequences *)

\* A sequence without its last element.
Shorter(s) == SubSeq(s, 1, Len(s) - 1)

\* Appending and taking the last element away undo one another.
LEMMA ShorterFacts ==
  ASSUME NEW S, NEW s \in Seq(S)
  PROVE  /\ \A e \in S : Append(s, e) # <<>> /\ Shorter(Append(s, e)) = s /\ Append(s, e)[Len(Append(s, e))] = e
         /\ s # <<>> => /\ Shorter(s) \in Seq(S) /\ s[Len(s)] \in S /\ s = Append(Shorter(s), s[Len(s)])
                        /\ Len(s) \in Nat \ {0} /\ Len(Shorter(s)) = Len(s) - 1
<1>1. ASSUME NEW t \in Seq(S), NEW e \in S
      PROVE  Append(t, e) # <<>> /\ Shorter(Append(t, e)) = t /\ Append(t, e)[Len(Append(t, e))] = e
  <2>1. /\ Append(t, e) \in Seq(S) /\ Append(t, e) # <<>> /\ Len(Append(t, e)) = Len(t) + 1 /\ Len(t) \in Nat
        /\ Append(t, e)[Len(t) + 1] = e /\ Append(t, e) = t \o <<e>>
    BY AppendProperties, AppendIsConcat
  <2>2. Shorter(Append(t, e)) = SubSeq(Append(t, e), 1, Len(t))
    BY <2>1 DEF Shorter
  <2>3. SubSeq(Append(t, e), 1, Len(t)) = t
    OBVIOUS
  <2> QED  BY <2>1, <2>2, <2>3
<1>2. ASSUME s # <<>>
      PROVE  /\ Shorter(s) \in Seq(S) /\ s[Len(s)] \in S /\ s = Append(Shorter(s), s[Len(s)])
             /\ Len(s) \in Nat \ {0} /\ Len(Shorter(s)) = Len(s) - 1
  <2>1. PICK t \in Seq(S), e \in S : s = Append(t, e)
    BY <1>2, SequenceEmptyOrAppend
  <2>2. Shorter(s) = t /\ s[Len(s)] = e /\ Len(s) = Len(t) + 1 /\ Len(t) \in Nat
    BY <1>1, <2>1, AppendProperties
  <2> QED  BY <2>1, <2>2
<1>3. \A e \in S : Append(s, e) # <<>> /\ Shorter(Append(s, e)) = s /\ Append(s, e)[Len(Append(s, e))] = e
  BY <1>1, Zenon
<1> QED  BY <1>2, <1>3, Zenon

\* f is what step makes of start, element by element, of the sequences up to a length.
Folds(f, start, step, s) == f[s] = IF s = <<>> THEN start ELSE step[<<f[Shorter(s)], s>>]
FoldsUpTo(f, start, step, S, n) == \A s \in Seq(S) : Len(s) <= n => Folds(f, start, step, s)

IsStep(step, S, A) == step \in [A \X (Seq(S) \ {<<>>}) -> A]
IsFold(f, S, A, start, step) ==
  f \in [Seq(S) -> A] /\ f = [s \in Seq(S) |-> IF s = <<>> THEN start ELSE step[<<f[Shorter(s)], s>>]]

\* There is such a function: every recursive function over sequences is one.
LEMMA FoldExists ==
  ASSUME NEW S, NEW A, NEW start \in A, NEW step, IsStep(step, S, A)
  PROVE  \E f : IsFold(f, S, A, start, step)
<1> USE DEF IsStep
<1>0. \A s \in Seq(S) : Len(s) \in Nat /\ (s # <<>> => Shorter(s) \in Seq(S) /\ Len(Shorter(s)) = Len(s) - 1 /\ Len(s) > 0)
  BY ShorterFacts
<1> DEFINE N == {n \in Nat : \E f \in [Seq(S) -> A] : FoldsUpTo(f, start, step, S, n)}
<1>1. 0 \in N
  <2> DEFINE f == [s \in Seq(S) |-> start]
  <2>1. FoldsUpTo(f, start, step, S, 0)
    BY <1>0 DEF FoldsUpTo, Folds
  <2> QED  BY <2>1
<1>2. ASSUME NEW n \in Nat, n \in N PROVE n + 1 \in N
  <2>1. PICK f \in [Seq(S) -> A] : FoldsUpTo(f, start, step, S, n)
    BY <1>2
  <2> DEFINE g == [s \in Seq(S) |-> IF s = <<>> THEN start ELSE step[<<f[Shorter(s)], s>>]]
  <2>2. g \in [Seq(S) -> A]
    <3>1. ASSUME NEW s \in Seq(S), s # <<>> PROVE step[<<f[Shorter(s)], s>>] \in A
      BY <1>0, <3>1
    <3> QED  BY <3>1
  <2>3. ASSUME NEW s \in Seq(S), Len(s) <= n + 1 PROVE Folds(g, start, step, s)
    <3>1. CASE s = <<>>
      BY <3>1 DEF Folds
    <3>2. CASE s # <<>>
      <4>1. Shorter(s) \in Seq(S) /\ Len(Shorter(s)) <= n
        BY <1>0, <2>3, <3>2
      <4>2. Folds(f, start, step, Shorter(s))
        BY <2>1, <4>1 DEF FoldsUpTo
      <4>3. g[Shorter(s)] = f[Shorter(s)]
        BY <4>1, <4>2 DEF Folds
      <4>4. g[s] = step[<<f[Shorter(s)], s>>]
        BY <3>2
      <4> HIDE DEF g
      <4> QED  BY <3>2, <4>3, <4>4 DEF Folds
    <3> QED  BY <3>1, <3>2
  <2> HIDE DEF g
  <2>4. FoldsUpTo(g, start, step, S, n + 1)
    BY <2>3 DEF FoldsUpTo
  <2> QED  BY <2>2, <2>4
<1> HIDE DEF N
<1>3. Nat \subseteq N
  BY <1>1, <1>2, InductiveSet
<1> DEFINE upTo(n) == CHOOSE f \in [Seq(S) -> A] : FoldsUpTo(f, start, step, S, n)
           F == [s \in Seq(S) |-> upTo(Len(s))[s]]
<1>4. \A n \in Nat : upTo(n) \in [Seq(S) -> A] /\ FoldsUpTo(upTo(n), start, step, S, n)
  BY <1>3 DEF N
<1> DEFINE P == {s \in Seq(S) : \A n \in Nat : Len(s) <= n => upTo(n)[s] = upTo(Len(s))[s]}
<1>5. \A s \in Seq(S) : s \in P
  <2> HIDE DEF upTo
  <2>1. ASSUME NEW s \in Seq(S), s = <<>> \/ (s # <<>> /\ Shorter(s) \in P) PROVE s \in P
    <3>1. SUFFICES ASSUME NEW n \in Nat, Len(s) <= n PROVE upTo(n)[s] = upTo(Len(s))[s]
      OBVIOUS
    <3>2. Folds(upTo(n), start, step, s) /\ Folds(upTo(Len(s)), start, step, s)
      BY <1>0, <1>4, <3>1 DEF FoldsUpTo
    <3>3. CASE s = <<>>
      BY <3>2, <3>3 DEF Folds
    <3>4. CASE s # <<>>
      <4>1. /\ Len(s) \in Nat /\ Len(Shorter(s)) <= n /\ Len(Shorter(s)) <= Len(s)
        BY <1>0, <3>1, <3>4
      <4>2. upTo(n)[Shorter(s)] = upTo(Len(s))[Shorter(s)]
        BY <2>1, <3>4, <4>1
      <4> QED  BY <3>2, <3>4, <4>2 DEF Folds
    <3> QED  BY <3>3, <3>4
  <2> HIDE DEF P
  <2>2. <<>> \in P
    <3>1. <<>> \in Seq(S)
      BY EmptySeq
    <3> QED  BY <2>1, <3>1
  <2>3. ASSUME NEW s \in Seq(S), NEW e \in S, s \in P PROVE Append(s, e) \in P
    <3>1. Append(s, e) \in Seq(S) /\ Append(s, e) # <<>> /\ Shorter(Append(s, e)) = s
      BY ShorterFacts
    <3> QED  BY <2>1, <2>3, <3>1
  <2> QED  BY <2>2, <2>3, InductiveSequences
<1>6. F \in [Seq(S) -> A]
  BY <1>0, <1>4
<1>7. ASSUME NEW s \in Seq(S) PROVE F[s] = IF s = <<>> THEN start ELSE step[<<F[Shorter(s)], s>>]
  <2>1. F[s] = upTo(Len(s))[s] /\ (s # <<>> => F[Shorter(s)] = upTo(Len(Shorter(s)))[Shorter(s)])
    BY <1>0
  <2> HIDE DEF upTo, F
  <2>2. Folds(upTo(Len(s)), start, step, s)
    BY <1>0, <1>4 DEF FoldsUpTo
  <2>3. CASE s # <<>>
    <3>1. Len(s) \in Nat /\ Len(Shorter(s)) <= Len(s) /\ Shorter(s) \in P
      BY <1>0, <1>5, <2>3
    <3> QED  BY <2>1, <2>2, <2>3, <3>1 DEF Folds
  <2> QED  BY <2>1, <2>2, <2>3 DEF Folds
<1>8. F = [s \in Seq(S) |-> F[s]]
  OBVIOUS
<1> HIDE DEF F
<1>9. F = [s \in Seq(S) |-> IF s = <<>> THEN start ELSE step[<<F[Shorter(s)], s>>]]
  BY <1>7, <1>8
<1> QED  BY <1>6, <1>9 DEF IsFold

-----------------------------------------------------------------------------
(* What is typed *)

Line == Tokens \cup {"--json", "eval"}
Lines == Seq(Line)

NothingTyped == [words |-> <<>>, options |-> <<>>, names |-> <<>>, wants |-> "nothing"]
Readings == [words : Lines, options : Lines, names : Lines, wants : {"nothing", "boolean", "value"}]

\* What a reading takes the next token for.
IsValue(r, token) == r.wants = "value" \/ (r.wants = "boolean" /\ token \in Arguments!Booleans)
AsValue(r, token) == [r EXCEPT !.options = Append(@, token), !.wants = "nothing"]
AsOption(r, token) ==
  [r EXCEPT !.options = Append(@, token), !.names = Append(@, token),
            !.wants = IF token \in Arguments!TakesValue THEN "value" ELSE "boolean"]
AsWord(r, token) == [r EXCEPT !.words = Append(@, token), !.wants = "nothing"]
ReadNext(r, token) ==
  IF IsValue(r, token) THEN AsValue(r, token)
  ELSE IF token \in Arguments!OptionLike THEN AsOption(r, token) ELSE AsWord(r, token)

\* What the next token adds to a reading.
LEMMA ReadingMoves ==
  ASSUME NEW r \in Readings, NEW token \in Line
  PROVE  /\ AsValue(r, token) \in Readings /\ AsOption(r, token) \in Readings /\ AsWord(r, token) \in Readings
         /\ AsValue(r, token).words = r.words /\ AsValue(r, token).options = Append(r.options, token)
         /\ AsValue(r, token).names = r.names /\ AsValue(r, token).wants = "nothing"
         /\ AsOption(r, token).words = r.words /\ AsOption(r, token).options = Append(r.options, token)
         /\ AsOption(r, token).names = Append(r.names, token)
         /\ AsOption(r, token).wants = IF token \in Arguments!TakesValue THEN "value" ELSE "boolean"
         /\ AsWord(r, token).words = Append(r.words, token) /\ AsWord(r, token).options = r.options
         /\ AsWord(r, token).names = r.names /\ AsWord(r, token).wants = "nothing"
         /\ ReadNext(r, token) \in Readings
<1>1. /\ r.words \in Lines /\ r.options \in Lines /\ r.names \in Lines
      /\ r = [words |-> r.words, options |-> r.options, names |-> r.names, wants |-> r.wants]
  BY DEF Readings
<1>2. Append(r.words, token) \in Lines /\ Append(r.options, token) \in Lines /\ Append(r.names, token) \in Lines
  BY <1>1, AppendProperties DEF Lines
<1>3. AsValue(r, token) \in Readings /\ AsOption(r, token) \in Readings /\ AsWord(r, token) \in Readings
  BY <1>1, <1>2 DEF AsValue, AsOption, AsWord, Readings
<1>4. ReadNext(r, token) \in Readings
  BY <1>3 DEF ReadNext
<1>5. /\ AsValue(r, token).words = r.words /\ AsValue(r, token).options = Append(r.options, token)
      /\ AsValue(r, token).names = r.names /\ AsValue(r, token).wants = "nothing"
  BY <1>1 DEF AsValue
<1>6. /\ AsOption(r, token).words = r.words /\ AsOption(r, token).options = Append(r.options, token)
      /\ AsOption(r, token).names = Append(r.names, token)
      /\ AsOption(r, token).wants = IF token \in Arguments!TakesValue THEN "value" ELSE "boolean"
  BY <1>1 DEF AsOption
<1>7. /\ AsWord(r, token).words = Append(r.words, token) /\ AsWord(r, token).options = r.options
      /\ AsWord(r, token).names = r.names /\ AsWord(r, token).wants = "nothing"
  BY <1>1 DEF AsWord
<1> QED  BY <1>3, <1>4, <1>5, <1>6, <1>7

\* The reference reads one token after the other.
LEMMA TypedFacts ==
  /\ Arguments!AsTyped[<<>>] = NothingTyped
  /\ \A s \in Lines : /\ Arguments!AsTyped[s] \in Readings
                      /\ \A e \in Line : Arguments!AsTyped[Append(s, e)] = ReadNext(Arguments!AsTyped[s], e)
<1> DEFINE step == [x \in Readings \X (Seq(Line) \ {<<>>}) |-> ReadNext(x[1], x[2][Len(x[2])])]
           T == Arguments!AsTyped
<1>1. NothingTyped \in Readings
  BY EmptySeq DEF NothingTyped, Readings, Lines
<1>2. ASSUME NEW r \in Readings, NEW s \in Seq(Line) \ {<<>>}
      PROVE  step[<<r, s>>] = ReadNext(r, s[Len(s)]) /\ step[<<r, s>>] \in Readings
  <2>1. s[Len(s)] \in Line
    BY ShorterFacts
  <2> QED  BY <2>1, ReadingMoves
<1>3. step \in [Readings \X (Seq(Line) \ {<<>>}) -> Readings]
  <2>1. ASSUME NEW x \in Readings \X (Seq(Line) \ {<<>>}) PROVE step[x] \in Readings
    <3>1. x[1] \in Readings /\ x[2] \in Seq(Line) \ {<<>>} /\ x = <<x[1], x[2]>>
      OBVIOUS
    <3> HIDE DEF step
    <3> QED  BY <1>2, <3>1
  <2>2. step = [x \in Readings \X (Seq(Line) \ {<<>>}) |-> step[x]]
    OBVIOUS
  <2> HIDE DEF step
  <2> QED  BY <2>1, <2>2
<1> HIDE DEF step
<1>4. PICK f : IsFold(f, Line, Readings, NothingTyped, step)
  BY <1>1, <1>3, FoldExists DEF IsStep
<1>5. ASSUME NEW s \in Seq(Line)
      PROVE f[s] = IF s = <<>> THEN NothingTyped ELSE ReadNext(f[Shorter(s)], s[Len(s)])
  <2>1. f[s] = IF s = <<>> THEN NothingTyped ELSE step[<<f[Shorter(s)], s>>]
    BY <1>4 DEF IsFold
  <2>2. s # <<>> => f[Shorter(s)] \in Readings
    BY <1>4, ShorterFacts DEF IsFold
  <2> QED  BY <1>2, <2>1, <2>2
<1> DEFINE Eq(g) == g = [line \in Seq(Tokens \cup {"--json", "eval"}) |->
  IF line = <<>> THEN [words |-> <<>>, options |-> <<>>, names |-> <<>>, wants |-> "nothing"]
  ELSE LET before == g[SubSeq(line, 1, Len(line) - 1)]
           token == line[Len(line)]
       IN IF before.wants = "value" \/ (before.wants = "boolean" /\ token \in Arguments!Booleans)
          THEN [before EXCEPT !.options = Append(@, token), !.wants = "nothing"]
          ELSE IF token \in Arguments!OptionLike
          THEN [before EXCEPT !.options = Append(@, token), !.names = Append(@, token),
                              !.wants = IF token \in Arguments!TakesValue THEN "value" ELSE "boolean"]
          ELSE [before EXCEPT !.words = Append(@, token), !.wants = "nothing"]]
<1>6. Eq(f)
  <2>1. f = [s \in Seq(Line) |-> IF s = <<>> THEN NothingTyped ELSE ReadNext(f[Shorter(s)], s[Len(s)])]
    BY <1>4, <1>5 DEF IsFold
  <2> QED  BY <2>1 DEF ReadNext, IsValue, AsValue, AsOption, AsWord, NothingTyped, Line, Shorter
<1>7. Eq(T)
  <2>1. T = CHOOSE g : Eq(g)
    BY DEF Arguments!AsTyped
  <2> HIDE DEF Eq, T
  <2> QED  BY <1>6, <2>1
<1>8. T = [s \in Seq(Line) |-> IF s = <<>> THEN NothingTyped ELSE ReadNext(T[Shorter(s)], s[Len(s)])]
  BY <1>7 DEF ReadNext, IsValue, AsValue, AsOption, AsWord, NothingTyped, Line, Shorter
<1> HIDE DEF T
<1>9. T[<<>>] = NothingTyped
  BY <1>8, EmptySeq
<1>10. ASSUME NEW s \in Seq(Line), NEW e \in Line PROVE T[Append(s, e)] = ReadNext(T[s], e)
  <2>1. /\ Append(s, e) \in Seq(Line) /\ Append(s, e) # <<>> /\ Shorter(Append(s, e)) = s
        /\ Append(s, e)[Len(Append(s, e))] = e
    BY ShorterFacts, AppendProperties
  <2>2. PICK t \in Seq(Line) : t = Append(s, e)
    BY <2>1
  <2>3. T[t] = IF t = <<>> THEN NothingTyped ELSE ReadNext(T[Shorter(t)], t[Len(t)])
    BY <1>8
  <2> QED  BY <2>1, <2>2, <2>3
<1> DEFINE P == {s \in Seq(Line) : T[s] \in Readings}
<1>11. <<>> \in P
  BY <1>1, <1>9, EmptySeq
<1>12. \A s \in Seq(Line), e \in Line : s \in P => Append(s, e) \in P
  <2>1. ASSUME NEW s \in Seq(Line), NEW e \in Line, T[s] \in Readings
        PROVE  T[Append(s, e)] \in Readings /\ Append(s, e) \in Seq(Line)
    <3>1. ReadNext(T[s], e) \in Readings
      BY <2>1, ReadingMoves
    <3>2. Append(s, e) \in Seq(Line)
      BY AppendProperties
    <3> QED  BY <1>10, <3>1, <3>2
  <2> QED  BY <2>1
<1> HIDE DEF P
<1>13. Seq(Line) \subseteq P
  BY <1>11, <1>12, InductiveSequences
<1>14. /\ T[<<>>] = NothingTyped
       /\ \A s \in Lines : T[s] \in Readings /\ \A e \in Line : T[Append(s, e)] = ReadNext(T[s], e)
  BY <1>9, <1>10, <1>13 DEF P, Lines
<1> QED  BY <1>14 DEF T

Typed(line) == Arguments!AsTyped[line]
Starting(line, n) == SubSeq(line, 1, n)

\* A line grows token by token.
LEMMA StartingFacts ==
  ASSUME NEW line \in Lines
  PROVE  /\ Starting(line, 0) = <<>> /\ Starting(line, Len(line)) = line
         /\ \A n \in 0..Len(line) : Starting(line, n) \in Lines
         /\ \A n \in 0..(Len(line) - 1) : Starting(line, n + 1) = Append(Starting(line, n), line[n + 1]) /\ line[n + 1] \in Line
<1>0. line \in Seq(Line) /\ Len(line) \in Nat
  BY DEF Lines
<1>1. Starting(line, 0) = <<>>
  BY SubSeqEmpty DEF Starting
<1>2. Starting(line, Len(line)) = line
  BY <1>0, SubSeqFull DEF Starting
<1>3. \A n \in 0..Len(line) : Starting(line, n) \in Lines
  BY <1>0 DEF Starting, Lines
<1>4. ASSUME NEW n \in 0..(Len(line) - 1)
      PROVE  Starting(line, n + 1) = Append(Starting(line, n), line[n + 1]) /\ line[n + 1] \in Line
  <2>1. n + 1 \in 1..Len(line) /\ (n + 1) - 1 = n /\ 1 \in 1..Len(line) /\ n \in 0..Len(line) /\ n + 1 \in 1..Len(line)
    BY <1>0
  <2>2. SubSeq(line, 1, n + 1) = SubSeq(line, 1, (n + 1) - 1) \o <<line[n + 1]>>
    BY <1>0, <2>1, SubSeqRecursiveSecond
  <2>3. line[n + 1] \in Line
    BY <1>0, <2>1
  <2>4. Append(Starting(line, n), line[n + 1]) = Starting(line, n) \o <<line[n + 1]>>
    BY <1>3, <2>1, <2>3, AppendIsConcat DEF Lines
  <2> QED  BY <2>1, <2>2, <2>3, <2>4 DEF Starting
<1> QED  BY <1>1, <1>2, <1>3, <1>4

\* The token after the first n is read by itself.
Boundary(line, n) ==
  /\ Typed(Starting(line, n)).wants # "value"
  /\ n < Len(line) => ~IsValue(Typed(Starting(line, n)), line[n + 1])

\* So does what was read of it.
LEMMA TypedStarting ==
  ASSUME NEW line \in Lines, NEW n \in 0..(Len(line) - 1)
  PROVE  /\ Typed(Starting(line, n)) \in Readings
         /\ Typed(Starting(line, n + 1)) = ReadNext(Typed(Starting(line, n)), line[n + 1])
         /\ line[n + 1] \in Line
<1>1. Starting(line, n) \in Lines /\ Starting(line, n + 1) = Append(Starting(line, n), line[n + 1]) /\ line[n + 1] \in Line
  <2>1. n \in 0..Len(line)
    BY DEF Lines
  <2> QED  BY <2>1, StartingFacts
<1> QED  BY <1>1, TypedFacts DEF Typed

\* A word is read as one where the tokens before it leave nothing open.
LEMMA WordRead ==
  ASSUME NEW line \in Lines, NEW n \in 0..(Len(line) - 1), Boundary(line, n), line[n + 1] \notin Arguments!OptionLike
  PROVE  /\ Typed(Starting(line, n + 1)).words = Append(Typed(Starting(line, n)).words, line[n + 1])
         /\ Typed(Starting(line, n + 1)).options = Typed(Starting(line, n)).options
         /\ Boundary(line, n + 1)
<1>1. ~IsValue(Typed(Starting(line, n)), line[n + 1])
  BY DEF Boundary, Lines
<1>2. Typed(Starting(line, n + 1)) = AsWord(Typed(Starting(line, n)), line[n + 1])
  BY <1>1, TypedStarting DEF ReadNext
<1>3. Typed(Starting(line, n + 1)).wants = "nothing"
  BY <1>2, TypedStarting, ReadingMoves
<1> QED  BY <1>2, <1>3, TypedStarting, ReadingMoves DEF Boundary, IsValue

\* Which tokens are options, values and words.
LEMMA Apart ==
  /\ Arguments!OptionLike \cap Arguments!Booleans = {} /\ Arguments!TakesValue \subseteq Arguments!OptionLike
  /\ "--json" \in Arguments!OptionLike /\ "--json" \notin Arguments!TakesValue
  /\ "eval" \notin Arguments!OptionLike /\ "eval" \notin Arguments!Booleans
  /\ {"upload", "download"} \cap Arguments!OptionLike = {}
BY DEF Arguments!OptionLike, Arguments!Booleans, Arguments!TakesValue, Arguments!Owned, Arguments!Switches, Arguments!Joined

\* How many tokens belong to the option at n + 1.
OptionWidth(line, n) ==
  IF line[n + 1] \in Arguments!TakesValue \/ (n + 1 < Len(line) /\ line[n + 2] \in Arguments!Booleans) THEN 2 ELSE 1

\* An option is read with its value.
LEMMA OptionRead ==
  ASSUME NEW line \in Lines, NEW n \in 0..(Len(line) - 1), Boundary(line, n), line[n + 1] \in Arguments!OptionLike
  PROVE  /\ Typed(Starting(line, n + 1)).words = Typed(Starting(line, n)).words
         /\ OptionWidth(line, n) = 1 =>
              /\ Typed(Starting(line, n + 1)).options = Append(Typed(Starting(line, n)).options, line[n + 1])
              /\ Boundary(line, n + 1)
         /\ OptionWidth(line, n) = 2 /\ n + 1 < Len(line) =>
              /\ Typed(Starting(line, n + 2)).words = Typed(Starting(line, n)).words
              /\ Typed(Starting(line, n + 2)).options = Append(Append(Typed(Starting(line, n)).options, line[n + 1]), line[n + 2])
              /\ Boundary(line, n + 2)
<1>0. Len(line) \in Nat /\ n \in Nat /\ n < Len(line) /\ (n + 1) + 1 = n + 2
  BY DEF Lines
<1>1. ~IsValue(Typed(Starting(line, n)), line[n + 1])
  BY <1>0 DEF Boundary
<1>2. Typed(Starting(line, n + 1)) = AsOption(Typed(Starting(line, n)), line[n + 1])
  BY <1>1, TypedStarting DEF ReadNext
<1>3. /\ Typed(Starting(line, n + 1)).words = Typed(Starting(line, n)).words
      /\ Typed(Starting(line, n + 1)).options = Append(Typed(Starting(line, n)).options, line[n + 1])
      /\ Typed(Starting(line, n + 1)).wants = IF line[n + 1] \in Arguments!TakesValue THEN "value" ELSE "boolean"
  BY <1>2, TypedStarting, ReadingMoves
<1>4. ASSUME OptionWidth(line, n) = 1 PROVE Boundary(line, n + 1)
  <2>1. line[n + 1] \notin Arguments!TakesValue /\ ~(n + 1 < Len(line) /\ line[n + 2] \in Arguments!Booleans)
    BY <1>4 DEF OptionWidth
  <2> QED  BY <1>0, <1>3, <2>1 DEF Boundary, IsValue
<1>5. ASSUME OptionWidth(line, n) = 2, n + 1 < Len(line)
      PROVE  /\ Typed(Starting(line, n + 2)).words = Typed(Starting(line, n + 1)).words
             /\ Typed(Starting(line, n + 2)).options = Append(Typed(Starting(line, n + 1)).options, line[n + 2])
             /\ Boundary(line, n + 2)
  <2>1. n + 1 \in 0..(Len(line) - 1)
    BY <1>0, <1>5
  <2>2. line[n + 1] \in Arguments!TakesValue \/ line[n + 2] \in Arguments!Booleans
    BY <1>5 DEF OptionWidth
  <2>3. IsValue(Typed(Starting(line, n + 1)), line[n + 2])
    BY <1>3, <2>2 DEF IsValue
  <2>4. /\ Typed(Starting(line, n + 1)) \in Readings /\ line[n + 2] \in Line
        /\ Typed(Starting(line, n + 2)) = ReadNext(Typed(Starting(line, n + 1)), line[n + 2])
    BY <1>0, <2>1, TypedStarting
  <2>5. Typed(Starting(line, n + 2)) = AsValue(Typed(Starting(line, n + 1)), line[n + 2])
    BY <2>3, <2>4 DEF ReadNext
  <2>6. Typed(Starting(line, n + 2)).wants = "nothing"
    <3>1. \A r \in Readings, token \in Line : AsValue(r, token).wants = "nothing"
      BY ReadingMoves
    <3> QED  BY <2>4, <2>5, <3>1, Zenon
  <2>7. Boundary(line, n + 2)
    BY <2>6 DEF Boundary, IsValue
  <2> QED  BY <2>4, <2>5, <2>7, ReadingMoves, SMTT(20)
<1> QED  BY <1>3, <1>4, <1>5

\* A line in which no word was read is options.
LEMMA OnlyOptions ==
  ASSUME NEW line \in Lines, Typed(line).words = <<>>
  PROVE  Typed(line).options = line
<1> DEFINE P == {s \in Lines : Typed(s).words = <<>> => Typed(s).options = s}
<1>1. <<>> \in P
  BY TypedFacts, EmptySeq DEF Typed, NothingTyped, Lines
<1>2. ASSUME NEW s \in Seq(Line), NEW e \in Line, s \in P PROVE Append(s, e) \in P
  <2>0. Append(s, e) \in Lines /\ s \in Lines
    BY AppendProperties DEF Lines
  <2>1. Typed(s) \in Readings /\ Typed(Append(s, e)) = ReadNext(Typed(s), e)
    BY <2>0, TypedFacts DEF Typed
  <2>2. SUFFICES ASSUME Typed(Append(s, e)).words = <<>> PROVE Typed(Append(s, e)).options = Append(s, e)
    BY <2>0
  <2>3. Append(Typed(s).words, e) # <<>>
    BY <2>1, AppendProperties DEF Readings, Lines
  <2>4. Typed(Append(s, e)) \in {AsValue(Typed(s), e), AsOption(Typed(s), e)}
    BY <2>1, <2>2, <2>3, ReadingMoves DEF ReadNext
  <2>5. Typed(Append(s, e)).words = Typed(s).words /\ Typed(Append(s, e)).options = Append(Typed(s).options, e)
    <3>1. PICK r \in Readings : r = Typed(s)
      BY <2>1
    <3>2. PICK q : q = Typed(Append(s, e))
      OBVIOUS
    <3>3. q.words = r.words /\ q.options = Append(r.options, e)
      <4>1. /\ AsValue(r, e).words = r.words /\ AsValue(r, e).options = Append(r.options, e)
            /\ AsOption(r, e).words = r.words /\ AsOption(r, e).options = Append(r.options, e)
        BY ReadingMoves
      <4>2. q = AsValue(r, e) \/ q = AsOption(r, e)
        BY <2>4, <3>1, <3>2
      <4> QED  BY <4>1, <4>2, Zenon
    <3> QED  BY <3>1, <3>2, <3>3, Zenon
  <2> QED  BY <1>2, <2>2, <2>5
<1> HIDE DEF P
<1>3. Seq(Line) \subseteq P
  BY <1>1, <1>2, InductiveSequences
<1> QED  BY <1>3 DEF P, Lines

\* The names that are read are tokens of the line.
LEMMA NamesTyped ==
  ASSUME NEW line \in Lines, NEW i \in DOMAIN Typed(line).names
  PROVE  \E j \in DOMAIN line : Typed(line).names[i] = line[j]
<1> DEFINE Occurs(token, s) == \E j \in DOMAIN s : token = s[j]
           P == {s \in Lines : \A k \in DOMAIN Typed(s).names : Occurs(Typed(s).names[k], s)}
<1>1. <<>> \in P
  BY TypedFacts, EmptySeq DEF Typed, NothingTyped, Lines
<1>2. ASSUME NEW s \in Seq(Line), NEW e \in Line, s \in P PROVE Append(s, e) \in P
  <2>0. Append(s, e) \in Lines /\ s \in Lines
    BY AppendProperties DEF Lines
  <2>1. Typed(s) \in Readings /\ Typed(Append(s, e)) = ReadNext(Typed(s), e)
    BY <2>0, TypedFacts DEF Typed
  <2>2. Typed(Append(s, e)).names \in {Typed(s).names, Append(Typed(s).names, e)}
    BY <2>1, ReadingMoves DEF ReadNext
  <2>3. PICK old1 \in Seq(Line) : old1 = Typed(s).names
    BY <2>1 DEF Readings, Lines
  <2>4. \A token : Occurs(token, s) => Occurs(token, Append(s, e))
    OBVIOUS
  <2>5. Occurs(e, Append(s, e))
    <3>1. Append(s, e)[Len(s) + 1] = e /\ Len(s) + 1 \in DOMAIN Append(s, e)
      OBVIOUS
    <3> QED  BY <3>1
  <2> HIDE DEF Occurs
  <2>6. ASSUME NEW k \in DOMAIN Typed(Append(s, e)).names PROVE Occurs(Typed(Append(s, e)).names[k], Append(s, e))
    <3>1. CASE Typed(Append(s, e)).names = old1
      BY <1>2, <2>3, <2>4, <2>6, <3>1
    <3>2. CASE Typed(Append(s, e)).names = Append(old1, e)
      <4>1. k \in DOMAIN Append(old1, e)
        BY <2>6, <3>2
      <4>2. (k \in DOMAIN old1 /\ Append(old1, e)[k] = old1[k]) \/ Append(old1, e)[k] = e
        BY <4>1
      <4>3. k \in DOMAIN old1 => Occurs(old1[k], s)
        BY <1>2, <2>3
      <4> QED  BY <2>4, <2>5, <3>2, <4>2, <4>3
    <3> QED  BY <2>2, <2>3, <3>1, <3>2
  <2> QED  BY <2>0, <2>6
<1> HIDE DEF P
<1>3. Seq(Line) \subseteq P
  BY <1>1, <1>2, InductiveSequences
<1> QED  BY <1>3 DEF P, Lines

\* The first word that is read stays the first.
LEMMA FirstWordStays ==
  ASSUME NEW line \in Lines, NEW n \in 0..Len(line), NEW word, Typed(Starting(line, n)).words = <<word>>
  PROVE  Typed(line).words # <<>> /\ Typed(line).words[1] = word
<1> DEFINE Begins(s) == Typed(s).words # <<>> /\ Typed(s).words[1] = word
           N == {m \in Nat : n + m <= Len(line) => Begins(Starting(line, n + m))}
<1>0. Len(line) \in Nat /\ n \in Nat
  BY DEF Lines
<1>1. 0 \in N
  BY <1>0
<1>2. ASSUME NEW m \in Nat, m \in N PROVE m + 1 \in N
  <2>1. SUFFICES ASSUME n + (m + 1) <= Len(line) PROVE Begins(Starting(line, n + (m + 1)))
    BY <1>0
  <2>2. n + m \in 0..(Len(line) - 1) /\ (n + m) + 1 = n + (m + 1) /\ n + m <= Len(line)
    BY <1>0, <2>1
  <2>3. PICK k \in 0..(Len(line) - 1) : k = n + m
    BY <2>2
  <2>4. /\ Typed(Starting(line, k)) \in Readings /\ line[k + 1] \in Line
        /\ Typed(Starting(line, k + 1)) = ReadNext(Typed(Starting(line, k)), line[k + 1])
    BY TypedStarting
  <2>5. Begins(Starting(line, k))
    BY <1>2, <2>2, <2>3
  <2>6. Typed(Starting(line, k + 1)).words \in {Typed(Starting(line, k)).words, Append(Typed(Starting(line, k)).words, line[k + 1])}
    BY <2>4, ReadingMoves, SMTT(20) DEF ReadNext
  <2>7. PICK w \in Seq(Line) : w = Typed(Starting(line, k)).words
    BY <2>4 DEF Readings, Lines
  <2>8. w # <<>> => Append(w, line[k + 1]) # <<>> /\ Append(w, line[k + 1])[1] = w[1]
    BY <2>4
  <2>9. Begins(Starting(line, k + 1))
    BY <2>5, <2>6, <2>7, <2>8
  <2> QED  BY <2>2, <2>3, <2>9
<1> HIDE DEF N
<1>3. Nat \subseteq N
  BY <1>1, <1>2, InductiveSet
<1>4. Len(line) - n \in Nat /\ n + (Len(line) - n) = Len(line)
  BY <1>0
<1>5. Begins(Starting(line, Len(line)))
  BY <1>0, <1>3, <1>4 DEF N
<1> QED  BY <1>5, StartingFacts

\* The command is the first token that is read as a word.
CommandFound ==
  /\ first = 0 => Typed(args).words = <<>>
  /\ first # 0 => /\ Boundary(args, first - 1) /\ Typed(Starting(args, first - 1)).words = <<>>
                  /\ args[first] \notin Arguments!OptionLike

\* Options that a helper command may follow.
OptionsClosed(line) == line \in Lines /\ Typed(line).words = <<>> /\ Typed(line).wants # "value"

SelectorIsOption == first # 0 /\ args[first] = "upload" /\ args[first + 1] \in Arguments!OptionLike

\* What was split is what the controller takes of the tokens so far.
SplitSoFar ==
  ~SelectorIsOption =>
    /\ Boundary(args, at - 1)
    /\ words = Typed(Starting(args, at - 1)).words /\ options = Typed(Starting(args, at - 1)).options

ArgumentTypes ==
  /\ args \in Seq(Tokens) /\ at \in Nat \ {0} /\ first \in 0..Len(args)
  /\ reading \in {"find", "check", "split", "native", "transfer", "refused"}

Searching ==
  /\ first = 0 /\ options = <<>> /\ words = <<>> /\ at <= Len(args) + 2
  /\ at <= Len(args) + 1 => Boundary(args, at - 1) /\ Typed(Starting(args, at - 1)).words = <<>>
  /\ at = Len(args) + 2 => Typed(args).words = <<>>

Splitting ==
  /\ first # 0 /\ args[first] \in {"upload", "download"}
  /\ OptionsClosed(options) /\ at <= Len(args) + 1 /\ SplitSoFar

ArgumentsInv ==
  /\ ArgumentTypes
  /\ reading = "find" => Searching
  /\ reading # "find" => CommandFound
  /\ reading = "check" => options = <<>> /\ words = <<>>
  /\ reading \in {"split", "native", "transfer"} => ~Arguments!Refused
  /\ reading \in {"split", "transfer"} => Splitting
  /\ reading = "transfer" => at = Len(args) + 1

\* A line is a sequence of tokens.
LEMMA ArgumentFacts ==
  ASSUME ArgumentTypes
  PROVE  /\ args \in Lines /\ Len(args) \in Nat /\ DOMAIN args = 1..Len(args)
         /\ \A i \in 1..Len(args) : args[i] \in Line
BY DEF ArgumentTypes, Lines, Line

\* The invariant of the arguments holds before the first token.
LEMMA ArgumentsInit == Arguments!Init => ArgumentsInv
<1> SUFFICES ASSUME Arguments!Init PROVE ArgumentsInv
  OBVIOUS
<1>1. args \in Seq(Tokens)
  <2>1. PICK n \in 0..MaxArgs : args \in [1..n -> Tokens]
    BY DEF Arguments!Init
  <2>2. n \in Nat
    BY PartsAssumption DEF Arguments!ArgumentsAssumption
  <2> QED  BY <2>1, <2>2
<1>2. at = 1 /\ first = 0 /\ reading = "find" /\ options = <<>> /\ words = <<>>
  BY DEF Arguments!Init
<1>3. ArgumentTypes
  BY <1>1, <1>2 DEF ArgumentTypes
<1>4. args \in Lines /\ Len(args) \in Nat /\ at - 1 = 0
  BY <1>2, <1>3, ArgumentFacts
<1>5. Typed(Starting(args, at - 1)) = NothingTyped
  BY <1>4, StartingFacts, TypedFacts DEF Typed
<1>6. Boundary(args, at - 1) /\ Typed(Starting(args, at - 1)).words = <<>>
  BY <1>5 DEF Boundary, IsValue, NothingTyped
<1>7. Searching
  BY <1>2, <1>4, <1>6 DEF Searching
<1> QED  BY <1>2, <1>3, <1>7 DEF ArgumentsInv

\* The width the code finds is that of the option read.
LEMMA WidthIs ==
  ASSUME ArgumentTypes, at <= Len(args)
  PROVE  Arguments!Width(at) = OptionWidth(args, at - 1) /\ Arguments!Width(at) \in {1, 2} /\ at - 1 \in 0..(Len(args) - 1)
<1>1. at \in Nat \ {0} /\ (at - 1) + 1 = at /\ (at - 1) + 2 = at + 1 /\ DOMAIN args = 1..Len(args) /\ Len(args) \in Nat
  BY ArgumentFacts DEF ArgumentTypes
<1>2. at + 1 \in DOMAIN args <=> at < Len(args)
  BY <1>1
<1> QED  BY <1>1, <1>2 DEF Arguments!Width, Arguments!Is, OptionWidth

\* Places of a line of some length, after an option of some width.
LEMMA Places ==
  ASSUME NEW len \in Nat, NEW n \in 0..(len - 1), NEW width \in {1, 2}, NEW next, next = (n + 1) + width
  PROVE  /\ next \in Nat \ {0} /\ next <= len + 2 /\ next - 1 = n + width
         /\ next <= len + 1 /\ width = 2 => n + 1 < len
         /\ n + 1 < len => next <= len + 1 /\ n + 2 \in 1..len
         /\ width = 1 => next <= len + 1 /\ (n + 1) + width - 1 = n + 1
         /\ width = 2 => (n + 1) + width - 1 = n + 2
         /\ next = len + 2 => n + 1 = len
         /\ n + 1 < len \/ n + 1 = len
OBVIOUS

\* Skipping options finds no word.
LEMMA SkipStep ==
  ASSUME ArgumentsInv, Arguments!SkipOption
  PROVE  ArgumentsInv'
<1>1. /\ reading = "find" /\ at \in DOMAIN args /\ args[at] \in Arguments!OptionLike /\ at' = at + Arguments!Width(at)
      /\ UNCHANGED <<args, reading, first, options, words>>
  BY DEF Arguments!SkipOption, Arguments!Is
<1>2. /\ ArgumentTypes /\ Searching /\ args \in Lines /\ Len(args) \in Nat /\ DOMAIN args = 1..Len(args)
      /\ at \in 1..Len(args) /\ (at - 1) + 1 = at
  BY <1>1, ArgumentFacts DEF ArgumentsInv
<1>3. PICK n \in 0..(Len(args) - 1) : n = at - 1
  BY <1>2
<1>4. /\ Arguments!Width(at) = OptionWidth(args, n) /\ Arguments!Width(at) \in {1, 2}
      /\ at = n + 1 /\ args[n + 1] \in Arguments!OptionLike
      /\ Boundary(args, n) /\ Typed(Starting(args, n)).words = <<>>
  BY <1>1, <1>2, <1>3, WidthIs DEF Searching
<1>5. /\ at' \in Nat \ {0} /\ at' <= Len(args) + 2 /\ at' - 1 = n + Arguments!Width(at)
      /\ at' <= Len(args) + 1 /\ Arguments!Width(at) = 2 => n + 1 < Len(args)
      /\ at' = Len(args) + 2 => n + 1 = Len(args)
  <2>1. at' = (n + 1) + Arguments!Width(at)
    BY <1>1, <1>4
  <2>2. Len(args) \in Nat /\ Arguments!Width(at) \in {1, 2}
    BY <1>2, <1>4
  <2>3. at' \in Nat \ {0} /\ at' <= Len(args) + 2 /\ at' - 1 = n + Arguments!Width(at)
    BY <2>1, <2>2, Places
  <2>4. at' <= Len(args) + 1 /\ Arguments!Width(at) = 2 => n + 1 < Len(args)
    BY <2>1, <2>2, Places
  <2>5. at' = Len(args) + 2 => n + 1 = Len(args)
    BY <2>1, <2>2, Places
  <2> QED  BY <2>3, <2>4, <2>5
<1>6. Typed(Starting(args, n + 1)).words = <<>>
  BY <1>2, <1>4, OptionRead
<1>7. ASSUME at' <= Len(args) + 1
      PROVE  Boundary(args, at' - 1) /\ Typed(Starting(args, at' - 1)).words = <<>>
  <2>1. CASE Arguments!Width(at) = 1
    BY <1>2, <1>4, <1>5, <1>6, <2>1, OptionRead
  <2>2. CASE Arguments!Width(at) = 2
    <3>1. n + 1 < Len(args) /\ at' - 1 = n + 2
      BY <1>5, <1>7, <2>2
    <3> QED  BY <1>2, <1>4, <2>2, <3>1, OptionRead
  <2> QED  BY <1>4, <2>1, <2>2
<1>8. ASSUME at' = Len(args) + 2 PROVE Typed(args).words = <<>>
  <2>1. n + 1 = Len(args)
    BY <1>5, <1>8
  <2> QED  BY <1>2, <1>6, <2>1, StartingFacts
<1> QED  BY <1>1, <1>2, <1>5, <1>7, <1>8 DEF ArgumentsInv, ArgumentTypes, Searching

\* The first word found is the first word read.
LEMMA FoundStep ==
  ASSUME ArgumentsInv, Arguments!Found
  PROVE  ArgumentsInv'
<1>1. /\ reading = "find" /\ ~(at \in DOMAIN args /\ args[at] \in Arguments!OptionLike)
      /\ first' = IF at \in DOMAIN args THEN at ELSE 0
      /\ reading' = "check" /\ UNCHANGED <<args, at, options, words>>
  BY DEF Arguments!Found, Arguments!Is
<1>2. /\ ArgumentTypes /\ Searching /\ args \in Lines /\ Len(args) \in Nat /\ DOMAIN args = 1..Len(args) /\ at \in Nat \ {0}
  BY <1>1, ArgumentFacts DEF ArgumentsInv, ArgumentTypes
<1>3. CommandFound'
  <2>1. CASE at \in DOMAIN args
    <3>1. first' = at /\ args[at] \notin Arguments!OptionLike /\ at <= Len(args) + 1
      BY <1>1, <1>2, <2>1
    <3> QED  BY <1>1, <1>2, <3>1 DEF CommandFound, Searching
  <2>2. CASE at \notin DOMAIN args
    <3>1. first' = 0 /\ at > Len(args)
      BY <1>1, <1>2, <2>2
    <3>2. at = Len(args) + 1 => at - 1 = Len(args)
      BY <1>2
    <3>3. Typed(args).words = <<>>
      BY <1>2, <3>1, <3>2, StartingFacts DEF Searching
    <3> QED  BY <1>1, <3>1, <3>3 DEF CommandFound
  <2> QED  BY <2>1, <2>2
<1>4. first' \in 0..Len(args)
  BY <1>1, <1>2
<1> QED  BY <1>1, <1>2, <1>3, <1>4 DEF ArgumentsInv, ArgumentTypes, Searching

\* The word at the place of the command.
LEMMA CommandRead ==
  ASSUME ArgumentTypes, CommandFound, first # 0
  PROVE  /\ first \in 1..Len(args)
         /\ Typed(Starting(args, first)).words = <<args[first]>> /\ Boundary(args, first)
         /\ Starting(args, first - 1) \in Lines
         /\ Typed(Starting(args, first - 1)).options = Starting(args, first - 1)
         /\ Typed(Starting(args, first)).options = Starting(args, first - 1)
<1>1. args \in Lines /\ Len(args) \in Nat /\ first \in 1..Len(args)
  BY ArgumentFacts DEF ArgumentTypes
<1>2. PICK n \in 0..(Len(args) - 1) : n = first - 1
  BY <1>1
<1>3. first = n + 1 /\ n \in 0..Len(args)
  BY <1>1, <1>2
<1>4. Boundary(args, n) /\ Typed(Starting(args, n)).words = <<>> /\ args[n + 1] \notin Arguments!OptionLike
  BY <1>2, <1>3 DEF CommandFound
<1>5. Starting(args, n) \in Lines
  BY <1>1, <1>3, StartingFacts
<1>6. Typed(Starting(args, n)).options = Starting(args, n)
  BY <1>4, <1>5, OnlyOptions
<1>7. /\ Typed(Starting(args, n + 1)).words = Append(<<>>, args[n + 1])
      /\ Typed(Starting(args, n + 1)).options = Starting(args, n) /\ Boundary(args, n + 1)
  BY <1>1, <1>4, <1>6, WordRead
<1>8. Append(<<>>, args[n + 1]) = <<args[n + 1]>>
  OBVIOUS
<1> QED  BY <1>1, <1>2, <1>3, <1>5, <1>6, <1>7, <1>8

\* The place before a place.
LEMMA Placed ==
  ASSUME NEW len \in Nat, NEW i \in 1..len
  PROVE  /\ \E n \in 0..(len - 1) : n + 1 = i /\ n + 2 = i + 1 /\ n = i - 1 /\ (i # len => n + 1 < len)
         /\ i # len => i \in 0..(len - 1) /\ i + 1 \in 1..len
<1>1. i - 1 \in 0..(len - 1) /\ (i - 1) + 1 = i /\ (i - 1) + 2 = i + 1
  OBVIOUS
<1> QED  BY <1>1

\* Two tokens in a row.
LEMMA Pairs ==
  ASSUME NEW S, NEW x \in S, NEW y \in S
  PROVE  <<x>> \o <<y>> = <<x, y>>
<1>1. <<x>> \in Seq(S) /\ <<y>> \in Seq(S) /\ <<x, y>> \in Seq(S)
  OBVIOUS
<1>2. Len(<<x>>) = 1 /\ Len(<<y>>) = 1 /\ Len(<<x, y>>) = 2 /\ <<x>>[1] = x /\ <<y>>[1] = y
      /\ <<x, y>>[1] = x /\ <<x, y>>[2] = y
  OBVIOUS
<1>3. PICK p \in Seq(S), q \in Seq(S) : p = <<x>> /\ q = <<y>>
  BY <1>1
<1>4. p \o q \in Seq(S) /\ Len(p \o q) = 2 /\ (p \o q)[1] = x /\ (p \o q)[2] = y
  BY <1>2, <1>3, ConcatProperties
<1>5. PICK r \in Seq(S) : r = <<x, y>>
  BY <1>1
<1>6. Len(p \o q) = Len(r) /\ \A i \in 1..Len(p \o q) : (p \o q)[i] = r[i]
  BY <1>2, <1>4, <1>5
<1>7. p \o q = r
  BY <1>4, <1>6, SeqEqual
<1> QED  BY <1>3, <1>5, <1>7

\* One or two tokens of a line.
LEMMA OneOrTwo ==
  ASSUME NEW line \in Lines, NEW n \in 0..(Len(line) - 1)
  PROVE  /\ SubSeq(line, n + 1, n + 1) = <<line[n + 1]>>
         /\ n + 1 < Len(line) => SubSeq(line, n + 1, n + 2) = <<line[n + 1], line[n + 2]>>
<1>0. line \in Seq(Line) /\ Len(line) \in Nat
  BY DEF Lines
<1>1. n \in Nat /\ n + 1 \in 1..Len(line)
  BY <1>0
<1>2. SubSeq(line, n + 1, n + 1) = <<line[n + 1]>>
  <2>1. SubSeq(line, n + 1, n + 1) \in Seq(Line) /\ Len(SubSeq(line, n + 1, n + 1)) = 1
        /\ SubSeq(line, n + 1, n + 1)[1] = line[n + 1] /\ line[n + 1] \in Line
    BY <1>0, <1>1
  <2>2. PICK x \in Line : x = line[n + 1]
    BY <2>1
  <2>3. <<x>> \in Seq(Line) /\ Len(<<x>>) = 1 /\ <<x>>[1] = x
    OBVIOUS
  <2>4. PICK p \in Seq(Line), q \in Seq(Line) : p = SubSeq(line, n + 1, n + 1) /\ q = <<x>>
    BY <2>1, <2>3
  <2>5. Len(p) = Len(q) /\ \A i \in 1..Len(p) : p[i] = q[i]
    BY <2>1, <2>2, <2>3, <2>4
  <2>6. p = q
    BY <2>5, SeqEqual
  <2> QED  BY <2>2, <2>4, <2>6
<1>3. ASSUME n + 1 < Len(line) PROVE SubSeq(line, n + 1, n + 2) = <<line[n + 1], line[n + 2]>>
  <2>1. n + 2 \in 1..Len(line) /\ n + 2 \in (n + 1)..Len(line) /\ (n + 2) - 1 = n + 1
    BY <1>0, <1>1, <1>3
  <2>2. SubSeq(line, n + 1, n + 2) = SubSeq(line, n + 1, n + 1) \o <<line[n + 2]>>
    BY <1>0, <1>1, <2>1, SubSeqRecursiveSecond
  <2>3. <<line[n + 1]>> \o <<line[n + 2]>> = <<line[n + 1], line[n + 2]>>
    BY <1>0, <1>1, <2>1, Pairs
  <2> QED  BY <1>2, <2>2, <2>3
<1> QED  BY <1>2, <1>3

\* Two tokens more.
LEMMA TwoMore ==
  ASSUME NEW S, NEW s \in Seq(S), NEW x \in S, NEW y \in S
  PROVE  s \o <<x>> = Append(s, x) /\ s \o <<x, y>> = Append(Append(s, x), y) /\ Append(<<x>>, y) = <<x, y>>
<1>1. s \o <<x>> = Append(s, x)
  BY AppendIsConcat
<1>2. <<x>> \in Seq(S) /\ <<y>> \in Seq(S) /\ Append(s, x) \in Seq(S)
  BY AppendProperties
<1>3. Append(<<x>>, y) = <<x>> \o <<y>> /\ Append(Append(s, x), y) = Append(s, x) \o <<y>>
  BY <1>2, AppendIsConcat
<1>4. <<x>> \o <<y>> = <<x, y>>
  BY Pairs
<1>5. (s \o <<x>>) \o <<y>> = s \o (<<x>> \o <<y>>)
  BY <1>2, ConcatAssociative
<1> QED  BY <1>1, <1>3, <1>4, <1>5

\* A managed command was refused, and a transfer starts with nothing split.
LEMMA DispatchStep ==
  ASSUME ArgumentsInv, Arguments!Dispatch
  PROVE  ArgumentsInv'
<1>1. /\ reading = "check" /\ CommandFound /\ ArgumentTypes /\ options = <<>> /\ words = <<>>
      /\ args' = args /\ first' = first
  BY DEF Arguments!Dispatch, ArgumentsInv, Arguments!Refuse, Arguments!Goto
<1>2. args \in Lines /\ Len(args) \in Nat /\ DOMAIN args = 1..Len(args) /\ first \in 0..Len(args)
  BY <1>1, ArgumentFacts DEF ArgumentTypes
<1>3. CommandFound' /\ (Arguments!Refused)' = Arguments!Refused
  BY <1>1 DEF CommandFound, Arguments!Refused, Arguments!First, Arguments!Named
<1>4. CASE reading' \in {"refused", "native"} /\ at' = at /\ (reading' = "native" => ~Arguments!Refused)
  BY <1>1, <1>3, <1>4 DEF ArgumentsInv, ArgumentTypes
<1>5. CASE /\ ~Arguments!Refused /\ first # 0 /\ args[first] = "upload" /\ first # Len(args)
           /\ options' = Arguments!Leading /\ words' = SubSeq(args, first, first + 1)
           /\ at' = first + 2 /\ reading' = "split"
  <2>1. /\ first \in 1..Len(args) /\ Typed(Starting(args, first)).words = <<args[first]>> /\ Boundary(args, first)
        /\ Starting(args, first - 1) \in Lines
        /\ Typed(Starting(args, first)).options = Starting(args, first - 1)
    BY <1>1, <1>5, CommandRead
  <2>0. PICK n \in 0..(Len(args) - 1) : n + 1 = first /\ n + 2 = first + 1 /\ n + 1 < Len(args)
    BY <1>2, <1>5, <2>1, Placed
  <2>2. options' = Starting(args, first - 1) /\ at' - 1 = first + 1 /\ at' \in Nat \ {0} /\ at' <= Len(args) + 1
    <3>1. at' = (n + 1) + 2
      BY <1>2, <1>5, <2>0
    <3>2. at' - 1 = n + 2 /\ at' \in Nat \ {0} /\ at' <= Len(args) + 1
      BY <1>2, <2>0, <3>1, Places
    <3> QED  BY <1>5, <2>0, <3>2 DEF Arguments!Leading, Starting
  <2>3. words' = <<args[first], args[first + 1]>>
    BY <1>2, <1>5, <2>0, OneOrTwo
  <2>4. OptionsClosed(options)'
    BY <1>1, <1>5, <2>1, <2>2 DEF OptionsClosed, CommandFound, Boundary
  <2>5. ASSUME args[first + 1] \notin Arguments!OptionLike
        PROVE  /\ Typed(Starting(args, first + 1)).words = Append(<<args[first]>>, args[first + 1])
               /\ Typed(Starting(args, first + 1)).options = Starting(args, first - 1)
               /\ Boundary(args, first + 1)
    <3>1. first \in 0..(Len(args) - 1)
      BY <1>2, <1>5, <2>1, Placed
    <3> QED  BY <1>2, <2>1, <2>5, <3>1, WordRead
  <2>6. Append(<<args[first]>>, args[first + 1]) = <<args[first], args[first + 1]>>
    <3>1. args[first] \in Line /\ args[first + 1] \in Line
      <4>1. first + 1 \in 1..Len(args)
        BY <1>2, <1>5, <2>1, Placed
      <4> QED  BY <1>1, <2>1, <4>1, ArgumentFacts
    <3> QED  BY <3>1, TwoMore, EmptySeq
  <2>7. SplitSoFar'
    BY <1>1, <1>5, <2>2, <2>3, <2>5, <2>6 DEF SplitSoFar, SelectorIsOption
  <2>8. Splitting'
    BY <1>1, <1>5, <2>2, <2>4, <2>7 DEF Splitting
  <2> QED  BY <1>1, <1>3, <1>5, <2>2, <2>8 DEF ArgumentsInv, ArgumentTypes
<1>6. CASE /\ ~Arguments!Refused /\ first # 0 /\ args[first] = "download" /\ at' = 1 /\ reading' = "split"
           /\ UNCHANGED <<options, words>>
  <2>1. at' - 1 = 0 /\ at' <= Len(args) + 1 /\ at' \in Nat \ {0}
    BY <1>2, <1>6
  <2>2. Starting(args, at' - 1) = <<>>
    BY <1>2, <2>1, StartingFacts
  <2>3. /\ Typed(<<>>).words = <<>> /\ Typed(<<>>).options = <<>> /\ Typed(<<>>).wants = "nothing" /\ <<>> \in Lines
    BY TypedFacts, EmptySeq DEF Typed, NothingTyped, Lines
  <2>4. Boundary(args, at' - 1)
    BY <2>2, <2>3 DEF Boundary, IsValue
  <2>5. OptionsClosed(options)'
    BY <1>1, <1>6, <2>3 DEF OptionsClosed
  <2>6. SplitSoFar'
    BY <1>1, <1>6, <2>2, <2>3, <2>4 DEF SplitSoFar
  <2>7. Splitting'
    BY <1>1, <1>6, <2>1, <2>5, <2>6 DEF Splitting
  <2> QED  BY <1>1, <1>3, <1>6, <2>1, <2>7 DEF ArgumentsInv, ArgumentTypes
<1> QED  BY <1>4, <1>5, <1>6 DEF Arguments!Dispatch, Arguments!Refuse, Arguments!Goto, Arguments!First

\* An option and its value keep the options closed.
LEMMA OptionAdded ==
  ASSUME NEW line \in Lines, OptionsClosed(line), NEW token \in Line, token \in Arguments!OptionLike
  PROVE  /\ token \notin Arguments!TakesValue => OptionsClosed(Append(line, token))
         /\ \A value \in Line :
              token \in Arguments!TakesValue \/ value \in Arguments!Booleans =>
                OptionsClosed(Append(Append(line, token), value))
<1>1. Append(line, token) \in Lines /\ \A value \in Line : Append(Append(line, token), value) \in Lines
  BY AppendProperties DEF Lines
<1>2. Typed(line) \in Readings /\ Typed(Append(line, token)) = ReadNext(Typed(line), token)
  BY TypedFacts DEF Typed
<1>3. Typed(Append(line, token)) = AsOption(Typed(line), token)
  BY <1>2, Apart DEF ReadNext, IsValue, OptionsClosed
<1>4. /\ Typed(Append(line, token)).words = <<>> /\ Typed(Append(line, token)) \in Readings
      /\ Typed(Append(line, token)).wants = IF token \in Arguments!TakesValue THEN "value" ELSE "boolean"
  <2>1. Typed(line).words = <<>>
    BY DEF OptionsClosed
  <2>2. PICK r \in Readings : r = Typed(line)
    BY <1>2
  <2>3. /\ AsOption(r, token) \in Readings /\ AsOption(r, token).words = r.words
        /\ AsOption(r, token).wants = IF token \in Arguments!TakesValue THEN "value" ELSE "boolean"
    BY ReadingMoves
  <2> QED  BY <1>3, <2>1, <2>2, <2>3
<1>5. ASSUME NEW value \in Line, token \in Arguments!TakesValue \/ value \in Arguments!Booleans
      PROVE  OptionsClosed(Append(Append(line, token), value))
  <2>1. IsValue(Typed(Append(line, token)), value)
    BY <1>4, <1>5 DEF IsValue
  <2>2. Typed(Append(Append(line, token), value)) = AsValue(Typed(Append(line, token)), value)
    BY <1>1, <2>1, TypedFacts DEF Typed, ReadNext
  <2>3. /\ Typed(Append(Append(line, token), value)).words = <<>>
        /\ Typed(Append(Append(line, token), value)).wants = "nothing"
    <3>1. PICK r \in Readings : r = Typed(Append(line, token))
      BY <1>4
    <3>2. AsValue(r, value).words = r.words /\ AsValue(r, value).wants = "nothing"
      BY ReadingMoves
    <3> QED  BY <1>4, <2>2, <3>1, <3>2
  <2> QED  BY <1>1, <1>5, <2>3 DEF OptionsClosed
<1> QED  BY <1>1, <1>4, <1>5 DEF OptionsClosed

\* An option is split with its value, as it is read.
LEMMA SplitOptionStep ==
  ASSUME ArgumentsInv, Arguments!SplitOption
  PROVE  ArgumentsInv'
<1>1. /\ reading = "split" /\ at \in DOMAIN args /\ args[at] \in Arguments!OptionLike
      /\ args' = args /\ first' = first /\ words' = words
  BY DEF Arguments!SplitOption, Arguments!Is, Arguments!Refuse, Arguments!Goto
<1>2. /\ ArgumentTypes /\ CommandFound /\ Splitting /\ args \in Lines /\ Len(args) \in Nat /\ DOMAIN args = 1..Len(args)
      /\ at \in 1..Len(args) /\ ~Arguments!Refused
  BY <1>1, ArgumentFacts DEF ArgumentsInv
<1>3. CommandFound' /\ (Arguments!Refused)' = Arguments!Refused
  BY <1>1, <1>2 DEF CommandFound, Arguments!Refused, Arguments!First, Arguments!Named
<1>4. CASE reading' = "refused" /\ at' = at
  BY <1>1, <1>2, <1>3, <1>4 DEF ArgumentsInv, ArgumentTypes
<1>5. CASE /\ ~(args[at] \in Arguments!TakesValue /\ at = Len(args)) /\ reading' = reading
           /\ options' = options \o SubSeq(args, at, at + Arguments!Width(at) - 1)
           /\ at' = at + Arguments!Width(at)
  <2>1. PICK n \in 0..(Len(args) - 1) : n = at - 1
    BY <1>2
  <2>2. /\ at = n + 1 /\ Arguments!Width(at) = OptionWidth(args, n) /\ Arguments!Width(at) \in {1, 2}
        /\ args[n + 1] \in Arguments!OptionLike /\ args[n + 1] \in Line /\ options \in Lines /\ OptionsClosed(options)
    BY <1>1, <1>2, <2>1, WidthIs, ArgumentFacts DEF Splitting, OptionsClosed
  <2>5. at' = (n + 1) + Arguments!Width(at)
    BY <1>5, <2>2
  <2>3. CASE Arguments!Width(at) = 1
    <3>1. at' - 1 = n + 1 /\ at' \in Nat \ {0} /\ at' <= Len(args) + 1 /\ at + Arguments!Width(at) - 1 = n + 1
      BY <1>2, <2>2, <2>3, <2>5, Places
    <3>2. options' = Append(options, args[n + 1])
      <4>1. SubSeq(args, at, at + Arguments!Width(at) - 1) = <<args[n + 1]>>
        BY <1>2, <2>2, <3>1, OneOrTwo
      <4>2. options \o <<args[n + 1]>> = Append(options, args[n + 1])
        BY <2>2, TwoMore DEF Lines
      <4> QED  BY <1>5, <4>1, <4>2, Zenon
    <3>3. OptionsClosed(options)'
      <4>1. args[n + 1] \notin Arguments!TakesValue
        BY <2>2, <2>3 DEF OptionWidth
      <4> QED  BY <2>2, <3>2, <4>1, OptionAdded
    <3>4. SplitSoFar'
      BY <1>1, <1>2, <2>1, <2>2, <2>3, <3>1, <3>2, OptionRead DEF SplitSoFar, SelectorIsOption, Splitting
    <3>5. Splitting'
      BY <1>1, <1>2, <3>1, <3>3, <3>4 DEF Splitting
    <3> QED  BY <1>1, <1>2, <1>3, <1>5, <3>1, <3>5 DEF ArgumentsInv, ArgumentTypes
  <2>4. CASE Arguments!Width(at) = 2
    <3>0. n + 1 < Len(args) /\ (args[n + 1] \in Arguments!TakesValue \/ args[n + 2] \in Arguments!Booleans)
      <4>1. n + 1 # Len(args) \/ args[n + 1] \notin Arguments!TakesValue
        BY <1>5, <2>2
      <4>2. n + 1 < Len(args) \/ n + 1 = Len(args)
        BY <1>2, <2>2, <2>5, Places
      <4> QED  BY <2>2, <2>4, <4>1, <4>2 DEF OptionWidth
    <3>1. /\ at' - 1 = n + 2 /\ at' \in Nat \ {0} /\ at' <= Len(args) + 1 /\ at + Arguments!Width(at) - 1 = n + 2
          /\ n + 2 \in 1..Len(args)
      BY <1>2, <2>2, <2>4, <2>5, <3>0, Places
    <3>a. args[n + 2] \in Line
      BY <1>2, <3>1, ArgumentFacts
    <3>2. options' = Append(Append(options, args[n + 1]), args[n + 2])
      <4>1. SubSeq(args, at, at + Arguments!Width(at) - 1) = <<args[n + 1], args[n + 2]>>
        BY <1>2, <2>2, <3>0, <3>1, OneOrTwo
      <4>2. Append(Append(options, args[n + 1]), args[n + 2]) = options \o <<args[n + 1], args[n + 2]>>
        BY <2>2, <3>a, TwoMore, SMTT(20) DEF Lines
      <4> QED  BY <1>5, <4>1, <4>2
    <3>3. OptionsClosed(options)'
      BY <2>2, <3>0, <3>a, <3>2, OptionAdded
    <3>4. SplitSoFar'
      BY <1>1, <1>2, <2>1, <2>2, <2>4, <3>0, <3>1, <3>2, OptionRead DEF SplitSoFar, SelectorIsOption, Splitting
    <3>5. Splitting'
      BY <1>1, <1>2, <3>1, <3>3, <3>4 DEF Splitting
    <3> QED  BY <1>1, <1>2, <1>3, <1>5, <3>1, <3>5 DEF ArgumentsInv, ArgumentTypes
  <2> QED  BY <2>2, <2>3, <2>4
<1> QED  BY <1>1, <1>4, <1>5 DEF Arguments!SplitOption, Arguments!Refuse, Arguments!Goto

\* A word is split as it is read.
LEMMA SplitWordStep ==
  ASSUME ArgumentsInv, Arguments!SplitWord
  PROVE  ArgumentsInv'
<1>1. /\ reading = "split" /\ at \in DOMAIN args /\ args[at] \notin Arguments!OptionLike
      /\ words' = Append(words, args[at]) /\ at' = at + 1
      /\ UNCHANGED <<args, reading, first, options>>
  BY DEF Arguments!SplitWord, Arguments!Is
<1>2. /\ ArgumentTypes /\ CommandFound /\ Splitting /\ args \in Lines /\ Len(args) \in Nat /\ DOMAIN args = 1..Len(args)
      /\ at \in 1..Len(args) /\ ~Arguments!Refused
  BY <1>1, ArgumentFacts DEF ArgumentsInv
<1>3. CommandFound' /\ (Arguments!Refused)' = Arguments!Refused
  BY <1>1, <1>2 DEF CommandFound, Arguments!Refused, Arguments!First, Arguments!Named
<1>4. PICK n \in 0..(Len(args) - 1) : n = at - 1
  BY <1>2
<1>5. at = n + 1 /\ at' - 1 = n + 1 /\ at' \in Nat \ {0} /\ at' <= Len(args) + 1
  BY <1>1, <1>2, <1>4
<1>6. SplitSoFar'
  BY <1>1, <1>2, <1>4, <1>5, WordRead DEF SplitSoFar, SelectorIsOption, Splitting
<1>7. Splitting'
  BY <1>1, <1>2, <1>5, <1>6 DEF Splitting, OptionsClosed
<1> QED  BY <1>1, <1>2, <1>3, <1>5, <1>7 DEF ArgumentsInv, ArgumentTypes

\* At the end of the line all of it was split.
LEMMA SplitEndsStep ==
  ASSUME ArgumentsInv, Arguments!SplitEnds
  PROVE  ArgumentsInv'
<1>1. /\ reading = "split" /\ at > Len(args) /\ reading' \in {"transfer", "refused"}
      /\ UNCHANGED <<args, at, first, options, words>>
  BY DEF Arguments!SplitEnds, Arguments!Refuse, Arguments!Goto
<1>2. ArgumentTypes /\ CommandFound /\ Splitting /\ Len(args) \in Nat /\ ~Arguments!Refused /\ at \in Nat
  BY <1>1, ArgumentFacts DEF ArgumentsInv, ArgumentTypes
<1>3. CommandFound' /\ (Arguments!Refused)' = Arguments!Refused /\ Splitting'
  BY <1>1, <1>2 DEF CommandFound, Arguments!Refused, Arguments!First, Arguments!Named,
                    Splitting, SplitSoFar, SelectorIsOption
<1>4. at = Len(args) + 1
  BY <1>1, <1>2 DEF Splitting
<1> QED  BY <1>1, <1>2, <1>3, <1>4 DEF ArgumentsInv, ArgumentTypes

\* Every step of the arguments keeps their invariant.
LEMMA ArgumentsStep == ArgumentsInv /\ Arguments!Next => ArgumentsInv'
BY SkipStep, FoundStep, DispatchStep, SplitOptionStep, SplitWordStep, SplitEndsStep DEF Arguments!Next

\* So does what leaves them alone.
LEMMA ArgumentsRest == ArgumentsInv /\ UNCHANGED argumentVars => ArgumentsInv'
BY DEF argumentVars, ArgumentsInv, ArgumentTypes, Searching, Splitting, CommandFound, SplitSoFar, SelectorIsOption,
       Arguments!Refused, Arguments!First, Arguments!Named

\* The invariant of the arguments says that what is typed is what runs.
LEMMA ArgumentsFaithful ==
  ASSUME ArgumentsInv
  PROVE  Arguments!ManagedRefused /\ Arguments!TransferAsTyped /\ Arguments!HelperRunsItsCommand
<1>0. args \in Lines /\ Len(args) \in Nat /\ ArgumentTypes /\ first \in 0..Len(args)
  BY ArgumentFacts DEF ArgumentsInv, ArgumentTypes
<1>1. ASSUME reading \in {"native", "transfer"} PROVE Arguments!ManagedRefused
  <2>1. ~Arguments!Refused /\ CommandFound
    BY <1>1 DEF ArgumentsInv
  <2>2. ASSUME NEW i \in DOMAIN Typed(args).names PROVE Arguments!Name(Typed(args).names[i]) \notin Arguments!Owned
    <3>1. PICK j \in DOMAIN args : Typed(args).names[i] = args[j]
      BY <1>0, NamesTyped
    <3> QED  BY <2>1, <3>1 DEF Arguments!Refused
  <2>3. ASSUME Typed(args).words # <<>> PROVE Head(Typed(args).words) \notin Arguments!Lifecycle
    <3>1. first # 0
      BY <2>1, <2>3 DEF CommandFound
    <3>2. Typed(Starting(args, first)).words = <<args[first]>>
      BY <1>0, <2>1, <3>1, CommandRead
    <3>3. Typed(args).words[1] = args[first]
      BY <1>0, <3>2, FirstWordStays
    <3>4. Head(Typed(args).words) = Typed(args).words[1]
      BY <1>0, <2>3, TypedFacts DEF Typed, Readings, Lines
    <3> QED  BY <2>1, <3>1, <3>3, <3>4 DEF Arguments!Refused, Arguments!First
  <2> QED  BY <2>2, <2>3 DEF Arguments!ManagedRefused, Typed
<1>2. ASSUME reading \notin {"native", "transfer"} PROVE Arguments!ManagedRefused
  BY <1>2 DEF Arguments!ManagedRefused
<1>3. Arguments!TransferAsTyped
  <2>1. SUFFICES ASSUME reading = "transfer", Arguments!First({"upload"}) => args[first + 1] \notin Arguments!OptionLike
                 PROVE  words = Typed(args).words /\ options = Typed(args).options
    BY DEF Arguments!TransferAsTyped, Typed
  <2>2. ~SelectorIsOption /\ Splitting /\ at = Len(args) + 1
    BY <2>1 DEF SelectorIsOption, Arguments!First, ArgumentsInv
  <2>3. Starting(args, at - 1) = args
    <3>1. at - 1 = Len(args)
      BY <1>0, <2>2
    <3> QED  BY <1>0, <3>1, StartingFacts
  <2> QED  BY <2>2, <2>3 DEF Splitting, SplitSoFar
<1>4. ASSUME reading = "transfer"
      PROVE  LET typed == Typed(options \o <<"--json", "eval">>) IN
               typed.words = <<"eval">> /\ typed.names # <<>> /\ typed.names[Len(typed.names)] = "--json"
  <2>1. OptionsClosed(options) /\ options \in Lines /\ "--json" \in Line /\ "eval" \in Line
    BY <1>4 DEF ArgumentsInv, Splitting, OptionsClosed, Line
  <2>2. PICK o \in Seq(Line) : o = options
    BY <2>1 DEF Lines
  <2>3. options \o <<"--json", "eval">> = Append(Append(o, "--json"), "eval") /\ Append(o, "--json") \in Lines
    BY <2>1, <2>2 DEF Lines
  <2>4. Typed(o) \in Readings /\ Typed(Append(o, "--json")) = ReadNext(Typed(o), "--json")
    BY <2>1, <2>2, TypedFacts DEF Typed
  <2>5. Typed(Append(o, "--json")) = AsOption(Typed(o), "--json")
    BY <2>1, <2>2, <2>4, Apart DEF ReadNext, IsValue, OptionsClosed
  <2>6. /\ Typed(Append(o, "--json")) \in Readings /\ Typed(Append(o, "--json")).words = <<>>
        /\ Typed(Append(o, "--json")).names = Append(Typed(o).names, "--json")
        /\ Typed(Append(o, "--json")).wants = "boolean"
    <3>1. PICK r \in Readings : r = Typed(o)
      BY <2>4
    <3>2. /\ AsOption(r, "--json") \in Readings /\ AsOption(r, "--json").words = r.words
          /\ AsOption(r, "--json").names = Append(r.names, "--json")
          /\ AsOption(r, "--json").wants = IF "--json" \in Arguments!TakesValue THEN "value" ELSE "boolean"
      BY <2>1, ReadingMoves
    <3>3. r.words = <<>>
      BY <2>1, <2>2, <3>1 DEF OptionsClosed
    <3> QED  BY <2>5, <3>1, <3>2, <3>3, Apart
  <2>7. Typed(Append(Append(o, "--json"), "eval")) = AsWord(Typed(Append(o, "--json")), "eval")
    BY <2>1, <2>3, <2>6, TypedFacts, Apart DEF Typed, ReadNext, IsValue
  <2>8. /\ Typed(Append(Append(o, "--json"), "eval")).words = Append(<<>>, "eval")
        /\ Typed(Append(Append(o, "--json"), "eval")).names = Append(Typed(o).names, "--json")
    <3>1. PICK r \in Readings : r = Typed(Append(o, "--json"))
      BY <2>6
    <3>2. AsWord(r, "eval").words = Append(r.words, "eval") /\ AsWord(r, "eval").names = r.names
      BY <2>1, ReadingMoves
    <3> QED  BY <2>6, <2>7, <3>1, <3>2
  <2>9. Append(<<>>, "eval") = <<"eval">>
    OBVIOUS
  <2>10. PICK names \in Seq(Line) : names = Typed(o).names
    BY <2>4 DEF Readings, Lines
  <2>11. Append(names, "--json") # <<>> /\ Append(names, "--json")[Len(Append(names, "--json"))] = "--json"
    BY <2>1, ShorterFacts
  <2> QED  BY <2>3, <2>8, <2>9, <2>10, <2>11
<1>5. Arguments!HelperRunsItsCommand
  BY <1>4 DEF Arguments!HelperRunsItsCommand, Typed
<1> QED  BY <1>1, <1>2, <1>3, <1>5

-----------------------------------------------------------------------------
(* What is printed *)

Texts == Seq(Output!Bytes)       \* what a process prints
Shown == Seq(Output!Characters)  \* what the caller sees

\* What is assumed of bytes, characters, secret and marker.
LEMMA OutputConstants ==
  /\ Lead # Cont /\ Wide # Unknown
  /\ \A c \in Ascii : c # Lead /\ c # Cont /\ c # Wide /\ c # Unknown
  /\ Secret \in Texts /\ Secret # <<>> /\ Len(Secret) \in Nat \ {0} /\ \A i \in 1..Len(Secret) : Secret[i] \in Ascii
  /\ Marker \in Texts /\ Len(Marker) \in Nat
  /\ Lead \in Output!Bytes /\ Cont \in Output!Bytes /\ Wide \in Output!Characters /\ Unknown \in Output!Characters
  /\ \A c \in Output!Bytes : c = Lead \/ c = Cont \/ c \in Ascii
  /\ \A c \in Ascii : c \in Output!Bytes /\ c \in Output!Characters
  /\ Buffer \in Nat \ {0} /\ CaptureSize \in Nat /\ \A c \in Alphabet : c \in Output!Bytes
<1> USE PartsAssumption DEF Output!OutputAssumption
<1>1. Secret \in Seq(Ascii) /\ Marker \in Seq(Ascii) /\ Secret # <<>>
  OBVIOUS
<1>2. Ascii \subseteq Output!Bytes
  BY DEF Output!Bytes
<1>3. Secret \in Texts /\ Marker \in Texts
  BY <1>1, <1>2, SeqMonotonic DEF Texts
<1>4. Len(Secret) \in Nat \ {0} /\ Len(Marker) \in Nat /\ \A i \in 1..Len(Secret) : Secret[i] \in Ascii
  BY <1>1, EmptySeq, LenProperties, ElementOfSeq
<1>5. /\ Lead \in Output!Bytes /\ Cont \in Output!Bytes /\ Wide \in Output!Characters /\ Unknown \in Output!Characters
      /\ \A c \in Output!Bytes : c = Lead \/ c = Cont \/ c \in Ascii
      /\ \A c \in Ascii : c \in Output!Bytes /\ c \in Output!Characters
  BY DEF Output!Bytes, Output!Characters
<1>6. Lead # Cont /\ Wide # Unknown /\ \A c \in Ascii : c # Lead /\ c # Cont /\ c # Wide /\ c # Unknown
  OBVIOUS
<1>7. Buffer \in Nat \ {0} /\ CaptureSize \in Nat /\ \A c \in Alphabet : c \in Output!Bytes
  OBVIOUS
<1> HIDE PartsAssumption DEF Output!OutputAssumption
<1> QED  BY <1>1, <1>3, <1>4, <1>5, <1>6, <1>7

-----------------------------------------------------------------------------
(* Text of bytes *)

Whole(c) == IF c \in {Lead, Cont} THEN Unknown ELSE c
DecodeNext(before, b) ==
  IF b[Len(b)] = Cont /\ Shorter(b) # <<>> /\ Shorter(b)[Len(Shorter(b))] = Lead
  THEN Append(Shorter(before), Wide)
  ELSE Append(before, Whole(b[Len(b)]))

\* A character follows text.
LEMMA DecodeTyped ==
  ASSUME NEW before \in Shown, NEW b \in Texts, b # <<>>
  PROVE  DecodeNext(before, b) \in Shown
<1>1. Whole(b[Len(b)]) \in Output!Characters /\ Wide \in Output!Characters
  BY ShorterFacts, OutputConstants DEF Texts, Whole
<1>2. Shorter(before) \in Shown
  BY DEF Shown, Shorter
<1>3. Append(Shorter(before), Wide) \in Shown /\ Append(before, Whole(b[Len(b)])) \in Shown
  BY <1>1, <1>2, AppendProperties DEF Shown
<1> QED  BY <1>3 DEF DecodeNext

\* Text is decoded byte by byte.
LEMMA DecodeFacts ==
  /\ Output!Decode[<<>>] = <<>>
  /\ \A s \in Texts : /\ Output!Decode[s] \in Shown
                      /\ \A e \in Output!Bytes :
                           Output!Decode[Append(s, e)] =
                             IF e = Cont /\ s # <<>> /\ s[Len(s)] = Lead THEN Append(Shorter(Output!Decode[s]), Wide)
                             ELSE Append(Output!Decode[s], Whole(e))
<1> DEFINE S == Output!Bytes
           step == [x \in Shown \X (Seq(S) \ {<<>>}) |-> DecodeNext(x[1], x[2])]
           T == Output!Decode
<1>1. <<>> \in Shown /\ <<>> \in Texts /\ Texts = Seq(S)
  BY EmptySeq DEF Shown, Texts
<1>2. ASSUME NEW r \in Shown, NEW s \in Seq(S) \ {<<>>}
      PROVE  step[<<r, s>>] = DecodeNext(r, s) /\ step[<<r, s>>] \in Shown
  BY DecodeTyped DEF Texts
<1>3. step \in [Shown \X (Seq(S) \ {<<>>}) -> Shown]
  <2>1. ASSUME NEW x \in Shown \X (Seq(S) \ {<<>>}) PROVE step[x] \in Shown
    <3>1. x[1] \in Shown /\ x[2] \in Seq(S) \ {<<>>} /\ x = <<x[1], x[2]>>
      OBVIOUS
    <3> HIDE DEF step
    <3> QED  BY <1>2, <3>1
  <2>2. step = [x \in Shown \X (Seq(S) \ {<<>>}) |-> step[x]]
    OBVIOUS
  <2> HIDE DEF step
  <2> QED  BY <2>1, <2>2
<1> HIDE DEF step
<1>4. PICK f : IsFold(f, S, Shown, <<>>, step)
  BY <1>1, <1>3, FoldExists DEF IsStep
<1>5. ASSUME NEW s \in Seq(S)
      PROVE f[s] = IF s = <<>> THEN <<>> ELSE DecodeNext(f[Shorter(s)], s)
  <2>1. f[s] = IF s = <<>> THEN <<>> ELSE step[<<f[Shorter(s)], s>>]
    BY <1>4 DEF IsFold
  <2>2. s # <<>> => f[Shorter(s)] \in Shown
    BY <1>4, ShorterFacts DEF IsFold
  <2> QED  BY <1>2, <2>1, <2>2
<1> DEFINE Eq(g) == g = [b \in Seq(Output!Bytes) |->
  IF b = <<>> THEN <<>>
  ELSE IF Output!Last(b) = Cont /\ Output!Front(b) # <<>> /\ Output!Last(Output!Front(b)) = Lead
       THEN Append(Output!Front(g[Output!Front(b)]), Wide)
       ELSE Append(g[Output!Front(b)], IF Output!Last(b) \in {Lead, Cont} THEN Unknown ELSE Output!Last(b))]
<1>6. Eq(f)
  <2>1. f = [s \in Seq(S) |-> IF s = <<>> THEN <<>> ELSE DecodeNext(f[Shorter(s)], s)]
    BY <1>4, <1>5 DEF IsFold
  <2> QED  BY <2>1 DEF DecodeNext, Whole, Shorter, Output!Front, Output!Last
<1>7. Eq(T)
  <2>1. T = CHOOSE g : Eq(g)
    BY DEF Output!Decode
  <2> HIDE DEF Eq, T
  <2> QED  BY <1>6, <2>1
<1>8. T = [s \in Seq(S) |-> IF s = <<>> THEN <<>> ELSE DecodeNext(T[Shorter(s)], s)]
  BY <1>7 DEF DecodeNext, Whole, Shorter, Output!Front, Output!Last
<1> HIDE DEF T
<1>9. T[<<>>] = <<>>
  BY <1>8, EmptySeq
<1>10. ASSUME NEW s \in Seq(S), NEW e \in S
       PROVE  /\ T[Append(s, e)] = DecodeNext(T[s], Append(s, e))
              /\ T[Append(s, e)] = IF e = Cont /\ s # <<>> /\ s[Len(s)] = Lead THEN Append(Shorter(T[s]), Wide)
                                   ELSE Append(T[s], Whole(e))
              /\ Append(s, e) \in Seq(S) /\ Append(s, e) # <<>>
  <2>1. /\ Append(s, e) \in Seq(S) /\ Append(s, e) # <<>> /\ Shorter(Append(s, e)) = s
        /\ Append(s, e)[Len(Append(s, e))] = e
    BY ShorterFacts, AppendProperties
  <2>2. PICK t \in Seq(S) : t = Append(s, e)
    BY <2>1
  <2>3. T[t] = IF t = <<>> THEN <<>> ELSE DecodeNext(T[Shorter(t)], t)
    BY <1>8
  <2>4. T[t] = DecodeNext(T[s], t)
    BY <2>1, <2>2, <2>3
  <2>5. t[Len(t)] = e /\ Shorter(t) = s
    BY <2>1, <2>2
  <2>6. T[t] = IF e = Cont /\ s # <<>> /\ s[Len(s)] = Lead THEN Append(Shorter(T[s]), Wide) ELSE Append(T[s], Whole(e))
    BY <2>4, <2>5 DEF DecodeNext
  <2> QED  BY <2>1, <2>2, <2>4, <2>6
<1> DEFINE P == {s \in Seq(S) : T[s] \in Shown}
<1>11. <<>> \in P
  BY <1>1, <1>9
<1>12. \A s \in Seq(S), e \in S : s \in P => Append(s, e) \in P
  <2>1. ASSUME NEW s \in Seq(S), NEW e \in S, T[s] \in Shown
        PROVE  T[Append(s, e)] \in Shown /\ Append(s, e) \in Seq(S)
    BY <1>1, <1>10, <2>1, DecodeTyped
  <2> QED  BY <2>1
<1> HIDE DEF P
<1>13. Seq(S) \subseteq P
  BY <1>11, <1>12, InductiveSequences
<1>14. ASSUME NEW s \in Texts
       PROVE  /\ T[s] \in Shown
              /\ \A e \in Output!Bytes : T[Append(s, e)] =
                   IF e = Cont /\ s # <<>> /\ s[Len(s)] = Lead THEN Append(Shorter(T[s]), Wide)
                   ELSE Append(T[s], Whole(e))
  BY <1>1, <1>10, <1>13 DEF P
<1> QED  BY <1>9, <1>14 DEF T

(* A character is there with its last byte, and what follows does not change it, *)
(* but for a second byte.                                                        *)
Splits(a, b) == a # <<>> /\ a[Len(a)] = Lead /\ b # <<>> /\ b[1] = Cont

\* A first byte by itself is no text.
LEMMA DecodeShape ==
  ASSUME NEW b \in Texts, b # <<>>
  PROVE  /\ Output!Decode[b] \in Shown /\ Output!Decode[b] # <<>>
         /\ b[Len(b)] = Lead => Output!Decode[b][Len(Output!Decode[b])] = Unknown
<1>1. PICK s \in Texts, e \in Output!Bytes : b = Append(s, e)
  BY SequenceEmptyOrAppend DEF Texts
<1>2. b[Len(b)] = e
  BY <1>1, ShorterFacts DEF Texts
<1>3. PICK d \in Shown : d = Output!Decode[s]
  BY DecodeFacts
<1>4. Shorter(d) \in Shown
  BY DEF Shown, Shorter
<1>5. Append(Shorter(d), Wide) # <<>> /\ Append(Shorter(d), Wide) \in Shown
  BY <1>4, OutputConstants, AppendProperties DEF Shown
<1>6. Whole(e) \in Output!Characters
  BY OutputConstants DEF Whole
<1>7. /\ Append(d, Whole(e)) # <<>> /\ Append(d, Whole(e)) \in Shown
      /\ Append(d, Whole(e))[Len(Append(d, Whole(e)))] = Whole(e)
  BY <1>6, ShorterFacts, AppendProperties DEF Shown
<1>8. Output!Decode[b] = Append(Shorter(d), Wide) \/ Output!Decode[b] = Append(d, Whole(e))
  BY <1>1, <1>3, DecodeFacts
<1>9. e = Lead => Output!Decode[b] = Append(d, Whole(e)) /\ Whole(e) = Unknown
  BY <1>1, <1>3, DecodeFacts, OutputConstants DEF Whole
<1> QED  BY <1>2, <1>5, <1>7, <1>8, <1>9

\* Concatenation, by the last element.
LEMMA Joins ==
  ASSUME NEW S, NEW x \in Seq(S), NEW y \in Seq(S)
  PROVE  /\ x \o y \in Seq(S) /\ Len(x \o y) = Len(x) + Len(y) /\ Len(x) \in Nat /\ Len(y) \in Nat
         /\ \A c \in S : x \o Append(y, c) = Append(x \o y, c)
         /\ y # <<>> => /\ x \o y # <<>> /\ Shorter(x \o y) = x \o Shorter(y) /\ (x \o y)[Len(x \o y)] = y[Len(y)]
         /\ y = <<>> => x \o y = x
         /\ x = <<>> => x \o y = y
<1>1. x \o y \in Seq(S) /\ Len(x \o y) = Len(x) + Len(y) /\ Len(x) \in Nat /\ Len(y) \in Nat
  BY ConcatProperties, LenProperties
<1>2. ASSUME NEW z \in Seq(S), NEW c \in S PROVE x \o Append(z, c) = Append(x \o z, c) /\ x \o z \in Seq(S)
  <2>1. <<c>> \in Seq(S) /\ x \o z \in Seq(S)
    BY ConcatProperties
  <2>2. Append(z, c) = z \o <<c>> /\ Append(x \o z, c) = (x \o z) \o <<c>>
    BY <2>1, AppendIsConcat
  <2>3. (x \o z) \o <<c>> = x \o (z \o <<c>>)
    BY <2>1, ConcatAssociative
  <2> QED  BY <2>1, <2>2, <2>3
<1>3. ASSUME y # <<>>
      PROVE  x \o y # <<>> /\ Shorter(x \o y) = x \o Shorter(y) /\ (x \o y)[Len(x \o y)] = y[Len(y)]
  <2>1. PICK z \in Seq(S), c \in S : y = Append(z, c)
    BY <1>3, SequenceEmptyOrAppend
  <2>2. Shorter(y) = z /\ y[Len(y)] = c
    BY <2>1, ShorterFacts
  <2>3. PICK w \in Seq(S) : w = x \o z /\ x \o y = Append(w, c)
    BY <1>2, <2>1
  <2>4. Append(w, c) # <<>> /\ Shorter(Append(w, c)) = w /\ Append(w, c)[Len(Append(w, c))] = c
    <3>1. \A d \in S : Append(w, d) # <<>> /\ Shorter(Append(w, d)) = w /\ Append(w, d)[Len(Append(w, d))] = d
      BY ShorterFacts
    <3> QED  BY <3>1, Zenon
  <2> QED  BY <2>2, <2>3, <2>4
<1>4. (y = <<>> => x \o y = x) /\ (x = <<>> => x \o y = y)
  BY ConcatEmptySeq
<1> QED  BY <1>1, <1>2, <1>3, <1>4

\* Bytes that are not cut inside a character are decoded piece by piece.
LEMMA DecodeConcat ==
  ASSUME NEW a \in Texts, NEW b \in Texts, ~Splits(a, b)
  PROVE  Output!Decode[a \o b] = Output!Decode[a] \o Output!Decode[b]
<1> DEFINE S == Output!Bytes
           Agrees(s) == ~Splits(a, s) => Output!Decode[a \o s] = Output!Decode[a] \o Output!Decode[s]
           P == {s \in Seq(S) : Agrees(s)}
<1>0. a \in Seq(S) /\ b \in Seq(S) /\ Output!Decode[a] \in Shown
  BY DecodeFacts DEF Texts
<1>1. Agrees(<<>>)
  BY <1>0, ConcatEmptySeq, DecodeFacts DEF Shown
<1>2. ASSUME NEW s \in Seq(S), NEW e \in S, Agrees(s) PROVE Agrees(Append(s, e))
  <2>1. SUFFICES ASSUME ~Splits(a, Append(s, e))
                 PROVE  Output!Decode[a \o Append(s, e)] = Output!Decode[a] \o Output!Decode[Append(s, e)]
    OBVIOUS
  <2>2. a \o s \in Texts /\ a \o Append(s, e) = Append(a \o s, e) /\ s \in Texts
    BY <1>0, Joins DEF Texts
  <2>3. PICK A \in Shown, D \in Shown : A = Output!Decode[a] /\ D = Output!Decode[s]
    BY <1>0, <2>2, DecodeFacts
  <2>4. Whole(e) \in Output!Characters /\ Wide \in Output!Characters
    BY OutputConstants DEF Whole
  <2>5. CASE s = <<>>
    <3>1. a \o s = a /\ D = <<>>
      BY <1>0, <2>3, <2>5, Joins, DecodeFacts
    <3>2. Append(s, e)[1] = e /\ Append(s, e) # <<>>
      BY <2>5
    <3>3. ~(e = Cont /\ a # <<>> /\ a[Len(a)] = Lead)
      BY <2>1, <3>2 DEF Splits
    <3>4. Output!Decode[Append(a, e)] = Append(A, Whole(e))
      BY <1>0, <2>3, <3>3, DecodeFacts DEF Texts
    <3>5. Output!Decode[Append(s, e)] = Append(D, Whole(e))
      BY <2>2, <2>3, <2>5, DecodeFacts
    <3>6. A \o Append(D, Whole(e)) = Append(A \o D, Whole(e)) /\ A \o D = A
      BY <2>4, <3>1, Joins DEF Shown
    <3> QED  BY <2>2, <2>3, <3>1, <3>4, <3>5, <3>6
  <2>6. CASE s # <<>>
    <3>1. Append(s, e)[1] = s[1] /\ Append(s, e) # <<>>
      BY <2>6
    <3>2. Output!Decode[a \o s] = A \o D
      BY <1>2, <2>1, <2>3, <2>6, <3>1 DEF Splits
    <3>3. a \o s # <<>> /\ (a \o s)[Len(a \o s)] = s[Len(s)]
      BY <1>0, <2>6, Joins
    <3>4. D # <<>> /\ Shorter(D) \in Shown
      BY <2>2, <2>3, <2>6, DecodeShape DEF Shown, Shorter
    <3>5. CASE e = Cont /\ s[Len(s)] = Lead
      <4>1. Output!Decode[Append(a \o s, e)] = Append(Shorter(A \o D), Wide)
        BY <2>2, <3>2, <3>3, <3>5, DecodeFacts
      <4>2. Output!Decode[Append(s, e)] = Append(Shorter(D), Wide)
        BY <2>2, <2>3, <2>6, <3>5, DecodeFacts
      <4>3. Shorter(A \o D) = A \o Shorter(D)
        BY <3>4, Joins DEF Shown
      <4>4. PICK sd \in Shown : sd = Shorter(D)
        BY <3>4
      <4>5. A \o Append(sd, Wide) = Append(A \o sd, Wide)
        BY <2>4, Joins DEF Shown
      <4> QED  BY <2>2, <2>3, <4>1, <4>2, <4>3, <4>4, <4>5
    <3>6. CASE ~(e = Cont /\ s[Len(s)] = Lead)
      <4>1. Output!Decode[Append(a \o s, e)] = Append(A \o D, Whole(e))
        BY <2>2, <3>2, <3>3, <3>6, DecodeFacts
      <4>2. Output!Decode[Append(s, e)] = Append(D, Whole(e))
        BY <2>2, <2>3, <3>6, DecodeFacts
      <4>3. A \o Append(D, Whole(e)) = Append(A \o D, Whole(e))
        BY <2>4, Joins DEF Shown
      <4> QED  BY <2>2, <2>3, <4>1, <4>2, <4>3
    <3> QED  BY <3>5, <3>6
  <2> QED  BY <2>5, <2>6
<1> HIDE DEF Agrees
<1>3. <<>> \in P /\ \A s \in Seq(S), e \in S : s \in P => Append(s, e) \in P
  BY <1>1, <1>2, EmptySeq, AppendProperties
<1> HIDE DEF P
<1>4. Seq(S) \subseteq P
  BY <1>3, InductiveSequences
<1> QED  BY <1>0, <1>4 DEF P, Agrees

\* Pieces of text are text.
LEMMA TextConcat ==
  ASSUME NEW a \in Texts, NEW b \in Texts, ~Splits(a, b), Output!IsText(a \o b)
  PROVE  Output!IsText(a) /\ Output!IsText(b)
<1>1. PICK A \in Shown, B \in Shown : A = Output!Decode[a] /\ B = Output!Decode[b]
  BY DecodeFacts
<1>2. Output!Decode[a \o b] = A \o B
  BY <1>1, DecodeConcat
<1>3. \A i \in DOMAIN (A \o B) : (A \o B)[i] # Unknown
  BY <1>2 DEF Output!IsText
<1>4. /\ \A i \in DOMAIN A : i \in DOMAIN (A \o B) /\ (A \o B)[i] = A[i]
      /\ \A i \in DOMAIN B : Len(A) + i \in DOMAIN (A \o B) /\ (A \o B)[Len(A) + i] = B[i]
  BY DEF Shown
<1> QED  BY <1>1, <1>3, <1>4 DEF Output!IsText

\* Text that is complete so far.
Settled(d) == d = <<>> \/ d[Len(d)] # Lead

\* Text is complete.
LEMMA TextSettled ==
  ASSUME NEW d \in Texts, Output!IsText(d)
  PROVE  Settled(d)
<1>1. SUFFICES ASSUME d # <<>>, d[Len(d)] = Lead PROVE FALSE
  BY DEF Settled
<1>2. PICK D \in Shown : D = Output!Decode[d] /\ D # <<>> /\ D[Len(D)] = Unknown
  BY <1>1, DecodeShape
<1>3. Len(D) \in DOMAIN D
  BY <1>2 DEF Shown
<1> QED  BY <1>2, <1>3 DEF Output!IsText

\* What is complete stays as it is, whatever follows.
LEMMA SettledJoins ==
  ASSUME NEW d \in Texts, NEW u \in Texts, Settled(d)
  PROVE  /\ Output!Decode[d \o u] = Output!Decode[d] \o Output!Decode[u]
         /\ Settled(u) => Settled(d \o u)
         /\ Output!IsText(d \o u) => Output!IsText(u)
<1>1. ~Splits(d, u)
  BY DEF Settled, Splits
<1>2. Settled(u) => Settled(d \o u)
  BY Joins DEF Settled, Texts
<1> QED  BY <1>1, <1>2, DecodeConcat, TextConcat

(* What is decoded of the bytes at hand is text that no later byte changes, *)
(* if everything becomes text.                                             *)
Taken(u) == SubSeq(u, 1, Output!Complete(u, FALSE))

\* Bytes that become text are cut between characters.
LEMMA Chunks ==
  ASSUME NEW d \in Texts, NEW u \in Texts, NEW more \in Texts, Settled(d), Output!IsText((d \o u) \o more)
  PROVE  Settled(Taken(u))
<1>0. u \in Seq(Output!Bytes) /\ more \in Seq(Output!Bytes) /\ d \in Seq(Output!Bytes) /\ u \o more \in Texts
  BY Joins DEF Texts
<1>1. Output!IsText(u \o more)
  <2>1. (d \o u) \o more = d \o (u \o more)
    BY <1>0, ConcatAssociative
  <2> QED  BY <1>0, <2>1, SettledJoins
<1>2. CASE u = <<>> \/ u[Len(u)] # Lead
  <2>1. Output!Complete(u, FALSE) = Len(u)
    BY <1>2 DEF Output!Complete, Output!Last
  <2>2. Taken(u) = u
    BY <1>0, <2>1, SubSeqFull DEF Taken
  <2> QED  BY <1>2, <2>2 DEF Settled
<1>3. CASE u # <<>> /\ u[Len(u)] = Lead
  <2>1. PICK f \in Seq(Output!Bytes), e \in Output!Bytes : u = Append(f, e)
    BY <1>0, <1>3, SequenceEmptyOrAppend
  <2>2. e = Lead /\ Shorter(u) = f
    BY <1>3, <2>1, ShorterFacts
  <2>3. <<e>> \in Seq(Output!Bytes) /\ u = f \o <<e>>
    BY <2>1, AppendIsConcat
  <2>4. PICK rest \in Texts : rest = <<e>> \o more
    BY <1>0, <2>3, Joins DEF Texts
  <2>5. u \o more = f \o rest
    BY <1>0, <2>3, <2>4, ConcatAssociative
  <2>6. rest[1] = e
    BY <1>0, <2>3, <2>4
  <2>7. ~Splits(f, rest)
    BY <2>2, <2>6, OutputConstants DEF Splits
  <2>8. Output!IsText(f)
    BY <1>1, <2>4, <2>5, <2>7, TextConcat DEF Texts
  <2>9. Output!Front(u) = f
    BY <2>2 DEF Output!Front, Shorter
  <2>10. Output!Complete(u, FALSE) = Len(u) - 1
    BY <1>3, <2>8, <2>9 DEF Output!Complete, Output!Last
  <2>11. Taken(u) = f
    BY <2>2, <2>10 DEF Taken, Shorter
  <2> QED  BY <2>8, <2>11, TextSettled DEF Texts
<1> QED  BY <1>2, <1>3

\* So they are if only those taken become text.
LEMMA ChunksSettle ==
  ASSUME NEW d \in Texts, NEW u \in Texts, NEW more \in Texts, Settled(d), Output!IsText((d \o Taken(u)) \o more)
  PROVE  Settled(Taken(u))
<1>0. u \in Seq(Output!Bytes)
  BY DEF Texts
<1>1. CASE Output!Complete(u, FALSE) = Len(u)
  <2>1. Taken(u) = u
    BY <1>0, <1>1, SubSeqFull DEF Taken
  <2> QED  BY <2>1, Chunks
<1>2. CASE Output!Complete(u, FALSE) # Len(u)
  <2>1. u # <<>> /\ Output!IsText(Output!Front(u)) /\ Output!Complete(u, FALSE) = Len(u) - 1
    BY <1>2 DEF Output!Complete
  <2>2. Taken(u) = Shorter(u) /\ Output!Front(u) = Shorter(u) /\ Shorter(u) \in Texts
    BY <1>0, <2>1, ShorterFacts DEF Taken, Shorter, Output!Front, Texts
  <2> QED  BY <2>1, <2>2, TextSettled
<1> QED  BY <1>1, <1>2

-----------------------------------------------------------------------------
(* The secret in a sequence *)

\* A part of one sequence is the beginning of another if they agree element by element.
LEMMA Slices ==
  ASSUME NEW S, NEW x \in Seq(S), NEW y \in Seq(S), NEW p \in Nat, NEW n \in Nat, p + n <= Len(x), n <= Len(y)
  PROVE  SubSeq(x, p + 1, p + n) = SubSeq(y, 1, n) <=> \A i \in 1..n : x[p + i] = y[i]
<1>1. (\A i \in (p + 1)..(p + n) : x[i] \in S) /\ \A i \in 1..n : y[i] \in S
  BY LenProperties, ElementOfSeq
<1>2. /\ SubSeq(x, p + 1, p + n) \in Seq(S) /\ SubSeq(y, 1, n) \in Seq(S)
      /\ Len(SubSeq(x, p + 1, p + n)) = n /\ Len(SubSeq(y, 1, n)) = n
      /\ \A i \in 1..n : SubSeq(x, p + 1, p + n)[i] = x[p + i] /\ SubSeq(y, 1, n)[i] = y[i]
  BY <1>1, SubSeqProperties
<1> QED  BY <1>2, SeqEqual

\* Sequences that may hold the secret.
Holds(S) == Secret \in Seq(S)

\* Bytes and characters may hold it.
LEMMA HoldsSecret == Holds(Output!Bytes) /\ Holds(Output!Characters)
<1>1. Secret \in Seq(Ascii)
  BY PartsAssumption DEF Output!OutputAssumption
<1>2. Ascii \subseteq Output!Bytes /\ Ascii \subseteq Output!Characters
  BY DEF Output!Bytes, Output!Characters
<1> QED  BY <1>1, <1>2, SeqMonotonic DEF Holds

\* Ends, element by element.
LEMMA EndsIs ==
  ASSUME NEW S, Holds(S), NEW b \in Seq(S), NEW n \in 0..Len(Secret)
  PROVE  Output!EndsWith(b, n) <=> n <= Len(b) /\ \A i \in 1..n : b[Len(b) - n + i] = Secret[i]
<1>1. Secret \in Seq(S) /\ Len(Secret) \in Nat /\ Len(b) \in Nat /\ n \in Nat
  BY LenProperties DEF Holds
<1>2. ASSUME n <= Len(b)
      PROVE  SubSeq(b, Len(b) - n + 1, Len(b)) = SubSeq(Secret, 1, n) <=> \A i \in 1..n : b[Len(b) - n + i] = Secret[i]
  <2>1. PICK p \in Nat : p = Len(b) - n
    BY <1>1, <1>2
  <2>2. p + n = Len(b) /\ n <= Len(Secret)
    BY <1>1, <2>1
  <2>3. SubSeq(b, p + 1, p + n) = SubSeq(Secret, 1, n) <=> \A i \in 1..n : b[p + i] = Secret[i]
    BY <1>1, <2>2, Slices
  <2> QED  BY <2>1, <2>2, <2>3
<1> QED  BY <1>2 DEF Output!EndsWith

\* Ends, one element on.
LEMMA EndsAppend ==
  ASSUME NEW S, Holds(S), NEW b \in Seq(S), NEW e \in S, NEW n \in 0..Len(Secret)
  PROVE  Output!EndsWith(Append(b, e), n) <=> n = 0 \/ (Output!EndsWith(b, n - 1) /\ Secret[n] = e)
<1>0. PICK c \in Seq(S) : c = Append(b, e)
  BY AppendProperties
<1>1. Len(c) = Len(b) + 1 /\ c[Len(b) + 1] = e /\ \A i \in 1..Len(b) : c[i] = b[i]
  BY <1>0, AppendProperties
<1>2. Len(b) \in Nat /\ Len(Secret) \in Nat
  BY LenProperties, OutputConstants
<1>3. Output!EndsWith(c, n) <=> n <= Len(c) /\ \A i \in 1..n : c[Len(c) - n + i] = Secret[i]
  BY EndsIs
<1>4. CASE n = 0
  BY <1>0, <1>1, <1>2, <1>3, <1>4
<1>5. CASE n # 0
  <2>1. n - 1 \in 0..Len(Secret)
    BY <1>2, <1>5
  <2>2. Output!EndsWith(b, n - 1) <=> n - 1 <= Len(b) /\ \A i \in 1..(n - 1) : b[Len(b) - (n - 1) + i] = Secret[i]
    BY <2>1, EndsIs
  <2>3. ASSUME n - 1 <= Len(b)
        PROVE  (\A i \in 1..n : c[Len(c) - n + i] = Secret[i]) <=>
                 Secret[n] = e /\ \A i \in 1..(n - 1) : b[Len(b) - (n - 1) + i] = Secret[i]
    <3>1. \A i \in 1..(n - 1) : c[Len(c) - n + i] = b[Len(b) - (n - 1) + i]
      <4>1. ASSUME NEW i \in 1..(n - 1) PROVE c[Len(c) - n + i] = b[Len(b) - (n - 1) + i]
        <5>1. PICK j \in Int : j = Len(b) - (n - 1) + i
          BY <1>2
        <5>2. j \in 1..Len(b) /\ Len(c) - n + i = j
          BY <1>1, <1>2, <2>3, <5>1
        <5>3. c[j] = b[j]
          BY <1>1, <5>2
        <5> QED  BY <5>1, <5>2, <5>3, Zenon
      <4> QED  BY <4>1
    <3>2. c[Len(c) - n + n] = e
      BY <1>1, <1>2, <1>5
    <3>3. \A i \in 1..n : i = n \/ i \in 1..(n - 1)
      BY <1>5
    <3>4. n \in 1..n /\ \A i \in 1..(n - 1) : i \in 1..n
      BY <1>5
    <3> QED  BY <3>1, <3>2, <3>3, <3>4
  <2>4. n <= Len(c) <=> n - 1 <= Len(b)
    BY <1>1, <1>2
  <2>5. Output!EndsWith(c, n) <=> Output!EndsWith(b, n - 1) /\ Secret[n] = e
    BY <1>3, <2>2, <2>3, <2>4
  <2> QED  BY <1>0, <1>5, <2>5
<1> QED  BY <1>4, <1>5

\* Two sequences end with the same beginnings of the secret.
Same(a, b) == \A k \in 0..Len(Secret) : Output!EndsWith(a, k) <=> Output!EndsWith(b, k)

\* They still do with one element more.
LEMMA SameAppend ==
  ASSUME NEW S, Holds(S), NEW a \in Seq(S), NEW b \in Seq(S), NEW e \in S, Same(a, b)
  PROVE  Same(Append(a, e), Append(b, e))
<1>1. SUFFICES ASSUME NEW k \in 0..Len(Secret)
               PROVE  Output!EndsWith(Append(a, e), k) <=> Output!EndsWith(Append(b, e), k)
  BY Zenon DEF Same
<1>2. /\ Output!EndsWith(Append(a, e), k) <=> k = 0 \/ (Output!EndsWith(a, k - 1) /\ Secret[k] = e)
      /\ Output!EndsWith(Append(b, e), k) <=> k = 0 \/ (Output!EndsWith(b, k - 1) /\ Secret[k] = e)
  BY EndsAppend
<1>3. CASE k = 0
  BY <1>2, <1>3
<1>4. CASE k # 0
  <2>1. k - 1 \in 0..Len(Secret)
    BY <1>4, OutputConstants
  <2>2. Output!EndsWith(a, k - 1) <=> Output!EndsWith(b, k - 1)
    BY <2>1 DEF Same
  <2> QED  BY <1>2, <2>2
<1> QED  BY <1>3, <1>4

\* The secret is nowhere in it.
LiesAt(t, p) == p + Len(Secret) <= Len(t) /\ \A i \in 1..Len(Secret) : t[p + i] = Secret[i]
Clear(t) == \A p \in Nat : ~LiesAt(t, p)

\* That is what it is not to contain the secret.
LEMMA ClearIs ==
  ASSUME NEW S, Holds(S), NEW t \in Seq(S)
  PROVE  Output!Contained(Secret, t) <=> ~Clear(t)
<1>0. Secret \in Seq(S) /\ Len(Secret) \in Nat /\ Len(t) \in Nat
  BY LenProperties DEF Holds
<1>1. SubSeq(Secret, 1, Len(Secret)) = Secret
  BY <1>0, SubSeqFull
<1>2. ASSUME NEW p \in Nat, p + Len(Secret) <= Len(t)
      PROVE  SubSeq(t, p + 1, p + Len(Secret)) = Secret <=> LiesAt(t, p)
  <2>1. SubSeq(t, p + 1, p + Len(Secret)) = SubSeq(Secret, 1, Len(Secret))
          <=> \A i \in 1..Len(Secret) : t[p + i] = Secret[i]
    BY <1>0, <1>2, Slices
  <2> QED  BY <1>1, <1>2, <2>1 DEF LiesAt
<1>3. \A p \in Nat : LiesAt(t, p) => p + Len(Secret) <= Len(t)
  BY DEF LiesAt
<1>4. \A p : p \in 0..(Len(t) - Len(Secret)) <=> p \in Nat /\ p + Len(Secret) <= Len(t)
  BY <1>0
<1>5. Output!Contained(Secret, t) <=> \E p \in 0..(Len(t) - Len(Secret)) : SubSeq(t, p + 1, p + Len(Secret)) = Secret
  BY DEF Output!Contained
<1> QED  BY <1>2, <1>3, <1>4, <1>5 DEF Clear

\* A beginning of what is clear is clear.
LEMMA ClearBeginning ==
  ASSUME NEW S, NEW x \in Seq(S), NEW y \in Seq(S), Clear(x \o y)
  PROVE  Clear(x)
<1>1. SUFFICES ASSUME NEW p \in Nat, LiesAt(x, p) PROVE LiesAt(x \o y, p)
  BY DEF Clear
<1>0. PICK t \in Seq(S) : t = x \o y
  BY ConcatProperties
<1>2. Len(t) = Len(x) + Len(y) /\ \A i \in 1..(Len(x) + Len(y)) : t[i] = IF i <= Len(x) THEN x[i] ELSE y[i - Len(x)]
  BY <1>0, ConcatProperties
<1>3. Len(x) \in Nat /\ Len(y) \in Nat /\ Len(Secret) \in Nat
  BY LenProperties, OutputConstants
<1>4. p + Len(Secret) <= Len(x) /\ \A i \in 1..Len(Secret) : x[p + i] = Secret[i]
  BY <1>1 DEF LiesAt
<1>5. /\ p + Len(Secret) <= Len(t)
      /\ \A i \in 1..Len(Secret) : p + i \in 1..(Len(x) + Len(y)) /\ p + i <= Len(x)
  BY <1>2, <1>3, <1>4
<1>6. \A i \in 1..Len(Secret) : t[p + i] = Secret[i]
  BY <1>2, <1>4, <1>5
<1> QED  BY <1>0, <1>5, <1>6 DEF LiesAt

\* The secret comes with its last element.
LEMMA ClearAppend ==
  ASSUME NEW S, Holds(S), NEW x \in Seq(S), NEW e \in S
  PROVE  Clear(Append(x, e)) <=> Clear(x) /\ ~Output!EndsWith(Append(x, e), Len(Secret))
<1>0. PICK c \in Seq(S) : c = Append(x, e)
  BY AppendProperties
<1>1. Len(c) = Len(x) + 1 /\ \A i \in 1..Len(x) : c[i] = x[i]
  BY <1>0, AppendProperties
<1>2. Len(x) \in Nat /\ Len(Secret) \in Nat \ {0} /\ Len(Secret) \in 0..Len(Secret)
  BY LenProperties, OutputConstants
<1>3. Output!EndsWith(c, Len(Secret)) <=>
        Len(Secret) <= Len(c) /\ \A i \in 1..Len(Secret) : c[Len(c) - Len(Secret) + i] = Secret[i]
  BY <1>2, EndsIs
<1>4. ASSUME NEW p \in Nat, p + Len(Secret) <= Len(x) PROVE LiesAt(c, p) <=> LiesAt(x, p)
  <2>1. \A i \in 1..Len(Secret) : p + i \in 1..Len(x)
    BY <1>2, <1>4
  <2>2. p + Len(Secret) <= Len(c)
    BY <1>1, <1>2, <1>4
  <2> QED  BY <1>1, <1>4, <2>1, <2>2 DEF LiesAt
<1>5. ASSUME NEW p \in Nat, ~(p + Len(Secret) <= Len(x)), LiesAt(c, p) PROVE Output!EndsWith(c, Len(Secret))
  <2>1. p + Len(Secret) <= Len(c) /\ \A i \in 1..Len(Secret) : c[p + i] = Secret[i]
    BY <1>5 DEF LiesAt
  <2>2. p = Len(c) - Len(Secret) /\ Len(Secret) <= Len(c)
    BY <1>1, <1>2, <1>5, <2>1
  <2> QED  BY <1>3, <2>1, <2>2
<1>6. ASSUME Output!EndsWith(c, Len(Secret)) PROVE \E p \in Nat : LiesAt(c, p)
  <2>0. Len(Secret) <= Len(c) /\ Len(c) \in Nat
    BY <1>1, <1>2, <1>3, <1>6
  <2>1. PICK p \in Nat : p = Len(c) - Len(Secret)
    BY <1>2, <2>0
  <2>2. p + Len(Secret) <= Len(c)
    BY <1>1, <1>2, <2>1
  <2> QED  BY <1>3, <1>6, <2>1, <2>2 DEF LiesAt
<1>7. \A p \in Nat : LiesAt(x, p) => p + Len(Secret) <= Len(x)
  BY DEF LiesAt
<1> QED  BY <1>0, <1>4, <1>5, <1>6, <1>7 DEF Clear

\* Nothing that is cut in two by the marker makes up the secret.
LEMMA MarkerParts ==
  ASSUME NEW z \in Texts, NEW y \in Texts, Clear(z), Clear(y)
  PROVE  Clear((z \o Marker) \o y)
<1> DEFINE ls == Len(Secret)
           lm == Len(Marker)
           lz == Len(z)
           ly == Len(y)
<1>0. ls \in Nat \ {0} /\ lm \in Nat /\ lz \in Nat /\ ly \in Nat
  BY OutputConstants, LenProperties DEF Texts
<1> HIDE DEF ls, lm, lz, ly
<1>a. PICK w \in Texts : w = z \o Marker
  BY Joins, OutputConstants DEF Texts
<1>b. Len(w) = lz + lm /\ \A i \in 1..(lz + lm) : w[i] = IF i <= lz THEN z[i] ELSE Marker[i - lz]
  BY <1>a, ConcatProperties, OutputConstants DEF Texts, lm, lz
<1>c. PICK t \in Texts : t = w \o y
  BY Joins DEF Texts
<1>d. Len(t) = Len(w) + ly /\ \A i \in 1..(Len(w) + ly) : t[i] = IF i <= Len(w) THEN w[i] ELSE y[i - Len(w)]
  BY <1>c, ConcatProperties DEF Texts, ly
<1>1. t = (z \o Marker) \o y /\ Len(t) = lz + lm + ly
  BY <1>a, <1>b, <1>c, <1>d
<1>2. /\ \A i \in 1..lz : t[i] = z[i]
      /\ \A i \in 1..lm : t[lz + i] = Marker[i]
      /\ \A i \in 1..ly : t[lz + lm + i] = y[i]
  <2>2. \A i \in 1..(lz + lm) : w[i] = IF i <= lz THEN z[i] ELSE Marker[i - lz]
    BY <1>b
  <2>3. \A i \in 1..(lz + lm + ly) : t[i] = IF i <= lz + lm THEN w[i] ELSE y[i - (lz + lm)]
    BY <1>b, <1>d
  <2>4. \A i \in 1..lz : t[i] = z[i]
    BY <1>0, <2>2, <2>3
  <2>5. ASSUME NEW i \in 1..lm PROVE t[lz + i] = Marker[i]
    <3>1. PICK j \in 1..(lz + lm) : j = lz + i
      BY <1>0
    <3>2. j \in 1..(lz + lm + ly) /\ ~(j <= lz) /\ j <= lz + lm /\ j - lz = i
      BY <1>0, <3>1
    <3>3. t[j] = w[j] /\ w[j] = Marker[j - lz]
      BY <2>2, <2>3, <3>1, <3>2
    <3> QED  BY <3>1, <3>2, <3>3
  <2>6. ASSUME NEW i \in 1..ly PROVE t[lz + lm + i] = y[i]
    <3>1. PICK j \in 1..(lz + lm + ly) : j = lz + lm + i
      BY <1>0
    <3>2. ~(j <= lz + lm) /\ j - (lz + lm) = i
      BY <1>0, <3>1
    <3>3. t[j] = y[j - (lz + lm)]
      BY <2>3, <3>1, <3>2
    <3> QED  BY <3>1, <3>2, <3>3
  <2> QED  BY <2>4, <2>5, <2>6
<1>3. SUFFICES ASSUME NEW p \in Nat, LiesAt(t, p) PROVE FALSE
  BY <1>1 DEF Clear
<1>4. p + ls <= Len(t) /\ \A i \in 1..ls : t[p + i] = Secret[i]
  BY <1>3 DEF LiesAt, ls
<1>5. CASE p + ls <= lz
  <2>1. \A i \in 1..ls : p + i \in 1..lz
    BY <1>0, <1>5
  <2>2. \A i \in 1..ls : z[p + i] = Secret[i]
    BY <1>2, <1>4, <2>1
  <2> QED  BY <1>5, <2>2 DEF Clear, LiesAt, ls, lz
<1>6. CASE p >= lz + lm
  <2>1. PICK q \in Nat : q = p - (lz + lm)
    BY <1>0, <1>6
  <2>2. \A i \in 1..ls : q + i \in 1..ly /\ lz + lm + (q + i) = p + i
    BY <1>0, <1>1, <1>4, <2>1
  <2>3. \A i \in 1..ls : y[q + i] = Secret[i]
    BY <1>2, <1>4, <2>2
  <2>4. q + ls <= ly
    BY <1>0, <1>1, <1>4, <2>1
  <2> QED  BY <2>3, <2>4 DEF Clear, LiesAt, ls, ly
<1>7. CASE lz < p + ls /\ p < lz + lm
  <2>1. PICK shift \in (1 - ls)..(lm - 1) : shift = p - lz
    BY <1>0, <1>7
  <2>2. PICK i \in DOMAIN Secret : i + shift \in DOMAIN Marker /\ Marker[i + shift] # Secret[i]
    BY <2>1, PartsAssumption DEF Output!OutputAssumption, ls, lm
  <2>3. i \in 1..ls /\ i + shift \in 1..lm
    BY <2>2, OutputConstants, LenProperties DEF Texts, ls, lm
  <2>4. lz + (i + shift) = p + i
    BY <1>0, <2>1, <2>3
  <2> QED  BY <1>2, <1>4, <2>2, <2>3, <2>4
<1> QED  BY <1>0, <1>5, <1>6, <1>7

(* What is found of the secret *)

Scanned == [text : Texts, rest : Texts]
Before(rest) == SubSeq(rest, 1, Len(rest) - Len(Secret))
ScanNext(r, e) ==
  IF Output!EndsWith(Append(r.rest, e), Len(Secret))
  THEN [text |-> (r.text \o Before(Append(r.rest, e))) \o Marker, rest |-> <<>>]
  ELSE [text |-> r.text, rest |-> Append(r.rest, e)]

\* A scan makes bytes of bytes.
LEMMA ScanTyped ==
  ASSUME NEW r \in Scanned, NEW e \in Output!Bytes
  PROVE  ScanNext(r, e) \in Scanned
<1>1. PICK c \in Texts : c = Append(r.rest, e)
  BY AppendProperties DEF Scanned, Texts
<1>2. Before(c) \in Texts
  BY OutputConstants DEF Before, Texts
<1>3. r.text \in Texts /\ <<>> \in Texts
  BY EmptySeq DEF Scanned, Texts
<1>4. PICK w \in Texts : w = r.text \o Before(c)
  BY <1>2, <1>3, ConcatProperties DEF Texts
<1>5. w \o Marker \in Texts
  BY OutputConstants, ConcatProperties DEF Texts
<1> QED  BY <1>1, <1>3, <1>4, <1>5 DEF ScanNext, Scanned

ScanFrom(before, b) == ScanNext(before, b[Len(b)])

\* What is found is found byte by byte.
LEMMA ScanFacts ==
  /\ Output!Scan[<<>>] = [text |-> <<>>, rest |-> <<>>]
  /\ \A s \in Texts : /\ Output!Scan[s] \in Scanned
                      /\ \A e \in Output!Bytes : Output!Scan[Append(s, e)] = ScanNext(Output!Scan[s], e)
<1> DEFINE S == Output!Bytes
           start == [text |-> <<>>, rest |-> <<>>]
           step == [x \in Scanned \X (Seq(S) \ {<<>>}) |-> ScanFrom(x[1], x[2])]
           T == Output!Scan
<1>1. start \in Scanned /\ <<>> \in Texts /\ Texts = Seq(S)
  BY EmptySeq DEF Scanned, Texts
<1>2. ASSUME NEW r \in Scanned, NEW s \in Seq(S) \ {<<>>}
      PROVE  step[<<r, s>>] = ScanFrom(r, s) /\ step[<<r, s>>] \in Scanned
  <2>1. s[Len(s)] \in S
    BY ShorterFacts
  <2> QED  BY <2>1, ScanTyped DEF ScanFrom
<1>3. step \in [Scanned \X (Seq(S) \ {<<>>}) -> Scanned]
  <2>1. ASSUME NEW x \in Scanned \X (Seq(S) \ {<<>>}) PROVE step[x] \in Scanned
    <3>1. x[1] \in Scanned /\ x[2] \in Seq(S) \ {<<>>} /\ x = <<x[1], x[2]>>
      OBVIOUS
    <3> HIDE DEF step
    <3> QED  BY <1>2, <3>1
  <2>2. step = [x \in Scanned \X (Seq(S) \ {<<>>}) |-> step[x]]
    OBVIOUS
  <2> HIDE DEF step
  <2> QED  BY <2>1, <2>2
<1> HIDE DEF step
<1>4. PICK f : IsFold(f, S, Scanned, start, step)
  BY <1>1, <1>3, FoldExists DEF IsStep
<1>5. ASSUME NEW s \in Seq(S)
      PROVE f[s] = IF s = <<>> THEN start ELSE ScanFrom(f[Shorter(s)], s)
  <2>1. f[s] = IF s = <<>> THEN start ELSE step[<<f[Shorter(s)], s>>]
    BY <1>4 DEF IsFold
  <2>2. s # <<>> => f[Shorter(s)] \in Scanned
    BY <1>4, ShorterFacts DEF IsFold
  <2> QED  BY <1>2, <2>1, <2>2
<1> DEFINE Eq(g) == g = [b \in Seq(Output!Bytes) |->
  IF b = <<>> THEN [text |-> <<>>, rest |-> <<>>]
  ELSE IF Output!EndsWith(Append(g[Output!Front(b)].rest, Output!Last(b)), Len(Secret))
       THEN [text |-> (g[Output!Front(b)].text \o SubSeq(Append(g[Output!Front(b)].rest, Output!Last(b)), 1,
                        Len(Append(g[Output!Front(b)].rest, Output!Last(b))) - Len(Secret))) \o Marker, rest |-> <<>>]
       ELSE [text |-> g[Output!Front(b)].text, rest |-> Append(g[Output!Front(b)].rest, Output!Last(b))]]
<1>6. Eq(f)
  <2>1. f = [s \in Seq(S) |-> IF s = <<>> THEN start ELSE ScanFrom(f[Shorter(s)], s)]
    BY <1>4, <1>5 DEF IsFold
  <2> QED  BY <2>1 DEF ScanFrom, ScanNext, Before, Shorter, Output!Front, Output!Last
<1>7. Eq(T)
  <2>1. T = CHOOSE g : Eq(g)
    BY DEF Output!Scan
  <2> HIDE DEF Eq, T
  <2> QED  BY <1>6, <2>1
<1>8. T = [s \in Seq(S) |-> IF s = <<>> THEN start ELSE ScanFrom(T[Shorter(s)], s)]
  BY <1>7 DEF ScanFrom, ScanNext, Before, Shorter, Output!Front, Output!Last
<1> HIDE DEF T
<1>9. T[<<>>] = start
  BY <1>8, EmptySeq
<1>10. ASSUME NEW s \in Seq(S), NEW e \in S
       PROVE  T[Append(s, e)] = ScanNext(T[s], e)
  <2>1. /\ Append(s, e) \in Seq(S) /\ Append(s, e) # <<>> /\ Shorter(Append(s, e)) = s
        /\ Append(s, e)[Len(Append(s, e))] = e
    BY ShorterFacts, AppendProperties
  <2>2. PICK t \in Seq(S) : t = Append(s, e)
    BY <2>1
  <2>3. T[t] = IF t = <<>> THEN start ELSE ScanFrom(T[Shorter(t)], t)
    BY <1>8
  <2> QED  BY <2>1, <2>2, <2>3 DEF ScanFrom
<1> DEFINE P == {s \in Seq(S) : T[s] \in Scanned}
<1>11. <<>> \in P
  BY <1>1, <1>9
<1>12. \A s \in Seq(S), e \in S : s \in P => Append(s, e) \in P
  <2>1. ASSUME NEW s \in Seq(S), NEW e \in S, T[s] \in Scanned
        PROVE  T[Append(s, e)] \in Scanned /\ Append(s, e) \in Seq(S)
    BY <1>10, <2>1, ScanTyped, AppendProperties
  <2> QED  BY <2>1
<1> HIDE DEF P
<1>13. Seq(S) \subseteq P
  BY <1>11, <1>12, InductiveSequences
<1>14. ASSUME NEW s \in Texts
       PROVE  T[s] \in Scanned /\ \A e \in Output!Bytes : T[Append(s, e)] = ScanNext(T[s], e)
  BY <1>1, <1>10, <1>13 DEF P
<1> QED  BY <1>9, <1>14 DEF T

\* A sequence in two parts.
LEMMA Parted ==
  ASSUME NEW S, NEW x \in Seq(S), NEW n \in 0..Len(x)
  PROVE  /\ SubSeq(x, 1, n) \in Seq(S) /\ SubSeq(x, n + 1, Len(x)) \in Seq(S)
         /\ x = SubSeq(x, 1, n) \o SubSeq(x, n + 1, Len(x))
         /\ Len(SubSeq(x, 1, n)) = n /\ Len(SubSeq(x, n + 1, Len(x))) = Len(x) - n
<1>0. Len(x) \in Nat /\ n \in Nat /\ \A i \in 1..Len(x) : x[i] \in S
  BY LenProperties, ElementOfSeq
<1>a. SubSeq(x, 1, n) \in Seq(S)
  <2>1. \A i \in 1..n : x[i] \in S
    BY <1>0
  <2> QED  BY <1>0, <2>1, SubSeqProperties
<1>b. SubSeq(x, n + 1, Len(x)) \in Seq(S)
  <2>1. \A i \in (n + 1)..Len(x) : x[i] \in S
    BY <1>0
  <2> QED  BY <1>0, <2>1, SubSeqProperties
<1>1. PICK a \in Seq(S) : a = SubSeq(x, 1, n)
  BY <1>a
<1>2. PICK b \in Seq(S) : b = SubSeq(x, n + 1, Len(x))
  BY <1>b
<1>3. Len(a) = n /\ \A i \in 1..n : a[i] = x[i]
  BY <1>0, <1>1, SubSeqProperties
<1>4. Len(b) = Len(x) - n /\ \A i \in 1..(Len(x) - n) : b[i] = x[n + i]
  BY <1>0, <1>2, SubSeqProperties
<1>5. PICK c \in Seq(S) : c = a \o b
  BY ConcatProperties
<1>6. Len(c) = Len(a) + Len(b) /\ \A i \in 1..(Len(a) + Len(b)) : c[i] = IF i <= Len(a) THEN a[i] ELSE b[i - Len(a)]
  BY <1>5, ConcatProperties
<1>7. Len(c) = Len(x)
  BY <1>0, <1>3, <1>4, <1>6
<1>8. ASSUME NEW i \in 1..Len(x) PROVE c[i] = x[i]
  <2>1. CASE i <= n
    BY <1>0, <1>3, <1>4, <1>6, <2>1
  <2>2. CASE ~(i <= n)
    <3>1. PICK j \in 1..(Len(x) - n) : j = i - n
      BY <1>0, <2>2
    <3>2. n + j = i /\ b[j] = x[n + j] /\ c[i] = b[i - n]
      BY <1>0, <1>3, <1>4, <1>6, <2>2, <3>1
    <3> QED  BY <3>1, <3>2
  <2> QED  BY <2>1, <2>2
<1>9. c = x
  BY <1>7, <1>8, SeqEqual
<1> QED  BY <1>1, <1>2, <1>3, <1>4, <1>5, <1>9

\* What is before the secret at the end.
LEMMA BeforeFacts ==
  ASSUME NEW o \in Texts, NEW b \in Texts, Len(Secret) <= Len(b)
  PROVE  /\ Before(b) \in Texts
         /\ o \o b \in Texts /\ Before(o \o b) = o \o Before(b)
<1>0. Len(b) \in Nat /\ Len(o) \in Nat /\ Len(Secret) \in Nat /\ b \in Seq(Output!Bytes) /\ o \in Seq(Output!Bytes)
  BY LenProperties, OutputConstants DEF Texts
<1>1. PICK n \in 0..Len(b) : n = Len(b) - Len(Secret)
  BY <1>0
<1>2. PICK w \in Texts : w = Before(b)
  BY <1>0, <1>1, Parted DEF Before, Texts
<1>3. Len(w) = n /\ \A i \in 1..n : w[i] = b[i]
  <2>1. \A i \in 1..n : b[i] \in Output!Bytes
    BY <1>0, ElementOfSeq
  <2> QED  BY <1>0, <1>1, <1>2, <2>1, SubSeqProperties DEF Before
<1>4. PICK c \in Texts : c = o \o b
  BY <1>0, ConcatProperties DEF Texts
<1>5. Len(c) = Len(o) + Len(b) /\ \A i \in 1..(Len(o) + Len(b)) : c[i] = IF i <= Len(o) THEN o[i] ELSE b[i - Len(o)]
  BY <1>0, <1>4, ConcatProperties
<1>6. PICK m \in 0..Len(c) : m = Len(o) + n /\ m = Len(c) - Len(Secret)
  <2>1. Len(o) + n \in 0..Len(c) /\ Len(o) + n = Len(c) - Len(Secret)
    BY <1>0, <1>1, <1>5
  <2> QED  BY <2>1
<1>7. PICK d \in Texts : d = Before(c)
  BY <1>4, <1>6, Parted DEF Before, Texts
<1>8. Len(d) = m /\ \A i \in 1..m : d[i] = c[i]
  <2>1. \A i \in 1..m : c[i] \in Output!Bytes
    BY <1>4, <1>6, ElementOfSeq DEF Texts
  <2> QED  BY <1>6, <1>7, <2>1, SubSeqProperties DEF Before
<1>9. PICK e \in Texts : e = o \o w
  BY <1>0, ConcatProperties DEF Texts
<1>10. Len(e) = Len(o) + n /\ \A i \in 1..(Len(o) + n) : e[i] = IF i <= Len(o) THEN o[i] ELSE w[i - Len(o)]
  BY <1>0, <1>3, <1>9, ConcatProperties DEF Texts
<1>11. ASSUME NEW i \in 1..m PROVE d[i] = e[i]
  <2>0. i \in 1..(Len(o) + Len(b)) /\ i \in 1..(Len(o) + n)
    BY <1>0, <1>1, <1>6
  <2>1. CASE i <= Len(o)
    BY <1>5, <1>8, <1>10, <2>0, <2>1
  <2>2. CASE ~(i <= Len(o))
    <3>1. PICK j \in 1..n : j = i - Len(o)
      BY <1>0, <1>1, <2>0, <2>2
    <3>2. w[j] = b[j] /\ d[i] = b[j] /\ e[i] = w[j]
      BY <1>3, <1>5, <1>8, <1>10, <2>0, <2>2, <3>1
    <3> QED  BY <3>2
  <2> QED  BY <2>1, <2>2
<1>12. d = e
  BY <1>6, <1>8, <1>10, <1>11, SeqEqual DEF Texts
<1> QED  BY <1>2, <1>4, <1>7, <1>9, <1>12

\* What was found has no secret in it: it is marked where one was.
TextClear(x) == x = <<>> \/ \E z \in Texts : Clear(z) /\ x = z \o Marker

\* What was found and what follows it are clear together.
LEMMA ClearParts ==
  ASSUME NEW x \in Texts, NEW y \in Texts, TextClear(x), Clear(y)
  PROVE  x \o y \in Texts /\ Clear(x \o y)
<1>1. x \o y \in Texts
  BY ConcatProperties DEF Texts
<1>2. CASE x = <<>>
  BY <1>1, <1>2, Joins DEF Texts
<1>3. CASE x # <<>>
  BY <1>1, <1>3, MarkerParts DEF TextClear
<1> QED  BY <1>2, <1>3

\* Nothing is clear.
LEMMA EmptyClear == <<>> \in Texts /\ Clear(<<>>)
<1>1. \A p \in Nat : ~(p + Len(Secret) <= Len(<<>>))
  BY OutputConstants
<1>2. \A p \in Nat : ~LiesAt(<<>>, p)
  BY <1>1 DEF LiesAt
<1> QED  BY <1>2, EmptySeq DEF Texts, Clear

\* What is found stays clear with one byte more.
LEMMA ScanNextClear ==
  ASSUME NEW r \in Scanned, NEW e \in Output!Bytes, Clear(r.rest), TextClear(r.text)
  PROVE  Clear(ScanNext(r, e).rest) /\ TextClear(ScanNext(r, e).text)
<1>1. PICK x \in Texts, y \in Texts : x = r.text /\ y = r.rest
  BY DEF Scanned
<1>2. PICK c \in Texts : c = Append(y, e)
  BY AppendProperties DEF Texts
<1>3. Clear(c) <=> ~Output!EndsWith(c, Len(Secret))
  BY <1>1, <1>2, HoldsSecret, ClearAppend DEF Texts
<1>4. CASE Output!EndsWith(c, Len(Secret))
  <2>1. ScanNext(r, e) = [text |-> (x \o Before(c)) \o Marker, rest |-> <<>>]
    BY <1>1, <1>2, <1>4 DEF ScanNext
  <2>2. Len(Secret) <= Len(c)
    BY <1>4 DEF Output!EndsWith
  <2>3. Len(y) \in Nat /\ Len(c) = Len(y) + 1 /\ Len(Secret) \in Nat \ {0}
    BY <1>2, AppendProperties, OutputConstants DEF Texts
  <2>4. PICK n \in 0..Len(y) : n = Len(c) - Len(Secret)
    BY <2>2, <2>3
  <2>5. PICK w \in Texts : w = SubSeq(y, 1, n)
    BY Parted DEF Texts
  <2>6. Before(c) = w
    <3>0. c \in Seq(Output!Bytes) /\ n \in 0..Len(c)
      BY <2>3, <2>4 DEF Texts
    <3>1. PICK v \in Texts : v = SubSeq(c, 1, n)
      BY <3>0, Parted DEF Texts
    <3>2. Len(v) = n /\ \A i \in 1..n : v[i] = c[i]
      <4>1. \A i \in 1..n : c[i] \in Output!Bytes
        BY <2>3, <2>4, ElementOfSeq DEF Texts
      <4> QED  BY <2>4, <3>1, <4>1, SubSeqProperties
    <3>3. Len(w) = n /\ \A i \in 1..n : w[i] = y[i]
      <4>1. \A i \in 1..n : y[i] \in Output!Bytes
        BY <2>4, ElementOfSeq DEF Texts
      <4> QED  BY <2>4, <2>5, <4>1, SubSeqProperties
    <3>4. \A i \in 1..n : c[i] = y[i]
      <4>1. \A i \in 1..Len(y) : c[i] = y[i]
        BY <1>2, AppendProperties DEF Texts
      <4> QED  BY <2>3, <2>4, <4>1
    <3>5. v = w
      BY <3>2, <3>3, <3>4, SeqEqual DEF Texts
    <3> QED  BY <2>4, <3>1, <3>5 DEF Before
  <2>7. Clear(w)
    <3>0. y \in Seq(Output!Bytes)
      BY DEF Texts
    <3>1. PICK u \in Seq(Output!Bytes) : u = SubSeq(y, n + 1, Len(y))
      BY <3>0, Parted
    <3>2. y = w \o u
      <4>1. y = SubSeq(y, 1, n) \o SubSeq(y, n + 1, Len(y))
        BY <3>0, Parted
      <4> QED  BY <2>5, <3>1, <4>1
    <3> QED  BY <1>1, <3>1, <3>2, ClearBeginning DEF Texts
  <2>8. Clear(x \o w) /\ x \o w \in Texts
    BY <1>1, <2>7, ClearParts
  <2>9. PICK v \in Texts : v = x \o w
    BY <2>8
  <2>10. ScanNext(r, e).rest = <<>> /\ ScanNext(r, e).text = v \o Marker
    BY <2>1, <2>6, <2>9
  <2>11. Clear(v)
    BY <2>8, <2>9
  <2>12. TextClear(v \o Marker)
    BY <2>11 DEF TextClear
  <2> QED  BY <2>10, <2>12, EmptyClear
<1>5. CASE ~Output!EndsWith(c, Len(Secret))
  <2>1. ScanNext(r, e) = [text |-> x, rest |-> c]
    BY <1>1, <1>2, <1>5 DEF ScanNext
  <2> QED  BY <1>1, <1>3, <1>5, <2>1
<1> QED  BY <1>4, <1>5

\* What is found, and what follows it, is clear.
LEMMA ScanClear ==
  ASSUME NEW s \in Texts
  PROVE  /\ Output!Scan[s] \in Scanned
         /\ Clear(Output!Scan[s].rest) /\ TextClear(Output!Scan[s].text)
<1> DEFINE S == Output!Bytes
           Good(r) == Clear(r.rest) /\ TextClear(r.text)
           P == {b \in Texts : Good(Output!Scan[b])}
<1>1. <<>> \in P
  BY ScanFacts, EmptyClear DEF TextClear
<1>2. ASSUME NEW b \in Texts, NEW e \in S, Good(Output!Scan[b]) PROVE Append(b, e) \in Texts /\ Good(Output!Scan[Append(b, e)])
  <2>1. PICK r \in Scanned : r = Output!Scan[b]
    BY ScanFacts
  <2>2. Output!Scan[Append(b, e)] = ScanNext(r, e)
    BY <2>1, ScanFacts
  <2> QED  BY <1>2, <2>1, <2>2, ScanNextClear, AppendProperties DEF Texts
<1> HIDE DEF Good
<1>3. \A b \in Seq(S), e \in S : b \in P => Append(b, e) \in P
  BY <1>2 DEF Texts
<1> HIDE DEF P
<1>4. Seq(S) \subseteq P
  BY <1>1, <1>3, InductiveSequences
<1> QED  BY <1>4, ScanFacts DEF P, Good, Texts

\* What is shorter than the secret is what follows it.
LEMMA ShortScan ==
  ASSUME NEW s \in Texts, Len(s) < Len(Secret)
  PROVE  Output!Scan[s] = [text |-> <<>>, rest |-> s]
<1> DEFINE S == Output!Bytes
           Short(b) == Len(b) < Len(Secret) => Output!Scan[b] = [text |-> <<>>, rest |-> b]
           P == {b \in Texts : Short(b)}
<1>1. <<>> \in P
  BY ScanFacts, EmptyClear
<1>2. ASSUME NEW b \in Texts, NEW e \in S, Short(b) PROVE Append(b, e) \in Texts /\ Short(Append(b, e))
  <2>1. PICK c \in Texts : c = Append(b, e)
    BY AppendProperties DEF Texts
  <2>2. Len(c) = Len(b) + 1 /\ Len(b) \in Nat /\ Len(Secret) \in Nat
    BY <2>1, AppendProperties, OutputConstants DEF Texts
  <2>3. ASSUME Len(c) < Len(Secret) PROVE Output!Scan[c] = [text |-> <<>>, rest |-> c]
    <3>1. PICK r \in Scanned : r = Output!Scan[b]
      BY ScanFacts
    <3>2. r = [text |-> <<>>, rest |-> b]
      BY <1>2, <2>2, <2>3, <3>1
    <3>3. Output!Scan[c] = ScanNext(r, e)
      BY <2>1, <3>1, ScanFacts
    <3>4. ~Output!EndsWith(c, Len(Secret))
      BY <2>2, <2>3 DEF Output!EndsWith
    <3>5. r.text = <<>> /\ r.rest = b
      BY <3>2
    <3> QED  BY <2>1, <3>3, <3>4, <3>5 DEF ScanNext
  <2> QED  BY <2>1, <2>3
<1> HIDE DEF Short
<1>3. \A b \in Seq(S), e \in S : b \in P => Append(b, e) \in P
  BY <1>2 DEF Texts
<1> HIDE DEF P
<1>4. Seq(S) \subseteq P
  BY <1>1, <1>3, InductiveSequences
<1> QED  BY <1>4 DEF P, Short, Texts

\* Concatenation of bytes.
LEMMA Together ==
  ASSUME NEW x \in Texts, NEW y \in Texts
  PROVE  x \o y \in Texts /\ \A c \in Output!Bytes : x \o Append(y, c) = Append(x \o y, c)
BY Joins DEF Texts

\* Concatenations of bytes associate.
LEMMA Associates ==
  ASSUME NEW x \in Texts, NEW y \in Texts, NEW z \in Texts
  PROVE  (x \o y) \o z = x \o (y \o z)
BY ConcatAssociative DEF Texts

\* What is found goes on alike, whether all that was read or only what is held is looked through.
Continues(text, open, all, held) ==
  \/ held.text = <<>> /\ all.text = text /\ all.rest = open \o held.rest /\ Same(all.rest, held.rest)
  \/ all.rest = held.rest /\ all.text = (text \o open) \o held.text

\* They go on alike with one byte more.
LEMMA ContinuesNext ==
  ASSUME NEW text \in Texts, NEW open \in Texts, NEW a \in Scanned, NEW b \in Scanned, NEW e \in Output!Bytes,
         Continues(text, open, a, b)
  PROVE  Continues(text, open, ScanNext(a, e), ScanNext(b, e))
<1>0. Len(Secret) \in 0..Len(Secret)
  BY OutputConstants
<1>marked. \A x, y \in Texts : (x \o y) \o Marker = x \o (y \o Marker)
  <2>1. Marker \in Texts
    BY OutputConstants
  <2> QED  BY <2>1, Associates
<1>opened. \A y \in Texts : (text \o open) \o y = text \o (open \o y)
  BY Associates
<1>1. CASE b.text = <<>> /\ a.text = text /\ a.rest = open \o b.rest /\ Same(a.rest, b.rest)
  <2>1. PICK x \in Texts, y \in Texts : x = a.rest /\ y = b.rest
    BY DEF Scanned
  <2>2. PICK cx \in Texts, cy \in Texts : cx = Append(x, e) /\ cy = Append(y, e)
    BY AppendProperties DEF Texts
  <2>3. cx = open \o cy
    <3>1. \A c \in Output!Bytes : open \o Append(y, c) = Append(open \o y, c)
      BY Together
    <3>2. open \o Append(y, e) = Append(open \o y, e)
      BY <3>1, Zenon
    <3>3. x = open \o y
      BY <1>1, <2>1
    <3> QED  BY <2>2, <3>2, <3>3, Zenon
  <2>4. Same(cx, cy)
    BY <1>1, <2>1, <2>2, HoldsSecret, SameAppend DEF Texts
  <2>5. Output!EndsWith(cx, Len(Secret)) <=> Output!EndsWith(cy, Len(Secret))
    BY <1>0, <2>4 DEF Same
  <2>6. CASE Output!EndsWith(cy, Len(Secret))
    <3>1. Len(Secret) <= Len(cy)
      BY <2>6 DEF Output!EndsWith
    <3>2. PICK bx \in Texts, by \in Texts : bx = Before(cx) /\ by = Before(cy) /\ bx = open \o by
      <4>1. Before(cy) \in Texts /\ Before(cx) = open \o Before(cy)
        BY <2>3, <3>1, BeforeFacts
      <4>2. open \o Before(cy) \in Texts
        BY <4>1, Together
      <4> QED  BY <4>1, <4>2
    <3>3. /\ ScanNext(a, e).rest = <<>> /\ ScanNext(a, e).text = (text \o bx) \o Marker
          /\ ScanNext(b, e).rest = <<>> /\ ScanNext(b, e).text = (<<>> \o by) \o Marker
      BY <1>1, <2>1, <2>2, <2>5, <2>6, <3>2 DEF ScanNext
    <3>4. <<>> \o by = by
      BY ConcatEmptySeq DEF Texts
    <3>5. (text \o bx) \o Marker = (text \o open) \o (by \o Marker)
      <4>1. text \o bx = (text \o open) \o by
        <5>1. (text \o open) \o by = text \o (open \o by)
          BY <1>opened, Zenon
        <5> QED  BY <3>2, <5>1
      <4>2. PICK w \in Texts : w = text \o open
        BY Together
      <4>3. (w \o by) \o Marker = w \o (by \o Marker)
        BY <1>marked, Zenon
      <4> QED  BY <4>1, <4>2, <4>3
    <3> QED  BY <3>3, <3>4, <3>5 DEF Continues
  <2>7. CASE ~Output!EndsWith(cy, Len(Secret))
    <3>1. /\ ScanNext(a, e).rest = cx /\ ScanNext(a, e).text = text
          /\ ScanNext(b, e).rest = cy /\ ScanNext(b, e).text = <<>>
      BY <1>1, <2>1, <2>2, <2>5, <2>7 DEF ScanNext
    <3> QED  BY <2>3, <2>4, <3>1 DEF Continues
  <2> QED  BY <2>6, <2>7
<1>2. CASE a.rest = b.rest /\ a.text = (text \o open) \o b.text
  <2>1. PICK x \in Texts, bt \in Texts : x = a.rest /\ bt = b.text
    BY DEF Scanned
  <2>2. PICK c \in Texts : c = Append(x, e)
    BY <2>1, AppendProperties DEF Texts
  <2>3. PICK w \in Texts : w = text \o open
    BY Together
  <2>4. CASE Output!EndsWith(c, Len(Secret))
    <3>1. Len(Secret) <= Len(c)
      BY <2>4 DEF Output!EndsWith
    <3>2. PICK bc \in Texts : bc = Before(c)
      BY <3>1, BeforeFacts
    <3>3. /\ ScanNext(a, e).rest = <<>> /\ ScanNext(a, e).text = ((w \o bt) \o bc) \o Marker
          /\ ScanNext(b, e).rest = <<>> /\ ScanNext(b, e).text = (bt \o bc) \o Marker
      BY <1>2, <2>1, <2>2, <2>3, <2>4, <3>2 DEF ScanNext
    <3>4. ((w \o bt) \o bc) \o Marker = w \o ((bt \o bc) \o Marker)
      <4>1. (w \o bt) \o bc = w \o (bt \o bc)
        BY Associates, SMTT(20)
      <4>2. PICK v \in Texts : v = bt \o bc
        BY Together
      <4>3. (w \o v) \o Marker = w \o (v \o Marker)
        BY <1>marked, Zenon
      <4> QED  BY <4>1, <4>2, <4>3
    <3> QED  BY <2>3, <3>3, <3>4 DEF Continues
  <2>5. CASE ~Output!EndsWith(c, Len(Secret))
    <3>1. /\ ScanNext(a, e).rest = c /\ ScanNext(a, e).text = w \o bt
          /\ ScanNext(b, e).rest = c /\ ScanNext(b, e).text = bt
      BY <1>2, <2>1, <2>2, <2>3, <2>5 DEF ScanNext
    <3> QED  BY <2>3, <3>1 DEF Continues
  <2> QED  BY <2>4, <2>5
<1> QED  BY <1>1, <1>2 DEF Continues

\* They go on alike with any bytes.
LEMMA Continuation ==
  ASSUME NEW r \in Texts, NEW open \in Texts, NEW h \in Texts, NEW y \in Texts,
         Output!Scan[r].rest = open \o h, Same(Output!Scan[r].rest, h), Len(h) < Len(Secret)
  PROVE  Continues(Output!Scan[r].text, open, Output!Scan[r \o y], Output!Scan[h \o y])
<1> DEFINE S == Output!Bytes
           text == Output!Scan[r].text
           Goes(b) == Continues(text, open, Output!Scan[r \o b], Output!Scan[h \o b])
           P == {b \in Texts : Goes(b)}
<1>0. text \in Texts /\ Output!Scan[h] = [text |-> <<>>, rest |-> h]
  BY ScanFacts, ShortScan DEF Scanned
<1>1. <<>> \in P
  <2>1. r \o <<>> = r /\ h \o <<>> = h /\ <<>> \in Texts
    BY ConcatEmptySeq, EmptySeq DEF Texts
  <2>2. Continues(text, open, Output!Scan[r], Output!Scan[h])
    <3>1. Output!Scan[h].text = <<>> /\ Output!Scan[h].rest = h
      BY <1>0
    <3> QED  BY <3>1 DEF Continues
  <2> QED  BY <2>1, <2>2
<1>2. ASSUME NEW b \in Texts, NEW e \in S, Goes(b) PROVE Append(b, e) \in Texts /\ Goes(Append(b, e))
  <2>1. PICK rb \in Texts, hb \in Texts : rb = r \o b /\ hb = h \o b
    BY Together
  <2>2. r \o Append(b, e) = Append(rb, e) /\ h \o Append(b, e) = Append(hb, e)
    <3>1. /\ \A c \in Output!Bytes : r \o Append(b, c) = Append(r \o b, c)
          /\ \A c \in Output!Bytes : h \o Append(b, c) = Append(h \o b, c)
      BY Together
    <3> QED  BY <2>1, <3>1, Zenon
  <2>3. PICK A \in Scanned, B \in Scanned : A = Output!Scan[rb] /\ B = Output!Scan[hb]
    BY ScanFacts
  <2>4. Output!Scan[Append(rb, e)] = ScanNext(A, e) /\ Output!Scan[Append(hb, e)] = ScanNext(B, e)
    BY <2>3, ScanFacts
  <2>5. Continues(text, open, A, B)
    BY <1>2, <2>1, <2>3
  <2> HIDE DEF text
  <2>6. Continues(text, open, ScanNext(A, e), ScanNext(B, e))
    BY <1>0, <2>5, ContinuesNext
  <2>7. Append(b, e) \in Texts
    BY AppendProperties DEF Texts
  <2> QED  BY <2>2, <2>4, <2>6, <2>7
<1> HIDE DEF Goes
<1>3. \A b \in Seq(S), e \in S : b \in P => Append(b, e) \in P
  BY <1>2 DEF Texts
<1> HIDE DEF P
<1>4. Seq(S) \subseteq P
  BY <1>1, <1>3, InductiveSequences
<1> QED  BY <1>4 DEF P, Goes, Texts

-----------------------------------------------------------------------------
(* The greatest of some numbers *)

\* Numbers up to a bound have a greatest.
LEMMA Greatest ==
  ASSUME NEW T, NEW m \in Nat, T \subseteq 0..m, 0 \in T
  PROVE  \E n \in T : \A k \in T : k <= n
<1>1. SUFFICES ASSUME \A n \in T : \E k \in T : k > n PROVE FALSE
  OBVIOUS
<1> DEFINE N == {n \in Nat : \E k \in T : k >= n}
<1>2. 0 \in N
  OBVIOUS
<1>3. ASSUME NEW n \in Nat, n \in N PROVE n + 1 \in N
  <2>1. PICK k \in T : k >= n
    BY <1>3
  <2>2. PICK l \in T : l > k
    BY <1>1
  <2>3. l >= n + 1
    BY <2>1, <2>2
  <2> QED  BY <2>3
<1> HIDE DEF N
<1>4. Nat \subseteq N
  BY <1>2, <1>3, InductiveSet
<1>5. PICK k \in T : k >= m + 1
  BY <1>4 DEF N
<1> QED  BY <1>5

\* What is held is the longest beginning of the secret at the end.
LEMMA HeldFacts ==
  ASSUME NEW b \in Texts, Clear(b)
  PROVE  /\ Output!Held(b) \in 0..Len(b) /\ Output!Held(b) < Len(Secret)
         /\ Same(b, SubSeq(b, Len(b) - Output!Held(b) + 1, Len(b)))
<1> DEFINE top == Len(Secret) - 1
           T == {n \in 0..top : Output!EndsWith(b, n)}
           IsHeld(n) == n \in 0..(Len(Secret) - 1) /\ Output!EndsWith(b, n) /\ \A k \in (n + 1)..(Len(Secret) - 1) : ~Output!EndsWith(b, k)
<1>0. Len(Secret) \in Nat \ {0} /\ top \in Nat /\ Len(b) \in Nat /\ b \in Seq(Output!Bytes)
  BY OutputConstants, LenProperties DEF Texts
<1>1. Output!EndsWith(b, 0)
  BY <1>0, HoldsSecret, EndsIs DEF Texts
<1>2. PICK m \in T : \A k \in T : k <= m
  <2>1. 0 \in T /\ T \subseteq 0..top
    BY <1>0, <1>1
  <2> HIDE DEF T, top
  <2> QED  BY <1>0, <2>1, Greatest
<1>3. IsHeld(m)
  <2>1. m \in 0..(Len(Secret) - 1) /\ Output!EndsWith(b, m)
    BY <1>2
  <2>2. ASSUME NEW k \in (m + 1)..(Len(Secret) - 1), Output!EndsWith(b, k) PROVE FALSE
    <3>1. k \in T
      BY <1>0, <2>1, <2>2
    <3> QED  BY <1>0, <1>2, <2>1, <2>2, <3>1
  <2> QED  BY <2>1, <2>2
<1>4. PICK n : n = Output!Held(b) /\ IsHeld(n)
  <2>1. Output!Held(b) = CHOOSE j : IsHeld(j)
    BY DEF Output!Held
  <2> HIDE DEF IsHeld
  <2> QED  BY <1>3, <2>1
<1>5. n \in Nat /\ n < Len(Secret) /\ Output!EndsWith(b, n) /\ \A k \in (n + 1)..(Len(Secret) - 1) : ~Output!EndsWith(b, k)
  BY <1>0, <1>4
<1> HIDE DEF IsHeld, T, top
<1>6. n <= Len(b)
  BY <1>5 DEF Output!EndsWith
<1>7. PICK p \in 0..Len(b) : p = Len(b) - n
  BY <1>0, <1>5, <1>6
<1>8. PICK h \in Seq(Output!Bytes) : h = SubSeq(b, p + 1, Len(b)) /\ Len(h) = n
  <2>1. SubSeq(b, p + 1, Len(b)) \in Seq(Output!Bytes)
    BY <1>0, Parted
  <2>2. Len(SubSeq(b, p + 1, Len(b))) = Len(b) - p
    BY <1>0, Parted
  <2>3. Len(b) - p = n
    BY <1>0, <1>5, <1>7
  <2> QED  BY <2>1, <2>2, <2>3
<1>9. \A i \in 1..n : h[i] = b[p + i]
  <2>1. \A i \in (p + 1)..Len(b) : b[i] \in Output!Bytes
    BY <1>0, ElementOfSeq
  <2>2. \A i \in 1..(Len(b) - (p + 1) + 1) : h[i] = b[(p + 1) + i - 1]
    BY <1>0, <1>8, <2>1, SubSeqProperties
  <2> QED  BY <1>0, <1>5, <1>7, <2>2
<1>10. ASSUME NEW k \in 0..Len(Secret) PROVE Output!EndsWith(b, k) <=> Output!EndsWith(h, k)
  <2>1. /\ Output!EndsWith(b, k) <=> k <= Len(b) /\ \A i \in 1..k : b[Len(b) - k + i] = Secret[i]
        /\ Output!EndsWith(h, k) <=> k <= n /\ \A i \in 1..k : h[n - k + i] = Secret[i]
    BY <1>0, <1>8, HoldsSecret, EndsIs DEF Texts
  <2>2. CASE k <= n
    <3>1. \A i \in 1..k : h[n - k + i] = b[Len(b) - k + i]
      <4>1. SUFFICES ASSUME NEW i \in 1..k PROVE h[n - k + i] = b[Len(b) - k + i]
        OBVIOUS
      <4>2. PICK j \in 1..n : j = n - k + i
        BY <1>5, <2>2
      <4>3. p + j = Len(b) - k + i
        BY <1>0, <1>5, <1>7, <4>2
      <4> QED  BY <1>9, <4>2, <4>3
    <3>2. k <= Len(b)
      BY <1>0, <1>5, <1>6, <2>2
    <3>3. (\A i \in 1..k : h[n - k + i] = Secret[i]) <=> \A i \in 1..k : b[Len(b) - k + i] = Secret[i]
      BY <3>1, Zenon
    <3> QED  BY <2>1, <2>2, <3>2, <3>3, Zenon
  <2>3. CASE k > n
    <3>1. ~Output!EndsWith(h, k)
      BY <1>5, <2>1, <2>3
    <3>2. ~Output!EndsWith(b, k)
      <4>1. CASE k = Len(Secret)
        <5>1. b # <<>> \/ ~Output!EndsWith(b, k)
          BY <1>0, <2>1, <4>1
        <5>2. ASSUME b # <<>> PROVE ~Output!EndsWith(b, k)
          <6>1. PICK c \in Seq(Output!Bytes), e \in Output!Bytes : b = Append(c, e)
            BY <1>0, <5>2, SequenceEmptyOrAppend
          <6> QED  BY <4>1, <6>1, HoldsSecret, ClearAppend
        <5> QED  BY <5>1, <5>2
      <4>2. CASE k # Len(Secret)
        <5>1. k \in (n + 1)..(Len(Secret) - 1)
          BY <1>0, <1>5, <2>3, <4>2
        <5> QED  BY <1>5, <5>1
      <4> QED  BY <4>1, <4>2
    <3> QED  BY <3>1, <3>2
  <2> QED  BY <1>5, <2>2, <2>3
<1>11. Same(b, h)
  BY <1>10, Zenon DEF Same
<1>12. n \in 0..Len(b)
  BY <1>0, <1>5, <1>6
<1> QED  BY <1>4, <1>5, <1>7, <1>8, <1>11, <1>12

(* The size of text *)

SizeNext(before, b) == before + Output!Width(b[Len(b)])

\* Text grows character by character.
LEMMA SizeFacts ==
  /\ Output!Size[<<>>] = 0
  /\ \A s \in Shown : /\ Output!Size[s] \in Nat
                      /\ \A e \in Output!Characters : Output!Size[Append(s, e)] = Output!Size[s] + Output!Width(e)
<1> DEFINE S == Output!Characters
           step == [x \in Nat \X (Seq(S) \ {<<>>}) |-> SizeNext(x[1], x[2])]
           T == Output!Size
<1>1. <<>> \in Shown /\ Shown = Seq(S) /\ \A e : Output!Width(e) \in Nat
  BY EmptySeq DEF Shown, Output!Width
<1>2. ASSUME NEW r \in Nat, NEW s \in Seq(S) \ {<<>>}
      PROVE  step[<<r, s>>] = SizeNext(r, s) /\ step[<<r, s>>] \in Nat
  BY <1>1 DEF SizeNext
<1>3. step \in [Nat \X (Seq(S) \ {<<>>}) -> Nat]
  <2>1. ASSUME NEW x \in Nat \X (Seq(S) \ {<<>>}) PROVE step[x] \in Nat
    <3>1. x[1] \in Nat /\ x[2] \in Seq(S) \ {<<>>} /\ x = <<x[1], x[2]>>
      OBVIOUS
    <3> HIDE DEF step
    <3> QED  BY <1>2, <3>1
  <2>2. step = [x \in Nat \X (Seq(S) \ {<<>>}) |-> step[x]]
    OBVIOUS
  <2> HIDE DEF step
  <2> QED  BY <2>1, <2>2
<1> HIDE DEF step
<1>4. PICK f : IsFold(f, S, Nat, 0, step)
  BY <1>1, <1>3, FoldExists DEF IsStep
<1>5. ASSUME NEW s \in Seq(S)
      PROVE f[s] = IF s = <<>> THEN 0 ELSE SizeNext(f[Shorter(s)], s)
  <2>1. f[s] = IF s = <<>> THEN 0 ELSE step[<<f[Shorter(s)], s>>]
    BY <1>4 DEF IsFold
  <2>2. s # <<>> => f[Shorter(s)] \in Nat
    BY <1>4, ShorterFacts DEF IsFold
  <2> QED  BY <1>2, <2>1, <2>2
<1> DEFINE Eq(g) == g = [text \in Seq(Output!Characters) |->
  IF text = <<>> THEN 0 ELSE g[Output!Front(text)] + Output!Width(Output!Last(text))]
<1>6. Eq(f)
  <2>1. f = [s \in Seq(S) |-> IF s = <<>> THEN 0 ELSE SizeNext(f[Shorter(s)], s)]
    BY <1>4, <1>5 DEF IsFold
  <2> QED  BY <2>1 DEF SizeNext, Shorter, Output!Front, Output!Last
<1>7. Eq(T)
  <2>1. T = CHOOSE g : Eq(g)
    BY DEF Output!Size
  <2> HIDE DEF Eq, T
  <2> QED  BY <1>6, <2>1
<1>8. T = [s \in Seq(S) |-> IF s = <<>> THEN 0 ELSE SizeNext(T[Shorter(s)], s)]
  BY <1>7 DEF SizeNext, Shorter, Output!Front, Output!Last
<1> HIDE DEF T
<1>9. T[<<>>] = 0
  BY <1>8, EmptySeq
<1>10. ASSUME NEW s \in Seq(S), NEW e \in S
       PROVE  T[Append(s, e)] = T[s] + Output!Width(e)
  <2>1. /\ Append(s, e) \in Seq(S) /\ Append(s, e) # <<>> /\ Shorter(Append(s, e)) = s
        /\ Append(s, e)[Len(Append(s, e))] = e
    BY ShorterFacts, AppendProperties
  <2>2. PICK t \in Seq(S) : t = Append(s, e)
    BY <2>1
  <2>3. T[t] = IF t = <<>> THEN 0 ELSE SizeNext(T[Shorter(t)], t)
    BY <1>8
  <2> QED  BY <2>1, <2>2, <2>3 DEF SizeNext
<1> DEFINE P == {s \in Seq(S) : T[s] \in Nat}
<1>11. <<>> \in P
  BY <1>1, <1>9
<1>12. \A s \in Seq(S), e \in S : s \in P => Append(s, e) \in P
  <2>1. ASSUME NEW s \in Seq(S), NEW e \in S, T[s] \in Nat
        PROVE  T[Append(s, e)] \in Nat /\ Append(s, e) \in Seq(S)
    BY <1>1, <1>10, <2>1, AppendProperties
  <2> QED  BY <2>1
<1> HIDE DEF P
<1>13. Seq(S) \subseteq P
  BY <1>11, <1>12, InductiveSequences
<1>14. ASSUME NEW s \in Shown
       PROVE  T[s] \in Nat /\ \A e \in Output!Characters : T[Append(s, e)] = T[s] + Output!Width(e)
  BY <1>1, <1>10, <1>13 DEF P
<1> QED  BY <1>9, <1>14 DEF T

\* Sizes add up.
LEMMA SizeConcat ==
  ASSUME NEW x \in Shown, NEW y \in Shown
  PROVE  x \o y \in Shown /\ Output!Size[x \o y] = Output!Size[x] + Output!Size[y]
<1> DEFINE S == Output!Characters
           Adds(s) == x \o s \in Shown /\ Output!Size[x \o s] = Output!Size[x] + Output!Size[s]
           P == {s \in Seq(S) : Adds(s)}
<1>1. <<>> \in P
  BY SizeFacts, ConcatEmptySeq, EmptySeq DEF Shown
<1>2. ASSUME NEW s \in Seq(S), NEW e \in S, Adds(s) PROVE Append(s, e) \in Seq(S) /\ Adds(Append(s, e))
  <2>1. PICK w \in Shown : w = x \o s
    BY <1>2
  <2>2. x \o Append(s, e) = Append(w, e)
    <3>1. \A c \in S : x \o Append(s, c) = Append(x \o s, c)
      BY Joins, SMTT(20) DEF Shown
    <3> QED  BY <2>1, <3>1
  <2>3. /\ Output!Size[Append(w, e)] = Output!Size[w] + Output!Width(e)
        /\ Output!Size[Append(s, e)] = Output!Size[s] + Output!Width(e)
        /\ Output!Size[s] \in Nat /\ Output!Size[x] \in Nat /\ Output!Width(e) \in Nat
    BY SizeFacts DEF Shown, Output!Width
  <2>4. Append(w, e) \in Shown /\ Append(s, e) \in Seq(S)
    BY AppendProperties DEF Shown
  <2> QED  BY <1>2, <2>1, <2>2, <2>3, <2>4
<1> HIDE DEF Adds
<1>3. \A s \in Seq(S), e \in S : s \in P => Append(s, e) \in P
  BY <1>2
<1> HIDE DEF P
<1>4. Seq(S) \subseteq P
  BY <1>1, <1>3, InductiveSequences
<1> QED  BY <1>4 DEF P, Adds, Shown

\* What is kept of a text fits.
LEMMA KeptFits ==
  ASSUME NEW captured \in Shown, NEW text \in Shown, Output!Size[captured] <= CaptureSize
  PROVE  /\ captured \o Output!Kept(captured, text) \in Shown
         /\ Output!Size[captured \o Output!Kept(captured, text)] <= CaptureSize
<1>1. PICK room \in Nat : room = Output!Room(captured) /\ Output!Size[captured] + room = CaptureSize
  <2>1. Output!Size[captured] \in Nat /\ CaptureSize \in Nat
    BY SizeFacts, OutputConstants
  <2> QED  BY <2>1 DEF Output!Room
<1> DEFINE Beginning(n) == SubSeq(text, 1, n)
           Fits(n) == Output!Size[Beginning(n)] <= room
           T == {n \in 0..Len(text) : Fits(n)}
           IsKept(n) == n \in 0..Len(text) /\ Fits(n) /\ (n = Len(text) \/ Output!Size[Beginning(n + 1)] > room)
<1>2. Len(text) \in Nat
  BY LenProperties DEF Shown
<1>3. \A n \in 0..Len(text) : Beginning(n) \in Shown /\ Output!Size[Beginning(n)] \in Nat
  BY Parted, SizeFacts DEF Shown
<1>4. 0 \in T
  <2>1. Beginning(0) = <<>>
    BY SubSeqEmpty
  <2> HIDE DEF Beginning
  <2> QED  BY <1>2, <2>1, SizeFacts
<1> HIDE DEF Beginning, Fits
<1>5. PICK m \in T : \A k \in T : k <= m
  <2>1. T \subseteq 0..Len(text)
    OBVIOUS
  <2> HIDE DEF T
  <2> QED  BY <1>2, <1>4, <2>1, Greatest
<1>6. IsKept(m)
  <2>1. ASSUME m # Len(text) PROVE Output!Size[Beginning(m + 1)] > room
    <3>1. m + 1 \in 0..Len(text) /\ ~(m + 1 <= m)
      BY <1>2, <2>1
    <3>2. ~Fits(m + 1)
      BY <1>5, <3>1
    <3> QED  BY <1>3, <3>1, <3>2 DEF Fits
  <2> QED  BY <2>1
<1>7. PICK n : IsKept(n) /\ Output!Kept(captured, text) = Beginning(n)
  <2>1. Output!Kept(captured, text) = Beginning(CHOOSE j : IsKept(j))
    BY <1>1 DEF Output!Kept, Beginning, Fits
  <2> HIDE DEF IsKept
  <2> QED  BY <1>6, <2>1
<1>8. PICK b \in Shown : b = Beginning(n) /\ Output!Size[b] <= room
  BY <1>3, <1>7 DEF Fits
<1>9. captured \o b \in Shown /\ Output!Size[captured \o b] = Output!Size[captured] + Output!Size[b]
  BY SizeConcat
<1>10. Output!Size[captured] \in Nat /\ Output!Size[b] \in Nat
  BY SizeFacts
<1>11. Output!Size[captured \o b] <= CaptureSize
  BY <1>1, <1>8, <1>9, <1>10
<1> QED  BY <1>7, <1>8, <1>9, <1>11

\* What the caller saw ends with no more of the secret than what it was decoded from.
Withheld(seen, bytes) ==
  Clear(seen) /\ \A k \in 0..Len(Secret) : Output!EndsWith(seen, k) => Output!EndsWith(bytes, k)

\* It is so with one character more, that of the next byte.
LEMMA WithheldNext ==
  ASSUME NEW seen \in Shown, NEW bytes \in Texts, NEW w \in Output!Characters, NEW e \in Output!Bytes,
         Withheld(seen, bytes), w \in Ascii => w = e, Clear(Append(bytes, e))
  PROVE  Withheld(Append(seen, w), Append(bytes, e))
<1>1. ASSUME NEW k \in 0..Len(Secret), Output!EndsWith(Append(seen, w), k) PROVE Output!EndsWith(Append(bytes, e), k)
  <2>1. /\ Output!EndsWith(Append(seen, w), k) <=> k = 0 \/ (Output!EndsWith(seen, k - 1) /\ Secret[k] = w)
        /\ Output!EndsWith(Append(bytes, e), k) <=> k = 0 \/ (Output!EndsWith(bytes, k - 1) /\ Secret[k] = e)
    BY HoldsSecret, EndsAppend DEF Shown, Texts
  <2>2. ASSUME k # 0 PROVE k - 1 \in 0..Len(Secret) /\ Secret[k] \in Ascii
    BY <2>2, OutputConstants
  <2> QED  BY <1>1, <2>1, <2>2 DEF Withheld
<1>2. Clear(Append(bytes, e)) <=> Clear(bytes) /\ ~Output!EndsWith(Append(bytes, e), Len(Secret))
  BY HoldsSecret, ClearAppend DEF Texts
<1>3. Clear(Append(seen, w)) <=> Clear(seen) /\ ~Output!EndsWith(Append(seen, w), Len(Secret))
  BY HoldsSecret, ClearAppend DEF Shown
<1>4. Len(Secret) \in 0..Len(Secret)
  BY OutputConstants
<1>5. Clear(Append(seen, w))
  BY <1>1, <1>2, <1>3, <1>4 DEF Withheld
<1> QED  BY <1>1, <1>5 DEF Withheld

\* A character of two bytes is not in the secret.
LEMMA WithheldWide ==
  ASSUME NEW seen \in Shown, NEW last \in Output!Characters, NEW bytes \in Texts, Clear(Append(seen, last))
  PROVE  Withheld(Append(seen, Wide), bytes)
<1>0. Wide \in Output!Characters /\ \A c \in Ascii : c # Wide
  BY OutputConstants
<1>1. Clear(seen)
  BY HoldsSecret, ClearAppend DEF Shown
<1>2. ASSUME NEW k \in 0..Len(Secret), Output!EndsWith(Append(seen, Wide), k) PROVE k = 0
  <2>1. Output!EndsWith(Append(seen, Wide), k) <=> k = 0 \/ (Output!EndsWith(seen, k - 1) /\ Secret[k] = Wide)
    BY <1>0, HoldsSecret, EndsAppend DEF Shown
  <2>2. k # 0 => Secret[k] \in Ascii
    BY OutputConstants
  <2> QED  BY <1>0, <1>2, <2>1, <2>2
<1>3. Output!EndsWith(bytes, 0)
  BY HoldsSecret, OutputConstants, EndsIs, LenProperties DEF Texts
<1>4. Clear(Append(seen, Wide)) <=> Clear(seen) /\ ~Output!EndsWith(Append(seen, Wide), Len(Secret))
  BY <1>0, HoldsSecret, ClearAppend DEF Shown
<1>5. Len(Secret) \in 0..Len(Secret) /\ Len(Secret) # 0
  BY OutputConstants
<1>6. Clear(Append(seen, Wide))
  BY <1>1, <1>2, <1>4, <1>5
<1> QED  BY <1>2, <1>3, <1>6 DEF Withheld

\* It is so with the text of any bytes that are clear with those before them.
LEMMA Emission ==
  ASSUME NEW seen \in Shown, NEW d \in Texts, NEW c \in Texts, Withheld(seen, d), Clear(d \o c)
  PROVE  Withheld(seen \o Output!Decode[c], d \o c)
<1> DEFINE S == Output!Bytes
           Goes(s) == Clear(d \o s) => Withheld(seen \o Output!Decode[s], d \o s)
           P == {s \in Texts : Goes(s)}
<1>1. <<>> \in P
  BY DecodeFacts, ConcatEmptySeq, EmptySeq DEF Shown, Texts
<1>2. ASSUME NEW s \in Texts, NEW e \in S, Goes(s) PROVE Append(s, e) \in Texts /\ Goes(Append(s, e))
  <2>1. PICK ds \in Texts : ds = d \o s
    BY Together
  <2>2. d \o Append(s, e) = Append(ds, e)
    <3>1. \A x \in Output!Bytes : d \o Append(s, x) = Append(d \o s, x)
      BY Together
    <3> QED  BY <2>1, <3>1, Zenon
  <2>3. ASSUME Clear(Append(ds, e)) PROVE Withheld(seen \o Output!Decode[Append(s, e)], Append(ds, e))
    <3>1. PICK D \in Shown : D = Output!Decode[s]
      BY DecodeFacts
    <3>2. PICK sd \in Shown : sd = seen \o D
      BY SizeConcat
    <3>3. Clear(ds)
      BY <2>3, HoldsSecret, ClearAppend DEF Texts
    <3>4. Withheld(sd, ds)
      BY <1>2, <2>1, <3>1, <3>2, <3>3
    <3>5. CASE e = Cont /\ s # <<>> /\ s[Len(s)] = Lead
      <4>1. Output!Decode[Append(s, e)] = Append(Shorter(D), Wide)
        BY <3>1, <3>5, DecodeFacts
      <4>2. D # <<>>
        BY <3>1, <3>5, DecodeShape
      <4>3. PICK h \in Shown, x \in Output!Characters : D = Append(h, x)
        BY <4>2, SequenceEmptyOrAppend DEF Shown
      <4>4. Shorter(D) = h
        <5>1. \A y \in Output!Characters : Shorter(Append(h, y)) = h
          BY <4>3, ShorterFacts, ZenonT(30) DEF Shown
        <5> QED  BY <4>3, <5>1, Zenon
      <4>5. PICK v \in Shown : v = seen \o h
        BY SizeConcat
      <4>6. \A y \in Output!Characters : seen \o Append(h, y) = Append(v, y)
        BY <4>5, Joins, SMTT(20) DEF Shown
      <4>7. sd = Append(v, x) /\ seen \o Append(h, Wide) = Append(v, Wide)
        BY <3>2, <4>3, <4>6, OutputConstants
      <4>8. Clear(Append(v, x))
        BY <3>4, <4>7 DEF Withheld
      <4>9. Append(ds, e) \in Texts
        BY AppendProperties DEF Texts
      <4>10. Withheld(Append(v, Wide), Append(ds, e))
        BY <4>8, <4>9, WithheldWide
      <4> QED  BY <4>1, <4>4, <4>7, <4>10
    <3>6. CASE ~(e = Cont /\ s # <<>> /\ s[Len(s)] = Lead)
      <4>1. PICK w \in Output!Characters : w = Whole(e)
        BY OutputConstants DEF Whole
      <4>2. Output!Decode[Append(s, e)] = Append(D, w)
        BY <3>1, <3>6, <4>1, DecodeFacts
      <4>3. \A y \in Output!Characters : seen \o Append(D, y) = Append(sd, y)
        BY <3>2, Joins DEF Shown
      <4>4. w \in Ascii => w = e
        BY <4>1, OutputConstants DEF Whole
      <4>5. Withheld(Append(sd, w), Append(ds, e))
        BY <2>3, <3>4, <4>4, WithheldNext
      <4> QED  BY <4>2, <4>3, <4>5
    <3> QED  BY <3>5, <3>6
  <2>4. Append(s, e) \in Texts
    BY AppendProperties DEF Texts
  <2> QED  BY <2>2, <2>3, <2>4
<1> HIDE DEF Goes
<1>3. \A b \in Seq(S), e \in S : b \in P => Append(b, e) \in P
  BY <1>2 DEF Texts
<1> HIDE DEF P
<1>4. Seq(S) \subseteq P
  BY <1>1, <1>3, EmptySeq, InductiveSequences
<1> QED  BY <1>4 DEF P, Goes, Texts

-----------------------------------------------------------------------------
(* Bytes on their way *)

Items == [stream : Streams, bytes : Texts]
SentNext(s, before, q) == IF q[Len(q)].stream = s THEN before \o q[Len(q)].bytes ELSE before
SentStep(s) == [x \in Texts \X (Seq(Items) \ {<<>>}) |-> SentNext(s, x[1], x[2])]
Sent(s) == CHOOSE f : IsFold(f, Items, Texts, <<>>, SentStep(s))

\* They are sent one after the other.
LEMMA SentFacts ==
  ASSUME NEW s
  PROVE  /\ Sent(s)[<<>>] = <<>>
         /\ \A q \in Seq(Items) :
              /\ Sent(s)[q] \in Texts
              /\ \A m \in Items : Sent(s)[Append(q, m)] = IF m.stream = s THEN Sent(s)[q] \o m.bytes ELSE Sent(s)[q]
<1> DEFINE step == SentStep(s)
           f == Sent(s)
<1>1. ASSUME NEW r \in Texts, NEW q \in Seq(Items) \ {<<>>}
      PROVE  step[<<r, q>>] = SentNext(s, r, q) /\ step[<<r, q>>] \in Texts
  <2>1. q[Len(q)] \in Items
    BY ShorterFacts
  <2>2. q[Len(q)].bytes \in Texts
    BY <2>1 DEF Items
  <2>3. r \o q[Len(q)].bytes \in Texts
    BY <2>2, Together
  <2> QED  BY <2>3 DEF SentStep, SentNext
<1>2. step \in [Texts \X (Seq(Items) \ {<<>>}) -> Texts]
  <2>1. ASSUME NEW x \in Texts \X (Seq(Items) \ {<<>>}) PROVE step[x] \in Texts
    <3>1. x[1] \in Texts /\ x[2] \in Seq(Items) \ {<<>>} /\ x = <<x[1], x[2]>>
      OBVIOUS
    <3> HIDE DEF step
    <3> QED  BY <1>1, <3>1
  <2>2. step = [x \in Texts \X (Seq(Items) \ {<<>>}) |-> step[x]]
    BY DEF SentStep
  <2> HIDE DEF step
  <2> QED  BY <2>1, <2>2
<1>3. <<>> \in Texts
  BY EmptyClear
<1>4. IsFold(f, Items, Texts, <<>>, step)
  <2>1. \E g : IsFold(g, Items, Texts, <<>>, step)
    <3> HIDE DEF step
    <3> QED  BY <1>2, <1>3, FoldExists DEF IsStep
  <2> QED  BY <2>1 DEF Sent
<1> HIDE DEF step, f
<1>5. f[<<>>] = <<>>
  BY <1>4, EmptySeq DEF IsFold
<1>6. ASSUME NEW q \in Seq(Items), NEW m \in Items
      PROVE  f[Append(q, m)] = IF m.stream = s THEN f[q] \o m.bytes ELSE f[q]
  <2>1. /\ Append(q, m) \in Seq(Items) /\ Append(q, m) # <<>> /\ Shorter(Append(q, m)) = q
        /\ Append(q, m)[Len(Append(q, m))] = m
    BY ShorterFacts, AppendProperties
  <2>2. PICK t \in Seq(Items) : t = Append(q, m)
    BY <2>1
  <2>3. f[t] = IF t = <<>> THEN <<>> ELSE step[<<f[Shorter(t)], t>>]
    BY <1>4 DEF IsFold
  <2>4. f[q] \in Texts
    BY <1>4 DEF IsFold
  <2>5. f[t] = SentNext(s, f[q], t)
    BY <1>1, <2>1, <2>2, <2>3, <2>4
  <2> QED  BY <2>1, <2>2, <2>5 DEF SentNext
<1>7. \A q \in Seq(Items) : f[q] \in Texts
  BY <1>4 DEF IsFold
<1>8. f = Sent(s)
  BY DEF f
<1> QED  BY <1>5, <1>6, <1>7, <1>8

Own(s, m) == IF m.stream = s THEN m.bytes ELSE <<>>

\* What is sent last comes last.
LEMMA SentAppend ==
  ASSUME NEW s, NEW q \in Seq(Items), NEW m \in Items
  PROVE  Own(s, m) \in Texts /\ Sent(s)[q] \in Texts /\ Sent(s)[Append(q, m)] = Sent(s)[q] \o Own(s, m)
<1>1. PICK t \in Texts : t = Sent(s)[q]
  BY SentFacts
<1>2. m.bytes \in Texts /\ <<>> \in Texts
  BY EmptyClear DEF Items
<1>3. t \o <<>> = t
  BY ConcatEmptySeq DEF Texts
<1>4. Sent(s)[Append(q, m)] = IF m.stream = s THEN t \o m.bytes ELSE t
  BY <1>1, SentFacts
<1> QED  BY <1>1, <1>2, <1>3, <1>4 DEF Own

\* What was sent first comes first.
LEMMA SentHead ==
  ASSUME NEW s, NEW q \in Seq(Items), q # <<>>
  PROVE  /\ Head(q) \in Items /\ Tail(q) \in Seq(Items) /\ Own(s, Head(q)) \in Texts /\ Sent(s)[Tail(q)] \in Texts
         /\ Sent(s)[q] = Own(s, Head(q)) \o Sent(s)[Tail(q)]
<1> DEFINE HeadSplits(p) == p # <<>> => /\ Head(p) \in Items /\ Tail(p) \in Seq(Items)
                                    /\ Sent(s)[p] = Own(s, Head(p)) \o Sent(s)[Tail(p)]
           P == {p \in Seq(Items) : HeadSplits(p)}
<1>1. <<>> \in P
  BY EmptySeq
<1>2. ASSUME NEW p \in Seq(Items), NEW m \in Items, HeadSplits(p) PROVE HeadSplits(Append(p, m))
  <2>1. PICK own \in Texts, t \in Texts : own = Own(s, m) /\ t = Sent(s)[p]
    BY SentAppend
  <2>2. Sent(s)[Append(p, m)] = t \o own
    BY <2>1, SentAppend
  <2>3. CASE p = <<>>
    <3>1. Head(Append(p, m)) = m /\ Tail(Append(p, m)) = <<>> /\ <<>> \in Seq(Items)
      BY <2>3
    <3>2. t = <<>> /\ Sent(s)[<<>>] = <<>>
      BY <2>1, <2>3, SentFacts
    <3>3. <<>> \o own = own /\ own \o <<>> = own
      BY ConcatEmptySeq DEF Texts
    <3> QED  BY <2>1, <2>2, <3>1, <3>2, <3>3
  <2>4. CASE p # <<>>
    <3>1. Head(Append(p, m)) = Head(p) /\ Tail(Append(p, m)) = Append(Tail(p), m)
      BY <2>4, HeadTailAppend
    <3>2. PICK h \in Items, l \in Seq(Items) : h = Head(p) /\ l = Tail(p)
      BY <1>2, <2>4
    <3>3. PICK oh \in Texts, sl \in Texts : oh = Own(s, h) /\ sl = Sent(s)[l]
      BY SentAppend
    <3>4. t = oh \o sl
      BY <1>2, <2>1, <2>4, <3>2, <3>3
    <3>5. Sent(s)[Append(l, m)] = sl \o own /\ Append(l, m) \in Seq(Items)
      BY <2>1, <3>3, SentAppend, AppendProperties
    <3>6. (oh \o sl) \o own = oh \o (sl \o own)
      BY Associates
    <3> QED  BY <2>2, <3>1, <3>2, <3>3, <3>4, <3>5, <3>6
  <2> QED  BY <2>3, <2>4
<1> HIDE DEF HeadSplits
<1>3. \A p \in Seq(Items), m \in Items : p \in P => Append(p, m) \in P
  BY <1>2, AppendProperties
<1> HIDE DEF P
<1>4. Seq(Items) \subseteq P
  BY <1>1, <1>3, InductiveSequences
<1>5. /\ Head(q) \in Items /\ Tail(q) \in Seq(Items)
      /\ Sent(s)[q] = Own(s, Head(q)) \o Sent(s)[Tail(q)]
  BY <1>4 DEF P, HeadSplits
<1>6. Own(s, Head(q)) \in Texts /\ Sent(s)[Tail(q)] \in Texts
  BY <1>5, SentAppend
<1> QED  BY <1>5, <1>6

(* What the caller's thread does with a piece *)

Redactors == [pending : Texts, utf8 : Texts, captured : Shown, emitted : Shown]

Pushed(x, rest, open, utf8, n) ==
  [pending |-> SubSeq(rest, open + 1, Len(rest)),
   utf8 |-> SubSeq(utf8, n + 1, Len(utf8)),
   captured |-> x.captured \o Output!Kept(x.captured, Output!Decode[SubSeq(utf8, 1, n)]),
   emitted |-> x.emitted \o Output!Decode[SubSeq(utf8, 1, n)]]
Polls(x, bytes) ==
  LET found == Output!Scan[x.pending \o bytes]
      open == Len(found.rest) - Output!Held(found.rest)
      utf8 == (x.utf8 \o found.text) \o SubSeq(found.rest, 1, open)
  IN Pushed(x, found.rest, open, utf8, Output!Complete(utf8, FALSE))
Drains(x) ==
  LET found == Output!Scan[x.pending \o <<>>]
      open == Len(found.rest) - 0
      utf8 == (x.utf8 \o found.text) \o SubSeq(found.rest, 1, open)
  IN Pushed(x, found.rest, open, utf8, Output!Complete(utf8, TRUE))

\* So that is what push does to the redactor of a stream.
LEMMA PushIs ==
  ASSUME NEW to \in [Streams -> Redactors], NEW s \in Streams
  PROVE  /\ \A bytes \in Texts : Output!Push(s, bytes, FALSE, to) = [to EXCEPT ![s] = Polls(to[s], bytes)]
         /\ Output!Push(s, <<>>, TRUE, to) = [to EXCEPT ![s] = Drains(to[s])]
BY DEF Output!Push, Polls, Drains, Pushed

\* The bytes of d are decoded; more of them may come.
Honest(seen, d) == \A more \in Texts : Output!IsText(d \o more) => seen = Output!Decode[d] /\ Settled(d)

\* Of what came out of the channel, r, what follows the last secret begins with o, which is
\* no longer held, and d is what was decoded.
Follows(x, r, o, d) ==
  /\ Output!Scan[r].rest = o \o x.pending /\ Same(Output!Scan[r].rest, x.pending) /\ Len(x.pending) < Len(Secret)
  /\ Output!Scan[r].text \o o = d \o x.utf8
  /\ Withheld(x.emitted, d) /\ Honest(x.emitted, d)
  /\ Output!Size[x.captured] <= CaptureSize

-----------------------------------------------------------------------------
(* Concatenations of four *)

\* Four in a row.
LEMMA Regrouped ==
  ASSUME NEW a \in Texts, NEW b \in Texts, NEW c \in Texts, NEW d \in Texts
  PROVE  ((a \o b) \o c) \o d = a \o ((b \o c) \o d)
<1>1. PICK bc \in Texts : bc = b \o c
  BY Together
<1>2. (a \o b) \o c = a \o bc
  BY <1>1, Associates
<1>3. (a \o bc) \o d = a \o (bc \o d)
  BY Associates
<1> QED  BY <1>1, <1>2, <1>3

\* What is taken of the bytes at hand is decoded as it will be.
LEMMA HonestJoins ==
  ASSUME NEW seen \in Shown, NEW d \in Texts, NEW u \in Texts, NEW c \in Texts, c = Taken(u), Honest(seen, d)
  PROVE  Honest(seen \o Output!Decode[c], d \o c)
<1>0. \A m \in Texts : (d \o c) \o m = d \o (c \o m)
  BY Associates
<1>1. SUFFICES ASSUME NEW more \in Texts, Output!IsText((d \o c) \o more)
               PROVE  seen \o Output!Decode[c] = Output!Decode[d \o c] /\ Settled(d \o c)
  BY DEF Honest
<1>2. PICK cm \in Texts : cm = c \o more
  BY Together
<1>3. (d \o c) \o more = d \o cm
  BY <1>0, <1>2, Zenon
<1>4. seen = Output!Decode[d] /\ Settled(d)
  BY <1>1, <1>3 DEF Honest
<1>5. Settled(c)
  BY <1>1, <1>4, ChunksSettle
<1> QED  BY <1>4, <1>5, SettledJoins

\* A piece is pushed: nothing is lost, and what may begin the secret is held.
LEMMA PieceFollows ==
  ASSUME NEW x \in Redactors, NEW r \in Texts, NEW o \in Texts, NEW d \in Texts, NEW y \in Texts,
         NEW z, z = Polls(x, y), Follows(x, r, o, d)
  PROVE  z \in Redactors /\ \E o2 \in Texts, d2 \in Texts : Follows(z, r \o y, o2, d2)
<1>1. PICK h \in Texts, w \in Texts, seen \in Shown, kept \in Shown :
        h = x.pending /\ w = x.utf8 /\ seen = x.emitted /\ kept = x.captured
  BY DEF Redactors
<1>2. PICK T \in Texts : T = Output!Scan[r].text
  BY ScanFacts DEF Scanned
<1>a. /\ \A a, b \in Texts : (o \o a) \o b = o \o (a \o b)
      /\ \A a, b \in Texts : (d \o a) \o b = d \o (a \o b)
      /\ \A a : a \in Texts => (T \o o) \o a = T \o (o \o a)
  BY Associates, ZenonT(30)
<1>b. \A a, b \in Texts : ((d \o w) \o a) \o b = d \o ((w \o a) \o b)
  BY Regrouped
<1>3. /\ Output!Scan[r].rest = o \o h /\ Same(Output!Scan[r].rest, h) /\ Len(h) < Len(Secret)
      /\ T \o o = d \o w
      /\ Withheld(seen, d) /\ Honest(seen, d) /\ Output!Size[kept] <= CaptureSize
  BY <1>1, <1>2 DEF Follows
<1>4. PICK ry \in Texts, hy \in Texts : ry = r \o y /\ hy = h \o y
  BY Together
<1>5. PICK A \in Scanned, B \in Scanned : A = Output!Scan[ry] /\ B = Output!Scan[hy]
  BY ScanFacts
<1>6. Continues(T, o, A, B)
  BY <1>2, <1>3, <1>4, <1>5, Continuation
<1>7. PICK ta \in Texts, ar \in Texts, bt \in Texts, br \in Texts : ta = A.text /\ ar = A.rest /\ bt = B.text /\ br = B.rest
  BY DEF Scanned
<1>8. Clear(ar) /\ TextClear(ta) /\ Clear(br)
  BY <1>5, <1>7, ScanClear
<1>9. PICK n : n = Output!Held(br)
  OBVIOUS
<1>10. n \in 0..Len(br) /\ n < Len(Secret) /\ Same(br, SubSeq(br, Len(br) - n + 1, Len(br)))
  BY <1>8, <1>9, HeldFacts
<1>11. PICK open \in 0..Len(br) : open = Len(br) - n
  <2>1. Len(br) \in Nat
    BY LenProperties DEF Texts
  <2> QED  BY <1>10, <2>1
<1>12. /\ SubSeq(br, 1, open) \in Texts /\ SubSeq(br, open + 1, Len(br)) \in Texts
       /\ br = SubSeq(br, 1, open) \o SubSeq(br, open + 1, Len(br))
       /\ Len(SubSeq(br, open + 1, Len(br))) = Len(br) - open
  BY Parted DEF Texts
<1>13. PICK p \in Texts, h2 \in Texts : p = SubSeq(br, 1, open) /\ h2 = SubSeq(br, open + 1, Len(br))
  BY <1>12
<1>14. br = p \o h2 /\ Len(h2) < Len(Secret) /\ Same(br, h2)
  <2>1. Len(br) \in Nat
    BY LenProperties DEF Texts
  <2>2. Len(h2) = n
    BY <1>10, <1>11, <1>12, <1>13, <2>1
  <2> QED  BY <1>10, <1>11, <1>12, <1>13, <2>2
<1>15. PICK wb \in Texts : wb = w \o bt
  BY Together
<1>16. PICK u \in Texts : u = wb \o p
  BY Together
<1>17. PICK k \in 0..Len(u) : k = Output!Complete(u, FALSE)
  <2>1. Len(u) \in Nat /\ (u # <<>> => Len(u) # 0)
    BY LenProperties, EmptySeq DEF Texts
  <2> QED  BY <2>1, SMTT(20) DEF Output!Complete
<1>18. /\ SubSeq(u, 1, k) \in Texts /\ SubSeq(u, k + 1, Len(u)) \in Texts
       /\ u = SubSeq(u, 1, k) \o SubSeq(u, k + 1, Len(u))
  BY Parted DEF Texts
<1>19. PICK c \in Texts, v \in Texts : c = SubSeq(u, 1, k) /\ v = SubSeq(u, k + 1, Len(u))
  BY <1>18
<1>20. u = c \o v /\ c = Taken(u)
  BY <1>17, <1>18, <1>19 DEF Taken
<1>21. PICK text \in Shown : text = Output!Decode[c]
  BY DecodeFacts
<1>22. z = [pending |-> h2, utf8 |-> v, captured |-> kept \o Output!Kept(kept, text), emitted |-> seen \o text]
  BY <1>1, <1>4, <1>5, <1>7, <1>9, <1>11, <1>13, <1>15, <1>16, <1>17, <1>19, <1>21 DEF Polls, Pushed
<1>23. PICK o2 \in Texts : ar = o2 \o h2 /\ ta \o o2 = d \o u
  <2>1. CASE bt = <<>> /\ ta = T /\ ar = o \o br
    <3>1. PICK op \in Texts : op = o \o p
      BY Together
    <3>2. ar = op \o h2
      BY <1>a, <1>14, <2>1, <3>1, Zenon
    <3>3. wb = w
      BY <1>15, <2>1, ConcatEmptySeq DEF Texts
    <3>4. ta \o op = (T \o o) \o p
      BY <1>a, <2>1, <3>1, Zenon
    <3>5. (d \o w) \o p = d \o u
      BY <1>a, <1>16, <3>3, Zenon
    <3> QED  BY <1>3, <3>2, <3>4, <3>5
  <2>2. CASE ar = br /\ ta = (T \o o) \o bt
    <3>1. ta \o p = ((d \o w) \o bt) \o p
      BY <1>3, <2>2
    <3>2. ((d \o w) \o bt) \o p = d \o ((w \o bt) \o p)
      BY <1>b, Zenon
    <3> QED  BY <1>14, <1>15, <1>16, <2>2, <3>1, <3>2
  <2> QED  BY <1>6, <1>7, <2>1, <2>2 DEF Continues
<1>24. Same(ar, h2)
  <2>1. Same(ar, br) \/ ar = br
    BY <1>6, <1>7 DEF Continues
  <2> QED  BY <1>14, <2>1 DEF Same
<1>25. PICK d2 \in Texts : d2 = d \o c
  BY Together
<1>26. ta \o o2 = d2 \o v
  <2>1. d2 \o v = d \o u
    BY <1>a, <1>20, <1>25, Zenon
  <2> QED  BY <1>23, <2>1, Zenon
<1>27. Clear(d2)
  <2>1. Clear(o2)
    BY <1>8, <1>23, ClearBeginning DEF Texts
  <2>2. Clear(d2 \o v)
    BY <1>8, <1>26, <2>1, ClearParts
  <2> QED  BY <2>2, ClearBeginning DEF Texts
<1>28. PICK seen2 \in Shown : seen2 = seen \o text
  BY SizeConcat
<1>29. Withheld(seen2, d2)
  BY <1>3, <1>21, <1>25, <1>27, <1>28, Emission
<1>30. Honest(seen2, d2)
  BY <1>3, <1>20, <1>21, <1>25, <1>28, HonestJoins
<1>31. PICK kept2 \in Shown : kept2 = kept \o Output!Kept(kept, text) /\ Output!Size[kept2] <= CaptureSize
  BY <1>3, KeptFits
<1>32. z = [pending |-> h2, utf8 |-> v, captured |-> kept2, emitted |-> seen2]
  BY <1>22, <1>28, <1>31
<1>33. z \in Redactors /\ z.pending = h2 /\ z.utf8 = v /\ z.captured = kept2 /\ z.emitted = seen2
  BY <1>32 DEF Redactors
<1>34. Follows(z, ry, o2, d2)
  BY <1>5, <1>7, <1>14, <1>23, <1>24, <1>26, <1>29, <1>30, <1>31, <1>33 DEF Follows
<1> QED  BY <1>4, <1>33, <1>34

\* What the caller saw in the end.
Told(x, r) ==
  /\ Clear(x.emitted)
  /\ Output!IsText(Output!Redacted(r)) => x.emitted = Output!Decode[Output!Redacted(r)]
  /\ Output!Size[x.captured] <= CaptureSize

\* At the end everything is shown.
LEMMA LastFollows ==
  ASSUME NEW x \in Redactors, NEW r \in Texts, NEW o \in Texts, NEW d \in Texts,
         NEW z, z = Drains(x), Follows(x, r, o, d)
  PROVE  z \in Redactors /\ Told(z, r)
<1>1. PICK h \in Texts, w \in Texts, seen \in Shown, kept \in Shown :
        h = x.pending /\ w = x.utf8 /\ seen = x.emitted /\ kept = x.captured
  BY DEF Redactors
<1>2. PICK T \in Texts, rest \in Texts : T = Output!Scan[r].text /\ rest = Output!Scan[r].rest
  BY ScanFacts DEF Scanned
<1>a. /\ \A a \in Texts : (T \o o) \o a = T \o (o \o a)
      /\ \A a \in Texts : (d \o w) \o a = d \o (w \o a)
  <2>1. \A a \in Texts : (T \o o) \o a = T \o (o \o a)
    BY Associates
  <2>2. \A a \in Texts : (d \o w) \o a = d \o (w \o a)
    BY Associates
  <2> QED  BY <2>1, <2>2
<1>3. /\ rest = o \o h /\ Len(h) < Len(Secret) /\ T \o o = d \o w
      /\ Withheld(seen, d) /\ Honest(seen, d) /\ Output!Size[kept] <= CaptureSize
  BY <1>1, <1>2 DEF Follows
<1>4. Output!Scan[h \o <<>>] = [text |-> <<>>, rest |-> h]
  BY <1>3, ConcatEmptySeq, ShortScan DEF Texts
<1>5. SubSeq(h, 1, Len(h) - 0) = h /\ SubSeq(h, Len(h) - 0 + 1, Len(h)) = <<>>
  <2>1. Len(h) \in Nat /\ h \in Seq(Output!Bytes)
    BY LenProperties DEF Texts
  <2>2. Len(h) - 0 = Len(h)
    BY <2>1
  <2>3. SubSeq(h, 1, Len(h)) = h
    BY <2>1, SubSeqFull
  <2>4. SubSeq(h, Len(h) + 1, Len(h)) = <<>>
    BY <2>1, SubSeqEmpty
  <2> QED  BY <2>2, <2>3, <2>4
<1>6. PICK u \in Texts : u = w \o h
  BY Together
<1>7. (w \o <<>>) \o h = u
  BY <1>6, ConcatEmptySeq DEF Texts
<1>8. Output!Complete(u, TRUE) = Len(u)
  BY DEF Output!Complete
<1>9. SubSeq(u, 1, Len(u)) = u /\ SubSeq(u, Len(u) + 1, Len(u)) = <<>>
  <2>1. Len(u) \in Nat /\ u \in Seq(Output!Bytes)
    BY LenProperties DEF Texts
  <2> QED  BY <2>1, SubSeqFull, SubSeqEmpty
<1>10. PICK text \in Shown : text = Output!Decode[u]
  BY DecodeFacts
<1>11. z = [pending |-> <<>>, utf8 |-> <<>>, captured |-> kept \o Output!Kept(kept, text), emitted |-> seen \o text]
  <2>1. Output!Scan[h \o <<>>].text = <<>> /\ Output!Scan[h \o <<>>].rest = h
    BY <1>4
  <2> QED  BY <1>1, <1>5, <1>7, <1>8, <1>9, <1>10, <2>1 DEF Drains, Pushed
<1>12. PICK du \in Texts : du = d \o u
  BY Together
<1>13. Output!Redacted(r) = du
  <2>1. T \o rest = (T \o o) \o h
    BY <1>a, <1>3, Zenon
  <2>2. (d \o w) \o h = du
    BY <1>a, <1>6, <1>12, Zenon
  <2> QED  BY <1>2, <1>3, <2>1, <2>2 DEF Output!Redacted
<1>14. Clear(du)
  <2>1. Clear(rest) /\ TextClear(T)
    BY <1>2, ScanClear
  <2>2. Clear(T \o rest)
    BY <2>1, ClearParts
  <2> QED  BY <1>2, <1>13, <2>2 DEF Output!Redacted
<1>15. PICK seen2 \in Shown : seen2 = seen \o text
  BY SizeConcat
<1>16. Clear(seen2)
  <2>1. Withheld(seen2, du)
    BY <1>3, <1>10, <1>12, <1>14, <1>15, Emission
  <2> QED  BY <2>1 DEF Withheld
<1>17. ASSUME Output!IsText(du) PROVE seen2 = Output!Decode[du]
  <2>1. seen = Output!Decode[d] /\ Settled(d)
    BY <1>3, <1>12, <1>17 DEF Honest
  <2> QED  BY <1>10, <1>12, <1>15, <2>1, SettledJoins
<1>18. PICK kept2 \in Shown : kept2 = kept \o Output!Kept(kept, text) /\ Output!Size[kept2] <= CaptureSize
  BY <1>3, KeptFits
<1>19. z = [pending |-> <<>>, utf8 |-> <<>>, captured |-> kept2, emitted |-> seen2]
  BY <1>11, <1>15, <1>18
<1>20. z \in Redactors /\ z.captured = kept2 /\ z.emitted = seen2
  BY <1>19, EmptyClear DEF Redactors
<1> QED  BY <1>13, <1>16, <1>17, <1>18, <1>20 DEF Told

\* Until then it is the beginning.
LEMMA BeginningFollows ==
  ASSUME NEW x \in Redactors, NEW r \in Texts, NEW o \in Texts, NEW d \in Texts, NEW y \in Texts,
         Follows(x, r, o, d), Output!IsText(Output!Redacted(r \o y))
  PROVE  \E more \in Shown : Output!Decode[Output!Redacted(r \o y)] = x.emitted \o more
<1>1. PICK h \in Texts, w \in Texts, seen \in Shown : h = x.pending /\ w = x.utf8 /\ seen = x.emitted
  BY DEF Redactors
<1>2. PICK T \in Texts : T = Output!Scan[r].text
  BY ScanFacts DEF Scanned
<1>a. /\ \A a \in Texts : (T \o o) \o a = T \o (o \o a)
      /\ \A a \in Texts : (d \o w) \o a = d \o (w \o a)
  <2>1. \A a \in Texts : (T \o o) \o a = T \o (o \o a)
    BY Associates
  <2>2. \A a \in Texts : (d \o w) \o a = d \o (w \o a)
    BY Associates
  <2> QED  BY <2>1, <2>2
<1>b. \A a, b \in Texts : ((d \o w) \o a) \o b = d \o ((w \o a) \o b)
  BY Regrouped
<1>3. /\ Output!Scan[r].rest = o \o h /\ Same(Output!Scan[r].rest, h) /\ Len(h) < Len(Secret)
      /\ T \o o = d \o w /\ Honest(seen, d)
  BY <1>1, <1>2 DEF Follows
<1>4. PICK ry \in Texts, hy \in Texts : ry = r \o y /\ hy = h \o y
  BY Together
<1>5. PICK A \in Scanned, B \in Scanned : A = Output!Scan[ry] /\ B = Output!Scan[hy]
  BY ScanFacts
<1>6. Continues(T, o, A, B)
  BY <1>2, <1>3, <1>4, <1>5, Continuation
<1>7. PICK ta \in Texts, ar \in Texts, bt \in Texts, br \in Texts : ta = A.text /\ ar = A.rest /\ bt = B.text /\ br = B.rest
  BY DEF Scanned
<1>8. Output!Redacted(ry) = ta \o ar
  BY <1>5, <1>7 DEF Output!Redacted
<1>9. \E u \in Texts : Output!Redacted(ry) = d \o u
  <2>1. CASE ta = T /\ ar = o \o br
    <3>1. ta \o ar = (T \o o) \o br
      BY <1>a, <2>1, Zenon
    <3>2. (d \o w) \o br = d \o (w \o br)
      BY <1>a, Zenon
    <3>3. w \o br \in Texts
      BY Together
    <3> QED  BY <1>3, <1>8, <3>1, <3>2, <3>3
  <2>2. CASE ar = br /\ ta = (T \o o) \o bt
    <3>1. ((d \o w) \o bt) \o br = d \o ((w \o bt) \o br)
      BY <1>b, Zenon
    <3>2. (w \o bt) \o br \in Texts
      <4>1. PICK wb \in Texts : wb = w \o bt
        BY Together
      <4>2. wb \o br \in Texts
        BY Together
      <4> QED  BY <4>1, <4>2
    <3> QED  BY <1>3, <1>8, <2>2, <3>1, <3>2
  <2> QED  BY <1>6, <1>7, <2>1, <2>2 DEF Continues
<1>10. PICK u \in Texts : Output!Redacted(ry) = d \o u
  BY <1>9
<1>11. Output!IsText(d \o u)
  BY <1>4, <1>10
<1>12. seen = Output!Decode[d] /\ Settled(d)
  BY <1>3, <1>11 DEF Honest
<1>13. PICK more \in Shown : more = Output!Decode[u]
  BY DecodeFacts
<1>14. Output!Decode[d \o u] = seen \o more
  BY <1>12, <1>13, SettledJoins
<1> QED  BY <1>1, <1>4, <1>10, <1>14

\* A sequence is the beginning of what follows from it.
LEMMA PrefixIs ==
  ASSUME NEW x \in Shown, NEW y \in Shown
  PROVE  Output!IsPrefix(x, x \o y) /\ Output!IsPrefix(x, x)
<1>0. Len(x) \in Nat /\ Len(y) \in Nat /\ x \in Seq(Output!Characters)
  BY LenProperties DEF Shown
<1>1. PICK t \in Seq(Output!Characters) : t = x \o y
  BY ConcatProperties DEF Shown
<1>2. Len(t) = Len(x) + Len(y) /\ \A i \in 1..(Len(x) + Len(y)) : t[i] = IF i <= Len(x) THEN x[i] ELSE y[i - Len(x)]
  BY <1>1, ConcatProperties DEF Shown
<1>3. Len(x) <= Len(t) /\ \A i \in 1..Len(x) : t[0 + i] = x[i]
  BY <1>0, <1>2
<1>4. SubSeq(t, 0 + 1, 0 + Len(x)) = SubSeq(x, 1, Len(x))
  BY <1>0, <1>3, Slices
<1>5. 0 + 1 = 1 /\ 0 + Len(x) = Len(x)
  BY <1>0
<1> QED  BY <1>0, <1>1, <1>3, <1>4, <1>5 DEF Output!IsPrefix

Readers == [open : BOOLEAN, piece : Texts]
OutputTypes ==
  /\ printed \in [Streams -> Texts] /\ reader \in [Streams -> Readers]
  /\ channel \in Seq(Items) /\ redactor \in [Streams -> Redactors]
ClosedIsEmpty == \A s \in Streams : ~reader[s].open => reader[s].piece = <<>>

\* What a process wrote is what came out of the channel, what is in it and what is to be sent.
Polled(s, wrote, q, piece, x) ==
  \E r \in Texts, o \in Texts, d \in Texts : wrote = (r \o Sent(s)[q]) \o piece /\ Follows(x, r, o, d)
Polling == loop = "polling" => \A s \in Streams : Polled(s, printed[s], channel, reader[s].piece, redactor[s])
AllTold == loop # "polling" => Output!Disconnected /\ \A s \in Streams : Told(redactor[s], printed[s])
ChildIs == child \in {"running", "exited", "killed"}
OutputInv == OutputTypes /\ ChildIs /\ ClosedIsEmpty /\ Polling /\ AllTold

\* The invariant of the output says that what is printed is shown, but for the secret.
LEMMA OutputFacts ==
  ASSUME OutputInv
  PROVE  Output!SecretWithheld /\ Output!OutputWhole /\ Output!CaptureBounded
<1>1. ASSUME NEW s \in Streams
      PROVE  /\ Clear(redactor[s].emitted) /\ Output!Size[redactor[s].captured] <= CaptureSize
             /\ Output!IsText(Output!Redacted(printed[s])) =>
                  /\ Output!IsPrefix(redactor[s].emitted, Output!Decode[Output!Redacted(printed[s])])
                  /\ loop # "polling" => redactor[s].emitted = Output!Decode[Output!Redacted(printed[s])]
             /\ redactor[s].emitted \in Shown
  <2>1. PICK x \in Redactors, p \in Texts, piece \in Texts, q \in Seq(Items) :
          x = redactor[s] /\ p = printed[s] /\ piece = reader[s].piece /\ q = channel
    BY DEF OutputInv, OutputTypes, Readers
  <2>2. PICK seen \in Shown : seen = x.emitted
    BY DEF Redactors
  <2>3. CASE loop = "polling"
    <3>1. PICK r \in Texts, o \in Texts, d \in Texts : p = (r \o Sent(s)[q]) \o piece /\ Follows(x, r, o, d)
      BY <2>1, <2>3 DEF OutputInv, Polling, Polled
    <3>2. PICK sent \in Texts : sent = Sent(s)[q]
      BY SentFacts
    <3>3. PICK y \in Texts : y = sent \o piece
      BY Together
    <3>4. p = r \o y
      <4>0. \A a, b \in Texts : (r \o a) \o b = r \o (a \o b)
        BY Associates
      <4>1. (r \o sent) \o piece = r \o (sent \o piece)
        BY <4>0, Zenon
      <4> QED  BY <3>1, <3>2, <3>3, <4>1
    <3>5. Clear(seen) /\ Output!Size[x.captured] <= CaptureSize
      BY <2>2, <3>1 DEF Follows, Withheld
    <3>6. ASSUME Output!IsText(Output!Redacted(p)) PROVE Output!IsPrefix(seen, Output!Decode[Output!Redacted(p)])
      <4>1. PICK more \in Shown : Output!Decode[Output!Redacted(p)] = seen \o more
        BY <2>2, <3>1, <3>4, <3>6, BeginningFollows
      <4> QED  BY <4>1, PrefixIs
    <3> QED  BY <2>1, <2>2, <2>3, <3>5, <3>6
  <2>4. CASE loop # "polling"
    <3>1. Told(x, p)
      BY <2>1, <2>4 DEF OutputInv, AllTold
    <3>2. Output!IsPrefix(seen, seen)
      BY PrefixIs
    <3> QED  BY <2>1, <2>2, <3>1, <3>2 DEF Told
  <2> QED  BY <2>3, <2>4
<1>2. Output!SecretWithheld
  <2>1. ASSUME NEW s \in Streams PROVE ~Output!Contained(Secret, redactor[s].emitted)
    BY <1>1, HoldsSecret, ClearIs DEF Shown
  <2> QED  BY <2>1 DEF Output!SecretWithheld
<1>3. Output!OutputWhole
  BY <1>1 DEF Output!OutputWhole
<1>4. Output!CaptureBounded
  BY <1>1 DEF Output!CaptureBounded
<1> QED  BY <1>2, <1>3, <1>4

\* Before anything is printed it holds.
LEMMA StartFollows ==
  ASSUME NEW x, x = [pending |-> <<>>, utf8 |-> <<>>, captured |-> <<>>, emitted |-> <<>>]
  PROVE  x \in Redactors /\ Follows(x, <<>>, <<>>, <<>>)
<1>1. <<>> \in Texts /\ <<>> \in Shown /\ Clear(<<>>)
  BY EmptyClear, EmptySeq DEF Shown
<1>2. Output!Scan[<<>>].rest = <<>> /\ Output!Scan[<<>>].text = <<>>
  BY ScanFacts
<1>3. <<>> \o <<>> = <<>>
  BY <1>1, ConcatEmptySeq DEF Texts
<1>4. Len(<<>>) < Len(Secret) /\ Output!Size[<<>>] <= CaptureSize
  BY OutputConstants, SizeFacts
<1>5. Same(<<>>, <<>>) /\ Withheld(<<>>, <<>>) /\ Honest(<<>>, <<>>)
  BY <1>1, DecodeFacts DEF Same, Withheld, Honest, Settled
<1>6. x.pending = <<>> /\ x.utf8 = <<>> /\ x.captured = <<>> /\ x.emitted = <<>> /\ x \in Redactors
  BY <1>1 DEF Redactors
<1> QED  BY <1>2, <1>3, <1>4, <1>5, <1>6 DEF Follows

\* The invariant of the output holds at first.
LEMMA OutputInit ==
  ASSUME Output!Init
  PROVE  OutputInv
<1>1. <<>> \in Texts /\ <<>> \in Seq(Items) /\ <<>> \o <<>> = <<>>
  BY EmptyClear, EmptySeq, ConcatEmptySeq DEF Texts
<1>2. PICK x : x = [pending |-> <<>>, utf8 |-> <<>>, captured |-> <<>>, emitted |-> <<>>]
  OBVIOUS
<1>3. /\ printed = [s \in Streams |-> <<>>] /\ channel = <<>> /\ loop = "polling" /\ child = "running"
      /\ reader = [s \in Streams |-> [open |-> TRUE, piece |-> <<>>]]
      /\ redactor = [s \in Streams |-> x]
  BY <1>2 DEF Output!Init
<1>4. x \in Redactors /\ Follows(x, <<>>, <<>>, <<>>)
  BY <1>2, StartFollows
<1>5. OutputTypes
  <2>1. [open |-> TRUE, piece |-> <<>>] \in Readers
    BY <1>1 DEF Readers
  <2> QED  BY <1>1, <1>3, <1>4, <2>1 DEF OutputTypes
<1>6. ClosedIsEmpty
  BY <1>3 DEF ClosedIsEmpty
<1>7. Polling
  <2>1. SUFFICES ASSUME NEW s \in Streams PROVE Polled(s, printed[s], channel, reader[s].piece, redactor[s])
    BY DEF Polling
  <2>2. printed[s] = <<>> /\ reader[s].piece = <<>> /\ redactor[s] = x
    BY <1>3
  <2>3. <<>> = (<<>> \o Sent(s)[<<>>]) \o <<>>
    BY <1>1, SentFacts
  <2>4. Polled(s, <<>>, <<>>, <<>>, x)
    BY <1>1, <1>4, <2>3 DEF Polled
  <2> QED  BY <1>3, <2>2, <2>4
<1>8. AllTold
  BY <1>3 DEF AllTold
<1> QED  BY <1>3, <1>5, <1>6, <1>7, <1>8 DEF OutputInv, ChildIs

\* Steps of the process alone keep it.
LEMMA OutputRests ==
  ASSUME OutputInv, ChildIs', UNCHANGED <<printed, reader, channel, redactor, loop>>
  PROVE  OutputInv'
<1> USE DEF OutputInv
<1>1. OutputTypes'
  BY DEF OutputTypes
<1>2. ClosedIsEmpty'
  BY DEF ClosedIsEmpty
<1>3. Polling'
  BY DEF Polling
<1>4. AllTold'
  BY DEF AllTold, Output!Disconnected
<1> QED  BY <1>1, <1>2, <1>3, <1>4

\* A piece is some bytes.
LEMMA PieceIsText ==
  ASSUME NEW piece \in Output!Pieces
  PROVE  piece \in Texts
<1>1. PICK n \in 1..Buffer : piece \in [1..n -> Alphabet]
  BY DEF Output!Pieces
<1>2. n \in Nat /\ \A i \in 1..n : piece[i] \in Output!Bytes
  BY <1>1, OutputConstants
<1>3. piece = [i \in 1..n |-> piece[i]]
  BY <1>1
<1>4. [i \in 1..n |-> piece[i]] \in Seq(Output!Bytes)
  BY <1>2, IsASeq
<1> QED  BY <1>3, <1>4 DEF Texts

\* Bytes that move on are where they were between those before and those after them.
LEMMA Moves ==
  ASSUME NEW r \in Texts, NEW q \in Texts, NEW a \in Texts
  PROVE  /\ (r \o q) \o <<>> = r \o q
         /\ (r \o (q \o a)) \o <<>> = (r \o q) \o a
         /\ \A b \in Texts : (r \o (a \o q)) \o b = ((r \o a) \o q) \o b
<1>1. PICK rq \in Texts, ra \in Texts, qa \in Texts : rq = r \o q /\ ra = r \o a /\ qa = q \o a
  BY Together
<1>2. rq \o <<>> = rq
  BY ConcatEmptySeq DEF Texts
<1>3. \A x, y \in Texts : (r \o x) \o y = r \o (x \o y)
  BY Associates
<1>4. PICK w \in Texts : w = r \o qa
  BY Together
<1>5. w \o <<>> = w
  BY ConcatEmptySeq DEF Texts
<1>6. r \o qa = rq \o a
  BY <1>1, <1>3, Zenon
<1>7. r \o (a \o q) = (r \o a) \o q
  BY <1>3, Zenon
<1>8. \A b \in Texts : (r \o (a \o q)) \o b = ((r \o a) \o q) \o b
  BY <1>7, Zenon
<1> QED  BY <1>1, <1>2, <1>4, <1>5, <1>6, <1>8

\* A piece is read: it is written and to be sent.
LEMMA ReadStep ==
  ASSUME OutputInv, NEW s \in Streams, Output!Read(s)
  PROVE  OutputInv'
<1>1. PICK piece \in Output!Pieces : printed' = [printed EXCEPT ![s] = @ \o piece] /\ reader' = [reader EXCEPT ![s].piece = piece]
  BY DEF Output!Read
<1>2. reader[s] = [open |-> TRUE, piece |-> <<>>] /\ UNCHANGED <<channel, redactor, loop>>
  BY DEF Output!Read
<1>3. piece \in Texts
  BY PieceIsText
<1>4. OutputTypes
  BY DEF OutputInv
<1>5. reader[s].open = TRUE /\ reader[s].piece = <<>>
  BY <1>2
<1>6. PICK w \in Texts : w = printed[s] \o piece
  BY <1>3, <1>4, Together DEF OutputTypes
<1>7. /\ printed' \in [Streams -> Texts] /\ printed'[s] = w
      /\ \A t \in Streams : t # s => printed'[t] = printed[t]
  BY <1>1, <1>4, <1>6 DEF OutputTypes
<1>9. /\ reader' \in [Streams -> Readers] /\ reader'[s].piece = piece /\ reader'[s].open = TRUE
      /\ \A t \in Streams : t # s => reader'[t] = reader[t]
  BY <1>1, <1>3, <1>4, <1>5 DEF OutputTypes, Readers
<1>10. OutputTypes'
  BY <1>2, <1>4, <1>7, <1>9 DEF OutputTypes
<1>11. ClosedIsEmpty'
  BY <1>9 DEF OutputInv, ClosedIsEmpty
<1>12. Polling'
  <2>1. SUFFICES ASSUME loop = "polling", NEW t \in Streams
                 PROVE  Polled(t, printed'[t], channel, reader'[t].piece, redactor[t])
    BY <1>2 DEF Polling
  <2>2. Polled(t, printed[t], channel, reader[t].piece, redactor[t])
    BY <2>1 DEF OutputInv, Polling
  <2>3. CASE t # s
    BY <1>7, <1>9, <2>2, <2>3
  <2>4. CASE t = s
    <3>1. PICK r \in Texts, o \in Texts, d \in Texts :
            printed[s] = (r \o Sent(s)[channel]) \o <<>> /\ Follows(redactor[s], r, o, d)
      BY <1>5, <2>2, <2>4 DEF Polled
    <3>2. PICK sent \in Texts : sent = Sent(s)[channel]
      BY <1>4, SentFacts DEF OutputTypes
    <3>3. (r \o sent) \o <<>> = r \o sent
      BY <1>3, Moves
    <3>4. w = (r \o sent) \o piece
      BY <1>6, <3>1, <3>2, <3>3
    <3>5. Polled(s, w, channel, piece, redactor[s])
      BY <3>1, <3>2, <3>4 DEF Polled
    <3> QED  BY <1>7, <1>9, <2>4, <3>5
  <2> QED  BY <2>3, <2>4
<1>13. AllTold'
  <2>1. loop = "polling"
    BY <1>5 DEF OutputInv, AllTold, Output!Disconnected
  <2> QED  BY <1>2, <2>1 DEF AllTold
<1>14. ChildIs'
  BY DEF OutputInv, ChildIs, Output!Read
<1> QED  BY <1>10, <1>11, <1>12, <1>13, <1>14 DEF OutputInv

\* A pipe ends with nothing to send.
LEMMA EndOfPipeStep ==
  ASSUME OutputInv, NEW s \in Streams, Output!EndOfPipe(s)
  PROVE  OutputInv'
<1>1. /\ reader[s].open = TRUE /\ reader[s].piece = <<>>
      /\ reader' = [reader EXCEPT ![s].open = FALSE] /\ UNCHANGED <<printed, channel, redactor, loop>>
  BY DEF Output!EndOfPipe, Output!processVars
<1>2. OutputTypes
  BY DEF OutputInv
<1>3. reader' \in [Streams -> Readers] /\ \A t \in Streams : reader'[t].piece = reader[t].piece
  BY <1>1, <1>2 DEF OutputTypes, Readers
<1>4. \A t \in Streams : t # s => reader'[t] = reader[t]
  BY <1>1, <1>2 DEF OutputTypes, Readers
<1>5. OutputTypes'
  BY <1>1, <1>2, <1>3 DEF OutputTypes
<1>6. ClosedIsEmpty'
  BY <1>1, <1>3, <1>4 DEF OutputInv, ClosedIsEmpty
<1>7. Polling'
  <2>1. SUFFICES ASSUME loop = "polling", NEW t \in Streams
                 PROVE  Polled(t, printed[t], channel, reader'[t].piece, redactor[t])
    BY <1>1 DEF Polling
  <2>2. Polled(t, printed[t], channel, reader[t].piece, redactor[t])
    BY <2>1 DEF OutputInv, Polling
  <2> QED  BY <1>3, <2>2
<1>8. AllTold'
  <2>1. loop = "polling"
    BY <1>1 DEF OutputInv, AllTold, Output!Disconnected
  <2> QED  BY <1>1, <2>1 DEF AllTold
<1>9. ChildIs'
  BY DEF OutputInv, ChildIs, Output!EndOfPipe, Output!processVars
<1> QED  BY <1>5, <1>6, <1>7, <1>8, <1>9 DEF OutputInv

\* A piece is sent.
LEMMA SendStep ==
  ASSUME OutputInv, NEW s \in Streams, Output!Send(s)
  PROVE  OutputInv'
<1>1. /\ reader[s].piece # <<>>
      /\ channel' = Append(channel, [stream |-> s, bytes |-> reader[s].piece])
      /\ reader' = [reader EXCEPT ![s].piece = <<>>] /\ UNCHANGED <<printed, redactor, loop>>
  BY DEF Output!Send, Output!processVars
<1>2. OutputTypes
  BY DEF OutputInv
<1>3. PICK piece \in Texts, q \in Seq(Items) : piece = reader[s].piece /\ q = channel
  BY <1>2 DEF OutputTypes, Readers
<1>a. \A x, y \in Texts : (x \o (y \o piece)) \o <<>> = (x \o y) \o piece
  BY Moves, SMTT(20)
<1>4. PICK m \in Items : m = [stream |-> s, bytes |-> piece]
  BY DEF Items
<1>5. channel' = Append(q, m) /\ Append(q, m) \in Seq(Items)
  BY <1>1, <1>3, <1>4, AppendProperties
<1>6. <<>> \in Texts
  BY EmptyClear
<1>7. /\ reader' \in [Streams -> Readers] /\ reader'[s].piece = <<>>
      /\ \A t \in Streams : t # s => reader'[t] = reader[t]
  BY <1>1, <1>2, <1>6 DEF OutputTypes, Readers
<1>8. OutputTypes'
  BY <1>1, <1>2, <1>5, <1>7 DEF OutputTypes
<1>9. ClosedIsEmpty'
  BY <1>7 DEF OutputInv, ClosedIsEmpty
<1>10. Polling'
  <2>1. SUFFICES ASSUME loop = "polling", NEW t \in Streams
                 PROVE  Polled(t, printed[t], channel', reader'[t].piece, redactor[t])
    BY <1>1 DEF Polling
  <2>2. Polled(t, printed[t], q, reader[t].piece, redactor[t])
    BY <1>3, <2>1 DEF OutputInv, Polling
  <2>3. Sent(t)[channel'] = Sent(t)[q] \o Own(t, m)
    BY <1>5, SentAppend
  <2>4. PICK sent \in Texts : sent = Sent(t)[q]
    BY SentFacts
  <2>5. CASE t # s
    <3>1. Own(t, m) = <<>>
      BY <1>4, <2>5 DEF Own
    <3>2. Sent(t)[channel'] = sent
      BY <2>3, <2>4, <3>1, ConcatEmptySeq DEF Texts
    <3>3. Polled(t, printed[t], channel', reader[t].piece, redactor[t])
      BY <2>2, <2>4, <3>2 DEF Polled
    <3> QED  BY <1>7, <2>5, <3>3
  <2>6. CASE t = s
    <3>1. Own(s, m) = piece
      BY <1>4 DEF Own
    <3>2. PICK r \in Texts, o \in Texts, d \in Texts : printed[s] = (r \o sent) \o piece /\ Follows(redactor[s], r, o, d)
      BY <1>3, <2>2, <2>4, <2>6 DEF Polled
    <3>3. (r \o (sent \o piece)) \o <<>> = (r \o sent) \o piece
      BY <1>a, Zenon
    <3>4. printed[s] = (r \o Sent(s)[channel']) \o <<>>
      BY <2>3, <2>4, <2>6, <3>1, <3>2, <3>3
    <3>5. Polled(s, printed[s], channel', <<>>, redactor[s])
      BY <3>2, <3>4 DEF Polled
    <3> QED  BY <1>7, <2>6, <3>5
  <2> QED  BY <2>5, <2>6
<1>11. AllTold'
  <2>1. loop = "polling"
    BY <1>1 DEF OutputInv, AllTold, ClosedIsEmpty, Output!Disconnected
  <2> QED  BY <1>1, <2>1 DEF AllTold
<1>12. ChildIs'
  BY DEF OutputInv, ChildIs, Output!Send, Output!processVars
<1> QED  BY <1>8, <1>9, <1>10, <1>11, <1>12 DEF OutputInv

\* A piece is received and pushed.
LEMMA ReceiveStep ==
  ASSUME OutputInv, Output!Receive
  PROVE  OutputInv'
<1>1. /\ loop = "polling" /\ channel # <<>>
      /\ redactor' = Output!Push(Head(channel).stream, Head(channel).bytes, FALSE, redactor)
      /\ channel' = Tail(channel) /\ UNCHANGED <<printed, reader, loop>>
  BY DEF Output!Receive, Output!processVars
<1>2. OutputTypes
  BY DEF OutputInv
<1>3. PICK q \in Seq(Items) : q = channel /\ q # <<>>
  BY <1>1, <1>2 DEF OutputTypes
<1>4. Head(q) \in Items /\ Tail(q) \in Seq(Items)
  BY <1>3, HeadTailProperties
<1>5. PICK m \in Items, l \in Seq(Items) : m = Head(q) /\ l = Tail(q)
  BY <1>4
<1>6. PICK s \in Streams, y \in Texts : s = m.stream /\ y = m.bytes
  BY DEF Items
<1>7. PICK z : z = Polls(redactor[s], y)
  OBVIOUS
<1>8. redactor' = [redactor EXCEPT ![s] = z]
  <2>1. redactor' = Output!Push(s, y, FALSE, redactor)
    BY <1>1, <1>3, <1>5, <1>6
  <2>2. redactor \in [Streams -> Redactors]
    BY <1>2 DEF OutputTypes
  <2>3. Output!Push(s, y, FALSE, redactor) = [redactor EXCEPT ![s] = Polls(redactor[s], y)]
    <3>1. \A b \in Texts : Output!Push(s, b, FALSE, redactor) = [redactor EXCEPT ![s] = Polls(redactor[s], b)]
      BY <2>2, PushIs
    <3> QED  BY <3>1, Zenon
  <2> QED  BY <1>7, <2>1, <2>3
<1>9. ASSUME NEW t \in Streams
      PROVE  Polled(t, printed[t], q, reader[t].piece, redactor[t]) /\ redactor[t] \in Redactors
  BY <1>1, <1>2, <1>3 DEF OutputInv, Polling, OutputTypes
<1>10. /\ z \in Redactors /\ Polled(s, printed[s], l, reader[s].piece, z)
  <2>1. PICK r \in Texts, o \in Texts, d \in Texts :
          printed[s] = (r \o Sent(s)[q]) \o reader[s].piece /\ Follows(redactor[s], r, o, d)
    BY <1>9 DEF Polled
  <2>2. PICK piece \in Texts : piece = reader[s].piece
    BY <1>2 DEF OutputTypes, Readers
  <2>3. PICK sent \in Texts : sent = Sent(s)[l]
    BY SentFacts
  <2>4. Sent(s)[q] = y \o sent
    <3>1. Sent(s)[q] = Own(s, m) \o Sent(s)[l]
      BY <1>3, <1>5, SentHead
    <3> QED  BY <1>6, <2>3, <3>1 DEF Own
  <2>5. PICK ry \in Texts : ry = r \o y
    BY Together
  <2>6. (r \o (y \o sent)) \o piece = (ry \o sent) \o piece
    <3>1. \A a, b \in Texts : (r \o a) \o b = r \o (a \o b)
      BY Associates
    <3>2. r \o (y \o sent) = ry \o sent
      BY <2>5, <3>1, Zenon
    <3> QED  BY <3>2
  <2>7. printed[s] = (ry \o Sent(s)[l]) \o reader[s].piece
    BY <2>1, <2>2, <2>3, <2>4, <2>6
  <2>8. z \in Redactors /\ \E o2 \in Texts, d2 \in Texts : Follows(z, ry, o2, d2)
    BY <1>7, <1>9, <2>1, <2>5, PieceFollows
  <2> QED  BY <2>7, <2>8 DEF Polled
<1>11. ASSUME NEW t \in Streams, t # s
       PROVE  Polled(t, printed[t], l, reader[t].piece, redactor[t])
  <2>1. Sent(t)[q] = Own(t, m) \o Sent(t)[l] /\ Sent(t)[l] \in Texts
    BY <1>3, <1>5, SentHead
  <2>2. Own(t, m) = <<>>
    BY <1>6, <1>11 DEF Own
  <2>3. Sent(t)[q] = Sent(t)[l]
    BY <2>1, <2>2, ConcatEmptySeq DEF Texts
  <2> QED  BY <1>9, <2>3 DEF Polled
<1>12. /\ redactor' \in [Streams -> Redactors] /\ redactor'[s] = z
       /\ \A t \in Streams : t # s => redactor'[t] = redactor[t]
  BY <1>2, <1>8, <1>10 DEF OutputTypes
<1>13. channel' = l
  BY <1>1, <1>3, <1>5
<1>14. OutputTypes'
  BY <1>1, <1>2, <1>12, <1>13 DEF OutputTypes
<1>15. ClosedIsEmpty'
  BY <1>1 DEF OutputInv, ClosedIsEmpty
<1>16. Polling'
  <2>1. SUFFICES ASSUME NEW t \in Streams PROVE Polled(t, printed[t], l, reader[t].piece, redactor'[t])
    BY <1>1, <1>13 DEF Polling
  <2> QED  BY <1>10, <1>11, <1>12
<1>17. AllTold'
  BY <1>1 DEF AllTold
<1>18. ChildIs'
  BY DEF OutputInv, ChildIs, Output!Receive, Output!processVars
<1> QED  BY <1>14, <1>15, <1>16, <1>17, <1>18 DEF OutputInv

\* When everybody is gone the rest is pushed.
LEMMA FinishStep ==
  ASSUME OutputInv, Output!Finish
  PROVE  OutputInv'
<1>1. /\ loop = "polling" /\ Output!Disconnected /\ child # "running"
      /\ redactor' = [s \in Streams |-> Output!Push(s, <<>>, TRUE, redactor)[s]]
      /\ loop' = child /\ UNCHANGED <<printed, reader, channel>>
  BY DEF Output!Finish, Output!processVars
<1>2. OutputTypes
  BY DEF OutputInv
<1>3. ASSUME NEW s \in Streams
      PROVE  redactor'[s] \in Redactors /\ Told(redactor'[s], printed[s])
  <2>1. PICK z : z = Drains(redactor[s])
    OBVIOUS
  <2>2. Output!Push(s, <<>>, TRUE, redactor) = [redactor EXCEPT ![s] = z]
    BY <1>2, <2>1, PushIs DEF OutputTypes
  <2>3. redactor'[s] = z
    BY <1>1, <1>2, <2>2 DEF OutputTypes
  <2>4. channel = <<>> /\ reader[s].piece = <<>>
    BY <1>1 DEF Output!Disconnected, OutputInv, ClosedIsEmpty
  <2>5. PICK r \in Texts, o \in Texts, d \in Texts :
          printed[s] = (r \o Sent(s)[<<>>]) \o <<>> /\ Follows(redactor[s], r, o, d)
    BY <1>1, <2>4 DEF OutputInv, Polling, Polled
  <2>6. printed[s] = r
    BY <2>5, SentFacts, ConcatEmptySeq DEF Texts
  <2>7. redactor[s] \in Redactors
    BY <1>2 DEF OutputTypes
  <2>8. z \in Redactors /\ Told(z, r)
    BY <2>1, <2>5, <2>7, LastFollows
  <2> QED  BY <2>3, <2>6, <2>8
<1>4. redactor' \in [Streams -> Redactors]
  <2>1. redactor' = [s \in Streams |-> redactor'[s]]
    BY <1>1
  <2> QED  BY <1>3, <2>1
<1>5. OutputTypes'
  BY <1>1, <1>2, <1>4 DEF OutputTypes
<1>6. ClosedIsEmpty'
  BY <1>1 DEF OutputInv, ClosedIsEmpty
<1>a. ChildIs' /\ child # "polling"
  BY DEF OutputInv, ChildIs, Output!Finish, Output!processVars
<1>7. Polling'
  BY <1>1, <1>a DEF Polling
<1>8. Output!Disconnected'
  BY <1>1 DEF Output!Disconnected
<1>9. AllTold'
  <2>1. \A s \in Streams : Told(redactor'[s], printed'[s])
    BY <1>1, <1>3
  <2> QED  BY <1>8, <2>1 DEF AllTold
<1> QED  BY <1>5, <1>6, <1>7, <1>9, <1>a DEF OutputInv

\* Every step of the output keeps the invariant.
LEMMA OutputStep ==
  ASSUME OutputInv, [Output!Next]_(Output!vars)
  PROVE  OutputInv'
<1>1. CASE Output!ChildExits
  <2>1. ChildIs' /\ UNCHANGED <<printed, reader, channel, redactor, loop>>
    BY <1>1 DEF ChildIs, Output!ChildExits
  <2> QED  BY <2>1, OutputRests
<1>2. CASE Output!DaemonExits
  <2>1. ChildIs' /\ UNCHANGED <<printed, reader, channel, redactor, loop>>
    BY <1>2 DEF OutputInv, ChildIs, Output!DaemonExits
  <2> QED  BY <2>1, OutputRests
<1>3. CASE Output!Deadline
  <2>1. ChildIs' /\ UNCHANGED <<printed, reader, channel, redactor, loop>>
    BY <1>3 DEF OutputInv, ChildIs, Output!Deadline
  <2> QED  BY <2>1, OutputRests
<1>4. CASE \E s \in Streams : Output!Read(s) \/ Output!EndOfPipe(s) \/ Output!Send(s)
  BY <1>4, ReadStep, EndOfPipeStep, SendStep
<1>5. CASE Output!Kill
  <2>1. ChildIs' /\ UNCHANGED <<printed, reader, channel, redactor, loop>>
    BY <1>5 DEF ChildIs, Output!Kill
  <2> QED  BY <2>1, OutputRests
<1>6. CASE Output!Receive
  BY <1>6, ReceiveStep
<1>7. CASE Output!Finish
  BY <1>7, FinishStep
<1>8. CASE UNCHANGED Output!vars
  <2>1. ChildIs' /\ UNCHANGED <<printed, reader, channel, redactor, loop>>
    BY <1>8 DEF OutputInv, ChildIs, Output!vars, Output!processVars
  <2> QED  BY <2>1, OutputRests
<1> QED  BY <1>1, <1>2, <1>3, <1>4, <1>5, <1>6, <1>7, <1>8 DEF Output!Next

(* What is typed is what runs, or it is refused, and what that prints is shown *)
(* but for the address of the remote browser, in whatever pieces it comes      *)
(* (controller_arguments, upload_arguments, RedactedOutput::push, run).         *)
THEOREM CommandsFaithful == MCSpec => []CommandFaithful
<1> DEFINE Inv == ArgumentsInv /\ OutputInv
<1>1. MCInit => Inv
  BY ArgumentsInit, OutputInit DEF MCInit
<1>2. Inv /\ [MCNext]_<<part, vars, transferVars, outputVars, argumentVars, setupVars>> => Inv'
  <2>1. ArgumentsInv /\ ArgumentsPart => ArgumentsInv'
    BY ArgumentsStep DEF ArgumentsPart
  <2>2. ArgumentsInv /\ UNCHANGED argumentVars => ArgumentsInv'
    BY ArgumentsRest
  <2>3. OutputInv /\ OutputPart => OutputInv'
    BY OutputStep DEF OutputPart
  <2>4. OutputInv /\ UNCHANGED outputVars => OutputInv'
    BY OutputStep DEF outputVars, Output!vars, Output!processVars
  <2>5. CommandsPart \/ TransferPart \/ OutputPart \/ SetupPart => UNCHANGED argumentVars
    BY DEF CommandsPart, TransferPart, OutputPart, SetupPart
  <2>6. CommandsPart \/ TransferPart \/ ArgumentsPart \/ SetupPart => UNCHANGED outputVars
    BY DEF CommandsPart, TransferPart, ArgumentsPart, SetupPart
  <2> QED  BY <2>1, <2>2, <2>3, <2>4, <2>5, <2>6 DEF MCNext
<1>3. Inv => CommandFaithful
  BY ArgumentsFaithful, OutputFacts DEF CommandFaithful
<1> QED  BY <1>1, <1>2, <1>3, PTL DEF MCSpec
=============================================================================
