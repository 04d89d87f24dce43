--------------------------- MODULE LocalCommands ---------------------------
(***************************************************************************)
(* Commands for one session on a caller's machine (cli/src/runtime.rs).    *)
(* Each `browser run` is a process.  It takes the connection to the remote *)
(* browser from a file that is good for a minute, or asks the backend,     *)
(* under one lock; and runs the controller under another.  Files and locks *)
(* live in a directory of the sign-in; the controller's own state is named *)
(* after the principal and the session, so that sign-ins of one principal  *)
(* share it.  `browser session end` removes the file, without the lock.    *)
(* Processes die at any time; their locks go with them, the controllers    *)
(* they started do not.                                                    *)
(***************************************************************************)
EXTENDS Naturals, FiniteSets

CONSTANTS
  Commands,  \* browser run
  Ends,      \* browser session end
  SignIns,   \* sign-ins of one principal, each with a directory
  MaxAge,    \* how long a stored connection is used
  Timeout,   \* of a request to the backend
  Expiry,    \* when the session expires
  MaxClock,  \* bound
  None

Procs == Commands \cup Ends
ASSUME LocalAssumption ==
  /\ Commands \cap Ends = {} /\ None \notin Procs \cup Nat
  /\ {MaxAge, Timeout, Expiry, MaxClock} \subseteq Nat
  /\ MaxAge > 0 /\ Timeout > 0 /\ MaxClock >= Expiry

VARIABLES
  clock,
  ended,        \* when the session was ended, or None
  signedIn,     \* the sign-in the state file names
  stored,       \* per sign-in: the connection file
  cacheLock,    \* per sign-in: holder of its lock
  runLock,      \* per sign-in: holder of the namespace's lock
  proc,
  controllers   \* commands whose controller works

files == <<stored, cacheLock, runLock>>
vars == <<clock, ended, signedIn, files, proc, controllers>>

(* answered: when the backend gave the connection; picked: when it was     *)
(* taken for a command.                                                    *)
Process == [pc |-> "idle", signIn |-> None, answered |-> None, picked |-> None]

Init ==
  /\ clock = 0 /\ ended = None
  /\ signedIn \in SignIns
  /\ stored = [s \in SignIns |-> None]
  /\ cacheLock = [s \in SignIns |-> None] /\ runLock = [s \in SignIns |-> None]
  /\ proc = [p \in Procs |-> Process]
  /\ controllers = {}

At(p, pc) == proc[p].pc = pc
Goto(p, pc) == proc' = [proc EXCEPT ![p].pc = pc]
Dir(p) == proc[p].signIn

(* Time passes, but not while a request has been on its way for too long.  *)
Tick ==
  /\ clock < MaxClock
  /\ \A p \in Commands : At(p, "store") => clock < proc[p].answered + Timeout
  /\ clock' = clock + 1
  /\ UNCHANGED <<ended, signedIn, files, proc, controllers>>

SignInAgain ==
  /\ signedIn' \in SignIns \ {signedIn}
  /\ UNCHANGED <<clock, ended, files, proc, controllers>>

Open(p) ==
  /\ At(p, "idle")
  /\ proc' = [proc EXCEPT ![p].pc = IF p \in Ends THEN "end" ELSE "cache", ![p].signIn = signedIn]
  /\ UNCHANGED <<clock, ended, signedIn, files, controllers>>

(* connection *)
LockCache(p) ==
  /\ At(p, "cache") /\ cacheLock[Dir(p)] = None
  /\ cacheLock' = [cacheLock EXCEPT ![Dir(p)] = p]
  /\ Goto(p, "look")
  /\ UNCHANGED <<clock, ended, signedIn, stored, runLock, controllers>>

FaultyUsable(entry) ==   \* mutant: used a moment too long
  entry # None /\ clock - entry.fetched <= MaxAge /\ clock < Expiry
Usable(entry) == entry # None /\ clock - entry.fetched < MaxAge /\ clock < Expiry
Unlock(lock, p) == [lock EXCEPT ![Dir(p)] = IF @ = p THEN None ELSE @]

Hit(p) ==
  /\ At(p, "look") /\ Usable(stored[Dir(p)])
  /\ proc' = [proc EXCEPT ![p].pc = "queue", ![p].answered = stored[Dir(p)].answered, ![p].picked = clock]
  /\ cacheLock' = Unlock(cacheLock, p)
  /\ UNCHANGED <<clock, ended, signedIn, stored, runLock, controllers>>

(* The backend answers for a session that is neither ended nor expired;    *)
(* the request may fail on its way as well.                                *)
Answer(p) ==
  /\ At(p, "look") /\ ~Usable(stored[Dir(p)])
  /\ ended = None /\ clock < Expiry
  /\ proc' = [proc EXCEPT ![p].pc = "store", ![p].answered = clock]
  /\ UNCHANGED <<clock, ended, signedIn, files, controllers>>

Refused(p) ==
  /\ At(p, "look") /\ ~Usable(stored[Dir(p)])
  /\ Goto(p, "refused")
  /\ cacheLock' = Unlock(cacheLock, p)
  /\ UNCHANGED <<clock, ended, signedIn, stored, runLock, controllers>>

Store(p) ==
  /\ At(p, "store")
  /\ stored' = [stored EXCEPT ![Dir(p)] = [fetched |-> clock, answered |-> proc[p].answered]]
  /\ proc' = [proc EXCEPT ![p].pc = "queue", ![p].picked = clock]
  /\ cacheLock' = Unlock(cacheLock, p)
  /\ UNCHANGED <<clock, ended, signedIn, runLock, controllers>>

(* run *)
LockRun(p) ==
  /\ At(p, "queue") /\ runLock[Dir(p)] = None
  /\ runLock' = [runLock EXCEPT ![Dir(p)] = p]
  /\ Goto(p, "check")
  /\ UNCHANGED <<clock, ended, signedIn, stored, cacheLock, controllers>>

Start(p) ==
  /\ At(p, "check")
  /\ IF clock < Expiry
       THEN Goto(p, "running") /\ controllers' = controllers \cup {p} /\ UNCHANGED runLock
       ELSE Goto(p, "refused") /\ runLock' = Unlock(runLock, p) /\ UNCHANGED controllers
  /\ UNCHANGED <<clock, ended, signedIn, stored, cacheLock>>

ControllerExits(p) ==
  /\ p \in controllers /\ controllers' = controllers \ {p}
  /\ UNCHANGED <<clock, ended, signedIn, files, proc>>

Kill(p) ==
  /\ At(p, "running") /\ p \in controllers /\ clock >= Expiry
  /\ controllers' = controllers \ {p}
  /\ UNCHANGED <<clock, ended, signedIn, files, proc>>

FaultyFinish(p) ==   \* mutant: the controller is not waited for
  /\ At(p, "running")
  /\ Goto(p, "done")
  /\ runLock' = Unlock(runLock, p)
  /\ UNCHANGED <<clock, ended, signedIn, stored, cacheLock, controllers>>
Finish(p) ==
  /\ At(p, "running") /\ p \notin controllers
  /\ Goto(p, "done")
  /\ runLock' = Unlock(runLock, p)
  /\ UNCHANGED <<clock, ended, signedIn, stored, cacheLock, controllers>>

(* session end *)
EndSession(p) ==
  /\ At(p, "end")
  /\ IF ended = None /\ clock < Expiry THEN ended' = clock /\ Goto(p, "forget")
     ELSE Goto(p, "refused") /\ UNCHANGED ended
  /\ UNCHANGED <<clock, signedIn, files, controllers>>

Forget(p) ==
  /\ At(p, "forget")
  /\ stored' = [stored EXCEPT ![Dir(p)] = None]
  /\ Goto(p, "done")
  /\ UNCHANGED <<clock, ended, signedIn, cacheLock, runLock, controllers>>

Crash(p) ==
  /\ proc[p].pc \notin {"idle", "done", "refused", "dead"}
  /\ Goto(p, "dead")
  /\ cacheLock' = Unlock(cacheLock, p) /\ runLock' = Unlock(runLock, p)
  /\ UNCHANGED <<clock, ended, signedIn, stored, controllers>>

Step(p) ==
  \/ Hit(p) \/ Answer(p) \/ Refused(p) \/ Store(p) \/ Start(p) \/ Finish(p)
  \/ EndSession(p) \/ Forget(p)
Next ==
  \/ Tick \/ SignInAgain
  \/ \E p \in Procs : Open(p) \/ LockCache(p) \/ LockRun(p) \/ Step(p) \/ Kill(p) \/ Crash(p)
  \/ \E p \in Commands : ControllerExits(p)

Spec == Init /\ [][Next]_vars

-----------------------------------------------------------------------------

Entries == [fetched : 0..MaxClock, answered : 0..MaxClock]
Stages == {"idle", "cache", "look", "store", "queue", "check", "running",
           "end", "forget", "done", "refused", "dead"}
Processes ==
  [pc : Stages,
   signIn : SignIns \cup {None},
   answered : 0..MaxClock \cup {None}, picked : 0..MaxClock \cup {None}]

TypeOK ==
  /\ clock \in 0..MaxClock /\ ended \in 0..MaxClock \cup {None}
  /\ signedIn \in SignIns
  /\ stored \in [SignIns -> Entries \cup {None}]
  /\ cacheLock \in [SignIns -> Procs \cup {None}]
  /\ runLock \in [SignIns -> Procs \cup {None}]
  /\ proc \in [Procs -> Processes]
  /\ controllers \subseteq Commands

(* Under one sign-in two controllers work in the session at once only if   *)
(* the process of a command was killed: its lock goes with it, what it has *)
(* started does not.  Neither the next command nor one that has ended, by  *)
(* itself or at the session's expiry, leaves a controller beside another.  *)
(* (runtime.rs:50-60)                                                      *)
SerializedUnlessKilled ==
  \A p, q \in controllers : p # q /\ Dir(p) = Dir(q) => At(p, "dead") \/ At(q, "dead")

(* A connection of a session that was ended is taken for a command for a   *)
(* bounded time only, however the end, the file and commands that asked    *)
(* before it overlap: a minute, and what the backend's answer took to      *)
(* arrive.  (runtime.rs:62-88, main.rs:1007-1010)                          *)
StaleForBoundedTime ==
  \A p \in Commands :
    ended # None /\ proc[p].picked # None => proc[p].picked < ended + MaxAge + Timeout
=============================================================================
