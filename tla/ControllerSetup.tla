---------------------------- MODULE ControllerSetup ----------------------------
(***************************************************************************)
(* How `browser setup` installs the controller that `browser run` runs     *)
(* (client/setup.rs, cli/main.rs, cli/runtime.rs).  Setups of several      *)
(* versions of the client share one private directory; each wants the      *)
(* controller of its own version, which may already be there, be on PATH   *)
(* or be downloaded.  A setup may crash and the machine may lose power at  *)
(* any step; the sign-in that precedes is the one of CliCredentials.       *)
(***************************************************************************)
EXTENDS Naturals

CONSTANTS
  Setups,      \* processes, each runs one setup
  Versions,    \* versions of the controller
  WantedBy,    \* the version a setup's client is compiled for
  Packaged,    \* setups of a client that has a controller beside it
  None,
  MaxLosses,   \* bound: losses of power
  MaxChanges   \* bound: changes of what is on PATH

SetupAssumption ==
  /\ WantedBy \in [Setups -> Versions] /\ Packaged \subseteq Setups
  /\ None \notin Setups \cup Versions
  /\ None \notin [version : Versions \cup {None}, whole : BOOLEAN, synced : BOOLEAN]
  /\ MaxLosses \in Nat /\ MaxChanges \in Nat

VARIABLES
  directory,   \* the private directory: absent, private, or of other permissions
  holder,      \* the setup that holds setup.lock
  onPath,      \* version of the controller on PATH
  target,      \* the controller in the private directory
  durable,     \* what may be at its place after a loss of power
  temps,       \* temporary files, by name
  pc,
  clean,       \* nothing has failed for the setup
  promised,    \* version last reported ready, unless it was changed since
  losses, changes

files == <<directory, target, durable, temps>>
vars == <<files, holder, onPath, pc, clean, promised, losses, changes>>

(* A file of a version; `whole' if all of it is written, `synced' if that  *)
(* survives a loss of power.  A Link is no regular file.                   *)
Link == [version |-> None, whole |-> FALSE, synced |-> TRUE]
Whole(v) == [version |-> v, whole |-> TRUE, synced |-> TRUE]
Unwritten(v) == [version |-> v, whole |-> FALSE, synced |-> FALSE]

Init ==
  /\ directory \in {"absent", "private", "shared"}
  /\ target \in {None} \cup (IF directory = "private" THEN {Link} \cup {Whole(v) : v \in Versions} ELSE {})
  /\ durable = {target} /\ temps = [n \in {} |-> None]
  /\ holder = None /\ onPath \in Versions \cup {None}
  /\ pc = [p \in Setups |-> "open"] /\ clean = [p \in Setups |-> TRUE]
  /\ promised = None /\ losses = 0 /\ changes = 0

Goto(p, next) == pc' = [pc EXCEPT ![p] = next]
Stops(p, how) == Goto(p, how) /\ holder' = IF holder = p THEN None ELSE holder
Unlucky(p) == clean' = [clean EXCEPT ![p] = FALSE]

(* runner_status: the file is run, which can also fail for other reasons.  *)
Ready(p, file, runs) == runs /\ file # None /\ file.whole /\ file.version = WantedBy[p]
PathFile == IF onPath = None THEN None ELSE Whole(onPath)

(* What `browser run` runs (controller_binary). *)
Picked == IF target # None THEN target ELSE PathFile

Report(p) == Stops(p, "ready") /\ promised' = WantedBy[p] /\ UNCHANGED <<files, onPath, clean, losses, changes>>
Fails(p) == Stops(p, "failed") /\ UNCHANGED <<files, onPath, promised, losses, changes>>
Broken(p) == Unlucky(p) /\ Fails(p)
On(p, next) == Goto(p, next) /\ UNCHANGED <<files, holder, onPath, promised, losses, changes>>

-----------------------------------------------------------------------------
(* secure_home: the directory is opened, and made if it was absent.        *)

Opened(p) == IF directory = "private" THEN On(p, "lock") /\ UNCHANGED clean ELSE Broken(p)

Open(p) ==
  /\ pc[p] = "open"
  /\ IF directory = "absent" THEN On(p, "create") /\ UNCHANGED clean ELSE Opened(p)

Create(p) ==   \* another setup may have made it
  /\ pc[p] = "create"
  /\ directory' = IF directory = "absent" THEN "private" ELSE directory
  /\ Goto(p, "reopen")
  /\ UNCHANGED <<target, durable, temps, holder, onPath, clean, promised, losses, changes>>

Reopen(p) == pc[p] = "reopen" /\ Opened(p)

Lockable(p) == holder = None
Lock(p) ==
  /\ pc[p] = "lock" /\ Lockable(p)
  /\ holder' = p /\ Goto(p, IF p \in Packaged THEN "package" ELSE "target")
  /\ UNCHANGED <<files, onPath, clean, promised, losses, changes>>

-----------------------------------------------------------------------------
(* ensure_runner *)

(* The controller of a package is beside the client, and `run' prefers it; *)
(* what is promised of the others stays as it is.                          *)
CheckPackage(p) ==
  /\ pc[p] = "package"
  /\ \/ Stops(p, "ready") /\ UNCHANGED <<files, onPath, clean, promised, losses, changes>>
     \/ Broken(p)

MayUsePath == target = None

CheckTarget(p) ==
  /\ pc[p] = "target"
  /\ IF target = Link THEN Broken(p)
     ELSE \E runs \in BOOLEAN :
       IF Ready(p, target, runs) THEN Report(p)
       ELSE On(p, IF MayUsePath THEN "path" ELSE "download") /\ UNCHANGED clean

CheckPath(p) ==
  /\ pc[p] = "path"
  /\ \E runs \in BOOLEAN :
       IF Ready(p, PathFile, runs) THEN Report(p) ELSE On(p, "download") /\ UNCHANGED clean

Download(p) ==
  /\ pc[p] = "download"
  /\ \/ On(p, "make") /\ UNCHANGED clean   \* the digest is the compiled-in one
     \/ Broken(p)

(* A temporary file has a name of its own. *)
FaultyName(p) == CHOOSE q \in Setups : TRUE   \* mutant: the name is fixed
Name(p) == p
Put(n, file) == temps' = [m \in DOMAIN temps \cup {n} |-> IF m = n THEN file ELSE temps[m]]
Remove(n) == temps' = [m \in DOMAIN temps \ {n} |-> temps[m]]

MakeTemporary(p) ==
  /\ pc[p] = "make"
  /\ IF Name(p) \in DOMAIN temps THEN Goto(p, "remove") /\ UNCHANGED temps
     ELSE Put(Name(p), Unwritten(WantedBy[p])) /\ Goto(p, "write")
  /\ UNCHANGED <<directory, target, durable, holder, onPath, clean, promised, losses, changes>>

Written(v) == Whole(v)
Write(p) ==
  /\ pc[p] = "write"
  /\ \/ Put(Name(p), Written(WantedBy[p])) /\ Goto(p, "try") /\ UNCHANGED clean
     \/ Goto(p, "remove") /\ Unlucky(p) /\ UNCHANGED temps
  /\ UNCHANGED <<directory, target, durable, holder, onPath, promised, losses, changes>>

Try(p) ==
  /\ pc[p] = "try"
  /\ \E runs \in BOOLEAN :
       IF Ready(p, temps[Name(p)], runs) THEN On(p, "rename") /\ UNCHANGED clean
       ELSE On(p, "remove") /\ Unlucky(p)

(* The directory is not synced: after a loss of power the earlier file may *)
(* be back.                                                                *)
Rename(p) ==
  /\ pc[p] = "rename"
  /\ \/ /\ target' = temps[Name(p)]
        /\ durable' = durable \cup {target'}
        /\ Remove(Name(p)) /\ Goto(p, "installed")
        /\ promised' = None
        /\ UNCHANGED <<directory, holder, onPath, clean, losses, changes>>
     \/ On(p, "remove") /\ Unlucky(p)

Installed(p) ==
  /\ pc[p] = "installed"
  /\ \E runs \in BOOLEAN :
       IF Ready(p, target, runs) THEN Report(p)
       ELSE /\ Stops(p, "unready") /\ Unlucky(p)
            /\ UNCHANGED <<files, onPath, promised, losses, changes>>

RemoveTemporary(p) ==
  /\ pc[p] = "remove"
  /\ Remove(Name(p)) /\ Stops(p, "failed")
  /\ UNCHANGED <<directory, target, durable, onPath, clean, promised, losses, changes>>

-----------------------------------------------------------------------------
(* The machine. *)

Ended == {"ready", "unready", "failed", "gone"}

Left(p) == holder' = IF holder = p THEN None ELSE holder
Crash(p) ==
  /\ pc[p] \notin Ended \cup {"open"}
  /\ Goto(p, "gone") /\ Left(p)
  /\ UNCHANGED <<files, onPath, clean, promised, losses, changes>>

After(file) == IF file = None \/ file.synced THEN file ELSE Unwritten(file.version)
PowerLoss ==
  /\ losses < MaxLosses /\ losses' = losses + 1
  /\ \E file \in durable : target' = After(file)
  /\ durable' = {target'}
  /\ temps' = [n \in DOMAIN temps |-> After(temps[n])]
  /\ pc' = [p \in Setups |-> IF pc[p] \in Ended \cup {"open"} THEN pc[p] ELSE "gone"]
  /\ holder' = None /\ promised' = None
  /\ UNCHANGED <<directory, onPath, clean, changes>>

ChangePath ==
  /\ changes < MaxChanges /\ changes' = changes + 1
  /\ onPath' \in (Versions \cup {None}) \ {onPath}
  /\ promised' = IF target = None THEN None ELSE promised
  /\ UNCHANGED <<files, holder, pc, clean, losses>>

Step(p) ==
  \/ Open(p) \/ Create(p) \/ Reopen(p) \/ Lock(p)
  \/ CheckPackage(p) \/ CheckTarget(p) \/ CheckPath(p) \/ Download(p)
  \/ MakeTemporary(p) \/ Write(p) \/ Try(p) \/ Rename(p) \/ Installed(p) \/ RemoveTemporary(p)

Next == (\E p \in Setups : Step(p) \/ Crash(p)) \/ PowerLoss \/ ChangePath

Spec == Init /\ [][Next]_vars

-----------------------------------------------------------------------------
TypeOK ==
  /\ holder \in Setups \cup {None} /\ onPath \in Versions \cup {None}
  /\ promised \in Versions \cup {None} /\ DOMAIN temps \subseteq Setups

(* The private controller is never half written, also not after a loss of  *)
(* power at any step.  (setup.rs:117-126)                                  *)
TargetWhole == target = None \/ target = Link \/ target.whole

(* As long as nothing is installed and PATH is not changed, `run' runs the *)
(* controller of the version that setup last reported ready: no other      *)
(* private controller hides it.  (setup.rs:82-90, runtime.rs:164)          *)
ReadyIsPicked == promised # None => Picked # None /\ Picked.version = promised

(* A setup for which nothing fails ends ready, whatever crashed setups and *)
(* those that run with it have left behind.  (setup.rs:108-134)            *)
RetryCures == \A p \in Setups : pc[p] = "failed" => ~clean[p]

=============================================================================
