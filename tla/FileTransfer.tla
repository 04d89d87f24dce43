---------------------------- MODULE FileTransfer ----------------------------
(***************************************************************************)
(* Files between the caller's disk and a page of the remote browser        *)
(* (client/src/controller).  A transfer is a process that has the page     *)
(* evaluate one script after another through helper processes; a helper    *)
(* that takes too long is killed, but its script may still be evaluated    *)
(* later, or not.  To find the element a selector names, the transfer      *)
(* patches getAttribute for a while; transfers of several participants of  *)
(* a session, and the page itself, patch it independently, each over what  *)
(* it finds.  Scripts that await in the page keep running when the         *)
(* transfer has given up.  Files are a few parts long; every write of the  *)
(* uploaded file is taken to change its modification time.                 *)
(***************************************************************************)
EXTENDS Naturals, Sequences, FiniteSets

CONSTANTS
  Uploads,    \* transfers of one local file, to one input of the page
  Downloads,  \* transfers of one link, to one local path
  Parts,      \* length of the file and of the linked resource
  MaxWrites,  \* bound: writes to the local file
  Page,       \* the page, as the author of a patch
  None

Transfers == Uploads \cup Downloads

TransferAssumption ==
  /\ Uploads \cap Downloads = {}
  /\ Page \notin Transfers
  /\ None \notin Transfers \cup Nat
  /\ Parts \in Nat \ {0} /\ MaxWrites \in Nat

VARIABLES
  chain,     \* patches of getAttribute, the latest last
  object,    \* what the scripts of a transfer keep at window[key]
  response,  \* what the page's fetch of the link got
  input,     \* the file the input was assigned
  wrapped,   \* history: the page has patched getAttribute since it was loaded
  evals,     \* scripts handed to the browser
  client,    \* where each transfer is
  source,    \* the local file: its parts and its modification time
  versions,  \* all contents the local file has had
  dest,      \* content of the destination
  disk       \* what a power loss may leave of it

pageVars == <<chain, object, response, input, wrapped>>
localVars == <<source, versions, dest, disk>>
vars == <<pageVars, localVars, evals, client>>

Scripts == {"capture", "resolve", "target", "chunk", "build", "commit", "begin", "read", "cleanup"}

Forgotten == [present |-> FALSE, timer |-> "off", captured |-> FALSE,
              chunks |-> <<>>, file |-> None, offset |-> 0]
Old == [by |-> None, parts |-> <<>>]
Process(pc) == [pc |-> pc, waiting |-> FALSE, failed |-> FALSE, opened |-> 0, data |-> <<>>]
Gone == Process("done")

Init ==
  /\ chain = <<>> /\ input = None /\ wrapped = FALSE /\ evals = {}
  /\ object = [t \in Transfers |-> Forgotten]
  /\ response = [t \in Downloads |-> [stream |-> "none", end |-> None]]
  /\ client = [t \in Transfers |-> Process("open")]
  /\ source = [parts |-> [i \in 1 .. Parts |-> 0], mtime |-> 0]
  /\ versions = {source.parts}
  /\ dest = Old /\ disk = {Old}

-----------------------------------------------------------------------------
(* The transfer's process. *)

At(t, pc) == client[t].pc = pc /\ ~client[t].waiting
GoTo(t, pc) == client' = [client EXCEPT ![t].pc = pc]
Finishes(t) == client' = [client EXCEPT ![t] = Gone]

(* upload_local opens the file and keeps its metadata; download_local has a *)
(* temporary file beside the destination.                                   *)
Open(t) ==
  /\ At(t, "open")
  /\ client' = [client EXCEPT ![t].pc = "capture", ![t].opened = source.mtime]
  /\ UNCHANGED <<pageVars, localVars, evals>>

(* What the next script carries: the part that is read for it just before, *)
(* or the digests of all parts.                                            *)
Carried(t) ==
  CASE client[t].pc = "chunk" -> source.parts[Len(client[t].data) + 1]
    [] client[t].pc = "commit" -> client[t].data
    [] OTHER -> None

(* upload_helper passes the next script on. *)
Issue(t) ==
  /\ client[t].pc \in Scripts /\ ~client[t].waiting
  /\ evals' = evals \cup
       {[by |-> t, script |-> client[t].pc, carries |-> Carried(t), running |-> FALSE]}
  /\ client' = [client EXCEPT ![t].waiting = TRUE,
       ![t].data = IF client[t].pc = "chunk" THEN Append(@, Carried(t)) ELSE @]
  /\ UNCHANGED <<pageVars, localVars>>

(* After cleanup, however that went: a download that got all is committed. *)
Rest(t) ==
  IF t \in Downloads /\ ~client[t].failed
  THEN [client[t] EXCEPT !.pc = "sync", !.waiting = FALSE] ELSE Gone

(* The helper reports an error, or its deadline passes and it is killed: the *)
(* script may be lost or not.  The transfer cleans up.                       *)
TimeOut(t) ==
  /\ client[t].waiting
  /\ LET handed == {e \in evals : e.by = t /\ e.script = client[t].pc} IN
       \E lost \in SUBSET {e \in handed : ~e.running} : evals' = evals \ lost
  /\ client' = [client EXCEPT ![t] =
       IF @.pc = "cleanup" THEN Rest(t)
       ELSE [@ EXCEPT !.pc = "cleanup", !.waiting = FALSE, !.failed = TRUE]]
  /\ UNCHANGED <<pageVars, localVars>>

(* The process is killed, or the session is over. *)
Die(t) ==
  /\ client[t].pc # "done"
  /\ Finishes(t)
  /\ UNCHANGED <<pageVars, localVars, evals>>

(* The parts that were read are those of one version, if the metadata is the *)
(* same as before the first.                                                 *)
Recheck(t) ==
  /\ At(t, "recheck")
  /\ client' = [client EXCEPT ![t].failed = source.mtime # client[t].opened,
       ![t].pc = IF source.mtime = client[t].opened THEN "build" ELSE "cleanup"]
  /\ UNCHANGED <<pageVars, localVars, evals>>

(* AtomicDownload::commit: flush and rename; the directory is not flushed, so *)
(* a power loss may bring back what was there before.                         *)
Sync(t) ==
  /\ At(t, "sync")
  /\ dest' = [by |-> t, parts |-> client[t].data]
  /\ disk' = disk \cup {dest'}
  /\ Finishes(t)
  /\ UNCHANGED <<pageVars, source, versions, evals>>

(* Somebody writes a part of the local file while parts of it are read. *)
Write(i) ==
  /\ \E t \in Uploads : client[t].pc \in {"chunk", "recheck"}
  /\ source.mtime < MaxWrites
  /\ source' = [parts |-> [source.parts EXCEPT ![i] = source.mtime + 1], mtime |-> source.mtime + 1]
  /\ versions' = versions \cup {source'.parts}
  /\ UNCHANGED <<pageVars, dest, disk, evals, client>>

(* The caller's machine loses power; the browser is elsewhere. *)
PowerLoss ==
  /\ \E content \in disk : dest' = content /\ disk' = {content}
  /\ client' = [t \in Transfers |-> Gone]
  /\ UNCHANGED <<pageVars, source, versions, evals>>

-----------------------------------------------------------------------------
(* The answer of a script, for a transfer that still waits for it. *)

Answer(e, ok, next) ==
  client' = IF client[e.by].waiting /\ client[e.by].pc = e.script
            THEN [client EXCEPT ![e.by] = IF ok THEN next
                    ELSE [@ EXCEPT !.pc = "cleanup", !.waiting = FALSE, !.failed = TRUE]]
            ELSE client
Then(e, pc) == [client[e.by] EXCEPT !.pc = pc, !.waiting = FALSE]

Handed(e, script) == e.script = script /\ ~e.running
Runs(e, script) == e.script = script /\ e.running
Over(e) == evals' = evals \ {e} /\ UNCHANGED <<wrapped, localVars>>
Awaits(e) == evals' = (evals \ {e}) \cup {[e EXCEPT !.running = TRUE]} /\ UNCHANGED <<wrapped, localVars>>

-----------------------------------------------------------------------------
(* Patching getAttribute. *)

Patch(t) == [by |-> t, active |-> TRUE]
Patched(t) == \E i \in DOMAIN chain : chain[i] = Patch(t)

(* restore: the patch does nothing any more, and the inactive patches on top *)
(* are undone; patches over it that somebody still uses stay.                *)
FaultyRestored(t) ==   \* mutant: a patch that is no transfer's is taken for an unused one
  LET off == [i \in DOMAIN chain |-> [chain[i] EXCEPT !.active = @ /\ chain[i].by # t]]
      used == {i \in DOMAIN off : off[i].active /\ off[i].by \in Transfers}
  IN IF ~Patched(t) THEN chain
     ELSE SubSeq(off, 1, CHOOSE n \in used \cup {0} : \A i \in used : i <= n)
Restored(t) ==
  LET off == [i \in DOMAIN chain |-> [chain[i] EXCEPT !.active = @ /\ chain[i].by # t]]
      used == {i \in DOMAIN off : off[i].active}
  IN IF ~Patched(t) THEN chain
     ELSE SubSeq(off, 1, CHOOSE n \in used \cup {0} : \A i \in used : i <= n)

(* capture_script *)
Capture(e) ==
  /\ Handed(e, "capture")
  /\ chain' = Append(chain, Patch(e.by))
  /\ object' = [object EXCEPT ![e.by] = [Forgotten EXCEPT !.present = TRUE, !.timer = "capture"]]
  /\ Answer(e, TRUE, Then(e, "resolve"))
  /\ Over(e)
  /\ UNCHANGED <<response, input>>

(* `get attr' of the selected element, through all patches in place. *)
Resolve(e) ==
  /\ Handed(e, "resolve")
  /\ object' = [object EXCEPT ![e.by].captured = @ \/ Patched(e.by)]
  /\ Answer(e, Patched(e.by), Then(e, IF e.by \in Uploads THEN "target" ELSE "begin"))
  /\ Over(e)
  /\ UNCHANGED <<chain, response, input>>

PageWraps ==
  /\ ~wrapped /\ wrapped' = TRUE
  /\ chain' = Append(chain, Patch(Page))
  /\ UNCHANGED <<object, response, input, localVars, evals, client>>

(* The page is left: its scripts stop where they are. *)
Navigate ==
  /\ chain' = <<>> /\ input' = None /\ wrapped' = FALSE
  /\ object' = [t \in Transfers |-> Forgotten]
  /\ response' = [t \in Downloads |-> [response[t] EXCEPT !.stream = IF @ = "none" THEN @ ELSE "aborted"]]
  /\ evals' = {e \in evals : ~e.running}
  /\ UNCHANGED <<localVars, client>>

Aborted(t) ==
  IF t \in Downloads THEN [response EXCEPT ![t].stream = IF @ = "none" THEN @ ELSE "aborted"]
  ELSE response

(* The timer of capture_script, 10 s after it, or of begin_script, 30 s after *)
(* the last sign of the transfer.                                             *)
TimerFires(t) ==
  /\ object[t].timer # "off"
  /\ chain' = Restored(t)
  /\ response' = Aborted(t)
  /\ object' = [object EXCEPT ![t] = Forgotten]
  /\ UNCHANGED <<input, wrapped, localVars, evals, client>>

(* The last script of either transfer. *)
Cleanup(e) ==
  /\ Handed(e, "cleanup")
  /\ IF object[e.by].present
     THEN /\ chain' = Restored(e.by)
          /\ response' = Aborted(e.by)
          /\ object' = [object EXCEPT ![e.by] = Forgotten]
     ELSE UNCHANGED <<chain, response, object>>
  /\ Answer(e, TRUE, Rest(e.by))
  /\ Over(e)
  /\ UNCHANGED input

-----------------------------------------------------------------------------
(* Upload. *)

Target(e) ==
  /\ Handed(e, "target")
  /\ LET o == object[e.by] IN
       /\ chain' = IF o.present THEN Restored(e.by) ELSE chain
       /\ object' = IF o.present THEN [object EXCEPT ![e.by].timer = "off"] ELSE object
       /\ Answer(e, o.present /\ o.captured, Then(e, "chunk"))
  /\ Over(e)
  /\ UNCHANGED <<response, input>>

Chunk(e) ==
  /\ Handed(e, "chunk")
  /\ LET o == object[e.by] IN
       /\ object' = IF o.present THEN [object EXCEPT ![e.by].chunks = Append(@, e.carries)] ELSE object
       /\ Answer(e, o.present, Then(e, IF Len(client[e.by].data) < Parts THEN "chunk" ELSE "recheck"))
  /\ Over(e)
  /\ UNCHANGED <<chain, response, input>>

Build(e) ==
  /\ Handed(e, "build")
  /\ LET o == object[e.by] IN
       /\ object' = IF o.present THEN [object EXCEPT ![e.by].file = o.chunks, ![e.by].chunks = <<>>] ELSE object
       /\ Answer(e, o.present /\ Len(o.chunks) = Len(client[e.by].data), Then(e, "commit"))
  /\ Over(e)
  /\ UNCHANGED <<chain, response, input>>

(* commit_script compares the file's digest with the carried one ... *)
BeginCommit(e) ==
  /\ Handed(e, "commit")
  /\ IF object[e.by].present /\ object[e.by].file = e.carries THEN Awaits(e) /\ UNCHANGED client
     ELSE Over(e) /\ Answer(e, FALSE, Then(e, "cleanup"))
  /\ UNCHANGED pageVars

(* ... and assigns it, even if the transfer has given up meanwhile. *)
FinishCommit(e) ==
  /\ Runs(e, "commit")
  /\ input' = e.carries
  /\ object' = [object EXCEPT ![e.by] = Forgotten]
  /\ Answer(e, TRUE, Then(e, "cleanup"))
  /\ Over(e)
  /\ UNCHANGED <<chain, response>>

-----------------------------------------------------------------------------
(* Download. *)

(* begin_script starts the one fetch ... *)
Begin(e) ==
  /\ Handed(e, "begin")
  /\ LET o == object[e.by] IN
       /\ chain' = IF o.present THEN Restored(e.by) ELSE chain
       /\ IF o.present /\ o.captured
          THEN /\ object' = [object EXCEPT ![e.by].timer = "transfer"]
               /\ response' = [response EXCEPT ![e.by].stream = "requested"]
               /\ Awaits(e) /\ UNCHANGED client
          ELSE /\ object' = IF o.present THEN [object EXCEPT ![e.by].timer = "off"] ELSE object
               /\ Answer(e, FALSE, Then(e, "read"))
               /\ Over(e) /\ UNCHANGED response
  /\ UNCHANGED input

(* ... and has its reader, if it was not aborted. *)
Respond(e) ==
  /\ Runs(e, "begin")
  /\ IF response[e.by].stream = "requested"
     THEN response' = [response EXCEPT ![e.by].stream = "open"]
     ELSE UNCHANGED response
  /\ Answer(e, response[e.by].stream = "requested", Then(e, "read"))
  /\ Over(e)
  /\ UNCHANGED <<chain, object, input>>

(* read_script awaits the next part ... *)
BeginRead(e) ==
  /\ Handed(e, "read")
  /\ IF object[e.by].present THEN Awaits(e) /\ UNCHANGED client
     ELSE Over(e) /\ Answer(e, FALSE, Then(e, "cleanup"))
  /\ UNCHANGED pageVars

(* ... which comes, ... *)
ReadPart(e) ==
  /\ Runs(e, "read")
  /\ response[e.by].stream = "open" /\ object[e.by].offset < Parts
  /\ object' = [object EXCEPT ![e.by].offset = @ + 1]
  /\ Answer(e, TRUE, [Then(e, "read") EXCEPT !.data = Append(@, object[e.by].offset + 1)])
  /\ Over(e)
  /\ UNCHANGED <<chain, response, input>>

(* ... or the body was aborted, or is at its end, which must be the announced *)
(* one; where a body ends and whether its length was announced is decided here. *)
ReadEnd(e) ==
  /\ Runs(e, "read")
  /\ LET offset == object[e.by].offset IN
     \/ /\ response[e.by].stream = "open"
        /\ \E announced \in BOOLEAN :
             /\ response' = [response EXCEPT ![e.by].end = [at |-> offset, announced |-> announced]]
             /\ Answer(e, announced => offset = Parts, Then(e, "cleanup"))
     \/ /\ response[e.by].stream = "aborted"
        /\ Answer(e, FALSE, Then(e, "cleanup"))
        /\ UNCHANGED response
  /\ Over(e)
  /\ UNCHANGED <<chain, object, input>>

-----------------------------------------------------------------------------

Local(t) == Open(t) \/ Issue(t) \/ TimeOut(t) \/ Die(t) \/ Recheck(t) \/ Sync(t)

Evaluate(e) ==
  \/ Capture(e) \/ Resolve(e) \/ Cleanup(e)
  \/ Target(e) \/ Chunk(e) \/ Build(e) \/ BeginCommit(e) \/ FinishCommit(e)
  \/ Begin(e) \/ Respond(e) \/ BeginRead(e) \/ ReadPart(e) \/ ReadEnd(e)

Next ==
  \/ \E t \in Transfers : Local(t) \/ TimerFires(t)
  \/ \E e \in evals : Evaluate(e)
  \/ \E i \in 1 .. Parts : Write(i)
  \/ PageWraps \/ Navigate \/ PowerLoss

Spec == Init /\ [][Next]_vars

-----------------------------------------------------------------------------
(* What upload and download promise, to the caller and to the page. *)

(* The destination holds what was there before or all of one response, at the *)
(* announced length if there was one; a partial file never replaces it, not   *)
(* even by a power loss (AtomicDownload, read_script).                        *)
DestinationWhole ==
  \A content \in {dest} \cup disk : content.by # None =>
    LET end == response[content.by].end IN
      /\ content.parts = [i \in 1 .. end.at |-> i]
      /\ end.announced => end.at = Parts

(* The page is given the file as it was at one moment, although it is read   *)
(* part by part, can be written meanwhile, and the script that assigns it may *)
(* run after the transfer gave up (upload_local, commit_script).              *)
OneVersionUploaded == input # None => input \in versions

(* Transfers that patch the page at the same time, in any order, do not undo *)
(* one another's patches: that of a transfer is in place while it looks for  *)
(* its element, the page's own stays until the page is left, and what no one *)
(* uses is not left on top (restore).                                        *)
PatchesKept ==
  /\ \A t \in Transfers : object[t].timer = "capture" => Patched(t)
  /\ wrapped => Patched(Page)
  /\ \A i \in DOMAIN chain : i = Len(chain) => chain[i].active

=============================================================================
