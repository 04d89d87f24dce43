-------------------------- MODULE SessionLifecycle --------------------------
(***************************************************************************)
(* The life of a browser session: its row in the store, the remote browser *)
(* the provider runs for it, and the tasks of the service that move both:  *)
(* the handler that creates it, the handlers that end it and the workers   *)
(* of the TTL reaper.                                                      *)
(*                                                                         *)
(* One action is one store transaction, one provider call or one provider  *)
(* event; any two tasks interleave between actions.  A task may vanish     *)
(* between any two of its actions (a crash of its process, a dropped       *)
(* connection, a timeout, a database error): Abandon.                      *)
(*                                                                         *)
(* Clock readings are kept only as the comparisons the code makes:         *)
(* "expires_at <= now" is membership in elapsed, "stop_lease_until > now"  *)
(* is membership in leased.                                                *)
(*                                                                         *)
(* A definition whose comment starts with "Faulty:" is no part of the      *)
(* model: it is the next definition with a bug put in, for the mutants of  *)
(* PROJECT.json.                                                           *)
(***************************************************************************)
EXTENDS Integers, FiniteSets

CONSTANTS Sessions,           \* session ids, each reserved at most once
          Profiles,           \* local profile ids
          Incognito,          \* stands for "no profile"
          ProfileOf,          \* the profile each session is requested for
          Procs,              \* service processes sharing the database
          NoLease,            \* stop_lease_id IS NULL
          StopConcurrency,    \* TTL_STOP_CONCURRENCY
          LeaseCoversAttempt, \* a stop attempt is over before its lease is
          Answers             \* does a provider answer carry a recording URL?

ASSUME ConstantsAssumption ==
  /\ Incognito \notin Profiles
  /\ ProfileOf \in [Sessions -> Profiles \cup {Incognito}]
  /\ NoLease \notin Procs
  /\ StopConcurrency \in Nat \ {0}
  /\ LeaseCoversAttempt \in BOOLEAN
  /\ Answers \in (SUBSET BOOLEAN) \ {{}}

VARIABLES
  (* rows of the store *)
  status,     \* sessions.status, "none" before the row exists
  bound,      \* sessions with a provider_session_id
  source,     \* sessions with a provider_recording_url_enc
  lease,      \* sessions.stop_lease_id: the process that claimed the stop
  recording,  \* recordings.status, "none" before the row exists
  resolve,    \* sessions with a recording.resolve outbox event
  store,      \* sessions with a recording.store outbox event
  billed,     \* sessions with a terminal usage snapshot
  retired,    \* profiles that were ended
  (* clock *)
  elapsed,    \* sessions whose TTL elapsed
  leased,     \* sessions whose stop lease is still running
  (* provider *)
  browser,    \* the remote browser of each session
  (* tasks of the service *)
  pc,         \* where each task stands
  has         \* tasks that know of a recording source

rowVars     == <<status, bound, source>>
leaseVars   == <<lease, leased>>
outcomeVars == <<recording, resolve, store, billed>>
taskVars    == <<pc, has>>
vars == <<rowVars, leaseVars, outcomeVars, retired, elapsed, browser, taskVars>>

Live     == {"starting", "active", "ending"}
Terminal == {"ended", "expired", "failed"}

Tasks == [kind : {"create", "end", "reap"}, proc : Procs, session : Sessions]

\* Where a task may stand: a creation, then a confirmed stop and its aftermath.
Stages == {"idle", "starting", "rejected", "finding", "activate", "adopt",
           "late", "lateAdopted", "retain", "begun", "claimed",
           "stop", "remember", "usage", "record", "finalize"}

TypeOK ==
  /\ status \in [Sessions -> Live \cup Terminal \cup {"none"}]
  /\ bound \subseteq Sessions
  /\ source \subseteq Sessions
  /\ lease \in [Sessions -> Procs \cup {NoLease}]
  /\ recording \in [Sessions -> {"none", "recording", "pending", "failed"}]
  /\ resolve \subseteq Sessions
  /\ store \subseteq Sessions
  /\ billed \subseteq Sessions
  /\ retired \subseteq Profiles
  /\ elapsed \subseteq Sessions
  /\ leased \subseteq Sessions
  /\ browser \in [Sessions -> {"none", "requested", "running", "stopped"}]
  /\ pc \in [Tasks -> Stages]
  /\ has \subseteq Tasks

Init ==
  /\ status = [s \in Sessions |-> "none"]
  /\ bound = {} /\ source = {}
  /\ lease = [s \in Sessions |-> NoLease]
  /\ recording = [s \in Sessions |-> "none"]
  /\ resolve = {} /\ store = {} /\ billed = {}
  /\ retired = {} /\ elapsed = {} /\ leased = {}
  /\ browser = [s \in Sessions |-> "none"]
  /\ pc = [t \in Tasks |-> "idle"]
  /\ has = {}

-----------------------------------------------------------------------------
(* Tasks *)

Goto(t, stage) == pc' = [pc EXCEPT ![t] = stage]

Learn(t, known) == has' = IF known THEN has \cup {t} ELSE has \ {t}

\* The error branch of a task: a reaper worker gives its lease back, unless
\* another process took it over (release_expired_claim).
Fail(t) ==
  /\ Goto(t, "idle")
  /\ \/ /\ t.kind = "reap" /\ lease[t.session] = t.proc
        /\ lease' = [lease EXCEPT ![t.session] = NoLease]
        /\ leased' = leased \ {t.session}
     \/ /\ t.kind # "reap" \/ lease[t.session] # t.proc
        /\ UNCHANGED leaseVars

\* The in-process gate of a session is held by the end handler or the reaper
\* worker that is past its acquisition.
GateFree(p, s) ==
  \A t \in Tasks : (t.proc = p /\ t.session = s /\ t.kind # "create")
                      => pc[t] \in {"idle", "claimed"}

\* A task vanishes: crash, cancelled request, attempt budget spent.  What it
\* leaves is what the store and the provider hold, its stop lease included.
Abandon(t) ==
  /\ pc[t] # "idle"
  /\ Goto(t, "idle")
  /\ UNCHANGED <<rowVars, leaseVars, outcomeVars, retired, elapsed, browser, has>>

\* A database call of a reaper worker fails and the worker gives up.
ReapError(t) ==
  /\ t.kind = "reap"
  /\ pc[t] \in {"claimed", "remember", "usage", "record", "finalize"}
  /\ pc[t] = "claimed" => GateFree(t.proc, t.session)
  /\ Fail(t)
  /\ UNCHANGED <<rowVars, outcomeVars, retired, elapsed, browser, has>>

-----------------------------------------------------------------------------
(* Clock and provider *)

TtlElapses(s) ==
  /\ status[s] # "none"
  /\ elapsed' = elapsed \cup {s}
  /\ UNCHANGED <<rowVars, leaseVars, outcomeVars, retired, browser, taskVars>>

\* TTL_STOP_ATTEMPT_BUDGET is shorter than TTL_STOP_LEASE: a claim outlives
\* the attempt it was made for.  Without LeaseCoversAttempt a stalled process
\* may still be at work when its lease is over.
LeaseLapses(s) ==
  /\ s \in leased
  /\ LeaseCoversAttempt =>
       \A t \in Tasks : (t.kind = "reap" /\ t.session = s /\ t.proc = lease[s])
                           => pc[t] = "idle"
  /\ leased' = leased \ {s}
  /\ UNCHANGED <<rowVars, lease, outcomeVars, retired, elapsed, browser, taskVars>>

\* The provider acts on a create request, whether or not anyone still waits.
ProviderCreates(s) ==
  /\ browser[s] = "requested"
  /\ browser' = [browser EXCEPT ![s] = "running"]
  /\ UNCHANGED <<rowVars, leaseVars, outcomeVars, retired, elapsed, taskVars>>

\* A browser ends on its own: its provider-side timeout, which is the TTL
\* counted from its creation, or a failure.
BrowserStops(s) ==
  /\ browser[s] = "running"
  /\ browser' = [browser EXCEPT ![s] = "stopped"]
  /\ UNCHANGED <<rowVars, leaseVars, outcomeVars, retired, elapsed, taskVars>>

-----------------------------------------------------------------------------
(* Creating a session: create_session *)

\* The partial unique index one_live_session_per_profile.
SlotFree(p) ==
  p = Incognito \/ \A o \in Sessions : ProfileOf[o] = p => status[o] \notin Live

Reserve(t) ==
  LET s == t.session IN
  /\ t.kind = "create" /\ pc[t] = "idle" /\ status[s] = "none"
  /\ ProfileOf[s] \notin retired
  /\ SlotFree(ProfileOf[s])
  /\ status' = [status EXCEPT ![s] = "starting"]
  /\ recording' = [recording EXCEPT ![s] = "recording"]
  /\ browser' = [browser EXCEPT ![s] = "requested"]
  /\ Goto(t, "starting")
  /\ UNCHANGED <<bound, source, leaseVars, resolve, store, billed, retired, elapsed, has>>

\* The provider refuses the create: nothing runs, nothing will.
StartRejected(t) ==
  /\ pc[t] = "starting"
  /\ browser[t.session] = "requested"
  /\ browser' = [browser EXCEPT ![t.session] = "none"]
  /\ Goto(t, "rejected")
  /\ UNCHANGED <<rowVars, leaseVars, outcomeVars, retired, elapsed, has>>

\* The provider answers with a browser; a runtime that does not validate is
\* stopped without ever being stored.
StartSucceeds(t) ==
  /\ pc[t] = "starting"
  /\ browser[t.session] \in {"running", "stopped"}
  /\ \/ /\ Goto(t, "activate")
        /\ \E known \in Answers : Learn(t, known)
     \/ /\ Goto(t, "stop")
        /\ Learn(t, FALSE)
  /\ UNCHANGED <<rowVars, leaseVars, outcomeVars, retired, elapsed, browser>>

\* The answer is lost or unreadable: the create may have been carried out.
StartAmbiguous(t) ==
  /\ pc[t] = "starting"
  /\ Goto(t, "finding")
  /\ UNCHANGED <<rowVars, leaseVars, outcomeVars, retired, elapsed, browser, has>>

\* A search by metadata finds the browser and its runtime validates.  If it
\* does not find it, or fails, the handler only returns: Abandon.
FindBrowser(t) ==
  /\ pc[t] = "finding"
  /\ browser[t.session] = "running"
  /\ Goto(t, "adopt")
  /\ \E known \in Answers : Learn(t, known)
  /\ UNCHANGED <<rowVars, leaseVars, outcomeVars, retired, elapsed, browser>>

FailSession(t) ==
  LET s == t.session IN
  /\ pc[t] = "rejected"
  /\ \/ /\ status[s] \in Live
        /\ status' = [status EXCEPT ![s] = "failed"]
        /\ \/ recording[s] = "recording" /\ recording' = [recording EXCEPT ![s] = "failed"]
           \/ recording[s] # "recording" /\ UNCHANGED recording
     \/ status[s] \notin Live /\ UNCHANGED <<status, recording>>
  /\ Goto(t, "idle")
  /\ UNCHANGED <<bound, source, leaseVars, resolve, store, billed, retired, elapsed, browser, has>>

\* The row takes the runtime the provider returned: its id and its recording
\* URL, or NULL.
StoreRuntime(t) ==
  /\ bound' = bound \cup {t.session}
  /\ source' = IF t \in has THEN source \cup {t.session} ELSE source \ {t.session}

\* First statement of activate_session: compare-and-swap starting -> active.
\* A committed swap whose read-back fails is an error to the caller.
Activate(t) ==
  LET s == t.session IN
  /\ pc[t] \in {"activate", "adopt"}
  /\ status[s] = "starting" /\ s \notin elapsed
  /\ status' = [status EXCEPT ![s] = "active"]
  /\ StoreRuntime(t)
  /\ Goto(t, "idle") \/ (pc[t] = "activate" /\ Goto(t, "retain"))
  /\ UNCHANGED <<leaseVars, outcomeVars, retired, elapsed, browser, has>>

\* The swap misses, or the database refuses it; only the second statement of
\* the direct path is followed by a recovery.
ActivateMisses(t) ==
  LET s == t.session IN
  /\ \/ /\ status[s] # "starting" \/ s \in elapsed
        /\ \/ pc[t] = "activate" /\ Goto(t, "late")
           \/ pc[t] = "adopt" /\ Goto(t, "lateAdopted")
     \/ pc[t] = "activate" /\ Goto(t, "retain")
  /\ UNCHANGED <<rowVars, leaseVars, outcomeVars, retired, elapsed, browser, has>>

\* Last statement of activate_session: a row still starting is past its TTL;
\* it keeps the runtime so that the stop can be retried by anyone.  The
\* update may also fail.
KeepLateRuntime(t) ==
  LET s == t.session IN
  /\ pc[t] \in {"late", "lateAdopted"}
  /\ \/ /\ status[s] = "starting"
        /\ status' = [status EXCEPT ![s] = "ending"]
        /\ StoreRuntime(t)
     \/ UNCHANGED rowVars
  /\ Goto(t, IF pc[t] = "late" THEN "retain" ELSE "idle")
  /\ UNCHANGED <<leaseVars, outcomeVars, retired, elapsed, browser, has>>

\* recover_failed_session_start retains the runtime, keeping what the row
\* already has, before it stops the browser; it stops it even if that fails.
RetainRuntime(t) ==
  LET s == t.session IN
  /\ pc[t] = "retain"
  /\ \/ /\ status[s] \in Live
        /\ status' = [status EXCEPT ![s] = "ending"]
        /\ bound' = bound \cup {s}
        /\ source' = IF t \in has THEN source \cup {s} ELSE source
        /\ UNCHANGED has
     \/ /\ Learn(t, FALSE)
        /\ UNCHANGED rowVars
  /\ Goto(t, "stop")
  /\ UNCHANGED <<leaseVars, outcomeVars, retired, elapsed, browser>>

-----------------------------------------------------------------------------
(* Ending a session: end_session and the TTL reaper *)

\* Under the gate: the session is read, then an active row becomes ending.
BeginEnd(t) ==
  LET s == t.session IN
  /\ t.kind = "end" /\ pc[t] = "idle"
  /\ GateFree(t.proc, s)
  /\ status[s] # "none"
  /\ \/ status[s] = "active" /\ status' = [status EXCEPT ![s] = "ending"]
     \/ status[s] # "active" /\ UNCHANGED status
  /\ Goto(t, "begun")
  /\ UNCHANGED <<bound, source, leaseVars, outcomeVars, retired, elapsed, browser, has>>

\* begin_end_session reads the row back: only an ending one is stopped.
EndRuntime(t) ==
  LET s == t.session IN
  /\ pc[t] = "begun"
  /\ \/ status[s] = "ending" /\ s \in bound /\ Goto(t, "stop")
     \/ ~(status[s] = "ending" /\ s \in bound) /\ Goto(t, "idle")
  /\ Learn(t, s \in source)
  /\ UNCHANGED <<rowVars, leaseVars, outcomeVars, retired, elapsed, browser>>

\* Faulty: every session past its TTL is expired at once.
ExpiredAtOnce == {s \in elapsed : status[s] \in Live}

\* Reservations that never got a provider id are expired on the spot.
ExpiredReservations == {s \in elapsed : status[s] = "starting"}

\* Faulty: a stop that was once tried is not tried again.
ClaimableOnce == {s \in elapsed \cap bound : status[s] = "active" /\ s \notin leased}

\* Active sessions are made ending in the same transaction, so both count.
Claimable ==
  {s \in elapsed \cap bound : status[s] \in {"active", "ending"} /\ s \notin leased}

\* One transaction of the TTL loop of process p, which runs only after every
\* worker of its previous batch is joined.
ClaimExpired(p) ==
  LET Worker(t, batch) == t.kind = "reap" /\ t.proc = p /\ t.session \in batch IN
  /\ \A t \in Tasks : Worker(t, Sessions) => pc[t] = "idle"
  /\ \E batch \in SUBSET Claimable :
       /\ Cardinality(batch) <= StopConcurrency
       /\ batch = Claimable \/ Cardinality(batch) = StopConcurrency
       /\ lease' = [s \in Sessions |-> IF s \in batch THEN p ELSE lease[s]]
       /\ leased' = leased \cup batch
       /\ pc' = [t \in Tasks |-> IF Worker(t, batch) THEN "claimed" ELSE pc[t]]
       /\ has' = {t \in Tasks : IF Worker(t, batch) THEN t.session \in source ELSE t \in has}
  /\ status' = [s \in Sessions |->
                  IF s \in ExpiredReservations THEN "expired"
                  ELSE IF s \in elapsed /\ status[s] = "active" THEN "ending" ELSE status[s]]
  /\ recording' = [s \in Sessions |->
                     IF s \in ExpiredReservations /\ recording[s] = "recording"
                     THEN "failed" ELSE recording[s]]
  /\ UNCHANGED <<bound, source, resolve, store, billed, retired, elapsed, browser>>

\* Under the gate the worker checks that its claim is still current.
CheckClaim(t) ==
  LET s == t.session IN
  /\ pc[t] = "claimed"
  /\ GateFree(t.proc, s)
  /\ \/ /\ status[s] = "ending" /\ lease[s] = t.proc /\ s \in leased
        /\ Goto(t, "stop")
     \/ /\ ~(status[s] = "ending" /\ lease[s] = t.proc /\ s \in leased)
        /\ Goto(t, "idle")
  /\ UNCHANGED <<rowVars, leaseVars, outcomeVars, retired, elapsed, browser, has>>

-----------------------------------------------------------------------------
(* Stopping a browser and settling its session, the path all tasks share *)

\* Faulty: a creation that failed skips the final bill.
StopUnbilled(t) ==
  /\ pc[t] = "stop"
  /\ browser[t.session] \in {"running", "stopped"}
  /\ browser' = [browser EXCEPT ![t.session] = "stopped"]
  /\ Goto(t, IF t.kind = "create" THEN "finalize" ELSE "remember")
  /\ UNCHANGED <<rowVars, leaseVars, outcomeVars, retired, elapsed, has>>

\* stop_browser_confirmed returns a terminal snapshot: the browser is stopped,
\* by this request or before it.
StopConfirmed(t) ==
  /\ pc[t] = "stop"
  /\ browser[t.session] \in {"running", "stopped"}
  /\ browser' = [browser EXCEPT ![t.session] = "stopped"]
  /\ Goto(t, "remember")
  /\ UNCHANGED <<rowVars, leaseVars, outcomeVars, retired, elapsed, has>>

\* Faulty: an unproven stop is taken for one.
StopAssumed(t) ==
  /\ pc[t] = "stop"
  /\ Goto(t, "remember")
  /\ UNCHANGED <<rowVars, leaseVars, outcomeVars, retired, elapsed, browser, has>>

\* No proof of the stop came back.  The stop itself may have happened:
\* BrowserStops.
StopUnconfirmed(t) ==
  /\ pc[t] = "stop"
  /\ Fail(t)
  /\ UNCHANGED <<rowVars, outcomeVars, retired, elapsed, browser, has>>

\* The terminal snapshot carries a recording URL, or not yet.
RememberSource(t) ==
  /\ pc[t] = "remember"
  /\ \E known \in Answers :
       /\ source' = IF known THEN source \cup {t.session} ELSE source
       /\ Learn(t, known \/ t \in has)
  /\ Goto(t, "usage")
  /\ UNCHANGED <<status, bound, leaseVars, outcomeVars, retired, elapsed, browser>>

\* record_terminal_usage: a settled session keeps the bill it has.
RecordTerminalUsage(t) ==
  LET s == t.session
      next == IF t.kind = "create" THEN "finalize" ELSE "record" IN
  /\ pc[t] = "usage"
  /\ \/ status[s] \in Terminal /\ Goto(t, next) /\ UNCHANGED <<billed, leaseVars>>
     \/ /\ status[s] \in {"starting", "ending"}
        /\ billed' = billed \cup {s}
        /\ Goto(t, next)
        /\ UNCHANGED leaseVars
     \/ status[s] = "active" /\ Fail(t) /\ UNCHANGED billed
  /\ UNCHANGED <<rowVars, recording, resolve, store, retired, elapsed, browser, has>>

Settling == {"ending", "ended", "expired", "failed"}

\* The guard of mark_recording_pending, which needs the source, or of
\* queue_recording_source_resolution, which needs it missing.
Recordable(t) ==
  LET s == t.session IN
  /\ recording[s] \in {"recording", "pending"}
  /\ status[s] \in Settling
  /\ IF t \in has THEN s \in source ELSE s \in bound \ source

\* Faulty: a recording without a source waits for nothing.
EnqueueWithoutIntent(t) ==
  /\ pc[t] = "record"
  /\ Recordable(t)
  /\ recording' = [recording EXCEPT ![t.session] = "pending"]
  /\ store' = IF t \in has THEN store \cup {t.session} ELSE store
  /\ Goto(t, "finalize")
  /\ UNCHANGED <<rowVars, leaseVars, resolve, billed, retired, elapsed, browser, has>>

\* The recording becomes pending together with the intent to store it or to
\* find its source; anything else is an error.
EnqueueRecording(t) ==
  LET s == t.session IN
  /\ pc[t] = "record"
  /\ \/ /\ Recordable(t)
        /\ recording' = [recording EXCEPT ![s] = "pending"]
        /\ store' = IF t \in has THEN store \cup {s} ELSE store
        /\ resolve' = IF t \in has THEN resolve ELSE resolve \cup {s}
        /\ Goto(t, "finalize")
        /\ UNCHANGED leaseVars
     \/ ~Recordable(t) /\ Fail(t) /\ UNCHANGED <<recording, store, resolve>>
  /\ UNCHANGED <<rowVars, billed, retired, elapsed, browser, has>>

\* A row left recording by an earlier step becomes pending.
SettleRecording(s) ==
  recording' = IF recording[s] = "recording"
               THEN [recording EXCEPT ![s] = "pending"] ELSE recording

\* finalize_end_session, idempotent on ended.
FinalizeEnd(t) ==
  LET s == t.session IN
  /\ t.kind = "end" /\ pc[t] = "finalize"
  /\ \/ /\ status[s] \in {"ending", "ended"}
        /\ status' = [status EXCEPT ![s] = "ended"]
        /\ SettleRecording(s)
     \/ status[s] \notin {"ending", "ended"} /\ UNCHANGED <<status, recording>>
  /\ Goto(t, "idle")
  /\ UNCHANGED <<bound, source, leaseVars, resolve, store, billed, retired, elapsed, browser, has>>

\* finalize_expired_session: only the holder of the claim settles the row.
FinalizeExpired(t) ==
  LET s == t.session
      mine == status[s] = "ending" /\ s \in elapsed /\ lease[s] = t.proc IN
  /\ t.kind = "reap" /\ pc[t] = "finalize"
  /\ \/ /\ mine \/ status[s] = "expired"
        /\ status' = [status EXCEPT ![s] = "expired"]
        /\ SettleRecording(s)
        /\ Goto(t, "idle")
        /\ UNCHANGED leaseVars
     \/ ~mine /\ status[s] # "expired" /\ Fail(t) /\ UNCHANGED <<status, recording>>
  /\ UNCHANGED <<bound, source, resolve, store, billed, retired, elapsed, browser, has>>

\* finalize_failed_session_after_stop: one transaction releases the slot and
\* keeps an intent for the recording.
FinalizeFailed(t) ==
  LET s == t.session IN
  /\ t.kind = "create" /\ pc[t] = "finalize"
  /\ \/ /\ status[s] \in Live \cup {"failed"}
        /\ status' = [status EXCEPT ![s] = "failed"]
        /\ bound' = IF status[s] \in Live THEN bound \cup {s} ELSE bound
        /\ recording' = IF recording[s] \in {"recording", "pending"}
                        THEN [recording EXCEPT ![s] = "pending"] ELSE recording
        /\ store' = IF t \in has THEN store \cup {s} ELSE store
        /\ resolve' = IF t \in has THEN resolve ELSE resolve \cup {s}
     \/ /\ status[s] \notin Live \cup {"failed"}
        /\ UNCHANGED <<status, bound, recording, store, resolve>>
  /\ Goto(t, "idle")
  /\ UNCHANGED <<source, leaseVars, billed, retired, elapsed, browser, has>>

\* Faulty: the sessions of the profile are not looked at.
EndAnyProfile(p) ==
  /\ retired' = retired \cup {p}
  /\ UNCHANGED <<rowVars, leaseVars, outcomeVars, elapsed, browser, taskVars>>

\* end_profile refuses while any session of the profile is live.
EndProfile(p) ==
  /\ SlotFree(p)
  /\ retired' = retired \cup {p}
  /\ UNCHANGED <<rowVars, leaseVars, outcomeVars, elapsed, browser, taskVars>>

-----------------------------------------------------------------------------

Creation(t) ==
  \/ Reserve(t) \/ StartRejected(t) \/ StartSucceeds(t) \/ StartAmbiguous(t)
  \/ FindBrowser(t) \/ FailSession(t)
  \/ Activate(t) \/ ActivateMisses(t) \/ KeepLateRuntime(t) \/ RetainRuntime(t)

Settlement(t) ==
  \/ StopConfirmed(t) \/ StopUnconfirmed(t) \/ RememberSource(t)
  \/ RecordTerminalUsage(t) \/ EnqueueRecording(t)
  \/ FinalizeEnd(t) \/ FinalizeExpired(t) \/ FinalizeFailed(t)

Next ==
  \/ \E t \in Tasks :
       \/ Creation(t) \/ BeginEnd(t) \/ EndRuntime(t) \/ CheckClaim(t)
       \/ Settlement(t) \/ ReapError(t) \/ Abandon(t)
  \/ \E p \in Procs : ClaimExpired(p)
  \/ \E s \in Sessions :
       TtlElapses(s) \/ LeaseLapses(s) \/ ProviderCreates(s) \/ BrowserStops(s)
  \/ \E p \in Profiles : EndProfile(p)

Spec == Init /\ [][Next]_vars
=============================================================================
