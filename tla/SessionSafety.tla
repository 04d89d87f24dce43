--------------------------- MODULE SessionSafety ---------------------------
(***************************************************************************)
(* What the session lifecycle must guarantee, over SessionLifecycle.       *)
(***************************************************************************)
EXTENDS SessionLifecycle

IsLive(s) == status[s] \in Live
IsOver(s) == status[s] \in Terminal

-----------------------------------------------------------------------------
(* The slot of a profile *)

\* A remote browser the store knows of runs only while its session is live:
\* no path, whatever crashes or races it, releases the profile slot before
\* the provider confirmed the stop (recover_failed_session_start,
\* stop_browser_confirmed, finalize_end_session).
KnownBrowserHoldsSlot ==
  \A s \in bound : browser[s] \in {"requested", "running"} => IsLive(s)

\* A profile never has two known remote browsers running at once, across
\* retries, reaping and failed starts.
KnownBrowsersExclusive ==
  \A s, o \in bound :
    /\ s # o /\ ProfileOf[s] = ProfileOf[o] /\ ProfileOf[s] # Incognito
    => ~(browser[s] = "running" /\ browser[o] = "running")

\* A profile with a live session is not ended under it: end_profile and
\* reserve_session check each other's rows.
LiveProfileNotRetired ==
  \A s \in Sessions : IsLive(s) => ProfileOf[s] \notin retired

\* A session that waits for its browser to be stopped can be claimed by the
\* reaper, which skips rows without a provider id: none is stuck in ending.
EndingIsReapable ==
  \A s \in Sessions : status[s] \in {"active", "ending"} => s \in bound

-----------------------------------------------------------------------------
(* What a settled session keeps *)

\* A session whose browser was known is settled only after its terminal bill
\* was stored: no interleaving of a failed start, an end and the reaper
\* drops it.
FinalBillKept == \A s \in bound : IsOver(s) => s \in billed

\* Its recording is not lost either: it is pending, with a known source or an
\* intent to resolve it.
RecordingKept ==
  \A s \in bound : IsOver(s) =>
    /\ recording[s] = "pending"
    /\ s \in source \/ s \in resolve

\* A storage intent is only ever queued for a recording with a source.
StoreHasSource == store \subseteq source

-----------------------------------------------------------------------------
(* Exclusion of stops *)

\* At most one reaper worker is past its claim check, over all processes
\* (expired_claim_is_current), as long as an attempt ends before its lease.
OneWorkerPerSession ==
  \A t, u \in Tasks :
    /\ t.kind = "reap" /\ u.kind = "reap" /\ t.session = u.session
    /\ pc[t] \notin {"idle", "claimed"} /\ pc[u] \notin {"idle", "claimed"}
    => t = u

-----------------------------------------------------------------------------
(* Steps *)

\* A settled session is never revived or settled differently, and the remote
\* browser a row names is never forgotten or added afterwards.
SettledForGood ==
  [][\A s \in Sessions : IsOver(s) =>
       /\ status'[s] = status[s]
       /\ s \in bound' <=> s \in bound]_vars

-----------------------------------------------------------------------------
(* The slot of a profile, as promised by ProfileSlot *)

Held  == {s \in Sessions : IsLive(s)}
Opened  == {s \in bound : browser[s] = "running"}
Spent == {s \in Sessions : IsOver(s)}

Slot == INSTANCE ProfileSlot WITH held <- Held, open <- Opened, spent <- Spent

\* Every step of the lifecycle is a step of the slot of its profile: acquire,
\* open, close, release, in that order.
SlotSpec == Slot!Spec

-----------------------------------------------------------------------------
(* What the service hopes for and cannot ensure *)

\* claim_expired_sessions holds that provider-less reservations are safe to
\* expire immediately: that no remote browser of theirs is left running.
ProviderlessExpirySafe ==
  \A s \in Sessions : status[s] = "expired" => browser[s] # "running"

-----------------------------------------------------------------------------
(* Progress *)

\* A creation that is under way takes a step: it succeeds in one, fails in one
\* or is abandoned.  Provider requests and database calls time out.
CreationMoves(t) ==
  t.kind = "create" /\ pc[t] # "idle" /\ (Creation(t) \/ Settlement(t) \/ Abandon(t))

\* Time passes, leases run out, the TTL loop ticks, every creation moves, and
\* the end handlers and reaper workers, which may fail at a stage again and
\* again, do not do so forever.
Fairness ==
  /\ \A s \in Sessions : WF_vars(TtlElapses(s)) /\ WF_vars(LeaseLapses(s))
  /\ \A p \in Procs : SF_vars(ClaimExpired(p))
  /\ \A t \in {u \in Tasks : u.kind = "create"} : WF_vars(CreationMoves(t))
  /\ \A t \in {u \in Tasks : u.kind # "create"} :
       /\ SF_vars(EndRuntime(t) \/ CheckClaim(t))
       /\ SF_vars(StopConfirmed(t)) /\ SF_vars(RememberSource(t))
       /\ SF_vars(RecordTerminalUsage(t)) /\ SF_vars(EnqueueRecording(t))
       /\ SF_vars(FinalizeEnd(t) \/ FinalizeExpired(t))

\* Every reservation is settled in the end: neither a crash, a lost answer nor
\* a stuck handler holds the slot of a profile forever.
SlotEventuallyReleased ==
  \A s \in Sessions : IsLive(s) ~> IsOver(s)

-----------------------------------------------------------------------------
(* The inductive invariants behind the safety properties: what each stage *)
(* of a task may rely on.                                                  *)

\* Stages a creation only reaches once the provider named its browser.
Named == {"activate", "adopt", "late", "lateAdopted", "retain",
          "stop", "remember", "usage", "record", "finalize"}

\* Stages from the request to stop on, and those after its confirmation.
Stopping  == {"stop", "remember", "usage", "record", "finalize"}
Confirmed == Stopping \ {"stop"}

\* Stages before the provider answered the creation.
Waiting == {"starting", "finding", "rejected"}

Started(s) == browser[s] \in {"running", "stopped"}

\* A session without a row has left no trace anywhere.
RowFirst ==
  \A s \in Sessions : status[s] = "none" =>
    /\ s \notin bound /\ browser[s] = "none"
    /\ \A t \in Tasks : t.session = s => pc[t] = "idle"

\* The runtime of a session is stored once its browser started, and together
\* with a status other than starting.
BoundStarted ==
  \A s \in bound : Started(s) /\ status[s] # "starting"

EachStage ==
  \A t \in Tasks :
    LET s == t.session IN
    /\ pc[t] = "rejected" => browser[s] = "none"
    /\ t.kind = "create" /\ pc[t] \in Named => Started(s)
    /\ t.kind # "create" /\ pc[t] \in Stopping \cup {"claimed"} => s \in bound
    /\ pc[t] \in Confirmed => browser[s] = "stopped"
    /\ t.kind = "create" => pc[t] \notin {"begun", "claimed", "record"}
    /\ t.kind = "end"  => pc[t] \in {"idle", "begun"} \cup Stopping
    /\ t.kind = "reap" => pc[t] \in {"idle", "claimed"} \cup Stopping

\* The browser of a settled session is stopped, if its row names one.
SettledStopped == \A s \in bound : IsOver(s) => browser[s] = "stopped"

\* The unique index: one live session for each profile.
OneLivePerProfile ==
  \A s, o \in Sessions :
    /\ ProfileOf[s] = ProfileOf[o] /\ ProfileOf[s] # Incognito
    /\ IsLive(s) /\ IsLive(o)
    => s = o

\* The inductive invariant of the profile slot.
SlotInv ==
  /\ TypeOK
  /\ RowFirst
  /\ BoundStarted
  /\ EachStage
  /\ EndingIsReapable
  /\ SettledStopped
  /\ OneLivePerProfile
  /\ LiveProfileNotRetired

-----------------------------------------------------------------------------
(* What a settled session keeps *)

\* A session is reserved once, so one task creates it.
OneCreation ==
  \A t, u \in Tasks :
    /\ t.kind = "create" /\ u.kind = "create" /\ t.session = u.session
    /\ pc[t] # "idle" /\ pc[u] # "idle"
    => t = u

\* What a task that stops a browser believes of the recording source is true:
\* no later store of the runtime takes the source away.
KnowledgeTrue ==
  \A t \in has : pc[t] \in Stopping \cup {"claimed"} => t.session \in source

\* What a task has stored by the time it reaches a stage.
Prepared ==
  \A t \in Tasks :
    LET s == t.session IN
    /\ pc[t] \in {"record", "finalize"} => s \in billed \/ IsOver(s)
    /\ t.kind # "create" /\ pc[t] = "finalize" =>
         recording[s] = "pending" /\ (s \in source \/ s \in resolve)

\* The recording of a live session is still expected.
LiveRecording ==
  \A s \in Sessions : IsLive(s) => recording[s] \in {"recording", "pending"}

\* Nothing is stored for a session whose runtime may still be replaced.
StoreAfterStart == \A s \in store : status[s] \notin {"none", "starting"}

\* The inductive invariant of bills and recordings, on top of SlotInv.
OutcomeInv ==
  /\ OneCreation
  /\ KnowledgeTrue
  /\ Prepared
  /\ LiveRecording
  /\ StoreAfterStart
  /\ FinalBillKept
  /\ RecordingKept
  /\ StoreHasSource

-----------------------------------------------------------------------------
(* Exclusion of stops *)

\* A worker under way holds the lease of its session.
WorkerHoldsLease ==
  \A t \in Tasks : t.kind = "reap" /\ pc[t] # "idle" =>
    lease[t.session] = t.proc /\ t.session \in leased
=============================================================================
