------------------------------ MODULE Sharing ------------------------------
(***************************************************************************)
(* Who may use a profile and see its sessions.  A handler of the server    *)
(* reads the store, waits for Accounts or for the browser provider, and    *)
(* then writes in one transaction; the handlers of two requests interleave *)
(* at those points.  People are accounts; an id is the spelling of a       *)
(* person's account id in the store, "old" before the id cutover of        *)
(* Accounts and "new" after it (module AccountCutover).  A person who is   *)
(* signed in acts under the new id: introspection accepts no other.  How a *)
(* browser is started and stopped is module SessionLifecycle's business.   *)
(***************************************************************************)
EXTENDS Naturals, FiniteSets

CONSTANTS
  People,
  Owner,       \* the person who created the profile
  Sessions,
  OnProfile,   \* the sessions of the profile; the others are incognito
  Slots,       \* handlers at work at a time
  MaxRequests, \* bound: handlers begun
  None

ASSUME SharingAssumption ==
  /\ Owner \in People
  /\ OnProfile \subseteq Sessions
  /\ MaxRequests \in Nat
  /\ None \notin People \cup Sessions

VARIABLES
  profile,  \* row of profiles: owner, access list, status
  granted,  \* whom the owner last said may use the profile
  session,  \* rows of sessions, with their participants
  links,    \* sessions for which a live link was handed out
  handler,  \* what each slot is doing
  begun     \* handlers begun so far

storeVars == <<profile, granted, session, links>>
workVars == <<handler, begun>>
sharingVars == <<storeVars, workVars>>

Ids == People \X {"old", "new"}
New(p) == <<p, "new">>
Person(id) == id[1]

Live == {"starting", "active", "ending"}
Free == [op |-> "free"]

Absent == [status |-> "absent", late |-> FALSE, participants |-> {}]   \* no row yet

SharingInit ==
  /\ \E spelling \in {"old", "new"} :
       profile = [owner |-> <<Owner, spelling>>, status |-> "active",
                  access |-> {<<p, spelling>> : p \in People}]
  /\ granted = People
  /\ session = [s \in Sessions |-> Absent]
  /\ links = {}
  /\ handler = [q \in Slots |-> Free]
  /\ begun = 0

-----------------------------------------------------------------------------

Working(q, op) == handler[q].op = op

Start(q, work) ==
  /\ Working(q, "free")
  /\ begun < MaxRequests
  /\ begun' = begun + 1
  /\ handler' = [handler EXCEPT ![q] = work]

(* A request that is one statement or one transaction. *)
Serve == begun < MaxRequests /\ begun' = begun + 1 /\ UNCHANGED handler

Continue(q, work) == handler' = [handler EXCEPT ![q] = work] /\ UNCHANGED begun
Done(q) == Continue(q, Free)

Allowed(p) == New(p) \in profile.access
Owns(p) == New(p) = profile.owner

(* session_visible: participants, then whoever the profile is shared with, *)
(* whatever has become of either since.                                    *)
Visible(s, p) ==
  /\ session[s].status # "absent"
  /\ New(p) \in session[s].participants \/ (s \in OnProfile /\ Allowed(p))

\* What provider_runtime and a refresh of the usage need.
Running(s) == session[s].status = "active"

-----------------------------------------------------------------------------
(* The profile. *)

\* resolve_access: the ids of the people named, as Accounts knows them.
Granted(people) == {New(p) : p \in people}

(* update_profile up to the resolved access list, or None for a new name    *)
(* alone; handles are resolved to people now, a new name goes to the        *)
(* provider first and needs an active profile.                              *)
BeginUpdate(q, p, people) ==
  /\ Allowed(p) /\ Owns(p)
  /\ people = None => profile.status = "active"
  /\ Start(q, [op |-> "update", by |-> p, people |-> people, read |-> profile.access])
  /\ UNCHANGED storeVars

FaultyWriteUpdate(q) ==   \* mutant: a new name writes back the list it read
  /\ Working(q, "update")
  /\ Owns(handler[q].by) /\ profile.status = "active"
  /\ LET people == handler[q].people IN
       /\ profile' = [profile EXCEPT !.access =
            IF people = None THEN handler[q].read
            ELSE Granted(people) \cup {profile.owner}]
       /\ granted' = IF people = None THEN granted ELSE people \cup {Person(profile.owner)}
  /\ Done(q)
  /\ UNCHANGED <<session, links>>

(* Store::update_profile: owner and status again, and the access list of the *)
(* row if the request brought none.                                          *)
WriteUpdate(q) ==
  /\ Working(q, "update")
  /\ Owns(handler[q].by) /\ profile.status = "active"
  /\ LET people == handler[q].people IN
       IF people = None THEN UNCHANGED <<profile, granted>>
       ELSE /\ profile' = [profile EXCEPT !.access = Granted(people) \cup {profile.owner}]
            /\ granted' = people \cup {Person(profile.owner)}
  /\ Done(q)
  /\ UNCHANGED <<session, links>>

Busy == \E s \in OnProfile : session[s].status \in Live

EndProfile(p) ==
  /\ Owns(p) /\ ~Busy
  /\ profile.status = "active"
  /\ profile' = [profile EXCEPT !.status = "ended"]
  /\ Serve
  /\ UNCHANGED <<granted, session, links>>

-----------------------------------------------------------------------------
(* Sessions. *)

(* create_session looks for the provider's profile first ... *)
BeginCreate(q, p, s) ==
  /\ session[s].status = "absent"
  /\ s \in OnProfile => Allowed(p) /\ profile.status = "active"
  /\ Start(q, [op |-> "reserve", by |-> p, session |-> s])
  /\ UNCHANGED storeVars

(* ... and reserve_session looks at it again with the slot of the profile. *)
Reserve(q) ==
  /\ Working(q, "reserve")
  /\ LET s == handler[q].session  p == handler[q].by IN
       /\ session[s].status = "absent"
       /\ s \in OnProfile => profile.status = "active" /\ Allowed(p) /\ ~Busy
       /\ session' = [session EXCEPT ![s] =
            [status |-> "starting", late |-> FALSE, participants |-> {New(p)}]]
  /\ Continue(q, [op |-> "start", session |-> handler[q].session])
  /\ UNCHANGED <<profile, granted, links>>

(* The browser started and is active, or did not and the session failed. *)
Started(q, status) ==
  /\ Working(q, "start")
  /\ LET s == handler[q].session IN
       IF session[s].status = "starting"
       THEN session' = [session EXCEPT ![s].status = status]
       ELSE UNCHANGED session
  /\ Done(q)
  /\ UNCHANGED <<profile, granted, links>>

TtlElapses(s) ==
  /\ session[s].status \in {"starting", "active"}
  /\ ~session[s].late
  /\ session' = [session EXCEPT ![s].late = TRUE]
  /\ UNCHANGED <<profile, granted, links, workVars>>

(* end_session looks twice whether the caller sees the session ... *)
BeginEnd(q, p, s) ==
  /\ Visible(s, p)
  /\ Start(q, [op |-> "end", session |-> s])
  /\ UNCHANGED storeVars

(* ... begin_end_session, which also joins an end under way ... *)
ClaimEnd(q) ==
  /\ Working(q, "end")
  /\ LET s == handler[q].session IN
       /\ session[s].status \in {"active", "ending"}
       /\ session' = [session EXCEPT ![s].status = "ending"]
       /\ Continue(q, [op |-> "stop", session |-> s])
  /\ UNCHANGED <<profile, granted, links>>

(* ... as the reaper does for an overdue session.  The browser is stopped  *)
(* and billed in module UsageLedger; then the session is finalized.        *)
Reap(q, s) ==
  /\ session[s].late /\ session[s].status \in {"active", "ending"}
  /\ session' = [session EXCEPT ![s].status = "ending"]
  /\ Start(q, [op |-> "stop", session |-> s])
  /\ UNCHANGED <<profile, granted, links>>

Finalize(q) ==
  /\ Working(q, "finalize")
  /\ LET s == handler[q].session IN
       IF session[s].status = "ending"
       THEN session' = [session EXCEPT ![s].status = "ended"]
       ELSE UNCHANGED session
  /\ Done(q)
  /\ UNCHANGED <<profile, granted, links>>

-----------------------------------------------------------------------------
(* Live links. *)

(* live_session seals the session and its expiry for whoever gets the link. *)
IssueLink(p, s) ==
  /\ Visible(s, p)
  /\ session[s].status \in Live      \* SessionStatus::Active
  /\ links' = links \cup {s}
  /\ Serve
  /\ UNCHANGED <<profile, granted, session>>

\* associate_participant: once a viewer, always one.
Associate(s, p) == session' = [session EXCEPT ![s].participants = @ \cup {New(p)}]

(* redeem_live_session: an unexpired grant makes its bearer a viewer; then *)
(* provider_runtime hands out the live URL, if the session is still active. *)
Redeem(p, s) ==
  /\ s \in links
  /\ ~session[s].late /\ Running(s)
  /\ Associate(s, p)
  /\ Serve
  /\ UNCHANGED <<profile, granted, links>>

(* The request is refused where it stands, fails or is dropped. *)
Refuse(q) ==
  /\ ~Working(q, "free")
  /\ Done(q)
  /\ UNCHANGED storeVars

(* The process dies; the store is what was committed. *)
Restart ==
  /\ handler' = [q \in Slots |-> Free]
  /\ UNCHANGED <<begun, storeVars>>

SharingStep ==
  \/ \E q \in Slots :
       \/ WriteUpdate(q) \/ Reserve(q) \/ ClaimEnd(q) \/ Finalize(q) \/ Refuse(q)
       \/ \E status \in {"active", "ended"} : Started(q, status)
       \/ \E s \in Sessions : Reap(q, s)
       \/ \E p \in People :
            \/ \E people \in (SUBSET People) \cup {None} : BeginUpdate(q, p, people)
            \/ \E s \in Sessions : BeginCreate(q, p, s) \/ BeginEnd(q, p, s)
  \/ \E p \in People : EndProfile(p) \/ \E s \in Sessions : IssueLink(p, s) \/ Redeem(p, s)
  \/ \E s \in Sessions : TtlElapses(s)
  \/ Restart
=============================================================================
