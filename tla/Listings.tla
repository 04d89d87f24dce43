------------------------------ MODULE Listings ------------------------------
(***************************************************************************)
(* Listing sessions, recordings and usage, and showing one session         *)
(* (store.rs), filtered by the stages of a pipeline (shared/filter.rs),    *)
(* while the rows change.  A list of sessions is read from one snapshot in *)
(* two statements; a list of recordings and a single session are read in   *)
(* statements of their own, between which anything may be committed.       *)
(***************************************************************************)
EXTENDS Naturals, Sequences, FiniteSets

CONSTANTS
  People, Sessions,
  OnProfile,   \* the sessions of the profile; the others are incognito
  Names,
  Days,
  Texts,       \* filters that are asked for: sequences of stages
  MaxStages,   \* MAX_FILTER_STAGES
  MaxUsage,    \* bound: usage of a session
  MaxChanges,  \* bound: commits during one request
  None

ListingAssumption ==
  /\ OnProfile \subseteq Sessions
  /\ Days \subseteq Nat /\ MaxStages \in Nat /\ MaxUsage \in Nat /\ MaxChanges \in Nat

VARIABLES
  session,  \* rows of sessions, their participants and their usage
  shared,   \* access list of the profile
  request,  \* the request that is read for
  changes,  \* commits since the request began
  answers,  \* history: what the request could have been told since it began
  seen      \* history: the sessions its viewer could see since it began

vars == <<session, shared, request, changes, answers, seen>>

Absent == [status |-> "absent", owner |-> None, participants |-> {}, name |-> None, day |-> 0, usage |-> 0]
Exists(s) == session[s].status # "absent"
Live == {"starting", "active", "ending"}

-----------------------------------------------------------------------------
(* Filters.  A stage has a key and a value: a word, a person, or two days.  *)

Kinds == {"sessions", "recordings", "usage", "one"}
Facets(kind) ==
  CASE kind = "sessions" -> {"active", "ended", "expired", "incognito", "mine"}
    [] kind = "recordings" -> {"incognito", "mine", "shared"}
    [] OTHER -> {}

(* What the three parsers accept. *)
Supported(kind, stage) ==
  \/ stage.key = "is" /\ stage.word \in Facets(kind)
  \/ stage.key = "for" /\ stage.word \in People
  \/ stage.key = "name" /\ kind # "usage" /\ stage.word \in Names
  \/ stage.key = "profile" /\ kind = "recordings"
  \/ stage.key = "between" /\ kind = "usage" /\ stage.from <= stage.to

(* A blank filter is none; otherwise every stage counts. *)
Blank(text) == Len(text) <= 1 /\ \A i \in DOMAIN text : text[i].key = "blank"
Accepted(kind, text) ==
  Blank(text) \/ (Len(text) <= MaxStages /\ \A i \in DOMAIN text : Supported(kind, text[i]))

(* map_session_model *)
Status(row) ==
  IF row.status \in Live THEN "active" ELSE IF row.status = "failed" THEN "ended" ELSE row.status

IsParticipant(row, p) == p = row.owner \/ p \in row.participants

Mine(kind, row, p) == IF kind = "recordings" THEN row.owner = p ELSE IsParticipant(row, p)
For(kind, row, p) == IF kind = "usage" THEN p \in row.participants ELSE IsParticipant(row, p)

Holds(kind, stage, row, s, viewer) ==
  \/ stage.key = "for" /\ For(kind, row, stage.word)
  \/ stage.key = "name" /\ row.name = stage.word
  \/ stage.key = "profile" /\ s \in OnProfile
  \/ stage.key = "between" /\ row.day \in stage.from..stage.to
  \/ /\ stage.key = "is"
     /\ \/ stage.word = "incognito" /\ s \notin OnProfile
        \/ stage.word = "mine" /\ Mine(kind, row, viewer)
        \/ stage.word = "shared" /\ row.owner # viewer
        \/ stage.word \notin {"incognito", "mine", "shared"} /\ Status(row) = stage.word

Matches(kind, text, row, s, viewer) ==
  Blank(text) \/ \A i \in DOMAIN text : Holds(kind, text[i], row, s, viewer)

-----------------------------------------------------------------------------
(* What a request may be told.                                             *)

VisibleIn(rows, access, s, viewer) ==
  /\ rows[s].status # "absent"
  /\ viewer \in rows[s].participants \/ (s \in OnProfile /\ viewer \in access)

Shown(rows, s) ==
  [id |-> s, status |-> Status(rows[s]), participants |-> rows[s].participants, usage |-> rows[s].usage]

Listing(rows, access) ==
  {Shown(rows, s) : s \in {s \in Sessions :
     /\ VisibleIn(rows, access, s, request.viewer)
     /\ Matches(request.kind, request.text, rows[s], s, request.viewer)}}

Idle == [pc |-> "idle", kind |-> None, viewer |-> None, text |-> <<>>, snapshot |-> None,
         todo |-> {}, row |-> None, answer |-> {}]

Init ==
  /\ session = [s \in Sessions |-> Absent]
  /\ shared \in SUBSET People
  /\ request = Idle /\ changes = 0 /\ answers = {} /\ seen = {}

-----------------------------------------------------------------------------
(* Commits of other requests.                                              *)

Commit == (request.pc # "idle" => changes < MaxChanges) /\ changes' = IF request.pc = "idle" THEN 0 ELSE changes + 1
Write(s, row) == session' = [session EXCEPT ![s] = row] /\ Commit /\ UNCHANGED <<shared, request>>

Reserve(s, p, name, day) ==
  /\ ~Exists(s) /\ (s \in OnProfile => p \in shared)
  /\ Write(s, [status |-> "starting", owner |-> p, participants |-> {p}, name |-> name, day |-> day, usage |-> 0])

Associate(s, p) ==
  /\ session[s].status = "active"
  /\ VisibleIn(session, shared, s, p) /\ p \notin session[s].participants
  /\ Write(s, [session[s] EXCEPT !.participants = @ \cup {p}])

Advance(s, status) ==
  /\ <<session[s].status, status>> \in
       {<<"starting", "active">>, <<"starting", "failed">>, <<"active", "ending">>, <<"ending", "ended">>,
        <<"ending", "expired">>, <<"starting", "expired">>}
  /\ Write(s, [session[s] EXCEPT !.status = status])

RecordUsage(s) ==
  /\ session[s].status \in {"active", "ending"} /\ session[s].usage < MaxUsage
  /\ Write(s, [session[s] EXCEPT !.usage = @ + 1])

Share(people) ==
  /\ people # shared
  /\ shared' = people
  /\ Commit
  /\ UNCHANGED <<session, request>>

-----------------------------------------------------------------------------
(* Reading.                                                                *)

Read(r) == request' = r /\ UNCHANGED <<session, shared, changes>>
Answered(r, answer) == Read([r EXCEPT !.pc = "answered", !.answer = answer])

(* The filter is refused before anything is read. *)
Begin(kind, viewer, text) ==
  /\ request.pc = "idle" /\ kind # "one" /\ Accepted(kind, text)
  /\ request' = [Idle EXCEPT !.pc = "resolve", !.kind = kind, !.viewer = viewer, !.text = text]
  /\ changes' = 0
  /\ UNCHANGED <<session, shared>>

Ask(viewer, s) ==
  /\ request.pc = "idle"
  /\ request' = [Idle EXCEPT !.pc = "row", !.kind = "one", !.viewer = viewer, !.todo = {s}]
  /\ changes' = 0
  /\ UNCHANGED <<session, shared>>

(* Accounts looks up the people a filter names, or does not. *)
Resolve ==
  /\ request.pc = "resolve"
  /\ \/ Read([request EXCEPT !.pc = "rows"])
     \/ \E i \in DOMAIN request.text : request.text[i].key = "for" /\ Read(Idle)

(* visible_sessions_with_usage: rows, access list and usage ... *)
ReadRows ==
  /\ request.pc = "rows"
  /\ Read([request EXCEPT !.pc = "participants", !.snapshot = [rows |-> session, access |-> shared]])

(* ... and the participants, as of the same snapshot. *)
ReadParticipants ==
  /\ request.pc = "participants"
  /\ LET rows == request.snapshot.rows  access == request.snapshot.access IN
       IF request.kind = "recordings"
       THEN Read([request EXCEPT !.pc = "each", !.snapshot = None,
              !.todo = {s \in Sessions : VisibleIn(rows, access, s, request.viewer)}])
       ELSE Answered([request EXCEPT !.snapshot = None], Listing(rows, access))

(* recording_unchecked for each session of the list.  Of what it reads only *)
(* the participants may have changed since.                                *)
ReadRecording(s) ==
  /\ request.pc = "each" /\ s \in request.todo
  /\ Read([request EXCEPT !.todo = @ \ {s},
       !.answer = @ \cup (IF Matches("recordings", request.text, session[s], s, request.viewer)
                          THEN {Shown(session, s)} ELSE {})])

ListEnds == request.pc = "each" /\ request.todo = {} /\ Answered(request, request.answer)

(* session: the row; whether the viewer participates; whether the profile  *)
(* is shared with the viewer; the participants; the usage.                 *)
Asked(s) == request.todo = {s}
ReadRow(s) ==
  /\ request.pc = "row" /\ Asked(s)
  /\ IF Exists(s) THEN Read([request EXCEPT !.pc = "participant", !.row = session[s]])
     ELSE Answered(request, {})

CheckParticipant(s) ==
  /\ request.pc = "participant" /\ Asked(s)
  /\ IF request.viewer \in session[s].participants THEN Read([request EXCEPT !.pc = "actors"])
     ELSE IF s \in OnProfile THEN Read([request EXCEPT !.pc = "access"])
     ELSE Answered(request, {})

FaultyCheckAccess(s) ==   \* mutant: whoever took part when the row was read may see the session
  /\ request.pc = "access" /\ Asked(s)
  /\ Read([request EXCEPT !.pc = "actors"])
CheckAccess(s) ==
  /\ request.pc = "access" /\ Asked(s)
  /\ IF request.viewer \in shared THEN Read([request EXCEPT !.pc = "actors"])
     ELSE Answered(request, {})

ReadActors(s) ==
  /\ request.pc = "actors" /\ Asked(s)
  /\ Read([request EXCEPT !.pc = "usage", !.row.participants = session[s].participants])

ReadUsage(s) ==
  /\ request.pc = "usage" /\ Asked(s)
  /\ Answered(request, {[id |-> s, status |-> Status(request.row),
                         participants |-> request.row.participants, usage |-> session[s].usage]})

Done == request.pc = "answered" /\ Read(Idle)

-----------------------------------------------------------------------------

ReadOne(s) == ReadRow(s) \/ CheckParticipant(s) \/ CheckAccess(s) \/ ReadActors(s) \/ ReadUsage(s)

Step ==
  \/ \E s \in Sessions, p \in People, name \in Names, day \in Days : Reserve(s, p, name, day)
  \/ \E s \in Sessions, p \in People : Associate(s, p)
  \/ \E s \in Sessions, status \in {"active", "failed", "ending", "ended", "expired"} : Advance(s, status)
  \/ \E s \in Sessions : RecordUsage(s) \/ ReadRecording(s) \/ ReadOne(s)
  \/ \E people \in SUBSET People : Share(people)
  \/ \E kind \in Kinds, p \in People, text \in Texts : Begin(kind, p, text)
  \/ \E p \in People, s \in Sessions : Ask(p, s)
  \/ Resolve \/ ReadRows \/ ReadParticipants \/ ListEnds \/ Done

(* History: after every step, what a request could be told at once. *)
Observe ==
  IF request'.pc = "idle" THEN answers' = {} /\ seen' = {}
  ELSE /\ answers' = answers \cup {Listing(session, shared)'}
       /\ seen' = seen \cup {s \in Sessions : VisibleIn(session', shared', s, request'.viewer)}

Next == Step /\ Observe

Spec == Init /\ [][Next]_vars

-----------------------------------------------------------------------------

TypeOK ==
  /\ session \in [Sessions -> [status : {"absent", "starting", "active", "ending", "ended", "failed", "expired"},
                               owner : People \cup {None}, participants : SUBSET People,
                               name : Names \cup {None}, day : Days \cup {0}, usage : 0..MaxUsage]]
  /\ shared \subseteq People
  /\ request.kind \in Kinds \cup {None} /\ request.viewer \in People \cup {None} /\ request.todo \subseteq Sessions
  /\ changes \in 0..MaxChanges

AnswerIds == {shown.id : shown \in request.answer}

(* A list of sessions or of usage is what a single moment during the       *)
(* request would have shown, participants, status and usage included:      *)
(* nothing is listed that never was so, and nothing is missing.            *)
(* (store.rs:966-1008)                                                     *)
ListIsOneMoment ==
  request.pc = "answered" /\ request.kind \in {"sessions", "usage"} => request.answer \in answers

(* Nobody is shown a session, or the recording of one, that they could at  *)
(* no moment of the request see, whatever is committed between the         *)
(* statements that check it and those that read it.  (store.rs:1725-1751)  *)
ShownWasVisible == request.pc = "answered" => AnswerIds \subseteq seen

(* A list of recordings holds every recording that matched all the while.  *)
(* (store.rs:3349-3357)                                                    *)
RecordingsComplete ==
  request.pc = "answered" /\ request.kind = "recordings" =>
    {s \in Sessions : \A answer \in answers : \E shown \in answer : shown.id = s} \subseteq AnswerIds

(* What a stage says, whatever the service: nothing is listed that a stage *)
(* of the filter contradicts, because a stage the service does not know    *)
(* refuses the request instead of being passed over.  (filter.rs:119-133)  *)
Contradicts(stage, shown) ==
  \/ stage.key = "for" /\ stage.word \notin shown.participants
  \/ stage.key = "profile" /\ shown.id \notin OnProfile
  \/ stage.key = "name" /\ session[shown.id].name # stage.word
  \/ stage.key = "between" /\ session[shown.id].day \notin stage.from..stage.to
  \/ /\ stage.key = "is"
     /\ \/ stage.word \in {"active", "ended", "expired"} /\ shown.status # stage.word
        \/ stage.word = "incognito" /\ shown.id \in OnProfile
        \/ stage.word = "shared" /\ session[shown.id].owner = request.viewer
StagesObeyed ==
  request.pc = "answered" =>
    \A shown \in request.answer, i \in DOMAIN request.text : ~Contradicts(request.text[i], shown)
=============================================================================
