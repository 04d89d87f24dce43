----------------------------- MODULE ProviderCalls -----------------------------
(***************************************************************************)
(* What the backend concludes from the provider's answers: how an answer   *)
(* becomes an error (providers/error.rs, providers/browser.rs), what the   *)
(* handlers of create_session and end_session do with it, when a stop is   *)
(* proven, and what the client is told (server.rs).  The profile slot, its *)
(* expiry and the reaper are in SessionLifecycle; here one session is      *)
(* created and ended, over a network that loses, cuts and delays.          *)
(***************************************************************************)
EXTENDS Naturals, FiniteSets

CONSTANTS
  Own,       \* ids the provider may give to the browsers of this session
  Foreign,   \* ids of other browsers, for answers that name the wrong one
  MaxCalls,  \* bound: requests of the client
  None

ProviderCallsAssumption ==
  /\ Own \cap Foreign = {} /\ {None, "start"} \cap (Own \cup Foreign) = {}
  /\ MaxCalls \in Nat

VARIABLES
  remote,    \* provider: id -> "none", "active", "stopped"
  late,      \* provider: requests it accepted and has not carried out yet
  row,       \* the session's row
  handler,   \* the request that is handled
  client,    \* what the client asks for and was told
  reserved   \* history: rows reserved for the one creation the client wants

vars == <<remote, late, row, handler, client, reserved>>

Ids == Own \cup Foreign
Running == {id \in Own : remote[id] = "active"}

-----------------------------------------------------------------------------
(* Answers and what they are taken for.                                    *)

Refusals == {302, 401, 404, 409, 429}
Success(status) == status \in 200..299

(* A browser of an answer; runtime: its URLs are whole, missing or invalid. *)
Browser(id, status, runtime) == [id |-> id, status |-> status, runtime |-> runtime]
Garbage == Browser(None, "garbage", "bad")

Lost == [status |-> 0, size |-> "lost", body |-> Garbage]
Answer(status, size, body) == [status |-> status, size |-> size, body |-> body]

Error(class, status) == [class |-> class, status |-> status]
NoError == Error("none", 0)

(* json_response_with_limit *)
Classified(answer) ==
  CASE answer.size \in {"lost", "cut"} -> Error("transport", 0)
    [] answer.size \in {"declared_large", "large"} -> Error("invalid", 0)
    [] OTHER -> IF ~Success(answer.status) THEN Error("http", answer.status)
                ELSE IF answer.body = Garbage THEN Error("invalid", 0)
                ELSE NoError

FaultyMayHaveCommitted(error) ==   \* mutant: an answer that cannot be read is a refusal
  error.class = "transport" \/ (error.class = "http" /\ error.status \in 500..599)
MayHaveCommitted(error) ==
  error.class \in {"transport", "invalid"} \/ (error.class = "http" /\ error.status \in 500..599)

(* validate_provider_browser_session *)
ValidBrowser(body, requireUrls) ==
  /\ body.id \in Ids
  /\ body.status \in {"active", "stopped"}
  /\ requireUrls => body.status = "active" /\ body.runtime = "whole"
  /\ body.runtime # "bad"

(* validated_terminal_provider_session *)
Proven(body, id) == ValidBrowser(body, FALSE) /\ body.id = id /\ body.status = "stopped"

(* What the client is told of an error. *)
Public(error) ==
  [marked |-> FALSE,
   status |->
     CASE error.class = "input" -> 400
       [] error.class = "transport" -> 503
       [] error.class = "http" /\ error.status = 429 -> 429
       [] error.class = "store" -> error.status
       [] OTHER -> 502]

(* The extractor failed: only then a 401 is marked. *)
BeforeHandler(status) == [status |-> status, marked |-> status = 401]

-----------------------------------------------------------------------------
Idle == [op |-> "none", pc |-> "idle", sent |-> FALSE, answer |-> Lost, id |-> None, error |-> NoError]
Untold == [status |-> 0, marked |-> FALSE]

Init ==
  /\ remote = [id \in Ids |-> IF id \in Own THEN "none" ELSE "active"]
  /\ late = {}
  /\ row = [status |-> "none", id |-> None]
  /\ handler = Idle
  /\ client = [pc |-> "create", told |-> Untold, calls |-> 0, resent |-> FALSE]
  /\ reserved = 0

At(op, pc) == handler.op = op /\ handler.pc = pc
Goto(pc) == handler' = [handler EXCEPT !.pc = pc]
Fail(pc, error) == handler' = [handler EXCEPT !.pc = pc, !.error = error]
Tell(told) ==
  /\ handler' = Idle
  /\ client' = [client EXCEPT !.pc = IF handler.op = "create" THEN "told" ELSE "ended", !.told = told]

-----------------------------------------------------------------------------
(* The client.  It sends a request again once, if the answer is marked.    *)

Send(op) ==
  /\ handler = Idle /\ client.calls < MaxCalls
  /\ \/ op = "create" /\ client.pc = "create"
     \/ op = "create" /\ client.pc = "told" /\ client.told.marked /\ ~client.resent
     \/ op = "end" /\ client.pc \in {"told", "ended"} /\ row.status # "none"
  /\ handler' = [Idle EXCEPT !.op = op, !.pc = "scope"]
  /\ client' = [client EXCEPT !.pc = "waits", !.calls = @ + 1, !.resent = (op = "create" /\ client.pc = "told")]
  /\ UNCHANGED <<remote, late, row, reserved>>

(* Scope: the token is refused, or Accounts does not answer. *)
Unauthenticated ==
  /\ handler.pc = "scope"
  /\ \E status \in {400, 401, 403, 429, 500, 501, 502, 503} : Tell(BeforeHandler(status))
  /\ UNCHANGED <<remote, late, row, reserved>>

-----------------------------------------------------------------------------
(* create_session                                                          *)

Reserve ==
  /\ At("create", "scope")
  /\ row' = [status |-> "starting", id |-> None]
  /\ reserved' = reserved + 1
  /\ Goto("start")
  /\ UNCHANGED <<remote, late, client>>

(* The adapter refuses a request before it sends it (validate_browser_start). *)
RefuseLocally ==
  /\ At("create", "start") /\ ~handler.sent
  /\ Fail("refused", Error("input", 0))
  /\ UNCHANGED <<remote, late, row, client, reserved>>

(* The answer to a start. *)
Started ==
  /\ At("create", "start") /\ handler.sent
  /\ LET error == Classified(handler.answer)  body == handler.answer.body IN
       IF error = NoError
       THEN IF ValidBrowser(body, TRUE)
            THEN handler' = [handler EXCEPT !.pc = "activate", !.id = body.id]
            ELSE \* recover_failed_session_start, unless even the id is invalid
                 IF body.id \in Ids
                 THEN handler' = [handler EXCEPT !.pc = "stop", !.id = body.id, !.sent = FALSE, !.error = Error("invalid", 0)]
                 ELSE Fail("answer", Error("invalid", 0))
       ELSE Fail(IF MayHaveCommitted(error) THEN "find" ELSE "refused", error)
  /\ UNCHANGED <<remote, late, row, client, reserved>>

(* find_browser_by_session_id: a browser, none, or an error. *)
Find ==
  /\ At("create", "find")
  /\ \/ \E id \in Running, whole \in BOOLEAN :
          IF whole THEN handler' = [handler EXCEPT !.pc = "adopt", !.id = id]
          ELSE Fail("answer", Error("invalid", 0))
     \/ Running = {} /\ Goto("answer")
     \/ Goto("answer")
  /\ UNCHANGED <<remote, late, row, client, reserved>>

(* activate_session succeeds, or the row expired or cannot be written. *)
Activated ==
  /\ handler.op = "create" /\ handler.pc \in {"activate", "adopt"}
  /\ row' = [status |-> "active", id |-> handler.id]
  /\ Tell([status |-> 200, marked |-> FALSE])
  /\ UNCHANGED <<remote, late, reserved>>
NotActivated ==
  /\ handler.op = "create" /\ handler.pc \in {"activate", "adopt"}
  /\ \E status \in {409, 500} :
       IF handler.pc = "adopt" THEN Fail("answer", Error("store", status)) /\ UNCHANGED row
       ELSE /\ handler' = [handler EXCEPT !.pc = "stop", !.sent = FALSE, !.error = Error("store", status)]
            /\ row' \in {row, [status |-> "ending", id |-> handler.id]}   \* retain_session_runtime, or its failure
  /\ UNCHANGED <<remote, late, client, reserved>>

(* The provider refused: the row is given up, if that can be written. *)
GiveUp ==
  /\ At("create", "refused")
  /\ row' \in {row, [row EXCEPT !.status = "failed"]}
  /\ Goto("answer")
  /\ UNCHANGED <<remote, late, client, reserved>>

Reply ==
  /\ handler.pc = "answer"
  /\ Tell(Public(handler.error))
  /\ UNCHANGED <<remote, late, row, reserved>>

-----------------------------------------------------------------------------
(* end_session, and the stop after a failed start.                         *)

BeginEnd ==
  /\ At("end", "scope")
  /\ IF row.status \in {"active", "ending"}
     THEN /\ row' = [row EXCEPT !.status = "ending"]
          /\ handler' = [handler EXCEPT !.pc = "stop", !.id = row.id]
     ELSE Fail("answer", Error("store", 409)) /\ UNCHANGED row
  /\ UNCHANGED <<remote, late, client, reserved>>

(* A creation is answered with the error that made it stop the browser. *)
Answered(error) == IF handler.op = "create" THEN handler.error ELSE error

(* stop_browser_confirmed: the stop's answer, then perhaps a snapshot. *)
Stopped ==
  /\ handler.pc = "stop" /\ handler.sent
  /\ LET error == Classified(handler.answer) IN
       IF error = NoError
       THEN IF Proven(handler.answer.body, handler.id) THEN Goto("finalize")
            ELSE Fail("answer", Answered(Error("invalid", 0)))
       ELSE IF MayHaveCommitted(error) \/ (error.class = "http" /\ error.status \in {404, 409})
       THEN handler' = [handler EXCEPT !.pc = "snapshot", !.sent = FALSE, !.error = Answered(error)]
       ELSE Fail("answer", Answered(error))
  /\ UNCHANGED <<remote, late, row, client, reserved>>

Snapshot ==
  /\ handler.pc = "snapshot" /\ handler.sent
  /\ Goto(IF Classified(handler.answer) = NoError /\ Proven(handler.answer.body, handler.id)
          THEN "finalize" ELSE "answer")
  /\ UNCHANGED <<remote, late, row, client, reserved>>

(* Recording, usage and status; the request may die before they are written. *)
Finalize ==
  /\ handler.pc = "finalize"
  /\ \/ /\ row' = [row EXCEPT !.status = IF handler.op = "create" THEN "failed" ELSE "ended"]
        /\ IF handler.op = "create" THEN Goto("answer") /\ UNCHANGED client
           ELSE Tell([status |-> 200, marked |-> FALSE])
     \/ /\ Fail("answer", Answered(Error("store", 500)))
        /\ UNCHANGED <<row, client>>
  /\ UNCHANGED <<remote, late, reserved>>

-----------------------------------------------------------------------------
(* The provider and the network.  An answer is lost, cut, or too large at  *)
(* any time; a provider that refuses with a status below 500 did nothing.  *)

Sizes == {"small", "cut", "declared_large", "large"}
Receive(answers) == \E answer \in answers \cup {Lost} : handler' = [handler EXCEPT !.sent = TRUE, !.answer = answer]
With(statuses, body) == {Answer(status, size, body) : status \in statuses, size \in Sizes}
Bodies(id, status) == {Browser(id, status, runtime) : runtime \in {"whole", "missing", "bad"}}

Unasked(pc) == handler.pc = pc /\ ~handler.sent

ServeStart ==
  /\ Unasked("start") /\ handler.op = "create"
  /\ \/ \E id \in Own :      \* carried out
          /\ remote[id] = "none"
          /\ remote' = [remote EXCEPT ![id] = "active"]
          /\ Receive((UNION {With({200}, body) : body \in Bodies(id, "active") \cup {Garbage, Browser(id, "odd", "whole"), Browser(None, "active", "whole")}})
                       \cup With({500}, Garbage))
          /\ UNCHANGED late
     \/ /\ Receive(With(Refusals \cup {500}, Garbage))
        /\ UNCHANGED <<remote, late>>
     \/ /\ Receive({}) /\ late' = late \cup {"start"}      \* carried out after the handler stopped waiting
        /\ UNCHANGED remote
  /\ UNCHANGED <<row, client, reserved>>

(* What a provider says of a browser: the truth, or about another one. *)
Said(id, now) ==
  UNION {With({200}, body) : body \in Bodies(id, now) \cup {Garbage} \cup UNION {Bodies(other, remote[other]) : other \in Foreign}}

ServeStop ==
  /\ Unasked("stop")
  /\ \/ /\ remote' = [remote EXCEPT ![handler.id] = "stopped"]
        /\ Receive(Said(handler.id, "stopped")
             \cup With({500} \cup (IF remote[handler.id] = "stopped" THEN {404, 409} ELSE {}), Garbage))
        /\ UNCHANGED late
     \/ /\ Receive(With({401, 429, 500}, Garbage))
        /\ UNCHANGED <<remote, late>>
     \/ /\ Receive(Said(handler.id, remote[handler.id])) /\ late' = late \cup {handler.id}
        /\ UNCHANGED remote
  /\ UNCHANGED <<row, client, reserved>>

ServeGet ==
  /\ Unasked("snapshot")
  /\ Receive(Said(handler.id, remote[handler.id]) \cup With({404, 429, 500}, Garbage))
  /\ UNCHANGED <<remote, late, row, client, reserved>>

CarryOut ==
  /\ \/ \E id \in Own : "start" \in late /\ remote[id] = "none" /\ remote' = [remote EXCEPT ![id] = "active"]
                        /\ late' = late \ {"start"}
     \/ \E id \in Own : id \in late /\ remote' = [remote EXCEPT ![id] = "stopped"] /\ late' = late \ {id}
  /\ UNCHANGED <<row, handler, client, reserved>>

OthersStop(id) ==
  /\ remote[id] = "active"
  /\ remote' = [remote EXCEPT ![id] = "stopped"]
  /\ UNCHANGED <<late, row, handler, client, reserved>>

-----------------------------------------------------------------------------

Next ==
  \/ Send("create") \/ Send("end") \/ Unauthenticated
  \/ Reserve \/ RefuseLocally \/ Started \/ Find \/ Activated \/ NotActivated \/ GiveUp \/ Reply
  \/ BeginEnd \/ Stopped \/ Snapshot \/ Finalize
  \/ ServeStart \/ ServeStop \/ ServeGet \/ CarryOut
  \/ \E id \in Foreign : OthersStop(id)

Spec == Init /\ [][Next]_vars

-----------------------------------------------------------------------------
(* What the conclusions are good for. *)

TypeOK ==
  /\ remote \in [Ids -> {"none", "active", "stopped"}]
  /\ late \subseteq Own \cup {"start"}
  /\ row.status \in {"none", "starting", "active", "ending", "ended", "failed"} /\ row.id \in Own \cup {None}
  /\ client.calls \in 0..MaxCalls /\ reserved \in 0..MaxCalls

(* A session that failed has no browser left and gets none later: a start  *)
(* is taken for refused only if the provider did nothing, and a browser    *)
(* that did start is given up only after its stop was proven.              *)
(* (server.rs:1060, server.rs:1090, server.rs:1650)                        *)
FailedLeavesNothing == row.status = "failed" => Running = {} /\ "start" \notin late

(* An ended session's browser is stopped, however the stop's answer was    *)
(* lost, delayed, unreadable or about another browser.  (server.rs:1723)   *)
EndedIsStopped == row.status = "ended" => row.id \in Own /\ remote[row.id] = "stopped"

(* A client that sends a request again because its answer is marked as     *)
(* refused before the handler has one session reserved at most.            *)
(* (server.rs:1931, server.rs:643)                                         *)
ReservedOnce == reserved <= 1

(* A creation that is told it came too often has left no browser behind.   *)
(* (server.rs:2102)                                                        *)
TooManyLeavesNothing ==
  client.pc = "told" /\ client.told.status = 429 => Running = {} /\ "start" \notin late
=============================================================================
