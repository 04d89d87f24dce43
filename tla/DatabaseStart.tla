----------------------------- MODULE DatabaseStart -----------------------------
(***************************************************************************)
(* Which database a backend serves (store.rs, main.rs, account_uuids.rs).  *)
(* A file may hold records that an IAM release owns, records of an earlier *)
(* Accounts release under short account ids, and records of this release   *)
(* under UUIDs.  A start looks at the file before it opens it for writing, *)
(* migrates it and looks again before it serves; the offline cutover turns *)
(* short ids into UUIDs.  Releases are not kept from running at once.      *)
(***************************************************************************)
EXTENDS Naturals

CONSTANTS Starts   \* processes of this release

VARIABLES
  schema,    \* newest migration of the file; 0: there is no file
  rows,      \* <<table, whose>>: records it holds
  ledger,    \* the tables of the cutover: absent, empty, applied
  iam, older,  \* an IAM release, an earlier Accounts release: it is up
  pc, listed,  \* a start, and the schema it read before it migrates
  \* history
  together,  \* starts during whose migration another process migrated
  late,      \* servers under which another release wrote
  overlapped,  \* an IAM release was up while another release was
  strayed    \* a short id was written after the cutover

file == <<schema, rows, ledger>>
history == <<together, late, overlapped, strayed>>
vars == <<file, iam, older, pc, listed, history>>

Iam == "iam"
Short == "short"
Uuid == "uuid"
AuthorityTables == {"login_attempts"}        \* hold nothing but IAM state
OwnedTables == {"profiles", "discovery_log"}

Init ==
  /\ \/ schema = 0 /\ rows = {}
     \/ schema = 13 /\ \E t \in AuthorityTables \cup OwnedTables : rows = {<<t, Iam>>}
     \/ schema = 14 /\ rows \in SUBSET (OwnedTables \X {Short})
  /\ ledger = "absent"
  /\ iam = FALSE /\ older = FALSE
  /\ pc = [p \in Starts |-> "down"] /\ listed = [p \in Starts |-> 0]
  /\ together = {} /\ late = {} /\ overlapped = FALSE /\ strayed = FALSE

Goto(p, next) == pc' = [pc EXCEPT ![p] = next]

(* check_accounts_ownership *)
Checked == AuthorityTables \cup OwnedTables
Legacy ==
  \E row \in rows :
    /\ row[1] \in Checked
    /\ row[2] = Iam \/ (row[2] = Short /\ ~(schema >= 14 /\ ledger # "applied"))

-----------------------------------------------------------------------------
(* A start of this release (main.rs). *)

Preflight(p) ==
  /\ pc[p] = "down"
  /\ Goto(p, IF schema # 0 /\ Legacy THEN "refused" ELSE "checked")
  /\ UNCHANGED <<file, iam, older, listed, together, strayed, late>>

(* The migrations applied are read once and the missing ones run one by    *)
(* one, each in a transaction.                                             *)
List(p) ==
  /\ pc[p] = "checked"
  /\ listed' = [listed EXCEPT ![p] = schema]
  /\ together' = together \ {p}
  /\ Goto(p, "migrate")
  /\ UNCHANGED <<file, iam, older, strayed, late>>

Creates(p) == TRUE
Steps == {13, 14, 15}
Migrate(p) ==
  /\ pc[p] = "migrate" /\ listed[p] < 15
  /\ LET next == CHOOSE n \in Steps : n > listed[p] /\ \A m \in Steps : m > listed[p] => n <= m IN
       IF schema < next /\ (next = 15 => Creates(p))
       THEN /\ schema' = next /\ listed' = [listed EXCEPT ![p] = next]
            /\ ledger' = IF next = 15 /\ ledger = "absent" THEN "empty" ELSE ledger
            /\ together' = together \cup {q \in Starts \ {p} : pc[q] = "migrate"}
            /\ UNCHANGED <<rows, pc>>
       ELSE Goto(p, "failed") /\ UNCHANGED <<file, listed, together>>
  /\ UNCHANGED <<iam, older, strayed, late>>

FaultyRefuses == FALSE   \* mutant: it has been looked at before
Refuses == Legacy
Ensure(p) ==
  /\ pc[p] = "migrate" /\ listed[p] = 15
  /\ Goto(p, IF Refuses THEN "refused" ELSE "serving")
  /\ late' = late \ {p}
  /\ UNCHANGED <<file, iam, older, listed, together, strayed>>

Serve(p) ==
  /\ pc[p] = "serving"
  /\ \E t \in OwnedTables : rows' = rows \cup {<<t, Uuid>>}
  /\ UNCHANGED <<schema, ledger, iam, older, pc, listed, together, strayed, late>>

(* It stops or crashes, and is started again. *)
Stop(p) ==
  /\ pc[p] # "down" /\ Goto(p, "down")
  /\ UNCHANGED <<file, iam, older, listed, together, strayed, late>>

-----------------------------------------------------------------------------
(* The cutover (migrate_pool), one transaction, with a map of all short ids. *)

References == OwnedTables
Rekeyed(row) == IF row[1] \in References /\ row[2] = Short THEN <<row[1], Uuid>> ELSE row

(* When it is applied again it only checks. *)
Cutover ==
  /\ schema >= 14 /\ ~Legacy /\ ledger # "applied"
  /\ rows' = {Rekeyed(row) : row \in rows}
  /\ ledger' = "applied"
  /\ UNCHANGED <<schema, iam, older, pc, listed, together, strayed, late>>

-----------------------------------------------------------------------------
(* The other releases do not start on a file with migrations they do not   *)
(* know.                                                                   *)

Servers == {p \in Starts : pc[p] = "serving"}
Interrupted == {q \in Starts : pc[q] = "migrate"}

IamStarts ==
  /\ ~iam /\ schema <= 13
  /\ iam' = TRUE /\ schema' = 13
  /\ together' = IF schema = 13 THEN together ELSE together \cup Interrupted
  /\ UNCHANGED <<rows, ledger, older, pc, listed, strayed, late>>

IamWrites ==
  /\ iam
  /\ \E t \in AuthorityTables \cup OwnedTables : rows' = rows \cup {<<t, Iam>>}
  /\ late' = late \cup Servers
  /\ UNCHANGED <<schema, ledger, iam, older, pc, listed, together, strayed>>

IamStops == iam /\ iam' = FALSE /\ UNCHANGED <<file, older, pc, listed, together, strayed, late>>

OlderStarts ==
  /\ ~older /\ schema <= 14 /\ ~\E row \in rows : row[2] = Iam
  /\ older' = TRUE /\ schema' = 14
  /\ together' = IF schema = 14 THEN together ELSE together \cup Interrupted
  /\ UNCHANGED <<rows, ledger, iam, pc, listed, strayed, late>>

OlderWrites ==
  /\ older
  /\ \E t \in OwnedTables : rows' = rows \cup {<<t, Short>>}
  /\ strayed' = (strayed \/ ledger = "applied")
  /\ late' = late \cup Servers
  /\ UNCHANGED <<schema, ledger, iam, older, pc, listed, together>>

OlderStops == older /\ older' = FALSE /\ UNCHANGED <<file, iam, pc, listed, together, strayed, late>>

Observed == overlapped' = (overlapped \/ (iam' /\ (older' \/ \E p \in Starts : pc'[p] # "down")))

Step(p) == Preflight(p) \/ List(p) \/ Migrate(p) \/ Ensure(p) \/ Serve(p) \/ Stop(p)
Next ==
  /\ \/ \E p \in Starts : Step(p)
     \/ Cutover
     \/ IamStarts \/ IamWrites \/ IamStops
     \/ OlderStarts \/ OlderWrites \/ OlderStops
  /\ Observed

Spec == Init /\ [][Next]_vars

-----------------------------------------------------------------------------
TypeOK ==
  /\ schema \in {0, 13, 14, 15} /\ ledger \in {"absent", "empty", "applied"}
  /\ rows \subseteq (AuthorityTables \cup OwnedTables) \X {Iam, Short, Uuid}
  /\ together \subseteq Starts /\ late \subseteq Starts

HasIam == \E row \in rows : row[2] = Iam

(* A file with IAM state is not migrated, so that the release that owns it *)
(* can still open it, unless that release runs at the same time.           *)
(* (store.rs:262, store/accounts_tests.rs:3)                               *)
IamStillStarts == HasIam /\ ~overlapped => schema <= 13

(* A server serves no record that is not its own, whatever the other       *)
(* releases did to the file while it was started.  (main.rs:40)            *)
ServesOwned ==
  \A p \in Servers \ late :
    /\ ~HasIam
    /\ ledger = "applied" => ~\E row \in rows : row[2] = Short

(* A server can be started again: it is not refused for what it, an        *)
(* earlier release before the cutover, or the cutover itself has written.  *)
(* (store.rs:217-252)                                                      *)
Restarts == \A p \in Starts : pc[p] = "refused" => HasIam \/ strayed

(* A migration fails only because another process migrates at the same     *)
(* time, and not for what the cutover or a crash left.                     *)
(* (migrations/0015_account_uuid_rekeys.sql)                               *)
MigratesAlone == \A p \in Starts : pc[p] = "failed" => p \in together
=============================================================================
