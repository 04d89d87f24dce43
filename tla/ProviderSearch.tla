--------------------------- MODULE ProviderSearch ---------------------------
(***************************************************************************)
(* Looking for what a lost answer may have left at the browser provider    *)
(* (providers/browser.rs): a profile by our user id, among the rows a      *)
(* query matches, or a browser by our session id, through an exact filter. *)
(* The provider lists its rows in pages, and other requests add or remove  *)
(* rows between two pages.  The caller takes an empty answer as a proof    *)
(* that nothing was made, so every doubt must end in an error.             *)
(***************************************************************************)
EXTENDS Naturals, Sequences, FiniteSets, SequencesExt, FiniteSetsExt

CONSTANTS
  Ours, Others,  \* rows that carry the wanted key, and others the query matches
  PageSize,
  MaxPages,      \* pages the code reads at most
  MaxChanges,    \* bound: rows added or removed during a search
  None

Rows == Ours \cup Others
SearchAssumption ==
  /\ Ours \cap Others = {} /\ IsFiniteSet(Rows) /\ None \notin Rows \cup Nat
  /\ PageSize \in Nat \ {0} /\ MaxPages \in Nat \ {0}

VARIABLES
  kind,      \* "profile" or "browser"
  trend,     \* rows are only added, or only removed, while the search lasts
  listed,    \* the rows the provider matches now, in its order
  changes,
  there,     \* history: our rows that were listed when the search began and still are
  page,      \* next page to ask for
  expected,  \* total of the first page
  exact,     \* our rows seen so far
  outcome    \* "searching", "detail", "error", or the answer

provider == <<kind, trend, listed, changes, there>>
vars == <<provider, page, expected, exact, outcome>>

Init ==
  /\ kind \in {"profile", "browser"} /\ trend \in {"grows", "shrinks"}
  /\ listed \in {s \in UNION {[1..n -> Rows] : n \in 0..Cardinality(Rows)} : IsInjective(s)}
  /\ there = ToSet(listed) \cap Ours
  /\ changes = 0
  /\ page = 1 /\ expected = None /\ exact = {} /\ outcome = "searching"

Added ==
  /\ trend = "grows" /\ changes < MaxChanges
  /\ \E row \in Rows \ ToSet(listed), at \in 0..Len(listed) : listed' = InsertAt(listed, at + 1, row)
  /\ changes' = changes + 1
  /\ UNCHANGED <<kind, trend, there, page, expected, exact, outcome>>

Removed ==
  /\ trend = "shrinks" /\ changes < MaxChanges
  /\ \E at \in DOMAIN listed :
       /\ listed' = RemoveAt(listed, at)
       /\ there' = there \ {listed[at]}
  /\ changes' = changes + 1
  /\ UNCHANGED <<kind, trend, page, expected, exact, outcome>>

Pages(total) == LET n == (total + PageSize - 1) \div PageSize IN IF n = 0 THEN 1 ELSE n
Least(m, n) == IF m < n THEN m ELSE n
OnPage(total) == IF total > (page - 1) * PageSize THEN Least(total - (page - 1) * PageSize, PageSize) ELSE 0
Listed == SubSeq(listed, (page - 1) * PageSize + 1, (page - 1) * PageSize + OnPage(Len(listed)))

Fail ==
  /\ outcome = "searching" /\ outcome' = "error"
  /\ UNCHANGED <<provider, page, expected, exact>>

(* An error of the transport, or a page whose number, size, total or count *)
(* contradict each other.                                                  *)
BadPage == Fail

FaultyDoubtful == Pages(Len(listed)) > MaxPages   \* mutant: a total that changes between pages goes unnoticed
Doubtful ==
  \/ expected \notin {None, Len(listed)}
  \/ Pages(Len(listed)) > MaxPages

DoubtfulPage == Doubtful /\ Fail

Ambiguous(seen) ==
  \/ Cardinality(seen) > 1
  \/ kind = "browser" /\ ~(ToSet(Listed) \subseteq Ours)

Page ==
  /\ outcome = "searching" /\ ~Doubtful
  /\ LET seen == exact \cup (ToSet(Listed) \cap Ours) IN
       IF Ambiguous(seen) THEN Fail
       ELSE /\ expected' = Len(listed)
            /\ exact' = seen
            /\ IF page < Pages(Len(listed)) THEN page' = page + 1 /\ UNCHANGED outcome
               ELSE /\ outcome' = IF kind = "browser" /\ seen # {} THEN "detail"
                                  ELSE IF seen = {} THEN "absent" ELSE "found"
                    /\ UNCHANGED page
            /\ UNCHANGED provider

(* The browser is read once more, by its identity: it may be gone by now.  *)
Detail ==
  /\ outcome = "detail"
  /\ \/ outcome' = "error"
     \/ exact \subseteq ToSet(listed) /\ outcome' = "found"
  /\ UNCHANGED <<provider, page, expected, exact>>

Next == Added \/ Removed \/ BadPage \/ DoubtfulPage \/ Page \/ Detail
Spec == Init /\ [][Next]_vars

-----------------------------------------------------------------------------

TypeOK ==
  /\ ToSet(listed) \subseteq Rows /\ there \subseteq Ours
  /\ page \in 1..MaxPages
  /\ expected \in 0..Cardinality(Rows) \cup {None}
  /\ exact \subseteq Ours
  /\ outcome \in {"searching", "detail", "error", "absent", "found"}

(* The answer "nothing" is given only when none of our rows was listed     *)
(* all the time: a row cannot slip from a page not yet read to one already *)
(* read without the total changing, unless another row is added for it.    *)
(* The caller fails the reservation on that answer.                        *)
(* (browser.rs:335-405, 407-475; server.rs:878-884, 1074)                  *)
AbsentWasAbsent == outcome = "absent" => there = {}

(* The row that is found is the only one: two rows of ours that are listed *)
(* all the time are never answered with one of them.  (browser.rs:386-388, *)
(* 445-449)                                                                *)
FoundIsOnly == outcome = "found" => Cardinality(exact) = 1 /\ there \subseteq exact
=============================================================================
