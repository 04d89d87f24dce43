---------------------------- MODULE ProfileSlot ----------------------------
(***************************************************************************)
(* What the session lifecycle promises a profile: its one browser slot.    *)
(*                                                                         *)
(* A session acquires the slot of its profile, may then open one remote    *)
(* browser the service knows of, and gives the slot up only once that      *)
(* browser is closed.  A session holds the slot at most once.  Incognito   *)
(* sessions hold no profile and never exclude each other.                  *)
(***************************************************************************)
CONSTANTS Sessions,   \* session ids
          Incognito,  \* the "profile" of a session that uses none
          ProfileOf   \* the profile each session asks for

VARIABLES held,   \* sessions holding the slot of their profile
          open,   \* sessions whose known remote browser runs
          spent   \* sessions that gave their slot up

slotVars == <<held, open, spent>>

Init == held = {} /\ open = {} /\ spent = {}

Conflicts(s, o) == ProfileOf[s] # Incognito /\ ProfileOf[s] = ProfileOf[o]

Acquire(s) ==
  /\ s \notin held \cup spent
  /\ \A o \in held : ~Conflicts(s, o)
  /\ held' = held \cup {s}
  /\ UNCHANGED <<open, spent>>

Open(s) ==
  /\ s \in held
  /\ open' = open \cup {s}
  /\ UNCHANGED <<held, spent>>

Close(s) ==
  /\ open' = open \ {s}
  /\ UNCHANGED <<held, spent>>

\* One transaction of the reaper may give up the slots of several sessions.
Release(S) ==
  /\ S \subseteq held \ open
  /\ held' = held \ S
  /\ spent' = spent \cup S
  /\ UNCHANGED open

Next ==
  \/ \E s \in Sessions : Acquire(s) \/ Open(s) \/ Close(s)
  \/ \E S \in SUBSET Sessions : Release(S)

Spec == Init /\ [][Next]_slotVars
=============================================================================
