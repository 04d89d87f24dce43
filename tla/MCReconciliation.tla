-------------------------- MODULE MCReconciliation --------------------------
(***************************************************************************)
(* Instances for TLC of what finishes the work a handler left half done.   *)
(* A behaviour is that of one part, chosen by its initial state; the other *)
(* parts rest:                                                             *)
(*   recording  RecordingSafety, as the cfg declares it                    *)
(*   profile    two profiles and one process with a reconciliation loop    *)
(*   search     one search at the provider, in pages of two rows           *)
(***************************************************************************)
EXTENDS RecordingSafety

CONSTANTS
  Parts,
  Profiles, Loops,                                              \* profile
  Ours, Others, PageSize, MaxPages, MaxChanges, None            \* search

VARIABLES
  part,
  row, order, busy, remote, creating, todo, found,                    \* profile
  kind, trend, listed, changes, there, page, expected, exact, outcome \* search

profileVars == <<row, order, busy, remote, creating, todo, found>>
searchVars == <<kind, trend, listed, changes, there, page, expected, exact, outcome>>

Profile == INSTANCE ProfileProvisioning WITH Procs <- Loops, stage <- creating
Search == INSTANCE ProviderSearch

ASSUME PartsAssumption == Search!SearchAssumption

MCInit ==
  /\ part \in Parts
  /\ Init /\ Profile!Init /\ Search!Init
  /\ part # "recording" => ~source /\ knows = {}
  /\ part # "search" => kind = "profile" /\ trend = "grows" /\ listed = <<>>

RecordingPart == part = "recording" /\ Next /\ UNCHANGED <<part, profileVars, searchVars>>
ProfilePart == part = "profile" /\ Profile!Next /\ UNCHANGED <<part, vars, searchVars>>
SearchPart == part = "search" /\ Search!Next /\ UNCHANGED <<part, vars, profileVars>>

MCNext == RecordingPart \/ ProfilePart \/ SearchPart

MCSpec == MCInit /\ [][MCNext]_<<part, vars, profileVars, searchVars>>
\* Where a part rests, none of its fair actions is enabled.
MCFairSpec == MCSpec /\ Fairness /\ Profile!Fairness

\* A profile is active only if it is there at the provider.
ActiveHasRemote == Profile!ActiveHasRemote

\* A profile that is there at the provider does not stay provisioning.
ExistingIsAdopted == Profile!ExistingIsAdopted

\* Nothing is reported absent that was listed all the time, nor one of two found.
AbsentWasAbsent == Search!AbsentWasAbsent /\ Search!FoundIsOnly
=============================================================================
