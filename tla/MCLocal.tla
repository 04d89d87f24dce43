------------------------------ MODULE MCLocal ------------------------------
(***************************************************************************)
(* Instances for TLC of what runs on one machine and shares its files.     *)
(* A behaviour is that of one part, chosen by its initial state; the other *)
(* parts rest:                                                             *)
(*   commands   LocalCommands, as the cfg declares it                      *)
(*   transfer   an upload and a download in one page                       *)
(*   output     what a command prints, in any pieces                       *)
(*   arguments  the arguments of a command                                 *)
(*   setup      two setups of the client and one of a package              *)
(***************************************************************************)
EXTENDS LocalCommands, TLC

CONSTANTS
  Parts,
  Uploads, Downloads, FileParts, MaxWrites, Page,                   \* transfer
  Streams, Ascii, Lead, Cont, Wide, Unknown, Secret, Marker,
  Buffer, Channel, CaptureSize, Alphabet, MaxOutput,                \* output
  Tokens, MaxArgs,                                                  \* arguments
  Setups, Versions, WantedBy, Packaged, MaxLosses, MaxChanges, old  \* setup

VARIABLES
  part,
  chain, object, response, input, wrapped, evals, client, source, versions, dest, disk,  \* transfer
  printed, child, daemon, late, reader, channel, redactor, loop,                       \* output
  args, reading, at, first, options, words,                                            \* arguments
  directory, holder, onPath, target, durable, temps, pc, clean, promised, losses, changes  \* setup

transferVars == <<chain, object, response, input, wrapped, evals, client, source, versions, dest, disk>>
outputVars == <<printed, child, daemon, late, reader, channel, redactor, loop>>
argumentVars == <<args, reading, at, first, options, words>>
setupVars == <<directory, holder, onPath, target, durable, temps, pc, clean, promised, losses, changes>>

Transfer == INSTANCE FileTransfer WITH Parts <- FileParts

MCSecret == <<"s", "s", "t">>
MCMarker == <<"[", "]">>
Output == INSTANCE CommandOutput

Arguments == INSTANCE CommandArguments WITH pc <- reading

MCWantedBy == [p \in Setups |-> IF p = old THEN 1 ELSE 2]
Setup == INSTANCE ControllerSetup

ASSUME PartsAssumption ==
  /\ Transfer!TransferAssumption /\ Output!OutputAssumption
  /\ Arguments!ArgumentsAssumption /\ Setup!SetupAssumption

MCInit ==
  /\ part \in Parts
  /\ IF part = "arguments" THEN TRUE ELSE args = <<>>
  /\ IF part = "setup" THEN TRUE ELSE directory = "absent" /\ onPath = None
  /\ IF part = "output" THEN TRUE ELSE daemon = FALSE
  /\ Init /\ Transfer!Init /\ Output!Init /\ Arguments!Init /\ Setup!Init
  /\ part # "commands" => signedIn = CHOOSE s \in SignIns : TRUE

CommandsPart ==
  /\ part = "commands" /\ Next
  /\ UNCHANGED <<part, transferVars, outputVars, argumentVars, setupVars>>
\* Bound: the file is written a second time only when the downloads are over.
TransferPart ==
  /\ part = "transfer" /\ Transfer!Next
  /\ source'.mtime <= 1 \/ \A d \in Downloads : client[d].pc = "done"
  /\ UNCHANGED <<part, vars, outputVars, argumentVars, setupVars>>
OutputPart ==
  /\ part = "output" /\ Output!Next
  /\ UNCHANGED <<part, vars, transferVars, argumentVars, setupVars>>
ArgumentsPart ==
  /\ part = "arguments" /\ Arguments!Next
  /\ UNCHANGED <<part, vars, transferVars, outputVars, setupVars>>
SetupPart ==
  /\ part = "setup" /\ Setup!Next
  /\ UNCHANGED <<part, vars, transferVars, outputVars, argumentVars>>
MCNext == CommandsPart \/ TransferPart \/ OutputPart \/ ArgumentsPart \/ SetupPart

MCSpec ==
  MCInit /\ [][MCNext]_<<part, vars, transferVars, outputVars, argumentVars, setupVars>>
\* A transfer moves one version of the file, whole, and leaves the patches of others,
\* the page's own too, in place.
TransferWhole == Transfer!DestinationWhole /\ Transfer!OneVersionUploaded /\ Transfer!PatchesKept

\* What is typed is what runs: a line is refused, run as it is, or split as the
\* controller would; and what that prints is shown, but for the secret.
CommandFaithful ==
  /\ Arguments!ManagedRefused /\ Arguments!TransferAsTyped /\ Arguments!HelperRunsItsCommand
  /\ Output!SecretWithheld /\ Output!OutputWhole /\ Output!CaptureBounded

\* An installed controller is whole, is the one that is run, and a failed setup can be repeated.
SetupSettles == Setup!TargetWhole /\ Setup!ReadyIsPicked /\ Setup!RetryCures

LocalSymmetry == Permutations(Commands)
=============================================================================
