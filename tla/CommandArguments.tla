--------------------------- MODULE CommandArguments ---------------------------
(***************************************************************************)
(* The arguments of a browser command (client/controller.rs): those that   *)
(* would change the managed connection are refused, the command is found   *)
(* as the local controller finds it, and the arguments of `upload` and     *)
(* `download` are split into words and the options that each of their      *)
(* helper commands is run with.  One token is read in a step.              *)
(***************************************************************************)
EXTENDS Naturals, Sequences

CONSTANTS
  Tokens,    \* tokens that are typed
  MaxArgs    \* bound: tokens of a command

ArgumentsAssumption == MaxArgs \in Nat

VARIABLES
  args,     \* the arguments
  pc, at,   \* what is read next
  first,    \* place of the command, 0 if there is none
  options,  \* options for the helper commands
  words     \* the other arguments

vars == <<args, pc, at, first, options, words>>

(* Tokens.  An option may carry its value: "--headers=" stands for          *)
(* --headers=x, and has the name --headers.                                *)
TakesValue == {"--headers", "--download-path"}
Owned == {"--cdp", "--session"}
Lifecycle == {"connect", "close"}
Joined == {"--headers=", "--cdp=", "--download="}
Switches == {"--json", "--full", "--download"} \cup Joined
Booleans == {"true", "false"}
OptionLike == TakesValue \cup Owned \cup Switches
Name(token) ==
  CASE token = "--headers=" -> "--headers"
    [] token = "--cdp=" -> "--cdp"
    [] token = "--download=" -> "--download"
    [] OTHER -> token
Named(name) == \E i \in DOMAIN args : Name(args[i]) = name

Init ==
  /\ args \in UNION {[1..n -> Tokens] : n \in 0..MaxArgs}
  /\ pc = "find" /\ at = 1 /\ first = 0
  /\ options = <<>> /\ words = <<>>

Is(i, tokens) == i \in DOMAIN args /\ args[i] \in tokens
First(tokens) == first # 0 /\ args[first] \in tokens
Goto(next) == pc' = next /\ UNCHANGED <<args, at, first, options, words>>
Refuse == Goto("refused")

(* How many tokens belong to the option at i. *)
Width(i) == IF args[i] \in TakesValue \/ Is(i + 1, Booleans) THEN 2 ELSE 1

-----------------------------------------------------------------------------
(* first_controller_command_index                                          *)

SkipOption ==
  /\ pc = "find" /\ Is(at, OptionLike)
  /\ at' = at + Width(at)
  /\ UNCHANGED <<args, pc, first, options, words>>

Found ==
  /\ pc = "find" /\ ~Is(at, OptionLike)
  /\ first' = IF at \in DOMAIN args THEN at ELSE 0
  /\ pc' = "check"
  /\ UNCHANGED <<args, at, options, words>>

(* controller_arguments *)
Refused ==
  \/ args = <<>>
  \/ First({"wait"}) /\ Named("--download")
  \/ Named("--download-path")
  \/ \E i \in DOMAIN args : Name(args[i]) \in Owned
  \/ First(Lifecycle)

(* The options before the command upload. *)
Leading == SubSeq(args, 1, first - 1)

(* A command that is no transfer is run with the arguments as they are. *)
Dispatch ==
  /\ pc = "check"
  /\ IF Refused \/ (First({"upload"}) /\ first = Len(args)) THEN Refuse
     ELSE IF First({"upload"})
     THEN /\ options' = Leading
          /\ words' = SubSeq(args, first, first + 1)   \* the selector is what follows the command
          /\ at' = first + 2 /\ pc' = "split"
          /\ UNCHANGED <<args, first>>
     ELSE IF First({"download"})
     THEN at' = 1 /\ pc' = "split" /\ UNCHANGED <<args, first, options, words>>
     ELSE Goto("native")

(* upload_arguments, download_arguments: one token after the other. *)
SplitOption ==
  /\ pc = "split" /\ Is(at, OptionLike)
  /\ IF args[at] \in TakesValue /\ at = Len(args) THEN Refuse
     ELSE /\ options' = options \o SubSeq(args, at, at + Width(at) - 1)
          /\ at' = at + Width(at)
          /\ UNCHANGED <<args, pc, first, words>>

SplitWord ==
  /\ pc = "split" /\ at \in DOMAIN args /\ ~Is(at, OptionLike)
  /\ words' = Append(words, args[at])
  /\ at' = at + 1
  /\ UNCHANGED <<args, pc, first, options>>

(* upload <selector> <file>...; download <selector> <path> *)
Enough == IF First({"upload"}) THEN Len(words) >= 3 ELSE Len(words) = 3 /\ words[1] = "download"
SplitEnds ==
  /\ pc = "split" /\ at > Len(args)
  /\ IF Enough THEN Goto("transfer") ELSE Refuse

Next == SkipOption \/ Found \/ Dispatch \/ SplitOption \/ SplitWord \/ SplitEnds

Spec == Init /\ [][Next]_vars

-----------------------------------------------------------------------------
(* What a command line becomes. *)

(* Reference: a line as the pinned controller takes it.  An option takes    *)
(* the value or the boolean that follows it; names are the options by       *)
(* themselves, and wants is what the last one still takes.                  *)
AsTyped[line \in Seq(Tokens \cup {"--json", "eval"})] ==
  IF line = <<>> THEN [words |-> <<>>, options |-> <<>>, names |-> <<>>, wants |-> "nothing"]
  ELSE LET before == AsTyped[SubSeq(line, 1, Len(line) - 1)]
           token == line[Len(line)]
       IN IF before.wants = "value" \/ (before.wants = "boolean" /\ token \in Booleans)
          THEN [before EXCEPT !.options = Append(@, token), !.wants = "nothing"]
          ELSE IF token \in OptionLike
          THEN [before EXCEPT !.options = Append(@, token), !.names = Append(@, token),
                              !.wants = IF token \in TakesValue THEN "value" ELSE "boolean"]
          ELSE [before EXCEPT !.words = Append(@, token), !.wants = "nothing"]

TypeOK ==
  /\ pc \in {"find", "check", "split", "native", "transfer", "refused"}
  /\ at \in 1..MaxArgs + 2 /\ first \in 0..MaxArgs
  /\ words \in Seq(Tokens) /\ options \in Seq(Tokens)

(* What is run does not connect elsewhere, wherever the option stands and  *)
(* however its value is attached, and does not end the session, whatever   *)
(* options come before the command.  (controller.rs:199-227)               *)
ManagedRefused ==
  pc \in {"native", "transfer"} =>
    LET typed == AsTyped[args] IN
      /\ \A i \in DOMAIN typed.names : Name(typed.names[i]) \notin Owned
      /\ typed.words # <<>> => Head(typed.words) \notin Lifecycle

(* A transfer takes for words and for options what the controller would,   *)
(* and loses or reorders none of them; for `upload` if an option does not  *)
(* stand where the selector belongs.                                       *)
(* (controller/download.rs:181, controller/upload.rs:223)                  *)
TransferAsTyped ==
  pc = "transfer" /\ (First({"upload"}) => args[first + 1] \notin OptionLike) =>
    words = AsTyped[args].words /\ options = AsTyped[args].options

(* Every helper of a transfer runs its own command, and answers in JSON:   *)
(* no option swallows the one or the other.  (controller/upload.rs:171)    *)
HelperRunsItsCommand ==
  pc = "transfer" =>
    LET typed == AsTyped[options \o <<"--json", "eval">>] IN
      /\ typed.words = <<"eval">>
      /\ typed.names # <<>> /\ typed.names[Len(typed.names)] = "--json"
=============================================================================
