--------------------------- MODULE CommandOutput ---------------------------
(***************************************************************************)
(* A browser command runs in a controller process of the caller's machine  *)
(* (client/src/controller.rs).  One thread per pipe reads what the process *)
(* prints, in pieces as they come, and sends them through a bounded        *)
(* channel; the caller's thread takes the address of the remote browser, a *)
(* secret, out of each stream, prints the text and keeps a bounded part of *)
(* it for the result.  It stops when the process is gone and nobody holds  *)
(* the pipes any more, and kills a process that outlives its session.      *)
(* Text is ASCII and one character of two bytes, Lead and Cont.            *)
(***************************************************************************)
EXTENDS Integers, Sequences, SequencesExt

CONSTANTS
  Streams,    \* stdout, stderr
  Ascii,      \* ASCII characters
  Lead, Cont, \* bytes of a wider character ...
  Wide,       \* ... and the character
  Unknown,    \* U+FFFD, which stands for bytes that are no text
  Secret,     \* the address of the remote browser
  Marker,     \* what is printed in its place
  Buffer,     \* size of a read
  Channel,    \* pieces the channel holds
  CaptureSize,  \* size of the text kept for the result
  Alphabet,   \* bound: bytes the process prints ...
  MaxOutput   \* ... and how many to a stream

VARIABLES
  printed,   \* history: what the process wrote to each pipe, as far as it was read
  child,     \* the process
  daemon,    \* something it started holds the pipes
  late,      \* the session or four hours are over
  reader,    \* per stream: whether the pipe is open, and the piece to send
  channel,   \* pieces on their way
  redactor,  \* per stream: bytes that may begin the secret, bytes of text, text captured and seen
  loop       \* the caller's thread

processVars == <<printed, child, daemon, late>>
vars == <<processVars, reader, channel, redactor, loop>>

Bytes == Ascii \cup {Lead, Cont}
Characters == Ascii \cup {Wide, Unknown}
Pieces == UNION {[1..n -> Alphabet] : n \in 1..Buffer}

\* Secret and marker do not overlap: however the one is laid over the other, they differ.
OutputAssumption ==
  /\ Lead # Cont /\ Wide # Unknown /\ Ascii \cap {Lead, Cont, Wide, Unknown} = {}
  /\ Secret \in Seq(Ascii) \ {<<>>} /\ Marker \in Seq(Ascii)
  /\ \A shift \in (1 - Len(Secret))..(Len(Marker) - 1) :
       \E i \in DOMAIN Secret : i + shift \in DOMAIN Marker /\ Marker[i + shift] # Secret[i]
  /\ Buffer \in Nat \ {0} /\ Channel \in Nat \ {0} /\ CaptureSize \in Nat
  /\ Alphabet \subseteq Bytes /\ MaxOutput \in Nat

(* from_utf8_lossy: a wider character is there with its second byte. *)
Decode[b \in Seq(Bytes)] ==
  IF b = <<>> THEN <<>>
  ELSE IF Last(b) = Cont /\ Front(b) # <<>> /\ Last(Front(b)) = Lead THEN Append(Front(Decode[Front(b)]), Wide)
  ELSE Append(Decode[Front(b)], IF Last(b) \in {Lead, Cont} THEN Unknown ELSE Last(b))
IsText(b) == \A i \in DOMAIN Decode[b] : Decode[b][i] # Unknown

Width(char) == IF char = Unknown THEN 3 ELSE IF char = Wide THEN 2 ELSE 1
Size[text \in Seq(Characters)] == IF text = <<>> THEN 0 ELSE Size[Front(text)] + Width(Last(text))

Init ==
  /\ printed = [s \in Streams |-> <<>>]
  /\ child = "running" /\ daemon \in BOOLEAN /\ late = FALSE
  /\ reader = [s \in Streams |-> [open |-> TRUE, piece |-> <<>>]]
  /\ channel = <<>>
  /\ redactor = [s \in Streams |-> [pending |-> <<>>, utf8 |-> <<>>, captured |-> <<>>, emitted |-> <<>>]]
  /\ loop = "polling"

(* The process, and what it leaves behind, which gives up when idle. *)
ChildExits ==
  /\ child = "running" /\ child' = "exited"
  /\ UNCHANGED <<printed, daemon, late, reader, channel, redactor, loop>>
DaemonExits ==
  /\ daemon /\ child # "running" /\ daemon' = FALSE
  /\ UNCHANGED <<printed, child, late, reader, channel, redactor, loop>>
Deadline ==
  /\ ~late /\ late' = TRUE
  /\ UNCHANGED <<printed, child, daemon, reader, channel, redactor, loop>>

(* The thread of a pipe. *)
Read(s) ==
  /\ reader[s] = [open |-> TRUE, piece |-> <<>>]
  /\ \E piece \in Pieces :
       /\ Len(printed[s]) + Len(piece) <= MaxOutput
       /\ printed' = [printed EXCEPT ![s] = @ \o piece]
       /\ reader' = [reader EXCEPT ![s].piece = piece]
  /\ UNCHANGED <<child, daemon, late, channel, redactor, loop>>

EndOfPipe(s) ==
  /\ reader[s] = [open |-> TRUE, piece |-> <<>>]
  /\ child # "running" /\ ~daemon
  /\ reader' = [reader EXCEPT ![s].open = FALSE]
  /\ UNCHANGED <<processVars, channel, redactor, loop>>

Send(s) ==
  /\ reader[s].piece # <<>>
  /\ Len(channel) < Channel
  /\ channel' = Append(channel, [stream |-> s, bytes |-> reader[s].piece])
  /\ reader' = [reader EXCEPT ![s].piece = <<>>]
  /\ UNCHANGED <<processVars, redactor, loop>>

(* push *)
EndsWith(b, n) == n <= Len(b) /\ SubSeq(b, Len(b) - n + 1, Len(b)) = SubSeq(Secret, 1, n)

FaultyHeld(b) ==   \* mutant: the longest beginning of the secret is not held
  CHOOSE n \in 0..(Len(Secret) - 2) : EndsWith(b, n) /\ \A k \in (n + 1)..(Len(Secret) - 2) : ~EndsWith(b, k)
Held(b) ==   \* bytes at the end that may begin the secret
  CHOOSE n \in 0..(Len(Secret) - 1) : EndsWith(b, n) /\ \A k \in (n + 1)..(Len(Secret) - 1) : ~EndsWith(b, k)

Scan[b \in Seq(Bytes)] ==   \* every occurrence, from the left, and what follows the last
  IF b = <<>> THEN [text |-> <<>>, rest |-> <<>>]
  ELSE LET before == Scan[Front(b)]
           rest == Append(before.rest, Last(b))
       IN IF EndsWith(rest, Len(Secret))
          THEN [text |-> before.text \o SubSeq(rest, 1, Len(rest) - Len(Secret)) \o Marker, rest |-> <<>>]
          ELSE [text |-> before.text, rest |-> rest]
Redacted(b) == Scan[b].text \o Scan[b].rest

Complete(b, finish) ==   \* bytes to decode now: a character that is not all there waits
  IF ~finish /\ b # <<>> /\ Last(b) = Lead /\ IsText(Front(b)) THEN Len(b) - 1 ELSE Len(b)

Room(captured) == CaptureSize - Size[captured]
Kept(captured, text) ==
  SubSeq(text, 1, CHOOSE n \in 0..Len(text) :
    /\ Size[SubSeq(text, 1, n)] <= Room(captured)
    /\ n = Len(text) \/ Size[SubSeq(text, 1, n + 1)] > Room(captured))

Push(s, bytes, finish, to) ==
  LET found == Scan[to[s].pending \o bytes]
      hold == IF finish THEN 0 ELSE Held(found.rest)
      open == Len(found.rest) - hold
      utf8 == to[s].utf8 \o found.text \o SubSeq(found.rest, 1, open)
      n == Complete(utf8, finish)
      text == Decode[SubSeq(utf8, 1, n)]
  IN [to EXCEPT ![s] = [pending |-> SubSeq(found.rest, open + 1, Len(found.rest)),
                        utf8 |-> SubSeq(utf8, n + 1, Len(utf8)),
                        captured |-> @.captured \o Kept(@.captured, text),
                        emitted |-> @.emitted \o text]]

(* The caller's thread. *)
Kill ==
  /\ loop = "polling" /\ late /\ child = "running"
  /\ child' = "killed"
  /\ UNCHANGED <<printed, daemon, late, reader, channel, redactor, loop>>

Receive ==
  /\ loop = "polling" /\ channel # <<>>
  /\ redactor' = Push(Head(channel).stream, Head(channel).bytes, FALSE, redactor)
  /\ channel' = Tail(channel)
  /\ UNCHANGED <<processVars, reader, loop>>

Disconnected == channel = <<>> /\ \A s \in Streams : ~reader[s].open

Finish ==
  /\ loop = "polling" /\ Disconnected /\ child # "running"
  /\ redactor' = [s \in Streams |-> Push(s, <<>>, TRUE, redactor)[s]]
  /\ loop' = child
  /\ UNCHANGED <<processVars, reader, channel>>

Next ==
  \/ ChildExits \/ DaemonExits \/ Deadline
  \/ \E s \in Streams : Read(s) \/ EndOfPipe(s) \/ Send(s)
  \/ Kill \/ Receive \/ Finish

Spec == Init /\ [][Next]_vars

-----------------------------------------------------------------------------

Contained(s, t) == \E i \in 0..(Len(t) - Len(s)) : SubSeq(t, i + 1, i + Len(s)) = s

TypeOK ==
  /\ child \in {"running", "exited", "killed"} /\ loop \in {"polling", "exited", "killed"}
  /\ Len(channel) <= Channel
  /\ \A s \in Streams :
       /\ printed[s] \in Seq(Bytes) /\ Len(printed[s]) <= MaxOutput
       /\ reader[s] \in [open : BOOLEAN, piece : Pieces \cup {<<>>}]
       /\ redactor[s].pending \in Seq(Bytes) /\ Len(redactor[s].pending) < Len(Secret)

(* The caller never sees the address of the remote browser, however the    *)
(* process prints it and in whatever pieces it arrives: what may begin it  *)
(* is held back.  (controller.rs:291-318)                                  *)
SecretWithheld == \A s \in Streams : ~Contained(Secret, redactor[s].emitted)

(* What the caller saw is the beginning of what was printed, with the      *)
(* secret replaced, and all of it once the command has ended, whichever    *)
(* thread was late: no byte of a process that is gone stays in a pipe, in  *)
(* the channel or in a buffer, and no character is cut in two because its  *)
(* bytes came apart.  (controller.rs:88-125, 319-331)                      *)
OutputWhole ==
  \A s \in Streams :
    LET whole == Redacted(printed[s]) IN
      IsText(whole) =>
        /\ IsPrefix(redactor[s].emitted, Decode[whole])
        /\ loop # "polling" => redactor[s].emitted = Decode[whole]

(* The text kept for the result is bounded and never tells more than was   *)
(* printed.  (controller.rs:326-330)                                       *)
CaptureBounded == \A s \in Streams : Size[redactor[s].captured] <= CaptureSize

=============================================================================
