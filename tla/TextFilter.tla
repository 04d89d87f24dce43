----------------------------- MODULE TextFilter -----------------------------
(***************************************************************************)
(* The text patterns of the list filters (shared/src/filter.rs): `name`    *)
(* and `description` compare a text with a pattern, whatever the case,     *)
(* where * stands for any text and a leading ^ anchors a prefix.  The code *)
(* walks over the parts between the stars, each where it first occurs in   *)
(* the rest of the text.  A pattern is a sequence of characters and Star,  *)
(* and whether it was anchored.                                            *)
(***************************************************************************)
EXTENDS Naturals, Sequences, SequencesExt

CONSTANTS
  Lower,       \* lower-case characters
  Upper,       \* a function: the upper-case characters there are, and the lower of each
  Star,
  MaxPattern,  \* bound: length of a pattern
  MaxText,     \* bound: length of a text
  None

FilterAssumption ==
  /\ Star \notin Lower \cup DOMAIN Upper /\ \A c \in DOMAIN Upper : Upper[c] # Star
  /\ MaxPattern \in Nat /\ MaxText \in Nat /\ None \notin BOOLEAN

Chars == Lower \cup DOMAIN Upper
Fold(s) == [i \in DOMAIN s |-> IF s[i] \in DOMAIN Upper THEN Upper[s[i]] ELSE s[i]]

VARIABLES
  pattern,   \* [anchored, body], as written
  text,      \* as stored
  used,      \* how much of the pattern has been found
  offset,    \* how much of the text is used up
  verdict

vars == <<pattern, text, used, offset, verdict>>

Texts(S, n) == UNION {[1..k -> S] : k \in 0..n}
Body == Fold(pattern.body)
Candidate == Fold(text)
Wild == \E i \in DOMAIN Body : Body[i] = Star

(* split('*') without the empty parts: where each begins and ends.        *)
Pieces == {piece \in (1..Len(Body)) \X (1..Len(Body)) :
  /\ piece[1] <= piece[2]
  /\ \A k \in piece[1]..piece[2] : Body[k] # Star
  /\ piece[1] = 1 \/ Body[piece[1] - 1] = Star
  /\ piece[2] = Len(Body) \/ Body[piece[2] + 1] = Star}
Left == {piece \in Pieces : piece[1] > used}

(* TextPattern::new refuses an empty pattern; ^ counts as a character. *)
Init ==
  /\ pattern \in [anchored : BOOLEAN, body : Texts(Chars \cup {Star}, MaxPattern)]
  /\ pattern.anchored \/ pattern.body # <<>>
  /\ text \in Texts(Chars, MaxText)
  /\ used = 0 /\ offset = 0 /\ verdict = None

Answer(v) == verdict' = v /\ UNCHANGED <<pattern, text, used, offset>>

(* Without a star: the whole text, or its beginning. *)
Compare ==
  /\ verdict = None /\ ~Wild
  /\ Answer(IF pattern.anchored THEN IsPrefix(Body, Candidate) ELSE Body = Candidate)

OnlyStars ==
  /\ verdict = None /\ Wild
  /\ Pieces = {}
  /\ Answer(TRUE)

Length(piece) == piece[2] - piece[1] + 1
Places(piece) == {i \in offset..Len(Candidate) :
  /\ i + Length(piece) <= Len(Candidate)
  /\ \A k \in piece[1]..piece[2] : Candidate[i + 1 + k - piece[1]] = Body[k]}

(* The first piece, if the pattern does not begin with a star. *)
Misplaced(piece, found) == piece[1] = 1 /\ found # 0

NextPart ==
  /\ verdict = None /\ Wild
  /\ \E piece \in Left :
       /\ \A other \in Left : piece[1] <= other[1]
       /\ \/ Places(piece) = {} /\ Answer(FALSE)
          \/ \E found \in Places(piece) :
               /\ \A i \in Places(piece) : found <= i
               /\ IF Misplaced(piece, found) THEN Answer(FALSE)
                  ELSE /\ used' = piece[2] /\ offset' = found + Length(piece)
                       /\ UNCHANGED <<pattern, text, verdict>>

AtEnd == \/ pattern.anchored
         \/ Last(Body) = Star
         \/ offset = Len(Candidate)

Finish ==
  /\ verdict = None /\ Wild /\ Left = {} /\ Pieces # {}
  /\ Answer(AtEnd)

Next == Compare \/ OnlyStars \/ NextPart \/ Finish
Spec == Init /\ [][Next]_vars

-----------------------------------------------------------------------------

(* What a pattern means: a character stands for itself, a star for any     *)
(* text, and an anchored pattern for the beginning of the text.  The first *)
(* i characters of p stand for the first at[i] of t.                       *)
Matches(p, t) ==
  \E at \in [0..Len(p) -> 0..Len(t)] :
    /\ at[0] = 0 /\ at[Len(p)] = Len(t)
    /\ \A i \in 1..Len(p) :
         IF p[i] = Star THEN at[i - 1] <= at[i]
         ELSE at[i] = at[i - 1] + 1 /\ t[at[i]] = p[i]
Meaning == Matches(IF pattern.anchored THEN Append(Body, Star) ELSE Body, Candidate)

TypeOK ==
  /\ offset \in 0..Len(text) /\ used \in 0..Len(pattern.body)
  /\ verdict \in BOOLEAN \cup {None}

(* A text the filter keeps is one the pattern means: parts are found in    *)
(* order, without overlap, the first and the last where the pattern has no *)
(* star.  (filter.rs:64-88)                                                *)
Sound == verdict = TRUE => Meaning

(* A text is not lost by taking every piece where it first occurs, as long  *)
(* as nothing must end with the text: an anchored pattern, one ending in a *)
(* star, or one without a star.  (filter.rs:64-88)                         *)
CompleteWhenOpen ==
  verdict = FALSE /\ (pattern.anchored \/ ~Wild \/ Last(Body) = Star) => ~Meaning

(* filter.rs:26-27: "`*` is a zero-or-more wildcard" - every text the      *)
(* pattern means is kept.  The last piece of a pattern without a final star *)
(* is looked for where it first occurs, not at the end of the text.        *)
Complete == verdict = FALSE => ~Meaning
=============================================================================
