--------------------------- MODULE BlockSplitting ---------------------------
(***************************************************************************)
(* How the chunker splits a block that is longer than a chunk may be       *)
(* (_split_oversized and _find_break of app/processing/chunking.py), one   *)
(* iteration of the loop per step.                                         *)
(*                                                                         *)
(* A text is a sequence of characters of the kinds that the preparation    *)
(* tells apart.  A piece is an interval of positions of the text, so that  *)
(* what becomes of every character can be said.  Python's text[m:n] are    *)
(* the positions m+1..n.                                                   *)
(***************************************************************************)
EXTENDS Integers, Sequences, FiniteSetsExt

CONSTANT Overlap   \* CHUNK_OVERLAP_CHARACTERS

ASSUME OverlapAssumption == Overlap \in Nat

\* A letter, a combining mark, the letter with its mark in one character, the
\* end of a sentence, a space, a tab, a newline, and any other white space.
Chars == {"a", "mark", "composed", ".", "space", "tab", "newline", "blank"}
Whitespace == {"space", "tab", "newline", "blank"}

IsSolid(txt, i) == txt[i] \notin Whitespace

\* Normalized text: it begins and ends with something visible.
IsNormal(txt) ==
  /\ txt \in Seq(Chars)
  /\ Len(txt) > 0
  /\ IsSolid(txt, 1) /\ IsSolid(txt, Len(txt))

VARIABLES
  text,       \* the block
  limit,      \* body_limit
  start,      \* characters before the rest of the block
  pieces,     \* the pieces so far
  splitting   \* the loop has not ended

splitVars == <<text, limit, start, pieces, splitting>>

Piece(first, last) == [first |-> first, last |-> last]

-----------------------------------------------------------------------------
(***************************************************************************)
(* Where the text may be broken in the second half of from+1..to: before   *)
(* its last newline or space, or after the end of its last sentence, with  *)
(* the white space that follows.  A break at the very start of the window  *)
(* is none.  A blank line is a newline too, and adds no break of its own.  *)
(***************************************************************************)
Breaks(txt, from, to) ==
  LET search == from + (to - from) \div 2 IN
  {k \in (search + 1)..to :
     \/ k < to /\ txt[k + 1] \in {"space", "newline"}
     \/ k - 2 >= search /\ txt[k - 1] = "." /\ txt[k] \in Whitespace
     \/ k = to /\ txt[k] = "."}

\* A slip: Nothing is found in a text without a break.
FindBreakOrNone(txt, from, to) ==
  IF Breaks(txt, from, to) = {} THEN from ELSE Max(Breaks(txt, from, to))

\* A slip: The break is after its white space, which may be no white space.
FindBreakBeyond(txt, from, to) ==
  IF Breaks(txt, from, to) = {} THEN to ELSE Max(Breaks(txt, from, to)) + 1

FindBreak(txt, from, to) ==
  IF Breaks(txt, from, to) = {} THEN to ELSE Max(Breaks(txt, from, to))

\* text[from:to].strip(), none when nothing visible is left.
Stripped(txt, from, to) ==
  LET solid == {i \in (from + 1)..to : IsSolid(txt, i)} IN
  IF solid = {} THEN <<>> ELSE <<Piece(Min(solid), Max(solid))>>

\* A slip: The repetition begins with the piece (min for max).
ResumeEarly(txt, from, to) ==
  LET back == Max({0, Min({to - Overlap, from + 1})})
      gaps == {k \in back..(to - 1) : ~IsSolid(txt, k + 1)}
      next == IF gaps = {} THEN to ELSE Min(gaps)
  IN Min({k \in next..(Len(txt) - 1) : IsSolid(txt, k + 1)} \cup {Len(txt)})

\* A slip: A word longer than the overlap is left out.
ResumeLate(txt, from, to) == IF to < Len(txt) THEN to + 1 ELSE to

\* Up to Overlap characters are repeated, from the first white space among
\* them; the white space itself is not.
Resume(txt, from, to) ==
  LET back == IF to - Overlap > from + 1 THEN to - Overlap ELSE from + 1
      gaps == {k \in back..(to - 1) : ~IsSolid(txt, k + 1)}
      next == IF gaps = {} THEN to ELSE Min(gaps)
      solid == {k \in next..(Len(txt) - 1) : IsSolid(txt, k + 1)}
  IN IF solid = {} THEN Len(txt) ELSE Min(solid)

-----------------------------------------------------------------------------
\* A block that fits is a piece as it is.
Begin(txt, lim) ==
  /\ text' = txt
  /\ limit' = lim
  /\ start' = 0
  /\ pieces' = IF Len(txt) <= lim THEN <<Piece(1, Len(txt))>> ELSE <<>>
  /\ splitting' = (Len(txt) > lim)

\* An iteration of the loop with more than a piece left.
Cut ==
  /\ splitting
  /\ limit >= 0
  /\ Len(text) - start > limit
  /\ LET end == FindBreak(text, start, start + limit) IN
       /\ pieces' = pieces \o Stripped(text, start, end)
       /\ start' = Resume(text, start, end)
  /\ UNCHANGED <<text, limit, splitting>>

\* The rest fits.
Finish ==
  /\ splitting
  /\ Len(text) - start <= limit
  /\ pieces' = pieces \o Stripped(text, start, Len(text))
  /\ splitting' = FALSE
  /\ UNCHANGED <<text, limit, start>>

SplitInit ==
  /\ text \in Seq(Chars) /\ IsNormal(text)
  /\ limit \in Nat
  /\ start = 0
  /\ pieces = IF Len(text) <= limit THEN <<Piece(1, Len(text))>> ELSE <<>>
  /\ splitting = (Len(text) > limit)

SplitStep == Cut \/ Finish

\* Block after block, any text with any limit.
SplitNext ==
  \/ /\ ~splitting
     /\ \E txt \in Seq(Chars), lim \in Nat : IsNormal(txt) /\ Begin(txt, lim)
  \/ SplitStep

SplitSpec == SplitInit /\ [][SplitNext]_splitVars

-----------------------------------------------------------------------------
(***************************************************************************)
(* Properties of the pieces of one block.                                  *)
(***************************************************************************)
Covered(txt, upto, ps) ==
  \A i \in 1..upto :
    IsSolid(txt, i) => \E n \in 1..Len(ps) : ps[n].first <= i /\ i <= ps[n].last

Fit(txt, lim, ps) ==
  \A n \in 1..Len(ps) :
    /\ 1 <= ps[n].first /\ ps[n].first <= ps[n].last /\ ps[n].last <= Len(txt)
    /\ ps[n].last - ps[n].first < lim

Overlapping(ps) ==
  \A n \in 1..(Len(ps) - 1) :
    /\ ps[n].first < ps[n + 1].first
    /\ ps[n].last - ps[n + 1].first < Overlap

\* Every visible character that the loop has passed is in a piece, and all of
\* them are when it ends (the overlap and the skipping of white space in
\* _split_oversized).
NothingLost == Covered(text, IF splitting THEN start ELSE Len(text), pieces)

\* The pieces are never empty and keep to the limit (_find_break, strip).
PiecesFit == Fit(text, limit, pieces)

\* The pieces follow one another, and no more than Overlap characters of a
\* piece are repeated in the next.
OverlapBounded == Overlapping(pieces)

\* Each iteration advances, unless no character is allowed in a piece
\* (limit 0: the prefix of the heading takes up the whole chunk).
SplitAdvances == [][Cut /\ limit > 0 => start' > start]_splitVars
=============================================================================
