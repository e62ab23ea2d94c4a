------------------------ MODULE BlockSplittingProofs ------------------------
(***************************************************************************)
(* The pieces of a block of any length, with any limit and any overlap.    *)
(***************************************************************************)
EXTENDS BlockSplitting, WellFoundedInduction, TLAPS

-----------------------------------------------------------------------------
(***************************************************************************)
(* The operators.                                                          *)
(***************************************************************************)
LEMMA MinOfNats ==
  ASSUME NEW S, S \subseteq Nat, S # {}
  PROVE  Min(S) \in S /\ \A k \in S : Min(S) <= k
<1> DEFINE R == OpToRel(<, Nat)
<1>1. PICK i \in S : \A k \in S : ~(<<k, i>> \in R)
  <2>1. IsWellFoundedOn(R, Nat)
    BY NatLessThanWellFounded
  <2> QED
    BY <2>1, WFMin
<1>2. \A k \in S : i <= k
  <2> SUFFICES ASSUME NEW k \in S, k < i  PROVE FALSE
    OBVIOUS
  <2>1. <<k, i>> \in Nat \X Nat
    OBVIOUS
  <2>2. <<k, i>> \in R
    BY <2>1 DEF OpToRel
  <2> QED
    BY <1>1, <2>2
<1> QED
  BY <1>2 DEF Min

LEMMA MaxOfNats ==
  ASSUME NEW S, S \subseteq Nat, S # {}, NEW b \in Nat, \A k \in S : k <= b
  PROVE  Max(S) \in S /\ \A k \in S : k <= Max(S)
<1> DEFINE T == {b - k : k \in S}
<1>0. \A k \in S : k \in Nat /\ b - k \in Nat
  OBVIOUS
<1>1. T \subseteq Nat /\ T # {}
  BY <1>0
<1>2. Min(T) \in T /\ \A m \in T : Min(T) <= m
  BY <1>1, MinOfNats
<1>3. PICK i \in S : Min(T) = b - i
  BY <1>2
<1>4. ASSUME NEW k \in S  PROVE k <= i
  <2>1. b - k \in T
    OBVIOUS
  <2> QED
    <3>1. b - i <= b - k
      BY <1>2, <1>3, <2>1
    <3>2. i \in Nat /\ k \in Nat
      OBVIOUS
    <3> QED
      BY <3>1, <3>2
<1> QED
  BY <1>4 DEF Max

\* A break lies in the window, and not at its start unless the window is empty.
LEMMA FindBreakInWindow ==
  ASSUME NEW txt, NEW from \in Nat, NEW to \in Nat, from <= to
  PROVE  /\ FindBreak(txt, from, to) \in from..to
         /\ from < to => from < FindBreak(txt, from, to)
<1> DEFINE B == Breaks(txt, from, to)
<1>1. CASE B = {}
  BY <1>1 DEF FindBreak
<1>2. CASE B # {}
  <2> DEFINE search == from + (to - from) \div 2
  <2>1. search \in Nat /\ from <= search
    OBVIOUS
  <2>2. B \subseteq (search + 1)..to
    BY DEF Breaks
  <2> HIDE DEF search
  <2>3. B \subseteq Nat /\ \A k \in B : from < k /\ k <= to
    BY <2>1, <2>2
  <2>4. Max(B) \in B
    BY <1>2, <2>3, MaxOfNats
  <2> QED
    BY <1>2, <2>3, <2>4 DEF FindBreak
<1> QED
  BY <1>1, <1>2

\* Stripping takes away white space at both ends and nothing else.
LEMMA StrippedIsExact ==
  ASSUME NEW txt, NEW from \in Nat, NEW to \in Nat
  PROVE  LET s == Stripped(txt, from, to) IN
         \/ /\ s = <<>>
            /\ \A i \in (from + 1)..to : ~IsSolid(txt, i)
         \/ \E first, last \in (from + 1)..to :
              /\ s = <<Piece(first, last)>>
              /\ first <= last /\ IsSolid(txt, first) /\ IsSolid(txt, last)
              /\ \A i \in (from + 1)..to : IsSolid(txt, i) => first <= i /\ i <= last
<1> DEFINE solid == {i \in (from + 1)..to : IsSolid(txt, i)}
<1>1. CASE solid = {}
  BY <1>1 DEF Stripped
<1>2. CASE solid # {}
  <2>1. solid \subseteq Nat /\ \A i \in solid : i <= to
    OBVIOUS
  <2>2. /\ Min(solid) \in solid /\ \A k \in solid : Min(solid) <= k
        /\ Max(solid) \in solid /\ \A k \in solid : k <= Max(solid)
    BY <1>2, <2>1, MinOfNats, MaxOfNats
  <2>3. Stripped(txt, from, to) = <<Piece(Min(solid), Max(solid))>>
    BY <1>2 DEF Stripped
  <2> QED
    BY <2>2, <2>3
<1> QED
  BY <1>1, <1>2

\* The loop resumes at something visible, at most Overlap characters before the
\* break, and what lies between the break and that place is white space.
LEMMA ResumeIsSound ==
  ASSUME NEW txt \in Seq(Chars), IsSolid(txt, Len(txt)),
         NEW from \in Nat, NEW to \in Nat, from <= to, to < Len(txt)
  PROVE  LET r == Resume(txt, from, to) IN
         /\ r \in Nat /\ r < Len(txt) /\ IsSolid(txt, r + 1)
         /\ to - r <= Overlap
         /\ from < to => from < r
         /\ from = to => from <= r
         /\ \A i \in (to + 1)..r : ~IsSolid(txt, i)
<1> DEFINE back == IF to - Overlap > from + 1 THEN to - Overlap ELSE from + 1
           gaps == {k \in back..(to - 1) : ~IsSolid(txt, k + 1)}
           next == IF gaps = {} THEN to ELSE Min(gaps)
           solid == {k \in next..(Len(txt) - 1) : IsSolid(txt, k + 1)}
<1>0. Overlap \in Nat /\ Len(txt) \in Nat
  BY OverlapAssumption
<1>1. back \in Nat /\ back > from /\ to - back <= Overlap
  BY <1>0
<1>2. /\ next \in Nat /\ next <= to /\ to - next <= Overlap
      /\ from < to => from < next
      /\ from = to => next = to
  <2>1. CASE gaps = {}
    BY <1>0, <2>1
  <2>2. CASE gaps # {}
    <3>1. gaps \subseteq Nat
      BY <1>1
    <3>2. Min(gaps) \in gaps
      BY <2>2, <3>1, MinOfNats
    <3> QED
      BY <1>0, <1>1, <2>2, <3>2
  <2> QED
    BY <2>1, <2>2
<1>3. solid # {} /\ solid \subseteq Nat
  <2>1. Len(txt) - 1 \in next..(Len(txt) - 1) /\ (Len(txt) - 1) + 1 = Len(txt)
    BY <1>0, <1>2
  <2>2. Len(txt) - 1 \in solid
    BY <2>1
  <2>3. \A k \in solid : k \in Nat
    BY <1>0, <1>2
  <2> QED
    BY <2>2, <2>3
<1>4. Min(solid) \in solid /\ \A k \in solid : Min(solid) <= k
  BY <1>3, MinOfNats
<1>5. Resume(txt, from, to) = Min(solid)
  BY <1>3 DEF Resume
<1>6. \A i \in (to + 1)..Min(solid) : ~IsSolid(txt, i)
  <2> SUFFICES ASSUME NEW i \in (to + 1)..Min(solid), IsSolid(txt, i)
               PROVE  FALSE
    OBVIOUS
  <2>1. i - 1 \in next..(Len(txt) - 1) /\ (i - 1) + 1 = i
    BY <1>0, <1>2, <1>4
  <2>2. i - 1 \in solid
    BY <2>1
  <2> QED
    <3>1. Min(solid) <= i - 1
      BY <1>4, <2>2
    <3>2. Min(solid) \in Nat
      BY <1>3, <1>4
    <3> QED
      BY <3>1, <3>2
<1> HIDE DEF back, gaps, next
<1>7. /\ Min(solid) \in Nat /\ Min(solid) < Len(txt) /\ IsSolid(txt, Min(solid) + 1)
      /\ next <= Min(solid)
  BY <1>0, <1>2, <1>4
<1> QED
  BY <1>0, <1>2, <1>5, <1>6, <1>7

-----------------------------------------------------------------------------
(***************************************************************************)
(* The loop.                                                               *)
(***************************************************************************)
Pieces == [first : Nat, last : Nat]

\* The last piece ends at most Overlap characters beyond where the loop is.
LastBefore(ps, from) ==
  ps # <<>> => ps[Len(ps)].first <= from /\ ps[Len(ps)].last - from <= Overlap

\* The loop goes on from r after a piece of from+1..end.
Passes(from, end, r) == from <= r /\ (from < end => from < r)

SplitTypeOK ==
  /\ IsNormal(text)
  /\ limit \in Nat
  /\ start \in Nat
  /\ pieces \in Seq(Pieces)
  /\ splitting \in BOOLEAN

\* The loop is at something visible.
AtSolid ==
  splitting => /\ start < Len(text) /\ IsSolid(text, start + 1)
               /\ LastBefore(pieces, start)

SplitInv == SplitTypeOK /\ AtSolid /\ NothingLost /\ PiecesFit /\ OverlapBounded

LEMMA NormalFacts ==
  ASSUME NEW txt, IsNormal(txt)
  PROVE  /\ txt \in Seq(Chars) /\ Len(txt) \in Nat \ {0}
         /\ IsSolid(txt, 1) /\ IsSolid(txt, Len(txt))
BY DEF IsNormal

\* A block that fits, and one of which nothing is cut yet.
LEMMA WholeIsSound ==
  ASSUME NEW txt, IsNormal(txt), NEW lim \in Nat
  PROVE  /\ Len(txt) <= lim =>
              /\ <<Piece(1, Len(txt))>> \in Seq(Pieces)
              /\ Covered(txt, Len(txt), <<Piece(1, Len(txt))>>)
              /\ Fit(txt, lim, <<Piece(1, Len(txt))>>)
              /\ Overlapping(<<Piece(1, Len(txt))>>)
         /\ <<>> \in Seq(Pieces) /\ Covered(txt, 0, <<>>)
         /\ Fit(txt, lim, <<>>) /\ Overlapping(<<>>) /\ LastBefore(<<>>, 0)
<1>0. Len(txt) \in Nat \ {0}
  BY NormalFacts
<1>1. ASSUME Len(txt) <= lim
      PROVE  /\ <<Piece(1, Len(txt))>> \in Seq(Pieces)
             /\ Covered(txt, Len(txt), <<Piece(1, Len(txt))>>)
             /\ Fit(txt, lim, <<Piece(1, Len(txt))>>)
             /\ Overlapping(<<Piece(1, Len(txt))>>)
  <2> DEFINE ps == <<Piece(1, Len(txt))>>
  <2>1. Piece(1, Len(txt)) \in Pieces
    BY <1>0 DEF Piece, Pieces
  <2>2. /\ ps \in Seq(Pieces) /\ Len(ps) = 1
        /\ ps[1] = Piece(1, Len(txt))
    BY <2>1
  <2>3. ps[1].first = 1 /\ ps[1].last = Len(txt)
    BY <2>2 DEF Piece
  <2> HIDE DEF ps
  <2>4. Covered(txt, Len(txt), ps) /\ Fit(txt, lim, ps) /\ Overlapping(ps)
    BY <1>0, <1>1, <2>2, <2>3 DEF Covered, Fit, Overlapping
  <2> QED
    BY <2>2, <2>4 DEF ps
<1>2. /\ <<>> \in Seq(Pieces) /\ Covered(txt, 0, <<>>)
      /\ Fit(txt, lim, <<>>) /\ Overlapping(<<>>) /\ LastBefore(<<>>, 0)
  <2>1. Len(<<>>) = 0 /\ <<>> \in Seq(Pieces)
    OBVIOUS
  <2>2. Covered(txt, 0, <<>>) /\ Fit(txt, lim, <<>>)
    BY <2>1 DEF Covered, Fit
  <2>3. Overlapping(<<>>) /\ LastBefore(<<>>, 0)
    BY <2>1 DEF Overlapping, LastBefore
  <2> QED
    BY <2>1, <2>2, <2>3
<1> QED
  BY <1>1, <1>2

(***************************************************************************)
(* What adding the stripped text[from:end] does to the pieces: the new     *)
(* one, if there is one, begins where the loop is.                         *)
(***************************************************************************)
LEMMA PieceAdded ==
  ASSUME NEW txt \in Seq(Chars), NEW lim \in Nat, NEW from \in Nat, NEW end \in Nat,
         from < Len(txt), IsSolid(txt, from + 1),
         from <= end, end <= Len(txt), end - from <= lim,
         NEW ps \in Seq(Pieces), LastBefore(ps, from),
         Covered(txt, from, ps), Fit(txt, lim, ps), Overlapping(ps)
  PROVE  LET new == ps \o Stripped(txt, from, end) IN
         /\ new \in Seq(Pieces)
         /\ Covered(txt, end, new) /\ Fit(txt, lim, new) /\ Overlapping(new)
         /\ \A r \in Nat : (Passes(from, end, r) /\ end - r <= Overlap) => LastBefore(new, r)
<1> DEFINE new == ps \o Stripped(txt, from, end)
<1>0. Len(txt) \in Nat /\ Overlap \in Nat /\ Len(ps) \in Nat
  BY OverlapAssumption
<1>p. \A n \in 1..Len(ps) : ps[n].first \in Nat /\ ps[n].last \in Nat
  <2>1. \A n \in 1..Len(ps) : ps[n] \in Pieces
    OBVIOUS
  <2> QED
    BY <2>1 DEF Pieces
<1>1. CASE end = from
  <2>1. Stripped(txt, from, end) = <<>>
    BY <1>0, <1>1 DEF Stripped
  <2>2. new = ps
    BY <2>1
  <2>3. ASSUME NEW r \in Nat, Passes(from, end, r), end - r <= Overlap
        PROVE  LastBefore(new, r)
    <3> SUFFICES ASSUME ps # <<>>
                 PROVE  ps[Len(ps)].first <= r /\ ps[Len(ps)].last - r <= Overlap
      BY <2>2 DEF LastBefore
    <3>1. Len(ps) \in 1..Len(ps)
      BY <1>0
    <3>2. ps[Len(ps)].first \in Nat /\ ps[Len(ps)].last \in Nat
      BY <1>p, <3>1
    <3> QED
      BY <1>0, <2>3, <3>2 DEF LastBefore, Passes
  <2> QED
    BY <1>1, <2>2, <2>3
<1>2. CASE end > from
  <2>1. PICK first, last \in (from + 1)..end :
          /\ Stripped(txt, from, end) = <<Piece(first, last)>>
          /\ first <= last
          /\ \A i \in (from + 1)..end : IsSolid(txt, i) => first <= i /\ i <= last
    <3>1. from + 1 \in (from + 1)..end
      BY <1>2
    <3> QED
      BY <3>1, StrippedIsExact
  <2>2. first = from + 1 /\ first \in Nat /\ last \in Nat /\ first <= last /\ last <= end
    <3>1. from + 1 \in (from + 1)..end
      BY <1>2
    <3>2. first <= from + 1
      BY <2>1, <3>1
    <3> QED
      BY <2>1, <3>2
  <2> DEFINE p == [first |-> first, last |-> last]
  <2>3. p \in Pieces /\ p.first = first /\ p.last = last
    BY <2>2 DEF Pieces
  <2>4. new = Append(ps, p)
    BY <2>1, <2>3 DEF Piece
  <2> HIDE DEF p, new
  <2>5. /\ new \in Seq(Pieces) /\ Len(new) = Len(ps) + 1 /\ new # <<>>
        /\ \A n \in 1..Len(ps) : new[n] = ps[n]
        /\ new[Len(ps) + 1] = p
    BY <1>0, <2>3, <2>4
  <2>6. Covered(txt, end, new)
    <3> SUFFICES ASSUME NEW i \in 1..end, IsSolid(txt, i)
                 PROVE  \E n \in 1..Len(new) : new[n].first <= i /\ i <= new[n].last
      BY DEF Covered
    <3>1. CASE i <= from
      <4>1. PICK n \in 1..Len(ps) : ps[n].first <= i /\ i <= ps[n].last
        BY <3>1 DEF Covered
      <4>2. n \in 1..Len(new) /\ new[n] = ps[n]
        BY <1>0, <2>5
      <4> QED
        BY <4>1, <4>2
    <3>2. CASE i > from
      <4>1. first <= i /\ i <= last
        BY <2>1, <3>2
      <4>2. Len(ps) + 1 \in 1..Len(new)
        BY <1>0, <2>5
      <4> QED
        BY <2>3, <2>5, <4>1, <4>2
    <3> QED
      BY <3>1, <3>2
  <2>7. Fit(txt, lim, new)
    <3> SUFFICES ASSUME NEW n \in 1..Len(new)
                 PROVE  /\ 1 <= new[n].first /\ new[n].first <= new[n].last
                        /\ new[n].last <= Len(txt) /\ new[n].last - new[n].first < lim
      BY DEF Fit
    <3>1. CASE n <= Len(ps)
      BY <1>0, <2>5, <3>1 DEF Fit
    <3>2. CASE n = Len(ps) + 1
      BY <1>0, <2>2, <2>3, <2>5, <3>2
    <3> QED
      BY <1>0, <2>5, <3>1, <3>2
  <2>8. Overlapping(new)
    <3> SUFFICES ASSUME NEW n \in 1..(Len(new) - 1)
                 PROVE  /\ new[n].first < new[n + 1].first
                        /\ new[n].last - new[n + 1].first < Overlap
      BY DEF Overlapping
    <3>1. CASE n = Len(ps)
      <4>1. /\ new[n] = ps[n] /\ new[n + 1] = p /\ ps # <<>>
            /\ ps[n].first \in Nat /\ ps[n].last \in Nat
        BY <1>0, <1>p, <2>5, <3>1
      <4>2. ps[n].first <= from /\ ps[n].last - from <= Overlap
        BY <3>1, <4>1 DEF LastBefore
      <4>3. new[n + 1].first = from + 1
        BY <2>2, <2>3, <4>1
      <4>4. ps[n].last - (from + 1) < Overlap
        <5>1. \A a, b, c \in Int : a - b <= c => a - (b + 1) < c
          OBVIOUS
        <5>2. ps[n].last \in Int /\ from \in Int /\ Overlap \in Int
          BY <4>1, OverlapAssumption
        <5> QED
          BY ONLY <4>2, <5>1, <5>2
      <4> QED
        BY <4>1, <4>2, <4>3, <4>4
    <3>2. CASE n < Len(ps)
      <4>1. /\ n \in 1..(Len(ps) - 1) /\ n \in 1..Len(ps) /\ n + 1 \in 1..Len(ps)
        BY <1>0, <2>5, <3>2
      <4>2. new[n] = ps[n] /\ new[n + 1] = ps[n + 1]
        BY <2>5, <4>1
      <4> QED
        BY <4>1, <4>2 DEF Overlapping
    <3> QED
      BY <1>0, <2>5, <3>1, <3>2
  <2>9. \A r \in Nat : (Passes(from, end, r) /\ end - r <= Overlap) => LastBefore(new, r)
    <3> SUFFICES ASSUME NEW r \in Nat, Passes(from, end, r), end - r <= Overlap, new # <<>>
                 PROVE  new[Len(new)].first <= r /\ new[Len(new)].last - r <= Overlap
      BY DEF LastBefore
    <3> QED
      BY <1>0, <1>2, <2>2, <2>3, <2>5 DEF Passes
  <2> QED
    BY <2>5, <2>6, <2>7, <2>8, <2>9 DEF new
<1> QED
  BY <1>0, <1>1, <1>2

LEMMA CutKeepsInv == SplitInv /\ Cut => SplitInv' /\ (limit > 0 => start' > start)
<1> SUFFICES ASSUME SplitInv, Cut
             PROVE  SplitInv' /\ (limit > 0 => start' > start)
  OBVIOUS
<1> DEFINE end == FindBreak(text, start, start + limit)
<1>0. /\ Len(text) \in Nat /\ start \in Nat /\ limit \in Nat /\ Overlap \in Nat
      /\ text \in Seq(Chars) /\ IsSolid(text, Len(text))
      /\ Len(text) - start > limit /\ splitting
      /\ pieces \in Seq(Pieces)
      /\ start < Len(text) /\ IsSolid(text, start + 1) /\ LastBefore(pieces, start)
  BY NormalFacts, OverlapAssumption DEF SplitInv, SplitTypeOK, AtSolid, Cut
<1>1. end \in start..(start + limit) /\ (limit > 0 => start < end)
  BY <1>0, FindBreakInWindow
<1>2. /\ pieces' = pieces \o Stripped(text, start, end)
      /\ start' = Resume(text, start, end)
      /\ UNCHANGED <<text, limit, splitting>>
  BY DEF Cut
<1>3. end \in Nat /\ start <= end /\ end < Len(text) /\ end - start <= limit
  BY <1>0, <1>1
<1> HIDE DEF end
<1>4. /\ start' \in Nat /\ start' < Len(text) /\ IsSolid(text, start' + 1)
      /\ end - start' <= Overlap /\ Passes(start, end, start')
      /\ \A i \in (end + 1)..start' : ~IsSolid(text, i)
  <2>1. start' = Resume(text, start, end) /\ (start = end \/ start < end)
    BY <1>0, <1>2, <1>3
  <2> DEFINE r == Resume(text, start, end)
  <2>2. /\ r \in Nat /\ r < Len(text) /\ IsSolid(text, r + 1)
        /\ end - r <= Overlap
        /\ start < end => start < r
        /\ start = end => start <= r
        /\ \A i \in (end + 1)..r : ~IsSolid(text, i)
    BY <1>0, <1>3, ResumeIsSound
  <2> HIDE DEF r
  <2>3. start <= r
    BY <1>0, <2>1, <2>2
  <2> QED
    BY <2>1, <2>2, <2>3 DEF r, Passes
<1>5. Covered(text, start, pieces) /\ Fit(text, limit, pieces) /\ Overlapping(pieces)
  BY <1>0 DEF SplitInv, NothingLost, PiecesFit, OverlapBounded
<1>6. /\ pieces' \in Seq(Pieces)
      /\ Covered(text, end, pieces') /\ Fit(text, limit, pieces') /\ Overlapping(pieces')
      /\ LastBefore(pieces', start')
  BY <1>0, <1>2, <1>3, <1>4, <1>5, PieceAdded
<1>7. Covered(text, start', pieces')
  <2> SUFFICES ASSUME NEW i \in 1..start', IsSolid(text, i)
               PROVE  \E n \in 1..Len(pieces') :
                        pieces'[n].first <= i /\ i <= pieces'[n].last
    BY DEF Covered
  <2>1. i \in 1..end
    BY <1>3, <1>4
  <2> QED
    BY <1>6, <2>1 DEF Covered
<1>8. SplitTypeOK' /\ AtSolid'
  BY <1>0, <1>2, <1>4, <1>6 DEF SplitInv, SplitTypeOK, AtSolid
<1>9. NothingLost' /\ PiecesFit' /\ OverlapBounded'
  BY <1>0, <1>2, <1>6, <1>7 DEF NothingLost, PiecesFit, OverlapBounded
<1> QED
  BY <1>1, <1>4, <1>8, <1>9 DEF SplitInv, Passes

LEMMA FinishKeepsInv == SplitInv /\ Finish => SplitInv'
<1> SUFFICES ASSUME SplitInv, Finish  PROVE SplitInv'
  OBVIOUS
<1>0. /\ Len(text) \in Nat /\ start \in Nat /\ limit \in Nat
      /\ text \in Seq(Chars) /\ Len(text) - start <= limit
      /\ pieces \in Seq(Pieces)
      /\ start < Len(text) /\ IsSolid(text, start + 1) /\ LastBefore(pieces, start)
      /\ Covered(text, start, pieces) /\ Fit(text, limit, pieces) /\ Overlapping(pieces)
  BY NormalFacts
  DEF SplitInv, SplitTypeOK, AtSolid, Finish, NothingLost, PiecesFit, OverlapBounded
<1>1. /\ pieces' = pieces \o Stripped(text, start, Len(text))
      /\ splitting' = FALSE /\ UNCHANGED <<text, limit, start>>
  BY DEF Finish
<1>2. /\ pieces' \in Seq(Pieces) /\ Covered(text, Len(text), pieces')
      /\ Fit(text, limit, pieces') /\ Overlapping(pieces')
  BY <1>0, <1>1, PieceAdded
<1> QED
  BY <1>0, <1>1, <1>2
  DEF SplitInv, SplitTypeOK, AtSolid, NothingLost, PiecesFit, OverlapBounded

LEMMA BeginEstablishesInv ==
  ASSUME NEW txt, NEW lim \in Nat, IsNormal(txt), Begin(txt, lim)
  PROVE  SplitInv'
<1>1. CASE Len(txt) <= lim
  <2>0. (Len(txt) > lim) = FALSE
    BY <1>1, NormalFacts
  <2>1. /\ text' = txt /\ limit' = lim /\ start' = 0
        /\ pieces' = <<Piece(1, Len(txt))>>
        /\ splitting' = FALSE
    <3>1. splitting' = (Len(txt) > lim)
      BY DEF Begin
    <3>2. splitting' = FALSE
      BY <2>0, <3>1, Zenon
    <3> QED
      BY <1>1, NormalFacts, <3>2 DEF Begin
  <2> QED
    BY <1>1, <2>1, WholeIsSound
    DEF SplitInv, SplitTypeOK, AtSolid, NothingLost, PiecesFit, OverlapBounded
<1>2. CASE Len(txt) > lim
  <2>0. (Len(txt) > lim) = TRUE
    BY <1>2, NormalFacts
  <2>1. /\ text' = txt /\ limit' = lim /\ start' = 0
        /\ pieces' = <<>>
        /\ splitting' = TRUE
    <3>1. splitting' = (Len(txt) > lim)
      BY DEF Begin
    <3>2. splitting' = TRUE
      BY <2>0, <3>1, Zenon
    <3> QED
      BY <1>2, NormalFacts, <3>2 DEF Begin
  <2>2. 0 < Len(txt) /\ IsSolid(txt, 0 + 1)
    BY NormalFacts
  <2> QED
    BY <1>2, <2>1, <2>2, WholeIsSound
    DEF SplitInv, SplitTypeOK, AtSolid, NothingLost, PiecesFit, OverlapBounded
<1> QED
  BY <1>1, <1>2, NormalFacts

LEMMA InitEstablishesInv == SplitInit => SplitInv
<1> SUFFICES ASSUME SplitInit  PROVE SplitInv
  OBVIOUS
<1>0. IsNormal(text) /\ limit \in Nat
  BY DEF SplitInit
<1>1. CASE Len(text) <= limit
  <2>0. (Len(text) > limit) = FALSE
    BY <1>0, <1>1, NormalFacts
  <2>1. /\ start = 0
        /\ pieces = <<Piece(1, Len(text))>>
        /\ splitting = FALSE
    <3>1. splitting = (Len(text) > limit)
      BY DEF SplitInit
    <3>2. splitting = FALSE
      BY <2>0, <3>1, Zenon
    <3> QED
      BY <1>0, <1>1, NormalFacts, <3>2 DEF SplitInit
  <2> QED
    BY <1>0, <1>1, <2>1, WholeIsSound
    DEF SplitInv, SplitTypeOK, AtSolid, NothingLost, PiecesFit, OverlapBounded
<1>2. CASE Len(text) > limit
  <2>0. (Len(text) > limit) = TRUE
    BY <1>0, <1>2, NormalFacts
  <2>1. /\ start = 0
        /\ pieces = <<>>
        /\ splitting = TRUE
    <3>1. splitting = (Len(text) > limit)
      BY DEF SplitInit
    <3>2. splitting = TRUE
      BY <2>0, <3>1, Zenon
    <3> QED
      BY <1>0, <1>2, NormalFacts, <3>2 DEF SplitInit
  <2>2. 0 < Len(text) /\ IsSolid(text, 0 + 1)
    BY <1>0, NormalFacts
  <2> QED
    BY <1>0, <1>2, <2>1, <2>2, WholeIsSound
    DEF SplitInv, SplitTypeOK, AtSolid, NothingLost, PiecesFit, OverlapBounded
<1> QED
  BY <1>0, <1>1, <1>2, NormalFacts

LEMMA SplitNextKeepsInv == SplitInv /\ [SplitNext]_splitVars => SplitInv'
<1> SUFFICES ASSUME SplitInv, [SplitNext]_splitVars  PROVE SplitInv'
  OBVIOUS
<1>1. ASSUME NEW txt \in Seq(Chars), NEW lim \in Nat, IsNormal(txt), Begin(txt, lim)
      PROVE  SplitInv'
  BY <1>1, BeginEstablishesInv
<1>2. CASE Cut
  BY <1>2, CutKeepsInv
<1>3. CASE Finish
  BY <1>3, FinishKeepsInv
<1>4. CASE UNCHANGED splitVars
  BY <1>4 DEF splitVars, SplitInv, SplitTypeOK, AtSolid, NothingLost, PiecesFit,
              OverlapBounded
<1> QED
  BY <1>1, <1>2, <1>3, <1>4 DEF SplitNext, SplitStep

-----------------------------------------------------------------------------
(***************************************************************************)
(* However long the block, the limit and the overlap: no visible character *)
(* of it is lost, no piece is empty or over the limit, and the pieces      *)
(* overlap by no more than CHUNK_OVERLAP_CHARACTERS (_split_oversized).    *)
(***************************************************************************)
THEOREM SplitIsSound == SplitSpec => [](NothingLost /\ PiecesFit /\ OverlapBounded)
<1>1. SplitInv => NothingLost /\ PiecesFit /\ OverlapBounded
  BY DEF SplitInv
<1> QED
  BY <1>1, InitEstablishesInv, SplitNextKeepsInv, PTL DEF SplitSpec

\* The loop of _split_oversized advances at every iteration when a piece may
\* have a character, so that it ends.
THEOREM SplitMakesProgress == SplitSpec => SplitAdvances
<1>1. SplitInv /\ [SplitNext]_splitVars => [Cut /\ limit > 0 => start' > start]_splitVars
  BY CutKeepsInv
<1> QED
  BY <1>1, InitEstablishesInv, SplitNextKeepsInv, PTL DEF SplitSpec, SplitAdvances
=============================================================================
