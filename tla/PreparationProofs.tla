------------------------- MODULE PreparationProofs --------------------------
(***************************************************************************)
(* Theorems about Preparation, for every file, every size of a chunk and   *)
(* of an overlap, and every length of a heading or a name.                 *)
(*                                                                         *)
(* The inductive invariant IInv says where the preparation is in the work: *)
(* what of the document is in the blocks, which of the blocks are in the   *)
(* chunks, and what of the run that is packed is in chunks, in the chunk   *)
(* being packed, and in the parts that are left.                           *)
(***************************************************************************)
EXTENDS Preparation, BlockSplittingProofs

-----------------------------------------------------------------------------
(***************************************************************************)
(* Induction, recursive functions, and subsequences.                       *)
(*                                                                         *)
(* Induction is by the least number that is not in a set (MinOfNats).      *)
(***************************************************************************)
\* Induction.
LEMMA InductionOnNat ==
  ASSUME NEW S, 0 \in S, \A n \in Nat : n \in S => n + 1 \in S
  PROVE  \A n \in Nat : n \in S
<1> DEFINE T == {n \in Nat : n \notin S}
<1> SUFFICES ASSUME T # {}  PROVE FALSE
  OBVIOUS
<1>1. Min(T) \in T /\ \A k \in T : Min(T) <= k
  BY MinOfNats
<1>2. Min(T) - 1 \in Nat /\ Min(T) - 1 \notin T
  BY <1>1
<1>3. (Min(T) - 1) + 1 = Min(T) /\ (Min(T) - 1) + 1 \in S
  BY <1>1, <1>2
<1> QED
  BY <1>1, <1>3

\* f is defined by recursion over the positions up to size.
Follows(f, size, base, step) ==
  f[0] = base /\ \A n \in 1..size : f[n] = step[n][f[n - 1]]

StaysIn(step, V) == \A n \in Nat, v \in V : step[n][v] \in V

\* A recursive function exists.
LEMMA RecursionExists ==
  ASSUME NEW V, NEW base \in V, NEW step, StaysIn(step, V), NEW size \in Nat
  PROVE  \E f \in [0..size -> V] : Follows(f, size, base, step)
<1> DEFINE S == {s \in Nat : \E f \in [0..s -> V] : Follows(f, s, base, step)}
<1>1. 0 \in S
  <2>1. /\ [n \in 0..0 |-> base] \in [0..0 -> V]
        /\ Follows([n \in 0..0 |-> base], 0, base, step)
    BY DEF Follows
  <2> QED
    BY <2>1
<1>2. ASSUME NEW s \in Nat, s \in S
      PROVE  s + 1 \in S
  <2>1. PICK f \in [0..s -> V] : Follows(f, s, base, step)
    BY <1>2
  <2> DEFINE v == step[s + 1][f[s]]
             g == [n \in 0..(s + 1) |-> IF n = s + 1 THEN v ELSE f[n]]
  <2>2. v \in V /\ (s + 1) - 1 = s
    <3>1. f[s] \in V
      OBVIOUS
    <3> QED
      BY <3>1 DEF StaysIn
  <2>3. g \in [0..(s + 1) -> V] /\ g[s + 1] = v /\ \A n \in 0..s : g[n] = f[n]
    <3> HIDE DEF v
    <3> QED
      BY <2>2
  <2> HIDE DEF g
  <2>4. ASSUME NEW n \in 1..(s + 1)  PROVE g[n] = step[n][g[n - 1]]
    <3>1. CASE n = s + 1
      BY <2>2, <2>3, <3>1
    <3>2. CASE n \in 1..s
      <4>1. n - 1 \in 0..s /\ n \in 0..s
        BY <3>2
      <4>2. g[n] = f[n] /\ g[n - 1] = f[n - 1]
        BY <2>3, <4>1
      <4> QED
        BY <2>1, <3>2, <4>2 DEF Follows
    <3> QED
      BY <3>1, <3>2
  <2>5. Follows(g, s + 1, base, step)
    BY <2>1, <2>3, <2>4 DEF Follows
  <2> QED
    BY <2>3, <2>5
<1> HIDE DEF S
<1>3. size \in S
  BY <1>1, <1>2, InductionOnNat
<1> QED
  BY <1>3 DEF S

\* f[n] is what is kept of the first n positions.
Gathers(f, size, kept) ==
  /\ f[0] = <<>>
  /\ \A n \in 1..size : f[n] = f[n - 1] \o (IF n \in kept THEN <<n>> ELSE <<>>)

\* The recursive function that Positions is defined by exists, in the naturals.
LEMMA PositionsRecursion ==
  ASSUME NEW seq, Len(seq) \in Nat, NEW kept
  PROVE  \E f \in [0..Len(seq) -> Seq(Nat)] :
           Positions(seq, kept) = f[Len(seq)] /\ Gathers(f, Len(seq), kept)
<1> DEFINE E(n) == IF n \in kept THEN <<n>> ELSE <<>>
           upTo[n \in 0..Len(seq)] == IF n = 0 THEN <<>> ELSE upTo[n - 1] \o E(n)
           V == Seq(Nat)
           step == [n \in Nat |-> [v \in V |-> v \o E(n)]]
<1>1. Positions(seq, kept) = upTo[Len(seq)]
  BY DEF Positions
<1>2. \A n \in Nat : E(n) \in Seq(Nat)
  OBVIOUS
<1> HIDE DEF E
<1>3. <<>> \in V /\ \A n \in Nat, v \in V : v \o E(n) \in V
  BY <1>2
<1> HIDE DEF V
<1>4. StaysIn(step, V) /\ \A n \in Nat, v \in V : step[n][v] = v \o E(n)
  BY <1>3 DEF StaysIn
<1> HIDE DEF step
<1>5. PICK f \in [0..Len(seq) -> V] : Follows(f, Len(seq), <<>>, step)
  BY <1>3, <1>4, RecursionExists
<1>6. f[0] = <<>> /\ \A n \in 1..Len(seq) : f[n] = f[n - 1] \o E(n)
  <2>1. ASSUME NEW n \in 1..Len(seq)  PROVE f[n - 1] \in V /\ n \in Nat
    <3>1. n - 1 \in 0..Len(seq)
      OBVIOUS
    <3> QED
      BY <3>1
  <2> QED
    BY <1>4, <1>5, <2>1 DEF Follows
<1>7. f = [n \in 0..Len(seq) |-> IF n = 0 THEN <<>> ELSE f[n - 1] \o E(n)]
  BY <1>6
<1>8. upTo = [n \in 0..Len(seq) |-> IF n = 0 THEN <<>> ELSE upTo[n - 1] \o E(n)]
  BY <1>7
<1> HIDE DEF upTo
<1>9. upTo[0] = <<>> /\ \A n \in 1..Len(seq) : upTo[n] = upTo[n - 1] \o E(n)
  <2>1. 0 \in 0..Len(seq) /\ \A n \in 1..Len(seq) : n \in 0..Len(seq) /\ n # 0
    OBVIOUS
  <2> QED
    BY <1>8, <2>1
<1> DEFINE S == {n \in Nat : n <= Len(seq) => upTo[n] = f[n]}
<1>10. 0 \in S
  BY <1>6, <1>9
<1>11. ASSUME NEW n \in Nat, n \in S  PROVE n + 1 \in S
  <2> SUFFICES ASSUME n + 1 <= Len(seq)  PROVE upTo[n + 1] = f[n + 1]
    OBVIOUS
  <2>1. n + 1 \in 1..Len(seq) /\ (n + 1) - 1 = n
    OBVIOUS
  <2>2. upTo[n] = f[n]
    BY <1>11
  <2> QED
    BY <1>6, <1>9, <2>1, <2>2
<1> HIDE DEF S
<1>12. Len(seq) \in S
  BY <1>10, <1>11, InductionOnNat
<1>13. upTo[Len(seq)] = f[Len(seq)]
  BY <1>12 DEF S
<1> QED
  BY <1>1, <1>6, <1>13 DEF E, V, Gathers

\* at are positions up to size: those in kept, in order.
Enumerates(at, size, kept) ==
  /\ at \in Seq(Nat)
  /\ \A k \in 1..Len(at) : at[k] \in 1..size /\ at[k] \in kept
  /\ \A k, l \in 1..Len(at) : k < l => at[k] < at[l]
  /\ \A i \in 1..size : i \in kept => \E k \in 1..Len(at) : at[k] = i
  /\ (1..size) \subseteq kept => Len(at) = size /\ \A k \in 1..size : at[k] = k

\* One position more.
LEMMA EnumeratesNext ==
  ASSUME NEW kept, NEW n \in Nat, NEW at, Enumerates(at, n, kept)
  PROVE  Enumerates(at \o (IF n + 1 \in kept THEN <<n + 1>> ELSE <<>>), n + 1, kept)
<1>0. at \in Seq(Nat) /\ Len(at) \in Nat
  BY DEF Enumerates
<1>1. CASE n + 1 \in kept
  <2> DEFINE new == Append(at, n + 1)
  <2>1. at \o <<n + 1>> = new
    BY <1>0
  <2>2. /\ new \in Seq(Nat) /\ Len(new) = Len(at) + 1
        /\ \A k \in 1..Len(at) : new[k] = at[k]
        /\ new[Len(at) + 1] = n + 1
    BY <1>0
  <2> HIDE DEF new
  <2>3. \A k \in 1..Len(new) : k \in 1..Len(at) \/ k = Len(at) + 1
    BY <1>0, <2>2
  <2>4. \A k \in 1..Len(at) : at[k] \in 1..n /\ at[k] \in kept
    BY DEF Enumerates
  <2>5. \A k \in 1..Len(new) : new[k] \in 1..(n + 1) /\ new[k] \in kept
    BY <1>1, <2>2, <2>3, <2>4
  <2>6. \A k, l \in 1..Len(new) : k < l => new[k] < new[l]
    <3> SUFFICES ASSUME NEW k \in 1..Len(new), NEW l \in 1..Len(new), k < l
                 PROVE  new[k] < new[l]
      OBVIOUS
    <3>1. k \in 1..Len(at)
      BY <1>0, <2>2
    <3>2. CASE l \in 1..Len(at)
      BY <2>2, <3>1, <3>2 DEF Enumerates
    <3>3. CASE l = Len(at) + 1
      BY <2>2, <2>4, <3>1, <3>3
    <3> QED
      BY <2>3, <3>2, <3>3
  <2>7. ASSUME NEW i \in 1..(n + 1), i \in kept  PROVE \E k \in 1..Len(new) : new[k] = i
    <3>1. CASE i = n + 1
      <4>1. Len(at) + 1 \in 1..Len(new)
        BY <1>0, <2>2
      <4> QED
        BY <2>2, <3>1, <4>1
    <3>2. CASE i \in 1..n
      <4>1. PICK k \in 1..Len(at) : at[k] = i
        BY <2>7, <3>2 DEF Enumerates
      <4>2. k \in 1..Len(new)
        BY <1>0, <2>2
      <4> QED
        BY <2>2, <4>1, <4>2
    <3> QED
      BY <3>1, <3>2
  <2>8. ASSUME (1..(n + 1)) \subseteq kept
        PROVE  Len(new) = n + 1 /\ \A k \in 1..(n + 1) : new[k] = k
    <3>1. (1..n) \subseteq kept
      BY <2>8
    <3>2. Len(at) = n /\ \A k \in 1..n : at[k] = k
      BY <3>1 DEF Enumerates
    <3> QED
      BY <2>2, <3>2
  <2> QED
    BY <1>1, <2>1, <2>2, <2>5, <2>6, <2>7, <2>8 DEF Enumerates
<1>2. CASE n + 1 \notin kept
  <2>1. at \o <<>> = at
    BY <1>0
  <2>2. \A k \in 1..Len(at) : at[k] \in 1..(n + 1) /\ at[k] \in kept
    BY DEF Enumerates
  <2>3. ASSUME NEW i \in 1..(n + 1), i \in kept  PROVE \E k \in 1..Len(at) : at[k] = i
    <3>1. i \in 1..n
      BY <1>2, <2>3
    <3> QED
      BY <2>3, <3>1 DEF Enumerates
  <2>4. ~((1..(n + 1)) \subseteq kept)
    <3>1. n + 1 \in 1..(n + 1)
      OBVIOUS
    <3> QED
      BY <1>2, <3>1
  <2>5. \A k, l \in 1..Len(at) : k < l => at[k] < at[l]
    BY DEF Enumerates
  <2> QED
    BY <1>0, <1>2, <2>1, <2>2, <2>3, <2>4, <2>5 DEF Enumerates
<1> QED
  BY <1>1, <1>2

\* Positions and Select do what they say.
LEMMA PositionsAreExact ==
  ASSUME NEW seq, Len(seq) \in Nat, NEW kept
  PROVE  Enumerates(Positions(seq, kept), Len(seq), kept)
<1>1. PICK f \in [0..Len(seq) -> Seq(Nat)] :
           Positions(seq, kept) = f[Len(seq)] /\ Gathers(f, Len(seq), kept)
  BY PositionsRecursion
<1> DEFINE S == {n \in Nat : n <= Len(seq) => Enumerates(f[n], n, kept)}
<1>2. 0 \in S
  <2>1. <<>> \in Seq(Nat) /\ Len(<<>>) = 0 /\ 1..0 = {}
    OBVIOUS
  <2>2. Enumerates(<<>>, 0, kept)
    BY <2>1 DEF Enumerates
  <2> QED
    BY <1>1, <2>2 DEF Gathers
<1>3. ASSUME NEW n \in Nat, n \in S  PROVE n + 1 \in S
  <2> SUFFICES ASSUME n + 1 <= Len(seq)  PROVE Enumerates(f[n + 1], n + 1, kept)
    OBVIOUS
  <2>1. Enumerates(f[n], n, kept)
    BY <1>3
  <2>2. n + 1 \in 1..Len(seq) /\ (n + 1) - 1 = n
    OBVIOUS
  <2> DEFINE E(m) == IF m \in kept THEN <<m>> ELSE <<>>
  <2>3. \A m \in 1..Len(seq) : f[m] = f[m - 1] \o E(m)
    BY <1>1 DEF Gathers
  <2>4. Enumerates(f[n] \o E(n + 1), n + 1, kept)
    BY <2>1, EnumeratesNext
  <2> HIDE DEF E
  <2>5. f[n + 1] = f[n] \o E(n + 1)
    BY <2>2, <2>3
  <2> QED
    BY <2>4, <2>5
<1> HIDE DEF S
<1>4. Len(seq) \in S
  BY <1>2, <1>3, InductionOnNat
<1> QED
  BY <1>1, <1>4 DEF S

\* Select returns what is at these positions.
LEMMA SelectIsExact ==
  ASSUME NEW T, NEW seq \in Seq(T), NEW kept
  PROVE  LET at == Positions(seq, kept)
             new == Select(seq, kept)
         IN  /\ Enumerates(at, Len(seq), kept)
             /\ new \in Seq(T) /\ Len(new) = Len(at)
             /\ \A k \in 1..Len(new) : new[k] = seq[at[k]]
<1> DEFINE at == Positions(seq, kept)
<1>1. Len(seq) \in Nat
  OBVIOUS
<1>2. Enumerates(at, Len(seq), kept)
  BY <1>1, PositionsAreExact
<1>3. Select(seq, kept) = [k \in 1..Len(at) |-> seq[at[k]]]
  <2>1. {[k \in 1..Len(a) |-> seq[a[k]]] : a \in {at}} = {[k \in 1..Len(at) |-> seq[at[k]]]}
    OBVIOUS
  <2> QED
    BY <2>1 DEF Select
<1> HIDE DEF at
<1>4. at \in Seq(Nat) /\ Len(at) \in Nat /\ \A k \in 1..Len(at) : at[k] \in 1..Len(seq)
  BY <1>2 DEF Enumerates
<1>5. \A k \in 1..Len(at) : seq[at[k]] \in T
  BY <1>4
<1>6. Select(seq, kept) \in Seq(T) /\ Len(Select(seq, kept)) = Len(at)
  BY <1>3, <1>4, <1>5
<1> QED
  BY <1>2, <1>3, <1>4, <1>6 DEF at

\* All of a sequence is the sequence.
LEMMA SelectAll ==
  ASSUME NEW T, NEW seq \in Seq(T), NEW kept, 1..Len(seq) \subseteq kept
  PROVE  Select(seq, kept) = seq
<1> DEFINE at == Positions(seq, kept)
           new == Select(seq, kept)
<1>1. /\ Enumerates(at, Len(seq), kept)
      /\ new \in Seq(T) /\ Len(new) = Len(at)
      /\ \A k \in 1..Len(new) : new[k] = seq[at[k]]
  BY SelectIsExact
<1> HIDE DEF at, new
<1>2. Len(at) = Len(seq) /\ \A k \in 1..Len(seq) : at[k] = k
  BY <1>1 DEF Enumerates
<1>3. Len(new) = Len(seq) /\ \A k \in 1..Len(seq) : new[k] = seq[k]
  BY <1>1, <1>2
<1>4. new = seq
  BY <1>1, <1>3
<1> QED
  BY <1>4 DEF new

-----------------------------------------------------------------------------
(***************************************************************************)
(* _normalize_text.                                                        *)
(***************************************************************************)
\* Between two chosen positions none is chosen.
LEMMA NoneBetween ==
  ASSUME NEW at, NEW size \in Nat, NEW kept, Enumerates(at, size, kept),
         NEW k \in 1..Len(at), NEW l \in 1..Len(at), l = k + 1
  PROVE  \A i \in 1..size : at[k] < i /\ i < at[l] => i \notin kept
<1> SUFFICES ASSUME NEW i \in 1..size, at[k] < i, i < at[l], i \in kept  PROVE FALSE
  OBVIOUS
<1>0. at \in Seq(Nat) /\ Len(at) \in Nat /\ \A m \in 1..Len(at) : at[m] \in Nat
  <2>1. at \in Seq(Nat)
    BY Zenon DEF Enumerates
  <2> QED
    BY <2>1
<1>1. PICK m \in 1..Len(at) : at[m] = i
  BY DEF Enumerates
<1>2. \A x, y \in 1..Len(at) : x < y => at[x] < at[y]
  BY DEF Enumerates
<1>3. ~(m < k) /\ m # k /\ ~(l < m) /\ m # l
  BY <1>0, <1>1, <1>2
<1> QED
  BY <1>0, <1>1, <1>3

\* The position after a chosen one, if it is chosen too, comes next.
LEMMA NextChosen ==
  ASSUME NEW at, NEW size \in Nat, NEW kept, Enumerates(at, size, kept),
         NEW k \in 1..Len(at), at[k] + 1 \in 1..size, at[k] + 1 \in kept
  PROVE  k + 1 \in 1..Len(at) /\ at[k + 1] = at[k] + 1
<1>0. at \in Seq(Nat) /\ Len(at) \in Nat /\ \A m \in 1..Len(at) : at[m] \in Nat
  <2>1. at \in Seq(Nat)
    BY Zenon DEF Enumerates
  <2> QED
    BY <2>1
<1>1. PICK m \in 1..Len(at) : at[m] = at[k] + 1
  BY DEF Enumerates
<1>2. \A x, y \in 1..Len(at) : x < y => at[x] < at[y]
  BY DEF Enumerates
<1>3. ~(m < k) /\ m # k
  BY <1>0, <1>1, <1>2
<1>4. k < m
  BY <1>3
<1>5. k + 1 \in 1..Len(at)
  BY <1>0, <1>4
<1>6. at[k] < at[k + 1] /\ (k + 1 < m => at[k + 1] < at[m])
  BY <1>0, <1>2, <1>4, <1>5
<1>7. k + 1 = m
  BY <1>0, <1>1, <1>4, <1>5, <1>6
<1> QED
  BY <1>1, <1>5, <1>7

-----------------------------------------------------------------------------
RawChars == Chars \cup {"return", "null"}

\* Where the characters of a composed text come from: a character after one
\* that is no letter is never joined to it.
ComposedFrom(txt, new) ==
  \E at \in Seq(Nat) :
    /\ Len(new) = Len(at)
    /\ \A k \in 1..Len(at) :
         /\ at[k] \in 1..Len(txt)
         /\ \/ new[k] = txt[at[k]]
            \/ new[k] = "composed" /\ txt[at[k]] = "a"
    /\ \A k \in 1..Len(at) :
         at[k] < Len(txt) /\ txt[at[k]] # "a" =>
           k + 1 \in 1..Len(at) /\ at[k + 1] = at[k] + 1
    /\ Len(txt) > 0 => Len(at) > 0 /\ at[1] = 1

\* What composing makes of a text, and of which characters.
LEMMA ComposedIsExact ==
  ASSUME NEW S, NEW txt \in Seq(S), "composed" \in S
  PROVE  Composed(txt) \in Seq(S) /\ ComposedFrom(txt, Composed(txt))
<1> DEFINE Joins(i) == i > 1 /\ txt[i] = "mark" /\ txt[i - 1] = "a"
           Letter(i) == IF i < Len(txt) /\ Joins(i + 1) THEN "composed" ELSE txt[i]
           letters == [i \in 1..Len(txt) |-> Letter(i)]
           kept == {i \in 1..Len(txt) : ~Joins(i)}
           at == Positions(letters, kept)
           new == Select(letters, kept)
<1>1. Composed(txt) = new
  BY DEF Composed
<1>2. /\ letters \in Seq(S) /\ Len(letters) = Len(txt) /\ Len(txt) \in Nat
      /\ \A i \in 1..Len(txt) :
           /\ letters[i] = Letter(i)
           /\ \/ Letter(i) = txt[i]
              \/ Letter(i) = "composed" /\ txt[i] = "a"
  <2>1. \A i \in 1..Len(txt) :
          /\ Letter(i) \in S
          /\ \/ Letter(i) = txt[i]
             \/ Letter(i) = "composed" /\ txt[i] = "a"
    <3> SUFFICES ASSUME NEW i \in 1..Len(txt)
                 PROVE  /\ Letter(i) \in S
                        /\ \/ Letter(i) = txt[i]
                           \/ Letter(i) = "composed" /\ txt[i] = "a"
      OBVIOUS
    <3>1. (i + 1) - 1 = i /\ txt[i] \in S
      OBVIOUS
    <3>2. Joins(i + 1) => txt[i] = "a"
      BY <3>1
    <3> QED
      BY <3>1, <3>2
  <2> HIDE DEF Letter
  <2> QED
    BY <2>1
<1>3. /\ Enumerates(at, Len(txt), kept)
      /\ new \in Seq(S) /\ Len(new) = Len(at)
      /\ \A k \in 1..Len(new) : new[k] = letters[at[k]]
  <2>1. kept \subseteq 1..Len(letters)
    BY <1>2
  <2> HIDE DEF letters, kept
  <2> QED
    BY <1>2, <2>1, SelectIsExact
<1>4. /\ at \in Seq(Nat) /\ Len(at) \in Nat
      /\ \A k \in 1..Len(at) : at[k] \in Nat /\ at[k] \in 1..Len(txt)
      /\ \A k, l \in 1..Len(at) : k < l => at[k] < at[l]
      /\ \A i \in kept : \E k \in 1..Len(at) : at[k] = i
  <2> HIDE DEF letters, kept, at
  <2>1. at \in Seq(Nat)
    BY <1>3, Zenon DEF Enumerates
  <2>2. \A k \in 1..Len(at) : at[k] \in 1..Len(txt)
    BY <1>3 DEF Enumerates
  <2>3. \A k, l \in 1..Len(at) : k < l => at[k] < at[l]
    BY <1>3 DEF Enumerates
  <2>4. \A i \in kept : \E k \in 1..Len(at) : at[k] = i
    <3>1. kept \subseteq 1..Len(txt)
      BY DEF kept
    <3> QED
      BY <1>3, <3>1 DEF Enumerates
  <2> QED
    BY <2>1, <2>2, <2>3, <2>4
<1> HIDE DEF at, new, letters, Letter
<1>5. ASSUME NEW k \in 1..Len(at), at[k] < Len(txt), txt[at[k]] # "a"
      PROVE  k + 1 \in 1..Len(at) /\ at[k + 1] = at[k] + 1
  <2>1. at[k] + 1 \in 1..Len(txt) /\ (at[k] + 1) - 1 = at[k]
    BY <1>2, <1>4, <1>5
  <2>2. at[k] + 1 \in kept
    BY <1>5, <2>1
  <2> HIDE DEF kept
  <2> QED
    BY <1>2, <1>3, <2>1, <2>2, NextChosen
<1>6. ASSUME Len(txt) > 0
      PROVE  Len(at) > 0 /\ at[1] = 1
  <2>1. 1 \in kept
    BY <1>2, <1>6
  <2>2. PICK k \in 1..Len(at) : at[k] = 1
    BY <1>4, <2>1
  <2>3. 1 \in 1..Len(at) /\ (1 < k => at[1] < at[k])
    BY <1>4, <2>2
  <2> QED
    BY <1>4, <2>2, <2>3
<1>7. \A k \in 1..Len(at) :
        \/ new[k] = txt[at[k]]
        \/ new[k] = "composed" /\ txt[at[k]] = "a"
  <2> HIDE DEF kept
  <2> QED
    BY <1>2, <1>3, <1>4
<1> HIDE DEF kept
<1>8. ComposedFrom(txt, new)
  BY <1>3, <1>4, <1>5, <1>6, <1>7 DEF ComposedFrom
<1> QED
  BY <1>1, <1>3, <1>8

\* Once carriage returns are replaced there is one kind of newline.
LEMMA NewlinesAreOfOneKind ==
  ASSUME NEW txt \in Seq(RawChars)
  PROVE  OneKindOfNewline(txt) \in Seq(Chars \cup {"null"})
<1> DEFINE kept == {i \in 1..Len(txt) : ~(i > 1 /\ txt[i] = "newline" /\ txt[i - 1] = "return")}
           lines == Select(txt, kept)
<1>1. lines \in Seq(RawChars)
  BY SelectIsExact
<1>2. OneKindOfNewline(txt) =
        [i \in 1..Len(lines) |-> IF lines[i] = "return" THEN "newline" ELSE lines[i]]
  BY DEF OneKindOfNewline
<1> HIDE DEF lines
<1>3. \A i \in 1..Len(lines) :
        (IF lines[i] = "return" THEN "newline" ELSE lines[i]) \in Chars \cup {"null"}
  BY <1>1 DEF RawChars, Chars
<1> QED
  BY <1>1, <1>2, <1>3

\* Where there is one kind, it stays as it is.
LEMMA NewlinesAreKept ==
  ASSUME NEW txt \in Seq(Chars)
  PROVE  OneKindOfNewline(txt) = txt
<1> DEFINE kept == {i \in 1..Len(txt) : ~(i > 1 /\ txt[i] = "newline" /\ txt[i - 1] = "return")}
           lines == Select(txt, kept)
<1>0. \A i \in 1..Len(txt) : txt[i] # "return"
  BY DEF Chars
<1>1. 1..Len(txt) \subseteq kept
  <2> SUFFICES ASSUME NEW i \in 1..Len(txt), i > 1, txt[i - 1] = "return"  PROVE FALSE
    OBVIOUS
  <2>1. i - 1 \in 1..Len(txt)
    OBVIOUS
  <2> QED
    BY <1>0, <2>1
<1>2. lines = txt
  BY <1>1, SelectAll
<1>3. OneKindOfNewline(txt) =
        [i \in 1..Len(lines) |-> IF lines[i] = "return" THEN "newline" ELSE lines[i]]
  BY DEF OneKindOfNewline
<1> HIDE DEF lines
<1>4. OneKindOfNewline(txt) = [i \in 1..Len(txt) |-> txt[i]]
  BY <1>0, <1>2, <1>3
<1> QED
  BY <1>4

\* Then there is no null character.
LEMMA NullsAreDropped ==
  ASSUME NEW txt \in Seq(Chars \cup {"null"})
  PROVE  WithoutNulls(txt) \in Seq(Chars)
<1> DEFINE kept == {i \in 1..Len(txt) : txt[i] # "null"}
           at == Positions(txt, kept)
           new == Select(txt, kept)
<1>1. /\ Enumerates(at, Len(txt), kept)
      /\ new \in Seq(Chars \cup {"null"}) /\ Len(new) = Len(at)
      /\ \A k \in 1..Len(new) : new[k] = txt[at[k]]
  BY SelectIsExact
<1>2. WithoutNulls(txt) = new
  BY DEF WithoutNulls
<1>3. \A k \in 1..Len(at) : at[k] \in kept
  BY <1>1 DEF Enumerates
<1> HIDE DEF at, new
<1>4. \A k \in 1..Len(new) : new[k] \in Chars
  BY <1>1, <1>3
<1> QED
  BY <1>1, <1>2, <1>4

\* Where there is none, nothing is dropped.
LEMMA NoNullIsDropped ==
  ASSUME NEW txt \in Seq(Chars)
  PROVE  WithoutNulls(txt) = txt
<1>1. \A i \in 1..Len(txt) : txt[i] # "null"
  BY DEF Chars
<1> QED
  BY <1>1, SelectAll DEF WithoutNulls

\* After trimming no line ends with a space or a tab: a character is
\* only kept when something after it on its line is, or it is not blank.
LEMMA LinesAreTrimmed ==
  ASSUME NEW txt \in Seq(Chars)
  PROVE  WithTrimmedLines(txt) \in Seq(Chars) /\ IsTrimmed(WithTrimmedLines(txt))
<1> DEFINE Blank(i) == txt[i] \in {"space", "tab"}
           kept == {i \in 1..Len(txt) :
                      ~ \E e \in i..Len(txt) : EndsLine(txt, e) /\ \A j \in i..e : Blank(j)}
           at == Positions(txt, kept)
           new == Select(txt, kept)
<1>2. WithTrimmedLines(txt) = new
  BY DEF WithTrimmedLines
<1> HIDE DEF kept
<1>1. /\ Enumerates(at, Len(txt), kept)
      /\ new \in Seq(Chars) /\ Len(new) = Len(at)
      /\ \A k \in 1..Len(new) : new[k] = txt[at[k]]
  BY SelectIsExact
<1> HIDE DEF at, new
<1>3. \A k \in 1..Len(at) : at[k] \in 1..Len(txt) /\ at[k] \in kept
  BY <1>1 DEF Enumerates
<1>0. Len(txt) \in Nat /\ Len(new) \in Nat
  BY <1>1
<1>a. at \in Seq(Nat) /\ \A k \in 1..Len(at) : at[k] \in Nat
  BY <1>1 DEF Enumerates
<1> USE DEF kept
<1>4. ASSUME NEW k \in 1..Len(new), new[k] \in {"space", "tab"}
      PROVE  k < Len(new) /\ new[k + 1] # "newline"
  <2> DEFINE i == at[k]
             ends == {e \in i..Len(txt) : EndsLine(txt, e)}
  <2>1. i \in 1..Len(txt) /\ i \in kept /\ Blank(i) /\ i \in Nat
    BY <1>1, <1>3, <1>4
  <2> HIDE DEF i
  <2>2. Len(txt) \in ends
    BY <1>0, <2>1 DEF EndsLine
  <2>3. Min(ends) \in ends /\ \A e \in ends : Min(ends) <= e
    <3>1. ends \subseteq Nat
      BY <2>1
    <3> QED
      BY <2>2, <3>1, MinOfNats
  <2> DEFINE e == Min(ends)
  <2>4. e \in i..Len(txt) /\ EndsLine(txt, e)
    BY <2>3
  <2>5. \A j \in (i + 1)..e : txt[j] # "newline"
    <3> SUFFICES ASSUME NEW j \in (i + 1)..e, txt[j] = "newline"  PROVE FALSE
      OBVIOUS
    <3>1. j - 1 \in i..Len(txt) /\ (j - 1) + 1 = j
      BY <2>1, <2>4
    <3>2. j - 1 \in ends
      BY <3>1 DEF EndsLine
    <3>3. e <= j - 1
      BY <2>3, <3>2
    <3> QED
      BY <2>1, <2>4, <3>3
  <2> HIDE DEF ends, e
  <2>6. PICK j \in i..e : ~Blank(j)
    BY <2>1, <2>4
  <2>7. j \in 1..Len(txt) /\ i < j /\ j <= e /\ e <= Len(txt) /\ e \in Nat /\ j \in Nat
    <3>1. j # i
      BY <2>1, <2>6
    <3> QED
      BY <2>1, <2>4, <2>6, <3>1
  <2>8. j \in kept
    <3> SUFFICES ASSUME NEW f \in j..Len(txt), \A m \in j..f : Blank(m)  PROVE FALSE
      BY <2>7
    <3>1. j \in j..f
      BY <2>7
    <3> QED
      BY <2>6, <3>1
  <2>9. PICK m \in 1..Len(at) : at[m] = j
    BY <1>1, <2>7, <2>8 DEF Enumerates
  <2>10. k \in 1..Len(at) /\ k \in Nat /\ m \in Nat
    BY <1>1
  <2>11. \A x, y \in 1..Len(at) : x < y => at[x] < at[y]
    BY <1>1 DEF Enumerates
  <2>12. k < m
    <3>1. ~(m < k) /\ m # k
      BY <1>a, <2>7, <2>9, <2>10, <2>11 DEF i
    <3> QED
      BY <2>10, <3>1
  <2>13. k + 1 \in 1..Len(at)
    BY <2>9, <2>10, <2>12
  <2>14. at[k + 1] \in (i + 1)..e
    <3>1. at[k] < at[k + 1]
      BY <2>10, <2>11, <2>13
    <3>2. at[k + 1] <= at[m]
      <4>1. CASE k + 1 = m
        BY <1>a, <2>9, <4>1
      <4>2. CASE k + 1 < m
        BY <1>a, <2>9, <2>11, <2>13, <4>2
      <4> QED
        BY <2>10, <2>12, <4>1, <4>2
    <3> QED
      BY <1>a, <2>7, <2>9, <2>10, <2>13, <3>1, <3>2 DEF i
  <2>15. new[k + 1] = txt[at[k + 1]]
    BY <1>1, <2>13
  <2> QED
    BY <1>1, <2>5, <2>10, <2>13, <2>14, <2>15
<1> QED
  BY <1>1, <1>2, <1>4 DEF IsTrimmed, EndsLine

\* Trimmed lines stay as they are.
LEMMA TrimmedIsKept ==
  ASSUME NEW txt \in Seq(Chars), IsTrimmed(txt)
  PROVE  WithTrimmedLines(txt) = txt
<1> DEFINE kept == {i \in 1..Len(txt) :
                      ~ \E e \in i..Len(txt) : /\ EndsLine(txt, e)
                                               /\ \A j \in i..e : txt[j] \in {"space", "tab"}}
<1>1. 1..Len(txt) \subseteq kept
  <2> SUFFICES ASSUME NEW i \in 1..Len(txt), NEW e \in i..Len(txt),
                      EndsLine(txt, e), \A j \in i..e : txt[j] \in {"space", "tab"}
               PROVE  FALSE
    OBVIOUS
  <2>1. e \in i..e /\ e \in 1..Len(txt)
    OBVIOUS
  <2>2. e < Len(txt) /\ txt[e + 1] # "newline"
    BY <2>1 DEF IsTrimmed, EndsLine
  <2> QED
    BY <2>2 DEF EndsLine
<1> QED
  BY <1>1, SelectAll DEF WithTrimmedLines

\* After the last replacement no two blank lines follow one another, and the lines
\* are still trimmed.
LEMMA BlankLinesAreDropped ==
  ASSUME NEW txt \in Seq(Chars), IsTrimmed(txt)
  PROVE  /\ WithOneBlankLine(txt) \in Seq(Chars)
         /\ IsTrimmed(WithOneBlankLine(txt)) /\ BlankLinesAlone(WithOneBlankLine(txt))
<1> DEFINE kept == {i \in 1..Len(txt) : ~(i > 2 /\ \A j \in (i - 2)..i : txt[j] = "newline")}
           at == Positions(txt, kept)
           new == Select(txt, kept)
<1>1. WithOneBlankLine(txt) = new
  BY DEF WithOneBlankLine
<1>2. \A i \in 1..Len(txt) :
        i \in kept <=> ~(i > 2 /\ txt[i - 2] = "newline" /\ txt[i - 1] = "newline"
                         /\ txt[i] = "newline")
  <2> SUFFICES ASSUME NEW i \in 1..Len(txt)
               PROVE  i > 2 => ((\A j \in (i - 2)..i : txt[j] = "newline")
                                <=> /\ txt[i - 2] = "newline" /\ txt[i - 1] = "newline"
                                    /\ txt[i] = "newline")
    OBVIOUS
  <2>1. \A j \in (i - 2)..i : j = i - 2 \/ j = i - 1 \/ j = i
    OBVIOUS
  <2>2. i - 2 \in (i - 2)..i /\ i - 1 \in (i - 2)..i /\ i \in (i - 2)..i
    OBVIOUS
  <2> QED
    BY <2>1, <2>2
<1> HIDE DEF kept
<1>3. /\ Enumerates(at, Len(txt), kept)
      /\ new \in Seq(Chars) /\ Len(new) = Len(at)
      /\ \A k \in 1..Len(new) : new[k] = txt[at[k]]
  BY SelectIsExact
<1> HIDE DEF at, new
<1>4. /\ at \in Seq(Nat) /\ Len(at) \in Nat /\ Len(txt) \in Nat
      /\ \A k \in 1..Len(at) : at[k] \in Nat /\ at[k] \in 1..Len(txt) /\ at[k] \in kept
      /\ \A k, l \in 1..Len(at) : k < l => at[k] < at[l]
  <2>1. at \in Seq(Nat) /\ \A k \in 1..Len(at) : at[k] \in 1..Len(txt) /\ at[k] \in kept
    BY <1>3 DEF Enumerates
  <2>2. \A k, l \in 1..Len(at) : k < l => at[k] < at[l]
    BY <1>3 DEF Enumerates
  <2> QED
    BY <2>1, <2>2
<1>5. ASSUME NEW k \in 1..Len(new), new[k] \in {"space", "tab"}
      PROVE  k < Len(new) /\ new[k + 1] # "newline"
  <2>1. /\ at[k] \in 1..Len(txt) /\ txt[at[k]] \in {"space", "tab"} /\ k \in 1..Len(at)
    BY <1>3, <1>4, <1>5
  <2>2. at[k] < Len(txt) /\ txt[at[k] + 1] # "newline"
    BY <2>1 DEF IsTrimmed, EndsLine
  <2>3. at[k] + 1 \in 1..Len(txt) /\ at[k] + 1 \in kept
    BY <1>2, <2>1, <2>2
  <2>4. k + 1 \in 1..Len(at) /\ at[k + 1] = at[k] + 1
    BY <1>3, <1>4, <2>1, <2>3, NextChosen
  <2> QED
    BY <1>3, <1>4, <2>2, <2>4
<1>6. ASSUME NEW k \in 3..Len(new),
             new[k - 2] = "newline", new[k - 1] = "newline", new[k] = "newline"
      PROVE  FALSE
  <2>1. /\ k \in 1..Len(at) /\ k - 1 \in 1..Len(at) /\ k - 2 \in 1..Len(at)
        /\ (k - 1) + 1 = k /\ (k - 2) + 1 = k - 1
    BY <1>3
  <2> DEFINE p == at[k - 2]  q == at[k - 1]  i == at[k]
  <2>2. /\ p \in 1..Len(txt) /\ q \in 1..Len(txt) /\ i \in 1..Len(txt)
        /\ p < q /\ q < i /\ i \in kept
        /\ txt[p] = "newline" /\ txt[q] = "newline" /\ txt[i] = "newline"
    <3>1. /\ p \in 1..Len(txt) /\ q \in 1..Len(txt) /\ i \in 1..Len(txt) /\ i \in kept
      BY <1>4, <2>1
    <3>2. p < q /\ q < i
      <4>1. k - 2 < k - 1 /\ k - 1 < k
        OBVIOUS
      <4> QED
        BY <1>4, <2>1, <4>1
    <3>3. txt[p] = "newline" /\ txt[q] = "newline" /\ txt[i] = "newline"
      BY <1>3, <1>6, <2>1
    <3> QED
      BY <3>1, <3>2, <3>3
  <2>3. /\ \A m \in 1..Len(txt) : p < m /\ m < q => m \notin kept
        /\ \A m \in 1..Len(txt) : q < m /\ m < i => m \notin kept
    <3>1. \A a, b \in 1..Len(at) : b = a + 1 =>
            \A m \in 1..Len(txt) : at[a] < m /\ m < at[b] => m \notin kept
      BY <1>3, <1>4, NoneBetween
    <3>2. \A m \in 1..Len(txt) : at[k - 2] < m /\ m < at[k - 1] => m \notin kept
      <4> DEFINE a == k - 2  b == k - 1
      <4>1. a \in 1..Len(at) /\ b \in 1..Len(at) /\ b = a + 1
        BY <2>1
      <4> HIDE DEF a, b
      <4>2. \A m \in 1..Len(txt) : at[a] < m /\ m < at[b] => m \notin kept
        BY <3>1, <4>1
      <4> QED
        BY <4>2 DEF a, b
    <3>3. \A m \in 1..Len(txt) : at[k - 1] < m /\ m < at[k] => m \notin kept
      <4> DEFINE a == k - 1
      <4>1. a \in 1..Len(at) /\ k \in 1..Len(at) /\ k = a + 1
        BY <2>1
      <4> HIDE DEF a
      <4>2. \A m \in 1..Len(txt) : at[a] < m /\ m < at[k] => m \notin kept
        BY <3>1, <4>1
      <4> QED
        BY <4>2 DEF a
    <3> QED
      BY <3>2, <3>3
  <2> HIDE DEF p, q, i
  <2>4. \A m \in 1..Len(txt) :
          m \notin kept => /\ m > 2 /\ txt[m - 2] = "newline" /\ txt[m - 1] = "newline"
                           /\ txt[m] = "newline"
    BY <1>2
  <2>5. i > 2 => ~(txt[i - 2] = "newline" /\ txt[i - 1] = "newline")
    BY <1>2, <2>2
  <2>6. i - 1 = q
    <3> SUFFICES ASSUME i - 1 # q  PROVE FALSE
      OBVIOUS
    <3>1. i - 1 \in 1..Len(txt) /\ q < i - 1 /\ i - 1 < i
      BY <2>2
    <3>2. i - 1 > 2 /\ txt[(i - 1) - 1] = "newline" /\ txt[i - 1] = "newline"
      BY <2>3, <2>4, <3>1
    <3>3. (i - 1) - 1 = i - 2
      BY <2>2
    <3> QED
      BY <2>2, <2>5, <3>2, <3>3
  <2>7. i - 2 = p
    <3> SUFFICES ASSUME i - 2 # p  PROVE FALSE
      OBVIOUS
    <3>1. i - 2 \in 1..Len(txt) /\ p < i - 2 /\ i - 2 < q
      BY <2>2, <2>6
    <3>2. i - 2 > 2 /\ txt[i - 2] = "newline"
      BY <2>3, <2>4, <3>1
    <3> QED
      BY <2>2, <2>5, <2>6, <3>2
  <2> QED
    BY <2>2, <2>5, <2>6, <2>7
<1> QED
  BY <1>1, <1>3, <1>5, <1>6 DEF IsTrimmed, EndsLine, BlankLinesAlone

\* Where there are none, nothing is dropped.
LEMMA LoneBlankLinesAreKept ==
  ASSUME NEW txt \in Seq(Chars), BlankLinesAlone(txt)
  PROVE  WithOneBlankLine(txt) = txt
<1> DEFINE kept == {i \in 1..Len(txt) : ~(i > 2 /\ \A j \in (i - 2)..i : txt[j] = "newline")}
<1>1. 1..Len(txt) \subseteq kept
  <2> SUFFICES ASSUME NEW i \in 1..Len(txt), i > 2, \A j \in (i - 2)..i : txt[j] = "newline"
               PROVE  FALSE
    OBVIOUS
  <2>1. i - 2 \in (i - 2)..i /\ i - 1 \in (i - 2)..i /\ i \in (i - 2)..i /\ i \in 3..Len(txt)
    OBVIOUS
  <2> QED
    BY <2>1 DEF BlankLinesAlone
<1>2. WithOneBlankLine(txt) = Select(txt, kept)
  BY DEF WithOneBlankLine
<1> HIDE DEF kept
<1> QED
  BY <1>1, <1>2, SelectAll

-----------------------------------------------------------------------------
\* What is stripped of such a text is nothing or a text in normal form.
LEMMA StripKeepsForm ==
  ASSUME NEW txt \in Seq(Chars), IsTrimmed(txt), BlankLinesAlone(txt)
  PROVE  Strip(txt) = <<>> \/ InNormalForm(Strip(txt))
<1> DEFINE s == Stripped(txt, 0, Len(txt))
<1>0. Len(txt) \in Nat
  OBVIOUS
<1>1. \/ s = <<>>
      \/ \E first, last \in (0 + 1)..Len(txt) :
           /\ s = <<Piece(first, last)>>
           /\ first <= last /\ IsSolid(txt, first) /\ IsSolid(txt, last)
  BY <1>0, StrippedIsExact
<1>2. Strip(txt) = IF s = <<>> THEN <<>> ELSE SubSeq(txt, s[1].first, s[1].last)
  BY DEF Strip
<1> HIDE DEF s
<1>3. CASE s = <<>>
  BY <1>2, <1>3
<1>4. ASSUME NEW first \in 1..Len(txt), NEW last \in 1..Len(txt),
             s = <<Piece(first, last)>>,
             first <= last, IsSolid(txt, first), IsSolid(txt, last)
      PROVE  InNormalForm(Strip(txt))
  <2> DEFINE new == SubSeq(txt, first, last)
  <2>1. Strip(txt) = new
    BY <1>2, <1>4 DEF Piece
  <2>2. /\ new \in Seq(Chars) /\ Len(new) = last - first + 1
        /\ \A k \in 1..Len(new) : new[k] = txt[first + k - 1]
    BY <1>0, <1>4
  <2> HIDE DEF new
  <2>3. IsNormal(new)
    <3>1. 1 \in 1..Len(new) /\ Len(new) \in 1..Len(new) /\ Len(new) > 0
      BY <1>4, <2>2
    <3>2. new[1] = txt[first] /\ new[Len(new)] = txt[last]
      BY <2>2, <3>1
    <3> QED
      BY <1>4, <2>2, <3>1, <3>2 DEF IsNormal, IsSolid
  <2>4. ASSUME NEW k \in 1..Len(new), new[k] \in {"space", "tab"}
        PROVE  k < Len(new) /\ new[k + 1] # "newline"
    <3>1. first + k - 1 \in 1..Len(txt) /\ txt[first + k - 1] \in {"space", "tab"}
      BY <1>4, <2>2, <2>4
    <3>2. txt[(first + k - 1) + 1] # "newline"
      BY <3>1 DEF IsTrimmed, EndsLine
    <3>3. k # Len(new)
      <4> SUFFICES ASSUME k = Len(new)  PROVE FALSE
        OBVIOUS
      <4>1. first + k - 1 = last
        BY <1>4, <2>2
      <4> QED
        BY <1>4, <3>1, <4>1 DEF IsSolid, Whitespace
    <3>4. k + 1 \in 1..Len(new) /\ first + (k + 1) - 1 = (first + k - 1) + 1
      BY <1>4, <2>2, <3>3
    <3> QED
      BY <2>2, <3>2, <3>4
  <2>5. ASSUME NEW k \in 3..Len(new),
               new[k - 2] = "newline", new[k - 1] = "newline", new[k] = "newline"
        PROVE  FALSE
    <3> DEFINE i == first + k - 1
    <3>1. /\ k \in 1..Len(new) /\ k - 1 \in 1..Len(new) /\ k - 2 \in 1..Len(new)
          /\ first + (k - 1) - 1 = i - 1 /\ first + (k - 2) - 1 = i - 2 /\ i \in 3..Len(txt)
      BY <1>4, <2>2
    <3>2. txt[i] = "newline" /\ txt[i - 1] = "newline" /\ txt[i - 2] = "newline"
      BY <2>2, <2>5, <3>1
    <3> QED
      BY <3>1, <3>2 DEF BlankLinesAlone
  <2> QED
    BY <2>1, <2>3, <2>4, <2>5 DEF InNormalForm, IsTrimmed, EndsLine, BlankLinesAlone
<1> QED
  BY <1>1, <1>3, <1>4

\* There is nothing to strip of normalized text.
LEMMA NormalIsKept ==
  ASSUME NEW txt, IsNormal(txt)
  PROVE  Strip(txt) = txt
<1> DEFINE s == Stripped(txt, 0, Len(txt))
           solid == {i \in (0 + 1)..Len(txt) : IsSolid(txt, i)}
<1>0. txt \in Seq(Chars) /\ Len(txt) \in Nat \ {0} /\ IsSolid(txt, 1) /\ IsSolid(txt, Len(txt))
  BY NormalFacts
<1>1. 1 \in solid /\ Len(txt) \in solid /\ solid \subseteq Nat
      /\ \A k \in solid : 1 <= k /\ k <= Len(txt)
  BY <1>0
<1>2. s = IF solid = {} THEN <<>> ELSE <<Piece(Min(solid), Max(solid))>>
  BY DEF Stripped
<1> HIDE DEF solid
<1>3. Min(solid) = 1
  <2>1. Min(solid) \in solid /\ Min(solid) <= 1
    BY <1>1, MinOfNats
  <2>2. Min(solid) \in Nat /\ 1 <= Min(solid)
    BY <1>1, <2>1
  <2> QED
    BY <2>1, <2>2
<1>4. Max(solid) = Len(txt)
  <2>1. Max(solid) \in solid /\ Len(txt) <= Max(solid)
    BY <1>0, <1>1, MaxOfNats
  <2>2. Max(solid) \in Nat /\ Max(solid) <= Len(txt)
    BY <1>1, <2>1
  <2> QED
    BY <1>0, <2>1, <2>2
<1>5. s = <<Piece(1, Len(txt))>>
  BY <1>1, <1>2, <1>3, <1>4
<1>6. Strip(txt) = IF s = <<>> THEN <<>> ELSE SubSeq(txt, s[1].first, s[1].last)
  BY DEF Strip
<1> HIDE DEF s
<1>7. Strip(txt) = SubSeq(txt, 1, Len(txt))
  BY <1>5, <1>6 DEF Piece
<1> QED
  BY <1>0, <1>7

\* A letter and its mark are not white space: composing them leaves a text in
\* normal form.
LEMMA ComposedKeepsForm ==
  ASSUME NEW txt, InNormalForm(txt)
  PROVE  InNormalForm(Composed(txt))
<1>1. txt \in Seq(Chars) /\ IsTrimmed(txt) /\ BlankLinesAlone(txt) /\ IsNormal(txt)
  BY DEF InNormalForm, IsNormal
<1>2. /\ Len(txt) \in Nat /\ Len(txt) > 0
      /\ IsSolid(txt, 1) /\ IsSolid(txt, Len(txt))
  BY <1>1, NormalFacts
<1> DEFINE new == Composed(txt)
<1>3. new \in Seq(Chars) /\ ComposedFrom(txt, new)
  <2>1. "composed" \in Chars
    BY DEF Chars
  <2> QED
    BY <1>1, <2>1, ComposedIsExact
<1> HIDE DEF new
<1>4. PICK at \in Seq(Nat) :
        /\ Len(new) = Len(at)
        /\ \A k \in 1..Len(at) :
             /\ at[k] \in 1..Len(txt)
             /\ \/ new[k] = txt[at[k]]
                \/ new[k] = "composed" /\ txt[at[k]] = "a"
        /\ \A k \in 1..Len(at) :
             at[k] < Len(txt) /\ txt[at[k]] # "a" =>
               k + 1 \in 1..Len(at) /\ at[k + 1] = at[k] + 1
        /\ Len(txt) > 0 => Len(at) > 0 /\ at[1] = 1
  BY <1>3 DEF ComposedFrom
<1>5. IsNormal(new)
  <2>1. 1 \in 1..Len(new) /\ Len(new) \in 1..Len(new) /\ Len(new) \in Nat
    BY <1>2, <1>3, <1>4
  <2>2. new[1] \notin Whitespace
    BY <1>2, <1>4, <2>1 DEF IsSolid, Whitespace
  <2>3. new[Len(new)] \notin Whitespace
    <3> DEFINE n == Len(new)
    <3> SUFFICES ASSUME new[n] \in Whitespace  PROVE FALSE
      OBVIOUS
    <3>1. n \in 1..Len(at) /\ at[n] \in 1..Len(txt)
      BY <1>4, <2>1
    <3>2. new[n] # "composed" /\ txt[at[n]] \in Whitespace /\ txt[at[n]] # "a"
      BY <1>4, <3>1 DEF Whitespace
    <3>3. at[n] < Len(txt)
      BY <1>2, <3>1, <3>2 DEF IsSolid
    <3> QED
      BY <1>4, <2>1, <3>1, <3>2, <3>3
  <2> QED
    BY <1>3, <2>1, <2>2, <2>3 DEF IsNormal, IsSolid
<1>6. ASSUME NEW k \in 1..Len(new), new[k] \in {"space", "tab"}
      PROVE  k < Len(new) /\ new[k + 1] # "newline"
  <2>1. k \in 1..Len(at) /\ at[k] \in 1..Len(txt) /\ txt[at[k]] \in {"space", "tab"}
    BY <1>4, <1>6
  <2>2. at[k] < Len(txt) /\ txt[at[k] + 1] # "newline"
    BY <1>1, <1>2, <2>1 DEF IsTrimmed, EndsLine
  <2>3. k + 1 \in 1..Len(at) /\ at[k + 1] = at[k] + 1
    BY <1>4, <2>1, <2>2
  <2> QED
    BY <1>4, <2>2, <2>3
<1>7. ASSUME NEW k \in 3..Len(new),
             new[k - 2] = "newline", new[k - 1] = "newline", new[k] = "newline"
      PROVE  FALSE
  <2> DEFINE i == k - 2  j == k - 1
  <2>1. /\ i \in 1..Len(at) /\ j \in 1..Len(at) /\ k \in 1..Len(at)
        /\ i + 1 = j /\ j + 1 = k
        /\ new[i] = "newline" /\ new[j] = "newline" /\ new[k] = "newline"
    BY <1>4, <1>7
  <2> HIDE DEF i, j
  <2>2. /\ at[i] \in 1..Len(txt) /\ at[j] \in 1..Len(txt) /\ at[k] \in 1..Len(txt)
        /\ txt[at[i]] = "newline" /\ txt[at[j]] = "newline" /\ txt[at[k]] = "newline"
    BY <1>4, <2>1
  <2>3. at[i] < Len(txt) /\ at[j] < Len(txt)
    BY <1>2, <2>2 DEF IsSolid, Whitespace
  <2>4. at[j] = at[i] + 1
    BY <1>4, <2>1, <2>2, <2>3
  <2>5. at[k] = at[j] + 1
    BY <1>4, <2>1, <2>2, <2>3
  <2> DEFINE m == at[k]
  <2>6. m \in 3..Len(txt) /\ at[j] = m - 1 /\ at[i] = m - 2
    BY <1>2, <2>2, <2>4, <2>5
  <2> QED
    BY <1>1, <2>2, <2>6 DEF BlankLinesAlone
<1> QED
  BY <1>3, <1>5, <1>6, <1>7 DEF new, InNormalForm, IsTrimmed, EndsLine, BlankLinesAlone

\* The six steps.
LEMMA NormalizeInSteps ==
  ASSUME NEW txt
  PROVE  Normalize(txt) =
           Strip(WithOneBlankLine(WithTrimmedLines(
             WithoutNulls(OneKindOfNewline(Composed(txt))))))
BY DEF Normalize

\* What comes out of _normalize_text is in normal form, and normalizing it
\* again only composes it.
LEMMA NormalizeIsNormal ==
  ASSUME NEW txt \in Texts
  PROVE  Normalize(txt) = <<>> \/ InNormalForm(Normalize(txt))
<1> DEFINE nfc == Composed(txt)
           one == OneKindOfNewline(nfc)
           clean == WithoutNulls(one)
           lines == WithTrimmedLines(clean)
           short == WithOneBlankLine(lines)
<1>1. txt \in Seq(RawChars)
  <2>1. RawChars = Chars \cup {"return", "null"}
    BY DEF RawChars
  <2> QED
    BY <2>1 DEF Texts
<1>2. nfc \in Seq(RawChars)
  <2>1. "composed" \in RawChars
    BY DEF RawChars, Chars
  <2> QED
    BY <1>1, <2>1, ComposedIsExact
<1> HIDE DEF nfc
<1>3. one \in Seq(Chars \cup {"null"})
  BY <1>2, NewlinesAreOfOneKind
<1> HIDE DEF one
<1>4. clean \in Seq(Chars)
  BY <1>3, NullsAreDropped
<1> HIDE DEF clean
<1>5. lines \in Seq(Chars) /\ IsTrimmed(lines)
  BY <1>4, LinesAreTrimmed
<1> HIDE DEF lines
<1>6. short \in Seq(Chars) /\ IsTrimmed(short) /\ BlankLinesAlone(short)
  BY <1>5, BlankLinesAreDropped
<1> HIDE DEF short
<1>7. Strip(short) = <<>> \/ InNormalForm(Strip(short))
  BY <1>6, StripKeepsForm
<1>8. Normalize(txt) = Strip(short)
  BY NormalizeInSteps DEF short, lines, clean, one, nfc
<1> QED
  BY <1>7, <1>8

\* A text in normal form is only composed.
LEMMA NormalFormIsKept ==
  ASSUME NEW txt, InNormalForm(txt)
  PROVE  Normalize(txt) = Composed(txt)
<1> DEFINE nfc == Composed(txt)
<1>1. InNormalForm(nfc)
  BY ComposedKeepsForm
<1>2. Normalize(txt) =
        Strip(WithOneBlankLine(WithTrimmedLines(WithoutNulls(OneKindOfNewline(nfc)))))
  BY NormalizeInSteps
<1> HIDE DEF nfc
<1>3. nfc \in Seq(Chars) /\ IsTrimmed(nfc) /\ BlankLinesAlone(nfc) /\ IsNormal(nfc)
  BY <1>1 DEF InNormalForm, IsNormal
<1>4. OneKindOfNewline(nfc) = nfc
  BY <1>3, NewlinesAreKept
<1>5. WithoutNulls(nfc) = nfc
  BY <1>3, NoNullIsDropped
<1>6. WithTrimmedLines(nfc) = nfc
  BY <1>3, TrimmedIsKept
<1>7. WithOneBlankLine(nfc) = nfc
  BY <1>3, LoneBlankLinesAreKept
<1>8. Strip(nfc) = nfc
  BY <1>3, NormalIsKept
<1> QED
  BY <1>2, <1>4, <1>5, <1>6, <1>7, <1>8 DEF nfc

-----------------------------------------------------------------------------
(***************************************************************************)
(* The upload.                                                             *)
(***************************************************************************)
\* The name of an accepted upload.
NameStorable(name, canonical) ==
  /\ Len(name) \in 1..MaxName
  /\ \A i \in 1..Len(name) : name[i] \notin {"/", "\\", "control"}
  /\ \E e \in Extensions : Suffix(name) = <<e>> /\ canonical = Canonical[e]

\* The last part of a path holds no separator.
LEMMA BasenameIsSafe ==
  ASSUME NEW name \in Seq(STRING)
  PROVE  /\ Basename(name) \in Seq(STRING)
         /\ \A i \in 1..Len(Basename(name)) : Basename(name)[i] \notin {"/", "\\"}
<1> DEFINE separators == {i \in 1..Len(name) : name[i] \in {"/", "\\"}}
           last == Max(separators \cup {0})
           base == SubSeq(name, last + 1, Len(name))
<1>0. Len(name) \in Nat
  OBVIOUS
<1>1. /\ last \in separators \cup {0}
      /\ \A k \in separators \cup {0} : k <= last
  <2>1. separators \cup {0} \subseteq Nat /\ \A k \in separators \cup {0} : k <= Len(name)
    BY <1>0
  <2> HIDE DEF separators
  <2> QED
    BY <1>0, <2>1, MaxOfNats
<1>2. last \in 0..Len(name)
  BY <1>0, <1>1
<1>3. Basename(name) = base
  BY DEF Basename
<1>4. \A k \in 1..Len(name) : last < k => name[k] \notin {"/", "\\"}
  BY <1>1, <1>2
<1> HIDE DEF last
<1>5. /\ base \in Seq(STRING) /\ Len(base) = Len(name) - last
      /\ \A i \in 1..Len(base) : base[i] = name[last + i]
  BY <1>0, <1>2
<1> HIDE DEF base
<1>6. \A i \in 1..Len(base) : base[i] \notin {"/", "\\"}
  <2> SUFFICES ASSUME NEW i \in 1..Len(base)  PROVE base[i] \notin {"/", "\\"}
    OBVIOUS
  <2>1. last + i \in 1..Len(name) /\ last < last + i
    BY <1>0, <1>2, <1>5
  <2> QED
    BY <1>4, <1>5, <2>1
<1> QED
  BY <1>3, <1>5, <1>6

\* Neither does a sanitized name, and no control character.
LEMMA SafeNameIsSafe ==
  ASSUME NEW name \in Seq(STRING)
  PROVE  /\ SafeName(name) \in Seq(STRING)
         /\ \A i \in 1..Len(SafeName(name)) : SafeName(name)[i] \notin {"/", "\\", "control"}
<1> DEFINE base == Basename(name)
           solid == {i \in 1..Len(base) : base[i] \notin {"control", "space"}}
           kept == {i \in 1..Len(base) : /\ base[i] # "control"
                                         /\ \E m, n \in solid : m <= i /\ i <= n}
           at == Positions(base, kept)
           safe == Select(base, kept)
<1>1. base \in Seq(STRING) /\ \A i \in 1..Len(base) : base[i] \notin {"/", "\\"}
  BY BasenameIsSafe
<1>2. SafeName(name) = safe
  BY DEF SafeName
<1>3. \A i \in kept : base[i] # "control"
  OBVIOUS
<1> HIDE DEF base, kept
<1>4. /\ Enumerates(at, Len(base), kept)
      /\ safe \in Seq(STRING) /\ Len(safe) = Len(at)
      /\ \A k \in 1..Len(safe) : safe[k] = base[at[k]]
  BY <1>1, SelectIsExact
<1> HIDE DEF at, safe
<1>5. \A k \in 1..Len(at) : at[k] \in 1..Len(base) /\ at[k] \in kept
  BY <1>4 DEF Enumerates
<1>6. \A k \in 1..Len(safe) : safe[k] \notin {"/", "\\", "control"}
  BY <1>1, <1>3, <1>4, <1>5
<1> QED
  BY <1>2, <1>4, <1>6

\* An upload that is accepted has a type an extractor reads and a name that can
\* be stored.
LEMMA AcceptedNames ==
  ASSUME NEW name \in Seq(STRING), NEW declared,
         IsNameValid(SafeName(name)), CanonicalType(SafeName(name), declared) # NoType
  PROVE  /\ NameStorable(SafeName(name), CanonicalType(SafeName(name), declared))
         /\ CanonicalType(SafeName(name), declared) \in {Canonical[e] : e \in Extensions}
<1> DEFINE safe == SafeName(name)
           allowed == {e \in Extensions : Suffix(safe) = <<e>> /\ declared \in Allowed[e]}
<1>1. /\ safe \in Seq(STRING)
      /\ \A i \in 1..Len(safe) : safe[i] \notin {"/", "\\", "control"}
  BY SafeNameIsSafe
<1>2. safe # <<>> /\ Len(safe) <= MaxName
  BY DEF IsNameValid
<1>3. CanonicalType(safe, declared) = IF allowed = {} THEN NoType
                                      ELSE Canonical[CHOOSE e \in allowed : TRUE]
  BY DEF CanonicalType
<1>4. allowed # {}
  BY <1>3
<1>5. PICK e \in allowed : Canonical[CHOOSE x \in allowed : TRUE] = Canonical[e]
  BY <1>4
<1>6. Suffix(safe) = <<e>> /\ e \in Extensions
  OBVIOUS
<1> HIDE DEF safe, allowed
<1>7. Len(safe) \in 1..MaxName
  BY <1>1, <1>2, NameAssumption
<1>8. CanonicalType(safe, declared) = Canonical[e]
  BY <1>3, <1>4, <1>5
<1> QED
  BY <1>1, <1>6, <1>7, <1>8 DEF safe, NameStorable

-----------------------------------------------------------------------------
(***************************************************************************)
(* Reading.                                                                *)
(***************************************************************************)
\* The paragraphs of a text are texts.
LEMMA ParagraphsAreTexts ==
  ASSUME NEW txt \in Texts
  PROVE  Paragraphs(txt) \in Seq(Texts)
<1> DEFINE starts == {i \in 1..Len(txt) : ~Separates(txt, i) /\ (i > 1 => Separates(txt, i - 1))}
           ends(i) == {e \in i..Len(txt) : \A m \in i..e : ~Separates(txt, m)}
           at == Positions(txt, starts)
<1>1. Paragraphs(txt) = [k \in 1..Len(at) |-> SubSeq(txt, at[k], Max(ends(at[k])))]
  BY DEF Paragraphs
<1>2. Len(txt) \in Nat
  BY DEF Texts
<1>3. \A i \in starts : i \in 1..Len(txt) /\ ~Separates(txt, i)
  OBVIOUS
<1> HIDE DEF starts
<1>4. Enumerates(at, Len(txt), starts)
  BY <1>2, PositionsAreExact
<1> HIDE DEF at
<1>5. Len(at) \in Nat /\ \A k \in 1..Len(at) : at[k] \in 1..Len(txt) /\ at[k] \in starts
  BY <1>4 DEF Enumerates
<1>6. ASSUME NEW i \in 1..Len(txt), ~Separates(txt, i)
      PROVE  SubSeq(txt, i, Max(ends(i))) \in Texts
  <2>1. /\ i \in ends(i) /\ ends(i) \subseteq Nat
        /\ \A e \in ends(i) : e \in i..Len(txt) /\ e <= Len(txt)
    BY <1>2, <1>6
  <2> HIDE DEF ends
  <2>2. Max(ends(i)) \in ends(i)
    BY <1>2, <2>1, MaxOfNats
  <2>3. Max(ends(i)) \in 1..Len(txt)
    BY <1>2, <2>1, <2>2
  <2> QED
    BY <1>2, <2>3 DEF Texts
<1> HIDE DEF ends
<1>7. \A k \in 1..Len(at) : SubSeq(txt, at[k], Max(ends(at[k]))) \in Texts
  BY <1>3, <1>5, <1>6
<1> QED
  BY <1>1, <1>5, <1>7

-----------------------------------------------------------------------------
(***************************************************************************)
(* Lengths.                                                                *)
(***************************************************************************)
PartSet == [of : Nat, first : Nat, last : Nat]

\* Parts of some length have a length together, and one part has its own.
LEMMA BodyLengthIsLength ==
  ASSUME NEW ps \in Seq(PartSet), ps # <<>>,
         \A m \in 1..Len(ps) : ps[m].first <= ps[m].last
  PROVE  /\ BodyLength(ps) \in Nat /\ BodyLength(ps) >= 1
         /\ Len(ps) = 1 => BodyLength(ps) = ps[1].last - ps[1].first + 1
<1> DEFINE size(n) == ps[n].last - ps[n].first + 1
           upTo[n \in 0..Len(ps)] ==
             IF n = 0 THEN 0 ELSE upTo[n - 1] + ps[n].last - ps[n].first + 1
           step == [n \in Nat |-> [v \in Int |-> IF n \in 1..Len(ps)
                                                 THEN v + ps[n].last - ps[n].first + 1 ELSE 0]]
<1>0. Len(ps) \in Nat \ {0}
  OBVIOUS
<1>1. BodyLength(ps) = upTo[Len(ps)] + 2 * (Len(ps) - 1)
  BY DEF BodyLength
<1>2. \A n \in 1..Len(ps) : /\ ps[n].first \in Int /\ ps[n].last \in Int
                            /\ size(n) \in Int /\ size(n) >= 1
  <2> SUFFICES ASSUME NEW n \in 1..Len(ps)
               PROVE  ps[n].first \in Nat /\ ps[n].last \in Nat
    OBVIOUS
  <2>1. ps[n] \in PartSet
    OBVIOUS
  <2> QED
    BY <2>1 DEF PartSet
<1>3. \A n \in Nat, v \in Int :
        step[n][v] = IF n \in 1..Len(ps) THEN v + ps[n].last - ps[n].first + 1 ELSE 0
  OBVIOUS
<1> HIDE DEF step
<1>4. StaysIn(step, Int)
  <2> SUFFICES ASSUME NEW n \in Nat, NEW v \in Int  PROVE step[n][v] \in Int
    BY DEF StaysIn
  <2>1. CASE n \in 1..Len(ps)
    <3>1. step[n][v] = v + ps[n].last - ps[n].first + 1
      BY <1>3, <2>1
    <3> QED
      BY <1>2, <2>1, <3>1
  <2>2. CASE n \notin 1..Len(ps)
    BY <1>3, <2>2
  <2> QED
    BY <2>1, <2>2
<1>5. PICK f \in [0..Len(ps) -> Int] : Follows(f, Len(ps), 0, step)
  <2> DEFINE V == Int
  <2>1. 0 \in V /\ StaysIn(step, V) /\ Len(ps) \in Nat
    BY <1>0, <1>4
  <2> HIDE DEF V
  <2>2. \E f \in [0..Len(ps) -> V] : Follows(f, Len(ps), 0, step)
    BY <2>1, RecursionExists
  <2> QED
    BY <2>2 DEF V
<1>6. f[0] = 0 /\ \A n \in 1..Len(ps) : f[n] = f[n - 1] + ps[n].last - ps[n].first + 1
  <2>1. ASSUME NEW n \in 1..Len(ps)  PROVE f[n - 1] \in Int /\ n \in Nat
    <3>1. n - 1 \in 0..Len(ps)
      BY <1>0
    <3> QED
      BY <3>1
  <2> QED
    BY <1>3, <1>5, <2>1 DEF Follows
<1>7. f = [n \in 0..Len(ps) |-> IF n = 0 THEN 0 ELSE f[n - 1] + ps[n].last - ps[n].first + 1]
  BY <1>6
<1>8. upTo = [n \in 0..Len(ps) |-> IF n = 0 THEN 0 ELSE upTo[n - 1] + ps[n].last - ps[n].first + 1]
  BY <1>7
<1> HIDE DEF upTo
<1>9. upTo[0] = 0 /\ \A n \in 1..Len(ps) : upTo[n] = upTo[n - 1] + ps[n].last - ps[n].first + 1
  <2>1. 0 \in 0..Len(ps) /\ \A n \in 1..Len(ps) : n \in 0..Len(ps) /\ n # 0
    BY <1>0
  <2> QED
    BY <1>8, <2>1
<1> DEFINE S == {n \in Nat : n <= Len(ps) => upTo[n] \in Nat /\ upTo[n] >= n}
<1>10. 0 \in S
  BY <1>9
<1>11. ASSUME NEW n \in Nat, n \in S  PROVE n + 1 \in S
  <2> SUFFICES ASSUME n + 1 <= Len(ps)  PROVE upTo[n + 1] \in Nat /\ upTo[n + 1] >= n + 1
    OBVIOUS
  <2>1. n + 1 \in 1..Len(ps) /\ (n + 1) - 1 = n
    BY <1>0
  <2>2. upTo[n] \in Nat /\ upTo[n] >= n
    BY <1>0, <1>11
  <2>3. upTo[n + 1] = upTo[n] + ps[n + 1].last - ps[n + 1].first + 1
    BY <1>9, <2>1
  <2> DEFINE a == ps[n + 1].first  b == ps[n + 1].last
  <2>4. a \in Int /\ b \in Int /\ a <= b
    BY <1>2, <2>1
  <2> HIDE DEF a, b
  <2>5. upTo[n + 1] = upTo[n] + b - a + 1
    BY <2>3 DEF a, b
  <2> QED
    BY <2>2, <2>4, <2>5
<1> HIDE DEF S
<1>12. Len(ps) \in S
  BY <1>0, <1>10, <1>11, InductionOnNat
<1>13. upTo[Len(ps)] \in Nat /\ upTo[Len(ps)] >= Len(ps)
  BY <1>0, <1>12 DEF S
<1>14. ASSUME Len(ps) = 1  PROVE BodyLength(ps) = ps[1].last - ps[1].first + 1
  <2>1. upTo[1] = upTo[0] + ps[1].last - ps[1].first + 1
    BY <1>9, <1>14
  <2> QED
    BY <1>1, <1>2, <1>9, <1>14, <2>1
<1> QED
  BY <1>0, <1>1, <1>13, <1>14

-----------------------------------------------------------------------------
(***************************************************************************)
(* Blocks as they are normalized, and the runs of them.                    *)
(***************************************************************************)
\* Headings as they are written.
HeadingAt(its, k) == its[k].kind = "inline" /\ k > 1 /\ its[k - 1].kind = "heading_open"

HeadingRead(its, item) ==
  LET above == {k \in 1..item : HeadingAt(its, k)} IN
  IF above = {} THEN NoHeading ELSE its[Max(above)].text

Kinds == {"heading", "paragraph", "code"}
PageOf(b) == IF type = "application/pdf" THEN b.item ELSE NoPage
Heads == type = "text/markdown" /\ ~HasEmptyHeading

NormalBlock ==
  [kind : Kinds, text : Seq(Chars), page : Nat, heading : Seq(Chars) \cup {NoHeading}, item : Nat]

\* A block comes from where it says.
Sourced(b) ==
  /\ b.page = PageOf(b)
  /\ Heads => b.heading = HeadingAbove(b.item)

\* A block as normalization leaves it.
Settled(b) ==
  /\ InNormalForm(b.text)
  /\ b.heading \in {NoHeading, <<>>} \/ InNormalForm(b.heading)
  /\ b.kind = "heading" => b.heading = b.text
  /\ Sourced(b)

BlocksSettled ==
  /\ blocks \in Seq(NormalBlock) /\ blocks # <<>>
  /\ \A k \in 1..Len(blocks) : Settled(blocks[k])

-----------------------------------------------------------------------------
\* A run is an interval of the blocks; they have one page and one heading.
LEMMA RunsAreUniform ==
  ASSUME BlocksSettled, NEW from \in 1..Len(blocks)
  PROVE  /\ RunEnd(from) \in from..Len(blocks) /\ from \in Run(from)
         /\ Run(from) \subseteq 1..Len(blocks)
         /\ \A k \in Run(from) : /\ blocks[k].page = blocks[from].page
                                 /\ blocks[k].heading = blocks[from].heading
<1> DEFINE ends == {to \in from..Len(blocks) : \A k \in from..to : Key(k) = Key(from)}
<1>0. Len(blocks) \in Nat
  BY DEF BlocksSettled
<1>1. from \in ends
  <2>1. \A k \in from..from : k = from
    OBVIOUS
  <2> QED
    BY <1>0, <2>1
<1>2. ends \subseteq Nat /\ \A e \in ends : e <= Len(blocks)
  BY <1>0
<1>3. RunEnd(from) = Max(ends)
  BY DEF RunEnd
<1>4. \A e \in ends : e \in from..Len(blocks) /\ \A k \in from..e : Key(k) = Key(from)
  OBVIOUS
<1> HIDE DEF ends
<1>5. RunEnd(from) \in ends
  BY <1>0, <1>1, <1>2, <1>3, MaxOfNats
<1>6. RunEnd(from) \in from..Len(blocks) /\ \A k \in Run(from) : Key(k) = Key(from)
  BY <1>4, <1>5 DEF Run
<1>7. Run(from) \subseteq 1..Len(blocks) /\ from \in Run(from)
  BY <1>0, <1>6 DEF Run
<1>8. \A k \in Run(from) : /\ blocks[k].page = blocks[from].page
                           /\ blocks[k].heading = blocks[from].heading
  BY <1>6 DEF Key
<1> QED
  BY <1>6, <1>7, <1>8

\* What is known of a block.
LEMMA BlockTypes ==
  ASSUME BlocksSettled, NEW k \in 1..Len(blocks)
  PROVE  /\ blocks[k].kind \in Kinds /\ blocks[k].text \in Seq(Chars) /\ blocks[k].page \in Nat
         /\ blocks[k].heading \in Seq(Chars) \cup {NoHeading} /\ Len(blocks[k].heading) \in Nat
         /\ IsNormal(blocks[k].text)
         /\ HasHeading(blocks[k].heading) => IsNormal(blocks[k].heading)
         /\ blocks[k].kind = "heading" => /\ blocks[k].heading = blocks[k].text
                                          /\ HasHeading(blocks[k].heading)
<1>1. blocks[k] \in NormalBlock /\ Settled(blocks[k])
  BY DEF BlocksSettled
<1>2. /\ blocks[k].kind \in Kinds /\ blocks[k].text \in Seq(Chars) /\ blocks[k].page \in Nat
      /\ blocks[k].heading \in Seq(Chars) \cup {NoHeading}
  BY <1>1 DEF NormalBlock
<1>3. Len(blocks[k].heading) \in Nat
  BY <1>2 DEF NoHeading
<1>4. IsNormal(blocks[k].text)
  BY <1>1 DEF Settled, InNormalForm
<1>5. HasHeading(blocks[k].heading) => IsNormal(blocks[k].heading)
  BY <1>1 DEF Settled, InNormalForm, HasHeading
<1>6. ASSUME blocks[k].kind = "heading"
      PROVE  blocks[k].heading = blocks[k].text /\ HasHeading(blocks[k].heading)
  <2>1. blocks[k].heading = blocks[k].text
    BY <1>1, <1>6 DEF Settled
  <2>2. blocks[k].text \in Seq(Chars) /\ Len(blocks[k].text) > 0 /\ IsSolid(blocks[k].text, 1)
    BY <1>4 DEF IsNormal
  <2>3. blocks[k].text # <<>>
    BY <2>2
  <2>4. blocks[k].text # NoHeading
    <3>1. blocks[k].text[1] \in Chars
      BY <2>2
    <3>2. NoHeading[1] \notin Chars
      BY DEF NoHeading, Chars
    <3> QED
      BY <3>1, <3>2
  <2> QED
    BY <2>1, <2>3, <2>4 DEF HasHeading
<1> QED
  BY <1>2, <1>3, <1>4, <1>5, <1>6

\* The bodies of a run: in order, one for each block but the headings, or the
\* heading alone; each of them normal.
Bodies(from, g) ==
  /\ g.bodies \in Seq([of : Nat, text : Seq(Chars)]) /\ Len(g.bodies) \in Nat \ {0}
  /\ \A u \in 1..Len(g.bodies) : g.bodies[u].of \in Run(from) /\ IsNormal(g.bodies[u].text)
  /\ \A u, v \in 1..Len(g.bodies) : u < v => g.bodies[u].of < g.bodies[v].of
  /\ \A k \in Run(from) : blocks[k].kind # "heading" =>
       \E u \in 1..Len(g.bodies) : g.bodies[u].of = k /\ g.bodies[u].text = blocks[k].text
  /\ \A u \in 1..Len(g.bodies) :
       Len(g.bodies[u].text) > MaxChunk - g.prefix =>
         LET b == blocks[g.bodies[u].of] IN Len(b.text) > MaxChunk - PrefixLength(b.heading)

\* The group of a run has its page, its heading and its bodies.
LEMMA GroupOfRun ==
  ASSUME BlocksSettled, NEW from \in 1..Len(blocks)
  PROVE  /\ Group(from).page = blocks[from].page /\ Group(from).heading = blocks[from].heading
         /\ Group(from).prefix \in Nat
         /\ Group(from).prefix = IF Group(from).titled THEN Len(Group(from).heading) + 4 ELSE 0
         /\ Bodies(from, Group(from))
<1> DEFINE h == blocks[from].heading
           kept == {k \in Run(from) : blocks[k].kind # "heading"}
           at == Positions(blocks, kept)
           alone == at = <<>> /\ HasHeading(h)
           bodies == IF alone THEN <<Body(from, <<"a", "space">> \o h)>>
                     ELSE [k \in 1..Len(at) |-> Body(at[k], blocks[at[k]].text)]
           g == Group(from)
<1>1. /\ g.page = blocks[from].page /\ g.heading = h
      /\ g.titled = (HasHeading(h) /\ ~alone)
      /\ g.prefix = IF alone THEN 0 ELSE PrefixLength(h)
      /\ g.bodies = bodies
  BY DEF Group
<1> HIDE DEF g
<1>2. /\ from \in Run(from) /\ Run(from) \subseteq 1..Len(blocks) /\ Len(blocks) \in Nat
      /\ \A k \in Run(from) : blocks[k].heading = h
  BY RunsAreUniform DEF BlocksSettled
<1>3. Len(h) \in Nat /\ (HasHeading(h) => IsNormal(h))
  BY BlockTypes
<1>4. /\ \A k \in kept : k \in Run(from) /\ blocks[k].kind # "heading"
      /\ \A k \in Run(from) : blocks[k].kind # "heading" => k \in kept
  OBVIOUS
<1> HIDE DEF kept
<1>5. Enumerates(at, Len(blocks), kept)
  BY <1>2, PositionsAreExact
<1> HIDE DEF h, at
<1>6. /\ at \in Seq(Nat) /\ Len(at) \in Nat
      /\ \A k \in 1..Len(at) : at[k] \in 1..Len(blocks) /\ at[k] \in kept /\ at[k] \in Nat
  BY <1>5 DEF Enumerates
<1>7. /\ \A k, l \in 1..Len(at) : k < l => at[k] < at[l]
      /\ \A i \in 1..Len(blocks) : i \in kept => \E k \in 1..Len(at) : at[k] = i
  BY <1>5 DEF Enumerates
<1>8. g.prefix \in Nat /\ g.prefix = IF g.titled THEN Len(g.heading) + 4 ELSE 0
  <2>1. PrefixLength(h) \in Nat /\ PrefixLength(h) = IF HasHeading(h) THEN Len(h) + 4 ELSE 0
    BY <1>3 DEF PrefixLength
  <2> HIDE DEF alone, bodies
  <2>2. g.titled <=> HasHeading(h) /\ ~alone
    BY <1>1, Zenon
  <2>3. g.prefix = IF alone THEN 0 ELSE PrefixLength(h)
    BY <1>1
  <2>4. g.heading = h
    BY <1>1
  <2>5. alone => HasHeading(h)
    BY DEF alone
  <2>6. CASE alone
    BY <2>2, <2>3, <2>6
  <2>7. CASE ~alone /\ HasHeading(h)
    BY <2>1, <2>2, <2>3, <2>4, <2>7
  <2>8. CASE ~alone /\ ~HasHeading(h)
    BY <2>1, <2>2, <2>3, <2>8
  <2> QED
    BY <2>6, <2>7, <2>8
<1>9. CASE alone
  <2> DEFINE t == <<"a", "space">> \o h
  <2>1. g.bodies = <<Body(from, t)>>
    BY <1>1, <1>9
  <2>2. h \in Seq(Chars) /\ Len(h) > 0 /\ IsSolid(h, Len(h)) /\ HasHeading(h)
    BY <1>3, <1>9 DEF IsNormal
  <2>3. "a" \in Chars /\ "space" \in Chars /\ "a" \notin Whitespace
    BY DEF Chars, Whitespace
  <2>4. t \in Seq(Chars) /\ Len(t) = Len(h) + 2 /\ t[1] = "a" /\ t[Len(t)] = h[Len(h)]
    BY <2>2, <2>3
  <2>5. IsNormal(t)
    BY <1>3, <2>2, <2>3, <2>4 DEF IsNormal, IsSolid
  <2> HIDE DEF t
  <2>6. /\ Len(g.bodies) = 1 /\ g.bodies[1].of = from /\ g.bodies[1].text = t
        /\ g.bodies[1] \in [of : Nat, text : Seq(Chars)]
    BY <1>2, <2>1, <2>4 DEF Body
  <2>7. g.bodies \in Seq([of : Nat, text : Seq(Chars)])
    BY <2>1, <2>6
  <2>8. \A k \in Run(from) : blocks[k].kind = "heading"
    <3> SUFFICES ASSUME NEW k \in Run(from), blocks[k].kind # "heading"  PROVE FALSE
      OBVIOUS
    <3>1. \E l \in 1..Len(at) : at[l] = k
      BY <1>2, <1>4, <1>7
    <3>2. Len(at) = 0
      BY <1>9
    <3> QED
      BY <3>1, <3>2
  <2>9. /\ blocks[from].text = h /\ blocks[from].heading = h
    BY <1>2, <2>8, BlockTypes
  <2>10. Len(t) > MaxChunk - g.prefix => Len(h) > MaxChunk - PrefixLength(h)
    <3>1. g.prefix = 0 /\ PrefixLength(h) = Len(h) + 4
      BY <1>1, <1>3, <1>9, <2>2 DEF PrefixLength
    <3> QED
      BY <1>3, <2>4, <3>1, SizesAssumption
  <2>11. \A u \in 1..Len(g.bodies) : u = 1
    BY <2>6
  <2>12. Bodies(from, g)
    BY <1>2, <2>5, <2>6, <2>7, <2>8, <2>9, <2>10, <2>11 DEF Bodies
  <2> QED
    BY <1>1, <1>8, <2>12 DEF g, h
<1>10. CASE ~alone
  <2>1. g.bodies = [k \in 1..Len(at) |-> Body(at[k], blocks[at[k]].text)]
    BY <1>1, <1>10
  <2>2. /\ Len(g.bodies) = Len(at)
        /\ \A u \in 1..Len(at) : /\ g.bodies[u] = Body(at[u], blocks[at[u]].text)
                                 /\ g.bodies[u].of = at[u]
                                 /\ g.bodies[u].text = blocks[at[u]].text
    BY <1>6, <2>1 DEF Body
  <2>3. \A u \in 1..Len(at) : /\ at[u] \in Run(from) /\ at[u] \in Nat
                              /\ blocks[at[u]].text \in Seq(Chars) /\ IsNormal(blocks[at[u]].text)
                              /\ blocks[at[u]].heading = h
    BY <1>2, <1>4, <1>6, BlockTypes
  <2>4. g.bodies \in Seq([of : Nat, text : Seq(Chars)])
    <3>1. \A u \in 1..Len(at) : Body(at[u], blocks[at[u]].text) \in [of : Nat, text : Seq(Chars)]
      BY <2>3 DEF Body
    <3> QED
      BY <1>6, <2>1, <3>1
  <2>5. Len(at) # 0
    <3> SUFFICES ASSUME Len(at) = 0  PROVE FALSE
      OBVIOUS
    <3>1. at = <<>>
      BY <1>6
    <3>2. blocks[from].kind = "heading"
      BY <1>2, <1>4, <1>7
    <3>3. HasHeading(h)
      BY <3>2, BlockTypes DEF h
    <3> QED
      BY <1>10, <3>1, <3>3
  <2>6. \A u \in 1..Len(g.bodies) : g.bodies[u].of \in Run(from) /\ IsNormal(g.bodies[u].text)
    BY <2>2, <2>3
  <2>7. \A u, v \in 1..Len(g.bodies) : u < v => g.bodies[u].of < g.bodies[v].of
    BY <1>7, <2>2
  <2>8. \A k \in Run(from) : blocks[k].kind # "heading" =>
          \E u \in 1..Len(g.bodies) : g.bodies[u].of = k /\ g.bodies[u].text = blocks[k].text
    <3> SUFFICES ASSUME NEW k \in Run(from), blocks[k].kind # "heading"
                 PROVE  \E u \in 1..Len(g.bodies) :
                          g.bodies[u].of = k /\ g.bodies[u].text = blocks[k].text
      OBVIOUS
    <3>1. PICK u \in 1..Len(at) : at[u] = k
      BY <1>2, <1>4, <1>7
    <3> QED
      BY <2>2, <3>1
  <2>9. \A u \in 1..Len(g.bodies) :
          Len(g.bodies[u].text) > MaxChunk - g.prefix =>
            LET b == blocks[g.bodies[u].of] IN Len(b.text) > MaxChunk - PrefixLength(b.heading)
    BY <1>1, <1>10, <2>2, <2>3
  <2>10. Bodies(from, g)
    BY <1>6, <2>2, <2>4, <2>5, <2>6, <2>7, <2>8, <2>9 DEF Bodies
  <2> QED
    BY <1>1, <1>8, <2>10 DEF g, h
<1> QED
  BY <1>9, <1>10

-----------------------------------------------------------------------------
(***************************************************************************)
(* The invariant.  What it says of blocks, parts and chunks takes them as  *)
(* parameters, so that the lemmas below hold of the old and the new ones.  *)
(***************************************************************************)
\* What is read is the content of an accepted file.
SourceInv ==
  /\ phase = "upload" => file \in Files /\ type = NoType /\ next = 0
  /\ phase \notin {"upload", "end"} => type # NoType
  /\ type # NoType => /\ type \in {Canonical[e] : e \in Extensions}
                      /\ Readable(type, file.items) /\ NameStorable(file.name, type)
  /\ next > 0 => type # NoType
  /\ items = IF next = 0 THEN <<>>
             ELSE IF type = "text/plain" THEN Paragraphs(file.items) ELSE file.items

ReaderInv ==
  /\ heading \in Texts \cup {NoHeading}
  /\ phase = "upload" => heading = NoHeading /\ ~expecting
  /\ phase = "extract" /\ Heads =>
       /\ heading = HeadingRead(file.items, next - 1)
       /\ expecting <=> next > 1 /\ file.items[next - 1].kind = "heading_open"

RawBlock ==
  [kind : Kinds, text : Texts, page : Nat, heading : Texts \cup {NoHeading}, item : Nat]

Extracted(b) ==
  /\ b.kind = "heading" => b.heading = b.text
  /\ b.page = PageOf(b)
  /\ Heads => b.item \in 1..Len(file.items) /\ b.heading = HeadingRead(file.items, b.item)

ExtractInv ==
  /\ phase = "extract" => /\ blocks \in Seq(RawBlock)
                          /\ \A k \in 1..Len(blocks) : Extracted(blocks[k])
  /\ phase \in {"upload", "extract"} =>
       chunks = <<>> /\ parts = <<>> /\ current = <<>>
  /\ phase = "upload" => blocks = <<>>

NormalInv == Normalized \/ chunks # <<>> => BlocksSettled

-----------------------------------------------------------------------------
ChunkSet ==
  [page : Nat, heading : Seq(Chars) \cup {NoHeading}, parts : Seq(PartSet), length : Int]

\* Precedes, of the blocks bs.
Comes(bs, p, q) ==
  \/ p.of < q.of
  \/ /\ p.of = q.of /\ p.first < q.first
     /\ Len(bs[p.of].text) > MaxChunk - PrefixLength(bs[p.of].heading)

Before(bs, ps, qs) ==
  \A m \in 1..Len(ps), l \in 1..Len(qs) : Comes(bs, ps[m], qs[l])
Ordered(bs, ps) ==
  \A m, l \in 1..Len(ps) : m < l => Comes(bs, ps[m], ps[l])

ChunkSound(bs, c) ==
  /\ c.length \in 1..MaxChunk
  /\ Ordered(bs, c.parts)
  /\ \A m \in 1..Len(c.parts) :
       /\ c.parts[m].of \in 1..Len(bs)
       /\ c.page = bs[c.parts[m].of].page /\ c.heading = bs[c.parts[m].of].heading

ChunksSound(bs, cs) ==
  /\ cs \in Seq(ChunkSet)
  /\ \A n \in 1..Len(cs) : ChunkSound(bs, cs[n])
  /\ \A n, o \in 1..Len(cs) : n < o => Before(bs, cs[n].parts, cs[o].parts)

\* What is in the chunks is of the blocks up to to.
UpTo(cs, to) ==
  \A n \in 1..Len(cs) : \A m \in 1..Len(cs[n].parts) : cs[n].parts[m].of <= to

InChunks(cs, k, i) == \E n \in 1..Len(cs) : Holds(cs[n].parts, k, i)

\* A block that is in the chunks.
Stored(bs, cs, k) ==
  /\ bs[k].kind = "heading" => \E n \in 1..Len(cs) : cs[n].heading = bs[k].heading
  /\ bs[k].kind # "heading" =>
       \A i \in 1..Len(bs[k].text) : IsSolid(bs[k].text, i) => InChunks(cs, k, i)

\* Parts of a run, of which each fits into a chunk.
Fitting(ps, run, room) ==
  /\ ps \in Seq(PartSet)
  /\ \A m \in 1..Len(ps) : /\ ps[m].of \in run
                           /\ ps[m].first <= ps[m].last /\ ps[m].last - ps[m].first < room

-----------------------------------------------------------------------------
ChunksInv == ChunksSound(blocks, chunks)

GroupInv ==
  phase = "group" =>
    /\ next \in 1..(Len(blocks) + 1)
    /\ parts = <<>> /\ current = <<>>
    /\ UpTo(chunks, next - 1)
    /\ \A k \in 1..(next - 1) : Stored(blocks, chunks, k)
    /\ next > 1 => chunks # <<>>

Room == MaxChunk - group.prefix

\* The run of blocks being packed begins at from.
RunInv(from) ==
  /\ from \in 1..Len(blocks)
  /\ group = Group(from) /\ next = RunEnd(from) + 1
  /\ \A k \in 1..(from - 1) : Stored(blocks, chunks, k)
  /\ Fitting(parts, Run(from), Room) /\ Fitting(current, Run(from), Room)
  /\ Ordered(blocks, parts)

\* The loop of _split_oversized; astray when nothing fits.
LoopInv ==
  /\ limit >= 0 =>
       /\ SplitInv
       /\ Len(text) <= limit => ~splitting /\ pieces = <<Piece(1, Len(text))>>
  /\ limit < 0 => /\ IsNormal(text) /\ pieces = <<>> /\ splitting
                  /\ start \in Int /\ -Len(text) <= start /\ start <= 0

SplittingInv(from) ==
  /\ unit \in 1..Len(group.bodies)
  /\ text = group.bodies[unit].text /\ limit = Room
  /\ LoopInv
  /\ current = <<>>
  /\ UpTo(chunks, from - 1)
  /\ \A m \in 1..Len(parts) : parts[m].of < group.bodies[unit].of
  /\ \A u \in 1..(unit - 1) : \A i \in 1..Len(group.bodies[u].text) :
       IsSolid(group.bodies[u].text, i) => Holds(parts, group.bodies[u].of, i)

PackingInv(from) ==
  /\ current # <<>> \/ parts # <<>>
  /\ current # <<>> => BodyLength(current) \in 1..Room
  /\ UpTo(chunks, next - 1)
  /\ Ordered(blocks, current) /\ Before(blocks, current, parts)
  /\ \A n \in 1..Len(chunks) : /\ Before(blocks, chunks[n].parts, current)
                               /\ Before(blocks, chunks[n].parts, parts)
  /\ \A k \in Run(from) : blocks[k].kind # "heading" =>
       \A i \in 1..Len(blocks[k].text) : IsSolid(blocks[k].text, i) =>
         InChunks(chunks, k, i) \/ Holds(current, k, i) \/ Holds(parts, k, i)

WorkInv ==
  /\ phase = "split" => \E from \in 1..Len(blocks) : RunInv(from) /\ SplittingInv(from)
  /\ phase = "pack" => \E from \in 1..Len(blocks) : RunInv(from) /\ PackingInv(from)

IInv ==
  /\ TypeOK /\ SourceInv /\ ReaderInv /\ ExtractInv
  /\ NormalInv /\ ChunksInv /\ GroupInv /\ WorkInv

-----------------------------------------------------------------------------
(***************************************************************************)
(* Lists of parts and of chunks.                                           *)
(***************************************************************************)
\* The first of the parts is moved to the end of others.
LEMMA MoveHead ==
  ASSUME NEW run, NEW room, NEW ps, NEW qs, qs # <<>>,
         Fitting(ps, run, room), Fitting(qs, run, room)
  PROVE  /\ Fitting(Append(ps, Head(qs)), run, room) /\ Fitting(<<Head(qs)>>, run, room)
         /\ Fitting(Tail(qs), run, room)
         /\ \A k, i : Holds(ps, k, i) => Holds(Append(ps, Head(qs)), k, i)
         /\ \A k, i : Holds(qs, k, i) =>
              /\ Holds(Append(ps, Head(qs)), k, i) \/ Holds(Tail(qs), k, i)
              /\ Holds(<<Head(qs)>>, k, i) \/ Holds(Tail(qs), k, i)
         /\ \A bs : Ordered(bs, qs) =>
              /\ Ordered(bs, Tail(qs)) /\ Ordered(bs, <<Head(qs)>>)
              /\ Before(bs, <<Head(qs)>>, Tail(qs))
         /\ \A bs : Ordered(bs, ps) /\ Ordered(bs, qs) /\ Before(bs, ps, qs) =>
              /\ Ordered(bs, Append(ps, Head(qs))) /\ Before(bs, Append(ps, Head(qs)), Tail(qs))
              /\ Before(bs, ps, <<Head(qs)>>) /\ Before(bs, ps, Tail(qs))
         /\ \A bs, os : Before(bs, os, ps) /\ Before(bs, os, qs) =>
              /\ Before(bs, os, Append(ps, Head(qs))) /\ Before(bs, os, Tail(qs))
              /\ Before(bs, os, <<Head(qs)>>)
<1> DEFINE h == Head(qs)  t == Tail(qs)  a == Append(ps, h)  o == <<h>>
<1>1. /\ ps \in Seq(PartSet) /\ qs \in Seq(PartSet) /\ Len(ps) \in Nat /\ Len(qs) \in Nat \ {0}
  BY DEF Fitting
<1>2. /\ h = qs[1] /\ h \in PartSet
      /\ t \in Seq(PartSet) /\ Len(t) = Len(qs) - 1 /\ \A m \in 1..Len(t) : t[m] = qs[m + 1]
      /\ o \in Seq(PartSet) /\ Len(o) = 1 /\ o[1] = qs[1]
  BY <1>1
<1>3. /\ a \in Seq(PartSet) /\ Len(a) = Len(ps) + 1
      /\ a[Len(ps) + 1] = qs[1] /\ \A m \in 1..Len(ps) : a[m] = ps[m]
  BY <1>1, <1>2
<1> HIDE DEF h, t, a, o
<1>4. /\ \A m \in 1..Len(t) : m + 1 \in 1..Len(qs)
      /\ 1 \in 1..Len(qs)
      /\ \A m \in 1..Len(a) : m \in 1..Len(ps) \/ m = Len(ps) + 1
      /\ \A m \in 1..Len(o) : m = 1
      /\ \A m \in 1..Len(ps) : m \in 1..Len(a)
      /\ Len(ps) + 1 \in 1..Len(a) /\ 1 \in 1..Len(o)
  BY <1>1, <1>2, <1>3
<1>5. \A m \in 1..Len(qs) : m = 1 \/ \E l \in 1..Len(t) : m = l + 1
  <2> SUFFICES ASSUME NEW m \in 1..Len(qs), m # 1  PROVE \E l \in 1..Len(t) : m = l + 1
    OBVIOUS
  <2>1. m - 1 \in 1..Len(t) /\ m = (m - 1) + 1
    BY <1>1, <1>2
  <2> QED
    BY <2>1
<1>6. Fitting(a, run, room) /\ Fitting(o, run, room) /\ Fitting(t, run, room)
  <2>1. /\ \A m \in 1..Len(ps) : /\ ps[m].of \in run
                                 /\ ps[m].first <= ps[m].last /\ ps[m].last - ps[m].first < room
        /\ \A m \in 1..Len(qs) : /\ qs[m].of \in run
                                 /\ qs[m].first <= qs[m].last /\ qs[m].last - qs[m].first < room
    BY DEF Fitting
  <2> QED
    BY <1>2, <1>3, <1>4, <2>1 DEF Fitting
<1>7. \A k, i : Holds(ps, k, i) => Holds(a, k, i)
  BY <1>3, <1>4 DEF Holds
<1>8. \A k, i : Holds(qs, k, i) => /\ Holds(a, k, i) \/ Holds(t, k, i)
                                   /\ Holds(o, k, i) \/ Holds(t, k, i)
  <2> SUFFICES ASSUME NEW k, NEW i, NEW m \in 1..Len(qs),
                      qs[m].of = k, qs[m].first <= i, i <= qs[m].last
               PROVE  /\ Holds(a, k, i) \/ Holds(t, k, i)
                      /\ Holds(o, k, i) \/ Holds(t, k, i)
    BY DEF Holds
  <2>1. CASE m = 1
    BY <1>2, <1>3, <1>4, <2>1 DEF Holds
  <2>2. CASE m # 1
    <3>1. PICK l \in 1..Len(t) : m = l + 1
      BY <1>5, <2>2
    <3>2. t[l] = qs[m]
      BY <1>2, <3>1
    <3> QED
      BY <3>2 DEF Holds
  <2> QED
    BY <2>1, <2>2
<1>9. ASSUME NEW bs, Ordered(bs, qs)
      PROVE  Ordered(bs, t) /\ Ordered(bs, o) /\ Before(bs, o, t)
  <2>1. \A m, l \in 1..Len(qs) : m < l => Comes(bs, qs[m], qs[l])
    BY <1>9 DEF Ordered
  <2>2. Ordered(bs, t)
    <3> SUFFICES ASSUME NEW m \in 1..Len(t), NEW l \in 1..Len(t), m < l
                 PROVE  Comes(bs, t[m], t[l])
      BY DEF Ordered
    <3>1. m + 1 \in 1..Len(qs) /\ l + 1 \in 1..Len(qs) /\ m + 1 < l + 1
      BY <1>4
    <3> QED
      BY <1>2, <2>1, <3>1
  <2>3. Ordered(bs, o)
    BY <1>4 DEF Ordered
  <2>4. Before(bs, o, t)
    <3> SUFFICES ASSUME NEW l \in 1..Len(t)  PROVE Comes(bs, qs[1], t[l])
      BY <1>2, <1>4 DEF Before
    <3>1. l + 1 \in 1..Len(qs) /\ 1 < l + 1
      BY <1>4
    <3> QED
      BY <1>2, <1>4, <2>1, <3>1
  <2> QED
    BY <2>2, <2>3, <2>4
<1>10. ASSUME NEW bs, NEW os, Before(bs, os, qs)
       PROVE  Before(bs, os, t) /\ Before(bs, os, o)
  BY <1>2, <1>4, <1>10 DEF Before
<1>11. ASSUME NEW bs, NEW os, Before(bs, os, ps), Before(bs, os, qs)
       PROVE  Before(bs, os, a)
  <2> SUFFICES ASSUME NEW m \in 1..Len(os), NEW l \in 1..Len(a)  PROVE Comes(bs, os[m], a[l])
    BY DEF Before
  <2>1. CASE l \in 1..Len(ps)
    BY <1>3, <1>11, <2>1 DEF Before
  <2>2. CASE l = Len(ps) + 1
    BY <1>3, <1>4, <1>11, <2>2 DEF Before
  <2> QED
    BY <1>4, <2>1, <2>2
<1>12. ASSUME NEW bs, Ordered(bs, ps), Ordered(bs, qs), Before(bs, ps, qs)
       PROVE  Ordered(bs, a) /\ Before(bs, a, t)
  <2>1. Before(bs, ps, t) /\ Before(bs, ps, o) /\ Before(bs, o, t)
    BY <1>9, <1>10, <1>12
  <2>2. Before(bs, a, t)
    <3> SUFFICES ASSUME NEW m \in 1..Len(a), NEW l \in 1..Len(t)  PROVE Comes(bs, a[m], t[l])
      BY DEF Before
    <3>1. CASE m \in 1..Len(ps)
      BY <1>3, <2>1, <3>1 DEF Before
    <3>2. CASE m = Len(ps) + 1
      BY <1>2, <1>3, <1>4, <2>1, <3>2 DEF Before
    <3> QED
      BY <1>4, <3>1, <3>2
  <2>3. Ordered(bs, a)
    <3> SUFFICES ASSUME NEW m \in 1..Len(a), NEW l \in 1..Len(a), m < l
                 PROVE  Comes(bs, a[m], a[l])
      BY DEF Ordered
    <3>1. m \in 1..Len(ps) /\ a[m] = ps[m]
      BY <1>1, <1>3, <1>4
    <3>2. CASE l \in 1..Len(ps)
      BY <1>3, <1>12, <3>1, <3>2 DEF Ordered
    <3>3. CASE l = Len(ps) + 1
      BY <1>2, <1>3, <1>4, <2>1, <3>1, <3>3 DEF Before
    <3> QED
      BY <1>4, <3>2, <3>3
  <2> QED
    BY <2>2, <2>3
<1> QED
  BY <1>6, <1>7, <1>8, <1>9, <1>10, <1>11, <1>12 DEF a, o, h, t

\* One more chunk.
LEMMA ChunkAdded ==
  ASSUME NEW bs, NEW cs, ChunksSound(bs, cs), NEW c \in ChunkSet, ChunkSound(bs, c),
         \A n \in 1..Len(cs) : Before(bs, cs[n].parts, c.parts)
  PROVE  LET ds == Append(cs, c) IN
         /\ ChunksSound(bs, ds) /\ ds # <<>>
         /\ \A k : Stored(bs, cs, k) => Stored(bs, ds, k)
         /\ \A k, i : InChunks(cs, k, i) \/ Holds(c.parts, k, i) => InChunks(ds, k, i)
         /\ \E n \in 1..Len(ds) : ds[n].heading = c.heading
         /\ \A to : UpTo(cs, to) /\ (\A m \in 1..Len(c.parts) : c.parts[m].of <= to) => UpTo(ds, to)
         /\ \A qs : (\A n \in 1..Len(cs) : Before(bs, cs[n].parts, qs)) /\ Before(bs, c.parts, qs)
              => \A n \in 1..Len(ds) : Before(bs, ds[n].parts, qs)
<1> DEFINE ds == Append(cs, c)
<1>1. cs \in Seq(ChunkSet) /\ Len(cs) \in Nat
  BY DEF ChunksSound
<1>2. /\ ds \in Seq(ChunkSet) /\ Len(ds) = Len(cs) + 1 /\ ds # <<>>
      /\ ds[Len(cs) + 1] = c /\ \A n \in 1..Len(cs) : ds[n] = cs[n]
  BY <1>1
<1> HIDE DEF ds
<1>3. /\ \A n \in 1..Len(ds) : n \in 1..Len(cs) \/ n = Len(cs) + 1
      /\ \A n \in 1..Len(cs) : n \in 1..Len(ds)
      /\ Len(cs) + 1 \in 1..Len(ds)
  BY <1>1, <1>2
<1>4. ChunksSound(bs, ds)
  <2>1. /\ \A n \in 1..Len(cs) : ChunkSound(bs, cs[n])
        /\ \A n, o \in 1..Len(cs) : n < o => Before(bs, cs[n].parts, cs[o].parts)
    BY DEF ChunksSound
  <2>2. \A n \in 1..Len(ds) : ChunkSound(bs, ds[n])
    BY <1>2, <1>3, <2>1
  <2>3. ASSUME NEW n \in 1..Len(ds), NEW o \in 1..Len(ds), n < o
        PROVE  Before(bs, ds[n].parts, ds[o].parts)
    <3>1. n \in 1..Len(cs)
      BY <1>1, <1>2, <2>3
    <3> QED
      BY <1>2, <1>3, <2>1, <2>3, <3>1
  <2> QED
    BY <1>2, <2>2, <2>3 DEF ChunksSound
<1>5. \A k, i : InChunks(cs, k, i) \/ Holds(c.parts, k, i) => InChunks(ds, k, i)
  BY <1>2, <1>3 DEF InChunks
<1>6. \A k : Stored(bs, cs, k) => Stored(bs, ds, k)
  <2>1. \A k : (\E n \in 1..Len(cs) : cs[n].heading = bs[k].heading)
               => \E n \in 1..Len(ds) : ds[n].heading = bs[k].heading
    BY <1>2, <1>3
  <2> QED
    BY <1>5, <2>1 DEF Stored
<1>7. \E n \in 1..Len(ds) : ds[n].heading = c.heading
  BY <1>2, <1>3
<1>8. \A to : UpTo(cs, to) /\ (\A m \in 1..Len(c.parts) : c.parts[m].of <= to) => UpTo(ds, to)
  BY <1>2, <1>3 DEF UpTo
<1>9. \A qs : (\A n \in 1..Len(cs) : Before(bs, cs[n].parts, qs)) /\ Before(bs, c.parts, qs)
        => \A n \in 1..Len(ds) : Before(bs, ds[n].parts, qs)
  BY <1>2, <1>3
<1> QED
  BY <1>2, <1>4, <1>5, <1>6, <1>7, <1>8, <1>9 DEF ds

-----------------------------------------------------------------------------
(***************************************************************************)
(* The blocks and their runs are not changed by chunking; the loop.        *)
(***************************************************************************)
\* What the steps of chunking leave alone.
LEMMA SourceKept ==
  ASSUME SourceInv, ReaderInv, ExtractInv, UNCHANGED <<source, reader, blocks>>,
         phase \in {"group", "split", "pack"}, phase' \in {"group", "split", "pack", "end"},
         next \in Nat, next > 0, next' \in Nat, next' > 0
  PROVE  SourceInv' /\ ReaderInv' /\ ExtractInv'
<1>1. /\ file' = file /\ type' = type /\ items' = items /\ heading' = heading
      /\ phase' \notin {"upload", "extract"}
  BY DEF source, reader
<1>2. SourceInv'
  BY <1>1 DEF SourceInv
<1>3. ReaderInv'
  BY <1>1 DEF ReaderInv
<1>4. ExtractInv'
  BY <1>1 DEF ExtractInv
<1> QED
  BY <1>2, <1>3, <1>4

\* The blocks stay settled,
LEMMA BlocksKept ==
  ASSUME UNCHANGED <<blocks, source>>
  PROVE  BlocksSettled' <=> BlocksSettled
BY DEF source, BlocksSettled, Settled, Sourced, PageOf, Heads, HeadingAbove, IsHeading,
   HasEmptyHeading

\* and their runs and groups the same.
LEMMA RunsKept ==
  ASSUME NEW from, UNCHANGED blocks
  PROVE  RunEnd(from)' = RunEnd(from) /\ Run(from)' = Run(from) /\ Group(from)' = Group(from)
<1>1. RunEnd(from)' = RunEnd(from)
  BY DEF RunEnd, Key
<1>2. Run(from)' = Run(from)
  BY <1>1 DEF Run
<1>3. Group(from)' = Group(from)
  BY <1>2 DEF Group
<1> QED
  BY <1>1, <1>2, <1>3

-----------------------------------------------------------------------------
\* A set of integers with a lower bound has a least element.
LEMMA MinOfInts ==
  ASSUME NEW S, S \subseteq Int, S # {}, NEW b \in Int, \A k \in S : b <= k
  PROVE  Min(S) \in S /\ \A k \in S : Min(S) <= k
<1> DEFINE T == {k - b : k \in S}
<1>0. \A k \in S : k \in Int /\ k - b \in Nat
  OBVIOUS
<1>1. T \subseteq Nat /\ T # {}
  BY <1>0
<1>2. Min(T) \in T /\ \A t \in T : Min(T) <= t
  BY <1>1, MinOfNats
<1>3. PICK m \in S : Min(T) = m - b
  BY <1>2
<1>4. \A k \in S : m <= k
  <2> SUFFICES ASSUME NEW k \in S  PROVE m <= k
    OBVIOUS
  <2>1. m - b <= k - b
    BY <1>2, <1>3
  <2> QED
    BY <1>0, <2>1
<1>5. Min(S) = CHOOSE x \in S : \A y \in S : x <= y
  BY DEF Min
<1> QED
  BY <1>3, <1>4, <1>5

\* The pieces of a block begin one behind the other.
LEMMA FirstsIncrease ==
  ASSUME NEW ps \in Seq(Pieces), Overlapping(ps)
  PROVE  \A m, n \in 1..Len(ps) : m < n => ps[m].first < ps[n].first
<1> DEFINE S == {d \in Nat : \A m \in 1..Len(ps) :
                   m + d + 1 <= Len(ps) => ps[m].first < ps[m + d + 1].first}
<1>0. Len(ps) \in Nat /\ \A m \in 1..Len(ps) : ps[m].first \in Nat
  <2>1. \A m \in 1..Len(ps) : ps[m] \in Pieces
    OBVIOUS
  <2> QED
    BY <2>1 DEF Pieces
<1>1. \A m \in 1..Len(ps) : m + 1 <= Len(ps) => ps[m].first < ps[m + 1].first
  BY <1>0 DEF Overlapping
<1>2. 0 \in S
  <2>1. \A m \in 1..Len(ps) : m + 0 + 1 = m + 1
    OBVIOUS
  <2> QED
    BY <1>1, <2>1
<1>3. ASSUME NEW d \in Nat, d \in S  PROVE d + 1 \in S
  <2> SUFFICES ASSUME NEW m \in 1..Len(ps), m + (d + 1) + 1 <= Len(ps)
               PROVE  ps[m].first < ps[m + (d + 1) + 1].first
    OBVIOUS
  <2> DEFINE k == m + d + 1
  <2>1. k \in 1..Len(ps) /\ k + 1 \in 1..Len(ps) /\ k + 1 = m + (d + 1) + 1
    BY <1>0
  <2>2. ps[m].first < ps[k].first
    BY <1>0, <1>3, <2>1
  <2> HIDE DEF k
  <2>3. ps[k].first < ps[k + 1].first
    BY <1>0, <1>1, <2>1
  <2>4. ps[m].first \in Nat /\ ps[k].first \in Nat /\ ps[k + 1].first \in Nat
    BY <1>0, <2>1
  <2>5. ps[m].first < ps[k + 1].first
    BY <2>2, <2>3, <2>4
  <2> QED
    BY <2>1, <2>5
<1> HIDE DEF S
<1>4. \A d \in Nat : d \in S
  BY <1>2, <1>3, InductionOnNat
<1> SUFFICES ASSUME NEW m \in 1..Len(ps), NEW n \in 1..Len(ps), m < n
             PROVE  ps[m].first < ps[n].first
  OBVIOUS
<1>5. PICK d \in Nat : m + d + 1 = n
  <2>1. n - m - 1 \in Nat /\ m + (n - m - 1) + 1 = n
    BY <1>0
  <2> QED
    BY <2>1
<1>6. \A k \in 1..Len(ps) : k + d + 1 <= Len(ps) => ps[k].first < ps[k + d + 1].first
  <2>1. d \in S
    BY <1>4
  <2> QED
    BY <2>1 DEF S
<1> QED
  BY <1>5, <1>6

-----------------------------------------------------------------------------
\* The loop begins.
LEMMA BeginLoop ==
  ASSUME NEW txt, IsNormal(txt), NEW lim \in Int, Begin(txt, lim)
  PROVE  LoopInv' /\ text' = txt /\ limit' = lim /\ start' \in Int /\ splitting' \in BOOLEAN
<1>0. Len(txt) \in Nat \ {0}
  BY NormalFacts
<1>1. text' = txt /\ limit' = lim /\ start' = 0 /\ splitting' = (Len(txt) > lim)
  BY DEF Begin
<1>2. CASE lim >= 0
  <2>1. SplitInv'
    BY <1>2, BeginEstablishesInv
  <2>2. Len(txt) <= lim => ~splitting' /\ pieces' = <<Piece(1, Len(txt))>>
    <3>1. ASSUME Len(txt) <= lim  PROVE ~(Len(txt) > lim)
      BY <1>0, <3>1
    <3> QED
      BY <1>1, <3>1 DEF Begin
  <2> QED
    BY <1>1, <1>2, <2>1, <2>2 DEF LoopInv
<1>3. CASE lim < 0
  <2>1. ~(Len(txt) <= lim) /\ Len(txt) > lim
    BY <1>0, <1>3
  <2>2. pieces' = <<>> /\ splitting'
    BY <1>1, <2>1 DEF Begin
  <2>3. ~(lim >= 0)
    BY <1>3
  <2>4. 0 \in Int /\ -Len(txt) <= 0 /\ 0 <= 0
    BY <1>0
  <2> QED
    BY <1>1, <1>3, <2>2, <2>3, <2>4 DEF LoopInv
<1> QED
  BY <1>2, <1>3

\* An iteration of the loop.
LEMMA StepOfLoop ==
  ASSUME LoopInv, SplitStep, limit \in Int
  PROVE  LoopInv' /\ text' = text /\ limit' = limit /\ start' \in Int /\ splitting' \in BOOLEAN
<1>1. CASE Cut
  <2>1. limit >= 0 /\ SplitInv /\ text' = text /\ limit' = limit
    BY <1>1 DEF Cut, LoopInv
  <2>2. SplitInv'
    BY <1>1, <2>1, CutKeepsInv
  <2>3. ~(Len(text) <= limit)
    <3>1. Len(text) \in Nat /\ start \in Nat /\ Len(text) - start > limit
      BY <1>1, <2>1 DEF Cut, SplitInv, SplitTypeOK, IsNormal
    <3> QED
      BY <3>1
  <2> QED
    BY <2>1, <2>2, <2>3 DEF LoopInv, SplitInv, SplitTypeOK
<1>2. CASE Finish
  <2>1. splitting /\ text' = text /\ limit' = limit /\ Len(text) - start <= limit
    BY <1>2 DEF Finish
  <2>2. limit >= 0
    <3> SUFFICES ASSUME limit < 0  PROVE FALSE
      OBVIOUS
    <3>1. Len(text) \in Nat /\ start \in Int /\ start <= 0
      BY DEF LoopInv, IsNormal
    <3> QED
      BY <2>1, <3>1
  <2>3. SplitInv /\ ~(Len(text) <= limit)
    BY <2>1, <2>2 DEF LoopInv
  <2>4. SplitInv'
    BY <1>2, <2>3, FinishKeepsInv
  <2> QED
    BY <2>1, <2>2, <2>3, <2>4 DEF LoopInv, SplitInv, SplitTypeOK
<1> QED
  BY <1>1, <1>2 DEF SplitStep

-----------------------------------------------------------------------------
(***************************************************************************)
(* The steps of build_chunks.                                              *)
(***************************************************************************)
\* The types of what a step of chunking changes.
LEMMA TypesKept ==
  ASSUME TypeOK, UNCHANGED <<source, reader, blocks>>,
         phase' \in {"group", "split", "pack", "end"}, next' \in Nat,
         limit' \in Int, start' \in Int, splitting' \in BOOLEAN,
         \/ phase # "end" /\ phase' # "end" /\ result' = result
         \/ phase' = "end" /\ result' \in Results \ {"none"}
  PROVE  TypeOK'
<1>1. type' = type /\ expecting' = expecting /\ blocks' = blocks
  BY DEF source, reader
<1>2. result' \in Results /\ ((result' = "none") <=> (phase' # "end"))
  BY DEF TypeOK
<1> QED
  BY <1>1, <1>2 DEF TypeOK

\* What holds in every step of chunking.
LEMMA ChunkingFacts ==
  ASSUME IInv, phase \in {"group", "split", "pack"}
  PROVE  /\ BlocksSettled /\ Len(blocks) \in Nat \ {0} /\ next \in Nat /\ next > 0
         /\ limit \in Int /\ start \in Int /\ splitting \in BOOLEAN
         /\ chunks \in Seq(ChunkSet) /\ Len(chunks) \in Nat
<1>1. BlocksSettled
  BY DEF IInv, NormalInv, Normalized
<1>2. Len(blocks) \in Nat \ {0}
  BY <1>1 DEF BlocksSettled
<1>3. next \in Nat /\ limit \in Int /\ start \in Int /\ splitting \in BOOLEAN
  BY DEF IInv, TypeOK
<1>4. chunks \in Seq(ChunkSet) /\ Len(chunks) \in Nat
  BY DEF IInv, ChunksInv, ChunksSound
<1>5. next > 0
  <2>1. CASE phase = "group"
    BY <1>2, <2>1 DEF IInv, GroupInv
  <2>2. ASSUME NEW from \in 1..Len(blocks), RunInv(from)  PROVE next > 0
    <3>1. RunEnd(from) \in from..Len(blocks) /\ next = RunEnd(from) + 1
      BY <1>1, <2>2, RunsAreUniform DEF RunInv
    <3> QED
      BY <1>2, <3>1
  <2>3. CASE phase = "split"
    BY <2>2, <2>3 DEF IInv, WorkInv
  <2>4. CASE phase = "pack"
    BY <2>2, <2>4 DEF IInv, WorkInv
  <2> QED
    BY <2>1, <2>3, <2>4
<1> QED
  BY <1>1, <1>2, <1>3, <1>4, <1>5

\* A run is begun: its first body is split.
LEMMA StartGroupInv == IInv /\ StartGroup => IInv'
<1> SUFFICES ASSUME IInv, StartGroup  PROVE IInv'
  OBVIOUS
<1>1. /\ phase = "group" /\ next <= Len(blocks)
      /\ UNCHANGED <<source, reader, packing, blocks, parts, result>>
      /\ next' = RunEnd(next) + 1 /\ group' = Group(next)
  BY DEF StartGroup
<1>2. BlocksSettled /\ Len(blocks) \in Nat \ {0} /\ next \in Nat /\ next > 0
  BY <1>1, ChunkingFacts
<1>3. PICK from \in 1..Len(blocks) : from = next
  BY <1>1, <1>2
<1> DEFINE g == Group(from)
<1>4. /\ g.prefix \in Nat /\ Bodies(from, g)
      /\ RunEnd(from) \in from..Len(blocks) /\ Run(from) \subseteq 1..Len(blocks)
  BY <1>2, GroupOfRun, RunsAreUniform
<1>5. /\ Len(g.bodies) \in Nat \ {0} /\ 1 \in 1..Len(g.bodies)
      /\ IsNormal(g.bodies[1].text) /\ g.bodies # <<>>
  BY <1>4 DEF Bodies
<1>6. Begin(g.bodies[1].text, MaxChunk - g.prefix) /\ unit' = 1 /\ phase' = "split"
  BY <1>3, <1>5 DEF StartGroup
<1> HIDE DEF g
<1>7. /\ LoopInv' /\ text' = g.bodies[1].text /\ limit' = MaxChunk - g.prefix
      /\ start' \in Int /\ splitting' \in BOOLEAN /\ limit' \in Int
  <2>1. MaxChunk - g.prefix \in Int
    BY <1>4, SizesAssumption
  <2> QED
    BY <1>5, <1>6, <2>1, BeginLoop
<1>8. next' \in Nat /\ next' > 0 /\ next' = RunEnd(from) + 1 /\ group' = g
  BY <1>1, <1>2, <1>3, <1>4 DEF g
<1>9. /\ blocks' = blocks /\ parts' = <<>> /\ current' = <<>> /\ chunks' = chunks
      /\ \A k \in 1..(from - 1) : Stored(blocks, chunks, k)
      /\ UpTo(chunks, from - 1)
  BY <1>1, <1>3 DEF packing, IInv, GroupInv
<1>10. RunInv(from)'
  <2>1. Fitting(<<>>, Run(from), Room')
    BY DEF Fitting
  <2>2. Ordered(blocks, <<>>)
    BY DEF Ordered
  <2>3. RunEnd(from)' = RunEnd(from) /\ Run(from)' = Run(from) /\ Group(from)' = Group(from)
    BY <1>9, RunsKept
  <2> QED
    BY <1>8, <1>9, <2>1, <2>2, <2>3 DEF RunInv, g
<1>11. SplittingInv(from)'
  BY <1>5, <1>6, <1>7, <1>8, <1>9 DEF SplittingInv, Room
<1>12. WorkInv'
  BY <1>6, <1>9, <1>10, <1>11 DEF WorkInv
<1>13. TypeOK'
  BY <1>1, <1>6, <1>7, <1>8, TypesKept DEF IInv
<1>14. SourceInv' /\ ReaderInv' /\ ExtractInv'
  BY <1>1, <1>2, <1>6, <1>8, SourceKept DEF IInv
<1>15. NormalInv'
  BY <1>1, <1>2, BlocksKept DEF NormalInv
<1>16. ChunksInv' /\ GroupInv'
  BY <1>6, <1>9 DEF IInv, ChunksInv, GroupInv
<1> QED
  BY <1>12, <1>13, <1>14, <1>15, <1>16 DEF IInv

\* A step of the loop.
LEMMA LoopKeepsInv ==
  ASSUME IInv, phase = "split", UNCHANGED <<source, reader, packing, phase, next, blocks, group,
                                            unit, parts, result, text, limit>>,
         LoopInv', start' \in Int, splitting' \in BOOLEAN
  PROVE  IInv'
<1>1. /\ BlocksSettled /\ next \in Nat /\ next > 0 /\ limit \in Int
  BY ChunkingFacts
<1>2. /\ blocks' = blocks /\ parts' = parts /\ current' = current /\ chunks' = chunks
      /\ group' = group /\ next' = next /\ unit' = unit /\ text' = text /\ limit' = limit
      /\ phase' = "split"
  BY DEF packing
<1>3. PICK from \in 1..Len(blocks) : RunInv(from) /\ SplittingInv(from)
  BY DEF IInv, WorkInv
<1>4. RunInv(from)'
  <2>1. RunEnd(from)' = RunEnd(from) /\ Run(from)' = Run(from) /\ Group(from)' = Group(from)
    BY <1>2, RunsKept
  <2> QED
    BY <1>2, <1>3, <2>1 DEF RunInv, Room
<1>5. SplittingInv(from)'
  BY <1>2, <1>3 DEF SplittingInv, Room
<1>6. WorkInv'
  BY <1>2, <1>3, <1>4, <1>5 DEF WorkInv
<1>7. TypeOK'
  BY <1>1, <1>2, TypesKept DEF IInv
<1>8. SourceInv' /\ ReaderInv' /\ ExtractInv'
  BY <1>1, <1>2, SourceKept DEF IInv
<1>9. NormalInv'
  BY <1>1, BlocksKept DEF NormalInv
<1>10. ChunksInv' /\ GroupInv'
  BY <1>2 DEF IInv, ChunksInv, GroupInv
<1> QED
  BY <1>6, <1>7, <1>8, <1>9, <1>10 DEF IInv

\* An iteration with a limit,
LEMMA SplitKeepsInv == IInv /\ Split => IInv'
<1> SUFFICES ASSUME IInv, Split  PROVE IInv'
  OBVIOUS
<1>1. /\ phase = "split" /\ SplitStep
      /\ UNCHANGED <<source, reader, packing, phase, next, blocks, group, unit, parts, result>>
  BY DEF Split
<1>2. LoopInv /\ limit \in Int
  BY <1>1, ChunkingFacts DEF IInv, WorkInv, SplittingInv
<1>3. LoopInv' /\ text' = text /\ limit' = limit /\ start' \in Int /\ splitting' \in BOOLEAN
  BY <1>1, <1>2, StepOfLoop
<1> QED
  BY <1>1, <1>3, LoopKeepsInv

\* The end, whatever the result.
LEMMA EndKeepsInv ==
  ASSUME IInv, phase \in {"group", "split", "pack"}, phase' = "end",
         UNCHANGED <<source, reader, blocks, chunks>>, next' = next,
         result' \in Results \ {"none"},
         limit' \in Int, start' \in Int, splitting' \in BOOLEAN
  PROVE  IInv'
<1>1. BlocksSettled /\ next \in Nat /\ next > 0
  BY ChunkingFacts
<1>2. TypeOK'
  BY <1>1, TypesKept DEF IInv
<1>3. SourceInv' /\ ReaderInv' /\ ExtractInv'
  BY <1>1, SourceKept DEF IInv
<1>4. NormalInv'
  BY <1>1, BlocksKept DEF NormalInv
<1>5. ChunksInv' /\ GroupInv' /\ WorkInv'
  BY DEF IInv, ChunksInv, GroupInv, WorkInv
<1> QED
  BY <1>2, <1>3, <1>4, <1>5 DEF IInv

\* and one without: it walks backwards, or fails.
LEMMA SplitAstrayInv == IInv /\ SplitAstray => IInv'
<1> SUFFICES ASSUME IInv, SplitAstray  PROVE IInv'
  OBVIOUS
<1>1. /\ phase = "split" /\ limit < 0
      /\ UNCHANGED <<text, limit, pieces, splitting, source, reader, packing, next, blocks, group,
                     unit, parts>>
  BY DEF SplitAstray
<1>2. limit \in Int /\ start \in Int /\ splitting \in BOOLEAN
  BY <1>1, ChunkingFacts
<1>3. LoopInv
  BY <1>1 DEF IInv, WorkInv, SplittingInv
<1> DEFINE end == start + limit
           solid == {k \in end..(-1) : IsSolid(text, Len(text) + k + 1)}
<1>4. CASE end < -Len(text)
  <2>1. result' = "chunking_failed" /\ phase' = "end" /\ start' = start
    BY <1>4 DEF SplitAstray, FailWith
  <2>2. chunks' = chunks /\ limit' = limit /\ splitting' = splitting
    BY <1>1 DEF packing
  <2> QED
    BY <1>1, <1>2, <2>1, <2>2, EndKeepsInv DEF Results
<1>5. CASE ~(end < -Len(text))
  <2>1. start' = Min(solid) /\ UNCHANGED <<phase, result>>
    BY <1>5 DEF SplitAstray
  <2>2. /\ IsNormal(text) /\ pieces = <<>> /\ splitting /\ start <= 0
    BY <1>1, <1>3 DEF LoopInv
  <2>3. Len(text) \in Nat \ {0} /\ IsSolid(text, Len(text))
    BY <2>2, NormalFacts
  <2>4. end \in Int /\ end <= -1 /\ -Len(text) <= end
    BY <1>1, <1>2, <1>5, <2>2, <2>3
  <2>5. -1 \in solid
    <3>1. Len(text) + (-1) + 1 = Len(text)
      BY <2>3
    <3> QED
      BY <2>3, <2>4, <3>1
  <2>6. solid \subseteq Int /\ \A k \in solid : end <= k /\ k <= -1
    BY <2>4
  <2> HIDE DEF solid, end
  <2>7. Min(solid) \in solid
    BY <2>4, <2>5, <2>6, MinOfInts
  <2>8. start' \in Int /\ -Len(text) <= start' /\ start' <= 0
    <3>1. start' \in Int /\ end <= start' /\ start' <= -1
      BY <2>1, <2>6, <2>7
    <3> QED
      BY <2>3, <2>4, <3>1
  <2>9. LoopInv'
    <3>1. ~(limit >= 0) /\ text' = text /\ limit' = limit /\ pieces' = pieces
          /\ splitting' = splitting
      BY <1>1, <1>2
    <3> QED
      BY <2>2, <2>8, <3>1 DEF LoopInv
  <2>10. splitting' \in BOOLEAN
    BY <1>1, <1>2
  <2>11. UNCHANGED <<source, reader, packing, phase, next, blocks, group,
                     unit, parts, result, text, limit>>
    BY <1>1, <2>1
  <2> QED
    BY <1>1, <2>8, <2>9, <2>10, <2>11, LoopKeepsInv
<1> QED
  BY <1>4, <1>5

\* The final transaction.
LEMMA StoreKeepsInv == IInv /\ Store => IInv'
<1> SUFFICES ASSUME IInv, Store  PROVE IInv'
  OBVIOUS
<1>1. /\ phase = "group" /\ phase' = "end" /\ UNCHANGED <<source, reader, chunking, next, blocks>>
      /\ result' \in {"no_chunks_generated", "ready_for_indexing", "rolled_back"}
  BY DEF Store
<1>2. /\ chunks' = chunks /\ limit' = limit /\ start' = start /\ splitting' = splitting
  BY <1>1 DEF chunking, packing, splitVars
<1>3. limit \in Int /\ start \in Int /\ splitting \in BOOLEAN
  BY <1>1, ChunkingFacts
<1> QED
  BY <1>1, <1>2, <1>3, EndKeepsInv DEF Results

\* The pieces of a body that is split join those of the bodies before it.
LEMMA GatheredParts ==
  ASSUME BlocksSettled, NEW from \in 1..Len(blocks), RunInv(from), SplittingInv(from),
         ~splitting, limit \in Int
  PROVE  /\ limit >= 0 /\ Gathered # <<>>
         /\ Fitting(Gathered, Run(from), Room) /\ Ordered(blocks, Gathered)
         /\ \A m \in 1..Len(Gathered) : Gathered[m].of <= group.bodies[unit].of
         /\ \A u \in 1..unit : \A i \in 1..Len(group.bodies[u].text) :
              IsSolid(group.bodies[u].text, i) => Holds(Gathered, group.bodies[u].of, i)
<1> DEFINE k == group.bodies[unit].of
           new == [n \in 1..Len(pieces) |-> Part(n)]
           g == parts \o new
<1>1. /\ unit \in 1..Len(group.bodies) /\ text = group.bodies[unit].text /\ limit = Room
      /\ LoopInv
      /\ \A m \in 1..Len(parts) : parts[m].of < k
      /\ \A u \in 1..(unit - 1) : \A i \in 1..Len(group.bodies[u].text) :
           IsSolid(group.bodies[u].text, i) => Holds(parts, group.bodies[u].of, i)
  BY DEF SplittingInv
<1>2. Bodies(from, group)
  BY GroupOfRun DEF RunInv
<1>3. /\ limit >= 0 /\ SplitInv
      /\ Len(text) <= limit => pieces = <<Piece(1, Len(text))>>
  BY <1>1 DEF LoopInv
<1>4. /\ pieces \in Seq(Pieces) /\ Len(pieces) \in Nat /\ IsNormal(text)
      /\ Covered(text, Len(text), pieces) /\ Fit(text, limit, pieces) /\ Overlapping(pieces)
  BY <1>3 DEF SplitInv, SplitTypeOK, NothingLost, PiecesFit, OverlapBounded
<1>5. Len(text) \in Nat \ {0} /\ IsSolid(text, 1)
  BY <1>4, NormalFacts
<1>6. Fitting(parts, Run(from), Room) /\ Ordered(blocks, parts)
  BY DEF RunInv
<1>7. parts \in Seq(PartSet) /\ Len(parts) \in Nat
  BY <1>6 DEF Fitting
<1>8. /\ k \in Run(from) /\ k \in Nat /\ Len(group.bodies) \in Nat /\ unit \in Nat
      /\ Run(from) \subseteq 1..Len(blocks)
  <2> DEFINE bodies == group.bodies
             S == [of : Nat, text : Seq(Chars)]
  <2>1. /\ bodies \in Seq(S) /\ Len(bodies) \in Nat
        /\ unit \in 1..Len(bodies) /\ k = bodies[unit].of /\ k \in Run(from)
    BY <1>1, <1>2 DEF Bodies
  <2> HIDE DEF bodies, k, S
  <2>2. bodies[unit] \in S
    BY <2>1
  <2>3. Run(from) \subseteq 1..Len(blocks)
    BY RunsAreUniform
  <2>4. unit \in Nat /\ k \in Nat
    BY <2>1, <2>2 DEF S
  <2> QED
    BY <2>1, <2>3, <2>4 DEF bodies
<1> HIDE DEF k
<1>9. \A n \in 1..Len(pieces) :
        /\ pieces[n].first \in Nat /\ pieces[n].last \in Nat
        /\ Part(n).of = k /\ Part(n).first = pieces[n].first /\ Part(n).last = pieces[n].last
        /\ Part(n) \in PartSet
  <2> SUFFICES ASSUME NEW n \in 1..Len(pieces)
               PROVE  /\ pieces[n].first \in Nat /\ pieces[n].last \in Nat
                      /\ Part(n).of = k
                      /\ Part(n).first = pieces[n].first /\ Part(n).last = pieces[n].last
                      /\ Part(n) \in PartSet
    OBVIOUS
  <2>1. pieces[n] \in Pieces
    BY <1>4
  <2>2. pieces[n].first \in Nat /\ pieces[n].last \in Nat
    BY <2>1 DEF Pieces
  <2> QED
    BY <1>8, <2>2 DEF Part, PartSet, k
<1>10. new \in Seq(PartSet) /\ Len(new) = Len(pieces) /\ \A n \in 1..Len(pieces) : new[n] = Part(n)
  BY <1>4, <1>9
<1> HIDE DEF new
<1>11. /\ g \in Seq(PartSet) /\ Len(g) = Len(parts) + Len(pieces)
       /\ \A m \in 1..Len(parts) : g[m] = parts[m]
       /\ \A n \in 1..Len(pieces) : g[Len(parts) + n] = new[n]
  BY <1>7, <1>10
<1>12. g = Gathered
  BY DEF Gathered, new
<1> HIDE DEF g
<1>13. /\ \A m \in 1..Len(parts) : m \in 1..Len(g)
       /\ \A n \in 1..Len(pieces) :
            /\ Len(parts) + n \in 1..Len(g)
            /\ g[Len(parts) + n].of = k /\ g[Len(parts) + n].first = pieces[n].first
            /\ g[Len(parts) + n].last = pieces[n].last
  <2>1. \A m \in 1..Len(parts) : m \in 1..Len(g)
    BY <1>4, <1>7, <1>11
  <2>2. \A n \in 1..Len(pieces) : Len(parts) + n \in 1..Len(g)
    BY <1>4, <1>7, <1>11
  <2>3. \A n \in 1..Len(pieces) : g[Len(parts) + n] = Part(n)
    BY <1>10, <1>11
  <2> QED
    BY <1>9, <2>1, <2>2, <2>3
<1>14. \A m \in 1..Len(g) : m \in 1..Len(parts) \/ \E n \in 1..Len(pieces) : m = Len(parts) + n
  <2> SUFFICES ASSUME NEW m \in 1..Len(g), m \notin 1..Len(parts)
               PROVE  \E n \in 1..Len(pieces) : m = Len(parts) + n
    OBVIOUS
  <2>1. m - Len(parts) \in 1..Len(pieces) /\ m = Len(parts) + (m - Len(parts))
    BY <1>4, <1>7, <1>11
  <2> QED
    BY <2>1
<1>15. Fitting(g, Run(from), Room)
  <2>1. \A m \in 1..Len(parts) : /\ parts[m].of \in Run(from)
                                 /\ parts[m].first <= parts[m].last
                                 /\ parts[m].last - parts[m].first < Room
    BY <1>6 DEF Fitting
  <2>2. \A n \in 1..Len(pieces) : /\ pieces[n].first <= pieces[n].last
                                  /\ pieces[n].last - pieces[n].first < Room
    BY <1>1, <1>4 DEF Fit
  <2>3. ASSUME NEW m \in 1..Len(g)
        PROVE  g[m].of \in Run(from) /\ g[m].first <= g[m].last /\ g[m].last - g[m].first < Room
    <3>1. CASE m \in 1..Len(parts)
      BY <1>11, <2>1, <3>1
    <3>2. ASSUME NEW n \in 1..Len(pieces), m = Len(parts) + n
          PROVE  g[m].of \in Run(from) /\ g[m].first <= g[m].last /\ g[m].last - g[m].first < Room
      BY <1>8, <1>13, <2>2, <3>2
    <3> QED
      BY <1>14, <3>1, <3>2
  <2> QED
    BY <1>11, <2>3 DEF Fitting
<1>16. Ordered(blocks, g)
  <2> SUFFICES ASSUME NEW m \in 1..Len(g), NEW l \in 1..Len(g), m < l
               PROVE  Comes(blocks, g[m], g[l])
    BY DEF Ordered
  <2>1. CASE l \in 1..Len(parts)
    <3>1. m \in 1..Len(parts)
      BY <1>7, <1>11, <2>1
    <3> QED
      BY <1>6, <1>11, <2>1, <3>1 DEF Ordered
  <2>2. ASSUME m \in 1..Len(parts), NEW n \in 1..Len(pieces), l = Len(parts) + n
        PROVE  Comes(blocks, g[m], g[l])
    BY <1>1, <1>11, <1>13, <2>2 DEF Comes
  <2>3. ASSUME NEW n \in 1..Len(pieces), NEW o \in 1..Len(pieces),
               m = Len(parts) + n, l = Len(parts) + o
        PROVE  Comes(blocks, g[m], g[l])
    <3>1. n < o
      BY <1>4, <1>7, <2>3
    <3>2. g[m].of = k /\ g[l].of = k /\ g[m].first < g[l].first
      BY <1>4, <1>13, <2>3, <3>1, FirstsIncrease
    <3>3. Len(text) > limit
      <4>1. Len(pieces) # 1
        <5>1. n \in 1..1 /\ o \in 1..1 => ~(n < o)
          OBVIOUS
        <5> QED
          BY <2>3, <3>1, <5>1
      <4> QED
        BY <1>3, <1>5, <4>1
    <3>4. Len(blocks[k].text) > MaxChunk - PrefixLength(blocks[k].heading)
      BY <1>1, <1>2, <3>3 DEF Bodies, Room, k
    <3> QED
      BY <3>2, <3>4 DEF Comes
  <2>4. l \in 1..Len(parts) \/ \E o \in 1..Len(pieces) : l = Len(parts) + o
    BY <1>14
  <2>5. m \in 1..Len(parts) \/ \E n \in 1..Len(pieces) : m = Len(parts) + n
    BY <1>14
  <2> QED
    BY <2>1, <2>2, <2>3, <2>4, <2>5
<1>17. \A m \in 1..Len(g) : g[m].of <= k
  <2> SUFFICES ASSUME NEW m \in 1..Len(g)  PROVE g[m].of <= k
    OBVIOUS
  <2>1. CASE m \in 1..Len(parts)
    <3>1. parts[m] \in PartSet /\ parts[m].of < k /\ g[m].of = parts[m].of
      BY <1>1, <1>7, <1>11, <2>1 DEF k
    <3>2. parts[m].of \in Nat
      BY <3>1 DEF PartSet
    <3> QED
      BY <1>8, <3>1, <3>2
  <2>2. ASSUME NEW n \in 1..Len(pieces), m = Len(parts) + n  PROVE g[m].of <= k
    BY <1>8, <1>13, <2>2
  <2> QED
    BY <1>14, <2>1, <2>2
<1>18. \A j, i : Holds(parts, j, i) => Holds(g, j, i)
  BY <1>11, <1>13 DEF Holds
<1>19. \A i \in 1..Len(text) : IsSolid(text, i) => Holds(g, k, i)
  <2> SUFFICES ASSUME NEW i \in 1..Len(text), IsSolid(text, i)  PROVE Holds(g, k, i)
    OBVIOUS
  <2>1. PICK n \in 1..Len(pieces) : pieces[n].first <= i /\ i <= pieces[n].last
    BY <1>4 DEF Covered
  <2> QED
    BY <1>13, <2>1 DEF Holds
<1>20. \A u \in 1..unit : \A i \in 1..Len(group.bodies[u].text) :
         IsSolid(group.bodies[u].text, i) => Holds(g, group.bodies[u].of, i)
  <2> SUFFICES ASSUME NEW u \in 1..unit, NEW i \in 1..Len(group.bodies[u].text),
                      IsSolid(group.bodies[u].text, i)
               PROVE  Holds(g, group.bodies[u].of, i)
    OBVIOUS
  <2>1. CASE u = unit
    BY <1>1, <1>19, <2>1 DEF k
  <2>2. CASE u # unit
    <3>1. u \in 1..(unit - 1)
      BY <1>8, <2>2
    <3> QED
      BY <1>1, <1>18, <3>1
  <2> QED
    BY <2>1, <2>2
<1>21. g # <<>>
  <2>1. Holds(g, k, 1)
    BY <1>5, <1>19
  <2> QED
    BY <1>11, <2>1 DEF Holds
<1> QED
  BY <1>3, <1>12, <1>15, <1>16, <1>17, <1>20, <1>21 DEF k

\* What the packing of a run does not disturb.
LEMMA PackingKeeps ==
  ASSUME IInv, phase \in {"split", "pack"}, phase' \in {"group", "split", "pack"},
         UNCHANGED <<source, reader, next, blocks, group, result>>,
         limit' \in Int, start' \in Int, splitting' \in BOOLEAN
  PROVE  TypeOK' /\ SourceInv' /\ ReaderInv' /\ ExtractInv' /\ NormalInv'
<1>1. /\ BlocksSettled /\ next \in Nat /\ next > 0 /\ next' = next
  BY ChunkingFacts
<1>2. TypeOK'
  BY <1>1, TypesKept DEF IInv
<1>3. SourceInv' /\ ReaderInv' /\ ExtractInv'
  BY <1>1, SourceKept DEF IInv
<1>4. NormalInv'
  BY <1>1, BlocksKept DEF NormalInv
<1> QED
  BY <1>2, <1>3, <1>4

\* A body is split: the next one is, or the run is packed.
LEMMA CollectKeepsInv == IInv /\ Collect => IInv'
<1> SUFFICES ASSUME IInv, Collect  PROVE IInv'
  OBVIOUS
<1>1. /\ phase = "split" /\ ~splitting /\ parts' = Gathered
      /\ UNCHANGED <<source, reader, next, blocks, group, result>>
      /\ blocks' = blocks /\ group' = group /\ next' = next
      /\ current' = current /\ chunks' = chunks
  BY DEF Collect, packing
<1>2. /\ BlocksSettled /\ Len(blocks) \in Nat /\ limit \in Int /\ start \in Int
      /\ splitting \in BOOLEAN /\ next \in Nat
  BY <1>1, ChunkingFacts
<1>3. PICK from \in 1..Len(blocks) : RunInv(from) /\ SplittingInv(from)
  BY <1>1 DEF IInv, WorkInv
<1> DEFINE g == Gathered
<1>4. /\ limit >= 0 /\ g # <<>>
      /\ Fitting(g, Run(from), Room) /\ Ordered(blocks, g)
      /\ \A m \in 1..Len(g) : g[m].of <= group.bodies[unit].of
      /\ \A u \in 1..unit : \A i \in 1..Len(group.bodies[u].text) :
           IsSolid(group.bodies[u].text, i) => Holds(g, group.bodies[u].of, i)
  BY <1>1, <1>2, <1>3, GatheredParts
<1> HIDE DEF g
<1>5. parts' = g
  BY <1>1 DEF g
<1>6. RunEnd(from)' = RunEnd(from) /\ Run(from)' = Run(from) /\ Group(from)' = Group(from)
  BY <1>1, RunsKept
<1>7. current = <<>> /\ UpTo(chunks, from - 1) /\ unit \in 1..Len(group.bodies) /\ limit = Room
  BY <1>3 DEF SplittingInv
<1>8. /\ Bodies(from, group) /\ RunEnd(from) \in from..Len(blocks) /\ next = RunEnd(from) + 1
      /\ Run(from) \subseteq 1..Len(blocks)
  BY <1>2, <1>3, GroupOfRun, RunsAreUniform DEF RunInv
<1>9. Room' = Room
  BY <1>1 DEF Room
<1>10. RunInv(from)'
  BY <1>1, <1>3, <1>4, <1>5, <1>6, <1>7, <1>9 DEF RunInv
<1>11. ChunksInv'
  BY <1>1 DEF IInv, ChunksInv
<1>12. CASE unit < Len(group.bodies)
  <2> DEFINE bodies == group.bodies
             S == [of : Nat, text : Seq(Chars)]
  <2>1. phase' = "split" /\ unit' = unit + 1 /\ Begin(bodies[unit + 1].text, limit)
    BY <1>1, <1>12 DEF Collect
  <2>2. /\ bodies \in Seq(S) /\ Len(bodies) \in Nat
        /\ \A u \in 1..Len(bodies) : IsNormal(bodies[u].text)
        /\ \A u, v \in 1..Len(bodies) : u < v => bodies[u].of < bodies[v].of
    BY <1>8 DEF Bodies
  <2>3. unit + 1 \in 1..Len(bodies) /\ unit < unit + 1 /\ unit \in 1..Len(bodies)
    BY <1>7, <1>12, <2>2
  <2> HIDE DEF bodies
  <2>4. LoopInv' /\ text' = bodies[unit + 1].text /\ limit' = limit
        /\ start' \in Int /\ splitting' \in BOOLEAN
    BY <1>2, <2>1, <2>2, <2>3, BeginLoop
  <2>5. \A m \in 1..Len(g) : g[m].of < bodies[unit + 1].of
    <3> SUFFICES ASSUME NEW m \in 1..Len(g)  PROVE g[m].of < bodies[unit + 1].of
      OBVIOUS
    <3>1. g[m].of <= bodies[unit].of
      BY <1>4 DEF bodies
    <3>2. bodies[unit].of < bodies[unit + 1].of
      BY <2>2, <2>3
    <3>3. bodies[unit].of \in Nat /\ bodies[unit + 1].of \in Nat
      <4> HIDE DEF S
      <4>1. bodies[unit] \in S /\ bodies[unit + 1] \in S
        BY <2>2, <2>3
      <4> QED
        BY <4>1 DEF S
    <3>4. g[m].of \in Nat
      <4>1. g \in Seq(PartSet)
        BY <1>4 DEF Fitting
      <4>2. g[m] \in PartSet
        BY <4>1
      <4> QED
        BY <4>2 DEF PartSet
    <3> QED
      BY <3>1, <3>2, <3>3, <3>4
  <2>6. unit' - 1 = unit
    BY <2>1, <2>3
  <2>7. SplittingInv(from)'
    <3>1. current' = <<>> /\ UpTo(chunks', from - 1) /\ limit' = Room'
      BY <1>1, <1>7, <1>9, <2>4
    <3>2. unit' \in 1..Len(group'.bodies) /\ text' = group'.bodies[unit'].text
      BY <1>1, <2>1, <2>3, <2>4 DEF bodies
    <3>3. \A m \in 1..Len(parts') : parts'[m].of < group'.bodies[unit'].of
      BY <1>1, <1>5, <2>1, <2>5 DEF bodies
    <3>4. \A u \in 1..(unit' - 1) : \A i \in 1..Len(group'.bodies[u].text) :
            IsSolid(group'.bodies[u].text, i) => Holds(parts', group'.bodies[u].of, i)
      BY <1>1, <1>4, <1>5, <2>6
    <3> QED
      BY <2>4, <3>1, <3>2, <3>3, <3>4 DEF SplittingInv
  <2>8. WorkInv'
    BY <1>1, <1>10, <2>1, <2>7 DEF WorkInv
  <2>9. GroupInv'
    BY <2>1 DEF GroupInv
  <2>10. TypeOK' /\ SourceInv' /\ ReaderInv' /\ ExtractInv' /\ NormalInv'
    BY <1>1, <1>2, <2>1, <2>4, PackingKeeps
  <2> QED
    BY <1>11, <2>8, <2>9, <2>10 DEF IInv
<1>13. CASE ~(unit < Len(group.bodies))
  <2>1. /\ phase' = "pack" /\ UNCHANGED splitVars /\ limit' = limit /\ start' = start
        /\ splitting' = splitting
    BY <1>1, <1>13 DEF Collect, splitVars
  <2>2. unit = Len(group.bodies)
    BY <1>7, <1>8, <1>13 DEF Bodies
  <2>3. /\ g \in Seq(PartSet) /\ \A m \in 1..Len(g) : g[m].of \in Run(from)
    BY <1>4 DEF Fitting
  <2>4. UpTo(chunks, next - 1)
    <3> SUFFICES ASSUME NEW n \in 1..Len(chunks), NEW m \in 1..Len(chunks[n].parts)
                 PROVE  chunks[n].parts[m].of <= next - 1
      BY DEF UpTo
    <3>1. chunks[n].parts[m].of <= from - 1
      BY <1>7 DEF UpTo
    <3>2. chunks[n].parts[m].of \in 1..Len(blocks)
      BY DEF IInv, ChunksInv, ChunksSound, ChunkSound
    <3> QED
      BY <1>2, <1>8, <3>1, <3>2
  <2>5. \A n \in 1..Len(chunks) : Before(blocks, chunks[n].parts, g)
    <3> SUFFICES ASSUME NEW n \in 1..Len(chunks), NEW m \in 1..Len(chunks[n].parts),
                        NEW l \in 1..Len(g)
                 PROVE  chunks[n].parts[m].of < g[l].of
      BY DEF Before, Comes
    <3>1. chunks[n].parts[m].of <= from - 1
      BY <1>7 DEF UpTo
    <3>2. chunks[n].parts[m].of \in 1..Len(blocks)
      BY DEF IInv, ChunksInv, ChunksSound, ChunkSound
    <3>3. g[l].of \in from..RunEnd(from)
      BY <2>3 DEF Run
    <3> DEFINE a == chunks[n].parts[m].of
               b == g[l].of
    <3>4. a \in Int /\ a <= from - 1
      BY <3>1, <3>2
    <3>5. b \in Int /\ from <= b
      BY <3>3
    <3> HIDE DEF a, b
    <3>6. from \in Int
      OBVIOUS
    <3>7. a < b
      BY <3>4, <3>5, <3>6
    <3> QED
      BY <3>7 DEF a, b
  <2>6. \A k \in Run(from) : blocks[k].kind # "heading" =>
          \A i \in 1..Len(blocks[k].text) : IsSolid(blocks[k].text, i) => Holds(g, k, i)
    <3> SUFFICES ASSUME NEW k \in Run(from), blocks[k].kind # "heading"
                 PROVE  \A i \in 1..Len(blocks[k].text) :
                          IsSolid(blocks[k].text, i) => Holds(g, k, i)
      OBVIOUS
    <3>1. PICK u \in 1..Len(group.bodies) :
            group.bodies[u].of = k /\ group.bodies[u].text = blocks[k].text
      BY <1>8 DEF Bodies
    <3>2. u \in 1..unit
      BY <2>2
    <3>3. \A i \in 1..Len(group.bodies[u].text) :
            IsSolid(group.bodies[u].text, i) => Holds(g, group.bodies[u].of, i)
      BY <1>4, <3>2
    <3> QED
      BY <3>1, <3>3
  <2>7. PackingInv(from)'
    <3>1. \A qs : Ordered(blocks, <<>>) /\ Before(blocks, <<>>, qs) /\ Before(blocks, qs, <<>>)
      BY DEF Ordered, Before
    <3>2. current' = <<>> /\ parts' = g /\ g # <<>> /\ chunks' = chunks /\ next' = next
          /\ blocks' = blocks /\ Run(from)' = Run(from)
      BY <1>1, <1>4, <1>5, <1>6, <1>7
    <3> QED
      BY <2>4, <2>5, <2>6, <3>1, <3>2 DEF PackingInv
  <2>8. WorkInv'
    BY <1>1, <1>10, <2>1, <2>7 DEF WorkInv
  <2>9. GroupInv'
    BY <2>1 DEF GroupInv
  <2>10. TypeOK' /\ SourceInv' /\ ReaderInv' /\ ExtractInv' /\ NormalInv'
    BY <1>1, <1>2, <2>1, PackingKeeps
  <2> QED
    BY <1>11, <2>8, <2>9, <2>10 DEF IInv
<1> QED
  BY <1>12, <1>13

\* What one part makes a body of.
LEMMA OnePartFits ==
  ASSUME NEW run, NEW room \in Int, NEW ps, Fitting(ps, run, room), Len(ps) = 1
  PROVE  BodyLength(ps) \in 1..room
<1>0. /\ ps \in Seq(PartSet)
      /\ \A m \in 1..Len(ps) : ps[m].first <= ps[m].last /\ ps[m].last - ps[m].first < room
  BY DEF Fitting
<1>1. ps # <<>>
  OBVIOUS
<1>2. BodyLength(ps) \in Nat /\ BodyLength(ps) >= 1 /\ BodyLength(ps) = ps[1].last - ps[1].first + 1
  BY <1>0, <1>1, BodyLengthIsLength
<1>3. ps[1] \in PartSet /\ ps[1].last - ps[1].first < room
  BY <1>0
<1> DEFINE a == ps[1].first  b == ps[1].last
<1>4. a \in Nat /\ b \in Nat /\ b - a < room
  BY <1>3 DEF PartSet
<1> HIDE DEF a, b
<1>5. BodyLength(ps) = b - a + 1
  BY <1>2 DEF a, b
<1> QED
  BY <1>2, <1>4, <1>5

\* The chunk of a run.
LEMMA ChunkOfRun ==
  ASSUME BlocksSettled, NEW from \in 1..Len(blocks), RunInv(from),
         current # <<>>, BodyLength(current) \in 1..Room, Ordered(blocks, current)
  PROVE  /\ Chunk(current) \in ChunkSet /\ ChunkSound(blocks, Chunk(current))
         /\ Chunk(current).parts = current /\ Chunk(current).heading = blocks[from].heading
         /\ \A m \in 1..Len(current) : current[m].of \in Run(from) /\ current[m].of <= next - 1
<1> DEFINE c == Chunk(current)
           len == BodyLength(current)
<1>1. /\ current \in Seq(PartSet) /\ \A m \in 1..Len(current) : current[m].of \in Run(from)
      /\ group = Group(from) /\ next = RunEnd(from) + 1
  BY DEF RunInv, Fitting
<1>2. /\ group.page = blocks[from].page /\ group.heading = blocks[from].heading
      /\ group.prefix \in Nat
      /\ group.prefix = IF group.titled THEN Len(group.heading) + 4 ELSE 0
  BY <1>1, GroupOfRun
<1>3. c = [page |-> group.page, heading |-> group.heading, parts |-> current,
           length |-> (IF group.titled THEN Len(group.heading) + 4 ELSE 0) + len]
  BY DEF Chunk
<1> HIDE DEF c, len
<1>4. c.length = group.prefix + len /\ c.page = blocks[from].page
      /\ c.heading = blocks[from].heading /\ c.parts = current
  BY <1>2, <1>3
<1>5. c.length \in 1..MaxChunk
  <2>1. len \in 1..(MaxChunk - group.prefix)
    BY DEF len, Room
  <2> QED
    BY <1>2, <1>4, <2>1, SizesAssumption
<1>6. /\ blocks[from].page \in Nat /\ blocks[from].heading \in Seq(Chars) \cup {NoHeading}
  BY BlockTypes
<1>7. c \in ChunkSet
  <2>1. c = [page |-> c.page, heading |-> c.heading, parts |-> c.parts, length |-> c.length]
    BY <1>3
  <2> QED
    BY <1>1, <1>4, <1>5, <1>6, <2>1 DEF ChunkSet
<1>8. /\ RunEnd(from) \in from..Len(blocks) /\ Run(from) \subseteq 1..Len(blocks)
      /\ \A k \in Run(from) : /\ blocks[k].page = blocks[from].page
                              /\ blocks[k].heading = blocks[from].heading
  BY RunsAreUniform
<1>9. ChunkSound(blocks, c)
  BY <1>1, <1>4, <1>5, <1>8 DEF ChunkSound
<1>10. \A m \in 1..Len(current) : current[m].of <= next - 1
  <2> SUFFICES ASSUME NEW m \in 1..Len(current)  PROVE current[m].of <= next - 1
    OBVIOUS
  <2>1. current[m].of \in from..RunEnd(from)
    BY <1>1 DEF Run
  <2> QED
    BY <1>1, <1>8, <2>1
<1> QED
  BY <1>1, <1>4, <1>7, <1>9, <1>10 DEF c

\* A part joins the chunk, or the chunk ends before it.
LEMMA PackKeepsInv == IInv /\ Pack => IInv'
<1> SUFFICES ASSUME IInv, Pack  PROVE IInv'
  OBVIOUS
<1> DEFINE h == Head(parts)
<1>1. /\ phase = "pack" /\ parts # <<>> /\ parts' = Tail(parts)
      /\ UNCHANGED <<splitVars, source, reader, phase, next, blocks, group, unit, result>>
      /\ blocks' = blocks /\ group' = group /\ next' = next /\ phase' = "pack"
      /\ limit' = limit /\ start' = start /\ splitting' = splitting
  BY DEF Pack, splitVars
<1>2. /\ BlocksSettled /\ Len(blocks) \in Nat /\ limit \in Int /\ start \in Int
      /\ splitting \in BOOLEAN /\ next \in Nat
  BY <1>1, ChunkingFacts
<1>3. PICK from \in 1..Len(blocks) : RunInv(from) /\ PackingInv(from)
  BY <1>1 DEF IInv, WorkInv
<1>4. RunEnd(from)' = RunEnd(from) /\ Run(from)' = Run(from) /\ Group(from)' = Group(from)
  BY <1>1, RunsKept
<1>5. Room' = Room /\ Room \in Int
  <2>1. group.prefix \in Nat
    BY <1>2, <1>3, GroupOfRun DEF RunInv
  <2> QED
    BY <1>1, <2>1, SizesAssumption DEF Room
<1>6. TypeOK' /\ SourceInv' /\ ReaderInv' /\ ExtractInv' /\ NormalInv'
  BY <1>1, <1>2, PackingKeeps
<1>7. GroupInv'
  BY <1>1 DEF GroupInv
<1>8. /\ Fitting(parts, Run(from), Room) /\ Fitting(current, Run(from), Room)
      /\ Ordered(blocks, parts) /\ Ordered(blocks, current) /\ Before(blocks, current, parts)
      /\ \A n \in 1..Len(chunks) : /\ Before(blocks, chunks[n].parts, current)
                                   /\ Before(blocks, chunks[n].parts, parts)
      /\ UpTo(chunks, next - 1)
      /\ current # <<>> => BodyLength(current) \in 1..Room
  BY <1>3 DEF RunInv, PackingInv
<1>9. \A k \in Run(from) : blocks[k].kind # "heading" =>
        \A i \in 1..Len(blocks[k].text) : IsSolid(blocks[k].text, i) =>
          InChunks(chunks, k, i) \/ Holds(current, k, i) \/ Holds(parts, k, i)
  BY <1>3 DEF PackingInv
<1>10. /\ group = Group(from) /\ next = RunEnd(from) + 1
       /\ \A k \in 1..(from - 1) : Stored(blocks, chunks, k)
  BY <1>3 DEF RunInv
<1>11. /\ Fitting(Joined, Run(from), Room) /\ Fitting(<<h>>, Run(from), Room)
       /\ Fitting(Tail(parts), Run(from), Room)
       /\ \A k, i : Holds(current, k, i) => Holds(Joined, k, i)
       /\ \A k, i : Holds(parts, k, i) =>
            /\ Holds(Joined, k, i) \/ Holds(Tail(parts), k, i)
            /\ Holds(<<h>>, k, i) \/ Holds(Tail(parts), k, i)
       /\ Ordered(blocks, Tail(parts)) /\ Ordered(blocks, <<h>>)
       /\ Before(blocks, <<h>>, Tail(parts))
       /\ Ordered(blocks, Joined) /\ Before(blocks, Joined, Tail(parts))
       /\ Before(blocks, current, <<h>>) /\ Before(blocks, current, Tail(parts))
       /\ \A n \in 1..Len(chunks) : /\ Before(blocks, chunks[n].parts, Joined)
                                    /\ Before(blocks, chunks[n].parts, Tail(parts))
                                    /\ Before(blocks, chunks[n].parts, <<h>>)
  BY <1>1, <1>8, MoveHead DEF Joined
<1>12. Len(Joined) = Len(current) + 1 /\ Len(current) \in Nat /\ Joined # <<>> /\ <<h>> # <<>>
       /\ Len(<<h>>) = 1
  <2>1. current \in Seq(PartSet)
    BY <1>8 DEF Fitting
  <2> QED
    BY <2>1 DEF Joined
<1> HIDE DEF h
<1>13. CASE current # <<>> /\ BodyLength(Joined) > Target - group.prefix
  <2> DEFINE c == Chunk(current)
             ds == Append(chunks, c)
  <2>1. chunks' = ds /\ current' = <<h>>
    BY <1>13 DEF Pack, h
  <2>2. /\ c \in ChunkSet /\ ChunkSound(blocks, c) /\ c.parts = current
        /\ \A m \in 1..Len(current) : current[m].of \in Run(from) /\ current[m].of <= next - 1
    BY <1>2, <1>3, <1>8, <1>13, ChunkOfRun
  <2> HIDE DEF c
  <2>3. ChunksSound(blocks, chunks)
    BY DEF IInv, ChunksInv
  <2>4. /\ ChunksSound(blocks, ds)
        /\ \A k : Stored(blocks, chunks, k) => Stored(blocks, ds, k)
        /\ \A k, i : InChunks(chunks, k, i) \/ Holds(current, k, i) => InChunks(ds, k, i)
        /\ \A to : UpTo(chunks, to) /\ (\A m \in 1..Len(current) : current[m].of <= to)
                     => UpTo(ds, to)
        /\ \A qs : (\A n \in 1..Len(chunks) : Before(blocks, chunks[n].parts, qs))
                     /\ Before(blocks, current, qs)
                     => \A n \in 1..Len(ds) : Before(blocks, ds[n].parts, qs)
    <3>1. \A n \in 1..Len(chunks) : Before(blocks, chunks[n].parts, c.parts)
      BY <1>8, <2>2
    <3> QED
      BY <2>2, <2>3, <3>1, ChunkAdded
  <2> HIDE DEF ds
  <2>5. RunInv(from)'
    BY <1>1, <1>4, <1>5, <1>10, <1>11, <2>1, <2>4 DEF RunInv
  <2>6. BodyLength(<<h>>) \in 1..Room
    BY <1>5, <1>11, <1>12, OnePartFits
  <2>7. UpTo(ds, next - 1)
    BY <1>8, <2>2, <2>4
  <2>8. \A n \in 1..Len(ds) : /\ Before(blocks, ds[n].parts, <<h>>)
                              /\ Before(blocks, ds[n].parts, Tail(parts))
    BY <1>11, <2>4
  <2>9. \A k \in Run(from) : blocks[k].kind # "heading" =>
          \A i \in 1..Len(blocks[k].text) : IsSolid(blocks[k].text, i) =>
            InChunks(ds, k, i) \/ Holds(<<h>>, k, i) \/ Holds(Tail(parts), k, i)
    BY <1>9, <1>11, <2>4
  <2>10. PackingInv(from)'
    BY <1>1, <1>4, <1>5, <1>11, <1>12, <2>1, <2>6, <2>7, <2>8, <2>9 DEF PackingInv
  <2>11. WorkInv'
    BY <1>1, <2>5, <2>10 DEF WorkInv
  <2>12. ChunksInv'
    BY <1>1, <2>1, <2>4 DEF ChunksInv
  <2> QED
    BY <1>6, <1>7, <2>11, <2>12 DEF IInv
<1>14. CASE ~(current # <<>> /\ BodyLength(Joined) > Target - group.prefix)
  <2>1. chunks' = chunks /\ current' = Joined
    BY <1>14 DEF Pack
  <2>2. RunInv(from)'
    BY <1>1, <1>4, <1>5, <1>10, <1>11, <2>1 DEF RunInv
  <2>3. BodyLength(Joined) \in 1..Room
    <3>1. CASE current = <<>>
      BY <1>5, <1>11, <1>12, <3>1, OnePartFits
    <3>2. CASE current # <<>>
      <4>1. Joined \in Seq(PartSet) /\ \A m \in 1..Len(Joined) : Joined[m].first <= Joined[m].last
        BY <1>11 DEF Fitting
      <4>2. BodyLength(Joined) \in Nat /\ BodyLength(Joined) >= 1
        BY <1>12, <4>1, BodyLengthIsLength
      <4>3. ~(BodyLength(Joined) > Target - group.prefix) /\ group.prefix \in Nat
        BY <1>2, <1>3, <1>10, <1>14, <3>2, GroupOfRun
      <4> QED
        BY <4>2, <4>3, SizesAssumption DEF Room
    <3> QED
      BY <3>1, <3>2
  <2>4. \A k \in Run(from) : blocks[k].kind # "heading" =>
          \A i \in 1..Len(blocks[k].text) : IsSolid(blocks[k].text, i) =>
            InChunks(chunks, k, i) \/ Holds(Joined, k, i) \/ Holds(Tail(parts), k, i)
    BY <1>9, <1>11
  <2>5. PackingInv(from)'
    BY <1>1, <1>4, <1>5, <1>8, <1>11, <1>12, <2>1, <2>3, <2>4 DEF PackingInv
  <2>6. WorkInv'
    BY <1>1, <2>2, <2>5 DEF WorkInv
  <2>7. ChunksInv'
    BY <1>1, <2>1 DEF IInv, ChunksInv
  <2> QED
    BY <1>6, <1>7, <2>6, <2>7 DEF IInv
<1> QED
  BY <1>13, <1>14

\* The last chunk of a run ends: the blocks of the run are stored.
LEMMA EndGroupKeepsInv == IInv /\ EndGroup => IInv'
<1> SUFFICES ASSUME IInv, EndGroup  PROVE IInv'
  OBVIOUS
<1> DEFINE c == Chunk(current)
           ds == Append(chunks, c)
<1>1. /\ phase = "pack" /\ parts = <<>> /\ phase' = "group"
      /\ UNCHANGED <<splitVars, source, reader, next, blocks, group, unit, parts, result>>
      /\ blocks' = blocks /\ group' = group /\ next' = next /\ parts' = <<>>
      /\ limit' = limit /\ start' = start /\ splitting' = splitting
      /\ chunks' = ds /\ current' = <<>>
  BY DEF EndGroup, splitVars
<1>2. /\ BlocksSettled /\ Len(blocks) \in Nat /\ limit \in Int /\ start \in Int
      /\ splitting \in BOOLEAN /\ next \in Nat /\ next > 0
  BY <1>1, ChunkingFacts
<1>3. PICK from \in 1..Len(blocks) : RunInv(from) /\ PackingInv(from)
  BY <1>1 DEF IInv, WorkInv
<1>4. /\ current # <<>> /\ BodyLength(current) \in 1..Room /\ Ordered(blocks, current)
      /\ \A n \in 1..Len(chunks) : Before(blocks, chunks[n].parts, current)
      /\ UpTo(chunks, next - 1)
  BY <1>1, <1>3 DEF PackingInv
<1>5. \A k \in Run(from) : blocks[k].kind # "heading" =>
        \A i \in 1..Len(blocks[k].text) : IsSolid(blocks[k].text, i) =>
          InChunks(chunks, k, i) \/ Holds(current, k, i)
  BY <1>1, <1>3 DEF PackingInv, Holds
<1>6. /\ c \in ChunkSet /\ ChunkSound(blocks, c) /\ c.parts = current
      /\ c.heading = blocks[from].heading
      /\ \A m \in 1..Len(current) : current[m].of <= next - 1
  BY <1>2, <1>3, <1>4, ChunkOfRun
<1> HIDE DEF c
<1>7. ChunksSound(blocks, chunks)
  BY DEF IInv, ChunksInv
<1>8. /\ ChunksSound(blocks, ds) /\ ds # <<>>
      /\ \A k : Stored(blocks, chunks, k) => Stored(blocks, ds, k)
      /\ \A k, i : InChunks(chunks, k, i) \/ Holds(current, k, i) => InChunks(ds, k, i)
      /\ \E n \in 1..Len(ds) : ds[n].heading = c.heading
      /\ UpTo(ds, next - 1)
  <2>1. \A n \in 1..Len(chunks) : Before(blocks, chunks[n].parts, c.parts)
    BY <1>4, <1>6
  <2>2. /\ ChunksSound(blocks, ds) /\ ds # <<>>
        /\ \A k : Stored(blocks, chunks, k) => Stored(blocks, ds, k)
        /\ \A k, i : InChunks(chunks, k, i) \/ Holds(c.parts, k, i) => InChunks(ds, k, i)
        /\ \E n \in 1..Len(ds) : ds[n].heading = c.heading
        /\ \A to : UpTo(chunks, to) /\ (\A m \in 1..Len(c.parts) : c.parts[m].of <= to)
                     => UpTo(ds, to)
    BY <1>6, <1>7, <2>1, ChunkAdded
  <2> HIDE DEF ds
  <2>3. \A m \in 1..Len(c.parts) : c.parts[m].of <= next - 1
    BY <1>6
  <2>4. UpTo(ds, next - 1)
    BY <1>4, <2>2, <2>3
  <2> QED
    BY <1>6, <2>2, <2>4
<1> HIDE DEF ds
<1>9. /\ RunEnd(from) \in from..Len(blocks) /\ next = RunEnd(from) + 1
      /\ \A k \in Run(from) : blocks[k].heading = blocks[from].heading
  BY <1>2, <1>3, RunsAreUniform DEF RunInv
<1>10. \A k \in 1..(next - 1) : Stored(blocks, ds, k)
  <2> SUFFICES ASSUME NEW k \in 1..(next - 1)  PROVE Stored(blocks, ds, k)
    OBVIOUS
  <2>1. CASE k \in 1..(from - 1)
    BY <1>3, <1>8, <2>1 DEF RunInv
  <2>2. CASE k \in Run(from)
    BY <1>5, <1>6, <1>8, <1>9, <2>2 DEF Stored
  <2>3. k \in 1..(from - 1) \/ k \in Run(from)
    BY <1>2, <1>9 DEF Run
  <2> QED
    BY <2>1, <2>2, <2>3
<1>11. GroupInv'
  <2>1. next \in 1..(Len(blocks) + 1)
    BY <1>2, <1>9
  <2> QED
    BY <1>1, <1>8, <1>10, <2>1 DEF GroupInv
<1>12. ChunksInv' /\ WorkInv'
  BY <1>1, <1>8 DEF ChunksInv, WorkInv
<1>13. TypeOK' /\ SourceInv' /\ ReaderInv' /\ ExtractInv' /\ NormalInv'
  BY <1>1, <1>2, PackingKeeps
<1> QED
  BY <1>11, <1>12, <1>13 DEF IInv

-----------------------------------------------------------------------------
(***************************************************************************)
(* The upload.                                                             *)
(***************************************************************************)
\* No heading is above the first item.
LEMMA NoHeadingAtFirst ==
  ASSUME NEW its
  PROVE  HeadingRead(its, 0) = NoHeading /\ HeadingRead(its, -1) = NoHeading
<1>1. 1..0 = {} /\ 1..(-1) = {}
  OBVIOUS
<1> QED
  BY <1>1 DEF HeadingRead

\* Whether the headings count depends on the file.
LEMMA HeadsKept == UNCHANGED <<file, type>> => Heads' = Heads
BY DEF Heads, HasEmptyHeading, IsHeading

\* What reading leaves alone.
LEMMA NothingChunked ==
  ASSUME IInv, phase \in {"upload", "extract"}, UNCHANGED chunking,
         phase' \in {"extract", "end"}
  PROVE  /\ chunks' = <<>> /\ parts' = <<>> /\ current' = <<>>
         /\ NormalInv' /\ ChunksInv' /\ GroupInv' /\ WorkInv'
         /\ limit' \in Int /\ start' \in Int /\ splitting' \in BOOLEAN
<1>1. chunks' = <<>> /\ parts' = <<>> /\ current' = <<>>
  BY DEF IInv, ExtractInv, chunking, packing
<1>2. limit' \in Int /\ start' \in Int /\ splitting' \in BOOLEAN
  BY DEF IInv, TypeOK, chunking, splitVars
<1>3. NormalInv'
  BY <1>1 DEF NormalInv, Normalized
<1>4. ChunksInv'
  BY <1>1 DEF ChunksInv, ChunksSound
<1>5. GroupInv' /\ WorkInv'
  BY DEF GroupInv, WorkInv
<1> QED
  BY <1>1, <1>2, <1>3, <1>4, <1>5

\* The upload is accepted or refused.
LEMMA AcceptKeepsInv == IInv /\ Accept => IInv'
<1> SUFFICES ASSUME IInv, Accept  PROVE IInv'
  OBVIOUS
<1> DEFINE safe == SafeName(file.name)
           canonical == CanonicalType(safe, file.declared)
<1>1. /\ phase = "upload" /\ UNCHANGED <<items, reader, chunking, next, blocks>>
      /\ heading' = heading /\ expecting' = expecting
  BY DEF Accept, reader
<1>2. /\ file \in Files /\ type = NoType /\ next = 0 /\ items = <<>> /\ blocks = <<>>
      /\ heading = NoHeading /\ ~expecting /\ expecting \in BOOLEAN /\ result = "none"
  BY <1>1 DEF IInv, SourceInv, ReaderInv, ExtractInv, TypeOK
<1>3. /\ file.name \in Seq(STRING) /\ Readable(canonical, file.items)
      /\ DOMAIN file = {"name", "declared", "signature", "items", "breaksAt", "error"}
  BY <1>2, FilesAssumption
<1>4. CASE /\ IsNameValid(safe) /\ canonical # NoType
           /\ SignatureValid(canonical, file.signature)
  <2>1. /\ phase' = "extract" /\ type' = canonical
        /\ file' = [file EXCEPT !.name = safe] /\ result' = result
    BY <1>4 DEF Accept
  <2>2. NameStorable(safe, canonical) /\ canonical \in {Canonical[e] : e \in Extensions}
    BY <1>3, <1>4, AcceptedNames
  <2>3. file'.name = safe /\ file'.items = file.items
    BY <1>3, <2>1
  <2> HIDE DEF safe, canonical
  <2>4. SourceInv'
    BY <1>1, <1>2, <1>3, <1>4, <2>1, <2>2, <2>3 DEF SourceInv
  <2>5. ReaderInv'
    <3>1. HeadingRead(file'.items, next' - 1) = NoHeading
      <4>1. next' - 1 = -1
        BY <1>1, <1>2
      <4> QED
        BY <4>1, NoHeadingAtFirst
    <3>2. ~(next' > 1)
      BY <1>1, <1>2
    <3> QED
      BY <1>1, <1>2, <2>1, <3>1, <3>2 DEF ReaderInv
  <2>6. NormalInv' /\ ChunksInv' /\ GroupInv' /\ WorkInv' /\ ExtractInv'
    <3>1. /\ chunks' = <<>> /\ parts' = <<>> /\ current' = <<>>
          /\ NormalInv' /\ ChunksInv' /\ GroupInv' /\ WorkInv'
      BY <1>1, <2>1, NothingChunked
    <3>2. ExtractInv'
      BY <1>1, <1>2, <2>1, <3>1 DEF ExtractInv
    <3> QED
      BY <3>1, <3>2
  <2>7. TypeOK'
    <3>1. limit' \in Int /\ start' \in Int /\ splitting' \in BOOLEAN
      BY <1>1, <2>1, NothingChunked
    <3> QED
      BY <1>1, <1>2, <2>1, <2>2, <3>1 DEF TypeOK, Results
  <2> QED
    BY <2>4, <2>5, <2>6, <2>7 DEF IInv
<1>5. CASE ~(/\ IsNameValid(safe) /\ canonical # NoType
             /\ SignatureValid(canonical, file.signature))
  <2>1. phase' = "end" /\ result' = "refused" /\ type' = type /\ file' = file
    BY <1>5 DEF Accept, FailWith
  <2>2. SourceInv'
    BY <1>1, <1>2, <2>1 DEF SourceInv
  <2>3. ReaderInv' /\ ExtractInv'
    BY <1>1, <1>2, <2>1 DEF ReaderInv, ExtractInv
  <2>4. NormalInv' /\ ChunksInv' /\ GroupInv' /\ WorkInv'
    BY <1>1, <2>1, NothingChunked
  <2>5. TypeOK'
    <3>1. limit' \in Int /\ start' \in Int /\ splitting' \in BOOLEAN
      BY <1>1, <2>1, NothingChunked
    <3> QED
      BY <1>1, <1>2, <2>1, <3>1 DEF TypeOK, Results
  <2> QED
    BY <2>2, <2>3, <2>4, <2>5 DEF IInv
<1> QED
  BY <1>4, <1>5

-----------------------------------------------------------------------------
(***************************************************************************)
(* Reading.                                                                *)
(***************************************************************************)
\* Reading fails.
LEMMA ReadFailsKeepsInv == IInv /\ ReadFails => IInv'
<1> SUFFICES ASSUME IInv, ReadFails  PROVE IInv'
  OBVIOUS
<1>1. /\ phase = "extract" /\ phase' = "end" /\ result' = FailureCode
      /\ UNCHANGED <<source, reader, chunking, next, blocks>>
      /\ file' = file /\ type' = type /\ items' = items /\ heading' = heading
      /\ expecting' = expecting
  BY DEF ReadFails, FailWith, source, reader
<1>2. FailureCode \in Results \ {"none"}
  BY DEF FailureCode, Results
<1>3. SourceInv'
  BY <1>1 DEF IInv, SourceInv
<1>4. ReaderInv' /\ ExtractInv'
  BY <1>1 DEF IInv, ReaderInv, ExtractInv
<1>5. NormalInv' /\ ChunksInv' /\ GroupInv' /\ WorkInv'
  BY <1>1, NothingChunked
<1>6. TypeOK'
  <2>1. limit' \in Int /\ start' \in Int /\ splitting' \in BOOLEAN
    BY <1>1, NothingChunked
  <2> QED
    BY <1>1, <1>2, <2>1 DEF IInv, TypeOK
<1> QED
  BY <1>3, <1>4, <1>5, <1>6 DEF IInv

\* The file is opened.
LEMMA OpenKeepsInv == IInv /\ Open => IInv'
<1> SUFFICES ASSUME IInv, Open  PROVE IInv'
  OBVIOUS
<1>1. /\ phase = "extract" /\ phase' = "extract" /\ next = 0 /\ next' = 1 /\ blocks' = blocks
      /\ UNCHANGED <<file, type, reader, chunking, phase, blocks, result>>
      /\ heading' = heading /\ expecting' = expecting
      /\ items' = IF type = "text/plain" THEN Paragraphs(file.items) ELSE file.items
  BY DEF Open, reader
<1>2. SourceInv'
  BY <1>1 DEF IInv, SourceInv
<1>3. ReaderInv'
  <2>1. Heads' = Heads /\ file' = file
    BY <1>1, HeadsKept
  <2>2. next - 1 = -1 /\ next' - 1 = 0 /\ ~(next > 1) /\ ~(next' > 1)
    BY <1>1
  <2>3. /\ HeadingRead(file'.items, next' - 1) = NoHeading
        /\ HeadingRead(file.items, next - 1) = NoHeading
    BY <2>1, <2>2, NoHeadingAtFirst
  <2> QED
    BY <1>1, <2>1, <2>2, <2>3 DEF IInv, ReaderInv
<1>4. ExtractInv'
  <2>1. chunks' = <<>> /\ parts' = <<>> /\ current' = <<>>
    BY <1>1, NothingChunked
  <2> QED
    BY <1>1, <2>1, HeadsKept DEF IInv, ExtractInv, Extracted, PageOf
<1>5. NormalInv' /\ ChunksInv' /\ GroupInv' /\ WorkInv'
  BY <1>1, NothingChunked
<1>6. TypeOK'
  <2>1. limit' \in Int /\ start' \in Int /\ splitting' \in BOOLEAN
    BY <1>1, NothingChunked
  <2> QED
    BY <1>1, <2>1 DEF IInv, TypeOK
<1> QED
  BY <1>2, <1>3, <1>4, <1>5, <1>6 DEF IInv

-----------------------------------------------------------------------------
(***************************************************************************)
(* The items.                                                              *)
(***************************************************************************)
\* The next item is read: what it adds, and what becomes of the heading.
LEMMA ItemKeepsInv ==
  ASSUME IInv, NEW t, Reads(t),
         \/ blocks' = blocks
         \/ \E b \in RawBlock : Extracted(b) /\ blocks' = Append(blocks, b),
         heading' \in Texts \cup {NoHeading}, expecting' \in BOOLEAN,
         Heads => /\ heading' = HeadingRead(file.items, next)
                  /\ expecting' <=> file.items[next].kind = "heading_open"
  PROVE  IInv'
<1>1. /\ phase = "extract" /\ phase' = "extract" /\ next \in 1..Len(items) /\ next' = next + 1
      /\ UNCHANGED <<source, chunking, phase, result>>
      /\ file' = file /\ type' = type /\ items' = items /\ result' = result
  BY DEF Reads, source
<1>2. next \in Nat /\ next > 0 /\ next' \in Nat /\ next' > 0 /\ next' - 1 = next /\ next' > 1
  BY <1>1 DEF IInv, TypeOK
<1>3. Heads' = Heads
  BY <1>1, HeadsKept
<1>4. SourceInv'
  BY <1>1, <1>2 DEF IInv, SourceInv
<1>5. ReaderInv'
  BY <1>1, <1>2, <1>3 DEF ReaderInv
<1>6. /\ chunks' = <<>> /\ parts' = <<>> /\ current' = <<>>
      /\ NormalInv' /\ ChunksInv' /\ GroupInv' /\ WorkInv'
      /\ limit' \in Int /\ start' \in Int /\ splitting' \in BOOLEAN
  BY <1>1, NothingChunked
<1>7. blocks' \in Seq(RawBlock) /\ \A k \in 1..Len(blocks') : Extracted(blocks'[k])
  <2>1. blocks \in Seq(RawBlock) /\ \A k \in 1..Len(blocks) : Extracted(blocks[k])
    BY <1>1 DEF IInv, ExtractInv
  <2>2. CASE blocks' = blocks
    BY <2>1, <2>2
  <2>3. ASSUME NEW b \in RawBlock, Extracted(b), blocks' = Append(blocks, b)
        PROVE  blocks' \in Seq(RawBlock) /\ \A k \in 1..Len(blocks') : Extracted(blocks'[k])
    <3>1. /\ blocks' \in Seq(RawBlock) /\ Len(blocks') = Len(blocks) + 1 /\ Len(blocks) \in Nat
          /\ blocks'[Len(blocks) + 1] = b /\ \A k \in 1..Len(blocks) : blocks'[k] = blocks[k]
      BY <2>1, <2>3
    <3>2. \A k \in 1..Len(blocks') : k \in 1..Len(blocks) \/ k = Len(blocks) + 1
      BY <3>1
    <3> QED
      BY <2>1, <2>3, <3>1, <3>2
  <2> QED
    BY <2>2, <2>3
<1>8. ExtractInv'
  <2>1. \A k \in 1..Len(blocks') : Extracted(blocks[k])' <=> Extracted(blocks'[k])
    BY <1>1, <1>3 DEF Extracted, PageOf
  <2> QED
    BY <1>1, <1>6, <1>7, <2>1 DEF ExtractInv
<1>9. TypeOK'
  <2>1. \A k \in 1..Len(blocks') : blocks'[k].kind \in {"heading", "paragraph", "code"}
    <3> SUFFICES ASSUME NEW k \in 1..Len(blocks')
                 PROVE  blocks'[k].kind \in {"heading", "paragraph", "code"}
      OBVIOUS
    <3>1. blocks'[k] \in RawBlock
      BY <1>7
    <3> QED
      BY <3>1 DEF RawBlock, Kinds
  <2> QED
    BY <1>1, <1>2, <1>6, <2>1 DEF IInv, TypeOK
<1> QED
  BY <1>4, <1>5, <1>6, <1>8, <1>9 DEF IInv

\* What a reader finds.
LEMMA ItemFacts ==
  ASSUME IInv, NEW t, Reads(t)
  PROVE  /\ phase = "extract" /\ type = t /\ next \in Nat /\ next \in 1..Len(items)
         /\ type # NoType /\ Readable(type, file.items)
         /\ items = IF type = "text/plain" THEN Paragraphs(file.items) ELSE file.items
         /\ heading \in Texts \cup {NoHeading} /\ expecting \in BOOLEAN
         /\ Heads => /\ heading = HeadingRead(file.items, next - 1)
                     /\ expecting <=> next > 1 /\ file.items[next - 1].kind = "heading_open"
<1>1. phase = "extract" /\ type = t /\ next \in 1..Len(items)
  BY DEF Reads
<1>2. next \in Nat /\ expecting \in BOOLEAN
  BY DEF IInv, TypeOK
<1>3. next # 0
  BY <1>1
<1>4. /\ type # NoType /\ Readable(type, file.items)
      /\ items = IF type = "text/plain" THEN Paragraphs(file.items) ELSE file.items
  BY <1>1, <1>3 DEF IInv, SourceInv
<1> QED
  BY <1>1, <1>2, <1>4 DEF IInv, ReaderInv

\* A block of the text of the item.
LEMMA ReadBlock ==
  ASSUME NEW kind \in Kinds, NEW txt \in Texts, NEW page \in Nat,
         NEW under \in Texts \cup {NoHeading}, next \in Nat,
         kind = "heading" => under = txt,
         page = IF type = "application/pdf" THEN next ELSE NoPage,
         Heads => next \in 1..Len(file.items) /\ under = HeadingRead(file.items, next)
  PROVE  Block(kind, txt, page, under) \in RawBlock /\ Extracted(Block(kind, txt, page, under))
<1> DEFINE b == Block(kind, txt, page, under)
<1>1. b = [kind |-> kind, text |-> txt, page |-> page, heading |-> under, item |-> next]
  BY DEF Block
<1>2. b \in RawBlock
  BY <1>1 DEF RawBlock
<1>3. b.kind = kind /\ b.text = txt /\ b.page = page /\ b.heading = under /\ b.item = next
  BY <1>1
<1> HIDE DEF b
<1>4. Extracted(b)
  BY <1>3 DEF Extracted, PageOf
<1> QED
  BY <1>2, <1>4 DEF b

\* A page.
LEMMA ReadPageKeepsInv == IInv /\ ReadPage => IInv'
<1> SUFFICES ASSUME IInv, ReadPage  PROVE IInv'
  OBVIOUS
<1>1. /\ Reads("application/pdf") /\ heading' = heading /\ expecting' = expecting
      /\ blocks' = IF Item = <<>> THEN blocks
                   ELSE Append(blocks, Block("paragraph", Item, next, NoHeading))
  BY DEF ReadPage, reader
<1>2. /\ type = "application/pdf" /\ next \in Nat /\ next \in 1..Len(items)
      /\ Readable(type, file.items) /\ items = file.items
      /\ heading \in Texts \cup {NoHeading} /\ expecting \in BOOLEAN
  BY <1>1, ItemFacts
<1>3. Item \in Texts
  BY <1>2 DEF Readable, Item
<1>4. ~Heads
  BY <1>2 DEF Heads
<1>5. /\ Block("paragraph", Item, next, NoHeading) \in RawBlock
      /\ Extracted(Block("paragraph", Item, next, NoHeading))
  BY <1>2, <1>3, <1>4, ReadBlock DEF Kinds
<1> QED
  BY <1>1, <1>2, <1>4, <1>5, ItemKeepsInv

\* A paragraph.
LEMMA ReadParagraphKeepsInv == IInv /\ ReadParagraph => IInv'
<1> SUFFICES ASSUME IInv, ReadParagraph  PROVE IInv'
  OBVIOUS
<1>1. /\ Reads("text/plain") /\ heading' = heading /\ expecting' = expecting
      /\ blocks' = IF \A i \in 1..Len(Item) : IsBlank(Item[i]) THEN blocks
                   ELSE Append(blocks, Block("paragraph", Item, NoPage, NoHeading))
  BY DEF ReadParagraph, reader
<1>2. /\ type = "text/plain" /\ next \in Nat /\ next \in 1..Len(items)
      /\ Readable(type, file.items) /\ items = Paragraphs(file.items)
      /\ heading \in Texts \cup {NoHeading} /\ expecting \in BOOLEAN
  BY <1>1, ItemFacts
<1>3. Item \in Texts
  <2>1. file.items \in Texts
    BY <1>2 DEF Readable
  <2>2. items \in Seq(Texts)
    BY <1>2, <2>1, ParagraphsAreTexts
  <2> QED
    BY <1>2, <2>2 DEF Item
<1>4. ~Heads
  BY <1>2 DEF Heads
<1>5. /\ Block("paragraph", Item, NoPage, NoHeading) \in RawBlock
      /\ Extracted(Block("paragraph", Item, NoPage, NoHeading))
  BY <1>2, <1>3, <1>4, ReadBlock DEF Kinds, NoPage
<1> QED
  BY <1>1, <1>2, <1>4, <1>5, ItemKeepsInv

-----------------------------------------------------------------------------
(***************************************************************************)
(* Markdown: the headings.                                                 *)
(***************************************************************************)
\* The heading above an item is the item, or what is above the one before.
LEMMA HeadingStep ==
  ASSUME NEW its, NEW i \in Nat, i > 0
  PROVE  /\ HeadingAt(its, i) => HeadingRead(its, i) = its[i].text
         /\ ~HeadingAt(its, i) => HeadingRead(its, i) = HeadingRead(its, i - 1)
<1> DEFINE above(n) == {k \in 1..n : HeadingAt(its, k)}
<1>1. \A n : HeadingRead(its, n) = IF above(n) = {} THEN NoHeading ELSE its[Max(above(n))].text
  BY DEF HeadingRead
<1>2. ASSUME HeadingAt(its, i)  PROVE HeadingRead(its, i) = its[i].text
  <2>1. above(i) \subseteq Nat /\ above(i) # {} /\ i \in above(i) /\ \A k \in above(i) : k <= i
    BY <1>2
  <2>2. Max(above(i)) \in above(i) /\ \A k \in above(i) : k <= Max(above(i))
    <3> HIDE DEF above
    <3> QED
      BY <2>1, MaxOfNats
  <2>3. Max(above(i)) = i
    <3> HIDE DEF above
    <3>1. Max(above(i)) <= i /\ i <= Max(above(i)) /\ Max(above(i)) \in Nat
      BY <2>1, <2>2
    <3> QED
      BY <3>1
  <2> HIDE DEF above
  <2> QED
    BY <1>1, <2>1, <2>3
<1>3. ASSUME ~HeadingAt(its, i)  PROVE HeadingRead(its, i) = HeadingRead(its, i - 1)
  <2>1. above(i) = above(i - 1)
    <3>1. \A k \in 1..i : k \in 1..(i - 1) \/ k = i
      OBVIOUS
    <3>2. \A k \in 1..(i - 1) : k \in 1..i
      OBVIOUS
    <3> QED
      BY <1>3, <3>1, <3>2
  <2> HIDE DEF above
  <2> QED
    BY <1>1, <2>1
<1> QED
  BY <1>2, <1>3

\* What is known of a token that is read.
LEMMA TokenFacts ==
  ASSUME IInv, NEW kind, ReadToken(kind)
  PROVE  /\ Reads("text/markdown") /\ Item.kind = kind /\ Item.text \in Texts /\ next \in Nat
         /\ heading \in Texts \cup {NoHeading} /\ expecting \in BOOLEAN
         /\ Heads =>
              /\ next \in 1..Len(file.items) /\ file.items[next].kind = kind
              /\ expecting => kind = "inline"
              /\ kind = "inline" /\ expecting =>
                   Item.text # <<>> /\ HeadingRead(file.items, next) = Item.text
              /\ ~(kind = "inline" /\ expecting) => heading = HeadingRead(file.items, next)
<1>1. Reads("text/markdown") /\ Item.kind = kind
  BY DEF ReadToken
<1>2. /\ type = "text/markdown" /\ next \in Nat /\ next \in 1..Len(items)
      /\ Readable(type, file.items) /\ items = file.items
      /\ heading \in Texts \cup {NoHeading} /\ expecting \in BOOLEAN
      /\ Heads => /\ heading = HeadingRead(file.items, next - 1)
                  /\ expecting <=> next > 1 /\ file.items[next - 1].kind = "heading_open"
  BY <1>1, ItemFacts
<1>3. /\ file.items \in Seq(Tokens)
      /\ \A k \in 1..Len(file.items) :
           file.items[k].kind = "heading_open" =>
             k < Len(file.items) /\ file.items[k + 1].kind = "inline"
  BY <1>2 DEF Readable
<1>4. Item = file.items[next] /\ next \in 1..Len(file.items) /\ next > 0
  BY <1>2 DEF Item
<1>5. Item.text \in Texts
  <2>1. Item \in Tokens
    BY <1>3, <1>4
  <2> QED
    BY <2>1 DEF Tokens
<1>6. ASSUME Heads
      PROVE  /\ expecting => kind = "inline"
             /\ kind = "inline" /\ expecting =>
                  Item.text # <<>> /\ HeadingRead(file.items, next) = Item.text
             /\ ~(kind = "inline" /\ expecting) => heading = HeadingRead(file.items, next)
  <2>1. expecting => kind = "inline"
    <3> SUFFICES ASSUME expecting  PROVE kind = "inline"
      OBVIOUS
    <3>1. next > 1 /\ file.items[next - 1].kind = "heading_open"
      BY <1>2, <1>6
    <3> DEFINE k == next - 1
    <3>2. k \in 1..Len(file.items) /\ k + 1 = next
      BY <1>2, <1>4, <3>1
    <3> HIDE DEF k
    <3>3. file.items[k + 1].kind = "inline"
      BY <1>3, <3>1, <3>2 DEF k
    <3> QED
      BY <1>1, <1>4, <3>2, <3>3
  <2>2. HeadingAt(file.items, next) <=> kind = "inline" /\ expecting
    BY <1>1, <1>2, <1>4, <1>6 DEF HeadingAt
  <2>3. HeadingAt(file.items, next) => Item.text # <<>>
    BY <1>4, <1>6 DEF HeadingAt, Heads, HasEmptyHeading, IsHeading
  <2>4. /\ HeadingAt(file.items, next) => HeadingRead(file.items, next) = Item.text
        /\ ~HeadingAt(file.items, next) =>
             HeadingRead(file.items, next) = HeadingRead(file.items, next - 1)
    BY <1>2, <1>4, HeadingStep
  <2> QED
    BY <1>2, <1>6, <2>1, <2>2, <2>3, <2>4
<1> QED
  BY <1>1, <1>2, <1>4, <1>5, <1>6

\* No token but that of a heading changes the heading.
LEMMA OrdinaryToken ==
  ASSUME IInv, NEW kind \in {"inline", "code", "other"}, ReadToken(kind),
         kind = "inline" /\ expecting => ~Heads,
         NEW of \in Kinds \ {"heading"},
         UNCHANGED reader,
         blocks' = blocks \/ blocks' = Append(blocks, Block(of, Item.text, NoPage, heading))
  PROVE  IInv'
<1>1. heading' = heading /\ expecting' = expecting
  BY DEF reader
<1>2. /\ Reads("text/markdown") /\ Item.text \in Texts /\ next \in Nat
      /\ heading \in Texts \cup {NoHeading} /\ expecting \in BOOLEAN
      /\ Heads => /\ next \in 1..Len(file.items) /\ file.items[next].kind = kind
                  /\ ~expecting
                  /\ heading = HeadingRead(file.items, next)
  BY TokenFacts
<1>3. type = "text/markdown"
  BY <1>2 DEF Reads
<1>4. /\ Block(of, Item.text, NoPage, heading) \in RawBlock
      /\ Extracted(Block(of, Item.text, NoPage, heading))
  BY <1>2, <1>3, ReadBlock DEF NoPage
<1> QED
  BY <1>1, <1>2, <1>4, ItemKeepsInv

\* The opening of a heading.
LEMMA ReadHeadingOpenKeepsInv == IInv /\ ReadHeadingOpen => IInv'
<1> SUFFICES ASSUME IInv, ReadHeadingOpen  PROVE IInv'
  OBVIOUS
<1>1. /\ ReadToken("heading_open") /\ expecting' = TRUE /\ heading' = heading /\ blocks' = blocks
  BY DEF ReadHeadingOpen
<1>2. /\ Reads("text/markdown") /\ heading \in Texts \cup {NoHeading}
      /\ Heads => /\ file.items[next].kind = "heading_open"
                  /\ heading = HeadingRead(file.items, next)
  BY <1>1, TokenFacts
<1> QED
  BY <1>1, <1>2, ItemKeepsInv

\* The text of a heading.
LEMMA ReadHeadingKeepsInv == IInv /\ ReadHeading => IInv'
<1> SUFFICES ASSUME IInv, ReadHeading  PROVE IInv'
  OBVIOUS
<1>1. /\ ReadToken("inline") /\ expecting /\ expecting' = FALSE /\ heading' = Item.text
      /\ blocks' = Append(blocks, Block("heading", Item.text, NoPage, Item.text))
  BY DEF ReadHeading
<1>2. /\ Reads("text/markdown") /\ Item.text \in Texts /\ next \in Nat
      /\ Heads => /\ next \in 1..Len(file.items) /\ file.items[next].kind = "inline"
                  /\ HeadingRead(file.items, next) = Item.text
  BY <1>1, TokenFacts
<1>3. type = "text/markdown"
  BY <1>2 DEF Reads
<1>4. /\ Block("heading", Item.text, NoPage, Item.text) \in RawBlock
      /\ Extracted(Block("heading", Item.text, NoPage, Item.text))
  BY <1>2, <1>3, ReadBlock DEF NoPage, Kinds
<1> QED
  BY <1>1, <1>2, <1>4, ItemKeepsInv

\* Text under a heading.
LEMMA ReadInlineKeepsInv == IInv /\ ReadInline => IInv'
<1> SUFFICES ASSUME IInv, ReadInline  PROVE IInv'
  OBVIOUS
<1>1. /\ ReadToken("inline") /\ ~expecting /\ UNCHANGED reader
      /\ blocks' = Append(blocks, Block("paragraph", Item.text, NoPage, heading))
  BY DEF ReadInline
<1>2. "paragraph" \in Kinds \ {"heading"}
  BY DEF Kinds
<1> QED
  BY <1>1, <1>2, OrdinaryToken

\* A block of code.
LEMMA ReadCodeKeepsInv == IInv /\ ReadCode => IInv'
<1> SUFFICES ASSUME IInv, ReadCode  PROVE IInv'
  OBVIOUS
<1>1. /\ ReadToken("code") /\ UNCHANGED reader
      /\ \/ blocks' = blocks
         \/ blocks' = Append(blocks, Block("code", Item.text, NoPage, heading))
  BY DEF ReadCode
<1>2. "code" \in Kinds \ {"heading"}
  BY DEF Kinds
<1> QED
  BY <1>1, <1>2, OrdinaryToken

\* What is not read.
LEMMA SkipTokenKeepsInv == IInv /\ SkipToken => IInv'
<1> SUFFICES ASSUME IInv, SkipToken  PROVE IInv'
  OBVIOUS
<1>1. UNCHANGED reader /\ blocks' = blocks
  BY DEF SkipToken
<1>2. "code" \in Kinds \ {"heading"}
  BY DEF Kinds
<1>3. CASE ReadToken("other")
  BY <1>1, <1>2, <1>3, OrdinaryToken
<1>4. CASE ReadToken("inline") /\ Item.text = <<>>
  <2>1. expecting => ~Heads
    BY <1>4, TokenFacts
  <2> QED
    BY <1>1, <1>2, <1>4, <2>1, OrdinaryToken
<1> QED
  BY <1>3, <1>4 DEF SkipToken

-----------------------------------------------------------------------------
(***************************************************************************)
(* normalize_document.                                                     *)
(***************************************************************************)
\* No text is the absence of a heading.
LEMMA HeadingsAreTexts ==
  ASSUME NEW txt \in Texts
  PROVE  txt # NoHeading
<1> SUFFICES ASSUME txt = NoHeading  PROVE FALSE
  OBVIOUS
<1> DEFINE C == Chars \cup {"return", "null"}
<1>1. txt \in Seq(C)
  BY DEF Texts
<1>2. "none" \notin C
  BY DEF Chars
<1> HIDE DEF C
<1>3. Len(txt) = 1 /\ txt[1] = "none"
  BY DEF NoHeading
<1>4. txt[1] \in C
  BY <1>1, <1>3
<1> QED
  BY <1>2, <1>3, <1>4

\* The heading above an item is the one that is written there, normalized.
LEMMA HeadingIsNormalized ==
  ASSUME SourceInv, Heads, NEW item \in 1..Len(file.items), next > 0
  PROVE  HeadingRead(file.items, item) \in Texts \cup {NoHeading}
         /\ HeadingAbove(item) = IF HeadingRead(file.items, item) = NoHeading THEN NoHeading
                                 ELSE Normalize(HeadingRead(file.items, item))
<1> DEFINE its == file.items
           above == {k \in 1..item : HeadingAt(its, k)}
<1>1. its \in Seq(Tokens)
  BY DEF SourceInv, Heads, Readable, NoType
<1>2. HeadingRead(its, item) = IF above = {} THEN NoHeading ELSE its[Max(above)].text
  BY DEF HeadingRead
<1>3. HeadingAbove(item) = IF above = {} THEN NoHeading ELSE Normalize(its[Max(above)].text)
  <2>1. above = {k \in 1..item : IsHeading(k)}
    BY DEF IsHeading, HeadingAt
  <2> HIDE DEF above
  <2> QED
    BY <2>1 DEF HeadingAbove
<1>4. above \subseteq 1..item /\ above \subseteq Nat /\ \A k \in above : k <= item
  OBVIOUS
<1>5. CASE above = {}
  BY <1>2, <1>3, <1>5
<1>6. CASE above # {}
  <2> HIDE DEF above, its
  <2>1. Len(its) \in Nat /\ item \in 1..Len(its) /\ item \in Nat
    BY <1>1 DEF its
  <2>2. Max(above) \in above
    BY <1>4, <1>6, <2>1, MaxOfNats
  <2>3. Max(above) \in 1..Len(its)
    <3> DEFINE m == Max(above)
    <3>1. m \in 1..item
      BY <1>4, <2>2
    <3> HIDE DEF m
    <3>2. m \in 1..Len(its)
      BY <2>1, <3>1
    <3> QED
      BY <3>2 DEF m
  <2>4. its[Max(above)] \in Tokens
    BY <1>1, <2>3
  <2>5. its[Max(above)].text \in Texts
    BY <2>4 DEF Tokens
  <2>6. its[Max(above)].text # NoHeading
    BY <2>5, HeadingsAreTexts
  <2> QED
    BY <1>2, <1>3, <1>6, <2>5, <2>6 DEF its
<1> QED
  BY <1>5, <1>6

\* A block of the document, normalized.
LEMMA NormalBlocksAreSettled ==
  ASSUME SourceInv, next > 0, NEW b \in RawBlock, Extracted(b)
  PROVE  /\ Normal(b) \in NormalBlock
         /\ Normal(b).text # <<>> => Settled(Normal(b))
<1> DEFINE n == Normal(b)
           under == IF b.heading = NoHeading THEN NoHeading ELSE Normalize(b.heading)
<1>1. /\ b.kind \in Kinds /\ b.text \in Texts /\ b.page \in Nat
      /\ b.heading \in Texts \cup {NoHeading} /\ b.item \in Nat
      /\ b = [kind |-> b.kind, text |-> b.text, page |-> b.page, heading |-> b.heading,
              item |-> b.item]
  BY DEF RawBlock
<1>2. n = [kind |-> b.kind, text |-> Normalize(b.text), page |-> b.page, heading |-> under,
           item |-> b.item]
  <2> DEFINE k == b.kind  t == b.text  p == b.page  h == b.heading  i == b.item
  <2>1. b = [kind |-> k, text |-> t, page |-> p, heading |-> h, item |-> i]
    BY <1>1
  <2>2. n = [b EXCEPT !.text = Normalize(t), !.heading = under]
    BY DEF Normal
  <2> HIDE DEF k, t, p, h, i, under
  <2>3. n = [kind |-> k, text |-> Normalize(t), page |-> p, heading |-> under, item |-> i]
    <3> HIDE DEF n
    <3> QED
      BY <2>1, <2>2
  <2> QED
    BY <2>3 DEF k, t, p, i
<1>3. /\ n.kind = b.kind /\ n.text = Normalize(b.text) /\ n.page = b.page /\ n.heading = under
      /\ n.item = b.item
  BY <1>2
<1> HIDE DEF n
<1>4. Normalize(b.text) = <<>> \/ InNormalForm(Normalize(b.text))
  BY <1>1, NormalizeIsNormal
<1>5. under \in {NoHeading, <<>>} \/ InNormalForm(under)
  <2>1. CASE b.heading = NoHeading
    BY <2>1
  <2>2. CASE b.heading # NoHeading
    <3>1. b.heading \in Texts
      BY <1>1, <2>2
    <3>2. Normalize(b.heading) = <<>> \/ InNormalForm(Normalize(b.heading))
      BY <3>1, NormalizeIsNormal
    <3> QED
      BY <2>2, <3>2
  <2> QED
    BY <2>1, <2>2
<1>7. n \in NormalBlock
  <2>1. Normalize(b.text) \in Seq(Chars)
    <3> DEFINE t == Normalize(b.text)
    <3>1. <<>> \in Seq(Chars) /\ (t = <<>> \/ InNormalForm(t))
      BY <1>4
    <3> HIDE DEF t
    <3>2. t \in Seq(Chars)
      BY <3>1 DEF InNormalForm, IsNormal
    <3> QED
      BY <3>2 DEF t
  <2>2. under \in Seq(Chars) \cup {NoHeading}
    <3> HIDE DEF under
    <3>1. <<>> \in Seq(Chars)
      OBVIOUS
    <3> QED
      BY <1>5, <3>1 DEF InNormalForm, IsNormal
  <2> HIDE DEF under
  <2> QED
    BY <1>1, <1>2, <2>1, <2>2 DEF NormalBlock
<1>8. ASSUME n.text # <<>>  PROVE Settled(n)
  <2>1. InNormalForm(n.text)
    BY <1>3, <1>4, <1>8
  <2>2. n.kind = "heading" => n.heading = n.text
    <3> SUFFICES ASSUME b.kind = "heading"  PROVE under = Normalize(b.text)
      BY <1>3
    <3>1. b.heading = b.text
      BY DEF Extracted
    <3>2. b.heading # NoHeading
      BY <1>1, <3>1, HeadingsAreTexts
    <3> QED
      BY <3>1, <3>2
  <2>3. n.page = PageOf(n)
    BY <1>3 DEF Extracted, PageOf
  <2>4. ASSUME Heads  PROVE n.heading = HeadingAbove(n.item)
    <3>1. b.item \in 1..Len(file.items) /\ b.heading = HeadingRead(file.items, b.item)
      BY <2>4 DEF Extracted
    <3>2. HeadingAbove(b.item) = under
      BY <2>4, <3>1, HeadingIsNormalized
    <3> QED
      BY <1>3, <3>2
  <2> QED
    BY <1>3, <1>5, <2>1, <2>2, <2>3, <2>4 DEF Settled, Sourced
<1> QED
  BY <1>7, <1>8 DEF n

\* The blocks are normalized, and those without text dropped.
LEMMA NormalizeBlocksKeepsInv == IInv /\ NormalizeBlocks => IInv'
<1> SUFFICES ASSUME IInv, NormalizeBlocks  PROVE IInv'
  OBVIOUS
<1> DEFINE normal == [k \in 1..Len(blocks) |-> Normal(blocks[k])]
           kept == {k \in 1..Len(normal) : normal[k].text # <<>>}
           new == Select(normal, kept)
           at == Positions(normal, kept)
<1>1. /\ phase = "extract" /\ next > Len(items) /\ blocks' = new /\ next' = 1
      /\ UNCHANGED <<source, reader, chunking>>
      /\ file' = file /\ type' = type /\ items' = items /\ heading' = heading
      /\ expecting' = expecting
      /\ \/ new = <<>> /\ result' = "no_extractable_text" /\ phase' = "end"
         \/ new # <<>> /\ result' = result /\ phase' = "group"
  BY DEF NormalizeBlocks, FailWith, source, reader
<1>2. /\ next \in Nat /\ SourceInv /\ type # NoType
      /\ blocks \in Seq(RawBlock) /\ \A k \in 1..Len(blocks) : Extracted(blocks[k])
  BY <1>1 DEF IInv, TypeOK, SourceInv, ExtractInv
<1>3. next > 0
  <2> SUFFICES ASSUME next = 0  PROVE FALSE
    BY <1>2
  <2>1. items = <<>>
    BY <1>2 DEF SourceInv
  <2> QED
    BY <1>1, <2>1
<1>4. \A k \in 1..Len(blocks) :
        Normal(blocks[k]) \in NormalBlock
        /\ (Normal(blocks[k]).text # <<>> => Settled(Normal(blocks[k])))
  BY <1>2, <1>3, NormalBlocksAreSettled
<1>5. /\ Len(blocks) \in Nat /\ normal \in Seq(NormalBlock) /\ Len(normal) = Len(blocks)
      /\ \A k \in 1..Len(normal) : normal[k] = Normal(blocks[k])
  BY <1>2, <1>4
<1>6. \A k \in kept : normal[k].text # <<>>
  OBVIOUS
<1> HIDE DEF normal, kept
<1>7. /\ Enumerates(at, Len(normal), kept) /\ new \in Seq(NormalBlock) /\ Len(new) = Len(at)
      /\ \A k \in 1..Len(new) : new[k] = normal[at[k]]
  BY <1>5, SelectIsExact
<1> HIDE DEF at, new
<1>8. \A k \in 1..Len(new) : Settled(new[k])
  <2>1. \A k \in 1..Len(at) : at[k] \in 1..Len(normal) /\ at[k] \in kept
    BY <1>7 DEF Enumerates
  <2>2. \A k \in 1..Len(normal) : k \in kept => Settled(normal[k])
    BY <1>4, <1>5, <1>6
  <2> QED
    BY <1>7, <2>1, <2>2
<1>9. \A k \in 1..Len(new) : Settled(blocks[k])' <=> Settled(new[k])
  BY <1>1 DEF Settled, Sourced, PageOf, Heads, HeadingAbove, IsHeading, HasEmptyHeading
<1>10. new # <<>> => BlocksSettled'
  BY <1>1, <1>7, <1>8, <1>9 DEF BlocksSettled
<1>11. SourceInv'
  BY <1>1, <1>2, <1>3 DEF SourceInv
<1>12. /\ chunks' = <<>> /\ parts' = <<>> /\ current' = <<>>
       /\ limit' \in Int /\ start' \in Int /\ splitting' \in BOOLEAN
  BY <1>1 DEF IInv, ExtractInv, TypeOK, chunking, packing, splitVars
<1>13. ReaderInv' /\ ExtractInv' /\ WorkInv'
  BY <1>1 DEF IInv, ReaderInv, ExtractInv, WorkInv
<1>14. NormalInv'
  BY <1>1, <1>10, <1>12 DEF NormalInv, Normalized
<1>15. ChunksInv'
  BY <1>12 DEF ChunksInv, ChunksSound
<1>16. GroupInv'
  <2>1. Len(new) \in Nat /\ 1 \in 1..(Len(new) + 1) /\ 1..(1 - 1) = {} /\ ~(1 > 1)
    BY <1>7
  <2> QED
    BY <1>1, <1>12, <2>1 DEF GroupInv, UpTo
<1>17. TypeOK'
  <2>1. \A k \in 1..Len(new) : new[k].kind \in {"heading", "paragraph", "code"}
    <3> SUFFICES ASSUME NEW k \in 1..Len(new)
                 PROVE  new[k].kind \in {"heading", "paragraph", "code"}
      OBVIOUS
    <3>1. new[k] \in NormalBlock
      BY <1>7
    <3> QED
      BY <3>1 DEF NormalBlock, Kinds
  <2> QED
    BY <1>1, <1>12, <2>1 DEF IInv, TypeOK, Results
<1> QED
  BY <1>11, <1>13, <1>14, <1>15, <1>16, <1>17 DEF IInv

-----------------------------------------------------------------------------
(***************************************************************************)
(* The invariant holds.                                                    *)
(***************************************************************************)
\* Initially the invariant holds,
LEMMA InitHasInv == Init => IInv
<1> SUFFICES ASSUME Init  PROVE IInv
  OBVIOUS
<1>1. /\ file \in Files /\ type = NoType /\ items = <<>> /\ phase = "upload" /\ result = "none"
      /\ next = 0 /\ heading = NoHeading /\ expecting = FALSE
      /\ blocks = <<>> /\ parts = <<>> /\ current = <<>> /\ chunks = <<>>
      /\ limit = 0 /\ start = 0 /\ splitting = FALSE
  BY DEF Init
<1>2. TypeOK
  <2>1. type \in {NoType} \cup {Canonical[e] : e \in Extensions}
    BY <1>1
  <2>2. phase \in {"upload", "extract", "group", "split", "pack", "end"} /\ next \in Nat
    BY <1>1
  <2>3. expecting \in BOOLEAN /\ splitting \in BOOLEAN
    BY <1>1
  <2>4. limit \in Int /\ start \in Int
    BY <1>1
  <2>5. \A k \in 1..Len(blocks) : blocks[k].kind \in {"heading", "paragraph", "code"}
    BY <1>1
  <2>6. result \in Results /\ result = "none" /\ phase # "end"
    BY <1>1 DEF Results
  <2> QED
    BY <2>1, <2>2, <2>3, <2>4, <2>5, <2>6 DEF TypeOK
<1>3. SourceInv
  BY <1>1 DEF SourceInv
<1>4. ReaderInv /\ ExtractInv
  BY <1>1 DEF ReaderInv, ExtractInv
<1>5. NormalInv /\ ChunksInv /\ GroupInv /\ WorkInv
  BY <1>1 DEF NormalInv, Normalized, ChunksInv, ChunksSound, GroupInv, WorkInv
<1> QED
  BY <1>2, <1>3, <1>4, <1>5 DEF IInv

\* it stays when nothing happens,
LEMMA StutterKeepsInv == IInv /\ UNCHANGED vars => IInv'
<1> SUFFICES ASSUME IInv, UNCHANGED vars  PROVE IInv'
  OBVIOUS
<1>1. /\ file' = file /\ type' = type /\ items' = items /\ heading' = heading
      /\ expecting' = expecting /\ current' = current /\ chunks' = chunks /\ phase' = phase
      /\ next' = next /\ blocks' = blocks /\ group' = group /\ unit' = unit /\ parts' = parts
      /\ result' = result
      /\ text' = text /\ limit' = limit /\ start' = start /\ pieces' = pieces
      /\ splitting' = splitting
  BY DEF vars, source, reader, packing, splitVars
<1>2. TypeOK' /\ SourceInv'
  BY <1>1 DEF IInv, TypeOK, SourceInv
<1>3. Heads' = Heads
  BY <1>1, HeadsKept
<1>4. ReaderInv' /\ ExtractInv'
  BY <1>1, <1>3 DEF IInv, ReaderInv, ExtractInv, Extracted, PageOf
<1>5. NormalInv' /\ ChunksInv' /\ GroupInv'
  <2>1. BlocksSettled' <=> BlocksSettled
    BY <1>1, BlocksKept DEF source
  <2> QED
    BY <1>1, <2>1 DEF IInv, NormalInv, Normalized, ChunksInv, GroupInv
<1>6. WorkInv'
  <2>1. \A from : /\ RunEnd(from)' = RunEnd(from) /\ Run(from)' = Run(from)
                  /\ Group(from)' = Group(from)
    BY <1>1, RunsKept
  <2>2. Room' = Room
    BY <1>1 DEF Room
  <2>3. LoopInv' <=> LoopInv
    BY <1>1 DEF LoopInv, SplitInv, SplitTypeOK, AtSolid, NothingLost, PiecesFit, OverlapBounded
  <2>4. ASSUME NEW from \in 1..Len(blocks)
        PROVE  /\ RunInv(from)' <=> RunInv(from)
               /\ SplittingInv(from)' <=> SplittingInv(from)
               /\ PackingInv(from)' <=> PackingInv(from)
    BY <1>1, <2>1, <2>2, <2>3 DEF RunInv, SplittingInv, PackingInv
  <2> QED
    BY <1>1, <2>4 DEF IInv, WorkInv
<1> QED
  BY <1>2, <1>4, <1>5, <1>6 DEF IInv

\* and with every step.
LEMMA NextKeepsInv == IInv /\ [Next]_vars => IInv'
<1> SUFFICES ASSUME IInv, [Next]_vars  PROVE IInv'
  OBVIOUS
<1>1. CASE Accept
  BY <1>1, AcceptKeepsInv
<1>2. CASE Extract
  BY <1>2, OpenKeepsInv, ReadFailsKeepsInv, ReadPageKeepsInv, ReadParagraphKeepsInv,
     ReadHeadingOpenKeepsInv, ReadHeadingKeepsInv, ReadInlineKeepsInv, ReadCodeKeepsInv,
     SkipTokenKeepsInv DEF Extract
<1>3. CASE NormalizeBlocks
  BY <1>3, NormalizeBlocksKeepsInv
<1>4. CASE BuildChunks
  BY <1>4, StartGroupInv, SplitKeepsInv, SplitAstrayInv, CollectKeepsInv, PackKeepsInv,
     EndGroupKeepsInv DEF BuildChunks
<1>5. CASE Store
  BY <1>5, StoreKeepsInv
<1>6. CASE UNCHANGED vars
  BY <1>6, StutterKeepsInv
<1> QED
  BY <1>1, <1>2, <1>3, <1>4, <1>5, <1>6 DEF Next

\* So it always holds.
LEMMA InvHolds == Spec => []IInv
BY InitHasInv, NextKeepsInv, PTL DEF Spec

-----------------------------------------------------------------------------
(***************************************************************************)
(* The properties.                                                         *)
(***************************************************************************)
\* The variables always have their types (TypeOK).
THEOREM PreparationTypes == Spec => []TypeOK
<1>1. IInv => TypeOK
  BY DEF IInv
<1> QED
  BY <1>1, InvHolds, PTL

\* What an accepted upload is called fits its row and names no directory, and
\* its type is the one of its extension (sanitize_original_filename,
\* validate_upload_metadata), for every name and type a client may send.
THEOREM AcceptedUploadsAreStorable == Spec => []AcceptedIsStorable
<1>1. IInv => AcceptedIsStorable
  BY DEF IInv, SourceInv, NameStorable, AcceptedIsStorable
<1> QED
  BY <1>1, InvHolds, PTL

\* Blocks that are split have one kind of newline, no null characters, no white
\* space where it is removed and no two blank lines in a row, and to normalize
\* them again only composes what a null kept apart (_normalize_text),
\* whatever was extracted.
THEOREM BlocksStayNormal == Spec => []BlocksAreNormal
<1>1. ASSUME IInv  PROVE BlocksAreNormal
  <2> SUFFICES ASSUME Normalized, NEW k \in 1..Len(blocks)
               PROVE  /\ InNormalForm(blocks[k].text)
                      /\ Normalize(blocks[k].text) = Composed(blocks[k].text)
    BY DEF BlocksAreNormal
  <2>1. InNormalForm(blocks[k].text)
    BY <1>1 DEF IInv, NormalInv, BlocksSettled, Settled
  <2>2. Normalize(blocks[k].text) = Composed(blocks[k].text)
    BY <2>1, NormalFormIsKept
  <2> QED
    BY <2>1, <2>2
<1> QED
  BY <1>1, InvHolds, PTL

\* No chunk is longer than MAX_CHUNK_CHARACTERS, with its prefix and however
\* long the heading (_pack_blocks, _split_oversized, _with_prefix).
THEOREM ChunksStayBounded == Spec => []ChunksBounded
<1>1. IInv => ChunksBounded
  BY DEF IInv, ChunksInv, ChunksSound, ChunkSound, ChunksBounded
<1> QED
  BY <1>1, InvHolds, PTL

\* When all is packed there is a chunk, each visible character of each block
\* is in a chunk, and the heading of each heading is that of a chunk
\* (build_chunks, _pack_blocks, _split_oversized).
THEOREM NothingIsOmitted == Spec => []NothingOmitted
<1>1. ASSUME IInv  PROVE NothingOmitted
  <2> SUFFICES ASSUME Prepared
               PROVE  /\ chunks # <<>>
                      /\ \A k \in 1..Len(blocks) :
                           IF blocks[k].kind = "heading"
                           THEN \E n \in 1..Len(chunks) : chunks[n].heading = blocks[k].heading
                           ELSE \A i \in 1..Len(blocks[k].text) :
                                  IsSolid(blocks[k].text, i) =>
                                    \E n \in 1..Len(chunks) : Holds(chunks[n].parts, k, i)
    BY DEF NothingOmitted
  <2>1. phase = "group" /\ next > Len(blocks)
    BY DEF Prepared
  <2>2. Len(blocks) \in Nat \ {0} /\ next \in Nat
    BY <1>1, <2>1, ChunkingFacts
  <2>3. /\ next \in 1..(Len(blocks) + 1) /\ \A k \in 1..(next - 1) : Stored(blocks, chunks, k)
        /\ next > 1 => chunks # <<>>
    BY <1>1, <2>1 DEF IInv, GroupInv
  <2>4. next > 1 /\ next - 1 = Len(blocks)
    BY <2>1, <2>2, <2>3
  <2> QED
    BY <2>3, <2>4 DEF Stored, InChunks
<1> QED
  BY <1>1, InvHolds, PTL

\* The chunks hold the blocks in the order of the document, and repeat nothing
\* of a block that fits into a chunk (build_chunks, _pack_blocks).
THEOREM PartsStayInOrder == Spec => []PartsInOrder
<1>1. ASSUME IInv  PROVE PartsInOrder
  <2> SUFFICES ASSUME NEW n \in 1..Len(chunks), NEW o \in 1..Len(chunks),
                      NEW m \in 1..Len(chunks[n].parts), NEW l \in 1..Len(chunks[o].parts),
                      n < o \/ (n = o /\ m < l)
               PROVE  Precedes(chunks[n].parts[m], chunks[o].parts[l])
    BY DEF PartsInOrder
  <2>1. /\ \A c \in 1..Len(chunks) : Ordered(blocks, chunks[c].parts)
        /\ \A c, d \in 1..Len(chunks) : c < d => Before(blocks, chunks[c].parts, chunks[d].parts)
    BY <1>1 DEF IInv, ChunksInv, ChunksSound, ChunkSound
  <2>2. Comes(blocks, chunks[n].parts[m], chunks[o].parts[l])
    <3>1. CASE n < o
      BY <2>1, <3>1 DEF Before
    <3>2. CASE n = o /\ m < l
      BY <2>1, <3>2 DEF Ordered
    <3> QED
      BY <3>1, <3>2
  <2> QED
    BY <2>2 DEF Comes, Precedes
<1> QED
  BY <1>1, InvHolds, PTL

\* A chunk names the page that all of it is on, and the heading that all of it
\* is under, unless a heading has no text (_extract_markdown, build_chunks).
THEOREM ChunksComeFromWhereTheySay == Spec => []ProvenanceHolds
<1>1. ASSUME IInv  PROVE ProvenanceHolds
  <2> SUFFICES ASSUME NEW n \in 1..Len(chunks), NEW m \in 1..Len(chunks[n].parts)
               PROVE  LET b == blocks[chunks[n].parts[m].of] IN
                      /\ chunks[n].page = IF type = "application/pdf" THEN b.item ELSE NoPage
                      /\ type = "text/markdown" /\ ~HasEmptyHeading =>
                           chunks[n].heading = HeadingAbove(b.item)
    BY DEF ProvenanceHolds
  <2> DEFINE k == chunks[n].parts[m].of
  <2>1. chunks # <<>>
    BY <1>1 DEF IInv, ChunksInv, ChunksSound
  <2>2. BlocksSettled
    BY <1>1, <2>1 DEF IInv, NormalInv
  <2>3. /\ k \in 1..Len(blocks)
        /\ chunks[n].page = blocks[k].page /\ chunks[n].heading = blocks[k].heading
    BY <1>1 DEF IInv, ChunksInv, ChunksSound, ChunkSound
  <2>4. Settled(blocks[k])
    BY <2>2, <2>3 DEF BlocksSettled
  <2> QED
    BY <2>3, <2>4 DEF Settled, Sourced, PageOf, Heads
<1> QED
  BY <1>1, InvHolds, PTL
=============================================================================
