--------------------------- MODULE FramingProofs ---------------------------
(***************************************************************************)
(* Proofs about Framing, for all payloads, all sizes of chunks and any     *)
(* number of messages: what parse() returns is what was sent, and it keeps *)
(* less than a frame to itself.                                            *)
(*                                                                         *)
(* The bytes on the wire and what parse() reads are defined by recursion.  *)
(* The library proves that < is well-founded on the naturals; induction on *)
(* a set of naturals follows (SetInduction), and that a recursion has one  *)
(* solution (Recursion).  The invariant says that what the parser has yet  *)
(* to return is the part of the wire that begins where the first frame     *)
(* does that is not whole (BufferInv).                                     *)
(***************************************************************************)
EXTENDS Framing, SequenceTheorems, WellFoundedInduction, TLAPS

-----------------------------------------------------------------------------
(***************************************************************************)
(* Induction and recursion over the naturals.                              *)
(***************************************************************************)
LEMMA LessThanWellFounded == IsWellFoundedOn({ss \in Nat \X Nat : ss[1] < ss[2]}, Nat)
  BY NatLessThanWellFounded, Zenon DEF OpToRel

\* A set of naturals has a least one.
LEMMA LeastNatural ==
  ASSUME NEW T \in SUBSET Nat, T # {}
  PROVE  \E x \in T : \A y \in T : x <= y
<1> DEFINE R == {ss \in Nat \X Nat : ss[1] < ss[2]}
<1>1. IsWellFoundedOn(R, Nat)
  BY LessThanWellFounded
<1>2. \A x, y \in Nat : y < x => <<y, x>> \in R
  OBVIOUS
<1>3. \E x \in T : \A y \in T : ~ (<<y, x>> \in R)
  <2> HIDE DEF R
  <2> QED BY <1>1, WFMin, Zenon
<1> HIDE DEF R
<1>4. PICK x \in T : \A y \in T : ~ (<<y, x>> \in R)
  BY <1>3
<1>5. \A y \in T : ~ (y < x)
  BY <1>2, <1>4
<1> QED
  BY <1>4, <1>5

\* Induction: a set that has 0 and the successors of its elements has all naturals.
LEMMA SetInduction ==
  ASSUME NEW S, 0 \in S, \A n \in Nat : n \in S => n + 1 \in S
  PROVE  Nat \subseteq S
<1> SUFFICES ASSUME Nat \ S # {} PROVE FALSE
  OBVIOUS
<1>1. PICK x \in Nat \ S : \A y \in Nat \ S : x <= y
  BY LeastNatural
<1>2. x - 1 \in Nat /\ x - 1 \in S
  BY <1>1
<1> QED
  BY <1>1, <1>2

\* f[0] = a, and each value up to f[m] is a step from the one before.
IsRecursive(f, a, step, m) ==
  /\ f[0] = a
  /\ \A n \in 0..(m - 1) : f[n + 1] = step[n][f[n]]

\* Two such functions agree as far as both of them go.
LEMMA RecursionUnique ==
  ASSUME NEW a, NEW step, NEW f, NEW g, NEW m \in Nat, NEW k \in Nat,
         IsRecursive(f, a, step, m), IsRecursive(g, a, step, k)
  PROVE  \A n \in Nat : n <= m /\ n <= k => f[n] = g[n]
<1> DEFINE S == {n \in Nat : n <= m /\ n <= k => f[n] = g[n]}
<1>1. 0 \in S
  BY DEF IsRecursive
<1>2. ASSUME NEW n \in Nat, n \in S PROVE n + 1 \in S
  <2> SUFFICES ASSUME n + 1 <= m, n + 1 <= k PROVE f[n + 1] = g[n + 1]
    OBVIOUS
  <2>1. f[n] = g[n]
    BY <1>2
  <2>2. n \in 0..(m - 1) /\ n \in 0..(k - 1)
    BY SMT
  <2>3. f[n + 1] = step[n][f[n]] /\ g[n + 1] = step[n][g[n]]
    BY <2>2 DEF IsRecursive
  <2> QED
    BY <2>1, <2>3
<1> HIDE DEF S
<1>3. Nat \subseteq S
  BY <1>1, <1>2, SetInduction
<1> QED
  BY <1>3 DEF S

Iterates(f, S, a, step) ==
  /\ f \in [Nat -> S]
  /\ f[0] = a
  /\ \A n \in Nat : f[n + 1] = step[n][f[n]]

\* There is such a function on all naturals.
LEMMA Recursion ==
  ASSUME NEW S, NEW a \in S, NEW step \in [Nat -> [S -> S]]
  PROVE  \E f : Iterates(f, S, a, step)
<1> DEFINE Some(m) == \E g \in [Nat -> S] : IsRecursive(g, a, step, m)
           T == {m \in Nat : Some(m)}
<1>1. 0 \in T
  <2> DEFINE g == [n \in Nat |-> a]
  <2>1. g \in [Nat -> S] /\ IsRecursive(g, a, step, 0)
    BY DEF IsRecursive
  <2> QED
    BY <2>1
<1>2. ASSUME NEW m \in Nat, m \in T PROVE m + 1 \in T
  <2>1. PICK g \in [Nat -> S] : IsRecursive(g, a, step, m)
    BY <1>2
  <2> DEFINE h == [g EXCEPT ![m + 1] = step[m][g[m]]]
  <2>2. h \in [Nat -> S]
    OBVIOUS
  <2>3. h[m + 1] = step[m][g[m]] /\ \A n \in 0..m : h[n] = g[n]
    OBVIOUS
  <2>4. h[0] = a
    BY <2>1, <2>3 DEF IsRecursive
  <2>5. ASSUME NEW n \in 0..((m + 1) - 1) PROVE h[n + 1] = step[n][h[n]]
    <3>1. CASE n = m
      BY <2>3, <3>1
    <3>2. CASE n # m
      <4>1. n \in 0..(m - 1) /\ n + 1 \in 0..m /\ n \in 0..m
        BY <3>2
      <4>2. g[n + 1] = step[n][g[n]]
        BY <2>1, <4>1 DEF IsRecursive
      <4> HIDE DEF h
      <4> QED
        BY <2>3, <4>1, <4>2
    <3> QED
      BY <3>1, <3>2
  <2>6. IsRecursive(h, a, step, m + 1)
    <3> HIDE DEF h
    <3> QED BY <2>4, <2>5 DEF IsRecursive
  <2> HIDE DEF h
  <2> QED
    BY <2>2, <2>6
<1>3. \A m \in Nat : Some(m)
  <2> HIDE DEF T, Some
  <2>1. Nat \subseteq T
    BY <1>1, <1>2, SetInduction
  <2> QED
    BY <2>1 DEF T
<1> DEFINE G(m) == CHOOSE g \in [Nat -> S] : IsRecursive(g, a, step, m)
           f == [n \in Nat |-> G(n)[n]]
<1>4. \A m \in Nat : G(m) \in [Nat -> S] /\ IsRecursive(G(m), a, step, m)
  BY <1>3, Zenon
<1> HIDE DEF G, Some
<1>5. f \in [Nat -> S]
  BY <1>4
<1>6. \A n \in Nat : f[n] = G(n)[n]
  OBVIOUS
<1>7. f[0] = a
  BY <1>4, <1>6 DEF IsRecursive
<1>8. ASSUME NEW n \in Nat PROVE f[n + 1] = step[n][f[n]]
  <2>1. G(n + 1)[n] = G(n)[n]
    <3>1. IsRecursive(G(n + 1), a, step, n + 1) /\ IsRecursive(G(n), a, step, n)
      BY <1>4
    <3>2. \A k \in Nat : k <= n + 1 /\ k <= n => G(n + 1)[k] = G(n)[k]
      BY <3>1, RecursionUnique, n + 1 \in Nat
    <3> QED
      BY <3>2
  <2>2. G(n + 1)[n + 1] = step[n][G(n + 1)[n]]
    <3>1. IsRecursive(G(n + 1), a, step, n + 1)
      BY <1>4
    <3>2. n \in 0..((n + 1) - 1)
      OBVIOUS
    <3> QED
      BY <3>1, <3>2 DEF IsRecursive
  <2> HIDE DEF f
  <2> QED
    BY <2>1, <2>2, <1>6
<1> HIDE DEF f
<1>9. Iterates(f, S, a, step)
  BY <1>5, <1>7, <1>8 DEF Iterates
<1> QED
  BY <1>9, Zenon

-----------------------------------------------------------------------------
(***************************************************************************)
(* Sequences: FlattenSeq() of the community modules, and slices.           *)
(***************************************************************************)
\* f[n] is the concatenation of the first n sequences of s.
Concatenates(f, s, B) ==
  /\ f \in [Nat -> Seq(B)]
  /\ f[0] = <<>>
  /\ \A n \in Nat : n < Len(s) => f[n + 1] = f[n] \o s[n + 1]

LEMMA ConcatenationExists ==
  ASSUME NEW B, NEW s \in Seq(Seq(B))
  PROVE  \E f : Concatenates(f, s, B)
<1> DEFINE S == Seq(B)
           step == [n \in Nat |-> [t \in S |-> IF n < Len(s) THEN t \o s[n + 1] ELSE t]]
<1>1. ASSUME NEW n \in Nat, NEW t \in S
      PROVE  (IF n < Len(s) THEN t \o s[n + 1] ELSE t) \in S
  <2>1. CASE n < Len(s)
    <3>1. n + 1 \in 1..Len(s)
      BY <2>1
    <3>2. s[n + 1] \in Seq(B)
      BY <3>1, ElementOfSeq
    <3> QED
      BY <2>1, <3>2, ConcatProperties
  <2>2. CASE ~(n < Len(s))
    BY <2>2
  <2> QED
    BY <2>1, <2>2
<1>2. step \in [Nat -> [S -> S]]
  BY <1>1
<1>3. <<>> \in S
  BY EmptySeq
<1>4. \A n \in Nat : \A t \in S : n < Len(s) => step[n][t] = t \o s[n + 1]
  OBVIOUS
<1> HIDE DEF step, S
<1>5. PICK f : Iterates(f, S, <<>>, step)
  BY <1>2, <1>3, Recursion, Zenon
<1>6. \A n \in Nat : n < Len(s) => f[n + 1] = f[n] \o s[n + 1]
  BY <1>4, <1>5 DEF Iterates
<1>7. Concatenates(f, s, B)
  BY <1>5, <1>6 DEF Iterates, Concatenates, S
<1> QED
  BY <1>7

\* FlattenSeq() computes it, by a recursion over the indices of s.
LEMMA FlattenSeqIs ==
  ASSUME NEW B, NEW s \in Seq(Seq(B)), NEW f, Concatenates(f, s, B)
  PROVE  FlattenSeq(s) = f[Len(s)]
<1>1. CASE s = <<>>
  BY <1>1 DEF FlattenSeq, Concatenates
<1>2. CASE s # <<>>
  <2> DEFINE Solves(g) == g = [i \in 1..Len(s) |-> IF i = 1 THEN s[i] ELSE g[i - 1] \o s[i]]
             h == [i \in 1..Len(s) |-> f[i]]
             flatten == CHOOSE g : Solves(g)
  <2>1. Len(s) \in Nat /\ Len(s) # 0
    BY <1>2, EmptySeq
  <2>2. \A i \in 1..Len(s) : s[i] \in Seq(B)
    BY ElementOfSeq
  <2>3. \A i \in 1..Len(s) : h[i] = IF i = 1 THEN s[i] ELSE h[i - 1] \o s[i]
    <3> SUFFICES ASSUME NEW i \in 1..Len(s)
                 PROVE  f[i] = IF i = 1 THEN s[i] ELSE h[i - 1] \o s[i]
      OBVIOUS
    <3>1. i - 1 \in Nat /\ i - 1 < Len(s) /\ (i - 1) + 1 = i
      BY <2>1
    <3>2. f[i] = f[i - 1] \o s[i]
      BY <3>1 DEF Concatenates
    <3>3. CASE i = 1
      <4>1. <<>> \o s[i] = s[i]
        BY <2>2, ConcatEmptySeq
      <4>2. f[0] = <<>>
        BY DEF Concatenates
      <4>3. f[1] = f[0] \o s[1]
        <5>1. i - 1 = 0
          BY <3>3
        <5> QED
          BY <3>2, <3>3, <5>1, Zenon
      <4>4. f[1] = s[1]
        BY <3>3, <4>1, <4>2, <4>3, Zenon
      <4> QED
        BY <3>3, <4>4
    <3>4. CASE i # 1
      <4>1. i - 1 \in 1..Len(s)
        BY <3>4, <2>1
      <4>2. h[i - 1] = f[i - 1]
        BY <4>1
      <4> QED
        BY <3>2, <3>4, <4>2
    <3> QED
      BY <3>3, <3>4
  <2>4. Solves(h)
    <3>1. h = [i \in 1..Len(s) |-> h[i]]
      OBVIOUS
    <3> HIDE DEF h
    <3> QED
      BY <2>3, <3>1
  <2>5. Solves(flatten)
    <3> HIDE DEF Solves, h
    <3> QED BY <2>4, Zenon
  <2>6. FlattenSeq(s) = flatten[Len(s)]
    BY <2>1, Zenon DEF FlattenSeq
  <2>7. \A i \in 1..Len(s) : flatten[i] = IF i = 1 THEN s[i] ELSE flatten[i - 1] \o s[i]
    <3> HIDE DEF flatten
    <3> QED
      BY <2>5
  <2> HIDE DEF flatten, Solves, h
  <2> DEFINE T == {n \in Nat : n + 1 <= Len(s) => flatten[n + 1] = f[n + 1]}
  <2>8. 0 \in T
    <3>1. 1 \in 1..Len(s)
      BY <2>1
    <3>2. flatten[1] = s[1]
      BY <3>1, <2>7
    <3>3. f[0 + 1] = f[0] \o s[0 + 1]
      <4>1. 0 \in Nat /\ 0 < Len(s)
        BY <2>1
      <4> QED
        BY <4>1, Zenon DEF Concatenates
    <3>4. <<>> \o s[1] = s[1]
      BY <2>2, <3>1, ConcatEmptySeq
    <3>5. f[0] = <<>>
      BY DEF Concatenates
    <3>6. f[1] = f[0] \o s[1]
      <4>1. 0 + 1 = 1
        OBVIOUS
      <4> QED
        BY <3>3, <4>1, Zenon
    <3>7. flatten[1] = f[1]
      BY <3>2, <3>4, <3>5, <3>6, Zenon
    <3> QED
      BY <3>7
  <2>9. ASSUME NEW n \in Nat, n \in T PROVE n + 1 \in T
    <3> SUFFICES ASSUME (n + 1) + 1 <= Len(s)
                 PROVE  flatten[(n + 1) + 1] = f[(n + 1) + 1]
      OBVIOUS
    <3>1. (n + 1) + 1 \in 1..Len(s) /\ (n + 1) + 1 # 1 /\ ((n + 1) + 1) - 1 = n + 1
      BY <2>1
    <3>2. flatten[(n + 1) + 1] = flatten[n + 1] \o s[(n + 1) + 1]
      BY <3>1, <2>7
    <3>3. flatten[n + 1] = f[n + 1]
      BY <2>1, <2>9
    <3>4. n + 1 \in Nat /\ n + 1 < Len(s)
      BY <2>1
    <3>5. f[(n + 1) + 1] = f[n + 1] \o s[(n + 1) + 1]
      BY <3>4 DEF Concatenates
    <3> QED
      BY <3>2, <3>3, <3>5
  <2> HIDE DEF T
  <2>10. Nat \subseteq T
    BY <2>8, <2>9, SetInduction
  <2>11. Len(s) - 1 \in T /\ (Len(s) - 1) + 1 = Len(s)
    BY <2>1, <2>10
  <2> QED
    BY <2>1, <2>6, <2>11 DEF T
<1> QED
  BY <1>1, <1>2

\* One more sequence is put behind the others.
LEMMA FlattenSeqAppend ==
  ASSUME NEW B, NEW s \in Seq(Seq(B)), NEW e \in Seq(B)
  PROVE  /\ FlattenSeq(s) \in Seq(B)
         /\ FlattenSeq(Append(s, e)) = FlattenSeq(s) \o e
<1> DEFINE t == Append(s, e)
<1>1. t \in Seq(Seq(B)) /\ Len(t) = Len(s) + 1 /\ t[Len(s) + 1] = e
  BY AppendProperties
<1>2. \A i \in 1..Len(s) : t[i] = s[i]
  BY AppendProperties
<1>3. Len(s) \in Nat
  OBVIOUS
<1> HIDE DEF t
<1>4. PICK f : Concatenates(f, t, B)
  BY <1>1, ConcatenationExists
<1>5. Concatenates(f, s, B)
  <2>1. ASSUME NEW n \in Nat, n < Len(s) PROVE f[n + 1] = f[n] \o s[n + 1]
    <3>1. n < Len(t) /\ n + 1 \in 1..Len(s)
      BY <1>1, <1>3, <2>1
    <3>2. f[n + 1] = f[n] \o t[n + 1]
      BY <1>4, <3>1, Zenon DEF Concatenates
    <3> QED
      BY <1>2, <3>1, <3>2
  <2>2. f \in [Nat -> Seq(B)] /\ f[0] = <<>>
    BY <1>4, Zenon DEF Concatenates
  <2> QED
    BY <2>1, <2>2, Zenon DEF Concatenates
<1>6. FlattenSeq(t) = f[Len(t)] /\ FlattenSeq(s) = f[Len(s)]
  BY <1>1, <1>4, <1>5, FlattenSeqIs
<1>7. f[Len(s) + 1] = f[Len(s)] \o t[Len(s) + 1] /\ f[Len(s)] \in Seq(B)
  <2>1. Len(s) < Len(t)
    BY <1>1, <1>3
  <2> QED
    BY <1>3, <1>4, <2>1, Zenon DEF Concatenates
<1> QED
  BY <1>1, <1>6, <1>7 DEF t

\* A part of a sequence, whose bounds are in it.
LEMMA Slice ==
  ASSUME NEW S, NEW s \in Seq(S), NEW m \in Nat \ {0}, NEW n \in Nat, n <= Len(s)
  PROVE  /\ SubSeq(s, m, n) \in Seq(S)
         /\ Len(SubSeq(s, m, n)) = IF m <= n THEN n - m + 1 ELSE 0
         /\ \A i \in 1..(n - m + 1) : SubSeq(s, m, n)[i] = s[m + i - 1]
<1>1. Len(s) \in Nat /\ m \in Int /\ n \in Int
  OBVIOUS
<1>2. \A i \in m..n : s[i] \in S
  <2> TAKE i \in m..n
  <2>1. i \in 1..Len(s)
    BY <1>1
  <2> QED
    BY <2>1, ElementOfSeq
<1> QED
  BY <1>1, <1>2, SubSeqProperties

\* What is behind position p of a part that begins behind l is behind l + p.
LEMMA SliceOfSlice ==
  ASSUME NEW S, NEW s \in Seq(S), NEW l \in Nat, NEW n \in Nat, l <= n, n <= Len(s),
         NEW p \in 0..(n - l), NEW t, t = SubSeq(s, l + 1, n)
  PROVE  /\ Len(t) = n - l
         /\ SubSeq(t, p + 1, Len(t)) = SubSeq(s, l + p + 1, n)
<1> DEFINE u == SubSeq(t, p + 1, Len(t))
           v == SubSeq(s, l + p + 1, n)
<1>1. /\ t \in Seq(S) /\ Len(t) = n - l
      /\ \A i \in 1..(n - l) : t[i] = s[l + i]
  <2>1. l + 1 \in Nat \ {0}
    OBVIOUS
  <2>2. /\ t \in Seq(S) /\ Len(t) = IF l + 1 <= n THEN n - (l + 1) + 1 ELSE 0
        /\ \A i \in 1..(n - (l + 1) + 1) : t[i] = s[(l + 1) + i - 1]
    BY <2>1, Slice
  <2> QED
    BY <2>2
<1>2. /\ v \in Seq(S) /\ Len(v) = n - (l + p)
      /\ \A i \in 1..(n - (l + p)) : v[i] = s[l + p + i]
  <2>1. l + p + 1 \in Nat \ {0}
    OBVIOUS
  <2>2. /\ v \in Seq(S) /\ Len(v) = IF l + p + 1 <= n THEN n - (l + p + 1) + 1 ELSE 0
        /\ \A i \in 1..(n - (l + p + 1) + 1) : v[i] = s[(l + p + 1) + i - 1]
    BY <2>1, Slice
  <2> HIDE DEF v
  <2> QED
    BY <2>2
<1>3. /\ u \in Seq(S) /\ Len(u) = n - (l + p)
      /\ \A i \in 1..(n - (l + p)) : u[i] = t[p + i]
  <2>1. p + 1 \in Nat \ {0} /\ Len(t) \in Nat /\ Len(t) <= Len(t)
    BY <1>1
  <2>2. /\ u \in Seq(S) /\ Len(u) = IF p + 1 <= Len(t) THEN Len(t) - (p + 1) + 1 ELSE 0
        /\ \A i \in 1..(Len(t) - (p + 1) + 1) : u[i] = t[(p + 1) + i - 1]
    BY <1>1, <2>1, Slice
  <2> HIDE DEF u
  <2>3. Len(t) - (p + 1) + 1 = n - (l + p) /\ (p + 1 <= Len(t) <=> p + 1 <= n - l)
    BY <1>1
  <2>4. Len(u) = n - (l + p)
    BY <1>1, <2>2, <2>3
  <2>5. \A i \in 1..(n - (l + p)) : u[i] = t[(p + 1) + i - 1] /\ (p + 1) + i - 1 = p + i
    BY <2>2, <2>3
  <2> QED
    BY <2>2, <2>4, <2>5
<1> HIDE DEF u, v
<1>4. ASSUME NEW i \in 1..Len(u) PROVE u[i] = v[i]
  <2>1. i \in 1..(n - (l + p)) /\ p + i \in 1..(n - l) /\ l + (p + i) = l + p + i
    BY <1>3
  <2> QED
    BY <1>1, <1>2, <1>3, <2>1
<1>5. u = v
  BY <1>2, <1>3, <1>4, SeqEqual
<1> QED
  BY <1>1, <1>5 DEF u, v

-----------------------------------------------------------------------------
(***************************************************************************)
(* One frame: the header tells the length of its payload.                  *)
(***************************************************************************)
LEMMA FrameHasData ==
  ASSUME NEW frame \in Frames
  PROVE  /\ frame.flag \in {0, TRAILER_FLAG}
         /\ frame.data \in Seq(Byte)
         /\ Len(frame.data) \in Nat
         /\ Fits(Len(frame.data))
<1>1. frame.data \in Payloads \union TrailerData /\ frame.flag \in {0, TRAILER_FLAG}
  BY DEF Frames
<1>2. frame.data \in Seq(Byte) /\ Fits(Len(frame.data))
  BY <1>1, FramingAssumption
<1> QED
  BY <1>1, <1>2, LenProperties

\* The four bytes of a length that fits give it back.
LEMMA LengthSurvives ==
  ASSUME NEW n \in Nat, Fits(n)
  PROVE  /\ UInt32BE(n) \in Seq(Byte)
         /\ Len(UInt32BE(n)) = 4
         /\ ((UInt32BE(n)[1] * 256 + UInt32BE(n)[2]) * 256 + UInt32BE(n)[3]) * 256
              + UInt32BE(n)[4] = n
<1> DEFINE a == n \div 16777216
           b == (n \div 65536) % 256
           c == (n \div 256) % 256
           d == n % 256
<1>1. a \in Byte /\ b \in Byte /\ c \in Byte /\ d \in Byte
  BY DEF Fits, Byte
<1>2. ((a * 256 + b) * 256 + c) * 256 + d = n
  <2>1. n = 256 * (n \div 256) + d /\ n \div 256 \in Nat
    OBVIOUS
  <2>2. n \div 256 = 256 * (n \div 65536) + c /\ n \div 65536 \in Nat
    OBVIOUS
  <2>3. n \div 65536 = 256 * a + b /\ a \in Nat
    OBVIOUS
  <2> QED
    BY <1>1, <2>1, <2>2, <2>3 DEF Byte
<1> HIDE DEF a, b, c, d
<1>3. UInt32BE(n) = <<a, b, c, d>>
  BY DEF UInt32BE, a, b, c, d
<1> QED
  BY <1>1, <1>2, <1>3

\* What parse() relies on in the bytes of a frame.
Encodes(bytes, frame) ==
  /\ bytes \in Seq(Byte)
  /\ Len(bytes) = HEADER_SIZE + Len(frame.data)
  /\ bytes[1] = frame.flag
  /\ ((bytes[2] * 256 + bytes[3]) * 256 + bytes[4]) * 256 + bytes[5] = Len(frame.data)
  /\ \A i \in 1..Len(frame.data) : bytes[HEADER_SIZE + i] = frame.data[i]

LEMMA FrameIsEncoded ==
  ASSUME NEW frame \in Frames
  PROVE  Encodes(encodeFrame(frame), frame)
<1> DEFINE size == UInt32BE(Len(frame.data))
           data == frame.data
           head == <<frame.flag>> \o size
<1>1. frame.flag \in Byte /\ data \in Seq(Byte) /\ Len(data) \in Nat
  BY FrameHasData DEF Byte, TRAILER_FLAG
<1>2. /\ size \in Seq(Byte) /\ Len(size) = 4
      /\ ((size[1] * 256 + size[2]) * 256 + size[3]) * 256 + size[4] = Len(data)
  BY <1>1, FrameHasData, LengthSurvives
<1> HIDE DEF size, data
<1>3. /\ head \in Seq(Byte) /\ Len(head) = 5
      /\ head[1] = frame.flag
      /\ head[2] = size[1] /\ head[3] = size[2] /\ head[4] = size[3] /\ head[5] = size[4]
  <2>1. <<frame.flag>> \in Seq(Byte) /\ Len(<<frame.flag>>) = 1 /\ <<frame.flag>>[1] = frame.flag
    BY <1>1
  <2>2. /\ head \in Seq(Byte)
        /\ Len(head) = 1 + 4
        /\ \A i \in 1..(1 + 4) : head[i] = IF i <= 1 THEN <<frame.flag>>[i] ELSE size[i - 1]
    <3> DEFINE flag == <<frame.flag>>
    <3>1. flag \in Seq(Byte) /\ Len(flag) = 1
      BY <2>1
    <3> HIDE DEF flag
    <3>2. size \in Seq(Byte) /\ flag \in Seq(Byte)
      BY <1>2, <3>1
    <3>3. /\ flag \o size \in Seq(Byte)
          /\ Len(flag \o size) = Len(flag) + Len(size)
          /\ \A i \in 1..(Len(flag) + Len(size)) :
               (flag \o size)[i] = IF i <= Len(flag) THEN flag[i] ELSE size[i - Len(flag)]
      BY ONLY <3>2, ConcatProperties
    <3>4. head = flag \o size
      BY DEF flag
    <3> HIDE DEF head
    <3>5. /\ head \in Seq(Byte)
          /\ Len(head) = 1 + 4
          /\ \A i \in 1..(1 + 4) : head[i] = IF i <= 1 THEN flag[i] ELSE size[i - 1]
      BY <1>2, <3>1, <3>3, <3>4
    <3> QED
      BY <3>5 DEF flag
  <2> HIDE DEF head
  <2> QED
    BY <2>1, <2>2
<1> HIDE DEF head
<1>4. /\ head \o data \in Seq(Byte)
      /\ Len(head \o data) = 5 + Len(data)
      /\ \A i \in 1..(5 + Len(data)) :
           (head \o data)[i] = IF i <= 5 THEN head[i] ELSE data[i - 5]
  <2>1. /\ head \o data \in Seq(Byte)
        /\ Len(head \o data) = Len(head) + Len(data)
        /\ \A i \in 1..(Len(head) + Len(data)) :
             (head \o data)[i] = IF i <= Len(head) THEN head[i] ELSE data[i - Len(head)]
    BY <1>1, <1>3, ConcatProperties
  <2> QED
    BY <1>3, <2>1
<1> DEFINE bytes == head \o data
<1>5. bytes = encodeFrame(frame)
  BY DEF encodeFrame, bytes, head, size, data
<1>6. \A i \in 1..5 : bytes[i] = head[i]
  BY <1>1, <1>4
<1>7. \A i \in 1..Len(data) : bytes[5 + i] = data[i]
  <2> TAKE i \in 1..Len(data)
  <2>1. 5 + i \in 1..(5 + Len(data)) /\ ~(5 + i <= 5) /\ (5 + i) - 5 = i
    BY <1>1
  <2> QED
    BY <1>4, <2>1
<1>8. bytes \in Seq(Byte) /\ Len(bytes) = 5 + Len(data)
  BY <1>4
<1> HIDE DEF bytes
<1>9. ((bytes[2] * 256 + bytes[3]) * 256 + bytes[4]) * 256 + bytes[5] = Len(data)
  BY <1>2, <1>3, <1>6
<1>10. Encodes(bytes, frame)
  BY <1>3, <1>6, <1>7, <1>8, <1>9 DEF Encodes, HEADER_SIZE, data
<1> QED
  BY <1>5, <1>10

-----------------------------------------------------------------------------
(***************************************************************************)
(* The wire: where the frames end on it, and which bytes they are.         *)
(***************************************************************************)
LEMMA WrittenAppend ==
  ASSUME NEW frames \in Seq(Frames), NEW frame \in Frames
  PROVE  /\ Written(frames) \in Seq(Byte)
         /\ Written(Append(frames, frame)) = Written(frames) \o encodeFrame(frame)
<1> DEFINE Encoded(fs) == [i \in DOMAIN fs |-> encodeFrame(fs[i])]
           more == Append(frames, frame)
<1>1. /\ more \in Seq(Frames)
      /\ Len(more) = Len(frames) + 1
      /\ \A i \in 1..Len(frames) : more[i] = frames[i]
      /\ more[Len(frames) + 1] = frame
  BY AppendProperties
<1>2. DOMAIN frames = 1..Len(frames) /\ DOMAIN more = 1..Len(more) /\ Len(frames) \in Nat
  BY <1>1, LenProperties
<1> HIDE DEF more
<1>3. Encoded(frames) \in Seq(Seq(Byte))
  <2>1. ASSUME NEW i \in 1..Len(frames) PROVE encodeFrame(frames[i]) \in Seq(Byte)
    <3>1. frames[i] \in Frames
      BY ElementOfSeq
    <3> QED
      BY <3>1, FrameIsEncoded DEF Encodes
  <2> QED
    BY <1>2, <2>1
<1>4. encodeFrame(frame) \in Seq(Byte)
  BY FrameIsEncoded DEF Encodes
<1>5. /\ Len(Encoded(frames)) = Len(frames)
      /\ \A i \in 1..Len(frames) : Encoded(frames)[i] = encodeFrame(frames[i])
  BY <1>2
<1>6. /\ Len(Encoded(more)) = Len(frames) + 1
      /\ \A i \in 1..(Len(frames) + 1) : Encoded(more)[i] = encodeFrame(more[i])
  BY <1>1, <1>2
<1>7. Encoded(more) \in Seq(Seq(Byte))
  <2>1. ASSUME NEW i \in 1..Len(more) PROVE encodeFrame(more[i]) \in Seq(Byte)
    <3>1. more[i] \in Frames
      BY <1>1, ElementOfSeq
    <3> QED
      BY <3>1, FrameIsEncoded DEF Encodes
  <2> QED
    BY <1>2, <2>1
<1> DEFINE old == Encoded(frames)
           new == Encoded(more)
           last == encodeFrame(frame)
<1>8. new = Append(old, last)
  <2>1. old \in Seq(Seq(Byte)) /\ new \in Seq(Seq(Byte)) /\ last \in Seq(Byte)
    BY <1>3, <1>4, <1>7
  <2>2. /\ Len(old) = Len(frames) /\ Len(new) = Len(frames) + 1
        /\ \A i \in 1..Len(frames) : new[i] = old[i]
        /\ new[Len(frames) + 1] = last
    <3> HIDE DEF Encoded
    <3> QED
      BY <1>1, <1>2, <1>5, <1>6
  <2> HIDE DEF old, new, last
  <2>3. /\ Append(old, last) \in Seq(Seq(Byte))
        /\ Len(Append(old, last)) = Len(old) + 1
        /\ \A i \in 1..Len(old) : Append(old, last)[i] = old[i]
        /\ Append(old, last)[Len(old) + 1] = last
    BY <2>1, AppendProperties
  <2> DEFINE sum == Append(old, last)
  <2> HIDE DEF sum
  <2>4. \A i \in 1..Len(new) : new[i] = sum[i]
    BY <1>2, <2>2, <2>3 DEF sum
  <2>5. sum \in Seq(Seq(Byte)) /\ Len(new) = Len(sum)
    BY <2>2, <2>3 DEF sum
  <2>6. new = sum
    BY <2>1, <2>4, <2>5, SeqEqual
  <2> QED
    BY <2>6 DEF sum
<1>9. Written(frames) = FlattenSeq(old) /\ Written(more) = FlattenSeq(new)
  BY DEF Written
<1> HIDE DEF old, new, last, Encoded
<1>10. old \in Seq(Seq(Byte)) /\ last \in Seq(Byte)
  BY <1>3, <1>4 DEF old, last
<1>11. FlattenSeq(old) \in Seq(Byte) /\ FlattenSeq(Append(old, last)) = FlattenSeq(old) \o last
  BY <1>10, FlattenSeqAppend
<1> QED
  BY <1>8, <1>9, <1>11 DEF more, last

LEMMA NothingWritten == Written(<<>>) = <<>>
<1>1. [i \in DOMAIN <<>> |-> encodeFrame(<<>>[i])] = <<>>
  OBVIOUS
<1> QED
  BY <1>1 DEF Written, FlattenSeq

\* The end of frame i of b: EndOf() for any body.
EndIn(b, i) == Len(Written(SubSeq(b, 1, i)))

\* The next frame is written behind the last one.
LEMMA NextEnd ==
  ASSUME NEW b \in Seq(Frames), NEW i \in Nat, i < Len(b)
  PROVE  /\ b[i + 1] \in Frames
         /\ Len(b[i + 1].data) \in Nat
         /\ Written(SubSeq(b, 1, i)) \in Seq(Byte)
         /\ Written(SubSeq(b, 1, i + 1)) = Written(SubSeq(b, 1, i)) \o encodeFrame(b[i + 1])
         /\ EndIn(b, i) \in Nat
         /\ EndIn(b, i + 1) = EndIn(b, i) + HEADER_SIZE + Len(b[i + 1].data)
<1>1. b[i + 1] \in Frames
  BY ElementOfSeq, i + 1 \in 1..Len(b)
<1>2. SubSeq(b, 1, i + 1) = Append(SubSeq(b, 1, i), b[i + 1])
  <2> DEFINE s == SubSeq(b, 1, i)
             t == SubSeq(b, 1, i + 1)
             u == Append(s, b[i + 1])
  <2>1. /\ s \in Seq(Frames) /\ Len(s) = i
        /\ \A j \in 1..i : s[j] = b[j]
    <3>1. \A j \in 1..(i - 1 + 1) : s[j] = b[1 + j - 1]
      BY Slice
    <3>2. s \in Seq(Frames) /\ Len(s) = IF 1 <= i THEN i - 1 + 1 ELSE 0
      BY Slice
    <3> HIDE DEF s
    <3> QED
      BY <3>1, <3>2
  <2>2. /\ t \in Seq(Frames) /\ Len(t) = i + 1
        /\ \A j \in 1..(i + 1) : t[j] = b[j]
    <3>1. \A j \in 1..(i + 1 - 1 + 1) : t[j] = b[1 + j - 1]
      BY Slice
    <3>2. t \in Seq(Frames) /\ Len(t) = IF 1 <= i + 1 THEN i + 1 - 1 + 1 ELSE 0
      BY Slice
    <3> HIDE DEF t
    <3> QED
      BY <3>1, <3>2
  <2> HIDE DEF s, t
  <2>3. /\ u \in Seq(Frames) /\ Len(u) = i + 1
        /\ \A j \in 1..i : u[j] = s[j]
        /\ u[i + 1] = b[i + 1]
    BY <1>1, <2>1, AppendProperties
  <2> HIDE DEF u
  <2>4. \A j \in 1..(i + 1) : t[j] = u[j]
    BY <2>1, <2>2, <2>3
  <2>5. t = u
    BY <2>2, <2>3, <2>4, SeqEqual
  <2> QED
    BY <2>5 DEF s, t, u
<1>3. SubSeq(b, 1, i) \in Seq(Frames)
  BY Slice
<1> DEFINE w == Written(SubSeq(b, 1, i))
           e == encodeFrame(b[i + 1])
<1>4. w \in Seq(Byte) /\ Written(SubSeq(b, 1, i + 1)) = w \o e
  BY <1>1, <1>2, <1>3, WrittenAppend
<1>5. e \in Seq(Byte) /\ Len(e) = HEADER_SIZE + Len(b[i + 1].data)
  BY <1>1, FrameIsEncoded DEF Encodes
<1>6. Len(b[i + 1].data) \in Nat
  BY <1>1, FrameHasData
<1>7. Len(w) \in Nat /\ Len(w \o e) = Len(w) + Len(e)
  <2> HIDE DEF w, e
  <2> QED
    BY <1>4, <1>5, ConcatProperties
<1>8. EndIn(b, i) = Len(w) /\ EndIn(b, i + 1) = Len(w \o e)
  BY <1>4 DEF EndIn
<1> HIDE DEF e
<1>9. EndIn(b, i) \in Nat /\ EndIn(b, i + 1) = EndIn(b, i) + HEADER_SIZE + Len(b[i + 1].data)
  <2> HIDE DEF w
  <2>1. EndIn(b, i + 1) = Len(w) + Len(e)
    BY <1>7, <1>8, Zenon
  <2>2. EndIn(b, i + 1) = Len(w) + (HEADER_SIZE + Len(b[i + 1].data))
    BY <1>5, <2>1, Zenon
  <2> DEFINE x == EndIn(b, i)
             y == EndIn(b, i + 1)
             d == Len(b[i + 1].data)
  <2>3. x \in Nat /\ d \in Nat /\ y = x + (5 + d)
    <3>1. x = Len(w)
      BY <1>8
    <3>2. y = x + (HEADER_SIZE + d)
      BY <2>2, <3>1, Zenon
    <3> HIDE DEF x, y, d
    <3>3. x \in Nat
      BY <1>7, <3>1
    <3>4. d \in Nat
      BY <1>6 DEF d
    <3> QED
      BY <3>2, <3>3, <3>4 DEF HEADER_SIZE
  <2> HIDE DEF x, y, d
  <2>4. x \in Nat /\ y = x + 5 + d
    BY <2>3
  <2> QED
    BY <2>4 DEF x, y, d, HEADER_SIZE
<1> QED
  BY <1>1, <1>4, <1>6, <1>9 DEF e

LEMMA FirstEnd ==
  ASSUME NEW b \in Seq(Frames)
  PROVE  EndIn(b, 0) = 0
<1>1. SubSeq(b, 1, 0) = <<>>
  BY SubSeqEmpty
<1>2. Written(SubSeq(b, 1, 0)) = <<>>
  BY <1>1, NothingWritten, Zenon
<1>3. Len(<<>>) = 0
  OBVIOUS
<1> QED
  BY <1>2, <1>3, Zenon DEF EndIn

LEMMA EndType ==
  ASSUME NEW b \in Seq(Frames), NEW i \in 0..Len(b)
  PROVE  /\ EndIn(b, i) \in Nat
         /\ Written(SubSeq(b, 1, i)) \in Seq(Byte)
<1>1. CASE i = 0
  <2>1. SubSeq(b, 1, 0) = <<>>
    BY SubSeqEmpty
  <2>2. <<>> \in Seq(Byte) /\ Len(<<>>) = 0
    BY EmptySeq
  <2>3. Written(SubSeq(b, 1, i)) = <<>>
    BY <1>1, <2>1, NothingWritten, Zenon
  <2> QED
    BY <2>2, <2>3 DEF EndIn
<1>2. CASE i # 0
  <2>1. i - 1 \in Nat /\ i - 1 < Len(b) /\ (i - 1) + 1 = i /\ b[i] \in Frames
    BY <1>2, ElementOfSeq
  <2> DEFINE w == Written(SubSeq(b, 1, i - 1))
             e == encodeFrame(b[i])
  <2>2. w \in Seq(Byte) /\ Written(SubSeq(b, 1, i)) = w \o e
    BY <2>1, NextEnd
  <2>3. e \in Seq(Byte)
    BY <2>1, FrameIsEncoded DEF Encodes
  <2> HIDE DEF w, e
  <2>4. w \o e \in Seq(Byte) /\ Len(w \o e) \in Nat
    BY <2>2, <2>3, ConcatProperties, LenProperties
  <2> QED
    BY <2>2, <2>4 DEF EndIn
<1> QED
  BY <1>1, <1>2

\* A frame has a header at least, so that the ends grow.
LEMMA EndsGrow ==
  ASSUME NEW b \in Seq(Frames), NEW i \in Nat, NEW j \in Nat, i <= j, j <= Len(b)
  PROVE  EndIn(b, i) + HEADER_SIZE * (j - i) <= EndIn(b, j)
<1> DEFINE S == {n \in Nat : i + n <= Len(b) =>
                               EndIn(b, i) + HEADER_SIZE * n <= EndIn(b, i + n)}
<1>0. Len(b) \in Nat
  OBVIOUS
<1>1. 0 \in S
  <2>1. EndIn(b, i) \in Nat
    BY <1>0, EndType
  <2>2. i + 0 = i /\ HEADER_SIZE * 0 = 0
    BY DEF HEADER_SIZE
  <2> QED
    BY <2>1, <2>2
<1>2. ASSUME NEW n \in Nat, n \in S PROVE n + 1 \in S
  <2> SUFFICES ASSUME i + (n + 1) <= Len(b)
               PROVE  EndIn(b, i) + HEADER_SIZE * (n + 1) <= EndIn(b, i + (n + 1))
    OBVIOUS
  <2>1. EndIn(b, i) + HEADER_SIZE * n <= EndIn(b, i + n)
    BY <1>0, <1>2
  <2>2. /\ EndIn(b, i + n) \in Nat
        /\ Len(b[(i + n) + 1].data) \in Nat
        /\ EndIn(b, (i + n) + 1) = EndIn(b, i + n) + HEADER_SIZE + Len(b[(i + n) + 1].data)
    BY <1>0, NextEnd, i + n \in Nat, i + n < Len(b)
  <2>3. EndIn(b, i) \in Nat /\ (i + n) + 1 = i + (n + 1)
    BY <1>0, EndType
  <2> DEFINE d == Len(b[(i + n) + 1].data)
             x == EndIn(b, i)
             y == EndIn(b, i + n)
             z == EndIn(b, i + (n + 1))
  <2>4. x \in Nat /\ y \in Nat /\ d \in Nat /\ x + 5 * n <= y /\ z = y + 5 + d
    BY <2>1, <2>2, <2>3 DEF HEADER_SIZE
  <2> HIDE DEF x, y, z, d
  <2>5. x + 5 * (n + 1) <= z
    BY <2>4
  <2> QED
    BY <2>5 DEF HEADER_SIZE, x, z
<1> HIDE DEF S
<1>3. Nat \subseteq S
  BY <1>1, <1>2, SetInduction
<1>4. j - i \in S /\ i + (j - i) = j
  BY <1>3
<1> QED
  BY <1>4 DEF S

\* What has been written stays where it is.
LEMMA BytesStay ==
  ASSUME NEW b \in Seq(Frames), NEW i \in Nat, NEW j \in Nat, i <= j, j <= Len(b),
         NEW p \in 1..EndIn(b, i)
  PROVE  Written(SubSeq(b, 1, j))[p] = Written(SubSeq(b, 1, i))[p]
<1> DEFINE w(n) == Written(SubSeq(b, 1, n))
           S == {n \in Nat : i + n <= Len(b) => w(i + n)[p] = w(i)[p]}
<1>0. Len(b) \in Nat
  OBVIOUS
<1>1. 0 \in S
  <2>1. i + 0 = i
    OBVIOUS
  <2> QED
    BY <2>1
<1>2. ASSUME NEW n \in Nat, n \in S PROVE n + 1 \in S
  <2> SUFFICES ASSUME i + (n + 1) <= Len(b) PROVE w(i + (n + 1))[p] = w(i)[p]
    OBVIOUS
  <2>1. i + n \in Nat /\ i + n < Len(b) /\ (i + n) + 1 = i + (n + 1) /\ i + n <= Len(b)
    BY <1>0
  <2> DEFINE old == w(i + n)
             e == encodeFrame(b[(i + n) + 1])
  <2>2. old \in Seq(Byte) /\ w((i + n) + 1) = old \o e /\ b[(i + n) + 1] \in Frames
    BY <2>1, NextEnd
  <2>3. e \in Seq(Byte)
    BY <2>2, FrameIsEncoded DEF Encodes
  <2>4. p \in 1..Len(old)
    <3>1. EndIn(b, i) + HEADER_SIZE * ((i + n) - i) <= EndIn(b, i + n)
      BY <2>1, EndsGrow
    <3>2. EndIn(b, i) \in Nat /\ EndIn(b, i + n) \in Nat
      BY <1>0, <2>1, EndType
    <3>3. EndIn(b, i) <= EndIn(b, i + n)
      BY <3>1, <3>2 DEF HEADER_SIZE
    <3> QED
      BY <3>2, <3>3 DEF EndIn
  <2>5. (old \o e)[p] = old[p]
    <3> HIDE DEF old, e
    <3>1. old \in Seq(Byte) /\ e \in Seq(Byte)
      BY <2>2, <2>3
    <3>2. \A k \in 1..(Len(old) + Len(e)) :
            (old \o e)[k] = IF k <= Len(old) THEN old[k] ELSE e[k - Len(old)]
      BY ONLY <3>1, ConcatProperties
    <3>3. Len(old) \in Nat /\ Len(e) \in Nat
      BY ONLY <3>1, LenProperties
    <3> QED
      BY <2>4, <3>2, <3>3
  <2>6. old[p] = w(i)[p]
    BY <1>2, <2>1
  <2> HIDE DEF w
  <2> QED
    BY <2>1, <2>2, <2>5, <2>6
<1> HIDE DEF S
<1>3. Nat \subseteq S
  BY <1>1, <1>2, SetInduction
<1>4. j - i \in S /\ i + (j - i) = j
  BY <1>3
<1> QED
  BY <1>4 DEF S

\* Byte q of frame j + 1 is where it should be.
LEMMA WireBytes ==
  ASSUME NEW b \in Seq(Frames), NEW j \in Nat, j < Len(b),
         NEW q \in 1..(HEADER_SIZE + Len(b[j + 1].data))
  PROVE  /\ EndIn(b, j) + q \in 1..EndIn(b, j + 1)
         /\ Written(b)[EndIn(b, j) + q] = encodeFrame(b[j + 1])[q]
<1> DEFINE w == Written(SubSeq(b, 1, j))
           e == encodeFrame(b[j + 1])
           v == Written(SubSeq(b, 1, j + 1))
           p == EndIn(b, j) + q
           d == Len(b[j + 1].data)
<1>0. Len(b) \in Nat
  OBVIOUS
<1>1. /\ w \in Seq(Byte) /\ v = w \o e /\ b[j + 1] \in Frames
      /\ d \in Nat /\ EndIn(b, j) \in Nat
      /\ EndIn(b, j + 1) = EndIn(b, j) + HEADER_SIZE + d
  BY NextEnd
<1>2. e \in Seq(Byte) /\ Len(e) = HEADER_SIZE + d
  BY <1>1, FrameIsEncoded DEF Encodes
<1>3. q \in 1..(HEADER_SIZE + d)
  OBVIOUS
<1>4. Len(w) = EndIn(b, j) /\ Len(v) = EndIn(b, j + 1)
  BY DEF EndIn
<1> HIDE DEF w, e, v, d
<1>5. p \in 1..EndIn(b, j + 1) /\ ~(p <= EndIn(b, j)) /\ p - EndIn(b, j) = q
  BY <1>1, <1>3 DEF HEADER_SIZE
<1> HIDE DEF p
<1>6. v[p] = e[q]
  <2>1. w \in Seq(Byte) /\ e \in Seq(Byte)
    BY <1>1, <1>2
  <2>2. \A k \in 1..(Len(w) + Len(e)) :
          (w \o e)[k] = IF k <= Len(w) THEN w[k] ELSE e[k - Len(w)]
    BY ONLY <2>1, ConcatProperties
  <2>3. p \in 1..(Len(w) + Len(e)) /\ ~(p <= Len(w)) /\ p - Len(w) = q
    BY <1>1, <1>2, <1>4, <1>5 DEF HEADER_SIZE
  <2>4. (w \o e)[p] = e[p - Len(w)]
    BY <2>2, <2>3
  <2> QED
    BY <1>1, <2>3, <2>4
<1>7. Written(SubSeq(b, 1, Len(b)))[p] = v[p]
  BY <1>0, <1>5, BytesStay, j + 1 \in Nat, j + 1 <= Len(b), Len(b) <= Len(b) DEF v
<1>8. SubSeq(b, 1, Len(b)) = b
  BY SubSeqFull
<1> QED
  BY <1>5, <1>6, <1>7, <1>8 DEF p, e

-----------------------------------------------------------------------------
(***************************************************************************)
(* The buffer: a window on the wire.                                       *)
(***************************************************************************)
\* What is left in the buffer of the parser when the first w frames of b were
\* returned and n bytes of them have arrived.
Window(buf, b, w, n) ==
  /\ b \in Seq(Frames)
  /\ w \in 0..Len(b)
  /\ n \in Nat
  /\ EndIn(b, w) <= n
  /\ n <= EndIn(b, Len(b))
  /\ buf = SubSeq(Written(b), EndIn(b, w) + 1, n)

\* Its bytes are those of the wire.
LEMMA WindowBytes ==
  ASSUME NEW buf, NEW b, NEW w, NEW n, Window(buf, b, w, n)
  PROVE  /\ EndIn(b, w) \in Nat
         /\ buf \in Seq(Byte)
         /\ Len(buf) = n - EndIn(b, w)
         /\ \A p \in 1..Len(buf) : buf[p] = Written(b)[EndIn(b, w) + p]
<1>1. b \in Seq(Frames) /\ w \in 0..Len(b) /\ n \in Nat /\ EndIn(b, w) <= n
  BY DEF Window
<1>2. EndIn(b, w) \in Nat
  BY <1>1, EndType
<1>3. Written(b) \in Seq(Byte) /\ Len(Written(b)) = EndIn(b, Len(b))
  <2>1. SubSeq(b, 1, Len(b)) = b
    BY <1>1, SubSeqFull
  <2>2. Len(b) \in 0..Len(b)
    BY <1>1, LenProperties
  <2>3. Written(SubSeq(b, 1, Len(b))) \in Seq(Byte)
    BY <1>1, <2>2, EndType
  <2> QED
    BY <2>1, <2>3 DEF EndIn
<1> DEFINE s == Written(b)
           m == EndIn(b, w) + 1
<1>4. /\ s \in Seq(Byte) /\ m \in Nat \ {0} /\ n \in Nat /\ n <= Len(s)
      /\ buf = SubSeq(s, m, n) /\ EndIn(b, w) = m - 1 /\ m - 1 <= n
  BY <1>1, <1>2, <1>3 DEF Window
<1> HIDE DEF s, m
<1>5. /\ SubSeq(s, m, n) \in Seq(Byte)
      /\ Len(SubSeq(s, m, n)) = IF m <= n THEN n - m + 1 ELSE 0
      /\ \A i \in 1..(n - m + 1) : SubSeq(s, m, n)[i] = s[m + i - 1]
  BY <1>4, Slice
<1>6. Len(buf) = n - (m - 1)
  BY <1>4, <1>5
<1>7. \A p \in 1..Len(buf) : buf[p] = s[(m - 1) + p]
  BY <1>4, <1>5, <1>6
<1> QED
  BY <1>2, <1>4, <1>5, <1>6, <1>7 DEF s

\* The five bytes of a header that are in the buffer tell the frame they are of.
LEMMA HeaderIsRead ==
  ASSUME NEW buf, NEW b, NEW w, NEW n, Window(buf, b, w, n),
         NEW j \in Nat, w <= j, j < Len(b), EndIn(b, j) + HEADER_SIZE <= n
  PROVE  LET pos == EndIn(b, j) - EndIn(b, w)
         IN  /\ pos \in Nat
             /\ readLengthFromHeader(buf, pos) = Len(b[j + 1].data)
             /\ isTrailerHeader(buf, pos) <=> b[j + 1].flag = TRAILER_FLAG
<1> DEFINE pos == EndIn(b, j) - EndIn(b, w)
           e == encodeFrame(b[j + 1])
<1>1. b \in Seq(Frames) /\ w \in 0..Len(b) /\ n \in Nat /\ Len(b) \in Nat
  <2>1. b \in Seq(Frames) /\ w \in 0..Len(b) /\ n \in Nat
    BY DEF Window
  <2> QED
    BY <2>1, LenProperties
<1>2. EndIn(b, w) + HEADER_SIZE * (j - w) <= EndIn(b, j)
  BY <1>1, EndsGrow
<1>3. EndIn(b, w) \in Nat /\ EndIn(b, j) \in Nat
  BY <1>1, EndType
<1>4. pos \in Nat
  <2>1. j - w \in Nat
    BY <1>1
  <2> QED
    BY <1>2, <1>3, <2>1 DEF HEADER_SIZE
<1>5. b[j + 1] \in Frames /\ Len(b[j + 1].data) \in Nat
  BY <1>1, NextEnd
<1>6. Encodes(e, b[j + 1])
  BY <1>5, FrameIsEncoded
<1>7. \A q \in 1..5 : buf[pos + q] = e[q]
  <2> TAKE q \in 1..5
  <2>1. q \in 1..(HEADER_SIZE + Len(b[j + 1].data))
    BY <1>5 DEF HEADER_SIZE
  <2>2. Written(b)[EndIn(b, j) + q] = e[q]
    BY <1>1, <2>1, WireBytes
  <2>3. /\ Len(buf) = n - EndIn(b, w)
        /\ \A p \in 1..Len(buf) : buf[p] = Written(b)[EndIn(b, w) + p]
    BY WindowBytes
  <2>4. pos + q \in 1..Len(buf) /\ EndIn(b, w) + (pos + q) = EndIn(b, j) + q
    BY <1>1, <1>3, <1>4, <2>3 DEF HEADER_SIZE
  <2> HIDE DEF pos, e
  <2>5. buf[pos + q] = Written(b)[EndIn(b, w) + (pos + q)]
    BY <2>3, <2>4
  <2> QED
    BY <2>2, <2>4, <2>5
<1> HIDE DEF pos, e
<1>8. /\ buf[pos + 1] = e[1] /\ buf[pos + 2] = e[2] /\ buf[pos + 3] = e[3]
      /\ buf[pos + 4] = e[4] /\ buf[pos + 5] = e[5]
  BY <1>7
<1>9. readLengthFromHeader(buf, pos) = Len(b[j + 1].data)
  <2>1. ((e[2] * 256 + e[3]) * 256 + e[4]) * 256 + e[5] = Len(b[j + 1].data)
    BY <1>6 DEF Encodes
  <2> QED
    BY <1>8, <2>1, Zenon DEF readLengthFromHeader
<1>10. isTrailerHeader(buf, pos) <=> b[j + 1].flag = TRAILER_FLAG
  <2>1. e[1] = b[j + 1].flag
    BY <1>6 DEF Encodes
  <2>2. b[j + 1].flag \in {0, TRAILER_FLAG}
    BY <1>5, FrameHasData
  <2>3. buf[pos + 1] = b[j + 1].flag
    BY <1>8, <2>1, Zenon
  <2> QED
    BY <2>2, <2>3 DEF isTrailerHeader, TRAILER_FLAG
<1> QED
  BY <1>4, <1>9, <1>10 DEF pos

\* A frame that has arrived whole is read as it was sent.
LEMMA FrameIsRead ==
  ASSUME NEW buf, NEW b, NEW w, NEW n, Window(buf, b, w, n),
         NEW j \in Nat, w <= j, j < Len(b), EndIn(b, j + 1) <= n
  PROVE  LET pos == EndIn(b, j) - EndIn(b, w)
         IN  /\ HasFrame(buf, pos)
             /\ FrameEnd(buf, pos) = EndIn(b, j + 1) - EndIn(b, w)
             /\ FrameAt(buf, pos) = b[j + 1]
             /\ isTrailerHeader(buf, pos) <=> b[j + 1].flag = TRAILER_FLAG
<1> DEFINE pos == EndIn(b, j) - EndIn(b, w)
           d == Len(b[j + 1].data)
           x == EndIn(b, w)
           y == EndIn(b, j)
           z == EndIn(b, j + 1)
           data == b[j + 1].data
           e == encodeFrame(b[j + 1])
<1>1. b \in Seq(Frames) /\ w \in 0..Len(b) /\ n \in Nat
  BY DEF Window
<1>2. b[j + 1] \in Frames /\ d \in Nat /\ y \in Nat /\ z = y + HEADER_SIZE + d
  BY <1>1, NextEnd
<1>3. y + HEADER_SIZE <= n /\ z <= n
  <2>1. z <= n
    OBVIOUS
  <2> HIDE DEF y, z, d
  <2> QED
    BY <1>1, <1>2, <2>1 DEF HEADER_SIZE
<1>4. /\ pos \in Nat
      /\ readLengthFromHeader(buf, pos) = d
      /\ isTrailerHeader(buf, pos) <=> b[j + 1].flag = TRAILER_FLAG
  BY <1>3, HeaderIsRead
<1>5. /\ x \in Nat /\ buf \in Seq(Byte) /\ Len(buf) = n - x
      /\ \A p \in 1..Len(buf) : buf[p] = Written(b)[x + p]
  BY WindowBytes
<1>6. data \in Seq(Byte) /\ Len(data) = d /\ b[j + 1].flag \in {0, TRAILER_FLAG}
  BY <1>2, FrameHasData
<1>7. Encodes(e, b[j + 1])
  BY <1>2, FrameIsEncoded
<1>8. \A q \in 1..(HEADER_SIZE + d) : Written(b)[y + q] = e[q]
  BY <1>1, WireBytes
<1>9. pos = y - x
  OBVIOUS
<1>10. \A i \in 1..d : e[HEADER_SIZE + i] = data[i]
  BY <1>7 DEF Encodes
<1>11. b[j + 1] = [flag |-> b[j + 1].flag, data |-> data]
  BY <1>2 DEF Frames
<1> HIDE DEF pos, d, x, y, z, data, e
<1>12. HasFrame(buf, pos)
  BY <1>1, <1>2, <1>3, <1>4, <1>5, <1>9 DEF HasFrame, hasEnoughBytes, HEADER_SIZE
<1>13. FrameEnd(buf, pos) = z - x
  BY <1>2, <1>4, <1>5, <1>9 DEF FrameEnd, HEADER_SIZE
<1>14. SubSeq(buf, pos + HEADER_SIZE + 1, FrameEnd(buf, pos)) = data
  <2> DEFINE m == pos + HEADER_SIZE + 1
             l == FrameEnd(buf, pos)
             s == SubSeq(buf, m, l)
  <2>1. Len(buf) = n - x /\ x \in Nat
    BY <1>5
  <2>2. m = (y - x) + 6 /\ y - x \in Nat
    BY <1>2, <1>4, <1>9, <2>1 DEF HEADER_SIZE
  <2>3. l = z - x /\ z = y + 5 + d
    BY <1>2, <1>13 DEF HEADER_SIZE
  <2> HIDE DEF m, l
  <2>4. /\ m \in Nat \ {0} /\ l \in Nat /\ l <= Len(buf) /\ l - m + 1 = d
        /\ m = (y - x) + 6 /\ (m <= l <=> 1 <= d) /\ m - 1 + d <= Len(buf)
    BY <1>1, <1>2, <1>3, <2>1, <2>2, <2>3
  <2>5. buf \in Seq(Byte) /\ m \in Nat \ {0} /\ l \in Nat /\ l <= Len(buf)
    BY <1>5, <2>4
  <2>6. /\ s \in Seq(Byte) /\ Len(s) = IF m <= l THEN l - m + 1 ELSE 0
        /\ \A i \in 1..(l - m + 1) : s[i] = buf[m + i - 1]
    BY ONLY <2>5, Slice
  <2> HIDE DEF s
  <2>7. Len(s) = d
    BY <1>2, <2>4, <2>6
  <2>8. ASSUME NEW i \in 1..d PROVE s[i] = data[i]
    <3>1. s[i] = buf[m + i - 1]
      BY <2>4, <2>6
    <3>2. /\ m + i - 1 \in 1..Len(buf) /\ x + (m + i - 1) = y + (5 + i)
          /\ 5 + i \in 1..(5 + d)
      BY <1>2, <1>5, <2>4
    <3>3. buf[m + i - 1] = Written(b)[x + (m + i - 1)]
      BY <1>5, <3>2
    <3>4. Written(b)[y + (5 + i)] = e[5 + i]
      BY <1>8, <3>2 DEF HEADER_SIZE
    <3>5. e[5 + i] = data[i]
      BY <1>10 DEF HEADER_SIZE
    <3> QED
      BY <3>1, <3>2, <3>3, <3>4, <3>5
  <2>9. s = data
    BY <1>6, <2>6, <2>7, <2>8, SeqEqual
  <2> QED
    BY <2>9 DEF s, m, l
<1>15. FrameAt(buf, pos) = b[j + 1]
  <2>1. (IF isTrailerHeader(buf, pos) THEN TRAILER_FLAG ELSE 0) = b[j + 1].flag
    BY <1>4, <1>6 DEF TRAILER_FLAG
  <2> QED
    BY <1>11, <1>14, <2>1, Zenon DEF FrameAt
<1> QED
  BY <1>4, <1>12, <1>13, <1>15 DEF pos, x, z

\* A frame that has not arrived whole is left in the buffer, and so is nothing.
LEMMA RestIsLeft ==
  ASSUME NEW buf, NEW b, NEW w, NEW n, Window(buf, b, w, n),
         NEW j \in Nat, w <= j, j <= Len(b), EndIn(b, j) <= n,
         j < Len(b) => EndIn(b, j + 1) > n
  PROVE  ~HasFrame(buf, EndIn(b, j) - EndIn(b, w))
<1> DEFINE pos == EndIn(b, j) - EndIn(b, w)
<1>1. b \in Seq(Frames) /\ w \in 0..Len(b) /\ n \in Nat /\ n <= EndIn(b, Len(b))
  BY DEF Window
<1>2. EndIn(b, w) \in Nat /\ Len(buf) = n - EndIn(b, w)
  BY WindowBytes
<1>3. EndIn(b, j) \in Nat
  BY <1>1, EndType
<1>4. CASE n - EndIn(b, j) < HEADER_SIZE
  BY <1>1, <1>2, <1>3, <1>4 DEF HasFrame, hasEnoughBytes, HEADER_SIZE
<1>5. CASE ~(n - EndIn(b, j) < HEADER_SIZE)
  <2>1. j < Len(b)
    <3>1. CASE j = Len(b)
      BY <1>1, <1>3, <1>5, <3>1 DEF HEADER_SIZE
    <3> QED
      BY <1>1, <3>1
  <2>2. EndIn(b, j) + HEADER_SIZE <= n
    BY <1>1, <1>3, <1>5 DEF HEADER_SIZE
  <2>3. readLengthFromHeader(buf, pos) = Len(b[j + 1].data)
    BY <2>1, <2>2, HeaderIsRead
  <2>4. /\ Len(b[j + 1].data) \in Nat
        /\ EndIn(b, j + 1) = EndIn(b, j) + HEADER_SIZE + Len(b[j + 1].data)
    BY <1>1, <2>1, NextEnd
  <2>5. EndIn(b, j + 1) > n
    BY <2>1
  <2> DEFINE d == Len(b[j + 1].data)
             y == EndIn(b, j)
             z == EndIn(b, j + 1)
             l == readLengthFromHeader(buf, pos)
  <2>6. d \in Nat /\ y \in Nat /\ z = y + HEADER_SIZE + d /\ z > n /\ l = d /\ pos = y - EndIn(b, w)
    BY <1>3, <2>3, <2>4, <2>5
  <2> HIDE DEF d, y, z, l, pos
  <2>7. ~(Len(buf) - pos >= HEADER_SIZE + l)
    BY <1>1, <1>2, <2>6 DEF HEADER_SIZE
  <2>8. ~HasFrame(buf, pos)
    BY <2>7 DEF HasFrame, hasEnoughBytes, l
  <2> QED
    BY <2>8 DEF pos
<1> QED
  BY <1>4, <1>5

-----------------------------------------------------------------------------
(***************************************************************************)
(* The loop of parse() reads the frames that have arrived whole.           *)
(***************************************************************************)
\* The frames that are in the first n bytes: Whole() for any body.
WholeIn(b, n) == CHOOSE m \in 0..Len(b) :
                   /\ EndIn(b, m) <= n
                   /\ m < Len(b) => EndIn(b, m + 1) > n

\* There is a last frame that is whole.
LEMMA WholeExists ==
  ASSUME NEW b \in Seq(Frames), NEW n \in Nat
  PROVE  /\ WholeIn(b, n) \in 0..Len(b)
         /\ EndIn(b, WholeIn(b, n)) <= n
         /\ WholeIn(b, n) < Len(b) => EndIn(b, WholeIn(b, n) + 1) > n
<1> DEFINE T == {t \in Nat : t <= Len(b) /\ EndIn(b, Len(b) - t) <= n}
<1>1. Len(b) \in Nat
  OBVIOUS
<1>2. Len(b) \in T
  <2>1. Len(b) - Len(b) = 0
    BY <1>1
  <2>2. EndIn(b, 0) <= n
    BY FirstEnd
  <2> QED
    BY <1>1, <2>1, <2>2
<1>3. PICK t \in T : \A u \in T : t <= u
  <2>1. T \in SUBSET Nat /\ T # {}
    BY <1>2
  <2> HIDE DEF T
  <2> QED
    BY <2>1, LeastNatural
<1> DEFINE m == Len(b) - t
<1>4. m \in 0..Len(b) /\ EndIn(b, m) <= n
  BY <1>1
<1>5. ASSUME m < Len(b), ~(EndIn(b, m + 1) > n) PROVE FALSE
  <2>1. t - 1 \in Nat /\ t - 1 <= Len(b) /\ Len(b) - (t - 1) = m + 1 /\ m + 1 \in 0..Len(b)
    BY <1>1, <1>5
  <2>2. EndIn(b, m + 1) \in Nat
    BY <2>1, EndType
  <2>3. EndIn(b, m + 1) <= n
    BY <1>5, <2>2
  <2>4. t - 1 \in T
    BY <2>1, <2>3
  <2> QED
    BY <1>1, <1>3, <2>4
<1>6. \E k \in 0..Len(b) : EndIn(b, k) <= n /\ (k < Len(b) => EndIn(b, k + 1) > n)
  BY <1>4, <1>5
<1> QED
  BY <1>6, Zenon DEF WholeIn

\* Trailers are the last frame of a body, and only that.
WellFormed(b) ==
  /\ b \in Seq(Frames)
  /\ Len(b) # 0
  /\ \A i \in 1..Len(b) : b[i].flag = TRAILER_FLAG <=> i = Len(b)

\* The loop of parse() after the frames up to j were read.
ReadUpTo(b, w, j) ==
  [frames |-> SubSeq(b, w + 1, j),
   end |-> EndIn(b, j) - EndIn(b, w),
   over |-> w < j /\ j = Len(b)]

\* A turn of the loop reads the next frame, if that is whole.
LEMMA TurnReads ==
  ASSUME NEW buf, NEW b, NEW w, NEW n, Window(buf, b, w, n), WellFormed(b),
         NEW j \in Nat, w <= j, j < Len(b), EndIn(b, j + 1) <= n
  PROVE  Turn(buf, ReadUpTo(b, w, j)) = ReadUpTo(b, w, j + 1)
<1> DEFINE pos == EndIn(b, j) - EndIn(b, w)
           old == SubSeq(b, w + 1, j)
           new == SubSeq(b, w + 1, j + 1)
<1>1. b \in Seq(Frames) /\ w \in 0..Len(b) /\ Len(b) \in Nat
  BY DEF Window
<1>2. /\ HasFrame(buf, pos)
      /\ FrameEnd(buf, pos) = EndIn(b, j + 1) - EndIn(b, w)
      /\ FrameAt(buf, pos) = b[j + 1]
      /\ isTrailerHeader(buf, pos) <=> b[j + 1].flag = TRAILER_FLAG
  BY FrameIsRead
<1>3. isTrailerHeader(buf, pos) <=> j + 1 = Len(b)
  <2>1. j + 1 \in 1..Len(b)
    BY <1>1
  <2> QED
    BY <1>2, <2>1 DEF WellFormed
<1>4. new = Append(old, b[j + 1])
  <2>1. w + 1 \in 1..Len(b) /\ j + 1 \in (w + 1)..Len(b) /\ (j + 1) - 1 = j
    BY <1>1
  <2>2. SubSeq(b, w + 1, j + 1) = SubSeq(b, w + 1, (j + 1) - 1) \o <<b[j + 1]>>
    BY <1>1, <2>1, SubSeqRecursiveSecond
  <2>3. old \in Seq(Frames)
    <3>1. w + 1 \in Nat \ {0} /\ j <= Len(b)
      BY <1>1
    <3> QED
      BY <1>1, <3>1, Slice
  <2>4. b[j + 1] \in Frames
    BY <1>1, <2>1, NextEnd
  <2>5. Append(old, b[j + 1]) = old \o <<b[j + 1]>>
    <3> HIDE DEF old
    <3> QED
      BY <2>3, <2>4, AppendIsConcat
  <2> QED
    BY <2>1, <2>2, <2>5
<1>5. ~(w < j /\ j = Len(b)) /\ w < j + 1
  BY <1>1
<1> DEFINE r == ReadUpTo(b, w, j)
<1>6. r.frames = old /\ r.end = pos /\ (r.over <=> (w < j /\ j = Len(b)))
  BY DEF ReadUpTo
<1>7. ReadUpTo(b, w, j + 1) = [frames |-> new, end |-> EndIn(b, j + 1) - EndIn(b, w),
                               over |-> w < j + 1 /\ j + 1 = Len(b)]
  BY DEF ReadUpTo
<1> HIDE DEF r, old, new, pos
<1>8. Turn(buf, r) = [frames |-> Append(old, FrameAt(buf, pos)),
                      end |-> FrameEnd(buf, pos),
                      over |-> isTrailerHeader(buf, pos)]
  BY <1>2, <1>5, <1>6, Zenon DEF Turn
<1>9. isTrailerHeader(buf, pos) = (w < j + 1 /\ j + 1 = Len(b))
  BY <1>3, <1>5, SMT DEF isTrailerHeader
<1> QED
  BY <1>2, <1>4, <1>7, <1>8, <1>9, Zenon DEF r

\* From then on the loop changes nothing.
LEMMA TurnStops ==
  ASSUME NEW buf, NEW b, NEW w, NEW n, Window(buf, b, w, n),
         NEW j \in Nat, w <= j, j <= Len(b), EndIn(b, j) <= n,
         j < Len(b) => EndIn(b, j + 1) > n
  PROVE  Turn(buf, ReadUpTo(b, w, j)) = ReadUpTo(b, w, j)
<1>1. ~HasFrame(buf, EndIn(b, j) - EndIn(b, w))
  BY RestIsLeft
<1>2. ReadUpTo(b, w, j).end = EndIn(b, j) - EndIn(b, w)
  BY DEF ReadUpTo
<1> QED
  BY <1>1, <1>2, Zenon DEF Turn

\* parse() reads the frames that have arrived whole, in one call.
LEMMA ParseReads ==
  ASSUME NEW buf, NEW b, NEW w, NEW n, Window(buf, b, w, n), WellFormed(b)
  PROVE  /\ w <= WholeIn(b, n)
         /\ ParseFrom(buf) = ReadUpTo(b, w, WholeIn(b, n))
<1> DEFINE m == WholeIn(b, n)
           Reached(k) == IF w + k <= m THEN w + k ELSE m
           Start == [frames |-> <<>>, end |-> 0, over |-> FALSE]
           f == [k \in Nat |-> ReadUpTo(b, w, Reached(k))]
           Solves(g) == g = [k \in Nat |-> IF k = 0 THEN Start ELSE Turn(buf, g[k - 1])]
           turns == CHOOSE g : Solves(g)
<1>1. /\ b \in Seq(Frames) /\ w \in 0..Len(b) /\ n \in Nat /\ Len(b) \in Nat
      /\ EndIn(b, w) <= n /\ n <= EndIn(b, Len(b))
  BY DEF Window
<1>2. /\ m \in 0..Len(b)
      /\ EndIn(b, m) <= n
      /\ m < Len(b) => EndIn(b, m + 1) > n
  BY <1>1, WholeExists
<1> HIDE DEF m
<1>3. w <= m
  <2> SUFFICES ASSUME m < w PROVE FALSE
    BY <1>1, <1>2
  <2>1. m + 1 \in Nat /\ m + 1 <= w /\ m < Len(b) /\ w - (m + 1) \in Nat
    BY <1>1, <1>2
  <2>2. EndIn(b, m + 1) + HEADER_SIZE * (w - (m + 1)) <= EndIn(b, w)
    BY <1>1, <2>1, EndsGrow
  <2>3. EndIn(b, m + 1) \in Nat /\ EndIn(b, w) \in Nat
    BY <1>1, <2>1, EndType
  <2> QED
    BY <1>1, <1>2, <2>1, <2>2, <2>3 DEF HEADER_SIZE
<1>4. ASSUME NEW j \in Nat, j <= m PROVE EndIn(b, j) <= n
  <2>1. EndIn(b, j) + HEADER_SIZE * (m - j) <= EndIn(b, m)
    BY <1>1, <1>2, <1>4, EndsGrow
  <2>2. EndIn(b, j) \in Nat /\ EndIn(b, m) \in Nat /\ m - j \in Nat
    BY <1>1, <1>2, <1>4, EndType
  <2> QED
    BY <1>1, <1>2, <2>1, <2>2 DEF HEADER_SIZE
<1>5. ReadUpTo(b, w, w) = Start
  <2>1. SubSeq(b, w + 1, w) = <<>>
    BY <1>1, SubSeqEmpty
  <2>2. EndIn(b, w) \in Nat
    BY <1>1, EndType
  <2>3. EndIn(b, w) - EndIn(b, w) = 0 /\ ~(w < w)
    BY <1>1, <2>2
  <2>4. (w < w /\ w = Len(b)) = FALSE
    BY <2>3
  <2> QED
    BY <2>1, <2>3, <2>4, Zenon DEF ReadUpTo
<1>6. ASSUME NEW k \in Nat
      PROVE  Turn(buf, ReadUpTo(b, w, Reached(k))) = ReadUpTo(b, w, Reached(k + 1))
  <2>1. CASE w + k < m
    <3>1. Reached(k) = w + k /\ Reached(k + 1) = (w + k) + 1
      BY <1>1, <1>2, <2>1
    <3>2. w + k \in Nat /\ w <= w + k /\ w + k < Len(b) /\ (w + k) + 1 <= m
      BY <1>1, <1>2, <2>1
    <3>3. EndIn(b, (w + k) + 1) <= n
      BY <1>4, <3>2
    <3>4. Turn(buf, ReadUpTo(b, w, w + k)) = ReadUpTo(b, w, (w + k) + 1)
      BY <3>2, <3>3, TurnReads
    <3> HIDE DEF Reached
    <3> QED
      BY <3>1, <3>4
  <2>2. CASE ~(w + k < m)
    <3>1. Reached(k) = m /\ Reached(k + 1) = m
      BY <1>1, <1>2, <2>2
    <3>2. m \in Nat /\ m <= Len(b)
      BY <1>1, <1>2
    <3>3. Turn(buf, ReadUpTo(b, w, m)) = ReadUpTo(b, w, m)
      BY <1>2, <1>3, <3>2, TurnStops
    <3> HIDE DEF Reached
    <3> QED
      BY <3>1, <3>3
  <2> QED
    BY <2>1, <2>2
<1>7. Reached(0) = w
  BY <1>1, <1>2, <1>3
<1> HIDE DEF Reached, Start
<1>8. Solves(f)
  <2>1. ASSUME NEW k \in Nat
        PROVE  f[k] = IF k = 0 THEN Start ELSE Turn(buf, f[k - 1])
    <3>1. CASE k = 0
      BY <1>5, <1>7, <3>1
    <3>2. CASE k # 0
      <4>1. k - 1 \in Nat /\ (k - 1) + 1 = k
        BY <3>2
      <4>2. Turn(buf, ReadUpTo(b, w, Reached(k - 1))) = ReadUpTo(b, w, Reached(k))
        BY <1>6, <4>1
      <4>3. f[k - 1] = ReadUpTo(b, w, Reached(k - 1)) /\ f[k] = ReadUpTo(b, w, Reached(k))
        BY <4>1
      <4> HIDE DEF f
      <4> QED
        BY <3>2, <4>2, <4>3
    <3> QED
      BY <3>1, <3>2
  <2>2. f = [k \in Nat |-> f[k]]
    OBVIOUS
  <2> HIDE DEF f
  <2> QED
    BY <2>1, <2>2
<1>9. Solves(turns)
  <2> HIDE DEF Solves, f
  <2> QED
    BY <1>8, Zenon
<1>10. ParseFrom(buf) = turns[Len(buf) \div HEADER_SIZE]
  BY Zenon DEF ParseFrom, Start
<1>11. \A k \in Nat : turns[k] = IF k = 0 THEN Start ELSE Turn(buf, turns[k - 1])
  <2> HIDE DEF turns
  <2> QED
    BY <1>9
<1>12. \A k \in Nat : f[k] = IF k = 0 THEN Start ELSE Turn(buf, f[k - 1])
  <2> HIDE DEF f
  <2> QED
    BY <1>8
<1>13. \A k \in Nat : f[k] = ReadUpTo(b, w, Reached(k))
  OBVIOUS
<1> HIDE DEF turns, f, Solves
<1> DEFINE S == {k \in Nat : turns[k] = f[k]}
<1>14. 0 \in S
  BY <1>11, <1>12
<1>15. ASSUME NEW k \in Nat, k \in S PROVE k + 1 \in S
  <2>1. k + 1 \in Nat /\ k + 1 # 0 /\ (k + 1) - 1 = k
    OBVIOUS
  <2>2. turns[k + 1] = Turn(buf, turns[(k + 1) - 1])
    BY <1>11, <2>1
  <2>3. f[k + 1] = Turn(buf, f[(k + 1) - 1])
    BY <1>12, <2>1
  <2>4. turns[k] = f[k]
    BY <1>15
  <2> QED
    BY <2>1, <2>2, <2>3, <2>4
<1> HIDE DEF S
<1>16. Nat \subseteq S
  BY <1>14, <1>15, SetInduction
<1> DEFINE last == Len(buf) \div HEADER_SIZE
<1>17. last \in Nat /\ Reached(last) = m
  <2>1. EndIn(b, w) \in Nat /\ Len(buf) = n - EndIn(b, w)
    BY WindowBytes
  <2>2. EndIn(b, w) + HEADER_SIZE * (m - w) <= EndIn(b, m)
    BY <1>1, <1>2, <1>3, EndsGrow
  <2>3. EndIn(b, m) \in Nat
    BY <1>1, <1>2, EndType
  <2>4. 5 * (m - w) <= Len(buf) /\ Len(buf) \in Nat /\ m - w \in Nat
    BY <1>1, <1>2, <1>3, <2>1, <2>2, <2>3 DEF HEADER_SIZE
  <2>5. last \in Nat /\ m - w <= last
    BY <2>4 DEF HEADER_SIZE
  <2> HIDE DEF last
  <2> QED
    BY <1>1, <1>2, <1>3, <2>5 DEF Reached
<1> HIDE DEF last
<1>18. turns[last] = ReadUpTo(b, w, m)
  BY <1>13, <1>16, <1>17 DEF S
<1> QED
  BY <1>3, <1>10, <1>18 DEF last, m

-----------------------------------------------------------------------------
(***************************************************************************)
(* The invariant.                                                          *)
(***************************************************************************)
\* What the parser has yet to return begins with the first frame that has not
\* arrived whole.
BufferInv ==
  /\ buffer \in Seq(Byte)
  /\ position \in 0..Len(buffer)
  /\ SubSeq(buffer, position + 1, Len(buffer)) =
       SubSeq(wire, EndIn(body, WholeIn(body, received)) + 1, received)

\* What was returned is a beginning of the body: all that is whole, until the garbled
\* trailers are there, which makes parse() throw.
ChunksInv ==
  /\ threw \in BOOLEAN
  /\ threw <=> /\ WholeIn(body, received) = Len(body)
               /\ Garbled(body[Len(body)])
  /\ \E m \in 0..Len(body) : /\ chunks = SubSeq(body, 1, m)
                             /\ threw \/ m = WholeIn(body, received)

IInv ==
  /\ WellFormed(body)
  /\ received \in Nat
  /\ received <= EndIn(body, Len(body))
  /\ BufferInv
  /\ ChunksInv

\* The wire ends where its last frame does.
LEMMA WireEnds ==
  ASSUME NEW b \in Seq(Frames)
  PROVE  /\ Written(b) \in Seq(Byte)
         /\ Len(Written(b)) = EndIn(b, Len(b))
         /\ EndIn(b, Len(b)) \in Nat
<1>1. SubSeq(b, 1, Len(b)) = b
  BY SubSeqFull
<1>2. Len(b) \in 0..Len(b)
  BY LenProperties
<1>3. Written(SubSeq(b, 1, Len(b))) \in Seq(Byte) /\ EndIn(b, Len(b)) \in Nat
  BY <1>2, EndType
<1> QED
  BY <1>1, <1>3 DEF EndIn

\* Once all bytes have arrived, all frames are whole; before the first, none is.
LEMMA AllIsWhole ==
  ASSUME NEW b \in Seq(Frames)
  PROVE  WholeIn(b, EndIn(b, Len(b))) = Len(b)
<1> DEFINE n == EndIn(b, Len(b))
           m == WholeIn(b, n)
<1>1. n \in Nat /\ Len(b) \in Nat
  BY WireEnds
<1>2. m \in 0..Len(b) /\ (m < Len(b) => EndIn(b, m + 1) > n)
  BY <1>1, WholeExists
<1> SUFFICES ASSUME m < Len(b) PROVE FALSE
  BY <1>1, <1>2
<1>3. m + 1 \in Nat /\ m + 1 <= Len(b) /\ Len(b) - (m + 1) \in Nat
  BY <1>1, <1>2
<1> HIDE DEF m
<1>4. EndIn(b, m + 1) + HEADER_SIZE * (Len(b) - (m + 1)) <= n
  BY <1>1, <1>3, EndsGrow
<1>5. EndIn(b, m + 1) \in Nat
  BY <1>3, EndType
<1> HIDE DEF n
<1> QED
  BY <1>1, <1>2, <1>3, <1>4, <1>5 DEF HEADER_SIZE

LEMMA NoneIsWhole ==
  ASSUME NEW b \in Seq(Frames)
  PROVE  WholeIn(b, 0) = 0
<1> DEFINE m == WholeIn(b, 0)
<1>1. m \in 0..Len(b) /\ EndIn(b, m) <= 0 /\ Len(b) \in Nat
  BY WholeExists
<1> HIDE DEF m
<1>2. EndIn(b, 0) + HEADER_SIZE * (m - 0) <= EndIn(b, m)
  BY <1>1, EndsGrow
<1>3. EndIn(b, 0) = 0 /\ EndIn(b, m) \in Nat
  BY <1>1, FirstEnd, EndType
<1>4. m = 0
  BY <1>1, <1>2, <1>3 DEF HEADER_SIZE
<1> QED
  BY <1>4 DEF m

\* A new parser is at the beginning of a body that ends in trailers.
LEMMA InitInv ==
  ASSUME Init
  PROVE  IInv
<1>1. PICK n \in 0..MaxMessages, t \in TrailerData : \E messages \in [1..n -> Messages] :
        body = Append(messages, [flag |-> TRAILER_FLAG, data |-> t])
  BY DEF Init
<1>2. PICK messages \in [1..n -> Messages] :
        body = Append(messages, [flag |-> TRAILER_FLAG, data |-> t])
  BY <1>1
<1>3. n \in Nat
  BY FramingAssumption
<1> DEFINE trailers == [flag |-> TRAILER_FLAG, data |-> t]
<1>4. trailers \in Frames /\ trailers.flag = TRAILER_FLAG
  BY DEF Frames
<1>5. messages \in Seq(Frames) /\ Len(messages) = n /\ \A i \in 1..n : messages[i].flag = 0
  <2>1. Messages \subseteq Frames /\ \A frame \in Messages : frame.flag = 0
    BY DEF Messages, Frames
  <2>2. messages \in [1..n -> Frames] /\ \A i \in 1..n : messages[i] \in Messages
    BY <2>1
  <2>3. messages \in Seq(Frames)
    BY <1>3, <2>2, SeqDef
  <2>4. DOMAIN messages = 1..n /\ DOMAIN messages = 1..Len(messages) /\ Len(messages) \in Nat
    BY <2>3, LenProperties
  <2>5. Len(messages) = n
    BY <1>3, <2>4
  <2> QED
    BY <2>1, <2>2, <2>3, <2>5
<1> HIDE DEF trailers
<1>6. body = Append(messages, trailers)
  BY <1>2 DEF trailers
<1>7. /\ body \in Seq(Frames) /\ Len(body) = n + 1
      /\ \A i \in 1..n : body[i] = messages[i]
      /\ body[n + 1] = trailers
  BY <1>4, <1>5, <1>6, AppendProperties
<1>8. WellFormed(body)
  <2>1. ASSUME NEW i \in 1..Len(body)
        PROVE  body[i].flag = TRAILER_FLAG <=> i = Len(body)
    <3>1. CASE i = n + 1
      BY <1>4, <1>7, <3>1
    <3>2. CASE i # n + 1
      <4>1. i \in 1..n
        BY <1>3, <1>7, <3>2
      <4>2. body[i].flag = 0
        BY <1>5, <1>7, <4>1
      <4> QED
        BY <1>7, <3>2, <4>2 DEF TRAILER_FLAG
    <3> QED
      BY <3>1, <3>2
  <2> QED
    BY <1>3, <1>7, <2>1 DEF WellFormed
<1>9. received = 0 /\ buffer = <<>> /\ position = 0 /\ chunks = <<>> /\ threw = FALSE
  BY DEF Init
<1>10. WholeIn(body, received) = 0 /\ EndIn(body, 0) = 0
  BY <1>7, <1>9, NoneIsWhole, FirstEnd
<1>11. received \in Nat /\ received <= EndIn(body, Len(body))
  BY <1>7, <1>9, WireEnds
<1>12. BufferInv
  <2>1. buffer \in Seq(Byte) /\ Len(buffer) = 0
    BY <1>9, EmptySeq
  <2>2. SubSeq(buffer, position + 1, Len(buffer)) = <<>>
    BY <1>9, <2>1, SubSeqEmpty
  <2>3. SubSeq(wire, EndIn(body, WholeIn(body, received)) + 1, received) = <<>>
    BY <1>9, <1>10, SubSeqEmpty
  <2>4. position \in 0..Len(buffer)
    BY <1>9, <2>1
  <2> QED
    BY <2>1, <2>2, <2>3, <2>4, Zenon DEF BufferInv
<1>13. ChunksInv
  <2>1. SubSeq(body, 1, 0) = <<>>
    BY SubSeqEmpty
  <2>2. 0 \in 0..Len(body) /\ 0 # Len(body)
    BY <1>3, <1>7
  <2> QED
    BY <1>9, <1>10, <2>1, <2>2 DEF ChunksInv
<1> QED
  BY <1>8, <1>11, <1>12, <1>13 DEF IInv

\* The step of the invariant, as far as the bytes go.
LEMMA ParseBuffer ==
  ASSUME IInv, NEW k \in Nat, received + k <= Len(wire),
         buffer' = Refilled(SubSeq(wire, received + 1, received + k))
  PROVE  /\ Window(buffer', body, WholeIn(body, received), received + k)
         /\ WholeIn(body, received) <= WholeIn(body, received + k)
         /\ ParseFrom(buffer') =
              ReadUpTo(body, WholeIn(body, received), WholeIn(body, received + k))
         /\ LET pos == ParseFrom(buffer').end
            IN  /\ buffer' \in Seq(Byte)
                /\ pos \in 0..Len(buffer')
                /\ SubSeq(buffer', pos + 1, Len(buffer')) =
                     SubSeq(wire, EndIn(body, WholeIn(body, received + k)) + 1, received + k)
<1> DEFINE b == body
           w == WholeIn(b, received)
           n == received + k
           m == WholeIn(b, n)
           x == EndIn(b, w)
           y == EndIn(b, m)
<1>1. WellFormed(b) /\ b \in Seq(Frames) /\ received \in Nat /\ n \in Nat /\ Len(b) \in Nat
  <2>1. WellFormed(b) /\ received \in Nat
    BY DEF IInv
  <2>2. b \in Seq(Frames)
    BY <2>1 DEF WellFormed
  <2> QED
    BY <2>1, <2>2, LenProperties
<1>2. wire \in Seq(Byte) /\ Len(wire) = EndIn(b, Len(b)) /\ Len(wire) \in Nat /\ n <= Len(wire)
  BY <1>1, WireEnds DEF wire
<1>3. w \in 0..Len(b) /\ x <= received /\ x \in Nat
  <2>1. w \in 0..Len(b) /\ x <= received
    BY <1>1, WholeExists
  <2> HIDE DEF w
  <2> QED
    BY <1>1, <2>1, EndType
<1>4. m \in 0..Len(b) /\ y <= n /\ y \in Nat
  <2>1. m \in 0..Len(b) /\ y <= n
    BY <1>1, WholeExists
  <2> HIDE DEF m
  <2> QED
    BY <1>1, <2>1, EndType
<1>5. n = received + k
  OBVIOUS
<1>6. buffer' = SubSeq(wire, x + 1, received) \o SubSeq(wire, received + 1, n)
  BY DEF IInv, BufferInv, Refilled
<1> HIDE DEF w, m, x, y, n
<1>7. buffer' = SubSeq(wire, x + 1, n)
  <2>1. x + 1 \in 1..(Len(wire) + 1) /\ received \in ((x + 1) - 1)..Len(wire)
        /\ n \in received..Len(wire)
    BY <1>1, <1>2, <1>3, <1>5
  <2> QED
    BY <1>2, <1>6, <2>1, ConcatAdjacentSubSeq
<1>8. Window(buffer', b, w, n)
  BY <1>1, <1>2, <1>3, <1>5, <1>7 DEF Window, x, wire
<1>9. w <= m /\ ParseFrom(buffer') = ReadUpTo(b, w, m)
  BY <1>1, <1>8, ParseReads DEF m
<1>10. ParseFrom(buffer').end = y - x
  BY <1>9 DEF ReadUpTo, x, y
<1>11. x <= y
  <2>1. x + HEADER_SIZE * (m - w) <= y
    BY <1>1, <1>3, <1>4, <1>9, EndsGrow DEF x, y
  <2>2. m - w \in Nat
    BY <1>1, <1>3, <1>4, <1>9
  <2> QED
    BY <1>3, <1>4, <2>1, <2>2 DEF HEADER_SIZE
<1>12. buffer' \in Seq(Byte)
  BY <1>8, WindowBytes
<1>13. y - x \in 0..(n - x) /\ x <= n
  BY <1>1, <1>3, <1>4, <1>5, <1>11
<1>14. /\ Len(buffer') = n - x
       /\ SubSeq(buffer', (y - x) + 1, Len(buffer')) = SubSeq(wire, x + (y - x) + 1, n)
  <2> DEFINE p == y - x
  <2>1. wire \in Seq(Byte) /\ x \in Nat /\ n \in Nat /\ x <= n /\ n <= Len(wire) /\ p \in 0..(n - x)
    BY <1>1, <1>2, <1>3, <1>13
  <2> HIDE DEF p
  <2> DEFINE s == wire
             c == buffer'
  <2>2. c = SubSeq(s, x + 1, n) /\ s \in Seq(Byte) /\ n <= Len(s)
    BY <1>7, <2>1
  <2> HIDE DEF s, c
  <2>3. /\ Len(c) = n - x
        /\ SubSeq(c, p + 1, Len(c)) = SubSeq(s, x + p + 1, n)
    BY ONLY <2>1, <2>2, SliceOfSlice
  <2> QED
    BY <2>3 DEF p, s, c
<1>15. x + (y - x) + 1 = y + 1
  BY <1>3, <1>4
<1>16. /\ ParseFrom(buffer').end \in 0..Len(buffer')
       /\ SubSeq(buffer', ParseFrom(buffer').end + 1, Len(buffer')) = SubSeq(wire, y + 1, n)
  BY <1>10, <1>13, <1>14, <1>15
<1> QED
  BY <1>8, <1>9, <1>12, <1>16 DEF w, m, n, x, y

\* Trailers are the last frame, so that what parse() throws for is the end of the body.
LEMMA GarbledIsLast ==
  ASSUME NEW b, WellFormed(b), NEW w \in Nat, NEW m \in 0..Len(b), w <= m
  PROVE  (\E i \in DOMAIN SubSeq(b, w + 1, m) : Garbled(SubSeq(b, w + 1, m)[i]))
           <=> w < m /\ m = Len(b) /\ Garbled(b[Len(b)])
<1> DEFINE s == SubSeq(b, w + 1, m)
<1>1. b \in Seq(Frames) /\ Len(b) \in Nat /\ w + 1 \in Nat \ {0} /\ m \in Nat /\ m <= Len(b)
  <2>1. b \in Seq(Frames)
    BY DEF WellFormed
  <2> QED
    BY <2>1, LenProperties
<1>2. /\ s \in Seq(Frames)
      /\ Len(s) = IF w + 1 <= m THEN m - (w + 1) + 1 ELSE 0
      /\ \A i \in 1..(m - (w + 1) + 1) : s[i] = b[(w + 1) + i - 1]
  BY <1>1, Slice
<1> HIDE DEF s
<1>3. DOMAIN s = 1..(m - w)
  <2>1. Len(s) = m - w
    BY <1>1, <1>2
  <2> QED
    BY <1>2, <2>1, LenProperties
<1>4. ASSUME NEW i \in 1..(m - w) PROVE s[i] = b[w + i] /\ w + i \in 1..Len(b)
  <2>1. i \in 1..(m - (w + 1) + 1) /\ (w + 1) + i - 1 = w + i /\ w + i \in 1..Len(b)
    BY <1>1
  <2> QED
    BY <1>2, <2>1
<1>5. ASSUME NEW i \in 1..(m - w), Garbled(s[i])
      PROVE  w < m /\ m = Len(b) /\ Garbled(b[Len(b)])
  <2>1. b[w + i].flag = TRAILER_FLAG
    BY <1>4, <1>5 DEF Garbled
  <2>2. w + i = Len(b)
    BY <1>4, <2>1 DEF WellFormed
  <2>3. w < m /\ m = Len(b)
    BY <1>1, <2>2
  <2> QED
    BY <1>4, <1>5, <2>2, <2>3
<1>6. ASSUME w < m, m = Len(b), Garbled(b[Len(b)])
      PROVE  \E i \in 1..(m - w) : Garbled(s[i])
  <2>1. m - w \in 1..(m - w) /\ w + (m - w) = Len(b)
    BY <1>1, <1>6
  <2> QED
    BY <1>4, <1>6, <2>1
<1> QED
  BY <1>3, <1>5, <1>6 DEF s

\* A chunk of any size keeps the invariant.
LEMMA ParseInv ==
  ASSUME IInv, NEW k \in Nat, Parse(k)
  PROVE  IInv'
<1> DEFINE b == body
           w == WholeIn(b, received)
           n == received + k
           m == WholeIn(b, n)
           frames == SubSeq(b, w + 1, m)
<1>1. /\ received + k <= Len(wire) /\ received' = n /\ body' = b
      /\ buffer' = Refilled(SubSeq(wire, received + 1, received + k))
      /\ position' = ParseFrom(buffer').end
  BY DEF Parse
<1>2. /\ w <= m
      /\ ParseFrom(buffer') = ReadUpTo(b, w, m)
      /\ buffer' \in Seq(Byte)
      /\ position' \in 0..Len(buffer')
      /\ SubSeq(buffer', position' + 1, Len(buffer')) = SubSeq(wire, EndIn(b, m) + 1, n)
  BY <1>1, ParseBuffer
<1>3. /\ WellFormed(b) /\ b \in Seq(Frames) /\ Len(b) \in Nat /\ Len(b) # 0
      /\ received \in Nat /\ n \in Nat
      /\ Len(wire) = EndIn(b, Len(b))
  <2>1. WellFormed(b) /\ received \in Nat
    BY DEF IInv
  <2>2. b \in Seq(Frames) /\ Len(b) # 0
    BY <2>1 DEF WellFormed
  <2> QED
    BY <2>1, <2>2, WireEnds DEF wire
<1>4. w \in 0..Len(b) /\ m \in 0..Len(b)
  BY <1>3, WholeExists
<1>5. wire' = wire
  BY <1>1 DEF wire
<1>6. WholeIn(body', received') = m
  BY <1>1
<1>7. BufferInv'
  <2>1. SubSeq(buffer', position' + 1, Len(buffer')) =
          SubSeq(wire', EndIn(body', WholeIn(body', received')) + 1, received')
    BY <1>1, <1>2, <1>5, <1>6, Zenon
  <2> QED
    BY <1>2, <2>1 DEF BufferInv
<1>8. WellFormed(body') /\ received' \in Nat /\ received' <= EndIn(body', Len(body'))
  BY <1>1, <1>3
<1>9. ParseFrom(buffer').frames = frames
  <2>1. ReadUpTo(b, w, m).frames = frames
    BY DEF ReadUpTo
  <2> QED
    BY <1>2, <2>1, Zenon
<1>10. /\ threw \in BOOLEAN
       /\ threw <=> w = Len(b) /\ Garbled(b[Len(b)])
  BY DEF IInv, ChunksInv
<1>11. PICK h \in 0..Len(b) : chunks = SubSeq(b, 1, h) /\ (threw \/ h = w)
  BY DEF IInv, ChunksInv
<1> HIDE DEF b, w, m, n
<1>12. (\E i \in DOMAIN frames : Garbled(frames[i])) <=> w < m /\ m = Len(b) /\ Garbled(b[Len(b)])
  <2>1. WellFormed(b) /\ w \in Nat /\ m \in 0..Len(b) /\ w <= m
    BY <1>2, <1>3, <1>4
  <2> QED
    BY ONLY <2>1, GarbledIsLast
<1> HIDE DEF frames
<1>13. /\ threw' \in BOOLEAN
       /\ threw' <=> m = Len(b) /\ Garbled(b[Len(b)])
       /\ \E g \in 0..Len(b) : chunks' = SubSeq(b, 1, g) /\ (threw' \/ g = m)
  <2>1. CASE \E i \in DOMAIN frames : Garbled(frames[i])
    <3>1. threw' = TRUE /\ chunks' = chunks
      BY <1>9, <2>1 DEF Parse
    <3> QED
      BY <1>11, <1>12, <2>1, <3>1
  <2>2. CASE ~ \E i \in DOMAIN frames : Garbled(frames[i])
    <3>1. threw' = threw /\ chunks' = chunks \o frames
      BY <1>9, <2>2 DEF Parse
    <3>2. ~(w < m /\ m = Len(b) /\ Garbled(b[Len(b)]))
      BY <1>12, <2>2
    <3>3. threw' <=> m = Len(b) /\ Garbled(b[Len(b)])
      BY <1>2, <1>3, <1>4, <1>10, <3>1, <3>2
    <3>4. CASE threw
      <4>1. w = m /\ m \in Nat
        BY <1>2, <1>3, <1>4, <1>10, <3>4
      <4>2. frames = <<>>
        BY <4>1, SubSeqEmpty DEF frames
      <4>3. chunks \in Seq(Frames)
        <5>1. h \in Nat /\ h <= Len(b) /\ 1 \in Nat \ {0}
          BY <1>3
        <5> QED
          BY <1>3, <1>11, <5>1, Slice
      <4>4. chunks' = chunks
        BY <3>1, <4>2, <4>3, ConcatEmptySeq
      <4> QED
        BY <1>10, <1>11, <3>1, <3>3, <3>4, <4>4
    <3>5. CASE ~threw
      <4>1. chunks = SubSeq(b, 1, w)
        BY <1>11, <3>5
      <4>2. 1 \in 1..(Len(b) + 1) /\ w \in (1 - 1)..Len(b) /\ m \in w..Len(b)
        BY <1>2, <1>3, <1>4
      <4>3. SubSeq(b, 1, w) \o SubSeq(b, w + 1, m) = SubSeq(b, 1, m)
        BY <1>3, <4>2, ConcatAdjacentSubSeq
      <4>4. chunks' = SubSeq(b, 1, m)
        BY <3>1, <4>1, <4>3 DEF frames
      <4> QED
        BY <1>4, <1>10, <3>1, <3>3, <4>4
    <3> QED
      BY <3>4, <3>5
  <2> QED
    BY <2>1, <2>2
<1>14. ChunksInv'
  BY <1>1, <1>6, <1>13, Zenon DEF ChunksInv, b
<1> QED
  BY <1>7, <1>8, <1>14 DEF IInv

\* What is left of the wire is a size like the others.
LEMMA SizeIsNat ==
  ASSUME IInv, Next
  PROVE  \E k \in Nat : Parse(k)
<1>1. PICK k \in ChunkSizes \union {Len(wire) - received} : Parse(k)
  BY DEF Next
<1>2. body \in Seq(Frames) /\ received \in Nat /\ received <= EndIn(body, Len(body))
  BY DEF IInv, WellFormed
<1>3. Len(wire) = EndIn(body, Len(body)) /\ Len(wire) \in Nat
  BY <1>2, WireEnds DEF wire
<1>4. k \in Nat
  BY <1>1, <1>2, <1>3, FramingAssumption
<1> QED
  BY <1>1, <1>4

\* The invariant holds whatever is sent and however it is cut.
THEOREM Invariance == Spec => []IInv
<1>1. Init => IInv
  BY InitInv
<1>2. IInv /\ [Next]_vars => IInv'
  <2> SUFFICES ASSUME IInv, [Next]_vars PROVE IInv'
    OBVIOUS
  <2>1. CASE Next
    <3>1. PICK k \in Nat : Parse(k)
      BY <2>1, SizeIsNat
    <3> QED
      BY <3>1, ParseInv
  <2>2. CASE UNCHANGED vars
    BY <2>2 DEF vars, IInv, BufferInv, ChunksInv, wire
  <2> QED
    BY <2>1, <2>2
<1> QED
  BY <1>1, <1>2, PTL DEF Spec

-----------------------------------------------------------------------------
(***************************************************************************)
(* The theorems.                                                           *)
(***************************************************************************)
LEMMA TypeInv ==
  ASSUME IInv
  PROVE  TypeOK
<1>1. body \in Seq(Frames) /\ received \in Nat /\ received <= EndIn(body, Len(body))
  BY DEF IInv, WellFormed
<1>2. received \in 0..Len(wire)
  BY <1>1, WireEnds DEF wire
<1>3. PICK m \in 0..Len(body) : chunks = SubSeq(body, 1, m)
  BY DEF IInv, ChunksInv
<1>4. chunks \in Seq(Frames)
  <2>1. m \in Nat /\ m <= Len(body) /\ 1 \in Nat \ {0}
    BY <1>1, LenProperties
  <2> QED
    BY <1>1, <1>3, <2>1, Slice
<1> QED
  BY <1>1, <1>2, <1>4 DEF IInv, BufferInv, ChunksInv, TypeOK

\* The reference of the properties is that of the invariant.
LEMMA WholeIs == \A n : Whole(n) = WholeIn(body, n) /\ EndOf(n) = EndIn(body, n)
  BY Zenon DEF Whole, WholeIn, EndOf, EndIn

\* Every variable keeps its type.
THEOREM TypeCorrect == Spec => []TypeOK
  BY Invariance, TypeInv, PTL

\* However the body is cut, parse() has returned the frames that arrived whole, as they
\* were sent, and no other, until it throws.
THEOREM ReturnsWhatArrived == Spec => []CutsDoNotMatter
<1>1. IInv => CutsDoNotMatter
  BY WholeIs DEF IInv, ChunksInv, CutsDoNotMatter
<1> QED
  BY <1>1, Invariance, PTL

\* What the parser keeps begins with the first frame that is not whole, so that it is
\* less than a frame.
THEOREM RetainsLessThanAFrame == Spec => []NothingIsRetained
<1>1. ASSUME IInv PROVE NothingIsRetained
  <2> DEFINE x == EndIn(body, WholeIn(body, received))
  <2>1. /\ body \in Seq(Frames) /\ received \in Nat /\ Len(wire) \in Nat
        /\ received <= Len(wire) /\ wire \in Seq(Byte)
    <3>1. body \in Seq(Frames) /\ received \in Nat /\ received <= EndIn(body, Len(body))
      BY <1>1 DEF IInv, WellFormed
    <3> QED
      BY <3>1, WireEnds DEF wire
  <2>2. x \in Nat /\ x <= received
    BY <2>1, WholeExists, EndType
  <2>3. buffer \in Seq(Byte) /\ position \in 0..Len(buffer) /\ Len(buffer) \in Nat
    BY <1>1 DEF IInv, BufferInv
  <2>4. SubSeq(buffer, position + 1, Len(buffer)) = SubSeq(wire, x + 1, received)
    BY <1>1 DEF IInv, BufferInv
  <2> HIDE DEF x
  <2>5. Len(SubSeq(buffer, position + 1, Len(buffer))) = Len(buffer) - position
    <3>1. position + 1 \in Nat \ {0} /\ Len(buffer) <= Len(buffer)
      BY <2>3
    <3>2. Len(SubSeq(buffer, position + 1, Len(buffer))) =
            IF position + 1 <= Len(buffer) THEN Len(buffer) - (position + 1) + 1 ELSE 0
      BY <2>3, <3>1, Slice
    <3> QED
      BY <2>3, <3>2
  <2>6. Len(SubSeq(wire, x + 1, received)) = received - x
    <3>1. x + 1 \in Nat \ {0}
      BY <2>2
    <3>2. Len(SubSeq(wire, x + 1, received)) =
            IF x + 1 <= received THEN received - (x + 1) + 1 ELSE 0
      BY <2>1, <3>1, Slice
    <3> QED
      BY <2>1, <2>2, <3>2
  <2> QED
    BY <2>4, <2>5, <2>6, WholeIs DEF NothingIsRetained, x
<1> QED
  BY <1>1, Invariance, PTL

\* What parse() returned is a beginning of the body, and it throws for trailers that
\* cannot be read, at the end, and for nothing else.
THEOREM ThrowsAtTheEnd == Spec => []GarbledTrailersThrow
<1>1. ASSUME IInv PROVE GarbledTrailersThrow
  <2>1. body \in Seq(Frames) /\ Len(body) \in Nat
    BY <1>1 DEF IInv, WellFormed
  <2>2. Len(wire) = EndIn(body, Len(body))
    BY <2>1, WireEnds DEF wire
  <2>3. received = Len(wire) => WholeIn(body, received) = Len(body)
    BY <2>1, <2>2, AllIsWhole
  <2>4. received = Len(wire) => (threw <=> Garbled(Last(body)))
    BY <1>1, <2>3 DEF IInv, ChunksInv, Last
  <2>5. IsPrefix(chunks, body)
    <3>1. PICK m \in 0..Len(body) : chunks = SubSeq(body, 1, m)
      BY <1>1 DEF IInv, ChunksInv
    <3>2. m \in Nat /\ m <= Len(body) /\ 1 \in Nat \ {0}
      BY <2>1
    <3>3. Len(chunks) = IF 1 <= m THEN m - 1 + 1 ELSE 0
      BY <2>1, <3>1, <3>2, Slice
    <3>4. Len(chunks) = m
      BY <3>2, <3>3
    <3> QED
      BY <3>1, <3>2, <3>4 DEF IsPrefix
  <2> QED
    BY <2>4, <2>5 DEF GarbledTrailersThrow
<1> QED
  BY <1>1, Invariance, PTL

\* Each call of parse() returns the frames that its chunk completes, or throws at the
\* trailers among them.
THEOREM EachCallReturnsItsFrames == Spec => ChunkIsItsFrames
<1> DEFINE next == SubSeq(body, Whole(received) + 1, Whole(received'))
           Returned ==
             \/ /\ \E i \in DOMAIN next : Garbled(next[i])
                /\ threw' /\ UNCHANGED chunks
             \/ /\ \A i \in DOMAIN next : ~Garbled(next[i])
                /\ chunks' = chunks \o next /\ UNCHANGED threw
<1>1. ASSUME IInv, Next PROVE Returned
  <2>1. PICK k \in Nat : Parse(k)
    BY <1>1, SizeIsNat
  <2>2. /\ received + k <= Len(wire)
        /\ received' = received + k
        /\ buffer' = Refilled(SubSeq(wire, received + 1, received + k))
    BY <2>1 DEF Parse
  <2>3. ParseFrom(buffer') = ReadUpTo(body, WholeIn(body, received), WholeIn(body, received + k))
    BY <1>1, <2>2, ParseBuffer
  <2>4. ReadUpTo(body, WholeIn(body, received), WholeIn(body, received + k)).frames = next
    BY <2>2, WholeIs DEF ReadUpTo
  <2>5. ParseFrom(buffer').frames = next
    BY <2>3, <2>4, Zenon
  <2> HIDE DEF next
  <2> QED
    BY <2>1, <2>5 DEF Parse
<1> QED
  BY <1>1, Invariance, PTL DEF Spec, ChunkIsItsFrames
=============================================================================
