---------------------------- MODULE ReaderProofs ----------------------------
(***************************************************************************)
(* Lemmas about the statement reader, for its two clients: what each of    *)
(* its operations makes of the stack, and how the stack follows the text.  *)
(***************************************************************************)
EXTENDS StatementReader, FiniteSetTheorems, SequenceTheorems,
        WellFoundedInduction, TLAPS

-----------------------------------------------------------------------------
(* Least numbers *)

LEMMA LeastNat ==
  ASSUME NEW S, S \subseteq Nat, S # {}
  PROVE  \E x \in S : \A y \in S : x <= y
<1>1. \E x \in S : \A y \in S : ~(<<y, x>> \in OpToRel(<, Nat))
  BY NatLessThanWellFounded, WFMin
<1>2. \A x, y \in Nat : y < x => <<y, x>> \in OpToRel(<, Nat)
  BY Zenon DEF OpToRel
<1>3. \E x \in S : \A y \in S : ~(y < x)
  BY <1>1, <1>2, Zenon
<1> QED
  BY <1>3

(* A set of numbers that does not hold 0 holds one after a number that it  *)
(* does not hold: an induction over numbers, by its counterexamples.       *)
LEMMA FirstBad ==
  ASSUME NEW B \in SUBSET Nat, B # {}, 0 \notin B
  PROVE  \E k \in Nat : k \notin B /\ k + 1 \in B
<1>1. PICK m \in B : \A y \in B : m <= y
  BY LeastNat
<1>2. m - 1 \in Nat /\ m - 1 \notin B /\ (m - 1) + 1 \in B
  BY <1>1
<1> QED
  BY <1>2

LEMMA LeastIs ==
  ASSUME NEW S, S \subseteq Nat, S # {}
  PROVE  Min(S) \in S
<1>1. \E x \in S : \A y \in S : x <= y
  BY LeastNat
<1> QED
  BY <1>1 DEF Min

LEMMA GreatestIs ==
  ASSUME NEW n \in Nat, NEW S \in SUBSET (1 .. n), S # {}
  PROVE  Max(S) \in S
<1>0. n \in Nat /\ \A x \in S : x \in 1 .. n
  OBVIOUS
<1>1. PICK R : R = {n - x : x \in S}
  OBVIOUS
<1>5. R \subseteq Nat /\ R # {}
  <2>1. \A x \in S : n - x \in Nat
    BY <1>0
  <2> QED
    BY <1>1, <2>1
<1>2. PICK r \in R : \A y \in R : r <= y
  BY <1>5, LeastNat
<1>3. PICK x \in S : r = n - x
  BY <1>1, <1>2
<1>4. ASSUME NEW y \in S
      PROVE  x >= y
  <2>1. n - y \in R
    BY <1>1
  <2>2. n - x <= n - y
    BY <1>2, <1>3, <2>1
  <2> QED
    BY <1>0, <1>3, <2>2
<1> QED
  BY <1>4 DEF Max

-----------------------------------------------------------------------------
(* Folds over a list, as FoldLeft computes them: g gives for each set of   *)
(* positions the fold over these.  The step of the fold is a function, so  *)
(* that one proof serves all.                                              *)
IsFold(g, step, base, list, n) ==
  \A S \in SUBSET (1 .. n) :
    g[S] = IF S = {} THEN base ELSE step[<<g[S \ {Max(S)}], list[Max(S)]>>]

LEMMA MaxOfTop ==
  ASSUME NEW k \in Nat, NEW S \in SUBSET (1 .. k + 1), ~(S \subseteq 1 .. k)
  PROVE  S # {} /\ Max(S) = k + 1 /\ S \ {Max(S)} \subseteq 1 .. k
<1>1. k + 1 \in S /\ \A x \in S : k + 1 >= x
  OBVIOUS
<1>2. \A x \in S : (\A y \in S : x >= y) => x = k + 1
  BY <1>1
<1>3. Max(S) = k + 1
  BY <1>1, <1>2 DEF Max
<1> QED
  BY <1>1, <1>3

HasFold(step, base, list, n) ==
  \E g : IsFold(g, step, base, list, n) /\ g = [S \in SUBSET (1 .. n) |-> g[S]]

LEMMA FoldExists ==
  ASSUME NEW step, NEW base, NEW list, NEW n \in Nat
  PROVE  HasFold(step, base, list, n)
<1> DEFINE B == {k \in Nat : ~\E g : IsFold(g, step, base, list, k)}
<1>1. 0 \notin B
  <2>1. PICK g : g = [S \in {{}} |-> base]
    OBVIOUS
  <2>2. IsFold(g, step, base, list, 0)
    <3>1. SUBSET (1 .. 0) = {{}}
      OBVIOUS
    <3> QED
      BY <2>1, <3>1 DEF IsFold
  <2> QED
    BY <2>2
<1>2. ASSUME NEW k \in Nat, NEW g, IsFold(g, step, base, list, k)
      PROVE  \E h : IsFold(h, step, base, list, k + 1)
  <2>1. PICK h : h = [S \in SUBSET (1 .. k + 1) |->
                        IF S \subseteq 1 .. k THEN g[S]
                        ELSE step[<<g[S \ {k + 1}], list[k + 1]>>]]
    OBVIOUS
  <2>2. 1 .. k \subseteq 1 .. k + 1
    OBVIOUS
  <2>3. \A S \in SUBSET (1 .. k) : h[S] = g[S] /\ S \in SUBSET (1 .. k + 1)
    BY <2>1, <2>2
  <2>4. ASSUME NEW S \in SUBSET (1 .. k + 1)
        PROVE  h[S] = IF S = {} THEN base ELSE step[<<h[S \ {Max(S)}], list[Max(S)]>>]
    <3>1. CASE S \subseteq 1 .. k
      <4>1. S \ {Max(S)} \in SUBSET (1 .. k)
        BY <3>1
      <4>2. h[S] = g[S] /\ h[S \ {Max(S)}] = g[S \ {Max(S)}]
        BY <2>3, <3>1, <4>1
      <4>3. g[S] = IF S = {} THEN base ELSE step[<<g[S \ {Max(S)}], list[Max(S)]>>]
        BY <1>2, <3>1 DEF IsFold
      <4> QED
        BY <4>2, <4>3
    <3>2. CASE ~(S \subseteq 1 .. k)
      <4>1. S # {} /\ Max(S) = k + 1 /\ S \ {Max(S)} \in SUBSET (1 .. k)
        BY <3>2, MaxOfTop
      <4>2. h[S] = step[<<g[S \ {k + 1}], list[k + 1]>>]
        BY <2>1, <3>2
      <4>3. h[S \ {Max(S)}] = g[S \ {k + 1}]
        BY <2>3, <4>1
      <4> QED
        BY <4>1, <4>2, <4>3
    <3> QED
      BY <3>1, <3>2
  <2> QED
    BY <2>4 DEF IsFold
<1>3. B = {}
  <2>1. B \in SUBSET Nat
    OBVIOUS
  <2>2. \A k \in Nat : k \notin B => k + 1 \notin B
    BY <1>2
  <2> HIDE DEF B
  <2> QED
    BY <1>1, <2>1, <2>2, FirstBad
<1>4. PICK g : IsFold(g, step, base, list, n)
  BY <1>3
<1>5. PICK h : h = [S \in SUBSET (1 .. n) |-> g[S]]
  OBVIOUS
<1>6. IsFold(h, step, base, list, n)
  <2>1. ASSUME NEW S \in SUBSET (1 .. n)
        PROVE  h[S] = IF S = {} THEN base ELSE step[<<h[S \ {Max(S)}], list[Max(S)]>>]
    <3>1. S \ {Max(S)} \in SUBSET (1 .. n)
      OBVIOUS
    <3>2. h[S] = g[S] /\ h[S \ {Max(S)}] = g[S \ {Max(S)}]
      BY <1>5, <3>1
    <3>3. g[S] = IF S = {} THEN base ELSE step[<<g[S \ {Max(S)}], list[Max(S)]>>]
      BY <1>4 DEF IsFold
    <3> QED
      BY <3>2, <3>3
  <2> QED
    BY <2>1 DEF IsFold
<1> QED
  BY <1>5, <1>6 DEF HasFold

(* The positions up to k + 1, as such a function takes them.               *)
PrefixOf(k, n) ==
  \E S \in SUBSET (1 .. n) :
    S = 1 .. k + 1 /\ S # {} /\ Max(S) = k + 1 /\ S \ {Max(S)} = 1 .. k

LEMMA UpToNext ==
  ASSUME NEW n \in Nat, NEW k \in Nat, k + 1 <= n
  PROVE  PrefixOf(k, n)
<1>1. PICK S : S = 1 .. k + 1
  OBVIOUS
<1>2. S \in SUBSET (1 .. k + 1) /\ ~(S \subseteq 1 .. k) /\ S \in SUBSET (1 .. n)
  <2>1. k + 1 \in S /\ k + 1 \notin 1 .. k
    BY <1>1
  <2>2. S \subseteq 1 .. n
    BY <1>1
  <2> QED
    BY <1>1, <2>1, <2>2
<1>3. S # {} /\ Max(S) = k + 1
  BY <1>2, MaxOfTop
<1>4. S \ {k + 1} = 1 .. k
  BY <1>1
<1> QED
  BY <1>1, <1>2, <1>3, <1>4 DEF PrefixOf

(* What is folded is in the set that the step goes on in.                  *)
LEMMA FoldIn ==
  ASSUME NEW D, NEW E, NEW step, NEW base \in D, NEW list, NEW n \in Nat,
         \A d \in D, e \in E : step[<<d, e>>] \in D,
         \A i \in 1 .. n : list[i] \in E,
         NEW g, IsFold(g, step, base, list, n)
  PROVE  \A S \in SUBSET (1 .. n) : g[S] \in D
<1> DEFINE AllIn(k) == \A S \in SUBSET (1 .. k) : g[S] \in D
           B == {k \in Nat : k <= n /\ ~AllIn(k)}
<1>1. 0 \notin B
  <2>1. {} \in SUBSET (1 .. n) /\ SUBSET (1 .. 0) = {{}}
    OBVIOUS
  <2>2. g[{}] = base
    BY <2>1 DEF IsFold
  <2> QED
    BY <2>1, <2>2
<1>2. ASSUME NEW k \in Nat, k + 1 <= n, AllIn(k)
      PROVE  AllIn(k + 1)
  <2> SUFFICES ASSUME NEW S \in SUBSET (1 .. k + 1) PROVE g[S] \in D
    OBVIOUS
  <2>1. CASE S \subseteq 1 .. k
    BY <1>2, <2>1
  <2>2. CASE ~(S \subseteq 1 .. k)
    <3>1. S # {} /\ Max(S) = k + 1 /\ S \ {k + 1} \in SUBSET (1 .. k)
      BY <2>2, MaxOfTop
    <3>2. S \in SUBSET (1 .. n)
      BY <1>2
    <3>3. g[S] = step[<<g[S \ {k + 1}], list[k + 1]>>]
      BY <3>1, <3>2 DEF IsFold
    <3>4. g[S \ {k + 1}] \in D /\ list[k + 1] \in E
      BY <1>2, <3>1
    <3> QED
      BY <3>3, <3>4
  <2> QED
    BY <2>1, <2>2
<1>3. B = {}
  <2> HIDE DEF AllIn
  <2>1. B \in SUBSET Nat
    OBVIOUS
  <2>2. ASSUME NEW k \in Nat, k + 1 \in B
        PROVE  k \in B
    BY <1>2, <2>2
  <2> HIDE DEF B
  <2> QED
    BY <1>1, <2>1, <2>2, FirstBad
<1> QED
  BY <1>3

(* The fold is the only function that is made in its way.                  *)
MadeAlike(g, h, n) ==
  /\ h[{}] = g[{}]
  /\ \A S \in SUBSET (1 .. n) :
       S # {} /\ h[S \ {Max(S)}] = g[S \ {Max(S)}] => h[S] = g[S]
Alike(g, h, n) == \A S \in SUBSET (1 .. n) : h[S] = g[S]

LEMMA SameFold ==
  ASSUME NEW n \in Nat, NEW g, NEW h, MadeAlike(g, h, n)
  PROVE  Alike(g, h, n)
<1> USE DEF MadeAlike
<1> DEFINE B == {k \in Nat : k <= n /\ ~\A S \in SUBSET (1 .. k) : h[S] = g[S]}
<1>1. 0 \notin B
  <2>1. SUBSET (1 .. 0) = {{}}
    OBVIOUS
  <2> QED
    BY <2>1
<1>2. ASSUME NEW k \in Nat, k + 1 <= n, \A S \in SUBSET (1 .. k) : h[S] = g[S]
      PROVE  \A S \in SUBSET (1 .. k + 1) : h[S] = g[S]
  <2> SUFFICES ASSUME NEW S \in SUBSET (1 .. k + 1) PROVE h[S] = g[S]
    OBVIOUS
  <2>1. CASE S \subseteq 1 .. k
    BY <1>2, <2>1
  <2>2. CASE ~(S \subseteq 1 .. k)
    <3>1. S # {} /\ S \ {Max(S)} \in SUBSET (1 .. k)
      BY <2>2, MaxOfTop
    <3>2. S \in SUBSET (1 .. n)
      BY <1>2
    <3>3. h[S \ {Max(S)}] = g[S \ {Max(S)}]
      BY <1>2, <3>1
    <3> QED
      BY <3>1, <3>2, <3>3
  <2> QED
    BY <2>1, <2>2
<1>3. B = {}
  <2>1. B \in SUBSET Nat
    OBVIOUS
  <2>2. \A k \in Nat : k \notin B => k + 1 \notin B
    BY <1>2
  <2> HIDE DEF B
  <2> QED
    BY <1>1, <2>1, <2>2, FirstBad
<1> QED
  BY <1>3 DEF Alike

(* One more element in the list is one more step of the fold.              *)
Closed(step, D, E) == \A d \in D, e \in E : step[<<d, e>>] \in D
Appends(step, D, g, h, n, e) ==
  g[1 .. n] \in D /\ h[1 .. n + 1] = step[<<g[1 .. n], e>>]

LEMMA FoldAppends ==
  ASSUME NEW D, NEW E, NEW step, NEW base \in D, NEW list \in Seq(E), NEW e \in E,
         Closed(step, D, E),
         NEW n \in Nat, n = Len(list), NEW long, long = Append(list, e),
         NEW g, IsFold(g, step, base, list, n),
         NEW h, IsFold(h, step, base, long, n + 1)
  PROVE  Appends(step, D, g, h, n, e)
<1>2. /\ long \in Seq(E) /\ Len(long) = n + 1 /\ long[n + 1] = e
      /\ \A k \in 1 .. n : long[k] = list[k] /\ list[k] \in E
  OBVIOUS
<1>3. \A S \in SUBSET (1 .. n) : g[S] \in D
  BY <1>2, FoldIn DEF Closed
<1>4. ASSUME NEW S \in SUBSET (1 .. n)
      PROVE  /\ g[S] = IF S = {} THEN base ELSE step[<<g[S \ {Max(S)}], list[Max(S)]>>]
             /\ h[S] = IF S = {} THEN base ELSE step[<<h[S \ {Max(S)}], long[Max(S)]>>]
             /\ S # {} => long[Max(S)] = list[Max(S)]
  <2>1. S \in SUBSET (1 .. n + 1)
    OBVIOUS
  <2>2. S # {} => Max(S) \in 1 .. n
    BY GreatestIs
  <2> QED
    BY <1>2, <2>1, <2>2 DEF IsFold
<1>5. h[{}] = g[{}]
  <2>1. {} \in SUBSET (1 .. n)
    OBVIOUS
  <2> QED
    BY <1>4, <2>1
<1>6. Alike(g, h, n)
  <2>1. ASSUME NEW S \in SUBSET (1 .. n), S # {}, h[S \ {Max(S)}] = g[S \ {Max(S)}]
        PROVE  h[S] = g[S]
    <3>1. g[S] = step[<<g[S \ {Max(S)}], list[Max(S)]>>]
      BY <1>4, <2>1
    <3>2. h[S] = step[<<h[S \ {Max(S)}], long[Max(S)]>>] /\ long[Max(S)] = list[Max(S)]
      BY <1>4, <2>1
    <3> QED
      BY <2>1, <3>1, <3>2
  <2>2. MadeAlike(g, h, n)
    BY <1>5, <2>1 DEF MadeAlike
  <2> QED
    BY <2>2, SameFold
<1>7. PrefixOf(n, n + 1)
  BY UpToNext
<1>8. PICK S \in SUBSET (1 .. n + 1) :
        S = 1 .. n + 1 /\ S # {} /\ Max(S) = n + 1 /\ S \ {Max(S)} = 1 .. n
  BY <1>7 DEF PrefixOf
<1>9. h[S] = step[<<h[S \ {Max(S)}], long[Max(S)]>>]
  BY <1>8 DEF IsFold
<1>10. (1 .. n) \in SUBSET (1 .. n)
  OBVIOUS
<1>11. h[1 .. n] = g[1 .. n] /\ g[1 .. n] \in D
  BY <1>3, <1>6, <1>10 DEF Alike
<1>12. long[Max(S)] = e
  BY <1>2, <1>8
<1> QED
  BY <1>8, <1>9, <1>11, <1>12 DEF Appends

-----------------------------------------------------------------------------
(* Sequences of sequences one after another                                *)

Flattens(f, seqs, n) ==
  f = [i \in 1 .. n |-> IF i = 1 THEN seqs[i] ELSE f[i - 1] \o seqs[i]]

LEMMA FlattenExists ==
  ASSUME NEW seqs, NEW n \in Nat
  PROVE  \E f : Flattens(f, seqs, n)
<1> DEFINE B == {k \in Nat : ~\E f : Flattens(f, seqs, k)}
<1>1. 0 \notin B
  <2>1. PICK f : f = [i \in {} |-> seqs[i]]
    OBVIOUS
  <2>2. 1 .. 0 = {}
    OBVIOUS
  <2>3. Flattens(f, seqs, 0)
    BY <2>1, <2>2 DEF Flattens
  <2> QED
    BY <2>3
<1>2. ASSUME NEW k \in Nat, NEW f, Flattens(f, seqs, k)
      PROVE  \E g : Flattens(g, seqs, k + 1)
  <2>1. PICK g : g = [i \in 1 .. k + 1 |-> IF i \in 1 .. k THEN f[i]
                                           ELSE IF i = 1 THEN seqs[i]
                                           ELSE f[i - 1] \o seqs[i]]
    OBVIOUS
  <2>2. ASSUME NEW i \in 1 .. k + 1
        PROVE  g[i] = IF i = 1 THEN seqs[i] ELSE g[i - 1] \o seqs[i]
    <3>1. CASE i \in 1 .. k
      <4>1. g[i] = f[i] /\ f[i] = IF i = 1 THEN seqs[i] ELSE f[i - 1] \o seqs[i]
        BY <1>2, <2>1, <3>1 DEF Flattens
      <4>2. i # 1 => i - 1 \in 1 .. k /\ i - 1 \in 1 .. k + 1
        BY <3>1
      <4>3. i # 1 => g[i - 1] = f[i - 1]
        BY <2>1, <4>2
      <4> QED
        BY <4>1, <4>3
    <3>2. CASE i \notin 1 .. k
      <4>1. i = k + 1
        BY <3>2
      <4>2. i # 1 => i - 1 \in 1 .. k /\ i - 1 \in 1 .. k + 1
        BY <4>1
      <4>3. i # 1 => g[i - 1] = f[i - 1]
        BY <2>1, <4>2
      <4>4. g[i] = IF i = 1 THEN seqs[i] ELSE f[i - 1] \o seqs[i]
        BY <2>1, <3>2
      <4> QED
        BY <4>3, <4>4
    <3> QED
      BY <3>1, <3>2
  <2>3. g = [i \in 1 .. k + 1 |-> g[i]]
    BY <2>1
  <2>4. Flattens(g, seqs, k + 1)
    BY <2>2, <2>3, Zenon DEF Flattens
  <2> QED
    BY <2>4
<1>3. B = {}
  <2>1. B \in SUBSET Nat
    OBVIOUS
  <2>2. \A k \in Nat : k \notin B => k + 1 \notin B
    BY <1>2
  <2> HIDE DEF B
  <2> QED
    BY <1>1, <2>1, <2>2, FirstBad
<1> QED
  BY <1>3

FlattensTo(seqs, n) == \E f : Flattens(f, seqs, n) /\ FlattenSeq(seqs) = f[n]

LEMMA FlattenIs ==
  ASSUME NEW seqs, NEW n \in Nat, n = Len(seqs), n # 0
  PROVE  FlattensTo(seqs, n)
<1>1. PICK f : f = CHOOSE g : g = [i \in 1 .. Len(seqs) |->
                                     IF i = 1 THEN seqs[i] ELSE g[i - 1] \o seqs[i]]
  OBVIOUS
<1>2. \E g : g = [i \in 1 .. Len(seqs) |-> IF i = 1 THEN seqs[i] ELSE g[i - 1] \o seqs[i]]
  BY FlattenExists DEF Flattens
<1>3. Flattens(f, seqs, n)
  BY <1>1, <1>2, Zenon DEF Flattens
<1>4. FlattenSeq(seqs) = f[n]
  BY <1>1, Zenon DEF FlattenSeq
<1> QED
  BY <1>3, <1>4 DEF FlattensTo

LEMMA FlattenIn ==
  ASSUME NEW T, NEW seqs \in Seq(Seq(T))
  PROVE  FlattenSeq(seqs) \in Seq(T)
<1>1. PICK n \in Nat : n = Len(seqs)
  OBVIOUS
<1>2. CASE n = 0
  <2>1. FlattenSeq(seqs) = seqs
    BY <1>1, <1>2, Zenon DEF FlattenSeq
  <2>2. seqs = <<>>
    BY <1>1, <1>2, EmptySeq
  <2>3. <<>> \in Seq(T)
    OBVIOUS
  <2> QED
    BY <2>1, <2>2, <2>3
<1>3. CASE n # 0
  <2>1. PICK f : Flattens(f, seqs, n) /\ FlattenSeq(seqs) = f[n]
    BY <1>1, <1>3, FlattenIs DEF FlattensTo
  <2>2. PICK D : D = Seq(T)
    OBVIOUS
  <2>3. \A i \in 1 .. n : seqs[i] \in D
    BY <1>1, <2>2
  <2>4. \A a, b \in D : a \o b \in D
    BY <2>2
  <2> DEFINE B == {k \in Nat : k + 1 <= n /\ f[k + 1] \notin D}
  <2>5. 0 \notin B
    <3>1. 1 \in 1 .. n
      BY <1>3
    <3>2. f[1] = seqs[1]
      BY <2>1, <3>1 DEF Flattens
    <3> QED
      BY <2>3, <3>1, <3>2
  <2>6. ASSUME NEW k \in Nat, (k + 1) + 1 <= n, f[k + 1] \in D
        PROVE  f[(k + 1) + 1] \in D
    <3>1. PICK m : m = (k + 1) + 1
      OBVIOUS
    <3>2. m \in 1 .. n /\ m # 1 /\ m - 1 = k + 1
      BY <2>6, <3>1
    <3>3. f[m] = f[m - 1] \o seqs[m]
      BY <2>1, <3>2 DEF Flattens
    <3> QED
      BY <2>3, <2>4, <2>6, <3>1, <3>2, <3>3
  <2>7. B = {}
    <3>1. B \in SUBSET Nat
      OBVIOUS
    <3>2. \A k \in Nat : k \notin B => k + 1 \notin B
      BY <2>6
    <3> HIDE DEF B
    <3> QED
      BY <2>5, <3>1, <3>2, FirstBad
  <2>8. f[n] \in D
    <3>1. n - 1 \in Nat /\ (n - 1) + 1 = n
      BY <1>3
    <3>2. PICK m \in Nat : m = n - 1 /\ m + 1 = n
      BY <3>1
    <3>3. m \notin B
      BY <2>7
    <3> QED
      BY <3>2, <3>3
  <2> QED
    BY <2>1, <2>2, <2>8
<1> QED
  BY <1>2, <1>3

LEMMA FlattenNothing == FlattenSeq(<<>>) = <<>>
BY DEF FlattenSeq

LEMMA FlattenOne ==
  ASSUME NEW s
  PROVE  FlattenSeq(<<s>>) = s
<1>1. PICK seqs : seqs = <<s>>
  OBVIOUS
<1>2. Len(seqs) = 1 /\ seqs[1] = s /\ 1 \in 1 .. 1
  BY <1>1
<1>3. PICK f : Flattens(f, seqs, 1) /\ FlattenSeq(seqs) = f[1]
  <2>1. PICK n \in Nat : n = 1
    OBVIOUS
  <2>2. n = Len(seqs) /\ n # 0
    BY <1>2, <2>1
  <2>3. FlattensTo(seqs, n)
    BY <2>2, FlattenIs
  <2> QED
    BY <2>1, <2>3 DEF FlattensTo
<1>4. f[1] = s
  BY <1>2, <1>3 DEF Flattens
<1> QED
  BY <1>1, <1>3, <1>4

-----------------------------------------------------------------------------
(* Open blocks *)

OpenedBy(open, c) ==
  CASE c.end = "{" -> Append(open, c)
    [] c.end = "}" /\ open # <<>> -> Front(open)
    [] OTHER -> open
OpenStep(T) == [p \in Seq(T) \X T |-> OpenedBy(p[1], p[2])]

LEMMA FrontIn ==
  ASSUME NEW T, NEW list \in Seq(T), list # <<>>
  PROVE  /\ Front(list) \in Seq(T) /\ Len(Front(list)) = Len(list) - 1
         /\ \A i \in 1 .. Len(list) - 1 : Front(list)[i] = list[i]
<1>1. PICK n \in Nat : n = Len(list) - 1
  BY EmptySeq
<1>2. SubSeq(list, 1, n) \in Seq(T) /\ Len(SubSeq(list, 1, n)) = n
  BY <1>1
<1>3. \A i \in 1 .. n : SubSeq(list, 1, n)[i] = list[i]
  BY <1>1
<1> QED
  BY <1>1, <1>2, <1>3 DEF Front

LEMMA OpenedByIn ==
  ASSUME NEW T, NEW open \in Seq(T), NEW c \in T
  PROVE  OpenedBy(open, c) \in Seq(T) /\ OpenStep(T)[<<open, c>>] = OpenedBy(open, c)
<1>1. OpenedBy(open, c) \in Seq(T)
  <2>1. open # <<>> => Front(open) \in Seq(T)
    BY FrontIn
  <2>2. Append(open, c) \in Seq(T)
    OBVIOUS
  <2> QED
    BY <2>1, <2>2 DEF OpenedBy
<1>2. OpenStep(T)[<<open, c>>] = OpenedBy(open, c)
  BY DEF OpenStep
<1> QED
  BY <1>1, <1>2

(* The open blocks are such a fold.                                        *)
OpenFold(text, g, T, n) ==
  IsFold(g, OpenStep(T), <<>>, text, n) /\ OpenBlocks(text) = g[1 .. n]

LEMMA OpenIsFold ==
  ASSUME NEW T, NEW text \in Seq(T), NEW n \in Nat, n = Len(text)
  PROVE  \E g : OpenFold(text, g, T, n)
<1> DEFINE Fold(g) == g = [S \in SUBSET (DOMAIN text) |->
                             IF S = {} THEN <<>>
                             ELSE LET x == Max(S)
                                  IN CASE text[x].end = "{" -> Append(g[S \ {x}], text[x])
                                       [] text[x].end = "}" /\ g[S \ {x}] # <<>>
                                            -> Front(g[S \ {x}])
                                       [] OTHER -> g[S \ {x}]]
<1>0. DOMAIN text = 1 .. n /\ \A i \in 1 .. n : text[i] \in T
  OBVIOUS
<1>1. PICK g : /\ IsFold(g, OpenStep(T), <<>>, text, n)
               /\ g = [S \in SUBSET (1 .. n) |-> g[S]]
  <2>1. HasFold(OpenStep(T), <<>>, text, n)
    BY FoldExists
  <2> QED
    BY <2>1 DEF HasFold
<1>2. ASSUME NEW h, IsFold(h, OpenStep(T), <<>>, text, n)
      PROVE  \A S \in SUBSET (1 .. n) : h[S] \in Seq(T)
  <2>1. \A d \in Seq(T), e \in T : OpenStep(T)[<<d, e>>] \in Seq(T)
    BY OpenedByIn
  <2>2. <<>> \in Seq(T)
    OBVIOUS
  <2>3. PICK D : D = Seq(T)
    OBVIOUS
  <2>4. \A S \in SUBSET (1 .. n) : h[S] \in D
    <3>1. <<>> \in D /\ \A d \in D, e \in T : OpenStep(T)[<<d, e>>] \in D
      BY <2>1, <2>2, <2>3
    <3>2. PICK step : step = OpenStep(T)
      OBVIOUS
    <3>3. IsFold(h, step, <<>>, text, n) /\ \A d \in D, e \in T : step[<<d, e>>] \in D
      BY <1>2, <3>1, <3>2
    <3> QED
      BY <1>0, <3>1, <3>3, FoldIn
  <2> QED
    BY <2>3, <2>4
<1>3. ASSUME NEW S \in SUBSET (1 .. n), S # {}
      PROVE  Max(S) \in 1 .. n /\ S \ {Max(S)} \in SUBSET (1 .. n)
  <2>1. Max(S) \in S
    BY <1>3, GreatestIs
  <2> QED
    BY <2>1
<1>41. ASSUME NEW S \in SUBSET (1 .. n), S # {}
       PROVE  g[S] = OpenedBy(g[S \ {Max(S)}], text[Max(S)])
  <2>1. PICK x : x = Max(S)
    OBVIOUS
  <2>2. x \in 1 .. n /\ S \ {x} \in SUBSET (1 .. n)
    BY <1>3, <1>41, <2>1
  <2>3. g[S \ {x}] \in Seq(T)
    BY <1>1, <1>2, <2>2
  <2>4. g[S] = OpenStep(T)[<<g[S \ {x}], text[x]>>]
    BY <1>1, <1>41, <2>1 DEF IsFold
  <2>5. text[x] \in T
    BY <1>0, <2>2
  <2>6. OpenStep(T)[<<g[S \ {x}], text[x]>>] = OpenedBy(g[S \ {x}], text[x])
    BY <2>3, <2>5, OpenedByIn
  <2> QED
    BY <2>1, <2>4, <2>6
<1>4. Fold(g)
  <2>2. g[{}] = <<>>
    <3>1. {} \in SUBSET (1 .. n)
      OBVIOUS
    <3> QED
      BY <1>1, <3>1 DEF IsFold
  <2>3. \A S \in SUBSET (1 .. n) :
          g[S] = IF S = {} THEN <<>> ELSE OpenedBy(g[S \ {Max(S)}], text[Max(S)])
    BY <1>41, <2>2
  <2>4. g = [S \in SUBSET (1 .. n) |->
               IF S = {} THEN <<>> ELSE OpenedBy(g[S \ {Max(S)}], text[Max(S)])]
    <3> DEFINE G(S) == IF S = {} THEN <<>> ELSE OpenedBy(g[S \ {Max(S)}], text[Max(S)])
    <3>1. \A S \in SUBSET (1 .. n) : g[S] = G(S)
      BY <2>3
    <3> HIDE DEF G
    <3>2. g = [S \in SUBSET (1 .. n) |-> G(S)]
      BY <1>1, <3>1
    <3> QED
      BY <3>2 DEF G
  <2> QED
    BY <1>0, <2>4, Zenon DEF OpenedBy
<1>5. PICK h : h = CHOOSE k : Fold(k)
  OBVIOUS
<1>6. Fold(h)
  BY <1>4, <1>5, Zenon
<1>7. OpenBlocks(text) = h[DOMAIN text]
  BY <1>5, Zenon DEF OpenBlocks, FoldLeft, MapThenFoldSet
<1>8. \A S \in SUBSET (1 .. n) :
        h[S] = IF S = {} THEN <<>> ELSE OpenedBy(h[S \ {Max(S)}], text[Max(S)])
  BY <1>0, <1>6, Zenon DEF OpenedBy
<1>9. h[{}] = g[{}]
  <2>1. {} \in SUBSET (1 .. n)
    OBVIOUS
  <2> QED
    BY <1>1, <1>8, <2>1 DEF IsFold
<1>10. MadeAlike(g, h, n)
  BY <1>8, <1>9, <1>41 DEF MadeAlike
<1>11. h[1 .. n] = g[1 .. n]
  <2>1. (1 .. n) \in SUBSET (1 .. n)
    OBVIOUS
  <2>2. Alike(g, h, n)
    BY <1>10, SameFold
  <2> QED
    BY <2>1, <2>2 DEF Alike
<1> QED
  BY <1>0, <1>1, <1>7, <1>11 DEF OpenFold

(* One more chunk opens or closes a block, or neither.                     *)
LEMMA OpenBlocksAppend ==
  ASSUME NEW T, NEW text \in Seq(T), NEW c \in T
  PROVE  /\ OpenBlocks(text) \in Seq(T)
         /\ OpenBlocks(Append(text, c)) = OpenedBy(OpenBlocks(text), c)
<1>1. PICK n \in Nat : n = Len(text)
  OBVIOUS
<1>2. PICK long : long = Append(text, c)
  OBVIOUS
<1>3. long \in Seq(T) /\ n + 1 = Len(long) /\ n + 1 \in Nat
  BY <1>1, <1>2
<1>4. PICK g : OpenFold(text, g, T, n)
  BY <1>1, OpenIsFold
<1>5. PICK h : OpenFold(long, h, T, n + 1)
  BY <1>3, OpenIsFold
<1>6. PICK D, step : D = Seq(T) /\ step = OpenStep(T)
  OBVIOUS
<1>7. <<>> \in D /\ Closed(step, D, T)
  BY <1>6, OpenedByIn DEF Closed
<1>8. IsFold(g, step, <<>>, text, n) /\ IsFold(h, step, <<>>, long, n + 1)
  BY <1>4, <1>5, <1>6 DEF OpenFold
<1>9. Appends(step, D, g, h, n, c)
  BY <1>1, <1>2, <1>7, <1>8, FoldAppends
<1> QED
  BY <1>2, <1>4, <1>5, <1>6, <1>9, OpenedByIn DEF OpenFold, Appends

LEMMA OpenBlocksNothing == OpenBlocks(<<>>) = <<>>
<1>1. <<>> \in Seq({}) /\ Len(<<>>) = 0 /\ 1 .. 0 = {} /\ {} \in SUBSET (1 .. 0)
  OBVIOUS
<1>2. PICK g : OpenFold(<<>>, g, {}, 0)
  BY <1>1, OpenIsFold
<1> QED
  BY <1>1, <1>2 DEF OpenFold, IsFold
-----------------------------------------------------------------------------
(* Readers: their sources are of chunks of C, their statements accepted in *)
(* packages of A.                                                          *)

SourcesIn(C) == Seq(C) \ {<<>>}
FramesIn(C, A) ==
  [type : {ParsedType(s) : s \in SourcesIn(C)}, name : {ParsedName(s) : s \in SourcesIn(C)},
   source : SourcesIn(C), accepted_in : A]
ReadersIn(C, A) ==
  [statements : Seq(FramesIn(C, A)), next_sources : Seq(SourcesIn(C)), status : Statuses]

(* The chunks that ended the statements on a stack                         *)
EndsOf(statements) == [i \in DOMAIN statements |-> Last(statements[i].source)]

LEMMA ParsedStatusIn ==
  ASSUME NEW s, NEW b \in BOOLEAN
  PROVE  ParsedStatus(s, b) \in Statuses
BY DEF ParsedStatus, Statuses

(* What a statement's status says of the chunk at its end                  *)
LEMMA StatusFromEnd ==
  ASSUME NEW s, NEW b, NEW t, t = ParsedStatus(s, b)
  PROVE  /\ t = "OK" => Last(s).end = ";"
         /\ t = "BLOCK_BEGIN" => Last(s).end = "{"
         /\ t = "BLOCK_END" => Last(s).end = "}" /\ b
         /\ t = "ASSUMED_STATEMENT_END" => Last(s).end \notin {";", "{", "}"}
BY DEF ParsedStatus

(* q is reader r with one more statement, and no rewound source.           *)
IsRead(q, r, C, A) ==
  /\ q \in ReadersIn(C, A) /\ q.next_sources = <<>>
  /\ Len(q.statements) = Len(r.statements) + 1
  /\ \A i \in 1 .. Len(r.statements) : q.statements[i] = r.statements[i]

(* It is what the reader makes of chunk c.                                 *)
JustRead(q, r, c, C, A) ==
  /\ IsRead(q, r, C, A) /\ Top(q).accepted_in = NotAccepted
  /\ Top(q).source = NextSource(r, c) /\ Top(q).source \in SourcesIn(C)
  /\ Top(q).type = ParsedType(NextSource(r, c))
  /\ Top(q).name = ParsedName(NextSource(r, c))
  /\ q.status = ParsedStatus(NextSource(r, c), r.statements # <<>>)

LEMMA ReadNextReads ==
  ASSUME NEW C, NEW A, NotAccepted \in A, NEW r \in ReadersIn(C, A),
         Len(r.next_sources) <= 1, NEW c \in C, NEW q, q = ReadNext(r, c)
  PROVE  JustRead(q, r, c, C, A)
<1>1. PICK source : source = NextSource(r, c)
  OBVIOUS
<1>2. source \in SourcesIn(C)
  <2>1. r.next_sources \in Seq(SourcesIn(C))
    BY DEF ReadersIn
  <2>2. CASE r.next_sources = <<>>
    BY <1>1, <2>2 DEF NextSource, SourcesIn
  <2>3. CASE r.next_sources # <<>>
    <3>1. Last(r.next_sources) \in SourcesIn(C)
      BY <2>1, <2>3 DEF Last
    <3>2. \A s \in SourcesIn(C) : Append(s, c) \in SourcesIn(C)
      BY DEF SourcesIn
    <3> QED
      BY <1>1, <2>3, <3>1, <3>2 DEF NextSource
  <2> QED
    BY <2>2, <2>3
<1>3. PICK ty, na : ty = ParsedType(source) /\ na = ParsedName(source)
  OBVIOUS
<1>4. PICK f : f = [type |-> ty, name |-> na, source |-> source, accepted_in |-> NotAccepted]
  OBVIOUS
<1>5. f \in FramesIn(C, A)
  BY <1>2, <1>3, <1>4 DEF FramesIn
<1>6. SourcesLeft(r) = <<>>
  BY DEF SourcesLeft, Front, ReadersIn
<1>7. PICK t : t = ParsedStatus(source, r.statements # <<>>)
  OBVIOUS
<1>8. t \in Statuses
  BY <1>7, ParsedStatusIn
<1>9. q = [statements |-> Append(r.statements, f), next_sources |-> <<>>, status |-> t]
  BY <1>1, <1>3, <1>4, <1>6, <1>7, Zenon DEF ReadNext
<1>10. r.statements \in Seq(FramesIn(C, A))
  BY DEF ReadersIn
<1>11. IsRead(q, r, C, A) /\ Top(q) = f /\ q.status = t
  BY <1>5, <1>8, <1>9, <1>10 DEF IsRead, ReadersIn, Top, Last
<1>12. f.type = ty /\ f.name = na /\ f.source = source /\ f.accepted_in = NotAccepted
  BY <1>4
<1> QED
  BY <1>1, <1>2, <1>3, <1>7, <1>11, <1>12 DEF JustRead

(* Reader p is r, but for its status and what it has rewound.              *)
IsBack(p, r, sources, status, C, A) ==
  /\ p = [statements |-> r.statements, next_sources |-> sources, status |-> status]
  /\ p \in ReadersIn(C, A)

LEMMA TopPopped ==
  ASSUME NEW C, NEW A, NEW r \in ReadersIn(C, A), NEW q, IsRead(q, r, C, A)
  PROVE  IsBack(PopDiscard(q), r, <<>>, q.status, C, A)
<1>1. PICK a, t : q = [statements |-> a, next_sources |-> <<>>, status |-> t]
  BY DEF IsRead, ReadersIn
<1>2. /\ a \in Seq(FramesIn(C, A)) /\ t \in Statuses
      /\ r.statements \in Seq(FramesIn(C, A))
      /\ Len(a) = Len(r.statements) + 1
      /\ \A i \in 1 .. Len(r.statements) : a[i] = r.statements[i]
  BY <1>1 DEF IsRead, ReadersIn
<1>3. SubSeq(a, 1, Len(a) - 1) = r.statements
  BY <1>2
<1>4. PICK p : p = PopDiscard(q)
  OBVIOUS
<1>5. p = [statements |-> r.statements, next_sources |-> <<>>, status |-> t]
  BY <1>1, <1>3, <1>4 DEF PopDiscard, Popped
<1>6. [statements |-> r.statements, next_sources |-> <<>>, status |-> t] \in ReadersIn(C, A)
  BY <1>2 DEF ReadersIn
<1>7. q.status = t
  BY <1>1
<1> QED
  BY <1>4, <1>5, <1>6, <1>7, Zenon DEF IsBack

LEMMA TopIs ==
  ASSUME NEW C, NEW A, NEW r \in ReadersIn(C, A), NEW q, IsRead(q, r, C, A)
  PROVE  Top(q) = q.statements[Len(r.statements) + 1] /\ Top(q) \in FramesIn(C, A)
<1>1. q.statements \in Seq(FramesIn(C, A)) /\ r.statements \in Seq(FramesIn(C, A))
  BY DEF IsRead, ReadersIn
<1>2. Len(q.statements) = Len(r.statements) + 1
  BY DEF IsRead
<1> QED
  BY <1>1, <1>2 DEF Top, Last

LEMMA TopRewound ==
  ASSUME NEW C, NEW A, NEW r \in ReadersIn(C, A), NEW q, IsRead(q, r, C, A)
  PROVE  IsBack(PopRewind(q), r, <<Top(q).source>>, q.status, C, A)
<1>1. PICK p : p = PopDiscard(q)
  OBVIOUS
<1>2. /\ p = [statements |-> r.statements, next_sources |-> <<>>, status |-> q.status]
      /\ p \in ReadersIn(C, A)
  BY <1>1, TopPopped DEF IsBack
<1>3. Top(q).source \in SourcesIn(C)
  BY TopIs DEF FramesIn
<1>4. PICK s : s = Top(q).source
  OBVIOUS
<1>5. PopRewind(q) = [p EXCEPT !.next_sources = Append(@, s)]
  BY <1>1, <1>4, Zenon DEF PopRewind, PopDiscard
<1>6. PopRewind(q) = [statements |-> r.statements, next_sources |-> <<s>>,
                      status |-> q.status]
  BY <1>2, <1>5
<1>7. <<s>> \in Seq(SourcesIn(C))
  BY <1>3, <1>4
<1>8. PopRewind(q) \in ReadersIn(C, A)
  BY <1>2, <1>6, <1>7 DEF ReadersIn
<1> QED
  BY <1>4, <1>6, <1>8 DEF IsBack

(* Reader p is q with its innermost statement accepted in package x.       *)
IsAccepted(p, q, r, x, C, A) ==
  /\ IsRead(p, r, C, A) /\ p.status = q.status
  /\ Top(p).accepted_in = x /\ Top(p).source = Top(q).source
  /\ Top(p).type = Top(q).type /\ Top(p).name = Top(q).name

LEMMA TopAccepted ==
  ASSUME NEW C, NEW A, NEW r \in ReadersIn(C, A), NEW q, IsRead(q, r, C, A),
         NEW x \in A, NEW p, p = Accept(q, x)
  PROVE  IsAccepted(p, q, r, x, C, A)
<1>1. PICK a, t : q = [statements |-> a, next_sources |-> <<>>, status |-> t]
  BY DEF IsRead, ReadersIn
<1>2. /\ a \in Seq(FramesIn(C, A)) /\ t \in Statuses
      /\ r.statements \in Seq(FramesIn(C, A))
      /\ Len(a) = Len(r.statements) + 1 /\ Len(a) \in Nat \ {0}
      /\ \A i \in 1 .. Len(r.statements) : a[i] = r.statements[i]
  BY <1>1 DEF IsRead, ReadersIn
<1>3. PICK f : f = [a[Len(a)] EXCEPT !.accepted_in = x]
  OBVIOUS
<1>4. /\ f \in FramesIn(C, A) /\ f.accepted_in = x /\ f.source = a[Len(a)].source
      /\ f.type = a[Len(a)].type /\ f.name = a[Len(a)].name
  <2>1. a[Len(a)] \in FramesIn(C, A)
    BY <1>2
  <2> QED
    BY <1>3, <2>1 DEF FramesIn
<1>5. PICK b : b = [a EXCEPT ![Len(a)] = f]
  OBVIOUS
<1>6. /\ b \in Seq(FramesIn(C, A)) /\ Len(b) = Len(a) /\ b[Len(a)] = f
      /\ \A i \in 1 .. Len(r.statements) : b[i] = a[i]
  BY <1>2, <1>4, <1>5
<1>7. p = [statements |-> b, next_sources |-> <<>>, status |-> t]
  <2>1. q.statements = a
    BY <1>1
  <2>2. p = [q EXCEPT !.statements = [a EXCEPT ![Len(a)] =
                [a[Len(a)] EXCEPT !.accepted_in = x]]]
    BY <2>1 DEF Accept
  <2>3. p = [q EXCEPT !.statements = b]
    BY <1>3, <1>5, <2>2, Zenon
  <2> QED
    BY <1>1, <2>3
<1>8. /\ q.statements = a /\ q.status = t
      /\ p.statements = b /\ p.next_sources = <<>> /\ p.status = t
  BY <1>1, <1>7
<1>9. Top(q) = a[Len(a)] /\ Top(p) = f
  BY <1>6, <1>8 DEF Top, Last
<1>10. p \in ReadersIn(C, A)
  BY <1>2, <1>6, <1>7 DEF ReadersIn
<1>11. IsRead(p, r, C, A)
  BY <1>2, <1>6, <1>8, <1>10 DEF IsRead
<1> QED
  BY <1>4, <1>8, <1>9, <1>11 DEF IsAccepted

(* Reader p has of the statements of r the outer n.                        *)
KeepsOuter(p, r, n, C, A) ==
  /\ p \in ReadersIn(C, A) /\ p.next_sources = <<>>
  /\ n \in 0 .. Len(r.statements) /\ Len(p.statements) = n
  /\ \A i \in 1 .. n : p.statements[i] = r.statements[i]

(* Pumped, q keeps its statement only at the beginning of a block.         *)
IsPumped(p, q, r, C, A) ==
  /\ p.status = q.status
  /\ \/ q.status = "BLOCK_BEGIN" /\ p = q
     \/ q.status \in {"OK", "ASSUMED_STATEMENT_END"}
        /\ KeepsOuter(p, r, Len(r.statements), C, A)
     \/ q.status = "BLOCK_END" /\ KeepsOuter(p, r, Len(r.statements) - 1, C, A)

LEMMA TopPumped ==
  ASSUME NEW C, NEW A, NEW r \in ReadersIn(C, A), NEW q, IsRead(q, r, C, A),
         q.status # "ERROR", q.status = "BLOCK_END" => r.statements # <<>>,
         NEW p, p = PumpStatusCode(q)
  PROVE  IsPumped(p, q, r, C, A)
<1>1. PICK a, t : q = [statements |-> a, next_sources |-> <<>>, status |-> t]
  BY DEF IsRead, ReadersIn
<1>2. /\ a \in Seq(FramesIn(C, A)) /\ t \in Statuses
      /\ r.statements \in Seq(FramesIn(C, A))
      /\ Len(a) = Len(r.statements) + 1
      /\ \A i \in 1 .. Len(r.statements) : a[i] = r.statements[i]
  BY <1>1 DEF IsRead, ReadersIn
<1>3. CASE t = "BLOCK_BEGIN"
  BY <1>1, <1>3 DEF PumpStatusCode, IsPumped
<1>4. CASE t \in {"OK", "ASSUMED_STATEMENT_END"}
  <2>1. p = PopDiscard(q)
    BY <1>1, <1>4 DEF PumpStatusCode, PopDiscard
  <2>2. /\ p = [statements |-> r.statements, next_sources |-> <<>>, status |-> q.status]
        /\ p \in ReadersIn(C, A)
    BY <2>1, TopPopped DEF IsBack
  <2> QED
    BY <1>1, <1>2, <1>4, <2>2 DEF IsPumped, KeepsOuter
<1>5. CASE t = "BLOCK_END"
  <2>1. PICK b : b = SubSeq(a, 1, Len(a) - 2)
    OBVIOUS
  <2>2. Len(r.statements) \in Nat \ {0}
    BY <1>1, <1>2, <1>5
  <2>3. /\ b \in Seq(FramesIn(C, A)) /\ Len(b) = Len(r.statements) - 1
        /\ \A i \in 1 .. Len(b) : b[i] = a[i]
    BY <1>2, <2>1, <2>2
  <2>4. p = [statements |-> b, next_sources |-> <<>>, status |-> t]
    BY <1>1, <1>5, <2>1 DEF PumpStatusCode, Popped
  <2>5. p \in ReadersIn(C, A)
    <3>1. [statements |-> b, next_sources |-> <<>>, status |-> t] \in ReadersIn(C, A)
      BY <1>2, <2>3 DEF ReadersIn
    <3> QED
      BY <2>4, <3>1, Zenon
  <2>6. p.statements = b /\ p.next_sources = <<>> /\ p.status = t /\ q.status = t
    BY <1>1, <2>4
  <2>7. KeepsOuter(p, r, Len(r.statements) - 1, C, A)
    BY <1>2, <2>2, <2>3, <2>5, <2>6 DEF KeepsOuter
  <2> QED
    BY <1>5, <2>6, <2>7 DEF IsPumped
<1> QED
  BY <1>1, <1>2, <1>3, <1>4, <1>5 DEF Statuses

LEMMA EndsIn ==
  ASSUME NEW C, NEW A, NEW list \in Seq(FramesIn(C, A)), NEW e, e = EndsOf(list)
  PROVE  /\ e \in Seq(C) /\ Len(e) = Len(list)
         /\ \A i \in 1 .. Len(list) : e[i] = Last(list[i].source)
<1>1. \A i \in DOMAIN list : Last(list[i].source) \in C
  <2> SUFFICES ASSUME NEW i \in DOMAIN list PROVE Last(list[i].source) \in C
    OBVIOUS
  <2>1. list[i] \in FramesIn(C, A)
    OBVIOUS
  <2>2. PICK s : s = list[i].source
    OBVIOUS
  <2>3. s \in Seq(C) /\ s # <<>>
    BY <2>1, <2>2 DEF FramesIn, SourcesIn
  <2>4. s[Len(s)] \in C
    BY <2>3
  <2> QED
    BY <2>2, <2>4 DEF Last
<1> QED
  BY <1>1 DEF EndsOf

LEMMA SameElements ==
  ASSUME NEW T, NEW a \in Seq(T), NEW b \in Seq(T), NEW n \in Nat,
         Len(a) = n, Len(b) = n, \A i \in 1 .. n : a[i] = b[i]
  PROVE  a = b
OBVIOUS

(* A pumped stack follows the text: the chunk read last opens or closes a  *)
(* block of the stack, or neither.                                         *)
LEMMA PumpFollowsText ==
  ASSUME NEW C, NEW A, NEW r \in ReadersIn(C, A), NEW q, IsRead(q, r, C, A),
         NEW p, IsPumped(p, q, r, C, A), NEW c, c = Last(Top(q).source),
         NEW s, q.status = ParsedStatus(s, r.statements # <<>>), c = Last(s)
  PROVE  EndsOf(p.statements) = OpenedBy(EndsOf(r.statements), c)
<1>1. /\ r.statements \in Seq(FramesIn(C, A)) /\ q.statements \in Seq(FramesIn(C, A))
      /\ Len(q.statements) = Len(r.statements) + 1
      /\ \A i \in 1 .. Len(r.statements) : q.statements[i] = r.statements[i]
      /\ q.statements[Len(r.statements) + 1] = Top(q)
  BY TopIs DEF IsRead, ReadersIn
<1>2. PICK e, n : e = EndsOf(r.statements) /\ n = Len(r.statements)
  OBVIOUS
<1>3. /\ e \in Seq(C) /\ Len(e) = n /\ n \in Nat
      /\ \A i \in 1 .. n : e[i] = Last(r.statements[i].source)
  BY <1>1, <1>2, EndsIn
<1>4. PICK l : l = EndsOf(p.statements)
  OBVIOUS
<1>5. CASE q.status = "BLOCK_BEGIN"
  <2>1. p = q /\ c.end = "{"
    BY <1>5, StatusFromEnd DEF IsPumped
  <2>2. OpenedBy(e, c) = Append(e, c)
    BY <2>1 DEF OpenedBy
  <2>3. /\ l \in Seq(C) /\ Len(l) = n + 1
        /\ \A i \in 1 .. n + 1 : l[i] = Last(q.statements[i].source)
    <3>1. PICK m : m = q.statements
      OBVIOUS
    <3>2. m \in Seq(FramesIn(C, A)) /\ l = EndsOf(m) /\ Len(m) = n + 1
      BY <1>1, <1>2, <1>4, <2>1, <3>1
    <3> QED
      BY <3>1, <3>2, EndsIn
  <2>4. l[n + 1] = c /\ \A i \in 1 .. n : l[i] = e[i]
    <3>1. n + 1 \in 1 .. n + 1 /\ \A i \in 1 .. n : i \in 1 .. n + 1
      BY <1>3
    <3>2. l[n + 1] = c
      BY <1>1, <1>2, <2>3, <3>1
    <3>3. \A i \in 1 .. n : l[i] = e[i]
      BY <1>1, <1>2, <1>3, <2>3, <3>1
    <3> QED
      BY <3>2, <3>3
  <2>5. PICK a : a = Append(e, c)
    OBVIOUS
  <2>6. c \in C
    BY <1>3, <2>3, <2>4
  <2>7. /\ a \in Seq(C) /\ Len(a) = n + 1 /\ a[n + 1] = c
        /\ \A i \in 1 .. n : a[i] = e[i]
    BY <1>3, <2>5, <2>6
  <2>8. \A i \in 1 .. n + 1 : l[i] = a[i]
    <3>1. \A i \in 1 .. n + 1 : i = n + 1 \/ i \in 1 .. n
      BY <1>3
    <3> QED
      BY <2>4, <2>7, <3>1
  <2>9. l = a
    BY <1>3, <2>3, <2>7, <2>8, SameElements
  <2> QED
    BY <1>2, <1>4, <2>2, <2>5, <2>9
<1>6. CASE q.status \in {"OK", "ASSUMED_STATEMENT_END"}
  <2>1. p.statements = r.statements
    <3>1. /\ p.statements \in Seq(FramesIn(C, A))
          /\ Len(p.statements) = Len(r.statements)
          /\ \A i \in 1 .. Len(r.statements) : p.statements[i] = r.statements[i]
      BY <1>6 DEF IsPumped, KeepsOuter, ReadersIn
    <3> QED
      BY <1>1, <3>1
  <2>2. c.end \notin {"{", "}"}
    BY <1>6, StatusFromEnd
  <2> QED
    BY <1>2, <2>1, <2>2 DEF OpenedBy
<1>7. CASE q.status = "BLOCK_END"
  <2>1. c.end = "}" /\ r.statements # <<>>
    BY <1>7, StatusFromEnd
  <2>2. /\ p.statements \in Seq(FramesIn(C, A)) /\ Len(p.statements) = n - 1
        /\ \A i \in 1 .. n - 1 : p.statements[i] = r.statements[i]
    BY <1>2, <1>7 DEF IsPumped, KeepsOuter, ReadersIn
  <2>3. n # 0
    <3>1. Len(p.statements) \in Nat
      BY <2>2
    <3> QED
      BY <1>3, <2>2, <3>1
  <2>4. e # <<>>
    BY <1>3, <2>3
  <2>5. OpenedBy(e, c) = Front(e)
    <3>1. c.end # "{"
      BY <2>1
    <3> QED
      BY <2>1, <2>4, <3>1 DEF OpenedBy
  <2>6. /\ l \in Seq(C) /\ Len(l) = n - 1
        /\ \A i \in 1 .. n - 1 : l[i] = Last(p.statements[i].source)
    BY <1>4, <2>2, EndsIn
  <2>7. PICK a : a = Front(e)
    OBVIOUS
  <2>8. a \in Seq(C) /\ Len(a) = n - 1 /\ \A i \in 1 .. n - 1 : a[i] = e[i]
    BY <1>3, <2>4, <2>7, FrontIn
  <2>9. \A i \in 1 .. n - 1 : l[i] = a[i]
    BY <1>3, <2>2, <2>6, <2>8
  <2>10. n - 1 \in Nat
    BY <1>3, <2>3
  <2>11. l = a
    BY <2>6, <2>8, <2>9, <2>10, SameElements
  <2> QED
    BY <1>2, <1>4, <2>5, <2>7, <2>11
<1> QED
  BY <1>5, <1>6, <1>7 DEF IsPumped

(* What the parser says of a blank statement and of a single chunk         *)
LEMMA BlankBeginsNothing ==
  ASSUME NEW C, NEW s \in SourcesIn(C), NEW b, ParsedStatus(s, b) = "BLOCK_BEGIN"
  PROVE  ParsedType(s) # "NONE"
<1>1. Last(s).end = "{"
  BY StatusFromEnd
<1>2. Worded(s) # {}
  BY <1>1 DEF ParsedStatus
<1>3. Worded(s) \subseteq Nat
  BY DEF Worded, SourcesIn
<1>4. Min(Worded(s)) \in Worded(s)
  BY <1>2, <1>3, LeastIs
<1> QED
  BY <1>2, <1>4 DEF ParsedType, Worded

(* A statement's type and name are those of a chunk in it, if it has any.  *)
LEMMA ParsedIn ==
  ASSUME NEW C, NEW s \in SourcesIn(C)
  PROVE  /\ ParsedType(s) \in {c.type : c \in C} \cup {"NONE"}
         /\ ParsedName(s) \in {c.name : c \in C} \cup {""}
<1>1. CASE Worded(s) = {}
  BY <1>1 DEF ParsedType, ParsedName
<1>2. CASE Worded(s) # {}
  <2>1. s \in Seq(C) /\ Worded(s) \subseteq Nat
    BY DEF SourcesIn, Worded
  <2>2. PICK k : k = Min(Worded(s))
    OBVIOUS
  <2>3. k \in DOMAIN s
    BY <1>2, <2>1, <2>2, LeastIs DEF Worded
  <2>4. s[k] \in C
    BY <2>1, <2>3
  <2> QED
    BY <1>2, <2>2, <2>4 DEF ParsedType, ParsedName
<1> QED
  BY <1>1, <1>2

ChunkParses(c) == c.type \in StatementTypes /\ (c.end = "{" => c.type # "NONE")

LEMMA ChunkFails ==
  ASSUME NEW c, NEW s, s = <<c>>, ParsedStatus(s, TRUE) = "ERROR"
  PROVE  ~ChunkParses(c)
<1>1. DOMAIN s = {1} /\ s[1] = c /\ Last(s) = c
  BY DEF Last
<1>2. CASE c.type = "NONE"
  <2>1. Worded(s) = {}
    BY <1>1, <1>2 DEF Worded
  <2>2. Cardinality(Worded(s)) = 0
    BY <2>1, FS_EmptySet
  <2>3. ParsedType(s) = "NONE"
    BY <2>1 DEF ParsedType
  <2>4. ParsedType(s) \in StatementTypes /\ ~(Cardinality(Worded(s)) > 1)
    BY <2>2, <2>3 DEF StatementTypes
  <2>5. c.end = "{"
    BY <1>1, <2>4 DEF ParsedStatus
  <2> QED
    BY <1>2, <2>5 DEF ChunkParses
<1>3. CASE c.type # "NONE"
  <2>1. Worded(s) = {1}
    BY <1>1, <1>3 DEF Worded
  <2>2. Cardinality(Worded(s)) = 1
    BY <2>1, FS_Singleton
  <2>3. Min(Worded(s)) = 1
    BY <2>1, LeastIs
  <2>4. ParsedType(s) = c.type
    BY <1>1, <2>1, <2>3 DEF ParsedType
  <2>5. ~(Cardinality(Worded(s)) > 1)
    BY <2>2
  <2> QED
    BY <1>1, <2>1, <2>4, <2>5 DEF ParsedStatus, ChunkParses
<1> QED
  BY <1>2, <1>3

-----------------------------------------------------------------------------
(* Readers of a text that is given whole                                   *)

(* What is left of the whole text begins after this place.                 *)
Place(whole, t) == Len(whole) - Len(t)

(* Reader r has come to this place: it has rewound nothing, or the last    *)
(* chunk alone.                                                            *)
LeftOf(t, whole, C) ==
  /\ whole \in Seq(C) /\ t \in Seq(C) /\ Len(t) <= Len(whole)
  /\ \A i \in 1 .. Len(t) : t[i] = whole[Place(whole, t) + i]
NoBlockEnd(c) == c.end \notin {"{", "}"}
AtPlace(r, t, whole, C, A) ==
  /\ r \in ReadersIn(C, A) /\ LeftOf(t, whole, C)
  /\ \/ r.next_sources = <<>>
     \/ /\ Place(whole, t) # 0
        /\ r.next_sources = <<<<whole[Place(whole, t)]>>>>
        /\ r.status = "ASSUMED_STATEMENT_END" => NoBlockEnd(whole[Place(whole, t)])

(* How much of the text it has read and not rewound                        *)
Taken(r, t, whole) ==
  IF r.next_sources = <<>> THEN Place(whole, t) ELSE Place(whole, t) - 1

OpenIn(whole, n) == OpenBlocks(SubSeq(whole, 1, n))

(* The next chunk of the stream, and what the stream holds after a read    *)
ChunkNext(t) == IF t = <<>> THEN EndOfText ELSE Head(t)
TextAfter(r, t) == IF ReadsStream(r) /\ t # <<>> THEN Tail(t) ELSE t

LEMMA OpenInNext ==
  ASSUME NEW C, NEW whole \in Seq(C), NEW n \in Nat, n + 1 <= Len(whole)
  PROVE  OpenIn(whole, n + 1) = OpenedBy(OpenIn(whole, n), whole[n + 1])
<1>1. PICK c : c = whole[n + 1]
  OBVIOUS
<1>2. PICK a : a = SubSeq(whole, 1, n)
  OBVIOUS
<1>3. c \in C /\ a \in Seq(C)
  BY <1>1, <1>2
<1>4. SubSeq(whole, 1, n + 1) = Append(a, c)
  BY <1>1, <1>2
<1>5. OpenBlocks(Append(a, c)) = OpenedBy(OpenBlocks(a), c)
  BY <1>3, OpenBlocksAppend
<1> QED
  BY <1>1, <1>2, <1>4, <1>5, Zenon DEF OpenIn

LEMMA NeutralOpens ==
  ASSUME NEW open, NEW c, NoBlockEnd(c)
  PROVE  OpenedBy(open, c) = open
BY DEF OpenedBy, NoBlockEnd

LEMMA LeftIsSuffix ==
  ASSUME NEW C, NEW whole, NEW t, LeftOf(t, whole, C)
  PROVE  IsSuffix(t, whole)
<1>1. PICK n \in Nat, k \in Nat : n = Len(t) /\ Len(whole) = k + n /\ k = Place(whole, t)
  <2>1. Len(t) \in Nat /\ Len(whole) \in Nat /\ Len(t) <= Len(whole)
    BY DEF LeftOf
  <2>2. Place(whole, t) \in Nat /\ Len(whole) = Place(whole, t) + Len(t)
    BY <2>1 DEF Place
  <2> QED
    BY <2>1, <2>2
<1>2. t \in Seq(C) /\ whole \in Seq(C) /\ \A i \in 1 .. n : t[i] = whole[k + i]
  BY <1>1 DEF LeftOf
<1>3. PICK a, b : a = Reverse(t) /\ b = Reverse(whole)
  OBVIOUS
<1>4. /\ a \in Seq(C) /\ Len(a) = n /\ \A i \in 1 .. n : a[i] = t[(n - i) + 1]
      /\ b \in Seq(C) /\ Len(b) = k + n
      /\ \A i \in 1 .. k + n : b[i] = whole[((k + n) - i) + 1]
  <2>1. \A i \in 1 .. n : (n - i) + 1 \in 1 .. n
    BY <1>1
  <2>2. \A i \in 1 .. k + n : ((k + n) - i) + 1 \in 1 .. k + n
    BY <1>1
  <2>3. a = [i \in 1 .. n |-> t[(n - i) + 1]]
    BY <1>1, <1>3 DEF Reverse
  <2>4. a \in [1 .. n -> C] /\ \A i \in 1 .. n : a[i] = t[(n - i) + 1]
    BY <1>1, <1>2, <2>1, <2>3
  <2>5. b = [i \in 1 .. k + n |-> whole[((k + n) - i) + 1]]
    BY <1>1, <1>3 DEF Reverse
  <2>6. /\ b \in [1 .. k + n -> C]
        /\ \A i \in 1 .. k + n : b[i] = whole[((k + n) - i) + 1]
    BY <1>1, <1>2, <2>2, <2>5
  <2>7. k + n \in Nat
    BY <1>1
  <2> QED
    BY <2>4, <2>6, <2>7
<1>5. ASSUME NEW i \in 1 .. n
      PROVE  a[i] = b[i]
  <2>1. (n - i) + 1 \in 1 .. n /\ k + ((n - i) + 1) = ((k + n) - i) + 1 /\ i \in 1 .. k + n
    BY <1>1
  <2>2. a[i] = t[(n - i) + 1] /\ b[i] = whole[((k + n) - i) + 1]
    BY <1>4, <2>1
  <2>3. t[(n - i) + 1] = whole[k + ((n - i) + 1)]
    BY <1>2, <2>1
  <2> QED
    BY <2>1, <2>2, <2>3
<1>6. SubSeq(a, 1, n) = SubSeq(b, 1, n)
  <2>1. n <= Len(a) /\ n <= Len(b)
    BY <1>1, <1>4
  <2>2. PICK u, v : u = SubSeq(a, 1, n) /\ v = SubSeq(b, 1, n)
    OBVIOUS
  <2>3. /\ u \in Seq(C) /\ Len(u) = n /\ \A i \in 1 .. n : u[i] = a[i]
        /\ v \in Seq(C) /\ Len(v) = n /\ \A i \in 1 .. n : v[i] = b[i]
    BY <1>1, <1>4, <2>1, <2>2
  <2>4. u = v
    BY <1>5, <2>3, SameElements
  <2> QED
    BY <2>2, <2>4
<1> QED
  BY <1>1, <1>3, <1>4, <1>6 DEF IsSuffix, IsPrefix

(* A read goes on to the place after the chunks it reads.  The last of its *)
(* source is the only one that opens a block or ends one.                  *)
ReadsTo(q, r, t, next, whole, C, A) ==
  /\ JustRead(q, r, ChunkNext(t), C, A) /\ LeftOf(next, whole, C)
  /\ Taken(r, t, whole) \in Nat /\ Taken(r, t, whole) < Place(whole, next)
  /\ OpenIn(whole, Place(whole, next))
       = OpenedBy(OpenIn(whole, Taken(r, t, whole)), Last(Top(q).source))
  /\ r.next_sources = <<>>
       => /\ Place(whole, next) = Taken(r, t, whole) + 1
          /\ Top(q).source = <<whole[Place(whole, next)]>>

LEMMA TailLeft ==
  ASSUME NEW C, NEW whole, NEW t, LeftOf(t, whole, C), t # <<>>
  PROVE  /\ LeftOf(Tail(t), whole, C) /\ Place(whole, Tail(t)) = Place(whole, t) + 1
         /\ Head(t) = whole[Place(whole, t) + 1] /\ Head(t) \in C
         /\ Place(whole, t) \in Nat /\ Place(whole, t) + 1 <= Len(whole)
<1>1. Len(t) \in Nat \ {0} /\ Len(whole) \in Nat
  BY EmptySeq DEF LeftOf
<1>2. PICK u : u = Tail(t)
  OBVIOUS
<1>3. u \in Seq(C) /\ Len(u) = Len(t) - 1 /\ \A i \in 1 .. Len(u) : u[i] = t[i + 1]
  BY <1>1, <1>2 DEF LeftOf
<1>4. Place(whole, u) = Place(whole, t) + 1
  BY <1>1, <1>3 DEF Place
<1>5. \A i \in 1 .. Len(u) : u[i] = whole[Place(whole, u) + i]
  <2> SUFFICES ASSUME NEW i \in 1 .. Len(u) PROVE u[i] = whole[Place(whole, u) + i]
    OBVIOUS
  <2>1. i + 1 \in 1 .. Len(t) /\ u[i] = t[i + 1]
    BY <1>1, <1>3
  <2>2. PICK j : j = i + 1 /\ j \in 1 .. Len(t)
    BY <2>1
  <2>3. t[j] = whole[Place(whole, t) + j]
    BY <2>2 DEF LeftOf
  <2>4. Place(whole, t) + j = Place(whole, u) + i
    BY <1>1, <1>4, <2>2 DEF Place
  <2> QED
    BY <2>1, <2>2, <2>3, <2>4
<1>6. LeftOf(u, whole, C)
  BY <1>1, <1>3, <1>5 DEF LeftOf
<1>7. Head(t) = t[1] /\ t[1] \in C /\ t[1] = whole[Place(whole, t) + 1]
  BY <1>1 DEF LeftOf
<1>8. Place(whole, t) \in Nat /\ Place(whole, t) + 1 <= Len(whole)
  BY <1>1 DEF LeftOf, Place
<1> QED
  BY <1>2, <1>4, <1>6, <1>7, <1>8

LEMMA ReadOn ==
  ASSUME NEW C, NEW A, NotAccepted \in A, EndOfText \in C,
         NEW r, NEW t, NEW whole, AtPlace(r, t, whole, C, A),
         CanReadNext(r, t # <<>>),
         NEW q, q = ReadNext(r, ChunkNext(t)),
         NEW next, next = TextAfter(r, t)
  PROVE  ReadsTo(q, r, t, next, whole, C, A)
<1>1. PICK c : c = ChunkNext(t)
  OBVIOUS
<1>2. PICK k : k = Place(whole, t)
  OBVIOUS
<1>3. k \in Nat /\ k <= Len(whole) /\ Len(whole) \in Nat /\ whole \in Seq(C)
  BY <1>2 DEF AtPlace, LeftOf, Place
<1>4. t # <<>> => /\ LeftOf(Tail(t), whole, C) /\ Place(whole, Tail(t)) = k + 1
                  /\ c = whole[k + 1] /\ c \in C /\ k + 1 <= Len(whole)
  BY <1>1, <1>2, TailLeft DEF AtPlace, ChunkNext
<1>5. c \in C /\ (t = <<>> => c = EndOfText)
  BY <1>1, <1>4 DEF ChunkNext
<1>6. r \in ReadersIn(C, A) /\ Len(r.next_sources) <= 1 /\ LeftOf(t, whole, C)
  <2>1. PICK x : r.next_sources = <<>> \/ r.next_sources = <<x>>
    BY DEF AtPlace
  <2>2. Len(<<>>) = 0 /\ Len(<<x>>) = 1
    OBVIOUS
  <2>3. Len(r.next_sources) = 0 \/ Len(r.next_sources) = 1
    BY <2>1, <2>2, Zenon
  <2>4. Len(r.next_sources) <= 1
    <3>1. PICK n : n = Len(r.next_sources)
      OBVIOUS
    <3>2. n \in {0, 1}
      BY <2>3, <3>1
    <3>3. n <= 1
      BY <3>2
    <3> QED
      BY <3>1, <3>3, Zenon
  <2>5. r \in ReadersIn(C, A) /\ LeftOf(t, whole, C)
    BY DEF AtPlace
  <2> QED
    BY <2>4, <2>5
<1>7. JustRead(q, r, c, C, A)
  BY <1>1, <1>5, <1>6, ReadNextReads
<1>8. Top(q).source = NextSource(r, c)
  BY <1>7 DEF JustRead
<1>9. CASE r.next_sources = <<>>
  <2>1. t # <<>> /\ next = Tail(t) /\ NextSource(r, c) = <<c>>
    BY <1>9 DEF CanReadNext, TextAfter, ReadsStream, NextSource
  <2>2. Taken(r, t, whole) = k
    BY <1>2, <1>9 DEF Taken
  <2>3. Last(<<c>>) = c
    BY DEF Last
  <2>4. OpenIn(whole, k + 1) = OpenedBy(OpenIn(whole, k), c)
    BY <1>3, <1>4, <2>1, OpenInNext
  <2> QED
    BY <1>1, <1>3, <1>4, <1>7, <1>8, <2>1, <2>2, <2>3, <2>4 DEF ReadsTo
<1>10. CASE r.next_sources # <<>>
  <2>1. PICK d : d = whole[k]
    OBVIOUS
  <2>2. /\ k # 0 /\ r.next_sources = <<<<d>>>> /\ Last(r.next_sources) = <<d>>
        /\ r.status = "ASSUMED_STATEMENT_END" => NoBlockEnd(d)
    BY <1>2, <1>10, <2>1 DEF AtPlace, Last
  <2>3. PICK m \in Nat : k = m + 1
    BY <1>3, <2>2
  <2>4. Taken(r, t, whole) = m
    BY <1>2, <1>10, <2>3 DEF Taken
  <2>5. OpenIn(whole, k) = OpenedBy(OpenIn(whole, m), d)
    BY <1>3, <2>1, <2>3, OpenInNext
  <2>6. Last(<<d>>) = d 
    BY DEF Last
  <2>7. CASE ~(ReadsStream(r) /\ t # <<>>)
    <3>1. next = t /\ NextSource(r, c) = <<d>>
      BY <1>5, <1>10, <2>2, <2>7 DEF TextAfter, NextSource
    <3>2. Last(Top(q).source) = d /\ Place(whole, next) = k
      BY <1>2, <1>8, <2>6, <3>1
    <3>3. OpenIn(whole, k) = OpenedBy(OpenIn(whole, Taken(r, t, whole)), Last(Top(q).source))
      BY <2>4, <2>5, <3>2
    <3>4. Taken(r, t, whole) \in Nat /\ Taken(r, t, whole) < k
      BY <2>3, <2>4
    <3> QED
      BY <1>1, <1>6, <1>7, <1>10, <3>1, <3>2, <3>3, <3>4 DEF ReadsTo
  <2>8. CASE ReadsStream(r) /\ t # <<>>
    <3>1. next = Tail(t) /\ NoBlockEnd(d)
      BY <1>10, <2>2, <2>8 DEF TextAfter, ReadsStream
    <3>2. OpenIn(whole, k + 1) = OpenedBy(OpenIn(whole, k), c)
      BY <1>3, <1>4, <2>8, OpenInNext
    <3>3. OpenIn(whole, k) = OpenIn(whole, m)
      BY <2>5, <3>1, NeutralOpens
    <3>4. CASE c = EndOfText
      <4>1. NextSource(r, c) = <<d>>
        BY <1>10, <2>2, <3>4 DEF NextSource
      <4>2. NoBlockEnd(c)
        BY <3>4 DEF EndOfText, NoBlockEnd
      <4>3. OpenIn(whole, k + 1) = OpenedBy(OpenIn(whole, m), d)
        BY <2>5, <3>2, <4>2, NeutralOpens
      <4> QED
        BY <1>1, <1>4, <1>7, <1>8, <1>10, <2>3, <2>4, <2>6, <2>8, <3>1, <4>1, <4>3
           DEF ReadsTo
    <3>5. CASE c # EndOfText
      <4>1. Last(NextSource(r, c)) = c
        <5>1. NextSource(r, c) = Append(<<d>>, c)
          BY <1>10, <2>2, <2>8, <3>5 DEF NextSource
        <5>2. PICK l \in Seq(C) : l = <<d>>
          <6>1. k \in 1 .. Len(whole)
            BY <1>3, <2>2
          <6>2. d \in C
            BY <1>3, <2>1, <6>1
          <6>3. <<d>> \in Seq(C)
            BY <6>2
          <6> QED
            BY <6>3
        <5>3. Last(Append(l, c)) = c
          BY <1>5, <5>2 DEF Last
        <5> QED
          BY <5>1, <5>2, <5>3
      <4> QED
        BY <1>1, <1>4, <1>7, <1>8, <1>10, <2>3, <2>4, <2>6, <2>8, <3>1, <3>2, <3>3, <4>1
           DEF ReadsTo
    <3> QED
      BY <3>4, <3>5
  <2> QED
    BY <2>7, <2>8
<1> QED
  BY <1>9, <1>10

(* The statement just read, as it was read or accepted                     *)
LikeRead(q, read, r, C, A) ==
  IsRead(q, r, C, A) /\ q.status = read.status /\ Top(q).source = Top(read).source

LEMMA ReadOrAccepted ==
  ASSUME NEW C, NEW A, NEW r \in ReadersIn(C, A), NEW read, IsRead(read, r, C, A),
         NEW x \in A
  PROVE  LikeRead(read, read, r, C, A) /\ LikeRead(Accept(read, x), read, r, C, A)
<1>1. PICK p : p = Accept(read, x)
  OBVIOUS
<1>2. IsAccepted(p, read, r, x, C, A)
  BY <1>1, TopAccepted
<1> QED
  BY <1>1, <1>2 DEF LikeRead, IsAccepted

(* Pumped, the reader is at the next place, and its stack still follows    *)
(* the text if it did so.                                                  *)
PumpsTo(p, q, r, t, next, whole, C, A) ==
  /\ IsPumped(p, q, r, C, A)
  /\ AtPlace(p, next, whole, C, A) /\ p.next_sources = <<>>
  /\ EndsOf(r.statements) = OpenIn(whole, Taken(r, t, whole))
       => EndsOf(p.statements) = OpenIn(whole, Place(whole, next))

LEMMA PumpOn ==
  ASSUME NEW C, NEW A, NEW r, NEW t, NEW whole, AtPlace(r, t, whole, C, A),
         NEW read, NEW next, ReadsTo(read, r, t, next, whole, C, A),
         NEW q, LikeRead(q, read, r, C, A), q.status # "ERROR",
         NEW p, p = PumpStatusCode(q)
  PROVE  PumpsTo(p, q, r, t, next, whole, C, A)
<1>1. r \in ReadersIn(C, A) /\ IsRead(q, r, C, A) /\ LeftOf(next, whole, C)
  BY DEF AtPlace, LikeRead, ReadsTo
<1>2. PICK s : s = NextSource(r, ChunkNext(t))
  OBVIOUS
<1>3. PICK b : b = (r.statements # <<>>)
  OBVIOUS
<1>4. q.status = ParsedStatus(s, b) /\ Top(q).source = s /\ Top(read).source = s
  BY <1>2, <1>3 DEF ReadsTo, JustRead, LikeRead
<1>5. q.status = "BLOCK_END" => r.statements # <<>>
  BY <1>3, <1>4, StatusFromEnd
<1>6. IsPumped(p, q, r, C, A)
  BY <1>1, <1>5, TopPumped
<1>7. PICK c : c = Last(s)
  OBVIOUS
<1>8. EndsOf(p.statements) = OpenedBy(EndsOf(r.statements), c)
  BY <1>1, <1>3, <1>4, <1>6, <1>7, PumpFollowsText
<1>9. OpenIn(whole, Place(whole, next)) = OpenedBy(OpenIn(whole, Taken(r, t, whole)), c)
  BY <1>4, <1>7 DEF ReadsTo
<1>10. p \in ReadersIn(C, A) /\ p.next_sources = <<>>
  BY <1>1, <1>6 DEF IsPumped, KeepsOuter, IsRead
<1>11. AtPlace(p, next, whole, C, A)
  BY <1>1, <1>10 DEF AtPlace
<1> QED
  BY <1>6, <1>8, <1>9, <1>10, <1>11 DEF PumpsTo

(* A statement that does not parse is kept; the next one follows it.       *)
LEMMA KeepOn ==
  ASSUME NEW C, NEW A, NEW r, NEW t, NEW whole, AtPlace(r, t, whole, C, A),
         NEW q, NEW next, ReadsTo(q, r, t, next, whole, C, A)
  PROVE  AtPlace(q, next, whole, C, A) /\ q.next_sources = <<>>
BY DEF ReadsTo, JustRead, IsRead, AtPlace

(* Rewound, the stack and what was taken of the text are as before.        *)
RewindsTo(p, r, t, next, whole, C, A) ==
  /\ AtPlace(p, next, whole, C, A) /\ p.next_sources # <<>>
  /\ p.statements = r.statements /\ Taken(p, next, whole) = Taken(r, t, whole)

LEMMA RewindOn ==
  ASSUME NEW C, NEW A, NEW r, NEW t, NEW whole, AtPlace(r, t, whole, C, A),
         r.next_sources = <<>>,
         NEW q, NEW next, ReadsTo(q, r, t, next, whole, C, A),
         NEW p, p = PopRewind(q)
  PROVE  RewindsTo(p, r, t, next, whole, C, A)
<1>1. r \in ReadersIn(C, A) /\ IsRead(q, r, C, A)
  BY DEF AtPlace, ReadsTo, JustRead
<1>2. PICK k : k = Place(whole, next)
  OBVIOUS
<1>3. PICK c : c = whole[k]
  OBVIOUS
<1>4. /\ Top(q).source = <<c>> /\ k = Taken(r, t, whole) + 1
      /\ Taken(r, t, whole) \in Nat /\ LeftOf(next, whole, C)
  BY <1>2, <1>3 DEF ReadsTo
<1>5. PICK u : u = q.status
  OBVIOUS
<1>6. PICK w : w = <<Top(q).source>>
  OBVIOUS
<1>7. IsBack(p, r, w, u, C, A)
  BY <1>1, <1>5, <1>6, TopRewound
<1>8. /\ p.statements = r.statements /\ p.next_sources = <<<<c>>>> /\ p.status = u
      /\ p \in ReadersIn(C, A)
  BY <1>4, <1>6, <1>7 DEF IsBack
<1>9. u = "ASSUMED_STATEMENT_END" => NoBlockEnd(c)
  <2>1. PICK s : s = NextSource(r, ChunkNext(t))
    OBVIOUS
  <2>2. PICK b : b = (r.statements # <<>>)
    OBVIOUS
  <2>3. u = ParsedStatus(s, b) /\ s = <<c>>
    BY <1>4, <1>5, <2>1, <2>2 DEF ReadsTo, JustRead
  <2>4. Last(s) = c
    BY <2>3 DEF Last
  <2> QED
    BY <2>3, <2>4, StatusFromEnd DEF NoBlockEnd
<1>10. AtPlace(p, next, whole, C, A)
  <2>1. k # 0
    BY <1>4
  <2>2. /\ Place(whole, next) # 0
        /\ p.next_sources = <<<<whole[Place(whole, next)]>>>>
        /\ p.status = "ASSUMED_STATEMENT_END" => NoBlockEnd(whole[Place(whole, next)])
    BY <1>2, <1>3, <1>8, <1>9, <2>1, Zenon
  <2> QED
    BY <1>4, <1>8, <2>2, Zenon DEF AtPlace
<1> QED
  BY <1>2, <1>4, <1>8, <1>10 DEF RewindsTo, Taken

(* What a pumped reader holds it held before, but for a block just begun.  *)
HoldsOuter(p, q, r) ==
  \A i \in 1 .. Len(p.statements) :
    \/ i \in 1 .. Len(r.statements) /\ p.statements[i] = r.statements[i]
    \/ q.status = "BLOCK_BEGIN" /\ p.statements[i] = Top(q)

(* How many statements it holds                                            *)
PumpsLength(p, q, r) ==
  /\ Len(r.statements) \in Nat /\ Len(p.statements) \in Nat
  /\ Len(p.statements) <= Len(r.statements) + 1
  /\ q.status = "BLOCK_BEGIN" => Len(p.statements) = Len(r.statements) + 1
  /\ q.status = "BLOCK_END" => Len(p.statements) = Len(r.statements) - 1
  /\ q.status \in {"OK", "ASSUMED_STATEMENT_END"}
       => Len(p.statements) = Len(r.statements)

LEMMA PumpedHolds ==
  ASSUME NEW C, NEW A, NEW r \in ReadersIn(C, A), NEW q, IsRead(q, r, C, A),
         NEW p, IsPumped(p, q, r, C, A)
  PROVE  HoldsOuter(p, q, r) /\ PumpsLength(p, q, r)
<1>1. Len(r.statements) \in Nat
  BY DEF ReadersIn
<1>2. PumpsLength(p, q, r)
  BY <1>1 DEF IsRead, IsPumped, KeepsOuter, PumpsLength
<1>3. CASE q.status = "BLOCK_BEGIN"
  <2>1. p = q /\ Len(q.statements) = Len(r.statements) + 1
        /\ \A i \in 1 .. Len(r.statements) : q.statements[i] = r.statements[i]
    BY <1>3 DEF IsPumped, IsRead
  <2>2. Top(q) = q.statements[Len(r.statements) + 1]
    BY TopIs
  <2> QED
    BY <1>1, <1>2, <1>3, <2>1, <2>2 DEF HoldsOuter
<1>4. CASE q.status # "BLOCK_BEGIN"
  <2>1. PICK n \in 0 .. Len(r.statements) :
          /\ Len(p.statements) = n
          /\ \A i \in 1 .. n : p.statements[i] = r.statements[i]
    BY <1>4 DEF IsPumped, KeepsOuter
  <2> QED
    BY <1>1, <1>2, <2>1 DEF HoldsOuter
<1> QED
  BY <1>2, <1>3, <1>4
=============================================================================
