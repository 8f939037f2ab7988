----------------------------- MODULE FoldLemmas -----------------------------
(***************************************************************************)
(* What a left fold of any operator computes: the last of the values that  *)
(* start with the base and take in one element after the other.  A module  *)
(* that folds instantiates this one with its operator.                     *)
(***************************************************************************)
EXTENDS Sequences, Folds, WellFoundedInduction, TLAPS

CONSTANT op(_, _)

\* The greatest of a set, as FiniteSetsExt has it.
Greatest(s) == CHOOSE x \in s : \A y \in s : x >= y

\* FoldLeft of SequencesExt, written out.
Fold(base, seq) ==
    MapThenFoldSet(LAMBDA x, y : op(y, x), base, LAMBDA i : seq[i], LAMBDA s : Greatest(s),
                   DOMAIN seq)

\* A set of naturals that has 0 and every successor has them all.
LEMMA Induction ==
    ASSUME NEW S \in SUBSET Nat, 0 \in S, \A n \in S : n + 1 \in S
    PROVE  S = Nat
<1> SUFFICES ASSUME S # Nat PROVE FALSE
  OBVIOUS
<1> DEFINE T == Nat \ S
<1>1. T # {} /\ T \subseteq Nat
  OBVIOUS
<1>2. PICK x \in T : \A y \in T : ~(<<y, x>> \in OpToRel(<, Nat))
  BY <1>1, WFMin, NatLessThanWellFounded
<1>3. x # 0 /\ x - 1 \in Nat
  OBVIOUS
<1>4. x - 1 \in T
  <2>1. x - 1 \notin S
    BY <1>3
  <2> QED BY <1>3, <2>1
<1>5. <<x - 1, x>> \in OpToRel(<, Nat)
  BY <1>3 DEF OpToRel
<1> QED BY <1>2, <1>4, <1>5

\* A set of numbers up to n has a greatest.
LEMMA MaxUpTo ==
    ASSUME NEW n \in Nat, NEW s \in SUBSET (1 .. n), s # {}
    PROVE  Greatest(s) \in s /\ \A y \in s : Greatest(s) >= y
<1> DEFINE S == {k \in Nat : \A t \in SUBSET (1 .. k) : t # {} => \E x \in t : \A y \in t : x >= y}
<1>1. 0 \in S
  <2>1. \A t \in SUBSET (1 .. 0) : t = {}
    OBVIOUS
  <2> QED BY <2>1
<1>2. \A k \in S : k + 1 \in S
  <2> SUFFICES ASSUME NEW k \in S, NEW t \in SUBSET (1 .. k + 1), t # {}
               PROVE  \E x \in t : \A y \in t : x >= y
    OBVIOUS
  <2>1. CASE k + 1 \in t
    BY <2>1
  <2>2. CASE k + 1 \notin t
    <3>1. t \in SUBSET (1 .. k)
      BY <2>2
    <3> QED BY <3>1
  <2> QED BY <2>1, <2>2
<1>3. S = Nat
  <2> HIDE DEF S
  <2>1. S \in SUBSET Nat
    BY DEF S
  <2> QED BY <1>1, <1>2, <2>1, Induction
<1>4. \E x \in s : \A y \in s : x >= y
  BY <1>3
<1> QED BY <1>4 DEF Greatest

\* The function that the definition of a left fold chooses is there.
IsIter(f, base, seq, n) ==
    f = [s \in SUBSET (1 .. n) |-> IF s = {} THEN base ELSE op(f[s \ {Greatest(s)}], seq[Greatest(s)])]

LEMMA IterExists ==
    ASSUME NEW base, NEW seq, NEW n \in Nat
    PROVE  \E f : IsIter(f, base, seq, n)
<1> DEFINE Good(f, k) == f = [s \in SUBSET (1 .. k) |->
                                IF s = {} THEN base ELSE op(f[s \ {Greatest(s)}], seq[Greatest(s)])]
           S == {k \in Nat : \E f : Good(f, k)}
<1>1. 0 \in S
  <2> DEFINE f == [s \in SUBSET (1 .. 0) |-> base]
  <2>1. \A s \in SUBSET (1 .. 0) : s = {}
    OBVIOUS
  <2>2. Good(f, 0)
    BY <2>1
  <2> QED BY <2>2
<1>2. \A k \in S : k + 1 \in S
  <2> SUFFICES ASSUME NEW k \in Nat, \E f : Good(f, k) PROVE \E g : Good(g, k + 1)
    <3> HIDE DEF Good
    <3> QED OBVIOUS
  <2>1. PICK f : Good(f, k)
    OBVIOUS
  <2> DEFINE g == [s \in SUBSET (1 .. k + 1) |->
                     IF k + 1 \in s THEN op(f[s \ {k + 1}], seq[k + 1]) ELSE f[s]]
  <2>2. ASSUME NEW s \in SUBSET (1 .. k + 1)
        PROVE  g[s] = IF s = {} THEN base ELSE op(g[s \ {Greatest(s)}], seq[Greatest(s)])
    <3>1. CASE k + 1 \in s
      <4>1. Greatest(s) \in s /\ \A y \in s : Greatest(s) >= y
        BY <3>1, MaxUpTo, k + 1 \in Nat
      <4>2. Greatest(s) = k + 1
        <5>1. Greatest(s) \in 1 .. k + 1 /\ Greatest(s) >= k + 1
          BY <3>1, <4>1
        <5> HIDE DEF Greatest
        <5> QED BY <5>1
      <4>3. s \ {k + 1} \in SUBSET (1 .. k + 1) /\ k + 1 \notin s \ {k + 1}
        OBVIOUS
      <4>4. g[s \ {k + 1}] = f[s \ {k + 1}]
        BY <4>3
      <4> QED BY <3>1, <4>2, <4>4
    <3>2. CASE k + 1 \notin s
      <4>1. s \in SUBSET (1 .. k)
        BY <3>2
      <4>2. f[s] = IF s = {} THEN base ELSE op(f[s \ {Greatest(s)}], seq[Greatest(s)])
        BY <2>1, <4>1
      <4>3. s \ {Greatest(s)} \in SUBSET (1 .. k + 1) /\ k + 1 \notin s \ {Greatest(s)}
        BY <3>2
      <4>4. g[s] = f[s] /\ g[s \ {Greatest(s)}] = f[s \ {Greatest(s)}]
        BY <3>2, <4>3
      <4> QED BY <4>2, <4>4
    <3> QED BY <3>1, <3>2
  <2>3. Good(g, k + 1)
    <3> HIDE DEF g
    <3>1. g = [s \in SUBSET (1 .. k + 1) |-> g[s]]
      BY DEF g
    <3> QED BY <2>2, <3>1, Zenon
  <2> QED BY <2>3
<1>3. S = Nat
  <2> HIDE DEF S
  <2>1. S \in SUBSET Nat
    BY DEF S
  <2> QED BY <1>1, <1>2, <2>1, Induction
<1> QED BY <1>3 DEF IsIter


\* A left fold, unrolled.
THEOREM FoldLeftUnrolls ==
    ASSUME NEW base, NEW n \in Nat, NEW seq, DOMAIN seq = 1 .. n
    PROVE  \E g : /\ g[0] = base
                  /\ \A k \in 1 .. n : g[k] = op(g[k - 1], seq[k])
                  /\ Fold(base, seq) = g[n]
<1> DEFINE it == CHOOSE f : IsIter(f, base, seq, n)
           g == [k \in 0 .. n |-> it[1 .. k]]
<1>1. IsIter(it, base, seq, n)
  BY IterExists, Zenon
<1>2. Fold(base, seq) = it[1 .. n]
  BY DEF Fold, MapThenFoldSet, IsIter
<1>3. \A s \in SUBSET (1 .. n) :
        it[s] = IF s = {} THEN base ELSE op(it[s \ {Greatest(s)}], seq[Greatest(s)])
  <2> HIDE DEF it
  <2> QED BY <1>1 DEF IsIter
<1> HIDE DEF it
<1>4. g[0] = base
  <2>1. 1 .. 0 = {} /\ 0 \in 0 .. n
    OBVIOUS
  <2>2. it[{}] = base
    BY <1>3
  <2> QED BY <2>1, <2>2
<1>5. ASSUME NEW k \in 1 .. n PROVE g[k] = op(g[k - 1], seq[k])
  <2>1. 1 .. k \in SUBSET (1 .. n) /\ 1 .. k # {}
    <3>1. 1 \in 1 .. k
      OBVIOUS
    <3>2. 1 .. k # {}
      BY <3>1
    <3>3. 1 .. k \subseteq 1 .. n
      OBVIOUS
    <3> QED BY <3>2, <3>3
  <2>2. Greatest(1 .. k) = k
    <3>1. Greatest(1 .. k) \in 1 .. k /\ \A y \in 1 .. k : Greatest(1 .. k) >= y
      BY <2>1, MaxUpTo
    <3> QED BY <3>1
  <2>3. (1 .. k) \ {k} = 1 .. (k - 1)
    OBVIOUS
  <2>4. it[1 .. k] = op(it[1 .. (k - 1)], seq[k])
    BY <1>3, <2>1, <2>2, <2>3
  <2>5. k \in 0 .. n /\ k - 1 \in 0 .. n
    OBVIOUS
  <2> QED BY <2>4, <2>5
<1>6. g[n] = it[1 .. n]
  OBVIOUS
<1> HIDE DEF g
<1> QED BY <1>2, <1>4, <1>5, <1>6

\* A fold of nothing.
THEOREM FoldLeftOfNothing == ASSUME NEW base PROVE Fold(base, <<>>) = base
<1> DEFINE none == <<>>
           n == 0
<1>1. DOMAIN none = 1 .. n /\ n \in Nat
  OBVIOUS
<1> HIDE DEF none, n
<1>2. PICK g : /\ g[0] = base
               /\ \A k \in 1 .. n : g[k] = op(g[k - 1], none[k])
               /\ Fold(base, none) = g[n]
  BY <1>1, FoldLeftUnrolls
<1> QED BY <1>2 DEF none, n

\* A left fold takes the last element in last.
THEOREM FoldLeftAppends ==
    ASSUME NEW base, NEW T, NEW seq \in Seq(T), NEW x \in T
    PROVE  Fold(base, Append(seq, x)) = op(Fold(base, seq), x)
<1> DEFINE n == Len(seq)
           more == Append(seq, x)
<1>1. n \in Nat /\ DOMAIN seq = 1 .. n /\ DOMAIN more = 1 .. n + 1
  OBVIOUS
<1>2. (\A k \in 1 .. n : more[k] = seq[k]) /\ more[n + 1] = x
  OBVIOUS
<1> HIDE DEF n, more
<1>3. PICK g : /\ g[0] = base
               /\ \A k \in 1 .. n : g[k] = op(g[k - 1], seq[k])
               /\ Fold(base, seq) = g[n]
  BY <1>1, FoldLeftUnrolls
<1>4. PICK h : /\ h[0] = base
               /\ \A k \in 1 .. n + 1 : h[k] = op(h[k - 1], more[k])
               /\ Fold(base, more) = h[n + 1]
  <2>1. n + 1 \in Nat
    BY <1>1
  <2> QED BY <1>1, <2>1, FoldLeftUnrolls
<1> DEFINE S == {k \in Nat : k <= n => h[k] = g[k]}
<1>5. 0 \in S
  BY <1>3, <1>4
<1>6. ASSUME NEW k \in S PROVE k + 1 \in S
  <2> SUFFICES ASSUME k + 1 <= n PROVE h[k + 1] = g[k + 1]
    OBVIOUS
  <2>1. k \in Nat /\ k + 1 \in 1 .. n /\ k + 1 \in 1 .. n + 1 /\ (k + 1) - 1 = k /\ k <= n
    BY <1>1
  <2>2. h[k] = g[k]
    BY <2>1
  <2>3. h[k + 1] = op(h[k], more[k + 1]) /\ g[k + 1] = op(g[k], seq[k + 1])
    BY <1>3, <1>4, <2>1
  <2> QED BY <1>2, <2>1, <2>2, <2>3
<1>7. S = Nat
  <2>1. S \in SUBSET Nat
    OBVIOUS
  <2> HIDE DEF S
  <2> QED BY <1>5, <1>6, <2>1, Induction
<1>8. h[n] = g[n]
  BY <1>1, <1>7
<1>9. h[n + 1] = op(h[n], x)
  <2>1. n + 1 \in 1 .. n + 1 /\ (n + 1) - 1 = n
    BY <1>1
  <2> QED BY <1>2, <1>4, <2>1
<1> QED BY <1>3, <1>4, <1>8, <1>9 DEF more

=============================================================================
