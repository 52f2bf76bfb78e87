----------------------------- MODULE FoldFacts -----------------------------
(***************************************************************************)
(* What a fold computes, by induction on the sequence.  The operators that *)
(* are folded are constants: a module about a fold of its own takes this   *)
(* one with INSTANCE, and cites its theorems.  It takes few modules, so    *)
(* that an instance of it stays small: the fold is written out here, with  *)
(* the definition FoldLeft of SequencesExt comes to, and a module that     *)
(* cites it shows the two equal by their definitions.                      *)
(***************************************************************************)
EXTENDS Integers, Sequences, FiniteSetTheorems, TLAPS

CONSTANTS
    Op(_, _),   \* what is folded: the value so far, and an element
    P(_, _, _)  \* what is to be shown, given something, of the value after k elements

\* A nonempty set of natural numbers has a least element (the lemma of SequenceFacts).
LEMMA LeastNumber ==
    ASSUME NEW T, T \subseteq Nat, T # {}
    PROVE  \E x \in T : \A y \in T : x <= y
<1> DEFINE R == StrictSubsetOrdering(Nat)
           UpTo == {1..m : m \in T}
<1>1. \A m \in T : 1..m \in FiniteSubsetsOf(Nat)
  BY FS_Interval DEF FiniteSubsetsOf
<1>2. UpTo \subseteq FiniteSubsetsOf(Nat) /\ UpTo # {}
  BY <1>1
<1>3. IsWellFoundedOn(R, FiniteSubsetsOf(Nat))
  BY FS_StrictSubsetOrderingWellFounded
<1> HIDE DEF R
<1>4. PICK b \in UpTo : \A a \in UpTo : ~(<<a, b>> \in R)
  BY <1>2, <1>3, WFMin
<1>5. PICK x \in T : b = 1..x
  BY <1>4
<1>6. ASSUME NEW y \in T, y < x PROVE FALSE
  <2>1. 1..y \subseteq 1..x /\ x \in 1..x /\ x \notin 1..y
    BY <1>6
  <2>2. <<1..y, 1..x>> \in R
    BY <2>1 DEF R, StrictSubsetOrdering
  <2> QED BY <2>2, <1>4, <1>5, <1>6
<1> QED BY <1>6

-----------------------------------------------------------------------------

\* The fold of Op over a sequence, from its last element down: what
\* FoldLeft(Op, base, s) is.
Greatest(r) == CHOOSE x \in r : \A y \in r : x >= y
Fold(base, s) ==
    LET iter[r \in SUBSET DOMAIN s] ==
            IF r = {} THEN base
            ELSE LET x == Greatest(r) IN Op(iter[r \ {x}], s[x])
    IN  iter[DOMAIN s]

\* A number that is what the function of a fold is: defined on the subsets of 1..m.
Iterates(f, m, s, base) ==
    f = [r \in SUBSET (1..m) |->
            IF r = {} THEN base ELSE Op(f[r \ {Greatest(r)}], s[Greatest(r)])]

\* A nonempty set of numbers up to m has a greatest.
LEMMA GreatestNumber ==
    ASSUME NEW m \in Nat, NEW r \in SUBSET (1..m), r # {}
    PROVE  Greatest(r) \in r /\ \A y \in r : Greatest(r) >= y
<1> DEFINE T == {m - x : x \in r}
<1>1. T \subseteq Nat /\ T # {}
  <2>1. \A x \in r : m - x \in Nat
    OBVIOUS
  <2> QED BY <2>1
<1>2. PICK t \in T : \A u \in T : t <= u
  BY <1>1, LeastNumber
<1>3. PICK x \in r : t = m - x
  BY <1>2
<1>4. \A y \in r : x >= y
  BY <1>2, <1>3
<1> QED BY <1>3, <1>4 DEF Greatest

\* Such a function exists...
LEMMA IterateExists ==
    ASSUME NEW n \in Nat, NEW s, NEW base
    PROVE  \E f : Iterates(f, n, s, base)
<1> DEFINE Without == {m \in 0..n : ~\E f : Iterates(f, m, s, base)}
<1>1. SUFFICES ASSUME Without # {} PROVE FALSE
  OBVIOUS
<1>2. PICK m \in Without : \A k \in Without : m <= k
  <2>1. Without \subseteq Nat
    OBVIOUS
  <2> QED BY <1>1, <2>1, LeastNumber
<1>3. CASE m = 0
  <2> DEFINE f == [r \in SUBSET (1..0) |-> base]
  <2>1. \A r \in SUBSET (1..0) : r = {}
    OBVIOUS
  <2>2. Iterates(f, 0, s, base)
    BY <2>1 DEF Iterates
  <2> QED BY <1>2, <1>3, <2>2
<1>4. CASE m # 0
  <2>1. m - 1 \in 0..n /\ m - 1 \notin Without
    BY <1>2, <1>4
  <2>2. PICK f : Iterates(f, m - 1, s, base)
    BY <2>1
  <2> DEFINE g == [r \in SUBSET (1..m) |->
                     IF m \in r THEN Op(f[r \ {m}], s[m]) ELSE f[r]]
  <2>3. \A r \in SUBSET (1..m) : m \in r => Greatest(r) = m /\ r \ {m} \in SUBSET (1..(m - 1))
    <3> TAKE r \in SUBSET (1..m)
    <3> HAVE m \in r
    <3>1. m \in Nat /\ r # {}
      OBVIOUS
    <3>2. Greatest(r) \in r /\ \A y \in r : Greatest(r) >= y
      BY <3>1, GreatestNumber
    <3> DEFINE x == Greatest(r)
    <3>3. x \in r /\ x \in 1..m /\ x >= m
      BY <3>2
    <3> HIDE DEF x
    <3>4. x = m
      BY <3>3
    <3>5. r \ {m} \in SUBSET (1..(m - 1))
      OBVIOUS
    <3> QED BY <3>4, <3>5 DEF x
  <2>4. \A r \in SUBSET (1..m) : m \notin r => r \in SUBSET (1..(m - 1))
    OBVIOUS
  <2>5. ASSUME NEW r \in SUBSET (1..m)
        PROVE g[r] = IF r = {} THEN base ELSE Op(g[r \ {Greatest(r)}], s[Greatest(r)])
    <3>1. CASE m \in r
      <4>1. g[r] = Op(f[r \ {m}], s[m])
        BY <3>1
      <4>2. r \ {m} \in SUBSET (1..m) /\ g[r \ {m}] = f[r \ {m}]
        OBVIOUS
      <4> QED BY <2>3, <3>1, <4>1, <4>2
    <3>2. CASE m \notin r
      <4>1. g[r] = f[r] /\ r \in SUBSET (1..(m - 1))
        BY <2>4, <3>2
      <4>2. f[r] = IF r = {} THEN base ELSE Op(f[r \ {Greatest(r)}], s[Greatest(r)])
        BY <2>2, <4>1 DEF Iterates
      <4>3. r \ {Greatest(r)} \in SUBSET (1..m) /\ m \notin r \ {Greatest(r)}
        BY <3>2
      <4>4. g[r \ {Greatest(r)}] = f[r \ {Greatest(r)}]
        BY <4>3
      <4> QED BY <4>1, <4>2, <4>4
    <3> QED BY <3>1, <3>2
  <2>6. Iterates(g, m, s, base)
    <3> DEFINE h == [r \in SUBSET (1..m) |->
                       IF r = {} THEN base ELSE Op(g[r \ {Greatest(r)}], s[Greatest(r)])]
    <3>1. \A r \in SUBSET (1..m) : g[r] = h[r]
      BY <2>5
    <3>2. g = h
      BY <3>1
    <3> QED BY <3>2 DEF Iterates
  <2> QED BY <1>2, <2>6
<1> QED BY <1>3, <1>4

\* ...and sequences that agree up to m have the same one there.
LEMMA IterateAgrees ==
    ASSUME NEW m \in Nat, NEW n \in Nat, m <= n, NEW s, NEW t, NEW base,
           \A k \in 1..m : s[k] = t[k],
           NEW f, Iterates(f, m, s, base), NEW g, Iterates(g, n, t, base)
    PROVE  f[1..m] = g[1..m]
<1> DEFINE Differ == {k \in 0..m : f[1..k] # g[1..k]}
<1>1. SUFFICES ASSUME Differ # {} PROVE FALSE
  <2>1. m \notin Differ
    BY <1>1
  <2> QED BY <2>1
<1>2. PICK k \in Differ : \A j \in Differ : k <= j
  <2>1. Differ \subseteq Nat
    OBVIOUS
  <2> QED BY <1>1, <2>1, LeastNumber
<1>3. 1..k \in SUBSET (1..m) /\ 1..k \in SUBSET (1..n)
  OBVIOUS
<1>4. /\ f[1..k] = IF 1..k = {} THEN base ELSE Op(f[(1..k) \ {Greatest(1..k)}], s[Greatest(1..k)])
      /\ g[1..k] = IF 1..k = {} THEN base ELSE Op(g[(1..k) \ {Greatest(1..k)}], t[Greatest(1..k)])
  BY <1>3 DEF Iterates
<1>5. CASE k = 0
  <2>1. 1..k = {}
    BY <1>5
  <2> QED BY <1>2, <1>4, <2>1
<1>6. CASE k # 0
  <2>1. 1..k # {} /\ k \in 1..k
    BY <1>6
  <2>2. Greatest(1..k) = k
    <3>1. Greatest(1..k) \in 1..k /\ \A y \in 1..k : Greatest(1..k) >= y
      BY <1>3, <2>1, GreatestNumber
    <3> QED BY <2>1, <3>1
  <2>3. (1..k) \ {k} = 1..(k - 1)
    BY <1>6
  <2>4. f[1..(k - 1)] = g[1..(k - 1)]
    BY <1>2, <1>6
  <2>5. s[k] = t[k]
    BY <1>6
  <2> QED BY <1>2, <1>4, <2>1, <2>2, <2>3, <2>4, <2>5
<1> QED BY <1>5, <1>6

\* A fold is the value of such a function.
LEMMA FoldIterates ==
    ASSUME NEW S, NEW s \in Seq(S), NEW base
    PROVE  \E f : Iterates(f, Len(s), s, base) /\ Fold(base, s) = f[1..Len(s)]
<1> DEFINE F == CHOOSE f : Iterates(f, Len(s), s, base)
<1>1. Iterates(F, Len(s), s, base)
  BY IterateExists
<1>2. Fold(base, s) = F[1..Len(s)]
  <2>1. DOMAIN s = 1..Len(s)
    OBVIOUS
  <2> QED BY <2>1 DEF Fold, Iterates
<1> QED BY <1>1, <1>2

\* The values after each of the elements: each is one step on from the one before.
Leads(h, base, s) ==
    /\ h[0] = base /\ h[Len(s)] = Fold(base, s)
    /\ \A k \in 1..Len(s) : h[k] = Op(h[k - 1], s[k])

THEOREM FoldSteps ==
    ASSUME NEW S, NEW s \in Seq(S), NEW base
    PROVE  \E h : Leads(h, base, s)
<1> DEFINE n == Len(s)
<1>1. n \in Nat
  OBVIOUS
<1>2. PICK f : Iterates(f, n, s, base) /\ Fold(base, s) = f[1..n]
  BY FoldIterates
<1> HIDE DEF n
<1> DEFINE h == [k \in 0..n |-> f[1..k]]
<1>3. \A k \in 0..n :
        f[1..k] = IF 1..k = {} THEN base ELSE Op(f[(1..k) \ {Greatest(1..k)}], s[Greatest(1..k)])
  <2> TAKE k \in 0..n
  <2>1. 1..k \in SUBSET (1..n)
    BY <1>1
  <2> QED BY <1>2, <2>1 DEF Iterates
<1>4. h[0] = base
  <2>1. 0 \in 0..n /\ 1..0 = {}
    BY <1>1
  <2> QED BY <1>3, <2>1
<1>5. h[n] = Fold(base, s)
  BY <1>1, <1>2
<1>6. \A k \in 1..n : h[k] = Op(h[k - 1], s[k])
  <2> TAKE k \in 1..n
  <2>0. 1..k \in SUBSET (1..n)
    BY <1>1
  <2>1. /\ 1..k # {} /\ k \in 1..k
        /\ k \in 0..n /\ k - 1 \in 0..n
    <3> HIDE DEF h
    <3>1. k \in 1..k
      BY <1>1
    <3>2. k \in 0..n /\ k - 1 \in 0..n
      BY <1>1
    <3> QED BY <3>1, <3>2
  <2>2. Greatest(1..k) = k
    <3>1. Greatest(1..k) \in 1..k /\ \A y \in 1..k : Greatest(1..k) >= y
      BY <1>1, <2>0, <2>1, GreatestNumber
    <3> QED BY <2>1, <3>1
  <2>3. (1..k) \ {k} = 1..(k - 1)
    BY <2>1
  <2>4. f[1..k] = Op(f[1..(k - 1)], s[k])
    BY <1>3, <2>1, <2>2, <2>3
  <2> QED BY <2>1, <2>4
<1> HIDE DEF h
<1>7. Leads(h, base, s)
  BY <1>4, <1>5, <1>6 DEF n, Leads
<1> QED BY <1>7

-----------------------------------------------------------------------------

\* The two laws of a fold: of the empty sequence it is the base...
THEOREM FoldNone ==
    ASSUME NEW base
    PROVE  Fold(base, <<>>) = base
<1> DEFINE e == <<>>
<1>1. e \in Seq({}) /\ Len(e) = 0
  OBVIOUS
<1> HIDE DEF e
<1>2. PICK f : Iterates(f, Len(e), e, base) /\ Fold(base, e) = f[1..Len(e)]
  BY <1>1, FoldIterates
<1>3. 1..0 = {} /\ 1..0 \in SUBSET (1..0)
  OBVIOUS
<1>4. f[1..0] = base
  BY <1>1, <1>2, <1>3 DEF Iterates
<1>5. Fold(base, e) = base
  BY <1>1, <1>2, <1>4
<1> QED BY <1>5 DEF e

\* ...and of one element more it is one step more.
THEOREM FoldOne ==
    ASSUME NEW S, NEW s \in Seq(S), NEW x \in S, NEW base
    PROVE  Fold(base, Append(s, x)) = Op(Fold(base, s), x)
<1> DEFINE t == Append(s, x)
           n == Len(s)
<1>1. /\ t \in Seq(S) /\ Len(t) = n + 1 /\ n \in Nat
      /\ \A k \in 1..n : s[k] = t[k]
      /\ t[n + 1] = x
  OBVIOUS
<1> HIDE DEF t
<1>2. PICK f : Iterates(f, n, s, base) /\ Fold(base, s) = f[1..n]
  BY FoldIterates
<1> HIDE DEF n
<1>3. PICK g : Iterates(g, n + 1, t, base) /\ Fold(base, t) = g[1..(n + 1)]
  BY <1>1, FoldIterates
<1>4. f[1..n] = g[1..n]
  BY <1>1, <1>2, <1>3, IterateAgrees
<1>5. /\ 1..(n + 1) \in SUBSET (1..(n + 1)) /\ 1..(n + 1) # {}
      /\ n + 1 \in 1..(n + 1) /\ (1..(n + 1)) \ {n + 1} = 1..n
  BY <1>1
<1>6. Greatest(1..(n + 1)) = n + 1
  <2> DEFINE r == 1..(n + 1)
  <2>1. n + 1 \in Nat /\ r \in SUBSET (1..(n + 1)) /\ r # {} /\ n + 1 \in r
    BY <1>1, <1>5
  <2> HIDE DEF r
  <2>2. Greatest(r) \in r /\ \A y \in r : Greatest(r) >= y
    BY <2>1, GreatestNumber
  <2> DEFINE top == Greatest(r)
  <2>3. top \in 1..(n + 1) /\ top >= n + 1
    BY <2>1, <2>2
  <2> HIDE DEF top
  <2>4. top = n + 1
    BY <1>1, <2>3
  <2> QED BY <2>4 DEF r, top
<1>7. g[1..(n + 1)] = Op(g[1..n], t[n + 1])
  BY <1>3, <1>5, <1>6 DEF Iterates
<1>8. Fold(base, t) = Op(Fold(base, s), x)
  BY <1>1, <1>2, <1>3, <1>4, <1>7
<1> QED BY <1>8 DEF t

\* What holds at first and is kept by each step holds in the end.
THEOREM FoldKeeps ==
    ASSUME NEW S, NEW s \in Seq(S), NEW base, NEW given, P(given, base, 0),
           \A k \in 1..Len(s) : \A v : P(given, v, k - 1) => P(given, Op(v, s[k]), k)
    PROVE  P(given, Fold(base, s), Len(s))
<1> DEFINE n == Len(s)
<1>1. n \in Nat
  OBVIOUS
<1>0. PICK h : Leads(h, base, s)
  BY FoldSteps
<1>2. /\ h[0] = base /\ h[n] = Fold(base, s)
      /\ \A k \in 1..n : h[k] = Op(h[k - 1], s[k])
  BY <1>0 DEF Leads
<1>3. \A k \in 1..n : \A v : P(given, v, k - 1) => P(given, Op(v, s[k]), k)
  OBVIOUS
<1> HIDE DEF n
<1> DEFINE Fails == {k \in 0..n : ~P(given, h[k], k)}
<1>4. SUFFICES ASSUME Fails # {} PROVE FALSE
  <2>1. n \notin Fails
    BY <1>4
  <2> QED BY <1>1, <1>2, <2>1 DEF n
<1>5. PICK k \in Fails : \A j \in Fails : k <= j
  <2>1. Fails \subseteq Nat
    BY <1>1
  <2> QED BY <1>4, <2>1, LeastNumber
<1>6. k # 0
  BY <1>2, <1>5
<1>7. k \in 1..n /\ k - 1 \in 0..n /\ k - 1 \notin Fails
  BY <1>1, <1>5, <1>6
<1>8. P(given, h[k - 1], k - 1)
  BY <1>7
<1> QED BY <1>2, <1>3, <1>5, <1>7, <1>8
=============================================================================
