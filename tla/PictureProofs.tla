--------------------------- MODULE PictureProofs ---------------------------
(***************************************************************************)
(* Proofs about the colour quantizers, and about jpegtran: each pixel gets *)
(* a nearest colour and the boxes make up the picture, and the file that   *)
(* jpegtran writes shows the source's picture, turned and mirrored, and    *)
(* has its markers; for samples, blocks and pictures of any size.          *)
(*                                                                         *)
(* A sample is a sum over the coefficients of a block, and a mean colour a *)
(* quotient of sums over the cells of a box; so first come sums over       *)
(* finite sets, and rounded quotients.  For jpegtran: what a mirrored or   *)
(* turned block shows, how many blocks an adjusted picture has, and where  *)
(* the routines take each block from; its invariant says at every stage    *)
(* what was read, adjusted and written.  For the quantizers: what the      *)
(* search of an update box finds, the breakpoints between values, a row of *)
(* dithering and the cutting of boxes, the last two as folds; their        *)
(* invariant says what is held when the passes and the application alter   *)
(* colormaps, caches and ways of dithering.                                *)
(***************************************************************************)
EXTENDS Transcoder, ColorQuantizer, SequenceFacts, TLAPS

-----------------------------------------------------------------------------
(* Sums over finite sets.                                                  *)

\* Of subsets of a finite set one is minimal.
LEMMA SmallestSet ==
    ASSUME NEW S, IsFiniteSet(S), NEW Bad, Bad \subseteq SUBSET S, Bad # {}
    PROVE  \E T \in Bad : \A U \in SUBSET T : U # T => U \notin Bad
<1> DEFINE R == StrictSubsetOrdering(S)
<1>1. \A T \in SUBSET S : T \in FiniteSubsetsOf(S)
  BY FS_Subset DEF FiniteSubsetsOf
<1>2. Bad \subseteq FiniteSubsetsOf(S)
  BY <1>1
<1>3. IsWellFoundedOn(R, FiniteSubsetsOf(S))
  BY FS_StrictSubsetOrderingWellFounded
<1> HIDE DEF R
<1>4. PICK T \in Bad : \A U \in Bad : ~(<<U, T>> \in R)
  BY <1>2, <1>3, WFMin
<1>5. ASSUME NEW U \in SUBSET T, U # T, U \in Bad PROVE FALSE
  <2>1. <<U, T>> \in R
    BY <1>5 DEF R, StrictSubsetOrdering
  <2> QED BY <2>1, <1>4, <1>5
<1> QED BY <1>5

Some(r) == CHOOSE x \in r : TRUE
\* The function that computes a sum: defined on the subsets.
Adds(it, f, S) ==
    it = [r \in SUBSET S |-> IF r = {} THEN 0 ELSE f[Some(r)] + it[r \ {Some(r)}]]

LEMMA SomeIn == ASSUME NEW r, r # {} PROVE Some(r) \in r
BY DEF Some

LEMMA AddsAt ==
    ASSUME NEW S, NEW f, NEW it, Adds(it, f, S), NEW r \in SUBSET S
    PROVE  it[r] = IF r = {} THEN 0 ELSE f[Some(r)] + it[r \ {Some(r)}]
BY DEF Adds

\* Two such functions agree where both are defined.
LEMMA AddsAgree ==
    ASSUME NEW S, IsFiniteSet(S), NEW f, NEW T, NEW it, NEW jt, Adds(it, f, S), Adds(jt, f, T)
    PROVE  \A r \in SUBSET S : r \in SUBSET T => it[r] = jt[r]
<1>0. /\ \A r \in SUBSET S : it[r] = IF r = {} THEN 0 ELSE f[Some(r)] + it[r \ {Some(r)}]
      /\ \A r \in SUBSET T : jt[r] = IF r = {} THEN 0 ELSE f[Some(r)] + jt[r \ {Some(r)}]
  <2>1. \A r \in SUBSET T : jt[r] = IF r = {} THEN 0 ELSE f[Some(r)] + jt[r \ {Some(r)}]
    BY DEF Adds
  <2>2. \A r \in SUBSET S : it[r] = IF r = {} THEN 0 ELSE f[Some(r)] + it[r \ {Some(r)}]
    BY DEF Adds
  <2> QED BY <2>1, <2>2
<1> DEFINE Bad == {r \in SUBSET S : r \in SUBSET T /\ it[r] # jt[r]}
<1>1. SUFFICES ASSUME Bad # {} PROVE FALSE
  OBVIOUS
<1>2. PICK r \in Bad : \A u \in SUBSET r : u # r => u \notin Bad
  <2>1. Bad \subseteq SUBSET S
    OBVIOUS
  <2> HIDE DEF Bad
  <2> QED BY <1>1, <2>1, SmallestSet
<1>3. /\ it[r] = IF r = {} THEN 0 ELSE f[Some(r)] + it[r \ {Some(r)}]
      /\ jt[r] = IF r = {} THEN 0 ELSE f[Some(r)] + jt[r \ {Some(r)}]
  <2>1. r \in SUBSET S /\ r \in SUBSET T
    OBVIOUS
  <2> HIDE DEF Bad
  <2> QED BY <2>1, <1>0
<1>4. r # {}
  BY <1>3
<1>5. it[r \ {Some(r)}] = jt[r \ {Some(r)}]
  <2>1. Some(r) \in r
    BY <1>4, SomeIn
  <2>2. r \ {Some(r)} \in SUBSET r /\ r \ {Some(r)} # r
    BY <2>1
  <2> QED BY <2>2, <1>2
<1> QED BY <1>3, <1>4, <1>5

\* There is one for each finite set.
LEMMA AddsExists ==
    ASSUME NEW S, IsFiniteSet(S), NEW f
    PROVE  \E it : Adds(it, f, S)
<1> DEFINE Bad == {r \in SUBSET S : ~\E it : Adds(it, f, r)}
<1>1. SUFFICES ASSUME Bad # {} PROVE FALSE
  OBVIOUS
<1>2. PICK T \in Bad : \A u \in SUBSET T : u # T => u \notin Bad
  <2>1. Bad \subseteq SUBSET S
    OBVIOUS
  <2> HIDE DEF Bad
  <2> QED BY <1>1, <2>1, SmallestSet
<1> DEFINE Piece(u) == CHOOSE it : Adds(it, f, u)
<1>3. \A u \in SUBSET T : u # T => Adds(Piece(u), f, u)
  BY <1>2
<1>4. \A u \in SUBSET T : IsFiniteSet(u)
  BY FS_Subset
<1> HIDE DEF Piece
<1> DEFINE g == [r \in SUBSET T |-> IF r = {} THEN 0 ELSE f[Some(r)] + Piece(r \ {Some(r)})[r \ {Some(r)}]]
<1>5. ASSUME NEW r \in SUBSET T
      PROVE  g[r] = IF r = {} THEN 0 ELSE f[Some(r)] + g[r \ {Some(r)}]
  <2>1. CASE r = {}
    BY <2>1
  <2>2. CASE r # {}
    <3> DEFINE u == r \ {Some(r)}
    <3>1. Some(r) \in r /\ u \in SUBSET T /\ u # T
      BY <2>2, SomeIn
    <3>2. Adds(Piece(u), f, u) /\ IsFiniteSet(u)
      BY <3>1, <1>3, <1>4
    <3>3. Piece(u)[u] = IF u = {} THEN 0 ELSE f[Some(u)] + Piece(u)[u \ {Some(u)}]
      <4>1. u \in SUBSET u
        OBVIOUS
      <4> HIDE DEF u, g, Bad
      <4> QED BY <3>2, <4>1, AddsAt
    <3>4. g[u] = Piece(u)[u]
      <4>1. CASE u = {}
        BY <4>1, <3>1, <3>3
      <4>2. CASE u # {}
        <5> DEFINE v == u \ {Some(u)}
        <5>1. v \in SUBSET T /\ v \in SUBSET u /\ v # T
          BY <3>1
        <5>2. Adds(Piece(v), f, v)
          BY <5>1, <1>3
        <5>3. Piece(u)[v] = Piece(v)[v]
          BY <3>2, <5>1, <5>2, AddsAgree
        <5>4. g[u] = f[Some(u)] + Piece(v)[v]
          BY <3>1, <4>2
        <5> QED BY <5>3, <5>4, <4>2, <3>3
      <4> QED BY <4>1, <4>2
    <3> HIDE DEF u
    <3>5. g[r] = f[Some(r)] + Piece(u)[u]
      BY <2>2 DEF u
    <3> QED BY <3>4, <3>5, <2>2 DEF u
  <2> QED BY <2>1, <2>2
<1>6. Adds(g, f, T)
  <2> DEFINE h == [r \in SUBSET T |-> IF r = {} THEN 0 ELSE f[Some(r)] + g[r \ {Some(r)}]]
  <2>1. \A r \in SUBSET T : g[r] = h[r]
    BY <1>5
  <2>2. g = h
    BY <2>1
  <2> QED BY <2>2 DEF Adds
<1> QED BY <1>2, <1>6

\* The sum of a function over a set is what such a function has for it.
LEMMA SumAdds ==
    ASSUME NEW S, IsFiniteSet(S), NEW f
    PROVE  \E it : Adds(it, f, S) /\ SumFunctionOnSet(f, S) = it[S]
<1> DEFINE F == CHOOSE it : Adds(it, f, S)
<1>1. Adds(F, f, S)
  BY AddsExists
<1>2. SumFunctionOnSet(f, S) = F[S]
  BY DEF SumFunctionOnSet, FoldFunctionOnSet, MapThenFoldSet, Adds, Some
<1> QED BY <1>1, <1>2

\* Nothing adds to 0...
LEMMA SumNone == ASSUME NEW f PROVE SumFunctionOnSet(f, {}) = 0
<1>1. IsFiniteSet({})
  BY FS_EmptySet
<1>2. PICK it : Adds(it, f, {}) /\ SumFunctionOnSet(f, {}) = it[{}]
  BY <1>1, SumAdds
<1> QED BY <1>2, AddsAt

\* ...and a set to the sum of one element and the rest...
LEMMA SumSome ==
    ASSUME NEW S, IsFiniteSet(S), NEW f, S # {}
    PROVE  SumFunctionOnSet(f, S) = f[Some(S)] + SumFunctionOnSet(f, S \ {Some(S)})
<1> DEFINE T == S \ {Some(S)}
<1>1. IsFiniteSet(T) /\ T \in SUBSET S /\ T \in SUBSET T
  BY FS_Subset
<1>2. PICK it : Adds(it, f, S) /\ SumFunctionOnSet(f, S) = it[S]
  BY SumAdds
<1>3. PICK jt : Adds(jt, f, T) /\ SumFunctionOnSet(f, T) = jt[T]
  BY <1>1, SumAdds
<1> HIDE DEF T
<1>4. it[T] = jt[T]
  BY <1>1, <1>2, <1>3, AddsAgree
<1>5. it[S] = f[Some(S)] + it[T]
  BY <1>2, AddsAt DEF T
<1> QED BY <1>2, <1>3, <1>4, <1>5 DEF T

\* ...which is a number if its terms are...
LEMMA SumType ==
    ASSUME NEW S, IsFiniteSet(S), NEW f, \A x \in S : f[x] \in Int
    PROVE  SumFunctionOnSet(f, S) \in Int
<1> DEFINE Bad == {r \in SUBSET S : SumFunctionOnSet(f, r) \notin Int}
<1>1. SUFFICES ASSUME Bad # {} PROVE FALSE
  OBVIOUS
<1>2. PICK r \in Bad : \A u \in SUBSET r : u # r => u \notin Bad
  <2>1. Bad \subseteq SUBSET S
    OBVIOUS
  <2> HIDE DEF Bad
  <2> QED BY <1>1, <2>1, SmallestSet
<1>3. r # {}
  BY SumNone
<1>4. IsFiniteSet(r) /\ Some(r) \in r
  BY <1>3, FS_Subset, SomeIn
<1>5. SumFunctionOnSet(f, r) = f[Some(r)] + SumFunctionOnSet(f, r \ {Some(r)})
  BY <1>3, <1>4, SumSome
<1>6. r \ {Some(r)} \in SUBSET r /\ r \ {Some(r)} # r
  BY <1>4
<1>7. SumFunctionOnSet(f, r \ {Some(r)}) \in Int
  BY <1>2, <1>6
<1>8. f[Some(r)] \in Int
  BY <1>4
<1> QED BY <1>2, <1>5, <1>7, <1>8

\* ...whichever element it is.
LEMMA SumAny ==
    ASSUME NEW S, IsFiniteSet(S), NEW f, \A z \in S : f[z] \in Int, NEW x \in S
    PROVE  SumFunctionOnSet(f, S) = f[x] + SumFunctionOnSet(f, S \ {x})
<1> DEFINE Sum(u) == SumFunctionOnSet(f, u)
           Bad == {r \in SUBSET S : \E y \in r : Sum(r) # f[y] + Sum(r \ {y})}
<1>1. SUFFICES ASSUME Bad # {} PROVE FALSE
  OBVIOUS
<1>2. PICK r \in Bad : \A u \in SUBSET r : u # r => u \notin Bad
  <2>1. Bad \subseteq SUBSET S
    OBVIOUS
  <2> HIDE DEF Bad
  <2> QED BY <1>1, <2>1, SmallestSet
<1>3. PICK y \in r : Sum(r) # f[y] + Sum(r \ {y})
  BY <1>2
<1> DEFINE a == Some(r)
<1>4. IsFiniteSet(r) /\ a \in r
  BY FS_Subset, SomeIn
<1>5. Sum(r) = f[a] + Sum(r \ {a})
  BY <1>3, <1>4, SumSome
<1> HIDE DEF a
<1>6. y # a
  BY <1>3, <1>5
<1>7. \A u \in SUBSET S : IsFiniteSet(u) /\ Sum(u) \in Int
  <2> TAKE u \in SUBSET S
  <2>1. IsFiniteSet(u) /\ \A z \in u : f[z] \in Int
    BY FS_Subset
  <2> QED BY <2>1, SumType
<1> HIDE DEF Sum
<1>8. Sum(r \ {a}) = f[y] + Sum((r \ {a}) \ {y})
  <2>1. r \ {a} \in SUBSET r /\ r \ {a} # r /\ y \in r \ {a}
    BY <1>4, <1>6
  <2> QED BY <2>1, <1>2
<1>9. Sum(r \ {y}) = f[a] + Sum((r \ {y}) \ {a})
  <2>1. r \ {y} \in SUBSET r /\ r \ {y} # r /\ a \in r \ {y}
    BY <1>4, <1>6
  <2> QED BY <2>1, <1>2
<1>10. (r \ {y}) \ {a} = (r \ {a}) \ {y}
  OBVIOUS
<1>11. /\ f[a] \in Int /\ f[y] \in Int
       /\ Sum((r \ {a}) \ {y}) \in Int /\ Sum(r \ {y}) \in Int /\ Sum(r \ {a}) \in Int
  BY <1>4, <1>7
<1>12. Sum(r) = f[a] + (f[y] + Sum((r \ {a}) \ {y}))
  BY <1>5, <1>8
<1>13. f[y] + Sum(r \ {y}) = f[y] + (f[a] + Sum((r \ {a}) \ {y}))
  BY <1>9, <1>10
<1>14. \A k, l, m \in Int : k + (l + m) = l + (k + m)
  OBVIOUS
<1> QED BY <1>3, <1>11, <1>12, <1>13, <1>14

\* A sum does not change when its terms are put elsewhere, each to a place of its own.
LEMMA SumMoved ==
    ASSUME NEW S, IsFiniteSet(S), NEW f, NEW g, NEW place,
           \A p \in S : g[p] \in Int /\ g[p] = f[place[p]],
           \A p, q \in S : place[p] = place[q] => p = q
    PROVE  SumFunctionOnSet(g, S) = SumFunctionOnSet(f, {place[p] : p \in S})
<1> DEFINE At(u) == {place[p] : p \in u}
           Bad == {u \in SUBSET S : SumFunctionOnSet(g, u) # SumFunctionOnSet(f, At(u))}
<1>1. SUFFICES ASSUME Bad # {} PROVE FALSE
  OBVIOUS
<1>2. PICK r \in Bad : \A u \in SUBSET r : u # r => u \notin Bad
  <2>1. Bad \subseteq SUBSET S
    OBVIOUS
  <2> HIDE DEF Bad
  <2> QED BY <1>1, <2>1, SmallestSet
<1>3. r # {}
  <2>1. At({}) = {}
    OBVIOUS
  <2> QED BY <2>1, SumNone
<1>4. PICK x \in r : TRUE
  BY <1>3
<1>5. SumFunctionOnSet(g, r) = g[x] + SumFunctionOnSet(g, r \ {x})
  <2>1. IsFiniteSet(r) /\ \A z \in r : g[z] \in Int
    BY FS_Subset
  <2> QED BY <2>1, SumAny
<1>6. SumFunctionOnSet(f, At(r)) = f[place[x]] + SumFunctionOnSet(f, At(r) \ {place[x]})
  <2>1. IsFiniteSet(r)
    BY FS_Subset
  <2> DEFINE moves == [p \in r |-> place[p]]
  <2>2. IsFiniteSet(At(r))
    <3>1. moves \in Surjection(r, At(r))
      BY DEF Surjection
    <3> HIDE DEF moves, At
    <3> QED BY <2>1, <3>1, FS_Surjection
  <2>3. \A z \in At(r) : f[z] \in Int
    OBVIOUS
  <2>4. place[x] \in At(r)
    OBVIOUS
  <2> HIDE DEF At
  <2> QED BY <2>2, <2>3, <2>4, SumAny
<1>7. At(r) \ {place[x]} = At(r \ {x})
  OBVIOUS
<1>8. SumFunctionOnSet(g, r \ {x}) = SumFunctionOnSet(f, At(r \ {x}))
  <2>1. r \ {x} \in SUBSET r /\ r \ {x} # r
    OBVIOUS
  <2> QED BY <2>1, <1>2
<1> QED BY <1>2, <1>5, <1>6, <1>7, <1>8

-----------------------------------------------------------------------------
(* Quotients.                                                              *)

\* The quotient and the rest...
LEMMA DivBounds ==
    ASSUME NEW a \in Int, NEW b \in Nat \ {0}
    PROVE  /\ a \div b \in Int /\ a % b \in 0..(b - 1)
           /\ a = (b * (a \div b)) + (a % b)
OBVIOUS

\* ...which are the only ones.
LEMMA DivUnique ==
    ASSUME NEW n \in Int, NEW b \in Nat \ {0}, NEW r \in 0..(b - 1)
    PROVE  (b * n + r) \div b = n /\ (b * n + r) % b = r
<1> DEFINE a == b * n + r
<1>1. a \in Int
  OBVIOUS
<1>2. /\ a \div b \in Int /\ a % b \in 0..(b - 1)
      /\ a = (b * (a \div b)) + (a % b)
  BY <1>1, DivBounds
<1> DEFINE m == a \div b
           s == a % b
<1>3. m \in Int /\ s \in 0..(b - 1) /\ b * n + r = b * m + s
  BY <1>2
<1> HIDE DEF m, s
<1>4. b * (n - m) = s - r
  BY <1>3
<1>5. n - m = 0
  <2> DEFINE k == n - m
  <2>1. k \in Int /\ b * k = s - r
    BY <1>3, <1>4
  <2> HIDE DEF k
  <2>2. CASE k >= 1
    <3>1. b * k >= b
      BY <2>1, <2>2
    <3> QED BY <3>1, <2>1, <1>3
  <2>3. CASE k <= -1
    <3>1. b * k <= -b
      BY <2>1, <2>3
    <3> QED BY <3>1, <2>1, <1>3
  <2> QED BY <2>1, <2>2, <2>3 DEF k
<1>6. n = m /\ r = s
  <2>1. n = m
    BY <1>3, <1>5
  <2> QED BY <2>1, <1>3
<1> QED BY <1>6 DEF m, s

\* A quotient that is rounded up is the least number of whole parts that are enough.
LEMMA RoundedUp ==
    ASSUME NEW a \in Nat, NEW b \in Nat \ {0}
    PROVE  /\ Jdiv_round_up(a, b) \in Nat
           /\ a <= b * Jdiv_round_up(a, b)
           /\ \A m \in Nat : a <= b * m => Jdiv_round_up(a, b) <= m
<1> DEFINE n == (a + b - 1) \div b
           r == (a + b - 1) % b
<1>1. n \in Int /\ r \in 0..(b - 1) /\ a + b - 1 = (b * n) + r
  <2> DEFINE e == a + b - 1
  <2>1. e \in Int
    OBVIOUS
  <2> HIDE DEF e
  <2>2. e \div b \in Int /\ e % b \in 0..(b - 1) /\ e = (b * (e \div b)) + (e % b)
    BY <2>1, DivBounds
  <2> QED BY <2>2 DEF e
<1> HIDE DEF n, r
<1>2. a <= b * n
  BY <1>1
<1>3. n >= 0
  <2>1. CASE n <= -1
    <3>1. b * n <= -b
      BY <2>1, <1>1
    <3> QED BY <3>1, <1>1
  <2> QED BY <2>1, <1>1
<1>4. ASSUME NEW m \in Nat, a <= b * m PROVE n <= m
  <2>1. CASE n >= m + 1
    <3>1. b * n >= b * (m + 1)
      BY <2>1, <1>1
    <3>2. b * (m + 1) = b * m + b
      OBVIOUS
    <3> QED BY <3>1, <3>2, <1>1, <1>4
  <2> QED BY <2>1, <1>1
<1>5. Jdiv_round_up(a, b) = n
  BY DEF Jdiv_round_up, n
<1> QED BY <1>1, <1>2, <1>3, <1>4, <1>5

\* Of less there are no more parts, and of parts that are as much larger as many.
LEMMA RoundedUpLess ==
    ASSUME NEW a \in Nat, NEW c \in Nat, NEW b \in Nat \ {0}, a <= c
    PROVE  Jdiv_round_up(a, b) <= Jdiv_round_up(c, b)
<1>1. Jdiv_round_up(c, b) \in Nat /\ c <= b * Jdiv_round_up(c, b)
  BY RoundedUp
<1>2. a <= b * Jdiv_round_up(c, b)
  BY <1>1
<1> QED BY <1>1, <1>2, RoundedUp

LEMMA RoundedUpScaled ==
    ASSUME NEW a \in Nat, NEW b \in Nat \ {0}, NEW h \in Nat \ {0}
    PROVE  Jdiv_round_up(a * h, h * b) = Jdiv_round_up(a, b)
<1> DEFINE n == Jdiv_round_up(a, b)
           m == Jdiv_round_up(a * h, h * b)
<1>1. a * h \in Nat /\ h * b \in Nat \ {0}
  OBVIOUS
<1>2. n \in Nat /\ a <= b * n /\ \A k \in Nat : a <= b * k => n <= k
  BY RoundedUp
<1>3. m \in Nat /\ a * h <= (h * b) * m /\ \A k \in Nat : a * h <= (h * b) * k => m <= k
  BY <1>1, RoundedUp
<1> HIDE DEF n, m
<1>4. \A k \in Nat : a * h <= (h * b) * k <=> a <= b * k
  <2> TAKE k \in Nat
  <2>1. (h * b) * k = (b * k) * h
    OBVIOUS
  <2>2. b * k \in Nat
    OBVIOUS
  <2>3. \A u, v \in Nat : u * h <= v * h <=> u <= v
    <3> TAKE u, v \in Nat
    <3>1. ASSUME u <= v PROVE u * h <= v * h
      BY <3>1
    <3>2. ASSUME v < u PROVE v * h < u * h
      BY <3>2
    <3>3. u * h \in Nat /\ v * h \in Nat
      OBVIOUS
    <3> QED BY <3>1, <3>2, <3>3
  <2> QED BY <2>1, <2>2, <2>3
<1>5. n <= m
  BY <1>2, <1>3, <1>4
<1>6. m <= n
  BY <1>2, <1>3, <1>4
<1> QED BY <1>2, <1>3, <1>5, <1>6 DEF n, m

\* Whole parts are no more than those that are enough.
LEMMA WholeParts ==
    ASSUME NEW size \in Nat, NEW part \in Nat \ {0}, NEW k \in Nat \ {0}
    PROVE  /\ (size \div part) * k \in Nat
           /\ (size \div part) * k <= Jdiv_round_up(size * k, part)
<1> DEFINE n == size \div part
           m == Jdiv_round_up(size * k, part)
<1>1. n \in Int /\ size % part \in 0..(part - 1) /\ size = (part * n) + (size % part)
  BY DivBounds
<1> DEFINE r == size % part
<1>2. r \in Nat /\ r < part /\ size = part * n + r
  BY <1>1
<1>3. m \in Nat /\ size * k <= part * m
  <2>1. size * k \in Nat
    OBVIOUS
  <2> QED BY <2>1, RoundedUp
<1> HIDE DEF n, m, r
<1>4. n >= 0
  <2>1. CASE n <= -1
    <3>1. \A k1, l1 \in Int : k1 \in Nat /\ l1 <= -1 => k1 * l1 <= -k1
      OBVIOUS
    <3>2. n \in Int
      BY <1>1 DEF n
    <3>3. part * n <= -part /\ part * n \in Int
      BY <2>1, <3>1, <3>2
    <3> QED BY <3>3, <1>2
  <2>2. n \in Int
    BY <1>1 DEF n
  <2> QED BY <2>1, <2>2
<1>5. part * (n * k) <= part * m
  <2>1. (part * n) * k <= size * k
    <3>1. part * n <= size /\ part * n \in Int
      BY <1>1, <1>2
    <3>2. \A u, v \in Int : u <= v => u * k <= v * k
      OBVIOUS
    <3> QED BY <3>1, <3>2
  <2>2. (part * n) * k = part * (n * k)
    BY <1>1
  <2>3. part * (n * k) \in Int /\ size * k \in Int /\ part * m \in Int
    BY <1>1, <1>3
  <2> QED BY <2>1, <2>2, <2>3, <1>3
<1>6. n * k \in Nat
  BY <1>1, <1>4
<1>7. n * k <= m
  <2> DEFINE u == n * k
  <2>1. u \in Nat /\ part * u <= part * m
    BY <1>5, <1>6
  <2> HIDE DEF u
  <2>2. CASE u >= m + 1
    <3>1. part * u >= part * (m + 1)
      BY <2>1, <2>2, <1>3
    <3>2. part * (m + 1) = part * m + part /\ part * m \in Int
      BY <1>3
    <3> QED BY <3>1, <3>2, <2>1
  <2>3. u <= m
    BY <2>1, <2>2, <1>3
  <2> QED BY <2>3 DEF u
<1> QED BY <1>6, <1>7 DEF n, m

-----------------------------------------------------------------------------
(* What a block shows, turned and mirrored.                                *)

Side == 0..(BlockSide - 1)
Term(b, q, y, x, p) == b[p] * q[p] * Wave[<<y, p[1]>>] * Wave[<<x, p[2]>>]
\* The sample of a block in row y and column x.
Shown(b, q, y, x) == SumFunction([p \in Places |-> Term(b, q, y, x, p)])

LEMMA SampleShown ==
    ASSUME NEW im, NEW c, NEW arrays, NEW y, NEW x
    PROVE  Sample(im, c, arrays, y, x) =
               Shown(arrays[c][<<y \div BlockSide, x \div BlockSide>>], im.slots[im.comps[c].q],
                     y % BlockSide, x % BlockSide)
BY DEF Sample, Shown, Term

LEMMA PlaceOf ==
    ASSUME NEW p \in Places
    PROVE  /\ p[1] \in Side /\ p[2] \in Side /\ p = <<p[1], p[2]>>
           /\ p[1] \in Int /\ p[2] \in Int
BY TransAssumption DEF Places, Side

LEMMA PlaceAt == ASSUME NEW i \in Side, NEW j \in Side PROVE <<i, j>> \in Places
BY DEF Places, Side

\* The symmetry of a wave.
LEMMA WaveMirrored ==
    ASSUME NEW x \in Side, NEW u \in Side
    PROVE  /\ BlockSide - 1 - x \in Side /\ Wave[<<x, u>>] \in Int
           /\ Wave[<<BlockSide - 1 - x, u>>] = IF Odd(u) THEN -Wave[<<x, u>>] ELSE Wave[<<x, u>>]
<1>1. <<x, u>> \in Places
  BY PlaceAt
<1>2. BlockSide - 1 - x \in Side
  BY TransAssumption DEF Side
<1>3. Wave[<<x, u>>] \in Int
  BY <1>1, TransAssumption
<1>4. Wave[<<BlockSide - 1 - <<x, u>>[1], <<x, u>>[2]>>] = IF Odd(<<x, u>>[2]) THEN -Wave[<<x, u>>] ELSE Wave[<<x, u>>]
  BY <1>1, TransAssumption
<1> QED BY <1>2, <1>3, <1>4

LEMMA Signs ==
    \A a, b, c, d \in Int :
        /\ a * b * c * d \in Int
        /\ (-a) * b * c * d = a * b * c * (-d)
        /\ (-a) * b * c * d = a * b * (-c) * d
        /\ a * b * (-c) * (-d) = a * b * c * d
<1> TAKE a, b, c, d \in Int
<1> DEFINE e == a * b
           f == e * c
<1>1. \A u, v \in Int : u * v \in Int /\ -u \in Int /\ (-u) * v = -(u * v) /\ u * (-v) = -(u * v)
  OBVIOUS
<1>2. e \in Int /\ (-a) * b = -e
  BY <1>1
<1> HIDE DEF e
<1>3. f \in Int /\ (-e) * c = -f /\ e * (-c) = -f
  BY <1>1, <1>2
<1> HIDE DEF f
<1>4. f * d \in Int /\ (-f) * d = -(f * d) /\ f * (-d) = -(f * d) /\ (-f) * (-d) = f * d
  <2>1. \A u, v \in Int : (-u) * (-v) = u * v
    OBVIOUS
  <2> QED BY <1>1, <1>3, <2>1
<1>5. /\ a * b * c * d = f * d /\ (-a) * b * c * d = (-f) * d
      /\ a * b * c * (-d) = f * (-d) /\ a * b * (-c) * d = (-f) * d
      /\ a * b * (-c) * (-d) = (-f) * (-d)
  BY <1>2, <1>3 DEF e, f
<1> QED BY <1>4, <1>5

IsBlock(b) == b \in [Places -> Int]

LEMMA TermType ==
    ASSUME NEW b, IsBlock(b), NEW q, IsBlock(q), NEW y \in Side, NEW x \in Side, NEW p \in Places
    PROVE  /\ b[p] \in Int /\ q[p] \in Int /\ Wave[<<y, p[1]>>] \in Int /\ Wave[<<x, p[2]>>] \in Int
           /\ Term(b, q, y, x, p) \in Int
<1>1. p[1] \in Side /\ p[2] \in Side
  BY PlaceOf
<1>2. Wave[<<y, p[1]>>] \in Int /\ Wave[<<x, p[2]>>] \in Int
  BY <1>1, WaveMirrored
<1>3. b[p] \in Int /\ q[p] \in Int
  BY DEF IsBlock
<1> QED BY <1>2, <1>3, Signs DEF Term

\* Blocks whose terms are the same show the same.
LEMMA SameTerms ==
    ASSUME NEW b, NEW c, NEW q, NEW y, NEW x, NEW v, NEW u,
           \A p \in Places : Term(b, q, y, x, p) = Term(c, q, v, u, p)
    PROVE  Shown(b, q, y, x) = Shown(c, q, v, u)
<1>1. [p \in Places |-> Term(b, q, y, x, p)] = [p \in Places |-> Term(c, q, v, u, p)]
  OBVIOUS
<1> QED BY <1>1 DEF Shown

LEMMA FlippedBlocks ==
    ASSUME NEW b, IsBlock(b)
    PROVE  /\ IsBlock(FlipX(b)) /\ IsBlock(FlipY(b)) /\ IsBlock(FlipXY(b)) /\ IsBlock(Transpose(b))
           /\ FlipXY(b) = FlipY(FlipX(b))
<1>1. \A p \in Places : b[p] \in Int /\ b[<<p[2], p[1]>>] \in Int
  BY PlaceOf, PlaceAt DEF IsBlock
<1>2. IsBlock(FlipX(b)) /\ IsBlock(FlipY(b)) /\ IsBlock(FlipXY(b)) /\ IsBlock(Transpose(b))
  BY <1>1 DEF IsBlock, FlipX, FlipY, FlipXY, Transpose
<1>3. ASSUME NEW p \in Places PROVE FlipXY(b)[p] = FlipY(FlipX(b))[p]
  <2>1. b[p] \in Int
    BY <1>1
  <2>2. FlipX(b)[p] = IF Odd(p[2]) THEN -b[p] ELSE b[p]
    BY DEF FlipX
  <2>3. FlipY(FlipX(b))[p] = IF Odd(p[1]) THEN -(FlipX(b)[p]) ELSE FlipX(b)[p]
    BY DEF FlipY
  <2>4. FlipXY(b)[p] = IF Odd(p[1]) # Odd(p[2]) THEN -b[p] ELSE b[p]
    BY DEF FlipXY
  <2>5. -(-b[p]) = b[p]
    BY <2>1
  <2>6. CASE Odd(p[1]) /\ Odd(p[2])
    <3>1. FlipXY(b)[p] = b[p]
      BY <2>4, <2>6
    <3> QED BY <3>1, <2>2, <2>3, <2>5, <2>6
  <2>7. CASE Odd(p[1]) /\ ~Odd(p[2])
    <3>1. FlipXY(b)[p] = -b[p]
      BY <2>4, <2>7
    <3> QED BY <3>1, <2>2, <2>3, <2>7
  <2>8. CASE ~Odd(p[1]) /\ Odd(p[2])
    <3>1. FlipXY(b)[p] = -b[p]
      BY <2>4, <2>8
    <3> QED BY <3>1, <2>2, <2>3, <2>8
  <2>9. CASE ~Odd(p[1]) /\ ~Odd(p[2])
    <3>1. Odd(p[1]) = Odd(p[2])
      BY <2>9 DEF Odd
    <3>2. FlipXY(b)[p] = b[p]
      BY <2>4, <3>1
    <3> QED BY <3>2, <2>2, <2>3, <2>9
  <2> QED BY <2>6, <2>7, <2>8, <2>9
<1>4. FlipXY(b) = FlipY(FlipX(b))
  <2> DEFINE f == FlipXY(b)
             g == FlipY(FlipX(b))
  <2>1. f = [p \in Places |-> f[p]] /\ g = [p \in Places |-> g[p]]
    BY DEF FlipXY, FlipY
  <2>2. \A p \in Places : f[p] = g[p]
    BY <1>3
  <2> HIDE DEF f, g
  <2>3. f = g
    BY <2>1, <2>2
  <2> QED BY <2>3 DEF f, g
<1> QED BY <1>2, <1>4

LEMMA FlipXShown ==
    ASSUME NEW b, IsBlock(b), NEW q, IsBlock(q), NEW y \in Side, NEW x \in Side
    PROVE  Shown(FlipX(b), q, y, x) = Shown(b, q, y, BlockSide - 1 - x)
<1>1. ASSUME NEW p \in Places
      PROVE  Term(FlipX(b), q, y, x, p) = Term(b, q, y, BlockSide - 1 - x, p)
  <2> DEFINE bp == b[p]
             qp == q[p]
             wy == Wave[<<y, p[1]>>]
             wx == Wave[<<x, p[2]>>]
  <2>1. bp \in Int /\ qp \in Int /\ wy \in Int /\ wx \in Int
    BY TermType
  <2>2. FlipX(b)[p] = IF Odd(p[2]) THEN -bp ELSE bp
    BY DEF FlipX
  <2>3. Wave[<<BlockSide - 1 - x, p[2]>>] = IF Odd(p[2]) THEN -wx ELSE wx
    BY PlaceOf, WaveMirrored
  <2>4. /\ Term(FlipX(b), q, y, x, p) = FlipX(b)[p] * qp * wy * wx
        /\ Term(b, q, y, BlockSide - 1 - x, p) = bp * qp * wy * Wave[<<BlockSide - 1 - x, p[2]>>]
    BY DEF Term
  <2> HIDE DEF bp, qp, wy, wx
  <2>5. (-bp) * qp * wy * wx = bp * qp * wy * (-wx)
    BY <2>1, Signs
  <2> QED BY <2>2, <2>3, <2>4, <2>5
<1> QED BY <1>1, SameTerms

LEMMA FlipYShown ==
    ASSUME NEW b, IsBlock(b), NEW q, IsBlock(q), NEW y \in Side, NEW x \in Side
    PROVE  Shown(FlipY(b), q, y, x) = Shown(b, q, BlockSide - 1 - y, x)
<1>1. ASSUME NEW p \in Places
      PROVE  Term(FlipY(b), q, y, x, p) = Term(b, q, BlockSide - 1 - y, x, p)
  <2> DEFINE bp == b[p]
             qp == q[p]
             wy == Wave[<<y, p[1]>>]
             wx == Wave[<<x, p[2]>>]
  <2>1. bp \in Int /\ qp \in Int /\ wy \in Int /\ wx \in Int
    BY TermType
  <2>2. FlipY(b)[p] = IF Odd(p[1]) THEN -bp ELSE bp
    BY DEF FlipY
  <2>3. Wave[<<BlockSide - 1 - y, p[1]>>] = IF Odd(p[1]) THEN -wy ELSE wy
    BY PlaceOf, WaveMirrored
  <2>4. /\ Term(FlipY(b), q, y, x, p) = FlipY(b)[p] * qp * wy * wx
        /\ Term(b, q, BlockSide - 1 - y, x, p) = bp * qp * Wave[<<BlockSide - 1 - y, p[1]>>] * wx
    BY DEF Term
  <2> HIDE DEF bp, qp, wy, wx
  <2>5. (-bp) * qp * wy * wx = bp * qp * (-wy) * wx
    BY <2>1, Signs
  <2> QED BY <2>2, <2>3, <2>4, <2>5
<1> QED BY <1>1, SameTerms

LEMMA FlipXYShown ==
    ASSUME NEW b, IsBlock(b), NEW q, IsBlock(q), NEW y \in Side, NEW x \in Side
    PROVE  Shown(FlipXY(b), q, y, x) = Shown(b, q, BlockSide - 1 - y, BlockSide - 1 - x)
<1>1. IsBlock(FlipX(b)) /\ FlipXY(b) = FlipY(FlipX(b))
  BY FlippedBlocks
<1>2. BlockSide - 1 - y \in Side
  BY TransAssumption DEF Side
<1>3. Shown(FlipY(FlipX(b)), q, y, x) = Shown(FlipX(b), q, BlockSide - 1 - y, x)
  BY <1>1, FlipYShown
<1>4. Shown(FlipX(b), q, BlockSide - 1 - y, x) = Shown(b, q, BlockSide - 1 - y, BlockSide - 1 - x)
  BY <1>2, FlipXShown
<1> QED BY <1>1, <1>3, <1>4

LEMMA PlacesFinite == IsFiniteSet(Places)
<1>1. IsFiniteSet(0..(BlockSide - 1))
  <2>1. 0 \in Int /\ BlockSide - 1 \in Int
    BY TransAssumption
  <2> QED BY <2>1, FS_Interval
<1> QED BY <1>1, FS_Product DEF Places

LEMMA TransposeShown ==
    ASSUME NEW b, IsBlock(b), NEW q, IsBlock(q), NEW y \in Side, NEW x \in Side
    PROVE  Shown(Transpose(b), Transpose(q), y, x) = Shown(b, q, x, y)
<1> DEFINE f == [p \in Places |-> Term(b, q, x, y, p)]
           g == [p \in Places |-> Term(Transpose(b), Transpose(q), y, x, p)]
           place == [p \in Places |-> <<p[2], p[1]>>]
<1>1. \A p \in Places : place[p] \in Places /\ place[p][1] = p[2] /\ place[p][2] = p[1]
  BY PlaceOf, PlaceAt
<1>2. ASSUME NEW p \in Places PROVE g[p] \in Int /\ g[p] = f[place[p]]
  <2> DEFINE r == <<p[2], p[1]>>
             bp == b[r]
             qp == q[r]
             wy == Wave[<<y, p[1]>>]
             wx == Wave[<<x, p[2]>>]
  <2>1. r \in Places /\ r[1] = p[2] /\ r[2] = p[1]
    BY PlaceOf, PlaceAt
  <2>2. /\ bp \in Int /\ qp \in Int /\ wx \in Int /\ wy \in Int /\ Term(b, q, x, y, r) \in Int
    BY <2>1, TermType
  <2>3. Term(b, q, x, y, r) = bp * qp * wx * wy
    BY <2>1 DEF Term
  <2>4. Transpose(b)[p] = bp /\ Transpose(q)[p] = qp
    BY DEF Transpose
  <2>5. Term(Transpose(b), Transpose(q), y, x, p) = bp * qp * wy * wx
    BY <2>4 DEF Term
  <2>6. f[place[p]] = Term(b, q, x, y, r)
    BY <2>1
  <2>7. g[p] = Term(Transpose(b), Transpose(q), y, x, p)
    OBVIOUS
  <2> HIDE DEF bp, qp, wy, wx, f, g, place
  <2>8. bp * qp * wx * wy = bp * qp * wy * wx
    BY <2>2
  <2> QED BY <2>2, <2>3, <2>5, <2>6, <2>7, <2>8
<1>3. \A p, r \in Places : place[p] = place[r] => p = r
  BY <1>1, PlaceOf
<1>4. {place[p] : p \in Places} = Places
  <2>1. \A p \in Places : place[place[p]] = p
    BY <1>1, PlaceOf
  <2> HIDE DEF place
  <2> QED BY <1>1, <2>1
<1>5. SumFunctionOnSet(g, Places) = SumFunctionOnSet(f, Places)
  <2> HIDE DEF f, g, place
  <2>1. \A p \in Places : g[p] \in Int /\ g[p] = f[place[p]]
    BY <1>2
  <2>2. SumFunctionOnSet(g, Places) = SumFunctionOnSet(f, {place[p] : p \in Places})
    BY <2>1, <1>3, PlacesFinite, SumMoved
  <2> QED BY <2>2, <1>4
<1>6. DOMAIN f = Places /\ DOMAIN g = Places
  OBVIOUS
<1>7. Shown(Transpose(b), Transpose(q), y, x) = SumFunctionOnSet(g, Places)
  BY <1>6 DEF Shown, SumFunction
<1>8. Shown(b, q, x, y) = SumFunctionOnSet(f, Places)
  BY <1>6 DEF Shown, SumFunction
<1> QED BY <1>5, <1>7, <1>8

-----------------------------------------------------------------------------
(* The sizes of pictures.                                                  *)

LEMMA LargestOf ==
    ASSUME NEW S, IsFiniteSet(S), S # {}, S \subseteq Int
    PROVE  Max(S) \in S
<1> DEFINE Bad == {r \in SUBSET S : r # {} /\ ~\E m \in r : \A y \in r : m >= y}
<1>1. ASSUME Bad # {} PROVE FALSE
  <2>1. PICK r \in Bad : \A u \in SUBSET r : u # r => u \notin Bad
    <3>1. Bad \subseteq SUBSET S
      OBVIOUS
    <3> HIDE DEF Bad
    <3> QED BY <1>1, <3>1, SmallestSet
  <2>2. PICK x \in r : TRUE
    OBVIOUS
  <2> DEFINE u == r \ {x}
  <2>3. u \in SUBSET r /\ u # r /\ r \subseteq Int
    OBVIOUS
  <2>4. CASE u = {}
    <3>1. \A y \in r : x >= y
      BY <2>3, <2>4
    <3> QED BY <3>1
  <2>5. CASE u # {}
    <3>1. PICK m \in u : \A y \in u : m >= y
      BY <2>1, <2>3, <2>5
    <3>2. m \in Int /\ x \in Int /\ m \in r
      BY <2>3, <3>1
    <3>3. CASE m >= x
      <4>1. \A y \in r : m >= y
        BY <3>1, <3>3
      <4> QED BY <4>1, <3>2
    <3>4. CASE m < x
      <4>1. \A y \in r : x >= y
        BY <3>1, <3>2, <3>4, <2>3
      <4> QED BY <4>1
    <3> QED BY <3>2, <3>3, <3>4
  <2> QED BY <2>4, <2>5
<1>2. \E m \in S : \A y \in S : m >= y
  BY <1>1
<1> QED BY <1>2 DEF Max

IsPicture(d) ==
    /\ DOMAIN d = {"width", "height", "space", "comps", "slots", "extras"}
    /\ d.width \in Nat \ {0} /\ d.height \in Nat \ {0}
    /\ IsFiniteSet(DOMAIN d.comps) /\ DOMAIN d.comps # {}
    /\ \A c \in DOMAIN d.comps :
          /\ DOMAIN d.comps[c] = {"h", "v", "q", "table"}
          /\ d.comps[c].h \in Nat \ {0} /\ d.comps[c].v \in Nat \ {0} /\ d.comps[c].q \in DOMAIN d.slots
    /\ \A s \in DOMAIN d.slots : IsBlock(d.slots[s])

\* The largest sampling factors, and the sides of an iMCU.
LEMMA Factors ==
    ASSUME NEW d, IsPicture(d)
    PROVE  /\ Max_h_samp(d) \in Nat \ {0} /\ Max_v_samp(d) \in Nat \ {0}
           /\ Max_h_samp(d) * BlockSide \in Nat \ {0} /\ Max_v_samp(d) * BlockSide \in Nat \ {0}
<1> DEFINE C == DOMAIN d.comps
           H == {d.comps[c].h : c \in C}
           V == {d.comps[c].v : c \in C}
<1>1. H \subseteq Nat \ {0} /\ V \subseteq Nat \ {0} /\ H # {} /\ V # {}
  BY DEF IsPicture
<1>2. IsFiniteSet(C)
  BY DEF IsPicture
<1>3. [c \in C |-> d.comps[c].h] \in Surjection(C, H) /\ [c \in C |-> d.comps[c].v] \in Surjection(C, V)
  BY DEF Surjection
<1>4. IsFiniteSet(H) /\ IsFiniteSet(V)
  <2> HIDE DEF C, H, V
  <2> QED BY <1>2, <1>3, FS_Surjection
<1>5. Max(H) \in Nat \ {0} /\ Max(V) \in Nat \ {0}
  <2> HIDE DEF C, H, V
  <2>1. H \subseteq Int /\ V \subseteq Int
    BY <1>1
  <2> QED BY <1>1, <1>4, <2>1, LargestOf
<1>6. Max_h_samp(d) = Max(H) /\ Max_v_samp(d) = Max(V)
  BY DEF Max_h_samp, Max_v_samp
<1> HIDE DEF H, V
<1>7. \A k, l \in Nat \ {0} : k * l \in Nat \ {0}
  OBVIOUS
<1> QED BY <1>5, <1>6, <1>7, TransAssumption

\* A picture has whole blocks, and of them whole iMCUs are a part.
LEMMA Sizes ==
    ASSUME NEW d, IsPicture(d), NEW c \in DOMAIN d.comps
    PROVE  /\ Width_in_blocks(d, c) \in Nat /\ Height_in_blocks(d, c) \in Nat
           /\ CompWidth(d, c) \in Nat /\ CompHeight(d, c) \in Nat
           /\ CompWidth(d, c) <= Width_in_blocks(d, c) /\ CompHeight(d, c) <= Height_in_blocks(d, c)
<1>1. /\ Max_h_samp(d) * BlockSide \in Nat \ {0} /\ Max_v_samp(d) * BlockSide \in Nat \ {0}
  BY Factors
<1>2. d.width \in Nat /\ d.height \in Nat /\ d.comps[c].h \in Nat \ {0} /\ d.comps[c].v \in Nat \ {0}
  BY DEF IsPicture
<1>3. /\ d.width * d.comps[c].h \in Nat /\ d.height * d.comps[c].v \in Nat
  <2>1. \A k, l \in Nat : k * l \in Nat
    OBVIOUS
  <2> QED BY <1>2, <2>1
<1>4. Width_in_blocks(d, c) \in Nat /\ Height_in_blocks(d, c) \in Nat
  BY <1>1, <1>3, RoundedUp DEF Width_in_blocks, Height_in_blocks
<1>5. CompWidth(d, c) \in Nat /\ CompWidth(d, c) <= Width_in_blocks(d, c)
  BY <1>1, <1>2, WholeParts DEF CompWidth, Width_in_blocks
<1>6. CompHeight(d, c) \in Nat /\ CompHeight(d, c) <= Height_in_blocks(d, c)
  BY <1>1, <1>2, WholeParts DEF CompHeight, Height_in_blocks
<1> QED BY <1>4, <1>5, <1>6

\* The blocks shown are in the array.
ShownArea(d, c) == (0..(Height_in_blocks(d, c) - 1)) \X (0..(Width_in_blocks(d, c) - 1))

LEMMA ShownPadded ==
    ASSUME NEW d, IsPicture(d), NEW c \in DOMAIN d.comps
    PROVE  ShownArea(d, c) \subseteq PaddedArea(d, c)
<1> DEFINE h == Height_in_blocks(d, c)
           w == Width_in_blocks(d, c)
<1>1. h \in Nat /\ w \in Nat
  BY Sizes
<1>2. d.comps[c].h \in Nat \ {0} /\ d.comps[c].v \in Nat \ {0}
  BY DEF IsPicture
<1> HIDE DEF h, w
<1>3. ASSUME NEW n \in Nat, NEW k \in Nat \ {0}
      PROVE  Jround_up(n, k) \in Nat /\ n <= Jround_up(n, k)
  <2>1. Jdiv_round_up(n, k) \in Nat /\ n <= k * Jdiv_round_up(n, k)
    BY RoundedUp
  <2> DEFINE m == Jdiv_round_up(n, k)
  <2>2. m \in Nat /\ n <= k * m
    BY <2>1
  <2>3. Jround_up(n, k) = m * k
    BY DEF Jround_up
  <2> HIDE DEF m
  <2> QED BY <2>2, <2>3
<1>4. /\ Jround_up(h, d.comps[c].v) \in Nat /\ h <= Jround_up(h, d.comps[c].v)
      /\ Jround_up(w, d.comps[c].h) \in Nat /\ w <= Jround_up(w, d.comps[c].h)
  BY <1>1, <1>2, <1>3
<1> DEFINE hh == Jround_up(h, d.comps[c].v)
           ww == Jround_up(w, d.comps[c].h)
<1>5. PaddedArea(d, c) = (0..(hh - 1)) \X (0..(ww - 1)) /\ ShownArea(d, c) = (0..(h - 1)) \X (0..(w - 1))
  BY DEF PaddedArea, ShownArea, h, w
<1>6. hh \in Nat /\ ww \in Nat /\ h <= hh /\ w <= ww
  BY <1>4
<1> HIDE DEF hh, ww
<1>7. 0..(h - 1) \subseteq 0..(hh - 1) /\ 0..(w - 1) \subseteq 0..(ww - 1)
  BY <1>1, <1>6
<1> QED BY <1>5, <1>7

\* A source is a picture.
LEMMA SourceIsPicture ==
    ASSUME NEW im, IsSource(im)
    PROVE  IsPicture(im)
<1>1. /\ im.comps \in Seq([h : Nat \ {0}, v : Nat \ {0}, q : Nat, table : [Places -> Int]])
      /\ im.slots \in Seq([Places -> Int]) /\ im.comps # <<>>
      /\ \A c \in DOMAIN im.comps : im.comps[c].q \in DOMAIN im.slots
      /\ im.width \in Nat \ {0} /\ im.height \in Nat \ {0}
      /\ DOMAIN im = {"width", "height", "space", "comps", "slots", "extras"}
  BY DEF IsSource
<1>2. Len(im.comps) \in Nat /\ DOMAIN im.comps = 1..Len(im.comps) /\ Len(im.comps) # 0
  BY <1>1
<1>3. IsFiniteSet(DOMAIN im.comps) /\ DOMAIN im.comps # {}
  <2>1. IsFiniteSet(1..Len(im.comps))
    <3>1. 1 \in Int /\ Len(im.comps) \in Int
      BY <1>2
    <3> QED BY <3>1, FS_Interval
  <2>2. 1 \in 1..Len(im.comps)
    BY <1>2
  <2> QED BY <1>2, <2>1, <2>2
<1>4. ASSUME NEW c \in DOMAIN im.comps
      PROVE  /\ DOMAIN im.comps[c] = {"h", "v", "q", "table"}
             /\ im.comps[c].h \in Nat \ {0} /\ im.comps[c].v \in Nat \ {0}
  <2> DEFINE PartSet == [h : Nat \ {0}, v : Nat \ {0}, q : Nat, table : [Places -> Int]]
             s == im.comps
  <2>1. s \in Seq(PartSet) /\ c \in 1..Len(s)
    BY <1>1, <1>2
  <2>2. s[c] \in PartSet
    <3> HIDE DEF PartSet, s
    <3> QED BY <2>1
  <2> QED BY <2>2
<1>5. \A s \in DOMAIN im.slots : IsBlock(im.slots[s])
  BY <1>1 DEF IsBlock
<1> QED BY <1>1, <1>3, <1>4, <1>5 DEF IsPicture

\* A picture that is a part of another, with its quantizers.
PartOf(e, d) ==
    \A c \in DOMAIN e.comps :
        /\ c \in DOMAIN d.comps
        /\ Width_in_blocks(e, c) <= Width_in_blocks(d, c) /\ Height_in_blocks(e, c) <= Height_in_blocks(d, c)
        /\ e.slots[e.comps[c].q] = d.slots[d.comps[c].q]

LEMMA PartOfItself ==
    ASSUME NEW d, IsPicture(d)
    PROVE  PartOf(d, d)
BY Sizes DEF PartOf

LEMMA PartOfPart ==
    ASSUME NEW d, IsPicture(d), NEW e, IsPicture(e), NEW f, IsPicture(f), PartOf(f, e), PartOf(e, d)
    PROVE  PartOf(f, d)
<1>1. ASSUME NEW c \in DOMAIN f.comps
      PROVE  /\ c \in DOMAIN d.comps
             /\ Width_in_blocks(f, c) <= Width_in_blocks(d, c) /\ Height_in_blocks(f, c) <= Height_in_blocks(d, c)
             /\ f.slots[f.comps[c].q] = d.slots[d.comps[c].q]
  <2>1. c \in DOMAIN e.comps /\ c \in DOMAIN d.comps
    BY <1>1 DEF PartOf
  <2>2. /\ Width_in_blocks(f, c) <= Width_in_blocks(e, c) /\ Width_in_blocks(e, c) <= Width_in_blocks(d, c)
        /\ Height_in_blocks(f, c) <= Height_in_blocks(e, c) /\ Height_in_blocks(e, c) <= Height_in_blocks(d, c)
        /\ f.slots[f.comps[c].q] = d.slots[d.comps[c].q]
    BY <1>1, <2>1 DEF PartOf
  <2>3. /\ Width_in_blocks(f, c) \in Nat /\ Width_in_blocks(e, c) \in Nat /\ Width_in_blocks(d, c) \in Nat
        /\ Height_in_blocks(f, c) \in Nat /\ Height_in_blocks(e, c) \in Nat /\ Height_in_blocks(d, c) \in Nat
    BY <1>1, <2>1, Sizes
  <2> QED BY <2>1, <2>2, <2>3
<1> QED BY <1>1 DEF PartOf

-----------------------------------------------------------------------------
(* What jtransform_adjust_parameters() makes of a picture.                 *)

LEMMA OnlyOne == ASSUME NEW n \in Int PROVE Max({n}) = n
<1>1. \E x \in {n} : \A y \in {n} : x >= y
  OBVIOUS
<1> QED BY <1>1 DEF Max

\* The luminance alone.
LEMMA GrayedRight ==
    ASSUME NEW im, IsSource(im), IsYCC(im) \/ IsGray(im)
    PROVE  IsPicture(Grayed(im)) /\ PartOf(Grayed(im), im)
<1> DEFINE e == Grayed(im)
           gray == [im.comps[1] EXCEPT !.h = 1, !.v = 1]
<1>1. IsPicture(im)
  BY SourceIsPicture
<1>2. 1 \in DOMAIN im.comps
  <2>1. im.comps \in Seq([h : Nat \ {0}, v : Nat \ {0}, q : Nat, table : [Places -> Int]]) /\ im.comps # <<>>
    BY DEF IsSource
  <2> QED BY <2>1
<1>3. /\ DOMAIN e = {"width", "height", "space", "comps", "slots", "extras"}
      /\ e.width = im.width /\ e.height = im.height /\ e.slots = im.slots /\ e.comps = <<gray>>
  BY <1>1 DEF Grayed, IsPicture
<1>4. /\ DOMAIN gray = {"h", "v", "q", "table"} /\ gray.h = 1 /\ gray.v = 1 /\ gray.q = im.comps[1].q
  BY <1>1, <1>2 DEF IsPicture
<1> HIDE DEF gray, e
<1>5. DOMAIN e.comps = {1} /\ e.comps[1] = gray
  BY <1>3
<1>6. IsPicture(e)
  <2>1. IsFiniteSet({1})
    BY FS_Singleton
  <2> QED BY <1>1, <1>2, <1>3, <1>4, <1>5, <2>1 DEF IsPicture
<1>7. Max_h_samp(e) = 1 /\ Max_v_samp(e) = 1
  <2>1. {e.comps[c].h : c \in DOMAIN e.comps} = {1} /\ {e.comps[c].v : c \in DOMAIN e.comps} = {1}
    BY <1>4, <1>5
  <2> QED BY <2>1, OnlyOne DEF Max_h_samp, Max_v_samp
<1>8. Max_h_samp(im) = im.comps[1].h /\ Max_v_samp(im) = im.comps[1].v
  <2>1. CASE IsYCC(im)
    BY <2>1 DEF IsSource
  <2>2. CASE IsGray(im)
    <3>1. DOMAIN im.comps = {1}
      <4>1. im.comps \in Seq([h : Nat \ {0}, v : Nat \ {0}, q : Nat, table : [Places -> Int]]) /\ Len(im.comps) = 1
        BY <2>2 DEF IsSource, IsGray
      <4> QED BY <4>1
    <3>2. /\ {im.comps[c].h : c \in DOMAIN im.comps} = {im.comps[1].h}
          /\ {im.comps[c].v : c \in DOMAIN im.comps} = {im.comps[1].v}
      BY <3>1
    <3>3. im.comps[1].h \in Int /\ im.comps[1].v \in Int
      BY <1>1, <1>2 DEF IsPicture
    <3> QED BY <3>2, <3>3, OnlyOne DEF Max_h_samp, Max_v_samp
  <2> QED BY <2>1, <2>2
<1>9. Width_in_blocks(e, 1) = Width_in_blocks(im, 1) /\ Height_in_blocks(e, 1) = Height_in_blocks(im, 1)
  <2> DEFINE w == im.width
             g == im.height
             h == im.comps[1].h
             v == im.comps[1].v
  <2>1. w \in Nat /\ g \in Nat /\ h \in Nat \ {0} /\ v \in Nat \ {0} /\ BlockSide \in Nat \ {0}
    BY <1>1, <1>2, TransAssumption DEF IsPicture
  <2>2. /\ Width_in_blocks(e, 1) = Jdiv_round_up(w * 1, 1 * BlockSide)
        /\ Height_in_blocks(e, 1) = Jdiv_round_up(g * 1, 1 * BlockSide)
        /\ Width_in_blocks(im, 1) = Jdiv_round_up(w * h, h * BlockSide)
        /\ Height_in_blocks(im, 1) = Jdiv_round_up(g * v, v * BlockSide)
    BY <1>3, <1>4, <1>5, <1>7, <1>8 DEF Width_in_blocks, Height_in_blocks
  <2> HIDE DEF w, g, h, v
  <2>3. w * 1 = w /\ g * 1 = g /\ 1 * BlockSide = BlockSide
    BY <2>1
  <2>4. Jdiv_round_up(w * h, h * BlockSide) = Jdiv_round_up(w, BlockSide)
    BY <2>1, RoundedUpScaled
  <2>5. Jdiv_round_up(g * v, v * BlockSide) = Jdiv_round_up(g, BlockSide)
    BY <2>1, RoundedUpScaled
  <2> QED BY <2>2, <2>3, <2>4, <2>5
<1>10. PartOf(e, im)
  <2>1. Width_in_blocks(im, 1) \in Nat /\ Height_in_blocks(im, 1) \in Nat
    BY <1>1, <1>2, Sizes
  <2> QED BY <1>2, <1>3, <1>4, <1>5, <1>9, <2>1 DEF PartOf
<1> QED BY <1>6, <1>10 DEF e

\* Rows for columns, in sizes, factors and quantizers.
LEMMA TransposeRight ==
    ASSUME NEW d, IsPicture(d)
    PROVE  LET e == Transpose_critical_parameters(d)
           IN  /\ IsPicture(e) /\ DOMAIN e.comps = DOMAIN d.comps
               /\ \A c \in DOMAIN d.comps :
                     /\ Width_in_blocks(e, c) = Height_in_blocks(d, c)
                     /\ Height_in_blocks(e, c) = Width_in_blocks(d, c)
                     /\ d.comps[c].q \in DOMAIN d.slots
                     /\ e.slots[e.comps[c].q] = Transpose(d.slots[d.comps[c].q])
<1> DEFINE e == Transpose_critical_parameters(d)
<1>1. /\ DOMAIN e = {"width", "height", "space", "comps", "slots", "extras"}
      /\ e.width = d.height /\ e.height = d.width
      /\ e.comps = [c \in DOMAIN d.comps |-> [d.comps[c] EXCEPT !.h = d.comps[c].v, !.v = d.comps[c].h]]
      /\ e.slots = [s \in DOMAIN d.slots |-> Transpose(d.slots[s])]
  BY DEF Transpose_critical_parameters, IsPicture
<1> HIDE DEF e
<1>2. ASSUME NEW c \in DOMAIN d.comps
      PROVE  /\ c \in DOMAIN e.comps /\ DOMAIN e.comps[c] = {"h", "v", "q", "table"}
             /\ e.comps[c].h = d.comps[c].v /\ e.comps[c].v = d.comps[c].h /\ e.comps[c].q = d.comps[c].q
             /\ e.comps[c].q \in DOMAIN d.slots
  <2>1. e.comps[c] = [d.comps[c] EXCEPT !.h = d.comps[c].v, !.v = d.comps[c].h]
    BY <1>1
  <2>2. c \in DOMAIN e.comps
    BY <1>1
  <2>3. DOMAIN d.comps[c] = {"h", "v", "q", "table"} /\ d.comps[c].q \in DOMAIN d.slots
    BY DEF IsPicture
  <2> QED BY <2>1, <2>2, <2>3
<1>3. DOMAIN e.comps = DOMAIN d.comps /\ DOMAIN e.slots = DOMAIN d.slots
  BY <1>1
<1>4. \A s \in DOMAIN d.slots : IsBlock(e.slots[s]) /\ e.slots[s] = Transpose(d.slots[s])
  <2> TAKE s \in DOMAIN d.slots
  <2>1. IsBlock(d.slots[s])
    BY DEF IsPicture
  <2>2. e.slots[s] = Transpose(d.slots[s])
    BY <1>1
  <2> QED BY <2>1, <2>2, FlippedBlocks
<1>5. IsPicture(e)
  BY <1>1, <1>2, <1>3, <1>4 DEF IsPicture
<1>6. Max_h_samp(e) = Max_v_samp(d) /\ Max_v_samp(e) = Max_h_samp(d)
  <2>1. /\ {e.comps[c].h : c \in DOMAIN e.comps} = {d.comps[c].v : c \in DOMAIN d.comps}
        /\ {e.comps[c].v : c \in DOMAIN e.comps} = {d.comps[c].h : c \in DOMAIN d.comps}
    BY <1>2, <1>3
  <2> QED BY <2>1 DEF Max_h_samp, Max_v_samp
<1>7. ASSUME NEW c \in DOMAIN d.comps
      PROVE  /\ Width_in_blocks(e, c) = Height_in_blocks(d, c) /\ Height_in_blocks(e, c) = Width_in_blocks(d, c)
             /\ d.comps[c].q \in DOMAIN d.slots
             /\ e.slots[e.comps[c].q] = Transpose(d.slots[d.comps[c].q])
  BY <1>1, <1>2, <1>4, <1>6 DEF Width_in_blocks, Height_in_blocks
<1> QED BY <1>3, <1>5, <1>7 DEF e

\* A size that is trimmed.
LEMMA TrimmedSize ==
    ASSUME NEW size \in Nat \ {0}, NEW unit \in Nat \ {0}
    PROVE  /\ TrimmedTo(size, unit) \in Nat \ {0} /\ TrimmedTo(size, unit) <= size
           /\ TrimmedTo(size, unit) >= unit => TrimmedTo(size, unit) % unit = 0
<1> DEFINE n == size \div unit
           r == size % unit
<1>1. n \in Int /\ r \in 0..(unit - 1) /\ size = (unit * n) + r
  BY DivBounds
<1>2. TrimmedTo(size, unit) = IF n > 0 THEN n * unit ELSE size
  BY DEF TrimmedTo
<1> HIDE DEF n, r
<1>3. CASE n > 0
  <2>1. n * unit = unit * n /\ unit * n \in Int /\ unit * n >= unit
    BY <1>1, <1>3
  <2>2. n * unit \in Nat \ {0} /\ n * unit <= size
    BY <1>1, <2>1
  <2>3. ((unit * n) + 0) % unit = 0
    <3>1. 0 \in 0..(unit - 1)
      OBVIOUS
    <3> QED BY <1>1, <3>1, DivUnique
  <2>4. (unit * n) + 0 = unit * n
    BY <2>1
  <2>5. (n * unit) % unit = 0
    BY <2>1, <2>3, <2>4
  <2> QED BY <1>2, <1>3, <2>2, <2>5
<1>4. CASE n <= 0
  <2>1. unit * n <= 0
    BY <1>1, <1>4
  <2>2. size < unit
    <3>1. unit * n \in Int
      BY <1>1
    <3> QED BY <1>1, <2>1, <3>1
  <2>3. TrimmedTo(size, unit) = size
    BY <1>1, <1>2, <1>4
  <2> QED BY <2>2, <2>3
<1> QED BY <1>1, <1>3, <1>4

LEMMA TrimRight ==
    ASSUME NEW d, IsPicture(d)
    PROVE  LET e == Trim_right_edge(d)
           IN  /\ IsPicture(e) /\ PartOf(e, d) /\ e.height = d.height /\ e.comps = d.comps
               /\ e.width >= Max_h_samp(e) * BlockSide => e.width % (Max_h_samp(e) * BlockSide) = 0
<1> DEFINE e == Trim_right_edge(d)
           unit == Max_h_samp(d) * BlockSide
<1>1. /\ DOMAIN e = {"width", "height", "space", "comps", "slots", "extras"}
      /\ e.width = TrimmedTo(d.width, unit) /\ e.height = d.height /\ e.comps = d.comps /\ e.slots = d.slots
  BY DEF Trim_right_edge, IsPicture
<1>2. unit \in Nat \ {0} /\ d.width \in Nat \ {0}
  BY Factors DEF IsPicture
<1> HIDE DEF e
<1>3. Max_h_samp(e) * BlockSide = unit /\ Max_h_samp(e) = Max_h_samp(d) /\ Max_v_samp(e) = Max_v_samp(d)
  BY <1>1 DEF Max_h_samp, Max_v_samp
<1> HIDE DEF unit
<1>4. e.width \in Nat \ {0} /\ e.width <= d.width /\ (e.width >= unit => e.width % unit = 0)
  BY <1>1, <1>2, TrimmedSize
<1>5. IsPicture(e)
  BY <1>1, <1>4 DEF IsPicture
<1>6. ASSUME NEW c \in DOMAIN d.comps
      PROVE  /\ Width_in_blocks(e, c) <= Width_in_blocks(d, c) /\ Height_in_blocks(e, c) <= Height_in_blocks(d, c)
  <2> DEFINE h == d.comps[c].h
  <2>1. h \in Nat \ {0}
    BY DEF IsPicture
  <2>2. /\ Width_in_blocks(e, c) = Jdiv_round_up(e.width * h, unit)
        /\ Width_in_blocks(d, c) = Jdiv_round_up(d.width * h, unit)
        /\ Height_in_blocks(e, c) = Height_in_blocks(d, c)
    BY <1>1, <1>3 DEF Width_in_blocks, Height_in_blocks, unit
  <2> HIDE DEF h
  <2>3. e.width * h \in Nat /\ d.width * h \in Nat /\ e.width * h <= d.width * h
    <3>1. \A a, b \in Nat : \A k \in Nat : a * k \in Nat /\ (a <= b => a * k <= b * k)
      OBVIOUS
    <3> QED BY <1>2, <1>4, <2>1, <3>1
  <2>4. Jdiv_round_up(e.width * h, unit) <= Jdiv_round_up(d.width * h, unit)
    BY <1>2, <2>3, RoundedUpLess
  <2>5. Height_in_blocks(d, c) \in Nat
    BY Sizes
  <2> QED BY <2>2, <2>4, <2>5
<1>7. PartOf(e, d)
  BY <1>1, <1>6 DEF PartOf
<1> QED BY <1>1, <1>3, <1>4, <1>5, <1>7 DEF e

LEMMA TrimBottom ==
    ASSUME NEW d, IsPicture(d)
    PROVE  LET e == Trim_bottom_edge(d)
           IN  /\ IsPicture(e) /\ PartOf(e, d) /\ e.width = d.width /\ e.comps = d.comps
               /\ e.height >= Max_v_samp(e) * BlockSide => e.height % (Max_v_samp(e) * BlockSide) = 0
<1> DEFINE e == Trim_bottom_edge(d)
           unit == Max_v_samp(d) * BlockSide
<1>1. /\ DOMAIN e = {"width", "height", "space", "comps", "slots", "extras"}
      /\ e.height = TrimmedTo(d.height, unit) /\ e.width = d.width /\ e.comps = d.comps /\ e.slots = d.slots
  BY DEF Trim_bottom_edge, IsPicture
<1>2. unit \in Nat \ {0} /\ d.height \in Nat \ {0}
  BY Factors DEF IsPicture
<1> HIDE DEF e
<1>3. Max_v_samp(e) * BlockSide = unit /\ Max_h_samp(e) = Max_h_samp(d) /\ Max_v_samp(e) = Max_v_samp(d)
  BY <1>1 DEF Max_h_samp, Max_v_samp
<1> HIDE DEF unit
<1>4. e.height \in Nat \ {0} /\ e.height <= d.height /\ (e.height >= unit => e.height % unit = 0)
  BY <1>1, <1>2, TrimmedSize
<1>5. IsPicture(e)
  BY <1>1, <1>4 DEF IsPicture
<1>6. ASSUME NEW c \in DOMAIN d.comps
      PROVE  /\ Width_in_blocks(e, c) <= Width_in_blocks(d, c) /\ Height_in_blocks(e, c) <= Height_in_blocks(d, c)
  <2> DEFINE v == d.comps[c].v
  <2>1. v \in Nat \ {0}
    BY DEF IsPicture
  <2>2. /\ Height_in_blocks(e, c) = Jdiv_round_up(e.height * v, unit)
        /\ Height_in_blocks(d, c) = Jdiv_round_up(d.height * v, unit)
        /\ Width_in_blocks(e, c) = Width_in_blocks(d, c)
    BY <1>1, <1>3 DEF Width_in_blocks, Height_in_blocks, unit
  <2> HIDE DEF v
  <2>3. e.height * v \in Nat /\ d.height * v \in Nat /\ e.height * v <= d.height * v
    <3>1. \A a, b \in Nat : \A k \in Nat : a * k \in Nat /\ (a <= b => a * k <= b * k)
      OBVIOUS
    <3> QED BY <1>2, <1>4, <2>1, <3>1
  <2>4. Jdiv_round_up(e.height * v, unit) <= Jdiv_round_up(d.height * v, unit)
    BY <1>2, <2>3, RoundedUpLess
  <2>5. Width_in_blocks(d, c) \in Nat
    BY Sizes
  <2> QED BY <2>2, <2>4, <2>5
<1>7. PartOf(e, d)
  BY <1>1, <1>6 DEF PartOf
<1> QED BY <1>1, <1>3, <1>4, <1>5, <1>7 DEF e

\* A picture has the sizes and the quantizers of a part of a source, turned or not.
Matches(e, d, turned) ==
    \A c \in DOMAIN e.comps :
        /\ c \in DOMAIN d.comps /\ d.comps[c].q \in DOMAIN d.slots
        /\ turned => /\ Width_in_blocks(e, c) <= Height_in_blocks(d, c)
                     /\ Height_in_blocks(e, c) <= Width_in_blocks(d, c)
                     /\ e.slots[e.comps[c].q] = Transpose(d.slots[d.comps[c].q])
        /\ ~turned => /\ Width_in_blocks(e, c) <= Width_in_blocks(d, c)
                      /\ Height_in_blocks(e, c) <= Height_in_blocks(d, c)
                      /\ e.slots[e.comps[c].q] = d.slots[d.comps[c].q]

LEMMA PartMatches ==
    ASSUME NEW d, IsPicture(d), NEW e, IsPicture(e), PartOf(e, d)
    PROVE  Matches(e, d, FALSE)
<1>1. \A c \in DOMAIN e.comps : c \in DOMAIN d.comps /\ d.comps[c].q \in DOMAIN d.slots
  BY DEF PartOf, IsPicture
<1> QED BY <1>1 DEF PartOf, Matches

LEMMA TransposeMatches ==
    ASSUME NEW d, IsPicture(d), NEW e, IsPicture(e), PartOf(e, d)
    PROVE  Matches(Transpose_critical_parameters(e), d, TRUE)
<1> DEFINE f == Transpose_critical_parameters(e)
<1>1. /\ IsPicture(f) /\ DOMAIN f.comps = DOMAIN e.comps
      /\ \A c \in DOMAIN e.comps :
            /\ Width_in_blocks(f, c) = Height_in_blocks(e, c)
            /\ Height_in_blocks(f, c) = Width_in_blocks(e, c)
            /\ e.comps[c].q \in DOMAIN e.slots
            /\ f.slots[f.comps[c].q] = Transpose(e.slots[e.comps[c].q])
  BY TransposeRight
<1> HIDE DEF f
<1>2. Matches(e, d, FALSE)
  BY PartMatches
<1>3. ASSUME NEW c \in DOMAIN f.comps
      PROVE  /\ c \in DOMAIN d.comps /\ d.comps[c].q \in DOMAIN d.slots
             /\ Width_in_blocks(f, c) <= Height_in_blocks(d, c)
             /\ Height_in_blocks(f, c) <= Width_in_blocks(d, c)
             /\ f.slots[f.comps[c].q] = Transpose(d.slots[d.comps[c].q])
  <2>1. c \in DOMAIN e.comps
    BY <1>1, <1>3
  <2> QED BY <1>1, <1>2, <2>1 DEF Matches
<1> QED BY <1>3 DEF Matches, f

LEMMA PartOfMatch ==
    ASSUME NEW d, IsPicture(d), NEW e, IsPicture(e), NEW f, IsPicture(f), PartOf(f, e),
           NEW turned \in BOOLEAN, Matches(e, d, turned)
    PROVE  Matches(f, d, turned)
<1>1. ASSUME NEW c \in DOMAIN f.comps
      PROVE  /\ c \in DOMAIN e.comps /\ c \in DOMAIN d.comps /\ d.comps[c].q \in DOMAIN d.slots
             /\ Width_in_blocks(f, c) <= Width_in_blocks(e, c)
             /\ Height_in_blocks(f, c) <= Height_in_blocks(e, c)
             /\ f.slots[f.comps[c].q] = e.slots[e.comps[c].q]
  BY <1>1 DEF PartOf, Matches
<1>2. ASSUME NEW c \in DOMAIN f.comps
      PROVE  /\ Width_in_blocks(f, c) \in Nat /\ Width_in_blocks(e, c) \in Nat /\ Width_in_blocks(d, c) \in Nat
             /\ Height_in_blocks(f, c) \in Nat /\ Height_in_blocks(e, c) \in Nat /\ Height_in_blocks(d, c) \in Nat
  BY <1>1, <1>2, Sizes
<1>3. ASSUME NEW c \in DOMAIN f.comps, turned
      PROVE  /\ Width_in_blocks(f, c) <= Height_in_blocks(d, c)
             /\ Height_in_blocks(f, c) <= Width_in_blocks(d, c)
             /\ f.slots[f.comps[c].q] = Transpose(d.slots[d.comps[c].q])
  <2>1. c \in DOMAIN e.comps
    BY <1>1, <1>3
  <2>2. /\ Width_in_blocks(e, c) <= Height_in_blocks(d, c)
        /\ Height_in_blocks(e, c) <= Width_in_blocks(d, c)
        /\ e.slots[e.comps[c].q] = Transpose(d.slots[d.comps[c].q])
    BY <2>1, <1>3 DEF Matches
  <2> QED BY <1>1, <1>2, <1>3, <2>2
<1>4. ASSUME NEW c \in DOMAIN f.comps, ~turned
      PROVE  /\ Width_in_blocks(f, c) <= Width_in_blocks(d, c)
             /\ Height_in_blocks(f, c) <= Height_in_blocks(d, c)
             /\ f.slots[f.comps[c].q] = d.slots[d.comps[c].q]
  <2>1. c \in DOMAIN e.comps
    BY <1>1, <1>4
  <2>2. /\ Width_in_blocks(e, c) <= Width_in_blocks(d, c)
        /\ Height_in_blocks(e, c) <= Height_in_blocks(d, c)
        /\ e.slots[e.comps[c].q] = d.slots[d.comps[c].q]
    BY <2>1, <1>4 DEF Matches
  <2> QED BY <1>1, <1>2, <1>4, <2>2
<1> QED BY <1>1, <1>3, <1>4 DEF Matches

TrimmedAlong(e, o) ==
    /\ o.trim /\ o.transform \in TrimsRight /\ e.width >= Max_h_samp(e) * BlockSide =>
          e.width % (Max_h_samp(e) * BlockSide) = 0
    /\ o.trim /\ o.transform \in TrimsBottom /\ e.height >= Max_v_samp(e) * BlockSide =>
          e.height % (Max_v_samp(e) * BlockSide) = 0

LEMMA AdjustedRight ==
    ASSUME NEW im, IsPicture(im), NEW d, IsPicture(d), PartOf(d, im), NEW o
    PROVE  /\ IsPicture(Adjusted(d, o)) /\ Matches(Adjusted(d, o), im, o.transform \in Turning)
           /\ TrimmedAlong(Adjusted(d, o), o)
<1> DEFINE turn == o.transform \in Turning
           right == o.trim /\ o.transform \in TrimsRight
           bottom == o.trim /\ o.transform \in TrimsBottom
           turned == IF turn THEN Transpose_critical_parameters(d) ELSE d
           cut == IF right THEN Trim_right_edge(turned) ELSE turned
           e == IF bottom THEN Trim_bottom_edge(cut) ELSE cut
<1>1. IsPicture(turned) /\ Matches(turned, im, turn)
  <2>1. CASE turn
    <3>1. Matches(turned, im, TRUE) /\ IsPicture(turned)
      BY <2>1, TransposeMatches, TransposeRight
    <3>2. turn = TRUE
      BY <2>1
    <3> QED BY <3>1, <3>2
  <2>2. CASE ~turn
    <3>1. Matches(turned, im, FALSE) /\ IsPicture(turned)
      BY <2>2, PartMatches
    <3>2. turn = FALSE
      BY <2>2
    <3> QED BY <3>1, <3>2
  <2> QED BY <2>1, <2>2
<1> HIDE DEF turned
<1>2. /\ IsPicture(cut) /\ PartOf(cut, turned)
      /\ right => (cut.width >= Max_h_samp(cut) * BlockSide => cut.width % (Max_h_samp(cut) * BlockSide) = 0)
  <2>1. CASE right
    BY <2>1, <1>1, TrimRight
  <2>2. CASE ~right
    BY <2>2, <1>1, PartOfItself
  <2> QED BY <2>1, <2>2
<1> HIDE DEF cut
<1>3. /\ IsPicture(e) /\ PartOf(e, cut) /\ e.width = cut.width /\ e.comps = cut.comps
      /\ bottom => (e.height >= Max_v_samp(e) * BlockSide => e.height % (Max_v_samp(e) * BlockSide) = 0)
  <2>1. CASE bottom
    BY <2>1, <1>2, TrimBottom
  <2>2. CASE ~bottom
    BY <2>2, <1>2, PartOfItself
  <2> QED BY <2>1, <2>2
<1> HIDE DEF e
<1>4. Max_h_samp(e) = Max_h_samp(cut)
  BY <1>3 DEF Max_h_samp
<1>5. Matches(e, im, turn)
  <2>1. PartOf(e, turned)
    BY <1>1, <1>2, <1>3, PartOfPart
  <2>2. turn \in BOOLEAN
    OBVIOUS
  <2> HIDE DEF turn
  <2> QED BY <1>1, <1>3, <2>1, <2>2, PartOfMatch
<1>6. Adjusted(d, o) = e
  BY DEF Adjusted, e, cut, turned
<1>7. TrimmedAlong(e, o)
  BY <1>2, <1>3, <1>4 DEF TrimmedAlong
<1> QED BY <1>3, <1>5, <1>6, <1>7

-----------------------------------------------------------------------------
(* A sample, its block, and where they come from.                          *)

LEMMA BlockOf ==
    ASSUME NEW n \in Nat, NEW x \in 0..(n * BlockSide - 1)
    PROVE  x \div BlockSide \in 0..(n - 1) /\ x % BlockSide \in Side /\ x \in Nat
<1> DEFINE m == x \div BlockSide
           r == x % BlockSide
<1>1. BlockSide \in Nat \ {0} /\ n * BlockSide \in Nat
  BY TransAssumption
<1>2. x \in Nat /\ x < n * BlockSide
  BY <1>1
<1>3. m \in Int /\ r \in 0..(BlockSide - 1) /\ x = (BlockSide * m) + r
  BY <1>1, <1>2, DivBounds
<1> HIDE DEF m, r
<1>4. ASSUME m <= -1 PROVE FALSE
  <2>1. BlockSide * m <= -BlockSide /\ BlockSide * m \in Int
    BY <1>1, <1>3, <1>4
  <2> QED BY <1>1, <1>2, <1>3, <2>1
<1>5. ASSUME m >= n PROVE FALSE
  <2>1. BlockSide * m >= BlockSide * n /\ BlockSide * m \in Int
    BY <1>1, <1>3, <1>5
  <2>2. BlockSide * n = n * BlockSide
    BY <1>1
  <2> QED BY <1>1, <1>2, <1>3, <2>1, <2>2
<1>6. m \in 0..(n - 1) /\ r \in Side
  <2>1. m > -1 /\ m < n
    BY <1>3, <1>4, <1>5
  <2> QED BY <1>3, <2>1 DEF Side
<1> QED BY <1>2, <1>6 DEF m, r

LEMMA MirrorOf ==
    ASSUME NEW n \in Nat, NEW x \in Nat
    PROVE  LET m == Mirror(x, n * BlockSide)
           IN  /\ m \div BlockSide = IF x \div BlockSide < n THEN n - 1 - (x \div BlockSide) ELSE x \div BlockSide
               /\ m % BlockSide = IF x \div BlockSide < n THEN BlockSide - 1 - (x % BlockSide) ELSE x % BlockSide
<1> DEFINE k == x \div BlockSide
           r == x % BlockSide
           m == Mirror(x, n * BlockSide)
<1>1. BlockSide \in Nat \ {0} /\ n * BlockSide \in Nat /\ n * BlockSide = BlockSide * n
  BY TransAssumption
<1>2. k \in Int /\ r \in 0..(BlockSide - 1) /\ x = (BlockSide * k) + r
  BY <1>1, DivBounds
<1> HIDE DEF k, r
<1>3. CASE k < n
  <2>1. BlockSide * (k + 1) <= BlockSide * n /\ BlockSide * (k + 1) = (BlockSide * k) + BlockSide
    BY <1>1, <1>2, <1>3
  <2>2. BlockSide * k \in Int
    BY <1>1, <1>2
  <2>3. x < n * BlockSide
    BY <1>1, <1>2, <2>1, <2>2
  <2>4. m = (n * BlockSide) - 1 - x
    BY <2>3 DEF Mirror
  <2> DEFINE j == n - 1 - k
             s == BlockSide - 1 - r
  <2>5. j \in Int /\ s \in 0..(BlockSide - 1)
    BY <1>1, <1>2
  <2>6. BlockSide * j = (BlockSide * n) - BlockSide - (BlockSide * k)
    BY <1>1, <1>2
  <2>7. m = (BlockSide * j) + s
    BY <1>1, <1>2, <2>2, <2>4, <2>6
  <2> HIDE DEF j, s, m
  <2>8. m \div BlockSide = j /\ m % BlockSide = s
    BY <1>1, <2>5, <2>7, DivUnique
  <2> QED BY <1>3, <2>8 DEF j, s, m, k, r
<1>4. CASE ~(k < n)
  <2>1. BlockSide * k >= BlockSide * n /\ BlockSide * k \in Int
    BY <1>1, <1>2, <1>4
  <2>2. ~(x < n * BlockSide)
    BY <1>1, <1>2, <2>1
  <2>3. m = x
    BY <2>2 DEF Mirror
  <2> HIDE DEF m
  <2> QED BY <1>4, <2>3 DEF m, k, r
<1> QED BY <1>3, <1>4

\* A block mirrored as at a place of the output.
Mirrored(fy, fx, b) ==
    IF fy THEN IF fx THEN FlipXY(b) ELSE FlipY(b)
          ELSE IF fx THEN FlipX(b) ELSE b

LEMMA MirroredShown ==
    ASSUME NEW fy \in BOOLEAN, NEW fx \in BOOLEAN, NEW b, IsBlock(b), NEW q, IsBlock(q),
           NEW y \in Side, NEW x \in Side
    PROVE  Shown(Mirrored(fy, fx, b), q, y, x) =
               Shown(b, q, IF fy THEN BlockSide - 1 - y ELSE y, IF fx THEN BlockSide - 1 - x ELSE x)
<1>1. CASE fy /\ fx
  BY <1>1, FlipXYShown DEF Mirrored
<1>2. CASE fy /\ ~fx
  BY <1>2, FlipYShown DEF Mirrored
<1>3. CASE ~fy /\ fx
  BY <1>3, FlipXShown DEF Mirrored
<1>4. CASE ~fy /\ ~fx
  BY <1>4 DEF Mirrored
<1> QED BY <1>1, <1>2, <1>3, <1>4

\* Whether a block is mirrored, and the place it comes from (its row and column swapped when the
\* picture is turned).
FlipsX(e, c, t, a) == MirrorsX(t) /\ a[2] < CompWidth(e, c)
FlipsY(e, c, t, a) == MirrorsY(t) /\ a[1] < CompHeight(e, c)
FromX(e, c, t, a) == IF FlipsX(e, c, t, a) THEN CompWidth(e, c) - 1 - a[2] ELSE a[2]
FromY(e, c, t, a) == IF FlipsY(e, c, t, a) THEN CompHeight(e, c) - 1 - a[1] ELSE a[1]
Origin(e, c, t, a) ==
    IF t \in Turning THEN <<FromX(e, c, t, a), FromY(e, c, t, a)>> ELSE <<FromY(e, c, t, a), FromX(e, c, t, a)>>
MovedBlock(e, c, t, s, a) ==
    Mirrored(FlipsY(e, c, t, a), FlipsX(e, c, t, a),
             IF t \in Turning THEN Transpose(s[Origin(e, c, t, a)]) ELSE s[Origin(e, c, t, a)])

LEMMA CodedBlocks ==
    ASSUME NEW im, NEW c \in DOMAIN im.comps, c \in Int, NEW a \in PaddedArea(im, c), a[1] \in Int, a[2] \in Int
    PROVE  IsBlock(Coded(im)[c][a])
<1>1. Coded(im)[c][a] = [p \in Places |-> Coefficient(c, a[1], a[2], p)]
  BY DEF Coded
<1>2. ASSUME NEW p \in Places PROVE Coefficient(c, a[1], a[2], p) \in Int
  <2> DEFINE i == p[1]
             j == p[2]
             y == a[1]
             x == a[2]
  <2>1. i \in Int /\ j \in Int /\ BlockSide \in Int
    BY PlaceOf, TransAssumption
  <2>2. Coefficient(c, a[1], a[2], p) = 1 + 3 * (c - 1) + 7 * y + 31 * x + (i * BlockSide + j) * 11
    BY DEF Coefficient
  <2> HIDE DEF i, j, y, x
  <2>3. y \in Int /\ x \in Int
    BY DEF y, x
  <2>4. i * BlockSide \in Int
    BY <2>1
  <2> QED BY <2>1, <2>2, <2>3, <2>4
<1> QED BY <1>1, <1>2 DEF IsBlock

\* The place a block comes from is one of the source's.
LEMMA OriginThere ==
    ASSUME NEW im, IsPicture(im), NEW e, IsPicture(e), NEW t, Matches(e, im, t \in Turning),
           NEW c \in DOMAIN e.comps, NEW a \in ShownArea(e, c)
    PROVE  /\ c \in DOMAIN im.comps
           /\ Origin(e, c, t, a) \in PaddedArea(im, c)
           /\ Origin(e, c, t, a)[1] \in Int /\ Origin(e, c, t, a)[2] \in Int
<1> DEFINE w == Width_in_blocks(e, c)
           h == Height_in_blocks(e, c)
           cw == CompWidth(e, c)
           ch == CompHeight(e, c)
           fx == FromX(e, c, t, a)
           fy == FromY(e, c, t, a)
<1>1. w \in Nat /\ h \in Nat /\ cw \in Nat /\ ch \in Nat /\ cw <= w /\ ch <= h
  BY Sizes
<1>2. c \in DOMAIN im.comps
  BY DEF Matches
<1>3. a[1] \in 0..(h - 1) /\ a[2] \in 0..(w - 1)
  BY DEF ShownArea
<1>4. fx \in 0..(w - 1)
  <2>1. fx = a[2] \/ (a[2] < cw /\ fx = cw - 1 - a[2])
    BY DEF FromX, FlipsX
  <2> HIDE DEF fx, w, cw
  <2> QED BY <2>1, <1>1, <1>3
<1>5. fy \in 0..(h - 1)
  <2>1. fy = a[1] \/ (a[1] < ch /\ fy = ch - 1 - a[1])
    BY DEF FromY, FlipsY
  <2> HIDE DEF fy, h, ch
  <2> QED BY <2>1, <1>1, <1>3
<1> DEFINE iw == Width_in_blocks(im, c)
           ih == Height_in_blocks(im, c)
<1>6. iw \in Nat /\ ih \in Nat
  BY <1>2, Sizes
<1>7. ShownArea(im, c) \subseteq PaddedArea(im, c) /\ ShownArea(im, c) = (0..(ih - 1)) \X (0..(iw - 1))
  BY <1>2, ShownPadded DEF ShownArea
<1>8. CASE t \in Turning
  <2>1. w <= ih /\ h <= iw
    BY <1>8 DEF Matches
  <2>2. Origin(e, c, t, a) = <<fx, fy>>
    BY <1>8 DEF Origin
  <2> HIDE DEF w, h, iw, ih, fx, fy
  <2>3. fx \in 0..(ih - 1) /\ fy \in 0..(iw - 1)
    BY <1>1, <1>4, <1>5, <1>6, <2>1
  <2> QED BY <1>2, <1>7, <2>2, <2>3
<1>9. CASE ~(t \in Turning)
  <2>1. w <= iw /\ h <= ih
    BY <1>9 DEF Matches
  <2>2. Origin(e, c, t, a) = <<fy, fx>>
    BY <1>9 DEF Origin
  <2> HIDE DEF w, h, iw, ih, fx, fy
  <2>3. fx \in 0..(iw - 1) /\ fy \in 0..(ih - 1)
    BY <1>1, <1>4, <1>5, <1>6, <2>1
  <2> QED BY <1>2, <1>7, <2>2, <2>3
<1> QED BY <1>8, <1>9

\* A sample of blocks that are moved is the source's at the place it comes from.
LEMMA SampleMoved ==
    ASSUME NEW im, IsPicture(im), NEW e, IsPicture(e), NEW t, Matches(e, im, t \in Turning),
           NEW c \in DOMAIN e.comps, c \in Int, NEW outs,
           \A a \in ShownArea(e, c) : outs[c][a] = MovedBlock(e, c, t, Coded(im)[c], a),
           NEW y \in 0..(Height_in_blocks(e, c) * BlockSide - 1),
           NEW x \in 0..(Width_in_blocks(e, c) * BlockSide - 1)
    PROVE  LET my == IF MirrorsY(t) THEN Mirror(y, CompHeight(e, c) * BlockSide) ELSE y
               mx == IF MirrorsX(t) THEN Mirror(x, CompWidth(e, c) * BlockSide) ELSE x
           IN  Sample(e, c, outs, y, x) = IF t \in Turning THEN Sample(im, c, Coded(im), mx, my)
                                                           ELSE Sample(im, c, Coded(im), my, mx)
<1> DEFINE my == IF MirrorsY(t) THEN Mirror(y, CompHeight(e, c) * BlockSide) ELSE y
           mx == IF MirrorsX(t) THEN Mirror(x, CompWidth(e, c) * BlockSide) ELSE x
           a == <<y \div BlockSide, x \div BlockSide>>
           fy == FlipsY(e, c, t, a)
           fx == FlipsX(e, c, t, a)
           yy == y % BlockSide
           xx == x % BlockSide
           b == Coded(im)[c][Origin(e, c, t, a)]
           q == im.slots[im.comps[c].q]
           qe == e.slots[e.comps[c].q]
<1>1. /\ Width_in_blocks(e, c) \in Nat /\ Height_in_blocks(e, c) \in Nat
      /\ CompWidth(e, c) \in Nat /\ CompHeight(e, c) \in Nat
  BY Sizes
<1>2. /\ a \in ShownArea(e, c) /\ yy \in Side /\ xx \in Side /\ y \in Nat /\ x \in Nat
  <2>1. y \div BlockSide \in 0..(Height_in_blocks(e, c) - 1) /\ yy \in Side /\ y \in Nat
    BY <1>1, BlockOf
  <2>2. x \div BlockSide \in 0..(Width_in_blocks(e, c) - 1) /\ xx \in Side /\ x \in Nat
    BY <1>1, BlockOf
  <2> QED BY <2>1, <2>2 DEF ShownArea
<1>3. fy \in BOOLEAN /\ fx \in BOOLEAN
  BY DEF FlipsY, FlipsX, MirrorsX, MirrorsY
<1>4. /\ my \div BlockSide = FromY(e, c, t, a) /\ my % BlockSide = IF fy THEN BlockSide - 1 - yy ELSE yy
  <2>1. CASE MirrorsY(t)
    <3>1. fy <=> y \div BlockSide < CompHeight(e, c)
      BY <2>1 DEF FlipsY
    <3>2. my = Mirror(y, CompHeight(e, c) * BlockSide)
      BY <2>1
    <3>3. LET m == Mirror(y, CompHeight(e, c) * BlockSide)
          IN  /\ m \div BlockSide = IF y \div BlockSide < CompHeight(e, c)
                                    THEN CompHeight(e, c) - 1 - (y \div BlockSide) ELSE y \div BlockSide
              /\ m % BlockSide = IF y \div BlockSide < CompHeight(e, c)
                                 THEN BlockSide - 1 - (y % BlockSide) ELSE y % BlockSide
      BY <1>1, <1>2, MirrorOf
    <3> QED BY <3>1, <3>2, <3>3 DEF FromY
  <2>2. CASE ~MirrorsY(t)
    BY <2>2 DEF FlipsY, FromY
  <2> QED BY <2>1, <2>2
<1>5. /\ mx \div BlockSide = FromX(e, c, t, a) /\ mx % BlockSide = IF fx THEN BlockSide - 1 - xx ELSE xx
  <2>1. CASE MirrorsX(t)
    <3>1. fx <=> x \div BlockSide < CompWidth(e, c)
      BY <2>1 DEF FlipsX
    <3>2. mx = Mirror(x, CompWidth(e, c) * BlockSide)
      BY <2>1
    <3>3. LET m == Mirror(x, CompWidth(e, c) * BlockSide)
          IN  /\ m \div BlockSide = IF x \div BlockSide < CompWidth(e, c)
                                    THEN CompWidth(e, c) - 1 - (x \div BlockSide) ELSE x \div BlockSide
              /\ m % BlockSide = IF x \div BlockSide < CompWidth(e, c)
                                 THEN BlockSide - 1 - (x % BlockSide) ELSE x % BlockSide
      BY <1>1, <1>2, MirrorOf
    <3> QED BY <3>1, <3>2, <3>3 DEF FromX
  <2>2. CASE ~MirrorsX(t)
    BY <2>2 DEF FlipsX, FromX
  <2> QED BY <2>1, <2>2
<1>6. IsBlock(b)
  <2> HIDE DEF a
  <2>1. /\ c \in DOMAIN im.comps /\ Origin(e, c, t, a) \in PaddedArea(im, c)
        /\ Origin(e, c, t, a)[1] \in Int /\ Origin(e, c, t, a)[2] \in Int
    BY <1>2, OriginThere
  <2> QED BY <2>1, CodedBlocks
<1>7. IsBlock(q)
  <2>1. c \in DOMAIN im.comps
    BY DEF Matches
  <2>2. im.comps[c].q \in DOMAIN im.slots
    BY <2>1 DEF IsPicture
  <2> QED BY <2>2 DEF IsPicture
<1>8. Sample(e, c, outs, y, x) = Shown(outs[c][a], qe, yy, xx)
  BY SampleShown
<1>9. outs[c][a] = MovedBlock(e, c, t, Coded(im)[c], a)
  BY <1>2
<1> DEFINE vy == IF fy THEN BlockSide - 1 - yy ELSE yy
           vx == IF fx THEN BlockSide - 1 - xx ELSE xx
<1>10. vy \in Side /\ vx \in Side
  <2>1. \A i \in Side : BlockSide - 1 - i \in Side
    BY TransAssumption DEF Side
  <2> QED BY <1>2, <2>1
<1>11. CASE t \in Turning
  <2>1. qe = Transpose(q)
    BY <1>11 DEF Matches
  <2>2. MovedBlock(e, c, t, Coded(im)[c], a) = Mirrored(fy, fx, Transpose(b))
    BY <1>11 DEF MovedBlock
  <2>3. IsBlock(Transpose(b)) /\ IsBlock(Transpose(q))
    BY <1>6, <1>7, FlippedBlocks
  <2>4. /\ Sample(im, c, Coded(im), mx, my) = Shown(Coded(im)[c][<<FromX(e, c, t, a), FromY(e, c, t, a)>>], q, vx, vy)
    BY <1>4, <1>5, SampleShown
  <2>5. Origin(e, c, t, a) = <<FromX(e, c, t, a), FromY(e, c, t, a)>>
    BY <1>11 DEF Origin
  <2> HIDE DEF my, mx, a, fy, fx, yy, xx, b, q, qe
  <2>6. Shown(Mirrored(fy, fx, Transpose(b)), Transpose(q), yy, xx) = Shown(Transpose(b), Transpose(q), vy, vx)
    BY <1>2, <1>3, <2>3, MirroredShown
  <2> HIDE DEF vy, vx
  <2>7. Shown(Transpose(b), Transpose(q), vy, vx) = Shown(b, q, vx, vy)
    BY <1>6, <1>7, <1>10, TransposeShown
  <2>8. Sample(im, c, Coded(im), mx, my) = Shown(b, q, vx, vy)
    BY <2>4, <2>5 DEF b
  <2>9. Sample(e, c, outs, y, x) = Sample(im, c, Coded(im), mx, my)
    BY <1>8, <1>9, <2>1, <2>2, <2>6, <2>7, <2>8
  <2> QED BY <1>11, <2>9 DEF mx, my
<1>12. CASE ~(t \in Turning)
  <2>1. qe = q
    BY <1>12 DEF Matches
  <2>2. MovedBlock(e, c, t, Coded(im)[c], a) = Mirrored(fy, fx, b)
    BY <1>12 DEF MovedBlock
  <2>3. /\ Sample(im, c, Coded(im), my, mx) = Shown(Coded(im)[c][<<FromY(e, c, t, a), FromX(e, c, t, a)>>], q, vy, vx)
    BY <1>4, <1>5, SampleShown
  <2>4. Origin(e, c, t, a) = <<FromY(e, c, t, a), FromX(e, c, t, a)>>
    BY <1>12 DEF Origin
  <2> HIDE DEF my, mx, a, fy, fx, yy, xx, b, q, qe
  <2>5. Shown(Mirrored(fy, fx, b), q, yy, xx) = Shown(b, q, vy, vx)
    BY <1>2, <1>3, <1>6, <1>7, MirroredShown
  <2> HIDE DEF vy, vx
  <2>6. Sample(im, c, Coded(im), my, mx) = Shown(b, q, vy, vx)
    BY <2>3, <2>4 DEF b
  <2>7. Sample(e, c, outs, y, x) = Sample(im, c, Coded(im), my, mx)
    BY <1>8, <1>9, <2>1, <2>2, <2>5, <2>6
  <2> QED BY <1>12, <2>7 DEF mx, my
<1> QED BY <1>11, <1>12

-----------------------------------------------------------------------------
(* The routines.                                                           *)

\* The blocks of an array that is as large as the padded source, turned or not.
SourceArea(im, c, t) ==
    IF t \in Turning THEN {<<p[2], p[1]>> : p \in PaddedArea(im, c)} ELSE PaddedArea(im, c)

LEMMA ShownInSource ==
    ASSUME NEW im, IsPicture(im), NEW e, IsPicture(e), NEW t, Matches(e, im, t \in Turning),
           NEW c \in DOMAIN e.comps, NEW a \in ShownArea(e, c)
    PROVE  a \in SourceArea(im, c, t)
<1> DEFINE w == Width_in_blocks(e, c)
           h == Height_in_blocks(e, c)
           iw == Width_in_blocks(im, c)
           ih == Height_in_blocks(im, c)
<1>1. c \in DOMAIN im.comps
  BY DEF Matches
<1>2. w \in Nat /\ h \in Nat /\ iw \in Nat /\ ih \in Nat
  BY <1>1, Sizes
<1>3. a[1] \in 0..(h - 1) /\ a[2] \in 0..(w - 1) /\ a = <<a[1], a[2]>>
  BY DEF ShownArea
<1>4. ShownArea(im, c) \subseteq PaddedArea(im, c) /\ ShownArea(im, c) = (0..(ih - 1)) \X (0..(iw - 1))
  BY <1>1, ShownPadded DEF ShownArea
<1>5. CASE t \in Turning
  <2>1. w <= ih /\ h <= iw
    BY <1>5 DEF Matches
  <2> DEFINE p == <<a[2], a[1]>>
  <2>2. p \in ShownArea(im, c) /\ <<p[2], p[1]>> = a
    <3> HIDE DEF w, h, iw, ih
    <3> QED BY <1>2, <1>3, <1>4, <2>1
  <2> QED BY <1>4, <1>5, <2>2 DEF SourceArea
<1>6. CASE ~(t \in Turning)
  <2>1. w <= iw /\ h <= ih
    BY <1>6 DEF Matches
  <2>2. a \in ShownArea(im, c)
    <3> HIDE DEF w, h, iw, ih
    <3> QED BY <1>2, <1>3, <1>4, <2>1
  <2> QED BY <1>4, <1>6, <2>2 DEF SourceArea
<1> QED BY <1>5, <1>6

LEMMA ShownReached ==
    ASSUME NEW e, IsPicture(e), NEW c \in DOMAIN e.comps, NEW a \in ShownArea(e, c)
    PROVE  /\ a \in Reached(e, c) /\ a \in Columns(e, c) /\ a = <<a[1], a[2]>>
<1>1. a[2] \in 0..(Width_in_blocks(e, c) - 1) /\ Width_in_blocks(e, c) \in Nat /\ a = <<a[1], a[2]>>
  BY Sizes DEF ShownArea
<1>2. a \in PaddedArea(e, c)
  BY ShownPadded
<1> QED BY <1>1, <1>2 DEF Reached, Columns

\* What the routine of a transformation leaves in the workspace.
RoutineLeaves(e, t, c, s, w) ==
    CASE t = "FLIP_V"     -> Do_flip_v(e, c, s, w)
      [] t = "TRANSPOSE"  -> Do_transpose(e, c, s, w)
      [] t = "TRANSVERSE" -> Do_transverse(e, c, s, w)
      [] t = "ROT_90"     -> Do_rot_90(e, c, s, w)
      [] t = "ROT_180"    -> Do_rot_180(e, c, s, w)
      [] t = "ROT_270"    -> Do_rot_270(e, c, s, w)

LEMMA FlipVRight ==
    ASSUME NEW e, IsPicture(e), NEW c \in DOMAIN e.comps, NEW a \in ShownArea(e, c), NEW s, NEW w, a \in DOMAIN w
    PROVE  Do_flip_v(e, c, s, w)[a] = MovedBlock(e, c, "FLIP_V", s, a)
<1>1. a \in Columns(e, c) /\ a = <<a[1], a[2]>>
  BY ShownReached
<1>2. Do_flip_v(e, c, s, w)[a] =
          IF a[1] < CompHeight(e, c) THEN FlipY(s[<<CompHeight(e, c) - 1 - a[1], a[2]>>]) ELSE s[a]
  BY <1>1 DEF Do_flip_v, Filled
<1>3. /\ ~FlipsX(e, c, "FLIP_V", a) /\ (FlipsY(e, c, "FLIP_V", a) <=> a[1] < CompHeight(e, c))
      /\ "FLIP_V" \notin Turning
  BY DEF FlipsX, FlipsY, MirrorsX, MirrorsY, Turning
<1> QED BY <1>1, <1>2, <1>3 DEF MovedBlock, Origin, FromX, FromY, Mirrored

LEMMA TransposeMoves ==
    ASSUME NEW e, IsPicture(e), NEW c \in DOMAIN e.comps, NEW a \in ShownArea(e, c), NEW s, NEW w, a \in DOMAIN w
    PROVE  Do_transpose(e, c, s, w)[a] = MovedBlock(e, c, "TRANSPOSE", s, a)
<1>1. a \in Reached(e, c) /\ a = <<a[1], a[2]>>
  BY ShownReached
<1>2. Do_transpose(e, c, s, w)[a] = Transpose(s[<<a[2], a[1]>>])
  BY <1>1 DEF Do_transpose, Filled
<1>3. ~FlipsX(e, c, "TRANSPOSE", a) /\ ~FlipsY(e, c, "TRANSPOSE", a) /\ "TRANSPOSE" \in Turning
  BY DEF FlipsX, FlipsY, MirrorsX, MirrorsY, Turning
<1> QED BY <1>1, <1>2, <1>3 DEF MovedBlock, Origin, FromX, FromY, Mirrored

LEMMA Rot90Right ==
    ASSUME NEW e, IsPicture(e), NEW c \in DOMAIN e.comps, NEW a \in ShownArea(e, c), NEW s, NEW w, a \in DOMAIN w
    PROVE  Do_rot_90(e, c, s, w)[a] = MovedBlock(e, c, "ROT_90", s, a)
<1>1. a \in Reached(e, c) /\ a = <<a[1], a[2]>>
  BY ShownReached
<1>2. Do_rot_90(e, c, s, w)[a] =
          IF a[2] < CompWidth(e, c) THEN FlipX(Transpose(s[<<CompWidth(e, c) - 1 - a[2], a[1]>>]))
                                    ELSE Transpose(s[<<a[2], a[1]>>])
  BY <1>1 DEF Do_rot_90, Filled
<1>3. /\ ~FlipsY(e, c, "ROT_90", a) /\ (FlipsX(e, c, "ROT_90", a) <=> a[2] < CompWidth(e, c))
      /\ "ROT_90" \in Turning
  BY DEF FlipsX, FlipsY, MirrorsX, MirrorsY, Turning
<1> QED BY <1>1, <1>2, <1>3 DEF MovedBlock, Origin, FromX, FromY, Mirrored

LEMMA Rot270Right ==
    ASSUME NEW e, IsPicture(e), NEW c \in DOMAIN e.comps, NEW a \in ShownArea(e, c), NEW s, NEW w, a \in DOMAIN w
    PROVE  Do_rot_270(e, c, s, w)[a] = MovedBlock(e, c, "ROT_270", s, a)
<1>1. a \in Reached(e, c) /\ a = <<a[1], a[2]>>
  BY ShownReached
<1>2. Do_rot_270(e, c, s, w)[a] =
          IF a[1] < CompHeight(e, c) THEN FlipY(Transpose(s[<<a[2], CompHeight(e, c) - 1 - a[1]>>]))
                                     ELSE Transpose(s[<<a[2], a[1]>>])
  BY <1>1 DEF Do_rot_270, Filled
<1>3. /\ ~FlipsX(e, c, "ROT_270", a) /\ (FlipsY(e, c, "ROT_270", a) <=> a[1] < CompHeight(e, c))
      /\ "ROT_270" \in Turning
  BY DEF FlipsX, FlipsY, MirrorsX, MirrorsY, Turning
<1> QED BY <1>1, <1>2, <1>3 DEF MovedBlock, Origin, FromX, FromY, Mirrored

LEMMA Rot180Right ==
    ASSUME NEW e, IsPicture(e), NEW c \in DOMAIN e.comps, NEW a \in ShownArea(e, c), NEW s, NEW w, a \in DOMAIN w
    PROVE  Do_rot_180(e, c, s, w)[a] = MovedBlock(e, c, "ROT_180", s, a)
<1> DEFINE ch == CompHeight(e, c)
           cw == CompWidth(e, c)
           from == <<IF a[1] < ch THEN ch - 1 - a[1] ELSE a[1], IF a[2] < cw THEN cw - 1 - a[2] ELSE a[2]>>
<1>1. a \in Columns(e, c) /\ a = <<a[1], a[2]>>
  BY ShownReached
<1>2. Do_rot_180(e, c, s, w)[a] =
          IF a[1] < ch THEN IF a[2] < cw THEN FlipXY(s[from]) ELSE FlipY(s[from])
                       ELSE IF a[2] < cw THEN FlipX(s[from]) ELSE s[a]
  BY <1>1 DEF Do_rot_180, Filled
<1>3. /\ FlipsX(e, c, "ROT_180", a) <=> a[2] < cw
      /\ FlipsY(e, c, "ROT_180", a) <=> a[1] < ch
      /\ "ROT_180" \notin Turning
  BY DEF FlipsX, FlipsY, MirrorsX, MirrorsY, Turning
<1> QED BY <1>1, <1>2, <1>3 DEF MovedBlock, Origin, FromX, FromY, Mirrored

LEMMA TransverseRight ==
    ASSUME NEW e, IsPicture(e), NEW c \in DOMAIN e.comps, NEW a \in ShownArea(e, c), NEW s, NEW w, a \in DOMAIN w
    PROVE  Do_transverse(e, c, s, w)[a] = MovedBlock(e, c, "TRANSVERSE", s, a)
<1> DEFINE ch == CompHeight(e, c)
           cw == CompWidth(e, c)
           from == <<IF a[2] < cw THEN cw - 1 - a[2] ELSE a[2], IF a[1] < ch THEN ch - 1 - a[1] ELSE a[1]>>
<1>1. a \in Reached(e, c) /\ a = <<a[1], a[2]>>
  BY ShownReached
<1>2. Do_transverse(e, c, s, w)[a] =
          IF a[1] < ch THEN IF a[2] < cw THEN FlipXY(Transpose(s[from])) ELSE FlipY(Transpose(s[from]))
                       ELSE IF a[2] < cw THEN FlipX(Transpose(s[from])) ELSE Transpose(s[from])
  BY <1>1 DEF Do_transverse, Filled
<1>3. /\ FlipsX(e, c, "TRANSVERSE", a) <=> a[2] < cw
      /\ FlipsY(e, c, "TRANSVERSE", a) <=> a[1] < ch
      /\ "TRANSVERSE" \in Turning
  BY DEF FlipsX, FlipsY, MirrorsX, MirrorsY, Turning
<1> QED BY <1>1, <1>2, <1>3 DEF MovedBlock, Origin, FromX, FromY, Mirrored

\* In place: NONE leaves the blocks where they are.
LEMMA FlipHRight ==
    ASSUME NEW e, IsPicture(e), NEW c \in DOMAIN e.comps, NEW a \in ShownArea(e, c), NEW s, a \in DOMAIN s
    PROVE  Do_flip_h(e, c, s)[a] = MovedBlock(e, c, "FLIP_H", s, a)
<1>1. a \in Reached(e, c) /\ a = <<a[1], a[2]>>
  BY ShownReached
<1>2. Do_flip_h(e, c, s)[a] =
          IF a[2] < CompWidth(e, c) THEN FlipX(s[<<a[1], CompWidth(e, c) - 1 - a[2]>>]) ELSE s[a]
  BY <1>1 DEF Do_flip_h, Filled
<1>3. /\ ~FlipsY(e, c, "FLIP_H", a) /\ (FlipsX(e, c, "FLIP_H", a) <=> a[2] < CompWidth(e, c))
      /\ "FLIP_H" \notin Turning
  BY DEF FlipsX, FlipsY, MirrorsX, MirrorsY, Turning
<1> QED BY <1>1, <1>2, <1>3 DEF MovedBlock, Origin, FromX, FromY, Mirrored

LEMMA NoneRight ==
    ASSUME NEW e, IsPicture(e), NEW c \in DOMAIN e.comps, NEW a \in ShownArea(e, c), NEW s
    PROVE  s[a] = MovedBlock(e, c, "NONE", s, a)
<1>1. a = <<a[1], a[2]>>
  BY ShownReached
<1>2. ~FlipsX(e, c, "NONE", a) /\ ~FlipsY(e, c, "NONE", a) /\ "NONE" \notin Turning
  BY DEF FlipsX, FlipsY, MirrorsX, MirrorsY, Turning
<1> QED BY <1>1, <1>2 DEF MovedBlock, Origin, FromX, FromY, Mirrored

-----------------------------------------------------------------------------
(* The markers.                                                            *)

Marker == Kinds \X Nat
IsList(v) == DOMAIN v = {"kinds", "list"} /\ v.list \in Seq(Marker)

\* given: of a second selection, its kinds and what it is after each marker.
SelectedToo(given, v, k) ==
    /\ IsList(v) /\ v.kinds = given[1]
    /\ given[2][k] = [kinds |-> given[1] \cap given[3], list |-> WithKinds(<<>>, v.list, given[3])]
\* given: the markers and a kind.
CountsKind(given, v, k) ==
    /\ IsList(v) /\ v.kinds = {given[2]}
    /\ Len(v.list) = 0 <=> \A i \in 1..k : given[1][i][1] # given[2]
    /\ Len(v.list) <= 1 <=> \A i, j \in 1..k : given[1][i][1] = given[2] /\ given[1][j][1] = given[2] => i = j
\* given: a list.
Continues(given, v, k) ==
    /\ IsList(v) /\ Len(v.list) >= Len(given) /\ \A i \in 1..Len(given) : v.list[i] = given[i]
\* given: kinds of which there are no markers.
TakesNone(given, v, k) == v = given
Selects   == INSTANCE FoldFacts WITH Op <- Take, P <- SelectedToo
CountsOf  == INSTANCE FoldFacts WITH Op <- Take, P <- CountsKind
GoesOn    == INSTANCE FoldFacts WITH Op <- Take, P <- Continues
TakesNo   == INSTANCE FoldFacts WITH Op <- Take, P <- TakesNone

LEMMA TakeFolds ==
    ASSUME NEW base, NEW s
    PROVE  /\ FoldLeft(Take, base, s) = Selects!Fold(base, s)
           /\ FoldLeft(Take, base, s) = CountsOf!Fold(base, s)
           /\ FoldLeft(Take, base, s) = GoesOn!Fold(base, s)
           /\ FoldLeft(Take, base, s) = TakesNo!Fold(base, s)
<1>1. FoldLeft(Take, base, s) = Selects!Fold(base, s)
  BY DEF FoldLeft, Selects!Fold, MapThenFoldSet, Max, Selects!Greatest
<1>2. FoldLeft(Take, base, s) = CountsOf!Fold(base, s)
  BY DEF FoldLeft, CountsOf!Fold, MapThenFoldSet, Max, CountsOf!Greatest
<1>3. FoldLeft(Take, base, s) = GoesOn!Fold(base, s)
  BY DEF FoldLeft, GoesOn!Fold, MapThenFoldSet, Max, GoesOn!Greatest
<1>4. FoldLeft(Take, base, s) = TakesNo!Fold(base, s)
  BY DEF FoldLeft, TakesNo!Fold, MapThenFoldSet, Max, TakesNo!Greatest
<1> QED BY <1>1, <1>2, <1>3, <1>4

\* One marker is taken or not.
LEMMA TakeOne ==
    ASSUME NEW v, IsList(v), NEW m \in Marker
    PROVE  /\ IsList(Take(v, m)) /\ Take(v, m).kinds = v.kinds
           /\ Take(v, m).list = IF m[1] \in v.kinds THEN Append(v.list, m) ELSE v.list
<1>1. CASE m[1] \in v.kinds
  <2>1. Take(v, m) = [v EXCEPT !.list = Append(@, m)]
    BY <1>1 DEF Take
  <2>2. Append(v.list, m) \in Seq(Marker)
    BY DEF IsList
  <2> QED BY <1>1, <2>1, <2>2 DEF IsList
<1>2. CASE m[1] \notin v.kinds
  BY <1>2 DEF Take
<1> QED BY <1>1, <1>2

LEMMA NoMarkers ==
    ASSUME NEW list, NEW kinds
    PROVE  WithKinds(list, <<>>, kinds) = list
<1> DEFINE base == [kinds |-> kinds, list |-> list]
<1>1. Selects!Fold(base, <<>>) = base
  <2> HIDE DEF base
  <2> QED BY Selects!FoldNone
<1>2. FoldLeft(Take, base, <<>>) = base
  BY <1>1, TakeFolds
<1> QED BY <1>2 DEF WithKinds

\* What a selection starts with stays.
LEMMA Begins ==
    ASSUME NEW list \in Seq(Marker), NEW markers \in Seq(Marker), NEW kinds
    PROVE  /\ WithKinds(list, markers, kinds) \in Seq(Marker)
           /\ Len(WithKinds(list, markers, kinds)) >= Len(list)
           /\ \A i \in 1..Len(list) : WithKinds(list, markers, kinds)[i] = list[i]
<1> DEFINE base == [kinds |-> kinds, list |-> list]
<1>1. Continues(list, base, 0)
  BY DEF Continues, IsList
<1>2. ASSUME NEW k \in 1..Len(markers), NEW v, Continues(list, v, k - 1)
      PROVE  Continues(list, Take(v, markers[k]), k)
  <2> DEFINE m == markers[k]
             w == Take(v, m)
  <2>1. m \in Marker
    OBVIOUS
  <2>2. IsList(v) /\ Len(v.list) >= Len(list) /\ \A i \in 1..Len(list) : v.list[i] = list[i]
    BY <1>2 DEF Continues
  <2> HIDE DEF m
  <2>3. IsList(w) /\ (w.list = v.list \/ w.list = Append(v.list, m))
    BY <2>1, <2>2, TakeOne
  <2> HIDE DEF w
  <2>4. v.list \in Seq(Marker)
    BY <2>2 DEF IsList
  <2>5. Len(w.list) >= Len(list) /\ \A i \in 1..Len(list) : w.list[i] = list[i]
    <3>1. CASE w.list = v.list
      BY <2>2, <3>1
    <3>2. CASE w.list = Append(v.list, m)
      <4> DEFINE l == v.list
      <4>1. l \in Seq(Marker) /\ Len(l) \in Nat /\ Len(list) \in Nat /\ Len(l) >= Len(list)
        BY <2>2, <2>4
      <4> HIDE DEF l
      <4>2. Len(Append(l, m)) = Len(l) + 1 /\ \A i \in 1..Len(l) : Append(l, m)[i] = l[i]
        BY <2>1, <4>1
      <4> QED BY <2>2, <3>2, <4>1, <4>2 DEF l
    <3> QED BY <2>3, <3>1, <3>2
  <2>6. Continues(list, w, k)
    BY <2>3, <2>5 DEF Continues
  <2> QED BY <2>6 DEF w, m
<1> HIDE DEF base
<1>3. \A k \in 1..Len(markers) : \A v : Continues(list, v, k - 1) => Continues(list, Take(v, markers[k]), k)
  BY <1>2
<1>4. Continues(list, GoesOn!Fold(base, markers), Len(markers))
  BY <1>1, <1>3, GoesOn!FoldKeeps
<1>5. WithKinds(list, markers, kinds) = GoesOn!Fold(base, markers).list
  BY TakeFolds DEF WithKinds, base
<1> QED BY <1>4, <1>5 DEF Continues, IsList

\* Of no kind nothing is selected.
LEMMA NoKinds ==
    ASSUME NEW list, NEW markers \in Seq(Marker)
    PROVE  WithKinds(list, markers, {}) = list
<1> DEFINE base == [kinds |-> {}, list |-> list]
<1>1. TakesNone(base, base, 0)
  BY DEF TakesNone
<1>2. \A k \in 1..Len(markers) : \A v : TakesNone(base, v, k - 1) => TakesNone(base, Take(v, markers[k]), k)
  BY DEF TakesNone, Take
<1>3. TakesNone(base, TakesNo!Fold(base, markers), Len(markers))
  <2> HIDE DEF base
  <2> QED BY <1>1, <1>2, TakesNo!FoldKeeps
<1>4. FoldLeft(Take, base, markers) = base
  BY <1>3, TakeFolds DEF TakesNone
<1> QED BY <1>4 DEF WithKinds

\* One marker more.
LEMMA SelectMore ==
    ASSUME NEW list \in Seq(Marker), NEW markers \in Seq(Marker), NEW m \in Marker, NEW kinds
    PROVE  WithKinds(list, Append(markers, m), kinds) =
               IF m[1] \in kinds THEN Append(WithKinds(list, markers, kinds), m) ELSE WithKinds(list, markers, kinds)
<1> DEFINE base == [kinds |-> kinds, list |-> list]
           v == FoldLeft(Take, base, markers)
<1>1. FoldLeft(Take, base, Append(markers, m)) = Take(v, m)
  <2> HIDE DEF base
  <2>1. Selects!Fold(base, Append(markers, m)) = Take(Selects!Fold(base, markers), m)
    BY Selects!FoldOne
  <2> QED BY <2>1, TakeFolds
<1>2. IsList(v) /\ v.kinds = kinds
  <2>1. ASSUME NEW k \in 1..Len(markers), NEW u, IsList(u) /\ u.kinds = kinds
        PROVE  IsList(Take(u, markers[k])) /\ Take(u, markers[k]).kinds = kinds
    <3>1. markers[k] \in Marker
      OBVIOUS
    <3> QED BY <2>1, <3>1, TakeOne
  <2> HIDE DEF base
  <2>2. PICK h : Selects!Leads(h, base, markers)
    BY Selects!FoldSteps
  <2>3. /\ h[0] = base /\ h[Len(markers)] = v
        /\ \A k \in 1..Len(markers) : h[k] = Take(h[k - 1], markers[k])
    BY <2>2, TakeFolds DEF Selects!Leads
  <2> HIDE DEF v
  <2> DEFINE Bad == {k \in 0..Len(markers) : ~(IsList(h[k]) /\ h[k].kinds = kinds)}
  <2>4. ASSUME Bad # {} PROVE FALSE
    <3>1. PICK k \in Bad : \A j \in Bad : k <= j
      <4>1. Bad \subseteq Nat
        OBVIOUS
      <4> HIDE DEF Bad
      <4> QED BY <2>4, <4>1, LeastNumber
    <3>2. k # 0
      BY <2>3, <3>1 DEF base, IsList
    <3>3. k \in 1..Len(markers) /\ k - 1 \in 0..Len(markers) /\ k - 1 \notin Bad
      BY <3>1, <3>2
    <3> QED BY <2>1, <2>3, <3>1, <3>3
  <2>5. Len(markers) \in 0..Len(markers)
    OBVIOUS
  <2> QED BY <2>3, <2>4, <2>5
<1>3. WithKinds(list, Append(markers, m), kinds) = Take(v, m).list /\ WithKinds(list, markers, kinds) = v.list
  BY <1>1 DEF WithKinds
<1> HIDE DEF v
<1> QED BY <1>2, <1>3, TakeOne

\* To select from what was selected is to select once.
LEMMA SelectTwice ==
    ASSUME NEW list \in Seq(Marker), NEW markers \in Seq(Marker), NEW A, NEW B
    PROVE  WithKinds(<<>>, WithKinds(list, markers, A), B) = WithKinds(WithKinds(<<>>, list, B), markers, A \cap B)
<1> DEFINE base == [kinds |-> A, list |-> list]
           also == [kinds |-> A \cap B, list |-> WithKinds(<<>>, list, B)]
<1>1. PICK h : Selects!Leads(h, also, markers)
  <2> HIDE DEF also
  <2> QED BY Selects!FoldSteps
<1>2. /\ h[0] = also /\ h[Len(markers)] = FoldLeft(Take, also, markers)
      /\ \A k \in 1..Len(markers) : h[k] = Take(h[k - 1], markers[k])
  <2> HIDE DEF also
  <2> QED BY <1>1, TakeFolds DEF Selects!Leads
<1> DEFINE given == <<A, h, B>>
<1>3. SelectedToo(given, base, 0)
  BY <1>2 DEF SelectedToo, IsList
<1>4. ASSUME NEW k \in 1..Len(markers), NEW v, SelectedToo(given, v, k - 1)
      PROVE  SelectedToo(given, Take(v, markers[k]), k)
  <2> DEFINE m == markers[k]
             w == Take(v, m)
  <2>1. m \in Marker
    OBVIOUS
  <2>2. /\ IsList(v) /\ v.kinds = A
        /\ h[k - 1] = [kinds |-> A \cap B, list |-> WithKinds(<<>>, v.list, B)]
    BY <1>4 DEF SelectedToo
  <2>3. h[k] = Take(h[k - 1], m)
    BY <1>2
  <2> HIDE DEF m
  <2>4. IsList(w) /\ w.kinds = A /\ w.list = IF m[1] \in A THEN Append(v.list, m) ELSE v.list
    BY <2>1, <2>2, TakeOne
  <2> HIDE DEF w
  <2>5. v.list \in Seq(Marker) /\ <<>> \in Seq(Marker)
    BY <2>2 DEF IsList
  <2> DEFINE u == WithKinds(<<>>, v.list, B)
  <2>6. WithKinds(<<>>, Append(v.list, m), B) = IF m[1] \in B THEN Append(u, m) ELSE u
    <3> DEFINE l == v.list
               e == <<>>
    <3>1. l \in Seq(Marker) /\ e \in Seq(Marker)
      BY <2>5
    <3> HIDE DEF l, e
    <3>2. WithKinds(e, Append(l, m), B) = IF m[1] \in B THEN Append(WithKinds(e, l, B), m) ELSE WithKinds(e, l, B)
      BY <2>1, <3>1, SelectMore
    <3> QED BY <3>2 DEF l, e
  <2> HIDE DEF u
  <2>7. h[k] = [kinds |-> A \cap B, list |-> IF m[1] \in A \cap B THEN Append(u, m) ELSE u]
    <3> DEFINE r == [kinds |-> A \cap B, list |-> u]
    <3>1. h[k] = Take(r, m)
      BY <2>2, <2>3 DEF u
    <3>2. CASE m[1] \in A \cap B
      <4>1. Take(r, m) = [r EXCEPT !.list = Append(@, m)]
        BY <3>2 DEF Take
      <4>2. [r EXCEPT !.list = Append(@, m)] = [kinds |-> A \cap B, list |-> Append(u, m)]
        <5> DEFINE K == A \cap B
                   l == Append(u, m)
        <5>1. r = [kinds |-> K, list |-> u]
          OBVIOUS
        <5> HIDE DEF K, l, r
        <5>2. [r EXCEPT !.list = l] = [kinds |-> K, list |-> l]
          BY <5>1
        <5>3. r.list = u
          BY <5>1
        <5> QED BY <5>2, <5>3 DEF K, l
      <4> QED BY <3>1, <3>2, <4>1, <4>2
    <3>3. CASE m[1] \notin A \cap B
      <4>1. Take(r, m) = r
        BY <3>3 DEF Take
      <4> QED BY <3>1, <3>3, <4>1
    <3> QED BY <3>2, <3>3
  <2>8. WithKinds(<<>>, w.list, B) = IF m[1] \in A \cap B THEN Append(u, m) ELSE u
    <3>1. CASE m[1] \in A
      BY <2>4, <2>6, <3>1
    <3>2. CASE m[1] \notin A
      BY <2>4, <3>2 DEF u
    <3> QED BY <3>1, <3>2
  <2>9. SelectedToo(given, w, k)
    BY <2>4, <2>7, <2>8 DEF SelectedToo
  <2> QED BY <2>9 DEF w, m
<1> HIDE DEF base, given, also
<1>5. \A k \in 1..Len(markers) : \A v : SelectedToo(given, v, k - 1) => SelectedToo(given, Take(v, markers[k]), k)
  BY <1>4
<1>6. SelectedToo(given, Selects!Fold(base, markers), Len(markers))
  BY <1>3, <1>5, Selects!FoldKeeps
<1>7. WithKinds(list, markers, A) = Selects!Fold(base, markers).list
  BY TakeFolds DEF WithKinds, base
<1>8. h[Len(markers)].list = WithKinds(<<>>, WithKinds(list, markers, A), B)
  BY <1>6, <1>7 DEF SelectedToo, given
<1>9. h[Len(markers)].list = WithKinds(WithKinds(<<>>, list, B), markers, A \cap B)
  BY <1>2 DEF WithKinds, also
<1> QED BY <1>8, <1>9

\* A kind is there once at most when at most one marker of it is selected.
OnceIn(list, kind) == \A i, j \in DOMAIN list : list[i][1] = kind /\ list[j][1] = kind => i = j

LEMMA OnceSelected ==
    ASSUME NEW markers \in Seq(Marker), NEW kind
    PROVE  OnceIn(markers, kind) <=> Len(WithKinds(<<>>, markers, {kind})) <= 1
<1> DEFINE base == [kinds |-> {kind}, list |-> <<>>]
           given == <<markers, kind>>
<1>1. CountsKind(given, base, 0)
  BY DEF CountsKind, IsList
<1>2. ASSUME NEW k \in 1..Len(markers), NEW v, CountsKind(given, v, k - 1)
      PROVE  CountsKind(given, Take(v, markers[k]), k)
  <2> DEFINE m == markers[k]
             w == Take(v, m)
             Of(i) == markers[i][1] = kind
  <2>1. m \in Marker
    OBVIOUS
  <2>2. /\ IsList(v) /\ v.kinds = {kind}
        /\ Len(v.list) = 0 <=> \A i \in 1..(k - 1) : ~Of(i)
        /\ Len(v.list) <= 1 <=> \A i, j \in 1..(k - 1) : Of(i) /\ Of(j) => i = j
    BY <1>2 DEF CountsKind
  <2>3. IsList(w) /\ w.kinds = {kind} /\ w.list = IF Of(k) THEN Append(v.list, m) ELSE v.list
    <3> HIDE DEF m
    <3>1. m[1] \in {kind} <=> Of(k)
      BY DEF m
    <3> QED BY <2>1, <2>2, <3>1, TakeOne
  <2>4. v.list \in Seq(Marker) /\ Len(v.list) \in Nat
    BY <2>2 DEF IsList
  <2>5. \A i \in 1..k : i = k \/ i \in 1..(k - 1)
    OBVIOUS
  <2>6. 1..(k - 1) \subseteq 1..k /\ k \in 1..k /\ k \notin 1..(k - 1)
    OBVIOUS
  <2> HIDE DEF w, m, Of
  <2>7. CASE Of(k)
    <3>1. Len(w.list) = Len(v.list) + 1
      BY <2>1, <2>3, <2>4, <2>7
    <3>2. Len(w.list) # 0 /\ ~\A i \in 1..k : ~Of(i)
      BY <2>4, <2>6, <2>7, <3>1
    <3>3. ASSUME Len(w.list) <= 1
          PROVE  \A i, j \in 1..k : Of(i) /\ Of(j) => i = j
      <4>1. Len(v.list) = 0
        BY <2>4, <3>1, <3>3
      <4> QED BY <2>2, <2>5, <4>1
    <3>4. ASSUME \A i, j \in 1..k : Of(i) /\ Of(j) => i = j
          PROVE  Len(w.list) <= 1
      <4>1. \A i \in 1..(k - 1) : ~Of(i)
        BY <2>6, <2>7, <3>4
      <4> QED BY <2>2, <3>1, <4>1
    <3>5. CountsKind(given, w, k)
      BY <2>3, <3>2, <3>3, <3>4 DEF CountsKind, Of
    <3> QED BY <3>5 DEF w, m
  <2>8. CASE ~Of(k)
    <3>1. w.list = v.list
      BY <2>3, <2>8
    <3>2. (\A i \in 1..k : ~Of(i)) <=> (\A i \in 1..(k - 1) : ~Of(i))
      BY <2>5, <2>6, <2>8
    <3>3. (\A i, j \in 1..k : Of(i) /\ Of(j) => i = j) <=> (\A i, j \in 1..(k - 1) : Of(i) /\ Of(j) => i = j)
      BY <2>5, <2>6, <2>8
    <3>4. CountsKind(given, w, k)
      BY <2>2, <2>3, <3>1, <3>2, <3>3 DEF CountsKind, Of
    <3> QED BY <3>4 DEF w, m
  <2> QED BY <2>7, <2>8
<1> HIDE DEF base, given
<1>3. \A k \in 1..Len(markers) : \A v : CountsKind(given, v, k - 1) => CountsKind(given, Take(v, markers[k]), k)
  BY <1>2
<1>4. CountsKind(given, CountsOf!Fold(base, markers), Len(markers))
  BY <1>1, <1>3, CountsOf!FoldKeeps
<1>5. WithKinds(<<>>, markers, {kind}) = CountsOf!Fold(base, markers).list
  BY TakeFolds DEF WithKinds, base
<1>6. DOMAIN markers = 1..Len(markers)
  OBVIOUS
<1> QED BY <1>4, <1>5, <1>6 DEF CountsKind, given, OnceIn

LEMMA HeaderIs ==
    ASSUME NEW space
    PROVE  /\ HeaderMarkers(space) \in Seq(Marker)
           /\ \/ HeaderMarkers(space) = <<>> /\ Copied(space) = Kinds
              \/ \E kind \in {"JFIF", "Adobe"} :
                    HeaderMarkers(space) = <<<<kind, 0>>>> /\ Copied(space) = Kinds \ {kind}
<1>1. \A kind \in {"JFIF", "Adobe"} : <<kind, 0>> \in Marker
  BY DEF Marker, Kinds
<1>2. \A kind \in {"JFIF", "Adobe"} : <<<<kind, 0>>>> \in Seq(Marker) /\ Range(<<<<kind, 0>>>>) = {<<kind, 0>>}
  <2> TAKE kind \in {"JFIF", "Adobe"}
  <2> DEFINE m == <<kind, 0>>
  <2>1. m \in Marker
    BY <1>1
  <2> HIDE DEF m
  <2>2. <<m>> \in Seq(Marker) /\ Range(<<m>>) = {m}
    BY <2>1 DEF Range
  <2> QED BY <2>2 DEF m
<1>3. CASE space \in {"GRAYSCALE", "YCbCr"}
  <2>1. HeaderMarkers(space) = <<<<"JFIF", 0>>>>
    BY <1>3 DEF HeaderMarkers
  <2>2. Copied(space) = Kinds \ {"JFIF"}
    <3>1. Range(HeaderMarkers(space)) = {<<"JFIF", 0>>}
      BY <1>2, <2>1
    <3> QED BY <3>1 DEF Copied
  <2> QED BY <1>2, <2>1, <2>2
<1>4. CASE space \in {"RGB", "CMYK", "YCCK"}
  <2>1. HeaderMarkers(space) = <<<<"Adobe", 0>>>>
    BY <1>4 DEF HeaderMarkers
  <2>2. Copied(space) = Kinds \ {"Adobe"}
    <3>1. Range(HeaderMarkers(space)) = {<<"Adobe", 0>>}
      BY <1>2, <2>1
    <3> QED BY <3>1 DEF Copied
  <2> QED BY <1>2, <2>1, <2>2
<1>5. CASE space \notin {"GRAYSCALE", "YCbCr"} /\ space \notin {"RGB", "CMYK", "YCCK"}
  <2>1. HeaderMarkers(space) = <<>>
    BY <1>5 DEF HeaderMarkers
  <2>2. Range(<<>>) = {}
    BY DEF Range
  <2>3. Copied(space) = Kinds
    BY <2>1, <2>2 DEF Copied
  <2>4. <<>> \in Seq(Marker)
    OBVIOUS
  <2> QED BY <2>1, <2>3, <2>4
<1> QED BY <1>3, <1>4, <1>5

\* What is selected of one marker.
LEMMA SelectOfOne ==
    ASSUME NEW m \in Marker, NEW B
    PROVE  WithKinds(<<>>, <<m>>, B) = IF m[1] \in B THEN <<m>> ELSE <<>>
<1> DEFINE e == <<>>
<1>1. e \in Seq(Marker) /\ Append(e, m) = <<m>>
  OBVIOUS
<1>2. WithKinds(e, e, B) = e
  BY NoMarkers
<1> HIDE DEF e
<1>3. WithKinds(e, Append(e, m), B) = IF m[1] \in B THEN Append(WithKinds(e, e, B), m) ELSE WithKinds(e, e, B)
  BY <1>1, SelectMore
<1>4. WithKinds(e, <<m>>, B) = IF m[1] \in B THEN <<m>> ELSE e
  BY <1>1, <1>2, <1>3
<1> QED BY <1>4 DEF e

\* The markers of a file that is written.
MarkersOf(extras, copy, space) ==
    WithKinds(HeaderMarkers(space), WithKinds(<<>>, extras, Saved(copy)), Copied(space))

LEMMA MarkersOfType ==
    ASSUME NEW extras \in Seq(Marker), NEW copy, NEW space
    PROVE  MarkersOf(extras, copy, space) \in Seq(Marker) /\ WithKinds(<<>>, extras, Saved(copy)) \in Seq(Marker)
<1> DEFINE e == <<>>
           saved == WithKinds(e, extras, Saved(copy))
<1>1. e \in Seq(Marker) /\ HeaderMarkers(space) \in Seq(Marker)
  BY HeaderIs
<1> HIDE DEF e
<1>2. saved \in Seq(Marker)
  BY <1>1, Begins
<1> HIDE DEF saved
<1>3. WithKinds(HeaderMarkers(space), saved, Copied(space)) \in Seq(Marker)
  BY <1>1, <1>2, Begins
<1> QED BY <1>2, <1>3 DEF MarkersOf, saved, e

\* What is selected of the file's markers: of kinds that are not copied, those of its header...
LEMMA SelectedFirst ==
    ASSUME NEW extras \in Seq(Marker), NEW copy, NEW space, NEW B, B \cap Copied(space) = {}
    PROVE  WithKinds(<<>>, MarkersOf(extras, copy, space), B) = WithKinds(<<>>, HeaderMarkers(space), B)
<1> DEFINE e == <<>>
           saved == WithKinds(e, extras, Saved(copy))
           h == HeaderMarkers(space)
<1>1. h \in Seq(Marker) /\ saved \in Seq(Marker)
  BY HeaderIs, MarkersOfType
<1>2. \A list \in Seq(Marker) : \A s \in Seq(Marker) : \A A :
          WithKinds(e, WithKinds(list, s, A), B) = WithKinds(WithKinds(e, list, B), s, A \cap B)
  BY SelectTwice
<1> HIDE DEF e, saved, h
<1>3. WithKinds(e, WithKinds(h, saved, Copied(space)), B) = WithKinds(WithKinds(e, h, B), saved, Copied(space) \cap B)
  BY <1>1, <1>2
<1>4. Copied(space) \cap B = {}
  OBVIOUS
<1>5. WithKinds(e, WithKinds(h, saved, Copied(space)), B) = WithKinds(e, h, B)
  BY <1>1, <1>3, <1>4, NoKinds
<1> QED BY <1>5 DEF MarkersOf, saved, h, e

\* ...and of others, those that were saved.
LEMMA SelectedThen ==
    ASSUME NEW extras \in Seq(Marker), NEW copy, NEW space, NEW B,
           B \subseteq Copied(space), WithKinds(<<>>, HeaderMarkers(space), B) = <<>>
    PROVE  WithKinds(<<>>, MarkersOf(extras, copy, space), B) = WithKinds(<<>>, extras, Saved(copy) \cap B)
<1> DEFINE e == <<>>
           saved == WithKinds(e, extras, Saved(copy))
           h == HeaderMarkers(space)
<1>1. e \in Seq(Marker) /\ h \in Seq(Marker) /\ saved \in Seq(Marker)
  BY HeaderIs, MarkersOfType
<1>2. WithKinds(e, e, B) = e /\ WithKinds(e, h, B) = e
  BY NoMarkers
<1>3. \A list \in Seq(Marker) : \A s \in Seq(Marker) : \A A :
          WithKinds(e, WithKinds(list, s, A), B) = WithKinds(WithKinds(e, list, B), s, A \cap B)
  BY SelectTwice
<1> HIDE DEF e
<1>4. WithKinds(e, saved, B) = WithKinds(e, extras, Saved(copy) \cap B)
  BY <1>1, <1>2, <1>3
<1> HIDE DEF saved, h
<1>5. WithKinds(e, WithKinds(h, saved, Copied(space)), B) = WithKinds(WithKinds(e, h, B), saved, Copied(space) \cap B)
  BY <1>1, <1>3
<1>6. Copied(space) \cap B = B
  OBVIOUS
<1>7. WithKinds(e, WithKinds(h, saved, Copied(space)), B) = WithKinds(e, extras, Saved(copy) \cap B)
  BY <1>2, <1>4, <1>5, <1>6
<1> QED BY <1>7 DEF MarkersOf, saved, h, e

LEMMA MarkersRight ==
    ASSUME NEW extras \in Seq(Marker), NEW copy, NEW space
    PROVE  LET o == MarkersOf(extras, copy, space)
               other == Kinds \ {"JFIF", "Adobe"}
           IN  /\ \A kind \in {"JFIF", "Adobe"} : OnceIn(extras, kind) => OnceIn(o, kind)
               /\ WithKinds(<<>>, o, other) = WithKinds(<<>>, extras, other \cap Saved(copy))
               /\ HeaderMarkers(space) # <<>> => o[1] = HeaderMarkers(space)[1]
<1> DEFINE o == MarkersOf(extras, copy, space)
           other == Kinds \ {"JFIF", "Adobe"}
           h == HeaderMarkers(space)
<1>1. h \in Seq(Marker) /\ o \in Seq(Marker)
  BY HeaderIs, MarkersOfType
<1>2. \/ h = <<>> /\ Copied(space) = Kinds
      \/ \E kind \in {"JFIF", "Adobe"} : h = <<<<kind, 0>>>> /\ Copied(space) = Kinds \ {kind}
  BY HeaderIs
<1>3. \A kind \in {"JFIF", "Adobe"} : <<kind, 0>> \in Marker /\ <<kind, 0>>[1] = kind
  BY DEF Marker, Kinds
<1>4. \A B : WithKinds(<<>>, <<>>, B) = <<>>
  BY NoMarkers
<1>5. \A kind \in {"JFIF", "Adobe"} : \A B :
          WithKinds(<<>>, <<<<kind, 0>>>>, B) = IF kind \in B THEN <<<<kind, 0>>>> ELSE <<>>
  BY <1>3, SelectOfOne
<1>6. ASSUME NEW kind \in {"JFIF", "Adobe"}, OnceIn(extras, kind)
      PROVE  OnceIn(o, kind)
  <2>1. Len(WithKinds(<<>>, extras, {kind})) <= 1
    BY <1>6, OnceSelected
  <2>2. CASE h = <<<<kind, 0>>>> /\ Copied(space) = Kinds \ {kind}
    <3>1. {kind} \cap Copied(space) = {}
      BY <2>2
    <3>2. WithKinds(<<>>, o, {kind}) = WithKinds(<<>>, h, {kind})
      <4> DEFINE B == {kind}
      <4>1. B \cap Copied(space) = {}
        BY <3>1
      <4> HIDE DEF B
      <4>2. WithKinds(<<>>, o, B) = WithKinds(<<>>, h, B)
        BY <4>1, SelectedFirst
      <4> QED BY <4>2 DEF B
    <3>3. WithKinds(<<>>, h, {kind}) = <<<<kind, 0>>>>
      BY <1>5, <2>2
    <3>4. Len(WithKinds(<<>>, o, {kind})) <= 1
      <4> DEFINE m == <<kind, 0>>
                 s == WithKinds(<<>>, o, {kind})
      <4>1. s = <<m>>
        BY <3>2, <3>3
      <4> HIDE DEF m, s
      <4>2. Len(s) <= 1
        BY <4>1
      <4> QED BY <4>2 DEF s
    <3> QED BY <1>1, <3>4, OnceSelected
  <2>3. CASE ~(h = <<<<kind, 0>>>> /\ Copied(space) = Kinds \ {kind})
    <3>1. {kind} \subseteq Copied(space) /\ WithKinds(<<>>, h, {kind}) = <<>>
      <4>1. CASE h = <<>> /\ Copied(space) = Kinds
        BY <1>4, <4>1 DEF Kinds
      <4>2. CASE \E k \in {"JFIF", "Adobe"} : h = <<<<k, 0>>>> /\ Copied(space) = Kinds \ {k}
        <5>1. PICK k \in {"JFIF", "Adobe"} : h = <<<<k, 0>>>> /\ Copied(space) = Kinds \ {k}
          BY <4>2
        <5>2. k # kind
          BY <2>3, <5>1
        <5>3. WithKinds(<<>>, <<<<k, 0>>>>, {kind}) = <<>>
          BY <1>5, <5>2
        <5> QED BY <5>1, <5>2, <5>3 DEF Kinds
      <4> QED BY <1>2, <4>1, <4>2
    <3>2. WithKinds(<<>>, o, {kind}) = WithKinds(<<>>, extras, Saved(copy) \cap {kind})
      BY <3>1, SelectedThen
    <3>3. CASE kind \in Saved(copy)
      <4>1. Saved(copy) \cap {kind} = {kind}
        BY <3>3
      <4>2. Len(WithKinds(<<>>, o, {kind})) <= 1
        BY <2>1, <3>2, <4>1
      <4> QED BY <1>1, <4>2, OnceSelected
    <3>4. CASE kind \notin Saved(copy)
      <4>1. Saved(copy) \cap {kind} = {}
        BY <3>4
      <4>2. WithKinds(<<>>, o, {kind}) = <<>>
        BY <3>2, <4>1, NoKinds
      <4>3. Len(WithKinds(<<>>, o, {kind})) <= 1
        BY <4>2
      <4> QED BY <1>1, <4>3, OnceSelected
    <3> QED BY <3>3, <3>4
  <2> QED BY <2>2, <2>3
<1>7. WithKinds(<<>>, o, other) = WithKinds(<<>>, extras, other \cap Saved(copy))
  <2>1. other \subseteq Copied(space) /\ WithKinds(<<>>, h, other) = <<>>
    <3>1. CASE h = <<>> /\ Copied(space) = Kinds
      BY <1>4, <3>1
    <3>2. CASE \E k \in {"JFIF", "Adobe"} : h = <<<<k, 0>>>> /\ Copied(space) = Kinds \ {k}
      <4>1. PICK k \in {"JFIF", "Adobe"} : h = <<<<k, 0>>>> /\ Copied(space) = Kinds \ {k}
        BY <3>2
      <4>2. WithKinds(<<>>, <<<<k, 0>>>>, other) = <<>>
        <5>1. k \notin other
          OBVIOUS
        <5> HIDE DEF other
        <5> QED BY <1>5, <5>1
      <4> QED BY <4>1, <4>2
    <3> QED BY <1>2, <3>1, <3>2
  <2>2. WithKinds(<<>>, o, other) = WithKinds(<<>>, extras, Saved(copy) \cap other)
    BY <2>1, SelectedThen
  <2>3. Saved(copy) \cap other = other \cap Saved(copy)
    OBVIOUS
  <2> QED BY <2>2, <2>3
<1>8. ASSUME h # <<>> PROVE o[1] = h[1]
  <2> DEFINE e == <<>>
             saved == WithKinds(e, extras, Saved(copy))
  <2>1. e \in Seq(Marker)
    OBVIOUS
  <2>2. o = WithKinds(h, saved, Copied(space))
    BY DEF MarkersOf
  <2>3. 1 \in 1..Len(h)
    <3> HIDE DEF h
    <3> QED BY <1>1, <1>8
  <2> HIDE DEF e, h, o
  <2>4. saved \in Seq(Marker)
    BY <2>1, Begins
  <2> HIDE DEF saved
  <2>5. \A i \in 1..Len(h) : WithKinds(h, saved, Copied(space))[i] = h[i]
    BY <1>1, <2>4, Begins
  <2> QED BY <2>2, <2>3, <2>5
<1> QED BY <1>6, <1>7, <1>8

-----------------------------------------------------------------------------
(* The stages of jpegtran.                                                 *)

\* The arrays Request_workspace asks for.
Workspace(im, o) ==
    LET n == IF o.force_grayscale /\ IsYCC(im) THEN 1 ELSE Len(im.comps)
    IN  IF o.transform \in InPlace THEN <<>>
        ELSE [c \in 1..n |-> [a \in SourceArea(im, c, o.transform) |-> Unwritten]]
\* The picture whose parameters are adjusted.
Chosen(im, o) == IF o.force_grayscale THEN Grayed(im) ELSE im
\* Every block the output shows is where it belongs.
BlocksMoved(e, t, im, outs) ==
    \A c \in DOMAIN e.comps : \A a \in ShownArea(e, c) : outs[c][a] = MovedBlock(e, c, t, Coded(im)[c], a)

HasOptions == stage \notin {"start", "error"} =>
    opt.transform \in InPlace \cup Turning \cup {"FLIP_V", "ROT_180"}
HasHeader == stage \notin {"start", "options", "error"} =>
    /\ DOMAIN src = {"im", "arrays", "saved"} /\ IsSource(src.im)
    /\ src.saved = WithKinds(<<>>, src.im.extras, Saved(opt.copy))
HasWorkspace == stage \in {"workspace", "coefficients", "copied", "adjusted", "started", "markers"} =>
    work = Workspace(src.im, opt)
HasCoefficients == stage \in {"coefficients", "copied", "adjusted", "started", "markers"} =>
    src.arrays = Coded(src.im)
HasParameters ==
    /\ stage = "copied" => dst = src.im
    /\ stage \in {"adjusted", "started", "markers", "done"} =>
          /\ opt.force_grayscale => IsYCC(src.im) \/ IsGray(src.im)
          /\ dst = Adjusted(Chosen(src.im, opt), opt)
HasMarkers ==
    /\ stage = "started" => out = HeaderMarkers(dst.space)
    /\ stage \in {"markers", "done"} => out = MarkersOf(src.im.extras, opt.copy, dst.space)
HasMoved == stage = "done" => BlocksMoved(dst, opt.transform, src.im, Coef_arrays)
IsStage == stage \in {"start", "options", "header", "workspace", "coefficients", "copied", "adjusted",
                      "started", "markers", "done", "error"}

TransInv ==
    /\ IsStage /\ HasOptions /\ HasHeader /\ HasWorkspace /\ HasCoefficients
    /\ HasParameters /\ HasMarkers /\ HasMoved

\* The output is a picture that fits the source.
LEMMA OutputRight ==
    ASSUME NEW im, IsSource(im), NEW o, o.force_grayscale => IsYCC(im) \/ IsGray(im)
    PROVE  LET e == Adjusted(Chosen(im, o), o)
           IN  /\ IsPicture(im) /\ IsPicture(e) /\ Matches(e, im, o.transform \in Turning)
               /\ TrimmedAlong(e, o)
               /\ o.force_grayscale => DOMAIN e.comps = {1}
               /\ ~o.force_grayscale => DOMAIN e.comps = DOMAIN im.comps
<1> DEFINE d == Chosen(im, o)
           e == Adjusted(d, o)
<1>1. IsPicture(im)
  BY SourceIsPicture
<1>2. IsPicture(d) /\ PartOf(d, im)
  <2>1. CASE o.force_grayscale
    BY <2>1, GrayedRight DEF Chosen
  <2>2. CASE ~o.force_grayscale
    BY <1>1, <2>2, PartOfItself DEF Chosen
  <2> QED BY <2>1, <2>2
<1>3. /\ o.force_grayscale => DOMAIN d.comps = {1}
      /\ ~o.force_grayscale => DOMAIN d.comps = DOMAIN im.comps
  <2>1. ASSUME o.force_grayscale PROVE DOMAIN d.comps = {1}
    <3>1. d = Grayed(im)
      BY <2>1 DEF Chosen
    <3>2. Grayed(im).comps = <<[im.comps[1] EXCEPT !.h = 1, !.v = 1]>>
      BY <1>1 DEF Grayed, IsPicture
    <3>3. \A x : DOMAIN <<x>> = {1}
      OBVIOUS
    <3> QED BY <3>1, <3>2, <3>3
  <2>2. ASSUME ~o.force_grayscale PROVE DOMAIN d.comps = DOMAIN im.comps
    BY <2>2 DEF Chosen
  <2> QED BY <2>1, <2>2
<1> HIDE DEF d
<1>4. IsPicture(e) /\ Matches(e, im, o.transform \in Turning) /\ TrimmedAlong(e, o)
  BY <1>1, <1>2, AdjustedRight
<1>5. DOMAIN e.comps = DOMAIN d.comps
  <2> DEFINE f == IF o.transform \in Turning THEN Transpose_critical_parameters(d) ELSE d
             g == IF o.trim /\ o.transform \in TrimsRight THEN Trim_right_edge(f) ELSE f
             h == IF o.trim /\ o.transform \in TrimsBottom THEN Trim_bottom_edge(g) ELSE g
  <2>1. IsPicture(f) /\ DOMAIN f.comps = DOMAIN d.comps
    <3>1. CASE o.transform \in Turning
      BY <1>2, <3>1, TransposeRight
    <3>2. CASE o.transform \notin Turning
      BY <1>2, <3>2
    <3> QED BY <3>1, <3>2
  <2> HIDE DEF f
  <2>2. IsPicture(g) /\ g.comps = f.comps
    <3>1. CASE o.trim /\ o.transform \in TrimsRight
      BY <2>1, <3>1, TrimRight
    <3>2. CASE ~(o.trim /\ o.transform \in TrimsRight)
      BY <2>1, <3>2
    <3> QED BY <3>1, <3>2
  <2> HIDE DEF g
  <2>3. h.comps = g.comps
    <3>1. CASE o.trim /\ o.transform \in TrimsBottom
      BY <2>2, <3>1, TrimBottom
    <3>2. CASE ~(o.trim /\ o.transform \in TrimsBottom)
      BY <2>2, <3>2
    <3> QED BY <3>1, <3>2
  <2> HIDE DEF h
  <2>4. e = h
    BY DEF Adjusted, f, g, h
  <2> QED BY <2>1, <2>2, <2>3, <2>4
<1> QED BY <1>1, <1>3, <1>4, <1>5 DEF d, e

\* The components of a source are numbered.
LEMMA SourceParts ==
    ASSUME NEW im, IsSource(im)
    PROVE  /\ DOMAIN im.comps = 1..Len(im.comps) /\ Len(im.comps) \in Nat \ {0}
           /\ im.extras \in Seq(Marker)
<1>1. /\ im.comps \in Seq([h : Nat \ {0}, v : Nat \ {0}, q : Nat, table : [Places -> Int]]) /\ im.comps # <<>>
      /\ im.extras \in Seq(Marker)
  BY DEF IsSource, Marker
<1> QED BY <1>1

\* The workspace has the blocks of each component of the output.
LEMMA WorkspaceFits ==
    ASSUME NEW im, IsSource(im), NEW o, o.force_grayscale => IsYCC(im) \/ IsGray(im),
           o.transform \notin InPlace,
           NEW c \in DOMAIN Adjusted(Chosen(im, o), o).comps
    PROVE  DOMAIN Workspace(im, o)[c] = SourceArea(im, c, o.transform)
<1> DEFINE n == IF o.force_grayscale /\ IsYCC(im) THEN 1 ELSE Len(im.comps)
<1>1. DOMAIN im.comps = 1..Len(im.comps) /\ Len(im.comps) \in Nat \ {0}
  BY SourceParts
<1>2. /\ o.force_grayscale => DOMAIN Adjusted(Chosen(im, o), o).comps = {1}
      /\ ~o.force_grayscale => DOMAIN Adjusted(Chosen(im, o), o).comps = DOMAIN im.comps
  BY OutputRight
<1>3. c \in 1..n
  <2>1. CASE o.force_grayscale
    <3>1. c = 1 /\ n >= 1 /\ n \in Nat
      BY <1>1, <1>2, <2>1
    <3> QED BY <3>1
  <2>2. CASE ~o.force_grayscale
    BY <1>1, <1>2, <2>2
  <2> QED BY <2>1, <2>2
<1>4. Workspace(im, o) = [k \in 1..n |-> [a \in SourceArea(im, k, o.transform) |-> Unwritten]]
  BY DEF Workspace
<1> HIDE DEF n
<1> QED BY <1>3, <1>4

-----------------------------------------------------------------------------
(* The steps.                                                              *)

\* What a routine leaves in the workspace.
LEMMA RoutineRight ==
    ASSUME NEW e, IsPicture(e), NEW c \in DOMAIN e.comps, NEW a \in ShownArea(e, c), NEW s, NEW w, a \in DOMAIN w,
           NEW t \in Turning \cup {"FLIP_V", "ROT_180"}
    PROVE  RoutineLeaves(e, t, c, s, w)[a] = MovedBlock(e, c, t, s, a)
<1>1. CASE t = "FLIP_V"
  BY <1>1, FlipVRight DEF RoutineLeaves
<1>2. CASE t = "TRANSPOSE"
  BY <1>2, TransposeMoves DEF RoutineLeaves
<1>3. CASE t = "TRANSVERSE"
  BY <1>3, TransverseRight DEF RoutineLeaves
<1>4. CASE t = "ROT_90"
  BY <1>4, Rot90Right DEF RoutineLeaves
<1>5. CASE t = "ROT_180"
  BY <1>5, Rot180Right DEF RoutineLeaves
<1>6. CASE t = "ROT_270"
  BY <1>6, Rot270Right DEF RoutineLeaves
<1> QED BY <1>1, <1>2, <1>3, <1>4, <1>5, <1>6 DEF Turning

LEMMA ExecuteStep ==
    ASSUME TransInv, Execute_transformation
    PROVE  BlocksMoved(dst, opt.transform, src.im, Coef_arrays') /\ src'.im = src.im /\ src'.saved = src.saved
           /\ DOMAIN src' = {"im", "arrays", "saved"}
<1> DEFINE t == opt.transform
           im == src.im
           s == src.arrays
<1>1. /\ IsSource(im) /\ DOMAIN src = {"im", "arrays", "saved"} /\ t \in InPlace \cup Turning \cup {"FLIP_V", "ROT_180"}
      /\ work = Workspace(im, opt) /\ s = Coded(im)
      /\ opt.force_grayscale => IsYCC(im) \/ IsGray(im)
      /\ dst = Adjusted(Chosen(im, opt), opt)
  BY DEF TransInv, Execute_transformation, HasHeader, HasOptions, HasWorkspace, HasCoefficients, HasParameters
<1>2. /\ work' = IF t \in InPlace THEN work ELSE [c \in DOMAIN dst.comps |-> RoutineLeaves(dst, t, c, s[c], work[c])]
      /\ src' = IF t # "FLIP_H" THEN src
                ELSE [src EXCEPT !.arrays = [c \in DOMAIN s |->
                         IF c \in DOMAIN dst.comps THEN Do_flip_h(dst, c, s[c]) ELSE s[c]]]
  BY DEF Execute_transformation, RoutineLeaves
<1>3. src'.im = im /\ src'.saved = src.saved /\ DOMAIN src' = {"im", "arrays", "saved"}
  BY <1>1, <1>2
<1>4. IsPicture(im) /\ IsPicture(dst) /\ Matches(dst, im, t \in Turning)
  BY <1>1, OutputRight
<1>5. \A c \in DOMAIN dst.comps : \A a \in ShownArea(dst, c) : a \in SourceArea(im, c, t)
  BY <1>4, ShownInSource
<1> HIDE DEF t, im, s
<1>6. ASSUME t \notin InPlace, NEW c \in DOMAIN dst.comps, NEW a \in ShownArea(dst, c)
      PROVE  Coef_arrays'[c][a] = MovedBlock(dst, c, t, s[c], a)
  <2>1. DOMAIN work[c] = SourceArea(im, c, t)
    BY <1>1, <1>6, WorkspaceFits DEF t
  <2>2. a \in DOMAIN work[c]
    BY <1>5, <2>1
  <2>3. t \in Turning \cup {"FLIP_V", "ROT_180"}
    BY <1>1, <1>6
  <2>4. RoutineLeaves(dst, t, c, s[c], work[c])[a] = MovedBlock(dst, c, t, s[c], a)
    BY <1>4, <2>2, <2>3, RoutineRight
  <2>5. work' = [k \in DOMAIN dst.comps |-> RoutineLeaves(dst, t, k, s[k], work[k])]
    BY <1>2, <1>6
  <2>6. work' # <<>> /\ work'[c] = RoutineLeaves(dst, t, c, s[c], work[c])
    BY <2>5
  <2>7. Coef_arrays' = work'
    BY <2>6 DEF Coef_arrays
  <2> QED BY <2>4, <2>6, <2>7
<1>7. ASSUME t \in InPlace
      PROVE  Coef_arrays' = src'.arrays
  <2>1. work' = <<>>
    BY <1>1, <1>2, <1>7 DEF Workspace, t
  <2> QED BY <2>1 DEF Coef_arrays
<1>8. ASSUME t = "NONE", NEW c \in DOMAIN dst.comps, NEW a \in ShownArea(dst, c)
      PROVE  Coef_arrays'[c][a] = MovedBlock(dst, c, t, s[c], a)
  <2>1. Coef_arrays' = s
    BY <1>2, <1>7, <1>8 DEF InPlace, s
  <2>2. s[c][a] = MovedBlock(dst, c, "NONE", s[c], a)
    BY <1>4, NoneRight
  <2> QED BY <1>8, <2>1, <2>2
<1>9. ASSUME t = "FLIP_H", NEW c \in DOMAIN dst.comps, NEW a \in ShownArea(dst, c)
      PROVE  Coef_arrays'[c][a] = MovedBlock(dst, c, t, s[c], a)
  <2>1. c \in DOMAIN im.comps
    BY <1>4 DEF Matches
  <2>2. DOMAIN s = DOMAIN im.comps /\ DOMAIN s[c] = PaddedArea(im, c)
    BY <1>1, <2>1 DEF Coded
  <2>3. a \in DOMAIN s[c]
    <3>1. a \in SourceArea(im, c, t) /\ t \notin Turning
      BY <1>5, <1>9 DEF Turning
    <3> QED BY <2>2, <3>1 DEF SourceArea
  <2>4. Coef_arrays' = [k \in DOMAIN s |-> IF k \in DOMAIN dst.comps THEN Do_flip_h(dst, k, s[k]) ELSE s[k]]
    BY <1>1, <1>2, <1>7, <1>9 DEF InPlace
  <2>5. Coef_arrays'[c] = Do_flip_h(dst, c, s[c])
    BY <2>1, <2>2, <2>4
  <2>6. Do_flip_h(dst, c, s[c])[a] = MovedBlock(dst, c, "FLIP_H", s[c], a)
    BY <1>4, <2>3, FlipHRight
  <2> QED BY <1>9, <2>5, <2>6
<1>10. \A c \in DOMAIN dst.comps : \A a \in ShownArea(dst, c) : Coef_arrays'[c][a] = MovedBlock(dst, c, t, s[c], a)
  BY <1>6, <1>8, <1>9 DEF InPlace
<1> QED BY <1>1, <1>3, <1>10 DEF BlocksMoved, t, im

LEMMA TransInitRight == TransInit => TransInv
BY DEF TransInit, TransInv, IsStage, HasOptions, HasHeader, HasWorkspace, HasCoefficients, HasParameters,
       HasMarkers, HasMoved

LEMMA SwitchesStep ==
    ASSUME TransInv, NEW o, Parse_switches(o), o.transform \in Transforms
    PROVE  TransInv'
<1>1. stage' = "options" /\ opt' = o
  BY DEF Parse_switches
<1>2. o.transform \in InPlace \cup Turning \cup {"FLIP_V", "ROT_180"}
  BY TransAssumption
<1> QED BY <1>1, <1>2 DEF TransInv, IsStage, HasOptions, HasHeader, HasWorkspace, HasCoefficients, HasParameters,
                          HasMarkers, HasMoved

LEMMA SourceHeaderStep ==
    ASSUME TransInv, NEW im \in Sources, Read_source_header(im)
    PROVE  TransInv'
<1>1. /\ stage = "options" /\ stage' = "header" /\ opt' = opt
      /\ src' = [im |-> im, arrays |-> <<>>, saved |-> WithKinds(<<>>, im.extras, Saved(opt.copy))]
  BY DEF Read_source_header
<1>2. HasOptions'
  BY <1>1 DEF TransInv, HasOptions
<1>3. HasHeader'
  <2>1. IsSource(im)
    BY TransAssumption
  <2> QED BY <1>1, <2>1 DEF HasHeader
<1> QED BY <1>1, <1>2, <1>3 DEF TransInv, IsStage, HasWorkspace, HasCoefficients, HasParameters, HasMarkers, HasMoved

LEMMA WorkspaceStep ==
    ASSUME TransInv, Request_workspace
    PROVE  TransInv'
<1>1. stage = "header" /\ stage' = "workspace" /\ opt' = opt /\ src' = src
  BY DEF Request_workspace
<1>2. HasOptions' /\ HasHeader'
  BY <1>1 DEF TransInv, HasOptions, HasHeader
<1>3. HasWorkspace'
  BY <1>1 DEF Request_workspace, HasWorkspace, Workspace, SourceArea
<1> QED BY <1>1, <1>2, <1>3 DEF TransInv, IsStage, HasCoefficients, HasParameters, HasMarkers, HasMoved

LEMMA SourceCoefficientsStep ==
    ASSUME TransInv, Read_source_coefficients
    PROVE  TransInv'
<1>1. /\ stage = "workspace" /\ stage' = "coefficients" /\ opt' = opt /\ work' = work
      /\ src' = [src EXCEPT !.arrays = Coded(src.im)]
  BY DEF Read_source_coefficients
<1>2. DOMAIN src = {"im", "arrays", "saved"}
  BY <1>1 DEF TransInv, HasHeader
<1>3. src'.im = src.im /\ src'.saved = src.saved /\ src'.arrays = Coded(src.im) /\ DOMAIN src' = {"im", "arrays", "saved"}
  BY <1>1, <1>2
<1>4. HasOptions' /\ HasHeader'
  BY <1>1, <1>3 DEF TransInv, HasOptions, HasHeader
<1>5. HasWorkspace' /\ HasCoefficients'
  BY <1>1, <1>3 DEF TransInv, HasWorkspace, HasCoefficients
<1> QED BY <1>1, <1>4, <1>5 DEF TransInv, IsStage, HasParameters, HasMarkers, HasMoved

LEMMA CriticalStep ==
    ASSUME TransInv, Copy_critical_parameters
    PROVE  TransInv'
<1>1. /\ stage = "coefficients" /\ opt' = opt /\ work' = work /\ src' = src /\ out' = out
      /\ (stage' = "copied" /\ dst' = src.im) \/ stage' = "error"
  BY DEF Copy_critical_parameters
<1>2. HasOptions' /\ HasHeader'
  BY <1>1 DEF TransInv, HasOptions, HasHeader
<1>3. HasWorkspace' /\ HasCoefficients'
  BY <1>1 DEF TransInv, HasWorkspace, HasCoefficients
<1>4. HasParameters'
  BY <1>1 DEF HasParameters
<1> QED BY <1>1, <1>2, <1>3, <1>4 DEF TransInv, IsStage, HasMarkers, HasMoved

LEMMA AdjustStep ==
    ASSUME TransInv, Adjust_parameters
    PROVE  TransInv'
<1>1. /\ stage = "copied" /\ opt' = opt /\ work' = work /\ src' = src /\ out' = out
      /\ stage' \in {"adjusted", "error"}
  BY DEF Adjust_parameters
<1>2. HasOptions' /\ HasHeader'
  BY <1>1 DEF TransInv, HasOptions, HasHeader
<1>3. HasWorkspace' /\ HasCoefficients'
  BY <1>1 DEF TransInv, HasWorkspace, HasCoefficients
<1>4. HasParameters'
  <2>1. dst = src.im
    BY <1>1 DEF TransInv, HasParameters
  <2>2. ASSUME stage' = "adjusted"
        PROVE  /\ opt.force_grayscale => IsYCC(src.im) \/ IsGray(src.im)
               /\ dst' = Adjusted(Chosen(src.im, opt), opt)
    BY <2>1, <2>2 DEF Adjust_parameters, Chosen
  <2> QED BY <1>1, <2>2 DEF HasParameters
<1> QED BY <1>1, <1>2, <1>3, <1>4 DEF TransInv, IsStage, HasMarkers, HasMoved

LEMMA StartOutputStep ==
    ASSUME TransInv, Write_coefficients
    PROVE  TransInv'
<1>1. /\ stage = "adjusted" /\ stage' = "started" /\ opt' = opt /\ work' = work /\ src' = src /\ dst' = dst
      /\ out' = HeaderMarkers(dst.space)
  BY DEF Write_coefficients
<1>2. HasOptions' /\ HasHeader'
  BY <1>1 DEF TransInv, HasOptions, HasHeader
<1>3. HasWorkspace' /\ HasCoefficients'
  BY <1>1 DEF TransInv, HasWorkspace, HasCoefficients
<1>4. HasParameters' /\ HasMarkers'
  BY <1>1 DEF TransInv, HasParameters, HasMarkers
<1> QED BY <1>1, <1>2, <1>3, <1>4 DEF TransInv, IsStage, HasMoved

LEMMA CopyMarkersStep ==
    ASSUME TransInv, Copy_markers
    PROVE  TransInv'
<1>1. /\ stage = "started" /\ stage' = "markers" /\ opt' = opt /\ work' = work /\ src' = src /\ dst' = dst
      /\ out' = WithKinds(out, src.saved, Copied(dst.space))
  BY DEF Copy_markers
<1>2. HasOptions' /\ HasHeader'
  BY <1>1 DEF TransInv, HasOptions, HasHeader
<1>3. HasWorkspace' /\ HasCoefficients'
  BY <1>1 DEF TransInv, HasWorkspace, HasCoefficients
<1>4. HasParameters'
  BY <1>1 DEF TransInv, HasParameters
<1>5. HasMarkers'
  <2>1. out = HeaderMarkers(dst.space) /\ src.saved = WithKinds(<<>>, src.im.extras, Saved(opt.copy))
    BY <1>1 DEF TransInv, HasMarkers, HasHeader
  <2> QED BY <1>1, <2>1 DEF HasMarkers, MarkersOf
<1> QED BY <1>1, <1>2, <1>3, <1>4, <1>5 DEF TransInv, IsStage, HasMoved

LEMMA TransformStep ==
    ASSUME TransInv, Execute_transformation
    PROVE  TransInv'
<1>1. /\ stage = "markers" /\ stage' = "done" /\ opt' = opt /\ dst' = dst /\ out' = out
  BY DEF Execute_transformation
<1>2. BlocksMoved(dst, opt.transform, src.im, Coef_arrays') /\ src'.im = src.im /\ src'.saved = src.saved
      /\ DOMAIN src' = {"im", "arrays", "saved"}
  BY ExecuteStep
<1>3. HasOptions' /\ HasHeader'
  BY <1>1, <1>2 DEF TransInv, HasOptions, HasHeader
<1>4. HasParameters'
  BY <1>1, <1>2 DEF TransInv, HasParameters
<1>5. HasMarkers'
  BY <1>1, <1>2 DEF TransInv, HasMarkers
<1>6. HasMoved'
  BY <1>1, <1>2 DEF HasMoved
<1> QED BY <1>1, <1>3, <1>4, <1>5, <1>6 DEF TransInv, IsStage, HasWorkspace, HasCoefficients

LEMMA TransStep ==
    ASSUME TransInv, [TransNext]_transVars
    PROVE  TransInv'
<1>1. ASSUME NEW t \in Transforms, NEW trim \in BOOLEAN, NEW gray \in BOOLEAN, NEW copy \in CopyOptions,
             Parse_switches([transform |-> t, trim |-> trim, force_grayscale |-> gray, copy |-> copy])
      PROVE  TransInv'
  <2> DEFINE o == [transform |-> t, trim |-> trim, force_grayscale |-> gray, copy |-> copy]
  <2>1. Parse_switches(o) /\ o.transform \in Transforms
    BY <1>1
  <2> HIDE DEF o
  <2> QED BY <2>1, SwitchesStep
<1>2. CASE UNCHANGED transVars
  BY <1>2 DEF transVars, TransInv, IsStage, HasOptions, HasHeader, HasWorkspace, HasCoefficients, HasParameters,
              HasMarkers, HasMoved, Coef_arrays
<1> QED BY <1>1, <1>2, SourceHeaderStep, WorkspaceStep, SourceCoefficientsStep, CriticalStep, AdjustStep,
           StartOutputStep, CopyMarkersStep, TransformStep DEF TransNext

-----------------------------------------------------------------------------
(* What is shown in the end.                                               *)

LEMMA SamplesRight ==
    ASSUME TransInv
    PROVE  SamplesMoved
<1>1. SUFFICES ASSUME stage = "done" PROVE SamplesMoved
  BY DEF SamplesMoved
<1> DEFINE t == opt.transform
           im == src.im
<1>2. /\ IsSource(im) /\ (opt.force_grayscale => IsYCC(im) \/ IsGray(im))
      /\ dst = Adjusted(Chosen(im, opt), opt) /\ BlocksMoved(dst, t, im, Coef_arrays)
  BY <1>1 DEF TransInv, HasHeader, HasParameters, HasMoved
<1>3. IsPicture(im) /\ IsPicture(dst) /\ Matches(dst, im, t \in Turning) /\ TrimmedAlong(dst, opt)
  BY <1>2, OutputRight
<1>4. DOMAIN im.comps \subseteq Int
  BY <1>2, SourceParts
<1>5. MirrorsX(t) <=> t \in TrimsRight
  BY DEF MirrorsX, TrimsRight
<1>6. MirrorsY(t) <=> t \in TrimsBottom
  BY DEF MirrorsY, TrimsBottom
<1>7. ASSUME NEW c \in DOMAIN dst.comps,
             NEW y \in 0..(Height_in_blocks(dst, c) * BlockSide - 1),
             NEW x \in 0..(Width_in_blocks(dst, c) * BlockSide - 1)
      PROVE  LET my == IF MirrorsY(t) THEN Mirror(y, WholeY(c)) ELSE y
                 mx == IF MirrorsX(t) THEN Mirror(x, WholeX(c)) ELSE x
             IN  Sample(dst, c, Coef_arrays, y, x) =
                     IF t \in Turning THEN Sample(im, c, Coded(im), mx, my) ELSE Sample(im, c, Coded(im), my, mx)
  <2>1. c \in Int
    BY <1>3, <1>4 DEF Matches
  <2>2. WholeX(c) = CompWidth(dst, c) * BlockSide /\ WholeY(c) = CompHeight(dst, c) * BlockSide
    BY DEF WholeX, WholeY, CompWidth, CompHeight
  <2>3. \A a \in ShownArea(dst, c) : Coef_arrays[c][a] = MovedBlock(dst, c, t, Coded(im)[c], a)
    BY <1>2 DEF BlocksMoved
  <2> HIDE DEF t, im
  <2>4. LET my == IF MirrorsY(t) THEN Mirror(y, CompHeight(dst, c) * BlockSide) ELSE y
            mx == IF MirrorsX(t) THEN Mirror(x, CompWidth(dst, c) * BlockSide) ELSE x
        IN  Sample(dst, c, Coef_arrays, y, x) =
                IF t \in Turning THEN Sample(im, c, Coded(im), mx, my) ELSE Sample(im, c, Coded(im), my, mx)
    BY <1>3, <2>1, <2>3, SampleMoved
  <2> QED BY <2>2, <2>4
<1>8. opt.trim /\ MirrorsX(t) /\ dst.width >= Max_h_samp(dst) * BlockSide => dst.width % (Max_h_samp(dst) * BlockSide) = 0
  BY <1>3, <1>5 DEF TrimmedAlong
<1>9. opt.trim /\ MirrorsY(t) /\ dst.height >= Max_v_samp(dst) * BlockSide => dst.height % (Max_v_samp(dst) * BlockSide) = 0
  BY <1>3, <1>6 DEF TrimmedAlong
<1> QED BY <1>7, <1>8, <1>9 DEF SamplesMoved

LEMMA MarkersAreKept ==
    ASSUME TransInv
    PROVE  MarkersKept
<1>1. SUFFICES ASSUME stage = "done" PROVE MarkersKept
  BY DEF MarkersKept
<1>2. IsSource(src.im) /\ out = MarkersOf(src.im.extras, opt.copy, dst.space)
  BY <1>1 DEF TransInv, HasHeader, HasMarkers
<1>3. src.im.extras \in Seq(Marker)
  BY <1>2, SourceParts
<1>4. /\ \A kind \in {"JFIF", "Adobe"} : OnceIn(src.im.extras, kind) => OnceIn(out, kind)
      /\ WithKinds(<<>>, out, Kinds \ {"JFIF", "Adobe"})
            = WithKinds(<<>>, src.im.extras, (Kinds \ {"JFIF", "Adobe"}) \cap Saved(opt.copy))
      /\ HeaderMarkers(dst.space) # <<>> => out[1] = HeaderMarkers(dst.space)[1]
  BY <1>2, <1>3, MarkersRight
<1> QED BY <1>4 DEF MarkersKept, OnceIn

\* Whatever the source, the transformation and the options, the file jpegtran has written shows
\* the source's picture turned and mirrored, and has its markers (PictureTransformed).
THEOREM PictureCorrect == TransSpec => []PictureTransformed
<1>1. TransInv => PictureTransformed
  BY SamplesRight, MarkersAreKept DEF PictureTransformed
<1> QED BY <1>1, TransInitRight, TransStep, PTL DEF TransSpec

-----------------------------------------------------------------------------
(* Least and greatest numbers.                                             *)

LEMMA MinRight ==
    ASSUME NEW S, S \subseteq Int, S # {}, NEW b \in Int, \A x \in S : b <= x
    PROVE  Min(S) \in S /\ \A x \in S : Min(S) <= x
<1> DEFINE T == {x - b : x \in S}
<1>1. T \subseteq Nat /\ T # {}
  <2>1. \A x \in S : x \in Int /\ b <= x
    OBVIOUS
  <2>2. \A x \in S : x - b \in Nat
    BY <2>1
  <2> QED BY <2>2
<1>2. PICK t \in T : \A u \in T : t <= u
  BY <1>1, LeastNumber
<1>3. PICK x \in S : t = x - b
  BY <1>2
<1>4. \A y \in S : x <= y
  <2> TAKE y \in S
  <2>1. y - b \in T
    OBVIOUS
  <2>2. x - b <= y - b /\ x \in Int /\ y \in Int
    BY <1>2, <1>3, <2>1
  <2> QED BY <2>2
<1> QED BY <1>3, <1>4 DEF Min

LEMMA MinOfNat ==
    ASSUME NEW S, S \subseteq Nat, S # {}
    PROVE  Min(S) \in S /\ \A x \in S : Min(S) <= x
<1>1. PICK x \in S : \A y \in S : x <= y
  BY LeastNumber
<1> QED BY <1>1 DEF Min

LEMMA MaxRight ==
    ASSUME NEW S, S \subseteq Int, S # {}, NEW b \in Int, \A x \in S : x <= b
    PROVE  Max(S) \in S /\ \A x \in S : x <= Max(S)
<1> DEFINE T == {b - x : x \in S}
<1>1. T \subseteq Nat /\ T # {}
  <2>1. \A x \in S : x \in Int /\ x <= b
    OBVIOUS
  <2>2. \A x \in S : b - x \in Nat
    BY <2>1
  <2> QED BY <2>2
<1>2. PICK t \in T : \A u \in T : t <= u
  BY <1>1, LeastNumber
<1>3. PICK x \in S : t = b - x
  BY <1>2
<1>4. \A y \in S : x >= y
  <2> TAKE y \in S
  <2>1. b - y \in T
    OBVIOUS
  <2>2. b - x <= b - y /\ x \in Int /\ y \in Int
    BY <1>2, <1>3, <2>1
  <2> QED BY <2>2
<1>5. \A y, z \in S : y >= z <=> z <= y
  OBVIOUS
<1> QED BY <1>3, <1>4, <1>5 DEF Max

LEMMA ClampRight ==
    ASSUME NEW n \in Int
    PROVE  /\ Clamp(n) = IF n < 0 THEN 0 ELSE IF n > MAXJSAMPLE THEN MAXJSAMPLE ELSE n
           /\ Clamp(n) \in 0..MAXJSAMPLE
<1> DEFINE M == MAXJSAMPLE
<1>1. M \in Nat
  BY QuantAssumption DEF MAXJSAMPLE
<1> HIDE DEF M
<1> DEFINE low == IF n <= M THEN n ELSE M
<1>2. Min({n, M}) = low
  <2> DEFINE S == {n, M}
  <2>1. S \subseteq Int /\ S # {} /\ low \in Int /\ \A x \in S : low <= x
    BY <1>1
  <2>2. low \in S
    BY <1>1
  <2> HIDE DEF S, low
  <2>3. Min(S) \in S /\ \A x \in S : Min(S) <= x
    BY <2>1, MinRight
  <2>4. Min(S) <= low /\ low <= Min(S) /\ Min(S) \in Int
    BY <2>1, <2>2, <2>3
  <2>5. Min(S) = low
    BY <2>1, <2>4
  <2> QED BY <2>5 DEF S
<1>3. low \in Int
  BY <1>1
<1>4. Max({0, low}) = IF low < 0 THEN 0 ELSE low
  <2> HIDE DEF low
  <2> DEFINE S == {0, low}
             high == IF low < 0 THEN 0 ELSE low
  <2>1. S \subseteq Int /\ S # {} /\ high \in Int /\ (\A x \in S : x <= high) /\ high \in S
    BY <1>3
  <2> HIDE DEF S, high
  <2>3. Max(S) \in S /\ \A x \in S : x <= Max(S)
    BY <2>1, MaxRight
  <2>4. Max(S) <= high /\ high <= Max(S) /\ Max(S) \in Int
    BY <2>1, <2>3
  <2>5. Max(S) = high
    BY <2>1, <2>4
  <2> QED BY <2>5 DEF S, high
<1>5. Clamp(n) = IF low < 0 THEN 0 ELSE low
  BY <1>2, <1>4 DEF Clamp, M
<1> QED BY <1>1, <1>5 DEF M

-----------------------------------------------------------------------------
(* Colours and cells.                                                      *)

Vectors == [Axes -> Int]

LEMMA AxesAre == \A i \in Axes : i = 1 \/ i = 2 \/ i = 3
BY DEF Axes

LEMMA Scales == \A i \in Axes : Scale[i] \in Nat
BY AxesAre DEF Scale

LEMMA CellSizes ==
    ASSUME NEW i \in Axes
    PROVE  CellSize(i) \in Nat \ {0} /\ Samples = CellSize(i) * HistElems[i]
<1> DEFINE h == HistElems[i]
           q == Samples \div h
<1>1. Samples \in Nat \ {0} /\ h \in Nat \ {0} /\ Samples % h = 0
  BY QuantAssumption
<1> HIDE DEF h
<1>2. q \in Int /\ Samples = (h * q) + 0
  BY <1>1, DivBounds
<1> HIDE DEF q
<1>3. q > 0
  <2>1. CASE q <= 0
    <3>1. h * q <= 0
      BY <1>1, <1>2, <2>1
    <3> QED BY <1>1, <1>2, <3>1
  <2> QED BY <1>2, <2>1
<1>4. Samples = q * h
  BY <1>1, <1>2
<1> QED BY <1>2, <1>3, <1>4 DEF q, h, CellSize

LEMMA TripleIs ==
    ASSUME NEW f, NEW S, f \in [Axes -> S]
    PROVE  Triple(f) = f
BY AxesAre DEF Triple, Axes

\* The cell of a colour is a cell.
LEMMA CellOfColour ==
    ASSUME NEW colour \in Colours
    PROVE  CellOf(colour) \in Cells
<1>1. ASSUME NEW i \in Axes
      PROVE  colour[i] \div CellSize(i) \in 0..MAXJSAMPLE /\ colour[i] \div CellSize(i) < HistElems[i]
  <2> DEFINE s == CellSize(i)
             h == HistElems[i]
             x == colour[i]
             q == x \div s
  <2>1. s \in Nat \ {0} /\ Samples = s * h /\ h \in Nat \ {0}
    BY CellSizes, QuantAssumption
  <2>2. x \in Nat /\ x < Samples /\ Samples \in Nat
    BY QuantAssumption DEF Colours, MAXJSAMPLE
  <2> HIDE DEF s, h, x
  <2>3. q \in Int /\ x % s \in 0..(s - 1) /\ x = (s * q) + (x % s)
    BY <2>1, <2>2, DivBounds
  <2> DEFINE m == x % s
  <2> HIDE DEF q, m
  <2>4. q >= 0
    <3>1. CASE q <= -1
      <4>1. s * q <= -s
        BY <3>1, <2>1, <2>3
      <4> QED BY <4>1, <2>1, <2>2, <2>3 DEF m
    <3> QED BY <3>1, <2>3
  <2>5. q < h
    <3>1. CASE q >= h
      <4>1. s * q >= s * h
        BY <3>1, <2>1, <2>3
      <4> QED BY <4>1, <2>1, <2>2, <2>3 DEF m
    <3> QED BY <3>1, <2>3, <2>1
  <2>6. q <= x
    <3>1. s * q >= q
      BY <2>1, <2>3, <2>4
    <3> QED BY <3>1, <2>1, <2>2, <2>3 DEF m
  <2>7. q \in 0..MAXJSAMPLE /\ q < h
    BY <2>2, <2>3, <2>4, <2>5, <2>6 DEF MAXJSAMPLE
  <2> QED BY <2>7 DEF q, x, s, h
<1>2. CellOf(colour) \in Colours
  BY <1>1 DEF CellOf, Colours
<1>3. \A i \in Axes : CellOf(colour)[i] < HistElems[i]
  BY <1>1 DEF CellOf
<1> QED BY <1>2, <1>3 DEF Cells

LEMMA CentreType ==
    ASSUME NEW cell \in Cells
    PROVE  Centre(cell) \in Vectors
<1>1. ASSUME NEW i \in Axes PROVE cell[i] * CellSize(i) + CellSize(i) \div 2 \in Int
  <2> DEFINE s == CellSize(i)
             c == cell[i]
  <2>1. s \in Nat
    BY CellSizes
  <2>2. c \in Int
    BY DEF Cells, Colours
  <2> HIDE DEF s, c
  <2>3. c * s + s \div 2 \in Int
    BY <2>1, <2>2
  <2> QED BY <2>3 DEF s, c
<1> QED BY <1>1 DEF Centre, Vectors

LEMMA SquareUp ==
    ASSUME NEW a \in Int, NEW b \in Int, (a <= b /\ -b <= a) \/ (a <= -b /\ b <= a)
    PROVE  Square(a) <= Square(b) /\ Square(a) \in Nat /\ Square(b) \in Nat
<1>1. \A x \in Int : x * x \in Nat
  <2> TAKE x \in Int
  <2>1. CASE x >= 0
    BY <2>1
  <2>2. CASE x < 0
    <3>1. (-x) * (-x) \in Nat
      BY <2>2
    <3>2. x * x = (-x) * (-x)
      OBVIOUS
    <3> QED BY <3>1, <3>2
  <2> QED BY <2>1, <2>2
<1>2. \A x, y \in Nat : x <= y => x * x <= y * y
  <2> TAKE x, y \in Nat
  <2> HAVE x <= y
  <2>1. x * x <= x * y
    OBVIOUS
  <2>2. x * y <= y * y
    OBVIOUS
  <2> QED BY <2>1, <2>2
<1> DEFINE p == IF a >= 0 THEN a ELSE -a
           q == IF b >= 0 THEN b ELSE -b
<1>3. p \in Nat /\ q \in Nat /\ p <= q
  OBVIOUS
<1>4. a * a = p * p /\ b * b = q * q
  <2>1. (-a) * (-a) = a * a /\ (-b) * (-b) = b * b
    OBVIOUS
  <2> QED BY <2>1
<1> HIDE DEF p, q
<1> QED BY <1>1, <1>2, <1>3, <1>4 DEF Square

-----------------------------------------------------------------------------
(* Distances.                                                              *)

LEMMA Sum3Less ==
    ASSUME NEW f \in [Axes -> Nat], NEW g \in [Axes -> Nat], \A i \in Axes : f[i] <= g[i]
    PROVE  Sum3(f) <= Sum3(g) /\ Sum3(f) \in Nat /\ Sum3(g) \in Nat
<1>1. \A i \in {1, 2, 3} : f[i] \in Nat /\ g[i] \in Nat /\ f[i] <= g[i]
  BY DEF Axes
<1> QED BY <1>1 DEF Sum3

\* Along an axis, a point between the ends is no nearer than the least distance and no farther
\* than the greatest.
LEMMA AxisBounds ==
    ASSUME NEW x \in Int, NEW lo \in Int, NEW hi \in Int, NEW c \in Int, lo <= c, c <= hi, NEW s \in Nat
    PROVE  /\ Nearest1(x, lo, hi, s) \in Nat /\ Farthest1(x, lo, hi, s) \in Nat
           /\ Square((x - c) * s) \in Nat
           /\ Nearest1(x, lo, hi, s) <= Square((x - c) * s)
           /\ Square((x - c) * s) <= Farthest1(x, lo, hi, s)
<1>1. \A a, b \in Int : a <= b => a * s <= b * s
  <2> TAKE a, b \in Int
  <2> HAVE a <= b
  <2>1. (b - a) * s \in Nat
    OBVIOUS
  <2>2. (b - a) * s = b * s - a * s
    OBVIOUS
  <2> QED BY <2>1, <2>2
<1>2. \A a \in Int : a * s \in Int /\ (-a) * s = -(a * s)
  OBVIOUS
<1> DEFINE d == x - c
<1>3. ASSUME NEW a \in Int, NEW b \in Int, (a <= b /\ -b <= a) \/ (a <= -b /\ b <= a)
      PROVE  Square(a * s) <= Square(b * s) /\ Square(a * s) \in Nat /\ Square(b * s) \in Nat
  <2>1. a * s \in Int /\ b * s \in Int
    BY <1>2
  <2>2. (a * s <= b * s /\ -(b * s) <= a * s) \/ (a * s <= -(b * s) /\ b * s <= a * s)
    <3>1. CASE a <= b /\ -b <= a
      <4>1. a * s <= b * s /\ (-b) * s <= a * s
        BY <3>1, <1>1
      <4> QED BY <4>1, <1>2
    <3>2. CASE a <= -b /\ b <= a
      <4>1. a * s <= (-b) * s /\ b * s <= a * s
        BY <3>2, <1>1
      <4> QED BY <4>1, <1>2
    <3> QED BY <1>3, <3>1, <3>2
  <2> DEFINE u == a * s
             v == b * s
  <2> HIDE DEF u, v
  <2>3. Square(u) <= Square(v) /\ Square(u) \in Nat /\ Square(v) \in Nat
    BY <2>1, <2>2, SquareUp DEF u, v
  <2> QED BY <2>3 DEF u, v
<1>4. Square(d * s) \in Nat
  BY <1>3
<1>5. Nearest1(x, lo, hi, s) \in Nat /\ Nearest1(x, lo, hi, s) <= Square(d * s)
  <2>1. CASE x < lo
    <3> DEFINE a == x - lo
    <3>2. Square(a * s) <= Square(d * s) /\ Square(a * s) \in Nat
      <4>1. a <= -d /\ d <= a /\ a \in Int /\ d \in Int
        BY <2>1
      <4> HIDE DEF a, d
      <4> QED BY <4>1, <1>3
    <3> QED BY <2>1, <3>2 DEF Nearest1
  <2>2. CASE x > hi
    <3> DEFINE a == x - hi
    <3>1. a <= d /\ -d <= a /\ a \in Int /\ d \in Int
      BY <2>2
    <3>2. Square(a * s) <= Square(d * s) /\ Square(a * s) \in Nat
      <4> HIDE DEF a, d
      <4> QED BY <3>1, <1>3
    <3>3. ~(x < lo)
      BY <2>2
    <3> QED BY <2>2, <3>2, <3>3 DEF Nearest1
  <2>3. CASE ~(x < lo) /\ ~(x > hi)
    BY <2>3, <1>4 DEF Nearest1
  <2> QED BY <2>1, <2>2, <2>3
<1>6. Farthest1(x, lo, hi, s) \in Nat /\ Square(d * s) <= Farthest1(x, lo, hi, s)
  <2> DEFINE m == (lo + hi) \div 2
  <2>1. m \in Int /\ (lo + hi = 2 * m \/ lo + hi = 2 * m + 1)
    OBVIOUS
  <2> HIDE DEF m
  <2>2. CASE x <= m
    <3> DEFINE a == x - hi
    <3>1. d <= -a /\ a <= d /\ a \in Int /\ d \in Int
      BY <2>1, <2>2
    <3>2. Square(d * s) <= Square(a * s) /\ Square(a * s) \in Nat
      <4> HIDE DEF a, d
      <4> QED BY <3>1, <1>3
    <3> QED BY <2>2, <3>2 DEF Farthest1, m
  <2>3. CASE ~(x <= m)
    <3> DEFINE a == x - lo
    <3>1. d <= a /\ -a <= d /\ a \in Int /\ d \in Int
      BY <2>1, <2>3
    <3>2. Square(d * s) <= Square(a * s) /\ Square(a * s) \in Nat
      <4> HIDE DEF a, d
      <4> QED BY <3>1, <1>3
    <3> QED BY <2>3, <3>2 DEF Farthest1, m
  <2> QED BY <2>2, <2>3
<1> QED BY <1>4, <1>5, <1>6

\* The centre of a cell lies between the extremes of its update box.
LEMMA CentreInBox ==
    ASSUME NEW cell \in Cells, NEW i \in Axes
    PROVE  /\ MinC(BoxOf(cell))[i] \in Int /\ MaxC(BoxOf(cell))[i] \in Int /\ Centre(cell)[i] \in Int
           /\ MinC(BoxOf(cell))[i] <= Centre(cell)[i] /\ Centre(cell)[i] <= MaxC(BoxOf(cell))[i]
<1> DEFINE s == CellSize(i)
           e == BoxElems[i]
           c == cell[i]
           b == c \div e
           half == s \div 2
<1>1. s \in Nat \ {0} /\ e \in Nat \ {0} /\ c \in Int
  BY CellSizes, QuantAssumption DEF Cells, Colours
<1>2. /\ MinC(BoxOf(cell))[i] = b * e * s + half
      /\ MaxC(BoxOf(cell))[i] = (b * e * s + half) + (e - 1) * s
      /\ Centre(cell)[i] = c * s + half
  BY DEF MinC, MaxC, BoxOf, Centre
<1> HIDE DEF s, e, c
<1>3. b \in Int /\ c % e \in 0..(e - 1) /\ c = (e * b) + (c % e)
  BY <1>1, DivBounds
<1> DEFINE m == c % e
<1>4. half \in Int
  BY <1>1
<1> HIDE DEF b, m, half
<1>5. c = (b * e) + m /\ b * e \in Int /\ m \in 0..(e - 1)
  BY <1>1, <1>3 DEF m
<1> DEFINE be == b * e
<1> HIDE DEF be
<1>6. c * s = be * s + m * s
  <2>1. be \in Int /\ m \in Int /\ c = be + m
    BY <1>1, <1>5 DEF be
  <2> QED BY <1>1, <2>1
<1>7. 0 <= m * s /\ m * s <= (e - 1) * s
  <2>1. m \in Nat /\ e - 1 \in Nat /\ e - 1 - m \in Nat
    BY <1>1, <1>5
  <2>2. (e - 1 - m) * s \in Nat
    BY <2>1, <1>1
  <2>3. (e - 1 - m) * s = (e - 1) * s - m * s
    BY <1>1, <2>1
  <2>4. m * s \in Nat
    BY <1>1, <2>1
  <2> QED BY <1>1, <2>1, <2>2, <2>3, <2>4
<1>8. be * s \in Int /\ m * s \in Int /\ (e - 1) * s \in Int
  BY <1>1, <1>5 DEF be
<1> DEFINE bes == be * s
           ms  == m * s
           es  == (e - 1) * s
<1>9. /\ MinC(BoxOf(cell))[i] = bes + half
      /\ MaxC(BoxOf(cell))[i] = (bes + half) + es
      /\ Centre(cell)[i] = (bes + ms) + half
  BY <1>2, <1>6 DEF be
<1> HIDE DEF bes, ms, es
<1>10. bes \in Int /\ ms \in Int /\ es \in Int /\ 0 <= ms /\ ms <= es
  BY <1>7, <1>8 DEF bes, ms, es
<1> QED BY <1>4, <1>9, <1>10

LEMMA DistanceBounds ==
    ASSUME NEW colour \in Vectors, NEW cell \in Cells
    PROVE  /\ MinDist(colour, BoxOf(cell)) <= Distance(colour, Centre(cell))
           /\ Distance(colour, Centre(cell)) <= MaxDist(colour, BoxOf(cell))
           /\ MinDist(colour, BoxOf(cell)) \in Nat /\ MaxDist(colour, BoxOf(cell)) \in Nat
           /\ Distance(colour, Centre(cell)) \in Nat
<1> DEFINE lo(i) == MinC(BoxOf(cell))[i]
           hi(i) == MaxC(BoxOf(cell))[i]
           near == [i \in Axes |-> Nearest1(colour[i], lo(i), hi(i), Scale[i])]
           far  == [i \in Axes |-> Farthest1(colour[i], lo(i), hi(i), Scale[i])]
           dist == [i \in Axes |-> Square((colour[i] - Centre(cell)[i]) * Scale[i])]
<1>1. \A i \in Axes : /\ near[i] \in Nat /\ dist[i] \in Nat /\ far[i] \in Nat
                      /\ near[i] <= dist[i] /\ dist[i] <= far[i]
  <2> TAKE i \in Axes
  <2> DEFINE x == colour[i]
             c == Centre(cell)[i]
             s == Scale[i]
             l == lo(i)
             h == hi(i)
  <2>1. x \in Int /\ l \in Int /\ h \in Int /\ c \in Int /\ l <= c /\ c <= h /\ s \in Nat
    BY CentreInBox, Scales DEF Vectors
  <2>2. /\ near[i] = Nearest1(x, l, h, s) /\ far[i] = Farthest1(x, l, h, s)
        /\ dist[i] = Square((x - c) * s)
    OBVIOUS
  <2>3. /\ Nearest1(x, l, h, s) \in Nat /\ Farthest1(x, l, h, s) \in Nat
        /\ Square((x - c) * s) \in Nat
        /\ Nearest1(x, l, h, s) <= Square((x - c) * s)
        /\ Square((x - c) * s) <= Farthest1(x, l, h, s)
    <3> HIDE DEF x, c, s, l, h
    <3> QED BY <2>1, AxisBounds
  <2> HIDE DEF x, c, s, l, h, near, far, dist
  <2> QED BY <2>2, <2>3
<1>2. near \in [Axes -> Nat] /\ dist \in [Axes -> Nat] /\ far \in [Axes -> Nat]
  BY <1>1
<1>3. /\ MinDist(colour, BoxOf(cell)) = Sum3(near) /\ MaxDist(colour, BoxOf(cell)) = Sum3(far)
      /\ Distance(colour, Centre(cell)) = Sum3(dist)
  BY DEF MinDist, MaxDist, Distance
<1> HIDE DEF near, far, dist
<1>4. Sum3(near) <= Sum3(dist) /\ Sum3(near) \in Nat /\ Sum3(dist) \in Nat
  BY <1>1, <1>2, Sum3Less
<1>5. Sum3(dist) <= Sum3(far) /\ Sum3(far) \in Nat
  BY <1>1, <1>2, Sum3Less
<1> QED BY <1>3, <1>4, <1>5

-----------------------------------------------------------------------------
(* The inverse colormap.                                                   *)

IsMap(map) == map \in Seq(Vectors) /\ map # <<>>
Nearest(map, k, cell) ==
    /\ k \in DOMAIN map
    /\ \A j \in DOMAIN map : Distance(map[k], Centre(cell)) <= Distance(map[j], Centre(cell))

\* The list of an update box leaves no entry out that is nearest to one of its cells.
LEMMA NearbyEnough ==
    ASSUME NEW map, IsMap(map), NEW cell \in Cells
    PROVE  Nearest(map, Find_best_color(map, Find_nearby_colors(map, BoxOf(cell)), cell), cell)
<1> DEFINE box  == BoxOf(cell)
           list == Find_nearby_colors(map, box)
           D(k) == Distance(map[k], Centre(cell))
           far(k) == MaxDist(map[k], box)
           near(k) == MinDist(map[k], box)
           fars == {far(k) : k \in DOMAIN map}
<1>1. \A k \in DOMAIN map : /\ near(k) \in Nat /\ far(k) \in Nat /\ D(k) \in Nat
                            /\ near(k) <= D(k) /\ D(k) <= far(k)
  <2> TAKE k \in DOMAIN map
  <2>1. map[k] \in Vectors
    BY DEF IsMap
  <2> QED BY <2>1, DistanceBounds
<1>2. DOMAIN map \subseteq Nat /\ DOMAIN map # {}
  <2>1. DOMAIN map = 1..Len(map) /\ Len(map) \in Nat /\ Len(map) # 0
    BY DEF IsMap
  <2> QED BY <2>1
<1>3. list = {k \in DOMAIN map : near(k) <= Min(fars)}
  BY DEF Find_nearby_colors
<1> HIDE DEF D, far, near, box, list
<1>4. Min(fars) \in fars
  <2>1. fars \subseteq Nat /\ fars # {}
    BY <1>1, <1>2
  <2> HIDE DEF fars
  <2> QED BY <2>1, MinOfNat
<1>5. PICK j0 \in DOMAIN map : Min(fars) = far(j0)
  BY <1>4
<1>6. PICK best \in DOMAIN map : \A k \in DOMAIN map : D(best) <= D(k)
  <2> DEFINE T == {D(k) : k \in DOMAIN map}
  <2>1. T \subseteq Nat /\ T # {}
    BY <1>1, <1>2
  <2>2. PICK t \in T : \A u \in T : t <= u
    BY <2>1, LeastNumber
  <2>3. PICK k \in DOMAIN map : t = D(k)
    BY <2>2
  <2>4. \A j \in DOMAIN map : D(k) <= D(j)
    BY <2>2, <2>3
  <2> QED BY <2>4
<1> HIDE DEF fars
<1>7. best \in list
  <2>1. near(best) <= D(best) /\ D(best) <= D(j0) /\ D(j0) <= far(j0)
    BY <1>1, <1>6
  <2>2. near(best) <= far(j0)
    BY <1>1, <2>1
  <2> QED BY <1>3, <1>5, <2>2
<1> DEFINE bests == {k \in list : \A j \in list : D(k) <= D(j)}
<1>8. bests \subseteq Nat /\ bests # {}
  <2>1. list \subseteq DOMAIN map
    BY <1>3
  <2>2. best \in bests
    BY <1>6, <1>7, <2>1
  <2> QED BY <1>2, <2>1, <2>2
<1>9. Min(bests) \in bests
  <2> HIDE DEF bests
  <2> QED BY <1>8, MinOfNat
<1>10. Find_best_color(map, list, cell) = Min(bests)
  BY DEF Find_best_color, D
<1> DEFINE k == Min(bests)
<1> HIDE DEF k
<1>11. k \in list /\ D(k) <= D(best) /\ k \in DOMAIN map
  BY <1>3, <1>7, <1>9 DEF k
<1>12. \A j \in DOMAIN map : D(k) <= D(j)
  <2> TAKE j \in DOMAIN map
  <2>1. D(k) \in Nat /\ D(best) \in Nat /\ D(j) \in Nat /\ D(best) <= D(j)
    BY <1>1, <1>6, <1>11
  <2> QED BY <1>11, <2>1
<1>13. Nearest(map, k, cell)
  BY <1>11, <1>12 DEF Nearest, D
<1> QED BY <1>10, <1>13 DEF k, list, box

-----------------------------------------------------------------------------
(* The colormap of the one-pass quantizer.                                 *)

LEMMA DivOrder ==
    ASSUME NEW a \in Int, NEW c \in Int, NEW b \in Nat \ {0}, a <= c
    PROVE  a \div b <= c \div b
<1> DEFINE p == a \div b
           q == c \div b
           r == a % b
           t == c % b
<1>1. /\ p \in Int /\ r \in 0..(b - 1) /\ a = (b * p) + r
      /\ q \in Int /\ t \in 0..(b - 1) /\ c = (b * q) + t
  BY DivBounds
<1> HIDE DEF p, q, r, t
<1>2. CASE p >= q + 1
  <2>1. b * p >= b * (q + 1)
    BY <1>1, <1>2
  <2>2. b * (q + 1) = b * q + b
    BY <1>1
  <2> QED BY <2>1, <2>2, <1>1
<1>3. CASE p <= q
  BY <1>3
<1>4. p <= q
  BY <1>1, <1>2, <1>3
<1> QED BY <1>4 DEF p, q

LEMMA DivLess ==
    ASSUME NEW a \in Nat, NEW b \in Nat \ {0}, NEW c \in Nat, a < b * c
    PROVE  a \div b \in 0..(c - 1)
<1> DEFINE p == a \div b
           r == a % b
<1>1. p \in Int /\ r \in 0..(b - 1) /\ a = (b * p) + r
  BY DivBounds
<1> HIDE DEF p, r
<1>2. p >= 0
  <2>1. CASE p <= -1
    <3>1. b * p <= -b
      BY <2>1, <1>1
    <3> QED BY <3>1, <1>1
  <2> QED BY <2>1, <1>1
<1>3. p < c
  <2>1. CASE p >= c
    <3>1. b * p >= b * c
      BY <2>1, <1>1
    <3>2. b * c \in Int /\ b * p \in Int
      BY <1>1
    <3> QED BY <3>1, <3>2, <1>1
  <2> QED BY <2>1, <1>1
<1>4. p \in 0..(c - 1)
  BY <1>1, <1>2, <1>3
<1> QED BY <1>4 DEF p

\* The values next to each other and the sample that divides them: twice that sample is their
\* sum, but for the roundings.
LEMMA Breakpoint ==
    ASSUME NEW j \in Nat, NEW m \in Nat \ {0}
    PROVE  /\ Output_value(j, m) \in Int /\ Output_value(j + 1, m) \in Int /\ Largest_input_value(j, m) \in Int
           /\ 2 * Largest_input_value(j, m) <= Output_value(j, m) + Output_value(j + 1, m) + 1
           /\ Output_value(j, m) + Output_value(j + 1, m) <= 2 * Largest_input_value(j, m) + 1
<1> DEFINE M == MAXJSAMPLE
           A == j * M
           h == m \div 2
           o == (A + h) \div m
           u == (A + M + h) \div m
           l == (2 * A + M + m) \div (2 * m)
<1>1. M \in Nat
  BY QuantAssumption DEF MAXJSAMPLE
<1>2. A \in Nat /\ (j + 1) * M = A + M /\ (2 * j + 1) * M = 2 * A + M
  BY <1>1
<1>3. /\ Output_value(j, m) = o /\ Output_value(j + 1, m) = u
      /\ Largest_input_value(j, m) = l
  BY <1>2 DEF Output_value, Largest_input_value
<1>4. h \in Nat /\ (m = 2 * h \/ m = 2 * h + 1)
  OBVIOUS
<1> HIDE DEF M, A, h
<1>5. /\ o \in Int /\ (A + h) % m \in 0..(m - 1) /\ A + h = (m * o) + ((A + h) % m)
  <2> DEFINE e == A + h
  <2>1. e \in Int
    BY <1>2, <1>4
  <2> HIDE DEF e
  <2>2. e \div m \in Int /\ e % m \in 0..(m - 1) /\ e = (m * (e \div m)) + (e % m)
    BY <2>1, DivBounds
  <2> QED BY <2>2 DEF e
<1>6. /\ u \in Int /\ (A + M + h) % m \in 0..(m - 1) /\ A + M + h = (m * u) + ((A + M + h) % m)
  <2> DEFINE e == A + M + h
  <2>1. e \in Int
    BY <1>1, <1>2, <1>4
  <2> HIDE DEF e
  <2>2. e \div m \in Int /\ e % m \in 0..(m - 1) /\ e = (m * (e \div m)) + (e % m)
    BY <2>1, DivBounds
  <2> QED BY <2>2 DEF e
<1>7. /\ l \in Int /\ (2 * A + M + m) % (2 * m) \in 0..(2 * m - 1)
      /\ 2 * A + M + m = ((2 * m) * l) + ((2 * A + M + m) % (2 * m))
  <2> DEFINE e == 2 * A + M + m
             d == 2 * m
  <2>1. e \in Int /\ d \in Nat \ {0}
    BY <1>1, <1>2
  <2> HIDE DEF e, d
  <2>2. e \div d \in Int /\ e % d \in 0..(d - 1) /\ e = (d * (e \div d)) + (e % d)
    BY <2>1, DivBounds
  <2> QED BY <2>2 DEF e, d
<1> DEFINE ro == (A + h) % m
           ru == (A + M + h) % m
           rl == (2 * A + M + m) % (2 * m)
<1> HIDE DEF o, u, l, ro, ru, rl
<1> DEFINE up == (2 * l - o) - u
<1>8. up \in Int /\ m * up = ((2 * m) * l - m * o) - m * u
  BY <1>5, <1>6, <1>7
<1>9. /\ (2 * m) * l = ((2 * A + M) + m) - rl /\ m * o = (A + h) - ro /\ m * u = (A + M + h) - ru
      /\ rl \in 0..(2 * m - 1) /\ ro \in 0..(m - 1) /\ ru \in 0..(m - 1)
  <2>1. (2 * m) * l \in Int /\ m * o \in Int /\ m * u \in Int
    BY <1>5, <1>6, <1>7
  <2> QED BY <1>1, <1>2, <1>4, <1>5, <1>6, <1>7, <2>1 DEF ro, ru, rl
<1>10. m * up = ((m - 2 * h) - rl) + ro + ru
  BY <1>1, <1>2, <1>4, <1>8, <1>9
<1>11. m * up <= 2 * m - 1 /\ m * up >= -(2 * m - 1)
  BY <1>4, <1>9, <1>10
<1> HIDE DEF up
<1>12. up <= 1
  <2>1. CASE up >= 2
    <3>1. m * up >= m * 2
      BY <1>8, <2>1
    <3> QED BY <3>1, <1>11, <1>8
  <2> QED BY <2>1, <1>8
<1>13. up >= -1
  <2>1. CASE up <= -2
    <3>1. m * up <= m * (-2)
      BY <1>8, <2>1
    <3> QED BY <3>1, <1>11, <1>8
  <2> QED BY <2>1, <1>8
<1>14. 2 * l <= o + u + 1 /\ o + u <= 2 * l + 1
  BY <1>5, <1>6, <1>7, <1>12, <1>13 DEF up
<1> QED BY <1>3, <1>5, <1>6, <1>7, <1>14

LEMMA ValuesAscend ==
    ASSUME NEW j \in Nat, NEW k \in Nat, j <= k, NEW m \in Nat \ {0}
    PROVE  Output_value(j, m) <= Output_value(k, m) /\ Output_value(j, m) \in Int
<1> DEFINE M == MAXJSAMPLE
           a == j * M + m \div 2
           c == k * M + m \div 2
<1>1. M \in Nat
  BY QuantAssumption DEF MAXJSAMPLE
<1> HIDE DEF M
<1>2. j * M <= k * M
  <2>1. (k - j) * M \in Nat
    BY <1>1
  <2>2. (k - j) * M = k * M - j * M
    BY <1>1
  <2> QED BY <2>1, <2>2, <1>1
<1>3. a \in Int /\ c \in Int /\ a <= c
  BY <1>1, <1>2
<1>4. Output_value(j, m) = a \div m /\ Output_value(k, m) = c \div m
  BY DEF Output_value, M
<1> HIDE DEF a, c
<1>5. a \div m \in Int
  BY <1>3, DivBounds
<1> QED BY <1>3, <1>4, <1>5, DivOrder

\* How many values each component has.
IsCounts(n) == n \in [Axes -> Nat] /\ \A i \in Axes : n[i] >= 2

\* No value of a component is nearer to a sample than the one it is mapped to, but for one.
LEMMA ValueNearest ==
    ASSUME NEW n, IsCounts(n), NEW i \in Axes, NEW x \in Int
    PROVE  /\ Value(n, i, x) \in 0..(n[i] - 1)
           /\ \A j \in 0..(n[i] - 1) :
                 /\ Output_value(j, n[i] - 1) \in Int
                 /\ Abs(Output_value(Value(n, i, x), n[i] - 1) - Clamp(x))
                       <= Abs(Output_value(j, n[i] - 1) - Clamp(x)) + 1
<1> DEFINE m == n[i] - 1
           y == Clamp(x)
           L(j) == Largest_input_value(j, m)
           O(j) == Output_value(j, m)
           S == {j \in 0..m : y <= L(j)}
           v == Min(S)
<1>1. m \in Nat \ {0} /\ y \in 0..MAXJSAMPLE /\ MAXJSAMPLE \in Nat
  BY ClampRight, QuantAssumption DEF IsCounts, MAXJSAMPLE
<1>2. Value(n, i, x) = v
  BY DEF Value
<1> HIDE DEF m, y
<1>3. \A j \in Nat : /\ O(j) \in Int /\ O(j + 1) \in Int /\ L(j) \in Int
                     /\ 2 * L(j) <= O(j) + O(j + 1) + 1 /\ O(j) + O(j + 1) <= 2 * L(j) + 1
  BY <1>1, Breakpoint
<1>4. \A j, k \in Nat : j <= k => O(j) <= O(k)
  BY <1>1, ValuesAscend
<1>5. L(m) >= MAXJSAMPLE
  <2> DEFINE M == MAXJSAMPLE
             d == 2 * m
             e == (2 * m + 1) * M + m
  <2>1. d \in Nat \ {0} /\ M \in Nat /\ e \in Int /\ d * M \in Int /\ d * M <= e
    <3>1. (2 * m + 1) * M = (2 * m) * M + M
      BY <1>1
    <3> QED BY <1>1, <3>1
  <2>2. L(m) = e \div d
    BY DEF Largest_input_value
  <2> HIDE DEF M, d, e
  <2>3. (d * M + 0) \div d = M
    BY <2>1, DivUnique
  <2>4. (d * M) \div d <= e \div d
    BY <2>1, DivOrder
  <2>5. d * M + 0 = d * M
    BY <2>1
  <2> QED BY <2>2, <2>3, <2>4, <2>5 DEF M
<1> HIDE DEF L, O
<1>6. S \subseteq Nat /\ S # {}
  <2>1. m \in S
    BY <1>1, <1>3, <1>5
  <2>2. S \subseteq Nat
    BY <1>1
  <2> QED BY <2>1, <2>2
<1>7. v \in S /\ \A j \in S : v <= j
  <2> HIDE DEF S
  <2> QED BY <1>6, MinOfNat
<1> HIDE DEF v
<1>8. v \in 0..m /\ y <= L(v)
  BY <1>7
<1>9. ASSUME NEW j \in 0..m PROVE Abs(O(v) - y) <= Abs(O(j) - y) + 1
  <2> DEFINE p == O(v)
             q == O(j)
  <2>1. p \in Int /\ q \in Int /\ y \in Int /\ v \in Nat /\ j \in Nat
    BY <1>1, <1>3, <1>8
  <2>2. CASE j = v
    <3>1. Abs(p - y) \in Int
      BY <2>1 DEF Abs
    <3> QED BY <2>2, <3>1
  <2>3. CASE j > v
    <3>1. O(v + 1) <= q /\ p <= q
      BY <1>4, <2>1, <2>3
    <3>2. /\ 2 * L(v) <= p + O(v + 1) + 1 /\ O(v + 1) \in Int /\ L(v) \in Int
      BY <1>3, <2>1
    <3>3. 2 * y <= p + q + 1
      BY <1>8, <2>1, <3>1, <3>2
    <3> HIDE DEF p, q
    <3>4. Abs(p - y) <= Abs(q - y) + 1
      BY <2>1, <3>1, <3>3 DEF Abs
    <3> QED BY <3>4 DEF p, q
  <2>4. CASE j < v
    <3>1. v - 1 \in 0..m /\ v - 1 \in Nat /\ j <= v - 1 /\ v - 1 \notin S
      BY <1>7, <1>8, <1>1, <2>1, <2>4
    <3>2. y > L(v - 1) /\ L(v - 1) \in Int
      <4>1. L(v - 1) \in Int
        BY <1>3, <3>1
      <4> QED BY <2>1, <3>1, <4>1
    <3>3. O(v - 1) + p <= 2 * L(v - 1) + 1 /\ O(v - 1) \in Int
      <4> DEFINE w == v - 1
      <4>1. w \in Nat /\ w + 1 = v
        BY <2>1, <3>1
      <4> HIDE DEF w
      <4>2. O(w) + O(w + 1) <= 2 * L(w) + 1 /\ O(w) \in Int
        BY <1>3, <4>1
      <4> QED BY <4>1, <4>2 DEF w
    <3>4. q <= O(v - 1) /\ q <= p
      BY <1>4, <2>1, <2>4, <3>1
    <3>5. q + p < 2 * y
      BY <2>1, <3>2, <3>3, <3>4
    <3> HIDE DEF p, q
    <3>6. Abs(p - y) <= Abs(q - y) + 1
      BY <2>1, <3>4, <3>5 DEF Abs
    <3> QED BY <3>6 DEF p, q
  <2> QED BY <2>1, <2>2, <2>3, <2>4
<1>10. \A j \in 0..m : O(j) \in Int
  BY <1>3, <1>1
<1> QED BY <1>2, <1>8, <1>9, <1>10 DEF m, y, O

-----------------------------------------------------------------------------
(* Row-major order.                                                        *)

\* The values of an entry are values...
LEMMA EntryValues ==
    ASSUME NEW n, IsCounts(n), NEW k \in 1..Product(n)
    PROVE  LET j == <<((k - 1) \div n[3]) \div n[2], ((k - 1) \div n[3]) % n[2], (k - 1) % n[3]>>
           IN  \A i \in Axes : j[i] \in 0..(n[i] - 1)
<1> DEFINE a == n[1]
           b == n[2]
           c == n[3]
           e == k - 1
           q == e \div c
<1>1. a \in Nat \ {0} /\ b \in Nat \ {0} /\ c \in Nat \ {0}
  <2>1. \A i \in {1, 2, 3} : n[i] \in Nat /\ n[i] >= 2
    BY DEF IsCounts, Axes
  <2> QED BY <2>1
<1>2. e \in Nat /\ e < (a * b) * c
  <2>1. Product(n) = (a * b) * c
    BY DEF Product
  <2>2. (a * b) * c \in Nat
    BY <1>1
  <2> QED BY <2>1, <2>2
<1> HIDE DEF a, b, c, e
<1>3. a * b \in Nat /\ b * a = a * b /\ (a * b) * c = c * (a * b)
  BY <1>1
<1>4. q \in 0..(a * b - 1)
  <2> DEFINE ab == a * b
  <2>1. ab \in Nat /\ e < c * ab
    BY <1>2, <1>3
  <2> HIDE DEF ab
  <2>2. e \div c \in 0..(ab - 1)
    BY <1>1, <1>2, <2>1, DivLess
  <2> QED BY <2>2 DEF ab
<1> HIDE DEF q
<1>5. q \in Nat /\ q < b * a
  BY <1>3, <1>4
<1>6. q \div b \in 0..(a - 1)
  BY <1>1, <1>5, DivLess
<1>7. q % b \in 0..(b - 1) /\ e % c \in 0..(c - 1)
  BY <1>1, <1>2, <1>5, DivBounds
<1>8. /\ ((k - 1) \div n[3]) \div n[2] \in 0..(n[1] - 1) /\ ((k - 1) \div n[3]) % n[2] \in 0..(n[2] - 1)
      /\ (k - 1) % n[3] \in 0..(n[3] - 1)
  BY <1>6, <1>7 DEF q, e, a, b, c
<1> QED BY <1>8, AxesAre

\* ...and the entry of given values has them.
LEMMA EntryOfValues ==
    ASSUME NEW n, IsCounts(n), NEW v1 \in 0..(n[1] - 1), NEW v2 \in 0..(n[2] - 1), NEW v3 \in 0..(n[3] - 1)
    PROVE  LET k == 1 + (v1 * n[2] + v2) * n[3] + v3
           IN  /\ k \in 1..Product(n)
               /\ ((k - 1) \div n[3]) \div n[2] = v1 /\ ((k - 1) \div n[3]) % n[2] = v2 /\ (k - 1) % n[3] = v3
<1> DEFINE a == n[1]
           b == n[2]
           c == n[3]
           q == b * v1 + v2
           e == c * q + v3
           k == 1 + (v1 * n[2] + v2) * n[3] + v3
<1>1. a \in Nat \ {0} /\ b \in Nat \ {0} /\ c \in Nat \ {0}
  <2>1. \A i \in {1, 2, 3} : n[i] \in Nat /\ n[i] >= 2
    BY DEF IsCounts, Axes
  <2> QED BY <2>1
<1>2. Product(n) = (a * b) * c
  BY DEF Product
<1>3. v1 \in 0..(a - 1) /\ v2 \in 0..(b - 1) /\ v3 \in 0..(c - 1)
  OBVIOUS
<1>4. k = 1 + (v1 * b + v2) * c + v3
  OBVIOUS
<1>5. k - 1 = e /\ q \in Nat /\ e \in Nat
  <2>1. b * v1 \in Nat /\ v1 * b = b * v1
    BY <1>1, <1>3
  <2>2. q \in Nat /\ v1 * b + v2 = q
    BY <2>1, <1>3
  <2> HIDE DEF q
  <2>3. c * q \in Nat /\ q * c = c * q
    BY <1>1, <2>2
  <2>4. k = 1 + c * q + v3
    BY <1>4, <2>2, <2>3
  <2> HIDE DEF k
  <2> QED BY <2>2, <2>3, <2>4, <1>3
<1> HIDE DEF a, b, c, k
<1>6. q \div b = v1 /\ q % b = v2
  <2>1. v1 \in Int /\ v2 \in 0..(b - 1) /\ b \in Nat \ {0}
    BY <1>1, <1>3
  <2>2. (b * v1 + v2) \div b = v1 /\ (b * v1 + v2) % b = v2
    BY <2>1, DivUnique
  <2> QED BY <2>2
<1> HIDE DEF q
<1>7. e \div c = q /\ e % c = v3
  <2>1. q \in Int /\ v3 \in 0..(c - 1) /\ c \in Nat \ {0}
    BY <1>1, <1>3, <1>5
  <2>2. (c * q + v3) \div c = q /\ (c * q + v3) % c = v3
    BY <2>1, DivUnique
  <2> QED BY <2>2
<1>8. q <= a * b - 1
  <2>1. b * v1 <= b * (a - 1)
    BY <1>1, <1>3
  <2>2. b * (a - 1) = a * b - b
    BY <1>1
  <2>3. b * v1 \in Int /\ a * b \in Int
    BY <1>1, <1>3
  <2> QED BY <2>1, <2>2, <2>3, <1>1, <1>3 DEF q
<1>9. e <= (a * b) * c - 1
  <2> DEFINE ab == a * b
  <2>1. ab \in Int /\ q <= ab - 1
    BY <1>1, <1>8
  <2> HIDE DEF ab
  <2>2. c * q <= c * (ab - 1)
    BY <1>1, <1>5, <2>1
  <2>3. c * (ab - 1) = ab * c - c
    BY <1>1, <2>1
  <2>4. c * q \in Int /\ ab * c \in Int
    BY <1>1, <1>5, <2>1
  <2>5. e <= ab * c - 1
    BY <2>2, <2>3, <2>4, <1>1, <1>3
  <2> QED BY <2>5 DEF ab
<1> HIDE DEF e
<1>10. k \in 1..Product(n)
  <2>1. (a * b) * c \in Int /\ k \in Int
    BY <1>1, <1>3, <1>4, <1>5
  <2> QED BY <1>2, <1>5, <1>9, <2>1
<1>11. ((k - 1) \div c) \div b = v1 /\ ((k - 1) \div c) % b = v2 /\ (k - 1) % c = v3
  BY <1>5, <1>6, <1>7
<1> QED BY <1>10, <1>11 DEF k, b, c

LEMMA OnePassMap ==
    ASSUME NEW n, IsCounts(n)
    PROVE  /\ IsMap(Create_colormap(n)) /\ DOMAIN Create_colormap(n) = 1..Product(n)
           /\ \A k \in 1..Product(n), i \in Axes :
                 \E j \in 0..(n[i] - 1) : Create_colormap(n)[k][i] = Output_value(j, n[i] - 1)
<1> DEFINE map == Create_colormap(n)
           j(k) == <<((k - 1) \div n[3]) \div n[2], ((k - 1) \div n[3]) % n[2], (k - 1) % n[3]>>
           entry(k) == [i \in Axes |-> Output_value(j(k)[i], n[i] - 1)]
<1>1. map = [k \in 1..Product(n) |-> entry(k)]
  BY DEF Create_colormap
<1>2. \A k \in 1..Product(n), i \in Axes : j(k)[i] \in 0..(n[i] - 1)
  BY EntryValues
<1> HIDE DEF j, map
<1>3. \A i \in Axes, t \in Nat : Output_value(t, n[i] - 1) \in Int
  <2> TAKE i \in Axes, t \in Nat
  <2>1. n[i] - 1 \in Nat \ {0}
    BY DEF IsCounts
  <2> QED BY <2>1, Breakpoint
<1>4. \A k \in 1..Product(n) : entry(k) \in Vectors
  <2> TAKE k \in 1..Product(n)
  <2>1. \A i \in Axes : Output_value(j(k)[i], n[i] - 1) \in Int
    BY <1>2, <1>3
  <2> QED BY <2>1 DEF Vectors
<1>5. \A k \in 1..Product(n), i \in Axes : map[k][i] = Output_value(j(k)[i], n[i] - 1)
  BY <1>1
<1> HIDE DEF entry
<1>6. Product(n) \in Nat \ {0}
  <2>1. \A i \in {1, 2, 3} : n[i] \in Nat /\ n[i] >= 2
    BY DEF IsCounts, Axes
  <2> DEFINE a == n[1]
             b == n[2]
             c == n[3]
  <2>2. a \in Nat /\ a >= 2 /\ b \in Nat /\ b >= 2 /\ c \in Nat /\ c >= 2
    BY <2>1
  <2> HIDE DEF a, b, c
  <2>3. a * b \in Nat /\ a * b >= 1
    BY <2>2
  <2> DEFINE ab == a * b
  <2> HIDE DEF ab
  <2>4. ab * c \in Nat /\ ab * c >= 1
    BY <2>2, <2>3 DEF ab
  <2>5. Product(n) = ab * c
    BY DEF Product, ab, a, b, c
  <2> QED BY <2>4, <2>5
<1>7. map \in Seq(Vectors) /\ DOMAIN map = 1..Product(n) /\ map # <<>>
  <2>1. DOMAIN map = 1..Product(n) /\ \A k \in 1..Product(n) : map[k] \in Vectors
    BY <1>1, <1>4
  <2>2. map \in [1..Product(n) -> Vectors]
    BY <1>1, <1>4
  <2>3. map \in Seq(Vectors)
    BY <1>6, <2>2
  <2>4. ASSUME map = <<>> PROVE FALSE
    <3>1. Len(map) = 0 /\ DOMAIN map = 1..Len(map)
      BY <2>3, <2>4
    <3> QED BY <2>1, <3>1, <1>6
  <2> QED BY <2>1, <2>3, <2>4
<1> QED BY <1>2, <1>5, <1>7 DEF IsMap, map

\* The entry of a colour is in the map and near.
LEMMA ColorindexRight ==
    ASSUME NEW n, IsCounts(n), NEW seen \in Vectors
    PROVE  /\ Colorindex(n, seen) \in DOMAIN Create_colormap(n)
           /\ \A i \in Axes, j \in DOMAIN Create_colormap(n) :
                 Abs(Create_colormap(n)[Colorindex(n, seen)][i] - Clamp(seen[i]))
                    <= Abs(Create_colormap(n)[j][i] - Clamp(seen[i])) + 1
<1> DEFINE map == Create_colormap(n)
           v(i) == Value(n, i, seen[i])
           k == Colorindex(n, seen)
<1>1. \A i \in Axes : seen[i] \in Int
  BY DEF Vectors
<1>2. \A i \in Axes : /\ v(i) \in 0..(n[i] - 1)
                      /\ \A j \in 0..(n[i] - 1) :
                            Abs(Output_value(v(i), n[i] - 1) - Clamp(seen[i]))
                               <= Abs(Output_value(j, n[i] - 1) - Clamp(seen[i])) + 1
  BY <1>1, ValueNearest
<1>3. k = 1 + (v(1) * n[2] + v(2)) * n[3] + v(3)
  BY DEF Colorindex
<1> HIDE DEF v, k
<1>4. v(1) \in 0..(n[1] - 1) /\ v(2) \in 0..(n[2] - 1) /\ v(3) \in 0..(n[3] - 1)
  BY <1>2 DEF Axes
<1>5. /\ k \in 1..Product(n)
      /\ ((k - 1) \div n[3]) \div n[2] = v(1) /\ ((k - 1) \div n[3]) % n[2] = v(2) /\ (k - 1) % n[3] = v(3)
  BY <1>3, <1>4, EntryOfValues
<1>6. DOMAIN map = 1..Product(n)
  BY OnePassMap
<1>7. \A i \in Axes : map[k][i] = Output_value(v(i), n[i] - 1)
  <2> DEFINE j == <<((k - 1) \div n[3]) \div n[2], ((k - 1) \div n[3]) % n[2], (k - 1) % n[3]>>
  <2>1. map[k] = [i \in Axes |-> Output_value(j[i], n[i] - 1)]
    BY <1>5 DEF Create_colormap
  <2>2. j[1] = v(1) /\ j[2] = v(2) /\ j[3] = v(3)
    BY <1>5
  <2> HIDE DEF j
  <2>3. \A i \in Axes : j[i] = v(i)
    BY <2>2, AxesAre
  <2> QED BY <2>1, <2>3
<1>8. \A i \in Axes, j \in DOMAIN map : \E t \in 0..(n[i] - 1) : map[j][i] = Output_value(t, n[i] - 1)
  BY <1>6, OnePassMap
<1> HIDE DEF map
<1>9. \A i \in Axes, j \in DOMAIN map : Abs(map[k][i] - Clamp(seen[i])) <= Abs(map[j][i] - Clamp(seen[i])) + 1
  <2> TAKE i \in Axes, j \in DOMAIN map
  <2>1. PICK t \in 0..(n[i] - 1) : map[j][i] = Output_value(t, n[i] - 1)
    BY <1>8
  <2> QED BY <1>2, <1>7, <2>1
<1> QED BY <1>5, <1>6, <1>9 DEF k, map

-----------------------------------------------------------------------------
(* The number of values of each component.                                 *)

RaisesCounts(given, n, k) == IsCounts(n)
Raises == INSTANCE FoldFacts WITH Op <- Raise_pass, P <- RaisesCounts

LEMMA RootRight ==
    ASSUME Desired \in Int, ~(Root < 2)
    PROVE  Root \in Nat /\ Root >= 2 /\ Desired \in Nat
<1> DEFINE D == Desired
           S == {1} \cup {r \in 1..D : r * r * r <= D}
           b == IF D < 1 THEN 1 ELSE D
<1>1. Root = Max(S)
  BY DEF Root
<1>2. D \in Int
  OBVIOUS
<1> HIDE DEF D
<1>3. S \subseteq Int /\ S # {} /\ b \in Int /\ \A x \in S : x <= b
  BY <1>2
<1>4. \A x \in S : x = 1 \/ (x \in Nat /\ x <= D)
  BY <1>2
<1> HIDE DEF S, b
<1>5. Max(S) \in S
  BY <1>3, MaxRight
<1>6. Root = 1 \/ (Root \in Nat /\ Root <= D)
  BY <1>1, <1>4, <1>5
<1>7. Root \in Nat /\ Root >= 2 /\ Root <= D
  BY <1>6
<1> QED BY <1>2, <1>7 DEF D

LEMMA RaisedCounts ==
    ASSUME NEW n, IsCounts(n), NEW k \in Axes
    PROVE  IsCounts(Raised(n, k))
<1>1. RgbOrder[k] \in Axes
  BY AxesAre DEF RgbOrder, Axes
<1> DEFINE a == RgbOrder[k]
<1>2. Raised(n, k) = [n EXCEPT ![a] = n[a] + 1]
  BY DEF Raised
<1>3. a \in Axes
  BY <1>1
<1> HIDE DEF a
<1>4. n \in [Axes -> Nat] /\ \A i \in Axes : n[i] >= 2
  BY DEF IsCounts
<1> DEFINE t == [n EXCEPT ![a] = n[a] + 1]
<1>5. t \in [Axes -> Nat] /\ \A i \in Axes : t[i] = IF i = a THEN n[i] + 1 ELSE n[i]
  BY <1>3, <1>4
<1> HIDE DEF t
<1>6. \A i \in Axes : t[i] >= 2
  BY <1>4, <1>5
<1> QED BY <1>2, <1>5, <1>6 DEF IsCounts, t

LEMMA TurnsType ==
    ASSUME Desired \in Nat
    PROVE  Turns \in Seq(Nat) /\ Len(Turns) = Desired
<1> DEFINE D == Desired
<1>1. Turns = [turn \in 1..D |-> turn] /\ D \in Nat
  BY DEF Turns
<1> HIDE DEF D
<1>2. Turns \in [1..D -> Nat] /\ DOMAIN Turns = 1..D
  BY <1>1
<1>3. Turns \in Seq(Nat)
  BY <1>1, <1>2
<1>4. Len(Turns) = D
  <2>1. DOMAIN Turns = 1..Len(Turns) /\ Len(Turns) \in Nat
    BY <1>3
  <2> QED BY <1>1, <1>2, <2>1
<1> QED BY <1>3, <1>4 DEF D

LEMMA CountsRight ==
    ASSUME Desired \in Int, ~(Root < 2)
    PROVE  IsCounts(Select_ncolors)
<1> DEFINE base == <<Root, Root, Root>>
<1>1. Root \in Nat /\ Root >= 2 /\ Desired \in Nat
  BY RootRight
<1>2. RaisesCounts(0, base, 0)
  <2> DEFINE r == Root
             t == <<r, r, r>>
  <2> HIDE DEF r
  <2>1. r \in Nat /\ r >= 2
    BY <1>1 DEF r
  <2>2. t \in [1..3 -> Nat] /\ \A i \in 1..3 : t[i] >= 2
    BY <2>1
  <2> QED BY <2>2 DEF RaisesCounts, IsCounts, Axes, r
<1>3. ASSUME NEW k \in 1..Len(Turns), NEW n, RaisesCounts(0, n, k - 1)
      PROVE  RaisesCounts(0, Raise_pass(n, Turns[k]), k)
  <2> DEFINE a == Raised(n, 1)
             b == Raised(a, 2)
             c == Raised(b, 3)
  <2>1. IsCounts(n)
    BY <1>3 DEF RaisesCounts
  <2>2. 1 \in Axes /\ 2 \in Axes /\ 3 \in Axes
    BY DEF Axes
  <2>3. IsCounts(a)
    BY <2>1, <2>2, RaisedCounts
  <2> HIDE DEF a
  <2>4. IsCounts(b)
    BY <2>2, <2>3, RaisedCounts
  <2> HIDE DEF b
  <2>5. IsCounts(c)
    BY <2>2, <2>4, RaisedCounts
  <2> HIDE DEF c
  <2>6. Raise_pass(n, Turns[k]) \in {n, a, b, c}
    BY DEF Raise_pass, a, b, c
  <2> QED BY <2>1, <2>3, <2>4, <2>5, <2>6 DEF RaisesCounts
<1> HIDE DEF base
<1>4. Turns \in Seq(Nat)
  BY <1>1, TurnsType
<1>5. RaisesCounts(0, Raises!Fold(base, Turns), Len(Turns))
  BY <1>2, <1>3, <1>4, Raises!FoldKeeps
<1>6. FoldLeft(Raise_pass, base, Turns) = Raises!Fold(base, Turns)
  BY DEF FoldLeft, Raises!Fold, MapThenFoldSet, Max, Raises!Greatest
<1> QED BY <1>5, <1>6 DEF RaisesCounts, Select_ncolors, base

-----------------------------------------------------------------------------
(* Ordered dithering.                                                      *)

LEMMA OditherType ==
    ASSUME NEW n, IsCounts(n), NEW i \in Axes, NEW row \in Nat, NEW col \in Nat
    PROVE  Odither(n, i, row, col) \in Int
<1> DEFINE S == DitherSide
           d == Dithers[<<row % S, col % S>>]
           m == n[i] - 1
           cells == S * S
           num == (cells - 1 - 2 * d) * MAXJSAMPLE
           den == 2 * cells * m
<1>1. S \in Nat \ {0} /\ m \in Nat \ {0} /\ MAXJSAMPLE \in Nat
  BY QuantAssumption DEF IsCounts, MAXJSAMPLE
<1>2. d \in Int
  <2>1. row % S \in 0..(S - 1) /\ col % S \in 0..(S - 1)
    BY <1>1, DivBounds
  <2>2. Dithers \in [(0..(S - 1)) \X (0..(S - 1)) -> Int]
    BY QuantAssumption
  <2> HIDE DEF S
  <2> QED BY <2>1, <2>2
<1>3. Odither(n, i, row, col) = IF num < 0 THEN -((-num) \div den) ELSE num \div den
  BY DEF Odither, DitherCells
<1> HIDE DEF S, d, m
<1>4. cells \in Nat \ {0}
  BY <1>1
<1> HIDE DEF cells
<1>5. num \in Int /\ den \in Nat \ {0}
  <2>1. cells - 1 - 2 * d \in Int
    BY <1>2, <1>4
  <2>2. num \in Int
    BY <1>1, <2>1
  <2>3. 2 * cells \in Nat \ {0}
    BY <1>4
  <2>4. den \in Nat \ {0}
    BY <1>1, <2>3
  <2> QED BY <2>2, <2>4
<1> HIDE DEF num, den
<1>6. num \div den \in Int /\ (-num) \div den \in Int
  BY <1>5, DivBounds
<1> QED BY <1>3, <1>6

-----------------------------------------------------------------------------
(* Floyd-Steinberg dithering.                                              *)

LEMMA LimitedType ==
    ASSUME NEW e \in Int
    PROVE  Limited(e) \in Int
<1> DEFINE S == (MAXJSAMPLE + 1) \div 16
           a == IF e < 0 THEN -e ELSE e
           l == Min({a, 3 * S})
           m == IF a < S THEN a ELSE S + l \div 2 - S \div 2
<1>1. S \in Int /\ a \in Int
  BY QuantAssumption DEF MAXJSAMPLE
<1>2. Error_limit(e) = IF e < 0 THEN -m ELSE m
  BY DEF Error_limit
<1> HIDE DEF S, a
<1>3. l \in Int
  <2> DEFINE T == {a, 3 * S}
             b == IF a < 3 * S THEN a ELSE 3 * S
  <2>1. T \subseteq Int /\ T # {} /\ b \in Int /\ \A x \in T : b <= x
    BY <1>1
  <2> HIDE DEF T, b
  <2>2. Min(T) \in T
    BY <2>1, MinRight
  <2>3. Min(T) \in Int
    BY <2>1, <2>2
  <2> QED BY <2>3 DEF T
<1> HIDE DEF l
<1>4. m \in Int
  BY <1>1, <1>3
<1> HIDE DEF m
<1> QED BY <1>2, <1>4 DEF Limited

\* What dithering of a row relies on: a row, errors for its columns, and entries for its colours.
FsReady ==
    /\ CurrentRow \in Seq(Colours) /\ CurrentRow # <<>>
    /\ fs.errors \in [0..(Len(CurrentRow) + 1) -> Vectors] /\ fs.odd \in BOOLEAN
    /\ IsMap(MapInUse) /\ \A colour \in Colours : EntryOf(colour) \in DOMAIN MapInUse

Width == Len(CurrentRow)

LEMMA TurnPlaces ==
    ASSUME FsReady
    PROVE  /\ Width \in Nat /\ Width >= 1 /\ InTurn \in Seq(1..Width) /\ Len(InTurn) = Width
           /\ Dir = 1 \/ Dir = -1
           /\ \A j \in 1..Width : InTurn[j] = IF Dir = -1 THEN Width + 1 - j ELSE j
           /\ \A j \in 1..Width : InTurn[j] \in 1..Width
           /\ \A j, k \in 1..Width : InTurn[j] = InTurn[k] => j = k
           /\ \A x \in 1..Width : \E j \in 1..Width : InTurn[j] = x
<1> DEFINE W == Width
<1>1. W \in Nat /\ W >= 1 /\ DOMAIN CurrentRow = 1..W
  BY DEF FsReady, Width
<1>2. Dir = (IF fs.odd THEN -1 ELSE 1) /\ (Dir = -1 <=> fs.odd)
  BY DEF Dir, FsReady
<1>3. InTurn = [k \in 1..W |-> IF fs.odd THEN W + 1 - k ELSE k]
  BY <1>1 DEF InTurn, Width
<1> HIDE DEF W
<1>4. \A j \in 1..W : InTurn[j] = IF Dir = -1 THEN W + 1 - j ELSE j
  BY <1>2, <1>3
<1>5. \A j \in 1..W : InTurn[j] \in 1..W
  BY <1>1, <1>4
<1>6. InTurn \in [1..W -> 1..W]
  BY <1>3, <1>5
<1>7. InTurn \in Seq(1..W) /\ Len(InTurn) = W
  <2>1. InTurn \in Seq(1..W)
    BY <1>1, <1>6
  <2>2. DOMAIN InTurn = 1..Len(InTurn) /\ Len(InTurn) \in Nat /\ DOMAIN InTurn = 1..W
    BY <2>1, <1>6
  <2> DEFINE L == Len(InTurn)
  <2>3. L \in Nat /\ 1..L = 1..W
    BY <2>2
  <2> HIDE DEF L
  <2>4. L = W
    <3>1. W \in 1..L
      BY <1>1, <2>3
    <3>2. L \in 1..W
      BY <1>1, <2>3, <3>1
    <3> QED BY <3>1, <3>2, <1>1, <2>3
  <2> QED BY <2>1, <2>4 DEF L
<1>8. \A j, k \in 1..W : InTurn[j] = InTurn[k] => j = k
  BY <1>1, <1>4
<1>9. \A x \in 1..W : \E j \in 1..W : InTurn[j] = x
  <2> TAKE x \in 1..W
  <2>1. CASE Dir = -1
    <3>1. W + 1 - x \in 1..W /\ InTurn[W + 1 - x] = x
      <4> DEFINE j == W + 1 - x
      <4>1. j \in 1..W /\ W + 1 - j = x
        BY <1>1
      <4> HIDE DEF j
      <4> QED BY <1>4, <2>1, <4>1 DEF j
    <3> QED BY <3>1
  <2>2. CASE Dir # -1
    BY <1>4, <2>2
  <2> QED BY <2>1, <2>2
<1> QED BY <1>1, <1>2, <1>4, <1>5, <1>7, <1>8, <1>9 DEF W

\* The error of a column that is done, by its turn.
ErrorOf(at, j) ==
    IF j \in 1..Width THEN [i \in Axes |-> at.seen[InTurn[j]][i] - MapInUse[at.index[InTurn[j]]][i]]
    ELSE Zero3

\* After k columns.
FsDone(given, at, k) ==
    /\ DOMAIN at = {"seen", "index", "errors", "cur", "bprev", "below"}
    /\ at.seen \in [1..Width -> Colours] /\ at.index \in [1..Width -> Nat]
    /\ at.errors \in [0..(Width + 1) -> Vectors]
    /\ at.cur \in Vectors /\ at.bprev \in Vectors /\ at.below \in Vectors
    /\ \A j \in 1..k : /\ at.index[InTurn[j]] = EntryOf(at.seen[InTurn[j]])
                       /\ at.index[InTurn[j]] \in DOMAIN MapInUse
    /\ \A i \in Axes :
          /\ at.below[i] = ErrorOf(at, k)[i]
          /\ at.bprev[i] = ErrorOf(at, k - 1)[i] + 5 * ErrorOf(at, k)[i]
          /\ \A j \in 1..(k - 1) : at.errors[InTurn[j]][i] =
                3 * ErrorOf(at, j + 1)[i] + 5 * ErrorOf(at, j)[i] + ErrorOf(at, j - 1)[i]
Dithered == INSTANCE FoldFacts WITH Op <- FsColumn, P <- FsDone

\* One column more.
LEMMA FsStep ==
    ASSUME FsReady, NEW k \in 1..Width, NEW at, FsDone(0, at, k - 1)
    PROVE  FsDone(0, FsColumn(at, InTurn[k]), k)
<1> DEFINE x == InTurn[k]
           seen == Triple([i \in Axes |-> Clamp(CurrentRow[x][i] + Limited((at.cur[i] + fs.errors[x][i] + 8) \div 16))])
           e    == EntryOf(seen)
           err  == Triple([i \in Axes |-> seen[i] - MapInUse[e][i]])
           back == Triple([i \in Axes |-> at.bprev[i] + 3 * err[i]])
           cur  == Triple([i \in Axes |-> 7 * err[i]])
           bprev == Triple([i \in Axes |-> at.below[i] + 5 * err[i]])
           new  == FsColumn(at, x)
<1>0. /\ Width \in Nat /\ Width >= 1 /\ (Dir = 1 \/ Dir = -1)
      /\ \A j \in 1..Width : InTurn[j] = IF Dir = -1 THEN Width + 1 - j ELSE j
      /\ \A j \in 1..Width : InTurn[j] \in 1..Width
      /\ \A j, l \in 1..Width : InTurn[j] = InTurn[l] => j = l
  BY TurnPlaces
<1>1. x \in 1..Width /\ x - Dir \in 0..(Width + 1) /\ k \in Nat
  BY <1>0
<1>2. /\ DOMAIN at = {"seen", "index", "errors", "cur", "bprev", "below"}
      /\ at.seen \in [1..Width -> Colours] /\ at.index \in [1..Width -> Nat]
      /\ at.errors \in [0..(Width + 1) -> Vectors]
      /\ at.cur \in Vectors /\ at.bprev \in Vectors /\ at.below \in Vectors
  BY DEF FsDone
<1>3. seen \in Colours /\ seen \in [Axes -> Int]
  <2> DEFINE f == [i \in Axes |-> Clamp(CurrentRow[x][i] + Limited((at.cur[i] + fs.errors[x][i] + 8) \div 16))]
  <2>1. ASSUME NEW i \in Axes PROVE f[i] \in 0..MAXJSAMPLE
    <3> DEFINE p == CurrentRow[x][i]
               q == at.cur[i]
               r == fs.errors[x][i]
               lim == Limited((q + r + 8) \div 16)
    <3>1. p \in Int
      <4>1. CurrentRow[x] \in Colours
        BY <1>1 DEF FsReady, Width
      <4> QED BY <4>1 DEF Colours
    <3>2. q \in Int
      BY <1>2 DEF Vectors
    <3>3. r \in Int
      <4>1. fs.errors[x] \in Vectors
        BY <1>0, <1>1 DEF FsReady, Width
      <4> QED BY <4>1 DEF Vectors
    <3>4. (q + r + 8) \div 16 \in Int
      <4> HIDE DEF q, r
      <4> QED BY <3>2, <3>3
    <3>5. lim \in Int
      <4> DEFINE z == (q + r + 8) \div 16
      <4>1. z \in Int
        BY <3>4
      <4> HIDE DEF z
      <4>2. Limited(z) \in Int
        BY <4>1, LimitedType
      <4> QED BY <4>2 DEF z
    <3>6. f[i] = Clamp(p + lim)
      OBVIOUS
    <3> HIDE DEF p, lim, f
    <3>7. p + lim \in Int
      BY <3>1, <3>5
    <3>8. Clamp(p + lim) \in 0..MAXJSAMPLE
      BY <3>7, ClampRight
    <3> QED BY <3>6, <3>8
  <2>2. f \in [Axes -> 0..MAXJSAMPLE]
    BY <2>1
  <2>3. seen = f
    <3> HIDE DEF f
    <3>1. Triple(f) = f
      BY <2>2, TripleIs
    <3> QED BY <3>1 DEF f
  <2>4. 0..MAXJSAMPLE \subseteq Int
    OBVIOUS
  <2> HIDE DEF f, seen
  <2> QED BY <2>2, <2>3, <2>4 DEF Colours
<1> HIDE DEF seen
<1>4. e \in DOMAIN MapInUse /\ e \in Nat /\ MapInUse[e] \in Vectors
  <2>1. e \in DOMAIN MapInUse
    BY <1>3 DEF FsReady
  <2>2. MapInUse \in Seq(Vectors)
    BY DEF FsReady, IsMap
  <2> HIDE DEF e
  <2> QED BY <2>1, <2>2
<1> HIDE DEF e
<1>5. err \in Vectors /\ \A i \in Axes : err[i] = seen[i] - MapInUse[e][i]
  <2> DEFINE f == [i \in Axes |-> seen[i] - MapInUse[e][i]]
  <2>1. \A i \in Axes : seen[i] - MapInUse[e][i] \in Int
    <3> TAKE i \in Axes
    <3>1. seen[i] \in Int /\ MapInUse[e][i] \in Int
      BY <1>3, <1>4 DEF Vectors
    <3> QED BY <3>1
  <2>2. f \in [Axes -> Int]
    BY <2>1
  <2>3. Triple(f) = f
    <3> HIDE DEF f
    <3> QED BY <2>2, TripleIs
  <2> QED BY <2>2, <2>3 DEF Vectors
<1> HIDE DEF err
<1>6. \A i \in Axes : err[i] \in Int /\ at.bprev[i] \in Int /\ at.below[i] \in Int
  BY <1>2, <1>5 DEF Vectors
<1>7. back \in Vectors /\ \A i \in Axes : back[i] = at.bprev[i] + 3 * err[i]
  <2> DEFINE f == [i \in Axes |-> at.bprev[i] + 3 * err[i]]
  <2>1. f \in [Axes -> Int]
    BY <1>6
  <2>2. Triple(f) = f
    <3> HIDE DEF f
    <3> QED BY <2>1, TripleIs
  <2> QED BY <2>1, <2>2 DEF Vectors
<1>8. cur \in Vectors
  <2> DEFINE f == [i \in Axes |-> 7 * err[i]]
  <2>1. f \in [Axes -> Int]
    BY <1>6
  <2>2. Triple(f) = f
    <3> HIDE DEF f
    <3> QED BY <2>1, TripleIs
  <2> QED BY <2>1, <2>2 DEF Vectors
<1>9. bprev \in Vectors /\ \A i \in Axes : bprev[i] = at.below[i] + 5 * err[i]
  <2> DEFINE f == [i \in Axes |-> at.below[i] + 5 * err[i]]
  <2>1. f \in [Axes -> Int]
    BY <1>6
  <2>2. Triple(f) = f
    <3> HIDE DEF f
    <3> QED BY <2>1, TripleIs
  <2> QED BY <2>1, <2>2 DEF Vectors
<1>10. new = [seen |-> [at.seen EXCEPT ![x] = seen], index |-> [at.index EXCEPT ![x] = e],
              errors |-> [at.errors EXCEPT ![x - Dir] = back], cur |-> cur, bprev |-> bprev, below |-> err]
  BY DEF FsColumn, seen, e, err, back, cur, bprev
<1> HIDE DEF back, cur, bprev
<1>11. /\ new.seen = [at.seen EXCEPT ![x] = seen] /\ new.index = [at.index EXCEPT ![x] = e]
       /\ new.errors = [at.errors EXCEPT ![x - Dir] = back]
       /\ new.cur = cur /\ new.bprev = bprev /\ new.below = err
       /\ DOMAIN new = {"seen", "index", "errors", "cur", "bprev", "below"}
  BY <1>10
<1> HIDE DEF new
<1>12. /\ new.seen \in [1..Width -> Colours] /\ new.index \in [1..Width -> Nat]
       /\ new.errors \in [0..(Width + 1) -> Vectors]
  BY <1>1, <1>2, <1>3, <1>4, <1>7, <1>11
<1>13. /\ new.seen[x] = seen /\ new.index[x] = e
       /\ \A y \in 1..Width : y # x => new.seen[y] = at.seen[y] /\ new.index[y] = at.index[y]
       /\ new.errors[x - Dir] = back
       /\ \A y \in 0..(Width + 1) : y # x - Dir => new.errors[y] = at.errors[y]
  BY <1>1, <1>2, <1>11
<1>14. \A j \in 1..Width : j # k => InTurn[j] # x
  BY <1>0
<1>15. \A j \in Int : j # k => ErrorOf(new, j) = ErrorOf(at, j)
  BY <1>0, <1>13, <1>14 DEF ErrorOf
<1>16. \A i \in Axes : ErrorOf(new, k)[i] = err[i]
  BY <1>5, <1>13 DEF ErrorOf
<1>17. \A j \in Int, i \in Axes : j < k => ErrorOf(at, j)[i] \in Int
  <2> SUFFICES ASSUME NEW j \in Int, NEW i \in Axes, j < k PROVE ErrorOf(at, j)[i] \in Int
    OBVIOUS
  <2>1. CASE j \in 1..Width
    <3> DEFINE y == InTurn[j]
    <3>1. j \in 1..(k - 1) /\ y \in 1..Width
      BY <1>0, <1>1, <2>1
    <3>2. at.index[y] \in DOMAIN MapInUse
      BY <3>1 DEF FsDone
    <3>3. MapInUse \in Seq(Vectors)
      BY DEF FsReady, IsMap
    <3>4. MapInUse[at.index[y]] \in Vectors /\ at.seen[y] \in Colours
      <4> HIDE DEF y
      <4>1. at.seen[y] \in Colours
        BY <1>2, <3>1
      <4>2. \A z \in DOMAIN MapInUse : MapInUse[z] \in Vectors
        BY <3>3
      <4> QED BY <3>2, <4>1, <4>2
    <3>5. MapInUse[at.index[y]][i] \in Int /\ at.seen[y][i] \in Int
      BY <3>4 DEF Vectors, Colours
    <3>6. ErrorOf(at, j)[i] = at.seen[y][i] - MapInUse[at.index[y]][i]
      BY <2>1 DEF ErrorOf
    <3> HIDE DEF y
    <3> QED BY <3>5, <3>6
  <2>2. CASE j \notin 1..Width
    BY <2>2 DEF ErrorOf, Zero3
  <2> QED BY <2>1, <2>2
<1>18. \A j \in 1..k : /\ new.index[InTurn[j]] = EntryOf(new.seen[InTurn[j]])
                       /\ new.index[InTurn[j]] \in DOMAIN MapInUse
  <2> TAKE j \in 1..k
  <2>1. CASE j = k
    BY <2>1, <1>4, <1>13 DEF e
  <2>2. CASE j # k
    <3>1. j \in 1..(k - 1) /\ j \in 1..Width
      BY <1>0, <1>1, <2>2
    <3>2. InTurn[j] # x /\ InTurn[j] \in 1..Width
      BY <1>0, <1>14, <2>2, <3>1
    <3>3. /\ at.index[InTurn[j]] = EntryOf(at.seen[InTurn[j]])
          /\ at.index[InTurn[j]] \in DOMAIN MapInUse
      BY <3>1 DEF FsDone
    <3> QED BY <1>13, <3>2, <3>3
  <2> QED BY <2>1, <2>2
<1>19. ASSUME NEW i \in Axes PROVE new.below[i] = ErrorOf(new, k)[i]
  BY <1>11, <1>16
<1>20. ASSUME NEW i \in Axes PROVE new.bprev[i] = ErrorOf(new, k - 1)[i] + 5 * ErrorOf(new, k)[i]
  <2>1. at.below[i] = ErrorOf(at, k - 1)[i]
    BY DEF FsDone
  <2>2. ErrorOf(new, k - 1) = ErrorOf(at, k - 1)
    BY <1>1, <1>15
  <2> QED BY <2>1, <2>2, <1>9, <1>11, <1>16
<1>21. ASSUME NEW i \in Axes, NEW j \in 1..(k - 1)
       PROVE  new.errors[InTurn[j]][i] = 3 * ErrorOf(new, j + 1)[i] + 5 * ErrorOf(new, j)[i] + ErrorOf(new, j - 1)[i]
  <2>1. CASE j = k - 1
    <3>1. InTurn[j] = x - Dir
      BY <1>0, <1>1, <2>1
    <3>2. new.errors[InTurn[j]][i] = at.bprev[i] + 3 * err[i]
      BY <1>7, <1>13, <3>1
    <3>3. at.bprev[i] = ErrorOf(at, j - 1)[i] + 5 * ErrorOf(at, j)[i]
      BY <2>1 DEF FsDone
    <3>4. ErrorOf(new, j - 1) = ErrorOf(at, j - 1) /\ ErrorOf(new, j) = ErrorOf(at, j)
      BY <1>1, <1>15, <2>1
    <3>5. ErrorOf(new, j + 1)[i] = err[i]
      BY <1>16, <2>1
    <3>6. ErrorOf(at, j - 1)[i] \in Int /\ ErrorOf(at, j)[i] \in Int /\ err[i] \in Int
      BY <1>6, <1>17, <2>1
    <3> DEFINE p == ErrorOf(at, j - 1)[i]
               q == ErrorOf(at, j)[i]
               u == err[i]
    <3> HIDE DEF p, q, u
    <3>7. new.errors[InTurn[j]][i] = (p + 5 * q) + 3 * u
      BY <3>2, <3>3 DEF p, q, u
    <3>8. (p + 5 * q) + 3 * u = 3 * u + 5 * q + p
      BY <3>6 DEF p, q, u
    <3> QED BY <3>4, <3>5, <3>7, <3>8 DEF p, q, u
  <2>2. CASE j # k - 1
    <3>1. j \in 1..(k - 2) /\ j \in 1..((k - 1) - 1)
      BY <1>1, <2>2
    <3>2. InTurn[j] # x - Dir /\ InTurn[j] \in 0..(Width + 1)
      <4>1. j \in 1..Width /\ k - 1 \in 1..Width /\ x - Dir = InTurn[k - 1]
        BY <1>0, <1>1, <3>1
      <4>2. j # k - 1
        BY <2>2
      <4>3. InTurn[j] # InTurn[k - 1]
        BY <1>0, <4>1, <4>2
      <4>4. InTurn[j] \in 1..Width
        BY <1>0, <4>1
      <4> QED BY <1>0, <4>1, <4>3, <4>4
    <3>3. new.errors[InTurn[j]] = at.errors[InTurn[j]]
      BY <1>13, <3>2
    <3>4. at.errors[InTurn[j]][i] = 3 * ErrorOf(at, j + 1)[i] + 5 * ErrorOf(at, j)[i] + ErrorOf(at, j - 1)[i]
      BY <3>1 DEF FsDone
    <3>5. /\ ErrorOf(new, j + 1) = ErrorOf(at, j + 1) /\ ErrorOf(new, j) = ErrorOf(at, j)
          /\ ErrorOf(new, j - 1) = ErrorOf(at, j - 1)
      BY <1>1, <1>15, <3>1
    <3> QED BY <3>3, <3>4, <3>5
  <2> QED BY <2>1, <2>2
<1>22. FsDone(0, new, k)
  BY <1>5, <1>8, <1>9, <1>11, <1>12, <1>18, <1>19, <1>20, <1>21 DEF FsDone
<1> QED BY <1>22 DEF new, x

\* The columns beside one are those of the turns before and after.
LEMMA TurnSteps ==
    ASSUME FsReady, NEW j \in 1..Width
    PROVE  /\ InTurn[j] + Dir \in Int /\ InTurn[j] - Dir \in Int /\ InTurn[j] \in 1..Width
           /\ IF j + 1 \in 1..Width THEN InTurn[j + 1] = InTurn[j] + Dir ELSE InTurn[j] + Dir \notin 1..Width
           /\ IF j - 1 \in 1..Width THEN InTurn[j - 1] = InTurn[j] - Dir ELSE InTurn[j] - Dir \notin 1..Width
<1> DEFINE W == Width
           d == Dir
           p == InTurn[j]
<1>1. /\ W \in Nat /\ W >= 1 /\ (d = 1 \/ d = -1) /\ p \in 1..W
      /\ \A l \in 1..W : InTurn[l] = IF d = -1 THEN W + 1 - l ELSE l
  BY TurnPlaces
<1> HIDE DEF W, d
<1>2. j \in 1..W /\ p = (IF d = -1 THEN W + 1 - j ELSE j)
  BY <1>1 DEF W
<1>3. /\ j + 1 \in 1..W => InTurn[j + 1] = IF d = -1 THEN W - j ELSE j + 1
      /\ j - 1 \in 1..W => InTurn[j - 1] = IF d = -1 THEN W + 2 - j ELSE j - 1
  <2>1. ASSUME j + 1 \in 1..W PROVE InTurn[j + 1] = IF d = -1 THEN W - j ELSE j + 1
    <3>1. InTurn[j + 1] = IF d = -1 THEN W + 1 - (j + 1) ELSE j + 1
      BY <1>1, <2>1
    <3>2. W + 1 - (j + 1) = W - j
      BY <1>1, <1>2
    <3> QED BY <3>1, <3>2
  <2>2. ASSUME j - 1 \in 1..W PROVE InTurn[j - 1] = IF d = -1 THEN W + 2 - j ELSE j - 1
    <3>1. InTurn[j - 1] = IF d = -1 THEN W + 1 - (j - 1) ELSE j - 1
      BY <1>1, <2>2
    <3>2. W + 1 - (j - 1) = W + 2 - j
      BY <1>1, <1>2
    <3> QED BY <3>1, <3>2
  <2> QED BY <2>1, <2>2
<1> HIDE DEF p
<1> DEFINE up == InTurn[j + 1]
           down == InTurn[j - 1]
<1> HIDE DEF up, down
<1>4. /\ j + 1 \in 1..W => up = IF d = -1 THEN W - j ELSE j + 1
      /\ j - 1 \in 1..W => down = IF d = -1 THEN W + 2 - j ELSE j - 1
  BY <1>3 DEF up, down
<1>5. /\ p + d \in Int /\ p - d \in Int
      /\ IF j + 1 \in 1..W THEN up = p + d ELSE p + d \notin 1..W
      /\ IF j - 1 \in 1..W THEN down = p - d ELSE p - d \notin 1..W
  <2>0. W \in Nat /\ W >= 1 /\ (d = 1 \/ d = -1) /\ p \in 1..W /\ j \in 1..W
    BY <1>1, <1>2
  <2>1. CASE d = 1
    BY <2>0, <1>2, <1>4, <2>1
  <2>2. CASE d = -1
    BY <2>0, <1>2, <1>4, <2>2
  <2> QED BY <2>0, <2>1, <2>2
<1> QED BY <1>1, <1>5 DEF W, d, p, up, down

\* The error of a pixel of a row that was dithered.
PixelError(seen, index, map, x) ==
    IF x \in DOMAIN index THEN [i \in Axes |-> seen[x][i] - map[index[x]][i]] ELSE Zero3

\* What the row leaves to the next one.
ErrorsLeft == [FsRow.errors EXCEPT ![LastColumn] = FsRow.bprev]

\* A row that was dithered, and the errors it leaves.
LEMMA FsRight ==
    ASSUME FsReady
    PROVE  /\ FsRow.seen \in [1..Width -> Colours] /\ FsRow.index \in [1..Width -> Nat]
           /\ ErrorsLeft \in [0..(Width + 1) -> Vectors]
           /\ \A x \in 1..Width : FsRow.index[x] = EntryOf(FsRow.seen[x])
           /\ \A x \in 1..Width, i \in Axes :
                 ErrorsLeft[x][i] = 3 * PixelError(FsRow.seen, FsRow.index, MapInUse, x + Dir)[i]
                                + 5 * PixelError(FsRow.seen, FsRow.index, MapInUse, x)[i]
                                + PixelError(FsRow.seen, FsRow.index, MapInUse, x - Dir)[i]
<1> DEFINE r == FsRow
           W == Width
<1>1. /\ W \in Nat /\ W >= 1 /\ (Dir = 1 \/ Dir = -1) /\ InTurn \in Seq(1..W) /\ Len(InTurn) = W
      /\ \A j \in 1..W : InTurn[j] = IF Dir = -1 THEN W + 1 - j ELSE j
      /\ \A j \in 1..W : InTurn[j] \in 1..W
      /\ \A j, k \in 1..W : InTurn[j] = InTurn[k] => j = k
      /\ \A x \in 1..W : \E j \in 1..W : InTurn[j] = x
  BY TurnPlaces
<1>2. FsDone(0, FsStart, 0)
  <2>1. /\ DOMAIN FsStart = {"seen", "index", "errors", "cur", "bprev", "below"}
        /\ FsStart.seen = CurrentRow /\ FsStart.index = [x \in DOMAIN CurrentRow |-> 0]
        /\ FsStart.errors = fs.errors /\ FsStart.cur = Zero3 /\ FsStart.bprev = Zero3 /\ FsStart.below = Zero3
    BY DEF FsStart
  <2>2. DOMAIN CurrentRow = 1..W /\ CurrentRow \in [1..W -> Colours]
    BY DEF FsReady, Width
  <2>3. Zero3 \in Vectors /\ \A i \in Axes : Zero3[i] = 0
    BY DEF Zero3, Vectors
  <2>4. FsStart.index \in [1..W -> Nat] /\ FsStart.errors \in [0..(W + 1) -> Vectors]
    BY <2>1, <2>2 DEF FsReady, Width
  <2>5. ErrorOf(FsStart, 0) = Zero3 /\ ErrorOf(FsStart, 0 - 1) = Zero3
    BY DEF ErrorOf
  <2>6. \A j \in 1..0 : FALSE
    OBVIOUS
  <2>7. \A j \in 1..(0 - 1) : FALSE
    OBVIOUS
  <2> QED BY <2>1, <2>2, <2>3, <2>4, <2>5, <2>6, <2>7 DEF FsDone
<1>3. FsDone(0, r, W)
  <2>1. \A k \in 1..Len(InTurn) : \A at : FsDone(0, at, k - 1) => FsDone(0, FsColumn(at, InTurn[k]), k)
    BY <1>1, FsStep
  <2>2. FsDone(0, Dithered!Fold(FsStart, InTurn), Len(InTurn))
    BY <1>1, <1>2, <2>1, Dithered!FoldKeeps
  <2>3. FoldLeft(FsColumn, FsStart, InTurn) = Dithered!Fold(FsStart, InTurn)
    BY DEF FoldLeft, Dithered!Fold, MapThenFoldSet, Max, Dithered!Greatest
  <2> QED BY <1>1, <2>2, <2>3 DEF FsRow
<1> HIDE DEF r
<1>4. /\ r.seen \in [1..W -> Colours] /\ r.index \in [1..W -> Nat] /\ r.errors \in [0..(W + 1) -> Vectors]
      /\ r.bprev \in Vectors
  BY <1>3 DEF FsDone
<1>5. LastColumn = InTurn[W] /\ LastColumn \in 1..W
  BY <1>1 DEF LastColumn
<1>6. ErrorsLeft = [r.errors EXCEPT ![LastColumn] = r.bprev]
  BY DEF r, ErrorsLeft
<1>7. /\ ErrorsLeft \in [0..(W + 1) -> Vectors] /\ ErrorsLeft[LastColumn] = r.bprev
      /\ \A x \in 1..W : x # LastColumn => ErrorsLeft[x] = r.errors[x]
  <2>1. 1..W \subseteq 0..(W + 1)
    <3>1. W \in Nat
      BY <1>1
    <3> QED BY <3>1
  <2> QED BY <2>1, <1>4, <1>5, <1>6
<1>8. \A x \in 1..W : r.index[x] = EntryOf(r.seen[x])
  <2> TAKE x \in 1..W
  <2>1. PICK j \in 1..W : InTurn[j] = x
    BY <1>1
  <2>2. r.index[InTurn[j]] = EntryOf(r.seen[InTurn[j]])
    BY <1>3 DEF FsDone
  <2> QED BY <2>1, <2>2
<1> DEFINE Err(x) == PixelError(r.seen, r.index, MapInUse, x)
<1>9. \A j \in 1..W : ErrorOf(r, j) = Err(InTurn[j])
  BY <1>1, <1>4 DEF ErrorOf, PixelError
<1>10. \A x \in Int : x \notin 1..W => Err(x) = Zero3 /\ ErrorOf(r, x) = Zero3
  BY <1>4 DEF ErrorOf, PixelError
<1> HIDE DEF Err
<1>11. \A j \in 1..W : ErrorOf(r, j + 1) = Err(InTurn[j] + Dir) /\ ErrorOf(r, j - 1) = Err(InTurn[j] - Dir)
  <2> TAKE j \in 1..W
  <2>1. ErrorOf(r, j + 1) = Err(InTurn[j] + Dir)
    <3>1. CASE j + 1 \in 1..W
      <4>1. InTurn[j + 1] = InTurn[j] + Dir
        BY <3>1, TurnSteps
      <4> QED BY <1>9, <3>1, <4>1
    <3>2. CASE j + 1 \notin 1..W
      <4>1. InTurn[j] + Dir \notin 1..W /\ InTurn[j] + Dir \in Int /\ j + 1 \in Int
        BY <3>2, TurnSteps
      <4> QED BY <1>10, <3>2, <4>1
    <3> QED BY <3>1, <3>2
  <2>2. ErrorOf(r, j - 1) = Err(InTurn[j] - Dir)
    <3>1. CASE j - 1 \in 1..W
      <4>1. InTurn[j - 1] = InTurn[j] - Dir
        BY <3>1, TurnSteps
      <4> QED BY <1>9, <3>1, <4>1
    <3>2. CASE j - 1 \notin 1..W
      <4>1. InTurn[j] - Dir \notin 1..W /\ InTurn[j] - Dir \in Int /\ j - 1 \in Int
        BY <3>2, TurnSteps
      <4> QED BY <1>10, <3>2, <4>1
    <3> QED BY <3>1, <3>2
  <2> QED BY <2>1, <2>2
<1>12. \A x \in 1..W, i \in Axes : ErrorsLeft[x][i] = 3 * Err(x + Dir)[i] + 5 * Err(x)[i] + Err(x - Dir)[i]
  <2> TAKE x \in 1..W, i \in Axes
  <2>1. PICK j \in 1..W : InTurn[j] = x
    BY <1>1
  <2>2. ErrorOf(r, j + 1) = Err(x + Dir) /\ ErrorOf(r, j - 1) = Err(x - Dir) /\ ErrorOf(r, j) = Err(x)
    BY <1>9, <1>11, <2>1
  <2>3. CASE j = W
    <3>1. ErrorsLeft[x] = r.bprev
      BY <1>5, <1>7, <2>1, <2>3
    <3>2. r.bprev[i] = ErrorOf(r, j - 1)[i] + 5 * ErrorOf(r, j)[i]
      BY <1>3, <2>3 DEF FsDone
    <3>3. ErrorOf(r, j + 1)[i] = 0
      <4>1. j + 1 \notin 1..W /\ j + 1 \in Int
        BY <1>1, <2>3
      <4> QED BY <1>10, <4>1 DEF Zero3
    <3>4. r.bprev[i] = Err(x - Dir)[i] + 5 * Err(x)[i] /\ Err(x + Dir)[i] = 0
      BY <2>2, <3>2, <3>3
    <3>5. Err(x)[i] \in Int /\ Err(x - Dir)[i] \in Int
      <4>1. \A y \in Int : Err(y)[i] \in Int
        <5> TAKE y \in Int
        <5>1. CASE y \in 1..W
          <6>1. r.index[y] \in DOMAIN MapInUse
            <7>1. PICK l \in 1..W : InTurn[l] = y
              BY <1>1, <5>1
            <7>2. r.index[InTurn[l]] \in DOMAIN MapInUse
              BY <1>3 DEF FsDone
            <7> QED BY <7>1, <7>2
          <6>2. \A z \in DOMAIN MapInUse : MapInUse[z] \in Vectors
            BY DEF FsReady, IsMap
          <6>3. r.seen[y] \in Colours
            BY <1>4, <5>1
          <6>4. r.seen[y][i] \in Int /\ MapInUse[r.index[y]][i] \in Int
            BY <6>1, <6>2, <6>3 DEF Colours, Vectors
          <6>5. Err(y)[i] = r.seen[y][i] - MapInUse[r.index[y]][i]
            BY <1>4, <5>1 DEF Err, PixelError
          <6> QED BY <6>4, <6>5
        <5>2. CASE y \notin 1..W
          BY <1>10, <5>2 DEF Zero3
        <5> QED BY <5>1, <5>2
      <4>2. x \in Int /\ x - Dir \in Int
        BY <2>1, TurnSteps
      <4> QED BY <4>1, <4>2
    <3> DEFINE p == Err(x)[i]
               q == Err(x - Dir)[i]
               u == Err(x + Dir)[i]
    <3> HIDE DEF p, q, u
    <3>6. ErrorsLeft[x][i] = q + 5 * p /\ u = 0 /\ p \in Int /\ q \in Int
      BY <3>1, <3>4, <3>5 DEF p, q, u
    <3>7. ErrorsLeft[x][i] = 3 * u + 5 * p + q
      BY <3>6
    <3> QED BY <3>7 DEF p, q, u
  <2>4. CASE j # W
    <3>0. W \in Nat /\ W >= 1
      BY <1>1
    <3>1. j \in 1..(W - 1) /\ W \in 1..W
      BY <2>4, <3>0
    <3>2. x # LastColumn
      BY <1>1, <1>5, <2>1, <2>4, <3>1
    <3>3. ErrorsLeft[x] = r.errors[x]
      BY <1>7, <3>2
    <3>4. r.errors[InTurn[j]][i] = 3 * ErrorOf(r, j + 1)[i] + 5 * ErrorOf(r, j)[i] + ErrorOf(r, j - 1)[i]
      BY <1>3, <3>1 DEF FsDone
    <3> QED BY <2>1, <2>2, <3>3, <3>4
  <2> QED BY <2>3, <2>4
<1> QED BY <1>4, <1>7, <1>8, <1>12 DEF r, Err

-----------------------------------------------------------------------------
(* Boxes.                                                                  *)

LEMMA CellsFinite ==
    IsFiniteSet(Cells)
<1> DEFINE V == 0..MAXJSAMPLE
           P == V \X V \X V
           f == [c \in Cells |-> <<c[1], c[2], c[3]>>]
<1>1. IsFiniteSet(V)
  <2>1. 0 \in Int /\ MAXJSAMPLE \in Int
    BY QuantAssumption DEF MAXJSAMPLE
  <2> QED BY <2>1, FS_Interval
<1> HIDE DEF V
<1>2. IsFiniteSet((V \X V) \X V)
  <2>1. IsFiniteSet(V \X V)
    BY <1>1, FS_Product
  <2> QED BY <1>1, <2>1, FS_Product
<1> DEFINE Q == (V \X V) \X V
           g == [c \in Cells |-> <<<<c[1], c[2]>>, c[3]>>]
<1>3. \A c \in Cells : c \in [1..3 -> V]
  BY DEF Cells, Colours, Axes, V
<1>4. g \in [Cells -> Q]
  <2>1. \A c \in Cells : c[1] \in V /\ c[2] \in V /\ c[3] \in V
    BY <1>3
  <2> QED BY <2>1
<1>5. \A c, d \in Cells : g[c] = g[d] => c = d
  <2> TAKE c, d \in Cells
  <2> HAVE g[c] = g[d]
  <2>1. c[1] = d[1] /\ c[2] = d[2] /\ c[3] = d[3]
    OBVIOUS
  <2>2. \A i \in 1..3 : i = 1 \/ i = 2 \/ i = 3
    OBVIOUS
  <2>3. \A i \in 1..3 : c[i] = d[i]
    BY <2>1, <2>2
  <2> HIDE DEF g
  <2> QED BY <1>3, <2>3
<1>6. g \in Injection(Cells, Q)
  BY <1>4, <1>5 DEF Injection, IsInjective
<1> HIDE DEF g, Q
<1> QED BY <1>2, <1>6, FS_Injection DEF Q

LEMMA UsedFinite ==
    ASSUME NEW cells, NEW b
    PROVE  IsFiniteSet(UsedIn(cells, b)) /\ UsedIn(cells, b) \subseteq Cells
<1>1. UsedIn(cells, b) \in SUBSET Cells
  BY DEF UsedIn
<1> QED BY <1>1, CellsFinite, FS_Subset

IsBox(b) == b \in [lo : Vectors, hi : Vectors]
\* The bounds of a box are those of its cells in use.
Tight(cells, b) ==
    /\ IsBox(b) /\ UsedIn(cells, b) # {}
    /\ \A i \in Axes : /\ \E c \in UsedIn(cells, b) : c[i] = b.lo[i]
                       /\ \E c \in UsedIn(cells, b) : c[i] = b.hi[i]

LEMMA CellNumbers ==
    ASSUME NEW c \in Cells, NEW i \in Axes
    PROVE  c[i] \in Nat /\ c[i] <= MAXJSAMPLE /\ MAXJSAMPLE \in Nat
BY QuantAssumption DEF Cells, Colours, MAXJSAMPLE

\* Shrinking a box loses none of its cells in use.
LEMMA UpdateBox ==
    ASSUME NEW cells, NEW b, IsBox(b), UsedIn(cells, b) # {}
    PROVE  /\ Tight(cells, Update_box(cells, b))
           /\ UsedIn(cells, Update_box(cells, b)) = UsedIn(cells, b)
<1> DEFINE used == UsedIn(cells, b)
           u == Update_box(cells, b)
           L(i) == {c[i] : c \in used}
           lows == [i \in Axes |-> Min({c[i] : c \in used})]
           highs == [i \in Axes |-> Max({c[i] : c \in used})]
<1>1. used \subseteq Cells /\ used # {}
  BY UsedFinite
<1>2. \A c \in Cells, i \in Axes : c[i] \in Nat /\ c[i] <= MAXJSAMPLE /\ MAXJSAMPLE \in Nat
  BY CellNumbers
<1>3. used = {c \in Cells : cells[c] # 0 /\ \A i \in Axes : b.lo[i] <= c[i] /\ c[i] <= b.hi[i]}
  BY DEF UsedIn
<1>4. u = [lo |-> Triple(lows), hi |-> Triple(highs)]
  BY DEF Update_box
<1> HIDE DEF used
<1>5. ASSUME NEW i \in Axes
      PROVE  /\ Min(L(i)) \in L(i) /\ \A x \in L(i) : Min(L(i)) <= x
             /\ Max(L(i)) \in L(i) /\ \A x \in L(i) : x <= Max(L(i))
             /\ L(i) \subseteq Nat
  <2>1. \A c \in used : c[i] \in Nat /\ c[i] <= MAXJSAMPLE /\ MAXJSAMPLE \in Nat
    BY <1>1, <1>2
  <2>2. L(i) \subseteq Nat /\ L(i) # {} /\ MAXJSAMPLE \in Int /\ \A x \in L(i) : x <= MAXJSAMPLE
    BY <1>1, <2>1
  <2>3. L(i) \subseteq Int
    BY <2>2
  <2> HIDE DEF L
  <2>4. Min(L(i)) \in L(i) /\ \A x \in L(i) : Min(L(i)) <= x
    BY <2>2, MinOfNat
  <2>5. Max(L(i)) \in L(i) /\ \A x \in L(i) : x <= Max(L(i))
    BY <2>2, <2>3, MaxRight
  <2> QED BY <2>2, <2>4, <2>5
<1>6. \A i \in Axes : lows[i] = Min(L(i)) /\ highs[i] = Max(L(i))
  OBVIOUS
<1>7. \A i \in Axes : lows[i] \in Nat /\ highs[i] \in Nat
  <2> HIDE DEF L
  <2> QED BY <1>5, <1>6
<1>8. lows \in [Axes -> Nat] /\ highs \in [Axes -> Nat]
  BY <1>7
<1>9. \A i \in Axes, c \in used : lows[i] <= c[i] /\ c[i] <= highs[i]
  <2> TAKE i \in Axes, c \in used
  <2>1. c[i] \in L(i)
    OBVIOUS
  <2> HIDE DEF L
  <2> QED BY <1>5, <1>6, <2>1
<1>10. \A i \in Axes : (\E c \in used : c[i] = lows[i]) /\ (\E c \in used : c[i] = highs[i])
  <2> TAKE i \in Axes
  <2>1. lows[i] \in L(i) /\ highs[i] \in L(i)
    <3> HIDE DEF L
    <3> QED BY <1>5, <1>6
  <2> HIDE DEF lows, highs
  <2> QED BY <2>1
<1> HIDE DEF lows, highs
<1>11. u.lo = lows /\ u.hi = highs /\ u = [lo |-> lows, hi |-> highs]
  BY <1>4, <1>8, TripleIs
<1> HIDE DEF u
<1>12. IsBox(u)
  <2>1. lows \in Vectors /\ highs \in Vectors
    BY <1>8 DEF Vectors
  <2> QED BY <1>11, <2>1 DEF IsBox
<1>13. UsedIn(cells, u) = used
  <2>1. \A c \in used : c \in UsedIn(cells, u)
    BY <1>3, <1>9, <1>11 DEF UsedIn
  <2>2. ASSUME NEW c \in UsedIn(cells, u) PROVE c \in used
    <3>1. c \in Cells /\ cells[c] # 0 /\ \A i \in Axes : lows[i] <= c[i] /\ c[i] <= highs[i]
      BY <1>11 DEF UsedIn
    <3>2. ASSUME NEW i \in Axes PROVE b.lo[i] <= c[i] /\ c[i] <= b.hi[i]
      <4>1. PICK d \in used : d[i] = lows[i]
        BY <1>10
      <4>2. PICK e \in used : e[i] = highs[i]
        BY <1>10
      <4>3. b.lo[i] <= lows[i] /\ highs[i] <= b.hi[i]
        BY <1>3, <4>1, <4>2
      <4>4. b.lo[i] \in Int /\ b.hi[i] \in Int /\ lows[i] \in Int /\ highs[i] \in Int /\ c[i] \in Int
        BY <1>2, <1>7, <3>1 DEF IsBox, Vectors
      <4>5. lows[i] <= c[i] /\ c[i] <= highs[i]
        BY <3>1
      <4> QED BY <4>3, <4>4, <4>5
    <3> QED BY <1>3, <3>1, <3>2
  <2> QED BY <2>1, <2>2
<1>14. Tight(cells, u)
  BY <1>1, <1>10, <1>11, <1>12, <1>13 DEF Tight
<1> QED BY <1>13, <1>14 DEF u, used

LEMMA TightOrder ==
    ASSUME NEW cells, NEW b, Tight(cells, b), NEW i \in Axes
    PROVE  b.lo[i] \in Nat /\ b.hi[i] \in Nat /\ b.lo[i] <= b.hi[i]
<1>1. PICK c \in UsedIn(cells, b) : c[i] = b.lo[i]
  BY DEF Tight
<1>2. PICK d \in UsedIn(cells, b) : d[i] = b.hi[i]
  BY DEF Tight
<1>3. c \in Cells /\ d \in Cells /\ c[i] <= b.hi[i]
  BY DEF UsedIn
<1>4. c[i] \in Nat /\ d[i] \in Nat
  BY <1>3, CellNumbers
<1> QED BY <1>1, <1>2, <1>3, <1>4

LEMMA Extents ==
    ASSUME NEW cells, NEW b, Tight(cells, b), NEW i \in Axes
    PROVE  /\ Extent(b, i) \in Nat
           /\ Extent(b, i) > 0 => b.lo[i] < b.hi[i]
<1> DEFINE l == b.lo[i]
           h == b.hi[i]
           s == CellSize(i)
           w == Scale[i]
<1>1. l \in Nat /\ h \in Nat /\ l <= h
  BY TightOrder
<1>2. s \in Nat /\ w \in Nat
  BY CellSizes, Scales
<1>3. Extent(b, i) = (h - l) * s * w
  BY DEF Extent
<1> HIDE DEF l, h, s, w
<1>4. h - l \in Nat
  BY <1>1
<1>5. (h - l) * s \in Nat
  BY <1>2, <1>4
<1>6. (h - l) * s * w \in Nat
  BY <1>2, <1>5
<1>7. CASE h = l
  <2>1. (h - l) * s = 0
    BY <1>1, <1>2, <1>7
  <2>2. (h - l) * s * w = 0
    BY <1>2, <2>1
  <2> QED BY <1>3, <1>6, <2>2
<1>8. CASE h # l
  BY <1>1, <1>3, <1>6, <1>8 DEF l, h
<1> QED BY <1>7, <1>8

LEMMA VolumeType ==
    ASSUME NEW cells, NEW b, Tight(cells, b)
    PROVE  Volume(b) \in Nat
<1> DEFINE f == [i \in Axes |-> Square(Extent(b, i))]
<1>1. ASSUME NEW i \in Axes PROVE f[i] \in Nat
  <2> DEFINE e == Extent(b, i)
  <2>1. e \in Nat
    BY Extents
  <2> HIDE DEF e
  <2>2. e * e \in Nat
    BY <2>1
  <2> QED BY <2>2 DEF Square, e
<1>2. f \in [Axes -> Nat]
  BY <1>1
<1>3. Volume(b) = Sum3(f)
  BY DEF Volume
<1> HIDE DEF f
<1>4. \A i \in Axes : f[i] <= f[i]
  BY <1>2
<1> QED BY <1>2, <1>3, <1>4, Sum3Less

\* The longest axis of a box that can be split has more cells than one.
LEMMA LongestSplits ==
    ASSUME NEW cells, NEW b, Tight(cells, b), Volume(b) > 0
    PROVE  LongestAxis(b) \in Axes /\ b.lo[LongestAxis(b)] < b.hi[LongestAxis(b)]
<1> DEFINE n == LongestAxis(b)
           e1 == Extent(b, 1)
           e2 == Extent(b, 2)
           e3 == Extent(b, 3)
<1>0. 1 \in Axes /\ 2 \in Axes /\ 3 \in Axes
  BY DEF Axes
<1>1. e1 \in Nat /\ e2 \in Nat /\ e3 \in Nat
  BY <1>0, Extents
<1>2. Volume(b) = e1 * e1 + e2 * e2 + e3 * e3
  BY <1>0 DEF Volume, Sum3, Square
<1>3. n = LET m == IF e1 > e2 THEN 1 ELSE 2 IN IF e3 > Extent(b, m) THEN 3 ELSE m
  BY DEF LongestAxis
<1> HIDE DEF e1, e2, e3
<1>4. e1 > 0 \/ e2 > 0 \/ e3 > 0
  <2>1. CASE e1 = 0 /\ e2 = 0 /\ e3 = 0
    <3>1. e1 * e1 = 0 /\ e2 * e2 = 0 /\ e3 * e3 = 0
      BY <2>1
    <3>2. Volume(b) = 0
      BY <1>2, <3>1
    <3> QED BY <3>2
  <2> QED BY <1>1, <2>1
<1>5. n \in Axes /\ Extent(b, n) > 0
  <2>1. CASE e1 > e2
    BY <1>0, <1>1, <1>3, <1>4, <2>1 DEF e1, e2, e3
  <2>2. CASE ~(e1 > e2)
    BY <1>0, <1>1, <1>3, <1>4, <2>2 DEF e1, e2, e3
  <2> QED BY <2>1, <2>2
<1> HIDE DEF n
<1>6. b.lo[n] < b.hi[n]
  BY <1>5, Extents
<1> QED BY <1>5, <1>6 DEF n

\* It is cut between cells in use, and each of them goes to one half.
LEMMA HalvesRight ==
    ASSUME NEW cells, NEW b, Tight(cells, b), Volume(b) > 0
    PROVE  /\ IsBox(Lower(b)) /\ IsBox(Upper(b))
           /\ UsedIn(cells, Lower(b)) # {} /\ UsedIn(cells, Upper(b)) # {}
           /\ UsedIn(cells, b) = UsedIn(cells, Lower(b)) \cup UsedIn(cells, Upper(b))
           /\ UsedIn(cells, Lower(b)) \cap UsedIn(cells, Upper(b)) = {}
<1> DEFINE n == LongestAxis(b)
           m == Middle(b)
           lo == b.lo
           hi == b.hi
           l == Lower(b)
           u == Upper(b)
           used == UsedIn(cells, b)
<1>1. n \in Axes /\ lo[n] < hi[n]
  BY LongestSplits
<1>2. lo \in Vectors /\ hi \in Vectors /\ b = [lo |-> lo, hi |-> hi]
  BY DEF Tight, IsBox
<1>3. l = [b EXCEPT !.hi[n] = m] /\ u = [b EXCEPT !.lo[n] = m + 1] /\ m = (hi[n] + lo[n]) \div 2
  BY DEF Lower, Upper, Middle
<1>4. lo[n] \in Int /\ hi[n] \in Int
  BY <1>1, <1>2 DEF Vectors
<1>5. used = {c \in Cells : cells[c] # 0 /\ \A i \in Axes : lo[i] <= c[i] /\ c[i] <= hi[i]}
  BY DEF UsedIn
<1>11. \A i \in Axes : (\E c \in used : c[i] = lo[i]) /\ (\E c \in used : c[i] = hi[i])
  BY DEF Tight
<1>12. \A c \in Cells, i \in Axes : c[i] \in Nat
  BY CellNumbers
<1> HIDE DEF n, lo, hi, m, used
<1>6. l = [lo |-> lo, hi |-> [hi EXCEPT ![n] = m]] /\ u = [lo |-> [lo EXCEPT ![n] = m + 1], hi |-> hi]
  BY <1>2, <1>3
<1>7. m \in Int /\ lo[n] <= m /\ m < hi[n]
  <2> DEFINE p == lo[n]
             q == hi[n]
  <2>1. p \in Int /\ q \in Int /\ p < q /\ m = (q + p) \div 2
    BY <1>1, <1>3, <1>4
  <2> HIDE DEF p, q
  <2>2. m \in Int /\ p <= m /\ m < q
    BY <2>1
  <2> QED BY <2>2 DEF p, q
<1>8. IsBox(l) /\ IsBox(u)
  <2>1. [hi EXCEPT ![n] = m] \in Vectors /\ [lo EXCEPT ![n] = m + 1] \in Vectors
    BY <1>1, <1>2, <1>7 DEF Vectors
  <2> QED BY <1>2, <1>6, <2>1 DEF IsBox
<1>9. /\ l.lo = lo /\ u.hi = hi
      /\ \A i \in Axes : /\ l.hi[i] = IF i = n THEN m ELSE hi[i]
                         /\ u.lo[i] = IF i = n THEN m + 1 ELSE lo[i]
  BY <1>1, <1>2, <1>6 DEF Vectors
<1> HIDE DEF l, u
<1>10. \A i \in Axes : lo[i] \in Int /\ hi[i] \in Int
  BY <1>2 DEF Vectors
<1>13. ASSUME NEW c \in used, c[n] <= m PROVE c \in UsedIn(cells, l)
  <2>1. c \in Cells /\ cells[c] # 0 /\ \A i \in Axes : lo[i] <= c[i] /\ c[i] <= hi[i]
    BY <1>5
  <2>2. \A i \in Axes : l.lo[i] <= c[i] /\ c[i] <= l.hi[i]
    BY <1>9, <1>13, <2>1
  <2> QED BY <2>1, <2>2 DEF UsedIn
<1>14. ASSUME NEW c \in used, c[n] > m PROVE c \in UsedIn(cells, u)
  <2>1. c \in Cells /\ cells[c] # 0 /\ \A i \in Axes : lo[i] <= c[i] /\ c[i] <= hi[i]
    BY <1>5
  <2>2. m + 1 <= c[n]
    BY <1>1, <1>7, <1>12, <1>14, <2>1
  <2>3. \A i \in Axes : u.lo[i] <= c[i] /\ c[i] <= u.hi[i]
    BY <1>9, <2>1, <2>2
  <2> QED BY <2>1, <2>3 DEF UsedIn
<1>15. ASSUME NEW c \in UsedIn(cells, l) PROVE c \in used /\ c[n] <= m
  <2>1. c \in Cells /\ cells[c] # 0 /\ \A i \in Axes : l.lo[i] <= c[i] /\ c[i] <= l.hi[i]
    BY DEF UsedIn
  <2>2. c[n] <= m /\ c[n] \in Int
    BY <1>1, <1>9, <1>12, <2>1
  <2>3. \A i \in Axes : lo[i] <= c[i] /\ c[i] <= hi[i]
    BY <1>4, <1>7, <1>9, <2>1, <2>2
  <2> QED BY <1>5, <2>1, <2>2, <2>3
<1>16. ASSUME NEW c \in UsedIn(cells, u) PROVE c \in used /\ c[n] > m
  <2>1. c \in Cells /\ cells[c] # 0 /\ \A i \in Axes : u.lo[i] <= c[i] /\ c[i] <= u.hi[i]
    BY DEF UsedIn
  <2>2. m + 1 <= c[n] /\ c[n] \in Int
    BY <1>1, <1>9, <1>12, <2>1
  <2>3. \A i \in Axes : lo[i] <= c[i] /\ c[i] <= hi[i]
    BY <1>4, <1>7, <1>9, <2>1, <2>2
  <2>4. c[n] > m
    BY <1>7, <2>2
  <2> QED BY <1>5, <2>1, <2>3, <2>4
<1>17. \A c \in used : c[n] <= m \/ c[n] > m
  BY <1>1, <1>5, <1>7, <1>12
<1>18. used = UsedIn(cells, l) \cup UsedIn(cells, u)
  BY <1>13, <1>14, <1>15, <1>16, <1>17
<1>19. UsedIn(cells, l) \cap UsedIn(cells, u) = {}
  <2>1. ASSUME NEW c \in UsedIn(cells, l), c \in UsedIn(cells, u) PROVE FALSE
    <3>1. c[n] <= m /\ c[n] > m /\ c \in used
      BY <1>15, <1>16, <2>1
    <3>2. c[n] \in Int
      BY <1>1, <1>5, <1>12, <3>1
    <3> QED BY <1>7, <3>1, <3>2
  <2> QED BY <2>1
<1>20. UsedIn(cells, l) # {} /\ UsedIn(cells, u) # {}
  <2>1. PICK c \in used : c[n] = lo[n]
    BY <1>1, <1>11
  <2>2. PICK d \in used : d[n] = hi[n]
    BY <1>1, <1>11
  <2>3. c \in UsedIn(cells, l)
    BY <1>7, <1>13, <2>1
  <2>4. d[n] > m
    BY <1>4, <1>7, <2>2
  <2>5. d \in UsedIn(cells, u)
    BY <1>14, <2>4
  <2> QED BY <2>3, <2>5
<1> QED BY <1>8, <1>18, <1>19, <1>20 DEF l, u, used

\* The box that is split can be split.
LEMMA BiggestRight ==
    ASSUME NEW boxes, IsFiniteSet(DOMAIN boxes), DOMAIN boxes \subseteq Nat, NEW measure,
           \A k \in DOMAIN boxes : measure[k] \in Int
    PROVE  Biggest(boxes, measure) = 0
           \/ (Biggest(boxes, measure) \in DOMAIN boxes /\ Volume(boxes[Biggest(boxes, measure)]) > 0)
<1> DEFINE can == {k \in DOMAIN boxes : Volume(boxes[k]) > 0}
           best == {k \in can : \A j \in can : measure[k] >= measure[j]}
           Bad == {r \in SUBSET can : r # {} /\ ~\E m \in r : \A j \in r : measure[m] >= measure[j]}
<1>0. IsFiniteSet(can) /\ can \subseteq Nat /\ \A k \in can : measure[k] \in Int
  <2>1. can \in SUBSET DOMAIN boxes
    OBVIOUS
  <2> QED BY <2>1, FS_Subset
<1>6. \A k \in can : k \in DOMAIN boxes /\ Volume(boxes[k]) > 0
  OBVIOUS
<1>7. Biggest(boxes, measure) = IF can = {} THEN 0 ELSE Min(best)
  BY DEF Biggest
<1> HIDE DEF can
<1>1. ASSUME Bad # {} PROVE FALSE
  <2>1. PICK r \in Bad : \A u \in SUBSET r : u # r => u \notin Bad
    <3>1. Bad \subseteq SUBSET can
      OBVIOUS
    <3> HIDE DEF Bad
    <3> QED BY <1>0, <1>1, <3>1, SmallestSet
  <2>2. PICK x \in r : TRUE
    OBVIOUS
  <2> DEFINE u == r \ {x}
  <2>3. u \in SUBSET r /\ u # r /\ \A k \in r : measure[k] \in Int
    BY <1>0
  <2>4. CASE u = {}
    <3>1. \A y \in r : measure[x] >= measure[y]
      BY <2>3, <2>4
    <3> QED BY <3>1
  <2>5. CASE u # {}
    <3>1. PICK m \in u : \A y \in u : measure[m] >= measure[y]
      BY <2>1, <2>3, <2>5
    <3>2. m \in r /\ measure[m] \in Int /\ measure[x] \in Int
      BY <2>3, <3>1
    <3>3. CASE measure[m] >= measure[x]
      <4>1. \A y \in r : measure[m] >= measure[y]
        BY <3>1, <3>3
      <4> QED BY <4>1, <3>2
    <3>4. CASE measure[m] < measure[x]
      <4>1. \A y \in r : measure[x] >= measure[y]
        BY <3>1, <3>2, <3>4, <2>3
      <4> QED BY <4>1
    <3> QED BY <3>2, <3>3, <3>4
  <2> QED BY <2>4, <2>5
<1>2. CASE can = {}
  BY <1>2, <1>7
<1>3. CASE can # {}
  <2>1. best # {}
    BY <1>1, <1>3
  <2>2. best \subseteq can /\ best \subseteq Nat
    BY <1>0
  <2> HIDE DEF best
  <2>3. Min(best) \in best
    BY <2>1, <2>2, MinOfNat
  <2> QED BY <1>3, <1>6, <1>7, <2>2, <2>3
<1> QED BY <1>2, <1>3

BoxRecords == [lo : Vectors, hi : Vectors]
\* The boxes after some turns: no more than wanted, tight, and every cell in use is in one.
BoxesRight(given, boxes, k) ==
    /\ boxes \in Seq(BoxRecords) /\ Len(boxes) >= 1 /\ Len(boxes) <= Desired
    /\ \A j \in DOMAIN boxes : Tight(two.cells, boxes[j])
    /\ \A c \in Cells : two.cells[c] # 0 =>
          \E j \in DOMAIN boxes :
             /\ c \in UsedIn(two.cells, boxes[j])
             /\ \A l \in DOMAIN boxes : c \in UsedIn(two.cells, boxes[l]) => l = j
Cuts == INSTANCE FoldFacts WITH Op <- Median_cut, P <- BoxesRight

LEMMA CutRight ==
    ASSUME Desired \in Nat, NEW k, NEW j, NEW turn, NEW boxes, BoxesRight(0, boxes, j)
    PROVE  BoxesRight(0, Median_cut(boxes, turn), k)
<1> DEFINE cells == two.cells
           n == Len(boxes)
           byCount == Len(boxes) * 2 <= Desired
           measure == [i \in DOMAIN boxes |-> IF byCount THEN Cardinality(UsedIn(two.cells, boxes[i]))
                                              ELSE Volume(boxes[i])]
           b == Biggest(boxes, measure)
           old == boxes[b]
           p == Update_box(cells, Lower(old))
           q == Update_box(cells, Upper(old))
           new == Append([boxes EXCEPT ![b] = p], q)
<1>1. /\ boxes \in Seq(BoxRecords) /\ n \in Nat /\ n >= 1 /\ n <= Desired /\ DOMAIN boxes = 1..n
      /\ \A i \in DOMAIN boxes : Tight(cells, boxes[i])
  BY DEF BoxesRight
<1>2. Median_cut(boxes, turn) = IF n >= Desired \/ b = 0 THEN boxes ELSE new
  BY DEF Median_cut
<1>3. CASE n >= Desired \/ b = 0
  BY <1>2, <1>3 DEF BoxesRight
<1>4. CASE ~(n >= Desired \/ b = 0)
  <2>1. b \in DOMAIN boxes /\ Volume(old) > 0
    <3>1. IsFiniteSet(DOMAIN boxes) /\ DOMAIN boxes \subseteq Nat
      BY <1>1, FS_Interval
    <3>2. \A i \in DOMAIN boxes : measure[i] \in Int
      <4> TAKE i \in DOMAIN boxes
      <4>1. Cardinality(UsedIn(two.cells, boxes[i])) \in Nat
        BY UsedFinite, FS_CardinalityType
      <4>2. Volume(boxes[i]) \in Nat
        BY <1>1, VolumeType
      <4> QED BY <4>1, <4>2
    <3> HIDE DEF measure
    <3> QED BY <1>4, <3>1, <3>2, BiggestRight
  <2>2. Tight(cells, old)
    BY <1>1, <2>1
  <2> HIDE DEF b, measure
  <2>3. /\ IsBox(Lower(old)) /\ IsBox(Upper(old))
        /\ UsedIn(cells, Lower(old)) # {} /\ UsedIn(cells, Upper(old)) # {}
        /\ UsedIn(cells, old) = UsedIn(cells, Lower(old)) \cup UsedIn(cells, Upper(old))
        /\ UsedIn(cells, Lower(old)) \cap UsedIn(cells, Upper(old)) = {}
    <3> HIDE DEF old, cells
    <3> QED BY <2>1, <2>2, HalvesRight
  <2>4. Tight(cells, p) /\ UsedIn(cells, p) = UsedIn(cells, Lower(old))
    BY <2>3, UpdateBox
  <2>5. Tight(cells, q) /\ UsedIn(cells, q) = UsedIn(cells, Upper(old))
    BY <2>3, UpdateBox
  <2> HIDE DEF p, q, old, cells
  <2>6. p \in BoxRecords /\ q \in BoxRecords
    BY <2>4, <2>5 DEF Tight, IsBox, BoxRecords
  <2> DEFINE fst == [boxes EXCEPT ![b] = p]
  <2>7. fst \in Seq(BoxRecords) /\ Len(fst) = n /\ DOMAIN fst = 1..n
    BY <1>1, <2>1, <2>6
  <2>8. /\ new \in Seq(BoxRecords) /\ Len(new) = n + 1 /\ DOMAIN new = 1..(n + 1)
        /\ new[n + 1] = q /\ \A i \in 1..n : new[i] = fst[i]
    <3>1. new = Append(fst, q)
      OBVIOUS
    <3> HIDE DEF new, fst, n
    <3>2. n \in Nat /\ fst \in Seq(BoxRecords) /\ Len(fst) = n /\ q \in BoxRecords
      BY <1>1, <2>6, <2>7
    <3> QED BY <3>1, <3>2
  <2>9. \A i \in 1..n : new[i] = IF i = b THEN p ELSE boxes[i]
    BY <1>1, <2>8
  <2> HIDE DEF new, fst, n
  <2>10. \A i \in DOMAIN new : Tight(cells, new[i])
    <3>1. \A i \in 1..n : Tight(cells, new[i])
      BY <1>1, <2>4, <2>9
    <3>2. Tight(cells, new[n + 1])
      BY <2>5, <2>8
    <3>3. \A i \in 1..(n + 1) : i \in 1..n \/ i = n + 1
      BY <1>1
    <3> QED BY <2>8, <3>1, <3>2, <3>3
  <2>11. ASSUME NEW c \in Cells, cells[c] # 0
         PROVE \E i \in DOMAIN new :
                  /\ c \in UsedIn(cells, new[i])
                  /\ \A l \in DOMAIN new : c \in UsedIn(cells, new[l]) => l = i
    <3>1. PICK i \in 1..n : /\ c \in UsedIn(cells, boxes[i])
                            /\ \A l \in 1..n : c \in UsedIn(cells, boxes[l]) => l = i
      BY <1>1, <2>11 DEF BoxesRight, cells
    <3>2. \A l \in DOMAIN new : l \in 1..n \/ l = n + 1
      BY <1>1, <2>8
    <3>3. n + 1 \in DOMAIN new /\ 1..n \subseteq DOMAIN new /\ n + 1 \notin 1..n
      BY <1>1, <2>8
    <3>4. UsedIn(cells, new[b]) = UsedIn(cells, Lower(old)) /\ UsedIn(cells, new[n + 1]) = UsedIn(cells, Upper(old))
      BY <1>1, <2>1, <2>4, <2>5, <2>8, <2>9
    <3>5. b \in 1..n /\ old = boxes[b]
      BY <1>1, <2>1 DEF old
    <3>6. CASE i # b
      <4>1. c \in UsedIn(cells, new[i]) /\ i \in DOMAIN new
        BY <2>9, <3>1, <3>3, <3>6
      <4>2. c \notin UsedIn(cells, old)
        BY <3>1, <3>5, <3>6
      <4>3. c \notin UsedIn(cells, new[b]) /\ c \notin UsedIn(cells, new[n + 1])
        BY <2>3, <3>4, <4>2
      <4>4. ASSUME NEW l \in DOMAIN new, c \in UsedIn(cells, new[l]) PROVE l = i
        <5>1. l \in 1..n /\ l # b
          BY <3>2, <4>3, <4>4
        <5>2. new[l] = boxes[l]
          BY <2>9, <5>1
        <5> QED BY <3>1, <4>4, <5>1, <5>2
      <4> QED BY <4>1, <4>4
    <3>7. CASE i = b /\ c \in UsedIn(cells, Lower(old))
      <4>1. c \in UsedIn(cells, new[i]) /\ i \in DOMAIN new
        BY <3>1, <3>3, <3>4, <3>7
      <4>2. c \notin UsedIn(cells, new[n + 1])
        BY <2>3, <3>4, <3>7
      <4>3. ASSUME NEW l \in DOMAIN new, c \in UsedIn(cells, new[l]) PROVE l = i
        <5>1. l \in 1..n
          BY <3>2, <4>2, <4>3
        <5>2. CASE l # b
          BY <2>9, <3>1, <4>3, <5>1, <5>2
        <5> QED BY <3>7, <5>2
      <4> QED BY <4>1, <4>3
    <3>8. CASE i = b /\ c \in UsedIn(cells, Upper(old))
      <4>1. c \in UsedIn(cells, new[n + 1])
        BY <3>4, <3>8
      <4>2. c \notin UsedIn(cells, new[b])
        BY <2>3, <3>4, <3>8
      <4>3. ASSUME NEW l \in DOMAIN new, c \in UsedIn(cells, new[l]) PROVE l = n + 1
        <5>1. l # b
          BY <4>2, <4>3
        <5>2. CASE l \in 1..n
          <6>1. new[l] = boxes[l]
            BY <2>9, <5>1, <5>2
          <6>2. l = i
            BY <3>1, <4>3, <5>2, <6>1
          <6> QED BY <3>8, <5>1, <6>2
        <5> QED BY <3>2, <5>2
      <4> QED BY <3>3, <4>1, <4>3
    <3>9. i = b => c \in UsedIn(cells, Lower(old)) \/ c \in UsedIn(cells, Upper(old))
      BY <2>3, <3>1, <3>5
    <3> QED BY <3>6, <3>7, <3>8, <3>9
  <2>12. n + 1 <= Desired /\ n + 1 >= 1
    <3> DEFINE d == Desired
    <3>1. d \in Nat /\ ~(n >= d)
      BY <1>4 DEF n
    <3> HIDE DEF d
    <3>2. n + 1 <= d /\ n + 1 >= 1
      BY <1>1, <3>1
    <3> QED BY <3>2 DEF d
  <2>13. Median_cut(boxes, turn) = new
    BY <1>2, <1>4 DEF new, p, q, old, n, cells
  <2> QED BY <2>8, <2>10, <2>11, <2>12, <2>13 DEF BoxesRight, cells
<1> QED BY <1>3, <1>4

\* The boxes of a picture of some colours.
LEMMA SelectRight ==
    ASSUME Desired \in Nat, Desired >= 1,
           NEW c0 \in Cells, two.cells[c0] # 0
    PROVE  BoxesRight(0, Select_boxes, Desired)
<1> DEFINE cells == two.cells
           whole == WholeBox
           b == Update_box(cells, whole)
           base == <<b>>
<1>1. IsBox(whole) /\ \A c \in Cells : cells[c] # 0 => c \in UsedIn(cells, whole)
  <2>1. \A i \in Axes : HistElems[i] \in Nat
    BY QuantAssumption
  <2>2. whole = [lo |-> [i \in Axes |-> 0], hi |-> [i \in Axes |-> HistElems[i] - 1]]
    BY DEF WholeBox
  <2>3. IsBox(whole)
    <3>1. [i \in Axes |-> 0] \in Vectors
      BY DEF Vectors
    <3>2. [i \in Axes |-> HistElems[i] - 1] \in Vectors
      BY <2>1 DEF Vectors
    <3> QED BY <2>2, <3>1, <3>2 DEF IsBox
  <2>4. \A i \in Axes : whole.lo[i] = 0 /\ whole.hi[i] = HistElems[i] - 1
    BY <2>2
  <2> HIDE DEF whole
  <2>5. ASSUME NEW c \in Cells, cells[c] # 0 PROVE c \in UsedIn(cells, whole)
    <3>1. \A i \in Axes : c[i] \in Nat /\ c[i] < HistElems[i]
      BY CellNumbers DEF Cells
    <3>2. \A i \in Axes : whole.lo[i] <= c[i] /\ c[i] <= whole.hi[i]
      BY <2>1, <2>4, <3>1
    <3> QED BY <2>5, <3>2 DEF UsedIn
  <2> QED BY <2>3, <2>5
<1>2. UsedIn(cells, whole) # {}
  BY <1>1
<1> HIDE DEF whole
<1>3. Tight(cells, b) /\ UsedIn(cells, b) = UsedIn(cells, whole)
  <2> HIDE DEF cells
  <2> QED BY <1>1, <1>2, UpdateBox
<1> HIDE DEF b
<1>4. BoxesRight(0, base, 0)
  <2>1. b \in BoxRecords
    BY <1>3 DEF Tight, IsBox, BoxRecords
  <2>2. base \in Seq(BoxRecords) /\ Len(base) = 1 /\ DOMAIN base = {1} /\ base[1] = b
    BY <2>1
  <2> HIDE DEF base
  <2>3. Len(base) >= 1 /\ Len(base) <= Desired
    <3> DEFINE d == Desired
    <3>1. d >= 1 /\ d \in Nat
      OBVIOUS
    <3> HIDE DEF d
    <3>2. 1 <= d
      BY <3>1
    <3> QED BY <2>2, <3>2 DEF d
  <2>4. \A j \in DOMAIN base : Tight(two.cells, base[j])
    BY <1>3, <2>2
  <2>5. ASSUME NEW c \in Cells, two.cells[c] # 0
        PROVE \E j \in DOMAIN base :
                 /\ c \in UsedIn(two.cells, base[j])
                 /\ \A l \in DOMAIN base : c \in UsedIn(two.cells, base[l]) => l = j
    BY <1>1, <1>3, <2>2, <2>5
  <2> QED BY <2>2, <2>3, <2>4, <2>5 DEF BoxesRight
<1> HIDE DEF base
<1>5. Turns \in Seq(Nat) /\ Len(Turns) = Desired
  BY TurnsType
<1>6. \A k \in 1..Len(Turns) : \A v : BoxesRight(0, v, k - 1) => BoxesRight(0, Median_cut(v, Turns[k]), k)
  BY CutRight
<1>7. BoxesRight(0, Cuts!Fold(base, Turns), Len(Turns))
  BY <1>4, <1>5, <1>6, Cuts!FoldKeeps
<1>8. FoldLeft(Median_cut, base, Turns) = Cuts!Fold(base, Turns)
  BY DEF FoldLeft, Cuts!Fold, MapThenFoldSet, Max, Cuts!Greatest
<1>9. Select_boxes = FoldLeft(Median_cut, base, Turns)
  BY DEF Select_boxes, base, b, whole
<1> QED BY <1>5, <1>7, <1>8, <1>9

-----------------------------------------------------------------------------
(* The mean of a box.                                                      *)

\* Terms between two multiples of weights add up to what is between those multiples of the sum.
LEMMA SumBetween ==
    ASSUME NEW S, IsFiniteSet(S), NEW w, NEW f, NEW a \in Int, NEW b \in Int,
           \A x \in S : w[x] \in Nat /\ f[x] \in Int /\ a * w[x] <= f[x] /\ f[x] <= b * w[x]
    PROVE  /\ SumFunctionOnSet(w, S) \in Nat /\ SumFunctionOnSet(f, S) \in Int
           /\ a * SumFunctionOnSet(w, S) <= SumFunctionOnSet(f, S)
           /\ SumFunctionOnSet(f, S) <= b * SumFunctionOnSet(w, S)
<1> DEFINE W(u) == SumFunctionOnSet(w, u)
           F(u) == SumFunctionOnSet(f, u)
           Good(u) == W(u) \in Nat /\ F(u) \in Int /\ a * W(u) <= F(u) /\ F(u) <= b * W(u)
           Bad == {r \in SUBSET S : ~Good(r)}
<1>1. SUFFICES ASSUME Bad # {} PROVE FALSE
  OBVIOUS
<1>2. PICK r \in Bad : \A u \in SUBSET r : u # r => u \notin Bad
  <2>1. Bad \subseteq SUBSET S
    OBVIOUS
  <2> HIDE DEF Bad
  <2> QED BY <1>1, <2>1, SmallestSet
<1>3. r # {}
  <2>1. W({}) = 0 /\ F({}) = 0
    BY SumNone
  <2> HIDE DEF W, F
  <2>2. Good({})
    BY <2>1
  <2> HIDE DEF Good
  <2> QED BY <1>2, <2>2
<1>4. IsFiniteSet(r) /\ Some(r) \in r /\ r \in SUBSET S
  BY <1>3, FS_Subset, SomeIn
<1> DEFINE e == Some(r)
           t == r \ {e}
<1>5. W(r) = w[e] + W(t) /\ F(r) = f[e] + F(t)
  BY <1>3, <1>4, SumSome
<1>6. Good(t)
  <2>1. t \in SUBSET r /\ t # r /\ t \in SUBSET S
    BY <1>4
  <2> HIDE DEF Good, t
  <2>2. t \notin Bad
    BY <1>2, <2>1
  <2> QED BY <2>1, <2>2
<1>7. w[e] \in Nat /\ f[e] \in Int /\ a * w[e] <= f[e] /\ f[e] <= b * w[e]
  BY <1>4
<1>10. ~Good(r)
  <2> HIDE DEF Good
  <2> QED BY <1>2
<1> DEFINE we == w[e]
           fe == f[e]
           wt == W(t)
           ft == F(t)
<1> HIDE DEF e, t
<1>8. /\ we \in Nat /\ fe \in Int /\ a * we <= fe /\ fe <= b * we
      /\ wt \in Nat /\ ft \in Int /\ a * wt <= ft /\ ft <= b * wt
      /\ W(r) = we + wt /\ F(r) = fe + ft
  <2> HIDE DEF W, F
  <2> QED BY <1>5, <1>6, <1>7
<1> HIDE DEF we, fe, wt, ft, W, F
<1>9. a * (we + wt) = a * we + a * wt /\ b * (we + wt) = b * we + b * wt
  BY <1>8
<1>11. a * we \in Int /\ a * wt \in Int /\ b * we \in Int /\ b * wt \in Int
  BY <1>8
<1>12. a * (we + wt) <= fe + ft /\ fe + ft <= b * (we + wt)
  <2> DEFINE p == a * we
             q == a * wt
             x == b * we
             y == b * wt
  <2> HIDE DEF p, q, x, y
  <2>1. p \in Int /\ q \in Int /\ x \in Int /\ y \in Int /\ p <= fe /\ q <= ft /\ fe <= x /\ ft <= y
    BY <1>8, <1>11 DEF p, q, x, y
  <2>2. p + q <= fe + ft /\ fe + ft <= x + y
    BY <2>1, <1>8
  <2> QED BY <1>9, <2>2 DEF p, q, x, y
<1>13. we + wt \in Nat /\ fe + ft \in Int
  BY <1>8
<1> QED BY <1>8, <1>10, <1>12, <1>13

\* Rounding the mean of what lies between two numbers gives a number between them.
LEMMA MeanBetween ==
    ASSUME NEW T \in Nat, T >= 1, NEW W \in Int, NEW a \in Int, NEW b \in Int, a * T <= W, W <= b * T
    PROVE  /\ (W + T \div 2) \div T \in Int
           /\ a <= (W + T \div 2) \div T /\ (W + T \div 2) \div T <= b
<1> DEFINE h == T \div 2
           x == W + h
           q == x \div T
           r == x % T
<1>1. h \in Nat /\ h < T
  OBVIOUS
<1>2. x \in Int
  BY <1>1
<1> HIDE DEF h, x
<1>3. q \in Int /\ r \in 0..(T - 1) /\ x = (T * q) + r
  BY <1>2, DivBounds
<1> HIDE DEF q, r
<1>4. a * T <= x /\ x < b * T + T
  BY <1>1 DEF x
<1>5. ASSUME q < a PROVE FALSE
  <2>1. (q + 1) * T <= a * T
    <3>1. a - (q + 1) \in Nat
      BY <1>3, <1>5
    <3>2. (a - (q + 1)) * T \in Nat
      BY <3>1
    <3>3. (a - (q + 1)) * T = a * T - (q + 1) * T
      BY <1>3
    <3> QED BY <1>3, <3>2, <3>3
  <2>2. (q + 1) * T = T * q + T
    BY <1>3
  <2> QED BY <1>2, <1>3, <1>4, <2>1, <2>2
<1>6. ASSUME q > b PROVE FALSE
  <2>1. (b + 1) * T <= q * T
    <3>1. q - (b + 1) \in Nat
      BY <1>3, <1>6
    <3>2. (q - (b + 1)) * T \in Nat
      BY <3>1
    <3>3. (q - (b + 1)) * T = q * T - (b + 1) * T
      BY <1>3
    <3> QED BY <1>3, <3>2, <3>3
  <2>2. (b + 1) * T = b * T + T /\ q * T = T * q
    BY <1>3
  <2> QED BY <1>2, <1>3, <1>4, <2>1, <2>2
<1>7. a <= q /\ q <= b
  BY <1>3, <1>5, <1>6
<1> QED BY <1>3, <1>7 DEF q, x, h

\* A tight box has a mean colour, which lies in it.
LEMMA ColorRight ==
    ASSUME NEW cells \in [Cells -> Nat], NEW b, Tight(cells, b)
    PROVE  /\ Compute_color(cells, b) \in Vectors
           /\ \A i \in Axes : /\ b.lo[i] <= CellOf(Compute_color(cells, b))[i]
                              /\ CellOf(Compute_color(cells, b))[i] <= b.hi[i]
<1> DEFINE used == UsedIn(cells, b)
           T == SumFunctionOnSet(cells, used)
           f(i) == [c \in used |-> Centre(c)[i] * cells[c]]
           W(i) == SumFunctionOnSet(f(i), used)
           colour == Compute_color(cells, b)
<1>1. used # {} /\ IsFiniteSet(used) /\ used \subseteq Cells /\ \A c \in used : cells[c] \in Nat /\ cells[c] # 0
  <2>1. IsFiniteSet(used) /\ used \subseteq Cells
    BY UsedFinite
  <2>2. used # {}
    BY DEF Tight
  <2>3. \A c \in used : cells[c] # 0
    BY DEF UsedIn
  <2> HIDE DEF used
  <2> QED BY <2>1, <2>2, <2>3
<1>2. colour = [i \in Axes |-> (W(i) + T \div 2) \div T]
  BY DEF Compute_color
<1>3. ASSUME NEW i \in Axes
      PROVE  LET s == CellSize(i)
                 lo == b.lo[i] * s + s \div 2
                 hi == b.hi[i] * s + s \div 2
             IN  /\ s \in Nat \ {0} /\ b.lo[i] \in Nat /\ b.hi[i] \in Nat /\ lo \in Int /\ hi \in Int
                 /\ (W(i) + T \div 2) \div T \in Int
                 /\ lo <= (W(i) + T \div 2) \div T /\ (W(i) + T \div 2) \div T <= hi
  <2> DEFINE s == CellSize(i)
             half == s \div 2
             l == b.lo[i]
             h == b.hi[i]
             lo == l * s + half
             hi == h * s + half
             g == f(i)
  <2>1. s \in Nat \ {0}
    BY CellSizes
  <2>2. l \in Nat /\ h \in Nat
    BY TightOrder
  <2>3. half \in Int
    <3> HIDE DEF s
    <3> QED BY <2>1
  <2>4. \A c \in used : l <= c[i] /\ c[i] <= h /\ c[i] \in Nat /\ Centre(c)[i] = c[i] * s + half
    <3>1. \A c \in used : c[i] \in Nat
      BY <1>1, CellNumbers
    <3>2. \A c \in used : l <= c[i] /\ c[i] <= h
      BY DEF UsedIn
    <3>3. \A c \in used : Centre(c)[i] = c[i] * s + half
      BY DEF Centre
    <3> QED BY <3>1, <3>2, <3>3
  <2>5. \A c \in used : g[c] = Centre(c)[i] * cells[c]
    OBVIOUS
  <2> HIDE DEF s, half, l, h, used, g
  <2>6. lo \in Int /\ hi \in Int
    <3>1. l * s \in Int /\ h * s \in Int
      BY <2>1, <2>2
    <3> QED BY <3>1, <2>3
  <2>7. \A c \in used : cells[c] \in Nat /\ g[c] \in Int /\ lo * cells[c] <= g[c] /\ g[c] <= hi * cells[c]
    <3> TAKE c \in used
    <3> DEFINE x == c[i]
               y == cells[c]
               m == Centre(c)[i]
    <3>1. x \in Nat /\ l <= x /\ x <= h /\ m = x * s + half /\ y \in Nat /\ g[c] = m * y
      BY <1>1, <2>4, <2>5
    <3> HIDE DEF x, y, m
    <3>2. l * s <= x * s /\ x * s <= h * s
      <4>1. x - l \in Nat /\ h - x \in Nat
        BY <2>2, <3>1
      <4>2. (x - l) * s \in Nat /\ (h - x) * s \in Nat
        BY <2>1, <4>1
      <4>3. (x - l) * s = x * s - l * s /\ (h - x) * s = h * s - x * s
        BY <2>1, <2>2, <3>1
      <4>4. x * s \in Int /\ l * s \in Int /\ h * s \in Int
        BY <2>1, <2>2, <3>1
      <4> QED BY <4>2, <4>3, <4>4
    <3>3. m \in Int /\ lo <= m /\ m <= hi
      <4>1. x * s \in Int /\ l * s \in Int /\ h * s \in Int
        BY <2>1, <2>2, <3>1
      <4> QED BY <2>3, <3>1, <3>2, <4>1
    <3> HIDE DEF lo, hi
    <3>4. lo * y <= m * y /\ m * y <= hi * y
      <4>1. m - lo \in Nat /\ hi - m \in Nat
        BY <2>6, <3>3
      <4>2. (m - lo) * y \in Nat /\ (hi - m) * y \in Nat
        BY <3>1, <4>1
      <4>3. (m - lo) * y = m * y - lo * y /\ (hi - m) * y = hi * y - m * y
        BY <2>6, <3>1, <3>3
      <4>4. m * y \in Int /\ lo * y \in Int /\ hi * y \in Int
        BY <2>6, <3>1, <3>3
      <4> QED BY <4>2, <4>3, <4>4
    <3>5. m * y \in Int
      BY <3>1, <3>3
    <3> QED BY <3>1, <3>4, <3>5 DEF y
  <2> HIDE DEF lo, hi
  <2>8. /\ T \in Nat /\ SumFunctionOnSet(g, used) \in Int
        /\ lo * T <= SumFunctionOnSet(g, used) /\ SumFunctionOnSet(g, used) <= hi * T
    BY <1>1, <2>6, <2>7, SumBetween
  <2>9. T >= 1
    <3>1. PICK c \in used : TRUE
      BY <1>1
    <3>2. T = cells[c] + SumFunctionOnSet(cells, used \ {c})
      <4>1. \A z \in used : cells[z] \in Int
        BY <1>1
      <4> QED BY <1>1, <4>1, SumAny
    <3>3. SumFunctionOnSet(cells, used \ {c}) \in Nat
      <4> DEFINE r == used \ {c}
      <4>1. IsFiniteSet(r)
        BY <1>1, FS_Subset
      <4> DEFINE a == 0
                 d == 1
      <4>2. \A x \in r : cells[x] \in Nat /\ cells[x] \in Int /\ a * cells[x] <= cells[x] /\ cells[x] <= d * cells[x]
        BY <1>1
      <4>4. a \in Int /\ d \in Int
        OBVIOUS
      <4> HIDE DEF r, a, d
      <4>3. SumFunctionOnSet(cells, r) \in Nat
        BY <4>1, <4>2, <4>4, SumBetween
      <4> QED BY <4>3 DEF r
    <3>4. cells[c] \in Nat /\ cells[c] # 0
      BY <1>1
    <3> DEFINE z == SumFunctionOnSet(cells, used \ {c})
    <3> HIDE DEF z, T
    <3>5. T = cells[c] + z /\ z \in Nat
      BY <3>2, <3>3 DEF z
    <3> QED BY <3>4, <3>5
  <2> DEFINE w == SumFunctionOnSet(g, used)
  <2> HIDE DEF w, T
  <2>10. /\ (w + T \div 2) \div T \in Int
         /\ lo <= (w + T \div 2) \div T /\ (w + T \div 2) \div T <= hi
    <3>1. T \in Nat /\ T >= 1 /\ w \in Int /\ lo \in Int /\ hi \in Int /\ lo * T <= w /\ w <= hi * T
      BY <2>6, <2>8, <2>9 DEF w
    <3> QED BY <3>1, MeanBetween
  <2>11. W(i) = w
    BY DEF w, g
  <2> HIDE DEF W
  <2> QED BY <2>1, <2>2, <2>6, <2>10, <2>11 DEF lo, hi, half, s, l, h, T
<1> HIDE DEF W, T, used
<1>4. colour \in Vectors
  <2> HIDE DEF colour
  <2> QED BY <1>2, <1>3 DEF Vectors
<1>5. ASSUME NEW i \in Axes
      PROVE b.lo[i] <= CellOf(colour)[i] /\ CellOf(colour)[i] <= b.hi[i]
  <2> DEFINE s == CellSize(i)
             half == s \div 2
             l == b.lo[i]
             h == b.hi[i]
             x == colour[i]
             q == x \div s
  <2>1. CellOf(colour)[i] = q
    BY DEF CellOf
  <2>2. x = (W(i) + T \div 2) \div T
    BY <1>2
  <2>3. s \in Nat \ {0} /\ l \in Nat /\ h \in Nat /\ x \in Int /\ l * s + half <= x /\ x <= h * s + half
    BY <1>3, <2>2
  <2> HIDE DEF s, l, h, x
  <2>4. half \in Nat /\ half < s
    BY <2>3
  <2> HIDE DEF half
  <2>5. q \in Int /\ x % s \in 0..(s - 1) /\ x = (s * q) + (x % s)
    BY <2>3, DivBounds
  <2> DEFINE r == x % s
  <2> HIDE DEF q, r
  <2>6. r \in 0..(s - 1) /\ x = s * q + r
    BY <2>5 DEF r
  <2>7. ASSUME q < l PROVE FALSE
    <3>1. (q + 1) * s <= l * s
      <4>1. l - (q + 1) \in Nat
        BY <2>3, <2>5, <2>7
      <4>2. (l - (q + 1)) * s \in Nat
        BY <2>3, <4>1
      <4>3. (l - (q + 1)) * s = l * s - (q + 1) * s
        BY <2>3, <2>5
      <4> QED BY <2>3, <2>5, <4>2, <4>3
    <3>2. (q + 1) * s = s * q + s
      BY <2>3, <2>5
    <3> QED BY <2>3, <2>4, <2>5, <2>6, <3>1, <3>2
  <2>8. ASSUME q > h PROVE FALSE
    <3>1. (h + 1) * s <= q * s
      <4>1. q - (h + 1) \in Nat
        BY <2>3, <2>5, <2>8
      <4>2. (q - (h + 1)) * s \in Nat
        BY <2>3, <4>1
      <4>3. (q - (h + 1)) * s = q * s - (h + 1) * s
        BY <2>3, <2>5
      <4> QED BY <2>3, <2>5, <4>2, <4>3
    <3>2. (h + 1) * s = h * s + s /\ q * s = s * q
      BY <2>3, <2>5
    <3> QED BY <2>3, <2>4, <2>5, <2>6, <3>1, <3>2
  <2>9. l <= q /\ q <= h
    BY <2>3, <2>5, <2>7, <2>8
  <2> QED BY <2>1, <2>9 DEF l, h
<1> QED BY <1>4, <1>5

-----------------------------------------------------------------------------
(* The quantizers' invariant.                                              *)

\* The decompressor is ready for passes, or in one.
Active == master.quantizer \in {"1pass", "2pass"}
AppType ==
    app \in [buffered : BOOLEAN, two_pass : BOOLEAN, dither : DitherModes, map : Seq(Vectors),
             desired : Int, enabled : SUBSET Methods]
MasterType == master \in [quantizer : {"none", "1pass", "2pass", "error"}, dummy : BOOLEAN, passes : Nat]
OneType ==
    one \in [ncolors : [Axes -> Nat], map : Seq(Vectors), padded : BOOLEAN, row_index : 0..(DitherSide - 1)]
TwoType ==
    two \in [cells : [Cells -> Nat], needs_zeroed : BOOLEAN, map : Seq(Vectors), boxes : Seq(BoxRecords)]
PassType ==
    /\ pass \in [on : BOOLEAN, prescan : BOOLEAN, picture : Pictures \cup {<<>>}, row : Nat]
    /\ pass.on => Active /\ pass.picture \in Pictures /\ pass.row <= Len(pass.picture)
\* Errors of the columns of a row, and of one beside each end.
RowErrors(width) == [errors : [0..(width + 1) -> Vectors], odd : BOOLEAN]
QuantType == AppType /\ MasterType /\ OneType /\ TwoType /\ PassType

\* What the quantizers that were made are set up with.
QuantizersMade ==
    /\ master.quantizer = "none" => two.needs_zeroed
    /\ master.quantizer = "1pass" => "1pass" \in app.enabled
    /\ Active /\ "1pass" \in app.enabled => IsCounts(one.ncolors) /\ one.map = Create_colormap(one.ncolors)
    /\ Active /\ "2pass" \in app.enabled => Desired >= 1

\* The first of two passes counts, and leaves a colormap to the second.
FirstPass ==
    /\ pass.on => (pass.prescan <=> master.dummy)
    /\ master.dummy =>
          /\ master.quantizer = "2pass" /\ "2pass" \in app.enabled /\ pass.picture \in Pictures
          /\ pass.on => app.map = NoMap
          /\ pass.on /\ pass.row > 0 => \E c \in Cells : two.cells[c] # 0
          /\ ~pass.on => app.map # NoMap

Mapping == pass.on /\ ~pass.prescan
\* A pass that maps has what it maps with; nothing is shown without one.
MappingReady ==
    /\ Mapping =>
          /\ app.map # NoMap
          /\ master.quantizer = "1pass" => app.map = one.map /\ (app.dither = "ORDERED" => one.padded)
          /\ master.quantizer = "2pass" => ~two.needs_zeroed
          /\ app.dither = "FS" => fs \in RowErrors(Len(pass.picture[1]))
    /\ ~Mapping => shown.index = <<>>

\* The cells looked up hold entries of the colormap in use that are nearest to them.
NearestHeld(cells, map) == \A c \in Cells : cells[c] # 0 => Nearest(map, cells[c], c)
CacheRight ==
    master.quantizer = "2pass" /\ app.map # NoMap /\ ~two.needs_zeroed => NearestHeld(two.cells, app.map)

QuantInv == QuantType /\ QuantizersMade /\ FirstPass /\ MappingReady /\ CacheRight /\ ColorsMapped

-----------------------------------------------------------------------------
(* The cache.                                                              *)

\* Filling the update boxes of some cells keeps it right, and looks them up.
LEMMA FillRight ==
    ASSUME NEW cells \in [Cells -> Nat], NEW map, IsMap(map), NearestHeld(cells, map),
           NEW visited, visited \subseteq Cells, NEW filled, filled = Fill_inverse_cmap(cells, map, visited)
    PROVE  /\ filled \in [Cells -> Nat] /\ NearestHeld(filled, map)
           /\ \A c \in visited : Nearest(map, filled[c], c)
<1> DEFINE boxes == {BoxOf(c) : c \in {v \in visited : cells[v] = 0}}
           list == [b \in boxes |-> Find_nearby_colors(map, b)]
           Found(c) == Find_best_color(map, Find_nearby_colors(map, BoxOf(c)), c)
<1>1. filled = [c \in Cells |-> IF BoxOf(c) \in boxes THEN Find_best_color(map, list[BoxOf(c)], c) ELSE cells[c]]
  BY DEF Fill_inverse_cmap
<1>2. \A c \in visited : cells[c] = 0 => BoxOf(c) \in boxes
  OBVIOUS
<1> HIDE DEF boxes
<1>3. \A c \in Cells : filled[c] = IF BoxOf(c) \in boxes THEN Found(c) ELSE cells[c]
  BY <1>1
<1>4. DOMAIN filled = Cells /\ filled = [c \in Cells |-> filled[c]]
  BY <1>1
<1> HIDE DEF list
<1>5. \A c \in Cells : Nearest(map, Found(c), c)
  BY NearbyEnough
<1> HIDE DEF Found
<1>6. \A k, c : Nearest(map, k, c) => k \in Nat /\ k # 0
  <2> TAKE k, c
  <2> HAVE Nearest(map, k, c)
  <2>1. k \in DOMAIN map
    BY DEF Nearest
  <2>2. map \in Seq(Vectors)
    BY DEF IsMap
  <2> QED BY <2>1, <2>2
<1>7. \A c \in Cells : filled[c] \in Nat
  BY <1>3, <1>5, <1>6
<1>8. filled \in [Cells -> Nat]
  BY <1>4, <1>7
<1>9. NearestHeld(filled, map)
  BY <1>3, <1>5 DEF NearestHeld
<1>10. \A c \in visited : Nearest(map, filled[c], c)
  <2> TAKE c \in visited
  <2>1. c \in Cells
    OBVIOUS
  <2>2. CASE BoxOf(c) \in boxes
    BY <1>3, <1>5, <2>1, <2>2
  <2>3. CASE BoxOf(c) \notin boxes
    BY <1>2, <1>3, <2>1, <2>3 DEF NearestHeld
  <2> QED BY <2>2, <2>3
<1> QED BY <1>8, <1>9, <1>10

\* The entry the cache gives, filled for the colour or before.
LEMMA CachedRight ==
    ASSUME NEW cells, IsMap(app.map), NearestHeld(cells, app.map), NEW colour \in Colours
    PROVE  Nearest(app.map, CachedEntry(cells, colour), CellOf(colour))
<1>1. CellOf(colour) \in Cells
  BY CellOfColour
<1> DEFINE c == CellOf(colour)
<1>2. CachedEntry(cells, colour) = IF cells[c] # 0 THEN cells[c]
                                   ELSE Find_best_color(app.map, Find_nearby_colors(app.map, BoxOf(c)), c)
  BY DEF CachedEntry
<1>3. c \in Cells
  BY <1>1
<1> HIDE DEF c
<1>4. Nearest(app.map, Find_best_color(app.map, Find_nearby_colors(app.map, BoxOf(c)), c), c)
  BY <1>3, NearbyEnough
<1>5. Nearest(app.map, CachedEntry(cells, colour), c)
  BY <1>2, <1>3, <1>4 DEF NearestHeld
<1> QED BY <1>5 DEF c

-----------------------------------------------------------------------------
(* Rows.                                                                   *)

LEMMA ColoursVectors == Colours \subseteq Vectors
<1>1. \A x \in 0..MAXJSAMPLE : x \in Int
  OBVIOUS
<1> QED BY <1>1 DEF Colours, Vectors

LEMMA RowRight ==
    ASSUME QuantType, MoreRows
    PROVE  /\ CurrentRow \in Seq(Colours) /\ CurrentRow # <<>>
           /\ Len(CurrentRow) = Len(pass.picture[1])
           /\ pass.row + 1 <= Len(pass.picture) /\ pass.row \in Nat
<1>1. pass.picture \in Pictures /\ pass.row \in Nat /\ pass.row < Len(pass.picture)
  BY DEF QuantType, PassType, MoreRows
<1> DEFINE p == pass.picture
           k == pass.row + 1
<1>2. /\ p \in Seq(Seq(Colours)) /\ p # <<>> /\ p[1] # <<>>
      /\ \A j \in DOMAIN p : Len(p[j]) = Len(p[1])
  BY <1>1, QuantAssumption
<1>3. Len(p) \in Nat /\ DOMAIN p = 1..Len(p)
  BY <1>2
<1>4. CurrentRow = p[k]
  BY DEF CurrentRow
<1>5. k \in 1..Len(p) /\ k <= Len(p)
  BY <1>1, <1>3
<1> HIDE DEF p, k
<1>6. p[k] \in Seq(Colours) /\ p[1] \in Seq(Colours) /\ Len(p[k]) = Len(p[1])
  <2>1. 1 \in 1..Len(p)
    BY <1>3, <1>5
  <2>2. \A j \in 1..Len(p) : p[j] \in Seq(Colours)
    BY <1>2
  <2> QED BY <1>2, <1>3, <1>5, <2>1, <2>2
<1>7. p[k] # <<>>
  <2>1. Len(p[1]) # 0
    BY <1>2, <1>6
  <2> QED BY <1>6, <2>1
<1> QED BY <1>1, <1>4, <1>5, <1>6, <1>7 DEF p, k

\* Where no row is shown and no boxes were made, there is nothing to be wrong.
LEMMA NothingShown ==
    ASSUME shown'.index = <<>>, ~(master'.dummy /\ ~pass'.on)
    PROVE  ColorsMapped'
<1>1. DOMAIN shown'.index = {}
  OBVIOUS
<1>2. NearestEntry'
  BY <1>1 DEF NearestEntry
<1>3. ErrorsSpread'
  BY DEF ErrorsSpread
<1>4. BoxesPartition'
  BY DEF BoxesPartition
<1> QED BY <1>2, <1>3, <1>4 DEF ColorsMapped

LEMMA ZeroVector == Zero3 \in Vectors
BY DEF Zero3, Vectors

LEMMA NoRowShown == NoRow.index = <<>>
BY DEF NoRow

LEMMA NoCellsType == NoCells \in [Cells -> Nat] /\ \A c \in Cells : NoCells[c] = 0
BY DEF NoCells

LEMMA NoFsType ==
    ASSUME NEW width
    PROVE  NoFs(width) \in RowErrors(width)
BY ZeroVector DEF NoFs, RowErrors

\* Colormaps of the application are colormaps.
LEMMA MapsType ==
    ASSUME NEW map \in Maps \cup {NoMap}
    PROVE  map \in Seq(Vectors) /\ (map \in Maps => map # NoMap)
<1>1. CASE map \in Maps
  <2>1. map \in Seq(Colours) /\ map # <<>>
    BY <1>1, QuantAssumption
  <2>2. map \in Seq(Vectors)
    BY <2>1, ColoursVectors
  <2> QED BY <2>1, <2>2 DEF NoMap
<1>2. CASE map = NoMap /\ map \notin Maps
  BY <1>2 DEF NoMap
<1> QED BY <1>1, <1>2

LEMMA NoneYet ==
    ASSUME QuantInv, ~Active
    PROVE  ~pass.on /\ ~master.dummy /\ shown.index = <<>>
<1>1. ~pass.on
  BY DEF QuantInv, QuantType, PassType
<1>2. ~master.dummy
  BY DEF QuantInv, FirstPass, Active
<1>3. shown.index = <<>>
  BY <1>1 DEF QuantInv, MappingReady, Mapping
<1> QED BY <1>1, <1>2, <1>3

LEMMA IdleNow ==
    ASSUME QuantInv, Idle
    PROVE  ~pass.on /\ ~master.dummy /\ shown.index = <<>> /\ Active
<1>1. ~pass.on /\ ~master.dummy /\ Active
  BY DEF Idle, Active
<1>2. shown.index = <<>>
  BY <1>1 DEF QuantInv, MappingReady, Mapping
<1> QED BY <1>1, <1>2

\* What quantizers are made of: for an application that begins.
LEMMA StartKeeps ==
    ASSUME QuantInv, NEW a \in [buffered : BOOLEAN, two_pass : BOOLEAN, dither : DitherModes, map : Seq(Vectors),
                                desired : Int, enabled : SUBSET Methods],
           a.desired = Desired, Start_decompress(a)
    PROVE  QuantInv'
<1> DEFINE enabled == (IF a.buffered THEN a.enabled ELSE {}) \cup {Method(a)}
           makes1  == "1pass" \in enabled
           makes2  == enabled \cap {"2pass", "external"} # {}
           refused == (makes1 /\ Refuses1pass) \/ ("2pass" \in enabled /\ Refuses2pass)
           began   == [a EXCEPT !.enabled = enabled,
                                !.dither = IF makes2 THEN TwoPassDither(@) ELSE @]
<1>1. /\ master.quantizer = "none"
      /\ IF refused THEN Fails /\ UNCHANGED <<app, one>>
         ELSE /\ one' = IF makes1 THEN Jinit_1pass(a) ELSE one
              /\ app' = began
              /\ master' = [master EXCEPT !.quantizer = IF makes2 THEN "2pass" ELSE "1pass"]
      /\ two' = two /\ fs' = fs /\ pass' = pass /\ shown' = shown
  BY DEF Start_decompress
<1>2. ~pass.on /\ ~master.dummy /\ shown.index = <<>> /\ QuantType /\ two.needs_zeroed /\ ~Active
  <2>1. ~Active
    BY <1>1 DEF Active
  <2>2. two.needs_zeroed
    BY <1>1 DEF QuantInv, QuantizersMade
  <2> QED BY <2>1, <2>2, NoneYet DEF QuantInv
<1>3. enabled \in SUBSET Methods
  BY DEF Method, Methods
<1>4. Method(a) \in enabled /\ (~makes2 => makes1)
  BY DEF Method
<1>13. began = [a EXCEPT !.enabled = enabled, !.dither = IF makes2 THEN TwoPassDither(a.dither) ELSE a.dither]
  OBVIOUS
<1> HIDE DEF enabled
<1>5. AppType'
  <2>1. CASE refused
    BY <1>1, <1>2, <2>1 DEF QuantType, AppType
  <2>2. CASE ~refused
    <3>1. TwoPassDither(a.dither) \in DitherModes
      BY DEF TwoPassDither, DitherModes
    <3> DEFINE d == IF makes2 THEN TwoPassDither(a.dither) ELSE a.dither
    <3>2. d \in DitherModes
      BY <3>1
    <3> HIDE DEF d
    <3>3. app' = [a EXCEPT !.enabled = enabled, !.dither = d]
      BY <1>1, <1>13, <2>2 DEF d
    <3> QED BY <1>3, <3>2, <3>3 DEF AppType
  <2> QED BY <2>1, <2>2
<1>6. MasterType' /\ master'.dummy = FALSE /\ master'.quantizer # "none"
      /\ (~refused => master'.quantizer = IF makes2 THEN "2pass" ELSE "1pass")
      /\ (refused => ~Active')
  <2>1. CASE refused
    BY <1>1, <1>2, <2>1 DEF QuantType, MasterType, Fails, Active
  <2>2. CASE ~refused
    BY <1>1, <1>2, <2>2 DEF QuantType, MasterType
  <2> QED BY <2>1, <2>2
<1>7. Desired \in Int
  BY <1>2 DEF QuantType, AppType, Desired
<1>8. ~refused /\ makes1 => IsCounts(Select_ncolors)
  BY <1>7, CountsRight DEF Refuses1pass
<1>9. /\ OneType'
      /\ ~refused /\ makes1 => IsCounts(one'.ncolors) /\ one'.map = Create_colormap(one'.ncolors)
  <2>1. CASE ~refused /\ makes1
    <3>1. one' = [one EXCEPT !.ncolors = Select_ncolors, !.map = Create_colormap(Select_ncolors),
                             !.padded = (a.dither = "ORDERED")]
      BY <1>1, <2>1 DEF Jinit_1pass
    <3> DEFINE n == Select_ncolors
               m == Create_colormap(n)
               o == (a.dither = "ORDERED")
    <3>2. n \in [Axes -> Nat] /\ m \in Seq(Vectors) /\ o \in BOOLEAN /\ IsCounts(n)
      BY <1>8, <2>1, OnePassMap DEF IsCounts, IsMap
    <3>3. one' = [one EXCEPT !.ncolors = n, !.map = m, !.padded = o]
      BY <3>1
    <3> HIDE DEF n, m, o
    <3>4. OneType' /\ one'.ncolors = n /\ one'.map = m
      BY <1>2, <3>2, <3>3 DEF QuantType, OneType
    <3> QED BY <3>2, <3>4 DEF m
  <2>2. CASE ~(~refused /\ makes1)
    <3>1. one' = one
      BY <1>1, <2>2
    <3> QED BY <1>2, <2>2, <3>1 DEF QuantType, OneType
  <2> QED BY <2>1, <2>2
<1>10. TwoType' /\ PassType'
  BY <1>1, <1>2 DEF QuantType, TwoType, PassType
<1>11. QuantizersMade'
  <2>1. CASE refused
    BY <1>6, <2>1 DEF QuantizersMade, Active
  <2>2. CASE ~refused
    <3>1. app'.enabled = enabled /\ app'.desired = a.desired
      BY <1>1, <1>13, <2>2
    <3>2. master'.quantizer = "1pass" => "1pass" \in app'.enabled
      BY <1>4, <1>6, <2>2, <3>1
    <3>3. "1pass" \in app'.enabled => IsCounts(one'.ncolors) /\ one'.map = Create_colormap(one'.ncolors)
      BY <1>9, <2>2, <3>1
    <3>4. "2pass" \in app'.enabled => app'.desired >= 1
      <4> DEFINE d == Desired
      <4>1. "2pass" \in app'.enabled => ~(d < FewestColors)
        BY <2>2, <3>1 DEF Refuses2pass
      <4>2. d \in Int /\ FewestColors \in Nat \ {0} /\ app'.desired = d
        BY <1>7, <3>1, QuantAssumption
      <4> HIDE DEF d
      <4> QED BY <4>1, <4>2
    <3> QED BY <1>6, <3>2, <3>3, <3>4 DEF QuantizersMade, Desired
  <2> QED BY <2>1, <2>2
<1>12. FirstPass' /\ MappingReady' /\ ColorsMapped'
  <2>1. pass'.on = FALSE /\ shown'.index = <<>>
    BY <1>1, <1>2 DEF QuantType, PassType
  <2>2. ColorsMapped'
    BY <1>6, <2>1, NothingShown
  <2> QED BY <1>6, <2>1, <2>2 DEF FirstPass, MappingReady, Mapping
<1>14. CacheRight'
  BY <1>1, <1>2 DEF CacheRight
<1> QED BY <1>5, <1>6, <1>9, <1>10, <1>11, <1>12, <1>14 DEF QuantInv, QuantType

\* The parts of the invariant, for the proofs of its steps.
LEMMA FromInv ==
    ASSUME QuantInv
    PROVE  /\ AppType /\ MasterType /\ OneType /\ TwoType /\ PassType
           /\ QuantizersMade /\ FirstPass /\ MappingReady /\ CacheRight /\ ColorsMapped
BY DEF QuantInv, QuantType

LEMMA PictureRows ==
    ASSUME NEW picture \in Pictures
    PROVE  Len(picture) \in Nat /\ Len(picture) >= 1
<1>1. picture \in Seq(Seq(Colours)) /\ picture # <<>>
  BY QuantAssumption
<1> QED BY <1>1

\* The start of a pass that counts or maps, of the two-pass quantizer.
LEMMA Pass2Ready ==
    ASSUME AppType, TwoType, NEW picture, NEW prescan \in BOOLEAN, Start_pass_2(picture, prescan)
    PROVE  /\ AppType' /\ TwoType' /\ one' = one
           /\ app'.map = app.map /\ app'.enabled = app.enabled /\ app'.desired = app.desired
           /\ ~two'.needs_zeroed
           /\ ~prescan /\ app'.dither = "FS" => fs' \in RowErrors(Len(picture[1]))
           /\ IF prescan \/ two.needs_zeroed THEN two'.cells = NoCells ELSE two' = two
<1> DEFINE d == TwoPassDither(app.dither)
<1>1. /\ app' = [app EXCEPT !.dither = d]
      /\ fs' = IF ~prescan /\ app'.dither = "FS" THEN NoFs(Len(picture[1])) ELSE fs
      /\ two' = IF prescan \/ two.needs_zeroed THEN [two EXCEPT !.cells = NoCells, !.needs_zeroed = FALSE]
                ELSE two
      /\ one' = one
  BY DEF Start_pass_2
<1>2. d \in DitherModes
  BY DEF TwoPassDither, DitherModes
<1> HIDE DEF d
<1>3. AppType' /\ app'.map = app.map /\ app'.enabled = app.enabled /\ app'.desired = app.desired
  BY <1>1, <1>2 DEF AppType
<1>4. TwoType' /\ ~two'.needs_zeroed
      /\ IF prescan \/ two.needs_zeroed THEN two'.cells = NoCells ELSE two' = two
  <2>1. CASE prescan \/ two.needs_zeroed
    <3> DEFINE n == NoCells
    <3>1. n \in [Cells -> Nat]
      BY NoCellsType
    <3>2. two' = [two EXCEPT !.cells = n, !.needs_zeroed = FALSE]
      BY <1>1, <2>1
    <3> HIDE DEF n
    <3>3. TwoType' /\ ~two'.needs_zeroed /\ two'.cells = n
      BY <3>1, <3>2 DEF TwoType
    <3> QED BY <2>1, <3>3 DEF n
  <2>2. CASE ~(prescan \/ two.needs_zeroed)
    BY <1>1, <2>2 DEF TwoType
  <2> QED BY <2>1, <2>2
<1>5. ~prescan /\ app'.dither = "FS" => fs' \in RowErrors(Len(picture[1]))
  BY <1>1, NoFsType
<1> QED BY <1>1, <1>3, <1>4, <1>5

LEMMA NoCellsHeld ==
    ASSUME NEW map
    PROVE  NearestHeld(NoCells, map)
BY NoCellsType DEF NearestHeld

LEMMA BeginKeeps ==
    ASSUME QuantInv, NEW picture \in Pictures, Begin_pass(picture)
    PROVE  QuantInv'
<1> DEFINE picks2 == app.map = NoMap /\ app.two_pass /\ "2pass" \in app.enabled
           which  == IF app.map # NoMap THEN master.quantizer
                     ELSE IF picks2 THEN "2pass" ELSE "1pass"
           fails  == \/ app.map = NoMap /\ ~picks2 /\ "1pass" \notin app.enabled
                     \/ which = "2pass" /\ ~picks2 /\ Len(app.map) > MAXNUMCOLORS
<1>0. /\ AppType /\ MasterType /\ OneType /\ TwoType /\ PassType
      /\ QuantizersMade /\ FirstPass /\ MappingReady /\ CacheRight /\ ColorsMapped
  BY FromInv
<1>1. /\ Idle
      /\ IF fails THEN Fails /\ UNCHANGED <<app, one, two, fs, pass>>
         ELSE /\ master' = [quantizer |-> which, dummy |-> picks2, passes |-> master.passes + 1]
              /\ pass' = [on |-> TRUE, prescan |-> picks2, picture |-> picture, row |-> 0]
              /\ IF which = "1pass" THEN Start_pass_1(picture) ELSE Start_pass_2(picture, picks2)
      /\ shown' = NoRow
  BY DEF Begin_pass
<1>2. ~pass.on /\ ~master.dummy /\ Active
  BY <1>1, IdleNow
<1>3. shown'.index = <<>>
  BY <1>1, NoRowShown
<1>10. picks2 \in BOOLEAN /\ which \in {"1pass", "2pass"}
  BY <1>2 DEF Active
<1>11. picks2 => which = "2pass" /\ app.map = NoMap /\ "2pass" \in app.enabled
  OBVIOUS
<1>12. which = "2pass" /\ ~picks2 => app.map # NoMap /\ master.quantizer = "2pass"
  OBVIOUS
<1>13. ~fails /\ which = "1pass" => "1pass" \in app.enabled
  BY <1>0 DEF QuantizersMade
<1>14. which = "1pass" => ~picks2
  OBVIOUS
<1> HIDE DEF picks2, which
<1>4. CASE fails
  <2>1. app' = app /\ one' = one /\ two' = two /\ fs' = fs /\ pass' = pass /\ Fails
    BY <1>1, <1>4
  <2> HIDE DEF fails
  <2>2. MasterType' /\ master'.quantizer = "error" /\ ~master'.dummy
    BY <1>0, <1>2, <2>1 DEF MasterType, Fails
  <2>3. AppType' /\ OneType' /\ TwoType' /\ PassType'
    BY <1>0, <1>2, <2>1 DEF AppType, OneType, TwoType, PassType
  <2>4. QuantizersMade'
    BY <2>2 DEF QuantizersMade, Active
  <2>5. FirstPass' /\ MappingReady' /\ CacheRight'
    BY <1>2, <1>3, <2>1, <2>2 DEF FirstPass, MappingReady, Mapping, CacheRight
  <2>6. ColorsMapped'
    BY <1>3, <2>2, NothingShown
  <2> QED BY <2>2, <2>3, <2>4, <2>5, <2>6 DEF QuantInv, QuantType
<1>5. CASE ~fails
  <2>1. /\ master' = [quantizer |-> which, dummy |-> picks2, passes |-> master.passes + 1]
        /\ pass' = [on |-> TRUE, prescan |-> picks2, picture |-> picture, row |-> 0]
        /\ IF which = "1pass" THEN Start_pass_1(picture) ELSE Start_pass_2(picture, picks2)
    BY <1>1, <1>5
  <2>15. which = "1pass" => "1pass" \in app.enabled
    BY <1>5, <1>13
  <2> HIDE DEF fails
  <2>2. MasterType' /\ master'.quantizer = which /\ master'.dummy = picks2 /\ Active'
    <3>1. master.passes + 1 \in Nat
      BY <1>0 DEF MasterType
    <3> QED BY <1>10, <2>1, <3>1 DEF MasterType, Active
  <2>3. /\ PassType' /\ pass'.on /\ pass'.prescan = picks2 /\ pass'.picture = picture /\ pass'.row = 0
    <3>1. Len(picture) \in Nat /\ Len(picture) >= 1
      BY PictureRows
    <3>2. pass'.on = TRUE /\ pass'.prescan = picks2 /\ pass'.picture = picture /\ pass'.row = 0
      BY <2>1
    <3>3. pass' \in [on : BOOLEAN, prescan : BOOLEAN, picture : Pictures \cup {<<>>}, row : Nat]
      BY <1>10, <2>1
    <3>4. 0 <= Len(picture)
      BY <3>1
    <3> QED BY <2>2, <3>2, <3>3, <3>4 DEF PassType
  <2>4. ColorsMapped'
    BY <1>3, <2>3, NothingShown
  <2>5. CASE which = "1pass"
    <3> DEFINE m == one.map
               o == one.padded \/ app.dither = "ORDERED"
    <3>1. /\ app' = [app EXCEPT !.map = m]
          /\ one' = [one EXCEPT !.row_index = 0, !.padded = o]
          /\ fs' = IF app.dither = "FS" THEN NoFs(Len(picture[1])) ELSE fs
          /\ two' = two
      BY <2>1, <2>5 DEF Start_pass_1
    <3>2. IsCounts(one.ncolors) /\ m = Create_colormap(one.ncolors) /\ IsMap(m)
      <4>1. IsCounts(one.ncolors) /\ m = Create_colormap(one.ncolors)
        BY <1>0, <1>2, <2>5, <2>15 DEF QuantizersMade
      <4> QED BY <4>1, OnePassMap
    <3>3. m \in Seq(Vectors) /\ m # NoMap /\ o \in BOOLEAN /\ 0 \in 0..(DitherSide - 1)
      <4>1. 0 \in 0..(DitherSide - 1)
        BY QuantAssumption
      <4> QED BY <3>2, <4>1 DEF IsMap, NoMap
    <3>16. m = one.map /\ (app.dither = "ORDERED" => o)
      BY <1>0 DEF OneType
    <3> HIDE DEF m, o
    <3>4. /\ AppType' /\ app'.map = m /\ app'.enabled = app.enabled /\ app'.desired = app.desired
          /\ app'.dither = app.dither
      BY <1>0, <3>1, <3>3 DEF AppType
    <3>5. OneType' /\ one'.ncolors = one.ncolors /\ one'.map = one.map /\ one'.padded = o
      BY <1>0, <3>1, <3>3 DEF OneType
    <3>6. TwoType'
      BY <1>0, <3>1 DEF TwoType
    <3>7. QuantizersMade'
      <4>1. app'.enabled = app.enabled /\ app'.desired >= 1 <=> app.desired >= 1
        BY <3>4
      <4>2. "2pass" \in app.enabled => Desired >= 1
        BY <1>0, <1>2 DEF QuantizersMade
      <4> QED BY <2>2, <2>5, <2>15, <3>2, <3>4, <3>5, <4>2, <3>16 DEF QuantizersMade, Desired
    <3>8. FirstPass'
      BY <1>14, <2>2, <2>3, <2>5 DEF FirstPass
    <3>9. MappingReady'
      <4>1. app'.map # NoMap /\ app'.map = one'.map /\ (app'.dither = "ORDERED" => one'.padded)
        BY <3>3, <3>4, <3>5, <3>16
      <4>2. app'.dither = "FS" => fs' \in RowErrors(Len(pass'.picture[1]))
        BY <2>3, <3>1, <3>4, NoFsType
      <4>3. Mapping'
        BY <1>14, <2>3, <2>5 DEF Mapping
      <4>4. master'.quantizer = "1pass"
        BY <2>2, <2>5
      <4> QED BY <4>1, <4>2, <4>3, <4>4 DEF MappingReady
    <3>10. CacheRight'
      BY <2>2, <2>5 DEF CacheRight
    <3> QED BY <2>2, <2>3, <2>4, <3>4, <3>5, <3>6, <3>7, <3>8, <3>9, <3>10 DEF QuantInv, QuantType
  <2>6. CASE which = "2pass"
    <3>1. Start_pass_2(picture, picks2)
      BY <2>1, <2>6
    <3>2. /\ AppType' /\ TwoType' /\ one' = one
          /\ app'.map = app.map /\ app'.enabled = app.enabled /\ app'.desired = app.desired
          /\ ~two'.needs_zeroed
          /\ ~picks2 /\ app'.dither = "FS" => fs' \in RowErrors(Len(picture[1]))
          /\ IF picks2 \/ two.needs_zeroed THEN two'.cells = NoCells ELSE two' = two
      BY <1>0, <1>10, <3>1, Pass2Ready
    <3>3. OneType'
      BY <1>0, <3>2 DEF OneType
    <3>4. QuantizersMade'
      BY <1>0, <1>2, <2>2, <2>6, <3>2 DEF QuantizersMade, Desired, Active
    <3>5. FirstPass'
      BY <1>11, <2>2, <2>3, <2>6, <3>2 DEF FirstPass
    <3>6. MappingReady'
      <4>1. CASE picks2
        BY <1>3, <2>3, <4>1 DEF MappingReady, Mapping
      <4>2. CASE ~picks2
        <5>1. app'.map # NoMap
          BY <1>12, <2>6, <3>2, <4>2
        <5>2. app'.dither = "FS" => fs' \in RowErrors(Len(pass'.picture[1]))
          BY <2>3, <3>2, <4>2
        <5>3. Mapping'
          BY <2>3, <4>2 DEF Mapping
        <5> QED BY <2>2, <2>6, <3>2, <5>1, <5>2, <5>3 DEF MappingReady
      <4> QED BY <4>1, <4>2
    <3>7. CacheRight'
      <4>1. CASE two'.cells = NoCells
        BY <4>1, NoCellsHeld DEF CacheRight
      <4>2. CASE ~picks2 /\ ~two.needs_zeroed
        BY <1>0, <1>12, <2>6, <3>2, <4>2 DEF CacheRight
      <4> QED BY <3>2, <4>1, <4>2
    <3> QED BY <2>2, <2>3, <2>4, <3>2, <3>3, <3>4, <3>5, <3>6, <3>7 DEF QuantInv, QuantType
  <2> QED BY <1>10, <2>5, <2>6
<1> QED BY <1>4, <1>5

LEMMA SecondKeeps ==
    ASSUME QuantInv, Second_pass
    PROVE  QuantInv'
<1>0. /\ AppType /\ MasterType /\ OneType /\ TwoType /\ PassType
      /\ QuantizersMade /\ FirstPass /\ MappingReady /\ CacheRight /\ ColorsMapped
  BY FromInv
<1>1. /\ master.dummy /\ ~pass.on
      /\ master' = [master EXCEPT !.dummy = FALSE]
      /\ pass' = [pass EXCEPT !.on = TRUE, !.prescan = FALSE, !.row = 0]
      /\ Start_pass_2(pass.picture, FALSE)
      /\ shown' = shown
  BY DEF Second_pass
<1>2. master.quantizer = "2pass" /\ "2pass" \in app.enabled /\ pass.picture \in Pictures /\ app.map # NoMap
  BY <1>0, <1>1 DEF FirstPass
<1>3. shown'.index = <<>>
  BY <1>0, <1>1 DEF MappingReady, Mapping
<1>4. MasterType' /\ master'.quantizer = "2pass" /\ ~master'.dummy /\ Active' /\ Active
  BY <1>0, <1>1, <1>2 DEF MasterType, Active
<1>5. /\ pass' \in [on : BOOLEAN, prescan : BOOLEAN, picture : Pictures \cup {<<>>}, row : Nat]
      /\ pass'.on /\ ~pass'.prescan /\ pass'.picture = pass.picture /\ pass'.row = 0
  BY <1>0, <1>1 DEF PassType
<1>6. PassType'
  <2>1. Len(pass.picture) \in Nat
    BY <1>2, PictureRows
  <2>2. 0 <= Len(pass.picture)
    BY <2>1
  <2> QED BY <1>2, <1>4, <1>5, <2>2 DEF PassType
<1>7. /\ AppType' /\ TwoType' /\ one' = one
      /\ app'.map = app.map /\ app'.enabled = app.enabled /\ app'.desired = app.desired
      /\ ~two'.needs_zeroed
      /\ app'.dither = "FS" => fs' \in RowErrors(Len(pass'.picture[1]))
      /\ IF two.needs_zeroed THEN two'.cells = NoCells ELSE two' = two
  <2>1. FALSE \in BOOLEAN
    OBVIOUS
  <2>2. /\ AppType' /\ TwoType' /\ one' = one
        /\ app'.map = app.map /\ app'.enabled = app.enabled /\ app'.desired = app.desired
        /\ ~two'.needs_zeroed
        /\ ~FALSE /\ app'.dither = "FS" => fs' \in RowErrors(Len(pass'.picture[1]))
        /\ IF FALSE \/ two.needs_zeroed THEN two'.cells = NoCells ELSE two' = two
    BY <1>0, <1>1, <1>5, <2>1, Pass2Ready
  <2> QED BY <2>2
<1>8. OneType'
  BY <1>0, <1>7 DEF OneType
<1>9. QuantizersMade'
  BY <1>0, <1>4, <1>7 DEF QuantizersMade, Desired
<1>10. FirstPass'
  BY <1>4, <1>5 DEF FirstPass
<1>11. MappingReady'
  <2>1. Mapping'
    BY <1>5 DEF Mapping
  <2> QED BY <1>2, <1>4, <1>7, <2>1 DEF MappingReady
<1>12. CacheRight'
  <2>1. CASE two.needs_zeroed
    BY <1>7, <2>1, NoCellsHeld DEF CacheRight
  <2>2. CASE ~two.needs_zeroed
    BY <1>0, <1>2, <1>7, <2>2 DEF CacheRight
  <2> QED BY <2>1, <2>2
<1>13. ColorsMapped'
  BY <1>3, <1>5, NothingShown
<1> QED BY <1>4, <1>6, <1>7, <1>8, <1>9, <1>10, <1>11, <1>12, <1>13 DEF QuantInv, QuantType

LEMMA CountedRight ==
    ASSUME NEW cells \in [Cells -> Nat], NEW row \in Seq(Colours), row # <<>>
    PROVE  /\ Counted(cells, row) \in [Cells -> Nat]
           /\ \E c \in Cells : Counted(cells, row)[c] # 0
<1> DEFINE Here(c) == {x \in DOMAIN row : CellOf(row[x]) = c}
           n(c) == Cardinality(Here(c))
           counted == Counted(cells, row)
<1>1. counted = [c \in Cells |-> Min({CountLimit, cells[c] + n(c)})]
  BY DEF Counted
<1>2. \A c \in Cells : IsFiniteSet(Here(c)) /\ n(c) \in Nat /\ (Here(c) # {} => n(c) # 0)
  <2> TAKE c \in Cells
  <2>1. IsFiniteSet(DOMAIN row)
    <3>1. DOMAIN row = 1..Len(row) /\ Len(row) \in Int
      OBVIOUS
    <3> QED BY <3>1, FS_Interval
  <2>2. Here(c) \in SUBSET DOMAIN row
    OBVIOUS
  <2> HIDE DEF Here
  <2>3. IsFiniteSet(Here(c))
    BY <2>1, <2>2, FS_Subset
  <2> QED BY <2>3, FS_CardinalityType, FS_EmptySet
<1>3. CellOf(row[1]) \in Cells /\ 1 \in Here(CellOf(row[1]))
  <2>1. 1 \in DOMAIN row /\ row[1] \in Colours
    OBVIOUS
  <2> QED BY <2>1, CellOfColour
<1> HIDE DEF Here, counted
<1>4. \A c \in Cells : /\ Min({CountLimit, cells[c] + n(c)}) \in Nat
                       /\ n(c) # 0 => Min({CountLimit, cells[c] + n(c)}) # 0
  <2> TAKE c \in Cells
  <2> DEFINE a == CountLimit
             b == cells[c] + n(c)
             S == {a, b}
  <2>1. cells[c] \in Nat /\ n(c) \in Nat
    BY <1>2
  <2>2. a \in Nat /\ a # 0
    BY QuantAssumption
  <2>3. b \in Nat /\ (n(c) # 0 => b # 0)
    <3> HIDE DEF n
    <3> QED BY <2>1
  <2> HIDE DEF a, b
  <2>4. S \subseteq Nat /\ S # {}
    BY <2>2, <2>3
  <2> HIDE DEF S
  <2>5. Min(S) \in S
    BY <2>4, MinOfNat
  <2>6. Min(S) = a \/ Min(S) = b
    BY <2>5 DEF S
  <2>7. Min(S) \in Nat /\ (n(c) # 0 => Min(S) # 0)
    <3> HIDE DEF n
    <3> QED BY <2>2, <2>3, <2>6
  <2> QED BY <2>7 DEF S, a, b
<1> HIDE DEF n
<1>5. counted \in [Cells -> Nat]
  BY <1>1, <1>4
<1>6. \E c \in Cells : counted[c] # 0
  BY <1>1, <1>2, <1>3, <1>4
<1> QED BY <1>5, <1>6 DEF counted

LEMMA PrescanKeeps ==
    ASSUME QuantInv, Prescan_quantize
    PROVE  QuantInv'
<1>0. /\ AppType /\ MasterType /\ OneType /\ TwoType /\ PassType
      /\ QuantizersMade /\ FirstPass /\ MappingReady /\ CacheRight /\ ColorsMapped
  BY FromInv
<1> DEFINE counted == Counted(two.cells, CurrentRow)
           r == pass.row + 1
<1>1. /\ MoreRows /\ pass.prescan
      /\ two' = [two EXCEPT !.cells = counted]
      /\ pass' = [pass EXCEPT !.row = r]
      /\ app' = app /\ master' = master /\ one' = one /\ fs' = fs /\ shown' = shown
  BY DEF Prescan_quantize
<1>2. pass.on /\ master.dummy /\ shown.index = <<>>
  BY <1>0, <1>1 DEF MoreRows, FirstPass, MappingReady, Mapping
<1>3. counted \in [Cells -> Nat] /\ \E c \in Cells : counted[c] # 0
  <2>1. two.cells \in [Cells -> Nat]
    BY <1>0 DEF TwoType
  <2>2. CurrentRow \in Seq(Colours) /\ CurrentRow # <<>>
    BY <1>0, <1>1, RowRight DEF QuantType
  <2> QED BY <2>1, <2>2, CountedRight
<1>4. r \in Nat /\ r <= Len(pass.picture)
  <2>1. pass.row + 1 <= Len(pass.picture) /\ pass.row \in Nat
    BY <1>0, <1>1, RowRight DEF QuantType
  <2> QED BY <2>1
<1> HIDE DEF counted, r
<1>5. TwoType' /\ two'.cells = counted
  BY <1>0, <1>1, <1>3 DEF TwoType
<1>6. /\ PassType' /\ pass'.on /\ pass'.prescan /\ pass'.picture = pass.picture
  BY <1>0, <1>1, <1>2, <1>4 DEF PassType, Active
<1>7. AppType' /\ MasterType' /\ OneType' /\ QuantizersMade'
  <2>1. two'.needs_zeroed = two.needs_zeroed
    BY <1>0, <1>1 DEF TwoType
  <2> QED BY <1>0, <1>1, <2>1 DEF AppType, MasterType, OneType, QuantizersMade, Active, Desired
<1>8. FirstPass'
  BY <1>0, <1>1, <1>2, <1>3, <1>5, <1>6 DEF FirstPass
<1>9. MappingReady'
  BY <1>1, <1>2, <1>6 DEF MappingReady, Mapping
<1>10. CacheRight'
  BY <1>0, <1>1, <1>2 DEF CacheRight, FirstPass
<1>11. ColorsMapped'
  BY <1>1, <1>2, <1>6, NothingShown
<1> QED BY <1>5, <1>6, <1>7, <1>8, <1>9, <1>10, <1>11 DEF QuantInv, QuantType

\* What a row that is mapped leaves as it was keeps what it should.
LEMMA RowKeeps ==
    ASSUME QuantInv, MoreRows, ~pass.prescan, pass' = [pass EXCEPT !.row = @ + 1],
           app' = app, master' = master,
           OneType', one'.ncolors = one.ncolors, one'.map = one.map, one'.padded = one.padded,
           TwoType', two'.needs_zeroed = two.needs_zeroed,
           app.dither = "FS" => fs' \in RowErrors(Len(pass.picture[1])),
           master.quantizer = "2pass" => NearestHeld(two'.cells, app.map),
           NearestEntry', ErrorsSpread'
    PROVE  QuantInv'
<1>0. /\ AppType /\ MasterType /\ OneType /\ TwoType /\ PassType
      /\ QuantizersMade /\ FirstPass /\ MappingReady /\ CacheRight /\ ColorsMapped
  BY FromInv
<1> DEFINE r == pass.row + 1
<1>1. pass' = [pass EXCEPT !.row = r]
  OBVIOUS
<1>2. r \in Nat /\ r <= Len(pass.picture)
  <2>1. pass.row + 1 <= Len(pass.picture) /\ pass.row \in Nat
    BY <1>0, RowRight DEF QuantType
  <2> QED BY <2>1
<1> HIDE DEF r
<1>3. pass.on /\ Mapping /\ ~master.dummy
  BY <1>0 DEF MoreRows, Mapping, FirstPass
<1>4. PassType' /\ pass'.on /\ ~pass'.prescan /\ pass'.picture = pass.picture
  BY <1>0, <1>1, <1>2, <1>3 DEF PassType, Active
<1>5. AppType' /\ MasterType' /\ QuantizersMade'
  BY <1>0 DEF AppType, MasterType, QuantizersMade, Active, Desired
<1>6. FirstPass'
  BY <1>3, <1>4 DEF FirstPass
<1>7. MappingReady'
  BY <1>0, <1>3, <1>4 DEF MappingReady, Mapping
<1>8. CacheRight'
  BY DEF CacheRight
<1>9. ColorsMapped'
  <2>1. BoxesPartition'
    BY <1>3 DEF BoxesPartition
  <2> QED BY <2>1 DEF ColorsMapped
<1> QED BY <1>4, <1>5, <1>6, <1>7, <1>8, <1>9 DEF QuantInv, QuantType

\* The nearest entry of a row is the nearest entry.
LEMMA NearestShown ==
    ASSUME app' = app, master' = master, master.quantizer = "2pass",
           \A x \in DOMAIN shown'.index : Nearest(app.map, shown'.index[x], CellOf(shown'.seen[x]))
    PROVE  NearestEntry'
<1>1. ASSUME NEW x \in DOMAIN shown'.index
      PROVE  /\ shown'.index[x] \in DOMAIN app'.map
             /\ \A j \in DOMAIN app'.map :
                   Distance(app'.map[shown'.index[x]], Centre(CellOf(shown'.seen[x])))
                      <= Distance(app'.map[j], Centre(CellOf(shown'.seen[x])))
  BY DEF Nearest
<1> QED BY <1>1 DEF NearestEntry

\* So is one in each component, but for one.
LEMMA ValueShown ==
    ASSUME app' = app, master' = master, master.quantizer = "1pass",
           IsCounts(one.ncolors), app.map = Create_colormap(one.ncolors),
           \A x \in DOMAIN shown'.index : /\ shown'.seen[x] \in Vectors
                                          /\ shown'.index[x] = Colorindex(one.ncolors, shown'.seen[x])
    PROVE  NearestEntry'
<1> DEFINE n == one.ncolors
           m == app.map
<1>1. ASSUME NEW x \in DOMAIN shown'.index
      PROVE  /\ shown'.index[x] \in DOMAIN m
             /\ \A i \in Axes, j \in DOMAIN m :
                   Abs(m[shown'.index[x]][i] - Clamp(shown'.seen[x][i])) <= Abs(m[j][i] - Clamp(shown'.seen[x][i])) + 1
  <2> DEFINE s == shown'.seen[x]
  <2>1. s \in Vectors /\ shown'.index[x] = Colorindex(n, s) /\ IsCounts(n) /\ m = Create_colormap(n)
    OBVIOUS
  <2> HIDE DEF s, n, m
  <2>2. /\ Colorindex(n, s) \in DOMAIN Create_colormap(n)
        /\ \A i \in Axes, j \in DOMAIN Create_colormap(n) :
              Abs(Create_colormap(n)[Colorindex(n, s)][i] - Clamp(s[i]))
                 <= Abs(Create_colormap(n)[j][i] - Clamp(s[i])) + 1
    BY <2>1, ColorindexRight
  <2> QED BY <2>1, <2>2 DEF s
<1>2. m = app'.map /\ master'.quantizer = "1pass"
  OBVIOUS
<1> HIDE DEF m
<1> QED BY <1>1, <1>2 DEF NearestEntry

LEMMA NotSpread ==
    ASSUME app' = app, app.dither # "FS"
    PROVE  ErrorsSpread'
BY DEF ErrorsSpread

\* What mapping has at hand.
LEMMA MappingHas ==
    ASSUME QuantInv, MoreRows, ~pass.prescan
    PROVE  /\ IsMap(app.map)
           /\ master.quantizer \in {"1pass", "2pass"}
           /\ master.quantizer = "1pass" =>
                 /\ IsCounts(one.ncolors) /\ one.map = Create_colormap(one.ncolors) /\ app.map = one.map
                 /\ app.dither = "ORDERED" => one.padded
           /\ master.quantizer = "2pass" => NearestHeld(two.cells, app.map)
           /\ app.dither = "FS" => fs \in RowErrors(Len(pass.picture[1]))
<1>0. /\ AppType /\ MasterType /\ OneType /\ TwoType /\ PassType
      /\ QuantizersMade /\ FirstPass /\ MappingReady /\ CacheRight /\ ColorsMapped
  BY FromInv
<1>1. pass.on /\ Mapping
  BY DEF MoreRows, Mapping
<1>2. Active
  BY <1>0, <1>1 DEF PassType
<1>3. IsMap(app.map)
  BY <1>0, <1>1 DEF AppType, MappingReady, IsMap, NoMap
<1> QED BY <1>0, <1>1, <1>2, <1>3 DEF QuantizersMade, MappingReady, CacheRight, Active

LEMMA NoDitherKeeps ==
    ASSUME QuantInv, Pass2_no_dither
    PROVE  QuantInv'
<1>0. /\ AppType /\ MasterType /\ OneType /\ TwoType /\ PassType
      /\ QuantizersMade /\ FirstPass /\ MappingReady /\ CacheRight /\ ColorsMapped
  BY FromInv
<1> DEFINE row == CurrentRow
           V == {CellOf(c) : c \in ToSet(CurrentRow)}
           filled == Fill_inverse_cmap(two.cells, app.map, V)
<1>1. /\ MoreRows /\ ~pass.prescan /\ master.quantizer = "2pass" /\ app.dither = "NONE"
      /\ two' = [two EXCEPT !.cells = filled]
      /\ shown' = [seen |-> row, before |-> fs, index |-> [x \in DOMAIN row |-> two'.cells[CellOf(row[x])]]]
      /\ pass' = [pass EXCEPT !.row = @ + 1]
      /\ app' = app /\ master' = master /\ one' = one /\ fs' = fs
  BY DEF Pass2_no_dither
<1>2. row \in Seq(Colours)
  BY <1>0, <1>1, RowRight DEF QuantType
<1>3. \A x \in DOMAIN row : CellOf(row[x]) \in V /\ CellOf(row[x]) \in Cells
  <2> TAKE x \in DOMAIN row
  <2>1. row[x] \in Colours /\ row[x] \in ToSet(CurrentRow)
    BY <1>2 DEF ToSet
  <2> QED BY <2>1, CellOfColour
<1>4. V \subseteq Cells
  <2>1. \A c \in ToSet(CurrentRow) : c \in Colours
    BY <1>2 DEF ToSet
  <2> QED BY <2>1, CellOfColour
<1> HIDE DEF V, row
<1>5. two.cells \in [Cells -> Nat] /\ IsMap(app.map) /\ NearestHeld(two.cells, app.map)
  BY <1>0, <1>1, MappingHas DEF TwoType
<1>6. /\ filled \in [Cells -> Nat] /\ NearestHeld(filled, app.map)
      /\ \A c \in V : Nearest(app.map, filled[c], c)
  BY <1>4, <1>5, FillRight
<1> HIDE DEF filled
<1>7. TwoType' /\ two'.cells = filled /\ two'.needs_zeroed = two.needs_zeroed
  BY <1>0, <1>1, <1>6 DEF TwoType
<1>8. shown'.seen = row /\ shown'.index = [x \in DOMAIN row |-> filled[CellOf(row[x])]]
  BY <1>1, <1>7
<1>9. \A x \in DOMAIN shown'.index : Nearest(app.map, shown'.index[x], CellOf(shown'.seen[x]))
  BY <1>3, <1>6, <1>8
<1>10. NearestEntry'
  BY <1>1, <1>9, NearestShown
<1>11. ErrorsSpread'
  BY <1>1, NotSpread
<1>12. OneType'
  BY <1>0, <1>1 DEF OneType
<1> QED BY <1>1, <1>6, <1>7, <1>10, <1>11, <1>12, RowKeeps

LEMMA ColorKeeps ==
    ASSUME QuantInv, Color_quantize
    PROVE  QuantInv'
<1>0. /\ AppType /\ MasterType /\ OneType /\ TwoType /\ PassType
      /\ QuantizersMade /\ FirstPass /\ MappingReady /\ CacheRight /\ ColorsMapped
  BY FromInv
<1> DEFINE row == CurrentRow
<1>1. /\ MoreRows /\ master.quantizer = "1pass" /\ app.dither = "NONE"
      /\ shown' = [seen |-> row, before |-> fs, index |-> [x \in DOMAIN row |-> Colorindex(one.ncolors, row[x])]]
      /\ pass' = [pass EXCEPT !.row = @ + 1]
      /\ app' = app /\ master' = master /\ one' = one /\ two' = two /\ fs' = fs
  BY DEF Color_quantize
<1>2. ~pass.prescan
  BY <1>0, <1>1 DEF FirstPass, MoreRows
<1>3. row \in Seq(Colours)
  BY <1>0, <1>1, RowRight DEF QuantType
<1> HIDE DEF row
<1>4. shown'.seen = row /\ DOMAIN shown'.index = DOMAIN row
      /\ \A x \in DOMAIN row : shown'.index[x] = Colorindex(one.ncolors, row[x])
  BY <1>1
<1>5. \A x \in DOMAIN row : row[x] \in Vectors
  BY <1>3, ColoursVectors
<1>6. IsCounts(one.ncolors) /\ app.map = Create_colormap(one.ncolors)
  BY <1>1, <1>2, MappingHas
<1>7. NearestEntry'
  BY <1>1, <1>4, <1>5, <1>6, ValueShown
<1>8. ErrorsSpread'
  BY <1>1, NotSpread
<1>9. OneType' /\ TwoType'
  BY <1>0, <1>1 DEF OneType, TwoType
<1> QED BY <1>1, <1>2, <1>7, <1>8, <1>9, RowKeeps

LEMMA OrderedKeeps ==
    ASSUME QuantInv, Quantize_ord_dither
    PROVE  QuantInv'
<1>0. /\ AppType /\ MasterType /\ OneType /\ TwoType /\ PassType
      /\ QuantizersMade /\ FirstPass /\ MappingReady /\ CacheRight /\ ColorsMapped
  BY FromInv
<1> DEFINE row == CurrentRow
           seen == [x \in DOMAIN CurrentRow |->
                      [i \in Axes |-> CurrentRow[x][i] + Odither(one.ncolors, i, one.row_index, x - 1)]]
           next == (one.row_index + 1) % DitherSide
<1>1. /\ MoreRows /\ master.quantizer = "1pass" /\ app.dither = "ORDERED"
      /\ shown' = [seen |-> seen, before |-> fs,
                   index |-> [x \in DOMAIN CurrentRow |-> IF InTable(seen[x]) THEN Colorindex(one.ncolors, seen[x])
                                                          ELSE NoEntry]]
      /\ one' = [one EXCEPT !.row_index = next]
      /\ pass' = [pass EXCEPT !.row = @ + 1]
      /\ app' = app /\ master' = master /\ two' = two /\ fs' = fs
  BY DEF Quantize_ord_dither
<1>2. ~pass.prescan
  BY <1>0, <1>1 DEF FirstPass, MoreRows
<1>3. CurrentRow \in Seq(Colours)
  BY <1>0, <1>1, RowRight DEF QuantType
<1>4. IsCounts(one.ncolors) /\ app.map = Create_colormap(one.ncolors) /\ one.padded
  BY <1>1, <1>2, MappingHas
<1>5. next \in 0..(DitherSide - 1) /\ one.row_index \in Nat
  <2> DEFINE k == one.row_index
             d == DitherSide
  <2>1. k \in 0..(d - 1) /\ d \in Nat \ {0}
    BY <1>0, QuantAssumption DEF OneType
  <2> HIDE DEF k, d
  <2>2. (k + 1) % d \in 0..(d - 1) /\ k \in Nat
    BY <2>1
  <2> QED BY <2>2 DEF k, d
<1>6. \A x \in DOMAIN CurrentRow : seen[x] \in Vectors
  <2> TAKE x \in DOMAIN CurrentRow
  <2>1. x - 1 \in Nat /\ CurrentRow[x] \in Vectors
    BY <1>3, ColoursVectors
  <2>2. ASSUME NEW i \in Axes
        PROVE CurrentRow[x][i] + Odither(one.ncolors, i, one.row_index, x - 1) \in Int
    <3> DEFINE y == x - 1
               o == Odither(one.ncolors, i, one.row_index, y)
               e == CurrentRow[x][i]
    <3>1. y \in Nat
      BY <2>1
    <3> HIDE DEF y
    <3>2. o \in Int
      BY <1>4, <1>5, <3>1, OditherType
    <3>3. e \in Int
      BY <2>1 DEF Vectors
    <3> HIDE DEF o, e
    <3>4. e + o \in Int
      BY <3>2, <3>3
    <3> QED BY <3>4 DEF e, o, y
  <2> QED BY <2>2 DEF Vectors
<1>7. shown'.seen = seen /\ DOMAIN shown'.index = DOMAIN CurrentRow
      /\ \A x \in DOMAIN CurrentRow : shown'.index[x] = Colorindex(one.ncolors, seen[x])
  <2>1. \A x \in DOMAIN CurrentRow : InTable(seen[x])
    BY <1>4 DEF InTable
  <2> HIDE DEF seen
  <2> QED BY <1>1, <2>1
<1> HIDE DEF seen, next
<1>8. NearestEntry'
  BY <1>1, <1>4, <1>6, <1>7, ValueShown
<1>9. ErrorsSpread'
  BY <1>1, NotSpread
<1>10. /\ OneType' /\ one'.ncolors = one.ncolors /\ one'.map = one.map /\ one'.padded = one.padded
       /\ TwoType'
  BY <1>0, <1>1, <1>5 DEF OneType, TwoType
<1> QED BY <1>1, <1>2, <1>8, <1>9, <1>10, RowKeeps

-----------------------------------------------------------------------------
(* Rows that are dithered.                                                 *)

LEMMA FsReadyNow ==
    ASSUME QuantInv, MoreRows, ~pass.prescan, app.dither = "FS"
    PROVE  FsReady /\ MapInUse = app.map /\ Len(CurrentRow) = Len(pass.picture[1])
<1>1. CurrentRow \in Seq(Colours) /\ CurrentRow # <<>> /\ Len(CurrentRow) = Len(pass.picture[1])
  BY RowRight, FromInv DEF QuantType
<1>2. /\ IsMap(app.map) /\ master.quantizer \in {"1pass", "2pass"}
      /\ master.quantizer = "1pass" =>
            IsCounts(one.ncolors) /\ one.map = Create_colormap(one.ncolors) /\ app.map = one.map
      /\ master.quantizer = "2pass" => NearestHeld(two.cells, app.map)
      /\ fs \in RowErrors(Len(pass.picture[1]))
  BY MappingHas
<1>3. MapInUse = app.map
  BY <1>2 DEF MapInUse
<1>4. ASSUME NEW colour \in Colours PROVE EntryOf(colour) \in DOMAIN MapInUse
  <2>1. CASE master.quantizer = "2pass"
    <3>1. Nearest(app.map, CachedEntry(two.cells, colour), CellOf(colour))
      BY <1>2, <2>1, CachedRight
    <3> QED BY <1>3, <2>1, <3>1 DEF EntryOf, Nearest
  <2>2. CASE master.quantizer = "1pass"
    <3>1. colour \in Vectors
      BY ColoursVectors
    <3>2. Colorindex(one.ncolors, colour) \in DOMAIN Create_colormap(one.ncolors)
      BY <1>2, <2>2, <3>1, ColorindexRight
    <3> QED BY <1>2, <1>3, <2>2, <3>2 DEF EntryOf
  <2> QED BY <1>2, <2>1, <2>2
<1>5. fs.errors \in [0..(Len(CurrentRow) + 1) -> Vectors] /\ fs.odd \in BOOLEAN
  BY <1>1, <1>2 DEF RowErrors
<1> QED BY <1>1, <1>2, <1>3, <1>4, <1>5 DEF FsReady

LEMMA FsSpreads ==
    ASSUME QuantInv, MoreRows, ~pass.prescan, app.dither = "FS", FsShown, app' = app
    PROVE  /\ ErrorsSpread' /\ fs' \in RowErrors(Len(pass.picture[1]))
           /\ shown'.seen = FsRow.seen /\ FsRow.seen \in [1..Width -> Colours] /\ DOMAIN shown'.index = 1..Width
           /\ \A x \in 1..Width : shown'.index[x] = EntryOf(FsRow.seen[x])
<1> DEFINE e == ErrorsLeft
           W == Width
           seen == FsRow.seen
           index == FsRow.index
           Err(x) == PixelError(seen, index, app.map, x)
<1>1. FsReady /\ MapInUse = app.map /\ W = Len(pass.picture[1])
  BY FsReadyNow DEF Width
<1>2. /\ seen \in [1..W -> Colours] /\ index \in [1..W -> Nat]
      /\ e \in [0..(W + 1) -> Vectors]
      /\ \A x \in 1..W : index[x] = EntryOf(seen[x])
      /\ \A x \in 1..W, i \in Axes : e[x][i] = 3 * Err(x + Dir)[i] + 5 * Err(x)[i] + Err(x - Dir)[i]
  <2>4. W = Width
    OBVIOUS
  <2> HIDE DEF e, Err, W
  <2>2. /\ FsRow.seen \in [1..Width -> Colours] /\ FsRow.index \in [1..Width -> Nat]
        /\ e \in [0..(Width + 1) -> Vectors]
        /\ \A x \in 1..Width : FsRow.index[x] = EntryOf(FsRow.seen[x])
        /\ \A x \in 1..Width, i \in Axes :
              e[x][i] = 3 * PixelError(FsRow.seen, FsRow.index, MapInUse, x + Dir)[i]
                        + 5 * PixelError(FsRow.seen, FsRow.index, MapInUse, x)[i]
                        + PixelError(FsRow.seen, FsRow.index, MapInUse, x - Dir)[i]
    BY <1>1, FsRight DEF e
  <2>3. \A x : PixelError(FsRow.seen, FsRow.index, MapInUse, x) = Err(x)
    BY <1>1 DEF Err
  <2> QED BY <2>2, <2>3, <2>4
<1>3. /\ shown' = [seen |-> seen, index |-> index, before |-> fs]
      /\ fs' = [errors |-> e, odd |-> ~fs.odd]
  BY DEF FsShown, ErrorsLeft
<1> HIDE DEF e, W, seen, index
<1>4. fs' \in RowErrors(W)
  BY <1>2, <1>3 DEF RowErrors
<1>5. /\ shown'.seen = seen /\ shown'.index = index /\ shown'.before = fs /\ fs'.errors = e
      /\ DOMAIN shown'.index = 1..W
  BY <1>2, <1>3
<1>6. ErrorsSpread'
  <2> DEFINE dir == IF shown'.before.odd THEN -1 ELSE 1
             rows == DOMAIN shown'.index
             Er(x) == IF x \in rows THEN [i \in Axes |-> shown'.seen[x][i] - app'.map[shown'.index[x]][i]] ELSE Zero3
  <2>1. dir = Dir
    BY <1>5 DEF Dir
  <2>2. \A x : Er(x) = Err(x)
    BY <1>5 DEF PixelError
  <2> HIDE DEF Er, Err
  <2>3. \A x \in rows, i \in Axes :
           fs'.errors[x][i] = 3 * Er(x + dir)[i] + 5 * Er(x)[i] + Er(x - dir)[i]
    BY <1>2, <1>5, <2>1, <2>2
  <2> HIDE DEF dir
  <2> QED BY <2>3 DEF ErrorsSpread, Er, dir
<1> QED BY <1>1, <1>2, <1>4, <1>5, <1>6 DEF W, seen

LEMMA FsKeeps1 ==
    ASSUME QuantInv, Quantize_fs_dither
    PROVE  QuantInv'
<1>0. /\ AppType /\ MasterType /\ OneType /\ TwoType /\ PassType
      /\ QuantizersMade /\ FirstPass /\ MappingReady /\ CacheRight /\ ColorsMapped
  BY FromInv
<1>1. /\ MoreRows /\ master.quantizer = "1pass" /\ app.dither = "FS" /\ FsShown
      /\ pass' = [pass EXCEPT !.row = @ + 1]
      /\ app' = app /\ master' = master /\ one' = one /\ two' = two
  BY DEF Quantize_fs_dither
<1>2. ~pass.prescan
  BY <1>0, <1>1 DEF FirstPass, MoreRows
<1> DEFINE seen == FsRow.seen
           W == Width
<1>3. /\ ErrorsSpread' /\ fs' \in RowErrors(Len(pass.picture[1]))
      /\ shown'.seen = seen /\ seen \in [1..W -> Colours] /\ DOMAIN shown'.index = 1..W
      /\ \A x \in 1..W : shown'.index[x] = EntryOf(seen[x])
  BY <1>1, <1>2, FsSpreads
<1>4. IsCounts(one.ncolors) /\ app.map = Create_colormap(one.ncolors)
  BY <1>1, <1>2, MappingHas
<1> HIDE DEF seen, W
<1>5. \A x \in 1..W : seen[x] \in Vectors /\ shown'.index[x] = Colorindex(one.ncolors, seen[x])
  BY <1>1, <1>3, ColoursVectors DEF EntryOf
<1>6. NearestEntry'
  BY <1>1, <1>3, <1>4, <1>5, ValueShown
<1>7. OneType' /\ TwoType'
  BY <1>0, <1>1 DEF OneType, TwoType
<1> QED BY <1>1, <1>2, <1>3, <1>6, <1>7, RowKeeps

LEMMA FsKeeps2 ==
    ASSUME QuantInv, Pass2_fs_dither
    PROVE  QuantInv'
<1>0. /\ AppType /\ MasterType /\ OneType /\ TwoType /\ PassType
      /\ QuantizersMade /\ FirstPass /\ MappingReady /\ CacheRight /\ ColorsMapped
  BY FromInv
<1> DEFINE seen == FsRow.seen
           W == Width
           V == {CellOf(c) : c \in ToSet(FsRow.seen)}
           filled == Fill_inverse_cmap(two.cells, app.map, V)
<1>1. /\ MoreRows /\ ~pass.prescan /\ master.quantizer = "2pass" /\ app.dither = "FS" /\ FsShown
      /\ two' = [two EXCEPT !.cells = filled]
      /\ pass' = [pass EXCEPT !.row = @ + 1]
      /\ app' = app /\ master' = master /\ one' = one
  BY DEF Pass2_fs_dither
<1>2. /\ ErrorsSpread' /\ fs' \in RowErrors(Len(pass.picture[1]))
      /\ shown'.seen = seen /\ seen \in [1..W -> Colours] /\ DOMAIN shown'.index = 1..W
      /\ \A x \in 1..W : shown'.index[x] = EntryOf(seen[x])
  BY <1>1, FsSpreads
<1>3. V \subseteq Cells
  <2>1. \A c \in ToSet(FsRow.seen) : c \in Colours
    BY <1>2 DEF ToSet
  <2> QED BY <2>1, CellOfColour
<1>4. two.cells \in [Cells -> Nat] /\ IsMap(app.map) /\ NearestHeld(two.cells, app.map)
  BY <1>0, <1>1, MappingHas DEF TwoType
<1> HIDE DEF V, seen, W
<1>5. filled \in [Cells -> Nat] /\ NearestHeld(filled, app.map)
  BY <1>3, <1>4, FillRight
<1> HIDE DEF filled
<1>6. TwoType' /\ two'.cells = filled /\ two'.needs_zeroed = two.needs_zeroed
  BY <1>0, <1>1, <1>5 DEF TwoType
<1>7. \A x \in 1..W : Nearest(app.map, shown'.index[x], CellOf(seen[x]))
  <2> TAKE x \in 1..W
  <2>1. seen[x] \in Colours /\ shown'.index[x] = CachedEntry(two.cells, seen[x])
    BY <1>1, <1>2 DEF EntryOf
  <2> QED BY <1>4, <2>1, CachedRight
<1>8. NearestEntry'
  BY <1>1, <1>2, <1>7, NearestShown
<1>9. OneType'
  BY <1>0, <1>1 DEF OneType
<1> QED BY <1>1, <1>2, <1>5, <1>6, <1>8, <1>9, RowKeeps

-----------------------------------------------------------------------------
(* The ends of passes, and between them.                                   *)

\* The colours of the boxes, when the picture was counted.
LEMMA BoxColours ==
    ASSUME TwoType, NEW boxes, BoxesRight(0, boxes, Desired),
           NEW map, map = [k \in DOMAIN boxes |-> Compute_color(two.cells, boxes[k])]
    PROVE  /\ map \in Seq(Vectors) /\ map # NoMap /\ boxes \in Seq(BoxRecords)
           /\ \A k \in DOMAIN boxes : UsedIn(two.cells, boxes[k]) # {}
                 /\ \A i \in Axes : /\ boxes[k].lo[i] <= CellOf(map[k])[i]
                                    /\ CellOf(map[k])[i] <= boxes[k].hi[i]
           /\ \A c \in Cells : two.cells[c] # 0 =>
                 Cardinality({k \in DOMAIN boxes : c \in UsedIn(two.cells, boxes[k])}) = 1
<1> DEFINE cells == two.cells
           n == Len(boxes)
<1>1. /\ boxes \in Seq(BoxRecords) /\ n \in Nat /\ n >= 1 /\ DOMAIN boxes = 1..n
      /\ \A j \in DOMAIN boxes : Tight(cells, boxes[j])
  BY DEF BoxesRight
<1>2. cells \in [Cells -> Nat]
  BY DEF TwoType
<1>10. map = [k \in 1..n |-> Compute_color(cells, boxes[k])]
  BY <1>1
<1>11. \A c \in Cells : cells[c] # 0 =>
          \E j \in DOMAIN boxes :
             /\ c \in UsedIn(cells, boxes[j])
             /\ \A l \in DOMAIN boxes : c \in UsedIn(cells, boxes[l]) => l = j
  BY DEF BoxesRight
<1> HIDE DEF cells, n
<1>3. \A k \in 1..n : /\ Compute_color(cells, boxes[k]) \in Vectors
                      /\ \A i \in Axes : /\ boxes[k].lo[i] <= CellOf(Compute_color(cells, boxes[k]))[i]
                                         /\ CellOf(Compute_color(cells, boxes[k]))[i] <= boxes[k].hi[i]
  BY <1>1, <1>2, ColorRight
<1>4. \A k \in 1..n : map[k] = Compute_color(cells, boxes[k])
  BY <1>10
<1>5. map \in Seq(Vectors) /\ map # NoMap
  <2>1. map \in [1..n -> Vectors]
    BY <1>3, <1>10
  <2>2. map \in Seq(Vectors)
    BY <1>1, <2>1
  <2>3. 1 \in DOMAIN map
    BY <1>1, <2>1
  <2> QED BY <2>2, <2>3 DEF NoMap
<1>6. \A k \in DOMAIN boxes : UsedIn(cells, boxes[k]) # {}
  BY <1>1 DEF Tight
<1>7. ASSUME NEW c \in Cells, cells[c] # 0
      PROVE Cardinality({k \in DOMAIN boxes : c \in UsedIn(cells, boxes[k])}) = 1
  <2>1. PICK j \in DOMAIN boxes :
             /\ c \in UsedIn(cells, boxes[j])
             /\ \A l \in DOMAIN boxes : c \in UsedIn(cells, boxes[l]) => l = j
    BY <1>7, <1>11
  <2>2. {k \in DOMAIN boxes : c \in UsedIn(cells, boxes[k])} = {j}
    BY <2>1
  <2> QED BY <2>2, FS_Singleton
<1> QED BY <1>1, <1>3, <1>4, <1>5, <1>6, <1>7 DEF cells

LEMMA FinishKeeps ==
    ASSUME QuantInv, Finish_pass
    PROVE  QuantInv'
<1>0. /\ AppType /\ MasterType /\ OneType /\ TwoType /\ PassType
      /\ QuantizersMade /\ FirstPass /\ MappingReady /\ CacheRight /\ ColorsMapped
  BY FromInv
<1> DEFINE boxes == Select_boxes
           map   == [k \in DOMAIN boxes |-> Compute_color(two.cells, boxes[k])]
<1>1. /\ pass.on /\ (pass.row = Len(pass.picture) \/ (app.buffered /\ ~pass.prescan))
      /\ IF pass.prescan
         THEN /\ two' = [two EXCEPT !.map = map, !.boxes = boxes, !.needs_zeroed = TRUE]
              /\ app' = [app EXCEPT !.map = map]
         ELSE two' = two /\ app' = app
      /\ pass' = [pass EXCEPT !.on = FALSE]
      /\ shown' = NoRow
      /\ master' = master /\ one' = one /\ fs' = fs
  BY DEF Finish_pass
<1>2. /\ PassType' /\ ~pass'.on /\ pass'.picture = pass.picture /\ pass'.prescan = pass.prescan
      /\ shown'.index = <<>> /\ Active
  BY <1>0, <1>1, NoRowShown DEF PassType, Active
<1>3. MasterType' /\ OneType' /\ MappingReady'
  BY <1>0, <1>1, <1>2 DEF MasterType, OneType, MappingReady, Mapping
<1>4. CASE ~pass.prescan
  <2>1. ~master.dummy /\ ~master'.dummy /\ app' = app /\ two' = two
    BY <1>0, <1>1, <1>4 DEF FirstPass
  <2>2. AppType' /\ TwoType' /\ QuantizersMade'
    BY <1>0, <1>1, <2>1 DEF AppType, TwoType, QuantizersMade, Active, Desired
  <2>3. FirstPass' /\ CacheRight'
    BY <1>0, <1>1, <1>2, <2>1 DEF FirstPass, CacheRight
  <2>4. ColorsMapped'
    BY <1>2, <2>1, NothingShown
  <2> QED BY <1>2, <1>3, <2>2, <2>3, <2>4 DEF QuantInv, QuantType
<1>5. CASE pass.prescan
  <2>1. /\ master.dummy /\ master.quantizer = "2pass" /\ "2pass" \in app.enabled /\ pass.picture \in Pictures
        /\ pass.row = Len(pass.picture) /\ Desired >= 1
        /\ two' = [two EXCEPT !.map = map, !.boxes = boxes, !.needs_zeroed = TRUE]
        /\ app' = [app EXCEPT !.map = map]
    BY <1>0, <1>1, <1>2, <1>5 DEF FirstPass, QuantizersMade
  <2>2. Desired \in Nat
    <3> DEFINE d == Desired
    <3>1. d \in Int /\ d >= 1
      BY <1>0, <2>1 DEF AppType, Desired
    <3> HIDE DEF d
    <3>2. d \in Nat
      BY <3>1
    <3> QED BY <3>2 DEF d
  <2>3. PICK c0 \in Cells : two.cells[c0] # 0
    <3>1. Len(pass.picture) \in Nat /\ Len(pass.picture) >= 1
      BY <2>1, PictureRows
    <3>2. pass.row > 0
      BY <2>1, <3>1
    <3> QED BY <1>0, <1>1, <2>1, <3>2 DEF FirstPass
  <2>4. BoxesRight(0, boxes, Desired)
    BY <2>1, <2>2, <2>3, SelectRight
  <2> HIDE DEF boxes
  <2>14. map = [k \in DOMAIN boxes |-> Compute_color(two.cells, boxes[k])]
    OBVIOUS
  <2> HIDE DEF map
  <2>5. /\ map \in Seq(Vectors) /\ map # NoMap /\ boxes \in Seq(BoxRecords)
        /\ \A k \in DOMAIN boxes : UsedIn(two.cells, boxes[k]) # {}
              /\ \A i \in Axes : /\ boxes[k].lo[i] <= CellOf(map[k])[i]
                                 /\ CellOf(map[k])[i] <= boxes[k].hi[i]
        /\ \A c \in Cells : two.cells[c] # 0 =>
              Cardinality({k \in DOMAIN boxes : c \in UsedIn(two.cells, boxes[k])}) = 1
    BY <1>0, <2>4, <2>14, BoxColours
  <2>6. /\ TwoType' /\ two'.map = map /\ two'.boxes = boxes /\ two'.needs_zeroed /\ two'.cells = two.cells
    BY <1>0, <2>1, <2>5 DEF TwoType
  <2>7. /\ AppType' /\ app'.map = map /\ app'.enabled = app.enabled /\ app'.desired = app.desired
    BY <1>0, <2>1, <2>5 DEF AppType
  <2>8. QuantizersMade'
    BY <1>0, <1>1, <2>1, <2>7 DEF QuantizersMade, Active, Desired
  <2>9. FirstPass'
    BY <1>1, <1>2, <2>1, <2>5, <2>7 DEF FirstPass
  <2>10. CacheRight'
    BY <2>6 DEF CacheRight
  <2>11. BoxesPartition'
    <3>1. Len(boxes) \in 1..Desired
      <4> DEFINE d == Desired
                 n == Len(boxes)
      <4>1. n >= 1 /\ n <= d
        BY <2>4 DEF BoxesRight
      <4>2. n \in Nat /\ d \in Nat
        BY <2>2, <2>5
      <4> HIDE DEF n, d
      <4>3. n \in 1..d
        BY <4>1, <4>2
      <4> QED BY <4>3 DEF n, d
    <3>2. Desired' = Desired
      BY <2>7 DEF Desired
    <3>3. Len(two'.boxes) \in 1..Desired'
      BY <2>6, <3>1, <3>2
    <3>4. \A c \in Cells : two'.cells[c] # 0 =>
             Cardinality({k \in DOMAIN two'.boxes : c \in UsedIn(two'.cells, two'.boxes[k])}) = 1
      BY <2>5, <2>6
    <3>5. \A k \in DOMAIN two'.boxes : UsedIn(two'.cells, two'.boxes[k]) # {}
             /\ \A i \in Axes : /\ two'.boxes[k].lo[i] <= CellOf(two'.map[k])[i]
                                /\ CellOf(two'.map[k])[i] <= two'.boxes[k].hi[i]
      BY <2>5, <2>6
    <3> QED BY <3>3, <3>4, <3>5 DEF BoxesPartition
  <2>12. ColorsMapped'
    <3>1. DOMAIN shown'.index = {}
      BY <1>2
    <3>2. NearestEntry'
      BY <3>1 DEF NearestEntry
    <3>3. ErrorsSpread'
      BY <1>2 DEF ErrorsSpread
    <3> QED BY <2>11, <3>2, <3>3 DEF ColorsMapped
  <2> QED BY <1>2, <1>3, <2>6, <2>7, <2>8, <2>9, <2>10, <2>12 DEF QuantInv, QuantType
<1> QED BY <1>4, <1>5

LEMMA ModesKeep ==
    ASSUME QuantInv, NEW two_pass \in BOOLEAN, NEW dither \in DitherModes, NEW forget \in BOOLEAN,
           Choose_modes(two_pass, dither, forget)
    PROVE  QuantInv'
<1>0. /\ AppType /\ MasterType /\ OneType /\ TwoType /\ PassType
      /\ QuantizersMade /\ FirstPass /\ MappingReady /\ CacheRight /\ ColorsMapped
  BY FromInv
<1> DEFINE m == IF forget THEN NoMap ELSE app.map
<1>1. /\ Idle
      /\ app' = [app EXCEPT !.two_pass = two_pass, !.dither = dither, !.map = m]
      /\ master' = master /\ one' = one /\ two' = two /\ fs' = fs /\ pass' = pass /\ shown' = shown
  BY DEF Choose_modes, Between
<1>2. ~pass.on /\ ~master.dummy /\ shown.index = <<>>
  BY <1>1, IdleNow
<1>3. m \in Seq(Vectors) /\ (m = app.map \/ m = NoMap)
  BY <1>0 DEF AppType, NoMap
<1> HIDE DEF m
<1>4. AppType' /\ app'.map = m /\ app'.enabled = app.enabled /\ app'.desired = app.desired
  BY <1>0, <1>1, <1>3 DEF AppType
<1>5. MasterType' /\ OneType' /\ TwoType' /\ PassType' /\ QuantizersMade'
  BY <1>0, <1>1, <1>2, <1>4 DEF MasterType, OneType, TwoType, PassType, QuantizersMade, Active, Desired
<1>6. FirstPass' /\ MappingReady'
  BY <1>1, <1>2 DEF FirstPass, MappingReady, Mapping
<1>7. CacheRight'
  BY <1>0, <1>1, <1>3, <1>4 DEF CacheRight
<1>8. ColorsMapped'
  BY <1>1, <1>2, NothingShown
<1> QED BY <1>4, <1>5, <1>6, <1>7, <1>8 DEF QuantInv, QuantType

LEMMA NewKeeps ==
    ASSUME QuantInv, NEW map \in Maps, New_colormap(map)
    PROVE  QuantInv'
<1>0. /\ AppType /\ MasterType /\ OneType /\ TwoType /\ PassType
      /\ QuantizersMade /\ FirstPass /\ MappingReady /\ CacheRight /\ ColorsMapped
  BY FromInv
<1>1. /\ Idle /\ app' = [app EXCEPT !.map = map]
      /\ IF "external" \in app.enabled
         THEN /\ master' = [master EXCEPT !.quantizer = "2pass"]
              /\ two' = [two EXCEPT !.needs_zeroed = TRUE]
         ELSE Fails /\ two' = two
      /\ one' = one /\ fs' = fs /\ pass' = pass /\ shown' = shown
  BY DEF New_colormap, Between
<1>2. ~pass.on /\ ~master.dummy /\ shown.index = <<>> /\ Active
  BY <1>1, IdleNow
<1>3. AppType' /\ app'.enabled = app.enabled /\ app'.desired = app.desired
  <2>1. map \in Seq(Vectors)
    BY MapsType
  <2> QED BY <1>0, <1>1, <2>1 DEF AppType
<1>4. /\ MasterType' /\ TwoType' /\ ~master'.dummy
      /\ \/ master'.quantizer = "2pass" /\ two'.needs_zeroed
         \/ master'.quantizer = "error"
  <2>1. CASE "external" \in app.enabled
    BY <1>0, <1>1, <1>2, <2>1 DEF MasterType, TwoType
  <2>2. CASE "external" \notin app.enabled
    BY <1>0, <1>1, <1>2, <2>2 DEF MasterType, TwoType, Fails
  <2> QED BY <2>1, <2>2
<1>5. OneType' /\ PassType'
  BY <1>0, <1>1, <1>2 DEF OneType, PassType
<1>6. QuantizersMade'
  BY <1>0, <1>1, <1>2, <1>3, <1>4 DEF QuantizersMade, Active, Desired
<1>7. FirstPass' /\ MappingReady' /\ CacheRight'
  BY <1>1, <1>2, <1>4 DEF FirstPass, MappingReady, Mapping, CacheRight
<1>8. ColorsMapped'
  BY <1>1, <1>2, <1>4, NothingShown
<1> QED BY <1>3, <1>4, <1>5, <1>6, <1>7, <1>8 DEF QuantInv, QuantType

LEMMA BeginsRight ==
    ASSUME QuantInit
    PROVE  QuantInv
<1>1. PICK desired \in Wanted : QuantStart(desired)
  BY DEF QuantInit
<1>2. desired \in Int
  BY QuantAssumption
<1>3. /\ app = [buffered |-> FALSE, two_pass |-> FALSE, dither |-> "NONE", map |-> NoMap,
                desired |-> desired, enabled |-> {}]
      /\ master = [quantizer |-> "none", dummy |-> FALSE, passes |-> 0]
      /\ one = [ncolors |-> [i \in Axes |-> 1], map |-> NoMap, padded |-> FALSE, row_index |-> 0]
      /\ two = [cells |-> NoCells, needs_zeroed |-> TRUE, map |-> NoMap, boxes |-> <<>>]
      /\ pass = NoPass /\ shown = NoRow
  BY <1>1 DEF QuantStart
<1>4. AppType /\ MasterType /\ PassType
  BY <1>2, <1>3 DEF AppType, MasterType, PassType, NoPass, NoMap, DitherModes, Methods
<1>5. OneType /\ TwoType
  <2>1. 0 \in 0..(DitherSide - 1)
    BY QuantAssumption
  <2> DEFINE n == NoCells
  <2>2. n \in [Cells -> Nat]
    BY NoCellsType
  <2>3. two = [cells |-> n, needs_zeroed |-> TRUE, map |-> NoMap, boxes |-> <<>>]
    BY <1>3
  <2> HIDE DEF n
  <2>4. TwoType
    BY <2>2, <2>3 DEF TwoType, NoMap
  <2>5. OneType
    BY <1>3, <2>1 DEF OneType, NoMap
  <2> QED BY <2>4, <2>5
<1>6. ~pass.on /\ ~master.dummy /\ shown.index = <<>> /\ master.quantizer = "none" /\ two.needs_zeroed
  BY <1>3, NoRowShown DEF NoPass
<1>7. QuantizersMade /\ FirstPass /\ MappingReady /\ CacheRight
  BY <1>6 DEF QuantizersMade, FirstPass, MappingReady, Mapping, CacheRight, Active
<1>8. ColorsMapped
  BY <1>6 DEF ColorsMapped, NearestEntry, ErrorsSpread, BoxesPartition
<1> QED BY <1>4, <1>5, <1>7, <1>8 DEF QuantInv, QuantType

LEMMA QuantStep ==
    ASSUME QuantInv, [QuantNext]_quantVars
    PROVE  QuantInv'
<1>1. CASE UNCHANGED quantVars
  BY <1>1 DEF quantVars, QuantInv, QuantType, AppType, MasterType, OneType, TwoType, PassType, QuantizersMade,
     FirstPass, MappingReady, Mapping, CacheRight, ColorsMapped, NearestEntry, ErrorsSpread, BoxesPartition,
     Active, Desired
<1>2. ASSUME NEW buffered \in BOOLEAN, NEW two_pass \in BOOLEAN, NEW dither \in DitherModes,
             NEW map \in Maps \cup {NoMap}, NEW enabled \in EnableSets,
             Start_decompress([buffered |-> buffered, two_pass |-> two_pass, dither |-> dither,
                               map |-> map, desired |-> Desired, enabled |-> enabled])
      PROVE QuantInv'
  <2> DEFINE a == [buffered |-> buffered, two_pass |-> two_pass, dither |-> dither,
                   map |-> map, desired |-> Desired, enabled |-> enabled]
  <2>1. map \in Seq(Vectors) /\ enabled \in SUBSET Methods /\ Desired \in Int
    <3>1. enabled \in SUBSET Methods
      BY QuantAssumption
    <3>2. Desired \in Int
      BY FromInv DEF AppType, Desired
    <3> QED BY <3>1, <3>2, MapsType
  <2>2. a \in [buffered : BOOLEAN, two_pass : BOOLEAN, dither : DitherModes, map : Seq(Vectors),
               desired : Int, enabled : SUBSET Methods]
    BY <2>1
  <2>3. a.desired = Desired /\ Start_decompress(a)
    BY <1>2
  <2> HIDE DEF a
  <2> QED BY <2>2, <2>3, StartKeeps
<1>3. ASSUME NEW picture \in Pictures, Begin_pass(picture) PROVE QuantInv'
  BY <1>3, BeginKeeps
<1>4. CASE Second_pass
  BY <1>4, SecondKeeps
<1>5. CASE Prescan_quantize
  BY <1>5, PrescanKeeps
<1>6. CASE Pass2_no_dither
  BY <1>6, NoDitherKeeps
<1>7. CASE Pass2_fs_dither
  BY <1>7, FsKeeps2
<1>8. CASE Color_quantize
  BY <1>8, ColorKeeps
<1>9. CASE Quantize_ord_dither
  BY <1>9, OrderedKeeps
<1>10. CASE Quantize_fs_dither
  BY <1>10, FsKeeps1
<1>11. CASE Finish_pass
  BY <1>11, FinishKeeps
<1>12. ASSUME NEW two_pass \in BOOLEAN, NEW forget \in BOOLEAN, NEW dither \in DitherModes,
              Choose_modes(two_pass, dither, forget)
       PROVE QuantInv'
  BY <1>12, ModesKeep
<1>13. ASSUME NEW map \in Maps, New_colormap(map) PROVE QuantInv'
  BY <1>13, NewKeeps
<1> QED BY <1>1, <1>2, <1>3, <1>4, <1>5, <1>6, <1>7, <1>8, <1>9, <1>10, <1>11, <1>12, <1>13 DEF QuantNext

\* Whatever passes are made, with which quantizers, colormaps and ways of dithering: each pixel
\* gets a nearest entry, the errors are carried as they should, and the boxes make up the
\* picture (jquant1.c, jquant2.c, jdmaster.c).
THEOREM ColorsCorrect == QuantSpec => []ColorsMapped
<1>1. QuantInit => QuantInv
  BY BeginsRight
<1>2. QuantInv /\ [QuantNext]_quantVars => QuantInv'
  BY QuantStep
<1>3. QuantInv => ColorsMapped
  BY FromInv
<1> QED BY <1>1, <1>2, <1>3, PTL DEF QuantSpec
=============================================================================
