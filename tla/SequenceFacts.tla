--------------------------- MODULE SequenceFacts ---------------------------
(***************************************************************************)
(* What sequences hold after the operations that the lists of xsteg.c and  *)
(* db.c are changed with, element by element.                              *)
(***************************************************************************)
EXTENDS Naturals, SequencesExt, FiniteSetTheorems, SequenceTheorems, TLAPS

-----------------------------------------------------------------------------
(* One element at an end: filename_add(), and the pipes to a child.        *)

\* Where the elements are after the head went.
LEMMA TailAt ==
    ASSUME NEW S, NEW s \in Seq(S), s # <<>>, NEW k \in 1..Len(Tail(s))
    PROVE  k + 1 \in 1..Len(s) /\ Tail(s)[k] = s[k + 1]
OBVIOUS

\* Where they are after one came.
LEMMA AppendAt ==
    ASSUME NEW S, NEW s \in Seq(S), NEW e, NEW k \in 1..Len(s)
    PROVE  Append(s, e)[k] = s[k]
OBVIOUS

-----------------------------------------------------------------------------
(* Sequences one behind the other.                                         *)

LEMMA ConcatPlaces ==
    ASSUME NEW S, NEW s \in Seq(S), NEW t \in Seq(S)
    PROVE  /\ s \o t \in Seq(S) /\ Len(s \o t) = Len(s) + Len(t)
           /\ \A k \in 1..Len(s) : (s \o t)[k] = s[k]
           /\ \A k \in (Len(s) + 1)..(Len(s) + Len(t)) : (s \o t)[k] = t[k - Len(s)]
BY ConcatProperties

LEMMA ConcatThree ==
    ASSUME NEW S, NEW x \in Seq(S), NEW y \in Seq(S), NEW z \in Seq(S),
           NEW l, NEW m, NEW n, l = Len(x), m = Len(y), n = Len(z)
    PROVE  /\ x \o y \o z \in Seq(S) /\ Len(x \o y \o z) = l + m + n
           /\ \A k \in 1..l : (x \o y \o z)[k] = x[k]
           /\ \A k \in (l + 1)..(l + m) : (x \o y \o z)[k] = y[k - l]
           /\ \A k \in (l + m + 1)..(l + m + n) : (x \o y \o z)[k] = z[k - l - m]
<1> DEFINE w == x \o y
<1>1. l \in Nat /\ m \in Nat /\ n \in Nat
  OBVIOUS
<1>2. /\ w \in Seq(S) /\ Len(w) = l + m
      /\ \A k \in 1..l : w[k] = x[k]
      /\ \A k \in (l + 1)..(l + m) : w[k] = y[k - l]
  BY ConcatPlaces
<1> HIDE DEF w
<1> DEFINE v == w \o z
<1>3. w \in Seq(S)
  BY <1>2
<1>4. /\ v \in Seq(S) /\ Len(v) = Len(w) + Len(z)
      /\ \A k \in 1..Len(w) : v[k] = w[k]
      /\ \A k \in (Len(w) + 1)..(Len(w) + Len(z)) : v[k] = z[k - Len(w)]
  BY <1>3, ConcatPlaces
<1> HIDE DEF v
<1>5. Len(v) = l + m + n
  BY <1>1, <1>2, <1>4
<1>6. \A k \in 1..l : v[k] = x[k]
  BY <1>1, <1>2, <1>4
<1>7. \A k \in (l + 1)..(l + m) : v[k] = y[k - l]
  BY <1>1, <1>2, <1>4
<1>8. \A k \in (l + m + 1)..(l + m + n) : v[k] = z[k - l - m]
  <2> TAKE k \in (l + m + 1)..(l + m + n)
  <2>1. k \in (Len(w) + 1)..(Len(w) + Len(z)) /\ k - Len(w) = k - l - m
    BY <1>1, <1>2
  <2> QED BY <1>4, <2>1
<1> QED BY <1>4, <1>5, <1>6, <1>7, <1>8 DEF v, w

\* A list with an element put in at k, as db_insert() does...
LEMMA InsertPlaces ==
    ASSUME NEW S, NEW s \in Seq(S), NEW e \in S, NEW k \in 1..Len(s),
           NEW t, t = InsertAt(s, k, e)
    PROVE  /\ t \in Seq(S) /\ Len(t) = Len(s) + 1 /\ t[k] = e
           /\ \A j \in 1..(k - 1) : t[j] = s[j]
           /\ \A j \in (k + 1)..(Len(s) + 1) : t[j] = s[j - 1]
<1> DEFINE x == SubSeq(s, 1, k - 1)
           y == <<e>>
           z == SubSeq(s, k, Len(s))
           n == Len(s)
<1>1. /\ x \in Seq(S) /\ Len(x) = k - 1 /\ n \in Nat
      /\ \A j \in 1..(k - 1) : x[j] = s[j]
  OBVIOUS
<1>2. /\ z \in Seq(S) /\ Len(z) = n - k + 1
      /\ \A j \in 1..(n - k + 1) : z[j] = s[k + j - 1]
  OBVIOUS
<1>3. y \in Seq(S) /\ Len(y) = 1 /\ y[1] = e
  OBVIOUS
<1>4. t = x \o y \o z
  BY DEF InsertAt
<1> HIDE DEF x, y, z, n
<1>5. x \in Seq(S) /\ y \in Seq(S) /\ z \in Seq(S) /\ k - 1 = Len(x) /\ 1 = Len(y) /\ n - k + 1 = Len(z)
  BY <1>1, <1>2, <1>3
<1>6. /\ t \in Seq(S) /\ Len(t) = (k - 1) + 1 + (n - k + 1)
      /\ \A j \in 1..(k - 1) : t[j] = x[j]
      /\ \A j \in ((k - 1) + 1)..((k - 1) + 1) : t[j] = y[j - (k - 1)]
      /\ \A j \in ((k - 1) + 1 + 1)..((k - 1) + 1 + (n - k + 1)) : t[j] = z[j - (k - 1) - 1]
  <2> DEFINE w == x \o y \o z
  <2> DEFINE lx == Len(x)
             ly == Len(y)
             lz == Len(z)
  <2>1. /\ w \in Seq(S) /\ Len(w) = lx + ly + lz
        /\ \A j \in 1..lx : w[j] = x[j]
        /\ \A j \in (lx + 1)..(lx + ly) : w[j] = y[j - lx]
        /\ \A j \in (lx + ly + 1)..(lx + ly + lz) : w[j] = z[j - lx - ly]
    <3>1. x \in Seq(S) /\ y \in Seq(S) /\ z \in Seq(S) /\ lx = Len(x) /\ ly = Len(y) /\ lz = Len(z)
      BY <1>5
    <3> HIDE DEF lx, ly, lz
    <3> QED BY <3>1, ConcatThree
  <2>3. lx = k - 1 /\ ly = 1 /\ lz = n - k + 1
    BY <1>5
  <2> HIDE DEF lx, ly, lz
  <2>2. t = w
    BY <1>4
  <2> HIDE DEF w
  <2> QED BY <2>1, <2>2, <2>3
<1>7. Len(t) = n + 1
  BY <1>1, <1>6
<1>8. t[k] = e
  <2>1. k \in ((k - 1) + 1)..((k - 1) + 1) /\ k - (k - 1) = 1
    OBVIOUS
  <2> QED BY <1>3, <1>6, <2>1
<1>9. \A j \in (k + 1)..(n + 1) : t[j] = s[j - 1]
  <2> TAKE j \in (k + 1)..(n + 1)
  <2>1. /\ j \in ((k - 1) + 1 + 1)..((k - 1) + 1 + (n - k + 1))
        /\ j - (k - 1) - 1 \in 1..(n - k + 1) /\ k + (j - (k - 1) - 1) - 1 = j - 1
    BY <1>1
  <2>2. t[j] = z[j - (k - 1) - 1]
    BY <1>6, <2>1
  <2> QED BY <1>2, <2>1, <2>2
<1> QED BY <1>1, <1>6, <1>7, <1>8, <1>9 DEF n

\* ...and without the element at k, as db_remove() leaves it.
LEMMA RemovePlaces ==
    ASSUME NEW S, NEW s \in Seq(S), NEW k \in 1..Len(s), NEW t, t = RemoveAt(s, k)
    PROVE  /\ t \in Seq(S) /\ Len(t) = Len(s) - 1
           /\ \A j \in 1..(k - 1) : t[j] = s[j]
           /\ \A j \in k..(Len(s) - 1) : t[j] = s[j + 1]
<1> DEFINE x == SubSeq(s, 1, k - 1)
           z == SubSeq(s, k + 1, Len(s))
           n == Len(s)
<1>1. /\ x \in Seq(S) /\ Len(x) = k - 1 /\ n \in Nat
      /\ \A j \in 1..(k - 1) : x[j] = s[j]
  OBVIOUS
<1>2. /\ z \in Seq(S) /\ Len(z) = n - k
      /\ \A j \in 1..(n - k) : z[j] = s[k + j]
  OBVIOUS
<1>3. t = x \o z
  BY DEF RemoveAt
<1> HIDE DEF x, z
<1>4. x \in Seq(S) /\ z \in Seq(S)
  BY <1>1, <1>2
<1>5. /\ t \in Seq(S) /\ Len(t) = Len(x) + Len(z)
      /\ \A j \in 1..Len(x) : t[j] = x[j]
      /\ \A j \in (Len(x) + 1)..(Len(x) + Len(z)) : t[j] = z[j - Len(x)]
  <2> DEFINE w == x \o z
  <2>1. /\ w \in Seq(S) /\ Len(w) = Len(x) + Len(z)
        /\ \A j \in 1..Len(x) : w[j] = x[j]
        /\ \A j \in (Len(x) + 1)..(Len(x) + Len(z)) : w[j] = z[j - Len(x)]
    BY <1>4, ConcatPlaces
  <2>2. t = w
    BY <1>3
  <2> HIDE DEF w
  <2> QED BY <2>1, <2>2
<1>6. Len(t) = n - 1
  <2>1. Len(t) = (k - 1) + (n - k)
    BY <1>1, <1>2, <1>5
  <2>2. k \in Nat
    OBVIOUS
  <2> HIDE DEF n
  <2> QED BY <1>1, <2>1, <2>2
<1>7. \A j \in k..(n - 1) : t[j] = s[j + 1]
  <2> TAKE j \in k..(n - 1)
  <2>1. /\ j \in (Len(x) + 1)..(Len(x) + Len(z))
        /\ j - Len(x) \in 1..(n - k) /\ k + (j - Len(x)) = j + 1
    BY <1>1, <1>2
  <2> QED BY <1>2, <1>5, <2>1
<1> QED BY <1>1, <1>5, <1>6, <1>7

-----------------------------------------------------------------------------

\* A nonempty set of natural numbers has a least element.
LEMMA LeastNumber ==
    ASSUME NEW T, T \subseteq Nat, T # {}
    PROVE  \E x \in T : \A y \in T : x <= y
<1> DEFINE R == StrictSubsetOrdering(Nat)
           UpTo == {1..m : m \in T}
<1>1. \A m \in T : 1..m \in FiniteSubsetsOf(Nat)
  BY FS_Interval DEF FiniteSubsetsOf
<1>2. UpTo \subseteq FiniteSubsetsOf(Nat) /\ UpTo # {}
  BY <1>1
<1>3. IsWellFoundedOn(R, FiniteSubsetsOf(Nat))
  BY FS_StrictSubsetOrderingWellFounded
<1> HIDE DEF R
<1>4. PICK b \in UpTo : \A a \in UpTo : ~(<<a, b>> \in R)
  BY <1>2, <1>3, WFMin
<1>5. PICK x \in T : b = 1..x
  BY <1>4
<1>6. ASSUME NEW y \in T, y < x PROVE FALSE
  <2>1. 1..y \subseteq 1..x /\ x \in 1..x /\ x \notin 1..y
    BY <1>6
  <2>2. <<1..y, 1..x>> \in R
    BY <2>1 DEF R, StrictSubsetOrdering
  <2> QED BY <2>2, <1>4, <1>5, <1>6
<1> QED BY <1>6

=============================================================================
