---------------------------- MODULE LibraryProofs ----------------------------
(***************************************************************************)
(* Proofs about parts of the JPEG library.  MemoryManager: its accounts    *)
(* are right, and its virtual arrays are plain arrays, for any arrays, any *)
(* memory and any requests.  MarkerWriter: who reads the streams of an     *)
(* object can read them, for any colour spaces, tables, scripts and        *)
(* restart intervals, and any order of the calls.                          *)
(***************************************************************************)
EXTENDS MemoryManager, MarkerWriter, SequenceFacts, TLAPS

-----------------------------------------------------------------------------
(* What the chunks of a pool take.                                         *)

Chunk == [used : Nat, left : Nat]

LEMMA ChunkType == \A c \in Chunk : c.used \in Nat /\ c.left \in Nat
BY DEF Chunk

IsNumber(given, sum, k) == sum \in Nat
SmallSum == INSTANCE FoldFacts WITH Op <- SmallBytes, P <- IsNumber
LargeSum == INSTANCE FoldFacts WITH Op <- LargeBytes, P <- IsNumber

LEMMA SmallFold ==
    ASSUME NEW base, NEW s
    PROVE  FoldLeft(SmallBytes, base, s) = SmallSum!Fold(base, s)
BY DEF FoldLeft, SmallSum!Fold, MapThenFoldSet, Max, SmallSum!Greatest

LEMMA LargeFold ==
    ASSUME NEW base, NEW s
    PROVE  FoldLeft(LargeBytes, base, s) = LargeSum!Fold(base, s)
BY DEF FoldLeft, LargeSum!Fold, MapThenFoldSet, Max, LargeSum!Greatest

\* They are numbers of bytes...
LEMMA SmallSumType ==
    ASSUME NEW s \in Seq(Chunk)
    PROVE  FoldLeft(SmallBytes, 0, s) \in Nat
<1>1. IsNumber({}, 0, 0)
  BY DEF IsNumber
<1>2. \A k \in 1..Len(s) : \A v : IsNumber({}, v, k - 1) => IsNumber({}, SmallBytes(v, s[k]), k)
  <2> TAKE k \in 1..Len(s)
  <2> TAKE v
  <2> HAVE IsNumber({}, v, k - 1)
  <2>1. s[k] \in Chunk
    OBVIOUS
  <2>2. s[k].used \in Nat /\ s[k].left \in Nat /\ SmallHdr \in Nat /\ v \in Nat
    BY <2>1, ChunkType, SizesAssumption DEF IsNumber
  <2> QED BY <2>2 DEF IsNumber, SmallBytes
<1>3. IsNumber({}, SmallSum!Fold(0, s), Len(s))
  BY <1>1, <1>2, SmallSum!FoldKeeps
<1> QED BY <1>3, SmallFold DEF IsNumber

LEMMA LargeSumType ==
    ASSUME NEW s \in Seq(Nat)
    PROVE  FoldLeft(LargeBytes, 0, s) \in Nat
<1>1. IsNumber({}, 0, 0)
  BY DEF IsNumber
<1>2. \A k \in 1..Len(s) : \A v : IsNumber({}, v, k - 1) => IsNumber({}, LargeBytes(v, s[k]), k)
  BY DEF IsNumber, LargeBytes
<1>3. IsNumber({}, LargeSum!Fold(0, s), Len(s))
  BY <1>1, <1>2, LargeSum!FoldKeeps
<1> QED BY <1>3, LargeFold DEF IsNumber

\* ...none without chunks...
LEMMA NoneSum == FoldLeft(SmallBytes, 0, <<>>) = 0 /\ FoldLeft(LargeBytes, 0, <<>>) = 0
BY SmallSum!FoldNone, LargeSum!FoldNone, SmallFold, LargeFold

\* ...and those of a new chunk more with it, at either end...
LEMMA SmallSumMore ==
    ASSUME NEW s \in Seq(Chunk), NEW c \in Chunk
    PROVE  FoldLeft(SmallBytes, 0, Append(s, c))
                = FoldLeft(SmallBytes, 0, s) + c.used + c.left + SmallHdr
<1>1. SmallSum!Fold(0, Append(s, c))
        = SmallBytes(SmallSum!Fold(0, s), c)
  BY SmallSum!FoldOne
<1> QED BY <1>1, SmallFold DEF SmallBytes

LEMMA LargeSumMore ==
    ASSUME NEW s \in Seq(Nat), NEW c \in Nat
    PROVE  FoldLeft(LargeBytes, 0, <<c>> \o s) = c + FoldLeft(LargeBytes, 0, s)
<1> DEFINE t == <<c>> \o s
           n == Len(s)
<1>0. n \in Nat
  OBVIOUS
<1>1. /\ n \in Nat /\ t \in Seq(Nat) /\ Len(t) = n + 1 /\ t[1] = c
      /\ \A k \in 1..n : t[k + 1] = s[k]
      /\ \A k \in 1..n : s[k] \in Nat
  OBVIOUS
<1> HIDE DEF t
<1>2. PICK h : LargeSum!Leads(h, 0, s)
  BY LargeSum!FoldSteps
<1>3. PICK g : LargeSum!Leads(g, 0, t)
  BY <1>1, LargeSum!FoldSteps
<1>4. /\ h[0] = 0 /\ h[n] = FoldLeft(LargeBytes, 0, s)
      /\ \A k \in 1..n : h[k] = h[k - 1] + s[k]
  BY <1>2, LargeFold DEF LargeSum!Leads, LargeBytes
<1>5. /\ g[0] = 0 /\ g[n + 1] = FoldLeft(LargeBytes, 0, t)
      /\ \A k \in 1..n + 1 : g[k] = g[k - 1] + t[k]
  BY <1>1, <1>3, LargeFold DEF LargeSum!Leads, LargeBytes
<1> HIDE DEF n
<1> DEFINE Wrong == {k \in 0..n : ~(h[k] \in Nat /\ g[k + 1] = c + h[k])}
<1>6. Wrong = {}
  <2>1. SUFFICES ASSUME Wrong # {} PROVE FALSE
    OBVIOUS
  <2>2. PICK k \in Wrong : \A j \in Wrong : k <= j
    <3>1. Wrong \subseteq Nat
      BY <1>1
    <3> QED BY <2>1, <3>1, LeastNumber
  <2>3. CASE k = 0
    <3>1. 1 \in 1..n + 1 /\ 1 - 1 = 0 /\ 0 + 1 = 1
      BY <1>1
    <3>2. g[1] = g[0] + t[1]
      BY <1>5, <3>1
    <3> QED BY <1>1, <1>4, <1>5, <2>2, <2>3, <3>2
  <2>4. CASE k # 0
    <3>1. k \in 1..n /\ k - 1 \in 0..n /\ k - 1 \notin Wrong /\ k + 1 \in 1..n + 1
      BY <1>1, <2>2, <2>4
    <3>2. h[k - 1] \in Nat /\ g[(k - 1) + 1] = c + h[k - 1]
      BY <3>1
    <3>3. h[k] = h[k - 1] + s[k] /\ g[k + 1] = g[(k + 1) - 1] + t[k + 1]
      BY <1>4, <1>5, <3>1
    <3>4. t[k + 1] = s[k] /\ s[k] \in Nat /\ (k + 1) - 1 = k /\ (k - 1) + 1 = k
      BY <1>1, <3>1
    <3>5. h[k] \in Nat /\ g[k + 1] = c + h[k]
      BY <3>2, <3>3, <3>4
    <3> QED BY <2>2, <3>5
  <2> QED BY <2>3, <2>4
<1>7. h[n] \in Nat /\ g[n + 1] = c + h[n]
  <2>1. n \in 0..n /\ n \notin Wrong
    BY <1>0, <1>6
  <2> QED BY <2>1
<1> QED BY <1>4, <1>5, <1>7 DEF t

\* ...and stay the same when some of the room in a chunk is used.
LEMMA SmallSumSame ==
    ASSUME NEW s \in Seq(Chunk), NEW t \in Seq(Chunk), Len(t) = Len(s),
           \A k \in 1..Len(s) : t[k].used + t[k].left = s[k].used + s[k].left
    PROVE  FoldLeft(SmallBytes, 0, t) = FoldLeft(SmallBytes, 0, s)
<1> DEFINE n == Len(s)
<1>0. n \in Nat
  OBVIOUS
<1>1. \A k \in 1..n : s[k] \in Chunk /\ t[k] \in Chunk
  OBVIOUS
<1>2. PICK h : SmallSum!Leads(h, 0, s)
  BY SmallSum!FoldSteps
<1>3. PICK g : SmallSum!Leads(g, 0, t)
  BY SmallSum!FoldSteps
<1>4. /\ h[0] = 0 /\ h[n] = FoldLeft(SmallBytes, 0, s)
      /\ \A k \in 1..n : h[k] = h[k - 1] + s[k].used + s[k].left + SmallHdr
  BY <1>2, SmallFold DEF SmallSum!Leads, SmallBytes
<1>5. /\ g[0] = 0 /\ g[n] = FoldLeft(SmallBytes, 0, t)
      /\ \A k \in 1..n : g[k] = g[k - 1] + t[k].used + t[k].left + SmallHdr
  BY <1>3, SmallFold DEF SmallSum!Leads, SmallBytes
<1>6. \A k \in 1..n : t[k].used + t[k].left = s[k].used + s[k].left
  OBVIOUS
<1> HIDE DEF n
<1> DEFINE Wrong == {k \in 0..n : ~(h[k] \in Nat /\ g[k] = h[k])}
<1>7. Wrong = {}
  <2>1. SUFFICES ASSUME Wrong # {} PROVE FALSE
    OBVIOUS
  <2>2. PICK k \in Wrong : \A j \in Wrong : k <= j
    <3>1. Wrong \subseteq Nat
      BY <1>0
    <3> QED BY <2>1, <3>1, LeastNumber
  <2>3. k # 0
    BY <1>4, <1>5, <2>2
  <2>4. k \in 1..n /\ k - 1 \in 0..n /\ k - 1 \notin Wrong
    BY <1>0, <2>2, <2>3
  <2>5. h[k - 1] \in Nat /\ g[k - 1] = h[k - 1]
    BY <2>4
  <2>6. /\ s[k].used \in Nat /\ s[k].left \in Nat /\ t[k].used \in Nat /\ t[k].left \in Nat
        /\ SmallHdr \in Nat
    BY <1>1, <2>4, ChunkType, SizesAssumption
  <2>7. /\ h[k] = h[k - 1] + s[k].used + s[k].left + SmallHdr
        /\ g[k] = g[k - 1] + t[k].used + t[k].left + SmallHdr
        /\ t[k].used + t[k].left = s[k].used + s[k].left
    BY <1>4, <1>5, <1>6, <2>4
  <2> DEFINE su == s[k].used
             sl == s[k].left
             tu == t[k].used
             tl == t[k].left
  <2>8. /\ SmallHdr \in Nat /\ su \in Nat /\ sl \in Nat /\ tu \in Nat /\ tl \in Nat /\ tu + tl = su + sl
        /\ h[k] = h[k - 1] + su + sl + SmallHdr /\ g[k] = g[k - 1] + tu + tl + SmallHdr
    BY <2>6, <2>7
  <2> HIDE DEF su, sl, tu, tl
  <2>9. h[k] \in Nat /\ g[k] = h[k]
    <3> DEFINE a == h[k - 1]
               b == g[k - 1]
    <3>1. /\ SmallHdr \in Nat /\ su \in Nat /\ sl \in Nat /\ tu \in Nat /\ tl \in Nat /\ a \in Nat
          /\ tu + tl = su + sl /\ b = a
          /\ h[k] = a + su + sl + SmallHdr /\ g[k] = b + tu + tl + SmallHdr
      BY <2>5, <2>8
    <3> HIDE DEF a, b
    <3>2. h[k] \in Nat
      BY <3>1
    <3>3. b + tu + tl + SmallHdr = a + (tu + tl) + SmallHdr
      BY <3>1
    <3> QED BY <3>1, <3>2, <3>3
  <2> QED BY <2>2, <2>9
<1>8. n \in 0..n /\ n \notin Wrong
  BY <1>0, <1>7
<1> QED BY <1>4, <1>5, <1>8

-----------------------------------------------------------------------------
(* The accounts of the manager: what is allocated, and where objects are.  *)

Accounted(m) ==
    m.total = PoolBytes(m, JPOOL_PERMANENT) + PoolBytes(m, JPOOL_IMAGE) + ManagerSize

Right(m, objs) ==
    /\ m \in Manager /\ Accounted(m)
    /\ m.err \notin {"gone", "virtual bug", "no backing store"}
    /\ objs \subseteq Object /\ ObjectsPlaced(m, objs)

LEMMA ManagerType ==
    ASSUME NEW m \in Manager, NEW pool \in Pools
    PROVE  /\ m.small[pool] \in Seq(Chunk) /\ m.large[pool] \in Seq(Nat)
           /\ m.total \in Int /\ m.rowsperchunk \in Nat
BY DEF Manager, Chunk

LEMMA PoolBytesType ==
    ASSUME NEW m \in Manager, NEW pool \in Pools
    PROVE  PoolBytes(m, pool) \in Nat
BY ManagerType, SmallSumType, LargeSumType DEF PoolBytes

\* When a pool changes, and the total by as much, the accounts are right again.
Changed(m, n, pool, bytes) ==
    /\ m \in Manager /\ n \in Manager /\ pool \in Pools /\ bytes \in Int
    /\ n.total = m.total + bytes /\ PoolBytes(n, pool) = PoolBytes(m, pool) + bytes
    /\ \A p \in Pools \ {pool} : n.small[p] = m.small[p] /\ n.large[p] = m.large[p]

LEMMA AccountedAgain ==
    ASSUME NEW m, NEW n, NEW pool, NEW bytes, Changed(m, n, pool, bytes), Accounted(m)
    PROVE  Accounted(n)
<1> USE DEF Changed
<1>1. \A p \in Pools \ {pool} : PoolBytes(n, p) = PoolBytes(m, p)
  BY DEF PoolBytes
<1>2. /\ PoolBytes(m, 0) \in Nat /\ PoolBytes(m, 1) \in Nat
      /\ PoolBytes(n, 0) \in Nat /\ PoolBytes(n, 1) \in Nat
  BY PoolBytesType DEF Pools, JPOOL_PERMANENT, JPOOL_IMAGE
<1>3. m.total = PoolBytes(m, 0) + PoolBytes(m, 1) + ManagerSize /\ ManagerSize \in Nat
  BY SizesAssumption DEF Accounted, JPOOL_PERMANENT, JPOOL_IMAGE
<1> DEFINE m0 == PoolBytes(m, 0)
           m1 == PoolBytes(m, 1)
           n0 == PoolBytes(n, 0)
           n1 == PoolBytes(n, 1)
<1>4. (n0 = m0 + bytes /\ n1 = m1) \/ (n0 = m0 /\ n1 = m1 + bytes)
  BY <1>1 DEF Pools, JPOOL_PERMANENT, JPOOL_IMAGE
<1>5. /\ m0 \in Nat /\ m1 \in Nat /\ n0 \in Nat /\ n1 \in Nat /\ ManagerSize \in Nat
      /\ n.total = m0 + m1 + ManagerSize + bytes
  BY <1>2, <1>3
<1> HIDE DEF m0, m1, n0, n1
<1>6. n.total = n0 + n1 + ManagerSize
  BY <1>4, <1>5
<1> QED BY <1>6 DEF Accounted, n0, n1, JPOOL_PERMANENT, JPOOL_IMAGE

\* Objects stay where they are when chunks come, or more of one is used.
LEMMA PlacedStill ==
    ASSUME NEW m \in Manager, NEW n \in Manager, NEW objs \in SUBSET Object,
           ObjectsPlaced(m, objs),
           \A p \in Pools : /\ Len(n.small[p]) >= Len(m.small[p])
                            /\ \A k \in 1..Len(m.small[p]) :
                                n.small[p][k].used >= m.small[p][k].used
    PROVE  ObjectsPlaced(n, objs)
<1>1. ASSUME NEW o \in objs
      PROVE  o.chunk \in DOMAIN n.small[o.pool] /\ o.from + o.size <= n.small[o.pool][o.chunk].used
  <2>1. o.pool \in Pools /\ o.from \in Nat /\ o.size \in Nat
    BY DEF Object
  <2>2. m.small[o.pool] \in Seq(Chunk) /\ n.small[o.pool] \in Seq(Chunk)
    BY <2>1, ManagerType
  <2>3. o.chunk \in 1..Len(m.small[o.pool]) /\ o.from + o.size <= m.small[o.pool][o.chunk].used
    BY <2>2 DEF ObjectsPlaced
  <2>4. o.chunk \in 1..Len(n.small[o.pool])
    BY <2>1, <2>2, <2>3
  <2>5. m.small[o.pool][o.chunk] \in Chunk /\ n.small[o.pool][o.chunk] \in Chunk
    BY <2>2, <2>3, <2>4
  <2>6. m.small[o.pool][o.chunk].used \in Nat /\ n.small[o.pool][o.chunk].used \in Nat
    BY <2>5, ChunkType
  <2>7. n.small[o.pool][o.chunk].used >= m.small[o.pool][o.chunk].used
    BY <2>1, <2>3
  <2>8. o.from + o.size <= n.small[o.pool][o.chunk].used
    BY <2>1, <2>3, <2>6, <2>7
  <2> QED BY <2>2, <2>4, <2>8
<1> QED BY <1>1 DEF ObjectsPlaced

LEMMA RoundUpType == ASSUME NEW size \in Nat PROVE RoundUp(size) \in Nat
<1>1. AlignType \in Nat \ {0}
  BY SizesAssumption
<1>2. (size + (AlignType - 1)) \in Nat
  BY <1>1
<1> DEFINE n == size + (AlignType - 1)
           q == n \div AlignType
<1>3. q \in Nat
  <2> HIDE DEF n
  <2> QED BY <1>1, <1>2 DEF n
<1> HIDE DEF q
<1>4. q * AlignType \in Nat
  BY <1>1, <1>3
<1> QED BY <1>4 DEF RoundUp, q

-----------------------------------------------------------------------------
(* alloc_small(), alloc_large(), alloc_sarray() and alloc_barray()         *)

LEMMA LeastOf ==
    ASSUME NEW T \in SUBSET Nat, T # {}
    PROVE  Min(T) \in T /\ \A x \in T : Min(T) <= x
<1>1. \E x \in T : \A y \in T : x <= y
  BY LeastNumber
<1> QED BY <1>1 DEF Min

LEMMA LeastOfTwo ==
    ASSUME NEW a \in Int, NEW b \in Int
    PROVE  Min({a, b}) \in {a, b} /\ Min({a, b}) <= a /\ Min({a, b}) <= b
<1> DEFINE T == {a, b}
<1>1. \E x \in T : \A y \in T : x <= y
  <2>1. CASE a <= b
    BY <2>1
  <2>2. CASE ~(a <= b)
    BY <2>2
  <2> QED BY <2>1, <2>2
<1>2. Min(T) \in T /\ \A y \in T : Min(T) <= y
  BY <1>1 DEF Min
<1> QED BY <1>2

LEMMA LesserType == ASSUME NEW a \in Nat, NEW b \in Nat PROVE Min({a, b}) \in Nat
<1>1. Min({a, b}) \in {a, b}
  BY LeastOfTwo
<1> QED BY <1>1

LEMMA GreatestOf ==
    ASSUME NEW n \in Int, NEW T \in SUBSET (0..n), T # {}
    PROVE  Max(T) \in T
<1> DEFINE U == {n - x : x \in T}
<1>1. U \subseteq Nat /\ U # {}
  <2>1. \A x \in T : n - x \in Nat
    OBVIOUS
  <2> QED BY <2>1
<1>2. PICK u \in U : \A v \in U : u <= v
  BY <1>1, LeastNumber
<1>3. PICK x \in T : u = n - x
  BY <1>2
<1>4. \A y \in T : x >= y
  <2> TAKE y \in T
  <2>1. n - x <= n - y
    BY <1>2, <1>3
  <2>2. x \in Int /\ y \in Int
    OBVIOUS
  <2> QED BY <2>1, <2>2
<1> QED BY <1>3, <1>4 DEF Max

\* A new chunk at the end of a pool's list.
LEMMA ChunkAdded ==
    ASSUME NEW m, NEW objs, Right(m, objs), NEW pool \in Pools, NEW left \in Nat, NEW n,
           n = [m EXCEPT !.total = @ + (left + SmallHdr),
                         !.small[pool] = Append(@, [used |-> 0, left |-> left])]
    PROVE  Right(n, objs)
<1> DEFINE c == [used |-> 0, left |-> left]
<1>1. m \in Manager /\ m.small[pool] \in Seq(Chunk) /\ c \in Chunk /\ SmallHdr \in Nat
  BY ManagerType, SizesAssumption DEF Right, Chunk
<1>2. n \in Manager
  <2>1. Append(m.small[pool], c) \in Seq(Chunk) /\ m.total + (left + SmallHdr) \in Int
    BY <1>1, ManagerType
  <2> QED BY <1>1, <2>1 DEF Manager, Chunk
<1>3. /\ n.total = m.total + (left + SmallHdr) /\ n.err = m.err
      /\ n.small[pool] = Append(m.small[pool], c) /\ n.large = m.large
      /\ \A p \in Pools \ {pool} : n.small[p] = m.small[p]
  BY <1>1 DEF Manager
<1>4. PoolBytes(n, pool) = PoolBytes(m, pool) + (left + SmallHdr)
  <2>1. FoldLeft(SmallBytes, 0, n.small[pool])
          = FoldLeft(SmallBytes, 0, m.small[pool]) + c.used + c.left + SmallHdr
    BY <1>1, <1>3, SmallSumMore
  <2>2. FoldLeft(SmallBytes, 0, m.small[pool]) \in Nat /\ FoldLeft(LargeBytes, 0, m.large[pool]) \in Nat
    BY <1>1, ManagerType, SmallSumType, LargeSumType
  <2> DEFINE a == FoldLeft(SmallBytes, 0, m.small[pool])
             b == FoldLeft(LargeBytes, 0, m.large[pool])
             d == FoldLeft(SmallBytes, 0, n.small[pool])
  <2>3. a \in Nat /\ b \in Nat /\ d = a + 0 + left + SmallHdr /\ SmallHdr \in Nat
    BY <1>1, <2>1, <2>2
  <2>4. PoolBytes(n, pool) = d + b /\ PoolBytes(m, pool) = a + b
    BY <1>3 DEF PoolBytes
  <2> HIDE DEF a, b, d
  <2> QED BY <2>3, <2>4
<1>5. Accounted(n)
  <2>1. left + SmallHdr \in Int /\ \A p \in Pools \ {pool} : n.small[p] = m.small[p] /\ n.large[p] = m.large[p]
    BY <1>1, <1>3
  <2> DEFINE bytes == left + SmallHdr
  <2>2. /\ Accounted(m) /\ n.total = m.total + bytes /\ bytes \in Int
        /\ PoolBytes(n, pool) = PoolBytes(m, pool) + bytes
    BY <1>3, <1>4, <2>1 DEF Right
  <2> HIDE DEF bytes
  <2>3. Changed(m, n, pool, bytes)
    BY <1>1, <1>2, <2>1, <2>2 DEF Changed
  <2> QED BY <2>2, <2>3, AccountedAgain
<1>6. ObjectsPlaced(n, objs)
  <2>1. ASSUME NEW p \in Pools
        PROVE  /\ Len(n.small[p]) >= Len(m.small[p])
               /\ \A k \in 1..Len(m.small[p]) : n.small[p][k].used >= m.small[p][k].used
    <3>1. m.small[p] \in Seq(Chunk)
      BY <1>1, ManagerType
    <3>2. \A k \in 1..Len(m.small[p]) : m.small[p][k].used \in Nat
      BY <3>1, ChunkType
    <3>3. Len(n.small[p]) >= Len(m.small[p])
          /\ \A k \in 1..Len(m.small[p]) : n.small[p][k] = m.small[p][k]
      BY <1>1, <1>3, <3>1
    <3> QED BY <3>2, <3>3
  <2> QED BY <1>1, <1>2, <2>1, PlacedStill DEF Right
<1> QED BY <1>2, <1>3, <1>5, <1>6 DEF Right

\* An error changes nothing else.
LEMMA FailedRight ==
    ASSUME NEW m, NEW objs, Right(m, objs), NEW e \in Errors \ {"gone", "virtual bug", "no backing store"}
    PROVE  Right(Failed(m, e), objs)
<1>1. /\ Failed(m, e) \in Manager /\ Failed(m, e).err = e /\ Failed(m, e).total = m.total
      /\ Failed(m, e).small = m.small /\ Failed(m, e).large = m.large
  BY DEF Right, Manager, Failed
<1> QED BY <1>1 DEF Right, Accounted, PoolBytes, ObjectsPlaced

\* The chunk for a small object has the room for it.
Kept(m, n) == n.rowsperchunk = m.rowsperchunk /\ n.err \in {m.err, "memory"}

LEMMA SmallChunkRight ==
    ASSUME NEW m, NEW objs, Right(m, objs), m.err = "none", NEW pool \in Pools, NEW size \in Nat,
           NEW c, c = SmallChunk(m, pool, size)
    PROVE  /\ Right(c.m, objs) /\ Kept(m, c.m)
           /\ c.m.err = "none" => /\ c.k \in 1..Len(c.m.small[pool])
                                  /\ size <= c.m.small[pool][c.k].left
<1> DEFINE list  == m.small[pool]
           room  == {k \in DOMAIN list : list[k].left >= size}
           least == size + SmallHdr
           slop0 == IF list = <<>> THEN first_pool_slop[pool] ELSE extra_pool_slop[pool]
           slop1 == Min({slop0, MAX_ALLOC_CHUNK - least})
           tries == {slop \in 0..slop1 : /\ \E k \in 0..slop1 : slop = slop1 \div 2^k
                                         /\ slop = slop1 \/ slop >= MIN_SLOP
                                         /\ Malloc(m, least + slop)}
           slop  == Max(tries)
           new   == [m EXCEPT !.total = @ + least + slop,
                              !.small[pool] = Append(@, [used |-> 0, left |-> size + slop])]
<1>1. c = IF room # {} THEN [m |-> m, k |-> Min(room)]
          ELSE IF tries = {} THEN [m |-> Failed(m, "memory"), k |-> 0]
          ELSE [k |-> Len(list) + 1, m |-> new]
  BY DEF SmallChunk
<1>2. /\ m \in Manager /\ list \in Seq(Chunk) /\ SmallHdr \in Nat /\ MAX_ALLOC_CHUNK \in Nat
      /\ m.total \in Int
  BY ManagerType, SizesAssumption DEF Right
<1> HIDE DEF tries
<1>3. CASE room # {}
  <2>1. c.m = m /\ c.k = Min(room)
    BY <1>1, <1>3
  <2>2. room \in SUBSET Nat
    BY <1>2
  <2>3. Min(room) \in room
    BY <1>3, <2>2, LeastOf
  <2>4. c.k \in 1..Len(list) /\ list[c.k].left >= size
    BY <1>2, <2>1, <2>3
  <2>5. list[c.k].left \in Nat
    BY <1>2, <2>4, ChunkType
  <2> QED BY <2>1, <2>4, <2>5 DEF Kept
<1>4. CASE room = {} /\ tries = {}
  <2>1. c.m = Failed(m, "memory")
    BY <1>1, <1>4
  <2>2. c.m.err = "memory" /\ c.m.rowsperchunk = m.rowsperchunk
    BY <1>2, <2>1 DEF Failed, Manager
  <2>3. Right(c.m, objs)
    <3>1. "memory" \in Errors \ {"gone", "virtual bug", "no backing store"}
      BY DEF Errors
    <3> QED BY <2>1, <3>1, FailedRight
  <2> QED BY <2>2, <2>3 DEF Kept
<1>5. CASE room = {} /\ tries # {}
  <2>1. c.m = new /\ c.k = Len(list) + 1
    <3> HIDE DEF new, room
    <3> QED BY <1>1, <1>5
  <2>2. slop0 \in Nat
    BY SizesAssumption
  <2>3. slop1 \in Int
    <3> DEFINE most == MAX_ALLOC_CHUNK - least
    <3>1. most \in Int /\ slop0 \in Int
      BY <1>2, <2>2
    <3>2. slop1 = Min({slop0, most})
      OBVIOUS
    <3> HIDE DEF slop0, most, slop1
    <3>3. Min({slop0, most}) \in {slop0, most}
      BY <3>1, LeastOfTwo
    <3> QED BY <3>1, <3>2, <3>3
  <2> HIDE DEF slop0, slop1
  <2>4. slop \in Nat
    <3>1. tries \in SUBSET (0..slop1)
      BY DEF tries
    <3>2. slop \in tries
      BY <1>5, <2>3, <3>1, GreatestOf
    <3> HIDE DEF slop
    <3> QED BY <2>3, <3>1, <3>2
  <2> HIDE DEF slop
  <2> DEFINE left == size + slop
  <2>5. left \in Nat /\ m.total + least + slop = m.total + (left + SmallHdr)
    BY <1>2, <2>4
  <2>6. new = [m EXCEPT !.total = @ + (left + SmallHdr),
                        !.small[pool] = Append(@, [used |-> 0, left |-> left])]
    BY <2>5
  <2>7. Right(new, objs)
    <3> HIDE DEF new, left
    <3> QED BY <2>5, <2>6, ChunkAdded
  <2>8. /\ new.small[pool] = Append(list, [used |-> 0, left |-> left])
        /\ new.err = m.err /\ new.rowsperchunk = m.rowsperchunk
    BY <1>2 DEF Manager
  <2>9. /\ c.k \in 1..Len(new.small[pool])
        /\ new.small[pool][c.k] = [used |-> 0, left |-> left]
    <3> HIDE DEF new, list
    <3> QED BY <1>2, <2>1, <2>8
  <2>10. size <= left
    BY <2>4
  <2> HIDE DEF new, left
  <2> QED BY <2>1, <2>7, <2>8, <2>9, <2>10 DEF Kept
<1> QED BY <1>3, <1>4, <1>5

\* Room in a chunk that becomes an object.
LEMMA ObjectPut ==
    ASSUME NEW m, NEW objs, Right(m, objs), NEW pool \in Pools, NEW k \in 1..Len(m.small[pool]),
           NEW size \in Nat, size <= m.small[pool][k].left, NEW n,
           n = [m EXCEPT !.small[pool][k] = [used |-> @.used + size, left |-> @.left - size]]
    PROVE  /\ n.rowsperchunk = m.rowsperchunk /\ n.err = m.err
           /\ Right(n, objs \cup {[pool |-> pool, chunk |-> k, from |-> m.small[pool][k].used,
                                   size |-> size]})
<1> DEFINE s == m.small[pool]
           used == s[k].used
           left == s[k].left
           c == [used |-> used + size, left |-> left - size]
           t == [s EXCEPT ![k] = c]
           o == [pool |-> pool, chunk |-> k, from |-> used, size |-> size]
<1>1. m \in Manager /\ s \in Seq(Chunk) /\ objs \in SUBSET Object
  BY ManagerType DEF Right
<1>2. used \in Nat /\ left \in Nat /\ size <= left
  <2>1. s[k] \in Chunk
    BY <1>1
  <2> QED BY <2>1, ChunkType
<1>3. c \in Chunk /\ c.used = used + size /\ c.left = left - size
  <2> HIDE DEF used, left
  <2> QED BY <1>2 DEF Chunk
<1>4. t \in Seq(Chunk) /\ Len(t) = Len(s) /\ t[k] = c /\ \A j \in 1..Len(s) : j # k => t[j] = s[j]
  <2>2. DOMAIN s = 1..Len(s) /\ k \in 1..Len(s)
    BY <1>1
  <2> HIDE DEF s, c
  <2>1. t \in Seq(Chunk) /\ Len(t) = Len(s)
    BY <1>1, <1>3, <2>2
  <2>3. t[k] = c /\ \A j \in 1..Len(s) : j # k => t[j] = s[j]
    BY <1>1, <2>2
  <2> QED BY <2>1, <2>3
<1>5. n = [m EXCEPT !.small[pool] = t]
  OBVIOUS
<1> HIDE DEF t
<1>6. n \in Manager
  <2>1. m.small \in [Pools -> Seq(Chunk)]
    BY <1>1 DEF Manager, Chunk
  <2>2. [m.small EXCEPT ![pool] = t] \in [Pools -> Seq(Chunk)]
    BY <1>4, <2>1
  <2> QED BY <1>1, <1>5, <2>2 DEF Manager, Chunk
<1>7. /\ n.small[pool] = t /\ n.total = m.total /\ n.large = m.large
      /\ n.err = m.err /\ n.rowsperchunk = m.rowsperchunk
      /\ \A p \in Pools \ {pool} : n.small[p] = m.small[p]
  BY <1>1, <1>5 DEF Manager
<1>8. Accounted(n)
  <2>1. \A j \in 1..Len(s) : t[j].used + t[j].left = s[j].used + s[j].left
    <3> TAKE j \in 1..Len(s)
    <3>1. CASE j = k
      <4>1. t[j].used + t[j].left = (used + size) + (left - size)
        BY <1>3, <1>4, <3>1
      <4> DEFINE u == used
                 l == left
      <4>2. u \in Nat /\ l \in Nat /\ t[j].used + t[j].left = (u + size) + (l - size)
        BY <1>2, <4>1
      <4> HIDE DEF u, l
      <4>3. t[j].used + t[j].left = u + l
        BY <4>2
      <4> QED BY <3>1, <4>3 DEF u, l
    <3> QED BY <1>4, <3>1
  <2>2. FoldLeft(SmallBytes, 0, t) = FoldLeft(SmallBytes, 0, s)
    <3> HIDE DEF s, t
    <3> QED BY <1>1, <1>4, <2>1, SmallSumSame
  <2>3. PoolBytes(n, pool) = PoolBytes(m, pool)
    BY <1>7, <2>2 DEF PoolBytes
  <2>4. PoolBytes(m, pool) \in Nat /\ m.total \in Int
    BY <1>1, PoolBytesType, ManagerType
  <2>5. Changed(m, n, pool, 0)
    BY <1>1, <1>6, <1>7, <2>3, <2>4 DEF Changed
  <2> QED BY <2>5, AccountedAgain DEF Right
<1>9. ObjectsPlaced(n, objs)
  <2>1. ASSUME NEW p \in Pools
        PROVE  /\ Len(n.small[p]) >= Len(m.small[p])
               /\ \A j \in 1..Len(m.small[p]) : n.small[p][j].used >= m.small[p][j].used
    <3>1. m.small[p] \in Seq(Chunk)
      BY <1>1, ManagerType
    <3>2. \A j \in 1..Len(m.small[p]) : m.small[p][j].used \in Nat
      BY <3>1, ChunkType
    <3>3. CASE p # pool
      BY <1>7, <3>1, <3>2, <3>3
    <3>4. CASE p = pool
      <4>1. Len(n.small[p]) = Len(s)
        BY <1>4, <1>7, <3>4
      <4>2. \A j \in 1..Len(s) : t[j].used >= s[j].used
        <5> TAKE j \in 1..Len(s)
        <5>1. s[j].used \in Nat
          BY <3>2, <3>4
        <5>2. CASE j = k
          <6>1. t[j].used = used + size
            BY <1>3, <1>4, <5>2
          <6> QED BY <1>2, <5>2, <6>1
        <5> QED BY <1>4, <5>1, <5>2
      <4> QED BY <1>1, <1>7, <3>4, <4>1, <4>2
    <3> QED BY <3>3, <3>4
  <2> QED BY <1>1, <1>6, <2>1, PlacedStill DEF Right
<1>10. o \in Object /\ o.pool = pool /\ o.chunk = k /\ o.from = used /\ o.size = size
  BY <1>1, <1>2 DEF Object
<1>11. o.chunk \in DOMAIN n.small[o.pool] /\ o.from + o.size <= n.small[o.pool][o.chunk].used
  <2>1. k \in DOMAIN t /\ t[k].used = used + size
    BY <1>1, <1>3, <1>4
  <2> QED BY <1>2, <1>7, <1>10, <2>1
\* What was there before ends where the new object begins.
<1>12. \A q \in objs : q.pool = pool /\ q.chunk = k => q.from + q.size <= used
  BY DEF Right, ObjectsPlaced
<1> HIDE DEF o, used
<1>13. ObjectsPlaced(n, objs \cup {o})
  <2>1. \A q \in objs \cup {o} :
            q.chunk \in DOMAIN n.small[q.pool] /\ q.from + q.size <= n.small[q.pool][q.chunk].used
    BY <1>9, <1>11 DEF ObjectsPlaced
  <2>2. ASSUME NEW q \in objs \cup {o}, NEW r \in objs \cup {o},
               q # r, q.pool = r.pool, q.chunk = r.chunk
        PROVE  q.from + q.size <= r.from \/ r.from + r.size <= q.from
    <3>1. CASE q \in objs /\ r \in objs
      BY <1>9, <2>2, <3>1 DEF ObjectsPlaced
    <3>2. CASE q = o
      BY <1>10, <1>12, <2>2, <3>2
    <3>3. CASE r = o
      BY <1>10, <1>12, <2>2, <3>3
    <3> QED BY <3>1, <3>2, <3>3
  <2> HIDE DEF s
  <2> QED BY <2>1, <2>2 DEF ObjectsPlaced
<1>14. Right(n, objs \cup {o})
  BY <1>1, <1>6, <1>7, <1>8, <1>10, <1>13 DEF Right
<1> QED BY <1>7, <1>14 DEF o, used

LEMMA AllocSmallRight ==
    ASSUME NEW m, NEW objs, Right(m, objs), NEW pool \in Pools, NEW bytes \in Nat,
           NEW a, a = AllocSmall(m, pool, bytes)
    PROVE  Right(a.m, objs \cup a.place) /\ Kept(m, a.m)
<1> DEFINE size == RoundUp(bytes)
           c == SmallChunk(m, pool, size)
<1>1. size \in Nat
  BY RoundUpType
<1>2. CASE m.err # "none"
  <2>1. a.m = m /\ a.place = {}
    BY <1>2 DEF AllocSmall
  <2> QED BY <2>1 DEF Kept
<1>3. CASE m.err = "none" /\ bytes > MAX_ALLOC_CHUNK - SmallHdr
  <2>1. a.m = Failed(m, "memory") /\ a.place = {}
    BY <1>3 DEF AllocSmall
  <2>2. "memory" \in Errors \ {"gone", "virtual bug", "no backing store"}
    BY DEF Errors
  <2>3. Failed(m, "memory").err = "memory" /\ Failed(m, "memory").rowsperchunk = m.rowsperchunk
    BY DEF Failed, Right, Manager
  <2>4. Right(Failed(m, "memory"), objs)
    BY <2>2, FailedRight
  <2>5. Right(a.m, objs \cup a.place)
    BY <2>1, <2>4
  <2> QED BY <2>1, <2>3, <2>5 DEF Kept
<1>4. CASE m.err = "none" /\ ~(bytes > MAX_ALLOC_CHUNK - SmallHdr)
  <2>1. /\ Right(c.m, objs) /\ Kept(m, c.m)
        /\ c.m.err = "none" => c.k \in 1..Len(c.m.small[pool]) /\ size <= c.m.small[pool][c.k].left
    <3> HIDE DEF size
    <3> QED BY <1>1, <1>4, SmallChunkRight
  <2> HIDE DEF c
  <2>2. CASE c.m.err # "none"
    <3>1. a.m = c.m /\ a.place = {}
      BY <1>4, <2>2 DEF AllocSmall, c
    <3> QED BY <2>1, <3>1
  <2>3. CASE c.m.err = "none"
    <3>1. /\ a.m = [c.m EXCEPT !.small[pool][c.k] = [used |-> @.used + size, left |-> @.left - size]]
          /\ a.place = {[pool |-> pool, chunk |-> c.k, from |-> c.m.small[pool][c.k].used,
                         size |-> size]}
      BY <1>4, <2>3 DEF AllocSmall, c
    <3> DEFINE q == c.m
               k == c.k
               o == [pool |-> pool, chunk |-> k, from |-> q.small[pool][k].used, size |-> size]
    <3>2. /\ Right(q, objs) /\ Kept(m, q) /\ k \in 1..Len(q.small[pool])
          /\ size <= q.small[pool][k].left /\ q.err = "none"
      BY <2>1, <2>3
    <3>3. /\ a.m = [q EXCEPT !.small[pool][k] = [used |-> @.used + size, left |-> @.left - size]]
          /\ a.place = {o}
      BY <3>1
    <3> HIDE DEF size, q, k
    <3>4. a.m.rowsperchunk = q.rowsperchunk /\ a.m.err = q.err /\ Right(a.m, objs \cup {o})
      BY <1>1, <3>2, <3>3, ObjectPut
    <3> HIDE DEF o
    <3>5. Right(a.m, objs \cup a.place)
      <4>1. a.place = {o}
        BY <3>3
      <4> QED BY <3>4, <4>1
    <3>6. Kept(m, a.m)
      BY <3>2, <3>4 DEF Kept
    <3> QED BY <3>5, <3>6
  <2> QED BY <2>2, <2>3
<1> QED BY <1>2, <1>3, <1>4

LEMMA AllocLargeRight ==
    ASSUME NEW m, NEW objs, Right(m, objs), NEW pool \in Pools, NEW bytes \in Nat,
           NEW n, n = AllocLarge(m, pool, bytes)
    PROVE  Right(n, objs) /\ Kept(m, n)
<1> DEFINE size == RoundUp(bytes) + LargeHdr
<1>1. size \in Nat
  BY RoundUpType, SizesAssumption
<1>2. m \in Manager
  BY DEF Right
<1>3. CASE m.err # "none"
  BY <1>3 DEF AllocLarge, Kept
<1>4. CASE m.err = "none" /\ n = Failed(m, "memory")
  <2>1. "memory" \in Errors \ {"gone", "virtual bug", "no backing store"}
    BY DEF Errors
  <2>2. Failed(m, "memory").err = "memory" /\ Failed(m, "memory").rowsperchunk = m.rowsperchunk
    BY <1>2 DEF Failed, Manager
  <2> QED BY <1>4, <2>1, <2>2, FailedRight DEF Kept
<1>5. CASE m.err = "none" /\ n # Failed(m, "memory")
  <2>1. n = [m EXCEPT !.total = @ + size, !.large[pool] = <<size>> \o @]
    BY <1>5 DEF AllocLarge
  <2> HIDE DEF size
  <2>2. m.large[pool] \in Seq(Nat) /\ m.large \in [Pools -> Seq(Nat)] /\ m.total \in Int
    BY <1>2, ManagerType DEF Manager
  <2> DEFINE t == <<size>> \o m.large[pool]
  <2>3. t \in Seq(Nat)
    BY <1>1, <2>2
  <2> HIDE DEF t
  <2>4. n = [m EXCEPT !.total = @ + size, !.large[pool] = t]
    BY <2>1 DEF t
  <2>5. n \in Manager
    <3>1. [m.large EXCEPT ![pool] = t] \in [Pools -> Seq(Nat)] /\ m.total + size \in Int
      BY <1>1, <2>2, <2>3
    <3> QED BY <1>2, <2>4, <3>1 DEF Manager
  <2>6. /\ n.total = m.total + size /\ n.large[pool] = t /\ n.small = m.small
        /\ n.err = m.err /\ n.rowsperchunk = m.rowsperchunk
        /\ \A p \in Pools \ {pool} : n.large[p] = m.large[p]
    BY <1>2, <2>4 DEF Manager
  <2>7. PoolBytes(n, pool) = PoolBytes(m, pool) + size
    <3>1. FoldLeft(LargeBytes, 0, t) = size + FoldLeft(LargeBytes, 0, m.large[pool])
      BY <1>1, <2>2, LargeSumMore DEF t
    <3> DEFINE a == FoldLeft(SmallBytes, 0, m.small[pool])
               b == FoldLeft(LargeBytes, 0, m.large[pool])
               d == FoldLeft(LargeBytes, 0, t)
    <3>2. a \in Nat /\ b \in Nat /\ d = size + b
      BY <1>2, <3>1, ManagerType, SmallSumType, LargeSumType
    <3>3. PoolBytes(n, pool) = a + d /\ PoolBytes(m, pool) = a + b
      BY <2>6 DEF PoolBytes
    <3> HIDE DEF a, b, d
    <3> QED BY <1>1, <3>2, <3>3
  <2>8. Changed(m, n, pool, size)
    BY <1>1, <1>2, <2>5, <2>6, <2>7 DEF Changed
  <2>9. Accounted(n)
    BY <2>8, AccountedAgain DEF Right
  <2> QED BY <2>5, <2>6, <2>9 DEF Right, ObjectsPlaced, Kept
<1> QED BY <1>3, <1>4, <1>5

\* What alloc_small() and alloc_large() give is right whatever came before.
Goes(given, v, k) == Right(v, given.objs) /\ Kept(given.m, v)
Chunks == INSTANCE FoldFacts WITH Op <- AllocChunk, P <- Goes

LEMMA ChunksFold ==
    ASSUME NEW base, NEW s
    PROVE  FoldLeft(AllocChunk, base, s) = Chunks!Fold(base, s)
BY DEF FoldLeft, Chunks!Fold, MapThenFoldSet, Max, Chunks!Greatest

Large == [pool : Pools, bytes : Nat]

LEMMA ChunksRight ==
    ASSUME NEW m, NEW objs, Right(m, objs), NEW s \in Seq(Large),
           NEW n, n = FoldLeft(AllocChunk, m, s)
    PROVE  Right(n, objs) /\ Kept(m, n)
<1> DEFINE given == [m |-> m, objs |-> objs]
<1>1. Goes(given, m, 0)
  BY DEF Goes, Kept
<1>2. \A k \in 1..Len(s) : \A v : Goes(given, v, k - 1) => Goes(given, AllocChunk(v, s[k]), k)
  <2> TAKE k \in 1..Len(s)
  <2> TAKE v
  <2> HAVE Goes(given, v, k - 1)
  <2>1. Right(v, objs) /\ Kept(m, v)
    BY DEF Goes
  <2>2. s[k] \in Large
    OBVIOUS
  <2>3. s[k].pool \in Pools /\ s[k].bytes \in Nat
    BY <2>2 DEF Large
  <2> DEFINE w == AllocLarge(v, s[k].pool, s[k].bytes)
  <2>4. Right(w, objs) /\ Kept(v, w)
    BY <2>1, <2>3, AllocLargeRight
  <2>5. AllocChunk(v, s[k]) = w
    BY DEF AllocChunk
  <2> HIDE DEF w
  <2>6. Kept(m, w)
    BY <2>1, <2>4 DEF Kept
  <2> QED BY <2>4, <2>5, <2>6 DEF Goes
<1>3. Goes(given, Chunks!Fold(m, s), Len(s))
  <2> HIDE DEF given
  <2> QED BY <1>1, <1>2, Chunks!FoldKeeps
<1>4. Goes(given, n, Len(s))
  BY <1>3, ChunksFold
<1> QED BY <1>4 DEF Goes

\* Rows, and an array of pointers to them: as many rows in each chunk as fit.
LEMMA AllocRowsRight ==
    ASSUME NEW m, NEW objs, Right(m, objs), NEW pool \in Pools,
           NEW width \in Nat \ {0}, NEW rows \in Nat \ {0},
           NEW a, a = AllocRows(m, pool, width, rows)
    PROVE  /\ Right(a.m, objs \cup a.place)
           /\ a.m.err = "none" => a.m.rowsperchunk \in Nat \ {0}
<1> DEFINE most   == (MAX_ALLOC_CHUNK - LargeHdr) \div width
           per    == Min({most, rows})
           chunks == [k \in 1..(rows + per - 1) \div per |->
                       [pool |-> pool, bytes |-> Min({per, rows - (k - 1) * per}) * width]]
           m1     == [m EXCEPT !.rowsperchunk = per]
           ptrs   == AllocSmall(m1, pool, rows * PointerSize)
<1>1. most \in Int
  BY SizesAssumption
<1>2. a = IF m.err # "none" THEN [m |-> m, place |-> {}]
          ELSE IF most <= 0 THEN [m |-> Failed(m, "width"), place |-> {}]
          ELSE [m |-> FoldLeft(AllocChunk, ptrs.m, chunks), place |-> ptrs.place]
  BY DEF AllocRows
<1> HIDE DEF most
<1>3. CASE m.err # "none"
  BY <1>2, <1>3
<1>4. CASE m.err = "none" /\ most <= 0
  <2>1. a.m = Failed(m, "width") /\ a.place = {}
    BY <1>2, <1>4
  <2>2. "width" \in Errors \ {"gone", "virtual bug", "no backing store"}
    BY DEF Errors
  <2>3. Failed(m, "width").err = "width"
    BY DEF Failed, Right, Manager
  <2>4. Right(Failed(m, "width"), objs)
    BY <2>2, FailedRight
  <2>5. Right(a.m, objs \cup a.place)
    BY <2>1, <2>4
  <2> QED BY <2>1, <2>3, <2>5
<1>5. CASE m.err = "none" /\ ~(most <= 0)
  <2>1. per \in Nat \ {0} /\ per <= rows
    <3>1. Min({most, rows}) \in {most, rows} /\ Min({most, rows}) <= rows
      BY <1>1, LeastOfTwo
    <3> QED BY <1>1, <1>5, <3>1
  <2>2. a = [m |-> FoldLeft(AllocChunk, ptrs.m, chunks), place |-> ptrs.place]
    BY <1>2, <1>5
  <2> HIDE DEF per
  <2>3. chunks \in Seq(Large)
    <3> DEFINE n == (rows + per - 1) \div per
    <3>1. n \in Nat /\ n * per <= rows + per - 1
      BY <2>1
    <3>2. \A k \in 1..n : Min({per, rows - (k - 1) * per}) \in Nat
      <4> TAKE k \in 1..n
      <4> DEFINE before == (k - 1) * per
      <4>1. k * per <= n * per
        BY <2>1, <3>1
      <4>2. before \in Nat /\ before = k * per - per /\ k * per \in Nat
        BY <2>1, <3>1
      <4> HIDE DEF n
      <4>3. before <= rows - 1
        BY <2>1, <3>1, <4>1, <4>2
      <4> HIDE DEF before
      <4> DEFINE rest == rows - before
      <4>4. rest \in Nat /\ per \in Nat
        BY <2>1, <4>2, <4>3
      <4> HIDE DEF rest
      <4>5. Min({per, rest}) \in Nat
        BY <4>4, LesserType
      <4> QED BY <4>5 DEF rest, before
    <3> HIDE DEF n
    <3> DEFINE c(k) == Min({per, rows - (k - 1) * per})
    <3>3. \A k \in 1..n : c(k) \in Nat
      BY <3>2
    <3> HIDE DEF c
    <3>4. \A k \in 1..n : [pool |-> pool, bytes |-> c(k) * width] \in Large
      <4> TAKE k \in 1..n
      <4>1. c(k) * width \in Nat
        BY <3>3
      <4> QED BY <4>1 DEF Large
    <3>5. [k \in 1..n |-> [pool |-> pool, bytes |-> c(k) * width]] \in Seq(Large)
      BY <3>1, <3>4
    <3> QED BY <3>5 DEF n, c
  <2>4. Right(m1, objs) /\ m1.err = m.err /\ m1.rowsperchunk = per
    <3>1. m \in Manager
      BY DEF Right
    <3>2. /\ m1 \in Manager /\ m1.total = m.total /\ m1.small = m.small /\ m1.large = m.large
          /\ m1.err = m.err /\ m1.rowsperchunk = per
      BY <2>1, <3>1 DEF Manager
    <3> QED BY <3>2 DEF Right, Accounted, PoolBytes, ObjectsPlaced
  <2> HIDE DEF m1, chunks
  <2>5. rows * PointerSize \in Nat
    BY SizesAssumption
  <2> DEFINE bytes == rows * PointerSize
  <2>6. bytes \in Nat /\ ptrs = AllocSmall(m1, pool, bytes)
    BY <2>5
  <2> HIDE DEF bytes, ptrs
  <2>7. Right(ptrs.m, objs \cup ptrs.place) /\ Kept(m1, ptrs.m)
    BY <2>4, <2>6, AllocSmallRight
  <2> DEFINE q == ptrs.m
             all == objs \cup ptrs.place
             v == FoldLeft(AllocChunk, q, chunks)
  <2>8. Right(q, all) /\ Kept(m1, q)
    BY <2>7
  <2>9. a.m = v /\ objs \cup a.place = all
    BY <2>2
  <2> HIDE DEF q, all
  <2>10. v = FoldLeft(AllocChunk, q, chunks)
    OBVIOUS
  <2> HIDE DEF v
  <2>11. Right(v, all) /\ Kept(q, v)
    BY <2>3, <2>8, <2>10, ChunksRight
  <2>12. v.rowsperchunk = per
    BY <2>4, <2>8, <2>11 DEF Kept
  <2>13. Right(a.m, objs \cup a.place)
    BY <2>9, <2>11
  <2> QED BY <2>1, <2>9, <2>12, <2>13
<1> QED BY <1>3, <1>4, <1>5

-----------------------------------------------------------------------------
(* realize_virt_arrays()                                                   *)

LEMMA ArrayType ==
    ASSUME NEW id \in Ids
    PROVE  /\ Arrays[id].width \in Nat \ {0} /\ Arrays[id].rows \in 1..MaxDimension
           /\ Arrays[id].maxaccess \in Nat \ {0}
           /\ Arrays[id].pre_zero \in BOOLEAN
BY ArraysAssumption

LEMMA RowsType ==
    ASSUME NEW id \in Ids
    PROVE  Arrays[id].rows \in Nat \ {0} /\ Arrays[id].rows <= AnyHeight /\ AnyHeight \in Nat \ {0}
<1>1. MaxDimension \in Nat /\ MaxDimension <= AnyHeight /\ AnyHeight \in Nat \ {0}
  BY DEF MaxDimension, AnyHeight
<1> QED BY <1>1, ArrayType

\* An array without a buffer is not one with a buffer.
LEMMA BufferThere ==
    ASSUME NEW id \in Ids, NEW a, BufferRight(id, a)
    PROVE  ~Requested(a) /\ HasBuffer(a) /\ a.buffer # <<>>
<1>1. PICK n \in 1..Arrays[id].rows : a \in Control(id, n)
  BY DEF BufferRight
<1>2. n \in Nat \ {0}
  BY RowsType
<1>3. DOMAIN a.buffer = 0..n - 1 /\ "buffer" \in DOMAIN a
  BY <1>1 DEF Control
<1>4. a.buffer # <<>>
  <2>1. 0 \in DOMAIN a.buffer
    BY <1>2, <1>3
  <2> QED BY <2>1
<1>5. a # NoControl
  BY <1>3 DEF NoControl
<1> QED BY <1>4, <1>5 DEF Requested, HasBuffer

\* How much the arrays need are numbers.
Amount(given, t, k) == t.least \in Nat /\ t.most \in Nat
Needs == INSTANCE FoldFacts WITH Op <- NeededFor, P <- Amount

LEMMA NeedsFold ==
    ASSUME NEW base, NEW s
    PROVE  FoldLeft(NeededFor, base, s) = Needs!Fold(base, s)
BY DEF FoldLeft, Needs!Fold, MapThenFoldSet, Max, Needs!Greatest

LEMMA NeededType ==
    ASSUME virt_list \in Seq(Ids)
    PROVE  Needed.least \in Nat /\ Needed.most \in Nat
<1> DEFINE base == [least |-> 0, most |-> 0]
<1>1. Amount({}, base, 0)
  BY DEF Amount
<1>2. \A k \in 1..Len(virt_list) : \A v :
        Amount({}, v, k - 1) => Amount({}, NeededFor(v, virt_list[k]), k)
  <2> TAKE k \in 1..Len(virt_list)
  <2> TAKE v
  <2> HAVE Amount({}, v, k - 1)
  <2> DEFINE id == virt_list[k]
  <2>1. id \in Ids
    OBVIOUS
  <2> HIDE DEF id
  <2>2. /\ v.least \in Nat /\ v.most \in Nat
        /\ Arrays[id].maxaccess * Arrays[id].width \in Nat /\ Arrays[id].rows * Arrays[id].width \in Nat
    <3>1. Arrays[id].width \in Nat /\ Arrays[id].rows \in Nat /\ Arrays[id].maxaccess \in Nat
      BY <2>1, RowsType, ArrayType
    <3>2. \A a, b \in Nat : a * b \in Nat
      OBVIOUS
    <3>3. Arrays[id].maxaccess * Arrays[id].width \in Nat
      BY <3>1, <3>2, Zenon
    <3>4. Arrays[id].rows * Arrays[id].width \in Nat
      BY <3>1, <3>2, Zenon
    <3>5. v.least \in Nat /\ v.most \in Nat
      BY Zenon DEF Amount
    <3> QED BY <3>3, <3>4, <3>5
  <2> DEFINE x == Arrays[id].maxaccess * Arrays[id].width
             y == Arrays[id].rows * Arrays[id].width
  <2>3. v.least \in Nat /\ v.most \in Nat /\ x \in Nat /\ y \in Nat
    BY <2>2
  <2>4. NeededFor(v, id) = v \/ NeededFor(v, id) = [least |-> v.least + x, most |-> v.most + y]
    BY DEF NeededFor
  <2> HIDE DEF x, y
  <2>5. Amount({}, NeededFor(v, id), k)
    BY <2>3, <2>4 DEF Amount
  <2> QED BY <2>5 DEF id
<1>3. Amount({}, Needs!Fold(base, virt_list), Len(virt_list))
  <2> HIDE DEF base
  <2> QED BY <1>1, <1>2, Needs!FoldKeeps
<1> QED BY <1>3, NeedsFold DEF Amount, Needed

\* Without files every array gets a buffer of its height.
Heights(h) == h \in Nat \ {0} /\ (~backing => h = AnyHeight)

LEMMA HeightsRight ==
    ASSUME virt_list \in Seq(Ids), mem \in Manager, max_memory_to_use \in Nat, Needed.least > 0
    PROVE  Heights(MaxMinHeights)
<1> DEFINE avail == IF backing THEN max_memory_to_use - mem.total ELSE Needed.most
<1>1. avail \in Int /\ Needed.least \in Nat \ {0} /\ Needed.most \in Nat
  BY NeededType DEF Manager
<1>2. ~backing => avail = Needed.most
  OBVIOUS
<1>3. MaxMinHeights = IF avail >= Needed.most THEN AnyHeight
                      ELSE IF avail < Needed.least THEN 1 ELSE avail \div Needed.least
  BY DEF MaxMinHeights
<1> HIDE DEF avail
<1>0. AnyHeight \in Nat \ {0}
  BY DEF AnyHeight
<1>4. avail >= Needed.least => avail \div Needed.least \in Nat \ {0}
  BY <1>1
<1> QED BY <1>0, <1>1, <1>2, <1>3, <1>4 DEF Heights

\* What happens to the arrays: one without a buffer may get one, of which nothing is
\* defined yet.
Fresh(id, b) == BufferRight(id, b) /\ b.first_undef_row = 0
Realized(id, a, b) == b = a \/ (Requested(a) /\ (Requested(b) \/ Fresh(id, b)))
Realizing(given, s, k) ==
    /\ Right(s.m, s.objs) /\ DOMAIN s.va = Ids
    /\ \A id \in Ids : Realized(id, given[id], s.va[id])

LEMMA FreshRight ==
    ASSUME NEW id \in Ids, NEW fits \in BOOLEAN, NEW n \in 1..Arrays[id].rows,
           IF fits THEN n = Arrays[id].rows ELSE Arrays[id].maxaccess <= n,
           NEW per \in Nat \ {0}, NEW b,
           b = [buffer |-> [k \in 0..n - 1 |-> Garbage], rows_in_mem |-> n,
                rowsperchunk |-> per, cur_start_row |-> 0,
                first_undef_row |-> 0, dirty |-> FALSE, b_s_open |-> ~fits,
                file |-> [k \in 0..Arrays[id].rows - 1 |-> Garbage]]
    PROVE  Fresh(id, b)
<1>1. Arrays[id].rows \in Nat \ {0}
  BY RowsType
<1> DEFINE buffer == [k \in 0..n - 1 |-> Garbage]
           file == [k \in 0..Arrays[id].rows - 1 |-> Garbage]
<1>2. buffer \in [0..n - 1 -> Row] /\ file \in [0..Arrays[id].rows - 1 -> Row]
  BY DEF Row
<1>3. b = [buffer |-> buffer, rows_in_mem |-> n, rowsperchunk |-> per, cur_start_row |-> 0,
           first_undef_row |-> 0, dirty |-> FALSE, b_s_open |-> ~fits, file |-> file]
  OBVIOUS
<1> HIDE DEF buffer, file
<1>4. b \in Control(id, n)
  BY <1>1, <1>2, <1>3 DEF Control
<1>5. /\ b.first_undef_row = 0 /\ b.cur_start_row = 0 /\ b.rows_in_mem = n
      /\ b.b_s_open = ~fits
  BY <1>3
<1>6. \A r \in 0..b.first_undef_row - 1 : RowOf(b, r) = b.file[r]
  BY <1>5
<1> QED BY <1>4, <1>5, <1>6 DEF Fresh, BufferRight

LEMMA RealizeOneRight ==
    ASSUME NEW given, NEW s, Realizing(given, s, 0), NEW id \in Ids,
           NEW h, Heights(h), backing \in BOOLEAN,
           \A x \in Ids : Requested(given[x]) \/ BufferRight(x, given[x])
    PROVE  Realizing(given, RealizeOne(s, id, h), 0)
<1> DEFINE array == Arrays[id]
           fits  == (array.rows - 1) \div array.maxaccess + 1 <= h
           inmem == IF fits THEN array.rows ELSE h * array.maxaccess
           r     == IF ~fits /\ s.files = 0 THEN [m |-> Failed(s.m, "temporary file"), place |-> {}]
                    ELSE AllocRows(s.m, JPOOL_IMAGE, array.width, inmem)
           b     == IF r.m.err # "none" THEN [s.va[id] EXCEPT !.b_s_open = backing /\ ~fits /\ s.files # 0]
                    ELSE [buffer |-> [k \in 0..inmem - 1 |-> Garbage], rows_in_mem |-> inmem,
                          rowsperchunk |-> r.m.rowsperchunk, cur_start_row |-> 0,
                          first_undef_row |-> 0, dirty |-> FALSE, b_s_open |-> ~fits,
                          file |-> [k \in 0..array.rows - 1 |-> Garbage]]
           files == IF fits THEN s.files ELSE s.files - 1
           t     == [m |-> r.m, objs |-> s.objs \cup r.place, files |-> files, va |-> [s.va EXCEPT ![id] = b]]
<1>1. array.rows \in Nat \ {0} /\ array.rows <= AnyHeight /\ array.maxaccess \in Nat \ {0}
      /\ AnyHeight \in Nat \ {0} /\ array.width \in Nat \ {0} /\ h \in Nat \ {0}
  BY RowsType, ArrayType DEF Heights
<1> DEFINE rows == array.rows
           maxaccess == array.maxaccess
<1>2. ~backing => fits
  <2>1. rows \in Nat \ {0} /\ rows <= AnyHeight /\ maxaccess \in Nat \ {0} /\ AnyHeight \in Nat
        /\ (~backing => h = AnyHeight)
    BY <1>1 DEF Heights
  <2> HIDE DEF rows, maxaccess, array
  <2>2. (rows - 1) \div maxaccess <= rows - 1
    BY <2>1
  <2> DEFINE q == (rows - 1) \div maxaccess
  <2>3. q \in Int /\ q <= rows - 1
    BY <2>1, <2>2
  <2> HIDE DEF q
  <2>4. ~backing => q + 1 <= h
    BY <2>1, <2>3
  <2> QED BY <2>4 DEF q, rows, maxaccess, array
<1>3. inmem \in 1..rows /\ IF fits THEN inmem = rows ELSE maxaccess <= inmem
  <2>1. rows \in Nat \ {0} /\ maxaccess \in Nat \ {0} /\ h \in Nat \ {0}
    BY <1>1
  <2>2. CASE fits
    BY <2>1, <2>2
  <2>3. CASE ~fits
    <3> DEFINE q == (rows - 1) \div maxaccess
    <3>1. q \in Nat /\ q * maxaccess <= rows - 1
      <4> HIDE DEF rows, maxaccess
      <4> QED BY <2>1
    <3>2. ~(q + 1 <= h)
      BY <2>3
    <3> HIDE DEF q, rows, maxaccess
    <3>3. h <= q
      BY <2>1, <3>1, <3>2
    <3>4. h * maxaccess <= q * maxaccess /\ maxaccess <= h * maxaccess /\ h * maxaccess \in Nat
      BY <2>1, <3>1, <3>3
    <3> DEFINE x == h * maxaccess
               y == q * maxaccess
    <3>5. x \in Nat /\ y \in Nat /\ y <= rows - 1 /\ x <= y /\ maxaccess <= x
      BY <2>1, <3>1, <3>4
    <3> HIDE DEF x, y
    <3>6. x \in 1..rows /\ maxaccess <= x
      BY <2>1, <3>5
    <3>7. inmem = x
      BY <2>3 DEF x, maxaccess
    <3> QED BY <2>3, <3>6, <3>7
  <2> QED BY <2>2, <2>3
<1>4. \/ RealizeOne(s, id, h) = s
      \/ s.m.err = "none" /\ s.va[id].buffer = <<>> /\ RealizeOne(s, id, h) = t
  BY <1>2 DEF RealizeOne
<1>5. CASE RealizeOne(s, id, h) = s
  BY <1>5
<1>6. CASE s.m.err = "none" /\ s.va[id].buffer = <<>> /\ RealizeOne(s, id, h) = t
  <2>1. Right(s.m, s.objs) /\ JPOOL_IMAGE \in Pools /\ inmem \in Nat \ {0}
    BY <1>1, <1>3 DEF Realizing, Pools
  <2> DEFINE width == array.width
  <2>2. \/ width \in Nat \ {0} /\ r = AllocRows(s.m, JPOOL_IMAGE, width, inmem)
        \/ r = [m |-> Failed(s.m, "temporary file"), place |-> {}]
    BY <1>1
  <2>3. Right(r.m, s.objs \cup r.place) /\ (r.m.err = "none" => r.m.rowsperchunk \in Nat \ {0})
    <3> HIDE DEF inmem, r, width
    <3>1. CASE width \in Nat \ {0} /\ r = AllocRows(s.m, JPOOL_IMAGE, width, inmem)
      BY <2>1, <3>1, AllocRowsRight
    <3>2. CASE r = [m |-> Failed(s.m, "temporary file"), place |-> {}]
      <4>1. "temporary file" \in Errors \ {"gone", "virtual bug", "no backing store"}
        BY DEF Errors
      <4>2. Right(Failed(s.m, "temporary file"), s.objs)
        BY <2>1, <4>1, FailedRight
      <4>3. r.m = Failed(s.m, "temporary file") /\ s.objs \cup r.place = s.objs
        BY <3>2
      <4>4. r.m.err = "temporary file"
        BY <2>1, <4>3 DEF Failed, Right, Manager
      <4> QED BY <4>2, <4>3, <4>4
    <3> QED BY <2>2, <3>1, <3>2
  <2> HIDE DEF r
  <2>4. Requested(s.va[id]) /\ Requested(given[id])
    <3>1. ~BufferRight(id, s.va[id])
      BY <1>6, BufferThere
    <3>2. Realized(id, given[id], s.va[id])
      BY DEF Realizing
    <3> QED BY <3>1, <3>2 DEF Realized, Fresh
  <2>5. Requested(b) \/ Fresh(id, b)
    <3>1. CASE r.m.err # "none"
      <4> DEFINE a == s.va[id]
                 open == backing /\ ~fits /\ s.files # 0
      <4>1. open \in BOOLEAN /\ b = [a EXCEPT !.b_s_open = open]
        BY <3>1
      <4>2. Requested(a)
        BY <2>4
      <4> HIDE DEF a, open, b
      <4>3. CASE a = NoControl
        BY <4>1, <4>3 DEF Requested, NoControl
      <4>4. CASE a \in [buffer : {<<>>}, b_s_open : BOOLEAN]
        BY <4>1, <4>4 DEF Requested
      <4> QED BY <4>2, <4>3, <4>4 DEF Requested
    <3>2. CASE r.m.err = "none"
      <4> DEFINE per == r.m.rowsperchunk
      <4>1. b = [buffer |-> [k \in 0..inmem - 1 |-> Garbage], rows_in_mem |-> inmem,
                 rowsperchunk |-> per, cur_start_row |-> 0,
                 first_undef_row |-> 0, dirty |-> FALSE, b_s_open |-> ~fits,
                 file |-> [k \in 0..Arrays[id].rows - 1 |-> Garbage]]
        BY <3>2
      <4>2. /\ per \in Nat \ {0} /\ fits \in BOOLEAN /\ inmem \in 1..Arrays[id].rows
            /\ IF fits THEN inmem = Arrays[id].rows ELSE Arrays[id].maxaccess <= inmem
        BY <1>3, <2>3, <3>2
      <4> HIDE DEF per, inmem, fits, b
      <4>3. Fresh(id, b)
        BY <4>1, <4>2, FreshRight
      <4> QED BY <4>3
    <3> QED BY <3>1, <3>2
  <2> HIDE DEF b
  <2>6. t.m = r.m /\ t.objs = s.objs \cup r.place /\ t.va = [s.va EXCEPT ![id] = b]
    OBVIOUS
  <2>7. DOMAIN s.va = Ids /\ \A x \in Ids : Realized(x, given[x], s.va[x])
    BY DEF Realizing
  <2> HIDE DEF t
  <2>8. DOMAIN t.va = Ids /\ t.va[id] = b /\ \A x \in Ids \ {id} : t.va[x] = s.va[x]
    BY <2>6, <2>7
  <2>9. \A x \in Ids : Realized(x, given[x], t.va[x])
    <3> TAKE x \in Ids
    <3>1. CASE x = id
      BY <2>4, <2>5, <2>8, <3>1 DEF Realized
    <3> QED BY <2>7, <2>8, <3>1
  <2>10. Right(t.m, t.objs)
    BY <2>3, <2>6
  <2>11. Realizing(given, t, 0)
    BY <2>8, <2>9, <2>10 DEF Realizing
  <2> QED BY <1>6, <2>11
<1> QED BY <1>4, <1>5, <1>6

Samples == INSTANCE FoldFacts WITH Op <- RealizeSamples, P <- Realizing
Blocks == INSTANCE FoldFacts WITH Op <- RealizeBlocks, P <- Realizing

LEMMA SamplesFold ==
    ASSUME NEW base, NEW s
    PROVE  FoldLeft(RealizeSamples, base, s) = Samples!Fold(base, s)
BY DEF FoldLeft, Samples!Fold, MapThenFoldSet, Max, Samples!Greatest

LEMMA BlocksFold ==
    ASSUME NEW base, NEW s
    PROVE  FoldLeft(RealizeBlocks, base, s) = Blocks!Fold(base, s)
BY DEF FoldLeft, Blocks!Fold, MapThenFoldSet, Max, Blocks!Greatest

\* Both loops together.
LEMMA RealizeRight ==
    ASSUME NEW given, \A x \in Ids : Requested(given[x]) \/ BufferRight(x, given[x]),
           NEW base, Realizing(given, base, 0), backing \in BOOLEAN,
           virt_list \in Seq(Ids), Heights(MaxMinHeights),
           NEW s, s = FoldLeft(RealizeBlocks, FoldLeft(RealizeSamples, base, virt_list), virt_list)
    PROVE  Realizing(given, s, 0)
<1> DEFINE n == Len(virt_list)
           samples == FoldLeft(RealizeSamples, base, virt_list)
<1>1. \A k \in 1..n : virt_list[k] \in Ids
  OBVIOUS
<1>2. ASSUME NEW id \in Ids, NEW v, Realizing(given, v, 0)
      PROVE  Realizing(given, RealizeOne(v, id, MaxMinHeights), 0)
  BY <1>2, RealizeOneRight
<1>3. \A v, j, k : Realizing(given, v, j) => Realizing(given, v, k)
  BY DEF Realizing
<1>4. \A k \in 1..n : \A v :
        Realizing(given, v, k - 1) => Realizing(given, RealizeSamples(v, virt_list[k]), k)
  <2> TAKE k \in 1..n
  <2> TAKE v
  <2> HAVE Realizing(given, v, k - 1)
  <2> DEFINE id == virt_list[k]
  <2>1. id \in Ids /\ Realizing(given, v, 0)
    BY <1>1, <1>3
  <2> HIDE DEF id
  <2>2. Realizing(given, RealizeSamples(v, id), 0)
    BY <1>2, <2>1 DEF RealizeSamples
  <2> QED BY <1>3, <2>2 DEF id
<1>5. \A k \in 1..n : \A v :
        Realizing(given, v, k - 1) => Realizing(given, RealizeBlocks(v, virt_list[k]), k)
  <2> TAKE k \in 1..n
  <2> TAKE v
  <2> HAVE Realizing(given, v, k - 1)
  <2> DEFINE id == virt_list[k]
  <2>1. id \in Ids /\ Realizing(given, v, 0)
    BY <1>1, <1>3
  <2> HIDE DEF id
  <2>2. Realizing(given, RealizeBlocks(v, id), 0)
    BY <1>2, <2>1 DEF RealizeBlocks
  <2> QED BY <1>3, <2>2 DEF id
<1>6. Realizing(given, Samples!Fold(base, virt_list), n)
  BY <1>4, Samples!FoldKeeps
<1>7. Realizing(given, samples, 0)
  BY <1>3, <1>6, SamplesFold
<1> HIDE DEF samples
<1>8. Realizing(given, Blocks!Fold(samples, virt_list), n)
  BY <1>5, <1>7, Blocks!FoldKeeps
<1>9. s = FoldLeft(RealizeBlocks, samples, virt_list)
  BY DEF samples
<1> QED BY <1>3, <1>8, <1>9, BlocksFold

-----------------------------------------------------------------------------
(* access_virt_sarray() and access_virt_barray()                           *)

LEMMA LeastOfFour ==
    ASSUME NEW a \in Int, NEW b \in Int, NEW c \in Int, NEW d \in Int
    PROVE  /\ Min({a, b, c, d}) \in {a, b, c, d} /\ Min({a, b, c, d}) <= a
           /\ Min({a, b, c, d}) <= b /\ Min({a, b, c, d}) <= c /\ Min({a, b, c, d}) <= d
<1> DEFINE x == Min({a, b})
           y == Min({c, d})
           z == Min({x, y})
<1>1. x \in {a, b} /\ x <= a /\ x <= b
  BY LeastOfTwo
<1>2. y \in {c, d} /\ y <= c /\ y <= d
  BY LeastOfTwo
<1>3. x \in Int /\ y \in Int
  BY <1>1, <1>2
<1> HIDE DEF x, y
<1>4. z \in {x, y} /\ z <= x /\ z <= y
  BY <1>3, LeastOfTwo
<1> HIDE DEF z
<1>5. z \in {a, b, c, d} /\ z <= a /\ z <= b /\ z <= c /\ z <= d
  BY <1>1, <1>2, <1>3, <1>4
<1> DEFINE T == {a, b, c, d}
<1>6. \E t \in T : \A u \in T : t <= u
  BY <1>5
<1>7. Min(T) \in T /\ \A u \in T : Min(T) <= u
  BY <1>6 DEF Min
<1> QED BY <1>7

LEMMA GreatestOfTwo ==
    ASSUME NEW a \in Int, NEW b \in Int
    PROVE  Max({a, b}) \in {a, b} /\ Max({a, b}) >= a /\ Max({a, b}) >= b
<1> DEFINE T == {a, b}
<1>1. \E x \in T : \A y \in T : x >= y
  <2>1. CASE a >= b
    BY <2>1
  <2>2. CASE ~(a >= b)
    BY <2>2
  <2> QED BY <2>1, <2>2
<1>2. Max(T) \in T /\ \A y \in T : Max(T) >= y
  BY <1>1 DEF Max
<1> QED BY <1>2

\* What an array with a buffer is made of.
LEMMA ControlType ==
    ASSUME NEW id, NEW n, NEW a \in Control(id, n)
    PROVE  /\ a.buffer \in [0..n - 1 -> Row] /\ DOMAIN a.buffer = 0..n - 1 /\ a.rows_in_mem = n
           /\ a.rowsperchunk \in Nat \ {0} /\ a.cur_start_row \in Nat
           /\ a.first_undef_row \in 0..Arrays[id].rows /\ a.dirty \in BOOLEAN
           /\ a.b_s_open \in BOOLEAN /\ a.file \in [0..Arrays[id].rows - 1 -> Row]
BY DEF Control

\* The chunk that a row of the buffer lies in.
LEMMA ChunkOf ==
    ASSUME NEW x \in Nat, NEW per \in Nat \ {0}
    PROVE  \E k \in 0..x : k % per = 0 /\ x < k + per
<1> DEFINE q == x \div per
           k == q * per
<1>1. q \in Nat /\ k <= x /\ x < k + per
  OBVIOUS
<1> HIDE DEF q
<1>2. k \in 0..x /\ k % per = 0
  <2>1. k \in Nat
    BY <1>1
  <2>2. k % per = 0
    BY <1>1
  <2> QED BY <1>1, <2>1, <2>2
<1> QED BY <1>1, <1>2

\* Transferred are the rows of the buffer that are defined.
LEMMA TransferredRows ==
    ASSUME NEW id \in Ids, NEW n \in Nat \ {0}, NEW a \in Control(id, n)
    PROVE  /\ Transferred(id, a) \subseteq 0..n - 1
           /\ \A x \in 0..n - 1 :
                x \in Transferred(id, a) <=> a.cur_start_row + x < a.first_undef_row
<1> DEFINE rows == Arrays[id].rows
           per == a.rowsperchunk
           cur == a.cur_start_row
           undef == a.first_undef_row
           starts == {k \in 0..n - 1 : k % per = 0}
           Count(k) == Min({per, n - k, undef - (cur + k), rows - (cur + k)})
<1>1. rows \in Nat /\ per \in Nat \ {0} /\ cur \in Nat /\ undef \in 0..rows /\ a.rows_in_mem = n
  BY ControlType, RowsType
<1>2. Transferred(id, a)
        = UNION {k..k + Count(k) - 1 : k \in {j \in starts : \A i \in starts : i <= j => Count(i) > 0}}
  BY <1>1 DEF Transferred
<1> HIDE DEF rows, per, cur, undef
<1>3. ASSUME NEW k \in 0..n - 1
      PROVE  /\ Count(k) \in {per, n - k, undef - (cur + k), rows - (cur + k)}
             /\ Count(k) <= per /\ Count(k) <= n - k /\ Count(k) <= undef - (cur + k)
  <2> DEFINE b == n - k
             c == undef - (cur + k)
             d == rows - (cur + k)
  <2>1. per \in Int /\ b \in Int /\ c \in Int /\ d \in Int
    BY <1>1
  <2>2. Count(k) = Min({per, b, c, d})
    OBVIOUS
  <2> HIDE DEF b, c, d
  <2> DEFINE least == Min({per, b, c, d})
  <2>3. least \in {per, b, c, d} /\ least <= per /\ least <= b /\ least <= c
    BY <2>1, LeastOfFour
  <2>4. Count(k) = least
    BY <2>2
  <2> HIDE DEF Count, least
  <2>5. /\ Count(k) \in {per, b, c, d} /\ Count(k) <= per /\ Count(k) <= b /\ Count(k) <= c
    BY <2>3, <2>4
  <2> QED BY <2>5 DEF b, c, d
<1> HIDE DEF Count
<1>4. ASSUME NEW x \in Transferred(id, a)
      PROVE  x \in 0..n - 1 /\ cur + x < undef
  <2>1. PICK k \in starts : x \in k..k + Count(k) - 1
    BY <1>2
  <2>2. Count(k) \in Int /\ Count(k) <= undef - (cur + k) /\ Count(k) <= n - k
    BY <1>1, <1>3
  <2> QED BY <1>1, <2>1, <2>2
<1>5. ASSUME NEW x \in 0..n - 1, cur + x < undef
      PROVE  x \in Transferred(id, a)
  <2>0. x \in Nat
    OBVIOUS
  <2>1. PICK k \in 0..x : k % per = 0 /\ x < k + per
    BY <1>1, <2>0, ChunkOf
  <2>2. k \in starts
    BY <2>1
  <2>3. \A i \in starts : i <= k => Count(i) > 0
    <3> TAKE i \in starts
    <3> HAVE i <= k
    <3>1. Count(i) \in {per, n - i, undef - (cur + i), rows - (cur + i)}
      BY <1>3
    <3> QED BY <1>1, <1>5, <3>1
  <2>4. x \in k..k + Count(k) - 1
    <3>1. Count(k) \in {per, n - k, undef - (cur + k), rows - (cur + k)}
      BY <1>3
    <3> QED BY <1>1, <1>5, <2>1, <3>1
  <2> HIDE DEF starts
  <2> QED BY <1>2, <2>2, <2>3, <2>4
<1> QED BY <1>4, <1>5 DEF cur, undef

\* Written out, the file has every row that is defined.
RowsSaved(id, n, a, b) ==
    /\ b \in Control(id, n) /\ b.b_s_open = a.b_s_open
    /\ b.cur_start_row = a.cur_start_row /\ b.first_undef_row = a.first_undef_row
    /\ \A r \in 0..a.first_undef_row - 1 : b.file[r] = RowOf(a, r)

LEMMA WriteOutRight ==
    ASSUME NEW id \in Ids, NEW n \in Nat \ {0}, NEW a \in Control(id, n)
    PROVE  RowsSaved(id, n, a, WriteOut(id, a))
<1> DEFINE rows == Arrays[id].rows
           cur == a.cur_start_row
           undef == a.first_undef_row
           file == [r \in DOMAIN a.file |->
                       IF r - cur \in Transferred(id, a) THEN a.buffer[r - cur] ELSE a.file[r]]
<1>1. /\ a.buffer \in [0..n - 1 -> Row] /\ cur \in Nat /\ undef \in 0..rows /\ rows \in Nat
      /\ a.file \in [0..rows - 1 -> Row] /\ a.rows_in_mem = n /\ DOMAIN a.buffer = 0..n - 1
  BY ControlType, RowsType
<1> DEFINE b == WriteOut(id, a)
<1>2. b = [a EXCEPT !.file = file]
  BY DEF WriteOut
<1>3. \A x \in 0..n - 1 : x \in Transferred(id, a) <=> cur + x < undef
  BY TransferredRows
<1>4. Transferred(id, a) \subseteq 0..n - 1
  BY TransferredRows
<1>5. file \in [0..rows - 1 -> Row]
  <2> HIDE DEF rows, cur
  <2>1. \A r \in 0..rows - 1 : r - cur \in Transferred(id, a) => a.buffer[r - cur] \in Row
    BY <1>1, <1>4
  <2> QED BY <1>1, <2>1
<1>6. \A r \in 0..undef - 1 : file[r] = RowOf(a, r)
  <2> TAKE r \in 0..undef - 1
  <2>1. r \in DOMAIN a.file
    BY <1>1
  <2>2. file[r] = IF r - cur \in Transferred(id, a) THEN a.buffer[r - cur] ELSE a.file[r]
    BY <2>1
  <2>3. RowOf(a, r) = IF r - cur \in 0..n - 1 THEN a.buffer[r - cur] ELSE a.file[r]
    BY <1>1 DEF RowOf
  <2>4. r - cur \in 0..n - 1 => r - cur \in Transferred(id, a)
    <3> HIDE DEF cur, undef
    <3>1. cur + (r - cur) = r
      BY <1>1
    <3> QED BY <1>1, <1>3, <3>1
  <2> HIDE DEF file, cur
  <2> QED BY <1>4, <2>2, <2>3, <2>4
<1> HIDE DEF file, b
<1>7. b \in Control(id, n)
  BY <1>2, <1>5 DEF Control
<1>8. /\ b.file = file /\ b.b_s_open = a.b_s_open
      /\ b.cur_start_row = a.cur_start_row /\ b.first_undef_row = a.first_undef_row
  BY <1>2 DEF Control
<1>9. RowsSaved(id, n, a, b)
  BY <1>6, <1>7, <1>8 DEF RowsSaved
<1> QED BY <1>9 DEF b

\* Read in, the buffer has those of them that belong in it.
RowsFilled(id, n, a, b) ==
    /\ b \in Control(id, n) /\ b.b_s_open = a.b_s_open /\ b.dirty = a.dirty
    /\ b.cur_start_row = a.cur_start_row /\ b.first_undef_row = a.first_undef_row
    /\ b.file = a.file
    /\ \A r \in 0..a.first_undef_row - 1 : RowOf(b, r) = a.file[r]

LEMMA ReadInRight ==
    ASSUME NEW id \in Ids, NEW n \in Nat \ {0}, NEW a \in Control(id, n)
    PROVE  RowsFilled(id, n, a, ReadIn(id, a))
<1> DEFINE rows == Arrays[id].rows
           cur == a.cur_start_row
           undef == a.first_undef_row
           buffer == [k \in DOMAIN a.buffer |->
                         IF k \in Transferred(id, a) THEN a.file[cur + k] ELSE a.buffer[k]]
<1>1. /\ a.buffer \in [0..n - 1 -> Row] /\ cur \in Nat /\ undef \in 0..rows /\ rows \in Nat
      /\ a.file \in [0..rows - 1 -> Row] /\ a.rows_in_mem = n /\ DOMAIN a.buffer = 0..n - 1
  BY ControlType, RowsType
<1> DEFINE b == ReadIn(id, a)
<1>2. b = [a EXCEPT !.buffer = buffer]
  BY DEF ReadIn
<1>3. \A x \in 0..n - 1 : x \in Transferred(id, a) <=> cur + x < undef
  BY TransferredRows
<1>4. buffer \in [0..n - 1 -> Row] /\ DOMAIN buffer = 0..n - 1
  <2> HIDE DEF rows, cur, undef
  <2>1. \A k \in 0..n - 1 : k \in Transferred(id, a) => a.file[cur + k] \in Row
    <3> TAKE k \in 0..n - 1
    <3> HAVE k \in Transferred(id, a)
    <3>1. cur + k \in 0..rows - 1
      BY <1>1, <1>3
    <3> QED BY <1>1, <3>1
  <2> QED BY <1>1, <2>1
<1>5. \A r \in 0..undef - 1 : r - cur \in 0..n - 1 => buffer[r - cur] = a.file[r]
  <2> TAKE r \in 0..undef - 1
  <2> HAVE r - cur \in 0..n - 1
  <2> DEFINE k == r - cur
  <2>1. k \in 0..n - 1 /\ cur + k = r
    BY <1>1
  <2> HIDE DEF k, cur, undef
  <2>2. k \in Transferred(id, a) /\ k \in DOMAIN a.buffer
    BY <1>1, <1>3, <2>1
  <2>3. buffer[k] = a.file[cur + k]
    BY <2>2
  <2> QED BY <2>1, <2>3 DEF k
<1> HIDE DEF buffer, b
<1>6. b \in Control(id, n)
  BY <1>2, <1>4 DEF Control
<1>7. /\ b.buffer = buffer /\ b.b_s_open = a.b_s_open /\ b.dirty = a.dirty /\ b.file = a.file
      /\ b.cur_start_row = a.cur_start_row /\ b.first_undef_row = a.first_undef_row
  BY <1>2 DEF Control
<1>8. \A r \in 0..undef - 1 : RowOf(b, r) = a.file[r]
  BY <1>4, <1>5, <1>7 DEF RowOf
<1>9. RowsFilled(id, n, a, b)
  BY <1>6, <1>7, <1>8 DEF RowsFilled
<1> QED BY <1>9 DEF b

\* A buffer that is moved holds the strip, and what it stands for is the same.
LEMMA MovedRight ==
    ASSUME NEW id \in Ids, NEW a, BufferRight(id, a), a.b_s_open,
           NEW start \in Nat, NEW num \in Nat \ {0}, num <= Arrays[id].maxaccess,
           start + num <= Arrays[id].rows, NEW b, b = Moved(id, a, start, start + num)
    PROVE  /\ BufferRight(id, b) /\ Reaches(id, b, start, start + num)
           /\ b.first_undef_row = a.first_undef_row
           /\ \A r \in 0..a.first_undef_row - 1 : RowOf(b, r) = RowOf(a, r)
<1> DEFINE end == start + num
           undef == a.first_undef_row
           saved == IF a.dirty THEN [WriteOut(id, a) EXCEPT !.dirty = FALSE] ELSE a
           to == IF start > saved.cur_start_row THEN start ELSE Max({end - a.rows_in_mem, 0})
           c == [saved EXCEPT !.cur_start_row = to]
<1>1. PICK n \in 1..Arrays[id].rows : a \in Control(id, n)
  BY DEF BufferRight
<1>2. /\ n \in Nat \ {0} /\ a.rows_in_mem = n /\ a.cur_start_row \in Nat
      /\ undef \in 0..Arrays[id].rows /\ Arrays[id].maxaccess \in Nat \ {0}
      /\ Arrays[id].maxaccess <= n /\ Arrays[id].rows \in Nat \ {0}
  BY <1>1, ControlType, RowsType, ArrayType DEF BufferRight
<1>3. /\ saved \in Control(id, n) /\ saved.dirty = FALSE
      /\ saved.b_s_open /\ saved.cur_start_row = a.cur_start_row /\ saved.first_undef_row = undef
      /\ \A r \in 0..undef - 1 : saved.file[r] = RowOf(a, r)
  <2>1. CASE a.dirty
    <3> DEFINE w == WriteOut(id, a)
    <3>0. RowsSaved(id, n, a, w)
      BY <1>1, <1>2, WriteOutRight
    <3>1. /\ w \in Control(id, n) /\ w.b_s_open = a.b_s_open
          /\ w.cur_start_row = a.cur_start_row /\ w.first_undef_row = undef
          /\ \A r \in 0..undef - 1 : w.file[r] = RowOf(a, r)
      <4> HIDE DEF w
      <4> QED BY <3>0 DEF RowsSaved
    <3>2. saved = [w EXCEPT !.dirty = FALSE]
      BY <2>1
    <3> HIDE DEF w, saved, undef
    <3>3. /\ saved \in Control(id, n) /\ saved.dirty = FALSE /\ saved.b_s_open = w.b_s_open
          /\ saved.cur_start_row = w.cur_start_row /\ saved.first_undef_row = w.first_undef_row
          /\ saved.file = w.file
      BY <3>1, <3>2 DEF Control
    <3> QED BY <3>1, <3>3
  <2>2. CASE ~a.dirty
    <3>1. saved = a /\ a.dirty = FALSE
      BY <1>1, <2>2 DEF Control
    <3>2. \A r \in 0..undef - 1 : a.file[r] = RowOf(a, r)
      BY <2>2 DEF BufferRight
    <3> HIDE DEF saved
    <3> QED BY <1>1, <3>1, <3>2
  <2> QED BY <2>1, <2>2
<1>6. b = ReadIn(id, c)
  BY DEF Moved
<1> HIDE DEF saved
<1>4. to \in Nat /\ to <= start /\ end <= to + n
  <2>0. saved.cur_start_row = a.cur_start_row
    BY <1>3
  <2>1. CASE start > saved.cur_start_row
    BY <1>2, <2>0, <2>1
  <2>2. CASE ~(start > saved.cur_start_row)
    <3> DEFINE low == end - n
    <3>1. low \in Int /\ low <= start
      BY <1>2
    <3>2. to = Max({low, 0})
      BY <1>2, <2>2
    <3> DEFINE g == Max({low, 0})
    <3>3. g \in {low, 0} /\ g >= low /\ g >= 0
      <4> HIDE DEF low
      <4>1. low \in Int /\ 0 \in Int
        BY <3>1
      <4> QED BY <4>1, GreatestOfTwo
    <3>4. to = g
      BY <3>2
    <3> HIDE DEF g, to
    <3> QED BY <1>2, <2>0, <2>2, <3>1, <3>3, <3>4
  <2> QED BY <2>1, <2>2
<1> HIDE DEF to
<1>5. /\ c \in Control(id, n) /\ c.dirty = FALSE /\ c.b_s_open /\ c.cur_start_row = to
      /\ c.first_undef_row = undef /\ c.file = saved.file
  <2> HIDE DEF undef
  <2> QED BY <1>3, <1>4 DEF Control
<1> HIDE DEF c
<1>7. /\ b \in Control(id, n) /\ b.b_s_open = c.b_s_open /\ b.dirty = c.dirty
      /\ b.cur_start_row = c.cur_start_row /\ b.first_undef_row = c.first_undef_row
      /\ b.file = c.file /\ \A r \in 0..c.first_undef_row - 1 : RowOf(b, r) = c.file[r]
  <2>1. RowsFilled(id, n, c, b)
    <3>1. n \in Nat \ {0} /\ c \in Control(id, n)
      BY <1>2, <1>5
    <3> QED BY <1>6, <3>1, ReadInRight
  <2> QED BY <2>1 DEF RowsFilled
<1>8. b.first_undef_row = undef /\ \A r \in 0..undef - 1 : RowOf(b, r) = RowOf(a, r)
  <2> HIDE DEF undef
  <2> QED BY <1>3, <1>5, <1>7
<1>9. b.rows_in_mem = n
  BY <1>7, ControlType
<1>10. BufferRight(id, b)
  <2> HIDE DEF undef
  <2> QED BY <1>1, <1>2, <1>5, <1>7, <1>9 DEF BufferRight
<1>11. Reaches(id, b, start, end)
  BY <1>4, <1>5, <1>7, <1>9 DEF Reaches
<1> QED BY <1>8, <1>10, <1>11

\* The rows of a strip after its access: what was defined is as it was, what is to
\* be written next is defined, and the rest is zero where this was asked for.
MayAccess(id, a, start, end, w) ==
    /\ BufferRight(id, a) /\ Reaches(id, a, start, end)
    /\ ~(a.first_undef_row < end
         /\ (IF w THEN a.first_undef_row < start ELSE ~Arrays[id].pre_zero))
Prepared(id, a, b, start, end, w) ==
    /\ BufferRight(id, b) /\ b.cur_start_row = a.cur_start_row
    /\ b.rows_in_mem = a.rows_in_mem
    /\ b.first_undef_row = IF w /\ end > a.first_undef_row THEN end ELSE a.first_undef_row
    /\ w => b.dirty /\ start <= a.first_undef_row
    /\ \A r \in 0..a.first_undef_row - 1 : RowOf(b, r) = RowOf(a, r)
    /\ Arrays[id].pre_zero =>
        \A r \in start..end - 1 : r >= a.first_undef_row => RowOf(b, r) = ZeroRow

LEMMA DefinedRight ==
    ASSUME NEW id \in Ids, NEW a, NEW start \in Nat, NEW num \in Nat \ {0}, NEW w \in BOOLEAN,
           MayAccess(id, a, start, start + num, w)
    PROVE  Prepared(id, a, Defined(id, a, start, start + num, w), start, start + num, w)
<1> USE DEF MayAccess
<1> DEFINE b == Defined(id, a, start, start + num, w)
<1> DEFINE end == start + num
           undef == a.first_undef_row
           cur == a.cur_start_row
           from == Max({undef, start})
           buffer == [k \in DOMAIN a.buffer |->
                        IF Arrays[id].pre_zero /\ cur + k \in from..end - 1
                        THEN ZeroRow ELSE a.buffer[k]]
           last == IF w THEN Max({undef, end}) ELSE undef
<1>1. PICK n \in 1..Arrays[id].rows : a \in Control(id, n)
  BY DEF BufferRight
<1>2. /\ n \in Nat \ {0} /\ a.rows_in_mem = n /\ cur \in Nat /\ undef \in 0..Arrays[id].rows
      /\ Arrays[id].rows \in Nat \ {0} /\ DOMAIN a.buffer = 0..n - 1
      /\ a.buffer \in [0..n - 1 -> Row] /\ a.dirty \in BOOLEAN
  <2>1. Arrays[id].rows \in Nat \ {0}
    BY RowsType
  <2>2. n \in Nat \ {0}
    BY <2>1
  <2> QED BY <1>1, <2>1, <2>2, ControlType
<1>3. b = [a EXCEPT !.buffer = buffer, !.first_undef_row = last, !.dirty = @ \/ w]
  BY DEF Defined
<1>4. cur <= start /\ end <= cur + n /\ end <= Arrays[id].rows
  BY <1>2 DEF Reaches
<1>5. from \in Int /\ from >= undef /\ from >= start /\ from \in {undef, start}
  <2>1. undef \in Int /\ start \in Int
    BY <1>2
  <2> HIDE DEF undef
  <2>2. from \in {undef, start} /\ from >= undef /\ from >= start
    BY <2>1, GreatestOfTwo
  <2> HIDE DEF from
  <2> QED BY <2>1, <2>2
<1>6. last = IF w /\ end > undef THEN end ELSE undef
  <2> DEFINE g == Max({undef, end})
  <2>1. undef \in Int /\ end \in Int
    BY <1>2
  <2> HIDE DEF undef, end
  <2>2. g \in {undef, end} /\ g >= undef /\ g >= end
    BY <2>1, GreatestOfTwo
  <2>3. last = IF w THEN g ELSE undef
    OBVIOUS
  <2> HIDE DEF g, last
  <2> QED BY <2>1, <2>2, <2>3
<1>7. buffer \in [0..n - 1 -> Row] /\ DOMAIN buffer = 0..n - 1
  <2> HIDE DEF cur, from, end
  <2> QED BY <1>2 DEF Row
<1>8. \A r \in 0..undef - 1 : r - cur \in 0..n - 1 => buffer[r - cur] = a.buffer[r - cur]
  <2> TAKE r \in 0..undef - 1
  <2> HAVE r - cur \in 0..n - 1
  <2> HIDE DEF from, end, cur, undef
  <2>1. cur + (r - cur) = r /\ ~(r \in from..end - 1)
    BY <1>2, <1>5
  <2> QED BY <1>2, <2>1
<1>9. Arrays[id].pre_zero =>
        \A r \in start..end - 1 : r >= undef => r - cur \in 0..n - 1 /\ buffer[r - cur] = ZeroRow
  <2> HAVE Arrays[id].pre_zero
  <2> TAKE r \in start..end - 1
  <2> HAVE r >= undef
  <2> HIDE DEF from, cur, undef
  <2>1. end \in Nat
    OBVIOUS
  <2> HIDE DEF end
  <2>2. r \in Nat /\ r <= end - 1 /\ r >= start
    BY <2>1
  <2>3. r - cur \in 0..n - 1 /\ cur + (r - cur) = r
    BY <1>2, <1>4, <2>1, <2>2
  <2>4. r \in from..end - 1
    BY <1>2, <1>5, <2>1, <2>2
  <2> QED BY <1>2, <2>3, <2>4
<1> HIDE DEF buffer, last, b
<1>10. /\ b.buffer = buffer /\ b.first_undef_row = last /\ b.dirty = (a.dirty \/ w)
       /\ b.cur_start_row = cur /\ b.rows_in_mem = n /\ b.file = a.file /\ b.b_s_open = a.b_s_open
  BY <1>1, <1>2, <1>3 DEF Control
<1>11. b \in Control(id, n)
  <2>1. last \in 0..Arrays[id].rows /\ (a.dirty \/ w) \in BOOLEAN
    BY <1>2, <1>4, <1>6
  <2> QED BY <1>1, <1>3, <1>7, <2>1 DEF Control
<1>12. \A r \in 0..undef - 1 : RowOf(b, r) = RowOf(a, r)
  BY <1>2, <1>7, <1>8, <1>10 DEF RowOf
<1>13. Arrays[id].pre_zero =>
         \A r \in start..end - 1 : r >= undef => RowOf(b, r) = ZeroRow
  BY <1>7, <1>9, <1>10 DEF RowOf
<1>14. BufferRight(id, b)
  <2>1. ~b.dirty => \A r \in 0..b.first_undef_row - 1 : RowOf(b, r) = b.file[r]
    <3>1. SUFFICES ASSUME ~b.dirty PROVE \A r \in 0..b.first_undef_row - 1 : RowOf(b, r) = b.file[r]
      OBVIOUS
    <3>2. ~w /\ ~a.dirty
      BY <1>10, <3>1
    <3>3. last = undef
      BY <1>6, <3>2
    <3> QED BY <1>10, <1>12, <3>2, <3>3 DEF BufferRight
  <2> QED BY <1>2, <1>10, <1>11, <2>1 DEF BufferRight
<1>15. w => b.dirty /\ start <= undef
  <2>1. w => ~(undef < end /\ undef < start)
    OBVIOUS
  <2>2. undef \in Int /\ end \in Int /\ start < end
    BY <1>2
  <2> HIDE DEF undef, end
  <2>3. w => start <= undef
    BY <2>1, <2>2
  <2>4. w => b.dirty
    BY <1>2, <1>10
  <2> QED BY <2>3, <2>4
<1>16. Prepared(id, a, b, start, end, w)
  BY <1>2, <1>6, <1>10, <1>12, <1>13, <1>14, <1>15 DEF Prepared
<1> QED BY <1>16 DEF b

-----------------------------------------------------------------------------
(* Each step as a step of the plain arrays.                                *)

NoView == [rows |-> <<>>, writable |-> FALSE]

\* An array of which nothing is defined is empty, and without a strip nothing is seen.
LEMMA NothingThere ==
    ASSUME NEW a
    PROVE  ViewOf(a, NoStrip) = NoView /\ (DefinedOf(a) = 0 => ContentsOf(a) = <<>>)
<1>1. 0..0 + 0 - 1 = {} /\ 0..0 - 1 = {}
  OBVIOUS
<1>2. [r \in {} |-> RowOf(a, r)] = <<>>
  OBVIOUS
<1>3. ViewOf(a, NoStrip) = [rows |-> [r \in {} |-> RowOf(a, r)], writable |-> FALSE]
  BY <1>1 DEF ViewOf, NoStrip
<1>4. DefinedOf(a) = 0 => ContentsOf(a) = [r \in {} |-> RowOf(a, r)]
  BY <1>1 DEF ContentsOf
<1> QED BY <1>2, <1>3, <1>4 DEF NoView

LEMMA NothingDefined ==
    ASSUME NEW id \in Ids, NEW a, Requested(a) \/ Fresh(id, a)
    PROVE  DefinedOf(a) = 0
<1>1. CASE a = NoControl
  BY <1>1 DEF DefinedOf, HasBuffer
<1>2. CASE a \in [buffer : {<<>>}, b_s_open : BOOLEAN]
  BY <1>2 DEF DefinedOf, HasBuffer
<1>3. CASE Fresh(id, a)
  BY <1>3 DEF DefinedOf, Fresh
<1> QED BY <1>1, <1>2, <1>3 DEF Requested

LEMMA ArrayStill ==
    ASSUME NEW id \in Ids, varray'[id] = varray[id], strip'[id] = strip[id]
    PROVE  Array(id)!PlainStep
BY DEF Array!PlainStep, Array!plainVars

LEMMA ArrayEmpty ==
    ASSUME NEW id \in Ids, strip[id] = NoStrip, strip'[id] = NoStrip,
           DefinedOf(varray[id]) = 0, DefinedOf(varray[id])' = 0
    PROVE  Array(id)!PlainStep
<1>1. /\ ViewOf(varray[id], strip[id]) = NoView /\ ViewOf(varray[id], strip[id])' = NoView
      /\ ContentsOf(varray[id]) = <<>> /\ ContentsOf(varray[id])' = <<>>
  BY NothingThere
<1> QED BY <1>1 DEF Array!PlainStep, Array!plainVars

LEMMA ArrayGone ==
    ASSUME NEW id \in Ids, strip'[id] = NoStrip, DefinedOf(varray[id])' = 0
    PROVE  Array(id)!PlainStep
<1>1. ViewOf(varray[id], strip[id])' = NoView /\ ContentsOf(varray[id])' = <<>>
  BY NothingThere
<1> QED BY <1>1 DEF Array!PlainStep, Array!PlainNext, Array!Forget, Array!NoView, NoView

\* An access leaves what was defined, shows it, and shows zero where this was asked for.
Accessed(id, a, b, start, num, w) ==
    LET end == start + num
        undef == a.first_undef_row
    IN  /\ BufferRight(id, a) /\ BufferRight(id, b)
        /\ end <= Arrays[id].rows /\ num <= Arrays[id].maxaccess
        /\ b.first_undef_row = (IF w /\ end > undef THEN end ELSE undef)
        /\ w => start <= undef
        /\ ~w /\ ~Arrays[id].pre_zero => end <= undef
        /\ \A r \in 0..undef - 1 : RowOf(b, r) = RowOf(a, r)
        /\ Arrays[id].pre_zero => \A r \in start..end - 1 : r >= undef => RowOf(b, r) = ZeroRow

LEMMA UndefType ==
    ASSUME NEW id \in Ids, NEW a, BufferRight(id, a)
    PROVE  a.first_undef_row \in Nat /\ DefinedOf(a) = a.first_undef_row
<1>1. PICK n \in 1..Arrays[id].rows : a \in Control(id, n)
  BY DEF BufferRight
<1>2. a.first_undef_row \in Nat
  BY <1>1, ControlType, RowsType
<1>3. HasBuffer(a)
  BY BufferThere
<1> QED BY <1>2, <1>3 DEF DefinedOf

LEMMA AccessShown ==
    ASSUME NEW id \in Ids, NEW start \in Nat, NEW num \in Nat \ {0}, NEW w \in BOOLEAN,
           Accessed(id, varray[id], varray'[id], start, num, w),
           strip'[id] = [start |-> start, num |-> num, writable |-> w]
    PROVE  Array(id)!Access(start, num, w)
<1> DEFINE a == varray[id]
           b == varray'[id]
           end == start + num
           undef == a.first_undef_row
           now == b.first_undef_row
           view == ViewOf(varray[id], strip[id])'
<1>1. /\ BufferRight(id, a) /\ BufferRight(id, b)
      /\ end <= Arrays[id].rows /\ num <= Arrays[id].maxaccess
      /\ now = (IF w /\ end > undef THEN end ELSE undef)
      /\ w => start <= undef
      /\ ~w /\ ~Arrays[id].pre_zero => end <= undef
      /\ \A r \in 0..undef - 1 : RowOf(b, r) = RowOf(a, r)
      /\ Arrays[id].pre_zero => \A r \in start..end - 1 : r >= undef => RowOf(b, r) = ZeroRow
  BY DEF Accessed
<1>2. undef \in Nat /\ now \in Nat /\ DefinedOf(a) = undef /\ DefinedOf(b) = now /\ end \in Nat
  BY <1>1, UndefType
<1>3. ContentsOf(a) = [r \in 0..undef - 1 |-> RowOf(a, r)]
  BY <1>2 DEF ContentsOf
<1>4. ContentsOf(b) = [r \in 0..now - 1 |-> RowOf(b, r)]
  BY <1>2 DEF ContentsOf
<1>5. /\ view.writable = w
      /\ view.rows = [r \in start..end - 1 |-> RowOf(b, r)]
  BY DEF ViewOf
<1>6. /\ DefinedOf(varray[id])' = DefinedOf(b) /\ ContentsOf(varray[id])' = ContentsOf(b)
  OBVIOUS
<1> HIDE DEF a, b, end, undef, now, view
<1>7. \A r \in 0..now - 1 :
        IF r < undef THEN ContentsOf(b)[r] = ContentsOf(a)[r]
        ELSE Arrays[id].pre_zero => ContentsOf(b)[r] = ZeroRow
  <2> TAKE r \in 0..now - 1
  <2>1. ContentsOf(b)[r] = RowOf(b, r)
    BY <1>4
  <2>2. CASE r < undef
    BY <1>1, <1>2, <1>3, <2>1, <2>2
  <2>3. CASE ~(r < undef)
    <3>1. w /\ now = end /\ r \in start..end - 1
      BY <1>1, <1>2, <2>3
    <3> QED BY <1>1, <1>2, <2>1, <2>3, <3>1
  <2> QED BY <2>2, <2>3
<1>8. \A r \in start..end - 1 :
        view.rows[r] = IF r < now THEN ContentsOf(b)[r] ELSE ZeroRow
  <2> TAKE r \in start..end - 1
  <2>1. view.rows[r] = RowOf(b, r)
    BY <1>5
  <2>2. CASE r < now
    <3>1. r \in 0..now - 1
      BY <1>2, <2>2
    <3> QED BY <1>4, <2>1, <2>2, <3>1
  <2>3. CASE ~(r < now)
    <3>1. ~w /\ now = undef /\ r >= undef /\ Arrays[id].pre_zero
      BY <1>1, <1>2, <2>3
    <3> QED BY <1>1, <2>1, <2>3, <3>1
  <2> QED BY <2>2, <2>3
<1>9. DOMAIN view.rows = start..end - 1 /\ DOMAIN ContentsOf(b) = 0..now - 1
  BY <1>4, <1>5
<1> QED BY <1>1, <1>2, <1>5, <1>6, <1>7, <1>8, <1>9
        DEF Array!Access, Array!Seen, a, b, end, undef, now, view

LEMMA ArrayGivenUp ==
    ASSUME NEW id \in Ids, BufferRight(id, varray[id]), BufferRight(id, varray'[id]),
           varray'[id].first_undef_row = varray[id].first_undef_row,
           \A r \in 0..varray[id].first_undef_row - 1 :
                RowOf(varray'[id], r) = RowOf(varray[id], r),
           strip'[id] = NoStrip
    PROVE  Array(id)!PlainStep
<1> DEFINE a == varray[id]
           b == varray'[id]
           undef == a.first_undef_row
<1>1. DefinedOf(a) = undef /\ DefinedOf(b) = undef
  BY UndefType
<1>2. ContentsOf(a) = [r \in 0..undef - 1 |-> RowOf(a, r)] /\ ContentsOf(b) = [r \in 0..undef - 1 |-> RowOf(b, r)]
  BY <1>1 DEF ContentsOf
<1>3. \A r \in 0..undef - 1 : RowOf(a, r) = RowOf(b, r)
  OBVIOUS
<1> HIDE DEF undef
<1>4. ContentsOf(a) = ContentsOf(b)
  <2> HIDE DEF a, b
  <2> QED BY <1>2, <1>3
<1>5. ViewOf(varray[id], strip[id])' = NoView
  BY NothingThere
<1>6. DefinedOf(varray[id])' = DefinedOf(b) /\ ContentsOf(varray[id])' = ContentsOf(b)
  OBVIOUS
<1> HIDE DEF b
<1> QED BY <1>1, <1>4, <1>5, <1>6
        DEF Array!PlainStep, Array!PlainNext, Array!GiveUp, Array!NoView, NoView

\* A row of the strip is written.
Written(id, a, s, r, v) ==
    /\ BufferRight(id, a) /\ StripRight(id, a, s) /\ s # NoStrip /\ s.writable
    /\ r \in s.start..s.start + s.num - 1 /\ v \in RowValues

LEMMA WriteRight ==
    ASSUME NEW id \in Ids, NEW a, NEW s, NEW r, NEW v, Written(id, a, s, r, v), NEW b,
           b = [a EXCEPT !.buffer[r - a.cur_start_row] = v]
    PROVE  /\ BufferRight(id, b) /\ StripRight(id, b, s)
           /\ r \in 0..a.first_undef_row - 1 /\ b.first_undef_row = a.first_undef_row
           /\ \A x \in Int : RowOf(b, x) = IF x = r THEN v ELSE RowOf(a, x)
<1> DEFINE cur == a.cur_start_row
           k == r - cur
           buffer == [a.buffer EXCEPT ![k] = v]
<1>1. PICK n \in 1..Arrays[id].rows : a \in Control(id, n)
  BY DEF Written, BufferRight
<1>2. /\ n \in Nat \ {0} /\ a.rows_in_mem = n /\ cur \in Nat /\ Arrays[id].rows \in Nat \ {0}
      /\ DOMAIN a.buffer = 0..n - 1 /\ a.buffer \in [0..n - 1 -> Row]
  <2>1. Arrays[id].rows \in Nat \ {0}
    BY RowsType
  <2>2. n \in Nat \ {0}
    BY <2>1
  <2> QED BY <1>1, <2>1, <2>2, ControlType
<1>3. /\ s.start \in Nat /\ s.num \in Nat \ {0} /\ s.writable /\ v \in Row
      /\ cur <= s.start /\ s.start + s.num <= cur + n
      /\ a.dirty /\ s.start + s.num <= a.first_undef_row
      /\ r \in s.start..s.start + s.num - 1
  BY <1>2 DEF Written, StripRight, Reaches, Row
<1>4. r \in Nat /\ k \in 0..n - 1 /\ r < a.first_undef_row /\ a.first_undef_row \in Nat
  <2>1. a.first_undef_row \in Nat
    BY <1>1, <1>2, ControlType
  <2> HIDE DEF cur
  <2> DEFINE start == s.start
             num == s.num
             undef == a.first_undef_row
  <2>2. /\ start \in Nat /\ num \in Nat \ {0} /\ cur <= start /\ start + num <= cur + n
        /\ start + num <= undef /\ undef \in Nat /\ r \in start..start + num - 1
    BY <1>3, <2>1
  <2> HIDE DEF start, num, undef
  <2>3. r \in Nat /\ k \in 0..n - 1 /\ r < undef
    BY <1>2, <2>2
  <2> QED BY <2>1, <2>3 DEF undef
<1> HIDE DEF cur
<1>5. buffer \in [0..n - 1 -> Row] /\ DOMAIN buffer = 0..n - 1
  <2> HIDE DEF k
  <2> QED BY <1>2, <1>3
<1>6. \A x \in Int :
        IF x = r THEN x - cur \in 0..n - 1 /\ buffer[x - cur] = v
        ELSE x - cur \in 0..n - 1 => buffer[x - cur] = a.buffer[x - cur]
  BY <1>2, <1>4
<1>7. b = [a EXCEPT !.buffer = buffer]
  BY DEF cur
<1> HIDE DEF buffer
<1>8. b \in Control(id, n)
  BY <1>1, <1>5, <1>7 DEF Control
<1>9. /\ b.buffer = buffer /\ b.first_undef_row = a.first_undef_row /\ b.dirty = a.dirty
      /\ b.cur_start_row = cur /\ b.rows_in_mem = n /\ b.file = a.file /\ b.b_s_open = a.b_s_open
  BY <1>1, <1>2, <1>7 DEF Control, cur
<1>10. \A x \in Int : RowOf(b, x) = IF x = r THEN v ELSE RowOf(a, x)
  BY <1>2, <1>5, <1>6, <1>9 DEF RowOf, cur
<1>11. BufferRight(id, b)
  BY <1>2, <1>3, <1>8, <1>9 DEF Written, BufferRight, cur
<1>12. StripRight(id, b, s)
  BY <1>2, <1>3, <1>9, <1>11 DEF Written, StripRight, Reaches, cur
<1>13. r \in 0..a.first_undef_row - 1
  BY <1>4
<1> QED BY <1>9, <1>10, <1>11, <1>12, <1>13

LEMMA ArrayWritten ==
    ASSUME NEW id \in Ids, NEW r, NEW v, Written(id, varray[id], strip[id], r, v),
           varray'[id] = [varray[id] EXCEPT !.buffer[r - varray[id].cur_start_row] = v],
           strip'[id] = strip[id]
    PROVE  Array(id)!PlainStep
<1> DEFINE a == varray[id]
           b == varray'[id]
           s == strip[id]
           undef == a.first_undef_row
<1>1. /\ BufferRight(id, a) /\ BufferRight(id, b) /\ r \in 0..undef - 1 /\ b.first_undef_row = undef
      /\ \A x \in Int : RowOf(b, x) = IF x = r THEN v ELSE RowOf(a, x)
  <2>1. BufferRight(id, a)
    BY DEF Written
  <2> HIDE DEF a, b, s
  <2>2. b = [a EXCEPT !.buffer[r - a.cur_start_row] = v] /\ Written(id, a, s, r, v)
    BY DEF a, b, s
  <2> QED BY <2>1, <2>2, WriteRight
<1>2. undef \in Nat /\ DefinedOf(a) = undef /\ DefinedOf(b) = undef
  BY <1>1, UndefType
<1>3. /\ s.writable /\ r \in s.start..s.start + s.num - 1 /\ v \in RowValues
      /\ s.start \in Nat /\ s.num \in Nat
  BY DEF Written, StripRight
<1> DEFINE Strip == s.start..s.start + s.num - 1
<1>4. /\ ContentsOf(a) = [x \in 0..undef - 1 |-> RowOf(a, x)]
      /\ ContentsOf(b) = [x \in 0..undef - 1 |-> RowOf(b, x)]
  BY <1>2 DEF ContentsOf
<1>5. /\ ViewOf(a, s) = [rows |-> [x \in Strip |-> RowOf(a, x)], writable |-> s.writable]
      /\ ViewOf(b, s) = [rows |-> [x \in Strip |-> RowOf(b, x)], writable |-> s.writable]
  BY DEF ViewOf
<1>6. /\ DefinedOf(varray[id])' = DefinedOf(b) /\ ContentsOf(varray[id])' = ContentsOf(b)
      /\ ViewOf(varray[id], strip[id])' = ViewOf(b, s)
  OBVIOUS
<1>7. r \in Strip /\ \A x \in Strip : x \in Int
  BY <1>3
<1> HIDE DEF Strip, undef, a, b, s
<1>8. ContentsOf(b) = [ContentsOf(a) EXCEPT ![r] = v]
  <2> DEFINE All == 0..undef - 1
  <2>1. r \in All /\ \A x \in All : x \in Int
    BY <1>1, <1>2
  <2>2. /\ ContentsOf(a) = [x \in All |-> RowOf(a, x)]
        /\ ContentsOf(b) = [x \in All |-> RowOf(b, x)]
    BY <1>4
  <2> HIDE DEF All
  <2> QED BY <1>1, <2>1, <2>2
<1>9. ViewOf(b, s) = [ViewOf(a, s) EXCEPT !.rows[r] = v]
  <2>1. [x \in Strip |-> RowOf(b, x)] = [[x \in Strip |-> RowOf(a, x)] EXCEPT ![r] = v]
    BY <1>1, <1>7
  <2> QED BY <1>5, <2>1
<1>10. /\ ViewOf(a, s).writable /\ DOMAIN ViewOf(a, s).rows = Strip
  BY <1>3, <1>5
<1>11. Array(id)!Write(r, v)
  BY <1>2, <1>6, <1>7, <1>8, <1>9, <1>10 DEF Array!Write, a, b, s
<1> QED BY <1>3, <1>7, <1>10, <1>11 DEF Array!PlainStep, Array!PlainNext, a, s

-----------------------------------------------------------------------------
(* The invariant is kept, and each step is one of the plain arrays.        *)

Fine(id, a, s) == (Requested(a) \/ BufferRight(id, a)) /\ StripRight(id, a, s)

\* What the invariant says where nothing has been given back yet.
LEMMA InvariantGives ==
    ASSUME MemoryInv
    PROVE  /\ heap \in Nat /\ max_memory_to_use \in Nat /\ backing \in BOOLEAN
           /\ virt_list \in Seq(Ids) /\ DOMAIN varray = Ids /\ DOMAIN strip = Ids
           /\ \A id \in Ids : Fine(id, varray[id], strip[id])
           /\ mem.err # "gone" => Right(mem, objects)
<1>1. mem.err # "gone" => Right(mem, objects)
  BY DEF MemoryInv, SpaceAccounted, Right, Accounted
<1> QED BY <1>1 DEF MemoryInv, Fine

\* And what makes it hold again.
Sound(m, objs) ==
    /\ m \in Manager /\ objs \subseteq Object /\ ObjectsPlaced(m, objs)
    /\ m.total = PoolBytes(m, JPOOL_PERMANENT) + PoolBytes(m, JPOOL_IMAGE)
                    + (IF m.err = "gone" THEN 0 ELSE ManagerSize)
    /\ m.err \notin {"virtual bug", "no backing store"}

LEMMA RightSound ==
    ASSUME NEW m, NEW objs, Right(m, objs)
    PROVE  Sound(m, objs)
BY DEF Right, Sound, Accounted

LEMMA InvariantAgain ==
    ASSUME MemoryInv, UNCHANGED <<heap, max_memory_to_use, backing>>,
           Sound(mem', objects'), virt_list' \in Seq(Ids),
           DOMAIN varray' = Ids, DOMAIN strip' = Ids,
           \A id \in Ids : Fine(id, varray'[id], strip'[id])
    PROVE  MemoryInv'
<1>1. SpaceAccounted'
  BY DEF Sound, SpaceAccounted
<1> QED BY <1>1 DEF MemoryInv, Sound, Fine

\* An array without a buffer has no strip.
LEMMA StripNone ==
    ASSUME NEW id \in Ids, NEW a, NEW s, Fine(id, a, s), Requested(a)
    PROVE  s = NoStrip
BY BufferThere DEF Fine, StripRight

LEMMA AskSmallStep ==
    ASSUME MemoryInv, AskSmall
    PROVE  MemoryInv' /\ \A id \in Ids : Array(id)!PlainStep
<1>1. PICK pool \in Pools, size \in SmallSizes :
        \E a \in {AllocSmall(mem, pool, size)} :
            mem' = a.m /\ objects' = objects \cup a.place
  BY DEF AskSmall
<1>2. mem.err = "none" /\ UNCHANGED <<heap, max_memory_to_use, backing, virt_list, varray, strip>>
  BY DEF AskSmall
<1> DEFINE a == AllocSmall(mem, pool, size)
<1>3. mem' = a.m /\ objects' = objects \cup a.place /\ size \in Nat
  BY <1>1, SizesAssumption
<1>4. Right(mem, objects)
  BY <1>2, InvariantGives
<1>5. Right(a.m, objects \cup a.place)
  BY <1>3, <1>4, AllocSmallRight
<1> HIDE DEF a
<1>6. Sound(mem', objects')
  BY <1>3, <1>5, RightSound
<1>7. MemoryInv'
  BY <1>2, <1>6, InvariantGives, InvariantAgain
<1>8. \A id \in Ids : Array(id)!PlainStep
  BY <1>2, ArrayStill
<1> QED BY <1>7, <1>8

LEMMA RequestArrayStep ==
    ASSUME MemoryInv, RequestArray
    PROVE  MemoryInv' /\ \A id \in Ids : Array(id)!PlainStep
<1>1. PICK id \in Ids :
        /\ varray[id] = NoControl
        /\ \E a \in {AllocSmall(mem, JPOOL_IMAGE, ControlSize)} :
               /\ mem' = a.m /\ objects' = objects \cup a.place
               /\ IF a.m.err # "none" THEN UNCHANGED <<varray, virt_list>>
                  ELSE /\ varray' = [varray EXCEPT ![id] = [buffer |-> <<>>, b_s_open |-> FALSE]]
                       /\ virt_list' = <<id>> \o virt_list
  BY DEF RequestArray
<1>2. mem.err = "none" /\ UNCHANGED <<heap, max_memory_to_use, backing, strip>>
  BY DEF RequestArray
<1> DEFINE a == AllocSmall(mem, JPOOL_IMAGE, ControlSize)
           new == [buffer |-> <<>>, b_s_open |-> FALSE]
<1>3. /\ mem' = a.m /\ objects' = objects \cup a.place
      /\ \/ UNCHANGED <<varray, virt_list>>
         \/ varray' = [varray EXCEPT ![id] = new] /\ virt_list' = <<id>> \o virt_list
  BY <1>1
<1>4. Right(mem, objects) /\ JPOOL_IMAGE \in Pools /\ ControlSize \in Nat
  BY <1>2, InvariantGives, SizesAssumption DEF Pools
<1>5. Right(a.m, objects \cup a.place)
  BY <1>4, AllocSmallRight
<1> HIDE DEF a
<1>6. Sound(mem', objects')
  BY <1>3, <1>5, RightSound
<1>7. Requested(varray[id]) /\ Requested(new)
  BY <1>1 DEF Requested
<1>8. strip[id] = NoStrip
  BY <1>7, InvariantGives, StripNone
<1>9. CASE UNCHANGED <<varray, virt_list>>
  <2>1. MemoryInv'
    BY <1>2, <1>6, <1>9, InvariantGives, InvariantAgain
  <2>2. \A x \in Ids : Array(x)!PlainStep
    BY <1>2, <1>9, ArrayStill
  <2> QED BY <2>1, <2>2
<1>10. CASE varray' = [varray EXCEPT ![id] = new] /\ virt_list' = <<id>> \o virt_list
  <2> HIDE DEF new
  <2>1. /\ DOMAIN varray' = Ids /\ varray'[id] = new
        /\ \A x \in Ids \ {id} : varray'[x] = varray[x]
    BY <1>10, InvariantGives
  <2>2. virt_list' \in Seq(Ids)
    <3>1. virt_list \in Seq(Ids)
      BY InvariantGives
    <3> QED BY <1>10, <3>1
  <2>3. \A x \in Ids : Fine(x, varray'[x], strip'[x])
    <3>1. Fine(id, varray'[id], strip'[id])
      BY <1>2, <1>7, <1>8, <2>1 DEF Fine, StripRight
    <3> QED BY <1>2, <2>1, <3>1, InvariantGives
  <2>4. MemoryInv'
    BY <1>2, <1>6, <2>1, <2>2, <2>3, InvariantGives, InvariantAgain
  <2>5. Array(id)!PlainStep
    <3>1. DefinedOf(varray[id]) = 0 /\ DefinedOf(varray[id])' = 0
      BY <1>7, <2>1, NothingDefined
    <3> QED BY <1>2, <1>8, <3>1, ArrayEmpty
  <2>6. \A x \in Ids : x # id => Array(x)!PlainStep
    BY <1>2, <2>1, ArrayStill
  <2> QED BY <2>4, <2>5, <2>6
<1> QED BY <1>3, <1>9, <1>10

LEMMA RealizeArraysStep ==
    ASSUME MemoryInv, RealizeArrays
    PROVE  MemoryInv' /\ \A id \in Ids : Array(id)!PlainStep
<1>0. PICK files \in 0..Len(virt_list) :
        LET before  == [m |-> mem, va |-> varray, objs |-> objects, files |-> files]
            samples == FoldLeft(RealizeSamples, before, virt_list)
        IN  \E s \in {FoldLeft(RealizeBlocks, samples, virt_list)} :
                mem' = s.m /\ varray' = s.va /\ objects' = s.objs
  BY DEF RealizeArrays
<1> DEFINE base == [m |-> mem, va |-> varray, objs |-> objects, files |-> files]
           s == FoldLeft(RealizeBlocks, FoldLeft(RealizeSamples, base, virt_list), virt_list)
<1>1. /\ mem.err = "none" /\ Needed.least > 0
      /\ mem' = s.m /\ varray' = s.va /\ objects' = s.objs
      /\ UNCHANGED <<heap, max_memory_to_use, backing, virt_list, strip>>
  BY <1>0 DEF RealizeArrays
<1>2. Realizing(varray, base, 0)
  <2>1. Right(mem, objects) /\ DOMAIN varray = Ids
    BY <1>1, InvariantGives
  <2> QED BY <2>1 DEF Realizing, Realized
<1>3. \A id \in Ids : Requested(varray[id]) \/ BufferRight(id, varray[id])
  BY InvariantGives DEF Fine
<1>4. backing \in BOOLEAN /\ virt_list \in Seq(Ids) /\ Heights(MaxMinHeights)
  <2>1. mem \in Manager
    BY DEF MemoryInv
  <2> QED BY <1>1, <2>1, InvariantGives, HeightsRight
<1> HIDE DEF base
<1>5. Realizing(varray, s, 0)
  BY <1>2, <1>3, <1>4, RealizeRight
<1> HIDE DEF s
<1>6. /\ Right(mem', objects') /\ DOMAIN varray' = Ids
      /\ \A id \in Ids : Realized(id, varray[id], varray'[id])
  BY <1>1, <1>5 DEF Realizing
<1>7. Sound(mem', objects')
  BY <1>6, RightSound
<1>8. ASSUME NEW id \in Ids
      PROVE  Fine(id, varray'[id], strip'[id]) /\ Array(id)!PlainStep
  <2>0. Fine(id, varray[id], strip[id]) /\ strip'[id] = strip[id]
    BY <1>1, InvariantGives
  <2>1. CASE varray'[id] = varray[id]
    BY <2>0, <2>1, ArrayStill
  <2>2. CASE Requested(varray[id]) /\ (Requested(varray'[id]) \/ Fresh(id, varray'[id]))
    <3>1. strip[id] = NoStrip
      BY <2>0, <2>2, StripNone
    <3>2. Fine(id, varray'[id], strip'[id])
      BY <2>0, <2>2, <3>1 DEF Fine, StripRight, Fresh
    <3>3. DefinedOf(varray[id]) = 0 /\ DefinedOf(varray[id])' = 0
      BY <2>2, NothingDefined
    <3>4. Array(id)!PlainStep
      BY <2>0, <3>1, <3>3, ArrayEmpty
    <3> QED BY <3>2, <3>4
  <2> QED BY <1>6, <2>1, <2>2 DEF Realized
<1>9. MemoryInv'
  <2>1. DOMAIN strip' = Ids /\ virt_list' \in Seq(Ids)
    BY <1>1, InvariantGives
  <2> QED BY <1>1, <1>6, <1>7, <1>8, <2>1, InvariantAgain
<1> QED BY <1>8, <1>9

LEMMA WriteRowStep ==
    ASSUME MemoryInv, WriteRow
    PROVE  MemoryInv' /\ \A id \in Ids : Array(id)!PlainStep
<1>1. PICK id \in Ids, v \in RowValues :
        /\ strip[id].writable
        /\ \E r \in strip[id].start..strip[id].start + strip[id].num - 1 :
            varray' = [varray EXCEPT ![id].buffer[r - varray[id].cur_start_row] = v]
  BY DEF WriteRow
<1>2. PICK r \in strip[id].start..strip[id].start + strip[id].num - 1 :
        varray' = [varray EXCEPT ![id].buffer[r - varray[id].cur_start_row] = v]
  BY <1>1
<1>3. /\ mem.err = "none"
      /\ UNCHANGED <<heap, max_memory_to_use, backing, mem, objects, virt_list, strip>>
  BY DEF WriteRow
<1> DEFINE a == varray[id]
           b == [a EXCEPT !.buffer[r - a.cur_start_row] = v]
           s == strip[id]
<1>4. Fine(id, a, s) /\ DOMAIN varray = Ids
  BY InvariantGives
<1>5. Written(id, a, s, r, v)
  <2>1. s # NoStrip
    BY <1>1 DEF NoStrip
  <2> HIDE DEF s, a
  <2>2. s.writable /\ r \in s.start..s.start + s.num - 1
    BY <1>1 DEF s
  <2> QED BY <1>4, <2>1, <2>2 DEF Written, Fine, StripRight
<1>6. varray' = [varray EXCEPT ![id] = b]
  BY <1>2
<1>7. BufferRight(id, b) /\ StripRight(id, b, s)
  <2> HIDE DEF a, s
  <2> QED BY <1>5, WriteRight
<1>8. varray'[id] = b /\ DOMAIN varray' = Ids /\ \A x \in Ids \ {id} : varray'[x] = varray[x]
  <2> HIDE DEF b
  <2> QED BY <1>4, <1>6
<1>9. Array(id)!PlainStep
  BY <1>3, <1>5, <1>8, ArrayWritten
<1>10. \A x \in Ids : x # id => Array(x)!PlainStep
  BY <1>3, <1>8, ArrayStill
<1>11. \A x \in Ids : Fine(x, varray'[x], strip'[x])
  <2>1. Fine(id, varray'[id], strip'[id])
    <3> HIDE DEF b
    <3> QED BY <1>3, <1>7, <1>8 DEF Fine
  <2>2. \A x \in Ids : Fine(x, varray[x], strip[x])
    BY InvariantGives
  <2> HIDE DEF a, b, s
  <2> QED BY <1>3, <1>8, <2>1, <2>2
<1>12. MemoryInv'
  <2>1. Right(mem, objects)
    BY <1>3, InvariantGives
  <2>2. Sound(mem', objects')
    BY <1>3, <2>1, RightSound
  <2> QED BY <1>3, <1>8, <1>11, <2>2, InvariantGives, InvariantAgain
<1> QED BY <1>9, <1>10, <1>12

\* A pool that is freed takes nothing, and what it took is given back.
LEMMA PoolFreed ==
    ASSUME NEW m \in Manager, Accounted(m), NEW pool \in Pools, NEW n, n = FreePool(m, pool)
    PROVE  /\ n \in Manager /\ Accounted(n) /\ PoolBytes(n, pool) = 0 /\ n.err = m.err
           /\ \A p \in Pools \ {pool} : n.small[p] = m.small[p] /\ n.large[p] = m.large[p]
<1> DEFINE bytes == PoolBytes(m, pool)
<1>1. bytes \in Nat /\ m.total \in Int
  BY PoolBytesType, ManagerType
<1>2. n = [m EXCEPT !.total = @ - bytes, !.small[pool] = <<>>, !.large[pool] = <<>>]
  BY DEF FreePool
<1> HIDE DEF bytes
<1>3. n \in Manager
  <2> DEFINE small == [m.small EXCEPT ![pool] = <<>>]
             large == [m.large EXCEPT ![pool] = <<>>]
             total == m.total - bytes
  <2>1. m.small \in [Pools -> Seq(Chunk)] /\ m.large \in [Pools -> Seq(Nat)]
    BY DEF Manager, Chunk
  <2>2. small \in [Pools -> Seq(Chunk)]
    BY <2>1
  <2>3. large \in [Pools -> Seq(Nat)]
    BY <2>1
  <2>4. total \in Int
    BY <1>1
  <2>5. n = [m EXCEPT !.total = total, !.small = small, !.large = large]
    BY <1>2
  <2> HIDE DEF small, large, total
  <2> QED BY <2>2, <2>3, <2>4, <2>5 DEF Manager, Chunk
<1>4. /\ n.total = m.total - bytes /\ n.small[pool] = <<>> /\ n.large[pool] = <<>> /\ n.err = m.err
      /\ \A p \in Pools \ {pool} : n.small[p] = m.small[p] /\ n.large[p] = m.large[p]
  BY <1>2 DEF Manager
<1>5. PoolBytes(n, pool) = 0
  BY <1>4, NoneSum DEF PoolBytes
<1>6. Changed(m, n, pool, -bytes)
  <2>1. -bytes \in Int /\ n.total = m.total + (-bytes) /\ 0 = bytes + (-bytes)
    BY <1>1, <1>4
  <2> QED BY <1>3, <1>4, <1>5, <2>1 DEF Changed, bytes
<1>7. Accounted(n)
  BY <1>6, AccountedAgain
<1> QED BY <1>3, <1>4, <1>5, <1>7

LEMMA AbortImageStep ==
    ASSUME MemoryInv, AbortImage
    PROVE  MemoryInv' /\ \A id \in Ids : Array(id)!PlainStep
<1> DEFINE freed == FreePool(mem, JPOOL_IMAGE)
           kept == {o \in objects : o.pool # JPOOL_IMAGE}
<1>1. /\ mem.err # "gone" /\ mem' = [freed EXCEPT !.err = IF @ = "gone" THEN @ ELSE "none"]
      /\ objects' = kept /\ virt_list' = <<>>
      /\ varray' = [id \in Ids |-> NoControl] /\ strip' = [id \in Ids |-> NoStrip]
      /\ UNCHANGED <<heap, max_memory_to_use, backing>>
  <2>1. mem.err # "gone"
    BY DEF AbortImage
  <2>2. freed.err = mem.err
    <3>1. mem \in Manager
      BY DEF MemoryInv
    <3> QED BY <3>1 DEF FreePool, Manager
  <2> QED BY <2>1, <2>2 DEF AbortImage
<1>2. Right(mem, objects) /\ JPOOL_IMAGE \in Pools
  BY <1>1, InvariantGives DEF Pools
<1>3. /\ freed \in Manager /\ Accounted(freed) /\ freed.err = mem.err
      /\ \A p \in Pools \ {JPOOL_IMAGE} : freed.small[p] = mem.small[p]
  <2>1. mem \in Manager /\ Accounted(mem)
    BY <1>2 DEF Right
  <2>2. freed = FreePool(mem, JPOOL_IMAGE)
    OBVIOUS
  <2> HIDE DEF freed
  <2> QED BY <1>2, <2>1, <2>2, PoolFreed
<1> HIDE DEF freed
<1>4. Right(mem', objects')
  <2>1. mem' = [freed EXCEPT !.err = "none"]
    BY <1>1, <1>3
  <2>2. "none" \in Errors
    BY DEF Errors
  <2>3. /\ mem' \in Manager /\ mem'.err = "none" /\ mem'.total = freed.total
        /\ mem'.small = freed.small /\ mem'.large = freed.large
    BY <1>3, <2>1, <2>2 DEF Manager
  <2>4. Accounted(mem')
    BY <1>3, <2>3 DEF Accounted, PoolBytes
  <2>5. objects \subseteq Object /\ ObjectsPlaced(mem, objects)
    BY <1>2 DEF Right
  <2>6. kept \subseteq objects /\ \A o \in kept : o.pool \in Pools \ {JPOOL_IMAGE}
    BY <2>5 DEF Object
  <2> HIDE DEF kept
  <2>7. \A o \in kept : mem'.small[o.pool] = mem.small[o.pool]
    BY <1>3, <2>3, <2>6
  <2>8. ObjectsPlaced(mem', kept)
    <3>1. \A o \in kept : /\ o.chunk \in DOMAIN mem'.small[o.pool]
                          /\ o.from + o.size <= mem'.small[o.pool][o.chunk].used
      BY <2>5, <2>6, <2>7 DEF ObjectsPlaced
    <3>2. \A o, q \in kept : o # q /\ o.pool = q.pool /\ o.chunk = q.chunk
                => o.from + o.size <= q.from \/ q.from + q.size <= o.from
      BY <2>5, <2>6 DEF ObjectsPlaced
    <3> QED BY <3>1, <3>2 DEF ObjectsPlaced
  <2> QED BY <1>1, <2>3, <2>4, <2>5, <2>6, <2>8 DEF Right
<1>5. \A id \in Ids : varray'[id] = NoControl /\ strip'[id] = NoStrip
  BY <1>1
<1>6. \A id \in Ids : Fine(id, varray'[id], strip'[id])
  BY <1>5 DEF Fine, Requested, StripRight
<1>7. MemoryInv'
  <2>1. Sound(mem', objects')
    BY <1>4, RightSound
  <2>2. virt_list' \in Seq(Ids) /\ DOMAIN varray' = Ids /\ DOMAIN strip' = Ids
    BY <1>1
  <2> QED BY <1>1, <1>6, <2>1, <2>2, InvariantAgain
<1>8. ASSUME NEW id \in Ids PROVE Array(id)!PlainStep
  <2>1. DefinedOf(varray[id])' = 0
    BY <1>5, NothingDefined DEF Requested
  <2> QED BY <1>5, <2>1, ArrayGone
<1> QED BY <1>7, <1>8

LEMMA DestroyStep ==
    ASSUME MemoryInv, Destroy
    PROVE  MemoryInv' /\ \A id \in Ids : Array(id)!PlainStep
<1> DEFINE freed == FreePool(mem, JPOOL_IMAGE)
           all == FreePool(freed, JPOOL_PERMANENT)
<1>1. /\ mem.err # "gone" /\ mem' = [all EXCEPT !.total = @ - ManagerSize, !.err = "gone"]
      /\ objects' = {} /\ virt_list' = <<>>
      /\ varray' = [id \in Ids |-> NoControl] /\ strip' = [id \in Ids |-> NoStrip]
      /\ UNCHANGED <<heap, max_memory_to_use, backing>>
  BY DEF Destroy
<1>2. mem \in Manager /\ Accounted(mem) /\ JPOOL_IMAGE \in Pools /\ JPOOL_PERMANENT \in Pools
  BY <1>1, InvariantGives DEF Right, Pools
<1>3. freed \in Manager /\ Accounted(freed) /\ PoolBytes(freed, JPOOL_IMAGE) = 0
  BY <1>2, PoolFreed
<1> HIDE DEF freed
<1>4. /\ all \in Manager /\ Accounted(all) /\ PoolBytes(all, JPOOL_PERMANENT) = 0
      /\ \A p \in Pools \ {JPOOL_PERMANENT} :
            all.small[p] = freed.small[p] /\ all.large[p] = freed.large[p]
  BY <1>2, <1>3, PoolFreed
<1>5. PoolBytes(all, JPOOL_IMAGE) = 0
  BY <1>3, <1>4 DEF PoolBytes, Pools, JPOOL_IMAGE, JPOOL_PERMANENT
<1> HIDE DEF all
<1>6. Sound(mem', objects')
  <2>1. all.total = ManagerSize /\ ManagerSize \in Nat
    BY <1>4, <1>5, SizesAssumption DEF Accounted
  <2>2. "gone" \in Errors
    BY DEF Errors
  <2>3. /\ mem' \in Manager /\ mem'.err = "gone" /\ mem'.total = all.total - ManagerSize
        /\ mem'.small = all.small /\ mem'.large = all.large
    <3> DEFINE total == all.total - ManagerSize
    <3>1. total \in Int
      BY <2>1
    <3>2. mem' = [all EXCEPT !.total = total, !.err = "gone"]
      BY <1>1
    <3> HIDE DEF total
    <3>3. /\ mem' \in Manager /\ mem'.err = "gone" /\ mem'.total = total
          /\ mem'.small = all.small /\ mem'.large = all.large
      BY <1>4, <2>2, <3>1, <3>2 DEF Manager
    <3> QED BY <3>3 DEF total
  <2>4. PoolBytes(mem', JPOOL_IMAGE) = 0 /\ PoolBytes(mem', JPOOL_PERMANENT) = 0
    BY <1>4, <1>5, <2>3 DEF PoolBytes
  <2>5. mem'.total = 0
    BY <2>1, <2>3
  <2>6. objects' \subseteq Object /\ ObjectsPlaced(mem', objects')
    BY <1>1 DEF ObjectsPlaced
  <2> QED BY <2>3, <2>4, <2>5, <2>6 DEF Sound
<1>7. \A id \in Ids : varray'[id] = NoControl /\ strip'[id] = NoStrip
  BY <1>1
<1>8. \A id \in Ids : Fine(id, varray'[id], strip'[id])
  BY <1>7 DEF Fine, Requested, StripRight
<1>9. MemoryInv'
  <2>1. virt_list' \in Seq(Ids) /\ DOMAIN varray' = Ids /\ DOMAIN strip' = Ids
    BY <1>1
  <2> QED BY <1>1, <1>6, <1>8, <2>1, InvariantAgain
<1>10. ASSUME NEW id \in Ids PROVE Array(id)!PlainStep
  <2>1. DefinedOf(varray[id])' = 0
    BY <1>7, NothingDefined DEF Requested
  <2> QED BY <1>7, <2>1, ArrayGone
<1> QED BY <1>9, <1>10

\* An access that fails: the manager has an error, the buffer may have been moved.
LEMMA AccessFailed ==
    ASSUME MemoryInv, mem.err = "none", NEW id \in Ids,
           UNCHANGED <<heap, max_memory_to_use, backing, objects, virt_list>>,
           NEW e \in {"bad access", "temporary file"}, mem' = Failed(mem, e), BufferRight(id, varray[id]),
           NEW b, BufferRight(id, b), b.first_undef_row = varray[id].first_undef_row,
           \A r \in 0..varray[id].first_undef_row - 1 : RowOf(b, r) = RowOf(varray[id], r),
           \/ UNCHANGED <<varray, strip>>
           \/ /\ varray' = [varray EXCEPT ![id] = b] \/ (varray' = varray /\ b = varray[id])
              /\ strip' = [strip EXCEPT ![id] = NoStrip]
    PROVE  MemoryInv' /\ \A x \in Ids : Array(x)!PlainStep
<1>1. Sound(mem', objects')
  <2>1. Right(mem, objects)
    BY InvariantGives
  <2>2. e \in Errors \ {"gone", "virtual bug", "no backing store"}
    BY DEF Errors
  <2>3. Right(mem', objects')
    BY <2>1, <2>2, FailedRight
  <2> QED BY <2>3, RightSound
<1>2. CASE UNCHANGED <<varray, strip>>
  <2>1. MemoryInv'
    BY <1>1, <1>2, InvariantGives, InvariantAgain
  <2>2. \A x \in Ids : Array(x)!PlainStep
    BY <1>2, ArrayStill
  <2> QED BY <2>1, <2>2
<1>3. CASE /\ varray' = [varray EXCEPT ![id] = b] \/ (varray' = varray /\ b = varray[id])
           /\ strip' = [strip EXCEPT ![id] = NoStrip]
  <2>1. DOMAIN varray = Ids /\ DOMAIN strip = Ids /\ virt_list \in Seq(Ids)
    BY InvariantGives
  <2>2. /\ DOMAIN varray' = Ids /\ DOMAIN strip' = Ids
        /\ varray'[id] = b /\ strip'[id] = NoStrip
        /\ \A x \in Ids \ {id} : varray'[x] = varray[x] /\ strip'[x] = strip[x]
    BY <1>3, <2>1
  <2>3. \A x \in Ids : Fine(x, varray'[x], strip'[x])
    <3>1. Fine(id, varray'[id], strip'[id])
      BY <2>2 DEF Fine, StripRight
    <3>2. \A x \in Ids : Fine(x, varray[x], strip[x])
      BY InvariantGives
    <3> QED BY <2>2, <3>1, <3>2
  <2>4. MemoryInv'
    BY <1>1, <2>1, <2>2, <2>3, InvariantAgain
  <2>5. Array(id)!PlainStep
    BY <2>2, ArrayGivenUp
  <2>6. \A x \in Ids : x # id => Array(x)!PlainStep
    BY <2>2, ArrayStill
  <2> QED BY <2>4, <2>5, <2>6
<1> QED BY <1>2, <1>3

\* An access that is made, of the buffer b that holds the strip.
LEMMA AccessMade ==
    ASSUME MemoryInv, mem.err = "none", NEW id \in Ids,
           UNCHANGED <<heap, max_memory_to_use, backing, mem, objects, virt_list>>,
           BufferRight(id, varray[id]),
           NEW b, BufferRight(id, b), b.first_undef_row = varray[id].first_undef_row,
           \A r \in 0..varray[id].first_undef_row - 1 : RowOf(b, r) = RowOf(varray[id], r),
           NEW start \in 0..Arrays[id].rows - 1, NEW num \in 1..Arrays[id].maxaccess, NEW w \in BOOLEAN,
           Reaches(id, b, start, start + num),
           ~(b.first_undef_row < start + num
             /\ (IF w THEN b.first_undef_row < start ELSE ~Arrays[id].pre_zero)),
           varray' = [varray EXCEPT ![id] = Defined(id, b, start, start + num, w)],
           strip' = [strip EXCEPT ![id] = [start |-> start, num |-> num, writable |-> w]]
    PROVE  MemoryInv' /\ \A x \in Ids : Array(x)!PlainStep
<1> DEFINE a == varray[id]
           c == Defined(id, b, start, start + num, w)
           s == [start |-> start, num |-> num, writable |-> w]
           end == start + num
<1>1. start \in Nat /\ num \in Nat \ {0} /\ num <= Arrays[id].maxaccess
  BY ArrayType, RowsType
<1>2. /\ BufferRight(id, c) /\ c.cur_start_row = b.cur_start_row /\ c.rows_in_mem = b.rows_in_mem
      /\ c.first_undef_row = IF w /\ end > b.first_undef_row THEN end ELSE b.first_undef_row
      /\ w => c.dirty /\ start <= b.first_undef_row
      /\ \A r \in 0..b.first_undef_row - 1 : RowOf(c, r) = RowOf(b, r)
      /\ Arrays[id].pre_zero =>
           \A r \in start..end - 1 : r >= b.first_undef_row => RowOf(c, r) = ZeroRow
  <2>1. MayAccess(id, b, start, end, w)
    BY DEF MayAccess
  <2>2. Prepared(id, b, c, start, end, w)
    BY <1>1, <2>1, DefinedRight
  <2> HIDE DEF c, end
  <2> QED BY <2>2 DEF Prepared
<1>3. b.first_undef_row \in Nat /\ a.first_undef_row = b.first_undef_row /\ end \in Nat
  BY <1>1, UndefType
<1>4. DOMAIN varray = Ids /\ DOMAIN strip = Ids /\ virt_list \in Seq(Ids)
  BY InvariantGives
<1>5. varray' = [varray EXCEPT ![id] = c] /\ strip' = [strip EXCEPT ![id] = s]
  OBVIOUS
<1>6. BufferRight(id, a) /\ BufferRight(id, b) /\ Reaches(id, b, start, end)
  OBVIOUS
<1>7. ~(b.first_undef_row < end /\ (IF w THEN b.first_undef_row < start ELSE ~Arrays[id].pre_zero))
  OBVIOUS
<1>8. \A r \in 0..a.first_undef_row - 1 : RowOf(b, r) = RowOf(a, r)
  OBVIOUS
<1> HIDE DEF c
<1>9. s.start = start /\ s.num = num /\ s.writable = w
  OBVIOUS
<1>10. s \in [start : Nat, num : Nat \ {0}, writable : BOOLEAN]
  BY <1>1
<1> HIDE DEF s
<1>11. /\ DOMAIN varray' = Ids /\ DOMAIN strip' = Ids
       /\ varray'[id] = c /\ strip'[id] = s
       /\ \A x \in Ids \ {id} : varray'[x] = varray[x] /\ strip'[x] = strip[x]
  BY <1>4, <1>5
<1>12. Reaches(id, c, start, end) /\ end <= Arrays[id].rows
  BY <1>2, <1>6 DEF Reaches
<1>13. StripRight(id, c, s)
  <2>1. w => end <= c.first_undef_row
    BY <1>2, <1>3
  <2> QED BY <1>2, <1>9, <1>10, <1>12, <2>1 DEF StripRight
<1>14. \A x \in Ids : Fine(x, varray'[x], strip'[x])
  <2>1. Fine(id, varray'[id], strip'[id])
    BY <1>2, <1>11, <1>13 DEF Fine
  <2>2. \A x \in Ids : Fine(x, varray[x], strip[x])
    BY InvariantGives
  <2> QED BY <1>11, <2>1, <2>2
<1>15. MemoryInv'
  <2>1. Right(mem, objects)
    BY InvariantGives
  <2>2. Sound(mem', objects')
    BY <2>1, RightSound
  <2> QED BY <1>4, <1>11, <1>14, <2>2, InvariantAgain
<1>16. Array(id)!PlainStep
  <2>1. Accessed(id, a, c, start, num, w)
    <3>1. ~w /\ ~Arrays[id].pre_zero => end <= a.first_undef_row
      BY <1>3, <1>7
    <3>2. w => start <= a.first_undef_row
      BY <1>2, <1>3
    <3>3. \A r \in 0..a.first_undef_row - 1 : RowOf(c, r) = RowOf(a, r)
      BY <1>2, <1>3, <1>8
    <3> HIDE DEF a
    <3> QED BY <1>1, <1>2, <1>3, <1>6, <1>12, <3>1, <3>2, <3>3 DEF Accessed
  <2>2. Accessed(id, varray[id], varray'[id], start, num, w)
    BY <1>11, <2>1
  <2>3. strip'[id] = [start |-> start, num |-> num, writable |-> w]
    BY <1>11 DEF s
  <2>4. Array(id)!Access(start, num, w)
    BY <1>1, <2>2, <2>3, AccessShown
  <2> QED BY <2>4 DEF Array!PlainStep, Array!PlainNext
<1>17. \A x \in Ids : x # id => Array(x)!PlainStep
  BY <1>11, ArrayStill
<1> QED BY <1>15, <1>16, <1>17

LEMMA AccessStripStep ==
    ASSUME MemoryInv, AccessStrip
    PROVE  MemoryInv' /\ \A x \in Ids : Array(x)!PlainStep
<1>1. PICK id \in {x \in Ids : varray[x] # NoControl /\ varray[x].buffer # <<>>} :
        \E start \in 0..Arrays[id].rows - 1, num \in 1..Arrays[id].maxaccess, w \in BOOLEAN :
            AccessArray(id, start, num, w)
  BY DEF AccessStrip
<1>2. PICK start \in 0..Arrays[id].rows - 1, num \in 1..Arrays[id].maxaccess, w \in BOOLEAN :
            AccessArray(id, start, num, w)
  BY <1>1
<1>3. mem.err = "none" /\ UNCHANGED <<heap, max_memory_to_use, backing, objects, virt_list>>
  BY DEF AccessStrip
<1> DEFINE a     == varray[id]
           end   == start + num
           away  == start < a.cur_start_row \/ end > a.cur_start_row + a.rows_in_mem
           b     == IF away THEN Moved(id, a, start, end) ELSE a
           undef == b.first_undef_row < end
           wrong == undef /\ (IF w THEN b.first_undef_row < start ELSE ~Arrays[id].pre_zero)
<1>4. /\ id \in Ids /\ start \in Nat /\ num \in Nat \ {0} /\ num <= Arrays[id].maxaccess
      /\ w \in BOOLEAN /\ Arrays[id].rows \in Nat \ {0}
  <2>1. Arrays[id].rows \in Nat \ {0} /\ Arrays[id].maxaccess \in Nat \ {0}
    BY RowsType, ArrayType
  <2> QED BY <2>1
<1>5. BufferRight(id, a)
  <2>1. Requested(a) \/ BufferRight(id, a)
    BY InvariantGives DEF Fine
  <2>2. a # NoControl /\ a.buffer # <<>>
    OBVIOUS
  <2> HIDE DEF a
  <2> QED BY <2>1, <2>2 DEF Requested
<1>6. /\ a.cur_start_row \in Nat /\ a.rows_in_mem \in Nat
      /\ a.b_s_open \/ (a.cur_start_row = 0 /\ a.rows_in_mem = Arrays[id].rows)
  <2> HIDE DEF a
  <2>1. PICK n \in 1..Arrays[id].rows : a \in Control(id, n)
    BY <1>5 DEF BufferRight
  <2>2. a.cur_start_row \in Nat /\ a.rows_in_mem = n /\ n \in Nat
    BY <1>4, <2>1, ControlType
  <2> QED BY <1>5, <2>2 DEF BufferRight
<1>7. \/ /\ end > Arrays[id].rows \/ num > Arrays[id].maxaccess \/ a.buffer = <<>>
         /\ mem' = Failed(mem, "bad access") /\ UNCHANGED <<varray, strip>>
      \/ /\ end <= Arrays[id].rows /\ away /\ ~a.b_s_open
      \/ /\ end <= Arrays[id].rows /\ (away => a.b_s_open) /\ wrong
         /\ mem' = Failed(mem, "bad access") /\ varray' = [varray EXCEPT ![id] = b]
         /\ strip' = [strip EXCEPT ![id] = NoStrip]
      \/ /\ end <= Arrays[id].rows /\ (away => a.b_s_open) /\ ~wrong
         /\ varray' = [varray EXCEPT ![id] = Defined(id, b, start, end, w)]
         /\ strip' = [strip EXCEPT ![id] = [start |-> start, num |-> num, writable |-> w]]
         /\ UNCHANGED mem
  <2>1. ~(end > Arrays[id].rows) => end <= Arrays[id].rows
    BY <1>4
  <2> HIDE DEF end
  <2> QED BY <1>2, <2>1 DEF AccessArray, end
<1>8. CASE /\ mem' = Failed(mem, "bad access") /\ UNCHANGED <<varray, strip>>
  <2> HIDE DEF wrong, undef, b, away, end
  <2>1. /\ mem' = Failed(mem, "bad access") /\ UNCHANGED <<varray, strip>>
    BY <1>8
  <2>2. a.first_undef_row = varray[id].first_undef_row
        /\ \A r \in 0..varray[id].first_undef_row - 1 : RowOf(a, r) = RowOf(varray[id], r)
    OBVIOUS
  <2> QED BY <1>3, <1>4, <1>5, <2>1, <2>2, AccessFailed
<1>9. ~(end <= Arrays[id].rows /\ away /\ ~a.b_s_open)
  <2> HIDE DEF a
  <2> QED BY <1>4, <1>6
<1>10. ASSUME end <= Arrays[id].rows, away => a.b_s_open
       PROVE  /\ BufferRight(id, b) /\ Reaches(id, b, start, end)
              /\ b.first_undef_row = a.first_undef_row
              /\ \A r \in 0..a.first_undef_row - 1 : RowOf(b, r) = RowOf(a, r)
  <2>1. CASE away
    <3>1. a.b_s_open /\ b = Moved(id, a, start, end)
      BY <1>10, <2>1
    <3>2. start + num <= Arrays[id].rows
      BY <1>10
    <3> HIDE DEF a, b, away
    <3> QED BY <1>4, <1>5, <3>1, <3>2, MovedRight
  <2>2. CASE ~away
    <3>1. b = a
      BY <2>2
    <3>2. Reaches(id, a, start, end)
      <4> HIDE DEF a
      <4> QED BY <1>4, <1>6, <1>10, <2>2 DEF Reaches
    <3> HIDE DEF b, a
    <3> QED BY <1>5, <3>1, <3>2
  <2> QED BY <2>1, <2>2
<1>11. CASE /\ end <= Arrays[id].rows /\ (away => a.b_s_open) /\ wrong
            /\ mem' = Failed(mem, "bad access") /\ varray' = [varray EXCEPT ![id] = b]
            /\ strip' = [strip EXCEPT ![id] = NoStrip]
  <2>1. /\ BufferRight(id, b) /\ b.first_undef_row = varray[id].first_undef_row
        /\ \A r \in 0..varray[id].first_undef_row - 1 : RowOf(b, r) = RowOf(varray[id], r)
    BY <1>10, <1>11
  <2>2. /\ mem' = Failed(mem, "bad access") /\ varray' = [varray EXCEPT ![id] = b]
        /\ strip' = [strip EXCEPT ![id] = NoStrip]
    BY <1>11
  <2> HIDE DEF wrong, undef, b, away, end
  <2> QED BY <1>3, <1>4, <1>5, <2>1, <2>2, AccessFailed
<1>12. CASE /\ end <= Arrays[id].rows /\ (away => a.b_s_open) /\ ~wrong
            /\ varray' = [varray EXCEPT ![id] = Defined(id, b, start, end, w)]
            /\ strip' = [strip EXCEPT ![id] = [start |-> start, num |-> num, writable |-> w]]
            /\ UNCHANGED mem
  <2>1. /\ BufferRight(id, b) /\ b.first_undef_row = varray[id].first_undef_row
        /\ \A r \in 0..varray[id].first_undef_row - 1 : RowOf(b, r) = RowOf(varray[id], r)
        /\ Reaches(id, b, start, end)
    BY <1>10, <1>12
  <2>2. ~(b.first_undef_row < start + num
           /\ (IF w THEN b.first_undef_row < start ELSE ~Arrays[id].pre_zero))
    BY <1>12
  <2>3. /\ varray' = [varray EXCEPT ![id] = Defined(id, b, start, end, w)]
        /\ strip' = [strip EXCEPT ![id] = [start |-> start, num |-> num, writable |-> w]]
        /\ UNCHANGED mem
    BY <1>12
  <2> HIDE DEF wrong, undef, b, away
  <2> QED BY <1>3, <1>4, <1>5, <2>1, <2>2, <2>3, AccessMade
<1> QED BY <1>7, <1>8, <1>9, <1>11, <1>12

LEMMA FileFailsStep ==
    ASSUME MemoryInv, FileFails
    PROVE  MemoryInv' /\ \A x \in Ids : Array(x)!PlainStep
<1>1. PICK id \in {x \in Ids : varray[x] # NoControl /\ varray[x].buffer # <<>>} :
        mem' = Failed(mem, "temporary file") /\ strip' = [strip EXCEPT ![id] = NoStrip]
  BY DEF FileFails
<1>2. mem.err = "none" /\ UNCHANGED <<heap, max_memory_to_use, backing, objects, virt_list, varray>>
  BY DEF FileFails
<1>3. BufferRight(id, varray[id]) /\ DOMAIN varray = Ids
  BY <1>1, InvariantGives DEF Fine, Requested
<1> DEFINE b == varray[id]
<1>4. varray' = varray /\ b = varray[id]
  BY <1>2
<1>5. BufferRight(id, b) /\ b.first_undef_row = varray[id].first_undef_row
      /\ \A r \in 0..varray[id].first_undef_row - 1 : RowOf(b, r) = RowOf(varray[id], r)
  BY <1>3
<1> HIDE DEF b
<1> QED BY <1>1, <1>2, <1>3, <1>4, <1>5, AccessFailed

LEMMA MemoryInitRight ==
    ASSUME MemInit
    PROVE  MemoryInv /\ \A id \in Ids : Array(id)!PlainInit
<1> USE DEF MemInit
<1>1. /\ mem \in Manager /\ mem.err = "none" /\ mem.total = ManagerSize
      /\ \A p \in Pools : mem.small[p] = <<>> /\ mem.large[p] = <<>>
  <2>1. ManagerSize \in Int /\ "none" \in Errors
    BY SizesAssumption DEF Errors
  <2> QED BY <2>1 DEF Manager
<1>2. SpaceAccounted
  <2>1. \A p \in Pools : PoolBytes(mem, p) = 0
    BY <1>1, NoneSum DEF PoolBytes
  <2>2. PoolBytes(mem, JPOOL_PERMANENT) = 0 /\ PoolBytes(mem, JPOOL_IMAGE) = 0 /\ ManagerSize \in Nat
    BY <2>1, SizesAssumption DEF Pools
  <2> QED BY <1>1, <2>2 DEF SpaceAccounted, ObjectsPlaced
<1>3. \A id \in Ids : varray[id] = NoControl /\ strip[id] = NoStrip
  OBVIOUS
<1>4. heap \in Nat /\ max_memory_to_use \in Nat /\ backing \in BOOLEAN /\ virt_list \in Seq(Ids)
      /\ objects \subseteq Object /\ DOMAIN varray = Ids /\ DOMAIN strip = Ids
  BY SizesAssumption
<1>5. MemoryInv
  BY <1>1, <1>2, <1>3, <1>4 DEF MemoryInv, Requested, StripRight
<1>6. ASSUME NEW id \in Ids PROVE Array(id)!PlainInit
  <2>1. DefinedOf(varray[id]) = 0
    BY <1>3, NothingDefined DEF Requested
  <2>2. ContentsOf(varray[id]) = <<>> /\ ViewOf(varray[id], strip[id]) = NoView
    BY <1>3, <2>1, NothingThere
  <2> QED BY <2>1, <2>2 DEF Array!PlainInit, Array!NoView, NoView
<1> QED BY <1>5, <1>6

LEMMA MemoryStep ==
    ASSUME MemoryInv, [MemNext]_memVars
    PROVE  MemoryInv' /\ \A id \in Ids : Array(id)!PlainStep
<1>1. CASE UNCHANGED memVars
  <2> USE <1>1 DEF memVars
  <2>1. \A id \in Ids : Array(id)!PlainStep
    BY ArrayStill
  <2>2. MemoryInv'
    BY DEF MemoryInv, SpaceAccounted
  <2> QED BY <2>1, <2>2
<1>2. CASE AskSmall
  BY <1>2, AskSmallStep
<1>3. CASE RequestArray
  BY <1>3, RequestArrayStep
<1>4. CASE RealizeArrays
  BY <1>4, RealizeArraysStep
<1>5. CASE AccessStrip
  BY <1>5, AccessStripStep
<1>6. CASE FileFails
  BY <1>6, FileFailsStep
<1>7. CASE WriteRow
  BY <1>7, WriteRowStep
<1>8. CASE AbortImage
  BY <1>8, AbortImageStep
<1>9. CASE Destroy
  BY <1>9, DestroyStep
<1> QED BY <1>1, <1>2, <1>3, <1>4, <1>5, <1>6, <1>7, <1>8, <1>9 DEF MemNext

-----------------------------------------------------------------------------

\* A virtual array is a plain array whatever its buffer holds, through any accesses,
\* and the manager's accounts are right in every state (jmemmgr.c).
THEOREM MemoryCorrect == MemSpec => MemoryRight
<1>1. MemInit => MemoryInv /\ \A id \in Ids : Array(id)!PlainInit
  BY MemoryInitRight
<1>2. MemoryInv /\ [MemNext]_memVars => MemoryInv' /\ [\A id \in Ids : Array(id)!PlainStep]_memVars
  BY MemoryStep
<1>3. MemoryInv => SpaceAccounted
  BY DEF MemoryInv
<1> QED BY <1>1, <1>2, <1>3, PTL DEF MemSpec, MemoryRight, VirtualArrays

-----------------------------------------------------------------------------
(* A compression object, what it has written of a stream and a reader of   *)
(* that.                                                                   *)

IsObject(o) ==
    /\ DOMAIN o = {"state", "defined", "space", "tables", "sent", "image", "scan", "stream",
                   "last_restart_interval", "cut"}
    /\ DOMAIN o.tables = Slots
    /\ o.sent \in [Slots -> BOOLEAN]
    /\ \E S : o.stream \in Seq(S)

IsReader(r) ==
    /\ DOMAIN r = {"tables", "interval", "jfif", "adobe", "transform", "frame", "readable"}
    /\ DOMAIN r.tables = Slots
    /\ r.jfif \in BOOLEAN /\ r.adobe \in BOOLEAN /\ r.readable \in BOOLEAN

\* What one knows who has read as far as the object has written.
Reading(r, o) == FoldLeft(Take_marker, r, o.stream)

\* The reader could read all of it, and has each table that counts as sent, unless a stream
\* was given up since.
Knows(r, o) ==
    /\ IsReader(r) /\ r.readable
    /\ ~o.cut => \A s \in Slots : o.sent[s] => r.tables[s] = o.tables[s]

Writing(r, o) == IsObject(o) /\ Knows(Reading(r, o), o)

\* Nothing was written of the object but tables, those of T among them if they had to be.
SameObject(o, p) ==
    /\ p.state = o.state /\ p.defined = o.defined /\ p.space = o.space /\ p.tables = o.tables
    /\ p.image = o.image /\ p.scan = o.scan /\ p.cut = o.cut
    /\ p.last_restart_interval = o.last_restart_interval
SameReader(r, q) ==
    /\ q.interval = r.interval /\ q.jfif = r.jfif /\ q.adobe = r.adobe
    /\ q.transform = r.transform /\ q.frame = r.frame
Emitted(r, o, p, T) ==
    /\ Writing(r, p) /\ SameObject(o, p) /\ SameReader(Reading(r, o), Reading(r, p))
    /\ \A s \in Slots : o.sent[s] \/ s \in T => p.sent[s]

\* The folds, as FoldFacts has them.
TablesEmitted(given, p, k) == Emitted(given[1], given[2], p, {given[3][j] : j \in 1..k})
CodesEmitted(given, p, k) ==
    Emitted(given[1], given[2], p, UNION {ToSet(SlotsOf(given[2], given[3][j])) : j \in 1..k})
MarkersRead == INSTANCE FoldFacts WITH Op <- Take_marker, P <- TablesEmitted
TablesSent  == INSTANCE FoldFacts WITH Op <- EmitTable, P <- TablesEmitted
CodesSent   == INSTANCE FoldFacts WITH Op <- EmitHuffman, P <- CodesEmitted

LEMMA ReadFold ==
    ASSUME NEW base, NEW s
    PROVE  FoldLeft(Take_marker, base, s) = MarkersRead!Fold(base, s)
BY DEF FoldLeft, MarkersRead!Fold, MapThenFoldSet, Max, MarkersRead!Greatest

LEMMA TableFold ==
    ASSUME NEW base, NEW s
    PROVE  FoldLeft(EmitTable, base, s) = TablesSent!Fold(base, s)
BY DEF FoldLeft, TablesSent!Fold, MapThenFoldSet, Max, TablesSent!Greatest

LEMMA CodeFold ==
    ASSUME NEW base, NEW s
    PROVE  FoldLeft(EmitHuffman, base, s) = CodesSent!Fold(base, s)
BY DEF FoldLeft, CodesSent!Fold, MapThenFoldSet, Max, CodesSent!Greatest

\* Of no marker one knows nothing more...
LEMMA ReadNone ==
    ASSUME NEW r
    PROVE  FoldLeft(Take_marker, r, <<>>) = r
BY ReadFold, MarkersRead!FoldNone

\* ...and a marker more is read after those before it.
LEMMA ReadMore ==
    ASSUME NEW r, NEW stream, \E S : stream \in Seq(S), NEW x
    PROVE  /\ \E S : Append(stream, x) \in Seq(S)
           /\ FoldLeft(Take_marker, r, Append(stream, x))
                = Take_marker(FoldLeft(Take_marker, r, stream), x)
<1>1. PICK S : stream \in Seq(S)
  OBVIOUS
<1> DEFINE T == S \cup {x}
<1>2. stream \in Seq(T) /\ x \in T
  BY <1>1
<1> HIDE DEF T
<1>3. Append(stream, x) \in Seq(T)
  BY <1>2
<1>4. MarkersRead!Fold(r, Append(stream, x)) = Take_marker(MarkersRead!Fold(r, stream), x)
  BY <1>2, MarkersRead!FoldOne
<1> QED BY <1>3, <1>4, ReadFold

\* A marker that is emitted is read next.
LEMMA EmitReads ==
    ASSUME NEW r, NEW o, IsObject(o), NEW x
    PROVE  /\ IsObject(Emit_marker(o, x)) /\ SameObject(o, Emit_marker(o, x)) /\ Emit_marker(o, x).sent = o.sent
           /\ Reading(r, Emit_marker(o, x)) = Take_marker(Reading(r, o), x)
<1>1. /\ Emit_marker(o, x).stream = Append(o.stream, x) /\ Emit_marker(o, x).sent = o.sent
      /\ SameObject(o, Emit_marker(o, x)) /\ DOMAIN Emit_marker(o, x) = DOMAIN o
  BY DEF IsObject, Emit_marker, SameObject
<1>2. /\ \E S : Append(o.stream, x) \in Seq(S)
      /\ FoldLeft(Take_marker, r, Append(o.stream, x))
           = Take_marker(FoldLeft(Take_marker, r, o.stream), x)
  <2>1. \E S : o.stream \in Seq(S)
    BY DEF IsObject
  <2> QED BY <2>1, ReadMore
<1>3. IsObject(Emit_marker(o, x))
  BY <1>1, <1>2 DEF IsObject, SameObject
<1> QED BY <1>1, <1>2, <1>3 DEF Reading

\* A segment has its four fields.
LEMMA SegmentFields ==
    ASSUME NEW kind
    PROVE  /\ DOMAIN Segment(kind) = {"kind", "slot", "value", "parts"}
           /\ Segment(kind).kind = kind
BY DEF Segment

-----------------------------------------------------------------------------
(* Tables.                                                                 *)

\* A table that is written is known, and nothing else changes...
LEMMA TableEmitted ==
    ASSUME NEW r, NEW o, Writing(r, o), NEW slot \in Slots
    PROVE  Emitted(r, o, EmitTable(o, slot), {slot})
<1>1. IsObject(o) /\ Knows(Reading(r, o), o)
  BY DEF Writing
<1>2. CASE o.sent[slot]
  <2>1. EmitTable(o, slot) = o
    BY <1>2 DEF EmitTable
  <2> QED BY <1>1, <1>2, <2>1 DEF Emitted, Writing, SameObject, SameReader
<1>3. CASE ~o.sent[slot]
  <2> DEFINE x == [Segment("TABLE") EXCEPT !.slot = slot, !.value = o.tables[slot]]
             e == Emit_marker(o, x)
             y == [e EXCEPT !.sent[slot] = TRUE]
             q == Reading(r, o)
  <2>1. EmitTable(o, slot) = y
    BY <1>3 DEF EmitTable
  <2>2. x.kind = "TABLE" /\ x.slot = slot /\ x.value = o.tables[slot]
    BY DEF Segment
  <2> HIDE DEF x
  <2>3. /\ IsObject(e) /\ SameObject(o, e) /\ e.sent = o.sent
        /\ Reading(r, e) = Take_marker(q, x)
    BY <1>1, EmitReads
  <2> HIDE DEF e
  <2>4. /\ SameObject(o, y) /\ y.sent = [o.sent EXCEPT ![slot] = TRUE] /\ y.stream = e.stream
        /\ DOMAIN y = DOMAIN e
    BY <2>3 DEF IsObject, SameObject
  <2> HIDE DEF y
  <2>5. Reading(r, y) = Take_marker(q, x)
    BY <2>3, <2>4 DEF Reading
  <2>6. IsObject(y)
    BY <2>3, <2>4, <1>1 DEF IsObject, SameObject
  <2>7. Take_marker(q, x) = [q EXCEPT !.tables[slot] = o.tables[slot]]
    BY <2>2 DEF Take_marker
  <2> HIDE DEF q
  <2>8. /\ SameReader(q, Take_marker(q, x))
        /\ Take_marker(q, x).tables = [q.tables EXCEPT ![slot] = o.tables[slot]]
        /\ Take_marker(q, x).readable = q.readable
        /\ DOMAIN Take_marker(q, x) = DOMAIN q
    BY <2>7, <1>1 DEF Knows, IsReader, SameReader, q
  <2>9. IsReader(Take_marker(q, x)) /\ Take_marker(q, x).readable
    BY <1>1, <2>8 DEF Knows, IsReader, SameReader, q
  <2>10. ~y.cut => \A s \in Slots : y.sent[s] => Take_marker(q, x).tables[s] = y.tables[s]
    BY <1>1, <2>4, <2>8 DEF Knows, IsReader, IsObject, SameObject, q
  <2>11. Writing(r, y)
    BY <2>5, <2>6, <2>9, <2>10 DEF Writing, Knows
  <2>12. \A s \in Slots : o.sent[s] \/ s \in {slot} => y.sent[s]
    BY <1>1, <2>4 DEF IsObject
  <2> QED BY <2>1, <2>4, <2>5, <2>8, <2>11, <2>12 DEF Emitted, q
<1> QED BY <1>2, <1>3

LEMMA NothingEmitted ==
    ASSUME NEW r, NEW o, Writing(r, o)
    PROVE  Emitted(r, o, o, {})
BY DEF Emitted, SameObject, SameReader

\* ...and so on.
LEMMA EmittedMore ==
    ASSUME NEW r, NEW o, NEW p, NEW q, NEW T, NEW U, Emitted(r, o, p, T), Emitted(r, p, q, U)
    PROVE  Emitted(r, o, q, T \cup U)
BY DEF Emitted, SameObject, SameReader

LEMMA TablesAreEmitted ==
    ASSUME NEW r, NEW o, Writing(r, o), NEW slots \in Seq(Slots)
    PROVE  Emitted(r, o, EmitTables(o, slots), {slots[j] : j \in 1..Len(slots)})
<1> DEFINE given == <<r, o, slots>>
<1>1. TablesEmitted(given, o, 0)
  <2>1. {slots[j] : j \in 1..0} = {}
    OBVIOUS
  <2> QED BY <2>1, NothingEmitted DEF TablesEmitted
<1>2. ASSUME NEW k \in 1..Len(slots), NEW v, TablesEmitted(given, v, k - 1)
      PROVE  TablesEmitted(given, EmitTable(v, slots[k]), k)
  <2>1. Emitted(r, o, v, {slots[j] : j \in 1..(k - 1)})
    BY <1>2 DEF TablesEmitted
  <2>2. slots[k] \in Slots
    OBVIOUS
  <2>3. Emitted(r, v, EmitTable(v, slots[k]), {slots[k]})
    BY <2>1, <2>2, TableEmitted DEF Emitted
  <2>4. {slots[j] : j \in 1..k} = {slots[j] : j \in 1..(k - 1)} \cup {slots[k]}
    OBVIOUS
  <2>5. Emitted(r, o, EmitTable(v, slots[k]), {slots[j] : j \in 1..k})
    BY <2>1, <2>3, <2>4, EmittedMore
  <2> QED BY <2>5 DEF TablesEmitted
<1>3. TablesEmitted(given, TablesSent!Fold(o, slots), Len(slots))
  <2> HIDE DEF given
  <2> QED BY <1>1, <1>2, TablesSent!FoldKeeps
<1> QED BY <1>3, TableFold DEF TablesEmitted, EmitTables

\* The components of an image: their tables are tables there are, and their identifiers differ.
Parts == [id : Nat, quant : {0, 1}, dc : {0, 1}, ac : {0, 1}]

LEMMA PartFields == \A p \in Parts : p.id \in Nat /\ p.quant \in {0, 1} /\ p.dc \in {0, 1} /\ p.ac \in {0, 1}
BY DEF Parts

LEMMA ComponentParts ==
    ASSUME NEW space \in ColorSpaces
    PROVE  /\ Components(space) \in Seq(Parts)
           /\ Len(Components(space)) \in {1, 3, 4}
           /\ \A a, b \in DOMAIN Components(space) :
                Components(space)[a].id = Components(space)[b].id => a = b
<1>1. \A id \in Nat : \A q, t \in {0, 1} : Part(id, q, t) \in Parts /\ Part(id, q, t).id = id
  BY DEF Part, Parts
<1>3. CASE space = "GRAYSCALE"
  <2>1. Components(space) = <<Part(1, 0, 0)>>
    BY <1>3 DEF Components
  <2> QED BY <1>1, <2>1
<1>4. CASE space = "RGB"
  <2>1. Components(space) = <<Part(82, 0, 0), Part(71, 0, 0), Part(66, 0, 0)>>
    BY <1>4 DEF Components
  <2> QED BY <1>1, <2>1
<1>5. CASE space = "YCbCr"
  <2>1. Components(space) = <<Part(1, 0, 0), Part(2, 1, 1), Part(3, 1, 1)>>
    BY <1>5 DEF Components
  <2> QED BY <1>1, <2>1
<1>6. CASE space = "CMYK"
  <2>1. Components(space) = <<Part(67, 0, 0), Part(77, 0, 0), Part(89, 0, 0), Part(75, 0, 0)>>
    BY <1>6 DEF Components
  <2> QED BY <1>1, <2>1
<1>7. CASE space = "YCCK"
  <2>1. Components(space) = <<Part(1, 0, 0), Part(2, 1, 1), Part(3, 1, 1), Part(4, 0, 0)>>
    BY <1>7 DEF Components
  <2> QED BY <1>1, <2>1
<1> QED BY <1>3, <1>4, <1>5, <1>6, <1>7 DEF ColorSpaces

LEMMA SlotKinds ==
    \A n \in {0, 1} : <<"quant", n>> \in Slots /\ <<"dc", n>> \in Slots /\ <<"ac", n>> \in Slots
BY DEF Slots, QuantSlots, HuffSlots

\* The tables a coder uses for a component.
LEMMA SlotsOfPart ==
    ASSUME NEW o, NEW comp \in Parts
    PROVE  /\ SlotsOf(o, comp) \in Seq(HuffSlots)
           /\ ToSet(SlotsOf(o, comp)) = {SlotsOf(o, comp)[j] : j \in 1..Len(SlotsOf(o, comp))}
           /\ \A s \in ToSet(SlotsOf(o, comp)) :
                \/ (s = <<"dc", comp.dc>> /\ NeedsDc(o))
                \/ (s = <<"ac", comp.ac>> /\ NeedsAc(o))
<1> DEFINE d == <<"dc", comp.dc>>
           a == <<"ac", comp.ac>>
           s == SlotsOf(o, comp)
<1>1. d \in HuffSlots /\ a \in HuffSlots
  BY PartFields DEF HuffSlots
<1>2. s = (IF NeedsDc(o) THEN <<d>> ELSE <<>>) \o (IF NeedsAc(o) THEN <<a>> ELSE <<>>)
  BY DEF SlotsOf
<1> HIDE DEF d, a, s
<1>3. /\ s \in Seq(HuffSlots)
      /\ \A j \in 1..Len(s) : (s[j] = d /\ NeedsDc(o)) \/ (s[j] = a /\ NeedsAc(o))
  <2>1. CASE NeedsDc(o) /\ NeedsAc(o)
    BY <1>1, <1>2, <2>1
  <2>2. CASE NeedsDc(o) /\ ~NeedsAc(o)
    BY <1>1, <1>2, <2>2
  <2>3. CASE ~NeedsDc(o) /\ NeedsAc(o)
    BY <1>1, <1>2, <2>3
  <2>4. CASE ~NeedsDc(o) /\ ~NeedsAc(o)
    BY <1>1, <1>2, <2>4
  <2> QED BY <2>1, <2>2, <2>3, <2>4
<1>4. DOMAIN s = 1..Len(s)
  BY <1>3
<1>5. ToSet(s) = {s[j] : j \in 1..Len(s)}
  BY <1>4 DEF ToSet
<1> QED BY <1>3, <1>5 DEF s, d, a

\* An object that differs in what it has written uses the same.
LEMMA SameSlots ==
    ASSUME NEW o, NEW p, SameObject(o, p)
    PROVE  /\ ScanOf(p) = ScanOf(o) /\ CompsOf(p) = CompsOf(o)
           /\ NeedsDc(p) = NeedsDc(o) /\ NeedsAc(p) = NeedsAc(o)
           /\ RestartInterval(p) = RestartInterval(o)
           /\ \A comp : SlotsOf(p, comp) = SlotsOf(o, comp)
<1>1. ScanOf(p) = ScanOf(o)
  BY DEF SameObject, ScanOf, Script
<1>2. CompsOf(p) = CompsOf(o)
  BY <1>1 DEF SameObject, CompsOf
<1>3. NeedsDc(p) = NeedsDc(o) /\ NeedsAc(p) = NeedsAc(o)
  BY <1>1 DEF SameObject, NeedsDc, NeedsAc
<1>4. RestartInterval(p) = RestartInterval(o)
  BY <1>1 DEF SameObject, RestartInterval
<1>5. \A comp : SlotsOf(p, comp) = SlotsOf(o, comp)
  BY <1>3 DEF SlotsOf
<1> QED BY <1>1, <1>2, <1>3, <1>4, <1>5

LEMMA CodesAreEmitted ==
    ASSUME NEW r, NEW o, Writing(r, o), NEW comps \in Seq(Parts)
    PROVE  Emitted(r, o, FoldLeft(EmitHuffman, o, comps),
                   UNION {ToSet(SlotsOf(o, comps[j])) : j \in 1..Len(comps)})
<1> DEFINE given == <<r, o, comps>>
           Used(k) == UNION {ToSet(SlotsOf(o, comps[j])) : j \in 1..k}
<1>1. CodesEmitted(given, o, 0)
  <2>1. Used(0) = {}
    OBVIOUS
  <2> QED BY <2>1, NothingEmitted DEF CodesEmitted
<1>2. ASSUME NEW k \in 1..Len(comps), NEW v, CodesEmitted(given, v, k - 1)
      PROVE  CodesEmitted(given, EmitHuffman(v, comps[k]), k)
  <2> DEFINE comp == comps[k]
             slots == SlotsOf(o, comp)
  <2>1. Emitted(r, o, v, Used(k - 1))
    BY <1>2 DEF CodesEmitted
  <2>2. comp \in Parts
    OBVIOUS
  <2>3. slots \in Seq(Slots) /\ ToSet(slots) = {slots[j] : j \in 1..Len(slots)}
    <3>1. slots \in Seq(HuffSlots) /\ ToSet(slots) = {slots[j] : j \in 1..Len(slots)}
      BY <2>2, SlotsOfPart
    <3>2. HuffSlots \subseteq Slots
      BY DEF Slots
    <3> HIDE DEF slots
    <3> QED BY <3>1, <3>2
  <2>4. EmitHuffman(v, comp) = EmitTables(v, slots)
    BY <2>1, SameSlots DEF Emitted, EmitHuffman
  <2>5. Emitted(r, v, EmitTables(v, slots), ToSet(slots))
    <3> HIDE DEF slots
    <3> QED BY <2>1, <2>3, TablesAreEmitted DEF Emitted
  <2>6. Used(k) = Used(k - 1) \cup ToSet(slots)
    <3>1. 1..k = (1..(k - 1)) \cup {k}
      OBVIOUS
    <3> QED BY <3>1
  <2> HIDE DEF Used, comp
  <2>7. Emitted(r, o, EmitTables(v, slots), Used(k))
    BY <2>1, <2>5, <2>6, EmittedMore
  <2> QED BY <2>4, <2>7 DEF CodesEmitted, Used, comp
<1>3. CodesEmitted(given, CodesSent!Fold(o, comps), Len(comps))
  <2> HIDE DEF given
  <2> QED BY <1>1, <1>2, CodesSent!FoldKeeps
<1> QED BY <1>3, CodeFold DEF CodesEmitted

-----------------------------------------------------------------------------
(* Headers.                                                                *)

\* Nothing but the restart interval of the object differs, or what it has written.
SameImage(o, p) ==
    /\ p.state = o.state /\ p.defined = o.defined /\ p.space = o.space /\ p.tables = o.tables
    /\ p.image = o.image /\ p.scan = o.scan /\ p.cut = o.cut

\* What the header of a file, and that of a frame, tell.
IntroRight(r, o) ==
    /\ r.jfif = WriteJfif(o.space) /\ r.adobe = WriteAdobe(o.space)
    /\ r.transform = IF WriteAdobe(o.space) THEN AdobeTransform(o.space) ELSE 0
IntervalRight(r, o) == r.interval = o.last_restart_interval
FrameRight(r, o) ==
    r.frame = [c \in DOMAIN Components(o.space) |->
                  [id |-> Components(o.space)[c].id, quant |-> Components(o.space)[c].quant]]
QuantizersSent(o) ==
    \A c \in DOMAIN Components(o.space) : o.sent[<<"quant", Components(o.space)[c].quant>>]

\* A marker that is no table leaves the tables known, if it can be read.
LEMMA MarkerEmitted ==
    ASSUME NEW r, NEW o, Writing(r, o), NEW x,
           IsReader(Take_marker(Reading(r, o), x)), Take_marker(Reading(r, o), x).readable,
           Take_marker(Reading(r, o), x).tables = Reading(r, o).tables
    PROVE  /\ Writing(r, Emit_marker(o, x)) /\ SameObject(o, Emit_marker(o, x)) /\ Emit_marker(o, x).sent = o.sent
           /\ Reading(r, Emit_marker(o, x)) = Take_marker(Reading(r, o), x)
<1>1. /\ IsObject(Emit_marker(o, x)) /\ SameObject(o, Emit_marker(o, x)) /\ Emit_marker(o, x).sent = o.sent
      /\ Reading(r, Emit_marker(o, x)) = Take_marker(Reading(r, o), x)
  BY EmitReads DEF Writing
<1>2. Knows(Reading(r, Emit_marker(o, x)), Emit_marker(o, x))
  BY <1>1 DEF Writing, Knows, SameObject
<1> QED BY <1>1, <1>2 DEF Writing

\* The restart interval of the object is not among what a reader knows by the tables.
LEMMA IntervalSet ==
    ASSUME NEW r, NEW o, Writing(r, o), NEW t
    PROVE  LET p == [o EXCEPT !.last_restart_interval = t]
           IN  /\ Writing(r, p) /\ SameImage(o, p) /\ p.sent = o.sent
               /\ p.last_restart_interval = t /\ Reading(r, p) = Reading(r, o)
<1> DEFINE p == [o EXCEPT !.last_restart_interval = t]
<1>1. /\ SameImage(o, p) /\ p.sent = o.sent /\ p.stream = o.stream
      /\ p.last_restart_interval = t /\ DOMAIN p = DOMAIN o
  BY DEF Writing, IsObject, SameImage
<1> HIDE DEF p
<1>2. Reading(r, p) = Reading(r, o)
  BY <1>1 DEF Reading
<1>3. IsObject(p)
  BY <1>1 DEF Writing, IsObject, SameImage
<1>4. Knows(Reading(r, p), p)
  BY <1>1, <1>2 DEF Writing, Knows, SameImage
<1>5. Writing(r, p)
  BY <1>3, <1>4 DEF Writing
<1> QED BY <1>1, <1>2, <1>5 DEF p

\* The header of a file.
LEMMA IntroEmitted ==
    ASSUME NEW r, NEW o, Writing(r, o)
    PROVE  LET p == Write_file_header(o)
           IN  /\ Writing(r, p) /\ SameImage(o, p) /\ p.sent = o.sent
               /\ IntroRight(Reading(r, p), p) /\ IntervalRight(Reading(r, p), p)
<1> DEFINE q == Reading(r, o)
           a == Emit_marker(o, Segment("SOI"))
           b == [a EXCEPT !.last_restart_interval = 0]
           c == IF WriteJfif(o.space) THEN Emit_marker(b, Segment("APP0")) ELSE b
           x == [Segment("APP14") EXCEPT !.value = <<AdobeTransform(o.space)>>]
           p == IF WriteAdobe(o.space) THEN Emit_marker(c, x) ELSE c
<1>1. IsReader(q) /\ q.readable
  BY DEF Writing, Knows
<1>2. x.kind = "APP14" /\ x.value = <<AdobeTransform(o.space)>>
  BY DEF Segment
<1>3. p = Write_file_header(o)
  BY DEF Write_file_header
<1>4. /\ Writing(r, a) /\ SameImage(o, a) /\ a.sent = o.sent
      /\ Reading(r, a) = [q EXCEPT !.interval = 0, !.jfif = FALSE, !.adobe = FALSE,
                                   !.transform = 0, !.frame = <<>>]
  <2> DEFINE s == Segment("SOI")
             m == [q EXCEPT !.interval = 0, !.jfif = FALSE, !.adobe = FALSE, !.transform = 0,
                            !.frame = <<>>]
  <2>1. s.kind = "SOI"
    BY DEF Segment
  <2> HIDE DEF s
  <2>2. Take_marker(q, s) = m
    BY <2>1 DEF Take_marker
  <2> HIDE DEF q
  <2>3. IsReader(m) /\ m.readable /\ m.tables = q.tables
    BY <1>1 DEF IsReader
  <2> HIDE DEF m
  <2>4. /\ Writing(r, a) /\ SameObject(o, a) /\ a.sent = o.sent
        /\ Reading(r, a) = Take_marker(q, s)
    BY <2>2, <2>3, MarkerEmitted DEF q, s
  <2> QED BY <2>2, <2>4 DEF m, q, SameObject, SameImage
<1> HIDE DEF q, a
<1>5. /\ Reading(r, a).interval = 0 /\ ~Reading(r, a).jfif /\ ~Reading(r, a).adobe
      /\ Reading(r, a).transform = 0
  BY <1>1, <1>4 DEF IsReader
<1>6. /\ Writing(r, b) /\ SameImage(o, b) /\ b.sent = o.sent
      /\ b.last_restart_interval = 0 /\ Reading(r, b) = Reading(r, a)
  BY <1>4, IntervalSet DEF SameImage
<1> HIDE DEF b
<1>7. /\ Writing(r, c) /\ SameImage(o, c) /\ c.sent = o.sent /\ IntervalRight(Reading(r, c), c)
      /\ Reading(r, c).jfif = WriteJfif(o.space) /\ ~Reading(r, c).adobe
      /\ Reading(r, c).transform = 0
  <2>1. CASE WriteJfif(o.space)
    <3> DEFINE s == Segment("APP0")
               m == [Reading(r, b) EXCEPT !.jfif = TRUE]
    <3>1. s.kind = "APP0"
      BY DEF Segment
    <3> HIDE DEF s
    <3>2. Take_marker(Reading(r, b), s) = m
      BY <3>1 DEF Take_marker
    <3>3. IsReader(Reading(r, b)) /\ Reading(r, b).readable
      BY <1>6 DEF Writing, Knows
    <3>4. /\ IsReader(m) /\ m.readable /\ m.tables = Reading(r, b).tables
          /\ m.jfif = TRUE /\ m.adobe = Reading(r, b).adobe
          /\ m.transform = Reading(r, b).transform /\ m.interval = Reading(r, b).interval
      BY <3>3 DEF IsReader
    <3> HIDE DEF m
    <3>5. /\ Writing(r, Emit_marker(b, s)) /\ SameObject(b, Emit_marker(b, s)) /\ Emit_marker(b, s).sent = b.sent
          /\ Reading(r, Emit_marker(b, s)) = m
      BY <1>6, <3>2, <3>4, MarkerEmitted
    <3>6. c = Emit_marker(b, s)
      BY <2>1 DEF s
    <3> HIDE DEF c
    <3> QED BY <1>5, <1>6, <2>1, <3>4, <3>5, <3>6 DEF SameObject, SameImage, IntervalRight
  <2>2. CASE ~WriteJfif(o.space)
    <3>1. c = b
      BY <2>2
    <3>2. WriteJfif(o.space) = FALSE /\ Reading(r, b).jfif = FALSE
      BY <2>2, <1>5, <1>6 DEF WriteJfif, Writing, Knows, IsReader
    <3> HIDE DEF c
    <3> QED BY <1>5, <1>6, <3>1, <3>2 DEF IntervalRight
  <2> QED BY <2>1, <2>2
<1> HIDE DEF c
<1>8. /\ Writing(r, p) /\ SameImage(o, p) /\ p.sent = o.sent /\ IntervalRight(Reading(r, p), p)
      /\ IntroRight(Reading(r, p), o)
  <2>1. CASE WriteAdobe(o.space)
    <3> DEFINE m == [Reading(r, c) EXCEPT !.adobe = TRUE, !.transform = AdobeTransform(o.space)]
    <3>1. p = Emit_marker(c, x)
      BY <2>1
    <3> HIDE DEF x
    <3>2. Take_marker(Reading(r, c), x) = m
      BY <1>2 DEF Take_marker
    <3>3. IsReader(Reading(r, c)) /\ Reading(r, c).readable
      BY <1>7 DEF Writing, Knows
    <3>4. /\ IsReader(m) /\ m.readable /\ m.tables = Reading(r, c).tables
          /\ m.jfif = Reading(r, c).jfif /\ m.adobe = TRUE
          /\ m.transform = AdobeTransform(o.space) /\ m.interval = Reading(r, c).interval
      BY <3>3 DEF IsReader
    <3> HIDE DEF m
    <3>5. /\ Writing(r, Emit_marker(c, x)) /\ SameObject(c, Emit_marker(c, x)) /\ Emit_marker(c, x).sent = c.sent
          /\ Reading(r, Emit_marker(c, x)) = m
      BY <1>7, <3>2, <3>4, MarkerEmitted
    <3> HIDE DEF p
    <3>6. IntroRight(m, o)
      BY <1>7, <2>1, <3>4 DEF IntroRight
    <3> QED BY <1>7, <3>1, <3>4, <3>5, <3>6 DEF SameObject, SameImage, IntervalRight
  <2>2. CASE ~WriteAdobe(o.space)
    <3>1. p = c
      BY <2>2
    <3>2. WriteAdobe(o.space) = FALSE /\ Reading(r, c).adobe = FALSE
      BY <2>2, <1>7 DEF WriteAdobe, Writing, Knows, IsReader
    <3> HIDE DEF p
    <3> QED BY <1>7, <2>2, <3>1, <3>2 DEF IntroRight
  <2> QED BY <2>1, <2>2
<1> HIDE DEF p
<1>9. IntroRight(Reading(r, p), p)
  BY <1>8 DEF IntroRight, SameImage
<1> QED BY <1>3, <1>8, <1>9

\* The header of a frame: one that says baseline is one for the reader too.
LEMMA FrameEmitted ==
    ASSUME NEW r, NEW o, Writing(r, o), o.space \in ColorSpaces, ~o.cut
    PROVE  LET p == Write_frame_header(o)
           IN  /\ Writing(r, p) /\ SameObject(o, p)
               /\ FrameRight(Reading(r, p), p) /\ QuantizersSent(p)
               /\ Reading(r, p).interval = Reading(r, o).interval
               /\ Reading(r, p).jfif = Reading(r, o).jfif
               /\ Reading(r, p).adobe = Reading(r, o).adobe
               /\ Reading(r, p).transform = Reading(r, o).transform
<1> DEFINE comps == Components(o.space)
           slots == [c \in DOMAIN comps |-> <<"quant", comps[c].quant>>]
           y == EmitTables(o, slots)
           q == Reading(r, y)
           baseline == /\ ~o.image.progressive
                       /\ \A c \in DOMAIN comps : ~SixteenBit(o.tables[<<"quant", comps[c].quant>>])
           value == <<IF o.image.progressive THEN 2 ELSE IF baseline THEN 0 ELSE 1>>
           parts == [c \in DOMAIN comps |-> [id |-> comps[c].id, quant |-> comps[c].quant]]
           x == [Segment("SOF") EXCEPT !.value = value, !.parts = parts]
           m == [q EXCEPT !.frame = x.parts, !.readable = @ /\ FrameReadable(q, x)]
<1>1. Write_frame_header(o) = Emit_marker(y, x)
  BY DEF Write_frame_header
<1>2. comps \in Seq(Parts) /\ DOMAIN comps = 1..Len(comps) /\ Len(comps) \in Nat
  <2>1. comps \in Seq(Parts)
    BY ComponentParts
  <2> HIDE DEF comps
  <2> QED BY <2>1
<1>3. \A c \in DOMAIN comps : <<"quant", comps[c].quant>> \in Slots
  <2> TAKE c \in DOMAIN comps
  <2>1. comps[c] \in Parts
    <3> HIDE DEF comps
    <3> QED BY <1>2
  <2>2. comps[c].quant \in {0, 1}
    BY <2>1, PartFields
  <2> QED BY <2>2, SlotKinds
<1>4. slots \in Seq(Slots) /\ Len(slots) = Len(comps)
  <2> HIDE DEF comps
  <2>1. slots \in [1..Len(comps) -> Slots]
    BY <1>2, <1>3
  <2> HIDE DEF slots
  <2> QED BY <1>2, <2>1
<1>5. Emitted(r, o, y, {slots[j] : j \in 1..Len(slots)})
  <2> HIDE DEF slots
  <2> QED BY <1>4, TablesAreEmitted
<1>6. /\ Writing(r, y) /\ SameObject(o, y)
      /\ SameReader(Reading(r, o), q)
      /\ \A c \in DOMAIN comps : y.sent[<<"quant", comps[c].quant>>]
  <2>1. ASSUME NEW c \in DOMAIN comps PROVE y.sent[<<"quant", comps[c].quant>>]
    <3>1. c \in 1..Len(slots) /\ slots[c] = <<"quant", comps[c].quant>>
      <4> HIDE DEF comps
      <4> QED BY <1>2, <1>4
    <3>2. slots[c] \in {slots[j] : j \in 1..Len(slots)} /\ slots[c] \in Slots
      <4> HIDE DEF comps, slots
      <4> QED BY <3>1, <1>3
    <3> HIDE DEF comps, slots, y
    <3> QED BY <1>5, <3>1, <3>2 DEF Emitted
  <2> QED BY <1>5, <2>1 DEF Emitted
<1> HIDE DEF slots, y
<1>7. /\ x.kind = "SOF" /\ x.value = value /\ x.parts = parts
  BY DEF Segment
<1> HIDE DEF x
<1>8. Take_marker(q, x) = m
  BY <1>7 DEF Take_marker
<1>9. FrameReadable(q, x)
  <2>1. SUFFICES ASSUME x.value[1] = 0 PROVE \A c \in DOMAIN parts : ~SixteenBit(q.tables[<<"quant", parts[c].quant>>])
    BY <1>7 DEF FrameReadable
  <2>2. baseline
    <3> HIDE DEF baseline
    <3> QED BY <1>7, <2>1
  <2>3. \A c \in DOMAIN parts : c \in DOMAIN comps /\ parts[c].quant = comps[c].quant
    OBVIOUS
  <2>4. \A c \in DOMAIN comps : q.tables[<<"quant", comps[c].quant>>] = o.tables[<<"quant", comps[c].quant>>]
    <3> HIDE DEF comps, q
    <3> QED BY <1>3, <1>6 DEF Writing, Knows, SameObject, q
  <2> HIDE DEF parts, q
  <2> QED BY <2>2, <2>3, <2>4
<1>10. IsReader(q) /\ q.readable
  BY <1>6 DEF Writing, Knows
<1> HIDE DEF q
<1>11. /\ IsReader(m) /\ m.readable /\ m.tables = q.tables /\ m.frame = parts
       /\ m.interval = q.interval /\ m.jfif = q.jfif /\ m.adobe = q.adobe
       /\ m.transform = q.transform
  <2> HIDE DEF parts
  <2>1. m.readable = (q.readable /\ FrameReadable(q, x))
    BY <1>10 DEF IsReader
  <2> QED BY <1>7, <1>9, <1>10, <2>1 DEF IsReader
<1> HIDE DEF m
<1>12. /\ Writing(r, Emit_marker(y, x)) /\ SameObject(y, Emit_marker(y, x)) /\ Emit_marker(y, x).sent = y.sent
       /\ Reading(r, Emit_marker(y, x)) = m
  BY <1>6, <1>8, <1>11, MarkerEmitted DEF q
<1> DEFINE p == Emit_marker(y, x)
<1>13. SameObject(o, p)
  BY <1>6, <1>12 DEF SameObject
<1> HIDE DEF p
<1>14. FrameRight(Reading(r, p), p)
  BY <1>11, <1>12, <1>13 DEF FrameRight, SameObject, p
<1>15. QuantizersSent(p)
  BY <1>6, <1>12, <1>13 DEF QuantizersSent, SameObject, p
<1> QED BY <1>1, <1>6, <1>11, <1>12, <1>13, <1>14, <1>15 DEF SameReader, p, q

\* The restart interval of a scan, written where it changes.
LEMMA DriEmitted ==
    ASSUME NEW r, NEW o, Writing(r, o), IntervalRight(Reading(r, o), o)
    PROVE  LET p == EmitDri(o)
           IN  /\ Writing(r, p) /\ SameImage(o, p) /\ p.sent = o.sent
               /\ IntervalRight(Reading(r, p), p)
               /\ p.last_restart_interval = RestartInterval(o)
               /\ Reading(r, p).jfif = Reading(r, o).jfif
               /\ Reading(r, p).adobe = Reading(r, o).adobe
               /\ Reading(r, p).transform = Reading(r, o).transform
               /\ Reading(r, p).frame = Reading(r, o).frame
<1> DEFINE q == Reading(r, o)
           t == RestartInterval(o)
           x == [Segment("DRI") EXCEPT !.value = <<t>>]
           e == Emit_marker(o, x)
           y == [e EXCEPT !.last_restart_interval = t]
           m == [q EXCEPT !.interval = t]
<1>1. CASE t = o.last_restart_interval
  <2>1. EmitDri(o) = o
    BY <1>1 DEF EmitDri
  <2> QED BY <1>1, <2>1 DEF SameImage
<1>2. CASE t # o.last_restart_interval
  <2>1. EmitDri(o) = y
    BY <1>2 DEF EmitDri
  <2>2. x.kind = "DRI" /\ x.value = <<t>>
    BY DEF Segment
  <2> HIDE DEF x, t
  <2>3. Take_marker(q, x) = m
    BY <2>2 DEF Take_marker
  <2>4. IsReader(q) /\ q.readable
    BY DEF Writing, Knows
  <2> HIDE DEF q
  <2>5. /\ IsReader(m) /\ m.readable /\ m.tables = q.tables /\ m.interval = t
        /\ m.jfif = q.jfif /\ m.adobe = q.adobe /\ m.transform = q.transform
        /\ m.frame = q.frame
    BY <2>4 DEF IsReader
  <2> HIDE DEF m
  <2>6. /\ Writing(r, e) /\ SameObject(o, e) /\ e.sent = o.sent /\ Reading(r, e) = m
    BY <2>3, <2>5, MarkerEmitted DEF q
  <2> HIDE DEF e
  <2>7. /\ Writing(r, y) /\ SameImage(e, y) /\ y.sent = e.sent
        /\ y.last_restart_interval = t /\ Reading(r, y) = Reading(r, e)
    BY <2>6, IntervalSet
  <2> HIDE DEF y
  <2>8. SameImage(o, y)
    BY <2>6, <2>7 DEF SameObject, SameImage
  <2> QED BY <2>1, <2>5, <2>6, <2>7, <2>8 DEF IntervalRight, q, t
<1> QED BY <1>1, <1>2

\* The components of a scan are components of the image.
LEMMA ScanParts ==
    ASSUME NEW o, o.space \in ColorSpaces, ScanOf(o).comps \in Seq(1..Len(Components(o.space)))
    PROVE  /\ CompsOf(o) \in Seq(Parts)
           /\ \A c \in DOMAIN CompsOf(o) : \E a \in DOMAIN Components(o.space) :
                CompsOf(o)[c] = Components(o.space)[a]
<1> DEFINE comps == Components(o.space)
           s == ScanOf(o).comps
           f == [k \in DOMAIN s |-> comps[s[k]]]
<1>1. CompsOf(o) = f
  BY DEF CompsOf
<1>2. comps \in Seq(Parts)
  BY ComponentParts
<1>3. s \in Seq(1..Len(comps))
  OBVIOUS
<1> HIDE DEF comps, s
<1>4. DOMAIN s = 1..Len(s) /\ Len(s) \in Nat /\ DOMAIN comps = 1..Len(comps)
  BY <1>2, <1>3
<1>5. \A k \in 1..Len(s) : s[k] \in DOMAIN comps /\ comps[s[k]] \in Parts
  BY <1>2, <1>3, <1>4
<1>6. f \in [1..Len(s) -> Parts]
  BY <1>4, <1>5
<1>7. \A c \in DOMAIN f : \E a \in DOMAIN comps : f[c] = comps[a]
  BY <1>4, <1>5
<1> HIDE DEF f
<1>8. f \in Seq(Parts)
  BY <1>4, <1>6
<1> QED BY <1>1, <1>7, <1>8 DEF comps

\* The reader takes the quantizers of a component from the frame.
LEMMA FrameOfPart ==
    ASSUME NEW r, NEW o, o.space \in ColorSpaces, FrameRight(r, o),
           NEW a \in DOMAIN Components(o.space), NEW id, id = Components(o.space)[a].id
    PROVE  QuantOf(r.frame, id) = Components(o.space)[a].quant
<1> DEFINE comps == Components(o.space)
           part(c) == [id |-> comps[c].id, quant |-> comps[c].quant]
           frame == [c \in DOMAIN comps |-> part(c)]
<1>1. \A b \in DOMAIN comps : comps[b].id = comps[a].id => b = a
  BY ComponentParts
<1>2. r.frame = frame
  BY DEF FrameRight
<1> HIDE DEF comps
<1>3. ToSet(frame) = {part(c) : c \in DOMAIN comps}
  BY DEF ToSet
<1>4. part(a) \in ToSet(frame) /\ part(a).id = id
  BY <1>3 DEF comps
<1>5. \A f \in ToSet(frame) : f.id = id => f = part(a)
  <2> TAKE f \in ToSet(frame)
  <2> HAVE f.id = id
  <2>1. PICK b \in DOMAIN comps : f = part(b)
    BY <1>3
  <2>2. comps[b].id = comps[a].id
    BY <2>1 DEF comps
  <2>3. b = a
    BY <1>1, <2>2
  <2> QED BY <2>1, <2>3
<1>6. (CHOOSE f \in ToSet(frame) : f.id = id) = part(a)
  <2> HIDE DEF frame, part
  <2> QED BY <1>4, <1>5
<1>7. part(a).quant = comps[a].quant
  OBVIOUS
<1> HIDE DEF part, frame
<1> QED BY <1>2, <1>6, <1>7 DEF comps, QuantOf

\* A scan can be read once its tables are sent and its interval is.
LEMMA ScanIsReadable ==
    ASSUME NEW r, NEW o, Writing(r, o), o.space \in ColorSpaces, ~o.cut,
           ScanOf(o).comps \in Seq(1..Len(Components(o.space))),
           FrameRight(Reading(r, o), o), QuantizersSent(o),
           IntervalRight(Reading(r, o), o), o.last_restart_interval = RestartInterval(o),
           \A c \in DOMAIN CompsOf(o) : \A s \in ToSet(SlotsOf(o, CompsOf(o)[c])) : o.sent[s]
    PROVE  /\ Writing(r, Emit_sos(o)) /\ SameObject(o, Emit_sos(o)) /\ Emit_sos(o).sent = o.sent
           /\ Reading(r, Emit_sos(o)) = [Reading(r, o) EXCEPT !.readable = TRUE]
<1> DEFINE q == Reading(r, o)
           comps == CompsOf(o)
           used(c) == {<<s, o.tables[s]>> : s \in ToSet(SlotsOf(o, comps[c]))
                                                 \cup {<<"quant", comps[c].quant>>}}
           part(c) == [id |-> comps[c].id, used |-> used(c),
                       dc |-> IF NeedsDc(o) THEN comps[c].dc ELSE 0,
                       ac |-> IF NeedsAc(o) THEN comps[c].ac ELSE 0]
           value == <<RestartInterval(o)>>
           parts == [c \in DOMAIN comps |-> part(c)]
           x == [Segment("SOS") EXCEPT !.value = value, !.parts = parts]
           slot(p, u) == CASE u[1][1] = "dc" -> <<"dc", p.dc>>
                           [] u[1][1] = "ac" -> <<"ac", p.ac>>
                           [] OTHER -> <<"quant", QuantOf(q.frame, p.id)>>
<1>1. Emit_sos(o) = Emit_marker(o, x)
  BY DEF Emit_sos
<1>2. x.kind = "SOS" /\ x.value = value /\ x.parts = parts
  BY DEF Segment
<1> HIDE DEF x
<1>3. IsReader(q) /\ q.readable
  BY DEF Writing, Knows
<1>4. \A s \in Slots : o.sent[s] => q.tables[s] = o.tables[s]
  BY DEF Writing, Knows
<1>5. q.interval = RestartInterval(o)
  BY DEF IntervalRight
<1>6. \A a \in DOMAIN Components(o.space) :
          QuantOf(q.frame, Components(o.space)[a].id) = Components(o.space)[a].quant
  <2> HIDE DEF q, comps, slot
  <2>1. FrameRight(q, o)
    BY DEF q
  <2> QED BY <2>1, FrameOfPart
<1>7. ASSUME NEW c \in DOMAIN comps, NEW u \in part(c).used
      PROVE  q.tables[slot(part(c), u)] = u[2]
  <2>1. PICK a \in DOMAIN Components(o.space) : comps[c] = Components(o.space)[a]
    BY ScanParts
  <2>2. comps[c] \in Parts
    <3> HIDE DEF comps
    <3>1. comps \in Seq(Parts)
      BY ScanParts DEF comps
    <3> QED BY <3>1
  <2>3. PICK s \in ToSet(SlotsOf(o, comps[c])) \cup {<<"quant", comps[c].quant>>} :
          u = <<s, o.tables[s]>>
    <3> HIDE DEF comps
    <3> QED BY <1>7
  <2>4. /\ part(c).id = comps[c].id
        /\ part(c).dc = (IF NeedsDc(o) THEN comps[c].dc ELSE 0)
        /\ part(c).ac = (IF NeedsAc(o) THEN comps[c].ac ELSE 0)
    OBVIOUS
  <2>5. u[1] = s /\ u[2] = o.tables[s]
    BY <2>3
  <2> HIDE DEF part
  <2>6. CASE s = <<"dc", comps[c].dc>> /\ NeedsDc(o) /\ s \in ToSet(SlotsOf(o, comps[c]))
    <3>1. u[1][1] = "dc" /\ part(c).dc = comps[c].dc
      BY <2>4, <2>5, <2>6
    <3>2. slot(part(c), u) = s
      BY <2>6, <3>1
    <3>3. s \in Slots /\ o.sent[s]
      BY <2>2, <2>6, SlotKinds, PartFields
    <3> QED BY <1>4, <2>5, <3>2, <3>3
  <2>7. CASE s = <<"ac", comps[c].ac>> /\ NeedsAc(o) /\ s \in ToSet(SlotsOf(o, comps[c]))
    <3>1. u[1][1] = "ac" /\ part(c).ac = comps[c].ac
      BY <2>4, <2>5, <2>7
    <3>2. slot(part(c), u) = s
      BY <2>7, <3>1
    <3>3. s \in Slots /\ o.sent[s]
      BY <2>2, <2>7, SlotKinds, PartFields
    <3> QED BY <1>4, <2>5, <3>2, <3>3
  <2>8. CASE s = <<"quant", comps[c].quant>>
    <3>1. u[1][1] = "quant"
      BY <2>5, <2>8
    <3>2. slot(part(c), u) = <<"quant", QuantOf(q.frame, part(c).id)>>
      BY <3>1
    <3>3. QuantOf(q.frame, part(c).id) = comps[c].quant
      <4>1. part(c).id = Components(o.space)[a].id
        BY <2>1, <2>4
      <4>2. QuantOf(q.frame, Components(o.space)[a].id) = Components(o.space)[a].quant
        BY <1>6
      <4> HIDE DEF q, comps
      <4> QED BY <2>1, <4>1, <4>2
    <3>4. s \in Slots /\ o.sent[s]
      BY <2>1, <2>2, <2>8, SlotKinds, PartFields DEF QuantizersSent
    <3> QED BY <1>4, <2>5, <2>8, <3>2, <3>3, <3>4
  <2> QED BY <2>2, <2>3, <2>6, <2>7, <2>8, SlotsOfPart
<1> HIDE DEF q, comps
<1>8. ScanReadable(q, x)
  <2>1. DOMAIN parts = DOMAIN comps /\ \A c \in DOMAIN comps : parts[c] = part(c)
    OBVIOUS
  <2> HIDE DEF parts, part
  <2>2. x.value[1] = RestartInterval(o)
    BY <1>2
  <2>3. \A c \in DOMAIN x.parts : \A u \in x.parts[c].used : q.tables[slot(x.parts[c], u)] = u[2]
    BY <1>2, <1>7, <2>1
  <2> QED BY <1>5, <2>2, <2>3 DEF ScanReadable
<1> DEFINE m == [q EXCEPT !.readable = TRUE]
<1>9. Take_marker(q, x) = m
  <2>1. Take_marker(q, x) = [q EXCEPT !.readable = @ /\ ScanReadable(q, x)]
    BY <1>2 DEF Take_marker
  <2> QED BY <1>3, <1>8, <2>1 DEF IsReader
<1>10. IsReader(m) /\ m.readable /\ m.tables = q.tables
  BY <1>3 DEF IsReader
<1> HIDE DEF m
<1>11. /\ Writing(r, Emit_marker(o, x)) /\ SameObject(o, Emit_marker(o, x)) /\ Emit_marker(o, x).sent = o.sent
       /\ Reading(r, Emit_marker(o, x)) = m
  BY <1>9, <1>10, MarkerEmitted DEF q
<1> QED BY <1>1, <1>11 DEF m, q

LEMMA ScanEmitted ==
    ASSUME NEW r, NEW o, Writing(r, o), o.space \in ColorSpaces, ~o.cut,
           ScanOf(o).comps \in Seq(1..Len(Components(o.space))),
           IntroRight(Reading(r, o), o), FrameRight(Reading(r, o), o), QuantizersSent(o),
           IntervalRight(Reading(r, o), o)
    PROVE  LET p == Write_scan_header(o)
           IN  /\ Writing(r, p) /\ SameImage(o, p) /\ IntervalRight(Reading(r, p), p)
               /\ IntroRight(Reading(r, p), p) /\ FrameRight(Reading(r, p), p)
               /\ QuantizersSent(p)
<1> DEFINE comps == CompsOf(o)
           T == UNION {ToSet(SlotsOf(o, comps[j])) : j \in 1..Len(comps)}
           y == FoldLeft(EmitHuffman, o, comps)
           d == EmitDri(y)
           p == Emit_sos(d)
<1>1. Write_scan_header(o) = p
  BY DEF Write_scan_header
<1>2. comps \in Seq(Parts) /\ DOMAIN comps = 1..Len(comps)
  <2>1. comps \in Seq(Parts)
    BY ScanParts
  <2> HIDE DEF comps
  <2> QED BY <2>1
<1>3. Emitted(r, o, y, T)
  <2> HIDE DEF comps
  <2> QED BY <1>2, CodesAreEmitted
<1> HIDE DEF y
<1>4. /\ Writing(r, y) /\ SameObject(o, y) /\ SameReader(Reading(r, o), Reading(r, y))
      /\ \A s \in Slots : o.sent[s] \/ s \in T => y.sent[s]
  BY <1>3 DEF Emitted
<1>5. IntervalRight(Reading(r, y), y)
  BY <1>4 DEF IntervalRight, SameReader, SameObject
<1>6. /\ Writing(r, d) /\ SameImage(y, d) /\ d.sent = y.sent /\ IntervalRight(Reading(r, d), d)
      /\ d.last_restart_interval = RestartInterval(y)
      /\ Reading(r, d).jfif = Reading(r, y).jfif
      /\ Reading(r, d).adobe = Reading(r, y).adobe
      /\ Reading(r, d).transform = Reading(r, y).transform
      /\ Reading(r, d).frame = Reading(r, y).frame
  BY <1>4, <1>5, DriEmitted
<1> HIDE DEF d
<1>7. SameImage(o, d)
  BY <1>4, <1>6 DEF SameImage, SameObject
<1>8. /\ ScanOf(d) = ScanOf(o) /\ CompsOf(d) = comps
      /\ d.last_restart_interval = RestartInterval(d)
      /\ \A comp : SlotsOf(d, comp) = SlotsOf(o, comp)
  <2>1. ScanOf(d) = ScanOf(o)
    BY <1>7 DEF SameImage, ScanOf, Script
  <2>2. CompsOf(d) = comps
    BY <1>7, <2>1 DEF SameImage, CompsOf
  <2>3. NeedsDc(d) = NeedsDc(o) /\ NeedsAc(d) = NeedsAc(o)
    BY <1>7, <2>1 DEF SameImage, NeedsDc, NeedsAc
  <2>4. \A comp : SlotsOf(d, comp) = SlotsOf(o, comp)
    BY <2>3 DEF SlotsOf
  <2>5. RestartInterval(d) = RestartInterval(o)
    BY <1>7, <2>1 DEF SameImage, RestartInterval
  <2>6. RestartInterval(y) = RestartInterval(o)
    BY <1>4, SameSlots
  <2> QED BY <1>6, <2>1, <2>2, <2>4, <2>5, <2>6
<1>9. QuantizersSent(d)
  <2>1. ASSUME NEW c \in DOMAIN Components(o.space)
        PROVE  <<"quant", Components(o.space)[c].quant>> \in Slots
    <3>1. Components(o.space)[c] \in Parts
      <4> DEFINE all == Components(o.space)
      <4>1. all \in Seq(Parts)
        BY ComponentParts
      <4> HIDE DEF all
      <4>2. c \in DOMAIN all
        BY DEF all
      <4>3. all[c] \in Parts
        BY <4>1, <4>2
      <4> QED BY <4>3 DEF all
    <3> QED BY <3>1, PartFields, SlotKinds
  <2> QED BY <1>4, <1>6, <1>7, <2>1 DEF QuantizersSent, SameImage
<1>10. \A c \in DOMAIN CompsOf(d) : \A s \in ToSet(SlotsOf(d, CompsOf(d)[c])) : d.sent[s]
  <2> TAKE c \in DOMAIN CompsOf(d)
  <2> TAKE s \in ToSet(SlotsOf(d, CompsOf(d)[c]))
  <2> HIDE DEF comps
  <2>1. c \in 1..Len(comps) /\ comps[c] \in Parts
    BY <1>2, <1>8
  <2>2. s \in ToSet(SlotsOf(o, comps[c]))
    BY <1>8
  <2>3. s \in T
    BY <2>1, <2>2
  <2>4. s \in Slots
    <3>1. \/ s = <<"dc", comps[c].dc>>
          \/ s = <<"ac", comps[c].ac>>
      BY <2>1, <2>2, SlotsOfPart
    <3>2. comps[c].dc \in {0, 1} /\ comps[c].ac \in {0, 1}
      BY <2>1, PartFields
    <3> QED BY <3>1, <3>2, SlotKinds
  <2> HIDE DEF T
  <2> QED BY <1>4, <1>6, <2>3, <2>4
<1>11. FrameRight(Reading(r, d), d) /\ IntroRight(Reading(r, d), d)
  BY <1>4, <1>6, <1>7 DEF FrameRight, IntroRight, SameImage, SameReader
<1>12. /\ d.space \in ColorSpaces /\ ~d.cut
       /\ ScanOf(d).comps \in Seq(1..Len(Components(d.space)))
  BY <1>7, <1>8 DEF SameImage
<1> HIDE DEF p, comps, T
<1>13. /\ Writing(r, p) /\ SameObject(d, p) /\ p.sent = d.sent
       /\ Reading(r, p) = [Reading(r, d) EXCEPT !.readable = TRUE]
  BY <1>6, <1>8, <1>9, <1>10, <1>11, <1>12, ScanIsReadable DEF p
<1>14. /\ Reading(r, p).jfif = Reading(r, d).jfif
       /\ Reading(r, p).adobe = Reading(r, d).adobe
       /\ Reading(r, p).transform = Reading(r, d).transform
       /\ Reading(r, p).interval = Reading(r, d).interval
       /\ Reading(r, p).frame = Reading(r, d).frame
  <2>1. IsReader(Reading(r, d))
    BY <1>6 DEF Writing, Knows
  <2> QED BY <1>13, <2>1 DEF IsReader
<1>15. SameImage(o, p)
  BY <1>7, <1>13 DEF SameObject, SameImage
<1>16. IntervalRight(Reading(r, p), p)
  BY <1>6, <1>13, <1>14 DEF IntervalRight, SameObject
<1>17. FrameRight(Reading(r, p), p) /\ IntroRight(Reading(r, p), p) /\ QuantizersSent(p)
  BY <1>9, <1>11, <1>13, <1>14 DEF FrameRight, IntroRight, QuantizersSent, SameObject
<1> QED BY <1>1, <1>13, <1>15, <1>16, <1>17

\* New Huffman tables, which the object counts as not sent.
LEMMA TablesPut ==
    ASSUME NEW r, NEW o, Writing(r, o), NEW T, NEW value
    PROVE  LET p == PutAll(o, T, value)
           IN  /\ Writing(r, p) /\ Reading(r, p) = Reading(r, o)
               /\ p.state = o.state /\ p.defined = o.defined /\ p.space = o.space
               /\ p.image = o.image /\ p.scan = o.scan /\ p.cut = o.cut /\ p.stream = o.stream
               /\ p.last_restart_interval = o.last_restart_interval
               /\ \A s \in Slots : s \notin T => p.sent[s] = o.sent[s]
<1> DEFINE p == PutAll(o, T, value)
<1>1. IsObject(o) /\ Knows(Reading(r, o), o)
  BY DEF Writing
<1>2. /\ p.state = o.state /\ p.defined = o.defined /\ p.space = o.space
      /\ p.image = o.image /\ p.scan = o.scan /\ p.cut = o.cut /\ p.stream = o.stream
      /\ p.last_restart_interval = o.last_restart_interval
      /\ DOMAIN p = DOMAIN o
      /\ p.tables = [s \in Slots |-> IF s \in T THEN value ELSE o.tables[s]]
      /\ p.sent = [s \in Slots |-> s \notin T /\ o.sent[s]]
  BY <1>1 DEF IsObject, PutAll
<1> HIDE DEF p
<1>3. Reading(r, p) = Reading(r, o)
  BY <1>2 DEF Reading
<1>4. p.sent \in [Slots -> BOOLEAN] /\ \A s \in Slots : s \notin T => p.sent[s] = o.sent[s]
  BY <1>1, <1>2 DEF IsObject
<1>5. IsObject(p)
  BY <1>1, <1>2, <1>4 DEF IsObject
<1>6. Knows(Reading(r, p), p)
  BY <1>1, <1>2, <1>3 DEF Knows
<1> QED BY <1>2, <1>3, <1>4, <1>5, <1>6 DEF p, Writing

-----------------------------------------------------------------------------
(* The colours a reader takes an image to be in.                           *)

LEMMA SpaceGuessed ==
    ASSUME NEW r, NEW o, o.space \in ColorSpaces, IntroRight(r, o), FrameRight(r, o)
    PROVE  GuessedSpace(r) = o.space
<1> DEFINE comps == Components(o.space)
           frame == [c \in DOMAIN comps |-> [id |-> comps[c].id, quant |-> comps[c].quant]]
<1>1. r.frame = frame
  BY DEF FrameRight
<1>2. comps \in Seq(Parts) /\ Len(comps) \in Nat /\ DOMAIN comps = 1..Len(comps)
  <2>1. comps \in Seq(Parts)
    BY ComponentParts
  <2> HIDE DEF comps
  <2> QED BY <2>1
<1>3. Len(frame) = Len(comps) /\ \A c \in DOMAIN comps : frame[c].id = comps[c].id
  <2> HIDE DEF comps
  <2> QED BY <1>2
<1> HIDE DEF frame
<1>4. CASE o.space = "GRAYSCALE"
  <2>1. comps = <<Part(1, 0, 0)>>
    BY <1>4 DEF Components
  <2> HIDE DEF comps
  <2>2. Len(r.frame) = 1
    BY <1>1, <1>3, <2>1
  <2> QED BY <1>4, <2>2 DEF GuessedSpace
<1>5. CASE o.space = "RGB"
  <2>1. comps = <<Part(82, 0, 0), Part(71, 0, 0), Part(66, 0, 0)>>
    BY <1>5 DEF Components
  <2> HIDE DEF comps
  <2>2. Len(r.frame) = 3
    BY <1>1, <1>3, <2>1
  <2>3. ~r.jfif
    BY <1>5 DEF IntroRight, WriteJfif
  <2>4. r.adobe = TRUE /\ r.transform = 0
    BY <1>5 DEF IntroRight, WriteAdobe, AdobeTransform
  <2> QED BY <1>5, <2>2, <2>3, <2>4 DEF GuessedSpace
<1>6. CASE o.space = "YCbCr"
  <2>1. comps = <<Part(1, 0, 0), Part(2, 1, 1), Part(3, 1, 1)>>
    BY <1>6 DEF Components
  <2> HIDE DEF comps
  <2>2. Len(r.frame) = 3
    BY <1>1, <1>3, <2>1
  <2>3. r.jfif = TRUE
    BY <1>6 DEF IntroRight, WriteJfif
  <2> QED BY <1>6, <2>2, <2>3 DEF GuessedSpace
<1>7. CASE o.space = "CMYK"
  <2>1. comps = <<Part(67, 0, 0), Part(77, 0, 0), Part(89, 0, 0), Part(75, 0, 0)>>
    BY <1>7 DEF Components
  <2> HIDE DEF comps
  <2>2. Len(r.frame) = 4
    BY <1>1, <1>3, <2>1
  <2>3. r.adobe = TRUE /\ r.transform = 0
    BY <1>7 DEF IntroRight, WriteAdobe, AdobeTransform
  <2> QED BY <1>7, <2>2, <2>3 DEF GuessedSpace
<1>8. CASE o.space = "YCCK"
  <2>1. comps = <<Part(1, 0, 0), Part(2, 1, 1), Part(3, 1, 1), Part(4, 0, 0)>>
    BY <1>8 DEF Components
  <2> HIDE DEF comps
  <2>2. Len(r.frame) = 4
    BY <1>1, <1>3, <2>1
  <2>3. r.adobe = TRUE /\ r.transform = 2
    BY <1>8 DEF IntroRight, WriteAdobe, AdobeTransform
  <2> QED BY <1>8, <2>2, <2>3 DEF GuessedSpace
<1> QED BY <1>4, <1>5, <1>6, <1>7, <1>8 DEF ColorSpaces

-----------------------------------------------------------------------------
(* The invariant of a compression object and its reader.                   *)

\* An image that is being written: the reader follows, and knows the frame from the first scan.
ImageOpen(r, o) ==
    /\ o.defined /\ ~o.cut /\ Writing(r, o)
    /\ IntroRight(Reading(r, o), o) /\ IntervalRight(Reading(r, o), o)
    /\ ScriptValid(o.image.scans, Len(Components(o.space)))
    /\ o.scan # 0 => FrameRight(Reading(r, o), o) /\ QuantizersSent(o)

StreamRight(r, o) ==
    /\ IsObject(o) /\ IsReader(r) /\ r.readable
    /\ o.state \in {"start", "open"} /\ o.defined \in BOOLEAN /\ o.scan \in Nat
    /\ o.defined => o.space \in ColorSpaces
    /\ o.state = "start" => o.stream = <<>> /\ Knows(r, o)
    /\ o.state = "open" => ImageOpen(r, o)
StreamInvariant == StreamRight(reader, obj)

\* Before a stream the reader knows what the object has sent.
LEMMA NothingWritten ==
    ASSUME NEW r, NEW o, IsObject(o), o.stream = <<>>, Knows(r, o)
    PROVE  Writing(r, o) /\ Reading(r, o) = r
BY ReadNone DEF Reading, Writing

\* At the end of a stream the reader keeps the tables.
LEMMA StreamRead ==
    ASSUME NEW r, NEW o, Writing(r, o), NEW space, r = reader,
           space # "none" => GuessedSpace(Reading(r, o)) = space
    PROVE  LET q == Read_stream(Append(o.stream, Segment("EOI")), space)
           IN  IsReader(q) /\ q.readable /\ Knows(q, Ended(o))
<1> DEFINE m == Reading(r, o)
           s == Segment("EOI")
           q == Read_stream(Append(o.stream, s), space)
           e == Ended(o)
<1>1. s.kind = "EOI"
  BY DEF Segment
<1> HIDE DEF s
<1>2. FoldLeft(Take_marker, reader, Append(o.stream, s)) = Take_marker(m, s)
  <2>1. \E S : o.stream \in Seq(S)
    BY DEF Writing, IsObject
  <2> QED BY <2>1, ReadMore DEF Reading
<1>3. Take_marker(m, s) = m
  BY <1>1 DEF Take_marker
<1>4. IsReader(m) /\ m.readable
  BY DEF Writing, Knows
<1>5. q = [NewReader EXCEPT !.tables = m.tables,
                            !.readable = m.readable /\ (space # "none" => GuessedSpace(m) = space)]
  <2> HIDE DEF m
  <2> QED BY <1>2, <1>3 DEF Read_stream
<1> HIDE DEF q
<1>6. IsReader(q) /\ q.readable /\ q.tables = m.tables
  <2>1. m.readable /\ (space # "none" => GuessedSpace(m) = space)
    BY <1>4
  <2> HIDE DEF m
  <2> QED BY <1>4, <1>5, <2>1 DEF NewReader, IsReader
<1>7. e.sent = o.sent /\ e.tables = o.tables /\ e.cut = o.cut
  BY DEF Writing, IsObject, Ended
<1> HIDE DEF e
<1>8. Knows(q, e)
  BY <1>6, <1>7 DEF Writing, Knows
<1> QED BY <1>6, <1>8 DEF q, e, s

LEMMA EndedFields ==
    ASSUME NEW o, IsObject(o)
    PROVE  /\ IsObject(Ended(o)) /\ Ended(o).state = "start" /\ Ended(o).scan = 0
           /\ Ended(o).stream = <<>> /\ Ended(o).defined = o.defined
           /\ Ended(o).space = o.space /\ Ended(o).cut = o.cut
           /\ Ended(o).tables = o.tables /\ Ended(o).sent = o.sent
<1>1. /\ Ended(o).state = "start" /\ Ended(o).scan = 0
      /\ Ended(o).stream = <<>> /\ Ended(o).defined = o.defined
      /\ Ended(o).space = o.space /\ Ended(o).cut = o.cut
      /\ Ended(o).tables = o.tables /\ Ended(o).sent = o.sent
      /\ DOMAIN Ended(o) = DOMAIN o
  BY DEF IsObject, Ended
<1>2. <<>> \in Seq({})
  OBVIOUS
<1>3. IsObject(Ended(o))
  BY <1>1, <1>2 DEF IsObject
<1> QED BY <1>1, <1>3

\* One table that is made anew.
LEMMA TablePut ==
    ASSUME NEW r, NEW o, Writing(r, o), NEW slot \in Slots, NEW value
    PROVE  LET p == Put(o, slot, value)
           IN  /\ Writing(r, p) /\ Reading(r, p) = Reading(r, o)
               /\ p.state = o.state /\ p.defined = o.defined /\ p.space = o.space
               /\ p.scan = o.scan /\ p.cut = o.cut /\ p.stream = o.stream
<1> DEFINE p == Put(o, slot, value)
<1>1. IsObject(o) /\ Knows(Reading(r, o), o)
  BY DEF Writing
<1>2. /\ p.state = o.state /\ p.defined = o.defined /\ p.space = o.space
      /\ p.scan = o.scan /\ p.cut = o.cut /\ p.stream = o.stream
      /\ DOMAIN p = DOMAIN o
      /\ p.tables = [o.tables EXCEPT ![slot] = value]
      /\ p.sent = [o.sent EXCEPT ![slot] = FALSE]
  BY <1>1 DEF IsObject, Put
<1> HIDE DEF p
<1>3. Reading(r, p) = Reading(r, o)
  BY <1>2 DEF Reading
<1>4. IsObject(p)
  BY <1>1, <1>2 DEF IsObject
<1>5. Knows(Reading(r, p), p)
  BY <1>1, <1>2, <1>3 DEF Knows, IsObject
<1> QED BY <1>2, <1>3, <1>4, <1>5 DEF p, Writing

-----------------------------------------------------------------------------
(* The steps of a compression object keep it.                              *)

\* Tables and parameters are set between streams.
LEMMA QualitySet ==
    ASSUME NEW r, NEW o, Writing(r, o), NEW quality, NEW force
    PROVE  LET p == Set_quality(o, quality, force)
           IN  /\ Writing(r, p) /\ Reading(r, p) = Reading(r, o)
               /\ p.state = o.state /\ p.defined = o.defined /\ p.space = o.space
               /\ p.scan = o.scan /\ p.cut = o.cut /\ p.stream = o.stream
<1> DEFINE v == Quantizers(Luminance, quality, force)
           w == Quantizers(Chrominance, quality, force)
           y == Put(o, <<"quant", 0>>, v)
           p == Put(y, <<"quant", 1>>, w)
<1>1. p = Set_quality(o, quality, force)
  BY DEF Set_quality
<1>2. <<"quant", 0>> \in Slots /\ <<"quant", 1>> \in Slots
  BY SlotKinds
<1> HIDE DEF v, w
<1>3. /\ Writing(r, y) /\ Reading(r, y) = Reading(r, o)
      /\ y.state = o.state /\ y.defined = o.defined /\ y.space = o.space
      /\ y.scan = o.scan /\ y.cut = o.cut /\ y.stream = o.stream
  BY <1>2, TablePut
<1> HIDE DEF y
<1>4. /\ Writing(r, p) /\ Reading(r, p) = Reading(r, y)
      /\ p.state = y.state /\ p.defined = y.defined /\ p.space = y.space
      /\ p.scan = y.scan /\ p.cut = y.cut /\ p.stream = y.stream
  BY <1>2, <1>3, TablePut
<1> HIDE DEF p
<1> QED BY <1>1, <1>3, <1>4

LEMMA StartWriting ==
    ASSUME StreamInvariant, obj.state = "start", Knows(reader, obj)
    PROVE  Writing(reader, obj) /\ Reading(reader, obj) = reader
BY NothingWritten DEF StreamInvariant, StreamRight

\* What is set between streams is known as it was.
LEMMA StillBetween ==
    ASSUME NEW r, NEW o, IsReader(r), r.readable, Writing(r, o), Reading(r, o) = r,
           o.state = "start", o.stream = <<>>, o.defined \in BOOLEAN, o.scan \in Nat,
           o.defined => o.space \in ColorSpaces
    PROVE  StreamRight(r, o)
BY DEF StreamRight, Writing

LEMMA SetDefaultsStep ==
    ASSUME StreamInvariant, SetDefaults
    PROVE  StreamInvariant'
<1>1. PICK s \in Spaces \cap ColorSpaces : obj' = Set_defaults(obj, s) /\ reader' = reader
  BY DEF SetDefaults
<1>2. /\ obj.state = "start" /\ obj.stream = <<>> /\ IsReader(reader) /\ reader.readable
      /\ obj.scan \in Nat /\ Writing(reader, obj) /\ Reading(reader, obj) = reader
  BY StartWriting DEF SetDefaults, StreamInvariant, StreamRight
<1> DEFINE force == TRUE
           y == Set_quality(obj, 75, force)
           z == PutAll(y, HuffSlots, <<0>>)
           p == [z EXCEPT !.space = s, !.defined = TRUE]
<1>3. p = Set_defaults(obj, s)
  BY DEF Set_defaults, Std_huff_tables
<1>4. /\ Writing(reader, y) /\ Reading(reader, y) = reader
      /\ y.state = "start" /\ y.scan \in Nat /\ y.stream = <<>>
  <2> HIDE DEF force
  <2> QED BY <1>2, QualitySet
<1> HIDE DEF y
<1>5. /\ Writing(reader, z) /\ Reading(reader, z) = reader
      /\ z.state = "start" /\ z.scan \in Nat /\ z.stream = <<>>
  BY <1>4, TablesPut
<1> HIDE DEF z
<1>6. /\ p.state = "start" /\ p.scan \in Nat /\ p.stream = <<>> /\ p.space = s /\ p.defined = TRUE
      /\ p.tables = z.tables /\ p.sent = z.sent /\ p.cut = z.cut /\ DOMAIN p = DOMAIN z
  BY <1>5 DEF Writing, IsObject
<1> HIDE DEF p
<1>7. IsObject(p)
  BY <1>5, <1>6 DEF Writing, IsObject
<1>8. Knows(reader, p)
  BY <1>5, <1>6 DEF Writing, Knows
<1>9. Writing(reader, p) /\ Reading(reader, p) = reader
  BY <1>6, <1>7, <1>8, NothingWritten
<1>10. StreamRight(reader, p)
  BY <1>2, <1>6, <1>9, StillBetween
<1> QED BY <1>1, <1>3, <1>10 DEF StreamInvariant

LEMMA SetQualityStep ==
    ASSUME StreamInvariant, SetQuality
    PROVE  StreamInvariant'
<1>1. PICK q \in Qualities : obj' = Set_quality(obj, q[1], q[2]) /\ reader' = reader
  BY DEF SetQuality
<1>2. /\ obj.state = "start" /\ obj.stream = <<>> /\ IsReader(reader) /\ reader.readable
      /\ obj.scan \in Nat /\ Writing(reader, obj) /\ Reading(reader, obj) = reader
      /\ obj.defined \in BOOLEAN /\ (obj.defined => obj.space \in ColorSpaces)
  BY StartWriting DEF SetQuality, StreamInvariant, StreamRight
<1> DEFINE p == Set_quality(obj, q[1], q[2])
<1>3. /\ Writing(reader, p) /\ Reading(reader, p) = reader
      /\ p.state = "start" /\ p.defined = obj.defined /\ p.space = obj.space
      /\ p.scan = obj.scan /\ p.stream = <<>>
  BY <1>2, QualitySet
<1> HIDE DEF p
<1>4. StreamRight(reader, p)
  BY <1>2, <1>3, StillBetween
<1> QED BY <1>1, <1>4 DEF StreamInvariant, p

\* A file of tables alone.
LEMMA WriteTablesStep ==
    ASSUME StreamInvariant, Write_tables
    PROVE  StreamInvariant'
<1> DEFINE slots == <<<<"quant", 0>>, <<"quant", 1>>, <<"dc", 0>>, <<"ac", 0>>, <<"dc", 1>>, <<"ac", 1>>>>
           s == Segment("SOI")
           e == Emit_marker(obj, s)
           y == EmitTables(e, slots)
           q == Read_stream(Append(y.stream, Segment("EOI")), "none")
<1>1. reader' = q /\ obj' = Ended(y)
  BY DEF Write_tables
<1>2. /\ IsReader(reader) /\ reader.readable /\ Writing(reader, obj)
      /\ Reading(reader, obj) = reader /\ obj.defined \in BOOLEAN
      /\ obj.defined => obj.space \in ColorSpaces
  BY StartWriting DEF Write_tables, StreamInvariant, StreamRight
<1>3. slots \in Seq(Slots)
  <2>1. \A k \in {0, 1} : <<"quant", k>> \in Slots /\ <<"dc", k>> \in Slots /\ <<"ac", k>> \in Slots
    BY SlotKinds
  <2> QED BY <2>1
<1>4. Writing(reader, e) /\ SameObject(obj, e)
  <2> DEFINE m == [reader EXCEPT !.interval = 0, !.jfif = FALSE, !.adobe = FALSE,
                                 !.transform = 0, !.frame = <<>>]
  <2>1. s.kind = "SOI"
    BY DEF Segment
  <2> HIDE DEF s
  <2>2. Take_marker(Reading(reader, obj), s) = m
    BY <1>2, <2>1 DEF Take_marker
  <2>3. IsReader(m) /\ m.readable /\ m.tables = Reading(reader, obj).tables
    BY <1>2 DEF IsReader
  <2> HIDE DEF m
  <2> QED BY <1>2, <2>2, <2>3, MarkerEmitted
<1> HIDE DEF e, slots
<1>5. Writing(reader, y) /\ SameObject(e, y)
  BY <1>3, <1>4, TablesAreEmitted DEF Emitted
<1> HIDE DEF y
<1>6. IsReader(q) /\ q.readable /\ Knows(q, Ended(y))
  BY <1>5, StreamRead
<1> HIDE DEF q
<1>7. /\ IsObject(Ended(y)) /\ Ended(y).state = "start" /\ Ended(y).scan = 0
      /\ Ended(y).stream = <<>> /\ Ended(y).defined = y.defined /\ Ended(y).space = y.space
  BY <1>5, EndedFields DEF Writing
<1>8. StreamRight(q, Ended(y))
  BY <1>2, <1>4, <1>5, <1>6, <1>7 DEF StreamRight, SameObject
<1> QED BY <1>1, <1>8 DEF StreamInvariant

\* An image: with nothing written of it, or with all tables to be written.
LEMMA StartStep ==
    ASSUME StreamInvariant, NEW write_all \in BOOLEAN, Start(write_all)
    PROVE  StreamInvariant'
<1> DEFINE o == IF write_all THEN [obj EXCEPT !.sent = [s \in Slots |-> FALSE]] ELSE obj
<1>1. PICK image \in Settings :
        /\ obj' = IF ScriptValid(image.scans, Len(Components(obj.space)))
                  THEN Write_file_header([o EXCEPT !.state = "open", !.image = image,
                                                   !.scan = 0, !.cut = FALSE])
                  ELSE o
        /\ reader' = reader
  BY DEF Start
<1>2. /\ obj.state = "start" /\ obj.stream = <<>> /\ IsReader(reader) /\ reader.readable
      /\ obj.scan \in Nat /\ IsObject(obj) /\ Knows(reader, obj)
      /\ obj.defined = TRUE /\ obj.space \in ColorSpaces
      /\ (obj.cut => write_all)
  BY DEF Start, StreamInvariant, StreamRight
<1>3. /\ o.state = "start" /\ o.stream = <<>> /\ o.scan \in Nat
      /\ o.defined = TRUE /\ o.space = obj.space /\ o.tables = obj.tables /\ o.cut = obj.cut
      /\ DOMAIN o = DOMAIN obj /\ o.sent \in [Slots -> BOOLEAN]
      /\ (write_all => \A s \in Slots : ~o.sent[s]) /\ (~write_all => o.sent = obj.sent)
  <2>1. CASE write_all
    <3>1. o = [obj EXCEPT !.sent = [s \in Slots |-> FALSE]]
      BY <2>1
    <3> QED BY <1>2, <2>1, <3>1 DEF IsObject
  <2>2. CASE ~write_all
    <3>1. o = obj
      BY <2>2
    <3> QED BY <1>2, <2>2, <3>1 DEF IsObject
  <2> QED BY <2>1, <2>2
<1> HIDE DEF o
<1>4. IsObject(o)
  BY <1>2, <1>3 DEF IsObject
<1>5. \A s \in Slots : o.sent[s] => reader.tables[s] = o.tables[s]
  BY <1>2, <1>3 DEF Knows
<1>6. CASE ~ScriptValid(image.scans, Len(Components(obj.space)))
  <2>1. Knows(reader, o)
    BY <1>2, <1>5 DEF Knows
  <2>2. Writing(reader, o) /\ Reading(reader, o) = reader
    BY <1>3, <1>4, <2>1, NothingWritten
  <2>3. StreamRight(reader, o)
    BY <1>2, <1>3, <2>2, StillBetween
  <2> QED BY <1>1, <1>6, <2>3 DEF StreamInvariant
<1>7. CASE ScriptValid(image.scans, Len(Components(obj.space)))
  <2> DEFINE y == [o EXCEPT !.state = "open", !.image = image, !.scan = 0, !.cut = FALSE]
             p == Write_file_header(y)
  <2>1. /\ y.state = "open" /\ y.image = image /\ y.scan = 0 /\ y.cut = FALSE
        /\ y.stream = <<>> /\ y.defined = TRUE /\ y.space = obj.space
        /\ y.tables = o.tables /\ y.sent = o.sent /\ DOMAIN y = DOMAIN o
    BY <1>3, <1>4 DEF IsObject
  <2> HIDE DEF y
  <2>2. IsObject(y) /\ Knows(reader, y)
    BY <1>2, <1>3, <1>4, <1>5, <2>1 DEF IsObject, Knows
  <2>3. Writing(reader, y)
    BY <2>1, <2>2, NothingWritten
  <2>4. /\ Writing(reader, p) /\ SameImage(y, p)
        /\ IntroRight(Reading(reader, p), p) /\ IntervalRight(Reading(reader, p), p)
    BY <2>3, IntroEmitted
  <2> HIDE DEF p
  <2>5. /\ p.state = "open" /\ p.image = image /\ p.scan = 0 /\ p.cut = FALSE
        /\ p.defined = TRUE /\ p.space = obj.space
    BY <2>1, <2>4 DEF SameImage
  <2>6. ImageOpen(reader, p)
    BY <1>7, <2>4, <2>5 DEF ImageOpen
  <2>7. IsObject(p) /\ p.defined \in BOOLEAN
    <3>1. p.defined \in BOOLEAN
      BY <2>5
    <3> QED BY <2>4, <3>1 DEF Writing
  <2>8. StreamRight(reader, p)
    BY <1>2, <2>5, <2>6, <2>7 DEF StreamRight
  <2> QED BY <1>1, <1>7, <2>8 DEF StreamInvariant, p, y
<1> QED BY <1>6, <1>7

\* The next scan, with or without tables of its own.
LEMMA NextScanStep ==
    ASSUME StreamInvariant, Next_scan
    PROVE  StreamInvariant'
<1> DEFINE o == [obj EXCEPT !.scan = @ + 1]
           comps == Components(obj.space)
<1>1. PICK code \in Codes :
        LET y == IF o.image.optimize \/ o.image.progressive THEN Gen_optimal_tables(o, code) ELSE o
        IN  /\ obj' = Write_scan_header(IF o.scan = 1 THEN Write_frame_header(y) ELSE y)
            /\ reader' = reader
  BY DEF Next_scan
<1> DEFINE y == IF o.image.optimize \/ o.image.progressive THEN Gen_optimal_tables(o, code) ELSE o
           f == IF o.scan = 1 THEN Write_frame_header(y) ELSE y
           p == Write_scan_header(f)
<1>2. /\ obj.state = "open" /\ obj.scan + 1 \in DOMAIN Script(obj) /\ ImageOpen(reader, obj)
      /\ obj.scan \in Nat /\ IsReader(reader) /\ reader.readable
      /\ obj.space \in ColorSpaces /\ obj.defined = TRUE
  BY DEF Next_scan, StreamInvariant, StreamRight, ImageOpen
<1>3. /\ o.scan = obj.scan + 1 /\ o.state = "open" /\ o.image = obj.image /\ o.space = obj.space
      /\ o.defined = TRUE /\ o.cut = obj.cut /\ o.stream = obj.stream /\ o.sent = obj.sent
      /\ o.tables = obj.tables /\ o.last_restart_interval = obj.last_restart_interval
      /\ DOMAIN o = DOMAIN obj
  BY <1>2 DEF ImageOpen, Writing, IsObject
<1> HIDE DEF o
<1>4. Writing(reader, o) /\ Reading(reader, o) = Reading(reader, obj)
  <2>1. Reading(reader, o) = Reading(reader, obj)
    BY <1>3 DEF Reading
  <2>2. IsObject(o)
    BY <1>2, <1>3 DEF ImageOpen, Writing, IsObject
  <2>3. Knows(Reading(reader, o), o)
    BY <1>2, <1>3, <2>1 DEF ImageOpen, Writing, Knows
  <2> QED BY <2>1, <2>2, <2>3 DEF Writing
<1>5. /\ Writing(reader, y) /\ Reading(reader, y) = Reading(reader, obj)
      /\ y.scan = obj.scan + 1 /\ y.state = "open" /\ y.image = obj.image
      /\ y.space = obj.space /\ y.defined = TRUE /\ y.cut = obj.cut
      /\ y.last_restart_interval = obj.last_restart_interval
      /\ \A k \in {0, 1} : y.sent[<<"quant", k>>] = obj.sent[<<"quant", k>>]
  <2>1. CASE y = o
    BY <1>3, <1>4, <2>1
  <2>2. CASE y = Gen_optimal_tables(o, code)
    <3> DEFINE T == SlotsUsed(o)
    <3>1. y = PutAll(o, T, <<code>>)
      BY <2>2 DEF Gen_optimal_tables
    <3>2. \A k \in {0, 1} : <<"quant", k>> \notin T
      <4> TAKE k \in {0, 1}
      <4>1. SUFFICES ASSUME <<"quant", k>> \in T PROVE FALSE
        OBVIOUS
      <4>2. PICK c \in DOMAIN CompsOf(o) : <<"quant", k>> \in ToSet(SlotsOf(o, CompsOf(o)[c]))
        BY <4>1 DEF SlotsUsed
      <4>3. o.space \in ColorSpaces /\ ScanOf(o).comps \in Seq(1..Len(Components(o.space)))
        <5>1. ScanOf(o) = Script(obj)[obj.scan + 1]
          BY <1>3 DEF ScanOf, Script
        <5>2. Script(obj)[obj.scan + 1].comps \in Seq(1..Len(comps))
          BY <1>2 DEF ImageOpen, ScriptValid, Script
        <5> QED BY <1>2, <1>3, <5>1, <5>2
      <4>4. CompsOf(o)[c] \in Parts
        <5>1. CompsOf(o) \in Seq(Parts)
          BY <4>3, ScanParts
        <5> QED BY <4>2, <5>1
      <4>5. <<"quant", k>> = <<"dc", CompsOf(o)[c].dc>> \/ <<"quant", k>> = <<"ac", CompsOf(o)[c].ac>>
        BY <4>2, <4>4, SlotsOfPart
      <4> QED BY <4>5
    <3> HIDE DEF T, y
    <3>3. /\ Writing(reader, y) /\ Reading(reader, y) = Reading(reader, o)
          /\ y.state = o.state /\ y.defined = o.defined /\ y.space = o.space
          /\ y.image = o.image /\ y.scan = o.scan /\ y.cut = o.cut
          /\ y.last_restart_interval = o.last_restart_interval
          /\ \A s \in Slots : s \notin T => y.sent[s] = o.sent[s]
      BY <1>4, <3>1, TablesPut
    <3>4. \A k \in {0, 1} : y.sent[<<"quant", k>>] = o.sent[<<"quant", k>>]
      BY <3>2, <3>3, SlotKinds
    <3> QED BY <1>3, <1>4, <3>3, <3>4
  <2> QED BY <2>1, <2>2
<1> HIDE DEF y
<1>6. \A c \in DOMAIN comps : comps[c].quant \in {0, 1}
  <2> TAKE c \in DOMAIN comps
  <2>1. comps \in Seq(Parts)
    BY <1>2, ComponentParts
  <2> HIDE DEF comps
  <2>2. comps[c] \in Parts
    BY <2>1
  <2> QED BY <2>2, PartFields
<1>7. /\ IntroRight(Reading(reader, y), y) /\ IntervalRight(Reading(reader, y), y)
      /\ y.space \in ColorSpaces /\ ~y.cut
  BY <1>2, <1>5 DEF ImageOpen, IntroRight, IntervalRight
<1>8. /\ Writing(reader, f) /\ SameImage(y, f)
      /\ IntroRight(Reading(reader, f), f) /\ IntervalRight(Reading(reader, f), f)
      /\ FrameRight(Reading(reader, f), f) /\ QuantizersSent(f)
  <2>1. CASE obj.scan + 1 = 1
    <3>1. f = Write_frame_header(y)
      BY <1>3, <2>1
    <3> HIDE DEF f
    <3>2. /\ Writing(reader, f) /\ SameObject(y, f)
          /\ FrameRight(Reading(reader, f), f) /\ QuantizersSent(f)
          /\ Reading(reader, f).interval = Reading(reader, y).interval
          /\ Reading(reader, f).jfif = Reading(reader, y).jfif
          /\ Reading(reader, f).adobe = Reading(reader, y).adobe
          /\ Reading(reader, f).transform = Reading(reader, y).transform
      BY <1>5, <1>7, <3>1, FrameEmitted
    <3> QED BY <1>7, <3>2 DEF SameObject, SameImage, IntroRight, IntervalRight
  <2>2. CASE obj.scan + 1 # 1
    <3>1. f = y
      BY <1>3, <2>2
    <3>2. FrameRight(Reading(reader, obj), obj) /\ QuantizersSent(obj)
      BY <1>2, <2>2 DEF ImageOpen
    <3>3. FrameRight(Reading(reader, y), y) /\ QuantizersSent(y)
      BY <1>5, <1>6, <3>2 DEF FrameRight, QuantizersSent
    <3> HIDE DEF f
    <3> QED BY <1>5, <1>7, <3>1, <3>3 DEF SameImage
  <2> QED BY <2>1, <2>2
<1> HIDE DEF f
<1>9. f.space \in ColorSpaces /\ ~f.cut /\ ScanOf(f).comps \in Seq(1..Len(Components(f.space)))
  <2>1. ScanOf(f) = Script(obj)[obj.scan + 1] /\ f.space = obj.space /\ f.cut = obj.cut
    BY <1>5, <1>8 DEF SameImage, ScanOf, Script
  <2>2. Script(obj)[obj.scan + 1].comps \in Seq(1..Len(comps))
    BY <1>2 DEF ImageOpen, ScriptValid, Script
  <2> QED BY <1>2, <2>1, <2>2 DEF ImageOpen
<1>10. /\ Writing(reader, p) /\ SameImage(f, p) /\ IntervalRight(Reading(reader, p), p)
       /\ IntroRight(Reading(reader, p), p) /\ FrameRight(Reading(reader, p), p)
       /\ QuantizersSent(p)
  BY <1>8, <1>9, ScanEmitted
<1> HIDE DEF p
<1>11. /\ p.scan = obj.scan + 1 /\ p.state = "open" /\ p.image = obj.image
       /\ p.space = obj.space /\ p.defined = TRUE /\ p.cut = obj.cut
  BY <1>5, <1>8, <1>10 DEF SameImage
<1>12. ImageOpen(reader, p)
  BY <1>2, <1>10, <1>11 DEF ImageOpen
<1>13. IsObject(p) /\ p.defined \in BOOLEAN
  <2>1. p.defined \in BOOLEAN
    BY <1>11
  <2> QED BY <1>10, <2>1 DEF Writing
<1>14. StreamRight(reader, p)
  BY <1>2, <1>11, <1>12, <1>13 DEF StreamRight
<1> QED BY <1>1, <1>14 DEF StreamInvariant, p, f, y

\* The end of an image...
LEMMA FinishStep ==
    ASSUME StreamInvariant, Finish_compress
    PROVE  StreamInvariant'
<1> DEFINE m == Reading(reader, obj)
           q == Read_stream(Append(obj.stream, Segment("EOI")), obj.space)
<1>1. /\ reader' = q /\ obj' = Ended(obj)
      /\ obj.scan + 1 \notin DOMAIN Script(obj)
  BY DEF Finish_compress
<1>2. /\ ImageOpen(reader, obj) /\ obj.scan \in Nat /\ obj.space \in ColorSpaces
      /\ IsObject(obj) /\ obj.defined = TRUE
  BY DEF Finish_compress, StreamInvariant, StreamRight, ImageOpen
<1>3. obj.scan # 0
  <2>1. 1 \in DOMAIN Script(obj)
    BY <1>2 DEF ImageOpen, ScriptValid, Script
  <2> QED BY <1>1, <2>1
<1>4. GuessedSpace(m) = obj.space
  BY <1>2, <1>3, SpaceGuessed DEF ImageOpen
<1>5. IsReader(q) /\ q.readable /\ Knows(q, Ended(obj))
  BY <1>2, <1>4, StreamRead DEF ImageOpen
<1> HIDE DEF q
<1>6. /\ IsObject(Ended(obj)) /\ Ended(obj).state = "start" /\ Ended(obj).scan = 0
      /\ Ended(obj).stream = <<>> /\ Ended(obj).defined = obj.defined
      /\ Ended(obj).space = obj.space /\ obj.defined \in BOOLEAN
  <2>1. obj.defined \in BOOLEAN
    BY <1>2
  <2> QED BY <1>2, <2>1, EndedFields
<1>7. StreamRight(q, Ended(obj))
  BY <1>2, <1>5, <1>6 DEF StreamRight
<1> QED BY <1>1, <1>7 DEF StreamInvariant

\* ...and an image that is given up, whose tables nobody has read.
LEMMA AbortStep ==
    ASSUME StreamInvariant, Abort_compress
    PROVE  StreamInvariant'
<1> DEFINE e == Ended(obj)
           p == [e EXCEPT !.cut = TRUE]
<1>1. obj' = p /\ reader' = reader
  BY DEF Abort_compress
<1>2. /\ IsReader(reader) /\ reader.readable /\ obj.space \in ColorSpaces
      /\ IsObject(obj) /\ obj.defined = TRUE
  BY DEF Abort_compress, StreamInvariant, StreamRight, ImageOpen
<1>3. /\ IsObject(e) /\ e.state = "start" /\ e.scan = 0 /\ e.stream = <<>>
      /\ e.defined = obj.defined /\ e.space = obj.space
  BY <1>2, EndedFields
<1> HIDE DEF e
<1>4. /\ p.state = "start" /\ p.scan = 0 /\ p.stream = <<>> /\ p.defined = TRUE
      /\ p.space = obj.space /\ p.cut = TRUE /\ p.tables = e.tables /\ p.sent = e.sent
      /\ DOMAIN p = DOMAIN e
  BY <1>2, <1>3 DEF IsObject
<1> HIDE DEF p
<1>5. IsObject(p) /\ p.defined \in BOOLEAN
  <2>1. p.defined \in BOOLEAN
    BY <1>4
  <2> QED BY <1>3, <1>4, <2>1 DEF IsObject
<1>6. StreamRight(reader, p)
  BY <1>2, <1>4, <1>5 DEF StreamRight, Knows
<1> QED BY <1>1, <1>6 DEF StreamInvariant

LEMMA StreamInitRight == MarkerInit => StreamInvariant
<1> SUFFICES ASSUME MarkerInit PROVE StreamInvariant
  OBVIOUS
<1>1. obj = CreateCompress /\ reader = NewReader
  BY DEF MarkerInit
<1>2. <<>> \in Seq({})
  OBVIOUS
<1>3. IsObject(obj)
  BY <1>1, <1>2 DEF IsObject, CreateCompress
<1>4. IsReader(reader) /\ reader.readable
  BY <1>1 DEF IsReader, NewReader
<1>5. /\ obj.state = "start" /\ ~obj.defined /\ obj.defined \in BOOLEAN /\ obj.scan = 0 /\ obj.stream = <<>>
      /\ \A s \in Slots : ~obj.sent[s]
  BY <1>1 DEF CreateCompress
<1> QED BY <1>3, <1>4, <1>5 DEF StreamInvariant, StreamRight, Knows

LEMMA StreamStep ==
    ASSUME StreamInvariant, [MarkerNext]_markerVars
    PROVE  StreamInvariant'
<1>1. CASE SetDefaults
  BY <1>1, SetDefaultsStep
<1>2. CASE SetQuality
  BY <1>2, SetQualityStep
<1>3. CASE Write_tables
  BY <1>3, WriteTablesStep
<1>4. ASSUME NEW b \in BOOLEAN, Start(b) PROVE StreamInvariant'
  BY <1>4, StartStep
<1>5. CASE Next_scan
  BY <1>5, NextScanStep
<1>6. CASE Finish_compress
  BY <1>6, FinishStep
<1>7. CASE Abort_compress
  BY <1>7, AbortStep
<1>8. CASE UNCHANGED markerVars
  BY <1>8 DEF markerVars, StreamInvariant
<1> QED BY <1>1, <1>2, <1>3, <1>4, <1>5, <1>6, <1>7, <1>8 DEF MarkerNext

THEOREM StreamsCorrect == MarkerSpec => []StreamsReadable
<1>1. StreamInvariant => StreamsReadable
  BY DEF StreamInvariant, StreamRight, StreamsReadable
<1> QED BY StreamInitRight, StreamStep, <1>1, PTL DEF MarkerSpec
=============================================================================
