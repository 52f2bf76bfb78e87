---------------------------- MODULE MemoryManager ----------------------------
(***************************************************************************)
(* jmemmgr.c of the JPEG library, over jmemansi.c, or over jmemnobs.c,     *)
(* which promises any memory and has no files.  Small objects are cut from *)
(* chunks, large ones get a chunk each, and both are freed by pools only.  *)
(* A virtual array has a buffer in memory and, when the memory does not    *)
(* allow one of the array's height, a file: access_virt_array() moves the  *)
(* buffer, and writes and reads what is needed.                            *)
(*                                                                         *)
(* Sizes and rows are small numbers; a row is one value.  malloc() fails   *)
(* when more than heap would be allocated.  An error leaves by longjmp():  *)
(* what had been done stays, and only freeing can follow.                  *)
(***************************************************************************)
EXTENDS Integers, Sequences, SequencesExt

CONSTANTS
    MAX_ALLOC_CHUNK, SmallHdr, LargeHdr, AlignType, MIN_SLOP,
    first_pool_slop, extra_pool_slop, \* by pool
    ManagerSize,  \* SIZEOF(my_memory_mgr)
    PointerSize,  \* SIZEOF(JSAMPROW)
    ControlSize,  \* SIZEOF(struct jvirt_sarray_control)
    Arrays,       \* [id -> [width, rows, maxaccess, pre_zero, blocks]]: the arrays of a client
    SmallSizes,   \* sizes it asks for
    Heaps, Limits,\* what malloc() has, and max_memory_to_use
    RowValues,    \* what it writes to rows
    MaxSmall      \* bound: its own requests

JPOOL_PERMANENT == 0
JPOOL_IMAGE == 1
Pools == {JPOOL_PERMANENT, JPOOL_IMAGE}
MaxDimension == 65500 \* JPEG_MAX_DIMENSION, in rows
ZeroRow == 0
Garbage == -1
Ids == DOMAIN Arrays

ASSUME SizesAssumption ==
    /\ MAX_ALLOC_CHUNK \in Nat /\ SmallHdr \in Nat /\ LargeHdr \in Nat /\ AlignType \in Nat \ {0}
    /\ MIN_SLOP \in Nat /\ ManagerSize \in Nat /\ PointerSize \in Nat /\ ControlSize \in Nat
    /\ first_pool_slop \in [Pools -> Nat] /\ extra_pool_slop \in [Pools -> Nat]
    /\ SmallSizes \subseteq Nat /\ Heaps \subseteq Nat /\ Limits \subseteq Nat
ASSUME AlignedAssumption ==
    MAX_ALLOC_CHUNK % AlignType = 0 /\ SmallHdr % AlignType = 0 /\ LargeHdr % AlignType = 0
\* No array has more rows than a picture may have.
ASSUME ArraysAssumption ==
    Arrays \in [Ids -> [width : Nat \ {0}, rows : 1..MaxDimension, maxaccess : Nat \ {0},
                        pre_zero : BOOLEAN, blocks : BOOLEAN]]

VARIABLES
    heap, max_memory_to_use,
    backing,   \* jmemansi.c, or jmemnobs.c
    mem,       \* the chunks of each pool, total_space_allocated, and the error
    objects,   \* history: the small objects handed out
    virt_list, \* ids of the arrays requested, the latest first
    varray,    \* by id: the control block and the file, or NoControl
    strip,     \* by id: the strip that was accessed last
    asked      \* history: requests

memVars == <<heap, max_memory_to_use, backing, mem, objects, virt_list, varray, strip, asked>>

NoControl == [none |-> TRUE]
NoStrip == [start |-> 0, num |-> 0, writable |-> FALSE]

\* jinit_memory_mgr(); JPEGMEM or the application may set another limit.
MemInit ==
    /\ heap \in Heaps /\ max_memory_to_use \in Limits /\ backing \in BOOLEAN
    /\ mem = [small |-> [p \in Pools |-> <<>>], large |-> [p \in Pools |-> <<>>],
              total |-> ManagerSize, rowsperchunk |-> 0, err |-> "none"]
    /\ objects = {} /\ virt_list = <<>>
    /\ varray = [id \in Ids |-> NoControl] /\ strip = [id \in Ids |-> NoStrip] /\ asked = 0

-----------------------------------------------------------------------------
(* Allocation, as functions of the manager's record.                       *)

Failed(m, err) == [m EXCEPT !.err = err]
RoundUp(size) == ((size + (AlignType - 1)) \div AlignType) * AlignType
Malloc(m, size) == m.total + size <= heap

\* The first chunk of the pool with enough room, or a new one at the end.  Of the
\* slop of a new one ever less is asked for, but not less than MIN_SLOP.
SmallChunk(m, pool, size) ==
    LET list  == m.small[pool]
        room  == {k \in DOMAIN list : list[k].left >= size}
        least == size + SmallHdr
        slop0 == IF list = <<>> THEN first_pool_slop[pool] ELSE extra_pool_slop[pool]
        slop1 == Min({slop0, MAX_ALLOC_CHUNK - least})
        tries == {slop \in 0..slop1 : /\ \E k \in 0..slop1 : slop = slop1 \div 2^k
                                      /\ slop = slop1 \/ slop >= MIN_SLOP
                                      /\ Malloc(m, least + slop)}
    IN  IF room # {} THEN [m |-> m, k |-> Min(room)]
        ELSE IF tries = {} THEN [m |-> Failed(m, "memory"), k |-> 0]
        ELSE LET slop == Max(tries)
             IN  [k |-> Len(list) + 1,
                  m |-> [m EXCEPT !.total = @ + least + slop,
                                  !.small[pool] = Append(@, [used |-> 0, left |-> size + slop])]]

\* alloc_small(): the record, and the place of the object.
AllocSmall(m, pool, bytes) ==
    LET size == RoundUp(bytes)
        In(c) ==
            IF c.m.err # "none" THEN [m |-> c.m, place |-> {}]
            ELSE [m |-> [c.m EXCEPT !.small[pool][c.k] = [used |-> @.used + size, left |-> @.left - size]],
                  place |-> {[pool |-> pool, chunk |-> c.k,
                              from |-> c.m.small[pool][c.k].used, size |-> size]}]
    IN  IF m.err # "none" THEN [m |-> m, place |-> {}]
        ELSE IF bytes > MAX_ALLOC_CHUNK - SmallHdr THEN [m |-> Failed(m, "memory"), place |-> {}]
        ELSE In(SmallChunk(m, pool, size))

\* alloc_large()
AllocLarge(m, pool, bytes) ==
    LET size == RoundUp(bytes) + LargeHdr
    IN  IF m.err # "none" THEN m
        ELSE IF bytes > MAX_ALLOC_CHUNK - LargeHdr \/ ~Malloc(m, size) THEN Failed(m, "memory")
        ELSE [m EXCEPT !.total = @ + size, !.large[pool] = <<size>> \o @]

AllocChunk(m, c) == AllocLarge(m, c.pool, c.bytes)

\* alloc_sarray(), alloc_barray(): as many rows in a chunk as fit, the rest in a
\* smaller last one.
AllocRows(m, pool, width, rows) ==
    LET most   == (MAX_ALLOC_CHUNK - LargeHdr) \div width
        per    == Min({most, rows})
        chunks == [k \in 1..(rows + per - 1) \div per |->
                    [pool |-> pool, bytes |-> Min({per, rows - (k - 1) * per}) * width]]
        With(ptrs) == [m |-> FoldLeft(AllocChunk, ptrs.m, chunks), place |-> ptrs.place]
    IN  IF m.err # "none" THEN [m |-> m, place |-> {}]
        ELSE IF most <= 0 THEN [m |-> Failed(m, "width"), place |-> {}]
        ELSE With(AllocSmall([m EXCEPT !.rowsperchunk = per], pool, rows * PointerSize))

-----------------------------------------------------------------------------

\* A client asks for a small object.
AskSmall ==
    /\ mem.err = "none" /\ asked < MaxSmall /\ asked' = asked + 1
    /\ \E pool \in Pools, size \in SmallSizes :
        \E a \in {AllocSmall(mem, pool, size)} :
            mem' = a.m /\ objects' = objects \cup a.place
    /\ UNCHANGED <<heap, max_memory_to_use, backing, virt_list, varray, strip>>

\* request_virt_sarray(), request_virt_barray()
RequestArray ==
    /\ mem.err = "none"
    /\ \E id \in Ids :
        /\ varray[id] = NoControl
        /\ \E a \in {AllocSmall(mem, JPOOL_IMAGE, ControlSize)} :
               /\ mem' = a.m /\ objects' = objects \cup a.place
               /\ IF a.m.err # "none" THEN UNCHANGED <<varray, virt_list>>
                  ELSE /\ varray' = [varray EXCEPT ![id] = [buffer |-> <<>>, b_s_open |-> FALSE]]
                       /\ virt_list' = <<id>> \o virt_list
    /\ UNCHANGED <<heap, max_memory_to_use, backing, strip, asked>>

Unrealized(id) == varray[id] # NoControl /\ varray[id].buffer = <<>>

\* What the arrays not yet realized need at least and at most.
NeededFor(t, id) ==
    IF ~Unrealized(id) THEN t
    ELSE [least |-> t.least + Arrays[id].maxaccess * Arrays[id].width,
          most  |-> t.most + Arrays[id].rows * Arrays[id].width]
Needed == FoldLeft(NeededFor, [least |-> 0, most |-> 0], virt_list)

AnyHeight == 1000000000

\* jpeg_mem_available(), and how many times its least height each buffer gets.
MaxMinHeights ==
    LET avail == IF backing THEN max_memory_to_use - mem.total ELSE Needed.most
    IN  IF avail >= Needed.most THEN AnyHeight
        ELSE IF avail < Needed.least THEN 1 ELSE avail \div Needed.least

\* One array of the loops of realize_virt_arrays(); s is what they have done so far.
\* Without files none can be opened, but none needs to be either; with them, s.files is
\* how many tmpfile() can still make.
RealizeOne(s, id, heights) ==
    LET array == Arrays[id]
        fits  == (array.rows - 1) \div array.maxaccess + 1 <= heights
        inmem == IF fits THEN array.rows ELSE heights * array.maxaccess
        Had(r) ==
            [m |-> r.m, objs |-> s.objs \cup r.place, files |-> IF fits THEN s.files ELSE s.files - 1,
             va |-> [s.va EXCEPT ![id] =
                IF r.m.err # "none" THEN [@ EXCEPT !.b_s_open = backing /\ ~fits /\ s.files # 0]
                ELSE [buffer |-> [k \in 0..inmem - 1 |-> Garbage], rows_in_mem |-> inmem,
                      rowsperchunk |-> r.m.rowsperchunk, cur_start_row |-> 0,
                      first_undef_row |-> 0, dirty |-> FALSE, b_s_open |-> ~fits,
                      file |-> [k \in 0..array.rows - 1 |-> Garbage]]]]
    IN  IF s.m.err # "none" \/ s.va[id].buffer # <<>> THEN s
        ELSE Had(IF ~fits /\ ~backing THEN [m |-> Failed(s.m, "no backing store"), place |-> {}]
                 ELSE IF ~fits /\ s.files = 0 THEN [m |-> Failed(s.m, "temporary file"), place |-> {}]
                 ELSE AllocRows(s.m, JPOOL_IMAGE, array.width, inmem))

\* realize_virt_arrays(): the sample arrays, then the arrays of blocks.
RealizeSamples(s, id) == IF Arrays[id].blocks THEN s ELSE RealizeOne(s, id, MaxMinHeights)
RealizeBlocks(s, id) == IF Arrays[id].blocks THEN RealizeOne(s, id, MaxMinHeights) ELSE s

RealizeArrays ==
    /\ mem.err = "none" /\ Needed.least > 0
    /\ \E files \in 0..Len(virt_list) :
        LET before  == [m |-> mem, va |-> varray, objs |-> objects, files |-> files]
            samples == FoldLeft(RealizeSamples, before, virt_list)
        IN  \E s \in {FoldLeft(RealizeBlocks, samples, virt_list)} :
                mem' = s.m /\ varray' = s.va /\ objects' = s.objs
    /\ UNCHANGED <<heap, max_memory_to_use, backing, virt_list, strip, asked>>

-----------------------------------------------------------------------------

\* The rows of the buffer that do_sarray_io() and do_barray_io() transfer: by
\* chunks, no more than are defined and no more than the file has.  Each chunk
\* before the last is full, so that a row's place in the file is its number.
Transferred(id, a) ==
    LET starts == {k \in 0..a.rows_in_mem - 1 : k % a.rowsperchunk = 0}
        Count(k) == Min({a.rowsperchunk, a.rows_in_mem - k,
                         a.first_undef_row - (a.cur_start_row + k),
                         Arrays[id].rows - (a.cur_start_row + k)})
    IN  UNION {k..k + Count(k) - 1 : k \in {j \in starts : \A i \in starts : i <= j => Count(i) > 0}}

WriteOut(id, a) ==
    [a EXCEPT !.file = [r \in DOMAIN @ |->
        IF r - a.cur_start_row \in Transferred(id, a) THEN a.buffer[r - a.cur_start_row] ELSE @[r]]]

ReadIn(id, a) ==
    [a EXCEPT !.buffer = [k \in DOMAIN @ |->
        IF k \in Transferred(id, a) THEN a.file[a.cur_start_row + k] ELSE @[k]]]

\* Mutant of Moved: what was written to the buffer is not saved first.
MovedUnsaved(id, a, start, end) ==
    ReadIn(id, [a EXCEPT !.dirty = FALSE,
                         !.cur_start_row = IF start > @ THEN start
                                           ELSE Max({end - a.rows_in_mem, 0})])

\* The buffer is moved to begin with the strip, or to end with it when the strip
\* lies before it; what was in it is saved, what is to be in it is read.
Moved(id, a, start, end) ==
    LET saved == IF a.dirty THEN [WriteOut(id, a) EXCEPT !.dirty = FALSE] ELSE a
    IN  ReadIn(id, [saved EXCEPT !.cur_start_row = IF start > @ THEN start
                                                   ELSE Max({end - a.rows_in_mem, 0})])

\* The rows of the strip that are not defined are set to zero where this was
\* asked for; a row is defined once it can be written.
Defined(id, a, start, end, writable) ==
    LET from == Max({a.first_undef_row, start})
    IN  [a EXCEPT !.buffer = [k \in DOMAIN @ |->
                        IF Arrays[id].pre_zero /\ a.cur_start_row + k \in from..end - 1
                        THEN ZeroRow ELSE @[k]],
                  !.first_undef_row = IF writable THEN Max({@, end}) ELSE @,
                  !.dirty = @ \/ writable]

\* access_virt_sarray(), access_virt_barray()
AccessArray(id, start, num, writable) ==
    LET a     == varray[id]
        end   == start + num
        away  == start < a.cur_start_row \/ end > a.cur_start_row + a.rows_in_mem
        b     == IF away THEN Moved(id, a, start, end) ELSE a
        undef == b.first_undef_row < end
    IN  IF end > Arrays[id].rows \/ num > Arrays[id].maxaccess \/ a.buffer = <<>>
        THEN mem' = Failed(mem, "bad access") /\ UNCHANGED <<varray, strip>>
        ELSE IF away /\ ~a.b_s_open
        THEN mem' = Failed(mem, "virtual bug") /\ UNCHANGED <<varray, strip>>
        ELSE IF undef /\ (IF writable THEN b.first_undef_row < start ELSE ~Arrays[id].pre_zero)
        THEN /\ mem' = Failed(mem, "bad access") /\ varray' = [varray EXCEPT ![id] = b]
             /\ strip' = [strip EXCEPT ![id] = NoStrip]
        ELSE /\ varray' = [varray EXCEPT ![id] = Defined(id, b, start, end, writable)]
             /\ strip' = [strip EXCEPT ![id] = [start |-> start, num |-> num, writable |-> writable]]
             /\ UNCHANGED mem

\* A client accesses a strip of an array that is there.
AccessStrip ==
    /\ mem.err = "none"
    /\ \E id \in {x \in Ids : varray[x] # NoControl /\ varray[x].buffer # <<>>} :
        \E start \in 0..Arrays[id].rows - 1, num \in 1..Arrays[id].maxaccess, w \in BOOLEAN :
            AccessArray(id, start, num, w)
    /\ UNCHANGED <<heap, max_memory_to_use, backing, objects, virt_list, asked>>

\* An access that has the file of its array written or read, and cannot: the buffer is as it
\* happens to be, and nobody looks at it before it is freed.
FileFails ==
    /\ mem.err = "none"
    /\ \E id \in {x \in Ids : varray[x] # NoControl /\ varray[x].buffer # <<>>} :
        /\ \E start \in 0..Arrays[id].rows - 1, num \in 1..Arrays[id].maxaccess :
            LET a   == varray[id]
                end == start + num
            IN  /\ a.b_s_open /\ end <= Arrays[id].rows
                /\ start < a.cur_start_row \/ end > a.cur_start_row + a.rows_in_mem
                /\ \/ a.dirty /\ Transferred(id, a) # {}
                   \/ Transferred(id, Moved(id, a, start, end)) # {}
        /\ mem' = Failed(mem, "temporary file")
        /\ strip' = [strip EXCEPT ![id] = NoStrip]
    /\ UNCHANGED <<heap, max_memory_to_use, backing, objects, virt_list, varray, asked>>

\* A client writes a row of the strip that it has accessed to write.
WriteRow ==
    /\ mem.err = "none"
    /\ \E id \in Ids, v \in RowValues :
        /\ strip[id].writable
        /\ \E r \in strip[id].start..strip[id].start + strip[id].num - 1 :
            varray' = [varray EXCEPT ![id].buffer[r - varray[id].cur_start_row] = v]
    /\ UNCHANGED <<heap, max_memory_to_use, backing, mem, objects, virt_list, strip, asked>>

\* free_pool(), of the chunks.
SmallBytes(t, c) == t + c.used + c.left + SmallHdr
LargeBytes(t, c) == t + c
PoolBytes(m, pool) == FoldLeft(SmallBytes, 0, m.small[pool]) + FoldLeft(LargeBytes, 0, m.large[pool])

FreePool(m, pool) ==
    [m EXCEPT !.total = @ - PoolBytes(m, pool), !.small[pool] = <<>>, !.large[pool] = <<>>]

\* jpeg_abort(): free_pool() of the pool of an image, with the virtual arrays in it.
\* The manager can be used for the next image, also after an error.
AbortImage ==
    /\ mem' = [FreePool(mem, JPOOL_IMAGE) EXCEPT !.err = IF @ = "gone" THEN @ ELSE "none"]
    /\ mem.err # "gone"
    /\ objects' = {o \in objects : o.pool # JPOOL_IMAGE}
    /\ virt_list' = <<>> /\ varray' = [id \in Ids |-> NoControl]
    /\ strip' = [id \in Ids |-> NoStrip]
    /\ UNCHANGED <<heap, max_memory_to_use, backing, asked>>

\* jpeg_destroy(): self_destruct().
Destroy ==
    /\ mem.err # "gone"
    /\ mem' = [FreePool(FreePool(mem, JPOOL_IMAGE), JPOOL_PERMANENT)
                EXCEPT !.total = @ - ManagerSize, !.err = "gone"]
    /\ objects' = {} /\ virt_list' = <<>>
    /\ varray' = [id \in Ids |-> NoControl] /\ strip' = [id \in Ids |-> NoStrip]
    /\ UNCHANGED <<heap, max_memory_to_use, backing, asked>>

MemNext ==
    \/ AskSmall \/ RequestArray \/ RealizeArrays \/ AccessStrip \/ FileFails \/ WriteRow
    \/ AbortImage \/ Destroy

MemSpec == MemInit /\ [][MemNext]_memVars

-----------------------------------------------------------------------------

\* A row as the client would find it.
RowOf(a, r) ==
    IF r - a.cur_start_row \in DOMAIN a.buffer THEN a.buffer[r - a.cur_start_row] ELSE a.file[r]

HasBuffer(a) == a # NoControl /\ a.buffer # <<>>

\* What a virtual array stands for, and what is seen of it.
DefinedOf(a) == IF HasBuffer(a) THEN a.first_undef_row ELSE 0
ContentsOf(a) == [r \in 0..DefinedOf(a) - 1 |-> RowOf(a, r)]
ViewOf(a, s) ==
    [rows |-> [r \in s.start..s.start + s.num - 1 |-> RowOf(a, r)], writable |-> s.writable]

Array(id) == INSTANCE PlainArray WITH
    Rows <- Arrays[id].rows, MaxAccess <- Arrays[id].maxaccess, PreZero <- Arrays[id].pre_zero,
    Values <- RowValues, Zero <- ZeroRow,
    defined <- DefinedOf(varray[id]), contents <- ContentsOf(varray[id]),
    view <- ViewOf(varray[id], strip[id])

VirtualArrays ==
    /\ \A id \in Ids : Array(id)!PlainInit
    /\ [][\A id \in Ids : Array(id)!PlainStep]_memVars

\* No two objects share memory, and each lies within the used part of its chunk.
ObjectsPlaced(m, objs) ==
    /\ \A o \in objs :
        o.chunk \in DOMAIN m.small[o.pool] /\ o.from + o.size <= m.small[o.pool][o.chunk].used
    /\ \A o, q \in objs :
        o # q /\ o.pool = q.pool /\ o.chunk = q.chunk
            => o.from + o.size <= q.from \/ q.from + q.size <= o.from

\* What the manager believes to be allocated is what is, down to nothing in the
\* end; the buffer always covers what may be accessed when there is no file.
SpaceAccounted ==
    /\ mem.total = PoolBytes(mem, JPOOL_PERMANENT) + PoolBytes(mem, JPOOL_IMAGE)
                    + (IF mem.err = "gone" THEN 0 ELSE ManagerSize)
    /\ ObjectsPlaced(mem, objects)
    /\ mem.err \notin {"virtual bug", "no backing store"}

\* The invariant behind MemoryRight.
Row == RowValues \cup {ZeroRow, Garbage}
Control(id, n) ==
    [buffer : [0..n - 1 -> Row], rows_in_mem : {n}, rowsperchunk : Nat \ {0},
     cur_start_row : Nat, first_undef_row : 0..Arrays[id].rows, dirty : BOOLEAN,
     b_s_open : BOOLEAN, file : [0..Arrays[id].rows - 1 -> Row]]
Errors ==
    {"none", "memory", "width", "no backing store", "temporary file", "bad access", "virtual bug", "gone"}
Manager ==
    [small : [Pools -> Seq([used : Nat, left : Nat])], large : [Pools -> Seq(Nat)], total : Int,
     rowsperchunk : Nat, err : Errors]
Object == [pool : Pools, chunk : Nat, from : Nat, size : Nat]

\* An array that is not there yet, or one with its buffer: what has been defined
\* and lies in a buffer that was not written since is in the file as well.
Requested(a) == a = NoControl \/ a \in [buffer : {<<>>}, b_s_open : BOOLEAN]
BufferRight(id, a) ==
    /\ \E n \in 1..Arrays[id].rows : a \in Control(id, n)
    /\ IF a.b_s_open THEN Arrays[id].maxaccess <= a.rows_in_mem
       ELSE a.cur_start_row = 0 /\ a.rows_in_mem = Arrays[id].rows
    /\ ~a.dirty => \A r \in 0..a.first_undef_row - 1 : RowOf(a, r) = a.file[r]

\* The strip accessed last lies in the buffer, and is defined if it may be written.
Reaches(id, a, start, end) ==
    a.cur_start_row <= start /\ end <= a.cur_start_row + a.rows_in_mem /\ end <= Arrays[id].rows
StripRight(id, a, s) ==
    s = NoStrip \/ /\ BufferRight(id, a)
                   /\ s \in [start : Nat, num : Nat \ {0}, writable : BOOLEAN]
                   /\ Reaches(id, a, s.start, s.start + s.num)
                   /\ s.writable => a.dirty /\ s.start + s.num <= a.first_undef_row

MemoryInv ==
    /\ heap \in Nat /\ max_memory_to_use \in Nat /\ backing \in BOOLEAN
    /\ mem \in Manager /\ objects \subseteq Object /\ virt_list \in Seq(Ids)
    /\ DOMAIN varray = Ids /\ DOMAIN strip = Ids
    /\ \A id \in Ids :
        /\ Requested(varray[id]) \/ BufferRight(id, varray[id])
        /\ StripRight(id, varray[id], strip[id])
    /\ SpaceAccounted

\* Through a buffer that is moved, saved and read again, over any order of
\* accesses, a virtual array is a plain array: a row is found as it was written
\* last, and a row asked for as zero is zero where nothing was written; and the
\* manager's accounts are right (jmemmgr.c).
MemoryRight == VirtualArrays /\ []SpaceAccounted
=============================================================================
