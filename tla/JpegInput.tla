----------------------------- MODULE JpegInput -----------------------------
(***************************************************************************)
(* The input side of the JPEG library as stegdetect drives it: the data    *)
(* source (jdatasrc.c, or one of an application that suspends), the marker *)
(* reader (jdmarker.c), the input controller (jdinput.c), the calls of     *)
(* jdapimin.c and jdtrans.c, the bytes of jdhuff.c's bit buffer and its    *)
(* restarts, and the marker handlers and callbacks of common.c and         *)
(* stegdetect.c.                                                           *)
(*                                                                         *)
(* A routine is a function of the record d, the decompression object; it   *)
(* leaves d.ret "ok" or "suspended", or d.err and longjmp().  What a       *)
(* routine reads twice after a suspension it also computes twice here.  A  *)
(* block of coefficients is one byte of data.                              *)
(***************************************************************************)
EXTENDS Integers, Sequences, SequencesExt

CONSTANTS
    Chunks,         \* bytes that a suspending source is given before a call
    Inputs,         \* [file, how]: the bytes of a file and who reads it; and what
                    \* it was made of: [comments, apps, behind, tables, blocks, damaged]
    INPUT_BUF_SIZE, \* bytes of one fread()
    DCTSIZE2,       \* values of a quantization table
    HuffLengths,    \* counts of a Huffman table: 16 in the code
    DETECT_MINAPPEND,
    BitBytes,       \* bytes that fill the bit buffer: MIN_GET_BITS / 8
    MaxImages       \* bound: images read from one file

\* Who reads: stegdetect from stdio; an application whose source suspends and
\* that has the library's own marker routines, or lets it save COM markers.
Stegdetect == "stegdetect"
Saving == "saving"
Suspends(how) == how # Stegdetect
LengthLimitCOM == 2
DCTSIZE == 8
NUM_TBLS == 4
MAX_COMPS_IN_SCAN == 4
MAX_COMPONENTS == 10
MAX_SAMP_FACTOR == 4
D_MAX_BLOCKS_IN_MCU == 10
JPEG_MAX_DIMENSION == 65500

M_SOF0 == 192
M_SOF1 == 193
M_SOF2 == 194
M_DHT == 196
M_SOF9 == 201
M_SOF10 == 202
M_DAC == 204
M_RST0 == 208
M_RST7 == 215
M_SOI == 216
M_EOI == 217
M_SOS == 218
M_DQT == 219
M_DNL == 220
M_DRI == 221
M_APP0 == 224
M_APP14 == 238
M_APP15 == 239
M_COM == 254
M_TEM == 1

VARIABLES
    input,    \* the file and who reads it
    supplied, \* the bytes that a suspending source has been given
    d,        \* the decompression object, and what the application keeps
    whole     \* another one, which has all bytes at once

inputVars == <<input, supplied, d, whole>>

None == <<>>

\* jpeg_CreateDecompress(), jpg_open()'s comments_init()
Created ==
    [gs |-> "start", ret |-> "ok", err |-> "none", pos |-> 0, images |-> 0,
     unread |-> 0, saw_SOI |-> FALSE, saw_SOF |-> FALSE, discarded |-> 0,
     cur |-> None, next_restart |-> 0, scan |-> 0,
     ri |-> 0, prog |-> FALSE, arith |-> FALSE, dim |-> None, comps |-> None, sos |-> None,
     qtabs |-> [n \in 0..NUM_TBLS - 1 |-> None], htabs |-> [n \in 0..2 * NUM_TBLS - 1 |-> None],
     latched |-> None, jfif |-> FALSE, adobe |-> -1, space |-> "unknown",
     marker_list |-> None, inheaders |-> TRUE, eoi |-> FALSE, multi |-> FALSE,
     data |-> FALSE, mcu |-> 0, to_go |-> 0, insufficient |-> FALSE, bits |-> None,
     coefs |-> None, called |-> None,
     comments |-> None, jpg_markers |-> {}, appended |-> None]

InputInit ==
    /\ input \in Inputs
    /\ supplied = 0
    /\ d = Created /\ whole = Created

-----------------------------------------------------------------------------
(* The source.  Behind the end of a file, each fread() that finds nothing  *)
(* gives the two bytes of an EOI.                                          *)

Byte(i) == IF i <= Len(input.file) THEN input.file[i]
           ELSE IF (i - Len(input.file)) % 2 = 1 THEN 255 ELSE M_EOI

\* The last byte that can be had: from stdio, as many as anyone asks for.
Horizon(x, upto) == IF Suspends(input.how) THEN upto ELSE Max({x.pos, Len(input.file)}) + 400
Have(x, upto, n) == x.pos + n <= Horizon(x, upto)
At(x, k) == Byte(x.pos + k)
At2(x, k) == 256 * At(x, k) + At(x, k + 1)
Bytes(x, from, n) == [k \in 1..n |-> At(x, from + k - 1)]

\* INPUT_SYNC(), and the return TRUE that follows it.
Took(x, n) == [x EXCEPT !.pos = @ + n, !.ret = "ok"]
Suspended(x) == [x EXCEPT !.ret = "suspended"]
ErrExit(x, code) == [x EXCEPT !.err = code, !.ret = "error"]

\* bytes_in_buffer of the stdio source: loads of INPUT_BUF_SIZE, a shorter last
\* one, and then the library's own end.
InBuffer(pos) ==
    IF pos >= Len(input.file) THEN (pos - Len(input.file)) % 2
    ELSE LET load == (INPUT_BUF_SIZE - (pos % INPUT_BUF_SIZE)) % INPUT_BUF_SIZE
         IN  Min({load, Len(input.file) - pos})

\* The load that fill_input_buffer() brings when pos is at the end of one.
NextLoad(pos) ==
    IF pos >= Len(input.file) THEN 2 ELSE Min({INPUT_BUF_SIZE, Len(input.file) - pos})

-----------------------------------------------------------------------------
(* The marker routines: the marker is in unread, pos is behind it.         *)

Get_soi(x) ==
    IF x.saw_SOI THEN ErrExit(x, "SOI_DUPLICATE")
    ELSE [x EXCEPT !.ri = 0, !.jfif = FALSE, !.adobe = -1, !.saw_SOI = TRUE, !.ret = "ok"]

\* comp_info is allocated before its bytes are there, and only once.
Get_sof(x0, upto, prog, arith) ==
    LET x   == [x0 EXCEPT !.prog = prog, !.arith = arith]
        n   == At(x, 8)
        dim == [precision |-> At(x, 3), height |-> At2(x, 4), width |-> At2(x, 6)]
        y   == [x EXCEPT !.dim = dim]
        Comp(k) == LET p == 6 + 3 * k IN
            [id |-> At(x, p), h |-> At(x, p + 1) \div 16, v |-> At(x, p + 1) % 16,
             tq |-> At(x, p + 2), td |-> 0, ta |-> 0]
    IN  IF ~Have(x, upto, 8) THEN Suspended(x)
        ELSE IF x.saw_SOF THEN ErrExit(y, "SOF_DUPLICATE")
        ELSE IF dim.height = 0 \/ dim.width = 0 \/ n = 0 THEN ErrExit(y, "EMPTY_IMAGE")
        ELSE IF At2(x, 1) - 8 # 3 * n THEN ErrExit(y, "BAD_LENGTH")
        ELSE IF ~Have(x, upto, 8 + 3 * n) THEN Suspended(y)
        ELSE Took([y EXCEPT !.comps = [k \in 1..n |-> Comp(k)], !.saw_SOF = TRUE], 8 + 3 * n)

Get_sos(x, upto) ==
    LET n == At(x, 3)
        Of(i) == {k \in DOMAIN x.comps : x.comps[k].id = At(x, 2 + 2 * i)}
        p == 4 + 2 * n
        bad == {i \in 1..n : Have(x, upto, 3 + 2 * i) /\ Of(i) = {}}
        \* a component named twice gets the tables of the later place
        New(k) == LET is == {i \in 1..n : Min(Of(i)) = k}
                      c  == IF is = {} THEN 0 ELSE At(x, 3 + 2 * Max(is))
                  IN  IF is = {} THEN x.comps[k]
                      ELSE [x.comps[k] EXCEPT !.td = c \div 16, !.ta = c % 16]
    IN  IF ~x.saw_SOF THEN ErrExit(x, "SOS_NO_SOF")
        ELSE IF ~Have(x, upto, 3) THEN Suspended(x)
        ELSE IF At2(x, 1) # 2 * n + 6 \/ n \notin 1..MAX_COMPS_IN_SCAN THEN ErrExit(x, "BAD_LENGTH")
        ELSE IF bad # {} THEN ErrExit(x, "BAD_COMPONENT_ID")
        ELSE IF ~Have(x, upto, p + 2) THEN Suspended(x)
        ELSE Took([x EXCEPT !.comps = [k \in DOMAIN @ |-> New(k)],
                            !.sos = [comps |-> [i \in 1..n |-> Min(Of(i))],
                                     Ss |-> At(x, p), Se |-> At(x, p + 1),
                                     Ah |-> At(x, p + 2) \div 16, Al |-> At(x, p + 2) % 16],
                            !.next_restart = 0, !.scan = @ + 1], p + 2)

\* get_dht() and get_dqt() define as many tables as the segment holds, each as soon
\* as it has been read; the restart point moves at the end of the segment only, so
\* that after a suspension all are read again.  off: bytes of the segment read.
DhtTable(s, upto) ==
    LET x     == s.x
        left  == At2(x, 1) - s.off
        index == At(x, s.off + 1)
        count == FoldLeft(LAMBDA t, k : t + At(x, s.off + 1 + k), 0, [k \in 1..HuffLengths |-> k])
        n     == 1 + HuffLengths
        slot  == IF (index \div 16) % 2 = 1 THEN index - 16 + NUM_TBLS ELSE index
        no    == IF (index \div 16) % 2 = 1 THEN index - 16 ELSE index
    IN  IF x.ret # "ok" \/ x.err # "none" \/ left <= HuffLengths THEN s
        ELSE IF ~Have(x, upto, s.off + n) THEN [s EXCEPT !.x = Suspended(x)]
        ELSE IF count > 256 \/ count > left - n THEN [s EXCEPT !.x = ErrExit(x, "BAD_HUFF_TABLE")]
        ELSE IF ~Have(x, upto, s.off + n + count) THEN [s EXCEPT !.x = Suspended(x)]
        ELSE IF no \notin 0..NUM_TBLS - 1 THEN [s EXCEPT !.x = ErrExit(x, "DHT_INDEX")]
        ELSE [x |-> [x EXCEPT !.htabs[slot] = Bytes(x, s.off + 2, n - 1 + count)],
              off |-> s.off + n + count]

DqtTable(s, upto) ==
    LET x    == s.x
        left == At2(x, 1) - s.off
        no   == At(x, s.off + 1) % 16
        wide == At(x, s.off + 1) >= 16
        n    == IF wide THEN 2 * DCTSIZE2 ELSE DCTSIZE2
        have == Min({n, Max({0, Horizon(x, upto) - x.pos - s.off - 1})})
        Value(k) == IF wide THEN At2(x, s.off + 2 * k) ELSE At(x, s.off + 1 + k)
        read == IF wide THEN have \div 2 ELSE have
        \* the values are put into the table one by one
        table == [k \in 1..DCTSIZE2 |->
                    IF k <= read THEN Value(k)
                    ELSE IF x.qtabs[no] = None THEN 0 ELSE x.qtabs[no][k]]
    IN  IF x.ret # "ok" \/ x.err # "none" \/ left <= 0 THEN s
        ELSE IF ~Have(x, upto, s.off + 1) THEN [s EXCEPT !.x = Suspended(x)]
        ELSE IF no >= NUM_TBLS THEN [s EXCEPT !.x = ErrExit(x, "DQT_INDEX")]
        ELSE IF have < n THEN [s EXCEPT !.x = Suspended([x EXCEPT !.qtabs[no] = table])]
        ELSE [x |-> [x EXCEPT !.qtabs[no] = table], off |-> s.off + 1 + n]

\* The tables of a segment, one after the other.
Tables(x, upto, Table(_, _)) ==
    LET End(s) ==
            IF s.x.ret # "ok" \/ s.x.err # "none" THEN s.x
            ELSE IF s.off # At2(x, 1) THEN ErrExit(s.x, "BAD_LENGTH")
            ELSE Took(s.x, s.off)
    IN  IF ~Have(x, upto, 2) THEN Suspended(x)
        ELSE End(FoldLeft(LAMBDA t, k : Table(t, upto),
                          [x |-> [x EXCEPT !.ret = "ok"], off |-> 2],
                          [k \in 1..At2(x, 1) |-> k]))

Get_dri(x, upto) ==
    IF ~Have(x, upto, 2) THEN Suspended(x)
    ELSE IF At2(x, 1) # 4 THEN ErrExit(x, "BAD_LENGTH")
    ELSE IF ~Have(x, upto, 4) THEN Suspended(x)
    ELSE Took([x EXCEPT !.ri = At2(x, 3)], 4)

\* skip_input_data(): a suspending application remembers what is still to skip.
Skip(x, n) == Took(x, Max({n, 0}))

Skip_variable(x, upto) ==
    IF ~Have(x, upto, 2) THEN Suspended(x) ELSE Skip(Took(x, 2), At2(x, 1) - 2)

\* examine_app0(), examine_app14(), of the part that has been read.
Examine(x, b) ==
    IF x.unread = M_APP0 /\ Len(b) >= 14 /\ SubSeq(b, 1, 5) = <<74, 70, 73, 70, 0>>
    THEN [x EXCEPT !.jfif = TRUE]
    ELSE IF x.unread = M_APP14 /\ Len(b) >= 12 /\ SubSeq(b, 1, 5) = <<65, 100, 111, 98, 101>>
    THEN [x EXCEPT !.adobe = b[12]]
    ELSE x

Get_interesting_appn(x, upto) ==
    LET length == At2(x, 1) - 2
        n      == Max({0, Min({length, 14})})
    IN  IF ~Have(x, upto, 2) \/ ~Have(x, upto, 2 + n) THEN Suspended(x)
        ELSE Skip(Took(Examine(x, Bytes(x, 3, n)), 2 + n), length - n)

\* save_marker() keeps what it has read and moves the restart point with it; the
\* marker joins marker_list when it is complete.
Save_marker(x, upto) ==
    LET length == At2(x, 1) - 2
        begun  == [Took(x, 2) EXCEPT
                     !.cur = [marker |-> x.unread, original |-> length,
                              want |-> Min({length, LengthLimitCOM}), bytes |-> <<>>]]
        Take(y, n) == [Took(y, n) EXCEPT !.cur.bytes = @ \o Bytes(y, 1, n)]
        More(y) == Take(y, Min({y.cur.want - Len(y.cur.bytes), Horizon(y, upto) - y.pos}))
        Done(y) ==
            IF Len(y.cur.bytes) < y.cur.want THEN Suspended(y)
            ELSE Skip([Examine(y, y.cur.bytes) EXCEPT
                         !.marker_list = Append(@, [marker |-> y.cur.marker,
                                                    bytes  |-> y.cur.bytes]),
                         !.cur = None],
                      y.cur.original - y.cur.want)
    IN  IF x.cur = None /\ ~Have(x, upto, 2) THEN Suspended(x)
        ELSE IF x.cur = None /\ length < 0 THEN Took(x, 2)
        ELSE Done(More(IF x.cur # None THEN x ELSE begun))

\* marker_handler() and comment_handler(), whose length is a u_int32_t.  They do not
\* suspend: jpeg_getc() fills the buffer.  A length below 2 wraps, and everything
\* up to 2^32 bytes is taken, which ends behind the file; malloc() does not give as
\* much, and the FALSE that is returned ends in jpeg_read_coefficients().
Marker_handler(x) ==
    LET length == At2(x, 1) - 2
    IN  Took([x EXCEPT !.jpg_markers = @ \cup {x.unread - M_APP0}],
             2 + (IF length < 0 THEN 2 * Len(input.file) + 2 + length ELSE length))

Comment_handler(x) ==
    LET length == At2(x, 1) - 2
    IN  IF length < 0 THEN ErrExit(x, "BAD_STATE")
        ELSE Took([x EXCEPT !.comments = Append(@, Bytes(x, 3, length))], 2 + length)

\* my_error_emit() at the end of the image, and detect_append(): the rest of the load,
\* and one more load when that is short.  A load of two bytes counts as the
\* library's own end, also when it is not.
DetectAppend(x) ==
    LET All(load, next) == IF load < DETECT_MINAPPEND /\ next > 2 THEN load + next ELSE load
        Taken(all) == [x EXCEPT !.appended = IF all < 4 THEN None ELSE Bytes(x, 1, all)]
        AtEnd(n, load) ==
            IF input.how # Stegdetect \/ (n = 0 /\ load = 2) THEN x
            ELSE Taken(All(load, NextLoad(x.pos + load)))
        Loaded(n) == AtEnd(n, IF n = 0 THEN NextLoad(x.pos) ELSE n)
    IN  Loaded(InBuffer(x.pos))

-----------------------------------------------------------------------------

\* next_marker(): the first byte other than 0 and FF behind an FF.  Without one, all
\* is discarded but the FFs at the end.
Next_marker(x, upto) ==
    LET last  == IF Suspends(input.how) THEN upto ELSE Max({x.pos, Len(input.file)}) + 3
        till  == Max({x.pos} \cup {j \in x.pos + 1..last : Byte(j) # 255})
        Lost(j) == IF Byte(j) = 255 THEN 0
                   ELSE IF j > x.pos + 1 /\ Byte(j - 1) = 255 THEN 2 ELSE 1
        lost  == FoldLeft(LAMBDA t, k : t + Lost(x.pos + k), 0,
                          [k \in 1..till - x.pos |-> k])
        At_code(codes) ==
            IF codes = {} THEN Suspended([x EXCEPT !.pos = till, !.discarded = @ + lost])
            ELSE [x EXCEPT !.pos = Min(codes), !.unread = Byte(Min(codes)), !.discarded = 0,
                           !.ret = "ok"]
    IN  At_code({j \in x.pos + 2..last : Byte(j) \notin {0, 255} /\ Byte(j - 1) = 255})

First_marker(x, upto) ==
    IF ~Have(x, upto, 2) THEN Suspended(x)
    ELSE IF input.how = Stegdetect /\ input.file = <<>> THEN ErrExit(x, "INPUT_EMPTY")
    ELSE IF Bytes(x, 1, 2) # <<255, M_SOI>> THEN ErrExit(x, "NO_SOI")
    ELSE Took([x EXCEPT !.unread = M_SOI], 2)

\* The methods of the marker reader for APPn and COM.
Process_APPn(x, upto) ==
    IF input.how = Stegdetect /\ x.unread # M_APP0 THEN Marker_handler(x)
    ELSE IF x.unread \in {M_APP0, M_APP14} THEN Get_interesting_appn(x, upto)
    ELSE Skip_variable(x, upto)

Process_COM(x, upto) ==
    IF input.how = Stegdetect THEN Comment_handler(x)
    ELSE IF input.how = Saving THEN Save_marker(x, upto) ELSE Skip_variable(x, upto)

\* The switch of read_markers().
Process(x, upto) ==
    CASE x.unread = M_SOI -> Get_soi(x)
      [] x.unread \in {M_SOF0, M_SOF1, M_SOF2, M_SOF9, M_SOF10} ->
            Get_sof(x, upto, x.unread \in {M_SOF2, M_SOF10}, x.unread \in {M_SOF9, M_SOF10})
      [] x.unread = M_SOS -> Get_sos(x, upto)
      [] x.unread = M_EOI -> [DetectAppend(x) EXCEPT !.ret = "ok"]
      [] x.unread = M_DHT -> Tables(x, upto, DhtTable)
      [] x.unread = M_DQT -> Tables(x, upto, DqtTable)
      [] x.unread = M_DRI -> Get_dri(x, upto)
      [] x.unread \in M_APP0..M_APP15 -> Process_APPn(x, upto)
      [] x.unread = M_COM -> Process_COM(x, upto)
      [] x.unread \in M_RST0..M_RST7 \cup {M_TEM} -> [x EXCEPT !.ret = "ok"]
      [] x.unread \in {M_DAC, M_DNL} -> Skip_variable(x, upto)
      [] x.unread \in {195, 197, 198, 199, 200, 203, 205, 206, 207} -> ErrExit(x, "SOF_UNSUPPORTED")
      [] OTHER -> ErrExit(x, "UNKNOWN_MARKER")

\* One turn of the loop of read_markers(); ret "SOS" and "EOI" leave it.
Read_marker(x, upto) ==
    LET Processed(m, p) ==
            IF p.err # "none" \/ p.ret # "ok" THEN p
            ELSE [p EXCEPT !.unread = 0,
                           !.ret = CASE m.unread = M_SOS -> "SOS" [] m.unread = M_EOI -> "EOI"
                                     [] OTHER -> "ok"]
        Found(m) == IF m.err # "none" \/ m.ret # "ok" THEN m
                    ELSE Processed(m, Process(m, upto))
    IN  Found(IF x.unread # 0 THEN [x EXCEPT !.ret = "ok"]
              ELSE IF x.saw_SOI THEN Next_marker(x, upto) ELSE First_marker(x, upto))

\* Mutant of Action: markers ahead and markers behind are confused.
ActionSwapped(marker, desired) ==
    LET Is(k) == marker = M_RST0 + ((desired + k) % 8)
    IN  IF marker < M_SOF0 THEN 2
        ELSE IF marker \notin M_RST0..M_RST7 THEN 3
        ELSE IF Is(1) \/ Is(2) THEN 2
        ELSE IF Is(7) \/ Is(6) THEN 3 ELSE 1

\* jpeg_resync_to_restart(): what it does about a marker that is not the one desired.
Action(marker, desired) ==
    LET Is(k) == marker = M_RST0 + ((desired + k) % 8)
    IN  IF marker < M_SOF0 THEN 2
        ELSE IF marker \notin M_RST0..M_RST7 THEN 3
        ELSE IF Is(1) \/ Is(2) THEN 3
        ELSE IF Is(7) \/ Is(6) THEN 2 ELSE 1

\* Its loop: it reads on while the action is 2, and stops at the latest at the end.
Resync(x, upto) ==
    FoldLeft(LAMBDA y, k :
                IF y.ret = "ok" /\ y.unread # 0 /\ Action(y.unread, x.next_restart) = 2
                THEN Next_marker(y, upto) ELSE y,
             x, [k \in 1..Len(input.file) |-> k])

Read_restart_marker(x, upto) ==
    LET Resynced(y) == IF y.ret = "ok" /\ Action(y.unread, y.next_restart) = 1
                       THEN [y EXCEPT !.unread = 0] ELSE y
        Passed(r) == IF r.ret # "ok" THEN r ELSE [r EXCEPT !.next_restart = (@ + 1) % 8]
        Found(m) == IF m.ret # "ok" THEN m
                    ELSE Passed(IF m.unread = M_RST0 + m.next_restart
                                THEN [m EXCEPT !.unread = 0] ELSE Resynced(Resync(m, upto)))
    IN  Found(IF x.unread # 0 THEN [x EXCEPT !.ret = "ok"] ELSE Next_marker(x, upto))

-----------------------------------------------------------------------------
(* jdinput.c                                                               *)

DivUp(a, b) == (a + b - 1) \div b
MaxH(x) == Max({x.comps[k].h : k \in DOMAIN x.comps})
MaxV(x) == Max({x.comps[k].v : k \in DOMAIN x.comps})
WidthInBlocks(x, k) == DivUp(x.dim.width * x.comps[k].h, MaxH(x) * DCTSIZE)
HeightInBlocks(x, k) == DivUp(x.dim.height * x.comps[k].v, MaxV(x) * DCTSIZE)

Initial_setup(x) ==
    IF x.dim.height > JPEG_MAX_DIMENSION \/ x.dim.width > JPEG_MAX_DIMENSION
    THEN ErrExit(x, "IMAGE_TOO_BIG")
    ELSE IF x.dim.precision # 8 THEN ErrExit(x, "BAD_PRECISION")
    ELSE IF Len(x.comps) > MAX_COMPONENTS THEN ErrExit(x, "COMPONENT_COUNT")
    ELSE IF \E k \in DOMAIN x.comps :
                {x.comps[k].h, x.comps[k].v} \ (1..MAX_SAMP_FACTOR) # {}
    THEN ErrExit(x, "BAD_SAMPLING")
    ELSE [x EXCEPT !.latched = [k \in DOMAIN x.comps |-> None],
                   !.multi = Len(x.sos.comps) < Len(x.comps) \/ x.prog]

\* per_scan_setup(): blocks of an MCU and MCUs of the scan.
BlocksInMCU(x) ==
    IF Len(x.sos.comps) = 1 THEN 1
    ELSE FoldLeft(LAMBDA t, k : t + x.comps[k].h * x.comps[k].v, 0, x.sos.comps)

McusInScan(x) ==
    IF Len(x.sos.comps) = 1
    THEN WidthInBlocks(x, x.sos.comps[1]) * HeightInBlocks(x, x.sos.comps[1])
    ELSE DivUp(x.dim.width, MaxH(x) * DCTSIZE) * DivUp(x.dim.height, MaxV(x) * DCTSIZE)

\* latch_quant_tables(): the first scan of a component saves its table.
Latch(x) ==
    FoldLeft(LAMBDA y, k :
                IF y.err # "none" \/ y.latched[k] # None THEN y
                ELSE IF y.comps[k].tq >= NUM_TBLS \/ y.qtabs[y.comps[k].tq] = None
                THEN ErrExit(y, "NO_QUANT_TABLE")
                ELSE [y EXCEPT !.latched[k] = y.qtabs[y.comps[k].tq]],
             x, x.sos.comps)

\* The Huffman tables of a scan, as [class: 0 for DC and 1 for AC, no].
TablesNeeded(x) ==
    LET Of(c) == IF ~x.prog THEN <<[class |-> 0, no |-> c.td], [class |-> 1, no |-> c.ta]>>
                 ELSE IF x.sos.Ss # 0 THEN <<[class |-> 1, no |-> c.ta]>>
                 ELSE IF x.sos.Ah = 0 THEN <<[class |-> 0, no |-> c.td]>> ELSE None
    IN  FlattenSeq([k \in DOMAIN x.sos.comps |-> Of(x.comps[x.sos.comps[k]])])

\* jpeg_make_d_derived_tbl(): codes must fit in their lengths and not be all ones, and
\* values of DC tables are numbers of bits.
Derive(x, t) ==
    LET slot == t.no + t.class * NUM_TBLS
        table == x.htabs[slot]
        Code(l) == FoldLeft(LAMBDA c, j : 2 * c + table[j], 0, [j \in 1..l |-> j])
        overfull == \E l \in 1..HuffLengths : table[l] > 0 /\ Code(l) >= 2^l
        values == SubSeq(table, HuffLengths + 1, Len(table))
    IN  IF x.err # "none" THEN x
        ELSE IF t.no >= NUM_TBLS \/ table = None THEN ErrExit(x, "NO_HUFF_TABLE")
        ELSE IF overfull \/ (t.class = 0 /\ \E k \in DOMAIN values : values[k] > 15)
        THEN ErrExit(x, "BAD_HUFF_TABLE")
        ELSE x

\* What start_pass_phuff_decoder() refuses: a band or precisions that no scan can have.
BadProgression(x) ==
    LET s == x.sos
        band == IF s.Ss = 0 THEN s.Se = 0
                ELSE s.Ss <= s.Se /\ s.Se < DCTSIZE * DCTSIZE /\ Len(s.comps) = 1
    IN  x.prog /\ ~(band /\ (s.Ah # 0 => s.Al = s.Ah - 1) /\ s.Al <= 13)

\* start_pass of the entropy decoder.
Start_entropy_pass(x) ==
    IF x.err # "none" THEN x
    ELSE IF BadProgression(x) THEN ErrExit(x, "BAD_PROGRESSION")
    ELSE FoldLeft(Derive, x, TablesNeeded(x))

\* start_input_pass().
Start_input_pass(x) ==
    LET Latched(y) ==
            IF y.err # "none" THEN y
            ELSE [y EXCEPT !.data = TRUE, !.mcu = 0, !.bits = None, !.insufficient = FALSE,
                           !.to_go = x.ri]
    IN  IF Len(x.sos.comps) > 1 /\ BlocksInMCU(x) > D_MAX_BLOCKS_IN_MCU
        THEN ErrExit(x, "BAD_MCU_SIZE")
        ELSE Latched(Start_entropy_pass(Latch(x)))

\* consume_markers(), by one marker.
Consume_markers(x, upto) ==
    LET SetUp(i) == IF i.err # "none" THEN i ELSE [i EXCEPT !.inheaders = FALSE]
        Had(r) ==
            IF r.err # "none" \/ r.ret \notin {"SOS", "EOI"} THEN r
            ELSE IF r.ret = "SOS"
            THEN IF r.inheaders THEN SetUp(Initial_setup(r))
                 ELSE IF ~r.multi THEN ErrExit(r, "EOI_EXPECTED") ELSE Start_input_pass(r)
            ELSE IF r.inheaders /\ r.saw_SOF THEN ErrExit(r, "SOF_NO_SOS")
            ELSE [r EXCEPT !.eoi = TRUE]
    IN  IF x.eoi THEN [x EXCEPT !.ret = "EOI"] ELSE Had(Read_marker(x, upto))

Reset_input_controller(x) ==
    [x EXCEPT !.data = FALSE, !.multi = FALSE, !.eoi = FALSE, !.inheaders = TRUE,
              !.comps = None, !.scan = 0, !.unread = 0, !.saw_SOI = FALSE,
              !.saw_SOF = FALSE, !.discarded = 0, !.cur = None]

-----------------------------------------------------------------------------
(* jdhuff.c, by bytes.                                                     *)

\* One byte of jpeg_fill_bit_buffer(): FFs and a 0 are one FF of data, FFs and anything
\* else are a marker that is left unread.
Load_byte(x, upto) ==
    LET last == Horizon(x, upto)
        Behind_FF(ends, j) ==
            IF ends = {} THEN Suspended(x)
            ELSE IF Byte(j) = 0 THEN [x EXCEPT !.pos = j, !.bits = Append(@, 255)]
            ELSE [x EXCEPT !.pos = j, !.unread = Byte(j)]
        Ends(ends) == Behind_FF(ends, Min(ends))
    IN  IF x.ret # "ok" \/ x.unread # 0 \/ Len(x.bits) >= BitBytes THEN x
        ELSE IF ~Have(x, upto, 1) THEN Suspended(x)
        ELSE IF At(x, 1) # 255 THEN [Took(x, 1) EXCEPT !.bits = Append(@, At(x, 1))]
        ELSE Ends({j \in x.pos + 2..Min({last, x.pos + 8}) : Byte(j) # 255})

\* A marker with too little in front of it makes the rest of the segment zeros.
Fill_bit_buffer(x, upto) ==
    LET Loaded(y) ==
            IF y.ret # "ok" \/ y.bits # None THEN y
            ELSE [y EXCEPT !.insufficient = TRUE, !.bits = [k \in 1..BitBytes |-> 0]]
    IN  Loaded(FoldLeft(LAMBDA z, k : Load_byte(z, upto), x, [k \in 1..BitBytes |-> k]))

\* A block of the MCU: its coefficients go to stego_mcu_order and stego_natural_order.
Decode_block(s, upto) ==
    LET Filled(x) ==
            IF x.ret # "ok" THEN [s EXCEPT !.x = x]
            ELSE [x |-> [x EXCEPT !.bits = Tail(@),
                                  !.called = IF x.prog THEN @ ELSE Append(@, x.bits[1])],
                  block |-> Append(s.block, x.bits[1])]
    IN  Filled(IF s.x.bits = None THEN Fill_bit_buffer(s.x, upto) ELSE s.x)

Process_restart(x, upto) ==
    LET Restarted(r) ==
            IF r.ret # "ok" THEN r
            ELSE [r EXCEPT !.to_go = x.ri,
                           !.insufficient = IF r.unread = 0 THEN FALSE ELSE @]
    IN  Restarted(Read_restart_marker([x EXCEPT !.discarded = @ + Len(x.bits), !.bits = None],
                                      upto))

\* Mutant of Decode_mcu: the bit buffer of a suspended MCU is saved.
Decode_mcuSaves(x0, upto) ==
    LET Blocks(x) ==
            IF x.insufficient THEN [x |-> x, block |-> [k \in 1..BlocksInMCU(x) |-> 0]]
            ELSE FoldLeft(LAMBDA t, k : IF t.x.ret = "ok" THEN Decode_block(t, upto) ELSE t,
                          [x |-> x, block |-> <<>>], [k \in 1..BlocksInMCU(x) |-> k])
        Decoded(x, y) ==
            IF y.x.ret # "ok" THEN y.x
            ELSE [y.x EXCEPT !.to_go = IF x.ri = 0 THEN 0 ELSE @ - 1,
                             !.coefs = Append(@, [scan |-> x.scan, block |-> y.block])]
        Ready(x) == IF x.ret # "ok" THEN x ELSE Decoded(x, Blocks(x))
    IN  Ready(IF x0.ri # 0 /\ x0.to_go = 0 THEN Process_restart(x0, upto)
              ELSE [x0 EXCEPT !.ret = "ok"])

\* decode_mcu(): after a suspension the MCU is decoded again from its start.
Decode_mcu(x0, upto) ==
    LET Blocks(x) ==
            IF x.insufficient THEN [x |-> x, block |-> [k \in 1..BlocksInMCU(x) |-> 0]]
            ELSE FoldLeft(LAMBDA t, k : IF t.x.ret = "ok" THEN Decode_block(t, upto) ELSE t,
                          [x |-> x, block |-> <<>>], [k \in 1..BlocksInMCU(x) |-> k])
        Decoded(x, y) ==
            IF y.x.ret # "ok" THEN [x EXCEPT !.ret = "suspended", !.called = y.x.called]
            ELSE [y.x EXCEPT !.to_go = IF x.ri = 0 THEN 0 ELSE @ - 1,
                             !.coefs = Append(@, [scan |-> x.scan, block |-> y.block])]
        Ready(x) == IF x.ret # "ok" THEN x ELSE Decoded(x, Blocks(x))
    IN  Ready(IF x0.ri # 0 /\ x0.to_go = 0 THEN Process_restart(x0, upto)
              ELSE [x0 EXCEPT !.ret = "ok"])

\* consume_data(), by one MCU; finish_input_pass() behind the last.
Consume_data(x, upto) ==
    LET Next(y) == IF y.ret # "ok" THEN y
                   ELSE [y EXCEPT !.mcu = @ + 1, !.data = (y.mcu + 1 < McusInScan(y))]
    IN  Next(Decode_mcu(x, upto))

-----------------------------------------------------------------------------
(* The calls of the application.                                           *)

\* default_decompress_parms()
Guess(x) ==
    LET id(k) == x.comps[k].id
    IN  CASE Len(x.comps) = 1 -> "gray"
          [] Len(x.comps) = 3 ->
                IF x.jfif THEN "YCbCr"
                ELSE IF x.adobe # -1 THEN (IF x.adobe = 0 THEN "RGB" ELSE "YCbCr")
                ELSE IF <<id(1), id(2), id(3)>> = <<82, 71, 66>> THEN "RGB" ELSE "YCbCr"
          [] Len(x.comps) = 4 -> IF x.adobe \in {-1, 0} THEN "CMYK" ELSE "YCCK"
          [] OTHER -> "unknown"

\* jpeg_abort()
Abort(x) == [x EXCEPT !.gs = "start", !.marker_list = None]

\* jpeg_read_header() and jpeg_consume_input(), by one marker.  Only stegdetect asks
\* for an image; tables alone are kept for the next image of the file.
Read_header(x0, upto) ==
    LET x == IF x0.gs = "start"
             THEN [Reset_input_controller(x0) EXCEPT !.gs = "inheader"] ELSE x0
        Consumed(r) ==
            IF r.err # "none" THEN r
            ELSE IF r.ret = "SOS" THEN [r EXCEPT !.gs = "ready", !.space = Guess(r)]
            ELSE IF r.ret # "EOI" THEN r
            ELSE IF input.how = Stegdetect THEN ErrExit(r, "NO_IMAGE")
            ELSE [Abort(r) EXCEPT !.images = @ + 1]
    IN  Consumed(Consume_markers(x, upto))

\* jpeg_read_coefficients(): transdecode_master_selection(), and then input until EOI.
Read_coefficients(x, upto) ==
    LET started == IF x.arith THEN ErrExit(x, "ARITH_NOTIMPL")
                   ELSE [Start_input_pass(x) EXCEPT !.gs = "rdcoefs"]
        Consumed(r) == IF r.err = "none" /\ r.ret = "EOI" THEN [r EXCEPT !.gs = "stopping"] ELSE r
    IN  IF x.gs = "ready" THEN started
        ELSE Consumed(IF x.data THEN Consume_data(x, upto) ELSE Consume_markers(x, upto))

\* jpeg_finish_decompress()
Finish_decompress(x) == [Abort(x) EXCEPT !.images = @ + 1]

\* A call that cannot go on, and an application that has done.
AtRest(x) ==
    \/ x.ret = "suspended" \/ x.err # "none"
    \/ x.images = (IF Suspends(input.how) THEN MaxImages ELSE 1)

\* What the application calls next.
Step(x, upto) ==
    CASE x.gs \in {"start", "inheader"} -> Read_header(x, upto)
      [] x.gs \in {"ready", "rdcoefs"} -> Read_coefficients(x, upto)
      [] x.gs = "stopping" -> Finish_decompress(x)

\* A second decompressor reads the file first, and has all of it at once.
Behind == Suspends(input.how) /\ ~AtRest(whole)
ReadWhole ==
    /\ Behind
    /\ whole' = Step(whole, Len(input.file))
    /\ UNCHANGED <<input, supplied, d>>

\* A call, by its next marker or MCU.
Calls(states) == ~Behind /\ ~AtRest(d) /\ d.gs \in states
Header ==
    /\ Calls({"start", "inheader"})
    /\ d' = Read_header(d, supplied)
    /\ UNCHANGED <<input, whole, supplied>>
Coefficients ==
    /\ Calls({"ready", "rdcoefs"})
    /\ d' = Read_coefficients(d, supplied)
    /\ UNCHANGED <<input, whole, supplied>>
Finish ==
    /\ Calls({"stopping"})
    /\ d' = Finish_decompress(d)
    /\ UNCHANGED <<input, whole, supplied>>

\* The call returns because it was suspended; the application has more of the file
\* when it calls again.
Supply ==
    /\ Suspends(input.how) /\ d.ret = "suspended" /\ supplied < Len(input.file)
    /\ \E n \in Chunks : supplied' = Min({supplied + n, Len(input.file)})
    /\ d' = [d EXCEPT !.ret = "ok"]
    /\ UNCHANGED <<input, whole>>

InputNext == ReadWhole \/ Header \/ Coefficients \/ Finish \/ Supply
InputSpec == InputInit /\ [][InputNext]_inputVars

-----------------------------------------------------------------------------

\* In whatever pieces the bytes arrive, the decompressor ends where it ends when it
\* has them all from the start: no marker is lost or read twice, nothing is
\* counted, saved, allocated or defined twice, and no restart is missed.
SuspensionTransparent ==
    LET Same(x, y) == [x EXCEPT !.called = None] = [y EXCEPT !.called = None]
    IN  Suspends(input.how) /\ ~Behind =>
        /\ IsPrefix(d.coefs, whole.coefs)
        /\ supplied = Len(input.file) /\ AtRest(d) => Same(d, whole)

\* Where restart markers are lost, added or changed, or data between them is, only the
\* segments next to the damage are lost: all other blocks are in their places.
DamageIsLocal ==
    input.blocks # None /\ d.gs = "stopping" =>
        /\ Len(d.coefs) = Len(input.blocks)
        /\ \A i \in DOMAIN input.blocks \ input.damaged : d.coefs[i].block = input.blocks[i]

\* What stegdetect has of an image that it has read to the end is that image's: the
\* comments in their order, the APPn markers, for each component the table of its
\* first scan, each coefficient that was decoded once; and what counts as appended
\* are the bytes behind the image, always if there are six, never below four.
SeesTheFile ==
    input.how = Stegdetect /\ d.gs = "stopping" =>
        /\ d.comments = input.comments /\ d.jpg_markers = input.apps
        /\ input.tables # None => d.latched = input.tables
        /\ ~d.prog /\ input.damaged = {} => d.called = FlattenSeq([k \in DOMAIN d.coefs |-> d.coefs[k].block])
        /\ d.appended # None => Len(d.appended) >= 4 /\ IsPrefix(d.appended, input.behind)
        /\ Len(input.behind) >= 6 => d.appended # None
=============================================================================
