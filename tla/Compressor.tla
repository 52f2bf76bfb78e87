----------------------------- MODULE Compressor -----------------------------
(***************************************************************************)
(* The JPEG compressor from rows of an image to MCUs (jpeg-6b): the        *)
(* preprocessing controller with its ring of rows and the downsampler      *)
(* (jcprepct.c, jcsample.c); the main controller (jcmainct.c); the         *)
(* coefficient controllers, which make the blocks and the dummy blocks at  *)
(* the edges (jccoefct.c, and jctrans.c for coefficients that are already  *)
(* there); the passes over the image (jcmaster.c); and what an application *)
(* calls (jcapimin.c, jcapistd.c), which gives any number of lines and may *)
(* have room for only some of the output.                                  *)
(*                                                                         *)
(* A line of the image is its number; a row of samples of a component is   *)
(* the lines it was made of, [main, around]; a block is the rows and the   *)
(* column it was made of, and a dummy block is the one whose DC it copies. *)
(* Colours, columns of samples and the values themselves are not modelled. *)
(***************************************************************************)
EXTENDS Integers, Sequences, SequencesExt, FiniteSetsExt

CONSTANTS
    DCTSIZE,     \* lines of a block
    Images,      \* [width, height, comps: a sequence of [h, v], scans: a sequence of [comps, Ss, Ah]
                 \*  or <<>>, progressive, optimize, smoothing: BOOLEANs, input: "lines", "raw" or "coefs"]
    LinesGiven,  \* numbers of lines of a call of jpeg_write_scanlines()
    Rooms        \* numbers of MCUs the destination has room for in a call

VARIABLES
    img,         \* the image, and what the application set
    z            \* cinfo with its controllers

compressorVars == <<img, z>>

NoImageYet == [width |-> 0, height |-> 0, comps |-> <<>>, scans |-> <<>>, progressive |-> FALSE,
               optimize |-> FALSE, smoothing |-> FALSE, input |-> "lines"]
RoundedUp(a, b) == (a + b - 1) \div b
Lesser(a, b) == IF a < b THEN a ELSE b
AtLeastOne(n, all) == IF n = 0 THEN all ELSE n

-----------------------------------------------------------------------------
(* initial_setup() and per_scan_setup().                                   *)

CComps == DOMAIN img.comps
H(c) == img.comps[c].h
Vert(c) == img.comps[c].v
TopH == Max({H(c) : c \in CComps})
TopV == Max({Vert(c) : c \in CComps})
Width_in_blocks(c)  == RoundedUp(img.width * H(c), TopH * DCTSIZE)
Height_in_blocks(c) == RoundedUp(img.height * Vert(c), TopV * DCTSIZE)
Total_iMCU_rows == RoundedUp(img.height, TopV * DCTSIZE)

Scans == IF img.scans # <<>> THEN img.scans
         ELSE <<[comps |-> [i \in CComps |-> i], Ss |-> 0, Ah |-> 0]>>
Optimize == img.optimize \/ img.progressive
TotalPasses == Len(Scans) * (IF Optimize THEN 2 ELSE 1)
FullBuffer == Len(Scans) > 1 \/ Optimize

Interleaved(s) == Len(s.comps) > 1
MCUs_per_row(s) == IF Interleaved(s) THEN RoundedUp(img.width, TopH * DCTSIZE)
                   ELSE Width_in_blocks(s.comps[1])
McuWidth(s, c)  == IF Interleaved(s) THEN H(c) ELSE 1
McuHeight(s, c) == IF Interleaved(s) THEN Vert(c) ELSE 1
LastColWidth(s, c) == AtLeastOne(Width_in_blocks(c) % McuWidth(s, c), McuWidth(s, c))
LastRowHeight(c)   == AtLeastOne(Height_in_blocks(c) % Vert(c), Vert(c))

\* jinit_downsampler().
VExpand(c) == TopV \div Vert(c)
Fractional == \E c \in CComps : TopH % H(c) # 0 \/ TopV % Vert(c) # 0
Smoothed(c) ==
    /\ img.smoothing
    /\ \/ H(c) = TopH /\ Vert(c) = TopV
       \/ 2 * H(c) = TopH /\ 2 * Vert(c) = TopV
Need_context_rows == \E c \in CComps : Smoothed(c)

-----------------------------------------------------------------------------
(* The preprocessing controller.  x.ctr of the x.avail lines of this call  *)
(* are taken; x.groups is *out_row_group_ctr.                              *)

RingSize == IF Need_context_rows THEN 3 * TopV ELSE TopV
Ring(i) == i % RingSize             \* create_context_buffer(): pointers that wrap around

Start_pass_prep(x) ==
    [x EXCEPT !.rows_to_go = img.height, !.next_buf_row = 0, !.this_row_group = 0, !.next_buf_stop = 2 * TopV]

\* The color converter, for n lines; the first of the call is line x.first.
Convert(x, n) ==
    LET at == {Ring(x.next_buf_row + k) : k \in 0..n - 1}
    IN  [x EXCEPT !.color_buf = [p \in DOMAIN @ |->
                        IF p \in at THEN x.first + x.ctr + (p - Ring(x.next_buf_row)) ELSE @[p]],
                  !.ctr = @ + n, !.next_buf_row = @ + n, !.rows_to_go = @ - n]

\* expand_bottom_edge() of the conversion buffer.
ExpandColor(x, to) ==
    LET at == {Ring(r) : r \in x.next_buf_row..to - 1}
    IN  [x EXCEPT !.color_buf = [p \in DOMAIN @ |-> IF p \in at THEN @[Ring(x.next_buf_row - 1)] ELSE @[p]],
                  !.next_buf_row = to]

\* sep_downsample(): a row group of each component, from the ring at row `from'.
SampleRow(x, c, from) == [k \in 1..VExpand(c) |-> x.color_buf[Ring(from + k - 1)]]
\* With smoothing, the rows above and below them.
Around(x, c, from) ==
    IF Smoothed(c) THEN <<x.color_buf[Ring(from - 1)], x.color_buf[Ring(from + VExpand(c))]>> ELSE <<>>
Downsample(x, from) ==
    [x EXCEPT !.buffer = [c \in CComps |-> [r \in DOMAIN @[c] |->
                    LET k == r - x.groups * Vert(c)
                        at == from + k * VExpand(c)
                    IN  IF k \in 0..Vert(c) - 1 THEN [main |-> SampleRow(x, c, at), around |-> Around(x, c, at)]
                        ELSE @[c][r]]],
              !.groups = @ + 1]

\* At the bottom of the image the last row of samples fills the iMCU row.
ExpandOutput(x) ==
    [x EXCEPT !.buffer = [c \in CComps |-> [r \in DOMAIN @[c] |->
                    IF r >= x.groups * Vert(c) THEN @[c][x.groups * Vert(c) - 1] ELSE @[c][r]]],
              !.groups = DCTSIZE]

RECURSIVE Pre_process_data(_)
Pre_process_data(x) ==
    LET Filled(y)  == IF y.rows_to_go = 0 /\ y.next_buf_row < TopV THEN ExpandColor(y, TopV) ELSE y
        Emptied(y) == IF y.next_buf_row = TopV
                      THEN [Downsample(y, 0) EXCEPT !.next_buf_row = 0] ELSE y
        More(y)    == IF y.rows_to_go = 0 /\ y.groups < DCTSIZE THEN ExpandOutput(y)
                      ELSE Pre_process_data(y)
    IN  IF x.ctr >= x.avail \/ x.groups >= DCTSIZE THEN x
        ELSE More(Emptied(Filled(Convert(x, Lesser(TopV - x.next_buf_row, x.avail - x.ctr)))))

\* At the top of the image its first line is also the one above.
PadTop(x) ==
    [x EXCEPT !.color_buf = [p \in DOMAIN @ |->
        IF p \in {Ring(-r) : r \in 1..TopV} THEN @[0] ELSE @[p]]]

\* Pointers are advanced, and wrap around.
NextGroup(x) ==
    LET next == IF x.next_buf_row >= RingSize THEN 0 ELSE x.next_buf_row
    IN  [x EXCEPT !.this_row_group = IF @ + TopV >= RingSize THEN 0 ELSE @ + TopV,
                  !.next_buf_row = next, !.next_buf_stop = next + TopV]

RECURSIVE Pre_process_context(_)
Pre_process_context(x) ==
    LET Read(y) == IF x.rows_to_go = img.height THEN PadTop(y) ELSE y
        Fed(y)  == IF y.next_buf_row = y.next_buf_stop
                   THEN NextGroup(Downsample(y, y.this_row_group)) ELSE y
    IN  IF x.groups >= DCTSIZE \/ (x.ctr >= x.avail /\ x.rows_to_go # 0) THEN x
        ELSE Pre_process_context(Fed(
                IF x.ctr < x.avail
                THEN Read(Convert(x, Lesser(x.next_buf_stop - x.next_buf_row, x.avail - x.ctr)))
                ELSE IF x.next_buf_row < x.next_buf_stop THEN ExpandColor(x, x.next_buf_stop) ELSE x))

PreProcess(x) == IF Need_context_rows THEN Pre_process_context(x) ELSE Pre_process_data(x)

-----------------------------------------------------------------------------
(* The coefficient controllers.  x.mcu counts the MCUs of the iMCU row     *)
(* that are done: MCU_vert_offset and mcu_ctr.                             *)

Scan(x) == Scans[x.scan]
Marker(m) == [kind |-> m, blocks |-> <<>>]
Mcu(blocks) == [kind |-> "MCU", blocks |-> blocks]
McuRowsPerRow(x) ==                 \* start_iMCU_row()
    IF Interleaved(Scan(x)) THEN 1
    ELSE IF x.row < Total_iMCU_rows - 1 THEN Vert(Scan(x).comps[1]) ELSE LastRowHeight(Scan(x).comps[1])

RealBlock(c, rows, col) == [comp |-> c, rows |-> rows, col |-> col, dummy |-> FALSE]
DummyOf(block) == [block EXCEPT !.dummy = TRUE]

\* forward_DCT() of a block of the iMCU row in the buffer.
Forward_DCT(x, c, blockRow, col) ==
    RealBlock(c, [j \in 1..DCTSIZE |-> x.buffer[c][blockRow * DCTSIZE + j - 1]], col)

\* The places of an MCU: <<component, row in the iMCU row, column, whether there is a block>>.
Places(x, n) ==
    LET s    == Scan(x)
        yoff == n \div MCUs_per_row(s)
        col  == n % MCUs_per_row(s)
        Of(c) == LET w == McuWidth(s, c)
                     count == IF col < MCUs_per_row(s) - 1 THEN w ELSE LastColWidth(s, c)
                 IN  [k \in 1..w * McuHeight(s, c) |->
                        LET y == yoff + ((k - 1) \div w)
                            i == (k - 1) % w
                        IN  <<c, y, col * w + i,
                              i < count /\ (x.row < Total_iMCU_rows - 1 \/ y < LastRowHeight(c))>>]
    IN  FlattenSeq([i \in DOMAIN s.comps |-> Of(s.comps[i])])

\* compress_data() and the compress_output() of jctrans.c: dummy blocks are made on the way.
McuOnTheWay(x, n) ==
    FoldLeft(LAMBDA m, p : Append(m, IF ~p[4] THEN DummyOf(Last(m))
                                     ELSE IF img.input = "coefs" THEN x.whole[p[1]][<<x.row * Vert(p[1]) + p[2], p[3]>>]
                                     ELSE Forward_DCT(x, p[1], p[2], p[3])),
             <<>>, Places(x, n))

\* compress_output(): the dummies are in the arrays.
McuFromArrays(x, n) ==
    LET Of(places) == [k \in DOMAIN places |->
            LET c == places[k][1] IN x.whole[c][<<x.row * Vert(c) + places[k][2], places[k][3]>>]]
    IN  Of(Places(x, n))

\* compress_first_pass(): the iMCU row goes to the arrays, with dummies to the full width of
\* MCUs and, in the last row, to their full height.
SaveRow(x) ==
    LET Rows(c) == IF x.row < Total_iMCU_rows - 1 THEN Vert(c) ELSE LastRowHeight(c)
        Saved(c, y, k) ==
            LET lastOfMcu == (k \div H(c)) * H(c) + H(c) - 1
                Row(yy, kk) == IF kk < Width_in_blocks(c) THEN Forward_DCT(x, c, yy, kk)
                               ELSE DummyOf(Forward_DCT(x, c, yy, Width_in_blocks(c) - 1))
            IN  IF y < Rows(c) THEN Row(y, k) ELSE DummyOf(Row(Rows(c) - 1, lastOfMcu))
    IN  [x EXCEPT !.whole = [c \in CComps |-> [b \in DOMAIN @[c] |->
            LET y == b[1] - x.row * Vert(c)
            IN  IF y \in 0..Vert(c) - 1 THEN Saved(c, y, b[2]) ELSE @[c][b]]]]

\* The coder takes MCUs while there is room; statistics need none.
CompressRow(x, Blocks(_, _)) ==
    LET Coded(new) ==
            IF x.gather THEN [x EXCEPT !.counted[x.scan] = @ \o new]
            ELSE [x EXCEPT !.out = @ \o new, !.room = @ - Len(new)]
        UpTo(last, all) ==
            LET y == Coded([i \in 1..last - x.mcu |-> Mcu(Blocks(x, x.mcu + i - 1))])
                whole == last >= all
            IN  [y EXCEPT !.mcu = IF whole THEN 0 ELSE last, !.row = IF whole THEN @ + 1 ELSE @,
                          !.done = whole]
        Of(all) == UpTo(IF x.gather THEN all ELSE Lesser(x.mcu + x.room, all), all)
    IN  Of(McuRowsPerRow(x) * MCUs_per_row(Scan(x)))

Compress_data(x) ==
    IF x.mode = "pass_thru" \/ img.input = "coefs" THEN CompressRow(x, McuOnTheWay)
    ELSE CompressRow(IF x.mode = "save_and_pass" THEN SaveRow(x) ELSE x, McuFromArrays)

-----------------------------------------------------------------------------
(* The passes.                                                             *)

Start_pass_coef(x, mode) == [x EXCEPT !.mode = mode, !.row = 0, !.mcu = 0]
Headers(x) == (IF x.scan = 1 THEN <<Marker("SOF")>> ELSE <<>>) \o <<Marker("SOS")>>

\* A refinement of DC needs no table, and so no statistics.
Gathers(x) == Scan(x).Ss # 0 \/ Scan(x).Ah = 0

\* prepare_for_pass().
Prepare_for_pass(x) ==
    LET gathers == x.pass_type = "huff_opt" /\ Gathers(x)
        y == IF x.pass_type = "huff_opt" /\ ~gathers
             THEN [x EXCEPT !.pass_type = "output", !.pass_number = @ + 1] ELSE x
        w == CASE x.pass_type = "main" ->
                    [Start_pass_coef(IF img.input = "raw" THEN x ELSE Start_pass_prep(x),
                                     IF TotalPasses > 1 THEN "save_and_pass" ELSE "pass_thru")
                        EXCEPT !.gather = Optimize, !.startup = ~Optimize, !.groups = 0, !.cur = 0,
                               !.suspended = FALSE]
               [] gathers -> [Start_pass_coef(y, "crank") EXCEPT !.gather = TRUE, !.startup = FALSE]
               [] OTHER   -> [Start_pass_coef(y, "crank")
                                EXCEPT !.gather = FALSE, !.startup = FALSE, !.out = @ \o Headers(x)]
    IN  [w EXCEPT !.is_last_pass = (w.pass_number = TotalPasses - 1)]

Finish_pass_master(x) ==
    LET y == [x EXCEPT !.pass_number = @ + 1]
    IN  CASE x.pass_type = "main"     -> [y EXCEPT !.pass_type = "output", !.scan = IF Optimize THEN @ ELSE @ + 1]
          [] x.pass_type = "huff_opt" -> [y EXCEPT !.pass_type = "output"]
          [] x.pass_type = "output"   -> [y EXCEPT !.pass_type = IF Optimize THEN "huff_opt" ELSE @, !.scan = @ + 1]

-----------------------------------------------------------------------------
(* The main controller.                                                    *)

\* Mutant of Suspend: the line is taken.
SuspendTaken(x) == [x EXCEPT !.suspended = TRUE]

\* The coder stopped within an iMCU row: the last line is said not to be taken yet, so that
\* the application comes back.
Suspend(x) == IF x.suspended THEN x ELSE [x EXCEPT !.ctr = @ - 1, !.suspended = TRUE]

RECURSIVE Process_data_simple_main(_)
Process_data_simple_main(x) ==
    LET Coded(y) ==
            IF ~y.done THEN Suspend(y)
            ELSE Process_data_simple_main(
                    [y EXCEPT !.ctr = IF y.suspended THEN @ + 1 ELSE @, !.suspended = FALSE,
                              !.groups = 0, !.cur = @ + 1])
        Filled(y) == IF y.groups # DCTSIZE THEN y ELSE Coded(Compress_data(y))
    IN  IF x.cur >= Total_iMCU_rows THEN x
        ELSE Filled(IF x.groups < DCTSIZE THEN PreProcess(x) ELSE x)

-----------------------------------------------------------------------------
(* What an application calls.                                              *)

\* The objects as jinit_compress_master() or transencode_master_selection() make them.
NoRow == [main |-> <<-1>>, around |-> <<>>]
NoBlock == RealBlock(0, <<>>, 0)
\* Coefficients of a decompressor are arrays of real blocks only.
ArrayOf(c) ==
    IF img.input = "coefs"
    THEN [b \in (0..Height_in_blocks(c) - 1) \X (0..Width_in_blocks(c) - 1) |-> RealBlock(c, <<b[1]>>, b[2])]
    ELSE [b \in (0..Total_iMCU_rows * Vert(c) - 1) \X (0..RoundedUp(Width_in_blocks(c), H(c)) * H(c) - 1) |-> NoBlock]
Fresh(state) ==
    [state |-> state, next |-> 0, out |-> <<Marker("SOI")>>, counted |-> [s \in DOMAIN Scans |-> <<>>],
     pass_type |-> IF img.input # "coefs" THEN "main" ELSE IF Optimize THEN "huff_opt" ELSE "output",
     pass_number |-> 0, scan |-> 1, startup |-> FALSE, is_last_pass |-> FALSE, gather |-> FALSE, mode |-> "none",
     rows_to_go |-> 0, next_buf_row |-> 0, this_row_group |-> 0, next_buf_stop |-> 0,
     color_buf |-> [p \in 0..RingSize - 1 |-> -1],
     buffer |-> [c \in CComps |-> [r \in 0..Vert(c) * DCTSIZE - 1 |-> NoRow]],
     groups |-> 0, cur |-> 0, suspended |-> FALSE, row |-> 0, mcu |-> 0, done |-> TRUE,
     whole |-> IF FullBuffer \/ img.input = "coefs" THEN [c \in CComps |-> ArrayOf(c)] ELSE <<>>,
     first |-> 0, ctr |-> 0, avail |-> 0, room |-> 0]
Idle == [state |-> "start", next |-> 0, out |-> <<>>]

CompressorInit == img = NoImageYet /\ z = Idle

\* What is only of use within a call is forgotten.
Return(x) == [x EXCEPT !.first = 0, !.ctr = 0, !.avail = 0, !.room = 0, !.done = TRUE]

\* jpeg_start_compress().
Start_compress ==
    /\ z.state = "start"
    /\ \E i \in Images : i.input # "coefs" /\ img' = i
    /\ z' = IF img'.input # "raw" /\ Fractional' THEN Idle   \* JERR_FRACT_SAMPLE_NOTIMPL
            ELSE (Prepare_for_pass(Fresh(IF img.input = "raw" THEN "raw_ok" ELSE "scanning")))'

\* jpeg_write_coefficients().
Write_coefficients ==
    /\ z.state = "start"
    /\ \E i \in Images : i.input = "coefs" /\ img' = i
    /\ z' = (Fresh("wrcoefs"))'

\* jpeg_write_marker(), once.
Write_marker ==
    /\ z.state # "start" /\ z.next = 0
    /\ z.out = <<Marker("SOI")>>                    \* as an application has to
    /\ z' = [z EXCEPT !.out = Append(@, Marker("COM"))]
    /\ UNCHANGED img

\* pass_startup(), at the first line.
Startup(x) == IF x.startup THEN [x EXCEPT !.startup = FALSE, !.out = @ \o <<Marker("SOF"), Marker("SOS")>>] ELSE x

\* jpeg_write_scanlines().
Write_scanlines(n, room) ==
    /\ z.state = "scanning" /\ z.next < img.height
    /\ z' = LET Took(x) == Return([x EXCEPT !.next = @ + x.ctr])
            IN  Took(Process_data_simple_main(
                    [Startup(z) EXCEPT !.first = z.next, !.avail = Lesser(n, img.height - z.next), !.room = room]))
    /\ UNCHANGED img

\* jpeg_write_raw_data(), of the iMCU row that comes next.
Write_raw_data(room) ==
    /\ z.state = "raw_ok" /\ z.next < img.height
    /\ z' = LET x == [Startup(z) EXCEPT !.room = room, !.buffer = [c \in CComps |-> [r \in DOMAIN @[c] |->
                        [main |-> <<(z.next \div TopV) * Vert(c) + r>>, around |-> <<>>]]]]
                Coded(y) == Return(IF y.done THEN [y EXCEPT !.next = @ + TopV * DCTSIZE] ELSE y)
            IN  Coded(Compress_data(x))
    /\ UNCHANGED img

\* The passes that are left, none of which may stop.
RECURSIVE Remaining_passes(_)
Remaining_passes(x) ==
    LET Coded(y) == IF ~y.done THEN y ELSE Remaining_passes(Finish_pass_master(y))
    IN  IF x.is_last_pass \/ ~x.done THEN x
        ELSE Coded(FoldLeft(LAMBDA y, r : IF y.done THEN Compress_data(y) ELSE y,
                            [Prepare_for_pass(x) EXCEPT !.done = TRUE],
                            [r \in 1..Total_iMCU_rows |-> r]))

\* jpeg_finish_compress(): when the destination stops it, the object is given up.
Finish_compress(room) ==
    /\ \/ z.state \in {"scanning", "raw_ok"} /\ z.next >= img.height
       \/ z.state = "wrcoefs"
    /\ z' = LET y == [z EXCEPT !.room = room, !.done = TRUE]
                Ended(x) ==
                    IF x.done THEN Return([x EXCEPT !.state = "start", !.out = Append(@, Marker("EOI"))])
                    ELSE Idle                                 \* JERR_CANT_SUSPEND
            IN  Ended(Remaining_passes(IF z.state = "wrcoefs" THEN y ELSE Finish_pass_master(y)))
    /\ UNCHANGED img

CompressorNext ==
    \/ Start_compress
    \/ Write_coefficients
    \/ Write_marker
    \/ \E n \in LinesGiven, room \in Rooms : Write_scanlines(n, room)
    \/ \E room \in Rooms : Write_raw_data(room) \/ Finish_compress(room)

CompressorSpec == CompressorInit /\ [][CompressorNext]_compressorVars

-----------------------------------------------------------------------------
(* What the stream is meant to be, from the image alone.                   *)

\* A row of samples: the lines it covers, the first and last of the image repeated around it.
\* Without context the rows below the image repeat the last that was made.
RefRow(c, y) ==
    LET Line(l) == Max({0, Lesser(l, img.height - 1)})
        made == RoundedUp(img.height, TopV) * Vert(c)
        top  == (IF Need_context_rows THEN y ELSE Lesser(y, made - 1)) * VExpand(c)
    IN  IF img.input = "raw" THEN [main |-> <<y>>, around |-> <<>>]
        ELSE [main   |-> [k \in 1..VExpand(c) |-> Line(top + k - 1)],
              around |-> IF Smoothed(c) THEN <<Line(top - 1), Line(top + VExpand(c))>> ELSE <<>>]
RefBlock(c, y, k) ==
    RealBlock(c, IF img.input = "coefs" THEN <<y>> ELSE [j \in 1..DCTSIZE |-> RefRow(c, y * DCTSIZE + j - 1)], k)

\* A block beside the image has the DC of the last block in its row; one below it, of the last
\* of the MCU in the row above.
RefMcu(s, m) ==
    LET Of(c) ==
            LET w == McuWidth(s, c)
                left == (m % MCUs_per_row(s)) * w
            IN  [k \in 1..w * McuHeight(s, c) |->
                    LET y == (m \div MCUs_per_row(s)) * McuHeight(s, c) + ((k - 1) \div w)
                        x == left + ((k - 1) % w)
                        lastCol == Lesser(left + w, Width_in_blocks(c)) - 1
                    IN  IF y < Height_in_blocks(c) /\ x < Width_in_blocks(c) THEN RefBlock(c, y, x)
                        ELSE DummyOf(RefBlock(c, Lesser(y, Height_in_blocks(c) - 1), lastCol))]
    IN  Mcu(FlattenSeq([i \in DOMAIN s.comps |-> Of(s.comps[i])]))
RefMcus(s) ==
    LET rows == IF Interleaved(s) THEN Total_iMCU_rows ELSE Height_in_blocks(s.comps[1])
    IN  [m \in 1..rows * MCUs_per_row(s) |-> RefMcu(s, m - 1)]
RefStream ==
    <<Marker("SOI"), Marker("SOF")>>
    \o FlattenSeq([i \in DOMAIN Scans |-> <<Marker("SOS")>> \o RefMcus(Scans[i])]) \o <<Marker("EOI")>>

\* Whatever lines are given at a time and wherever the destination stops the coder, what is
\* written begins the stream the image stands for, and all of it is written when the
\* compressor is done; a comment is before the frame (jcmainct.c, jccoefct.c, jcprepct.c).
StreamRight ==
    LET plain == SelectSeq(z.out, LAMBDA t : t.kind # "COM")
    IN  z.out # <<>> =>
            /\ IF z.state = "start" THEN plain = RefStream ELSE IsPrefix(plain, RefStream)
            /\ \A i \in DOMAIN z.out : z.out[i].kind = "COM" => i = 2

\* When a scan is begun whose code is made for it, the statistics are those of all its MCUs
\* (jcmaster.c, prepare_for_pass: "DC refinement scans need no Huffman table").
StatisticsRight ==
    (z.out # <<>> /\ Optimize) =>
        \A k \in DOMAIN Scans :
            /\ Len(SelectSeq(z.out, LAMBDA t : t.kind = "SOS")) >= k
            /\ Scans[k].Ss # 0 \/ Scans[k].Ah = 0
            => z.counted[k] = RefMcus(Scans[k])
=============================================================================
