---------------------------- MODULE Decompressor ----------------------------
(***************************************************************************)
(* The output side of the JPEG library (jpeg-6b): the coefficient          *)
(* controller, which makes rows of samples of decoded blocks one iMCU row  *)
(* at a time, in lockstep with the input or from arrays of coefficients    *)
(* (jdcoefct.c); the main controller, with its two lists of pointers that  *)
(* give the upsampler rows above and below (jdmainct.c); the upsamplers    *)
(* (jdsample.c, jdmerge.c); the postprocessing controller with its whole   *)
(* image for two passes of colour quantization (jdpostct.c); and what an   *)
(* application calls (jdapistd.c, jdmaster.c), which asks for any number   *)
(* of scanlines and may find that the source has no more data for now.     *)
(*                                                                         *)
(* A sample is represented by where it comes from: a row of samples is,    *)
(* for each block column, a cell [row, scans, window]: the row of samples  *)
(* of the component, the scans its block had in it, and with smoothing     *)
(* the nine blocks that were looked at.  What is done across a row         *)
(* (upsampling, colours, quantization) is not modelled.                    *)
(***************************************************************************)
EXTENDS Integers, Sequences, SequencesExt, FiniteSets, FiniteSetsExt

CONSTANTS
    DCTSIZE,     \* lines of a block at full scale
    Pictures,    \* [width, height, comps: a sequence of [h, v], scans: a sequence of [comps, kind:
                 \*  "full", "dc" or "ac"], buffered, scale: 1 to DCTSIZE, fancy, rgb, smoothing:
                 \*  BOOLEANs, quantize: "no", "1pass" or "2pass"]
    LineCounts,  \* numbers of lines an application asks for
    Budgets      \* numbers of MCUs that can be decoded in a call before the data ends

VARIABLES
    pic,         \* the file, and what the application set
    d,           \* cinfo with its controllers
    got          \* the rows of the last call, and where they belong: [first, rows]

decompressorVars == <<pic, d, got>>

NoPicture == [width |-> 0, height |-> 0, comps |-> <<>>, scans |-> <<>>, buffered |-> FALSE, scale |-> 1,
              fancy |-> FALSE, rgb |-> FALSE, smoothing |-> FALSE, quantize |-> "no"]
DivUp(a, b) == (a + b - 1) \div b
Least(a, b) == IF a < b THEN a ELSE b
OrAll(n, all) == IF n = 0 THEN all ELSE n

Comps == DOMAIN pic.comps
MaxH == Max({pic.comps[c].h : c \in Comps})
MaxV == Max({pic.comps[c].v : c \in Comps})
V(c) == pic.comps[c].v
M == pic.scale                    \* min_DCT_scaled_size

\* jpeg_calc_output_dimensions(): a component may be scaled up by its IDCT.
ScaledSize(c) ==
    Max({s \in {M * 2^k : k \in 0..4} :
            \/ s = M
            \/ /\ s <= DCTSIZE /\ pic.comps[c].h * s <= MaxH * M /\ V(c) * s <= MaxV * M})
OutputHeight == DivUp(pic.height * M, DCTSIZE)
DownsampledWidth(c) == DivUp(pic.width * pic.comps[c].h * ScaledSize(c), MaxH * DCTSIZE)
DownsampledHeight(c) == DivUp(pic.height * V(c) * ScaledSize(c), MaxV * DCTSIZE)

\* initial_setup() and per_scan_setup().
WidthInBlocks(c)  == DivUp(pic.width * pic.comps[c].h, MaxH * DCTSIZE)
HeightInBlocks(c) == DivUp(pic.height * V(c), MaxV * DCTSIZE)
TotalRows == DivUp(pic.height, MaxV * DCTSIZE)          \* total_iMCU_rows
MultipleScans == Len(pic.scans) > 1 \/ Len(pic.scans[1].comps) < Len(pic.comps)
UseCBuffer == MultipleScans \/ pic.buffered
McusPerRow(scan) ==
    IF Len(scan.comps) = 1 THEN WidthInBlocks(scan.comps[1]) ELSE DivUp(pic.width, MaxH * DCTSIZE)
BlockRows(c, row) ==              \* block rows of an iMCU row that are not dummies
    IF row < TotalRows - 1 THEN V(c) ELSE OrAll(HeightInBlocks(c) % V(c), V(c))

-----------------------------------------------------------------------------
(* Selection of modules.                                                   *)

UseMergedUpsample ==
    /\ ~pic.fancy /\ pic.rgb /\ Len(pic.comps) = 3
    /\ pic.comps[1].h = 2 /\ V(1) <= 2
    /\ \A c \in {2, 3} : pic.comps[c].h = 1 /\ V(c) = 1
    /\ \A c \in 1..3 : ScaledSize(c) = M

\* master_selection(): only pictures of three components are quantized in two passes.
Quantizer == IF pic.quantize = "2pass" /\ Len(pic.comps) # 3 THEN "1pass" ELSE pic.quantize

RowGroup(c) == (V(c) * ScaledSize(c)) \div M             \* rowgroup_height
\* jinit_upsampler(); each component has integral factors.
Method(c) ==
    LET h == (pic.comps[c].h * ScaledSize(c)) \div M
        v == RowGroup(c)
    IN  IF h = MaxH /\ v = MaxV THEN "fullsize"
        ELSE IF /\ 2 * h = MaxH /\ 2 * v = MaxV
                /\ pic.fancy /\ M > 1 /\ DownsampledWidth(c) > 2
        THEN "h2v2_fancy"
        ELSE "box"
NeedContextRows == ~UseMergedUpsample /\ \E c \in Comps : Method(c) = "h2v2_fancy"

Garbage(c) == [k \in 0..WidthInBlocks(c) - 1 |-> [row |-> -1, scans |-> 0, window |-> <<>>]]
\* Row -1 stands for a pointer that is not set.
Workspace(c) ==
    LET groups == IF NeedContextRows THEN M + 2 ELSE M
    IN  [p \in -1..RowGroup(c) * groups - 1 |-> Garbage(c)]

-----------------------------------------------------------------------------
(* Input: what the coefficient controller is given.  x.left: the MCUs that *)
(* can still be decoded in this call.                                      *)

InScan(x) == pic.scans[x.in_scan]
McuRows(scan, row) == IF Len(scan.comps) > 1 THEN 1 ELSE BlockRows(scan.comps[1], row)
Mcus(scan, row) == McuRows(scan, row) * McusPerRow(scan)

\* The blocks of MCU n of an iMCU row, as <<component, block row within the iMCU row, column>>,
\* without the dummies.
BlocksOfMcu(scan, row, n) ==
    LET col == n % McusPerRow(scan)
        c1  == scan.comps[1]
    IN  IF Len(scan.comps) = 1 THEN {<<c1, n \div McusPerRow(scan), col>>}
        ELSE UNION {{<<c, b, col * pic.comps[c].h + k>> :
                        b \in 0..BlockRows(c, row) - 1, k \in 0..pic.comps[c].h - 1} : c \in ToSet(scan.comps)}
             \cap {<<c, b, k>> \in Comps \X (0..MaxV - 1) \X (0..pic.width) : k < WidthInBlocks(c)}

StartInputPass(x) == [x EXCEPT !.in_row = 0, !.mcu = 0, !.markers = FALSE]

\* consume_markers(), between two scans or behind the last.
ConsumeMarkers(x) ==
    IF x.eoi THEN [x EXCEPT !.ret = "eoi"]
    ELSE IF x.in_scan < Len(pic.scans) THEN StartInputPass([x EXCEPT !.in_scan = @ + 1, !.ret = "sos"])
    ELSE [x EXCEPT !.eoi = TRUE, !.ret = "eoi", !.out_scan = Least(@, x.in_scan)]

\* An iMCU row has been read.
RowRead(x) ==
    [x EXCEPT !.in_row = @ + 1, !.mcu = 0, !.markers = (x.in_row + 1 >= TotalRows), !.ret = "row"]

\* consume_data(): the next iMCU row of the scan, or what there is of it.
ConsumeData(x) ==
    LET Counted(cell) == [scans |-> cell.scans + 1,
                          dc |-> cell.dc + (IF InScan(x).kind = "ac" THEN 0 ELSE 1)]
        With(new) == [c \in Comps |-> [b \in DOMAIN x.arrays[c] |->
                        IF <<c, b[1] - x.in_row * V(c), b[2]>> \in new
                        THEN Counted(x.arrays[c][b]) ELSE x.arrays[c][b]]]
        Ended(y) == IF y.mcu < Mcus(InScan(y), y.in_row) THEN [y EXCEPT !.ret = "suspended"] ELSE RowRead(y)
        UpTo(last) ==
            Ended([x EXCEPT !.left = @ - (last - x.mcu), !.mcu = last,
                            !.arrays = With(UNION {BlocksOfMcu(InScan(x), x.in_row, n) : n \in x.mcu..last - 1})])
    IN  UpTo(Least(x.mcu + x.left, Mcus(InScan(x), x.in_row)))

ConsumeInput(x) == IF x.markers THEN ConsumeMarkers(x) ELSE ConsumeData(x)

\* Calls of consume_input while a condition holds.
ConsumeWhile(x, Wanted(_)) ==
    FoldLeft(LAMBDA y, i : IF y.ret = "suspended" \/ ~Wanted(y) THEN y ELSE ConsumeInput(y),
             [x EXCEPT !.ret = "ok"], [i \in 1..(TotalRows + 1) * Len(pic.scans) + 1 |-> i])

-----------------------------------------------------------------------------
(* Output of the coefficient controller, into the rows a list names.       *)

\* The lists of pointers to rows: main->buffer, and main->xbuffer[0] and [1].
Buffer == 2
Physical(x, list, c, i) == IF list = Buffer THEN i ELSE x.xbuffer[list][c][i]

\* The IDCT of blocks [c -> [<<block row in the iMCU row, column>> -> [scans, window]]].
Idct(x, list, blocks) ==
    [x EXCEPT !.buffer = [c \in Comps |->
        LET S == ScaledSize(c)
            Line(b, j) == Physical(x, list, c, b[1] * S + j)
        IN  [p \in DOMAIN @[c] |-> [k \in DOMAIN @[c][p] |->
                LET here == {<<b, j>> \in (DOMAIN blocks[c]) \X (0..S - 1) : b[2] = k /\ Line(b, j) = p}
                IN  IF here = {} THEN @[c][p][k]
                    ELSE LET t == CHOOSE t \in here : TRUE
                         IN  [row    |-> (x.out_row * V(c) + t[1][1]) * S + t[2],
                              scans  |-> blocks[c][t[1]].scans,
                              window |-> blocks[c][t[1]].window]]]]]

\* decompress_onepass(): an iMCU row, or what there is of it.
DecompressOnepass(x, list) ==
    LET scan == InScan(x)
        Blocks(new) == [c \in Comps |->
            [b \in {<<t[2], t[3]>> : t \in {u \in new : u[1] = c}} |-> [scans |-> 1, window |-> <<>>]]]
        Ended(z) == IF z.mcu < Mcus(scan, z.in_row) THEN [z EXCEPT !.ret = "suspended"]
                    ELSE [RowRead(z) EXCEPT !.out_row = @ + 1]
        UpTo(last) ==
            Ended([Idct(x, list, Blocks(UNION {BlocksOfMcu(scan, x.in_row, n) : n \in x.mcu..last - 1}))
                     EXCEPT !.left = @ - (last - x.mcu), !.mcu = last])
    IN  UpTo(Least(x.mcu + x.left, Mcus(scan, x.in_row)))

\* The blocks of component c in the iMCU row that is put out.
RowBlocks(x, c) == (0..BlockRows(c, x.out_row) - 1) \X (0..WidthInBlocks(c) - 1)
InArray(x, c, b) == x.arrays[c][<<b[1] + x.out_row * V(c), b[2]>>]

\* decompress_data().
DecompressData(x, list) ==
    LET Shown(y) ==
            IF y.ret = "suspended" THEN y
            ELSE [Idct(y, list, [c \in Comps |-> [b \in RowBlocks(y, c) |->
                                    [scans |-> InArray(y, c, b).scans, window |-> <<>>]]])
                    EXCEPT !.out_row = @ + 1, !.ret = "row"]
    IN  Shown(ConsumeWhile(x, LAMBDA z : \/ z.in_scan < z.out_scan
                                         \/ (z.in_scan = z.out_scan /\ z.in_row <= z.out_row)))

\* The window of decompress_smooth_data() slides over a row: DC1 to DC9, three of each of
\* the block row above, this one, and the one below.
Slide(x, c, prev, this, next, col) ==
    LET DC(r, k) == [block |-> <<r, k>>, dc |-> x.arrays[c][<<r, k>>].dc]
        first == [i \in 1..9 |-> DC(IF i <= 3 THEN prev ELSE IF i <= 6 THEN this ELSE next, 0)]
        Fetched(w, k) == IF k = WidthInBlocks(c) - 1 THEN w
                         ELSE [w EXCEPT ![3] = DC(prev, k + 1), ![6] = DC(this, k + 1), ![9] = DC(next, k + 1)]
        Advanced(w) == [i \in 1..9 |-> IF i % 3 = 0 THEN w[i] ELSE w[i + 1]]
    IN  Fetched(FoldLeft(LAMBDA w, k : Advanced(Fetched(w, k)), first, [i \in 1..col |-> i - 1]), col)

\* decompress_smooth_data(): while the scan that is shown is read, its input is kept one row
\* further if it has DC values.
DecompressSmoothData(x, list) ==
    LET Window(y, c, b) ==
            LET r == b[1] + y.out_row * V(c)
                prev == IF y.out_row = 0 /\ b[1] = 0 THEN r ELSE r - 1
                next == IF y.out_row = TotalRows - 1 /\ b[1] = BlockRows(c, y.out_row) - 1 THEN r ELSE r + 1
            IN  Slide(y, c, prev, r, next, b[2])
        Shown(y) ==
            IF y.ret = "suspended" THEN y
            ELSE [Idct(y, list, [c \in Comps |-> [b \in RowBlocks(y, c) |->
                                    [scans |-> InArray(y, c, b).scans, window |-> Window(y, c, b)]]])
                    EXCEPT !.out_row = @ + 1, !.ret = "row"]
    IN  Shown(ConsumeWhile(x, LAMBDA z :
                /\ z.in_scan <= z.out_scan /\ ~z.eoi
                /\ ~(z.in_scan = z.out_scan /\ z.in_row > z.out_row + (IF InScan(z).kind = "ac" THEN 0 ELSE 1))))

Decompress(x, list) ==
    IF ~UseCBuffer THEN DecompressOnepass(x, list)
    ELSE IF x.smooth THEN DecompressSmoothData(x, list) ELSE DecompressData(x, list)

\* smoothing_ok(): of a progressive file with DC values of all components, and AC values that
\* one of them has not got.  Quantization tables are taken to be there and without zeros.
SmoothingOk(x) ==
    LET Begun(kind) == UNION {ToSet(pic.scans[s].comps) : s \in {t \in 1..x.in_scan : pic.scans[t].kind = kind}}
    IN  pic.scans[1].kind # "full" /\ Begun("dc") = Comps /\ Begun("ac") # Comps

-----------------------------------------------------------------------------
(* Upsampling.  x.rows: the rows that were converted.                      *)

RowAt(x, list, c, i) == x.buffer[c][Physical(x, list, c, i)]

\* A row between two: its neighbour is the one above for the upper, below for the lower.
Fancy(In(_), r) == [near |-> In(r \div 2), far |-> In(IF r % 2 = 0 THEN (r \div 2) - 1 ELSE (r \div 2) + 1)]

\* One row group of a component, in the conversion buffer: for a component of full size, a
\* pointer into the list.
Upsampled(x, list, c) ==
    LET base == x.rowgroup_ctr * RowGroup(c)
        In(i) == RowAt(x, list, c, base + i)
        expand == MaxV \div RowGroup(c)
    IN  CASE Method(c) = "fullsize"   -> [list |-> list, base |-> base]
          [] Method(c) = "box"        -> [r \in 0..MaxV - 1 |-> [near |-> In(r \div expand), far |-> In(r \div expand)]]
          [] Method(c) = "h2v2_fancy" -> [r \in 0..MaxV - 1 |-> Fancy(In, r)]

Converted(x, c, r) ==
    LET b == x.color_buf[c]
        row == RowAt(x, b.list, c, b.base + r)
    IN  IF Method(c) = "fullsize" THEN [near |-> row, far |-> row] ELSE b[r]

\* sep_upsample(), with room for some rows.
SepUpsample(x, list, room) ==
    LET Convert(y, n) ==
            [y EXCEPT !.rows = [k \in 1..n |-> [c \in Comps |-> Converted(y, c, y.next_row_out + k - 1)]],
                      !.rows_to_go = @ - n, !.next_row_out = @ + n,
                      !.rowgroup_ctr = IF y.next_row_out + n >= MaxV THEN @ + 1 ELSE @]
        Upsamples(y) == Convert(y, Min({MaxV - y.next_row_out, y.rows_to_go, room}))
    IN  Upsamples(IF x.next_row_out < MaxV THEN x
                  ELSE [x EXCEPT !.color_buf = [c \in Comps |-> Upsampled(x, list, c)], !.next_row_out = 0])

\* merged_2v_upsample() and merged_1v_upsample().
MergedRow(x, list, r) ==
    [c \in Comps |-> LET i == IF c = 1 THEN V(1) * x.rowgroup_ctr + r ELSE x.rowgroup_ctr
                     IN  [near |-> RowAt(x, list, c, i), far |-> RowAt(x, list, c, i)]]
MergedUpsample(x, list, room) ==
    LET n == Min({2, x.rows_to_go, room})
    IN  IF MaxV = 1
        THEN [x EXCEPT !.rows = <<MergedRow(x, list, 0)>>, !.rowgroup_ctr = @ + 1]
        ELSE IF x.spare # <<>>
        THEN [x EXCEPT !.rows = x.spare, !.spare = <<>>, !.rows_to_go = @ - 1, !.rowgroup_ctr = @ + 1]
        ELSE LET pair == <<MergedRow(x, list, 0), MergedRow(x, list, 1)>>
             IN  [x EXCEPT !.rows = SubSeq(pair, 1, n), !.rows_to_go = @ - n,
                           !.spare = IF n > 1 THEN <<>> ELSE <<pair[2]>>,
                           !.rowgroup_ctr = IF n > 1 THEN @ + 1 ELSE @]

Upsample(x, list, room) ==
    IF UseMergedUpsample THEN MergedUpsample(x, list, room) ELSE SepUpsample(x, list, room)

-----------------------------------------------------------------------------
(* Postprocessing.  x.out: rows given to the application in this call;     *)
(* x.out_ctr and x.out_avail: *out_row_ctr and out_rows_avail.             *)

StripHeight == MaxV
Emit(x, rows) == [x EXCEPT !.out = @ \o rows, !.out_ctr = @ + Len(rows)]

\* Advance if the strip is full.
NextStrip(x, n) ==
    IF x.next_row + n >= StripHeight
    THEN [x EXCEPT !.starting_row = @ + StripHeight, !.next_row = 0]
    ELSE [x EXCEPT !.next_row = @ + n]

\* post_process_prepass(): the rows go into the whole image, and only count.
PostProcessPrepass(x) ==
    LET at == x.starting_row + x.next_row
        Keep(n) ==
            NextStrip([x EXCEPT !.whole_image = [r \in DOMAIN @ |-> IF r \in at..at + n - 1 THEN x.rows[r - at + 1] ELSE @[r]],
                                !.out_ctr = @ + n], n)
    IN  Keep(Len(x.rows))

\* post_process_2pass().
PostProcess2pass(x) ==
    LET n == Min({StripHeight - x.next_row, x.out_avail - x.out_ctr, OutputHeight - x.starting_row})
        at == x.starting_row + x.next_row
    IN  NextStrip(Emit(x, [k \in 1..n |-> x.whole_image[at + k - 1]]), n)

\* post_process_data, as start_pass_dpost() sets it.
PostProcess(x, list) ==
    LET room == x.out_avail - x.out_ctr
        Taken(y) == IF y.is_dummy_pass THEN PostProcessPrepass(y) ELSE Emit(y, y.rows)
    IN  Taken(Upsample(x, list, IF x.is_dummy_pass THEN StripHeight - x.next_row
                                ELSE IF pic.quantize = "no" THEN room ELSE Least(room, StripHeight)))

-----------------------------------------------------------------------------
(* The main controller.                                                    *)

Groups(c, from, to) == from * RowGroup(c)..to * RowGroup(c) - 1

\* make_funny_pointers(): row groups M - 2 to M + 1 are swapped in the second list; above the
\* first list is its first row.
MakeFunnyPointers(x) ==
    [x EXCEPT !.xbuffer = [list \in {0, 1} |-> [c \in Comps |-> [i \in Groups(c, -1, M + 3) |->
        LET g == 2 * RowGroup(c)
        IN  IF i < 0 THEN (IF list = 0 THEN 0 ELSE -1)
            ELSE IF i >= RowGroup(c) * (M + 2) THEN -1
            ELSE IF list = 0 \/ i \notin Groups(c, M - 2, M + 2) THEN i
            ELSE IF i < RowGroup(c) * M THEN i + g ELSE i - g]]]]

SetWraparoundPointers(x) ==
    [x EXCEPT !.xbuffer = [list \in {0, 1} |-> [c \in Comps |-> [i \in DOMAIN @[list][c] |->
        LET all == RowGroup(c) * (M + 2)
        IN  IF i < 0 THEN @[list][c][i + all] ELSE IF i >= all THEN @[list][c][i - all] ELSE @[list][c][i]]]]]

\* Mutant of SetBottomPointers: the row group below is not made.
SetBottomShort(x) ==
    LET Height(c) == V(c) * ScaledSize(c)
        Left(c)   == OrAll(DownsampledHeight(c) % Height(c), Height(c))
    IN  [x EXCEPT !.rowgroups_avail = ((Left(1) - 1) \div RowGroup(1)) + 1,
                  !.xbuffer[x.whichptr] = [c \in Comps |-> [i \in DOMAIN @[c] |->
                        IF i \in Left(c)..Left(c) + RowGroup(c) - 1 /\ i % RowGroup(c) # 0
                        THEN @[c][Left(c) - 1] ELSE @[c][i]]]]

\* set_bottom_pointers(): the last row of samples is repeated for two row groups, and the
\* groups are counted with the first component.
SetBottomPointers(x) ==
    LET Height(c) == V(c) * ScaledSize(c)
        Left(c)   == OrAll(DownsampledHeight(c) % Height(c), Height(c))
    IN  [x EXCEPT !.rowgroups_avail = ((Left(1) - 1) \div RowGroup(1)) + 1,
                  !.xbuffer[x.whichptr] = [c \in Comps |-> [i \in DOMAIN @[c] |->
                        IF i \in Left(c)..Left(c) + 2 * RowGroup(c) - 1 THEN @[c][Left(c) - 1] ELSE @[c][i]]]]

\* process_data_simple_main() and process_data_context_main(), once an iMCU row is in the
\* buffer; ProcessData gets it.
ProcessDataSimple(x) ==
    LET Processed(y) ==
            IF y.rowgroup_ctr >= M THEN [y EXCEPT !.buffer_full = FALSE, !.rowgroup_ctr = 0] ELSE y
    IN  Processed(PostProcess([x EXCEPT !.buffer_full = TRUE], Buffer))

\* The cases of the latter, each of which may fall through to the next; the
\* first returns too when the application has no more room.
ProcessImcu(x) ==
    LET Wrapped(y) == IF y.iMCU_row_ctr = 1 THEN SetWraparoundPointers(y) ELSE y
        Processed(y) ==
            IF y.rowgroup_ctr < y.rowgroups_avail THEN y
            ELSE [Wrapped(y) EXCEPT !.whichptr = 1 - @, !.buffer_full = FALSE, !.rowgroup_ctr = M + 1,
                                    !.rowgroups_avail = M + 2, !.context_state = "POSTPONED_ROW"]
    IN  Processed(PostProcess(x, x.whichptr))
PrepareForImcu(x) ==
    LET Bottom(y) == IF x.iMCU_row_ctr = TotalRows THEN SetBottomPointers(y) ELSE y
    IN  Bottom([x EXCEPT !.rowgroup_ctr = 0, !.rowgroups_avail = M - 1, !.context_state = "PROCESS_IMCU"])
PostponedRow(x) ==
    LET Processed(y) == IF y.rowgroup_ctr < y.rowgroups_avail THEN y
                        ELSE [y EXCEPT !.context_state = "PREPARE_FOR_IMCU"]
    IN  Processed(PostProcess(x, x.whichptr))
ProcessDataContext(x) ==
    LET In(y, state) == y.context_state = state
        Third(y)  == IF In(y, "PROCESS_IMCU") THEN ProcessImcu(y) ELSE y
        Second(y) == IF In(y, "PREPARE_FOR_IMCU") /\ (In(x, "PREPARE_FOR_IMCU") \/ y.out_ctr < y.out_avail)
                     THEN PrepareForImcu(y) ELSE y
        First(y)  == IF In(y, "POSTPONED_ROW") THEN PostponedRow(y) ELSE y
        Filled(y) == IF y.buffer_full THEN y ELSE [y EXCEPT !.buffer_full = TRUE, !.iMCU_row_ctr = @ + 1]
    IN  Third(Second(First(Filled(x))))

\* The process_data of the main controller: an iMCU row is decompressed when there is none.
ProcessData(x) ==
    LET Filled(y) == IF y.ret = "suspended" THEN y
                     ELSE IF NeedContextRows THEN ProcessDataContext(y) ELSE ProcessDataSimple(y)
    IN  IF x.crank THEN PostProcess2pass(x)
        ELSE Filled(IF x.buffer_full THEN x
                    ELSE Decompress(x, IF NeedContextRows THEN x.whichptr ELSE Buffer))

-----------------------------------------------------------------------------
(* What an application calls.                                              *)

\* prepare_for_output_pass(), with the start_pass of the modules.
PrepareForOutputPass(x) ==
    LET first == Quantizer = "2pass" /\ ~x.colormap
        Pointers(y) == IF NeedContextRows THEN MakeFunnyPointers(y) ELSE y
        Begun == [x EXCEPT !.is_dummy_pass = first, !.crank = FALSE, !.out_row = 0,
                           !.smooth = UseCBuffer /\ pic.smoothing /\ SmoothingOk(x),
                           !.next_row_out = MaxV, !.rows_to_go = OutputHeight, !.spare = <<>>,
                           !.starting_row = 0, !.next_row = 0, !.buffer_full = FALSE, !.rowgroup_ctr = 0,
                           !.whichptr = 0, !.context_state = "PREPARE_FOR_IMCU", !.iMCU_row_ctr = 0,
                           !.colormap = @ \/ Quantizer = "1pass"]
    IN  IF x.is_dummy_pass
        THEN [x EXCEPT !.is_dummy_pass = FALSE, !.crank = TRUE, !.starting_row = 0, !.next_row = 0]
        ELSE Pointers(Begun)

\* output_pass_setup(): a dummy pass is cranked until it is done or makes no progress.
OutputPassSetup(x) ==
    LET Moved(p, from) == [p EXCEPT !.scanline = p.out_ctr, !.stuck = (p.out_ctr = from)]
        Turn(z) == IF z.stuck \/ z.scanline >= OutputHeight THEN z
                   ELSE Moved(ProcessData([z EXCEPT !.out_ctr = z.scanline, !.out_avail = 0]), z.scanline)
        Cranked(t) ==
            IF t.scanline < OutputHeight THEN t
            ELSE [PrepareForOutputPass([t EXCEPT !.colormap = TRUE]) EXCEPT !.scanline = 0, !.state = "SCANNING"]
        Begun(y) == IF ~y.is_dummy_pass THEN [y EXCEPT !.state = "SCANNING"]
                    ELSE Cranked(FoldLeft(LAMBDA z, i : Turn(z), [y EXCEPT !.stuck = FALSE],
                                          [i \in 1..2 * OutputHeight + 2 |-> i]))
    IN  Begun(IF x.state = "PRESCAN" THEN x
              ELSE [PrepareForOutputPass(x) EXCEPT !.scanline = 0, !.state = "PRESCAN"])

\* jpeg_start_decompress().
StartDecompressing(x) ==
    LET Read(z) == IF z.ret = "suspended" THEN z
                   ELSE OutputPassSetup(IF z.state = "PRELOAD" THEN [z EXCEPT !.out_scan = z.in_scan] ELSE z)
        Go(y) == IF y.state = "BUFIMAGE" THEN y
                 ELSE Read(IF y.state = "PRELOAD" /\ MultipleScans THEN ConsumeWhile(y, LAMBDA t : ~t.eoi)
                           ELSE [y EXCEPT !.ret = "ok"])
    IN  Go(IF x.state = "READY" THEN [x EXCEPT !.state = IF pic.buffered THEN "BUFIMAGE" ELSE "PRELOAD"] ELSE x)

\* Calls begin with a number of MCUs there.
Given(n) == [d EXCEPT !.left = n, !.out = <<>>, !.out_ctr = 0, !.ret = "ok"]
Idle(x) == [x EXCEPT !.left = 0, !.out = <<>>, !.out_ctr = 0, !.out_avail = 0, !.rows = <<>>, !.ret = "ok"]
Nothing == [first |-> 0, rows |-> <<>>]

Created ==
    [state |-> "READY", in_scan |-> 1, in_row |-> 0, mcu |-> 0, markers |-> FALSE, eoi |-> FALSE,
     left |-> 0, ret |-> "ok", out_scan |-> 0, out_row |-> 0, smooth |-> FALSE,
     arrays |-> [c \in Comps |-> [b \in (0..DivUp(HeightInBlocks(c), V(c)) * V(c) - 1) \X (0..WidthInBlocks(c) - 1) |->
                                    [scans |-> 0, dc |-> 0]]],
     buffer |-> [c \in Comps |-> Workspace(c)], xbuffer |-> <<>>, whichptr |-> 0, buffer_full |-> FALSE,
     rowgroup_ctr |-> 0, rowgroups_avail |-> 0, context_state |-> "PREPARE_FOR_IMCU", iMCU_row_ctr |-> 0,
     color_buf |-> [c \in Comps |-> [list |-> Buffer, base |-> 0]], next_row_out |-> 0, rows_to_go |-> 0, spare |-> <<>>, rows |-> <<>>,
     whole_image |-> [r \in 0..DivUp(OutputHeight, StripHeight) * StripHeight - 1 |->
                        [c \in Comps |-> [near |-> Garbage(c), far |-> Garbage(c)]]],
     starting_row |-> 0, next_row |-> 0, is_dummy_pass |-> FALSE, crank |-> FALSE, colormap |-> FALSE,
     out |-> <<>>, out_ctr |-> 0, out_avail |-> 0, scanline |-> 0, stuck |-> FALSE]

\* jpeg_read_header() has been called.
DecompressorInit == pic \in Pictures /\ d = Created /\ got = Nothing

StartDecompress ==
    /\ d.state \in {"READY", "PRELOAD"} \/ (d.state = "PRESCAN" /\ ~pic.buffered)
    /\ \E n \in Budgets : d' = Idle(StartDecompressing(Given(n)))
    /\ got' = Nothing
    /\ UNCHANGED pic

\* jpeg_read_scanlines().
ReadScanlines ==
    /\ d.state = "SCANNING" /\ d.scanline < OutputHeight
    /\ \E lines \in LineCounts, n \in Budgets :
        \E x \in {ProcessData([Given(n) EXCEPT !.out_avail = lines])} :
            /\ d' = Idle([x EXCEPT !.scanline = @ + Len(x.out)])
            /\ got' = [first |-> d.scanline, rows |-> x.out]
    /\ UNCHANGED pic

\* Buffered-image mode: jpeg_start_output(), of a scan that may not have begun, and maybe does
\* not exist; called again for the same scan when the data ended.
StartOutput ==
    /\ pic.buffered /\ d.state \in {"BUFIMAGE", "PRESCAN"}
    /\ \E scan \in (IF d.state = "PRESCAN" THEN {d.out_scan} ELSE 1..Len(pic.scans) + 1), n \in Budgets :
        LET target == IF d.eoi THEN Least(scan, d.in_scan) ELSE scan
        IN  d' = Idle(OutputPassSetup([Given(n) EXCEPT !.out_scan = target]))
    /\ got' = Nothing
    /\ UNCHANGED pic

\* jpeg_finish_output(): the input is read up to the scan behind the one that was shown.
FinishOutput ==
    /\ pic.buffered /\ d.state \in {"SCANNING", "BUFPOST"}
    /\ \E n \in Budgets :
        LET Read(x) == IF x.ret = "suspended" THEN x ELSE [x EXCEPT !.state = "BUFIMAGE"]
        IN  d' = Idle(Read(ConsumeWhile([Given(n) EXCEPT !.state = "BUFPOST"],
                                        LAMBDA y : y.in_scan <= y.out_scan /\ ~y.eoi)))
    /\ got' = Nothing
    /\ UNCHANGED pic

\* jpeg_consume_input(), by which an application reads ahead.
ReadAhead ==
    /\ pic.buffered /\ d.state \in {"BUFIMAGE", "SCANNING", "BUFPOST"} /\ ~d.eoi
    /\ \E n \in Budgets \ {0} : d' = Idle(ConsumeInput(Given(n)))
    /\ got' = Nothing
    /\ UNCHANGED pic

DecompressorNext == StartDecompress \/ ReadScanlines \/ StartOutput \/ FinishOutput \/ ReadAhead
DecompressorSpec == DecompressorInit /\ [][DecompressorNext]_decompressorVars

-----------------------------------------------------------------------------

\* The row of samples of component c that scanline r shows.
NearRow(c, r) == r \div (MaxV \div RowGroup(c))
\* The next nearest row, inside the picture.
FarRow(c, r) ==
    IF UseMergedUpsample \/ Method(c) # "h2v2_fancy" THEN NearRow(c, r)
    ELSE Max({0, Min({DownsampledHeight(c) - 1, NearRow(c, r) + (IF r % 2 = 0 THEN -1 ELSE 1)})})

ScansWith(c, kinds, upto) == Cardinality({s \in 1..upto : s <= Len(pic.scans) /\ c \in ToSet(pic.scans[s].comps) /\ pic.scans[s].kind \in kinds})

\* Each scanline is made of the rows of samples that belong to it, in all columns, with the
\* rows above and below for the triangle filter, repeated only at the edges of the picture;
\* whatever the numbers of lines the application asked for, wherever the data ended for a
\* while, in lockstep or from the arrays, in one pass or in several.
RowsRight ==
    \A i \in DOMAIN got.rows : \A c \in Comps : \A k \in 0..WidthInBlocks(c) - 1 :
        /\ got.rows[i][c].near[k].row = NearRow(c, got.first + i - 1)
        /\ got.rows[i][c].far[k].row = FarRow(c, got.first + i - 1)

\* What is shown of a scan has the data of that scan and those before, also where it is shown
\* while it is read; and with smoothing, the DC values around each block are those of its
\* neighbours, as of that scan.
ScansShown ==
    \A i \in DOMAIN got.rows : \A c \in Comps : \A k \in 0..WidthInBlocks(c) - 1 :
        LET cell == got.rows[i][c].near[k]
            b    == cell.row \div ScaledSize(c)
            Clamp(n, top) == Max({0, Min({n, top})})
        IN  /\ cell.scans >= ScansWith(c, {"full", "dc", "ac"}, d.out_scan)
            /\ \A j \in DOMAIN cell.window :
                /\ cell.window[j].block = <<Clamp(b + ((j - 1) \div 3) - 1, HeightInBlocks(c) - 1),
                                            Clamp(k + ((j - 1) % 3) - 1, WidthInBlocks(c) - 1)>>
                /\ cell.window[j].dc >= ScansWith(c, {"full", "dc"}, d.out_scan)

\* No more lines come than the picture has.
RowsInPicture == got.first + Len(got.rows) <= OutputHeight
=============================================================================
