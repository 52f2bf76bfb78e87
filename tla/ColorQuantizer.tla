--------------------------- MODULE ColorQuantizer ---------------------------
(***************************************************************************)
(* Colour quantization of a decompressor's output (jpeg-6b: jquant1.c,     *)
(* jquant2.c and the parts of jdmaster.c that choose between them).        *)
(*                                                                         *)
(* The one-pass quantizer maps each component on its own to an orthogonal  *)
(* colormap.  The two-pass quantizer counts the picture's colours in a     *)
(* histogram, cuts the space into boxes and takes a colour from each; then *)
(* the same cells are a cache of the entries nearest to them, 0 for cells  *)
(* not looked up yet, filled one update box at a time.  It maps to         *)
(* colormaps of the application too, which may change between the passes   *)
(* of a buffered image, as may the dithering.                              *)
(*                                                                         *)
(* A colour is a triple of samples.  The code's sizes are constants here.  *)
(***************************************************************************)
EXTENDS Integers, Sequences, SequencesExt, FiniteSetsExt

CONSTANTS
    Samples,      \* values of a sample, MAXJSAMPLE + 1: 256 in the code
    HistElems,    \* HIST_C0_ELEMS and so on, cells along each axis: <<32, 64, 32>>
    BoxElems,     \* BOX_C0_ELEMS and so on, cells of an update box along each axis: <<4, 8, 4>>
    CountLimit,   \* greatest count of a cell: 2^16 - 1
    Dithers,      \* base_dither_matrix: a function of <<row, column>>, 16 x 16
    FewestColors, \* least desired_number_of_colors of the two-pass quantizer: 8
    Wanted,       \* what applications set desired_number_of_colors to
    EnableSets,   \* methods that an application of a buffered image enables: sets of them
    Maps,         \* colormaps of the application: sequences of colours
    Pictures,     \* what output passes show: sequences of rows of colours, all of one width
    MaxPasses     \* bound: output passes

VARIABLES
    app,     \* cinfo's fields that the application sets: [buffered, two_pass, dither, map,
             \* desired, enabled: the methods with an enable flag]
    master,  \* [quantizer: "none", "1pass", "2pass", "error" after an error exit;
             \* dummy: is_dummy_pass; passes: how many began]
    one,     \* the one-pass quantizer: [ncolors, map, padded, row_index]
    two,     \* the two-pass quantizer: [cells, needs_zeroed, map, boxes]
    fs,      \* Floyd-Steinberg: [errors: of columns 0..width+1, odd: on_odd_row]
    pass,    \* [on: BOOLEAN, prescan, picture, row: rows done]
    shown    \* the last row mapped: [seen: colours looked up, index, before: fs]

quantVars == <<app, master, one, two, fs, pass, shown>>

-----------------------------------------------------------------------------
(* Colours and cells.                                                      *)

MAXJSAMPLE == Samples - 1
Axes == 1..3
Scale == <<2, 3, 1>>
Colours == [Axes -> 0..MAXJSAMPLE]
\* 1 << C0_SHIFT and so on: the samples of a cell along an axis.
CellSize(i) == Samples \div HistElems[i]
Cells == {c \in Colours : \A i \in Axes : c[i] < HistElems[i]}
CellOf(colour) == [i \in Axes |-> colour[i] \div CellSize(i)]
Centre(cell) == [i \in Axes |-> cell[i] * CellSize(i) + CellSize(i) \div 2]
Sum3(t) == t[1] + t[2] + t[3]
Triple(f) == <<f[1], f[2], f[3]>>
Square(n) == n * n
Clamp(n) == Max({0, Min({n, MAXJSAMPLE})})
Desired == app.desired
MAXNUMCOLORS == MAXJSAMPLE + 1
Distance(a, b) == Sum3([i \in Axes |-> Square((a[i] - b[i]) * Scale[i])])

DitherSide == Cardinality({p[1] : p \in DOMAIN Dithers})
Methods == {"1pass", "2pass", "external"}

\* Samples fall into cells, colormaps and rows are not empty, and the matrix is a square.
ASSUME QuantAssumption ==
    /\ Samples \in Nat \ {0} /\ CountLimit \in Nat \ {0} /\ FewestColors \in Nat \ {0}
    /\ \A i \in Axes : /\ HistElems[i] \in Nat \ {0} /\ BoxElems[i] \in Nat \ {0}
                       /\ Samples % HistElems[i] = 0
    /\ DitherSide \in Nat \ {0}
    /\ Dithers \in [(0..(DitherSide - 1)) \X (0..(DitherSide - 1)) -> Int]
    /\ Wanted \subseteq Int /\ EnableSets \subseteq SUBSET Methods
    /\ \A map \in Maps : map \in Seq(Colours) /\ map # <<>>
    /\ \A picture \in Pictures :
          /\ picture \in Seq(Seq(Colours)) /\ picture # <<>> /\ picture[1] # <<>>
          /\ \A k \in DOMAIN picture : Len(picture[k]) = Len(picture[1])

-----------------------------------------------------------------------------
(* Boxes: [lo, hi] of cells.                                               *)

UsedIn(cells, b) == {c \in Cells : cells[c] # 0 /\ \A i \in Axes : b.lo[i] <= c[i] /\ c[i] <= b.hi[i]}
\* update_box(): shrunk to the cells in use.
Update_box(cells, b) ==
    LET used == UsedIn(cells, b)
    IN  [lo |-> Triple([i \in Axes |-> Min({c[i] : c \in used})]),
         hi |-> Triple([i \in Axes |-> Max({c[i] : c \in used})])]
Extent(b, i) == (b.hi[i] - b.lo[i]) * CellSize(i) * Scale[i]
Volume(b) == Sum3([i \in Axes |-> Square(Extent(b, i))])

\* The first of the boxes with the greatest measure, of those that can be split; 0 if none can.
Biggest(boxes, measure) ==
    LET can == {k \in DOMAIN boxes : Volume(boxes[k]) > 0}
    IN  IF can = {} THEN 0 ELSE Min({k \in can : \A j \in can : measure[k] >= measure[j]})
\* Green wins ties, then red.
LongestAxis(b) ==
    LET n == IF Extent(b, 1) > Extent(b, 2) THEN 1 ELSE 2
    IN  IF Extent(b, 3) > Extent(b, n) THEN 3 ELSE n

Middle(b) == (b.hi[LongestAxis(b)] + b.lo[LongestAxis(b)]) \div 2
Lower(b) == [b EXCEPT !.hi[LongestAxis(b)] = Middle(b)]
Upper(b) == [b EXCEPT !.lo[LongestAxis(b)] = Middle(b) + 1]

\* A turn of median_cut(): half of the colours go by population.
Median_cut(boxes, turn) ==
    LET byCount == Len(boxes) * 2 <= Desired
        k == Biggest(boxes, [j \in DOMAIN boxes |-> IF byCount THEN Cardinality(UsedIn(two.cells, boxes[j]))
                                                   ELSE Volume(boxes[j])])
    IN  IF Len(boxes) >= Desired \/ k = 0 THEN boxes
        ELSE Append([boxes EXCEPT ![k] = Update_box(two.cells, Lower(@))], Update_box(two.cells, Upper(boxes[k])))

\* The mean over the pixels of a box.
Compute_color(cells, b) ==
    LET used  == UsedIn(cells, b)
        total == SumFunctionOnSet(cells, used)
    IN  [i \in Axes |-> (SumFunctionOnSet([c \in used |-> Centre(c)[i] * cells[c]], used) + total \div 2) \div total]
WholeBox == [lo |-> [i \in Axes |-> 0], hi |-> [i \in Axes |-> HistElems[i] - 1]]
Turns == [turn \in 1..Desired |-> turn]
Select_boxes == FoldLeft(Median_cut, <<Update_box(two.cells, WholeBox)>>, Turns)

-----------------------------------------------------------------------------
(* The inverse colormap.                                                   *)

\* The cells of the update box a cell is in, and the centres of its extreme cells.
BoxOf(cell) == [i \in Axes |-> cell[i] \div BoxElems[i]]
MinC(box) == [i \in Axes |-> box[i] * BoxElems[i] * CellSize(i) + CellSize(i) \div 2]
MaxC(box) == [i \in Axes |-> MinC(box)[i] + (BoxElems[i] - 1) * CellSize(i)]

\* Along an axis: the least and the greatest distance of sample x to the box.
Nearest1(x, lo, hi, s)  == IF x < lo THEN Square((x - lo) * s) ELSE IF x > hi THEN Square((x - hi) * s) ELSE 0
Farthest1(x, lo, hi, s) == IF x <= (lo + hi) \div 2 THEN Square((x - hi) * s) ELSE Square((x - lo) * s)
MinDist(colour, box) == Sum3([i \in Axes |-> Nearest1(colour[i], MinC(box)[i], MaxC(box)[i], Scale[i])])
MaxDist(colour, box) == Sum3([i \in Axes |-> Farthest1(colour[i], MinC(box)[i], MaxC(box)[i], Scale[i])])

Find_nearby_colors(map, box) ==
    LET minmaxdist == Min({MaxDist(map[k], box) : k \in DOMAIN map})
    IN  {k \in DOMAIN map : MinDist(map[k], box) <= minmaxdist}
Find_best_color(map, list, cell) ==
    Min({k \in list : \A j \in list : Distance(map[k], Centre(cell)) <= Distance(map[j], Centre(cell))})
\* A cell holds the entry's index plus one; the entries here count from 1.
Fill_inverse_cmap(cells, map, visited) ==
    LET boxes == {BoxOf(c) : c \in {v \in visited : cells[v] = 0}}
        list  == [b \in boxes |-> Find_nearby_colors(map, b)]
    IN  [c \in Cells |-> IF BoxOf(c) \in boxes THEN Find_best_color(map, list[BoxOf(c)], c) ELSE cells[c]]

-----------------------------------------------------------------------------
(* The one-pass quantizer.                                                 *)

\* select_ncolors(): the integral root, then one count after the other is raised, green first, until
\* one does not fit; a pass that raised one is followed by another.
Root == Max({1} \cup {r \in 1..Desired : r * r * r <= Desired})
Product(t) == t[1] * t[2] * t[3]
RgbOrder == <<2, 1, 3>>
Raised(t, k) == [t EXCEPT ![RgbOrder[k]] = @ + 1]
Fits(t) == Product(t) <= Desired
Raise_pass(n, turn) ==
    LET a == Raised(n, 1)
        b == Raised(a, 2)
        c == Raised(b, 3)
    IN  IF ~Fits(a) THEN n ELSE IF ~Fits(b) THEN a ELSE IF ~Fits(c) THEN b ELSE c
Select_ncolors == FoldLeft(Raise_pass, <<Root, Root, Root>>, Turns)

Output_value(j, maxj) == (j * MAXJSAMPLE + maxj \div 2) \div maxj
Largest_input_value(j, maxj) == ((2 * j + 1) * MAXJSAMPLE + maxj) \div (2 * maxj)
\* The colours in row-major order, the last component changing fastest.
Create_colormap(n) ==
    [k \in 1..Product(n) |->
        LET j == <<((k - 1) \div n[3]) \div n[2], ((k - 1) \div n[3]) % n[2], (k - 1) % n[3]>>
        IN  [i \in Axes |-> Output_value(j[i], n[i] - 1)]]
\* The number of the value for sample x of component i; the padding of the table has the
\* values of its ends.
Value(n, i, x) ==
    Min({j \in 0..(n[i] - 1) : Clamp(x) <= Largest_input_value(j, n[i] - 1)})
Colorindex(n, seen) ==
    1 + (Value(n, 1, seen[1]) * n[2] + Value(n, 2, seen[2])) * n[3] + Value(n, 3, seen[3])

DitherCells == DitherSide * DitherSide
\* Rounded towards zero.
Odither(n, i, row, col) ==
    LET num == (DitherCells - 1 - 2 * Dithers[<<row % DitherSide, col % DitherSide>>]) * MAXJSAMPLE
        den == 2 * DitherCells * (n[i] - 1)
    IN  IF num < 0 THEN -((-num) \div den) ELSE num \div den

-----------------------------------------------------------------------------
(* The decompressor.                                                       *)

NoMap == <<>>
Zero3 == [i \in Axes |-> 0]
NoFs(width) == [errors |-> [c \in 0..(width + 1) |-> Zero3], odd |-> FALSE]
NoPass == [on |-> FALSE, prescan |-> FALSE, picture |-> <<>>, row |-> 0]
NoRow == [seen |-> <<>>, index |-> <<>>, before |-> NoFs(0)]
NoCells == [c \in Cells |-> 0]

QuantStart(desired) ==
    /\ app = [buffered |-> FALSE, two_pass |-> FALSE, dither |-> "NONE", map |-> NoMap,
              desired |-> desired, enabled |-> {}]
    /\ master = [quantizer |-> "none", dummy |-> FALSE, passes |-> 0]
    /\ one = [ncolors |-> [i \in Axes |-> 1], map |-> NoMap, padded |-> FALSE, row_index |-> 0]
    /\ two = [cells |-> NoCells, needs_zeroed |-> TRUE, map |-> NoMap, boxes |-> <<>>]
    /\ fs = NoFs(0) /\ pass = NoPass /\ shown = NoRow

QuantInit == \E desired \in Wanted : QuantStart(desired)

\* Only these two ways of dithering are known to the two-pass quantizer.
TwoPassDither(dither) == IF dither = "NONE" THEN "NONE" ELSE "FS"

Fails == master' = [master EXCEPT !.quantizer = "error"]

Jinit_1pass(a) == [one EXCEPT !.ncolors = Select_ncolors, !.map = Create_colormap(Select_ncolors),
                              !.padded = (a.dither = "ORDERED")]
Method(a) == IF a.map # NoMap THEN "external" ELSE IF a.two_pass THEN "2pass" ELSE "1pass"
Refuses1pass == Desired > MAXJSAMPLE + 1 \/ Root < 2
Refuses2pass == Desired < FewestColors \/ Desired > MAXNUMCOLORS
\* master_selection(): the quantizers that may be needed are made, the two-pass one is active.
\* Only a buffered image has methods enabled by the application.
Start_decompress(a) ==
    /\ master.quantizer = "none"
    /\ LET enabled == (IF a.buffered THEN a.enabled ELSE {}) \cup {Method(a)}
           makes1  == "1pass" \in enabled
           makes2  == enabled \cap {"2pass", "external"} # {}
           refused == (makes1 /\ Refuses1pass) \/ ("2pass" \in enabled /\ Refuses2pass)
           began   == [a EXCEPT !.enabled = enabled,
                                !.dither = IF makes2 THEN TwoPassDither(@) ELSE @]
       IN  IF refused THEN Fails /\ UNCHANGED <<app, one>>
           ELSE /\ one' = IF makes1 THEN Jinit_1pass(a) ELSE one
                /\ app' = began
                /\ master' = [master EXCEPT !.quantizer = IF makes2 THEN "2pass" ELSE "1pass"]
    /\ UNCHANGED <<two, fs, pass, shown>>

\* start_pass_1_quant(): installs its colormap.
Start_pass_1(picture) ==
    /\ app' = [app EXCEPT !.map = one.map]
    /\ one' = [one EXCEPT !.row_index = 0, !.padded = @ \/ app.dither = "ORDERED"]
    /\ fs' = IF app.dither = "FS" THEN NoFs(Len(picture[1])) ELSE fs
    /\ UNCHANGED two
\* start_pass_2_quant().
Start_pass_2(picture, prescan) ==
    /\ app' = [app EXCEPT !.dither = TwoPassDither(@)]
    /\ fs' = IF ~prescan /\ app'.dither = "FS" THEN NoFs(Len(picture[1])) ELSE fs
    /\ two' = IF prescan \/ two.needs_zeroed THEN [two EXCEPT !.cells = NoCells, !.needs_zeroed = FALSE]
              ELSE two
    /\ UNCHANGED one

Idle == master.quantizer \in {"1pass", "2pass"} /\ ~pass.on /\ ~master.dummy

\* prepare_for_output_pass() for a pass that is not the second of two.
Begin_pass(picture) ==
    /\ Idle /\ master.passes < (IF app.buffered THEN MaxPasses ELSE 1)
    /\ LET picks2 == app.map = NoMap /\ app.two_pass /\ "2pass" \in app.enabled
           which  == IF app.map # NoMap THEN master.quantizer
                     ELSE IF picks2 THEN "2pass" ELSE "1pass"
           fails  == \/ app.map = NoMap /\ ~picks2 /\ "1pass" \notin app.enabled
                     \/ which = "2pass" /\ ~picks2 /\ Len(app.map) > MAXNUMCOLORS
       IN  IF fails THEN Fails /\ UNCHANGED <<app, one, two, fs, pass>>
           ELSE /\ master' = [quantizer |-> which, dummy |-> picks2, passes |-> master.passes + 1]
                /\ pass' = [on |-> TRUE, prescan |-> picks2, picture |-> picture, row |-> 0]
                /\ IF which = "1pass" THEN Start_pass_1(picture) ELSE Start_pass_2(picture, picks2)
    /\ shown' = NoRow

\* prepare_for_output_pass() for the pass that maps what the first one counted.
Second_pass ==
    /\ master.dummy /\ ~pass.on
    /\ master' = [master EXCEPT !.dummy = FALSE]
    /\ pass' = [pass EXCEPT !.on = TRUE, !.prescan = FALSE, !.row = 0]
    /\ Start_pass_2(pass.picture, FALSE)
    /\ UNCHANGED shown

CurrentRow == pass.picture[pass.row + 1]
MoreRows == pass.on /\ pass.row < Len(pass.picture)

Counted(cells, row) ==
    [c \in Cells |-> Min({CountLimit, cells[c] + Cardinality({x \in DOMAIN row : CellOf(row[x]) = c})})]
Prescan_quantize ==
    /\ MoreRows /\ pass.prescan
    /\ two' = [two EXCEPT !.cells = Counted(@, CurrentRow)]
    /\ pass' = [pass EXCEPT !.row = @ + 1]
    /\ UNCHANGED <<app, master, one, fs, shown>>

\* The entry a colour is mapped to, in a cache that may be filled for it.
CachedEntry(cells, colour) ==
    IF cells[CellOf(colour)] # 0 THEN cells[CellOf(colour)]
    ELSE Find_best_color(app.map, Find_nearby_colors(app.map, BoxOf(CellOf(colour))), CellOf(colour))

-----------------------------------------------------------------------------
(* Floyd-Steinberg dithering of the current row, by either quantizer.      *)

\* init_error_limit(): 1:1 for small errors, then 1:2, then constant.
Error_limit(e) ==
    LET S == (MAXJSAMPLE + 1) \div 16
        a == IF e < 0 THEN -e ELSE e
        m == IF a < S THEN a ELSE S + Min({a, 3 * S}) \div 2 - S \div 2
    IN  IF e < 0 THEN -m ELSE m
Limited(e) == IF master.quantizer = "2pass" THEN Error_limit(e) ELSE e
EntryOf(colour) == IF master.quantizer = "2pass" THEN CachedEntry(two.cells, colour)
                   ELSE Colorindex(one.ncolors, colour)
MapInUse == IF master.quantizer = "2pass" THEN app.map ELSE one.map

\* Rows are gone through in turns, the odd ones backwards.
Dir == IF fs.odd THEN -1 ELSE 1
InTurn == [k \in DOMAIN CurrentRow |-> IF fs.odd THEN Len(CurrentRow) + 1 - k ELSE k]
FsStart ==
    [seen |-> CurrentRow, index |-> [x \in DOMAIN CurrentRow |-> 0],
     errors |-> fs.errors, cur |-> Zero3, bprev |-> Zero3, below |-> Zero3]
\* A column; cur, below and bprev are sixteenths of errors.
FsColumn(at, x) ==
    LET seen == Triple([i \in Axes |-> Clamp(CurrentRow[x][i] + Limited((at.cur[i] + fs.errors[x][i] + 8) \div 16))])
        k    == EntryOf(seen)
        err  == Triple([i \in Axes |-> seen[i] - MapInUse[k][i]])
    IN  [seen   |-> [at.seen EXCEPT ![x] = seen],
         index  |-> [at.index EXCEPT ![x] = k],
         errors |-> [at.errors EXCEPT ![x - Dir] = Triple([i \in Axes |-> at.bprev[i] + 3 * err[i]])],
         cur    |-> Triple([i \in Axes |-> 7 * err[i]]),
         bprev  |-> Triple([i \in Axes |-> at.below[i] + 5 * err[i]]),
         below  |-> err]
FsRow == FoldLeft(FsColumn, FsStart, InTurn)
LastColumn == InTurn[Len(InTurn)]
FsShown == /\ shown' = [seen |-> FsRow.seen, index |-> FsRow.index, before |-> fs]
           /\ fs' = [errors |-> [FsRow.errors EXCEPT ![LastColumn] = FsRow.bprev], odd |-> ~fs.odd]

-----------------------------------------------------------------------------
(* Rows.                                                                   *)

Pass2_no_dither ==
    /\ MoreRows /\ ~pass.prescan /\ master.quantizer = "2pass" /\ app.dither = "NONE"
    /\ two' = [two EXCEPT !.cells = Fill_inverse_cmap(@, app.map, {CellOf(c) : c \in ToSet(CurrentRow)})]
    /\ shown' = [seen |-> CurrentRow, before |-> fs,
                 index |-> [x \in DOMAIN CurrentRow |-> two'.cells[CellOf(CurrentRow[x])]]]
    /\ pass' = [pass EXCEPT !.row = @ + 1]
    /\ UNCHANGED <<app, master, one, fs>>

Pass2_fs_dither ==
    /\ MoreRows /\ ~pass.prescan /\ master.quantizer = "2pass" /\ app.dither = "FS"
    /\ FsShown
    /\ two' = [two EXCEPT !.cells = Fill_inverse_cmap(@, app.map, {CellOf(c) : c \in ToSet(FsRow.seen)})]
    /\ pass' = [pass EXCEPT !.row = @ + 1]
    /\ UNCHANGED <<app, master, one>>

Color_quantize ==
    /\ MoreRows /\ master.quantizer = "1pass" /\ app.dither = "NONE"
    /\ shown' = [seen |-> CurrentRow, before |-> fs,
                 index |-> [x \in DOMAIN CurrentRow |-> Colorindex(one.ncolors, CurrentRow[x])]]
    /\ pass' = [pass EXCEPT !.row = @ + 1]
    /\ UNCHANGED <<app, master, one, two, fs>>

\* What lies beside a table without padding is anything.
InTable(colour) == one.padded \/ \A i \in Axes : colour[i] \in 0..MAXJSAMPLE
NoEntry == 0
Quantize_ord_dither ==
    /\ MoreRows /\ master.quantizer = "1pass" /\ app.dither = "ORDERED"
    /\ LET seen == [x \in DOMAIN CurrentRow |->
                      [i \in Axes |-> CurrentRow[x][i] + Odither(one.ncolors, i, one.row_index, x - 1)]]
       IN  shown' = [seen |-> seen, before |-> fs,
                     index |-> [x \in DOMAIN CurrentRow |->
                                   IF InTable(seen[x]) THEN Colorindex(one.ncolors, seen[x])
                                   ELSE NoEntry]]
    /\ one' = [one EXCEPT !.row_index = (@ + 1) % DitherSide]
    /\ pass' = [pass EXCEPT !.row = @ + 1]
    /\ UNCHANGED <<app, master, two, fs>>

Quantize_fs_dither ==
    /\ MoreRows /\ master.quantizer = "1pass" /\ app.dither = "FS"
    /\ FsShown
    /\ pass' = [pass EXCEPT !.row = @ + 1]
    /\ UNCHANGED <<app, master, one, two>>

\* finish_output_pass(): the first of two passes ends with a colormap.
\* A pass over a buffered image that shows rows may be ended before the last one.
Finish_pass ==
    /\ pass.on /\ (pass.row = Len(pass.picture) \/ (app.buffered /\ ~pass.prescan))
    /\ IF pass.prescan
       THEN LET boxes == Select_boxes
                map   == [k \in DOMAIN boxes |-> Compute_color(two.cells, boxes[k])]
            IN  /\ two' = [two EXCEPT !.map = map, !.boxes = boxes, !.needs_zeroed = TRUE]
                /\ app' = [app EXCEPT !.map = map]
       ELSE UNCHANGED <<two, app>>
    /\ pass' = [pass EXCEPT !.on = FALSE]
    /\ shown' = NoRow
    /\ UNCHANGED <<master, one, fs>>

\* Between the passes of a buffered image the application may choose anew.
Between == app.buffered /\ Idle /\ master.passes < MaxPasses
Choose_modes(two_pass, dither, forget) ==
    /\ Between
    /\ app' = [app EXCEPT !.two_pass = two_pass, !.dither = dither, !.map = IF forget THEN NoMap ELSE @]
    /\ UNCHANGED <<master, one, two, fs, pass, shown>>
\* jpeg_new_colormap(), after cinfo->colormap was set.
\* Mutant: the cache is kept.
New_colormap_kept(map) ==
    /\ Between
    /\ app' = [app EXCEPT !.map = map]
    /\ IF "external" \in app.enabled THEN master' = [master EXCEPT !.quantizer = "2pass"] ELSE Fails
    /\ UNCHANGED <<one, two, fs, pass, shown>>
New_colormap(map) ==
    /\ Between
    /\ app' = [app EXCEPT !.map = map]
    /\ IF "external" \in app.enabled
       THEN /\ master' = [master EXCEPT !.quantizer = "2pass"]
            /\ two' = [two EXCEPT !.needs_zeroed = TRUE]
       ELSE Fails /\ UNCHANGED two
    /\ UNCHANGED <<one, fs, pass, shown>>

DitherModes == {"NONE", "ORDERED", "FS"}
QuantNext ==
    \/ \E buffered, two_pass \in BOOLEAN, dither \in DitherModes, map \in Maps \cup {NoMap},
          enabled \in EnableSets :
           Start_decompress([buffered |-> buffered, two_pass |-> two_pass, dither |-> dither,
                             map |-> map, desired |-> Desired, enabled |-> enabled])
    \/ \E picture \in Pictures : Begin_pass(picture)
    \/ Second_pass \/ Prescan_quantize \/ Pass2_no_dither \/ Pass2_fs_dither
    \/ Color_quantize \/ Quantize_ord_dither \/ Quantize_fs_dither \/ Finish_pass
    \/ \E two_pass, forget \in BOOLEAN, dither \in DitherModes : Choose_modes(two_pass, dither, forget)
    \/ \E map \in Maps : New_colormap(map)

QuantSpec == QuantInit /\ [][QuantNext]_quantVars

-----------------------------------------------------------------------------
(* Properties.                                                             *)

Abs(n) == IF n < 0 THEN -n ELSE n

\* Whatever was mapped before, with which colormap and which dithering: the entry given to a
\* pixel is one of the colormap in use, and no other is nearer, to the centre of the pixel's cell
\* (two passes) or to the pixel in each component, but for one (one pass: a sample that is just
\* above the middle of two values goes to the lower, as its breakpoint is rounded up).
NearestEntry ==
    \A x \in DOMAIN shown.index :
       LET k == shown.index[x]
           seen == shown.seen[x]
       IN  /\ k \in DOMAIN app.map
           /\ master.quantizer = "2pass" =>
                 \A j \in DOMAIN app.map :
                    Distance(app.map[k], Centre(CellOf(seen))) <= Distance(app.map[j], Centre(CellOf(seen)))
           /\ master.quantizer = "1pass" =>
                 \A i \in Axes, j \in DOMAIN app.map :
                    Abs(app.map[k][i] - Clamp(seen[i])) <= Abs(app.map[j][i] - Clamp(seen[i])) + 1

\* The errors a row leaves for the next are the standard fractions, 3, 5 and 1 sixteenths, of the
\* row's own errors, to the columns behind, below and ahead; nothing of the row before is left.
ErrorsSpread ==
    shown.index # <<>> /\ app.dither = "FS" =>
    LET dir == IF shown.before.odd THEN -1 ELSE 1
        row == DOMAIN shown.index
        Err(x) == IF x \in row THEN [i \in Axes |-> shown.seen[x][i] - app.map[shown.index[x]][i]] ELSE Zero3
    IN  \A x \in row, i \in Axes :
           fs.errors[x][i] = 3 * Err(x + dir)[i] + 5 * Err(x)[i] + Err(x - dir)[i]

\* The boxes of a finished first pass hold every colour of the picture once, none is empty, there
\* are no more than wanted, and each one's colour lies in it.
BoxesPartition ==
    master.dummy /\ ~pass.on =>
    /\ Len(two.boxes) \in 1..Desired
    /\ \A c \in Cells : two.cells[c] # 0 =>
          Cardinality({k \in DOMAIN two.boxes : c \in UsedIn(two.cells, two.boxes[k])}) = 1
    /\ \A k \in DOMAIN two.boxes : UsedIn(two.cells, two.boxes[k]) # {}
           /\ \A i \in Axes : LET cell == CellOf(two.map[k])
                              IN two.boxes[k].lo[i] <= cell[i] /\ cell[i] <= two.boxes[k].hi[i]

\* Whatever a colour, a pixel or a row is mapped with: the nearest entries are shown, the errors
\* are carried as they should, and the boxes make up the picture (jquant1.c, jquant2.c).
ColorsMapped == NearestEntry /\ ErrorsSpread /\ BoxesPartition
=============================================================================
