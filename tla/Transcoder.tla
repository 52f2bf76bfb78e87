----------------------------- MODULE Transcoder -----------------------------
(***************************************************************************)
(* jpegtran without loss (jpeg-6b: jpegtran.c, transupp.c and the parts of *)
(* jctrans.c that copy parameters): a file is read as quantized blocks,    *)
(* the blocks are moved and their signs changed, and a file with a turned  *)
(* or mirrored picture is written.  Only whole iMCUs can be mirrored; what *)
(* is left over at an edge stays where it is, or is cut off (trim).        *)
(*                                                                         *)
(* A block is a function of <<row, column>>.  What a component shows is    *)
(* the sum over its dequantized coefficients of the waves of Wave, for     *)
(* which the cosines' symmetry is all that matters:                        *)
(*     Wave[BlockSide - 1 - x, u] = (-1)^u Wave[x, u].                     *)
(***************************************************************************)
EXTENDS Integers, Sequences, SequencesExt

CONSTANTS
    BlockSide,  \* DCTSIZE: samples along the side of a block
    Wave,       \* the one-dimensional waves: a function of <<x, u>>
    Sources,    \* source files: [width, height, space, comps, slots, extras]; a component is
                \*   [h, v: sampling factors, q: its table's slot, table: the table it was coded with];
                \*   extras: its JFIF, Adobe, COM and other markers, <<kind, number>>
    Transforms, \* transformations to try, with the names of transupp.h
    CopyOptions \* of "none", "comments", "all"

VARIABLES
    src,        \* what the decompression object holds, with its coefficient arrays
    opt,        \* [transform, trim, force_grayscale, copy]
    dst,        \* the compression object's parameters
    work,       \* the workspace arrays, <<>> when none are needed
    out,        \* the markers written
    stage       \* how far jpegtran is

transVars == <<src, opt, dst, work, out, stage>>

-----------------------------------------------------------------------------
(* Blocks and arrays of blocks.                                            *)

Places == (0..(BlockSide - 1)) \X (0..(BlockSide - 1))
Odd(n) == n % 2 = 1
FlipX(b) == [p \in Places |-> IF Odd(p[2]) THEN -b[p] ELSE b[p]]
FlipY(b) == [p \in Places |-> IF Odd(p[1]) THEN -b[p] ELSE b[p]]
FlipXY(b) == [p \in Places |-> IF Odd(p[1]) # Odd(p[2]) THEN -b[p] ELSE b[p]]
Transpose(b) == [p \in Places |-> b[<<p[2], p[1]>>]]

Jdiv_round_up(a, b) == (a + b - 1) \div b
Jround_up(a, b) == Jdiv_round_up(a, b) * b
Max_h_samp(im) == Max({im.comps[c].h : c \in DOMAIN im.comps})
Max_v_samp(im) == Max({im.comps[c].v : c \in DOMAIN im.comps})
\* initial_setup(): the size in blocks of a component.
Width_in_blocks(im, c)  == Jdiv_round_up(im.width * im.comps[c].h, Max_h_samp(im) * BlockSide)
Height_in_blocks(im, c) == Jdiv_round_up(im.height * im.comps[c].v, Max_v_samp(im) * BlockSide)
\* The places of an array that is padded to whole iMCUs.
PaddedArea(im, c) == (0..(Jround_up(Height_in_blocks(im, c), im.comps[c].v) - 1))
                     \X (0..(Jround_up(Width_in_blocks(im, c), im.comps[c].h) - 1))

\* What the entropy decoder left in the arrays: no two coefficients alike, the padding included.
Coefficient(c, y, x, p) == 1 + 3 * (c - 1) + 7 * y + 31 * x + (p[1] * BlockSide + p[2]) * 11
Coded(im) == [c \in DOMAIN im.comps |->
    [a \in PaddedArea(im, c) |-> [p \in Places |-> Coefficient(c, a[1], a[2], p)]]]
Unwritten == [p \in Places |-> -1000000]

-----------------------------------------------------------------------------
(* The routines, each as what it leaves in one component of the output.    *)
(* cw and ch are comp_width and comp_height: the blocks that whole iMCUs   *)
(* of the output fill.                                                     *)

CompWidth(d, c)  == (d.width \div (Max_h_samp(d) * BlockSide)) * d.comps[c].h
CompHeight(d, c) == (d.height \div (Max_v_samp(d) * BlockSide)) * d.comps[c].v
\* The blocks of a component the loops over blk_y and blk_x reach.
Reached(d, c) == PaddedArea(d, c)
Columns(d, c) == {a \in Reached(d, c) : a[2] < Width_in_blocks(d, c)}
\* old with the blocks of area replaced.
Filled(old, area, Block(_)) == [a \in DOMAIN old |-> IF a \in area THEN Block(a) ELSE old[a]]

\* In place: pairs are swapped, and a block in the middle is paired with itself.
Do_flip_h(d, c, s) ==
    LET cw == CompWidth(d, c)
    IN  Filled(s, {a \in Reached(d, c) : a[2] < cw}, LAMBDA a : FlipX(s[<<a[1], cw - 1 - a[2]>>]))
Do_flip_v(d, c, s, w) ==
    LET ch == CompHeight(d, c)
    IN  Filled(w, Columns(d, c), LAMBDA a :
            IF a[1] < ch THEN FlipY(s[<<ch - 1 - a[1], a[2]>>]) ELSE s[a])
Do_transpose(d, c, s, w) ==
    Filled(w, Reached(d, c), LAMBDA a : Transpose(s[<<a[2], a[1]>>]))
Do_rot_90(d, c, s, w) ==
    LET cw == CompWidth(d, c)
    IN  Filled(w, Reached(d, c), LAMBDA a :
            IF a[2] < cw THEN FlipX(Transpose(s[<<cw - 1 - a[2], a[1]>>]))
                         ELSE Transpose(s[<<a[2], a[1]>>]))
Do_rot_270(d, c, s, w) ==
    LET ch == CompHeight(d, c)
    IN  Filled(w, Reached(d, c), LAMBDA a :
            IF a[1] < ch THEN FlipY(Transpose(s[<<a[2], ch - 1 - a[1]>>]))
                         ELSE Transpose(s[<<a[2], a[1]>>]))
Do_rot_180(d, c, s, w) ==
    LET cw == CompWidth(d, c)
        ch == CompHeight(d, c)
        From(a) == <<IF a[1] < ch THEN ch - 1 - a[1] ELSE a[1],
                     IF a[2] < cw THEN cw - 1 - a[2] ELSE a[2]>>
    IN  Filled(w, Columns(d, c), LAMBDA a :
            IF a[1] < ch THEN IF a[2] < cw THEN FlipXY(s[From(a)]) ELSE FlipY(s[From(a)])
                         ELSE IF a[2] < cw THEN FlipX(s[From(a)]) ELSE s[a])
Do_transverse(d, c, s, w) ==
    LET cw == CompWidth(d, c)
        ch == CompHeight(d, c)
        From(a) == <<IF a[2] < cw THEN cw - 1 - a[2] ELSE a[2],
                     IF a[1] < ch THEN ch - 1 - a[1] ELSE a[1]>>
    IN  Filled(w, Reached(d, c), LAMBDA a :
            IF a[1] < ch THEN IF a[2] < cw THEN FlipXY(Transpose(s[From(a)])) ELSE FlipY(Transpose(s[From(a)]))
                         ELSE IF a[2] < cw THEN FlipX(Transpose(s[From(a)])) ELSE Transpose(s[From(a)]))

Turning == {"TRANSPOSE", "TRANSVERSE", "ROT_90", "ROT_270"}
InPlace == {"NONE", "FLIP_H"}

-----------------------------------------------------------------------------
(* Parameters.                                                             *)

Kinds == {"JFIF", "Adobe", "COM", "APP"}
NoPicture == [width |-> 0, height |-> 0, space |-> "UNKNOWN", comps |-> <<>>, slots |-> <<>>, extras |-> <<>>]
NoOption == [transform |-> "NONE", trim |-> FALSE, force_grayscale |-> FALSE, copy |-> "none"]
IsYCC(im)  == im.space = "YCbCr" /\ Len(im.comps) = 3
IsGray(im) == im.space = "GRAYSCALE" /\ Len(im.comps) = 1

\* What jpeg_read_header() accepts.  transupp.c takes the luminance of a picture to have the
\* largest sampling factors (jtransform_adjust_parameters(), where only it is kept).
IsSource(im) ==
    /\ im \in [width : Nat \ {0}, height : Nat \ {0}, space : STRING, slots : Seq([Places -> Int]),
               comps : Seq([h : Nat \ {0}, v : Nat \ {0}, q : Nat, table : [Places -> Int]]),
               extras : Seq(Kinds \X Nat)]
    /\ im.comps # <<>> /\ \A c \in DOMAIN im.comps : im.comps[c].q \in DOMAIN im.slots
    /\ IsYCC(im) => im.comps[1].h = Max_h_samp(im) /\ im.comps[1].v = Max_v_samp(im)

ASSUME TransAssumption ==
    /\ BlockSide \in Nat \ {0}
    /\ Wave \in [Places -> Int]
    /\ \A p \in Places : Wave[<<BlockSide - 1 - p[1], p[2]>>] = IF Odd(p[2]) THEN -Wave[p] ELSE Wave[p]
    /\ \A im \in Sources : IsSource(im)
    /\ Transforms \subseteq InPlace \cup Turning \cup {"FLIP_V", "ROT_180"}
    /\ CopyOptions \subseteq {"none", "comments", "all"}

\* jpeg_copy_critical_parameters() refuses a file that used a slot for two tables.
SlotsKept(im) == \A c \in DOMAIN im.comps : im.comps[c].table = im.slots[im.comps[c].q]
\* jpeg_set_colorspace(GRAYSCALE), the table's number kept.
Grayed(d) == [d EXCEPT !.space = "GRAYSCALE", !.comps = <<[d.comps[1] EXCEPT !.h = 1, !.v = 1]>>]
\* Mutant: the quantizers stay as they are.
TransposeSizes(d) ==
    [d EXCEPT !.width = d.height, !.height = d.width,
              !.comps = [c \in DOMAIN d.comps |-> [d.comps[c] EXCEPT !.h = d.comps[c].v, !.v = d.comps[c].h]]]
Transpose_critical_parameters(d) ==
    [d EXCEPT !.width = d.height, !.height = d.width,
              !.comps = [c \in DOMAIN d.comps |-> [d.comps[c] EXCEPT !.h = d.comps[c].v, !.v = d.comps[c].h]],
              !.slots = [s \in DOMAIN d.slots |-> Transpose(d.slots[s])]]
\* A picture is never trimmed to nothing.
TrimmedTo(size, unit) == IF size \div unit > 0 THEN (size \div unit) * unit ELSE size
Trim_right_edge(d)  == [d EXCEPT !.width = TrimmedTo(@, Max_h_samp(d) * BlockSide)]
Trim_bottom_edge(d) == [d EXCEPT !.height = TrimmedTo(@, Max_v_samp(d) * BlockSide)]

TrimsRight  == {"FLIP_H", "ROT_90", "ROT_180", "TRANSVERSE"}
TrimsBottom == {"FLIP_V", "ROT_270", "ROT_180", "TRANSVERSE"}
Adjusted(d, o) ==
    LET turned == IF o.transform \in Turning THEN Transpose_critical_parameters(d) ELSE d
        cut    == IF o.trim /\ o.transform \in TrimsRight THEN Trim_right_edge(turned) ELSE turned
    IN  IF o.trim /\ o.transform \in TrimsBottom THEN Trim_bottom_edge(cut) ELSE cut

-----------------------------------------------------------------------------
(* Markers.  jcopy_markers_setup() says which of the source's are kept;    *)
(* the compressor writes the JFIF or the Adobe marker of its colour space. *)

\* A list goes on with those of the markers that are of some kinds.
Take(s, m) == IF m[1] \in s.kinds THEN [s EXCEPT !.list = Append(@, m)] ELSE s
WithKinds(list, markers, kinds) == FoldLeft(Take, [kinds |-> kinds, list |-> list], markers).list

Saved(copy) == CASE copy = "none" -> {}
                 [] copy = "comments" -> {"COM"}
                 [] copy = "all" -> Kinds
HeaderMarkers(space) == CASE space \in {"GRAYSCALE", "YCbCr"} -> <<<<"JFIF", 0>>>>
                          [] space \in {"RGB", "CMYK", "YCCK"} -> <<<<"Adobe", 0>>>>
                          [] OTHER -> <<>>
\* A JFIF or Adobe marker the compressor wrote itself is not copied.
Copied(space) == Kinds \ {m[1] : m \in Range(HeaderMarkers(space))}

-----------------------------------------------------------------------------
(* main().                                                                 *)

TransInit == /\ src = [im |-> NoPicture, arrays |-> <<>>, saved |-> <<>>]
             /\ opt = NoOption /\ dst = NoPicture /\ work = <<>> /\ out = <<>> /\ stage = "start"

Parse_switches(o) ==
    /\ stage = "start"
    /\ opt' = o /\ stage' = "options"
    /\ UNCHANGED <<src, dst, work, out>>

Read_source_header(im) ==
    /\ stage = "options"
    /\ src' = [im |-> im, arrays |-> <<>>, saved |-> WithKinds(<<>>, im.extras, Saved(opt.copy))]
    /\ stage' = "header"
    /\ UNCHANGED <<opt, dst, work, out>>

Request_workspace ==
    /\ stage = "header"
    /\ LET n == IF opt.force_grayscale /\ IsYCC(src.im) THEN 1 ELSE Len(src.im.comps)
           Area(c) == IF opt.transform \in Turning THEN {<<a[2], a[1]>> : a \in PaddedArea(src.im, c)}
                                                   ELSE PaddedArea(src.im, c)
       IN  work' = IF opt.transform \in InPlace THEN <<>>
                   ELSE [c \in 1..n |-> [a \in Area(c) |-> Unwritten]]
    /\ stage' = "workspace"
    /\ UNCHANGED <<src, opt, dst, out>>

Read_source_coefficients ==
    /\ stage = "workspace"
    /\ src' = [src EXCEPT !.arrays = Coded(src.im)]
    /\ stage' = "coefficients"
    /\ UNCHANGED <<opt, dst, work, out>>

Copy_critical_parameters ==
    /\ stage = "coefficients"
    /\ IF SlotsKept(src.im) THEN dst' = src.im /\ stage' = "copied"
                            ELSE dst' = dst /\ stage' = "error"
    /\ UNCHANGED <<src, opt, work, out>>

Adjust_parameters ==
    /\ stage = "copied"
    /\ IF opt.force_grayscale /\ ~IsYCC(dst) /\ ~IsGray(dst)
       THEN dst' = dst /\ stage' = "error"
       ELSE /\ dst' = Adjusted(IF opt.force_grayscale THEN Grayed(dst) ELSE dst, opt)
            /\ stage' = "adjusted"
    /\ UNCHANGED <<src, opt, work, out>>

Write_coefficients ==
    /\ stage = "adjusted"
    /\ out' = HeaderMarkers(dst.space)
    /\ stage' = "started"
    /\ UNCHANGED <<src, opt, dst, work>>

Copy_markers ==
    /\ stage = "started"
    /\ out' = WithKinds(out, src.saved, Copied(dst.space))
    /\ stage' = "markers"
    /\ UNCHANGED <<src, opt, dst, work>>

Execute_transformation ==
    /\ stage = "markers"
    /\ LET s == src.arrays
           Routine(c) == CASE opt.transform = "FLIP_V"     -> Do_flip_v(dst, c, s[c], work[c])
                           [] opt.transform = "TRANSPOSE"  -> Do_transpose(dst, c, s[c], work[c])
                           [] opt.transform = "TRANSVERSE" -> Do_transverse(dst, c, s[c], work[c])
                           [] opt.transform = "ROT_90"     -> Do_rot_90(dst, c, s[c], work[c])
                           [] opt.transform = "ROT_180"    -> Do_rot_180(dst, c, s[c], work[c])
                           [] opt.transform = "ROT_270"    -> Do_rot_270(dst, c, s[c], work[c])
       IN  /\ work' = IF opt.transform \in InPlace THEN work ELSE [c \in DOMAIN dst.comps |-> Routine(c)]
           /\ src' = IF opt.transform # "FLIP_H" THEN src
                     ELSE [src EXCEPT !.arrays = [c \in DOMAIN s |->
                              IF c \in DOMAIN dst.comps THEN Do_flip_h(dst, c, s[c]) ELSE s[c]]]
    /\ stage' = "done"
    /\ UNCHANGED <<opt, dst, out>>

TransNext ==
    \/ \E t \in Transforms, trim, gray \in BOOLEAN, copy \in CopyOptions :
           Parse_switches([transform |-> t, trim |-> trim, force_grayscale |-> gray, copy |-> copy])
    \/ \E im \in Sources : Read_source_header(im)
    \/ Request_workspace \/ Read_source_coefficients \/ Copy_critical_parameters \/ Adjust_parameters
    \/ Write_coefficients \/ Copy_markers \/ Execute_transformation

TransSpec == TransInit /\ [][TransNext]_transVars

-----------------------------------------------------------------------------
(* Properties.                                                             *)

\* The arrays jpeg_finish_compress() writes.
Coef_arrays == IF work # <<>> THEN work ELSE src.arrays
\* The sample in row y and column x of a component.
Sample(im, c, arrays, y, x) ==
    LET b == arrays[c][<<y \div BlockSide, x \div BlockSide>>]
        q == im.slots[im.comps[c].q]
    IN  SumFunction([p \in Places |->
            b[p] * q[p] * Wave[<<y % BlockSide, p[1]>>] * Wave[<<x % BlockSide, p[2]>>]])

MirrorsX(t) == t \in {"FLIP_H", "ROT_90", "ROT_180", "TRANSVERSE"}
MirrorsY(t) == t \in {"FLIP_V", "ROT_270", "ROT_180", "TRANSVERSE"}
Mirror(i, size) == IF i < size THEN size - 1 - i ELSE i
\* Samples of a component that whole iMCUs of the output show.
WholeX(c) == (dst.width \div (Max_h_samp(dst) * BlockSide)) * dst.comps[c].h * BlockSide
WholeY(c) == (dst.height \div (Max_v_samp(dst) * BlockSide)) * dst.comps[c].v * BlockSide

\* The picture written is the source's, turned and mirrored sample by sample, with the source's
\* quantizers where they belong; only what whole iMCUs cannot hold stays in its place at an edge,
\* and with trim nothing of it is left unless the picture is narrower than an iMCU.
SamplesMoved ==
    stage = "done" =>
    LET t == opt.transform
        arrays == Coded(src.im)
    IN  /\ \A c \in DOMAIN dst.comps :
              \A y \in 0..(Height_in_blocks(dst, c) * BlockSide - 1), x \in 0..(Width_in_blocks(dst, c) * BlockSide - 1) :
                 LET my == IF MirrorsY(t) THEN Mirror(y, WholeY(c)) ELSE y
                     mx == IF MirrorsX(t) THEN Mirror(x, WholeX(c)) ELSE x
                 IN  Sample(dst, c, Coef_arrays, y, x) =
                         IF t \in Turning THEN Sample(src.im, c, arrays, mx, my)
                                          ELSE Sample(src.im, c, arrays, my, mx)
        /\ opt.trim /\ MirrorsX(t) /\ dst.width >= Max_h_samp(dst) * BlockSide => dst.width % (Max_h_samp(dst) * BlockSide) = 0
        /\ opt.trim /\ MirrorsY(t) /\ dst.height >= Max_v_samp(dst) * BlockSide => dst.height % (Max_v_samp(dst) * BlockSide) = 0

\* The file written has each JFIF and Adobe marker once when the source has it once, at its
\* start when the compressor writes it, and every other marker the option keeps, in order.
MarkersKept ==
    stage = "done" =>
    LET Once(list, kind) == \A i, j \in DOMAIN list : list[i][1] = kind /\ list[j][1] = kind => i = j
        other == Kinds \ {"JFIF", "Adobe"}
    IN  /\ \A kind \in {"JFIF", "Adobe"} : Once(src.im.extras, kind) => Once(out, kind)
        /\ WithKinds(<<>>, out, other) = WithKinds(<<>>, src.im.extras, other \cap Saved(opt.copy))
        /\ HeaderMarkers(dst.space) # <<>> => out[1] = HeaderMarkers(dst.space)[1]

\* jpegtran moves samples, and keeps markers (transupp.c, jctrans.c).
PictureTransformed == SamplesMoved /\ MarkersKept
=============================================================================
