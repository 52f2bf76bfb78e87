-------------------------------- MODULE F5 --------------------------------
(***************************************************************************)
(* detect_f5() of f5.c with jutil.c and dct.c: the luminance of the        *)
(* picture is computed from its coefficients, cropped by half a block on   *)
(* every side, blurred, compressed again with the picture's own table into *)
(* a temporary file, and the coefficients read back serve as the histogram *)
(* of the original.  Every image is a flat array indexed y * rowspan + x.  *)
(*                                                                         *)
(* The transform is a constant: Dct is an integer matrix whose rows are    *)
(* orthogonal and DctScale the square of their length (the program's _D    *)
(* is such a matrix with each row divided by it).  The library's own       *)
(* compression, here on whole blocks only, is external.                    *)
(***************************************************************************)
EXTENDS F5Estimate, Sequences, FiniteSets, FiniteSetsExt

CONSTANTS DCTSIZE, Dct, DctScale,
          Sources,    \* the struct jeasy that jpeg_prepare_blocks() may fill
          Modes,      \* the frequencies <<k, l>> of f5_dobeta()
          Rates       \* the rates <<p, q>> the result is compared with

ASSUME PictureAssumption ==
    /\ DCTSIZE \in Nat \ {0}
    /\ \A s \in Sources : s.width \in Nat \ {0} /\ s.height \in Nat \ {0}
    /\ Rates \subseteq Int \X (Nat \ {0})

VARIABLES stage, je, picture, jne, betas

f5Vars == <<stage, je, picture, jne, betas>>

DCTSIZE2 == DCTSIZE * DCTSIZE
HalfBlock == DCTSIZE \div 2
NoImage == [x |-> 0, y |-> 0, img |-> <<>>]
NoBlocks == [width |-> 0, height |-> 0, comp |-> 0, blocks |-> <<>>, table |-> <<>>]

Toward0(a, b) == IF a < 0 THEN -((-a) \div b) ELSE a \div b
Clamped(v) == IF v < 0 THEN 0 ELSE IF v > 255 THEN 255 ELSE v
Total(S, f(_)) == MapThenSumSet(f, S)
-----------------------------------------------------------------------------
(* dct.c and jutil.c: a block is a flat array of DCTSIZE2 numbers.         *)

Short(v) == ((v + 32768) % 65536) - 32768
dequant_block(in, table) == [j \in 0..DCTSIZE2 - 1 |-> Short(in[j] * table[j])]

dcttomat(a) == [r \in 0..DCTSIZE - 1 |-> [c \in 0..DCTSIZE - 1 |-> a[r * DCTSIZE + c]]]

mat_transpose(m) == [r \in 0..DCTSIZE - 1 |-> [c \in 0..DCTSIZE - 1 |-> m[c][r]]]

mat_mul(a, b) ==
    [r \in 0..DCTSIZE - 1 |-> [c \in 0..DCTSIZE - 1 |->
        Total(0..DCTSIZE - 1, LAMBDA k : a[r][k] * b[k][c])]]

mattodct(m) ==
    [i \in 0..DCTSIZE2 - 1 |-> Toward0(m[i \div DCTSIZE][i % DCTSIZE], DctScale)]

idct(in) == mattodct(mat_mul(mat_mul(mat_transpose(Dct), dcttomat(in)), Dct))

(* The library: the samples less 128, transformed and divided by the table *)
(* to the nearest.                                                         *)
ForwardDct(s, table) ==
    LET m == mat_mul(mat_mul(Dct, dcttomat([i \in 0..DCTSIZE2 - 1 |-> s[i] - 128])),
                     mat_transpose(Dct))
        Nearest(v, q) == IF v < 0 THEN -((-v + q \div 2) \div q) ELSE (v + q \div 2) \div q
    IN [i \in 0..DCTSIZE2 - 1 |->
            Nearest(m[i \div DCTSIZE][i % DCTSIZE], DctScale * table[i])]
-----------------------------------------------------------------------------
F5Init ==
    /\ stage = "prepared"
    /\ je \in Sources
    /\ picture = NoImage
    /\ jne = NoBlocks
    /\ betas = <<>>

f5_luminanceimage ==
    LET rowspan == je.width * DCTSIZE
        Samples == [b \in 0..je.width * je.height - 1 |->
                        idct(dequant_block(je.blocks[b], je.table))]
        At(n) == LET y == n \div rowspan
                     x == n % rowspan
                 IN Samples[(y \div DCTSIZE) * je.width + x \div DCTSIZE]
                           [(y % DCTSIZE) * DCTSIZE + (x % DCTSIZE)]
        img == [n \in 0..rowspan * je.height * DCTSIZE - 1 |-> Clamped(At(n) + 128)]
    IN /\ stage = "prepared"
       /\ stage' = "luminance"
       /\ picture' = [x |-> rowspan, y |-> je.height * DCTSIZE, img |-> img]
       /\ UNCHANGED <<je, jne, betas>>

\* Mutant: the rows of the smaller picture keep the length of the old ones.
CroppedStride(im) ==
    LET nx == im.x - DCTSIZE
        ny == im.y - DCTSIZE
    IN [x |-> nx, y |-> ny,
        img |-> [n \in 0..nx * ny - 1 |->
                    im.img[(HalfBlock + n \div im.x) * im.x + HalfBlock + (n % im.x)]]]

(* f5_crop(): the rows of the smaller picture follow one another without a *)
(* gap, so that the n-th sample written is the n-th of a picture that is   *)
(* DCTSIZE narrower.                                                       *)
Cropped(im) ==
    LET nx == im.x - DCTSIZE
        ny == im.y - DCTSIZE
    IN [x |-> nx, y |-> ny,
        img |-> [n \in 0..nx * ny - 1 |->
                    im.img[(HalfBlock + n \div nx) * im.x + HalfBlock + (n % nx)]]]

f5_crop ==
    /\ stage = "luminance"
    /\ stage' = "cropped"
    /\ picture' = Cropped(picture)
    /\ UNCHANGED <<je, jne, betas>>

(* f5_blur() with d = 0.05 reads the old picture and writes a new one; the *)
(* samples of the border are copied.  (A sum that is a whole number may    *)
(* come out one lower in binary arithmetic; the model's is exact.)         *)
Blurred(im) ==
    LET x(n) == n % im.x
        y(n) == n \div im.x
        v == im.img
        inner(n) == x(n) \in 1..im.x - 2 /\ y(n) \in 1..im.y - 2
    IN [im EXCEPT !.img = [n \in 0..im.x * im.y - 1 |->
            IF inner(n)
            THEN (v[n - 1] + v[n + 1] + v[n - im.x] + v[n + im.x] + 16 * v[n]) \div 20
            ELSE v[n]]]

f5_blur ==
    /\ stage = "cropped"
    /\ stage' = "blurred"
    /\ picture' = Blurred(picture)
    /\ UNCHANGED <<je, jne, betas>>

(* f5_compress() with quality 0 and the reading back.  The library refuses *)
(* an empty picture, and its standard error manager ends the program; with *)
(* one component je->table[1] is NULL and is written through.              *)
f5_compress ==
    /\ stage = "blurred"
    /\ IF je.comp = 1 THEN stage' = "crashed" /\ UNCHANGED jne
       ELSE IF picture.x = 0 \/ picture.y = 0 THEN stage' = "exited" /\ UNCHANGED jne
       ELSE /\ stage' = "estimated"
            /\ jne' = LET w == picture.x \div DCTSIZE
                          h == picture.y \div DCTSIZE
                          Samples(b) == [i \in 0..DCTSIZE2 - 1 |->
                              picture.img[((b \div w) * DCTSIZE + i \div DCTSIZE) * picture.x
                                        + (b % w) * DCTSIZE + (i % DCTSIZE)]]
                      IN [width |-> w, height |-> h, comp |-> 1, table |-> je.table,
                          blocks |-> [b \in 0..w * h - 1 |->
                                        ForwardDct(Samples(b), je.table)]]
    /\ UNCHANGED <<je, picture, betas>>

(* f5_hkl(): only the first component is counted, and with needscale the   *)
(* count is scaled to the size of the picture and truncated.               *)
f5_hkl(blocks, n, k, l, val) ==
    Cardinality({b \in 0..n - 1 : blocks[b][l * DCTSIZE + k] = val})

CountsOf(m) ==
    [val \in 0..3 |-> f5_hkl(je.blocks, je.width * je.height, m[1], m[2], val)]

ScaledCounts(m) ==
    LET size == jne.width * jne.height
    IN [val \in 0..3 |-> (f5_hkl(jne.blocks, size, m[1], m[2], val)
                              * (je.width * je.height)) \div size]

f5_dobeta ==
    /\ stage = "estimated"
    /\ stage' = "done"
    /\ betas' = [m \in Modes |-> betakl(CountsOf(m), ScaledCounts(m))]
    /\ UNCHANGED <<je, picture, jne>>

F5Next == f5_luminanceimage \/ f5_crop \/ f5_blur \/ f5_compress \/ f5_dobeta

F5Spec == F5Init /\ [][F5Next]_f5Vars
-----------------------------------------------------------------------------
(***************************************************************************)
(* The estimate is a picture of the original, displaced: its sample        *)
(* <<c, r>> is the blurred one at <<c, r>> plus half a block, with only    *)
(* the outermost samples of the crop left sharp, and every block of its    *)
(* coefficients is the transform of its own samples (f5.c f5_crop(),       *)
(* f5_blur(), f5_compress(): every one indexes a flat array by a row       *)
(* length of its own).                                                     *)
(***************************************************************************)
Sample(x, y) ==
    LET b == (y \div DCTSIZE) * je.width + x \div DCTSIZE
    IN Clamped(idct(dequant_block(je.blocks[b], je.table))
                   [(y % DCTSIZE) * DCTSIZE + (x % DCTSIZE)] + 128)

Displaced(c, r) ==
    LET x == c + HalfBlock
        y == r + HalfBlock
        edge == \/ c \in {0, (je.width - 1) * DCTSIZE - 1}
                \/ r \in {0, (je.height - 1) * DCTSIZE - 1}
    IN IF edge THEN Sample(x, y)
       ELSE (Sample(x - 1, y) + Sample(x + 1, y) + Sample(x, y - 1) + Sample(x, y + 1)
             + 16 * Sample(x, y)) \div 20

EstimateAligned ==
    stage = "estimated" =>
        \A bx \in 0..je.width - 2, by \in 0..je.height - 2 :
            jne.blocks[by * (je.width - 1) + bx]
              = ForwardDct([p \in 0..DCTSIZE2 - 1 |->
                    Displaced(bx * DCTSIZE + (p % DCTSIZE), by * DCTSIZE + p \div DCTSIZE)],
                    je.table)

(***************************************************************************)
(* Where no product overflows, the rate found for a frequency fits the     *)
(* zeros and ones of the picture at least as well as any other rate: the   *)
(* closed form of betakl() is the least squares solution, computed from    *)
(* the histograms of two pictures of different sizes.                      *)
(***************************************************************************)
BetaLeast ==
    stage = "done" =>
        \A m \in Modes : \A r \in Rates :
            LET h == CountsOf(m)
                H == ScaledCounts(m)
            IN Fits(h, H) => /\ betas[m] = betakl(h, H)
                             /\ NoBetter(h, H, r[1], r[2])
=============================================================================
