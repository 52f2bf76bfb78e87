---------------------------- MODULE JphideObject ----------------------------
(***************************************************************************)
(* The object that break_jphide.c keeps of an image: the widths and        *)
(* heights of its components, and the coefficients that jphide visits      *)
(* first.  break_jphide_prepare() walks over the image to collect them and *)
(* get_word() repeats the walk, by the widths of the object alone, while   *)
(* it takes them from coeff[] one after the other.                         *)
(*                                                                         *)
(* A coefficient is named by its place, so that it can be told which one   *)
(* is read: <<component, row of blocks, offset in the row>>.               *)
(***************************************************************************)
EXTENDS Integers, Sequences, SequencesExt

CONSTANTS
    DCTSIZE2,   \* coefficients of a block: 64
    NCoeff,     \* size of jphobj.coeff: 256
    IvSize,     \* the coefficients get_word() never uses: 8
    ShortRange, \* values of what htons() keeps of an int: 2^16
    ltab        \* the order of jphide: <<component, first offset, mode>>

Component == 0..2
Unset == <<"unset">>

ASSUME JphideAssumption ==
    /\ DCTSIZE2 \in Nat \ {0} /\ NCoeff \in Nat \ {0} /\ ShortRange \in Nat \ {0}
    /\ IvSize \in 1..DCTSIZE2
    /\ ltab \in Seq(Component \X (0..DCTSIZE2 - 1) \X Int) /\ ltab # <<>>

\* The static cursors: entry lt of ltab, row lh, offset lw, and the entry's
\* component, first offset and mode; ended is the return on a negative entry.
StartCursor ==
    [lt |-> 1, lh |-> 0, lw |-> ltab[1][2] - DCTSIZE2, coef |-> ltab[1][1],
     spos |-> ltab[1][2], mode |-> ltab[1][3], ended |-> FALSE]

\* The same offset of the next block in the row, of the next row, or the next
\* entry of ltab: the head of the loop in get_word().
Advance(c, wib, hib) ==
    IF c.lw + DCTSIZE2 <= wib[c.coef] THEN [c EXCEPT !.lw = @ + DCTSIZE2]
    ELSE IF c.lh + 1 < hib[c.coef] THEN [c EXCEPT !.lw = c.spos, !.lh = @ + 1]
    ELSE IF c.lt = Len(ltab) THEN [c EXCEPT !.ended = TRUE]
    ELSE LET e == ltab[c.lt + 1]
         IN  [lt |-> c.lt + 1, lh |-> 0, lw |-> e[2], coef |-> e[1],
              spos |-> e[2], mode |-> e[3], ended |-> FALSE]

Place(c) == <<c.coef, c.lh, c.lw>>

\* A turn of the loop of break_jphide_prepare(), which is a walk of its own,
\* without the mode: when ltab ends, the rest of coeff[] stays as it is.
TakeCoeff(s, k) ==
    LET c == Advance(s.c, s.wib, s.hib)
    IN  IF s.c.ended THEN s
        ELSE IF c.ended THEN [s EXCEPT !.c = c]
        ELSE [s EXCEPT !.c = c, !.coeff = [@ EXCEPT ![k] = Place(c)]]

\* An image has wib[c] blocks in each of the hib[c] rows of component c.  What
\* the loop has after m turns.
Collected(wib, hib, m) ==
    FoldLeft(TakeCoeff,
             [wib |-> wib, hib |-> hib, c |-> StartCursor, coeff |-> [k \in 1..NCoeff |-> Unset]],
             [k \in 1..m |-> k])

\* break_jphide_prepare()
PrepareJphide(image) ==
    LET wib == [c \in Component |-> DCTSIZE2 * image.wib[c] - 1]
    IN  [bits |-> image.jphide_bits, wib |-> wib, hib |-> image.hib,
         iv |-> [i \in 0..IvSize - 1 |-> <<0, 0, i>>],
         coeff |-> Collected(wib, image.hib, NCoeff).coeff]

\* What break_jphide_write() and then break_jphide_read() make of an object: bits
\* has 32 bits in the file as in memory, htons() and ntohs() keep 16 of an int.
ThroughFile(job) ==
    [job EXCEPT !.wib = [c \in Component |-> job.wib[c] % ShortRange],
                !.hib = [c \in Component |-> job.hib[c] % ShortRange]]

\* get_word() never gives these, whatever the key: the IV.
IsIv(c) == c.coef = 0 /\ c.lh = 0 /\ c.lw <= IvSize - 1

\* y, the coefficient that get_word() takes as number where (from 0): past the
\* end of coeff[] lies whatever follows the object.
CoeffAt(job, where) == IF where < NCoeff THEN job.coeff[where + 1] ELSE Unset
=============================================================================
