---------------------------- MODULE Coefficients ----------------------------
(***************************************************************************)
(* The coefficients of an image in the orders the tools take them          *)
(* (prepare_all() and its sisters in common.c), and the two tools that     *)
(* compare and rework images by them: stegdeimage, which puts another      *)
(* image behind a hidden message, and stegcompare, which counts what       *)
(* distinguishes two images.                                               *)
(*                                                                         *)
(* An image has wib[c] x hib[c] blocks in component c, and coef, which     *)
(* gives the coefficient at <<component, row of blocks, offset in it>>.    *)
(***************************************************************************)
EXTENDS JphideObject, FiniteSets, FiniteSetsExt

CONSTANTS
    Pictures,   \* images
    HistMax     \* the histograms of stegcompare changes values up to 127 and down to -127

\* An image is not empty, and its coefficients are those of its blocks.
AreaOf(image) == UNION {{c} \X (0..image.hib[c] - 1) \X (0..image.wib[c] * DCTSIZE2 - 1) : c \in Component}
IsPicture(image) ==
    /\ DOMAIN image = {"wib", "hib", "coef"}
    /\ image.wib \in [Component -> Nat \ {0}] /\ image.hib \in [Component -> Nat \ {0}]
    /\ image.coef \in [AreaOf(image) -> Int]

ASSUME PicturesAssumption == HistMax \in Nat /\ \A image \in Pictures : IsPicture(image)

VARIABLES
    step,     \* "deimage", "open", "compare", "printed", "differ"
    orig,     \* the image that stegdeimage was given, and what it made of it
    modified,
    jphide,   \* which coefficients are compared: those for jphide, or all
    dcts,     \* those of the two images
    turn,     \* the loop of docompare()
    changes,
    hist,     \* [changes, first, second]: values of coefficients to numbers of them
    shist     \* the histograms as of the last change

coefficientVars == <<step, orig, modified, jphide, dcts, turn, changes, hist, shist>>

Size(image, c) == image.hib[c] * image.wib[c] * DCTSIZE2
Row(image, c) == image.wib[c] * DCTSIZE2
\* The places of component c, row by row and block by block.
PlacesOf(image, c) ==
    [n \in 1..Size(image, c) |-> <<c, (n - 1) \div Row(image, c), (n - 1) % Row(image, c)>>]
AllPlaces(image) == PlacesOf(image, 0) \o PlacesOf(image, 1) \o PlacesOf(image, 2)

PrepareAll(image) == [n \in DOMAIN AllPlaces(image) |-> image.coef[AllPlaces(image)[n]]]

\* The walk of prepare_jphide(): along ltab, but the entries with a mode below 0 or above 1,
\* without the IV, and with mode 1 without -1, 0 and 1.  No two of the entries that count name
\* the same coefficients, so that back[], which ends the walk at a coefficient taken before, is
\* left out.
Taken(image, c) ==
    /\ ~IsIv(c)
    /\ c.mode \in {0, 1}
    /\ c.mode = 1 => image.coef[Place(c)] \notin -1..1

TakeDct(s, n) ==
    LET c == Advance(s.c, s.wib, s.image.hib)
    IN  IF s.c.ended \/ Len(s.dcts) >= s.most THEN s
        ELSE IF c.ended
        THEN [s EXCEPT !.c = c, !.pos = IF s.c.lt <= 2 THEN Append(@, Len(s.dcts)) ELSE @]
        ELSE [s EXCEPT !.c = c,
                       !.dcts = IF Taken(s.image, c) THEN Append(@, s.image.coef[Place(c)]) ELSE @,
                       !.pos = IF c.lt > s.c.lt /\ s.c.lt <= 2 THEN Append(@, Len(s.dcts)) ELSE @]

PrepareJphideDcts(image) ==
    LET turns == Len(ltab) * Max({image.wib[c] * image.hib[c] : c \in Component}) + 1
    IN  FoldLeft(TakeDct,
                 [image |-> image, wib |-> [c \in Component |-> DCTSIZE2 * image.wib[c] - 1],
                  most |-> Size(image, 0) + Size(image, 1) + Size(image, 2),
                  c |-> StartCursor, dcts |-> <<>>, pos |-> <<>>],
                 [n \in 1..turns |-> n])

-----------------------------------------------------------------------------
(* stegdeimage.                                                            *)

AbsVal(n) == IF n < 0 THEN -n ELSE n
LowBits(n) == AbsVal(n) % 4
HighBits(n) == AbsVal(n) - LowBits(n)

\* Mutant of Reworked: a small coefficient of the other image leaves none here.
ReworkedSmall(val, tval) ==
    LET sign == IF tval < 0 THEN -1 ELSE 1
    IN  IF val = 0 THEN 0
        ELSE IF val \in {-1, 1} THEN sign
        ELSE sign * (HighBits(tval) + LowBits(val))

\* What becomes of a coefficient with that of the other image: its two low bits remain.
Reworked(val, tval) ==
    LET sign == IF tval < 0 THEN -1 ELSE 1
        high == IF HighBits(tval) = 0 THEN 4 ELSE HighBits(tval)
    IN  IF val = 0 THEN 0
        ELSE IF val \in {-1, 1} THEN sign
        ELSE sign * (high + LowBits(val))

\* dodeimage(): but for the IV, and the other image repeated if it is smaller.
Deimaged(image, other) ==
    [image EXCEPT !.coef = [p \in DOMAIN @ |->
        IF p[1] = 0 /\ p[2] = 0 /\ p[3] < IvSize THEN @[p]
        ELSE Reworked(@[p], other.coef[<<p[1], p[2] % other.hib[p[1]], p[3] % Row(other, p[1])>>])]]

-----------------------------------------------------------------------------

NoHist == [v \in -HistMax..HistMax |-> 0]
NoHists == [changes |-> NoHist, first |-> NoHist, second |-> NoHist]
NotSet == [changes |-> <<>>, first |-> <<>>, second |-> <<>>]

CoefficientsInit ==
    /\ step = "deimage"
    /\ orig \in Pictures /\ modified \in Pictures
    /\ jphide \in BOOLEAN
    /\ dcts = <<<<>>, <<>>>> /\ turn = 0 /\ changes = 0 /\ hist = NoHists /\ shist = NotSet

\* stegdeimage, or two images as they are.
Deimage ==
    /\ step = "deimage"
    /\ step' = "open"
    /\ modified' \in {modified, Deimaged(orig, modified)}
    /\ UNCHANGED <<orig, jphide, dcts, turn, changes, hist, shist>>

\* docompare() reads both images.
OpenBoth ==
    /\ step = "open"
    /\ LET Read(image) == IF jphide THEN PrepareJphideDcts(image).dcts ELSE PrepareAll(image)
       IN  /\ dcts' = <<Read(orig), Read(modified)>>
           /\ step' = IF Len(dcts'[1]) = Len(dcts'[2]) THEN "compare" ELSE "differ"
    /\ UNCHANGED <<orig, modified, jphide, turn, changes, hist, shist>>

Tallied(h, val) == IF val \in DOMAIN h THEN [h EXCEPT ![val] = @ + 1] ELSE h

\* A turn of the loop of docompare(); for jphide the histograms are kept at each change.
CompareNext ==
    /\ step = "compare" /\ turn < Len(dcts[1])
    /\ turn' = turn + 1
    /\ LET a == dcts[1][turn + 1]
           b == dcts[2][turn + 1]
       IN  /\ hist' = [changes |-> IF a # b THEN Tallied(hist.changes, a) ELSE hist.changes,
                       first |-> Tallied(hist.first, a), second |-> Tallied(hist.second, b)]
           /\ changes' = IF a # b THEN changes + 1 ELSE changes
           /\ shist' = IF a # b /\ jphide THEN hist' ELSE shist
    /\ UNCHANGED <<step, orig, modified, jphide, dcts>>

\* The histograms that are printed; without any change those for jphide were never set.
CompareEnd ==
    /\ step = "compare" /\ turn = Len(dcts[1])
    /\ step' = "printed"
    /\ hist' = IF jphide THEN shist ELSE hist
    /\ UNCHANGED <<orig, modified, jphide, dcts, turn, changes, shist>>

CoefficientsNext == Deimage \/ OpenBoth \/ CompareNext \/ CompareEnd
CoefficientsSpec == CoefficientsInit /\ [][CoefficientsNext]_coefficientVars

-----------------------------------------------------------------------------

\* A message that jphide hid is read from the reworked image as from the original: its
\* coefficients are the same and in the same order, with the same low bits, and the detector
\* finds the ends of the first two entries of ltab at the same places.
MessageKept ==
    step = "deimage" => \A other \in Pictures :
        LET before == PrepareJphideDcts(orig)
            after  == PrepareJphideDcts(Deimaged(orig, other))
        IN  /\ after.pos = before.pos
            /\ [n \in DOMAIN after.dcts |-> LowBits(after.dcts[n])] = [n \in DOMAIN before.dcts |-> LowBits(before.dcts[n])]

\* What stegcompare prints belongs together: each change is counted, and a value has no more
\* changes than coefficients, up to the same place of both images, so that no ratio has a
\* divisor of zero.
CountsAgree ==
    (step = "printed" /\ (changes > 0 \/ ~jphide)) =>
        LET last == IF jphide THEN Max({n \in DOMAIN dcts[1] : dcts[1][n] # dcts[2][n]}) ELSE Len(dcts[1])
            Number(n, v) == Cardinality({k \in 1..last : dcts[n][k] = v})
        IN  \A v \in DOMAIN hist.changes :
                /\ hist.first[v] = Number(1, v) /\ hist.second[v] = Number(2, v)
                /\ hist.changes[v] <= hist.first[v]
                /\ hist.first[v] - hist.second[v] <= hist.changes[v]

\* A message stays readable behind another image (stegdeimage.c), and the histograms of what
\* changed are those of the images (stegcompare.c).
CoefficientsCompared == MessageKept /\ CountsAgree
=============================================================================
