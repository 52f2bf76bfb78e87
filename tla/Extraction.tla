----------------------------- MODULE Extraction -----------------------------
(***************************************************************************)
(* distribution() of extraction.c, which the spline and gradient           *)
(* transforms run for each of the first 18 frequencies: the histogram of   *)
(* the coefficients at one frequency, in a table wide enough for all of    *)
(* them and symmetric about 0, and for every bucket but the outermost two  *)
(* of each end the window of neighbours from which a spline predicts it.   *)
(*                                                                         *)
(* A share of a double is not computed: of the spline, the model keeps     *)
(* which points it is laid through and between which it is evaluated.      *)
(***************************************************************************)
EXTENDS Integers, Sequences, FiniteSets

CONSTANTS Unit,      \* tables are a multiple of this (512)
          SPLINEN,   \* points of a spline (10)
          ShortMax,  \* the largest short (32767)
          CoefLists  \* what the coefficients at the frequency may be

ASSUME ExtractionAssumption ==
    /\ Unit \in Nat \ {0} /\ Unit % 2 = 0
    /\ SPLINEN \in Nat /\ SPLINEN >= 2 /\ SPLINEN % 2 = 0
    /\ ShortMax \in Nat \ {0}
    /\ \A s \in CoefLists : s # <<>> /\ s \in Seq(-ShortMax..ShortMax)

VARIABLES walk, ndata, cur, least, greatest, nsimple, simple, points

extractionVars == <<walk, ndata, cur, least, greatest, nsimple, simple, points>>

ExtractionInit ==
    /\ walk = "scan"
    /\ ndata \in CoefLists
    /\ cur = 1
    /\ least = ShortMax /\ greatest = -ShortMax
    /\ nsimple = 0
    /\ simple = <<>>
    /\ points = <<>>

(* histogram(): the smallest and the largest value.                        *)
ScanOne ==
    /\ walk = "scan" /\ cur <= Len(ndata)
    /\ greatest' = IF ndata[cur] > greatest THEN ndata[cur] ELSE greatest
    /\ least' = IF ndata[cur] < least THEN ndata[cur] ELSE least
    /\ cur' = cur + 1
    /\ UNCHANGED <<walk, ndata, nsimple, simple, points>>

Scanned ==
    /\ walk = "scan" /\ cur = Len(ndata) + 1
    /\ walk' = "widen"
    /\ nsimple' = greatest - least
    /\ UNCHANGED <<ndata, cur, least, greatest, simple, points>>

(* One turn of the loop that rounds up and makes sure that both ends fit.  *)
RoundedUp(x) == ((x + Unit - 1) \div Unit) * Unit

\* Mutant: the upper end is as long as the lower one.
TooNarrowEven(x) == x \div 2 < -least \/ x \div 2 < greatest
TooNarrow(x) == x \div 2 < -least \/ x \div 2 <= greatest

Widen ==
    LET wide == RoundedUp(nsimple + 1)
    IN /\ walk = "widen"
       /\ nsimple' = wide
       /\ IF TooNarrow(wide)
          THEN UNCHANGED <<walk, cur, least, simple>>
          ELSE /\ walk' = "count"
               /\ least' = -(wide \div 2)
               /\ simple' = [b \in 0..wide - 1 |-> 0]
               /\ cur' = 1
       /\ UNCHANGED <<ndata, greatest, points>>

(* The third loop: an offset outside the table ends the program.           *)
CountOne ==
    LET off == ndata[cur] - least
    IN /\ walk = "count" /\ cur <= Len(ndata)
       /\ IF off \in 0..nsimple - 1
          THEN /\ simple' = [simple EXCEPT ![off] = @ + 1]
               /\ cur' = cur + 1
               /\ UNCHANGED walk
          ELSE /\ walk' = "bad offset"
               /\ UNCHANGED <<simple, cur>>
       /\ UNCHANGED <<ndata, least, greatest, nsimple, points>>

Counted ==
    /\ walk = "count" /\ cur = Len(ndata) + 1
    /\ walk' = "errors"
    /\ cur' = 2
    /\ UNCHANGED <<ndata, least, greatest, nsimple, simple, points>>

(* esterror2(): the window is cut at the ends of the table; at most        *)
(* SPLINEN of its buckets become points, the bucket itself is left out,    *)
(* and the spline is evaluated between the points on either side of it.    *)
Window(ind) ==
    LET s == IF ind - SPLINEN \div 2 < 0 THEN 0 ELSE ind - SPLINEN \div 2
        e == IF ind + SPLINEN \div 2 > nsimple - 1 THEN nsimple - 1 ELSE ind + SPLINEN \div 2
        all == e - s
    IN [first |-> s, n |-> IF all < SPLINEN THEN all ELSE SPLINEN,
        lo |-> ind - s - 1, hi |-> ind - s]

\* The bucket of a point.
X(w, j, ind) == IF w.first + j < ind THEN w.first + j ELSE w.first + j + 1

(* distribution(): an empty bucket has no error, and no spline is laid.    *)
Errors ==
    /\ walk = "errors" /\ cur < nsimple - 2
    /\ IF simple[cur] = 0 THEN UNCHANGED <<points, walk>>
       ELSE LET w == Window(cur)
            IN IF w.hi >= w.n THEN walk' = "hi >= n" /\ UNCHANGED points
               ELSE /\ UNCHANGED walk
                    /\ points' = [x |-> [j \in 0..w.n - 1 |-> X(w, j, cur)],
                                  lo |-> w.lo, hi |-> w.hi, at |-> cur]
    /\ cur' = cur + 1
    /\ UNCHANGED <<ndata, least, greatest, nsimple, simple>>

ExtractionNext == ScanOne \/ Scanned \/ Widen \/ CountOne \/ Counted \/ Errors

ExtractionSpec == ExtractionInit /\ [][ExtractionNext]_extractionVars
-----------------------------------------------------------------------------
(***************************************************************************)
(* Neither of the two checks that end the program ever fires, the bucket   *)
(* of 0 is the same distance from both ends whatever the values, and the   *)
(* points around a bucket are its two neighbours: spline_inter() takes     *)
(* their distance to be 2.                                                 *)
(***************************************************************************)
NeighboursOnly ==
    /\ walk \notin {"bad offset", "hi >= n"}
    /\ walk \in {"count", "errors"} => nsimple = 2 * (-least)
    /\ points # <<>> =>
         /\ points.lo \in DOMAIN points.x /\ points.hi \in DOMAIN points.x
         /\ points.x[points.lo] = points.at - 1
         /\ points.x[points.hi] = points.at + 1
=============================================================================
