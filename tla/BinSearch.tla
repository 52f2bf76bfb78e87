----------------------------- MODULE BinSearch -----------------------------
(***************************************************************************)
(* stegdetect.c: the macros BINSEARCH, BINSEARCH_NEXT and                  *)
(* BINSEARCH_IFABORT, with which three detectors look for a small step     *)
(* width at which the calibration test still stays below a threshold.      *)
(* The widths are floats that are halved at most MaxIter times; here they  *)
(* are integers, scaled so that every halving is exact.                    *)
(***************************************************************************)
EXTENDS Integers

CONSTANTS
    ImIn, ImAx,   \* the widths the macro is called with, imin and imax
    MaxIter       \* imaxiter

ASSUME WidthAssumption == ImIn \in Nat /\ ImAx \in Nat /\ ImIn <= ImAx
ASSUME IterAssumption == MaxIter \in Nat /\ MaxIter >= 1

VARIABLES
    search,       \* "off", "on" in the loop, "found" or "none" after it
    percent, min, max, good, iteration,
    passed, failed   \* history: the widths whose pass had sum < thresh, and the others

searchVars == <<search, percent, min, max, good, iteration, passed, failed>>

SearchInit ==
    /\ search = "off"
    /\ percent = ImAx /\ min = ImIn /\ max = ImAx /\ good = ImAx + 1
    /\ iteration = 0 /\ passed = {} /\ failed = {}

\* BINSEARCH: the assignments before the loop.
SearchBegin ==
    /\ search' = "on"
    /\ percent' = ImAx /\ min' = ImIn /\ max' = ImAx /\ good' = ImAx + 1
    /\ iteration' = 0 /\ passed' = {} /\ failed' = {}

Middle(lo, hi) == (hi - lo) \div 2 + lo

\* BINSEARCH_IFABORT after the loop: percent = _good.
SearchEnd(g) ==
    /\ percent' = g /\ good' = g
    /\ search' = IF g > ImAx THEN "none" ELSE "found"

\* The bug of a missing _iteration++ would be.
IterateForever(p, g) ==
    /\ percent' = p /\ good' = g
    /\ UNCHANGED <<search, iteration>>

\* The bug of a missing percent = _good after the loop would be: the width used
\* is the one that would have been tested next.
IterateNoGood(p, g) ==
    /\ iteration' = iteration + 1
    /\ percent' = p /\ good' = g
    /\ IF iteration' < MaxIter
       THEN UNCHANGED search
       ELSE search' = IF g > ImAx THEN "none" ELSE "found"

\* _iteration++, and the loop condition.
Iterate(p, g) ==
    /\ iteration' = iteration + 1
    /\ IF iteration' < MaxIter
       THEN percent' = p /\ good' = g /\ UNCHANGED search
       ELSE SearchEnd(g)

\* iteration 0 tests the largest width: without it there is no detection.
FirstTest(below) ==
    /\ iteration = 0
    /\ IF below
       THEN Iterate(min, percent)
       ELSE SearchEnd(good) /\ UNCHANGED iteration
    /\ UNCHANGED <<min, max>>

\* sum < thresh in a later iteration.
Success ==
    /\ iteration > 0
    /\ IF percent = min
       THEN SearchEnd(percent) /\ UNCHANGED <<min, max, iteration>>
       ELSE /\ max' = percent
            /\ Iterate(Middle(min, max'), percent)
            /\ UNCHANGED min

Failure ==
    /\ iteration > 0
    /\ min' = percent
    /\ Iterate(Middle(min', max), good)
    /\ UNCHANGED max

\* BINSEARCH_NEXT(thresh) after a pass over the image with the width percent.
\* The sum of a pass depends on the width only.
SearchNext(below) ==
    /\ search = "on"
    /\ IF below
       THEN percent \notin failed /\ passed' = passed \cup {percent} /\ UNCHANGED failed
       ELSE percent \notin passed /\ failed' = failed \cup {percent} /\ UNCHANGED passed
    /\ \/ FirstTest(below)
       \/ below /\ Success
       \/ ~below /\ Failure

-----------------------------------------------------------------------------
(* Properties.                                                             *)

\* A detector uses only a width that passed its own test, and gives up only when
\* the largest width failed.
ResultTested ==
    /\ search = "found" => percent = good /\ good \in passed
    /\ search = "none" => ImAx \in failed

=============================================================================
