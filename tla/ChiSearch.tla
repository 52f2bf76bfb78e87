----------------------------- MODULE ChiSearch -----------------------------
(***************************************************************************)
(* stegdetect.c: the histogram_chi_* detectors, as far as they share       *)
(* state: the passes of a threshold search (BinSearch) and the final pass, *)
(* each a series of chi^2 tests on windows of the image, all on the one    *)
(* histogram (DctHist).  jsteg, OutGuess and the old jphide detector       *)
(* search; the new jphide detector does not, and is followed by the old    *)
(* one on the same data when it finds nothing.                             *)
(***************************************************************************)
EXTENDS DctHist, BinSearch

chiVars == <<dctVars, searchVars>>

ChiInit == DctInit /\ SearchInit

\* histogram_chi_jsteg() and histogram_chi_outguess().
BeginSearch == search = "off" /\ StartMethod /\ SearchBegin

\* histogram_chi_jphide().
BeginJphide == search = "off" /\ StartMethod /\ UNCHANGED searchVars

\* histogram_chi_jphide_old() on the data of histogram_chi_jphide().  (When the
\* image is too small for the latter it returns before it resets or tests, and
\* the old detector begins like the other searches, as BeginSearch.)
BeginJphideOld == search = "off" /\ Restart /\ SearchBegin

Test ==
    /\ search # "none"
    /\ \E a \in -1..MaxBits, b \in 0..(MaxBits + 1) : Chi2test(a, b)
    /\ UNCHANGED searchVars

EndPass ==
    /\ \E below \in BOOLEAN : SearchNext(below)
    /\ UNCHANGED dctVars

\* The detector returns, and detect() frees the data.
Return ==
    /\ search # "on" /\ EndMethod
    /\ search' = "off"
    /\ percent' = ImAx /\ min' = ImIn /\ max' = ImAx /\ good' = ImAx + 1
    /\ iteration' = 0 /\ passed' = {} /\ failed' = {}

ChiNext == BeginSearch \/ BeginJphide \/ BeginJphideOld \/ Test \/ EndPass \/ Return

ChiSpec == ChiInit /\ [][ChiNext]_chiVars

ChiFairSpec == ChiSpec /\ WF_chiVars(EndPass) /\ WF_chiVars(Return)

\* A detector returns, whatever its tests say: the search makes at most MaxIter
\* passes.
DetectorReturns == (phase = "method") ~> (phase = "idle")

=============================================================================
