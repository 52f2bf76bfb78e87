------------------------------ MODULE DctHist ------------------------------
(***************************************************************************)
(* stegdetect.c: DCThist, the histogram of the coefficients in a window of *)
(* an image.  buildDCThist() keeps the last window and its buffer, and     *)
(* slides to the next window when that is cheaper than counting again.     *)
(* The buffer is known by its address only, and malloc() gives the address *)
(* of a freed buffer again.                                                *)
(*                                                                         *)
(* A coefficient is one of Values or Other, which stands for all those     *)
(* outside -128..127.  Counts are floats in the code, exact up to 2^24.    *)
(***************************************************************************)
EXTENDS Integers, FiniteSets

CONSTANTS
    Buffers,      \* addresses malloc() returns
    Null,
    Values,       \* coefficients with a place in DCThist
    Other,        \* a coefficient without one
    MaxBits       \* bound: coefficients of an image

ASSUME NullAssumption == Null \notin Buffers
ASSUME BitsAssumption == MaxBits \in Nat

VARIABLES
    phase,        \* "idle"; "method" in histogram_chi_*()
    data, bits, content,     \* the current buffer, its size and what it holds
    olddata, oldx, oldy,     \* the window DCThist was built for
    hist,         \* DCThist
    asked         \* history: the window of the last test

dctVars == <<phase, data, bits, content, olddata, oldx, oldy, hist, asked>>

Contents(n) == [0..(n - 1) -> Values \cup {Other}]

\* Occurrences of v in the window x..y-1 of c: what the counting loops add up.
Count(c, v, x, y) == Cardinality({i \in x..(y - 1) : c[i] = v})

Histogram(c, x, y) == [v \in Values |-> Count(c, v, x, y)]

DctInit ==
    /\ phase = "idle"
    /\ data = Null /\ bits = 0 /\ content \in Contents(0)
    /\ olddata = Null /\ oldx = 0 /\ oldy = 0
    /\ hist = [v \in Values |-> 0]
    /\ asked = <<0, 0>>

\* The bug of not looking at the start of the window would be.
BuildIgnoringStart(c, b, x, y) ==
    LET fresh == olddata # b \/ y < oldy
        kept  == [v \in Values |-> IF fresh THEN 0 ELSE hist[v] - Count(c, v, oldx, x)]
        from  == IF fresh THEN x ELSE oldy
    IN  /\ hist' = [v \in Values |-> kept[v] + Count(c, v, from, y)]
        /\ olddata' = b /\ oldx' = x /\ oldy' = y

\* c is what buffer b holds.
BuildDCThist(c, b, x, y) ==
    LET fresh == \/ olddata # b \/ x < oldx \/ y < oldy
                 \/ (x - oldx) + (y - oldy) >= y - x
        kept  == [v \in Values |-> IF fresh THEN 0 ELSE hist[v] - Count(c, v, oldx, x)]
        from  == IF fresh THEN x ELSE oldy
    IN  /\ hist' = [v \in Values |-> kept[v] + Count(c, v, from, y)]
        /\ olddata' = b /\ oldx' = x /\ oldy' = y

BuildDCTreset ==
    /\ olddata' = Null /\ oldx' = 0 /\ oldy' = 0
    /\ UNCHANGED hist

\* detect() has a new buffer from one of the prepare_* functions and calls a
\* histogram_chi_* function, which resets the histogram before its first test.
StartMethod ==
    /\ phase = "idle" /\ phase' = "method"
    /\ data' \in Buffers
    /\ bits' \in 0..MaxBits
    /\ content' \in Contents(bits')
    /\ BuildDCTreset
    /\ asked' = <<0, 0>>

\* histogram_chi_jphide_old() goes over the data of histogram_chi_jphide() again.
Restart ==
    /\ phase = "method"
    /\ BuildDCTreset
    /\ asked' = <<0, 0>>
    /\ UNCHANGED <<phase, data, bits, content>>

\* A window that is empty after clamping leaves everything alone.
Chi2test(a, b) ==
    /\ phase = "method"
    /\ LET lo == IF a < 0 THEN 0 ELSE a
           hi == IF b > bits THEN bits ELSE b
       IN  /\ lo < hi
           /\ BuildDCThist(content, data, lo, hi)
           /\ asked' = <<lo, hi>>
    /\ UNCHANGED <<phase, data, bits, content>>

\* detect() frees the buffer; the window stays.
EndMethod ==
    /\ phase = "method" /\ phase' = "idle"
    /\ data' = Null /\ bits' = 0 /\ content' \in Contents(0)
    /\ UNCHANGED <<olddata, oldx, oldy, hist, asked>>

DctNext ==
    \/ StartMethod \/ Restart \/ EndMethod
    \/ \E a \in -1..MaxBits, b \in 0..(MaxBits + 1) : Chi2test(a, b)

DctSpec == DctInit /\ [][DctNext]_dctVars

-----------------------------------------------------------------------------
(* Properties.                                                             *)

\* Every variable has its type: no count is negative, although sliding the window
\* subtracts, and the window is never turned round.
DctTypeOK ==
    /\ phase \in {"idle", "method"}
    /\ data \in Buffers \cup {Null} /\ bits \in 0..MaxBits /\ content \in Contents(bits)
    /\ olddata \in Buffers \cup {Null}
    /\ oldx \in 0..oldy /\ oldy \in 0..MaxBits
    /\ hist \in [Values -> Nat]
    /\ asked \in (0..MaxBits) \X (0..MaxBits)

\* The histogram that unify_*(), jphide_zero_one() and jphide_empty_pair() read
\* is that of the window chi2test() was asked for in the image under test,
\* whatever windows and images came before and wherever malloc() put them.
HistIsWindow ==
    phase = "method" /\ olddata # Null => hist = Histogram(content, asked[1], asked[2])

-----------------------------------------------------------------------------

\* While a method runs, the cached window belongs to its data.
DctIInv ==
    /\ DctTypeOK
    /\ phase = "method" =>
         /\ data \in Buffers
         /\ olddata # Null =>
              /\ olddata = data /\ oldy <= bits
              /\ asked = <<oldx, oldy>>
              /\ hist = Histogram(content, oldx, oldy)

=============================================================================
