----------------------------- MODULE ScanScript -----------------------------
(***************************************************************************)
(* Scan scripts of JPEG files: how the compressor checks one (jcmaster.c), *)
(* the progressive script it makes by itself (jcparam.c), and what the     *)
(* progressive decoder demands of the scans it meets (jdphuff.c).          *)
(*                                                                         *)
(* A scan is [comps: the numbers of its components, Ss, Se, Ah, Al].  A    *)
(* table of bits has for each component and coefficient the position of    *)
(* the last bit that was sent of it, -1 before there is one.               *)
(***************************************************************************)
EXTENDS Integers, Sequences, SequencesExt

CONSTANTS CoefCount,        \* DCTSIZE2
          MaxCompsInScan,   \* MAX_COMPS_IN_SCAN
          MaxAhAl,          \* MAX_AH_AL
          LumaSplit         \* last coefficient of the first luma scans, 5 in the code

NoBits(n) == [c \in 1..n |-> [k \in 0..CoefCount - 1 |-> -1]]
AfterScan(bits, s) ==
    [c \in DOMAIN bits |-> [k \in 0..CoefCount - 1 |->
        IF c \in ToSet(s.comps) /\ k \in s.Ss..s.Se THEN s.Al ELSE bits[c][k]]]

Progressive(script) == script[1].Ss # 0 \/ script[1].Se # CoefCount - 1

\* The check of the component indexes of a scan.
ComponentsValid(s, n) ==
    /\ Len(s.comps) \in 1..MaxCompsInScan
    /\ \A i \in DOMAIN s.comps : s.comps[i] \in 1..n /\ (i > 1 => s.comps[i - 1] < s.comps[i])

\* The check of a progressive scan.
ProgressionValid(bits, s) ==
    /\ s.Ss \in 0..s.Se /\ s.Se < CoefCount /\ s.Ah \in 0..MaxAhAl /\ s.Al \in 0..MaxAhAl
    /\ IF s.Ss = 0 THEN s.Se = 0 ELSE Len(s.comps) = 1
    /\ \A c \in ToSet(s.comps) :
        /\ s.Ss # 0 => bits[c][0] >= 0
        /\ \A k \in s.Ss..s.Se :
            IF bits[c][k] < 0 THEN s.Ah = 0 ELSE s.Ah = bits[c][k] /\ s.Al = s.Ah - 1

\* The check of a sequential one: all coefficients, and no component twice.
SequentialValid(bits, s) ==
    /\ s.Ss = 0 /\ s.Se = CoefCount - 1 /\ s.Ah = 0 /\ s.Al = 0
    /\ \A c \in ToSet(s.comps) : bits[c][0] < 0

\* validate_script(), of n components.
Validate_script(script, n) ==
    /\ script # <<>>
    /\ LET end == FoldLeft(LAMBDA v, s :
                    [valid |-> /\ v.valid /\ ComponentsValid(s, n)
                               /\ IF Progressive(script) THEN ProgressionValid(v.bits, s)
                                  ELSE SequentialValid(v.bits, s),
                     bits  |-> AfterScan(v.bits, s)],
                    [valid |-> TRUE, bits |-> NoBits(n)], script)
       IN  end.valid /\ \A c \in 1..n : end.bits[c][0] >= 0

OneScan(comps, Ss, Se, Ah, Al) == [comps |-> comps, Ss |-> Ss, Se |-> Se, Ah |-> Ah, Al |-> Al]
\* fill_scans() and fill_dc_scans().
Fill_scans(n, Ss, Se, Ah, Al) == [c \in 1..n |-> OneScan(<<c>>, Ss, Se, Ah, Al)]
Fill_dc_scans(n, Ah, Al) ==
    IF n <= MaxCompsInScan THEN <<OneScan([c \in 1..n |-> c], 0, 0, Ah, Al)>>
    ELSE Fill_scans(n, 0, 0, Ah, Al)

\* jpeg_simple_progression().
Simple_progression(n, YCbCr) ==
    LET last == CoefCount - 1
    IN  IF n = 3 /\ YCbCr
        THEN Fill_dc_scans(3, 0, 1)
             \o << OneScan(<<1>>, 1, LumaSplit, 0, 2), OneScan(<<3>>, 1, last, 0, 1),
                   OneScan(<<2>>, 1, last, 0, 1), OneScan(<<1>>, LumaSplit + 1, last, 0, 2),
                   OneScan(<<1>>, 1, last, 2, 1) >>
             \o Fill_dc_scans(3, 1, 0)
             \o << OneScan(<<3>>, 1, last, 1, 0), OneScan(<<2>>, 1, last, 1, 0),
                   OneScan(<<1>>, 1, last, 1, 0) >>
        ELSE Fill_dc_scans(n, 0, 1) \o Fill_scans(n, 1, LumaSplit, 0, 2)
             \o Fill_scans(n, LumaSplit + 1, last, 0, 2) \o Fill_scans(n, 1, last, 2, 1)
             \o Fill_dc_scans(n, 1, 0) \o Fill_scans(n, 1, last, 1, 0)

\* start_pass_phuff_decoder(): what it says of a scan after the bits of those before.
Start_pass(bits, s) ==
    IF \/ (s.Ss = 0 /\ s.Se # 0)
       \/ (s.Ss # 0 /\ (s.Ss > s.Se \/ s.Se >= CoefCount \/ Len(s.comps) # 1))
       \/ (s.Ah # 0 /\ s.Al # s.Ah - 1) \/ s.Al > 13
    THEN "BAD_PROGRESSION"
    ELSE IF \E c \in ToSet(s.comps) :
                \/ s.Ss # 0 /\ bits[c][0] < 0
                \/ \E k \in s.Ss..s.Se : s.Ah # (IF bits[c][k] < 0 THEN 0 ELSE bits[c][k])
    THEN "BOGUS_PROGRESSION" ELSE "ok"
=============================================================================
