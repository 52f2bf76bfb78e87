------------------------------- MODULE MCJpeg -------------------------------
(***************************************************************************)
(* Small instances of the parts of the JPEG library for TLC.  Each is      *)
(* driven by its own callers and shares nothing with the others but what   *)
(* its module takes as given, so a behaviour is that of one of them        *)
(* (part), and the others stay as they are.                                *)
(***************************************************************************)
EXTENDS MCJpegInput, Entropy, MemoryManager, ColorQuantizer, MarkerWriter, Transcoder

VARIABLES part, pic, dec, got, img, z

-----------------------------------------------------------------------------
(* Memory: an array of one row, and one of blocks that may be larger than    *)
(* its buffer.                                                               *)
FirstSlop == 0 :> 8 @@ 1 :> 16
ExtraSlop == 0 :> 0 @@ 1 :> 4
TwoArrays ==
    "s" :> [width |-> 4, rows |-> 1, maxaccess |-> 1, pre_zero |-> FALSE, blocks |-> FALSE]
    @@ "b" :> [width |-> 4, rows |-> 3, maxaccess |-> 2, pre_zero |-> TRUE, blocks |-> TRUE]

-----------------------------------------------------------------------------
(* Images for the coders of scans, with the scripts they are written in:     *)
(* blocks of 20 coefficients, sequential scans, progressions, scripts that   *)
(* are refused, and counts of symbols for the tables.                        *)
B(dc, ac) ==
    [k \in 1..20 |-> IF k = 1 THEN dc ELSE IF k - 1 \in DOMAIN ac THEN ac[k - 1] ELSE 0]
Few == {B(2, 1 :> 5 @@ 2 :> -1 @@ 19 :> 2), B(5, 1 :> 1), B(-1, 3 :> -2 @@ 18 :> 1)}
Blocks ==
    Few \cup {B(0, <<>>), B(-6, 19 :> -3), B(1, 1 :> 4 @@ 19 :> 1),
             B(7, [k \in 1..19 |-> IF k % 2 = 0 THEN 3 ELSE -6])}

SeqScan(comps) == OneScan(comps, 0, 19, 0, 0)
Gray == {
    <<SeqScan(<<1>>)>>, Simple_progression(1, FALSE),
    <<OneScan(<<1>>, 0, 0, 0, 1), OneScan(<<1>>, 1, 19, 0, 2), OneScan(<<1>>, 1, 19, 2, 1)>> }
TwoComps == {
    <<SeqScan(<<1, 2>>)>>, <<SeqScan(<<2>>), SeqScan(<<1>>)>>,
    <<OneScan(<<1, 2>>, 0, 0, 0, 1), OneScan(<<1>>, 1, 2, 0, 0), OneScan(<<2>>, 1, 19, 0, 0),
      OneScan(<<1, 2>>, 0, 0, 1, 0), OneScan(<<1>>, 3, 19, 0, 1), OneScan(<<1>>, 3, 19, 1, 0)>> }

\* Scans of which scripts are made to be checked, for images without blocks.
Scans == {
    OneScan(<<1>>, 0, 0, 0, 1), OneScan(<<2>>, 0, 0, 0, 0), OneScan(<<1, 2>>, 0, 0, 1, 0),
    OneScan(<<2, 1>>, 0, 0, 0, 0), OneScan(<<1, 2>>, 0, 0, 0, 1), OneScan(<<1>>, 1, 4, 0, 1),
    OneScan(<<1>>, 3, 19, 1, 0), OneScan(<<1>>, 3, 4, 1, 0), OneScan(<<1, 2>>, 1, 4, 0, 0),
    OneScan(<<2>>, 1, 19, 0, 0), OneScan(<<1>>, 4, 3, 0, 0), SeqScan(<<1>>), SeqScan(<<1, 2>>),
    SeqScan(<<2>>) }

Job(image, script, n) == [image |-> image, script |-> script, interval |-> n]
MCJobs ==
    {Job(<<<<a, b, B(-1, 3 :> -2 @@ 18 :> 1)>>>>, s, n) :
        a \in Blocks, b \in Few, s \in Gray, n \in {0, 2}}
    \cup {Job(<<<<a, B(2, 19 :> 2)>>, <<B(5, 1 :> 1), B(3, <<>>)>>>>, s, n) :
        a \in Blocks, s \in TwoComps, n \in {0, 1}}
    \cup {Job(<<<<a>>, <<B(-1, 3 :> -2)>>, <<a>>>>, Simple_progression(3, y), 0) :
        a \in Few, y \in BOOLEAN}
    \cup {Job(<<<<>>, <<>>>>, s, 0) : s \in UNION {[1..n -> Scans] : n \in 1..3}}
MCFrequencies == [0..4 -> {0, 1, 3, 8}] \ {[s \in 0..4 |-> 0]}

-----------------------------------------------------------------------------
(* Colours of four bits.                                                     *)
SmallHist == <<4, 8, 4>>
SmallBoxes == <<2, 4, 2>>
SmallDithers == [p \in (0..1) \X (0..1) |-> IF p[1] = 0 THEN 2 * p[2] ELSE 3 - 2 * p[2]]
SomeMaps ==
    {<<<<0, 0, 0>>, <<15, 15, 15>>, <<6, 9, 3>>, <<12, 4, 8>>>>, <<<<3, 14, 7>>, <<9, 2, 2>>>>,
     [k \in 1..17 |-> <<(k - 1) % 16, 0, 0>>]}    \* more entries than a sample can number
SomeEnabled == {{}, {"1pass", "2pass", "external"}}
ColorPictures == {
    <<<<<<2, 3, 4>>, <<2, 3, 6>>, <<10, 13, 1>>>>, <<<<2, 3, 4>>, <<2, 2, 4>>, <<0, 15, 0>>>>,
      <<<<14, 1, 8>>, <<2, 3, 4>>, <<5, 11, 15>>>>>>,
    <<<<<<5, 5, 5>>, <<5, 5, 5>>, <<5, 5, 4>>>>>> }

-----------------------------------------------------------------------------
(* Decompression of blocks of two lines: one pass or several, every ratio of *)
(* sampling, a picture that ends within a row group, within an iMCU row and  *)
(* with it, output between the scans, smoothing, and quantized colours.      *)
Sampled(h, v) == [h |-> h, v |-> v]
TwoToOne == <<Sampled(2, 2), Sampled(1, 1)>>
ThreeComps == <<Sampled(2, 2), Sampled(1, 1), Sampled(1, 1)>>
Full(n) == <<[comps |-> [k \in 1..n |-> k], kind |-> "full"]>>
Shown(w, h, comps, scans, fancy, rgb, q) ==
    [width |-> w, height |-> h, comps |-> comps, scans |-> scans, buffered |-> FALSE, scale |-> 2,
     fancy |-> fancy, rgb |-> rgb, smoothing |-> FALSE, quantize |-> q]
Buffered(p) == [p EXCEPT !.buffered = TRUE]
Smoothed(p) == [p EXCEPT !.buffered = TRUE, !.smoothing = TRUE]

OnePass ==
    {Shown(6, h, TwoToOne, Full(2), TRUE, FALSE, "no") : h \in {3, 4, 5, 6, 7, 10, 12}}
    \cup {[Shown(6, 9, TwoToOne, Full(2), TRUE, FALSE, "no") EXCEPT !.scale = 1]}
    \cup {Shown(6, 7, ThreeComps, Full(3), FALSE, TRUE, q) : q \in {"no", "1pass", "2pass"}}
    \cup {Shown(3, 5, <<Sampled(2, 1), Sampled(1, 1), Sampled(1, 1)>>, Full(3), FALSE, TRUE, "no"),
          Shown(6, 7, ThreeComps, Full(3), FALSE, FALSE, "2pass"),
          Shown(6, 7, ThreeComps, Full(3), TRUE, FALSE, "2pass"),
          Shown(3, 7, <<Sampled(1, 2)>>, Full(1), FALSE, FALSE, "no"),
          Shown(3, 7, <<Sampled(1, 3), Sampled(1, 1)>>, Full(2), FALSE, FALSE, "1pass")}
Progression(other) == <<[comps |-> other, kind |-> "dc"], [comps |-> <<1>>, kind |-> "ac"]>>
Sequential == <<[comps |-> <<2>>, kind |-> "full"], [comps |-> <<1>>, kind |-> "full"]>>
ChromaFirst == <<[comps |-> <<2, 3>>, kind |-> "full"], [comps |-> <<1>>, kind |-> "full"]>>
ManyScans == {
    Shown(6, 6, TwoToOne, Sequential, TRUE, FALSE, "no"),
    Buffered(Shown(3, 5, TwoToOne, Sequential, FALSE, FALSE, "no")),
    Smoothed(Shown(5, 5, <<Sampled(1, 1)>>, Progression(<<1>>), FALSE, FALSE, "no")),
    Smoothed(Shown(5, 7, TwoToOne, Progression(<<1, 2>>), FALSE, FALSE, "no")),
    Buffered(Shown(3, 5, ThreeComps, ChromaFirst, FALSE, FALSE, "2pass")) }

Dec == INSTANCE Decompressor WITH
    d <- dec, DCTSIZE <- 2, Pictures <- OnePass \cup ManyScans,
    LineCounts <- {1, 3}, Budgets <- {2, 100}

-----------------------------------------------------------------------------
(* Compression: lines, raw data or coefficients; heights around the ends of  *)
(* blocks, iMCU rows and context; scripts that refine.                       *)
Given(w, h, comps, scans, input_) ==
    [width |-> w, height |-> h, comps |-> comps, scans |-> scans, progressive |-> FALSE,
     optimize |-> FALSE, smoothing |-> FALSE, input |-> input_]
AScan(cs, ss, ah) == [comps |-> cs, Ss |-> ss, Ah |-> ah]
Refining == <<AScan(<<1, 2>>, 0, 0), AScan(<<1>>, 1, 0), AScan(<<2>>, 1, 0),
              AScan(<<1, 2>>, 0, 1), AScan(<<1>>, 1, 1)>>
Separate == <<AScan(<<2>>, 0, 0), AScan(<<1>>, 0, 0)>>

CompressedImages ==
    {[Given(5, h, TwoToOne, <<>>, "lines") EXCEPT !.smoothing = smooth] :
        h \in {1, 2, 3, 6, 9}, smooth \in BOOLEAN}
    \cup {[Given(3, h, <<Sampled(1, 2), Sampled(1, 1)>>, <<>>, "lines") EXCEPT !.smoothing = TRUE] :
        h \in {3, 5, 9}}
    \cup {[Given(5, 5, TwoToOne, Refining, how) EXCEPT !.progressive = TRUE] :
        how \in {"lines", "coefs"}}
    \cup {[Given(3, 7, <<Sampled(1, 2)>>, <<>>, "lines") EXCEPT !.optimize = best] : best \in BOOLEAN}
    \cup {[Given(5, 5, TwoToOne, Separate, "lines") EXCEPT !.optimize = best] : best \in BOOLEAN}
    \cup {[Given(5, 5, TwoToOne, <<>>, how) EXCEPT !.optimize = best] :
        best \in BOOLEAN, how \in {"raw", "coefs"}}
    \cup {Given(3, 7, <<Sampled(1, 4), Sampled(1, 2)>>, <<>>, "lines"),
          Given(5, 5, <<Sampled(2, 2), Sampled(1, 1), Sampled(2, 1)>>, <<>>, "coefs"),
          Given(3, 3, <<Sampled(3, 1), Sampled(2, 1)>>, <<>>, "lines")}

Comp == INSTANCE Compressor WITH
    DCTSIZE <- 2, Images <- CompressedImages, LinesGiven <- {1, 3}, Rooms <- {0, 1, 100}

-----------------------------------------------------------------------------
(* Markers: one compression object for several images, of two kinds of       *)
(* components.                                                               *)
AllOf(n) == [k \in 1..n |-> k]
Whole == [n \in 1..4 |-> <<AScan(AllOf(n), 0, 0)>>]
ByComponent == [n \in 1..4 |-> [k \in 1..n |-> AScan(<<k>>, 0, 0)]]
Refined == [n \in 1..4 |->
    <<AScan(AllOf(n), 0, 0), AScan(<<n>>, 1, 0), AScan(AllOf(n), 0, 1)>>]
Setting(progressive, optimize, scans, rows, interval) ==
    [progressive |-> progressive, optimize |-> optimize, scans |-> scans, rows |-> rows,
     interval |-> interval]
SomeSettings == {
    Setting(FALSE, FALSE, ByComponent, 1, 0), Setting(FALSE, TRUE, Whole, 0, 2),
    Setting(TRUE, FALSE, Refined, 1, 0), Setting(FALSE, FALSE, [n \in 1..4 |-> <<>>], 0, 0)}

LowQuality == {<<1, FALSE>>}
TwoColumns == [n \in 1..4 |-> IF n = 1 THEN 4 ELSE 2]

-----------------------------------------------------------------------------
(* jpegtran: blocks of two by two; pictures of every colour space, whole or  *)
(* partial iMCUs at either edge, narrower than one, and components that      *)
(* share a slot but not the table in it.                                     *)
Ones == [p \in {0, 1} \X {0, 1} |-> IF p = <<1, 1>> THEN -1 ELSE 1]
TableA == [p \in {0, 1} \X {0, 1} |-> 1 + 2 * p[1] + 5 * p[2]]
TableB == [p \in {0, 1} \X {0, 1} |-> 3 + p[1] + 4 * p[2]]
Source(w, h, space, comps, extras) ==
    [width |-> w, height |-> h, space |-> space, comps |-> comps, slots |-> <<TableA, TableB>>,
     extras |-> extras]
Of(h, v, q) == [h |-> h, v |-> v, q |-> q, table |-> IF q = 1 THEN TableA ELSE TableB]
Extras == <<<<"JFIF", 1>>, <<"COM", 1>>, <<"Adobe", 1>>, <<"APP", 1>>, <<"COM", 2>>>>
SomeSources == {
    Source(5, 3, "GRAYSCALE", <<Of(1, 1, 1)>>, Extras),
    Source(9, 7, "YCbCr", <<Of(2, 1, 1), Of(1, 1, 2), Of(1, 1, 2)>>, Extras),
    Source(11, 5, "YCbCr", <<Of(2, 2, 1), Of(1, 1, 2), Of(1, 2, 2)>>, <<>>),
    Source(3, 6, "YCbCr", <<Of(2, 1, 1), Of(1, 1, 2), Of(1, 1, 2)>>, <<>>),
    Source(6, 5, "CMYK", <<Of(1, 1, 1), Of(1, 1, 1), Of(1, 1, 1), Of(1, 2, 1)>>, Extras),
    Source(6, 5, "UNKNOWN", <<Of(1, 1, 1), Of(1, 2, 2)>>, Extras),
    [Source(5, 3, "RGB", <<Of(1, 1, 1), Of(1, 1, 1), Of(1, 1, 1)>>, Extras)
        EXCEPT !.comps[2].table = TableB] }

-----------------------------------------------------------------------------
decVars == <<pic, dec, got>>
compVars == <<img, z>>

MemOff ==
    /\ heap = 0 /\ max_memory_to_use = 0 /\ backing = FALSE /\ objects = {}
    /\ mem = [small |-> [p \in Pools |-> <<>>], large |-> [p \in Pools |-> <<>>], total |-> 0,
              rowsperchunk |-> 0, err |-> "gone"]
    /\ virt_list = <<>> /\ varray = [id \in Ids |-> NoControl] /\ strip = [id \in Ids |-> NoStrip]
    /\ asked = 0
InputOff == input = 0 /\ supplied = 0 /\ d = Created /\ whole = Created
EntropyOff ==
    /\ job = NoImage /\ codes = NoTable /\ scan = 0 /\ stream = <<>> /\ suspends = 0
    /\ decoder = NewDecoder
QuantOff == QuantStart(0)
DecOff == pic = 0 /\ dec = 0 /\ got = 0
CompOff == img = 0 /\ z = 0

MCInit ==
    /\ part \in {"memory", "input", "entropy", "quantizer", "decompressor", "compressor", "markers",
                "jpegtran"}
    /\ IF part = "memory" THEN MemInit ELSE MemOff
    /\ IF part = "input" THEN InputInit ELSE InputOff
    /\ IF part = "entropy" THEN EntropyInit ELSE EntropyOff
    /\ IF part = "quantizer" THEN QuantInit ELSE QuantOff
    /\ IF part = "decompressor" THEN Dec!DecompressorInit ELSE DecOff
    /\ IF part = "compressor" THEN Comp!CompressorInit ELSE CompOff
    /\ MarkerInit
    /\ TransInit

libraryVars == <<memVars, inputVars, entropyVars, quantVars>>
clientVars == <<decVars, compVars, markerVars, transVars>>

MCNext ==
    \/ /\ part = "memory" /\ UNCHANGED <<part, inputVars, entropyVars, quantVars, clientVars>>
       /\ MemNext
    \/ /\ part = "input" /\ UNCHANGED <<part, memVars, entropyVars, quantVars, clientVars>>
       /\ InputNext
    \/ /\ part = "entropy" /\ UNCHANGED <<part, memVars, inputVars, quantVars, clientVars>>
       /\ EntropyNext
    \/ /\ part = "quantizer" /\ UNCHANGED <<part, memVars, inputVars, entropyVars, clientVars>>
       /\ QuantNext
    \/ /\ part = "decompressor" /\ UNCHANGED <<part, libraryVars, compVars, markerVars, transVars>>
       /\ Dec!DecompressorNext
    \/ /\ part = "compressor" /\ UNCHANGED <<part, libraryVars, decVars, markerVars, transVars>>
       /\ Comp!CompressorNext
    \/ /\ part = "markers" /\ UNCHANGED <<part, libraryVars, decVars, compVars, transVars>>
       /\ MarkerNext
    \/ /\ part = "jpegtran" /\ UNCHANGED <<part, libraryVars, decVars, compVars, markerVars>>
       /\ TransNext

MCSpec == MCInit /\ [][MCNext]_<<part, libraryVars, clientVars>>

-----------------------------------------------------------------------------
(* The properties of the modules, each of its part.                          *)

\* In whatever pieces the file arrives, the reader ends where it ends with all of it (jdmarker.c,
\* jdhuff.c: a routine that suspends starts again from its last sync).
SuspensionHidden == part = "input" => SuspensionTransparent

\* What is read is the file's, but for the segments next to damage (jdmarker.c, jdinput.c,
\* common.c).
ImageIsRead == part = "input" => DamageIsLocal /\ SeesTheFile

\* Coders and decoders of scans agree, with tables made for any statistics (jchuff.c, jcphuff.c,
\* jdhuff.c, jdphuff.c).
CodedAndDecoded == part = "entropy" => RoundTrip /\ CodesDecode

\* Output lines are made of the rows and the scans they should be (jdmainct.c, jdcoefct.c,
\* jdsample.c).
LinesShown == part = "decompressor" => Dec!RowsRight /\ Dec!ScansShown

\* The compressor writes all of the image in its order, with codes made from the statistics of
\* the scan they are used for (jcmaster.c, jccoefct.c, jctrans.c).
ImageWritten == part = "compressor" => Comp!StreamRight /\ Comp!StatisticsRight
=============================================================================
