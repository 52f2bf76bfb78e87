---------------------------- MODULE MCJpegInput ----------------------------
(***************************************************************************)
(* Files for JpegInput, put together from segments.  Tables have two       *)
(* values, and Huffman tables two lengths.                                 *)
(***************************************************************************)
EXTENDS JpegInput

Seg(marker, payload) ==
    <<255, marker, (Len(payload) + 2) \div 256, (Len(payload) + 2) % 256>> \o payload
Mark(marker) == <<255, marker>>
SOI == Mark(M_SOI)
EOI == Mark(M_EOI)
Dqt(n, a) == Seg(M_DQT, <<n, a, a + 1>>)
Dht == Seg(M_DHT, <<0, 0, 1, 5, 16, 1, 0, 6>>)
\* components <<id, h, v, tq>>
Sof(m, height, width, comps) ==
    Seg(m, <<8, 0, height, 0, width, Len(comps)>>
           \o FlattenSeq([k \in DOMAIN comps |-> <<comps[k][1], 16 * comps[k][2] + comps[k][3], comps[k][4]>>]))
ScanBytes(ids, tables, band) ==
    Seg(M_SOS, <<Len(ids)>> \o FlattenSeq([k \in DOMAIN ids |-> <<ids[k], tables>>]) \o band)
Sos(ids) == ScanBytes(ids, 0, <<0, 63, 0>>)
Dri(n) == Seg(M_DRI, <<0, n>>)
Com(bytes) == Seg(M_COM, bytes)
RstMark(k) == Mark(M_RST0 + (k % 8))
Jfif == Seg(M_APP0, <<74, 70, 73, 70, 0, 1, 1, 0, 0, 1, 0, 1, 0, 0>>)
Adobe == Seg(M_APP14, <<65, 100, 111, 98, 101, 0, 100, 0, 0, 0, 0, 0>>)
One == <<<<1, 1, 1, 0>>>>

\* Read in pieces: two images, with padding, bytes that belong to nothing, segments
\* that are skipped or saved, restarts, one of them lost.
TwoImages ==
    SOI \o Jfif \o Seg(M_DQT, <<0, 7, 8, 17, 1, 0, 0, 9>>) \o <<255>> \o Dht \o Com(<<97, 98, 99>>)
    \o Sof(M_SOF0, 8, 24, One) \o <<3, 255, 0>> \o Dri(1) \o Sos(<<1>>)
    \o <<11>> \o RstMark(0) \o <<12>> \o RstMark(1) \o <<255, 0>> \o EOI
    \o SOI \o Dqt(0, 3) \o EOI

\* Two scans of components of which one is sampled twice as finely, with a table
\* redefined between them, after a COM with an impossible length.
TwoScans ==
    SOI \o Dqt(0, 4) \o Mark(M_COM) \o <<0, 1>> \o Adobe
    \o Sof(M_SOF0, 16, 9, <<<<1, 2, 2, 0>>, <<2, 1, 1, 0>>>>) \o Dht \o Sos(<<1>>)
    \o <<21, 22, 23>> \o <<255, 255, 0>> \o Dqt(0, 14) \o Com(<<>>) \o Sos(<<2>>) \o <<25>>
    \o Seg(M_DNL, <<0, 1>>) \o EOI

\* An interleaved scan whose data end early, of which a restart is lost.
Interleaved ==
    SOI \o Dqt(0, 5) \o Dht \o Sof(M_SOF1, 8, 40, <<<<1, 2, 1, 0>>, <<2, 1, 1, 0>>>>) \o Dri(1)
    \o Sos(<<1, 2>>) \o <<31, 32, 33>> \o RstMark(1) \o <<34, 35>> \o RstMark(2) \o EOI

\* A progression: each scan needs one of the two tables, and a refinement of DC none.
SplitInScans ==
    SOI \o Dqt(0, 6) \o Dht \o Sof(M_SOF2, 8, 8, One) \o ScanBytes(<<1>>, 3, <<0, 0, 1>>)
    \o <<36>> \o ScanBytes(<<1>>, 48, <<1, 63, 0>>) \o <<37>> \o ScanBytes(<<1>>, 51, <<0, 0, 16>>) \o <<38>> \o EOI

Faulty == {
    SOI \o SOI, Mark(M_EOI), SOI \o EOI, SOI \o Sos(<<1>>) \o EOI,
    SOI \o Sof(M_SOF0, 8, 8, One) \o EOI, SOI \o Sof(M_SOF0, 0, 8, One),
    SOI \o Sof(M_SOF0, 8, 8, One) \o Sof(M_SOF0, 8, 8, One),
    SOI \o Sof(M_SOF0, 8, 8, <<<<1, 0, 1, 0>>>>) \o Sos(<<1>>),
    SOI \o Sof(M_SOF0, 8, 8, One) \o Sos(<<2>>), SOI \o Sof(M_SOF0, 8, 8, One) \o Sos(<<1>>),
    SOI \o Sof(M_SOF9, 8, 8, One) \o Sos(<<1>>) \o EOI, SOI \o Sof(195, 8, 8, One),
    SOI \o Sof(M_SOF0, 8, 8, <<<<1, 4, 4, 0>>, <<2, 1, 1, 0>>>>) \o Dqt(0, 1) \o Sos(<<1, 2>>) \o EOI,
    SOI \o Dqt(0, 1) \o Dht \o Sof(M_SOF0, 8, 8, One) \o Sos(<<1>>) \o <<5>> \o Sos(<<1>>) \o <<5>> \o EOI,
    SOI \o Dqt(0, 1) \o Dht \o Sof(M_SOF0, 8, 8, One) \o ScanBytes(<<1>>, 1, <<0, 63, 0>>),
    SOI \o Dqt(0, 1) \o Seg(M_DHT, <<0, 2, 0, 5, 6>>) \o Sof(M_SOF0, 8, 8, One) \o Sos(<<1>>),
    SOI \o Dqt(0, 1) \o Seg(M_DHT, <<0, 1, 0, 16>>) \o Sof(M_SOF2, 8, 8, One) \o ScanBytes(<<1>>, 0, <<0, 0, 0>>),
    SOI \o Dqt(0, 1) \o Dht \o Sof(M_SOF2, 8, 8, One) \o ScanBytes(<<1>>, 0, <<0, 1, 0>>),
    SOI \o Seg(M_DQT, <<4, 1, 1>>), SOI \o Seg(M_DQT, <<0, 1>>) \o EOI,
    SOI \o Seg(M_DHT, <<0, 0, 9, 5>>), SOI \o Seg(M_DHT, <<4, 0, 1, 5>>),
    SOI \o Seg(M_DRI, <<1>>), SOI \o Mark(200), SOI \o Mark(222) }

InPieces ==
    { [file |-> f, how |-> how, comments |-> None, apps |-> {}, behind |-> None, tables |-> None,
       blocks |-> None, damaged |-> {}]
      : f \in {TwoImages, TwoScans, Interleaved, SplitInScans} \cup Faulty, how \in {"discarding", Saving} }

\* stegdetect's images: a comment whose length shifts the ends of the loads, APPn, and
\* bytes behind the image; one component has two scans.  And one that is cut off.
Seen(pad, behind, cut) ==
    LET com  == [k \in 1..pad |-> k]
        body == SOI \o Com(com) \o Dqt(0, 7) \o Seg(M_APP0 + 1, <<1>>) \o Com(<<9>>) \o Dht
                \o Sof(M_SOF0, 8, 16, <<<<1, 1, 1, 0>>, <<2, 1, 1, 1>>>>) \o Dqt(1, 8)
                \o Sos(<<1>>) \o <<41, 42>> \o Dqt(0, 6) \o Dqt(1, 9) \o Sos(<<1>>) \o <<45, 46>>
                \o Sos(<<2>>) \o <<43>>
        end  == IF cut THEN None ELSE <<44>> \o EOI \o behind
    IN  [file |-> body \o end, how |-> Stegdetect, comments |-> <<com, <<9>>>>, apps |-> {1},
         behind |-> behind, tables |-> <<<<7, 8>>, <<9, 10>>>>, blocks |-> None,
         damaged |-> IF cut THEN {4} ELSE {}]

\* Twelve segments of one block each, with damage to segment k, or to the marker
\* behind it.
Segments == 12
Data(k) == IF k = 5 THEN <<255, 0>> ELSE <<50 + k>>
Healthy == [k \in 1..Segments |-> Data(k) \o (IF k = Segments THEN EOI ELSE RstMark(k - 1))]
Damaged(k, segment, hit) ==
    [file |-> SOI \o Dqt(0, 7) \o Dht \o Sof(M_SOF0, 8, 8 * Segments, One) \o Dri(1) \o Sos(<<1>>)
              \o FlattenSeq([Healthy EXCEPT ![k] = segment]),
     how |-> Stegdetect, comments |-> None, apps |-> {}, behind |-> None, tables |-> None,
     blocks |-> [i \in 1..Segments |-> IF i = 5 THEN <<255>> ELSE <<50 + i>>],
     damaged |-> hit]

Damages ==
    {Damaged(1, Healthy[1], {})}
    \cup { Damaged(k, Data(k), {k + 1}) : k \in 1..Segments - 1 }
    \cup { Damaged(k, Data(k) \o RstMark(k - 1) \o RstMark(k - 1), {k + 1, k + 2} ) : k \in 1..Segments - 1 }
    \cup { Damaged(k, Data(k) \o RstMark(n), {k + 1, k + 2, k + 3}) : k \in 1..Segments - 1, n \in 0..7 }
    \cup { Damaged(k, RstMark(k - 1), {k}) : k \in 1..Segments - 1 }
    \cup { Damaged(k, <<77>> \o Data(k) \o RstMark(k - 1), {k}) : k \in 1..Segments - 1 }
    \cup { Damaged(k, Data(k) \o <<77, 78, 255, 1, 79>> \o RstMark(k - 1), {}) : k \in 1..Segments - 1 }

MCInputs ==
    InPieces \cup Damages
    \cup { Seen(pad, [k \in 1..n |-> 60 + k], FALSE) : pad \in 0..5, n \in 0..9 }
    \cup { Seen(pad, <<>>, TRUE) : pad \in 0..5 }
=============================================================================
