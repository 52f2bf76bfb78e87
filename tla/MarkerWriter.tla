---------------------------- MODULE MarkerWriter ----------------------------
(***************************************************************************)
(* The tables and parameters of a JPEG compression object and the markers  *)
(* that carry them (jpeg-6b: jcparam.c, jcmarker.c, parts of jcapimin.c,   *)
(* jcapistd.c, jchuff.c and jcmaster.c).  One object writes several        *)
(* streams: images, files of tables alone, and images that leave out what  *)
(* the reader has already.  A table is written when its sent_table is      *)
(* FALSE; what makes a table clears it, and what writes it sets it.        *)
(*                                                                         *)
(* A reader takes the markers of each stream that came to its end, as      *)
(* jdmarker.c and jdapimin.c do, and keeps its tables between streams.     *)
(***************************************************************************)
EXTENDS Integers, Sequences, SequencesExt, FiniteSetsExt

CONSTANTS
    Spaces,      \* colour spaces jpeg_set_defaults() and jpeg_set_colorspace() are called for
    Qualities,   \* <<quality, force_baseline>> of jpeg_set_quality()
    Settings,    \* what an application sets for an image: [progressive, optimize: BOOLEANs,
                 \*  scans: a function of the number of components to a script, as in ScanScript,
                 \*  rows: restart_in_rows, interval: restart_interval]
    Codes,       \* Huffman tables that statistics may give; 0 is the standard table
    McusPerLine  \* MCUs_per_row of a scan, as a function of the number of its components

VARIABLES
    obj,         \* the compression object
    reader       \* what one knows who has read the streams that were written to their end

markerVars == <<obj, reader>>

-----------------------------------------------------------------------------
(* Parameters.                                                             *)

\* Components as jpeg_set_colorspace() sets them: identifier and numbers of the tables.
Part(id, q, t) == [id |-> id, quant |-> q, dc |-> t, ac |-> t]
Components(space) ==
    CASE space = "GRAYSCALE" -> <<Part(1, 0, 0)>>
      [] space = "RGB"       -> <<Part(82, 0, 0), Part(71, 0, 0), Part(66, 0, 0)>>
      [] space = "YCbCr"     -> <<Part(1, 0, 0), Part(2, 1, 1), Part(3, 1, 1)>>
      [] space = "CMYK"      -> <<Part(67, 0, 0), Part(77, 0, 0), Part(89, 0, 0), Part(75, 0, 0)>>
      [] space = "YCCK"      -> <<Part(1, 0, 0), Part(2, 1, 1), Part(3, 1, 1), Part(4, 0, 0)>>
\* The others are an error, but for JCS_UNKNOWN, which is left out.
ColorSpaces == {"GRAYSCALE", "RGB", "YCbCr", "CMYK", "YCCK"}
WriteJfif(space)  == space \in {"GRAYSCALE", "YCbCr"}
WriteAdobe(space) == space \in {"RGB", "CMYK", "YCCK"}
AdobeTransform(space) == IF space = "YCbCr" THEN 1 ELSE IF space = "YCCK" THEN 2 ELSE 0

\* jpeg_quality_scaling().
Quality_scaling(quality) ==
    LET q == Max({1, Min({quality, 100})}) IN IF q < 50 THEN 5000 \div q ELSE 200 - q * 2
\* jpeg_add_quant_table(), of the least and the greatest entry of a standard table.
Quantizers(basic, quality, force) ==
    [i \in DOMAIN basic |->
        LET temp == Min({Max({(basic[i] * Quality_scaling(quality) + 50) \div 100, 1}), 32767})
        IN  IF force /\ temp > 255 THEN 255 ELSE temp]
Luminance   == <<10, 121>>
Chrominance == <<17, 99>>

\* A slot of tables: <<"quant", n>>, <<"dc", n>> or <<"ac", n>>.
QuantSlots == {"quant"} \X {0, 1}
HuffSlots  == {"dc", "ac"} \X {0, 1}
Slots == QuantSlots \cup HuffSlots
NullTable == <<>>
\* New tables have to be sent.
Put(o, slot, value) == [o EXCEPT !.tables[slot] = value, !.sent[slot] = FALSE]
PutAll(o, slots, value) ==
    [o EXCEPT !.tables = [s \in Slots |-> IF s \in slots THEN value ELSE @[s]],
              !.sent = [s \in Slots |-> s \notin slots /\ @[s]]]

Set_quality(o, quality, force) ==
    Put(Put(o, <<"quant", 0>>, Quantizers(Luminance, quality, force)),
        <<"quant", 1>>, Quantizers(Chrominance, quality, force))
Std_huff_tables(o) == PutAll(o, HuffSlots, <<0>>)
Set_defaults(o, space) == [Std_huff_tables(Set_quality(o, 75, TRUE)) EXCEPT !.space = space, !.defined = TRUE]

-----------------------------------------------------------------------------
(* Markers: [kind, slot, value, parts], parts of use in SOF and SOS only.  *)

Segment(kind) == [kind |-> kind, slot |-> <<>>, value |-> <<>>, parts |-> <<>>]
Emit_marker(o, s) == [o EXCEPT !.stream = Append(@, s)]

\* emit_dqt() and emit_dht().
EmitTable(o, slot) ==
    IF o.sent[slot] THEN o
    ELSE [Emit_marker(o, [Segment("TABLE") EXCEPT !.slot = slot, !.value = o.tables[slot]]) EXCEPT !.sent[slot] = TRUE]
EmitTables(o, slots) == FoldLeft(EmitTable, o, slots)

\* write_file_header().
Write_file_header(o) ==
    LET soi == [Emit_marker(o, Segment("SOI")) EXCEPT !.last_restart_interval = 0]
        app0 == IF WriteJfif(o.space) THEN Emit_marker(soi, Segment("APP0")) ELSE soi
    IN  IF WriteAdobe(o.space)
        THEN Emit_marker(app0, [Segment("APP14") EXCEPT !.value = <<AdobeTransform(o.space)>>]) ELSE app0

\* write_frame_header(): the kind of frame depends on the tables of quantizers.
SixteenBit(table) == \E i \in DOMAIN table : table[i] > 255
Write_frame_header(o) ==
    LET comps == Components(o.space)
        y == EmitTables(o, [c \in DOMAIN comps |-> <<"quant", comps[c].quant>>])
        baseline == /\ ~o.image.progressive
                    /\ \A c \in DOMAIN comps : ~SixteenBit(o.tables[<<"quant", comps[c].quant>>])
    IN  Emit_marker(y, [Segment("SOF") EXCEPT
                    !.value = <<IF o.image.progressive THEN 2 ELSE IF baseline THEN 0 ELSE 1>>,
                    !.parts = [c \in DOMAIN comps |-> [id |-> comps[c].id, quant |-> comps[c].quant]]])

\* validate_script(): there are scans, each of one to four components that the image has.  What
\* it says of coefficients is in ScanScript.
ScriptValid(scans, comps) ==
    LET script == scans[comps]
    IN  /\ 1 \in DOMAIN script
        /\ \A k \in DOMAIN script : script[k].comps \in Seq(1..comps) /\ Len(script[k].comps) \in 1..4
Script(o) == o.image.scans[Len(Components(o.space))]
ScanOf(o) == Script(o)[o.scan]
CompsOf(o) == LET s == ScanOf(o) IN [i \in DOMAIN s.comps |-> Components(o.space)[s.comps[i]]]

\* Which tables the coder uses for a component in a scan.
NeedsDc(o) == ~o.image.progressive \/ (ScanOf(o).Ss = 0 /\ ScanOf(o).Ah = 0)
NeedsAc(o) == ~o.image.progressive \/ ScanOf(o).Ss # 0
SlotsOf(o, comp) == (IF NeedsDc(o) THEN <<<<"dc", comp.dc>>>> ELSE <<>>)
                    \o (IF NeedsAc(o) THEN <<<<"ac", comp.ac>>>> ELSE <<>>)

\* per_scan_setup() of restarts given in rows.
RestartInterval(o) ==
    IF o.image.rows > 0 THEN Min({o.image.rows * McusPerLine[Len(ScanOf(o).comps)], 65535})
    ELSE o.image.interval

EmitDri(o) ==
    IF RestartInterval(o) = o.last_restart_interval THEN o
    ELSE [Emit_marker(o, [Segment("DRI") EXCEPT !.value = <<RestartInterval(o)>>])
            EXCEPT !.last_restart_interval = RestartInterval(o)]

\* emit_sos(); the part of a component says also which tables and interval the coder used.
Emit_sos(o) ==
    LET comps == CompsOf(o)
        used(c) == {<<s, o.tables[s]>> : s \in ToSet(SlotsOf(o, comps[c]))
                                              \cup {<<"quant", comps[c].quant>>}}
    IN  Emit_marker(o, [Segment("SOS") EXCEPT
            !.value = <<RestartInterval(o)>>,
            !.parts = [c \in DOMAIN comps |->
                [id |-> comps[c].id, used |-> used(c),
                 dc |-> IF NeedsDc(o) THEN comps[c].dc ELSE 0, ac |-> IF NeedsAc(o) THEN comps[c].ac ELSE 0]]])

\* write_scan_header().
EmitHuffman(o, comp) == EmitTables(o, SlotsOf(o, comp))
Write_scan_header(o) == Emit_sos(EmitDri(FoldLeft(EmitHuffman, o, CompsOf(o))))

SlotsUsed(o) == UNION {ToSet(SlotsOf(o, CompsOf(o)[c])) : c \in DOMAIN CompsOf(o)}

\* Mutant of Gen_optimal_tables: sent_table is not cleared.
GenUnmarked(o, code) ==
    [o EXCEPT !.tables = [s \in Slots |-> IF s \in SlotsUsed(o) THEN <<code>> ELSE @[s]]]

\* finish_pass_gather(), which makes the tables of a scan from its statistics.
Gen_optimal_tables(o, code) == PutAll(o, SlotsUsed(o), <<code>>)

-----------------------------------------------------------------------------
(* A reader of the streams.                                                *)

NewReader == [tables |-> [s \in Slots |-> NullTable], interval |-> 0, jfif |-> FALSE, adobe |-> FALSE,
              transform |-> 0, frame |-> <<>>, readable |-> TRUE]

\* The number of the quantizers of a component of the frame.
QuantOf(frame, id) == (CHOOSE f \in ToSet(frame) : f.id = id).quant
\* What a scan needs of the reader: the tables its parts name hold what the coder used.
ScanReadable(r, s) ==
    /\ r.interval = s.value[1]
    /\ \A c \in DOMAIN s.parts : \A u \in s.parts[c].used :
        LET part == s.parts[c]
            slot == CASE u[1][1] = "dc" -> <<"dc", part.dc>>
                      [] u[1][1] = "ac" -> <<"ac", part.ac>>
                      [] OTHER -> <<"quant", QuantOf(r.frame, part.id)>>
        IN  r.tables[slot] = u[2]

\* A baseline frame has quantizers of 8 bits.
FrameReadable(r, s) ==
    s.value[1] = 0 => \A c \in DOMAIN s.parts : ~SixteenBit(r.tables[<<"quant", s.parts[c].quant>>])

Take_marker(r, s) ==
    CASE s.kind = "SOI"   -> [r EXCEPT !.interval = 0, !.jfif = FALSE, !.adobe = FALSE, !.transform = 0, !.frame = <<>>]
      [] s.kind = "APP0"  -> [r EXCEPT !.jfif = TRUE]
      [] s.kind = "APP14" -> [r EXCEPT !.adobe = TRUE, !.transform = s.value[1]]
      [] s.kind = "TABLE" -> [r EXCEPT !.tables[s.slot] = s.value]
      [] s.kind = "DRI"   -> [r EXCEPT !.interval = s.value[1]]
      [] s.kind = "SOF"   -> [r EXCEPT !.frame = s.parts, !.readable = @ /\ FrameReadable(r, s)]
      [] s.kind = "SOS"   -> [r EXCEPT !.readable = @ /\ ScanReadable(r, s)]
      [] s.kind = "EOI"   -> r

\* default_decompress_parms().
GuessedSpace(r) ==
    LET id(c) == r.frame[c].id
    IN  CASE Len(r.frame) = 1 -> "GRAYSCALE"
          [] Len(r.frame) = 3 ->
                IF r.jfif THEN "YCbCr"
                ELSE IF r.adobe THEN (IF r.transform = 0 THEN "RGB" ELSE "YCbCr")
                ELSE IF id(1) = 82 /\ id(2) = 71 /\ id(3) = 66 THEN "RGB" ELSE "YCbCr"
          [] Len(r.frame) = 4 -> IF r.adobe /\ r.transform # 0 THEN "YCCK" ELSE "CMYK"
          [] OTHER -> "UNKNOWN"

-----------------------------------------------------------------------------
(* What an application calls.                                              *)

NoSetting == [progressive |-> FALSE, optimize |-> FALSE, scans |-> <<>>, rows |-> 0, interval |-> 0]
CreateCompress ==
    [state |-> "start", defined |-> FALSE, space |-> "none", tables |-> [s \in Slots |-> NullTable],
     sent |-> [s \in Slots |-> FALSE], image |-> NoSetting, scan |-> 0, stream |-> <<>>,
     last_restart_interval |-> 0, cut |-> FALSE]
MarkerInit == obj = CreateCompress /\ reader = NewReader

\* jpeg_set_defaults() for a colour space, and jpeg_set_quality().
SetDefaults == obj.state = "start" /\ \E s \in Spaces \cap ColorSpaces : obj' = Set_defaults(obj, s) /\ UNCHANGED reader
SetQuality ==
    /\ obj.state = "start" /\ obj.defined
    /\ \E q \in Qualities : obj' = Set_quality(obj, q[1], q[2])
    /\ UNCHANGED reader

Read_stream(segments, space) ==
    LET r == FoldLeft(Take_marker, reader, segments)
    IN  [NewReader EXCEPT !.tables = r.tables,
                          !.readable = r.readable /\ (space # "none" => GuessedSpace(r) = space)]
Ended(o) == [o EXCEPT !.state = "start", !.scan = 0, !.image = NoSetting, !.stream = <<>>]

\* jpeg_write_tables(): every table that is defined and not sent.
Write_tables ==
    /\ obj.state = "start" /\ obj.defined
    /\ LET y == EmitTables(Emit_marker(obj, Segment("SOI")),
                           <<<<"quant", 0>>, <<"quant", 1>>, <<"dc", 0>>, <<"ac", 0>>, <<"dc", 1>>, <<"ac", 1>>>>)
       IN  /\ reader' = Read_stream(Append(y.stream, Segment("EOI")), "none")
           /\ obj' = Ended(y)

\* jpeg_start_compress().  After a stream that was given up its tables have to be written.  A
\* script that is refused leaves the object as it was, with all tables to be written if asked for.
Start(write_all) ==
    /\ obj.state = "start" /\ obj.defined
    /\ obj.cut => write_all
    /\ \E image \in Settings :
        LET o == IF write_all THEN [obj EXCEPT !.sent = [s \in Slots |-> FALSE]] ELSE obj
        IN  obj' = IF ScriptValid(image.scans, Len(Components(obj.space)))
                   THEN Write_file_header([o EXCEPT !.state = "open", !.image = image, !.scan = 0,
                                                    !.cut = FALSE])
                   ELSE o
    /\ UNCHANGED reader

\* The headers of the next scan, after the pass for its statistics if there is one.
Next_scan ==
    /\ obj.state = "open" /\ obj.scan + 1 \in DOMAIN Script(obj)
    /\ \E code \in Codes :
        LET o == [obj EXCEPT !.scan = @ + 1]
            y == IF o.image.optimize \/ o.image.progressive THEN Gen_optimal_tables(o, code) ELSE o
        IN  obj' = Write_scan_header(IF o.scan = 1 THEN Write_frame_header(y) ELSE y)
    /\ UNCHANGED reader

\* jpeg_finish_compress(), and jpeg_abort_compress(): what the buffer of the destination holds
\* is lost with it.
Finish_compress ==
    /\ obj.state = "open" /\ obj.scan + 1 \notin DOMAIN Script(obj)
    /\ reader' = Read_stream(Append(obj.stream, Segment("EOI")), obj.space)
    /\ obj' = Ended(obj)
Abort_compress ==
    /\ obj.state = "open"
    /\ obj' = [Ended(obj) EXCEPT !.cut = TRUE]
    /\ UNCHANGED reader

MarkerNext ==
    \/ SetDefaults \/ SetQuality \/ Write_tables
    \/ \E b \in BOOLEAN : Start(b)
    \/ Next_scan \/ Finish_compress \/ Abort_compress

MarkerSpec == MarkerInit /\ [][MarkerNext]_markerVars

-----------------------------------------------------------------------------
\* One who reads the streams of an object in their order, with tables kept between them, takes
\* its images to be in the colours they are in and decodes each scan with the tables and the
\* restart interval it was coded with; a frame that says baseline is one (jcmarker.c,
\* jcparam.c, jcapimin.c: "abbreviated").
StreamsReadable == reader.readable
=============================================================================
