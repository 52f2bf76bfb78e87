------------------------------- MODULE Entropy -------------------------------
(***************************************************************************)
(* The Huffman coders of the JPEG library: jchuff.c and jdhuff.c for       *)
(* sequential scans, jcphuff.c and jdphuff.c for progressive ones.  Each   *)
(* scan of an image is encoded twice, first to count its symbols, then     *)
(* with the table made of the counts, and decoded MCU by MCU, where the    *)
(* decoder may have to suspend within each and begin it again.             *)
(*                                                                         *)
(* What is written is a sequence of tokens: a symbol, n bits of a value,   *)
(* or a restart marker.  Coefficients are numbered in zigzag order.  An    *)
(* MCU of a scan of several components has one block of each.              *)
(***************************************************************************)
EXTENDS ScanScript, FiniteSetsExt

CONSTANTS
    MAX_CORR_BITS,
    MaxEOBRUN,      \* 0x7FFF in the code
    MaxCodeLength,  \* 16 in the code
    MaxCoefBits,    \* MAX_COEF_BITS
    Images,         \* [image: comp -> sequence of blocks, script: scans, interval]
    Frequencies,    \* counts of symbols for which tables are made
    MaxSuspends     \* bound: suspensions of a decoder

VARIABLES
    job,      \* the image and the scans that it is written in
    scan,     \* the number of the scan
    codes,    \* the Huffman table of the scan
    stream,   \* its tokens
    decoder,  \* the decoder, and the coefficients it has stored
    suspends
entropyVars == <<job, scan, codes, stream, decoder, suspends>>

Pseudo == 256   \* a symbol that takes the code of all ones
ZRL == 240
NoImage == [image |-> <<>>, script |-> <<>>, interval |-> 0]   \* only a table is made
NoTable == [length |-> <<>>, order |-> <<>>, counted |-> {}]

Sym(s) == <<"symbol", s>>
BitsOf(v, n) == <<"bits", n, v % 2^n>>
Rst(n) == <<"restart", n>>

-----------------------------------------------------------------------------
(* Huffman tables                                                          *)

\* The least frequent symbol that is left, the larger of equals.
Least(freq, but) ==
    LET left == {s \in DOMAIN freq \ but : freq[s] # 0}
        v    == Min({freq[s] : s \in left})
    IN  Max({s \in left : freq[s] = v})

\* One turn of the loop that merges trees; others[] is the set of the symbols of a tree.
Merge(t) ==
    LET c1 == Least(t.freq, {})
        c2 == Least(t.freq, {c1})
    IN  IF Cardinality({s \in DOMAIN t.freq : t.freq[s] # 0}) < 2 THEN t
        ELSE [freq     |-> [t.freq EXCEPT ![c1] = @ + t.freq[c2], ![c2] = 0],
              tree     |-> [t.tree EXCEPT ![c1] = @ \cup t.tree[c2]],
              codesize |-> [s \in DOMAIN t.freq |->
                              IF s \in t.tree[c1] \cup t.tree[c2]
                              THEN t.codesize[s] + 1 ELSE t.codesize[s]]]

\* The adjustment of one pair of codes that are too long.
Shorten(bits) ==
    IF \A l \in DOMAIN bits : l > MaxCodeLength => bits[l] = 0 THEN bits
    ELSE LET i == Max({l \in DOMAIN bits : bits[l] > 0})
             j == Max({l \in 1..i - 2 : bits[l] > 0})
         IN  [l \in DOMAIN bits |->
                bits[l] - (IF l = i THEN 2 ELSE 0) + (IF l = i - 1 THEN 1 ELSE 0)
                        + (IF l = j + 1 THEN 2 ELSE 0) - (IF l = j THEN 1 ELSE 0)]

\* jpeg_gen_optimal_table(): bits[] by code length, huffval[] in the order of lengths; counted is
\* history: the symbols it was made for.
GenOptimalTable(counts) ==
    LET freq  == [s \in DOMAIN counts \cup {Pseudo} |-> IF s = Pseudo THEN 1 ELSE counts[s]]
        n     == Cardinality(DOMAIN freq)
        Lengths(codesize) == [l \in 1..n |-> Cardinality({s \in DOMAIN freq : codesize[s] = l})]
        WithoutPseudo(bits) == [bits EXCEPT ![Max({l \in 1..n : bits[l] > 0})] = @ - 1]
        Table(codesize) ==
            [length |-> WithoutPseudo(FoldLeft(LAMBDA b, k : Shorten(b), Lengths(codesize),
                                               [k \in 1..2 * n |-> k])),
             order  |-> FlattenSeq([l \in 1..n |-> SelectSeq([k \in 1..Pseudo |-> k - 1],
                            LAMBDA s : s \in DOMAIN counts /\ codesize[s] = l)]),
             counted |-> {s \in DOMAIN counts : counts[s] > 0}]
    IN  Table(FoldLeft(LAMBDA x, k : Merge(x),
                       [freq |-> freq, tree |-> [s \in DOMAIN freq |-> {s}],
                        codesize |-> [s \in DOMAIN freq |-> 0]], [k \in 1..n |-> k]).codesize)

\* huffsize[] and huffcode[]: by the place of the symbol in huffval[].
HuffSize(table) == FlattenSeq([l \in DOMAIN table.length |-> [k \in 1..table.length[l] |-> l]])
HuffCode(table) ==
    LET size == HuffSize(table)
        c    == FoldLeft(LAMBDA x, p :
                    LET code == (x.code) * 2^(size[p] - x.size)
                    IN  [codes |-> Append(x.codes, code), code |-> code + 1, size |-> size[p]],
                    [codes |-> <<>>, code |-> 0, size |-> 1], [p \in DOMAIN size |-> p])
    IN  c.codes

\* The check of jpeg_make_c_derived_tbl() and jpeg_make_d_derived_tbl().
LegalTable(table) ==
    /\ \A p \in DOMAIN HuffSize(table) : HuffCode(table)[p] + 1 < 2^HuffSize(table)[p]
    /\ Len(table.order) = Len(HuffSize(table))

\* jpeg_huff_decode(): bit by bit until the code is not above the largest of its length.
HuffDecode(table, value, have) ==
    LET size  == HuffSize(table)
        code  == HuffCode(table)
        Of(l) == {p \in DOMAIN size : size[p] = l}
        Ends(l) == Of(l) # {} /\ value \div 2^(have - l) <= code[Max(Of(l))]
        l     == Min({x \in 1..have : Ends(x)})
    IN  [length |-> l,
         symbol |-> table.order[(value \div 2^(have - l)) + Min(Of(l)) - code[Min(Of(l))]]]

-----------------------------------------------------------------------------
(* Encoders, as functions of a record e; after an error nothing is encoded. *)

NewEncoder(gather) ==
    [gather |-> gather, counts |-> [s \in {} |-> 0], out |-> <<>>, err |-> "none",
     EOBRUN |-> 0, BE |-> <<>>, last_dc |-> [c \in DOMAIN job.image |-> 0],
     to_go |-> job.interval, next |-> 0]

Magnitude(v) == IF v < 0 THEN -v ELSE v
NBits(v) == CHOOSE n \in 0..MaxCoefBits + 2 : 2^n > Magnitude(v) /\ (n > 0 => 2^(n - 1) <= Magnitude(v))
\* A negative value is written as the complement of its magnitude.
Written(v, n) == BitsOf(IF v < 0 THEN v - 1 ELSE v, n)

EmitSymbol(e, s) ==
    IF e.gather
    THEN [e EXCEPT !.counts = [u \in DOMAIN @ \cup {s} |->
                                (IF u \in DOMAIN @ THEN @[u] ELSE 0) + (IF u = s THEN 1 ELSE 0)]]
    ELSE IF s \notin ToSet(codes.order) THEN [e EXCEPT !.err = "MISSING_CODE"]
    ELSE [e EXCEPT !.out = Append(@, Sym(s))]
Emit(e, tokens) == IF e.gather THEN e ELSE [e EXCEPT !.out = @ \o tokens]

EmitValue(e, symbol, v, limit) ==
    LET n == NBits(v)
    IN  IF n > limit THEN [e EXCEPT !.err = "BAD_DCT_COEF"]
        ELSE Emit(EmitSymbol(e, symbol + n), IF n = 0 THEN <<>> ELSE <<Written(v, n)>>)

\* encode_one_block(), and htest_one_block(), which counts.
EncodeOneBlock(e, block, c) ==
    LET dc == EmitValue(e, 0, block[1] - e.last_dc[c], MaxCoefBits + 1)
        End(ac) == [(IF ac.r > 0 THEN EmitSymbol(ac.e, 0) ELSE ac.e) EXCEPT !.last_dc[c] = block[1]]
    IN  End(FoldLeft(LAMBDA t, k :
                IF t.e.err # "none" THEN t
                ELSE IF block[k] = 0 THEN [t EXCEPT !.r = @ + 1]
                ELSE [e |-> EmitValue(FoldLeft(LAMBDA x, i : EmitSymbol(x, ZRL), t.e,
                                               [i \in 1..t.r \div 16 |-> i]),
                                      16 * (t.r % 16), block[k], MaxCoefBits),
                      r |-> 0],
                [e |-> dc, r |-> 0], [k \in 1..CoefCount - 1 |-> k + 1]))

\* emit_eobrun(), with the correction bits that belong to the run.
EmitEobrun(e) ==
    LET n == NBits(e.EOBRUN) - 1
        s == EmitSymbol(e, 16 * n)
    IN  IF e.EOBRUN = 0 THEN e
        ELSE [Emit(s, (IF n = 0 THEN <<>> ELSE <<BitsOf(e.EOBRUN, n)>>) \o e.BE)
                EXCEPT !.EOBRUN = 0, !.BE = <<>>]

EncodeDCFirst(e, block, c, Al) ==
    LET v == block[1] \div 2^Al
    IN  [EmitValue(e, 0, v - e.last_dc[c], MaxCoefBits + 1) EXCEPT !.last_dc[c] = v]

EncodeDCRefine(e, block, Al) == Emit(e, <<BitsOf(block[1] \div 2^Al, 1)>>)

\* The point transform of an AC coefficient rounds towards zero.
Point(v, Al) == IF v < 0 THEN -((-v) \div 2^Al) ELSE v \div 2^Al

EncodeACFirst(e, block, s) ==
    LET Counted(e1) == IF e1.EOBRUN = MaxEOBRUN THEN EmitEobrun(e1) ELSE e1
        End(t) == IF t.r = 0 THEN t.e ELSE Counted([t.e EXCEPT !.EOBRUN = @ + 1])
    IN  End(FoldLeft(LAMBDA x, k :
                LET v == Point(block[k + 1], s.Al)
                IN  IF x.e.err # "none" THEN x
                    ELSE IF v = 0 THEN [x EXCEPT !.r = @ + 1]
                    ELSE [e |-> EmitValue(FoldLeft(LAMBDA y, i : EmitSymbol(y, ZRL),
                                                   EmitEobrun(x.e), [i \in 1..x.r \div 16 |-> i]),
                                          16 * (x.r % 16), v, MaxCoefBits),
                          r |-> 0],
                [e |-> e, r |-> 0], [i \in 1..s.Se - s.Ss + 1 |-> s.Ss + i - 1]))

\* encode_mcu_AC_refine().  BR: correction bits of this block that wait for a code.
\* BE and BR share a buffer of MAX_CORR_BITS.
EncodeACRefine(e, block, s) ==
    LET Abs(k) == Magnitude(Point(block[k + 1], s.Al))
        EOB == Max({0} \cup {k \in s.Ss..s.Se : Abs(k) = 1})
        Flushed(x) == [e |-> Emit(x.e, x.BR), BR |-> <<>>, r |-> x.r]
        Zrl(x) == [Flushed([x EXCEPT !.e = EmitSymbol(EmitEobrun(x.e), ZRL)]) EXCEPT !.r = @ - 16]
        Zrls(x, k) == FoldLeft(LAMBDA y, i : Zrl(y), x,
                               [i \in 1..(IF k <= EOB THEN x.r \div 16 ELSE 0) |-> i])
        Kept(x) == IF Len(x.e.BE) + Len(x.BR) <= MAX_CORR_BITS THEN x ELSE [x EXCEPT !.e.err = "overrun"]
        New(x, k) ==
            [Flushed([x EXCEPT !.e = Emit(EmitSymbol(EmitEobrun(x.e), 16 * x.r + 1),
                                          <<BitsOf(IF block[k + 1] < 0 THEN 0 ELSE 1, 1)>>)])
                EXCEPT !.r = 0]
        Coded(z, k) == IF Abs(k) > 1 THEN Kept([z EXCEPT !.BR = Append(@, BitsOf(Abs(k), 1))])
                       ELSE New(z, k)
        Turn(x, k) == IF x.e.err # "none" THEN x
                      ELSE IF Abs(k) = 0 THEN [x EXCEPT !.r = @ + 1]
                      ELSE Coded(Zrls(x, k), k)
        Counted(e1) == IF e1.EOBRUN = MaxEOBRUN \/ Len(e1.BE) > MAX_CORR_BITS - CoefCount + 1
                       THEN EmitEobrun(e1) ELSE e1
        End(t) == IF t.r = 0 /\ t.BR = <<>> THEN t.e
                  ELSE Counted([t.e EXCEPT !.EOBRUN = @ + 1, !.BE = @ \o t.BR])
    IN  End(FoldLeft(Turn, [e |-> e, BR |-> <<>>, r |-> 0],
                     [i \in 1..s.Se - s.Ss + 1 |-> s.Ss + i - 1]))

\* emit_restart(), of both encoders; of encode_mcu_gather() what it counts.
EmitRestart(e0) ==
    LET Begin(e) == [Emit(e, <<Rst(e.next)>>) EXCEPT
                        !.last_dc = [c \in DOMAIN @ |-> 0], !.EOBRUN = 0, !.BE = <<>>,
                        !.to_go = job.interval, !.next = (@ + 1) % 8]
    IN  Begin(EmitEobrun(e0))

EncodeMCU(e0, m, s) ==
    LET e == IF job.interval # 0 /\ e0.to_go = 0 THEN EmitRestart(e0) ELSE e0
        Block(c) == job.image[c][m]
        Coded(x, c) ==
            CASE ~Progressive(job.script) -> EncodeOneBlock(x, Block(c), c)
              [] s.Ss = 0 /\ s.Ah = 0 -> EncodeDCFirst(x, Block(c), c, s.Al)
              [] s.Ss = 0 /\ s.Ah # 0 -> EncodeDCRefine(x, Block(c), s.Al)
              [] s.Ss # 0 /\ s.Ah = 0 -> EncodeACFirst(x, Block(c), s)
              [] s.Ss # 0 /\ s.Ah # 0 -> EncodeACRefine(x, Block(c), s)
    IN  IF e0.err # "none" THEN e0
        ELSE [FoldLeft(Coded, e, s.comps) EXCEPT !.to_go = IF job.interval = 0 THEN 0 ELSE @ - 1]

\* A pass over a scan, with finish_pass.
EncodeScan(gather, s) ==
    EmitEobrun(FoldLeft(LAMBDA e, m : EncodeMCU(e, m, s), NewEncoder(gather),
                        [m \in DOMAIN job.image[s.comps[1]] |-> m]))

-----------------------------------------------------------------------------
(* Decoders.  t: where decode_mcu() is; end: the tokens that have arrived. *)

NewDecoder ==
    [pos |-> 0, mcu |-> 1, EOBRUN |-> 0, last_dc |-> [c \in DOMAIN job.image |-> 0],
     to_go |-> job.interval, next |-> 0, ret |-> "ok",
     coefs |-> [c \in DOMAIN job.image |-> [m \in DOMAIN job.image[c] |-> [k \in 1..CoefCount |-> 0]]]]

\* The next token must be of a kind: what is read otherwise are other bits than were
\* written.
Ready(t, kind, n) ==
    t.pos < t.end /\ stream[t.pos + 1][1] = kind /\ (kind = "bits" => stream[t.pos + 1][2] = n)
Fetch(t) == stream[t.pos + 1][Len(stream[t.pos + 1])]
Stopped(t) == [t EXCEPT !.ret = IF t.pos >= t.end THEN "suspended" ELSE "desync"]

HuffExtend(x, n) == IF n > 0 /\ x < 2^(n - 1) THEN x - 2^n + 1 ELSE x

\* A symbol and the value behind it; t.sym is the run of zeros, t.val the value.
ReadValue(t) ==
    LET s == Fetch(t)
        n == s % 16
        u == [t EXCEPT !.pos = @ + 1]
    IN  IF ~Ready(t, "symbol", 0) THEN Stopped(t)
        ELSE IF n = 0 THEN [u EXCEPT !.run = s \div 16, !.val = 0]
        ELSE IF ~Ready(u, "bits", n) THEN Stopped(u)
        ELSE [u EXCEPT !.pos = @ + 1, !.run = s \div 16, !.val = HuffExtend(Fetch(u), n)]

Differs(t, c) == [t EXCEPT !.val = @ + t.last_dc[c], !.last_dc[c] = @ + t.val]

\* The number of the run that an EOBn code begins, this block counted.
ReadEobrun(t) ==
    IF t.run = 0 THEN [t EXCEPT !.EOBRUN = 1]
    ELSE IF ~Ready(t, "bits", t.run) THEN Stopped(t)
    ELSE [t EXCEPT !.EOBRUN = 2^t.run + Fetch(t), !.pos = @ + 1]

\* One coefficient of the loops of decode_mcu() and decode_mcu_AC_first().
ACTurn(t, s) ==
    LET Had(u) ==
            IF u.ret # "ok" THEN u
            ELSE IF u.val # 0
            THEN [u EXCEPT !.block[u.k + u.run + 1] = u.val * 2^s.Al, !.k = u.k + u.run + 1]
            ELSE IF u.run = 15 THEN [u EXCEPT !.k = @ + 16]
            ELSE IF ~Progressive(job.script) THEN [u EXCEPT !.k = s.Se + 1]
            ELSE [ReadEobrun(u) EXCEPT !.k = s.Se + 1]
    IN  IF t.ret # "ok" \/ t.k > s.Se THEN t ELSE Had(ReadValue(t))

ACTurns(t, s, from) ==
    FoldLeft(LAMBDA u, i : ACTurn(u, s), [t EXCEPT !.k = from], [i \in from..s.Se |-> i])

DecodeSequential(t, c, s) ==
    LET Rest(dc) == ACTurns([dc EXCEPT !.block[1] = dc.val],
                            [s EXCEPT !.Se = CoefCount - 1, !.Al = 0], 1)
        Had(u) == IF u.ret # "ok" THEN u ELSE Rest(Differs(u, c))
    IN  Had(ReadValue(t))

DecodeDCFirst(t, c, s) ==
    LET Stored(dc) == [dc EXCEPT !.block[1] = dc.val * 2^s.Al]
        Had(u) == IF u.ret # "ok" THEN u ELSE Stored(Differs(u, c))
    IN  Had(ReadValue(t))

\* A bit that is set already is left so.
WithBit(v, Al) == IF (v \div 2^Al) % 2 = 1 THEN v ELSE v + 2^Al
DecodeDCRefine(t, s) ==
    IF ~Ready(t, "bits", 1) THEN Stopped(t)
    ELSE [t EXCEPT !.pos = @ + 1,
                   !.block[1] = IF Fetch(t) = 1 THEN WithBit(@, s.Al) ELSE @]

DecodeACFirst(t, s) ==
    LET End(u) == IF u.ret = "ok" /\ u.EOBRUN > 0 THEN [u EXCEPT !.EOBRUN = @ - 1] ELSE u
    IN  End(IF t.EOBRUN > 0 THEN t ELSE ACTurns(t, s, s.Ss))

\* Mutant of Corrected: the bit is added whether it was before or not.
CorrectedTwice(t, k, Al) ==
    LET v == t.block[k + 1]
    IN  IF ~Ready(t, "bits", 1) THEN Stopped(t)
        ELSE [t EXCEPT !.pos = @ + 1,
                       !.block[k + 1] = IF Fetch(t) = 0 THEN @
                                        ELSE IF v >= 0 THEN @ + 2^Al ELSE @ - 2^Al]

\* A coefficient that is not zero gets a correction bit, once: (*thiscoef & p1) in two's
\* complement.
Corrected(t, k, Al) ==
    LET v == t.block[k + 1]
    IN  IF ~Ready(t, "bits", 1) THEN Stopped(t)
        ELSE [t EXCEPT !.pos = @ + 1,
                       !.block[k + 1] = IF Fetch(t) = 0 \/ (v \div 2^Al) % 2 = 1 THEN @
                                        ELSE IF v >= 0 THEN @ + 2^Al ELSE @ - 2^Al]

\* One step of decode_mcu_AC_refine(): mode "code" reads a symbol, "advance" passes a
\* coefficient on the way to the new one, "rest" those behind the end of band.
RefineTurn(t, s) ==
    LET u == [t EXCEPT !.pos = @ + 1]
        code == Fetch(t)
        Passed(c) == IF c.ret # "ok" THEN c ELSE [c EXCEPT !.k = @ + 1]
        Placed(x) == IF x.val = 0 THEN x
                     ELSE [x EXCEPT !.block[x.k + 1] = x.val, !.newnz = @ \cup {x.k}]
    IN  IF t.ret # "ok" \/ t.mode = "done" THEN t
        ELSE IF t.k > s.Se THEN [t EXCEPT !.mode = "done"]
        ELSE IF t.mode = "code"
        THEN IF ~Ready(t, "symbol", 0) THEN Stopped(t)
             ELSE IF code % 16 # 0
             THEN IF ~Ready(u, "bits", 1) THEN Stopped(u)
                  ELSE [u EXCEPT !.pos = @ + 1, !.run = code \div 16, !.mode = "advance",
                                 !.val = IF Fetch(u) = 1 THEN 2^s.Al ELSE -(2^s.Al)]
             ELSE IF code = ZRL THEN [u EXCEPT !.run = 15, !.val = 0, !.mode = "advance"]
             ELSE [ReadEobrun([u EXCEPT !.run = code \div 16]) EXCEPT !.mode = "rest"]
        ELSE IF t.block[t.k + 1] # 0
        THEN Passed(Corrected(t, t.k, s.Al))
        ELSE IF t.mode = "advance" /\ t.run = 0 THEN [Placed(t) EXCEPT !.k = @ + 1, !.mode = "code"]
        ELSE [t EXCEPT !.k = @ + 1, !.run = IF t.mode = "advance" THEN @ - 1 ELSE @]

\* What a suspension leaves of the block: new coefficients are undone, correction bits
\* are not.
Undone(t) == [t EXCEPT !.block = [k \in DOMAIN @ |-> IF k - 1 \in t.newnz THEN 0 ELSE @[k]]]

DecodeACRefine(t, s) ==
    LET End(u) == IF u.ret # "ok" THEN Undone(u)
                  ELSE IF u.EOBRUN > 0 THEN [u EXCEPT !.EOBRUN = @ - 1] ELSE u
    IN  End(FoldLeft(LAMBDA x, i : RefineTurn(x, s),
                     [t EXCEPT !.k = s.Ss, !.mode = IF t.EOBRUN = 0 THEN "code" ELSE "rest"],
                     [i \in 1..2 * (s.Se - s.Ss + 1) + 2 |-> i]))

\* process_restart(), with the marker there.
Restarted(d, end) ==
    IF job.interval = 0 \/ d.to_go # 0 THEN d
    ELSE IF d.pos >= end THEN [d EXCEPT !.ret = "suspended"]
    ELSE IF stream[d.pos + 1] # Rst(d.next) THEN [d EXCEPT !.ret = "desync"]
    ELSE [d EXCEPT !.pos = @ + 1, !.last_dc = [c \in DOMAIN @ |-> 0], !.EOBRUN = 0,
                   !.to_go = job.interval, !.next = (@ + 1) % 8]

\* decode_mcu(), of the tokens up to end.  After a suspension, the state of the bits,
\* the predictions and the run are those from before the MCU.
DecodeEntropyMCU(d0, end, s) ==
    LET Block(b, c) ==
            CASE ~Progressive(job.script) -> DecodeSequential(b, c, s)
              [] s.Ss = 0 /\ s.Ah = 0 -> DecodeDCFirst(b, c, s)
              [] s.Ss = 0 /\ s.Ah # 0 -> DecodeDCRefine(b, s)
              [] s.Ss # 0 /\ s.Ah = 0 -> DecodeACFirst(b, s)
              [] s.Ss # 0 /\ s.Ah # 0 -> DecodeACRefine(b, s)
        Done(u) == [u EXCEPT !.blocks = Append(@, u.block)]
        Blocks(d) ==
            FoldLeft(LAMBDA t, c : IF t.ret # "ok" THEN t
                                   ELSE Done(Block([t EXCEPT !.block = d.coefs[c][d.mcu]], c)),
                     [pos |-> d.pos, end |-> end, EOBRUN |-> d.EOBRUN, last_dc |-> d.last_dc, ret |-> "ok",
                      k |-> 0, run |-> 0, val |-> 0, mode |-> "", newnz |-> {}, block |-> <<>>,
                      blocks |-> <<>>],
                     s.comps)
        At(c) == Min({i \in DOMAIN s.comps : s.comps[i] = c})
        Stored(d, t) == [d EXCEPT !.coefs = [c \in DOMAIN @ |->
                            IF c \notin ToSet(s.comps) \/ At(c) > Len(t.blocks) THEN @[c]
                            ELSE [@[c] EXCEPT ![d.mcu] = t.blocks[At(c)]]]]
        End(d, t) ==
            IF t.ret # "ok" THEN [Stored(d, t) EXCEPT !.ret = t.ret]
            ELSE [Stored(d, t) EXCEPT !.pos = t.pos, !.EOBRUN = t.EOBRUN, !.last_dc = t.last_dc,
                                      !.to_go = IF job.interval = 0 THEN 0 ELSE @ - 1, !.mcu = @ + 1]
        Go(d) == IF d.ret # "ok" THEN d ELSE End(d, Blocks(d))
    IN  Go(Restarted([d0 EXCEPT !.ret = "ok"], end))

-----------------------------------------------------------------------------

\* An image to be written, or only a table to be made.
EntropyInit ==
    /\ \/ job \in Images /\ codes = NoTable
       \/ \E f \in Frequencies : job = NoImage /\ codes = GenOptimalTable(f)
    /\ scan = 0 /\ stream = <<>> /\ suspends = 0 /\ decoder = NewDecoder

Scan == job.script[scan]
McusOf(s) == Len(job.image[s.comps[1]])

CompCount == Len(job.image)
\* The bits that the decoder knows of after n scans.
BitsSent(n) == FoldLeft(AfterScan, NoBits(CompCount), SubSeq(job.script, 1, n))

\* The passes of the encoder over the next scan of a script that it accepts.
EncodeNextScan ==
    /\ scan < Len(job.script) /\ Validate_script(job.script, CompCount) /\ (scan > 0 => decoder.mcu > McusOf(Scan)) /\ decoder.ret = "ok"
    /\ scan' = scan + 1
    /\ codes' = LET Made(counts) == IF DOMAIN counts = {} THEN NoTable ELSE GenOptimalTable(counts)
                IN  Made(EncodeScan(TRUE, job.script[scan + 1]).counts)
    /\ stream' = <<>>
    /\ decoder' = [decoder EXCEPT !.ret = "table"]
    /\ UNCHANGED <<job, suspends>>

\* The second pass, and the start of the decoder's.
WriteScan ==
    /\ decoder.ret = "table"
    /\ \E e \in {EncodeScan(FALSE, Scan)} :
           /\ stream' = e.out
           /\ decoder' = [NewDecoder EXCEPT
                            !.coefs = decoder.coefs,
                            !.ret = IF e.err # "none" THEN e.err
                                    ELSE IF ~Progressive(job.script) THEN "ok"
                                    ELSE Start_pass(BitsSent(scan - 1), Scan)]
    /\ UNCHANGED <<job, scan, codes, suspends>>

\* An MCU is decoded when all its tokens are there, or the decoder suspends.
DecodeNextMCU ==
    /\ scan > 0 /\ decoder.ret \in {"ok", "suspended"} /\ decoder.mcu <= McusOf(Scan)
    /\ decoder' = DecodeEntropyMCU(decoder, Len(stream), Scan)
    /\ UNCHANGED <<job, scan, codes, stream, suspends>>

SuspendMCU ==
    /\ scan > 0 /\ decoder.ret = "ok" /\ decoder.mcu <= McusOf(Scan) /\ suspends < MaxSuspends
    /\ suspends' = suspends + 1
    /\ \E end \in decoder.pos..Len(stream) - 1 :
        /\ decoder' = DecodeEntropyMCU(decoder, end, Scan)
        /\ decoder'.ret = "suspended"
    /\ UNCHANGED <<job, scan, codes, stream>>

EntropyNext == EncodeNextScan \/ WriteScan \/ DecodeNextMCU \/ SuspendMCU
EntropySpec == EntropyInit /\ [][EntropyNext]_entropyVars

-----------------------------------------------------------------------------

\* The image without the bits that were not sent.
ImageSent(bits) ==
    [c \in DOMAIN job.image |-> [m \in DOMAIN job.image[c] |-> [k \in 1..CoefCount |->
        LET Al == bits[c][k - 1]
            v  == job.image[c][m][k]
        IN  IF Al < 0 THEN 0 ELSE IF k = 1 THEN (v \div 2^Al) * 2^Al ELSE Point(v, Al) * 2^Al]]]

\* What the decoder has after each scan of a script that the encoder accepts are the bits of
\* the image that were sent so far, whatever the scans were, where the decoder was suspended,
\* and where runs and restarts began and ended; it never reads other bits than were written
\* for what it reads, and does not complain of the script.
RoundTrip ==
    /\ decoder.ret \in {"ok", "suspended", "table"}
    /\ scan > 0 /\ decoder.ret = "ok" /\ decoder.mcu > McusOf(Scan)
        => decoder.coefs = ImageSent(BitsSent(scan))

\* A table made of any counts gives each symbol that was counted one code, no longer than
\* allowed, and the decoder's search finds each from its code with anything behind it.
CodesDecode ==
    LET size == HuffSize(codes)
        code == HuffCode(codes)
        n    == MaxCodeLength + 1
    IN  /\ LegalTable(codes) /\ ToSet(codes.order) = codes.counted
        /\ \A p \in DOMAIN size :
            /\ size[p] <= MaxCodeLength
            /\ \A behind \in {0, 2^(n - size[p]) - 1} :
                HuffDecode(codes, code[p] * 2^(n - size[p]) + behind, n)
                    = [length |-> size[p], symbol |-> codes.order[p]]
=============================================================================
