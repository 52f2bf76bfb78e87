---------------------------- MODULE MCDetectors ----------------------------
(***************************************************************************)
(* Small instances of the statistical tests of stegdetect for TLC: the     *)
(* chi^2 searches, the F5 test, the transforms that a trained class is     *)
(* recognised by, and the training.  They share nothing but the image, so  *)
(* a behaviour is that of one of them (part), the others stay as they are. *)
(***************************************************************************)
EXTENDS ChiSearch, F5, Extraction, Discriminant, TLC

VARIABLE part

others == <<f5Vars, extractionVars, discriminantVars>>

----------------------------------------------------------------------------
(* Two frequencies of a block of two by two, the rows of whose transform   *)
(* are <<1, 1>> and <<1, -1>>.                                             *)
Basis == [r \in 0..1 |-> [c \in 0..1 |-> IF r = 1 /\ c = 1 THEN -1 ELSE 1]]

Block(dc, a, b, c) == (0 :> dc) @@ (1 :> a) @@ (2 :> b) @@ (3 :> c)

Source(w, h, components, block(_)) ==
    [width |-> w, height |-> h, comp |-> components, table |-> Block(4, 8, 8, 8),
     blocks |-> [b \in 0..w * h - 1 |-> block(b)]]

SomeBlocks == {Block(0, 0, 0, 0), Block(7, 1, -1, 0), Block(-20, 2, 1, 1)}

\* Pictures of one block in a row or column leave nothing when they are cropped; one
\* with a single component has no second table.  8 * 8191 does not fit a short.
SomeSources ==
    {Source(3, 2, 3, LAMBDA b : bl[b]) : bl \in [0..5 -> SomeBlocks]}
    \cup {Source(w, 1, comps, LAMBDA b : Block(7, 1, -1, 0)) : w \in {1, 3}, comps \in {1, 3}}
    \cup {Source(3, 3, 3, LAMBDA b : IF b \in S THEN Block(40, 2, 1, 0) ELSE Block(-9, 0, 1, 8191)) :
             S \in SUBSET (0..8)}

SomeModes == {<<0, 1>>, <<1, 0>>, <<1, 1>>}
SomeRates == (-2..2) \X (1..3)

SomeCoefLists == [1..1 -> -7..7] \cup [1..2 -> -7..7] \cup [1..3 -> {-7, -4, -1, 0, 3, 4, 7}]

SomeVectors == {<<0>>, <<3>>} \cup {<<0, 0>>, <<0, 1>>, <<1, 3>>}
SomeScales == {<<-1, 1>>, <<1, 2>>, <<3, 4>>, <<1, 1>>, <<2, 1>>}
----------------------------------------------------------------------------
F5Off == stage = "off" /\ je = NoBlocks /\ picture = NoImage /\ jne = NoBlocks /\ betas = <<>>

ExtractionOff ==
    /\ walk = "off" /\ ndata = <<>> /\ cur = 0 /\ least = 0 /\ greatest = 0
    /\ nsimple = 0 /\ simple = <<>> /\ points = <<>>

DiscOff == training = "off" /\ cdd = 0 /\ decision = 0

MCInit ==
    \/ part = "chi" /\ ChiInit /\ F5Off /\ ExtractionOff /\ DiscOff
    \/ part = "f5" /\ ChiInit /\ F5Init /\ ExtractionOff /\ DiscOff
    \/ part = "extraction" /\ ChiInit /\ F5Off /\ ExtractionInit /\ DiscOff
    \/ part = "training" /\ ChiInit /\ F5Off /\ ExtractionOff /\ DiscriminantInit

Chi(A) == part = "chi" /\ A /\ UNCHANGED <<part, others>>

MCNext ==
    \/ Chi(BeginSearch) \/ Chi(BeginJphide) \/ Chi(BeginJphideOld)
    \/ Chi(Test) \/ Chi(EndPass) \/ Chi(Return)
    \/ /\ part = "f5" /\ UNCHANGED <<part, chiVars, extractionVars, discriminantVars>>
       /\ F5Next
    \/ /\ part = "extraction" /\ UNCHANGED <<part, chiVars, f5Vars, discriminantVars>>
       /\ ExtractionNext
    \/ /\ part = "training" /\ UNCHANGED <<part, chiVars, f5Vars, extractionVars>>
       /\ DiscriminantNext

MCSpec ==
    /\ MCInit /\ [][MCNext]_<<part, chiVars, others>>
    /\ WF_chiVars(part = "chi" /\ EndPass) /\ WF_chiVars(part = "chi" /\ Return)
=============================================================================
