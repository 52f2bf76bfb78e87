------------------------------ MODULE Verdict ------------------------------
(***************************************************************************)
(* What detect() of stegdetect.c promises of every image, apart from the   *)
(* order of its tests, its flag and its callbacks: the line is decided by  *)
(* the options, by what the image's header rules out and by what the tests *)
(* that remain find in it, at once.  Detect implements it.                 *)
(***************************************************************************)
EXTENDS Naturals

CONSTANTS ImageFile, MaxImages, NoReport

VARIABLES
    mask, quiet,  \* the options
    image, img,   \* number of the image, and what is in it
    report        \* the words of its line and whether it is shown, or NoReport

vars == <<mask, quiet, image, img, report>>

Early == {"classdis", "f5", "invisible"}
Late  == {"jsteg", "outguess", "jphide"}

\* -n: comments and APP markers rule out the tests of the coefficients, another
\* version the one for outguess.
RuledOut == "checkhdrs" \in mask /\ (img.comments > 0 \/ img.marker)
Remaining ==
    IF RuledOut THEN {}
    ELSE (Late \intersect mask)
            \ (IF "checkhdrs" \in mask /\ ~img.v11 THEN {"outguess"} ELSE {})

\* jsteg, or the doubt about it, comes alone.
LateResults ==
    { late \in SUBSET (Remaining \union {"skipped"}) :
        /\ "skipped" \in late => "jsteg" \in Remaining
        /\ late \intersect {"jsteg", "skipped"} # {} => \E w \in late : late = {w} }

Appended == "append" \in mask /\ img.appended

\* Something was found, or there is data behind the image.
Positive(early, late) == early \union (late \ {"skipped"}) # {} \/ Appended

Words(early, late) ==
    early \union late
        \union (IF Positive(early, late) \/ "skipped" \in late THEN {} ELSE {"negative"})
        \union (IF Appended /\ ~RuledOut THEN {"appended"} ELSE {})

Init ==
    /\ mask \in SUBSET (Early \union Late \union {"f5slow", "append", "transf", "checkhdrs"})
    /\ quiet \in BOOLEAN /\ image = 0 /\ img \in ImageFile /\ report = NoReport

Take ==
    /\ report = NoReport /\ image < MaxImages /\ image' = image + 1
    /\ UNCHANGED <<mask, quiet, img, report>>

See ==
    /\ report = NoReport /\ img' \in ImageFile
    /\ UNCHANGED <<mask, quiet, image, report>>

\* The image gets its line, or none: it was not asked for one.
Say ==
    /\ report = NoReport
    /\ \E early \in SUBSET (Early \intersect mask), late \in LateResults :
        report' = [words |-> Words(early, late), shown |-> Positive(early, late) \/ ~quiet]
    /\ UNCHANGED <<mask, quiet, image, img>>

Forget ==
    /\ report # NoReport /\ report' = NoReport
    /\ UNCHANGED <<mask, quiet, image, img>>

Next == Take \/ See \/ Say \/ Forget

Spec == Init /\ [][Next]_vars
=============================================================================
