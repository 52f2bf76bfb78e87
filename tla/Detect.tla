------------------------------- MODULE Detect -------------------------------
(***************************************************************************)
(* stegdetect.c: main()'s mask of tests and detect(), with the JPEG        *)
(* session of common.c that it opens for every image.  The image is        *)
(* decoded once, inside jpg_open(); the coefficients jsteg needs and the   *)
(* data behind the end of the image reach detect() by two callbacks that   *)
(* are set before and cleared afterwards, and jpg_open() may leave by      *)
(* longjmp() in between.  The tests then run one after the other, each may *)
(* take others out of the mask, and they share one flag and one line.      *)
(*                                                                         *)
(* What a test finds in an image is not computed here (ChiSearch looks     *)
(* into the chi-square tests): it is a choice.  The buffers of a test that *)
(* are allocated and freed within its step are left out, and so is running *)
(* out of memory, which ends the program.                                  *)
(***************************************************************************)
EXTENDS Naturals, Integers

CONSTANTS
    Masks,        \* the option masks that are checked
    MaxImages,    \* bound: images given to one run of stegdetect
    MaxComments   \* bound: comments of an image

\* The FLAG_ bits: the tests of -t, with "f5slow" for F, and those that the
\* options -C, -D and -n set.
Tests == {"outguess", "jphide", "jsteg", "invisible", "f5", "f5slow", "append"}
Flags == Tests \union {"transf", "classdis", "checkhdrs"}

\* The masks main() can arrive at.  -C and -t each assign the whole mask, so
\* that no test is left beside -C; -D and -n add to it in the end.
LegalMasks ==
    { m \in SUBSET Flags :
        /\ "f5slow" \in m => "f5" \in m
        /\ "transf" \in m => m \intersect Tests = {} }

ASSUME MasksAssumption == Masks \subseteq LegalMasks
ASSUME BoundsAssumption == MaxImages \in Nat /\ MaxComments \in Nat

VARIABLES
    mask, quiet, histonly,  \* the options: fixed for a run
    pc,           \* where detect() or dohistogram() is
    image,        \* number of the current image, and of the frame of detect()
    img,          \* what is in its file
    scans, flag,  \* locals of detect()
    line,         \* outbuf: the words that follow the file name
    printed,      \* the line has been printed
    jdcts,        \* local of detect(): it points to a buffer
    jdata,        \* history: what was decoded into that buffer
    jlive,        \* the images whose jdcts buffer is allocated
    ncomments,    \* comments[] has so many
    clive,        \* the allocated comments: image and place in comments[]
    mcu_cb,       \* stego_mcu_order is jsteg_cb (or NULL)
    pjdcts,       \* the frame jsteg_cb writes to
    eoi_cb,       \* stego_eoi_cb is detect_append (or NULL)
    buflen,       \* detect_buflen is not zero
    bad,          \* history: a buffer freed twice or used after free(), or
                  \* a write to a frame that is gone
    corrupt       \* history: the images that jpg_open() left by longjmp()

optVars  == <<mask, quiet, histonly>>
lineVars == <<flag, line, printed>>
coefVars == <<jdcts, jdata, jlive, bad>>
cbVars   == <<mcu_cb, pjdcts, eoi_cb>>
comVars  == <<ncomments, clive, corrupt>>
vars == <<optVars, pc, image, img, scans, lineVars, coefVars, cbVars, comVars,
          buflen>>

\* coefs: some coefficient is neither 0 nor 1; v11: the JFIF version is 1.1;
\* marker: there are APP markers; appended: at least 4 bytes behind the end.
ImageFile == [comments : 0..MaxComments, coefs : BOOLEAN, v11 : BOOLEAN,
              marker : BOOLEAN, appended : BOOLEAN]

Init ==
    /\ mask \in Masks /\ quiet \in BOOLEAN /\ histonly \in BOOLEAN
    /\ pc = "idle" /\ image = 0 /\ scans = {}
    /\ img = [comments |-> 0, coefs |-> FALSE, v11 |-> TRUE,
              marker |-> FALSE, appended |-> FALSE]
    /\ flag = 0 /\ line = {} /\ printed = FALSE
    /\ jdcts = FALSE /\ jdata = {} /\ jlive = {} /\ bad = FALSE
    /\ ncomments = 0 /\ clive = {} /\ corrupt = {}
    /\ mcu_cb = FALSE /\ pjdcts = 0 /\ eoi_cb = FALSE /\ buflen = FALSE

-----------------------------------------------------------------------------
(* The JPEG session.                                                       *)

\* Decoding a JPEG calls jsteg_cb, if it is set, for the coefficients that
\* are neither 0 nor 1.  The first one allocates the buffer.
Decode(coefs, source) ==
    IF mcu_cb /\ coefs
    THEN /\ jlive' = jlive \union {image}
         /\ jdata' = jdata \union {source}
         /\ jdcts' = (jdcts \/ pjdcts = image)
         /\ bad' = (bad \/ pjdcts # image)
    ELSE UNCHANGED coefVars

\* my_error_emit() at the end of the image, and detect_append(), if it is set:
\* the library's own end of a file that has none does not count.
DetectAppend(appended) == buflen' = (buflen \/ (eoi_cb /\ appended))

\* comment_handler(), for all comments of the image.
ReadComments(n) ==
    /\ ncomments' = n
    /\ clive' = clive \union ({image} \X (1..n))

\* comments_free(), as jpg_finish() and jpg_destroy() call it.
CommentsFree ==
    /\ ncomments' = 0
    /\ clive' = clive \ ({image} \X (1..ncomments))

\* free(jdcts), by whoever holds the pointer.
FreeJdcts ==
    /\ jlive' = jlive \ {image}
    /\ bad' = (bad \/ image \notin jlive)

\* The file cannot be opened.
OpenMissing ==
    /\ pc = "opening" /\ pc' = "failed"
    /\ UNCHANGED <<optVars, image, img, scans, lineVars, coefVars, cbVars,
                   comVars, buflen>>

\* The library gives up on the file after n comments, perhaps in the middle
\* of its coefficients, or at its end when there was no image in it.  The
\* longjmp() passes comments_free().
OpenCorrupt ==
    /\ pc = "opening" /\ pc' = "failed"
    /\ \E n \in 0..MaxComments : ReadComments(n)
    /\ \/ \E coefs \in BOOLEAN : Decode(coefs, "file") /\ UNCHANGED buflen
       \/ DetectAppend(TRUE) /\ UNCHANGED coefVars
    /\ corrupt' = corrupt \union {image}
    /\ UNCHANGED <<optVars, image, img, scans, lineVars, cbVars>>

\* It is not a colour image of three components: it has been decoded, and
\* jpg_destroy() frees its comments again.
OpenRejected ==
    /\ pc = "opening" /\ pc' = "failed"
    /\ \E f \in ImageFile :
        /\ Decode(f.coefs, "file")
        /\ DetectAppend(f.appended)
    /\ UNCHANGED <<optVars, image, img, scans, lineVars, cbVars, comVars>>

OpenOk ==
    /\ pc = "opening"
    /\ pc' = (IF histonly THEN "histogram" ELSE "opened")
    /\ \E f \in ImageFile :
        /\ img' = f
        /\ ReadComments(f.comments)
        /\ Decode(f.coefs, "file")
        /\ DetectAppend(f.appended)
    /\ UNCHANGED <<optVars, image, scans, lineVars, cbVars, corrupt>>

-----------------------------------------------------------------------------
(* detect().                                                               *)

\* Mutant of Begin: detect_buflen is not reset.
BeginKeepsAppended ==
    /\ pc = "idle" /\ image < MaxImages
    /\ pc' = "opening" /\ image' = image + 1
    /\ jdcts' = FALSE /\ jdata' = {} /\ ncomments' = 0
    /\ IF histonly
       THEN UNCHANGED <<scans, cbVars>>
       ELSE /\ scans' = mask
            /\ mcu_cb' = (mcu_cb \/ "jsteg" \in mask)
            /\ pjdcts' = (IF "jsteg" \in mask THEN image' ELSE pjdcts)
            /\ eoi_cb' = (eoi_cb \/ "append" \in mask)
    /\ UNCHANGED <<optVars, img, lineVars, jlive, bad, clive, corrupt, buflen>>

\* Up to jpg_open(), and comments_init() there: prepare_jsteg() sets one
\* callback, the test for appended data the other.
Begin ==
    /\ pc = "idle" /\ image < MaxImages
    /\ pc' = "opening" /\ image' = image + 1
    /\ jdcts' = FALSE /\ jdata' = {} /\ ncomments' = 0
    /\ IF histonly
       THEN UNCHANGED <<scans, cbVars, buflen>>
       ELSE /\ scans' = mask
            /\ mcu_cb' = (mcu_cb \/ "jsteg" \in mask)
            /\ pjdcts' = (IF "jsteg" \in mask THEN image' ELSE pjdcts)
            /\ eoi_cb' = (eoi_cb \/ "append" \in mask)
            /\ buflen' = (buflen /\ "append" \notin mask)
    /\ UNCHANGED <<optVars, img, lineVars, jlive, bad, clive, corrupt>>

\* jpg_open() returned -1.
Failed ==
    /\ pc = "failed" /\ pc' = "idle"
    /\ IF jdcts THEN FreeJdcts ELSE UNCHANGED <<jlive, bad>>
    /\ jdcts' = FALSE
    /\ UNCHANGED <<optVars, image, img, scans, lineVars, jdata, cbVars,
                   comVars, buflen>>

\* dohistogram() between jpg_open() and jpg_finish().
Dohistogram ==
    /\ pc = "histogram" /\ pc' = "end"
    /\ UNCHANGED <<optVars, image, img, scans, lineVars, coefVars, cbVars,
                   comVars, buflen>>

\* -C: class_discrimination() prints a feature vector, and that is all.
Transform ==
    /\ pc = "opened" /\ "transf" \in scans /\ pc' = "end"
    /\ UNCHANGED <<optVars, image, img, scans, lineVars, coefVars, cbVars,
                   comVars, buflen>>

\* Mutant of Opened: the jsteg callback stays.
OpenedKeepsCallback ==
    /\ pc = "opened" /\ "transf" \notin scans /\ pc' = "classdis"
    /\ eoi_cb' = (eoi_cb /\ "append" \notin scans)
    /\ flag' = (IF "append" \in scans /\ buflen THEN 1 ELSE 0)
    /\ line' = {}
    /\ UNCHANGED <<optVars, image, img, scans, printed, coefVars, mcu_cb,
                   pjdcts, comVars, buflen>>

\* The callbacks are cleared, and appended data is the first thing found.
Opened ==
    /\ pc = "opened" /\ "transf" \notin scans /\ pc' = "classdis"
    /\ eoi_cb' = (eoi_cb /\ "append" \notin scans)
    /\ mcu_cb' = (mcu_cb /\ "jsteg" \notin scans)
    /\ flag' = (IF "append" \in scans /\ buflen THEN 1 ELSE 0)
    /\ line' = {}
    /\ UNCHANGED <<optVars, image, img, scans, printed, coefVars, pjdcts,
                   comVars, buflen>>

\* A test has found something, and its word goes to the line.
Found(word) == flag' = 1 /\ line' = line \union {word}

\* The decision objects of -D.
ClassDis ==
    /\ pc = "classdis" /\ pc' = "f5"
    /\ \/ "classdis" \in scans /\ Found("classdis")
       \/ UNCHANGED <<flag, line>>
    /\ UNCHANGED <<optVars, image, img, scans, printed, coefVars, cbVars,
                   comVars, buflen>>

\* F5 gives itself away by its comment.  Without that, detect_f5() compresses
\* the image again and decodes what it wrote.
F5 ==
    /\ pc = "f5" /\ pc' = "invisible"
    /\ \/ /\ "f5" \in scans /\ ncomments = 1
          /\ Found("f5")
          /\ UNCHANGED coefVars
       \/ /\ {"f5", "f5slow"} \subseteq scans
          /\ \E coefs \in BOOLEAN : Decode(coefs, "copy")
          /\ \/ Found("f5")
             \/ UNCHANGED <<flag, line>>
       \/ /\ "f5slow" \notin scans
          /\ UNCHANGED <<flag, line, coefVars>>
    /\ UNCHANGED <<optVars, image, img, scans, printed, cbVars, comVars, buflen>>

\* The length in the second comment is the length of the comments from there.
Invisible ==
    /\ pc = "invisible" /\ pc' = "header"
    /\ \/ /\ "invisible" \in scans /\ ncomments >= 2
          /\ Found("invisible")
       \/ UNCHANGED <<flag, line>>
    /\ UNCHANGED <<optVars, image, img, scans, printed, coefVars, cbVars,
                   comVars, buflen>>

\* Mutant of Header: the coefficients are freed, the tests stay in the mask.
HeaderKeepsScans ==
    /\ pc = "header" /\ pc' = "jsteg"
    /\ IF "checkhdrs" \in scans /\ (ncomments > 0 \/ img.marker)
       THEN /\ IF jdcts THEN FreeJdcts ELSE UNCHANGED <<jlive, bad>>
            /\ UNCHANGED scans
       ELSE /\ scans' = (IF "checkhdrs" \in scans /\ ~img.v11
                         THEN scans \ {"outguess"} ELSE scans)
            /\ UNCHANGED <<jlive, bad>>
    /\ UNCHANGED <<optVars, image, img, lineVars, jdcts, jdata, cbVars,
                   comVars, buflen>>

\* -n: comments or APP markers take every test out of the mask, another JFIF
\* version the one for outguess.
Header ==
    /\ pc = "header" /\ pc' = "jsteg"
    /\ IF "checkhdrs" \in scans /\ (ncomments > 0 \/ img.marker)
       THEN /\ scans' = {}
            /\ IF jdcts THEN FreeJdcts ELSE UNCHANGED <<jlive, bad>>
       ELSE /\ scans' = (IF "checkhdrs" \in scans /\ ~img.v11
                         THEN scans \ {"outguess"} ELSE scans)
            /\ UNCHANGED <<jlive, bad>>
    /\ UNCHANGED <<optVars, image, img, lineVars, jdcts, jdata, cbVars,
                   comVars, buflen>>

\* Mutant of Jsteg: a doubtful result overwrites what was found before.
JstegOverwrites ==
    /\ pc = "jsteg" /\ pc' = "outguess"
    /\ IF "jsteg" \in scans /\ jdcts
       THEN /\ \/ /\ Found("jsteg")
                  /\ scans' = scans \ {"outguess", "jphide"}
               \/ /\ flag' = -1
                  /\ line' = line \union {"skipped"}
                  /\ scans' = scans \ {"outguess", "jphide"}
               \/ UNCHANGED <<flag, line, scans>>
            /\ FreeJdcts
       ELSE UNCHANGED <<flag, line, scans, jlive, bad>>
    /\ UNCHANGED <<optVars, image, img, printed, jdcts, jdata, cbVars,
                   comVars, buflen>>

\* Mutant of Jsteg: jphide is tried after a doubtful result.
JstegKeepsJphide ==
    /\ pc = "jsteg" /\ pc' = "outguess"
    /\ IF "jsteg" \in scans /\ jdcts
       THEN /\ \/ /\ Found("jsteg")
                  /\ scans' = scans \ {"outguess", "jphide"}
               \/ /\ flag' = (IF flag = 0 THEN -1 ELSE flag)
                  /\ line' = line \union {"skipped"}
                  /\ scans' = scans \ {"outguess"}
               \/ UNCHANGED <<flag, line, scans>>
            /\ FreeJdcts
       ELSE UNCHANGED <<flag, line, scans, jlive, bad>>
    /\ UNCHANGED <<optVars, image, img, printed, jdcts, jdata, cbVars,
                   comVars, buflen>>

\* histogram_chi_jsteg() is positive, or -1 when it cannot tell; either way
\* outguess and jphide are not tried.  Then its coefficients are freed.
Jsteg ==
    /\ pc = "jsteg" /\ pc' = "outguess"
    /\ IF "jsteg" \in scans /\ jdcts
       THEN /\ \/ /\ Found("jsteg")
                  /\ scans' = scans \ {"outguess", "jphide"}
               \/ /\ flag' = (IF flag = 0 THEN -1 ELSE flag)
                  /\ line' = line \union {"skipped"}
                  /\ scans' = scans \ {"outguess", "jphide"}
               \/ UNCHANGED <<flag, line, scans>>
            /\ FreeJdcts
       ELSE UNCHANGED <<flag, line, scans, jlive, bad>>
    /\ UNCHANGED <<optVars, image, img, printed, jdcts, jdata, cbVars,
                   comVars, buflen>>

OutGuess ==
    /\ pc = "outguess" /\ pc' = "jphide"
    /\ \/ "outguess" \in scans /\ Found("outguess")
       \/ UNCHANGED <<flag, line>>
    /\ UNCHANGED <<optVars, image, img, scans, printed, coefVars, cbVars,
                   comVars, buflen>>

Jphide ==
    /\ pc = "jphide" /\ pc' = "report"
    /\ \/ "jphide" \in scans /\ Found("jphide")
       \/ UNCHANGED <<flag, line>>
    /\ UNCHANGED <<optVars, image, img, scans, printed, coefVars, cbVars,
                   comVars, buflen>>

\* The code has scans && FLAG_DOAPPEND: any test left in the mask will do.
Report ==
    /\ pc = "report" /\ pc' = "end"
    /\ printed' = (flag > 0 \/ ~quiet)
    /\ line' = line \union (IF flag = 0 THEN {"negative"} ELSE {})
                    \union (IF printed' /\ scans # {} /\ buflen
                            THEN {"appended"} ELSE {})
    /\ UNCHANGED <<optVars, image, img, scans, flag, coefVars, cbVars,
                   comVars, buflen>>

\* jpg_finish() and jpg_destroy().
End ==
    /\ pc = "end" /\ pc' = "idle"
    /\ CommentsFree
    /\ flag' = 0 /\ line' = {} /\ printed' = FALSE /\ jdcts' = FALSE
    /\ UNCHANGED <<optVars, image, img, scans, jdata, jlive, bad, cbVars,
                   corrupt, buflen>>

Next ==
    \/ Begin \/ OpenMissing \/ OpenCorrupt \/ OpenRejected \/ OpenOk
    \/ Failed \/ Dohistogram \/ Transform \/ Opened \/ ClassDis \/ F5
    \/ Invisible \/ Header \/ Jsteg \/ OutGuess \/ Jphide \/ Report \/ End

Spec == Init /\ [][Next]_vars

-----------------------------------------------------------------------------

Words == {"classdis", "f5", "invisible", "jsteg", "outguess", "jphide"}

PlaceType ==
    /\ mask \in Masks /\ quiet \in BOOLEAN /\ histonly \in BOOLEAN
    /\ pc \in {"idle", "opening", "failed", "histogram", "opened", "classdis",
               "f5", "invisible", "header", "jsteg", "outguess", "jphide",
               "report", "end"}
    /\ image \in 0..MaxImages /\ img \in ImageFile
    /\ scans \in SUBSET Flags
LineType ==
    /\ flag \in {-1, 0, 1} /\ printed \in BOOLEAN
    /\ line \in SUBSET (Words \union {"skipped", "negative", "appended"})
BufferType ==
    /\ jdcts \in BOOLEAN /\ bad \in BOOLEAN
    /\ jdata \in SUBSET {"file", "copy"} /\ jlive \in SUBSET (1..MaxImages)
CallbackType ==
    /\ mcu_cb \in BOOLEAN /\ pjdcts \in 0..MaxImages /\ eoi_cb \in BOOLEAN
    /\ buflen \in BOOLEAN
CommentType ==
    /\ ncomments \in 0..MaxComments
    /\ clive \in SUBSET ((1..MaxImages) \X (1..MaxComments))
    /\ corrupt \in SUBSET (1..MaxImages)

\* Every variable is in its range.
TypeOK ==
    PlaceType /\ LineType /\ BufferType /\ CallbackType /\ CommentType

\* Between two images nothing is left of the ones before but the comments of
\* those that jpg_open() gave up on, and no buffer is freed twice: neither
\* by -n and then the jsteg test, nor by an error and then the end.
DataOwned ==
    /\ ~bad
    /\ pc = "idle" =>
        /\ jlive = {}
        /\ \A c \in clive : c[1] \in corrupt

\* The callback, which outlives the frame it writes to when jpg_open() fails,
\* is called only for the image and the frame that set it: the copy that the
\* F5 test decodes leaves the coefficients of the image alone.
CoefficientsAreOwn ==
    /\ jdata \subseteq {"file"}
    /\ pc = "opening" /\ mcu_cb => pjdcts = image

\* Appended data is reported of an image that has some, whatever the image
\* before it had and however its opening ended.
AppendedIsOwn ==
    pc = "end" /\ "appended" \in line => img.appended

\* The line of an image that gets one agrees with the flag that the tests
\* share: it says negative when no test found anything, and only then; with
\* -q there is a line only if something was found; and, without -n, what
\* was found is in it.
LineTells ==
    pc = "end" /\ printed =>
        /\ flag = 0 <=> "negative" \in line
        /\ flag = 0 => line = {"negative"}
        /\ flag = -1 => line = {"skipped"}
        /\ quiet => flag = 1
        /\ flag = 1 /\ "checkhdrs" \notin mask
            => line \intersect (Words \union {"appended"}) # {}

Excluded ==
    /\ line \intersect {"jsteg", "skipped"} # {}
        => "outguess" \notin line /\ "jphide" \notin line
    /\ "checkhdrs" \in mask =>
        /\ ~img.v11 => "outguess" \notin line
        /\ img.comments > 0 \/ img.marker
            => line \intersect {"jsteg", "skipped", "outguess", "jphide"} = {}

\* An image is never charged with jsteg, or too doubtful for it, and with one
\* of the methods that look alike; and with -n no test that looks at the
\* coefficients speaks of an image whose header rules it out.
TestsExclude == pc = "end" => Excluded

NoReport == [words |-> {}, shown |-> FALSE]

\* What is said of an image is in its line once detect() has come to its end.
V == INSTANCE Verdict WITH
        report <- IF pc = "end" THEN [words |-> line, shown |-> printed] ELSE NoReport

\* The line of every image is decided by the options, by its header and by what
\* the tests that remain find, as Verdict has it: whatever the order of the
\* tests, the flag they share, the callbacks and the images before make of it.
ImplementsVerdict == V!Spec

\* The manual, stegdetect.1:38-40, of -n: images that contain comment fields
\* will be treated as negatives.
NegativeIfComments ==
    pc = "end" /\ "checkhdrs" \in mask /\ img.comments > 0 => flag # 1
=============================================================================
