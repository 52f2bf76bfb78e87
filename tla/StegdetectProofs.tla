-------------------------- MODULE StegdetectProofs --------------------------
(***************************************************************************)
(* Proofs about stegdetect.  detect() keeps the coefficients, the          *)
(* callbacks and the comments of its images apart, and its line says what  *)
(* its tests found, for every set of masks main() can arrive at and any    *)
(* number of images and comments.  The three detectors that read a DCT     *)
(* histogram, the chi^2 search, the F5 test and the features of            *)
(* distribution(), are for images of any size, any number of buffers, any  *)
(* widths, and tables and splines of every size; and the training of a     *)
(* decision for any feature vectors.                                       *)
(***************************************************************************)
EXTENDS Detect, ChiSearch, F5, Extraction, Discriminant, FiniteSetTheorems, TLAPS

-----------------------------------------------------------------------------
(***************************************************************************)
(* detect().  Two inductive invariants.  Owned says at every place in      *)
(* detect() who may hold the buffer of jdcts, and where the callback of    *)
(* jsteg points.  Spoken says the same of the line: what can be in it at   *)
(* that place, and with which flag and which tests left.                   *)
(***************************************************************************)

(* What Owned and Spoken say, by the place in the code.                    *)

Opening == {"idle", "opening", "failed"}
Before  == {"opening", "failed", "opened", "classdis", "f5", "invisible", "header"}
Early   == {"classdis", "f5", "invisible", "header"}
Testing == Early \union {"jsteg", "outguess", "jphide", "report"}

\* Which places belong to which mode.
PlaceInv ==
    /\ pc # "idle" => image \in 1..MaxImages
    /\ pc = "histogram" => histonly
    /\ pc \in {"opened"} \union Testing => ~histonly

\* The callbacks are set only for their tests, and cleared for the tests.
CallbackInv ==
    /\ mcu_cb => "jsteg" \in mask /\ ~histonly
    /\ pc \in {"opening", "failed", "opened"} /\ mcu_cb => pjdcts = image
    /\ pc \in Testing => ~mcu_cb
    /\ jdata \subseteq {"file"}
    /\ ~histonly /\ pc \in Before => scans = mask

\* jdcts points to the one buffer there can be.
BufferInv ==
    /\ ~bad
    /\ jlive \subseteq {image}
    /\ jlive # {} => "jsteg" \in mask /\ ~histonly
    /\ pc = "opening" => ~jdcts
    /\ pc \in {"failed", "opened"} \union Early => (jdcts <=> image \in jlive)
    /\ pc = "jsteg" => (image \in jlive <=> jdcts /\ "jsteg" \in scans)
    /\ pc \in {"idle", "opening", "outguess", "jphide", "report", "end"}
        => jlive = {}

\* A comment belongs to the current image, or to one that was given up on.
CommentInv ==
    \A c \in clive :
        \/ c[1] \in corrupt
        \/ pc \notin Opening /\ c[1] = image /\ c[2] \in 1..ncomments

Owned == TypeOK /\ PlaceInv /\ CallbackInv /\ BufferInv /\ CommentInv

\* detect_buflen is the current image's, and there for the append test only.
AppendInv ==
    /\ eoi_cb \/ buflen => "append" \in mask /\ ~histonly
    /\ pc = "opening" => ~buflen
    /\ pc \notin Opening /\ buflen => img.appended

\* The line while the tests run.
LineInv ==
    /\ pc \notin Testing \union {"end"} => line = {} /\ ~printed
    /\ pc \in Testing =>
        /\ ~printed
        /\ line \subseteq Words \union {"skipped"}
        /\ flag = 0 => line = {}
        /\ flag = -1 => line = {"skipped"}
        /\ buflen => flag = 1
        /\ flag = 1 /\ "checkhdrs" \notin mask
            => line \intersect Words # {} \/ (buflen /\ "append" \in scans)

\* The tests that are still to come, and those that have spoken.
Late == {"jsteg", "outguess", "jphide", "report"}

MaskInv ==
    /\ pc \in Early \union {"jsteg"}
        => line \subseteq {"classdis", "f5", "invisible"}
    /\ pc = "outguess" => "outguess" \notin line /\ "jphide" \notin line
    /\ pc = "jphide" => "jphide" \notin line
    /\ pc \in Late \ {"jsteg"} /\ line \intersect {"jsteg", "skipped"} # {}
        => "outguess" \notin scans /\ "jphide" \notin scans
    /\ pc \in {"opened"} \union Testing => ncomments = img.comments
    /\ pc \in Late /\ "checkhdrs" \in mask =>
        /\ ~img.v11 => "outguess" \notin scans
        /\ img.comments > 0 \/ img.marker => scans = {}
    /\ pc \in Late => Excluded

Spoken == Owned /\ AppendInv /\ LineInv /\ MaskInv
          /\ LineTells /\ AppendedIsOwn /\ TestsExclude
-----------------------------------------------------------------------------
USE MasksAssumption, BoundsAssumption

LEMMA TypeInit == Init => TypeOK /\ PlaceInv
<1> SUFFICES ASSUME Init PROVE TypeOK /\ PlaceInv
  OBVIOUS
<1>1. PlaceType
  BY DEF Init, PlaceType, ImageFile
<1>2. LineType /\ BufferType
  BY DEF Init, LineType, BufferType
<1>3. CallbackType
  <2>1. 0 \in 0..MaxImages
    OBVIOUS
  <2>2. mcu_cb \in BOOLEAN /\ eoi_cb \in BOOLEAN /\ buflen \in BOOLEAN
    BY Zenon DEF Init
  <2>3. pjdcts = 0
    BY Zenon DEF Init
  <2> QED BY <2>1, <2>2, <2>3, Zenon DEF CallbackType
<1>4. CommentType
  BY DEF Init, CommentType
<1>5. PlaceInv
  BY DEF Init, PlaceInv, Testing, Early
<1> QED BY <1>1, <1>2, <1>3, <1>4, <1>5 DEF TypeOK

\* Each part of TypeOK is kept by every step.
LEMMA PlaceStep ==
    ASSUME PlaceType, PlaceInv, [Next]_vars
    PROVE  PlaceType' /\ PlaceInv'
<1> USE DEF PlaceType, PlaceInv, Testing, Early, optVars
<1>1. CASE Begin
  <2>1. mask \in SUBSET Flags
    BY DEF LegalMasks
  <2>2. /\ pc' = "opening" /\ image < MaxImages /\ image' = image + 1
        /\ scans' = scans \/ scans' = mask
        /\ UNCHANGED <<optVars, img>>
    BY <1>1, Zenon DEF Begin
  <2> QED BY <2>1, <2>2
<1>2. CASE OpenMissing
  BY <1>2 DEF OpenMissing
<1>3. CASE OpenCorrupt
  BY <1>3 DEF OpenCorrupt
<1>4. CASE OpenRejected
  BY <1>4 DEF OpenRejected
<1>5. CASE OpenOk
  BY <1>5 DEF OpenOk, ImageFile
<1>6. CASE Failed
  BY <1>6 DEF Failed
<1>7. CASE Dohistogram
  BY <1>7 DEF Dohistogram
<1>8. CASE Transform
  BY <1>8 DEF Transform
<1>9. CASE Opened
  BY <1>9 DEF Opened
<1>10. CASE ClassDis
  BY <1>10 DEF ClassDis
<1>11. CASE F5
  BY <1>11 DEF F5
<1>12. CASE Invisible
  BY <1>12 DEF Invisible
<1>13. CASE Header
  BY <1>13 DEF Header, Flags
<1>14. CASE Jsteg
  BY <1>14 DEF Jsteg
<1>15. CASE OutGuess
  BY <1>15 DEF OutGuess
<1>16. CASE Jphide
  BY <1>16 DEF Jphide
<1>17. CASE Report
  BY <1>17 DEF Report
<1>18. CASE End
  BY <1>18 DEF End
<1>19. CASE UNCHANGED vars
  BY <1>19 DEF vars
<1> QED BY <1>1, <1>2, <1>3, <1>4, <1>5, <1>6, <1>7, <1>8, <1>9, <1>10, <1>11,
        <1>12, <1>13, <1>14, <1>15, <1>16, <1>17, <1>18, <1>19 DEF Next

LEMMA LineStep ==
    ASSUME LineType, [Next]_vars
    PROVE  LineType'
<1> USE DEF LineType, lineVars, Words, Found
<1>1. CASE Begin
  BY <1>1 DEF Begin
<1>2. CASE OpenMissing
  BY <1>2 DEF OpenMissing
<1>3. CASE OpenCorrupt
  BY <1>3 DEF OpenCorrupt
<1>4. CASE OpenRejected
  BY <1>4 DEF OpenRejected
<1>5. CASE OpenOk
  BY <1>5 DEF OpenOk
<1>6. CASE Failed
  BY <1>6 DEF Failed
<1>7. CASE Dohistogram
  BY <1>7 DEF Dohistogram
<1>8. CASE Transform
  BY <1>8 DEF Transform
<1>9. CASE Opened
  BY <1>9 DEF Opened
<1>10. CASE ClassDis
  BY <1>10 DEF ClassDis
<1>11. CASE F5
  BY <1>11 DEF F5
<1>12. CASE Invisible
  BY <1>12 DEF Invisible
<1>13. CASE Header
  BY <1>13 DEF Header
<1>14. CASE Jsteg
  BY <1>14 DEF Jsteg
<1>15. CASE OutGuess
  BY <1>15 DEF OutGuess
<1>16. CASE Jphide
  BY <1>16 DEF Jphide
<1>17. CASE Report
  BY <1>17 DEF Report
<1>18. CASE End
  BY <1>18 DEF End
<1>19. CASE UNCHANGED vars
  BY <1>19 DEF vars
<1> QED BY <1>1, <1>2, <1>3, <1>4, <1>5, <1>6, <1>7, <1>8, <1>9, <1>10, <1>11,
        <1>12, <1>13, <1>14, <1>15, <1>16, <1>17, <1>18, <1>19 DEF Next

LEMMA BufferStep ==
    ASSUME PlaceType, PlaceInv, BufferType, [Next]_vars
    PROVE  BufferType'
<1> USE DEF PlaceType, PlaceInv, BufferType, coefVars, Decode, FreeJdcts
<1>1. CASE Begin
  BY <1>1 DEF Begin
<1>2. CASE OpenMissing
  BY <1>2 DEF OpenMissing
<1>3. CASE OpenCorrupt
  BY <1>3 DEF OpenCorrupt
<1>4. CASE OpenRejected
  BY <1>4 DEF OpenRejected
<1>5. CASE OpenOk
  BY <1>5 DEF OpenOk
<1>6. CASE Failed
  BY <1>6 DEF Failed
<1>7. CASE Dohistogram
  BY <1>7 DEF Dohistogram
<1>8. CASE Transform
  BY <1>8 DEF Transform
<1>9. CASE Opened
  BY <1>9 DEF Opened
<1>10. CASE ClassDis
  BY <1>10 DEF ClassDis
<1>11. CASE F5
  BY <1>11 DEF F5
<1>12. CASE Invisible
  BY <1>12 DEF Invisible
<1>13. CASE Header
  BY <1>13 DEF Header
<1>14. CASE Jsteg
  BY <1>14 DEF Jsteg
<1>15. CASE OutGuess
  BY <1>15 DEF OutGuess
<1>16. CASE Jphide
  BY <1>16 DEF Jphide
<1>17. CASE Report
  BY <1>17 DEF Report
<1>18. CASE End
  BY <1>18 DEF End
<1>19. CASE UNCHANGED vars
  BY <1>19 DEF vars
<1> QED BY <1>1, <1>2, <1>3, <1>4, <1>5, <1>6, <1>7, <1>8, <1>9, <1>10, <1>11,
        <1>12, <1>13, <1>14, <1>15, <1>16, <1>17, <1>18, <1>19 DEF Next

LEMMA CallbackStep ==
    ASSUME PlaceType, CallbackType, [Next]_vars
    PROVE  CallbackType'
<1> USE DEF PlaceType, CallbackType, cbVars, DetectAppend
<1>1. CASE Begin
  <2>1. image' \in 0..MaxImages
    BY <1>1 DEF Begin
  <2>2. /\ mcu_cb' \in BOOLEAN /\ eoi_cb' \in BOOLEAN /\ buflen' \in BOOLEAN
        /\ pjdcts' = pjdcts \/ pjdcts' = image'
    BY <1>1, Zenon DEF Begin
  <2> QED BY <2>1, <2>2, Zenon
<1>2. CASE OpenMissing
  BY <1>2 DEF OpenMissing
<1>3. CASE OpenCorrupt
  BY <1>3 DEF OpenCorrupt
<1>4. CASE OpenRejected
  BY <1>4 DEF OpenRejected
<1>5. CASE OpenOk
  BY <1>5 DEF OpenOk
<1>6. CASE Failed
  BY <1>6 DEF Failed
<1>7. CASE Dohistogram
  BY <1>7 DEF Dohistogram
<1>8. CASE Transform
  BY <1>8 DEF Transform
<1>9. CASE Opened
  BY <1>9 DEF Opened
<1>10. CASE ClassDis
  BY <1>10 DEF ClassDis
<1>11. CASE F5
  BY <1>11 DEF F5
<1>12. CASE Invisible
  BY <1>12 DEF Invisible
<1>13. CASE Header
  BY <1>13 DEF Header
<1>14. CASE Jsteg
  BY <1>14 DEF Jsteg
<1>15. CASE OutGuess
  BY <1>15 DEF OutGuess
<1>16. CASE Jphide
  BY <1>16 DEF Jphide
<1>17. CASE Report
  BY <1>17 DEF Report
<1>18. CASE End
  BY <1>18 DEF End
<1>19. CASE UNCHANGED vars
  BY <1>19 DEF vars
<1> QED BY <1>1, <1>2, <1>3, <1>4, <1>5, <1>6, <1>7, <1>8, <1>9, <1>10, <1>11,
        <1>12, <1>13, <1>14, <1>15, <1>16, <1>17, <1>18, <1>19 DEF Next

LEMMA CommentStep ==
    ASSUME PlaceType, PlaceInv, CommentType, [Next]_vars
    PROVE  CommentType'
<1> USE DEF PlaceType, PlaceInv, CommentType, comVars, ReadComments, CommentsFree
<1>1. CASE Begin
  BY <1>1 DEF Begin
<1>2. CASE OpenMissing
  BY <1>2 DEF OpenMissing
<1>3. CASE OpenCorrupt
  BY <1>3 DEF OpenCorrupt
<1>4. CASE OpenRejected
  BY <1>4 DEF OpenRejected
<1>5. CASE OpenOk
  BY <1>5 DEF OpenOk, ImageFile
<1>6. CASE Failed
  BY <1>6 DEF Failed
<1>7. CASE Dohistogram
  BY <1>7 DEF Dohistogram
<1>8. CASE Transform
  BY <1>8 DEF Transform
<1>9. CASE Opened
  BY <1>9 DEF Opened
<1>10. CASE ClassDis
  BY <1>10 DEF ClassDis
<1>11. CASE F5
  BY <1>11 DEF F5
<1>12. CASE Invisible
  BY <1>12 DEF Invisible
<1>13. CASE Header
  BY <1>13 DEF Header
<1>14. CASE Jsteg
  BY <1>14 DEF Jsteg
<1>15. CASE OutGuess
  BY <1>15 DEF OutGuess
<1>16. CASE Jphide
  BY <1>16 DEF Jphide
<1>17. CASE Report
  BY <1>17 DEF Report
<1>18. CASE End
  BY <1>18 DEF End
<1>19. CASE UNCHANGED vars
  BY <1>19 DEF vars
<1> QED BY <1>1, <1>2, <1>3, <1>4, <1>5, <1>6, <1>7, <1>8, <1>9, <1>10, <1>11,
        <1>12, <1>13, <1>14, <1>15, <1>16, <1>17, <1>18, <1>19 DEF Next

LEMMA TypeStep ==
    ASSUME TypeOK, PlaceInv, [Next]_vars
    PROVE  TypeOK' /\ PlaceInv'
BY PlaceStep, LineStep, BufferStep, CallbackStep, CommentStep DEF TypeOK

\* Every variable of detect() and of the JPEG session stays in its range.
THEOREM TypeCorrect == Spec => []TypeOK
<1>1. TypeOK /\ PlaceInv /\ [Next]_vars => TypeOK' /\ PlaceInv'
  BY TypeStep
<1> QED BY TypeInit, <1>1, PTL DEF Spec

-----------------------------------------------------------------------------
(* Owned.                                                                  *)

\* Each part of Owned is kept by every step.
LEMMA CallbackInvStep ==
    ASSUME PlaceType, PlaceInv, CallbackInv, [Next]_vars
    PROVE  CallbackInv'
<1> USE DEF PlaceType, PlaceInv, CallbackInv, Opening, Before, Early, Testing,
        optVars, cbVars, coefVars, Decode
<1>1. CASE Begin
  BY <1>1 DEF Begin
<1>2. CASE OpenMissing
  BY <1>2 DEF OpenMissing
<1>3. CASE OpenCorrupt
  BY <1>3 DEF OpenCorrupt
<1>4. CASE OpenRejected
  BY <1>4 DEF OpenRejected
<1>5. CASE OpenOk
  BY <1>5 DEF OpenOk
<1>6. CASE Failed
  BY <1>6 DEF Failed
<1>7. CASE Dohistogram
  BY <1>7 DEF Dohistogram
<1>8. CASE Transform
  BY <1>8 DEF Transform
<1>9. CASE Opened
  BY <1>9 DEF Opened
<1>10. CASE ClassDis
  BY <1>10 DEF ClassDis
<1>11. CASE F5
  BY <1>11 DEF F5
<1>12. CASE Invisible
  BY <1>12 DEF Invisible
<1>13. CASE Header
  BY <1>13 DEF Header
<1>14. CASE Jsteg
  BY <1>14 DEF Jsteg
<1>15. CASE OutGuess
  BY <1>15 DEF OutGuess
<1>16. CASE Jphide
  BY <1>16 DEF Jphide
<1>17. CASE Report
  BY <1>17 DEF Report
<1>18. CASE End
  BY <1>18 DEF End
<1>19. CASE UNCHANGED vars
  BY <1>19 DEF vars
<1> QED BY <1>1, <1>2, <1>3, <1>4, <1>5, <1>6, <1>7, <1>8, <1>9, <1>10, <1>11,
        <1>12, <1>13, <1>14, <1>15, <1>16, <1>17, <1>18, <1>19 DEF Next

LEMMA BufferInvStep ==
    ASSUME PlaceType, PlaceInv, BufferType, CallbackInv, BufferInv, [Next]_vars
    PROVE  BufferInv'
<1> USE DEF PlaceType, PlaceInv, BufferType, CallbackInv, BufferInv, Opening,
        Before, Early, Testing, optVars, coefVars, Decode, FreeJdcts
<1>1. CASE Begin
  BY <1>1 DEF Begin
<1>2. CASE OpenMissing
  BY <1>2 DEF OpenMissing
<1>3. CASE OpenCorrupt
  <2>1. /\ pc = "opening" /\ pc' = "failed"
        /\ UNCHANGED <<mask, histonly, image, scans>>
    BY <1>3 DEF OpenCorrupt
  <2>2. \/ UNCHANGED coefVars
        \/ /\ mcu_cb /\ jlive' = jlive \union {image}
           /\ jdcts' = (jdcts \/ pjdcts = image)
           /\ bad' = (bad \/ pjdcts # image)
    BY <1>3, Zenon DEF OpenCorrupt, Decode
  <2>3. CASE UNCHANGED coefVars
    BY <2>1, <2>3
  <2>4. CASE /\ mcu_cb /\ jlive' = jlive \union {image}
             /\ jdcts' = (jdcts \/ pjdcts = image)
             /\ bad' = (bad \/ pjdcts # image)
    BY <2>1, <2>4
  <2> QED BY <2>2, <2>3, <2>4
<1>4. CASE OpenRejected
  BY <1>4 DEF OpenRejected
<1>5. CASE OpenOk
  BY <1>5 DEF OpenOk
<1>6. CASE Failed
  BY <1>6 DEF Failed
<1>7. CASE Dohistogram
  BY <1>7 DEF Dohistogram
<1>8. CASE Transform
  BY <1>8 DEF Transform, LegalMasks, Tests
<1>9. CASE Opened
  BY <1>9 DEF Opened
<1>10. CASE ClassDis
  BY <1>10 DEF ClassDis
<1>11. CASE F5
  <2>1. pc = "f5" /\ ~mcu_cb
    BY <1>11 DEF F5
  <2>2. UNCHANGED coefVars
    BY <1>11, <2>1, Zenon DEF F5
  <2>3. pc' = "invisible" /\ UNCHANGED <<mask, histonly, image, scans>>
    BY <1>11 DEF F5
  <2> QED BY <2>1, <2>2, <2>3
<1>12. CASE Invisible
  BY <1>12 DEF Invisible
<1>13. CASE Header
  BY <1>13 DEF Header
<1>14. CASE Jsteg
  BY <1>14 DEF Jsteg
<1>15. CASE OutGuess
  BY <1>15 DEF OutGuess
<1>16. CASE Jphide
  BY <1>16 DEF Jphide
<1>17. CASE Report
  BY <1>17 DEF Report
<1>18. CASE End
  BY <1>18 DEF End
<1>19. CASE UNCHANGED vars
  BY <1>19 DEF vars
<1> QED BY <1>1, <1>2, <1>3, <1>4, <1>5, <1>6, <1>7, <1>8, <1>9, <1>10, <1>11,
        <1>12, <1>13, <1>14, <1>15, <1>16, <1>17, <1>18, <1>19 DEF Next

LEMMA CommentInvStep ==
    ASSUME PlaceType, PlaceInv, CommentType, CommentInv, [Next]_vars
    PROVE  CommentInv'
<1> USE DEF PlaceType, PlaceInv, CommentType, CommentInv, Opening, Before, Early,
        Testing, comVars, ReadComments, CommentsFree
<1>1. CASE Begin
  BY <1>1 DEF Begin
<1>2. CASE OpenMissing
  BY <1>2 DEF OpenMissing
<1>3. CASE OpenCorrupt
  BY <1>3 DEF OpenCorrupt
<1>4. CASE OpenRejected
  BY <1>4 DEF OpenRejected
<1>5. CASE OpenOk
  BY <1>5 DEF OpenOk
<1>6. CASE Failed
  BY <1>6 DEF Failed
<1>7. CASE Dohistogram
  BY <1>7 DEF Dohistogram
<1>8. CASE Transform
  BY <1>8 DEF Transform
<1>9. CASE Opened
  BY <1>9 DEF Opened
<1>10. CASE ClassDis
  BY <1>10 DEF ClassDis
<1>11. CASE F5
  BY <1>11 DEF F5
<1>12. CASE Invisible
  BY <1>12 DEF Invisible
<1>13. CASE Header
  BY <1>13 DEF Header
<1>14. CASE Jsteg
  BY <1>14 DEF Jsteg
<1>15. CASE OutGuess
  BY <1>15 DEF OutGuess
<1>16. CASE Jphide
  BY <1>16 DEF Jphide
<1>17. CASE Report
  BY <1>17 DEF Report
<1>18. CASE End
  BY <1>18 DEF End
<1>19. CASE UNCHANGED vars
  BY <1>19 DEF vars
<1> QED BY <1>1, <1>2, <1>3, <1>4, <1>5, <1>6, <1>7, <1>8, <1>9, <1>10, <1>11,
        <1>12, <1>13, <1>14, <1>15, <1>16, <1>17, <1>18, <1>19 DEF Next

LEMMA OwnedInit == Init => Owned
<1> SUFFICES ASSUME Init PROVE Owned
  OBVIOUS
<1>1. CallbackInv /\ BufferInv
  BY DEF Init, CallbackInv, BufferInv, Opening, Before, Early, Testing
<1>2. CommentInv
  BY DEF Init, CommentInv
<1> QED BY TypeInit, <1>1, <1>2 DEF Owned

LEMMA OwnedStep == ASSUME Owned, [Next]_vars PROVE Owned'
BY TypeStep, CallbackInvStep, BufferInvStep, CommentInvStep DEF Owned, TypeOK

\* Nothing of an image is left when the next one begins, but the comments of
\* an image that jpg_open() gave up on; nothing is freed twice.
THEOREM BuffersCorrect == Spec => []DataOwned
<1>1. Owned => DataOwned
  BY DEF Owned, BufferInv, CommentInv, DataOwned, Opening
<1>2. Owned /\ [Next]_vars => Owned'
  BY OwnedStep
<1> QED BY OwnedInit, <1>1, <1>2, PTL DEF Spec

\* The coefficients in the buffer are the image's own.
THEOREM CallbacksCorrect == Spec => []CoefficientsAreOwn
<1>1. Owned => CoefficientsAreOwn
  BY DEF Owned, CallbackInv, CoefficientsAreOwn
<1>2. Owned /\ [Next]_vars => Owned'
  BY OwnedStep
<1> QED BY OwnedInit, <1>1, <1>2, PTL DEF Spec

-----------------------------------------------------------------------------
(* Spoken.                                                                 *)

\* Each part of Spoken is kept by every step.
LEMMA AppendInvStep ==
    ASSUME PlaceType, PlaceInv, CallbackInv, CallbackType, AppendInv, [Next]_vars
    PROVE  AppendInv'
<1> USE DEF PlaceType, PlaceInv, CallbackInv, CallbackType, AppendInv, Opening,
        Before, Early, Testing, optVars, cbVars, DetectAppend
<1>1. CASE Begin
  BY <1>1 DEF Begin
<1>2. CASE OpenMissing
  BY <1>2 DEF OpenMissing
<1>3. CASE OpenCorrupt
  BY <1>3 DEF OpenCorrupt
<1>4. CASE OpenRejected
  BY <1>4 DEF OpenRejected
<1>5. CASE OpenOk
  BY <1>5 DEF OpenOk
<1>6. CASE Failed
  BY <1>6 DEF Failed
<1>7. CASE Dohistogram
  BY <1>7 DEF Dohistogram
<1>8. CASE Transform
  BY <1>8 DEF Transform
<1>9. CASE Opened
  BY <1>9 DEF Opened
<1>10. CASE ClassDis
  BY <1>10 DEF ClassDis
<1>11. CASE F5
  BY <1>11 DEF F5
<1>12. CASE Invisible
  BY <1>12 DEF Invisible
<1>13. CASE Header
  BY <1>13 DEF Header
<1>14. CASE Jsteg
  BY <1>14 DEF Jsteg
<1>15. CASE OutGuess
  BY <1>15 DEF OutGuess
<1>16. CASE Jphide
  BY <1>16 DEF Jphide
<1>17. CASE Report
  BY <1>17 DEF Report
<1>18. CASE End
  BY <1>18 DEF End
<1>19. CASE UNCHANGED vars
  BY <1>19 DEF vars
<1> QED BY <1>1, <1>2, <1>3, <1>4, <1>5, <1>6, <1>7, <1>8, <1>9, <1>10, <1>11,
        <1>12, <1>13, <1>14, <1>15, <1>16, <1>17, <1>18, <1>19 DEF Next

\* What a test does to the line, when it finds something and when it does not.
LEMMA OneTest ==
    ASSUME LineInv, pc \in Testing, pc' \in Testing,
           UNCHANGED <<mask, printed, buflen>>,
           "checkhdrs" \notin mask /\ "append" \in scans => "append" \in scans',
           (\E w \in Words : Found(w)) \/ UNCHANGED <<flag, line>>
    PROVE  LineInv'
<1>1. CASE UNCHANGED <<flag, line>>
  BY <1>1 DEF LineInv, Testing, Early
<1>2. ASSUME NEW w \in Words, Found(w) PROVE LineInv'
  <2>1. flag' = 1 /\ line' = line \union {w}
    BY <1>2 DEF Found
  <2>2. line' \subseteq Words \union {"skipped"}
    BY <2>1 DEF LineInv
  <2>3. line' \intersect Words # {}
    BY <2>1
  <2>4. ~printed' /\ pc' \in Testing \union {"end"}
    BY DEF LineInv
  <2> QED BY <2>1, <2>2, <2>3, <2>4 DEF LineInv, Words
<1> QED BY <1>1, <1>2

LEMMA LineInvStep ==
    ASSUME PlaceType, PlaceInv, CallbackInv, LineType, AppendInv, LineInv,
           [Next]_vars
    PROVE  LineInv'
<1> USE DEF PlaceType, PlaceInv, CallbackInv, LineType, AppendInv, LineInv,
        Opening, Before, Early, Testing, optVars, lineVars, DetectAppend
<1>1. CASE Begin
  BY <1>1 DEF Begin
<1>2. CASE OpenMissing
  BY <1>2 DEF OpenMissing
<1>3. CASE OpenCorrupt
  BY <1>3 DEF OpenCorrupt
<1>4. CASE OpenRejected
  BY <1>4 DEF OpenRejected
<1>5. CASE OpenOk
  BY <1>5 DEF OpenOk
<1>6. CASE Failed
  BY <1>6 DEF Failed
<1>7. CASE Dohistogram
  BY <1>7 DEF Dohistogram
<1>8. CASE Transform
  BY <1>8 DEF Transform
<1>9. CASE Opened
  BY <1>9 DEF Opened
<1>10. CASE ClassDis
  <2>1. /\ pc \in Testing /\ pc' \in Testing
        /\ UNCHANGED <<mask, printed, buflen, scans>>
    BY <1>10 DEF ClassDis
  <2>2. Found("classdis") \/ UNCHANGED <<flag, line>>
    BY <1>10, Zenon DEF ClassDis
  <2>3. "classdis" \in Words
    BY DEF Words
  <2> QED BY <2>1, <2>2, <2>3, OneTest
<1>11. CASE F5
  <2>1. /\ pc \in Testing /\ pc' \in Testing
        /\ UNCHANGED <<mask, printed, buflen, scans>>
    BY <1>11 DEF F5
  <2>2. Found("f5") \/ UNCHANGED <<flag, line>>
    BY <1>11, Zenon DEF F5
  <2>3. "f5" \in Words
    BY DEF Words
  <2> QED BY <2>1, <2>2, <2>3, OneTest
<1>12. CASE Invisible
  <2>1. /\ pc \in Testing /\ pc' \in Testing
        /\ UNCHANGED <<mask, printed, buflen, scans>>
    BY <1>12 DEF Invisible
  <2>2. Found("invisible") \/ UNCHANGED <<flag, line>>
    BY <1>12, Zenon DEF Invisible
  <2>3. "invisible" \in Words
    BY DEF Words
  <2> QED BY <2>1, <2>2, <2>3, OneTest
<1>13. CASE Header
  BY <1>13 DEF Header
<1>14. CASE Jsteg
  <2>1. /\ pc = "jsteg" /\ pc' = "outguess"
        /\ UNCHANGED <<mask, printed, buflen>>
        /\ "append" \in scans => "append" \in scans'
    BY <1>14 DEF Jsteg
  <2>2. \/ Found("jsteg") \/ UNCHANGED <<flag, line>>
        \/ /\ flag' = (IF flag = 0 THEN -1 ELSE flag)
           /\ line' = line \union {"skipped"}
    BY <1>14, Zenon DEF Jsteg
  <2>3. CASE Found("jsteg") \/ UNCHANGED <<flag, line>>
    <3>1. "jsteg" \in Words
      BY DEF Words
    <3> QED BY <2>1, <2>3, <3>1, OneTest
  <2>4. CASE /\ flag' = (IF flag = 0 THEN -1 ELSE flag)
             /\ line' = line \union {"skipped"}
    <3>1. ~printed' /\ line' \subseteq Words \union {"skipped"}
      BY <2>1, <2>4
    <3>2. /\ flag' # 0 /\ (flag' = -1 => line' = {"skipped"})
          /\ buflen' => flag' = 1
      BY <2>1, <2>4
    <3>3. flag' = 1 => flag = 1 /\ line \subseteq line'
      BY <2>4
    <3>4. flag' = 1 /\ "checkhdrs" \notin mask'
            => line' \intersect Words # {} \/ (buflen' /\ "append" \in scans')
      BY <2>1, <3>3
    <3> QED BY <2>1, <3>1, <3>2, <3>4
  <2> QED BY <2>2, <2>3, <2>4
<1>15. CASE OutGuess
  <2>1. /\ pc \in Testing /\ pc' \in Testing
        /\ UNCHANGED <<mask, printed, buflen, scans>>
    BY <1>15 DEF OutGuess
  <2>2. Found("outguess") \/ UNCHANGED <<flag, line>>
    BY <1>15, Zenon DEF OutGuess
  <2>3. "outguess" \in Words
    BY DEF Words
  <2> QED BY <2>1, <2>2, <2>3, OneTest
<1>16. CASE Jphide
  <2>1. /\ pc \in Testing /\ pc' \in Testing
        /\ UNCHANGED <<mask, printed, buflen, scans>>
    BY <1>16 DEF Jphide
  <2>2. Found("jphide") \/ UNCHANGED <<flag, line>>
    BY <1>16, Zenon DEF Jphide
  <2>3. "jphide" \in Words
    BY DEF Words
  <2> QED BY <2>1, <2>2, <2>3, OneTest
<1>17. CASE Report
  BY <1>17 DEF Report
<1>18. CASE End
  BY <1>18 DEF End
<1>19. CASE UNCHANGED vars
  BY <1>19 DEF vars
<1> QED BY <1>1, <1>2, <1>3, <1>4, <1>5, <1>6, <1>7, <1>8, <1>9, <1>10, <1>11,
        <1>12, <1>13, <1>14, <1>15, <1>16, <1>17, <1>18, <1>19 DEF Next

LEMMA MaskInvStep ==
    ASSUME PlaceType, PlaceInv, CallbackInv, LineInv, MaskInv, [Next]_vars
    PROVE  MaskInv'
<1> USE DEF PlaceType, PlaceInv, CallbackInv, MaskInv, Excluded, Opening, Before,
        Early, Late, Testing,
        optVars, lineVars, comVars, Found
<1>1. CASE Begin
  BY <1>1 DEF Begin
<1>2. CASE OpenMissing
  BY <1>2 DEF OpenMissing
<1>3. CASE OpenCorrupt
  BY <1>3 DEF OpenCorrupt
<1>4. CASE OpenRejected
  BY <1>4 DEF OpenRejected
<1>5. CASE OpenOk
  BY <1>5 DEF OpenOk, ReadComments
<1>6. CASE Failed
  BY <1>6 DEF Failed
<1>7. CASE Dohistogram
  BY <1>7 DEF Dohistogram
<1>8. CASE Transform
  BY <1>8 DEF Transform
<1>9. CASE Opened
  BY <1>9 DEF Opened
<1>10. CASE ClassDis
  BY <1>10 DEF ClassDis
<1>11. CASE F5
  BY <1>11 DEF F5
<1>12. CASE Invisible
  BY <1>12 DEF Invisible
<1>13. CASE Header
  BY <1>13 DEF Header
<1>14. CASE Jsteg
  BY <1>14 DEF Jsteg
<1>15. CASE OutGuess
  BY <1>15 DEF OutGuess
<1>16. CASE Jphide
  BY <1>16 DEF Jphide
<1>17. CASE Report
  BY <1>17 DEF Report
<1>18. CASE End
  BY <1>18 DEF End
<1>19. CASE UNCHANGED vars
  BY <1>19 DEF vars
<1> QED BY <1>1, <1>2, <1>3, <1>4, <1>5, <1>6, <1>7, <1>8, <1>9, <1>10, <1>11,
        <1>12, <1>13, <1>14, <1>15, <1>16, <1>17, <1>18, <1>19 DEF Next

LEMMA TellsStep ==
    ASSUME PlaceType, PlaceInv, CallbackInv, LineType, AppendInv, LineInv,
           LineTells, AppendedIsOwn, [Next]_vars
    PROVE  LineTells' /\ AppendedIsOwn'
<1> USE DEF PlaceType, PlaceInv, CallbackInv, LineType, AppendInv, LineInv,
        LineTells, AppendedIsOwn, Opening, Before, Early, Testing, optVars,
        lineVars, Words, DetectAppend
<1>1. CASE Begin
  BY <1>1 DEF Begin
<1>2. CASE OpenMissing
  BY <1>2 DEF OpenMissing
<1>3. CASE OpenCorrupt
  BY <1>3 DEF OpenCorrupt
<1>4. CASE OpenRejected
  BY <1>4 DEF OpenRejected
<1>5. CASE OpenOk
  BY <1>5 DEF OpenOk
<1>6. CASE Failed
  BY <1>6 DEF Failed
<1>7. CASE Dohistogram
  BY <1>7 DEF Dohistogram
<1>8. CASE Transform
  BY <1>8 DEF Transform
<1>9. CASE Opened
  BY <1>9 DEF Opened
<1>10. CASE ClassDis
  BY <1>10 DEF ClassDis
<1>11. CASE F5
  BY <1>11 DEF F5
<1>12. CASE Invisible
  BY <1>12 DEF Invisible
<1>13. CASE Header
  BY <1>13 DEF Header
<1>14. CASE Jsteg
  BY <1>14 DEF Jsteg
<1>15. CASE OutGuess
  BY <1>15 DEF OutGuess
<1>16. CASE Jphide
  BY <1>16 DEF Jphide
<1>17. CASE Report
  <2> DEFINE neg == IF flag = 0 THEN {"negative"} ELSE {}
             app == IF printed' /\ scans # {} /\ buflen THEN {"appended"} ELSE {}
  <2>1. /\ pc = "report" /\ pc' = "end" /\ line' = (line \union neg) \union app
        /\ printed' = (flag > 0 \/ ~quiet)
        /\ UNCHANGED <<mask, quiet, scans, flag, buflen, img>>
    BY <1>17, Zenon DEF Report, optVars
  <2>2. AppendedIsOwn'
    BY <2>1
  <2>3. CASE flag = 0
    <3>1. line = {} /\ neg = {"negative"} /\ app = {}
      BY <2>1, <2>3
    <3> QED BY <2>1, <2>2, <2>3, <3>1
  <2>4. CASE flag = -1
    BY <2>1, <2>2, <2>4
  <2>5. CASE flag = 1
    BY <2>1, <2>2, <2>5
  <2> QED BY <2>3, <2>4, <2>5
<1>18. CASE End
  BY <1>18 DEF End
<1>19. CASE UNCHANGED vars
  BY <1>19 DEF vars
<1> QED BY <1>1, <1>2, <1>3, <1>4, <1>5, <1>6, <1>7, <1>8, <1>9, <1>10, <1>11,
        <1>12, <1>13, <1>14, <1>15, <1>16, <1>17, <1>18, <1>19 DEF Next

LEMMA ExcludeStep ==
    ASSUME LineInv, MaskInv, TestsExclude, [Next]_vars
    PROVE  TestsExclude'
<1> USE DEF TestsExclude, Excluded
<1>1. CASE Dohistogram
  BY <1>1 DEF Dohistogram, LineInv, lineVars, Testing, Early
<1>2. CASE Transform
  BY <1>2 DEF Transform, LineInv, lineVars, Testing, Early
<1>3. CASE Report
  <2>1. Excluded /\ UNCHANGED <<mask, img>>
    BY <1>3 DEF Report, MaskInv, Late, optVars
  <2>2. line' \subseteq line \union {"negative", "appended"} /\ line \subseteq line'
    BY <1>3 DEF Report
  <2> QED BY <2>1, <2>2
<1>4. ASSUME ~Dohistogram, ~Transform, ~Report, Next PROVE pc' # "end"
  BY <1>4 DEF Next, Begin, OpenMissing, OpenCorrupt, OpenRejected, OpenOk, Failed,
      Opened, ClassDis, F5, Invisible, Header, Jsteg, OutGuess, Jphide, End
<1>5. CASE UNCHANGED vars
  BY <1>5 DEF vars, optVars, lineVars
<1> QED BY <1>1, <1>2, <1>3, <1>4, <1>5

LEMMA SpokenInit == Init => Spoken
<1> SUFFICES ASSUME Init PROVE Spoken
  OBVIOUS
<1>1. AppendInv /\ LineTells /\ AppendedIsOwn /\ TestsExclude
  BY DEF Init, AppendInv, LineTells, AppendedIsOwn, TestsExclude, Opening
<1>2. LineInv /\ MaskInv
  BY DEF Init, LineInv, MaskInv, Testing, Early, Late
<1> QED BY OwnedInit, <1>1, <1>2 DEF Spoken

LEMMA SpokenStep == ASSUME Spoken, [Next]_vars PROVE Spoken'
BY OwnedStep, AppendInvStep, LineInvStep, MaskInvStep, TellsStep, ExcludeStep
   DEF Spoken, Owned, TypeOK

\* Appended data is reported of an image that has some; the line agrees with
\* what the tests found; and tests that exclude each other do.
THEOREM LinesCorrect == Spec => [](AppendedIsOwn /\ LineTells /\ TestsExclude)
<1>1. Spoken => AppendedIsOwn /\ LineTells /\ TestsExclude
  BY DEF Spoken
<1>2. Spoken /\ [Next]_vars => Spoken'
  BY SpokenStep
<1> QED BY SpokenInit, <1>1, <1>2, PTL DEF Spec

\* The same of the appended data alone.
THEOREM AppendedCorrect == Spec => []AppendedIsOwn
BY LinesCorrect, PTL

-----------------------------------------------------------------------------
(* detect() implements Verdict.  Judged adds to Spoken what makes the line  *)
(* complete: what the tests found is of a test that remained, the flag is   *)
(* set by what is in the line, and appended data is not missed.             *)

EarlyWords == {"classdis", "f5", "invisible"}
LateWords  == {"jsteg", "outguess", "jphide"}
LateLine   == line \ EarlyWords

\* The flag as the line has it, and the data behind the image.
FlagInv ==
    /\ pc = "opening" /\ ~histonly => (eoi_cb <=> "append" \in mask)
    /\ pc \in {"opened"} \union Testing => (buflen <=> "append" \in mask /\ img.appended)
    /\ pc \in Testing =>
        /\ line \intersect EarlyWords \subseteq mask
        /\ flag = 1 <=> line \ {"skipped"} # {} \/ buflen

\* The tests that are left, and those whose words are in the line.
ScansInv ==
    pc \in Late =>
        /\ scans \subseteq mask
        /\ "append" \in mask /\ ~V!RuledOut => "append" \in scans
        /\ V!RuledOut => scans = {}
        /\ scans \intersect LateWords \subseteq V!Remaining
        /\ LateLine \subseteq V!Remaining \union {"skipped"}
        /\ "skipped" \in line => "jsteg" \in V!Remaining
        /\ LateLine \intersect {"jsteg", "skipped"} # {} => \E w \in LateLine : LateLine = {w}

Judged == Spoken /\ FlagInv /\ ScansInv

\* A test of the image's comments or of its class.
LEMMA OneEarly ==
    ASSUME pc \in Testing, pc' \in Testing, FlagInv, UNCHANGED <<mask, img, buflen>>,
           NEW word \in EarlyWords,
           (word \in mask /\ Found(word)) \/ UNCHANGED <<flag, line>>
    PROVE  FlagInv'
<1> USE DEF FlagInv, Testing, Early, EarlyWords
<1>1. CASE word \in mask /\ Found(word)
  BY <1>1 DEF Found
<1>2. CASE UNCHANGED <<flag, line>>
  BY <1>2
<1> QED BY <1>1, <1>2

LEMMA FlagInvStep ==
    ASSUME Spoken, FlagInv, [Next]_vars
    PROVE  FlagInv'
<1> USE DEF Spoken, Owned, TypeOK, PlaceType, PlaceInv, LineType, CallbackType, CallbackInv,
        AppendInv, LineInv, MaskInv, FlagInv, Testing, Early, Before, Opening, EarlyWords, optVars
<1>1. CASE Begin
  BY <1>1 DEF Begin
<1>2. CASE OpenMissing
  BY <1>2 DEF OpenMissing
<1>3. CASE OpenCorrupt
  BY <1>3 DEF OpenCorrupt
<1>4. CASE OpenRejected
  BY <1>4 DEF OpenRejected
<1>5. CASE OpenOk
  BY <1>5 DEF OpenOk, DetectAppend, lineVars
<1>6. CASE Failed
  BY <1>6 DEF Failed
<1>7. CASE Dohistogram
  BY <1>7 DEF Dohistogram
<1>8. CASE Transform
  BY <1>8 DEF Transform
<1>9. CASE Opened
  BY <1>9 DEF Opened
<1>10. CASE ClassDis
  <2>1. pc \in Testing /\ pc' \in Testing /\ UNCHANGED <<mask, img, buflen>> /\ scans = mask
    BY <1>10 DEF ClassDis
  <2>2. ("classdis" \in scans /\ Found("classdis")) \/ UNCHANGED <<flag, line>>
    BY <1>10, Zenon DEF ClassDis
  <2>3. "classdis" \in EarlyWords
    OBVIOUS
  <2> QED BY <2>1, <2>2, <2>3, OneEarly
<1>11. CASE F5
  <2>1. pc \in Testing /\ pc' \in Testing /\ UNCHANGED <<mask, img, buflen>> /\ scans = mask
    BY <1>11 DEF F5
  <2>2. ("f5" \in scans /\ Found("f5")) \/ UNCHANGED <<flag, line>>
    BY <1>11, Zenon DEF F5
  <2>3. "f5" \in EarlyWords
    OBVIOUS
  <2> QED BY <2>1, <2>2, <2>3, OneEarly
<1>12. CASE Invisible
  <2>1. pc \in Testing /\ pc' \in Testing /\ UNCHANGED <<mask, img, buflen>> /\ scans = mask
    BY <1>12 DEF Invisible
  <2>2. ("invisible" \in scans /\ Found("invisible")) \/ UNCHANGED <<flag, line>>
    BY <1>12, Zenon DEF Invisible
  <2>3. "invisible" \in EarlyWords
    OBVIOUS
  <2> QED BY <2>1, <2>2, <2>3, OneEarly
<1>13. CASE Header
  BY <1>13 DEF Header, lineVars
<1>14. CASE Jsteg
  BY <1>14 DEF Jsteg, Found
<1>15. CASE OutGuess
  BY <1>15 DEF OutGuess, Found
<1>16. CASE Jphide
  BY <1>16 DEF Jphide, Found
<1>17. CASE Report
  BY <1>17 DEF Report
<1>18. CASE End
  BY <1>18 DEF End
<1>19. CASE UNCHANGED vars
  BY <1>19 DEF vars, lineVars, cbVars
<1> QED BY <1>1, <1>2, <1>3, <1>4, <1>5, <1>6, <1>7, <1>8, <1>9, <1>10, <1>11,
        <1>12, <1>13, <1>14, <1>15, <1>16, <1>17, <1>18, <1>19 DEF Next
\* A test of the coefficients finds something, and others may leave the mask.
LEMMA ScansInvStep ==
    ASSUME Spoken, FlagInv, ScansInv, [Next]_vars
    PROVE  ScansInv'
<1> USE DEF Late, ScansInv, LateLine, LateWords, EarlyWords, V!RuledOut, V!Remaining, V!Late,
        optVars, Spoken
<1>1. ASSUME ~Header, ~Jsteg, ~OutGuess, ~Jphide, Next PROVE pc' \notin Late
  BY <1>1 DEF Next, Begin, OpenMissing, OpenCorrupt, OpenRejected, OpenOk, Failed,
      Dohistogram, Transform, Opened, ClassDis, F5, Invisible, Report, End
<1>2. CASE Header
  <2>1. scans = mask /\ line \subseteq EarlyWords /\ ncomments = img.comments /\ pc' = "jsteg"
    BY <1>2 DEF Header, Owned, CallbackInv, MaskInv, Before, Early, Testing, PlaceInv
  <2>2. UNCHANGED <<mask, img, line>>
    BY <1>2 DEF Header, lineVars
  <2>3. CASE "checkhdrs" \in scans /\ (ncomments > 0 \/ img.marker)
    <3>1. scans' = {}
      BY <1>2, <2>3 DEF Header
    <3> QED BY <2>1, <2>2, <2>3, <3>1
  <2>4. CASE ~("checkhdrs" \in scans /\ (ncomments > 0 \/ img.marker))
    <3>1. scans' = IF "checkhdrs" \in scans /\ ~img.v11 THEN scans \ {"outguess"} ELSE scans
      BY <1>2, <2>4 DEF Header
    <3> QED BY <2>1, <2>2, <2>4, <3>1
  <2> QED BY <2>3, <2>4
<1>3. CASE Jsteg
  <2>1. pc = "jsteg" /\ pc' = "outguess" /\ UNCHANGED <<mask, img>> /\ line \subseteq EarlyWords
    BY <1>3 DEF Jsteg, MaskInv, Early
  <2>2. \/ UNCHANGED <<line, scans>>
        \/ /\ "jsteg" \in scans /\ scans' = scans \ {"outguess", "jphide"}
           /\ line' = line \union {"jsteg"} \/ line' = line \union {"skipped"}
    BY <1>3 DEF Jsteg, Found
  <2> QED BY <2>1, <2>2
<1>4. CASE OutGuess
  BY <1>4 DEF OutGuess, Found, MaskInv
<1>5. CASE Jphide
  BY <1>5 DEF Jphide, Found, MaskInv
<1>6. CASE UNCHANGED vars
  BY <1>6 DEF vars, lineVars
<1> QED BY <1>1, <1>2, <1>3, <1>4, <1>5, <1>6

\* What a step is of Verdict: the line is said at once, where Report ends the image.
LEMMA VerdictStep ==
    ASSUME Judged, [Next]_vars
    PROVE  [V!Next]_V!vars
<1> USE DEF Judged, Spoken, Owned, TypeOK, PlaceType, PlaceInv, LineInv, Testing, Early, optVars,
        lineVars, NoReport
<1>1. CASE Begin
  <2>1. pc = "idle" /\ pc' = "opening" /\ image < MaxImages /\ image' = image + 1
        /\ UNCHANGED <<mask, quiet, img>>
    BY <1>1 DEF Begin
  <2>2. V!Take
    BY <2>1 DEF V!Take
  <2> QED BY <2>2 DEF V!Next
<1>2. CASE OpenOk
  <2>1. pc = "opening" /\ pc' # "end" /\ img' \in ImageFile /\ UNCHANGED <<mask, quiet, image>>
    BY <1>2 DEF OpenOk
  <2>2. V!See
    BY <2>1 DEF V!See
  <2> QED BY <2>2 DEF V!Next
<1>3. CASE Dohistogram \/ Transform
  <2>1. /\ pc \in {"histogram", "opened"} /\ pc' = "end" /\ line' = {} /\ ~printed'
        /\ UNCHANGED <<mask, quiet, image, img>>
    BY <1>3 DEF Dohistogram, Transform, LineType
  <2>2. printed' = FALSE
    BY <1>3, <2>1 DEF Dohistogram, Transform, LineType
  <2> QED BY <2>1, <2>2 DEF V!vars
<1>4. CASE Report
  <2> DEFINE early == line \intersect EarlyWords
  <2>1. /\ pc = "report" /\ pc' = "end" /\ UNCHANGED <<mask, quiet, image, img>>
        /\ printed' = (flag > 0 \/ ~quiet)
        /\ line' = line \union (IF flag = 0 THEN {"negative"} ELSE {})
                    \union (IF printed' /\ scans # {} /\ buflen THEN {"appended"} ELSE {})
    BY <1>4 DEF Report
  <2>2. early \in SUBSET (V!Early \intersect mask)
    BY <2>1 DEF FlagInv, V!Early, EarlyWords
  <2>3. LateLine \in V!LateResults
    BY <2>1 DEF ScansInv, Late, V!LateResults, LateLine, EarlyWords
  <2>4. line = early \union LateLine
    BY DEF LateLine
  <2>5. buflen = V!Appended
    BY <2>1 DEF FlagInv, V!Appended, CallbackType
  <2>6. flag = 1 <=> V!Positive(early, LateLine)
    BY <2>1, <2>5 DEF FlagInv, V!Positive, LateLine, EarlyWords
  <2>7. flag = 0 <=> ~V!Positive(early, LateLine) /\ "skipped" \notin LateLine
    BY <2>1, <2>6 DEF FlagInv, LateLine, EarlyWords, LineType
  <2>8. printed' /\ scans # {} /\ buflen <=> V!Appended /\ ~V!RuledOut
    <3>1. V!Appended => flag = 1
      BY <2>6 DEF V!Positive
    <3>2. flag = 1 => flag > 0
      OBVIOUS
    <3>3. V!Appended => printed'
      BY <2>1, <3>1, <3>2
    <3>4. V!Appended /\ ~V!RuledOut => scans # {}
      BY <2>1 DEF ScansInv, Late, V!Appended
    <3>5. V!RuledOut => scans = {}
      BY <2>1 DEF ScansInv, Late
    <3> QED BY <2>5, <3>3, <3>4, <3>5
  <2>9. line' = V!Words(early, LateLine)
    BY <2>1, <2>4, <2>7, <2>8 DEF V!Words
  <2>10. printed' = (V!Positive(early, LateLine) \/ ~quiet)
    BY <2>1, <2>6 DEF LineType
  <2>11. V!Say
    BY <2>1, <2>2, <2>3, <2>9, <2>10 DEF V!Say
  <2> QED BY <2>11 DEF V!Next
<1>5. CASE End
  BY <1>5 DEF End, V!Next, V!Forget, V!vars
<1>6. ASSUME ~Begin, ~OpenOk, ~Dohistogram, ~Transform, ~Report, ~End, Next PROVE UNCHANGED V!vars
  <2>1. pc # "end" /\ pc' # "end" /\ UNCHANGED <<mask, quiet, image, img>>
    BY <1>6 DEF Next, OpenMissing, OpenCorrupt, OpenRejected, Failed, Opened, ClassDis, F5,
        Invisible, Header, Jsteg, OutGuess, Jphide
  <2> QED BY <2>1 DEF V!vars
<1>7. CASE UNCHANGED vars
  BY <1>7 DEF vars, V!vars
<1> QED BY <1>1, <1>2, <1>3, <1>4, <1>5, <1>6, <1>7

\* The line of every image is as Verdict has it, for every set of masks that main() can arrive
\* at and any number of images (stegdetect.c: detect()).
THEOREM VerdictImplemented == Spec => ImplementsVerdict
<1>1. Init => V!Init /\ FlagInv /\ ScansInv
  <2> SUFFICES ASSUME Init PROVE V!Init /\ FlagInv /\ ScansInv
    OBVIOUS
  <2>1. FlagInv /\ ScansInv
    BY DEF Init, FlagInv, ScansInv, Testing, Early, Late
  <2>2. mask \in SUBSET Flags /\ img \in ImageFile
    BY DEF Init, LegalMasks, ImageFile
  <2>3. V!Init
    BY <2>2 DEF Init, V!Init, V!Early, V!Late, Flags, Tests, ImageFile
  <2> QED BY <2>1, <2>3
<1>2. Judged /\ [Next]_vars => Judged'
  BY SpokenStep, FlagInvStep, ScansInvStep DEF Judged
<1>3. Judged /\ [Next]_vars => [V!Next]_V!vars
  BY VerdictStep
<1>4. Spoken /\ FlagInv /\ ScansInv <=> Judged
  BY DEF Judged
<1> QED BY SpokenInit, <1>1, <1>2, <1>3, <1>4, PTL DEF Spec, ImplementsVerdict, V!Spec

-----------------------------------------------------------------------------
(***************************************************************************)
(* Chi^2: the histogram is always that of the window a detector asked for, *)
(* and a search uses only a width it tested.                               *)
(***************************************************************************)

-----------------------------------------------------------------------------
(* Counting in windows.                                                    *)

\* The occurrences in a window are finitely many.
LEMMA CountFinite ==
    ASSUME NEW c, NEW v, NEW x \in Int, NEW y \in Int
    PROVE  IsFiniteSet({i \in x..(y - 1) : c[i] = v})
<1>1. IsFiniteSet(x..(y - 1))
  BY FS_Interval
<1>2. QED
  BY <1>1, FS_Subset

LEMMA CountNat ==
    ASSUME NEW c, NEW v, NEW x \in Int, NEW y \in Int
    PROVE  Count(c, v, x, y) \in Nat
BY CountFinite, FS_CardinalityType DEF Count

\* Adjacent windows: their counts add up.
LEMMA CountSplit ==
    ASSUME NEW c, NEW v, NEW x \in Int, NEW y \in Int, NEW z \in Int, x <= y, y <= z
    PROVE  Count(c, v, x, z) = Count(c, v, x, y) + Count(c, v, y, z)
<1> DEFINE A == {i \in x..(y - 1) : c[i] = v}
           B == {i \in y..(z - 1) : c[i] = v}
<1>1. IsFiniteSet(A) /\ IsFiniteSet(B)
  BY CountFinite
<1>2. A \cap B = {}
  OBVIOUS
<1>3. A \cup B = {i \in x..(z - 1) : c[i] = v}
  OBVIOUS
<1>4. Cardinality(A) \in Nat /\ Cardinality(B) \in Nat
  BY <1>1, FS_CardinalityType
<1>5. Cardinality(A \cup B) = Cardinality(A) + Cardinality(B) - Cardinality(A \cap B)
  BY <1>1, FS_Union
<1>6. Cardinality(A \cap B) = 0
  BY <1>2, FS_EmptySet
<1>7. /\ Count(c, v, x, y) = Cardinality(A) /\ Count(c, v, y, z) = Cardinality(B)
      /\ Count(c, v, x, z) = Cardinality(A \cup B)
  BY <1>3 DEF Count
<1>8. QED
  BY <1>4, <1>5, <1>6, <1>7

\* The condition under which buildDCThist() slides makes the windows overlap, and
\* what is taken away and added then turns one histogram into the other.
LEMMA BuildCorrect ==
    ASSUME NEW c, NEW b, NEW x \in Nat, NEW y \in Nat, x < y,
           oldx \in Nat, oldy \in Nat, oldx <= oldy,
           olddata = b => hist = Histogram(c, oldx, oldy),
           BuildDCThist(c, b, x, y)
    PROVE  hist' = Histogram(c, x, y)
<1> DEFINE fresh == \/ olddata # b \/ x < oldx \/ y < oldy
                    \/ (x - oldx) + (y - oldy) >= y - x
           kept  == [v \in Values |-> IF fresh THEN 0 ELSE hist[v] - Count(c, v, oldx, x)]
           from  == IF fresh THEN x ELSE oldy
<1>1. hist' = [v \in Values |-> kept[v] + Count(c, v, from, y)]
  BY DEF BuildDCThist
<1>2. ASSUME NEW v \in Values PROVE kept[v] + Count(c, v, from, y) = Count(c, v, x, y)
  <2>1. CASE fresh
    <3>1. kept[v] = 0 /\ from = x
      BY <2>1
    <3>2. QED
      BY <3>1, CountNat
  <2>2. CASE ~fresh
    <3>1. olddata = b /\ oldx <= x /\ x <= oldy /\ oldy <= y
      BY <2>2
    <3>2. kept[v] = hist[v] - Count(c, v, oldx, x) /\ from = oldy
      BY <2>2
    <3>3. hist[v] = Count(c, v, oldx, oldy)
      BY <3>1 DEF Histogram
    <3>4. Count(c, v, oldx, oldy) = Count(c, v, oldx, x) + Count(c, v, x, oldy)
      BY <3>1, CountSplit
    <3>5. Count(c, v, x, y) = Count(c, v, x, oldy) + Count(c, v, oldy, y)
      BY <3>1, CountSplit
    <3>6. /\ Count(c, v, oldx, x) \in Nat /\ Count(c, v, x, oldy) \in Nat
          /\ Count(c, v, oldy, y) \in Nat
      BY CountNat
    <3>7. QED
      BY <3>2, <3>3, <3>4, <3>5, <3>6
  <2>3. QED
    BY <2>1, <2>2
<1>3. QED
  BY <1>1, <1>2 DEF Histogram

\* A histogram has a natural number for every value.
LEMMA HistogramType ==
    ASSUME NEW c, NEW x \in Int, NEW y \in Int
    PROVE  Histogram(c, x, y) \in [Values -> Nat]
BY CountNat DEF Histogram

-----------------------------------------------------------------------------
(* The histogram.                                                          *)

LEMMA DctInvInit == DctInit => DctIInv
BY BitsAssumption DEF DctInit, DctIInv, DctTypeOK

LEMMA DctInvNext == DctIInv /\ [DctNext]_dctVars => DctIInv'
<1> SUFFICES ASSUME DctIInv, [DctNext]_dctVars PROVE DctIInv'
  OBVIOUS
<1> USE NullAssumption, BitsAssumption
<1>1. CASE StartMethod
  <2>1. phase' = "method" /\ data' \in Buffers /\ bits' \in 0..MaxBits /\ content' \in Contents(bits')
    BY <1>1 DEF StartMethod
  <2>2. olddata' = Null /\ oldx' = 0 /\ oldy' = 0 /\ hist' = hist /\ asked' = <<0, 0>>
    BY <1>1 DEF StartMethod, BuildDCTreset
  <2>3. QED
    BY <2>1, <2>2 DEF DctIInv, DctTypeOK
<1>2. CASE Restart
  <2>1. UNCHANGED <<phase, data, bits, content>>
    BY <1>2 DEF Restart
  <2>2. olddata' = Null /\ oldx' = 0 /\ oldy' = 0 /\ hist' = hist /\ asked' = <<0, 0>>
    BY <1>2 DEF Restart, BuildDCTreset
  <2>3. QED
    BY <2>1, <2>2 DEF DctIInv, DctTypeOK
<1>3. CASE EndMethod
  <2>1. phase' = "idle" /\ data' = Null /\ bits' = 0 /\ content' \in Contents(0)
    BY <1>3 DEF EndMethod
  <2>2. UNCHANGED <<olddata, oldx, oldy, hist, asked>>
    BY <1>3 DEF EndMethod
  <2>3. QED
    BY <2>1, <2>2 DEF DctIInv, DctTypeOK
<1>4. ASSUME NEW a \in -1..MaxBits, NEW b \in 0..(MaxBits + 1), Chi2test(a, b) PROVE DctIInv'
  <2> DEFINE lo == IF a < 0 THEN 0 ELSE a
             hi == IF b > bits THEN bits ELSE b
  <2>1. /\ phase = "method" /\ lo < hi /\ BuildDCThist(content, data, lo, hi)
        /\ asked' = <<lo, hi>> /\ UNCHANGED <<phase, data, bits, content>>
    BY <1>4 DEF Chi2test
  <2>2. bits \in 0..MaxBits /\ lo \in Nat /\ hi \in Nat /\ lo \in 0..hi /\ hi \in 0..MaxBits /\ hi <= bits
    BY <2>1 DEF DctIInv, DctTypeOK
  <2>3. oldx \in Nat /\ oldy \in Nat /\ oldx <= oldy /\ data \in Buffers
    BY <2>1 DEF DctIInv, DctTypeOK
  <2>4. olddata = data => hist = Histogram(content, oldx, oldy)
    BY <2>1, <2>3 DEF DctIInv
  <2>5. hist' = Histogram(content, lo, hi)
    BY <2>1, <2>2, <2>3, <2>4, BuildCorrect
  <2>6. olddata' = data /\ oldx' = lo /\ oldy' = hi
    BY <2>1 DEF BuildDCThist
  <2>7. hist' \in [Values -> Nat]
    BY <2>2, <2>5, HistogramType
  <2>8. asked' \in (0..MaxBits) \X (0..MaxBits)
    BY <2>1, <2>2
  <2> HIDE DEF lo, hi
  <2>9. QED
    BY <2>1, <2>2, <2>3, <2>5, <2>6, <2>7, <2>8 DEF DctIInv, DctTypeOK
<1>5. CASE UNCHANGED dctVars
  BY <1>5 DEF dctVars, DctIInv, DctTypeOK
<1>6. QED
  BY <1>1, <1>2, <1>3, <1>4, <1>5 DEF DctNext

\* A step of a detector is a step of the histogram's users, or leaves it alone.
LEMMA ChiSearchStep == [ChiNext]_chiVars => [DctNext]_dctVars
<1> SUFFICES ASSUME [ChiNext]_chiVars PROVE [DctNext]_dctVars
  OBVIOUS
<1>1. CASE BeginSearch \/ BeginJphide
  BY <1>1 DEF BeginSearch, BeginJphide, DctNext
<1>2. CASE BeginJphideOld
  BY <1>2 DEF BeginJphideOld, DctNext
<1>3. CASE Test
  BY <1>3 DEF Test, DctNext
<1>4. CASE EndPass
  BY <1>4 DEF EndPass
<1>5. CASE Return
  BY <1>5 DEF Return, DctNext
<1>6. CASE UNCHANGED chiVars
  BY <1>6 DEF chiVars
<1>7. QED
  BY <1>1, <1>2, <1>3, <1>4, <1>5, <1>6 DEF ChiNext

\* Counts stay natural numbers, and the cached window belongs to the data of the
\* detector that runs.
THEOREM HistogramInvariant == ChiSpec => []DctIInv
<1>1. ChiInit => DctIInv
  BY DctInvInit DEF ChiInit
<1>2. DctIInv /\ [ChiNext]_chiVars => DctIInv'
  BY DctInvNext, ChiSearchStep
<1>3. QED
  BY <1>1, <1>2, PTL DEF ChiSpec

\* What a detector reads from DCThist is the histogram of the window it asked for.
THEOREM WindowCorrect == ChiSpec => []HistIsWindow
<1>1. DctIInv => HistIsWindow
  <2> SUFFICES ASSUME DctIInv, phase = "method", olddata # Null
               PROVE  hist = Histogram(content, asked[1], asked[2])
    BY DEF HistIsWindow
  <2>1. asked = <<oldx, oldy>> /\ hist = Histogram(content, oldx, oldy)
    BY DEF DctIInv
  <2>2. QED
    BY <2>1
<1>2. QED
  BY <1>1, HistogramInvariant, PTL

-----------------------------------------------------------------------------
(* The search.                                                             *)

\* The widths stay within imin..imax; after the first pass the best width so far
\* passed its test.
SearchIInv ==
    /\ search \in {"off", "on", "found", "none"}
    /\ iteration \in Nat
    /\ min \in ImIn..ImAx /\ max \in min..ImAx
    /\ good \in ImIn..(ImAx + 1)
    /\ search = "on" =>
         /\ percent \in min..max
         /\ iteration = 0 => percent = ImAx /\ good = ImAx + 1
         /\ iteration > 0 => good <= ImAx /\ good \in passed
    /\ search = "found" => percent = good /\ good \in passed
    /\ search = "none" => ImAx \in failed

\* Halving stays between the ends.
LEMMA MiddleBetween ==
    ASSUME NEW lo \in Int, NEW hi \in Int, lo <= hi
    PROVE  Middle(lo, hi) \in lo..hi
BY DEF Middle

LEMMA SearchInvNext ==
    ASSUME SearchIInv, NEW below \in BOOLEAN, SearchNext(below)
    PROVE  SearchIInv'
<1> USE WidthAssumption, IterAssumption
<1>0. /\ search = "on" /\ passed \subseteq passed' /\ failed \subseteq failed'
      /\ (below => percent \in passed') /\ (~below => percent \in failed')
      /\ iteration \in Nat /\ percent \in Int /\ min \in Int /\ max \in Int /\ good \in Int
      /\ ImIn <= min /\ min <= percent /\ percent <= max /\ max <= ImAx
  BY DEF SearchNext, SearchIInv
<1>1. ASSUME NEW p \in Int, NEW g \in Int, Iterate(p, g),
             min' \in ImIn..ImAx, max' \in min'..ImAx,
             p \in min'..max', g \in ImIn..ImAx, g \in passed'
      PROVE  SearchIInv'
  <2>1. iteration' = iteration + 1
    BY <1>1 DEF Iterate
  <2>2. CASE iteration' < MaxIter
    <3>1. percent' = p /\ good' = g /\ search' = "on"
      BY <1>0, <1>1, <2>2 DEF Iterate
    <3>2. QED
      BY <1>0, <1>1, <2>1, <3>1 DEF SearchIInv
  <2>3. CASE ~(iteration' < MaxIter)
    <3>1. percent' = g /\ good' = g /\ search' = "found"
      BY <1>1, <2>3 DEF Iterate, SearchEnd
    <3>2. QED
      BY <1>0, <1>1, <2>1, <3>1 DEF SearchIInv
  <2>4. QED
    BY <2>2, <2>3
<1>2. CASE FirstTest(below)
  <2>1. iteration = 0 /\ percent = ImAx /\ good = ImAx + 1 /\ min' = min /\ max' = max
    BY <1>0, <1>2 DEF FirstTest, SearchIInv
  <2>2. CASE below
    <3>1. Iterate(min, percent) /\ percent \in passed'
      BY <1>0, <1>2, <2>2 DEF FirstTest
    <3>2. QED
      BY <1>0, <1>1, <2>1, <3>1
  <2>3. CASE ~below
    <3>1. SearchEnd(good) /\ iteration' = iteration /\ ImAx \in failed'
      BY <1>0, <1>2, <2>1, <2>3 DEF FirstTest
    <3>2. search' = "none" /\ good' = good
      BY <2>1, <3>1 DEF SearchEnd
    <3>3. QED
      BY <1>0, <2>1, <3>1, <3>2 DEF SearchIInv
  <2>4. QED
    BY <2>2, <2>3
<1>3. ASSUME iteration > 0 PROVE good \in ImIn..ImAx /\ good \in passed'
  BY <1>0, <1>3 DEF SearchIInv
<1>4. CASE below /\ Success
  <2>1. percent \in passed'
    BY <1>0, <1>4
  <2>2. CASE percent = min
    <3>1. SearchEnd(percent) /\ UNCHANGED <<min, max, iteration>>
      BY <1>4, <2>2 DEF Success
    <3>2. percent' = percent /\ good' = percent /\ search' = "found"
      BY <1>0, <3>1 DEF SearchEnd
    <3>3. QED
      BY <1>0, <2>1, <3>1, <3>2 DEF SearchIInv
  <2>3. CASE percent # min
    <3>1. max' = percent /\ min' = min /\ Iterate(Middle(min, percent), percent)
      BY <1>4, <2>3 DEF Success
    <3>2. Middle(min, percent) \in min..percent
      BY <1>0, MiddleBetween
    <3>3. QED
      BY <1>0, <1>1, <2>1, <3>1, <3>2
  <2>4. QED
    BY <2>2, <2>3
<1>5. CASE ~below /\ Failure
  <2>1. iteration > 0 /\ min' = percent /\ max' = max /\ Iterate(Middle(percent, max), good)
    BY <1>5 DEF Failure
  <2>2. Middle(percent, max) \in percent..max
    BY <1>0, MiddleBetween
  <2>3. QED
    BY <1>0, <1>1, <1>3, <2>1, <2>2
<1>6. QED
  BY <1>2, <1>4, <1>5 DEF SearchNext

LEMMA SearchInvStep == SearchIInv /\ [ChiNext]_chiVars => SearchIInv'
<1> SUFFICES ASSUME SearchIInv, [ChiNext]_chiVars PROVE SearchIInv'
  OBVIOUS
<1> USE WidthAssumption
<1>1. CASE BeginSearch \/ BeginJphideOld
  <2>1. SearchBegin
    BY <1>1 DEF BeginSearch, BeginJphideOld
  <2>2. QED
    BY <2>1 DEF SearchBegin, SearchIInv
<1>2. CASE EndPass
  BY <1>2, SearchInvNext DEF EndPass
<1>3. CASE Return
  BY <1>3 DEF Return, SearchIInv
<1>4. CASE UNCHANGED searchVars
  BY <1>4 DEF searchVars, SearchIInv
<1>5. QED
  BY <1>1, <1>2, <1>3, <1>4 DEF ChiNext, BeginJphide, Test, chiVars

\* A detector goes on only with a width that passed its own test, and gives up only
\* when the largest width failed.
THEOREM SearchCorrect == ChiSpec => []ResultTested
<1>1. ChiInit => SearchIInv
  BY WidthAssumption DEF ChiInit, SearchInit, SearchIInv
<1>2. SearchIInv => ResultTested
  BY DEF SearchIInv, ResultTested
<1>3. QED
  BY <1>1, <1>2, SearchInvStep, PTL DEF ChiSpec

-----------------------------------------------------------------------------
(***************************************************************************)
(* F5: what the arithmetic of the test guarantees for every histogram.     *)
(***************************************************************************)

(* What an int holds is not changed by being stored in one.                *)
LEMMA WrappedFits ==
    ASSUME NEW x \in IntRange
    PROVE  Wrapped(x) = x
  BY DEF Wrapped

(***************************************************************************)
(* The four products of betakl(), read as integers, when none overflows.   *)
(***************************************************************************)
LEMMA BetaklExact ==
    ASSUME NEW h \in Counts, NEW H \in Counts, Fits(h, H)
    PROVE  betakl(h, H) = [num |-> H[1] * (h[0] - H[0]) + (h[1] - H[1]) * (H[2] - H[1]),
                           den |-> H[1] * H[1] + (H[2] - H[1]) * (H[2] - H[1])]
<1>1. \A i \in 1..4 : Wrapped(Products(h, H)[i]) = Products(h, H)[i]
  BY WrappedFits DEF Fits
<1>2. /\ Products(h, H)[1] = H[1] * (h[0] - H[0])
      /\ Products(h, H)[2] = (h[1] - H[1]) * (H[2] - H[1])
      /\ Products(h, H)[3] = H[1] * H[1]
      /\ Products(h, H)[4] = (H[2] - H[1]) * (H[2] - H[1])
  BY DEF Products, ZerosGained, OnesGained, OnesFed, Square
<1> QED
  BY <1>1, <1>2 DEF betakl

(* Five laws of multiplication the theorems below calculate with.          *)
LEMMA Laws ==
    ASSUME NEW a \in Int, NEW b \in Int, NEW c \in Int
    PROVE  /\ a * b \in Int /\ a * b = b * a
           /\ a * (b * c) = (a * b) * c
           /\ a * (b + c) = a * b + a * c
           /\ a * (b - c) = a * b - a * c
  OBVIOUS

(***************************************************************************)
(* F5's trace is measured exactly: when a picture is an original shrunk at *)
(* the rate p/q (of every value a share p/q one lower), the estimate is    *)
(* that original, no product overflows and the quotient is not NaN, then   *)
(* betakl() returns p/q (num/den = p/q, multiplied out), and f5_ekl(), the *)
(* distance for that rate, is zero.                                        *)
(***************************************************************************)
THEOREM RateRecovered ==
    ASSUME NEW h \in Counts, NEW H \in Counts, NEW p \in Nat, NEW q \in Nat \ {0},
           Fits(h, H), ShrunkAt(h, H, p, q)
    PROVE  /\ q * betakl(h, H).num = p * betakl(h, H).den
           /\ f5_ekl(h, H, p, q) = 0
<1> DEFINE a == h[0] - H[0]
           c == h[1] - H[1]
           d == H[2] - H[1]
           u == H[1]
<1>1. /\ a \in Int /\ c \in Int /\ d \in Int /\ u \in Int
      /\ h[0] \in Int /\ h[1] \in Int /\ h[2] \in Int
      /\ H[0] \in Int /\ H[1] \in Int /\ H[2] \in Int /\ H[3] \in Int
  BY DEF Counts
<1>2. q * a = p * u
  <2>1. q * h[0] = q * H[0] + p * H[1]
    BY DEF ShrunkAt
  <2>2. q * a = q * h[0] - q * H[0]
    BY <1>1, Laws
  <2>3. q * h[0] \in Int /\ q * H[0] \in Int /\ p * H[1] \in Int
    BY <1>1
  <2> QED
    BY <2>1, <2>2, <2>3
<1>3. q * c = p * d
  <2>1. q * h[1] = (q - p) * H[1] + p * H[2]
    BY DEF ShrunkAt
  <2>2. q * c = q * h[1] - q * H[1] /\ p * d = p * H[2] - p * H[1]
    BY <1>1, Laws
  <2>3. (q - p) * H[1] = q * H[1] - p * H[1]
    BY <1>1, Laws
  <2>4. q * h[1] \in Int /\ q * H[1] \in Int /\ p * H[1] \in Int /\ p * H[2] \in Int
    BY <1>1
  <2> QED
    BY <2>1, <2>2, <2>3, <2>4
<1>4. q * (u * a + c * d) = p * (u * u + d * d)
  <2> HIDE DEF a, c, d, u
  <2>1. q * (u * a + c * d) = q * (u * a) + q * (c * d)
    BY <1>1, Laws
  <2>2. q * (u * a) = u * (q * a) /\ q * (c * d) = (q * c) * d
    BY <1>1, Laws
  <2>3. u * (p * u) = p * (u * u) /\ (p * d) * d = p * (d * d)
    BY <1>1, Laws
  <2>4. p * (u * u + d * d) = p * (u * u) + p * (d * d)
    BY <1>1, Laws
  <2> QED
    BY <2>1, <2>2, <2>3, <2>4, <1>2, <1>3
<1>5. betakl(h, H) = [num |-> u * a + c * d, den |-> u * u + d * d]
  BY BetaklExact
<1>6. Misfit(h, H, p, q) = 0
  <2>1. q * ZerosGained(h, H) - p * H[1] = 0
    BY <1>1, <1>2 DEF ZerosGained
  <2>2. q * OnesGained(h, H) - p * OnesFed(H) = 0
    BY <1>1, <1>3 DEF OnesGained, OnesFed
  <2> QED
    BY <2>1, <2>2 DEF Misfit, Square
<1>7. q * h[2] - (q - p) * H[2] - p * H[3] = 0
  <2>1. q * h[2] = (q - p) * H[2] + p * H[3]
    BY DEF ShrunkAt
  <2>2. q * h[2] \in Int /\ (q - p) * H[2] \in Int /\ p * H[3] \in Int
    BY <1>1
  <2> QED
    BY <2>1, <2>2
<1>8. f5_ekl(h, H, p, q) = 0
  BY <1>6, <1>7 DEF f5_ekl, Square
<1> QED
  BY <1>4, <1>5, <1>8

(***************************************************************************)
(* The closed form of betakl() is the least squares solution: with         *)
(* w = d a - u c its misfit is den w^2, and q^2 w^2 is at most den times   *)
(* the misfit of p/q, because (d Z - u Y)^2 + (u Z + d Y)^2 is             *)
(* (d^2 + u^2)(Z^2 + Y^2).                                                 *)
(***************************************************************************)
LEMMA Squares ==
    ASSUME NEW x \in Int, NEW y \in Int
    PROVE  /\ Square(x) \in Int /\ Square(x) >= 0
           /\ Square(x * y) = Square(x) * Square(y)
           /\ Square(x + y) = Square(x) + 2 * (x * y) + Square(y)
           /\ Square(x - y) = Square(x) - 2 * (x * y) + Square(y)
  BY DEF Square

LEMMA Brahmagupta ==
    ASSUME NEW d \in Int, NEW u \in Int, NEW Z \in Int, NEW Y \in Int
    PROVE  Square(d * Z - u * Y) <= (Square(u) + Square(d)) * (Square(Z) + Square(Y))
<1>1. Square(d * Z - u * Y) + Square(u * Z + d * Y)
        = (Square(u) + Square(d)) * (Square(Z) + Square(Y))
  BY DEF Square
<1>2. Square(u * Z + d * Y) >= 0 /\ Square(d * Z - u * Y) \in Int
  <2>1. u * Z + d * Y \in Int /\ d * Z - u * Y \in Int
    OBVIOUS
  <2>2. QED
    BY <2>1, Squares
<1> QED
  BY <1>1, <1>2 DEF Square

LEMMA Monotone ==
    ASSUME NEW a \in Int, NEW b \in Int, NEW c \in Int, a <= b, c >= 0
    PROVE  c * a <= c * b
  OBVIOUS

LEMMA LeastSquares ==
    ASSUME NEW a \in Int, NEW c \in Int, NEW d \in Int, NEW u \in Int,
           NEW p \in Int, NEW q \in Int,
           NEW num \in Int, num = u * a + c * d,
           NEW den \in Int, den = u * u + d * d
    PROVE  (Square(den * a - num * u) + Square(den * c - num * d)) * Square(q)
             <= (Square(q * a - p * u) + Square(q * c - p * d)) * Square(den)
<1> DEFINE w == d * a - u * c
           Z == q * a - p * u
           Y == q * c - p * d
           M == Square(Z) + Square(Y)
<1>1. w \in Int /\ Z \in Int /\ Y \in Int
  OBVIOUS
<1>2. den * a - num * u = d * w /\ den * c - num * d = -(u * w)
  OBVIOUS
<1>3. Square(den * a - num * u) + Square(den * c - num * d) = den * Square(w)
  <2>1. Square(d * w) + Square(-(u * w)) = (u * u + d * d) * Square(w)
    <3> HIDE DEF w
    <3> QED
      BY <1>1 DEF Square
  <2> QED
    BY <1>2, <2>1
<1>4. d * Z - u * Y = q * w
  OBVIOUS
<1>5. Square(q) * Square(w) <= den * M
  <2>1. Square(d * Z - u * Y) <= (Square(u) + Square(d)) * M
    BY <1>1, Brahmagupta
  <2>2. Square(q * w) = Square(q) * Square(w)
    BY <1>1, Squares
  <2> QED
    BY <1>4, <2>1, <2>2 DEF Square
<1>6. den >= 0
  OBVIOUS
<1>7. M \in Int /\ Square(w) \in Int /\ Square(q) \in Int
  <2>1. Square(Z) \in Int /\ Square(Y) \in Int /\ Square(w) \in Int /\ Square(q) \in Int
    <3> HIDE DEF w, Z, Y
    <3> QED
      BY <1>1, Squares
  <2> QED
    BY <2>1
<1> HIDE DEF w, Z, Y, M
<1>8. den * (Square(q) * Square(w)) <= den * (den * M)
  <2>1. Square(q) * Square(w) \in Int /\ den * M \in Int
    BY <1>7
  <2> QED
    BY <1>5, <1>6, <2>1, Monotone
<1>9. /\ (den * Square(w)) * Square(q) = den * (Square(q) * Square(w))
      /\ M * Square(den) = den * (den * M)
  BY <1>7 DEF Square
<1>10. (den * Square(w)) * Square(q) <= M * Square(den)
  BY <1>8, <1>9
<1> QED
  BY <1>3, <1>10 DEF M, Z, Y

LEMMA NoBetterRate ==
    ASSUME NEW h \in Counts, NEW H \in Counts, NEW p \in Int, NEW q \in Int,
           Fits(h, H)
    PROVE  NoBetter(h, H, p, q)
<1> DEFINE a == h[0] - H[0]
           c == h[1] - H[1]
           d == H[2] - H[1]
           u == H[1]
           num == u * a + c * d
           den == u * u + d * d
<1>1. a \in Int /\ c \in Int /\ d \in Int /\ u \in Int
  BY DEF Counts
<1>2. num \in Int /\ den \in Int
  BY <1>1
<1>3. betakl(h, H).num = num /\ betakl(h, H).den = den
  BY BetaklExact
<1>4. (Square(den * a - num * u) + Square(den * c - num * d)) * Square(q)
        <= (Square(q * a - p * u) + Square(q * c - p * d)) * Square(den)
  <2>1. num = u * a + c * d /\ den = u * u + d * d
    OBVIOUS
  <2> HIDE DEF a, c, d, u, num, den
  <2>2. \A A, C, D, U, P, S, N, E \in Int :
            N = U * A + C * D /\ E = U * U + D * D =>
              (Square(E * A - N * U) + Square(E * C - N * D)) * Square(S)
                <= (Square(S * A - P * U) + Square(S * C - P * D)) * Square(E)
    <3> TAKE A \in Int, C \in Int, D \in Int, U \in Int,
             P \in Int, S \in Int, N \in Int, E \in Int
    <3> HAVE N = U * A + C * D /\ E = U * U + D * D
    <3> QED
      BY LeastSquares, Zenon
  <2> QED
    BY <1>1, <1>2, <2>1, <2>2, Zenon
<1>5. \A P, S : Misfit(h, H, P, S) = Square(S * a - P * u) + Square(S * c - P * d)
  BY DEF Misfit, ZerosGained, OnesGained, OnesFed
<1> HIDE DEF a, c, d, u, num, den
<1>6. Misfit(h, H, num, den) * Square(q) <= Misfit(h, H, p, q) * Square(den)
  BY <1>4, <1>5
<1> QED
  BY <1>3, <1>6 DEF NoBetter
-----------------------------------------------------------------------------
(***************************************************************************)
(* What f5_dobeta() counts are histograms: the sizes of the two pictures   *)
(* are numbers, and when it is reached the estimate is not empty.          *)
(***************************************************************************)
SizesOK ==
    /\ je \in Sources
    /\ stage \in {"cropped", "blurred"} =>
           picture.x = (je.width - 1) * DCTSIZE /\ picture.y = (je.height - 1) * DCTSIZE
    /\ stage = "luminance" =>
           picture.x = je.width * DCTSIZE /\ picture.y = je.height * DCTSIZE
    /\ stage \in {"estimated", "done"} => jne.width \in Nat \ {0} /\ jne.height \in Nat \ {0}
    /\ stage = "done" => betas = [m \in Modes |-> betakl(CountsOf(m), ScaledCounts(m))]

LEMMA WholeBlocks ==
    ASSUME NEW n \in Nat \ {0}, NEW k \in Nat \ {0}, (n - 1) * k # 0
    PROVE  ((n - 1) * k) \div k \in Nat \ {0}
<1>1. n - 1 \in Nat
  OBVIOUS
<1>2. ((n - 1) * k) \div k = n - 1
  BY <1>1
<1> QED
  BY <1>2

LEMMA SizesInvariant == F5Spec => []SizesOK
<1>1. F5Init => SizesOK
  BY DEF F5Init, SizesOK
<1>2. SizesOK /\ [F5Next]_f5Vars => SizesOK'
  <2> SUFFICES ASSUME SizesOK, [F5Next]_f5Vars PROVE SizesOK'
    OBVIOUS
  <2> USE PictureAssumption
  <2>1. CASE f5_luminanceimage
    BY <2>1 DEF f5_luminanceimage, SizesOK
  <2>2. CASE f5_crop
    <3>1. \A w, k \in Int : w * k - k = (w - 1) * k
      OBVIOUS
    <3>2. je.width \in Int /\ je.height \in Int /\ DCTSIZE \in Int
      BY DEF SizesOK
    <3> QED
      BY <2>2, <3>1, <3>2 DEF f5_crop, SizesOK, Cropped
  <2>3. CASE f5_blur
    BY <2>3 DEF f5_blur, SizesOK, Blurred
  <2>4. CASE f5_compress
    <3>1. CASE stage' = "estimated"
      <4>1. picture.x # 0 /\ picture.y # 0
        BY <2>4, <3>1 DEF f5_compress
      <4>2. jne'.width = picture.x \div DCTSIZE /\ jne'.height = picture.y \div DCTSIZE
        BY <2>4, <3>1 DEF f5_compress
      <4>3. picture.x = (je.width - 1) * DCTSIZE /\ picture.y = (je.height - 1) * DCTSIZE
        BY <2>4 DEF f5_compress, SizesOK
      <4>4. je.width \in Nat \ {0} /\ je.height \in Nat \ {0}
        BY DEF SizesOK
      <4>5. jne'.width \in Nat \ {0} /\ jne'.height \in Nat \ {0}
        BY <4>1, <4>2, <4>3, <4>4, WholeBlocks
      <4> QED
        BY <2>4, <3>1, <4>5 DEF f5_compress, SizesOK
    <3>2. CASE stage' # "estimated"
      BY <2>4, <3>2 DEF f5_compress, SizesOK
    <3> QED
      BY <3>1, <3>2
  <2>5. CASE f5_dobeta
    BY <2>5 DEF f5_dobeta, SizesOK, CountsOf, ScaledCounts
  <2>6. CASE UNCHANGED f5Vars
    BY <2>6 DEF f5Vars, SizesOK, CountsOf, ScaledCounts
  <2> QED
    BY <2>1, <2>2, <2>3, <2>4, <2>5, <2>6 DEF F5Next
<1> QED
  BY <1>1, <1>2, PTL DEF F5Spec

LEMMA HklCounts ==
    ASSUME NEW blocks, NEW n \in Int, NEW k, NEW l, NEW val
    PROVE  f5_hkl(blocks, n, k, l, val) \in Nat
<1> DEFINE S == {b \in 0..n - 1 : blocks[b][l * DCTSIZE + k] = val}
<1>1. IsFiniteSet(0..n - 1)
  BY FS_Interval
<1>2. S \subseteq 0..n - 1
  OBVIOUS
<1>3. IsFiniteSet(S)
  BY <1>1, <1>2, FS_Subset
<1> QED
  BY <1>3, FS_CardinalityType DEF f5_hkl

LEMMA CountsAreCounts ==
    ASSUME SizesOK, stage = "done", NEW m
    PROVE  CountsOf(m) \in Counts /\ ScaledCounts(m) \in Counts
<1>1. /\ je.width \in Nat \ {0} /\ je.height \in Nat \ {0}
      /\ jne.width \in Nat \ {0} /\ jne.height \in Nat \ {0}
  BY PictureAssumption DEF SizesOK
<1>2. je.width * je.height \in Nat /\ jne.width * jne.height \in Nat \ {0}
  BY <1>1
<1>3. CountsOf(m) \in Counts
  BY <1>2, HklCounts DEF CountsOf, Counts
<1>4. \A a, b \in Nat : \A c \in Nat \ {0} : (a * b) \div c \in Nat
  <2> SUFFICES ASSUME NEW a \in Nat, NEW b \in Nat, NEW c \in Nat \ {0}
               PROVE  (a * b) \div c \in Nat
    OBVIOUS
  <2>1. a * b \in Nat
    OBVIOUS
  <2>2. \A x \in Nat : x \div c \in Nat
    OBVIOUS
  <2> QED
    BY <2>1, <2>2
<1>5. \A val : f5_hkl(jne.blocks, jne.width * jne.height, m[1], m[2], val) \in Nat
  BY <1>2, HklCounts
<1> QED
  BY <1>2, <1>3, <1>4, <1>5 DEF ScaledCounts, Counts

(***************************************************************************)
(* The invariant of the F5 test, for every picture, transform, table, set  *)
(* of frequencies and width of an int.                                     *)
(***************************************************************************)
THEOREM LeastRate == F5Spec => []BetaLeast
<1>1. SizesOK => BetaLeast
  <2> SUFFICES ASSUME SizesOK, stage = "done", NEW m \in Modes, NEW r \in Rates,
                      Fits(CountsOf(m), ScaledCounts(m))
               PROVE  /\ betas[m] = betakl(CountsOf(m), ScaledCounts(m))
                      /\ NoBetter(CountsOf(m), ScaledCounts(m), r[1], r[2])
    BY DEF BetaLeast
  <2>1. betas[m] = betakl(CountsOf(m), ScaledCounts(m))
    BY DEF SizesOK
  <2>2. r[1] \in Int /\ r[2] \in Nat \ {0}
    BY PictureAssumption
  <2> QED
    BY <2>1, <2>2, CountsAreCounts, NoBetterRate
<1> QED
  BY <1>1, SizesInvariant, PTL

-----------------------------------------------------------------------------
(***************************************************************************)
(* The estimate: what the samples of the picture are after each step, each *)
(* found by the row length of that step.                                   *)
(***************************************************************************)

(* A sample of a flat picture is where its row and column say.             *)
LEMMA FlatIndex ==
    ASSUME NEW n \in Nat, NEW m \in Nat, NEW r \in 0..m - 1, NEW c \in 0..n - 1
    PROVE  /\ r * n + c \in 0..n * m - 1
           /\ (r * n + c) \div n = r /\ (r * n + c) % n = c
<1>1. r * n + c < n * m
  <2>1. (r + 1) * n <= m * n
    <3>1. r + 1 <= m /\ n >= 0 /\ r + 1 \in Int
      OBVIOUS
    <3> QED BY <3>1, Monotone
  <2>2. (r + 1) * n = r * n + n /\ m * n = n * m
    OBVIOUS
  <2> QED BY <2>1, <2>2
<1>2. r * n >= 0
  OBVIOUS
<1>3. r * n + c \in 0..n * m - 1
  BY <1>1, <1>2
<1>4. (r * n + c) \div n = r /\ (r * n + c) % n = c
  OBVIOUS
<1> QED BY <1>3, <1>4

(* And every place belongs to a row and a column.                          *)
LEMMA FlatPlace ==
    ASSUME NEW n \in Nat, NEW m \in Nat, NEW i \in 0..n * m - 1
    PROVE  i \div n \in 0..m - 1 /\ i % n \in 0..n - 1
<1>1. n > 0
  <2>1. n = 0 => n * m = 0
    OBVIOUS
  <2> QED BY <2>1
<1>2. i % n \in 0..n - 1 /\ i \div n \in Int /\ i = (i \div n) * n + (i % n)
  BY <1>1
<1> DEFINE q == i \div n
           k == i % n
<1>3. q \in Int /\ k \in 0..n - 1 /\ i = q * n + k
  BY <1>2
<1> HIDE DEF q, k
<1>4. q >= 0
  <2>1. CASE q < 0
    <3>1. q * n <= (-1) * n
      <4>1. q <= -1 /\ n >= 0
        BY <1>3, <2>1
      <4>2. n * q <= n * (-1)
        BY <1>3, <4>1, Monotone
      <4> QED BY <1>3, <4>2
    <3> QED BY <1>3, <3>1
  <2> QED BY <1>3, <2>1
<1>5. q <= m - 1
  <2>1. CASE q > m - 1
    <3>1. n * m <= n * q
      <4>1. m <= q /\ n >= 0
        BY <1>3, <2>1
      <4> QED BY <1>3, <4>1, Monotone
    <3>2. n * q = q * n
      BY <1>3
    <3> QED BY <1>3, <3>1, <3>2
  <2> QED BY <1>3, <2>1
<1> QED BY <1>2, <1>3, <1>4, <1>5 DEF q

Wide == je.width * DCTSIZE
High == je.height * DCTSIZE
CropWide == (je.width - 1) * DCTSIZE
CropHigh == (je.height - 1) * DCTSIZE

AlignedInv ==
    /\ stage = "luminance" =>
        \A r \in 0..High - 1, c \in 0..Wide - 1 : picture.img[r * Wide + c] = Sample(c, r)
    /\ stage = "cropped" =>
        \A r \in 0..CropHigh - 1, c \in 0..CropWide - 1 :
            picture.img[r * CropWide + c] = Sample(c + HalfBlock, r + HalfBlock)
    /\ stage = "blurred" =>
        \A r \in 0..CropHigh - 1, c \in 0..CropWide - 1 :
            picture.img[r * CropWide + c] = Displaced(c, r)
    /\ EstimateAligned

LEMMA SizesPositive ==
    ASSUME SizesOK
    PROVE  /\ je.width \in Nat \ {0} /\ je.height \in Nat \ {0} /\ DCTSIZE \in Nat \ {0}
           /\ Wide \in Nat /\ High \in Nat /\ CropWide \in Nat /\ CropHigh \in Nat
           /\ Wide = CropWide + DCTSIZE /\ High = CropHigh + DCTSIZE
           /\ HalfBlock \in Nat /\ HalfBlock <= DCTSIZE /\ DCTSIZE2 \in Nat
<1> USE PictureAssumption
<1>1. je.width \in Nat \ {0} /\ je.height \in Nat \ {0} /\ DCTSIZE \in Nat \ {0}
  BY DEF SizesOK
<1>2. \A n, d \in Nat \ {0} :
        n * d \in Nat /\ (n - 1) * d \in Nat /\ n * d = (n - 1) * d + d /\ d * d \in Nat
  <2> TAKE n \in Nat \ {0}, d \in Nat \ {0}
  <2>1. n - 1 \in Nat
    OBVIOUS
  <2>2. \A a \in Nat : a * d \in Nat
    OBVIOUS
  <2>3. n * d = (n - 1) * d + d
    OBVIOUS
  <2> QED BY <2>1, <2>2, <2>3
<1>3. HalfBlock \in Nat /\ HalfBlock <= DCTSIZE
  BY <1>1 DEF HalfBlock
<1> QED BY <1>1, <1>2, <1>3 DEF Wide, High, CropWide, CropHigh, DCTSIZE2

(* The luminance of the picture, block by block.                           *)
LEMMA LuminanceShows ==
    ASSUME SizesOK, f5_luminanceimage
    PROVE  \A r \in 0..High - 1, c \in 0..Wide - 1 : picture'.img[r * Wide + c] = Sample(c, r)
<1> TAKE r \in 0..High - 1, c \in 0..Wide - 1
<1> DEFINE n == r * Wide + c
           Samples == [b \in 0..je.width * je.height - 1 |->
                           idct(dequant_block(je.blocks[b], je.table))]
           b == (r \div DCTSIZE) * je.width + c \div DCTSIZE
           p == (r % DCTSIZE) * DCTSIZE + (c % DCTSIZE)
           At(k) == Samples[((k \div Wide) \div DCTSIZE) * je.width + (k % Wide) \div DCTSIZE]
                           [((k \div Wide) % DCTSIZE) * DCTSIZE + ((k % Wide) % DCTSIZE)]
<1>1. n \in 0..Wide * High - 1 /\ n \div Wide = r /\ n % Wide = c
  <2>1. Wide \in Nat /\ High \in Nat
    BY SizesPositive
  <2> QED BY <2>1, FlatIndex
<1>2. Wide * je.height * DCTSIZE = Wide * High
  <2>1. \A x, y, z \in Nat : x * y * z = x * (y * z)
    OBVIOUS
  <2> QED BY <2>1, SizesPositive DEF High
<1>3. picture'.img = [k \in 0..Wide * je.height * DCTSIZE - 1 |-> Clamped(At(k) + 128)]
  BY DEF f5_luminanceimage, Wide
<1> HIDE DEF n, Samples
<1>4. picture'.img[n] = Clamped(At(n) + 128)
  BY <1>1, <1>2, <1>3
<1>5. At(n) = Samples[b][p]
  BY <1>1
<1>6. b \in 0..je.width * je.height - 1
  <2>1. r \in 0..DCTSIZE * je.height - 1 /\ c \in 0..DCTSIZE * je.width - 1
    <3>1. \A x, y \in Nat : x * y = y * x
      OBVIOUS
    <3> QED BY <3>1, SizesPositive DEF High, Wide
  <2>2. r \div DCTSIZE \in 0..je.height - 1 /\ c \div DCTSIZE \in 0..je.width - 1
    BY <2>1, SizesPositive, FlatPlace
  <2> QED BY <2>2, SizesPositive, FlatIndex
<1>7. Samples[b] = idct(dequant_block(je.blocks[b], je.table))
  BY <1>6 DEF Samples
<1>8. picture'.img[n] = Clamped(idct(dequant_block(je.blocks[b], je.table))[p] + 128)
  BY <1>4, <1>5, <1>7
<1> QED BY <1>8 DEF n, Sample

(* Half a block is cut off, with the rows of the smaller picture behind    *)
(* one another.                                                            *)
LEMMA CropShows ==
    ASSUME SizesOK, AlignedInv, f5_crop
    PROVE  \A r \in 0..CropHigh - 1, c \in 0..CropWide - 1 :
               picture'.img[r * CropWide + c] = Sample(c + HalfBlock, r + HalfBlock)
<1> TAKE r \in 0..CropHigh - 1, c \in 0..CropWide - 1
<1> DEFINE n == r * CropWide + c
<1>1. n \in 0..CropWide * CropHigh - 1 /\ n \div CropWide = r /\ n % CropWide = c
  <2>1. CropWide \in Nat /\ CropHigh \in Nat
    BY SizesPositive
  <2> QED BY <2>1, FlatIndex
<1>2. picture.x = Wide /\ picture.y = High
  BY DEF f5_crop, SizesOK, Wide, High
<1>3. picture.x - DCTSIZE = CropWide /\ picture.y - DCTSIZE = CropHigh
  BY <1>2, SizesPositive
<1>4. picture'.img = [k \in 0..CropWide * CropHigh - 1 |->
                      picture.img[(HalfBlock + k \div CropWide) * Wide + HalfBlock + (k % CropWide)]]
  BY <1>2, <1>3 DEF f5_crop, Cropped
<1> HIDE DEF n
<1>5. picture'.img[n] = picture.img[(HalfBlock + r) * Wide + HalfBlock + c]
  BY <1>1, <1>4
<1> DEFINE x == c + HalfBlock
           y == r + HalfBlock
<1>6. x \in 0..Wide - 1 /\ y \in 0..High - 1
  BY SizesPositive
<1>7. (HalfBlock + r) * Wide + HalfBlock + c = y * Wide + x
  <2>1. \A a, e, z, w \in Int : (a + e) * w + a + z = (e + a) * w + (z + a)
    OBVIOUS
  <2>2. HalfBlock \in Int /\ r \in Int /\ c \in Int /\ Wide \in Int
    BY SizesPositive
  <2> QED BY <2>1, <2>2
<1>8. picture.img[y * Wide + x] = Sample(x, y)
  <2> HIDE DEF x, y
  <2> QED BY <1>6 DEF f5_crop, AlignedInv
<1> QED BY <1>5, <1>7, <1>8 DEF n

(* A sample is blurred with those around it, but for the outermost.        *)
LEMMA BlurShows ==
    ASSUME SizesOK, AlignedInv, f5_blur
    PROVE  \A r \in 0..CropHigh - 1, c \in 0..CropWide - 1 :
               picture'.img[r * CropWide + c] = Displaced(c, r)
<1> TAKE r \in 0..CropHigh - 1, c \in 0..CropWide - 1
<1> DEFINE n == r * CropWide + c
           v == picture.img
           S(x, y) == Sample(x + HalfBlock, y + HalfBlock)
           In == c \in 1..CropWide - 2 /\ r \in 1..CropHigh - 2
<1>1. n \in 0..CropWide * CropHigh - 1 /\ n \div CropWide = r /\ n % CropWide = c
  <2>1. CropWide \in Nat /\ CropHigh \in Nat
    BY SizesPositive
  <2> QED BY <2>1, FlatIndex
<1>2. picture.x = CropWide /\ picture.y = CropHigh
  BY DEF f5_blur, SizesOK, CropWide, CropHigh
<1>3. picture'.img = [k \in 0..CropWide * CropHigh - 1 |->
            IF k % CropWide \in 1..CropWide - 2 /\ k \div CropWide \in 1..CropHigh - 2
            THEN (v[k - 1] + v[k + 1] + v[k - CropWide] + v[k + CropWide] + 16 * v[k]) \div 20
            ELSE v[k]]
  BY <1>2 DEF f5_blur, Blurred
<1>4. \A y \in 0..CropHigh - 1, x \in 0..CropWide - 1 : v[y * CropWide + x] = S(x, y)
  BY DEF f5_blur, AlignedInv
<1> HIDE DEF n, v
<1>5. picture'.img[n] = IF In
                      THEN (v[n - 1] + v[n + 1] + v[n - CropWide] + v[n + CropWide] + 16 * v[n]) \div 20
                      ELSE v[n]
  BY <1>1, <1>3
<1>6. v[n] = S(c, r)
  BY <1>4 DEF n
<1>7. CASE In
  <2>1. v[n - 1] = S(c - 1, r) /\ v[n + 1] = S(c + 1, r)
    <3>1. c - 1 \in 0..CropWide - 1 /\ c + 1 \in 0..CropWide - 1
      BY <1>7, SizesPositive
    <3>2. n - 1 = r * CropWide + (c - 1) /\ n + 1 = r * CropWide + (c + 1)
      BY SizesPositive DEF n
    <3> QED BY <1>4, <3>1, <3>2
  <2>2. v[n - CropWide] = S(c, r - 1) /\ v[n + CropWide] = S(c, r + 1)
    <3>1. r - 1 \in 0..CropHigh - 1 /\ r + 1 \in 0..CropHigh - 1
      BY <1>7, SizesPositive
    <3>2. \A a, e, w \in Int : (a - 1) * w + e = a * w + e - w /\ (a + 1) * w + e = a * w + e + w
      OBVIOUS
    <3>3. n - CropWide = (r - 1) * CropWide + c /\ n + CropWide = (r + 1) * CropWide + c
      BY <3>2, SizesPositive DEF n
    <3>4. c \in 0..CropWide - 1
      OBVIOUS
    <3>5. v[(r - 1) * CropWide + c] = S(c, r - 1) /\ v[(r + 1) * CropWide + c] = S(c, r + 1)
      BY <1>4, <3>1, <3>4
    <3> QED BY <3>3, <3>5
  <2>3. ~(c \in {0, CropWide - 1} \/ r \in {0, CropHigh - 1})
    BY <1>7, SizesPositive
  <2>4. /\ c - 1 + HalfBlock = (c + HalfBlock) - 1 /\ c + 1 + HalfBlock = (c + HalfBlock) + 1
        /\ r - 1 + HalfBlock = (r + HalfBlock) - 1 /\ r + 1 + HalfBlock = (r + HalfBlock) + 1
    BY SizesPositive
  <2>5. picture'.img[n] = (S(c - 1, r) + S(c + 1, r) + S(c, r - 1) + S(c, r + 1) + 16 * S(c, r)) \div 20
    BY <1>5, <1>6, <1>7, <2>1, <2>2
  <2>6. /\ S(c - 1, r) = Sample((c + HalfBlock) - 1, r + HalfBlock)
        /\ S(c + 1, r) = Sample((c + HalfBlock) + 1, r + HalfBlock)
        /\ S(c, r - 1) = Sample(c + HalfBlock, (r + HalfBlock) - 1)
        /\ S(c, r + 1) = Sample(c + HalfBlock, (r + HalfBlock) + 1)
    BY <2>4
  <2> HIDE DEF S
  <2>7. S(c, r) = Sample(c + HalfBlock, r + HalfBlock)
    BY DEF S
  <2>8. Displaced(c, r) =
          (Sample((c + HalfBlock) - 1, r + HalfBlock) + Sample((c + HalfBlock) + 1, r + HalfBlock)
           + Sample(c + HalfBlock, (r + HalfBlock) - 1) + Sample(c + HalfBlock, (r + HalfBlock) + 1)
           + 16 * Sample(c + HalfBlock, r + HalfBlock)) \div 20
    <3>1. ~(c \in {0, (je.width - 1) * DCTSIZE - 1} \/ r \in {0, (je.height - 1) * DCTSIZE - 1})
      BY <2>3 DEF CropWide, CropHigh
    <3> QED BY <3>1 DEF Displaced
  <2>9. picture'.img[n] = Displaced(c, r)
    BY <2>5, <2>6, <2>7, <2>8
  <2> QED BY <2>9 DEF n
<1>8. CASE ~In
  <2>1. c \in {0, CropWide - 1} \/ r \in {0, CropHigh - 1}
    BY <1>8, SizesPositive
  <2> QED BY <1>5, <1>6, <1>8, <2>1 DEF n, Displaced, CropWide, CropHigh
<1> QED BY <1>7, <1>8

(* The blocks that are compressed are whole blocks of it.                  *)
LEMMA CompressShows ==
    ASSUME SizesOK, AlignedInv, f5_compress
    PROVE  EstimateAligned'
<1>1. SUFFICES ASSUME stage' = "estimated", NEW bx \in 0..je.width - 2, NEW by \in 0..je.height - 2
      PROVE jne'.blocks[by * (je.width - 1) + bx]
              = ForwardDct([p \in 0..DCTSIZE2 - 1 |->
                    Displaced(bx * DCTSIZE + (p % DCTSIZE), by * DCTSIZE + p \div DCTSIZE)],
                    je.table)
  <2>1. je' = je
    BY DEF f5_compress
  <2>2. \A c, r : Displaced(c, r)' = Displaced(c, r)
    BY <2>1 DEF Displaced, Sample
  <2> QED BY <2>1, <2>2 DEF EstimateAligned
<1> DEFINE w == je.width - 1
           h == je.height - 1
           b == by * w + bx
           Samples(k) == [i \in 0..DCTSIZE2 - 1 |->
              picture.img[((k \div w) * DCTSIZE + i \div DCTSIZE) * picture.x
                        + (k % w) * DCTSIZE + (i % DCTSIZE)]]
           Place(p) == picture.img[(by * DCTSIZE + p \div DCTSIZE) * CropWide
                                 + bx * DCTSIZE + (p % DCTSIZE)]
<1>2. w \in Nat /\ h \in Nat /\ bx \in 0..w - 1 /\ by \in 0..h - 1
  BY SizesPositive
<1>3. picture.x = CropWide /\ picture.y = CropHigh
  BY DEF f5_compress, SizesOK, CropWide, CropHigh
<1>4. picture.x \div DCTSIZE = w /\ picture.y \div DCTSIZE = h
  <2>1. \A n \in Nat, d \in Nat \ {0} : (n * d) \div d = n
    OBVIOUS
  <2> QED BY <1>2, <1>3, <2>1, SizesPositive DEF CropWide, CropHigh
<1>5. jne'.blocks = [k \in 0..w * h - 1 |-> ForwardDct(Samples(k), je.table)]
  <2>1. ~(je.comp = 1) /\ ~(picture.x = 0 \/ picture.y = 0)
    BY <1>1 DEF f5_compress
  <2>2. jne'.blocks = [k \in 0..(picture.x \div DCTSIZE) * (picture.y \div DCTSIZE) - 1 |->
            ForwardDct([i \in 0..DCTSIZE2 - 1 |->
              picture.img[((k \div (picture.x \div DCTSIZE)) * DCTSIZE + i \div DCTSIZE) * picture.x
                        + (k % (picture.x \div DCTSIZE)) * DCTSIZE + (i % DCTSIZE)]], je.table)]
    BY <2>1 DEF f5_compress
  <2> HIDE DEF w, h
  <2> QED BY <1>4, <2>2
<1>6. b \in 0..w * h - 1 /\ b \div w = by /\ b % w = bx
  <2> HIDE DEF w, h
  <2> QED BY <1>2, FlatIndex
<1>7. jne'.blocks[b] = ForwardDct(Samples(b), je.table)
  <2> HIDE DEF b, w, h
  <2> QED BY <1>5, <1>6
<1>8. Samples(b) = [p \in 0..DCTSIZE2 - 1 |-> Place(p)]
  <2> HIDE DEF b, w, h
  <2> QED BY <1>3, <1>6
<1>9. ASSUME NEW p \in 0..DCTSIZE2 - 1
      PROVE Place(p) = Displaced(bx * DCTSIZE + (p % DCTSIZE), by * DCTSIZE + p \div DCTSIZE)
  <2> DEFINE c == bx * DCTSIZE + (p % DCTSIZE)
             r == by * DCTSIZE + p \div DCTSIZE
  <2>1. p \div DCTSIZE \in 0..DCTSIZE - 1 /\ p % DCTSIZE \in 0..DCTSIZE - 1
    BY SizesPositive, FlatPlace DEF DCTSIZE2
  <2>2. c \in 0..DCTSIZE * w - 1 /\ r \in 0..DCTSIZE * h - 1
    BY <1>2, <2>1, SizesPositive, FlatIndex
  <2>3. c \in 0..CropWide - 1 /\ r \in 0..CropHigh - 1
    <3>1. DCTSIZE * w = CropWide /\ DCTSIZE * h = CropHigh
      <4>1. \A x, y \in Nat : x * y = y * x
        OBVIOUS
      <4> QED BY <1>2, <4>1, SizesPositive DEF CropWide, CropHigh
    <3> QED BY <2>2, <3>1
  <2>4. picture.img[r * CropWide + c] = Displaced(c, r)
    <3> HIDE DEF c, r
    <3> QED BY <2>3 DEF f5_compress, AlignedInv
  <2>5. r * CropWide + c = r * CropWide + bx * DCTSIZE + (p % DCTSIZE)
    <3> DEFINE a == r * CropWide
               e == bx * DCTSIZE
               f == p % DCTSIZE
    <3>1. a \in Int /\ e \in Int /\ f \in Int
      BY <2>1, <2>3, SizesPositive
    <3> HIDE DEF a, e, f
    <3>2. a + (e + f) = a + e + f
      BY <3>1
    <3> QED BY <3>2 DEF a, e, f
  <2> QED BY <2>4, <2>5
<1>10. Samples(b) = [p \in 0..DCTSIZE2 - 1 |->
                       Displaced(bx * DCTSIZE + (p % DCTSIZE), by * DCTSIZE + p \div DCTSIZE)]
  BY <1>8, <1>9
<1> QED BY <1>7, <1>10

(***************************************************************************)
(* The estimate that the histograms are compared with is the picture,      *)
(* displaced by half a block and blurred, for pictures and blocks of every *)
(* size (f5_luminanceimage(), f5_crop(), f5_blur(), f5_compress()).        *)
(***************************************************************************)
THEOREM EstimateCorrect == F5Spec => []EstimateAligned
<1>1. F5Init => AlignedInv
  BY DEF F5Init, AlignedInv, EstimateAligned
<1>2. SizesOK /\ AlignedInv /\ [F5Next]_f5Vars => AlignedInv'
  <2> SUFFICES ASSUME SizesOK, AlignedInv, [F5Next]_f5Vars PROVE AlignedInv'
    OBVIOUS
  <2>1. CASE f5_luminanceimage
    <3>1. stage' = "luminance" /\ je' = je
      BY <2>1 DEF f5_luminanceimage
    <3> QED BY <2>1, <3>1, LuminanceShows DEF AlignedInv, EstimateAligned, Wide, High, Sample
  <2>2. CASE f5_crop
    <3>1. stage' = "cropped" /\ je' = je
      BY <2>2 DEF f5_crop
    <3> QED BY <2>2, <3>1, CropShows DEF AlignedInv, EstimateAligned, CropWide, CropHigh, Sample
  <2>3. CASE f5_blur
    <3>1. stage' = "blurred" /\ je' = je
      BY <2>3 DEF f5_blur
    <3>2. CropWide' = CropWide /\ CropHigh' = CropHigh /\ \A c, r : Displaced(c, r)' = Displaced(c, r)
      BY <3>1 DEF CropWide, CropHigh, Sample, Displaced
    <3> QED BY <2>3, <3>1, <3>2, BlurShows DEF AlignedInv, EstimateAligned
  <2>4. CASE f5_compress
    <3>1. stage' \notin {"luminance", "cropped", "blurred"}
      BY <2>4 DEF f5_compress
    <3> QED BY <2>4, <3>1, CompressShows DEF AlignedInv
  <2>5. CASE f5_dobeta
    BY <2>5 DEF f5_dobeta, AlignedInv, EstimateAligned
  <2>6. CASE UNCHANGED f5Vars
    <3>1. je' = je /\ stage' = stage /\ picture' = picture /\ jne' = jne
      BY <2>6 DEF f5Vars
    <3>2. /\ Wide' = Wide /\ High' = High /\ CropWide' = CropWide /\ CropHigh' = CropHigh
          /\ EstimateAligned' = EstimateAligned
          /\ \A c, r : Sample(c, r)' = Sample(c, r) /\ Displaced(c, r)' = Displaced(c, r)
      BY <3>1 DEF EstimateAligned, Wide, High, CropWide, CropHigh, Sample, Displaced
    <3> QED BY <3>1, <3>2 DEF AlignedInv
  <2> QED BY <2>1, <2>2, <2>3, <2>4, <2>5, <2>6 DEF F5Next
<1>3. AlignedInv => EstimateAligned
  BY DEF AlignedInv
<1> QED
  BY <1>1, <1>2, <1>3, SizesInvariant, PTL DEF F5Spec

-----------------------------------------------------------------------------
(***************************************************************************)
(* Features: neither check of distribution() that ends the program fires,  *)
(* and a spline is evaluated between the two neighbours of a bucket.       *)
(***************************************************************************)

(* What the loops know of the data: while they are scanned, of those seen. *)
Bounded == \A j \in DOMAIN ndata : least <= ndata[j] /\ ndata[j] <= greatest

DataOK ==
    /\ ndata \in CoefLists
    /\ cur \in Nat /\ least \in Int /\ greatest \in Int /\ nsimple \in Int

ScanOK ==
    walk = "scan" => /\ points = <<>>
                     /\ cur >= 1
                     /\ \A j \in DOMAIN ndata :
                            j < cur => least <= ndata[j] /\ ndata[j] <= greatest

WidenOK == walk = "widen" => points = <<>> /\ Bounded

CountOK ==
    walk = "count" =>
        /\ points = <<>>
        /\ cur >= 1
        /\ \A j \in DOMAIN ndata : least <= ndata[j] /\ ndata[j] < -least

TableOK == walk \in {"count", "errors"} => nsimple = 2 * (-least)

ErrorsOK ==
    /\ walk \in {"scan", "widen", "count", "errors"}
    /\ walk = "errors" => cur >= 2

PointsOK ==
    points # <<>> =>
        /\ points.lo \in DOMAIN points.x /\ points.hi \in DOMAIN points.x
        /\ points.x[points.lo] = points.at - 1
        /\ points.x[points.hi] = points.at + 1

ExtractionIInv == DataOK /\ ScanOK /\ WidenOK /\ CountOK /\ TableOK /\ ErrorsOK /\ PointsOK
-----------------------------------------------------------------------------
LEMMA SampleType ==
    ASSUME DataOK
    PROVE  /\ DOMAIN ndata = 1..Len(ndata) /\ Len(ndata) \in Nat
           /\ \A j \in DOMAIN ndata : ndata[j] \in Int
  BY ExtractionAssumption DEF DataOK

(* A table is a multiple of an even number: it has a middle.               *)
LEMMA RoundedEven ==
    ASSUME NEW x \in Int
    PROVE  /\ RoundedUp(x) \in Int
           /\ RoundedUp(x) = 2 * (RoundedUp(x) \div 2)
<1> DEFINE q == (x + Unit - 1) \div Unit
           h == Unit \div 2
<1>1. Unit \in Nat \ {0} /\ Unit % 2 = 0
  BY ExtractionAssumption
<1>2. q \in Int /\ h \in Int /\ Unit = 2 * h
  BY <1>1
<1> HIDE DEF q, h
<1>3. q * Unit = 2 * (q * h) /\ q * h \in Int
  BY <1>2
<1>4. RoundedUp(x) = q * Unit
  BY DEF RoundedUp, q
<1> QED
  BY <1>3, <1>4

(* The window of a bucket that is two or more from either end reaches one  *)
(* on each side of it.                                                     *)
LEMMA WindowStraddles ==
    ASSUME nsimple \in Int, NEW ind \in Int, 2 <= ind, ind < nsimple - 2
    PROVE  LET w == Window(ind)
           IN /\ w.lo \in 0..w.n - 1 /\ w.hi \in 0..w.n - 1
              /\ X(w, w.lo, ind) = ind - 1
              /\ X(w, w.hi, ind) = ind + 1
<1> DEFINE half == SPLINEN \div 2
<1>1. half \in Nat /\ half >= 1 /\ SPLINEN = 2 * half
  BY ExtractionAssumption
<1> QED
  BY <1>1 DEF Window, X
-----------------------------------------------------------------------------
LEMMA ExtractionInvInit == ExtractionInit => ExtractionIInv
  BY ExtractionAssumption
  DEF ExtractionInit, ExtractionIInv, DataOK, ScanOK, WidenOK, CountOK, TableOK, ErrorsOK, PointsOK

LEMMA ExtractionInvNext == ExtractionIInv /\ [ExtractionNext]_extractionVars => ExtractionIInv'
<1> SUFFICES ASSUME ExtractionIInv, [ExtractionNext]_extractionVars PROVE ExtractionIInv'
  OBVIOUS
<1> USE DEF ExtractionIInv
<1>0. /\ DOMAIN ndata = 1..Len(ndata) /\ Len(ndata) \in Nat
      /\ \A j \in DOMAIN ndata : ndata[j] \in Int
  BY SampleType
<1>1. CASE ScanOne
  <2>1. cur \in DOMAIN ndata
    BY <1>0, <1>1 DEF ScanOne, DataOK, ScanOK
  <2>2. DataOK'
    BY <1>0, <1>1, <2>1 DEF ScanOne, DataOK
  <2>3. ScanOK'
    BY <1>0, <1>1, <2>1 DEF ScanOne, DataOK, ScanOK
  <2> QED
    BY <1>1, <2>2, <2>3 DEF ScanOne, WidenOK, CountOK, TableOK, ErrorsOK, PointsOK
<1>2. CASE Scanned
  <2>1. WidenOK'
    BY <1>0, <1>2 DEF Scanned, DataOK, ScanOK, WidenOK, Bounded
  <2> QED
    BY <1>2, <2>1 DEF Scanned, DataOK, ScanOK, CountOK, TableOK, ErrorsOK, PointsOK
<1>3. CASE Widen
  <2> DEFINE wide == RoundedUp(nsimple + 1)
  <2>1. wide \in Int /\ wide = 2 * (wide \div 2) /\ wide \div 2 \in Int
    BY RoundedEven DEF DataOK
  <2>2. walk = "widen" /\ nsimple' = wide /\ UNCHANGED <<ndata, greatest, points>>
    BY <1>3 DEF Widen
  <2> HIDE DEF wide
  <2>3. CASE TooNarrow(wide)
    <3>1. UNCHANGED <<walk, cur, least, simple>>
      BY <1>3, <2>3 DEF Widen, wide
    <3> QED
      BY <2>1, <2>2, <3>1
      DEF DataOK, ScanOK, WidenOK, Bounded, CountOK, TableOK, ErrorsOK, PointsOK
  <2>4. CASE ~TooNarrow(wide)
    <3>1. walk' = "count" /\ least' = -(wide \div 2) /\ cur' = 1
      BY <1>3, <2>4 DEF Widen, wide
    <3>2. -(wide \div 2) <= least /\ greatest < wide \div 2
      BY <2>1, <2>4 DEF TooNarrow, DataOK
    <3>3. CountOK'
      BY <1>0, <2>1, <2>2, <3>1, <3>2 DEF CountOK, WidenOK, Bounded, DataOK
    <3> QED
      BY <2>1, <2>2, <3>1, <3>3
      DEF DataOK, ScanOK, WidenOK, TableOK, ErrorsOK, PointsOK
  <2> QED
    BY <2>3, <2>4
<1>4. CASE CountOne
  <2>1. ndata[cur] - least \in 0..nsimple - 1
    <3>1. walk = "count" /\ cur <= Len(ndata)
      BY <1>4 DEF CountOne
    <3>2. cur \in DOMAIN ndata
      BY <1>0, <3>1 DEF CountOK, DataOK
    <3>3. ndata[cur] \in Int /\ least <= ndata[cur] /\ ndata[cur] < -least
      BY <1>0, <3>1, <3>2 DEF CountOK
    <3>4. nsimple = 2 * (-least) /\ least \in Int
      BY <3>1 DEF TableOK, DataOK
    <3> QED
      BY <3>3, <3>4
  <2> QED
    BY <1>4, <2>1
    DEF CountOne, DataOK, ScanOK, WidenOK, CountOK, TableOK, ErrorsOK, PointsOK
<1>5. CASE Counted
  BY <1>5 DEF Counted, DataOK, ScanOK, WidenOK, CountOK, TableOK, ErrorsOK, PointsOK
<1>6. CASE Errors
  <2> DEFINE w == Window(cur)
  <2>1. /\ w.lo \in 0..w.n - 1 /\ w.hi \in 0..w.n - 1
        /\ X(w, w.lo, cur) = cur - 1
        /\ X(w, w.hi, cur) = cur + 1
    <3>1. nsimple \in Int /\ cur \in Int /\ 2 <= cur /\ cur < nsimple - 2
      <4>1. walk = "errors" /\ cur < nsimple - 2
        BY <1>6 DEF Errors
      <4> QED
        BY <4>1 DEF ErrorsOK, DataOK
    <3> QED
      BY <3>1, WindowStraddles
  <2>2. w.n \in Int
    BY ExtractionAssumption DEF Window, DataOK
  <2> HIDE DEF w
  <2>3. ~(w.hi >= w.n)
    BY <2>1, <2>2
  <2>4. walk' = walk /\ cur' = cur + 1 /\ UNCHANGED <<ndata, least, greatest, nsimple, simple>>
    BY <1>6, <2>3 DEF Errors, w
  <2>5. \/ points' = points
        \/ points' = [x |-> [j \in 0..w.n - 1 |-> X(w, j, cur)],
                      lo |-> w.lo, hi |-> w.hi, at |-> cur]
    BY <1>6, <2>3 DEF Errors, w
  <2>6. PointsOK'
    <3>1. CASE points' = points
      BY <3>1 DEF PointsOK
    <3>2. CASE points' = [x |-> [j \in 0..w.n - 1 |-> X(w, j, cur)],
                          lo |-> w.lo, hi |-> w.hi, at |-> cur]
      <4>1. points'.x = [j \in 0..w.n - 1 |-> X(w, j, cur)]
            /\ points'.lo = w.lo /\ points'.hi = w.hi /\ points'.at = cur
        BY <3>2
      <4> QED
        BY <2>1, <4>1 DEF PointsOK
    <3> QED
      BY <2>5, <3>1, <3>2
  <2> QED
    BY <1>6, <2>4, <2>6
    DEF Errors, DataOK, ScanOK, WidenOK, CountOK, TableOK, ErrorsOK
<1>7. CASE UNCHANGED extractionVars
  BY <1>7 DEF extractionVars, DataOK, ScanOK, WidenOK, Bounded, CountOK, TableOK, ErrorsOK, PointsOK
<1> QED
  BY <1>1, <1>2, <1>3, <1>4, <1>5, <1>6, <1>7 DEF ExtractionNext

(***************************************************************************)
(* The invariant, from the parts that are inductive together: what has     *)
(* been scanned lies between the extremes, what is counted in the table,   *)
(* and buckets are taken in order from the third.                          *)
(***************************************************************************)
THEOREM Straddled == ExtractionSpec => []NeighboursOnly
<1>1. ExtractionIInv => NeighboursOnly
  BY DEF ExtractionIInv, TableOK, ErrorsOK, PointsOK, NeighboursOnly
<1> QED
  BY <1>1, ExtractionInvInit, ExtractionInvNext, PTL DEF ExtractionSpec

-----------------------------------------------------------------------------
(***************************************************************************)
(* Training: the images that a decision is tested with were held out, and  *)
(* a higher argument of -s finds no less.  Numbers are rational, so this   *)
(* begins with Euclid's algorithm.                                         *)
(***************************************************************************)

-----------------------------------------------------------------------------
(* Divisors.                                                               *)

LEMMA MultipleDiv ==
    ASSUME NEW g \in Nat \ {0}, NEW k \in Int
    PROVE  (g * k) % g = 0 /\ (g * k) \div g = k
<1>1. g * k \in Int
  OBVIOUS
<1>2. PICK x \in Int : x = g * k
  BY <1>1
<1> DEFINE q == x \div g
           r == x % g
<1>3. q \in Int /\ r \in 0..(g - 1) /\ x = g * q + r
  OBVIOUS
<1> HIDE DEF q, r
<1>4. g * (k - q) = r
  BY <1>2, <1>3
<1>5. k = q
  <2>1. CASE k - q >= 1
    <3>1. g * (k - q) >= g
      BY <1>3, <2>1
    <3> QED BY <1>3, <1>4, <3>1
  <2>2. CASE k - q <= -1
    <3>1. g * (k - q) <= -g
      BY <1>3, <2>2
    <3> QED BY <1>3, <1>4, <3>1
  <2> QED BY <1>3, <2>1, <2>2
<1>6. r = 0
  BY <1>3, <1>4, <1>5
<1> QED BY <1>2, <1>5, <1>6 DEF q, r

LEMMA DivisorOf ==
    ASSUME NEW g \in Nat \ {0}, NEW x \in Int, x % g = 0
    PROVE  \E k \in Int : x = g * k
<1>1. x \div g \in Int /\ x = g * (x \div g)
  OBVIOUS
<1> QED BY <1>1

-----------------------------------------------------------------------------
(* The greatest common divisor is a function, and divides both numbers.    *)

Divides(p, g) == p[1] % g = 0 /\ p[2] % g = 0
Divisors(p) == {g \in Nat \ {0} : Divides(p, g)}
AnyGcd == [p \in Nat \X Nat |-> CHOOSE g \in Nat : Divisors(<<g, 0>>) = Divisors(p)]
Euclid(f) == [p \in Nat \X Nat |-> IF p[2] = 0 THEN p[1] ELSE f[<<p[2], p[1] % p[2]>>]]

\* A divisor of two numbers divides what is left of one divided by the other, and back.
LEMMA RestDivides ==
    ASSUME NEW a \in Nat, NEW b \in Nat \ {0}, NEW g \in Nat \ {0}
    PROVE  Divides(<<a, b>>, g) <=> Divides(<<b, a % b>>, g)
<1> DEFINE q == a \div b
           r == a % b
<1>1. q \in Int /\ r \in Nat /\ a = b * q + r
  OBVIOUS
<1> HIDE DEF q, r
<1>2. ASSUME b % g = 0 PROVE a % g = 0 <=> r % g = 0
  <2>1. PICK u \in Int : b = g * u
    BY <1>2, DivisorOf
  <2>2. ASSUME r % g = 0 PROVE a % g = 0
    <3>1. PICK v \in Int : r = g * v
      BY <1>1, <2>2, DivisorOf
    <3>2. a = g * (u * q + v) /\ u * q + v \in Int
      BY <1>1, <2>1, <3>1
    <3> QED BY <3>2, MultipleDiv
  <2>3. ASSUME a % g = 0 PROVE r % g = 0
    <3>1. PICK v \in Int : a = g * v
      BY <1>1, <2>3, DivisorOf
    <3>2. r = g * (v - u * q) /\ v - u * q \in Int
      BY <1>1, <2>1, <3>1
    <3> QED BY <3>2, MultipleDiv
  <2> QED BY <2>2, <2>3
<1> QED BY <1>2 DEF Divides, r

LEMMA ZeroDivided == ASSUME NEW g \in Nat \ {0} PROVE 0 % g = 0
<1>1. g * 0 = 0
  OBVIOUS
<1> QED BY <1>1, MultipleDiv

LEMMA OwnDivisor == ASSUME NEW g \in Nat \ {0} PROVE g % g = 0
<1>1. g * 1 = g
  OBVIOUS
<1> QED BY <1>1, MultipleDiv

\* A number is known by its divisors.
LEMMA SameDivisors ==
    ASSUME NEW a \in Nat, NEW b \in Nat, Divisors(<<a, 0>>) = Divisors(<<b, 0>>)
    PROVE  a = b
<1>1. \A c \in Nat, d \in Nat : c # 0 /\ Divisors(<<c, 0>>) = Divisors(<<d, 0>>) => d % c = 0
  <2> TAKE c \in Nat, d \in Nat
  <2> HAVE c # 0 /\ Divisors(<<c, 0>>) = Divisors(<<d, 0>>)
  <2>1. c \in Divisors(<<c, 0>>)
    BY OwnDivisor, ZeroDivided DEF Divisors, Divides
  <2> QED BY <2>1 DEF Divisors, Divides
<1>2. \A c \in Nat \ {0} : (c + 1) \in Nat \ {0} /\ c % (c + 1) = c
  OBVIOUS
<1>3. \A c \in Nat : c # 0 => Divisors(<<c, 0>>) # Divisors(<<0, 0>>)
  <2> TAKE c \in Nat
  <2> HAVE c # 0
  <2>1. (c + 1) \in Divisors(<<0, 0>>)
    BY ZeroDivided DEF Divisors, Divides
  <2>2. (c + 1) \notin Divisors(<<c, 0>>)
    BY <1>2 DEF Divisors, Divides
  <2> QED BY <2>1, <2>2
<1>4. CASE a = 0 \/ b = 0
  BY <1>3, <1>4
<1>5. CASE a # 0 /\ b # 0
  <2>1. a % b = 0 /\ b % a = 0
    BY <1>1, <1>5
  <2>2. PICK u \in Int : a = b * u
    BY <1>5, <2>1, DivisorOf
  <2>3. PICK v \in Int : b = a * v
    BY <1>5, <2>1, DivisorOf
  <2>4. u >= 1 /\ v >= 1
    <3>1. u <= 0 => b * u <= 0
      BY <1>5
    <3>2. v <= 0 => a * v <= 0
      BY <1>5
    <3> QED BY <1>5, <2>2, <2>3, <3>1, <3>2
  <2>5. b * u >= b /\ a * v >= a
    BY <2>4
  <2> QED BY <2>2, <2>3, <2>5
<1> QED BY <1>4, <1>5

LEMMA AnyGcdStep == AnyGcd = Euclid(AnyGcd)
<1>1. SUFFICES ASSUME NEW p \in Nat \X Nat PROVE AnyGcd[p] = Euclid(AnyGcd)[p]
  BY DEF AnyGcd, Euclid
<1>2. p[1] \in Nat /\ p[2] \in Nat /\ p = <<p[1], p[2]>>
  OBVIOUS
<1>3. CASE p[2] = 0
  <2>1. p = <<p[1], 0>>
    BY <1>2, <1>3
  <2>2. \A g \in Nat : Divisors(<<g, 0>>) = Divisors(p) => g = p[1]
    BY <1>2, <2>1, SameDivisors
  <2>3. AnyGcd[p] = p[1]
    <3>1. p[1] \in Nat /\ Divisors(<<p[1], 0>>) = Divisors(p)
      BY <1>2, <2>1
    <3> QED BY <2>2, <3>1 DEF AnyGcd
  <2> QED BY <1>3, <2>3 DEF Euclid
<1>4. CASE p[2] # 0
  <2> DEFINE q == <<p[2], p[1] % p[2]>>
  <2>1. q \in Nat \X Nat
    BY <1>2, <1>4
  <2>2. Divisors(p) = Divisors(q)
    <3>1. \A g \in Nat \ {0} : Divides(<<p[1], p[2]>>, g) <=> Divides(q, g)
      BY <1>2, <1>4, RestDivides
    <3> QED BY <1>2, <3>1 DEF Divisors
  <2>3. AnyGcd[p] = AnyGcd[q]
    BY <2>1, <2>2 DEF AnyGcd
  <2> QED BY <1>4, <2>3 DEF Euclid
<1> QED BY <1>3, <1>4

LEMMA GcdStep ==
    ASSUME NEW p \in Nat \X Nat
    PROVE  Gcd[p] = IF p[2] = 0 THEN p[1] ELSE Gcd[<<p[2], p[1] % p[2]>>]
<1>1. Gcd = CHOOSE f : f = Euclid(f)
  BY DEF Gcd, Euclid
<1>2. Gcd = Euclid(Gcd)
  BY <1>1, AnyGcdStep
<1> HIDE DEF Gcd
<1> QED BY <1>2 DEF Euclid

\* The fold of SumOf(), for the induction over a sequence of rationals.
IsSum(given, x, k) == x \in Rational
Sums == INSTANCE FoldFacts WITH Op <- Plus, P <- IsSum

LEMMA GcdDivides ==
    ASSUME NEW a \in Nat, NEW b \in Nat, b # 0
    PROVE  Gcd[<<a, b>>] \in Nat \ {0} /\ Divides(<<a, b>>, Gcd[<<a, b>>])
<1> DEFINE Right(c) == \A d \in Nat : d # 0 \/ c # 0 =>
                          Gcd[<<d, c>>] \in Nat \ {0} /\ Divides(<<d, c>>, Gcd[<<d, c>>])
           Wrong == {c \in Nat : ~Right(c)}
<1>1. SUFFICES ASSUME Wrong # {} PROVE FALSE
  <2>1. Right(b)
    BY <1>1
  <2> QED BY <2>1
<1>2. PICK c \in Wrong : \A e \in Wrong : c <= e
  BY <1>1, Sums!LeastNumber
<1>3. PICK d \in Nat : /\ d # 0 \/ c # 0
                       /\ ~(Gcd[<<d, c>>] \in Nat \ {0} /\ Divides(<<d, c>>, Gcd[<<d, c>>]))
  BY <1>2
<1>4. c \in Nat
  BY <1>2
<1>5. CASE c = 0
  <2>1. Gcd[<<d, c>>] = d
    BY <1>3, <1>5, GcdStep
  <2>2. Divides(<<d, c>>, d)
    BY <1>3, <1>5, OwnDivisor, ZeroDivided DEF Divides
  <2> QED BY <1>3, <1>5, <2>1, <2>2
<1>6. CASE c # 0
  <2>1. PICK r : r = d % c
    OBVIOUS
  <2>2. r \in Nat /\ r < c
    BY <1>3, <1>4, <1>6, <2>1
  <2>3. Gcd[<<d, c>>] = Gcd[<<c, r>>]
    BY <1>3, <1>4, <1>6, <2>1, GcdStep
  <2>4. r \notin Wrong
    BY <1>2, <1>4, <2>2
  <2>5. Gcd[<<c, r>>] \in Nat \ {0} /\ Divides(<<c, r>>, Gcd[<<c, r>>])
    BY <1>4, <1>6, <2>2, <2>4
  <2>6. Divides(<<d, c>>, Gcd[<<c, r>>])
    BY <1>3, <1>4, <1>6, <2>1, <2>5, RestDivides
  <2> QED BY <1>3, <2>3, <2>5, <2>6
<1> QED BY <1>5, <1>6

\* It is a sum of multiples of the two.
LEMMA GcdCombines ==
    ASSUME NEW a \in Nat, NEW b \in Nat
    PROVE  \E u, v \in Int : u * a + v * b = Gcd[<<a, b>>]
<1> DEFINE Right(c) == \A d \in Nat : \E u, v \in Int : u * d + v * c = Gcd[<<d, c>>]
           Wrong == {c \in Nat : ~Right(c)}
<1>1. SUFFICES ASSUME Wrong # {} PROVE FALSE
  <2>1. Right(b)
    BY <1>1
  <2> QED BY <2>1
<1>2. PICK c \in Wrong : \A e \in Wrong : c <= e
  BY <1>1, Sums!LeastNumber
<1>3. PICK d \in Nat : ~\E u, v \in Int : u * d + v * c = Gcd[<<d, c>>]
  BY <1>2
<1>4. c \in Nat
  BY <1>2
<1>5. CASE c = 0
  <2>1. Gcd[<<d, c>>] = d
    BY <1>3, <1>5, GcdStep
  <2>2. 1 * d + 0 * c = d
    BY <1>4
  <2> QED BY <1>3, <2>1, <2>2
<1>6. CASE c # 0
  <2>1. PICK q, r : q = d \div c /\ r = d % c
    OBVIOUS
  <2>2. q \in Int /\ r \in Nat /\ r < c /\ d = c * q + r
    BY <1>4, <1>6, <2>1
  <2>3. Gcd[<<d, c>>] = Gcd[<<c, r>>]
    BY <1>4, <1>6, <2>1, GcdStep
  <2>4. r \notin Wrong
    <3> HIDE DEF Wrong
    <3>1. r \in Wrong => c <= r
      BY <1>2
    <3> QED BY <1>4, <2>2, <3>1
  <2>5. PICK u, v \in Int : u * c + v * r = Gcd[<<c, r>>]
    BY <1>4, <2>2, <2>4
  <2>6. v * d + (u - v * q) * c = u * c + v * r
    <3>1. v * d = v * (c * q) + v * r
      BY <1>4, <2>2
    <3>2. (u - v * q) * c = u * c - v * (c * q)
      BY <1>4, <2>2
    <3>3. v * (c * q) \in Int /\ v * r \in Int /\ u * c \in Int
      BY <1>4, <2>2
    <3> QED BY <3>1, <3>2, <3>3
  <2>7. u - v * q \in Int
    BY <2>2
  <2>8. v * d + (u - v * q) * c = Gcd[<<d, c>>]
    BY <2>3, <2>5, <2>6
  <2> QED BY <1>3, <2>7, <2>8
<1> QED BY <1>5, <1>6

-----------------------------------------------------------------------------
(* Rational numbers.                                                       *)

\* x is the number n / d.
Same(x, n, d) == x \in Rational /\ x[1] * d = n * x[2]

LEMMA QuotientRight ==
    ASSUME NEW n \in Int, NEW d \in Nat \ {0}
    PROVE  Same(Q(n, d), n, d)
<1> DEFINE g == Gcd[<<AbsInt(n), AbsInt(d)>>]
<1>1. AbsInt(n) \in Nat /\ AbsInt(d) = d /\ (n = AbsInt(n) \/ n = -AbsInt(n))
  BY DEF AbsInt
<1>2. g \in Nat \ {0} /\ AbsInt(n) % g = 0 /\ d % g = 0
  BY <1>1, GcdDivides DEF Divides
<1>3. Q(n, d) = <<n \div g, d \div g>>
  <2>1. \A k \in Int : 1 * k = k
    OBVIOUS
  <2>2. Q(n, d) = <<(1 * n) \div g, (1 * d) \div g>>
    BY DEF Q
  <2> HIDE DEF g
  <2> QED BY <2>1, <2>2
<1> HIDE DEF g
<1>4. PICK u \in Int : AbsInt(n) = g * u
  <2>1. PICK m \in Nat : m = AbsInt(n)
    BY <1>1
  <2>2. g \in Nat \ {0} /\ m \in Int /\ m % g = 0
    BY <1>2, <2>1
  <2>3. PICK k \in Int : m = g * k
    BY <2>2, DivisorOf
  <2> QED BY <2>1, <2>3
<1>5. PICK w \in Int : n = g * w
  <2>1. CASE n = AbsInt(n)
    BY <1>4, <2>1
  <2>2. CASE n = -AbsInt(n)
    <3>1. n = g * (-u) /\ -u \in Int
      BY <1>2, <1>4, <2>2
    <3> QED BY <3>1
  <2> QED BY <1>1, <2>1, <2>2
<1>6. PICK v \in Int : d = g * v
  <2>1. g \in Nat \ {0} /\ d \in Int /\ d % g = 0
    BY <1>2
  <2> QED BY <2>1, DivisorOf
<1>7. n \div g = w /\ d \div g = v
  BY <1>2, <1>5, <1>6, MultipleDiv
<1>8. v >= 1
  <2>1. v <= 0 => g * v <= 0
    BY <1>2
  <2> QED BY <1>6, <2>1
<1>9. w * d = n * v
  BY <1>2, <1>5, <1>6
<1>10. Q(n, d) \in Rational
  BY <1>3, <1>7, <1>8 DEF Rational
<1> QED BY <1>3, <1>7, <1>9, <1>10 DEF Same

LEMMA RationalParts ==
    ASSUME NEW x \in Rational
    PROVE  x[1] \in Int /\ x[2] \in Nat \ {0} /\ x = <<x[1], x[2]>>
BY DEF Rational

LEMMA Positive ==
    ASSUME NEW a \in Nat \ {0}, NEW b \in Nat \ {0}
    PROVE  a * b \in Nat \ {0}
<1>1. a * b >= a
  OBVIOUS
<1> QED BY <1>1

\* A factor that is not 0 is taken from both sides.
LEMMA Cancel ==
    ASSUME NEW a \in Int, NEW b \in Int, NEW c \in Nat \ {0}
    PROVE  /\ a * c = b * c => a = b
           /\ a * c <= b * c <=> a <= b
           /\ a * c < b * c <=> a < b
<1>1. a < b => a * c < b * c
  <2> HAVE a < b
  <2>1. (b - a) * c >= c
    <3>1. PICK e : e = b - a
      OBVIOUS
    <3>2. e \in Nat \ {0} /\ e * c \in Nat \ {0} /\ e * c >= c
      BY <3>1, Positive
    <3> QED BY <3>1, <3>2
  <2> QED BY <2>1
<1>2. b < a => b * c < a * c
  <2> HAVE b < a
  <2>1. (a - b) * c >= c
    <3>1. PICK e : e = a - b
      OBVIOUS
    <3>2. e \in Nat \ {0} /\ e * c \in Nat \ {0} /\ e * c >= c
      BY <3>1, Positive
    <3> QED BY <3>1, <3>2
  <2> QED BY <2>1
<1>3. a * c \in Int /\ b * c \in Int
  OBVIOUS
<1> QED BY <1>1, <1>2, <1>3

LEMMA PlusRight ==
    ASSUME NEW x \in Rational, NEW y \in Rational
    PROVE  Same(Plus(x, y), x[1] * y[2] + y[1] * x[2], x[2] * y[2])
<1>1. x[1] \in Int /\ x[2] \in Nat \ {0} /\ y[1] \in Int /\ y[2] \in Nat \ {0}
  BY RationalParts
<1>2. x[1] * y[2] + y[1] * x[2] \in Int /\ x[2] * y[2] \in Nat \ {0}
  BY <1>1, Positive
<1> QED BY <1>2, QuotientRight DEF Plus

LEMMA MinusRight ==
    ASSUME NEW x \in Rational, NEW y \in Rational
    PROVE  Same(Minus(x, y), x[1] * y[2] - y[1] * x[2], x[2] * y[2])
<1>1. x[1] \in Int /\ x[2] \in Nat \ {0} /\ y[1] \in Int /\ y[2] \in Nat \ {0}
  BY RationalParts
<1>2. x[1] * y[2] - y[1] * x[2] \in Int /\ x[2] * y[2] \in Nat \ {0}
  BY <1>1, Positive
<1> QED BY <1>2, QuotientRight DEF Minus

LEMMA TimesRight ==
    ASSUME NEW x \in Rational, NEW y \in Rational
    PROVE  Same(Times(x, y), x[1] * y[1], x[2] * y[2])
<1>1. /\ x[1] \in Int /\ x[2] \in Nat \ {0} /\ y[1] \in Int /\ y[2] \in Nat \ {0}
  BY RationalParts
<1>2. PICK a, b, c, d : a = x[1] /\ b = x[2] /\ c = y[1] /\ d = y[2]
  OBVIOUS
<1> DEFINE g == Q(a, d)
           h == Q(c, b)
<1>3. Same(g, a, d) /\ Same(h, c, b)
  BY <1>1, <1>2, QuotientRight
<1>4. Times(x, y) = Q(g[1] * h[1], g[2] * h[2])
  BY <1>2 DEF Times
<1> HIDE DEF g, h
<1>5. PICK i, j, k, l : i = g[1] /\ j = g[2] /\ k = h[1] /\ l = h[2]
  OBVIOUS
<1>6. i \in Int /\ j \in Nat \ {0} /\ k \in Int /\ l \in Nat \ {0}
  BY <1>3, <1>5, RationalParts DEF Same
<1>7. i * d = a * j /\ k * b = c * l
  BY <1>3, <1>5 DEF Same
<1>8. Same(Times(x, y), i * k, j * l)
  BY <1>4, <1>5, <1>6, Positive, QuotientRight
<1>9. PICK r, s : r = Times(x, y)[1] /\ s = Times(x, y)[2]
  OBVIOUS
<1>10. r \in Int /\ s \in Nat \ {0} /\ r * (j * l) = (i * k) * s
  BY <1>8, <1>9, RationalParts DEF Same
<1>11. r * (b * d) = (a * c) * s
  <2>1. (r * (b * d)) * (j * l) = ((a * c) * s) * (j * l)
    <3>1. (r * (b * d)) * (j * l) = (r * (j * l)) * (b * d)
      BY <1>1, <1>2, <1>6, <1>10
    <3>2. (r * (j * l)) * (b * d) = ((i * k) * s) * (b * d)
      BY <1>10
    <3>3. ((i * k) * s) * (b * d) = (i * d) * (k * b) * s
      BY <1>1, <1>2, <1>6, <1>10
    <3>4. (i * d) * (k * b) * s = (a * j) * (c * l) * s
      BY <1>7
    <3>5. (a * j) * (c * l) * s = ((a * c) * s) * (j * l)
      BY <1>1, <1>2, <1>6, <1>10
    <3> QED BY <3>1, <3>2, <3>3, <3>4, <3>5
  <2>2. j * l \in Nat \ {0} /\ r * (b * d) \in Int /\ (a * c) * s \in Int
    BY <1>1, <1>2, <1>6, <1>10, Positive
  <2> QED BY <2>1, <2>2, Cancel
<1> QED BY <1>2, <1>8, <1>9, <1>11 DEF Same

-----------------------------------------------------------------------------
(* The order of rational numbers.                                          *)

AtMost(x, y) == x[1] * y[2] <= y[1] * x[2]

\* Order can be told from any numerators and denominators.
LEMMA SameOrder ==
    ASSUME NEW x, NEW n \in Int, NEW d \in Nat \ {0}, Same(x, n, d),
           NEW y, NEW m \in Int, NEW e \in Nat \ {0}, Same(y, m, e)
    PROVE  AtMost(x, y) <=> n * e <= m * d
<1>1. PICK a, b, p, q : a = x[1] /\ b = x[2] /\ p = y[1] /\ q = y[2]
  OBVIOUS
<1>2. /\ a \in Int /\ b \in Nat \ {0} /\ p \in Int /\ q \in Nat \ {0}
      /\ a * d = n * b /\ p * e = m * q
  BY <1>1, RationalParts DEF Same
<1>3. (a * q) * (d * e) = (n * e) * (b * q)
  <2>1. (a * q) * (d * e) = (a * d) * (q * e)
    BY <1>2
  <2>2. (a * d) * (q * e) = (n * b) * (q * e)
    BY <1>2
  <2>3. (n * b) * (q * e) = (n * e) * (b * q)
    BY <1>2
  <2> QED BY <2>1, <2>2, <2>3
<1>4. (p * b) * (d * e) = (m * d) * (b * q)
  <2>1. (p * b) * (d * e) = (p * e) * (b * d)
    BY <1>2
  <2>2. (p * e) * (b * d) = (m * q) * (b * d)
    BY <1>2
  <2>3. (m * q) * (b * d) = (m * d) * (b * q)
    BY <1>2
  <2> QED BY <2>1, <2>2, <2>3
<1>5. d * e \in Nat \ {0} /\ b * q \in Nat \ {0}
  BY <1>2, Positive
<1>6. a * q \in Int /\ p * b \in Int /\ n * e \in Int /\ m * d \in Int
  BY <1>2
<1>7. a * q <= p * b <=> (a * q) * (d * e) <= (p * b) * (d * e)
  BY <1>5, <1>6, Cancel
<1>8. n * e <= m * d <=> (n * e) * (b * q) <= (m * d) * (b * q)
  BY <1>5, <1>6, Cancel
<1> QED BY <1>1, <1>3, <1>4, <1>7, <1>8 DEF AtMost

LEMMA OwnParts ==
    ASSUME NEW x \in Rational
    PROVE  Same(x, x[1], x[2])
BY DEF Same

\* The same number in other terms.
LEMMA OtherTerms ==
    ASSUME NEW x, NEW n \in Int, NEW d \in Nat \ {0}, Same(x, n, d),
           NEW m \in Int, NEW e \in Nat \ {0}, n * e = m * d
    PROVE  Same(x, m, e)
<1>1. PICK a, b : a = x[1] /\ b = x[2]
  OBVIOUS
<1>2. a \in Int /\ b \in Nat \ {0} /\ a * d = n * b
  BY <1>1, RationalParts DEF Same
<1>3. (a * e) * d = (m * b) * d
  <2>1. (a * e) * d = (a * d) * e
    BY <1>2
  <2>2. (a * d) * e = (n * b) * e
    BY <1>2
  <2>3. (n * b) * e = (n * e) * b
    BY <1>2
  <2>4. (n * e) * b = (m * d) * b
    OBVIOUS
  <2>5. (m * d) * b = (m * b) * d
    BY <1>2
  <2> QED BY <2>1, <2>2, <2>3, <2>4, <2>5
<1>4. a * e \in Int /\ m * b \in Int
  BY <1>2
<1>5. a * e = m * b
  BY <1>3, <1>4, Cancel
<1> QED BY <1>1, <1>5 DEF Same

\* Less() is that of the numbers.
LEMMA LessRight ==
    ASSUME NEW x \in Rational, NEW y \in Rational
    PROVE  Less(x, y) <=> ~AtMost(y, x)
<1>1. PICK r, s : r = Minus(x, y)[1] /\ s = Minus(x, y)[2]
  OBVIOUS
<1>2. PICK a, b, p, q : a = x[1] /\ b = x[2] /\ p = y[1] /\ q = y[2]
  OBVIOUS
<1>3. a \in Int /\ b \in Nat \ {0} /\ p \in Int /\ q \in Nat \ {0}
  BY <1>2, RationalParts
<1>4. r \in Int /\ s \in Nat \ {0} /\ r * (b * q) = (a * q - p * b) * s
  BY <1>1, <1>2, MinusRight, RationalParts DEF Same
<1>5. PICK c \in Int, k \in Nat \ {0} : c = a * q - p * b /\ k = b * q
  BY <1>3, Positive
<1>6. r < 0 <=> c < 0
  <2>1. r < 0 <=> r * k < 0 * k
    BY <1>4, Cancel
  <2>2. c < 0 <=> c * s < 0 * s
    BY <1>4, Cancel
  <2> QED BY <1>4, <1>5, <2>1, <2>2
<1>7. c < 0 <=> ~(p * b <= a * q)
  BY <1>3, <1>5
<1> QED BY <1>1, <1>2, <1>6, <1>7 DEF Less, AtMost

LEMMA AtMostTrans ==
    ASSUME NEW x \in Rational, NEW y \in Rational, NEW z \in Rational, AtMost(x, y), AtMost(y, z)
    PROVE  AtMost(x, z)
<1>1. PICK a, b, p, q, i, j : a = x[1] /\ b = x[2] /\ p = y[1] /\ q = y[2] /\ i = z[1] /\ j = z[2]
  OBVIOUS
<1>2. /\ a \in Int /\ b \in Nat \ {0} /\ p \in Int /\ q \in Nat \ {0} /\ i \in Int /\ j \in Nat \ {0}
      /\ a * q <= p * b /\ p * j <= i * q
  BY <1>1, RationalParts DEF AtMost
<1>3. (a * q) * j <= (p * b) * j /\ (p * j) * b <= (i * q) * b
  <2>1. a * q \in Int /\ p * b \in Int /\ p * j \in Int /\ i * q \in Int
    BY <1>2
  <2> QED BY <1>2, <2>1, Cancel
<1>4. (a * j) * q <= (i * b) * q
  BY <1>2, <1>3
<1>5. a * j <= i * b
  <2>1. a * j \in Int /\ i * b \in Int
    BY <1>2
  <2> QED BY <1>2, <1>4, <2>1, Cancel
<1> QED BY <1>1, <1>5 DEF AtMost

LEMMA AtMostTotal ==
    ASSUME NEW x \in Rational, NEW y \in Rational
    PROVE  AtMost(x, y) \/ AtMost(y, x)
<1>1. x[1] * y[2] \in Int /\ y[1] * x[2] \in Int
  BY RationalParts
<1> QED BY <1>1 DEF AtMost

\* What is added, taken off or multiplied by keeps the order, or turns it around.
LEMMA PlusKeeps ==
    ASSUME NEW x \in Rational, NEW y \in Rational, NEW z \in Rational, AtMost(x, y)
    PROVE  AtMost(Plus(x, z), Plus(y, z))
<1>1. PICK a, b, p, q, i, j : a = x[1] /\ b = x[2] /\ p = y[1] /\ q = y[2] /\ i = z[1] /\ j = z[2]
  OBVIOUS
<1>2. /\ a \in Int /\ b \in Nat \ {0} /\ p \in Int /\ q \in Nat \ {0} /\ i \in Int /\ j \in Nat \ {0}
      /\ a * q <= p * b
  BY <1>1, RationalParts DEF AtMost
<1>3. Same(Plus(x, z), a * j + i * b, b * j) /\ Same(Plus(y, z), p * j + i * q, q * j)
  BY <1>1, PlusRight
<1>4. a * j + i * b \in Int /\ p * j + i * q \in Int /\ b * j \in Nat \ {0} /\ q * j \in Nat \ {0}
  BY <1>2, Positive
<1>5. (a * j + i * b) * (q * j) <= (p * j + i * q) * (b * j)
  <2>1. (a * j + i * b) * (q * j) = (a * q) * (j * j) + (i * j) * (b * q)
    BY <1>2
  <2>2. (p * j + i * q) * (b * j) = (p * b) * (j * j) + (i * j) * (b * q)
    BY <1>2
  <2>3. (a * q) * (j * j) <= (p * b) * (j * j)
    <3>1. a * q \in Int /\ p * b \in Int /\ j * j \in Nat \ {0}
      BY <1>2, Positive
    <3> QED BY <1>2, <3>1, Cancel
  <2>4. (a * q) * (j * j) \in Int /\ (p * b) * (j * j) \in Int /\ (i * j) * (b * q) \in Int
    BY <1>2
  <2> QED BY <2>1, <2>2, <2>3, <2>4
<1> QED BY <1>3, <1>4, <1>5, SameOrder

LEMMA MinusTurns ==
    ASSUME NEW x \in Rational, NEW y \in Rational, NEW z \in Rational, AtMost(x, y)
    PROVE  AtMost(Minus(z, y), Minus(z, x))
<1>1. PICK a, b, p, q, i, j : a = x[1] /\ b = x[2] /\ p = y[1] /\ q = y[2] /\ i = z[1] /\ j = z[2]
  OBVIOUS
<1>2. /\ a \in Int /\ b \in Nat \ {0} /\ p \in Int /\ q \in Nat \ {0} /\ i \in Int /\ j \in Nat \ {0}
      /\ a * q <= p * b
  BY <1>1, RationalParts DEF AtMost
<1>3. Same(Minus(z, x), i * b - a * j, j * b) /\ Same(Minus(z, y), i * q - p * j, j * q)
  BY <1>1, MinusRight
<1>4. i * b - a * j \in Int /\ i * q - p * j \in Int /\ j * b \in Nat \ {0} /\ j * q \in Nat \ {0}
  BY <1>2, Positive
<1>5. (i * q - p * j) * (j * b) <= (i * b - a * j) * (j * q)
  <2>1. (i * b - a * j) * (j * q) = (i * j) * (b * q) - (a * q) * (j * j)
    BY <1>2
  <2>2. (i * q - p * j) * (j * b) = (i * j) * (b * q) - (p * b) * (j * j)
    BY <1>2
  <2>3. (a * q) * (j * j) <= (p * b) * (j * j)
    <3>1. a * q \in Int /\ p * b \in Int /\ j * j \in Nat \ {0}
      BY <1>2, Positive
    <3> QED BY <1>2, <3>1, Cancel
  <2>4. (a * q) * (j * j) \in Int /\ (p * b) * (j * j) \in Int /\ (i * j) * (b * q) \in Int
    BY <1>2
  <2> QED BY <2>1, <2>2, <2>3, <2>4
<1> QED BY <1>3, <1>4, <1>5, SameOrder

LEMMA TimesKeeps ==
    ASSUME NEW x \in Rational, NEW y \in Rational, NEW z \in Rational, z[1] >= 0, AtMost(x, y)
    PROVE  AtMost(Times(z, x), Times(z, y))
<1>1. PICK a, b, p, q, i, j : a = x[1] /\ b = x[2] /\ p = y[1] /\ q = y[2] /\ i = z[1] /\ j = z[2]
  OBVIOUS
<1>2. /\ a \in Int /\ b \in Nat \ {0} /\ p \in Int /\ q \in Nat \ {0} /\ i \in Nat /\ j \in Nat \ {0}
      /\ a * q <= p * b
  BY <1>1, RationalParts DEF AtMost
<1>3. Same(Times(z, x), i * a, j * b) /\ Same(Times(z, y), i * p, j * q)
  BY <1>1, TimesRight
<1>4. i * a \in Int /\ i * p \in Int /\ j * b \in Nat \ {0} /\ j * q \in Nat \ {0}
  BY <1>2, Positive
<1>5. (i * a) * (j * q) <= (i * p) * (j * b)
  <2>1. (i * a) * (j * q) = (a * q) * (i * j)
    BY <1>2
  <2>2. (i * p) * (j * b) = (p * b) * (i * j)
    BY <1>2
  <2>3. (a * q) * (i * j) <= (p * b) * (i * j)
    <3>1. CASE i = 0
      <4>1. i * j = 0 /\ a * q \in Int /\ p * b \in Int
        BY <1>2, <3>1
      <4> QED BY <4>1
    <3>2. CASE i # 0
      <4>1. a * q \in Int /\ p * b \in Int /\ i * j \in Nat \ {0}
        BY <1>2, <3>2, Positive
      <4> QED BY <1>2, <4>1, Cancel
    <3> QED BY <3>1, <3>2
  <2> QED BY <2>1, <2>2, <2>3
<1> QED BY <1>3, <1>4, <1>5, SameOrder

-----------------------------------------------------------------------------
(* The place of the boundary grows with the argument of -s.                *)

LEMMA OneIsRational == One \in Rational /\ Zero \in Rational /\ <<2, 1>> \in Rational
                       /\ One[1] = 1 /\ One[2] = 1 /\ Zero[1] = 0 /\ Zero[2] = 1
BY DEF One, Zero, Rational

LEMMA OverRight ==
    ASSUME NEW x \in Rational, NEW y \in Rational, y[1] # 0
    PROVE  /\ Over(x, y) \in Rational
           /\ y[1] > 0 => Same(Over(x, y), x[1] * y[2], x[2] * y[1])
<1>1. y[1] \in Int /\ y[2] \in Nat \ {0}
  BY RationalParts
<1>2. CASE y[1] < 0
  <2>1. <<-y[2], -y[1]>> \in Rational
    BY <1>1, <1>2 DEF Rational
  <2>2. Over(x, y) = Times(x, <<-y[2], -y[1]>>)
    BY <1>2 DEF Over
  <2> QED BY <1>1, <1>2, <2>1, <2>2, TimesRight DEF Same
<1>3. CASE y[1] > 0
  <2>1. <<y[2], y[1]>> \in Rational
    BY <1>1, <1>3 DEF Rational
  <2>2. Over(x, y) = Times(x, <<y[2], y[1]>>)
    BY <1>1, <1>3 DEF Over
  <2>3. Same(Over(x, y), x[1] * y[2], x[2] * y[1])
    BY <2>1, <2>2, TimesRight
  <2> QED BY <2>3 DEF Same
<1> QED BY <1>1, <1>2, <1>3

\* WhereOf() as one number over another.
LEMMA WhereOfRight ==
    ASSUME NEW s \in Rational
    PROVE  /\ s[1] < 0 => Same(WhereOf(s), 0, 1)
           /\ s[1] >= 0 /\ s[1] < s[2] => Same(WhereOf(s), s[1], 2 * s[2])
           /\ s[1] >= s[2] => Same(WhereOf(s), 2 * s[1] - s[2], 2 * s[1])
<1>1. s[1] \in Int /\ s[2] \in Nat \ {0}
  BY RationalParts
<1>2. Less(s, One) <=> s[1] < s[2]
  BY <1>1, LessRight, OneIsRational DEF AtMost
<1>3. ASSUME s[1] < 0 PROVE Same(WhereOf(s), 0, 1)
  <2>1. WhereOf(s) = Zero
    BY <1>3 DEF WhereOf
  <2> QED BY <2>1, OneIsRational DEF Same
<1>4. ASSUME s[1] >= 0, s[1] < s[2] PROVE Same(WhereOf(s), s[1], 2 * s[2])
  <2>1. WhereOf(s) = Over(s, <<2, 1>>)
    BY <1>1, <1>2, <1>4 DEF WhereOf
  <2>2. PICK t : t = <<2, 1>>
    OBVIOUS
  <2>3. t \in Rational /\ t[1] = 2 /\ t[2] = 1
    BY <2>2, OneIsRational
  <2>4. Same(Over(s, t), s[1] * 1, s[2] * 2)
    BY <2>3, OverRight
  <2>5. s[1] * 1 = s[1] /\ s[2] * 2 = 2 * s[2]
    BY <1>1
  <2> QED BY <2>1, <2>2, <2>4, <2>5
<1>5. ASSUME s[1] >= s[2] PROVE Same(WhereOf(s), 2 * s[1] - s[2], 2 * s[1])
  <2>1. WhereOf(s) = Minus(One, Over(One, Times(<<2, 1>>, s)))
    BY <1>1, <1>2, <1>5 DEF WhereOf
  <2>2. PICK t : t = <<2, 1>>
    OBVIOUS
  <2>3. t \in Rational /\ t[1] = 2 /\ t[2] = 1
    BY <2>2, OneIsRational
  <2>4. PICK u : u = Times(t, s)
    OBVIOUS
  <2>5. Same(u, 2 * s[1], 1 * s[2])
    BY <2>3, <2>4, TimesRight
  <2>6. u \in Rational /\ u[1] \in Int /\ u[2] \in Nat \ {0} /\ u[1] * s[2] = 2 * s[1] * u[2]
    BY <1>1, <2>5, RationalParts DEF Same
  <2>7. u[1] > 0
    <3>1. s[1] \in Nat \ {0}
      BY <1>1, <1>5
    <3>2. 2 * s[1] * u[2] > 0
      <4>1. 2 * s[1] \in Nat \ {0}
        BY <3>1
      <4> QED BY <2>6, <4>1, Positive
    <3>3. u[1] <= 0 => u[1] * s[2] <= 0
      BY <1>1, <2>6
    <3>4. u[1] * s[2] > 0 /\ u[1] * s[2] \in Int /\ u[1] \in Int
      BY <1>1, <2>6, <3>2
    <3> QED BY <3>3, <3>4
  <2>8. PICK v : v = Over(One, u)
    OBVIOUS
  <2>9. Same(v, 1 * u[2], 1 * u[1])
    BY <2>6, <2>7, <2>8, OneIsRational, OverRight
  <2>10. Same(v, s[2], 2 * s[1])
    <3>1. 1 * u[2] = u[2] /\ 1 * u[1] = u[1] /\ u[1] \in Nat \ {0} /\ 2 * s[1] \in Nat \ {0}
      BY <1>1, <1>5, <2>6, <2>7
    <3>2. u[2] * (2 * s[1]) = s[2] * u[1]
      BY <1>1, <2>6
    <3>3. Same(v, u[2], u[1])
      BY <2>9, <3>1
    <3>4. v \in Rational /\ u[2] \in Int /\ s[2] \in Int
      BY <1>1, <2>6, <3>3 DEF Same
    <3> QED BY <3>1, <3>2, <3>3, <3>4, OtherTerms
  <2>11. v \in Rational /\ v[1] \in Int /\ v[2] \in Nat \ {0} /\ v[1] * (2 * s[1]) = s[2] * v[2]
    BY <2>10, RationalParts DEF Same
  <2>12. Same(Minus(One, v), 1 * v[2] - v[1] * 1, 1 * v[2])
    BY <2>11, OneIsRational, MinusRight
  <2>13. Same(Minus(One, v), v[2] - v[1], v[2])
    <3>1. 1 * v[2] - v[1] * 1 = v[2] - v[1] /\ 1 * v[2] = v[2]
      BY <2>11
    <3> QED BY <2>12, <3>1
  <2>14. (v[2] - v[1]) * (2 * s[1]) = (2 * s[1] - s[2]) * v[2]
    BY <1>1, <2>11
  <2>15. 2 * s[1] \in Nat \ {0} /\ 2 * s[1] - s[2] \in Int /\ v[2] - v[1] \in Int
    BY <1>1, <1>5, <2>11
  <2>16. Same(Minus(One, v), 2 * s[1] - s[2], 2 * s[1])
    BY <2>11, <2>13, <2>14, <2>15, OtherTerms
  <2> QED BY <2>1, <2>2, <2>4, <2>8, <2>16
<1> QED BY <1>3, <1>4, <1>5

LEMMA WhereOfType ==
    ASSUME NEW s \in Rational
    PROVE  WhereOf(s) \in Rational
<1>1. s[1] \in Int /\ s[2] \in Nat \ {0}
  BY RationalParts
<1>2. \/ s[1] < 0
      \/ s[1] >= 0 /\ s[1] < s[2]
      \/ s[1] >= s[2]
  BY <1>1
<1> QED BY <1>2, WhereOfRight DEF Same

LEMMA WhereOfGrows ==
    ASSUME NEW s \in Rational, NEW t \in Rational, Less(s, t)
    PROVE  AtMost(WhereOf(s), WhereOf(t))
<1>1. PICK a, b, c, d : a = s[1] /\ b = s[2] /\ c = t[1] /\ d = t[2]
  OBVIOUS
<1>2. a \in Int /\ b \in Nat \ {0} /\ c \in Int /\ d \in Nat \ {0} /\ a * d < c * b
  <2>1. s[1] * t[2] \in Int /\ t[1] * s[2] \in Int
    BY RationalParts
  <2>2. ~(t[1] * s[2] <= s[1] * t[2])
    BY LessRight DEF AtMost
  <2> QED BY <1>1, <2>1, <2>2, RationalParts
<1>3. PICK n, m \in Int, e, f \in Nat \ {0} :
          /\ Same(WhereOf(s), n, e) /\ Same(WhereOf(t), m, f)
          /\ n * f <= m * e
  <2>1. CASE a < 0
    <3>1. Same(WhereOf(s), 0, 1)
      BY <1>1, <2>1, WhereOfRight
    <3>2. CASE c < 0
      <4>1. Same(WhereOf(t), 0, 1)
        BY <1>1, <3>2, WhereOfRight
      <4> QED BY <3>1, <4>1
    <3>3. CASE c >= 0 /\ c < d
      <4>1. Same(WhereOf(t), c, 2 * d)
        BY <1>1, <3>3, WhereOfRight
      <4>2. 2 * d \in Nat \ {0} /\ 0 * (2 * d) <= c * 1
        BY <1>2, <3>3
      <4> QED BY <1>2, <3>1, <4>1, <4>2
    <3>4. CASE c >= d
      <4>1. Same(WhereOf(t), 2 * c - d, 2 * c)
        BY <1>1, <3>4, WhereOfRight
      <4>2. 2 * c \in Nat \ {0} /\ 2 * c - d \in Int /\ 0 * (2 * c) <= (2 * c - d) * 1
        BY <1>2, <3>4
      <4> QED BY <3>1, <4>1, <4>2
    <3> QED BY <1>2, <3>2, <3>3, <3>4
  <2>2. CASE a >= 0
    <3>0. c > 0
      <4>1. a * d >= 0
        BY <1>2, <2>2
      <4>2. c <= 0 => c * b <= 0
        BY <1>2
      <4>3. a * d \in Int /\ c * b \in Int
        BY <1>2
      <4> QED BY <1>2, <4>1, <4>2, <4>3
    <3>1. CASE a < b
      <4>1. Same(WhereOf(s), a, 2 * b) /\ 2 * b \in Nat \ {0}
        BY <1>1, <1>2, <2>2, <3>1, WhereOfRight
      <4>2. CASE c < d
        <5>1. Same(WhereOf(t), c, 2 * d) /\ 2 * d \in Nat \ {0}
          BY <1>1, <1>2, <3>0, <4>2, WhereOfRight
        <5>2. a * (2 * d) = 2 * (a * d) /\ c * (2 * b) = 2 * (c * b) /\ a * d \in Int /\ c * b \in Int
          BY <1>2
        <5>3. a * (2 * d) <= c * (2 * b)
          BY <1>2, <5>2
        <5> QED BY <1>2, <4>1, <5>1, <5>3
      <4>3. CASE c >= d
        <5>1. Same(WhereOf(t), 2 * c - d, 2 * c) /\ 2 * c \in Nat \ {0} /\ 2 * c - d \in Int
          BY <1>1, <1>2, <3>0, <4>3, WhereOfRight
        <5>2. a * (2 * c) <= (2 * c - d) * (2 * b)
          <6>1. a * (2 * c) <= b * (2 * c)
            BY <1>2, <3>1, <5>1, Cancel
          <6>2. c * (2 * b) <= (2 * c - d) * (2 * b)
            BY <1>2, <4>1, <4>3, <5>1, Cancel
          <6>3. b * (2 * c) = c * (2 * b)
            BY <1>2
          <6>4. a * (2 * c) \in Int /\ c * (2 * b) \in Int /\ (2 * c - d) * (2 * b) \in Int
            BY <1>2
          <6> QED BY <6>1, <6>2, <6>3, <6>4
        <5> QED BY <1>2, <4>1, <5>1, <5>2
      <4> QED BY <1>2, <4>2, <4>3
    <3>2. CASE a >= b
      <4>1. c > d
        <5>1. b * d <= a * d
          BY <1>2, <3>2, Cancel
        <5>2. d * b < c * b
          <6>1. b * d = d * b /\ b * d \in Int /\ a * d \in Int /\ c * b \in Int
            BY <1>2
          <6> QED BY <1>2, <5>1, <6>1
        <5> QED BY <1>2, <5>2, Cancel
      <4>2. Same(WhereOf(s), 2 * a - b, 2 * a) /\ 2 * a \in Nat \ {0} /\ 2 * a - b \in Int
        BY <1>1, <1>2, <3>2, WhereOfRight
      <4>3. Same(WhereOf(t), 2 * c - d, 2 * c) /\ 2 * c \in Nat \ {0} /\ 2 * c - d \in Int
        BY <1>1, <1>2, <3>0, <4>1, WhereOfRight
      <4>4. (2 * a - b) * (2 * c) <= (2 * c - d) * (2 * a)
        <5>1. (2 * a - b) * (2 * c) = 4 * (a * c) - 2 * (c * b)
          BY <1>2
        <5>2. (2 * c - d) * (2 * a) = 4 * (a * c) - 2 * (a * d)
          BY <1>2
        <5>3. a * c \in Int /\ c * b \in Int /\ a * d \in Int
          BY <1>2
        <5> QED BY <1>2, <5>1, <5>2, <5>3
      <4> QED BY <4>2, <4>3, <4>4
    <3> QED BY <1>2, <3>1, <3>2
  <2> QED BY <1>2, <2>1, <2>2
<1> QED BY <1>3, SameOrder, WhereOfType

-----------------------------------------------------------------------------
(* What is classified with a higher argument of -s.                        *)

\* The decision as far as classification needs it.
IsDecision(d) ==
    /\ DOMAIN New = DOMAIN d /\ d.npoints \in Nat /\ d.b \in [1..d.npoints -> Rational]
    /\ d.projpos \in Rational /\ d.projneg \in Rational

\* The boundary of an argument.
Bound(d, s) ==
    IF Less(d.projneg, d.projpos)
    THEN Plus(Times(Minus(d.projpos, d.projneg), Minus(One, WhereOf(s))), d.projneg)
    ELSE Plus(Times(Minus(d.projneg, d.projpos), Minus(One, Minus(One, WhereOf(s)))), d.projpos)

LEMMA Adjusted ==
    ASSUME NEW d, IsDecision(d), NEW s
    PROVE  /\ AdjustedTo(d, s) = [d EXCEPT !.k = Bound(d, s)]
           /\ AdjustedTo(d, s).k = Bound(d, s) /\ AdjustedTo(d, s).b = d.b
           /\ AdjustedTo(d, s).projpos = d.projpos /\ AdjustedTo(d, s).projneg = d.projneg
           /\ AdjustedTo(d, s).npoints = d.npoints
           /\ DOMAIN AdjustedTo(d, s) = DOMAIN New
<1>1. AdjustedTo(d, s) = [d EXCEPT !.k = Bound(d, s)]
  BY DEF AdjustedTo, SetBoundary, Bound
<1>2. PICK x : x = Bound(d, s)
  OBVIOUS
<1>3. DOMAIN d = {"positiveq", "negativeq", "transform", "npoints", "b", "k", "where", "projpos",
                  "projneg", "trained", "tested"}
  BY DEF IsDecision, New
<1>4. DOMAIN [d EXCEPT !.k = x] = DOMAIN d
  OBVIOUS
<1> QED BY <1>1, <1>2, <1>3, <1>4 DEF IsDecision

LEMMA MinusType == ASSUME NEW x \in Rational, NEW y \in Rational PROVE Minus(x, y) \in Rational
BY MinusRight DEF Same
LEMMA PlusType == ASSUME NEW x \in Rational, NEW y \in Rational PROVE Plus(x, y) \in Rational
BY PlusRight DEF Same
LEMMA TimesType == ASSUME NEW x \in Rational, NEW y \in Rational PROVE Times(x, y) \in Rational
BY TimesRight DEF Same

\* The difference of a number to a smaller one is not negative.
LEMMA MinusSign ==
    ASSUME NEW x \in Rational, NEW y \in Rational, AtMost(y, x)
    PROVE  Minus(x, y)[1] >= 0
<1>1. ~Less(x, y)
  BY LessRight
<1> QED BY <1>1, MinusType, RationalParts DEF Less

LEMMA BoundMoves ==
    ASSUME NEW d, IsDecision(d), NEW s \in Rational, NEW t \in Rational, Less(s, t)
    PROVE  /\ Bound(d, s) \in Rational /\ Bound(d, t) \in Rational
           /\ Less(d.projneg, d.projpos) => AtMost(Bound(d, t), Bound(d, s))
           /\ ~Less(d.projneg, d.projpos) => AtMost(Bound(d, s), Bound(d, t))
<1> DEFINE u == Minus(One, WhereOf(s))
           v == Minus(One, WhereOf(t))
<1>1. d.projpos \in Rational /\ d.projneg \in Rational
  BY DEF IsDecision
<1>2. u \in Rational /\ v \in Rational /\ AtMost(v, u)
  BY OneIsRational, WhereOfType, WhereOfGrows, MinusType, MinusTurns
<1>3. Minus(One, u) \in Rational /\ Minus(One, v) \in Rational /\ AtMost(Minus(One, u), Minus(One, v))
  BY <1>2, OneIsRational, MinusType, MinusTurns
<1>4. CASE Less(d.projneg, d.projpos)
  <2> DEFINE w == Minus(d.projpos, d.projneg)
  <2>1. w \in Rational
    BY <1>1, MinusType
  <2>2. AtMost(d.projneg, d.projpos)
    BY <1>1, <1>4, LessRight, AtMostTotal
  <2>3. w[1] >= 0
    BY <1>1, <2>2, MinusSign
  <2>4. Bound(d, s) = Plus(Times(w, u), d.projneg) /\ Bound(d, t) = Plus(Times(w, v), d.projneg)
    BY <1>4 DEF Bound
  <2> HIDE DEF w, u, v
  <2>5. Times(w, u) \in Rational /\ Times(w, v) \in Rational /\ AtMost(Times(w, v), Times(w, u))
    BY <1>2, <2>1, <2>3, TimesType, TimesKeeps
  <2>6. AtMost(Plus(Times(w, v), d.projneg), Plus(Times(w, u), d.projneg))
    BY <1>1, <2>5, PlusKeeps
  <2> QED BY <1>1, <1>4, <2>4, <2>5, <2>6, PlusType
<1>5. CASE ~Less(d.projneg, d.projpos)
  <2> DEFINE w == Minus(d.projneg, d.projpos)
             p == Minus(One, u)
             q == Minus(One, v)
  <2>1. w \in Rational
    BY <1>1, MinusType
  <2>2. AtMost(d.projpos, d.projneg)
    BY <1>1, <1>5, LessRight
  <2>3. w[1] >= 0
    BY <1>1, <2>2, MinusSign
  <2>4. Bound(d, s) = Plus(Times(w, p), d.projpos) /\ Bound(d, t) = Plus(Times(w, q), d.projpos)
    BY <1>5 DEF Bound
  <2>5. p \in Rational /\ q \in Rational /\ AtMost(p, q)
    BY <1>3
  <2> HIDE DEF w, p, q, u, v
  <2>6. Times(w, p) \in Rational /\ Times(w, q) \in Rational /\ AtMost(Times(w, p), Times(w, q))
    BY <2>1, <2>3, <2>5, TimesType, TimesKeeps
  <2>7. AtMost(Plus(Times(w, p), d.projpos), Plus(Times(w, q), d.projpos))
    BY <1>1, <2>6, PlusKeeps
  <2> QED BY <1>1, <1>5, <2>4, <2>6, <2>7, PlusType
<1> QED BY <1>4, <1>5

\* A higher argument finds no less.
LEMMA FoundAgain ==
    ASSUME NEW d, IsDecision(d), NEW s \in Rational, NEW t \in Rational, Less(s, t),
           NEW entry, Project(entry, d.b) \in Rational, Classify(AdjustedTo(d, s), entry)
    PROVE  Classify(AdjustedTo(d, t), entry)
<1> DEFINE val == Project(entry, d.b)
           j == Bound(d, s)
           k == Bound(d, t)
<1>1. \A r \in Rational :
          Classify(AdjustedTo(d, r), entry)
              = IF Less(d.projneg, d.projpos) THEN Less(Bound(d, r), val) ELSE Less(val, Bound(d, r))
  BY Adjusted DEF Classify
<1>2. /\ j \in Rational /\ k \in Rational
      /\ Less(d.projneg, d.projpos) => AtMost(k, j)
      /\ ~Less(d.projneg, d.projpos) => AtMost(j, k)
  BY BoundMoves
<1>3. val \in Rational
  OBVIOUS
<1>4. CASE Less(d.projneg, d.projpos)
  <2>1. Less(j, val)
    BY <1>1, <1>4
  <2> HIDE DEF val, j, k
  <2>2. ~AtMost(val, j)
    BY <1>2, <1>3, <2>1, LessRight
  <2>3. ~AtMost(val, k)
    BY <1>2, <1>3, <1>4, <2>2, AtMostTrans
  <2>4. Less(k, val)
    BY <1>2, <1>3, <2>3, LessRight
  <2> QED BY <1>1, <1>4, <2>4 DEF k
<1>5. CASE ~Less(d.projneg, d.projpos)
  <2>1. Less(val, j)
    BY <1>1, <1>5
  <2> HIDE DEF val, j, k
  <2>2. ~AtMost(j, val)
    BY <1>2, <1>3, <2>1, LessRight
  <2>3. ~AtMost(k, val)
    BY <1>2, <1>3, <1>5, <2>2, AtMostTrans
  <2>4. Less(val, k)
    BY <1>2, <1>3, <2>3, LessRight
  <2> QED BY <1>1, <1>5, <2>4 DEF k
<1> QED BY <1>4, <1>5

-----------------------------------------------------------------------------
(* The numbers of the training are rational and in lowest terms: a number  *)
(* is one pair only, and what is not Zero may be divided by.               *)

Normal == {x \in Rational : \E u, v \in Int : u * x[1] + v * x[2] = 1}

LEMMA QuotientNormal ==
    ASSUME NEW n \in Int, NEW d \in Nat \ {0}
    PROVE  Q(n, d) \in Normal
<1> DEFINE g == Gcd[<<AbsInt(n), AbsInt(d)>>]
           x == Q(n, d)
<1>1. AbsInt(n) \in Nat /\ AbsInt(d) = d /\ (n = AbsInt(n) \/ n = -AbsInt(n))
  BY DEF AbsInt
<1>2. g \in Nat \ {0} /\ AbsInt(n) % g = 0 /\ d % g = 0
  BY <1>1, GcdDivides DEF Divides
<1>3. x = <<n \div g, d \div g>>
  <2>1. \A k \in Int : 1 * k = k
    OBVIOUS
  <2>2. Q(n, d) = <<(1 * n) \div g, (1 * d) \div g>>
    BY DEF Q
  <2> HIDE DEF g
  <2> QED BY <2>1, <2>2
<1>4. PICK u, v \in Int : u * n + v * d = g
  <2>1. PICK s, t \in Int : s * AbsInt(n) + t * d = g
    <3>1. PICK m, e \in Nat : m = AbsInt(n) /\ e = AbsInt(d)
      BY <1>1
    <3>2. PICK s, t \in Int : s * m + t * e = Gcd[<<m, e>>]
      BY GcdCombines
    <3> QED BY <1>1, <3>1, <3>2
  <2>2. CASE n = AbsInt(n)
    BY <2>1, <2>2
  <2>3. CASE n = -AbsInt(n)
    <3>1. -s \in Int /\ (-s) * n = s * AbsInt(n)
      BY <1>1, <2>3
    <3> HIDE DEF g
    <3> QED BY <2>1, <3>1
  <2> HIDE DEF g
  <2> QED BY <1>1, <2>2, <2>3
<1>5. x \in Rational
  <2>1. Same(Q(n, d), n, d)
    BY QuotientRight
  <2> QED BY <2>1 DEF Same
<1> HIDE DEF g
<1>6. PICK w, z \in Int : n = g * w /\ d = g * z
  <2>1. PICK m \in Nat : m = AbsInt(n)
    BY <1>1
  <2>2. g \in Nat \ {0} /\ m \in Int /\ m % g = 0 /\ d % g = 0
    BY <1>2, <2>1
  <2>3. PICK k \in Int : m = g * k
    BY <2>2, DivisorOf
  <2>4. PICK z \in Int : d = g * z
    BY <2>2, DivisorOf
  <2>5. PICK w \in Int : n = g * w
    <3>1. CASE n = m
      BY <2>3, <3>1
    <3>2. CASE n = -m
      <4>1. n = g * (-k) /\ -k \in Int
        BY <2>2, <2>3, <3>2
      <4> QED BY <4>1
    <3> QED BY <1>1, <2>1, <3>1, <3>2
  <2> QED BY <2>4, <2>5
<1>7. x[1] = w /\ x[2] = z
  <2>1. n \div g = w /\ d \div g = z
    BY <1>2, <1>6, MultipleDiv
  <2> HIDE DEF x
  <2> QED BY <1>3, <2>1
<1>8. (u * w + v * z) * g = 1 * g
  BY <1>2, <1>4, <1>6
<1>9. u * w + v * z = 1
  <2>1. u * w + v * z \in Int
    OBVIOUS
  <2> QED BY <1>2, <1>8, <2>1, Cancel
<1> HIDE DEF x
<1>10. x \in Normal
  BY <1>5, <1>7, <1>9 DEF Normal
<1> QED BY <1>10 DEF x

\* Zero is the one number with numerator 0.
LEMMA ZeroIsOne ==
    ASSUME NEW x \in Normal, x[1] = 0
    PROVE  x = Zero
<1>1. x \in Rational
  BY DEF Normal
<1>2. PICK b \in Nat \ {0} : x = <<0, b>>
  BY <1>1, RationalParts
<1>3. PICK u, v \in Int : u * x[1] + v * x[2] = 1
  BY DEF Normal
<1>4. v * b = 1
  <2>1. u * 0 = 0 /\ v * b \in Int
    OBVIOUS
  <2> QED BY <1>2, <1>3, <2>1
<1>5. b = 1
  <2>1. v >= 1
    <3>1. v <= 0 => v * b <= 0
      OBVIOUS
    <3> QED BY <1>4, <3>1
  <2>2. b > 1 => v * b > v
    <3>1. b > 1 => v * b >= v * 2
      BY <2>1
    <3> QED BY <2>1, <3>1
  <2> QED BY <1>4, <2>1, <2>2
<1> QED BY <1>2, <1>5 DEF Zero

LEMMA Normals ==
    ASSUME NEW x \in Rational, NEW y \in Rational
    PROVE  /\ Plus(x, y) \in Normal /\ Minus(x, y) \in Normal /\ Times(x, y) \in Normal
           /\ y[1] # 0 => Over(x, y) \in Normal
<1>1. /\ x[1] \in Int /\ x[2] \in Nat \ {0} /\ y[1] \in Int /\ y[2] \in Nat \ {0}
  BY RationalParts
<1>2. Plus(x, y) \in Normal
  <2>1. x[1] * y[2] + y[1] * x[2] \in Int /\ x[2] * y[2] \in Nat \ {0}
    BY <1>1, Positive
  <2> QED BY <2>1, QuotientNormal DEF Plus
<1>3. Minus(x, y) \in Normal
  <2>1. x[1] * y[2] - y[1] * x[2] \in Int /\ x[2] * y[2] \in Nat \ {0}
    BY <1>1, Positive
  <2> QED BY <2>1, QuotientNormal DEF Minus
<1>4. \A z \in Rational : Times(x, z) \in Normal
  <2> TAKE z \in Rational
  <2> DEFINE g == Q(x[1], z[2])
             h == Q(z[1], x[2])
  <2>1. z[1] \in Int /\ z[2] \in Nat \ {0}
    BY RationalParts
  <2>2. g \in Rational /\ h \in Rational
    BY <1>1, <2>1, QuotientNormal DEF Normal
  <2> HIDE DEF g, h
  <2>3. g[1] * h[1] \in Int /\ g[2] * h[2] \in Nat \ {0}
    BY <2>2, RationalParts, Positive
  <2>4. Q(g[1] * h[1], g[2] * h[2]) \in Normal
    BY <2>3, QuotientNormal
  <2> QED BY <2>4 DEF Times, g, h
<1>5. ASSUME y[1] # 0 PROVE Over(x, y) \in Normal
  <2>1. CASE y[1] < 0
    <3>1. <<-y[2], -y[1]>> \in Rational
      BY <1>1, <2>1 DEF Rational
    <3> QED BY <1>4, <2>1, <3>1 DEF Over
  <2>2. CASE y[1] > 0
    <3>1. <<y[2], y[1]>> \in Rational /\ ~(y[1] < 0)
      BY <1>1, <2>2 DEF Rational
    <3> QED BY <1>4, <3>1 DEF Over
  <2> QED BY <1>1, <1>5, <2>1, <2>2
<1> QED BY <1>2, <1>3, <1>4, <1>5

\* Integers are in lowest terms.
LEMMA IntIsNormal == ASSUME NEW k \in Int PROVE <<k, 1>> \in Normal
<1>1. PICK x : x = <<k, 1>>
  OBVIOUS
<1>2. x \in Rational /\ x[1] = k /\ x[2] = 1
  BY <1>1 DEF Rational
<1>3. \E u, v \in Int : u * x[1] + v * x[2] = 1
  <2>1. 0 * k + 1 * 1 = 1
    OBVIOUS
  <2>2. 0 * x[1] + 1 * x[2] = 1
    BY <1>2, <2>1
  <2> QED BY <2>2
<1>4. x \in Normal
  BY <1>2, <1>3 DEF Normal
<1> QED BY <1>1, <1>4

LEMMA NormalIsRational == Normal \subseteq Rational /\ Zero \in Normal /\ One \in Normal
<1>1. Normal \subseteq Rational
  BY DEF Normal
<1> QED BY <1>1, IntIsNormal DEF Zero, One

LEMMA SumFold ==
    ASSUME NEW s
    PROVE  SumOf(s) = Sums!Fold(Zero, s)
BY DEF SumOf, FoldLeft, Sums!Fold, MapThenFoldSet, Max, Sums!Greatest

LEMMA SumType ==
    ASSUME NEW n \in Nat, NEW s \in [1..n -> Rational]
    PROVE  SumOf(s) \in Rational
<1>1. s \in Seq(Rational) /\ Len(s) = n
  OBVIOUS
<1>2. IsSum(n, Zero, 0)
  BY OneIsRational DEF IsSum
<1>3. ASSUME NEW k \in 1..Len(s), NEW v, IsSum(n, v, k - 1) PROVE IsSum(n, Plus(v, s[k]), k)
  <2>1. s[k] \in Rational
    BY <1>1, <1>3
  <2> QED BY <1>3, <2>1, PlusType DEF IsSum
<1>4. IsSum(n, Sums!Fold(Zero, s), Len(s))
  BY <1>1, <1>2, <1>3, Sums!FoldKeeps
<1> QED BY <1>4, SumFold DEF IsSum

LEMMA ProjectType ==
    ASSUME NEW n \in Nat, NEW a \in [1..n -> Rational], NEW b \in [1..n -> Rational]
    PROVE  Project(a, b) \in Rational
<1>1. [i \in 1..n |-> Times(a[i], b[i])] \in [1..n -> Rational]
  BY TimesType
<1>2. Project(a, b) = SumOf([i \in 1..n |-> Times(a[i], b[i])])
  BY DEF Project
<1> QED BY <1>1, <1>2, SumType

LEMMA IntIsRational == ASSUME NEW k \in Int PROVE <<k, 1>> \in Rational
BY DEF Rational

LEMMA VectorType ==
    ASSUME NEW v \in Seq(Int)
    PROVE  Vector(v) \in [1..Len(v) -> Rational]
BY IntIsRational DEF Vector

\* A list of vectors of npoints numbers.
Points(queue, npoints) ==
    queue \in Seq(Seq(Int)) /\ \A n \in DOMAIN queue : Len(queue[n]) = npoints

LEMMA PointOf ==
    ASSUME NEW npoints, NEW queue, Points(queue, npoints), NEW n \in DOMAIN queue, NEW i \in 1..npoints
    PROVE  queue[n][i] \in Int
<1>1. PICK v \in Seq(Int) : v = queue[n]
  BY DEF Points
<1>2. Len(v) = npoints
  BY <1>1 DEF Points
<1>3. v[i] \in Int
  BY <1>2
<1> QED BY <1>1, <1>3

LEMMA MeanType ==
    ASSUME NEW npoints \in Nat, NEW queue, Points(queue, npoints), queue # <<>>
    PROVE  MeanEst(queue, npoints) \in [1..npoints -> Normal]
<1>1. Len(queue) \in Nat \ {0} /\ DOMAIN queue = 1..Len(queue)
  BY DEF Points
<1>2. ASSUME NEW i \in 1..npoints
      PROVE  Over(SumOf([n \in DOMAIN queue |-> <<queue[n][i], 1>>]), <<Len(queue), 1>>) \in Normal
  <2> DEFINE s == [n \in DOMAIN queue |-> <<queue[n][i], 1>>]
  <2>1. s \in [1..Len(queue) -> Rational]
    <3>1. \A n \in 1..Len(queue) : queue[n][i] \in Int
      BY <1>1, PointOf
    <3> QED BY <1>1, <3>1, IntIsRational
  <2>2. SumOf(s) \in Rational
    BY <1>1, <2>1, SumType
  <2>3. PICK m : m = <<Len(queue), 1>>
    OBVIOUS
  <2>4. m \in Rational /\ m[1] # 0
    BY <1>1, <2>3, IntIsRational
  <2> HIDE DEF s
  <2>5. Over(SumOf(s), m) \in Normal
    BY <2>2, <2>4, Normals
  <2> QED BY <2>3, <2>5 DEF s
<1> QED BY <1>2 DEF MeanEst

IsMatrix(a, n) == a \in [1..n -> [1..n -> Normal]]

LEMMA CovarType ==
    ASSUME NEW npoints \in Nat, NEW positive, Points(positive, npoints), NEW negative, Points(negative, npoints),
           Len(positive) + Len(negative) # 2,
           NEW mestpos \in [1..npoints -> Rational], NEW mestneg \in [1..npoints -> Rational]
    PROVE  IsMatrix(CovarEst(positive, negative, mestpos, mestneg, npoints), npoints)
<1> DEFINE Product(entry, mean, i, j) == Times(Minus(<<entry[i], 1>>, mean[i]), Minus(<<entry[j], 1>>, mean[j]))
           SumBy(queue, mean, i, j) == SumOf([n \in DOMAIN queue |-> Product(queue[n], mean, i, j)])
           m == <<Len(positive) + Len(negative) - 2, 1>>
<1>1. ASSUME NEW queue, Points(queue, npoints), NEW mean \in [1..npoints -> Rational],
             NEW i \in 1..npoints, NEW j \in 1..npoints
      PROVE  SumBy(queue, mean, i, j) \in Rational
  <2>1. Len(queue) \in Nat /\ DOMAIN queue = 1..Len(queue)
    BY <1>1 DEF Points
  <2>2. ASSUME NEW n \in 1..Len(queue) PROVE Product(queue[n], mean, i, j) \in Rational
    <3>1. queue[n][i] \in Int /\ queue[n][j] \in Int
      BY <1>1, <2>1, PointOf
    <3>2. <<queue[n][i], 1>> \in Rational /\ <<queue[n][j], 1>> \in Rational
      BY <3>1, IntIsRational
    <3>3. mean[i] \in Rational /\ mean[j] \in Rational
      OBVIOUS
    <3> QED BY <3>2, <3>3, MinusType, TimesType
  <2>3. [n \in DOMAIN queue |-> Product(queue[n], mean, i, j)] \in [1..Len(queue) -> Rational]
    BY <2>1, <2>2
  <2> QED BY <2>1, <2>3, SumType
<1>2. m \in Rational /\ m[1] # 0
  <2>1. Len(positive) \in Nat /\ Len(negative) \in Nat
    BY DEF Points
  <2> QED BY <2>1, IntIsRational
<1>3. CovarEst(positive, negative, mestpos, mestneg, npoints)
        = [i \in 1..npoints |-> [j \in 1..npoints |->
             Over(Plus(SumBy(positive, mestpos, i, j), SumBy(negative, mestneg, i, j)), m)]]
  BY DEF CovarEst
<1> HIDE DEF SumBy, m
<1>4. \A i, j \in 1..npoints : Over(Plus(SumBy(positive, mestpos, i, j), SumBy(negative, mestneg, i, j)), m) \in Normal
  <2> TAKE i, j \in 1..npoints
  <2>1. SumBy(positive, mestpos, i, j) \in Rational /\ SumBy(negative, mestneg, i, j) \in Rational
    BY <1>1
  <2> QED BY <1>2, <2>1, PlusType, Normals
<1> QED BY <1>3, <1>4 DEF IsMatrix

-----------------------------------------------------------------------------
(* The inversion of a matrix stays among matrices.                         *)

\* Of finitely many numbers one is the greatest.
LEMMA GreatestExists ==
    ASSUME NEW S, IsFiniteSet(S), S # {}, NEW f, \A c \in S : f[c] \in Rational
    PROVE  \E c \in S : \A o \in S : AtMost(f[o], f[c])
<1> DEFINE Tops(T) == \E c \in T : \A o \in T : AtMost(f[o], f[c])
           Bad == {n \in Nat : \E T \in SUBSET S : T # {} /\ Cardinality(T) = n /\ ~Tops(T)}
<1>1. \A T \in SUBSET S : IsFiniteSet(T) /\ Cardinality(T) \in Nat
  BY FS_Subset, FS_CardinalityType
<1>2. SUFFICES ASSUME Bad # {} PROVE FALSE
  <2>1. Cardinality(S) \in Nat /\ S \in SUBSET S /\ Cardinality(S) \notin Bad
    BY <1>1, <1>2
  <2> QED BY <2>1
<1>3. PICK n \in Bad : \A m \in Bad : n <= m
  BY <1>2, Sums!LeastNumber
<1>4. PICK T \in SUBSET S : T # {} /\ Cardinality(T) = n /\ ~Tops(T)
  BY <1>3
<1>5. PICK x \in T : TRUE
  BY <1>4
<1> DEFINE U == T \ {x}
<1>6. IsFiniteSet(U) /\ Cardinality(U) = n - 1 /\ U \in SUBSET S
  BY <1>1, <1>4, <1>5, FS_RemoveElement
<1>7. n \in Nat /\ Cardinality(U) \in Nat
  BY <1>1, <1>3, <1>6
<1>8. n - 1 \notin Bad
  BY <1>3, <1>6, <1>7
<1>9. U = {} \/ Tops(U)
  BY <1>6, <1>7, <1>8
<1>10. f[x] \in Rational /\ AtMost(f[x], f[x])
  BY <1>5, AtMostTotal
<1>11. CASE U = {}
  <2>1. \A o \in T : o = x
    BY <1>11
  <2> QED BY <1>4, <1>5, <1>10, <2>1
<1>12. CASE Tops(U)
  <2>1. PICK c \in U : \A o \in U : AtMost(f[o], f[c])
    BY <1>12
  <2>2. f[c] \in Rational /\ c \in T /\ c \in S
    BY <2>1
  <2>3. CASE AtMost(f[x], f[c])
    <3>1. \A o \in T : o = x \/ o \in U
      OBVIOUS
    <3> QED BY <1>4, <2>1, <2>2, <2>3, <3>1
  <2>4. CASE AtMost(f[c], f[x])
    <3>1. ASSUME NEW o \in T PROVE AtMost(f[o], f[x])
      <4>1. CASE o = x
        BY <1>10, <4>1
      <4>2. CASE o # x
        <5>1. o \in U /\ f[o] \in Rational /\ AtMost(f[o], f[c])
          BY <2>1, <4>2
        <5> QED BY <1>10, <2>2, <2>4, <5>1, AtMostTrans
      <4> QED BY <4>1, <4>2
    <3> QED BY <1>4, <1>5, <3>1
  <2> QED BY <1>10, <2>2, <2>3, <2>4, AtMostTotal
<1> QED BY <1>9, <1>11, <1>12

\* Of finitely many places one is the last.
LEMMA LastExists ==
    ASSUME NEW n \in Nat, NEW best \in SUBSET ((1..n) \X (1..n)), best # {}
    PROVE  \E c \in best : \A o \in best : o[1] < c[1] \/ (o[1] = c[1] /\ o[2] <= c[2])
<1> DEFINE Rank(c) == c[1] * (n + 1) + c[2]
           f == [c \in best |-> <<Rank(c), 1>>]
<1>1. IsFiniteSet(best)
  <2>1. IsFiniteSet(1..n)
    BY FS_Interval
  <2>2. IsFiniteSet((1..n) \X (1..n))
    BY <2>1, FS_Product
  <2> QED BY <2>2, FS_Subset
<1>2. \A c \in best : c[1] \in 1..n /\ c[2] \in 1..n /\ Rank(c) \in Int
  <2> TAKE c \in best
  <2>1. c[1] \in 1..n /\ c[2] \in 1..n
    OBVIOUS
  <2> QED BY <2>1
<1>3. \A c \in best : f[c] \in Rational /\ f[c] = <<Rank(c), 1>>
  BY <1>2, IntIsRational
<1> HIDE DEF f
<1>4. PICK c \in best : \A o \in best : AtMost(f[o], f[c])
  BY <1>1, <1>3, GreatestExists
<1>5. ASSUME NEW o \in best PROVE o[1] < c[1] \/ (o[1] = c[1] /\ o[2] <= c[2])
  <2>1. Rank(o) <= Rank(c)
    <3>1. AtMost(f[o], f[c])
      BY <1>4
    <3>2. PICK i, j \in Int : i = Rank(o) /\ j = Rank(c)
      BY <1>2
    <3>3. f[o] = <<i, 1>> /\ f[c] = <<j, 1>>
      BY <1>3, <3>2
    <3>4. i * 1 <= j * 1
      BY <3>1, <3>3 DEF AtMost
    <3> QED BY <3>2, <3>4
  <2>2. PICK r, s, t, u \in 1..n : r = o[1] /\ s = o[2] /\ t = c[1] /\ u = c[2]
    BY <1>2
  <2>3. r * (n + 1) + s <= t * (n + 1) + u
    BY <2>1, <2>2
  <2>4. r <= t
    <3>1. ASSUME r > t PROVE FALSE
      <4>1. PICK e \in Nat \ {0} : r = t + e
        <5>1. r - t \in Nat \ {0}
          BY <3>1
        <5> QED BY <5>1
      <4>2. r * (n + 1) = t * (n + 1) + e * (n + 1)
        BY <4>1
      <4>3. e * (n + 1) >= n + 1
        BY <4>1
      <4>4. t * (n + 1) \in Int /\ e * (n + 1) \in Int
        BY <4>1
      <4> QED BY <2>3, <4>2, <4>3, <4>4
    <3> QED BY <3>1
  <2>5. r = t => s <= u
    <3>1. t * (n + 1) \in Int
      OBVIOUS
    <3> QED BY <2>3, <3>1
  <2> QED BY <2>2, <2>4, <2>5
<1> QED BY <1>4, <1>5

LEMMA MagnitudeType ==
    ASSUME NEW x \in Rational
    PROVE  Magnitude(x) \in Rational
<1>1. x[1] \in Int /\ x[2] \in Nat \ {0}
  BY RationalParts
<1> QED BY <1>1 DEF Magnitude, AbsInt, Rational

\* The pivot is in a row and a column without one.
LEMMA PivotType ==
    ASSUME NEW n \in Nat, NEW a, IsMatrix(a, n), NEW ipiv \in SUBSET (1..n), Cardinality(ipiv) < n
    PROVE  Pivot(a, ipiv) \in ((1..n) \ ipiv) \X ((1..n) \ ipiv)
<1> DEFINE left == (1..n) \ ipiv
           free == left \X left
           f == [c \in free |-> Magnitude(a[c[1]][c[2]])]
           best == {c \in free : \A o \in free : ~Less(Magnitude(a[c[1]][c[2]]), Magnitude(a[o[1]][o[2]]))}
           After(o, c) == o[1] < c[1] \/ (o[1] = c[1] /\ o[2] <= c[2])
<1>1. DOMAIN a = 1..n
  BY DEF IsMatrix
<1>2. Pivot(a, ipiv) = CHOOSE c \in best : \A o \in best : After(o, c)
  BY <1>1 DEF Pivot
<1>3. IsFiniteSet(free)
  <2>1. IsFiniteSet(left)
    BY FS_Interval, FS_Subset
  <2> QED BY <2>1, FS_Product
<1>4. free # {}
  <2>1. ipiv # 1..n
    BY FS_Interval
  <2>2. PICK x : x \in left
    BY <2>1
  <2>3. <<x, x>> \in free
    BY <2>2
  <2> QED BY <2>3
<1>5. \A c \in free : f[c] \in Rational
  <2> TAKE c \in free
  <2>1. c[1] \in 1..n /\ c[2] \in 1..n
    OBVIOUS
  <2>2. a[c[1]][c[2]] \in Rational
    BY <2>1, NormalIsRational DEF IsMatrix
  <2> QED BY <2>2, MagnitudeType
<1>6. best # {}
  <2> HIDE DEF free
  <2>1. PICK c \in free : \A o \in free : AtMost(f[o], f[c])
    <3> HIDE DEF f
    <3> QED BY <1>3, <1>4, <1>5, GreatestExists
  <2>2. \A o \in free : ~Less(f[c], f[o])
    BY <1>5, <2>1, LessRight
  <2> QED BY <2>2
<1>7. best \in SUBSET ((1..n) \X (1..n)) /\ best \subseteq free
  OBVIOUS
<1> HIDE DEF best
<1>8. \E c \in best : \A o \in best : After(o, c)
  BY <1>6, <1>7, LastExists
<1>9. Pivot(a, ipiv) \in best
  BY <1>2, <1>8
<1> QED BY <1>7, <1>9

LEMMA SwappedType ==
    ASSUME NEW n, NEW T, NEW a \in [1..n -> T], NEW i \in 1..n, NEW j \in 1..n
    PROVE  Swapped(a, i, j) \in [1..n -> T]
BY DEF Swapped

\* The matrix, the rows with a pivot and the exchanges after k turns.
IsInversion(n, m, k) ==
    /\ DOMAIN m = {"a", "ipiv", "swaps", "singular"}
    /\ IsMatrix(m.a, n)
    /\ m.swaps \in Seq((1..n) \X (1..n))
    /\ m.singular \in BOOLEAN
    /\ ~m.singular => m.ipiv \in SUBSET (1..n) /\ Cardinality(m.ipiv) = k

LEMMA EliminateKeeps ==
    ASSUME NEW n \in Nat, NEW k \in 1..n, NEW m, IsInversion(n, m, k - 1), NEW turn
    PROVE  IsInversion(n, Eliminate(m, turn), k)
<1>1. CASE m.singular
  <2>1. Eliminate(m, turn) = m
    BY <1>1 DEF Eliminate
  <2> QED BY <1>1, <2>1 DEF IsInversion
<1>2. CASE ~m.singular
  <2>1. PICK p : p = Pivot(m.a, m.ipiv)
    OBVIOUS
  <2>2. /\ IsMatrix(m.a, n) /\ m.ipiv \in SUBSET (1..n) /\ Cardinality(m.ipiv) = k - 1
        /\ m.swaps \in Seq((1..n) \X (1..n))
    BY <1>2 DEF IsInversion
  <2>3. p \in ((1..n) \ m.ipiv) \X ((1..n) \ m.ipiv)
    BY <2>1, <2>2, PivotType
  <2>4. PICK c : c = p[2]
    OBVIOUS
  <2>5. c \in 1..n /\ c \notin m.ipiv /\ p[1] \in 1..n /\ p \in (1..n) \X (1..n)
    BY <2>3, <2>4
  <2>6. PICK s : s = Swapped(m.a, p[1], c)
    OBVIOUS
  <2>7. IsMatrix(s, n) /\ DOMAIN s = 1..n
    <3>1. s \in [1..n -> [1..n -> Normal]]
      BY <2>2, <2>5, <2>6, SwappedType DEF IsMatrix
    <3> QED BY <3>1 DEF IsMatrix
  <2> DEFINE row == [l \in 1..n |-> Over(IF l = c THEN One ELSE s[c][l], s[c][c])]
             after == [r \in 1..n |->
                         IF r = c THEN row
                         ELSE [l \in 1..n |-> Minus(IF l = c THEN Zero ELSE s[r][l], Times(row[l], s[r][c]))]]
             next == [a |-> after, ipiv |-> m.ipiv \cup {c}, swaps |-> Append(m.swaps, p), singular |-> FALSE]
  <2>8. Eliminate(m, turn) = IF s[c][c] = Zero THEN [m EXCEPT !.singular = TRUE] ELSE next
    BY <1>2, <2>1, <2>4, <2>6, <2>7 DEF Eliminate
  <2>9. \A r, l \in 1..n : s[r][l] \in Normal /\ s[r][l] \in Rational
    BY <2>7, NormalIsRational DEF IsMatrix
  <2>10. CASE s[c][c] = Zero
    <3>1. PICK e : e = [m EXCEPT !.singular = TRUE]
      OBVIOUS
    <3>2. DOMAIN e = {"a", "ipiv", "swaps", "singular"} /\ e.a = m.a /\ e.swaps = m.swaps /\ e.singular = TRUE
      BY <3>1 DEF IsInversion
    <3>3. IsInversion(n, e, k)
      BY <2>2, <3>2 DEF IsInversion
    <3> QED BY <2>8, <2>10, <3>1, <3>3
  <2>11. CASE s[c][c] # Zero
    <3>1. s[c][c] \in Rational /\ s[c][c][1] # 0
      BY <2>5, <2>9, <2>11, ZeroIsOne
    <3>2. row \in [1..n -> Normal]
      <4>1. ASSUME NEW l \in 1..n PROVE Over(IF l = c THEN One ELSE s[c][l], s[c][c]) \in Normal
        <5>1. PICK x : x = IF l = c THEN One ELSE s[c][l]
          OBVIOUS
        <5>2. x \in Rational
          BY <2>5, <2>9, <5>1, OneIsRational
        <5>3. Over(x, s[c][c]) \in Normal
          BY <3>1, <5>2, Normals
        <5> QED BY <5>1, <5>3
      <4> QED BY <4>1
    <3> HIDE DEF row
    <3>3. IsMatrix(after, n)
      <4>1. ASSUME NEW r \in 1..n, NEW l \in 1..n
            PROVE  Minus(IF l = c THEN Zero ELSE s[r][l], Times(row[l], s[r][c])) \in Normal
        <5>1. PICK x : x = IF l = c THEN Zero ELSE s[r][l]
          OBVIOUS
        <5>2. x \in Rational
          BY <2>9, <5>1, OneIsRational
        <5>3. row[l] \in Rational /\ s[r][c] \in Rational
          BY <2>5, <2>9, <3>2, NormalIsRational
        <5>4. Times(row[l], s[r][c]) \in Rational
          BY <5>3, TimesType
        <5>5. Minus(x, Times(row[l], s[r][c])) \in Normal
          BY <5>2, <5>4, Normals
        <5> QED BY <5>1, <5>5
      <4> QED BY <3>2, <4>1 DEF IsMatrix
    <3> HIDE DEF after
    <3>4. /\ DOMAIN next = {"a", "ipiv", "swaps", "singular"} /\ next.a = after
          /\ next.ipiv = m.ipiv \cup {c} /\ next.swaps = Append(m.swaps, p) /\ next.singular = FALSE
      OBVIOUS
    <3>5. m.ipiv \cup {c} \in SUBSET (1..n) /\ Cardinality(m.ipiv \cup {c}) = k
      <4>1. IsFiniteSet(m.ipiv)
        <5>1. IsFiniteSet(1..n)
          BY FS_Interval
        <5>2. m.ipiv \subseteq 1..n
          BY <2>2
        <5> QED BY <5>1, <5>2, FS_Subset
      <4>2. Cardinality(m.ipiv \cup {c}) = (k - 1) + 1
        BY <2>2, <2>5, <4>1, FS_AddElement
      <4> QED BY <2>2, <2>5, <4>2
    <3>6. Append(m.swaps, p) \in Seq((1..n) \X (1..n))
      BY <2>2, <2>5
    <3> HIDE DEF next
    <3>7. IsInversion(n, next, k)
      BY <3>3, <3>4, <3>5, <3>6 DEF IsInversion
    <3> QED BY <2>8, <2>11, <3>7
  <2> QED BY <2>10, <2>11
<1> QED BY <1>1, <1>2 DEF IsInversion

\* The folds of the inversion.
IsMatrixOf(n, a, k) == IsMatrix(a, n)
Turns == INSTANCE FoldFacts WITH Op <- Eliminate, P <- IsInversion
Exchanges == INSTANCE FoldFacts WITH Op <- ColumnsSwapped, P <- IsMatrixOf

LEMMA TurnsFold ==
    ASSUME NEW s, NEW base
    PROVE  FoldLeft(Eliminate, base, s) = Turns!Fold(base, s)
BY DEF FoldLeft, Turns!Fold, MapThenFoldSet, Max, Turns!Greatest

LEMMA ExchangesFold ==
    ASSUME NEW s, NEW base
    PROVE  FoldLeft(ColumnsSwapped, base, s) = Exchanges!Fold(base, s)
BY DEF FoldLeft, Exchanges!Fold, MapThenFoldSet, Max, Exchanges!Greatest

LEMMA InverseType ==
    ASSUME NEW n \in Nat, NEW a, IsMatrix(a, n)
    PROVE  IsMatrix(MatrixInvert(a).a, n)
<1> DEFINE base == [a |-> a, ipiv |-> {}, swaps |-> <<>>, singular |-> FALSE]
           turns == [i \in 1..n |-> i]
           m == FoldLeft(Eliminate, base, turns)
           e == [m EXCEPT !.a = FoldLeft(ColumnsSwapped, @, Reverse(m.swaps))]
<1>1. MatrixInvert(a) = e
  <2>1. DOMAIN a = 1..n
    BY DEF IsMatrix
  <2> QED BY <2>1 DEF MatrixInvert
<1>2. IsInversion(n, m, n)
  <2>1. turns \in Seq(Nat) /\ Len(turns) = n
    OBVIOUS
  <2>2. IsInversion(n, base, 0)
    <3>1. Cardinality({}) = 0
      BY FS_EmptySet
    <3>2. <<>> \in Seq((1..n) \X (1..n))
      OBVIOUS
    <3> QED BY <3>1, <3>2 DEF IsInversion
  <2> HIDE DEF base, turns
  <2>3. \A k \in 1..Len(turns) : \A v : IsInversion(n, v, k - 1) => IsInversion(n, Eliminate(v, turns[k]), k)
    BY <2>1, EliminateKeeps
  <2>4. IsInversion(n, Turns!Fold(base, turns), Len(turns))
    BY <2>1, <2>2, <2>3, Turns!FoldKeeps
  <2>5. m = Turns!Fold(base, turns)
    BY TurnsFold
  <2> HIDE DEF m
  <2> QED BY <2>1, <2>4, <2>5
<1> HIDE DEF m
<1> DEFINE back == Reverse(m.swaps)
           x == FoldLeft(ColumnsSwapped, m.a, back)
<1>3. IsMatrix(x, n)
  <2>1. back \in Seq((1..n) \X (1..n))
    <3>1. PICK s \in Seq((1..n) \X (1..n)) : s = m.swaps
      BY <1>2 DEF IsInversion
    <3>2. [i \in 1..Len(s) |-> s[(Len(s) - i) + 1]] \in Seq((1..n) \X (1..n))
      OBVIOUS
    <3> QED BY <3>1, <3>2 DEF Reverse
  <2>2. IsMatrixOf(n, m.a, 0)
    BY <1>2 DEF IsInversion, IsMatrixOf
  <2> HIDE DEF back
  <2>3. ASSUME NEW k \in 1..Len(back), NEW v, IsMatrixOf(n, v, k - 1)
        PROVE  IsMatrixOf(n, ColumnsSwapped(v, back[k]), k)
    <3>1. PICK p : p = back[k]
      OBVIOUS
    <3>2. p \in (1..n) \X (1..n)
      BY <2>1, <3>1
    <3>3. p[1] \in 1..n /\ p[2] \in 1..n
      BY <3>2
    <3>4. v \in [1..n -> [1..n -> Normal]]
      BY <2>3 DEF IsMatrixOf, IsMatrix
    <3>5. \A r \in 1..n : Swapped(v[r], p[1], p[2]) \in [1..n -> Normal]
      BY <3>3, <3>4, SwappedType
    <3>6. ColumnsSwapped(v, p) = [r \in 1..n |-> Swapped(v[r], p[1], p[2])]
      BY <3>4 DEF ColumnsSwapped
    <3> QED BY <3>1, <3>5, <3>6 DEF IsMatrixOf, IsMatrix
  <2>4. IsMatrixOf(n, Exchanges!Fold(m.a, back), Len(back))
    BY <2>1, <2>2, <2>3, Exchanges!FoldKeeps
  <2> QED BY <2>4, ExchangesFold DEF IsMatrixOf
<1>4. e = [m EXCEPT !.a = x]
  OBVIOUS
<1> HIDE DEF x
<1>5. [m EXCEPT !.a = x].a = x
  BY <1>2 DEF IsInversion
<1> QED BY <1>1, <1>3, <1>4, <1>5

-----------------------------------------------------------------------------
(* Training.                                                               *)

\* The lines that were read: all of them have the same number of points.
Lines(d) ==
    /\ DOMAIN d = DOMAIN New
    /\ d.npoints \in Nat
    /\ Points(d.positiveq, d.npoints) /\ Points(d.negativeq, d.npoints)
    /\ d.npoints = 0 => d.positiveq = <<>> /\ d.negativeq = <<>>

LEMMA Parts ==
    DOMAIN New = {"positiveq", "negativeq", "transform", "npoints", "b", "k", "where", "projpos",
                  "projneg", "trained", "tested"}
BY DEF New

\* The images of the two kinds with a number up to i and j.
Images(i, j) == {<<"pos", n>> : n \in 1..i} \cup {<<"neg", n>> : n \in 1..j}

LEMMA FirstOfType ==
    ASSUME NEW npoints, NEW queue, Points(queue, npoints), NEW howmany \in 1..Len(queue)
    PROVE  /\ Points(FirstOf(queue, howmany), npoints)
           /\ DOMAIN FirstOf(queue, howmany) = 1..howmany
           /\ Len(FirstOf(queue, howmany)) = howmany
           /\ FirstOf(queue, howmany) # <<>>
<1>1. PICK s \in Seq(Seq(Int)) : s = queue
  BY DEF Points
<1>2. PICK f : f = SubSeq(s, 1, howmany)
  OBVIOUS
<1>3. f = FirstOf(queue, howmany)
  BY <1>1, <1>2 DEF FirstOf
<1>4. Len(s) \in Nat /\ howmany \in 1..Len(s) /\ DOMAIN s = 1..Len(s)
  BY <1>1
<1>5. f \in Seq(Seq(Int)) /\ Len(f) = howmany /\ \A n \in 1..howmany : f[n] = s[n]
  BY <1>2, <1>4
<1>6. DOMAIN f = 1..howmany /\ f # <<>>
  BY <1>4, <1>5
<1>7. \A n \in DOMAIN f : Len(f[n]) = npoints
  BY <1>1, <1>4, <1>5, <1>6 DEF Points
<1> QED BY <1>3, <1>5, <1>6, <1>7 DEF Points

LEMMA PercentType ==
    ASSUME NEW n \in Nat, n >= 2
    PROVE  Percent(n) \in 1..(n - 1)
BY DEF Percent

\* How many images of a kind the decision is trained with.
TrainedWith(queue, test) == IF test THEN Percent(Len(queue)) ELSE Len(queue)

LEMMA ComputeRight ==
    ASSUME NEW d, Lines(d), NEW test \in BOOLEAN, ~Untrained(Compute(d, test))
    PROVE  LET e == Compute(d, test)
           IN  /\ IsDecision(e) /\ Lines(e)
               /\ Len(e.positiveq) >= 2 /\ Len(e.negativeq) >= 2
               /\ e.trained = Images(TrainedWith(e.positiveq, test), TrainedWith(e.negativeq, test))
<1> DEFINE i == TrainedWith(d.positiveq, test)
           j == TrainedWith(d.negativeq, test)
           positive == FirstOf(d.positiveq, i)
           negative == FirstOf(d.negativeq, j)
           mestpos == MeanEst(positive, d.npoints)
           mestneg == MeanEst(negative, d.npoints)
           inverse == MatrixInvert(CovarEst(positive, negative, mestpos, mestneg, d.npoints))
           sol == [r \in 1..d.npoints |->
                      SumOf([c \in 1..d.npoints |-> Times(inverse.a[r][c], Minus(mestpos[c], mestneg[c]))])]
           with == [d EXCEPT !.b = sol, !.projpos = Project(mestpos, sol), !.projneg = Project(mestneg, sol),
                             !.trained = {<<"pos", n>> : n \in DOMAIN positive}
                                         \cup {<<"neg", n>> : n \in DOMAIN negative}]
           e == Compute(d, test)
<1>1. ~TooFew(d) /\ Len(positive) + Len(negative) # 2 /\ e = SetBoundary(with, d.where)
  <2>1. \A why \in {"failed", "undefined"} : Untrained(Unusable(why))
    BY DEF Untrained, Unusable, New
  <2>2. e = IF TooFew(d) THEN Unusable("failed")
            ELSE IF Len(positive) + Len(negative) = 2 THEN Unusable("undefined")
            ELSE IF inverse.singular THEN Unusable("failed")
            ELSE SetBoundary(with, d.where)
    BY DEF Compute, TrainedWith
  <2> HIDE DEF with, inverse, positive, negative, e
  <2> QED BY <2>1, <2>2 DEF e
<1>2. Points(d.positiveq, d.npoints) /\ Points(d.negativeq, d.npoints) /\ d.npoints \in Nat
  BY DEF Lines
<1>3. Len(d.positiveq) \in Nat /\ Len(d.negativeq) \in Nat
  BY <1>2 DEF Points
<1>4. Len(d.positiveq) >= 2 /\ Len(d.negativeq) >= 2
  <2>1. ~TooFew(d)
    BY <1>1
  <2>2. PICK m, n \in Nat : m = Len(d.positiveq) /\ n = Len(d.negativeq)
    BY <1>3
  <2> QED BY <2>1, <2>2 DEF TooFew
<1>5. i \in 1..Len(d.positiveq) /\ j \in 1..Len(d.negativeq)
  <2>1. ASSUME NEW n \in Nat, n >= 2 PROVE n \in 1..n /\ Percent(n) \in 1..n
    BY <2>1, PercentType
  <2> QED BY <1>3, <1>4, <2>1 DEF TrainedWith
<1> HIDE DEF i, j
<1>6. /\ Points(positive, d.npoints) /\ positive # <<>> /\ DOMAIN positive = 1..i
      /\ Points(negative, d.npoints) /\ negative # <<>> /\ DOMAIN negative = 1..j
  BY <1>2, <1>5, FirstOfType
<1> HIDE DEF positive, negative
<1>7. /\ mestpos \in [1..d.npoints -> Rational] /\ mestneg \in [1..d.npoints -> Rational]
  <2>1. mestpos \in [1..d.npoints -> Normal] /\ mestneg \in [1..d.npoints -> Normal]
    BY <1>2, <1>6, MeanType
  <2> QED BY <2>1, NormalIsRational
<1> HIDE DEF mestpos, mestneg
<1>8. IsMatrix(inverse.a, d.npoints)
  <2>1. PICK a : a = CovarEst(positive, negative, mestpos, mestneg, d.npoints)
    OBVIOUS
  <2>2. IsMatrix(a, d.npoints)
    BY <1>1, <1>2, <1>6, <1>7, <2>1, CovarType
  <2> QED BY <1>2, <2>1, <2>2, InverseType
<1> HIDE DEF inverse
<1>9. sol \in [1..d.npoints -> Rational]
  <2>1. ASSUME NEW r \in 1..d.npoints
        PROVE  SumOf([c \in 1..d.npoints |-> Times(inverse.a[r][c], Minus(mestpos[c], mestneg[c]))]) \in Rational
    <3>1. ASSUME NEW c \in 1..d.npoints
          PROVE  Times(inverse.a[r][c], Minus(mestpos[c], mestneg[c])) \in Rational
      <4>1. inverse.a[r][c] \in Rational
        BY <1>8, NormalIsRational DEF IsMatrix
      <4>2. mestpos[c] \in Rational /\ mestneg[c] \in Rational
        BY <1>7
      <4> QED BY <4>1, <4>2, MinusType, TimesType
    <3>2. [c \in 1..d.npoints |-> Times(inverse.a[r][c], Minus(mestpos[c], mestneg[c]))]
             \in [1..d.npoints -> Rational]
      BY <3>1
    <3> QED BY <1>2, <3>2, SumType
  <2> QED BY <2>1
<1> HIDE DEF sol
<1>10. Project(mestpos, sol) \in Rational /\ Project(mestneg, sol) \in Rational
  BY <1>2, <1>7, <1>9, ProjectType
<1>11. PICK x, y, t : x = Project(mestpos, sol) /\ y = Project(mestneg, sol) /\ t = Images(i, j)
  OBVIOUS
<1>12. with = [d EXCEPT !.b = sol, !.projpos = x, !.projneg = y, !.trained = t]
  BY <1>6, <1>11 DEF Images
<1>13. DOMAIN d = DOMAIN New
  BY DEF Lines
<1> HIDE DEF with
<1>14. /\ DOMAIN with = DOMAIN New /\ with.npoints = d.npoints /\ with.b = sol
       /\ with.projpos = x /\ with.projneg = y /\ with.trained = t
       /\ with.positiveq = d.positiveq /\ with.negativeq = d.negativeq
  BY <1>12, <1>13, Parts
<1>15. PICK k : e = [with EXCEPT !.k = k]
  BY <1>1 DEF SetBoundary
<1> HIDE DEF e
<1>16. /\ DOMAIN e = DOMAIN New /\ e.npoints = d.npoints /\ e.b = sol
       /\ e.projpos = x /\ e.projneg = y /\ e.trained = t
       /\ e.positiveq = d.positiveq /\ e.negativeq = d.negativeq
  BY <1>14, <1>15, Parts
<1>17. IsDecision(e)
  BY <1>2, <1>9, <1>10, <1>11, <1>16 DEF IsDecision
<1>18. Lines(e)
  BY <1>16 DEF Lines
<1> QED BY <1>4, <1>11, <1>16, <1>17, <1>18 DEF e, i, j

LEMMA PrintedType ==
    ASSUME NEW x \in Rational
    PROVE  Printed(x) \in Rational
<1>1. x[1] \in Int /\ x[2] \in Nat \ {0} /\ Decimals \in Nat \ {0}
  BY RationalParts, TrainingAssumption
<1>2. PICK a \in Int, b \in Nat \ {0} : a = 2 * x[1] * Decimals + x[2] /\ b = 2 * x[2]
  BY <1>1
<1>3. a \div b \in Int
  OBVIOUS
<1>4. Same(Q(a \div b, Decimals), a \div b, Decimals)
  BY <1>1, <1>3, QuotientRight
<1> QED BY <1>2, <1>4 DEF Printed, Same

LEMMA DumpRight ==
    ASSUME NEW d, IsDecision(d)
    PROVE  IsDecision(DumpAndRead(d))
<1>1. PICK x, y, z, b : /\ x = Printed(d.projpos) /\ y = Printed(d.projneg) /\ z = Printed(d.k)
                        /\ b = [i \in DOMAIN d.b |-> Printed(d.b[i])]
  OBVIOUS
<1>2. x \in Rational /\ y \in Rational
  BY <1>1, PrintedType DEF IsDecision
<1>3. b \in [1..d.npoints -> Rational]
  <2>1. d.b \in [1..d.npoints -> Rational]
    BY DEF IsDecision
  <2> QED BY <1>1, <2>1, PrintedType
<1>4. PICK e : e = [New EXCEPT !.transform = d.transform, !.npoints = d.npoints, !.b = b,
                               !.projpos = x, !.projneg = y, !.k = z]
  OBVIOUS
<1>5. DOMAIN e = DOMAIN New /\ e.npoints = d.npoints /\ e.b = b /\ e.projpos = x /\ e.projneg = y
  BY <1>4, Parts
<1>6. IsDecision(e)
  BY <1>2, <1>3, <1>5 DEF IsDecision
<1>7. e = DumpAndRead(d)
  BY <1>1, <1>4 DEF DumpAndRead
<1> QED BY <1>6, <1>7

LEMMA TestRight ==
    ASSUME NEW d, Lines(d)
    PROVE  LET e == CdTest(d)
           IN  /\ Lines(e) /\ e.positiveq = d.positiveq /\ e.negativeq = d.negativeq /\ e.trained = d.trained
               /\ e.tested = {<<"pos", n>> : n \in Percent(Len(d.positiveq)) + 1..Len(d.positiveq)}
                             \cup {<<"neg", n>> : n \in Percent(Len(d.negativeq)) + 1..Len(d.negativeq)}
<1> DEFINE tested == {<<"pos", n>> : n \in Percent(Len(d.positiveq)) + 1..Len(d.positiveq)}
                     \cup {<<"neg", n>> : n \in Percent(Len(d.negativeq)) + 1..Len(d.negativeq)}
<1> HIDE DEF tested
<1>1. PICK x, w : CdTest(d) = [[d EXCEPT !.k = x] EXCEPT !.where = w, !.tested = tested]
  BY DEF CdTest, SetBoundary, tested
<1>2. DOMAIN d = DOMAIN New
  BY DEF Lines
<1>3. PICK e : e = CdTest(d)
  OBVIOUS
<1>4. /\ DOMAIN e = DOMAIN New /\ e.npoints = d.npoints /\ e.positiveq = d.positiveq
      /\ e.negativeq = d.negativeq /\ e.trained = d.trained /\ e.tested = tested
  BY <1>1, <1>2, <1>3, Parts
<1>5. Lines(e)
  BY <1>4 DEF Lines
<1> QED BY <1>3, <1>4, <1>5 DEF tested

\* A line is added to those of its kind.
LEMMA PointsAdded ==
    ASSUME NEW npoints, NEW queue, NEW entry \in Seq(Int), Len(entry) = npoints, Points(queue, npoints)
    PROVE  Points(Append(queue, entry), npoints)
<1>2. PICK s \in Seq(Seq(Int)) : s = queue
  BY DEF Points
<1>3. PICK t : t = Append(s, entry)
  OBVIOUS
<1>4. t \in Seq(Seq(Int)) /\ DOMAIN t = 1..Len(s) + 1 /\ DOMAIN s = 1..Len(s) /\ Len(s) \in Nat
      /\ t[Len(s) + 1] = entry /\ \A n \in 1..Len(s) : t[n] = s[n]
  BY <1>2, <1>3
<1>5. \A n \in DOMAIN s : Len(s[n]) = npoints
  BY <1>2 DEF Points
<1>6. \A n \in DOMAIN t : Len(t[n]) = npoints
  <2> TAKE n \in DOMAIN t
  <2>1. n = Len(s) + 1 \/ n \in DOMAIN s
    BY <1>4
  <2> QED BY <1>4, <1>5, <2>1
<1> QED BY <1>2, <1>3, <1>4, <1>6 DEF Points

-----------------------------------------------------------------------------
(* The invariant: the lines and what was trained with them, and a decision *)
(* that can be classified with.                                            *)

LinesInv == training \in {"reading", "training", "tested"} => Lines(cdd)

TrainedInv ==
    /\ training \in {"training", "tested", "printed"} =>
         /\ Len(cdd.positiveq) \in Nat /\ Len(cdd.positiveq) >= 2
         /\ Len(cdd.negativeq) \in Nat /\ Len(cdd.negativeq) >= 2
         /\ DOMAIN cdd.positiveq = 1..Len(cdd.positiveq) /\ DOMAIN cdd.negativeq = 1..Len(cdd.negativeq)
         /\ cdd.trained = Images(TrainedWith(cdd.positiveq, training # "printed"),
                                 TrainedWith(cdd.negativeq, training # "printed"))
    /\ training = "tested" =>
         cdd.tested = {<<"pos", n>> : n \in Percent(Len(cdd.positiveq)) + 1..Len(cdd.positiveq)}
                      \cup {<<"neg", n>> : n \in Percent(Len(cdd.negativeq)) + 1..Len(cdd.negativeq)}

DecisionInv == training \in {"printed", "detecting"} => IsDecision(decision)

TrainingInv == LinesInv /\ TrainedInv /\ DecisionInv

LEMMA TrainingInit == DiscriminantInit => TrainingInv
<1> SUFFICES ASSUME DiscriminantInit PROVE TrainingInv
  OBVIOUS
<1>1. training = "reading" /\ cdd = New
  BY DEF DiscriminantInit
<1>2. New.npoints = 0 /\ New.positiveq = <<>> /\ New.negativeq = <<>>
  BY DEF New
<1>3. Points(<<>>, 0)
  BY DEF Points
<1>4. Lines(New)
  BY <1>2, <1>3 DEF Lines
<1> QED BY <1>1, <1>4 DEF TrainingInv, LinesInv, TrainedInv, DecisionInv

\* What is known of a decision that was trained.
LEMMA TrainedFacts ==
    ASSUME NEW d, Lines(d), NEW test \in BOOLEAN, NEW e, e = Compute(d, test), ~Untrained(e)
    PROVE  /\ IsDecision(e) /\ Lines(e)
           /\ Len(e.positiveq) \in Nat /\ Len(e.positiveq) >= 2
           /\ Len(e.negativeq) \in Nat /\ Len(e.negativeq) >= 2
           /\ DOMAIN e.positiveq = 1..Len(e.positiveq) /\ DOMAIN e.negativeq = 1..Len(e.negativeq)
           /\ e.trained = Images(TrainedWith(e.positiveq, test), TrainedWith(e.negativeq, test))
<1>1. /\ IsDecision(e) /\ Lines(e)
      /\ Len(e.positiveq) >= 2 /\ Len(e.negativeq) >= 2
      /\ e.trained = Images(TrainedWith(e.positiveq, test), TrainedWith(e.negativeq, test))
  BY ComputeRight
<1>2. e.positiveq \in Seq(Seq(Int)) /\ e.negativeq \in Seq(Seq(Int))
  BY <1>1 DEF Lines, Points
<1> QED BY <1>1, <1>2

LEMMA TrainingStep ==
    ASSUME TrainingInv, [DiscriminantNext]_discriminantVars
    PROVE  TrainingInv'
<1>1. CASE ProcessLine
  <2>1. training = "reading" /\ Lines(cdd)
    BY <1>1 DEF ProcessLine, TrainingInv, LinesInv
  <2>2. CASE training' = "failed"
    BY <2>2 DEF TrainingInv, LinesInv, TrainedInv, DecisionInv
  <2>3. CASE training' # "failed"
    <3>1. PICK positive \in BOOLEAN, tfname \in Transforms, entry \in Vectors :
             /\ training' = training
             /\ cdd.npoints \in {0, Len(entry)}
             /\ cdd' = IF positive
                       THEN [[cdd EXCEPT !.transform = tfname, !.npoints = Len(entry)]
                               EXCEPT !.positiveq = Append(@, entry)]
                       ELSE [[cdd EXCEPT !.transform = tfname, !.npoints = Len(entry)]
                               EXCEPT !.negativeq = Append(@, entry)]
      BY <1>1, <2>3 DEF ProcessLine
    <3>2. entry \in Seq(Int) /\ entry # <<>>
      BY TrainingAssumption
    <3>3. Len(entry) \in Nat /\ Len(entry) # 0
      BY <3>2
    <3>4. PICK n : n = Len(entry)
      OBVIOUS
    <3>5. /\ Points(cdd.positiveq, n) /\ Points(cdd.negativeq, n)
      <4>1. ASSUME cdd.npoints = 0 PROVE cdd.positiveq = <<>> /\ cdd.negativeq = <<>>
        BY <2>1, <4>1 DEF Lines
      <4>2. Points(<<>>, n)
        BY DEF Points
      <4> QED BY <2>1, <3>1, <3>4, <4>1, <4>2 DEF Lines
    <3>6. Points(Append(cdd.positiveq, entry), n) /\ Points(Append(cdd.negativeq, entry), n)
      BY <3>2, <3>4, <3>5, PointsAdded
    <3>7. PICK p, q, d : p = Append(cdd.positiveq, entry) /\ q = Append(cdd.negativeq, entry) /\ d = cdd
      OBVIOUS
    <3>8. \/ cdd' = [d EXCEPT !.transform = tfname, !.npoints = n, !.positiveq = p]
          \/ cdd' = [d EXCEPT !.transform = tfname, !.npoints = n, !.negativeq = q]
      BY <2>1, <3>1, <3>4, <3>7 DEF Lines, New
    <3>9. PICK e : e = cdd'
      OBVIOUS
    <3>10. DOMAIN d = DOMAIN New
      BY <2>1, <3>7 DEF Lines
    <3>11. /\ DOMAIN e = DOMAIN New /\ e.npoints = n
           /\ e.positiveq \in {d.positiveq, p} /\ e.negativeq \in {d.negativeq, q}
      BY <3>8, <3>9, <3>10, Parts
    <3>12. Lines(e)
      BY <3>3, <3>4, <3>5, <3>6, <3>7, <3>11 DEF Lines
    <3>13. Lines(cdd)'
      BY <3>9, <3>12
    <3> QED BY <2>1, <3>1, <3>13 DEF TrainingInv, LinesInv, TrainedInv, DecisionInv
  <2> QED BY <2>2, <2>3
<1>2. CASE Train
  <2>1. training = "reading" /\ Lines(cdd) /\ UNCHANGED decision
    BY <1>2 DEF Train, TrainingInv, LinesInv
  <2>2. PICK d : /\ d = Compute(cdd, TRUE)
                 /\ IF Untrained(d) THEN training' = d.transform /\ UNCHANGED cdd
                                 ELSE training' = "training" /\ cdd' = d
    BY <1>2 DEF Train
  <2>3. CASE Untrained(d)
    <3>1. training' \in {"failed", "undefined"}
      BY <2>2, <2>3 DEF Untrained
    <3> QED BY <3>1 DEF TrainingInv, LinesInv, TrainedInv, DecisionInv
  <2>4. CASE ~Untrained(d)
    <3>1. /\ Lines(d)
          /\ Len(d.positiveq) \in Nat /\ Len(d.positiveq) >= 2
          /\ Len(d.negativeq) \in Nat /\ Len(d.negativeq) >= 2
          /\ DOMAIN d.positiveq = 1..Len(d.positiveq) /\ DOMAIN d.negativeq = 1..Len(d.negativeq)
          /\ d.trained = Images(TrainedWith(d.positiveq, TRUE), TrainedWith(d.negativeq, TRUE))
      BY <2>1, <2>2, <2>4, TrainedFacts
    <3>2. training' = "training" /\ cdd' = d
      BY <2>2, <2>4
    <3> QED BY <3>1, <3>2 DEF TrainingInv, LinesInv, TrainedInv, DecisionInv
  <2> QED BY <2>3, <2>4
<1>3. CASE TestAccuracy
  <2>1. training = "training" /\ training' = "tested" /\ Lines(cdd) /\ TrainedInv
    BY <1>3 DEF TestAccuracy, TrainingInv, LinesInv
  <2>2. PICK d, e : d = cdd /\ e = CdTest(d)
    OBVIOUS
  <2>3. cdd' = e
    BY <1>3, <2>2 DEF TestAccuracy
  <2>4. /\ Lines(e) /\ e.positiveq = d.positiveq /\ e.negativeq = d.negativeq /\ e.trained = d.trained
        /\ e.tested = {<<"pos", n>> : n \in Percent(Len(d.positiveq)) + 1..Len(d.positiveq)}
                      \cup {<<"neg", n>> : n \in Percent(Len(d.negativeq)) + 1..Len(d.negativeq)}
    BY <2>1, <2>2, TestRight
  <2>5. LinesInv' /\ DecisionInv'
    BY <2>1, <2>3, <2>4 DEF LinesInv, DecisionInv
  <2>6. TrainedInv'
    BY <2>1, <2>2, <2>3, <2>4 DEF TrainedInv
  <2> QED BY <2>5, <2>6 DEF TrainingInv
<1>4. CASE TrainAll
  <2>1. training = "tested" /\ Lines(cdd)
    BY <1>4 DEF TrainAll, TrainingInv, LinesInv
  <2>2. PICK d : /\ d = Compute(cdd, FALSE)
                 /\ IF Untrained(d) THEN training' = d.transform /\ UNCHANGED <<cdd, decision>>
                                 ELSE training' = "printed" /\ cdd' = d /\ decision' = DumpAndRead(d)
    BY <1>4 DEF TrainAll
  <2>3. CASE Untrained(d)
    <3>1. training' \in {"failed", "undefined"}
      BY <2>2, <2>3 DEF Untrained
    <3> QED BY <3>1 DEF TrainingInv, LinesInv, TrainedInv, DecisionInv
  <2>4. CASE ~Untrained(d)
    <3>1. /\ IsDecision(d)
          /\ Len(d.positiveq) \in Nat /\ Len(d.positiveq) >= 2
          /\ Len(d.negativeq) \in Nat /\ Len(d.negativeq) >= 2
          /\ DOMAIN d.positiveq = 1..Len(d.positiveq) /\ DOMAIN d.negativeq = 1..Len(d.negativeq)
          /\ d.trained = Images(TrainedWith(d.positiveq, FALSE), TrainedWith(d.negativeq, FALSE))
      BY <2>1, <2>2, <2>4, TrainedFacts
    <3>2. training' = "printed" /\ cdd' = d /\ decision' = DumpAndRead(d)
      BY <2>2, <2>4
    <3>3. LinesInv' /\ DecisionInv'
      BY <3>1, <3>2, DumpRight DEF LinesInv, DecisionInv
    <3>4. TrainedInv'
      BY <3>1, <3>2 DEF TrainedInv
    <3> QED BY <3>3, <3>4 DEF TrainingInv
  <2> QED BY <2>3, <2>4
<1>5. CASE Detecting
  <2>1. IsDecision(decision) /\ training' = "detecting"
    BY <1>5 DEF Detecting, TrainingInv, DecisionInv
  <2>2. PICK scale \in Scales : decision' = AdjustedTo(decision, scale)
    BY <1>5 DEF Detecting
  <2>3. PICK d, e : d = decision /\ e = AdjustedTo(d, scale)
    OBVIOUS
  <2>4. IsDecision(e)
    BY <2>1, <2>3, Adjusted DEF IsDecision
  <2>5. IsDecision(decision)'
    BY <2>2, <2>3, <2>4
  <2> QED BY <2>1, <2>5 DEF TrainingInv, LinesInv, TrainedInv, DecisionInv
<1>6. CASE UNCHANGED discriminantVars
  BY <1>6 DEF TrainingInv, LinesInv, TrainedInv, DecisionInv, discriminantVars
<1> QED BY <1>1, <1>2, <1>3, <1>4, <1>5, <1>6 DEF DiscriminantNext

LEMMA TrainingIndInv == DiscriminantSpec => []TrainingInv
<1>1. DiscriminantInit => TrainingInv
  BY TrainingInit
<1>2. TrainingInv /\ [DiscriminantNext]_discriminantVars => TrainingInv'
  BY TrainingStep
<1> QED BY <1>1, <1>2, PTL DEF DiscriminantSpec

\* What is found with an argument of -s is found with every higher one, with every decision
\* that training can print (cd_setboundary(), cd_classify() and main()).
THEOREM SensitiveCorrect == DiscriminantSpec => []MoreSensitive
<1>1. TrainingInv => MoreSensitive
  <2>1. SUFFICES ASSUME TrainingInv, training = "detecting",
                        NEW s \in Scales, NEW t \in Scales, NEW v \in Vectors,
                        Less(s, t), Len(v) = decision.npoints, Classify(AdjustedTo(decision, s), Vector(v))
                 PROVE  Classify(AdjustedTo(decision, t), Vector(v))
    BY DEF MoreSensitive
  <2>2. IsDecision(decision)
    BY <2>1 DEF TrainingInv, DecisionInv
  <2>3. s \in Rational /\ t \in Rational /\ v \in Seq(Int)
    BY TrainingAssumption
  <2>4. PICK d, a : d = decision /\ a = Vector(v)
    OBVIOUS
  <2>5. a \in [1..d.npoints -> Rational] /\ d.b \in [1..d.npoints -> Rational] /\ d.npoints \in Nat
    BY <2>1, <2>2, <2>3, <2>4, VectorType DEF IsDecision
  <2>6. Project(a, d.b) \in Rational
    BY <2>5, ProjectType
  <2>7. Classify(AdjustedTo(d, t), a)
    BY <2>1, <2>2, <2>3, <2>4, <2>6, FoundAgain
  <2> QED BY <2>4, <2>7
<1>2. DiscriminantSpec => []TrainingInv
  BY TrainingIndInv
<1> QED BY <1>1, <1>2, PTL

\* The accuracy is measured with the images that the decision was not trained with, some of
\* both kinds, and what is printed was trained with all (cd_compute(), cd_test()).
THEOREM HeldOutCorrect == DiscriminantSpec => []HeldOut
<1>1. TrainingInv => HeldOut
  <2> SUFFICES ASSUME TrainingInv PROVE HeldOut
    OBVIOUS
  <2> DEFINE all == {<<"pos", n>> : n \in DOMAIN cdd.positiveq} \cup {<<"neg", n>> : n \in DOMAIN cdd.negativeq}
  <2>1. SUFFICES ASSUME training \in {"training", "tested", "printed"}
                 PROVE  /\ training = "training" => \A kind \in {"pos", "neg"} : \E t \in all \ cdd.trained : t[1] = kind
                        /\ training = "tested" => cdd.tested = all \ cdd.trained
                        /\ training = "printed" => cdd.trained = all
    BY DEF HeldOut
  <2>2. PICK i, j \in Nat : i = Len(cdd.positiveq) /\ j = Len(cdd.negativeq) /\ i >= 2 /\ j >= 2
    BY <2>1 DEF TrainingInv, TrainedInv
  <2>3. all = Images(i, j)
    BY <2>1, <2>2 DEF TrainingInv, TrainedInv, Images
  <2>4. PICK k, m : k = Percent(i) /\ m = Percent(j)
    OBVIOUS
  <2>5. k \in 1..(i - 1) /\ m \in 1..(j - 1)
    BY <2>2, <2>4, PercentType
  <2>6. training # "printed" => cdd.trained = Images(k, m)
    BY <2>1, <2>2, <2>4 DEF TrainingInv, TrainedInv, TrainedWith
  <2> HIDE DEF all
  <2>7. ASSUME training = "training", NEW kind \in {"pos", "neg"}
        PROVE  \E t \in all \ cdd.trained : t[1] = kind
    <3>1. CASE kind = "pos"
      <4>1. <<"pos", i>> \in Images(i, j) /\ <<"pos", i>> \notin Images(k, m)
        BY <2>2, <2>5 DEF Images
      <4> QED BY <2>3, <2>6, <2>7, <3>1, <4>1
    <3>2. CASE kind = "neg"
      <4>1. <<"neg", j>> \in Images(i, j) /\ <<"neg", j>> \notin Images(k, m)
        BY <2>2, <2>5 DEF Images
      <4> QED BY <2>3, <2>6, <2>7, <3>2, <4>1
    <3> QED BY <3>1, <3>2
  <2>8. ASSUME training = "tested" PROVE cdd.tested = all \ cdd.trained
    <3>1. cdd.tested = {<<"pos", n>> : n \in k + 1..i} \cup {<<"neg", n>> : n \in m + 1..j}
      BY <2>2, <2>4, <2>8 DEF TrainingInv, TrainedInv
    <3>2. {<<"pos", n>> : n \in k + 1..i} \cup {<<"neg", n>> : n \in m + 1..j} = Images(i, j) \ Images(k, m)
      BY <2>2, <2>5 DEF Images
    <3> QED BY <2>3, <2>6, <2>8, <3>1, <3>2
  <2>9. ASSUME training = "printed" PROVE cdd.trained = all
    BY <2>2, <2>3, <2>9 DEF TrainingInv, TrainedInv, TrainedWith
  <2> QED BY <2>7, <2>8, <2>9
<1>2. DiscriminantSpec => []TrainingInv
  BY TrainingIndInv
<1> QED BY <1>1, <1>2, PTL

-----------------------------------------------------------------------------
(* The numbers of the training are a field.                                *)

\* A denominator that divides the other.
LEMMA DivisorBounds ==
    ASSUME NEW a \in Int, NEW b \in Nat \ {0}, NEW c \in Int, NEW d \in Nat \ {0}, a * d = c * b,
           NEW u \in Int, NEW v \in Int, u * a + v * b = 1
    PROVE  b <= d
<1>1. d = b * (u * c + v * d)
  <2>1. d = (u * a + v * b) * d
    OBVIOUS
  <2>2. (u * a + v * b) * d = u * (a * d) + (v * b) * d
    OBVIOUS
  <2>3. u * (a * d) + (v * b) * d = u * (c * b) + (v * b) * d
    OBVIOUS
  <2>4. u * (c * b) + (v * b) * d = b * (u * c + v * d)
    OBVIOUS
  <2> QED BY <2>1, <2>2, <2>3, <2>4
<1>2. PICK k \in Int : k = u * c + v * d
  OBVIOUS
<1>3. d = b * k
  BY <1>1, <1>2
<1>4. k >= 1
  <2>1. k <= 0 => b * k <= 0
    OBVIOUS
  <2> QED BY <1>3, <2>1
<1>5. b * k >= b
  BY <1>4
<1> QED BY <1>3, <1>5

\* A number is one pair only.
LEMMA NormalSame ==
    ASSUME NEW x \in Normal, NEW n \in Int, NEW d \in Nat \ {0}, Same(x, n, d),
           NEW y \in Normal, NEW m \in Int, NEW e \in Nat \ {0}, Same(y, m, e), n * e = m * d
    PROVE  x = y
<1>1. Same(x, m, e)
  BY OtherTerms
<1>2. PICK a, b, p, q : a = x[1] /\ b = x[2] /\ p = y[1] /\ q = y[2]
  OBVIOUS
<1>3. /\ a \in Int /\ b \in Nat \ {0} /\ p \in Int /\ q \in Nat \ {0}
      /\ a * e = m * b /\ p * e = m * q /\ x = <<a, b>> /\ y = <<p, q>>
  BY <1>1, <1>2, RationalParts DEF Same
<1>4. a * q = p * b
  <2>1. (a * q) * e = (p * b) * e
    <3>1. (a * q) * e = (a * e) * q
      BY <1>3
    <3>2. (m * b) * q = (m * q) * b
      BY <1>3
    <3>3. (p * b) * e = (p * e) * b
      BY <1>3
    <3> QED BY <1>3, <3>1, <3>2, <3>3
  <2>2. a * q \in Int /\ p * b \in Int
    BY <1>3
  <2> QED BY <2>1, <2>2, Cancel
<1>5. PICK u, v \in Int : u * a + v * b = 1
  BY <1>2 DEF Normal
<1>6. PICK s, t \in Int : s * p + t * q = 1
  BY <1>2 DEF Normal
<1>7. b <= q
  BY <1>3, <1>4, <1>5, DivisorBounds
<1>8. q <= b
  <2>1. p * b = a * q
    BY <1>4
  <2> QED BY <1>3, <1>6, <2>1, DivisorBounds
<1>9. b = q
  BY <1>3, <1>7, <1>8
<1>10. a = p
  BY <1>3, <1>4, <1>9, Cancel
<1> QED BY <1>3, <1>9, <1>10

LEMMA NormalTypes ==
    ASSUME NEW x \in Normal, NEW y \in Normal
    PROVE  /\ Plus(x, y) \in Normal /\ Minus(x, y) \in Normal /\ Times(x, y) \in Normal
           /\ y # Zero => Over(x, y) \in Normal
<1>1. x \in Rational /\ y \in Rational
  BY NormalIsRational
<1>2. y[1] = 0 => y = Zero
  BY ZeroIsOne
<1> QED BY <1>1, <1>2, Normals

\* Sums, differences and products of any terms.
LEMMA SameParts ==
    ASSUME NEW x, NEW n \in Int, NEW d \in Nat \ {0}, Same(x, n, d)
    PROVE  x[1] \in Int /\ x[2] \in Nat \ {0} /\ x[1] * d = n * x[2] /\ x \in Rational
BY RationalParts DEF Same

LEMMA SamePlus ==
    ASSUME NEW x, NEW n \in Int, NEW d \in Nat \ {0}, Same(x, n, d),
           NEW y, NEW m \in Int, NEW e \in Nat \ {0}, Same(y, m, e)
    PROVE  /\ Same(Plus(x, y), n * e + m * d, d * e)
           /\ Same(Minus(x, y), n * e - m * d, d * e)
           /\ Same(Times(x, y), n * m, d * e)
           /\ n * e + m * d \in Int /\ n * e - m * d \in Int /\ n * m \in Int /\ d * e \in Nat \ {0}
<1>1. PICK a, b, p, q : a = x[1] /\ b = x[2] /\ p = y[1] /\ q = y[2]
  OBVIOUS
<1>2. /\ a \in Int /\ b \in Nat \ {0} /\ p \in Int /\ q \in Nat \ {0}
      /\ a * d = n * b /\ p * e = m * q /\ x \in Rational /\ y \in Rational
  BY <1>1, SameParts
<1>3. /\ n * e + m * d \in Int /\ n * e - m * d \in Int /\ n * m \in Int /\ d * e \in Nat \ {0}
      /\ a * q + p * b \in Int /\ a * q - p * b \in Int /\ a * p \in Int /\ b * q \in Nat \ {0}
  BY <1>2, Positive
<1>4. /\ Same(Plus(x, y), a * q + p * b, b * q) /\ Same(Minus(x, y), a * q - p * b, b * q)
      /\ Same(Times(x, y), a * p, b * q)
  BY <1>1, <1>2, PlusRight, MinusRight, TimesRight
<1>5. (a * q) * (d * e) = (n * e) * (b * q)
  <2>1. (a * q) * (d * e) = (a * d) * (q * e)
    BY <1>2
  <2>2. (n * b) * (q * e) = (n * e) * (b * q)
    BY <1>2
  <2> QED BY <1>2, <2>1, <2>2
<1>6. (p * b) * (d * e) = (m * d) * (b * q)
  <2>1. (p * b) * (d * e) = (p * e) * (b * d)
    BY <1>2
  <2>2. (m * q) * (b * d) = (m * d) * (b * q)
    BY <1>2
  <2> QED BY <1>2, <2>1, <2>2
<1>7. (a * p) * (d * e) = (n * m) * (b * q)
  <2>1. (a * p) * (d * e) = (a * d) * (p * e)
    BY <1>2
  <2>2. (n * b) * (m * q) = (n * m) * (b * q)
    BY <1>2
  <2> QED BY <1>2, <2>1, <2>2
<1>8. /\ (a * q + p * b) * (d * e) = (n * e + m * d) * (b * q)
      /\ (a * q - p * b) * (d * e) = (n * e - m * d) * (b * q)
  <2>1. PICK f, g, h, i, j, k \in Int : /\ f = a * q /\ g = p * b /\ h = n * e /\ i = m * d
                                        /\ j = d * e /\ k = b * q
    BY <1>2
  <2>2. f * j = h * k /\ g * j = i * k
    BY <1>5, <1>6, <2>1
  <2>3. (f + g) * j = (h + i) * k /\ (f - g) * j = (h - i) * k
    BY <2>2
  <2> QED BY <2>1, <2>3
<1> QED BY <1>3, <1>4, <1>7, <1>8, OtherTerms

\* The laws of the sums and the products.
LEMMA PlusLaws ==
    ASSUME NEW x \in Normal, NEW y \in Normal, NEW z \in Normal
    PROVE  /\ Plus(x, y) = Plus(y, x)
           /\ Plus(Plus(x, y), z) = Plus(x, Plus(y, z))
           /\ Plus(x, Zero) = x
           /\ Plus(Minus(x, y), y) = x
           /\ Minus(Plus(x, y), y) = x
<1>1. PICK a, b, p, q, i, j : a = x[1] /\ b = x[2] /\ p = y[1] /\ q = y[2] /\ i = z[1] /\ j = z[2]
  OBVIOUS
<1>2. /\ a \in Int /\ b \in Nat \ {0} /\ p \in Int /\ q \in Nat \ {0} /\ i \in Int /\ j \in Nat \ {0}
      /\ Same(x, a, b) /\ Same(y, p, q) /\ Same(z, i, j)
  BY <1>1, NormalIsRational, RationalParts, OwnParts
<1>3. Zero \in Normal /\ Same(Zero, 0, 1)
  BY NormalIsRational, OneIsRational DEF Same
<1>4. /\ Plus(x, y) \in Normal /\ Plus(y, x) \in Normal /\ Plus(y, z) \in Normal /\ Minus(x, y) \in Normal
      /\ Plus(x, Zero) \in Normal
  BY <1>3, NormalTypes
<1>5. /\ Plus(Plus(x, y), z) \in Normal /\ Plus(x, Plus(y, z)) \in Normal
      /\ Plus(Minus(x, y), y) \in Normal /\ Minus(Plus(x, y), y) \in Normal
  BY <1>4, NormalTypes
<1>6. /\ Same(Plus(x, y), a * q + p * b, b * q) /\ Same(Plus(y, x), p * b + a * q, q * b)
      /\ Same(Plus(y, z), p * j + i * q, q * j) /\ Same(Minus(x, y), a * q - p * b, b * q)
      /\ Same(Plus(x, Zero), a * 1 + 0 * b, b * 1)
      /\ a * q + p * b \in Int /\ p * b + a * q \in Int /\ p * j + i * q \in Int /\ a * q - p * b \in Int
      /\ b * q \in Nat \ {0} /\ q * b \in Nat \ {0} /\ q * j \in Nat \ {0}
      /\ a * 1 + 0 * b \in Int /\ b * 1 \in Nat \ {0}
  BY <1>2, <1>3, SamePlus
<1>7. Plus(x, y) = Plus(y, x)
  <2>1. (a * q + p * b) * (q * b) = (p * b + a * q) * (b * q)
    BY <1>2
  <2> QED BY <1>4, <1>6, <2>1, NormalSame
<1>8. Plus(x, Zero) = x
  <2>1. a * b = (a * 1 + 0 * b) * b /\ a * (b * 1) = (a * 1 + 0 * b) * b
    BY <1>2
  <2> QED BY <1>2, <1>4, <1>6, <2>1, NormalSame
<1>9. Plus(Plus(x, y), z) = Plus(x, Plus(y, z))
  <2>1. /\ Same(Plus(Plus(x, y), z), (a * q + p * b) * j + i * (b * q), (b * q) * j)
        /\ (a * q + p * b) * j + i * (b * q) \in Int /\ (b * q) * j \in Nat \ {0}
    BY <1>2, <1>6, SamePlus
  <2>2. /\ Same(Plus(x, Plus(y, z)), a * (q * j) + (p * j + i * q) * b, b * (q * j))
        /\ a * (q * j) + (p * j + i * q) * b \in Int /\ b * (q * j) \in Nat \ {0}
    BY <1>2, <1>6, SamePlus
  <2>3. (a * q + p * b) * j + i * (b * q) = a * (q * j) + (p * j + i * q) * b /\ (b * q) * j = b * (q * j)
    BY <1>2
  <2> QED BY <1>5, <2>1, <2>2, <2>3, NormalSame
<1>10. Plus(Minus(x, y), y) = x
  <2>1. /\ Same(Plus(Minus(x, y), y), (a * q - p * b) * q + p * (b * q), (b * q) * q)
        /\ (a * q - p * b) * q + p * (b * q) \in Int /\ (b * q) * q \in Nat \ {0}
    BY <1>2, <1>6, SamePlus
  <2>2. ((a * q - p * b) * q + p * (b * q)) * b = a * ((b * q) * q)
    BY <1>2
  <2> QED BY <1>2, <1>5, <2>1, <2>2, NormalSame
<1>11. Minus(Plus(x, y), y) = x
  <2>1. /\ Same(Minus(Plus(x, y), y), (a * q + p * b) * q - p * (b * q), (b * q) * q)
        /\ (a * q + p * b) * q - p * (b * q) \in Int /\ (b * q) * q \in Nat \ {0}
    BY <1>2, <1>6, SamePlus
  <2>2. ((a * q + p * b) * q - p * (b * q)) * b = a * ((b * q) * q)
    BY <1>2
  <2> QED BY <1>2, <1>5, <2>1, <2>2, NormalSame
<1> QED BY <1>7, <1>8, <1>9, <1>10, <1>11

LEMMA TimesLaws ==
    ASSUME NEW x \in Normal, NEW y \in Normal, NEW z \in Normal
    PROVE  /\ Times(x, y) = Times(y, x)
           /\ Times(Times(x, y), z) = Times(x, Times(y, z))
           /\ Times(x, One) = x /\ Times(x, Zero) = Zero
           /\ Times(x, Plus(y, z)) = Plus(Times(x, y), Times(x, z))
           /\ Times(x, Minus(y, z)) = Minus(Times(x, y), Times(x, z))
<1>1. PICK a, b, p, q, i, j : a = x[1] /\ b = x[2] /\ p = y[1] /\ q = y[2] /\ i = z[1] /\ j = z[2]
  OBVIOUS
<1>2. /\ a \in Int /\ b \in Nat \ {0} /\ p \in Int /\ q \in Nat \ {0} /\ i \in Int /\ j \in Nat \ {0}
      /\ Same(x, a, b) /\ Same(y, p, q) /\ Same(z, i, j)
  BY <1>1, NormalIsRational, RationalParts, OwnParts
<1>3. Zero \in Normal /\ Same(Zero, 0, 1) /\ One \in Normal /\ Same(One, 1, 1)
  BY NormalIsRational, OneIsRational DEF Same
<1>4. /\ Times(x, y) \in Normal /\ Times(y, x) \in Normal /\ Times(y, z) \in Normal /\ Times(x, z) \in Normal
      /\ Times(x, Zero) \in Normal /\ Times(x, One) \in Normal /\ Plus(y, z) \in Normal /\ Minus(y, z) \in Normal
  BY <1>3, NormalTypes
<1>5. /\ Times(Times(x, y), z) \in Normal /\ Times(x, Times(y, z)) \in Normal
      /\ Times(x, Plus(y, z)) \in Normal /\ Plus(Times(x, y), Times(x, z)) \in Normal
      /\ Times(x, Minus(y, z)) \in Normal /\ Minus(Times(x, y), Times(x, z)) \in Normal
  BY <1>4, NormalTypes
<1>6. /\ Same(Times(x, y), a * p, b * q) /\ Same(Times(y, x), p * a, q * b)
      /\ Same(Times(y, z), p * i, q * j) /\ Same(Times(x, z), a * i, b * j)
      /\ Same(Times(x, One), a * 1, b * 1) /\ Same(Times(x, Zero), a * 0, b * 1)
      /\ Same(Plus(y, z), p * j + i * q, q * j) /\ Same(Minus(y, z), p * j - i * q, q * j)
      /\ a * p \in Int /\ p * a \in Int /\ p * i \in Int /\ a * i \in Int /\ a * 1 \in Int /\ a * 0 \in Int
      /\ p * j + i * q \in Int /\ p * j - i * q \in Int
      /\ b * q \in Nat \ {0} /\ q * b \in Nat \ {0} /\ q * j \in Nat \ {0} /\ b * j \in Nat \ {0}
      /\ b * 1 \in Nat \ {0}
  BY <1>2, <1>3, SamePlus
<1>7. Times(x, y) = Times(y, x)
  <2>1. (a * p) * (q * b) = (p * a) * (b * q)
    BY <1>2
  <2> QED BY <1>4, <1>6, <2>1, NormalSame
<1>8. Times(x, One) = x /\ Times(x, Zero) = Zero
  <2>1. (a * 1) * b = a * (b * 1) /\ (a * 0) * 1 = 0 * (b * 1)
    BY <1>2
  <2> QED BY <1>2, <1>3, <1>4, <1>6, <2>1, NormalSame
<1>9. Times(Times(x, y), z) = Times(x, Times(y, z))
  <2>1. /\ Same(Times(Times(x, y), z), (a * p) * i, (b * q) * j)
        /\ (a * p) * i \in Int /\ (b * q) * j \in Nat \ {0}
    BY <1>2, <1>6, SamePlus
  <2>2. /\ Same(Times(x, Times(y, z)), a * (p * i), b * (q * j))
        /\ a * (p * i) \in Int /\ b * (q * j) \in Nat \ {0}
    BY <1>2, <1>6, SamePlus
  <2>3. (a * p) * i = a * (p * i) /\ (b * q) * j = b * (q * j)
    BY <1>2
  <2> QED BY <1>5, <2>1, <2>2, <2>3, NormalSame
<1>10. PICK c, d, e, f \in Int, g, h \in Nat \ {0} :
         /\ c = a * p /\ d = a * i /\ e = p * j /\ f = i * q /\ g = b * q /\ h = b * j
  BY <1>2, <1>6
<1>11. PICK k \in Nat \ {0} : k = q * j
  BY <1>6
<1>12. /\ (a * (e + f)) * (g * h) = (c * h + d * g) * (b * k)
       /\ (a * (e - f)) * (g * h) = (c * h - d * g) * (b * k)
  <2>1. (a * e) * (g * h) = (c * h) * (b * k)
    BY <1>2, <1>10, <1>11
  <2>2. (a * f) * (g * h) = (d * g) * (b * k)
    BY <1>2, <1>10, <1>11
  <2>3. PICK r, s, t, u, v, w \in Int : r = a * e /\ s = a * f /\ t = g * h /\ u = c * h /\ v = d * g /\ w = b * k
    BY <1>2, <1>10, <1>11
  <2>4. (r + s) * t = (u + v) * w /\ (r - s) * t = (u - v) * w
    <3>1. r * t = u * w /\ s * t = v * w
      BY <2>1, <2>2, <2>3
    <3> QED BY <3>1
  <2>5. a * (e + f) = r + s /\ a * (e - f) = r - s
    BY <1>2, <1>10, <2>3
  <2> QED BY <2>3, <2>4, <2>5
<1>13. Times(x, Plus(y, z)) = Plus(Times(x, y), Times(x, z))
  <2>1. /\ Same(Times(x, Plus(y, z)), a * (e + f), b * k)
        /\ a * (e + f) \in Int /\ b * k \in Nat \ {0}
    BY <1>2, <1>6, <1>10, <1>11, SamePlus
  <2>2. /\ Same(Plus(Times(x, y), Times(x, z)), c * h + d * g, g * h)
        /\ c * h + d * g \in Int /\ g * h \in Nat \ {0}
    BY <1>2, <1>6, <1>10, SamePlus
  <2> QED BY <1>5, <1>12, <2>1, <2>2, NormalSame
<1>14. Times(x, Minus(y, z)) = Minus(Times(x, y), Times(x, z))
  <2>1. /\ Same(Times(x, Minus(y, z)), a * (e - f), b * k)
        /\ a * (e - f) \in Int /\ b * k \in Nat \ {0}
    BY <1>2, <1>6, <1>10, <1>11, SamePlus
  <2>2. /\ Same(Minus(Times(x, y), Times(x, z)), c * h - d * g, g * h)
        /\ c * h - d * g \in Int /\ g * h \in Nat \ {0}
    BY <1>2, <1>6, <1>10, SamePlus
  <2> QED BY <1>5, <1>12, <2>1, <2>2, NormalSame
<1> QED BY <1>7, <1>8, <1>9, <1>13, <1>14

\* What is divided by a number and multiplied with it again.
LEMMA OverLaw ==
    ASSUME NEW x \in Normal, NEW y \in Normal, y # Zero
    PROVE  Times(Over(x, y), y) = x
<1>1. PICK a, b, p, q : a = x[1] /\ b = x[2] /\ p = y[1] /\ q = y[2]
  OBVIOUS
<1>2. /\ a \in Int /\ b \in Nat \ {0} /\ p \in Int /\ q \in Nat \ {0}
      /\ Same(x, a, b) /\ Same(y, p, q) /\ p # 0
  BY <1>1, NormalIsRational, RationalParts, OwnParts, ZeroIsOne
<1>3. Times(Over(x, y), y) \in Normal
  BY NormalTypes
<1>4. PICK n \in Int, d \in Nat \ {0} : Over(x, y) = Times(x, <<n, d>>) /\ n * p = d * q
  <2>1. CASE p < 0
    <3>1. -q \in Int /\ -p \in Nat \ {0} /\ (-q) * p = (-p) * q
      BY <1>2, <2>1
    <3>2. Over(x, y) = Times(x, <<-q, -p>>)
      BY <1>1, <2>1 DEF Over
    <3> QED BY <3>1, <3>2
  <2>2. CASE p > 0
    <3>1. q \in Int /\ p \in Nat \ {0} /\ q * p = p * q
      BY <1>2, <2>2
    <3>2. Over(x, y) = Times(x, <<q, p>>)
      BY <1>1, <1>2, <2>2 DEF Over
    <3> QED BY <3>1, <3>2
  <2> QED BY <1>2, <2>1, <2>2
<1>5. PICK t : t = <<n, d>>
  OBVIOUS
<1>6. Same(t, n, d)
  BY <1>5 DEF Same, Rational
<1>7. Same(Over(x, y), a * n, b * d) /\ a * n \in Int /\ b * d \in Nat \ {0}
  BY <1>2, <1>4, <1>5, <1>6, SamePlus
<1>8. /\ Same(Times(Over(x, y), y), (a * n) * p, (b * d) * q)
      /\ (a * n) * p \in Int /\ (b * d) * q \in Nat \ {0}
  BY <1>2, <1>7, SamePlus
<1>9. ((a * n) * p) * b = a * ((b * d) * q)
  <2>1. ((a * n) * p) * b = (a * b) * (n * p)
    BY <1>2
  <2>2. (a * b) * (d * q) = a * ((b * d) * q)
    BY <1>2
  <2> QED BY <1>4, <2>1, <2>2
<1> QED BY <1>2, <1>3, <1>8, <1>9, NormalSame

\* Terms of a sum in another order.
LEMMA PlusOrder ==
    ASSUME NEW x \in Normal, NEW y \in Normal, NEW z \in Normal, NEW t \in Normal
    PROVE  /\ Plus(Plus(x, y), z) = Plus(Plus(x, z), y)
           /\ Plus(Plus(x, y), Plus(z, t)) = Plus(Plus(x, z), Plus(y, t))
<1>1. Plus(x, y) \in Normal /\ Plus(x, z) \in Normal /\ Plus(y, z) \in Normal /\ Plus(z, y) \in Normal
  BY NormalTypes
<1>2. Plus(Plus(x, y), z) = Plus(Plus(x, z), y)
  <2>1. Plus(Plus(x, y), z) = Plus(x, Plus(y, z)) /\ Plus(Plus(x, z), y) = Plus(x, Plus(z, y))
    BY PlusLaws
  <2>2. Plus(y, z) = Plus(z, y)
    BY PlusLaws
  <2> QED BY <2>1, <2>2
<1>3. Plus(Plus(x, y), Plus(z, t)) = Plus(Plus(x, z), Plus(y, t))
  <2>1. Plus(Plus(x, y), Plus(z, t)) = Plus(Plus(Plus(x, y), z), t)
    BY <1>1, PlusLaws
  <2>2. Plus(Plus(x, z), Plus(y, t)) = Plus(Plus(Plus(x, z), y), t)
    BY <1>1, PlusLaws
  <2> QED BY <1>2, <2>1, <2>2
<1> QED BY <1>2, <1>3

\* What is added to both sides is taken off both.
LEMMA PlusCancel ==
    ASSUME NEW x \in Normal, NEW y \in Normal, NEW z \in Normal, Plus(x, z) = Plus(y, z)
    PROVE  x = y
<1>1. Minus(Plus(x, z), z) = x /\ Minus(Plus(y, z), z) = y
  BY PlusLaws
<1> QED BY <1>1

-----------------------------------------------------------------------------
(* Sums.                                                                   *)

\* What holds of 0, and of each number up to n when it holds of the one before, holds of n.
LEMMA Reaches ==
    ASSUME NEW n \in Nat, NEW T, 0 \in T, \A k \in 1..n : k - 1 \in T => k \in T
    PROVE  n \in T
<1> DEFINE Fails == {k \in 0..n : k \notin T}
<1>1. SUFFICES ASSUME Fails # {} PROVE FALSE
  <2>1. n \notin Fails
    BY <1>1
  <2> QED BY <2>1
<1>2. PICK k \in Fails : \A j \in Fails : k <= j
  <2>1. Fails \subseteq Nat
    OBVIOUS
  <2> QED BY <1>1, <2>1, Sums!LeastNumber
<1>3. k # 0
  BY <1>2
<1>4. k \in 1..n /\ k - 1 \in 0..n /\ ~(k <= k - 1)
  BY <1>2, <1>3
<1>5. k - 1 \notin Fails
  BY <1>2, <1>4
<1> QED BY <1>2, <1>4, <1>5

\* The sum of the first k.
SumTo(f, k) == SumOf([l \in 1..k |-> f[l]])

LEMMA SumSteps ==
    ASSUME NEW n \in Nat, NEW f \in [1..n -> Normal]
    PROVE  /\ SumTo(f, 0) = Zero /\ SumTo(f, n) = SumOf(f)
           /\ \A k \in 0..n : SumTo(f, k) \in Normal
           /\ \A k \in 1..n : k - 1 \in 0..n /\ SumTo(f, k) = Plus(SumTo(f, k - 1), f[k])
<1>1. ASSUME NEW k \in 0..n PROVE [l \in 1..k |-> f[l]] \in Seq(Normal) /\ Len([l \in 1..k |-> f[l]]) = k
  OBVIOUS
<1>2. SumTo(f, 0) = Zero
  <2>1. PICK s : s = [l \in 1..0 |-> f[l]]
    OBVIOUS
  <2>2. s \in Seq(Normal) /\ Len(s) = 0
    BY <1>1, <2>1
  <2>3. PICK h : Sums!Leads(h, Zero, s)
    BY <2>2, Sums!FoldSteps
  <2> QED BY <2>1, <2>2, <2>3, SumFold DEF SumTo, Sums!Leads
<1>3. SumTo(f, n) = SumOf(f)
  <2>1. [l \in 1..n |-> f[l]] = f
    OBVIOUS
  <2> QED BY <2>1 DEF SumTo
<1>4. ASSUME NEW k \in 1..n
      PROVE  k - 1 \in 0..n /\ SumTo(f, k) = Plus(SumTo(f, k - 1), f[k])
  <2>1. k - 1 \in 0..n
    OBVIOUS
  <2>2. PICK s : s = [l \in 1..k - 1 |-> f[l]]
    OBVIOUS
  <2>3. s \in Seq(Normal) /\ Len(s) = k - 1 /\ f[k] \in Normal
    BY <1>1, <2>1, <2>2
  <2>4. Append(s, f[k]) = [l \in 1..k |-> f[l]]
    <3>1. Append(s, f[k]) = [l \in 1..k |-> IF l = k THEN f[k] ELSE s[l]]
      BY <2>1, <2>3
    <3>2. \A l \in 1..k : l # k => l \in 1..k - 1 /\ s[l] = f[l]
      BY <2>2
    <3> QED BY <3>1, <3>2
  <2>5. Sums!Fold(Zero, Append(s, f[k])) = Plus(Sums!Fold(Zero, s), f[k])
    BY <2>3, Sums!FoldOne
  <2> QED BY <2>1, <2>2, <2>4, <2>5, SumFold DEF SumTo
<1>5. ASSUME NEW k \in 0..n PROVE SumTo(f, k) \in Normal
  <2> DEFINE T == {m \in 0..n : SumTo(f, m) \in Normal}
  <2>1. 0 \in T
    BY <1>2, NormalIsRational
  <2>2. ASSUME NEW m \in 1..k, m - 1 \in T PROVE m \in T
    <3>1. m \in 1..n /\ m \in 0..n
      OBVIOUS
    <3>2. SumTo(f, m) = Plus(SumTo(f, m - 1), f[m]) /\ f[m] \in Normal
      BY <1>4, <3>1
    <3> QED BY <2>2, <3>1, <3>2, NormalTypes
  <2> HIDE DEF T
  <2>3. k \in T
    BY <2>1, <2>2, Reaches
  <2> QED BY <2>3 DEF T
<1> QED BY <1>2, <1>3, <1>4, <1>5

LEMMA SumNormal ==
    ASSUME NEW n \in Nat, NEW f \in [1..n -> Normal]
    PROVE  SumOf(f) \in Normal
<1>1. n \in 0..n
  OBVIOUS
<1> QED BY <1>1, SumSteps

\* The sum of sums.
AreSums(n, h, f, g) ==
    /\ f \in [1..n -> Normal] /\ g \in [1..n -> Normal] /\ h \in [1..n -> Normal]
    /\ \A l \in 1..n : h[l] = Plus(f[l], g[l])

LEMMA SumPlus ==
    ASSUME NEW n \in Nat, NEW f, NEW g, NEW h, AreSums(n, h, f, g)
    PROVE  SumOf(h) = Plus(SumOf(f), SumOf(g))
<1>0. /\ f \in [1..n -> Normal] /\ g \in [1..n -> Normal] /\ h \in [1..n -> Normal]
      /\ \A l \in 1..n : h[l] = Plus(f[l], g[l])
  BY DEF AreSums
<1> DEFINE T == {k \in 0..n : SumTo(h, k) = Plus(SumTo(f, k), SumTo(g, k))}
<1>1. 0 \in T
  <2>1. Zero \in Normal
    BY NormalIsRational
  <2>2. Plus(Zero, Zero) = Zero
    BY <2>1, PlusLaws
  <2> QED BY <1>0, <2>2, SumSteps
<1>2. ASSUME NEW k \in 1..n, k - 1 \in T PROVE k \in T
  <2>1. /\ SumTo(h, k) = Plus(SumTo(h, k - 1), h[k])
        /\ SumTo(f, k) = Plus(SumTo(f, k - 1), f[k])
        /\ SumTo(g, k) = Plus(SumTo(g, k - 1), g[k])
        /\ SumTo(f, k - 1) \in Normal /\ SumTo(g, k - 1) \in Normal
    BY <1>0, SumSteps
  <2>2. f[k] \in Normal /\ g[k] \in Normal /\ h[k] = Plus(f[k], g[k])
    BY <1>0
  <2>3. SumTo(h, k) = Plus(Plus(SumTo(f, k - 1), SumTo(g, k - 1)), Plus(f[k], g[k]))
    BY <1>2, <2>1, <2>2
  <2>4. SumTo(h, k) = Plus(SumTo(f, k), SumTo(g, k))
    BY <2>1, <2>2, <2>3, <1>0, PlusOrder
  <2> QED BY <2>4
<1> HIDE DEF T
<1>3. n \in T
  BY <1>1, <1>2, Reaches
<1> QED BY <1>0, <1>3, SumSteps DEF T

\* The sum of multiples.
AreMultiples(n, h, z, f) ==
    /\ f \in [1..n -> Normal] /\ h \in [1..n -> Normal] /\ z \in Normal
    /\ \A l \in 1..n : h[l] = Times(z, f[l])

LEMMA SumTimes ==
    ASSUME NEW n \in Nat, NEW f, NEW h, NEW z, AreMultiples(n, h, z, f)
    PROVE  SumOf(h) = Times(z, SumOf(f))
<1>0. /\ f \in [1..n -> Normal] /\ h \in [1..n -> Normal] /\ z \in Normal
      /\ \A l \in 1..n : h[l] = Times(z, f[l])
  BY DEF AreMultiples
<1> DEFINE T == {k \in 0..n : SumTo(h, k) = Times(z, SumTo(f, k))}
<1>1. 0 \in T
  BY <1>0, SumSteps, TimesLaws
<1>2. ASSUME NEW k \in 1..n, k - 1 \in T PROVE k \in T
  <2>1. /\ SumTo(h, k) = Plus(SumTo(h, k - 1), h[k])
        /\ SumTo(f, k) = Plus(SumTo(f, k - 1), f[k])
        /\ SumTo(f, k - 1) \in Normal
    BY <1>0, SumSteps
  <2>2. f[k] \in Normal /\ h[k] = Times(z, f[k])
    BY <1>0
  <2>3. SumTo(h, k) = Times(z, SumTo(f, k))
    BY <1>0, <1>2, <2>1, <2>2, TimesLaws
  <2> QED BY <2>3
<1> HIDE DEF T
<1>3. n \in T
  BY <1>1, <1>2, Reaches
<1> QED BY <1>0, <1>3, SumSteps DEF T

LEMMA SumsExist ==
    ASSUME NEW n \in Nat, NEW f \in [1..n -> Normal], NEW g \in [1..n -> Normal]
    PROVE  \E h : AreSums(n, h, f, g)
<1>1. \A l \in 1..n : Plus(f[l], g[l]) \in Normal
  BY NormalTypes
<1>2. AreSums(n, [l \in 1..n |-> Plus(f[l], g[l])], f, g)
  BY <1>1 DEF AreSums
<1> QED BY <1>2

LEMMA MultiplesExist ==
    ASSUME NEW n \in Nat, NEW f \in [1..n -> Normal], NEW z \in Normal
    PROVE  \E h : AreMultiples(n, h, z, f)
<1>1. \A l \in 1..n : Times(z, f[l]) \in Normal
  BY NormalTypes
<1>2. AreMultiples(n, [l \in 1..n |-> Times(z, f[l])], z, f)
  BY <1>1 DEF AreMultiples
<1> QED BY <1>2

\* The sum a projection is.
AreProducts(n, f, a, v) ==
    /\ a \in [1..n -> Normal] /\ v \in [1..n -> Normal]
    /\ f = [l \in 1..n |-> Times(a[l], v[l])]

LEMMA ProjectSum ==
    ASSUME NEW n \in Nat, NEW f, NEW a, NEW v, AreProducts(n, f, a, v)
    PROVE  /\ f \in [1..n -> Normal] /\ Project(a, v) = SumOf(f) /\ Project(a, v) \in Normal
           /\ \A l \in 1..n : f[l] = Times(a[l], v[l])
<1>1. f \in [1..n -> Normal] /\ \A l \in 1..n : f[l] = Times(a[l], v[l])
  BY NormalTypes DEF AreProducts
<1>2. Project(a, v) = SumOf(f)
  BY DEF Project, AreProducts
<1> QED BY <1>1, <1>2, SumNormal

\* Sums that differ in one term.
LEMMA SumChange ==
    ASSUME NEW n \in Nat, NEW f \in [1..n -> Normal], NEW g \in [1..n -> Normal], NEW c \in 1..n,
           \A l \in 1..n : l # c => f[l] = g[l]
    PROVE  Plus(SumOf(f), g[c]) = Plus(SumOf(g), f[c])
<1> DEFINE T == {k \in 0..n : IF k < c THEN SumTo(f, k) = SumTo(g, k)
                              ELSE Plus(SumTo(f, k), g[c]) = Plus(SumTo(g, k), f[c])}
<1>1. 0 \in T
  BY SumSteps
<1>2. ASSUME NEW k \in 1..n, k - 1 \in T PROVE k \in T
  <2>1. /\ SumTo(f, k) = Plus(SumTo(f, k - 1), f[k])
        /\ SumTo(g, k) = Plus(SumTo(g, k - 1), g[k])
        /\ SumTo(f, k - 1) \in Normal /\ SumTo(g, k - 1) \in Normal
    BY SumSteps
  <2>2. f[k] \in Normal /\ g[k] \in Normal /\ f[c] \in Normal /\ g[c] \in Normal
    OBVIOUS
  <2>3. k # c => f[k] = g[k]
    OBVIOUS
  <2>4. CASE k < c
    <3>1. SumTo(f, k - 1) = SumTo(g, k - 1)
      BY <1>2, <2>4
    <3> QED BY <2>1, <2>3, <2>4, <3>1
  <2>5. CASE k = c
    <3>1. SumTo(f, k - 1) = SumTo(g, k - 1)
      BY <1>2, <2>5
    <3>2. Plus(SumTo(f, k), g[c]) = Plus(SumTo(g, k), f[c])
      BY <2>1, <2>2, <2>5, <3>1, PlusOrder
    <3> QED BY <2>5, <3>2
  <2>6. CASE k > c
    <3>1. Plus(SumTo(f, k - 1), g[c]) = Plus(SumTo(g, k - 1), f[c])
      BY <1>2, <2>6
    <3>2. f[k] = g[k]
      BY <2>3, <2>6
    <3>3. Plus(SumTo(f, k), g[c]) = Plus(Plus(SumTo(f, k - 1), g[c]), f[k])
      BY <2>1, <2>2, PlusOrder
    <3>4. Plus(SumTo(g, k), f[c]) = Plus(Plus(SumTo(g, k - 1), f[c]), g[k])
      BY <2>1, <2>2, PlusOrder
    <3>5. Plus(SumTo(f, k), g[c]) = Plus(SumTo(g, k), f[c])
      BY <3>1, <3>2, <3>3, <3>4
    <3> QED BY <2>6, <3>5
  <2> QED BY <2>4, <2>5, <2>6
<1> HIDE DEF T
<1>3. n \in T
  BY <1>1, <1>2, Reaches
<1> QED BY <1>3, SumSteps DEF T

Neg(x) == Times(<<-1, 1>>, x)

LEMMA NegLaws ==
    ASSUME NEW x \in Normal, NEW y \in Normal
    PROVE  /\ Neg(x) \in Normal /\ Plus(x, Neg(x)) = Zero /\ Plus(Neg(x), x) = Zero
           /\ Times(x, Neg(y)) = Neg(Times(x, y))
           /\ Plus(x, Neg(y)) = Minus(x, y)
<1>1. PICK w : w = <<-1, 1>>
  OBVIOUS
<1>2. w \in Normal /\ One \in Normal /\ Zero \in Normal /\ Neg(x) = Times(w, x) /\ Neg(y) = Times(w, y)
      /\ Neg(Times(x, y)) = Times(w, Times(x, y))
  BY <1>1, IntIsNormal, NormalIsRational DEF Neg
<1>3. Neg(x) \in Normal /\ Neg(y) \in Normal /\ Times(x, y) \in Normal /\ Minus(x, y) \in Normal
  BY <1>2, NormalTypes
<1>4. Plus(One, w) = Zero
  <2>1. Plus(One, w) \in Normal
    BY <1>2, NormalTypes
  <2>2. Same(One, 1, 1) /\ Same(w, -1, 1)
    BY <1>1, OneIsRational DEF Same, Rational
  <2>3. Same(Plus(One, w), 1 * 1 + (-1) * 1, 1 * 1)
    BY <2>2, SamePlus
  <2>4. 1 * 1 + (-1) * 1 = 0 /\ 1 * 1 = 1
    OBVIOUS
  <2>5. Same(Plus(One, w), 0, 1)
    BY <2>3, <2>4
  <2>6. Plus(One, w)[1] = 0
    <3>1. PICK a, b : a = Plus(One, w)[1] /\ b = Plus(One, w)[2]
      OBVIOUS
    <3>2. a \in Int /\ b \in Nat \ {0} /\ a * 1 = 0 * b
      BY <2>5, <3>1, SameParts
    <3> QED BY <3>1, <3>2
  <2> QED BY <2>1, <2>6, ZeroIsOne
<1>5. \A z \in Normal : Plus(z, Times(w, z)) = Zero /\ Plus(Times(w, z), z) = Zero
  <2> TAKE z \in Normal
  <2>1. Times(z, Plus(One, w)) = Plus(Times(z, One), Times(z, w)) /\ Times(z, One) = z /\ Times(z, w) = Times(w, z)
        /\ Times(z, Zero) = Zero /\ Times(w, z) \in Normal
    BY <1>2, TimesLaws, NormalTypes
  <2>2. Plus(z, Times(w, z)) = Plus(Times(w, z), z)
    BY <2>1, PlusLaws
  <2> QED BY <1>4, <2>1, <2>2
<1>6. Times(x, Neg(y)) = Neg(Times(x, y))
  <2>1. Times(x, Times(w, y)) = Times(Times(x, w), y) /\ Times(x, w) = Times(w, x)
        /\ Times(Times(w, x), y) = Times(w, Times(x, y))
    BY <1>2, TimesLaws
  <2> QED BY <1>2, <2>1
<1>7. Plus(x, Neg(y)) = Minus(x, y)
  <2>1. Plus(Plus(x, Neg(y)), y) = Plus(x, Plus(Neg(y), y)) /\ Plus(x, Zero) = x /\ Plus(Minus(x, y), y) = x
    BY <1>2, <1>3, PlusLaws
  <2>2. Plus(Neg(y), y) = Zero
    BY <1>2, <1>5
  <2>3. Plus(x, Neg(y)) \in Normal
    BY <1>3, NormalTypes
  <2> QED BY <1>3, <2>1, <2>2, <2>3, PlusCancel
<1> QED BY <1>2, <1>3, <1>5, <1>6, <1>7

-----------------------------------------------------------------------------
(* A turn of the inversion: the equations a x = y, with the unknowns and   *)
(* the right sides of the rows with a pivot in each other's place.         *)

Inputs(n, S, x, y) == [l \in 1..n |-> IF l \in S THEN Neg(y[l]) ELSE x[l]]
Holds(n, a, S, x, y) ==
    \A r \in 1..n : Project(a[r], Inputs(n, S, x, y)) = IF r \in S THEN Neg(x[r]) ELSE y[r]

\* The row and the matrix after the turn.
PivotRow(n, s, c) == [l \in 1..n |-> Over(IF l = c THEN One ELSE s[c][l], s[c][c])]
Eliminated(n, s, c) ==
    [r \in 1..n |->
        IF r = c THEN PivotRow(n, s, c)
        ELSE [l \in 1..n |-> Minus(IF l = c THEN Zero ELSE s[r][l], Times(PivotRow(n, s, c)[l], s[r][c]))]]

LEMMA InputsType ==
    ASSUME NEW n \in Nat, NEW S, NEW x \in [1..n -> Normal], NEW y \in [1..n -> Normal]
    PROVE  Inputs(n, S, x, y) \in [1..n -> Normal]
<1>1. \A l \in 1..n : x[l] \in Normal /\ Neg(y[l]) \in Normal
  BY NegLaws
<1> QED BY <1>1 DEF Inputs

LEMMA EliminatedType ==
    ASSUME NEW n \in Nat, NEW s, IsMatrix(s, n), NEW c \in 1..n, s[c][c] # Zero
    PROVE  /\ PivotRow(n, s, c) \in [1..n -> Normal]
           /\ IsMatrix(Eliminated(n, s, c), n)
<1>1. \A r, l \in 1..n : s[r][l] \in Normal
  BY DEF IsMatrix
<1>2. ASSUME NEW l \in 1..n PROVE Over(IF l = c THEN One ELSE s[c][l], s[c][c]) \in Normal
  <2>1. PICK x : x = IF l = c THEN One ELSE s[c][l]
    OBVIOUS
  <2>2. x \in Normal
    BY <1>1, <2>1, NormalIsRational
  <2>3. Over(x, s[c][c]) \in Normal
    BY <1>1, <2>2, NormalTypes
  <2> QED BY <2>1, <2>3
<1>3. PivotRow(n, s, c) \in [1..n -> Normal]
  BY <1>2 DEF PivotRow
<1>4. PICK row : row = PivotRow(n, s, c)
  OBVIOUS
<1>5. ASSUME NEW r \in 1..n, NEW l \in 1..n
      PROVE  Minus(IF l = c THEN Zero ELSE s[r][l], Times(row[l], s[r][c])) \in Normal
  <2>1. PICK x : x = IF l = c THEN Zero ELSE s[r][l]
    OBVIOUS
  <2>2. x \in Normal /\ row[l] \in Normal /\ s[r][c] \in Normal
    BY <1>1, <1>3, <1>4, <2>1, NormalIsRational
  <2>3. Minus(x, Times(row[l], s[r][c])) \in Normal
    BY <2>2, NormalTypes
  <2> QED BY <2>1, <2>3
<1>6. Eliminated(n, s, c) = [r \in 1..n |->
        IF r = c THEN row ELSE [l \in 1..n |-> Minus(IF l = c THEN Zero ELSE s[r][l], Times(row[l], s[r][c]))]]
  BY <1>4 DEF Eliminated
<1>7. IsMatrix(Eliminated(n, s, c), n)
  BY <1>3, <1>4, <1>5, <1>6 DEF IsMatrix
<1> QED BY <1>3, <1>7

\* The equation of the pivot's row, from the one after the turn.
LEMMA PivotRowBack ==
    ASSUME NEW n \in Nat, NEW s, IsMatrix(s, n), NEW S, NEW c \in 1..n, c \notin S, s[c][c] # Zero,
           NEW x \in [1..n -> Normal], NEW y \in [1..n -> Normal],
           Project(PivotRow(n, s, c), Inputs(n, S \cup {c}, x, y)) = Neg(x[c])
    PROVE  Project(s[c], Inputs(n, S, x, y)) = y[c]
<1>1. PICK row, v, w, d : /\ row = PivotRow(n, s, c) /\ v = Inputs(n, S, x, y)
                          /\ w = Inputs(n, S \cup {c}, x, y) /\ d = s[c][c]
  OBVIOUS
<1>2. /\ row \in [1..n -> Normal] /\ v \in [1..n -> Normal] /\ w \in [1..n -> Normal]
      /\ s[c] \in [1..n -> Normal] /\ d \in Normal /\ d # Zero
  BY <1>1, EliminatedType, InputsType DEF IsMatrix
<1>3. /\ v[c] = x[c] /\ w[c] = Neg(y[c]) /\ \A l \in 1..n : l # c => v[l] = w[l]
  BY <1>1 DEF Inputs
<1>4. /\ row[c] = Over(One, d) /\ \A l \in 1..n : l # c => row[l] = Over(s[c][l], d)
  BY <1>1 DEF PivotRow
<1>5. PICK f, e : f = [l \in 1..n |-> Times(s[c][l], v[l])] /\ e = [l \in 1..n |-> Times(row[l], w[l])]
  OBVIOUS
<1>6. /\ f \in [1..n -> Normal] /\ e \in [1..n -> Normal]
      /\ Project(s[c], v) = SumOf(f) /\ SumOf(e) = Neg(x[c]) /\ SumOf(f) \in Normal
      /\ \A l \in 1..n : f[l] = Times(s[c][l], v[l])
      /\ \A l \in 1..n : e[l] = Times(row[l], w[l])
  <2>1. AreProducts(n, f, s[c], v) /\ AreProducts(n, e, row, w)
    BY <1>2, <1>5 DEF AreProducts
  <2> QED BY <1>1, <2>1, ProjectSum
<1>7. PICK h : /\ h \in [1..n -> Normal] /\ \A l \in 1..n : h[l] = Times(d, e[l])
                /\ SumOf(h) = Times(d, Neg(x[c]))
  <2>1. PICK h : AreMultiples(n, h, d, e)
    BY <1>2, <1>6, MultiplesExist
  <2>2. SumOf(h) = Times(d, Neg(x[c]))
    BY <1>6, <2>1, SumTimes
  <2> QED BY <2>1, <2>2 DEF AreMultiples
<1>8. ASSUME NEW l \in 1..n, NEW t \in Normal, row[l] = Over(t, d) PROVE h[l] = Times(t, w[l])
  <2>1. w[l] \in Normal /\ Over(t, d) \in Normal
    BY <1>2, NormalTypes
  <2>2. /\ Times(d, Times(Over(t, d), w[l])) = Times(Times(d, Over(t, d)), w[l])
        /\ Times(d, Over(t, d)) = Times(Over(t, d), d)
    BY <1>2, <2>1, TimesLaws
  <2>3. Times(Over(t, d), d) = t
    BY <1>2, OverLaw
  <2>4. h[l] = Times(d, Times(Over(t, d), w[l]))
    BY <1>6, <1>7, <1>8
  <2> QED BY <2>2, <2>3, <2>4
<1>9. \A l \in 1..n : l # c => f[l] = h[l]
  <2> TAKE l \in 1..n
  <2> HAVE l # c
  <2>1. s[c][l] \in Normal /\ row[l] = Over(s[c][l], d) /\ v[l] = w[l]
    BY <1>2, <1>3, <1>4
  <2>2. h[l] = Times(s[c][l], w[l])
    BY <1>8, <2>1
  <2> QED BY <1>6, <2>1, <2>2
<1>10. x[c] \in Normal /\ y[c] \in Normal /\ Neg(x[c]) \in Normal /\ Neg(y[c]) \in Normal
  BY NegLaws
<1>11. f[c] = Times(d, x[c]) /\ h[c] = Neg(y[c])
  <2>1. f[c] = Times(d, x[c])
    BY <1>1, <1>3, <1>6
  <2>2. h[c] = Times(One, Neg(y[c]))
    BY <1>3, <1>4, <1>8, NormalIsRational
  <2>3. Times(One, Neg(y[c])) = Neg(y[c])
    <3>1. Times(One, Neg(y[c])) = Times(Neg(y[c]), One) /\ Times(Neg(y[c]), One) = Neg(y[c])
      BY <1>10, NormalIsRational, TimesLaws
    <3> QED BY <3>1
  <2> QED BY <2>1, <2>2, <2>3
<1>12. Plus(SumOf(f), Neg(y[c])) = Zero
  <2>1. Plus(SumOf(f), h[c]) = Plus(SumOf(h), f[c])
    BY <1>6, <1>7, <1>9, SumChange
  <2>2. Plus(Times(d, Neg(x[c])), Times(d, x[c])) = Times(d, Plus(Neg(x[c]), x[c]))
    BY <1>2, <1>10, TimesLaws
  <2>3. Plus(Neg(x[c]), x[c]) = Zero /\ Times(d, Zero) = Zero
    BY <1>2, <1>10, NegLaws, TimesLaws
  <2> QED BY <1>7, <1>11, <2>1, <2>2, <2>3
<1>13. Plus(y[c], Neg(y[c])) = Zero
  BY <1>10, NegLaws
<1>14. SumOf(f) = y[c]
  BY <1>6, <1>10, <1>12, <1>13, PlusCancel
<1> QED BY <1>1, <1>6, <1>14

\* The equation of another row, from those of both after the turn.
OtherRow(n, s, S, c, x, y, r, right) ==
    /\ n \in Nat /\ IsMatrix(s, n) /\ c \in 1..n /\ c \notin S /\ s[c][c] # Zero
    /\ x \in [1..n -> Normal] /\ y \in [1..n -> Normal]
    /\ Project(PivotRow(n, s, c), Inputs(n, S \cup {c}, x, y)) = Neg(x[c])
    /\ r \in 1..n /\ r # c /\ right \in Normal
    /\ Project(Eliminated(n, s, c)[r], Inputs(n, S \cup {c}, x, y)) = right

LEMMA OtherRowBack ==
    ASSUME NEW n, NEW s, NEW S, NEW c, NEW x, NEW y, NEW r, NEW right, OtherRow(n, s, S, c, x, y, r, right)
    PROVE  Project(s[r], Inputs(n, S, x, y)) = right
<1> USE DEF OtherRow
<1>1. PICK row, after, v, w, q : /\ row = PivotRow(n, s, c) /\ after = Eliminated(n, s, c)[r]
                                 /\ v = Inputs(n, S, x, y) /\ w = Inputs(n, S \cup {c}, x, y) /\ q = s[r][c]
  OBVIOUS
<1>2. /\ row \in [1..n -> Normal] /\ v \in [1..n -> Normal] /\ w \in [1..n -> Normal]
      /\ s[r] \in [1..n -> Normal] /\ q \in Normal /\ after \in [1..n -> Normal]
  <2>1. IsMatrix(Eliminated(n, s, c), n) /\ row \in [1..n -> Normal]
    BY <1>1, EliminatedType
  <2>2. after \in [1..n -> Normal] /\ s[r] \in [1..n -> Normal] /\ q \in Normal
    BY <1>1, <2>1 DEF IsMatrix
  <2> QED BY <1>1, <2>1, <2>2, InputsType
<1>3. /\ v[c] = x[c] /\ \A l \in 1..n : l # c => v[l] = w[l]
  BY <1>1 DEF Inputs
<1>4. \A l \in 1..n : after[l] = Minus(IF l = c THEN Zero ELSE s[r][l], Times(row[l], q))
  <2>1. after = [l \in 1..n |-> Minus(IF l = c THEN Zero ELSE s[r][l], Times(row[l], q))]
    BY <1>1 DEF Eliminated
  <2> QED BY <2>1
<1>5. PICK f, e, t : /\ f = [l \in 1..n |-> Times(s[r][l], v[l])]
                     /\ e = [l \in 1..n |-> Times(row[l], w[l])]
                     /\ t = [l \in 1..n |-> Times(after[l], w[l])]
  OBVIOUS
<1>6. /\ f \in [1..n -> Normal] /\ e \in [1..n -> Normal] /\ t \in [1..n -> Normal]
      /\ Project(s[r], v) = SumOf(f) /\ SumOf(e) = Neg(x[c]) /\ SumOf(t) = right /\ SumOf(f) \in Normal
      /\ \A l \in 1..n : f[l] = Times(s[r][l], v[l])
      /\ \A l \in 1..n : e[l] = Times(row[l], w[l])
      /\ \A l \in 1..n : t[l] = Times(after[l], w[l])
  <2>1. AreProducts(n, f, s[r], v) /\ AreProducts(n, e, row, w) /\ AreProducts(n, t, after, w)
    BY <1>2, <1>5 DEF AreProducts
  <2>2. /\ f \in [1..n -> Normal] /\ Project(s[r], v) = SumOf(f) /\ Project(s[r], v) \in Normal
        /\ \A l \in 1..n : f[l] = Times(s[r][l], v[l])
    BY <2>1, ProjectSum
  <2>3. /\ e \in [1..n -> Normal] /\ Project(row, w) = SumOf(e)
        /\ \A l \in 1..n : e[l] = Times(row[l], w[l])
    BY <2>1, ProjectSum
  <2>4. /\ t \in [1..n -> Normal] /\ Project(after, w) = SumOf(t)
        /\ \A l \in 1..n : t[l] = Times(after[l], w[l])
    BY <2>1, ProjectSum
  <2> QED BY <1>1, <2>2, <2>3, <2>4
<1>7. PICK m : /\ m \in [1..n -> Normal] /\ \A l \in 1..n : m[l] = Times(q, e[l])
               /\ SumOf(m) = Times(q, Neg(x[c]))
  <2>1. PICK m : AreMultiples(n, m, q, e)
    BY <1>2, <1>6, MultiplesExist
  <2>2. SumOf(m) = Times(q, Neg(x[c]))
    BY <1>6, <2>1, SumTimes
  <2> QED BY <2>1, <2>2 DEF AreMultiples
<1>8. PICK h : /\ h \in [1..n -> Normal] /\ \A l \in 1..n : h[l] = Plus(t[l], m[l])
               /\ SumOf(h) = Plus(right, Times(q, Neg(x[c])))
  <2>1. PICK h : AreSums(n, h, t, m)
    BY <1>6, <1>7, SumsExist
  <2>2. SumOf(h) = Plus(right, Times(q, Neg(x[c])))
    BY <1>6, <1>7, <2>1, SumPlus
  <2> QED BY <2>1, <2>2 DEF AreSums
<1>9. ASSUME NEW l \in 1..n, NEW u \in Normal, after[l] = Minus(u, Times(row[l], q)) PROVE h[l] = Times(u, w[l])
  <2>1. PICK a, b \in Normal : a = row[l] /\ b = w[l]
    BY <1>2
  <2>2. Times(a, q) \in Normal /\ Times(a, b) \in Normal /\ Minus(u, Times(a, q)) \in Normal
        /\ Times(b, u) \in Normal /\ Times(b, Times(a, q)) \in Normal
    BY <1>2, NormalTypes
  <2>3. Times(Minus(u, Times(a, q)), b) = Minus(Times(b, u), Times(b, Times(a, q)))
    <3>1. Times(Minus(u, Times(a, q)), b) = Times(b, Minus(u, Times(a, q)))
      BY <2>2, TimesLaws
    <3> QED BY <2>2, <3>1, TimesLaws
  <2>4. Times(q, Times(a, b)) = Times(b, Times(a, q))
    <3>1. Times(q, Times(a, b)) = Times(Times(a, b), q) /\ Times(a, b) = Times(b, a)
          /\ Times(Times(b, a), q) = Times(b, Times(a, q))
      BY <1>2, <2>2, TimesLaws
    <3> QED BY <3>1
  <2>5. Plus(Minus(Times(b, u), Times(b, Times(a, q))), Times(b, Times(a, q))) = Times(b, u)
    BY <2>2, PlusLaws
  <2>6. Times(b, u) = Times(u, b)
    BY TimesLaws
  <2>7. h[l] = Plus(Times(Minus(u, Times(a, q)), b), Times(q, Times(a, b)))
    BY <1>6, <1>7, <1>8, <1>9, <2>1
  <2> QED BY <2>1, <2>3, <2>4, <2>5, <2>6, <2>7
<1>10. \A l \in 1..n : l # c => f[l] = h[l]
  <2> TAKE l \in 1..n
  <2> HAVE l # c
  <2>1. s[r][l] \in Normal /\ after[l] = Minus(s[r][l], Times(row[l], q)) /\ v[l] = w[l]
    BY <1>2, <1>3, <1>4
  <2>2. h[l] = Times(s[r][l], w[l])
    BY <1>9, <2>1
  <2> QED BY <1>6, <2>1, <2>2
<1>11. x[c] \in Normal /\ Neg(x[c]) \in Normal /\ Zero \in Normal /\ w[c] \in Normal
  BY <1>2, NegLaws, NormalIsRational
<1>12. f[c] = Times(q, x[c]) /\ h[c] = Zero
  <2>1. f[c] = Times(q, x[c])
    BY <1>1, <1>3, <1>6
  <2>2. h[c] = Times(Zero, w[c])
    BY <1>4, <1>9, <1>11
  <2>3. Times(Zero, w[c]) = Times(w[c], Zero) /\ Times(w[c], Zero) = Zero
    BY <1>11, TimesLaws
  <2> QED BY <2>1, <2>2, <2>3
<1>13. SumOf(f) = right
  <2>1. Plus(SumOf(f), h[c]) = Plus(SumOf(h), f[c])
    BY <1>6, <1>8, <1>10, SumChange
  <2>2. Times(q, Neg(x[c])) \in Normal /\ Times(q, x[c]) \in Normal
    BY <1>2, <1>11, NormalTypes
  <2>3. Plus(Plus(right, Times(q, Neg(x[c]))), Times(q, x[c])) = Plus(right, Plus(Times(q, Neg(x[c])), Times(q, x[c])))
    BY <2>2, PlusLaws
  <2>4. Plus(Times(q, Neg(x[c])), Times(q, x[c])) = Times(q, Plus(Neg(x[c]), x[c]))
    BY <1>2, <1>11, TimesLaws
  <2>5. Plus(Neg(x[c]), x[c]) = Zero /\ Times(q, Zero) = Zero
    BY <1>2, <1>11, NegLaws, TimesLaws
  <2>6. Plus(right, Zero) = right /\ Plus(SumOf(f), Zero) = SumOf(f)
    BY <1>6, <1>11, PlusLaws
  <2> QED BY <1>8, <1>12, <2>1, <2>3, <2>4, <2>5, <2>6
<1> QED BY <1>1, <1>6, <1>13

\* The equations before the elimination, from those after it.
LEMMA TurnBack ==
    ASSUME NEW n \in Nat, NEW s, IsMatrix(s, n), NEW S, NEW c \in 1..n, c \notin S, s[c][c] # Zero,
           NEW x \in [1..n -> Normal], NEW y \in [1..n -> Normal],
           Holds(n, Eliminated(n, s, c), S \cup {c}, x, y)
    PROVE  Holds(n, s, S, x, y)
<1>1. PICK after, w : after = Eliminated(n, s, c) /\ w = Inputs(n, S \cup {c}, x, y)
  OBVIOUS
<1>2. \A r \in 1..n : Project(after[r], w) = IF r \in S \cup {c} THEN Neg(x[r]) ELSE y[r]
  BY <1>1 DEF Holds
<1>3. Project(PivotRow(n, s, c), w) = Neg(x[c])
  <2>1. after[c] = PivotRow(n, s, c)
    BY <1>1 DEF Eliminated
  <2> QED BY <1>2, <2>1
<1>4. ASSUME NEW r \in 1..n
      PROVE  Project(s[r], Inputs(n, S, x, y)) = IF r \in S THEN Neg(x[r]) ELSE y[r]
  <2>1. CASE r = c
    <3>1. Project(s[c], Inputs(n, S, x, y)) = y[c]
      BY <1>1, <1>3, PivotRowBack
    <3> QED BY <2>1, <3>1
  <2>2. CASE r # c
    <3>1. PICK right : right = IF r \in S THEN Neg(x[r]) ELSE y[r]
      OBVIOUS
    <3>2. x[r] \in Normal /\ y[r] \in Normal
      OBVIOUS
    <3>3. right \in Normal
      BY <3>1, <3>2, NegLaws
    <3>4. Project(after[r], w) = right
      BY <1>2, <2>2, <3>1
    <3>5. Project(s[r], Inputs(n, S, x, y)) = right
      <4>1. OtherRow(n, s, S, c, x, y, r, right)
        BY <1>1, <1>3, <2>2, <3>3, <3>4 DEF OtherRow
      <4> QED BY <4>1, OtherRowBack
    <3> QED BY <3>1, <3>5
  <2> QED BY <2>1, <2>2
<1> QED BY <1>4 DEF Holds

LEMMA SwappedAt ==
    ASSUME NEW n, NEW T, NEW a \in [1..n -> T], NEW i \in 1..n, NEW j \in 1..n
    PROVE  /\ Swapped(a, i, j) \in [1..n -> T]
           /\ Swapped(a, i, j)[i] = a[j] /\ Swapped(a, i, j)[j] = a[i]
           /\ \A l \in 1..n : l # i /\ l # j => Swapped(a, i, j)[l] = a[l]
           /\ Swapped(Swapped(a, i, j), i, j) = a
BY DEF Swapped

\* The equations before two rows without a pivot are exchanged, from those after it.
LEMMA RowsBack ==
    ASSUME NEW n \in Nat, NEW a, IsMatrix(a, n), NEW S, NEW i \in 1..n, i \notin S, NEW c \in 1..n, c \notin S,
           NEW x \in [1..n -> Normal], NEW y \in [1..n -> Normal],
           Holds(n, Swapped(a, i, c), S, x, Swapped(y, i, c))
    PROVE  Holds(n, a, S, x, y)
<1>1. PICK s, z, v : s = Swapped(a, i, c) /\ z = Swapped(y, i, c) /\ v = Inputs(n, S, x, z)
  OBVIOUS
<1>2. /\ s[i] = a[c] /\ s[c] = a[i] /\ \A l \in 1..n : l # i /\ l # c => s[l] = a[l]
  <2>1. a \in [1..n -> [1..n -> Normal]]
    BY DEF IsMatrix
  <2> QED BY <1>1, <2>1 DEF Swapped
<1>3. /\ z[i] = y[c] /\ z[c] = y[i] /\ \A l \in 1..n : l # i /\ l # c => z[l] = y[l]
  BY <1>1 DEF Swapped
<1>4. v = Inputs(n, S, x, y)
  <2>1. \A l \in S : l \in 1..n => z[l] = y[l]
    BY <1>3
  <2> QED BY <1>1, <2>1 DEF Inputs
<1>5. \A r \in 1..n : Project(s[r], v) = IF r \in S THEN Neg(x[r]) ELSE z[r]
  BY <1>1 DEF Holds
<1>6. ASSUME NEW r \in 1..n PROVE Project(a[r], v) = IF r \in S THEN Neg(x[r]) ELSE y[r]
  <2>1. CASE r = i
    BY <1>2, <1>3, <1>5, <2>1
  <2>2. CASE r = c
    BY <1>2, <1>3, <1>5, <2>2
  <2>3. CASE r # i /\ r # c
    BY <1>2, <1>3, <1>5, <2>3
  <2> QED BY <2>1, <2>2, <2>3
<1> QED BY <1>4, <1>6 DEF Holds

\* The right sides in the order the exchanges leave them in.
Reordered(y, p) == Swapped(y, p[1], p[2])
IsOrderOf(n, y, k) == y \in [1..n -> Normal]
Orders == INSTANCE FoldFacts WITH Op <- Reordered, P <- IsOrderOf

LEMMA OrdersType ==
    ASSUME NEW n \in Nat, NEW swaps \in Seq((1..n) \X (1..n)), NEW y \in [1..n -> Normal]
    PROVE  Orders!Fold(y, swaps) \in [1..n -> Normal]
<1>1. IsOrderOf(n, y, 0)
  BY DEF IsOrderOf
<1>2. ASSUME NEW k \in 1..Len(swaps), NEW v, IsOrderOf(n, v, k - 1) PROVE IsOrderOf(n, Reordered(v, swaps[k]), k)
  <2>1. PICK p : p = swaps[k]
    OBVIOUS
  <2>2. p \in (1..n) \X (1..n)
    BY <2>1
  <2>3. p[1] \in 1..n /\ p[2] \in 1..n
    BY <2>2
  <2>4. Swapped(v, p[1], p[2]) \in [1..n -> Normal]
    BY <1>2, <2>3, SwappedType DEF IsOrderOf
  <2> QED BY <2>1, <2>4 DEF IsOrderOf, Reordered
<1>3. IsOrderOf(n, Orders!Fold(y, swaps), Len(swaps))
  BY <1>1, <1>2, Orders!FoldKeeps
<1> QED BY <1>3 DEF IsOrderOf

\* What a turn does when there is a pivot.
Turned(n, m, e) ==
    \E i, c \in (1..n) \ m.ipiv : \E s :
      /\ s = Swapped(m.a, i, c) /\ IsMatrix(s, n)
      /\ \/ e.singular
         \/ /\ s[c][c] # Zero
            /\ e = [a |-> Eliminated(n, s, c), ipiv |-> m.ipiv \cup {c},
                    swaps |-> Append(m.swaps, <<i, c>>), singular |-> FALSE]

LEMMA EliminateIs ==
    ASSUME NEW n \in Nat, NEW k \in 1..n, NEW m, IsInversion(n, m, k - 1), ~m.singular, NEW turn
    PROVE  Turned(n, m, Eliminate(m, turn))
<1>1. PICK p : p = Pivot(m.a, m.ipiv)
  OBVIOUS
<1>2. /\ IsMatrix(m.a, n) /\ m.ipiv \in SUBSET (1..n) /\ Cardinality(m.ipiv) = k - 1
      /\ DOMAIN m = {"a", "ipiv", "swaps", "singular"}
  BY DEF IsInversion
<1>3. PICK i, c \in (1..n) \ m.ipiv : p = <<i, c>>
  <2>1. p \in ((1..n) \ m.ipiv) \X ((1..n) \ m.ipiv)
    BY <1>1, <1>2, PivotType
  <2> QED BY <2>1
<1>4. PICK s : s = Swapped(m.a, i, c)
  OBVIOUS
<1>5. IsMatrix(s, n) /\ DOMAIN s = 1..n
  <2>1. s \in [1..n -> [1..n -> Normal]]
    BY <1>2, <1>4, SwappedType DEF IsMatrix
  <2> QED BY <2>1 DEF IsMatrix
<1>6. Eliminate(m, turn) = IF s[c][c] = Zero THEN [m EXCEPT !.singular = TRUE]
                           ELSE [a |-> Eliminated(n, s, c), ipiv |-> m.ipiv \cup {c},
                                 swaps |-> Append(m.swaps, <<i, c>>), singular |-> FALSE]
  <2> DEFINE row == [l \in 1..n |-> Over(IF l = c THEN One ELSE s[c][l], s[c][c])]
             after == [r \in 1..n |->
                         IF r = c THEN row
                         ELSE [l \in 1..n |-> Minus(IF l = c THEN Zero ELSE s[r][l], Times(row[l], s[r][c]))]]
  <2>1. Swapped(m.a, p[1], p[2]) = s /\ p[2] = c
    BY <1>3, <1>4
  <2>2. Eliminate(m, turn) = IF s[c][c] = Zero THEN [m EXCEPT !.singular = TRUE]
                             ELSE [a |-> after, ipiv |-> m.ipiv \cup {c},
                                   swaps |-> Append(m.swaps, p), singular |-> FALSE]
    BY <1>1, <1>5, <2>1 DEF Eliminate
  <2>3. after = Eliminated(n, s, c)
    BY DEF Eliminated, PivotRow
  <2> HIDE DEF after
  <2> QED BY <1>3, <2>2, <2>3
<1>7. [m EXCEPT !.singular = TRUE].singular = TRUE
  BY <1>2
<1>8. CASE s[c][c] = Zero
  BY <1>4, <1>5, <1>6, <1>7, <1>8 DEF Turned
<1>9. CASE s[c][c] # Zero
  BY <1>4, <1>5, <1>6, <1>9 DEF Turned
<1> QED BY <1>8, <1>9

\* What the inversion keeps: the equations of the matrix it began with follow from those of
\* the one it has, with the right sides in the order of the exchanges.
IsSolved(given, m, k) ==
    /\ IsInversion(given[1], m, k)
    /\ ~m.singular =>
         \A x, y \in [1..given[1] -> Normal] :
             Holds(given[1], m.a, m.ipiv, x, Orders!Fold(y, m.swaps)) => Holds(given[1], given[2], {}, x, y)
Solutions == INSTANCE FoldFacts WITH Op <- Eliminate, P <- IsSolved

LEMMA SolutionsFold ==
    ASSUME NEW s, NEW base
    PROVE  FoldLeft(Eliminate, base, s) = Solutions!Fold(base, s)
BY DEF FoldLeft, Solutions!Fold, MapThenFoldSet, Max, Solutions!Greatest

LEMMA EliminateSolves ==
    ASSUME NEW n \in Nat, NEW a, NEW k \in 1..n, NEW m, IsSolved(<<n, a>>, m, k - 1), NEW turn
    PROVE  IsSolved(<<n, a>>, Eliminate(m, turn), k)
<1>1. IsInversion(n, m, k - 1)
  BY DEF IsSolved
<1>2. IsInversion(n, Eliminate(m, turn), k)
  BY <1>1, EliminateKeeps
<1>3. SUFFICES ASSUME ~Eliminate(m, turn).singular,
                      NEW x \in [1..n -> Normal], NEW y \in [1..n -> Normal],
                      Holds(n, Eliminate(m, turn).a, Eliminate(m, turn).ipiv, x,
                            Orders!Fold(y, Eliminate(m, turn).swaps))
               PROVE  Holds(n, a, {}, x, y)
  BY <1>2 DEF IsSolved
<1>4. ~m.singular
  <2>1. m.singular => Eliminate(m, turn) = m
    BY DEF Eliminate
  <2> QED BY <1>3, <2>1
<1>5. /\ m.swaps \in Seq((1..n) \X (1..n)) /\ IsMatrix(m.a, n)
  BY <1>1 DEF IsInversion
<1>6. PICK i, c, s :
         /\ i \in (1..n) \ m.ipiv /\ c \in (1..n) \ m.ipiv /\ s = Swapped(m.a, i, c) /\ IsMatrix(s, n)
         /\ s[c][c] # Zero
         /\ Eliminate(m, turn) = [a |-> Eliminated(n, s, c), ipiv |-> m.ipiv \cup {c},
                                  swaps |-> Append(m.swaps, <<i, c>>), singular |-> FALSE]
  <2>1. Turned(n, m, Eliminate(m, turn))
    BY <1>1, <1>4, EliminateIs
  <2> QED BY <1>3, <2>1 DEF Turned
<1>7. PICK z : z = Orders!Fold(y, m.swaps)
  OBVIOUS
<1>8. z \in [1..n -> Normal]
  BY <1>5, <1>7, OrdersType
<1>9. Orders!Fold(y, Append(m.swaps, <<i, c>>)) = Swapped(z, i, c)
  <2>1. PICK p : p = <<i, c>>
    OBVIOUS
  <2>2. p \in (1..n) \X (1..n) /\ p[1] = i /\ p[2] = c
    <3>1. i \in 1..n /\ c \in 1..n
      BY <1>6
    <3> QED BY <2>1, <3>1
  <2>3. Orders!Fold(y, Append(m.swaps, p)) = Reordered(z, p)
    BY <1>5, <1>7, <2>2, Orders!FoldOne
  <2> QED BY <2>1, <2>2, <2>3 DEF Reordered
<1>10. Holds(n, Eliminated(n, s, c), m.ipiv \cup {c}, x, Swapped(z, i, c))
  BY <1>3, <1>6, <1>9
<1>11. Swapped(z, i, c) \in [1..n -> Normal]
  <2>1. i \in 1..n /\ c \in 1..n
    BY <1>6
  <2> QED BY <1>8, <2>1, SwappedType
<1>12. Holds(n, s, m.ipiv, x, Swapped(z, i, c))
  BY <1>6, <1>10, <1>11, TurnBack
<1>13. Holds(n, m.a, m.ipiv, x, z)
  BY <1>5, <1>6, <1>8, <1>12, RowsBack
<1> QED BY <1>4, <1>7, <1>13 DEF IsSolved

\* Terms exchanged do not change a sum.
LEMMA SumSwapped ==
    ASSUME NEW n \in Nat, NEW f \in [1..n -> Normal], NEW i \in 1..n, NEW j \in 1..n
    PROVE  SumOf(Swapped(f, i, j)) = SumOf(f)
<1>1. CASE i = j
  <2>1. Swapped(f, i, j) = f
    BY <1>1 DEF Swapped
  <2> QED BY <2>1
<1>2. CASE i # j
  <2>1. PICK g, h : g = [f EXCEPT ![i] = f[j]] /\ h = Swapped(f, i, j)
    OBVIOUS
  <2>2. /\ g \in [1..n -> Normal] /\ g[i] = f[j] /\ g[j] = f[j]
        /\ \A l \in 1..n : l # i => f[l] = g[l]
    BY <1>2, <2>1
  <2>3. /\ h \in [1..n -> Normal] /\ h[j] = f[i]
        /\ \A l \in 1..n : l # j => g[l] = h[l]
    BY <1>2, <2>1 DEF Swapped
  <2>4. Plus(SumOf(f), g[i]) = Plus(SumOf(g), f[i])
    BY <2>2, SumChange
  <2>5. Plus(SumOf(g), h[j]) = Plus(SumOf(h), g[j])
    BY <2>2, <2>3, SumChange
  <2>6. Plus(SumOf(f), f[j]) = Plus(SumOf(h), f[j])
    BY <2>2, <2>3, <2>4, <2>5
  <2>7. SumOf(f) \in Normal /\ SumOf(h) \in Normal /\ f[j] \in Normal
    BY <2>3, SumNormal
  <2>8. SumOf(f) = SumOf(h)
    BY <2>6, <2>7, PlusCancel
  <2> QED BY <2>1, <2>8
<1> QED BY <1>1, <1>2

LEMMA ProjectSwapped ==
    ASSUME NEW n \in Nat, NEW a \in [1..n -> Normal], NEW y \in [1..n -> Normal], NEW i \in 1..n, NEW j \in 1..n
    PROVE  Project(Swapped(a, i, j), y) = Project(a, Swapped(y, i, j))
<1>1. PICK b, z : b = Swapped(a, i, j) /\ z = Swapped(y, i, j)
  OBVIOUS
<1>2. b \in [1..n -> Normal] /\ z \in [1..n -> Normal]
  BY <1>1, SwappedType
<1>3. PICK f, g : f = [l \in 1..n |-> Times(b[l], y[l])] /\ g = [l \in 1..n |-> Times(a[l], z[l])]
  OBVIOUS
<1>4. AreProducts(n, f, b, y) /\ AreProducts(n, g, a, z)
  BY <1>2, <1>3 DEF AreProducts
<1>5. Project(b, y) = SumOf(f) /\ f \in [1..n -> Normal]
  BY <1>4, ProjectSum
<1>6. Project(a, z) = SumOf(g) /\ g \in [1..n -> Normal]
  BY <1>4, ProjectSum
<1>7. f = Swapped(g, i, j)
  <2>1. \A l \in 1..n : f[l] = Swapped(g, i, j)[l]
    BY <1>1, <1>3 DEF Swapped
  <2>2. Swapped(g, i, j) \in [1..n -> Normal]
    BY <1>6, SwappedType
  <2> QED BY <1>5, <2>1, <2>2
<1>8. SumOf(f) = SumOf(g)
  BY <1>6, <1>7, SumSwapped
<1> QED BY <1>1, <1>5, <1>6, <1>8

\* Columns exchanged backwards multiply with the right sides as the exchanges left them.
LEMMA ColumnsBack ==
    ASSUME NEW n \in Nat, NEW a, IsMatrix(a, n), NEW swaps \in Seq((1..n) \X (1..n)),
           NEW y \in [1..n -> Normal], NEW r \in 1..n
    PROVE  Project(Exchanges!Fold(a, Reverse(swaps))[r], y) = Project(a[r], Orders!Fold(y, swaps))
<1>1. PICK back, n0 : back = Reverse(swaps) /\ n0 = Len(swaps)
  OBVIOUS
<1>2. n0 \in Nat /\ back \in Seq((1..n) \X (1..n)) /\ Len(back) = n0
      /\ \A k \in 1..n0 : back[k] = swaps[(n0 - k) + 1]
  <2>1. back = [k \in 1..n0 |-> swaps[(n0 - k) + 1]]
    BY <1>1 DEF Reverse
  <2>2. n0 \in Nat /\ \A k \in 1..n0 : swaps[(n0 - k) + 1] \in (1..n) \X (1..n)
    BY <1>1
  <2> QED BY <2>1, <2>2
<1>3. PICK h : Exchanges!Leads(h, a, back)
  BY <1>2, Exchanges!FoldSteps
<1>4. PICK z : Orders!Leads(z, y, swaps)
  BY Orders!FoldSteps
<1>5. /\ h[0] = a /\ h[n0] = Exchanges!Fold(a, back)
      /\ \A k \in 1..n0 : h[k] = ColumnsSwapped(h[k - 1], back[k])
      /\ z[0] = y /\ z[n0] = Orders!Fold(y, swaps)
      /\ \A k \in 1..n0 : z[k] = Swapped(z[k - 1], swaps[k][1], swaps[k][2])
  BY <1>1, <1>2, <1>3, <1>4 DEF Exchanges!Leads, Orders!Leads, Reordered
<1>6. \A k \in 1..n0 : swaps[k][1] \in 1..n /\ swaps[k][2] \in 1..n
  <2> TAKE k \in 1..n0
  <2>1. swaps[k] \in (1..n) \X (1..n)
    BY <1>1
  <2> QED BY <2>1
<1>7. ASSUME NEW k \in 0..n0 PROVE z[k] \in [1..n -> Normal]
  <2> DEFINE T == {l \in 0..n0 : z[l] \in [1..n -> Normal]}
  <2>1. 0 \in T
    BY <1>2, <1>5
  <2>2. ASSUME NEW l \in 1..k, l - 1 \in T PROVE l \in T
    <3>1. l \in 1..n0 /\ l \in 0..n0
      BY <1>2
    <3>2. z[l - 1] \in [1..n -> Normal] /\ z[l] = Swapped(z[l - 1], swaps[l][1], swaps[l][2])
      BY <1>5, <2>2, <3>1
    <3>3. z[l] \in [1..n -> Normal]
      <4>1. PICK i, j \in 1..n : i = swaps[l][1] /\ j = swaps[l][2]
        BY <1>6, <3>1
      <4>2. Swapped(z[l - 1], i, j) \in [1..n -> Normal]
        BY <3>2, SwappedType
      <4> QED BY <3>2, <4>1, <4>2
    <3> QED BY <3>1, <3>3
  <2> HIDE DEF T
  <2>3. k \in T
    BY <1>2, <2>1, <2>2, Reaches
  <2> QED BY <2>3 DEF T
<1> DEFINE T == {k \in 0..n0 : IsMatrix(h[k], n) /\ Project(h[k][r], z[n0 - k]) = Project(a[r], z[n0])}
<1>8. 0 \in T
  BY <1>2, <1>5
<1>9. ASSUME NEW k \in 1..n0, k - 1 \in T PROVE k \in T
  <2>1. PICK l, b : l = (n0 - k) + 1 /\ b = h[k - 1]
    OBVIOUS
  <2>2. l \in 1..n0 /\ l - 1 = n0 - k /\ n0 - (k - 1) = l /\ l - 1 \in 0..n0 /\ k \in 0..n0
    BY <1>2, <2>1
  <2>3. PICK i, j \in 1..n : i = swaps[l][1] /\ j = swaps[l][2]
    BY <1>6, <2>2
  <2>4. IsMatrix(b, n) /\ Project(b[r], z[l]) = Project(a[r], z[n0])
    BY <1>9, <2>1, <2>2
  <2>5. h[k] = ColumnsSwapped(b, back[k]) /\ back[k] = swaps[l]
    BY <1>2, <1>5, <2>1
  <2>6. h[k] = [q \in 1..n |-> Swapped(b[q], i, j)]
    <3>1. DOMAIN b = 1..n
      BY <2>4 DEF IsMatrix
    <3> QED BY <2>3, <2>5, <3>1 DEF ColumnsSwapped
  <2>7. \A q \in 1..n : b[q] \in [1..n -> Normal]
    BY <2>4 DEF IsMatrix
  <2>8. IsMatrix(h[k], n)
    <3>1. \A q \in 1..n : Swapped(b[q], i, j) \in [1..n -> Normal]
      BY <2>7, SwappedType
    <3> QED BY <2>6, <3>1 DEF IsMatrix
  <2>9. z[l] = Swapped(z[l - 1], i, j) /\ z[l - 1] \in [1..n -> Normal]
    BY <1>5, <1>7, <2>2, <2>3
  <2>10. Project(Swapped(b[r], i, j), z[l - 1]) = Project(b[r], Swapped(z[l - 1], i, j))
    <3>1. PICK v, w : v = b[r] /\ w = z[l - 1]
      OBVIOUS
    <3>2. v \in [1..n -> Normal] /\ w \in [1..n -> Normal]
      BY <2>7, <2>9, <3>1
    <3>3. Project(Swapped(v, i, j), w) = Project(v, Swapped(w, i, j))
      BY <3>2, ProjectSwapped, SMTT(40)
    <3> QED BY <3>1, <3>3
  <2>11. h[k][r] = Swapped(b[r], i, j)
    BY <2>6
  <2>12. Project(h[k][r], z[n0 - k]) = Project(a[r], z[n0])
    BY <2>2, <2>4, <2>9, <2>10, <2>11
  <2> QED BY <2>2, <2>8, <2>12
<1> HIDE DEF T
<1>10. n0 \in T
  BY <1>2, <1>8, <1>9, Reaches
<1>11. n0 - n0 = 0
  BY <1>2
<1>12. Project(h[n0][r], z[0]) = Project(a[r], z[n0])
  BY <1>10, <1>11 DEF T
<1> QED BY <1>1, <1>5, <1>12

LEMMA ProjectTurned ==
    ASSUME NEW n \in Nat, NEW a \in [1..n -> Normal], NEW v \in [1..n -> Normal]
    PROVE  Project(a, v) = Project(v, a)
<1>1. PICK f : f = [l \in 1..n |-> Times(a[l], v[l])]
  OBVIOUS
<1>2. f = [l \in 1..n |-> Times(v[l], a[l])]
  <2>1. \A l \in 1..n : Times(a[l], v[l]) = Times(v[l], a[l])
    BY TimesLaws
  <2> QED BY <1>1, <2>1
<1>3. AreProducts(n, f, a, v) /\ AreProducts(n, f, v, a)
  BY <1>1, <1>2 DEF AreProducts
<1>4. Project(a, v) = SumOf(f)
  BY <1>3, ProjectSum
<1>5. Project(v, a) = SumOf(f)
  BY <1>3, ProjectSum
<1> QED BY <1>4, <1>5

\* A projection of a sum and of a multiple.
LEMMA ProjectPlus ==
    ASSUME NEW n \in Nat, NEW w, NEW u, NEW v, AreSums(n, w, u, v), NEW b \in [1..n -> Normal]
    PROVE  Project(w, b) = Plus(Project(u, b), Project(v, b))
<1>1. PICK f, g, h : /\ f = [l \in 1..n |-> Times(w[l], b[l])] /\ g = [l \in 1..n |-> Times(u[l], b[l])]
                     /\ h = [l \in 1..n |-> Times(v[l], b[l])]
  OBVIOUS
<1>2. /\ w \in [1..n -> Normal] /\ u \in [1..n -> Normal] /\ v \in [1..n -> Normal]
      /\ \A l \in 1..n : w[l] = Plus(u[l], v[l])
  BY DEF AreSums
<1>3. AreProducts(n, f, w, b) /\ AreProducts(n, g, u, b) /\ AreProducts(n, h, v, b)
  BY <1>1, <1>2 DEF AreProducts
<1>4. f \in [1..n -> Normal] /\ Project(w, b) = SumOf(f) /\ \A l \in 1..n : f[l] = Times(w[l], b[l])
  BY <1>3, ProjectSum
<1>5. g \in [1..n -> Normal] /\ Project(u, b) = SumOf(g) /\ \A l \in 1..n : g[l] = Times(u[l], b[l])
  BY <1>3, ProjectSum
<1>6. h \in [1..n -> Normal] /\ Project(v, b) = SumOf(h) /\ \A l \in 1..n : h[l] = Times(v[l], b[l])
  BY <1>3, ProjectSum
<1>7. ASSUME NEW l \in 1..n PROVE f[l] = Plus(g[l], h[l])
  <2>1. PICK x, y, z \in Normal : x = u[l] /\ y = v[l] /\ z = b[l]
    BY <1>2
  <2>2. Plus(x, y) \in Normal
    BY NormalTypes
  <2>3. Times(Plus(x, y), z) = Times(z, Plus(x, y)) /\ Times(z, Plus(x, y)) = Plus(Times(z, x), Times(z, y))
        /\ Times(z, x) = Times(x, z) /\ Times(z, y) = Times(y, z)
    BY <2>2, TimesLaws
  <2>4. f[l] = Times(Plus(x, y), z) /\ g[l] = Times(x, z) /\ h[l] = Times(y, z)
    BY <1>2, <1>4, <1>5, <1>6, <2>1
  <2> QED BY <2>3, <2>4
<1>8. AreSums(n, f, g, h)
  BY <1>4, <1>5, <1>6, <1>7 DEF AreSums
<1>9. SumOf(f) = Plus(SumOf(g), SumOf(h))
  BY <1>8, SumPlus
<1> QED BY <1>4, <1>5, <1>6, <1>9

LEMMA ProjectTimes ==
    ASSUME NEW n \in Nat, NEW w, NEW t, NEW u, AreMultiples(n, w, t, u), NEW b \in [1..n -> Normal]
    PROVE  Project(w, b) = Times(t, Project(u, b))
<1>1. PICK f, g : f = [l \in 1..n |-> Times(w[l], b[l])] /\ g = [l \in 1..n |-> Times(u[l], b[l])]
  OBVIOUS
<1>2. /\ w \in [1..n -> Normal] /\ u \in [1..n -> Normal] /\ t \in Normal
      /\ \A l \in 1..n : w[l] = Times(t, u[l])
  BY DEF AreMultiples
<1>3. AreProducts(n, f, w, b) /\ AreProducts(n, g, u, b)
  BY <1>1, <1>2 DEF AreProducts
<1>4. f \in [1..n -> Normal] /\ Project(w, b) = SumOf(f) /\ \A l \in 1..n : f[l] = Times(w[l], b[l])
  BY <1>3, ProjectSum
<1>5. g \in [1..n -> Normal] /\ Project(u, b) = SumOf(g) /\ \A l \in 1..n : g[l] = Times(u[l], b[l])
  BY <1>3, ProjectSum
<1>6. ASSUME NEW l \in 1..n PROVE f[l] = Times(t, g[l])
  <2>1. u[l] \in Normal /\ b[l] \in Normal
    BY <1>2
  <2>2. Times(Times(t, u[l]), b[l]) = Times(t, Times(u[l], b[l]))
    BY <1>2, <2>1, TimesLaws
  <2> QED BY <1>2, <1>4, <1>5, <2>2
<1>7. AreMultiples(n, f, t, g)
  BY <1>2, <1>4, <1>5, <1>6 DEF AreMultiples
<1>8. SumOf(f) = Times(t, SumOf(g))
  BY <1>7, SumTimes
<1> QED BY <1>4, <1>5, <1>8

LEMMA ProjectNeg ==
    ASSUME NEW n \in Nat, NEW a \in [1..n -> Normal], NEW z \in [1..n -> Normal]
    PROVE  Project(a, [l \in 1..n |-> Neg(z[l])]) = Neg(Project(a, z))
<1>1. PICK w, t : w = [l \in 1..n |-> Neg(z[l])] /\ t = <<-1, 1>>
  OBVIOUS
<1>2. w \in [1..n -> Normal] /\ t \in Normal
  <2>1. \A l \in 1..n : Neg(z[l]) \in Normal
    BY NegLaws
  <2> QED BY <1>1, <2>1, IntIsNormal
<1>3. AreMultiples(n, w, t, z)
  BY <1>1, <1>2 DEF AreMultiples, Neg
<1>4. Project(w, a) = Times(t, Project(z, a))
  BY <1>3, ProjectTimes
<1>5. Project(w, a) = Project(a, w) /\ Project(z, a) = Project(a, z)
  BY <1>2, ProjectTurned
<1> QED BY <1>1, <1>4, <1>5 DEF Neg

-----------------------------------------------------------------------------

\* The inverse solves the equations.
InverseTimes(n, inverse, y) == [r \in 1..n |-> Project(inverse[r], y)]

LEMMA InverseSolves ==
    ASSUME NEW n \in Nat, NEW a, IsMatrix(a, n), ~MatrixInvert(a).singular,
           NEW y \in [1..n -> Normal], NEW b, b = InverseTimes(n, MatrixInvert(a).a, y),
           NEW r \in 1..n
    PROVE  Project(a[r], b) = y[r]
<1> DEFINE base == [a |-> a, ipiv |-> {}, swaps |-> <<>>, singular |-> FALSE]
           turns == [i \in 1..n |-> i]
<1>1. PICK m : m = FoldLeft(Eliminate, base, turns)
  OBVIOUS
<1>2. MatrixInvert(a) = [m EXCEPT !.a = FoldLeft(ColumnsSwapped, @, Reverse(m.swaps))]
  <2>1. DOMAIN a = 1..n
    BY DEF IsMatrix
  <2> QED BY <1>1, <2>1 DEF MatrixInvert
<1>3. IsSolved(<<n, a>>, m, n)
  <2>1. turns \in Seq(Nat) /\ Len(turns) = n
    OBVIOUS
  <2>2. IsInversion(n, base, 0)
    <3>1. Cardinality({}) = 0
      BY FS_EmptySet
    <3>2. <<>> \in Seq((1..n) \X (1..n))
      OBVIOUS
    <3> QED BY <3>1, <3>2 DEF IsInversion
  <2>3. \A z : Orders!Fold(z, <<>>) = z
    BY Orders!FoldNone
  <2>4. IsSolved(<<n, a>>, base, 0)
    BY <2>2, <2>3 DEF IsSolved
  <2> HIDE DEF base, turns
  <2>5. PICK g : g = <<n, a>>
    OBVIOUS
  <2>6. \A k \in 1..Len(turns) : \A v : IsSolved(g, v, k - 1) => IsSolved(g, Eliminate(v, turns[k]), k)
    BY <2>1, <2>5, EliminateSolves
  <2>7. IsSolved(g, Solutions!Fold(base, turns), Len(turns))
    BY <2>1, <2>4, <2>5, <2>6, Solutions!FoldKeeps
  <2> QED BY <1>1, <2>1, <2>5, <2>7, SolutionsFold
<1> HIDE DEF base, turns
<1>4. IsInversion(n, m, n)
  BY <1>3 DEF IsSolved
<1>5. PICK e : e = FoldLeft(ColumnsSwapped, m.a, Reverse(m.swaps))
  OBVIOUS
<1>6. MatrixInvert(a).a = e /\ ~m.singular
  BY <1>2, <1>4, <1>5 DEF IsInversion
<1>7. IsMatrix(m.a, n) /\ m.swaps \in Seq((1..n) \X (1..n)) /\ m.ipiv \in SUBSET (1..n) /\ Cardinality(m.ipiv) = n
  BY <1>4, <1>6 DEF IsInversion
<1>8. m.ipiv = 1..n
  <2>1. IsFiniteSet(1..n) /\ Cardinality(1..n) = n
    BY FS_Interval
  <2> QED BY <1>7, <2>1, FS_Subset
<1>9. PICK z : z = Orders!Fold(y, m.swaps)
  OBVIOUS
<1>10. z \in [1..n -> Normal]
  BY <1>7, <1>9, OrdersType
<1>11. ASSUME NEW q \in 1..n PROVE b[q] = Project(m.a[q], z) /\ m.a[q] \in [1..n -> Normal] /\ b[q] \in Normal
  <2>1. Project(e[q], y) = Project(m.a[q], z)
    <3>1. PICK w, swaps : w = m.a /\ swaps = m.swaps
      OBVIOUS
    <3>2. IsMatrix(w, n) /\ swaps \in Seq((1..n) \X (1..n))
      BY <1>7, <3>1
    <3>3. e = Exchanges!Fold(w, Reverse(swaps))
      BY <1>5, <3>1, ExchangesFold
    <3>4. Project(Exchanges!Fold(w, Reverse(swaps))[q], y) = Project(w[q], Orders!Fold(y, swaps))
      BY <3>2, ColumnsBack, ZenonT(60)
    <3> QED BY <1>9, <3>1, <3>3, <3>4
  <2>2. m.a[q] \in [1..n -> Normal]
    BY <1>7 DEF IsMatrix
  <2>3. b[q] = Project(e[q], y)
    BY <1>6 DEF InverseTimes
  <2>4. PICK v : v = m.a[q]
    OBVIOUS
  <2>5. PICK f : AreProducts(n, f, v, z)
    BY <1>10, <2>2, <2>4 DEF AreProducts
  <2>6. Project(v, z) \in Normal
    BY <2>5, ProjectSum
  <2> QED BY <2>1, <2>2, <2>3, <2>4, <2>6
<1>12. b \in [1..n -> Normal]
  BY <1>11 DEF InverseTimes
<1>13. Holds(n, m.a, 1..n, b, z)
  <2>1. Inputs(n, 1..n, b, z) = [l \in 1..n |-> Neg(z[l])]
    BY DEF Inputs
  <2>2. \A q \in 1..n : Project(m.a[q], [l \in 1..n |-> Neg(z[l])]) = Neg(b[q])
    <3> TAKE q \in 1..n
    <3>1. PICK v : v = m.a[q]
      OBVIOUS
    <3>2. v \in [1..n -> Normal] /\ b[q] = Project(v, z)
      BY <1>11, <3>1
    <3>3. Project(v, [l \in 1..n |-> Neg(z[l])]) = Neg(Project(v, z))
      BY <1>10, <3>2, ProjectNeg
    <3> QED BY <3>1, <3>2, <3>3
  <2> QED BY <2>1, <2>2 DEF Holds
<1>14. Holds(n, a, {}, b, y)
  BY <1>3, <1>6, <1>8, <1>9, <1>12, <1>13 DEF IsSolved
<1>15. Inputs(n, {}, b, y) = b
  BY <1>12 DEF Inputs
<1> QED BY <1>14, <1>15 DEF Holds

-----------------------------------------------------------------------------
(* A sum of squares.                                                       *)

LEMMA SquarePositive ==
    ASSUME NEW x \in Normal
    PROVE  Times(x, x)[1] >= 0 /\ (Times(x, x) = Zero => x = Zero)
<1>1. PICK a, b : a = x[1] /\ b = x[2]
  OBVIOUS
<1>2. a \in Int /\ b \in Nat \ {0} /\ Same(x, a, b)
  BY <1>1, NormalIsRational, RationalParts, OwnParts
<1>3. Same(Times(x, x), a * a, b * b) /\ a * a \in Int /\ b * b \in Nat \ {0}
  BY <1>2, SamePlus
<1>4. PICK r, s : r = Times(x, x)[1] /\ s = Times(x, x)[2]
  OBVIOUS
<1>5. r \in Int /\ s \in Nat \ {0} /\ r * (b * b) = (a * a) * s
  BY <1>3, <1>4, SameParts
<1>6. a * a >= 0 /\ (a * a = 0 => a = 0)
  <2>1. a > 0 => a * a > 0
    BY <1>2
  <2>2. a < 0 => a * a > 0
    BY <1>2
  <2>3. 0 * 0 = 0
    OBVIOUS
  <2> QED BY <1>2, <2>1, <2>2, <2>3
<1>7. 0 <= r <=> 0 * (b * b) <= r * (b * b)
  BY <1>3, <1>5, Cancel
<1>8. 0 <= a * a <=> 0 * s <= (a * a) * s
  BY <1>3, <1>5, Cancel
<1>9. r >= 0
  <2>1. 0 * (b * b) = 0 /\ 0 * s = 0
    BY <1>3, <1>5
  <2> QED BY <1>5, <1>6, <1>7, <1>8, <2>1
<1>10. r = 0 => a = 0
  <2> HAVE r = 0
  <2>1. (a * a) * s = 0 * s
    BY <1>3, <1>5
  <2>2. a * a = 0
    BY <1>3, <1>5, <2>1, Cancel
  <2> QED BY <1>6, <2>2
<1>11. Zero[1] = 0
  BY OneIsRational
<1> QED BY <1>1, <1>4, <1>9, <1>10, <1>11, ZeroIsOne

\* The sum of two numbers that are not negative.
LEMMA PlusPositive ==
    ASSUME NEW x \in Normal, NEW y \in Normal, x[1] >= 0, y[1] >= 0
    PROVE  Plus(x, y)[1] >= 0 /\ (Plus(x, y) = Zero => x = Zero /\ y = Zero)
<1>1. PICK a, b, p, q : a = x[1] /\ b = x[2] /\ p = y[1] /\ q = y[2]
  OBVIOUS
<1>2. a \in Nat /\ b \in Nat \ {0} /\ p \in Nat /\ q \in Nat \ {0} /\ Same(x, a, b) /\ Same(y, p, q)
  BY <1>1, NormalIsRational, RationalParts, OwnParts
<1>3. Same(Plus(x, y), a * q + p * b, b * q) /\ a * q + p * b \in Int /\ b * q \in Nat \ {0}
  BY <1>2, SamePlus
<1>4. PICK r, s : r = Plus(x, y)[1] /\ s = Plus(x, y)[2]
  OBVIOUS
<1>5. PICK n, d \in Int : n = a * q + p * b /\ d = b * q
  BY <1>3
<1>6. r \in Int /\ s \in Nat \ {0} /\ d \in Nat \ {0} /\ r * d = n * s
  BY <1>3, <1>4, <1>5, SameParts
<1>7. a * q >= 0 /\ p * b >= 0 /\ a * q \in Int /\ p * b \in Int
  BY <1>2
<1>8. (a * q = 0 => a = 0) /\ (p * b = 0 => p = 0)
  <2>1. a * q = 0 * q => a = 0
    BY <1>2, Cancel
  <2>2. p * b = 0 * b => p = 0
    BY <1>2, Cancel
  <2> QED BY <1>2, <2>1, <2>2
<1>9. n >= 0 /\ (n = 0 => a = 0 /\ p = 0)
  BY <1>5, <1>7, <1>8
<1>10. (0 <= r <=> 0 * d <= r * d) /\ (0 <= n <=> 0 * s <= n * s) /\ (n * s = 0 * s => n = 0)
  BY <1>5, <1>6, Cancel
<1>11. 0 * d = 0 /\ 0 * s = 0
  BY <1>6
<1>12. r >= 0 /\ (r = 0 => a = 0 /\ p = 0)
  BY <1>6, <1>9, <1>10, <1>11
<1>13. Zero[1] = 0
  BY OneIsRational
<1> QED BY <1>1, <1>4, <1>12, <1>13, ZeroIsOne

\* The sums of the products of two of the points of the first k vectors, their projections,
\* and the projection of those.
PairSums(n, z, k) ==
    [i \in 1..n |-> [j \in 1..n |-> SumTo([m \in DOMAIN z |-> Times(z[m][i], z[m][j])], k)]]
Rows(n, z, b, k) == [i \in 1..n |-> Project(PairSums(n, z, k)[i], b)]
Quadratic(n, z, b, k) == Project(Rows(n, z, b, k), b)

LEMMA RowsStep ==
    ASSUME NEW n \in Nat, NEW count \in Nat, NEW z \in [1..count -> [1..n -> Normal]],
           NEW b \in [1..n -> Normal]
    PROVE  /\ \A k \in 0..count : Rows(n, z, b, k) \in [1..n -> Normal]
           /\ \A i \in 1..n : Rows(n, z, b, 0)[i] = Zero
           /\ \A k \in 1..count : \A i \in 1..n :
                Rows(n, z, b, k)[i] = Plus(Rows(n, z, b, k - 1)[i], Times(z[k][i], Project(z[k], b)))
<1> DEFINE F(i, j) == [m \in DOMAIN z |-> Times(z[m][i], z[m][j])]
<1>1. ASSUME NEW i \in 1..n, NEW j \in 1..n PROVE F(i, j) \in [1..count -> Normal]
  <2>1. \A m \in 1..count : Times(z[m][i], z[m][j]) \in Normal
    <3> TAKE m \in 1..count
    <3>1. z[m][i] \in Normal /\ z[m][j] \in Normal
      OBVIOUS
    <3> QED BY <3>1, NormalTypes
  <2> QED BY <2>1
<1>2. ASSUME NEW i \in 1..n, NEW k \in 0..count
      PROVE  /\ PairSums(n, z, k)[i] \in [1..n -> Normal]
             /\ \A j \in 1..n : PairSums(n, z, k)[i][j] = SumTo(F(i, j), k)
  <2>1. PairSums(n, z, k)[i] = [j \in 1..n |-> SumTo(F(i, j), k)]
    BY DEF PairSums
  <2>2. \A j \in 1..n : SumTo(F(i, j), k) \in Normal
    BY <1>1, SumSteps
  <2> HIDE DEF F
  <2> QED BY <2>1, <2>2
<1>3. ASSUME NEW i \in 1..n, NEW k \in 0..count
      PROVE  Rows(n, z, b, k)[i] = Project(PairSums(n, z, k)[i], b) /\ Rows(n, z, b, k)[i] \in Normal
  <2>1. PICK f : AreProducts(n, f, PairSums(n, z, k)[i], b)
    BY <1>2 DEF AreProducts
  <2>2. Project(PairSums(n, z, k)[i], b) \in Normal
    BY <2>1, ProjectSum
  <2> QED BY <2>2 DEF Rows
<1>4. ASSUME NEW k \in 0..count PROVE Rows(n, z, b, k) \in [1..n -> Normal]
  <2>1. \A i \in 1..n : Project(PairSums(n, z, k)[i], b) \in Normal
    BY <1>3
  <2> QED BY <2>1 DEF Rows
<1>5. ASSUME NEW i \in 1..n PROVE Rows(n, z, b, 0)[i] = Zero
  <2>1. PICK p : p = PairSums(n, z, 0)[i]
    OBVIOUS
  <2>2. p \in [1..n -> Normal] /\ \A j \in 1..n : p[j] = Zero
    <3>1. 0 \in 0..count
      OBVIOUS
    <3>2. \A j \in 1..n : SumTo(F(i, j), 0) = Zero
      BY <1>1, SumSteps
    <3> HIDE DEF F
    <3> QED BY <1>2, <2>1, <3>1, <3>2
  <2>3. AreMultiples(n, p, Zero, p)
    <3>1. \A j \in 1..n : p[j] = Times(Zero, p[j])
      <4>1. Times(Zero, Zero) = Zero
        BY NormalIsRational, TimesLaws
      <4> QED BY <2>2, <4>1
    <3> QED BY <2>2, <3>1, NormalIsRational DEF AreMultiples
  <2>4. Project(p, b) = Times(Zero, Project(p, b))
    BY <2>3, ProjectTimes
  <2>5. PICK x \in Normal : x = Project(p, b)
    <3>1. PICK f : AreProducts(n, f, p, b)
      BY <2>2 DEF AreProducts
    <3> QED BY <3>1, ProjectSum
  <2>6. Times(Zero, x) = Times(x, Zero) /\ Times(x, Zero) = Zero
    BY NormalIsRational, TimesLaws
  <2>7. Project(p, b) = Zero
    BY <2>4, <2>5, <2>6
  <2> QED BY <1>3, <2>1, <2>7
<1>6. ASSUME NEW k \in 1..count, NEW i \in 1..n
      PROVE  Rows(n, z, b, k)[i] = Plus(Rows(n, z, b, k - 1)[i], Times(z[k][i], Project(z[k], b)))
  <2>1. PICK p, o, t, y : /\ p = PairSums(n, z, k)[i] /\ o = PairSums(n, z, k - 1)[i]
                          /\ t = z[k][i] /\ y = z[k]
    OBVIOUS
  <2>2. /\ k \in 0..count /\ k - 1 \in 0..count /\ y \in [1..n -> Normal] /\ t \in Normal
    BY <2>1
  <2>3. PICK w : AreMultiples(n, w, t, y)
    BY <2>2, MultiplesExist
  <2>4. \A j \in 1..n : p[j] = Plus(o[j], w[j])
    <3> TAKE j \in 1..n
    <3>1. SumTo(F(i, j), k) = Plus(SumTo(F(i, j), k - 1), F(i, j)[k])
      BY <1>1, SumSteps
    <3>2. F(i, j)[k] = Times(z[k][i], z[k][j])
      OBVIOUS
    <3>3. w[j] = Times(t, y[j])
      BY <2>3 DEF AreMultiples
    <3> HIDE DEF F
    <3> QED BY <1>2, <2>1, <2>2, <3>1, <3>2, <3>3
  <2>5. AreSums(n, p, o, w)
    BY <1>2, <2>1, <2>2, <2>3, <2>4 DEF AreSums, AreMultiples
  <2>6. Project(p, b) = Plus(Project(o, b), Project(w, b))
    BY <2>5, ProjectPlus
  <2>7. Project(w, b) = Times(t, Project(y, b))
    BY <2>3, ProjectTimes
  <2> QED BY <1>3, <2>1, <2>2, <2>6, <2>7
<1> QED BY <1>4, <1>5, <1>6

\* It is not negative, and 0 only when the projections all are.
LEMMA QuadraticPositive ==
    ASSUME NEW n \in Nat, NEW count \in Nat, NEW z \in [1..count -> [1..n -> Normal]],
           NEW b \in [1..n -> Normal]
    PROVE  /\ Quadratic(n, z, b, count) \in Normal /\ Quadratic(n, z, b, count)[1] >= 0
           /\ Quadratic(n, z, b, count) = Zero => \A i \in 1..n : Rows(n, z, b, count)[i] = Zero
<1> DEFINE T == {k \in 0..count : /\ Quadratic(n, z, b, k)[1] >= 0
                                  /\ Quadratic(n, z, b, k) = Zero => \A i \in 1..n : Rows(n, z, b, k)[i] = Zero}
<1>1. ASSUME NEW k \in 0..count
      PROVE  Rows(n, z, b, k) \in [1..n -> Normal] /\ Quadratic(n, z, b, k) \in Normal
  <2>1. PICK w : w = Rows(n, z, b, k)
    OBVIOUS
  <2>2. w \in [1..n -> Normal]
    BY <2>1, RowsStep
  <2>3. PICK f : AreProducts(n, f, w, b)
    BY <2>2 DEF AreProducts
  <2>4. Project(w, b) \in Normal
    BY <2>3, ProjectSum
  <2> QED BY <2>1, <2>2, <2>4 DEF Quadratic
<1>2. Zero \in Normal /\ Zero[1] = 0
  BY NormalIsRational, OneIsRational
<1>3. 0 \in T
  <2>1. PICK w : w = Rows(n, z, b, 0)
    OBVIOUS
  <2>2. w \in [1..n -> Normal] /\ \A i \in 1..n : w[i] = Zero
    <3>1. 0 \in 0..count
      OBVIOUS
    <3>2. \A i \in 1..n : Rows(n, z, b, 0)[i] = Zero
      BY RowsStep
    <3> QED BY <1>1, <2>1, <3>1, <3>2
  <2>3. AreMultiples(n, w, Zero, w)
    <3>1. Times(Zero, Zero) = Zero
      BY <1>2, TimesLaws
    <3> QED BY <1>2, <2>2, <3>1 DEF AreMultiples
  <2>4. Project(w, b) = Times(Zero, Project(w, b))
    BY <2>3, ProjectTimes
  <2>5. PICK x \in Normal : x = Project(w, b)
    BY <1>1, <2>1 DEF Quadratic
  <2>6. Times(Zero, x) = Times(x, Zero) /\ Times(x, Zero) = Zero
    BY <1>2, TimesLaws
  <2>7. Quadratic(n, z, b, 0) = Zero
    BY <2>1, <2>4, <2>5, <2>6 DEF Quadratic
  <2> QED BY <1>2, <2>1, <2>2, <2>7
<1>4. ASSUME NEW k \in 1..count, k - 1 \in T PROVE k \in T
  <2>1. PICK w, o, y, g : w = Rows(n, z, b, k) /\ o = Rows(n, z, b, k - 1) /\ y = z[k] /\ g = Project(y, b)
    OBVIOUS
  <2>2. /\ k \in 0..count /\ k - 1 \in 0..count /\ y \in [1..n -> Normal]
        /\ w \in [1..n -> Normal] /\ o \in [1..n -> Normal]
    BY <1>1, <2>1
  <2>3. g \in Normal
    <3>1. PICK f : AreProducts(n, f, y, b)
      BY <2>2 DEF AreProducts
    <3>2. Project(y, b) \in Normal
      BY <3>1, ProjectSum
    <3> QED BY <2>1, <3>2
  <2>4. PICK v : AreMultiples(n, v, g, y)
    BY <2>2, <2>3, MultiplesExist
  <2>5. \A i \in 1..n : y[i] \in Normal /\ v[i] = Times(y[i], g) /\ w[i] = Plus(o[i], v[i])
    <3> TAKE i \in 1..n
    <3>0. Rows(n, z, b, k)[i] = Plus(Rows(n, z, b, k - 1)[i], Times(z[k][i], Project(z[k], b)))
      BY RowsStep
    <3>1. w[i] = Plus(o[i], Times(y[i], g))
      BY <2>1, <3>0
    <3>2. v[i] = Times(g, y[i]) /\ y[i] \in Normal
      BY <2>2, <2>4 DEF AreMultiples
    <3>3. Times(g, y[i]) = Times(y[i], g)
      BY <2>3, <3>2, TimesLaws
    <3> QED BY <3>1, <3>2, <3>3
  <2>6. AreSums(n, w, o, v)
    BY <2>2, <2>4, <2>5 DEF AreSums, AreMultiples
  <2>7. Project(w, b) = Plus(Project(o, b), Project(v, b)) /\ Project(v, b) = Times(g, Project(y, b))
    BY <2>4, <2>6, ProjectPlus, ProjectTimes
  <2>8. PICK c, s : c = Quadratic(n, z, b, k - 1) /\ s = Times(g, g)
    OBVIOUS
  <2>9. c \in Normal /\ s \in Normal /\ Quadratic(n, z, b, k) = Plus(c, s)
    BY <1>1, <2>1, <2>2, <2>3, <2>7, <2>8, NormalTypes DEF Quadratic
  <2>10. s[1] >= 0 /\ (s = Zero => g = Zero)
    BY <2>3, <2>8, SquarePositive
  <2>11. c[1] >= 0 /\ (c = Zero => \A i \in 1..n : o[i] = Zero)
    BY <1>4, <2>1, <2>8
  <2>12. Plus(c, s)[1] >= 0 /\ (Plus(c, s) = Zero => c = Zero /\ s = Zero)
    BY <2>9, <2>10, <2>11, PlusPositive
  <2>13. ASSUME Plus(c, s) = Zero, NEW i \in 1..n PROVE w[i] = Zero
    <3>1. o[i] = Zero /\ g = Zero
      BY <2>10, <2>11, <2>12, <2>13
    <3>2. v[i] = Zero
      BY <2>5, <3>1, TimesLaws
    <3>3. Plus(Zero, Zero) = Zero
      BY <1>2, PlusLaws
    <3> QED BY <2>5, <3>1, <3>2, <3>3
  <2> QED BY <2>1, <2>2, <2>9, <2>12, <2>13
<1> HIDE DEF T
<1>5. count \in T
  BY <1>3, <1>4, Reaches
<1> QED BY <1>1, <1>5 DEF T

LEMMA FactorPositive ==
    ASSUME NEW m \in Normal, NEW x \in Normal, m[1] > 0
    PROVE  (Times(m, x)[1] >= 0 => x[1] >= 0) /\ (Times(m, x) = Zero => x = Zero)
<1>1. PICK a, b, p, q : a = m[1] /\ b = m[2] /\ p = x[1] /\ q = x[2]
  OBVIOUS
<1>2. a \in Nat \ {0} /\ b \in Nat \ {0} /\ p \in Int /\ q \in Nat \ {0} /\ Same(m, a, b) /\ Same(x, p, q)
  BY <1>1, NormalIsRational, RationalParts, OwnParts
<1>3. Same(Times(m, x), a * p, b * q) /\ a * p \in Int /\ b * q \in Nat \ {0}
  BY <1>2, SamePlus
<1>4. PICK r, s : r = Times(m, x)[1] /\ s = Times(m, x)[2]
  OBVIOUS
<1>5. PICK n, d \in Int : n = a * p /\ d = b * q
  BY <1>3
<1>6. r \in Int /\ s \in Nat \ {0} /\ d \in Nat \ {0} /\ r * d = n * s
  BY <1>3, <1>4, <1>5, SameParts
<1>7. (0 <= r <=> 0 * d <= r * d) /\ (0 <= n <=> 0 * s <= n * s) /\ (n * s = 0 * s => n = 0)
  BY <1>5, <1>6, Cancel
<1>8. (0 <= p <=> 0 * a <= p * a) /\ (p * a = 0 * a => p = 0)
  BY <1>2, Cancel
<1>9. 0 * d = 0 /\ 0 * s = 0 /\ 0 * a = 0 /\ p * a = n
  BY <1>2, <1>5, <1>6
<1>10. (r >= 0 => p >= 0) /\ (r = 0 => p = 0)
  BY <1>2, <1>5, <1>6, <1>7, <1>8, <1>9
<1>11. Zero[1] = 0
  BY OneIsRational
<1> QED BY <1>1, <1>4, <1>10, <1>11, ZeroIsOne

\* The boundary in the middle between two projections.
LEMMA MiddleRight ==
    ASSUME NEW p \in Normal, NEW q \in Normal, Minus(p, q)[1] >= 0
    PROVE  /\ ~Less(p, q)
           /\ Minus(p, q) # Zero =>
                /\ Less(q, p)
                /\ Less(Plus(Times(Minus(p, q), <<1, 2>>), q), p)
                /\ ~Less(Plus(Times(Minus(p, q), <<1, 2>>), q), q)
<1>1. ~Less(p, q)
  <2>1. Minus(p, q)[1] \in Int
    BY NormalTypes, NormalIsRational, RationalParts
  <2> QED BY <2>1 DEF Less
<1>2. SUFFICES ASSUME Minus(p, q) # Zero
               PROVE  /\ Less(q, p)
                      /\ Less(Plus(Times(Minus(p, q), <<1, 2>>), q), p)
                      /\ ~Less(Plus(Times(Minus(p, q), <<1, 2>>), q), q)
  BY <1>1
<1>3. PICK dif, half : dif = Minus(p, q) /\ half = <<1, 2>>
  OBVIOUS
<1>4. dif \in Normal /\ p = Plus(dif, q) /\ Same(half, 1, 2)
  <2>1. dif \in Normal
    BY <1>3, NormalTypes
  <2>2. p = Plus(dif, q)
    BY <1>3, PlusLaws
  <2>3. half[1] = 1 /\ half[2] = 2 /\ half \in Rational
    BY <1>3 DEF Rational
  <2> QED BY <2>1, <2>2, <2>3 DEF Same
<1>5. PICK a, b, c, d : a = q[1] /\ b = q[2] /\ c = dif[1] /\ d = dif[2]
  OBVIOUS
<1>6. a \in Int /\ b \in Nat \ {0} /\ c \in Nat \ {0} /\ d \in Nat \ {0} /\ Same(q, a, b) /\ Same(dif, c, d)
  <2>1. c # 0
    BY <1>2, <1>3, <1>4, <1>5, ZeroIsOne
  <2>2. q \in Rational /\ dif \in Rational
    BY <1>4, NormalIsRational
  <2>3. a \in Int /\ b \in Nat \ {0} /\ c \in Int /\ d \in Nat \ {0}
    BY <1>5, <2>2, RationalParts
  <2>4. c >= 0
    BY <1>3, <1>5
  <2>5. Same(q, a, b) /\ Same(dif, c, d)
    BY <1>5, <2>2, OwnParts
  <2> QED BY <2>1, <2>3, <2>4, <2>5
<1>7. PICK k : k = Plus(Times(dif, half), q)
  OBVIOUS
<1>8. PICK x, y, z \in Int : x = c * b /\ y = a * d /\ z = d * b
  BY <1>6
<1>9. x \in Nat \ {0} /\ z \in Nat \ {0}
  BY <1>6, <1>8, Positive
<1>10. Same(p, x + y, z)
  BY <1>4, <1>6, <1>8, SamePlus
<1>11. Same(k, x + 2 * y, 2 * z)
  <2>1. Same(Times(dif, half), c * 1, d * 2) /\ c * 1 \in Int /\ d * 2 \in Nat \ {0}
    BY <1>4, <1>6, SamePlus
  <2>2. Same(k, (c * 1) * b + a * (d * 2), (d * 2) * b)
    BY <1>6, <1>7, <2>1, SamePlus
  <2>3. (c * 1) * b + a * (d * 2) = x + 2 * y /\ (d * 2) * b = 2 * z
    BY <1>6, <1>8
  <2> QED BY <2>2, <2>3
<1>12. /\ k \in Rational /\ p \in Rational /\ q \in Rational /\ x + y \in Int /\ x + 2 * y \in Int
       /\ 2 * z \in Nat \ {0}
  BY <1>8, <1>9, <1>11, NormalIsRational, SameParts
<1>13. y * b = a * z
  BY <1>6, <1>8
<1>14. x * b \in Nat \ {0} /\ x * z \in Nat \ {0}
  BY <1>6, <1>9, Positive
<1>15. y * b \in Int /\ y * z \in Int
  BY <1>6, <1>8
<1>16. ~AtMost(p, q)
  <2>1. AtMost(p, q) <=> (x + y) * b <= a * z
    BY <1>6, <1>9, <1>10, <1>12, SameOrder
  <2>2. (x + y) * b = x * b + y * b
    BY <1>6, <1>8
  <2> QED BY <1>13, <1>14, <1>15, <2>1, <2>2
<1>17. ~AtMost(p, k)
  <2>1. AtMost(p, k) <=> (x + y) * (2 * z) <= (x + 2 * y) * z
    BY <1>9, <1>10, <1>11, <1>12, SameOrder
  <2>2. (x + y) * (2 * z) = 2 * (x * z) + 2 * (y * z) /\ (x + 2 * y) * z = x * z + 2 * (y * z)
    BY <1>8
  <2> QED BY <1>14, <1>15, <2>1, <2>2
<1>18. AtMost(q, k)
  <2>1. AtMost(q, k) <=> a * (2 * z) <= (x + 2 * y) * b
    BY <1>6, <1>9, <1>11, <1>12, SameOrder
  <2>2. a * (2 * z) = 2 * (y * b) /\ (x + 2 * y) * b = x * b + 2 * (y * b)
    BY <1>6, <1>8, <1>13
  <2> QED BY <1>14, <1>15, <2>1, <2>2
<1>19. Less(q, p) /\ Less(k, p) /\ ~Less(k, q)
  BY <1>12, <1>16, <1>17, <1>18, LessRight
<1> QED BY <1>3, <1>7, <1>19

\* How far the points are from the means.
Deviations(n, queue, mean) == [m \in DOMAIN queue |-> [i \in 1..n |-> Minus(<<queue[m][i], 1>>, mean[i])]]

LEMMA DeviationsType ==
    ASSUME NEW n \in Nat, NEW queue, Points(queue, n), NEW mean \in [1..n -> Normal]
    PROVE  /\ Len(queue) \in Nat
           /\ Deviations(n, queue, mean) \in [1..Len(queue) -> [1..n -> Normal]]
<1>1. Len(queue) \in Nat /\ DOMAIN queue = 1..Len(queue)
  BY DEF Points
<1>2. ASSUME NEW m \in 1..Len(queue), NEW i \in 1..n PROVE Minus(<<queue[m][i], 1>>, mean[i]) \in Normal
  <2>1. queue[m][i] \in Int
    BY <1>1, PointOf
  <2>2. <<queue[m][i], 1>> \in Normal /\ mean[i] \in Normal
    BY <2>1, IntIsNormal
  <2> QED BY <2>2, NormalTypes
<1> QED BY <1>1, <1>2 DEF Deviations

\* What the sums of the products are divided by.
Freedom(cp, cn) == <<cp + cn - 2, 1>>

\* The estimates of a training: how far the points are from their means, and the covariances.
AreEstimates(n, positive, negative, mestpos, mestneg, cp, cn, m, y, z, covar) ==
    /\ n \in Nat /\ Points(positive, n) /\ Points(negative, n)
    /\ mestpos \in [1..n -> Normal] /\ mestneg \in [1..n -> Normal]
    /\ cp = Len(positive) /\ cn = Len(negative) /\ m = Freedom(cp, cn)
    /\ y = Deviations(n, positive, mestpos) /\ z = Deviations(n, negative, mestneg)
    /\ covar = CovarEst(positive, negative, mestpos, mestneg, n)

LEMMA CovarIs ==
    ASSUME NEW n, NEW positive, NEW negative, NEW mestpos, NEW mestneg, NEW cp, NEW cn, NEW m, NEW y, NEW z,
           NEW covar, AreEstimates(n, positive, negative, mestpos, mestneg, cp, cn, m, y, z, covar)
    PROVE  \A i, j \in 1..n :
              covar[i][j] = Over(Plus(PairSums(n, y, cp)[i][j], PairSums(n, z, cn)[i][j]), m)
<1>0. /\ n \in Nat /\ Points(positive, n) /\ Points(negative, n)
      /\ mestpos \in [1..n -> Normal] /\ mestneg \in [1..n -> Normal]
      /\ cp = Len(positive) /\ cn = Len(negative) /\ m = Freedom(cp, cn)
      /\ y = Deviations(n, positive, mestpos) /\ z = Deviations(n, negative, mestneg)
      /\ covar = CovarEst(positive, negative, mestpos, mestneg, n)
  BY DEF AreEstimates
<1> TAKE i, j \in 1..n
<1> DEFINE Product(entry, mean) == Times(Minus(<<entry[i], 1>>, mean[i]), Minus(<<entry[j], 1>>, mean[j]))
           SumBy(queue, mean) == SumOf([l \in DOMAIN queue |-> Product(queue[l], mean)])
<1>1. CovarEst(positive, negative, mestpos, mestneg, n)[i][j]
        = Over(Plus(SumBy(positive, mestpos), SumBy(negative, mestneg)), <<Len(positive) + Len(negative) - 2, 1>>)
  BY <1>0 DEF CovarEst
<1>2. ASSUME NEW queue, Points(queue, n), NEW mean \in [1..n -> Normal]
      PROVE  SumBy(queue, mean) = PairSums(n, Deviations(n, queue, mean), Len(queue))[i][j]
  <2>1. PICK v : v = Deviations(n, queue, mean)
    OBVIOUS
  <2>2. Len(queue) \in Nat /\ v \in [1..Len(queue) -> [1..n -> Normal]] /\ DOMAIN queue = 1..Len(queue)
    <3>1. DOMAIN queue = 1..Len(queue)
      BY <1>2 DEF Points
    <3> QED BY <1>0, <1>2, <2>1, <3>1, DeviationsType
  <2>3. PICK f : f = [l \in DOMAIN v |-> Times(v[l][i], v[l][j])]
    OBVIOUS
  <2>4. f \in [1..Len(queue) -> Normal]
    <3>1. \A l \in 1..Len(queue) : Times(v[l][i], v[l][j]) \in Normal
      <4> TAKE l \in 1..Len(queue)
      <4>1. v[l][i] \in Normal /\ v[l][j] \in Normal
        BY <2>2
      <4> QED BY <4>1, NormalTypes
    <3> QED BY <2>2, <2>3, <3>1
  <2>5. f = [l \in DOMAIN queue |-> Product(queue[l], mean)]
    <3>1. \A l \in 1..Len(queue) : v[l][i] = Minus(<<queue[l][i], 1>>, mean[i])
                                   /\ v[l][j] = Minus(<<queue[l][j], 1>>, mean[j])
      BY <2>1, <2>2 DEF Deviations
    <3> QED BY <2>2, <2>3, <3>1
  <2>6. PairSums(n, v, Len(queue))[i][j] = SumTo(f, Len(queue))
    BY <2>3 DEF PairSums
  <2>7. SumTo(f, Len(queue)) = SumOf(f)
    BY <2>2, <2>4, SumSteps
  <2> QED BY <2>1, <2>5, <2>6, <2>7
<1> HIDE DEF SumBy
<1>3. SumBy(positive, mestpos) = PairSums(n, y, Len(positive))[i][j]
  BY <1>0, <1>2
<1>4. SumBy(negative, mestneg) = PairSums(n, z, Len(negative))[i][j]
  BY <1>0, <1>2
<1> QED BY <1>0, <1>1, <1>3, <1>4 DEF Freedom

LEMMA PairSumsType ==
    ASSUME NEW n \in Nat, NEW count \in Nat, NEW z \in [1..count -> [1..n -> Normal]]
    PROVE  \A i \in 1..n : PairSums(n, z, count)[i] \in [1..n -> Normal]
<1> DEFINE F(i, j) == [m \in DOMAIN z |-> Times(z[m][i], z[m][j])]
<1> TAKE i \in 1..n
<1>1. ASSUME NEW j \in 1..n PROVE SumTo(F(i, j), count) \in Normal
  <2>1. \A m \in 1..count : Times(z[m][i], z[m][j]) \in Normal
    <3> TAKE m \in 1..count
    <3>1. z[m][i] \in Normal /\ z[m][j] \in Normal
      OBVIOUS
    <3> QED BY <3>1, NormalTypes
  <2>2. PICK f : f = F(i, j)
    OBVIOUS
  <2>3. f \in [1..count -> Normal] /\ count \in 0..count
    BY <2>1, <2>2
  <2>4. SumTo(f, count) \in Normal
    BY <2>3, SumSteps
  <2> QED BY <2>2, <2>4
<1>2. PairSums(n, z, count)[i] = [j \in 1..n |-> SumTo(F(i, j), count)]
  BY DEF PairSums
<1> HIDE DEF F
<1> QED BY <1>1, <1>2

\* The covariances times the number of images are the sums of products of both kinds.
Pooled(n, m, covar, p, q) ==
    /\ p \in [1..n -> [1..n -> Normal]] /\ q \in [1..n -> [1..n -> Normal]]
    /\ covar \in [1..n -> [1..n -> Normal]] /\ m \in Normal /\ m[1] > 0
    /\ \A i, j \in 1..n : Times(m, covar[i][j]) = Plus(p[i][j], q[i][j])

LEMMA CovarPooled ==
    ASSUME NEW n \in Nat, NEW positive, Points(positive, n), NEW negative, Points(negative, n),
           NEW cp \in Nat, NEW cn \in Nat, cp = Len(positive), cn = Len(negative), cp >= 2, cn >= 2,
           NEW mestpos \in [1..n -> Normal], NEW mestneg \in [1..n -> Normal],
           NEW y, y = Deviations(n, positive, mestpos), NEW z, z = Deviations(n, negative, mestneg)
    PROVE  Pooled(n, Freedom(cp, cn), CovarEst(positive, negative, mestpos, mestneg, n),
                  PairSums(n, y, cp), PairSums(n, z, cn))
<1>1. PICK m, p, q, covar : /\ m = Freedom(cp, cn) /\ p = PairSums(n, y, cp) /\ q = PairSums(n, z, cn)
                            /\ covar = CovarEst(positive, negative, mestpos, mestneg, n)
  OBVIOUS
<1>2. AreEstimates(n, positive, negative, mestpos, mestneg, cp, cn, m, y, z, covar)
  BY <1>1 DEF AreEstimates
<1>3. y \in [1..cp -> [1..n -> Normal]] /\ z \in [1..cn -> [1..n -> Normal]]
  BY DeviationsType
<1>4. p \in [1..n -> [1..n -> Normal]] /\ q \in [1..n -> [1..n -> Normal]]
  <2>1. \A i \in 1..n : p[i] \in [1..n -> Normal]
    BY <1>1, <1>3, PairSumsType
  <2>2. \A i \in 1..n : q[i] \in [1..n -> Normal]
    BY <1>1, <1>3, PairSumsType
  <2>3. DOMAIN p = 1..n /\ DOMAIN q = 1..n /\ p = [i \in DOMAIN p |-> p[i]] /\ q = [i \in DOMAIN q |-> q[i]]
    BY <1>1 DEF PairSums
  <2> QED BY <2>1, <2>2, <2>3
<1>5. covar \in [1..n -> [1..n -> Normal]]
  <2>1. mestpos \in [1..n -> Rational] /\ mestneg \in [1..n -> Rational]
    BY NormalIsRational
  <2>2. Len(positive) + Len(negative) # 2
    OBVIOUS
  <2>3. IsMatrix(covar, n)
    BY <1>1, <2>1, <2>2, CovarType
  <2> QED BY <2>3 DEF IsMatrix
<1>6. m \in Normal /\ m[1] > 0 /\ m # Zero
  <2>1. cp + cn - 2 \in Int /\ cp + cn - 2 > 0
    OBVIOUS
  <2>2. m \in Normal /\ m[1] > 0
    BY <1>1, <2>1, IntIsNormal DEF Freedom
  <2> QED BY <2>2, OneIsRational
<1>7. ASSUME NEW i \in 1..n, NEW j \in 1..n PROVE Times(m, covar[i][j]) = Plus(p[i][j], q[i][j])
  <2>1. PICK s : s = Plus(p[i][j], q[i][j])
    OBVIOUS
  <2>2. p[i][j] \in Normal /\ q[i][j] \in Normal
    BY <1>4
  <2>3. s \in Normal
    BY <2>1, <2>2, NormalTypes
  <2>4. covar[i][j] = Over(s, m)
    <3>1. covar[i][j] = Over(Plus(PairSums(n, y, cp)[i][j], PairSums(n, z, cn)[i][j]), m)
      <4>1. \A g, h \in 1..n : covar[g][h] = Over(Plus(PairSums(n, y, cp)[g][h], PairSums(n, z, cn)[g][h]), m)
        BY <1>2, CovarIs
      <4> QED BY <4>1
    <3> QED BY <1>1, <2>1, <3>1
  <2>5. Times(Over(s, m), m) = s
    BY <1>6, <2>3, OverLaw
  <2>6. Over(s, m) \in Normal
    BY <1>6, <2>3, NormalTypes
  <2>7. Times(m, Over(s, m)) = Times(Over(s, m), m)
    BY <1>6, <2>6, TimesLaws
  <2> QED BY <2>1, <2>4, <2>5, <2>7
<1> QED BY <1>1, <1>4, <1>5, <1>6, <1>7 DEF Pooled

\* The projection of the covariances is the difference of the means.
ProjectsTo(n, covar, b, mestpos, mestneg) ==
    b \in [1..n -> Normal] /\ \A i \in 1..n : Project(covar[i], b) = Minus(mestpos[i], mestneg[i])

\* The difference of the projected means is a sum of squares: the images with hidden content
\* are never below the others, and only when the means are the same on the same place.
LEMMA Discriminates ==
    ASSUME NEW n, NEW positive, NEW negative, NEW mestpos, NEW mestneg, NEW cp \in Nat, NEW cn \in Nat,
           NEW m, NEW y, NEW z, NEW covar, cp >= 2, cn >= 2,
           AreEstimates(n, positive, negative, mestpos, mestneg, cp, cn, m, y, z, covar),
           NEW b, ProjectsTo(n, covar, b, mestpos, mestneg)
    PROVE  /\ Project(mestpos, b) \in Normal /\ Project(mestneg, b) \in Normal
           /\ Minus(Project(mestpos, b), Project(mestneg, b))[1] >= 0
           /\ Minus(Project(mestpos, b), Project(mestneg, b)) = Zero => mestpos = mestneg
<1>1. /\ n \in Nat /\ Points(positive, n) /\ Points(negative, n)
      /\ mestpos \in [1..n -> Normal] /\ mestneg \in [1..n -> Normal]
      /\ cp = Len(positive) /\ cn = Len(negative) /\ m = Freedom(cp, cn)
      /\ y = Deviations(n, positive, mestpos) /\ z = Deviations(n, negative, mestneg)
      /\ covar = CovarEst(positive, negative, mestpos, mestneg, n)
  BY DEF AreEstimates
<1>2. b \in [1..n -> Normal] /\ \A i \in 1..n : Project(covar[i], b) = Minus(mestpos[i], mestneg[i])
  BY DEF ProjectsTo
<1>3. n \in Nat /\ b \in [1..n -> Normal]
  BY <1>1, <1>2
<1>4. PICK p, q : p = PairSums(n, y, cp) /\ q = PairSums(n, z, cn)
  OBVIOUS
<1>5. Pooled(n, m, covar, p, q)
  BY <1>1, <1>4, CovarPooled
<1>6. y \in [1..cp -> [1..n -> Normal]] /\ z \in [1..cn -> [1..n -> Normal]]
  BY <1>1, DeviationsType
<1>7. PICK s, t : s = Rows(n, y, b, cp) /\ t = Rows(n, z, b, cn)
  OBVIOUS
<1>8. s \in [1..n -> Normal] /\ t \in [1..n -> Normal]
  <2>1. cp \in 0..cp /\ cn \in 0..cn
    OBVIOUS
  <2>2. s \in [1..n -> Normal]
    BY <1>3, <1>6, <1>7, <2>1, RowsStep
  <2>3. t \in [1..n -> Normal]
    BY <1>3, <1>6, <1>7, <2>1, RowsStep
  <2> QED BY <2>2, <2>3
<1>9. PICK dif : dif = [i \in 1..n |-> Minus(mestpos[i], mestneg[i])]
  OBVIOUS
<1>10. dif \in [1..n -> Normal] /\ m \in Normal /\ m[1] > 0
  <2>1. \A i \in 1..n : Minus(mestpos[i], mestneg[i]) \in Normal
    BY <1>1, NormalTypes
  <2> QED BY <1>5, <1>9, <2>1 DEF Pooled
<1>11. ASSUME NEW i \in 1..n PROVE Times(m, dif[i]) = Plus(s[i], t[i])
  <2>1. PICK g, h, c : g = p[i] /\ h = q[i] /\ c = covar[i]
    OBVIOUS
  <2>2. /\ g \in [1..n -> Normal] /\ h \in [1..n -> Normal] /\ c \in [1..n -> Normal]
        /\ \A j \in 1..n : Times(m, c[j]) = Plus(g[j], h[j])
    BY <1>5, <2>1 DEF Pooled
  <2>3. PICK w : AreMultiples(n, w, m, c)
    BY <1>1, <1>10, <2>2, MultiplesExist
  <2>4. AreSums(n, w, g, h)
    BY <2>2, <2>3 DEF AreMultiples, AreSums
  <2>5. Project(w, b) = Times(m, Project(c, b))
    BY <1>3, <2>3, ProjectTimes
  <2>6. Project(w, b) = Plus(Project(g, b), Project(h, b))
    BY <1>3, <2>4, ProjectPlus
  <2>7. Project(c, b) = dif[i]
    BY <1>2, <1>9, <2>1
  <2>8. s[i] = Project(g, b) /\ t[i] = Project(h, b)
    BY <1>4, <1>7, <2>1 DEF Rows
  <2> QED BY <2>5, <2>6, <2>7, <2>8
<1>12. PICK u : AreMultiples(n, u, m, dif)
  BY <1>1, <1>10, MultiplesExist
<1>13. AreSums(n, u, s, t)
  BY <1>8, <1>11, <1>12 DEF AreMultiples, AreSums
<1>14. PICK x, e, f : x = Project(dif, b) /\ e = Quadratic(n, y, b, cp) /\ f = Quadratic(n, z, b, cn)
  OBVIOUS
<1>15. Times(m, x) = Plus(e, f)
  <2>1. Project(u, b) = Times(m, Project(dif, b))
    BY <1>3, <1>12, ProjectTimes
  <2>2. Project(u, b) = Plus(Project(s, b), Project(t, b))
    BY <1>3, <1>13, ProjectPlus
  <2> QED BY <1>7, <1>14, <2>1, <2>2 DEF Quadratic
<1>16. e \in Normal /\ e[1] >= 0 /\ (e = Zero => \A i \in 1..n : s[i] = Zero)
  BY <1>3, <1>6, <1>7, <1>14, QuadraticPositive
<1>17. f \in Normal /\ f[1] >= 0 /\ (f = Zero => \A i \in 1..n : t[i] = Zero)
  BY <1>3, <1>6, <1>7, <1>14, QuadraticPositive
<1>18. Plus(e, f)[1] >= 0 /\ (Plus(e, f) = Zero => e = Zero /\ f = Zero)
  BY <1>16, <1>17, PlusPositive
<1>19. ASSUME NEW v \in [1..n -> Normal] PROVE Project(v, b) \in Normal
  <2>1. PICK a : AreProducts(n, a, v, b)
    BY <1>2 DEF AreProducts
  <2> QED BY <1>3, <2>1, ProjectSum
<1>20. x \in Normal /\ Project(mestpos, b) \in Normal /\ Project(mestneg, b) \in Normal
  BY <1>1, <1>10, <1>14, <1>19
<1>21. x = Minus(Project(mestpos, b), Project(mestneg, b))
  <2>1. \A i \in 1..n : mestpos[i] = Plus(dif[i], mestneg[i])
    <3> TAKE i \in 1..n
    <3>1. mestpos[i] \in Normal /\ mestneg[i] \in Normal /\ dif[i] = Minus(mestpos[i], mestneg[i])
      BY <1>1, <1>9
    <3> QED BY <3>1, PlusLaws
  <2>2. AreSums(n, mestpos, dif, mestneg)
    BY <1>1, <1>10, <2>1 DEF AreSums
  <2>3. Project(mestpos, b) = Plus(Project(dif, b), Project(mestneg, b))
    BY <1>3, <2>2, ProjectPlus
  <2>4. PICK d : d = Project(mestneg, b)
    OBVIOUS
  <2>5. Minus(Plus(x, d), d) = x
    BY <1>20, <2>4, PlusLaws
  <2> QED BY <1>14, <2>3, <2>4, <2>5
<1>22. x[1] >= 0 /\ (Times(m, x) = Zero => x = Zero)
  BY <1>10, <1>15, <1>18, <1>20, FactorPositive
<1>23. ASSUME x = Zero PROVE mestpos = mestneg
  <2>1. Zero \in Normal
    BY NormalIsRational
  <2>2. Times(m, x) = Zero
    BY <1>10, <1>23, TimesLaws
  <2>3. \A i \in 1..n : s[i] = Zero /\ t[i] = Zero
    BY <1>15, <1>16, <1>17, <1>18, <2>2
  <2>4. Plus(Zero, Zero) = Zero
    BY <2>1, PlusLaws
  <2>5. ASSUME NEW i \in 1..n PROVE mestpos[i] = mestneg[i]
    <3>1. Times(m, dif[i]) = Zero /\ dif[i] \in Normal
      BY <1>10, <1>11, <2>3, <2>4
    <3>2. dif[i] = Zero
      BY <1>10, <3>1, FactorPositive
    <3>3. PICK g, h : g = mestpos[i] /\ h = mestneg[i]
      OBVIOUS
    <3>4. g \in Normal /\ h \in Normal /\ Minus(g, h) = Zero
      BY <1>1, <1>9, <3>2, <3>3
    <3>5. Plus(Minus(g, h), h) = g /\ Plus(h, Zero) = h /\ Plus(Zero, h) = Plus(h, Zero)
      BY <2>1, <3>4, PlusLaws
    <3> QED BY <3>3, <3>4, <3>5
  <2> QED BY <1>1, <2>5
<1> QED BY <1>20, <1>21, <1>22, <1>23

LEMMA FirstOfAll ==
    ASSUME NEW npoints, NEW queue, Points(queue, npoints), Len(queue) >= 2
    PROVE  FirstOf(queue, Len(queue)) = queue
<1>1. PICK s \in Seq(Seq(Int)) : s = queue
  BY DEF Points
<1>2. Len(s) \in Nat /\ Len(s) # 0
  BY <1>1
<1>3. SubSeq(s, 1, Len(s)) = s
  BY <1>2
<1> QED BY <1>1, <1>2, <1>3 DEF FirstOf

\* What is known of a decision that is printed: its parts are those of the estimates.
Solution(e, n, mestpos, mestneg, inverse) ==
    /\ e.npoints = n /\ n \in Nat
    /\ Points(e.positiveq, n) /\ Points(e.negativeq, n)
    /\ Len(e.positiveq) \in Nat /\ Len(e.positiveq) >= 2
    /\ Len(e.negativeq) \in Nat /\ Len(e.negativeq) >= 2
    /\ mestpos = MeanEst(e.positiveq, n) /\ mestneg = MeanEst(e.negativeq, n)
    /\ inverse = MatrixInvert(CovarEst(e.positiveq, e.negativeq, mestpos, mestneg, n)) /\ ~inverse.singular
    /\ e.b = [r \in 1..n |-> SumOf([c \in 1..n |-> Times(inverse.a[r][c], Minus(mestpos[c], mestneg[c]))])]
    /\ e.projpos = Project(mestpos, e.b) /\ e.projneg = Project(mestneg, e.b)

LEMMA ComputeSolution ==
    ASSUME NEW d, Lines(d), ~Untrained(Compute(d, FALSE))
    PROVE  \E n, mestpos, mestneg, inverse : Solution(Compute(d, FALSE), n, mestpos, mestneg, inverse)
<1> DEFINE positive == FirstOf(d.positiveq, Len(d.positiveq))
           negative == FirstOf(d.negativeq, Len(d.negativeq))
           mestpos == MeanEst(positive, d.npoints)
           mestneg == MeanEst(negative, d.npoints)
           inverse == MatrixInvert(CovarEst(positive, negative, mestpos, mestneg, d.npoints))
           sol == [r \in 1..d.npoints |->
                      SumOf([c \in 1..d.npoints |-> Times(inverse.a[r][c], Minus(mestpos[c], mestneg[c]))])]
           with == [d EXCEPT !.b = sol, !.projpos = Project(mestpos, sol), !.projneg = Project(mestneg, sol),
                             !.trained = {<<"pos", n>> : n \in DOMAIN positive}
                                         \cup {<<"neg", n>> : n \in DOMAIN negative}]
           e == Compute(d, FALSE)
<1>1. ~TooFew(d) /\ ~inverse.singular /\ e = SetBoundary(with, d.where)
  <2>1. \A why \in {"failed", "undefined"} : Untrained(Unusable(why))
    BY DEF Untrained, Unusable, New
  <2>2. e = IF TooFew(d) THEN Unusable("failed")
            ELSE IF Len(positive) + Len(negative) = 2 THEN Unusable("undefined")
            ELSE IF inverse.singular THEN Unusable("failed")
            ELSE SetBoundary(with, d.where)
    BY DEF Compute
  <2> HIDE DEF with, inverse, positive, negative, e
  <2> QED BY <2>1, <2>2 DEF e
<1>2. /\ Points(d.positiveq, d.npoints) /\ Points(d.negativeq, d.npoints) /\ d.npoints \in Nat
      /\ DOMAIN d = DOMAIN New
  BY DEF Lines
<1>3. Len(d.positiveq) \in Nat /\ Len(d.negativeq) \in Nat
  BY <1>2 DEF Points
<1>4. Len(d.positiveq) >= 2 /\ Len(d.negativeq) >= 2
  <2>1. ~TooFew(d)
    BY <1>1
  <2>2. PICK m, n \in Nat : m = Len(d.positiveq) /\ n = Len(d.negativeq)
    BY <1>3
  <2> QED BY <2>1, <2>2 DEF TooFew
<1>5. positive = d.positiveq /\ negative = d.negativeq
  BY <1>2, <1>4, FirstOfAll
<1> HIDE DEF positive, negative
<1>6. PICK t : t = {<<"pos", n>> : n \in DOMAIN positive} \cup {<<"neg", n>> : n \in DOMAIN negative}
  OBVIOUS
<1>7. PICK x, y, s, p, q, inv :
        /\ x = Project(mestpos, sol) /\ y = Project(mestneg, sol) /\ s = sol
        /\ p = mestpos /\ q = mestneg /\ inv = inverse
  OBVIOUS
<1>8. with = [d EXCEPT !.b = s, !.projpos = x, !.projneg = y, !.trained = t]
  BY <1>6, <1>7
<1>9. /\ p = MeanEst(d.positiveq, d.npoints) /\ q = MeanEst(d.negativeq, d.npoints)
      /\ inv = MatrixInvert(CovarEst(d.positiveq, d.negativeq, p, q, d.npoints)) /\ ~inv.singular
      /\ s = [r \in 1..d.npoints |-> SumOf([c \in 1..d.npoints |-> Times(inv.a[r][c], Minus(p[c], q[c]))])]
      /\ x = Project(p, s) /\ y = Project(q, s)
  BY <1>1, <1>5, <1>7
<1> HIDE DEF with, sol, inverse, mestpos, mestneg
<1>10. PICK k : e = [with EXCEPT !.k = k]
  BY <1>1 DEF SetBoundary
<1> HIDE DEF e
<1>11. /\ DOMAIN with = DOMAIN New /\ with.npoints = d.npoints /\ with.b = s
       /\ with.projpos = x /\ with.projneg = y
       /\ with.positiveq = d.positiveq /\ with.negativeq = d.negativeq
  BY <1>2, <1>8, Parts
<1>12. /\ e.npoints = d.npoints /\ e.b = s /\ e.projpos = x /\ e.projneg = y
       /\ e.positiveq = d.positiveq /\ e.negativeq = d.negativeq
  BY <1>10, <1>11, Parts
<1>13. Solution(e, d.npoints, p, q, inv)
  BY <1>2, <1>3, <1>4, <1>9, <1>12 DEF Solution
<1> QED BY <1>13 DEF e

\* The body of ProjectionSolves, of any decision.
Solves(e) ==
    LET mestpos == MeanEst(e.positiveq, e.npoints)
        mestneg == MeanEst(e.negativeq, e.npoints)
        covar   == CovarEst(e.positiveq, e.negativeq, mestpos, mestneg, e.npoints)
    IN  /\ \A i \in DOMAIN e.b : Project(covar[i], e.b) = Minus(mestpos[i], mestneg[i])
        /\ ~Less(e.projpos, e.projneg)
        /\ mestpos # mestneg =>
            /\ Classify(SetBoundary(e, <<1, 2>>), mestpos)
            /\ ~Classify(SetBoundary(e, <<1, 2>>), mestneg)

LEMMA BoundaryBetween ==
    ASSUME NEW e, DOMAIN e = DOMAIN New, NEW p, NEW q,
           e.projpos = Project(p, e.b), e.projneg = Project(q, e.b),
           Less(e.projneg, e.projpos),
           Less(Plus(Times(Minus(e.projpos, e.projneg), <<1, 2>>), e.projneg), e.projpos),
           ~Less(Plus(Times(Minus(e.projpos, e.projneg), <<1, 2>>), e.projneg), e.projneg)
    PROVE  Classify(SetBoundary(e, <<1, 2>>), p) /\ ~Classify(SetBoundary(e, <<1, 2>>), q)
<1>1. PICK k, s : k = Plus(Times(Minus(e.projpos, e.projneg), <<1, 2>>), e.projneg) /\ s = SetBoundary(e, <<1, 2>>)
  OBVIOUS
<1>2. s = [e EXCEPT !.k = k]
  BY <1>1 DEF SetBoundary
<1>3. s.k = k /\ s.projpos = e.projpos /\ s.projneg = e.projneg /\ s.b = e.b
  BY <1>2, Parts
<1>4. Classify(s, p) /\ ~Classify(s, q)
  BY <1>1, <1>3 DEF Classify
<1> QED BY <1>1, <1>4

LEMMA SolutionSolves ==
    ASSUME NEW e, DOMAIN e = DOMAIN New, NEW n, NEW mestpos, NEW mestneg, NEW inverse,
           Solution(e, n, mestpos, mestneg, inverse)
    PROVE  Solves(e)
<1>1. /\ e.npoints = n /\ n \in Nat
      /\ Points(e.positiveq, n) /\ Points(e.negativeq, n)
      /\ Len(e.positiveq) \in Nat /\ Len(e.positiveq) >= 2
      /\ Len(e.negativeq) \in Nat /\ Len(e.negativeq) >= 2
      /\ mestpos = MeanEst(e.positiveq, n) /\ mestneg = MeanEst(e.negativeq, n)
      /\ inverse = MatrixInvert(CovarEst(e.positiveq, e.negativeq, mestpos, mestneg, n)) /\ ~inverse.singular
      /\ e.b = [r \in 1..n |-> SumOf([c \in 1..n |-> Times(inverse.a[r][c], Minus(mestpos[c], mestneg[c]))])]
      /\ e.projpos = Project(mestpos, e.b) /\ e.projneg = Project(mestneg, e.b)
  BY DEF Solution
<1>2. PICK positive, negative, b, cp, cn :
        positive = e.positiveq /\ negative = e.negativeq /\ b = e.b /\ cp = Len(positive) /\ cn = Len(negative)
  OBVIOUS
<1>3. /\ Points(positive, n) /\ Points(negative, n) /\ cp \in Nat /\ cp >= 2 /\ cn \in Nat /\ cn >= 2
      /\ positive # <<>> /\ negative # <<>>
  <2>1. Len(<<>>) = 0
    OBVIOUS
  <2> QED BY <1>1, <1>2, <2>1
<1>4. mestpos \in [1..n -> Normal] /\ mestneg \in [1..n -> Normal]
  <2>1. n \in Nat /\ mestpos = MeanEst(positive, n) /\ mestneg = MeanEst(negative, n)
    BY <1>1, <1>2
  <2>2. mestpos \in [1..n -> Normal]
    BY <1>3, <2>1, MeanType
  <2>3. mestneg \in [1..n -> Normal]
    BY <1>3, <2>1, MeanType
  <2> QED BY <2>2, <2>3
<1>5. PICK covar : covar = CovarEst(positive, negative, mestpos, mestneg, n)
  OBVIOUS
<1>6. IsMatrix(covar, n) /\ IsMatrix(inverse.a, n) /\ inverse = MatrixInvert(covar) /\ ~inverse.singular
  <2>1. mestpos \in [1..n -> Rational] /\ mestneg \in [1..n -> Rational]
    BY <1>4, NormalIsRational
  <2>2. Len(positive) + Len(negative) # 2
    <3>1. cp + cn # 2
      BY <1>3
    <3> QED BY <1>2, <3>1
  <2>3. IsMatrix(covar, n)
    BY <1>1, <1>3, <1>5, <2>1, <2>2, CovarType
  <2>4. inverse = MatrixInvert(covar) /\ ~inverse.singular
    BY <1>1, <1>2, <1>5
  <2>5. IsMatrix(inverse.a, n)
    BY <1>1, <2>3, <2>4, InverseType
  <2> QED BY <2>3, <2>4, <2>5
<1>7. PICK y : y = [c \in 1..n |-> Minus(mestpos[c], mestneg[c])]
  OBVIOUS
<1>8. y \in [1..n -> Normal]
  <2>1. \A c \in 1..n : Minus(mestpos[c], mestneg[c]) \in Normal
    BY <1>4, NormalTypes
  <2> QED BY <1>7, <2>1
<1>9. b = InverseTimes(n, MatrixInvert(covar).a, y)
  <2>1. ASSUME NEW r \in 1..n
        PROVE  Project(inverse.a[r], y) = SumOf([c \in 1..n |-> Times(inverse.a[r][c], Minus(mestpos[c], mestneg[c]))])
    <3>1. DOMAIN y = 1..n /\ \A c \in 1..n : y[c] = Minus(mestpos[c], mestneg[c])
      BY <1>7
    <3>2. [c \in DOMAIN y |-> Times(inverse.a[r][c], y[c])]
            = [c \in 1..n |-> Times(inverse.a[r][c], Minus(mestpos[c], mestneg[c]))]
      BY <3>1
    <3> QED BY <3>2 DEF Project
  <2> QED BY <1>1, <1>2, <1>6, <2>1 DEF InverseTimes
<1>10. b \in [1..n -> Normal]
  <2>1. ASSUME NEW r \in 1..n PROVE Project(MatrixInvert(covar).a[r], y) \in Normal
    <3>1. PICK v : v = MatrixInvert(covar).a[r]
      OBVIOUS
    <3>2. v \in [1..n -> Normal]
      BY <1>6, <3>1 DEF IsMatrix
    <3>3. PICK f : AreProducts(n, f, v, y)
      BY <1>8, <3>2 DEF AreProducts
    <3> QED BY <1>1, <3>1, <3>3, ProjectSum
  <2> QED BY <1>9, <2>1 DEF InverseTimes
<1>11. \A i \in 1..n : Project(covar[i], b) = Minus(mestpos[i], mestneg[i])
  <2> TAKE i \in 1..n
  <2>1. ~MatrixInvert(covar).singular
    BY <1>6
  <2>2. Project(covar[i], b) = y[i]
    BY <1>1, <1>6, <1>8, <1>9, <2>1, InverseSolves
  <2> QED BY <1>7, <2>2
<1>12. /\ e.projpos \in Normal /\ e.projneg \in Normal
       /\ Minus(e.projpos, e.projneg)[1] >= 0
       /\ Minus(e.projpos, e.projneg) = Zero => mestpos = mestneg
  <2>1. PICK m, z, w : AreEstimates(n, positive, negative, mestpos, mestneg, cp, cn, m, z, w, covar)
    BY <1>1, <1>2, <1>3, <1>4, <1>5 DEF AreEstimates
  <2>2. ProjectsTo(n, covar, b, mestpos, mestneg)
    BY <1>10, <1>11 DEF ProjectsTo
  <2>3. /\ Project(mestpos, b) \in Normal /\ Project(mestneg, b) \in Normal
        /\ Minus(Project(mestpos, b), Project(mestneg, b))[1] >= 0
        /\ Minus(Project(mestpos, b), Project(mestneg, b)) = Zero => mestpos = mestneg
    BY <1>3, <2>1, <2>2, Discriminates
  <2> QED BY <1>1, <1>2, <2>3
<1>13. ~Less(e.projpos, e.projneg)
  BY <1>12, MiddleRight
<1>14. ASSUME mestpos # mestneg
       PROVE  Classify(SetBoundary(e, <<1, 2>>), mestpos) /\ ~Classify(SetBoundary(e, <<1, 2>>), mestneg)
  <2>1. PICK f, g : f = e.projpos /\ g = e.projneg
    OBVIOUS
  <2>2. f \in Normal /\ g \in Normal /\ Minus(f, g)[1] >= 0 /\ Minus(f, g) # Zero
    BY <1>12, <1>14, <2>1
  <2>3. Less(g, f) /\ Less(Plus(Times(Minus(f, g), <<1, 2>>), g), f) /\ ~Less(Plus(Times(Minus(f, g), <<1, 2>>), g), g)
    BY <2>2, MiddleRight
  <2> QED BY <1>1, <2>1, <2>3, BoundaryBetween
<1>15. DOMAIN e.b = 1..n
  BY <1>2, <1>10
<1>16. \A i \in DOMAIN e.b : Project(covar[i], e.b) = Minus(mestpos[i], mestneg[i])
  BY <1>2, <1>11, <1>15
<1> QED BY <1>1, <1>2, <1>5, <1>13, <1>14, <1>16 DEF Solves

\* What is printed is what cd_compute() made of the lines.
ComputedInv == training = "printed" => Lines(cdd) /\ Solves(cdd)

LEMMA ComputedStep ==
    ASSUME TrainingInv, ComputedInv, [DiscriminantNext]_discriminantVars
    PROVE  ComputedInv'
<1>1. CASE TrainAll
  <2>1. Lines(cdd)
    BY <1>1 DEF TrainAll, TrainingInv, LinesInv
  <2>2. PICK d : /\ d = Compute(cdd, FALSE)
                 /\ IF Untrained(d) THEN training' = d.transform ELSE training' = "printed" /\ cdd' = d
    BY <1>1 DEF TrainAll
  <2>3. CASE Untrained(d)
    <3>1. training' \in {"failed", "undefined"}
      BY <2>2, <2>3 DEF Untrained
    <3> QED BY <3>1 DEF ComputedInv
  <2>4. CASE ~Untrained(d)
    <3>1. Lines(d)
      BY <2>1, <2>2, <2>4, TrainedFacts
    <3>2. PICK n, mestpos, mestneg, inverse : Solution(d, n, mestpos, mestneg, inverse)
      BY <2>1, <2>2, <2>4, ComputeSolution
    <3>3. Solves(d)
      BY <3>1, <3>2, SolutionSolves DEF Lines
    <3>4. cdd' = d
      BY <2>2, <2>4
    <3> QED BY <3>1, <3>3, <3>4 DEF ComputedInv
  <2> QED BY <2>3, <2>4
<1>2. CASE ProcessLine \/ Train \/ TestAccuracy \/ Detecting
  <2>1. training' # "printed"
    <3>1. CASE ProcessLine
      BY <3>1 DEF ProcessLine
    <3>2. CASE Train
      BY <3>2 DEF Train, Untrained
    <3>3. CASE TestAccuracy
      BY <3>3 DEF TestAccuracy
    <3>4. CASE Detecting
      BY <3>4 DEF Detecting
    <3> QED BY <1>2, <3>1, <3>2, <3>3, <3>4
  <2> QED BY <2>1 DEF ComputedInv
<1>3. CASE UNCHANGED discriminantVars
  BY <1>3 DEF ComputedInv, discriminantVars
<1> QED BY <1>1, <1>2, <1>3 DEF DiscriminantNext

\* The projection that is printed solves the linear system of the covariances, whatever pivots
\* the inversion took, and the images with hidden content are on the upper side of the boundary
\* in the middle; and the accuracy was measured with images that were held back
\* (matrix_invert(), cd_compute(), cd_test()).
THEOREM TrainingCorrect == DiscriminantSpec => []TrainingRight
<1>1. DiscriminantInit => ComputedInv
  BY DEF DiscriminantInit, ComputedInv
<1>2. TrainingInv /\ ComputedInv /\ [DiscriminantNext]_discriminantVars => ComputedInv'
  BY ComputedStep
<1>3. ComputedInv => ProjectionSolves
  BY DEF ComputedInv, ProjectionSolves, Solves
<1>4. ProjectionSolves /\ HeldOut => TrainingRight
  BY DEF TrainingRight
<1>5. DiscriminantSpec => []TrainingInv
  BY TrainingIndInv
<1>6. DiscriminantSpec => []HeldOut
  BY HeldOutCorrect
<1> QED BY <1>1, <1>2, <1>3, <1>4, <1>5, <1>6, PTL DEF DiscriminantSpec
=============================================================================
