------------------------------- MODULE Objects -------------------------------
(***************************************************************************)
(* stegbreak's objects: what it keeps of an image for the attack.  With -c *)
(* it writes them to files, without it it makes them from images or reads  *)
(* them from such files (main(), process_loop(), doinsert(), doconvert()   *)
(* and the read, write and prepare functions of break_*.c), and tries      *)
(* words on them.  Here stegbreak is run twice, the first time with -c.    *)
(*                                                                         *)
(* One object, chosen freely of those loaded, stands for all that words    *)
(* are tried on; the bits that its key gives are free.                     *)
(***************************************************************************)
EXTENDS JphideObject, JstegObject

CONSTANTS
    Bases,   \* names of files without their extension
    Images,  \* what an image may hold, see ImageType
    OgMax,   \* coefficients an outguess object has room for
    MAX_FILES,
    Scans,   \* what -t may give: sets of extensions
    MaxArgs, \* bound: files on the command line
    MaxWords \* bound: calls of get_word() for a word

Handlers == <<".jph", ".og", ".jsg">>
JpgNames == {".jpg", ".jpeg"}
Names == Bases \X (JpgNames \cup Range(Handlers) \cup {".txt"})

ASSUME ObjectsAssumption ==
    /\ OgMax \in Nat \ {0} /\ MAX_FILES \in Nat \ {0} /\ {MaxWords, MaxArgs} \subseteq Nat
    /\ Scans \subseteq SUBSET Range(Handlers)
    /\ \A image \in Images :
        /\ image.wib \in [Component -> Nat \ {0}] /\ image.hib \in [Component -> Nat \ {0}]
        /\ image.jphide_bits \in Nat /\ image.dcts \in Seq({0, 1})

VARIABLES
    files,   \* by name: an image, or what an object's file holds
    convert, scans, args, i, n,
    phase,   \* args, handlers, crack, walk, done, crash
    name, handle, res,  \* locals of doinsert(): the file, entry of handlers[], res
    after,   \* the word of memory that follows handlers[]: null or other
    db,      \* the objects loaded: [name, type, obj]
    job, cursor, where, words, taken

argVars  == <<convert, scans, args, i, n>>
walkVars == <<job, cursor, where, words, taken>>
vars == <<files, argVars, phase, name, handle, res, after, db, walkVars>>

NoFile == [kind |-> "none"]
Image(image) == [kind |-> "image", image |-> image]
NoTaken == [y |-> Unset, place |-> Unset]

\* break_outguess_prepare(): the low bits of the coefficients, as far as they go.
PrepareOutguess(dcts) ==
    [bits |-> Len(dcts), coeff |-> [k \in 1..OgMax |-> IF k <= Len(dcts) THEN k ELSE NoBit]]

\* obj_read_jpg() of a handler; a file that jpg_open() does not like gives none.
ReadJpg(type, file) ==
    IF file.kind # "image" THEN NoObject
    ELSE CASE type = ".jph" -> PrepareJphide(file.image)
           [] type = ".og"  -> PrepareOutguess(file.image.dcts)
           [] type = ".jsg" -> PrepareJsteg(file.image.dcts)

\* obj_write(): the file cannot be opened, is written, or not to its end.
Written(name_, type, obj) ==
    {files} \cup {[files EXCEPT ![name_] = [kind |-> type, obj |-> obj, size |-> s]] :
                      s \in {"full", "short"}}

\* obj_read(): a file of another size than an object has is none, but for those
\* of the jsteg objects of before, which had no header: its memory is as malloc()
\* left it.  (An object's extension on another kind of file is not looked at here.)
ReadObject(type, file) ==
    IF file.kind # type THEN NoObject
    ELSE IF type = ".jsg" /\ file.size = "old"
         THEN [file.obj EXCEPT !.header = [k \in DOMAIN @ |-> NoBit]]
    ELSE IF file.size # "full" THEN NoObject
    ELSE IF type = ".jph" THEN ThroughFile(file.obj) ELSE file.obj

-----------------------------------------------------------------------------

Init ==
    /\ \E given \in {D \in SUBSET (Bases \X JpgNames) : Cardinality(D) \in 1..MaxArgs} :
        \E images \in [given -> Images] :
            /\ files = [f \in Names |-> IF f \in given THEN Image(images[f]) ELSE NoFile]
            /\ args \in SetToSeqs(given)
    /\ convert = TRUE /\ scans \in Scans /\ i = 0 /\ n = 0
    /\ phase = "args" /\ name = <<>> /\ handle = 1 /\ res = 0
    /\ after \in {"null", "other"} /\ db = {}
    /\ job = NoObject /\ cursor = StartCursor /\ where = 0 /\ words = 0 /\ taken = NoTaken

Loaded(f, type, obj) == [name |-> f, type |-> type, obj |-> obj]

\* The end of process_loop(), with what doinsert() returned.
Counted(result, ni, nn) ==
    LET i1 == IF result # -1 THEN ni + 1 ELSE ni
        n1 == IF result # -1 THEN nn + 1 ELSE nn
    IN  /\ n' = n1
        /\ IF ~convert /\ i1 >= MAX_FILES
           THEN phase' = "crack" /\ i' = 0
           ELSE phase' = "args"  /\ i' = i1

\* doinsert() of a file that is not a JPEG image by its name: with -c there is
\* nothing to do; one with no handler's extension sends the search past the table.
InsertObject ==
    /\ phase = "args" /\ args # <<>> /\ args[1][2] \notin JpgNames
    /\ args' = Tail(args)
    /\ LET f    == args[1]
           type == f[2]
           obj  == ReadObject(type, files[f])
       IN  IF convert \/ (type \in Range(Handlers) /\ obj = NoObject)
           THEN Counted(-1, i, n) /\ UNCHANGED db
           ELSE IF type \in Range(Handlers)
           THEN Counted(0, i, n) /\ db' = db \cup {Loaded(f, type, obj)}
           ELSE /\ IF after = "null" THEN Counted(-1, i, n)
                   ELSE phase' = "crash" /\ UNCHANGED <<i, n>>
                /\ UNCHANGED db
    /\ UNCHANGED <<files, convert, scans, name, handle, res, after, walkVars>>

\* doinsert() of an image: the loop over the handlers begins.
InsertImage ==
    /\ phase = "args" /\ args # <<>> /\ args[1][2] \in JpgNames
    /\ args' = Tail(args) /\ name' = args[1]
    /\ phase' = "handlers" /\ handle' = 1 /\ res' = -1
    /\ UNCHANGED <<files, convert, scans, i, n, after, db, walkVars>>

\* A handler that -t asks for, or not.  What doconvert() returns is not looked at.
Handle ==
    /\ phase = "handlers" /\ handle <= Len(Handlers)
    /\ LET type == Handlers[handle]
           obj  == ReadJpg(type, files[name])
       IN  IF type \notin scans \/ obj = NoObject
           THEN UNCHANGED <<files, db, res>>
           ELSE /\ res' = 0
                /\ IF convert
                   THEN files' \in Written(<<name[1], type>>, type, obj) /\ UNCHANGED db
                   ELSE db' = db \cup {Loaded(name, type, obj)} /\ UNCHANGED files
    /\ handle' = handle + 1
    /\ UNCHANGED <<argVars, phase, name, after, walkVars>>

\* The table has no last entry: the loop ends if what follows it is null.
HandlersEnd ==
    /\ phase = "handlers" /\ handle > Len(Handlers)
    /\ IF after = "null" THEN Counted(res, i, n)
       ELSE phase' = "crash" /\ UNCHANGED <<i, n>>
    /\ UNCHANGED <<files, convert, scans, args, name, handle, res, after, db, walkVars>>

\* The end of main()'s loop; without -c the last batch is still to be tried.
ArgsEnd ==
    /\ phase = "args" /\ args = <<>>
    /\ IF ~convert /\ i > 0
       THEN phase' = "crack" /\ i' = 0 ELSE phase' = "done" /\ UNCHANGED i
    /\ UNCHANGED <<files, convert, scans, args, n, name, handle, res, after, db, walkVars>>

\* stegbreak is started again on what there is now, which may be of an old version
\* of it or have been renamed.
Again ==
    /\ phase = "done" /\ convert
    /\ convert' = FALSE /\ scans' \in Scans /\ i' = 0 /\ n' = 0 /\ phase' = "args"
    /\ files' \in {files} \cup
            {[files EXCEPT ![f].size = "old"] :
                f \in {g \in Names : files[g].kind = ".jsg" /\ files[g].size = "full"}}
    /\ args' \in UNION {SetToSeqs(D) : D \in {E \in SUBSET Names : Cardinality(E) \in 1..MaxArgs}}
    /\ UNCHANGED <<name, handle, res, after, db, walkVars>>

\* crack_jphide() on an object: break_jphide_setup(), for either version.
Setup ==
    /\ phase = "crack"
    /\ \E l \in {x \in db : x.type = ".jph"} : job' = l
    /\ cursor' = StartCursor /\ where' = 0 /\ words' = 0 /\ taken' = NoTaken
    /\ phase' = "walk"
    /\ UNCHANGED <<files, argVars, name, handle, res, after, db>>

\* Mutant of GetWord: the IV is passed over without being counted.
GetWordKeepsWhere ==
    /\ phase = "walk" /\ words < MaxWords /\ ~cursor.ended
    /\ cursor' = Advance(cursor, job.obj.wib, job.obj.hib)
    /\ words' = words + 1
    /\ IF cursor'.ended THEN UNCHANGED <<where, taken>>
       ELSE /\ where' = (IF IsIv(cursor') THEN where ELSE where + 1)
            /\ taken' = [y |-> CoeffAt(job.obj, where), place |-> Place(cursor')]
    /\ UNCHANGED <<files, argVars, phase, name, handle, res, after, db, job>>

\* A turn of the loop of get_word(): a coefficient is taken; whether it is passed
\* over, for its value or the key's bits, is free but for the IV.
GetWord ==
    /\ phase = "walk" /\ words < MaxWords /\ ~cursor.ended
    /\ cursor' = Advance(cursor, job.obj.wib, job.obj.hib)
    /\ words' = words + 1
    /\ IF cursor'.ended THEN UNCHANGED <<where, taken>>
       ELSE /\ where' = where + 1
            /\ taken' = [y |-> CoeffAt(job.obj, where), place |-> Place(cursor')]
    /\ UNCHANGED <<files, argVars, phase, name, handle, res, after, db, job>>

\* do_wordlist_crack() returns: db_flush() has freed the objects.
Cracked ==
    /\ phase = "walk" \/ (phase = "crack" /\ \A l \in db : l.type # ".jph")
    /\ phase' = "args" /\ db' = {}
    /\ UNCHANGED <<files, argVars, name, handle, res, after, walkVars>>

Next ==
    \/ InsertObject \/ InsertImage \/ Handle \/ HandlersEnd \/ ArgsEnd \/ Again
    \/ Setup \/ GetWord \/ Cracked

Spec == Init /\ [][Next]_vars

-----------------------------------------------------------------------------

\* The images, of those in files_, that an object with this name can have been made of.
ImagesIn(files_, f) ==
    {files_[g].image : g \in {h \in Bases \X JpgNames :
        /\ h[1] = f[1] /\ files_[h].kind = "image"
        /\ f[2] \in JpgNames => h = f}}

ImagesOf(f) == ImagesIn(files, f)

\* The widths and heights of an image that 16 bits are enough for.
Fits(image) ==
    \A c \in Component : DCTSIZE2 * image.wib[c] - 1 < ShortRange /\ image.hib[c] < ShortRange

\* The walk over an object and the walk that made it are two loops which share
\* nothing but the widths and the heights; still each coefficient that a key is
\* tried on is the one which the cursors say, also when the object has been
\* written and read, if its widths fit and as far as coeff[] goes.
SameWalk ==
    (taken # NoTaken /\ where <= NCoeff /\ \A image \in ImagesOf(job.name) : Fits(image))
        => taken.y = taken.place

\* The bytes of a jsteg object are those of the message which the key stream's
\* bytes they are decrypted with belong to: the last, and the first.  (A length
\* whose bits an int cannot count is not recognised as too long.)
JstegAligned(job_, image) ==
    LET size    == JstegSize(image.dcts)
        Bit(k)  == size.off + k
        bytes   == 0..JSTEGBYTES - 1
    IN  size.bytes * ByteBits < IntRange \div 2 =>
            /\ \A k \in bytes, b \in 1..ByteBits :
                LET bit == job_.coeff[ByteBits * k + b]
                IN  bit = Bit(ByteBits * KeyByteOf(job_, k) + b) /\ bit \in DOMAIN image.dcts
            /\ KeyByteOf(job_, JSTEGBYTES) = size.bytes
            /\ \A k \in DOMAIN job_.header :
                job_.header[k] # NoBit => job_.header[k] = Bit(k) /\ Bit(k) \in DOMAIN image.dcts

\* What the attack needs of an image.
IsObjectOf(type, obj, image) ==
    CASE type = ".jph" -> Fits(image) => obj = PrepareJphide(image)
      [] type = ".og"  -> obj = PrepareOutguess(image.dcts)
      [] type = ".jsg" -> JstegAligned(obj, image)

\* What lies in files is an image, or what a handler has made of one of that name.
FilesKept ==
    /\ DOMAIN files = Names
    /\ \A f \in Names : f[2] \in JpgNames =>
            files[f] = NoFile \/ \E image \in Images : files[f] = Image(image)
    /\ \A f \in Names : files[f].kind \in Range(Handlers) =>
            \E image \in ImagesOf(f) : \E size \in {"full", "short", "old"} :
                LET obj == ReadJpg(files[f].kind, Image(image))
                IN  obj # NoObject /\ files[f] = [kind |-> files[f].kind, obj |-> obj, size |-> size]

\* The names that doinsert() is given.
NamesKept ==
    /\ args \in Seq(Names)
    /\ phase = "handlers" => name \in Bases \X JpgNames /\ handle \in Nat \ {0}

\* The walk over the object has come as far as the one that made it had.
WalkKept ==
    phase = "walk" =>
        /\ \E image \in ImagesOf(job.name) : Fits(image) => job.obj = PrepareJphide(image)
        /\ where \in Nat
        /\ ~cursor.ended => cursor = Collected(job.obj.wib, job.obj.hib, where).c

\* Whatever is loaded is whole, and holds of an image with its name what the
\* attack needs, whether it comes from the image or from a file that may have
\* been written only in part.
LoadedIsImage ==
    \A l \in db : \E image \in ImagesOf(l.name) : IsObjectOf(l.type, l.obj, image)
=============================================================================
