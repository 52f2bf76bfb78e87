# stegdetect in TLA+

Specifications of the stegdetect programs and of the JPEG library they are built with, their model-checking
configurations and machine-checked proofs. The reference is the C source; "l." below means a line of the file named.

## The system

| program | what it does | sources |
|---|---|---|
| `stegdetect` | looks at JPEG files for traces of jsteg, jphide, OutGuess, F5, invisible secrets, appended data or trained classes, and prints one line per file; with `-c` it trains such a class | stegdetect.c, common.c, extraction.c, discrimination.c, f5.c, jutil.c, dct.c, math.c, chi2cdf.c |
| `stegbreak` | dictionary attack on images with embedded data; images are converted to small objects first | stegbreak.c, db.c, break_*.c, cfg.c, rpp.c, rules.c, arc4.c |
| `xsteg` | GTK front end: feeds file names to a `stegdetect` child and lists its answers | xsteg.c |
| `stegcompare`, `stegdeimage` | compare the coefficients of two images; put another image behind a hidden message | stegcompare.c, stegdeimage.c |
| `jpegtran` and the library | jpeg-6b, from which stegdetect has its decoder, with callbacks added for its coefficients | jpeg-6b/ |

### Inventory

| component | state | operations | what makes it hard | what makes it correct | modules |
|---|---|---|---|---|---|
| xsteg event loop | file list with change flags; adding, stopped, change, quit; sd_pid and its pipes; five libevent events; event_gotsig | GTK handlers, directory scan, chld_write, chld_read, delayed_start, signal_cb, chld_handler | the scan runs GTK events between entries, so every handler can nest; child death is asynchronous and anonymous; one-shot events; process ids are used again | events belong to the current connection; files get current settings; no file is forgotten or out of order; the program ends after quit | Xsteg |
| coefficient histogram | DCThist and the window it holds: olddata, oldx, oldy | buildDCTreset, buildDCThist, chi2test | a cached result keyed by an address that malloc() gives again | the histogram read is that of the window and the data asked for | DctHist |
| threshold search | percent, _min, _max, _good, _iteration | a loop in three detectors, written as macros | boundary cases of the first two tests, early exit | the result was tested and is good; the search ends | BinSearch, ChiSearch |
| detect() and the JPEG session | mask, flag, jdcts, callbacks, comments, appended data | one image, start to end; jpg_open, jpg_finish, jpg_destroy | gotos, masks cleared on the way, three owners of jdcts, callbacks that outlive an open that fails | buffers are freed once; the line matches what was found; nothing of one image reaches the next | Detect, Verdict |
| F5 test | luminance, crop, temporary image, histograms | f5_getimage ... f5_compress, betakl | displaced flat arrays; int products; a division by 0 | the estimate is the displaced picture; the rate has the least squared error | F5, F5Estimate |
| feature extraction | histogram table and spline points | histogram, esterror2 | a table sized from the data, a window placed from both ends | every bucket is predicted by its neighbours | Extraction |
| discriminant analysis | sample points, means, covariance, boundary | cd_process_file, cd_compute, cd_test, cd_dump, cd_read, cd_setboundary, cd_classify | training and test parts of one queue; singular matrices; decision printed and read back | held-out test images; the projection solves its equations; more sensitive finds no less | Discriminant |
| stegbreak main loop and object list | list; word, last word, rule; dispositions of two signals | db_*, do_wordlist_crack, process_loop, signal handlers | removal while iterating; signals between any two steps; batches | every candidate is tried on every object until it is cracked; Ctrl-C as in the manual | Stegbreak |
| key caches | last word and the keys made from it | crack_jphide, crack_jsteg, crack_outguess | several static caches that must be dropped together | a test never uses another word's key | Stegbreak |
| rules | sections; ranges and their counters; word buffer | cfg_*, rpp_*, rules_check, rules_reject, rules_apply | odometer, state left from rule to rule, words that double | every combination once, words within their buffer, the right line in messages | Cfg, Rpp, Rules, Wordlist |
| object files | an image reduced to what an attack needs; files | break_*_prepare/read/write, doinsert, doconvert, get_word | two walks that must agree; narrow fields; writes that fail | what is loaded is the image's, and whole; the cracker stays on the collected coefficients | JphideObject, JstegObject, Objects |
| coefficient tools | two images, histograms | prepare_*, docompare, rework of stegdeimage | orders by sizes of two images | a message stays readable; counts belong together | Coefficients |
| library: memory | pools, virtual arrays, files | alloc_*, realize_virt_arrays, access_virt_array, free_pool | moved windows over a file; undefined rows | a virtual array is a plain array; nothing leaks | MemoryManager, PlainArray |
| library: input | bytes left, unread marker, tables, scan counters | read_markers, every get_*, consume_markers, resync, callbacks of common.c | suspension at any byte; damage | pieces make no difference; damage stays local; what stegdetect sees is the file's | JpegInput |
| library: entropy coding | tables, EOBRUN, correction bits, restart counts | both encoders and decoders, optimal tables, scripts | a decoder that starts an MCU again; runs across blocks | what is coded is decoded, with any statistics | Entropy, ScanScript |
| library: decompressor output | pointer lists, iMCU counters, strips | coefficient, main and post controllers, upsamplers, output passes | wrap-around pointers, input and output at their own pace | a line is made of its rows, of the right scans | Decompressor |
| library: quantizers | histogram that becomes a cache, colormaps, error lines | both quantizers, new_color_map, passes | one array used twice; changes between passes | nearest entry of the current map; errors carried | ColorQuantizer |
| library: compressor | rows, arrays, passes | prep, main, coef controllers, passes | context rows at the ends, dummy blocks, gathering passes, a full destination | all of the image, in order; codes from the scan's statistics | Compressor |
| library: marker writer | tables with sent_table, restart interval | jpeg_set_*, write_* | flags over several streams of one object | every stream can be decoded by who read those before | MarkerWriter |
| library: jpegtran | coefficient arrays | jtransform_*, jcopy_markers_* | partial iMCUs, transposed tables and factors | samples are moved as asked; markers are kept | Transcoder |

`Detect` composes the session with the masks of `main()`; `ChiSearch` composes the histogram with the search;
`Wordlist` composes reader, preprocessor and engine as `do_wordlist_crack()` does; `Objects` composes the two object
kinds with the file loop of `main()`. What `Stegbreak` takes from them is a list of words per rule and a list of
objects per file.

## The modules and the code

### Xsteg

One action per GTK handler, libevent callback, child step and signal. What matters is who may run inside whom:
libevent callbacks run from the loop only; GTK handlers run inside `gtk_cb()` (`phase = "gtk"`); a directory scan is
inside a handler (`depth` counts the scans that are running) and lets any GTK handler run between two directory
entries, another scan too.

| TLA+ | code |
|---|---|
| `queue`, `change` (and the field of an entry) | `filelist`, `change`, `filename->change` |
| `adding`, `stopped`, `quit` | the flags of the same name |
| `sd_pid`, `stdin_open` | `sd_pid`, `chld_stdin` |
| `ev_stdin`, `ev_read`, `gtk_ev`, `start_ev`, `gotsig` | the events of `chld_write()`, `chld_read()`, `gtk_cb()`, `delayed_start()`; `event_gotsig` |
| `cstatus`, `csettings`, `ceof`, `cintr`, `cin`, `cout` | the children and their pipes |
| `StegdetectStart`, `StegdetectStop`, `FilenameAdd` | the functions, as operators inside the actions that call them |
| `ScanStep` | `filename_adddir()` between two calls of the GTK event loop |

`settings` numbers the changes made by the user and stands for the scan mask and the sensitivity. `cancelled`,
`flushed` and `lost` are history variables: the scans a Stop was meant for, the files it dropped, and the files whose
name `chld_write()` wrote to a closed descriptor or a dead child (l. 644-655, the result of `write()` is not looked
at). Abstractions: `fork()` never returns the id still in `sd_pid`; arming an event that is already
armed is harmless; clearing the result list, sorting and the about box are left out.

### DctHist, BinSearch, ChiSearch

`DctHist` is `buildDCThist()` with its statics. `malloc()` may return any address of `Buffers`, freed ones included,
so the model has the situation in which `olddata == data` for two different images. The window of the last test that
was asked for is kept in the history variable `asked`. `BinSearch` is the three macros; the widths are integers,
scaled so that every halving is exact; `passed` and `failed` are history variables. The sum a pass gives depends only
on the width. `ChiSearch` composes them: the searches of jsteg, OutGuess and the old jphide detector, and the new
jphide detector without a search, over the same histogram. Which windows a detector asks for is any sequence.

### Detect, Verdict

| TLA+ | code |
|---|---|
| `pc` | the place in `detect()`; "opening" is inside `jpg_open()`, "failed" where it returned -1, "end" the label of that name |
| `mask`, `scans`, `flag`, `line`, `printed` | the mask `main()` computes, the copy that `detect()` changes, `flag`, `outbuf` and whether it was printed |
| `jdcts`, `jlive`, `jdata` | the local pointer; the allocated jsteg buffers, by image; what was decoded into the buffer (history) |
| `mcu_cb`, `pjdcts`, `eoi_cb`, `buflen` | the callback pointers, the frame that `jsteg_cb()` writes to, `detect_buflen` |
| `ncomments`, `clive`, `corrupt` | the comment table; the allocated comments; the images that ended in `my_error_exit()` (history) |
| `OpenMissing`, `OpenCorrupt`, `OpenRejected`, `OpenOk` | the four ways out of `jpg_open()` |
| `Begin` ... `End` | the sections of `detect()` in their order, one action each |

The number of an image also stands for the frame of the `detect()` call that works on it. A test's outcome is a
choice within what its guard allows. `LegalMasks` is what the option loop of `main()` can produce.

`Verdict` is the abstract specification: a line is said in one step, from the options, what the header rules out and
what the remaining tests find. `Detect!V` maps to it; `ImplementsVerdict` is checked and proved. That the tests that
exclude each other do is `TestsExclude`, proved with it.

### F5, F5Estimate, Extraction, Discriminant

`F5` follows `detect_f5()`: luminance from the coefficients, crop by half a block, blur, compression into a temporary
image and the histograms at the frequencies of `f5_dobeta()`. Each image is a flat array with the index arithmetic of
its function. A dequantized coefficient is kept in a short (`Short`, jutil.c l. 117) and wraps. The transform is a
constant matrix, and its result is kept exact. `F5Estimate` has `betakl()` with products that wrap as ints do, and
the misfit that it should make least. A picture of one block in a row or column leaves nothing to crop; compressing
it ends the program through the library's own error manager, and so it does in the model.

`Extraction` is `histogram()`, with the rounding of its size, and `distribution()` with the points of every spline.
`Discriminant` keeps means, covariance, inverse and projection as rational numbers, follows the division of the two
queues into training and test parts, the walk over boundaries in `cd_test()`, the decision as it is printed (cut to
decimals) and read back, `main()`'s boundary of `-s`, and classification.

### Stegbreak

| TLA+ | code |
|---|---|
| `pc` | the place in `main()`, `do_wordlist_crack()` and `db_crack()`; signals may arrive between any two |
| `db` | `dblist`; `pos` is the element `next` would name |
| `table`, `rejected`, `rule`, `line` | the result of `rules_apply()` for each rule and line; `rules_reject()`; the loops |
| `last`, `word` | the locals of the same name |
| `jphide`, `stream` | the static variables of `crack_jphide()`, and of `crack_jsteg()` and `crack_outguess()` |
| `signaled`, `alarmed`, `sigint`, `alarm` | the flags, the disposition of SIGINT, a pending `alarm(1)` |
| `output` | the lines on standard output, by object |

A key is what it was made from; `Opens` is external and says when a key opens an object. A jphide object is inserted
by comparison of `iv`s, with objects of other kinds too, as the code does. The rules and the word list are read again
in each batch, but the static keys stay, as in the code.

### Cfg, Rpp, Rules, Wordlist

`Cfg` reads a file line by line into sections and lists; a rule that begins with a range is taken for a header, as in
the code. `Rpp` is `rpp_init()`, `rpp_next()` and `rpp_process_rule()`, with `stale` for what an empty range
shows: a character that an earlier rule, or the stack, left in its array. `Rules` has a command as an operator on the word, its arguments read by
`WithPosition`, `WithValue`, `WithClass` and `SkipClass` (the macros of rules.c l. 71-120). `Wordlist` runs
`rules_check()` over all rules and then applies each to a word; a rule keeps the word cut in front of each command.

### JphideObject, JstegObject, Objects, Coefficients

A coefficient is named by its place, so that it can be told which one a walk reads. `JphideObject` has the walk of
`break_jphide_prepare()` and that of `get_word()`, which goes by the widths of the object (16 bits in a file).
`JstegObject` has `prepare`, `write` and `read` with partial files. `Objects` is `main()` of stegbreak, once with
`-c` and once without, over names, file types and failing writes; `handlers[]` (l. 384) has no terminating entry, so
what lies behind it is a choice of the build (`after`); `Stegbreak` walks the three entries only. `Coefficients` has the orders of `prepare_all()` and
`prepare_jphide()`, the rework of stegdeimage and the loop of stegcompare with its histograms.

### The JPEG library

- `MemoryManager`: every allocation with its slop and error exits, the division of memory among virtual arrays, their
  window, `first_undef_row`, `dirty` flag and file. `tmpfile()` may fail for any array (`RealizeOne`), and so may a
  seek, a read or a write when a window is moved (`FileFails`). `PlainArray` is what a client may rely on; `Array(id)` maps each
  array to it.
- `JpegInput`: a routine is a function of the record `d`, the decompression object, and leaves `d.ret` "ok" or
  "suspended", or an error. It is driven by stegdetect from stdio, or by an application whose source suspends.
  stegdetect's callbacks (comments, APPn counts, appended data) are part of the reader. A scan starts with the checks
  of the Huffman tables it needs, missing or not a code (`TablesNeeded`, `Derive`), and of its place in the
  progression (`BadProgression`).
- `ScanScript`, `Entropy`: a script is validated by `validate_script()`; every scan is encoded to count, given the
  optimal table, encoded again and decoded MCU by MCU with suspensions.
- `Decompressor`: a sample is represented by where it comes from (row, scans, neighbours), so that the pointer tricks
  of jdmainct.c show as wrong rows. Blocks are smoothed while DC values of every component and AC values of not every one have
  been read (`SmoothingOk`); quantization tables are taken to be there, without zeros. `Quantizer` is the choice of jdmaster.c
  l. 317-333, with two passes for three components only.
- `ColorQuantizer`: cells that are counts first and cached entries later; both error diffusions and ordered dithering.
- `Compressor`: a line of the image is its number, a block the rows it was made of; a destination may be full.
- `MarkerWriter`: one object writes several streams to one reader, which keeps its tables. A script that
  `validate_script()` refuses leaves the object as it was.
- `Transcoder`: jpegtran, with what a component shows computed from its coefficients by waves with the cosines'
  symmetry.

## Runs

| run | configuration | shows |
|---|---|---|
| xsteg | MCXsteg.cfg | events, settings, list and order; a name is lost for a reason only; under fairness the list drains and xsteg ends |
| detect | MCDetect.cfg | buffers, callbacks, appended data, the line; `Detect` implements `Verdict` |
| detectors | MCDetectors.cfg | chi^2 searches, F5 estimate, extraction, training and its accuracy |
| stegbreak | MCStegbreak.cfg | key caches, list, verdicts, Ctrl-C and the timer, termination |
| stegbreak_input | MCStegbreakInput.cfg | rules, object files, coefficient tools |
| jpeg | MCJpeg.cfg | the parts of the library; `MemoryManager` implements `PlainArray` |
| xsteg_stop | XstegStop.cfg | violation: Stop does not stop an outer scan |
| xsteg_signal | XstegSignal.cfg | violation: the SIGCHLD of a stopped child is taken for its successor's |
| stegbreak_ctrl_c | StegbreakCtrlC.cfg | violation: a Ctrl-C while loading aborts at once |
| detect_headers | DetectHeaders.cfg | violation: with `-n` an image with comments may be reported positive |
| jpeg_rows | MCDecompressor.cfg | violation: the second quantizing pass may return rows below the picture |
| false_positives | MCDiscriminant.cfg | violation: training accepts almost any false positive rate |

In the runs `detectors`, `stegbreak_input` and `jpeg` a behaviour belongs to one `part`: parts that share no state are
instances side by side, not products of each other. The properties are stated and explained in the modules, each next
to its formula. For each property of a passing run the module that models the code has a variant of a definition with
a plausible bug (`StopKeepsEvent`, `KeepsKey3`, `MovedUnsaved`, `GenUnmarked`, ...), with which TLC finds that
property violated.

### Where code and documentation disagree

- *Stop* (xsteg.c l. 207-216, tooltip l. 1044): two file selectors can be open; a scan started from the second runs
  inside the scan of the first. `adding` and `stopped` are one flag each, so Stop reaches one of the two scans.
- *"The stegdetect process terminated."* (xsteg.c l. 712-733): the flag of the signal handler does not say which
  child ended. After Stop and a new file the message, and the restart, hit a child that is running.
- *Ctrl-C* (stegbreak.1 l. 74, stegbreak.c l. 172 and 237): the handler is installed only while words are tried.
- *`-n`* (stegdetect.1 l. 38-40, stegdetect.c l. 1274-1302): comments are looked at after four tests have run, and
  what these found stands. An image with appended data and a comment gets a line with its name and nothing else.
- *Two passes* (jpeg-6b/jdpostct.c l. 223-224): the bound at the bottom of the image forgets the rows of the strip
  that have been emitted.
- *False positives* (discrimination.c l. 563-564): "below 1%" is compared as `fprate < 1`, and `fprate` is a
  fraction.

Met while modelling, and described here without a run of their own:

- `-h` (stegdetect.c l. 1110-1132): `dohistogram()` never calls `buildDCTreset()`; an image of the same size whose
  buffer `malloc()` puts at the same address repeats the histogram of the image before.
- `rules_check()` (rules.c l. 429, rules.h l. 68) applies rules to the empty word; `=` and `)` then skip a class
  without looking whether it exists, so that `=0?Z` counts as valid.
- Object files keep 64 times the blocks of a row less one in 16 bits (break_jphide.c l. 162): an image wider than
  8192 pixels is attacked at other coefficients once it has been written and read.
- `a.jpg` and `a.jpeg` are converted to one name (stegbreak.c l. 259).
- stegcompare prints its jphide histograms without having set them when two images do not differ.
- `chld_write()` (xsteg.c l. 644) does not look at the result of `write()`: once the settings were changed, the pipe to a
  child may be closed for one file and the next one without the flag be written to it, and lost (`LossHasCause`).
- `stegdetect_stop()` closes the child's pipes (xsteg.c l. 834-836): what it had found and xsteg had not read is not listed.

### Bounds

- *xsteg*: two process ids, because the interesting cases have one child dying while the next runs, and ids used
  again; two files, so that one is with a child and one in the list; one change of the settings, which travels in the
  list past children that are restarted; two dialogs, so that scans nest; one failing child or read (a child that
  never runs would be restarted for ever). Process ids are interchangeable, but the run has liveness properties and
  uses no symmetry.
- *detect*: three images, though what one image can inherit from the one before is seen with two; two comments,
  since the tests tell none, one and more apart; masks: the default, every test, the tests alone that have state
  (jsteg, F5), with and without `-n` and `-D`, and `-C`, each with all values of `-q` and `-h`.
- *detectors*, chi^2: two addresses are what "the same again" and "another" need; four coefficients of three kinds
  (two that are counted, one outside the histogram) allow disjoint, overlapping, nested and clamped windows; widths
  8..24 with four passes reach every branch of the search. F5: blocks of two by two in pictures of up to three by
  three blocks, so that blocks have neighbours on all sides, a coefficient that leaves a short when it is dequantized,
  and ints of four bits, so that products wrap and do not.
  Extraction: tables of a multiple of 4, every list of up to two coefficients, so that tables are widened on either
  side. Training: three images of each kind, so that one is held out, with vectors of one or two features, among them
  ones whose covariance is singular; up to six negatives for the false positive rate.
- *stegbreak*: batches of two of three files, so that caches live from one batch to the next; up to two objects per
  file and three kinds, so that lists mix; words include the empty string, which is what the static buffers hold
  before the first word; tables in which a word comes twice in a row, twice with another between, at the end of one
  rule and the start of the next, and not at all; two Ctrl-C.
- *stegbreak_input*: words of 3 instead of 16 characters and 2 ranges instead of 8, so that words are cut and ranges
  run out; every command with good and bad arguments, and all files of four lines out of nine kinds. Images of up to
  three blocks in a row whose coefficients do not, just, or more than fill an object; shorts of three and ints
  of four bits, so that a width is cut. Two arguments, so that one file replaces another. One order of coefficients, of five entries with
  every mode, is used for objects and for the tools; the tools work on pairs of pictures whose sizes differ and agree,
  with coefficients on both sides of -1, 0 and 1 and of the histograms' ends.
- *jpeg*: each part has the smallest sizes with its cases. Memory: a limit under which the array of blocks fits
  whole or not, by what else was allocated, and a heap in which later requests fail; files fail at any time. Input: files of one or two images, with one to five segments, damage at restart
  markers, pieces of 1, 2, 5 and all bytes. Entropy: two to five scans, EOB runs of up to 3, codes of up to 4 bits
  (so that lengths must be shortened), a suspension in any MCU. Output and compression: blocks of two lines, heights
  around the ends of row groups, iMCU rows and context, calls of 1 and 3 lines and data that end after 2 MCUs.
  Quantizers: samples of 16 values in 4, 8 and 4 cells along the axes and update boxes of 2, 4 and 2 cells, two passes
  over one of two pictures, maps that change between them, wanted
  numbers of colours below and above what a quantizer accepts, and maps with too many entries; grayscale output, which
  forces the one-pass quantizer, is left out. jpegtran: whole and partial iMCUs at both edges, all transformations and options.

### Fairness

- *Xsteg*: the loop dispatches every ready event in each round, so a callback that is ready again and again runs
  (strong fairness of the callbacks); `gtk_cb()` and scans are finite (weak fairness of their ends); children and
  SIGCHLD get the processor (weak fairness). Nothing is assumed of the user.
- *ChiSearch*: a detector is sequential code: a pass over the image ends, and a detector that has its result
  returns. Nothing is assumed of the outcome of the tests.
- *Stegbreak*: the program runs (weak fairness of its steps together) and the timer expires. Nothing is assumed of
  Ctrl-C.

All other modules are of sequential code of which only safety is stated, and assume none. A program that has ended
has no further step, so the runs set `CHECK_DEADLOCK FALSE`.

## Proofs

All theorems hold for every value of the constants that meets the named assumptions next to their declarations. The
assumptions are what the code relies on: that sizes are positive and chunks aligned (`SizesAssumption`,
`AlignedAssumption`), that an array has at most as many rows as a picture may have (`ArraysAssumption`), that
`rules_max_length` is less than `RULE_WORD_SIZE` (`LengthAssumption`), that the files of a run hold objects and lines
of the shape their programs write (`Held`, `FileLine`), that the characters of a rule have codes, all different
(`RulesAssumption`, `AlphabetAssumption`), that every rule is tried on the same word list (`TablesAssumption`), that
an image has blocks, each with its coefficients (`PicturesAssumption`), that each line of the training has a feature
and each argument of `-s` is a number (`TrainingAssumption`), and that what jpegtran reads is what a header
may describe, with the largest sampling factors in the luminance, where the waves of a block are even or odd as the
cosines are (`TransAssumption`), and that samples fall into whole cells of the quantizers' histogram, and colormaps and
rows of pixels are not empty (`QuantAssumption`).

*XstegProofs* proves `TypeOK`, `EventsFollowChild`, `FreshSettings`, `NoLostWakeup`, `InOrder` and `LossHasCause`. The invariant is
`IInv`. `FreshSettings` is not inductive: that the head of the list is safe to send depends on a flagged entry at or
before any entry newer than the child (`ChangesFlagged`), which is what `chld_write()` looks for when it closes the
pipe instead of writing. `NoLostWakeup` depends on the case distinction of `WriterWoken`: with a current child either
the event is armed or the pipe was closed for a change and the child will end. `InOrder` follows from `OrderInv`: the
list and every pipe ascend in the order of adding, those of the current child come before the list (`InLine`), and a
file is in one place only (`InOnePlace`). The pipes of children that were stopped are no part of the line any more,
but what is in them still has to be in no other place, because process ids are used again. `LossHasCause` is about steps:
`ListDrains` lets a file leave the list because its `write()` failed, and this says when that may happen, on an open
pipe only after a child failed, on a closed one only once the settings were changed. `CauseKnown` is what it rests on:
without a change nothing is flagged and the current child's pipe is open, and a child whose pipe is open was not told
to end.

*StegbreakProofs* proves all invariants of its run. `TypeInv` says that the walk over the list stays in it while
objects are removed; that an insertion keeps the list well formed needs the first place not smaller than a given
one, which exists by `LeastNumber`, proved from the well-founded order on finite sets. `CacheInv` joins the caches with
the object found last; the step of version 3 uses that a new word drops the old version 3 key even when version 5
opens the object and version 3 is not tried. `HandlerComesBack` is inductive as it stands. For `NegativeIsTrue`,
`NoneMissed` says of every object in the list, for each place of the program, which candidates its password is known
not to be: those before the current line and, in front of the walk's position, the current word; the last word, which
is not tried again, is no object's. For `OneLineEach`, `Accounted` says that an object is in the list or has its line,
once, and that the list is empty wherever `main()` would end.

*StegbreakInputProofs* is about rules, objects and the tools that compare images.

- `WrongLineNamed`: every element of a list carries the file and line it was read from (`Numbered`), and what the
  checker works on is one of them (`LineKept`).
- `EachRuleOnce`: `RulesInv` has two halves. Of the reader, `SectionsRead` says that the sections are those of the
  headers read so far, the latest first, each list with the lines below its header and above the next one; so what
  `cfg_get_list()` finds are the lines of the property (`SectionsLine`, `ListBelow`). Of the preprocessor,
  `MakingRules` says that what was made are all the lines before the current one with all their indices (`Picks`), and
  of the current one the indices before those of its ranges, in the order in which the odometer goes through them
  (`PicksMade`). `OdometerNext` is the step: between the indices shown and those it goes on to lies none, and where it
  wraps there is none left. It needs of `rpp_process_rule()` that the ranges of a line have different places and
  no character twice, which is proved by induction over the line (`RuleProcessed`); with these, different indices
  make different rules (`FilledApart`). An empty range shows what its array held before: of a line with one, the
  property only says that rules are made of it, in its place. As `rules_check()` and the loop over the words make the same
  picks, the number it has counted is that of the rules the words are tried with (`MadeAll`).
- `WordFits`: `WordInv` bounds the word and what is left of it by the buffers (`Short`). There is a lemma for every
  command; those that insert or double a word are the ones that look at its length first (`CommandFits`).
- `SameWalk`: while a word is tried, the cursor of `get_word()` is where the walk of `break_jphide_prepare()` was after
  as many coefficients (`WalkKept`); what that walk collected is, by induction over the fold, the coefficient it stood
  on each time, in order (`CollectedInOrder`). This is of images that fit the 16 bits of an object (`Fits`).
- `LoadedIsImage`: every file on disk is an image, or was made by a handler of an image of its name, whole or not
  (`FilesKept`); one that was cut short is refused when it is read, and a whole one gives back what an attack needs,
  as far as its numbers fit their fields (`FitsThroughFile`, `JstegIsAligned`).
- `CoefficientsCompared` has two halves. `MessageKept` is a statement about one walk on two images. Reworking a
  coefficient keeps its two low bits, and keeps it one of -1, 0 and 1 or none of them (`ReworkedKeeps`), which is all
  that `prepare_jphide()` looks at when it decides what to take; so two images of the same low bits (`SameBits`) are
  walked alike, turn by turn (`TakenAlike`, and by induction over the fold `PreparedAlike`). It needs that the walk
  never leaves the image (`AdvanceOnImage`). `CountsAgree` follows from `CountsInv`: the histograms are those of the first
  `turn` places (`Tallies`), and the ones kept for jphide those up to the last place at which the images differ
  (`LastChange`).

*StegdetectProofs* has `detect()`, the three detectors of the run `detectors` that read a histogram, and the training.

Of `Detect` it proves `TypeOK` and all the properties of its run. `Owned` says at each place whether `jdcts` and the
buffer exist together: up to the header check always, after it only if the jsteg test is still in the mask, which is
why the check may free the buffer and the test does not do so again. The `-C` path never has a buffer to lose because
of `LegalMasks`. `Spoken` adds what the line may contain at each place; `LineTells` needs from it that appended data
has set the flag, and that, without `-n`, its word is still allowed at the end.

`VerdictImplemented` is the refinement: `Judged` adds to `Spoken` that the flag is what the words on the line make it
at each place (`FlagInv`), and that the mask left is the one `Verdict` calls remaining, with the late words among what
it allows (`ScansInv`). Under it every action of `Detect` is a step of `Verdict` or leaves it as it is
(`VerdictStep`): the step that ends an image says its line.

Of the detectors and the training:

- Chi^2: `DctIInv`, `HistIsWindow` and `ResultTested`. The core is `BuildCorrect`: under the condition
  `buildDCThist()` tests, the new window overlaps the cached one or begins where it ends, so by `CountSplit` (counts of
  adjacent windows add up) taking away and adding gives the histogram of the new window. `DctIInv` adds what makes this
  usable: while a detector runs, the cached window belongs to its data, because every detector resets first.
  `SearchIInv` says that `_good` passed, or is still above the largest width.
- F5: `LeastSquares` is the algebra, of which the core is the identity of Brahmagupta for sums of two squares: the
  misfit of any rate less that of `betakl()`'s quotient is a square. `LeastRate` carries it to the machine, where
  `SizesOK` keeps that images have the sizes their loops assume. `RateRecovered` is what the test is for: if the
  picture is the estimate shrunk at a rate, `betakl()` returns that rate. Both hold where the products fit an int
  (`Fits`). `EstimateCorrect` follows the picture through the five flat arrays: `AlignedInv` has, for each stage, what
  its array holds at every row and column (`LuminanceShows`, `CropShows`, `BlurShows`, `CompressShows`), and
  `FlatPlace` that a flat index is one row and one column.
- Extraction: `ExtractionIInv` keeps, place by place, that a table is even and at least as wide as the extremes seen
  (`RoundedEven`, `WidenOK`, `TableOK`), and from `WindowStraddles` that the points laid around a bucket contain its
  two neighbours and leave it out (`PointsOK`).
- Training: `MoreSensitive` and `TrainingRight`. The first, which no run checks, is about fractions, each reduced by Euclid's algorithm: the proof
  shows that what `Q` gives is the quotient of its arguments (`GcdDivides`, `QuotientRight`), and from this the order
  of fractions and what keeps it (`LessRight`, `PlusKeeps`, `TimesKeeps`, `MinusTurns`). The place of the boundary then
  grows with the argument of `-s` across its three cases (`WhereOfGrows`), the boundary moves towards the images
  without hidden content whichever projection is the greater (`BoundMoves`), and so what is found is found again
  (`FoundAgain`). All of this needs a decision made of numbers only, in `TrainingInv`: that what `cd_compute()` trains
  is one goes through the whole inversion, which finds a pivot in each turn, never divides by 0 and leaves a matrix
  (`PivotType`, `EliminateKeeps`, `InverseType`). `TrainingRight` has two halves. `HeldOut` follows from `TrainedInv`,
  which has the images trained and tested with as numbers in their queues; that some of both kinds are held out needs
  that two of each are the least it trains with. That the projection solves its equations is the algebra of
  `matrix_invert()`: a fraction in lowest terms is one pair only (`NormalSame`), so that sums and products obey the
  laws of a field (`PlusLaws`, `TimesLaws`) and sums over a row those of their terms, by induction over the row
  (`SumSteps`, `SumPlus`, `SumSwapped`). What the elimination keeps is stated backwards: what solves the equations after a
  turn solves those before it (`TurnBack`), before rows are exchanged (`RowsBack`) and after columns are exchanged back
  at the end (`ColumnsBack`), whatever pivots were taken; so the inverse solves them (`InverseSolves`). That hidden content is
  above the boundary is a sum of squares: the difference of the projected means is the covariances' quadratic form of
  the projection (`QuadraticPositive`, `CovarPooled`), which is 0 only for equal means (`Discriminates`).

*LibraryProofs* proves that `MemoryManager` implements `PlainArray` for every array, and that its accounts are right.
The invariant, `MemoryInv`, has three parts. The accounts (`SpaceAccounted`) say that what is counted is what the
chunks hold, and that objects lie in the used part of a chunk of their pool, apart from each other. The buffers
(`BufferRight`) say that a buffer without a file covers the whole array, that one with a file has room for the largest
access, and, the part that is not seen from outside, that what has been defined and lies in a buffer that was not
written since is in the file as well: this is what lets `access_virt_array()` move a clean buffer without saving it.
The strips (`StripRight`) say that what a client was given last still lies in the buffer, and is defined if it may be
written. `WriteOutRight` and `ReadInRight` are the two transfers, `MovedRight` a move of the window, and
`AccessShown` that an access is one of the plain array's, with rows that were never written shown as zero or refused.
No array has more than `MaxDimension` rows (JPEG_MAX_DIMENSION), which is what makes `AnyHeight`, the 1000000000 of
jmemmgr.c l. 627, a number of strips that covers any array.

The second part of *LibraryProofs* is about `MarkerWriter`: whoever reads the streams of an object can read them
(`StreamsCorrect`), for any qualities, tables, scripts and restart intervals and with no assumption about them. The
reader's side of the invariant is not `reader`, which changes at the end of a stream only, but `Reading(reader, obj)`:
what one would know who had read as far as the object has written. `StreamRight` says that each table that counts as
sent is then the object's own (`Knows`), except after an image was given up, which is why the next one has to write
all its tables; and that while an image is open the markers of its file, its restart interval and, from the first scan
on, its frame are known as they are (`ImageOpen`). `EmitReads` is the step both sides share: a marker emitted is the
next one read. `TablesAreEmitted` and `CodesAreEmitted` follow the loops that write tables, `FrameEmitted` shows that
baseline is said of a frame whose tables are, `ScanIsReadable` that the components of a scan are found again by their
identifiers, and `SpaceGuessed` that the markers and the number of components give the colours away. The first attempt
failed for a reason: a script without scans, or with components an image has not, would have been written.
`validate_script()` refuses those, so that `Start` refuses them now (`ScriptValid`).

*PictureProofs* is about jpegtran and the quantizers. For jpegtran `PictureCorrect` says that the samples are where the transformation puts them and that the
markers asked for are kept, for blocks and pictures of any size and any sampling factors. `TransInv` says at every stage
what jpegtran holds: the coefficients as they were coded, the markers saved, the parameters adjusted step by step
(`AdjustedRight`), the workspace that fits them, and at the end, of each block the picture shows, the block of the
source it was made of, mirrored or turned. Lemmas on mirrored blocks turn this into samples: as waves are even or odd,
the sign a transformation gives a coefficient turns its wave around. That a partial iMCU at the edge stays where it is
comes out of the sizes in whole iMCUs, which `transupp.c` and the property compute from different numbers. For the
markers, header markers that jpegtran writes itself are told from saved ones by their kind only, so that each is there
once.

For the quantizers `ColorsCorrect` proves `ColorsMapped`, for samples, histograms, update boxes, dither matrices,
colormaps and pictures of any size. The invariant is `QuantInv`; none of the three parts is inductive, as each says
what holds once a row is shown or a pass has ended.

- `NearestEntry`, two passes: `CacheRight` says that a cell of the cache that is not 0 holds a nearest entry of the
  colormap in use, or that the cache will be cleared before it is used again. That is what `needs_zeroed` is for, and
  what an application's change of colormaps between the passes would break without it. That filling an update box keeps
  it rests on `NearbyEnough`: what `find_nearby_colors()` leaves out is farther from every cell of the box than an
  entry it keeps, because what it computes along each axis are bounds of the distance (`AxisBounds`).
- `NearestEntry`, one pass: the breakpoints of `largest_input_value()` lie, up to the rounding, in the middle between two
  values of `output_value()` (`Breakpoint`), and the values ascend, so the value of a sample is nearest but for one
  (`ValueNearest`). The number of a colour is that of its three values, as `create_colormap()` and `color_quantize()`
  count alike (`EntryOfValues`). What ordered dithering reads beside its table needs the padding that
  `start_pass_1_quant()` makes, whichever dithering was set first (`MappingReady`).
- `ErrorsSpread`: an induction over the fold of a row, in either direction, says after each column which errors of the
  next row are final, which are still carried and which are the old row's (`FsStep`, `FsRight`).
- `BoxesPartition`: an induction over the turns of `median_cut()` keeps that the boxes are tight, apart and hold every
  cell in use (`CutRight`). Because a box is tight, both halves of a split have such a cell (`HalvesRight`): the comment
  at jquant2.c l. 468 says so. The mean of centres, weighted and rounded, lies between the outermost of them
  (`MeanBetween`) and so in the box. For a box without a used cell `compute_color()` would divide by 0.

*SequenceFacts* has what the lists of xsteg and db.c are changed with, element by element. *FoldFacts* shows what a
fold computes, by induction on the sequence: the operator that is folded and the fact about it are constants of that
module, and each proof takes an instance of it for a fold of its own (`FoldSteps`, `FoldOne`, `FoldNone` and
`FoldKeeps`). `StegbreakInputProofs` needs it for the characters of a rule, the walks over coefficients and the numbers read from
files, `StegdetectProofs` for sums and for the turns of the inversion, `LibraryProofs` for the sums over chunks, the
loops of `alloc_sarray()` and `realize_virt_arrays()` and the markers that are written and read, `PictureProofs` for
those that are copied, the columns of a dithered row, the splitting of boxes and the raising of counts.

Only model-checked:

- liveness (`ListDrains`, `QuitExits`, `DetectorReturns`, `Terminates`), which the prover cannot treat under fairness;
- `ImageWritten`, whose module (`Compressor`) has recursive operators, which the prover cannot reason about;
- the library's `SuspensionHidden`, `ImageIsRead`, `CodedAndDecoded` and `LinesShown`: each compares a whole run with
  a reference computed from its input. An invariant would have to say at every place what is done and what is left of
  it: of the marker reader at each byte, of the Huffman coders at each MCU of each scan with the EOB run that is
  pending, of the output at each row of each of its buffers.

## Not modelled

- xsteg: construction of widgets, sorting of columns, `select_scan()` with its buttons.
- stegdetect: the chi-square distribution, jphide's rules on its peaks, the run-length test, the moments and the
  transforms of extraction.c that are sums of doubles, the rounding of doubles anywhere but in the printed decision,
  the second compression that `f5_elim2compress` switches on (f5.c l. 463). An undefined rate (0 / 0) is printed with a star by the code; the model only says it is NaN.
- The JPEG session: the limit of the comment table, the coefficient callback for OutGuess, and segments shorter than
  their own length field. With a source that suspends, the library's added callbacks may report a coefficient twice
  (jdhuff.c l. 566); stegdetect's own source never suspends, and `SeesTheFile` is of that source.
- stegbreak: the rate display and the clock; the ciphers; the walk of OutGuess, which depends on every word of the
  key stream; single crack mode (`split >= 0`), which stegbreak does not use; an interval of characters that ends at
  255; memory that runs out; the `err()` and `exit()` of `do_wordlist_crack()` (stegbreak.c l. 146-157 and 221-231), after
  which there is no state to speak of.
- The library: inverse and forward DCT, colour conversion, columns of samples (resampling across a row is the same
  for every row), packing of bits into bytes, arithmetic coding (not compiled in), densities, readers and writers of
  other formats, command lines other than jpegtran's, and back ends of other platforms. jpegtran takes the first
  component to have the largest sampling factors (transupp.c l. 741), and so does the model.
- file(1)'s magic library, MD5, and functions for systems that lack them.
