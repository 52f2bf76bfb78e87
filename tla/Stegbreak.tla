----------------------------- MODULE Stegbreak -----------------------------
(***************************************************************************)
(* stegbreak.c, db.c and the crack_*() functions: files are loaded into a  *)
(* list of objects, up to BatchSize files at a time, and every word of the *)
(* word list, changed by every rule, is tried on every object of the list  *)
(* until the object is cracked.  The keys made from a word are kept from   *)
(* one object to the next.  Two signal handlers share flags with the loop. *)
(*                                                                         *)
(* What rules_apply() makes of a line is a table, chosen initially; Skip   *)
(* stands for a line that gives no word (a comment, or NULL).  The ciphers *)
(* are external: a key is what it was made from, and opens an object that  *)
(* was made with it.                                                       *)
(***************************************************************************)
EXTENDS Naturals, SequencesExt

CONSTANTS
    Words,        \* candidate words; a word may be the empty string
    Empty,        \* the empty string, what static buffers hold at first
    Skip,
    None,         \* no iv, no key, no word
    Files,        \* what files may hold: sequences of objects, in handler order
    Tables,       \* tables of candidates, by rule and line
    BatchSize,    \* MAX_FILES
    MaxFiles,     \* bound: files given
    MaxPresses    \* bound: SIGINTs

ASSUME SkipAssumption == Skip \notin Words /\ None \notin Words /\ Skip # None
\* What a file holds for one handler: its kind, iv, and the password that opens
\* it, with the version of the program that would: two are tried on a jphide object.
Held == {o \in [kind : {"jphide", "jsteg", "outguess"}, iv : Nat,
                version : {"v5", "v3", "stream"}, word : Words \cup {None}] :
            o.version = "stream" <=> o.kind # "jphide"}

ASSUME FilesAssumption == Files \subseteq Seq(Held) /\ \A objs \in Files : Len(objs) <= 3
ASSUME TablesAssumption ==
    \A t \in Tables :
        /\ t # <<>> /\ t \in Seq(Seq(Words \cup {Skip}))
        /\ \A r \in DOMAIN t : Len(t[r]) = Len(t[1])   \* the lines of one word list
ASSUME BatchAssumption == BatchSize \in Nat /\ BatchSize > 0

VARIABLES
    pc,           \* where the program is
    files,        \* files looked at
    loaded,       \* objects inserted so far; their number is their name
    batch,        \* i in main(): files of the batch
    final,        \* main() has no more arguments
    db,           \* dblist
    table, rejected,         \* the rules: their candidates, and those rules_reject() drops
    rule, line, last, word,  \* locals of do_wordlist_crack()
    pos,          \* db_crack(): place in the list of the object to try next
    jphide,       \* statics of crack_jphide()
    stream,       \* statics of crack_jsteg() and crack_outguess()
    output,       \* result lines written
    signaled, alarmed, sigint, alarm,
    presses, running, killed

mainVars   == <<files, loaded, batch, final>>
tableVars  == <<table, rejected>>
wordVars   == <<rule, line, last, word>>
keyVars    == <<jphide, stream>>
signalVars == <<signaled, alarmed, sigint, alarm>>
endVars    == <<presses, running, killed>>
vars == <<pc, mainVars, db, tableVars, wordVars, pos, keyVars, output, signalVars, endVars>>

Init ==
    /\ pc = "load" /\ files = 0 /\ loaded = 0 /\ batch = 0 /\ final = FALSE
    /\ db = <<>>
    /\ table \in Tables
    /\ rejected \in SUBSET DOMAIN table
    /\ rule = 1 /\ line = 0 /\ last = None /\ word = None /\ pos = 1
    /\ jphide = [oword |-> Empty, iv |-> None, initv5 |-> FALSE, key5 |-> None,
                 initv3 |-> FALSE, key3 |-> None]
    /\ stream = [h \in {"jsteg", "outguess"} |-> [oword |-> Empty, init |-> FALSE, key |-> None]]
    /\ output = <<>>
    /\ signaled = FALSE /\ alarmed = FALSE /\ sigint = "default" /\ alarm = FALSE
    /\ presses = 0 /\ running = TRUE /\ killed = FALSE

At(place) == running /\ pc = place

-----------------------------------------------------------------------------
(* The list of objects.                                                    *)

\* db_insert(): a jphide object goes before the first object whose iv is not
\* smaller.  break_jphide_compare() is called on objects of the other kinds too;
\* their iv is what lies at that place in them.
Insert(o, list) ==
    LET notless == {k \in 1..Len(list) : o.iv <= list[k].iv}
    IN  IF o.kind # "jphide" \/ notless = {} THEN Append(list, o)
        ELSE InsertAt(list, CHOOSE k \in notless : \A j \in notless : k <= j, o)

Object == {o \in [id : Nat, kind : {"jphide", "jsteg", "outguess"}, iv : Nat,
                  version : {"v5", "v3", "stream"}, word : Words \cup {None}] :
              o.version = "stream" <=> o.kind # "jphide"}

Named(o, id) == [id |-> id, kind |-> o.kind, iv |-> o.iv, version |-> o.version, word |-> o.word]

\* doinsert(): at most one object from each of the three handlers.
Inserted(objs, list, n) ==
    LET one   == Insert(Named(objs[1], n + 1), list)
        two   == Insert(Named(objs[2], n + 2), one)
        three == Insert(Named(objs[3], n + 3), two)
    IN  CASE Len(objs) = 0 -> list
          [] Len(objs) = 1 -> one
          [] Len(objs) = 2 -> two
          [] Len(objs) = 3 -> three

\* db_remove()
Without(list, k) == RemoveAt(list, k)

-----------------------------------------------------------------------------
(* Loading.                                                                *)

\* process_loop() on one file; a file without an object does not count.
ProcessLoop ==
    /\ At("load") /\ ~final /\ files < MaxFiles
    /\ files' = files + 1
    /\ \E objs \in Files :
         /\ loaded' = loaded + Len(objs)
         /\ db' = Inserted(objs, db, loaded)
         /\ LET i == IF objs = <<>> THEN batch ELSE batch + 1
            IN  IF i >= BatchSize
                THEN batch' = 0 /\ pc' = "start"
                ELSE batch' = i /\ UNCHANGED pc
    /\ UNCHANGED <<final, tableVars, wordVars, pos, keyVars, output, signalVars, endVars>>

\* The end of the arguments: the last batch, or exit().
LastBatch ==
    /\ At("load") /\ ~final
    /\ final' = TRUE
    /\ IF batch > 0
       THEN pc' = "start" /\ UNCHANGED running
       ELSE running' = FALSE /\ UNCHANGED pc
    /\ UNCHANGED <<files, loaded, batch, db, tableVars, wordVars, pos, keyVars, output, signalVars,
                   presses, killed>>

-----------------------------------------------------------------------------
(* do_wordlist_crack()                                                     *)

\* Up to the loop.  last is blanks, which is no word.
StartCrack ==
    /\ At("start")
    /\ rule' = 1 /\ line' = 0 /\ last' = None /\ UNCHANGED word
    /\ alarmed' = FALSE /\ signaled' = FALSE /\ sigint' = "handler"
    /\ pc' = "line"
    /\ UNCHANGED <<mainVars, db, tableVars, pos, keyVars, output, alarm, endVars>>

\* fgetl(), unless the rule was rejected.
NextLine ==
    /\ At("line")
    /\ IF rule \notin rejected /\ line < Len(table[rule])
       THEN line' = line + 1 /\ pc' = "status"
       ELSE UNCHANGED line /\ pc' = "rule"
    /\ UNCHANGED <<mainVars, db, tableVars, rule, last, word, pos, keyVars, output, signalVars, endVars>>

\* The bug of a status line without alarm(1) would be.
StatusOnly ==
    /\ At("status")
    /\ signaled' = FALSE
    /\ pc' = "rearm"
    /\ UNCHANGED <<mainVars, db, tableVars, wordVars, pos, keyVars, output, alarm, alarmed, sigint, endVars>>

\* if (signaled): a status line, and a second during which Ctrl-C aborts.
Status ==
    /\ At("status")
    /\ alarm' = (alarm \/ signaled) /\ signaled' = FALSE
    /\ pc' = "rearm"
    /\ UNCHANGED <<mainVars, db, tableVars, wordVars, pos, keyVars, output, alarmed, sigint, endVars>>

\* if (alarmed)
Rearm ==
    /\ At("rearm")
    /\ sigint' = IF alarmed THEN "handler" ELSE sigint
    /\ alarmed' = FALSE
    /\ pc' = "apply"
    /\ UNCHANGED <<mainVars, db, tableVars, wordVars, pos, keyVars, output, signaled, alarm, endVars>>

\* A word that comes twice in a row is tried once.
Apply ==
    /\ At("apply")
    /\ LET w == table[rule][line]
       IN  IF w \in {Skip, last}
           THEN pc' = "line" /\ UNCHANGED <<last, word, pos>>
           ELSE last' = w /\ word' = w /\ pos' = 1 /\ pc' = "crack"
    /\ UNCHANGED <<mainVars, db, tableVars, rule, line, keyVars, output, signalVars, endVars>>

\* The bug of rewinding the word list without the next rule would be.
RewindOnly ==
    /\ At("rule")
    /\ IF rule < Len(table)
       THEN UNCHANGED rule /\ line' = 0 /\ pc' = "line"
       ELSE UNCHANGED <<rule, line>> /\ pc' = "flush"
    /\ UNCHANGED <<mainVars, db, tableVars, last, word, pos, keyVars, output, signalVars, endVars>>

\* No line is left: the next rule, from the start of the word list.
NextRule ==
    /\ At("rule")
    /\ IF rule < Len(table)
       THEN rule' = rule + 1 /\ line' = 0 /\ pc' = "line"
       ELSE UNCHANGED <<rule, line>> /\ pc' = "flush"
    /\ UNCHANGED <<mainVars, db, tableVars, last, word, pos, keyVars, output, signalVars, endVars>>

Line(o, w) == [id |-> o.id, word |-> w]

\* After the loop: signals back to their defaults, db_flush(), and back to main().
Flush ==
    /\ At("flush")
    /\ alarm' = FALSE /\ sigint' = "default" /\ UNCHANGED <<signaled, alarmed>>
    /\ output' = output \o [k \in 1..Len(db) |-> Line(db[k], None)]
    /\ db' = <<>>
    /\ pc' = "load"
    /\ running' = ~final
    /\ UNCHANGED <<mainVars, tableVars, wordVars, pos, keyVars, presses, killed>>

-----------------------------------------------------------------------------
(* crack_jphide(), crack_jsteg(), crack_outguess(): the keys in use, and   *)
(* whether one opens the object.                                           *)

Opens(o, version, key) ==
    /\ o.version = version
    /\ key = IF version = "v5" THEN <<o.iv, o.word>> ELSE o.word

\* The bug of a missing "changed" in the test of the version 5 key would be.
KeepsKey5(o) ==
    LET changed == word # jphide.oword
        stale   == ~jphide.initv5 \/ jphide.iv # o.iv
    IN  [jphide EXCEPT !.oword  = word,
                       !.iv     = IF stale THEN o.iv ELSE @,
                       !.initv5 = TRUE,
                       !.key5   = IF stale THEN <<o.iv, word>> ELSE @,
                       !.initv3 = @ /\ ~changed]

\* The bug of a missing initv3 = 0 would be.
KeepsKey3(o) ==
    LET stale == ~jphide.initv5 \/ word # jphide.oword \/ jphide.iv # o.iv
    IN  [jphide EXCEPT !.oword  = word,
                       !.iv     = IF stale THEN o.iv ELSE @,
                       !.initv5 = TRUE,
                       !.key5   = IF stale THEN <<o.iv, word>> ELSE @]

\* crack_jphide() up to break_jphide_v5(): a new word drops the version 3 key.
JphideKey5(o) ==
    LET changed == word # jphide.oword
        stale   == ~jphide.initv5 \/ changed \/ jphide.iv # o.iv
    IN  [jphide EXCEPT !.oword  = word,
                       !.iv     = IF stale THEN o.iv ELSE @,
                       !.initv5 = TRUE,
                       !.key5   = IF stale THEN <<o.iv, word>> ELSE @,
                       !.initv3 = @ /\ ~changed]

\* Then up to break_jphide_v3(), when version 5 did not open the object.
JphideKey3(k, changed) ==
    [oword |-> k.oword, iv |-> k.iv, initv5 |-> k.initv5, key5 |-> k.key5, initv3 |-> TRUE,
     key3 |-> IF ~k.initv3 \/ changed THEN word ELSE k.key3]

CrackJphide(o) ==
    LET k5 == JphideKey5(o)
        k3 == JphideKey3(k5, word # jphide.oword)
        opened5 == Opens(o, "v5", k5.key5)
    IN  /\ jphide' = IF opened5 THEN k5 ELSE k3
        /\ UNCHANGED stream
        /\ IF opened5 \/ Opens(o, "v3", k3.key3) THEN pc' = "found" ELSE pc' = "crack"

\* crack_jsteg() and crack_outguess() are alike.
CrackStream(o) ==
    LET s == stream[o.kind]
        key == IF ~s.init \/ word # s.oword THEN word ELSE s.key
    IN  /\ stream' = [stream EXCEPT ![o.kind] = [oword |-> word, init |-> TRUE, key |-> key]]
        /\ UNCHANGED jphide
        /\ IF Opens(o, "stream", key) THEN pc' = "found" ELSE pc' = "crack"

\* db_crack(): one object of the list.
Crack ==
    /\ At("crack") /\ pos <= Len(db)
    /\ LET o == db[pos]
       IN  /\ IF o.kind = "jphide" THEN CrackJphide(o) ELSE CrackStream(o)
           /\ IF pc' = "crack" THEN pos' = pos + 1 ELSE UNCHANGED pos
    /\ UNCHANGED <<mainVars, db, tableVars, wordVars, output, signalVars, endVars>>

\* The bug of a missing db_remove() would be.
FoundKeeps ==
    /\ At("found")
    /\ output' = Append(output, Line(db[pos], word))
    /\ pos' = pos + 1
    /\ pc' = "crack"
    /\ UNCHANGED <<mainVars, db, tableVars, wordVars, keyVars, signalVars, endVars>>

\* The object is cracked: its line, db_remove(), and on with the saved next one.
Found ==
    /\ At("found")
    /\ output' = Append(output, Line(db[pos], word))
    /\ db' = Without(db, pos)
    /\ pc' = "crack"
    /\ UNCHANGED <<mainVars, tableVars, wordVars, pos, keyVars, signalVars, endVars>>

\* db_crack() returns; 1, which ends the rules, when the list is empty.
CrackReturns ==
    /\ At("crack") /\ pos > Len(db)
    /\ pc' = IF db = <<>> THEN "flush" ELSE "line"
    /\ UNCHANGED <<mainVars, db, tableVars, wordVars, pos, keyVars, output, signalVars, endVars>>

-----------------------------------------------------------------------------
(* Signals, between any two steps.                                         *)

\* Ctrl-C: sig_handle_inter(), or the end.
Interrupt ==
    /\ running /\ presses < MaxPresses
    /\ presses' = presses + 1
    /\ IF sigint = "handler"
       THEN signaled' = TRUE /\ sigint' = "default" /\ UNCHANGED <<running, killed>>
       ELSE running' = FALSE /\ killed' = TRUE /\ UNCHANGED <<signaled, sigint>>
    /\ UNCHANGED <<pc, mainVars, db, tableVars, wordVars, pos, keyVars, output, alarmed, alarm>>

\* sig_handle_timer(), a second after alarm(1).
Timer ==
    /\ running /\ alarm
    /\ alarm' = FALSE /\ alarmed' = TRUE
    /\ UNCHANGED <<pc, mainVars, db, tableVars, wordVars, pos, keyVars, output, signaled, sigint, endVars>>

Step ==
    \/ ProcessLoop \/ LastBatch \/ StartCrack \/ NextLine \/ Status \/ Rearm \/ Apply
    \/ Crack \/ Found \/ CrackReturns \/ NextRule \/ Flush

Next == Step \/ Interrupt \/ Timer

Spec == Init /\ [][Next]_vars

\* The program runs and the arguments end; the timer expires.
FairSpec == Spec /\ WF_vars(Step) /\ WF_vars(Timer)

-----------------------------------------------------------------------------
(* Properties.                                                             *)

\* The values of a program state; db_crack() stays within the list.
TypeOK ==
    /\ pc \in {"load", "start", "line", "status", "rearm", "apply", "crack", "found", "rule", "flush"}
    /\ db \in Seq(Object) /\ output \in Seq([id : Nat, word : Words \cup {None}])
    /\ pos \in 1..(Len(db) + 1) \/ pc \notin {"crack", "found"}
    /\ pc = "found" => pos <= Len(db)
    /\ rule \in DOMAIN table /\ line \in 0..Len(table[rule])

\* Every key kept is the key of the word, and the iv, remembered with it.
KeysMatch ==
    /\ jphide.initv5 => jphide.key5 = <<jphide.iv, jphide.oword>>
    /\ jphide.initv3 => jphide.key3 = jphide.oword
    /\ \A h \in DOMAIN stream : stream[h].init => stream[h].key = stream[h].oword

\* A password is reported for an object only if it opens it.
FoundOpens == pc = "found" => db[pos].word = word

Candidates == {table[r][k] : r \in DOMAIN table \ rejected, k \in 1..Len(table[1])}

\* "negative" is written for an object only when no candidate opens it: no rule,
\* line or object was passed over, whatever was found or skipped in between.
NegativeIsTrue ==
    pc = "flush" => \A k \in 1..Len(db) : db[k].word \notin Candidates

\* Unless Ctrl-C aborts it, stegbreak writes one line for each object it loaded.
OneLineEach ==
    LET lines(i) == {k \in 1..Len(output) : output[k].id = i}
    IN  /\ \A i \in 1..loaded, j, k \in 1..Len(output) :
             j \in lines(i) /\ k \in lines(i) => j = k
        /\ ~running /\ ~killed => \A i \in 1..loaded : lines(i) # {}

\* Whatever Ctrl-C interrupts, stegbreak ends.
Terminates == <>~running

\* Between the words SIGINT is never left at its default for good: the status
\* line, the alarm or the loop's next turn is still to come and restores the
\* handler, wherever in the loop the two signals arrive.
HandlerComesBack ==
    pc \in {"line", "status", "rearm", "apply", "crack", "found", "rule"} =>
        sigint = "handler" \/ signaled \/ alarm \/ alarmed

\* stegbreak.1: "Pressing Ctrl-C causes a status line to be displayed, pressing
\* Ctrl-C a second time within one second aborts the program.": the first Ctrl-C
\* does not abort it.
FirstCtrlCIsStatus == killed => presses > 1

-----------------------------------------------------------------------------
(* The strengthenings that make the two properties of the output inductive. *)

\* No rule has made w of a line of its own before line l of rule r, or of that.
Passed(w, r, l) ==
    \A q \in (1..r) \ rejected :
        \A k \in 1..Len(table[q]) : q < r \/ k <= l => table[q][k] # w

\* The password of an object in the list is none of the words tried so far; while
\* a word is tried it may only be that of an object still to come; and the last
\* word, which is not tried again, is no object's.
NoneMissed ==
    /\ pc \in {"crack", "found"} => word = table[rule][line] /\ last = word
    /\ \A k \in 1..Len(db) :
         LET w == db[k].word
         IN  CASE pc = "line" -> Passed(w, rule, line) /\ (last # None => last # w)
               [] pc \in {"status", "rearm", "apply"} ->
                    Passed(w, rule, line - 1) /\ (last # None => last # w)
               [] pc \in {"crack", "found"} -> Passed(w, rule, line - 1) /\ (k < pos => word # w)
               [] pc = "rule" -> Passed(w, rule, Len(table[rule])) /\ (last # None => last # w)
               [] pc = "flush" -> Passed(w, Len(table), Len(table[Len(table)]))
               [] OTHER -> TRUE

Ids(s) == {s[k].id : k \in 1..Len(s)}

NoneTwice(s) == \A j, k \in 1..Len(s) : s[j].id = s[k].id => j = k

\* An object is in the list or has its line, and is so once; nothing is left in
\* the list where main() would end.
Accounted ==
    /\ NoneTwice(db) /\ NoneTwice(output)
    /\ Ids(db) \cap Ids(output) = {}
    /\ Ids(db) \cup Ids(output) = 1..loaded
    /\ batch \in Nat
    /\ pc = "load" /\ batch = 0 => db = <<>>
    /\ ~running /\ ~killed => db = <<>>

=============================================================================
