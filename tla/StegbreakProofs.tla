-------------------------- MODULE StegbreakProofs --------------------------
(* Theorems about Stegbreak, for any words, word list, rules and files.    *)
EXTENDS Stegbreak, SequenceFacts

\* Which fields the static variables of the crack functions have.
KeyShape ==
    /\ jphide = [oword |-> jphide.oword, iv |-> jphide.iv, initv5 |-> jphide.initv5,
                 key5 |-> jphide.key5, initv3 |-> jphide.initv3, key3 |-> jphide.key3]
    /\ jphide.initv3 \in BOOLEAN
    /\ stream = [h \in {"jsteg", "outguess"} |-> stream[h]]

\* The inductive invariant behind the caches: they hold what they were made
\* from, and the object found is one that such a key opens.
CacheInv == KeyShape /\ KeysMatch /\ FoundOpens

LEMMA CacheInit == Init => CacheInv
BY DEF Init, CacheInv, KeyShape, KeysMatch, FoundOpens

\* The version 5 key, once brought up to date for an object, is the key of its
\* iv and the word; the version 3 key that is kept is a key of the word.
LEMMA Key5Current ==
    ASSUME KeyShape, KeysMatch, NEW o, NEW k, k = JphideKey5(o)
    PROVE  /\ k = [oword |-> word, iv |-> o.iv, initv5 |-> TRUE, key5 |-> <<o.iv, word>>,
                   initv3 |-> k.initv3, key3 |-> jphide.key3]
           /\ k.initv3 \in BOOLEAN
           /\ k.initv3 => jphide.key3 = word
BY DEF JphideKey5, KeyShape, KeysMatch

LEMMA CrackJphideStep ==
    ASSUME KeyShape, KeysMatch, NEW o, CrackJphide(o)
    PROVE  KeyShape' /\ (jphide'.initv5 => jphide'.key5 = <<jphide'.iv, jphide'.oword>>)
           /\ (jphide'.initv3 => jphide'.key3 = jphide'.oword)
           /\ stream' = stream
           /\ (pc' = "found" => o.word = word)
           /\ (o.version \in {"v5", "v3"} /\ o.word = word => pc' = "found")
<1> DEFINE k5 == JphideKey5(o)
           k3 == JphideKey3(k5, word # jphide.oword)
<1>1. /\ k5 = [oword |-> word, iv |-> o.iv, initv5 |-> TRUE, key5 |-> <<o.iv, word>>,
               initv3 |-> k5.initv3, key3 |-> jphide.key3]
      /\ k5.initv3 \in BOOLEAN
      /\ k5.initv3 => jphide.key3 = word
  BY Key5Current
<1>2. k3 = [oword |-> word, iv |-> o.iv, initv5 |-> TRUE, key5 |-> <<o.iv, word>>,
            initv3 |-> TRUE, key3 |-> word]
  <2>1. ~k5.initv3 \/ word # jphide.oword \/ k5.key3 = word
    BY <1>1
  <2>2. /\ k5.oword = word /\ k5.iv = o.iv /\ k5.initv5 = TRUE /\ k5.key5 = <<o.iv, word>>
    BY <1>1
  <2> HIDE DEF k5
  <2> QED BY <2>1, <2>2 DEF JphideKey3
<1>3. /\ jphide' = IF Opens(o, "v5", k5.key5) THEN k5 ELSE k3
      /\ stream' = stream
      /\ pc' = IF Opens(o, "v5", k5.key5) \/ Opens(o, "v3", k3.key3) THEN "found" ELSE "crack"
  BY DEF CrackJphide
<1> HIDE DEF k5, k3
<1>4. jphide' = k5 \/ jphide' = k3
  BY <1>3
<1>5. KeyShape'
  BY <1>1, <1>2, <1>3, <1>4 DEF KeyShape
<1>6. /\ jphide'.initv5 => jphide'.key5 = <<jphide'.iv, jphide'.oword>>
      /\ jphide'.initv3 => jphide'.key3 = jphide'.oword
  BY <1>1, <1>2, <1>4
<1>7. ASSUME pc' = "found" PROVE o.word = word
  <2>1. CASE Opens(o, "v5", k5.key5)
    BY <2>1, <1>1 DEF Opens
  <2>2. CASE Opens(o, "v3", k3.key3)
    BY <2>2, <1>2 DEF Opens
  <2> QED BY <1>3, <1>7, <2>1, <2>2
<1>8. ASSUME o.version \in {"v5", "v3"}, o.word = word PROVE pc' = "found"
  BY <1>1, <1>2, <1>3, <1>8 DEF Opens
<1> QED BY <1>3, <1>5, <1>6, <1>7, <1>8

LEMMA CrackStreamStep ==
    ASSUME KeyShape, KeysMatch, NEW o, o.kind \in {"jsteg", "outguess"}, CrackStream(o)
    PROVE  /\ KeyShape' /\ KeysMatch' /\ (pc' = "found" => o.word = word)
           /\ (o.version = "stream" /\ o.word = word => pc' = "found")
<1> DEFINE s == stream[o.kind]
           key == IF ~s.init \/ word # s.oword THEN word ELSE s.key
<1>1. key = word
  BY DEF KeyShape, KeysMatch
<1>2. /\ stream' = [stream EXCEPT ![o.kind] = [oword |-> word, init |-> TRUE, key |-> key]]
      /\ jphide' = jphide
      /\ pc' = IF Opens(o, "stream", key) THEN "found" ELSE "crack"
  BY DEF CrackStream
<1> HIDE DEF key
<1>3. KeyShape'
  BY <1>2 DEF KeyShape
<1>4. KeysMatch'
  BY <1>1, <1>2 DEF KeysMatch, KeyShape
<1>5. /\ pc' = "found" => o.word = word
      /\ o.version = "stream" /\ o.word = word => pc' = "found"
  BY <1>1, <1>2 DEF Opens
<1> QED BY <1>3, <1>4, <1>5

-----------------------------------------------------------------------------
(* Values.                                                                 *)

\* t is the list with o put somewhere into it.
Placed(t, list, o) ==
    \E k \in 1..(Len(list) + 1) :
        /\ t \in Seq(Object) /\ Len(t) = Len(list) + 1 /\ t[k] = o
        /\ \A j \in 1..(k - 1) : t[j] = list[j]
        /\ \A j \in (k + 1)..(Len(list) + 1) : t[j] = list[j - 1]

\* db_insert() puts the object somewhere in the list and leaves the others as they
\* follow one another.
LEMMA InsertPlace ==
    ASSUME NEW list \in Seq(Object), NEW o \in Object, NEW t, t = Insert(o, list)
    PROVE  Placed(t, list, o)
<1> DEFINE notless == {k \in 1..Len(list) : o.iv <= list[k].iv}
<1>1. CASE o.kind # "jphide" \/ notless = {}
  <2>1. t = Append(list, o)
    BY <1>1 DEF Insert
  <2>2. /\ t \in Seq(Object) /\ Len(t) = Len(list) + 1 /\ t[Len(list) + 1] = o
        /\ \A j \in 1..Len(list) : t[j] = list[j]
    BY <2>1
  <2> QED BY <2>2 DEF Placed
<1>2. CASE ~(o.kind # "jphide" \/ notless = {})
  <2> DEFINE k == CHOOSE k \in notless : \A j \in notless : k <= j
  <2>1. \E m \in notless : \A j \in notless : m <= j
    <3>1. notless \subseteq Nat /\ notless # {}
      BY <1>2
    <3> HIDE DEF notless
    <3> QED BY <3>1, LeastNumber
  <2>2. k \in 1..Len(list)
    BY <2>1
  <2> HIDE DEF k
  <2>3. t = InsertAt(list, k, o)
    BY <1>2 DEF Insert, k
  <2>4. /\ t \in Seq(Object) /\ Len(t) = Len(list) + 1 /\ t[k] = o
        /\ \A j \in 1..(k - 1) : t[j] = list[j]
        /\ \A j \in (k + 1)..(Len(list) + 1) : t[j] = list[j - 1]
    BY <2>2, <2>3, InsertPlaces
  <2> QED BY <2>2, <2>4 DEF Placed
<1> QED BY <1>1, <1>2

LEMMA InsertType ==
    ASSUME NEW list \in Seq(Object), NEW o \in Object
    PROVE  Insert(o, list) \in Seq(Object)
BY InsertPlace DEF Placed

LEMMA AtMostThree == \A n \in Nat : n <= 3 => n \in {0, 1, 2, 3}
OBVIOUS

\* doinsert() does too, whatever the file holds.
LEMMA InsertedType ==
    ASSUME NEW objs \in Files, NEW list \in Seq(Object), NEW n \in Nat
    PROVE  Inserted(objs, list, n) \in Seq(Object)
<1>1. objs \in Seq(Held)
  BY FilesAssumption
<1>0. Len(objs) \in Nat /\ (Len(objs) = 0 \/ Len(objs) = 1 \/ Len(objs) = 2 \/ Len(objs) = 3)
  <2>1. Len(objs) \in Nat
    BY <1>1
  <2>2. Len(objs) <= 3
    BY FilesAssumption
  <2>3. Len(objs) = 0 \/ Len(objs) = 1 \/ Len(objs) = 2 \/ Len(objs) = 3
    BY <2>1, <2>2, AtMostThree
  <2> QED BY <2>1, <2>3
<1>2. ASSUME NEW k \in 1..3, k <= Len(objs) PROVE Named(objs[k], n + k) \in Object
  <2>1. objs[k] \in Held
    BY <1>1, <1>2
  <2> QED BY <2>1 DEF Held, Named, Object
<1> DEFINE one   == Insert(Named(objs[1], n + 1), list)
           two   == Insert(Named(objs[2], n + 2), one)
           three == Insert(Named(objs[3], n + 3), two)
<1>3. ASSUME Len(objs) >= 1 PROVE one \in Seq(Object)
  <2>1. Named(objs[1], n + 1) \in Object
    BY <1>0, <1>2, <1>3
  <2> QED BY <2>1, InsertType
<1>4. ASSUME Len(objs) >= 2 PROVE two \in Seq(Object)
  <2>1. Named(objs[2], n + 2) \in Object
    BY <1>0, <1>2, <1>4
  <2>2. one \in Seq(Object)
    BY <1>0, <1>3, <1>4
  <2> HIDE DEF one
  <2> QED BY <2>1, <2>2, InsertType
<1>5. ASSUME Len(objs) >= 3 PROVE three \in Seq(Object)
  <2>1. Named(objs[3], n + 3) \in Object
    BY <1>0, <1>2, <1>5
  <2>2. two \in Seq(Object)
    BY <1>0, <1>4, <1>5
  <2> HIDE DEF two
  <2> QED BY <2>1, <2>2, InsertType
<1>6. Inserted(objs, list, n) = CASE Len(objs) = 0 -> list
                                  [] Len(objs) = 1 -> one
                                  [] Len(objs) = 2 -> two
                                  [] Len(objs) = 3 -> three
  BY DEF Inserted
<1> HIDE DEF one, two, three
<1>7. CASE Len(objs) = 0
  BY <1>6, <1>7
<1>8. CASE Len(objs) = 1
  BY <1>3, <1>6, <1>8
<1>9. CASE Len(objs) = 2
  BY <1>4, <1>6, <1>9
<1>10. CASE Len(objs) = 3
  BY <1>5, <1>6, <1>10
<1> QED BY <1>0, <1>7, <1>8, <1>9, <1>10

\* The inductive invariant of the values: what TypeOK says, and the types of
\* the table, the word in hand and the counter that names objects.
TypeInv ==
    /\ TypeOK
    /\ table # <<>> /\ table \in Seq(Seq(Words \cup {Skip}))
    /\ \A r \in DOMAIN table : Len(table[r]) = Len(table[1])
    /\ word \in Words \cup {None}
    /\ loaded \in Nat
    /\ pc \in {"status", "rearm", "apply"} => line > 0

LEMMA TypeInit == Init => TypeInv
<1> SUFFICES ASSUME Init PROVE TypeInv
  OBVIOUS
<1>1. /\ table # <<>> /\ table \in Seq(Seq(Words \cup {Skip}))
      /\ \A r \in DOMAIN table : Len(table[r]) = Len(table[1])
  BY TablesAssumption DEF Init
<1>2. rule = 1 /\ line = 0 /\ 1 \in DOMAIN table /\ Len(table[1]) \in Nat
  BY <1>1 DEF Init
<1>3. db = <<>> /\ output = <<>> /\ pc = "load" /\ word = None /\ loaded = 0
  BY DEF Init
<1> QED BY <1>1, <1>2, <1>3 DEF TypeInv, TypeOK

\* A result line.
ResultLine == [id : Nat, word : Words \cup {None}]

\* The parts of TypeInv, one by one.
LEMMA TypeParts ==
    ASSUME TypeInv
    PROVE  /\ db \in Seq(Object) /\ Len(db) \in Nat
           /\ output \in Seq(ResultLine)
           /\ rule \in 1..Len(table) /\ table[rule] \in Seq(Words \cup {Skip})
           /\ line \in 0..Len(table[rule]) /\ Len(table[rule]) \in Nat
BY DEF TypeInv, TypeOK, ResultLine

LEMMA TypeNext == TypeInv /\ [Next]_vars => TypeInv'
<1> SUFFICES ASSUME TypeInv, [Next]_vars PROVE TypeInv'
  OBVIOUS
<1> USE DEF At
<1>0. /\ db \in Seq(Object) /\ Len(db) \in Nat
      /\ output \in Seq(ResultLine)
      /\ rule \in 1..Len(table) /\ table[rule] \in Seq(Words \cup {Skip})
      /\ line \in 0..Len(table[rule]) /\ Len(table[rule]) \in Nat
  BY TypeParts
<1>1. CASE ProcessLoop
  <2>1. PICK objs \in Files : loaded' = loaded + Len(objs) /\ db' = Inserted(objs, db, loaded)
    BY <1>1 DEF ProcessLoop
  <2>2. db' \in Seq(Object)
    BY <1>0, <2>1, InsertedType DEF TypeInv
  <2>3. loaded' \in Nat
    <3>1. objs \in Seq(Held)
      BY FilesAssumption
    <3>2. Len(objs) \in Nat
      BY <3>1
    <3> QED BY <2>1, <3>2 DEF TypeInv
  <2>4. pc' \in {"load", "start"} /\ output' = output
        /\ UNCHANGED <<table, rule, line, word>>
    BY <1>1 DEF ProcessLoop, tableVars, wordVars, TypeInv, TypeOK
  <2> QED BY <2>2, <2>3, <2>4 DEF TypeInv, TypeOK
<1>2. CASE LastBatch
  BY <1>2 DEF LastBatch, TypeInv, TypeOK, tableVars, wordVars
<1>3. CASE StartCrack
  <2>1. rule' = 1 /\ line' = 0 /\ pc' = "line"
        /\ UNCHANGED <<table, word, loaded, db, output>>
    BY <1>3 DEF StartCrack, mainVars, tableVars
  <2>2. 1 \in DOMAIN table /\ Len(table[1]) \in Nat
    BY DEF TypeInv
  <2> QED BY <2>1, <2>2 DEF TypeInv, TypeOK
<1>4. CASE NextLine
  <2>1. \/ (pc' = "status" /\ line' = line + 1 /\ line < Len(table[rule]))
       \/ (pc' = "rule" /\ line' = line)
    BY <1>4 DEF NextLine
  <2>2. UNCHANGED <<table, rule, word, loaded, db, output>>
    BY <1>4 DEF NextLine, mainVars, tableVars
  <2>3. line' \in 0..Len(table[rule]) /\ (pc' = "status" => line' > 0)
    BY <1>0, <2>1
  <2> QED BY <2>1, <2>2, <2>3 DEF TypeInv, TypeOK
<1>5. CASE Status
  BY <1>5 DEF Status, TypeInv, TypeOK, mainVars, tableVars, wordVars
<1>6. CASE Rearm
  BY <1>6 DEF Rearm, TypeInv, TypeOK, mainVars, tableVars, wordVars
<1>7. CASE Apply
  <2>1. table[rule][line] \in Words \cup {Skip}
    BY <1>0, <1>7 DEF Apply, TypeInv
  <2>2. \/ (pc' = "line" /\ word' = word)
       \/ (pc' = "crack" /\ pos' = 1 /\ word' = table[rule][line] /\ word' # Skip)
    BY <1>7 DEF Apply
  <2>3. UNCHANGED <<table, rule, line, loaded, db, output>>
    BY <1>7 DEF Apply, mainVars, tableVars
  <2>4. 1 \in 1..(Len(db) + 1)
    BY <1>0
  <2> QED BY <2>1, <2>2, <2>3, <2>4 DEF TypeInv, TypeOK
<1>8. CASE Crack
  <2>1. pos \in 1..Len(db)
    BY <1>0, <1>8 DEF Crack, TypeInv, TypeOK
  <2>2. \/ (pc' = "found" /\ pos' = pos)
       \/ (pc' = "crack" /\ pos' = pos + 1)
    BY <1>8 DEF Crack, CrackJphide, CrackStream
  <2>3. UNCHANGED <<table, rule, line, word, loaded, db, output>>
    BY <1>8 DEF Crack, mainVars, tableVars, wordVars
  <2>4. pos' \in 1..(Len(db) + 1) /\ (pc' = "found" => pos' <= Len(db))
    BY <1>0, <2>1, <2>2
  <2> QED BY <2>2, <2>3, <2>4 DEF TypeInv, TypeOK
<1>9. CASE Found
  <2>1. pos \in 1..Len(db)
    BY <1>0, <1>9 DEF Found, TypeInv, TypeOK
  <2>2. pc' = "crack" /\ pos' = pos /\ db' = RemoveAt(db, pos)
        /\ output' = Append(output, Line(db[pos], word))
        /\ UNCHANGED <<table, rule, line, word, loaded>>
    BY <1>9 DEF Found, Without, mainVars, tableVars, wordVars
  <2>3. pos \in 1..Len(db) /\ db \in Seq(Object)
    BY <1>0, <2>1
  <2>4. db' \in Seq(Object) /\ Len(db') = Len(db) - 1
    BY <2>2, <2>3, RemovePlaces
  <2>5. db[pos] \in Object
    BY <1>0, <2>1
  <2>6. Line(db[pos], word) \in ResultLine
    BY <2>5 DEF Line, ResultLine, Object, TypeInv
  <2>7. output' \in Seq(ResultLine)
    BY <1>0, <2>2, <2>6
  <2>8. pos' \in 1..(Len(db') + 1)
    BY <1>0, <2>1, <2>2, <2>4
  <2> QED BY <2>2, <2>4, <2>7, <2>8 DEF TypeInv, TypeOK, ResultLine
<1>10. CASE CrackReturns
  BY <1>10 DEF CrackReturns, TypeInv, TypeOK, mainVars, tableVars, wordVars
<1>11. CASE NextRule
  <2>1. \/ (pc' = "line" /\ rule' = rule + 1 /\ line' = 0 /\ rule < Len(table))
       \/ (pc' = "flush" /\ rule' = rule /\ line' = line)
    BY <1>11 DEF NextRule
  <2>2. UNCHANGED <<table, word, loaded, db, output>>
    BY <1>11 DEF NextRule, mainVars, tableVars
  <2>3. rule' \in DOMAIN table /\ table[rule'] \in Seq(Words \cup {Skip})
    BY <1>0, <2>1 DEF TypeInv
  <2>4. line' \in 0..Len(table[rule'])
    BY <1>0, <2>1, <2>3
  <2> QED BY <2>1, <2>2, <2>3, <2>4 DEF TypeInv, TypeOK
<1>12. CASE Flush
  <2>1. pc' = "load" /\ db' = <<>>
        /\ output' = output \o [k \in 1..Len(db) |-> Line(db[k], None)]
        /\ UNCHANGED <<table, rule, line, word, loaded>>
    BY <1>12 DEF Flush, mainVars, tableVars, wordVars
  <2>2. \A k \in 1..Len(db) : Line(db[k], None) \in ResultLine
    <3>1. \A k \in 1..Len(db) : db[k] \in Object
      BY <1>0
    <3> QED BY <3>1 DEF Line, ResultLine, Object
  <2>3. [k \in 1..Len(db) |-> Line(db[k], None)] \in Seq(ResultLine)
    BY <1>0, <2>2
  <2>4. output' \in Seq(ResultLine)
    BY <1>0, <2>1, <2>3
  <2> QED BY <2>1, <2>4 DEF TypeInv, TypeOK, ResultLine
<1>13. CASE Interrupt
  BY <1>13 DEF Interrupt, TypeInv, TypeOK, mainVars, tableVars, wordVars
<1>14. CASE Timer
  BY <1>14 DEF Timer, TypeInv, TypeOK, mainVars, tableVars, wordVars
<1>15. CASE UNCHANGED vars
  BY <1>15 DEF vars, TypeInv, TypeOK, mainVars, tableVars, wordVars
<1> QED BY <1>1, <1>2, <1>3, <1>4, <1>5, <1>6, <1>7, <1>8, <1>9, <1>10, <1>11, <1>12, <1>13,
           <1>14, <1>15 DEF Next, Step

\* The list and the result lines hold objects and lines, and db_crack() never
\* leaves the list, though objects go from it while it is walked.
THEOREM TypeCorrect == Spec => []TypeOK
<1>1. TypeInv => TypeOK
  BY DEF TypeInv
<1> QED BY <1>1, TypeInit, TypeNext, PTL DEF Spec

-----------------------------------------------------------------------------
(* The key caches.                                                         *)

LEMMA CacheNext == TypeInv /\ CacheInv /\ [Next]_vars => CacheInv'
<1> SUFFICES ASSUME TypeInv, CacheInv, [Next]_vars PROVE CacheInv'
  OBVIOUS
<1> USE DEF At
<1>0. KeyShape /\ KeysMatch /\ FoundOpens
  BY DEF CacheInv
<1>1. ASSUME UNCHANGED keyVars, pc' # "found" PROVE CacheInv'
  BY <1>0, <1>1 DEF CacheInv, KeyShape, KeysMatch, FoundOpens, keyVars
<1>2. ASSUME UNCHANGED <<pc, db, pos, word, keyVars>> PROVE CacheInv'
  BY <1>0, <1>2 DEF CacheInv, KeyShape, KeysMatch, FoundOpens, keyVars
<1>3. CASE Crack
  <2> DEFINE o == db[pos]
  <2>1. pos \in 1..Len(db) /\ db \in Seq(Object)
    BY <1>3, TypeParts DEF Crack, TypeInv, TypeOK
  <2>2. o.kind \in {"jphide", "jsteg", "outguess"}
    <3>1. o \in Object
      BY <2>1
    <3> QED BY <3>1 DEF Object
  <2>3. /\ IF o.kind = "jphide" THEN CrackJphide(o) ELSE CrackStream(o)
        /\ IF pc' = "crack" THEN pos' = pos + 1 ELSE pos' = pos
        /\ db' = db /\ word' = word
    BY <1>3 DEF Crack, wordVars
  <2> HIDE DEF o
  <2>4. KeyShape' /\ KeysMatch' /\ (pc' = "found" => o.word = word)
    <3>1. CASE o.kind = "jphide"
      <4>1. CrackJphide(o)
        BY <2>3, <3>1
      <4>2. KeyShape' /\ (jphide'.initv5 => jphide'.key5 = <<jphide'.iv, jphide'.oword>>)
            /\ (jphide'.initv3 => jphide'.key3 = jphide'.oword)
            /\ stream' = stream
            /\ (pc' = "found" => o.word = word)
        BY <1>0, <4>1, CrackJphideStep
      <4>3. KeysMatch'
        BY <1>0, <4>2 DEF KeysMatch
      <4> QED BY <4>2, <4>3
    <3>2. CASE o.kind # "jphide"
      BY <1>0, <2>2, <2>3, <3>2, CrackStreamStep
    <3> QED BY <3>1, <3>2
  <2>5. FoundOpens'
    BY <2>3, <2>4 DEF FoundOpens, o
  <2> QED BY <2>4, <2>5 DEF CacheInv
<1>4. CASE ProcessLoop
  <2>1. UNCHANGED keyVars /\ pc' # "found"
    BY <1>4 DEF ProcessLoop
  <2> QED BY <1>1, <2>1
<1>5. CASE LastBatch
  <2>1. UNCHANGED keyVars /\ pc' # "found"
    BY <1>5 DEF LastBatch
  <2> QED BY <1>1, <2>1
<1>6. CASE StartCrack \/ NextLine \/ Status \/ Rearm \/ Apply
  <2>1. UNCHANGED keyVars /\ pc' # "found"
    BY <1>6 DEF StartCrack, NextLine, Status, Rearm, Apply
  <2> QED BY <1>1, <2>1
<1>7. CASE Found \/ CrackReturns \/ NextRule \/ Flush
  <2>1. UNCHANGED keyVars /\ pc' # "found"
    BY <1>7 DEF Found, CrackReturns, NextRule, Flush
  <2> QED BY <1>1, <2>1
<1>8. CASE Interrupt \/ Timer \/ UNCHANGED vars
  <2>1. UNCHANGED <<pc, db, pos, word, keyVars>>
    BY <1>8 DEF Interrupt, Timer, vars, wordVars
  <2> QED BY <1>2, <2>1
<1> QED BY <1>3, <1>4, <1>5, <1>6, <1>7, <1>8 DEF Next, Step

LEMMA CacheAlways == Spec => []CacheInv
BY CacheInit, CacheNext, TypeInit, TypeNext, PTL DEF Spec

\* A key that is kept from one object to the next is never one of another word
\* or iv, whatever was found, skipped or flushed in between.
THEOREM CachesCorrect == Spec => []KeysMatch
<1>1. CacheInv => KeysMatch
  BY DEF CacheInv
<1> QED BY <1>1, CacheAlways, PTL

\* So no object is reported with a password that does not open it.
THEOREM ReportsCorrect == Spec => []FoundOpens
<1>1. CacheInv => FoundOpens
  BY DEF CacheInv
<1> QED BY <1>1, CacheAlways, PTL

-----------------------------------------------------------------------------
(* The signals.                                                            *)

LEMMA HandlerInit == Init => HandlerComesBack
BY DEF Init, HandlerComesBack

LEMMA HandlerNext == HandlerComesBack /\ [Next]_vars => HandlerComesBack'
<1> SUFFICES ASSUME HandlerComesBack, [Next]_vars PROVE HandlerComesBack'
  OBVIOUS
<1> USE DEF At
<1>1. ASSUME UNCHANGED signalVars, UNCHANGED pc PROVE HandlerComesBack'
  BY <1>1 DEF HandlerComesBack, signalVars
<1>2. ASSUME UNCHANGED signalVars,
             pc \in {"line", "status", "rearm", "apply", "crack", "found", "rule"}
      PROVE  HandlerComesBack'
  BY <1>2 DEF HandlerComesBack, signalVars
<1>3. CASE ProcessLoop \/ LastBatch \/ Flush
  BY <1>3 DEF ProcessLoop, LastBatch, Flush, HandlerComesBack, signalVars
<1>4. CASE StartCrack
  BY <1>4 DEF StartCrack, HandlerComesBack
<1>5. CASE Status
  BY <1>5, Zenon DEF Status, HandlerComesBack
<1>6. CASE Rearm
  BY <1>6 DEF Rearm, HandlerComesBack
<1>7. CASE NextLine \/ Apply \/ Crack \/ Found \/ CrackReturns \/ NextRule
  <2>1. UNCHANGED signalVars
        /\ pc \in {"line", "status", "rearm", "apply", "crack", "found", "rule"}
    BY <1>7 DEF NextLine, Apply, Crack, Found, CrackReturns, NextRule
  <2> QED BY <1>2, <2>1
<1>8. CASE Interrupt
  BY <1>8 DEF Interrupt, HandlerComesBack
<1>9. CASE Timer
  BY <1>9 DEF Timer, HandlerComesBack
<1>10. CASE UNCHANGED vars
  BY <1>1, <1>10 DEF vars
<1> QED BY <1>3, <1>4, <1>5, <1>6, <1>7, <1>8, <1>9, <1>10 DEF Next, Step

\* However the two signals fall between the steps of the loop, the default that
\* the first leaves behind is on its way to being replaced.
THEOREM HandlerCorrect == Spec => []HandlerComesBack
BY HandlerInit, HandlerNext, PTL DEF Spec

-----------------------------------------------------------------------------
(* No candidate is passed over.                                            *)

\* One more line of the rule in hand, and the end of a rule.
LEMMA PassedLine ==
    ASSUME NEW w, NEW r \in Nat, NEW l \in Nat, l > 0, Passed(w, r, l - 1), table[r][l] # w,
           table \in Seq(Seq(Words \cup {Skip}))
    PROVE  Passed(w, r, l)
<1> SUFFICES ASSUME NEW q \in (1..r) \ rejected, NEW k \in 1..Len(table[q]), q < r \/ k <= l
             PROVE  table[q][k] # w
  BY DEF Passed
<1>1. CASE q < r \/ k <= l - 1
  BY <1>1 DEF Passed
<1>2. CASE q = r /\ k = l
  BY <1>2
<1>3. q \in 1..r /\ q \in Nat
  OBVIOUS
<1>4. q < r \/ q = r
  BY <1>3
<1>5. k \in Nat
  OBVIOUS
<1> QED BY <1>1, <1>2, <1>4, <1>5

LEMMA PassedRule ==
    ASSUME NEW w, NEW r \in Nat, Passed(w, r, Len(table[r]))
    PROVE  Passed(w, r + 1, 0)
<1> SUFFICES ASSUME NEW q \in (1..(r + 1)) \ rejected, NEW k \in 1..Len(table[q]),
                    q < r + 1 \/ k <= 0
             PROVE  table[q][k] # w
  BY DEF Passed
<1>1. k > 0 /\ k \in Nat /\ q \in (1..r) \ rejected
  OBVIOUS
<1>2. q < r \/ k <= Len(table[r])
  BY <1>1
<1> QED BY <1>1, <1>2 DEF Passed

\* The words that are not those of any object of the list.
LEMMA MissedInit == Init => NoneMissed
BY DEF Init, NoneMissed

LEMMA MissedNext == TypeInv /\ CacheInv /\ NoneMissed /\ [Next]_vars => NoneMissed'
<1> SUFFICES ASSUME TypeInv, CacheInv, NoneMissed, [Next]_vars PROVE NoneMissed'
  OBVIOUS
<1> USE DEF At
<1>0. /\ db \in Seq(Object) /\ Len(db) \in Nat
      /\ rule \in 1..Len(table) /\ table[rule] \in Seq(Words \cup {Skip})
      /\ line \in 0..Len(table[rule]) /\ Len(table[rule]) \in Nat
      /\ line \in Nat /\ rule \in Nat /\ table \in Seq(Seq(Words \cup {Skip}))
  BY TypeParts DEF TypeInv
<1>1. ASSUME pc' \in {"load", "start"} PROVE NoneMissed'
  BY <1>1 DEF NoneMissed
<1>2. CASE ProcessLoop \/ LastBatch \/ Flush
  <2>1. pc' \in {"load", "start"}
    BY <1>2 DEF ProcessLoop, LastBatch, Flush
  <2> QED BY <1>1, <2>1
<1>3. CASE StartCrack
  <2>1. pc' = "line" /\ rule' = 1 /\ line' = 0 /\ last' = None
    BY <1>3 DEF StartCrack
  <2>2. \A w : Passed(w, 1, 0)'
    BY DEF Passed
  <2> QED BY <2>1, <2>2 DEF NoneMissed
<1>4. CASE NextLine
  <2>1. pc = "line" /\ UNCHANGED <<table, rejected, rule, last, db>>
    BY <1>4 DEF NextLine, tableVars
  <2>2. CASE rule \notin rejected /\ line < Len(table[rule])
    <3>1. line' = line + 1 /\ pc' = "status" /\ line' - 1 = line
      BY <1>0, <1>4, <2>2 DEF NextLine
    <3> QED BY <2>1, <3>1 DEF NoneMissed, Passed
  <2>3. CASE ~(rule \notin rejected /\ line < Len(table[rule]))
    <3>1. line' = line /\ pc' = "rule"
      BY <1>4, <2>3 DEF NextLine
    <3>2. ASSUME NEW w, Passed(w, rule, line) PROVE Passed(w, rule, Len(table[rule]))'
      <4>1. rule \in rejected \/ line = Len(table[rule])
        BY <1>0, <2>3
      <4>2. CASE line = Len(table[rule])
        BY <2>1, <3>2, <4>2 DEF Passed
      <4>3. CASE rule \in rejected
        <5>1. \A q \in (1..rule) \ rejected : q < rule
          BY <1>0, <4>3
        <5> QED BY <2>1, <3>2, <5>1 DEF Passed
      <4> QED BY <4>1, <4>2, <4>3
    <3> QED BY <2>1, <3>1, <3>2 DEF NoneMissed
  <2> QED BY <2>2, <2>3
<1>5. CASE Status \/ Rearm
  <2>1. /\ pc \in {"status", "rearm", "apply"} /\ pc' \in {"status", "rearm", "apply"}
        /\ UNCHANGED <<table, rejected, rule, line, last, db>>
    BY <1>5 DEF Status, Rearm, tableVars, wordVars
  <2> QED BY <2>1 DEF NoneMissed, Passed
<1>6. CASE Apply
  <2> DEFINE t == table[rule][line]
  <2>1. /\ pc = "apply" /\ UNCHANGED <<table, rejected, rule, line, db>>
        /\ \/ (t \in {Skip, last} /\ pc' = "line" /\ last' = last)
           \/ (pc' = "crack" /\ last' = t /\ word' = t /\ pos' = 1)
    BY <1>6 DEF Apply, tableVars
  <2>2. line > 0 /\ t \in Words \cup {Skip}
    BY <1>0, <2>1 DEF TypeInv
  <2>3. ASSUME NEW k \in 1..Len(db)
        PROVE  /\ Passed(db[k].word, rule, line - 1)
               /\ (last # None => last # db[k].word) /\ db[k].word # Skip
    <3>1. db[k] \in Object
      BY <1>0
    <3>2. db[k].word \in Words \cup {None}
      BY <3>1 DEF Object
    <3> QED BY <2>1, <3>2, SkipAssumption DEF NoneMissed
  <2>4. CASE t \in {Skip, last} /\ pc' = "line" /\ last' = last
    <3> SUFFICES ASSUME NEW k \in 1..Len(db)
                 PROVE  Passed(db[k].word, rule, line)' /\ (last # None => last # db[k].word)
      BY <2>1, <2>4 DEF NoneMissed
    <3>1. t # db[k].word
      BY <2>2, <2>3, <2>4, SkipAssumption
    <3>2. Passed(db[k].word, rule, line)
      BY <1>0, <2>2, <2>3, <3>1, PassedLine
    <3> QED BY <2>1, <2>3, <3>2 DEF Passed
  <2>5. CASE pc' = "crack" /\ last' = t /\ word' = t /\ pos' = 1
    <3>1. \A k \in 1..Len(db) : ~(k < 1)
      BY <1>0
    <3>2. \A k \in 1..Len(db) : Passed(db[k].word, rule, line - 1)'
      BY <2>1, <2>3 DEF Passed
    <3> QED BY <2>1, <2>5, <3>1, <3>2 DEF NoneMissed
  <2> QED BY <2>1, <2>4, <2>5
<1>7. CASE Crack
  <2>1. /\ pc = "crack" /\ pos \in 1..Len(db) /\ pos \in Nat
        /\ UNCHANGED <<table, rejected, rule, line, last, word, db>>
        /\ \/ (pc' = "found" /\ pos' = pos)
           \/ (pc' = "crack" /\ pos' = pos + 1)
    BY <1>0, <1>7 DEF Crack, CrackJphide, CrackStream, TypeInv, TypeOK, tableVars, wordVars
  <2>2. ASSUME pc' = "crack" PROVE db[pos].word # word
    <3> DEFINE o == db[pos]
    <3>1. o \in Object
      BY <1>0, <2>1
    <3>2. /\ o.kind \in {"jphide", "jsteg", "outguess"}
          /\ o.version \in {"v5", "v3", "stream"} /\ (o.version = "stream" <=> o.kind # "jphide")
      BY <3>1 DEF Object
    <3>3. IF o.kind = "jphide" THEN CrackJphide(o) ELSE CrackStream(o)
      BY <1>7 DEF Crack
    <3>4. KeyShape /\ KeysMatch
      BY DEF CacheInv
    <3> SUFFICES o.word # word
      OBVIOUS
    <3> HIDE DEF o
    <3>5. CASE o.kind = "jphide"
      BY <2>2, <3>2, <3>3, <3>4, <3>5, CrackJphideStep
    <3>6. CASE o.kind # "jphide"
      BY <2>2, <3>2, <3>3, <3>4, <3>6, CrackStreamStep
    <3> QED BY <3>5, <3>6
  <2>3. ASSUME NEW k \in 1..Len(db), k < pos'
        PROVE  word # db[k].word
    <3>1. CASE pos' = pos
      BY <2>1, <2>3, <3>1 DEF NoneMissed
    <3>2. CASE pc' = "crack" /\ pos' = pos + 1
      <4>1. k < pos \/ k = pos
        BY <1>0, <2>1, <2>3, <3>2
      <4> QED BY <2>1, <2>2, <3>2, <4>1 DEF NoneMissed
    <3> QED BY <2>1, <3>1, <3>2
  <2>4. \A k \in 1..Len(db) : Passed(db[k].word, rule, line - 1)'
    BY <2>1 DEF NoneMissed, Passed
  <2>5. word' = table'[rule'][line'] /\ last' = word'
    BY <2>1 DEF NoneMissed
  <2> QED BY <2>1, <2>3, <2>4, <2>5 DEF NoneMissed
<1>8. CASE Found
  <2>1. /\ pc = "found" /\ pc' = "crack" /\ pos \in 1..Len(db) /\ pos \in Nat
        /\ db' = RemoveAt(db, pos) /\ UNCHANGED <<table, rejected, rule, line, last, word, pos>>
    BY <1>0, <1>8 DEF Found, Without, TypeInv, TypeOK, tableVars, wordVars
  <2>2. /\ db' \in Seq(Object) /\ Len(db') = Len(db) - 1
        /\ \A j \in 1..(pos - 1) : db'[j] = db[j]
        /\ \A j \in pos..(Len(db) - 1) : db'[j] = db[j + 1]
    <3>1. pos \in 1..Len(db) /\ db \in Seq(Object) /\ db' = RemoveAt(db, pos)
      BY <1>0, <2>1
    <3> QED BY <3>1, RemovePlaces
  <2>3. word' = table'[rule'][line'] /\ last' = word'
    BY <2>1 DEF NoneMissed
  <2>4. ASSUME NEW k \in 1..Len(db')
        PROVE  Passed(db[k].word, rule, line - 1)' /\ (k < pos' => word' # db'[k].word)
    <3>1. CASE k < pos
      <4>1. k \in 1..Len(db) /\ db'[k] = db[k]
        BY <1>0, <2>1, <2>2, <3>1
      <4> QED BY <2>1, <3>1, <4>1 DEF NoneMissed, Passed
    <3>2. CASE ~(k < pos)
      <4>1. k + 1 \in 1..Len(db) /\ db'[k] = db[k + 1]
        BY <1>0, <2>1, <2>2, <3>2
      <4> QED BY <2>1, <3>2, <4>1 DEF NoneMissed, Passed
    <3> QED BY <3>1, <3>2
  <2> QED BY <2>1, <2>3, <2>4 DEF NoneMissed
<1>9. CASE CrackReturns
  <2>1. /\ pc = "crack" /\ pos > Len(db) /\ pc' = (IF db = <<>> THEN "flush" ELSE "line")
        /\ UNCHANGED <<table, rejected, rule, line, last, word, db>>
    BY <1>9 DEF CrackReturns, tableVars, wordVars
  <2>2. CASE db = <<>>
    <3>1. 1..Len(db') = {}
      BY <2>1, <2>2
    <3> QED BY <2>1, <2>2, <3>1 DEF NoneMissed
  <2>3. CASE db # <<>>
    <3> SUFFICES ASSUME NEW k \in 1..Len(db)
                 PROVE  Passed(db[k].word, rule, line)' /\ last # db[k].word
      BY <2>1, <2>3 DEF NoneMissed
    <3>1. pos \in Nat /\ k < pos
      <4>1. pos \in 1..(Len(db) + 1)
        BY <2>1 DEF TypeInv, TypeOK
      <4> QED BY <1>0, <2>1, <4>1
    <3>2. /\ word = table[rule][line] /\ last = word /\ word # db[k].word
          /\ Passed(db[k].word, rule, line - 1)
      BY <2>1, <3>1 DEF NoneMissed
    <3>3. Passed(db[k].word, rule, line)
      <4>1. CASE line > 0
        BY <1>0, <3>2, <4>1, PassedLine
      <4>2. CASE line = 0
        <5>1. \A q \in (1..rule) \ rejected : \A j \in 1..Len(table[q]) :
                 (q < rule \/ j <= line) => q < rule
          BY <1>0, <4>2
        <5> QED BY <3>2, <5>1 DEF Passed
      <4> QED BY <1>0, <4>1, <4>2
    <3> QED BY <2>1, <3>2, <3>3 DEF Passed
  <2> QED BY <2>2, <2>3
<1>10. CASE NextRule
  <2>1. pc = "rule" /\ UNCHANGED <<table, rejected, last, db>>
    BY <1>10 DEF NextRule, tableVars
  <2>2. CASE rule < Len(table)
    <3>1. rule' = rule + 1 /\ line' = 0 /\ pc' = "line"
      BY <1>10, <2>2 DEF NextRule
    <3>2. \A k \in 1..Len(db) : Passed(db[k].word, rule + 1, 0)
      BY <1>0, <2>1, PassedRule DEF NoneMissed
    <3>3. \A k \in 1..Len(db) : Passed(db[k].word, rule, line)'
      BY <2>1, <3>1, <3>2 DEF Passed
    <3> QED BY <2>1, <3>1, <3>3 DEF NoneMissed
  <2>3. CASE ~(rule < Len(table))
    <3>1. rule' = rule /\ pc' = "flush" /\ rule = Len(table)
      BY <1>0, <1>10, <2>3 DEF NextRule
    <3> QED BY <2>1, <3>1 DEF NoneMissed, Passed
  <2> QED BY <2>2, <2>3
<1>11. CASE Interrupt \/ Timer \/ UNCHANGED vars
  <2>1. UNCHANGED <<pc, table, rejected, rule, line, last, word, pos, db>>
    BY <1>11 DEF Interrupt, Timer, vars, tableVars, wordVars
  <2> QED BY <2>1 DEF NoneMissed, Passed
<1> QED BY <1>2, <1>3, <1>4, <1>5, <1>6, <1>7, <1>8, <1>9, <1>10, <1>11 DEF Next, Step

\* "negative" is true: an object that is still in the list when the words are done
\* is opened by none of the words that the rules that are not rejected make.
THEOREM NegativesCorrect == Spec => []NegativeIsTrue
<1>1. TypeInv /\ NoneMissed => NegativeIsTrue
  <2> SUFFICES ASSUME TypeInv, NoneMissed, pc = "flush", NEW k \in 1..Len(db),
                      NEW r \in DOMAIN table \ rejected, NEW j \in 1..Len(table[1])
               PROVE  db[k].word # table[r][j]
    BY DEF NegativeIsTrue, Candidates
  <2>1. Passed(db[k].word, Len(table), Len(table[Len(table)]))
    BY DEF NoneMissed
  <2>2. /\ table # <<>> /\ table \in Seq(Seq(Words \cup {Skip})) /\ Len(table) \in Nat
        /\ \A q \in DOMAIN table : Len(table[q]) = Len(table[1])
    BY DEF TypeInv
  <2>3. r \in (1..Len(table)) \ rejected /\ j \in 1..Len(table[r])
    BY <2>2
  <2>4. r < Len(table) \/ j <= Len(table[Len(table)])
    <3>1. Len(table) \in DOMAIN table /\ Len(table[1]) \in Nat
      BY <2>2
    <3> QED BY <2>2, <2>3, <3>1
  <2> QED BY <2>1, <2>3, <2>4 DEF Passed
<1> QED BY <1>1, TypeInit, TypeNext, CacheInit, CacheNext, MissedInit, MissedNext, PTL DEF Spec

-----------------------------------------------------------------------------
(* Every object has one line.                                              *)

\* The names of a sequence with one element more, or one less.
LEMMA InsertAccount ==
    ASSUME NEW list \in Seq(Object), NEW o \in Object, NEW t, t = Insert(o, list)
    PROVE  NoneTwice(list) /\ o.id \notin Ids(list) =>
             t \in Seq(Object) /\ NoneTwice(t) /\ Ids(t) = Ids(list) \cup {o.id}
<1>0. Placed(t, list, o)
  BY InsertPlace
<1>1. PICK k \in 1..(Len(list) + 1) :
        /\ t \in Seq(Object) /\ Len(t) = Len(list) + 1 /\ t[k] = o
        /\ \A j \in 1..(k - 1) : t[j] = list[j]
        /\ \A j \in (k + 1)..(Len(list) + 1) : t[j] = list[j - 1]
  BY <1>0 DEF Placed
<1> HAVE NoneTwice(list) /\ o.id \notin Ids(list)
<1>2. Len(list) \in Nat /\ k \in Nat
  OBVIOUS
<1> DEFINE Old(j) == IF j < k THEN j ELSE j - 1
<1>3. ASSUME NEW j \in 1..Len(t), j # k
      PROVE  Old(j) \in 1..Len(list) /\ t[j] = list[Old(j)]
  BY <1>1, <1>2, <1>3
<1>4. \A i, j \in 1..Len(t) : i # k /\ j # k /\ Old(i) = Old(j) => i = j
  BY <1>1, <1>2
<1> HIDE DEF Old
<1>5. \A j \in 1..Len(t) : j # k => t[j].id \in Ids(list)
  BY <1>3 DEF Ids
<1>6. NoneTwice(t)
  <2> SUFFICES ASSUME NEW i \in 1..Len(t), NEW j \in 1..Len(t), t[i].id = t[j].id PROVE i = j
    BY DEF NoneTwice
  <2>1. CASE i = k \/ j = k
    BY <1>1, <1>5, <2>1
  <2>2. CASE i # k /\ j # k
    <3>1. Old(i) = Old(j)
      BY <1>3, <2>2 DEF NoneTwice
    <3> QED BY <1>4, <2>2, <3>1
  <2> QED BY <2>1, <2>2
<1>7. Ids(t) = Ids(list) \cup {o.id}
  <2>1. ASSUME NEW j \in 1..Len(list) PROVE list[j].id \in Ids(t)
    <3>1. CASE j < k
      <4>1. j \in 1..Len(t) /\ t[j] = list[j]
        BY <1>1, <1>2, <3>1
      <4> QED BY <4>1 DEF Ids
    <3>2. CASE ~(j < k)
      <4>1. /\ j + 1 \in 1..Len(t) /\ j + 1 \in (k + 1)..(Len(list) + 1)
            /\ (j + 1) - 1 = j
        BY <1>1, <1>2, <3>2
      <4>2. t[j + 1] = list[j]
        BY <1>1, <4>1
      <4> QED BY <4>1, <4>2 DEF Ids
    <3> QED BY <3>1, <3>2
  <2>2. k \in 1..Len(t) /\ t[k].id = o.id
    BY <1>1
  <2>3. Ids(list) \cup {o.id} \subseteq Ids(t)
    BY <2>1, <2>2 DEF Ids
  <2>4. Ids(t) \subseteq Ids(list) \cup {o.id}
    BY <1>1, <1>5 DEF Ids
  <2> QED BY <2>3, <2>4
<1> QED BY <1>1, <1>6, <1>7

LEMMA RemoveAccount ==
    ASSUME NEW list \in Seq(Object), NEW k \in 1..Len(list), NEW t, t = RemoveAt(list, k),
           NoneTwice(list)
    PROVE  NoneTwice(t) /\ Ids(t) = Ids(list) \ {list[k].id}
<1>1. /\ t \in Seq(Object) /\ Len(t) = Len(list) - 1
      /\ \A j \in 1..(k - 1) : t[j] = list[j]
      /\ \A j \in k..(Len(list) - 1) : t[j] = list[j + 1]
  BY RemovePlaces
<1>2. Len(list) \in Nat /\ k \in Nat
  OBVIOUS
<1> DEFINE Old(j) == IF j < k THEN j ELSE j + 1
<1>3. ASSUME NEW j \in 1..Len(t)
      PROVE  Old(j) \in 1..Len(list) /\ Old(j) # k /\ t[j] = list[Old(j)]
  BY <1>1, <1>2, <1>3
<1>4. \A i, j \in 1..Len(t) : Old(i) = Old(j) => i = j
  BY <1>1, <1>2
<1>5. \A i \in 1..Len(list) : i # k => \E j \in 1..Len(t) : Old(j) = i
  <2> SUFFICES ASSUME NEW i \in 1..Len(list), i # k PROVE \E j \in 1..Len(t) : Old(j) = i
    OBVIOUS
  <2>1. CASE i < k
    <3>1. i \in 1..Len(t) /\ Old(i) = i
      BY <1>1, <1>2, <2>1
    <3> QED BY <3>1
  <2>2. CASE i > k
    <3>1. i - 1 \in 1..Len(t) /\ Old(i - 1) = i
      BY <1>1, <1>2, <2>2
    <3> QED BY <3>1
  <2> QED BY <1>2, <2>1, <2>2
<1> HIDE DEF Old
<1>6. NoneTwice(t)
  BY <1>3, <1>4 DEF NoneTwice
<1>7. Ids(t) \subseteq Ids(list) \ {list[k].id}
  <2> SUFFICES ASSUME NEW j \in 1..Len(t) PROVE t[j].id \in Ids(list) /\ t[j].id # list[k].id
    BY DEF Ids
  <2> QED BY <1>3 DEF NoneTwice, Ids
<1>8. Ids(list) \ {list[k].id} \subseteq Ids(t)
  <2> SUFFICES ASSUME NEW i \in 1..Len(list), list[i].id # list[k].id PROVE list[i].id \in Ids(t)
    BY DEF Ids
  <2>1. PICK j \in 1..Len(t) : Old(j) = i
    BY <1>5
  <2> QED BY <1>3, <2>1 DEF Ids
<1> QED BY <1>6, <1>7, <1>8

\* The names of two sequences one behind the other.
LEMMA ConcatAccount ==
    ASSUME NEW a \in Seq(ResultLine), NEW b \in Seq(ResultLine), NEW t, t = a \o b,
           NoneTwice(a), NoneTwice(b), Ids(a) \cap Ids(b) = {}
    PROVE  NoneTwice(t) /\ Ids(t) = Ids(a) \cup Ids(b)
<1> DEFINE n == Len(a)
           m == Len(b)
<1>1. /\ t \in Seq(ResultLine) /\ Len(t) = n + m /\ n \in Nat /\ m \in Nat
      /\ \A k \in 1..n : t[k] = a[k]
      /\ \A k \in (n + 1)..(n + m) : t[k] = b[k - n]
  <2> DEFINE w == a \o b
  <2>1. /\ w \in Seq(ResultLine) /\ Len(w) = n + m
        /\ \A k \in 1..n : w[k] = a[k]
        /\ \A k \in (n + 1)..(n + m) : w[k] = b[k - n]
    BY ConcatPlaces
  <2>2. t = w
    OBVIOUS
  <2> HIDE DEF w
  <2> QED BY <2>1, <2>2
<1>2. \A k \in 1..n : a[k].id \in Ids(a)
  BY DEF Ids
<1>3. \A k \in 1..m : b[k].id \in Ids(b)
  BY DEF Ids
<1> HIDE DEF n, m
<1>4. ASSUME NEW i \in 1..Len(t), NEW j \in 1..Len(t), t[i].id = t[j].id PROVE i = j
  <2>1. CASE i \in 1..n /\ j \in 1..n
    BY <1>1, <1>4, <2>1 DEF NoneTwice, n
  <2>2. CASE i \in (n + 1)..(n + m) /\ j \in (n + 1)..(n + m)
    <3>1. t[i] = b[i - n] /\ t[j] = b[j - n]
      BY <1>1, <2>2
    <3>2. i - n \in 1..m /\ j - n \in 1..m
      BY <1>1, <2>2
    <3>3. b[i - n].id = b[j - n].id
      BY <1>4, <3>1
    <3>4. i - n = j - n
      BY <3>2, <3>3 DEF NoneTwice, m
    <3> QED BY <1>1, <2>2, <3>4
  <2>3. CASE i \in 1..n /\ j \in (n + 1)..(n + m)
    <3>1. j - n \in 1..m /\ a[i].id = b[j - n].id
      BY <1>1, <1>4, <2>3
    <3> QED BY <1>2, <1>3, <2>3, <3>1
  <2>4. CASE j \in 1..n /\ i \in (n + 1)..(n + m)
    <3>1. i - n \in 1..m /\ a[j].id = b[i - n].id
      BY <1>1, <1>4, <2>4
    <3> QED BY <1>2, <1>3, <2>4, <3>1
  <2> QED BY <1>1, <2>1, <2>2, <2>3, <2>4
<1>5. Ids(t) \subseteq Ids(a) \cup Ids(b)
  <2> SUFFICES ASSUME NEW k \in 1..Len(t) PROVE t[k].id \in Ids(a) \cup Ids(b)
    BY DEF Ids
  <2>1. CASE k \in 1..n
    BY <1>1, <1>2, <2>1
  <2>2. CASE k \in (n + 1)..(n + m)
    <3>1. k - n \in 1..m /\ t[k] = b[k - n]
      BY <1>1, <2>2
    <3> QED BY <1>3, <3>1
  <2> QED BY <1>1, <2>1, <2>2
<1>6. Ids(a) \cup Ids(b) \subseteq Ids(t)
  <2>1. ASSUME NEW k \in 1..n PROVE a[k].id \in Ids(t)
    <3>1. k \in 1..Len(t) /\ t[k] = a[k]
      BY <1>1
    <3> QED BY <3>1 DEF Ids
  <2>2. ASSUME NEW k \in 1..m PROVE b[k].id \in Ids(t)
    <3>1. n + k \in (n + 1)..(n + m) /\ n + k \in 1..Len(t) /\ (n + k) - n = k
      BY <1>1
    <3>2. t[n + k] = b[k]
      BY <1>1, <3>1
    <3> QED BY <3>1, <3>2 DEF Ids
  <2> QED BY <2>1, <2>2 DEF Ids, n, m
<1> QED BY <1>4, <1>5, <1>6 DEF NoneTwice

LEMMA AppendAccount ==
    ASSUME NEW a \in Seq(ResultLine), NEW e \in ResultLine, NoneTwice(a), e.id \notin Ids(a)
    PROVE  NoneTwice(Append(a, e)) /\ Ids(Append(a, e)) = Ids(a) \cup {e.id}
<1> DEFINE b == <<e>>
           t == Append(a, e)
<1>1. b \in Seq(ResultLine) /\ t = a \o b /\ Len(b) = 1 /\ b[1] = e
  OBVIOUS
<1> HIDE DEF b, t
<1>2. NoneTwice(b) /\ Ids(b) = {e.id}
  BY <1>1 DEF NoneTwice, Ids
<1>3. Ids(a) \cap Ids(b) = {}
  BY <1>2
<1>4. NoneTwice(t) /\ Ids(t) = Ids(a) \cup Ids(b)
  BY <1>1, <1>2, <1>3, ConcatAccount
<1> QED BY <1>2, <1>4 DEF t

\* One object more, under the next name.
LEMMA NamedAccount ==
    ASSUME NEW h \in Held, NEW list \in Seq(Object), NEW n \in Nat, NEW m \in Nat, m = n + 1,
           NoneTwice(list), Ids(list) \subseteq 1..n, NEW t, t = Insert(Named(h, m), list)
    PROVE  t \in Seq(Object) /\ NoneTwice(t) /\ Ids(t) = Ids(list) \cup {m} /\ Ids(t) \subseteq 1..m
<1> DEFINE o == Named(h, m)
<1>1. o \in Object /\ o.id = m
  BY DEF Held, Named, Object
<1>2. m \notin Ids(list)
  OBVIOUS
<1>3. t = Insert(o, list)
  OBVIOUS
<1> HIDE DEF o
<1>4. t \in Seq(Object) /\ NoneTwice(t) /\ Ids(t) = Ids(list) \cup {m}
  BY <1>1, <1>2, <1>3, InsertAccount
<1>5. Ids(t) \subseteq 1..m
  BY <1>4
<1> QED BY <1>4, <1>5

\* What doinsert() adds to the list: as many names as objects, the next ones.
LEMMA InsertedAccount ==
    ASSUME NEW objs \in Files, NEW list \in Seq(Object), NEW n \in Nat,
           NoneTwice(list), Ids(list) \subseteq 1..n
    PROVE  /\ NoneTwice(Inserted(objs, list, n))
           /\ Ids(Inserted(objs, list, n)) = Ids(list) \cup (n + 1)..(n + Len(objs))
<1>1. objs \in Seq(Held)
  BY FilesAssumption
<1>2. Len(objs) \in Nat /\ (Len(objs) = 0 \/ Len(objs) = 1 \/ Len(objs) = 2 \/ Len(objs) = 3)
  <2>1. Len(objs) \in Nat
    BY <1>1
  <2>2. Len(objs) <= 3
    BY FilesAssumption
  <2>3. Len(objs) = 0 \/ Len(objs) = 1 \/ Len(objs) = 2 \/ Len(objs) = 3
    BY <2>1, <2>2, AtMostThree
  <2> QED BY <2>1, <2>3
<1> DEFINE one   == Insert(Named(objs[1], n + 1), list)
           two   == Insert(Named(objs[2], n + 2), one)
           three == Insert(Named(objs[3], n + 3), two)
<1>3. ASSUME Len(objs) >= 1
      PROVE  /\ one \in Seq(Object) /\ NoneTwice(one) /\ Ids(one) = Ids(list) \cup {n + 1}
             /\ Ids(one) \subseteq 1..(n + 1)
  <2>1. objs[1] \in Held /\ n + 1 \in Nat
    BY <1>1, <1>2, <1>3
  <2> QED BY <2>1, NamedAccount
<1>4. ASSUME Len(objs) >= 2
      PROVE  /\ two \in Seq(Object) /\ NoneTwice(two) /\ Ids(two) = Ids(one) \cup {n + 2}
             /\ Ids(two) \subseteq 1..(n + 2)
  <2>1. objs[2] \in Held
    BY <1>1, <1>2, <1>4
  <2>2. one \in Seq(Object) /\ NoneTwice(one) /\ Ids(one) \subseteq 1..(n + 1)
    BY <1>2, <1>3, <1>4
  <2>3. PICK a \in Nat, b \in Nat : a = n + 1 /\ b = n + 2 /\ b = a + 1
    OBVIOUS
  <2>4. two = Insert(Named(objs[2], b), one)
    BY <2>3
  <2> HIDE DEF one, two, three
  <2>5. two \in Seq(Object) /\ NoneTwice(two) /\ Ids(two) = Ids(one) \cup {b} /\ Ids(two) \subseteq 1..b
    <3>1. Ids(one) \subseteq 1..a /\ b = a + 1
      BY <2>2, <2>3
    <3> QED BY <2>1, <2>2, <3>1, <2>4, NamedAccount
  <2> QED BY <2>3, <2>5
<1>5. ASSUME Len(objs) >= 3
      PROVE  /\ three \in Seq(Object) /\ NoneTwice(three) /\ Ids(three) = Ids(two) \cup {n + 3}
             /\ Ids(three) \subseteq 1..(n + 3)
  <2>1. objs[3] \in Held
    BY <1>1, <1>2, <1>5
  <2>2. two \in Seq(Object) /\ NoneTwice(two) /\ Ids(two) \subseteq 1..(n + 2)
    BY <1>2, <1>4, <1>5
  <2>3. PICK a \in Nat, b \in Nat : a = n + 2 /\ b = n + 3 /\ b = a + 1
    OBVIOUS
  <2>4. three = Insert(Named(objs[3], b), two)
    BY <2>3
  <2> HIDE DEF one, two, three
  <2>5. three \in Seq(Object) /\ NoneTwice(three) /\ Ids(three) = Ids(two) \cup {b} /\ Ids(three) \subseteq 1..b
    <3>1. Ids(two) \subseteq 1..a /\ b = a + 1
      BY <2>2, <2>3
    <3> QED BY <2>1, <2>2, <3>1, <2>4, NamedAccount
  <2> QED BY <2>3, <2>5
<1>6. Inserted(objs, list, n) = CASE Len(objs) = 0 -> list
                                  [] Len(objs) = 1 -> one
                                  [] Len(objs) = 2 -> two
                                  [] Len(objs) = 3 -> three
  BY DEF Inserted
<1> HIDE DEF one, two, three
<1>7. CASE Len(objs) = 0
  <2>1. Inserted(objs, list, n) = list /\ (n + 1)..(n + Len(objs)) = {}
    BY <1>6, <1>7
  <2> QED BY <2>1
<1>8. CASE Len(objs) = 1
  <2>1. Inserted(objs, list, n) = one /\ (n + 1)..(n + Len(objs)) = {n + 1}
    BY <1>6, <1>8
  <2> QED BY <1>3, <1>8, <2>1
<1>9. CASE Len(objs) = 2
  <2>1. Inserted(objs, list, n) = two /\ (n + 1)..(n + Len(objs)) = {n + 1, n + 2}
    BY <1>6, <1>9
  <2>2. Ids(two) = Ids(list) \cup {n + 1} \cup {n + 2} /\ NoneTwice(two)
    BY <1>3, <1>4, <1>9
  <2> QED BY <2>1, <2>2
<1>10. CASE Len(objs) = 3
  <2>1. Inserted(objs, list, n) = three /\ (n + 1)..(n + Len(objs)) = {n + 1, n + 2, n + 3}
    BY <1>6, <1>10
  <2>2. Ids(three) = Ids(list) \cup {n + 1} \cup {n + 2} \cup {n + 3} /\ NoneTwice(three)
    BY <1>3, <1>4, <1>5, <1>10
  <2> QED BY <2>1, <2>2
<1> QED BY <1>2, <1>7, <1>8, <1>9, <1>10

LEMMA AccountedInit == Init => Accounted
<1> SUFFICES ASSUME Init PROVE Accounted
  OBVIOUS
<1>1. db = <<>> /\ output = <<>> /\ loaded = 0 /\ batch = 0 /\ running
  BY DEF Init
<1>2. Ids(<<>>) = {} /\ NoneTwice(<<>>)
  BY DEF Ids, NoneTwice
<1> QED BY <1>1, <1>2 DEF Accounted

LEMMA AccountedNext == TypeInv /\ Accounted /\ [Next]_vars => Accounted'
<1> SUFFICES ASSUME TypeInv, Accounted, [Next]_vars PROVE Accounted'
  OBVIOUS
<1> USE DEF At
<1>0. db \in Seq(Object) /\ output \in Seq(ResultLine) /\ loaded \in Nat
  BY TypeParts DEF TypeInv
<1>1. CASE ProcessLoop
  <2>1. PICK objs \in Files :
          /\ loaded' = loaded + Len(objs) /\ db' = Inserted(objs, db, loaded)
          /\ LET i == IF objs = <<>> THEN batch ELSE batch + 1
             IN  IF i >= BatchSize
                 THEN batch' = 0 /\ pc' = "start"
                 ELSE batch' = i /\ UNCHANGED pc
    BY <1>1 DEF ProcessLoop
  <2>2. objs \in Seq(Held) /\ Len(objs) \in Nat
    <3>1. objs \in Seq(Held)
      BY FilesAssumption
    <3> QED BY <3>1
  <2>3. pc = "load" /\ running' /\ output' = output
    BY <1>1 DEF ProcessLoop, endVars
  <2>4. NoneTwice(db) /\ Ids(db) \subseteq 1..loaded
    BY DEF Accounted
  <2>5. /\ NoneTwice(db')
        /\ Ids(db') = Ids(db) \cup (loaded + 1)..(loaded + Len(objs))
    BY <1>0, <2>1, <2>4, InsertedAccount
  <2>6. 1..loaded' = (1..loaded) \cup (loaded + 1)..(loaded + Len(objs))
    BY <1>0, <2>1, <2>2
  <2>7. \A i \in 1..loaded : i \notin (loaded + 1)..(loaded + Len(objs))
    BY <1>0, <2>2
  <2>8. /\ Ids(db') \cap Ids(output) = {}
        /\ Ids(db') \cup Ids(output) = 1..loaded'
    BY <2>5, <2>6, <2>7 DEF Accounted
  <2>9. batch' \in Nat
    BY <2>1 DEF Accounted
  <2>10. ASSUME pc' = "load", batch' = 0 PROVE db' = <<>>
    <3>1. objs = <<>> /\ batch = 0
      BY <2>1, <2>3, <2>10 DEF Accounted
    <3>2. Len(objs) = 0
      BY <3>1
    <3>3. db' = db
      BY <2>1, <3>2 DEF Inserted
    <3> QED BY <2>3, <3>1, <3>3 DEF Accounted
  <2> QED BY <2>3, <2>5, <2>8, <2>9, <2>10 DEF Accounted
<1>2. CASE LastBatch
  <2>1. /\ pc = "load" /\ UNCHANGED <<db, output, loaded, batch>>
        /\ (pc' = "start" /\ running') \/ ~(batch > 0)
    BY <1>2 DEF LastBatch
  <2>2. batch \in Nat
    BY DEF Accounted
  <2>3. (pc' = "start" /\ running') \/ db = <<>>
    BY <2>1, <2>2 DEF Accounted
  <2> QED BY <2>1, <2>3 DEF Accounted
<1>3. CASE Found
  <2>1. pos \in 1..Len(db)
    BY <1>3 DEF Found, TypeInv, TypeOK
  <2>2. /\ db' = RemoveAt(db, pos) /\ output' = Append(output, Line(db[pos], word))
        /\ pc' = "crack" /\ running' /\ UNCHANGED <<loaded, batch>>
    BY <1>3 DEF Found, Without, mainVars, endVars
  <2>3. db[pos] \in Object
    BY <1>0, <2>1
  <2>4. Line(db[pos], word) \in ResultLine /\ Line(db[pos], word).id = db[pos].id
    BY <2>3 DEF Line, ResultLine, Object, TypeInv
  <2>5. db[pos].id \in Ids(db)
    BY <2>1 DEF Ids
  <2>6. NoneTwice(db') /\ Ids(db') = Ids(db) \ {db[pos].id}
    <3>1. NoneTwice(db)
      BY DEF Accounted
    <3> QED BY <1>0, <2>1, <2>2, <3>1, RemoveAccount
  <2>7. NoneTwice(output') /\ Ids(output') = Ids(output) \cup {db[pos].id}
    <3>1. NoneTwice(output) /\ db[pos].id \notin Ids(output)
      BY <2>5 DEF Accounted
    <3> QED BY <1>0, <2>2, <2>4, <3>1, AppendAccount
  <2> QED BY <2>2, <2>5, <2>6, <2>7 DEF Accounted
<1>4. CASE Flush
  <2> DEFINE b == [k \in 1..Len(db) |-> Line(db[k], None)]
  <2>1. /\ pc' = "load" /\ db' = <<>> /\ output' = output \o b /\ UNCHANGED <<loaded, batch>>
    BY <1>4 DEF Flush, mainVars
  <2>2. \A k \in 1..Len(db) : Line(db[k], None) \in ResultLine /\ Line(db[k], None).id = db[k].id
    <3>1. \A k \in 1..Len(db) : db[k] \in Object
      BY <1>0
    <3> QED BY <3>1 DEF Line, ResultLine, Object
  <2>3. Len(db) \in Nat
    BY <1>0
  <2>4. b \in Seq(ResultLine) /\ Len(b) = Len(db)
    BY <2>2, <2>3
  <2>5. \A k \in 1..Len(db) : b[k].id = db[k].id
    BY <2>2
  <2> HIDE DEF b
  <2>6. Ids(b) = Ids(db) /\ NoneTwice(b)
    BY <2>4, <2>5 DEF Ids, NoneTwice, Accounted
  <2>7. NoneTwice(output') /\ Ids(output') = Ids(output) \cup Ids(db)
    <3>1. NoneTwice(output) /\ Ids(output) \cap Ids(b) = {}
      BY <2>6 DEF Accounted
    <3> QED BY <1>0, <2>1, <2>4, <2>6, <3>1, ConcatAccount
  <2>8. Ids(<<>>) = {} /\ NoneTwice(<<>>)
    BY DEF Ids, NoneTwice
  <2> QED BY <2>1, <2>7, <2>8 DEF Accounted
<1>5. CASE StartCrack \/ NextLine \/ Status \/ Rearm \/ Apply \/ Crack \/ CrackReturns \/ NextRule
  <2>1. UNCHANGED <<db, output, loaded, batch>>
    BY <1>5 DEF StartCrack, NextLine, Status, Rearm, Apply, Crack, CrackReturns, NextRule, mainVars
  <2>2. pc' # "load"
    BY <1>5 DEF StartCrack, NextLine, Status, Rearm, Apply, Crack, CrackJphide, CrackStream,
                CrackReturns, NextRule
  <2>3. running'
    BY <1>5 DEF StartCrack, NextLine, Status, Rearm, Apply, Crack, CrackReturns, NextRule, endVars
  <2> QED BY <2>1, <2>2, <2>3 DEF Accounted
<1>6. CASE Interrupt \/ Timer \/ UNCHANGED vars
  <2>1. UNCHANGED <<pc, db, output, loaded, batch>>
    BY <1>6 DEF Interrupt, Timer, vars, mainVars
  <2>2. killed' \/ UNCHANGED <<running, killed>>
    BY <1>6 DEF Interrupt, Timer, vars, endVars
  <2> QED BY <2>1, <2>2 DEF Accounted
<1> QED BY <1>1, <1>2, <1>3, <1>4, <1>5, <1>6 DEF Next, Step

\* No object has two lines, and unless Ctrl-C aborted it the program ends with one
\* for every object that it loaded.
THEOREM LinesCorrect == Spec => []OneLineEach
<1>1. TypeInv /\ Accounted => OneLineEach
  <2> SUFFICES ASSUME TypeInv, Accounted PROVE OneLineEach
    OBVIOUS
  <2> DEFINE lines(i) == {k \in 1..Len(output) : output[k].id = i}
  <2>1. \A i \in 1..loaded, j, k \in 1..Len(output) : j \in lines(i) /\ k \in lines(i) => j = k
    BY DEF Accounted, NoneTwice
  <2>2. ASSUME ~running /\ ~killed, NEW i \in 1..loaded PROVE lines(i) # {}
    <3>1. db = <<>>
      BY <2>2 DEF Accounted
    <3>2. i \in Ids(output)
      BY <2>2, <3>1 DEF Accounted, Ids
    <3> QED BY <3>2 DEF Ids
  <2> QED BY <2>1, <2>2 DEF OneLineEach
<1> QED BY <1>1, TypeInit, TypeNext, AccountedInit, AccountedNext, PTL DEF Spec

=============================================================================
