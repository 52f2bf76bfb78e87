------------------------ MODULE StegbreakInputProofs ------------------------
(***************************************************************************)
(* Proofs about what stegbreak works on.                                   *)
(*                                                                         *)
(* The rules (Wordlist), for files, words and rules of any length: the     *)
(* line that a message names, the lengths of words, and that every rule is *)
(* made once.  The objects that words are tried on (Objects), for images   *)
(* of any size: what they are collected from, and that they are loaded as  *)
(* they were stored.  The images that two tools make and compare           *)
(* (Coefficients), of any size: what stegdeimage keeps, and what           *)
(* stegcompare counts.                                                     *)
(***************************************************************************)
EXTENDS Wordlist, Objects, Coefficients, SequenceFacts

-----------------------------------------------------------------------------
(* The line that a message names.                                          *)

\* A sequence, of whatever.
IsSeq(s) == \E S : s \in Seq(S)

LEMMA AppendIsSeq ==
    ASSUME NEW s, IsSeq(s), NEW e
    PROVE  /\ IsSeq(Append(s, e)) /\ Append(s, e)[Len(Append(s, e))] = e
           /\ Append(s, e) # <<>>
<1>1. PICK S : s \in Seq(S)
  BY DEF IsSeq
<1>2. s \in Seq(S \cup {e}) /\ e \in S \cup {e}
  BY <1>1
<1>3. Append(s, e) \in Seq(S \cup {e}) /\ Append(s, e)[Len(Append(s, e))] = e
  BY <1>2
<1>4. Append(s, e) # <<>>
  <2>1. Len(Append(s, e)) = Len(s) + 1 /\ Len(s) \in Nat
    BY <1>2
  <2> QED BY <2>1
<1> QED BY <1>3, <1>4 DEF IsSeq

\* Every line that a list gives has a number.
LEMMA ListNumbered ==
    ASSUME Numbered, NEW title PROVE GetList(title) \in Seq(RuleLines)
<1> DEFINE found == {k \in DOMAIN cfg_database : cfg_database[k].name = title}
           first == CHOOSE k \in found : \A j \in found : k <= j
<1>1. CASE found = {}
  <2>1. GetSection(title) = 0
    BY <1>1 DEF GetSection
  <2> QED BY <2>1 DEF GetList
<1>2. CASE found # {}
  <2>1. found \subseteq Nat
    BY DEF Numbered
  <2>2. \E k \in found : \A j \in found : k <= j
    <3> HIDE DEF found
    <3> QED BY <1>2, <2>1, LeastNumber
  <2>3. first \in found
    <3> HIDE DEF found
    <3> QED BY <2>2
  <2>4. GetSection(title) = first
    BY <1>2 DEF GetSection
  <2> HIDE DEF first
  <2>5. first \in 1..Len(cfg_database) /\ first # 0
    <3>1. cfg_database \in Seq(Sections) /\ first \in DOMAIN cfg_database
      BY <2>3 DEF Numbered
    <3> QED BY <3>1
  <2> HIDE DEF found
  <2>6. GetList(title) = cfg_database[first].list
    BY <2>4, <2>5 DEF GetList
  <2>7. cfg_database[first] \in Sections
    BY <2>5 DEF Numbered
  <2> QED BY <2>6, <2>7 DEF Sections
<1> QED BY <1>1, <1>2

LEMMA NumberedInit == WordlistInit => Numbered
BY FilesAssumption DEF WordlistInit, CfgInit, Numbered

LEMMA SectionWith ==
    ASSUME NEW s \in Sections, NEW lines \in Seq(RuleLines), NEW names \in Seq(DOMAIN Lower)
    PROVE  [s EXCEPT !.list = lines] \in Sections /\ [s EXCEPT !.params = names] \in Sections
BY DEF Sections

\* cfg_process_line() on a line: whatever it is taken for, sections stay sections.
LEMMA LineNumbered ==
    ASSUME Numbered, CfgLine
    PROVE  cfg_database' \in Seq(Sections) /\ number' \in 1..Len(cfg_file)
<1> DEFINE line == cfg_file[number']
<1>1. number' = number + 1 /\ number' \in 1..Len(cfg_file) /\ number' \in Nat \ {0}
  BY DEF CfgLine, Numbered
<1>2. line \in FileLine
  BY <1>1 DEF Numbered
<1>3. cfg_database \in Seq(Sections)
  BY DEF Numbered
<1>4. \/ UNCHANGED cfg_database
      \/ /\ Kind(line) = "header"
         /\ cfg_database' = <<NewSection(Lower[line.name])>> \o cfg_database
      \/ Kind(line) = "line" /\ cfg_database' = AddLine(line)
      \/ Kind(line) = "param" /\ cfg_database' = AddParam(line)
  BY DEF CfgLine
<1> HIDE DEF line
<1>5. CASE UNCHANGED cfg_database
  BY <1>1, <1>3, <1>5
<1>6. CASE Kind(line) = "header" /\ cfg_database' = <<NewSection(Lower[line.name])>> \o cfg_database
  <2>1. line.name \in DOMAIN Lower
    BY <1>2, <1>6 DEF Kind, FileLine
  <2>2. NewSection(Lower[line.name]) \in Sections
    BY <2>1, LowerAssumption DEF NewSection, Sections
  <2> QED BY <1>1, <1>3, <1>6, <2>2
<1>7. CASE Kind(line) = "line" /\ cfg_database' = AddLine(line)
  <2>1. cfg_database # <<>>
    BY <1>7 DEF Kind
  <2>2. cfg_database[1] \in Sections /\ 1 \in 1..Len(cfg_database)
    BY <1>3, <2>1
  <2>3. [number |-> number', data |-> line.rule] \in RuleLines
    BY <1>1, <1>2 DEF FileLine, RuleLines
  <2>4. [cfg_database[1] EXCEPT !.list = Append(@, [number |-> number', data |-> line.rule])]
          \in Sections
    <3>1. cfg_database[1].list \in Seq(RuleLines) /\ cfg_database[1].params \in Seq(DOMAIN Lower)
      BY <2>2 DEF Sections
    <3>2. Append(cfg_database[1].list, [number |-> number', data |-> line.rule]) \in Seq(RuleLines)
      BY <2>3, <3>1
    <3> QED BY <2>2, <3>1, <3>2, SectionWith
  <2> QED BY <1>1, <1>3, <1>7, <2>2, <2>4 DEF AddLine, InLatest
<1>8. CASE Kind(line) = "param" /\ cfg_database' = AddParam(line)
  <2>1. cfg_database # <<>> /\ line.name # None
    BY <1>8 DEF Kind
  <2>2. cfg_database[1] \in Sections /\ 1 \in 1..Len(cfg_database)
    BY <1>3, <2>1
  <2>3. Lower[line.name] \in DOMAIN Lower
    BY <1>2, <2>1, LowerAssumption DEF FileLine
  <2>4. [cfg_database[1] EXCEPT !.params = <<Lower[line.name]>> \o @] \in Sections
    <3>1. cfg_database[1].list \in Seq(RuleLines) /\ cfg_database[1].params \in Seq(DOMAIN Lower)
      BY <2>2 DEF Sections
    <3>2. <<Lower[line.name]>> \o cfg_database[1].params \in Seq(DOMAIN Lower)
      BY <2>3, <3>1
    <3> QED BY <2>2, <3>1, <3>2, SectionWith
  <2> QED BY <1>1, <1>3, <1>8, <2>2, <2>4 DEF AddParam, InLatest
<1> QED BY <1>4, <1>5, <1>6, <1>7, <1>8

\* A rule that is made is made from the first line, which stays or is done.
LEMMA RuleMade ==
    ASSUME RppNext, input \in Seq(RuleLines)
    PROVE  input # <<>> /\ input' \in Seq(RuleLines)
<1>1. input # <<>> /\ (input' = Tail(input) \/ input' = input)
  BY DEF RppNext
<1> QED BY <1>1

LEMMA NumberedNext == Numbered /\ [WordlistNext]_wordlistVars => Numbered'
<1> SUFFICES ASSUME Numbered, [WordlistNext]_wordlistVars PROVE Numbered'
  OBVIOUS
<1>1. CASE ReadLine
  <2>1. input' = input /\ cfg_file' = cfg_file
    BY <1>1 DEF ReadLine, rppVars, CfgNext, CfgLine, CfgDone
  <2>2. CASE CfgLine
    BY <2>1, <2>2, LineNumbered DEF Numbered
  <2>3. CASE CfgDone
    BY <2>1, <2>3 DEF CfgDone, Numbered
  <2> QED BY <1>1, <2>2, <2>3 DEF ReadLine, CfgNext
<1>2. CASE FindRules
  <2>1. UNCHANGED <<cfg_file, number, cfg_database>>
    BY <1>2 DEF FindRules, cfgVars
  <2>2. input' = GetList(Section) \/ input' = input
    BY <1>2 DEF FindRules, RppInit, rppVars
  <2> QED BY <2>1, <2>2, ListNumbered DEF Numbered
<1>3. CASE CheckEnds
  <2>1. UNCHANGED <<cfg_file, number, cfg_database>>
    BY <1>3 DEF CheckEnds, cfgVars
  <2>2. input' = GetList(Section) \/ input' = input
    BY <1>3 DEF CheckEnds, RppInit, rppVars
  <2> QED BY <2>1, <2>2, ListNumbered DEF Numbered
<1>4. CASE CheckRule \/ NextRule
  <2>1. UNCHANGED <<cfg_file, number, cfg_database>>
    BY <1>4 DEF CheckRule, NextRule, cfgVars
  <2>2. RppNext
    BY <1>4 DEF CheckRule, NextRule, MakeRule
  <2> QED BY <2>1, <2>2, RuleMade DEF Numbered
<1>5. CASE ReadError \/ Checked \/ Applied \/ WordsEnd \/ Apply \/ UNCHANGED wordlistVars
  <2>1. UNCHANGED <<cfg_file, number, cfg_database, input>>
    BY <1>5 DEF ReadError, Checked, Applied, WordsEnd, Apply, wordlistVars, cfgVars, rppVars
  <2> QED BY <2>1 DEF Numbered
<1> QED BY <1>1, <1>2, <1>3, <1>4, <1>5 DEF WordlistNext

LineInv == LineKept /\ IsSeq(made)

LEMMA EmptyIsSeq == IsSeq(<<>>)
<1>1. <<>> \in Seq({})
  OBVIOUS
<1> QED BY <1>1 DEF IsSeq

LEMMA LineInit == WordlistInit => LineInv
BY EmptyIsSeq DEF WordlistInit, RulesInit, LineInv, LineKept, WrongLineNamed

\* rules_check() on a rule: when rules_reject() finds it wrong, its line is the one
\* that rules_line has, or the rule is not the first that is wrong.
LEMMA LineCheckRule == ASSUME Numbered, LineInv, CheckRule PROVE LineInv'
<1>1. /\ stage = "check" /\ stage' = "check" /\ applying = "ready" /\ rules_line' = rules_line
      /\ made' = Append(made, [number |-> input[1].number, pick |-> Indices(Current),
                                rule |-> output'])
      /\ RppNext
  BY DEF CheckRule, MakeRule
<1>2. input # <<>> /\ input[1].number \in Nat \ {0}
  <2>1. input # <<>> /\ input \in Seq(RuleLines)
    BY <1>1 DEF RppNext, Numbered
  <2>2. input[1] \in RuleLines
    BY <2>1
  <2> QED BY <2>1, <2>2 DEF RuleLines
<1>3. /\ IsSeq(made') /\ made'[Len(made')].number = input[1].number
  BY <1>1, AppendIsSeq DEF LineInv
<1>4. \/ /\ applying' = "loop" /\ UNCHANGED <<rules_errno, first_wrong>>
      \/ /\ applying' = applying /\ rules_errno' # "none"
         /\ first_wrong' = (IF first_wrong = 0 THEN input[1].number ELSE first_wrong)
  BY DEF CheckRule, MakeRule, StartRule
<1>5. IF rules_errno = "none" THEN rules_line = input[1].number /\ first_wrong = 0
      ELSE rules_line = first_wrong /\ first_wrong # 0
  BY <1>1, <1>2 DEF LineInv, LineKept
<1> QED BY <1>1, <1>2, <1>3, <1>4, <1>5 DEF LineInv, LineKept, WrongLineNamed

LEMMA LineNext == Numbered /\ LineInv /\ [WordlistNext]_wordlistVars => LineInv'
<1> SUFFICES ASSUME Numbered, LineInv, [WordlistNext]_wordlistVars PROVE LineInv'
  OBVIOUS
<1> USE DEF LineInv, LineKept, WrongLineNamed
<1>1. CASE ReadLine \/ ReadError
  BY <1>1 DEF ReadLine, ReadError, rulesVars, loopVars
<1>2. CASE FindRules
  <2>1. /\ stage = "read" /\ UNCHANGED <<rules_errno, applying, made, first_wrong>>
        /\ \/ stage' = "exit"
           \/ /\ stage' = "check" /\ input' = GetList(Section)
              /\ rules_line' = GetList(Section)[1].number
    BY <1>2 DEF FindRules, RppInit, rulesVars
  <2> QED BY <2>1
<1>3. CASE CheckRule
  BY <1>3, LineCheckRule
<1>4. CASE Checked
  BY <1>4 DEF Checked, rppVars
<1>5. CASE CheckEnds
  BY <1>5, EmptyIsSeq DEF CheckEnds, rulesVars
<1>6. CASE NextRule
  <2>1. /\ stage = "words" /\ stage' = "words"
        /\ made' = Append(made, [number |-> input[1].number, pick |-> Indices(Current),
                                  rule |-> output'])
    BY <1>6 DEF NextRule, MakeRule
  <2>2. IsSeq(made')
    BY <2>1, AppendIsSeq
  <2> QED BY <2>1, <2>2
<1>7. CASE Applied \/ WordsEnd
  BY <1>7 DEF Applied, WordsEnd, loopVars, rulesVars
<1>8. CASE Apply
  <2>1. /\ UNCHANGED <<stage, rules_line, made, first_wrong, input>>
        /\ applying = "loop" /\ applying' # "ready"
        /\ rules_errno # "none" => rules_errno' # "none"
    BY <1>8 DEF Apply, loopVars, rppVars, ApplyCommand, ApplyEnds, ReturnNull, Becomes
  <2> QED BY <2>1
<1>9. CASE UNCHANGED wordlistVars
  BY <1>9 DEF wordlistVars, rulesVars, rppVars, loopVars
<1> QED BY <1>1, <1>2, <1>3, <1>4, <1>5, <1>6, <1>7, <1>8, <1>9 DEF WordlistNext

\* The line in the message of a wrong rule is the line of the first wrong rule.
THEOREM MessagesCorrect == WordlistSpec => []WrongLineNamed
<1>1. LineInv => WrongLineNamed
  BY DEF LineInv, LineKept
<1> QED BY <1>1, NumberedInit, NumberedNext, LineInit, LineNext, PTL DEF WordlistSpec

-----------------------------------------------------------------------------
(* The lengths of words.                                                   *)

\* A sequence of at most n elements.
UpTo(s, size) == IsSeq(s) /\ Len(s) \in 0..size

LEMMA IsSeqLen == ASSUME NEW s, IsSeq(s) PROVE Len(s) \in Nat /\ DOMAIN s = 1..Len(s)
<1>1. PICK S : s \in Seq(S)
  BY DEF IsSeq
<1> QED BY <1>1

LEMMA UpToMore ==
    ASSUME NEW s, NEW m \in Int, NEW size \in Int, UpTo(s, m), m <= size
    PROVE  UpTo(s, size)
BY IsSeqLen DEF UpTo

LEMMA EmptyUpTo == ASSUME NEW size \in Nat PROVE UpTo(<<>>, size)
BY EmptyIsSeq DEF UpTo

LEMMA OneUpTo == ASSUME NEW e PROVE UpTo(<<e>>, 1)
<1> DEFINE s == <<e>>
<1>1. s \in Seq({e}) /\ Len(s) = 1
  OBVIOUS
<1> HIDE DEF s
<1>2. UpTo(s, 1)
  BY <1>1 DEF UpTo, IsSeq
<1> QED BY <1>2 DEF s

\* A function of the places of a sequence.
LEMMA PlacesUpTo ==
    ASSUME NEW size \in Nat, NEW f, DOMAIN f = 1..size, f = [k \in 1..size |-> f[k]]
    PROVE  UpTo(f, size)
<1> DEFINE S == {f[k] : k \in 1..size}
<1>1. f \in Seq(S) /\ Len(f) = size
  OBVIOUS
<1> HIDE DEF S
<1> QED BY <1>1 DEF UpTo, IsSeq

LEMMA MapUpTo ==
    ASSUME NEW w, IsSeq(w), NEW f, DOMAIN f = DOMAIN w, f = [k \in DOMAIN w |-> f[k]]
    PROVE  UpTo(f, Len(w))
<1>1. Len(w) \in Nat /\ DOMAIN w = 1..Len(w)
  BY IsSeqLen
<1> QED BY <1>1, PlacesUpTo

LEMMA ConcatUpTo ==
    ASSUME NEW m \in Nat, NEW size \in Nat, NEW v, NEW w, UpTo(v, m), UpTo(w, size)
    PROVE  UpTo(v \o w, m + size)
<1>1. PICK S : v \in Seq(S)
  BY DEF UpTo, IsSeq
<1>2. PICK T : w \in Seq(T)
  BY DEF UpTo, IsSeq
<1> DEFINE U == S \cup T
<1>3. v \in Seq(U) /\ w \in Seq(U)
  BY <1>1, <1>2
<1> HIDE DEF U
<1>4. v \o w \in Seq(U) /\ Len(v \o w) = Len(v) + Len(w)
  BY <1>3, ConcatPlaces
<1>5. Len(v) \in 0..m /\ Len(w) \in 0..size
  BY DEF UpTo
<1>6. Len(v \o w) \in 0..(m + size)
  BY <1>4, <1>5
<1> QED BY <1>4, <1>6 DEF UpTo, IsSeq

LEMMA AppendUpTo ==
    ASSUME NEW size \in Nat, NEW w, UpTo(w, size), NEW e PROVE UpTo(Append(w, e), size + 1)
<1>1. PICK S : w \in Seq(S)
  BY DEF UpTo, IsSeq
<1>2. w \in Seq(S \cup {e}) /\ e \in S \cup {e}
  BY <1>1
<1>3. Append(w, e) \in Seq(S \cup {e}) /\ Len(Append(w, e)) = Len(w) + 1
  BY <1>2
<1>4. Len(w) + 1 \in 0..(size + 1)
  BY DEF UpTo
<1> QED BY <1>3, <1>4 DEF UpTo, IsSeq

\* A part of a sequence is no longer than the numbers say, nor than the whole.
LEMMA PartUpTo ==
    ASSUME NEW w, IsSeq(w), NEW at \in Nat \ {0}, NEW j \in Int, j <= Len(w)
    PROVE  IsSeq(SubSeq(w, at, j)) /\ Len(SubSeq(w, at, j)) = (IF at <= j THEN j - at + 1 ELSE 0)
<1>1. PICK S : w \in Seq(S)
  BY DEF IsSeq
<1>2. SubSeq(w, at, j) \in Seq(S) /\ Len(SubSeq(w, at, j)) = (IF at <= j THEN j - at + 1 ELSE 0)
  BY <1>1
<1> QED BY <1>2 DEF IsSeq

LEMMA CutUpTo ==
    ASSUME NEW w, IsSeq(w), NEW size \in Nat
    PROVE  UpTo(Cut(w, size), size) /\ UpTo(Cut(w, size), Len(w))
<1>1. Len(w) \in Nat
  BY IsSeqLen
<1>2. CASE Len(w) <= size
  BY <1>1, <1>2 DEF Cut, UpTo
<1>3. CASE ~(Len(w) <= size)
  <2>1. 1 \in Nat \ {0} /\ size \in Int /\ size <= Len(w)
    BY <1>1, <1>3
  <2>2. IsSeq(SubSeq(w, 1, size)) /\ Len(SubSeq(w, 1, size)) = (IF 1 <= size THEN size - 1 + 1 ELSE 0)
    BY <2>1, PartUpTo
  <2> DEFINE c == SubSeq(w, 1, size)
  <2>3. Cut(w, size) = c
    BY <1>3 DEF Cut
  <2> HIDE DEF c
  <2>4. IsSeq(c) /\ Len(c) \in 0..size /\ Len(c) \in 0..Len(w)
    BY <1>1, <1>3, <2>2 DEF c
  <2> QED BY <2>3, <2>4 DEF UpTo
<1> QED BY <1>2, <1>3

LEMMA FrontUpTo ==
    ASSUME NEW size \in Nat, NEW w, UpTo(w, size), w # <<>>
    PROVE  size > 0 /\ UpTo(Front(w), size - 1) /\ Len(Front(w)) = Len(w) - 1
<1>1. PICK S : w \in Seq(S)
  BY DEF UpTo, IsSeq
<1>2. Len(w) \in 1..size
  BY <1>1 DEF UpTo
<1> DEFINE m == Len(w) - 1
<1>3. m \in 0..(size - 1) /\ m <= Len(w) /\ 1 \in Nat \ {0} /\ m \in Int
  BY <1>2
<1>4. Front(w) = SubSeq(w, 1, m)
  BY DEF Front
<1> HIDE DEF m
<1>5. IsSeq(SubSeq(w, 1, m)) /\ Len(SubSeq(w, 1, m)) = (IF 1 <= m THEN m - 1 + 1 ELSE 0)
  BY <1>3, PartUpTo DEF UpTo
<1>6. IsSeq(Front(w)) /\ Len(Front(w)) = m
  BY <1>3, <1>4, <1>5
<1> QED BY <1>2, <1>3, <1>6 DEF UpTo, m

LEMMA TailUpTo ==
    ASSUME NEW size \in Nat, NEW w, UpTo(w, size), w # <<>>
    PROVE  size > 0 /\ UpTo(Tail(w), size - 1)
<1>1. PICK S : w \in Seq(S)
  BY DEF UpTo, IsSeq
<1>2. Len(w) \in 1..size /\ Tail(w) \in Seq(S) /\ Len(Tail(w)) = Len(w) - 1
  BY <1>1 DEF UpTo
<1> QED BY <1>2 DEF UpTo, IsSeq

LEMMA ReverseUpTo == ASSUME NEW size \in Nat, NEW w, UpTo(w, size) PROVE UpTo(Reverse(w), size)
<1>1. Len(w) \in Nat /\ Len(w) <= size
  BY DEF UpTo
<1>2. UpTo(Reverse(w), Len(w))
  BY <1>1, PlacesUpTo DEF Reverse
<1> QED BY <1>1, <1>2, UpToMore

-----------------------------------------------------------------------------
(* The words that commands make.                                           *)

\* What a buffer has room for, besides the terminator.
Short(s) == UpTo(s, 2 * RULE_WORD_SIZE - 1)

WordInv ==
    /\ in \in {0, 1} /\ DOMAIN buffer = {0, 1} /\ \A b \in {0, 1} : Short(buffer[b])
    /\ applying = "word" => Len(buffer[in]) <= rules_max_length

\* The outcome of a command can be written to the buffers.
Fitting(o) == o.place \in {0, 1} /\ Short(o.word) /\ Short(o.left)

\* The word that a command sees leaves room for as much again, and for four characters.
LEMMA SeenFits ==
    ASSUME WordInv
    PROVE  /\ UpTo(Seen, RULE_WORD_SIZE - 1) /\ IsSeq(Seen) /\ Short(Seen) /\ Short(Other)
           /\ in \in {0, 1} /\ 1 - in \in {0, 1} /\ RULE_WORD_SIZE - 1 \in Nat
<1>1. in \in {0, 1} /\ 1 - in \in {0, 1} /\ Short(buffer[in]) /\ Short(buffer[1 - in])
  BY DEF WordInv
<1>2. RULE_WORD_SIZE - 1 \in Nat /\ RULE_WORD_SIZE - 1 <= 2 * RULE_WORD_SIZE - 1
  BY LengthAssumption
<1>3. UpTo(Seen, RULE_WORD_SIZE - 1)
  BY <1>1, <1>2, CutUpTo DEF Seen, Short, UpTo
<1>4. Short(Seen)
  <2>1. RULE_WORD_SIZE - 1 \in Int /\ 2 * RULE_WORD_SIZE - 1 \in Int
    BY LengthAssumption
  <2> QED BY <1>2, <1>3, <2>1, UpToMore DEF Short
<1> QED BY <1>1, <1>2, <1>3, <1>4 DEF Other, UpTo

LEMMA FourMore ==
    ASSUME NEW w, NEW size \in 0..4, UpTo(w, RULE_WORD_SIZE - 1 + size)
    PROVE  Short(w)
<1>1. /\ RULE_WORD_SIZE - 1 + size \in Int /\ 2 * RULE_WORD_SIZE - 1 \in Int
      /\ RULE_WORD_SIZE - 1 + size <= 2 * RULE_WORD_SIZE - 1
  BY LengthAssumption
<1> QED BY <1>1, UpToMore DEF Short

LEMMA OutcomeFits ==
    ASSUME NEW size, NEW pass, NEW place \in {0, 1}, NEW w, Short(w), NEW left, Short(left)
    PROVE  Fitting(Outcome(size, pass, place, w, left))
BY DEF Fitting, Outcome

\* The outcomes that leave the word, and those with a word that fits.
LEMMA OutcomesFit ==
    ASSUME WordInv
    PROVE  /\ \A size, pass : Fitting(Test(size, pass))
           /\ \A pass : Fitting(TestLength(pass))
           /\ \A e : Fitting(Fails(e))
           /\ \A size, w : Short(w) => Fitting(InPlace(size, w)) /\ Fitting(Copy(size, w))
           /\ \A w, l : Short(w) /\ Short(l) => Fitting(CopyLeaving(w, l))
<1>1. Short(Seen) /\ Short(Other) /\ in \in {0, 1} /\ 1 - in \in {0, 1}
  BY SeenFits
<1>2. \A size, pass : Fitting(Test(size, pass))
  BY <1>1, OutcomeFits DEF Test
<1>3. \A pass : Fitting(TestLength(pass))
  BY <1>1, OutcomeFits DEF TestLength
<1>4. \A e : Fitting(Fails(e))
  BY <1>1 DEF Fails, Test, Outcome, Fitting
<1>5. \A size, w : Short(w) => Fitting(InPlace(size, w)) /\ Fitting(Copy(size, w))
  BY <1>1, OutcomeFits DEF InPlace, Copy
<1>6. \A w, l : Short(w) /\ Short(l) => Fitting(CopyLeaving(w, l))
  BY <1>1, OutcomeFits DEF CopyLeaving
<1> QED BY <1>2, <1>3, <1>4, <1>5, <1>6

LEMMA ErrorFits == ASSUME WordInv, NEW at, NEW e PROVE Fitting(ErrorAt(at, e))
BY OutcomesFit DEF ErrorAt

\* Positions are numbers.
LEMMA PositionNat == ASSUME NEW c \in DOMAIN rules_length PROVE rules_length[c] \in Nat
BY LengthAssumption DEF rules_length

LEMMA TestsFit == ASSUME WordInv, NEW c \in TestCommands PROVE Fitting(Tests(c, Seen))
<1>1. /\ \A size, pass : Fitting(Test(size, pass))
      /\ \A pass : Fitting(TestLength(pass))
      /\ \A e : Fitting(Fails(e))
      /\ \A at, e : Fitting(ErrorAt(at, e))
  BY OutcomesFit, ErrorFits
<1> DEFINE w == Seen
<1> HIDE DEF w
<1>2. Fitting(Tests(c, w))
  BY <1>1 DEF Tests, TestCommands, WithPosition, WithValue, WithClass, SkipClass
<1> QED BY <1>2 DEF w

\* The plural, the past tense and the -ing form are up to four characters longer.
LEMMA SuffixUpTo ==
    ASSUME NEW size \in Nat, NEW v, UpTo(v, size), NEW a, NEW b, NEW c
    PROVE  /\ UpTo(v \o <<a>>, size + 1) /\ UpTo(v \o <<a, b>>, size + 2) /\ UpTo(v \o <<a, b, c>>, size + 3)
<1>1. UpTo(<<a>>, 1)
  BY OneUpTo
<1>2. UpTo(<<a, b>>, 2)
  <2> DEFINE s == <<a, b>>
  <2>1. s \in Seq({a, b}) /\ Len(s) = 2
    OBVIOUS
  <2> HIDE DEF s
  <2>2. UpTo(s, 2)
    BY <2>1 DEF UpTo, IsSeq
  <2> QED BY <2>2 DEF s
<1>3. UpTo(<<a, b, c>>, 3)
  <2> DEFINE s == <<a, b, c>>
  <2>1. s \in Seq({a, b, c}) /\ Len(s) = 3
    OBVIOUS
  <2> HIDE DEF s
  <2>2. UpTo(s, 3)
    BY <2>1 DEF UpTo, IsSeq
  <2> QED BY <2>2 DEF s
<1>4. UpTo(v \o <<a>>, size + 1)
  BY <1>1, ConcatUpTo
<1>5. UpTo(v \o <<a, b>>, size + 2)
  BY <1>2, ConcatUpTo
<1>6. UpTo(v \o <<a, b, c>>, size + 3)
  BY <1>3, ConcatUpTo
<1> QED BY <1>4, <1>5, <1>6

LEMMA PluralUpTo == ASSUME NEW m \in Nat, NEW w, UpTo(w, m) PROVE UpTo(Plural(w), m + 2)
<1>0. Len(w) \in Nat /\ m \in Int /\ m + 1 \in Int /\ m + 2 \in Int
  BY DEF UpTo
<1>1. UpTo(w, m + 2)
  BY <1>0, UpToMore
<1>2. UpTo(w \o <<"e", "s">>, m + 2)
  BY SuffixUpTo
<1>3. UpTo(Append(w, "s"), m + 2)
  <2>1. UpTo(Append(w, "s"), m + 1)
    BY AppendUpTo
  <2> QED BY <1>0, <2>1, UpToMore
<1>4. ASSUME Len(w) >= 2
      PROVE  m - 1 \in Nat /\ UpTo(Front(w), m - 1) /\ UpTo(Front(Front(w)), m - 1)
  <2>1. w # <<>>
    BY <1>4
  <2>2. m > 0 /\ UpTo(Front(w), m - 1) /\ Len(Front(w)) = Len(w) - 1
    BY <2>1, FrontUpTo
  <2>3. m - 1 \in Nat /\ Front(w) # <<>>
    BY <1>0, <1>4, <2>2
  <2>4. UpTo(Front(Front(w)), m - 1 - 1)
    BY <2>2, <2>3, FrontUpTo
  <2>5. m - 1 \in Int /\ m - 1 - 1 \in Int /\ m - 1 - 1 <= m - 1
    OBVIOUS
  <2>6. UpTo(Front(Front(w)), m - 1)
    BY <2>4, <2>5, UpToMore
  <2> QED BY <2>2, <2>3, <2>6
<1>5. ASSUME Len(w) >= 2
      PROVE  /\ UpTo(Front(w) \o <<"v", "e", "s">>, m + 2)
             /\ UpTo(Front(Front(w)) \o <<"v", "e", "s">>, m + 2)
             /\ UpTo(Front(w) \o <<"i", "e", "s">>, m + 2)
  <2>1. PICK size \in Nat : size = m - 1 /\ size + 3 = m + 2
    BY <1>4, <1>5
  <2>2. UpTo(Front(w), size) /\ UpTo(Front(Front(w)), size)
    BY <1>4, <1>5, <2>1
  <2>3. /\ UpTo(Front(w) \o <<"v", "e", "s">>, size + 3)
        /\ UpTo(Front(Front(w)) \o <<"v", "e", "s">>, size + 3)
        /\ UpTo(Front(w) \o <<"i", "e", "s">>, size + 3)
    BY <2>2, SuffixUpTo
  <2> QED BY <2>1, <2>3
<1>6. CASE Len(w) < 2
  BY <1>1, <1>6 DEF Plural
<1>7. CASE Len(w) >= 2
  <2> DEFINE a == w \o <<"e", "s">>
             b == Front(w) \o <<"v", "e", "s">>
             c == Front(Front(w)) \o <<"v", "e", "s">>
             d == Front(w) \o <<"i", "e", "s">>
             e == Append(w, "s")
  <2>1. UpTo(a, m + 2) /\ UpTo(b, m + 2) /\ UpTo(c, m + 2) /\ UpTo(d, m + 2) /\ UpTo(e, m + 2)
    BY <1>2, <1>3, <1>5, <1>7
  <2>2. Plural(w) =
          CASE w[Len(w)] \in {"h", "s", "x"} -> a
            [] w[Len(w)] = "f" /\ w[Len(w) - 1] # "f" -> b
            [] Len(w) > 2 /\ w[Len(w)] = "e" /\ w[Len(w) - 1] = "f" -> c
            [] Len(w) > 2 /\ w[Len(w)] = "y" /\ w[Len(w) - 1] \notin Vowels -> d
            [] OTHER -> e
    BY <1>0, <1>7 DEF Plural
  <2> HIDE DEF a, b, c, d, e
  <2> QED BY <1>1, <2>1, <2>2
<1> QED BY <1>0, <1>6, <1>7

LEMMA DoubledUpTo == ASSUME NEW m \in Nat, NEW w, UpTo(w, m) PROVE UpTo(Doubled(w), m + 1)
<1>1. UpTo(Append(w, w[Len(w)]), m + 1)
  BY AppendUpTo
<1>2. m \in Int /\ m + 1 \in Int /\ m <= m + 1
  OBVIOUS
<1>3. UpTo(w, m + 1)
  BY <1>2, UpToMore
<1> QED BY <1>1, <1>3 DEF Doubled

LEMMA PastUpTo == ASSUME NEW m \in Nat, NEW w, UpTo(w, m) PROVE UpTo(Past(w), m + 3)
<1> DEFINE stem == IF w[Len(w)] = "y" THEN Append(Front(w), "i") ELSE Doubled(w)
           end  == IF w[Len(w)] = "e" THEN <<"d">> ELSE <<"e", "d">>
<1>0. Len(w) \in Nat /\ m \in Int /\ m + 1 \in Int /\ m + 3 \in Int /\ m + 1 + 1 \in Int
      /\ m + 1 \in Nat
  BY DEF UpTo
<1>1. UpTo(w, m + 3)
  BY <1>0, UpToMore
<1>2. ASSUME Len(w) >= 3 PROVE UpTo(stem, m + 1)
  <2>1. w # <<>>
    BY <1>2
  <2>2. m > 0 /\ UpTo(Front(w), m - 1)
    BY <2>1, FrontUpTo
  <2>3. m - 1 \in Nat /\ m - 1 + 1 = m
    BY <2>2
  <2>4. UpTo(Append(Front(w), "i"), m - 1 + 1)
    BY <2>2, <2>3, AppendUpTo
  <2>5. UpTo(Append(Front(w), "i"), m + 1)
    BY <1>0, <2>3, <2>4, UpToMore
  <2>6. UpTo(Doubled(w), m + 1)
    BY DoubledUpTo
  <2> QED BY <2>5, <2>6
<1> HIDE DEF stem
<1>3. ASSUME UpTo(stem, m + 1) PROVE UpTo(stem \o end, m + 3)
  <2>1. UpTo(stem \o <<"d">>, m + 1 + 1) /\ UpTo(stem \o <<"e", "d">>, m + 1 + 2)
    BY <1>0, <1>3, SuffixUpTo
  <2>2. m + 1 + 2 = m + 3 /\ m + 1 + 1 <= m + 3
    OBVIOUS
  <2>3. UpTo(stem \o <<"d">>, m + 3)
    BY <1>0, <2>1, <2>2, UpToMore
  <2> QED BY <2>1, <2>2, <2>3
<1>4. Past(w) = IF Len(w) < 3 \/ (w[Len(w)] = "d" /\ w[Len(w) - 1] = "e") THEN w ELSE stem \o end
  BY DEF Past, stem
<1> HIDE DEF end
<1>5. CASE Len(w) >= 3
  BY <1>1, <1>2, <1>3, <1>4, <1>5
<1>6. CASE Len(w) < 3
  BY <1>1, <1>4, <1>6
<1> QED BY <1>0, <1>5, <1>6

LEMMA IngUpTo == ASSUME NEW m \in Nat, NEW w, UpTo(w, m) PROVE UpTo(Ing(w), m + 4)
<1> DEFINE stem == IF w[Len(w)] \in Vowels THEN Front(w) ELSE Doubled(w)
<1>0. Len(w) \in Nat /\ m \in Int /\ m + 1 \in Nat /\ m + 4 \in Int /\ m + 1 + 3 = m + 4
  BY DEF UpTo
<1>1. UpTo(w, m + 4)
  BY <1>0, UpToMore
<1>2. ASSUME Len(w) >= 3 PROVE UpTo(stem, m + 1)
  <2>1. w # <<>>
    BY <1>2
  <2>2. m > 0 /\ UpTo(Front(w), m - 1)
    BY <2>1, FrontUpTo
  <2>3. m - 1 \in Int /\ m + 1 \in Int /\ m - 1 <= m + 1
    OBVIOUS
  <2>4. UpTo(Front(w), m + 1)
    BY <2>2, <2>3, UpToMore
  <2>5. UpTo(Doubled(w), m + 1)
    BY DoubledUpTo
  <2> QED BY <2>4, <2>5
<1> HIDE DEF stem
<1>3. ASSUME UpTo(stem, m + 1) PROVE UpTo(stem \o <<"i", "n", "g">>, m + 4)
  <2>1. UpTo(stem \o <<"i", "n", "g">>, m + 1 + 3)
    BY <1>0, <1>3, SuffixUpTo
  <2> QED BY <1>0, <2>1
<1>4. Ing(w) = IF Len(w) < 3 \/ SubSeq(w, Len(w) - 2, Len(w)) = <<"i", "n", "g">> THEN w
               ELSE stem \o <<"i", "n", "g">>
  BY DEF Ing, stem
<1>5. CASE Len(w) >= 3
  BY <1>1, <1>2, <1>3, <1>4, <1>5
<1>6. CASE Len(w) < 3
  BY <1>1, <1>4, <1>6
<1> QED BY <1>0, <1>5, <1>6

\* A word that is no longer than the one seen.
LEMMA NoLongerShort ==
    ASSUME NEW w, UpTo(w, RULE_WORD_SIZE - 1), NEW v, UpTo(v, Len(w)) PROVE Short(v)
<1>1. Len(v) \in 0..Len(w) /\ Len(w) \in 0..(RULE_WORD_SIZE - 1) /\ IsSeq(v)
  BY DEF UpTo
<1>2. Len(v) \in 0..(2 * RULE_WORD_SIZE - 1)
  BY <1>1, LengthAssumption
<1> QED BY <1>1, <1>2 DEF Short, UpTo

LEMMA TwiceShort ==
    ASSUME NEW v, UpTo(v, RULE_WORD_SIZE - 1), NEW w, UpTo(w, RULE_WORD_SIZE - 1)
    PROVE  Short(v \o w)
<1> DEFINE m == RULE_WORD_SIZE - 1
<1>1. m \in Nat /\ m + m \in Int /\ 2 * RULE_WORD_SIZE - 1 \in Int
      /\ m + m <= 2 * RULE_WORD_SIZE - 1
  BY LengthAssumption
<1>2. UpTo(v, m) /\ UpTo(w, m)
  OBVIOUS
<1> HIDE DEF m
<1>3. UpTo(v \o w, m + m)
  BY <1>1, <1>2, ConcatUpTo
<1> QED BY <1>1, <1>3, UpToMore DEF Short

LEMMA ChangesFit == ASSUME WordInv, NEW c \in ChangeCommands PROVE Fitting(Changes(c, Seen))
<1> DEFINE w == Seen
           m == RULE_WORD_SIZE - 1
<1>1. UpTo(w, m) /\ IsSeq(w) /\ Short(w) /\ m \in Nat
  BY SeenFits
<1>2. m \in Int /\ m >= 3 /\ Len(w) \in 0..m
  BY <1>1, LengthAssumption DEF UpTo
<1> HIDE DEF w
<1>3. \A f : Short(Map(f, w))
  <2> TAKE f
  <2>1. UpTo(Map(f, w), Len(w))
    BY <1>1, MapUpTo DEF Map
  <2> QED BY <1>1, <2>1, NoLongerShort
<1>4. \A f, g, h : Short(Capital(f, g, h, w))
  <2> TAKE f, g, h
  <2>1. UpTo(Capital(f, g, h, w), Len(w))
    BY <1>1, MapUpTo DEF Capital
  <2> QED BY <1>1, <2>1, NoLongerShort
<1>5. UpTo(Reverse(w), m) /\ Short(Reverse(w))
  <2>1. UpTo(Reverse(w), m)
    BY <1>1, ReverseUpTo
  <2>2. UpTo(Reverse(w), m + 0) /\ 0 \in 0..4
    BY <1>2, <2>1
  <2> QED BY <2>1, <2>2, FourMore
<1>6. Short(w \o w) /\ Short(w \o Reverse(w))
  BY <1>1, <1>5, TwiceShort
<1>7. Short(Plural(w)) /\ Short(Past(w)) /\ Short(Ing(w))
  <2>1. UpTo(Plural(w), m + 2) /\ UpTo(Past(w), m + 3) /\ UpTo(Ing(w), m + 4)
    BY <1>1, PluralUpTo, PastUpTo, IngUpTo
  <2>2. 2 \in 0..4 /\ 3 \in 0..4 /\ 4 \in 0..4
    OBVIOUS
  <2> QED BY <2>1, <2>2, FourMore
<1>8. ASSUME w # <<>>
      PROVE  /\ Short(Tail(w)) /\ Short(Front(w)) /\ \A e : Short(Append(Tail(w), e))
             /\ (\A e : Short(<<e>> \o Front(w))) /\ (\A e : Short(<<e>>))
  <2>1. m > 0 /\ UpTo(Tail(w), m - 1) /\ UpTo(Front(w), m - 1)
    BY <1>1, <1>8, TailUpTo, FrontUpTo
  <2>2. m - 1 \in Nat /\ m - 1 <= m /\ m - 1 + 1 = m + 0 /\ 1 + (m - 1) = m + 0 /\ 0 \in 0..4
        /\ m + 0 = m /\ 1 <= m
    BY <1>2
  <2>3. UpTo(Tail(w), m) /\ UpTo(Front(w), m)
    BY <1>2, <2>1, <2>2, UpToMore
  <2>4. Short(Tail(w)) /\ Short(Front(w))
    BY <2>2, <2>3, FourMore
  <2>5. \A e : Short(Append(Tail(w), e))
    <3> TAKE e
    <3>1. UpTo(Append(Tail(w), e), m - 1 + 1)
      BY <2>1, <2>2, AppendUpTo
    <3> QED BY <2>2, <3>1, FourMore
  <2>6. \A e : Short(<<e>> \o Front(w))
    <3> TAKE e
    <3>1. UpTo(<<e>>, 1) /\ 1 \in Nat
      BY OneUpTo
    <3>2. UpTo(<<e>> \o Front(w), 1 + (m - 1))
      BY <2>1, <2>2, <3>1, ConcatUpTo
    <3> QED BY <2>2, <3>2, FourMore
  <2>7. \A e : Short(<<e>>)
    <3> TAKE e
    <3>1. UpTo(<<e>>, 1) /\ 1 \in Int
      BY OneUpTo
    <3>2. UpTo(<<e>>, m)
      BY <1>2, <2>2, <3>1, UpToMore
    <3> QED BY <2>2, <3>2, FourMore
  <2> QED BY <2>4, <2>5, <2>6, <2>7
<1>9. /\ \A size, v : Short(v) => Fitting(InPlace(size, v)) /\ Fitting(Copy(size, v))
      /\ \A v, l : Short(v) /\ Short(l) => Fitting(CopyLeaving(v, l))
  BY OutcomesFit
<1> HIDE DEF m
<1>10. Fitting(Changes(c, w))
  BY <1>1, <1>3, <1>4, <1>5, <1>6, <1>7, <1>8, <1>9 DEF Changes, ChangeCommands
<1> QED BY <1>10 DEF w

\* Purging makes no word longer.
LEMMA PurgedUpTo == ASSUME NEW w, IsSeq(w), NEW class PROVE UpTo(Purged(w, class), Len(w))
<1> DEFINE kept == {k \in DOMAIN w : w[k] \notin class}
           size == Cardinality(kept)
<1>1. Len(w) \in Nat /\ DOMAIN w = 1..Len(w)
  BY IsSeqLen
<1>2. IsFiniteSet(1..Len(w)) /\ Cardinality(1..Len(w)) = Len(w)
  <2>1. \A k \in Nat : IsFiniteSet(1..k) /\ Cardinality(1..k) = k
    BY FS_Interval
  <2> QED BY <1>1, <2>1
<1>3. size \in Nat /\ size <= Len(w)
  <2>1. kept \subseteq 1..Len(w)
    BY <1>1
  <2>2. IsFiniteSet(kept) /\ Cardinality(kept) <= Cardinality(1..Len(w))
    BY <1>2, <2>1, FS_Subset
  <2> QED BY <1>2, <2>2, FS_CardinalityType
<1>4. UpTo(Purged(w, class), size)
  <2>1. /\ DOMAIN Purged(w, class) = 1..size
        /\ Purged(w, class) = [k \in 1..size |-> Purged(w, class)[k]]
    BY DEF Purged
  <2> HIDE DEF size
  <2> QED BY <1>3, <2>1, PlacesUpTo
<1> HIDE DEF size
<1>5. size \in Int /\ Len(w) \in Int
  BY <1>1, <1>3
<1> QED BY <1>3, <1>4, <1>5, UpToMore

LEMMA EditsFit == ASSUME WordInv, NEW c \in EditCommands PROVE Fitting(Edits(c, Seen))
<1> DEFINE w == Seen
           m == RULE_WORD_SIZE - 1
<1>1. UpTo(w, m) /\ IsSeq(w) /\ Short(w) /\ m \in Nat
  BY SeenFits
<1>2. m \in Int /\ Len(w) \in 0..m /\ DOMAIN w = 1..Len(w) /\ 1 + m = m + 1 /\ 1 \in 0..4
  BY <1>1, IsSeqLen DEF UpTo
<1> HIDE DEF w
<1>3. \A v : Short(Append(w, v)) /\ Short(<<v>> \o w)
  <2> TAKE v
  <2>1. UpTo(<<v>>, 1) /\ 1 \in Nat
    BY OneUpTo
  <2>2. UpTo(Append(w, v), m + 1) /\ UpTo(<<v>> \o w, 1 + m)
    BY <1>1, <2>1, AppendUpTo, ConcatUpTo
  <2> QED BY <1>2, <2>2, FourMore
<1>4. Short(<<>>)
  BY EmptyUpTo, LengthAssumption DEF Short
<1>5. \A at, v : Short([w EXCEPT ![at] = v])
  <2> TAKE at, v
  <2> DEFINE f == [w EXCEPT ![at] = v]
  <2>1. DOMAIN f = DOMAIN w /\ f = [k \in DOMAIN w |-> f[k]]
    OBVIOUS
  <2> HIDE DEF f
  <2>2. UpTo(f, Len(w))
    BY <1>1, <2>1, MapUpTo
  <2>3. Short(f)
    BY <1>1, <2>2, NoLongerShort
  <2> QED BY <2>3 DEF f
<1>6. \A cl, e : Short([k \in DOMAIN w |-> IF w[k] \in cl THEN e ELSE w[k]])
  <2> TAKE cl, e
  <2> DEFINE f == [k \in DOMAIN w |-> IF w[k] \in cl THEN e ELSE w[k]]
  <2>1. DOMAIN f = DOMAIN w /\ f = [k \in DOMAIN w |-> f[k]]
    OBVIOUS
  <2> HIDE DEF f
  <2>2. UpTo(f, Len(w))
    BY <1>1, <2>1, MapUpTo
  <2>3. Short(f)
    BY <1>1, <2>2, NoLongerShort
  <2> QED BY <2>3 DEF f
<1>7. \A cl : Short(Purged(w, cl))
  BY <1>1, PurgedUpTo, NoLongerShort
<1>8. \A p \in Nat : Short(Cut(w, p))
  BY <1>1, CutUpTo, NoLongerShort
<1>9. \A p \in Nat : p < Len(w) => \A size \in Nat : Short(Cut(SubSeq(w, p + 1, Len(w)), size))
  <2> SUFFICES ASSUME NEW p \in Nat, p < Len(w), NEW size \in Nat
               PROVE  Short(Cut(SubSeq(w, p + 1, Len(w)), size))
    OBVIOUS
  <2> DEFINE v == SubSeq(w, p + 1, Len(w))
  <2>1. p + 1 \in Nat \ {0} /\ Len(w) \in Int /\ Len(w) <= Len(w)
    BY <1>2
  <2>2. IsSeq(v) /\ Len(v) = (IF p + 1 <= Len(w) THEN Len(w) - (p + 1) + 1 ELSE 0)
    BY <1>1, <2>1, PartUpTo
  <2>3. IsSeq(v) /\ Len(v) \in 0..Len(w)
    BY <1>2, <2>2
  <2> HIDE DEF v
  <2>4. UpTo(Cut(v, size), Len(v))
    BY <2>3, CutUpTo
  <2>5. Len(v) \in Int /\ Len(w) \in Int /\ Len(v) <= Len(w)
    BY <1>2, <2>3
  <2>6. UpTo(Cut(v, size), Len(w))
    BY <2>4, <2>5, UpToMore
  <2>7. Short(Cut(v, size))
    BY <1>1, <2>6, NoLongerShort
  <2> QED BY <2>7 DEF v
<1>10. \A p \in Nat : p < Len(w) =>
         Short(RemoveAt(w, p + 1)) /\ \A v : Short(InsertAt(w, p + 1, v))
  <2> SUFFICES ASSUME NEW p \in Nat, p < Len(w), NEW v
               PROVE  Short(RemoveAt(w, p + 1)) /\ Short(InsertAt(w, p + 1, v))
    OBVIOUS
  <2>1. PICK S : w \in Seq(S)
    BY <1>1 DEF IsSeq
  <2> DEFINE T == S \cup {v}
             r == RemoveAt(w, p + 1)
             s == InsertAt(w, p + 1, v)
  <2>2. w \in Seq(T) /\ v \in T /\ p + 1 \in 1..Len(w)
    BY <1>2, <2>1
  <2> HIDE DEF T
  <2>3. r \in Seq(T) /\ Len(r) = Len(w) - 1
    BY <2>2, RemovePlaces
  <2>4. s \in Seq(T) /\ Len(s) = Len(w) + 1
    BY <2>2, InsertPlaces
  <2> HIDE DEF r, s
  <2>5. UpTo(r, Len(w)) /\ UpTo(s, m + 1)
    BY <1>2, <2>2, <2>3, <2>4 DEF UpTo, IsSeq
  <2>6. Short(r) /\ Short(s)
    BY <1>1, <1>2, <2>5, NoLongerShort, FourMore
  <2> QED BY <2>6 DEF r, s
<1>11. /\ \A size, v : Short(v) => Fitting(InPlace(size, v)) /\ Fitting(Copy(size, v))
       /\ \A e : Fitting(Fails(e))
       /\ \A at, e : Fitting(ErrorAt(at, e))
       /\ \A x \in DOMAIN rules_length : rules_length[x] \in Nat
  BY OutcomesFit, ErrorFits, PositionNat
<1> HIDE DEF m
<1> USE DEF Edits, EditCommands, WithPosition, WithValue, WithClass
<1>12. CASE c = "$" \/ c = "^"
  BY <1>3, <1>11, <1>12 DEF w
<1>13. CASE c = "x"
  BY <1>4, <1>9, <1>11, <1>13 DEF w
<1>14. CASE c = "i"
  BY <1>2, <1>3, <1>10, <1>11, <1>14 DEF w
<1>15. CASE c = "o"
  BY <1>1, <1>5, <1>11, <1>15 DEF w
<1>16. CASE c = "s"
  BY <1>6, <1>11, <1>16 DEF w
<1>17. CASE c = "@"
  BY <1>7, <1>11, <1>17 DEF w
<1>18. CASE c = "'"
  BY <1>8, <1>11, <1>18 DEF w
<1>19. CASE c = "T"
  BY <1>1, <1>5, <1>11, <1>19 DEF w
<1>20. CASE c = "D"
  BY <1>1, <1>2, <1>10, <1>11, <1>20 DEF w
<1> QED BY <1>12, <1>13, <1>14, <1>15, <1>16, <1>17, <1>18, <1>19, <1>20 DEF EditCommands

LEMMA CommandFits == ASSUME WordInv, NEW c PROVE Fitting(Command(c, Seen))
<1>1. \A e : Fitting(Fails(e))
  BY OutcomesFit
<1> DEFINE w == Seen
<1>2. /\ c \in TestCommands => Fitting(Tests(c, w))
      /\ c \in ChangeCommands => Fitting(Changes(c, w))
      /\ c \in EditCommands => Fitting(Edits(c, w))
  BY TestsFit, ChangesFit, EditsFit
<1> HIDE DEF w
<1>3. Fitting(Command(c, w))
  BY <1>1, <1>2 DEF Command
<1> QED BY <1>3 DEF w

\* rules_apply(), a command or the end.
LEMMA WordApply == ASSUME WordInv, Apply PROVE WordInv'
<1>0. /\ in \in {0, 1} /\ DOMAIN buffer = {0, 1} /\ \A b \in {0, 1} : Short(buffer[b])
      /\ applying = "loop"
  BY DEF WordInv, Apply, ApplyCommand, ApplyEnds
<1>1. CASE ApplyEnds
  <2>1. /\ buffer' = [buffer EXCEPT ![in] = Cut(@, rules_max_length)] /\ in' = in
    BY <1>1 DEF ApplyEnds
  <2>2. Short(buffer[in]) /\ IsSeq(buffer[in]) /\ rules_max_length \in Nat
    BY <1>0, LengthAssumption DEF Short, UpTo
  <2> DEFINE cut == Cut(buffer[in], rules_max_length)
  <2>3. UpTo(cut, rules_max_length) /\ UpTo(cut, Len(buffer[in]))
    BY <2>2, CutUpTo
  <2> HIDE DEF cut
  <2>4. Len(buffer[in]) \in Int /\ 2 * RULE_WORD_SIZE - 1 \in Int
        /\ Len(buffer[in]) <= 2 * RULE_WORD_SIZE - 1
    BY <2>2, LengthAssumption DEF Short, UpTo
  <2>5. Short(cut) /\ Len(cut) <= rules_max_length
    BY <2>2, <2>3, <2>4, UpToMore DEF Short, UpTo
  <2>6. buffer' = [buffer EXCEPT ![in] = cut]
    BY <2>1 DEF cut
  <2> QED BY <1>0, <2>1, <2>5, <2>6 DEF WordInv
<1>2. CASE ApplyCommand
  <2> DEFINE o == Command(rest[1], Seen)
  <2>1. Fitting(o)
    BY CommandFits
  <2>2. \/ UNCHANGED <<buffer, in>> /\ applying' = "null"
        \/ /\ buffer' = [buffer EXCEPT ![in] = o.left, ![o.place] = o.word]
           /\ in' = o.place /\ applying' = applying
    BY <1>2 DEF ApplyCommand, ReturnNull, Becomes
  <2> HIDE DEF o
  <2>3. CASE UNCHANGED <<buffer, in>> /\ applying' = "null"
    BY <1>0, <2>3 DEF WordInv
  <2>4. CASE /\ buffer' = [buffer EXCEPT ![in] = o.left, ![o.place] = o.word]
             /\ in' = o.place /\ applying' = applying
    <3>1. DOMAIN buffer' = {0, 1} /\ in' \in {0, 1} /\ applying' # "word"
      BY <1>0, <2>1, <2>4 DEF Fitting
    <3>2. \A b \in {0, 1} : buffer'[b] \in {buffer[b], o.left, o.word}
      BY <1>0, <2>1, <2>4 DEF Fitting
    <3>3. \A b \in {0, 1} : Short(buffer'[b])
      BY <1>0, <2>1, <3>2 DEF Fitting
    <3> QED BY <3>1, <3>3 DEF WordInv
  <2> QED BY <2>2, <2>3, <2>4
<1> QED BY <1>1, <1>2 DEF Apply

\* rpp_next() and rules_reject(), and rules_apply() up to its loop.
LEMMA WordMake ==
    ASSUME WordInv, NEW w, IsSeq(w), NEW debug, MakeRule(w, debug) PROVE WordInv'
<1>1. \/ /\ buffer' = [buffer EXCEPT ![0] = Cut(w, RULE_WORD_SIZE)] /\ in' = 0
         /\ applying' = "loop"
      \/ UNCHANGED <<buffer, in, applying>>
  BY DEF MakeRule, StartRule
<1>2. RULE_WORD_SIZE \in Nat /\ RULE_WORD_SIZE <= 2 * RULE_WORD_SIZE - 1
      /\ RULE_WORD_SIZE \in Int /\ 2 * RULE_WORD_SIZE - 1 \in Int
  BY LengthAssumption
<1> DEFINE cut == Cut(w, RULE_WORD_SIZE)
<1>3. Short(cut)
  <2>1. UpTo(cut, RULE_WORD_SIZE)
    BY <1>2, CutUpTo
  <2> QED BY <1>2, <2>1, UpToMore DEF Short
<1> HIDE DEF cut
<1>4. \/ buffer' = [buffer EXCEPT ![0] = cut] /\ in' = 0 /\ applying' = "loop"
      \/ UNCHANGED <<buffer, in, applying>>
  BY <1>1 DEF cut
<1> QED BY <1>3, <1>4 DEF WordInv

LEMMA WordInit == WordlistInit => WordInv
<1> SUFFICES ASSUME WordlistInit PROVE WordInv
  OBVIOUS
<1>1. buffer = [b \in {0, 1} |-> <<>>] /\ in = 0 /\ applying = "ready"
  BY DEF WordlistInit, RulesInit
<1>2. Short(<<>>)
  BY EmptyUpTo, LengthAssumption DEF Short
<1> QED BY <1>1, <1>2 DEF WordInv

LEMMA WordNext == WordInv /\ [WordlistNext]_wordlistVars => WordInv'
<1> SUFFICES ASSUME WordInv, [WordlistNext]_wordlistVars PROVE WordInv'
  OBVIOUS
<1>1. CASE CheckRule
  <2>1. MakeRule(<<>>, TRUE)
    BY <1>1 DEF CheckRule
  <2> QED BY <2>1, EmptyIsSeq, WordMake
<1>2. CASE NextRule
  <2>1. PICK w \in WordlistWords : MakeRule(w, FALSE)
    BY <1>2 DEF NextRule
  <2>2. IsSeq(w)
    BY WordsAssumption DEF IsSeq
  <2> QED BY <2>1, <2>2, WordMake
<1>3. CASE Apply
  BY <1>3, WordApply
<1>4. CASE ReadLine \/ ReadError \/ FindRules \/ Checked \/ CheckEnds \/ Applied \/ WordsEnd
           \/ UNCHANGED wordlistVars
  <2>1. UNCHANGED <<buffer, in>> /\ (applying' = applying \/ applying' = "ready")
    BY <1>4 DEF ReadLine, ReadError, FindRules, Checked, CheckEnds, Applied, WordsEnd,
                wordlistVars, rulesVars
  <2> QED BY <2>1 DEF WordInv
<1> QED BY <1>1, <1>2, <1>3, <1>4 DEF WordlistNext

\* No command of any rule makes a word that the buffers of rules_apply() have no room
\* for, and what it returns is no longer than a word may be.
THEOREM WordsCorrect == WordlistSpec => []WordFits
<1>1. WordInv => WordFits
  BY LengthAssumption DEF WordInv, WordFits, Short, UpTo
<1> QED BY <1>1, WordInit, WordNext, PTL DEF WordlistSpec

-----------------------------------------------------------------------------
(* Every rule once.                                                        *)

-----------------------------------------------------------------------------
(* Every rule once: the reader.                                            *)

\* A line that is blank or a comment, or that has a header between, is not below h.
LEMMA BelowStays ==
    ASSUME NEW file, NEW last \in Nat, NEW h \in 1..last,
           Skipped(file[last + 1]) \/ \E j \in (h + 1)..(last + 1) : IsHeader(file[j])
    PROVE  Below(file, h, last + 1) = Below(file, h, last)
<1>1. last + 1 \notin Below(file, h, last + 1)
  BY DEF Below
<1>2. \A k \in 1..last : k \in Below(file, h, last + 1) <=> k \in Below(file, h, last)
  BY DEF Below
<1>3. Below(file, h, last) \subseteq 1..last /\ Below(file, h, last + 1) \subseteq 1..(last + 1)
  BY DEF Below
<1>4. (1..(last + 1)) \ {last + 1} = 1..last
  OBVIOUS
<1> QED BY <1>1, <1>2, <1>3, <1>4

\* A section that does not get a line stays that of its header.
LEMMA SectionStays ==
    ASSUME NEW file, NEW last \in Nat, NEW h \in 1..last, NEW s, SectionOf(file, s, h, last), NEW t,
           t.name = s.name, t.list = s.list, t.is_list = s.is_list,
           \/ Skipped(file[last + 1])
           \/ \E j \in (h + 1)..(last + 1) : IsHeader(file[j])
           \/ ~s.is_list
    PROVE  SectionOf(file, t, h, last + 1)
<1>1. s.is_list => Below(file, h, last + 1) = Below(file, h, last)
  BY BelowStays
<1> QED BY <1>1 DEF SectionOf

\* A header is read: its section is the latest, and has no lines yet.
LEMMA SectionsHeader ==
    ASSUME Numbered, SectionsRead, CfgLine, Kind(cfg_file[number']) = "header",
           cfg_database' = <<NewSection(Lower[cfg_file[number'].name])>> \o cfg_database
    PROVE  SectionsRead'
<1>1. PICK headers \in [DOMAIN cfg_database -> 1..number] :
        /\ HeaderLines(cfg_file, headers, number)
        /\ \A j \in DOMAIN headers : SectionOf(cfg_file, cfg_database[j], headers[j], number)
  BY DEF SectionsRead
<1>2. number' = number + 1 /\ cfg_file' = cfg_file /\ number \in Nat
  BY DEF CfgLine, Numbered
<1> DEFINE last == Len(cfg_database)
           new == NewSection(Lower[cfg_file[number'].name])
           more == [j \in 1..(last + 1) |-> IF j = 1 THEN number' ELSE headers[j - 1]]
<1>3. /\ last \in Nat /\ DOMAIN cfg_database = 1..last
      /\ Len(cfg_database') = last + 1 /\ DOMAIN cfg_database' = 1..(last + 1)
      /\ cfg_database'[1] = new
      /\ \A j \in 2..(last + 1) : cfg_database'[j] = cfg_database[j - 1]
  <2>1. cfg_database \in Seq(Sections)
    BY DEF Numbered
  <2> HIDE DEF new
  <2>2. cfg_database' = <<new>> \o cfg_database
    BY DEF new
  <2>3. cfg_database \in Seq(Sections \cup {new}) /\ <<new>> \in Seq(Sections \cup {new})
    BY <2>1
  <2> QED BY <2>2, <2>3
<1>4. IsHeader(cfg_file[number'])
  BY DEF Kind
<1> HIDE DEF last
<1>5. \A j \in 2..(last + 1) : j - 1 \in 1..last /\ headers[j - 1] \in 1..number
  BY <1>3
<1>6. more \in [DOMAIN cfg_database' -> 1..number'] /\ DOMAIN more = 1..(last + 1)
  BY <1>2, <1>3, <1>5
<1>7. HeaderLines(cfg_file, more, number')
  <2>1. \A a, b \in DOMAIN more : a < b => more[b] < more[a]
    <3> SUFFICES ASSUME NEW a \in 1..(last + 1), NEW b \in 1..(last + 1), a < b PROVE more[b] < more[a]
      BY <1>6
    <3>1. b \in 2..(last + 1) /\ more[b] = headers[b - 1]
      BY <1>3
    <3>2. CASE a = 1
      BY <3>1, <3>2, <1>2, <1>5
    <3>3. CASE a # 1
      <4>1. a \in 2..(last + 1) /\ more[a] = headers[a - 1] /\ a - 1 < b - 1
        BY <3>3, <1>3
      <4>2. a - 1 \in DOMAIN headers /\ b - 1 \in DOMAIN headers
        BY <3>1, <4>1, <1>3
      <4> QED BY <3>1, <4>1, <4>2, <1>1 DEF HeaderLines
    <3> QED BY <3>2, <3>3
  <2>2. ASSUME NEW k \in 1..number'
        PROVE  IsHeader(cfg_file[k]) <=> \E j \in DOMAIN more : more[j] = k
    <3>1. CASE k = number'
      <4>1. 1 \in DOMAIN more /\ more[1] = number'
        BY <1>3, <1>6
      <4> QED BY <3>1, <4>1, <1>4
    <3>2. CASE k # number'
      <4>1. k \in 1..number
        BY <3>2, <1>2
      <4>2. IsHeader(cfg_file[k]) <=> \E j \in DOMAIN headers : headers[j] = k
        BY <4>1, <1>1 DEF HeaderLines
      <4>3. \A j \in DOMAIN headers : j + 1 \in DOMAIN more /\ more[j + 1] = headers[j]
        BY <1>3, <1>6
      <4>4. \A j \in DOMAIN more : more[j] = k => j - 1 \in DOMAIN headers /\ headers[j - 1] = k
        BY <3>2, <1>3, <1>5, <1>6
      <4> QED BY <4>2, <4>3, <4>4
    <3> QED BY <3>1, <3>2
  <2> QED BY <2>1, <2>2, <1>2 DEF HeaderLines
<1>8. ASSUME NEW j \in DOMAIN more PROVE SectionOf(cfg_file, cfg_database'[j], more[j], number')
  <2>1. CASE j = 1
    <3>1. Below(cfg_file, number', number') = {}
      BY <1>2 DEF Below
    <3>2. ListOf(cfg_file, <<>>, {})
      BY DEF ListOf
    <3>3. new.list = <<>> /\ new.name = Lower[cfg_file[number'].name]
      BY DEF NewSection
    <3>4. more[1] = number' /\ cfg_database'[1] = new
      BY <1>3, <1>6, <2>1
    <3> HIDE DEF new, more
    <3> QED BY <2>1, <3>1, <3>2, <3>3, <3>4, <1>2 DEF SectionOf
  <2>2. CASE j # 1
    <3>1. j \in 2..(last + 1) /\ more[j] = headers[j - 1] /\ cfg_database'[j] = cfg_database[j - 1]
      BY <2>2, <1>3, <1>6
    <3>2. headers[j - 1] \in 1..number /\ j - 1 \in DOMAIN headers
      BY <3>1, <1>3, <1>5
    <3>3. number' \in (headers[j - 1] + 1)..number'
      BY <3>2, <1>2
    <3>4. SectionOf(cfg_file, cfg_database[j - 1], headers[j - 1], number)
      BY <3>2, <1>1
    <3>5. SectionOf(cfg_file, cfg_database[j - 1], headers[j - 1], number + 1)
      BY <3>2, <3>3, <3>4, <1>2, <1>4, SectionStays
    <3> QED BY <3>1, <3>5, <1>2
  <2> QED BY <2>1, <2>2
<1> HIDE DEF more
<1> QED BY <1>2, <1>6, <1>7, <1>8 DEF SectionsRead

\* The headers are in descending order, so that one with a later index is further up.
LEMMA LaterHeader ==
    ASSUME NEW file, NEW last \in Nat, NEW m \in Nat, NEW headers \in [1..m -> 1..last],
           HeaderLines(file, headers, last), NEW j \in 2..m
    PROVE  \E k \in (headers[j] + 1)..(last + 1) : IsHeader(file[k])
<1>1. 1 \in 1..m /\ j \in 1..m /\ 1 < j
  OBVIOUS
<1>2. headers[j] < headers[1] /\ headers[1] \in 1..last /\ headers[j] \in 1..last
  BY <1>1 DEF HeaderLines
<1>3. IsHeader(file[headers[1]])
  BY <1>1, <1>2 DEF HeaderLines
<1>4. headers[1] \in (headers[j] + 1)..(last + 1)
  BY <1>2
<1> QED BY <1>3, <1>4

\* Nothing but a header changes the lines with headers.
LEMMA HeadersStay ==
    ASSUME NEW file, NEW last \in Nat, NEW headers, \A j \in DOMAIN headers : headers[j] \in 1..last,
           HeaderLines(file, headers, last), ~IsHeader(file[last + 1])
    PROVE  HeaderLines(file, headers, last + 1)
<1>1. \A k \in 1..(last + 1) : k \in 1..last \/ k = last + 1
  OBVIOUS
<1>2. \A j \in DOMAIN headers : headers[j] # last + 1
  OBVIOUS
<1> QED BY <1>1, <1>2 DEF HeaderLines

\* The latest section changes, the others do not.
LEMMA SectionsLatest ==
    ASSUME Numbered, SectionsRead, CfgLine, ~IsHeader(cfg_file[number']), cfg_database # <<>>,
           NEW s, cfg_database' = InLatest(s),
           ASSUME NEW h \in 1..number, SectionOf(cfg_file, cfg_database[1], h, number),
                  \A k \in (h + 1)..(number + 1) : ~IsHeader(cfg_file[k])
           PROVE  SectionOf(cfg_file, s, h, number + 1)
    PROVE  SectionsRead'
<1>1. PICK headers \in [DOMAIN cfg_database -> 1..number] :
        /\ HeaderLines(cfg_file, headers, number)
        /\ \A j \in DOMAIN headers : SectionOf(cfg_file, cfg_database[j], headers[j], number)
  BY DEF SectionsRead
<1>2. number' = number + 1 /\ cfg_file' = cfg_file /\ number \in Nat
  BY DEF CfgLine, Numbered
<1> DEFINE m == Len(cfg_database)
<1>3. /\ m \in Nat /\ DOMAIN cfg_database = 1..m /\ 1 \in 1..m
      /\ DOMAIN cfg_database' = 1..m /\ cfg_database'[1] = s
      /\ \A j \in 2..m : cfg_database'[j] = cfg_database[j]
  <2>1. cfg_database \in Seq(Sections)
    BY DEF Numbered
  <2> QED BY <2>1 DEF InLatest
<1> HIDE DEF m
<1>4. headers \in [1..m -> 1..number]
  BY <1>3
<1>5. headers \in [DOMAIN cfg_database' -> 1..number']
  BY <1>2, <1>3, <1>4
<1>6. HeaderLines(cfg_file, headers, number + 1)
  BY <1>1, <1>2, <1>4, HeadersStay
<1>7. ASSUME NEW j \in 2..m PROVE SectionOf(cfg_file, cfg_database'[j], headers[j], number + 1)
  <2>1. j \in 1..m /\ headers[j] \in 1..number /\ cfg_database'[j] = cfg_database[j]
    BY <1>3, <1>4
  <2>2. \E k \in (headers[j] + 1)..(number + 1) : IsHeader(cfg_file[k])
    BY <1>1, <1>2, <1>3, <1>4, LaterHeader
  <2>3. SectionOf(cfg_file, cfg_database[j], headers[j], number)
    BY <1>1, <1>4, <2>1
  <2> QED BY <1>2, <2>1, <2>2, <2>3, SectionStays
<1>8. SectionOf(cfg_file, cfg_database'[1], headers[1], number + 1)
  <2>1. headers[1] \in 1..number /\ SectionOf(cfg_file, cfg_database[1], headers[1], number)
    BY <1>1, <1>3, <1>4
  <2>2. ASSUME NEW k \in (headers[1] + 1)..(number + 1) PROVE ~IsHeader(cfg_file[k])
    <3>1. CASE k = number + 1
      BY <3>1, <1>2
    <3>2. CASE k # number + 1
      <4>1. k \in 1..number /\ headers[1] < k
        BY <3>2, <2>1, <1>2
      <4>2. \A j \in 1..m : headers[j] <= headers[1]
        <5>1. \A j \in 2..m : headers[j] < headers[1]
          <6>1. \A j \in 2..m : j \in DOMAIN headers /\ 1 \in DOMAIN headers /\ 1 < j
            BY <1>3, <1>4
          <6> QED BY <6>1, <1>1 DEF HeaderLines
        <5>2. \A j \in 1..m : j = 1 \/ j \in 2..m
          BY <1>3
        <5> QED BY <5>1, <5>2, <2>1, <1>4
      <4>3. ASSUME NEW j \in DOMAIN headers PROVE headers[j] # k
        <5>1. j \in 1..m /\ headers[j] \in 1..number
          BY <1>4
        <5>2. headers[j] <= headers[1]
          BY <4>2, <5>1
        <5> QED BY <4>1, <5>1, <5>2, <2>1
      <4> QED BY <4>1, <4>3, <1>1 DEF HeaderLines
    <3> QED BY <3>1, <3>2
  <2> QED BY <2>1, <2>2, <1>3
<1>9. \A j \in DOMAIN headers : SectionOf(cfg_file, cfg_database'[j], headers[j], number + 1)
  <2>1. \A j \in 1..m : j = 1 \/ j \in 2..m
    BY <1>3
  <2> QED BY <2>1, <1>4, <1>7, <1>8
<1> QED BY <1>2, <1>5, <1>6, <1>9 DEF SectionsRead

\* A line more is below the latest header.
LEMMA ListMore ==
    ASSUME NEW file, NEW last \in Nat, NEW h \in 1..last, NEW list \in Seq(RuleLines),
           ListOf(file, list, Below(file, h, last)), ~Skipped(file[last + 1]),
           \A k \in (h + 1)..(last + 1) : ~IsHeader(file[k]),
           NEW new, new = [number |-> last + 1, data |-> file[last + 1].rule]
    PROVE  ListOf(file, Append(list, new), Below(file, h, last + 1))
<1> DEFINE m == Len(list)
           more == Append(list, new)
<1>1. /\ m \in Nat /\ DOMAIN list = 1..m /\ DOMAIN more = 1..(m + 1)
      /\ more[m + 1] = new /\ \A j \in 1..m : more[j] = list[j]
  OBVIOUS
<1>2. new.number = last + 1 /\ new.data = file[last + 1].rule
  OBVIOUS
<1>3. \A j \in 1..m : list[j].number \in 1..last
  BY <1>1 DEF ListOf, Below
<1> HIDE DEF m, more
<1>4. Below(file, h, last + 1) = Below(file, h, last) \cup {last + 1}
  <2>1. last + 1 \in Below(file, h, last + 1)
    BY DEF Below
  <2>2. \A k \in 1..last : k \in Below(file, h, last + 1) <=> k \in Below(file, h, last)
    BY DEF Below
  <2>3. Below(file, h, last) \subseteq 1..last /\ Below(file, h, last + 1) \subseteq 1..(last + 1)
    BY DEF Below
  <2>4. (1..(last + 1)) \ {last + 1} = 1..last
    OBVIOUS
  <2> QED BY <2>1, <2>2, <2>3, <2>4
<1>5. {more[x].number : x \in DOMAIN more} = Below(file, h, last + 1)
  <2>1. {more[x].number : x \in DOMAIN more} = {list[x].number : x \in 1..m} \cup {last + 1}
    <3>1. \A x \in 1..(m + 1) : x \in 1..m \/ x = m + 1
      BY <1>1
    <3>2. 1..m \subseteq 1..(m + 1) /\ m + 1 \in 1..(m + 1)
      BY <1>1
    <3> QED BY <1>1, <1>2, <3>1, <3>2
  <2> QED BY <1>1, <1>4, <2>1 DEF ListOf
<1>6. ASSUME NEW a \in 1..(m + 1), NEW b \in 1..(m + 1), a < b
      PROVE  more[a].number < more[b].number
  <2>1. a \in 1..m /\ more[a] = list[a]
    <3>1. m \in Nat
      BY <1>1
    <3>2. a \in 1..m
      BY <1>6, <3>1
    <3> QED BY <1>1, <3>2
  <2>2. CASE b = m + 1
    <3>1. list[a].number \in 1..last /\ more[b].number = last + 1
      BY <1>1, <1>2, <1>3, <2>1, <2>2
    <3> QED BY <2>1, <3>1
  <2>3. CASE b # m + 1
    <3>1. b \in 1..m /\ more[b] = list[b]
      BY <1>1, <2>3
    <3> QED BY <1>1, <1>6, <2>1, <3>1 DEF ListOf
  <2> QED BY <2>2, <2>3
<1>7. ASSUME NEW a \in 1..(m + 1) PROVE more[a].data = file[more[a].number].rule
  <2>1. CASE a = m + 1
    BY <1>1, <1>2, <2>1
  <2>2. CASE a # m + 1
    <3>1. a \in 1..m /\ more[a] = list[a]
      BY <1>1, <2>2
    <3> QED BY <1>1, <3>1 DEF ListOf
  <2> QED BY <2>1, <2>2
<1>8. DOMAIN more = 1..(m + 1)
  BY <1>1
<1>9. ListOf(file, more, Below(file, h, last + 1))
  BY <1>5, <1>6, <1>7, <1>8 DEF ListOf
<1> QED BY <1>9 DEF more

\* cfg_process_line() keeps the sections.
LEMMA SectionsLine ==
    ASSUME Numbered, SectionsRead, CfgLine, cfg_state' # "error"
    PROVE  SectionsRead'
<1> DEFINE line == cfg_file[number']
<1>1. number' = number + 1 /\ cfg_file' = cfg_file /\ number \in Nat /\ number' \in 1..Len(cfg_file)
  BY DEF CfgLine, Numbered
<1>2. line \in FileLine
  BY <1>1 DEF Numbered
<1>3. \/ Kind(line) = "skipped" /\ UNCHANGED cfg_database
      \/ /\ Kind(line) = "header"
         /\ cfg_database' = <<NewSection(Lower[line.name])>> \o cfg_database
      \/ Kind(line) = "line" /\ cfg_database' = AddLine(line)
      \/ Kind(line) = "param" /\ cfg_database' = AddParam(line)
  BY DEF CfgLine
<1>4. CASE Kind(line) = "skipped" /\ UNCHANGED cfg_database
  <2>1. PICK headers \in [DOMAIN cfg_database -> 1..number] :
          /\ HeaderLines(cfg_file, headers, number)
          /\ \A j \in DOMAIN headers : SectionOf(cfg_file, cfg_database[j], headers[j], number)
    BY DEF SectionsRead
  <2>2. Skipped(line) /\ ~IsHeader(line)
    BY <1>4 DEF Kind, Skipped, IsHeader
  <2>3. HeaderLines(cfg_file, headers, number + 1)
    BY <1>1, <2>1, <2>2, HeadersStay
  <2>4. \A j \in DOMAIN headers : SectionOf(cfg_file, cfg_database[j], headers[j], number + 1)
    BY <1>1, <2>1, <2>2, SectionStays
  <2>5. headers \in [DOMAIN cfg_database' -> 1..number']
    BY <1>1, <1>4
  <2> QED BY <1>1, <1>4, <2>3, <2>4, <2>5 DEF SectionsRead
<1>5. CASE /\ Kind(line) = "header"
           /\ cfg_database' = <<NewSection(Lower[line.name])>> \o cfg_database
  BY <1>5, SectionsHeader
<1>6. CASE Kind(line) = "line" /\ cfg_database' = AddLine(line)
  <2>1. /\ cfg_database # <<>> /\ cfg_database[1].is_list /\ ~Skipped(line) /\ ~IsHeader(line)
    BY <1>6 DEF Kind
  <2> DEFINE new == [number |-> number', data |-> line.rule]
             s == [cfg_database[1] EXCEPT !.list = Append(@, new)]
  <2>2. cfg_database' = InLatest(s)
    BY <1>6 DEF AddLine
  <2>3. cfg_database[1] \in Sections /\ cfg_database[1].list \in Seq(RuleLines)
    <3>1. cfg_database[1] \in Sections
      BY <2>1 DEF Numbered
    <3> QED BY <3>1 DEF Sections
  <2>4. /\ s.name = cfg_database[1].name /\ s.is_list = cfg_database[1].is_list
        /\ s.list = Append(cfg_database[1].list, new)
    BY <2>3 DEF Sections
  <2> HIDE DEF s, new
  <2>5. ASSUME NEW h \in 1..number, SectionOf(cfg_file, cfg_database[1], h, number),
               \A k \in (h + 1)..(number + 1) : ~IsHeader(cfg_file[k])
        PROVE  SectionOf(cfg_file, s, h, number + 1)
    <3>1. ListOf(cfg_file, cfg_database[1].list, Below(cfg_file, h, number))
      BY <2>1, <2>5 DEF SectionOf
    <3>2. ListOf(cfg_file, Append(cfg_database[1].list, new), Below(cfg_file, h, number + 1))
      BY <1>1, <2>1, <2>3, <2>5, <3>1, ListMore DEF new
    <3> QED BY <2>1, <2>4, <2>5, <3>2 DEF SectionOf
  <2> QED BY <2>1, <2>2, <2>5, SectionsLatest
<1>7. CASE Kind(line) = "param" /\ cfg_database' = AddParam(line)
  <2>1. /\ cfg_database # <<>> /\ ~cfg_database[1].is_list /\ ~IsHeader(line)
    BY <1>7 DEF Kind
  <2> DEFINE s == [cfg_database[1] EXCEPT !.params = <<Lower[line.name]>> \o @]
  <2>2. cfg_database' = InLatest(s)
    BY <1>7 DEF AddParam
  <2>3. cfg_database[1] \in Sections
    BY <2>1 DEF Numbered
  <2>4. /\ s.name = cfg_database[1].name /\ s.is_list = cfg_database[1].is_list
        /\ s.list = cfg_database[1].list
    BY <2>3 DEF Sections
  <2> HIDE DEF s
  <2>5. ASSUME NEW h \in 1..number, SectionOf(cfg_file, cfg_database[1], h, number),
               \A k \in (h + 1)..(number + 1) : ~IsHeader(cfg_file[k])
        PROVE  SectionOf(cfg_file, s, h, number + 1)
    BY <1>1, <2>1, <2>4, <2>5, SectionStays
  <2> QED BY <2>1, <2>2, <2>5, SectionsLatest
<1> QED BY <1>3, <1>4, <1>5, <1>6, <1>7

\* When the whole file is read, the rules are those of the lines below the last header
\* of their section.
LEMMA ListBelow ==
    ASSUME Numbered, SectionsRead, number = Len(cfg_file), Lines # <<>>
    PROVE  ListOf(cfg_file, Lines, {k \in DOMAIN cfg_file : IsRuleLine(k)})
<1>1. PICK headers \in [DOMAIN cfg_database -> 1..number] :
        /\ HeaderLines(cfg_file, headers, number)
        /\ \A j \in DOMAIN headers : SectionOf(cfg_file, cfg_database[j], headers[j], number)
  BY DEF SectionsRead
<1> DEFINE found == {k \in DOMAIN cfg_database : cfg_database[k].name = Section}
           first == CHOOSE k \in found : \A j \in found : k <= j
           h == headers[first]
           s == cfg_database[first]
           last == Len(cfg_database)
<1>2. /\ DOMAIN cfg_file = 1..number /\ number \in Nat
      /\ DOMAIN cfg_database = 1..last /\ last \in Nat /\ cfg_database \in Seq(Sections)
  BY DEF Numbered
<1> HIDE DEF last
<1>3. found # {}
  <2>1. CASE found = {}
    <3>1. GetSection(Section) = 0
      BY <2>1 DEF GetSection
    <3> QED BY <3>1 DEF GetList, Lines
  <2> QED BY <2>1
<1>4. first \in found /\ \A j \in found : first <= j
  <2>1. found \subseteq Nat
    BY <1>2
  <2>2. \E k \in found : \A j \in found : k <= j
    <3> HIDE DEF found
    <3> QED BY <1>3, <2>1, LeastNumber
  <2> HIDE DEF found
  <2> QED BY <2>2
<1>5. GetSection(Section) = first
  BY <1>3 DEF GetSection
<1> HIDE DEF first
<1>6. first \in 1..last /\ first # 0 /\ s.name = Section
  BY <1>2, <1>4
<1>7. Lines = s.list /\ s.list \in Seq(RuleLines)
  <2>1. Lines = s.list
    BY <1>5, <1>6 DEF Lines, GetList
  <2>2. s \in Sections
    BY <1>2, <1>6
  <2> HIDE DEF s
  <2> QED BY <2>1, <2>2 DEF Sections
<1>8. DOMAIN headers = 1..last /\ h \in 1..number
  BY <1>2, <1>6
<1>9. SectionOf(cfg_file, s, h, number)
  BY <1>1, <1>6, <1>8
<1> HIDE DEF s
<1>10. s.is_list
  <2>1. CASE ~s.is_list
    <3>1. {s.list[x].number : x \in DOMAIN s.list} = {}
      BY <1>9, <2>1 DEF SectionOf, ListOf
    <3>2. DOMAIN s.list = {}
      BY <3>1
    <3>3. Lines \in Seq(RuleLines) /\ DOMAIN Lines = {}
      BY <1>7, <3>2
    <3>4. Len(Lines) = 0
      <4>1. Len(Lines) \in Nat /\ DOMAIN Lines = 1..Len(Lines)
        BY <3>3
      <4>2. Len(Lines) # 0 => 1 \in DOMAIN Lines
        BY <4>1
      <4> QED BY <3>3, <4>2
    <3> QED BY <3>3, <3>4
  <2> QED BY <2>1
<1>11. Lower[cfg_file[h].name] = Section /\ ListOf(cfg_file, Lines, Below(cfg_file, h, number))
  BY <1>6, <1>7, <1>9, <1>10 DEF SectionOf
<1>12. IsHeader(cfg_file[h])
  BY <1>1, <1>6, <1>8 DEF HeaderLines
<1>13. ASSUME NEW j \in 1..number, IsHeader(cfg_file[j]), Lower[cfg_file[j].name] = Section
       PROVE  j <= h
  <2>1. PICK q \in 1..last : headers[q] = j
    BY <1>1, <1>8, <1>13 DEF HeaderLines
  <2>2. cfg_database[q].name = Section
    BY <1>1, <1>8, <1>13, <2>1 DEF SectionOf
  <2>3. first <= q
    BY <1>2, <1>4, <2>2
  <2>4. CASE first = q
    BY <2>1, <2>4, <1>8
  <2>5. CASE first # q
    <3>1. first < q
      BY <2>3, <2>5, <1>2, <1>6
    <3>2. headers[q] < headers[first]
      BY <3>1, <1>1, <1>6, <1>8 DEF HeaderLines
    <3> QED BY <3>2, <2>1, <1>8
  <2> QED BY <2>4, <2>5
<1> HIDE DEF h
<1>14. ASSUME NEW k \in Below(cfg_file, h, number)
       PROVE  k \in DOMAIN cfg_file /\ IsRuleLine(k)
  <2>1. /\ k \in (h + 1)..number /\ ~Skipped(cfg_file[k])
        /\ \A j \in (h + 1)..k : ~IsHeader(cfg_file[j])
    BY DEF Below
  <2>2. k \in 1..number /\ h \in 1..k /\ k \in (h + 1)..k
    BY <2>1, <1>2, <1>8
  <2>3. \A j \in (h + 1)..Len(cfg_file) : IsHeader(cfg_file[j]) => Lower[cfg_file[j].name] # Section
    <3>1. \A j \in (h + 1)..Len(cfg_file) : j \in 1..number /\ ~(j <= h)
      BY <1>2, <1>8
    <3> QED BY <3>1, <1>13
  <2> QED BY <2>1, <2>2, <2>3, <1>2, <1>11, <1>12 DEF IsRuleLine
<1>15. ASSUME NEW k \in DOMAIN cfg_file, IsRuleLine(k)
       PROVE  k \in Below(cfg_file, h, number)
  <2>1. k \in 1..number /\ ~Skipped(cfg_file[k]) /\ ~IsHeader(cfg_file[k])
    BY <1>2, <1>15 DEF IsRuleLine
  <2>2. PICK g \in 1..k :
          /\ IsHeader(cfg_file[g]) /\ Lower[cfg_file[g].name] = Section
          /\ \A j \in (g + 1)..k : ~IsHeader(cfg_file[j])
          /\ \A j \in (g + 1)..Len(cfg_file) :
                IsHeader(cfg_file[j]) => Lower[cfg_file[j].name] # Section
    BY <1>15 DEF IsRuleLine
  <2>3. g \in 1..number
    BY <2>1, <2>2
  <2>4. g <= h
    BY <2>2, <2>3, <1>13
  <2>5. ~(g < h)
    <3>1. g < h => h \in (g + 1)..Len(cfg_file)
      BY <1>2, <1>8, <2>3
    <3> QED BY <3>1, <2>2, <1>11, <1>12
  <2>6. g = h
    BY <2>3, <2>4, <2>5, <1>8
  <2>7. k # h
    BY <2>1, <1>12
  <2>8. k \in (h + 1)..number
    BY <2>1, <2>2, <2>6, <2>7, <1>8
  <2> QED BY <2>1, <2>2, <2>6, <2>8 DEF Below
<1>16. Below(cfg_file, h, number) = {k \in DOMAIN cfg_file : IsRuleLine(k)}
  BY <1>14, <1>15
<1> QED BY <1>11, <1>16

-----------------------------------------------------------------------------
(* Every rule once: what rpp_process_rule() makes of a line.               *)

RangeTypes == [pos : Nat \ {0}, chars : Seq(Char), index : {1}]
RuleStates == [at : {"rule", "escape", "range", "range escape", "interval"},
               output : Seq(Char \cup {NoChar}), ranges : Seq(RangeTypes),
               c1 : Char \cup {NoChar}]

\* Ranges are in the order of their places, and no character is twice in one.
RangesPlaced(rs, size) ==
    /\ \A k \in DOMAIN rs : rs[k].pos <= size /\ IsInjective(rs[k].chars)
    /\ \A j, k \in DOMAIN rs : j < k => rs[j].pos < rs[k].pos

InsideRange == {"range", "range escape", "interval"}
RuleState(s) ==
    /\ s \in RuleStates /\ RangesPlaced(s.ranges, Len(s.output))
    /\ s.at \in InsideRange => s.ranges # <<>>

\* A character has a place in the alphabet.
LEMMA CodeOf ==
    ASSUME NEW c \in Char
    PROVE  Code(c) \in 1..Len(Alphabet) /\ Alphabet[Code(c)] = c
<1>1. \E x \in DOMAIN Alphabet : Alphabet[x] = c
  BY DEF Char, Range
<1>2. Code(c) \in DOMAIN Alphabet /\ Alphabet[Code(c)] = c
  BY <1>1 DEF Code
<1>3. Alphabet \in Seq(STRING)
  BY AlphabetAssumption
<1> QED BY <1>2, <1>3

\* An interval is of characters.
LEMMA IntervalType == ASSUME NEW c1 \in Char, NEW c2 \in Char PROVE Interval(c1, c2) \in Seq(Char)
<1> DEFINE a == Code(c1)
           b == Code(c2)
           last == Len(Alphabet)
<1>1. a \in 1..last /\ b \in 1..last /\ last \in Nat
  <2>1. Alphabet \in Seq(STRING)
    BY AlphabetAssumption
  <2> QED BY <2>1, CodeOf
<1>2. \A x \in 1..last : Alphabet[x] \in Char
  <2>1. Alphabet \in Seq(STRING)
    BY AlphabetAssumption
  <2> QED BY <2>1 DEF Char, Range
<1> HIDE DEF a, b, last
<1>3. CASE a > b
  <2>1. Interval(c1, c2) = [x \in 1..(a - b) |-> Alphabet[a - x]]
    BY <1>3 DEF Interval, a, b
  <2>2. \A x \in 1..(a - b) : a - x \in 1..last
    BY <1>1, <1>3
  <2>3. a - b \in Nat
    BY <1>1, <1>3
  <2> QED BY <2>1, <2>2, <2>3, <1>2
<1>4. CASE ~(a > b)
  <2>1. Interval(c1, c2) = [x \in 1..(b - a) |-> Alphabet[a + x]]
    BY <1>4 DEF Interval, a, b
  <2>2. \A x \in 1..(b - a) : a + x \in 1..last
    BY <1>1, <1>4
  <2>3. b - a \in Nat
    BY <1>1, <1>4
  <2> QED BY <2>1, <2>2, <2>3, <1>2
<1> QED BY <1>3, <1>4

\* A sequence stays without repetition when an element comes that is not in it.
LEMMA AppendOther ==
    ASSUME NEW S, NEW s \in Seq(S), IsInjective(s), NEW e \in S, \A a \in DOMAIN s : s[a] # e,
           NEW t, t = Append(s, e)
    PROVE  t \in Seq(S) /\ IsInjective(t)
<1>1. t \in Seq(S)
  OBVIOUS
<1>2. IsInjective(t)
  BY <1>1 DEF IsInjective
<1> QED BY <1>1, <1>2

\* The ranges that the folds of this part go on with.
Adding(at, s, k) == RuleState(s) /\ s.ranges # <<>> /\ s.at = at

\* A character goes to the range that was opened last, which keeps it once.
LEMMA AddCharKeeps ==
    ASSUME NEW at, NEW s, Adding(at, s, 0), NEW c \in Char PROVE Adding(at, AddChar(s, c), 0)
<1> DEFINE last == Len(s.ranges)
           r == s.ranges[last]
           chars == IF \E j \in DOMAIN r.chars : r.chars[j] = c THEN r.chars ELSE Append(r.chars, c)
           rs == [s.ranges EXCEPT ![last] = [r EXCEPT !.chars = chars]]
           t == [s EXCEPT !.ranges = rs]
<1>1. AddChar(s, c) = t
  BY DEF AddChar
<1>2. s \in RuleStates /\ RangesPlaced(s.ranges, Len(s.output)) /\ s.ranges # <<>> /\ s.at = at
  BY DEF Adding, RuleState
<1>3. s.ranges \in Seq(RangeTypes)
  BY <1>2 DEF RuleStates
<1>4. last \in Nat \ {0} /\ DOMAIN s.ranges = 1..last /\ r \in RangeTypes
  BY <1>2, <1>3
<1>5. chars \in Seq(Char) /\ IsInjective(chars)
  <2>1. r.chars \in Seq(Char) /\ IsInjective(r.chars)
    BY <1>2, <1>4 DEF RangesPlaced, RangeTypes
  <2>2. CASE \E j \in DOMAIN r.chars : r.chars[j] = c
    BY <2>1, <2>2
  <2>3. CASE ~\E j \in DOMAIN r.chars : r.chars[j] = c
    <3> HIDE DEF r
    <3>1. chars = Append(r.chars, c)
      BY <2>3
    <3> HIDE DEF chars
    <3> QED BY <2>1, <2>3, <3>1, AppendOther
  <2> QED BY <2>2, <2>3
<1> HIDE DEF chars
<1>6. /\ rs \in Seq(RangeTypes) /\ DOMAIN rs = 1..last /\ rs # <<>>
      /\ \A k \in 1..last : rs[k].pos = s.ranges[k].pos
      /\ \A k \in 1..last : rs[k].chars = IF k = last THEN chars ELSE s.ranges[k].chars
  <2> DEFINE new == [r EXCEPT !.chars = chars]
  <2>1. new \in RangeTypes /\ new.pos = r.pos /\ new.chars = chars
    BY <1>4, <1>5 DEF RangeTypes
  <2>2. last \in 1..last
    BY <1>4
  <2> HIDE DEF new, last
  <2>3. rs = [s.ranges EXCEPT ![last] = new]
    BY DEF new
  <2>4. rs \in [1..last -> RangeTypes] /\ rs[last] = new /\ \A k \in 1..last : k # last => rs[k] = s.ranges[k]
    BY <1>3, <1>4, <2>1, <2>2, <2>3
  <2>5. rs \in Seq(RangeTypes) /\ Len(rs) = last
    BY <1>4, <2>4
  <2> QED BY <1>4, <2>1, <2>2, <2>4, <2>5
<1> HIDE DEF last, rs, r
<1>7. RangesPlaced(rs, Len(s.output))
  BY <1>2, <1>4, <1>5, <1>6 DEF RangesPlaced
<1>8. t \in RuleStates /\ t.ranges = rs /\ t.output = s.output /\ t.at = at
  BY <1>2, <1>6 DEF RuleStates
<1> HIDE DEF t
<1> QED BY <1>1, <1>6, <1>7, <1>8 DEF Adding, RuleState

\* The characters of an interval are added one by one.
Adds == INSTANCE FoldFacts WITH Op <- AddChar, P <- Adding

\* The fold over the characters of an interval is that of FoldFacts.
LEMMA AddsFold ==
    ASSUME NEW base, NEW s
    PROVE  FoldLeft(AddChar, base, s) = Adds!Fold(base, s)
BY DEF FoldLeft, Adds!Fold, MapThenFoldSet, Max, Adds!Greatest

LEMMA AddingAny == ASSUME NEW at, NEW s, NEW k, NEW m, Adding(at, s, k) PROVE Adding(at, s, m)
BY DEF Adding

\* So do the characters of an interval.
LEMMA IntervalKeeps ==
    ASSUME NEW at, NEW s, Adding(at, s, 0), NEW chars \in Seq(Char)
    PROVE  Adding(at, FoldLeft(AddChar, s, chars), 0)
<1>1. \A k \in 1..Len(chars) : \A v : Adding(at, v, k - 1) => Adding(at, AddChar(v, chars[k]), k)
  <2> SUFFICES ASSUME NEW k \in 1..Len(chars), NEW v, Adding(at, v, k - 1)
               PROVE  Adding(at, AddChar(v, chars[k]), k)
    OBVIOUS
  <2>1. chars[k] \in Char
    OBVIOUS
  <2>2. Adding(at, v, 0)
    BY AddingAny
  <2>3. Adding(at, AddChar(v, chars[k]), 0)
    BY <2>1, <2>2, AddCharKeeps
  <2> QED BY <2>3, AddingAny
<1>2. Adding(at, Adds!Fold(s, chars), Len(chars))
  BY <1>1, Adds!FoldKeeps
<1> QED BY <1>2, AddsFold, AddingAny

\* What changes neither the ranges nor the output.
LEMMA MovesOn ==
    ASSUME NEW s, RuleState(s), NEW t \in RuleStates, t.output = s.output, t.ranges = s.ranges,
           t.at \in InsideRange => s.at \in InsideRange
    PROVE  RuleState(t)
BY DEF RuleState

\* A character within brackets, and one behind a dash.
LEMMA InRangeKeeps ==
    ASSUME NEW s, Adding("range", s, 0), NEW c \in Char PROVE RuleState(InRange(s, c))
<1>1. s \in RuleStates /\ RuleState(s) /\ s.at = "range" /\ "range" \in InsideRange
  BY DEF Adding, RuleState, InsideRange
<1>2. Adding("range", AddChar(s, c), 0)
  BY AddCharKeeps
<1>3. CASE c = "]"
  <2> DEFINE t == [s EXCEPT !.at = "rule"]
  <2>1. t \in RuleStates /\ t.output = s.output /\ t.ranges = s.ranges /\ t.at = "rule"
    BY <1>1 DEF RuleStates
  <2>2. InRange(s, c) = t
    BY <1>3 DEF InRange
  <2> HIDE DEF t
  <2>3. RuleState(t)
    BY <1>1, <2>1, MovesOn
  <2> QED BY <2>2, <2>3
<1>4. CASE c = "\\"
  <2> DEFINE t == [s EXCEPT !.at = "range escape"]
  <2>1. t \in RuleStates /\ t.output = s.output /\ t.ranges = s.ranges
    BY <1>1 DEF RuleStates
  <2>2. InRange(s, c) = t
    BY <1>4 DEF InRange
  <2> HIDE DEF t
  <2>3. RuleState(t)
    BY <1>1, <2>1, MovesOn
  <2> QED BY <2>2, <2>3
<1>5. CASE c = "-"
  <2> DEFINE t == [s EXCEPT !.at = "interval"]
  <2>1. t \in RuleStates /\ t.output = s.output /\ t.ranges = s.ranges
    BY <1>1 DEF RuleStates
  <2>2. InRange(s, c) = t
    BY <1>5 DEF InRange
  <2> HIDE DEF t
  <2>3. RuleState(t)
    BY <1>1, <2>1, MovesOn
  <2> QED BY <2>2, <2>3
<1>6. CASE c \notin {"]", "\\", "-"}
  <2> DEFINE u == AddChar(s, c)
             t == [u EXCEPT !.c1 = c]
  <2>1. InRange(s, c) = t
    BY <1>6 DEF InRange
  <2>2. RuleState(u) /\ u.at = "range" /\ u \in RuleStates
    BY <1>2 DEF Adding, RuleState
  <2> HIDE DEF u
  <2>3. t \in RuleStates /\ t.output = u.output /\ t.ranges = u.ranges
    BY <2>2 DEF RuleStates
  <2> HIDE DEF t
  <2>4. RuleState(t)
    BY <1>1, <2>2, <2>3, MovesOn
  <2> QED BY <2>1, <2>4
<1> QED BY <1>3, <1>4, <1>5, <1>6

LEMMA AfterDashKeeps ==
    ASSUME NEW s, Adding("interval", s, 0), NEW c \in Char PROVE RuleState(AfterDash(s, c))
<1> DEFINE skip == s.c1 = NoChar \/ s.ranges[Len(s.ranges)].chars = <<>>
           t == IF skip THEN s ELSE FoldLeft(AddChar, s, Interval(s.c1, c))
           u == [t EXCEPT !.at = "range", !.c1 = c]
<1>1. AfterDash(s, c) = InRange(u, c)
  BY DEF AfterDash
<1>2. s \in RuleStates
  BY DEF Adding, RuleState
<1>3. Adding("interval", t, 0)
  <2>1. CASE skip
    BY <2>1
  <2>2. CASE ~skip
    <3>1. s.c1 \in Char
      BY <1>2, <2>2 DEF RuleStates
    <3>2. Interval(s.c1, c) \in Seq(Char)
      BY <3>1, IntervalType
    <3>3. Adding("interval", FoldLeft(AddChar, s, Interval(s.c1, c)), 0)
      BY <3>2, IntervalKeeps
    <3> QED BY <2>2, <3>3
  <2> QED BY <2>1, <2>2
<1> HIDE DEF t
<1>4. t \in RuleStates /\ RuleState(t) /\ t.ranges # <<>> /\ t.at = "interval"
  BY <1>3 DEF Adding, RuleState
<1>5. u \in RuleStates /\ u.output = t.output /\ u.ranges = t.ranges /\ u.at = "range"
  BY <1>4 DEF RuleStates
<1> HIDE DEF u
<1>6. "interval" \in InsideRange
  BY DEF InsideRange
<1>7. Adding("range", u, 0)
  BY <1>4, <1>5, <1>6, MovesOn DEF Adding
<1> QED BY <1>1, <1>7, InRangeKeeps

\* A character goes to the output, or a range gets its place there.
LEMMA OutputMore ==
    ASSUME NEW s, RuleState(s), NEW c \in Char \cup {NoChar}, NEW at \in {"rule", "escape"},
           NEW t, t = [s EXCEPT !.at = at, !.output = Append(@, c)]
    PROVE  RuleState(t)
<1>1. s \in RuleStates /\ RangesPlaced(s.ranges, Len(s.output))
  BY DEF RuleState
<1>2. s.output \in Seq(Char \cup {NoChar})
  BY <1>1 DEF RuleStates
<1> DEFINE out == Append(s.output, c)
<1>3. out \in Seq(Char \cup {NoChar}) /\ Len(out) = Len(s.output) + 1 /\ Len(s.output) \in Nat
  BY <1>2
<1>4. t = [s EXCEPT !.at = at, !.output = out]
  OBVIOUS
<1> HIDE DEF out
<1>5. t \in RuleStates /\ t.output = out /\ t.ranges = s.ranges /\ t.at = at
  BY <1>1, <1>3, <1>4 DEF RuleStates
<1>6. at \notin InsideRange
  BY DEF InsideRange
<1>7. RangesPlaced(s.ranges, Len(out))
  <2>1. s.ranges \in Seq(RangeTypes)
    BY <1>1 DEF RuleStates
  <2>2. \A k \in DOMAIN s.ranges : s.ranges[k] \in RangeTypes
    BY <2>1
  <2>3. \A k \in DOMAIN s.ranges : s.ranges[k].pos \in Nat
    BY <2>2 DEF RangeTypes
  <2> QED BY <1>1, <1>3, <2>3 DEF RangesPlaced
<1> QED BY <1>5, <1>6, <1>7 DEF RuleState

\* A bracket opens a range, for which the output has a place.
LEMMA RangeOpened ==
    ASSUME NEW s, RuleState(s), NEW t,
           t = [s EXCEPT !.at = "range", !.output = Append(@, NoChar),
                         !.ranges = Append(@, [pos |-> Len(s.output) + 1, chars |-> <<>>,
                                               index |-> 1])]
    PROVE  RuleState(t)
<1> DEFINE size == Len(s.output)
           out == Append(s.output, NoChar)
           new == [pos |-> size + 1, chars |-> <<>>, index |-> 1]
           rs == Append(s.ranges, new)
           last == Len(s.ranges)
<1>1. s \in RuleStates /\ RangesPlaced(s.ranges, size)
  BY DEF RuleState
<1>2. s.output \in Seq(Char \cup {NoChar}) /\ s.ranges \in Seq(RangeTypes)
  BY <1>1 DEF RuleStates
<1>3. out \in Seq(Char \cup {NoChar}) /\ Len(out) = size + 1 /\ size \in Nat
  BY <1>2
<1>4. new \in RangeTypes /\ new.pos = size + 1 /\ new.chars = <<>>
  <2>1. <<>> \in Seq(Char)
    OBVIOUS
  <2> QED BY <1>3, <2>1 DEF RangeTypes
<1>5. t = [s EXCEPT !.at = "range", !.output = out, !.ranges = rs]
  OBVIOUS
<1> HIDE DEF out, new, size
<1>6. /\ rs \in Seq(RangeTypes) /\ last \in Nat /\ DOMAIN rs = 1..(last + 1) /\ rs # <<>>
      /\ DOMAIN s.ranges = 1..last /\ rs[last + 1] = new
      /\ \A k \in 1..last : rs[k] = s.ranges[k]
  <2>1. rs \in Seq(RangeTypes) /\ Len(rs) = last + 1 /\ last \in Nat
    BY <1>2, <1>4
  <2>2. rs # <<>>
    BY <2>1
  <2> QED BY <1>2, <1>4, <2>1, <2>2
<1> HIDE DEF rs, last
<1>7. t \in RuleStates /\ t.output = out /\ t.ranges = rs /\ t.at = "range"
  BY <1>1, <1>3, <1>5, <1>6 DEF RuleStates
<1>8. RangesPlaced(rs, size + 1)
  <2>1. ASSUME NEW k \in 1..(last + 1)
        PROVE  rs[k].pos \in Nat /\ rs[k].pos <= size + 1 /\ IsInjective(rs[k].chars)
    <3>1. CASE k \in 1..last
      <4>1. rs[k] = s.ranges[k] /\ rs[k] \in RangeTypes
        BY <1>2, <1>6, <3>1
      <4>2. rs[k].pos \in Nat
        BY <4>1 DEF RangeTypes
      <4> QED BY <1>1, <1>3, <1>6, <3>1, <4>1, <4>2 DEF RangesPlaced
    <3>2. CASE k = last + 1
      <4>1. IsInjective(<<>>)
        BY DEF IsInjective
      <4> QED BY <1>3, <1>4, <1>6, <3>2, <4>1
    <3> QED BY <1>6, <3>1, <3>2
  <2>2. ASSUME NEW j \in 1..(last + 1), NEW k \in 1..(last + 1), j < k
        PROVE  rs[j].pos < rs[k].pos
    <3>1. j \in 1..last /\ rs[j] = s.ranges[j]
      BY <1>6, <2>2
    <3>2. CASE k \in 1..last
      BY <1>1, <1>6, <2>2, <3>1, <3>2 DEF RangesPlaced
    <3>3. CASE k = last + 1
      <4>1. s.ranges[j].pos <= size
        BY <1>1, <1>6, <3>1 DEF RangesPlaced
      <4>2. rs[j].pos \in Nat
        BY <2>1
      <4> QED BY <1>3, <1>4, <1>6, <3>1, <3>3, <4>1, <4>2
    <3> QED BY <1>6, <3>2, <3>3
  <2> QED BY <1>6, <2>1, <2>2 DEF RangesPlaced
<1> QED BY <1>3, <1>6, <1>7, <1>8 DEF RuleState

\* A character outside brackets.
LEMMA InRuleKeeps ==
    ASSUME NEW s, RuleState(s), s.at = "rule", NEW c \in Char PROVE RuleState(InRule(s, c))
<1>1. s \in RuleStates
  BY DEF RuleState
<1>2. CASE c = "\\"
  <2> DEFINE t == [s EXCEPT !.at = "escape"]
  <2>1. t \in RuleStates /\ t.output = s.output /\ t.ranges = s.ranges /\ t.at = "escape"
    BY <1>1 DEF RuleStates
  <2>2. InRule(s, c) = t
    BY <1>2 DEF InRule
  <2> HIDE DEF t
  <2>3. t.at \notin InsideRange
    BY <2>1 DEF InsideRange
  <2>4. RuleState(t)
    BY <2>1, <2>3, MovesOn
  <2> QED BY <2>2, <2>4
<1>3. CASE c = "[" /\ Len(s.ranges) < RULE_RANGES_MAX
  <2>1. InRule(s, c) =
          [s EXCEPT !.at = "range", !.output = Append(@, NoChar),
                    !.ranges = Append(@, [pos |-> Len(s.output) + 1, chars |-> <<>>,
                                          index |-> 1])]
    BY <1>3 DEF InRule
  <2> QED BY <2>1, RangeOpened
<1>4. CASE c # "\\" /\ ~(c = "[" /\ Len(s.ranges) < RULE_RANGES_MAX)
  <2>1. InRule(s, c) = [s EXCEPT !.output = Append(@, c)]
    BY <1>4 DEF InRule
  <2>2. [s EXCEPT !.output = Append(@, c)] = [s EXCEPT !.at = "rule", !.output = Append(@, c)]
    BY <1>1 DEF RuleStates
  <2> QED BY <2>1, <2>2, OutputMore
<1> QED BY <1>2, <1>3, <1>4

\* A character of the line.
LEMMA ProcessCharKeeps ==
    ASSUME NEW s, RuleState(s), NEW c \in Char PROVE RuleState(ProcessChar(s, c))
<1>1. s \in RuleStates /\ s.at \in {"rule", "escape", "range", "range escape", "interval"}
  BY DEF RuleState, RuleStates
<1>2. s.at \in InsideRange => Adding(s.at, s, 0)
  BY DEF Adding, RuleState
<1>3. CASE s.at = "rule"
  <2>1. ProcessChar(s, c) = IF Len(s.output) < RULE_BUFFER_SIZE - 1 THEN InRule(s, c) ELSE s
    BY <1>3 DEF ProcessChar
  <2> QED BY <1>3, <2>1, InRuleKeeps
<1>4. CASE s.at = "escape"
  <2>1. ProcessChar(s, c) = [s EXCEPT !.at = "rule", !.output = Append(@, c)]
    BY <1>4 DEF ProcessChar
  <2> QED BY <2>1, OutputMore
<1>5. CASE s.at = "range"
  <2>1. ProcessChar(s, c) = InRange(s, c) /\ Adding("range", s, 0)
    BY <1>2, <1>5 DEF ProcessChar, InsideRange
  <2> QED BY <2>1, InRangeKeeps
<1>6. CASE s.at = "range escape"
  <2> DEFINE u == AddChar(s, c)
             t == [u EXCEPT !.at = "range", !.c1 = c]
  <2>1. ProcessChar(s, c) = t /\ Adding("range escape", s, 0)
    BY <1>2, <1>6 DEF ProcessChar, InsideRange
  <2>2. Adding("range escape", u, 0)
    BY <2>1, AddCharKeeps
  <2> HIDE DEF u
  <2>3. u \in RuleStates /\ RuleState(u) /\ u.at \in InsideRange
    BY <2>2 DEF Adding, RuleState, InsideRange
  <2>4. t \in RuleStates /\ t.output = u.output /\ t.ranges = u.ranges
    BY <2>3 DEF RuleStates
  <2> HIDE DEF t
  <2>5. RuleState(t)
    BY <2>3, <2>4, MovesOn
  <2> QED BY <2>1, <2>5
<1>7. CASE s.at = "interval"
  <2>1. ProcessChar(s, c) = AfterDash(s, c) /\ Adding("interval", s, 0)
    BY <1>2, <1>7 DEF ProcessChar, InsideRange
  <2> QED BY <2>1, AfterDashKeeps
<1> QED BY <1>1, <1>3, <1>4, <1>5, <1>6, <1>7

Processed(given, s, k) == RuleState(s)
Processing == INSTANCE FoldFacts WITH Op <- ProcessChar, P <- Processed

\* The fold over the characters of a line is that of FoldFacts.
LEMMA ProcessingFold ==
    ASSUME NEW base, NEW s
    PROVE  FoldLeft(ProcessChar, base, s) = Processing!Fold(base, s)
BY DEF FoldLeft, Processing!Fold, MapThenFoldSet, Max, Processing!Greatest

\* rpp_process_rule() makes of any line a rule whose ranges have places of their own.
LEMMA RuleProcessed ==
    ASSUME NEW data \in Seq(Char)
    PROVE  RuleState(ProcessRule(data))
<1>1. Processed(0, Start, 0)
  <2>1. Start \in RuleStates /\ Start.ranges = <<>> /\ Start.at = "rule"
    BY DEF Start, RuleStates
  <2>2. RangesPlaced(<<>>, Len(Start.output))
    BY DEF RangesPlaced
  <2>3. "rule" \notin InsideRange
    BY DEF InsideRange
  <2> QED BY <2>1, <2>2, <2>3 DEF Processed, RuleState
<1>2. \A k \in 1..Len(data) : \A v :
        Processed(0, v, k - 1) => Processed(0, ProcessChar(v, data[k]), k)
  <2>1. \A k \in 1..Len(data) : data[k] \in Char
    OBVIOUS
  <2> QED BY <2>1, ProcessCharKeeps DEF Processed
<1>3. Processed(0, Processing!Fold(Start, data), Len(data))
  BY <1>1, <1>2, Processing!FoldKeeps
<1> QED BY <1>3, ProcessingFold DEF Processed, ProcessRule

-----------------------------------------------------------------------------
(* Every rule once: the order in which rpp_next() tries the indices.       *)

\* Of two lists of indices that differ there is a first place where they do.
LEMMA FirstDifference ==
    ASSUME NEW size \in Nat, NEW f \in [1..size -> Nat], NEW g \in [1..size -> Nat], f # g
    PROVE  \E k \in 1..size : f[k] # g[k] /\ \A j \in 1..(k - 1) : f[j] = g[j]
<1> DEFINE T == {k \in 1..size : f[k] # g[k]}
<1>1. T # {} /\ T \subseteq Nat
  OBVIOUS
<1> HIDE DEF T
<1>2. PICK k \in T : \A j \in T : k <= j
  BY <1>1, LeastNumber
<1>3. k \in 1..size /\ f[k] # g[k]
  BY <1>2 DEF T
<1>4. \A j \in 1..(k - 1) : j \in 1..size /\ j \notin T
  BY <1>2, <1>3
<1>5. \A j \in 1..(k - 1) : f[j] = g[j]
  BY <1>4 DEF T
<1> QED BY <1>3, <1>5

\* None is before the first; none is before itself.
LEMMA NoneBefore ==
    ASSUME NEW size \in Nat, NEW f \in [1..size -> Nat], NEW g \in [1..size -> Nat],
           f = g \/ \A k \in 1..size : g[k] <= f[k]
    PROVE  ~Before(f, g)
BY DEF Before

\* All the others are before the last.
LEMMA AllBefore ==
    ASSUME NEW size \in Nat, NEW f \in [1..size -> Nat], NEW g \in [1..size -> Nat],
           \A k \in 1..size : f[k] <= g[k]
    PROVE  Before(f, g) \/ f = g
<1> SUFFICES ASSUME f # g PROVE Before(f, g)
  OBVIOUS
<1>1. PICK k \in 1..size : f[k] # g[k] /\ \A j \in 1..(k - 1) : f[j] = g[j]
  BY FirstDifference
<1>2. f[k] \in Nat /\ g[k] \in Nat /\ f[k] <= g[k]
  OBVIOUS
<1>3. f[k] < g[k]
  BY <1>1, <1>2
<1> QED BY <1>1, <1>3 DEF Before

\* Where the odometer moves on at place m, what is before its new indices are
\* the old ones and what was before them.
LEMMA NextBefore ==
    ASSUME NEW size \in Nat, NEW f \in [1..size -> Nat], NEW g \in [1..size -> Nat],
           NEW h \in [1..size -> Nat], NEW m \in 1..size,
           \A k \in 1..(m - 1) : h[k] = g[k], h[m] = g[m] + 1,
           \A k \in (m + 1)..size : h[k] <= f[k] /\ f[k] <= g[k]
    PROVE  Before(f, h) <=> Before(f, g) \/ f = g
<1>0. DOMAIN f = 1..size /\ DOMAIN g = 1..size /\ DOMAIN h = 1..size
  OBVIOUS
<1>1. ASSUME Before(f, h) PROVE Before(f, g) \/ f = g
  <2>1. PICK k \in 1..size : f[k] < h[k] /\ \A j \in 1..(k - 1) : f[j] = h[j]
    BY <1>0, <1>1 DEF Before
  <2>2. CASE k < m
    <3>1. k \in 1..(m - 1) /\ \A j \in 1..(k - 1) : j \in 1..(m - 1)
      BY <2>2
    <3>2. f[k] < g[k] /\ \A j \in 1..(k - 1) : f[j] = g[j]
      BY <2>1, <3>1
    <3> QED BY <3>2, <1>0 DEF Before
  <2>3. CASE k = m
    <3>1. f[m] < g[m] + 1 /\ \A j \in 1..(m - 1) : f[j] = g[j]
      BY <2>1, <2>3
    <3>2. \A j \in 1..size : j \in 1..(m - 1) \/ j = m \/ j \in (m + 1)..size
      OBVIOUS
    <3>3. \A j \in 1..size : f[j] \in Nat /\ g[j] \in Nat
      OBVIOUS
    <3>4. f[m] <= g[m]
      BY <3>1, <3>3
    <3>5. \A j \in 1..size : f[j] <= g[j]
      BY <3>1, <3>2, <3>3, <3>4
    <3> QED BY <3>5, AllBefore
  <2>4. CASE k > m
    <3>1. k \in (m + 1)..size
      BY <2>4
    <3>2. h[k] <= f[k] /\ f[k] \in Nat /\ h[k] \in Nat
      BY <3>1
    <3> QED BY <2>1, <3>2
  <2> QED BY <2>2, <2>3, <2>4
<1>2. ASSUME f = g PROVE Before(f, h)
  <2>1. f[m] < h[m] /\ \A j \in 1..(m - 1) : f[j] = h[j]
    BY <1>2
  <2> QED BY <2>1, <1>0 DEF Before
<1>3. ASSUME Before(f, g) PROVE Before(f, h)
  <2>1. PICK k \in 1..size : f[k] < g[k] /\ \A j \in 1..(k - 1) : f[j] = g[j]
    BY <1>0, <1>3 DEF Before
  <2>2. CASE k < m
    <3>1. k \in 1..(m - 1) /\ \A j \in 1..(k - 1) : j \in 1..(m - 1)
      BY <2>2
    <3>2. f[k] < h[k] /\ \A j \in 1..(k - 1) : f[j] = h[j]
      BY <2>1, <3>1
    <3> QED BY <3>2, <1>0 DEF Before
  <2>3. CASE k = m
    <3>1. f[m] < h[m] /\ \A j \in 1..(m - 1) : f[j] = h[j]
      BY <2>1, <2>3
    <3> QED BY <3>1, <1>0 DEF Before
  <2>4. CASE k > m
    <3>1. m \in 1..(k - 1) /\ \A j \in 1..(m - 1) : j \in 1..(k - 1)
      BY <2>4
    <3>2. f[m] = g[m] /\ \A j \in 1..(m - 1) : f[j] = h[j]
      BY <2>1, <3>1
    <3>3. f[m] < h[m]
      BY <3>2
    <3> QED BY <3>2, <3>3, <1>0 DEF Before
  <2> QED BY <2>2, <2>3, <2>4
<1> QED BY <1>1, <1>2, <1>3

\* The ranges of a line, and how far their indices go.
Top(r) == IF r.chars = <<>> THEN 1 ELSE Len(r.chars)

\* The ranges of a line, and their places in its output.
LEMMA RangesOf ==
    ASSUME NEW data \in Seq(Char)
    PROVE  /\ ProcessRule(data).ranges \in Seq(RangeTypes)
           /\ RangesPlaced(ProcessRule(data).ranges, Len(ProcessRule(data).output))
           /\ ProcessRule(data).output \in Seq(Char \cup {NoChar})
<1> DEFINE s == ProcessRule(data)
<1>1. RuleState(s)
  BY RuleProcessed
<1> HIDE DEF s
<1>2. s.ranges \in Seq(RangeTypes) /\ s.output \in Seq(Char \cup {NoChar})
  BY <1>1 DEF RuleState, RuleStates
<1>3. RangesPlaced(s.ranges, Len(s.output))
  BY <1>1 DEF RuleState
<1> QED BY <1>2, <1>3 DEF s

LEMMA TopOf ==
    ASSUME NEW r, r.chars \in Seq(Char)
    PROVE  Top(r) \in Nat \ {0} /\ IndexRange(r) = 1..Top(r)
<1>1. Len(r.chars) \in Nat /\ (r.chars # <<>> => Len(r.chars) # 0)
  OBVIOUS
<1> QED BY <1>1 DEF Top, IndexRange

\* A list of indices is a function to numbers, whose bounds are those of the ranges.
LEMMA PickType ==
    ASSUME NEW data \in Seq(Char), NEW rs, rs = ProcessRule(data).ranges, NEW f
    PROVE  f \in Picks(data) <=> /\ f \in [1..Len(rs) -> Nat]
                                 /\ \A k \in 1..Len(rs) : f[k] \in 1..Top(rs[k])
<1>1. rs \in Seq(RangeTypes)
  BY RangesOf
<1>2. DOMAIN rs = 1..Len(rs)
  BY <1>1
<1>3. \A k \in DOMAIN rs : IndexRange(rs[k]) = 1..Top(rs[k]) /\ Top(rs[k]) \in Nat
  <2>1. \A k \in DOMAIN rs : rs[k] \in RangeTypes
    BY <1>1
  <2>2. \A k \in DOMAIN rs : rs[k].chars \in Seq(Char)
    BY <2>1 DEF RangeTypes
  <2> QED BY <2>2, TopOf
<1>4. f \in Picks(data) <=>
        /\ f \in [DOMAIN rs -> UNION {IndexRange(rs[k]) : k \in DOMAIN rs}]
        /\ \A k \in DOMAIN rs : f[k] \in IndexRange(rs[k])
  BY DEF Picks
<1>5. ASSUME f \in Picks(data)
      PROVE  f \in [1..Len(rs) -> Nat] /\ \A k \in 1..Len(rs) : f[k] \in 1..Top(rs[k])
  <2>1. \A k \in DOMAIN rs : f[k] \in 1..Top(rs[k]) /\ f[k] \in Nat
    BY <1>3, <1>4, <1>5
  <2>2. f = [k \in DOMAIN rs |-> f[k]]
    BY <1>4, <1>5
  <2> QED BY <1>2, <2>1, <2>2
<1>6. ASSUME f \in [1..Len(rs) -> Nat], \A k \in 1..Len(rs) : f[k] \in 1..Top(rs[k])
      PROVE  f \in Picks(data)
  <2>1. \A k \in DOMAIN rs : f[k] \in IndexRange(rs[k])
    BY <1>2, <1>3, <1>6
  <2>2. \A k \in DOMAIN rs : f[k] \in UNION {IndexRange(rs[j]) : j \in DOMAIN rs}
    BY <2>1
  <2> QED BY <1>2, <1>4, <1>6, <2>1, <2>2
<1> QED BY <1>5, <1>6

\* The ranges with the indices g have shown all their characters from k on when g
\* is at its bounds there.
LEMMA WrapsFrom ==
    ASSUME NEW data \in Seq(Char), NEW rs, rs = ProcessRule(data).ranges,
           NEW g \in Picks(data), NEW k \in 1..(Len(rs) + 1)
    PROVE  /\ Len(WithIndices(rs, g)) = Len(rs)
           /\ Wraps(WithIndices(rs, g), k) <=> \A j \in k..Len(rs) : g[j] = Top(rs[j])
<1> DEFINE w == WithIndices(rs, g)
           size == Len(rs)
<1>1. rs \in Seq(RangeTypes)
  BY RangesOf
<1>2. size \in Nat /\ DOMAIN rs = 1..size /\ \A j \in 1..size : rs[j] \in RangeTypes
  BY <1>1
<1>3. \A j \in 1..size : rs[j].chars \in Seq(Char)
  BY <1>2 DEF RangeTypes
<1>4. \A j \in 1..size : g[j] \in 1..Top(rs[j])
  BY PickType
<1> HIDE DEF size
<1>5. w = [j \in 1..size |-> [rs[j] EXCEPT !.index = g[j]]]
  BY <1>2 DEF WithIndices
<1>6. ASSUME NEW j \in 1..size PROVE w[j].index = g[j] /\ w[j].chars = rs[j].chars
  <2>1. w[j] = [rs[j] EXCEPT !.index = g[j]]
    BY <1>5
  <2>2. rs[j] \in RangeTypes
    BY <1>2
  <2> HIDE DEF w
  <2> QED BY <2>1, <2>2 DEF RangeTypes
<1>7. Len(w) = size
  BY <1>2, <1>5
<1> HIDE DEF w
<1>8. ASSUME NEW j \in 1..size PROVE w[j].index >= Len(w[j].chars) <=> g[j] = Top(rs[j])
  <2>1. g[j] \in 1..Top(rs[j]) /\ w[j].index = g[j] /\ w[j].chars = rs[j].chars
    BY <1>4, <1>6
  <2>2. Top(rs[j]) = IF Len(rs[j].chars) = 0 THEN 1 ELSE Len(rs[j].chars)
    BY <1>3 DEF Top
  <2>3. Len(rs[j].chars) \in Nat
    BY <1>3
  <2> QED BY <2>1, <2>2, <2>3
<1>9. \A j \in k..size : j \in 1..size
  BY <1>2
<1> QED BY <1>7, <1>8, <1>9 DEF Wraps, w, size

\* What rpp_next() does to the indices: from each list of them it goes to the next,
\* and from the last to the next line.
LEMMA OdometerNext ==
    ASSUME NEW data \in Seq(Char), NEW rs, rs = ProcessRule(data).ranges, NEW g \in Picks(data)
    PROVE  /\ Wraps(WithIndices(rs, g), 1) => \A f \in Picks(data) : Before(f, g) \/ f = g
           /\ ~Wraps(WithIndices(rs, g), 1) =>
                \E h \in Picks(data) :
                    /\ Odometer(WithIndices(rs, g)) = WithIndices(rs, h)
                    /\ \A f \in Picks(data) : Before(f, h) <=> Before(f, g) \/ f = g
<1> DEFINE w == WithIndices(rs, g)
           size == Len(rs)
<1>1. rs \in Seq(RangeTypes)
  BY RangesOf
<1>2. size \in Nat /\ DOMAIN rs = 1..size /\ \A j \in 1..size : rs[j] \in RangeTypes
  BY <1>1
<1>3. \A f \in Picks(data) :
        f \in [1..size -> Nat] /\ \A k \in 1..size : f[k] \in 1..Top(rs[k])
  BY PickType
<1>4. \A k \in 1..size : Top(rs[k]) \in Nat \ {0}
  <2>1. \A j \in 1..size : rs[j].chars \in Seq(Char)
    BY <1>2 DEF RangeTypes
  <2> QED BY <2>1, TopOf
<1>5. \A k \in 1..(size + 1) : Wraps(w, k) <=> \A j \in k..size : g[j] = Top(rs[j])
  BY WrapsFrom
<1>6. Len(w) = size
  BY WrapsFrom, <1>2
<1> HIDE DEF size
<1>7. ASSUME Wraps(w, 1), NEW f \in Picks(data) PROVE Before(f, g) \/ f = g
  <2>1. \A k \in 1..size : g[k] = Top(rs[k])
    BY <1>2, <1>5, <1>7
  <2>2. f \in [1..size -> Nat] /\ g \in [1..size -> Nat] /\ \A k \in 1..size : f[k] <= g[k]
    BY <1>3, <1>4, <2>1
  <2> QED BY <1>2, <2>2, AllBefore
<1>8. ASSUME ~Wraps(w, 1)
      PROVE  \E h \in Picks(data) :
                /\ Odometer(w) = WithIndices(rs, h)
                /\ \A f \in Picks(data) : Before(f, h) <=> Before(f, g) \/ f = g
  <2> DEFINE T == {k \in 1..size : g[k] # Top(rs[k])}
  <2>1. T # {} /\ T \in SUBSET (1..size)
    BY <1>2, <1>5, <1>8
  <2>2. PICK m \in T : \A k \in T : m >= k
    <3> HIDE DEF T
    <3> QED BY <1>2, <2>1, Adds!GreatestNumber
  <2>3. m \in 1..size /\ g[m] \in 1..Top(rs[m]) /\ g[m] # Top(rs[m])
    BY <1>3, <2>2
  <2>4. \A k \in (m + 1)..size : g[k] = Top(rs[k])
    <3>1. \A k \in (m + 1)..size : k \in 1..size /\ ~(m >= k)
      BY <1>2, <2>3
    <3> QED BY <2>2, <3>1
  <2> HIDE DEF T
  <2> DEFINE h == [k \in 1..size |-> IF k < m THEN g[k] ELSE IF k = m THEN g[m] + 1 ELSE 1]
  <2>5. h \in [1..size -> Nat] /\ \A k \in 1..size : h[k] \in 1..Top(rs[k])
    <3>1. \A k \in 1..size : g[k] \in 1..Top(rs[k]) /\ Top(rs[k]) \in Nat \ {0}
      BY <1>3, <1>4
    <3>2. g[m] + 1 \in 1..Top(rs[m])
      BY <2>3, <3>1
    <3>3. \A k \in 1..size : h[k] \in 1..Top(rs[k])
      BY <3>1, <3>2, <2>3
    <3> QED BY <3>3
  <2>6. h \in Picks(data)
    BY <2>5, PickType DEF size
  <2>7. \A k \in 1..size : Wraps(w, k) <=> k > m
    <3>1. \A k \in 1..size : k <= m => m \in k..size
      BY <1>2, <2>3
    <3>2. \A k \in 1..size : k > m => \A j \in k..size : j \in (m + 1)..size
      BY <1>2, <2>3
    <3> QED BY <1>2, <1>5, <2>3, <2>4, <3>1, <3>2
  <2>8. \A k \in 1..size : Wraps(w, k + 1) <=> k >= m
    <3>1. \A k \in 1..size : k + 1 \in 1..(size + 1)
      BY <1>2
    <3>2. \A k \in 1..size : k < m => m \in (k + 1)..size
      BY <1>2, <2>3
    <3>3. \A k \in 1..size : k >= m => \A j \in (k + 1)..size : j \in (m + 1)..size
      BY <1>2, <2>3
    <3> QED BY <1>2, <1>5, <2>3, <2>4, <3>1, <3>2, <3>3
  <2>9. Odometer(w) = WithIndices(rs, h)
    <3>1. DOMAIN w = 1..size /\ \A k \in 1..size : w[k] = [rs[k] EXCEPT !.index = g[k]]
      BY <1>2 DEF WithIndices
    <3> HIDE DEF w
    <3>2. Odometer(w) = [k \in 1..size |->
              IF k > m THEN [w[k] EXCEPT !.index = 1]
              ELSE IF k >= m THEN [w[k] EXCEPT !.index = @ + 1] ELSE w[k]]
      BY <2>7, <2>8, <3>1 DEF Odometer
    <3>3. WithIndices(rs, h) = [k \in 1..size |-> [rs[k] EXCEPT !.index = h[k]]]
      BY <1>2 DEF WithIndices
    <3> HIDE DEF h
    <3>4. ASSUME NEW k \in 1..size
          PROVE  (IF k > m THEN [w[k] EXCEPT !.index = 1]
                  ELSE IF k >= m THEN [w[k] EXCEPT !.index = @ + 1] ELSE w[k])
                    = [rs[k] EXCEPT !.index = h[k]]
      <4>1. w[k] = [rs[k] EXCEPT !.index = g[k]] /\ rs[k] \in RangeTypes
        BY <1>2, <3>1
      <4>2. /\ [w[k] EXCEPT !.index = 1] = [rs[k] EXCEPT !.index = 1]
            /\ [w[k] EXCEPT !.index = @ + 1] = [rs[k] EXCEPT !.index = g[k] + 1]
        BY <4>1 DEF RangeTypes
      <4>3. CASE k > m
        <5>1. h[k] = 1
          BY <2>3, <4>3 DEF h
        <5> QED BY <4>2, <4>3, <5>1
      <4>4. CASE k = m
        <5>1. h[k] = g[k] + 1 /\ k >= m /\ ~(k > m)
          BY <2>3, <4>4 DEF h
        <5> QED BY <4>2, <5>1
      <4>5. CASE k < m
        <5>1. h[k] = g[k] /\ ~(k >= m) /\ ~(k > m)
          BY <2>3, <4>5 DEF h
        <5> QED BY <4>1, <5>1
      <4> QED BY <2>3, <4>3, <4>4, <4>5
    <3> QED BY <3>2, <3>3, <3>4
  <2>10. ASSUME NEW f \in Picks(data) PROVE Before(f, h) <=> Before(f, g) \/ f = g
    <3>1. f \in [1..size -> Nat] /\ g \in [1..size -> Nat]
      BY <1>3
    <3>2. \A k \in 1..(m - 1) : h[k] = g[k]
      BY <1>2, <2>3
    <3>3. h[m] = g[m] + 1
      BY <2>3
    <3>4. \A k \in (m + 1)..size : h[k] <= f[k] /\ f[k] <= g[k]
      <4>1. \A k \in (m + 1)..size : k \in 1..size /\ h[k] = 1
        BY <1>2, <2>3
      <4>2. \A k \in (m + 1)..size : f[k] \in 1..Top(rs[k]) /\ Top(rs[k]) \in Nat
        BY <1>3, <1>4, <4>1
      <4>3. \A k \in (m + 1)..size : g[k] = Top(rs[k])
        BY <2>4
      <4> HIDE DEF h
      <4>4. ASSUME NEW k \in (m + 1)..size PROVE h[k] <= f[k] /\ f[k] <= g[k]
        <5>1. h[k] = 1 /\ f[k] \in 1..Top(rs[k]) /\ Top(rs[k]) \in Nat /\ g[k] = Top(rs[k])
          BY <4>1, <4>2, <4>3
        <5> QED BY <5>1
      <4> QED BY <4>4
    <3>5. size \in Nat /\ m \in 1..size /\ h \in [1..size -> Nat]
      BY <1>2, <2>3, <2>5
    <3> HIDE DEF h
    <3> QED BY <3>1, <3>2, <3>3, <3>4, <3>5, NextBefore
  <2> HIDE DEF h, w
  <2> QED BY <2>6, <2>9, <2>10
<1> QED BY <1>7, <1>8

\* A line starts with its first indices.
LEMMA FirstIndices ==
    ASSUME NEW data \in Seq(Char), NEW rs, rs = ProcessRule(data).ranges
    PROVE  \E g \in Picks(data) : rs = WithIndices(rs, g) /\ \A f \in Picks(data) : ~Before(f, g)
<1> DEFINE size == Len(rs)
           g == [k \in 1..size |-> 1]
<1>1. rs \in Seq(RangeTypes)
  BY RangesOf
<1>2. size \in Nat /\ DOMAIN rs = 1..size /\ \A j \in 1..size : rs[j] \in RangeTypes
  BY <1>1
<1>3. \A k \in 1..size : Top(rs[k]) \in Nat \ {0}
  <2>1. \A j \in 1..size : rs[j].chars \in Seq(Char)
    BY <1>2 DEF RangeTypes
  <2> QED BY <2>1, TopOf
<1>4. g \in [1..size -> Nat] /\ \A k \in 1..size : g[k] \in 1..Top(rs[k])
  BY <1>3
<1>5. g \in Picks(data)
  BY <1>4, PickType
<1>6. rs = WithIndices(rs, g)
  <2>1. \A k \in 1..size : [rs[k] EXCEPT !.index = 1] = rs[k]
    <3>1. \A k \in 1..size : rs[k].index = 1
      BY <1>2 DEF RangeTypes
    <3> QED BY <1>2, <3>1 DEF RangeTypes
  <2>2. WithIndices(rs, g) = [k \in 1..size |-> [rs[k] EXCEPT !.index = 1]]
    BY <1>2 DEF WithIndices
  <2>3. rs = [k \in 1..size |-> rs[k]]
    BY <1>1, <1>2
  <2> QED BY <2>1, <2>2, <2>3
<1>7. ASSUME NEW f \in Picks(data) PROVE ~Before(f, g)
  <2>1. f \in [1..size -> Nat] /\ \A k \in 1..size : f[k] \in 1..Top(rs[k])
    BY PickType
  <2>2. \A k \in 1..size : g[k] <= f[k]
    BY <1>3, <2>1
  <2> HIDE DEF g, size
  <2> QED BY <1>2, <1>4, <2>1, <2>2, NoneBefore
<1> HIDE DEF g
<1> QED BY <1>5, <1>6, <1>7

\* What rpp_next() puts in the places of the ranges.
LEMMA FilledRight ==
    ASSUME NEW data \in Seq(Char), NEW r, r = ProcessRule(data), NEW g \in Picks(data), NEW s,
           s.ranges = WithIndices(r.ranges, g), DOMAIN s.output = DOMAIN r.output,
           \A p \in DOMAIN r.output :
                (\A k \in DOMAIN r.ranges : r.ranges[k].pos # p) => s.output[p] = r.output[p]
    PROVE  /\ DOMAIN FilledIn(s) = DOMAIN r.output
           /\ \A p \in DOMAIN r.output :
                (\A k \in DOMAIN r.ranges : r.ranges[k].pos # p) => FilledIn(s)[p] = r.output[p]
           /\ ~EmptyRange(data) => FilledIn(s) = Filled(data, g)
<1> DEFINE rs == r.ranges
           w == s.ranges
           out == DOMAIN r.output
           Value(p) == IF \E k \in DOMAIN w : w[k].pos = p
                       THEN LET k == CHOOSE k \in DOMAIN w : w[k].pos = p
                            IN  IF w[k].chars = <<>> THEN stale[k] ELSE w[k].chars[w[k].index]
                       ELSE s.output[p]
           RangesAt(p) == {k \in DOMAIN rs : rs[k].pos = p}
           Filler(p) == IF RangesAt(p) = {} THEN r.output[p]
                        ELSE LET k == CHOOSE k \in RangesAt(p) : TRUE IN rs[k].chars[g[k]]
<1>1. rs \in Seq(RangeTypes)
  BY RangesOf
<1>2. /\ DOMAIN w = DOMAIN rs
      /\ \A k \in DOMAIN rs : w[k].pos = rs[k].pos /\ w[k].chars = rs[k].chars /\ w[k].index = g[k]
  <2>1. DOMAIN w = DOMAIN rs /\ \A k \in DOMAIN rs : w[k] = [rs[k] EXCEPT !.index = g[k]]
    BY DEF WithIndices
  <2>2. \A k \in DOMAIN rs : rs[k] \in RangeTypes
    BY <1>1
  <2> HIDE DEF w, rs
  <2> QED BY <2>1, <2>2 DEF RangeTypes
<1>3. FilledIn(s) = [p \in out |-> Value(p)]
  BY DEF FilledIn
<1>4. Filled(data, g) = [p \in out |-> Filler(p)]
  BY DEF Filled
<1>5. EmptyRange(data) <=> \E k \in DOMAIN rs : rs[k].chars = <<>>
  BY DEF EmptyRange
<1>6. \A j, k \in DOMAIN rs : rs[j].pos = rs[k].pos => j = k
  <2>1. RangesPlaced(rs, Len(r.output))
    BY RangesOf
  <2>2. DOMAIN rs = 1..Len(rs) /\ Len(rs) \in Nat /\ \A k \in DOMAIN rs : rs[k] \in RangeTypes
    BY <1>1
  <2> HIDE DEF rs
  <2>3. \A k \in DOMAIN rs : rs[k].pos \in Nat
    BY <2>2 DEF RangeTypes
  <2>4. \A j, k \in DOMAIN rs : j < k => rs[j].pos < rs[k].pos
    BY <2>1 DEF RangesPlaced
  <2> QED BY <2>2, <2>3, <2>4
<1> HIDE DEF rs, w
<1>7. ASSUME NEW p \in out, \A k \in DOMAIN rs : rs[k].pos # p PROVE Value(p) = r.output[p]
  <2>1. s.output[p] = r.output[p]
    BY <1>7 DEF rs
  <2>2. ~\E k \in DOMAIN w : w[k].pos = p
    BY <1>2, <1>7
  <2> QED BY <2>1, <2>2
<1>8. ASSUME ~EmptyRange(data), NEW p \in out PROVE Value(p) = Filler(p)
  <2>1. CASE \A k \in DOMAIN rs : rs[k].pos # p
    <3>1. RangesAt(p) = {}
      BY <2>1
    <3>2. Filler(p) = r.output[p]
      BY <3>1
    <3> QED BY <1>7, <2>1, <3>2
  <2>2. CASE \E k \in DOMAIN rs : rs[k].pos = p
    <3>1. PICK k \in DOMAIN rs : rs[k].pos = p
      BY <2>2
    <3>2. RangesAt(p) = {k}
      BY <1>6, <3>1
    <3>3. (CHOOSE j \in RangesAt(p) : TRUE) = k
      BY <3>2
    <3>4. Filler(p) = rs[k].chars[g[k]]
      BY <3>2, <3>3
    <3>5. (CHOOSE j \in DOMAIN w : w[j].pos = p) = k
      BY <1>2, <1>6, <3>1
    <3>6. rs[k].chars # <<>>
      BY <1>5, <1>8
    <3>7. Value(p) = w[k].chars[w[k].index]
      BY <1>2, <3>1, <3>5, <3>6
    <3> QED BY <1>2, <3>4, <3>7
  <2> QED BY <2>1, <2>2
<1> HIDE DEF Value, Filler
<1>9. DOMAIN FilledIn(s) = out /\ \A p \in out : FilledIn(s)[p] = Value(p)
  BY <1>3
<1>10. ~EmptyRange(data) => FilledIn(s) = Filled(data, g)
  BY <1>3, <1>4, <1>8
<1> QED BY <1>7, <1>9, <1>10 DEF rs

\* The indices of the ranges are those that they were given.
LEMMA IndicesOf ==
    ASSUME NEW data \in Seq(Char), NEW g \in Picks(data), NEW s,
           s.ranges = WithIndices(ProcessRule(data).ranges, g)
    PROVE  Indices(s) = g
<1> DEFINE rs == ProcessRule(data).ranges
<1>1. rs \in Seq(RangeTypes)
  BY RangesOf
<1>2. \A k \in DOMAIN rs : rs[k] \in RangeTypes
  BY <1>1
<1>3. g \in [1..Len(rs) -> Nat]
  BY PickType
<1>4. DOMAIN rs = 1..Len(rs)
  BY <1>1
<1> HIDE DEF rs
<1>5. s.ranges = [k \in DOMAIN rs |-> [rs[k] EXCEPT !.index = g[k]]]
  BY DEF WithIndices, rs
<1>6. \A k \in DOMAIN rs : [rs[k] EXCEPT !.index = g[k]].index = g[k]
  BY <1>2 DEF RangeTypes
<1>7. Indices(s) = [k \in DOMAIN rs |-> g[k]]
  BY <1>5, <1>6 DEF Indices
<1> QED BY <1>3, <1>4, <1>7

\* The range places of the current line have what is right for it; the rest of the line
\* is as it was processed.
HasRanges(s, data, g) ==
    /\ s.ranges = WithIndices(ProcessRule(data).ranges, g)
    /\ DOMAIN s.output = DOMAIN ProcessRule(data).output
    /\ \A p \in DOMAIN ProcessRule(data).output :
        (\A k \in DOMAIN ProcessRule(data).ranges : ProcessRule(data).ranges[k].pos # p)
            => s.output[p] = ProcessRule(data).output[p]

LEMMA CurrentHas ==
    CurrentRight <=> \E g \in Picks(input[1].data) : HasRanges(Current, input[1].data, g)
BY DEF CurrentRight, HasRanges

LEMMA CurrentHasNext ==
    CurrentRight' <=> \E g \in Picks(input'[1].data) : HasRanges(Current', input'[1].data, g)
BY DEF CurrentRight, HasRanges

\* rpp_next() makes the rule of the current indices, and goes on to the next ones.
LEMMA RppSteps ==
    ASSUME RppNext, NEW data \in Seq(Char), data = input[1].data, CurrentRight,
           NEW g, g = Indices(Current)
    PROVE  /\ g \in Picks(data) /\ (~EmptyRange(data) => output' = Filled(data, g))
           /\ \/ /\ UNCHANGED input /\ count' \in Int /\ CurrentRight'
                 /\ \A f \in Picks(data) : Before(f, Indices(Current')) <=> Before(f, g) \/ f = g
              \/ /\ input' = Tail(input) /\ count' = -1
                 /\ \A f \in Picks(data) : Before(f, g) \/ f = g
<1> DEFINE r == ProcessRule(data)
<1>1. PICK e \in Picks(data) : HasRanges(Current, data, e)
  BY CurrentHas
<1>2. e = g
  BY <1>1, IndicesOf DEF HasRanges
<1>3. g \in Picks(data) /\ HasRanges(Current, data, g)
  BY <1>1, <1>2
<1>4. /\ output' = FilledIn(Current) /\ ranges' = Odometer(Current.ranges)
      /\ IF Wraps(Current.ranges, 1) THEN input' = Tail(input) /\ count' = -1
         ELSE count' = Len(Current.ranges) /\ UNCHANGED input
  BY DEF RppNext
<1>5. Current.ranges = WithIndices(r.ranges, g)
  BY <1>3 DEF HasRanges
<1>6. /\ DOMAIN output' = DOMAIN r.output
      /\ \A p \in DOMAIN r.output :
            (\A k \in DOMAIN r.ranges : r.ranges[k].pos # p) => output'[p] = r.output[p]
      /\ ~EmptyRange(data) => output' = Filled(data, g)
  BY <1>3, <1>4, FilledRight DEF HasRanges
<1>7. CASE Wraps(Current.ranges, 1)
  <2>1. \A f \in Picks(data) : Before(f, g) \/ f = g
    BY <1>3, <1>5, <1>7, OdometerNext
  <2> QED BY <1>3, <1>4, <1>6, <1>7, <2>1
<1>8. CASE ~Wraps(Current.ranges, 1)
  <2>1. PICK h \in Picks(data) :
          /\ Odometer(WithIndices(r.ranges, g)) = WithIndices(r.ranges, h)
          /\ \A f \in Picks(data) : Before(f, h) <=> Before(f, g) \/ f = g
    BY <1>3, <1>5, <1>8, OdometerNext
  <2>2. ranges' = WithIndices(r.ranges, h) /\ input' = input
    BY <1>4, <1>5, <1>8, <2>1
  <2>3. count' \in Nat
    <3>1. r.ranges \in Seq(RangeTypes)
      BY RangesOf
    <3>2. Len(WithIndices(r.ranges, g)) = Len(r.ranges)
      <4>1. Len(r.ranges) + 1 \in 1..(Len(r.ranges) + 1)
        BY <3>1
      <4> QED BY <1>3, <4>1, WrapsFrom
    <3> QED BY <1>4, <1>5, <1>8, <3>1, <3>2
  <2>4. Current' = [at |-> "rule", output |-> output', ranges |-> ranges', c1 |-> NoChar]
    BY <2>3 DEF Current
  <2>5. HasRanges(Current', data, h)
    BY <1>6, <2>2, <2>4 DEF HasRanges
  <2>6. CurrentRight'
    BY <2>2, <2>5, CurrentHasNext
  <2>7. Indices(Current') = h
    BY <2>5, IndicesOf DEF HasRanges
  <2> QED BY <1>3, <1>6, <2>1, <2>2, <2>3, <2>6, <2>7
<1> QED BY <1>7, <1>8

-----------------------------------------------------------------------------
(* Every rule once: the rules made so far.                                 *)

\* Once the file is read, its lines do not change.
RulesRead ==
    /\ Numbered /\ cfg_file \in CfgFiles /\ number = Len(cfg_file)
    /\ SectionsRead /\ Lines # <<>>

\* The lines that the rules are made from are those of the property, in their order.
LEMMA LinesOf ==
    ASSUME RulesRead
    PROVE  /\ Lines \in Seq(RuleLines)
           /\ {Lines[q].number : q \in DOMAIN Lines} = {k \in DOMAIN cfg_file : IsRuleLine(k)}
           /\ \A p, q \in DOMAIN Lines : p < q => Lines[p].number < Lines[q].number
           /\ \A q \in DOMAIN Lines : /\ Lines[q].data = cfg_file[Lines[q].number].rule
                                      /\ Lines[q].data \in Seq(Char)
<1>1. ListOf(cfg_file, Lines, {k \in DOMAIN cfg_file : IsRuleLine(k)})
  BY ListBelow DEF RulesRead
<1>2. Lines \in Seq(RuleLines)
  BY ListNumbered DEF RulesRead, Lines
<1>3. \A k \in DOMAIN cfg_file : cfg_file[k].rule \in Seq(Char)
  BY RulesAssumption DEF RulesRead
<1> HIDE DEF Lines
<1>4. \A q \in DOMAIN Lines : Lines[q].number \in DOMAIN cfg_file
  BY <1>1 DEF ListOf
<1>5. \A q \in DOMAIN Lines : Lines[q].data = cfg_file[Lines[q].number].rule
  BY <1>1 DEF ListOf
<1>6. \A q \in DOMAIN Lines : Lines[q].data \in Seq(Char)
  BY <1>3, <1>4, <1>5
<1> QED BY <1>1, <1>2, <1>5, <1>6 DEF ListOf

\* Lines have different numbers, so that what is made of them is different.
LEMMA PicksApart ==
    ASSUME NEW lines \in Seq(RuleLines), NEW k \in 1..Len(lines),
           \A p, q \in DOMAIN lines : p < q => lines[p].number < lines[q].number,
           NEW e \in PicksOfFirst(lines, k - 1)
    PROVE  e[1] < lines[k].number /\ e[1] \in Nat
<1>1. PICK q \in 1..(k - 1) : e \in {lines[q].number} \X Picks(lines[q].data)
  BY DEF PicksOfFirst, PicksOf
<1>2. e[1] = lines[q].number
  BY <1>1
<1>3. q \in DOMAIN lines /\ k \in DOMAIN lines /\ q < k
  BY <1>1
<1>4. lines[q] \in RuleLines
  BY <1>3
<1> QED BY <1>2, <1>3, <1>4 DEF RuleLines

LEMMA PicksMore ==
    ASSUME NEW lines, NEW k \in Nat \ {0}
    PROVE  PicksOfFirst(lines, k) = PicksOfFirst(lines, k - 1) \cup PicksOf(lines[k])
<1>1. 1..k = (1..(k - 1)) \cup {k}
  OBVIOUS
<1> QED BY <1>1 DEF PicksOfFirst

\* Where the input stands among the lines.
LinesLeft == LinesDone \in Nat /\ \A j \in DOMAIN input : input[j] = Lines[LinesDone + j]

\* The current line is one of the section's.
LEMMA InputPlace ==
    ASSUME RulesRead, LinesLeft, input # <<>>
    PROVE  /\ LinesDone + 1 \in DOMAIN Lines /\ input[1] = Lines[LinesDone + 1]
           /\ input[1].number \in Nat /\ input[1].data \in Seq(Char)
<1>1. Lines \in Seq(RuleLines) /\ \A q \in DOMAIN Lines : Lines[q].data \in Seq(Char)
  BY LinesOf
<1>2. input \in Seq(RuleLines)
  BY DEF RulesRead, Numbered
<1>3. Len(input) \in Nat \ {0} /\ 1 \in DOMAIN input /\ input[1] \in RuleLines
  BY <1>2
<1>4. Len(Lines) \in Nat /\ DOMAIN Lines = 1..Len(Lines)
  BY <1>1
<1>5. LinesDone = Len(Lines) - Len(input) /\ LinesDone \in Nat
  BY DEF LinesLeft, LinesDone
<1>6. LinesDone + 1 \in DOMAIN Lines
  BY <1>3, <1>4, <1>5
<1>7. input[1] = Lines[LinesDone + 1]
  BY <1>3 DEF LinesLeft
<1>8. input[1].number \in Nat
  BY <1>3 DEF RuleLines
<1> QED BY <1>1, <1>6, <1>7, <1>8

LEMMA InputTail ==
    ASSUME RulesRead, LinesLeft, input # <<>>, input' = Tail(input), UNCHANGED cfgVars
    PROVE  LinesLeft' /\ LinesDone' = LinesDone + 1 /\ Lines' = Lines
<1>1. input \in Seq(RuleLines) /\ Lines \in Seq(RuleLines)
  BY LinesOf DEF RulesRead, Numbered
<1>2. Lines' = Lines
  BY DEF cfgVars, Lines, GetList, GetSection
<1>3. /\ Len(input') = Len(input) - 1 /\ Len(input) \in Nat \ {0} /\ Len(Lines) \in Nat
      /\ DOMAIN input' = 1..(Len(input) - 1)
      /\ \A j \in 1..(Len(input) - 1) : j + 1 \in DOMAIN input /\ input'[j] = input[j + 1]
  BY <1>1
<1>4. LinesDone = Len(Lines) - Len(input) /\ LinesDone' = Len(Lines) - Len(input')
  BY <1>2 DEF LinesDone
<1>5. LinesDone' = LinesDone + 1 /\ LinesDone \in Nat
  BY <1>3, <1>4 DEF LinesLeft
<1>6. \A j \in DOMAIN input' : input'[j] = Lines[LinesDone' + j]
  <2> SUFFICES ASSUME NEW j \in DOMAIN input' PROVE input'[j] = Lines[LinesDone' + j]
    OBVIOUS
  <2>1. input'[j] = input[j + 1] /\ j + 1 \in DOMAIN input /\ j \in Nat
    BY <1>3
  <2>2. input[j + 1] = Lines[LinesDone + (j + 1)]
    BY <2>1 DEF LinesLeft
  <2>3. LinesDone + (j + 1) = LinesDone' + j
    BY <1>5, <2>1
  <2> QED BY <2>1, <2>2, <2>3
<1>7. LinesLeft'
  BY <1>2, <1>5, <1>6 DEF LinesLeft
<1> QED BY <1>2, <1>5, <1>7

\* The rules of the current line that have been made, and those of the lines before it.
LEMMA MadeSoFar ==
    ASSUME RulesRead, LinesLeft, input # <<>>, CurrentRight, RppNext, UNCHANGED cfgVars,
           NEW e, e = <<input[1].number, Indices(Current)>>
    PROVE  e \notin PicksMade /\ PicksMade' = PicksMade \cup {e}
<1> DEFINE g == Indices(Current)
           data == input[1].data
           num == input[1].number
           old == PicksOfFirst(Lines, LinesDone)
           before == {f \in Picks(data) : Before(f, g)}
<1>1. /\ LinesDone + 1 \in DOMAIN Lines /\ input[1] = Lines[LinesDone + 1]
      /\ num \in Nat /\ data \in Seq(Char)
  BY InputPlace
<1>2. Lines \in Seq(RuleLines) /\ \A p, q \in DOMAIN Lines : p < q => Lines[p].number < Lines[q].number
  BY LinesOf
<1>3. LinesDone \in Nat /\ LinesDone + 1 \in 1..Len(Lines) /\ (LinesDone + 1) - 1 = LinesDone
  <2>1. LinesDone \in Nat
    BY DEF LinesLeft
  <2>2. DOMAIN Lines = 1..Len(Lines)
    BY <1>2
  <2> QED BY <1>1, <2>1, <2>2
<1>4. Lines' = Lines
  BY DEF cfgVars, Lines, GetList, GetSection
<1>5. PicksMade = old \cup {num} \X before
  BY DEF PicksMade
<1>6. \A x \in old : x[1] < num /\ x[1] \in Nat
  BY <1>1, <1>2, <1>3, PicksApart
<1>7. /\ g \in Picks(data)
      /\ \/ /\ UNCHANGED input /\ CurrentRight'
            /\ \A f \in Picks(data) : Before(f, Indices(Current')) <=> Before(f, g) \/ f = g
         \/ /\ input' = Tail(input) /\ count' = -1
            /\ \A f \in Picks(data) : Before(f, g) \/ f = g
  BY <1>1, RppSteps
<1>8. ~Before(g, g)
  <2>1. g \in [1..Len(ProcessRule(data).ranges) -> Nat]
    BY <1>1, <1>7, PickType
  <2>2. Len(ProcessRule(data).ranges) \in Nat
    BY <1>1, RangesOf
  <2> HIDE DEF g, data
  <2> QED BY <2>1, <2>2, NoneBefore
<1> HIDE DEF g, data, num, old
<1>9. e = <<num, g>>
  BY DEF num, g
<1>10. e \notin PicksMade
  <2>1. e[1] = num
    BY <1>9
  <2>2. e \notin old
    BY <1>1, <1>6, <2>1
  <2>3. e \notin {num} \X before
    BY <1>8, <1>9
  <2> QED BY <1>5, <2>2, <2>3
<1>11. PicksOfFirst(Lines, LinesDone + 1) = old \cup {num} \X Picks(data)
  <2>1. PicksOfFirst(Lines, LinesDone + 1) = old \cup PicksOf(Lines[LinesDone + 1])
    BY <1>3, PicksMore DEF old
  <2> QED BY <1>1, <2>1 DEF PicksOf, num, data
<1>12. CASE /\ UNCHANGED input /\ CurrentRight'
            /\ \A f \in Picks(data) : Before(f, Indices(Current')) <=> Before(f, g) \/ f = g
  <2>1. LinesDone' = LinesDone
    BY <1>4, <1>12 DEF LinesDone
  <2>2. PicksMade' = old \cup {num} \X {f \in Picks(data) : Before(f, Indices(Current'))}
    <3>1. input' = input /\ input # <<>>
      BY <1>12
    <3>2. PicksMade' = PicksOfFirst(Lines', LinesDone')
                        \cup {input'[1].number} \X {f \in Picks(input'[1].data) :
                                                        Before(f, Indices(Current'))}
      BY <3>1 DEF PicksMade, Indices
    <3> QED BY <3>1, <3>2, <2>1, <1>4 DEF old, num, data
  <2>3. {f \in Picks(data) : Before(f, Indices(Current'))} = before \cup {g}
    BY <1>7, <1>12
  <2> HIDE DEF before
  <2>4. {num} \X (before \cup {g}) = ({num} \X before) \cup {<<num, g>>}
    OBVIOUS
  <2> QED BY <1>5, <1>9, <1>10, <2>2, <2>3, <2>4
<1>13. CASE /\ input' = Tail(input) /\ count' = -1
            /\ \A f \in Picks(data) : Before(f, g) \/ f = g
  <2>1. LinesLeft' /\ LinesDone' = LinesDone + 1
    BY <1>13, InputTail
  <2>2. PicksMade' = PicksOfFirst(Lines, LinesDone + 1)
    <3>1. CASE input' = <<>>
      BY <1>4, <2>1, <3>1 DEF PicksMade
    <3>2. CASE input' # <<>>
      <4>1. Current' = ProcessRule(input'[1].data)
        BY <1>13 DEF Current
      <4>2. input'[1].data \in Seq(Char)
        <5>1. input \in Seq(RuleLines) /\ LinesLeft
          BY DEF RulesRead, Numbered
        <5>2. 1 \in DOMAIN input'
          BY <1>13, <3>2, <5>1
        <5>3. input'[1] = Lines[LinesDone' + 1]
          BY <1>4, <2>1, <5>2 DEF LinesLeft
        <5>4. LinesDone' + 1 \in DOMAIN Lines
          <6>1. LinesDone' = Len(Lines) - Len(input') /\ LinesDone' \in Nat
            BY <1>4, <2>1 DEF LinesDone, LinesLeft
          <6>2. Len(input') \in Nat \ {0}
            BY <1>13, <3>2, <5>1
          <6> QED BY <1>2, <6>1, <6>2
        <5> QED BY <5>3, <5>4, LinesOf
      <4> DEFINE next == input'[1].data
      <4>3. next \in Seq(Char) /\ Current'.ranges = ProcessRule(next).ranges
        BY <4>1, <4>2
      <4> HIDE DEF next
      <4>4. PICK h \in Picks(next) : /\ ProcessRule(next).ranges = WithIndices(ProcessRule(next).ranges, h)
                                     /\ \A f \in Picks(next) : ~Before(f, h)
        BY <4>3, FirstIndices
      <4>5. Current'.ranges = WithIndices(ProcessRule(next).ranges, h)
        BY <4>3, <4>4
      <4>6. Indices(Current') = h
        BY <4>3, <4>5, IndicesOf
      <4>7. {f \in Picks(next) : Before(f, Indices(Current'))} = {}
        BY <4>4, <4>6
      <4>8. PicksMade' = PicksOfFirst(Lines', LinesDone')
                        \cup {input'[1].number} \X {f \in Picks(next) : Before(f, Indices(Current'))}
        BY <3>2 DEF PicksMade, Indices, next
      <4>9. {input'[1].number} \X {} = {}
        OBVIOUS
      <4> QED BY <1>4, <2>1, <4>7, <4>8, <4>9
    <3> QED BY <3>1, <3>2
  <2>3. Picks(data) = before \cup {g}
    BY <1>7, <1>13
  <2> HIDE DEF before
  <2>4. {num} \X (before \cup {g}) = ({num} \X before) \cup {<<num, g>>}
    OBVIOUS
  <2> QED BY <1>5, <1>9, <1>10, <1>11, <2>2, <2>3, <2>4
<1> QED BY <1>7, <1>10, <1>12, <1>13

\* The elements of a sequence that has got one more.
LEMMA AppendPlaces ==
    ASSUME NEW s, IsSeq(s), NEW e, NEW t, t = Append(s, e)
    PROVE  /\ Len(s) \in Nat /\ DOMAIN s = 1..Len(s)
           /\ Len(t) = Len(s) + 1 /\ DOMAIN t = 1..(Len(s) + 1)
           /\ \A k \in 1..Len(s) : t[k] = s[k]
           /\ t[Len(s) + 1] = e
<1>1. PICK S : s \in Seq(S)
  BY DEF IsSeq
<1>2. s \in Seq(S \cup {e}) /\ e \in S \cup {e}
  BY <1>1
<1> QED BY <1>2

\* The lines that are left, after a rule.
LEMMA LinesLeftNext ==
    ASSUME RulesRead, LinesLeft, input # <<>>, UNCHANGED cfgVars,
           UNCHANGED input \/ input' = Tail(input)
    PROVE  LinesLeft' /\ Lines' = Lines /\ RulesRead'
<1>1. UNCHANGED <<cfg_file, number, cfg_database>>
  BY DEF cfgVars
<1>2. Lines' = Lines
  BY <1>1 DEF Lines, GetList, GetSection
<1>3. LinesLeft'
  <2>1. CASE UNCHANGED input
    <3>1. LinesDone' = LinesDone
      BY <1>2, <2>1 DEF LinesDone
    <3> QED BY <1>2, <2>1, <3>1 DEF LinesLeft
  <2>2. CASE input' = Tail(input)
    BY <2>2, InputTail
  <2> QED BY <2>1, <2>2
<1>4. Numbered'
  <2>1. input' \in Seq(RuleLines)
    BY DEF RulesRead, Numbered
  <2> QED BY <1>1, <2>1 DEF RulesRead, Numbered
<1>5. SectionsRead'
  BY <1>1 DEF RulesRead, SectionsRead
<1> QED BY <1>1, <1>2, <1>3, <1>4, <1>5 DEF RulesRead

\* A line starts with the first of its picks.
LEMMA LineStarts ==
    ASSUME count' = -1, NEW data \in Seq(Char), input'[1].data = data
    PROVE  /\ CurrentRight' /\ Indices(Current') \in Picks(data)
           /\ \A f \in Picks(data) : ~Before(f, Indices(Current'))
<1>1. Current' = ProcessRule(data)
  BY DEF Current
<1>2. PICK g \in Picks(data) : /\ ProcessRule(data).ranges = WithIndices(ProcessRule(data).ranges, g)
                               /\ \A f \in Picks(data) : ~Before(f, g)
  BY FirstIndices
<1>3. HasRanges(Current', data, g)
  BY <1>1, <1>2 DEF HasRanges
<1>4. CurrentRight'
  BY <1>3, CurrentHasNext
<1>5. Indices(ProcessRule(data)) = g
  BY <1>2, IndicesOf
<1>6. Indices(Current') = g
  BY <1>1, <1>5
<1> QED BY <1>2, <1>4, <1>6

\* What was made before is of an earlier line, or of the same one with other indices.
LEMMA MadeEarlier ==
    ASSUME RulesRead, LinesLeft, input # <<>>, NEW e \in PicksMade
    PROVE  e[1] <= input[1].number /\ e[1] \in Nat
<1>1. CASE e \in PicksOfFirst(Lines, LinesDone)
  <2>1. /\ LinesDone + 1 \in DOMAIN Lines /\ input[1] = Lines[LinesDone + 1]
        /\ input[1].number \in Nat
    BY InputPlace
  <2>2. LinesDone + 1 \in 1..Len(Lines) /\ (LinesDone + 1) - 1 = LinesDone
    BY <2>1, LinesOf DEF LinesLeft
  <2>3. e[1] < input[1].number /\ e[1] \in Nat
    BY <1>1, <2>1, <2>2, LinesOf, PicksApart
  <2> QED BY <2>1, <2>3
<1>2. CASE e \in {input[1].number} \X {f \in Picks(input[1].data) : Before(f, Indices(Current))}
  BY <1>2, InputPlace
<1> QED BY <1>1, <1>2 DEF PicksMade

\* rpp_next() makes one rule more: of the current line, with indices that it was not
\* made with before; and what it goes on to is the next in order.
LEMMA MakingKeeps ==
    ASSUME RulesRead, MakingRules, IsSeq(made), RppNext, UNCHANGED cfgVars,
           made' = Append(made, [number |-> input[1].number, pick |-> Indices(Current),
                                 rule |-> output'])
    PROVE  MakingRules' /\ Len(made') = Len(made) + 1 /\ RulesRead'
<1> DEFINE num == input[1].number
           data == input[1].data
           g == Indices(Current)
           new == [number |-> num, pick |-> g, rule |-> output']
           size == Len(made)
           Pairs(s) == {<<s[k].number, s[k].pick>> : k \in DOMAIN s}
<1>1. input # <<>> /\ LinesLeft /\ CurrentRight /\ count \in Int
  BY DEF MakingRules, RppNext, LinesLeft
<1>2. /\ LinesDone + 1 \in DOMAIN Lines /\ input[1] = Lines[LinesDone + 1]
      /\ num \in Nat /\ data \in Seq(Char)
  BY <1>1, InputPlace
<1>3. <<num, g>> \notin PicksMade /\ PicksMade' = PicksMade \cup {<<num, g>>}
  BY <1>1, MadeSoFar
<1>4. /\ g \in Picks(data) /\ (~EmptyRange(data) => output' = Filled(data, g))
      /\ \/ UNCHANGED input /\ count' \in Int /\ CurrentRight'
         \/ input' = Tail(input) /\ count' = -1
  BY <1>1, <1>2, RppSteps
<1>5. LinesLeft' /\ Lines' = Lines /\ RulesRead'
  BY <1>1, <1>4, LinesLeftNext
<1>7. ASSUME input' # <<>> PROVE CurrentRight'
  <2>1. CASE count' = -1
    <3>1. input' \in Seq(RuleLines)
      BY <1>5 DEF RulesRead, Numbered
    <3>2. 1 \in DOMAIN input' /\ LinesDone' \in Nat
      BY <1>5, <1>7, <3>1 DEF LinesLeft
    <3>3. LinesDone' + 1 \in DOMAIN Lines
      BY <1>5, <1>7, LinesOf, <3>1, <3>2 DEF LinesDone
    <3>4. input'[1] = Lines[LinesDone' + 1]
      BY <1>5, <3>2 DEF LinesLeft
    <3>5. input'[1].data \in Seq(Char)
      BY <3>3, <3>4, LinesOf
    <3> QED BY <2>1, <3>5, LineStarts
  <2> QED BY <1>4, <2>1
<1>8. /\ size \in Nat /\ DOMAIN made = 1..size
      /\ Len(made') = size + 1 /\ DOMAIN made' = 1..(size + 1)
      /\ \A k \in 1..size : made'[k] = made[k]
      /\ made'[size + 1] = new
  BY AppendPlaces
<1>6. /\ Pairs(made) = PicksMade
      /\ IsFiniteSet(PicksMade) /\ Cardinality(PicksMade) = size
      /\ \A a, b \in DOMAIN made : a < b =>
            /\ made[a].number <= made[b].number
            /\ made[a].number = made[b].number => made[a].pick # made[b].pick
      /\ \A a \in DOMAIN made :
            ~EmptyRange(cfg_file[made[a].number].rule) =>
                made[a].rule = Filled(cfg_file[made[a].number].rule, made[a].pick)
  BY DEF MakingRules
<1>9. Pairs(made') = PicksMade'
  BY <1>3, <1>6, <1>8
<1>10. IsFiniteSet(PicksMade') /\ Cardinality(PicksMade') = Len(made')
  <2> DEFINE P == PicksMade
             Q == PicksMade'
             x == <<num, g>>
  <2>1. /\ x \notin P /\ Q = P \cup {x} /\ IsFiniteSet(P) /\ Cardinality(P) = size
    BY <1>3, <1>6
  <2> HIDE DEF P, Q, x
  <2>2. IsFiniteSet(Q) /\ Cardinality(Q) = size + 1
    BY <2>1, FS_AddElement
  <2> QED BY <1>8, <2>2 DEF Q
<1>11. ASSUME NEW a \in DOMAIN made', NEW b \in DOMAIN made', a < b
       PROVE  /\ made'[a].number <= made'[b].number
              /\ made'[a].number = made'[b].number => made'[a].pick # made'[b].pick
  <2>1. CASE b \in 1..size
    BY <1>6, <1>8, <1>11, <2>1
  <2>2. CASE b = size + 1
    <3>1. a \in 1..size /\ made'[a] = made[a] /\ made'[b] = new
      BY <1>8, <1>11, <2>2
    <3>2. <<made[a].number, made[a].pick>> \in PicksMade
      BY <1>6, <1>8, <3>1
    <3>3. <<made[a].number, made[a].pick>>[1] <= num
      BY <1>1, <3>2, MadeEarlier
    <3>4. <<made[a].number, made[a].pick>> # <<num, g>>
      BY <1>3, <3>2
    <3> QED BY <3>1, <3>3, <3>4
  <2> QED BY <1>8, <2>1, <2>2
<1>12. ASSUME NEW a \in DOMAIN made', ~EmptyRange(cfg_file'[made'[a].number].rule)
       PROVE  made'[a].rule = Filled(cfg_file'[made'[a].number].rule, made'[a].pick)
  <2>1. cfg_file' = cfg_file
    BY DEF cfgVars
  <2>2. CASE a \in 1..size
    BY <1>6, <1>8, <1>12, <2>1, <2>2
  <2>3. CASE a = size + 1
    <3>1. made'[a] = new
      BY <1>8, <2>3
    <3>2. data = cfg_file[num].rule
      BY <1>2, LinesOf
    <3> QED BY <1>4, <1>12, <2>1, <3>1, <3>2
  <2> QED BY <1>8, <2>2, <2>3
<1>13. count' \in Int
  BY <1>4
<1>14. MakingRules'
  <2> HIDE DEF g, num, data, new
  <2> QED BY <1>5, <1>7, <1>9, <1>10, <1>11, <1>12, <1>13 DEF MakingRules, LinesLeft
<1> QED BY <1>5, <1>8, <1>14

\* rpp_init(), on the lines of the section.
LEMMA MakingStarts ==
    ASSUME RulesRead, UNCHANGED cfgVars, RppInit(Lines), made' = <<>>
    PROVE  RulesRead' /\ MakingRules'
<1>1. /\ input' = Lines /\ count' = -1 /\ UNCHANGED <<cfg_file, number, cfg_database>>
  BY DEF RppInit, cfgVars
<1>2. Lines' = Lines /\ Lines \in Seq(RuleLines) /\ Lines # <<>>
  <2>1. Lines' = Lines
    BY <1>1 DEF Lines, GetList, GetSection
  <2>2. Lines # <<>>
    BY DEF RulesRead
  <2> QED BY <2>1, <2>2, LinesOf
<1>3. RulesRead'
  <2>1. Numbered'
    BY <1>1, <1>2 DEF RulesRead, Numbered
  <2>2. SectionsRead'
    BY <1>1 DEF RulesRead, SectionsRead
  <2> QED BY <1>1, <1>2, <2>1, <2>2 DEF RulesRead
<1>4. LinesDone' = 0 /\ \A j \in DOMAIN input' : input'[j] = Lines'[LinesDone' + j]
  BY <1>1, <1>2 DEF LinesDone
<1>5. input'[1].data \in Seq(Char)
  BY <1>1, <1>2, LinesOf
<1>6. CurrentRight' /\ \A f \in Picks(input'[1].data) : ~Before(f, Indices(Current'))
  BY <1>1, <1>5, LineStarts
<1>7. PicksMade' = {}
  <2>1. PicksOfFirst(Lines', LinesDone') = {}
    BY <1>4 DEF PicksOfFirst
  <2>2. {f \in Picks(input'[1].data) : Before(f, Indices(Current'))} = {}
    BY <1>6
  <2>3. {input'[1].number} \X {f \in Picks(input'[1].data) : Before(f, Indices(Current'))} = {}
    BY <2>2
  <2> QED BY <2>1, <2>3 DEF PicksMade
<1>8. IsFiniteSet(PicksMade') /\ Cardinality(PicksMade') = Len(made')
  BY <1>7, FS_EmptySet
<1>9. /\ {<<made'[k].number, made'[k].pick>> : k \in DOMAIN made'} = PicksMade'
      /\ DOMAIN made' = {}
  BY <1>7
<1>10. MakingRules'
  BY <1>1, <1>4, <1>6, <1>8, <1>9 DEF MakingRules
<1> QED BY <1>3, <1>10

\* What the program has made of the rules, as long as it goes on.
RulesKept == Numbered /\ LineInv /\ cfg_file \in CfgFiles /\ RulesInv

\* It holds at first,
LEMMA KeptInit == WordlistInit => RulesKept
<1> SUFFICES ASSUME WordlistInit PROVE RulesKept
  OBVIOUS
<1>1. Numbered /\ LineInv
  BY NumberedInit, LineInit
<1>2. /\ cfg_file \in CfgFiles /\ number = 0 /\ cfg_database = <<>>
      /\ stage = "read" /\ made = <<>> /\ checked = 0 /\ applying = "ready"
      /\ cfg_state = "reading"
  BY DEF WordlistInit, CfgInit, RulesInit
<1>3. SectionsRead
  <2>1. [k \in {} |-> 1] \in [DOMAIN cfg_database -> 1..number]
    BY <1>2
  <2>2. HeaderLines(cfg_file, [k \in {} |-> 1], number)
    BY <1>2 DEF HeaderLines
  <2> QED BY <1>2, <2>1, <2>2 DEF SectionsRead
<1> QED BY <1>1, <1>2, <1>3 DEF RulesKept, RulesInv

\* A rule that is made, in the check or later.
LEMMA MakeRuleKeeps ==
    ASSUME RulesKept, stage \in {"check", "words"}, NEW w, NEW debug, MakeRule(w, debug),
           UNCHANGED <<cfgVars, stage, checked>>
    PROVE  MakingRules' /\ RulesRead' /\ Len(made') = Len(made) + 1
<1>1. RulesRead /\ MakingRules /\ IsSeq(made)
  BY DEF RulesKept, RulesInv, RulesRead, LineInv
<1>2. RppNext /\ made' = Append(made, [number |-> input[1].number, pick |-> Indices(Current),
                                       rule |-> output'])
  BY DEF MakeRule
<1> QED BY <1>1, <1>2, MakingKeeps

\* What is made of the rules depends on these variables only.
LEMMA MakingStays ==
    ASSUME RulesRead, MakingRules, UNCHANGED <<cfgVars, rppVars, made>>
    PROVE  RulesRead' /\ MakingRules'
<1>1. UNCHANGED <<cfg_file, number, cfg_database, input, count, ranges, output, made>>
  BY DEF cfgVars, rppVars
<1>2. Lines' = Lines
  BY <1>1 DEF Lines, GetList, GetSection
<1>3. RulesRead'
  <2>1. Numbered' /\ SectionsRead'
    BY <1>1 DEF RulesRead, Numbered, SectionsRead
  <2> QED BY <1>1, <1>2, <2>1 DEF RulesRead
<1>4. Current' = Current /\ LinesDone' = LinesDone
  BY <1>1, <1>2 DEF Current, LinesDone
<1>5. CurrentRight' <=> CurrentRight
  BY <1>1, <1>4 DEF CurrentRight
<1>6. PicksMade' = PicksMade
  BY <1>1, <1>2, <1>4 DEF PicksMade
<1>7. MakingRules'
  BY <1>1, <1>2, <1>4, <1>5, <1>6 DEF MakingRules
<1> QED BY <1>3, <1>7

\* When the lines are at their end, everything has been made.
LEMMA MadeAll ==
    ASSUME RulesRead, MakingRules, input = <<>>
    PROVE  PicksMade = AllPicks /\ Cardinality(AllPicks) = Len(made)
<1>1. Lines \in Seq(RuleLines) /\ LinesDone = Len(Lines)
  BY LinesOf DEF LinesDone
<1>2. PicksMade = AllPicks
  BY <1>1 DEF PicksMade, AllPicks
<1> QED BY <1>2 DEF MakingRules

\* while the file is read,
LEMMA KeptReading == ASSUME RulesKept, ReadLine \/ ReadError PROVE RulesInv'
<1>1. CASE ReadError
  BY <1>1 DEF ReadError, RulesInv, RulesKept, cfgVars
<1>2. CASE ReadLine
  <2>1. /\ stage = "read" /\ UNCHANGED <<stage, made, checked, applying>> /\ CfgNext
        /\ cfg_state = "reading"
    BY <1>2 DEF ReadLine, loopVars, rulesVars, CfgNext, CfgLine, CfgDone
  <2>2. Numbered /\ SectionsRead /\ made = <<>> /\ checked = 0 /\ applying = "ready"
    BY <2>1 DEF RulesKept, RulesInv
  <2>3. CASE CfgLine
    <3>1. cfg_state' # "done"
      BY <2>1, <2>3 DEF CfgLine
    <3>2. cfg_state' # "error" => SectionsRead'
      BY <2>2, <2>3, SectionsLine
    <3> QED BY <2>1, <2>2, <3>1, <3>2 DEF RulesInv
  <2>4. CASE CfgDone
    <3>1. number' = Len(cfg_file')
      BY <2>4 DEF CfgDone
    <3>2. SectionsRead'
      BY <2>2, <2>4 DEF CfgDone, SectionsRead
    <3> QED BY <2>1, <2>2, <3>1, <3>2 DEF RulesInv
  <2> QED BY <2>1, <2>3, <2>4 DEF CfgNext
<1> QED BY <1>1, <1>2

\* when rpp_init() has found the lines,
LEMMA KeptFound == ASSUME RulesKept, FindRules PROVE RulesInv'
<1>1. /\ stage = "read" /\ cfg_state = "done" /\ number = Len(cfg_file) /\ SectionsRead
      /\ made = <<>> /\ checked = 0 /\ applying = "ready" /\ Numbered /\ cfg_file \in CfgFiles
  BY DEF FindRules, RulesKept, RulesInv
<1>2. /\ UNCHANGED <<cfgVars, checked, made, applying, cfg_state, number, cfg_file>>
      /\ \/ stage' = "exit"
         \/ stage' = "check" /\ Lines # <<>> /\ RppInit(Lines)
  BY DEF FindRules, rulesVars, cfgVars, Lines
<1>3. CASE stage' = "exit"
  BY <1>1, <1>2, <1>3 DEF RulesInv
<1>4. CASE stage' = "check" /\ Lines # <<>> /\ RppInit(Lines)
  <2>1. RulesRead
    BY <1>1, <1>4 DEF RulesRead
  <2>2. RulesRead' /\ MakingRules'
    BY <1>1, <1>2, <1>4, <2>1, MakingStarts
  <2> QED BY <1>1, <1>2, <1>4, <2>2 DEF RulesInv, RulesRead
<1> QED BY <1>2, <1>3, <1>4

\* after each rule,
LEMMA KeptMaking == ASSUME RulesKept, CheckRule \/ NextRule PROVE RulesInv'
<1>1. /\ stage \in {"check", "words"} /\ UNCHANGED <<cfgVars, stage, checked>>
      /\ \E w, debug : MakeRule(w, debug)
  BY DEF CheckRule, NextRule
<1>2. /\ applying = "ready"
      /\ rules_errno' = "none" => rules_errno = "none" /\ applying' # "ready"
  <2>1. PICK w, debug : MakeRule(w, debug)
    BY <1>1
  <2>2. RejectError(CString(output')) # "none" => rules_errno' # "none"
    BY <2>1 DEF MakeRule
  <2>3. RejectError(CString(output')) = "none" =>
            rules_errno' = rules_errno /\ applying' = "loop"
    BY <2>1 DEF MakeRule, StartRule
  <2>4. applying = "ready"
    BY <2>1 DEF MakeRule
  <2> QED BY <2>2, <2>3, <2>4
<1>3. MakingRules' /\ RulesRead' /\ Len(made') = Len(made) + 1
  BY <1>1, MakeRuleKeeps
<1>4. /\ cfg_state = "done" /\ RulesRead /\ Len(made) \in Nat
      /\ stage = "check" /\ rules_errno = "none" => checked = Len(made)
      /\ stage = "words" => checked = Cardinality(AllPicks)
  <2>1. Len(made) \in Nat
    BY IsSeqLen DEF RulesKept, LineInv
  <2>2. cfg_state = "done" /\ RulesRead
    BY <1>1 DEF RulesKept, RulesInv, RulesRead
  <2> QED BY <1>1, <1>2, <2>1, <2>2 DEF RulesKept, RulesInv
<1>5. UNCHANGED <<cfg_file, number, cfg_database, cfg_state>> /\ AllPicks' = AllPicks
  BY <1>1 DEF cfgVars, AllPicks, Lines, GetList, GetSection
<1> QED BY <1>1, <1>2, <1>3, <1>4, <1>5 DEF RulesInv, RulesRead

\* and after every other step: rules_check() has counted every rule when the loop over
\* the words starts from the first again.
LEMMA KeptNext == RulesKept /\ [WordlistNext]_wordlistVars => RulesKept'
<1> SUFFICES ASSUME RulesKept, [WordlistNext]_wordlistVars PROVE RulesKept'
  OBVIOUS
<1>1. Numbered' /\ LineInv'
  BY NumberedNext, LineNext DEF RulesKept
<1>2. cfg_file' = cfg_file
  BY DEF WordlistNext, ReadLine, ReadError, FindRules, CheckRule, Checked, CheckEnds, NextRule,
         Applied, WordsEnd, Apply, wordlistVars, cfgVars, CfgNext, CfgLine, CfgDone
<1>3. CASE ReadLine \/ ReadError
  BY <1>1, <1>2, <1>3, KeptReading DEF RulesKept
<1>4. CASE FindRules
  BY <1>1, <1>2, <1>4, KeptFound DEF RulesKept
<1>5. CASE CheckRule \/ NextRule
  BY <1>1, <1>2, <1>5, KeptMaking DEF RulesKept
<1>6. CASE CheckEnds
  <2>1. /\ stage = "check" /\ applying = "ready" /\ input = <<>>
        /\ UNCHANGED <<cfgVars, checked, applying, cfg_state, number, cfg_file, cfg_database>>
        /\ \/ stage' = "exit"
           \/ /\ stage' = "words" /\ rules_errno = "none"
              /\ RppInit(Lines) /\ made' = <<>>
    BY <1>6 DEF CheckEnds, RppEnds, rulesVars, cfgVars, Lines
  <2>2. RulesRead /\ MakingRules /\ cfg_state = "done" /\ number = Len(cfg_file)
    BY <2>1 DEF RulesKept, RulesInv, RulesRead
  <2>3. CASE stage' = "exit"
    <3>1. RulesInv'
      BY <2>1, <2>2, <2>3 DEF RulesInv
    <3> QED BY <1>1, <1>2, <3>1 DEF RulesKept
  <2>4. CASE stage' = "words" /\ rules_errno = "none" /\ RppInit(Lines) /\ made' = <<>>
    <3>1. RulesRead' /\ MakingRules'
      BY <2>1, <2>2, <2>4, MakingStarts
    <3>2. Len(made) \in Nat
      BY IsSeqLen DEF RulesKept, LineInv
    <3>3. checked = Len(made) - 0
      BY <2>1, <2>4 DEF RulesKept, RulesInv
    <3>4. checked = Cardinality(AllPicks)
      BY <2>1, <2>2, <3>2, <3>3, MadeAll
    <3>5. AllPicks' = AllPicks
      BY <2>1 DEF AllPicks, Lines, GetList, GetSection
    <3>6. RulesInv'
      BY <2>1, <2>2, <2>4, <3>1, <3>4, <3>5 DEF RulesInv, RulesRead
    <3> QED BY <1>1, <1>2, <3>6 DEF RulesKept
  <2> QED BY <2>1, <2>3, <2>4
<1>7. CASE Checked \/ Applied \/ WordsEnd \/ Apply \/ UNCHANGED wordlistVars
  <2>1. /\ UNCHANGED <<cfgVars, rppVars, made>>
        /\ UNCHANGED <<cfg_file, number, cfg_database, cfg_state, input>>
    BY <1>7 DEF Checked, Applied, WordsEnd, Apply, wordlistVars, loopVars, cfgVars, rppVars
  <2>2. AllPicks' = AllPicks /\ (SectionsRead' <=> SectionsRead)
    BY <2>1 DEF AllPicks, Lines, GetList, GetSection, SectionsRead
  <2>3. stage \in {"check", "words", "done"} => RulesRead' /\ MakingRules'
    BY <2>1, MakingStays DEF RulesKept, RulesInv, RulesRead
  <2>4. Len(made) \in Nat
    BY IsSeqLen DEF RulesKept, LineInv
  <2>5. \/ /\ Checked /\ stage = "check" /\ applying # "ready" /\ rules_errno' = rules_errno
           /\ \/ stage' = "exit"
              \/ stage' = stage /\ applying' = "ready" /\ checked' = checked + 1
        \/ stage = "words" /\ stage' = "words" /\ checked' = checked
        \/ stage = "words" /\ stage' = "done" /\ checked' = checked /\ input = <<>>
        \/ /\ UNCHANGED <<stage, checked>> /\ applying = "loop" /\ applying' # "ready"
           /\ rules_errno' = "none" => rules_errno = "none"
        \/ UNCHANGED <<stage, checked, applying, rules_errno>>
    BY <1>7 DEF Checked, Applied, WordsEnd, RppEnds, Apply, wordlistVars, loopVars, rulesVars,
                ApplyCommand, ApplyEnds, ReturnNull, Becomes
  <2>6. RulesInv
    BY DEF RulesKept
  <2>7. RulesInv'
    BY <2>1, <2>2, <2>3, <2>4, <2>5, <2>6 DEF RulesInv, RulesRead
  <2> QED BY <1>1, <1>2, <2>7 DEF RulesKept
<1> QED BY <1>3, <1>4, <1>5, <1>6, <1>7 DEF WordlistNext

-----------------------------------------------------------------------------
(* Every rule once: the combinations of a line.                            *)

\* A range's place has its character, and no other range's.
LEMMA FilledAt ==
    ASSUME NEW data \in Seq(Char), NEW rs, rs = ProcessRule(data).ranges, NEW f,
           NEW k \in DOMAIN rs
    PROVE  /\ rs[k].pos \in DOMAIN ProcessRule(data).output
           /\ Filled(data, f)[rs[k].pos] = rs[k].chars[f[k]]
<1> DEFINE out == ProcessRule(data).output
           p == rs[k].pos
           RangesAt(q) == {j \in DOMAIN rs : rs[j].pos = q}
           One(q) == CHOOSE j \in RangesAt(q) : TRUE
<1>1. rs \in Seq(RangeTypes) /\ RangesPlaced(rs, Len(out)) /\ out \in Seq(Char \cup {NoChar})
  BY RangesOf
<1>2. /\ \A j \in DOMAIN rs : rs[j].pos \in Nat \ {0}
      /\ DOMAIN rs = 1..Len(rs) /\ Len(rs) \in Nat
  <2>1. \A j \in DOMAIN rs : rs[j] \in RangeTypes
    BY <1>1
  <2> QED BY <1>1, <2>1 DEF RangeTypes
<1>3. p \in DOMAIN out
  <2>1. p \in Nat \ {0} /\ p <= Len(out) /\ Len(out) \in Nat /\ DOMAIN out = 1..Len(out)
    BY <1>1, <1>2 DEF RangesPlaced
  <2> QED BY <2>1
<1>4. RangesAt(p) = {k}
  <2>1. ASSUME NEW j \in DOMAIN rs, rs[j].pos = p, j # k PROVE FALSE
    <3>1. j < k \/ k < j
      BY <1>2, <2>1
    <3>2. rs[j].pos < rs[k].pos \/ rs[k].pos < rs[j].pos
      BY <1>1, <2>1, <3>1 DEF RangesPlaced
    <3> QED BY <1>2, <2>1, <3>2
  <2> QED BY <2>1
<1>5. Filled(data, f) =
        [q \in DOMAIN out |-> IF RangesAt(q) = {} THEN out[q] ELSE rs[One(q)].chars[f[One(q)]]]
  BY DEF Filled
<1>6. One(p) = k
  BY <1>4
<1> HIDE DEF One, RangesAt, out, p
<1>7. Filled(data, f)[p] = rs[k].chars[f[k]]
  BY <1>3, <1>4, <1>5, <1>6
<1> QED BY <1>3, <1>7 DEF out, p

\* Unless a range is empty, its indices are those of its characters.
LEMMA PickChars ==
    ASSUME NEW data \in Seq(Char), ~EmptyRange(data), NEW rs, rs = ProcessRule(data).ranges,
           NEW f
    PROVE  /\ DOMAIN rs = 1..Len(rs) /\ \A k \in DOMAIN rs : IsInjective(rs[k].chars)
           /\ \A k \in DOMAIN rs : rs[k].chars \in Seq(Char)
           /\ f \in Picks(data) <=> /\ f \in [DOMAIN rs -> Nat]
                                    /\ \A k \in DOMAIN rs : f[k] \in DOMAIN rs[k].chars
<1>1. rs \in Seq(RangeTypes) /\ \A k \in DOMAIN rs : IsInjective(rs[k].chars)
  BY RangesOf DEF RangesPlaced
<1>2. DOMAIN rs = 1..Len(rs) /\ \A k \in DOMAIN rs : rs[k].chars \in Seq(Char)
  <2>1. \A k \in DOMAIN rs : rs[k] \in RangeTypes
    BY <1>1
  <2> QED BY <1>1, <2>1 DEF RangeTypes
<1>3. \A k \in DOMAIN rs : DOMAIN rs[k].chars = 1..Top(rs[k])
  <2>1. \A k \in DOMAIN rs : rs[k].chars # <<>>
    BY DEF EmptyRange
  <2> QED BY <1>2, <2>1 DEF Top
<1>4. f \in Picks(data) <=> /\ f \in [1..Len(rs) -> Nat]
                           /\ \A k \in 1..Len(rs) : f[k] \in 1..Top(rs[k])
  BY PickType
<1>5. f \in Picks(data) <=> /\ f \in [DOMAIN rs -> Nat]
                           /\ \A k \in DOMAIN rs : f[k] \in DOMAIN rs[k].chars
  BY <1>2, <1>3, <1>4
<1> QED BY <1>1, <1>2, <1>5

\* Different indices make different rules.
LEMMA FilledApart ==
    ASSUME NEW data \in Seq(Char), ~EmptyRange(data), NEW f \in Picks(data), NEW g \in Picks(data),
           Filled(data, f) = Filled(data, g)
    PROVE  f = g
<1> DEFINE rs == ProcessRule(data).ranges
<1>1. /\ \A k \in DOMAIN rs : IsInjective(rs[k].chars)
      /\ f \in [DOMAIN rs -> Nat] /\ \A k \in DOMAIN rs : f[k] \in DOMAIN rs[k].chars
      /\ g \in [DOMAIN rs -> Nat] /\ \A k \in DOMAIN rs : g[k] \in DOMAIN rs[k].chars
  BY PickChars
<1>2. \A k \in DOMAIN rs : rs[k].chars[f[k]] = rs[k].chars[g[k]]
  <2> SUFFICES ASSUME NEW k \in DOMAIN rs PROVE rs[k].chars[f[k]] = rs[k].chars[g[k]]
    OBVIOUS
  <2>1. Filled(data, f)[rs[k].pos] = rs[k].chars[f[k]]
    BY FilledAt
  <2>2. Filled(data, g)[rs[k].pos] = rs[k].chars[g[k]]
    BY FilledAt
  <2> QED BY <2>1, <2>2
<1> HIDE DEF rs
<1>3. \A k \in DOMAIN rs : f[k] = g[k]
  BY <1>1, <1>2 DEF IsInjective
<1> QED BY <1>1, <1>3

\* The characters that a combination takes for the ranges, and what it makes of them.
CharPicks(data) ==
    LET rs == ProcessRule(data).ranges
    IN  {f \in [DOMAIN rs -> Char] : \A k \in DOMAIN f : f[k] \in Range(rs[k].chars)}
Combined(data, f) ==
    LET s == ProcessRule(data)
        RangesAt(p) == {k \in DOMAIN s.ranges : s.ranges[k].pos = p}
    IN  [p \in DOMAIN s.output |->
            IF RangesAt(p) = {} THEN s.output[p] ELSE f[CHOOSE k \in RangesAt(p) : TRUE]]

\* A combination is what the indices of its characters fill the line with.
LEMMA CombinedFilled ==
    ASSUME NEW data, NEW f, NEW g,
           \A k \in DOMAIN ProcessRule(data).ranges :
                f[k] = ProcessRule(data).ranges[k].chars[g[k]]
    PROVE  Combined(data, f) = Filled(data, g)
<1> DEFINE out == ProcessRule(data).output
           rs == ProcessRule(data).ranges
           RangesAt(p) == {k \in DOMAIN rs : rs[k].pos = p}
           One(p) == CHOOSE k \in RangesAt(p) : TRUE
<1>1. Combined(data, f) = [p \in DOMAIN out |-> IF RangesAt(p) = {} THEN out[p] ELSE f[One(p)]]
  BY DEF Combined
<1>2. Filled(data, g) =
        [p \in DOMAIN out |-> IF RangesAt(p) = {} THEN out[p] ELSE rs[One(p)].chars[g[One(p)]]]
  BY DEF Filled
<1>3. \A p : RangesAt(p) # {} => One(p) \in DOMAIN rs
  OBVIOUS
<1>4. \A k \in DOMAIN rs : f[k] = rs[k].chars[g[k]]
  OBVIOUS
<1> HIDE DEF One, RangesAt, out, rs
<1> QED BY <1>1, <1>2, <1>3, <1>4

\* The combinations of a line are what it is filled with.
LEMMA CombinationsOf ==
    ASSUME NEW data \in Seq(Char), ~EmptyRange(data)
    PROVE  Combinations(data) = {Filled(data, g) : g \in Picks(data)}
<1> DEFINE rs == ProcessRule(data).ranges
<1>1. Combinations(data) = {Combined(data, f) : f \in CharPicks(data)}
  BY DEF Combinations, Combined, CharPicks
<1>2. \A g : g \in Picks(data) <=> /\ g \in [DOMAIN rs -> Nat]
                                   /\ \A k \in DOMAIN rs : g[k] \in DOMAIN rs[k].chars
  BY PickChars
<1>3. \A k \in DOMAIN rs : rs[k].chars \in Seq(Char)
  BY PickChars
<1>4. \A f : f \in CharPicks(data) <=> /\ f \in [DOMAIN rs -> Char]
                                       /\ \A k \in DOMAIN rs : f[k] \in Range(rs[k].chars)
  BY DEF CharPicks
<1>5. \A k \in DOMAIN rs : \A c : c \in Range(rs[k].chars) <=>
            \E j \in DOMAIN rs[k].chars : rs[k].chars[j] = c
  BY DEF Range
<1>6. ASSUME NEW f \in CharPicks(data) PROVE \E g \in Picks(data) : Combined(data, f) = Filled(data, g)
  <2> DEFINE Index(k) == CHOOSE j \in DOMAIN rs[k].chars : rs[k].chars[j] = f[k]
             g == [k \in DOMAIN rs |-> Index(k)]
  <2>1. \A k \in DOMAIN rs : Index(k) \in DOMAIN rs[k].chars /\ rs[k].chars[Index(k)] = f[k]
    BY <1>4, <1>5
  <2>2. \A k \in DOMAIN rs : Index(k) \in Nat
    <3>1. \A k \in DOMAIN rs : DOMAIN rs[k].chars \subseteq Nat
      BY <1>3
    <3> QED BY <2>1, <3>1
  <2> HIDE DEF Index
  <2>3. g \in Picks(data)
    BY <1>2, <2>1, <2>2
  <2>4. \A k \in DOMAIN rs : f[k] = rs[k].chars[g[k]]
    BY <2>1
  <2> HIDE DEF g
  <2>5. Combined(data, f) = Filled(data, g)
    BY <2>4, CombinedFilled
  <2> QED BY <2>3, <2>5
<1>7. ASSUME NEW g \in Picks(data) PROVE \E f \in CharPicks(data) : Combined(data, f) = Filled(data, g)
  <2> DEFINE f == [k \in DOMAIN rs |-> rs[k].chars[g[k]]]
  <2>1. \A k \in DOMAIN rs : f[k] \in Range(rs[k].chars)
    BY <1>2, <1>5
  <2>2. \A k \in DOMAIN rs : f[k] \in Char
    BY <1>2, <1>3
  <2>3. f \in CharPicks(data)
    BY <1>4, <2>1, <2>2
  <2>4. \A k \in DOMAIN rs : f[k] = rs[k].chars[g[k]]
    OBVIOUS
  <2> HIDE DEF f
  <2>5. Combined(data, f) = Filled(data, g)
    BY <2>4, CombinedFilled
  <2> QED BY <2>3, <2>5
<1> QED BY <1>1, <1>6, <1>7

\* Everything that is to be made: the lines of the section, with all their indices.
LEMMA AllPicksOf ==
    ASSUME RulesRead, NEW k, NEW f
    PROVE  <<k, f>> \in AllPicks <=>
            k \in DOMAIN cfg_file /\ IsRuleLine(k) /\ f \in Picks(cfg_file[k].rule)
<1>1. <<k, f>> \in AllPicks <=> \E q \in 1..Len(Lines) : <<k, f>> \in PicksOf(Lines[q])
  BY DEF AllPicks, PicksOfFirst
<1>2. \A q : <<k, f>> \in PicksOf(Lines[q]) <=> k = Lines[q].number /\ f \in Picks(Lines[q].data)
  BY DEF PicksOf
<1>3. /\ DOMAIN Lines = 1..Len(Lines)
      /\ {Lines[q].number : q \in DOMAIN Lines} = {j \in DOMAIN cfg_file : IsRuleLine(j)}
      /\ \A q \in DOMAIN Lines : Lines[q].data = cfg_file[Lines[q].number].rule
  BY LinesOf
<1>4. k \in {Lines[q].number : q \in DOMAIN Lines} <=> k \in {j \in DOMAIN cfg_file : IsRuleLine(j)}
  BY <1>3
<1> HIDE DEF Lines
<1> QED BY <1>1, <1>2, <1>3, <1>4

\* When the rules are at their end, everything that is to be made has been made, once.
LEMMA OnceAtEnd == RulesKept => EachRuleOnce
<1> SUFFICES ASSUME RulesKept, stage = "done" PROVE EachRuleOnce
  BY DEF EachRuleOnce
<1> DEFINE data(k) == cfg_file[k].rule
<1>1. RulesRead /\ MakingRules /\ input = <<>> /\ checked = Cardinality(AllPicks)
  BY DEF RulesKept, RulesInv, RulesRead
<1>2. PicksMade = AllPicks /\ checked = Len(made)
  BY <1>1, MadeAll
<1>3. \A k, f : <<k, f>> \in AllPicks <=> k \in DOMAIN cfg_file /\ IsRuleLine(k) /\ f \in Picks(data(k))
  BY <1>1, AllPicksOf
<1>4. \A k, f : <<k, f>> \in AllPicks <=> \E a \in DOMAIN made : made[a].number = k /\ made[a].pick = f
  BY <1>1, <1>2 DEF MakingRules
<1>5. /\ \A a, b \in DOMAIN made : a < b =>
            /\ made[a].number <= made[b].number
            /\ made[a].number = made[b].number => made[a].pick # made[b].pick
      /\ \A a \in DOMAIN made :
            ~EmptyRange(data(made[a].number)) =>
                made[a].rule = Filled(data(made[a].number), made[a].pick)
  BY <1>1 DEF MakingRules
<1>6. DOMAIN made = 1..Len(made) /\ Len(made) \in Nat
  BY IsSeqLen DEF RulesKept, LineInv
<1>7. \A k \in DOMAIN cfg_file : data(k) \in Seq(Char)
  BY RulesAssumption DEF RulesKept
<1>8. \A a \in DOMAIN made :
        /\ made[a].number \in DOMAIN cfg_file /\ IsRuleLine(made[a].number)
        /\ made[a].pick \in Picks(data(made[a].number))
  BY <1>3, <1>4
<1>9. ASSUME NEW a \in DOMAIN made, NEW b \in DOMAIN made, made[a].number = made[b].number,
             made[a].rule = made[b].rule, ~EmptyRange(data(made[a].number))
      PROVE  a = b
  <2>1. Filled(data(made[a].number), made[a].pick) = Filled(data(made[a].number), made[b].pick)
    BY <1>5, <1>9
  <2>2. made[a].pick = made[b].pick
    BY <1>7, <1>8, <1>9, <2>1, FilledApart
  <2> QED BY <1>5, <1>6, <1>9, <2>2
<1>10. {m.number : m \in Range(made)} = {k \in DOMAIN cfg_file : IsRuleLine(k)}
  <2>1. \A k : k \in {m.number : m \in Range(made)} <=> \E a \in DOMAIN made : made[a].number = k
    BY DEF Range
  <2>2. ASSUME NEW k \in DOMAIN cfg_file, IsRuleLine(k) PROVE \E a \in DOMAIN made : made[a].number = k
    <3>1. PICK f : f \in Picks(data(k))
      BY <1>7, FirstIndices
    <3> QED BY <1>3, <1>4, <2>2, <3>1
  <2> HIDE DEF data
  <2> QED BY <1>8, <2>1, <2>2
<1>11. ASSUME NEW k \in DOMAIN cfg_file, IsRuleLine(k), ~EmptyRange(data(k))
       PROVE  {m.rule : m \in {x \in Range(made) : x.number = k}} = Combinations(data(k))
  <2>1. \A w : w \in {m.rule : m \in {x \in Range(made) : x.number = k}} <=>
                \E a \in DOMAIN made : made[a].number = k /\ made[a].rule = w
    BY DEF Range
  <2>2. Combinations(data(k)) = {Filled(data(k), f) : f \in Picks(data(k))}
    BY <1>7, <1>11, CombinationsOf
  <2>3. \A w : (\E a \in DOMAIN made : made[a].number = k /\ made[a].rule = w) <=>
                \E f \in Picks(data(k)) : w = Filled(data(k), f)
    <3>1. ASSUME NEW a \in DOMAIN made, made[a].number = k
          PROVE  made[a].rule = Filled(data(k), made[a].pick) /\ made[a].pick \in Picks(data(k))
      BY <1>5, <1>8, <1>11, <3>1
    <3>2. ASSUME NEW f \in Picks(data(k))
          PROVE  \E a \in DOMAIN made : made[a].number = k /\ made[a].pick = f
      BY <1>3, <1>4, <1>11
    <3> HIDE DEF data
    <3> QED BY <3>1, <3>2
  <2> HIDE DEF data
  <2> QED BY <2>1, <2>2, <2>3
<1>12. \A a, b \in DOMAIN made : a < b => made[a].number <= made[b].number
  BY <1>5
<1> QED BY <1>2, <1>9, <1>10, <1>11, <1>12 DEF EachRuleOnce

\* Every line of the section, and no other one, is made into rules, in the order of the
\* file, each combination of the characters of its ranges once; the check counts them all.
THEOREM RulesCorrect == WordlistSpec => []EachRuleOnce
BY KeptInit, KeptNext, OnceAtEnd, PTL DEF WordlistSpec

-----------------------------------------------------------------------------
(* The objects: what break_jphide_prepare() collects.                      *)

\* What a walk has collected after k turns, for the induction over its turns.
CollectedSoFar(given, s, k) ==
    /\ s = Collected(given.wib, given.hib, k)
    /\ s.wib = given.wib /\ s.hib = given.hib /\ DOMAIN s.coeff = 1..NCoeff
    /\ \A j \in 1..k :
        LET c == Collected(given.wib, given.hib, j).c
        IN  ~c.ended => s.coeff[j] = Place(c)

Walk == INSTANCE FoldFacts WITH Op <- TakeCoeff, P <- CollectedSoFar

\* The instance has a fold of its own, which is the same.
LEMMA WalkFold ==
    ASSUME NEW base, NEW s
    PROVE  FoldLeft(TakeCoeff, base, s) = Walk!Fold(base, s)
BY DEF FoldLeft, Walk!Fold, MapThenFoldSet, Max, Walk!Greatest

\* A turn more.
LEMMA CollectedNext ==
    ASSUME NEW wib_, NEW hib_, NEW k \in Nat
    PROVE  Collected(wib_, hib_, k + 1) = TakeCoeff(Collected(wib_, hib_, k), k + 1)
<1> DEFINE base == [wib |-> wib_, hib |-> hib_, c |-> StartCursor, coeff |-> [j \in 1..NCoeff |-> Unset]]
           s == [j \in 1..k |-> j]
           t == [j \in 1..(k + 1) |-> j]
<1>1. s \in Seq(Nat) /\ k + 1 \in Nat
  OBVIOUS
<1>2. t = Append(s, k + 1)
  OBVIOUS
<1> HIDE DEF s, t, base
<1>3. Walk!Fold(base, Append(s, k + 1))
        = TakeCoeff(Walk!Fold(base, s), k + 1)
  BY <1>1, Walk!FoldOne
<1>4. FoldLeft(TakeCoeff, base, Append(s, k + 1)) = TakeCoeff(FoldLeft(TakeCoeff, base, s), k + 1)
  BY <1>3, WalkFold
<1> QED BY <1>2, <1>4 DEF Collected, base, s, t

LEMMA CollectedNone ==
    ASSUME NEW wib_, NEW hib_
    PROVE  Collected(wib_, hib_, 0) = [wib |-> wib_, hib |-> hib_, c |-> StartCursor,
                                       coeff |-> [j \in 1..NCoeff |-> Unset]]
<1>1. [j \in 1..0 |-> j] = <<>>
  OBVIOUS
<1> QED BY <1>1, Walk!FoldNone, WalkFold DEF Collected

\* The object's widths and heights do not change.
LEMMA CollectedWalks ==
    ASSUME NEW wib_, NEW hib_, NEW k \in Nat
    PROVE  Collected(wib_, hib_, k).wib = wib_ /\ Collected(wib_, hib_, k).hib = hib_
<1> DEFINE Others == {m \in Nat : ~(/\ Collected(wib_, hib_, m).wib = wib_
                                   /\ Collected(wib_, hib_, m).hib = hib_)}
<1>1. SUFFICES ASSUME Others # {} PROVE FALSE
  OBVIOUS
<1>2. PICK m \in Others : \A j \in Others : m <= j
  BY <1>1, LeastNumber
<1>3. CASE m = 0
  BY <1>2, <1>3, CollectedNone
<1>4. CASE m # 0
  <2>1. m - 1 \in Nat /\ m - 1 \notin Others /\ (m - 1) + 1 = m
    BY <1>2, <1>4
  <2>2. Collected(wib_, hib_, m) = TakeCoeff(Collected(wib_, hib_, m - 1), m)
    BY <2>1, CollectedNext
  <2> DEFINE s == Collected(wib_, hib_, m - 1)
  <2>3. s.wib = wib_ /\ s.hib = hib_
    BY <2>1
  <2> HIDE DEF s
  <2>4. TakeCoeff(s, m).wib = wib_ /\ TakeCoeff(s, m).hib = hib_
    BY <2>3 DEF TakeCoeff
  <2> QED BY <1>2, <2>2, <2>4 DEF s
<1> QED BY <1>3, <1>4

\* coeff[] has the coefficients of a walk in their order.
LEMMA CollectedInOrder ==
    ASSUME NEW wib_, NEW hib_, NEW k \in 1..NCoeff, ~Collected(wib_, hib_, k).c.ended
    PROVE  Collected(wib_, hib_, NCoeff).coeff[k] = Place(Collected(wib_, hib_, k).c)
<1> DEFINE given == [wib |-> wib_, hib |-> hib_]
           base  == [wib |-> wib_, hib |-> hib_, c |-> StartCursor, coeff |-> [j \in 1..NCoeff |-> Unset]]
           s     == [j \in 1..NCoeff |-> j]
<1>1. NCoeff \in Nat
  BY JphideAssumption
<1>2. s \in Seq(Nat) /\ Len(s) = NCoeff /\ \A j \in 1..NCoeff : s[j] = j
  BY <1>1
<1>3. CollectedSoFar(given, base, 0)
  BY CollectedNone DEF CollectedSoFar
<1> HIDE DEF s
<1>4. ASSUME NEW m \in 1..NCoeff, NEW v, CollectedSoFar(given, v, m - 1)
      PROVE  CollectedSoFar(given, TakeCoeff(v, m), m)
  <2> DEFINE w == TakeCoeff(v, m)
             c == Advance(v.c, v.wib, v.hib)
  <2>1. m - 1 \in Nat /\ (m - 1) + 1 = m
    BY <1>1
  <2>2. w = Collected(wib_, hib_, m)
    BY <1>4, <2>1, CollectedNext DEF CollectedSoFar
  <2>3. w.wib = wib_ /\ w.hib = hib_ /\ DOMAIN w.coeff = 1..NCoeff
    BY <1>4 DEF TakeCoeff, CollectedSoFar
  <2>4. \A j \in 1..(m - 1) : w.coeff[j] = v.coeff[j]
    BY <1>4 DEF TakeCoeff, CollectedSoFar
  <2>5. ~w.c.ended => w.coeff[m] = Place(w.c)
    <3>1. CASE v.c.ended
      BY <3>1 DEF TakeCoeff
    <3>2. CASE ~v.c.ended /\ ~c.ended
      <4>1. w = [v EXCEPT !.c = c, !.coeff = [@ EXCEPT ![m] = Place(c)]]
        BY <3>2 DEF TakeCoeff
      <4>2. m \in DOMAIN v.coeff
        BY <1>4 DEF CollectedSoFar
      <4> HIDE DEF c, w
      <4>4. w.c = c /\ w.coeff[m] = Place(c)
        BY <4>1, <4>2
      <4> QED BY <4>4
    <3>3. CASE ~v.c.ended /\ c.ended
      <4>1. w = [v EXCEPT !.c = c]
        BY <3>3 DEF TakeCoeff
      <4>2. w.c = c
        BY <4>1
      <4> QED BY <3>3, <4>2
    <3> QED BY <3>1, <3>2, <3>3
  <2> QED
    BY <1>4, <2>1, <2>2, <2>3, <2>4, <2>5 DEF CollectedSoFar
<1>5. CollectedSoFar(given, FoldLeft(TakeCoeff, base, s), Len(s))
  <2> HIDE DEF base, given
  <2> QED BY <1>2, <1>3, <1>4, Walk!FoldKeeps, WalkFold
<1>6. CollectedSoFar(given, Collected(wib_, hib_, NCoeff), NCoeff)
  BY <1>2, <1>5 DEF Collected, s
<1> QED BY <1>6 DEF CollectedSoFar

-----------------------------------------------------------------------------
(* The numbers of a jsteg message.                                         *)

IsNumber(given, number_, k) == number_ \in Nat
Bits == INSTANCE FoldFacts WITH Op <- Shifted, P <- IsNumber

LEMMA BitsFold ==
    ASSUME NEW base, NEW s
    PROVE  FoldLeft(Shifted, base, s) = Bits!Fold(base, s)
BY DEF FoldLeft, Bits!Fold, MapThenFoldSet, Max, Bits!Greatest

LEMMA NumberType == ASSUME NEW bits \in Seq({0, 1}) PROVE Number(bits) \in Nat
<1>1. IsNumber(0, 0, 0)
  BY DEF IsNumber
<1>2. \A k \in 1..Len(bits) : \A v : IsNumber(0, v, k - 1) => IsNumber(0, Shifted(v, bits[k]), k)
  BY DEF IsNumber, Shifted
<1>3. IsNumber(0, FoldLeft(Shifted, 0, bits), Len(bits))
  BY <1>1, <1>2, Bits!FoldKeeps, BitsFold
<1> QED BY <1>3 DEF IsNumber, Number

\* The length of a message and the place after it are natural numbers.
LEMMA SizeType ==
    ASSUME NEW bits \in Seq({0, 1})
    PROVE  JstegSize(bits).bytes \in Nat /\ JstegSize(bits).off \in Nat \ {0}
<1> DEFINE width == Number(SubSeq(bits, 1, Min({WidthBits, Len(bits)})))
           last  == WidthBits + Max({width, 1})
<1>1. WidthBits \in Nat \ {0} /\ Len(bits) \in Nat
  BY JstegAssumption
<1>2. \A a \in Nat, b \in Nat : Min({a, b}) \in {a, b} /\ Min({a, b}) <= a /\ Min({a, b}) <= b
  <2> TAKE a \in Nat, b \in Nat
  <2>1. \E m \in {a, b} : \A k \in {a, b} : m <= k
    <3>1. CASE a <= b
      BY <3>1
    <3>2. CASE b <= a
      BY <3>2
    <3> QED BY <3>1, <3>2
  <2>2. Min({a, b}) \in {a, b} /\ \A k \in {a, b} : Min({a, b}) <= k
    BY <2>1 DEF Min
  <2> QED BY <2>2
<1>3. \A a \in Nat, b \in Nat : Max({a, b}) \in {a, b}
  BY DEF Max
<1>4. \A j \in Nat \ {0}, k \in Nat : k <= Len(bits) => SubSeq(bits, j, k) \in Seq({0, 1})
  OBVIOUS
<1>5. width \in Nat
  <2> DEFINE m == Min({WidthBits, Len(bits)})
  <2>1. m \in Nat /\ m <= Len(bits)
    BY <1>1, <1>2
  <2> HIDE DEF m
  <2>2. SubSeq(bits, 1, m) \in Seq({0, 1})
    BY <1>4, <2>1
  <2> QED BY <2>2, NumberType DEF m
<1> HIDE DEF width
<1>6. last \in Nat \ {0}
  BY <1>1, <1>3, <1>5
<1> HIDE DEF last
<1>7. Number(SubSeq(bits, WidthBits + 1, Min({last, Len(bits)}))) \in Nat
  <2> DEFINE m == Min({last, Len(bits)})
  <2>1. m \in Nat /\ m <= Len(bits)
    BY <1>1, <1>2, <1>6
  <2> HIDE DEF m
  <2>2. SubSeq(bits, WidthBits + 1, m) \in Seq({0, 1})
    BY <1>1, <1>4, <2>1
  <2> QED BY <2>2, NumberType DEF m
<1>8. JstegSize(bits) = [bytes |-> Number(SubSeq(bits, WidthBits + 1, Min({last, Len(bits)}))),
                         off   |-> IF Len(bits) >= last THEN last ELSE Len(bits) + 1]
  BY DEF JstegSize, last, width
<1> QED BY <1>1, <1>6, <1>7, <1>8

\* An int holds a number that is less than half of its values.
LEMMA ToIntFits ==
    ASSUME NEW m \in Nat, m < IntRange \div 2
    PROVE  ToInt(m) = m
<1>1. IntRange \in Nat /\ 2 * (IntRange \div 2) <= IntRange /\ IntRange > 0
  BY JstegAssumption
<1>2. IntRange \div 2 \in Nat
  BY <1>1
<1>3. m % IntRange = m /\ 2 * m < IntRange
  BY <1>1, <1>2
<1> QED BY <1>3 DEF ToInt

\* break_jsteg_prepare(): the object's bytes are the message's last ones and first ones.
LEMMA JstegIsAligned ==
    ASSUME NEW image, image.dcts \in Seq({0, 1}),
           NEW obj, obj = PrepareJsteg(image.dcts), obj # NoObject
    PROVE  /\ JstegAligned(obj, image)
           /\ JstegAligned([obj EXCEPT !.header = [k \in DOMAIN @ |-> NoBit]], image)
<1> DEFINE bits   == Len(image.dcts)
           bytes  == JstegSize(image.dcts).bytes
           off    == JstegSize(image.dcts).off
           max    == JSTEGBYTES * ByteBits
           jsbits == ToInt(bytes * ByteBits)
<1>1. /\ bits \in Nat /\ bytes \in Nat /\ off \in Nat \ {0}
      /\ JSTEGBYTES \in Nat \ {0} /\ ByteBits \in Nat \ {0} /\ JSTEGHEADER \in Nat \ {0}
  BY SizeType, JstegAssumption
<1>2. /\ ~(jsbits < max \/ off + jsbits > bits)
      /\ obj = [skip   |-> bytes - JSTEGBYTES,
                coeff  |-> [j \in 1..max |-> off + jsbits - max + j],
                header |-> [j \in 1..JSTEGHEADER * ByteBits |->
                              IF j <= jsbits THEN off + j ELSE NoBit]]
  BY DEF PrepareJsteg
<1>3. DOMAIN image.dcts = 1..bits
  OBVIOUS
<1> HIDE DEF bits, bytes, off, max, jsbits
<1> DEFINE job_ == [obj EXCEPT !.header = [k \in DOMAIN @ |-> NoBit]]
<1>4. /\ job_.skip = obj.skip /\ job_.coeff = obj.coeff
      /\ \A k \in DOMAIN job_.header : job_.header[k] = NoBit
  BY <1>2
<1> HIDE DEF job_
<1>5. SUFFICES ASSUME bytes * ByteBits < IntRange \div 2
      PROVE  /\ \A k \in 0..JSTEGBYTES - 1, b \in 1..ByteBits :
                    /\ obj.coeff[ByteBits * k + b] = off + (ByteBits * (obj.skip + k) + b)
                    /\ obj.coeff[ByteBits * k + b] \in 1..bits
             /\ obj.skip + JSTEGBYTES = bytes
             /\ \A k \in DOMAIN obj.header : obj.header[k] # NoBit =>
                    obj.header[k] = off + k /\ off + k \in 1..bits
  <2>1. JstegSize(image.dcts).bytes = bytes /\ JstegSize(image.dcts).off = off
    BY DEF bytes, off
  <2> QED BY <1>3, <1>4, <2>1 DEF JstegAligned, KeyByteOf
<1>6. jsbits = bytes * ByteBits /\ jsbits \in Nat /\ max \in Nat
  <2>1. bytes * ByteBits \in Nat /\ JSTEGBYTES * ByteBits \in Nat
    BY <1>1
  <2> QED BY <1>5, <2>1, ToIntFits DEF jsbits, max
<1>7. obj.skip = bytes - JSTEGBYTES /\ obj.skip + JSTEGBYTES = bytes
  BY <1>1, <1>2
<1>8. ASSUME NEW k \in 0..JSTEGBYTES - 1, NEW b \in 1..ByteBits
      PROVE  /\ obj.coeff[ByteBits * k + b] = off + (ByteBits * (obj.skip + k) + b)
             /\ obj.coeff[ByteBits * k + b] \in 1..bits
  <2> DEFINE j == ByteBits * k + b
  <2>1. j \in 1..max
    <3>1. ByteBits * k \in Nat /\ ByteBits * k <= ByteBits * (JSTEGBYTES - 1)
      <4>1. JSTEGBYTES - 1 - k \in Nat
        BY <1>1
      <4>2. ByteBits * (JSTEGBYTES - 1 - k) \in Nat /\ ByteBits * k \in Nat
        BY <1>1, <4>1
      <4>3. ByteBits * (JSTEGBYTES - 1) = ByteBits * k + ByteBits * (JSTEGBYTES - 1 - k)
        BY <1>1
      <4> QED BY <4>2, <4>3
    <3>2. ByteBits * (JSTEGBYTES - 1) + ByteBits = max
      BY <1>1 DEF max
    <3> QED BY <1>1, <1>6, <3>1, <3>2
  <2>2. ByteBits * (obj.skip + k) + b = jsbits - max + j
    <3>1. ByteBits * (bytes - JSTEGBYTES + k) = bytes * ByteBits - JSTEGBYTES * ByteBits + ByteBits * k
      BY <1>1
    <3>2. ByteBits * k \in Int /\ bytes * ByteBits \in Int /\ JSTEGBYTES * ByteBits \in Int
      BY <1>1
    <3> QED BY <1>1, <1>6, <1>7, <3>1, <3>2 DEF max
  <2> HIDE DEF j
  <2>3. obj.coeff[j] = off + jsbits - max + j
    BY <1>2, <2>1
  <2> QED BY <1>1, <1>2, <1>6, <2>1, <2>2, <2>3 DEF j
<1>9. ASSUME NEW k \in DOMAIN obj.header, obj.header[k] # NoBit
      PROVE  obj.header[k] = off + k /\ off + k \in 1..bits
  <2>1. k \in 1..(JSTEGHEADER * ByteBits) /\ obj.header[k] = IF k <= jsbits THEN off + k ELSE NoBit
    BY <1>2
  <2>2. k <= jsbits /\ obj.header[k] = off + k /\ k \in Nat
    BY <1>9, <2>1
  <2> QED BY <1>1, <1>2, <1>6, <2>1, <2>2
<1> QED BY <1>7, <1>8, <1>9

-----------------------------------------------------------------------------
(* What is loaded, and the walk over it.                                   *)

LEMMA HandlerNames ==
    /\ Range(Handlers) = {".jph", ".og", ".jsg"} /\ Len(Handlers) = 3
    /\ \A k \in 1..3 : Handlers[k] \in Range(Handlers)
    /\ Range(Handlers) \cap JpgNames = {}
<1>1. DOMAIN Handlers = 1..3 /\ Len(Handlers) = 3
  BY DEF Handlers
<1>2. Handlers[1] = ".jph" /\ Handlers[2] = ".og" /\ Handlers[3] = ".jsg"
  BY DEF Handlers
<1>3. \A k \in 1..3 : k = 1 \/ k = 2 \/ k = 3
  OBVIOUS
<1>4. Range(Handlers) = {".jph", ".og", ".jsg"}
  <2>1. Range(Handlers) = {Handlers[k] : k \in 1..3}
    BY <1>1 DEF Range
  <2>2. {Handlers[k] : k \in 1..3} = {Handlers[1], Handlers[2], Handlers[3]}
    BY <1>3
  <2> QED BY <1>2, <2>1, <2>2
<1>5. \A k \in 1..3 : Handlers[k] \in Range(Handlers)
  BY <1>1 DEF Range
<1> QED BY <1>1, <1>4, <1>5 DEF JpgNames

\* Files that are not images do not count for the images that there are.
LEMMA SameImages ==
    ASSUME NEW fs, NEW gs, \A h \in Bases \X JpgNames : gs[h] = fs[h], NEW f
    PROVE  ImagesIn(gs, f) = ImagesIn(fs, f)
<1> DEFINE H(files_) == {h \in Bases \X JpgNames :
                            /\ h[1] = f[1] /\ files_[h].kind = "image"
                            /\ f[2] \in JpgNames => h = f}
<1>1. H(gs) = H(fs)
  OBVIOUS
<1>2. \A h \in H(fs) : gs[h].image = fs[h].image
  OBVIOUS
<1>3. {gs[h].image : h \in H(gs)} = {fs[h].image : h \in H(fs)}
  <2>1. H(fs) \subseteq Bases \X JpgNames
    OBVIOUS
  <2> HIDE DEF H
  <2> QED BY <1>1, <1>2
<1> QED BY <1>3 DEF ImagesIn

\* An image is one of those of its name, and of the objects made of it.
LEMMA OneOfImages ==
    ASSUME NEW fs, NEW h \in Bases \X JpgNames, NEW image, fs[h] = Image(image),
           NEW f, f = h \/ (f[1] = h[1] /\ f[2] \notin JpgNames)
    PROVE  image \in ImagesIn(fs, f)
<1>1. fs[h].kind = "image" /\ fs[h].image = image
  BY DEF Image
<1> QED BY <1>1 DEF ImagesIn

LEMMA ImagesTyped ==
    ASSUME FilesKept, NEW f, NEW image \in ImagesOf(f)
    PROVE  image \in Images
<1>1. PICK h \in Bases \X JpgNames : files[h].kind = "image" /\ image = files[h].image
  BY DEF ImagesOf, ImagesIn
<1>2. h \in Names /\ h[2] \in JpgNames
  BY DEF Names
<1>3. files[h] = NoFile \/ \E other \in Images : files[h] = Image(other)
  BY <1>2 DEF FilesKept
<1>4. files[h] # NoFile
  BY <1>1 DEF NoFile
<1>5. PICK other \in Images : files[h] = Image(other)
  BY <1>3, <1>4
<1>6. files[h].image = other
  BY <1>5 DEF Image
<1> QED BY <1>1, <1>6

\* 16 bits are enough for the widths and heights of an image that fits.
LEMMA FitsThroughFile ==
    ASSUME NEW image \in Images, Fits(image)
    PROVE  ThroughFile(PrepareJphide(image)) = PrepareJphide(image)
<1> DEFINE object == PrepareJphide(image)
<1>1. /\ image.wib \in [Component -> Nat \ {0}] /\ image.hib \in [Component -> Nat \ {0}]
      /\ DCTSIZE2 \in Nat \ {0} /\ ShortRange \in Nat \ {0}
  BY ObjectsAssumption, JphideAssumption
<1>2. /\ object.wib = [c \in Component |-> DCTSIZE2 * image.wib[c] - 1]
      /\ object.hib = image.hib
      /\ object = [bits |-> object.bits, wib |-> object.wib, hib |-> object.hib,
                   iv |-> object.iv, coeff |-> object.coeff]
  BY DEF PrepareJphide
<1>3. \A m \in Nat, k \in Nat \ {0} : m < k => m % k = m
  OBVIOUS
<1>4. \A c \in Component : object.wib[c] % ShortRange = object.wib[c]
  <2> TAKE c \in Component
  <2>1. DCTSIZE2 * image.wib[c] - 1 \in Nat
    <3>1. \A a \in Nat \ {0}, b \in Nat \ {0} : a * b - 1 \in Nat
      OBVIOUS
    <3> QED BY <1>1, <3>1
  <2>2. object.wib[c] \in Nat /\ object.wib[c] < ShortRange
    BY <1>2, <2>1 DEF Fits
  <2> HIDE DEF object
  <2> QED BY <1>1, <1>3, <2>2
<1>5. \A c \in Component : object.hib[c] % ShortRange = object.hib[c]
  <2> TAKE c \in Component
  <2>1. object.hib[c] \in Nat /\ object.hib[c] < ShortRange
    BY <1>1, <1>2 DEF Fits
  <2> HIDE DEF object
  <2> QED BY <1>1, <1>3, <2>1
<1> HIDE DEF object
<1>6. /\ [c \in Component |-> object.wib[c] % ShortRange] = object.wib
      /\ [c \in Component |-> object.hib[c] % ShortRange] = object.hib
  BY <1>1, <1>2, <1>4, <1>5
<1>7. ThroughFile(object) = object
  BY <1>2, <1>6 DEF ThroughFile
<1> QED BY <1>7 DEF object

\* An object made of an image is one of it...
LEMMA MadeIsObject ==
    ASSUME NEW image \in Images, NEW type \in Range(Handlers),
           NEW obj, obj = ReadJpg(type, Image(image)), obj # NoObject
    PROVE  IsObjectOf(type, obj, image)
<1>1. type = ".jph" \/ type = ".og" \/ type = ".jsg"
  BY HandlerNames
<1>2. Image(image).kind = "image" /\ Image(image).image = image
  BY DEF Image
<1>3. image.dcts \in Seq({0, 1})
  BY ObjectsAssumption
<1>4. CASE type = ".jph"
  BY <1>2, <1>4 DEF ReadJpg, IsObjectOf
<1>5. CASE type = ".og"
  BY <1>2, <1>5 DEF ReadJpg, IsObjectOf
<1>6. CASE type = ".jsg"
  <2>1. obj = PrepareJsteg(image.dcts)
    BY <1>2, <1>6 DEF ReadJpg
  <2> QED BY <1>3, <1>6, <2>1, JstegIsAligned DEF IsObjectOf
<1> QED BY <1>1, <1>4, <1>5, <1>6

\* ...also when it is read from a file.
LEMMA ReadIsObject ==
    ASSUME NEW image \in Images, NEW type \in Range(Handlers),
           NEW product, product = ReadJpg(type, Image(image)), product # NoObject,
           NEW file, NEW size, file = [kind |-> type, obj |-> product, size |-> size],
           NEW obj, obj = ReadObject(type, file), obj # NoObject
    PROVE  IsObjectOf(type, obj, image)
<1>1. type = ".jph" \/ type = ".og" \/ type = ".jsg"
  BY HandlerNames
<1>2. file.kind = type /\ file.obj = product /\ file.size = size
  OBVIOUS
<1>3. IsObjectOf(type, product, image)
  BY MadeIsObject
<1>4. image.dcts \in Seq({0, 1}) /\ Image(image).kind = "image" /\ Image(image).image = image
  BY ObjectsAssumption DEF Image
<1>5. CASE type = ".jsg" /\ size = "old"
  <2>1. product = PrepareJsteg(image.dcts)
    BY <1>4, <1>5 DEF ReadJpg
  <2>2. obj = [product EXCEPT !.header = [k \in DOMAIN @ |-> NoBit]]
    BY <1>2, <1>5 DEF ReadObject
  <2> QED BY <1>4, <1>5, <2>1, <2>2, JstegIsAligned DEF IsObjectOf
<1>6. CASE type = ".jph"
  <2>1. product = PrepareJphide(image)
    BY <1>4, <1>6 DEF ReadJpg
  <2>2. obj = ThroughFile(product)
    BY <1>2, <1>6 DEF ReadObject
  <2> QED BY <1>6, <2>1, <2>2, FitsThroughFile DEF IsObjectOf
<1>7. CASE type # ".jph" /\ ~(type = ".jsg" /\ size = "old")
  <2>1. obj = product
    BY <1>2, <1>7 DEF ReadObject
  <2> QED BY <1>3, <2>1
<1> QED BY <1>5, <1>6, <1>7

\* What holds of the objects and the walk in every state.
ObjectsInv == FilesKept /\ NamesKept /\ LoadedIsImage /\ WalkKept /\ SameWalk

LEMMA ArgsNamed ==
    ASSUME NEW D, D \subseteq Names, Cardinality(D) \in Nat, NEW s \in SetToSeqs(D)
    PROVE  s \in Seq(Names)
<1> DEFINE size == Cardinality(D)
<1>1. s \in [1..size -> D]
  BY DEF SetToSeqs
<1> HIDE DEF size
<1>2. s \in Seq(D)
  BY <1>1 DEF size
<1> QED BY <1>2

LEMMA ObjectsInvInit == ASSUME Init PROVE ObjectsInv
<1>1. PICK given \in {D \in SUBSET (Bases \X JpgNames) : Cardinality(D) \in 1..MaxArgs} :
        \E images \in [given -> Images] :
            /\ files = [f \in Names |-> IF f \in given THEN Image(images[f]) ELSE NoFile]
            /\ args \in SetToSeqs(given)
  BY DEF Init
<1>2. PICK images \in [given -> Images] :
            /\ files = [f \in Names |-> IF f \in given THEN Image(images[f]) ELSE NoFile]
            /\ args \in SetToSeqs(given)
  BY <1>1
<1>3. given \subseteq Names /\ \A f \in given : f[2] \in JpgNames
  BY DEF Names
<1>4. FilesKept
  <2>1. \A f \in Names : f \in given => files[f] = Image(images[f]) /\ images[f] \in Images
    BY <1>2
  <2>2. \A f \in Names : f \notin given => files[f] = NoFile
    BY <1>2
  <2>3. \A f \in Names : files[f].kind \in {"image", "none"}
    <3> TAKE f \in Names
    <3>1. \A image : Image(image).kind = "image"
      BY DEF Image
    <3>2. NoFile.kind = "none"
      BY DEF NoFile
    <3> QED BY <2>1, <2>2, <3>1, <3>2
  <2> QED BY <1>2, <2>1, <2>2, <2>3, HandlerNames DEF FilesKept
<1>5. NamesKept
  <2>1. Cardinality(given) \in Nat
    BY ObjectsAssumption
  <2>2. args \in Seq(Names)
    BY <1>2, <1>3, <2>1, ArgsNamed
  <2> QED BY <2>2 DEF NamesKept, Init
<1>6. LoadedIsImage /\ WalkKept /\ SameWalk
  BY DEF LoadedIsImage, WalkKept, SameWalk, Init
<1> QED BY <1>4, <1>5, <1>6 DEF ObjectsInv

\* The files that are images stay what they are.
LEMMA ImagesStay ==
    ASSUME FilesKept, \A h \in Bases \X JpgNames : files'[h] = files[h], NEW f
    PROVE  ImagesOf(f)' = ImagesOf(f)
<1>1. ImagesIn(files', f) = ImagesIn(files, f)
  BY SameImages
<1> QED BY <1>1 DEF ImagesOf

\* A step that leaves the walk alone, and the images, keeps what is said of it.
LEMMA WalkStays ==
    ASSUME WalkKept, SameWalk, UNCHANGED walkVars, phase' = "walk" => phase = "walk",
           \A h \in Bases \X JpgNames : files'[h] = files[h]
    PROVE  WalkKept' /\ SameWalk'
<1>1. ImagesIn(files', job.name) = ImagesIn(files, job.name)
  BY SameImages
<1>2. /\ job' = job /\ cursor' = cursor /\ where' = where /\ taken' = taken
      /\ ImagesOf(job.name)' = ImagesOf(job.name)
  BY <1>1 DEF walkVars, ImagesOf
<1>3. WalkKept'
  BY <1>2 DEF WalkKept
<1>4. SameWalk'
  BY <1>2 DEF SameWalk
<1> QED BY <1>3, <1>4

\* One that loads nothing keeps what was loaded, and one that loads an object of an
\* image adds that.
LEMMA LoadedStays ==
    ASSUME LoadedIsImage, db' = db, \A h \in Bases \X JpgNames : files'[h] = files[h]
    PROVE  LoadedIsImage'
<1>1. \A f : ImagesIn(files', f) = ImagesIn(files, f)
  BY SameImages
<1> QED BY <1>1 DEF LoadedIsImage, ImagesOf

LEMMA LoadedMore ==
    ASSUME LoadedIsImage, files' = files,
           NEW f, NEW type, NEW obj, NEW image \in ImagesOf(f), IsObjectOf(type, obj, image),
           db' = db \cup {Loaded(f, type, obj)}
    PROVE  LoadedIsImage'
<1>1. \A g : ImagesOf(g)' = ImagesIn(files, g)
  BY DEF ImagesOf
<1>2. ASSUME NEW l \in db'
      PROVE  \E im \in ImagesIn(files, l.name) : IsObjectOf(l.type, l.obj, im)
  <2>1. CASE l \in db
    BY <2>1 DEF LoadedIsImage, ImagesOf
  <2>2. CASE l = Loaded(f, type, obj)
    <3>1. l.name = f /\ l.type = type /\ l.obj = obj
      BY <2>2 DEF Loaded
    <3> QED BY <3>1 DEF ImagesOf
  <2> QED BY <1>2, <2>1, <2>2
<1> QED BY <1>1, <1>2 DEF LoadedIsImage

\* The files stay as they are.
LEMMA FilesStay == ASSUME FilesKept, files' = files PROVE FilesKept'
<1>1. \A f : ImagesOf(f)' = ImagesOf(f)
  BY DEF ImagesOf
<1> QED BY <1>1 DEF FilesKept

\* doinsert() of a file that is not an image.
LEMMA InsertObjectKeeps == ASSUME ObjectsInv, InsertObject PROVE ObjectsInv'
<1> USE DEF ObjectsInv
<1> DEFINE f == args[1]
           type == f[2]
           obj == ReadObject(type, files[f])
<1>1. /\ args # <<>> /\ type \notin JpgNames /\ args' = Tail(args)
      /\ files' = files /\ UNCHANGED walkVars /\ phase' # "walk" /\ phase' # "handlers"
  <2>1. phase' \in {"args", "crack", "crash"}
    BY DEF InsertObject, Counted
  <2> QED BY <2>1 DEF InsertObject
<1>2. f \in Names /\ args' \in Seq(Names)
  BY <1>1 DEF NamesKept
<1>3. FilesKept' /\ WalkKept' /\ SameWalk'
  BY <1>1, FilesStay, WalkStays
<1>4. NamesKept'
  BY <1>1, <1>2 DEF NamesKept
<1>5. db' = db \/ (type \in Range(Handlers) /\ obj # NoObject /\ db' = db \cup {Loaded(f, type, obj)})
  BY DEF InsertObject
<1>6. CASE db' = db
  BY <1>1, <1>3, <1>4, <1>6, LoadedStays
<1>7. CASE type \in Range(Handlers) /\ obj # NoObject /\ db' = db \cup {Loaded(f, type, obj)}
  <2>1. files[f].kind = type
    BY <1>7 DEF ReadObject
  <2>2. PICK image \in ImagesOf(f) : \E size \in {"full", "short", "old"} :
            LET product == ReadJpg(type, Image(image))
            IN  product # NoObject /\ files[f] = [kind |-> type, obj |-> product, size |-> size]
    BY <1>2, <1>7, <2>1 DEF FilesKept
  <2>3. PICK size \in {"full", "short", "old"} :
            LET product == ReadJpg(type, Image(image))
            IN  product # NoObject /\ files[f] = [kind |-> type, obj |-> product, size |-> size]
    BY <2>2
  <2>4. image \in Images
    BY ImagesTyped
  <2> HIDE DEF type
  <2>5. IsObjectOf(type, obj, image)
    BY <1>7, <2>3, <2>4, ReadIsObject
  <2> HIDE DEF f, obj
  <2>6. LoadedIsImage'
    BY <1>1, <1>7, <2>5, LoadedMore
  <2> QED BY <1>3, <1>4, <2>6
<1> QED BY <1>5, <1>6, <1>7

LEMMA InsertImageKeeps == ASSUME ObjectsInv, InsertImage PROVE ObjectsInv'
<1> USE DEF ObjectsInv
<1>1. /\ args # <<>> /\ args[1][2] \in JpgNames /\ args' = Tail(args) /\ name' = args[1]
      /\ handle' = 1 /\ files' = files /\ db' = db /\ UNCHANGED walkVars /\ phase' = "handlers"
  BY DEF InsertImage
<1>2. args[1] \in Names /\ args' \in Seq(Names)
  BY <1>1 DEF NamesKept
<1>3. name' \in Bases \X JpgNames
  BY <1>1, <1>2 DEF Names
<1>4. NamesKept'
  BY <1>1, <1>2, <1>3 DEF NamesKept
<1>5. FilesKept' /\ WalkKept' /\ SameWalk' /\ LoadedIsImage'
  BY <1>1, FilesStay, WalkStays, LoadedStays
<1> QED BY <1>4, <1>5

\* doconvert() writes a file that is not an image, of what the handler has made of one.
LEMMA WrittenKeeps ==
    ASSUME FilesKept, NEW h \in Bases \X JpgNames, NEW type \in Range(Handlers),
           NEW image \in Images, files[h] = Image(image),
           NEW obj, obj = ReadJpg(type, Image(image)), obj # NoObject,
           files' \in Written(<<h[1], type>>, type, obj)
    PROVE  FilesKept' /\ \A g \in Bases \X JpgNames : files'[g] = files[g]
<1> DEFINE f == <<h[1], type>>
<1>1. f \in Names /\ f[1] = h[1] /\ f[2] = type /\ type \notin JpgNames
  BY HandlerNames DEF Names
<1>2. CASE files' = files
  BY <1>2, FilesStay
<1>3. CASE \E size \in {"full", "short"} : files' = [files EXCEPT ![f] = [kind |-> type, obj |-> obj, size |-> size]]
  <2> HIDE DEF f
  <2>1. PICK size \in {"full", "short"} : files' = [files EXCEPT ![f] = [kind |-> type, obj |-> obj, size |-> size]]
    BY <1>3
  <2>2. /\ DOMAIN files' = Names /\ \A g \in Names : g # f => files'[g] = files[g]
        /\ files'[f] = [kind |-> type, obj |-> obj, size |-> size]
    BY <1>1, <2>1 DEF FilesKept
  <2>3. \A g \in Bases \X JpgNames : g \in Names /\ g # f /\ files'[g] = files[g]
    BY <1>1, <2>2 DEF Names
  <2>4. \A g : ImagesOf(g)' = ImagesOf(g)
    BY <2>3, ImagesStay
  <2>5. \A g \in Names : g[2] \in JpgNames => files'[g] = files[g]
    BY <1>1, <2>2
  <2>6. ASSUME NEW g \in Names, files'[g].kind \in Range(Handlers)
        PROVE  \E im \in ImagesOf(g)' : \E s \in {"full", "short", "old"} :
                 LET product == ReadJpg(files'[g].kind, Image(im))
                 IN  product # NoObject /\ files'[g] = [kind |-> files'[g].kind, obj |-> product, size |-> s]
    <3>1. CASE g = f
      <4>1. image \in ImagesOf(f)
        BY <1>1, OneOfImages DEF ImagesOf
      <4>2. files'[g].kind = type /\ size \in {"full", "short", "old"}
        BY <2>2, <3>1
      <4> QED BY <2>2, <2>4, <3>1, <4>1, <4>2
    <3>2. CASE g # f
      <4>1. files'[g] = files[g]
        BY <2>2, <3>2
      <4> QED BY <2>4, <2>6, <4>1 DEF FilesKept
    <3> QED BY <3>1, <3>2
  <2>7. FilesKept'
    BY <2>2, <2>5, <2>6 DEF FilesKept
  <2> QED BY <2>3, <2>7
<1> QED BY <1>2, <1>3 DEF Written

LEMMA HandleKeeps == ASSUME ObjectsInv, Handle PROVE ObjectsInv'
<1> USE DEF ObjectsInv
<1> DEFINE type == Handlers[handle]
           obj == ReadJpg(type, files[name])
<1>1. /\ phase = "handlers" /\ handle <= Len(Handlers) /\ args' = args /\ name' = name
      /\ phase' = phase /\ handle' = handle + 1 /\ UNCHANGED walkVars
  BY DEF Handle, argVars
<1>2. NamesKept' /\ name \in Bases \X JpgNames
  BY <1>1 DEF NamesKept
<1>3. type \in Range(Handlers)
  BY <1>1, HandlerNames DEF NamesKept
<1>4. \/ files' = files /\ db' = db
      \/ /\ obj # NoObject
         /\ \/ files' \in Written(<<name[1], type>>, type, obj) /\ db' = db
            \/ files' = files /\ db' = db \cup {Loaded(name, type, obj)}
  BY DEF Handle
<1>5. CASE files' = files /\ db' = db
  BY <1>1, <1>2, <1>5, FilesStay, WalkStays, LoadedStays
<1>6. CASE obj # NoObject
  <2>1. files[name].kind = "image"
    BY <1>6 DEF ReadJpg
  <2>2. PICK image \in Images : files[name] = Image(image)
    <3>1. name \in Names /\ name[2] \in JpgNames
      BY <1>2 DEF Names
    <3>2. files[name] # NoFile
      BY <2>1 DEF NoFile
    <3> QED BY <3>1, <3>2 DEF FilesKept
  <2> HIDE DEF type
  <2>3. obj = ReadJpg(type, Image(image))
    BY <2>2
  <2> HIDE DEF obj
  <2>4. CASE files' \in Written(<<name[1], type>>, type, obj) /\ db' = db
    <3>1. FilesKept' /\ \A g \in Bases \X JpgNames : files'[g] = files[g]
      BY <1>2, <1>3, <1>6, <2>2, <2>3, <2>4, WrittenKeeps
    <3>2. LoadedIsImage'
      BY <2>4, <3>1, LoadedStays
    <3>3. WalkKept' /\ SameWalk'
      BY <1>1, <3>1, WalkStays
    <3> QED BY <1>2, <3>1, <3>2, <3>3
  <2>5. CASE files' = files /\ db' = db \cup {Loaded(name, type, obj)}
    <3>1. IsObjectOf(type, obj, image)
      BY <1>3, <1>6, <2>3, MadeIsObject
    <3>2. image \in ImagesOf(name)
      BY <1>2, <2>2, OneOfImages DEF ImagesOf
    <3>3. LoadedIsImage'
      BY <2>5, <3>1, <3>2, LoadedMore
    <3> QED BY <1>1, <1>2, <2>5, <3>3, FilesStay, WalkStays
  <2> QED BY <1>4, <1>5, <1>6, <2>4, <2>5
<1> QED BY <1>4, <1>5, <1>6

LEMMA EndsKeep == ASSUME ObjectsInv, HandlersEnd \/ ArgsEnd PROVE ObjectsInv'
<1> USE DEF ObjectsInv
<1>1. /\ args' = args /\ name' = name /\ handle' = handle /\ files' = files /\ db' = db
      /\ UNCHANGED walkVars /\ phase' # "walk" /\ phase' # "handlers"
  <2>1. phase' \in {"args", "crack", "crash", "done"}
    BY DEF HandlersEnd, ArgsEnd, Counted
  <2> QED BY <2>1 DEF HandlersEnd, ArgsEnd
<1>2. NamesKept'
  BY <1>1 DEF NamesKept
<1> QED BY <1>1, <1>2, FilesStay, WalkStays, LoadedStays

\* stegbreak is started again: a file of an old version is still made of its image.
LEMMA AgainKeeps == ASSUME ObjectsInv, Again PROVE ObjectsInv'
<1> USE DEF ObjectsInv
<1>1. phase' = "args" /\ db' = db /\ UNCHANGED walkVars
  BY DEF Again
<1>2. /\ \/ files' = files
         \/ \E f \in Names : files[f].kind = ".jsg" /\ files' = [files EXCEPT ![f].size = "old"]
      /\ \E E \in SUBSET Names : Cardinality(E) \in 1..MaxArgs /\ args' \in SetToSeqs(E)
  BY DEF Again
<1>3. args' \in Seq(Names)
  BY <1>2, ArgsNamed, ObjectsAssumption
<1>4. NamesKept'
  BY <1>1, <1>3 DEF NamesKept
<1>5. FilesKept' /\ \A h \in Bases \X JpgNames : files'[h] = files[h]
  <2>1. CASE files' = files
    BY <2>1, FilesStay
  <2>2. CASE \E f \in Names : files[f].kind = ".jsg" /\ files' = [files EXCEPT ![f].size = "old"]
    <3>1. PICK f \in Names : files[f].kind = ".jsg" /\ files' = [files EXCEPT ![f].size = "old"]
      BY <2>2
    <3>2. /\ DOMAIN files' = Names /\ \A g \in Names : g # f => files'[g] = files[g]
          /\ files'[f] = [files[f] EXCEPT !.size = "old"]
      BY <3>1 DEF FilesKept
    <3>3. f[2] \notin JpgNames
      <4>1. \A image : Image(image).kind = "image"
        BY DEF Image
      <4>2. NoFile.kind = "none"
        BY DEF NoFile
      <4> QED BY <3>1, <4>1, <4>2 DEF FilesKept
    <3>4. \A h \in Bases \X JpgNames : files'[h] = files[h]
      BY <3>2, <3>3 DEF Names
    <3>5. \A g : ImagesOf(g)' = ImagesOf(g)
      BY <3>4, ImagesStay
    <3>6. ASSUME NEW g \in Names, files'[g].kind \in Range(Handlers)
          PROVE  \E im \in ImagesOf(g)' : \E s \in {"full", "short", "old"} :
                   LET product == ReadJpg(files'[g].kind, Image(im))
                   IN  product # NoObject /\ files'[g] = [kind |-> files'[g].kind, obj |-> product, size |-> s]
      <4>1. CASE g # f
        BY <3>2, <3>5, <3>6, <4>1 DEF FilesKept
      <4>2. CASE g = f
        <5>1. ".jsg" \in Range(Handlers)
          BY HandlerNames
        <5>2. PICK im \in ImagesOf(f) : \E s \in {"full", "short", "old"} :
                LET product == ReadJpg(".jsg", Image(im))
                IN  product # NoObject /\ files[f] = [kind |-> ".jsg", obj |-> product, size |-> s]
          BY <3>1, <5>1 DEF FilesKept
        <5> DEFINE product == ReadJpg(".jsg", Image(im))
        <5>3. product # NoObject /\ files'[f] = [kind |-> ".jsg", obj |-> product, size |-> "old"]
          BY <3>2, <5>2
        <5>4. files'[f].kind = ".jsg"
          BY <5>3
        <5> QED BY <3>5, <4>2, <5>3, <5>4
      <4> QED BY <4>1, <4>2
    <3>7. \A g \in Names : g[2] \in JpgNames => files'[g] = files[g]
      BY <3>2, <3>3
    <3>8. FilesKept'
      BY <3>2, <3>6, <3>7 DEF FilesKept
    <3> QED BY <3>4, <3>8
  <2> QED BY <1>2, <2>1, <2>2
<1>6. WalkKept' /\ SameWalk' /\ LoadedIsImage'
  BY <1>1, <1>5, WalkStays, LoadedStays
<1> QED BY <1>4, <1>5, <1>6

\* break_jphide_setup(): the walk starts where that of break_jphide_prepare() did.
LEMMA SetupKeeps == ASSUME ObjectsInv, Setup PROVE ObjectsInv'
<1> USE DEF ObjectsInv
<1>1. /\ files' = files /\ db' = db /\ args' = args /\ phase' = "walk"
      /\ cursor' = StartCursor /\ where' = 0 /\ taken' = NoTaken
  BY DEF Setup, argVars
<1>2. PICK l \in db : l.type = ".jph" /\ job' = l
  BY DEF Setup
<1>3. FilesKept' /\ LoadedIsImage' /\ NamesKept'
  BY <1>1, FilesStay, LoadedStays DEF NamesKept
<1>4. SameWalk'
  BY <1>1 DEF SameWalk
<1>5. WalkKept'
  <2>1. PICK image \in ImagesOf(l.name) : IsObjectOf(l.type, l.obj, image)
    BY DEF LoadedIsImage
  <2>2. Fits(image) => l.obj = PrepareJphide(image)
    BY <1>2, <2>1 DEF IsObjectOf
  <2>3. image \in ImagesIn(files', job'.name)
    BY <1>1, <1>2, <2>1 DEF ImagesOf
  <2>4. Collected(job'.obj.wib, job'.obj.hib, 0).c = StartCursor
    BY CollectedNone
  <2> QED BY <1>1, <1>2, <2>2, <2>3, <2>4 DEF WalkKept, ImagesOf
<1> QED BY <1>3, <1>4, <1>5

\* get_word() takes the coefficient that break_jphide_prepare() put where it looks.
LEMMA GetWordKeeps == ASSUME ObjectsInv, GetWord PROVE ObjectsInv'
<1> USE DEF ObjectsInv
<1> DEFINE wib_ == job.obj.wib
           hib_ == job.obj.hib
           ahead == Collected(wib_, hib_, where + 1)
<1>1. /\ phase = "walk" /\ ~cursor.ended /\ cursor' = Advance(cursor, wib_, hib_)
      /\ files' = files /\ args' = args /\ phase' = phase /\ db' = db /\ job' = job
  BY DEF GetWord, argVars
<1>2. \/ cursor'.ended /\ where' = where /\ taken' = taken
      \/ /\ ~cursor'.ended /\ where' = where + 1
         /\ taken' = [y |-> CoeffAt(job.obj, where), place |-> Place(cursor')]
  BY DEF GetWord
<1>3. where \in Nat /\ cursor = Collected(wib_, hib_, where).c
  BY <1>1 DEF WalkKept
<1>4. ~cursor'.ended => cursor' = ahead.c
  <2> DEFINE past == Collected(wib_, hib_, where)
  <2>1. ahead = TakeCoeff(past, where + 1)
    BY <1>3, CollectedNext
  <2>2. past.wib = wib_ /\ past.hib = hib_
    BY <1>3, CollectedWalks
  <2> HIDE DEF ahead, past, wib_, hib_
  <2>3. past.c = cursor
    BY <1>3 DEF past
  <2>4. SUFFICES ASSUME ~cursor'.ended PROVE ahead.c = Advance(past.c, past.wib, past.hib)
    BY <1>1, <2>2, <2>3
  <2>5. cursor' = Advance(past.c, past.wib, past.hib) /\ ~past.c.ended
    BY <1>1, <2>2, <2>3
  <2> QED BY <2>1, <2>4, <2>5 DEF TakeCoeff
<1>5. FilesKept' /\ LoadedIsImage' /\ NamesKept'
  BY <1>1, FilesStay, LoadedStays DEF NamesKept
<1>6. \A f : ImagesOf(f)' = ImagesOf(f)
  BY <1>1 DEF ImagesOf
<1>7. ImagesOf(job.name)' = ImagesOf(job.name)
  BY <1>1 DEF ImagesOf
<1> HIDE DEF wib_, hib_
<1>8. WalkKept'
  <2>1. where' \in Nat /\ (~cursor'.ended => cursor' = Collected(wib_, hib_, where').c)
    BY <1>2, <1>3, <1>4
  <2> QED BY <1>1, <1>7, <2>1 DEF WalkKept, wib_, hib_
<1>9. SameWalk'
  <2>1. CASE cursor'.ended /\ where' = where /\ taken' = taken
    BY <1>1, <1>7, <2>1 DEF SameWalk
  <2>2. CASE /\ ~cursor'.ended /\ where' = where + 1
             /\ taken' = [y |-> CoeffAt(job.obj, where), place |-> Place(cursor')]
    <3>1. SUFFICES ASSUME where + 1 <= NCoeff, \A image \in ImagesOf(job.name) : Fits(image)
                   PROVE  CoeffAt(job.obj, where) = Place(cursor')
      BY <1>7, <2>2 DEF SameWalk
    <3>2. PICK image \in ImagesOf(job.name) : Fits(image) => job.obj = PrepareJphide(image)
      BY <1>1 DEF WalkKept
    <3>3. job.obj.coeff = Collected(wib_, hib_, NCoeff).coeff
      BY <3>1, <3>2 DEF PrepareJphide, wib_, hib_
    <3>4. NCoeff \in Nat /\ where + 1 \in 1..NCoeff /\ where < NCoeff
      BY <1>3, <3>1, JphideAssumption
    <3>5. ~ahead.c.ended
      BY <1>4, <2>2
    <3>6. Collected(wib_, hib_, NCoeff).coeff[where + 1] = Place(ahead.c)
      BY <3>4, <3>5, CollectedInOrder
    <3> QED BY <1>4, <2>2, <3>3, <3>4, <3>6 DEF CoeffAt
  <2> QED BY <1>2, <2>1, <2>2
<1> QED BY <1>5, <1>8, <1>9

LEMMA CrackedKeeps == ASSUME ObjectsInv, Cracked PROVE ObjectsInv'
<1> USE DEF ObjectsInv
<1>1. /\ files' = files /\ args' = args /\ name' = name /\ handle' = handle /\ db' = {}
      /\ phase' = "args" /\ UNCHANGED walkVars
  BY DEF Cracked, argVars
<1>2. NamesKept' /\ LoadedIsImage'
  BY <1>1 DEF NamesKept, LoadedIsImage
<1> QED BY <1>1, <1>2, FilesStay, WalkStays

LEMMA ObjectsInvNext == ObjectsInv /\ [Next]_vars => ObjectsInv'
<1> SUFFICES ASSUME ObjectsInv, [Next]_vars PROVE ObjectsInv'
  OBVIOUS
<1>1. CASE InsertObject
  BY <1>1, InsertObjectKeeps
<1>2. CASE InsertImage
  BY <1>2, InsertImageKeeps
<1>3. CASE Handle
  BY <1>3, HandleKeeps
<1>4. CASE HandlersEnd \/ ArgsEnd
  BY <1>4, EndsKeep
<1>5. CASE Again
  BY <1>5, AgainKeeps
<1>6. CASE Setup
  BY <1>6, SetupKeeps
<1>7. CASE GetWord
  BY <1>7, GetWordKeeps
<1>8. CASE Cracked
  BY <1>8, CrackedKeeps
<1>9. CASE UNCHANGED vars
  <2>1. /\ files' = files /\ args' = args /\ name' = name /\ handle' = handle /\ db' = db
        /\ phase' = phase /\ UNCHANGED walkVars
    BY <1>9 DEF vars, argVars
  <2>2. NamesKept'
    BY <2>1 DEF ObjectsInv, NamesKept
  <2> QED BY <2>1, <2>2, FilesStay, WalkStays, LoadedStays DEF ObjectsInv
<1> QED BY <1>1, <1>2, <1>3, <1>4, <1>5, <1>6, <1>7, <1>8, <1>9 DEF Next

\* What crack_jphide() tries a key on is what the cursors of get_word() say, for images,
\* tables and objects of any size: the walks of break_jphide_prepare() and get_word() are
\* the same, through break_jphide_write() and break_jphide_read() too.
THEOREM WalkCorrect == Spec => []SameWalk
<1>1. Init => ObjectsInv
  BY ObjectsInvInit
<1>2. ObjectsInv /\ [Next]_vars => ObjectsInv'
  BY ObjectsInvNext
<1>3. ObjectsInv => SameWalk
  BY DEF ObjectsInv
<1> QED BY <1>1, <1>2, <1>3, PTL DEF Spec

\* Whatever doinsert() puts into the database is made of an image of its name, whole, and
\* the bytes of a jsteg object are those that its key stream's bytes belong to.
THEOREM LoadedCorrect == Spec => []LoadedIsImage
<1>1. Init => ObjectsInv
  BY ObjectsInvInit
<1>2. ObjectsInv /\ [Next]_vars => ObjectsInv'
  BY ObjectsInvNext
<1>3. ObjectsInv => LoadedIsImage
  BY DEF ObjectsInv
<1> QED BY <1>1, <1>2, <1>3, PTL DEF Spec

-----------------------------------------------------------------------------
(* What stegdeimage keeps.                                                 *)

\* A coefficient keeps its low bits, and stays one of -1, 0 and 1 or none of them.
LEMMA ReworkedKeeps ==
    ASSUME NEW val \in Int, NEW tval \in Int
    PROVE  /\ Reworked(val, tval) \in Int
           /\ LowBits(Reworked(val, tval)) = LowBits(val)
           /\ Reworked(val, tval) \in -1..1 <=> val \in -1..1
<1> DEFINE sign == IF tval < 0 THEN -1 ELSE 1
           high == IF HighBits(tval) = 0 THEN 4 ELSE HighBits(tval)
           low  == LowBits(val)
<1>1. low \in 0..3
  BY DEF LowBits, AbsVal
<1>2. high \in Int /\ high >= 4 /\ high % 4 = 0
  BY DEF HighBits, LowBits, AbsVal
<1>3. CASE val = 0
  BY <1>3 DEF Reworked, LowBits, AbsVal
<1>4. CASE val \in {-1, 1}
  BY <1>4 DEF Reworked, LowBits, AbsVal
<1>5. CASE val \notin -1..1
  <2>1. Reworked(val, tval) = sign * (high + low)
    BY <1>5 DEF Reworked
  <2> HIDE DEF high, low
  <2>2. sign * (high + low) \in Int /\ sign * (high + low) \notin -1..1
    BY <1>1, <1>2
  <2>3. AbsVal(sign * (high + low)) = high + low
    BY <1>1, <1>2 DEF AbsVal
  <2>4. (high + low) % 4 = low
    BY <1>1, <1>2
  <2> QED BY <1>5, <2>1, <2>2, <2>3, <2>4 DEF LowBits, low
<1> QED BY <1>3, <1>4, <1>5

\* The size of an image's rows.
LEMMA RowsOf ==
    ASSUME NEW image, IsPicture(image), NEW c \in Component
    PROVE  /\ image.wib[c] \in Nat \ {0} /\ image.hib[c] \in Nat \ {0}
           /\ Row(image, c) \in Nat /\ Row(image, c) >= DCTSIZE2 /\ Row(image, c) = image.wib[c] * DCTSIZE2
           /\ \A y \in 0..(image.hib[c] - 1), x \in 0..(Row(image, c) - 1) : <<c, y, x>> \in AreaOf(image)
<1>1. image.wib[c] \in Nat \ {0} /\ image.hib[c] \in Nat \ {0}
  BY DEF IsPicture
<1>2. DCTSIZE2 \in Nat \ {0}
  BY JphideAssumption
<1>3. \A a, b \in Nat \ {0} : a * b \in Nat /\ a * b >= b
  <2> TAKE a, b \in Nat \ {0}
  <2>1. a * b = (a - 1) * b + b /\ (a - 1) * b \in Nat
    OBVIOUS
  <2> QED BY <2>1
<1>4. Row(image, c) = image.wib[c] * DCTSIZE2
  BY DEF Row
<1>5. ASSUME NEW y \in 0..(image.hib[c] - 1), NEW x \in 0..(Row(image, c) - 1) PROVE <<c, y, x>> \in AreaOf(image)
  BY <1>4 DEF AreaOf
<1> QED BY <1>1, <1>2, <1>3, <1>4, <1>5

LEMMA InArea ==
    ASSUME NEW image, NEW p \in AreaOf(image)
    PROVE  p[1] \in Component /\ p[2] \in 0..(image.hib[p[1]] - 1) /\ p[3] \in 0..(Row(image, p[1]) - 1)
BY DEF AreaOf, Row

\* The image reworked is one of the same size, whose coefficients are those of the IV and others
\* with the same low bits.
LEMMA DeimagedPicture ==
    ASSUME NEW image, IsPicture(image), NEW other, IsPicture(other)
    PROVE  LET new == Deimaged(image, other)
           IN  /\ IsPicture(new) /\ new.wib = image.wib /\ new.hib = image.hib
               /\ AreaOf(new) = AreaOf(image)
               /\ \A p \in AreaOf(image) :
                    /\ new.coef[p] \in Int /\ image.coef[p] \in Int
                    /\ LowBits(new.coef[p]) = LowBits(image.coef[p])
                    /\ new.coef[p] \in -1..1 <=> image.coef[p] \in -1..1
<1> DEFINE new == Deimaged(image, other)
           From(p) == <<p[1], p[2] % other.hib[p[1]], p[3] % Row(other, p[1])>>
           Of(p) == IF p[1] = 0 /\ p[2] = 0 /\ p[3] < IvSize THEN image.coef[p]
                    ELSE Reworked(image.coef[p], other.coef[From(p)])
<1>1. image.coef \in [AreaOf(image) -> Int] /\ other.coef \in [AreaOf(other) -> Int]
  BY DEF IsPicture
<1>2. \A p \in AreaOf(image) : From(p) \in AreaOf(other)
  <2> TAKE p \in AreaOf(image)
  <2>1. p[1] \in Component /\ p[2] \in Int /\ p[3] \in Int
    <3>1. /\ p[1] \in Component /\ p[2] \in 0..(image.hib[p[1]] - 1)
          /\ p[3] \in 0..(Row(image, p[1]) - 1)
      BY InArea
    <3>2. image.hib[p[1]] \in Nat /\ Row(image, p[1]) \in Nat
      BY <3>1, RowsOf
    <3> QED BY <3>1, <3>2
  <2> DEFINE y == p[2] % other.hib[p[1]]
             x == p[3] % Row(other, p[1])
  <2> DEFINE c == p[1]
  <2>2. /\ other.hib[c] \in Nat \ {0} /\ Row(other, c) \in Nat \ {0}
        /\ \A h \in 0..(other.hib[c] - 1), j \in 0..(Row(other, c) - 1) : <<c, h, j>> \in AreaOf(other)
    <3>1. c \in Component
      BY <2>1
    <3> HIDE DEF c
    <3>2. DCTSIZE2 \in Nat \ {0}
      BY JphideAssumption
    <3>3. other.hib[c] \in Nat \ {0} /\ Row(other, c) \in Nat /\ Row(other, c) >= DCTSIZE2
      BY <3>1, RowsOf
    <3>4. \A h \in 0..(other.hib[c] - 1), j \in 0..(Row(other, c) - 1) : <<c, h, j>> \in AreaOf(other)
      BY <3>1, RowsOf
    <3>5. Row(other, c) \in Nat \ {0}
      BY <3>2, <3>3
    <3> QED BY <3>3, <3>4, <3>5
  <2>3. \A e \in Int : \A m \in Nat \ {0} : e % m \in 0..(m - 1)
    OBVIOUS
  <2>4. y \in 0..(other.hib[p[1]] - 1) /\ x \in 0..(Row(other, p[1]) - 1)
    BY <2>1, <2>2, <2>3
  <2> HIDE DEF y, x
  <2>5. <<p[1], y, x>> \in AreaOf(other)
    BY <2>2, <2>4
  <2> QED BY <2>5 DEF y, x
<1>3. new = [image EXCEPT !.coef = [p \in AreaOf(image) |-> Of(p)]]
  BY <1>1 DEF Deimaged
<1>4. /\ DOMAIN new = {"wib", "hib", "coef"} /\ new.wib = image.wib /\ new.hib = image.hib
      /\ new.coef = [p \in AreaOf(image) |-> Of(p)]
  <2> DEFINE f == [p \in AreaOf(image) |-> Of(p)]
  <2>1. new = [image EXCEPT !.coef = f]
    BY <1>3
  <2>2. DOMAIN image = {"wib", "hib", "coef"}
    BY DEF IsPicture
  <2> HIDE DEF f, new
  <2>3. new.coef = f /\ new.wib = image.wib /\ new.hib = image.hib /\ DOMAIN new = DOMAIN image
    BY <2>1, <2>2
  <2> QED BY <2>2, <2>3 DEF f
<1>5. AreaOf(new) = AreaOf(image)
  BY <1>4 DEF AreaOf
<1>6. ASSUME NEW p \in AreaOf(image)
      PROVE  /\ Of(p) \in Int /\ image.coef[p] \in Int
             /\ LowBits(Of(p)) = LowBits(image.coef[p])
             /\ Of(p) \in -1..1 <=> image.coef[p] \in -1..1
  <2>1. image.coef[p] \in Int /\ other.coef[From(p)] \in Int
    BY <1>1, <1>2
  <2> HIDE DEF From
  <2> QED BY <2>1, ReworkedKeeps
<1> HIDE DEF Of
<1>7. \A p \in AreaOf(image) : new.coef[p] = Of(p)
  BY <1>4
<1>8. IsPicture(new)
  <2>1. image.wib \in [Component -> Nat \ {0}] /\ image.hib \in [Component -> Nat \ {0}]
    BY DEF IsPicture
  <2>2. new.coef \in [AreaOf(new) -> Int]
    BY <1>4, <1>5, <1>6
  <2> HIDE DEF new
  <2> QED BY <1>4, <2>1, <2>2 DEF IsPicture
<1> HIDE DEF new
<1> QED BY <1>4, <1>5, <1>6, <1>7, <1>8 DEF new

-----------------------------------------------------------------------------
(* stegcompare's cursor on an image.                                       *)

\* An image behind which the message of another is.
SameBits(image, new) ==
    /\ IsPicture(image) /\ IsPicture(new) /\ new.wib = image.wib /\ new.hib = image.hib
    /\ \A p \in AreaOf(image) :
        /\ new.coef[p] \in Int /\ image.coef[p] \in Int
        /\ LowBits(new.coef[p]) = LowBits(image.coef[p])
        /\ new.coef[p] \in -1..1 <=> image.coef[p] \in -1..1

Widths(image) == [c \in Component |-> DCTSIZE2 * image.wib[c] - 1]

\* A cursor that the image has blocks for.
OnImage(image, c) ==
    /\ DOMAIN c = {"lt", "lh", "lw", "coef", "spos", "mode", "ended"}
    /\ c.lt \in 1..Len(ltab) /\ c.coef \in Component /\ c.spos \in 0..(DCTSIZE2 - 1)
    /\ c.lh \in 0..(image.hib[c.coef] - 1)
    /\ c.lw \in Int /\ c.lw >= -DCTSIZE2

LEMMA OrderIs ==
    /\ DCTSIZE2 \in Nat \ {0} /\ ltab \in Seq(Component \X (0..(DCTSIZE2 - 1)) \X Int)
    /\ Len(ltab) \in Nat \ {0} /\ 1 \in 1..Len(ltab)
    /\ \A k \in 1..Len(ltab) : ltab[k][1] \in Component /\ ltab[k][2] \in 0..(DCTSIZE2 - 1)
<1>1. DCTSIZE2 \in Nat \ {0} /\ ltab \in Seq(Component \X (0..(DCTSIZE2 - 1)) \X Int) /\ ltab # <<>>
  BY JphideAssumption
<1> DEFINE E == Component \X (0..(DCTSIZE2 - 1)) \X Int
<1>2. \A e \in E : e[1] \in Component /\ e[2] \in 0..(DCTSIZE2 - 1)
  OBVIOUS
<1> HIDE DEF E
<1>3. Len(ltab) \in Nat \ {0} /\ \A k \in 1..Len(ltab) : ltab[k] \in E
  BY <1>1 DEF E
<1> QED BY <1>1, <1>2, <1>3

LEMMA StartOnImage ==
    ASSUME NEW image, IsPicture(image)
    PROVE  OnImage(image, StartCursor)
<1> DEFINE e == ltab[1]
<1>1. e[1] \in Component /\ e[2] \in 0..(DCTSIZE2 - 1) /\ DCTSIZE2 \in Nat /\ 1 \in 1..Len(ltab)
  BY OrderIs
<1>2. StartCursor = [lt |-> 1, lh |-> 0, lw |-> e[2] - DCTSIZE2, coef |-> e[1],
                     spos |-> e[2], mode |-> e[3], ended |-> FALSE]
  BY DEF StartCursor
<1> HIDE DEF e
<1>3. image.hib[e[1]] \in Nat \ {0}
  BY <1>1, RowsOf
<1> QED BY <1>1, <1>2, <1>3 DEF OnImage

\* The cursor moves within the image.
LEMMA AdvanceOnImage ==
    ASSUME NEW image, IsPicture(image), NEW c, OnImage(image, c)
    PROVE  LET d == Advance(c, Widths(image), image.hib)
           IN  /\ OnImage(image, d)
               /\ ~c.ended /\ ~d.ended => Place(d) \in AreaOf(image)
<1> DEFINE w == Widths(image)
           hib == image.hib
           d == Advance(c, w, hib)
           e == ltab[c.lt + 1]
<1>1. /\ DOMAIN c = {"lt", "lh", "lw", "coef", "spos", "mode", "ended"}
      /\ c.lt \in 1..Len(ltab) /\ c.coef \in Component /\ c.spos \in 0..(DCTSIZE2 - 1)
      /\ c.lh \in 0..(hib[c.coef] - 1) /\ c.lw \in Int /\ c.lw >= -DCTSIZE2
  BY DEF OnImage
<1>2. /\ DCTSIZE2 \in Nat \ {0} /\ Len(ltab) \in Nat \ {0}
      /\ \A k \in 1..Len(ltab) : ltab[k][1] \in Component /\ ltab[k][2] \in 0..(DCTSIZE2 - 1)
  BY OrderIs
<1>3. \A q \in Component : /\ hib[q] \in Nat \ {0} /\ Row(image, q) \in Nat /\ Row(image, q) >= DCTSIZE2
                           /\ \A y \in 0..(hib[q] - 1), x \in 0..(Row(image, q) - 1) : <<q, y, x>> \in AreaOf(image)
  BY RowsOf
<1>4. \A q \in Component : w[q] = Row(image, q) - 1
  <2> TAKE q \in Component
  <2>1. image.wib[q] \in Nat
    BY RowsOf
  <2> QED BY <1>2, <2>1 DEF Widths, Row
<1> HIDE DEF w, hib
<1>5. CASE c.lw + DCTSIZE2 <= w[c.coef]
  <2>1. d = [c EXCEPT !.lw = @ + DCTSIZE2]
    BY <1>5 DEF Advance
  <2> HIDE DEF d
  <2>2. /\ DOMAIN d = DOMAIN c /\ d.lt = c.lt /\ d.coef = c.coef /\ d.spos = c.spos /\ d.lh = c.lh
        /\ d.lw = c.lw + DCTSIZE2
    BY <1>1, <2>1
  <2>3. d.lw \in 0..(Row(image, c.coef) - 1)
    BY <1>1, <1>2, <1>3, <1>4, <1>5, <2>2
  <2>4. Place(d) = <<c.coef, c.lh, d.lw>>
    BY <2>2 DEF Place
  <2>5. Place(d) \in AreaOf(image)
    BY <1>1, <1>3, <2>3, <2>4
  <2>6. OnImage(image, d)
    BY <1>1, <1>2, <2>2, <2>3 DEF OnImage, hib
  <2> QED BY <2>5, <2>6 DEF d, w, hib
<1>6. CASE ~(c.lw + DCTSIZE2 <= w[c.coef]) /\ c.lh + 1 < hib[c.coef]
  <2>1. d = [c EXCEPT !.lw = c.spos, !.lh = @ + 1]
    BY <1>6 DEF Advance
  <2> HIDE DEF d
  <2>2. /\ DOMAIN d = DOMAIN c /\ d.lt = c.lt /\ d.coef = c.coef /\ d.spos = c.spos /\ d.lh = c.lh + 1
        /\ d.lw = c.spos
    BY <1>1, <2>1
  <2>3. d.lw \in 0..(Row(image, c.coef) - 1) /\ d.lh \in 0..(hib[c.coef] - 1)
    BY <1>1, <1>2, <1>3, <1>6, <2>2
  <2>4. Place(d) = <<c.coef, d.lh, d.lw>>
    BY <2>2 DEF Place
  <2>5. Place(d) \in AreaOf(image)
    BY <1>1, <1>3, <2>3, <2>4
  <2>6. OnImage(image, d)
    BY <1>1, <1>2, <2>2, <2>3 DEF OnImage, hib
  <2> QED BY <2>5, <2>6 DEF d, w, hib
<1>7. CASE ~(c.lw + DCTSIZE2 <= w[c.coef]) /\ ~(c.lh + 1 < hib[c.coef]) /\ c.lt = Len(ltab)
  <2>1. d = [c EXCEPT !.ended = TRUE]
    BY <1>7 DEF Advance
  <2> HIDE DEF d
  <2>2. /\ DOMAIN d = DOMAIN c /\ d.lt = c.lt /\ d.coef = c.coef /\ d.spos = c.spos /\ d.lh = c.lh
        /\ d.lw = c.lw /\ d.ended
    BY <1>1, <2>1
  <2>3. OnImage(image, d)
    BY <1>1, <2>2 DEF OnImage, hib
  <2> QED BY <2>2, <2>3 DEF d, w, hib
<1>8. CASE ~(c.lw + DCTSIZE2 <= w[c.coef]) /\ ~(c.lh + 1 < hib[c.coef]) /\ c.lt # Len(ltab)
  <2>1. d = [lt |-> c.lt + 1, lh |-> 0, lw |-> e[2], coef |-> e[1], spos |-> e[2], mode |-> e[3], ended |-> FALSE]
    BY <1>8 DEF Advance
  <2>2. c.lt + 1 \in 1..Len(ltab)
    BY <1>1, <1>2, <1>8
  <2>3. e[1] \in Component /\ e[2] \in 0..(DCTSIZE2 - 1)
    BY <1>2, <2>2
  <2> HIDE DEF d, e
  <2>4. /\ DOMAIN d = {"lt", "lh", "lw", "coef", "spos", "mode", "ended"}
        /\ d.lt = c.lt + 1 /\ d.coef = e[1] /\ d.spos = e[2] /\ d.lh = 0 /\ d.lw = e[2]
    BY <2>1
  <2>5. d.lw \in 0..(Row(image, e[1]) - 1) /\ d.lh \in 0..(hib[e[1]] - 1)
    BY <1>2, <1>3, <2>3, <2>4
  <2>6. Place(d) = <<e[1], d.lh, d.lw>>
    BY <2>4 DEF Place
  <2>7. Place(d) \in AreaOf(image)
    BY <1>3, <2>3, <2>5, <2>6
  <2>8. OnImage(image, d)
    BY <1>2, <2>2, <2>3, <2>4, <2>5 DEF OnImage, hib
  <2> QED BY <2>7, <2>8 DEF d, w, hib
<1> QED BY <1>5, <1>6, <1>7, <1>8 DEF w, hib

-----------------------------------------------------------------------------
(* Two walks over images of the same low bits.                             *)

\* What prepare_jphide() has taken of an image.
Taking(image, s) ==
    /\ DOMAIN s = {"image", "wib", "most", "c", "dcts", "pos"}
    /\ s.image = image /\ s.wib = Widths(image) /\ OnImage(image, s.c)
    /\ s.dcts \in Seq(Int)

\* Two walks that have taken as many coefficients, with the same low bits.
Alike(s, t) ==
    /\ t.most = s.most /\ t.c = s.c /\ t.pos = s.pos
    /\ Len(t.dcts) = Len(s.dcts)
    /\ \A e \in 1..Len(s.dcts) : LowBits(t.dcts[e]) = LowBits(s.dcts[e])

\* A turn of the loop, by its cases.
LEMMA TakenNot ==
    ASSUME NEW s, NEW e, s.c.ended \/ Len(s.dcts) >= s.most
    PROVE  TakeDct(s, e) = s
BY DEF TakeDct

LEMMA TakenEnd ==
    ASSUME NEW image, NEW s, Taking(image, s), NEW e, ~(s.c.ended \/ Len(s.dcts) >= s.most),
           Advance(s.c, Widths(image), image.hib).ended
    PROVE  LET r == TakeDct(s, e)
               d == Advance(s.c, Widths(image), image.hib)
           IN  /\ DOMAIN r = DOMAIN s /\ r.image = s.image /\ r.wib = s.wib /\ r.most = s.most /\ r.dcts = s.dcts
               /\ r.c = d
               /\ r.pos = IF s.c.lt <= 2 THEN Append(s.pos, Len(s.dcts)) ELSE s.pos
<1> DEFINE r == TakeDct(s, e)
           d == Advance(s.c, Widths(image), image.hib)
           p == IF s.c.lt <= 2 THEN Append(s.pos, Len(s.dcts)) ELSE s.pos
<1>1. DOMAIN s = {"image", "wib", "most", "c", "dcts", "pos"} /\ s.image = image /\ s.wib = Widths(image)
  BY DEF Taking
<1>2. r = [s EXCEPT !.c = d, !.pos = p]
  BY <1>1 DEF TakeDct
<1> HIDE DEF r, d, p
<1>3. /\ DOMAIN r = DOMAIN s /\ r.image = s.image /\ r.wib = s.wib /\ r.most = s.most /\ r.dcts = s.dcts
      /\ r.c = d /\ r.pos = p
  BY <1>1, <1>2
<1> QED BY <1>3 DEF r, d, p

LEMMA TakenOne ==
    ASSUME NEW image, NEW s, Taking(image, s), NEW e, ~(s.c.ended \/ Len(s.dcts) >= s.most),
           ~Advance(s.c, Widths(image), image.hib).ended
    PROVE  LET r == TakeDct(s, e)
               d == Advance(s.c, Widths(image), image.hib)
           IN  /\ DOMAIN r = DOMAIN s /\ r.image = s.image /\ r.wib = s.wib /\ r.most = s.most /\ r.c = d
               /\ r.dcts = IF Taken(image, d) THEN Append(s.dcts, image.coef[Place(d)]) ELSE s.dcts
               /\ r.pos = IF d.lt > s.c.lt /\ s.c.lt <= 2 THEN Append(s.pos, Len(s.dcts)) ELSE s.pos
<1> DEFINE r == TakeDct(s, e)
           d == Advance(s.c, Widths(image), image.hib)
           p == IF d.lt > s.c.lt /\ s.c.lt <= 2 THEN Append(s.pos, Len(s.dcts)) ELSE s.pos
           q == IF Taken(image, d) THEN Append(s.dcts, image.coef[Place(d)]) ELSE s.dcts
<1>1. DOMAIN s = {"image", "wib", "most", "c", "dcts", "pos"} /\ s.image = image /\ s.wib = Widths(image)
  BY DEF Taking
<1>2. r = [s EXCEPT !.c = d, !.dcts = q, !.pos = p]
  BY <1>1 DEF TakeDct
<1> HIDE DEF r, d, p, q
<1>3. /\ DOMAIN r = DOMAIN s /\ r.image = s.image /\ r.wib = s.wib /\ r.most = s.most /\ r.dcts = q
      /\ r.c = d /\ r.pos = p
  BY <1>1, <1>2
<1> QED BY <1>3 DEF r, d, p, q

\* One walk more, over two images that differ in high bits only, takes the same of both.
LEMMA TakenAlike ==
    ASSUME NEW image, NEW new, SameBits(image, new), NEW s, Taking(image, s), NEW t, Taking(new, t),
           Alike(s, t), NEW e
    PROVE  /\ Taking(image, TakeDct(s, e)) /\ Taking(new, TakeDct(t, e))
           /\ Alike(TakeDct(s, e), TakeDct(t, e))
<1> DEFINE w == Widths(image)
           d == Advance(s.c, w, image.hib)
           u == TakeDct(s, e)
           v == TakeDct(t, e)
<1>1. Widths(new) = w /\ new.hib = image.hib /\ Len(t.dcts) = Len(s.dcts) /\ t.most = s.most /\ t.c = s.c /\ t.pos = s.pos
  BY DEF SameBits, Widths, Alike
<1>2. s.dcts \in Seq(Int) /\ t.dcts \in Seq(Int) /\ OnImage(image, s.c)
  BY DEF Taking
<1>3. /\ OnImage(image, d) /\ OnImage(new, d)
      /\ ~s.c.ended /\ ~d.ended => Place(d) \in AreaOf(image)
  <2>1. IsPicture(image)
    BY DEF SameBits
  <2>2. OnImage(image, d) /\ (~s.c.ended /\ ~d.ended => Place(d) \in AreaOf(image))
    BY <1>2, <2>1, AdvanceOnImage
  <2> HIDE DEF d
  <2> QED BY <1>1, <2>2 DEF OnImage
<1>4. Advance(t.c, Widths(new), new.hib) = d
  BY <1>1
<1>5. CASE s.c.ended \/ Len(s.dcts) >= s.most
  <2>1. u = s /\ v = t
    BY <1>1, <1>5, TakenNot
  <2> QED BY <2>1
<1>6. CASE ~(s.c.ended \/ Len(s.dcts) >= s.most) /\ d.ended
  <2> HIDE DEF u, v
  <2>1. /\ DOMAIN u = DOMAIN s /\ u.image = s.image /\ u.wib = s.wib /\ u.most = s.most /\ u.dcts = s.dcts
        /\ u.c = d /\ u.pos = IF s.c.lt <= 2 THEN Append(s.pos, Len(s.dcts)) ELSE s.pos
    BY <1>6, TakenEnd DEF u
  <2>2. ~(t.c.ended \/ Len(t.dcts) >= t.most) /\ Advance(t.c, Widths(new), new.hib).ended
    BY <1>1, <1>4, <1>6
  <2>3. /\ DOMAIN v = DOMAIN t /\ v.image = t.image /\ v.wib = t.wib /\ v.most = t.most /\ v.dcts = t.dcts
        /\ v.c = Advance(t.c, Widths(new), new.hib)
        /\ v.pos = IF t.c.lt <= 2 THEN Append(t.pos, Len(t.dcts)) ELSE t.pos
    BY <2>2, TakenEnd DEF v
  <2> HIDE DEF d
  <2>4. Taking(image, u) /\ Taking(new, v)
    BY <1>1, <1>3, <1>4, <2>1, <2>3 DEF Taking
  <2>5. Alike(u, v)
    BY <1>1, <1>4, <2>1, <2>3 DEF Alike
  <2> QED BY <2>4, <2>5 DEF u, v
<1>7. CASE ~(s.c.ended \/ Len(s.dcts) >= s.most) /\ ~d.ended
  <2> HIDE DEF u, v
  <2>1. /\ DOMAIN u = DOMAIN s /\ u.image = s.image /\ u.wib = s.wib /\ u.most = s.most /\ u.c = d
        /\ u.dcts = IF Taken(image, d) THEN Append(s.dcts, image.coef[Place(d)]) ELSE s.dcts
        /\ u.pos = IF d.lt > s.c.lt /\ s.c.lt <= 2 THEN Append(s.pos, Len(s.dcts)) ELSE s.pos
    BY <1>7, TakenOne DEF u
  <2>2. ~(t.c.ended \/ Len(t.dcts) >= t.most) /\ ~Advance(t.c, Widths(new), new.hib).ended
    BY <1>1, <1>4, <1>7
  <2>3. /\ DOMAIN v = DOMAIN t /\ v.image = t.image /\ v.wib = t.wib /\ v.most = t.most
        /\ v.c = Advance(t.c, Widths(new), new.hib)
        /\ v.dcts = IF Taken(new, Advance(t.c, Widths(new), new.hib))
                    THEN Append(t.dcts, new.coef[Place(Advance(t.c, Widths(new), new.hib))]) ELSE t.dcts
        /\ v.pos = IF Advance(t.c, Widths(new), new.hib).lt > t.c.lt /\ t.c.lt <= 2
                   THEN Append(t.pos, Len(t.dcts)) ELSE t.pos
    BY <2>2, TakenOne DEF v
  <2> HIDE DEF d
  <2>4. /\ v.c = d /\ v.pos = u.pos
        /\ v.dcts = IF Taken(new, d) THEN Append(t.dcts, new.coef[Place(d)]) ELSE t.dcts
    BY <1>1, <1>4, <2>1, <2>3
  <2> DEFINE p == Place(d)
             a == image.coef[p]
             b == new.coef[p]
  <2>5. a \in Int /\ b \in Int /\ LowBits(b) = LowBits(a) /\ (b \in -1..1 <=> a \in -1..1)
    <3>1. p \in AreaOf(image)
      BY <1>3, <1>7
    <3> HIDE DEF p
    <3> QED BY <3>1 DEF SameBits
  <2>6. Taken(new, d) <=> Taken(image, d)
    BY <2>5 DEF Taken
  <2> HIDE DEF a, b, p
  <2>7. CASE Taken(image, d)
    <3>1. u.dcts = Append(s.dcts, a) /\ v.dcts = Append(t.dcts, b)
      BY <2>1, <2>4, <2>6, <2>7 DEF a, b, p
    <3>2. u.dcts \in Seq(Int) /\ v.dcts \in Seq(Int) /\ Len(v.dcts) = Len(u.dcts) /\ Len(u.dcts) = Len(s.dcts) + 1
      BY <1>1, <1>2, <2>5, <3>1
    <3>3. ASSUME NEW k \in 1..Len(u.dcts) PROVE LowBits(v.dcts[k]) = LowBits(u.dcts[k])
      <4>1. CASE k = Len(s.dcts) + 1
        <5>1. u.dcts[k] = a /\ v.dcts[k] = b
          BY <1>1, <1>2, <2>5, <3>1, <4>1
        <5> QED BY <2>5, <5>1
      <4>2. CASE k # Len(s.dcts) + 1
        <5>1. k \in 1..Len(s.dcts)
          BY <1>2, <3>2, <4>2
        <5>2. u.dcts[k] = s.dcts[k] /\ v.dcts[k] = t.dcts[k]
          BY <1>1, <1>2, <2>5, <3>1, <5>1
        <5> QED BY <5>1, <5>2 DEF Alike
      <4> QED BY <4>1, <4>2
    <3>4. Taking(image, u) /\ Taking(new, v)
      BY <1>3, <2>1, <2>3, <2>4, <3>2 DEF Taking
    <3>5. Alike(u, v)
      BY <1>1, <2>1, <2>3, <2>4, <3>2, <3>3 DEF Alike
    <3> QED BY <3>4, <3>5 DEF u, v
  <2>8. CASE ~Taken(image, d)
    <3>1. u.dcts = s.dcts /\ v.dcts = t.dcts
      BY <2>1, <2>4, <2>6, <2>8
    <3>2. Taking(image, u) /\ Taking(new, v)
      BY <1>3, <2>1, <2>3, <2>4, <3>1 DEF Taking
    <3>3. Alike(u, v)
      BY <1>1, <2>1, <2>3, <2>4, <3>1 DEF Alike
    <3> QED BY <3>2, <3>3 DEF u, v
  <2> QED BY <2>7, <2>8
<1> QED BY <1>5, <1>6, <1>7

-----------------------------------------------------------------------------
(* The message behind the reworked image.                                  *)

\* The same of the walks over two images, for the induction over their turns.
BothTaken(given, s, k) ==
    Taking(given.image, s) /\ Taking(given.new, given.walk[k]) /\ Alike(s, given.walk[k])

Dcts == INSTANCE FoldFacts WITH Op <- TakeDct, P <- BothTaken

LEMMA DctsFold ==
    ASSUME NEW base, NEW s
    PROVE  FoldLeft(TakeDct, base, s) = Dcts!Fold(base, s)
BY DEF FoldLeft, Dcts!Fold, MapThenFoldSet, Max, Dcts!Greatest

\* The loop goes as often round as there are blocks at most.
Turns(image) == Len(ltab) * Max({image.wib[c] * image.hib[c] : c \in Component}) + 1
Untaken(image) == [image |-> image, wib |-> Widths(image),
                  most |-> Size(image, 0) + Size(image, 1) + Size(image, 2),
                  c |-> StartCursor, dcts |-> <<>>, pos |-> <<>>]

LEMMA TurnsType ==
    ASSUME NEW image, IsPicture(image)
    PROVE  Turns(image) \in Nat
<1> DEFINE B(c) == image.wib[c] * image.hib[c]
           S == {B(c) : c \in Component}
<1>1. \A c \in Component : B(c) \in Nat
  <2> TAKE c \in Component
  <2>1. image.wib[c] \in Nat /\ image.hib[c] \in Nat
    BY RowsOf
  <2> QED BY <2>1
<1>2. Component = {0, 1, 2}
  BY DEF Component
<1> HIDE DEF B
<1>3. S = {B(0), B(1), B(2)} /\ B(0) \in Nat /\ B(1) \in Nat /\ B(2) \in Nat
  BY <1>1, <1>2
<1>4. \E x \in S : \A y \in S : x >= y
  BY <1>3
<1>5. Max(S) \in S
  BY <1>4 DEF Max
<1>6. Max(S) \in Nat
  BY <1>3, <1>5
<1> HIDE DEF S
<1>7. Len(ltab) \in Nat
  BY OrderIs
<1>8. \A a, b \in Nat : a * b + 1 \in Nat
  OBVIOUS
<1>9. Len(ltab) * Max(S) + 1 \in Nat
  BY <1>6, <1>7, <1>8
<1> QED BY <1>9 DEF Turns, S, B

LEMMA PreparedIs ==
    ASSUME NEW image
    PROVE  PrepareJphideDcts(image) = FoldLeft(TakeDct, Untaken(image), [e \in 1..Turns(image) |-> e])
BY DEF PrepareJphideDcts, Turns, Untaken, Widths

\* Of two images that differ in high bits only, prepare_jphide() takes the same coefficients.
LEMMA PreparedAlike ==
    ASSUME NEW image, NEW new, SameBits(image, new)
    PROVE  /\ Taking(image, PrepareJphideDcts(image)) /\ Taking(new, PrepareJphideDcts(new))
           /\ Alike(PrepareJphideDcts(image), PrepareJphideDcts(new))
<1> DEFINE m == Turns(image)
           turns == [e \in 1..m |-> e]
<1>1. m \in Nat
  BY TurnsType DEF SameBits
<1>2. Turns(new) = m
  BY DEF SameBits, Turns
<1> HIDE DEF m
<1>3. turns \in Seq(Nat) /\ Len(turns) = m
  BY <1>1
<1> HIDE DEF turns
<1> DEFINE base == Untaken(image)
           other == Untaken(new)
<1>4. PICK h : Dcts!Leads(h, other, turns)
  BY <1>3, Dcts!FoldSteps
<1>5. /\ h[0] = other /\ h[m] = Dcts!Fold(other, turns)
      /\ \A k \in 1..m : h[k] = TakeDct(h[k - 1], turns[k])
  BY <1>3, <1>4 DEF Dcts!Leads
<1> DEFINE given == [image |-> image, new |-> new, walk |-> h]
<1>6. BothTaken(given, base, 0)
  <2>1. OnImage(image, StartCursor) /\ OnImage(new, StartCursor)
    BY StartOnImage DEF SameBits
  <2>2. Taking(image, base)
    BY <2>1 DEF Untaken, Taking
  <2>3. Taking(new, other)
    BY <2>1 DEF Untaken, Taking
  <2>4. Alike(base, other)
    BY DEF Untaken, Alike, SameBits, Size
  <2> HIDE DEF base, other
  <2> QED BY <1>5, <2>2, <2>3, <2>4 DEF BothTaken
<1>7. ASSUME NEW k \in 1..m, NEW v, BothTaken(given, v, k - 1)
      PROVE  BothTaken(given, TakeDct(v, turns[k]), k)
  <2>1. h[k] = TakeDct(h[k - 1], turns[k])
    BY <1>5
  <2>2. Taking(image, v) /\ Taking(new, h[k - 1]) /\ Alike(v, h[k - 1])
    BY <1>7 DEF BothTaken
  <2>3. /\ Taking(image, TakeDct(v, turns[k])) /\ Taking(new, TakeDct(h[k - 1], turns[k]))
        /\ Alike(TakeDct(v, turns[k]), TakeDct(h[k - 1], turns[k]))
    BY <2>2, TakenAlike
  <2> QED BY <2>1, <2>3 DEF BothTaken
<1> HIDE DEF given, base, other
<1>8. BothTaken(given, Dcts!Fold(base, turns), Len(turns))
  BY <1>3, <1>6, <1>7, Dcts!FoldKeeps
<1>9. PrepareJphideDcts(image) = Dcts!Fold(base, turns) /\ PrepareJphideDcts(new) = Dcts!Fold(other, turns)
  BY <1>2, PreparedIs, DctsFold DEF base, other, turns, m
<1> QED BY <1>3, <1>5, <1>8, <1>9 DEF BothTaken, given

LEMMA DeimagedBits ==
    ASSUME NEW image, IsPicture(image), NEW other, IsPicture(other)
    PROVE  SameBits(image, Deimaged(image, other))
BY DeimagedPicture DEF SameBits

\* The coefficients that are taken are numbers, in either order.
LEMMA ReadType ==
    ASSUME NEW image, IsPicture(image)
    PROVE  PrepareJphideDcts(image).dcts \in Seq(Int) /\ \E m \in Nat : DOMAIN PrepareAll(image) = 1..m
<1>1. SameBits(image, Deimaged(image, image))
  BY DeimagedBits
<1>2. PrepareJphideDcts(image).dcts \in Seq(Int)
  BY <1>1, PreparedAlike DEF Taking
<1>3. ASSUME NEW c \in Component PROVE PlacesOf(image, c) \in Seq(Component \X Int \X Int)
  <2>1. /\ Row(image, c) \in Nat /\ Row(image, c) >= DCTSIZE2 /\ DCTSIZE2 \in Nat \ {0}
        /\ image.wib[c] \in Nat /\ image.hib[c] \in Nat
    BY RowsOf, OrderIs
  <2>2. \A a, b, q \in Nat : a * b * q \in Nat
    OBVIOUS
  <2>3. Size(image, c) \in Nat
    BY <2>1, <2>2 DEF Size
  <2>4. \A e \in 1..Size(image, c) :
            <<c, (e - 1) \div Row(image, c), (e - 1) % Row(image, c)>> \in Component \X Int \X Int
    <3> TAKE e \in 1..Size(image, c)
    <3>1. Row(image, c) \in Nat \ {0} /\ e - 1 \in Int
      BY <2>1, <2>3
    <3>2. \A a \in Int : \A b \in Nat \ {0} : a \div b \in Int /\ a % b \in Int
      OBVIOUS
    <3> QED BY <3>1, <3>2
  <2> QED BY <2>3, <2>4 DEF PlacesOf
<1>4. AllPlaces(image) \in Seq(Component \X Int \X Int)
  <2>1. 0 \in Component /\ 1 \in Component /\ 2 \in Component
    BY DEF Component
  <2> QED BY <1>3, <2>1 DEF AllPlaces
<1> DEFINE s == AllPlaces(image)
<1>5. DOMAIN s = 1..Len(s) /\ Len(s) \in Nat
  <2> HIDE DEF s
  <2> QED BY <1>4 DEF s
<1>6. DOMAIN PrepareAll(image) = 1..Len(s)
  BY <1>5 DEF PrepareAll
<1> QED BY <1>2, <1>5, <1>6

\* A message is where it was, with the bits it had.
LEMMA MessageReadable ==
    ASSUME NEW image, IsPicture(image), NEW other, IsPicture(other)
    PROVE  LET original == PrepareJphideDcts(image)
               reworked  == PrepareJphideDcts(Deimaged(image, other))
           IN  /\ reworked.pos = original.pos
               /\ [e \in DOMAIN reworked.dcts |-> LowBits(reworked.dcts[e])]
                    = [e \in DOMAIN original.dcts |-> LowBits(original.dcts[e])]
<1> DEFINE new == Deimaged(image, other)
           s == PrepareJphideDcts(image)
           t == PrepareJphideDcts(new)
<1>1. SameBits(image, new)
  BY DeimagedBits
<1> HIDE DEF new
<1>2. Taking(image, s) /\ Taking(new, t) /\ Alike(s, t)
  BY <1>1, PreparedAlike
<1> HIDE DEF s, t
<1>3. s.dcts \in Seq(Int) /\ t.dcts \in Seq(Int)
  BY <1>2 DEF Taking
<1>4. t.pos = s.pos /\ Len(t.dcts) = Len(s.dcts) /\ \A e \in 1..Len(s.dcts) : LowBits(t.dcts[e]) = LowBits(s.dcts[e])
  BY <1>2 DEF Alike
<1>5. DOMAIN s.dcts = 1..Len(s.dcts) /\ DOMAIN t.dcts = 1..Len(s.dcts)
  BY <1>3, <1>4
<1>6. [e \in DOMAIN t.dcts |-> LowBits(t.dcts[e])] = [e \in DOMAIN s.dcts |-> LowBits(s.dcts[e])]
  BY <1>4, <1>5
<1> QED BY <1>4, <1>6 DEF s, t, new

-----------------------------------------------------------------------------
(* Counting up to a place.                                                 *)

\* A set of numbers up to k, and one with k + 1 in it or not.
LEMMA OneMoreCounted ==
    ASSUME NEW k \in Nat, NEW A, NEW B, A \subseteq 1..k, B \subseteq 1..(k + 1),
           \A j \in 1..k : j \in A <=> j \in B
    PROVE  /\ Cardinality(A) \in Nat
           /\ Cardinality(B) = IF k + 1 \in B THEN Cardinality(A) + 1 ELSE Cardinality(A)
<1>1. IsFiniteSet(A) /\ Cardinality(A) \in Nat
  <2>1. IsFiniteSet(1..k)
    BY FS_Interval
  <2> QED BY <2>1, FS_Subset, FS_CardinalityType
<1>2. k + 1 \notin A
  OBVIOUS
<1>3. CASE k + 1 \in B
  <2>1. B = A \cup {k + 1}
    <3>1. \A j \in 1..(k + 1) : j \in 1..k \/ j = k + 1
      OBVIOUS
    <3> QED BY <1>3, <3>1
  <2>2. Cardinality(A \cup {k + 1}) = Cardinality(A) + 1
    BY <1>1, <1>2, FS_AddElement
  <2> QED BY <1>1, <1>3, <2>1, <2>2
<1>4. CASE k + 1 \notin B
  <2>1. B = A
    <3>1. \A j \in 1..(k + 1) : j \in 1..k \/ j = k + 1
      OBVIOUS
    <3> QED BY <1>4, <3>1
  <2> QED BY <1>1, <1>4, <2>1
<1> QED BY <1>3, <1>4

\* How often a value comes among the first k of a sequence, and how often it is changed there.
Occurs(s, v, k) == {j \in 1..k : s[j] = v}
Replaced(s, t, v, k) == {j \in 1..k : s[j] = v /\ s[j] # t[j]}
Values == -HistMax..HistMax
Tallies(s, t, k) ==
    [changes |-> [v \in Values |-> Cardinality(Replaced(s, t, v, k))],
     first   |-> [v \in Values |-> Cardinality(Occurs(s, v, k))],
     second  |-> [v \in Values |-> Cardinality(Occurs(t, v, k))]]

LEMMA OccursNext ==
    ASSUME NEW s, NEW v, NEW k \in Nat
    PROVE  /\ Cardinality(Occurs(s, v, k)) \in Nat
           /\ Cardinality(Occurs(s, v, k + 1)) =
                IF s[k + 1] = v THEN Cardinality(Occurs(s, v, k)) + 1 ELSE Cardinality(Occurs(s, v, k))
<1> DEFINE A == Occurs(s, v, k)
           B == Occurs(s, v, k + 1)
<1>1. A \subseteq 1..k /\ B \subseteq 1..(k + 1) /\ (\A j \in 1..k : j \in A <=> j \in B)
  BY DEF Occurs
<1>2. k + 1 \in B <=> s[k + 1] = v
  BY DEF Occurs
<1> HIDE DEF A, B
<1> QED BY <1>1, <1>2, OneMoreCounted DEF A, B

LEMMA ReplacedNext ==
    ASSUME NEW s, NEW t, NEW v, NEW k \in Nat
    PROVE  /\ Cardinality(Replaced(s, t, v, k)) \in Nat
           /\ Cardinality(Replaced(s, t, v, k + 1)) =
                IF s[k + 1] = v /\ s[k + 1] # t[k + 1] THEN Cardinality(Replaced(s, t, v, k)) + 1
                                                       ELSE Cardinality(Replaced(s, t, v, k))
<1> DEFINE A == Replaced(s, t, v, k)
           B == Replaced(s, t, v, k + 1)
<1>1. A \subseteq 1..k /\ B \subseteq 1..(k + 1) /\ (\A j \in 1..k : j \in A <=> j \in B)
  BY DEF Replaced
<1>2. k + 1 \in B <=> s[k + 1] = v /\ s[k + 1] # t[k + 1]
  BY DEF Replaced
<1> HIDE DEF A, B
<1> QED BY <1>1, <1>2, OneMoreCounted DEF A, B

LEMMA NothingTallied ==
    ASSUME NEW s, NEW t PROVE Tallies(s, t, 0) = NoHists
<1>1. \A v : Occurs(s, v, 0) = {} /\ Occurs(t, v, 0) = {} /\ Replaced(s, t, v, 0) = {}
  BY DEF Occurs, Replaced
<1>2. Cardinality({}) = 0
  BY FS_EmptySet
<1> QED BY <1>1, <1>2 DEF Tallies, NoHists, NoHist, Values

\* A turn of docompare() counts one place more.
LEMMA TalliesNext ==
    ASSUME NEW s, NEW t, NEW k \in Nat
    PROVE  LET a == s[k + 1]
               b == t[k + 1]
               h == Tallies(s, t, k)
           IN  Tallies(s, t, k + 1) =
                [changes |-> IF a # b THEN Tallied(h.changes, a) ELSE h.changes,
                 first |-> Tallied(h.first, a), second |-> Tallied(h.second, b)]
<1> DEFINE a == s[k + 1]
           b == t[k + 1]
           O(v) == Cardinality(Occurs(s, v, k))
           U(v) == Cardinality(Occurs(t, v, k))
           R(v) == Cardinality(Replaced(s, t, v, k))
           O1(v) == Cardinality(Occurs(s, v, k + 1))
           U1(v) == Cardinality(Occurs(t, v, k + 1))
           R1(v) == Cardinality(Replaced(s, t, v, k + 1))
<1>1. \A v : O(v) \in Nat /\ O1(v) = IF a = v THEN O(v) + 1 ELSE O(v)
  BY OccursNext
<1>2. \A v : U(v) \in Nat /\ U1(v) = IF b = v THEN U(v) + 1 ELSE U(v)
  BY OccursNext
<1>3. \A v : R(v) \in Nat /\ R1(v) = IF a = v /\ a # b THEN R(v) + 1 ELSE R(v)
  BY ReplacedNext
<1>4. /\ Tallies(s, t, k).changes = [v \in Values |-> R(v)]
      /\ Tallies(s, t, k).first = [v \in Values |-> O(v)]
      /\ Tallies(s, t, k).second = [v \in Values |-> U(v)]
  BY DEF Tallies
<1>5. Tallies(s, t, k + 1) = [changes |-> [v \in Values |-> R1(v)], first |-> [v \in Values |-> O1(v)],
                              second |-> [v \in Values |-> U1(v)]]
  BY DEF Tallies
<1> HIDE DEF a, b, O, U, R, O1, U1, R1
<1>6. Tallied([v \in Values |-> O(v)], a) = [v \in Values |-> O1(v)]
  BY <1>1 DEF Tallied
<1>7. Tallied([v \in Values |-> U(v)], b) = [v \in Values |-> U1(v)]
  BY <1>2 DEF Tallied
<1>8. (IF a # b THEN Tallied([v \in Values |-> R(v)], a) ELSE [v \in Values |-> R(v)]) = [v \in Values |-> R1(v)]
  BY <1>3 DEF Tallied
<1>9. Tallies(s, t, k + 1) =
        [changes |-> IF a # b THEN Tallied(Tallies(s, t, k).changes, a) ELSE Tallies(s, t, k).changes,
         first |-> Tallied(Tallies(s, t, k).first, a), second |-> Tallied(Tallies(s, t, k).second, b)]
  BY <1>4, <1>5, <1>6, <1>7, <1>8
<1> QED BY <1>9 DEF a, b

\* Changes are among what is counted, and only they take from one histogram to the other.
LEMMA ChangesBound ==
    ASSUME NEW s, NEW t, NEW v, NEW k \in Nat
    PROVE  /\ Cardinality(Replaced(s, t, v, k)) <= Cardinality(Occurs(s, v, k))
           /\ Cardinality(Occurs(s, v, k)) - Cardinality(Occurs(t, v, k)) <= Cardinality(Replaced(s, t, v, k))
<1> DEFINE A == Occurs(s, v, k)
           B == Occurs(t, v, k)
           C == Replaced(s, t, v, k)
<1>1. A \subseteq 1..k /\ B \subseteq 1..k /\ C \subseteq A /\ A \subseteq B \cup C
  BY DEF Occurs, Replaced
<1> HIDE DEF A, B, C
<1>2. IsFiniteSet(1..k)
  BY FS_Interval
<1>3. IsFiniteSet(A) /\ IsFiniteSet(B) /\ IsFiniteSet(C)
  BY <1>1, <1>2, FS_Subset
<1>4. Cardinality(C) <= Cardinality(A)
  BY <1>1, <1>3, FS_Subset
<1>5. /\ IsFiniteSet(B \cup C) /\ IsFiniteSet(B \cap C)
      /\ Cardinality(B \cup C) = Cardinality(B) + Cardinality(C) - Cardinality(B \cap C)
  BY <1>3, FS_Union, FS_Intersection
<1>6. Cardinality(A) <= Cardinality(B \cup C)
  BY <1>1, <1>5, FS_Subset
<1>7. Cardinality(A) \in Nat /\ Cardinality(B) \in Nat /\ Cardinality(C) \in Nat /\ Cardinality(B \cap C) \in Nat
  BY <1>3, <1>5, FS_CardinalityType
<1>8. Cardinality(A) - Cardinality(B) <= Cardinality(C)
  BY <1>5, <1>6, <1>7
<1> QED BY <1>4, <1>8 DEF A, B, C

-----------------------------------------------------------------------------
(* What is counted is what the two images differ in.                       *)

\* What docompare() reads is a sequence.
LEMMA ReadsRow ==
    ASSUME NEW image, IsPicture(image)
    PROVE  IsSeq(PrepareJphideDcts(image).dcts) /\ IsSeq(PrepareAll(image))
<1>1. PrepareJphideDcts(image).dcts \in Seq(Int)
  BY ReadType
<1>2. PICK m \in Nat : DOMAIN PrepareAll(image) = 1..m
  BY ReadType
<1> DEFINE f == PrepareAll(image)
           S == {f[e] : e \in 1..m}
<1>3. f = [e \in DOMAIN f |-> f[e]]
  BY DEF PrepareAll
<1> HIDE DEF f
<1>4. f \in Seq(S)
  <2>1. f \in [1..m -> S]
    BY <1>2, <1>3 DEF f
  <2> HIDE DEF S
  <2> QED BY <2>1
<1> QED BY <1>1, <1>4 DEF IsSeq, f

\* The places at which the two rows differ.
Differing == {e \in DOMAIN dcts[1] : dcts[1][e] # dcts[2][e]}
\* Up to which place the numbers count that are kept for the end.
LastChange(m) == m \in Differing /\ m <= turn /\ \A e \in Differing : e <= turn => e <= m

CountsInv ==
    /\ IsPicture(orig) /\ IsPicture(modified)
    /\ step \in {"deimage", "open", "compare", "printed", "differ"}
    /\ step \in {"deimage", "open"} => turn = 0 /\ changes = 0 /\ hist = NoHists
    /\ step \in {"compare", "printed"} =>
        /\ IsSeq(dcts[1]) /\ IsSeq(dcts[2]) /\ Len(dcts[1]) = Len(dcts[2])
        /\ turn \in 0..Len(dcts[1]) /\ changes \in Nat
        /\ changes = 0 => \A e \in Differing : e > turn
        /\ jphide /\ changes > 0 => \E m : LastChange(m) /\ shist = Tallies(dcts[1], dcts[2], m)
    /\ step = "compare" => hist = Tallies(dcts[1], dcts[2], turn)
    /\ step = "printed" => turn = Len(dcts[1]) /\ hist = IF jphide THEN shist ELSE Tallies(dcts[1], dcts[2], turn)

LEMMA CountsInit == CoefficientsInit => CountsInv
BY PicturesAssumption DEF CoefficientsInit, CountsInv

LEMMA CountsDeimage == ASSUME CountsInv, Deimage PROVE CountsInv'
<1>1. IsPicture(orig) /\ IsPicture(modified)
  BY DEF CountsInv
<1>2. IsPicture(modified')
  BY <1>1, DeimagedPicture DEF Deimage
<1>3. step = "deimage" /\ step' = "open" /\ orig' = orig /\ turn' = turn /\ changes' = changes /\ hist' = hist
  BY DEF Deimage
<1>4. turn = 0 /\ changes = 0 /\ hist = NoHists
  BY <1>3 DEF CountsInv
<1> QED BY <1>1, <1>2, <1>3, <1>4 DEF CountsInv

LEMMA CountsOpenBoth == ASSUME CountsInv, OpenBoth PROVE CountsInv'
<1> DEFINE Given(image) == IF jphide THEN PrepareJphideDcts(image).dcts ELSE PrepareAll(image)
<1>1. IsPicture(orig) /\ IsPicture(modified)
  BY DEF CountsInv
<1>2. IsSeq(Given(orig)) /\ IsSeq(Given(modified))
  BY <1>1, ReadsRow
<1>3. dcts' = <<Given(orig), Given(modified)>>
  BY DEF OpenBoth
<1>4. /\ step = "open" /\ orig' = orig /\ modified' = modified /\ turn' = turn /\ changes' = changes /\ hist' = hist
      /\ step' = IF Len(dcts'[1]) = Len(dcts'[2]) THEN "compare" ELSE "differ"
  BY DEF OpenBoth
<1>5. turn = 0 /\ changes = 0 /\ hist = NoHists
  BY <1>4 DEF CountsInv
<1> HIDE DEF Given
<1>6. IsSeq(dcts'[1]) /\ IsSeq(dcts'[2])
  BY <1>2, <1>3
<1>7. Len(dcts'[1]) \in Nat /\ DOMAIN dcts'[1] = 1..Len(dcts'[1])
  BY <1>6, IsSeqLen
<1>8. \A e \in Differing' : e > turn'
  BY <1>4, <1>5, <1>7 DEF Differing
<1>9. hist' = Tallies(dcts'[1], dcts'[2], turn')
  BY <1>4, <1>5, NothingTallied
<1> QED BY <1>1, <1>4, <1>5, <1>6, <1>7, <1>8, <1>9 DEF CountsInv

LEMMA CountsCompareNext == ASSUME CountsInv, CompareNext PROVE CountsInv'
<1> DEFINE s == dcts[1]
           t == dcts[2]
           a == s[turn + 1]
           b == t[turn + 1]
<1>1. /\ step = "compare" /\ turn < Len(s) /\ turn' = turn + 1 /\ step' = step /\ orig' = orig
      /\ modified' = modified /\ jphide' = jphide /\ dcts' = dcts
  BY DEF CompareNext
<1>2. /\ IsPicture(orig) /\ IsPicture(modified) /\ IsSeq(s) /\ IsSeq(t) /\ Len(s) = Len(t)
      /\ turn \in 0..Len(s) /\ changes \in Nat /\ hist = Tallies(s, t, turn)
      /\ changes = 0 => \A e \in Differing : e > turn
      /\ jphide /\ changes > 0 => \E m : LastChange(m) /\ shist = Tallies(s, t, m)
  BY <1>1 DEF CountsInv
<1>3. DOMAIN s = 1..Len(s) /\ Len(s) \in Nat
  BY <1>2, IsSeqLen
<1>4. hist' = Tallies(s, t, turn + 1)
  <2>1. hist' = [changes |-> IF a # b THEN Tallied(hist.changes, a) ELSE hist.changes,
                 first |-> Tallied(hist.first, a), second |-> Tallied(hist.second, b)]
    BY DEF CompareNext
  <2>2. turn \in Nat
    BY <1>2, <1>3
  <2> QED BY <1>2, <2>1, <2>2, TalliesNext
<1>5. /\ changes' = IF a # b THEN changes + 1 ELSE changes
      /\ shist' = IF a # b /\ jphide THEN hist' ELSE shist
  BY DEF CompareNext
<1>6. Differing' = Differing /\ Differing \subseteq 1..Len(s) /\ (a # b <=> turn + 1 \in Differing)
  BY <1>1, <1>2, <1>3 DEF Differing
<1> HIDE DEF a, b, s, t
<1>7. turn' \in 0..Len(s) /\ changes' \in Nat
  BY <1>1, <1>2, <1>3, <1>5
<1>8. ASSUME changes' = 0, NEW e \in Differing PROVE e > turn'
  <2>1. a = b /\ changes = 0
    BY <1>2, <1>5, <1>8
  <2>2. e > turn /\ e # turn + 1 /\ e \in Nat
    BY <1>2, <1>3, <1>6, <1>8, <2>1
  <2> QED BY <1>1, <1>2, <1>3, <2>2
<1>9. ASSUME jphide, changes' > 0 PROVE \E m : LastChange(m)' /\ shist' = Tallies(s, t, m)
  <2>1. CASE a # b
    <3>1. shist' = Tallies(s, t, turn + 1)
      BY <1>4, <1>5, <1>9, <2>1
    <3>2. PICK m : m = turn + 1
      OBVIOUS
    <3>3. shist' = Tallies(s, t, m)
      BY <3>1, <3>2
    <3>4. m \in Differing /\ m <= turn' /\ turn' = m
      BY <1>1, <1>2, <1>3, <1>6, <2>1, <3>2
    <3>5. LastChange(m)'
      BY <1>6, <3>4 DEF LastChange
    <3> QED BY <3>3, <3>5
  <2>2. CASE a = b
    <3>1. changes > 0 /\ shist' = shist
      BY <1>5, <1>9, <2>2
    <3>2. PICK m : LastChange(m) /\ shist = Tallies(s, t, m)
      BY <1>2, <1>9, <3>1
    <3>3. m \in Differing /\ m <= turn + 1
      BY <1>2, <1>3, <1>6, <3>2 DEF LastChange
    <3>4. ASSUME NEW e \in Differing, e <= turn + 1 PROVE e <= m
      <4>1. e # turn + 1
        BY <1>6, <2>2, <3>4
      <4>2. e <= turn
        BY <1>2, <1>3, <1>6, <3>4, <4>1
      <4> QED BY <3>2, <4>2 DEF LastChange
    <3>5. LastChange(m)'
      BY <1>1, <1>6, <3>3, <3>4 DEF LastChange
    <3> QED BY <3>1, <3>2, <3>5
  <2> QED BY <2>1, <2>2
<1> QED BY <1>1, <1>2, <1>4, <1>6, <1>7, <1>8, <1>9 DEF CountsInv, s, t

LEMMA CountsCompareEnd == ASSUME CountsInv, CompareEnd PROVE CountsInv'
<1>1. /\ step = "compare" /\ turn = Len(dcts[1]) /\ step' = "printed" /\ hist' = (IF jphide THEN shist ELSE hist)
      /\ orig' = orig /\ modified' = modified /\ jphide' = jphide /\ dcts' = dcts /\ turn' = turn
      /\ changes' = changes /\ shist' = shist
  BY DEF CompareEnd
<1>2. /\ IsPicture(orig) /\ IsPicture(modified) /\ hist = Tallies(dcts[1], dcts[2], turn)
      /\ IsSeq(dcts[1]) /\ IsSeq(dcts[2]) /\ Len(dcts[1]) = Len(dcts[2])
      /\ turn \in 0..Len(dcts[1]) /\ changes \in Nat
      /\ changes = 0 => \A e \in Differing : e > turn
      /\ jphide /\ changes > 0 => \E m : LastChange(m) /\ shist = Tallies(dcts[1], dcts[2], m)
  BY <1>1 DEF CountsInv
<1>3. Differing' = Differing /\ \A m : LastChange(m)' <=> LastChange(m)
  BY <1>1 DEF Differing, LastChange
<1> QED BY <1>1, <1>2, <1>3 DEF CountsInv

LEMMA CountsNext == CountsInv /\ [CoefficientsNext]_coefficientVars => CountsInv'
<1> SUFFICES ASSUME CountsInv, [CoefficientsNext]_coefficientVars PROVE CountsInv'
  OBVIOUS
<1>1. CASE UNCHANGED coefficientVars
  BY <1>1 DEF coefficientVars, CountsInv, Differing, LastChange
<1> QED BY <1>1, CountsDeimage, CountsOpenBoth, CountsCompareNext, CountsCompareEnd DEF CoefficientsNext

\* The histograms that are printed are those of one place, the end or the last change.
LEMMA CountsRight == CountsInv => CountsAgree
<1> SUFFICES ASSUME CountsInv, step = "printed", changes > 0 \/ ~jphide
             PROVE  CountsAgree
  BY DEF CountsAgree
<1> DEFINE s == dcts[1]
           t == dcts[2]
           last == IF jphide THEN Max({e \in DOMAIN s : s[e] # t[e]}) ELSE Len(s)
<1>1. /\ IsSeq(s) /\ turn = Len(s) /\ hist = IF jphide THEN shist ELSE Tallies(s, t, turn)
      /\ jphide => \E m : LastChange(m) /\ shist = Tallies(s, t, m)
  BY DEF CountsInv
<1>2. DOMAIN s = 1..Len(s) /\ Len(s) \in Nat
  BY <1>1, IsSeqLen
<1>3. last \in Nat /\ hist = Tallies(s, t, last)
  <2>1. CASE jphide
    <3>1. PICK m : LastChange(m) /\ shist = Tallies(s, t, m)
      BY <1>1, <2>1
    <3> DEFINE D == {e \in DOMAIN s : s[e] # t[e]}
    <3>2. m \in D /\ D \subseteq Nat /\ \A e \in D : e <= m
      BY <1>1, <1>2, <3>1 DEF LastChange, Differing
    <3> HIDE DEF D
    <3>3. Max(D) \in D /\ \A e \in D : Max(D) >= e
      <4>1. \E x \in D : \A y \in D : x >= y
        BY <3>2
      <4> QED BY <4>1 DEF Max
    <3> DEFINE top == Max(D)
    <3>4. top = m
      <4> HIDE DEF top
      <4>1. top \in Nat /\ m \in Nat /\ top <= m /\ top >= m
        BY <3>2, <3>3 DEF top
      <4> QED BY <4>1
    <3> QED BY <1>1, <2>1, <3>1, <3>2, <3>4 DEF D
  <2>2. CASE ~jphide
    BY <1>1, <1>2, <2>2
  <2> QED BY <2>1, <2>2
<1> HIDE DEF last
<1>4. \A v : /\ Cardinality(Replaced(s, t, v, last)) <= Cardinality(Occurs(s, v, last))
             /\ Cardinality(Occurs(s, v, last)) - Cardinality(Occurs(t, v, last)) <= Cardinality(Replaced(s, t, v, last))
  BY <1>3, ChangesBound
<1>5. /\ DOMAIN hist.changes = Values
      /\ \A v \in Values : /\ hist.changes[v] = Cardinality(Replaced(s, t, v, last))
                           /\ hist.first[v] = Cardinality(Occurs(s, v, last))
                           /\ hist.second[v] = Cardinality(Occurs(t, v, last))
  BY <1>3 DEF Tallies
<1>6. \A v : /\ Occurs(s, v, last) = {k \in 1..last : dcts[1][k] = v}
             /\ Occurs(t, v, last) = {k \in 1..last : dcts[2][k] = v}
  BY DEF Occurs
<1>7. \A v \in DOMAIN hist.changes :
        /\ hist.first[v] = Cardinality({k \in 1..last : dcts[1][k] = v})
        /\ hist.second[v] = Cardinality({k \in 1..last : dcts[2][k] = v})
        /\ hist.changes[v] <= hist.first[v]
        /\ hist.first[v] - hist.second[v] <= hist.changes[v]
  BY <1>4, <1>5, <1>6
<1> QED BY <1>7 DEF CountsAgree, last, s, t

LEMMA MessageRight == CountsInv => MessageKept
BY MessageReadable, PicturesAssumption DEF CountsInv, MessageKept

\* For images of any size and content: behind another image a message is where it was, with the
\* bits it had, in the order in which jphide reads it; and what stegcompare prints is counted up to
\* one place of both images.
THEOREM ComparedCorrect == CoefficientsSpec => []CoefficientsCompared
<1>1. CountsInv => CoefficientsCompared
  BY CountsRight, MessageRight DEF CoefficientsCompared
<1> QED BY <1>1, CountsInit, CountsNext, PTL DEF CoefficientsSpec
=============================================================================
