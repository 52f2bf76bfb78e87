------------------------------ MODULE Wordlist ------------------------------
(***************************************************************************)
(* What do_wordlist_crack() of stegbreak.c does with its rules: cfg_init() *)
(* reads the file, rpp_init() takes the lines of the word list's section   *)
(* from it, rules_count() applies every rule that rpp_next() makes to the  *)
(* empty word, which only checks it, and ends the program when one is      *)
(* wrong; then every rule is made again, and applied to the words.         *)
(*                                                                         *)
(* One word, chosen freely, stands for the words that a rule is applied    *)
(* to: rules_apply() starts with each afresh.                              *)
(***************************************************************************)
EXTENDS Cfg, Rules

CONSTANTS
    Section,      \* SECTION_RULES and SUBSECTION_WORDLIST, in lower case
    WordlistWords \* the words: sequences of characters

ASSUME WordsAssumption == WordlistWords \subseteq Seq(STRING)
ASSUME RulesAssumption == \A f \in CfgFiles : \A k \in DOMAIN f : f[k].rule \in Seq(Char)

VARIABLES
    stage,       \* read, check, words, done, exit
    rules_line,
    checked,     \* local count of rules_check()
    made,        \* history: the rules made in this phase, with their lines and indices
    first_wrong  \* history: the line of the first wrong rule, or 0

loopVars == <<stage, rules_line, checked, made, first_wrong>>
wordlistVars == <<cfgVars, rppVars, rulesVars, loopVars>>

WordlistInit ==
    /\ CfgInit /\ RulesInit
    /\ input = <<>> /\ count = -1 /\ ranges = <<>> /\ output = <<>>
    /\ stack \in [1..RULE_RANGES_MAX -> StackChars] /\ stale = stack
    /\ stage = "read" /\ rules_line = 0 /\ checked = 0 /\ made = <<>> /\ first_wrong = 0

\* cfg_init()
ReadLine ==
    /\ stage = "read" /\ CfgNext
    /\ UNCHANGED <<rppVars, rulesVars, loopVars>>

\* cfg_error()
ReadError ==
    /\ stage = "read" /\ cfg_state = "error" /\ stage' = "exit"
    /\ UNCHANGED <<cfgVars, rppVars, rulesVars, rules_line, checked, made, first_wrong>>

\* rpp_init(): there is a rule, or the program ends.
FindRules ==
    /\ stage = "read" /\ cfg_state = "done"
    /\ LET list == GetList(Section)
       IN  IF list = <<>>
           THEN /\ stage' = "exit" /\ UNCHANGED <<rppVars, rules_line>>
           ELSE /\ stage' = "check" /\ RppInit(list) /\ rules_line' = list[1].number
    /\ UNCHANGED <<cfgVars, rulesVars, checked, made, first_wrong>>

\* The string in the output.
CString(s) ==
    LET ends == {k \in DOMAIN s : s[k] = NoChar}
    IN  IF ends = {} THEN s
        ELSE SubSeq(s, 1, (CHOOSE k \in ends : \A j \in ends : k <= j) - 1)

\* rpp_next() and rules_reject(): a rule that is not rejected is applied to w.
MakeRule(w, debug) ==
    /\ applying = "ready" /\ RppNext
    /\ made' = Append(made, [number |-> input[1].number, pick |-> Indices(Current),
                              rule |-> output'])
    /\ LET rule == CString(output')
           e    == RejectError(rule)
       IN  IF e = "none"
           THEN /\ StartRule(w, FirstCommand(rule), debug)
                /\ UNCHANGED <<rules_errno, first_wrong>>
           ELSE /\ rules_errno' = e
                /\ first_wrong' = (IF first_wrong = 0 THEN input[1].number ELSE first_wrong)
                /\ UNCHANGED <<word, rest, buffer, in, memory, rules_debug, applying>>

\* rules_check(), the next rule.
CheckRule ==
    /\ stage = "check" /\ MakeRule(<<>>, TRUE)
    /\ UNCHANGED <<cfgVars, stage, rules_line, checked>>

\* Mutant of Checked: the line is the one the rule was made from.
CheckedLate ==
    /\ stage = "check" /\ applying \in {"word", "null"}
    /\ IF rules_errno # "none"
       THEN /\ stage' = "exit"
            /\ first_wrong' = (IF first_wrong = 0 THEN made[Len(made)].number ELSE first_wrong)
            /\ UNCHANGED <<rules_line, checked, applying>>
       ELSE /\ rules_line' = made[Len(made)].number
            /\ checked' = checked + 1
            /\ applying' = "ready"
            /\ UNCHANGED <<stage, first_wrong>>
    /\ UNCHANGED <<cfgVars, rppVars, word, rest, buffer, in, memory, rules_debug, rules_errno,
                   made>>

\* rules_apply() has returned: rules_line is the line of the rule to come.
Checked ==
    /\ stage = "check" /\ applying \in {"word", "null"}
    /\ IF rules_errno # "none"
       THEN /\ stage' = "exit"
            /\ first_wrong' = (IF first_wrong = 0 THEN made[Len(made)].number ELSE first_wrong)
            /\ UNCHANGED <<rules_line, checked, applying>>
       ELSE /\ rules_line' = (IF input # <<>> THEN input[1].number ELSE rules_line)
            /\ checked' = checked + 1
            /\ applying' = "ready"
            /\ UNCHANGED <<stage, first_wrong>>
    /\ UNCHANGED <<cfgVars, rppVars, word, rest, buffer, in, memory, rules_debug, rules_errno,
                   made>>

\* rules_count() exits, or returns: the loop starts from the first rule.
CheckEnds ==
    /\ stage = "check" /\ applying = "ready" /\ RppEnds
    /\ IF rules_errno # "none" \/ checked = 0
       THEN stage' = "exit" /\ UNCHANGED <<rppVars, made>>
       ELSE stage' = "words" /\ RppInit(GetList(Section)) /\ made' = <<>>
    /\ UNCHANGED <<cfgVars, rulesVars, rules_line, checked, first_wrong>>

\* A rule and a word of the list.
NextRule ==
    /\ stage = "words"
    /\ \E w \in WordlistWords : MakeRule(w, FALSE)
    /\ UNCHANGED <<cfgVars, stage, rules_line, checked>>

\* db_crack() has the word, if there is one.
Applied ==
    /\ stage = "words" /\ applying \in {"word", "null"} /\ applying' = "ready"
    /\ UNCHANGED <<cfgVars, rppVars, word, rest, buffer, in, memory, rules_debug, rules_errno,
                   loopVars>>

WordsEnd ==
    /\ stage = "words" /\ applying = "ready" /\ RppEnds /\ stage' = "done"
    /\ UNCHANGED <<cfgVars, rppVars, rulesVars, rules_line, checked, made, first_wrong>>

Apply ==
    /\ ApplyCommand \/ ApplyEnds
    /\ UNCHANGED <<cfgVars, rppVars, loopVars>>

WordlistNext ==
    \/ ReadLine \/ ReadError \/ FindRules \/ CheckRule \/ Checked \/ CheckEnds
    \/ NextRule \/ Applied \/ WordsEnd \/ Apply

WordlistSpec == WordlistInit /\ [][WordlistNext]_wordlistVars

-----------------------------------------------------------------------------

\* The lines of the file that the last header of the section is above of.
IsRuleLine(k) ==
    /\ ~Skipped(cfg_file[k]) /\ ~IsHeader(cfg_file[k])
    /\ \E h \in 1..k :
        /\ IsHeader(cfg_file[h]) /\ Lower[cfg_file[h].name] = Section
        /\ \A j \in (h + 1)..k : ~IsHeader(cfg_file[j])
        /\ \A j \in (h + 1)..Len(cfg_file) :
            IsHeader(cfg_file[j]) => Lower[cfg_file[j].name] # Section

\* The combinations of the characters of a line's ranges.
Combinations(data) ==
    LET s == ProcessRule(data)
        Place(p) == {k \in DOMAIN s.ranges : s.ranges[k].pos = p}
        Picks == {f \in [DOMAIN s.ranges -> Char] :
                       \A k \in DOMAIN f : f[k] \in Range(s.ranges[k].chars)}
    IN  {[p \in DOMAIN s.output |->
            IF Place(p) = {} THEN s.output[p] ELSE f[CHOOSE k \in Place(p) : TRUE]] : f \in Picks}

EmptyRange(data) ==
    LET rs == ProcessRule(data).ranges IN \E k \in DOMAIN rs : rs[k].chars = <<>>

\* The rules that the word list is tried with are those of the lines under the
\* last header of their section, in the file's order, and of every line each
\* combination of the characters in its brackets exactly once, in the check
\* as well as afterwards.
EachRuleOnce ==
    stage = "done" =>
        /\ \A i, j \in DOMAIN made : i < j => made[i].number <= made[j].number
        /\ \A i, j \in DOMAIN made :
            /\ made[i].number = made[j].number /\ made[i].rule = made[j].rule
            /\ ~EmptyRange(cfg_file[made[i].number].rule)
            => i = j
        /\ {m.number : m \in Range(made)} = {k \in DOMAIN cfg_file : IsRuleLine(k)}
        /\ \A k \in DOMAIN cfg_file :
            IsRuleLine(k) /\ ~EmptyRange(cfg_file[k].rule) =>
                {m.rule : m \in {x \in Range(made) : x.number = k}}
                    = Combinations(cfg_file[k].rule)
        /\ checked = Len(made)

\* However a rule lets a word grow, it stays within the buffer it is in, and
\* what rules_apply() returns fits what its callers copy it to.
WordFits ==
    /\ \A b \in {0, 1} : Len(buffer[b]) < 2 * RULE_WORD_SIZE
    /\ applying = "word" => Len(buffer[in]) <= rules_max_length

\* The line that the message names is the line of the first wrong rule.
WrongLineNamed == stage = "exit" /\ rules_errno # "none" => rules_line = first_wrong

-----------------------------------------------------------------------------
(* The strengthening that makes WrongLineNamed inductive.                  *)

RuleLines == [number : Nat \ {0}, data : Seq(STRING)]
Sections == [name : DOMAIN Lower, params : Seq(DOMAIN Lower), list : Seq(RuleLines),
             is_list : BOOLEAN]

\* Lines have the numbers they are read with.
Numbered ==
    /\ cfg_file \in Seq(FileLine) /\ number \in 0..Len(cfg_file)
    /\ cfg_database \in Seq(Sections)
    /\ input \in Seq(RuleLines)

\* Until a rule is wrong, rules_line is the line of the rule that is checked or that
\* comes next; from then on it stays at the line of that rule, while the other
\* rules are still made.
LineKept ==
    /\ stage = "read" => rules_errno = "none" /\ first_wrong = 0 /\ applying = "ready"
    /\ stage = "check" /\ rules_errno = "none" => first_wrong = 0
    /\ stage = "check" /\ applying = "ready" =>
         IF rules_errno = "none" THEN input # <<>> => rules_line = input[1].number
         ELSE rules_line = first_wrong /\ first_wrong # 0
    /\ stage = "check" /\ applying # "ready" =>
         IF first_wrong = 0 THEN rules_line = made[Len(made)].number
         ELSE rules_line = first_wrong /\ rules_errno # "none"
    /\ stage = "exit" => applying # "loop"
    /\ WrongLineNamed

-----------------------------------------------------------------------------
(* The strengthening that makes EachRuleOnce inductive.                    *)

\* The lines below the header in line h, of the first last lines: up to the next one.
Below(file, h, last) ==
    {k \in (h + 1)..last :
        ~Skipped(file[k]) /\ \A j \in (h + 1)..k : ~IsHeader(file[j])}

ListOf(file, list, lines) ==
    /\ {list[i].number : i \in DOMAIN list} = lines
    /\ \A i, j \in DOMAIN list : i < j => list[i].number < list[j].number
    /\ \A i \in DOMAIN list : list[i].data = file[list[i].number].rule

\* A section is that of the header in line h; a list has the lines below it.
SectionOf(file, s, h, last) ==
    /\ s.name = Lower[file[h].name]
    /\ ListOf(file, s.list, IF s.is_list THEN Below(file, h, last) ELSE {})

\* The lines with headers, the latest first.
HeaderLines(file, headers, last) ==
    /\ \A i, j \in DOMAIN headers : i < j => headers[j] < headers[i]
    /\ \A k \in 1..last : IsHeader(file[k]) <=> \E j \in DOMAIN headers : headers[j] = k

\* There is a section for each header read.
SectionsRead ==
    \E headers \in [DOMAIN cfg_database -> 1..number] :
        /\ HeaderLines(cfg_file, headers, number)
        /\ \A j \in DOMAIN headers : SectionOf(cfg_file, cfg_database[j], headers[j], number)

\* The lists of indices that the ranges of a line go through, in their order; an empty
\* range stays at its first character.
IndexRange(r) == 1..(IF r.chars = <<>> THEN 1 ELSE Len(r.chars))
Picks(data) ==
    LET rs == ProcessRule(data).ranges
    IN  {f \in [DOMAIN rs -> UNION {IndexRange(rs[k]) : k \in DOMAIN rs}] :
            \A k \in DOMAIN rs : f[k] \in IndexRange(rs[k])}
Before(f, g) == \E k \in DOMAIN g : f[k] < g[k] /\ \A j \in 1..(k - 1) : f[j] = g[j]

WithIndices(rs, f) == [k \in DOMAIN rs |-> [rs[k] EXCEPT !.index = f[k]]]

\* The ranges are those of the current line, with indices within them; what lies
\* between them is as it was.
CurrentRight ==
    LET r == ProcessRule(input[1].data)
    IN  /\ \E f \in Picks(input[1].data) : Current.ranges = WithIndices(r.ranges, f)
        /\ DOMAIN Current.output = DOMAIN r.output
        /\ \A p \in DOMAIN r.output :
            (\A k \in DOMAIN r.ranges : r.ranges[k].pos # p) => Current.output[p] = r.output[p]

\* The lines that are done, and what was made of the current one.
Lines == GetList(Section)
LinesDone == Len(Lines) - Len(input)
PicksOf(line) == {line.number} \X Picks(line.data)
PicksOfFirst(lines, k) == UNION {PicksOf(lines[q]) : q \in 1..k}
PicksMade ==
    PicksOfFirst(Lines, LinesDone)
    \cup IF input = <<>> THEN {}
         ELSE {input[1].number} \X {f \in Picks(input[1].data) : Before(f, Indices(Current))}
AllPicks == PicksOfFirst(Lines, Len(Lines))

\* What a line is made into with a list of indices.
Filled(data, f) ==
    LET s == ProcessRule(data)
        Place(p) == {k \in DOMAIN s.ranges : s.ranges[k].pos = p}
    IN  [p \in DOMAIN s.output |->
            IF Place(p) = {} THEN s.output[p]
            ELSE LET k == CHOOSE k \in Place(p) : TRUE IN s.ranges[k].chars[f[k]]]

MakingRules ==
    /\ LinesDone \in Nat /\ \A i \in DOMAIN input : input[i] = Lines[LinesDone + i]
    /\ count \in Int
    /\ input # <<>> => CurrentRight
    /\ {<<made[i].number, made[i].pick>> : i \in DOMAIN made} = PicksMade
    /\ IsFiniteSet(PicksMade) /\ Cardinality(PicksMade) = Len(made)
    /\ \A i, j \in DOMAIN made : i < j =>
        /\ made[i].number <= made[j].number
        /\ made[i].number = made[j].number => made[i].pick # made[j].pick
    /\ \A i \in DOMAIN made :
        LET data == cfg_file[made[i].number].rule
        IN  ~EmptyRange(data) => made[i].rule = Filled(data, made[i].pick)

RulesInv ==
    /\ stage = "read" /\ cfg_state # "error" => SectionsRead
    /\ cfg_state = "done" => number = Len(cfg_file)
    /\ stage = "read" => made = <<>> /\ checked = 0 /\ applying = "ready"
    /\ stage \in {"check", "words", "done"} =>
        cfg_state = "done" /\ number = Len(cfg_file) /\ SectionsRead /\ Lines # <<>> /\ MakingRules
    /\ stage = "check" /\ rules_errno = "none" =>
        checked = Len(made) - (IF applying = "ready" THEN 0 ELSE 1)
    /\ stage \in {"words", "done"} => checked = Cardinality(AllPicks)
    /\ stage = "done" => input = <<>>

=============================================================================
