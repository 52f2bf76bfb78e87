-------------------------------- MODULE Rpp --------------------------------
(***************************************************************************)
(* rpp.c: the rule preprocessor.  A line of the rules holds ranges in      *)
(* brackets; rpp_next() makes a rule from it for every combination of      *)
(* their characters, the last range varying fastest, and then goes on to   *)
(* the next line.                                                          *)
(*                                                                         *)
(* Characters are strings, in the order of Alphabet.  The character 255,   *)
(* up to which the loop over an interval would not end, is not in it.      *)
(***************************************************************************)
EXTENDS Naturals, Integers, Sequences, SequencesExt

CONSTANTS
    Alphabet,         \* the characters in the order of their codes
    StackChars,       \* what a range that was never used may hold
    RULE_BUFFER_SIZE,
    RULE_RANGES_MAX

ASSUME AlphabetAssumption ==
    /\ Alphabet \in Seq(STRING)
    /\ \A i, j \in DOMAIN Alphabet : Alphabet[i] = Alphabet[j] => i = j
ASSUME RppBoundsAssumption == RULE_BUFFER_SIZE \in Nat \ {0} /\ RULE_RANGES_MAX \in Nat

Char == Range(Alphabet)
Code(c) == CHOOSE i \in DOMAIN Alphabet : Alphabet[i] = c

VARIABLES
    input,   \* lines still to be processed: the current one is the first
    count,   \* ranges of the current rule, or -1: it is not processed yet
    ranges,  \* the ranges: place in the output, characters and index
    output,  \* the rule
    stale,   \* the first character of every range, as the last rule left it
    stack    \* and at first: the context is on the stack, and is not cleared

rppVars == <<input, count, ranges, output, stale, stack>>

-----------------------------------------------------------------------------
(* rpp_process_rule(), a character at a time.  The loop peeks at what      *)
(* follows a "-", so that the character is then processed once more.       *)

\* What the loop remembers: where it is, the output, the ranges and c1.
NoChar == ""
Start == [at |-> "rule", output |-> <<>>, ranges |-> <<>>, c1 |-> NoChar]

\* rpp_add_char() on the range that was opened last.
AddChar(s, c) ==
    LET k == Len(s.ranges)
    IN  [s EXCEPT !.ranges[k].chars =
            IF \E i \in DOMAIN @ : @[i] = c THEN @ ELSE Append(@, c)]

\* The characters behind c1 up to c2, in either direction.
Interval(c1, c2) ==
    IF Code(c1) > Code(c2)
    THEN [i \in 1..(Code(c1) - Code(c2)) |-> Alphabet[Code(c1) - i]]
    ELSE [i \in 1..(Code(c2) - Code(c1)) |-> Alphabet[Code(c1) + i]]

InRule(s, c) ==
    CASE c = "\\" -> [s EXCEPT !.at = "escape"]
      [] c = "[" /\ Len(s.ranges) < RULE_RANGES_MAX ->
            [s EXCEPT !.at = "range",
                      !.output = Append(@, NoChar),
                      !.ranges = Append(@, [pos |-> Len(s.output) + 1, chars |-> <<>>,
                                            index |-> 1])]
      [] OTHER -> [s EXCEPT !.output = Append(@, c)]

InRange(s, c) ==
    CASE c = "]"  -> [s EXCEPT !.at = "rule"]
      [] c = "\\" -> [s EXCEPT !.at = "range escape"]
      [] c = "-"  -> [s EXCEPT !.at = "interval"]
      [] OTHER    -> [AddChar(s, c) EXCEPT !.c1 = c]

\* An interval starts at c1, the last character given, but not in an empty range.
AfterDash(s, c) ==
    LET t == IF s.c1 = NoChar \/ s.ranges[Len(s.ranges)].chars = <<>> THEN s
             ELSE FoldLeft(AddChar, s, Interval(s.c1, c))
    IN  InRange([t EXCEPT !.at = "range", !.c1 = c], c)

ProcessChar(s, c) ==
    CASE s.at = "rule" -> IF Len(s.output) < RULE_BUFFER_SIZE - 1 THEN InRule(s, c) ELSE s
      [] s.at = "escape" -> [s EXCEPT !.at = "rule", !.output = Append(@, c)]
      [] s.at = "range" -> InRange(s, c)
      [] s.at = "range escape" -> [AddChar(s, c) EXCEPT !.at = "range", !.c1 = c]
      [] s.at = "interval" -> AfterDash(s, c)

ProcessRule(data) == FoldLeft(ProcessChar, Start, data)

-----------------------------------------------------------------------------

\* rpp_init(), on lines that are not empty; or the copy of the context that
\* rules_check() works on.
RppInit(list) ==
    /\ input' = list /\ count' = -1 /\ ranges' = <<>> /\ output' = <<>>
    /\ stale' = stack /\ UNCHANGED stack

\* The ranges and the output that rpp_next() starts from.
Current ==
    IF count < 0 THEN ProcessRule(input[1].data)
    ELSE [at |-> "rule", output |-> output, ranges |-> ranges, c1 |-> NoChar]

Indices(s) == [k \in DOMAIN s.ranges |-> s.ranges[k].index]

\* *range->pos = range->chars[range->index], for all of them: an empty range
\* gives what its array held before.
FilledIn(s) ==
    [p \in DOMAIN s.output |->
        IF \E k \in DOMAIN s.ranges : s.ranges[k].pos = p
        THEN LET k == CHOOSE k \in DOMAIN s.ranges : s.ranges[k].pos = p
                 r == s.ranges[k]
             IN  IF r.chars = <<>> THEN stale[k] ELSE r.chars[r.index]
        ELSE s.output[p]]

\* The ranges from k on have shown all their characters.
Wraps(rs, k) == \A j \in k..Len(rs) : rs[j].index >= Len(rs[j].chars)

\* Mutant of Odometer: a range that moves on does not reset those behind it.
OdometerNoReset(rs) ==
    [k \in DOMAIN rs |->
        IF Wraps(rs, k + 1)
        THEN [rs[k] EXCEPT !.index = IF @ < Len(rs[k].chars) THEN @ + 1 ELSE @]
        ELSE rs[k]]

\* The last range that can moves on, and those behind it start again.
Odometer(rs) ==
    [k \in DOMAIN rs |->
        IF Wraps(rs, k) THEN [rs[k] EXCEPT !.index = 1]
        ELSE IF Wraps(rs, k + 1) THEN [rs[k] EXCEPT !.index = @ + 1]
        ELSE rs[k]]

\* rpp_next(), when it does not return NULL.
RppNext ==
    /\ input # <<>>
    /\ LET s == Current
       IN  /\ output' = FilledIn(s)
           /\ stale' = [k \in DOMAIN stale |->
                          IF k \in DOMAIN s.ranges /\ s.ranges[k].chars # <<>>
                          THEN s.ranges[k].chars[1] ELSE stale[k]]
           /\ ranges' = Odometer(s.ranges)
           /\ IF Wraps(s.ranges, 1)
              THEN input' = Tail(input) /\ count' = -1
              ELSE count' = Len(s.ranges) /\ UNCHANGED input
    /\ UNCHANGED stack

\* rpp_next() returns NULL.
RppEnds == input = <<>>
=============================================================================
