------------------------------- MODULE Rules -------------------------------
(***************************************************************************)
(* rules.c: rules_reject() and rules_apply(), a command at a time.  A word *)
(* goes to and fro between two static buffers, most commands reading one   *)
(* and writing the other, some changing the word where it is; what it may  *)
(* grow to is bounded by a cut in front of every command.  With            *)
(* rules_debug the rule is only checked: a rejection does not end it, and  *)
(* the word is then whatever a buffer happens to hold.                     *)
(*                                                                         *)
(* A buffer is the string in it.  What lies behind the terminator is       *)
(* written by some commands (o, T and ' beyond the end) and read by none.  *)
(* The commands of "single crack" mode are unknown, as stegbreak has split *)
(* < 0.                                                                    *)
(***************************************************************************)
EXTENDS Rpp, FiniteSets, TLC

CONSTANTS
    RULE_WORD_SIZE,
    rules_max_length,
    PositionCodes,    \* digits and letters of rules_init_length()
    ClassChars,       \* the classes that rules_init_classes() is given, by name
    UpperName,        \* the upper case names, by name
    ConvTables        \* rules_init_convs(): strings from and to, by command

ASSUME LengthAssumption ==
    /\ rules_max_length \in Nat \ {0} /\ RULE_WORD_SIZE \in Nat
    /\ rules_max_length < RULE_WORD_SIZE /\ RULE_WORD_SIZE > 3
    /\ \A c \in DOMAIN PositionCodes : PositionCodes[c] \in Nat
ASSUME ConvAssumption ==
    \A c \in DOMAIN ConvTables :
        LET t == ConvTables[c]
        IN  Len(t[1]) = Len(t[2]) /\ Range(t[1]) \union Range(t[2]) \subseteq Char

VARIABLES
    word, rest,   \* the arguments: what is left of the rule
    buffer, in,   \* buffer[0] and buffer[1], and the one the word is in
    memory,       \* of M, or NoMemory
    rules_debug,
    rules_errno,  \* "none", "end", "unknown", "position", "class", "reject"
    applying      \* rules_apply(): ready, loop, or it has returned word or null

rulesVars == <<word, rest, buffer, in, memory, rules_debug, rules_errno, applying>>

NoMemory == <<NoChar>>

\* rules_init_length(); a position may be behind the longest word.
rules_length ==
    [c \in (DOMAIN PositionCodes) \union {"*", "-", "+"} |->
        CASE c = "*" -> rules_max_length
          [] c = "-" -> rules_max_length - 1
          [] c = "+" -> rules_max_length + 1
          [] OTHER   -> PositionCodes[c]]

\* rules_init_class(): a class with a lower case name has a complement.
rules_classes ==
    LET upper == {n \in DOMAIN ClassChars : n \in DOMAIN UpperName}
    IN  ClassChars @@ [u \in {UpperName[n] : n \in upper} |->
                          Char \ ClassChars[CHOOSE n \in upper : UpperName[n] = u]]

\* rules_init_conv()
Converted(src, dst, x) ==
    LET places == {k \in DOMAIN src : src[k] = x}
    IN  IF places = {} THEN x ELSE dst[CHOOSE k \in places : \A j \in places : j <= k]
Conv == [c \in DOMAIN ConvTables |-> [x \in Char |-> Converted(ConvTables[c][1], ConvTables[c][2], x)]]

Cut(w, n) == IF Len(w) <= n THEN w ELSE SubSeq(w, 1, n)
Map(f, w) == [k \in DOMAIN w |-> f[w[k]]]
\* The word without the characters of a class.
Purged(w, class) ==
    LET kept == {k \in DOMAIN w : w[k] \notin class}
    IN  [j \in 1..Cardinality(kept) |->
            w[CHOOSE k \in kept : Cardinality({i \in kept : i <= k}) = j]]

-----------------------------------------------------------------------------
(* rules_reject()                                                          *)

\* The flags in front of the commands: every rule passes them all, but an
\* unknown one is an error.
IsFlagAt(r, k) == r[k] = "-" /\ k < Len(r) /\ r[k + 1] \in {"c", "8", "s"}
FlagOrBlank(r, k) ==
    \/ r[k] \in {":", " ", "\t"} \/ IsFlagAt(r, k)
    \/ (k > 1 /\ IsFlagAt(r, k - 1))

\* The rule from its first command on.
FirstCommand(r) ==
    IF \A k \in DOMAIN r : FlagOrBlank(r, k) THEN <<>>
    ELSE LET first == CHOOSE k \in DOMAIN r :
                 ~FlagOrBlank(r, k) /\ \A j \in 1..(k - 1) : FlagOrBlank(r, j)
         IN  SubSeq(r, first, Len(r))

RejectError(r) ==
    LET c == FirstCommand(r)
    IN  IF c = <<>> \/ c[1] # "-" THEN "none"
        ELSE IF Len(c) = 1 THEN "end" ELSE "reject"

-----------------------------------------------------------------------------
(* The commands: what each makes of the word, and how much of the rule it  *)
(* reads.                                                                  *)

\* The word a command sees: in[RULE_WORD_SIZE - 1] = 0.
Seen == Cut(buffer[in], RULE_WORD_SIZE - 1)
Other == buffer[1 - in]

\* The results of a command that reads n characters of the rule.  left: what
\* the old buffer holds afterwards.
Outcome(n, pass, place, w, left) ==
    [err |-> "none", n |-> n, pass |-> pass, place |-> place, word |-> w, left |-> left]
InPlace(n, w)     == Outcome(n, TRUE, in, w, w)
Copy(n, w)        == Outcome(n, TRUE, 1 - in, w, Seen)
CopyLeaving(w, l) == Outcome(1, TRUE, 1 - in, w, l)
Test(n, pass)     == Outcome(n, pass, in, Seen, Seen)
\* < and > leave out alone when they fail.
TestLength(pass)  == Outcome(2, pass, IF pass THEN in ELSE 1 - in,
                             IF pass THEN Seen ELSE Other, Seen)
Fails(e) == [Test(0, FALSE) EXCEPT !.err = e]

Arg(i) == IF i < Len(rest) THEN rest[i + 1] ELSE NoChar
ErrorAt(i, e) == Fails(IF Arg(i) = NoChar THEN "end" ELSE e)

\* The macros POSITION, VALUE, CLASS and SKIP_CLASS; i is the place of the
\* argument, and then(_) the rest of the command.
WithPosition(i, then(_)) ==
    IF Arg(i) \in DOMAIN rules_length THEN then(rules_length[Arg(i)])
    ELSE ErrorAt(i, "position")
WithValue(i, then(_)) ==
    IF Arg(i) = NoChar THEN Fails("end") ELSE then(Arg(i))
WithClass(i, then(_, _)) ==
    CASE Arg(i) = NoChar -> Fails("end")
      [] Arg(i) = "?"    -> IF Arg(i + 1) \in DOMAIN rules_classes
                            THEN then(rules_classes[Arg(i + 1)], i + 2)
                            ELSE ErrorAt(i + 1, "class")
      [] OTHER           -> then({Arg(i)}, i + 1)
SkipClass(i, then(_)) ==
    CASE Arg(i) = NoChar -> Fails("end")
      [] Arg(i) = "?"    -> IF Arg(i + 1) = NoChar THEN Fails("end") ELSE then(i + 2)
      [] OTHER           -> then(i + 1)

Vowels == {"a", "e", "i", "o", "u"}

\* c and C: the first character, the others, and the third of Mc or mC.
Capital(first, others, head, w) ==
    [k \in DOMAIN w |->
        IF k = 1 \/ (k = 3 /\ first[w[1]] = head[1] /\ others[w[2]] = head[2])
        THEN first[IF k = 1 THEN w[1] ELSE others[w[3]]]
        ELSE others[w[k]]]

\* p: the plural.
Plural(w) ==
    LET n == Len(w)
    IN  IF n < 2 THEN w
        ELSE CASE w[n] \in {"h", "s", "x"} -> w \o <<"e", "s">>
               [] w[n] = "f" /\ w[n - 1] # "f" -> Front(w) \o <<"v", "e", "s">>
               [] n > 2 /\ w[n] = "e" /\ w[n - 1] = "f" -> Front(Front(w)) \o <<"v", "e", "s">>
               [] n > 2 /\ w[n] = "y" /\ w[n - 1] \notin Vowels -> Front(w) \o <<"i", "e", "s">>
               [] OTHER -> Append(w, "s")

\* b, g and p are doubled behind another letter.
Doubled(w) ==
    LET n == Len(w) Stops == {"b", "g", "p"}
    IN  IF w[n] \in Stops /\ w[n - 1] \notin Stops THEN Append(w, w[n]) ELSE w

\* P: the past tense.
Past(w) ==
    LET n == Len(w)
        stem == IF w[n] = "y" THEN Append(Front(w), "i") ELSE Doubled(w)
    IN  IF n < 3 \/ (w[n] = "d" /\ w[n - 1] = "e") THEN w
        ELSE stem \o IF w[n] = "e" THEN <<"d">> ELSE <<"e", "d">>

\* I: the -ing form.
Ing(w) ==
    LET n == Len(w)
        stem == IF w[n] \in Vowels THEN Front(w) ELSE Doubled(w)
    IN  IF n < 3 \/ SubSeq(w, n - 2, n) = <<"i", "n", "g">> THEN w
        ELSE stem \o <<"i", "n", "g">>

\* The commands that only look at the word.
Tests(c, w) ==
    CASE c \in {":", " ", "\t"} -> Test(1, TRUE)
      [] c = "<" -> LET f(p) == TestLength(Len(w) < p) IN WithPosition(1, f)
      [] c = ">" -> LET f(p) == TestLength(Len(w) > p) IN WithPosition(1, f)
      [] c = "!" -> LET f(cl, n) == Test(n, \A k \in DOMAIN w : w[k] \notin cl)
                    IN  WithClass(1, f)
      [] c = "/" -> LET f(cl, n) == Test(n, \E k \in DOMAIN w : w[k] \in cl)
                    IN  WithClass(1, f)
      [] c = "=" -> LET f(cl, n) == Test(n, w[rules_length[Arg(1)] + 1] \in cl)
                        no(n)    == Test(n, FALSE)
                        g(p)     == IF p >= Len(w) THEN SkipClass(2, no) ELSE WithClass(2, f)
                    IN  WithPosition(1, g)
      [] c = "(" -> LET f(cl, n) == Test(n, w = <<>> \/ w[1] \in cl) IN WithClass(1, f)
      [] c = ")" -> LET f(cl, n) == Test(n, w[Len(w)] \in cl)
                        no(n)    == Test(n, FALSE)
                    IN  IF w = <<>> THEN SkipClass(1, no) ELSE WithClass(1, f)
      [] c = "%" -> LET f(cl, n) == Test(n, Cardinality({k \in DOMAIN w : w[k] \in cl})
                                              >= rules_length[Arg(1)])
                        g(p)     == WithClass(2, f)
                    IN  WithPosition(1, g)
      [] c = "M" -> Test(1, TRUE)
      [] c = "Q" -> Test(1, Cut(w, rules_max_length) #
                            Cut(IF memory = NoMemory THEN word ELSE memory, rules_max_length))

\* The commands without an argument that change it.
Changes(c, w) ==
    CASE c \in DOMAIN Conv -> Copy(1, Map(Conv[c], w))
      [] c = "c" -> Copy(1, Capital(Conv["u"], Conv["l"], <<"M", "c">>, w))
      [] c = "C" -> Copy(1, Capital(Conv["l"], Conv["u"], <<"m", "C">>, w))
      [] c = "r" -> Copy(1, Reverse(w))
      [] c = "d" -> Copy(1, w \o w)
      [] c = "f" -> InPlace(1, w \o Reverse(w))
      [] c = "p" -> InPlace(1, Plural(w))
      [] c = "P" -> InPlace(1, Past(w))
      [] c = "I" -> InPlace(1, Ing(w))
      [] c = "[" -> Copy(1, IF w = <<>> THEN w ELSE Tail(w))
      [] c = "]" -> InPlace(1, IF w = <<>> THEN w ELSE Front(w))
      [] c = "{" -> IF w = <<>> THEN Copy(1, w)
                    ELSE CopyLeaving(Append(Tail(w), w[1]), <<w[1]>>)
      [] c = "}" -> IF w = <<>> THEN Copy(1, w)
                    ELSE CopyLeaving(<<Last(w)>> \o Front(w), Front(w))

\* Those with arguments.
Edits(c, w) ==
    CASE c = "$" -> LET f(v) == InPlace(2, Append(w, v)) IN WithValue(1, f)
      [] c = "^" -> LET f(v) == Copy(2, <<v>> \o w) IN WithValue(1, f)
      [] c = "x" -> LET f(n) == Copy(3, LET p == rules_length[Arg(1)]
                                        IN  IF p < Len(w)
                                            THEN Cut(SubSeq(w, p + 1, Len(w)), n)
                                            ELSE <<>>)
                        g(p) == WithPosition(2, f)
                    IN  WithPosition(1, g)
      [] c = "i" -> LET f(v) == LET p == rules_length[Arg(1)]
                                IN  IF p < Len(w) THEN Copy(3, InsertAt(w, p + 1, v))
                                    ELSE InPlace(3, Append(w, v))
                        g(p) == WithValue(2, f)
                    IN  WithPosition(1, g)
      [] c = "o" -> LET f(v) == InPlace(3, LET p == rules_length[Arg(1)]
                                           IN  IF p < Len(w) THEN [w EXCEPT ![p + 1] = v] ELSE w)
                        g(p) == WithValue(2, f)
                    IN  WithPosition(1, g)
      [] c = "s" -> LET f(cl, n) == IF Arg(n) = NoChar THEN Fails("end")
                                    ELSE InPlace(n + 1, [k \in DOMAIN w |->
                                             IF w[k] \in cl THEN Arg(n) ELSE w[k]])
                    IN  WithClass(1, f)
      [] c = "@" -> LET f(cl, n) == Copy(n, Purged(w, cl))
                    IN  WithClass(1, f)
      [] c = "'" -> LET f(p) == InPlace(2, Cut(w, p)) IN WithPosition(1, f)
      [] c = "T" -> LET f(p) == InPlace(2, IF p < Len(w)
                                           THEN [w EXCEPT ![p + 1] = Conv["t"][@]] ELSE w)
                    IN  WithPosition(1, f)
      [] c = "D" -> LET f(p) == IF p >= Len(w) THEN InPlace(2, w) ELSE Copy(2, RemoveAt(w, p + 1))
                    IN  WithPosition(1, f)

TestCommands == {":", " ", "\t", "<", ">", "!", "/", "=", "(", ")", "%", "M", "Q"}
ChangeCommands == DOMAIN Conv \union
                  {"c", "C", "r", "d", "f", "p", "P", "I", "[", "]", "{", "}"}
EditCommands == {"$", "^", "x", "i", "o", "s", "@", "'", "T", "D"}

Command(c, w) ==
    CASE c \in TestCommands   -> Tests(c, w)
      [] c \in ChangeCommands -> Changes(c, w)
      [] c \in EditCommands   -> Edits(c, w)
      [] OTHER                -> Fails("unknown")

-----------------------------------------------------------------------------
(* rules_apply()                                                           *)

RulesInit ==
    /\ word = <<>> /\ rest = <<>> /\ buffer = [b \in {0, 1} |-> <<>>] /\ in = 0
    /\ memory = NoMemory /\ rules_debug = FALSE /\ rules_errno = "none" /\ applying = "ready"

\* Up to the loop, on a rule that rules_reject() passed: it does not start
\* with a colon.
StartRule(w, rule, debug) ==
    /\ word' = w /\ rest' = rule
    /\ buffer' = [buffer EXCEPT ![0] = Cut(w, RULE_WORD_SIZE)] /\ in' = 0
    /\ memory' = NoMemory /\ rules_debug' = debug
    /\ applying' = "loop"

\* Return NULL.
ReturnNull(e) ==
    /\ rules_errno' = (IF e = "none" THEN rules_errno ELSE e) /\ applying' = "null"
    /\ UNCHANGED <<word, rest, buffer, in, memory, rules_debug>>

\* The word went into the other buffer, or stayed.
Becomes(o) ==
    /\ buffer' = [buffer EXCEPT ![in] = o.left, ![o.place] = o.word]
    /\ in' = o.place /\ rest' = SubSeq(rest, o.n + 1, Len(rest))
    /\ memory' = (IF rest[1] = "M" THEN Cut(Seen, rules_max_length) ELSE memory)
    /\ UNCHANGED <<word, rules_debug, rules_errno, applying>>

\* Mutant of ApplyCommand: the word is not cut.
ApplyUncut ==
    /\ applying = "loop" /\ rest # <<>>
    /\ LET o == Command(rest[1], buffer[in])
       IN  \/ /\ Seen = <<>> /\ ~rules_debug
              /\ ReturnNull("none")
           \/ /\ Seen # <<>> \/ rules_debug
              /\ \/ o.err # "none" /\ ReturnNull(o.err)
                 \/ /\ o.err = "none" /\ ~rules_debug
                    /\ ~o.pass \/ o.word = <<>>
                    /\ ReturnNull("none")
                 \/ /\ o.err = "none"
                    /\ rules_debug \/ (o.pass /\ o.word # <<>>)
                    /\ Becomes(o)

\* A command of the rule.
ApplyCommand ==
    /\ applying = "loop" /\ rest # <<>>
    /\ LET o == Command(rest[1], Seen)
       IN  \/ /\ Seen = <<>> /\ ~rules_debug
              /\ ReturnNull("none")
           \/ /\ Seen # <<>> \/ rules_debug
              /\ \/ o.err # "none" /\ ReturnNull(o.err)
                 \/ /\ o.err = "none" /\ ~rules_debug
                    /\ ~o.pass \/ o.word = <<>>
                    /\ ReturnNull("none")
                 \/ /\ o.err = "none"
                    /\ rules_debug \/ (o.pass /\ o.word # <<>>)
                    /\ Becomes(o)

\* The end of the rule: in[rules_max_length] = 0.
ApplyEnds ==
    /\ applying = "loop" /\ rest = <<>>
    /\ buffer' = [buffer EXCEPT ![in] = Cut(@, rules_max_length)]
    /\ applying' = "word"
    /\ UNCHANGED <<word, rest, in, memory, rules_debug, rules_errno>>
=============================================================================
