-------------------------- MODULE MCStegbreakInput --------------------------
(***************************************************************************)
(* Small instances of what stegbreak works on for TLC: its rules, its      *)
(* objects, and the coefficients that stegcompare and stegdeimage take in  *)
(* the same order.  A behaviour is that of one of them (part); the others  *)
(* stay as they are, for they share nothing.                               *)
(***************************************************************************)
EXTENDS Wordlist, Objects, Coefficients

VARIABLE part

-----------------------------------------------------------------------------
(* The files of one section with one or two rules, and short files of        *)
(* headers, comments, rules and parameters in any order.  A buffer is 10     *)
(* long instead of 256, a word 3 instead of 16, a rule 7 instead of 255, and *)
(* there are 2 ranges instead of 8.                                          *)

MCAlphabet ==
   <<" ", "!", "$", "%", "'", "(", ")", "*", "+", "-", "/", "0", "1", "2", "3", "8", ":", "<", "=", ">", "?", "@", "A", "B", "C", "D", "E", "F", "I", "L", "M",
     "P", "Q", "R", "S", "T", "V", "Z", "[", "\\", "]", "^", "_", "a", "b", "c", "d", "e", "f", "g", "h", "i", "l", "m", "n", "o", "p", "r", "s", "t", "u", "v", "x", "y", "z", "{", "}">>

MCPositionCodes == ("0" :> 0) @@ ("1" :> 1) @@ ("2" :> 2) @@ ("8" :> 8)
MCClasses == "v" :> {"a", "e", "A", "E"}
MCUpperName == "v" :> "V"

Lows == <<"a", "b", "c", "m">>
Ups  == <<"A", "B", "C", "M">>
MCConvTables ==
    [l |-> <<Ups, Lows>>, u |-> <<Lows, Ups>>, t |-> <<Lows \o Ups, Ups \o Lows>>,
     S |-> <<<<"a", "1">>, <<"A", "!">>>>, V |-> <<<<"b", "A">>, <<"B", "a">>>>,
     R |-> <<<<"a">>, <<"s">>>>, L |-> <<<<"s">>, <<"a">>>>]

Line(f, h, rule) == [first |-> f, name |-> h, rule |-> rule]
Header(h) == Line("[", h, <<>>)
RuleLine(rule) ==
    Line(IF rule[1] = "[" THEN "[" ELSE "x",
         IF \E k \in DOMAIN rule : rule[k] \in (IF rule[1] = "[" THEN {"]"} ELSE {"="})
         THEN "lu" ELSE None, rule)

MCLower == ("Rules" :> "rules") @@ ("rules" :> "rules") @@ ("lu" :> "lu") @@ ("other" :> "other")
                @@ ("single" :> "single")

Commands == {
    <<"l">>, <<"u">>, <<"c">>, <<"r">>, <<"d">>, <<"f">>, <<"p">>, <<"P">>, <<"I">>, <<"{">>,
    <<"}">>, <<"t">>, <<"S">>, <<"V">>, <<"R">>, <<"L">>, <<"C">>, <<"M">>, <<"Q">>, <<"\\", "[">>,
    <<"\\", "]">>, <<"<", "2">>, <<"<", "0">>, <<">", "1">>, <<">", "0">>, <<"$", "a">>,
    <<"^", "a">>, <<"x", "1", "1">>, <<"x", "1", "0">>, <<"x", "3", "0">>, <<"i", "1", "b">>,
    <<"i", "3", "b">>, <<"o", "0", "y">>, <<"o", "2", "b">>, <<"s", "a", "b">>,
    <<"s", "?", "v", "b">>, <<"@", "a">>, <<"@", "?", "v">>, <<"!", "a">>, <<"/", "a">>,
    <<"/", "?", "v">>, <<"=", "0", "a">>, <<"=", "0", "?", "v">>, <<"(", "a">>, <<"(", "?", "v">>,
    <<")", "a">>, <<")", "?", "v">>, <<"'", "1">>, <<"'", "+">>, <<"%", "1", "a">>,
    <<"%", "2", "?", "v">>, <<"%", "0", "a">>, <<"T", "0">>, <<"T", "*">>, <<"D", "0">>,
    <<"D", "2">>, <<":">> }
Wrong == {
    <<"$">>, <<"x", "1">>, <<"x", "z", "0">>, <<"=", "0", "?", "Z">>, <<")", "?", "Z">>,
    <<"s", "?", "Z">>, <<"s", "a">>, <<"!", "?", "Z">>, <<"+">>, <<"1">>, <<"-", "z">>, <<"-">>,
    <<"i", "1">>, <<"<", "z">>, <<"%", "1">>, <<"-", "c">>, <<"Q", "-", "z">>, <<"@", "?">> }
Several == {
    <<"d", "d">>, <<"d", "f">>, <<"d", "d", "d">>, <<"d", "I">>, <<"d", "p">>, <<"d", "P">>,
    <<"d", "d", "r">>, <<"d", "d", "}">>, <<"d", "d", "\\", "[">>, <<"M", "u">>, <<"M", "u", "Q">>,
    <<"u", "Q">>, <<"l", "M", "Q">>, <<"d", "x", "2", "2">>, <<"d", "l">>,
    <<"<", "0", "<", "0", "/", "?", "Z">>, <<"<", "0", ">", "0", "=", "0", "?", "Z">>,
    <<"<", "0", "=", "0", "?", "Z">>, <<"$", "b", ">", "0">>, <<" ", "l">>,
    <<"-", "c", "-", "8", "u">>, <<"d", "d", "{", "<", "2">>, <<"c">>, <<"d", "C">>, <<"f", "I">>,
    <<"f", "$", "a">>, <<"^", "a", "d", "i", "3", "b">> }
Templates == {
    <<"$", "[", "a", "b", "]">>, <<"$", "[", "a", "-", "c", "]">>,
    <<"$", "[", "c", "-", "a", "]">>, <<"[">>, <<"\\", "[", "a", "b">>, <<"l", "[">>,
    <<"$", "[", "a", "-", "]">>, <<"$", "[", "]">>, <<"$", "\\", "[">>,
    <<"$", "[", "a", "b", "]", "$", "[", "c", "d", "]">>,
    <<"$", "[", "a", "b", "]", "$", "[", "c", "d", "]", "$", "[", "e", "f", "]">>,
    <<"^", "[", "-", "a", "b", "]">>, <<"$", "[", "a", "\\", "]", "]">>,
    <<"$", "[", "a", "b", "a", "]">>, <<"d", "d", "d", "d", "d", "d", "[", "a", "b", "]">>,
    <<"$", "[", "a", "-", "b", "-", "d", "]">>,
    <<"$", "[", "a", "b", "]", "-", "[", "c", "z", "]">>, <<"$", "[", "a", "-">>,
    <<"[", "l", "u", "]", "$", "1">>, <<"-", "[", "c", "z", "]">>,
    <<"$", "[", "z", "2", "]", "x", "[", "0", "z", "]", "1">>, <<"s", "[", "a", "b", "]", "y">> }

Pieces ==
    {Header("Rules"), Header("other"), Header("single"), Line("#", None, <<>>), Line("", None, <<>>),
      RuleLine(<<"l">>), RuleLine(<<"=", "0", "a">>), RuleLine(<<"[", "l", "u", "]">>),
      RuleLine(<<"[", "l">>)}

MCFiles ==
    {<<Header("Rules"), RuleLine(r)>> : r \in Commands \union Wrong \union Several \union Templates}
    \union {<<Header("rules"), RuleLine(r), RuleLine(s)>> :
                r \in Wrong \union Templates, s \in {<<"l">>, <<"z">>, <<"-", "z">>}}
    \union {<<a, b, c, RuleLine(<<"u">>)>> : a \in Pieces, b \in Pieces, c \in Pieces}
    \union {<<Header("Rules"), RuleLine(<<"l">>), a, b, RuleLine(<<"u">>)>> : a \in Pieces, b \in Pieces}

MCWords ==
    {
    <<>>, <<"a">>, <<"M">>, <<"M", "c">>, <<"b", "e", "f">>, <<"a", "b">>, <<"a", "b", "f">>,
    <<"d", "a", "y">>, <<"i", "n", "g">>, <<"b", "b", "e", "d">>, <<"a", "a", "b", "b", "a", "a">> }

-----------------------------------------------------------------------------
(* Blocks of four coefficients, every mode of the order of jphide, and       *)
(* shorts of three bits: an image of one block in each component, where the  *)
(* order ends before an object is full, others that fit, the last just so,   *)
(* and one that does not.  Bytes of two bits: a message whose length is      *)
(* wrong, one shorter than the header of its object, a longer one, and a     *)
(* length which times the bits of a byte is too much for an int of four.     *)
MCltab == <<<<0, 0, 0>>, <<1, 3, 1>>, <<0, 2, 1>>, <<2, 2, 2>>, <<0, 1, -1>>>>

Blocks(a, b) == [c \in Component |-> IF c = 0 THEN a ELSE b]

MCImages == {
    [wib |-> Blocks(1, 1), hib |-> Blocks(1, 1), jphide_bits |-> 2, dcts |-> <<0, 1, 0, 1, 0, 0>>],
    [wib |-> Blocks(2, 1), hib |-> Blocks(1, 1), jphide_bits |-> 3,
     dcts |-> <<0, 1, 0, 1, 1, 0, 0, 1, 0, 1, 1, 1>>],
    [wib |-> Blocks(2, 2), hib |-> Blocks(2, 1), jphide_bits |-> 4,
     dcts |-> <<0, 0, 1, 1, 0, 1>>],
    [wib |-> Blocks(3, 1), hib |-> Blocks(2, 1), jphide_bits |-> 5,
     dcts |-> <<1, 0, 0, 1, 0, 0, 1, 1, 0>>] }

MCScans == {{".jph"}, {".jph", ".og", ".jsg"}}

(* Pictures of one or two blocks in a component, with small and large values *)
(* of both signs in them.                                                    *)
Vals == <<0, 1, -1, 2, -3, 5, -6, 7>>
Pic(w, h, f) ==
    [wib |-> w, hib |-> h,
     coef |-> [p \in AreaOf([wib |-> w, hib |-> h]) |->
                 Vals[((f * (p[1] + 2 * p[2] + 1) + 3 * p[3] + p[3] * p[3]) % 8) + 1]]]
MCPictures ==
    {Pic(Blocks(2, 1), Blocks(1, 1), f) : f \in 0..5}
    \cup {Pic(Blocks(2, 1), Blocks(2, 1), f) : f \in {1, 3}}
    \cup {Pic(Blocks(1, 1), Blocks(2, 2), f) : f \in {0, 3}}

-----------------------------------------------------------------------------
WordlistOff ==
    /\ cfg_file = <<>> /\ number = 0 /\ cfg_database = <<>> /\ cfg_state = "off"
    /\ input = <<>> /\ count = -1 /\ ranges = <<>> /\ output = <<>> /\ stack = <<>> /\ stale = <<>>
    /\ RulesInit
    /\ stage = "off" /\ rules_line = 0 /\ checked = 0 /\ made = <<>> /\ first_wrong = 0

ObjectsOff ==
    /\ files = [f \in Names |-> NoFile] /\ args = <<>>
    /\ convert = FALSE /\ scans = {} /\ i = 0 /\ n = 0
    /\ phase = "off" /\ name = <<>> /\ handle = 1 /\ res = 0 /\ after = "null" /\ db = {}
    /\ job = NoObject /\ cursor = StartCursor /\ where = 0 /\ words = 0 /\ taken = NoTaken

CoefOff ==
    /\ step = "off" /\ orig = 0 /\ modified = 0 /\ jphide = FALSE
    /\ dcts = <<>> /\ turn = 0 /\ changes = 0 /\ hist = 0 /\ shist = 0

MCInit ==
    \/ part = "wordlist" /\ WordlistInit /\ ObjectsOff /\ CoefOff
    \/ part = "objects" /\ WordlistOff /\ Init /\ CoefOff
    \/ part = "coefficients" /\ WordlistOff /\ ObjectsOff /\ CoefficientsInit

MCNext ==
    \/ part = "wordlist" /\ UNCHANGED <<part, vars, coefficientVars>> /\ WordlistNext
    \/ part = "objects" /\ UNCHANGED <<part, wordlistVars, coefficientVars>> /\ Next
    \/ part = "coefficients" /\ UNCHANGED <<part, wordlistVars, vars>> /\ CoefficientsNext

MCSpec == MCInit /\ [][MCNext]_<<part, wordlistVars, vars, coefficientVars>>
=============================================================================
