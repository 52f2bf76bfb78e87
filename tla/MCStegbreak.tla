---------------------------- MODULE MCStegbreak ----------------------------
(* Small instances of Stegbreak for TLC. *)
EXTENDS Stegbreak

CONSTANTS w1, w2

Jphide(iv, version, w) == [kind |-> "jphide", iv |-> iv, version |-> version, word |-> w]
Stream(kind, w) == [kind |-> kind, iv |-> 0, version |-> "stream", word |-> w]

\* No object; one; or one from each of two handlers.
SomeFiles ==
    { <<>>,
      <<Jphide(1, "v5", w1)>>, <<Jphide(2, "v5", w2)>>, <<Jphide(1, "v3", w2)>>,
      <<Jphide(1, "v3", Empty)>>,
      <<Stream("outguess", w1)>>,
      <<Jphide(2, "v3", w1), Stream("jsteg", w2)>> }

\* Tables in which words repeat, within a rule and from rule to rule.
FewTables ==
    { <<<<w1, w1>>, <<w2, w1>>>>, <<<<Empty, w1>>, <<w1, w2>>>>,
      <<<<Skip, w2>>, <<w2, Empty>>>>, <<<<w2, Skip>>, <<w1, w1>>>> }

=============================================================================
