-------------------------------- MODULE Cfg --------------------------------
(***************************************************************************)
(* cfg.c: the configuration reader that stegbreak takes its rules from.    *)
(* A file is read line by line into a list of sections, the latest one     *)
(* first.  Whether a section holds lines or parameters depends on its name *)
(* alone.                                                                  *)
(*                                                                         *)
(* A line is what trim() leaves of it: its first character, the name up to *)
(* a "]" if there is one, and the text, which is a rule when it comes to   *)
(* be used.  Names are compared in lower case.                             *)
(***************************************************************************)
EXTENDS Naturals, Sequences

CONSTANTS
    CfgFiles,     \* the files: sequences of lines
    Lower,        \* strlwr(), on the names that occur
    ListNames     \* the lower case names that start with "list."

\* first: "" of a blank line, "#" of a comment (or ";"), "[" or another one;
\* name: the text before the first "]" or "=", or None without one; rule: the text.
None == "none"

ASSUME LowerAssumption ==
    \A n \in DOMAIN Lower : Lower[n] \in DOMAIN Lower /\ Lower[Lower[n]] = Lower[n]
FileLine == [first : STRING, name : (DOMAIN Lower) \union {None}, rule : Seq(STRING)]
ASSUME FilesAssumption == CfgFiles \subseteq Seq(FileLine)

VARIABLES
    cfg_file,      \* the file, which does not change
    number,        \* number of the line read last
    cfg_database,  \* the sections
    cfg_state      \* reading, done, or error: cfg_error() has ended the program

cfgVars == <<cfg_file, number, cfg_database, cfg_state>>

CfgInit ==
    /\ cfg_file \in CfgFiles
    /\ number = 0 /\ cfg_database = <<>> /\ cfg_state = "reading"

\* cfg_add_section()
NewSection(name) ==
    [name |-> name, params |-> <<>>, list |-> <<>>, is_list |-> name \in ListNames]

\* cfg_add_line() and cfg_add_param() work on the latest section.
InLatest(section) == [cfg_database EXCEPT ![1] = section]

AddLine(line) ==
    LET s == cfg_database[1]
    IN  InLatest([s EXCEPT !.list = Append(@, [number |-> number', data |-> line.rule])])

AddParam(line) ==
    LET s == cfg_database[1]
    IN  InLatest([s EXCEPT !.params = <<Lower[line.name]>> \o @])

Skipped(line)  == line.first \in {"", "#"}
IsHeader(line) == line.first = "["

\* What cfg_process_line() takes a line for: one that starts with "[" is a
\* header wherever it is, and in a list every other line belongs to it.
Kind(line) ==
    CASE Skipped(line) -> "skipped"
      [] IsHeader(line) -> IF line.name # None THEN "header" ELSE "wrong"
      [] OTHER -> IF cfg_database = <<>> THEN "wrong"
                  ELSE IF cfg_database[1].is_list THEN "line"
                  ELSE IF line.name # None THEN "param" ELSE "wrong"

\* cfg_process_line()
CfgLine ==
    /\ cfg_state = "reading" /\ number < Len(cfg_file)
    /\ number' = number + 1
    /\ LET line == cfg_file[number']
       IN  \/ Kind(line) = "skipped" /\ UNCHANGED <<cfg_database, cfg_state>>
           \/ /\ Kind(line) = "header" /\ UNCHANGED cfg_state
              /\ cfg_database' = <<NewSection(Lower[line.name])>> \o cfg_database
           \/ /\ Kind(line) = "line" /\ UNCHANGED cfg_state
              /\ cfg_database' = AddLine(line)
           \/ /\ Kind(line) = "param" /\ UNCHANGED cfg_state
              /\ cfg_database' = AddParam(line)
           \/ /\ Kind(line) = "wrong" /\ UNCHANGED cfg_database
              /\ cfg_state' = "error"
    /\ UNCHANGED cfg_file

\* cfg_init() returns.
CfgDone ==
    /\ cfg_state = "reading" /\ number = Len(cfg_file)
    /\ cfg_state' = "done"
    /\ UNCHANGED <<cfg_file, number, cfg_database>>

CfgNext == CfgLine \/ CfgDone

\* cfg_get_section(): place of the first section of that name, or 0.
GetSection(name) ==
    LET found == {k \in DOMAIN cfg_database : cfg_database[k].name = name}
    IN  IF found = {} THEN 0 ELSE CHOOSE k \in found : \A j \in found : k <= j

\* cfg_get_list(): its lines; there are none to use if it holds parameters.
GetList(name) ==
    LET k == GetSection(name) IN IF k = 0 THEN <<>> ELSE cfg_database[k].list
=============================================================================
