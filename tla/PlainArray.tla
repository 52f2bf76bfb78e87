----------------------------- MODULE PlainArray -----------------------------
(***************************************************************************)
(* What a virtual array of the JPEG library promises: an array of rows     *)
(* that is accessed a strip at a time.  A strip that is accessed to be     *)
(* written begins no later than the first row not yet defined; rows that   *)
(* it defines are zero when this was asked for, and anything otherwise.    *)
(* A row holds what was written to it last, whatever was accessed between. *)
(***************************************************************************)
EXTENDS Integers

CONSTANTS Rows, MaxAccess, PreZero, Values, Zero

VARIABLES
    contents, \* of the rows that are defined: 0 .. defined - 1
    defined,
    view      \* what is seen in the strip accessed last: by row, and if to be written

plainVars == <<contents, defined, view>>

NoView == [rows |-> <<>>, writable |-> FALSE]

PlainInit == defined = 0 /\ contents = <<>> /\ view = NoView

Seen(r) == IF r < defined' THEN contents'[r] ELSE Zero

Access(start, num, writable) ==
    LET strip == start..start + num - 1
        end   == start + num
    IN  /\ view'.writable = writable /\ DOMAIN view'.rows = strip
        /\ end <= Rows /\ num <= MaxAccess
        /\ writable => start <= defined
        /\ ~PreZero /\ ~writable => end <= defined
        /\ defined' = (IF writable /\ end > defined THEN end ELSE defined)
        /\ DOMAIN contents' = 0..defined' - 1
        /\ \A r \in DOMAIN contents' :
            IF r < defined THEN contents'[r] = contents[r]
            ELSE PreZero => contents'[r] = Zero
        /\ \A r \in strip : view'.rows[r] = Seen(r)

Write(r, v) ==
    /\ view.writable /\ r \in DOMAIN view.rows
    /\ contents' = [contents EXCEPT ![r] = v]
    /\ view' = [view EXCEPT !.rows[r] = v]
    /\ UNCHANGED defined

\* An error: no strip can be relied on.
GiveUp == view' = NoView /\ UNCHANGED <<contents, defined>>

\* jpeg_abort(), jpeg_destroy()
Forget == contents' = <<>> /\ defined' = 0 /\ view' = NoView

PlainNext ==
    \/ \E start \in 0..Rows - 1, num \in 1..MaxAccess, w \in BOOLEAN : Access(start, num, w)
    \/ \E r \in DOMAIN view.rows, v \in Values : Write(r, v)
    \/ GiveUp \/ Forget

\* A step of a program that has other things to do as well.
PlainStep == UNCHANGED plainVars \/ PlainNext

PlainSpec == PlainInit /\ [][PlainNext]_plainVars
=============================================================================
