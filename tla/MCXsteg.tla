------------------------------ MODULE MCXsteg ------------------------------
(* Small instances of Xsteg for TLC.  The process ids are not symmetric here: *)
(* liveness is checked too.                                                   *)
EXTENDS Xsteg
=============================================================================
