--------------------------- MODULE MCDiscriminant ---------------------------
(* Classes that overlap: as many negatives as a percentage below one needs.  *)
EXTENDS Discriminant

OverlappingVectors == {<<0>>, <<1>>, <<3>>}
OneScale == {<<1, 1>>}
=============================================================================
