--------------------------- MODULE MCDecompressor ---------------------------
(* A picture whose last row of iMCUs is cut short, shown in two passes for   *)
(* its colours; its first component has four times the rows of the others.   *)
EXTENDS Decompressor

TallPicture ==
    [width |-> 5, height |-> 13,
     comps |-> <<[h |-> 1, v |-> 4], [h |-> 1, v |-> 1], [h |-> 1, v |-> 1]>>,
     scans |-> <<[comps |-> <<1, 2, 3>>, kind |-> "full"]>>, buffered |-> FALSE, scale |-> 2,
     fancy |-> FALSE, rgb |-> FALSE, smoothing |-> FALSE, quantize |-> "2pass"]

TallPictures == {TallPicture}
=============================================================================
