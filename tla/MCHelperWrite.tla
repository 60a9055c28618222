--------------------------- MODULE MCHelperWrite ---------------------------
(* Command lines for HelperWrite. *)
EXTENDS HelperWrite

CommandLines ==
  [flag : {"f", "P"}, block : {1, 2}, count : {0, 2}, length : {0, 2, 3, 4},
   inOff : {0, 1, 4}, outOff : {0, 1, 4}, outSize : {0, 3}]

\* The whole input to an output that is large enough.
WholeFile ==
  [flag : {"f", "P"}, block : {1, 2}, count : {0}, length : {0}, inOff : {0}, outOff : {0}, outSize : {4}]
=============================================================================
