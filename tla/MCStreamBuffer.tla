--------------------------- MODULE MCStreamBuffer ---------------------------
(* StreamBuffer on small instances.  Clients only read the ring and do not  *)
(* meet each other, so that one of them is enough.                          *)
EXTENDS StreamBuffer

CONSTANT c1
=============================================================================
