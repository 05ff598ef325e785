--------------------------- MODULE MCHlsSegments ----------------------------
(* HlsSegments on small instances: the ring without TS clients.              *)
EXTENDS HlsSegments
=============================================================================
