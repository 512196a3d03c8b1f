----------------------------- MODULE MCEndToEnd ------------------------------
(* EndToEnd on small instances; the configurations give the bounds.          *)
EXTENDS EndToEnd
=============================================================================
