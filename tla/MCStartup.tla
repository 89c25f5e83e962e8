----------------------------- MODULE MCStartup -----------------------------
(* Ports on both sides of 0, and one that is 0 as an unsigned.              *)
EXTENDS Startup

MCNumbers == {-1, 0, 1, 4}

=============================================================================
