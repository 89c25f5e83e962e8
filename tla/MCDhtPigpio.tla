---------------------------- MODULE MCDhtPigpio ----------------------------
(* Bytes of two bits; temperatures of both signs, sums that wrap or are 0.  *)
EXTENDS DhtPigpio

Payload(a, b, c, d) == [i \in 0 .. 3 |-> <<a, b, c, d>>[i + 1]]

MCMeasured == {Payload(0, 0, 0, 0), Payload(1, 2, 2, 3), Payload(3, 3, 1, 1)}

=============================================================================
