------------------------------ MODULE MCAprsWx ------------------------------
(* A daemon with one or two stations, and cycles of two packets.            *)
EXTENDS AprsWx, TLC

CONSTANTS north, south

MCFds == {3, 4}
MCStations == {north}
MCTwoStations == {north, south}

Warm == [distance |-> 0, value |-> "Temperature" :> 68]
Mute == [distance |-> 3, value |-> <<>>]

MCReadings == {Warm, Mute}
MCWarm == {Warm}

=============================================================================
