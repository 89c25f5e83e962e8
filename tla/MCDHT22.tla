------------------------------ MODULE MCDHT22 ------------------------------
(* Every frame of bytes of two bits, with every fault.                      *)
EXTENDS DHT22
=============================================================================
