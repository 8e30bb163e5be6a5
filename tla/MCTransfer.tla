----------------------------- MODULE MCTransfer -----------------------------
(* A small instance of Transfer, in which everything fails.                *)
EXTENDS Transfer

AllFaults == Fault
=============================================================================
