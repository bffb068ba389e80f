---------------------------- MODULE MCServerMain ----------------------------
(***************************************************************************)
(* Ports at the limits of 16 bits, below 0, and at the limits of an int    *)
(* (of a smaller width).                                                   *)
(***************************************************************************)
EXTENDS Dashboard

Boundaries ==
  {-2000002, -2000001, -65535, -1, 0, 1, 65535, 65536, 70000, 2000000, 2000001}
=============================================================================
