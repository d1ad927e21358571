----------------------------- MODULE MCSimulator -----------------------------
(* Simulator with two processes over every pair of short traces; 8 addresses *)
(* on pages of two bytes, so a digit read too many is a bit.                 *)
EXTENDS Simulator

CONSTANTS
  Addresses,  (* the addresses traces use                                    *)
  Lengths,    (* Lengths[p]: the instructions of process p                   *)
  Starts      (* the arrival times of all processes but the first            *)

Instructions == Addresses \cup {NonMem}
MCWorkloads ==
  {[program |-> <<first, second>>, start |-> <<0, at>>] :
     first \in [1 .. Lengths[1] -> Instructions],
     second \in [1 .. Lengths[2] -> Instructions], at \in Starts}

TwoLengths == <<3, 2>>
=============================================================================
