----------------------------- MODULE MCFifoRing -----------------------------
(* FifoRing with the three strings of the driver's send test, whose frames  *)
(* are 8, 10 and 11 bytes.  The configuration gives the ring 26 bytes (the   *)
(* test's channel has 25), so that 8 + 8 + 10 meets the capacity exactly.    *)
EXTENDS FifoRing

Lens == [PSU |-> 4, CMPSC |-> 6, MoNdAy |-> 7]
MCPayload == DOMAIN Lens

=============================================================================
