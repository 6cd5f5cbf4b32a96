---------------------------- MODULE MCGuestShare ----------------------------
(* Model-checking instance of GuestShare: one permit in each semaphore, so     *)
(* that every limit is met.                                                    *)
EXTENDS GuestShare

OnePermit == [pool \in Pools |-> 1]
=============================================================================
