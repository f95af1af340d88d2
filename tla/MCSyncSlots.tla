---------------------------- MODULE MCSyncSlots -----------------------------
(* A small instance of SyncSlots. *)
EXTENDS SyncSlots

CONSTANTS r1, r2, r3

ThreeRequests == {r1, r2, r3}

=============================================================================
