------------------------------ MODULE MCBridge ------------------------------
(* A small instance of Bridge for TLC. *)
EXTENDS Bridge, TLC

CONSTANTS r1, r2, m1, m3, w1, w2, alice, carol, none

TwoSenders == m1 :> alice @@ m3 :> carol
NotCarol == {alice}

AllFaults == FaultKinds
NothingLost == {"raise", "commit_ack"}

=============================================================================
