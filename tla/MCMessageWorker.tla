-------------------------- MODULE MCMessageWorker ---------------------------
(* Small instances of MessageWorker for TLC. *)
EXTENDS MessageWorker, TLC

CONSTANTS c1, c2, c3, m1, m2, m3, w1, w2, alice, bob, none

TwoSenders == m1 :> alice @@ m2 :> alice @@ m3 :> bob
OneSender  == [m \in Messages |-> alice]

AllFaults == FaultKinds
RowFaults == {"raise", "rollback", "commit_ack", "kill"}
NoFaults  == {}

(* Row keys are interchangeable. *)
OnlyIds == Permutations({c1, c2, c3})

=============================================================================
