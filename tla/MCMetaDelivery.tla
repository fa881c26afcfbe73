--------------------------- MODULE MCMetaDelivery ---------------------------
(* Small instances of MetaDelivery for TLC. *)
EXTENDS MetaDelivery, TLC

CONSTANTS r1, r2, r3, m1, m2, m3, m4, alice, bob, carol, none

ThreeUsers == {alice, bob, carol}
ThreeSenders == m1 :> alice @@ m2 :> alice @@ m3 :> bob @@ m4 :> carol
NotCarol == {alice, bob}
Everybody == {}

AllFaults == FaultKinds
NoFaults == {}
OnlyDatabase == {"database"}
OnlyBroker == {"broker"}

(* One message alone, two in one change, one behind a status update, and an *)
(* empty list of changes.                                                  *)
Alone(m) == << << <<m>> >> >>
SomePayloads ==
  {Alone(m) : m \in {m1, m3, m4}}
    \cup { << << <<m2, m1>> >> >>, << << <<>>, <<m1>> >> >>, << <<>> >> }
MessagePayloads == {Alone(m1), Alone(m2)}
UserPayloads == {Alone(m1), Alone(m2), Alone(m4)}

RequestSymmetry == Permutations({r1, r2, r3})

=============================================================================
