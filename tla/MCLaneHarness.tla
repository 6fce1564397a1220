---------------------------- MODULE MCLaneHarness ----------------------------
(***************************************************************************)
(* A small instance of LaneHarness: a writer with one key and one with     *)
(* two, on one probe chain of a table that has a slot to spare, and a      *)
(* reader.                                                                 *)
(***************************************************************************)
EXTENDS LaneHarness

CONSTANTS p0, p1, p2, p3, k1, k2, k3

Two     == << p1, p2 >>
Three   == << k1, k2, k3 >>
Collide == [k \in Keys |-> 0]
Bare    == [s \in SlotIds |-> NoKey]
Full    == {MaxLen}
Any     == [p \in Procs |-> [op : {"set", "get"}, key : Keys]]
Few     == [p \in Procs |-> IF p = p0 THEN 3 ELSE 2]
NoWatch == [l \in {} |-> NoGroup]
NoGroups == [p \in Procs |-> NoGroup]
NoLabels == [p \in Procs |-> {}]

(* Of the assumptions of LaneHarnessProofs; the other is SpuriousCAS.     *)
ASSUME InstanceDealt == Dealt
=============================================================================
