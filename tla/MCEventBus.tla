----------------------------- MODULE MCEventBus -----------------------------
(***************************************************************************)
(* Small instances of EventBus: three slots on a mask of two one-bit       *)
(* words, so that slots 0 and 1 share a stripe and slot 2 has its own;     *)
(* keys k1 in slot 0 and k2 in slot 2.                                     *)
(***************************************************************************)
EXTENDS EventBus

CONSTANTS p1, p2, c1, c2, k1, k2, g1, tag

Ops(O, K) == [op : O, key : K]

LensA  == {1}
Homes  == [k \in {k1, k2} |-> IF k = k1 THEN 0 ELSE 2]
Both   == [s \in 0 .. 2 |-> IF s = 0 THEN k1 ELSE IF s = 2 THEN k2 ELSE NoKey]
Route  == [l \in {tag} |-> g1]
Group1 == [p \in Procs |-> g1]
Tagged == [p \in Procs |-> {tag}]

RingCalls == [p \in {p1, p2} |-> IF p = p1 THEN Ops({"set", "append", "label"}, {k1})
               ELSE Ops({"setemb", "unset", "retrain", "bump", "purge"}, {k1, k2})]
SetCalls  == [p \in {p1, p2} |-> IF p = p1 THEN Ops({"set"}, {k1}) ELSE Ops({"set"}, {k2})]

Once  == [p \in {p1, p2} |-> 1]
Twice == [p \in {p1, p2} |-> 2]

=============================================================================
