----------------------------- MODULE MCSlotStore -----------------------------
(***************************************************************************)
(* Small instances of SlotStore for TLC.  A .cfg picks one definition of   *)
(* each family below; the names say which regime it belongs to.            *)
(***************************************************************************)
EXTENDS SlotRegisters

CONSTANTS p1, p2, p3, k1, k2, g1, tag

Ops(O, K) == [op : O, key : K]

Lens2  == {1, 2}
LensA  == {1}
LensB  == {2}
OneKey == [k \in {k1} |-> 0]
Collide == [k \in {k1, k2} |-> 0]

Empty1  == [s \in 0 .. 0 |-> NoKey]
Empty2  == [s \in 0 .. 1 |-> NoKey]
Full1   == [s \in 0 .. 0 |-> k1]
One2    == [s \in 0 .. 1 |-> IF s = 0 THEN k1 ELSE NoKey]
Lanes2  == [s \in 0 .. 1 |-> IF s = 0 THEN k1 ELSE k2]

NoWatch == [l \in {} |-> NoGroup]
NoGroups == [p \in Procs |-> NoGroup]
NoLabels == [p \in Procs |-> {}]

(* One group and one label, which routes to it. *)
Route  == [l \in {tag} |-> g1]
Group1 == [p \in Procs |-> g1]
Tagged == [p \in Procs |-> {tag}]

Once  == [x \in {p1, p2} |-> 1]
Twice == [x \in {p1, p2} |-> 2]

(* One slot under every operation that takes the seqlock, and one that     *)
(* only marks it.                                                          *)
LockedCalls ==
  [p \in {p1, p2, p3} |->
     CASE p = p1 -> Ops({"set", "append"}, {k1})
       [] p = p2 -> Ops({"set", "setemb", "purge", "bump"}, {k1})
       [] OTHER  -> Ops({"get", "getemb", "label"}, {k1})]
LockedBudget == [p \in {p1, p2, p3} |-> IF p = p1 THEN 2 ELSE 1]

(* Homes of their own, and a trainer or owner that unsets and retrains     *)
(* while nobody else is inside the library; a writer may be killed.        *)
Apart == [k \in {k1, k2} |-> IF k = k1 THEN 0 ELSE 1]
QuietCalls ==
  [p \in {p1, p2, p3} |->
     CASE p = p1 -> Ops({"set", "append", "setemb"}, {k1, k2})
       [] p = p2 -> Ops({"unset", "retrain"}, {k1})
       [] OTHER  -> Ops({"get", "getemb"}, {k1})]
QuietBudget == [p \in {p1, p2, p3} |-> IF p = p3 THEN 1 ELSE 2]

(* Every operation but unset and retrain, the armed owner of the bus among *)
(* the callers.                                                            *)
ReturnCalls ==
  [p \in {p1, p2, p3} |->
     CASE p = p1 -> Ops({"set", "purge"}, {k1})
       [] p = p2 -> Ops({"poll", "snapshot", "setemb"}, {k1})
       [] OTHER  -> Ops({"append", "bump"} \cup LabelOps, {k1})]
ReturnBudget == [p \in {p1, p2, p3} |-> 1]

(* Two processes; the calls of each, also for the settings README lists. *)
HoleCalls == [p \in {p1} |-> Ops({"set", "unset"}, {k1, k2})]
HoleBudget == [p \in {p1} |-> 3]
BusyCalls == [p \in {p1, p2} |-> Ops(IF p = p1 THEN {"set"} ELSE {"setemb"}, {k1})]
RaceCalls == [p \in {p1, p2} |-> Ops({"set"}, IF p = p1 THEN {k1} ELSE {k2})]
AbaCalls  == [p \in {p1, p2} |->
               Ops(IF p = p1 THEN {"setemb", "retrain"} ELSE {"getemb"}, {k1})]
SnapCalls == [p \in {p1, p2} |-> Ops(IF p = p1 THEN {"setemb"} ELSE {"snapshot"}, {k1})]
PollCalls == [p \in {p1, p2} |-> Ops(IF p = p1 THEN {"set"} ELSE {"poll"}, {k1})]
UnsetCalls == [p \in {p1, p2} |-> Ops(IF p = p1 THEN {"unset"} ELSE {"append"}, {k1})]
KeyedCalls == [p \in {p1, p2} |-> IF p = p1 THEN Ops({"unset"}, {k1}) \cup Ops({"set"}, {k2})
                                            ELSE Ops({"get"}, {k1})]
PurgeCalls == [p \in {p1, p2} |-> Ops(IF p = p1 THEN {"purge"} ELSE {"poll"}, {k1})]

=============================================================================
