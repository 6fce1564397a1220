--------------------------- MODULE MCEmbedSidecar ---------------------------
(***************************************************************************)
(* Small instances of EmbedSidecar: clients p1 and p2, the daemon p3, one  *)
(* key k1 that carries the label "embed" (bit 0, routed to g1), and the    *)
(* lane key k2, which the store does not hold.                             *)
(***************************************************************************)
EXTENDS EmbedSidecar

CONSTANTS p1, p2, p3, k1, k2, g1, g2, embed, waiting, exceeded

Ops(O, K) == [op : O, key : K]

LensB  == {2}
Homes  == [k \in {k1, k2} |-> 0]
OneKey == [s \in 0 .. 0 |-> k1]
Route  == [l \in {embed, waiting, exceeded} |-> IF l = embed THEN g1 ELSE NoGroup]
Group2 == [p \in Procs |-> g2]
Waits  == [p \in Procs |-> {waiting}]

(* What p1 and p2 may call; the daemon's calls are its own. *)
Clients2(A, B, K) == [p \in {p1, p2, p3} |-> IF p = p1 THEN Ops(A, K)
                                             ELSE IF p = p2 THEN Ops(B, K) ELSE {}]

DepositCalls == Clients2({"set", "label"}, {"set", "setemb", "watch", "unwatch", "pulsekey", "unlabel"}, {k1})
AgainCalls   == Clients2({"set", "label"}, {"pulsekey"}, {k1})
SweepCalls   == Clients2({"set"}, {"purge"}, {k1})
BumpCalls    == Clients2({"bump"}, {}, {k1})
RetrainCalls == Clients2({"set", "retrain"}, {}, {k1})

Deposits == [p \in {p1, p2, p3} |-> IF p = p3 THEN 20 ELSE 1]
TwoEach  == [p \in {p1, p2, p3} |-> IF p = p3 THEN 20 ELSE IF p = p1 THEN 2 ELSE 1]

Mode(b, t, c, P, e) == [backfill |-> b, training |-> t, ceiling |-> c, callers |-> P, early |-> e]

(* As it is started by default, after a backfill, and in vector-training;  *)
(* with every text too long and one client.                                *)
Plain    == {Mode(FALSE, FALSE, 3, {p1, p2}, FALSE)}
Training == {Mode(FALSE, TRUE, 3, {p1, p2}, FALSE)}
Started  == Plain \cup Training \cup {Mode(TRUE, FALSE, 3, {p1, p2}, FALSE), Mode(FALSE, FALSE, 2, {p1}, FALSE)}

(* For the settings README lists. *)
Early    == {Mode(FALSE, FALSE, 3, {p1, p2}, TRUE)}
Filling  == {Mode(TRUE, FALSE, 3, {p1, p2}, TRUE)}
TooLong  == {Mode(FALSE, FALSE, 2, {p1, p2}, FALSE)}
FillLong == {Mode(TRUE, FALSE, 2, {p1}, FALSE)}

(* The assumption of SettledDone about what clients set. *)
ASSUME InstanceSettled == Settled

=============================================================================
