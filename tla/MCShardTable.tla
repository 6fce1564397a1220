---------------------------- MODULE MCShardTable ----------------------------
(***************************************************************************)
(* Small instances of ShardTable: three records for four shards.           *)
(***************************************************************************)
EXTENDS ShardTable, TLC

CONSTANTS p1, p2, p3, p4, forever

B(i, pr, d)       == [intent |-> i, prio |-> pr, dur |-> d]
R(n, q, i, pr, d) == [id |-> n, pid |-> q, intent |-> i, prio |-> pr, dur |-> d, at |-> 0]

Ids   == p1 :> 11 @@ p2 :> 12 @@ p3 :> 13 @@ p4 :> 14
Pids  == p1 :> 102 @@ p2 :> 101 @@ p3 :> 103 @@ p4 :> 104

(* p1's bids run out, and it renews them with a protective one; p2 wants   *)
(* its pages dropped, for good, and waits for its turn or looks on; p3 and *)
(* p4 want random pages.                                                    *)
Held1 == R(11, 102, "random", 1, 2)
Kept1 == R(11, 102, "willneed", 1, 2)
Held2 == R(12, 101, "dontneed", 1, Span - 1)
Held3 == R(13, 103, "random", 2, 1)
Held4 == R(14, 104, "random", 1, 1)

SomeBids  == p1 :> {B("sequential", 1, 1)} @@ p2 :> {} @@ p3 :> {B("random", 3, 1)} @@ p4 :> {}
SomeCalls == p1 :> {"claim", "rebid", "release"} @@ p2 :> {"advise", "elect", "snapshot"}
             @@ p3 :> {"claim", "release"} @@ p4 :> {}
SomeWaits == p1 :> {} @@ p2 :> {0, 2, forever} @@ p3 :> {} @@ p4 :> {}

Scene(t, n1, n2, n3) == [table |-> t, turns |-> p1 :> n1 @@ p2 :> n2 @@ p3 :> n3 @@ p4 :> 0]

(* Elections beside a writer; claims of the last free record; claims of    *)
(* more than one; and p2's waiting: its turn comes, p3 outbids it for good, *)
(* its own bid has run out.                                                 *)
Always3    == R(13, 103, "random", 3, Span - 1)
Short2     == R(12, 101, "dontneed", 1, 1)
SomeScenes == {Scene(<< Held3, Held2, Held1 >>, 1, 1, 0),
               Scene(<< Held2, Held4, Empty >>, 3, 0, 2),
               Scene(<< Held2, Empty, Empty >>, 2, 0, 1),
               Scene(<< Held2, Kept1, Empty >>, 1, 1, 0),
               Scene(<< Held2, Always3, Empty >>, 0, 1, 0),
               Scene(<< Short2, Kept1, Empty >>, 0, 1, 0)}

=============================================================================
