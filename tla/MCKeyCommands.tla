---------------------------- MODULE MCKeyCommands ----------------------------
(***************************************************************************)
(* Instances of KeyCommands: a document a of up to two chunks, a key b     *)
(* with an order, the scratch keys of two searches, probes that meet.      *)
(***************************************************************************)
EXTENDS KeyCommands, TLC

CONSTANTS p1, p2, p3, a, b, q1, q2

SomeHome == << a, 0 >> :> 1 @@ << a, 1 >> :> 1 @@ << a, 2 >> :> 2 @@ << b, 0 >> :> 3 @@ << b, 1 >> :> 1
         @@ << q1, 0 >> :> 1 @@ << q2, 0 >> :> 4
SomeKeys == DOMAIN SomeHome
TooMany  == {3}

Cmd(o, x, n, g, f) == [do |-> o, name |-> x, n |-> n, gen |-> g, flag |-> f]
Ingest(g, n) == Cmd("ingest", a, n, g, FALSE)
Deep         == Cmd("unset", a, 0, 0, TRUE)
List         == Cmd("list", b, 0, 0, FALSE)
Export       == Cmd("export", b, 0, 0, FALSE)
Search(x, g, f) == Cmd("search", x, 0, g, f)

Full  == << << a, 0 >>, << a, 1 >>, << a, 2 >>, << b, 0 >> >>
OnlyB == << NoKey, NoKey, << b, 0 >>, NoKey >>
AandB == << << a, 0 >>, NoKey, << b, 0 >>, << b, 1 >> >>

Scene(k, x, y, z, h, l, e) ==
  [keys |-> k, whole |-> {a}, todo |-> p1 :> x @@ p2 :> y @@ p3 :> z, holds |-> h, kills |-> l, embeds |-> e]

(* A second ingest into a full store, whose slots others hold; ingests and *)
(* removals beside a list and an export; a tandem set and removed beside a *)
(* list and a watch; two searches, of which one is too long, and the       *)
(* embedding daemon; a search that a purge may meet, and a list.           *)
Refilled == Scene(Full, << Ingest(2, 2) >>, << List >>, << >>, 1, 1, 0)
Churned  == Scene(OnlyB, << Ingest(2, 2), Deep, Ingest(4, 1) >>, << List, Export >>, << >>, 0, 1, 0)
Tandem   == Scene(AandB, << Cmd("disorder", b, 2, 0, FALSE), Cmd("orders", b, 2, 2, FALSE) >>, << List >>,
                  << Cmd("watch", a, 0, 0, FALSE), Cmd("watch", b, 0, 0, TRUE) >>, 0, 0, 0)
Searched == Scene(OnlyB, << Search(q1, 2, FALSE) >>, << Search(q2, 3, TRUE) >>, << >>, 0, 1, 2)
Purged   == Scene(OnlyB, << Search(q1, 2, FALSE) >>, << List >>, << >>, 1, 0, 2)
SomeScenes == {Refilled, Churned, Tandem, Searched, Purged}

(* A watch of a key that others use. *)
Watching == { Scene(AandB, << >>, << >>, << Cmd("watch", b, 0, 0, TRUE) >>, 2, 0, 0) }

(* A document whose chunks are too long for the daemon's model.            *)
Overlong == { Scene(OnlyB, << Ingest(3, 2) >>, << >>, << >>, 0, 0, 1) }

(* What the theorems of KeyCommandsProofs suppose of the scenes: the first *)
(* has a full table, the fourth has keys with slots of their own.          *)
ASSUME InstanceSorted  == Scenes # Overlong => Sorted
ASSUME InstanceSettled == Filled(Refilled) /\ Rooted(Searched)
=============================================================================
