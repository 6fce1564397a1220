------------------------- MODULE MCCompletionDaemon -------------------------
(***************************************************************************)
(* Small instances of CompletionDaemon: keys k1 and k2.                    *)
(***************************************************************************)
EXTENDS CompletionDaemon

(* One question under each key; or two under k1.                           *)
SomeRequests == {[k \in Keys |-> 1], [k \in Keys |-> IF k = "k1" THEN 2 ELSE 0]}

=============================================================================
