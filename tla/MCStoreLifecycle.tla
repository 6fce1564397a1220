-------------------------- MODULE MCStoreLifecycle --------------------------
(* An instance of StoreLifecycle: the process that governs the bus, a      *)
(* second that would make the store as well, and a consumer.               *)
EXTENDS StoreLifecycle

Three  == {"owner", "rival", "consumer"}
Homes  == [p \in Three |-> IF p = "rival" THEN 2 ELSE 1]
SomeCalls == [p \in Three |->
  CASE p = "owner" -> {"create_or_open", "create", "put", "close", "bus_init"}
    [] p = "rival" -> {"open_or_create", "bus_init"}
    [] OTHER       -> {"open", "put", "bus_open", "bus_close"}]
Turns(o, r, c) == [p \in Three |-> CASE p = "owner" -> o [] p = "rival" -> r [] OTHER -> c]
SomeLimits == {Turns(3, 0, 3), Turns(2, 2, 2), Turns(4, 0, 2)}
=============================================================================
