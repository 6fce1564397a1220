--------------------------- MODULE SlotStoreProps ---------------------------
(***************************************************************************)
(* What the slot table promises to the processes that share it.            *)
(***************************************************************************)
EXTENDS SlotStore

Length == 0 .. MaxLen

SlotType == [hash : Keys \cup {NoKey}, key : Keys \cup {NoKey}, epoch : Nat,
             val_len : Length, val : [1 .. MaxLen -> Cell],
             embedding : [1 .. 2 -> Cell],
             watcher_mask : SUBSET (Groups \cup {NoGroup}), bloom : SUBSET Labels]

HeaderType == [epoch : Nat, signal : [Groups -> Nat], dirty : SUBSET Nat, bell : BOOLEAN]

CallType == [op : OpNames, key : Keys \cup {NoKey}, i : Nat, slot : SlotIds,
             sh : Keys \cup {NoKey}, busy : BOOLEAN, e : Nat, end : Nat,
             n : Length, buf : Seq(Cell), wm : SUBSET (Groups \cup {NoGroup}),
             bl : SUBSET Labels, late : BOOLEAN, rc : Results]

RetType == [op : OpNames, key : Keys \cup {NoKey}, rc : Results, n : Length,
            buf : Seq(Cell)]

(* Every variable has its type; in particular val_len never exceeds        *)
(* max_val_sz, whatever set and append do to it.                           *)
TypeOK ==
  /\ S \in [SlotIds -> SlotType]
  /\ H \in HeaderType
  /\ pc \in [Procs -> PCs]
  /\ call \in [Procs -> CallType]
  /\ ret \in [Procs -> RetType]
  /\ left \in [Procs -> Nat]

-----------------------------------------------------------------------------
InCall(p) == pc[p] \notin Outside

Holds(p, s) == pc[p] \in Critical /\ At(p) = s

(* The one invariant of splinter.h: while the epoch of a slot is even no   *)
(* process is writing it; while it is odd exactly one is, or one that was  *)
(* killed there left it odd.  No two processes ever write the same slot.   *)
SeqlockOwner ==
  \A s \in SlotIds :
    /\ \A p, q \in Procs : Holds(p, s) /\ Holds(q, s) => p = q
    /\ (\E p \in Procs : Holds(p, s)) => Odd(S[s].epoch)
    /\ Odd(S[s].epoch) =>
         \E p \in Procs : Holds(p, s) \/ (pc[p] = "killed" /\ At(p) = s)

(* An odd epoch means that a writer is active: after every process has     *)
(* left the library, and none was killed in it, every slot is usable.      *)
NoStuckSlot ==
  (\A p \in Procs : pc[p] = "idle") => \A s \in SlotIds : ~ Odd(S[s].epoch)

Copies(b, v, n) == Len(b) = n /\ \A c \in 1 .. n : b[c] = v[c]

Returns(p, op, rc) == pc[p] # "idle" /\ pc'[p] = "idle" /\ Op(p) = op /\ ret'[p].rc = rc

(* A get, or a get_embedding, that returns 0 returns what the slot holds   *)
(* at that moment, whole: length and bytes of one and the same write.      *)
ReadExact ==
  [][\A p \in Procs :
       /\ Returns(p, "get", "ok") => Copies(ret'[p].buf, Slot(p).val, Slot(p).val_len)
       /\ Returns(p, "getemb", "ok") => Copies(ret'[p].buf, Slot(p).embedding, 2)]_vars

(* The same of get_slot_snapshot, which returns 0 for nothing else: what   *)
(* it copied is what the slot held when it decided to return.              *)
SnapshotExact ==
  [][\A p \in Procs : Returns(p, "snapshot", "ok") =>
       /\ ret'[p].n = Slot(p).val_len
       /\ Copies(ret'[p].buf, Slot(p).embedding, 2)]_vars

(* A get of a key never returns bytes that were written for another key. *)
ReadKeyed ==
  \A p \in Procs : ret[p].op = "get" /\ ret[p].rc = "ok" =>
    \A c \in 1 .. Len(ret[p].buf) :
      ret[p].buf[c] # Zero => ret[p].buf[c][1] = ret[p].key

-----------------------------------------------------------------------------
(* The table as a map from keys to values *)

Distance(k) == {i \in 0 .. Slots - 1 :
                  LET s == (Home[k] + i) % Slots IN S[s].hash = k /\ S[s].key = k}

(* The slot that a lookup of k reaches: the first match of the probe. *)
Reached(k) == IF Distance(k) = {} THEN Slots
              ELSE (Home[k] + (CHOOSE i \in Distance(k) : \A j \in Distance(k) : i <= j)) % Slots

(* A key is in at most one slot: lookups and updates of it agree.          *)
OneSlotPerKey ==
  \A k \in Keys : Cardinality({s \in SlotIds : S[s].hash = k}) <= 1

(* When set returns 0, a get of the key reaches the slot that set wrote:   *)
(* the value is stored under its key and not behind another one.           *)
SetLands ==
  [][\A p \in Procs : Returns(p, "set", "ok") => Reached(call[p].key) = At(p)]_vars

(* When unset returns, a lookup finds nothing under the key: no older      *)
(* value of it comes back.                                                 *)
UnsetForgets ==
  [][\A p \in Procs : Returns(p, "unset", "ok") => Reached(call[p].key) = Slots]_vars

(* The slot of the key that p has just set holds the value it stored, in   *)
(* all its cells. *)
HoldsSet(p) ==
  LET s == Reached(ret[p].key)
  IN  /\ s # Slots
      /\ S[s].val_len = ret[p].n
      /\ \A c \in 1 .. ret[p].n : S[s].val[c] = << ret[p].key, p, left[p] >>

(* Between one set of a process and the next its key holds what it stored, *)
(* where no key has two writers.                                           *)
LaneHolds ==
  \A p \in Procs : pc[p] = "idle" /\ ret[p].op = "set" /\ ret[p].rc = "ok" => HoldsSet(p)

-----------------------------------------------------------------------------
(* What the steps preserve: the parts of the inductive invariant behind    *)
(* TypeOK, SeqlockOwner and ReadExact *)

(* Locks are entered by CAS, so the operations that store the epoch        *)
(* outright must not meet any other: wherever they are called, they are    *)
(* among the Quiet ones.                                                   *)
RewindsAreQuiet == \A p \in Procs : \A c \in Calls[p] : c.op \in Rewinds => c.op \in Quiet

QuietAlone ==
  /\ \A p \in Procs : InCall(p) /\ Op(p) \in Rewinds => Op(p) \in Quiet
  /\ \A p, q \in Procs : p # q /\ InCall(p) /\ InCall(q) => {Op(p), Op(q)} \cap Quiet = {}

(* Where in a call each operation can be, and with which locals. *)
Shape(l, c) ==
  /\ l \notin Outside => c.key \in Keys
  /\ l \in {"cas"} \cup (Critical \ {"zeroemb", "even4"}) => c.op \in LockOps
  /\ l \in {"zeroemb", "even4"} => c.op = "retrain"
  /\ l \in {"forget", "wipe", "rewind", "reset", "reopen"} => c.op = "unset"
  /\ l \in {"pulse", "epoch", "dirty", "bell"} => c.op \notin ReadOps
  /\ l = "cas" => ~ Odd(c.e)
  /\ l = "wait" => c.op = "poll"
  /\ l = "len" => c.op \in {"get", "snapshot"}
  /\ l = "copy" => c.op \in {"get", "getemb", "snapshot"}
  /\ c.op \in {"get", "getemb"} /\ l \in {"probe", "found", "len"} => c.buf = << >>

CallShape == \A p \in Procs : Shape(pc[p], call[p])

(* A get whose slot still has the epoch it read first has copied what the  *)
(* slot holds now.                                                         *)
CopyExact(p) ==
  Op(p) \in {"get", "getemb"} /\ pc[p] \in {"len", "copy"} =>
    /\ ~ Odd(call[p].e)
    /\ call[p].e <= Slot(p).epoch
    /\ call[p].e = Slot(p).epoch =>
         /\ pc[p] = "copy" /\ Op(p) = "get" => call[p].n = Slot(p).val_len
         /\ \A c \in 1 .. Len(call[p].buf) : call[p].buf[c] = Source(p)[c]

ReaderExact == \A p \in Procs : CopyExact(p)

IInv == TypeOK /\ QuietAlone /\ CallShape /\ SeqlockOwner /\ ReaderExact

-----------------------------------------------------------------------------
(* Liveness *)

(* Every call returns: there is no lock to wait for, so a call ends unless *)
(* its process is killed, whatever the other processes do.                 *)
CallsReturn == \A p \in Procs : InCall(p) ~> ~ InCall(p)

(* poll waits "at most" its timeout. *)
PollReturns == \A p \in Procs : InCall(p) /\ Op(p) = "poll" ~> ~ InCall(p)

(* A purge "does not advance any epoch" and has "nothing to tell a         *)
(* watcher": where purge is the only other call, no poll reports a change. *)
PurgeSilent == [][\A p \in Procs : ~ Returns(p, "poll", "ok")]_vars

=============================================================================
