------------------------------ MODULE EventBus ------------------------------
(***************************************************************************)
(* The event bus of splinter.c: writers set a bit of the dirty mask for    *)
(* the stripe of the slot they changed, then ring an eventfd; consumers    *)
(* block on the eventfd, collect the mask word by word and visit the slots *)
(* of the stripes it names.                                                *)
(*                                                                         *)
(* The writers are the processes of SlotStore (NotifyDirty, NotifyBell).   *)
(* A wait that times out or finds the eventfd drained returns -1 and the   *)
(* consumer re-arms; a visit retries until the slot is stable.             *)
(***************************************************************************)
EXTENDS SlotStoreProps

CONSTANTS
  Consumers,  \* processes blocked in splinter_event_bus_wait
  MaskBits,   \* SPLINTER_EVENT_BUS_BITS
  WordBits    \* bits of one word of the mask (64)

CeilDiv(n, d) == (n + d - 1) \div d

ASSUME MaskAssumption   == MaskBits \in Nat \ {0} /\ WordBits \in Nat \ {0}
ASSUME StripeAssumption == Stripe = CeilDiv(Slots, MaskBits)

VARIABLES
  con,   \* each consumer: where it is, the next word w to collect, the bits it
         \* has collected, its saved copy of the mask, the slots left to visit
  seen   \* what the consumers, together, last saw in each slot

busVars == << vars, con, seen >>

Words   == CeilDiv(MaskBits, WordBits)
Word(b) == b \div WordBits

(* What a visitor can see of a slot. *)
Face(s) == [hash |-> S[s].hash, val |-> [c \in 1 .. S[s].val_len |-> S[s].val[c]],
            embedding |-> S[s].embedding, bloom |-> S[s].bloom]

Asleep == [pc |-> "wait", w |-> 0, bits |-> {}, saved |-> {}, todo |-> {}]

-----------------------------------------------------------------------------
(* splinter_event_bus_wait: poll(2) sees a ring, read(2) drains it, unless *)
(* another consumer was faster. *)

Wake(c) ==
  /\ con[c].pc = "wait" /\ H.bell
  /\ con' = [con EXCEPT ![c].pc = "read"]
  /\ UNCHANGED << vars, seen >>

Drain(c) ==
  /\ con[c].pc = "read" /\ H.bell
  /\ con' = [con EXCEPT ![c] = [@ EXCEPT !.pc = "mask", !.w = 0, !.bits = {}]]
  /\ H' = [H EXCEPT !.bell = FALSE]
  /\ UNCHANGED << S, pc, call, ret, left, seen >>

Again(c) ==
  /\ con[c].pc = "read" /\ ~ H.bell
  /\ con' = [con EXCEPT ![c].pc = "wait"]
  /\ UNCHANGED << vars, seen >>

-----------------------------------------------------------------------------
(* splinter_event_bus_take_dirty reads and clears the mask a word at a     *)
(* time; splinter_event_bus_get_dirty only reads it. *)

InWord(c) == {b \in H.dirty : Word(b) = con[c].w}

Collect(c) == con' = [con EXCEPT ![c].w = @ + 1, ![c].bits = @ \cup InWord(c)]

(* Broken: a word is only loaded; or every word is cleared with the first; *)
(* or a word past the mask is read.                                        *)
BrokenTakeLoad(c) ==
  /\ con[c].pc = "mask" /\ con[c].w < Words
  /\ Collect(c)
  /\ UNCHANGED << vars, seen >>

BrokenTakeAll(c) ==
  /\ con[c].pc = "mask" /\ con[c].w < Words
  /\ Collect(c)
  /\ H' = [H EXCEPT !.dirty = {}]
  /\ UNCHANGED << S, pc, call, ret, left, seen >>

BrokenTakeNext(c) ==
  /\ con[c].pc = "mask" /\ con[c].w <= Words
  /\ Collect(c)
  /\ H' = [H EXCEPT !.dirty = @ \ InWord(c)]
  /\ UNCHANGED << S, pc, call, ret, left, seen >>

TakeWord(c) ==
  /\ con[c].pc = "mask" /\ con[c].w < Words
  /\ Collect(c)
  /\ H' = [H EXCEPT !.dirty = @ \ InWord(c)]
  /\ UNCHANGED << S, pc, call, ret, left, seen >>

PeekWord(c) ==
  /\ con[c].pc = "mask" /\ con[c].w < Words
  /\ Collect(c)
  /\ UNCHANGED << vars, seen >>

(* The consumer turns the bits into slots: those of every bit it took, *)
Rescan(c) ==
  /\ con[c].pc = "mask" /\ con[c].w = Words
  /\ con' = [con EXCEPT ![c] = [@ EXCEPT !.pc = "visit", !.w = 0, !.bits = {},
               !.todo = {s \in SlotIds : s \div Stripe \in con[c].bits}]]
  /\ UNCHANGED << vars, seen >>

(* or, after a peek, of the bits that its saved copy does not have.        *)
Compare(c) ==
  /\ con[c].pc = "mask" /\ con[c].w = Words
  /\ con' = [con EXCEPT ![c] = [@ EXCEPT !.pc = "visit", !.w = 0, !.bits = {},
               !.saved = con[c].bits,
               !.todo = {s \in SlotIds : s \div Stripe \in con[c].bits \ con[c].saved}]]
  /\ UNCHANGED << vars, seen >>

Visit(c) ==
  /\ con[c].pc = "visit"
  /\ \E s \in con[c].todo :
       /\ \A t \in con[c].todo : s <= t
       /\ ~ Odd(S[s].epoch)
       /\ con' = [con EXCEPT ![c].todo = @ \ {s}]
       /\ seen' = [seen EXCEPT ![s] = Face(s)]
  /\ UNCHANGED vars

Rearm(c) ==
  /\ con[c].pc = "visit" /\ con[c].todo = {}
  /\ con' = [con EXCEPT ![c].pc = "wait"]
  /\ UNCHANGED << vars, seen >>

Waiting(c) == Wake(c) \/ Drain(c) \/ Again(c) \/ Visit(c) \/ Rearm(c)
Consume(c) == Waiting(c) \/ TakeWord(c) \/ Rescan(c)
Watch(c)   == Waiting(c) \/ PeekWord(c) \/ Compare(c)

(* The consumers start knowing the store as it is. *)
BusInit ==
  /\ Init
  /\ con = [c \in Consumers |-> Asleep]
  /\ seen = [s \in SlotIds |-> Face(s)]

Call == Next /\ UNCHANGED << con, seen >>

BusNext  == Call \/ \E c \in Consumers : Consume(c)
PeekNext == Call \/ \E c \in Consumers : Watch(c)

BusSpec == BusInit /\ [][BusNext]_busVars

(* Calls and consumers are scheduled: consumers that take the mask, *)
Calling == \A p \in Procs : WF_busVars(Step(p) /\ UNCHANGED << con, seen >>)
BusFair == BusSpec /\ Calling /\ \A c \in Consumers : WF_busVars(Consume(c))

(* or consumers that only peek at it. *)
PeekFair ==
  /\ BusInit /\ [][PeekNext]_busVars
  /\ Calling /\ \A c \in Consumers : WF_busVars(Watch(c))

-----------------------------------------------------------------------------
ConType == [pc : {"wait", "read", "mask", "visit"}, w : 0 .. Words, bits : SUBSET Nat,
            saved : SUBSET Nat, todo : SUBSET SlotIds]

BusTypeOK == TypeOK /\ con \in [Consumers -> ConType] /\ DOMAIN seen = SlotIds

(* "ceil() here is load-bearing": whatever the number of slots, no writer  *)
(* sets a bit past the end of the mask.                                    *)
DirtyInMask == H.dirty \subseteq 0 .. MaskBits - 1

(* A consumer that is going to collect bit b without being rung again. *)
WillCollect(b) == \E c \in Consumers : con[c].pc = "mask" /\ con[c].w <= Word(b)

(* No wakeup is lost: a bit in the mask has a ring pending, a writer about *)
(* to ring, or a consumer about to collect it, however writers and         *)
(* consumers interleave between the mask and the eventfd.                  *)
DirtyRings ==
  \A b \in H.dirty : H.bell \/ WillCollect(b) \/ \E p \in Procs : pc[p] = "bell"

(* A writer inside a call that changes slot s and has not set its bit. *)
Unpublished(p, s) ==
  At(p) = s /\ Op(p) \notin ReadOps /\ InCall(p) /\ pc[p] \notin {"probe", "bell"}

(* No change is lost: the consumers have seen what a slot holds, unless a  *)
(* writer has yet to report it, its bit is in the mask, or a consumer has  *)
(* the bit or is on its way to the slot.                                   *)
ChangeReported ==
  \A s \in SlotIds :
    \/ seen[s] = Face(s)
    \/ \E p \in Procs : Unpublished(p, s)
    \/ s \div Stripe \in H.dirty
    \/ \E c \in Consumers : s \div Stripe \in con[c].bits \/ s \in con[c].todo

(* The bus lets a consumer "rescan only what moved": in the end it has     *)
(* seen every slot as the writers left it.                                 *)
Informed == <>[](\A s \in SlotIds : seen[s] = Face(s))

-----------------------------------------------------------------------------
(* What the steps preserve: the parts of the inductive invariant behind    *)
(* BusTypeOK and ChangeReported *)

(* A writer that may have changed slot s, and will set its bit. *)
Changing(p, s) ==
  /\ At(p) = s
  /\ \/ pc[p] \in {"fill", "blank", "link", "extend", "emb2", "wipe", "rewind", "reset",
                   "reopen", "even4", "epoch", "dirty"}
     \/ pc[p] = "close" /\ Op(p) \in {"set", "append", "setemb"} /\ call[p].rc = "ok"
     \/ pc[p] = "pulse" /\ Op(p) # "pulsekey"

(* What the consumers have not seen is on its way to them. *)
Reported ==
  \A s \in SlotIds :
    \/ seen[s] = Face(s)
    \/ \E p \in Procs : Changing(p, s)
    \/ s \div Stripe \in H.dirty
    \/ \E c \in Consumers : s \div Stripe \in con[c].bits \/ s \in con[c].todo

(* A consumer forgets no bit and no slot it has in hand. *)
HandsFree ==
  \A c \in Consumers : /\ con[c].pc # "mask" => con[c].bits = {}
                       /\ con[c].pc # "visit" => con[c].todo = {}

(* A free slot has no value, but for a set or an unset in the middle: what *)
(* purge wipes is no value. *)
Midway(p, s) == At(p) = s /\ pc[p] \in {"blank", "link", "wipe", "rewind", "reset"}
FreeIsEmpty ==
  \A s \in SlotIds :
    S[s].hash = NoKey => S[s].val_len = 0 \/ \E p \in Procs : Midway(p, s)

(* An append is on a slot that was taken, and only it refuses. *)
OnTaken ==
  \A p \in Procs : Op(p) = "append" /\ pc[p] \in {"found", "cas", "room", "extend"} =>
    Slot(p).hash # NoKey
Refused == \A p \in Procs : call[p].rc # "ok" => pc[p] = "close" /\ Op(p) = "append"

(* The pieces of a write are those of its operation. *)
Placed ==
  \A p \in Procs :
    /\ pc[p] \in {"scrub", "fill", "blank", "link"} => Op(p) = "set"
    /\ pc[p] \in {"room", "extend"} => Op(p) = "append"
    /\ pc[p] \in {"emb1", "emb2"} => Op(p) = "setemb"
    /\ pc[p] = "bump" => Op(p) = "bump"
    /\ pc[p] = "sweep" => Op(p) = "purge"

WriteInv == OnTaken /\ Refused /\ Placed
BusInv == IInv /\ BusTypeOK /\ HandsFree /\ FreeIsEmpty /\ WriteInv /\ Reported

=============================================================================
