------------------------------ MODULE SlotStore ------------------------------
(***************************************************************************)
(* The slot table of splinter.c: an open-addressed table of slots in       *)
(* shared memory.  Every slot carries a seqlock word, its epoch: even when *)
(* the slot is stable, odd while a writer holds it.  The processes that    *)
(* map the store call the library concurrently; there is no server.        *)
(*                                                                         *)
(* A step is one atomic access to shared memory, or one piece of a plain   *)
(* copy that the seqlock is there to protect.  The hash load and the       *)
(* strncmp of a probe are one step (see README), and memory is             *)
(* sequentially consistent.                                                *)
(*                                                                         *)
(* A value is MaxLen cells and an embedding two halves, so that a copy can *)
(* be caught in the middle.  What a call writes is identified by its       *)
(* version <<key, caller, calls the caller had left>>.                     *)
(*                                                                         *)
(* A definition called Broken... is the one that follows it with a bug; it *)
(* is no part of the specification.                                        *)
(***************************************************************************)
EXTENDS Naturals, Sequences, FiniteSets

CONSTANTS
  Procs,        \* processes (or threads) that have the store mapped
  Keys, NoKey,  \* keys; their hashes do not collide in 64 bits
  Slots,        \* H->slots
  Home,         \* Home[k]: hash(k) % slots, where the probe of k starts
  MaxLen,       \* H->max_val_sz, in cells
  Mop,          \* scrub mode: "off", "hybrid" or "boil"
  SpuriousCAS,  \* TRUE where compare_exchange_weak may fail for no reason
  Layout,       \* Layout[s]: the key in slot s at the start, or NoKey
  Calls,        \* Calls[p]: the records [op, key] that p may call with
  Lens,         \* lengths (in cells) that set and append are called with
  Budget,       \* Budget[p]: how many calls p makes
  Quiet,        \* operations only called while no other call is running
  Mortal,       \* processes that may be killed in the middle of a call
  Groups, Labels, NoGroup,
  BloomWatch,   \* H->bloom_watches: the group a label routes to, or NoGroup
  WatchGroup,   \* WatchGroup[p]: the group p registers for
  WatchLabel,   \* WatchLabel[p]: the label p sets and clears
  Watches, Tags, \* the groups and labels that the keys of Layout start with
  Armed,        \* processes whose g_event_fd is open (the owner of the bus)
  Stripe        \* g_dirty_stripe: slots per bit of the dirty mask

SlotIds == 0 .. Slots - 1
Boot    == "boot"                  \* the writer of the values in Layout
Zero    == << >>                   \* a scrubbed cell
Version == Keys \X (Procs \cup {Boot}) \X Nat
Cell    == Version \cup {Zero}

LockOps  == {"set", "append", "setemb", "bump", "purge"}  \* CAS the epoch to odd
ReadOps  == {"get", "getemb", "snapshot", "poll"}
LabelOps == {"label", "unlabel", "watch", "unwatch", "pulsekey"}
Rewinds  == {"unset", "retrain"}   \* store the epoch outright, without a CAS
OpNames  == LockOps \cup ReadOps \cup LabelOps \cup Rewinds

(* Where a process is while it has made the epoch of its slot odd. *)
Critical == {"scrub", "fill", "blank", "link", "room", "extend", "emb1", "emb2",
             "bump", "sweep", "close", "zeroemb", "even4"}

Results == {"none", "ok", "busy", "nospace", "toolong", "miss", "timeout"}

PCs == Critical \cup
       {"idle", "probe", "found", "cas", "len", "copy", "wait", "forget",
        "wipe", "rewind", "reset", "reopen", "pulse", "epoch", "dirty", "bell",
        "dead", "killed"}

Outside == {"idle", "dead", "killed"}   \* not inside a call

ASSUME KeysAssumption   == NoKey \notin Keys
ASSUME SlotsAssumption  == Slots \in Nat \ {0} /\ MaxLen \in Nat \ {0}
ASSUME HomeAssumption   == Home \in [Keys -> SlotIds]
ASSUME LayoutAssumption == Layout \in [SlotIds -> Keys \cup {NoKey}]
ASSUME CallsAssumption  ==
  /\ Calls \in [Procs -> SUBSET [op : OpNames, key : Keys]]
  /\ Lens \subseteq 1 .. MaxLen
  /\ Budget \in [Procs -> Nat]
ASSUME SignalAssumption ==
  /\ IsFiniteSet(Labels)
  /\ NoGroup \notin Groups
  /\ BloomWatch \in [Labels -> Groups \cup {NoGroup}]
  /\ WatchGroup \in [Procs -> Groups \cup {NoGroup}]
  /\ WatchLabel \in [Procs -> SUBSET Labels]
  /\ Watches \subseteq Groups /\ Tags \subseteq Labels
  /\ Stripe \in Nat \ {0}

VARIABLES
  S,     \* the slots: hash (NoKey stands for 0), key, epoch, val_len, val (its
         \* region of the arena), embedding, watcher_mask, bloom
  H,     \* the header: epoch, the counters of the signal groups, the bits set
         \* in dirty_mask, and bell: the eventfd's counter is not zero
  pc,    \* where each process is in its call
  call,  \* the arguments and locals of its call
  ret,   \* what its last finished call returned
  left   \* how many calls it may still make

vars == << S, H, pc, call, ret, left >>

(* The locals of a call: the key and probe index i, the slot reached and   *)
(* the hash sh seen there, whether a slot was contended, the epoch e read  *)
(* on the way in and the end of a snapshot's last pass, the length n and   *)
(* the copy buf, the masks wm and bl a pulse routes by, whether a poll's   *)
(* deadline has passed, and the return code.                               *)
Idle == [op |-> "get", key |-> NoKey, i |-> 0, slot |-> 0, sh |-> NoKey,
         busy |-> FALSE, e |-> 0, end |-> 0, n |-> 0, buf |-> << >>,
         wm |-> {}, bl |-> {}, late |-> FALSE, rc |-> "ok"]

(* ret[p] while p is inside a call. *)
Nothing == [op |-> "get", key |-> NoKey, rc |-> "none", n |-> 0, buf |-> << >>]

Op(p)   == call[p].op
At(p)   == call[p].slot
Slot(p) == S[At(p)]
Odd(n)  == n % 2 = 1

(* The version a writing call stores. *)
Ver(p) == << call[p].key, p, left[p] >>

NoEmbedding == [h \in 1 .. 2 |-> Zero]

-----------------------------------------------------------------------------
(* Control flow *)

Goto(p, l) == pc' = [pc EXCEPT ![p] = l]

Then(p, l)    == Goto(p, l) /\ UNCHANGED << call, ret, left >>
With(p, l, c) == Goto(p, l) /\ call' = [call EXCEPT ![p] = c] /\ UNCHANGED << ret, left >>

Return(p, rc) ==
  /\ Goto(p, "idle")
  /\ call' = [call EXCEPT ![p] = Idle]
  /\ ret' = [ret EXCEPT ![p] =
               [op |-> Op(p), key |-> call[p].key, rc |-> rc,
                n |-> call[p].n, buf |-> call[p].buf]]
  /\ UNCHANGED left

(* A process calls the library.  A Quiet operation is only called, and     *)
(* only runs, while every other process is outside the library.            *)
Begin(p, c, m) ==
  /\ pc[p] = "idle" /\ left[p] > 0
  /\ \A q \in Procs \ {p} :
       pc[q] \in Outside \/ {c.op, Op(q)} \cap Quiet = {}
  /\ left' = [left EXCEPT ![p] = @ - 1]
  /\ call' = [call EXCEPT ![p] = [Idle EXCEPT
                 !.op = c.op, !.key = c.key,
                 !.n = IF c.op \in {"set", "append"} THEN m ELSE 0]]
  /\ ret' = [ret EXCEPT ![p] = Nothing]
  /\ Goto(p, "probe")
  /\ UNCHANGED << S, H >>

(* Broken: the probe starts one slot late. *)
BrokenPhys(p) == IF Op(p) = "purge" THEN call[p].i
                 ELSE (Home[call[p].key] + call[p].i + 1) % Slots

(* The slot the probe looks at next: purge sweeps from 0, the rest start   *)
(* at the key's home.                                                      *)
Phys(p) == IF Op(p) = "purge" THEN call[p].i
                              ELSE (Home[call[p].key] + call[p].i) % Slots

(* Broken: the hash and the key are not compared. *)
BrokenMatchAny(p, s) == S[s].hash # NoKey

Match(p, s) == S[s].hash = call[p].key /\ S[s].key = call[p].key

(* set also takes the first empty slot; purge takes every slot. *)
Candidate(p, s) == \/ Match(p, s)
                   \/ Op(p) = "set" /\ S[s].hash = NoKey
                   \/ Op(p) = "purge"

ProbeHit(p) ==
  /\ pc[p] = "probe" /\ call[p].i < Slots
  /\ Candidate(p, Phys(p))
  /\ With(p, "found", [call[p] EXCEPT !.slot = Phys(p), !.sh = S[Phys(p)].hash])
  /\ UNCHANGED << S, H >>

ProbeNext(p) ==
  /\ pc[p] = "probe" /\ call[p].i < Slots
  /\ ~ Candidate(p, Phys(p))
  /\ With(p, "probe", [call[p] EXCEPT !.i = @ + 1])
  /\ UNCHANGED << S, H >>

ProbeEnd(p) ==
  /\ pc[p] = "probe" /\ call[p].i = Slots
  /\ Return(p, CASE Op(p) = "purge" -> "ok"
                 [] Op(p) = "set"   -> IF call[p].busy THEN "busy" ELSE "nospace"
                 [] OTHER           -> "miss")
  /\ UNCHANGED << S, H >>

(* set and purge go on to the next slot when one is contended. *)
GiveUpSlot(p) ==
  IF Op(p) \in {"set", "purge"}
    THEN With(p, "probe", [call[p] EXCEPT !.busy = TRUE, !.i = @ + 1])
    ELSE Return(p, "busy")

-----------------------------------------------------------------------------
(* Entering a slot: load the epoch, and CAS it to odd in a writer *)

ChecksEpoch(p) == Op(p) \in LockOps \cup {"get", "getemb", "poll", "unset"}

LoadOdd(p) ==
  /\ pc[p] = "found" /\ ChecksEpoch(p)
  /\ Odd(Slot(p).epoch)
  /\ GiveUpSlot(p)
  /\ UNCHANGED << S, H >>

AfterLoad(p) == CASE Op(p) = "get"    -> "len"
                  [] Op(p) = "getemb" -> "copy"
                  [] Op(p) = "poll"   -> "wait"
                  [] Op(p) = "unset"  -> "forget"
                  [] OTHER            -> "cas"

(* Broken: an odd epoch is taken for a stable one. *)
BrokenLoadEven(p) ==
  /\ pc[p] = "found" /\ ChecksEpoch(p)
  /\ With(p, AfterLoad(p), [call[p] EXCEPT !.e = Slot(p).epoch])
  /\ UNCHANGED << S, H >>

LoadEven(p) ==
  /\ pc[p] = "found" /\ ChecksEpoch(p)
  /\ ~ Odd(Slot(p).epoch)
  /\ With(p, AfterLoad(p), [call[p] EXCEPT !.e = Slot(p).epoch])
  /\ UNCHANGED << S, H >>

AfterCas(p) == CASE Op(p) = "set"    -> "scrub"
                 [] Op(p) = "append" -> "room"
                 [] Op(p) = "setemb" -> "emb1"
                 [] Op(p) = "bump"   -> "bump"
                 [] OTHER            -> "sweep"

(* Broken: a store in place of the compare-and-swap. *)
BrokenCasWin(p) ==
  /\ pc[p] = "cas"
  /\ S' = [S EXCEPT ![At(p)].epoch = call[p].e + 1]
  /\ Then(p, AfterCas(p))
  /\ UNCHANGED H

CasWin(p) ==
  /\ pc[p] = "cas" /\ Slot(p).epoch = call[p].e
  /\ S' = [S EXCEPT ![At(p)].epoch = @ + 1]
  /\ Then(p, AfterCas(p))
  /\ UNCHANGED H

CasLose(p) ==
  /\ pc[p] = "cas"
  /\ Slot(p).epoch # call[p].e \/ (SpuriousCAS /\ Op(p) \in {"set", "append"})
  /\ GiveUpSlot(p)
  /\ UNCHANGED << S, H >>

-----------------------------------------------------------------------------
(* Inside the lock *)

(* The region v with the cells in C overwritten by x. *)
Overwrite(v, C, x) == [c \in 1 .. MaxLen |-> IF c \in C THEN x ELSE v[c]]

(* The cells set scrubs before it copies n of them. *)
Scrubbed(n) == CASE Mop = "off"    -> {}
                 [] Mop = "hybrid" -> 1 .. n
                 [] OTHER          -> 1 .. MaxLen

(* set: the scrub the mop asks for and the first cell of the copy, *)
SetScrub(p) ==
  /\ pc[p] = "scrub"
  /\ S' = [S EXCEPT ![At(p)].val =
            Overwrite(Overwrite(@, Scrubbed(call[p].n), Zero), {1}, Ver(p))]
  /\ Then(p, "fill")
  /\ UNCHANGED H

(* the rest of the copy, and val_len, *)
SetFill(p) ==
  /\ pc[p] = "fill"
  /\ S' = [S EXCEPT ![At(p)].val = Overwrite(@, 2 .. call[p].n, Ver(p)),
                    ![At(p)].val_len = call[p].n]
  /\ Then(p, "blank")
  /\ UNCHANGED H

(* the embedding, dropped if the probe saw the slot empty, and the key     *)
(* wiped: until it is back no lookup finds a key that is overwritten,      *)
SetBlank(p) ==
  /\ pc[p] = "blank"
  /\ S' = [S EXCEPT ![At(p)].embedding = IF call[p].sh = NoKey THEN NoEmbedding ELSE @,
                    ![At(p)].key = NoKey]
  /\ Then(p, "link")
  /\ UNCHANGED H

(* Broken: the hash is published and the key is not. *)
BrokenSetLink(p) ==
  /\ pc[p] = "link"
  /\ S' = [S EXCEPT ![At(p)].hash = call[p].key]
  /\ Then(p, "close")
  /\ UNCHANGED H

(* the key, and the hash that publishes it.                                *)
SetLink(p) ==
  /\ pc[p] = "link"
  /\ S' = [S EXCEPT ![At(p)].key = call[p].key, ![At(p)].hash = call[p].key]
  /\ Then(p, "close")
  /\ UNCHANGED H

(* Broken: one cell too many is let through. *)
BrokenAppendRoom(p) ==
  LET len == Slot(p).val_len IN
  /\ pc[p] = "room"
  /\ len + call[p].n <= MaxLen + 1
  /\ S' = [S EXCEPT ![At(p)].val = Overwrite(@, len + 1 .. len + call[p].n, Ver(p))]
  /\ With(p, "extend", [call[p] EXCEPT !.n = len + @])
  /\ UNCHANGED H

AppendRoom(p) ==
  LET len == Slot(p).val_len IN
  /\ pc[p] = "room"
  /\ len + call[p].n <= MaxLen
  /\ S' = [S EXCEPT ![At(p)].val = Overwrite(@, len + 1 .. len + call[p].n, Ver(p))]
  /\ With(p, "extend", [call[p] EXCEPT !.n = len + @])
  /\ UNCHANGED H

(* Broken: the early return leaves the seqlock odd. *)
BrokenAppendTooLong(p) ==
  /\ pc[p] = "room"
  /\ Slot(p).val_len + call[p].n > MaxLen
  /\ Return(p, "toolong")
  /\ UNCHANGED << S, H >>

AppendTooLong(p) ==
  /\ pc[p] = "room"
  /\ Slot(p).val_len + call[p].n > MaxLen
  /\ With(p, "close", [call[p] EXCEPT !.rc = "toolong"])
  /\ UNCHANGED << S, H >>

(* Broken: the length of the chunk is taken for the length of the value. *)
BrokenAppendExtend(p) ==
  /\ pc[p] = "extend"
  /\ S' = [S EXCEPT ![At(p)].val_len = call[p].n - @]
  /\ Then(p, "close")
  /\ UNCHANGED H

AppendExtend(p) ==
  /\ pc[p] = "extend"
  /\ S' = [S EXCEPT ![At(p)].val_len = call[p].n]
  /\ Then(p, "close")
  /\ UNCHANGED H

SetEmbFirst(p) ==
  /\ pc[p] = "emb1"
  /\ S' = [S EXCEPT ![At(p)].embedding[1] = Ver(p)]
  /\ Then(p, "emb2")
  /\ UNCHANGED H

SetEmbSecond(p) ==
  /\ pc[p] = "emb2"
  /\ S' = [S EXCEPT ![At(p)].embedding[2] = Ver(p)]
  /\ Then(p, "close")
  /\ UNCHANGED H

(* purge: zero an empty slot's region, or the tail past val_len. *)
PurgeSweep(p) ==
  /\ pc[p] = "sweep"
  /\ S' = [S EXCEPT ![At(p)].val =
            Overwrite(@, IF Slot(p).hash = NoKey THEN 1 .. MaxLen
                         ELSE Slot(p).val_len + 1 .. MaxLen, Zero)]
  /\ Then(p, "close")
  /\ UNCHANGED H

(* A pulse routed by the masks w and b: one for a group registered on the  *)
(* slot, and one for every label that routes to it.                        *)
PulseMasks(w, b) ==
  H' = [H EXCEPT !.signal = [g \in Groups |->
         @[g] + (IF g \in w THEN 1 ELSE 0) + Cardinality({l \in b : BloomWatch[l] = g})]]

(* bump_slot pulses while it still holds the seqlock. *)
BumpPulse(p) ==
  /\ pc[p] = "bump"
  /\ PulseMasks(Slot(p).watcher_mask, Slot(p).bloom)
  /\ Then(p, "close")
  /\ UNCHANGED S

(* Broken: the epoch stays odd after a write. *)
BrokenCloseSlot(p) ==
  /\ pc[p] = "close"
  /\ CASE Op(p) = "purge" -> With(p, "probe", [call[p] EXCEPT !.i = @ + 1])
       [] Op(p) = "bump" \/ (Op(p) = "append" /\ call[p].rc # "ok") -> Return(p, call[p].rc)
       [] OTHER -> Then(p, "pulse")
  /\ UNCHANGED << S, H >>

(* The seqlock opens.  purge goes on with the next slot; bump_slot and a   *)
(* failed append are done; the others publish the change.                  *)
CloseSlot(p) ==
  /\ pc[p] = "close"
  /\ S' = [S EXCEPT ![At(p)].epoch = @ + 1]
  /\ CASE Op(p) = "purge" -> With(p, "probe", [call[p] EXCEPT !.i = @ + 1])
       [] Op(p) = "bump" \/ (Op(p) = "append" /\ call[p].rc # "ok") -> Return(p, call[p].rc)
       [] OTHER -> Then(p, "pulse")
  /\ UNCHANGED H

-----------------------------------------------------------------------------
(* Publishing a change: pulse the groups, advance H->epoch, notify the bus *)

(* unset routes by both masks it captured, set_label and unset_label by    *)
(* the captured bloom; the rest route by what the slot carries now.        *)
Pulse(p) ==
  /\ pc[p] = "pulse"
  /\ PulseMasks(IF Op(p) = "unset" THEN call[p].wm ELSE Slot(p).watcher_mask,
                IF Op(p) \in {"unset", "label", "unlabel"} THEN call[p].bl
                                                           ELSE Slot(p).bloom)
  /\ CASE Op(p) = "pulsekey" -> Return(p, "ok")
       [] Op(p) \in {"label", "unlabel", "retrain"} -> Then(p, "dirty")
       [] OTHER -> Then(p, "epoch")
  /\ UNCHANGED S

GlobalEpoch(p) ==
  /\ pc[p] = "epoch"
  /\ H' = [H EXCEPT !.epoch = @ + 1]
  /\ Then(p, "dirty")
  /\ UNCHANGED S

(* event_bus_notify() does nothing in a process that did not arm the bus. *)
NotifySkip(p) ==
  /\ pc[p] = "dirty" /\ p \notin Armed
  /\ Return(p, "ok")
  /\ UNCHANGED << S, H >>

(* Broken: a bit for every slot, on a mask that has one for every stripe. *)
BrokenNotifyDirty(p) ==
  /\ pc[p] = "dirty" /\ p \in Armed
  /\ H' = [H EXCEPT !.dirty = @ \cup {At(p)}]
  /\ Then(p, "bell")
  /\ UNCHANGED S

NotifyDirty(p) ==
  /\ pc[p] = "dirty" /\ p \in Armed
  /\ H' = [H EXCEPT !.dirty = @ \cup {At(p) \div Stripe}]
  /\ Then(p, "bell")
  /\ UNCHANGED S

NotifyBell(p) ==
  /\ pc[p] = "bell"
  /\ H' = [H EXCEPT !.bell = TRUE]
  /\ Return(p, "ok")
  /\ UNCHANGED S

-----------------------------------------------------------------------------
(* Readers *)

(* A get copies the value, the other readers the embedding. *)
Source(p) == IF Op(p) = "get" THEN Slot(p).val ELSE Slot(p).embedding
Wanted(p) == IF Op(p) = "get" THEN call[p].n ELSE 2

(* get and get_slot_snapshot read val_len after the epoch. *)
ReadLen(p) ==
  /\ pc[p] = "len"
  /\ With(p, "copy", [call[p] EXCEPT !.n = Slot(p).val_len])
  /\ UNCHANGED << S, H >>

ReadCopy(p) ==
  /\ pc[p] = "copy" /\ Len(call[p].buf) < Wanted(p)
  /\ With(p, "copy", [call[p] EXCEPT !.buf = Append(@, Source(p)[Len(@) + 1])])
  /\ UNCHANGED << S, H >>

(* get, get_embedding: the copy counts if the epoch is the one read first. *)
ReadVerify(p) ==
  /\ pc[p] = "copy" /\ Op(p) \in {"get", "getemb"}
  /\ Len(call[p].buf) = Wanted(p)
  /\ Return(p, IF Slot(p).epoch = call[p].e THEN "ok" ELSE "busy")
  /\ UNCHANGED << S, H >>

SnapStart(p) ==
  /\ pc[p] = "found" /\ Op(p) = "snapshot"
  /\ ~ Odd(Slot(p).epoch)
  /\ With(p, "len", [call[p] EXCEPT !.e = Slot(p).epoch, !.buf = << >>])
  /\ UNCHANGED << S, H >>

(* `continue' on an odd epoch goes to the loop's condition, which compares *)
(* that epoch with the end of the pass before.                             *)
SnapOdd(p) ==
  /\ pc[p] = "found" /\ Op(p) = "snapshot"
  /\ Odd(Slot(p).epoch) /\ Slot(p).epoch = call[p].end
  /\ Return(p, "ok")
  /\ UNCHANGED << S, H >>

SnapEnd(p) ==
  /\ pc[p] = "copy" /\ Op(p) = "snapshot"
  /\ Len(call[p].buf) = Wanted(p)
  /\ IF Slot(p).epoch = call[p].e
       THEN Return(p, "ok")
       ELSE With(p, "found", [call[p] EXCEPT !.end = Slot(p).epoch])
  /\ UNCHANGED << S, H >>

(* poll: the deadline passes at any time; it is only looked at when the    *)
(* epoch is even and has not moved.                                        *)
PollClock(p) ==
  /\ pc[p] = "wait" /\ ~ call[p].late
  /\ With(p, "wait", [call[p] EXCEPT !.late = TRUE])
  /\ UNCHANGED << S, H >>

PollMoved(p) ==
  /\ pc[p] = "wait"
  /\ ~ Odd(Slot(p).epoch) /\ Slot(p).epoch # call[p].e
  /\ Return(p, "ok")
  /\ UNCHANGED << S, H >>

(* Broken: the deadline is looked at only while a writer is busy. *)
BrokenPollTimeout(p) ==
  /\ pc[p] = "wait"
  /\ Odd(Slot(p).epoch) /\ call[p].late
  /\ Return(p, "timeout")
  /\ UNCHANGED << S, H >>

PollTimeout(p) ==
  /\ pc[p] = "wait"
  /\ Slot(p).epoch = call[p].e /\ call[p].late
  /\ Return(p, "timeout")
  /\ UNCHANGED << S, H >>

-----------------------------------------------------------------------------
(* unset and retrain: the epoch is stored outright, nothing is held *)

UnsetForget(p) ==
  /\ pc[p] = "forget"
  /\ S' = [S EXCEPT ![At(p)].hash = NoKey]
  /\ With(p, "wipe", [call[p] EXCEPT !.n = Slot(p).val_len,
                        !.wm = Slot(p).watcher_mask, !.bl = Slot(p).bloom])
  /\ UNCHANGED H

UnsetWipe(p) ==
  /\ pc[p] = "wipe"
  /\ S' = [S EXCEPT ![At(p)].key = NoKey, ![At(p)].val =
            IF Mop = "off" THEN @ ELSE Overwrite(@, 1 .. MaxLen, Zero)]
  /\ Then(p, "rewind")
  /\ UNCHANGED H

UnsetRewind(p) ==
  /\ pc[p] = "rewind"
  /\ S' = [S EXCEPT ![At(p)].epoch = 0]
  /\ Then(p, "reset")
  /\ UNCHANGED H

UnsetReset(p) ==
  /\ pc[p] = "reset"
  /\ S' = [S EXCEPT ![At(p)].val_len = 0, ![At(p)].embedding = NoEmbedding,
                    ![At(p)].watcher_mask = {}, ![At(p)].bloom = {}]
  /\ Then(p, "reopen")
  /\ UNCHANGED H

(* Broken: the change is not published. *)
BrokenUnsetReopen(p) ==
  /\ pc[p] = "reopen"
  /\ S' = [S EXCEPT ![At(p)].epoch = @ + 2]
  /\ Return(p, "ok")
  /\ UNCHANGED H

UnsetReopen(p) ==
  /\ pc[p] = "reopen"
  /\ S' = [S EXCEPT ![At(p)].epoch = @ + 2]
  /\ Then(p, "pulse")
  /\ UNCHANGED H

(* Broken: the embedding is zeroed under an even epoch. *)
BrokenRetrainOdd(p) ==
  /\ pc[p] = "found" /\ Op(p) = "retrain"
  /\ S' = [S EXCEPT ![At(p)].epoch = 2]
  /\ Then(p, "zeroemb")
  /\ UNCHANGED H

RetrainOdd(p) ==
  /\ pc[p] = "found" /\ Op(p) = "retrain"
  /\ S' = [S EXCEPT ![At(p)].epoch = 3]
  /\ Then(p, "zeroemb")
  /\ UNCHANGED H

RetrainZero(p) ==
  /\ pc[p] = "zeroemb"
  /\ S' = [S EXCEPT ![At(p)].embedding = NoEmbedding]
  /\ Then(p, "even4")
  /\ UNCHANGED H

RetrainEven(p) ==
  /\ pc[p] = "even4"
  /\ S' = [S EXCEPT ![At(p)].epoch = 4]
  /\ H' = [H EXCEPT !.epoch = @ + 1]
  /\ Then(p, "pulse")

-----------------------------------------------------------------------------
(* Labels and watchers: atomic on their own word, outside the seqlock *)

(* Routes by the bloom after the label is set, *)
SetLabel(p) ==
  /\ pc[p] = "found" /\ Op(p) = "label"
  /\ S' = [S EXCEPT ![At(p)].bloom = @ \cup WatchLabel[p]]
  /\ H' = [H EXCEPT !.epoch = @ + 1]
  /\ With(p, "pulse", [call[p] EXCEPT !.bl = Slot(p).bloom \cup WatchLabel[p]])

(* and by the bloom before it is cleared. *)
UnsetLabel(p) ==
  /\ pc[p] = "found" /\ Op(p) = "unlabel"
  /\ S' = [S EXCEPT ![At(p)].bloom = @ \ WatchLabel[p]]
  /\ H' = [H EXCEPT !.epoch = @ + 1]
  /\ With(p, "pulse", [call[p] EXCEPT !.bl = Slot(p).bloom])

PulseKeygroup(p) ==
  /\ pc[p] = "found" /\ Op(p) = "pulsekey"
  /\ Then(p, "pulse")
  /\ UNCHANGED << S, H >>

WatchRegister(p) ==
  /\ pc[p] = "found" /\ Op(p) = "watch"
  /\ S' = [S EXCEPT ![At(p)].watcher_mask = @ \cup {WatchGroup[p]}]
  /\ Return(p, "ok")
  /\ UNCHANGED H

WatchUnregister(p) ==
  /\ pc[p] = "found" /\ Op(p) = "unwatch"
  /\ S' = [S EXCEPT ![At(p)].watcher_mask = @ \ {WatchGroup[p]}]
  /\ Return(p, "ok")
  /\ UNCHANGED H

-----------------------------------------------------------------------------
(* A process is killed inside a call; a seqlock it holds stays odd. *)
Kill(p) ==
  /\ p \in Mortal /\ pc[p] \notin Outside
  /\ Then(p, IF pc[p] \in Critical THEN "killed" ELSE "dead")
  /\ UNCHANGED << S, H >>

Probe(p)   == ProbeHit(p) \/ ProbeNext(p) \/ ProbeEnd(p)
Enter(p)   == LoadOdd(p) \/ LoadEven(p) \/ CasWin(p) \/ CasLose(p)
Write(p)   == SetScrub(p) \/ SetFill(p) \/ SetBlank(p) \/ SetLink(p)
              \/ AppendRoom(p) \/ AppendTooLong(p) \/ AppendExtend(p) \/ SetEmbFirst(p)
              \/ SetEmbSecond(p) \/ PurgeSweep(p) \/ BumpPulse(p) \/ CloseSlot(p)
Publish(p) == Pulse(p) \/ GlobalEpoch(p) \/ NotifySkip(p) \/ NotifyDirty(p)
              \/ NotifyBell(p)
Read(p)    == ReadLen(p) \/ ReadCopy(p) \/ ReadVerify(p) \/ SnapOdd(p)
              \/ SnapStart(p) \/ SnapEnd(p)
Poll(p)    == PollClock(p) \/ PollMoved(p) \/ PollTimeout(p)
Unset(p)   == UnsetForget(p) \/ UnsetWipe(p) \/ UnsetRewind(p)
              \/ UnsetReset(p) \/ UnsetReopen(p)
Retrain(p) == RetrainOdd(p) \/ RetrainZero(p) \/ RetrainEven(p)
Mark(p)    == SetLabel(p) \/ UnsetLabel(p) \/ PulseKeygroup(p)
              \/ WatchRegister(p) \/ WatchUnregister(p)

(* One step of the call p is in. *)
Step(p) == Probe(p) \/ Enter(p) \/ Write(p) \/ Publish(p) \/ Read(p)
           \/ Poll(p) \/ Unset(p) \/ Retrain(p) \/ Mark(p)

(* The store after the keys of Layout have been set, one after the other,  *)
(* and marked: each such slot went from epoch 0 to 2 and holds a           *)
(* full-length value.                                                      *)
Empty == [hash |-> NoKey, key |-> NoKey, epoch |-> 0, val_len |-> 0,
          val |-> [c \in 1 .. MaxLen |-> Zero], embedding |-> NoEmbedding,
          watcher_mask |-> {}, bloom |-> {}]

Stored(k) == [Empty EXCEPT !.hash = k, !.key = k, !.epoch = 2, !.val_len = MaxLen,
                           !.val = [c \in 1 .. MaxLen |-> << k, Boot, 0 >>],
                           !.watcher_mask = Watches, !.bloom = Tags]

Init ==
  /\ S = [s \in SlotIds |-> IF Layout[s] = NoKey THEN Empty ELSE Stored(Layout[s])]
  /\ H = [epoch |-> 1 + Cardinality({s \in SlotIds : Layout[s] # NoKey}),
          signal |-> [g \in Groups |-> 0], dirty |-> {}, bell |-> FALSE]
  /\ pc = [p \in Procs |-> "idle"]
  /\ call = [p \in Procs |-> Idle]
  /\ ret = [p \in Procs |-> Nothing]
  /\ left = Budget

Next == \E p \in Procs :
          \/ \E c \in Calls[p], m \in Lens : Begin(p, c, m)
          \/ Step(p)
          \/ Kill(p)

Spec == Init /\ [][Next]_vars

(* A process inside the library is scheduled; nothing makes it call, and   *)
(* nothing keeps it alive.                                                 *)
FairSpec == Spec /\ \A p \in Procs : WF_vars(Step(p))

=============================================================================
