--------------------------- MODULE SlotRegisters ---------------------------
(***************************************************************************)
(* SlotStore implements AtomicSlots, for every operation but unset and     *)
(* retrain, which go round the seqlock; a writer killed inside it is left  *)
(* out as well, and a set that finds another key in the slot it saw free   *)
(* (README says what each of them breaks).                                 *)
(*                                                                         *)
(* A write has its effect when its CAS makes the epoch odd, and a read     *)
(* when it finds the epoch unmoved.  While a slot is odd its register is   *)
(* what the writer will leave behind: no history or prophecy is needed,    *)
(* because every piece of a write can be redone on what it has left of the *)
(* slot.                                                                   *)
(***************************************************************************)
EXTENDS SlotStoreProps

(* An append finds room, or has found it. *)
Fits(p) == pc[p] = "room" => Slot(p).val_len + call[p].n <= MaxLen

(* The register that the writer p of a slot will leave. *)
Outcome(p) ==
  LET s == Slot(p)
      n == call[p].n
  IN  CASE Op(p) = "set" ->
             [key |-> call[p].key, len |-> n,
              val |-> Overwrite(Overwrite(s.val, Scrubbed(n), Zero), 1 .. n, Ver(p)),
              emb |-> IF call[p].sh = NoKey THEN NoEmbedding ELSE s.embedding]
        [] Op(p) = "append" ->
             [key |-> s.hash,
              len |-> IF pc[p] = "extend" THEN n
                      ELSE IF pc[p] = "room" /\ Fits(p) THEN s.val_len + n ELSE s.val_len,
              val |-> IF pc[p] = "room" /\ Fits(p)
                        THEN Overwrite(s.val, s.val_len + 1 .. s.val_len + n, Ver(p))
                        ELSE s.val,
              emb |-> s.embedding]
        [] Op(p) = "setemb" ->
             [key |-> s.hash, len |-> s.val_len, val |-> s.val,
              emb |-> [h \in 1 .. 2 |-> Ver(p)]]
        [] Op(p) = "purge" ->
             [key |-> s.hash, len |-> s.val_len, emb |-> s.embedding,
              val |-> Overwrite(s.val, IF s.hash = NoKey THEN 1 .. MaxLen
                                       ELSE s.val_len + 1 .. MaxLen, Zero)]
        [] OTHER ->
             [key |-> s.hash, len |-> s.val_len, val |-> s.val, emb |-> s.embedding]

(* What the slot s holds now. *)
Raw(s) == [key |-> S[s].hash, len |-> S[s].val_len, val |-> S[s].val, emb |-> S[s].embedding]

Registers ==
  [s \in SlotIds |-> IF \E p \in Procs : Holds(p, s)
                       THEN Outcome(CHOOSE p \in Procs : Holds(p, s))
                       ELSE Raw(s)]

(* How far the call of p is for its caller. *)
Stage(p) ==
  IF pc[p] = "idle" THEN "out"
  ELSE IF Op(p) = "purge" \/ Op(p) \notin LockOps THEN "called"
  ELSE IF call[p].rc = "toolong" \/ ~ Fits(p) THEN "full"
  ELSE IF pc[p] \in Critical \cup {"pulse", "epoch", "dirty", "bell"} THEN "done"
  ELSE "called"

Jobs ==
  [p \in Procs |->
     [op |-> Op(p), key |-> call[p].key, at |-> Stage(p),
      n |-> IF Stage(p) = "called" /\ Op(p) \in {"set", "append"} THEN call[p].n ELSE 0]]

(* The copy of a read that succeeded; the other calls return a code only.  *)
Answers ==
  [p \in Procs |->
     [rc |-> ret[p].rc,
      copy |-> IF ret[p].op \in {"get", "getemb"} /\ ret[p].rc = "ok"
                 THEN ret[p].buf ELSE << >>]]

Atomic == INSTANCE AtomicSlots WITH reg <- Registers, job <- Jobs, ans <- Answers

(* No other key comes into the slot that a set has found free, or its own, *)
(* before it holds it.                                                     *)
FreeSlotKept ==
  \A p \in Procs : Op(p) = "set" /\ pc[p] \in {"found", "cas"} =>
    Slot(p).hash \in {NoKey, call[p].key}

(* Nobody calls unset or retrain, and nobody is killed. *)
Plain == Mortal = {} /\ \A p \in Procs : \A c \in Calls[p] : c.op \notin Rewinds

(* No two processes set different keys: one process sets, or all set one   *)
(* key. *)
SetsAgree ==
  \A p, q \in Procs : p # q =>
    \A c \in Calls[p], d \in Calls[q] : c.op = "set" /\ d.op = "set" => c.key = d.key

(* FreeSlotKept cannot fail there, nor where no slot is free to begin with *)
(* and none is made free. *)
Uncontended == SetsAgree \/ \A s \in SlotIds : Layout[s] # NoKey

(* Linearizability: set, append, set_embedding, bump_slot and purge change *)
(* a slot as a whole and once, get and get_embedding return the whole of   *)
(* what it holds, two appends both land, a call that reports failure has   *)
(* changed nothing and one that reports success has done it.  The calls    *)
(* that mark or watch a slot run beside them and change none of this.      *)
Linearizable == Atomic!Spec

-----------------------------------------------------------------------------
(* What the steps preserve: with IInv, the inductive invariant behind      *)
(* Linearizable *)

(* No call is killed or goes round the seqlock, only an append that found  *)
(* no room is about to fail, and a writer does what it was called for.     *)
Regular(p) ==
  /\ pc[p] \notin {"dead", "killed"} /\ Op(p) \notin Rewinds
  /\ call[p].rc # "ok" => Op(p) = "append" /\ pc[p] = "close" /\ call[p].rc = "toolong"
  /\ InCall(p) /\ Op(p) = "set" => call[p].n \in 1 .. MaxLen
  /\ pc[p] \in {"scrub", "fill", "blank", "link"} => Op(p) = "set"
  /\ pc[p] \in {"room", "extend"} => Op(p) = "append"
  /\ pc[p] \in {"emb1", "emb2"} => Op(p) = "setemb"
  /\ pc[p] = "bump" => Op(p) = "bump"
  /\ pc[p] = "sweep" => Op(p) = "purge"

(* A call that has found its key stays on it, and a set that holds a slot  *)
(* has it for itself. *)
ByKey == {"append", "setemb", "bump", "get", "getemb"}

KeyMet(p) ==
  /\ Op(p) \in ByKey /\ pc[p] \notin {"idle", "probe"} => Slot(p).hash = call[p].key
  /\ pc[p] \in {"scrub", "fill", "blank", "link"} => Slot(p).hash \in {NoKey, call[p].key}

(* What a writer has already done of its outcome. *)
Pieces(p) ==
  /\ pc[p] = "fill" =>
       /\ Slot(p).val[1] = Ver(p)
       /\ \A c \in Scrubbed(call[p].n) \ {1} : Slot(p).val[c] = Zero
  /\ pc[p] \in {"blank", "link"} => Outcome(p).val = Slot(p).val /\ Slot(p).val_len = call[p].n
  /\ pc[p] = "link" => Outcome(p).emb = Slot(p).embedding
  /\ pc[p] = "emb2" => Slot(p).embedding[1] = Ver(p)
  /\ pc[p] = "close" => Outcome(p) = Raw(At(p))

LinInv == IInv /\ \A p \in Procs : Regular(p) /\ KeyMet(p) /\ Pieces(p)

(* What keeps FreeSlotKept: a set is one of the calls its process makes,   *)
(* and no slot gets free. *)
SetCalled(p) ==
  InCall(p) /\ Op(p) = "set" => \E c \in Calls[p] : c.op = "set" /\ c.key = call[p].key

SetsMeet ==
  /\ FreeSlotKept
  /\ \A p \in Procs : SetCalled(p)
  /\ (\A s \in SlotIds : Layout[s] # NoKey) => \A s \in SlotIds : S[s].hash # NoKey

-----------------------------------------------------------------------------
(* What the steps preserve: with IInv, the inductive invariant behind      *)
(* ReadKeyed *)

(* The first n cells of v were written for the key k, if at all.           *)
WrittenFor(v, n, k) == \A c \in 1 .. n : v[c] # Zero => v[c][1] = k

SlotKeyed(s) == S[s].hash # NoKey => WrittenFor(S[s].val, S[s].val_len, S[s].hash)

(* A call that has found its key stays on it, and what a writer is about   *)
(* to give to a key was written for that key.                              *)
Finds(p) ==
  /\ InCall(p) /\ pc[p] # "probe" /\ Op(p) \in {"get", "append"} => Slot(p).hash = call[p].key
  /\ pc[p] \in {"room", "extend"} => Slot(p).hash = call[p].key
  /\ pc[p] \in {"scrub", "fill", "blank", "link"} =>
       Op(p) = "set" /\ Slot(p).hash \in {NoKey, call[p].key}

Prepares(p) ==
  /\ pc[p] = "fill" => WrittenFor(Slot(p).val, 1, call[p].key)
  /\ pc[p] \in {"blank", "link"} => WrittenFor(Slot(p).val, Slot(p).val_len, call[p].key)
  /\ pc[p] = "extend" => WrittenFor(Slot(p).val, call[p].n, call[p].key)

KeyInv == /\ IInv /\ ReadKeyed
          /\ \A s \in SlotIds : SlotKeyed(s)
          /\ \A p \in Procs : Finds(p) /\ Prepares(p)

=============================================================================
