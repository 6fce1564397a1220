--------------------------- MODULE SlotStoreProofs ---------------------------
(***************************************************************************)
(* Proofs about the slot table, for every number of processes, keys and    *)
(* slots.                                                                  *)
(***************************************************************************)
EXTENDS SlotRegisters, FiniteSetTheorems, SequenceTheorems, TLAPS

(* The variables that a process owns have their types. *)
LocalsOK ==
  /\ pc \in [Procs -> PCs]
  /\ call \in [Procs -> CallType]
  /\ ret \in [Procs -> RetType]
  /\ left \in [Procs -> Nat]

SharedOK == S \in [SlotIds -> SlotType] /\ H \in HeaderType

(* Types and the shape of calls are proved together: the key of a call has *)
(* to be a key, and the shape of a call speaks of its typed locals.        *)
Typed == TypeOK /\ CallShape

LEMMA TypeParts == TypeOK <=> LocalsOK /\ SharedOK
BY DEF TypeOK, LocalsOK, SharedOK

LEMMA IdleType == Idle \in CallType /\ Nothing \in RetType
BY SlotsAssumption
   DEF Idle, Nothing, CallType, RetType, OpNames, ReadOps, Results, Length, SlotIds

(* A return frees the call's record, *)
LEMMA ReturnStep ==
  ASSUME LocalsOK, CallShape, NEW p \in Procs, NEW rc \in Results, Return(p, rc)
  PROVE  LocalsOK' /\ CallShape'
<1>1. "idle" \in PCs
  BY DEF PCs
<1>2. call[p] \in CallType
  BY DEF LocalsOK
<1>3. [op |-> Op(p), key |-> call[p].key, rc |-> rc, n |-> call[p].n,
       buf |-> call[p].buf] \in RetType
  BY <1>2 DEF RetType, CallType, Op
<1>4. LocalsOK'
  BY <1>1, <1>3, IdleType DEF LocalsOK, Return, Goto
<1>5. Shape("idle", Idle)
  BY DEF Shape, Outside, Critical
<1>6. CallShape'
  BY <1>5 DEF CallShape, LocalsOK, Return, Goto
<1>7. QED
  BY <1>4, <1>6

(* any other step of a call goes on to another place with new locals, *)
LEMMA WithStep ==
  ASSUME LocalsOK, CallShape, NEW p \in Procs, NEW l \in PCs, NEW c \in CallType,
         Shape(l, c), With(p, l, c)
  PROVE  LocalsOK' /\ CallShape'
<1>1. LocalsOK'
  BY DEF LocalsOK, With, Goto
<1>2. CallShape'
  BY DEF CallShape, LocalsOK, With, Goto
<1>3. QED
  BY <1>1, <1>2

(* or with the same. *)
LEMMA ThenStep ==
  ASSUME LocalsOK, CallShape, NEW p \in Procs, NEW l \in PCs,
         Shape(l, call[p]), Then(p, l)
  PROVE  LocalsOK' /\ CallShape'
<1>1. LocalsOK'
  BY DEF LocalsOK, Then, Goto
<1>2. CallShape'
  BY DEF CallShape, LocalsOK, Then, Goto
<1>3. QED
  BY <1>1, <1>2

(* A step that leaves the shared memory alone, or stores a well-typed slot *)
(* or header, is well typed if the process's own part is.                  *)
LEMMA SameShared ==
  ASSUME Typed, LocalsOK', CallShape', UNCHANGED << S, H >>
  PROVE  Typed'
BY DEF Typed, TypeOK, LocalsOK

LEMMA PutSlot ==
  ASSUME Typed, LocalsOK', CallShape', NEW s \in SlotIds, NEW r \in SlotType,
         S' = [S EXCEPT ![s] = r], UNCHANGED H
  PROVE  Typed'
BY DEF Typed, TypeOK, LocalsOK

LEMMA PutHeader ==
  ASSUME Typed, LocalsOK', CallShape', H' \in HeaderType, UNCHANGED S
  PROVE  Typed'
BY DEF Typed, TypeOK, LocalsOK

(* The slot a call has reached is a slot of the table. *)
LEMMA SlotTyped ==
  ASSUME Typed, NEW p \in Procs
  PROVE  /\ LocalsOK /\ CallShape
         /\ call[p] \in CallType /\ At(p) \in SlotIds /\ Slot(p) \in SlotType
         /\ Shape(pc[p], call[p])
BY DEF Typed, TypeOK, LocalsOK, CallShape, CallType, At, Slot

(* ... and the probe only looks at slots of the table. *)
LEMMA PhysType ==
  ASSUME Typed, NEW p \in Procs, pc[p] = "probe", call[p].i < Slots
  PROVE  Phys(p) \in SlotIds /\ S[Phys(p)] \in SlotType
<1>1. call[p].i \in 0 .. Slots - 1 /\ call[p].key \in Keys
  BY SlotTyped, SlotsAssumption DEF CallType, Shape, Outside
<1>2. Home[call[p].key] \in Nat
  BY <1>1, HomeAssumption, SlotsAssumption DEF SlotIds
<1>3. (Home[call[p].key] + call[p].i) % Slots \in 0 .. Slots - 1
  BY <1>1, <1>2, SlotsAssumption
<1>4. Phys(p) \in SlotIds
  BY <1>1, <1>3 DEF Phys, SlotIds
<1>5. QED
  BY <1>4 DEF Typed, TypeOK

LEMMA OverwriteType ==
  ASSUME NEW v \in [1 .. MaxLen -> Cell], NEW C, NEW x \in Cell
  PROVE  Overwrite(v, C, x) \in [1 .. MaxLen -> Cell]
BY DEF Overwrite

LEMMA VerType ==
  ASSUME Typed, NEW p \in Procs, pc[p] \notin Outside
  PROVE  Ver(p) \in Cell
BY DEF Typed, TypeOK, CallShape, Shape, Ver, Cell, Version

LEMMA EmbeddingType == NoEmbedding \in [1 .. 2 -> Cell]
BY DEF NoEmbedding, Cell

(* A pulse adds natural numbers to the counters of the groups. *)
LEMMA PulseType ==
  ASSUME H \in HeaderType, NEW w, NEW b \in SUBSET Labels, PulseMasks(w, b)
  PROVE  H' \in HeaderType
<1>1. ASSUME NEW g \in Groups
      PROVE  Cardinality({l \in b : BloomWatch[l] = g}) \in Nat
  <2>1. {l \in b : BloomWatch[l] = g} \subseteq Labels
    OBVIOUS
  <2>2. IsFiniteSet({l \in b : BloomWatch[l] = g})
    BY <2>1, SignalAssumption, FS_Subset
  <2>3. QED
    BY <2>2, FS_CardinalityType
<1>2. \A g \in Groups : H.signal[g] + (IF g \in w THEN 1 ELSE 0)
                        + Cardinality({l \in b : BloomWatch[l] = g}) \in Nat
  BY <1>1 DEF HeaderType
<1>3. QED
  BY <1>2 DEF PulseMasks, HeaderType

-----------------------------------------------------------------------------
(* Every step keeps the types and the shape of the calls *)

LEMMA BeginTyped ==
  ASSUME Typed, NEW p \in Procs, NEW c \in [op : OpNames, key : Keys], NEW m \in Length,
         Begin(p, c, m)
  PROVE  Typed'
<1> DEFINE d == [Idle EXCEPT !.op = c.op, !.key = c.key,
                   !.n = IF c.op \in {"set", "append"} THEN m ELSE 0]
<1>2. d \in CallType
  <2>1. (IF c.op \in {"set", "append"} THEN m ELSE 0) \in Length
    BY SlotsAssumption DEF Length
  <2>2. QED
    BY <2>1, IdleType DEF CallType
<1>3. Shape("probe", d)
  BY DEF Shape, Outside, Critical, Idle
<1>4. "probe" \in PCs
  BY DEF PCs
<1>5. LocalsOK'
  BY <1>2, <1>4, IdleType, SlotTyped DEF Begin, LocalsOK, Goto
<1>6. CallShape'
  BY <1>3, SlotTyped DEF Begin, CallShape, LocalsOK, Goto
<1>7. QED
  BY <1>5, <1>6, SameShared DEF Begin

(* What a call fetches at its slot fits its locals. *)
LEMMA FetchTyped ==
  ASSUME NEW c \in CallType
  PROVE  /\ \A s \in SlotIds, h \in Keys \cup {NoKey} : [c EXCEPT !.slot = s, !.sh = h] \in CallType
         /\ \A n \in Length, w \in SUBSET (Groups \cup {NoGroup}), b \in SUBSET Labels :
              [c EXCEPT !.n = n, !.wm = w, !.bl = b] \in CallType
<1>1. ASSUME NEW s \in SlotIds, NEW h \in Keys \cup {NoKey}
      PROVE  [c EXCEPT !.slot = s, !.sh = h] \in CallType
  BY <1>1 DEF CallType
<1>2. ASSUME NEW n \in Length, NEW w \in SUBSET (Groups \cup {NoGroup}), NEW b \in SUBSET Labels
      PROVE  [c EXCEPT !.n = n, !.wm = w, !.bl = b] \in CallType
  BY <1>2 DEF CallType
<1>3. QED
  BY <1>1, <1>2

LEMMA ProbeTyped ==
  ASSUME Typed, NEW p \in Procs, Probe(p)
  PROVE  Typed'
<1> USE SlotTyped
<1>1. CASE ProbeHit(p)
  <2> DEFINE c == [call[p] EXCEPT !.slot = Phys(p), !.sh = S[Phys(p)].hash]
  <2>1. c \in CallType
    <3>1. Phys(p) \in SlotIds /\ S[Phys(p)].hash \in Keys \cup {NoKey}
      BY <1>1, PhysType DEF ProbeHit, SlotType
    <3>2. QED
      BY <3>1, FetchTyped
  <2>2. Shape("found", c) /\ "found" \in PCs
    BY <1>1 DEF ProbeHit, Shape, Outside, Critical, PCs, CallType
  <2>3. QED
    BY <1>1, <2>1, <2>2, WithStep, SameShared DEF ProbeHit
<1>2. CASE ProbeNext(p)
  <2> DEFINE c == [call[p] EXCEPT !.i = @ + 1]
  <2>1. c \in CallType
    BY SMTT(30) DEF CallType
  <2>2. Shape("probe", c) /\ "probe" \in PCs
    BY <1>2 DEF ProbeNext, Shape, Outside, Critical, PCs, CallType
  <2>3. QED
    BY <1>2, <2>1, <2>2, WithStep, SameShared DEF ProbeNext
<1>3. CASE ProbeEnd(p)
  <2>1. {"ok", "busy", "nospace", "miss"} \subseteq Results
    BY DEF Results
  <2>2. QED
    BY <1>3, <2>1, ReturnStep, SameShared DEF ProbeEnd
<1>4. QED
  BY <1>1, <1>2, <1>3 DEF Probe

LEMMA GiveUpStep ==
  ASSUME Typed, NEW p \in Procs, pc[p] \in {"found", "cas"}, GiveUpSlot(p),
         UNCHANGED << S, H >>
  PROVE  Typed'
<1> USE SlotTyped
<1> DEFINE c == [call[p] EXCEPT !.busy = TRUE, !.i = @ + 1]
<1>1. c \in CallType
  <2>1. call[p].i + 1 \in Nat /\ TRUE \in BOOLEAN
    BY DEF CallType
  <2>2. call[p] \in CallType
    OBVIOUS
  <2> HIDE SlotTyped
  <2>3. QED
    BY <2>1, <2>2 DEF CallType
<1>2. CASE Op(p) \in {"set", "purge"}
  <2>1. Shape("probe", c) /\ "probe" \in PCs
    BY <1>2 DEF Shape, Outside, Critical, PCs, CallType, Op
  <2>2. QED
    BY <1>1, <1>2, <2>1, WithStep, SameShared DEF GiveUpSlot
<1>3. CASE Op(p) \notin {"set", "purge"}
  <2>1. "busy" \in Results
    BY DEF Results
  <2>2. QED
    BY <1>3, <2>1, ReturnStep, SameShared DEF GiveUpSlot
<1>4. QED
  BY <1>2, <1>3

LEMMA EnterTyped ==
  ASSUME Typed, NEW p \in Procs, Enter(p)
  PROVE  Typed'
<1> USE SlotTyped
<1>1. CASE LoadOdd(p)
  BY <1>1, GiveUpStep DEF LoadOdd
<1>2. CASE LoadEven(p)
  <2> DEFINE c == [call[p] EXCEPT !.e = Slot(p).epoch]
  <2>1. c \in CallType /\ c.e = Slot(p).epoch /\ c.op = Op(p)
    BY DEF CallType, SlotType, Op
  <2>2. AfterLoad(p) \in PCs
    BY DEF AfterLoad, PCs
  <2>3. Shape(AfterLoad(p), c)
    BY <1>2, <2>1
       DEF LoadEven, ChecksEpoch, AfterLoad, Shape, Outside, Critical, CallType,
           LockOps, ReadOps, Op
  <2>4. QED
    BY <1>2, <2>1, <2>2, <2>3, WithStep, SameShared DEF LoadEven
<1>3. CASE CasWin(p)
  <2> DEFINE r == [Slot(p) EXCEPT !.epoch = @ + 1]
  <2>1. r \in SlotType
    BY DEF SlotType
  <2>2. AfterCas(p) \in PCs
    BY DEF AfterCas, PCs, Critical
  <2>3. Shape(AfterCas(p), call[p])
    BY <1>3 DEF CasWin, AfterCas, Shape, Outside, Critical, Op, LockOps
  <2>4. LocalsOK' /\ CallShape'
    BY <1>3, <2>2, <2>3, ThenStep DEF CasWin
  <2>5. S' = [S EXCEPT ![At(p)] = r] /\ UNCHANGED H
    BY <1>3 DEF CasWin, Slot
  <2>6. QED
    BY <2>1, <2>4, <2>5, PutSlot
<1>4. CASE CasLose(p)
  BY <1>4, GiveUpStep DEF CasLose
<1>5. QED
  BY <1>1, <1>2, <1>3, <1>4 DEF Enter

(* A step that stores the slot r and goes on to l. *)
LEMMA PutThen ==
  ASSUME Typed, NEW p \in Procs, NEW l \in PCs, NEW r \in SlotType,
         Shape(l, call[p]), Then(p, l), S' = [S EXCEPT ![At(p)] = r], UNCHANGED H
  PROVE  Typed'
BY SlotTyped, ThenStep, PutSlot

LEMMA WriteSetTyped ==
  ASSUME Typed, NEW p \in Procs, SetScrub(p) \/ SetFill(p) \/ SetBlank(p) \/ SetLink(p)
  PROVE  Typed'
<1> USE SlotTyped
<1>1. Ver(p) \in Cell /\ Zero \in Cell /\ call[p].key \in Keys
  BY VerType DEF SetScrub, SetFill, SetBlank, SetLink, Outside, Cell, Shape
<1>2. Slot(p).val \in [1 .. MaxLen -> Cell] /\ Slot(p).embedding \in [1 .. 2 -> Cell]
  BY DEF SlotType
<1>3. CASE SetScrub(p)
  <2> DEFINE v == Overwrite(Overwrite(Slot(p).val, Scrubbed(call[p].n), Zero), {1}, Ver(p))
             r == [Slot(p) EXCEPT !.val = v]
  <2>1. v \in [1 .. MaxLen -> Cell]
    BY <1>1, <1>2, OverwriteType
  <2>2. r \in SlotType
    BY <2>1 DEF SlotType
  <2>3. S' = [S EXCEPT ![At(p)] = r]
    BY <1>3 DEF SetScrub, Slot
  <2>4. Shape("fill", call[p]) /\ "fill" \in PCs
    BY <1>3 DEF SetScrub, Shape, Outside, Critical, PCs
  <2>5. QED
    BY <1>3, <2>2, <2>3, <2>4, PutThen DEF SetScrub
<1>4. CASE SetFill(p)
  <2> DEFINE v == Overwrite(Slot(p).val, 2 .. call[p].n, Ver(p))
             r == [Slot(p) EXCEPT !.val = v, !.val_len = call[p].n]
  <2>1. v \in [1 .. MaxLen -> Cell]
    BY <1>1, <1>2, OverwriteType
  <2>2. r \in SlotType
    BY <2>1 DEF SlotType, CallType
  <2>3. S' = [S EXCEPT ![At(p)] = r]
    BY <1>4 DEF SetFill, Slot
  <2>4. Shape("blank", call[p]) /\ "blank" \in PCs
    BY <1>4 DEF SetFill, Shape, Outside, Critical, PCs
  <2>5. QED
    BY <1>4, <2>2, <2>3, <2>4, PutThen DEF SetFill
<1>5. CASE SetBlank(p)
  <2> DEFINE r == [Slot(p) EXCEPT !.embedding = IF call[p].sh = NoKey THEN NoEmbedding ELSE @,
                                  !.key = NoKey]
  <2>1. r \in SlotType
    BY <1>2, EmbeddingType DEF SlotType
  <2>2. S' = [S EXCEPT ![At(p)] = r]
    BY <1>5 DEF SetBlank, Slot
  <2>3. Shape("link", call[p]) /\ "link" \in PCs
    BY <1>5 DEF SetBlank, Shape, Outside, Critical, PCs
  <2>4. QED
    BY <1>5, <2>1, <2>2, <2>3, PutThen DEF SetBlank
<1>6. CASE SetLink(p)
  <2> DEFINE r == [Slot(p) EXCEPT !.key = call[p].key, !.hash = call[p].key]
  <2>1. r \in SlotType
    BY <1>1, <1>2 DEF SlotType
  <2>2. S' = [S EXCEPT ![At(p)] = r]
    BY <1>6 DEF SetLink, Slot
  <2>3. Shape("close", call[p]) /\ "close" \in PCs
    BY <1>6 DEF SetLink, Shape, Outside, Critical, PCs
  <2>4. QED
    BY <1>6, <2>1, <2>2, <2>3, PutThen DEF SetLink
<1>7. QED
  BY <1>3, <1>4, <1>5, <1>6

(* append never lets val_len past max_val_sz. *)
LEMMA WriteAppendTyped ==
  ASSUME Typed, NEW p \in Procs, AppendRoom(p) \/ AppendTooLong(p) \/ AppendExtend(p)
  PROVE  Typed'
<1> USE SlotTyped
<1>1. CASE AppendRoom(p)
  <2> DEFINE n == Slot(p).val_len + call[p].n
             v == Overwrite(Slot(p).val, Slot(p).val_len + 1 .. n, Ver(p))
             r == [Slot(p) EXCEPT !.val = v]
             c == [call[p] EXCEPT !.n = Slot(p).val_len + @]
  <2>1. v \in [1 .. MaxLen -> Cell]
    BY <1>1, VerType, OverwriteType DEF AppendRoom, Outside, SlotType
  <2>2. r \in SlotType
    BY <2>1 DEF SlotType
  <2>3. n \in Length
    BY <1>1, SlotsAssumption DEF AppendRoom, SlotType, CallType, Length
  <2>4. c \in CallType
    BY <2>3 DEF CallType
  <2>5. Shape("extend", c) /\ "extend" \in PCs
    BY <1>1 DEF AppendRoom, Shape, Outside, Critical, PCs, CallType
  <2>6. LocalsOK' /\ CallShape'
    BY <1>1, <2>4, <2>5, WithStep DEF AppendRoom
  <2>7. S' = [S EXCEPT ![At(p)] = r] /\ UNCHANGED H
    BY <1>1 DEF AppendRoom, Slot
  <2>8. QED
    BY <2>2, <2>6, <2>7, PutSlot
<1>2. CASE AppendTooLong(p)
  <2> DEFINE c == [call[p] EXCEPT !.rc = "toolong"]
  <2>1. c \in CallType
    BY DEF CallType, Results
  <2>2. Shape("close", c) /\ "close" \in PCs
    BY <1>2 DEF AppendTooLong, Shape, Outside, Critical, PCs, CallType
  <2>3. QED
    BY <1>2, <2>1, <2>2, WithStep, SameShared DEF AppendTooLong
<1>3. CASE AppendExtend(p)
  <2> DEFINE r == [Slot(p) EXCEPT !.val_len = call[p].n]
  <2>1. r \in SlotType
    BY DEF SlotType, CallType
  <2>2. S' = [S EXCEPT ![At(p)] = r]
    BY <1>3 DEF AppendExtend, Slot
  <2>3. Shape("close", call[p]) /\ "close" \in PCs
    BY <1>3 DEF AppendExtend, Shape, Outside, Critical, PCs
  <2>4. QED
    BY <1>3, <2>1, <2>2, <2>3, PutThen DEF AppendExtend
<1>4. QED
  BY <1>1, <1>2, <1>3

LEMMA WriteOtherTyped ==
  ASSUME Typed, NEW p \in Procs,
         SetEmbFirst(p) \/ SetEmbSecond(p) \/ PurgeSweep(p) \/ BumpPulse(p) \/ CloseSlot(p)
  PROVE  Typed'
<1> USE SlotTyped
<1>1. CASE SetEmbFirst(p)
  <2> DEFINE r == [Slot(p) EXCEPT !.embedding[1] = Ver(p)]
  <2>1. r \in SlotType
    BY <1>1, VerType DEF SetEmbFirst, Outside, SlotType
  <2>2. S' = [S EXCEPT ![At(p)] = r]
    BY <1>1 DEF SetEmbFirst, Slot
  <2>3. Shape("emb2", call[p]) /\ "emb2" \in PCs
    BY <1>1 DEF SetEmbFirst, Shape, Outside, Critical, PCs
  <2>4. QED
    BY <1>1, <2>1, <2>2, <2>3, PutThen DEF SetEmbFirst
<1>2. CASE SetEmbSecond(p)
  <2> DEFINE r == [Slot(p) EXCEPT !.embedding[2] = Ver(p)]
  <2>1. r \in SlotType
    BY <1>2, VerType DEF SetEmbSecond, Outside, SlotType
  <2>2. S' = [S EXCEPT ![At(p)] = r]
    BY <1>2 DEF SetEmbSecond, Slot
  <2>3. Shape("close", call[p]) /\ "close" \in PCs
    BY <1>2 DEF SetEmbSecond, Shape, Outside, Critical, PCs
  <2>4. QED
    BY <1>2, <2>1, <2>2, <2>3, PutThen DEF SetEmbSecond
<1>3. CASE PurgeSweep(p)
  <2> DEFINE v == Overwrite(Slot(p).val,
                            IF Slot(p).hash = NoKey THEN 1 .. MaxLen
                                                    ELSE Slot(p).val_len + 1 .. MaxLen, Zero)
             r == [Slot(p) EXCEPT !.val = v]
  <2>1. v \in [1 .. MaxLen -> Cell]
    BY OverwriteType DEF SlotType, Cell
  <2>2. r \in SlotType
    BY <2>1 DEF SlotType
  <2>3. S' = [S EXCEPT ![At(p)] = r]
    BY <1>3 DEF PurgeSweep, Slot
  <2>4. Shape("close", call[p]) /\ "close" \in PCs
    BY <1>3 DEF PurgeSweep, Shape, Outside, Critical, PCs
  <2>5. QED
    BY <1>3, <2>2, <2>3, <2>4, PutThen DEF PurgeSweep
<1>4. CASE BumpPulse(p)
  <2>1. H' \in HeaderType
    BY <1>4, PulseType DEF BumpPulse, SlotType, Typed, TypeOK
  <2>2. Shape("close", call[p]) /\ "close" \in PCs
    BY <1>4 DEF BumpPulse, Shape, Outside, Critical, PCs
  <2>3. QED
    BY <1>4, <2>1, <2>2, ThenStep, PutHeader DEF BumpPulse
<1>5. CASE CloseSlot(p)
  <2> DEFINE r == [Slot(p) EXCEPT !.epoch = @ + 1]
             c == [call[p] EXCEPT !.i = @ + 1]
  <2>1. r \in SlotType /\ c \in CallType /\ call[p].rc \in Results
    <3>1. r \in SlotType
      BY DEF SlotType
    <3>2. c \in CallType
      BY SMTT(30) DEF CallType
    <3>3. call[p].rc \in Results
      BY DEF CallType
    <3>4. QED
      BY <3>1, <3>2, <3>3
  <2>2. S' = [S EXCEPT ![At(p)] = r] /\ UNCHANGED H
    BY <1>5 DEF CloseSlot, Slot
  <2>3. LocalsOK' /\ CallShape'
    <3>1. CASE Op(p) = "purge"
      <4>1. Shape("probe", c) /\ "probe" \in PCs
        BY <1>5, <3>1 DEF CloseSlot, Shape, Outside, Critical, PCs, CallType, Op
      <4>2. With(p, "probe", c)
        BY <1>5, <3>1 DEF CloseSlot
      <4>3. QED
        BY <2>1, <4>1, <4>2, WithStep
    <3> DEFINE over == Op(p) = "bump" \/ (Op(p) = "append" /\ call[p].rc # "ok")
    <3>2. CASE over
      <4>1. Return(p, call[p].rc)
        BY <1>5, <3>2 DEF CloseSlot
      <4>2. QED
        BY <2>1, <4>1, ReturnStep
    <3>3. CASE Op(p) # "purge" /\ ~ over
      <4>1. Shape("pulse", call[p]) /\ "pulse" \in PCs
        BY <1>5 DEF CloseSlot, Shape, Outside, Critical, PCs, LockOps, ReadOps
      <4>2. QED
        BY <1>5, <3>3, <4>1, ThenStep DEF CloseSlot
    <3>4. QED
      BY <3>1, <3>2, <3>3
  <2>4. QED
    BY <2>1, <2>2, <2>3, PutSlot
<1>6. QED
  BY <1>1, <1>2, <1>3, <1>4, <1>5

LEMMA PublishTyped ==
  ASSUME Typed, NEW p \in Procs, Publish(p)
  PROVE  Typed'
<1> USE SlotTyped
<1>1. H \in HeaderType /\ "ok" \in Results
  BY DEF Typed, TypeOK, Results
<1>2. CASE Pulse(p)
  <2> DEFINE b == IF Op(p) \in {"unset", "label", "unlabel"} THEN call[p].bl ELSE Slot(p).bloom
  <2>1. b \in SUBSET Labels
    BY DEF CallType, SlotType
  <2>2. H' \in HeaderType
    BY <1>1, <1>2, <2>1, PulseType DEF Pulse
  <2>3. LocalsOK' /\ CallShape'
    <3>1. Shape("dirty", call[p]) /\ Shape("epoch", call[p]) /\ {"dirty", "epoch"} \subseteq PCs
      BY <1>2 DEF Pulse, Shape, Outside, Critical, PCs
    <3>2. \/ Return(p, "ok")
          \/ Then(p, "dirty")
          \/ Then(p, "epoch")
      BY <1>2 DEF Pulse
    <3>3. QED
      BY <1>1, <3>1, <3>2, ReturnStep, ThenStep
  <2>4. QED
    BY <1>2, <2>2, <2>3, PutHeader DEF Pulse
<1>3. CASE GlobalEpoch(p)
  <2>1. H' \in HeaderType
    BY <1>1, <1>3 DEF GlobalEpoch, HeaderType
  <2>2. Shape("dirty", call[p]) /\ "dirty" \in PCs
    BY <1>3 DEF GlobalEpoch, Shape, Outside, Critical, PCs
  <2>3. QED
    BY <1>3, <2>1, <2>2, ThenStep, PutHeader DEF GlobalEpoch
<1>4. CASE NotifySkip(p)
  BY <1>1, <1>4, ReturnStep, SameShared DEF NotifySkip
<1>5. CASE NotifyDirty(p)
  <2>1. At(p) \div Stripe \in Nat
    BY SignalAssumption, SlotsAssumption DEF SlotIds
  <2>2. H' \in HeaderType
    BY <1>1, <1>5, <2>1 DEF NotifyDirty, HeaderType
  <2>3. Shape("bell", call[p]) /\ "bell" \in PCs
    BY <1>5 DEF NotifyDirty, Shape, Outside, Critical, PCs
  <2>4. QED
    BY <1>5, <2>2, <2>3, ThenStep, PutHeader DEF NotifyDirty
<1>6. CASE NotifyBell(p)
  <2>1. H' \in HeaderType
    BY <1>1, <1>6 DEF NotifyBell, HeaderType
  <2>2. QED
    BY <1>1, <1>6, <2>1, ReturnStep, PutHeader DEF NotifyBell
<1>7. QED
  BY <1>2, <1>3, <1>4, <1>5, <1>6 DEF Publish

LEMMA ReadTyped ==
  ASSUME Typed, NEW p \in Procs, Read(p)
  PROVE  Typed'
<1> USE SlotTyped
<1>1. {"ok", "busy"} \subseteq Results /\ {"copy", "found", "len"} \subseteq PCs
  BY DEF Results, PCs
<1>2. CASE ReadLen(p)
  <2> DEFINE c == [call[p] EXCEPT !.n = Slot(p).val_len]
  <2>1. c \in CallType
    BY DEF CallType, SlotType
  <2>2. Shape("copy", c)
    BY <1>2 DEF ReadLen, Shape, Outside, Critical, CallType
  <2>3. QED
    BY <1>1, <1>2, <2>1, <2>2, WithStep, SameShared DEF ReadLen
<1>3. CASE ReadCopy(p)
  <2> DEFINE x == Source(p)[Len(call[p].buf) + 1]
             c == [call[p] EXCEPT !.buf = Append(@, x)]
  <2>1. call[p].buf \in Seq(Cell) /\ Len(call[p].buf) \in Nat
    BY DEF CallType
  <2>2. x \in Cell
    <3>1. CASE Op(p) = "get"
      <4>1. Len(call[p].buf) + 1 \in 1 .. MaxLen
        BY <1>3, <2>1, <3>1, SlotsAssumption DEF ReadCopy, Wanted, CallType, Length
      <4>2. QED
        BY <3>1, <4>1 DEF Source, SlotType
    <3>2. CASE Op(p) # "get"
      <4>1. Len(call[p].buf) + 1 \in 1 .. 2
        BY <1>3, <2>1, <3>2 DEF ReadCopy, Wanted
      <4>2. QED
        BY <3>2, <4>1 DEF Source, SlotType
    <3>3. QED
      BY <3>1, <3>2
  <2>3. Append(call[p].buf, x) \in Seq(Cell)
    BY <2>1, <2>2
  <2>4. c \in CallType
    BY <2>3 DEF CallType
  <2>5. Shape("copy", c)
    BY <1>3 DEF ReadCopy, Shape, Outside, Critical, CallType
  <2>6. QED
    BY <1>1, <1>3, <2>4, <2>5, WithStep, SameShared DEF ReadCopy
<1>4. CASE ReadVerify(p)
  BY <1>1, <1>4, ReturnStep, SameShared DEF ReadVerify
<1>5. CASE SnapOdd(p)
  BY <1>1, <1>5, ReturnStep, SameShared DEF SnapOdd
<1>6. CASE SnapStart(p)
  <2> DEFINE c == [call[p] EXCEPT !.e = Slot(p).epoch, !.buf = << >>]
  <2>1. c \in CallType
    <3>1. << >> \in Seq(Cell) /\ Slot(p).epoch \in Nat
      BY DEF SlotType
    <3>2. QED
      BY <3>1 DEF CallType
  <2>2. Shape("len", c)
    BY <1>6 DEF SnapStart, Shape, Outside, Critical, CallType, Op
  <2>3. QED
    BY <1>1, <1>6, <2>1, <2>2, WithStep, SameShared DEF SnapStart
<1>7. CASE SnapEnd(p)
  <2> DEFINE c == [call[p] EXCEPT !.end = Slot(p).epoch]
  <2>1. c \in CallType
    BY SMTT(30) DEF CallType, SlotType
  <2>2. Shape("found", c)
    BY <1>7 DEF SnapEnd, Shape, Outside, Critical, CallType, Op
  <2>3. Return(p, "ok") \/ With(p, "found", c)
    BY <1>7 DEF SnapEnd
  <2>4. QED
    BY <1>1, <1>7, <2>1, <2>2, <2>3, ReturnStep, WithStep, SameShared DEF SnapEnd
<1>8. QED
  BY <1>2, <1>3, <1>4, <1>5, <1>6, <1>7 DEF Read

LEMMA PollTyped ==
  ASSUME Typed, NEW p \in Procs, Poll(p)
  PROVE  Typed'
<1> USE SlotTyped
<1>1. {"ok", "timeout"} \subseteq Results
  BY DEF Results
<1>2. CASE PollClock(p)
  <2> DEFINE c == [call[p] EXCEPT !.late = TRUE]
  <2>1. c \in CallType
    <3>1. call[p] \in CallType
      OBVIOUS
    <3> HIDE SlotTyped
    <3>2. QED
      BY <3>1 DEF CallType
  <2>2. Shape("wait", c) /\ "wait" \in PCs
    BY <1>2 DEF PollClock, Shape, Outside, Critical, CallType, PCs
  <2>3. QED
    BY <1>2, <2>1, <2>2, WithStep, SameShared DEF PollClock
<1>3. CASE PollMoved(p)
  BY <1>1, <1>3, ReturnStep, SameShared DEF PollMoved
<1>4. CASE PollTimeout(p)
  BY <1>1, <1>4, ReturnStep, SameShared DEF PollTimeout
<1>5. QED
  BY <1>2, <1>3, <1>4 DEF Poll

LEMMA UnsetTyped ==
  ASSUME Typed, NEW p \in Procs, Unset(p)
  PROVE  Typed'
<1> USE SlotTyped
<1>1. {"wipe", "rewind", "reset", "reopen", "pulse"} \subseteq PCs
  BY DEF PCs
<1>2. CASE UnsetForget(p)
  <2> DEFINE r == [Slot(p) EXCEPT !.hash = NoKey]
             c == [call[p] EXCEPT !.n = Slot(p).val_len,
                                  !.wm = Slot(p).watcher_mask, !.bl = Slot(p).bloom]
  <2>1. r \in SlotType
    BY DEF SlotType
  <2>2. c \in CallType
    <3>1. /\ Slot(p).val_len \in Length /\ Slot(p).bloom \in SUBSET Labels
          /\ Slot(p).watcher_mask \in SUBSET (Groups \cup {NoGroup})
      BY DEF SlotType
    <3>2. QED
      BY <3>1, FetchTyped
  <2>3. Shape("wipe", c)
    BY <1>2 DEF UnsetForget, Shape, Outside, Critical, CallType
  <2>4. S' = [S EXCEPT ![At(p)] = r]
    BY <1>2 DEF UnsetForget, Slot
  <2>5. QED
    BY <1>1, <1>2, <2>1, <2>2, <2>3, <2>4, WithStep, PutSlot DEF UnsetForget
<1>3. CASE UnsetWipe(p)
  <2> DEFINE v == IF Mop = "off" THEN Slot(p).val ELSE Overwrite(Slot(p).val, 1 .. MaxLen, Zero)
             r == [Slot(p) EXCEPT !.key = NoKey, !.val = v]
  <2>1. v \in [1 .. MaxLen -> Cell]
    BY OverwriteType DEF SlotType, Cell
  <2>2. r \in SlotType
    BY <2>1 DEF SlotType
  <2>3. Shape("rewind", call[p])
    BY <1>3 DEF UnsetWipe, Shape, Outside, Critical
  <2>4. S' = [S EXCEPT ![At(p)] = r]
    BY <1>3 DEF UnsetWipe, Slot
  <2>5. QED
    BY <1>1, <1>3, <2>2, <2>3, <2>4, PutThen DEF UnsetWipe
<1>4. CASE UnsetRewind(p)
  <2> DEFINE r == [Slot(p) EXCEPT !.epoch = 0]
  <2>1. r \in SlotType
    BY DEF SlotType
  <2>2. Shape("reset", call[p])
    BY <1>4 DEF UnsetRewind, Shape, Outside, Critical
  <2>3. S' = [S EXCEPT ![At(p)] = r]
    BY <1>4 DEF UnsetRewind, Slot
  <2>4. QED
    BY <1>1, <1>4, <2>1, <2>2, <2>3, PutThen DEF UnsetRewind
<1>5. CASE UnsetReset(p)
  <2> DEFINE r == [Slot(p) EXCEPT !.val_len = 0, !.embedding = NoEmbedding,
                                  !.watcher_mask = {}, !.bloom = {}]
  <2>1. r \in SlotType
    <3>1. 0 \in Length
      BY SlotsAssumption DEF Length
    <3>2. {} \in SUBSET Labels /\ {} \in SUBSET (Groups \cup {NoGroup})
      OBVIOUS
    <3>3. QED
      BY <3>1, <3>2, EmbeddingType DEF SlotType
  <2>2. Shape("reopen", call[p])
    BY <1>5 DEF UnsetReset, Shape, Outside, Critical
  <2>3. S' = [S EXCEPT ![At(p)] = r]
    BY <1>5 DEF UnsetReset, Slot
  <2>4. QED
    BY <1>1, <1>5, <2>1, <2>2, <2>3, PutThen DEF UnsetReset
<1>6. CASE UnsetReopen(p)
  <2> DEFINE r == [Slot(p) EXCEPT !.epoch = @ + 2]
  <2>1. r \in SlotType
    BY DEF SlotType
  <2>2. Shape("pulse", call[p])
    BY <1>6 DEF UnsetReopen, Shape, Outside, Critical, ReadOps
  <2>3. S' = [S EXCEPT ![At(p)] = r]
    BY <1>6 DEF UnsetReopen, Slot
  <2>4. QED
    BY <1>1, <1>6, <2>1, <2>2, <2>3, PutThen DEF UnsetReopen
<1>7. QED
  BY <1>2, <1>3, <1>4, <1>5, <1>6 DEF Unset

LEMMA RetrainTyped ==
  ASSUME Typed, NEW p \in Procs, Retrain(p)
  PROVE  Typed'
<1> USE SlotTyped
<1>1. {"zeroemb", "even4", "pulse"} \subseteq PCs
  BY DEF PCs, Critical
<1>2. CASE RetrainOdd(p)
  <2> DEFINE r == [Slot(p) EXCEPT !.epoch = 3]
  <2>1. r \in SlotType
    BY DEF SlotType
  <2>2. Shape("zeroemb", call[p])
    BY <1>2 DEF RetrainOdd, Shape, Outside, Critical, Op
  <2>3. S' = [S EXCEPT ![At(p)] = r]
    BY <1>2 DEF RetrainOdd, Slot
  <2>4. QED
    BY <1>1, <1>2, <2>1, <2>2, <2>3, PutThen DEF RetrainOdd
<1>3. CASE RetrainZero(p)
  <2> DEFINE r == [Slot(p) EXCEPT !.embedding = NoEmbedding]
  <2>1. r \in SlotType
    BY EmbeddingType DEF SlotType
  <2>2. Shape("even4", call[p])
    BY <1>3 DEF RetrainZero, Shape, Outside, Critical
  <2>3. S' = [S EXCEPT ![At(p)] = r]
    BY <1>3 DEF RetrainZero, Slot
  <2>4. QED
    BY <1>1, <1>3, <2>1, <2>2, <2>3, PutThen DEF RetrainZero
<1>4. CASE RetrainEven(p)
  <2> DEFINE r == [Slot(p) EXCEPT !.epoch = 4]
  <2>1. r \in SlotType
    BY DEF SlotType
  <2>2. Shape("pulse", call[p])
    BY <1>4 DEF RetrainEven, Shape, Outside, Critical, ReadOps
  <2>3. S' = [S EXCEPT ![At(p)] = r]
    BY <1>4 DEF RetrainEven, Slot
  <2>4. H' \in HeaderType
    BY <1>4 DEF RetrainEven, HeaderType, Typed, TypeOK
  <2>5. LocalsOK' /\ CallShape'
    BY <1>1, <1>4, <2>2, ThenStep DEF RetrainEven
  <2>6. QED
    BY <2>1, <2>3, <2>4, <2>5 DEF Typed, TypeOK, LocalsOK
<1>5. QED
  BY <1>2, <1>3, <1>4 DEF Retrain

LEMMA MarkTyped ==
  ASSUME Typed, NEW p \in Procs, Mark(p)
  PROVE  Typed'
<1> USE SlotTyped
<1>1. "pulse" \in PCs /\ "ok" \in Results
  BY DEF PCs, Results
<1>2. Slot(p).bloom \cup WatchLabel[p] \in SUBSET Labels
      /\ Slot(p).watcher_mask \cup {WatchGroup[p]} \in SUBSET (Groups \cup {NoGroup})
  BY SignalAssumption DEF SlotType
<1>3. CASE SetLabel(p) \/ UnsetLabel(p)
  <2>1. PICK b \in SUBSET Labels, w \in SUBSET Labels :
          /\ S' = [S EXCEPT ![At(p)] = [Slot(p) EXCEPT !.bloom = b]]
          /\ With(p, "pulse", [call[p] EXCEPT !.bl = w])
    <3>1. CASE SetLabel(p)
      BY <1>2, <3>1 DEF SetLabel, Slot
    <3>2. CASE UnsetLabel(p)
      BY <3>2 DEF UnsetLabel, Slot, SlotType
    <3>3. QED
      BY <1>3, <3>1, <3>2
  <2> DEFINE r == [Slot(p) EXCEPT !.bloom = b]
             c == [call[p] EXCEPT !.bl = w]
  <2>2. r \in SlotType
    BY DEF SlotType
  <2>3. c \in CallType
    BY DEF CallType
  <2>4. Shape("pulse", c)
    BY <1>3 DEF SetLabel, UnsetLabel, Shape, Outside, Critical, CallType, Op, ReadOps
  <2>5. LocalsOK' /\ CallShape'
    BY <1>1, <2>1, <2>3, <2>4, WithStep
  <2>6. H' \in HeaderType
    BY <1>3 DEF SetLabel, UnsetLabel, HeaderType, Typed, TypeOK
  <2>7. QED
    BY <2>1, <2>2, <2>5, <2>6 DEF Typed, TypeOK, LocalsOK
<1>4. CASE PulseKeygroup(p)
  <2>1. Shape("pulse", call[p])
    BY <1>4 DEF PulseKeygroup, Shape, Outside, Critical, Op, ReadOps
  <2>2. QED
    BY <1>1, <1>4, <2>1, ThenStep, SameShared DEF PulseKeygroup
<1>5. CASE WatchRegister(p)
  <2> DEFINE r == [Slot(p) EXCEPT !.watcher_mask = @ \cup {WatchGroup[p]}]
  <2>1. r \in SlotType
    BY <1>2 DEF SlotType
  <2>2. S' = [S EXCEPT ![At(p)] = r]
    BY <1>5 DEF WatchRegister, Slot
  <2>3. QED
    BY <1>1, <1>5, <2>1, <2>2, ReturnStep, PutSlot DEF WatchRegister
<1>6. CASE WatchUnregister(p)
  <2> DEFINE r == [Slot(p) EXCEPT !.watcher_mask = @ \ {WatchGroup[p]}]
  <2>1. r \in SlotType
    BY DEF SlotType
  <2>2. S' = [S EXCEPT ![At(p)] = r]
    BY <1>6 DEF WatchUnregister, Slot
  <2>3. QED
    BY <1>1, <1>6, <2>1, <2>2, ReturnStep, PutSlot DEF WatchUnregister
<1>7. QED
  BY <1>3, <1>4, <1>5, <1>6 DEF Mark

LEMMA KillTyped ==
  ASSUME Typed, NEW p \in Procs, Kill(p)
  PROVE  Typed'
<1> DEFINE l == IF pc[p] \in Critical THEN "killed" ELSE "dead"
<1>1. l \in PCs
  BY DEF PCs
<1>2. Shape(l, call[p])
  BY DEF Shape, Outside, Critical
<1>3. QED
  BY <1>1, <1>2, SlotTyped, ThenStep, SameShared DEF Kill

LEMMA TypedStep == Typed /\ [Next]_vars => Typed'
<1> SUFFICES ASSUME Typed, [Next]_vars
             PROVE  Typed'
  OBVIOUS
<1>1. CASE UNCHANGED vars
  BY <1>1 DEF vars, Typed, TypeOK, CallShape
<1>2. ASSUME NEW p \in Procs, Step(p)
      PROVE  Typed'
  BY <1>2, ProbeTyped, EnterTyped, WriteSetTyped, WriteAppendTyped, WriteOtherTyped,
     PublishTyped, ReadTyped, PollTyped, UnsetTyped, RetrainTyped, MarkTyped
     DEF Step, Write
<1>3. ASSUME NEW p \in Procs, NEW c \in Calls[p], NEW m \in Lens, Begin(p, c, m)
      PROVE  Typed'
  <2>1. c \in [op : OpNames, key : Keys] /\ m \in Length
    BY CallsAssumption, SlotsAssumption DEF Length
  <2>2. QED
    BY <1>3, <2>1, BeginTyped
<1>4. QED
  BY <1>1, <1>2, <1>3, KillTyped DEF Next

LEMMA TypedInit == Init => Typed
<1> SUFFICES ASSUME Init
             PROVE  Typed
  OBVIOUS
<1>1. Empty \in SlotType
  BY EmbeddingType, SlotsAssumption DEF Empty, SlotType, Cell, Length
<1>2. ASSUME NEW k \in Keys
      PROVE  Stored(k) \in SlotType
  <2>1. << k, Boot, 0 >> \in Cell
    BY DEF Cell, Version
  <2>2. [c \in 1 .. MaxLen |-> << k, Boot, 0 >>] \in [1 .. MaxLen -> Cell]
    BY <2>1
  <2>3. MaxLen \in Length
    BY SlotsAssumption DEF Length
  <2>4. QED
    BY <1>1, <2>2, <2>3, SignalAssumption DEF Stored, SlotType
<1>3. S \in [SlotIds -> SlotType]
  BY <1>1, <1>2, LayoutAssumption DEF Init
<1>4. H \in HeaderType
  <2>1. IsFiniteSet(SlotIds)
    <3>1. 0 \in Int /\ Slots - 1 \in Int
      BY SlotsAssumption
    <3>2. QED
      BY <3>1, FS_Interval DEF SlotIds
  <2>2. Cardinality({s \in SlotIds : Layout[s] # NoKey}) \in Nat
    BY <2>1, FS_Subset, FS_CardinalityType
  <2>3. QED
    BY <2>2 DEF Init, HeaderType
<1>5. LocalsOK
  BY IdleType, CallsAssumption DEF Init, LocalsOK, PCs
<1>6. Shape("idle", Idle)
  BY DEF Shape, Outside, Critical
<1>7. CallShape
  BY <1>6 DEF Init, CallShape
<1>8. QED
  BY <1>3, <1>4, <1>5, <1>7 DEF Typed, TypeOK, LocalsOK

(* The store and every process keep their types, in every interleaving and *)
(* whichever operations meet: no append and no set takes val_len past      *)
(* max_val_sz, and no probe leaves the table.                              *)
THEOREM TypeCorrect == Spec => []TypeOK
<1>1. Typed => TypeOK
  BY DEF Typed
<1>2. QED
  BY <1>1, TypedInit, TypedStep, PTL DEF Spec

-----------------------------------------------------------------------------
(* Who may change what: the steps of p sorted by what they do to the slots *)

OthersStay(p) == \A q \in Procs \ {p} : pc'[q] = pc[q] /\ call'[q] = call[q]

SameContent(s) ==
  /\ S'[s].epoch = S[s].epoch
  /\ S'[s].val_len = S[s].val_len
  /\ S'[s].val = S[s].val
  /\ S'[s].embedding = S[s].embedding

(* p changes no content and neither enters nor leaves a seqlock, *)
Silent(p) ==
  /\ OthersStay(p)
  /\ pc[p] # "killed"
  /\ pc'[p] \in Critical <=> pc[p] \in Critical
  /\ pc[p] \in Critical => call'[p].slot = call[p].slot
  /\ \A s \in SlotIds : SameContent(s)

(* or it writes the slot whose seqlock it holds, and keeps holding it. *)
InLock(p) ==
  /\ OthersStay(p)
  /\ pc[p] \in Critical /\ pc'[p] \in Critical
  /\ call'[p].slot = call[p].slot
  /\ \A s \in SlotIds : S'[s].epoch = S[s].epoch
  /\ \A s \in SlotIds \ {At(p)} : SameContent(s)

LEMMA ReturnStays ==
  ASSUME Typed, NEW p \in Procs, NEW rc, Return(p, rc)
  PROVE  OthersStay(p) /\ pc'[p] = "idle"
BY DEF Typed, TypeOK, OthersStay, Return, Goto

LEMMA WithStays ==
  ASSUME Typed, NEW p \in Procs, NEW l, NEW c, With(p, l, c)
  PROVE  OthersStay(p) /\ pc'[p] = l /\ call'[p] = c
BY DEF Typed, TypeOK, OthersStay, With, Goto

LEMMA ThenStays ==
  ASSUME Typed, NEW p \in Procs, NEW l, Then(p, l)
  PROVE  OthersStay(p) /\ pc'[p] = l /\ call'[p] = call[p]
BY DEF Typed, TypeOK, OthersStay, Then, Goto

(* A step that runs outside a seqlock and writes neither slot nor epoch. *)
LEMMA SilentOutside ==
  ASSUME Typed, NEW p \in Procs, OthersStay(p), UNCHANGED S,
         pc[p] \notin Critical \cup {"killed"}, pc'[p] \notin Critical
  PROVE  Silent(p)
BY DEF Silent, SameContent

LEMMA ProbeSilent ==
  ASSUME Typed, NEW p \in Procs, Probe(p)
  PROVE  Silent(p)
<1>1. OthersStay(p) /\ pc'[p] \in {"found", "probe", "idle"}
  <2>1. CASE ProbeHit(p)
    BY <2>1, WithStays DEF ProbeHit
  <2>2. CASE ProbeNext(p)
    BY <2>2, WithStays DEF ProbeNext
  <2>3. CASE ProbeEnd(p)
    BY <2>3, ReturnStays DEF ProbeEnd
  <2>4. QED
    BY <2>1, <2>2, <2>3 DEF Probe
<1>2. UNCHANGED S /\ pc[p] = "probe"
  BY DEF Probe, ProbeHit, ProbeNext, ProbeEnd
<1>3. QED
  BY <1>1, <1>2, SilentOutside DEF Critical

LEMMA GiveUpStays ==
  ASSUME Typed, NEW p \in Procs, GiveUpSlot(p)
  PROVE  OthersStay(p) /\ pc'[p] \in {"probe", "idle"}
BY WithStays, ReturnStays DEF GiveUpSlot

LEMMA EnterSilent ==
  ASSUME Typed, NEW p \in Procs, Enter(p)
  PROVE  Silent(p) \/ CasWin(p)
<1>1. CASE LoadOdd(p) \/ CasLose(p)
  BY <1>1, GiveUpStays, SilentOutside DEF LoadOdd, CasLose, Critical
<1>2. CASE LoadEven(p)
  <2>1. AfterLoad(p) \notin Critical
    BY DEF AfterLoad, Critical
  <2>2. QED
    BY <1>2, <2>1, WithStays, SilentOutside DEF LoadEven, Critical
<1>3. QED
  BY <1>1, <1>2 DEF Enter

LEMMA WriteInLock ==
  ASSUME Typed, NEW p \in Procs, Write(p)
  PROVE  Silent(p) \/ InLock(p) \/ CloseSlot(p)
<1> USE SlotTyped
<1>1. S \in [SlotIds -> SlotType]
  BY DEF Typed, TypeOK
<1>2. CASE AppendTooLong(p)
  <2>1. OthersStay(p) /\ pc'[p] = "close" /\ call'[p].slot = call[p].slot
    BY <1>2, WithStays DEF AppendTooLong, CallType
  <2>2. QED
    BY <1>2, <2>1 DEF AppendTooLong, Silent, SameContent, Critical
<1>3. CASE BumpPulse(p)
  <2>1. OthersStay(p) /\ pc'[p] = "close" /\ call'[p].slot = call[p].slot
    BY <1>3, ThenStays DEF BumpPulse
  <2>2. QED
    BY <1>3, <2>1 DEF BumpPulse, Silent, SameContent, Critical
<1>4. CASE AppendRoom(p)
  <2>1. OthersStay(p) /\ pc'[p] = "extend" /\ call'[p].slot = call[p].slot
    BY <1>4, WithStays DEF AppendRoom, CallType
  <2>2. \A s \in SlotIds : S'[s].epoch = S[s].epoch
    BY <1>1, <1>4 DEF AppendRoom, SlotType
  <2>3. \A s \in SlotIds \ {At(p)} : S'[s] = S[s]
    BY <1>1, <1>4 DEF AppendRoom
  <2>4. QED
    BY <1>4, <2>1, <2>2, <2>3 DEF AppendRoom, InLock, SameContent, Critical
<1>5. CASE \/ SetScrub(p) \/ SetFill(p) \/ SetBlank(p) \/ SetLink(p) \/ AppendExtend(p)
           \/ SetEmbFirst(p) \/ SetEmbSecond(p) \/ PurgeSweep(p)
  <2>1. OthersStay(p) /\ pc'[p] \in {"fill", "blank", "link", "close", "emb2"}
        /\ call'[p].slot = call[p].slot
    BY <1>5, ThenStays
       DEF SetScrub, SetFill, SetBlank, SetLink, AppendExtend, SetEmbFirst, SetEmbSecond, PurgeSweep
  <2>2. pc[p] \in {"scrub", "fill", "blank", "link", "extend", "emb1", "emb2", "sweep"}
    BY <1>5
       DEF SetScrub, SetFill, SetBlank, SetLink, AppendExtend, SetEmbFirst, SetEmbSecond, PurgeSweep
  <2>3. \A s \in SlotIds : S'[s].epoch = S[s].epoch
    <3>1. CASE SetScrub(p)
      BY <1>1, <3>1 DEF SetScrub, SlotType
    <3>2. CASE SetFill(p)
      BY <1>1, <3>2 DEF SetFill, SlotType
    <3>3. CASE SetLink(p)
      BY <1>1, <3>3 DEF SetLink, SlotType
    <3>4. CASE AppendExtend(p)
      BY <1>1, <3>4 DEF AppendExtend, SlotType
    <3>5. CASE SetEmbFirst(p)
      BY <1>1, <3>5 DEF SetEmbFirst, SlotType
    <3>6. CASE SetEmbSecond(p)
      BY <1>1, <3>6 DEF SetEmbSecond, SlotType
    <3>7. CASE PurgeSweep(p)
      BY <1>1, <3>7 DEF PurgeSweep, SlotType
    <3>8. CASE SetBlank(p)
      BY <1>1, <3>8 DEF SetBlank, SlotType
    <3>9. QED
      BY <1>5, <3>1, <3>2, <3>3, <3>4, <3>5, <3>6, <3>7, <3>8
  <2>4. \A s \in SlotIds \ {At(p)} : S'[s] = S[s]
    BY <1>1, <1>5
       DEF SetScrub, SetFill, SetBlank, SetLink, AppendExtend, SetEmbFirst, SetEmbSecond, PurgeSweep
  <2>5. QED
    BY <2>1, <2>2, <2>3, <2>4 DEF InLock, SameContent, Critical
<1>6. QED
  BY <1>2, <1>3, <1>4, <1>5 DEF Write

LEMMA PublishSilent ==
  ASSUME Typed, NEW p \in Procs, Publish(p)
  PROVE  Silent(p)
<1>1. OthersStay(p) /\ pc'[p] \in {"idle", "epoch", "dirty", "bell"}
  <2>1. CASE Pulse(p)
    <3>1. Return(p, "ok") \/ Then(p, "dirty") \/ Then(p, "epoch")
      BY <2>1 DEF Pulse
    <3>2. QED
      BY <3>1, ReturnStays, ThenStays
  <2>2. CASE GlobalEpoch(p) \/ NotifyDirty(p)
    BY <2>2, ThenStays DEF GlobalEpoch, NotifyDirty
  <2>3. CASE NotifySkip(p) \/ NotifyBell(p)
    BY <2>3, ReturnStays DEF NotifySkip, NotifyBell
  <2>4. QED
    BY <2>1, <2>2, <2>3 DEF Publish
<1>2. UNCHANGED S /\ pc[p] \in {"pulse", "epoch", "dirty", "bell"}
  BY DEF Publish, Pulse, GlobalEpoch, NotifySkip, NotifyDirty, NotifyBell
<1>3. QED
  BY <1>1, <1>2, SilentOutside DEF Critical

LEMMA ReadSilent ==
  ASSUME Typed, NEW p \in Procs, Read(p) \/ Poll(p)
  PROVE  Silent(p)
<1>1. OthersStay(p) /\ pc'[p] \in {"copy", "idle", "len", "found", "wait"}
  <2>1. CASE ReadLen(p) \/ ReadCopy(p) \/ SnapStart(p) \/ PollClock(p)
    BY <2>1, WithStays DEF ReadLen, ReadCopy, SnapStart, PollClock
  <2>2. CASE ReadVerify(p) \/ SnapOdd(p) \/ PollMoved(p) \/ PollTimeout(p)
    BY <2>2, ReturnStays DEF ReadVerify, SnapOdd, PollMoved, PollTimeout
  <2>3. CASE SnapEnd(p)
    <3>1. Return(p, "ok") \/ With(p, "found", [call[p] EXCEPT !.end = Slot(p).epoch])
      BY <2>3 DEF SnapEnd
    <3>2. QED
      BY <3>1, ReturnStays, WithStays
  <2>4. QED
    BY <2>1, <2>2, <2>3 DEF Read, Poll
<1>2. UNCHANGED S /\ pc[p] \in {"len", "copy", "found", "wait"}
  BY DEF Read, Poll, ReadLen, ReadCopy, ReadVerify, SnapOdd, SnapStart, SnapEnd,
         PollClock, PollMoved, PollTimeout
<1>3. QED
  BY <1>1, <1>2, SilentOutside DEF Critical

LEMMA MarkSilent ==
  ASSUME Typed, NEW p \in Procs, Mark(p)
  PROVE  Silent(p)
<1>1. OthersStay(p) /\ pc'[p] \in {"pulse", "idle"}
  <2>1. CASE SetLabel(p) \/ UnsetLabel(p)
    BY <2>1, WithStays DEF SetLabel, UnsetLabel
  <2>2. CASE PulseKeygroup(p)
    BY <2>2, ThenStays DEF PulseKeygroup
  <2>3. CASE WatchRegister(p) \/ WatchUnregister(p)
    BY <2>3, ReturnStays DEF WatchRegister, WatchUnregister
  <2>4. QED
    BY <2>1, <2>2, <2>3 DEF Mark
<1>2. pc[p] = "found"
  BY DEF Mark, SetLabel, UnsetLabel, PulseKeygroup, WatchRegister, WatchUnregister
<1>3. \A s \in SlotIds : SameContent(s)
  <2>1. S \in [SlotIds -> SlotType]
    BY DEF Typed, TypeOK
  <2>2. CASE SetLabel(p)
    BY <2>1, <2>2 DEF SetLabel, SameContent, SlotType
  <2>3. CASE UnsetLabel(p)
    BY <2>1, <2>3 DEF UnsetLabel, SameContent, SlotType
  <2>4. CASE PulseKeygroup(p)
    BY <2>4 DEF PulseKeygroup, SameContent
  <2>5. CASE WatchRegister(p)
    BY <2>1, <2>5 DEF WatchRegister, SameContent, SlotType
  <2>6. CASE WatchUnregister(p)
    BY <2>1, <2>6 DEF WatchUnregister, SameContent, SlotType
  <2>7. QED
    BY <2>2, <2>3, <2>4, <2>5, <2>6 DEF Mark
<1>4. QED
  BY <1>1, <1>2, <1>3 DEF Silent, Critical

LEMMA BeginSilent ==
  ASSUME Typed, NEW p \in Procs, NEW c, NEW m, Begin(p, c, m)
  PROVE  Silent(p)
<1>1. OthersStay(p) /\ pc'[p] = "probe"
  BY DEF Typed, TypeOK, OthersStay, Begin, Goto
<1>2. UNCHANGED S /\ pc[p] = "idle"
  BY DEF Begin
<1>3. QED
  BY <1>1, <1>2, SilentOutside DEF Critical

LEMMA RetrainInLock ==
  ASSUME Typed, NEW p \in Procs, RetrainZero(p)
  PROVE  InLock(p)
<1>1. S \in [SlotIds -> SlotType]
  BY DEF Typed, TypeOK
<1>2. OthersStay(p) /\ pc'[p] = "even4" /\ call'[p] = call[p]
  BY ThenStays DEF RetrainZero
<1>3. \A s \in SlotIds : S'[s].epoch = S[s].epoch
  BY <1>1 DEF RetrainZero, SlotType
<1>4. \A s \in SlotIds \ {At(p)} : S'[s] = S[s]
  BY <1>1 DEF RetrainZero
<1>5. QED
  BY <1>2, <1>3, <1>4 DEF InLock, RetrainZero, SameContent, Critical

(* The steps that do more: the two ends of a seqlock, and the operations   *)
(* that store the epoch outright.                                          *)
Outright(p) == Unset(p) \/ RetrainOdd(p) \/ RetrainEven(p)

LEMMA Sorted ==
  ASSUME Typed, NEW p \in Procs, Step(p)
  PROVE  Silent(p) \/ InLock(p) \/ CasWin(p) \/ CloseSlot(p) \/ Outright(p)
BY ProbeSilent, EnterSilent, WriteInLock, PublishSilent, ReadSilent, MarkSilent,
   RetrainInLock DEF Step, Outright, Retrain

-----------------------------------------------------------------------------
(* Quiet operations stay alone *)

KeepsCall(p) == OthersStay(p) /\ (pc'[p] \notin Outside => call'[p].op = call[p].op)

LEMMA ReturnKeeps ==
  ASSUME Typed, NEW p \in Procs, NEW rc, Return(p, rc)
  PROVE  KeepsCall(p)
BY ReturnStays DEF KeepsCall, Outside

LEMMA ThenKeeps ==
  ASSUME Typed, NEW p \in Procs, NEW l, Then(p, l)
  PROVE  KeepsCall(p)
BY ThenStays DEF KeepsCall

LEMMA WithKeeps ==
  ASSUME Typed, NEW p \in Procs, NEW l, NEW c, With(p, l, c), c.op = call[p].op
  PROVE  KeepsCall(p)
BY WithStays DEF KeepsCall

LEMMA StepStays ==
  ASSUME Typed, NEW p \in Procs, Step(p) \/ Kill(p)
  PROVE  KeepsCall(p) /\ pc[p] \notin Outside
<1> USE SlotTyped
<1>1. pc[p] \notin Outside
  BY DEF Step, Probe, Enter, Write, Publish, Read, Poll, Unset, Retrain, Mark, Kill, Outside,
     ProbeHit, ProbeNext, ProbeEnd, LoadOdd, LoadEven, CasWin, CasLose, SetScrub, SetFill, SetBlank,
     SetBlank, SetLink, AppendRoom, AppendTooLong, AppendExtend, SetEmbFirst, SetEmbSecond, PurgeSweep,
     BumpPulse, CloseSlot, Pulse, GlobalEpoch, NotifySkip, NotifyDirty, NotifyBell, ReadLen,
     ReadCopy, ReadVerify, SnapOdd, SnapStart, SnapEnd, PollClock, PollMoved, PollTimeout,
     UnsetForget, UnsetWipe, UnsetRewind, UnsetReset, UnsetReopen, RetrainOdd, RetrainZero,
     RetrainEven, SetLabel, UnsetLabel, PulseKeygroup, WatchRegister, WatchUnregister
<1> SUFFICES KeepsCall(p)
  BY <1>1
<1>2. CASE Probe(p)
  <2>1. CASE ProbeHit(p)
    BY WithKeeps, <2>1 DEF ProbeHit, CallType
  <2>2. CASE ProbeNext(p)
    BY WithKeeps, <2>2 DEF ProbeNext, CallType
  <2>3. CASE ProbeEnd(p)
    BY ReturnKeeps, <2>3 DEF ProbeEnd
  <2>4. QED
    BY <1>2, <2>1, <2>2, <2>3 DEF Probe
<1>3. CASE Enter(p)
  <2>1. CASE GiveUpSlot(p)
    BY ReturnKeeps, WithKeeps, <2>1 DEF GiveUpSlot, CallType
  <2>2. CASE LoadEven(p)
    BY WithKeeps, <2>2 DEF LoadEven, CallType
  <2>3. CASE CasWin(p)
    BY ThenKeeps, <2>3 DEF CasWin
  <2>4. QED
    BY <1>3, <2>1, <2>2, <2>3 DEF Enter, LoadOdd, CasLose
<1>4. CASE Write(p)
  <2>1. CASE AppendRoom(p)
    BY WithKeeps, <2>1 DEF AppendRoom, CallType
  <2>2. CASE AppendTooLong(p)
    BY WithKeeps, <2>2 DEF AppendTooLong, CallType
  <2>3. CASE CloseSlot(p)
    <3>1. \/ With(p, "probe", [call[p] EXCEPT !.i = @ + 1])
          \/ Return(p, call[p].rc)
          \/ Then(p, "pulse")
      BY <2>3 DEF CloseSlot
    <3>2. QED
      BY ReturnKeeps, ThenKeeps, WithKeeps, <3>1 DEF CallType
  <2>4. CASE \/ SetScrub(p) \/ SetFill(p) \/ SetBlank(p) \/ SetLink(p) \/ AppendExtend(p)
             \/ SetEmbFirst(p) \/ SetEmbSecond(p) \/ PurgeSweep(p) \/ BumpPulse(p)
    BY ThenKeeps, <2>4 DEF SetScrub, SetFill, SetBlank, SetLink, AppendExtend, SetEmbFirst,
                      SetEmbSecond, PurgeSweep, BumpPulse
  <2>5. QED
    BY <1>4, <2>1, <2>2, <2>3, <2>4 DEF Write
<1>5. CASE Publish(p)
  <2>1. CASE Pulse(p)
    <3>1. Return(p, "ok") \/ Then(p, "dirty") \/ Then(p, "epoch")
      BY <2>1 DEF Pulse
    <3>2. QED
      BY ReturnKeeps, ThenKeeps, <3>1
  <2>2. CASE GlobalEpoch(p) \/ NotifySkip(p) \/ NotifyDirty(p) \/ NotifyBell(p)
    BY ReturnKeeps, ThenKeeps, <2>2 DEF GlobalEpoch, NotifySkip, NotifyDirty, NotifyBell
  <2>3. QED
    BY <1>5, <2>1, <2>2 DEF Publish
<1>6. CASE Read(p)
  <2>1. CASE ReadLen(p)
    BY WithKeeps, <2>1 DEF ReadLen, CallType
  <2>2. CASE ReadCopy(p)
    BY WithKeeps, <2>2 DEF ReadCopy, CallType
  <2>3. CASE SnapStart(p)
    BY WithKeeps, <2>3 DEF SnapStart, CallType
  <2>4. CASE SnapEnd(p)
    <3>1. Return(p, "ok") \/ With(p, "found", [call[p] EXCEPT !.end = Slot(p).epoch])
      BY <2>4 DEF SnapEnd
    <3>2. QED
      BY ReturnKeeps, WithKeeps, <3>1 DEF CallType
  <2>5. CASE ReadVerify(p) \/ SnapOdd(p)
    BY ReturnKeeps, <2>5 DEF ReadVerify, SnapOdd
  <2>6. QED
    BY <1>6, <2>1, <2>2, <2>3, <2>4, <2>5 DEF Read
<1>7. CASE Poll(p)
  BY ReturnKeeps, WithKeeps, <1>7 DEF Poll, PollClock, PollMoved, PollTimeout, CallType
<1>8. CASE Unset(p)
  BY ThenKeeps, WithKeeps, <1>8
     DEF Unset, UnsetForget, UnsetWipe, UnsetRewind, UnsetReset, UnsetReopen, CallType
<1>9. CASE Retrain(p)
  BY ThenKeeps, <1>9 DEF Retrain, RetrainOdd, RetrainZero, RetrainEven
<1>10. CASE Mark(p)
  BY ReturnKeeps, ThenKeeps, WithKeeps, <1>10
     DEF Mark, SetLabel, UnsetLabel, PulseKeygroup, WatchRegister, WatchUnregister, CallType
<1>11. CASE Kill(p)
  BY ThenKeeps, <1>11 DEF Kill
<1>12. QED
  BY <1>2, <1>3, <1>4, <1>5, <1>6, <1>7, <1>8, <1>9, <1>10, <1>11 DEF Step

(* A step of a call returns to nobody else, and no call begins. *)
Returning(p) == UNCHANGED left /\ \A q \in Procs \ {p} : ret'[q] = ret[q]

LEMMA StepReturns ==
  ASSUME Typed, NEW p \in Procs, Step(p)
  PROVE  Returning(p)
<1>1. ASSUME NEW rc, Return(p, rc)
      PROVE  Returning(p)
  BY <1>1 DEF Return, Returning, Typed, TypeOK
<1>2. ASSUME NEW l, NEW c, With(p, l, c)
      PROVE  Returning(p)
  BY <1>2 DEF With, Returning
<1>3. ASSUME NEW l, Then(p, l)
      PROVE  Returning(p)
  BY <1>3 DEF Then, Returning
<1>4. CASE Probe(p)
  BY <1>1, <1>2, <1>4 DEF Probe, ProbeHit, ProbeNext, ProbeEnd
<1>5. CASE Enter(p)
  BY <1>1, <1>2, <1>3, <1>5 DEF Enter, LoadOdd, LoadEven, CasWin, CasLose, GiveUpSlot
<1>6. CASE Write(p)
  <2>1. CASE CloseSlot(p)
    <3>1. \/ With(p, "probe", [call[p] EXCEPT !.i = @ + 1])
          \/ Return(p, call[p].rc)
          \/ Then(p, "pulse")
      BY <2>1 DEF CloseSlot
    <3>2. QED
      BY <1>1, <1>2, <1>3, <3>1
  <2>2. QED
    BY <1>2, <1>3, <1>6, <2>1
       DEF Write, SetScrub, SetFill, SetBlank, SetLink, AppendRoom, AppendTooLong, AppendExtend,
           SetEmbFirst, SetEmbSecond, PurgeSweep, BumpPulse
<1>7. CASE Publish(p)
  <2>1. CASE Pulse(p)
    <3>1. Return(p, "ok") \/ Then(p, "dirty") \/ Then(p, "epoch")
      BY <2>1 DEF Pulse
    <3>2. QED
      BY <1>1, <1>3, <3>1
  <2>2. QED
    BY <1>1, <1>3, <1>7, <2>1 DEF Publish, GlobalEpoch, NotifySkip, NotifyDirty, NotifyBell
<1>8. CASE Read(p)
  <2>1. CASE SnapEnd(p)
    <3>1. Return(p, "ok") \/ With(p, "found", [call[p] EXCEPT !.end = Slot(p).epoch])
      BY <2>1 DEF SnapEnd
    <3>2. QED
      BY <1>1, <1>2, <3>1
  <2>2. CASE ReadVerify(p)
    BY <1>1, <2>2 DEF ReadVerify
  <2>3. QED
    BY <1>1, <1>2, <1>8, <2>1, <2>2 DEF Read, ReadLen, ReadCopy, SnapOdd, SnapStart
<1>9. CASE Poll(p)
  BY <1>1, <1>2, <1>9 DEF Poll, PollClock, PollMoved, PollTimeout
<1>10. CASE Unset(p)
  BY <1>2, <1>3, <1>10
     DEF Unset, UnsetForget, UnsetWipe, UnsetRewind, UnsetReset, UnsetReopen
<1>11. CASE Retrain(p)
  BY <1>3, <1>11 DEF Retrain, RetrainOdd, RetrainZero, RetrainEven
<1>12. CASE Mark(p)
  BY <1>1, <1>2, <1>3, <1>12
     DEF Mark, SetLabel, UnsetLabel, PulseKeygroup, WatchRegister, WatchUnregister
<1>13. QED
  BY <1>4, <1>5, <1>6, <1>7, <1>8, <1>9, <1>10, <1>11, <1>12 DEF Step

(* An operation that is only called when nobody else is in the library, and *)
(* keeps the others out, is alone until it returns.                         *)
LEMMA QuietStep ==
  ASSUME RewindsAreQuiet, Typed, QuietAlone, [Next]_vars
  PROVE  QuietAlone'
<1>1. CASE UNCHANGED vars
  BY <1>1 DEF vars, QuietAlone, InCall, Op
<1>2. ASSUME NEW p \in Procs, Step(p) \/ Kill(p)
      PROVE  QuietAlone'
  <2>1. \A q \in Procs : InCall(q)' => InCall(q) /\ Op(q)' = Op(q)
    BY <1>2, StepStays DEF KeepsCall, OthersStay, InCall, Op
  <2>2. QED
    BY <2>1 DEF QuietAlone
<1>3. ASSUME NEW p \in Procs, NEW c \in Calls[p], NEW m \in Lens, Begin(p, c, m)
      PROVE  QuietAlone'
  <2>1. \A q \in Procs \ {p} : InCall(q)' = InCall(q) /\ Op(q)' = Op(q)
    BY <1>3, BeginSilent DEF Silent, OthersStay, InCall, Op
  <2>2. Op(p)' = c.op
    BY <1>3 DEF Begin, Op, Typed, TypeOK, Idle
  <2>3. \A q \in Procs \ {p} : InCall(q) => {c.op, Op(q)} \cap Quiet = {}
    BY <1>3 DEF Begin, InCall
  <2>4. c.op \in Rewinds => c.op \in Quiet
    BY DEF RewindsAreQuiet
  <2>5. QED
    BY <2>1, <2>2, <2>3, <2>4 DEF QuietAlone
<1>4. QED
  BY <1>1, <1>2, <1>3 DEF Next

(* While an operation that stores the epoch outright runs, no other        *)
(* process is in a call.                                                   *)
LEMMA Alone ==
  ASSUME Typed, QuietAlone, NEW p \in Procs, Outright(p),
         NEW q \in Procs \ {p}
  PROVE  pc[q] \in Outside
<1>1. Op(p) \in Rewinds /\ pc[p] \notin Outside
  BY SlotTyped
     DEF Outright, Unset, RetrainOdd, RetrainEven, UnsetForget, UnsetWipe, UnsetRewind,
         UnsetReset, UnsetReopen, Shape, Rewinds, Op, Outside
<1>2. Op(p) \in Quiet
  BY <1>1 DEF QuietAlone, InCall
<1>3. QED
  BY <1>1, <1>2 DEF QuietAlone, InCall

-----------------------------------------------------------------------------
(* The seqlock has one owner *)

(* Only the parity of the epochs and the set of holders matter to it. *)
LEMMA OwnerKept ==
  ASSUME Typed, SeqlockOwner, NEW p \in Procs, Silent(p) \/ InLock(p)
  PROVE  SeqlockOwner'
<1>1. \A q \in Procs, s \in SlotIds : Holds(q, s)' <=> Holds(q, s)
  BY DEF Silent, InLock, OthersStay, Holds, At
<1>2. \A q \in Procs, s \in SlotIds :
        pc[q] = "killed" /\ At(q) = s => (pc[q] = "killed" /\ At(q) = s)'
  BY DEF Silent, InLock, OthersStay, At, Critical
<1>3. \A s \in SlotIds : S'[s].epoch = S[s].epoch
  BY DEF Silent, InLock, SameContent
<1>4. QED
  BY <1>1, <1>2, <1>3 DEF SeqlockOwner

LEMMA OddEven ==
  ASSUME NEW n \in Nat
  PROVE  /\ Odd(n + 1) <=> ~ Odd(n)
         /\ Odd(n + 2) <=> Odd(n)
         /\ ~ Odd(0) /\ Odd(3) /\ ~ Odd(4)
BY DEF Odd

(* The CAS makes the one epoch it read as even odd: there was no holder.   *)
LEMMA OwnerCas ==
  ASSUME Typed, SeqlockOwner, NEW p \in Procs, CasWin(p)
  PROVE  SeqlockOwner'
<1> USE SlotTyped
<1> DEFINE a == At(p)
<1>1. OthersStay(p) /\ pc'[p] = AfterCas(p) /\ call'[p] = call[p] /\ pc[p] = "cas"
  BY ThenStays DEF CasWin
<1>2. AfterCas(p) \in Critical
  BY DEF AfterCas, Critical
<1>3. S[a].epoch \in Nat /\ ~ Odd(S[a].epoch)
  BY DEF CasWin, Slot, SlotType, Shape
<1>4. S'[a].epoch = S[a].epoch + 1 /\ \A s \in SlotIds \ {a} : S'[s] = S[s]
  BY DEF CasWin, Typed, TypeOK, SlotType
<1>5. Odd(S'[a].epoch)
  BY <1>3, <1>4, OddEven
<1>6. \A q \in Procs : ~ Holds(q, a)
  BY <1>3 DEF SeqlockOwner
<1>7. \A q \in Procs \ {p}, s \in SlotIds : Holds(q, s)' <=> Holds(q, s)
  BY <1>1 DEF OthersStay, Holds, At
<1>8. \A s \in SlotIds : ~ Holds(p, s) /\ (Holds(p, s)' <=> s = a)
  BY <1>1, <1>2 DEF Holds, At, Critical
<1>9. \A q \in Procs : pc[q] = "killed" => pc'[q] = "killed" /\ At(q)' = At(q)
  BY <1>1 DEF OthersStay, At
<1>10. QED
  BY <1>4, <1>5, <1>6, <1>7, <1>8, <1>9 DEF SeqlockOwner

(* The owner makes it even again. *)
LEMMA OwnerClose ==
  ASSUME Typed, SeqlockOwner, NEW p \in Procs, CloseSlot(p)
  PROVE  SeqlockOwner'
<1> USE SlotTyped
<1> DEFINE a == At(p)
<1>1. OthersStay(p) /\ pc'[p] \in {"probe", "idle", "pulse"} /\ pc[p] = "close"
  <2>1. \/ With(p, "probe", [call[p] EXCEPT !.i = @ + 1])
        \/ Return(p, call[p].rc)
        \/ Then(p, "pulse")
    BY DEF CloseSlot
  <2>2. QED
    BY <2>1, WithStays, ReturnStays, ThenStays DEF CloseSlot
<1>2. Holds(p, a) /\ Odd(S[a].epoch) /\ S[a].epoch \in Nat
  BY <1>1 DEF Holds, Critical, SeqlockOwner, SlotType, Slot
<1>3. S'[a].epoch = S[a].epoch + 1 /\ \A s \in SlotIds \ {a} : S'[s] = S[s]
  BY DEF CloseSlot, Typed, TypeOK, SlotType
<1>4. ~ Odd(S'[a].epoch)
  BY <1>2, <1>3, OddEven
<1>5. \A q \in Procs \ {p}, s \in SlotIds : Holds(q, s)' <=> Holds(q, s)
  BY <1>1 DEF OthersStay, Holds, At
<1>6. \A s \in SlotIds : ~ Holds(p, s)' /\ (Holds(p, s) => s = a)
  BY <1>1 DEF Holds, Critical
<1>7. \A q \in Procs : pc[q] = "killed" => pc'[q] = "killed" /\ At(q)' = At(q)
  BY <1>1 DEF OthersStay, At
<1>8. \A q \in Procs \ {p} : ~ Holds(q, a)
  BY <1>2 DEF SeqlockOwner
<1>9. QED
  BY <1>3, <1>4, <1>5, <1>6, <1>7, <1>8 DEF SeqlockOwner

(* unset and retrain, alone in the library, meet no owner. *)
LEMMA OwnerOutright ==
  ASSUME Typed, QuietAlone, SeqlockOwner,
         NEW p \in Procs, Outright(p)
  PROVE  SeqlockOwner'
<1> USE SlotTyped
<1> DEFINE a == At(p)
<1>1. OthersStay(p) /\ \A s \in SlotIds \ {a} : S'[s] = S[s]
  <2>1. OthersStay(p)
    BY ThenStays, WithStays
       DEF Outright, Unset, RetrainOdd, RetrainEven, UnsetForget, UnsetWipe, UnsetRewind,
           UnsetReset, UnsetReopen
  <2>2. \A s \in SlotIds \ {a} : S'[s] = S[s]
    BY DEF Outright, Unset, RetrainOdd, RetrainEven, UnsetForget, UnsetWipe, UnsetRewind,
           UnsetReset, UnsetReopen, Typed, TypeOK
  <2>3. QED
    BY <2>1, <2>2
<1>2. \A q \in Procs \ {p}, s \in SlotIds : ~ Holds(q, s) /\ ~ Holds(q, s)'
  BY <1>1, Alone DEF OthersStay, Holds, Outside, Critical
<1>3. \A q \in Procs : pc[q] = "killed" => pc'[q] = "killed" /\ At(q)' = At(q)
  BY <1>1, StepStays DEF OthersStay, At, Outside, Outright, Step, Unset, Retrain
<1>4. S \in [SlotIds -> SlotType] /\ a \in SlotIds /\ S[a].epoch \in Nat
  BY DEF Typed, TypeOK, SlotType
<1>5. CASE Unset(p)
  <2>1. pc[p] \notin Critical /\ pc'[p] \notin Critical
    BY <1>5, ThenStays, WithStays
       DEF Unset, UnsetForget, UnsetWipe, UnsetRewind, UnsetReset, UnsetReopen, Critical
  <2>2. Odd(S'[a].epoch) => Odd(S[a].epoch)
    <3>1. CASE UnsetForget(p)
      BY <1>4, <3>1 DEF UnsetForget, SlotType
    <3>2. CASE UnsetWipe(p)
      BY <1>4, <3>2 DEF UnsetWipe, SlotType
    <3>3. CASE UnsetRewind(p)
      BY <1>4, <3>3, OddEven DEF UnsetRewind, SlotType
    <3>4. CASE UnsetReset(p)
      BY <1>4, <3>4 DEF UnsetReset, SlotType
    <3>5. CASE UnsetReopen(p)
      BY <1>4, <3>5, OddEven DEF UnsetReopen, SlotType
    <3>6. QED
      BY <1>5, <3>1, <3>2, <3>3, <3>4, <3>5 DEF Unset
  <2>3. \A s \in SlotIds : ~ Holds(p, s) /\ ~ Holds(p, s)'
    BY <2>1 DEF Holds
  <2>4. QED
    BY <1>1, <1>2, <1>3, <2>2, <2>3 DEF SeqlockOwner
<1>6. CASE RetrainOdd(p)
  <2>1. pc'[p] = "zeroemb" /\ At(p)' = a /\ pc[p] = "found"
    BY <1>6, ThenStays DEF RetrainOdd, At
  <2>2. S'[a].epoch = 3
    BY <1>4, <1>6 DEF RetrainOdd, SlotType
  <2>3. \A s \in SlotIds : ~ Holds(p, s) /\ (Holds(p, s)' <=> s = a)
    BY <2>1 DEF Holds, Critical
  <2>4. Odd(S'[a].epoch)
    BY <2>2, OddEven
  <2>5. QED
    BY <1>1, <1>2, <1>3, <2>3, <2>4 DEF SeqlockOwner
<1>7. CASE RetrainEven(p)
  <2>1. pc'[p] = "pulse" /\ pc[p] = "even4"
    BY <1>7, ThenStays DEF RetrainEven
  <2>2. S'[a].epoch = 4
    BY <1>4, <1>7 DEF RetrainEven, SlotType
  <2>3. \A s \in SlotIds : ~ Holds(p, s)' /\ (Holds(p, s) => s = a)
    BY <2>1 DEF Holds, Critical
  <2>4. ~ Odd(S'[a].epoch)
    BY <2>2, OddEven
  <2>5. QED
    BY <1>1, <1>2, <1>3, <2>3, <2>4 DEF SeqlockOwner
<1>8. QED
  BY <1>5, <1>6, <1>7 DEF Outright

(* A process killed in a seqlock is the one who left the epoch odd. *)
LEMMA OwnerKill ==
  ASSUME Typed, SeqlockOwner, NEW p \in Procs, Kill(p)
  PROVE  SeqlockOwner'
<1>1. OthersStay(p) /\ call'[p] = call[p] /\ UNCHANGED S /\ pc[p] # "killed"
      /\ pc'[p] = IF pc[p] \in Critical THEN "killed" ELSE "dead"
  BY ThenStays DEF Kill, Outside
<1>2. \A q \in Procs \ {p}, s \in SlotIds : Holds(q, s)' <=> Holds(q, s)
  BY <1>1 DEF OthersStay, Holds, At
<1>3. \A s \in SlotIds : ~ Holds(p, s)' /\ (Holds(p, s) => pc'[p] = "killed" /\ At(p)' = s)
  BY <1>1 DEF Holds, Critical, At
<1>4. \A q \in Procs : pc[q] = "killed" => pc'[q] = "killed" /\ At(q)' = At(q)
  BY <1>1 DEF OthersStay, At
<1>5. QED
  BY <1>1, <1>2, <1>3, <1>4 DEF SeqlockOwner

LEMMA OwnerStep ==
  ASSUME Typed, QuietAlone, SeqlockOwner, [Next]_vars
  PROVE  SeqlockOwner'
<1>1. CASE UNCHANGED vars
  BY <1>1 DEF vars, SeqlockOwner, Holds, At
<1>2. ASSUME NEW p \in Procs, Step(p)
      PROVE  SeqlockOwner'
  BY <1>2, Sorted, OwnerKept, OwnerCas, OwnerClose, OwnerOutright
<1>3. QED
  BY <1>1, <1>2, BeginSilent, OwnerKept, OwnerKill DEF Next

(* Where no epoch is stored outright, epochs grow, the content of a slot   *)
(* only changes under an odd epoch, and then by its owner.                 *)
LEMMA ContentMoves ==
  ASSUME Typed, Typed', SeqlockOwner, NEW p \in Procs, Step(p), Op(p) \notin Rewinds,
         NEW s \in SlotIds
  PROVE  /\ S[s].epoch \in Nat /\ S'[s].epoch \in Nat /\ S[s].epoch <= S'[s].epoch
         /\ S'[s].epoch = S[s].epoch /\ ~ Odd(S[s].epoch) => SameContent(s)
         /\ \A q \in Procs \ {p} : Holds(q, s) => SameContent(s)
<1> USE SlotTyped
<1>1. S[s].epoch \in Nat /\ S'[s].epoch \in Nat
  BY DEF Typed, TypeOK, SlotType
<1>2. CASE Silent(p)
  BY <1>1, <1>2 DEF Silent, SameContent
<1>3. CASE InLock(p)
  <2>1. s = At(p) => Odd(S[s].epoch)
    BY <1>3 DEF InLock, SeqlockOwner, Holds
  <2>2. \A q \in Procs \ {p} : Holds(q, s) => s # At(p)
    BY <1>3 DEF InLock, SeqlockOwner, Holds
  <2>3. QED
    BY <1>1, <1>3, <2>1, <2>2 DEF InLock
<1>4. CASE CasWin(p) \/ CloseSlot(p)
  <2>1. s # At(p) => S'[s] = S[s]
    BY <1>4 DEF CasWin, CloseSlot, Typed, TypeOK
  <2>2. s = At(p) => S'[s].epoch = S[s].epoch + 1
    BY <1>4 DEF CasWin, CloseSlot, Typed, TypeOK, SlotType
  <2>3. ASSUME NEW q \in Procs \ {p}, Holds(q, s)
        PROVE  s # At(p)
    <3>1. CASE CasWin(p)
      <4>1. Odd(S[s].epoch)
        BY <2>3 DEF SeqlockOwner
      <4>2. ~ Odd(call[p].e) /\ Slot(p).epoch = call[p].e
        BY <3>1 DEF CasWin, Shape
      <4>3. QED
        BY <4>1, <4>2 DEF Slot
    <3>2. CASE CloseSlot(p)
      BY <2>3, <3>2 DEF CloseSlot, SeqlockOwner, Holds, Critical
    <3>3. QED
      BY <1>4, <3>1, <3>2
  <2>4. QED
    BY <1>1, <2>1, <2>2, <2>3 DEF SameContent
<1>5. CASE Outright(p)
  BY <1>5 DEF Outright, Unset, RetrainOdd, RetrainEven, UnsetForget, UnsetWipe, UnsetRewind,
              UnsetReset, UnsetReopen, Shape, Rewinds, Op, Outside
<1>6. QED
  BY <1>2, <1>3, <1>4, <1>5, Sorted

LEMMA OwnerInit == Init => SeqlockOwner /\ QuietAlone
<1> SUFFICES ASSUME Init
             PROVE  SeqlockOwner /\ QuietAlone
  OBVIOUS
<1>1. \A p \in Procs : pc[p] = "idle"
  BY DEF Init
<1>2. ASSUME NEW s \in SlotIds
      PROVE  ~ Odd(S[s].epoch)
  <2>1. S[s].epoch \in {0, 2}
    BY DEF Init, Empty, Stored
  <2>2. QED
    BY <2>1 DEF Odd
<1>3. QED
  BY <1>1, <1>2 DEF SeqlockOwner, QuietAlone, Holds, Critical, InCall, Outside

-----------------------------------------------------------------------------
(* What a reader has copied is what its slot holds, unless the epoch moved *)

LEMMA EpochOrder ==
  ASSUME NEW m \in Nat, NEW n \in Nat, m <= n
  PROVE  m <= n + 1 /\ m # n + 1
BY DEF Odd

(* A reader is not disturbed by a step that leaves its slot's content, *)
LEMMA CopyKept ==
  ASSUME NEW q \in Procs, CopyExact(q), pc'[q] = pc[q], call'[q] = call[q],
         SameContent(At(q))
  PROVE  CopyExact(q)'
BY DEF CopyExact, SameContent, Slot, At, Op, Source

(* nor by one that moves its epoch forward, or that writes under an odd one. *)
LEMMA CopyMoved ==
  ASSUME NEW q \in Procs, CopyExact(q), pc'[q] = pc[q], call'[q] = call[q],
         call[q].e \in Nat, S'[At(q)].epoch \in Nat, S[At(q)].epoch \in Nat,
         S'[At(q)].epoch >= S[At(q)].epoch,
         S'[At(q)].epoch # call[q].e
  PROVE  CopyExact(q)'
BY DEF CopyExact, Slot, At, Op

LEMMA OthersExact ==
  ASSUME Typed, Typed', QuietAlone, SeqlockOwner, ReaderExact,
         NEW p \in Procs, Step(p) \/ Kill(p), NEW q \in Procs \ {p}
  PROVE  CopyExact(q)'
<1> USE SlotTyped
<1> DEFINE s == At(q)
<1>1. CopyExact(q) /\ s \in SlotIds
  BY DEF ReaderExact
<1>2. pc'[q] = pc[q] /\ call'[q] = call[q]
  BY StepStays DEF KeepsCall, OthersStay
<1>3. S[s].epoch \in Nat /\ S'[s].epoch \in Nat /\ call[q].e \in Nat
  BY <1>1 DEF Typed, TypeOK, SlotType, CallType
<1>4. CASE ~ (Op(q) \in {"get", "getemb"} /\ pc[q] \in {"len", "copy"})
  BY <1>2, <1>4 DEF CopyExact, Op
<1>5. CASE Op(q) \in {"get", "getemb"} /\ pc[q] \in {"len", "copy"}
  <2>1. ~ Odd(call[q].e) /\ call[q].e <= S[s].epoch
    BY <1>1, <1>5 DEF CopyExact, Slot
  <2>2. CASE Silent(p) \/ Kill(p)
    <3>1. SameContent(s)
      BY <1>1, <2>2 DEF Silent, Kill, SameContent
    <3>2. QED
      BY <1>1, <1>2, <3>1, CopyKept
  <2>3. CASE InLock(p)
    <3>1. CASE s = At(p)
      <4>1. Odd(S[s].epoch) /\ S'[s].epoch = S[s].epoch
        BY <1>1, <2>3, <3>1 DEF InLock, SeqlockOwner, Holds
      <4>2. S'[s].epoch # call[q].e
        BY <2>1, <4>1
      <4>3. QED
        BY <1>1, <1>2, <1>3, <4>1, <4>2, CopyMoved
    <3>2. CASE s # At(p)
      BY <1>1, <1>2, <2>3, <3>2, CopyKept DEF InLock
    <3>3. QED
      BY <3>1, <3>2
  <2>4. CASE CasWin(p) \/ CloseSlot(p)
    <3>1. CASE s = At(p)
      <4>1. S'[s].epoch = S[s].epoch + 1
        BY <1>1, <2>4, <3>1 DEF CasWin, CloseSlot, Typed, TypeOK, SlotType
      <4>2. S'[s].epoch >= S[s].epoch /\ S'[s].epoch # call[q].e
        BY <1>3, <2>1, <4>1, EpochOrder
      <4>3. QED
        BY <1>1, <1>2, <1>3, <4>2, CopyMoved
    <3>2. CASE s # At(p)
      <4>1. S'[s] = S[s]
        BY <1>1, <2>4, <3>2 DEF CasWin, CloseSlot, Typed, TypeOK
      <4>2. QED
        BY <1>1, <1>2, <4>1, CopyKept DEF SameContent
    <3>3. QED
      BY <3>1, <3>2
  <2>5. CASE Outright(p)
    BY <1>5, <2>5, Alone DEF Outside
  <2>6. QED
    BY <2>2, <2>3, <2>4, <2>5, Sorted
<1>6. QED
  BY <1>4, <1>5

(* The reader's own steps: it loads the epoch, then val_len, then the cells. *)
LEMMA OwnExact ==
  ASSUME Typed, Typed', ReaderExact, NEW p \in Procs, Step(p) \/ Kill(p)
  PROVE  CopyExact(p)'
<1> USE SlotTyped
<1> SUFFICES ASSUME Op(p)' \in {"get", "getemb"}, pc'[p] \in {"len", "copy"}
             PROVE  CopyExact(p)'
  BY DEF CopyExact
<1>1. call'[p].op = call[p].op
  BY StepStays DEF KeepsCall, Outside
<1>2. CopyExact(p)
  BY DEF ReaderExact
<1>3. CASE LoadEven(p)
  <2> DEFINE c == [call[p] EXCEPT !.e = Slot(p).epoch]
  <2>1. call'[p] = c /\ c.e = Slot(p).epoch /\ c.buf = call[p].buf /\ At(p)' = At(p)
        /\ c.n = call[p].n /\ pc'[p] = AfterLoad(p)
    BY <1>3, WithStays DEF LoadEven, CallType, At
  <2>2. call[p].buf = << >> /\ UNCHANGED S /\ ~ Odd(Slot(p).epoch)
    BY <1>1, <1>3 DEF LoadEven, Shape, Op
  <2>3. ~ (pc'[p] = "copy" /\ Op(p)' = "get")
    BY <1>1, <2>1 DEF AfterLoad, Op
  <2>4. Slot(p)' = Slot(p) /\ Slot(p).epoch \in Nat
    BY <2>1, <2>2 DEF Slot, SlotType
  <2>5. Len(c.buf) = 0
    BY <2>1, <2>2
  <2>6. QED
    BY <2>1, <2>2, <2>3, <2>4, <2>5 DEF CopyExact
<1>4. CASE ReadLen(p)
  <2> DEFINE c == [call[p] EXCEPT !.n = Slot(p).val_len]
  <2>1. call'[p] = c /\ c.e = call[p].e /\ c.buf = call[p].buf /\ At(p)' = At(p)
        /\ c.n = Slot(p).val_len
    BY <1>4, WithStays DEF ReadLen, CallType, At
  <2>2. call[p].buf = << >> /\ UNCHANGED S /\ pc[p] = "len" /\ Op(p) = Op(p)'
    BY <1>1, <1>4 DEF ReadLen, Shape, Op
  <2>3. Slot(p)' = Slot(p)
    BY <2>1, <2>2 DEF Slot
  <2>4. Len(c.buf) = 0
    BY <2>1, <2>2
  <2>5. QED
    BY <1>2, <2>1, <2>2, <2>3, <2>4 DEF CopyExact
<1>5. CASE ReadCopy(p)
  <2> DEFINE b == call[p].buf
             x == Source(p)[Len(b) + 1]
             c == [call[p] EXCEPT !.buf = Append(@, x)]
  <2>1. call'[p] = c /\ c.e = call[p].e /\ c.buf = Append(b, x) /\ At(p)' = At(p)
        /\ c.n = call[p].n /\ c.op = call[p].op
    BY <1>5, WithStays DEF ReadCopy, CallType, At
  <2>2. UNCHANGED S /\ pc[p] = "copy" /\ pc'[p] = "copy" /\ Op(p) = Op(p)'
    BY <1>1, <1>5, WithStays DEF ReadCopy, Op
  <2>3. Slot(p)' = Slot(p) /\ Source(p)' = Source(p)
    BY <2>1, <2>2 DEF Slot, Source
  <2>4. b \in Seq(Cell)
    BY DEF CallType
  <2>5. /\ Len(c.buf) = Len(b) + 1
        /\ c.buf[Len(b) + 1] = x
        /\ \A i \in 1 .. Len(b) : c.buf[i] = b[i]
    BY <2>1, <2>4
  <2>6. ASSUME call[p].e = Slot(p).epoch, NEW i \in 1 .. Len(c.buf)
        PROVE  c.buf[i] = Source(p)[i]
    <3>1. Len(b) \in Nat
      BY <2>4
    <3>2. i \in 1 .. Len(b) \/ i = Len(b) + 1
      BY <2>5, <3>1
    <3>3. \A j \in 1 .. Len(b) : b[j] = Source(p)[j]
      BY <1>1, <1>2, <2>2, <2>6 DEF CopyExact
    <3>4. QED
      BY <2>5, <3>2, <3>3
  <2>7. QED
    BY <1>2, <2>1, <2>2, <2>3, <2>6 DEF CopyExact
<1>6. LoadEven(p) \/ ReadLen(p) \/ ReadCopy(p)
  <2>1. ~ Probe(p)
    BY WithStays, ReturnStays DEF Probe, ProbeHit, ProbeNext, ProbeEnd
  <2>2. ~ LoadOdd(p) /\ ~ CasLose(p)
    BY GiveUpStays DEF LoadOdd, CasLose
  <2>3. ~ CasWin(p)
    BY ThenStays DEF CasWin, AfterCas
  <2>4. ~ Write(p)
    <3>1. CASE CloseSlot(p)
      <4>1. \/ With(p, "probe", [call[p] EXCEPT !.i = @ + 1])
            \/ Return(p, call[p].rc)
            \/ Then(p, "pulse")
        BY <3>1 DEF CloseSlot
      <4>2. QED
        BY <4>1, WithStays, ReturnStays, ThenStays
    <3>2. CASE Write(p) /\ ~ CloseSlot(p)
      BY <3>2, WithStays, ThenStays
         DEF Write, SetScrub, SetFill, SetBlank, SetLink, AppendRoom, AppendTooLong, AppendExtend,
             SetEmbFirst, SetEmbSecond, PurgeSweep, BumpPulse
    <3>3. QED
      BY <3>1, <3>2
  <2>5. ~ Publish(p)
    <3>1. CASE Pulse(p)
      <4>1. Return(p, "ok") \/ Then(p, "dirty") \/ Then(p, "epoch")
        BY <3>1 DEF Pulse
      <4>2. QED
        BY <4>1, ReturnStays, ThenStays
    <3>2. CASE Publish(p) /\ ~ Pulse(p)
      BY <3>2, ReturnStays, ThenStays
         DEF Publish, GlobalEpoch, NotifySkip, NotifyDirty, NotifyBell
    <3>3. QED
      BY <3>1, <3>2
  <2>6. ~ ReadVerify(p) /\ ~ SnapOdd(p)
    BY ReturnStays DEF ReadVerify, SnapOdd
  <2>7. ~ SnapStart(p)
    BY <1>1 DEF SnapStart, Op
  <2>8. ~ SnapEnd(p)
    BY <1>1 DEF SnapEnd, Op
  <2>9. ~ Poll(p)
    BY WithStays, ReturnStays DEF Poll, PollClock, PollMoved, PollTimeout
  <2>10. ~ Unset(p) /\ ~ Retrain(p)
    BY WithStays, ThenStays
       DEF Unset, UnsetForget, UnsetWipe, UnsetRewind, UnsetReset, UnsetReopen,
           Retrain, RetrainOdd, RetrainZero, RetrainEven
  <2>11. ~ Mark(p)
    BY WithStays, ReturnStays, ThenStays
       DEF Mark, SetLabel, UnsetLabel, PulseKeygroup, WatchRegister, WatchUnregister
  <2>12. ~ Kill(p)
    BY ThenStays DEF Kill
  <2>13. QED
    BY <2>1, <2>2, <2>3, <2>4, <2>5, <2>6, <2>7, <2>8, <2>9, <2>10, <2>11, <2>12
       DEF Step, Enter, Read
<1>7. QED
  BY <1>3, <1>4, <1>5, <1>6

LEMMA ReaderStep ==
  ASSUME Typed, Typed', QuietAlone, SeqlockOwner, ReaderExact,
         [Next]_vars
  PROVE  ReaderExact'
<1>1. CASE UNCHANGED vars
  BY <1>1 DEF vars, ReaderExact, CopyExact, Slot, At, Op, Source
<1>2. ASSUME NEW p \in Procs, Step(p) \/ Kill(p)
      PROVE  ReaderExact'
  BY <1>2, OwnExact, OthersExact DEF ReaderExact
<1>3. ASSUME NEW p \in Procs, NEW c \in Calls[p], NEW m \in Lens, Begin(p, c, m)
      PROVE  ReaderExact'
  <2>1. Silent(p) /\ pc'[p] = "probe"
    BY <1>3, BeginSilent DEF Begin, Goto, Typed, TypeOK
  <2>2. ASSUME NEW q \in Procs \ {p}
        PROVE  CopyExact(q)'
    BY <2>1, SlotTyped, CopyKept DEF Silent, OthersStay, ReaderExact
  <2>3. CopyExact(p)'
    BY <2>1 DEF CopyExact
  <2>4. QED
    BY <2>2, <2>3 DEF ReaderExact
<1>4. QED
  BY <1>1, <1>2, <1>3 DEF Next

-----------------------------------------------------------------------------
(* The theorems *)

LEMMA InvariantStep ==
  ASSUME RewindsAreQuiet, IInv, [Next]_vars
  PROVE  IInv'
<1>1. Typed /\ Typed'
  BY TypedStep DEF IInv, Typed
<1>2. QED
  BY <1>1, QuietStep, OwnerStep, ReaderStep DEF IInv, Typed

(* The same for a process whose calls are not those of Calls. *)
LEMMA SameInvariant ==
  ASSUME IInv, UNCHANGED vars
  PROVE  IInv'
<1>1. Typed /\ Typed'
  BY TypedStep DEF IInv, Typed
<1>2. QuietAlone'
  BY DEF vars, IInv, QuietAlone, InCall, Op
<1>3. QED
  BY <1>1, <1>2, OwnerStep, ReaderStep DEF IInv, Typed

LEMMA StepInvariant ==
  ASSUME IInv, NEW p \in Procs, Step(p)
  PROVE  IInv'
<1>1. [Next]_vars
  BY DEF Next
<1>2. Typed /\ Typed'
  BY <1>1, TypedStep DEF IInv, Typed
<1>3. \A q \in Procs : InCall(q)' => InCall(q) /\ Op(q)' = Op(q)
  BY <1>2, StepStays DEF KeepsCall, OthersStay, InCall, Op
<1>4. QuietAlone'
  BY <1>3 DEF IInv, QuietAlone
<1>5. QED
  BY <1>1, <1>2, <1>4, OwnerStep, ReaderStep DEF IInv, Typed

LEMMA BeginInvariant ==
  ASSUME IInv, NEW p \in Procs, NEW c \in [op : OpNames, key : Keys], NEW m \in Length,
         Begin(p, c, m), c.op \in Rewinds => c.op \in Quiet
  PROVE  IInv'
<1>1. Typed /\ Typed'
  BY BeginTyped DEF IInv, Typed
<1>2. Silent(p) /\ pc'[p] = "probe" /\ Op(p)' = c.op
  BY <1>1, BeginSilent DEF Begin, Goto, Op, Typed, TypeOK, Idle
<1>3. QuietAlone'
  <2>1. \A q \in Procs \ {p} : InCall(q)' = InCall(q) /\ Op(q)' = Op(q)
    BY <1>2 DEF Silent, OthersStay, InCall, Op
  <2>2. \A q \in Procs \ {p} : InCall(q) => {c.op, Op(q)} \cap Quiet = {}
    BY DEF Begin, InCall
  <2>3. QED
    BY <1>2, <2>1, <2>2 DEF IInv, QuietAlone
<1>4. SeqlockOwner'
  BY <1>1, <1>2, OwnerKept DEF IInv
<1>5. ReaderExact'
  <2>1. \A q \in Procs \ {p} : CopyExact(q)'
    BY <1>1, <1>2, SlotTyped, CopyKept DEF Silent, OthersStay, IInv, ReaderExact
  <2>2. CopyExact(p)'
    BY <1>2 DEF CopyExact
  <2>3. QED
    BY <2>1, <2>2 DEF ReaderExact
<1>6. QED
  BY <1>1, <1>3, <1>4, <1>5 DEF IInv, Typed

LEMMA InvariantInit == Init => IInv
<1>1. Init => ReaderExact
  BY DEF Init, ReaderExact, CopyExact
<1>2. QED
  BY <1>1, TypedInit, OwnerInit DEF IInv, Typed

(* The invariant behind the two theorems that follow is inductive when     *)
(* unset and retrain, which store the epoch without a CAS, are only called *)
(* while nobody else is in the library.                                    *)
THEOREM InvariantHolds ==
  ASSUME RewindsAreQuiet
  PROVE  Spec => []IInv
<1>1. Init => IInv
  BY InvariantInit
<1>2. IInv /\ [Next]_vars => IInv'
  BY InvariantStep
<1>3. QED
  BY <1>1, <1>2, PTL DEF Spec

(* Then a slot is never written by two processes at once, its epoch is odd *)
(* exactly while it is written, and only a killed writer leaves it odd.    *)
THEOREM SeqlockExclusive ==
  ASSUME RewindsAreQuiet
  PROVE  Spec => []SeqlockOwner
<1>1. IInv => SeqlockOwner
  BY DEF IInv
<1>2. QED
  BY <1>1, InvariantHolds, PTL

(* An odd epoch means that a writer is active: once every process has left  *)
(* the library, and none was killed in it, no slot is stuck.               *)
THEOREM NoSlotLeftOdd ==
  ASSUME RewindsAreQuiet
  PROVE  Spec => []NoStuckSlot
<1>1. IInv => NoStuckSlot
  BY DEF IInv, SeqlockOwner, NoStuckSlot, Holds, Critical
<1>2. QED
  BY <1>1, InvariantHolds, PTL

(* A get or get_embedding returns 0 by verifying the epoch: no other step   *)
(* returns "ok" from them.                                                  *)
LEMMA ReturnCode ==
  ASSUME Typed, NEW p \in Procs, NEW rc, Return(p, rc)
  PROVE  ret'[p].rc = rc /\ ret'[p].buf = call[p].buf
BY DEF Typed, TypeOK, Return

LEMMA OnlyVerified ==
  ASSUME Typed, NEW p \in Procs, [Next]_vars, Op(p) \in {"get", "getemb"},
         Returns(p, Op(p), "ok")
  PROVE  ReadVerify(p) /\ Slot(p).epoch = call[p].e
<1> USE SlotTyped
<1>1. pc[p] # "idle" /\ pc'[p] = "idle" /\ ret'[p].rc = "ok"
  BY DEF Returns
<1>2. Step(p)
  <2>1. Next
    BY <1>1 DEF vars
  <2>2. PICK q \in Procs : \/ \E c \in Calls[q], m \in Lens : Begin(q, c, m)
                           \/ Step(q)
                           \/ Kill(q)
    BY <2>1 DEF Next
  <2>3. OthersStay(q)
    BY <2>2, BeginSilent, StepStays DEF Silent, KeepsCall
  <2>4. q = p
    BY <1>1, <2>3 DEF OthersStay
  <2>5. ASSUME NEW c, NEW m, Begin(p, c, m)
        PROVE  FALSE
    BY <1>1, <2>5 DEF Begin
  <2>6. ~ Kill(p)
    BY <1>1, ThenStays DEF Kill
  <2>7. QED
    BY <2>2, <2>4, <2>5, <2>6
<1>3. ~ Probe(p)
  <2>1. ~ ProbeHit(p) /\ ~ ProbeNext(p)
    BY <1>1, WithStays DEF ProbeHit, ProbeNext
  <2>2. ~ ProbeEnd(p)
    <3>1. ASSUME Return(p, "miss")
          PROVE  FALSE
      BY <1>1, <3>1, ReturnCode
    <3>2. QED
      BY <3>1 DEF ProbeEnd
  <2>3. QED
    BY <2>1, <2>2 DEF Probe
<1>4. ~ Enter(p)
  <2>1. ASSUME GiveUpSlot(p)
        PROVE  FALSE
    BY <1>1, <2>1, ReturnCode DEF GiveUpSlot
  <2>2. ~ LoadEven(p)
    <3>1. AfterLoad(p) # "idle"
      BY DEF AfterLoad
    <3>2. QED
      BY <1>1, <3>1, WithStays DEF LoadEven
  <2>3. ~ CasWin(p)
    BY <1>1, ThenStays DEF CasWin, AfterCas
  <2>4. QED
    BY <2>1, <2>2, <2>3 DEF Enter, LoadOdd, CasLose
<1>5. ~ Write(p)
  <2>1. ASSUME pc[p] \in Critical \ {"zeroemb", "even4"}
        PROVE  FALSE
    BY <2>1 DEF Shape, LockOps, Op
  <2>2. QED
    BY <2>1 DEF Write, SetScrub, SetFill, SetBlank, SetLink, AppendRoom, AppendTooLong, AppendExtend,
                SetEmbFirst, SetEmbSecond, PurgeSweep, BumpPulse, CloseSlot, Critical
<1>6. ~ Publish(p)
  BY DEF Publish, Pulse, GlobalEpoch, NotifySkip, NotifyDirty, NotifyBell, Shape, ReadOps, Op
<1>7. ~ Poll(p) /\ ~ Unset(p) /\ ~ Retrain(p)
  BY DEF Poll, PollClock, PollMoved, PollTimeout, Unset, UnsetForget, UnsetWipe, UnsetRewind,
         UnsetReset, UnsetReopen, Retrain, RetrainOdd, RetrainZero, RetrainEven, Shape, Op
<1>8. ~ Mark(p)
  BY DEF Mark, SetLabel, UnsetLabel, PulseKeygroup, WatchRegister, WatchUnregister, Op
<1>9. Read(p)
  BY <1>2, <1>3, <1>4, <1>5, <1>6, <1>7, <1>8 DEF Step
<1>10. ~ SnapOdd(p) /\ ~ SnapStart(p) /\ ~ SnapEnd(p)
  BY DEF SnapOdd, SnapStart, SnapEnd, Op
<1>11. ~ ReadLen(p) /\ ~ ReadCopy(p)
  BY <1>1, WithStays DEF ReadLen, ReadCopy
<1>12. ReadVerify(p)
  BY <1>9, <1>10, <1>11 DEF Read
<1>13. ASSUME Slot(p).epoch # call[p].e
       PROVE  FALSE
  <2>1. Return(p, "busy")
    BY <1>12, <1>13 DEF ReadVerify
  <2>2. QED
    BY <1>1, <2>1, ReturnCode
<1>14. QED
  BY <1>12, <1>13

LEMMA VerifiedExact ==
  ASSUME IInv, NEW p \in Procs, [Next]_vars, Op(p) \in {"get", "getemb"},
         Returns(p, Op(p), "ok")
  PROVE  /\ Op(p) = "get" => Copies(ret'[p].buf, Slot(p).val, Slot(p).val_len)
         /\ Op(p) = "getemb" => Copies(ret'[p].buf, Slot(p).embedding, 2)
<1>1. Typed
  BY DEF IInv, Typed
<1>2. ReadVerify(p) /\ Slot(p).epoch = call[p].e
  BY <1>1, OnlyVerified
<1>3. ret'[p].buf = call[p].buf
  BY <1>1, <1>2, ReturnCode DEF ReadVerify
<1>4. CopyExact(p)
  BY DEF IInv, ReaderExact
<1>5. \A c \in 1 .. Len(call[p].buf) : call[p].buf[c] = Source(p)[c]
  BY <1>2, <1>4 DEF CopyExact, ReadVerify
<1>6. CASE Op(p) = "get"
  <2>1. Len(call[p].buf) = Slot(p).val_len
    BY <1>2, <1>4, <1>6 DEF CopyExact, ReadVerify, Wanted
  <2>2. QED
    BY <1>3, <1>5, <1>6, <2>1 DEF Copies, Source
<1>7. CASE Op(p) = "getemb"
  <2>1. Len(call[p].buf) = 2
    BY <1>2, <1>7 DEF ReadVerify, Wanted
  <2>2. QED
    BY <1>3, <1>5, <1>7, <2>1 DEF Copies, Source
<1>8. QED
  BY <1>6, <1>7

(* And a get, or a get_embedding, that returns 0 returns exactly what the  *)
(* slot holds at that moment: no torn value, no length of one write with   *)
(* the bytes of another.                                                   *)
THEOREM ReadsAreExact ==
  ASSUME RewindsAreQuiet
  PROVE  Spec => ReadExact
<1> DEFINE Exact(p) ==
      /\ Returns(p, "get", "ok") => Copies(ret'[p].buf, Slot(p).val, Slot(p).val_len)
      /\ Returns(p, "getemb", "ok") => Copies(ret'[p].buf, Slot(p).embedding, 2)
<1>1. IInv /\ [Next]_vars => \A p \in Procs : Exact(p)
  <2> SUFFICES ASSUME IInv, [Next]_vars, NEW p \in Procs
               PROVE  Exact(p)
    OBVIOUS
  <2>1. ASSUME NEW op \in {"get", "getemb"}, Returns(p, op, "ok")
        PROVE  Op(p) = op /\ Returns(p, Op(p), "ok")
    BY <2>1 DEF Returns
  <2>2. QED
    BY <2>1, VerifiedExact
<1>2. IInv /\ [Next]_vars => [\A p \in Procs : Exact(p)]_vars
  BY <1>1
<1>3. QED
  BY <1>2, InvariantHolds, PTL DEF Spec, ReadExact


-----------------------------------------------------------------------------
(* The slot table implements AtomicSlots. *)

(* What a slot holds for its readers stays. *)
SameCells(s) ==
  /\ S'[s].hash = S[s].hash /\ S'[s].val_len = S[s].val_len
  /\ S'[s].val = S[s].val /\ S'[s].embedding = S[s].embedding

After == {"pulse", "epoch", "dirty", "bell"}   \* the effect is done, and is published

(* Outside every seqlock, p goes on in its call and changes no slot; *)
Roams(p) ==
  /\ OthersStay(p) /\ UNCHANGED << left, ret >>
  /\ pc[p] \notin Outside \cup Critical /\ pc'[p] \notin Outside \cup Critical
  /\ \A s \in SlotIds : SameCells(s)
  /\ call'[p].op = call[p].op /\ call'[p].key = call[p].key /\ call'[p].rc = call[p].rc
  /\ Op(p) \in {"set", "append"} => call'[p].n = call[p].n
  /\ Op(p) \in LockOps => (pc[p] \in After <=> pc'[p] \in After)
  /\ \/ pc'[p] = "probe"
     \/ Candidate(p, At(p)')
     \/ pc[p] # "probe" /\ call'[p].slot = call[p].slot

(* or it returns: it has done what it says, or given up, or verified what  *)
(* it read. *)
Ends(p, rc) ==
  \/ Op(p) \in LockOps /\ pc[p] \in After /\ rc = "ok"
  \/ Op(p) = "purge" /\ rc = "ok"
  \/ Op(p) # "purge" /\ pc[p] \notin After /\ rc \in {"busy", "nospace", "miss"}
  \/ Op(p) \in LabelOps \cup {"snapshot", "poll"} /\ rc \in {"ok", "timeout"}
  \/ /\ Op(p) \in {"get", "getemb"} /\ pc[p] = "copy" /\ rc = "ok"
     /\ Len(call[p].buf) = Wanted(p) /\ Slot(p).epoch = call[p].e

Finishes(p) ==
  /\ pc[p] \notin Outside \cup Critical
  /\ \A s \in SlotIds : SameCells(s)
  /\ \E rc \in Results : Return(p, rc) /\ Ends(p, rc)

LEMMA StaySame ==
  ASSUME UNCHANGED S
  PROVE  \A s \in SlotIds : SameCells(s)
BY DEF SameCells

(* A step with new locals that keep what matters is one of the first kind. *)
LEMMA WithRoams ==
  ASSUME Typed, NEW p \in Procs, NEW l, NEW c, With(p, l, c),
         pc[p] \notin Outside \cup Critical, l \notin Outside \cup Critical,
         \A s \in SlotIds : SameCells(s),
         c.op = call[p].op, c.key = call[p].key, c.rc = call[p].rc,
         Op(p) \in {"set", "append"} => c.n = call[p].n,
         Op(p) \in LockOps => (pc[p] \in After <=> l \in After),
         l = "probe" \/ Candidate(p, c.slot) \/ (pc[p] # "probe" /\ c.slot = call[p].slot)
  PROVE  Roams(p)
<1>1. OthersStay(p) /\ pc'[p] = l /\ call'[p] = c
  BY WithStays
<1>2. At(p)' = c.slot /\ UNCHANGED << left, ret >>
  BY <1>1 DEF At, With
<1>3. QED
  BY <1>1, <1>2 DEF Roams

LEMMA ThenRoams ==
  ASSUME Typed, NEW p \in Procs, NEW l, Then(p, l),
         pc[p] \notin Outside \cup Critical \cup {"probe"}, l \notin Outside \cup Critical,
         \A s \in SlotIds : SameCells(s),
         Op(p) \in LockOps => (pc[p] \in After <=> l \in After)
  PROVE  Roams(p)
<1>1. OthersStay(p) /\ pc'[p] = l /\ call'[p] = call[p]
  BY ThenStays
<1>2. UNCHANGED << left, ret >>
  BY DEF Then
<1>3. QED
  BY <1>1, <1>2 DEF Roams

LEMMA ProbeKind ==
  ASSUME Typed, NEW p \in Procs, Probe(p)
  PROVE  Roams(p) \/ Finishes(p)
<1> USE SlotTyped
<1>1. UNCHANGED S /\ pc[p] = "probe" /\ pc[p] \notin Outside \cup Critical \cup After
  BY DEF Probe, ProbeHit, ProbeNext, ProbeEnd, Outside, Critical, After
<1>2. \A s \in SlotIds : SameCells(s)
  BY <1>1, StaySame
<1>3. CASE ProbeHit(p)
  <2> DEFINE c == [call[p] EXCEPT !.slot = Phys(p), !.sh = S[Phys(p)].hash]
  <2>1. With(p, "found", c) /\ Candidate(p, Phys(p))
    BY <1>3 DEF ProbeHit
  <2>2. /\ c.op = call[p].op /\ c.key = call[p].key /\ c.rc = call[p].rc
        /\ c.n = call[p].n /\ c.slot = Phys(p)
    BY DEF CallType
  <2>3. "found" \notin Outside \cup Critical \cup After
    BY DEF Outside, Critical, After
  <2> HIDE DEF c
  <2>4. QED
    BY <1>1, <1>2, <2>1, <2>2, <2>3, WithRoams
<1>4. CASE ProbeNext(p)
  <2> DEFINE c == [call[p] EXCEPT !.i = @ + 1]
  <2>1. With(p, "probe", c)
    BY <1>4 DEF ProbeNext
  <2>2. c.op = call[p].op /\ c.key = call[p].key /\ c.rc = call[p].rc /\ c.n = call[p].n
    BY DEF CallType
  <2> HIDE DEF c
  <2>3. QED
    BY <1>1, <1>2, <2>1, <2>2, WithRoams
<1>5. CASE ProbeEnd(p)
  <2> DEFINE rc == CASE Op(p) = "purge" -> "ok"
                     [] Op(p) = "set"   -> IF call[p].busy THEN "busy" ELSE "nospace"
                     [] OTHER           -> "miss"
  <2>1. rc \in Results /\ Ends(p, rc)
    BY <1>1 DEF Results, Ends
  <2>2. Return(p, rc)
    BY <1>5 DEF ProbeEnd
  <2>3. QED
    BY <1>1, <1>2, <2>1, <2>2 DEF Finishes
<1>6. QED
  BY <1>3, <1>4, <1>5 DEF Probe

LEMMA EnterKind ==
  ASSUME Typed, NEW p \in Procs, Enter(p)
  PROVE  Roams(p) \/ Finishes(p) \/ CasWin(p)
<1> USE SlotTyped
<1>1. CASE LoadOdd(p) \/ CasLose(p)
  <2>1. UNCHANGED S /\ pc[p] \in {"found", "cas"} /\ GiveUpSlot(p)
    BY <1>1 DEF LoadOdd, CasLose
  <2>2. \A s \in SlotIds : SameCells(s)
    BY <2>1, StaySame
  <2>3. pc[p] \notin Outside \cup Critical \cup After
    BY <2>1 DEF Outside, Critical, After
  <2>4. CASE Op(p) \in {"set", "purge"}
    <3> DEFINE c == [call[p] EXCEPT !.busy = TRUE, !.i = @ + 1]
    <3>1. With(p, "probe", c)
      BY <2>1, <2>4 DEF GiveUpSlot
    <3>2. c.op = call[p].op /\ c.key = call[p].key /\ c.rc = call[p].rc /\ c.n = call[p].n
      BY DEF CallType
    <3>3. "probe" \notin Outside \cup Critical \cup After
      BY DEF Outside, Critical, After
    <3> HIDE DEF c
    <3>4. QED
      BY <2>2, <2>3, <3>1, <3>2, <3>3, WithRoams
  <2>5. CASE Op(p) \notin {"set", "purge"}
    <3>1. Return(p, "busy") /\ Ends(p, "busy") /\ "busy" \in Results
      BY <2>1, <2>3, <2>5 DEF GiveUpSlot, Ends, Results
    <3>2. QED
      BY <2>2, <2>3, <3>1 DEF Finishes
  <2>6. QED
    BY <2>4, <2>5
<1>2. CASE LoadEven(p)
  <2> DEFINE c == [call[p] EXCEPT !.e = Slot(p).epoch]
  <2>1. With(p, AfterLoad(p), c) /\ UNCHANGED S /\ pc[p] = "found"
    BY <1>2 DEF LoadEven
  <2>2. /\ c.op = call[p].op /\ c.key = call[p].key /\ c.rc = call[p].rc
        /\ c.n = call[p].n /\ c.slot = call[p].slot
    BY DEF CallType
  <2>3. AfterLoad(p) \notin Outside \cup Critical \cup After
    BY DEF AfterLoad, Outside, Critical, After
  <2>4. pc[p] \notin Outside \cup Critical \cup After /\ pc[p] # "probe"
    BY <2>1 DEF Outside, Critical, After
  <2>5. \A s \in SlotIds : SameCells(s)
    BY <2>1, StaySame
  <2> HIDE DEF c
  <2>6. QED
    BY <2>1, <2>2, <2>3, <2>4, <2>5, WithRoams
<1>3. QED
  BY <1>1, <1>2 DEF Enter

LEMMA PublishKind ==
  ASSUME Typed, NEW p \in Procs, Publish(p), Op(p) \notin Rewinds
  PROVE  Roams(p) \/ Finishes(p)
<1> USE SlotTyped
<1>1. UNCHANGED S /\ pc[p] \in After
  BY DEF Publish, Pulse, GlobalEpoch, NotifySkip, NotifyDirty, NotifyBell, After
<1>2. \A s \in SlotIds : SameCells(s)
  BY <1>1, StaySame
<1>3. pc[p] \notin Outside \cup Critical \cup {"probe"}
  BY <1>1 DEF Outside, Critical, After
<1>4. Op(p) \in LockOps \cup LabelOps
  BY <1>1 DEF Shape, After, CallType, OpNames, Op
<1>5. ASSUME NEW l \in After, Then(p, l)
      PROVE  Roams(p)
  <2>1. l \notin Outside \cup Critical
    BY DEF After, Outside, Critical
  <2>2. QED
    BY <1>1, <1>2, <1>3, <1>5, <2>1, ThenRoams
<1>6. ASSUME Return(p, "ok")
      PROVE  Finishes(p)
  <2>1. Ends(p, "ok") /\ "ok" \in Results
    BY <1>1, <1>4 DEF Ends, Results
  <2>2. QED
    BY <1>2, <1>3, <1>6, <2>1 DEF Finishes
<1>7. Return(p, "ok") \/ \E l \in After : Then(p, l)
  <2>1. CASE Pulse(p)
    BY <2>1 DEF Pulse, After
  <2>2. CASE GlobalEpoch(p) \/ NotifyDirty(p)
    BY <2>2 DEF GlobalEpoch, NotifyDirty, After
  <2>3. CASE NotifySkip(p) \/ NotifyBell(p)
    BY <2>3 DEF NotifySkip, NotifyBell
  <2>4. QED
    BY <2>1, <2>2, <2>3 DEF Publish
<1>8. QED
  BY <1>5, <1>6, <1>7

LEMMA ReadKind ==
  ASSUME Typed, NEW p \in Procs, Read(p) \/ Poll(p)
  PROVE  Roams(p) \/ Finishes(p)
<1> USE SlotTyped
<1>1. UNCHANGED S /\ pc[p] \in {"len", "copy", "found", "wait"}
  BY DEF Read, Poll, ReadLen, ReadCopy, ReadVerify, SnapOdd, SnapStart, SnapEnd,
         PollClock, PollMoved, PollTimeout
<1>2. \A s \in SlotIds : SameCells(s)
  BY <1>1, StaySame
<1>3. pc[p] \notin Outside \cup Critical \cup After \cup {"probe"}
  BY <1>1 DEF Outside, Critical, After
<1>4. Op(p) \in {"get", "getemb", "snapshot", "poll"}
  BY DEF Read, Poll, ReadLen, ReadCopy, ReadVerify, SnapOdd, SnapStart, SnapEnd,
         PollClock, PollMoved, PollTimeout, Shape, Op
<1>5. ASSUME NEW l \in {"len", "copy", "found", "wait"}, NEW c, With(p, l, c),
             c.op = call[p].op, c.key = call[p].key, c.rc = call[p].rc, c.slot = call[p].slot
      PROVE  Roams(p)
  <2>1. l \notin Outside \cup Critical \cup After
    BY DEF After, Outside, Critical
  <2>2. QED
    BY <1>2, <1>3, <1>4, <1>5, <2>1, WithRoams
<1>6. ASSUME NEW rc \in Results, Return(p, rc), Ends(p, rc)
      PROVE  Finishes(p)
  BY <1>2, <1>3, <1>6 DEF Finishes
<1>7. CASE ReadLen(p)
  BY <1>5, <1>7 DEF ReadLen, CallType
<1>8. CASE ReadCopy(p)
  BY <1>5, <1>8 DEF ReadCopy, CallType
<1>9. CASE ReadVerify(p)
  <2> DEFINE rc == IF Slot(p).epoch = call[p].e THEN "ok" ELSE "busy"
  <2>1. rc \in Results /\ Ends(p, rc)
    BY <1>3, <1>9 DEF Results, Ends, ReadVerify
  <2>2. Return(p, rc)
    BY <1>9 DEF ReadVerify
  <2>3. QED
    BY <1>6, <2>1, <2>2
<1>10. CASE SnapStart(p)
  BY <1>5, <1>10 DEF SnapStart, CallType
<1>11. CASE SnapOdd(p) \/ PollMoved(p) \/ PollTimeout(p)
  <2>1. Op(p) \in {"snapshot", "poll"}
    BY <1>11 DEF SnapOdd, PollMoved, PollTimeout, Shape, Op
  <2>2. \A rc \in {"ok", "timeout"} : rc \in Results /\ Ends(p, rc)
    BY <2>1 DEF Ends, Results
  <2>3. QED
    BY <1>6, <1>11, <2>2 DEF SnapOdd, PollMoved, PollTimeout
<1>12. CASE SnapEnd(p)
  <2> DEFINE c == [call[p] EXCEPT !.end = Slot(p).epoch]
  <2>1. Return(p, "ok") \/ With(p, "found", c)
    BY <1>12 DEF SnapEnd
  <2>2. Ends(p, "ok") /\ "ok" \in Results
    BY <1>12 DEF Ends, Results, SnapEnd
  <2>3. c.op = call[p].op /\ c.key = call[p].key /\ c.rc = call[p].rc /\ c.slot = call[p].slot
    BY DEF CallType
  <2> HIDE DEF c
  <2>4. QED
    BY <1>5, <1>6, <2>1, <2>2, <2>3
<1>13. CASE PollClock(p)
  BY <1>5, <1>13 DEF PollClock, CallType
<1>14. QED
  BY <1>7, <1>8, <1>9, <1>10, <1>11, <1>12, <1>13 DEF Read, Poll

LEMMA MarkKind ==
  ASSUME Typed, NEW p \in Procs, Mark(p)
  PROVE  Roams(p) \/ Finishes(p)
<1> USE SlotTyped
<1>1. pc[p] = "found" /\ Op(p) \in LabelOps
  BY DEF Mark, SetLabel, UnsetLabel, PulseKeygroup, WatchRegister, WatchUnregister, LabelOps
<1>2. pc[p] \notin Outside \cup Critical \cup {"probe"}
  BY <1>1 DEF Outside, Critical
<1>3. "pulse" \notin Outside \cup Critical
  BY DEF Outside, Critical
<1>4. Op(p) \notin LockOps \cup {"set", "append"}
  BY <1>1 DEF LabelOps, LockOps
<1>5. \A s \in SlotIds : SameCells(s)
  <2>1. S \in [SlotIds -> SlotType]
    BY DEF Typed, TypeOK
  <2>2. CASE SetLabel(p)
    BY <2>1, <2>2 DEF SetLabel, SameCells, SlotType
  <2>3. CASE UnsetLabel(p)
    BY <2>1, <2>3 DEF UnsetLabel, SameCells, SlotType
  <2>4. CASE PulseKeygroup(p)
    BY <2>4 DEF PulseKeygroup, SameCells
  <2>5. CASE WatchRegister(p)
    BY <2>1, <2>5 DEF WatchRegister, SameCells, SlotType
  <2>6. CASE WatchUnregister(p)
    BY <2>1, <2>6 DEF WatchUnregister, SameCells, SlotType
  <2>7. QED
    BY <2>2, <2>3, <2>4, <2>5, <2>6 DEF Mark
<1>6. ASSUME NEW b
      PROVE  LET c == [call[p] EXCEPT !.bl = b]
             IN  /\ c.op = call[p].op /\ c.key = call[p].key /\ c.rc = call[p].rc
                 /\ c.slot = call[p].slot
  BY DEF CallType
<1>7. CASE SetLabel(p) \/ UnsetLabel(p)
  <2>1. PICK b : With(p, "pulse", [call[p] EXCEPT !.bl = b])
    BY <1>7 DEF SetLabel, UnsetLabel
  <2> DEFINE c == [call[p] EXCEPT !.bl = b]
  <2>2. With(p, "pulse", c)
    BY <2>1
  <2>3. c.op = call[p].op /\ c.key = call[p].key /\ c.rc = call[p].rc /\ c.slot = call[p].slot
    BY <1>6
  <2> HIDE DEF c
  <2>4. QED
    BY <1>2, <1>3, <1>4, <1>5, <2>2, <2>3, WithRoams
<1>8. CASE PulseKeygroup(p)
  BY <1>2, <1>3, <1>4, <1>5, <1>8, ThenRoams DEF PulseKeygroup
<1>9. CASE WatchRegister(p) \/ WatchUnregister(p)
  <2>1. Return(p, "ok") /\ Ends(p, "ok") /\ "ok" \in Results
    BY <1>1, <1>9 DEF WatchRegister, WatchUnregister, Ends, Results
  <2>2. QED
    BY <1>2, <1>5, <2>1 DEF Finishes
<1>10. QED
  BY <1>7, <1>8, <1>9 DEF Mark

(* Every step of a call that neither unset nor retrain makes is one of     *)
(* these, or one that a writer makes on the slot it takes, holds or opens. *)
LEMMA Kinds ==
  ASSUME Typed, NEW p \in Procs, Step(p), Op(p) \notin Rewinds
  PROVE  Roams(p) \/ Finishes(p) \/ CasWin(p) \/ Write(p)
<1>1. ~ Unset(p) /\ ~ Retrain(p)
  BY SlotTyped
     DEF Unset, UnsetForget, UnsetWipe, UnsetRewind, UnsetReset, UnsetReopen, Retrain,
         RetrainOdd, RetrainZero, RetrainEven, Shape, Op, Rewinds
<1>2. QED
  BY <1>1, ProbeKind, EnterKind, PublishKind, ReadKind, MarkKind DEF Step

-----------------------------------------------------------------------------
(* The invariant of the writers: what the steps of p leave of the others'  *)

Kept(p) == Regular(p) /\ KeyMet(p) /\ Pieces(p)

LEMMA OutcomeSame ==
  ASSUME NEW q \in Procs, pc'[q] = pc[q], call'[q] = call[q], left'[q] = left[q],
         SameCells(At(q))
  PROVE  Outcome(q)' = Outcome(q) /\ Raw(At(q))' = Raw(At(q)) /\ Ver(q)' = Ver(q)
<1>1. At(q)' = At(q) /\ Op(q)' = Op(q) /\ Ver(q)' = Ver(q)
  BY DEF At, Op, Ver
<1>2. /\ Slot(q)'.hash = Slot(q).hash /\ Slot(q)'.val_len = Slot(q).val_len
      /\ Slot(q)'.val = Slot(q).val /\ Slot(q)'.embedding = Slot(q).embedding
  BY <1>1 DEF Slot, SameCells
<1>3. Fits(q)' = Fits(q)
  BY <1>2 DEF Fits
<1>4. Outcome(q)' = Outcome(q)
  BY <1>1, <1>2, <1>3 DEF Outcome, Overwrite
<1>5. Raw(At(q))' = Raw(At(q))
  BY <1>1 DEF Raw, SameCells
<1>6. QED
  BY <1>1, <1>4, <1>5

(* p disturbs nobody: it changes no slot but one that it holds, and the    *)
(* key of that one only if it had none.                                    *)
Discreet(p) ==
  /\ OthersStay(p)
  /\ \A q \in Procs \ {p} : left'[q] = left[q]
  /\ \A s \in SlotIds :
       SameCells(s) \/ (Holds(p, s) /\ (S'[s].hash = S[s].hash \/ S[s].hash = NoKey))

LEMMA OthersKept ==
  ASSUME Typed, SeqlockOwner, NEW p \in Procs, Discreet(p),
         NEW q \in Procs \ {p}, Kept(q)
  PROVE  Kept(q)'
<1>1. /\ pc'[q] = pc[q] /\ call'[q] = call[q] /\ left'[q] = left[q]
      /\ Op(q)' = Op(q) /\ At(q)' = At(q) /\ At(q) \in SlotIds
  BY SlotTyped DEF Discreet, OthersStay, Op, At
<1>2. Regular(q)'
  BY <1>1 DEF Kept, Regular, InCall
<1>3. CASE SameCells(At(q))
  <2>1. Outcome(q)' = Outcome(q) /\ Raw(At(q))' = Raw(At(q)) /\ Ver(q)' = Ver(q)
    BY <1>1, <1>3, OutcomeSame
  <2>2. /\ Slot(q)'.hash = Slot(q).hash /\ Slot(q)'.val_len = Slot(q).val_len
        /\ Slot(q)'.val = Slot(q).val /\ Slot(q)'.embedding = Slot(q).embedding
    BY <1>1, <1>3 DEF Slot, SameCells
  <2>3. KeyMet(q)'
    BY <1>1, <2>2 DEF Kept, KeyMet
  <2>4. Pieces(q)'
    BY <1>1, <2>1, <2>2 DEF Kept, Pieces
  <2>5. QED
    BY <1>2, <2>3, <2>4 DEF Kept
<1>4. CASE ~ SameCells(At(q))
  <2>1. Holds(p, At(q)) /\ (S'[At(q)].hash = S[At(q)].hash \/ S[At(q)].hash = NoKey)
    BY <1>1, <1>4 DEF Discreet
  <2>2. pc[q] \notin Critical
    BY <1>1, <2>1 DEF SeqlockOwner, Holds
  <2>3. Pieces(q)'
    BY <1>1, <2>2 DEF Pieces, Critical
  <2>4. KeyMet(q)'
    <3>1. ASSUME Op(q) \in ByKey, pc[q] \notin {"idle", "probe"}
          PROVE  Slot(q)'.hash = call[q].key
      <4>1. S[At(q)].hash = call[q].key /\ pc[q] \notin Outside
        BY <3>1 DEF Kept, KeyMet, Slot, Regular, Outside
      <4>2. call[q].key \in Keys
        BY <4>1, SlotTyped DEF Shape
      <4>3. QED
        BY <1>1, <2>1, <4>1, <4>2, KeysAssumption DEF Slot
    <3>2. QED
      BY <1>1, <2>2, <3>1 DEF KeyMet, Critical
  <2>5. QED
    BY <1>2, <2>3, <2>4 DEF Kept
<1>5. QED
  BY <1>3, <1>4

(* Its own steps outside a seqlock. *)
LEMMA RoamsKept ==
  ASSUME Typed, Typed', NEW p \in Procs, Roams(p), Kept(p)
  PROVE  Kept(p)' /\ Discreet(p)
<1>0. At(p)' \in SlotIds
  BY DEF Typed, TypeOK, CallType, At
<1>1. /\ Op(p)' = Op(p) /\ call'[p].key = call[p].key /\ call'[p].rc = call[p].rc
      /\ pc[p] \notin Outside \cup Critical /\ pc'[p] \notin Outside \cup Critical
  BY DEF Roams, Op
<1>2. Regular(p)'
  BY <1>1 DEF Roams, Kept, Regular, InCall, Outside, Critical
<1>3. Pieces(p)'
  BY <1>1 DEF Pieces, Critical
<1>4. KeyMet(p)'
  <2>1. ASSUME Op(p) \in ByKey, pc'[p] # "probe"
        PROVE  Slot(p)'.hash = call[p].key
    <3>1. CASE Candidate(p, At(p)')
      BY <1>0, <2>1, <3>1 DEF Candidate, Match, ByKey, Slot, Roams, SameCells
    <3>2. CASE pc[p] # "probe" /\ call'[p].slot = call[p].slot
      BY <1>0, <1>1, <2>1, <3>2 DEF Kept, KeyMet, Slot, At, Roams, SameCells, Outside
    <3>3. QED
      BY <2>1, <3>1, <3>2 DEF Roams
  <2>2. QED
    BY <1>1, <2>1 DEF KeyMet, Critical
<1>5. Discreet(p)
  BY DEF Roams, Discreet
<1>6. QED
  BY <1>2, <1>3, <1>4, <1>5 DEF Kept

LEMMA IdleKept ==
  ASSUME NEW p \in Procs, pc'[p] = "idle", call'[p] = Idle
  PROVE  Kept(p)'
BY DEF Kept, Regular, KeyMet, Pieces, InCall, Outside, Op, Idle, Rewinds

LEMMA FinishesKept ==
  ASSUME Typed, NEW p \in Procs, Finishes(p)
  PROVE  Kept(p)' /\ Discreet(p)
<1>1. PICK rc : Return(p, rc)
  BY DEF Finishes
<1>2. OthersStay(p) /\ pc'[p] = "idle" /\ call'[p] = Idle /\ UNCHANGED left
  BY <1>1, ReturnStays DEF Return, Typed, TypeOK
<1>3. QED
  BY <1>2, IdleKept DEF Finishes, Discreet

LEMMA BeginKept ==
  ASSUME Typed, NEW p \in Procs, NEW c \in Calls[p], NEW m \in Lens, Begin(p, c, m),
         c.op \notin Rewinds
  PROVE  Kept(p)' /\ Discreet(p)
<1>1. OthersStay(p) /\ pc'[p] = "probe"
  BY DEF Typed, TypeOK, OthersStay, Begin, Goto
<1>2. /\ call'[p].op = c.op /\ call'[p].rc = "ok"
      /\ call'[p].n = IF c.op \in {"set", "append"} THEN m ELSE 0
  BY DEF Begin, Idle, Typed, TypeOK
<1>3. m \in 1 .. MaxLen
  BY CallsAssumption
<1>4. Kept(p)'
  BY <1>1, <1>2, <1>3 DEF Kept, Regular, KeyMet, Pieces, InCall, Outside, Op
<1>5. \A q \in Procs \ {p} : left'[q] = left[q]
  BY DEF Begin, Typed, TypeOK
<1>6. \A s \in SlotIds : SameCells(s)
  BY StaySame DEF Begin
<1>7. QED
  BY <1>1, <1>4, <1>5, <1>6 DEF Discreet

-----------------------------------------------------------------------------
(* The steps of a writer on the slot it holds: the outcome stays           *)

(* p goes on writing, and what it will leave in the slot is the same. *)
Progress(p) ==
  /\ UNCHANGED << left, ret >>
  /\ pc[p] \in Critical /\ pc'[p] \in Critical
  /\ At(p)' = At(p) /\ Op(p)' = Op(p) /\ call'[p].key = call[p].key
  /\ Outcome(p)' = Outcome(p)
  /\ Stage(p)' = Stage(p)

LEMMA Piece ==
  ASSUME Typed, NEW p \in Procs, NEW l, Then(p, l), NEW r, S' = [S EXCEPT ![At(p)] = r],
         pc[p] \in Critical, r.hash = Slot(p).hash \/ Slot(p).hash = NoKey
  PROVE  /\ pc'[p] = l /\ call'[p] = call[p] /\ UNCHANGED << left, ret >>
         /\ At(p)' = At(p) /\ Op(p)' = Op(p) /\ Ver(p)' = Ver(p)
         /\ S'[At(p)] = r /\ Slot(p)' = r
         /\ Discreet(p)
<1> USE SlotTyped
<1>1. OthersStay(p) /\ pc'[p] = l /\ call'[p] = call[p] /\ UNCHANGED << left, ret >>
  BY ThenStays DEF Then
<1>2. At(p)' = At(p) /\ Op(p)' = Op(p) /\ Ver(p)' = Ver(p)
  BY <1>1 DEF At, Op, Ver
<1>3. S'[At(p)] = r /\ \A s \in SlotIds \ {At(p)} : S'[s] = S[s]
  BY DEF Typed, TypeOK
<1>4. Slot(p)' = r
  BY <1>2, <1>3 DEF Slot
<1>5. \A s \in SlotIds \ {At(p)} : SameCells(s)
  BY <1>3 DEF SameCells
<1>6. Holds(p, At(p)) /\ (S'[At(p)].hash = S[At(p)].hash \/ S[At(p)].hash = NoKey)
  BY <1>3 DEF Holds, Slot
<1>7. Discreet(p)
  BY <1>1, <1>5, <1>6 DEF Discreet
<1>8. QED
  BY <1>1, <1>2, <1>3, <1>4, <1>7

LEMMA OverwriteAt ==
  ASSUME NEW v, NEW C, NEW x, NEW c \in 1 .. MaxLen
  PROVE  Overwrite(v, C, x)[c] = IF c \in C THEN x ELSE v[c]
BY DEF Overwrite

LEMMA OverwriteSame ==
  ASSUME NEW v, NEW C, NEW x, NEW w, NEW D, NEW y,
         \A c \in 1 .. MaxLen : Overwrite(v, C, x)[c] = Overwrite(w, D, y)[c]
  PROVE  Overwrite(v, C, x) = Overwrite(w, D, y)
BY DEF Overwrite

LEMMA OverwriteIs ==
  ASSUME NEW v, NEW C, NEW x, NEW w \in [1 .. MaxLen -> Cell],
         \A c \in 1 .. MaxLen : Overwrite(v, C, x)[c] = w[c]
  PROVE  Overwrite(v, C, x) = w
BY DEF Overwrite

(* What set leaves in the region: its version in the first n cells, zeros  *)
(* where it scrubs, and what was there elsewhere.                          *)
SetWrites(p, v) == Overwrite(Overwrite(v, Scrubbed(call[p].n), Zero), 1 .. call[p].n, Ver(p))

LEMMA WrittenAt ==
  ASSUME NEW p \in Procs, NEW v, NEW c \in 1 .. MaxLen
  PROVE  SetWrites(p, v)[c] = IF c \in 1 .. call[p].n THEN Ver(p)
                            ELSE IF c \in Scrubbed(call[p].n) THEN Zero ELSE v[c]
BY DEF SetWrites, Overwrite

LEMMA SetOutcome ==
  ASSUME NEW p \in Procs, Op(p) = "set"
  PROVE  Outcome(p) = [key |-> call[p].key, len |-> call[p].n, val |-> SetWrites(p, Slot(p).val),
                       emb |-> IF call[p].sh = NoKey THEN NoEmbedding ELSE Slot(p).embedding]
BY DEF Outcome, SetWrites

(* The same after a step that keeps the locals of p. *)
LEMMA SetOutcomeNext ==
  ASSUME NEW p \in Procs, Op(p)' = "set", call'[p] = call[p], Ver(p)' = Ver(p)
  PROVE  Outcome(p)' = [key |-> call[p].key, len |-> call[p].n,
                        val |-> SetWrites(p, Slot(p)'.val),
                        emb |-> IF call[p].sh = NoKey THEN NoEmbedding ELSE Slot(p)'.embedding]
BY DEF Outcome, SetWrites, Overwrite, Scrubbed

LEMMA SetScrubKept ==
  ASSUME Typed, NEW p \in Procs, SetScrub(p), Kept(p)
  PROVE  Kept(p)' /\ Discreet(p) /\ Progress(p)
<1> USE SlotTyped
<1> DEFINE n == call[p].n
           v == Slot(p).val
           w == Overwrite(Overwrite(v, Scrubbed(n), Zero), {1}, Ver(p))
           r == [Slot(p) EXCEPT !.val = w]
<1>1. pc[p] = "scrub" /\ Op(p) = "set" /\ n \in 1 .. MaxLen
  BY DEF SetScrub, Kept, Regular, InCall, Outside
<1>2. Then(p, "fill") /\ S' = [S EXCEPT ![At(p)] = r]
  BY DEF SetScrub, Slot
<1>3. /\ r.hash = Slot(p).hash /\ r.val_len = Slot(p).val_len /\ r.val = w
      /\ r.embedding = Slot(p).embedding
  BY DEF SlotType
<1>4. /\ pc'[p] = "fill" /\ call'[p] = call[p] /\ UNCHANGED << left, ret >>
      /\ At(p)' = At(p) /\ Op(p)' = Op(p) /\ Ver(p)' = Ver(p) /\ Slot(p)' = r
      /\ Discreet(p)
  <2>1. pc[p] \in Critical
    BY <1>1 DEF Critical
  <2> HIDE DEF r
  <2>2. QED
    BY <1>2, <1>3, <2>1, Piece
<1>5. 1 \in 1 .. MaxLen /\ Scrubbed(n) \subseteq 1 .. MaxLen
  BY <1>1, SlotsAssumption DEF Scrubbed
<1>6. \A c \in 1 .. MaxLen :
        w[c] = IF c = 1 THEN Ver(p) ELSE IF c \in Scrubbed(n) THEN Zero ELSE v[c]
  BY OverwriteAt
<1>7. SetWrites(p, w) = SetWrites(p, v)
  <2>1. \A c \in 1 .. MaxLen : SetWrites(p, w)[c] = SetWrites(p, v)[c]
    BY <1>1, <1>6, WrittenAt
  <2>2. QED
    BY <2>1 DEF SetWrites, Overwrite
<1> HIDE DEF w, r
<1>8. Outcome(p)' = Outcome(p)
  BY <1>1, <1>3, <1>4, <1>7, SetOutcome, SetOutcomeNext
<1>9. Pieces(p)'
  BY <1>3, <1>4, <1>5, <1>6 DEF Pieces
<1>10. Regular(p)' /\ KeyMet(p)'
  BY <1>1, <1>3, <1>4 DEF Kept, Regular, KeyMet, InCall, Outside, ByKey
<1>11. Stage(p)' = Stage(p)
  BY <1>1, <1>4 DEF Stage, Fits, Critical, LockOps
<1>12. QED
  BY <1>1, <1>4, <1>8, <1>9, <1>10, <1>11 DEF Kept, Progress, Critical

LEMMA SetFillKept ==
  ASSUME Typed, NEW p \in Procs, SetFill(p), Kept(p)
  PROVE  Kept(p)' /\ Discreet(p) /\ Progress(p)
<1> USE SlotTyped
<1> DEFINE n == call[p].n
           v == Slot(p).val
           w == Overwrite(v, 2 .. n, Ver(p))
           r == [Slot(p) EXCEPT !.val = w, !.val_len = n]
<1>1. pc[p] = "fill" /\ Op(p) = "set" /\ n \in 1 .. MaxLen
  BY DEF SetFill, Kept, Regular, InCall, Outside
<1>2. Then(p, "blank") /\ S' = [S EXCEPT ![At(p)] = r]
  BY DEF SetFill, Slot
<1>3. /\ r.hash = Slot(p).hash /\ r.val_len = n /\ r.val = w
      /\ r.embedding = Slot(p).embedding
  BY DEF SlotType
<1>4. /\ pc'[p] = "blank" /\ call'[p] = call[p] /\ UNCHANGED << left, ret >>
      /\ At(p)' = At(p) /\ Op(p)' = Op(p) /\ Ver(p)' = Ver(p) /\ Slot(p)' = r
      /\ Discreet(p)
  <2>1. pc[p] \in Critical
    BY <1>1 DEF Critical
  <2> HIDE DEF r
  <2>2. QED
    BY <1>2, <1>3, <2>1, Piece
<1>5. 1 \in 1 .. MaxLen /\ n \in Nat
  BY <1>1, SlotsAssumption
<1>6. \A c \in 1 .. MaxLen : w[c] = IF c \in 2 .. n THEN Ver(p) ELSE v[c]
  BY DEF Overwrite
<1>7. SetWrites(p, w) = SetWrites(p, v)
  <2>1. \A c \in 1 .. MaxLen : SetWrites(p, w)[c] = SetWrites(p, v)[c]
    BY <1>5, <1>6, WrittenAt
  <2>2. QED
    BY <2>1 DEF SetWrites, Overwrite
<1>8. SetWrites(p, w) = w
  <2>1. \A c \in 1 .. MaxLen : SetWrites(p, w)[c] = w[c]
    <3> SUFFICES ASSUME NEW c \in 1 .. MaxLen
                 PROVE  SetWrites(p, w)[c] = w[c]
      OBVIOUS
    <3>1. v[1] = Ver(p) /\ \A d \in Scrubbed(n) \ {1} : v[d] = Zero
      BY <1>1 DEF Kept, Pieces
    <3>2. SetWrites(p, w)[c] = IF c \in 1 .. n THEN Ver(p)
                             ELSE IF c \in Scrubbed(n) THEN Zero ELSE w[c]
      BY WrittenAt
    <3>3. CASE c = 1
      <4>1. c \in 1 .. n /\ c \notin 2 .. n
        BY <1>1, <3>3, SlotsAssumption
      <4>2. QED
        BY <1>6, <3>1, <3>2, <3>3, <4>1
    <3>4. CASE c \in 2 .. n
      <4>1. c \in 1 .. n
        BY <1>5, <3>4
      <4>2. QED
        BY <1>6, <3>2, <3>4, <4>1
    <3>5. CASE c # 1 /\ c \notin 2 .. n
      <4>1. c \notin 1 .. n
        BY <1>5, <3>5, SlotsAssumption
      <4>2. QED
        BY <1>6, <3>1, <3>2, <3>5, <4>1
    <3>6. QED
      BY <3>3, <3>4, <3>5
  <2>2. QED
    BY <2>1 DEF SetWrites, Overwrite
<1> HIDE DEF w, r
<1>9. /\ Slot(p)'.val = w /\ Slot(p)'.val_len = n
      /\ Slot(p)'.embedding = Slot(p).embedding /\ Slot(p)'.hash = Slot(p).hash
  BY <1>3, <1>4
<1>10. Outcome(p)' = Outcome(p) /\ Outcome(p)'.val = w
  <2> DEFINE e == IF call[p].sh = NoKey THEN NoEmbedding ELSE Slot(p).embedding
             o == [key |-> call[p].key, len |-> n, val |-> w, emb |-> e]
  <2>1. Outcome(p) = o
    BY <1>1, <1>7, <1>8, SetOutcome
  <2>2. Outcome(p)' = o
    BY <1>1, <1>4, <1>8, <1>9, SetOutcomeNext
  <2>3. QED
    BY <2>1, <2>2
<1>11. Pieces(p)'
  BY <1>4, <1>9, <1>10 DEF Pieces
<1>12. Regular(p)' /\ KeyMet(p)'
  BY <1>1, <1>3, <1>4 DEF Kept, Regular, KeyMet, InCall, Outside, ByKey
<1>13. Stage(p)' = Stage(p)
  BY <1>1, <1>4 DEF Stage, Fits, Critical, LockOps
<1>14. QED
  BY <1>1, <1>4, <1>10, <1>12, <1>13, <1>11 DEF Kept, Progress, Critical

LEMMA SetBlankKept ==
  ASSUME Typed, NEW p \in Procs, SetBlank(p), Kept(p)
  PROVE  Kept(p)' /\ Discreet(p) /\ Progress(p)
<1> USE SlotTyped
<1> DEFINE e == IF call[p].sh = NoKey THEN NoEmbedding ELSE Slot(p).embedding
           r == [Slot(p) EXCEPT !.embedding = e, !.key = NoKey]
<1>1. pc[p] = "blank" /\ Op(p) = "set"
  BY DEF SetBlank, Kept, Regular
<1>2. Then(p, "link") /\ S' = [S EXCEPT ![At(p)] = r]
  BY DEF SetBlank, Slot
<1>3. /\ r.hash = Slot(p).hash /\ r.val_len = Slot(p).val_len /\ r.val = Slot(p).val
      /\ r.embedding = e
  BY DEF SlotType
<1>4. /\ pc'[p] = "link" /\ call'[p] = call[p] /\ UNCHANGED << left, ret >>
      /\ At(p)' = At(p) /\ Op(p)' = Op(p) /\ Ver(p)' = Ver(p) /\ Slot(p)' = r
      /\ Discreet(p)
  <2>1. pc[p] \in Critical
    BY <1>1 DEF Critical
  <2> HIDE DEF r, e
  <2>2. QED
    BY <1>2, <1>3, <2>1, Piece
<1> HIDE DEF r
<1>5. /\ Slot(p)'.hash = Slot(p).hash /\ Slot(p)'.val_len = Slot(p).val_len
      /\ Slot(p)'.val = Slot(p).val /\ Slot(p)'.embedding = e
  BY <1>3, <1>4
<1>6. Outcome(p)' = Outcome(p) /\ Outcome(p).emb = e
  BY <1>1, <1>4, <1>5, SetOutcome, SetOutcomeNext
<1>7. Outcome(p).val = Slot(p).val /\ Slot(p).val_len = call[p].n
  BY <1>1 DEF Kept, Pieces
<1> HIDE DEF e
<1>8. Pieces(p)'
  BY <1>4, <1>5, <1>6, <1>7 DEF Pieces
<1>9. Regular(p)' /\ KeyMet(p)'
  BY <1>1, <1>3, <1>4 DEF Kept, Regular, KeyMet, InCall, Outside, ByKey
<1>10. Stage(p)' = Stage(p)
  BY <1>1, <1>4 DEF Stage, Fits, Critical, LockOps
<1>11. QED
  BY <1>1, <1>4, <1>6, <1>8, <1>9, <1>10 DEF Kept, Progress, Critical

LEMMA SetLinkKept ==
  ASSUME Typed, NEW p \in Procs, SetLink(p), Kept(p)
  PROVE  Kept(p)' /\ Discreet(p) /\ Progress(p)
<1> USE SlotTyped
<1> DEFINE e == IF call[p].sh = NoKey THEN NoEmbedding ELSE Slot(p).embedding
           r == [Slot(p) EXCEPT !.key = call[p].key, !.hash = call[p].key]
<1>1. pc[p] = "link" /\ Op(p) = "set"
  BY DEF SetLink, Kept, Regular
<1>0. Outcome(p).emb = Slot(p).embedding /\ Outcome(p).emb = e
  BY <1>1, SetOutcome DEF Kept, Pieces
<1>2. Then(p, "close") /\ S' = [S EXCEPT ![At(p)] = r]
  BY DEF SetLink, Slot
<1>3. /\ r.hash = call[p].key /\ r.val_len = Slot(p).val_len /\ r.val = Slot(p).val
      /\ r.embedding = e
  BY <1>0 DEF SlotType
<1>4. /\ pc'[p] = "close" /\ call'[p] = call[p] /\ UNCHANGED << left, ret >>
      /\ At(p)' = At(p) /\ Op(p)' = Op(p) /\ Ver(p)' = Ver(p) /\ Slot(p)' = r
      /\ S'[At(p)] = r /\ Discreet(p)
  <2>1. pc[p] \in Critical
    BY <1>1 DEF Critical
  <2>2. Slot(p).hash \in {NoKey, call[p].key}
    BY <1>1 DEF Kept, KeyMet
  <2> HIDE DEF r, e
  <2>3. QED
    BY <1>2, <1>3, <2>1, <2>2, Piece
<1> HIDE DEF r
<1>5. /\ Slot(p)'.hash = call[p].key /\ Slot(p)'.val_len = Slot(p).val_len
      /\ Slot(p)'.val = Slot(p).val /\ Slot(p)'.embedding = e
  BY <1>3, <1>4
<1>6. Outcome(p)' = Outcome(p)
  BY <1>1, <1>4, <1>5, SetOutcome, SetOutcomeNext
<1>7. Outcome(p)' = Raw(At(p))'
  <2>1. Raw(At(p))' = [key |-> r.hash, len |-> r.val_len, val |-> r.val, emb |-> r.embedding]
    BY <1>4 DEF Raw
  <2>2. Outcome(p).val = Slot(p).val /\ Slot(p).val_len = call[p].n
    BY <1>1 DEF Kept, Pieces
  <2>3. Outcome(p) = [key |-> call[p].key, len |-> call[p].n, val |-> SetWrites(p, Slot(p).val),
                      emb |-> e]
    BY <1>1, SetOutcome
  <2>4. QED
    BY <1>3, <1>6, <2>1, <2>2, <2>3
<1>8. Pieces(p)'
  BY <1>4, <1>7 DEF Pieces
<1>9. Regular(p)' /\ KeyMet(p)'
  BY <1>1, <1>3, <1>4 DEF Kept, Regular, KeyMet, InCall, Outside, ByKey
<1>10. Stage(p)' = Stage(p)
  BY <1>1, <1>4 DEF Stage, Fits, Critical, LockOps
<1>11. QED
  BY <1>1, <1>4, <1>6, <1>8, <1>9, <1>10 DEF Kept, Progress, Critical

Puts(p, l, c, r) == With(p, l, c) /\ S' = [S EXCEPT ![At(p)] = r]

LEMMA PieceWith ==
  ASSUME Typed, NEW p \in Procs, NEW l, NEW c, NEW r, Puts(p, l, c, r),
         pc[p] \in Critical, r.hash = Slot(p).hash \/ Slot(p).hash = NoKey,
         c.op = call[p].op, c.slot = call[p].slot, c.key = call[p].key
  PROVE  /\ pc'[p] = l /\ call'[p] = c /\ UNCHANGED << left, ret >>
         /\ At(p)' = At(p) /\ Op(p)' = Op(p) /\ Ver(p)' = Ver(p)
         /\ S'[At(p)] = r /\ Slot(p)' = r
         /\ Discreet(p)
<1> USE SlotTyped
<1>1. OthersStay(p) /\ pc'[p] = l /\ call'[p] = c /\ UNCHANGED << left, ret >>
  BY WithStays DEF With, Puts
<1>2. At(p)' = At(p) /\ Op(p)' = Op(p) /\ Ver(p)' = Ver(p)
  BY <1>1 DEF At, Op, Ver
<1>3. S'[At(p)] = r /\ \A s \in SlotIds \ {At(p)} : S'[s] = S[s]
  BY DEF Typed, TypeOK, Puts
<1>4. Slot(p)' = r
  BY <1>2, <1>3 DEF Slot
<1>5. \A s \in SlotIds \ {At(p)} : SameCells(s)
  BY <1>3 DEF SameCells
<1>6. Holds(p, At(p)) /\ (S'[At(p)].hash = S[At(p)].hash \/ S[At(p)].hash = NoKey)
  BY <1>3 DEF Holds, Slot
<1>7. Discreet(p)
  BY <1>1, <1>5, <1>6 DEF Discreet
<1>8. QED
  BY <1>1, <1>2, <1>3, <1>4, <1>7

(* What the outcome of an append, a set_embedding, a purge and a bump is.  *)
Room(p)  == Slot(p).val_len + 1 .. Slot(p).val_len + call[p].n
Swept(p) == IF Slot(p).hash = NoKey THEN 1 .. MaxLen ELSE Slot(p).val_len + 1 .. MaxLen

LEMMA AppendOutcome ==
  ASSUME NEW p \in Procs, Op(p) = "append"
  PROVE  /\ Outcome(p).key = Slot(p).hash /\ Outcome(p).emb = Slot(p).embedding
         /\ pc[p] = "room" /\ Fits(p) =>
              Outcome(p) = [key |-> Slot(p).hash, len |-> Slot(p).val_len + call[p].n,
                            val |-> Overwrite(Slot(p).val, Room(p), Ver(p)),
                            emb |-> Slot(p).embedding]
         /\ pc[p] = "extend" =>
              Outcome(p) = [key |-> Slot(p).hash, len |-> call[p].n, val |-> Slot(p).val,
                            emb |-> Slot(p).embedding]
         /\ pc[p] = "close" \/ ~ Fits(p) =>
              Outcome(p) = [key |-> Slot(p).hash, len |-> Slot(p).val_len, val |-> Slot(p).val,
                            emb |-> Slot(p).embedding]
BY DEF Outcome, Room, Fits

LEMMA AppendOutcomeNext ==
  ASSUME NEW p \in Procs, Op(p)' = "append"
  PROVE  /\ pc'[p] = "extend" =>
              Outcome(p)' = [key |-> Slot(p)'.hash, len |-> call'[p].n, val |-> Slot(p)'.val,
                             emb |-> Slot(p)'.embedding]
         /\ pc'[p] = "close" =>
              Outcome(p)' = [key |-> Slot(p)'.hash, len |-> Slot(p)'.val_len,
                             val |-> Slot(p)'.val, emb |-> Slot(p)'.embedding]
BY DEF Outcome, Fits

LEMMA RawNext ==
  ASSUME NEW p \in Procs, NEW r, Slot(p)' = r
  PROVE  Raw(At(p))' = [key |-> r.hash, len |-> r.val_len, val |-> r.val, emb |-> r.embedding]
BY DEF Raw, Slot

LEMMA AppendRoomKept ==
  ASSUME Typed, NEW p \in Procs, AppendRoom(p), Kept(p)
  PROVE  Kept(p)' /\ Discreet(p) /\ Progress(p)
<1> USE SlotTyped
<1> DEFINE len == Slot(p).val_len
           w == Overwrite(Slot(p).val, len + 1 .. len + call[p].n, Ver(p))
           r == [Slot(p) EXCEPT !.val = w]
           c == [call[p] EXCEPT !.n = len + @]
<1>1. pc[p] = "room" /\ Op(p) = "append" /\ Fits(p) /\ call[p].rc = "ok"
  BY DEF AppendRoom, Kept, Regular, Fits
<1>2. Puts(p, "extend", c, r)
  BY DEF AppendRoom, Slot, Puts
<1>3. /\ r.hash = Slot(p).hash /\ r.val_len = len /\ r.val = w
      /\ r.embedding = Slot(p).embedding
  BY DEF SlotType
<1>4. /\ c.op = call[p].op /\ c.slot = call[p].slot /\ c.key = call[p].key
      /\ c.rc = call[p].rc /\ c.n = len + call[p].n
  BY DEF CallType
<1>5. /\ pc'[p] = "extend" /\ call'[p] = c /\ UNCHANGED << left, ret >>
      /\ At(p)' = At(p) /\ Op(p)' = Op(p) /\ Ver(p)' = Ver(p) /\ Slot(p)' = r
      /\ Discreet(p)
  <2>1. pc[p] \in Critical
    BY <1>1 DEF Critical
  <2> HIDE DEF r, c
  <2>2. QED
    BY <1>2, <1>3, <1>4, <2>1, PieceWith
<1> HIDE DEF r, c
<1>6. Outcome(p)' = Outcome(p)
  <2>1. Outcome(p) = [key |-> r.hash, len |-> c.n, val |-> r.val, emb |-> r.embedding]
    BY <1>1, <1>3, <1>4, AppendOutcome DEF Room
  <2>2. Outcome(p)' = [key |-> r.hash, len |-> c.n, val |-> r.val, emb |-> r.embedding]
    BY <1>1, <1>5, AppendOutcomeNext
  <2>3. QED
    BY <2>1, <2>2
<1>7. Kept(p)'
  BY <1>1, <1>3, <1>4, <1>5 DEF Kept, Regular, KeyMet, Pieces, InCall, Outside, ByKey
<1>8. Stage(p)' = Stage(p)
  BY <1>1, <1>4, <1>5 DEF Stage, Fits, Critical, LockOps
<1>9. QED
  BY <1>1, <1>4, <1>5, <1>6, <1>7, <1>8 DEF Progress, Critical

LEMMA AppendTooLongKept ==
  ASSUME Typed, NEW p \in Procs, AppendTooLong(p), Kept(p)
  PROVE  Kept(p)' /\ Discreet(p) /\ Progress(p)
<1> USE SlotTyped
<1> DEFINE r == Slot(p)
           c == [call[p] EXCEPT !.rc = "toolong"]
<1>1. pc[p] = "room" /\ Op(p) = "append" /\ ~ Fits(p) /\ call[p].rc = "ok"
  BY SlotsAssumption DEF AppendTooLong, Kept, Regular, Fits, SlotType, CallType, Length
<1>2. Puts(p, "close", c, r)
  BY DEF AppendTooLong, Slot, Typed, TypeOK, Puts
<1>3. /\ c.op = call[p].op /\ c.slot = call[p].slot /\ c.key = call[p].key
      /\ c.rc = "toolong" /\ c.n = call[p].n
  BY DEF CallType, Results
<1>4. /\ pc'[p] = "close" /\ call'[p] = c /\ UNCHANGED << left, ret >>
      /\ At(p)' = At(p) /\ Op(p)' = Op(p) /\ Ver(p)' = Ver(p) /\ Slot(p)' = r
      /\ Discreet(p)
  <2>1. pc[p] \in Critical
    BY <1>1 DEF Critical
  <2> HIDE DEF c
  <2>2. QED
    BY <1>2, <1>3, <2>1, PieceWith
<1> HIDE DEF c
<1>5. Outcome(p)' = Outcome(p) /\ Outcome(p)' = Raw(At(p))'
  <2> DEFINE o == [key |-> r.hash, len |-> r.val_len, val |-> r.val, emb |-> r.embedding]
  <2>1. Outcome(p) = o
    BY <1>1, AppendOutcome
  <2>2. Outcome(p)' = o
    BY <1>1, <1>4, AppendOutcomeNext
  <2>3. Raw(At(p))' = o
    BY <1>4, RawNext
  <2>4. QED
    BY <2>1, <2>2, <2>3
<1>6. Regular(p)' /\ KeyMet(p)'
  BY <1>1, <1>3, <1>4 DEF Kept, Regular, KeyMet, InCall, Outside, ByKey
<1>7. Pieces(p)'
  BY <1>4, <1>5 DEF Pieces
<1>8. Stage(p)' = Stage(p)
  BY <1>1, <1>3, <1>4 DEF Stage, Fits, Critical, LockOps
<1>9. QED
  BY <1>1, <1>3, <1>4, <1>5, <1>6, <1>7, <1>8 DEF Kept, Progress, Critical

LEMMA AppendExtendKept ==
  ASSUME Typed, NEW p \in Procs, AppendExtend(p), Kept(p)
  PROVE  Kept(p)' /\ Discreet(p) /\ Progress(p)
<1> USE SlotTyped
<1> DEFINE r == [Slot(p) EXCEPT !.val_len = call[p].n]
<1>1. pc[p] = "extend" /\ Op(p) = "append" /\ call[p].rc = "ok"
  BY DEF AppendExtend, Kept, Regular
<1>2. Then(p, "close") /\ S' = [S EXCEPT ![At(p)] = r]
  BY DEF AppendExtend, Slot
<1>3. /\ r.hash = Slot(p).hash /\ r.val_len = call[p].n /\ r.val = Slot(p).val
      /\ r.embedding = Slot(p).embedding
  BY DEF SlotType
<1>4. /\ pc'[p] = "close" /\ call'[p] = call[p] /\ UNCHANGED << left, ret >>
      /\ At(p)' = At(p) /\ Op(p)' = Op(p) /\ Ver(p)' = Ver(p) /\ Slot(p)' = r
      /\ Discreet(p)
  <2>1. pc[p] \in Critical
    BY <1>1 DEF Critical
  <2> HIDE DEF r
  <2>2. QED
    BY <1>2, <1>3, <2>1, Piece
<1> HIDE DEF r
<1>5. Outcome(p)' = Outcome(p) /\ Outcome(p)' = Raw(At(p))'
  <2> DEFINE o == [key |-> r.hash, len |-> r.val_len, val |-> r.val, emb |-> r.embedding]
  <2>1. Outcome(p) = o
    BY <1>1, <1>3, AppendOutcome
  <2>2. Outcome(p)' = o
    BY <1>1, <1>4, AppendOutcomeNext
  <2>3. Raw(At(p))' = o
    BY <1>4, RawNext
  <2>4. QED
    BY <2>1, <2>2, <2>3
<1>6. Regular(p)' /\ KeyMet(p)'
  BY <1>1, <1>3, <1>4 DEF Kept, Regular, KeyMet, InCall, Outside, ByKey
<1>7. Pieces(p)'
  BY <1>4, <1>5 DEF Pieces
<1>8. Stage(p)' = Stage(p)
  BY <1>1, <1>4 DEF Stage, Fits, Critical, LockOps
<1>9. QED
  BY <1>1, <1>4, <1>5, <1>6, <1>7, <1>8 DEF Kept, Progress, Critical

LEMMA EmbOutcome ==
  ASSUME NEW p \in Procs, Op(p) = "setemb"
  PROVE  Outcome(p) = [key |-> Slot(p).hash, len |-> Slot(p).val_len, val |-> Slot(p).val,
                       emb |-> [h \in 1 .. 2 |-> Ver(p)]]
BY DEF Outcome

LEMMA EmbOutcomeNext ==
  ASSUME NEW p \in Procs, Op(p)' = "setemb", Ver(p)' = Ver(p)
  PROVE  Outcome(p)' = [key |-> Slot(p)'.hash, len |-> Slot(p)'.val_len, val |-> Slot(p)'.val,
                        emb |-> [h \in 1 .. 2 |-> Ver(p)]]
BY DEF Outcome

LEMMA SetEmbKept ==
  ASSUME Typed, NEW p \in Procs, SetEmbFirst(p) \/ SetEmbSecond(p), Kept(p)
  PROVE  Kept(p)' /\ Discreet(p) /\ Progress(p)
<1> USE SlotTyped
<1> DEFINE l == IF pc[p] = "emb1" THEN "emb2" ELSE "close"
           h == IF pc[p] = "emb1" THEN 1 ELSE 2
           x == [Slot(p).embedding EXCEPT ![h] = Ver(p)]
           r == [Slot(p) EXCEPT !.embedding = x]
<1>1. pc[p] \in {"emb1", "emb2"} /\ Op(p) = "setemb" /\ call[p].rc = "ok"
  BY DEF SetEmbFirst, SetEmbSecond, Kept, Regular
<1>2. Then(p, l) /\ S' = [S EXCEPT ![At(p)] = r]
  BY DEF SetEmbFirst, SetEmbSecond, Slot
<1>3. /\ r.hash = Slot(p).hash /\ r.val_len = Slot(p).val_len /\ r.val = Slot(p).val
      /\ r.embedding = x
  BY DEF SlotType
<1>4. Slot(p).embedding \in [1 .. 2 -> Cell] /\ x[h] = Ver(p)
      /\ \A i \in {1, 2} \ {h} : x[i] = Slot(p).embedding[i]
  BY DEF SlotType
<1> HIDE DEF x
<1>5. /\ pc'[p] = l /\ call'[p] = call[p] /\ UNCHANGED << left, ret >>
      /\ At(p)' = At(p) /\ Op(p)' = Op(p) /\ Ver(p)' = Ver(p) /\ Slot(p)' = r
      /\ Discreet(p)
  <2>1. pc[p] \in Critical
    BY <1>1 DEF Critical
  <2> HIDE DEF r, l
  <2>2. QED
    BY <1>2, <1>3, <2>1, Piece
<1> HIDE DEF r
<1>6. /\ Slot(p)'.hash = Slot(p).hash /\ Slot(p)'.val_len = Slot(p).val_len
      /\ Slot(p)'.val = Slot(p).val /\ Slot(p)'.embedding = x
  BY <1>3, <1>5
<1>7. Outcome(p)' = Outcome(p)
  BY <1>1, <1>5, <1>6, EmbOutcome, EmbOutcomeNext
<1>8. pc'[p] = "close" => Outcome(p)' = Raw(At(p))'
  <2>1. SUFFICES ASSUME pc'[p] = "close"
                 PROVE  Outcome(p)' = Raw(At(p))'
    OBVIOUS
  <2>2. pc[p] = "emb2"
    BY <1>1, <1>5, <2>1
  <2>3. x[1] = Ver(p) /\ x[2] = Ver(p)
    BY <1>4, <2>2 DEF Kept, Pieces
  <2>4. x = [i \in 1 .. 2 |-> Ver(p)]
    BY <1>4, <2>3 DEF x
  <2>5. Raw(At(p))' = [key |-> r.hash, len |-> r.val_len, val |-> r.val, emb |-> r.embedding]
    BY <1>5, RawNext
  <2>6. QED
    BY <1>1, <1>3, <1>7, <2>4, <2>5, EmbOutcome
<1>9. Pieces(p)'
  <2>1. pc'[p] = "emb2" => Slot(p)'.embedding[1] = Ver(p)'
    BY <1>1, <1>4, <1>5, <1>6
  <2>2. pc'[p] \notin {"fill", "blank", "link"}
    BY <1>5
  <2>3. QED
    BY <1>8, <2>1, <2>2 DEF Pieces
<1>10. Regular(p)' /\ KeyMet(p)'
  BY <1>1, <1>5, <1>6 DEF Kept, Regular, KeyMet, InCall, Outside, ByKey
<1>11. Stage(p)' = Stage(p)
  BY <1>1, <1>5 DEF Stage, Fits, Critical, LockOps
<1>12. QED
  BY <1>1, <1>5, <1>7, <1>9, <1>10, <1>11 DEF Kept, Progress, Critical

LEMMA PurgeOutcome ==
  ASSUME NEW p \in Procs, Op(p) = "purge"
  PROVE  Outcome(p) = [key |-> Slot(p).hash, len |-> Slot(p).val_len, emb |-> Slot(p).embedding,
                       val |-> Overwrite(Slot(p).val, Swept(p), Zero)]
BY DEF Outcome, Swept

LEMMA PurgeOutcomeNext ==
  ASSUME NEW p \in Procs, Op(p)' = "purge", Swept(p)' = Swept(p)
  PROVE  Outcome(p)' = [key |-> Slot(p)'.hash, len |-> Slot(p)'.val_len,
                        emb |-> Slot(p)'.embedding,
                        val |-> Overwrite(Slot(p)'.val, Swept(p), Zero)]
BY DEF Outcome, Swept, Overwrite

LEMMA PurgeSweepKept ==
  ASSUME Typed, NEW p \in Procs, PurgeSweep(p), Kept(p)
  PROVE  Kept(p)' /\ Discreet(p) /\ Progress(p)
<1> USE SlotTyped
<1> DEFINE w == Overwrite(Slot(p).val, Swept(p), Zero)
           r == [Slot(p) EXCEPT !.val = w]
<1>1. pc[p] = "sweep" /\ Op(p) = "purge" /\ call[p].rc = "ok"
  BY DEF PurgeSweep, Kept, Regular
<1>2. Then(p, "close") /\ S' = [S EXCEPT ![At(p)] = r]
  BY DEF PurgeSweep, Slot, Swept
<1>3. /\ r.hash = Slot(p).hash /\ r.val_len = Slot(p).val_len /\ r.val = w
      /\ r.embedding = Slot(p).embedding
  BY DEF SlotType
<1>4. Overwrite(w, Swept(p), Zero) = w
  BY DEF Overwrite
<1> HIDE DEF w
<1>5. /\ pc'[p] = "close" /\ call'[p] = call[p] /\ UNCHANGED << left, ret >>
      /\ At(p)' = At(p) /\ Op(p)' = Op(p) /\ Ver(p)' = Ver(p) /\ Slot(p)' = r
      /\ Discreet(p)
  <2>1. pc[p] \in Critical
    BY <1>1 DEF Critical
  <2> HIDE DEF r
  <2>2. QED
    BY <1>2, <1>3, <2>1, Piece
<1> HIDE DEF r
<1>6. /\ Slot(p)'.hash = Slot(p).hash /\ Slot(p)'.val_len = Slot(p).val_len
      /\ Slot(p)'.val = w /\ Slot(p)'.embedding = Slot(p).embedding
  BY <1>3, <1>5
<1>7. Outcome(p)' = Outcome(p) /\ Outcome(p)' = Raw(At(p))'
  <2> DEFINE o == [key |-> r.hash, len |-> r.val_len, val |-> w, emb |-> r.embedding]
  <2>1. Outcome(p) = o
    BY <1>1, <1>3, PurgeOutcome DEF w
  <2>2. Swept(p)' = Swept(p)
    BY <1>6 DEF Swept
  <2>3. Outcome(p)' = o
    BY <1>1, <1>3, <1>4, <1>5, <1>6, <2>2, PurgeOutcomeNext
  <2>4. Raw(At(p))' = o
    BY <1>3, <1>5, RawNext
  <2>5. QED
    BY <2>1, <2>3, <2>4
<1>8. Regular(p)' /\ KeyMet(p)'
  BY <1>1, <1>5, <1>6 DEF Kept, Regular, KeyMet, InCall, Outside, ByKey
<1>9. Pieces(p)'
  BY <1>5, <1>7 DEF Pieces
<1>10. Stage(p)' = Stage(p)
  BY <1>1, <1>5 DEF Stage
<1>11. QED
  BY <1>1, <1>5, <1>7, <1>8, <1>9, <1>10 DEF Kept, Progress, Critical

LEMMA BumpPulseKept ==
  ASSUME Typed, NEW p \in Procs, BumpPulse(p), Kept(p)
  PROVE  Kept(p)' /\ Discreet(p) /\ Progress(p)
<1> USE SlotTyped
<1> DEFINE r == Slot(p)
<1>1. pc[p] = "bump" /\ Op(p) = "bump" /\ call[p].rc = "ok"
  BY DEF BumpPulse, Kept, Regular
<1>2. Then(p, "close") /\ S' = [S EXCEPT ![At(p)] = r]
  BY DEF BumpPulse, Slot, Typed, TypeOK
<1>3. /\ pc'[p] = "close" /\ call'[p] = call[p] /\ UNCHANGED << left, ret >>
      /\ At(p)' = At(p) /\ Op(p)' = Op(p) /\ Ver(p)' = Ver(p) /\ Slot(p)' = r
      /\ Discreet(p)
  <2>1. pc[p] \in Critical
    BY <1>1 DEF Critical
  <2>2. QED
    BY <1>2, <2>1, Piece
<1>4. Outcome(p)' = Outcome(p) /\ Outcome(p)' = Raw(At(p))'
  BY <1>1, <1>3, RawNext DEF Outcome
<1>5. Kept(p)'
  BY <1>1, <1>3, <1>4 DEF Kept, Regular, KeyMet, Pieces, InCall, Outside, ByKey
<1>6. Stage(p)' = Stage(p)
  BY <1>1, <1>3 DEF Stage, Fits, Critical, LockOps
<1>7. QED
  BY <1>1, <1>3, <1>4, <1>5, <1>6 DEF Progress, Critical

-----------------------------------------------------------------------------
(* Taking the slot and opening it *)

LEMMA CasWinKept ==
  ASSUME Typed, NEW p \in Procs, CasWin(p), Kept(p), FreeSlotKept
  PROVE  /\ Kept(p)' /\ Discreet(p)
         /\ \A s \in SlotIds : SameCells(s)
         /\ pc'[p] = AfterCas(p) /\ call'[p] = call[p] /\ UNCHANGED << left, ret >>
         /\ Op(p) \in LockOps
<1> USE SlotTyped
<1>1. /\ OthersStay(p) /\ pc'[p] = AfterCas(p) /\ call'[p] = call[p]
      /\ UNCHANGED << left, ret >> /\ pc[p] = "cas"
  BY ThenStays DEF CasWin, Then
<1>2. Op(p) \in LockOps
  BY <1>1 DEF Shape, Op
<1>3. \A s \in SlotIds : SameCells(s)
  <2>1. S \in [SlotIds -> SlotType]
    BY DEF Typed, TypeOK
  <2>2. QED
    BY <2>1 DEF CasWin, SameCells, SlotType
<1>4. call[p].rc = "ok" /\ Op(p) \notin Rewinds
  BY <1>1 DEF Kept, Regular
<1>5. /\ pc'[p] \in {"scrub", "room", "emb1", "bump", "sweep"}
      /\ pc'[p] = "scrub" <=> Op(p) = "set"
      /\ pc'[p] = "room" <=> Op(p) = "append"
      /\ pc'[p] = "emb1" <=> Op(p) = "setemb"
      /\ pc'[p] = "bump" <=> Op(p) = "bump"
      /\ pc'[p] = "sweep" <=> Op(p) = "purge"
  BY <1>1, <1>2 DEF AfterCas, LockOps
<1>6. Op(p)' = Op(p) /\ At(p)' = At(p) /\ Slot(p)'.hash = Slot(p).hash
  BY <1>1, <1>3 DEF Op, At, Slot, SameCells
<1>7. Regular(p)'
  BY <1>1, <1>4, <1>5, <1>6 DEF Kept, Regular, InCall, Outside
<1>8. KeyMet(p)'
  <2>1. Op(p) = "set" => Slot(p).hash \in {NoKey, call[p].key}
    BY <1>1 DEF FreeSlotKept
  <2>2. Op(p) \in ByKey => Slot(p).hash = call[p].key
    BY <1>1 DEF Kept, KeyMet
  <2>3. QED
    BY <1>1, <1>5, <1>6, <2>1, <2>2 DEF KeyMet
<1>9. Pieces(p)'
  BY <1>5 DEF Pieces
<1>10. Discreet(p)
  BY <1>1, <1>3 DEF Discreet
<1>11. QED
  BY <1>1, <1>2, <1>3, <1>7, <1>8, <1>9, <1>10 DEF Kept

(* How a writer goes on when it has opened the slot. *)
Opened(p) ==
  \/ Op(p) = "purge" /\ pc'[p] = "probe" /\ UNCHANGED ret
     /\ Op(p)' = "purge" /\ call'[p].key = call[p].key
  \/ (Op(p) = "bump" \/ (Op(p) = "append" /\ call[p].rc = "toolong")) /\ Return(p, call[p].rc)
  \/ /\ Op(p) \in {"set", "append", "setemb"} /\ call[p].rc = "ok"
     /\ pc'[p] = "pulse" /\ call'[p] = call[p] /\ UNCHANGED ret

LEMMA CloseSlotKept ==
  ASSUME Typed, NEW p \in Procs, CloseSlot(p), Kept(p)
  PROVE  /\ Kept(p)' /\ Discreet(p) /\ Opened(p) /\ UNCHANGED left
         /\ \A s \in SlotIds : SameCells(s)
<1> USE SlotTyped
<1>1. pc[p] = "close" /\ Op(p) \in LockOps
  BY DEF CloseSlot, Shape, Critical, Op
<1>2. \A s \in SlotIds : SameCells(s)
  <2>1. S \in [SlotIds -> SlotType]
    BY DEF Typed, TypeOK
  <2>2. QED
    BY <2>1 DEF CloseSlot, SameCells, SlotType
<1>3. call[p].rc # "ok" => Op(p) = "append" /\ call[p].rc = "toolong"
  BY DEF Kept, Regular
<1>4. CASE Op(p) = "purge"
  <2> DEFINE c == [call[p] EXCEPT !.i = @ + 1]
  <2>1. With(p, "probe", c)
    BY <1>4 DEF CloseSlot
  <2>2. c.op = "purge" /\ c.key = call[p].key /\ c.rc = "ok"
    BY <1>3, <1>4 DEF CallType, Op
  <2> HIDE DEF c
  <2>3. OthersStay(p) /\ pc'[p] = "probe" /\ call'[p] = c /\ UNCHANGED << left, ret >>
    BY <2>1, WithStays DEF With
  <2>4. Opened(p) /\ Discreet(p)
    BY <1>2, <1>4, <2>2, <2>3 DEF Opened, Discreet, Op
  <2>5. Kept(p)'
    BY <2>2, <2>3 DEF Kept, Regular, KeyMet, Pieces, ByKey, Rewinds, InCall, Outside, Op
  <2>6. QED
    BY <1>2, <2>3, <2>4, <2>5
<1>5. CASE Op(p) = "bump" \/ (Op(p) = "append" /\ call[p].rc = "toolong")
  <2>1. Return(p, call[p].rc)
    BY <1>5 DEF CloseSlot
  <2>2. OthersStay(p) /\ pc'[p] = "idle" /\ call'[p] = Idle /\ UNCHANGED left
    BY <2>1, ReturnStays DEF Return, Typed, TypeOK
  <2>3. QED
    BY <1>2, <1>5, <2>1, <2>2, IdleKept DEF Opened, Discreet
<1>6. CASE Op(p) \in {"set", "append", "setemb"} /\ call[p].rc = "ok"
  <2>1. Then(p, "pulse")
    BY <1>6 DEF CloseSlot
  <2>2. OthersStay(p) /\ pc'[p] = "pulse" /\ call'[p] = call[p] /\ UNCHANGED << left, ret >>
    BY <2>1, ThenStays DEF Then
  <2>3. Op(p)' = Op(p) /\ At(p)' = At(p) /\ Slot(p)'.hash = Slot(p).hash
    BY <1>2, <2>2 DEF Op, At, Slot, SameCells
  <2>4. Kept(p)'
    BY <1>1, <1>6, <2>2, <2>3 DEF Kept, Regular, KeyMet, Pieces, InCall, Outside
  <2>5. QED
    BY <1>2, <1>6, <2>2, <2>4 DEF Opened, Discreet
<1>7. QED
  BY <1>1, <1>3, <1>4, <1>5, <1>6 DEF LockOps

-----------------------------------------------------------------------------
(* LinInv is an invariant wherever no set finds another key in the slot it *)
(* saw free *)

LEMMA WriteKept ==
  ASSUME Typed, NEW p \in Procs, Write(p), Kept(p)
  PROVE  /\ Kept(p)' /\ Discreet(p)
         /\ Progress(p) \/ CloseSlot(p)
BY SetScrubKept, SetFillKept, SetBlankKept, SetLinkKept, AppendRoomKept, AppendTooLongKept, AppendExtendKept,
   SetEmbKept, PurgeSweepKept, BumpPulseKept, CloseSlotKept
   DEF Write

LEMMA MoveKept ==
  ASSUME Typed, Typed', FreeSlotKept, NEW p \in Procs, Step(p), Kept(p)
  PROVE  /\ Kept(p)' /\ Discreet(p)
         /\ Roams(p) \/ Finishes(p) \/ CasWin(p) \/ Progress(p) \/ CloseSlot(p)
<1>1. Op(p) \notin Rewinds
  BY DEF Kept, Regular
<1>2. CASE Roams(p)
  BY <1>2, RoamsKept
<1>3. CASE Finishes(p)
  BY <1>3, FinishesKept
<1>4. CASE CasWin(p)
  BY <1>4, CasWinKept
<1>5. CASE Write(p)
  BY <1>5, WriteKept
<1>6. QED
  BY <1>1, <1>2, <1>3, <1>4, <1>5, Kinds

LEMMA LinStep ==
  ASSUME Plain, LinInv, FreeSlotKept, [Next]_vars
  PROVE  LinInv'
<1>1. RewindsAreQuiet
  BY DEF Plain, RewindsAreQuiet
<1>2. IInv'
  BY <1>1, InvariantStep DEF LinInv
<1>3. Typed /\ Typed' /\ SeqlockOwner
  BY <1>2 DEF LinInv, IInv, Typed
<1>4. \A p \in Procs : Kept(p)
  BY DEF LinInv, Kept
<1>5. ASSUME NEW p \in Procs, Kept(p)', Discreet(p)
      PROVE  \A q \in Procs : Kept(q)'
  BY <1>3, <1>4, <1>5, OthersKept
<1>6. CASE UNCHANGED vars
  <2>1. \A q \in Procs : Kept(q)'
    <3> SUFFICES ASSUME NEW q \in Procs
                 PROVE  Kept(q)'
      OBVIOUS
    <3>1. SameCells(At(q)) /\ pc' = pc /\ call' = call /\ left' = left /\ S' = S
      BY <1>6 DEF vars, SameCells
    <3>2. Outcome(q)' = Outcome(q) /\ Raw(At(q))' = Raw(At(q)) /\ Ver(q)' = Ver(q)
      BY <3>1, OutcomeSame
    <3>3. Slot(q)' = Slot(q) /\ Op(q)' = Op(q)
      BY <3>1 DEF Slot, At, Op
    <3>4. QED
      BY <1>4, <3>1, <3>2, <3>3 DEF Kept, Regular, KeyMet, Pieces, InCall
  <2>2. QED
    BY <1>2, <2>1 DEF LinInv, Kept
<1>7. ASSUME NEW p \in Procs, NEW c \in Calls[p], NEW m \in Lens, Begin(p, c, m)
      PROVE  \A q \in Procs : Kept(q)'
  BY <1>3, <1>5, <1>7, BeginKept DEF Plain
<1>8. ASSUME NEW p \in Procs, Step(p)
      PROVE  \A q \in Procs : Kept(q)'
  BY <1>3, <1>4, <1>5, <1>8, MoveKept
<1>9. \A p \in Procs : ~ Kill(p)
  BY DEF Kill, Plain
<1>10. QED
  BY <1>2, <1>6, <1>7, <1>8, <1>9 DEF Next, LinInv, Kept

LEMMA LinInit == Init => LinInv
<1> SUFFICES ASSUME Init
             PROVE  LinInv
  OBVIOUS
<1>1. ReaderExact
  BY DEF Init, ReaderExact, CopyExact
<1>2. IInv
  BY <1>1, TypedInit, OwnerInit DEF IInv, Typed
<1>3. ASSUME NEW p \in Procs
      PROVE  Kept(p)
  BY DEF Init, Idle, Kept, Regular, KeyMet, Pieces, InCall, Outside, Op, Rewinds
<1>4. QED
  BY <1>2, <1>3 DEF LinInv, Kept

-----------------------------------------------------------------------------
(* The registers before and after a step *)

LEMMA HeldRegister ==
  ASSUME NEW p \in Procs, NEW s \in SlotIds
  PROVE  SeqlockOwner /\ Holds(p, s) => Registers[s] = Outcome(p)
<1> SUFFICES ASSUME SeqlockOwner, Holds(p, s)
             PROVE  Registers[s] = Outcome(p)
  OBVIOUS
<1>1. p = CHOOSE q \in Procs : Holds(q, s)
  BY DEF SeqlockOwner
<1>2. QED
  BY <1>1 DEF Registers

LEMMA FreeRegister ==
  ASSUME NEW s \in SlotIds
  PROVE  (\A p \in Procs : ~ Holds(p, s)) => Registers[s] = Raw(s)
BY DEF Registers

(* The same after a step. *)
LEMMA HeldRegisterNext ==
  ASSUME NEW p \in Procs, NEW s \in SlotIds, SeqlockOwner', Holds(p, s)'
  PROVE  Registers'[s] = Outcome(p)'
<1>1. (SeqlockOwner /\ Holds(p, s) => Registers[s] = Outcome(p))'
  BY HeldRegister, PTL
<1>2. QED
  BY <1>1

LEMMA FreeRegisterNext ==
  ASSUME NEW s \in SlotIds, \A p \in Procs : ~ Holds(p, s)'
  PROVE  Registers'[s] = Raw(s)'
<1>1. ((\A p \in Procs : ~ Holds(p, s)) => Registers[s] = Raw(s))'
  BY FreeRegister, PTL
<1>2. QED
  BY <1>1

(* A step of p changes the register of no slot that p neither held nor     *)
(* holds. *)
LEMMA Elsewhere ==
  ASSUME Typed, SeqlockOwner, SeqlockOwner', NEW p \in Procs, Discreet(p),
         NEW s \in SlotIds, ~ Holds(p, s), ~ Holds(p, s)'
  PROVE  Registers'[s] = Registers[s]
<1>1. SameCells(s)
  BY DEF Discreet
<1>2. \A q \in Procs \ {p} : Holds(q, s)' <=> Holds(q, s)
  BY DEF Discreet, OthersStay, Holds, At
<1>3. CASE \A q \in Procs : ~ Holds(q, s)
  <2>1. \A q \in Procs : ~ Holds(q, s)'
    BY <1>2, <1>3
  <2>2. Raw(s)' = Raw(s)
    BY <1>1 DEF Raw, SameCells
  <2>3. QED
    BY <1>3, <2>1, <2>2, FreeRegister, FreeRegisterNext
<1>4. ASSUME NEW q \in Procs, Holds(q, s)
      PROVE  Registers'[s] = Registers[s]
  <2>1. q # p /\ At(q) = s
    BY <1>4 DEF Holds
  <2>2. pc'[q] = pc[q] /\ call'[q] = call[q] /\ left'[q] = left[q]
    BY <2>1 DEF Discreet, OthersStay
  <2>3. Outcome(q)' = Outcome(q)
    BY <1>1, <2>1, <2>2, OutcomeSame
  <2>4. Holds(q, s)'
    BY <1>2, <1>4, <2>1
  <2>5. QED
    BY <1>4, <2>3, <2>4, HeldRegister, HeldRegisterNext
<1>5. QED
  BY <1>3, <1>4

LEMMA RegistersAre == Registers = [s \in SlotIds |-> Registers[s]]
BY DEF Registers

LEMMA RegistersAreNext == Registers' = [s \in SlotIds |-> Registers'[s]]
<1>1. (Registers = [s \in SlotIds |-> Registers[s]])'
  BY RegistersAre, PTL
<1>2. QED
  BY <1>1

(* The slots stay when p neither takes nor opens one, *)
LEMMA AwayRegisters ==
  ASSUME Typed, SeqlockOwner, SeqlockOwner', NEW p \in Procs, Discreet(p),
         pc[p] \notin Critical, pc'[p] \notin Critical
  PROVE  Registers' = Registers
<1>1. \A s \in SlotIds : ~ Holds(p, s) /\ ~ Holds(p, s)'
  BY DEF Holds
<1>2. \A s \in SlotIds : Registers'[s] = Registers[s]
  BY <1>1, Elsewhere
<1>3. QED
  BY <1>2, RegistersAre, RegistersAreNext

(* when it goes on writing the one it holds, *)
LEMMA ProgressRegisters ==
  ASSUME Typed, SeqlockOwner, SeqlockOwner', NEW p \in Procs, Discreet(p), Progress(p)
  PROVE  Registers' = Registers
<1>1. PICK a \in SlotIds : a = At(p)
  BY SlotTyped
<1>2. pc[p] \in Critical /\ pc'[p] \in Critical /\ At(p)' = a
  BY <1>1 DEF Progress
<1>3. \A s \in SlotIds \ {a} : ~ Holds(p, s) /\ ~ Holds(p, s)'
  BY <1>1, <1>2 DEF Holds
<1>4. Registers'[a] = Registers[a]
  <2>1. Registers[a] = Outcome(p)
    BY <1>1, <1>2, HeldRegister DEF Holds
  <2>2. Registers'[a] = Outcome(p)'
    BY <1>2, HeldRegisterNext DEF Holds
  <2>3. QED
    BY <2>1, <2>2 DEF Progress
<1>5. \A s \in SlotIds : Registers'[s] = Registers[s]
  BY <1>3, <1>4, Elsewhere
<1>6. QED
  BY <1>5, RegistersAre, RegistersAreNext

(* and when it opens it: it has left there what it was to leave. *)
LEMMA CloseRegisters ==
  ASSUME Typed, SeqlockOwner, SeqlockOwner', NEW p \in Procs, Discreet(p), Kept(p),
         CloseSlot(p), Opened(p), \A s \in SlotIds : SameCells(s)
  PROVE  Registers' = Registers
<1>1. PICK a \in SlotIds : a = At(p)
  BY SlotTyped
<1>2. pc[p] = "close" /\ pc'[p] \notin Critical
  BY DEF CloseSlot, Opened, Return, Goto, Typed, TypeOK, Critical
<1>3. \A s \in SlotIds : ~ Holds(p, s)'
  BY <1>2 DEF Holds
<1>4. \A s \in SlotIds \ {a} : ~ Holds(p, s)
  BY <1>1 DEF Holds
<1>5. Registers'[a] = Registers[a]
  <2>1. Registers[a] = Raw(a)
    <3>1. Holds(p, a) /\ Outcome(p) = Raw(a)
      BY <1>1, <1>2 DEF Holds, Critical, Kept, Pieces
    <3>2. QED
      BY <3>1, HeldRegister
  <2>2. \A q \in Procs : ~ Holds(q, a)'
    <3>1. \A q \in Procs \ {p} : ~ Holds(q, a)
      BY <1>1, <1>2 DEF SeqlockOwner, Holds, Critical
    <3>2. QED
      BY <1>3, <3>1 DEF Discreet, OthersStay, Holds, At
  <2>3. Registers'[a] = Raw(a)'
    BY <2>2, FreeRegisterNext
  <2>4. QED
    BY <2>1, <2>3 DEF Raw, SameCells
<1>6. \A s \in SlotIds : Registers'[s] = Registers[s]
  BY <1>3, <1>4, <1>5, Elsewhere
<1>7. QED
  BY <1>6, RegistersAre, RegistersAreNext

(* A CAS puts the outcome in the register of a slot that nobody held. *)
LEMMA CasRegisters ==
  ASSUME Typed, SeqlockOwner, SeqlockOwner', NEW p \in Procs, Discreet(p), CasWin(p),
         pc'[p] = AfterCas(p), call'[p] = call[p]
  PROVE  /\ Registers[At(p)] = Raw(At(p))
         /\ Registers' = [Registers EXCEPT ![At(p)] = Outcome(p)']
<1>1. PICK a \in SlotIds : a = At(p)
  BY SlotTyped
<1>2. pc[p] = "cas" /\ pc'[p] \in Critical /\ At(p)' = a /\ ~ Odd(S[a].epoch)
  BY <1>1, SlotTyped DEF CasWin, AfterCas, Critical, At, Shape, Slot
<1>3. \A q \in Procs : ~ Holds(q, a)
  BY <1>2 DEF SeqlockOwner
<1>4. Registers[a] = Raw(a)
  BY <1>3, FreeRegister
<1>5. Registers'[a] = Outcome(p)'
  BY <1>2, HeldRegisterNext DEF Holds
<1>6. \A s \in SlotIds \ {a} : ~ Holds(p, s) /\ ~ Holds(p, s)'
  BY <1>2 DEF Holds, Critical
<1>7. \A s \in SlotIds \ {a} : Registers'[s] = Registers[s]
  BY <1>6, Elsewhere
<1>8. QED
  BY <1>1, <1>4, <1>5, <1>7, RegistersAre, RegistersAreNext

-----------------------------------------------------------------------------
(* The jobs and answers before and after a step *)

LEMMA JobsElsewhere ==
  ASSUME Typed, SeqlockOwner, NEW p \in Procs, Discreet(p), NEW q \in Procs \ {p}
  PROVE  Jobs'[q] = Jobs[q]
<1>1. pc'[q] = pc[q] /\ call'[q] = call[q] /\ Op(q)' = Op(q) /\ At(q)' = At(q)
      /\ At(q) \in SlotIds
  BY SlotTyped DEF Discreet, OthersStay, Op, At
<1>2. Fits(q)' = Fits(q)
  <2>1. CASE pc[q] = "room"
    <3>1. Holds(q, At(q)) /\ ~ Holds(p, At(q))
      BY <1>1, <2>1 DEF Holds, Critical, SeqlockOwner
    <3>2. SameCells(At(q))
      BY <1>1, <3>1 DEF Discreet
    <3>3. Slot(q)'.val_len = Slot(q).val_len
      BY <1>1, <3>2 DEF Slot, SameCells
    <3>4. QED
      BY <1>1, <3>3 DEF Fits
  <2>2. CASE pc[q] # "room"
    BY <1>1, <2>2 DEF Fits
  <2>3. QED
    BY <2>1, <2>2
<1>3. Stage(q)' = Stage(q)
  BY <1>1, <1>2 DEF Stage
<1>4. QED
  BY <1>1, <1>3 DEF Jobs

LEMMA JobsSet ==
  ASSUME Typed, SeqlockOwner, NEW p \in Procs, Discreet(p), NEW j, Jobs'[p] = j
  PROVE  Jobs' = [Jobs EXCEPT ![p] = j]
<1>1. \A q \in Procs \ {p} : Jobs'[q] = Jobs[q]
  BY JobsElsewhere
<1>2. Jobs = [q \in Procs |-> Jobs[q]]
  BY DEF Jobs
<1>3. Jobs' = [q \in Procs |-> Jobs'[q]]
  BY DEF Jobs
<1>4. QED
  BY <1>1, <1>2, <1>3

LEMMA JobsSame ==
  ASSUME Typed, SeqlockOwner, NEW p \in Procs, Discreet(p), Jobs'[p] = Jobs[p]
  PROVE  Jobs' = Jobs
<1>1. \A q \in Procs : Jobs'[q] = Jobs[q]
  BY JobsElsewhere
<1>2. Jobs = [q \in Procs |-> Jobs[q]]
  BY DEF Jobs
<1>3. Jobs' = [q \in Procs |-> Jobs'[q]]
  BY DEF Jobs
<1>4. QED
  BY <1>1, <1>2, <1>3

LEMMA AnswersSet ==
  ASSUME NEW p \in Procs, NEW r, Typed, ret' = [ret EXCEPT ![p] = r]
  PROVE  Answers' = [Answers EXCEPT ![p] =
                       [rc |-> r.rc, copy |-> IF r.op \in {"get", "getemb"} /\ r.rc = "ok"
                                                THEN r.buf ELSE << >>]]
BY DEF Answers, Typed, TypeOK

LEMMA AnswersSame ==
  ASSUME UNCHANGED ret
  PROVE  Answers' = Answers
BY DEF Answers

-----------------------------------------------------------------------------
(* Every step is a step of AtomicSlots, or changes nothing there *)

(* Where the call of p is for its caller. *)
LEMMA StageIs ==
  ASSUME NEW p \in Procs, Kept(p), pc[p] \notin Outside
  PROVE  /\ Op(p) = "purge" \/ Op(p) \notin LockOps => Stage(p) = "called"
         /\ Op(p) \in LockOps \ {"purge"} /\ pc[p] \in After => Stage(p) = "done"
         /\ Op(p) \in LockOps \ {"purge"} /\ pc[p] \notin After \cup Critical => Stage(p) = "called"
         /\ pc[p] = "close" /\ call[p].rc = "toolong" => Stage(p) = "full"
         /\ Op(p) \in LockOps \ {"purge"} /\ pc[p] = "close" /\ call[p].rc = "ok"
              => Stage(p) = "done"
         /\ Op(p) \in LockOps \ {"purge"} /\ pc[p] \in Critical => Stage(p) \in {"done", "full"}
         /\ Stage(p) # "out"
<1>1. pc[p] # "idle"
  BY DEF Outside
<1>2. pc[p] \notin Critical => Fits(p) /\ call[p].rc = "ok"
  BY DEF Fits, Kept, Regular, Critical
<1>3. pc[p] = "close" => Fits(p)
  BY DEF Fits
<1>4. call[p].rc = "toolong" => Op(p) = "append"
  BY DEF Kept, Regular
<1>5. After \cap Critical = {}
  BY DEF After, Critical
<1>6. QED
  BY <1>1, <1>2, <1>3, <1>4, <1>5 DEF Stage, After, Critical, LockOps

LEMMA RoamsMaps ==
  ASSUME Typed, SeqlockOwner, SeqlockOwner', NEW p \in Procs, Roams(p), Discreet(p),
         Kept(p), Kept(p)'
  PROVE  UNCHANGED Atomic!avars
<1>1. /\ pc[p] \notin Outside \cup Critical /\ pc'[p] \notin Outside \cup Critical
      /\ UNCHANGED << left, ret >>
      /\ Op(p)' = Op(p) /\ call'[p].key = call[p].key /\ call'[p].rc = call[p].rc
      /\ Op(p) \in LockOps => (pc[p] \in After <=> pc'[p] \in After)
      /\ Op(p) \in {"set", "append"} => call'[p].n = call[p].n
  BY DEF Roams, Op
<1>2. Registers' = Registers
  BY <1>1, AwayRegisters
<1>3. Fits(p) /\ Fits(p)' /\ call[p].rc = "ok"
  BY <1>1 DEF Fits, Critical, Kept, Regular
<1>4. Stage(p)' = Stage(p)
  BY <1>1, <1>3 DEF Stage, Outside, After
<1>5. Jobs'[p] = Jobs[p]
  BY <1>1, <1>4 DEF Jobs
<1>6. Jobs' = Jobs /\ Answers' = Answers
  BY <1>1, <1>5, JobsSame, AnswersSame
<1>7. QED
  BY <1>1, <1>2, <1>6 DEF Atomic!avars

LEMMA ProgressMaps ==
  ASSUME Typed, SeqlockOwner, SeqlockOwner', NEW p \in Procs, Progress(p), Discreet(p), Kept(p)
  PROVE  UNCHANGED Atomic!avars
<1>1. /\ UNCHANGED << left, ret >> /\ Stage(p)' = Stage(p) /\ Op(p)' = Op(p)
      /\ call'[p].key = call[p].key /\ pc[p] \in Critical /\ pc[p] \notin Outside
  BY DEF Progress, Critical, Outside
<1>2. Registers' = Registers
  BY ProgressRegisters
<1>3. Op(p) \in LockOps
  BY <1>1, SlotTyped DEF Kept, Regular, Shape, Op, Rewinds
<1>4. ~ (Stage(p) = "called" /\ Op(p) \in {"set", "append"})
  BY <1>1, <1>3, StageIs
<1>5. Jobs'[p] = Jobs[p]
  BY <1>1, <1>4 DEF Jobs
<1>6. Jobs' = Jobs /\ Answers' = Answers
  BY <1>1, <1>5, JobsSame, AnswersSame
<1>7. QED
  BY <1>1, <1>2, <1>6 DEF Atomic!avars

LEMMA BeginMaps ==
  ASSUME Typed, SeqlockOwner, SeqlockOwner', NEW p \in Procs, NEW c \in Calls[p],
         NEW m \in Lens, Begin(p, c, m), Discreet(p), c.op \notin Rewinds
  PROVE  Atomic!Call(p)
<1>1. /\ pc[p] = "idle" /\ pc'[p] = "probe" /\ left[p] > 0
      /\ left' = [left EXCEPT ![p] = @ - 1]
      /\ ret' = [ret EXCEPT ![p] = Nothing]
  BY DEF Begin, Goto, Typed, TypeOK
<1>2. /\ Op(p)' = c.op /\ call'[p].key = c.key /\ call'[p].rc = "ok"
      /\ call'[p].n = IF c.op \in {"set", "append"} THEN m ELSE 0
  BY DEF Begin, Idle, Typed, TypeOK, Op
<1>3. c \in [op : OpNames, key : Keys]
  BY CallsAssumption
<1>4. Registers' = Registers
  BY <1>1, AwayRegisters DEF Critical
<1>5. Jobs[p].at = "out"
  BY <1>1 DEF Jobs, Stage
<1>6. Stage(p)' = "called"
  BY <1>1, <1>2 DEF Stage, Fits, Critical
<1>7. Jobs'[p] = [op |-> c.op, key |-> c.key, at |-> "called",
                  n |-> IF c.op \in {"set", "append"} THEN m ELSE 0]
  BY <1>2, <1>6 DEF Jobs
<1>8. Jobs' = [Jobs EXCEPT ![p] = [op |-> c.op, key |-> c.key, at |-> "called",
                  n |-> IF c.op \in {"set", "append"} THEN m ELSE 0]]
  BY <1>7, JobsSet
<1>9. Answers' = [Answers EXCEPT ![p] = [rc |-> "none", copy |-> << >>]]
  BY <1>1, AnswersSet DEF Nothing
<1>10. c.op \in Atomic!Writes \cup Atomic!Reads \cup Atomic!Asides \cup {"purge"}
  BY <1>3 DEF OpNames, LockOps, ReadOps, LabelOps, Rewinds, Atomic!Writes, Atomic!Reads,
              Atomic!Asides
<1>11. QED
  BY <1>1, <1>3, <1>4, <1>5, <1>8, <1>9, <1>10 DEF Atomic!Call, Atomic!NoAnswer

(* A call that returns leaves nothing of itself but its answer. *)
LEMMA Leaves ==
  ASSUME Typed, SeqlockOwner, NEW p \in Procs, NEW rc, Return(p, rc), Discreet(p)
  PROVE  /\ Jobs' = [Jobs EXCEPT ![p] = Atomic!Out]
         /\ Answers' = [Answers EXCEPT ![p] =
              [rc |-> rc, copy |-> IF Op(p) \in {"get", "getemb"} /\ rc = "ok"
                                     THEN call[p].buf ELSE << >>]]
         /\ UNCHANGED left
<1>1. pc'[p] = "idle" /\ call'[p] = Idle /\ UNCHANGED left
  BY ReturnStays DEF Return, Typed, TypeOK
<1>2. Jobs'[p] = Atomic!Out
  BY <1>1 DEF Jobs, Atomic!Out, Stage, Op, Idle
<1>3. Jobs' = [Jobs EXCEPT ![p] = Atomic!Out]
  BY <1>2, JobsSet DEF Atomic!Out
<1>4. Answers' = [Answers EXCEPT ![p] =
        [rc |-> rc, copy |-> IF Op(p) \in {"get", "getemb"} /\ rc = "ok"
                               THEN call[p].buf ELSE << >>]]
  <2> DEFINE r == [op |-> Op(p), key |-> call[p].key, rc |-> rc, n |-> call[p].n,
                   buf |-> call[p].buf]
  <2>1. ret' = [ret EXCEPT ![p] = r]
    BY DEF Return
  <2>2. r.op = Op(p) /\ r.rc = rc /\ r.buf = call[p].buf
    OBVIOUS
  <2> HIDE DEF r
  <2>3. QED
    BY <2>1, <2>2, AnswersSet
<1>5. QED
  BY <1>1, <1>3, <1>4

(* A verified copy is what the register of the slot holds. *)
LEMMA ReadMaps ==
  ASSUME IInv, NEW p \in Procs, Kept(p), Op(p) \in {"get", "getemb"}, pc[p] = "copy",
         Len(call[p].buf) = Wanted(p), Slot(p).epoch = call[p].e, Return(p, "ok"),
         Discreet(p), Registers' = Registers
  PROVE  Atomic!Get(p, At(p)) \/ Atomic!GetEmbedding(p, At(p))
<1>1. Typed /\ SeqlockOwner /\ CopyExact(p) /\ At(p) \in SlotIds
  BY SlotTyped DEF IInv, Typed, ReaderExact
<1>2. /\ ~ Odd(Slot(p).epoch)
      /\ Op(p) = "get" => call[p].n = Slot(p).val_len
      /\ \A c \in 1 .. Len(call[p].buf) : call[p].buf[c] = Source(p)[c]
  BY <1>1 DEF CopyExact
<1>3. \A q \in Procs : ~ Holds(q, At(p))
  BY <1>1, <1>2 DEF SeqlockOwner, Slot
<1>4. Registers[At(p)] = [key |-> Slot(p).hash, len |-> Slot(p).val_len, val |-> Slot(p).val,
                          emb |-> Slot(p).embedding]
  BY <1>1, <1>3, FreeRegister DEF Raw, Slot
<1>5. Slot(p).hash = call[p].key
  BY DEF Kept, KeyMet, ByKey
<1>6. Stage(p) = "called"
  BY StageIs DEF LockOps, Outside
<1>7. Jobs[p].at = "called" /\ Jobs[p].op = Op(p) /\ Jobs[p].key = call[p].key
  BY <1>6 DEF Jobs
<1>8. call[p].buf = [c \in 1 .. Wanted(p) |-> Source(p)[c]]
  <2>1. call[p].buf \in Seq(Cell)
    BY <1>1, SlotTyped DEF CallType
  <2>2. call[p].buf = [c \in 1 .. Wanted(p) |-> call[p].buf[c]]
    BY <2>1
  <2>3. QED
    BY <1>2, <2>2
<1>9. /\ Jobs' = [Jobs EXCEPT ![p] = Atomic!Out]
      /\ Answers' = [Answers EXCEPT ![p] = [rc |-> "ok", copy |-> call[p].buf]]
      /\ UNCHANGED left
  BY <1>1, Leaves
<1>10. CASE Op(p) = "get"
  <2>1. call[p].buf = Atomic!First(Registers[At(p)].val, Registers[At(p)].len)
    BY <1>2, <1>4, <1>8, <1>10 DEF Source, Wanted, Atomic!First
  <2>2. QED
    BY <1>4, <1>5, <1>7, <1>9, <1>10, <2>1 DEF Atomic!Get, Atomic!Called, Atomic!Back
<1>11. CASE Op(p) = "getemb"
  <2>1. Slot(p).embedding \in [1 .. 2 -> Cell]
    BY <1>1, SlotTyped DEF SlotType
  <2>2. call[p].buf = Registers[At(p)].emb
    BY <1>4, <1>8, <1>11, <2>1 DEF Source, Wanted
  <2>3. QED
    BY <1>4, <1>5, <1>7, <1>9, <1>11, <2>2 DEF Atomic!GetEmbedding, Atomic!Called, Atomic!Back
<1>12. QED
  BY <1>10, <1>11

LEMMA FinishesMaps ==
  ASSUME IInv, SeqlockOwner', NEW p \in Procs, Finishes(p), Discreet(p), Kept(p)
  PROVE  \/ Atomic!Return(p) \/ Atomic!Aside(p) \/ Atomic!GiveUp(p)
         \/ \E s \in SlotIds : Atomic!Get(p, s) \/ Atomic!GetEmbedding(p, s)
<1>1. Typed /\ SeqlockOwner /\ At(p) \in SlotIds /\ pc[p] \notin Outside \cup Critical
  BY SlotTyped DEF IInv, Typed, Finishes
<1>2. PICK rc \in Results : Return(p, rc) /\ Ends(p, rc)
  BY DEF Finishes
<1>3. pc'[p] = "idle"
  BY <1>1, <1>2, ReturnStays
<1>4. Registers' = Registers
  BY <1>1, <1>3, AwayRegisters DEF Critical
<1>5. /\ Jobs' = [Jobs EXCEPT ![p] = Atomic!Out]
      /\ Answers' = [Answers EXCEPT ![p] =
           [rc |-> rc, copy |-> IF Op(p) \in {"get", "getemb"} /\ rc = "ok"
                                  THEN call[p].buf ELSE << >>]]
      /\ UNCHANGED left
  BY <1>1, <1>2, Leaves
<1>6. Jobs[p].at = Stage(p) /\ Jobs[p].op = Op(p)
  BY DEF Jobs
<1>7. CASE Op(p) \in LockOps /\ pc[p] \in After /\ rc = "ok"
  <2>1. Stage(p) = "done" \/ (Op(p) = "purge" /\ Stage(p) = "called")
    BY <1>1, <1>7, StageIs
  <2>2. Op(p) \notin {"get", "getemb"}
    BY <1>7 DEF LockOps
  <2>3. QED
    BY <1>4, <1>5, <1>6, <1>7, <2>1, <2>2 DEF Atomic!Return, Atomic!Called, Atomic!Back
<1>8. CASE Op(p) = "purge" /\ rc = "ok"
  <2>1. Stage(p) = "called"
    BY <1>1, <1>8, StageIs
  <2>2. QED
    BY <1>4, <1>5, <1>6, <1>8, <2>1 DEF Atomic!Return, Atomic!Called, Atomic!Back
<1>9. CASE Op(p) # "purge" /\ pc[p] \notin After /\ rc \in {"busy", "nospace", "miss"}
  <2>1. Stage(p) = "called"
    BY <1>1, <1>9, StageIs
  <2>2. QED
    BY <1>4, <1>5, <1>6, <1>9, <2>1 DEF Atomic!GiveUp, Atomic!GivesUp, Atomic!Back
<1>10. CASE Op(p) \in LabelOps \cup {"snapshot", "poll"} /\ rc \in {"ok", "timeout"}
  <2>1. Op(p) \notin LockOps \cup {"get", "getemb"} /\ Op(p) \in Atomic!Asides
    BY <1>10 DEF LabelOps, LockOps, Atomic!Asides
  <2>2. Stage(p) = "called"
    BY <1>1, <2>1, StageIs
  <2>3. QED
    BY <1>4, <1>5, <1>6, <1>10, <2>1, <2>2 DEF Atomic!Aside, Atomic!Back
<1>11. CASE /\ Op(p) \in {"get", "getemb"} /\ pc[p] = "copy" /\ rc = "ok"
            /\ Len(call[p].buf) = Wanted(p) /\ Slot(p).epoch = call[p].e
  BY <1>1, <1>2, <1>4, <1>11, ReadMaps
<1>12. QED
  BY <1>2, <1>7, <1>8, <1>9, <1>10, <1>11 DEF Ends

LEMMA CloseMaps ==
  ASSUME Typed, SeqlockOwner, SeqlockOwner', NEW p \in Procs, CloseSlot(p), Kept(p), Kept(p)',
         Discreet(p), Opened(p), UNCHANGED left, \A s \in SlotIds : SameCells(s)
  PROVE  Atomic!Return(p) \/ UNCHANGED Atomic!avars
<1>1. Registers' = Registers /\ pc[p] = "close" /\ pc[p] \notin Outside
  BY CloseRegisters DEF CloseSlot, Outside
<1>2. Jobs[p].at = Stage(p) /\ Jobs[p].op = Op(p)
  BY DEF Jobs
<1>3. CASE Op(p) = "purge" /\ pc'[p] = "probe" /\ UNCHANGED ret
           /\ Op(p)' = "purge" /\ call'[p].key = call[p].key
  <2>1. Stage(p) = "called" /\ Stage(p)' = "called"
    BY <1>1, <1>3 DEF Stage
  <2>2. Jobs'[p] = Jobs[p]
    BY <1>3, <2>1 DEF Jobs
  <2>3. QED
    BY <1>1, <1>3, <2>2, JobsSame, AnswersSame DEF Atomic!avars
<1>4. CASE (Op(p) = "bump" \/ (Op(p) = "append" /\ call[p].rc = "toolong"))
           /\ Return(p, call[p].rc)
  <2>1. \/ Stage(p) = "done" /\ call[p].rc = "ok"
        \/ Stage(p) = "full" /\ call[p].rc = "toolong"
    BY <1>1, <1>4, StageIs DEF Kept, Regular, LockOps
  <2>2. /\ Jobs' = [Jobs EXCEPT ![p] = Atomic!Out]
        /\ Answers' = [Answers EXCEPT ![p] = [rc |-> call[p].rc, copy |-> << >>]]
    BY <1>4, Leaves
  <2>3. QED
    BY <1>1, <1>2, <2>1, <2>2 DEF Atomic!Return, Atomic!Back
<1>5. CASE /\ Op(p) \in {"set", "append", "setemb"} /\ call[p].rc = "ok"
           /\ pc'[p] = "pulse" /\ call'[p] = call[p] /\ UNCHANGED ret
  <2>1. Op(p)' = Op(p)
    BY <1>5 DEF Op
  <2>2. Stage(p) = "done" /\ Stage(p)' = "done"
    BY <1>1, <1>5, <2>1 DEF Stage, Fits, LockOps, Critical
  <2>3. Jobs'[p] = Jobs[p]
    BY <1>5, <2>1, <2>2 DEF Jobs
  <2>4. QED
    BY <1>1, <1>5, <2>3, JobsSame, AnswersSame DEF Atomic!avars
<1>6. QED
  BY <1>3, <1>4, <1>5 DEF Opened

LEMMA PutIs ==
  ASSUME NEW v, NEW C, NEW x
  PROVE  Atomic!Put(v, C, x) = Overwrite(v, C, x)
BY DEF Atomic!Put, Overwrite

(* The CAS of a call that has an effect of its own is this effect. *)
LEMMA EffectMaps ==
  ASSUME Typed, SeqlockOwner, NEW p \in Procs, Discreet(p), call'[p] = call[p],
         UNCHANGED << left, ret >>, NEW to \in {"done", "full"}, Stage(p)' = to
  PROVE  Atomic!Effect(p, to)
<1>1. PICK n : Jobs[p] = [op |-> Op(p), key |-> call[p].key, at |-> Stage(p), n |-> n]
  BY DEF Jobs
<1>2. Jobs'[p] = [op |-> Op(p), key |-> call[p].key, at |-> to, n |-> 0]
  BY DEF Jobs, Op
<1>3. Jobs'[p] = [Jobs[p] EXCEPT !.at = to, !.n = 0]
  <2>1. PICK j : j = Jobs[p]
    OBVIOUS
  <2>2. PICK i : i = [j EXCEPT !.at = to]
    OBVIOUS
  <2>3. PICK k : k = [i EXCEPT !.n = 0]
    OBVIOUS
  <2>4. i = [op |-> Op(p), key |-> call[p].key, at |-> to, n |-> n]
    BY <1>1, <2>1, <2>2
  <2>5. k = [op |-> Op(p), key |-> call[p].key, at |-> to, n |-> 0]
    BY <2>3, <2>4
  <2>6. k = [j EXCEPT !.at = to, !.n = 0]
    BY <2>2, <2>3, Zenon
  <2>7. QED
    BY <1>2, <2>1, <2>5, <2>6
<1>4. Jobs' = [Jobs EXCEPT ![p].at = to, ![p].n = 0]
  <2>1. \A q \in Procs \ {p} : Jobs'[q] = Jobs[q]
    BY JobsElsewhere
  <2>2. Jobs = [q \in Procs |-> Jobs[q]] /\ Jobs' = [q \in Procs |-> Jobs'[q]]
    BY DEF Jobs
  <2>3. QED
    BY <1>3, <2>1, <2>2
<1>5. QED
  BY <1>4, AnswersSame DEF Atomic!Effect

(* The region that set leaves is its bytes over what was there, or over    *)
(* zeros. *)
LEMMA SetValue ==
  ASSUME NEW p \in Procs, NEW v \in [1 .. MaxLen -> Cell]
  PROVE  \E w \in {v, Atomic!Put(v, 1 .. MaxLen, Zero)} :
           SetWrites(p, v) = Atomic!Put(w, 1 .. call[p].n, Ver(p))
<1> DEFINE z == Overwrite(v, 1 .. MaxLen, Zero)
           at(w) == Overwrite(w, 1 .. call[p].n, Ver(p))
<1>1. CASE Mop \in {"off", "hybrid"}
  <2>1. Scrubbed(call[p].n) \subseteq 1 .. call[p].n
    BY <1>1 DEF Scrubbed
  <2>2. \A c \in 1 .. MaxLen : SetWrites(p, v)[c] = at(v)[c]
    BY <2>1 DEF SetWrites, Overwrite
  <2>3. SetWrites(p, v) = at(v)
    BY <2>2 DEF SetWrites, Overwrite
  <2>4. QED
    BY <2>3, PutIs
<1>2. CASE Mop \notin {"off", "hybrid"}
  <2>1. Scrubbed(call[p].n) = 1 .. MaxLen
    BY <1>2 DEF Scrubbed
  <2>2. SetWrites(p, v) = at(z)
    BY <2>1 DEF SetWrites
  <2>3. QED
    BY <2>2, PutIs
<1>3. QED
  BY <1>1, <1>2

LEMMA CasWinMaps ==
  ASSUME IInv, FreeSlotKept, SeqlockOwner', NEW p \in Procs, CasWin(p), Kept(p), Discreet(p),
         pc'[p] = AfterCas(p), call'[p] = call[p], UNCHANGED << left, ret >>,
         \A s \in SlotIds : SameCells(s), Op(p) \in LockOps
  PROVE  \/ Atomic!Set(p, At(p)) \/ Atomic!Extend(p, At(p)) \/ Atomic!Refuse(p, At(p))
         \/ Atomic!Embed(p, At(p)) \/ Atomic!Bump(p, At(p)) \/ Atomic!Purge(p, At(p))
<1> DEFINE a == At(p)
           r == Registers[a]
<1>1. /\ Typed /\ SeqlockOwner /\ a \in SlotIds /\ Slot(p) \in SlotType /\ call[p] \in CallType
      /\ pc[p] = "cas"
  BY SlotTyped DEF IInv, Typed, CasWin
<1>2. r = [key |-> Slot(p).hash, len |-> Slot(p).val_len, val |-> Slot(p).val,
           emb |-> Slot(p).embedding]
  BY <1>1, CasRegisters DEF Raw, Slot
<1>3. Registers' = [Registers EXCEPT ![a] = Outcome(p)']
  BY <1>1, CasRegisters
<1>4. /\ Op(p)' = Op(p) /\ At(p)' = At(p) /\ Ver(p)' = Ver(p)
      /\ Slot(p)'.hash = Slot(p).hash /\ Slot(p)'.val_len = Slot(p).val_len
      /\ Slot(p)'.val = Slot(p).val /\ Slot(p)'.embedding = Slot(p).embedding
  BY <1>1 DEF Op, At, Ver, Slot, SameCells
<1>5. Stage(p) = "called" /\ call[p].rc = "ok"
  BY <1>1, StageIs DEF Outside, After, Critical, Kept, Regular
<1>6. /\ Jobs[p].at = "called" /\ Jobs[p].op = Op(p) /\ Jobs[p].key = call[p].key
      /\ Jobs[p].n = IF Op(p) \in {"set", "append"} THEN call[p].n ELSE 0
  BY <1>5 DEF Jobs
<1>7. Atomic!Mark(p) = Ver(p)
  BY <1>6 DEF Atomic!Mark, Ver
<1>8. Op(p) # "purge" /\ (Op(p) = "append" => Fits(p)') => Stage(p)' = "done"
  BY <1>4, <1>5 DEF Stage, AfterCas, Critical, LockOps, Fits
<1> HIDE DEF a, r
<1>9. CASE Op(p) = "set"
  <2> DEFINE e == IF call[p].sh = NoKey THEN NoEmbedding ELSE Slot(p).embedding
  <2>1. Outcome(p)' = [key |-> call[p].key, len |-> call[p].n, val |-> SetWrites(p, r.val),
                       emb |-> e]
    BY <1>2, <1>4, <1>9, SetOutcomeNext
  <2>2. r.key \in {NoKey, call[p].key}
    BY <1>1, <1>2, <1>9 DEF FreeSlotKept
  <2>3. PICK w \in {r.val, Atomic!Put(r.val, 1 .. MaxLen, Zero)} :
          SetWrites(p, r.val) = Atomic!Put(w, 1 .. call[p].n, Ver(p))
    BY <1>1, <1>2, SetValue DEF SlotType
  <2>4. e \in {r.emb, Atomic!Both(Zero)}
    BY <1>2 DEF Atomic!Both, NoEmbedding
  <2>5. Atomic!Effect(p, "done")
    BY <1>1, <1>8, <1>9, EffectMaps
  <2> HIDE DEF e
  <2>6. Atomic!Set(p, a)
    BY <1>3, <1>6, <1>7, <1>9, <2>1, <2>2, <2>3, <2>4, <2>5 DEF Atomic!Set, Atomic!Called, r
  <2>7. QED
    BY <2>6 DEF a
<1>10. CASE Op(p) = "append"
  <2>1. pc'[p] = "room" /\ r.key = call[p].key
    BY <1>1, <1>2, <1>10 DEF AfterCas, Kept, KeyMet, ByKey
  <2>2. CASE r.len + call[p].n <= MaxLen
    <3>1. Fits(p)'
      BY <1>2, <1>4, <2>2 DEF Fits
    <3>2. Outcome(p)' = [key |-> r.key, len |-> r.len + call[p].n, emb |-> r.emb,
                         val |-> Atomic!Put(r.val, r.len + 1 .. r.len + call[p].n, Ver(p))]
      BY <1>2, <1>4, <1>10, <2>1, <3>1, PutIs DEF Outcome
    <3>3. Atomic!Effect(p, "done")
      BY <1>1, <1>8, <3>1, <1>10, EffectMaps
    <3>4. Registers' = [Registers EXCEPT ![a].len = @ + call[p].n,
                          ![a].val = Atomic!Put(@, r.len + 1 .. r.len + call[p].n, Ver(p))]
      BY <1>2, <1>3, <3>2 DEF r
    <3>5. Atomic!Extend(p, a)
      BY <1>6, <1>7, <1>10, <2>1, <2>2, <3>3, <3>4 DEF Atomic!Extend, Atomic!Called, r
    <3>6. QED
      BY <3>5 DEF a
  <2>3. CASE ~ (r.len + call[p].n <= MaxLen)
    <3>1. ~ Fits(p)'
      BY <1>2, <1>4, <2>1, <2>3 DEF Fits
    <3>2. Outcome(p)' = r
      BY <1>2, <1>4, <1>10, <2>1, <3>1 DEF Outcome
    <3>3. Registers' = Registers
      BY <1>1, <1>3, <3>2, RegistersAre DEF r
    <3>4. Stage(p)' = "full"
      BY <1>4, <1>10, <2>1, <3>1 DEF Stage, LockOps
    <3>5. Atomic!Effect(p, "full")
      BY <1>1, <3>4, EffectMaps
    <3>6. r.len + call[p].n > MaxLen
      BY <1>1, <1>2, <2>3, SlotsAssumption DEF SlotType, CallType, Length
    <3>7. Atomic!Refuse(p, a)
      BY <1>6, <1>10, <2>1, <3>3, <3>5, <3>6 DEF Atomic!Refuse, Atomic!Called, r
    <3>8. QED
      BY <3>7 DEF a
  <2>4. QED
    BY <2>2, <2>3
<1>11. CASE Op(p) = "setemb"
  <2>1. r.key = call[p].key
    BY <1>1, <1>2, <1>11 DEF Kept, KeyMet, ByKey
  <2>2. Outcome(p)' = [r EXCEPT !.emb = Atomic!Both(Ver(p))]
    BY <1>2, <1>4, <1>11, EmbOutcomeNext DEF Atomic!Both
  <2>3. Registers' = [Registers EXCEPT ![a].emb = Atomic!Both(Ver(p))]
    BY <1>3, <2>2 DEF r
  <2>4. Atomic!Effect(p, "done")
    BY <1>1, <1>8, <1>11, EffectMaps
  <2>5. Atomic!Embed(p, a)
    BY <1>6, <1>7, <1>11, <2>1, <2>3, <2>4 DEF Atomic!Embed, Atomic!Called, r
  <2>6. QED
    BY <2>5 DEF a
<1>12. CASE Op(p) = "bump"
  <2>1. r.key = call[p].key
    BY <1>1, <1>2, <1>12 DEF Kept, KeyMet, ByKey
  <2>2. Outcome(p)' = r
    BY <1>2, <1>4, <1>12 DEF Outcome
  <2>3. Registers' = Registers
    BY <1>1, <1>3, <2>2, RegistersAre DEF r
  <2>4. Atomic!Effect(p, "done")
    BY <1>1, <1>8, <1>12, EffectMaps
  <2>5. Atomic!Bump(p, a)
    BY <1>6, <1>12, <2>1, <2>3, <2>4 DEF Atomic!Bump, Atomic!Called, r
  <2>6. QED
    BY <2>5 DEF a
<1>13. CASE Op(p) = "purge"
  <2> DEFINE C == IF r.key = NoKey THEN 1 .. MaxLen ELSE r.len + 1 .. MaxLen
  <2>1. Swept(p) = C /\ Swept(p)' = C
    BY <1>2, <1>4 DEF Swept
  <2>2. Outcome(p)' = [r EXCEPT !.val = Atomic!Put(r.val, C, Zero)]
    BY <1>2, <1>4, <1>13, <2>1, PurgeOutcomeNext, PutIs
  <2> HIDE DEF C
  <2>3. Registers' = [Registers EXCEPT ![a].val = Atomic!Put(@, C, Zero)]
    BY <1>3, <2>2 DEF r
  <2>4. Jobs' = Jobs
    <3>1. Stage(p)' = "called"
      BY <1>4, <1>13 DEF Stage, AfterCas
    <3>2. Jobs'[p] = Jobs[p]
      BY <1>4, <1>5, <1>13, <3>1 DEF Jobs
    <3>3. QED
      BY <1>1, <3>2, JobsSame
  <2>5. Answers' = Answers
    BY AnswersSame
  <2>6. Atomic!Purge(p, a)
    BY <1>6, <1>13, <2>3, <2>4, <2>5 DEF Atomic!Purge, Atomic!Called, C, r
  <2>7. QED
    BY <2>6 DEF a
<1>14. QED
  BY <1>9, <1>10, <1>11, <1>12, <1>13 DEF LockOps

LEMMA InitMaps == Init => Atomic!Init
<1> SUFFICES ASSUME Init
             PROVE  Atomic!Init
  OBVIOUS
<1>1. \A p \in Procs : pc[p] = "idle" /\ call[p] = Idle /\ ret[p] = Nothing
  BY DEF Init
<1>2. Jobs = [p \in Procs |-> Atomic!Out]
  BY <1>1 DEF Jobs, Stage, Op, Idle, Atomic!Out
<1>3. Answers = [p \in Procs |-> Atomic!NoAnswer]
  BY <1>1 DEF Answers, Nothing, Atomic!NoAnswer
<1>4. ASSUME NEW s \in SlotIds
      PROVE  Registers[s] = Atomic!Register(Layout[s])
  <2>1. \A p \in Procs : ~ Holds(p, s)
    BY <1>1 DEF Holds, Critical
  <2>2. Registers[s] = Raw(s)
    BY <2>1, FreeRegister
  <2>3. S[s] = IF Layout[s] = NoKey THEN Empty ELSE Stored(Layout[s])
    BY DEF Init
  <2>4. /\ Empty.hash = NoKey /\ Empty.val_len = 0 /\ Empty.embedding = NoEmbedding
        /\ Empty.val = [c \in 1 .. MaxLen |-> Zero]
    BY DEF Empty
  <2>5. ASSUME NEW k
        PROVE  /\ Stored(k).hash = k /\ Stored(k).val_len = MaxLen
               /\ Stored(k).embedding = NoEmbedding
               /\ Stored(k).val = [c \in 1 .. MaxLen |-> << k, Boot, 0 >>]
    BY DEF Stored, Empty
  <2>6. CASE Layout[s] = NoKey
    BY <2>2, <2>3, <2>4, <2>6 DEF Raw, Atomic!Register, Atomic!Both, NoEmbedding
  <2>7. CASE Layout[s] # NoKey
    <3>1. PICK k : k = Layout[s] /\ k # NoKey
      BY <2>7
    <3> DEFINE r == [key |-> k, len |-> MaxLen, emb |-> NoEmbedding,
                     val |-> [c \in 1 .. MaxLen |-> << k, Boot, 0 >>]]
    <3>2. Atomic!Register(k) = r
      BY <3>1 DEF Atomic!Register, Atomic!Both, NoEmbedding
    <3>3. S[s] = Stored(k)
      BY <2>3, <3>1
    <3>4. Raw(s) = r
      BY <2>5, <3>3 DEF Raw
    <3>5. QED
      BY <2>2, <3>1, <3>2, <3>4
  <2>8. QED
    BY <2>6, <2>7
<1>5. Registers = [s \in Atomic!Bank |-> Atomic!Register(Layout[s])]
  BY <1>4, RegistersAre DEF Atomic!Bank, SlotIds
<1>6. left = Budget
  BY DEF Init
<1>7. QED
  BY <1>2, <1>3, <1>5, <1>6 DEF Atomic!Init

LEMMA StepMaps ==
  ASSUME Plain, LinInv, LinInv', FreeSlotKept, [Next]_vars
  PROVE  [UNCHANGED Atomic!avars \/ Atomic!Next]_(Atomic!avars)
<1>1. Typed /\ Typed' /\ SeqlockOwner /\ SeqlockOwner' /\ IInv
  BY DEF LinInv, IInv, Typed
<1>2. \A p \in Procs : Kept(p) /\ Kept(p)'
  BY DEF LinInv, Kept
<1>3. CASE UNCHANGED vars
  BY <1>3 DEF vars, Atomic!avars, Registers, Jobs, Answers, Holds, Outcome, Overwrite, Raw,
              Stage, Fits, Slot, At, Op, Ver
<1>4. ASSUME NEW p \in Procs, NEW c \in Calls[p], NEW m \in Lens, Begin(p, c, m)
      PROVE  Atomic!Call(p)
  <2>1. c.op \notin Rewinds
    BY DEF Plain
  <2>2. QED
    BY <1>1, <1>4, <2>1, BeginKept, BeginMaps
<1>5. ASSUME NEW p \in Procs, Step(p)
      PROVE  UNCHANGED Atomic!avars \/ Atomic!Next
  <2>1. Discreet(p) /\ At(p) \in Atomic!Bank
    BY <1>1, <1>2, <1>5, MoveKept, SlotTyped DEF Atomic!Bank, SlotIds
  <2>2. CASE Roams(p)
    BY <1>1, <1>2, <2>1, <2>2, RoamsMaps
  <2>3. CASE Finishes(p)
    BY <1>1, <1>2, <2>1, <2>3, FinishesMaps DEF Atomic!Next, Atomic!Bank, SlotIds
  <2>4. CASE CasWin(p)
    BY <1>1, <1>2, <2>1, <2>4, CasWinKept, CasWinMaps DEF Atomic!Next
  <2>5. CASE Progress(p)
    BY <1>1, <1>2, <2>1, <2>5, ProgressMaps
  <2>6. CASE CloseSlot(p)
    BY <1>1, <1>2, <2>1, <2>6, CloseSlotKept, CloseMaps DEF Atomic!Next
  <2>7. QED
    BY <1>1, <1>2, <1>5, <2>2, <2>3, <2>4, <2>5, <2>6, MoveKept
<1>6. \A p \in Procs : ~ Kill(p)
  BY DEF Kill, Plain
<1>7. QED
  BY <1>3, <1>4, <1>5, <1>6 DEF Next, Atomic!Next

(* Every behaviour of the slot table in which no key comes into the slot   *)
(* that a set of another one saw free is a behaviour of AtomicSlots: the   *)
(* calls take effect at once, as their callers read set, append, get and   *)
(* the rest of splinter.c.                                                 *)
THEOREM FreeSlotKeptLinearizes ==
  ASSUME Plain
  PROVE  Spec /\ []FreeSlotKept => Linearizable
<1>1. Init => LinInv
  BY LinInit
<1>2. LinInv /\ FreeSlotKept /\ [Next]_vars => LinInv'
  BY LinStep
<1>3. LinInv /\ LinInv' /\ FreeSlotKept /\ [Next]_vars
        => [UNCHANGED Atomic!avars \/ Atomic!Next]_(Atomic!avars)
  BY StepMaps
<1>4. Init => Atomic!Init
  BY InitMaps
<1>5. QED
  BY <1>1, <1>2, <1>3, <1>4, PTL DEF Spec, Linearizable, Atomic!Spec

-----------------------------------------------------------------------------
(* Where no other key can come into a free slot *)

(* Only the link of a set changes the key of a slot. *)
LEMMA WriteHash ==
  ASSUME Typed, NEW p \in Procs, Write(p), NEW s \in SlotIds
  PROVE  S'[s].hash = S[s].hash \/ SetLink(p)
<1> USE SlotTyped
<1>1. S \in [SlotIds -> SlotType]
  BY DEF Typed, TypeOK
<1>2. CASE SetScrub(p)
  BY <1>1, <1>2 DEF SetScrub, SlotType
<1>3. CASE SetFill(p)
  BY <1>1, <1>3 DEF SetFill, SlotType
<1>4. CASE AppendRoom(p)
  BY <1>1, <1>4 DEF AppendRoom, SlotType
<1>5. CASE AppendExtend(p)
  BY <1>1, <1>5 DEF AppendExtend, SlotType
<1>6. CASE SetEmbFirst(p)
  BY <1>1, <1>6 DEF SetEmbFirst, SlotType
<1>7. CASE SetEmbSecond(p)
  BY <1>1, <1>7 DEF SetEmbSecond, SlotType
<1>8. CASE PurgeSweep(p)
  BY <1>1, <1>8 DEF PurgeSweep, SlotType
<1>9. CASE CloseSlot(p)
  BY <1>1, <1>9 DEF CloseSlot, SlotType
<1>10. CASE AppendTooLong(p) \/ BumpPulse(p)
  BY <1>10 DEF AppendTooLong, BumpPulse
<1>11. CASE SetBlank(p)
  BY <1>1, <1>11 DEF SetBlank, SlotType
<1>12. QED
  BY <1>2, <1>3, <1>4, <1>5, <1>6, <1>7, <1>8, <1>9, <1>10, <1>11 DEF Write

(* A step of p changes the key of a slot only where there was none, and    *)
(* then to the one that p sets.                                            *)
LEMMA HashMoves ==
  ASSUME Typed, NEW p \in Procs, Step(p), Kept(p), NEW s \in SlotIds
  PROVE  \/ S'[s].hash = S[s].hash
         \/ /\ S[s].hash \in {NoKey, call[p].key} /\ S'[s].hash = call[p].key
            /\ Op(p) = "set" /\ pc[p] = "link"
<1>1. Op(p) \notin Rewinds
  BY DEF Kept, Regular
<1>2. CASE Roams(p) \/ Finishes(p)
  BY <1>2 DEF Roams, Finishes, SameCells
<1>3. CASE CasWin(p)
  <2>1. S \in [SlotIds -> SlotType]
    BY DEF Typed, TypeOK
  <2>2. QED
    BY <1>3, <2>1 DEF CasWin, SlotType
<1>4. CASE SetLink(p)
  <2>1. pc[p] = "link" /\ Op(p) = "set" /\ Slot(p).hash \in {NoKey, call[p].key}
    BY <1>4 DEF SetLink, Kept, Regular, KeyMet
  <2>2. S \in [SlotIds -> SlotType] /\ At(p) \in SlotIds
    BY SlotTyped DEF Typed, TypeOK
  <2>3. S'[s].hash = IF s = At(p) THEN call[p].key ELSE S[s].hash
    BY <1>4, <2>2 DEF SetLink, SlotType
  <2>4. QED
    BY <2>1, <2>3 DEF Slot
<1>5. CASE Write(p)
  BY <1>4, <1>5, WriteHash
<1>6. QED
  BY <1>1, <1>2, <1>3, <1>5, Kinds

(* What the others do leaves a set its slot. *)
LEMMA FreeKeptByOthers ==
  ASSUME Uncontended, Typed, SetsMeet, NEW p \in Procs, Step(p), Kept(p), Discreet(p),
         NEW q \in Procs \ {p}, Op(q)' = "set", pc'[q] \in {"found", "cas"}
  PROVE  Slot(q)'.hash \in {NoKey, call'[q].key}
<1>1. /\ pc'[q] = pc[q] /\ call'[q] = call[q] /\ Op(q)' = Op(q) /\ At(q)' = At(q)
      /\ At(q) \in SlotIds
  BY SlotTyped DEF Discreet, OthersStay, Op, At
<1>2. Slot(q).hash \in {NoKey, call[q].key}
  BY <1>1 DEF SetsMeet, FreeSlotKept
<1>3. CASE S'[At(q)].hash = S[At(q)].hash
  BY <1>1, <1>2, <1>3 DEF Slot
<1>4. CASE /\ S'[At(q)].hash # S[At(q)].hash /\ S'[At(q)].hash = call[p].key
           /\ S[At(q)].hash \in {NoKey, call[p].key} /\ Op(p) = "set" /\ pc[p] = "link"
  <2>1. ~ \A s \in SlotIds : Layout[s] # NoKey
    BY <1>1, <1>4 DEF SetsMeet
  <2>2. \A c \in Calls[p], d \in Calls[q] : c.op = "set" /\ d.op = "set" => c.key = d.key
    BY <2>1 DEF Uncontended, SetsAgree
  <2>3. InCall(p) /\ InCall(q)
    BY <1>1, <1>4 DEF InCall, Outside
  <2>4. call[p].key = call[q].key
    BY <1>1, <1>4, <2>2, <2>3 DEF SetsMeet, SetCalled
  <2>5. QED
    BY <1>1, <1>4, <2>4 DEF Slot
<1>5. QED
  BY <1>1, <1>3, <1>4, HashMoves

(* A set reaches its slot by finding it free, or its own. *)
LEMMA FreeKeptByProbe ==
  ASSUME Typed, Typed', SetsMeet, NEW p \in Procs, Step(p), Kept(p),
         Op(p)' = "set", pc'[p] \in {"found", "cas"}
  PROVE  Slot(p)'.hash \in {NoKey, call'[p].key}
<1>1. pc'[p] \notin Outside \cup Critical \cup After \cup {"probe"}
  BY DEF Outside, Critical, After
<1>2. ~ Finishes(p) /\ ~ CasWin(p) /\ ~ Progress(p) /\ ~ CloseSlot(p)
  <2>1. ~ Finishes(p)
    BY <1>1, ReturnStays DEF Finishes, Outside
  <2>2. ~ CasWin(p)
    BY <1>1, ThenStays DEF CasWin, AfterCas, Critical
  <2>3. ~ Progress(p)
    BY <1>1 DEF Progress
  <2>4. ~ CloseSlot(p)
    BY <1>1, CloseSlotKept DEF Opened, Return, Goto, Typed, TypeOK, Outside, After
  <2>5. QED
    BY <2>1, <2>2, <2>3, <2>4
<1>3. Roams(p)
  <2>1. CASE Write(p)
    BY <1>2, <2>1, WriteKept
  <2>2. QED
    BY <1>2, <2>1, Kinds DEF Kept, Regular
<1>4. At(p)' \in SlotIds /\ Op(p) = "set" /\ call'[p].key = call[p].key
  BY <1>3 DEF Typed, TypeOK, CallType, At, Roams, Op
<1>5. CASE Candidate(p, At(p)')
  BY <1>3, <1>4, <1>5 DEF Candidate, Match, Slot, Roams, SameCells
<1>6. CASE pc[p] # "probe" /\ call'[p].slot = call[p].slot
  <2>1. pc[p] \in {"found", "cas"}
    <3>1. pc[p] \in PCs /\ Shape(pc[p], call[p]) /\ call[p].op = "set"
      BY <1>4, SlotTyped DEF Typed, TypeOK, Op
    <3>2. pc[p] \notin Outside \cup Critical \cup After
      BY <1>1, <1>3, <1>4 DEF Roams, LockOps
    <3>3. QED
      BY <1>6, <3>1, <3>2 DEF PCs, Shape, Outside, After
  <2>2. Slot(p).hash \in {NoKey, call[p].key}
    BY <1>4, <2>1 DEF SetsMeet, FreeSlotKept
  <2>3. QED
    BY <1>3, <1>4, <1>6, <2>2 DEF Slot, At, Roams, SameCells
<1>7. QED
  BY <1>1, <1>3, <1>5, <1>6 DEF Roams

LEMMA SetCalledKept ==
  ASSUME Typed, NEW p \in Procs, Step(p), Kept(p), SetCalled(p), Discreet(p),
         Roams(p) \/ Finishes(p) \/ CasWin(p) \/ Progress(p) \/ CloseSlot(p)
  PROVE  SetCalled(p)'
<1>1. pc[p] \notin Outside
  BY StepStays
<1>2. pc'[p] = "idle" \/ (Op(p)' = Op(p) /\ call'[p].key = call[p].key)
  <2>1. CASE Roams(p)
    BY <2>1 DEF Roams, Op
  <2>2. CASE Finishes(p)
    BY <2>2, ReturnStays DEF Finishes
  <2>3. CASE CasWin(p)
    BY <2>3, ThenStays DEF CasWin, Op
  <2>4. CASE Progress(p)
    BY <2>4 DEF Progress
  <2>5. CASE CloseSlot(p)
    BY <2>5, CloseSlotKept, ReturnStays DEF Opened, Op
  <2>6. QED
    BY <2>1, <2>2, <2>3, <2>4, <2>5
<1>3. QED
  BY <1>1, <1>2 DEF SetCalled, InCall, Outside

LEMMA SetsMeetStep ==
  ASSUME Plain, Uncontended, LinInv, LinInv', SetsMeet, [Next]_vars
  PROVE  SetsMeet'
<1>1. Typed /\ Typed' /\ FreeSlotKept /\ \A p \in Procs : Kept(p)
  BY DEF LinInv, IInv, Typed, Kept, SetsMeet
<1>2. CASE UNCHANGED vars
  BY <1>2 DEF vars, SetsMeet, FreeSlotKept, SetCalled, InCall, Op, Slot, At
<1>3. ASSUME NEW p \in Procs, NEW c \in Calls[p], NEW m \in Lens, Begin(p, c, m)
      PROVE  SetsMeet'
  <2>1. OthersStay(p) /\ pc'[p] = "probe" /\ UNCHANGED S
    BY <1>1, <1>3 DEF Typed, TypeOK, OthersStay, Begin, Goto
  <2>2. Op(p)' = c.op /\ call'[p].key = c.key
    BY <1>1, <1>3 DEF Begin, Idle, Typed, TypeOK, Op
  <2>3. SetCalled(p)'
    BY <2>2 DEF SetCalled
  <2>4. \A q \in Procs \ {p} : SetCalled(q)'
    BY <2>1 DEF SetsMeet, SetCalled, OthersStay, InCall, Op
  <2>5. FreeSlotKept'
    BY <2>1 DEF SetsMeet, FreeSlotKept, OthersStay, Op, Slot, At
  <2>6. QED
    BY <2>1, <2>3, <2>4, <2>5 DEF SetsMeet
<1>4. ASSUME NEW p \in Procs, Step(p)
      PROVE  SetsMeet'
  <2>1. /\ Discreet(p)
        /\ Roams(p) \/ Finishes(p) \/ CasWin(p) \/ Progress(p) \/ CloseSlot(p)
    BY <1>1, <1>4, MoveKept
  <2>2. SetCalled(p)'
    BY <1>1, <1>4, <2>1, SetCalledKept DEF SetsMeet
  <2>3. \A q \in Procs \ {p} : SetCalled(q)'
    BY <2>1 DEF SetsMeet, SetCalled, Discreet, OthersStay, InCall, Op
  <2>4. FreeSlotKept'
    <3> SUFFICES ASSUME NEW q \in Procs, Op(q)' = "set", pc'[q] \in {"found", "cas"}
                 PROVE  Slot(q)'.hash \in {NoKey, call'[q].key}
      BY DEF FreeSlotKept
    <3>1. CASE q = p
      BY <1>1, <1>4, <3>1, FreeKeptByProbe
    <3>2. CASE q # p
      BY <1>1, <1>4, <2>1, <3>2, FreeKeptByOthers
    <3>3. QED
      BY <3>1, <3>2
  <2>5. (\A s \in SlotIds : Layout[s] # NoKey) => \A s \in SlotIds : S'[s].hash # NoKey
    <3> SUFFICES ASSUME \A s \in SlotIds : Layout[s] # NoKey, NEW s \in SlotIds
                 PROVE  S'[s].hash # NoKey
      OBVIOUS
    <3>1. S[s].hash # NoKey
      BY DEF SetsMeet
    <3>2. QED
      BY <1>1, <1>4, <3>1, HashMoves
  <2>6. QED
    BY <2>2, <2>3, <2>4, <2>5 DEF SetsMeet
<1>5. \A p \in Procs : ~ Kill(p)
  BY DEF Kill, Plain
<1>6. QED
  BY <1>2, <1>3, <1>4, <1>5 DEF Next

LEMMA SetsMeetInit == Init => SetsMeet
<1> SUFFICES ASSUME Init
             PROVE  SetsMeet
  OBVIOUS
<1>1. \A p \in Procs : pc[p] = "idle"
  BY DEF Init
<1>2. FreeSlotKept /\ \A p \in Procs : SetCalled(p)
  BY <1>1 DEF FreeSlotKept, SetCalled, InCall, Outside
<1>3. \A k : Stored(k).hash = k
  BY DEF Stored, Empty
<1>4. ASSUME NEW s \in SlotIds, Layout[s] # NoKey
      PROVE  S[s].hash # NoKey
  <2>1. S[s] = Stored(Layout[s])
    BY <1>4 DEF Init
  <2>2. QED
    BY <1>3, <1>4, <2>1
<1>5. QED
  BY <1>2, <1>4 DEF SetsMeet

(* Where no two processes set different keys, or no slot is free to begin  *)
(* with, the slot table implements AtomicSlots whatever is called when: a  *)
(* write changes a slot as a whole and once, a read returns the whole of   *)
(* what it holds, and a call that reports failure has changed nothing.     *)
THEOREM Linearizes ==
  ASSUME Plain, Uncontended
  PROVE  Spec => Linearizable
<1>1. Init => LinInv /\ SetsMeet
  BY LinInit, SetsMeetInit
<1>2. LinInv /\ SetsMeet /\ [Next]_vars => LinInv' /\ SetsMeet'
  <2> SUFFICES ASSUME LinInv, SetsMeet, [Next]_vars
               PROVE  LinInv' /\ SetsMeet'
    OBVIOUS
  <2>1. FreeSlotKept
    BY DEF SetsMeet
  <2>2. LinInv'
    BY <2>1, LinStep
  <2>3. QED
    BY <2>2, SetsMeetStep
<1>3. SetsMeet => FreeSlotKept
  BY DEF SetsMeet
<1>4. Spec => []FreeSlotKept
  BY <1>1, <1>2, <1>3, PTL DEF Spec
<1>5. QED
  BY <1>4, FreeSlotKeptLinearizes, PTL

-----------------------------------------------------------------------------
(* What a get returns was written for its key, with writers that are       *)
(* killed. *)

(* A step answers the caller of p by returning, and nobody else.           *)
LEMMA AnswersOnReturn ==
  ASSUME Typed, NEW p \in Procs, Step(p)
  PROVE  UNCHANGED ret \/ \E rc : Return(p, rc)
<1>1. CASE Probe(p)
  BY <1>1 DEF Probe, ProbeHit, ProbeNext, ProbeEnd, With
<1>2. CASE Enter(p)
  BY <1>2 DEF Enter, LoadOdd, LoadEven, CasWin, CasLose, GiveUpSlot, With, Then
<1>3. CASE Write(p)
  <2>1. CASE CloseSlot(p)
    BY <2>1 DEF CloseSlot, With, Then
  <2>2. QED
    BY <1>3, <2>1
       DEF Write, SetScrub, SetFill, SetBlank, SetLink, AppendRoom, AppendTooLong, AppendExtend,
           SetEmbFirst, SetEmbSecond, PurgeSweep, BumpPulse, With, Then
<1>4. CASE Publish(p)
  <2>1. CASE Pulse(p)
    BY <2>1 DEF Pulse, Then
  <2>2. QED
    BY <1>4, <2>1 DEF Publish, GlobalEpoch, NotifySkip, NotifyDirty, NotifyBell, Then
<1>5. CASE Read(p) \/ Poll(p)
  <2>1. CASE SnapEnd(p)
    BY <2>1 DEF SnapEnd, With
  <2>2. QED
    BY <1>5, <2>1
       DEF Read, Poll, ReadLen, ReadCopy, ReadVerify, SnapOdd, SnapStart, PollClock, PollMoved,
           PollTimeout, With
<1>6. CASE Unset(p) \/ Retrain(p)
  BY <1>6 DEF Unset, UnsetForget, UnsetWipe, UnsetRewind, UnsetReset, UnsetReopen, Retrain,
              RetrainOdd, RetrainZero, RetrainEven, With, Then
<1>7. CASE Mark(p)
  BY <1>7 DEF Mark, SetLabel, UnsetLabel, PulseKeygroup, WatchRegister, WatchUnregister, With, Then
<1>8. QED
  BY <1>1, <1>2, <1>3, <1>4, <1>5, <1>6, <1>7 DEF Step

LEMMA SlotStillKeyed ==
  ASSUME NEW s \in SlotIds, SameCells(s), SlotKeyed(s)
  PROVE  SlotKeyed(s)'
BY DEF SameCells, SlotKeyed, WrittenFor

-----------------------------------------------------------------------------
(* unset and retrain, which run alone *)

LEMMA RewindAlone ==
  ASSUME Typed, QuietAlone, NEW p \in Procs, Step(p), Op(p) \in Rewinds, NEW q \in Procs \ {p}
  PROVE  pc[q] \in Outside
<1>1. InCall(p)
  BY StepStays DEF InCall
<1>2. QED
  BY <1>1 DEF QuietAlone, InCall

(* They take keys and values away, and give none. *)
LEMMA UnsetKeyed ==
  ASSUME Typed, NEW p \in Procs, Unset(p), NEW s \in SlotIds, SlotKeyed(s)
  PROVE  SlotKeyed(s)'
<1>1. S \in [SlotIds -> SlotType] /\ S[s] \in SlotType
  BY DEF Typed, TypeOK
<1>2. CASE UnsetForget(p)
  <2>1. S' = [S EXCEPT ![At(p)].hash = NoKey]
    BY <1>2 DEF UnsetForget
  <2>2. S'[s] = S[s] \/ S'[s].hash = NoKey
    BY <1>1, <2>1 DEF SlotType
  <2>3. QED
    BY <2>2 DEF SlotKeyed, WrittenFor
<1>3. CASE UnsetWipe(p)
  <2>1. S' = [S EXCEPT ![At(p)].key = NoKey, ![At(p)].val =
                IF Mop = "off" THEN @ ELSE Overwrite(@, 1 .. MaxLen, Zero)]
    BY <1>3 DEF UnsetWipe
  <2>2. /\ S'[s].hash = S[s].hash /\ S'[s].val_len = S[s].val_len
        /\ S'[s].val = S[s].val \/ S'[s].val = Overwrite(S[s].val, 1 .. MaxLen, Zero)
    BY <1>1, <2>1 DEF SlotType
  <2>3. S[s].val_len \in 0 .. MaxLen
    BY <1>1 DEF SlotType, Length
  <2>4. \A c \in 1 .. S[s].val_len : Overwrite(S[s].val, 1 .. MaxLen, Zero)[c] = Zero
    BY <2>3, SlotsAssumption DEF Overwrite
  <2>5. QED
    BY <2>2, <2>4 DEF SlotKeyed, WrittenFor
<1>4. CASE UnsetRewind(p) \/ UnsetReopen(p)
  <2>1. PICK e : S' = [S EXCEPT ![At(p)].epoch = e]
    BY <1>1, <1>4 DEF UnsetRewind, UnsetReopen
  <2>2. SameCells(s)
    BY <1>1, <2>1 DEF SameCells, SlotType
  <2>3. QED
    BY <2>2, SlotStillKeyed
<1>5. CASE UnsetReset(p)
  <2>1. S' = [S EXCEPT ![At(p)].val_len = 0, ![At(p)].embedding = NoEmbedding,
                       ![At(p)].watcher_mask = {}, ![At(p)].bloom = {}]
    BY <1>5 DEF UnsetReset
  <2>2. S'[s] = S[s] \/ S'[s].val_len = 0
    BY <1>1, <2>1 DEF SlotType
  <2>3. QED
    BY <2>2 DEF SlotKeyed, WrittenFor
<1>6. QED
  BY <1>2, <1>3, <1>4, <1>5 DEF Unset

LEMMA RewindKeyed ==
  ASSUME Typed, NEW p \in Procs, Step(p), Op(p) \in Rewinds, NEW s \in SlotIds, SlotKeyed(s)
  PROVE  SlotKeyed(s)'
<1> USE SlotTyped
<1>1. S \in [SlotIds -> SlotType]
  BY DEF Typed, TypeOK
<1>2. CASE Probe(p) \/ Publish(p)
  <2>1. UNCHANGED S
    BY <1>2 DEF Probe, ProbeHit, ProbeNext, ProbeEnd, Publish, Pulse, GlobalEpoch, NotifySkip,
                NotifyDirty, NotifyBell
  <2>2. QED
    BY <2>1, StaySame, SlotStillKeyed
<1>3. CASE Enter(p)
  <2>1. CASE CasWin(p)
    <3>1. SameCells(s)
      BY <1>1, <2>1 DEF CasWin, SameCells, SlotType
    <3>2. QED
      BY <3>1, SlotStillKeyed
  <2>2. CASE LoadOdd(p) \/ LoadEven(p) \/ CasLose(p)
    BY <2>2, StaySame, SlotStillKeyed DEF LoadOdd, LoadEven, CasLose
  <2>3. QED
    BY <1>3, <2>1, <2>2 DEF Enter
<1>4. CASE Unset(p)
  BY <1>4, UnsetKeyed
<1>5. CASE Retrain(p)
  <2>1. SameCells(s) \/ (S'[s].hash = S[s].hash /\ S'[s].val = S[s].val /\ S'[s].val_len = S[s].val_len)
    <3>1. CASE RetrainOdd(p)
      BY <1>1, <3>1 DEF RetrainOdd, SlotType
    <3>2. CASE RetrainZero(p)
      BY <1>1, <3>2 DEF RetrainZero, SlotType
    <3>3. CASE RetrainEven(p)
      BY <1>1, <3>3 DEF RetrainEven, SlotType
    <3>4. QED
      BY <1>5, <3>1, <3>2, <3>3 DEF Retrain
  <2>2. QED
    BY <2>1 DEF SameCells, SlotKeyed, WrittenFor
<1>6. ~ Write(p)
  <2>1. pc[p] \in Critical \ {"zeroemb", "even4"} => Op(p) \in LockOps
    BY DEF Shape, Op
  <2>2. ~ (pc[p] \in Critical \ {"zeroemb", "even4"})
    BY <2>1 DEF LockOps, Rewinds
  <2>3. QED
    BY <2>2 DEF Write, SetScrub, SetFill, SetBlank, SetLink, AppendRoom, AppendTooLong, AppendExtend,
                SetEmbFirst, SetEmbSecond, PurgeSweep, BumpPulse, CloseSlot, Critical
<1>7. ~ Read(p) /\ ~ Poll(p) /\ ~ Mark(p)
  BY DEF Read, ReadLen, ReadCopy, ReadVerify, SnapOdd, SnapStart, SnapEnd, Poll, PollClock,
         PollMoved, PollTimeout, Mark, SetLabel, UnsetLabel, PulseKeygroup, WatchRegister,
         WatchUnregister, Shape, Op, Rewinds
<1>8. QED
  BY <1>2, <1>3, <1>4, <1>5, <1>6, <1>7 DEF Step

(* ... and they ask nothing of their own slot. *)
LEMMA RewindFinds ==
  ASSUME Typed, Typed', NEW p \in Procs, Step(p), Op(p) \in Rewinds
  PROVE  Finds(p)' /\ Prepares(p)'
<1>1. pc'[p] \in Outside \/ Op(p)' = Op(p)
  BY StepStays DEF KeepsCall, Op
<1>2. Shape(pc[p], call[p])'
  BY DEF Typed, CallShape
<1>3. pc'[p] \notin {"room", "extend", "scrub", "fill", "blank", "link"}
  BY <1>1, <1>2 DEF Shape, Outside, Critical, Op, LockOps, Rewinds
<1>4. InCall(p)' => Op(p)' \notin {"get", "append"}
  BY <1>1 DEF InCall, Rewinds
<1>5. QED
  BY <1>3, <1>4 DEF Finds, Prepares

-----------------------------------------------------------------------------
(* The others: what a step leaves of them *)

(* p changes what a slot holds only while it holds its seqlock, and its    *)
(* key only where there was none.                                          *)
Careful(p) ==
  /\ OthersStay(p)
  /\ \A s \in SlotIds :
       SameCells(s) \/ (Holds(p, s) /\ (S'[s].hash = S[s].hash \/ S[s].hash = NoKey))

LEMMA OthersFind ==
  ASSUME Typed, SeqlockOwner, NEW p \in Procs, Careful(p),
         NEW q \in Procs \ {p}, Finds(q), Prepares(q)
  PROVE  Finds(q)' /\ Prepares(q)'
<1>1. /\ pc'[q] = pc[q] /\ call'[q] = call[q] /\ Op(q)' = Op(q) /\ At(q)' = At(q)
      /\ At(q) \in SlotIds /\ InCall(q)' = InCall(q)
  BY SlotTyped DEF Careful, OthersStay, Op, At, InCall
<1>2. CASE SameCells(At(q))
  <2>1. Slot(q)'.hash = Slot(q).hash /\ Slot(q)'.val_len = Slot(q).val_len /\ Slot(q)'.val = Slot(q).val
    BY <1>1, <1>2 DEF Slot, SameCells
  <2>2. Finds(q)'
    BY <1>1, <2>1 DEF Finds
  <2>3. Prepares(q)'
    BY <1>1, <2>1 DEF Prepares, WrittenFor
  <2>4. QED
    BY <2>2, <2>3
<1>3. CASE ~ SameCells(At(q))
  <2>1. Holds(p, At(q)) /\ (S'[At(q)].hash = S[At(q)].hash \/ S[At(q)].hash = NoKey)
    BY <1>1, <1>3 DEF Careful
  <2>2. pc[q] \notin Critical
    BY <1>1, <2>1 DEF SeqlockOwner, Holds
  <2>3. Prepares(q)'
    BY <1>1, <2>2 DEF Prepares, Critical
  <2>4. ASSUME InCall(q), pc[q] # "probe", Op(q) \in {"get", "append"}
        PROVE  Slot(q)'.hash = call[q].key
    <3>1. Slot(q).hash = call[q].key /\ call[q].key \in Keys
      BY <2>4, SlotTyped DEF Finds, Shape, InCall
    <3>2. QED
      BY <1>1, <2>1, <3>1, KeysAssumption DEF Slot
  <2>5. Finds(q)'
    BY <1>1, <2>2, <2>4 DEF Finds, Critical
  <2>6. QED
    BY <2>3, <2>5
<1>4. QED
  BY <1>2, <1>3

(* Outside the seqlocks nothing changes hands.                             *)
LEMMA RoamsFinds ==
  ASSUME Typed, Typed', NEW p \in Procs, Roams(p), Finds(p)
  PROVE  Finds(p)' /\ Prepares(p)' /\ Careful(p)
<1>1. /\ At(p)' \in SlotIds /\ Op(p)' = Op(p) /\ call'[p].key = call[p].key
      /\ pc[p] \notin Outside \cup Critical /\ pc'[p] \notin Outside \cup Critical
  BY DEF Typed, TypeOK, CallType, At, Roams, Op
<1>2. ASSUME Op(p) \in {"get", "append"}, pc'[p] # "probe"
      PROVE  Slot(p)'.hash = call[p].key
  <2>1. CASE Candidate(p, At(p)')
    BY <1>1, <1>2, <2>1 DEF Candidate, Match, Slot, Roams, SameCells
  <2>2. CASE pc[p] # "probe" /\ call'[p].slot = call[p].slot
    BY <1>1, <1>2, <2>2 DEF Finds, InCall, Slot, At, Roams, SameCells
  <2>3. QED
    BY <1>2, <2>1, <2>2 DEF Roams
<1>3. Finds(p)'
  BY <1>1, <1>2 DEF Finds, Critical
<1>4. Prepares(p)'
  BY <1>1 DEF Prepares, Critical
<1>5. QED
  BY <1>3, <1>4 DEF Careful, Roams

LEMMA OutsideFinds ==
  ASSUME NEW p \in Procs, pc'[p] \in Outside \cup {"probe"}
  PROVE  Finds(p)' /\ Prepares(p)'
BY DEF Finds, Prepares, InCall, Outside

LEMMA FinishesFinds ==
  ASSUME Typed, NEW p \in Procs, Finishes(p)
  PROVE  Finds(p)' /\ Prepares(p)' /\ Careful(p)
<1>1. OthersStay(p) /\ pc'[p] = "idle"
  BY ReturnStays DEF Finishes
<1>2. QED
  BY <1>1, OutsideFinds DEF Finishes, Careful, Outside

LEMMA CasFinds ==
  ASSUME Typed, NEW p \in Procs, CasWin(p), Finds(p), FreeSlotKept
  PROVE  Finds(p)' /\ Prepares(p)' /\ Careful(p) /\ \A s \in SlotIds : SameCells(s)
<1>1. OthersStay(p) /\ pc'[p] = AfterCas(p) /\ call'[p] = call[p] /\ pc[p] = "cas"
  BY ThenStays DEF CasWin
<1>2. \A s \in SlotIds : SameCells(s)
  <2>1. S \in [SlotIds -> SlotType]
    BY DEF Typed, TypeOK
  <2>2. QED
    BY <2>1 DEF CasWin, SameCells, SlotType
<1>3. Op(p)' = Op(p) /\ Slot(p)'.hash = Slot(p).hash /\ InCall(p)
  BY <1>1, <1>2, SlotTyped DEF Op, At, Slot, SameCells, InCall, Outside
<1>4. /\ pc'[p] \in {"scrub", "room", "emb1", "bump", "sweep"}
      /\ pc'[p] = "scrub" => Op(p) = "set"
      /\ pc'[p] = "room" => Op(p) = "append"
  BY <1>1 DEF AfterCas
<1>5. Op(p) = "set" => Slot(p).hash \in {NoKey, call[p].key}
  BY <1>1 DEF FreeSlotKept
<1>6. Finds(p)'
  BY <1>1, <1>3, <1>4, <1>5 DEF Finds
<1>7. Prepares(p)'
  BY <1>4 DEF Prepares
<1>8. QED
  BY <1>1, <1>2, <1>6, <1>7 DEF Careful

-----------------------------------------------------------------------------
(* The writer's own slot *)

(* What each of its steps has to show, and what follows for the rest.      *)
Gives(p) == SlotKeyed(At(p))' /\ Prepares(p)' /\ Finds(p)'

LEMMA WriteCareful ==
  ASSUME Typed, NEW p \in Procs, Write(p), Finds(p)
  PROVE  Careful(p) /\ \A s \in SlotIds \ {At(p)} : SameCells(s)
<1> USE SlotTyped
<1>1. S \in [SlotIds -> SlotType] /\ pc[p] \in Critical
  BY DEF Typed, TypeOK, Write, SetScrub, SetFill, SetBlank, SetLink, AppendRoom, AppendTooLong, AppendExtend,
         SetEmbFirst, SetEmbSecond, PurgeSweep, BumpPulse, CloseSlot, Critical
<1>2. \E r : S' = [S EXCEPT ![At(p)] = r]
  <2>1. CASE AppendTooLong(p) \/ BumpPulse(p)
    <3>1. S' = [S EXCEPT ![At(p)] = S[At(p)]]
      BY <1>1, <2>1 DEF AppendTooLong, BumpPulse
    <3>2. QED
      BY <3>1
  <2>2. CASE SetScrub(p) \/ SetFill(p) \/ SetBlank(p) \/ SetLink(p)
    BY <2>2 DEF SetScrub, SetFill, SetBlank, SetLink
  <2>3. CASE AppendRoom(p) \/ AppendExtend(p)
    BY <2>3 DEF AppendRoom, AppendExtend
  <2>4. CASE SetEmbFirst(p) \/ SetEmbSecond(p)
    BY <2>4 DEF SetEmbFirst, SetEmbSecond
  <2>5. CASE PurgeSweep(p) \/ CloseSlot(p)
    BY <2>5 DEF PurgeSweep, CloseSlot
  <2>6. QED
    BY <2>1, <2>2, <2>3, <2>4, <2>5 DEF Write
<1>3. \A s \in SlotIds \ {At(p)} : SameCells(s)
  BY <1>1, <1>2 DEF SameCells
<1>4. S'[At(p)].hash = S[At(p)].hash \/ S[At(p)].hash = NoKey
  <2>1. CASE SetLink(p)
    <3>1. S'[At(p)].hash = call[p].key
      BY <1>1, <2>1 DEF SetLink, SlotType
    <3>2. S[At(p)].hash \in {NoKey, call[p].key}
      BY <2>1 DEF SetLink, Finds, Slot
    <3>3. QED
      BY <3>1, <3>2
  <2>2. QED
    BY <2>1, WriteHash
<1>5. OthersStay(p)
  BY StepStays DEF Step, KeepsCall
<1>6. QED
  BY <1>1, <1>3, <1>4, <1>5 DEF Careful, Holds

(* The slot of p after a step of its own that stores in it.                *)
LEMMA OwnSlot ==
  ASSUME Typed, NEW p \in Procs, NEW l, NEW c \in CallType, With(p, l, c),
         c.op = call[p].op, c.key = call[p].key, c.slot = call[p].slot
  PROVE  /\ pc'[p] = l /\ call'[p] = c /\ Op(p)' = Op(p) /\ At(p)' = At(p) /\ At(p) \in SlotIds
         /\ Slot(p)' = S'[At(p)] /\ call'[p].key = call[p].key
<1>1. pc'[p] = l /\ call'[p] = c
  BY WithStays
<1>2. QED
  BY <1>1, SlotTyped DEF Op, At, Slot

LEMMA OwnSlotThen ==
  ASSUME Typed, NEW p \in Procs, NEW l, Then(p, l)
  PROVE  /\ pc'[p] = l /\ call'[p] = call[p] /\ Op(p)' = Op(p) /\ At(p)' = At(p) /\ At(p) \in SlotIds
         /\ Slot(p)' = S'[At(p)] /\ call'[p].key = call[p].key
<1>1. pc'[p] = l /\ call'[p] = call[p]
  BY ThenStays
<1>2. QED
  BY <1>1, SlotTyped DEF Op, At, Slot

LEMMA OwnVersion ==
  ASSUME Typed, NEW p \in Procs
  PROVE  Ver(p)[1] = call[p].key
BY DEF Ver

(* Cells written for k, overwritten with more of k, or with zeroes, still  *)
(* are. *)
LEMMA OverwriteFor ==
  ASSUME NEW v, NEW C, NEW x, NEW k, NEW n \in 0 .. MaxLen, x = Zero \/ x[1] = k,
         \A c \in 1 .. n : c \in C \/ (v[c] # Zero => v[c][1] = k)
  PROVE  WrittenFor(Overwrite(v, C, x), n, k)
<1> SUFFICES ASSUME NEW c \in 1 .. n, Overwrite(v, C, x)[c] # Zero
             PROVE  Overwrite(v, C, x)[c][1] = k
  BY DEF WrittenFor
<1>1. c \in 1 .. MaxLen
  BY SlotsAssumption
<1>2. Overwrite(v, C, x)[c] = IF c \in C THEN x ELSE v[c]
  BY <1>1, OverwriteAt
<1>3. QED
  BY <1>2

LEMMA ScrubGives ==
  ASSUME Typed, NEW p \in Procs, SetScrub(p), Finds(p), SlotKeyed(At(p))
  PROVE  Gives(p)
<1> USE SlotTyped
<1> DEFINE w == Overwrite(Slot(p).val, Scrubbed(call[p].n), Zero)
           v == Overwrite(w, {1}, Ver(p))
<1>1. /\ pc[p] = "scrub" /\ pc'[p] = "fill" /\ call'[p] = call[p] /\ Op(p)' = Op(p) /\ At(p)' = At(p)
      /\ Slot(p)' = S'[At(p)]
  BY OwnSlotThen DEF SetScrub
<1>2. S \in [SlotIds -> SlotType] /\ S' = [S EXCEPT ![At(p)].val = v]
  BY DEF Typed, TypeOK, SetScrub, Slot
<1>3. S'[At(p)].hash = S[At(p)].hash /\ S'[At(p)].val_len = S[At(p)].val_len /\ S'[At(p)].val = v
  BY <1>2 DEF SlotType
<1>4. Slot(p).val_len \in 0 .. MaxLen /\ Slot(p).hash \in {NoKey, call[p].key}
  BY <1>1 DEF SlotType, Length, Finds
<1>5. WrittenFor(v, 1, call[p].key)
  <2>1. 1 \in 0 .. MaxLen
    BY SlotsAssumption
  <2>2. QED
    BY <2>1, OwnVersion, OverwriteFor
<1>6. Slot(p).hash # NoKey => WrittenFor(v, Slot(p).val_len, call[p].key)
  <2> SUFFICES ASSUME Slot(p).hash # NoKey
               PROVE  WrittenFor(v, Slot(p).val_len, call[p].key)
    OBVIOUS
  <2>1. WrittenFor(Slot(p).val, Slot(p).val_len, call[p].key)
    BY <1>4 DEF SlotKeyed, Slot
  <2>2. \A c \in 1 .. Slot(p).val_len : Slot(p).val[c] # Zero => Slot(p).val[c][1] = call[p].key
    BY <2>1 DEF WrittenFor
  <2>3. WrittenFor(w, Slot(p).val_len, call[p].key)
    BY <1>4, <2>2, OverwriteFor
  <2>4. \A c \in 1 .. Slot(p).val_len : w[c] # Zero => w[c][1] = call[p].key
    BY <2>3 DEF WrittenFor
  <2> HIDE DEF w
  <2>5. QED
    BY <1>4, <2>4, OwnVersion, OverwriteFor
<1> HIDE DEF v, w
<1>7. SlotKeyed(At(p))'
  BY <1>1, <1>3, <1>4, <1>6 DEF SlotKeyed, Slot, WrittenFor
<1>8. Prepares(p)'
  BY <1>1, <1>3, <1>5 DEF Prepares, WrittenFor
<1>9. Finds(p)'
  BY <1>1, <1>3, <1>4 DEF Finds, Slot, InCall, Outside
<1>10. QED
  BY <1>7, <1>8, <1>9 DEF Gives

LEMMA FillGives ==
  ASSUME Typed, NEW p \in Procs, SetFill(p), Finds(p), Prepares(p)
  PROVE  Gives(p)
<1> USE SlotTyped
<1> DEFINE v == Overwrite(Slot(p).val, 2 .. call[p].n, Ver(p))
           n == call[p].n
<1>1. /\ pc[p] = "fill" /\ pc'[p] = "blank" /\ call'[p] = call[p] /\ Op(p)' = Op(p) /\ At(p)' = At(p)
      /\ Slot(p)' = S'[At(p)]
  BY OwnSlotThen DEF SetFill
<1>2. S \in [SlotIds -> SlotType] /\ S' = [S EXCEPT ![At(p)].val = v, ![At(p)].val_len = n]
  BY DEF Typed, TypeOK, SetFill, Slot
<1>3. S'[At(p)].hash = S[At(p)].hash /\ S'[At(p)].val_len = n /\ S'[At(p)].val = v
  BY <1>2 DEF SlotType
<1>4. n \in 0 .. MaxLen /\ Slot(p).hash \in {NoKey, call[p].key}
  BY <1>1 DEF CallType, Length, Finds
<1>5. WrittenFor(v, n, call[p].key)
  <2>1. \A c \in 1 .. n : c \in 2 .. n \/ (Slot(p).val[c] # Zero => Slot(p).val[c][1] = call[p].key)
    BY <1>1, <1>4 DEF Prepares, WrittenFor
  <2>2. QED
    BY <1>4, <2>1, OwnVersion, OverwriteFor
<1> HIDE DEF v, n
<1>6. SlotKeyed(At(p))'
  BY <1>1, <1>3, <1>4, <1>5 DEF SlotKeyed, Slot, WrittenFor
<1>7. Prepares(p)'
  BY <1>1, <1>3, <1>5 DEF Prepares, WrittenFor
<1>8. Finds(p)'
  BY <1>1, <1>3, <1>4 DEF Finds, Slot, InCall, Outside
<1>9. QED
  BY <1>6, <1>7, <1>8 DEF Gives

LEMMA BlankGives ==
  ASSUME Typed, NEW p \in Procs, SetBlank(p), Finds(p), Prepares(p)
  PROVE  Gives(p)
<1> USE SlotTyped
<1>1. /\ pc[p] = "blank" /\ pc'[p] = "link" /\ call'[p] = call[p] /\ Op(p)' = Op(p) /\ At(p)' = At(p)
      /\ Slot(p)' = S'[At(p)]
  BY OwnSlotThen DEF SetBlank
<1>2. S \in [SlotIds -> SlotType]
  BY DEF Typed, TypeOK
<1>3. /\ S'[At(p)].hash = S[At(p)].hash /\ S'[At(p)].val_len = S[At(p)].val_len
      /\ S'[At(p)].val = S[At(p)].val
  BY <1>2 DEF SetBlank, SlotType
<1>4. /\ WrittenFor(S[At(p)].val, S[At(p)].val_len, call[p].key)
      /\ S[At(p)].hash \in {NoKey, call[p].key} /\ Op(p) = "set"
  BY <1>1 DEF Prepares, Finds, Slot
<1>5. SlotKeyed(At(p))'
  BY <1>1, <1>3, <1>4 DEF SlotKeyed, WrittenFor
<1>6. Prepares(p)'
  BY <1>1, <1>3, <1>4 DEF Prepares, WrittenFor
<1>7. Finds(p)'
  BY <1>1, <1>3, <1>4 DEF Finds, InCall, Outside
<1>8. QED
  BY <1>5, <1>6, <1>7 DEF Gives

LEMMA LinkGives ==
  ASSUME Typed, NEW p \in Procs, SetLink(p), Finds(p), Prepares(p)
  PROVE  Gives(p)
<1> USE SlotTyped
<1>1. /\ pc[p] = "link" /\ pc'[p] = "close" /\ call'[p] = call[p] /\ Op(p)' = Op(p) /\ At(p)' = At(p)
      /\ Slot(p)' = S'[At(p)]
  BY OwnSlotThen DEF SetLink
<1>2. S \in [SlotIds -> SlotType]
  BY DEF Typed, TypeOK
<1>3. /\ S'[At(p)].hash = call[p].key /\ S'[At(p)].val_len = S[At(p)].val_len
      /\ S'[At(p)].val = S[At(p)].val
  BY <1>2 DEF SetLink, SlotType
<1>4. WrittenFor(S[At(p)].val, S[At(p)].val_len, call[p].key)
  BY <1>1 DEF Prepares, Slot
<1>5. SlotKeyed(At(p))'
  BY <1>1, <1>3, <1>4 DEF SlotKeyed, WrittenFor
<1>6. Prepares(p)'
  BY <1>1 DEF Prepares
<1>7. Finds(p)'
  BY <1>1, <1>3 DEF Finds, InCall, Outside
<1>8. QED
  BY <1>5, <1>6, <1>7 DEF Gives

(* append writes behind the value, and lengthens it afterwards.            *)
LEMMA RoomGives ==
  ASSUME Typed, NEW p \in Procs, AppendRoom(p), Finds(p), SlotKeyed(At(p))
  PROVE  Gives(p)
<1> USE SlotTyped
<1> DEFINE len == Slot(p).val_len
           n == len + call[p].n
           v == Overwrite(Slot(p).val, len + 1 .. n, Ver(p))
           d == [call[p] EXCEPT !.n = len + @]
<1>1. /\ len \in 0 .. MaxLen /\ call[p].n \in 0 .. MaxLen /\ n <= MaxLen
      /\ Slot(p).hash = call[p].key /\ call[p].key \in Keys /\ pc[p] = "room"
  BY DEF AppendRoom, SlotType, CallType, Length, Finds, Shape, Outside
<1>2. n \in 0 .. MaxLen
  BY <1>1, SlotsAssumption
<1>3. /\ d \in CallType /\ d.op = call[p].op /\ d.key = call[p].key /\ d.slot = call[p].slot
      /\ d.n = n
  BY <1>2 DEF CallType, Length
<1>4. With(p, "extend", d) /\ S' = [S EXCEPT ![At(p)].val = v]
  BY DEF AppendRoom, Slot
<1> HIDE DEF d
<1>5. /\ pc'[p] = "extend" /\ call'[p] = d /\ Op(p)' = Op(p) /\ At(p)' = At(p)
      /\ Slot(p)' = S'[At(p)] /\ call'[p].key = call[p].key
  BY <1>3, <1>4, OwnSlot
<1>6. S'[At(p)].hash = S[At(p)].hash /\ S'[At(p)].val_len = len /\ S'[At(p)].val = v
  <2>1. S \in [SlotIds -> SlotType]
    BY DEF Typed, TypeOK
  <2>2. QED
    BY <1>4, <2>1 DEF SlotType, Slot
<1>7. \A c \in 1 .. len : Slot(p).val[c] # Zero => Slot(p).val[c][1] = call[p].key
  BY <1>1, KeysAssumption DEF SlotKeyed, WrittenFor, Slot
<1>8. WrittenFor(v, n, call[p].key)
  <2>1. \A c \in 1 .. n : c \in len + 1 .. n \/ (Slot(p).val[c] # Zero => Slot(p).val[c][1] = call[p].key)
    BY <1>1, <1>2, <1>7
  <2>2. QED
    BY <1>2, <2>1, OwnVersion, OverwriteFor
<1>9. WrittenFor(v, len, call[p].key)
  BY <1>1, <1>7, OwnVersion, OverwriteFor
<1> HIDE DEF v, n, len
<1>10. SlotKeyed(At(p))'
  BY <1>1, <1>5, <1>6, <1>9 DEF SlotKeyed, WrittenFor, Slot
<1>11. Prepares(p)'
  BY <1>3, <1>5, <1>6, <1>8 DEF Prepares, WrittenFor
<1>12. Finds(p)'
  BY <1>1, <1>5, <1>6 DEF Finds, InCall, Outside, Slot
<1>13. QED
  BY <1>10, <1>11, <1>12 DEF Gives

LEMMA ExtendGives ==
  ASSUME Typed, NEW p \in Procs, AppendExtend(p), Finds(p), Prepares(p)
  PROVE  Gives(p)
<1> USE SlotTyped
<1>1. /\ pc[p] = "extend" /\ pc'[p] = "close" /\ call'[p] = call[p] /\ Op(p)' = Op(p) /\ At(p)' = At(p)
      /\ Slot(p)' = S'[At(p)]
  BY OwnSlotThen DEF AppendExtend
<1>2. S \in [SlotIds -> SlotType]
  BY DEF Typed, TypeOK
<1>3. /\ S'[At(p)].hash = S[At(p)].hash /\ S'[At(p)].val_len = call[p].n
      /\ S'[At(p)].val = S[At(p)].val
  BY <1>2 DEF AppendExtend, SlotType
<1>4. Slot(p).hash = call[p].key /\ WrittenFor(S[At(p)].val, call[p].n, call[p].key)
  BY <1>1 DEF Finds, Prepares, Slot
<1>5. SlotKeyed(At(p))'
  BY <1>1, <1>3, <1>4 DEF SlotKeyed, WrittenFor, Slot
<1>6. Prepares(p)'
  BY <1>1 DEF Prepares
<1>7. Finds(p)'
  BY <1>1, <1>3, <1>4 DEF Finds, InCall, Outside, Slot
<1>8. QED
  BY <1>5, <1>6, <1>7 DEF Gives

LEMMA SweepGives ==
  ASSUME Typed, NEW p \in Procs, PurgeSweep(p), Finds(p), SlotKeyed(At(p))
  PROVE  Gives(p)
<1> USE SlotTyped
<1> DEFINE C == IF Slot(p).hash = NoKey THEN 1 .. MaxLen ELSE Slot(p).val_len + 1 .. MaxLen
           v == Overwrite(Slot(p).val, C, Zero)
<1>1. /\ pc[p] = "sweep" /\ pc'[p] = "close" /\ call'[p] = call[p] /\ Op(p)' = Op(p) /\ At(p)' = At(p)
      /\ Slot(p)' = S'[At(p)]
  BY OwnSlotThen DEF PurgeSweep
<1>2. S \in [SlotIds -> SlotType] /\ S' = [S EXCEPT ![At(p)].val = v]
  BY DEF Typed, TypeOK, PurgeSweep, Slot
<1>3. S'[At(p)].hash = S[At(p)].hash /\ S'[At(p)].val_len = S[At(p)].val_len /\ S'[At(p)].val = v
  BY <1>2 DEF SlotType
<1>4. Slot(p).val_len \in 0 .. MaxLen
  BY DEF SlotType, Length
<1>5. ASSUME S[At(p)].hash # NoKey
      PROVE  WrittenFor(v, S[At(p)].val_len, S[At(p)].hash)
  <2>1. \A c \in 1 .. Slot(p).val_len : Slot(p).val[c] # Zero => Slot(p).val[c][1] = Slot(p).hash
    BY <1>5 DEF SlotKeyed, WrittenFor, Slot
  <2>2. WrittenFor(v, Slot(p).val_len, Slot(p).hash)
    BY <1>4, <2>1, OverwriteFor
  <2>3. QED
    BY <2>2 DEF Slot
<1> HIDE DEF v
<1>6. SlotKeyed(At(p))'
  BY <1>1, <1>3, <1>5 DEF SlotKeyed, WrittenFor
<1>7. Prepares(p)'
  BY <1>1 DEF Prepares
<1>8. Finds(p)'
  BY <1>1, <1>3 DEF Finds, InCall, Outside, Slot
<1>9. QED
  BY <1>6, <1>7, <1>8 DEF Gives

(* A step that leaves the value and the key alone.                         *)
LEMMA SameGives ==
  ASSUME Typed, NEW p \in Procs, InCall(p), Finds(p), SlotKeyed(At(p)),
         S'[At(p)].hash = S[At(p)].hash, S'[At(p)].val_len = S[At(p)].val_len,
         S'[At(p)].val = S[At(p)].val,
         Op(p)' = Op(p), At(p)' = At(p), call'[p].key = call[p].key,
         pc[p] # "probe", pc'[p] \in {"emb2", "close"}
  PROVE  Gives(p)
<1>1. SlotKeyed(At(p))'
  BY DEF SlotKeyed, WrittenFor
<1>2. Prepares(p)'
  BY DEF Prepares
<1>3. Finds(p)'
  BY DEF Finds, Slot
<1>4. QED
  BY <1>1, <1>2, <1>3 DEF Gives

LEMMA OtherGives ==
  ASSUME Typed, NEW p \in Procs, Finds(p), SlotKeyed(At(p)),
         AppendTooLong(p) \/ SetEmbFirst(p) \/ SetEmbSecond(p) \/ BumpPulse(p)
  PROVE  Gives(p)
<1> USE SlotTyped
<1>1. S \in [SlotIds -> SlotType]
  BY DEF Typed, TypeOK
<1>2. CASE AppendTooLong(p)
  <2> DEFINE d == [call[p] EXCEPT !.rc = "toolong"]
  <2>1. d \in CallType /\ d.op = call[p].op /\ d.key = call[p].key /\ d.slot = call[p].slot
    BY DEF CallType, Results
  <2>2. With(p, "close", d) /\ UNCHANGED S /\ pc[p] = "room"
    BY <1>2 DEF AppendTooLong
  <2> HIDE DEF d
  <2>3. pc'[p] = "close" /\ Op(p)' = Op(p) /\ At(p)' = At(p) /\ call'[p].key = call[p].key
    BY <2>1, <2>2, OwnSlot
  <2>4. QED
    BY <2>2, <2>3, SameGives DEF InCall, Outside
<1>3. CASE SetEmbFirst(p)
  <2>1. /\ pc[p] = "emb1" /\ pc'[p] = "emb2" /\ Op(p)' = Op(p) /\ At(p)' = At(p)
        /\ call'[p].key = call[p].key
    BY <1>3, OwnSlotThen DEF SetEmbFirst
  <2>2. /\ S'[At(p)].hash = S[At(p)].hash /\ S'[At(p)].val_len = S[At(p)].val_len
        /\ S'[At(p)].val = S[At(p)].val
    BY <1>1, <1>3 DEF SetEmbFirst, SlotType
  <2>3. QED
    BY <2>1, <2>2, SameGives DEF InCall, Outside
<1>4. CASE SetEmbSecond(p)
  <2>1. /\ pc[p] = "emb2" /\ pc'[p] = "close" /\ Op(p)' = Op(p) /\ At(p)' = At(p)
        /\ call'[p].key = call[p].key
    BY <1>4, OwnSlotThen DEF SetEmbSecond
  <2>2. /\ S'[At(p)].hash = S[At(p)].hash /\ S'[At(p)].val_len = S[At(p)].val_len
        /\ S'[At(p)].val = S[At(p)].val
    BY <1>1, <1>4 DEF SetEmbSecond, SlotType
  <2>3. QED
    BY <2>1, <2>2, SameGives DEF InCall, Outside
<1>5. CASE BumpPulse(p)
  <2>1. /\ pc[p] = "bump" /\ pc'[p] = "close" /\ Op(p)' = Op(p) /\ At(p)' = At(p)
        /\ call'[p].key = call[p].key /\ UNCHANGED S
    BY <1>5, OwnSlotThen DEF BumpPulse
  <2>2. QED
    BY <2>1, SameGives DEF InCall, Outside
<1>6. QED
  BY <1>2, <1>3, <1>4, <1>5

(* When the seqlock opens the slot holds what it will. *)
LEMMA CloseGives ==
  ASSUME Typed, NEW p \in Procs, CloseSlot(p), Finds(p)
  PROVE  Finds(p)' /\ Prepares(p)' /\ \A s \in SlotIds : SameCells(s)
<1> USE SlotTyped
<1>1. S \in [SlotIds -> SlotType] /\ pc[p] = "close"
  BY DEF Typed, TypeOK, CloseSlot
<1>2. \A s \in SlotIds : SameCells(s)
  BY <1>1 DEF CloseSlot, SameCells, SlotType
<1>3. CASE Then(p, "pulse")
  <2>1. /\ pc'[p] = "pulse" /\ Op(p)' = Op(p) /\ At(p)' = At(p) /\ At(p) \in SlotIds
        /\ call'[p].key = call[p].key /\ Slot(p)' = S'[At(p)]
    BY <1>3, OwnSlotThen
  <2>2. Slot(p)'.hash = Slot(p).hash
    BY <1>2, <2>1 DEF SameCells, Slot
  <2>3. Finds(p)'
    BY <1>1, <2>1, <2>2 DEF Finds, InCall, Outside
  <2>4. QED
    BY <1>2, <2>1, <2>3 DEF Prepares
<1>4. CASE ~ Then(p, "pulse")
  <2>1. pc'[p] \in {"probe", "idle"}
    <3>1. With(p, "probe", [call[p] EXCEPT !.i = @ + 1]) \/ Return(p, call[p].rc)
      BY <1>4 DEF CloseSlot
    <3>2. QED
      BY <3>1, WithStays, ReturnStays
  <2>2. QED
    BY <1>2, <2>1, OutsideFinds DEF Outside
<1>5. QED
  BY <1>3, <1>4

LEMMA WriteKeyed ==
  ASSUME Typed, NEW p \in Procs, Write(p), Finds(p), Prepares(p), \A s \in SlotIds : SlotKeyed(s)
  PROVE  Finds(p)' /\ Prepares(p)' /\ Careful(p) /\ \A s \in SlotIds : SlotKeyed(s)'
<1>1. /\ Careful(p) /\ \A s \in SlotIds \ {At(p)} : SameCells(s)
      /\ At(p) \in SlotIds /\ SlotKeyed(At(p))
  BY WriteCareful, SlotTyped
<1>2. CASE CloseSlot(p)
  BY <1>1, <1>2, CloseGives, SlotStillKeyed
<1>3. CASE ~ CloseSlot(p)
  <2>1. Gives(p)
    BY <1>1, <1>3, ScrubGives, FillGives, BlankGives, LinkGives, RoomGives, ExtendGives, SweepGives, OtherGives
       DEF Write
  <2>2. At(p)' = At(p)
    <3>1. pc[p] \in Critical
      BY DEF Write, SetScrub, SetFill, SetBlank, SetLink, AppendRoom, AppendTooLong, AppendExtend, SetEmbFirst,
             SetEmbSecond, PurgeSweep, BumpPulse, CloseSlot, Critical
    <3>2. QED
      BY <1>3, <3>1, WriteInLock DEF Silent, InLock, At
  <2>3. \A s \in SlotIds : s = At(p) => SlotKeyed(s)'
    BY <2>1, <2>2 DEF Gives, SlotKeyed, WrittenFor
  <2>4. QED
    BY <1>1, <2>1, <2>3, SlotStillKeyed DEF Gives
<1>4. QED
  BY <1>2, <1>3

-----------------------------------------------------------------------------
(* Every step *)

LEMMA BeginKeyed ==
  ASSUME Typed, NEW p \in Procs, NEW c \in Calls[p], NEW m \in Lens, Begin(p, c, m)
  PROVE  Careful(p) /\ Finds(p)' /\ Prepares(p)' /\ \A s \in SlotIds : SameCells(s)
<1>1. OthersStay(p) /\ pc'[p] = "probe" /\ UNCHANGED S
  BY DEF Typed, TypeOK, OthersStay, Begin, Goto
<1>2. QED
  BY <1>1, OutsideFinds, StaySame DEF Careful

(* A killed writer leaves the slot as it is: the key it had, if it had     *)
(* any, with the length it had, over cells that were its own.              *)
LEMMA KillKeyed ==
  ASSUME Typed, NEW p \in Procs, Kill(p)
  PROVE  Careful(p) /\ Finds(p)' /\ Prepares(p)' /\ \A s \in SlotIds : SameCells(s)
<1>1. OthersStay(p) /\ pc'[p] \in {"killed", "dead"} /\ UNCHANGED S
  BY ThenStays DEF Kill
<1>2. QED
  BY <1>1, OutsideFinds, StaySame DEF Careful, Outside

LEMMA StepKeyed ==
  ASSUME Typed, Typed', QuietAlone, FreeSlotKept, NEW p \in Procs, Step(p),
         Finds(p), Prepares(p), \A s \in SlotIds : SlotKeyed(s)
  PROVE  /\ Finds(p)' /\ Prepares(p)' /\ \A s \in SlotIds : SlotKeyed(s)'
         /\ Careful(p) \/ \A q \in Procs \ {p} : pc'[q] \in Outside
<1>1. CASE Op(p) \in Rewinds
  <2>1. \A q \in Procs \ {p} : pc'[q] \in Outside
    BY <1>1, RewindAlone, StepStays DEF KeepsCall, OthersStay
  <2>2. \A s \in SlotIds : SlotKeyed(s)'
    BY <1>1, RewindKeyed
  <2>3. QED
    BY <1>1, <2>1, <2>2, RewindFinds
<1>2. CASE Roams(p)
  <2>1. \A s \in SlotIds : SlotKeyed(s)'
    BY <1>2, SlotStillKeyed DEF Roams
  <2>2. QED
    BY <1>2, <2>1, RoamsFinds
<1>3. CASE Finishes(p)
  <2>1. \A s \in SlotIds : SlotKeyed(s)'
    BY <1>3, SlotStillKeyed DEF Finishes
  <2>2. QED
    BY <1>3, <2>1, FinishesFinds
<1>4. CASE CasWin(p)
  <2>1. Finds(p)' /\ Prepares(p)' /\ Careful(p) /\ \A s \in SlotIds : SameCells(s)
    BY <1>4, CasFinds
  <2>2. QED
    BY <2>1, SlotStillKeyed
<1>5. CASE Write(p)
  BY <1>5, WriteKeyed
<1>6. QED
  BY <1>1, <1>2, <1>3, <1>4, <1>5, Kinds

(* What a get returns was in its slot, under its key.                      *)
KeyedAnswer(p) ==
  ret[p].op = "get" /\ ret[p].rc = "ok" =>
    \A c \in 1 .. Len(ret[p].buf) : ret[p].buf[c] # Zero => ret[p].buf[c][1] = ret[p].key

LEMMA AnswerKeyed ==
  ASSUME IInv, NEW p \in Procs, Step(p), Finds(p), \A s \in SlotIds : SlotKeyed(s),
         NEW rc, Return(p, rc)
  PROVE  KeyedAnswer(p)'
<1>1. Typed
  BY DEF IInv, Typed
<1>2. /\ ret'[p].op = Op(p) /\ ret'[p].key = call[p].key /\ ret'[p].rc = rc /\ pc'[p] = "idle"
      /\ pc[p] \notin Outside
  BY <1>1, StepStays DEF Typed, TypeOK, Return, Goto
<1>3. CASE Op(p) = "get" /\ rc = "ok"
  <2>1. Returns(p, Op(p), "ok") /\ [Next]_vars
    BY <1>2, <1>3 DEF Returns, Next, Outside
  <2>2. Copies(ret'[p].buf, Slot(p).val, Slot(p).val_len)
    BY <1>3, <2>1, VerifiedExact
  <2>3. ReadVerify(p)
    BY <1>1, <1>3, <2>1, OnlyVerified
  <2>4. Slot(p).hash = call[p].key /\ call[p].key # NoKey /\ At(p) \in SlotIds
    BY <1>1, <1>2, <1>3, <2>3, SlotTyped, KeysAssumption DEF Finds, InCall, Shape, ReadVerify
  <2>5. WrittenFor(Slot(p).val, Slot(p).val_len, call[p].key)
    BY <2>4 DEF SlotKeyed, Slot
  <2>6. QED
    BY <1>2, <2>2, <2>5 DEF KeyedAnswer, Copies, WrittenFor
<1>4. CASE ~ (Op(p) = "get" /\ rc = "ok")
  BY <1>2, <1>4 DEF KeyedAnswer
<1>5. QED
  BY <1>3, <1>4

LEMMA AnswersKeyed ==
  ASSUME KeyInv, [Next]_vars
  PROVE  ReadKeyed'
<1>1. Typed /\ \A p \in Procs : KeyedAnswer(p)
  BY DEF KeyInv, IInv, Typed, ReadKeyed, KeyedAnswer
<1>2. ASSUME NEW q \in Procs, ret'[q] = ret[q]
      PROVE  KeyedAnswer(q)'
  BY <1>1, <1>2 DEF KeyedAnswer
<1>3. SUFFICES \A q \in Procs : KeyedAnswer(q)'
  BY DEF ReadKeyed, KeyedAnswer
<1>4. CASE UNCHANGED ret
  BY <1>2, <1>4
<1>5. CASE UNCHANGED vars
  BY <1>4, <1>5 DEF vars
<1>6. ASSUME NEW p \in Procs, NEW c \in Calls[p], NEW m \in Lens, Begin(p, c, m)
      PROVE  \A q \in Procs : KeyedAnswer(q)'
  <2>1. ret' = [ret EXCEPT ![p] = Nothing] /\ ret \in [Procs -> RetType]
    BY <1>1, <1>6 DEF Begin, Typed, TypeOK
  <2>2. KeyedAnswer(p)'
    BY <2>1 DEF KeyedAnswer, Nothing
  <2>3. QED
    BY <1>2, <2>1, <2>2
<1>7. ASSUME NEW p \in Procs, Step(p), NEW rc, Return(p, rc)
      PROVE  \A q \in Procs : KeyedAnswer(q)'
  <2>1. \A q \in Procs \ {p} : ret'[q] = ret[q]
    BY <1>1, <1>7 DEF Return, Typed, TypeOK
  <2>2. KeyedAnswer(p)'
    BY <1>7, AnswerKeyed DEF KeyInv
  <2>3. QED
    BY <1>2, <2>1, <2>2
<1>8. ASSUME NEW p \in Procs, Step(p)
      PROVE  \A q \in Procs : KeyedAnswer(q)'
  BY <1>1, <1>4, <1>7, <1>8, AnswersOnReturn
<1>9. ASSUME NEW p \in Procs, Kill(p)
      PROVE  UNCHANGED ret
  BY <1>9 DEF Kill, Then
<1>10. QED
  BY <1>4, <1>5, <1>6, <1>8, <1>9 DEF Next

LEMMA KeyInvStep ==
  ASSUME RewindsAreQuiet, KeyInv, FreeSlotKept, [Next]_vars
  PROVE  KeyInv'
<1>1. IInv' /\ Typed /\ Typed' /\ SeqlockOwner /\ QuietAlone
  BY InvariantStep DEF KeyInv, IInv, Typed
<1>2. /\ \A s \in SlotIds : SlotKeyed(s)
      /\ \A p \in Procs : Finds(p) /\ Prepares(p)
  BY DEF KeyInv
<1>3. SUFFICES /\ \A s \in SlotIds : SlotKeyed(s)'
               /\ \A p \in Procs : Finds(p)' /\ Prepares(p)'
  BY <1>1, AnswersKeyed DEF KeyInv
<1>4. CASE UNCHANGED vars
  BY <1>2, <1>4 DEF vars, SlotKeyed, WrittenFor, Finds, Prepares, InCall, Op, Slot, At
<1>5. ASSUME NEW p \in Procs, Careful(p), Finds(p)', Prepares(p)'
      PROVE  \A q \in Procs : Finds(q)' /\ Prepares(q)'
  BY <1>1, <1>2, <1>5, OthersFind
<1>6. ASSUME NEW p \in Procs, \A s \in SlotIds : SameCells(s)
      PROVE  \A s \in SlotIds : SlotKeyed(s)'
  BY <1>2, <1>6, SlotStillKeyed
<1>7. ASSUME NEW p \in Procs, NEW c \in Calls[p], NEW m \in Lens, Begin(p, c, m)
      PROVE  /\ \A s \in SlotIds : SlotKeyed(s)'
             /\ \A q \in Procs : Finds(q)' /\ Prepares(q)'
  <2>1. Careful(p) /\ Finds(p)' /\ Prepares(p)' /\ \A s \in SlotIds : SameCells(s)
    BY <1>1, <1>7, BeginKeyed
  <2>2. QED
    BY <1>5, <1>6, <2>1
<1>8. ASSUME NEW p \in Procs, Kill(p)
      PROVE  /\ \A s \in SlotIds : SlotKeyed(s)'
             /\ \A q \in Procs : Finds(q)' /\ Prepares(q)'
  <2>1. Careful(p) /\ Finds(p)' /\ Prepares(p)' /\ \A s \in SlotIds : SameCells(s)
    BY <1>1, <1>8, KillKeyed
  <2>2. QED
    BY <1>5, <1>6, <2>1
<1>9. ASSUME NEW p \in Procs, Step(p)
      PROVE  /\ \A s \in SlotIds : SlotKeyed(s)'
             /\ \A q \in Procs : Finds(q)' /\ Prepares(q)'
  <2>1. /\ Finds(p)' /\ Prepares(p)' /\ \A s \in SlotIds : SlotKeyed(s)'
        /\ Careful(p) \/ \A q \in Procs \ {p} : pc'[q] \in Outside
    BY <1>1, <1>2, <1>9, StepKeyed
  <2>2. ASSUME \A q \in Procs \ {p} : pc'[q] \in Outside
        PROVE  \A q \in Procs : Finds(q)' /\ Prepares(q)'
    BY <2>1, <2>2, OutsideFinds
  <2>3. QED
    BY <1>5, <2>1, <2>2
<1>10. QED
  BY <1>4, <1>7, <1>8, <1>9 DEF Next

LEMMA KeyInit == Init => KeyInv
<1> SUFFICES ASSUME Init
             PROVE  KeyInv
  OBVIOUS
<1>1. IInv
  BY InvariantInit
<1>2. \A p \in Procs : pc[p] = "idle" /\ ret[p] = Nothing
  BY DEF Init
<1>3. ReadKeyed
  BY <1>2 DEF ReadKeyed, Nothing
<1>4. \A p \in Procs : Finds(p) /\ Prepares(p)
  BY <1>2 DEF Finds, Prepares, InCall, Outside
<1>5. ASSUME NEW s \in SlotIds, S[s].hash # NoKey
      PROVE  WrittenFor(S[s].val, S[s].val_len, S[s].hash)
  <2>1. S[s] = Stored(Layout[s])
    BY <1>5 DEF Init, Empty
  <2>2. /\ S[s].hash = Layout[s] /\ S[s].val_len = MaxLen
        /\ S[s].val = [c \in 1 .. MaxLen |-> << Layout[s], Boot, 0 >>]
    BY <2>1 DEF Stored, Empty
  <2>3. QED
    BY <2>2 DEF WrittenFor
<1>6. QED
  BY <1>1, <1>3, <1>4, <1>5 DEF KeyInv, SlotKeyed

(* As long as no other key comes into a slot that a set has found free, a  *)
(* get never returns bytes that were written for another key, whoever is   *)
(* killed and whatever is unset or trained again meanwhile.                *)
THEOREM FreeSlotKeptReadsKeyed ==
  ASSUME RewindsAreQuiet
  PROVE  Spec /\ []FreeSlotKept => []ReadKeyed
<1>1. Init => KeyInv
  BY KeyInit
<1>2. KeyInv /\ FreeSlotKept /\ [Next]_vars => KeyInv'
  BY KeyInvStep
<1>3. KeyInv => ReadKeyed
  BY DEF KeyInv
<1>4. QED
  BY <1>1, <1>2, <1>3, PTL DEF Spec

-----------------------------------------------------------------------------
(* Where no two processes set different keys *)

(* A call keeps its key. *)
LEMMA KeyStays ==
  ASSUME Typed, NEW p \in Procs, Step(p), Op(p) = "set"
  PROVE  pc'[p] \in Outside \/ (Op(p)' = "set" /\ call'[p].key = call[p].key)
<1> USE SlotTyped
<1>1. Op(p) \notin Rewinds /\ (pc'[p] \in Outside \/ Op(p)' = "set")
  BY StepStays DEF Rewinds, KeepsCall, Op
<1>2. CASE Roams(p)
  BY <1>1, <1>2 DEF Roams, Op
<1>3. CASE Finishes(p)
  BY <1>3, ReturnStays DEF Finishes, Outside
<1>4. CASE CasWin(p)
  BY <1>1, <1>4, ThenStays DEF CasWin
<1>5. CASE Write(p)
  <2>1. CASE AppendRoom(p) \/ AppendTooLong(p)
    <3>1. call'[p].key = call[p].key
      BY <2>1, WithStays DEF AppendRoom, AppendTooLong, CallType
    <3>2. QED
      BY <1>1, <3>1
  <2>2. CASE CloseSlot(p)
    BY <1>1, <2>2, ThenStays, ReturnStays DEF CloseSlot, Op, Outside
  <2>3. CASE ~ (AppendRoom(p) \/ AppendTooLong(p) \/ CloseSlot(p))
    <3>1. \E l : Then(p, l)
      BY <1>5, <2>3 DEF Write, SetScrub, SetFill, SetBlank, SetLink, AppendExtend, SetEmbFirst, SetEmbSecond,
                        PurgeSweep, BumpPulse
    <3>2. QED
      BY <1>1, <3>1, ThenStays
  <2>4. QED
    BY <2>1, <2>2, <2>3
<1>6. QED
  BY <1>1, <1>2, <1>3, <1>4, <1>5, Kinds

(* A set reaches its slot by finding it free, or its own. *)
LEMMA FreeByProbe ==
  ASSUME Typed, Typed', FreeSlotKept, NEW p \in Procs, Step(p),
         Op(p)' = "set", pc'[p] \in {"found", "cas"}
  PROVE  Slot(p)'.hash \in {NoKey, call'[p].key}
<1>1. pc'[p] \notin Outside \cup Critical \cup After \cup {"probe"} /\ Op(p) = "set"
  BY StepStays DEF Outside, Critical, After, KeepsCall, Op
<1>2. Roams(p)
  <2>1. ~ Finishes(p)
    BY <1>1, ReturnStays DEF Finishes, Outside
  <2>2. ~ CasWin(p)
    BY <1>1, ThenStays DEF CasWin, AfterCas, Critical
  <2>3. ~ Write(p)
    <3>1. ~ CloseSlot(p)
      BY <1>1, ThenStays, WithStays, ReturnStays DEF CloseSlot, Outside, After
    <3>2. Write(p) => pc[p] \in Critical
      BY DEF Write, SetScrub, SetFill, SetBlank, SetLink, AppendRoom, AppendTooLong, AppendExtend, SetEmbFirst,
             SetEmbSecond, PurgeSweep, BumpPulse, CloseSlot, Critical
    <3>3. QED
      BY <1>1, <3>1, <3>2, WriteInLock DEF Silent, InLock
  <2>4. QED
    BY <1>1, <2>1, <2>2, <2>3, Kinds DEF Rewinds
<1>3. At(p)' \in SlotIds /\ call'[p].key = call[p].key
  BY <1>2 DEF Typed, TypeOK, CallType, At, Roams
<1>4. CASE Candidate(p, At(p)')
  BY <1>1, <1>2, <1>3, <1>4 DEF Candidate, Match, Slot, Roams, SameCells
<1>5. CASE pc[p] # "probe" /\ call'[p].slot = call[p].slot
  <2>1. pc[p] \in {"found", "cas"}
    <3>1. pc[p] \in PCs /\ Shape(pc[p], call[p]) /\ call[p].op = "set"
      BY <1>1, SlotTyped DEF Typed, TypeOK, Op
    <3>2. pc[p] \notin Outside \cup Critical \cup After
      BY <1>1, <1>2 DEF Roams, LockOps
    <3>3. QED
      BY <1>5, <3>1, <3>2 DEF PCs, Shape, Outside, After
  <2>2. Slot(p).hash \in {NoKey, call[p].key}
    BY <1>1, <2>1 DEF FreeSlotKept
  <2>3. QED
    BY <1>2, <1>3, <1>5, <2>2 DEF Slot, At, Roams, SameCells
<1>6. QED
  BY <1>1, <1>2, <1>4, <1>5 DEF Roams

(* What gets into the slot of another set is the key of that set.          *)
LEMMA FreeByOthers ==
  ASSUME SetsAgree, Typed, QuietAlone, FreeSlotKept, NEW p \in Procs, Step(p), Finds(p),
         SetCalled(p), NEW q \in Procs \ {p}, SetCalled(q),
         Op(q)' = "set", pc'[q] \in {"found", "cas"}
  PROVE  Slot(q)'.hash \in {NoKey, call'[q].key}
<1>1. /\ pc'[q] = pc[q] /\ call'[q] = call[q] /\ Op(q)' = Op(q) /\ At(q)' = At(q)
      /\ At(q) \in SlotIds /\ InCall(p) /\ InCall(q)
  BY StepStays, SlotTyped DEF KeepsCall, OthersStay, Op, At, InCall, Outside
<1>2. Slot(q).hash \in {NoKey, call[q].key}
  BY <1>1 DEF FreeSlotKept
<1>3. Op(p) \notin Rewinds
  BY <1>1, RewindAlone DEF InCall
<1>4. CASE SetLink(p)
  <2>1. Op(p) = "set" /\ pc[p] = "link" /\ Op(q) = "set"
    BY <1>1, <1>4 DEF SetLink, Finds
  <2>2. call[p].key = call[q].key
    BY <1>1, <2>1 DEF SetCalled, SetsAgree
  <2>3. S \in [SlotIds -> SlotType] /\ At(p) \in SlotIds
    BY SlotTyped DEF Typed, TypeOK
  <2>4. S'[At(q)].hash = IF At(q) = At(p) THEN call[p].key ELSE S[At(q)].hash
    BY <1>1, <1>4, <2>3 DEF SetLink, SlotType
  <2>5. QED
    BY <1>1, <1>2, <2>2, <2>4 DEF Slot
<1>5. CASE ~ SetLink(p)
  <2>1. S'[At(q)].hash = S[At(q)].hash
    <3>1. CASE Roams(p) \/ Finishes(p)
      BY <1>1, <3>1 DEF Roams, Finishes, SameCells
    <3>2. CASE CasWin(p)
      BY <1>1, <3>2 DEF CasWin, Typed, TypeOK, SlotType
    <3>3. CASE Write(p)
      BY <1>1, <1>5, <3>3, WriteHash
    <3>4. QED
      BY <1>3, <3>1, <3>2, <3>3, Kinds
  <2>2. QED
    BY <1>1, <1>2, <2>1 DEF Slot
<1>6. QED
  BY <1>4, <1>5

SetsKept == FreeSlotKept /\ \A p \in Procs : SetCalled(p)

LEMMA SetsKeptStep ==
  ASSUME SetsAgree, KeyInv, KeyInv', SetsKept, [Next]_vars
  PROVE  SetsKept'
<1>1. /\ Typed /\ Typed' /\ QuietAlone /\ FreeSlotKept
      /\ \A p \in Procs : Finds(p) /\ SetCalled(p)
  BY DEF KeyInv, IInv, Typed, SetsKept
<1>2. CASE UNCHANGED vars
  BY <1>1, <1>2 DEF vars, SetsKept, FreeSlotKept, SetCalled, InCall, Op, Slot, At
<1>3. ASSUME NEW p \in Procs, NEW c \in Calls[p], NEW m \in Lens, Begin(p, c, m)
      PROVE  SetsKept'
  <2>1. OthersStay(p) /\ pc'[p] = "probe" /\ UNCHANGED S
    BY <1>1, <1>3 DEF Typed, TypeOK, OthersStay, Begin, Goto
  <2>2. Op(p)' = c.op /\ call'[p].key = c.key
    BY <1>1, <1>3 DEF Begin, Idle, Typed, TypeOK, Op
  <2>3. SetCalled(p)'
    BY <2>2 DEF SetCalled
  <2>4. \A q \in Procs \ {p} : SetCalled(q)'
    BY <1>1, <2>1 DEF SetCalled, OthersStay, InCall, Op
  <2>5. FreeSlotKept'
    BY <1>1, <2>1 DEF FreeSlotKept, OthersStay, Op, Slot, At
  <2>6. QED
    BY <2>3, <2>4, <2>5 DEF SetsKept
<1>4. ASSUME NEW p \in Procs, Kill(p)
      PROVE  SetsKept'
  <2>1. OthersStay(p) /\ pc'[p] \in {"dead", "killed"} /\ UNCHANGED S
    BY <1>1, <1>4, ThenStays DEF Kill
  <2>2. SetCalled(p)'
    BY <2>1 DEF SetCalled, InCall, Outside
  <2>3. \A q \in Procs \ {p} : SetCalled(q)'
    BY <1>1, <2>1 DEF SetCalled, OthersStay, InCall, Op
  <2>4. FreeSlotKept'
    BY <1>1, <2>1 DEF FreeSlotKept, OthersStay, Op, Slot, At
  <2>5. QED
    BY <2>2, <2>3, <2>4 DEF SetsKept
<1>5. ASSUME NEW p \in Procs, Step(p)
      PROVE  SetsKept'
  <2>1. KeepsCall(p) /\ pc[p] \notin Outside
    BY <1>1, <1>5, StepStays
  <2>2. SetCalled(p)'
    <3>1. CASE Op(p) = "set"
      BY <1>1, <1>5, <2>1, <3>1, KeyStays DEF SetCalled, InCall
    <3>2. CASE Op(p) # "set"
      BY <2>1, <3>2 DEF SetCalled, InCall, KeepsCall, Op
    <3>3. QED
      BY <3>1, <3>2
  <2>3. \A q \in Procs \ {p} : SetCalled(q)'
    BY <1>1, <2>1 DEF SetCalled, KeepsCall, OthersStay, InCall, Op
  <2>4. FreeSlotKept'
    <3> SUFFICES ASSUME NEW q \in Procs, Op(q)' = "set", pc'[q] \in {"found", "cas"}
                 PROVE  Slot(q)'.hash \in {NoKey, call'[q].key}
      BY DEF FreeSlotKept
    <3>1. CASE q = p
      BY <1>1, <1>5, <3>1, FreeByProbe
    <3>2. CASE q # p
      BY <1>1, <1>5, <3>2, FreeByOthers
    <3>3. QED
      BY <3>1, <3>2
  <2>5. QED
    BY <2>2, <2>3, <2>4 DEF SetsKept
<1>6. QED
  BY <1>2, <1>3, <1>4, <1>5 DEF Next

(* A get never returns bytes that were written for another key, where no   *)
(* two processes set different keys and unset and retrain run alone:       *)
(* whatever else is called when, and whoever is killed at whatever point.  *)
THEOREM ReadsAreKeyed ==
  ASSUME RewindsAreQuiet, SetsAgree
  PROVE  Spec => []ReadKeyed
<1>1. Init => KeyInv /\ SetsKept
  <2>1. Init => SetsKept
    BY DEF Init, SetsKept, FreeSlotKept, SetCalled, InCall, Outside
  <2>2. QED
    BY <2>1, KeyInit
<1>2. KeyInv /\ SetsKept /\ [Next]_vars => KeyInv' /\ SetsKept'
  <2> SUFFICES ASSUME KeyInv, SetsKept, [Next]_vars
               PROVE  KeyInv' /\ SetsKept'
    OBVIOUS
  <2>1. KeyInv'
    BY KeyInvStep DEF SetsKept
  <2>2. QED
    BY <2>1, SetsKeptStep
<1>3. KeyInv => ReadKeyed
  BY DEF KeyInv
<1>4. QED
  BY <1>1, <1>2, <1>3, PTL DEF Spec

=============================================================================
