--------------------------- MODULE EventBusProofs ---------------------------
(***************************************************************************)
(* Proofs about the event bus, for every number of writers, consumers and  *)
(* slots and every width of the mask and its words.                        *)
(***************************************************************************)
EXTENDS EventBus, SlotStoreProofs

(* A stripe is at least one slot wide, and the stripes of a mask cover the *)
(* table.                                                                  *)
LEMMA CeilDivCovers ==
  ASSUME NEW n \in Nat \ {0}, NEW d \in Nat \ {0}
  PROVE  CeilDiv(n, d) \in Nat \ {0} /\ n <= CeilDiv(n, d) * d
<1> DEFINE q == (n + d - 1) \div d
<1>1. q \in Nat /\ n + d - 1 = q * d + ((n + d - 1) % d) /\ (n + d - 1) % d \in 0 .. d - 1
  OBVIOUS
<1>2. n <= q * d
  BY <1>1
<1>3. q # 0
  BY <1>1, <1>2
<1>4. QED
  BY <1>1, <1>2, <1>3 DEF CeilDiv

LEMMA DivBelow ==
  ASSUME NEW n \in Nat, NEW d \in Nat \ {0}, NEW m \in Nat, n < m * d
  PROVE  n \div d \in 0 .. m - 1
<1> DEFINE q == n \div d
<1>1. q \in Nat /\ q * d <= n
  OBVIOUS
<1>2. q * d < m * d
  BY <1>1
<1>3. q < m
  <2>1. SUFFICES ASSUME m <= q
                 PROVE  FALSE
    BY <1>1
  <2>2. m * d <= q * d
    BY <2>1, <1>1
  <2>3. QED
    BY <1>1, <1>2, <2>2
<1>4. QED
  BY <1>1, <1>3

(* The bit of a slot is in the mask, and the word of a bit in its words.   *)
LEMMA SlotBit ==
  ASSUME NEW s \in SlotIds
  PROVE  s \div Stripe \in 0 .. MaskBits - 1
<1>1. Stripe \in Nat \ {0} /\ Slots <= Stripe * MaskBits
  BY CeilDivCovers, SlotsAssumption, MaskAssumption, StripeAssumption
<1>2. s \in Nat /\ s < MaskBits * Stripe
  BY <1>1, SlotsAssumption, MaskAssumption DEF SlotIds
<1>3. QED
  BY <1>1, <1>2, DivBelow, MaskAssumption

LEMMA BitWord ==
  ASSUME NEW b \in 0 .. MaskBits - 1
  PROVE  Word(b) \in 0 .. Words - 1
<1>1. Words \in Nat \ {0} /\ MaskBits <= Words * WordBits
  BY CeilDivCovers, MaskAssumption DEF Words
<1>2. b \in Nat /\ b < Words * WordBits
  BY <1>1, MaskAssumption
<1>3. QED
  BY <1>1, <1>2, DivBelow, MaskAssumption DEF Word

-----------------------------------------------------------------------------
(* What the writers do to the bus: nothing, but for the two steps of       *)
(* event_bus_notify. *)

Mute(p) == pc[p] # "bell" /\ H'.dirty = H.dirty /\ H'.bell = H.bell

LEMMA PulseMute ==
  ASSUME H \in HeaderType, NEW w, NEW b, PulseMasks(w, b)
  PROVE  H'.dirty = H.dirty /\ H'.bell = H.bell
BY DEF PulseMasks, HeaderType

LEMMA WriteMute ==
  ASSUME Typed, NEW p \in Procs, Write(p)
  PROVE  Mute(p)
<1>1. H \in HeaderType
  BY DEF Typed, TypeOK
<1>2. CASE BumpPulse(p)
  BY <1>1, <1>2, PulseMute DEF BumpPulse, Mute
<1>3. CASE ~ BumpPulse(p)
  BY <1>3 DEF Write, Mute, SetScrub, SetFill, SetBlank, SetLink, AppendRoom, AppendTooLong,
     AppendExtend, SetEmbFirst, SetEmbSecond, PurgeSweep, CloseSlot
<1>4. QED
  BY <1>2, <1>3

LEMMA PublishMute ==
  ASSUME Typed, NEW p \in Procs, Publish(p)
  PROVE  Mute(p) \/ NotifyDirty(p) \/ NotifyBell(p)
<1>1. H \in HeaderType
  BY DEF Typed, TypeOK
<1>2. CASE Pulse(p)
  BY <1>1, <1>2, PulseMute DEF Pulse, Mute
<1>3. CASE GlobalEpoch(p)
  BY <1>1, <1>3 DEF GlobalEpoch, Mute, HeaderType
<1>4. CASE NotifySkip(p)
  BY <1>4 DEF NotifySkip, Mute
<1>5. QED
  BY <1>2, <1>3, <1>4 DEF Publish

LEMMA MarkMute ==
  ASSUME Typed, NEW p \in Procs, Mark(p) \/ Retrain(p)
  PROVE  Mute(p)
<1>1. H \in HeaderType
  BY DEF Typed, TypeOK
<1>2. CASE SetLabel(p) \/ UnsetLabel(p) \/ RetrainEven(p)
  BY <1>1, <1>2 DEF SetLabel, UnsetLabel, RetrainEven, Mute, HeaderType
<1>3. CASE ~ (SetLabel(p) \/ UnsetLabel(p) \/ RetrainEven(p))
  BY <1>3 DEF Mark, Retrain, PulseKeygroup, WatchRegister, WatchUnregister, RetrainOdd,
     RetrainZero, Mute
<1>4. QED
  BY <1>2, <1>3

LEMMA OtherMute ==
  ASSUME NEW p \in Procs, Probe(p) \/ Enter(p) \/ Read(p) \/ Poll(p) \/ Unset(p)
  PROVE  Mute(p)
BY DEF Mute, Probe, ProbeHit, ProbeNext, ProbeEnd, Enter, LoadOdd, LoadEven, CasWin, CasLose,
   Read, ReadLen, ReadCopy, ReadVerify, SnapOdd, SnapStart, SnapEnd, Poll, PollClock,
   PollMoved, PollTimeout, Unset, UnsetForget, UnsetWipe, UnsetRewind, UnsetReset, UnsetReopen

LEMMA StepMute ==
  ASSUME Typed, NEW p \in Procs, Step(p)
  PROVE  Mute(p) \/ NotifyDirty(p) \/ NotifyBell(p)
BY WriteMute, PublishMute, MarkMute, OtherMute DEF Step

-----------------------------------------------------------------------------
(* The inductive invariant *)

ConOK == con \in [Consumers -> [pc : {"wait", "read", "mask", "visit"}, w : Nat,
                               bits : SUBSET Nat, saved : SUBSET Nat, todo : SUBSET SlotIds]]

RingInv == Typed /\ ConOK /\ DirtyInMask /\ DirtyRings

(* A step that leaves the bus alone keeps every ring it was promised, *)
LEMMA MuteKeeps ==
  ASSUME RingInv, NEW p \in Procs, Mute(p), OthersStay(p), UNCHANGED con, Typed'
  PROVE  RingInv'
<1>1. \A q \in Procs : pc[q] = "bell" => pc'[q] = "bell"
  BY DEF Mute, OthersStay
<1>2. DirtyRings'
  BY <1>1 DEF RingInv, DirtyRings, WillCollect, Mute
<1>3. QED
  BY <1>2 DEF RingInv, ConOK, DirtyInMask, Mute

(* as does a writer that sets its bit, for it is going to ring, *)
LEMMA DirtyKeeps ==
  ASSUME RingInv, NEW p \in Procs, NotifyDirty(p), UNCHANGED con, Typed'
  PROVE  RingInv'
<1>1. At(p) \in SlotIds /\ H \in HeaderType
  BY SlotTyped DEF RingInv, Typed, TypeOK
<1>2. H'.dirty = H.dirty \cup {At(p) \div Stripe} /\ H'.bell = H.bell
  BY <1>1 DEF NotifyDirty, HeaderType
<1>3. pc'[p] = "bell" /\ OthersStay(p)
  BY ThenStays DEF NotifyDirty, RingInv
<1>4. DirtyInMask'
  BY <1>1, <1>2, SlotBit DEF RingInv, DirtyInMask
<1>5. DirtyRings'
  BY <1>3 DEF DirtyRings
<1>6. QED
  BY <1>4, <1>5 DEF RingInv, ConOK

(* and one that rings. *)
LEMMA BellKeeps ==
  ASSUME RingInv, NEW p \in Procs, NotifyBell(p), UNCHANGED con, Typed'
  PROVE  RingInv'
<1>1. H'.dirty = H.dirty /\ H'.bell
  BY DEF NotifyBell, RingInv, Typed, TypeOK, HeaderType
<1>2. QED
  BY <1>1 DEF RingInv, ConOK, DirtyInMask, DirtyRings

(* A consumer that drains the eventfd has the whole mask before it. *)
LEMMA DrainKeeps ==
  ASSUME RingInv, NEW c \in Consumers, Drain(c)
  PROVE  RingInv'
<1>1. H \in HeaderType /\ H'.dirty = H.dirty /\ H' \in HeaderType
  BY DEF Drain, RingInv, Typed, TypeOK, HeaderType
<1>2. con'[c].pc = "mask" /\ con'[c].w = 0 /\ ConOK'
  BY DEF Drain, RingInv, ConOK
<1>3. DirtyInMask'
  BY <1>1 DEF RingInv, DirtyInMask
<1>4. \A b \in H'.dirty : Word(b) \in Nat
  BY <1>1, BitWord, MaskAssumption DEF RingInv, DirtyInMask
<1>5. DirtyRings'
  BY <1>2, <1>4 DEF DirtyRings, WillCollect
<1>6. Typed'
  BY <1>1 DEF RingInv, Typed, TypeOK, CallShape, Drain
<1>7. QED
  BY <1>2, <1>3, <1>5, <1>6 DEF RingInv

(* One that takes a word leaves no bit of it behind. *)
LEMMA TakeKeeps ==
  ASSUME RingInv, NEW c \in Consumers, TakeWord(c)
  PROVE  RingInv'
<1>1. /\ H' \in HeaderType
      /\ H'.dirty = {b \in H.dirty : Word(b) # con[c].w}
      /\ H'.bell = H.bell
  BY DEF TakeWord, InWord, RingInv, Typed, TypeOK, HeaderType
<1>2. H.dirty \subseteq Nat
  BY DEF RingInv, Typed, TypeOK, HeaderType
<1>3. /\ con' = [con EXCEPT ![c].w = @ + 1, ![c].bits = @ \cup InWord(c)]
      /\ con \in [Consumers -> [pc : {"wait", "read", "mask", "visit"}, w : Nat,
                   bits : SUBSET Nat, saved : SUBSET Nat, todo : SUBSET SlotIds]]
  BY DEF TakeWord, Collect, RingInv, ConOK
<1>4. ConOK'
  <2>1. con[c].w + 1 \in Nat /\ con[c].bits \cup InWord(c) \in SUBSET Nat
    BY <1>2, <1>3 DEF InWord
  <2>2. QED
    BY <1>3, <2>1 DEF ConOK
<1>5. DirtyInMask'
  BY <1>1 DEF RingInv, DirtyInMask
<1>6. ASSUME NEW b \in H'.dirty, WillCollect(b)
      PROVE  WillCollect(b)'
  <2>1. Word(b) \in Nat /\ Word(b) # con[c].w
    BY <1>1, BitWord, MaskAssumption DEF RingInv, DirtyInMask
  <2>2. PICK d \in Consumers : con[d].pc = "mask" /\ con[d].w <= Word(b)
    BY <1>6 DEF WillCollect
  <2>3. con'[d].pc = "mask" /\ con'[d].w <= Word(b)
    BY <2>1, <2>2, <1>3
  <2>4. QED
    BY <2>3 DEF WillCollect
<1>7. DirtyRings'
  BY <1>1, <1>6 DEF RingInv, DirtyRings, TakeWord
<1>8. Typed'
  BY <1>1 DEF RingInv, Typed, TypeOK, CallShape, TakeWord
<1>9. QED
  BY <1>4, <1>5, <1>7, <1>8 DEF RingInv

(* The other steps of a consumer touch neither the mask nor the eventfd,   *)
(* and leave "mask" only after the last word.                              *)
LEMMA QuietConsumerKeeps ==
  ASSUME RingInv, NEW c \in Consumers,
         Wake(c) \/ Again(c) \/ Rescan(c) \/ Visit(c) \/ Rearm(c)
  PROVE  RingInv'
<1>1. UNCHANGED vars
  BY DEF Wake, Again, Rescan, Visit, Rearm
<1>2. Typed' /\ DirtyInMask'
  BY <1>1 DEF RingInv, Typed, TypeOK, CallShape, DirtyInMask, vars
<1>3. con \in [Consumers -> [pc : {"wait", "read", "mask", "visit"}, w : Nat,
             bits : SUBSET Nat, saved : SUBSET Nat, todo : SUBSET SlotIds]]
  BY DEF RingInv, ConOK
<1>4. ConOK'
  <2>1. CASE Wake(c) \/ Again(c) \/ Rearm(c)
    BY <2>1, <1>3 DEF ConOK, Wake, Again, Rearm
  <2>3. CASE Rescan(c)
    <3>1. DEFINE t == {s \in SlotIds : s \div Stripe \in con[c].bits}
    <3>2. t \in SUBSET SlotIds /\ con' = [con EXCEPT ![c] =
            [@ EXCEPT !.pc = "visit", !.w = 0, !.bits = {}, !.todo = t]]
      BY <2>3 DEF Rescan
    <3> HIDE DEF t
    <3>3. QED
      BY <3>2, <1>3 DEF ConOK
  <2>4. CASE Visit(c)
    BY <2>4, <1>3 DEF ConOK, Visit
  <2>5. QED
    BY <2>1, <2>3, <2>4
<1>5. ASSUME NEW b \in H.dirty, WillCollect(b)
      PROVE  WillCollect(b)'
  <2>1. PICK d \in Consumers : con[d].pc = "mask" /\ con[d].w <= Word(b)
    BY <1>5 DEF WillCollect
  <2>2. Word(b) \in 0 .. Words - 1 /\ Words \in Nat
    BY BitWord, CeilDivCovers, MaskAssumption DEF RingInv, DirtyInMask, Words
  <2>3. c # d
    BY <2>1, <2>2, <1>3 DEF Wake, Again, Rescan, Visit, Rearm
  <2>4. con'[d] = con[d]
    BY <2>3, <1>3 DEF Wake, Again, Rescan, Visit, Rearm
  <2>5. QED
    BY <2>1, <2>4 DEF WillCollect
<1>6. DirtyRings'
  BY <1>1, <1>5 DEF RingInv, DirtyRings, vars
<1>7. QED
  BY <1>2, <1>4, <1>6 DEF RingInv

LEMMA RingStep ==
  ASSUME Mortal = {}, RingInv, [BusNext]_busVars
  PROVE  RingInv'
<1>1. CASE UNCHANGED busVars
  BY <1>1 DEF busVars, vars, RingInv, Typed, TypeOK, CallShape, ConOK, DirtyInMask, DirtyRings,
     WillCollect
<1>2. CASE Call
  <2>1. Typed'
    BY <1>2, TypedStep DEF RingInv, Call
  <2>2. PICK p \in Procs : (\E k \in Calls[p], m \in Lens : Begin(p, k, m)) \/ Step(p) \/ Kill(p)
    BY <1>2 DEF Next, Call
  <2>3. CASE \E k \in Calls[p], m \in Lens : Begin(p, k, m)
    <3>1. OthersStay(p)
      BY <2>3, BeginSilent DEF RingInv, Silent
    <3>2. Mute(p)
      BY <2>3 DEF Begin, Mute
    <3>3. QED
      BY <3>1, <3>2, <2>1, <1>2, MuteKeeps DEF Call
  <2>4. CASE Step(p)
    <3>1. OthersStay(p)
      BY <2>4, StepStays DEF RingInv, KeepsCall
    <3>2. Mute(p) \/ NotifyDirty(p) \/ NotifyBell(p)
      BY <2>4, StepMute DEF RingInv
    <3>3. QED
      BY <3>1, <3>2, <2>1, <1>2, MuteKeeps, DirtyKeeps, BellKeeps DEF Call
  <2>5. CASE Kill(p)
    BY <2>5 DEF Kill
  <2>6. QED
    BY <2>2, <2>3, <2>4, <2>5
<1>3. CASE \E c \in Consumers : Consume(c)
  BY <1>3, DrainKeeps, TakeKeeps, QuietConsumerKeeps DEF Consume, Waiting
<1>4. QED
  BY <1>1, <1>2, <1>3 DEF BusNext

LEMMA RingStart == BusInit => RingInv
<1> SUFFICES ASSUME BusInit
             PROVE  RingInv
  OBVIOUS
<1>1. Typed
  BY TypedInit DEF BusInit
<1>2. ConOK
  BY DEF BusInit, ConOK, Asleep
<1>3. H.dirty = {}
  BY DEF BusInit, Init
<1>4. QED
  BY <1>1, <1>2, <1>3 DEF RingInv, DirtyInMask, DirtyRings

-----------------------------------------------------------------------------
(* The mask alone needs no more than the types, and no process to survive. *)

MaskInv == Typed /\ DirtyInMask

LEMMA ConsumerMask ==
  ASSUME MaskInv, NEW c \in Consumers, Consume(c)
  PROVE  MaskInv'
<1>1. H \in HeaderType /\ UNCHANGED << S, pc, call, ret, left >>
  BY DEF MaskInv, Typed, TypeOK, Consume, Waiting, Wake, Drain, Again, Visit, Rearm, TakeWord,
     Rescan, vars
<1>2. H' \in HeaderType /\ H'.dirty \subseteq H.dirty
  <2>1. CASE Drain(c) \/ TakeWord(c)
    BY <2>1, <1>1 DEF Drain, TakeWord, HeaderType
  <2>2. CASE ~ (Drain(c) \/ TakeWord(c))
    BY <2>2, <1>1 DEF Consume, Waiting, Wake, Again, Visit, Rearm, Rescan, vars
  <2>3. QED
    BY <2>1, <2>2
<1>3. QED
  BY <1>1, <1>2 DEF MaskInv, DirtyInMask, Typed, TypeOK, CallShape

LEMMA CallMask ==
  ASSUME MaskInv, Call
  PROVE  MaskInv'
<1>1. Typed'
  BY TypedStep DEF MaskInv, Call
<1>2. PICK p \in Procs : (\E k \in Calls[p], m \in Lens : Begin(p, k, m)) \/ Step(p) \/ Kill(p)
  BY DEF Next, Call
<1>3. H'.dirty = H.dirty \/ NotifyDirty(p)
  BY <1>2, StepMute DEF MaskInv, Mute, NotifyBell, Begin, Kill, Typed, TypeOK, HeaderType
<1>4. CASE NotifyDirty(p)
  <2>1. At(p) \in SlotIds /\ H'.dirty = H.dirty \cup {At(p) \div Stripe}
    BY <1>4, SlotTyped DEF NotifyDirty, MaskInv, Typed, TypeOK, HeaderType
  <2>2. QED
    BY <2>1, <1>1, SlotBit DEF MaskInv, DirtyInMask
<1>5. QED
  BY <1>1, <1>3, <1>4 DEF MaskInv, DirtyInMask

(* No slot index, however many slots the store has and whoever is killed,  *)
(* sets a bit past the mask.                                               *)
THEOREM BitsStayInMask == BusSpec => []DirtyInMask
<1>1. BusInit => MaskInv
  BY RingStart DEF RingInv, MaskInv
<1>2. MaskInv /\ [BusNext]_busVars => MaskInv'
  <2>1. SUFFICES ASSUME MaskInv, [BusNext]_busVars
                 PROVE  MaskInv'
    OBVIOUS
  <2>2. CASE UNCHANGED busVars
    BY <2>1, <2>2 DEF MaskInv, Typed, TypeOK, CallShape, DirtyInMask, busVars, vars
  <2>3. QED
    BY <2>1, <2>2, CallMask, ConsumerMask DEF BusNext
<1>3. MaskInv => DirtyInMask
  BY DEF MaskInv
<1>4. QED
  BY <1>1, <1>2, <1>3, PTL DEF BusSpec

(* No wakeup is lost between the mask and the eventfd when the consumers   *)
(* use take_dirty and no writer is killed between the two.                 *)
THEOREM NoLostWakeup ==
  ASSUME Mortal = {}
  PROVE  BusSpec => []DirtyRings
<1>1. RingInv => DirtyRings
  BY DEF RingInv
<1>2. QED
  BY <1>1, RingStart, RingStep, PTL DEF BusSpec

-----------------------------------------------------------------------------
(* Types of the consumers *)

LEMMA WordsType == Words \in Nat
BY CeilDivCovers, MaskAssumption DEF Words

LEMMA ConWords ==
  \E W : 0 \in W /\ ConType = [pc : {"wait", "read", "mask", "visit"}, w : W,
                            bits : SUBSET Nat, saved : SUBSET Nat, todo : SUBSET SlotIds]
<1> WITNESS 0 .. Words
<1> QED
  BY WordsType DEF ConType

LEMMA ConsumerTyped ==
  ASSUME BusTypeOK, NEW c \in Consumers, Consume(c)
  PROVE  BusTypeOK'
<1>1. /\ con \in [Consumers -> ConType] /\ con[c] \in ConType /\ H \in HeaderType
      /\ DOMAIN seen = SlotIds
  BY DEF BusTypeOK, TypeOK
<1>2. PICK W : 0 \in W /\ ConType =
        [pc : {"wait", "read", "mask", "visit"}, w : W,
         bits : SUBSET Nat, saved : SUBSET Nat, todo : SUBSET SlotIds]
  BY ConWords
<1>3. con' \in [Consumers -> ConType]
  <2>1. CASE Wake(c) \/ Again(c) \/ Rearm(c)
    BY <2>1, <1>1 DEF Wake, Again, Rearm, ConType
  <2>2. CASE Drain(c)
    BY <2>2, <1>1, <1>2 DEF Drain
  <2>3. CASE Visit(c)
    BY <2>3, <1>1 DEF Visit, ConType
  <2>4. CASE TakeWord(c)
    <3>1. con[c].w + 1 \in 0 .. Words /\ con[c].bits \cup InWord(c) \in SUBSET Nat
      BY <2>4, <1>1, WordsType DEF TakeWord, InWord, ConType, HeaderType
    <3>2. con' = [con EXCEPT ![c].w = @ + 1, ![c].bits = @ \cup InWord(c)]
      BY <2>4 DEF TakeWord, Collect
    <3>3. QED
      BY <1>1, <3>1, <3>2 DEF ConType
  <2>5. CASE Rescan(c)
    <3>1. PICK t \in SUBSET SlotIds : con' = [con EXCEPT ![c] =
            [@ EXCEPT !.pc = "visit", !.w = 0, !.bits = {}, !.todo = t]]
      BY <2>5 DEF Rescan
    <3>2. QED
      BY <3>1, <1>1, <1>2
  <2>6. QED
    BY <2>1, <2>2, <2>3, <2>4, <2>5 DEF Consume, Waiting
<1>4. UNCHANGED << S, pc, call, ret, left >> /\ H' \in HeaderType
  BY <1>1 DEF Consume, Waiting, Wake, Drain, Again, Visit, Rearm, TakeWord, Rescan, vars, HeaderType
<1>5. DOMAIN seen' = SlotIds
  BY <1>1 DEF Consume, Waiting, Wake, Drain, Again, Visit, Rearm, TakeWord, Rescan
<1>6. QED
  BY <1>1, <1>3, <1>4, <1>5 DEF BusTypeOK, TypeOK

LEMMA BusTypedStart == BusInit => BusTypeOK
<1> SUFFICES ASSUME BusInit
             PROVE  BusTypeOK
  OBVIOUS
<1>1. TypeOK
  BY TypedInit DEF BusInit, Typed
<1>2. Asleep \in ConType
  BY WordsType DEF Asleep, ConType
<1>3. QED
  BY <1>1, <1>2 DEF BusTypeOK, BusInit

(* The consumers keep their types too: none reads past the last word of    *)
(* the mask, and none visits a slot that does not exist.                   *)
THEOREM BusTypes == BusSpec => []BusTypeOK
<1>1. BusInit => Typed /\ BusTypeOK
  BY TypedInit, BusTypedStart DEF BusInit
<1>2. Typed /\ BusTypeOK /\ [BusNext]_busVars => (Typed /\ BusTypeOK)'
  <2>1. SUFFICES ASSUME Typed, BusTypeOK, [BusNext]_busVars
                 PROVE  (Typed /\ BusTypeOK)'
    OBVIOUS
  <2>2. CASE UNCHANGED busVars
    BY <2>1, <2>2 DEF Typed, TypeOK, CallShape, BusTypeOK, busVars, vars
  <2>3. CASE Call
    <3>1. Typed'
      BY <2>1, <2>3, TypedStep DEF Call
    <3>2. QED
      BY <2>1, <2>3, <3>1 DEF Call, BusTypeOK, Typed
  <2>4. ASSUME NEW c \in Consumers, Consume(c)
        PROVE  (Typed /\ BusTypeOK)'
    <3>1. BusTypeOK' /\ UNCHANGED << pc, call >>
      BY <2>1, <2>4, ConsumerTyped
         DEF Consume, Waiting, Wake, Drain, Again, Visit, Rearm, TakeWord, Rescan, vars
    <3>2. QED
      BY <2>1, <3>1 DEF BusTypeOK, Typed, CallShape
  <2>5. QED
    BY <2>1, <2>2, <2>3, <2>4 DEF BusNext
<1>3. QED
  BY <1>1, <1>2, PTL DEF BusSpec

-----------------------------------------------------------------------------
(* A writer that changes what a visitor sees reports it *)

Tells(p) == \A s \in SlotIds : Face(s)' = Face(s) \/ Changing(p, s)'
GoesOn(p) == \A s \in SlotIds : Changing(p, s) => Changing(p, s)' \/ s \div Stripe \in H'.dirty

SameFace(s) ==
  /\ S'[s].hash = S[s].hash
  /\ S'[s].val_len = S[s].val_len
  /\ S'[s].val = S[s].val
  /\ S'[s].embedding = S[s].embedding
  /\ S'[s].bloom = S[s].bloom

LEMMA FaceSame ==
  ASSUME NEW s, SameFace(s)
  PROVE  Face(s)' = Face(s)
BY DEF SameFace, Face

(* A step that changes its own slot alone and stays a change, *)
LEMMA ChangesOwn ==
  ASSUME NEW p \in Procs, NEW a, a = At(p), Changing(p, a)',
         \A s \in SlotIds \ {a} : S'[s] = S[s]
  PROVE  Tells(p) /\ GoesOn(p)
<1>1. \A s \in SlotIds \ {a} : Face(s)' = Face(s)
  BY DEF Face
<1>2. QED
  BY <1>1 DEF Tells, GoesOn, Changing

(* and one that shows a visitor nothing, where nothing was left to report. *)
LEMMA ShowsNothing ==
  ASSUME NEW p \in Procs, \A s \in SlotIds : SameFace(s), \A s \in SlotIds : ~ Changing(p, s)
  PROVE  Tells(p) /\ GoesOn(p)
BY FaceSame DEF Tells, GoesOn

LEMMA LookTells ==
  ASSUME Typed, NEW p \in Procs, Probe(p) \/ Enter(p) \/ Read(p) \/ Poll(p)
  PROVE  Tells(p) /\ GoesOn(p)
<1>1. \A s \in SlotIds : SameFace(s)
  <2>1. CASE CasWin(p)
    BY <2>1, SlotTyped DEF CasWin, SameFace, Typed, TypeOK, SlotType
  <2>2. CASE ~ CasWin(p)
    BY <2>2 DEF SameFace, Probe, ProbeHit, ProbeNext, ProbeEnd, Enter, LoadOdd, LoadEven, CasLose,
       Read, ReadLen, ReadCopy, ReadVerify, SnapOdd, SnapStart, SnapEnd,
       Poll, PollClock, PollMoved, PollTimeout
  <2>3. QED
    BY <2>1, <2>2
<1>2. pc[p] \in {"probe", "found", "cas", "len", "copy", "wait"}
  BY DEF Probe, ProbeHit, ProbeNext, ProbeEnd, Enter, LoadOdd, LoadEven, CasWin, CasLose,
     Read, ReadLen, ReadCopy, ReadVerify, SnapOdd, SnapStart, SnapEnd,
     Poll, PollClock, PollMoved, PollTimeout
<1>3. \A s \in SlotIds : ~ Changing(p, s)
  BY <1>2 DEF Changing
<1>4. QED
  BY <1>1, <1>3, ShowsNothing

(* Of the pieces of a write, those of set, append and set_embedding. *)
LEMMA PieceTells ==
  ASSUME Typed, Refused, Placed, NEW p \in Procs,
         SetScrub(p) \/ SetFill(p) \/ SetBlank(p) \/ SetLink(p) \/ AppendRoom(p) \/ AppendExtend(p)
           \/ SetEmbFirst(p) \/ SetEmbSecond(p)
  PROVE  Tells(p) /\ GoesOn(p)
<1> USE SlotTyped
<1>0. PICK a : a = At(p)
  OBVIOUS
<1>1. \A s \in SlotIds \ {a} : S'[s] = S[s]
  BY <1>0 DEF SetScrub, SetFill, SetBlank, SetLink, AppendRoom, AppendExtend, SetEmbFirst, SetEmbSecond,
     Typed, TypeOK
<1>2. Changing(p, a)'
  <2>1. CASE SetScrub(p) \/ SetFill(p) \/ SetBlank(p) \/ SetEmbFirst(p)
    BY <1>0, <2>1, ThenStays DEF SetScrub, SetFill, SetBlank, SetEmbFirst, Changing, At
  <2>2. CASE AppendRoom(p)
    BY <1>0, <2>2, WithStays DEF AppendRoom, Changing, At, CallType
  <2>3. CASE SetLink(p) \/ AppendExtend(p) \/ SetEmbSecond(p)
    <3>1. pc'[p] = "close" /\ call'[p] = call[p] /\ pc[p] \in {"link", "extend", "emb2"}
      BY <2>3, ThenStays DEF SetLink, AppendExtend, SetEmbSecond
    <3>2. call[p].rc = "ok" /\ Op(p) \in {"set", "append", "setemb"}
      BY <3>1 DEF Refused, Placed
    <3>3. QED
      BY <1>0, <3>1, <3>2 DEF Changing, At, Op
  <2>4. QED
    BY <2>1, <2>2, <2>3
<1>3. QED
  BY <1>0, <1>1, <1>2, ChangesOwn

(* Of purge and bump_slot a visitor sees nothing: a region that purge      *)
(* wipes is past the length of the value, or of a slot without one.        *)
LEMMA SweepTells ==
  ASSUME IInv, FreeIsEmpty, Placed, NEW p \in Procs, PurgeSweep(p)
  PROVE  Tells(p) /\ GoesOn(p)
<1> USE SlotTyped
<1>1. Typed /\ S \in [SlotIds -> SlotType]
  BY DEF IInv, Typed, TypeOK
<1>2. PICK a \in SlotIds : a = At(p)
  BY <1>1
<1>3. pc[p] = "sweep" /\ S[a] \in SlotType
  BY <1>1 DEF PurgeSweep
<1>4. ASSUME S[a].hash = NoKey
      PROVE  S[a].val_len = 0
  <2>1. SUFFICES ASSUME NEW q \in Procs, Midway(q, a)
                 PROVE  FALSE
    BY <1>4 DEF FreeIsEmpty
  <2>2. CASE pc[q] \in {"blank", "link"}
    <3>1. Holds(p, a) /\ Holds(q, a)
      BY <1>2, <1>3, <2>1, <2>2 DEF Holds, Midway, Critical
    <3>2. p = q
      BY <3>1 DEF IInv, SeqlockOwner
    <3>3. QED
      BY <1>3, <2>2, <3>2
  <2>3. CASE pc[q] \in {"wipe", "rewind", "reset"}
    <3>1. Op(q) = "unset" /\ InCall(q) /\ InCall(p) /\ p # q
      BY <1>1, <1>3, <2>3 DEF Typed, CallShape, Shape, InCall, Outside, Op
    <3>2. QED
      BY <3>1 DEF IInv, QuietAlone, Rewinds
  <2>4. QED
    BY <2>1, <2>2, <2>3 DEF Midway
<1>5. PICK C : /\ S' = [S EXCEPT ![a].val = Overwrite(@, C, Zero)]
               /\ \A c \in 1 .. S[a].val_len : c \notin C
  <2>1. DEFINE D == IF Slot(p).hash = NoKey THEN 1 .. MaxLen ELSE Slot(p).val_len + 1 .. MaxLen
  <2>2. S' = [S EXCEPT ![a].val = Overwrite(@, D, Zero)]
    BY <1>2 DEF PurgeSweep
  <2>3. \A c \in 1 .. S[a].val_len : c \notin D
    <3>1. S[a].val_len \in Nat
      BY <1>3, SlotsAssumption DEF SlotType, Length
    <3>2. QED
      BY <1>2, <1>4, <3>1 DEF Slot
  <2>4. QED
    BY <2>2, <2>3
<1>6. \A c \in 1 .. S[a].val_len : c \in 1 .. MaxLen
  BY <1>3, SlotsAssumption DEF SlotType, Length
<1>7. S'[a].val = Overwrite(S[a].val, C, Zero)
  BY <1>1, <1>5 DEF SlotType
<1>8. /\ S'[a].hash = S[a].hash /\ S'[a].val_len = S[a].val_len
      /\ S'[a].embedding = S[a].embedding /\ S'[a].bloom = S[a].bloom
      /\ \A s \in SlotIds \ {a} : S'[s] = S[s]
  BY <1>1, <1>3, <1>5 DEF SlotType
<1>9. \A c \in 1 .. S[a].val_len : S'[a].val[c] = S[a].val[c]
  BY <1>5, <1>6, <1>7 DEF Overwrite
<1>10. \A s \in SlotIds : Face(s)' = Face(s)
  BY <1>8, <1>9 DEF Face
<1>11. \A s \in SlotIds : ~ Changing(p, s)
  BY <1>3 DEF Changing
<1>12. QED
  BY <1>10, <1>11 DEF Tells, GoesOn

(* The end of a write is in sight of a visitor only by the epoch. *)
LEMMA CloseTells ==
  ASSUME Typed, NEW p \in Procs, CloseSlot(p)
  PROVE  Tells(p) /\ GoesOn(p)
<1> USE SlotTyped
<1>1. \A s \in SlotIds : Face(s)' = Face(s)
  <2>1. \A s \in SlotIds : SameFace(s)
    BY DEF CloseSlot, SameFace, Typed, TypeOK, SlotType
  <2>2. QED
    BY <2>1, FaceSame
<1>2. ASSUME NEW s \in SlotIds, Changing(p, s)
      PROVE  Changing(p, s)'
  <2>1. Op(p) \in {"set", "append", "setemb"} /\ call[p].rc = "ok" /\ At(p) = s
    BY <1>2 DEF Changing, CloseSlot
  <2>2. Then(p, "pulse")
    BY <2>1 DEF CloseSlot
  <2>3. pc'[p] = "pulse" /\ call'[p] = call[p]
    BY <2>2, ThenStays
  <2>4. QED
    BY <2>1, <2>3 DEF Changing, At, Op
<1>3. QED
  BY <1>1, <1>2 DEF Tells, GoesOn

LEMMA WriteTells ==
  ASSUME IInv, FreeIsEmpty, Refused, Placed, NEW p \in Procs, Write(p)
  PROVE  Tells(p) /\ GoesOn(p)
<1>1. Typed
  BY DEF IInv, Typed
<1>2. CASE AppendTooLong(p) \/ BumpPulse(p)
  <2>1. UNCHANGED S /\ pc[p] \in {"room", "bump"}
    BY <1>2 DEF AppendTooLong, BumpPulse
  <2>2. QED
    BY <2>1, ShowsNothing DEF SameFace, Changing
<1>3. QED
  BY <1>1, <1>2, PieceTells, SweepTells, CloseTells DEF Write

(* A writer that has changed a slot does not return before its bit is set, *)
(* where every process has armed the bus.                                  *)
LEMMA PublishTells ==
  ASSUME Procs \subseteq Armed, Typed, NEW p \in Procs, Publish(p)
  PROVE  Tells(p) /\ GoesOn(p)
<1> USE SlotTyped
<1>1. UNCHANGED S
  BY DEF Publish, Pulse, GlobalEpoch, NotifySkip, NotifyDirty, NotifyBell
<1>2. Tells(p)
  BY <1>1, FaceSame DEF Tells, SameFace
<1>3. ASSUME NEW s \in SlotIds, Changing(p, s)
      PROVE  Changing(p, s)' \/ s \div Stripe \in H'.dirty
  <2>1. CASE Pulse(p)
    <3>1. Then(p, "dirty") \/ Then(p, "epoch")
      BY <1>3, <2>1 DEF Pulse, Changing
    <3>2. QED
      BY <1>3, <3>1, ThenStays DEF Changing, At
  <2>2. CASE GlobalEpoch(p)
    BY <1>3, <2>2, ThenStays DEF GlobalEpoch, Changing, At
  <2>3. CASE NotifyDirty(p)
    BY <1>3, <2>3 DEF NotifyDirty, Changing, Typed, TypeOK, HeaderType
  <2>4. CASE NotifySkip(p) \/ NotifyBell(p)
    BY <1>3, <2>4 DEF NotifySkip, NotifyBell, Changing
  <2>5. QED
    BY <2>1, <2>2, <2>3, <2>4 DEF Publish
<1>4. QED
  BY <1>2, <1>3 DEF GoesOn

LEMMA UnsetTells ==
  ASSUME Typed, NEW p \in Procs, Unset(p)
  PROVE  Tells(p) /\ GoesOn(p)
<1> USE SlotTyped
<1>1. PICK a : a = At(p)
  OBVIOUS
<1>2. \A s \in SlotIds \ {a} : S'[s] = S[s]
  BY <1>1 DEF Unset, UnsetForget, UnsetWipe, UnsetRewind, UnsetReset, UnsetReopen, Typed, TypeOK
<1>3. Changing(p, a)'
  <2>1. CASE UnsetForget(p)
    <3>1. PICK n, w, b : With(p, "wipe", [call[p] EXCEPT !.n = n, !.wm = w, !.bl = b])
      BY <2>1 DEF UnsetForget
    <3>2. pc'[p] = "wipe" /\ call'[p] = [call[p] EXCEPT !.n = n, !.wm = w, !.bl = b]
      BY <3>1, WithStays
    <3>3. call'[p].slot = a
      BY <1>1, <3>2 DEF At, CallType
    <3>4. QED
      BY <3>2, <3>3 DEF Changing, At
  <2>2. CASE UnsetWipe(p) \/ UnsetRewind(p) \/ UnsetReset(p)
    BY <1>1, <2>2, ThenStays DEF UnsetWipe, UnsetRewind, UnsetReset, Changing, At
  <2>3. CASE UnsetReopen(p)
    <3>1. pc'[p] = "pulse" /\ call'[p] = call[p] /\ call[p].op = "unset"
      BY <2>3, ThenStays DEF UnsetReopen, Shape
    <3>2. QED
      BY <1>1, <3>1 DEF Changing, At, Op
  <2>4. QED
    BY <2>1, <2>2, <2>3 DEF Unset
<1>4. QED
  BY <1>1, <1>2, <1>3, ChangesOwn

LEMMA RetrainTells ==
  ASSUME Typed, NEW p \in Procs, Retrain(p)
  PROVE  Tells(p) /\ GoesOn(p)
<1> USE SlotTyped
<1>1. PICK a : a = At(p)
  OBVIOUS
<1>2. CASE RetrainOdd(p)
  <2>1. \A s \in SlotIds : SameFace(s)
    BY <1>2 DEF RetrainOdd, SameFace, Typed, TypeOK, SlotType
  <2>2. \A s \in SlotIds : ~ Changing(p, s)
    BY <1>2 DEF RetrainOdd, Changing
  <2>3. QED
    BY <2>1, <2>2, ShowsNothing
<1>3. CASE RetrainZero(p) \/ RetrainEven(p)
  <2>1. \A s \in SlotIds \ {a} : S'[s] = S[s]
    BY <1>1, <1>3 DEF RetrainZero, RetrainEven, Typed, TypeOK
  <2>2. pc'[p] \in {"even4", "pulse"} /\ call'[p] = call[p] /\ call[p].op = "retrain"
    BY <1>3, ThenStays DEF RetrainZero, RetrainEven, Shape
  <2>3. Changing(p, a)'
    BY <1>1, <2>2 DEF Changing, At, Op
  <2>4. QED
    BY <1>1, <2>1, <2>3, ChangesOwn
<1>4. QED
  BY <1>2, <1>3 DEF Retrain

LEMMA MarkTells ==
  ASSUME Typed, NEW p \in Procs, Mark(p)
  PROVE  Tells(p) /\ GoesOn(p)
<1> USE SlotTyped
<1>1. PICK a : a = At(p)
  OBVIOUS
<1>2. CASE SetLabel(p) \/ UnsetLabel(p)
  <2>1. \A s \in SlotIds \ {a} : S'[s] = S[s]
    BY <1>1, <1>2 DEF SetLabel, UnsetLabel, Typed, TypeOK
  <2>2. PICK b : With(p, "pulse", [call[p] EXCEPT !.bl = b]) /\ Op(p) \in {"label", "unlabel"}
    BY <1>2 DEF SetLabel, UnsetLabel
  <2>3. pc'[p] = "pulse" /\ call'[p] = [call[p] EXCEPT !.bl = b]
    BY <2>2, WithStays
  <2>4. call'[p].slot = a /\ call'[p].op # "pulsekey"
    BY <1>1, <2>2, <2>3 DEF At, Op, CallType
  <2>5. Changing(p, a)'
    BY <2>3, <2>4 DEF Changing, At, Op
  <2>6. QED
    BY <1>1, <2>1, <2>5, ChangesOwn
<1>3. CASE PulseKeygroup(p) \/ WatchRegister(p) \/ WatchUnregister(p)
  <2>1. \A s \in SlotIds : SameFace(s)
    <3>1. CASE PulseKeygroup(p)
      BY <3>1 DEF PulseKeygroup, SameFace
    <3>2. CASE WatchRegister(p) \/ WatchUnregister(p)
      <4>1. PICK w : S' = [S EXCEPT ![a].watcher_mask = w]
        BY <1>1, <3>2 DEF WatchRegister, WatchUnregister
      <4>2. QED
        BY <4>1 DEF SameFace, Typed, TypeOK, SlotType
    <3>3. QED
      BY <1>3, <3>1, <3>2
  <2>2. \A s \in SlotIds : ~ Changing(p, s)
    BY <1>3 DEF PulseKeygroup, WatchRegister, WatchUnregister, Changing
  <2>3. QED
    BY <2>1, <2>2, ShowsNothing
<1>4. QED
  BY <1>2, <1>3 DEF Mark

LEMMA StepTells ==
  ASSUME Procs \subseteq Armed, IInv, FreeIsEmpty, Refused, Placed, NEW p \in Procs, Step(p)
  PROVE  Tells(p) /\ GoesOn(p)
<1>1. Typed
  BY DEF IInv, Typed
<1>2. QED
  BY <1>1, LookTells, WriteTells, PublishTells, UnsetTells, RetrainTells, MarkTells DEF Step

-----------------------------------------------------------------------------
(* Each operation keeps to its own pieces, and an append to a taken slot *)

WriteShape(l, c) ==
  /\ c.rc # "ok" => l = "close" /\ c.op = "append"
  /\ l \in {"scrub", "fill", "blank", "link"} => c.op = "set"
  /\ l \in {"room", "extend"} => c.op = "append"
  /\ l \in {"emb1", "emb2"} => c.op = "setemb"
  /\ l = "bump" => c.op = "bump"
  /\ l = "sweep" => c.op = "purge"

OnAppend(l, c) == c.op = "append" /\ l \in {"found", "cas", "room", "extend"}

LEMMA WriteParts ==
  WriteInv <=> \A p \in Procs : /\ WriteShape(pc[p], call[p])
                                /\ OnAppend(pc[p], call[p]) => S[call[p].slot].hash # NoKey
BY DEF WriteInv, WriteShape, OnAppend, OnTaken, Refused, Placed, Op, At, Slot

Taken(p) == OnAppend(pc'[p], call'[p]) => S[call'[p].slot].hash # NoKey
Shaped(p) == WriteShape(pc'[p], call'[p]) /\ Taken(p)

(* A return, *)
LEMMA ReturnShaped ==
  ASSUME Typed, NEW p \in Procs, NEW rc, Return(p, rc)
  PROVE  Shaped(p)
<1>1. pc'[p] = "idle" /\ call'[p] = Idle
  BY DEF Return, Goto, Typed, TypeOK
<1>2. QED
  BY <1>1 DEF Shaped, Taken, WriteShape, OnAppend, Idle

(* a step to a place that says nothing of a write, *)
Plainly == {"probe", "len", "copy", "wait", "wipe", "rewind", "reset", "reopen", "zeroemb",
            "even4", "pulse", "epoch", "dirty", "bell", "close"}

LEMMA ThenShaped ==
  ASSUME Typed, WriteInv, NEW p \in Procs, NEW l \in Plainly, Then(p, l),
         pc[p] # "close" \/ Op(p) # "append" \/ call[p].rc = "ok"
  PROVE  Shaped(p)
<1>1. pc'[p] = l /\ call'[p] = call[p]
  BY ThenStays
<1>2. call[p].rc = "ok"
  BY DEF WriteInv, Refused
<1>3. QED
  BY <1>1, <1>2 DEF Shaped, Taken, WriteShape, OnAppend, Plainly

(* and the same with new locals. *)
LEMMA WithShaped ==
  ASSUME Typed, WriteInv, NEW p \in Procs, NEW l \in Plainly, NEW c, With(p, l, c),
         c.rc = call[p].rc, pc[p] # "close" \/ Op(p) # "append"
  PROVE  Shaped(p)
<1>1. pc'[p] = l /\ call'[p] = c
  BY WithStays
<1>2. c.rc = "ok"
  BY DEF WriteInv, Refused
<1>3. QED
  BY <1>1, <1>2 DEF Shaped, Taken, WriteShape, OnAppend, Plainly

LEMMA ProbeShaped ==
  ASSUME Typed, WriteInv, NEW p \in Procs, Probe(p)
  PROVE  Shaped(p)
<1> USE SlotTyped
<1>1. CASE ProbeHit(p)
  <2>1. PICK s, h : /\ With(p, "found", [call[p] EXCEPT !.slot = s, !.sh = h])
                    /\ s = Phys(p)
    BY <1>1 DEF ProbeHit
  <2>2. call'[p] = [call[p] EXCEPT !.slot = s, !.sh = h] /\ pc'[p] = "found"
    BY <2>1, WithStays
  <2>3. call'[p].slot = s /\ call'[p].op = call[p].op /\ call'[p].rc = call[p].rc
    BY <2>2 DEF CallType
  <2>4. call[p].op = "append" => S[s].hash = call[p].key
    BY <1>1, <2>1 DEF ProbeHit, Candidate, Match, Op
  <2>5. call[p].key # NoKey /\ call[p].rc = "ok"
    BY <1>1, KeysAssumption DEF ProbeHit, Shape, Outside, WriteInv, Refused
  <2>6. QED
    BY <2>2, <2>3, <2>4, <2>5 DEF Shaped, Taken, WriteShape, OnAppend
<1>2. CASE ProbeNext(p)
  <2>1. PICK i : With(p, "probe", [call[p] EXCEPT !.i = i]) /\ pc[p] = "probe"
    BY <1>2 DEF ProbeNext
  <2>2. [call[p] EXCEPT !.i = i].rc = call[p].rc
    BY DEF CallType
  <2>3. QED
    BY <2>1, <2>2, WithShaped DEF Plainly
<1>3. CASE ProbeEnd(p)
  BY <1>3, ReturnShaped DEF ProbeEnd
<1>4. QED
  BY <1>1, <1>2, <1>3 DEF Probe

LEMMA GiveUpShaped ==
  ASSUME Typed, WriteInv, NEW p \in Procs, GiveUpSlot(p), pc[p] # "close"
  PROVE  Shaped(p)
<1> USE SlotTyped
<1>1. CASE Op(p) \in {"set", "purge"}
  <2>1. PICK i : With(p, "probe", [call[p] EXCEPT !.busy = TRUE, !.i = i])
    BY <1>1 DEF GiveUpSlot
  <2>2. [call[p] EXCEPT !.busy = TRUE, !.i = i].rc = call[p].rc
    BY DEF CallType
  <2>3. QED
    BY <2>1, <2>2, WithShaped DEF Plainly
<1>2. QED
  BY <1>1, ReturnShaped DEF GiveUpSlot

LEMMA EnterShaped ==
  ASSUME Typed, WriteInv, NEW p \in Procs, Enter(p)
  PROVE  Shaped(p)
<1> USE SlotTyped
<1>1. CASE LoadOdd(p) \/ CasLose(p)
  BY <1>1, GiveUpShaped DEF LoadOdd, CasLose
<1>2. CASE LoadEven(p)
  <2>1. PICK e : With(p, AfterLoad(p), [call[p] EXCEPT !.e = e]) /\ pc[p] = "found"
    BY <1>2 DEF LoadEven
  <2>2. pc'[p] = AfterLoad(p) /\ call'[p] = [call[p] EXCEPT !.e = e]
    BY <2>1, WithStays
  <2>3. call'[p].slot = call[p].slot /\ call'[p].op = call[p].op /\ call'[p].rc = call[p].rc
    BY <2>2 DEF CallType
  <2>4. AfterLoad(p) \in {"len", "copy", "wait", "forget", "cas"}
    BY DEF AfterLoad
  <2>5. call[p].rc = "ok"
    BY <2>1 DEF WriteInv, Refused
  <2>6. call[p].op = "append" => S[call[p].slot].hash # NoKey
    BY <2>1 DEF WriteInv, OnTaken, Op, Slot, At
  <2>7. QED
    BY <2>2, <2>3, <2>4, <2>5, <2>6 DEF Shaped, Taken, WriteShape, OnAppend
<1>3. CASE CasWin(p)
  <2>1. pc'[p] = AfterCas(p) /\ call'[p] = call[p] /\ pc[p] = "cas"
    BY <1>3, ThenStays DEF CasWin
  <2>2. call[p].rc = "ok"
    BY <2>1 DEF WriteInv, Refused
  <2>3. call[p].op = "append" => S[call[p].slot].hash # NoKey
    BY <2>1 DEF WriteInv, OnTaken, Op, Slot, At
  <2>4. Op(p) \in LockOps
    BY <2>1 DEF Shape, Op
  <2>5. /\ Op(p) = "set" => AfterCas(p) = "scrub"
        /\ Op(p) = "append" => AfterCas(p) = "room"
        /\ Op(p) = "setemb" => AfterCas(p) = "emb1"
        /\ Op(p) = "bump" => AfterCas(p) = "bump"
        /\ Op(p) = "purge" => AfterCas(p) = "sweep"
    BY DEF AfterCas
  <2>6. QED
    BY <2>1, <2>2, <2>3, <2>4, <2>5 DEF Shaped, Taken, WriteShape, OnAppend, Op, LockOps
<1>4. QED
  BY <1>1, <1>2, <1>3 DEF Enter

LEMMA WriteShaped ==
  ASSUME Typed, WriteInv, NEW p \in Procs, Write(p)
  PROVE  Shaped(p)
<1> USE SlotTyped
<1>1. CASE SetScrub(p) \/ SetFill(p) \/ SetBlank(p) \/ SetEmbFirst(p)
  <2>1. /\ call'[p] = call[p]
        /\ \/ pc[p] = "scrub" /\ pc'[p] = "fill"
           \/ pc[p] = "fill" /\ pc'[p] = "blank"
           \/ pc[p] = "blank" /\ pc'[p] = "link"
           \/ pc[p] = "emb1" /\ pc'[p] = "emb2"
    BY <1>1, ThenStays DEF SetScrub, SetFill, SetBlank, SetEmbFirst
  <2>2. QED
    BY <2>1 DEF WriteInv, Refused, Placed, Shaped, Taken, WriteShape, OnAppend, Op
<1>2. CASE SetLink(p) \/ AppendExtend(p) \/ SetEmbSecond(p) \/ PurgeSweep(p) \/ BumpPulse(p)
  <2>1. Then(p, "close") /\ pc[p] # "close"
    BY <1>2 DEF SetLink, AppendExtend, SetEmbSecond, PurgeSweep, BumpPulse
  <2>2. QED
    BY <2>1, ThenShaped DEF Plainly
<1>3. CASE AppendRoom(p)
  <2>1. PICK n : With(p, "extend", [call[p] EXCEPT !.n = n]) /\ pc[p] = "room"
    BY <1>3 DEF AppendRoom
  <2>2. pc'[p] = "extend" /\ call'[p] = [call[p] EXCEPT !.n = n]
    BY <2>1, WithStays
  <2>3. call'[p].slot = call[p].slot /\ call'[p].op = call[p].op /\ call'[p].rc = call[p].rc
    BY <2>2 DEF CallType
  <2>4. call[p].op = "append" /\ call[p].rc = "ok" /\ S[call[p].slot].hash # NoKey
    BY <2>1 DEF WriteInv, Refused, Placed, OnTaken, Op, Slot, At
  <2>5. QED
    BY <2>2, <2>3, <2>4 DEF Shaped, Taken, WriteShape, OnAppend
<1>4. CASE AppendTooLong(p)
  <2>1. pc'[p] = "close" /\ call'[p] = [call[p] EXCEPT !.rc = "toolong"] /\ pc[p] = "room"
    BY <1>4, WithStays DEF AppendTooLong
  <2>2. call'[p].op = "append"
    BY <2>1 DEF WriteInv, Placed, Op, CallType
  <2>3. QED
    BY <2>1, <2>2 DEF Shaped, Taken, WriteShape, OnAppend
<1>5. CASE CloseSlot(p)
  <2>1. CASE Op(p) = "purge"
    <3>1. PICK i : With(p, "probe", [call[p] EXCEPT !.i = i])
      BY <1>5, <2>1 DEF CloseSlot
    <3>2. [call[p] EXCEPT !.i = i].rc = call[p].rc
      BY DEF CallType
    <3>3. QED
      BY <2>1, <3>1, <3>2, WithShaped DEF Plainly
  <2>2. CASE Op(p) # "purge" /\ (Op(p) = "bump" \/ (Op(p) = "append" /\ call[p].rc # "ok"))
    BY <1>5, <2>2, ReturnShaped DEF CloseSlot
  <2>3. CASE Op(p) # "purge" /\ ~ (Op(p) = "bump" \/ (Op(p) = "append" /\ call[p].rc # "ok"))
    <3>1. Then(p, "pulse")
      BY <1>5, <2>3 DEF CloseSlot
    <3>2. QED
      BY <2>3, <3>1, ThenShaped DEF Plainly
  <2>4. QED
    BY <2>1, <2>2, <2>3
<1>6. QED
  BY <1>1, <1>2, <1>3, <1>4, <1>5 DEF Write

LEMMA PublishShaped ==
  ASSUME Typed, WriteInv, NEW p \in Procs, Publish(p)
  PROVE  Shaped(p)
<1>1. pc[p] # "close"
  BY DEF Publish, Pulse, GlobalEpoch, NotifySkip, NotifyDirty, NotifyBell
<1>2. Return(p, "ok") \/ Then(p, "dirty") \/ Then(p, "epoch") \/ Then(p, "bell")
  BY DEF Publish, Pulse, GlobalEpoch, NotifySkip, NotifyDirty, NotifyBell
<1>3. QED
  BY <1>1, <1>2, ReturnShaped, ThenShaped DEF Plainly

LEMMA ReadShaped ==
  ASSUME Typed, WriteInv, NEW p \in Procs, Read(p)
  PROVE  Shaped(p)
<1> USE SlotTyped
<1>1. CASE ReadLen(p)
  <2>1. PICK n : With(p, "copy", [call[p] EXCEPT !.n = n]) /\ pc[p] = "len"
    BY <1>1 DEF ReadLen
  <2>2. [call[p] EXCEPT !.n = n].rc = call[p].rc
    BY DEF CallType
  <2>3. QED
    BY <2>1, <2>2, WithShaped DEF Plainly
<1>2. CASE ReadCopy(p)
  <2>1. PICK b : With(p, "copy", [call[p] EXCEPT !.buf = b]) /\ pc[p] = "copy"
    BY <1>2 DEF ReadCopy
  <2>2. [call[p] EXCEPT !.buf = b].rc = call[p].rc
    BY DEF CallType
  <2>3. QED
    BY <2>1, <2>2, WithShaped DEF Plainly
<1>3. CASE SnapStart(p)
  <2>1. PICK e : With(p, "len", [call[p] EXCEPT !.e = e, !.buf = << >>]) /\ pc[p] = "found"
    BY <1>3 DEF SnapStart
  <2>2. [call[p] EXCEPT !.e = e, !.buf = << >>].rc = call[p].rc
    BY DEF CallType
  <2>3. QED
    BY <2>1, <2>2, WithShaped DEF Plainly
<1>4. CASE SnapEnd(p)
  <2>1. CASE Return(p, "ok")
    BY <2>1, ReturnShaped
  <2>2. CASE ~ Return(p, "ok")
    <3>1. PICK e : With(p, "found", [call[p] EXCEPT !.end = e])
      BY <1>4, <2>2 DEF SnapEnd
    <3>2. /\ [call[p] EXCEPT !.end = e].rc = call[p].rc
          /\ [call[p] EXCEPT !.end = e].op = call[p].op
      BY DEF CallType
    <3>3. pc[p] = "copy" /\ call[p].op = "snapshot"
      BY <1>4 DEF SnapEnd, Op
    <3>4. pc'[p] = "found" /\ call'[p] = [call[p] EXCEPT !.end = e] /\ call[p].rc = "ok"
      BY <3>1, <3>3, WithStays DEF WriteInv, Refused
    <3>5. QED
      BY <3>2, <3>3, <3>4 DEF Shaped, Taken, WriteShape, OnAppend
  <2>3. QED
    BY <2>1, <2>2
<1>5. CASE ReadVerify(p) \/ SnapOdd(p)
  BY <1>5, ReturnShaped DEF ReadVerify, SnapOdd
<1>6. QED
  BY <1>1, <1>2, <1>3, <1>4, <1>5 DEF Read

LEMMA PollShaped ==
  ASSUME Typed, WriteInv, NEW p \in Procs, Poll(p)
  PROVE  Shaped(p)
<1>1. CASE PollClock(p)
  <2>1. With(p, "wait", [call[p] EXCEPT !.late = TRUE]) /\ pc[p] = "wait"
    BY <1>1 DEF PollClock
  <2>2. [call[p] EXCEPT !.late = TRUE].rc = call[p].rc
    BY SlotTyped DEF CallType
  <2>3. QED
    BY <2>1, <2>2, WithShaped DEF Plainly
<1>2. CASE PollMoved(p) \/ PollTimeout(p)
  BY <1>2, ReturnShaped DEF PollMoved, PollTimeout
<1>3. QED
  BY <1>1, <1>2 DEF Poll

LEMMA OutrightShaped ==
  ASSUME Typed, WriteInv, NEW p \in Procs, Unset(p) \/ Retrain(p)
  PROVE  Shaped(p)
<1>1. CASE UnsetForget(p)
  <2>1. PICK n, w, b : With(p, "wipe", [call[p] EXCEPT !.n = n, !.wm = w, !.bl = b])
    BY <1>1 DEF UnsetForget
  <2>2. pc[p] = "forget" /\ [call[p] EXCEPT !.n = n, !.wm = w, !.bl = b].rc = call[p].rc
    BY <1>1, SlotTyped DEF UnsetForget, CallType
  <2>3. QED
    BY <2>1, <2>2, WithShaped DEF Plainly
<1>2. CASE ~ UnsetForget(p)
  <2>1. PICK l \in {"rewind", "reset", "reopen", "pulse", "zeroemb", "even4"} : Then(p, l)
    BY <1>2 DEF Unset, Retrain, UnsetWipe, UnsetRewind, UnsetReset, UnsetReopen,
       RetrainOdd, RetrainZero, RetrainEven
  <2>2. pc[p] # "close"
    BY <1>2 DEF Unset, Retrain, UnsetWipe, UnsetRewind, UnsetReset, UnsetReopen,
       RetrainOdd, RetrainZero, RetrainEven
  <2>3. QED
    BY <2>1, <2>2, ThenShaped DEF Plainly
<1>3. QED
  BY <1>1, <1>2

LEMMA MarkShaped ==
  ASSUME Typed, WriteInv, NEW p \in Procs, Mark(p)
  PROVE  Shaped(p)
<1>1. CASE SetLabel(p) \/ UnsetLabel(p)
  <2>1. PICK b : With(p, "pulse", [call[p] EXCEPT !.bl = b])
    BY <1>1 DEF SetLabel, UnsetLabel
  <2>2. pc[p] = "found" /\ [call[p] EXCEPT !.bl = b].rc = call[p].rc
    BY <1>1, SlotTyped DEF SetLabel, UnsetLabel, CallType
  <2>3. QED
    BY <2>1, <2>2, WithShaped DEF Plainly
<1>2. CASE PulseKeygroup(p) \/ WatchRegister(p) \/ WatchUnregister(p)
  <2>1. pc[p] = "found" /\ (Then(p, "pulse") \/ Return(p, "ok"))
    BY <1>2 DEF PulseKeygroup, WatchRegister, WatchUnregister
  <2>2. QED
    BY <2>1, ThenShaped, ReturnShaped DEF Plainly
<1>3. QED
  BY <1>1, <1>2 DEF Mark

LEMMA StepShaped ==
  ASSUME Typed, WriteInv, NEW p \in Procs, Step(p)
  PROVE  Shaped(p)
BY ProbeShaped, EnterShaped, WriteShaped, PublishShaped, ReadShaped, PollShaped, OutrightShaped,
   MarkShaped DEF Step

(* Few steps change the hash of a slot or the length of its value; unset   *)
(* alone, which meets no append, frees a slot.                             *)
Resizes(p) == SetFill(p) \/ SetLink(p) \/ AppendExtend(p) \/ UnsetForget(p) \/ UnsetReset(p)

LEMMA SizeKept ==
  ASSUME Typed, NEW p \in Procs, Step(p), ~ Resizes(p), NEW s \in SlotIds
  PROVE  S'[s].hash = S[s].hash /\ S'[s].val_len = S[s].val_len
<1> USE SlotTyped
<1>1. CASE Write(p)
  <2>1. CASE SetScrub(p)
    BY <2>1 DEF SetScrub, Typed, TypeOK, SlotType
  <2>3. CASE AppendRoom(p)
    BY <2>3 DEF AppendRoom, Typed, TypeOK, SlotType
  <2>5. CASE SetEmbFirst(p) \/ SetEmbSecond(p)
    <3>1. CASE SetEmbFirst(p)
      BY <3>1 DEF SetEmbFirst, Typed, TypeOK, SlotType
    <3>2. CASE SetEmbSecond(p)
      BY <3>2 DEF SetEmbSecond, Typed, TypeOK, SlotType
    <3>3. QED
      BY <2>5, <3>1, <3>2
  <2>6. CASE PurgeSweep(p)
    BY <2>6 DEF PurgeSweep, Typed, TypeOK, SlotType
  <2>7. CASE CloseSlot(p) \/ SetBlank(p)
    <3>1. CASE CloseSlot(p)
      BY <3>1 DEF CloseSlot, Typed, TypeOK, SlotType
    <3>2. CASE SetBlank(p)
      <4>1. PICK x : x = IF call[p].sh = NoKey THEN NoEmbedding ELSE S[At(p)].embedding
        OBVIOUS
      <4>2. S' = [S EXCEPT ![At(p)].embedding = x, ![At(p)].key = NoKey]
        BY <3>2, <4>1 DEF SetBlank
      <4>3. QED
        BY <4>2 DEF Typed, TypeOK, SlotType
    <3>3. QED
      BY <2>7, <3>1, <3>2
  <2>8. CASE AppendTooLong(p) \/ BumpPulse(p)
    BY <2>8 DEF AppendTooLong, BumpPulse
  <2>9. QED
    BY <1>1, <2>1, <2>3, <2>5, <2>6, <2>7, <2>8 DEF Write, Resizes
<1>2. CASE Probe(p) \/ Publish(p) \/ Read(p) \/ Poll(p)
  BY <1>2 DEF Probe, ProbeHit, ProbeNext, ProbeEnd, Publish, Pulse, GlobalEpoch, NotifySkip,
     NotifyDirty, NotifyBell, Read, ReadLen, ReadCopy, ReadVerify, SnapOdd, SnapStart, SnapEnd,
     Poll, PollClock, PollMoved, PollTimeout
<1>3. CASE Enter(p)
  <2>1. CASE CasWin(p)
    BY <2>1 DEF CasWin, Typed, TypeOK, SlotType
  <2>2. CASE ~ CasWin(p)
    BY <1>3, <2>2 DEF Enter, LoadOdd, LoadEven, CasLose
  <2>3. QED
    BY <2>1, <2>2
<1>4. CASE Unset(p)
  <2>1. CASE UnsetWipe(p)
    BY <2>1 DEF UnsetWipe, Typed, TypeOK, SlotType
  <2>2. CASE UnsetRewind(p)
    BY <2>2 DEF UnsetRewind, Typed, TypeOK, SlotType
  <2>4. CASE UnsetReopen(p)
    BY <2>4 DEF UnsetReopen, Typed, TypeOK, SlotType
  <2>5. QED
    BY <1>4, <2>1, <2>2, <2>4 DEF Unset, Resizes
<1>5. CASE Retrain(p)
  <2>1. CASE RetrainOdd(p)
    BY <2>1 DEF RetrainOdd, Typed, TypeOK, SlotType
  <2>2. CASE RetrainZero(p)
    BY <2>2 DEF RetrainZero, Typed, TypeOK, SlotType
  <2>3. CASE RetrainEven(p)
    BY <2>3 DEF RetrainEven, Typed, TypeOK, SlotType
  <2>4. QED
    BY <1>5, <2>1, <2>2, <2>3 DEF Retrain
<1>6. CASE Mark(p)
  <2>1. CASE SetLabel(p) \/ UnsetLabel(p)
    <3>1. CASE SetLabel(p)
      BY <3>1 DEF SetLabel, Typed, TypeOK, SlotType
    <3>2. CASE UnsetLabel(p)
      BY <3>2 DEF UnsetLabel, Typed, TypeOK, SlotType
    <3>3. QED
      BY <2>1, <3>1, <3>2
  <2>2. CASE WatchRegister(p) \/ WatchUnregister(p)
    <3>1. CASE WatchRegister(p)
      BY <3>1 DEF WatchRegister, Typed, TypeOK, SlotType
    <3>2. CASE WatchUnregister(p)
      BY <3>2 DEF WatchUnregister, Typed, TypeOK, SlotType
    <3>3. QED
      BY <2>2, <3>1, <3>2
  <2>3. CASE PulseKeygroup(p)
    BY <2>3 DEF PulseKeygroup
  <2>4. QED
    BY <1>6, <2>1, <2>2, <2>3 DEF Mark
<1>7. QED
  BY <1>1, <1>2, <1>3, <1>4, <1>5, <1>6 DEF Step

LEMMA StaysTaken ==
  ASSUME Typed, NEW p \in Procs, Step(p), ~ UnsetForget(p), NEW s \in SlotIds,
         S[s].hash # NoKey
  PROVE  S'[s].hash # NoKey
<1> USE SlotTyped
<1>1. CASE SetLink(p)
  <2>1. call[p].key # NoKey
    BY <1>1, KeysAssumption DEF SetLink, Shape, Outside
  <2>2. S' = [S EXCEPT ![At(p)].key = call[p].key, ![At(p)].hash = call[p].key]
    BY <1>1 DEF SetLink
  <2>3. QED
    BY <2>1, <2>2 DEF Typed, TypeOK, SlotType
<1>2. CASE SetFill(p)
  BY <1>2 DEF SetFill, Typed, TypeOK, SlotType
<1>3. CASE AppendExtend(p)
  BY <1>3 DEF AppendExtend, Typed, TypeOK, SlotType
<1>4. CASE UnsetReset(p)
  BY <1>4 DEF UnsetReset, Typed, TypeOK, SlotType
<1>5. QED
  BY <1>1, <1>2, <1>3, <1>4, SizeKept DEF Resizes

LEMMA StepWrites ==
  ASSUME IInv, IInv', WriteInv, NEW p \in Procs, Step(p)
  PROVE  WriteInv'
<1>1. Typed
  BY DEF IInv, Typed
<1>2. Shaped(p) /\ OthersStay(p)
  BY <1>1, StepShaped, StepStays DEF KeepsCall
<1>3. call'[p].slot \in SlotIds /\ \A q \in Procs : call[q].slot \in SlotIds
  BY <1>1 DEF IInv, Typed, TypeOK, CallType
<1>4. CASE ~ UnsetForget(p)
  <2>1. \A s \in SlotIds : S[s].hash # NoKey => S'[s].hash # NoKey
    BY <1>1, <1>4, StaysTaken
  <2>2. ASSUME NEW q \in Procs
        PROVE  /\ WriteShape(pc'[q], call'[q])
               /\ OnAppend(pc'[q], call'[q]) => S'[call'[q].slot].hash # NoKey
    <3>1. CASE q = p
      BY <1>2, <1>3, <2>1, <3>1 DEF Shaped, Taken
    <3>2. CASE q # p
      <4>1. pc'[q] = pc[q] /\ call'[q] = call[q]
        BY <1>2, <3>2 DEF OthersStay
      <4>2. QED
        BY <1>3, <2>1, <4>1, WriteParts
    <3>3. QED
      BY <3>1, <3>2
  <2>3. QED
    BY <2>2 DEF WriteInv, WriteShape, OnAppend, OnTaken, Refused, Placed, Op, At, Slot
<1>5. CASE UnsetForget(p)
  <2>1. Outright(p)
    BY <1>5 DEF Outright, Unset
  <2>2. \A q \in Procs \ {p} : pc[q] \in Outside
    BY <1>1, <2>1, Alone DEF IInv
  <2>3. \A q \in Procs : WriteShape(pc'[q], call'[q])
    BY <1>2, WriteParts DEF Shaped, OthersStay
  <2>4. \A q \in Procs : pc'[q] \in Outside \cup {"wipe"}
    BY <1>1, <1>2, <1>5, <2>2, WithStays DEF OthersStay, UnsetForget
  <2>5. QED
    BY <2>3, <2>4 DEF WriteInv, WriteShape, OnTaken, Refused, Placed, Op, Outside
<1>6. QED
  BY <1>4, <1>5

-----------------------------------------------------------------------------
(* A free slot stays empty *)

LEMMA FreeElsewhere ==
  ASSUME FreeIsEmpty, NEW p \in Procs, OthersStay(p), NEW a, a = At(p),
         \A s \in SlotIds \ {a} : S'[s] = S[s],
         S'[a].hash # NoKey \/ S'[a].val_len = 0 \/ Midway(p, a)'
  PROVE  FreeIsEmpty'
<1>1. ASSUME NEW s \in SlotIds, S'[s].hash = NoKey, s # a
      PROVE  S'[s].val_len = 0 \/ \E q \in Procs : Midway(q, s)'
  <2>1. CASE S[s].val_len = 0
    BY <1>1, <2>1
  <2>2. CASE S[s].val_len # 0
    <3>1. PICK q \in Procs : Midway(q, s)
      BY <1>1, <2>2 DEF FreeIsEmpty
    <3>2. q # p
      BY <1>1, <3>1 DEF Midway
    <3>3. Midway(q, s)'
      BY <3>1, <3>2 DEF Midway, OthersStay, At
    <3>4. QED
      BY <3>3
  <2>3. QED
    BY <2>1, <2>2
<1>2. QED
  BY <1>1 DEF FreeIsEmpty

LEMMA StepFree ==
  ASSUME Typed, WriteInv, FreeIsEmpty, NEW p \in Procs, Step(p)
  PROVE  FreeIsEmpty'
<1> USE SlotTyped
<1>1. PICK a \in SlotIds : a = At(p)
  OBVIOUS
<1>2. OthersStay(p) /\ S \in [SlotIds -> SlotType]
  BY StepStays DEF KeepsCall, Typed, TypeOK
<1>3. CASE SetFill(p)
  <2>1. pc'[p] = "blank" /\ call'[p] = call[p]
    BY <1>3, ThenStays DEF SetFill
  <2>2. Midway(p, a)' /\ \A s \in SlotIds \ {a} : S'[s] = S[s]
    BY <1>1, <1>2, <1>3, <2>1 DEF SetFill, Midway, At
  <2>3. QED
    BY <1>1, <1>2, <2>2, FreeElsewhere
<1>4. CASE SetLink(p)
  <2>1. call[p].key # NoKey
    BY <1>4, KeysAssumption DEF SetLink, Shape, Outside
  <2>2. S' = [S EXCEPT ![a].key = call[p].key, ![a].hash = call[p].key]
    BY <1>1, <1>4 DEF SetLink
  <2>3. S'[a].hash # NoKey /\ \A s \in SlotIds \ {a} : S'[s] = S[s]
    BY <1>2, <2>1, <2>2 DEF SlotType
  <2>4. QED
    BY <1>1, <1>2, <2>3, FreeElsewhere
<1>5. CASE AppendExtend(p)
  <2>1. S[a].hash # NoKey
    BY <1>1, <1>5 DEF AppendExtend, WriteInv, Placed, OnTaken, Slot
  <2>2. S'[a].hash # NoKey /\ \A s \in SlotIds \ {a} : S'[s] = S[s]
    BY <1>1, <1>2, <1>5, <2>1 DEF AppendExtend, SlotType
  <2>3. QED
    BY <1>1, <1>2, <2>2, FreeElsewhere
<1>6. CASE UnsetForget(p)
  <2>1. PICK n, w, b : With(p, "wipe", [call[p] EXCEPT !.n = n, !.wm = w, !.bl = b])
    BY <1>6 DEF UnsetForget
  <2>2. pc'[p] = "wipe" /\ call'[p] = [call[p] EXCEPT !.n = n, !.wm = w, !.bl = b]
    BY <2>1, WithStays
  <2>3. call'[p].slot = a
    BY <1>1, <2>2 DEF At, CallType
  <2>4. Midway(p, a)' /\ \A s \in SlotIds \ {a} : S'[s] = S[s]
    BY <1>1, <1>2, <1>6, <2>2, <2>3 DEF UnsetForget, Midway, At
  <2>5. QED
    BY <1>1, <1>2, <2>4, FreeElsewhere
<1>7. CASE UnsetReset(p)
  <2>1. S'[a].val_len = 0 /\ \A s \in SlotIds \ {a} : S'[s] = S[s]
    BY <1>1, <1>2, <1>7 DEF UnsetReset, SlotType
  <2>2. QED
    BY <1>1, <1>2, <2>1, FreeElsewhere
<1>8. CASE ~ Resizes(p)
  <2>1. \A s \in SlotIds : S'[s].hash = S[s].hash /\ S'[s].val_len = S[s].val_len
    BY <1>8, SizeKept
  <2>2. ASSUME NEW s \in SlotIds, Midway(p, s)
        PROVE  Midway(p, s)'
    <3>1. SetBlank(p) \/ UnsetWipe(p) \/ UnsetRewind(p)
      BY <1>8, <2>2 DEF Resizes, Midway, Step, Probe, ProbeHit, ProbeNext, ProbeEnd, Enter,
         LoadOdd, LoadEven, CasWin, CasLose, Write, SetScrub, AppendRoom, AppendTooLong,
         SetEmbFirst, SetEmbSecond, PurgeSweep, BumpPulse, CloseSlot, Publish, Pulse,
         GlobalEpoch, NotifySkip, NotifyDirty, NotifyBell, Read, ReadLen, ReadCopy, ReadVerify,
         SnapOdd, SnapStart, SnapEnd, Poll, PollClock, PollMoved, PollTimeout, Unset,
         UnsetReopen, Retrain, RetrainOdd, RetrainZero, RetrainEven, Mark, SetLabel, UnsetLabel,
         PulseKeygroup, WatchRegister, WatchUnregister
    <3>2. pc'[p] \in {"link", "rewind", "reset"} /\ call'[p] = call[p]
      BY <3>1, ThenStays DEF SetBlank, UnsetWipe, UnsetRewind
    <3>3. QED
      BY <2>2, <3>2 DEF Midway, At
  <2>3. \A q \in Procs, s \in SlotIds : Midway(q, s) => Midway(q, s)'
    BY <1>2, <2>2 DEF OthersStay, Midway, At
  <2>4. QED
    BY <2>1, <2>3 DEF FreeIsEmpty
<1>9. QED
  BY <1>3, <1>4, <1>5, <1>6, <1>7, <1>8 DEF Resizes

-----------------------------------------------------------------------------
(* Nothing that is to be reported is dropped: neither by a call, *)

LEMMA CallReports ==
  ASSUME Reported, NEW p \in Procs, OthersStay(p), Tells(p), GoesOn(p),
         H.dirty \subseteq H'.dirty, UNCHANGED << con, seen >>
  PROVE  Reported'
<1> SUFFICES ASSUME NEW s \in SlotIds
             PROVE  \/ seen'[s] = Face(s)'
                    \/ \E q \in Procs : Changing(q, s)'
                    \/ s \div Stripe \in H'.dirty
                    \/ \E c \in Consumers : s \div Stripe \in con'[c].bits \/ s \in con'[c].todo
  BY DEF Reported
<1>1. CASE \E q \in Procs : Changing(q, s)
  <2>1. PICK q \in Procs : Changing(q, s)
    BY <1>1
  <2>2. CASE q = p
    BY <2>1, <2>2 DEF GoesOn
  <2>3. CASE q # p
    BY <2>1, <2>3 DEF Changing, OthersStay, At, Op
  <2>4. QED
    BY <2>2, <2>3
<1>2. CASE ~ \E q \in Procs : Changing(q, s)
  BY <1>2 DEF Reported, Tells
<1>3. QED
  BY <1>1, <1>2

(* nor by a consumer. *)
Waits(s) ==
  s \div Stripe \in H.dirty \/ \E c \in Consumers : s \div Stripe \in con[c].bits \/ s \in con[c].todo

LEMMA ConsumerWaits ==
  ASSUME BusTypeOK, HandsFree, NEW c \in Consumers, Consume(c)
  PROVE  /\ HandsFree'
         /\ \A s \in SlotIds : Waits(s) => Waits(s)' \/ seen'[s] = Face(s)
         /\ \A s \in SlotIds : seen[s] = Face(s) => seen'[s] = Face(s)
<1>1. /\ con \in [Consumers -> ConType] /\ H \in HeaderType /\ con[c] \in ConType
      /\ DOMAIN seen = SlotIds
  BY DEF BusTypeOK, TypeOK
<1>0. PICK W : 0 \in W /\ ConType =
        [pc : {"wait", "read", "mask", "visit"}, w : W,
         bits : SUBSET Nat, saved : SUBSET Nat, todo : SUBSET SlotIds]
  BY ConWords
<1>2. ASSUME NEW r \in ConType, con' = [con EXCEPT ![c] = r],
             r.pc # "mask" => r.bits = {}, r.pc # "visit" => r.todo = {}
      PROVE  HandsFree'
  BY <1>1, <1>2 DEF HandsFree
<1>3. ASSUME NEW r \in ConType, con' = [con EXCEPT ![c] = r],
             r.bits = con[c].bits, r.todo = con[c].todo, H'.dirty = H.dirty
      PROVE  \A s \in SlotIds : Waits(s) => Waits(s)'
  BY <1>1, <1>3 DEF Waits
<1>4. CASE Wake(c) \/ Again(c) \/ Rearm(c)
  <2>1. PICK l \in {"read", "wait"} : con' = [con EXCEPT ![c].pc = l]
    BY <1>4 DEF Wake, Again, Rearm
  <2>2. con[c].bits = {} /\ con[c].todo = {}
    BY <1>4 DEF Wake, Again, Rearm, HandsFree
  <2>3. PICK r \in ConType : /\ con' = [con EXCEPT ![c] = r]
                             /\ r.pc = l /\ r.bits = con[c].bits /\ r.todo = con[c].todo
    <3>1. [con[c] EXCEPT !.pc = l] \in ConType
      BY <1>1 DEF ConType
    <3>2. con' = [con EXCEPT ![c] = [con[c] EXCEPT !.pc = l]]
      BY <1>1, <2>1
    <3>3. /\ [con[c] EXCEPT !.pc = l].pc = l
          /\ [con[c] EXCEPT !.pc = l].bits = con[c].bits
          /\ [con[c] EXCEPT !.pc = l].todo = con[c].todo
      BY <1>1 DEF ConType
    <3>4. QED
      BY <3>1, <3>2, <3>3
  <2>4. UNCHANGED << H, seen >>
    BY <1>4 DEF Wake, Again, Rearm, vars
  <2>5. QED
    BY <1>2, <1>3, <2>2, <2>3, <2>4
<1>5. CASE Drain(c)
  <2>1. con[c].bits = {} /\ con[c].todo = {}
    BY <1>5 DEF Drain, HandsFree
  <2>2. PICK r : r = [[[con[c] EXCEPT !.pc = "mask"] EXCEPT !.w = 0] EXCEPT !.bits = {}]
    OBVIOUS
  <2>3. r \in ConType /\ r.pc = "mask" /\ r.bits = {} /\ r.todo = con[c].todo
    BY <1>1, <1>0, <2>2
  <2>4. con' = [con EXCEPT ![c] = r]
    BY <1>1, <1>5, <2>2 DEF Drain
  <2>5. H'.dirty = H.dirty /\ UNCHANGED seen
    BY <1>1, <1>5 DEF Drain, HeaderType
  <2>6. QED
    BY <1>2, <1>3, <2>1, <2>3, <2>4, <2>5
<1>6. CASE TakeWord(c)
  <2>1. InWord(c) \subseteq H.dirty /\ H'.dirty = H.dirty \ InWord(c) /\ UNCHANGED seen
    BY <1>1, <1>6 DEF TakeWord, InWord, HeaderType
  <2>2. con' = [con EXCEPT ![c].w = @ + 1, ![c].bits = @ \cup InWord(c)]
    BY <1>6 DEF TakeWord, Collect
  <2>3. /\ con'[c].bits = con[c].bits \cup InWord(c)
        /\ con'[c].todo = con[c].todo /\ con'[c].pc = con[c].pc
        /\ \A d \in Consumers \ {c} : con'[d] = con[d]
    BY <1>1, <2>2 DEF ConType
  <2>4. HandsFree'
    BY <1>6, <2>3 DEF HandsFree, TakeWord
  <2>5. ASSUME NEW s \in SlotIds, Waits(s)
        PROVE  Waits(s)'
    <3>1. CASE s \div Stripe \in H.dirty
      BY <2>1, <2>3, <3>1 DEF Waits
    <3>2. CASE \E d \in Consumers : s \div Stripe \in con[d].bits \/ s \in con[d].todo
      BY <2>3, <3>2 DEF Waits
    <3>3. QED
      BY <2>5, <3>1, <3>2 DEF Waits
  <2>6. QED
    BY <2>1, <2>4, <2>5
<1>7. CASE Rescan(c)
  <2>1. PICK t : t = {s \in SlotIds : s \div Stripe \in con[c].bits}
    OBVIOUS
  <2>2. con[c].todo = {} /\ UNCHANGED << H, seen >>
    BY <1>7 DEF Rescan, HandsFree, vars
  <2>3. PICK r : r = [[[[con[c] EXCEPT !.pc = "visit"] EXCEPT !.w = 0] EXCEPT !.bits = {}]
                        EXCEPT !.todo = t]
    OBVIOUS
  <2>4. r \in ConType /\ r.pc = "visit" /\ r.bits = {} /\ r.todo = t
    BY <1>1, <1>0, <2>1, <2>3
  <2>5. con' = [con EXCEPT ![c] = r]
    BY <1>1, <1>7, <2>1, <2>3 DEF Rescan
  <2>6. ASSUME NEW s \in SlotIds, Waits(s)
        PROVE  Waits(s)'
    <3>1. CASE s \div Stripe \in H.dirty
      BY <2>2, <3>1 DEF Waits
    <3>2. CASE s \div Stripe \in con[c].bits
      <4>1. s \in con'[c].todo
        BY <1>1, <2>1, <2>4, <2>5, <3>2
      <4>2. QED
        BY <4>1 DEF Waits
    <3>3. CASE \E d \in Consumers \ {c} : s \div Stripe \in con[d].bits \/ s \in con[d].todo
      BY <1>1, <2>5, <3>3 DEF Waits
    <3>4. QED
      BY <2>2, <2>6, <3>1, <3>2, <3>3 DEF Waits
  <2>7. QED
    BY <1>2, <2>2, <2>4, <2>5, <2>6
<1>8. CASE Visit(c)
  <2>1. PICK s \in SlotIds : /\ con[c].pc = "visit" /\ s \in con[c].todo
                             /\ con' = [con EXCEPT ![c].todo = @ \ {s}]
                             /\ seen' = [seen EXCEPT ![s] = Face(s)]
                             /\ UNCHANGED H
    BY <1>1, <1>8 DEF Visit, vars, ConType
  <2>2. /\ con'[c].todo = con[c].todo \ {s} /\ con'[c].pc = "visit"
        /\ con'[c].bits = con[c].bits
        /\ \A d \in Consumers \ {c} : con'[d] = con[d]
    BY <1>1, <2>1 DEF ConType
  <2>3. HandsFree'
    BY <2>1, <2>2 DEF HandsFree
  <2>4. seen'[s] = Face(s) /\ \A u \in SlotIds \ {s} : seen'[u] = seen[u]
    BY <1>1, <2>1
  <2>5. QED
    BY <2>1, <2>2, <2>3, <2>4 DEF Waits
<1>9. QED
  BY <1>4, <1>5, <1>6, <1>7, <1>8 DEF Consume, Waiting

LEMMA ConsumerReports ==
  ASSUME BusInv, NEW c \in Consumers, Consume(c)
  PROVE  HandsFree' /\ Reported'
<1>1. /\ HandsFree'
      /\ \A s \in SlotIds : Waits(s) => Waits(s)' \/ seen'[s] = Face(s)
      /\ \A s \in SlotIds : seen[s] = Face(s) => seen'[s] = Face(s)
  BY ConsumerWaits DEF BusInv
<1>2. UNCHANGED << S, pc, call >>
  BY DEF Consume, Waiting, Wake, Drain, Again, Visit, Rearm, TakeWord, Rescan, vars
<1>3. \A s \in SlotIds : /\ Face(s)' = Face(s)
                         /\ \A p \in Procs : Changing(p, s)' <=> Changing(p, s)
  BY <1>2 DEF Face, Changing, At, Op
<1>4. \A s \in SlotIds : seen[s] = Face(s) \/ (\E p \in Procs : Changing(p, s)) \/ Waits(s)
  BY DEF BusInv, Reported, Waits
<1>5. \A s \in SlotIds :
        seen'[s] = Face(s)' \/ (\E p \in Procs : Changing(p, s)') \/ Waits(s)'
  BY <1>1, <1>3, <1>4
<1>6. Reported'
  BY <1>5 DEF Reported, Waits
<1>7. QED
  BY <1>1, <1>6

-----------------------------------------------------------------------------
(* The invariant *)

LEMMA BeginReports ==
  ASSUME BusInv, NEW p \in Procs, NEW k \in Calls[p], NEW m \in Lens, Begin(p, k, m),
         UNCHANGED << con, seen >>
  PROVE  FreeIsEmpty' /\ WriteInv' /\ HandsFree' /\ Reported'
<1>1. Typed
  BY DEF BusInv, IInv, Typed
<1>2. UNCHANGED << S, H >> /\ pc[p] = "idle" /\ pc'[p] = "probe" /\ OthersStay(p)
  BY <1>1, BeginSilent DEF Begin, Goto, Silent, Typed, TypeOK
<1>3. call'[p].rc = "ok"
  BY <1>1 DEF Begin, Idle, Typed, TypeOK
<1>4. WriteInv'
  BY <1>2, <1>3 DEF BusInv, WriteInv, OnTaken, Refused, Placed, OthersStay, Op, At, Slot
<1>5. \A q \in Procs, s \in SlotIds : Midway(q, s) => Midway(q, s)'
  BY <1>2 DEF Midway, OthersStay, At
<1>6. FreeIsEmpty'
  BY <1>2, <1>5 DEF BusInv, FreeIsEmpty
<1>7. Tells(p) /\ GoesOn(p)
  BY <1>2 DEF Tells, GoesOn, Face, Changing
<1>8. Reported'
  BY <1>2, <1>7, CallReports DEF BusInv
<1>9. HandsFree'
  BY DEF BusInv, HandsFree
<1>10. QED
  BY <1>4, <1>6, <1>8, <1>9

LEMMA DirtyGrows ==
  ASSUME Typed, NEW p \in Procs, Step(p)
  PROVE  H.dirty \subseteq H'.dirty
BY StepMute DEF Mute, NotifyDirty, NotifyBell, Typed, TypeOK, HeaderType

LEMMA BusStep ==
  ASSUME RewindsAreQuiet, Mortal = {}, Procs \subseteq Armed, BusInv, [BusNext]_busVars
  PROVE  BusInv'
<1>1. CASE UNCHANGED busVars
  <2>1. UNCHANGED vars /\ UNCHANGED << con, seen >>
    BY <1>1 DEF busVars
  <2>2. IInv'
    BY <2>1, InvariantStep DEF BusInv
  <2>3. QED
    BY <2>1, <2>2 DEF BusInv, BusTypeOK, IInv, HandsFree, FreeIsEmpty, Midway, WriteInv, OnTaken,
       Refused, Placed, Reported, Face, Changing, vars, Op, At, Slot
<1>2. CASE Call
  <2>1. IInv'
    BY <1>2, InvariantStep DEF Call, BusInv
  <2>2. BusTypeOK'
    BY <1>2, <2>1 DEF BusInv, BusTypeOK, IInv, Call
  <2>3. PICK p \in Procs : (\E k \in Calls[p], m \in Lens : Begin(p, k, m)) \/ Step(p) \/ Kill(p)
    BY <1>2 DEF Next, Call
  <2>4. CASE \E k \in Calls[p], m \in Lens : Begin(p, k, m)
    BY <1>2, <2>1, <2>2, <2>4, BeginReports DEF Call, BusInv
  <2>5. CASE Step(p)
    <3>1. Typed /\ OthersStay(p)
      BY <2>5, StepStays DEF BusInv, IInv, Typed, KeepsCall
    <3>2. WriteInv' /\ FreeIsEmpty'
      BY <2>1, <2>5, <3>1, StepWrites, StepFree DEF BusInv
    <3>3. Tells(p) /\ GoesOn(p)
      BY <2>5, StepTells DEF BusInv, WriteInv
    <3>4. Reported'
      BY <1>2, <2>5, <3>1, <3>3, CallReports, DirtyGrows DEF BusInv, Call
    <3>5. HandsFree'
      BY <1>2 DEF BusInv, HandsFree, Call
    <3>6. QED
      BY <2>1, <2>2, <3>2, <3>4, <3>5 DEF BusInv
  <2>6. CASE Kill(p)
    BY <2>6 DEF Kill
  <2>7. QED
    BY <2>3, <2>4, <2>5, <2>6
<1>3. ASSUME NEW c \in Consumers, Consume(c)
      PROVE  BusInv'
  <2>1. UNCHANGED << S, pc, call, ret, left >>
    BY <1>3 DEF Consume, Waiting, Wake, Drain, Again, Visit, Rearm, TakeWord, Rescan, vars
  <2>2. BusTypeOK'
    BY <1>3, ConsumerTyped DEF BusInv
  <2>3. IInv'
    BY <2>1, <2>2 DEF BusInv, BusTypeOK, IInv, QuietAlone, CallShape, SeqlockOwner, ReaderExact,
       CopyExact, InCall, Holds, Op, At, Slot, Source
  <2>4. FreeIsEmpty' /\ WriteInv'
    BY <2>1 DEF BusInv, FreeIsEmpty, Midway, WriteInv, OnTaken, Refused, Placed, Op, At, Slot
  <2>5. QED
    BY <1>3, <2>2, <2>3, <2>4, ConsumerReports DEF BusInv
<1>4. QED
  BY <1>1, <1>2, <1>3 DEF BusNext

LEMMA BusStart ==
  ASSUME RewindsAreQuiet
  PROVE  BusInit => BusInv
<1> SUFFICES ASSUME BusInit
             PROVE  BusInv
  OBVIOUS
<1>1. IInv
  BY InvariantInit DEF BusInit
<1>2. BusTypeOK
  BY BusTypedStart
<1>3. HandsFree /\ Reported
  BY DEF BusInit, HandsFree, Reported, Asleep
<1>4. WriteInv
  BY DEF BusInit, Init, WriteInv, OnTaken, Refused, Placed, Op, Idle
<1>5. FreeIsEmpty
  <2>1. SUFFICES ASSUME NEW s \in SlotIds, S[s].hash = NoKey
                 PROVE  S[s].val_len = 0
    BY DEF FreeIsEmpty
  <2>2. CASE Layout[s] = NoKey
    BY <2>2 DEF BusInit, Init, Empty
  <2>3. CASE Layout[s] # NoKey
    <3>1. S[s].hash = Layout[s]
      BY <2>3 DEF BusInit, Init, Stored, Empty
    <3>2. QED
      BY <2>1, <2>3, <3>1
  <2>4. QED
    BY <2>2, <2>3
<1>6. QED
  BY <1>1, <1>2, <1>3, <1>4, <1>5 DEF BusInv

(* No change is lost on its way to the consumers: what a slot holds they   *)
(* have seen, or its writer has yet to report it, or the bit or the slot   *)
(* is in somebody's hands.  Every process has armed the bus, nobody is     *)
(* killed, and unset and retrain are called alone.                         *)
THEOREM NoChangeLost ==
  ASSUME RewindsAreQuiet, Mortal = {}, Procs \subseteq Armed
  PROVE  BusSpec => []ChangeReported
<1>1. BusInv => ChangeReported
  <2>1. SUFFICES ASSUME BusInv
                 PROVE  ChangeReported
    OBVIOUS
  <2>2. Typed
    BY <2>1 DEF BusInv, IInv, Typed
  <2>3. ASSUME NEW p \in Procs, NEW s \in SlotIds, Changing(p, s)
        PROVE  Unpublished(p, s)
    <3>1. Shape(pc[p], call[p])
      BY <2>2 DEF Typed, CallShape
    <3>2. pc[p] \notin Outside \cup {"probe", "bell"} /\ At(p) = s
      BY <2>3 DEF Changing, Outside
    <3>3. Op(p) \notin ReadOps
      BY <2>3, <3>1 DEF Changing, Shape, Critical, LockOps, ReadOps, Op
    <3>4. QED
      BY <3>2, <3>3 DEF Unpublished, InCall
  <2>4. QED
    BY <2>1, <2>3 DEF BusInv, Reported, ChangeReported
<1>2. QED
  BY <1>1, BusStart, BusStep, PTL DEF BusSpec

=============================================================================
