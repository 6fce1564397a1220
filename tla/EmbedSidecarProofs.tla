-------------------------- MODULE EmbedSidecarProofs --------------------------
(***************************************************************************)
(* What the embedding daemon counts as done carries the vector of its      *)
(* value, for every number of clients, keys and slots and every length of  *)
(* a value.                                                                *)
(***************************************************************************)
EXTENDS EmbedSidecar, SlotStoreProofs, WellFoundedInduction

-----------------------------------------------------------------------------
(* The slot a lookup reaches *)

LEMMA LeastNat ==
  ASSUME NEW T \in SUBSET Nat, T # {}
  PROVE  \E i \in T : \A j \in T : i <= j
<1> DEFINE R == {ss \in Nat \X Nat : ss[1] < ss[2]}
<1>1. IsWellFoundedOn(R, Nat)
  BY NatLessThanWellFounded DEF OpToRel
<1>2. PICK i \in T : \A j \in T : ~ (<< j, i >> \in R)
  <2> HIDE DEF R
  <2>1. QED
    BY <1>1, WFMin
<1>3. \A j \in T : ~ (j < i)
  BY <1>2
<1>4. QED
  BY <1>3

First(k) == CHOOSE i \in Distance(k) : \A j \in Distance(k) : i <= j

LEMMA FirstIs ==
  ASSUME NEW k \in Keys, Distance(k) # {}
  PROVE  /\ First(k) \in Distance(k) /\ First(k) \in 0 .. Slots - 1
         /\ \A j \in Distance(k) : First(k) <= j
         /\ Reached(k) = (Home[k] + First(k)) % Slots
<1>1. Distance(k) \subseteq 0 .. Slots - 1
  BY DEF Distance
<1>2. Distance(k) \in SUBSET Nat
  BY <1>1, SlotsAssumption
<1>3. \E i \in Distance(k) : \A j \in Distance(k) : i <= j
  BY <1>2, LeastNat
<1>4. QED
  BY <1>1, <1>3 DEF First, Reached

LEMMA ReachedIn ==
  ASSUME NEW k \in Keys
  PROVE  /\ Reached(k) # Slots <=> Distance(k) # {}
         /\ Reached(k) # Slots =>
              Reached(k) \in SlotIds /\ S[Reached(k)].hash = k /\ S[Reached(k)].key = k
<1>1. CASE Distance(k) = {}
  BY <1>1 DEF Reached
<1>2. CASE Distance(k) # {}
  <2>1. First(k) \in Distance(k) /\ Reached(k) = (Home[k] + First(k)) % Slots
    BY <1>2, FirstIs
  <2>2. First(k) \in 0 .. Slots - 1 /\ Home[k] \in 0 .. Slots - 1
    BY <1>2, FirstIs, HomeAssumption DEF SlotIds
  <2>3. Reached(k) \in 0 .. Slots - 1
    BY <2>1, <2>2, SlotsAssumption
  <2>4. S[Reached(k)].hash = k /\ S[Reached(k)].key = k
    BY <2>1 DEF Distance
  <2>5. QED
    BY <1>2, <2>3, <2>4, SlotsAssumption DEF SlotIds
<1>3. QED
  BY <1>1, <1>2

-----------------------------------------------------------------------------
(* The daemon looks at the store between its calls *)

LEMMA LookSame ==
  ASSUME UNCHANGED << vars, vectors >>
  PROVE  /\ \A k : Seats(k)' = Seats(k)
         /\ \A s : Carries(s)' = Carries(s) /\ Holds(Sidecar, s)' = Holds(Sidecar, s)
         /\ \A p \in Procs : InCall(p)' = InCall(p) /\ Op(p)' = Op(p)
         /\ (OneSeat => OneSeat') /\ (Named => Named')
BY DEF vars, Seats, Carries, Holds, At, InCall, Op, OneSeat, Named

LEMMA InvParts ==
  ASSUME SidecarInv
  PROVE  /\ Typed /\ SeqlockOwner /\ Sidecar \in Procs /\ sc \in LocalType
         /\ processed \in [Keys -> Nat] /\ S \in [SlotIds -> SlotType]
         /\ vectors \in Seq([ver : Version, text : Seq(Cell)])
         /\ H.signal[Group] \in Nat /\ left[Sidecar] \in Nat
BY SidecarAssumption
   DEF SidecarInv, SidecarTyped, IInv, Typed, TypeOK, HeaderType

(* A key has one slot, and a lookup reaches that or none. *)
LEMMA SeatIs ==
  ASSUME SidecarInv, NEW k \in Keys, NEW s \in Seats(k)
  PROVE  /\ s \in SlotIds /\ S[s].hash = k /\ Seats(k) = {s}
         /\ Reached(k) # Slots => Reached(k) = s
<1>1. s \in SlotIds /\ S[s].hash = k /\ k # NoKey
  BY KeysAssumption DEF Seats
<1>2. \A r \in SlotIds : S[r].hash = k => r = s
  BY <1>1 DEF SidecarInv, OneSeat
<1>3. QED
  BY <1>1, <1>2, ReachedIn DEF Seats

(* The key in hand keeps its slot. *)
LEMMA SeatsHold ==
  ASSUME SidecarInv, Staying, sc' = sc, sc.pc \in Keyed
  PROVE  sc.key \in Keys /\ Seats(sc.key) # {} /\ Seats(sc.key)' = Seats(sc.key)
<1>1. PICK x : x = sc.key
  OBVIOUS
<1>2. x \in Keys /\ Seats(x) # {}
  BY <1>1 DEF SidecarInv, Found
<1>3. Seats(x)' = Seats(x)
  BY <1>2 DEF Staying
<1>4. Seats(sc.key)' = Seats(x)'
  BY <1>1 DEF Seats
<1>5. QED
  BY <1>1, <1>2, <1>3, <1>4

(* It has no text in hand after the step, *)
LEMMA Looking ==
  ASSUME SidecarInv, UNCHANGED << vars, processed, vectors >>, ~ InCall(Sidecar),
         sc' \in LocalType, sc'.pc \notin Reading \cup {"unlabel", "lane"},
         Listening => Listening',
         sc'.pc \in Keyed => sc'.key \in Keys /\ Seats(sc'.key) # {},
         sc'.pc = "ptr" => ~ Odd(sc'.e), sc'.pc = "fill" => sc'.of = "fill"
  PROVE  SidecarInv'
<1>1. IInv'
  BY SameInvariant DEF SidecarInv
<1>2. SidecarTyped' /\ Numbered'
  BY DEF SidecarInv, SidecarTyped, Numbered, vars
<1>3. Making'
  BY LookSame, InvParts DEF SidecarInv, Making, Clients, Reading
<1>4. Found'
  BY LookSame, InvParts DEF SidecarInv, Found, Keyed
<1>5. ReadTrue' /\ Storing'
  BY DEF ReadTrue, Storing, Reading
<1>6. Filled'
  BY LookSame DEF SidecarInv, Filled, vars
<1>7. Entered'
  <2>1. S' = S
    BY DEF vars
  <2>2. QED
    BY <2>1, LookSame DEF SidecarInv, Entered
<1>8. QED
  BY <1>1, <1>2, <1>3, <1>4, <1>5, <1>6, <1>7, LookSame DEF SidecarInv

(* or one that it has not stored the vector of. *)
LEMMA Considering ==
  ASSUME SidecarInv, UNCHANGED << vars, processed, vectors >>, ~ InCall(Sidecar),
         sc' \in LocalType, sc'.pc \in Reading \ {"post"}, Listening' = Listening,
         sc'.key \in Keys, sc'.slot \in Seats(sc'.key),
         ~ Odd(sc'.e), sc'.e <= S[sc'.slot].epoch,
         sc'.n > 0, Len(sc'.text) <= sc'.n, sc'.pc # "text" => Len(sc'.text) = sc'.n,
         S[sc'.slot].epoch = sc'.e \/ ~ Listening =>
           /\ S[sc'.slot].val_len = sc'.n
           /\ \A c \in 1 .. Len(sc'.text) : sc'.text[c] = S[sc'.slot].val[c]
  PROVE  SidecarInv'
<1>1. IInv'
  BY SameInvariant DEF SidecarInv
<1>2. SidecarTyped' /\ Numbered'
  BY DEF SidecarInv, SidecarTyped, Numbered, vars
<1>3. Making'
  BY LookSame, InvParts DEF SidecarInv, Making, Clients, Reading
<1>4. Found'
  BY LookSame, InvParts DEF SidecarInv, Found, Keyed
<1>5. ReadTrue'
  <2>1. Moved' = 0 /\ sc'.e \in Nat
    BY DEF Moved, LocalType
  <2>2. S' = S
    BY DEF vars
  <2>3. QED
    BY <2>1, <2>2 DEF ReadTrue, Untouched
<1>6. Storing'
  BY DEF Storing
<1>7. Filled'
  BY LookSame DEF SidecarInv, Filled, vars
<1>8. Entered'
  <2>1. S' = S
    BY DEF vars
  <2>2. QED
    BY <2>1, LookSame DEF SidecarInv, Entered, Reading
<1>9. QED
  BY <1>1, <1>2, <1>3, <1>4, <1>5, <1>6, <1>7, <1>8, LookSame DEF SidecarInv

(* Outside of these the daemon is in no call. *)
LEMMA NoCall ==
  ASSUME SidecarInv, sc.pc \notin {"gated", "post", "lane", "next"}
  PROVE  ~ InCall(Sidecar)
BY DEF SidecarInv, Making

LEMMA DropStep ==
  ASSUME SidecarInv, Drop, UNCHANGED << vars, processed, vectors >>, ~ InCall(Sidecar),
         sc.pc # "baseline"
  PROVE  SidecarInv'
<1>1. sc' \in LocalType /\ sc'.pc = sc.of /\ sc'.of = sc.of
  BY InvParts DEF Drop, LocalType
<1>2. sc'.pc \in {"fill", "scan"}
  BY <1>1, InvParts DEF LocalType
<1>3. Listening => Listening'
  BY <1>1, <1>2 DEF Listening
<1>4. QED
  BY <1>1, <1>2, <1>3, Looking DEF Reading, Keyed

LEMMA NextOf ==
  ASSUME SidecarInv, sc.todo # {}
  PROVE  Next1(sc.todo) \in SlotIds /\ S[Next1(sc.todo)].key \in Keys \cup {NoKey}
<1>1. sc.todo \subseteq SlotIds /\ S \in [SlotIds -> SlotType]
  BY InvParts DEF LocalType
<1>2. sc.todo \in SUBSET Nat
  BY <1>1, SlotsAssumption DEF SlotIds
<1>3. \E s \in sc.todo : \A t \in sc.todo : s <= t
  BY <1>2, LeastNat
<1>4. Next1(sc.todo) \in sc.todo
  BY <1>3 DEF Next1
<1>5. QED
  BY <1>1, <1>4 DEF SlotType

(* Before the daemon listens the table is the one at the start. *)
LEMMA StartTable ==
  ASSUME Undisturbed, SidecarInv, ~ Listening, NEW s \in SlotIds, S[s].key # NoKey
  PROVE  S[s].key \in Keys /\ Seats(S[s].key) = {s}
<1>1. S[s].key \in Keys
  BY InvParts DEF SlotType
<1>2. S[s].hash = S[s].key
  BY DEF SidecarInv, Filled
<1>3. s \in Seats(S[s].key)
  BY <1>2 DEF Seats
<1>4. QED
  BY <1>1, <1>3, SeatIs

LEMMA EpochIs ==
  ASSUME SidecarInv, NEW k \in Keys
  PROVE  /\ Epoch(k) \in Nat
         /\ Epoch(k) # 0 => Seats(k) # {} /\ Reached(k) \in Seats(k)
         /\ Epoch(k) # 0 => \A s \in Seats(k) : Reached(k) = s /\ Epoch(k) = S[s].epoch
<1>1. k # NoKey
  BY KeysAssumption
<1>2. CASE Distance(k) = {}
  BY <1>1, <1>2 DEF Epoch
<1>3. CASE Distance(k) # {}
  <2>1. Reached(k) \in SlotIds /\ S[Reached(k)].hash = k /\ Reached(k) # Slots
    BY <1>3, ReachedIn
  <2>2. Epoch(k) = S[Reached(k)].epoch /\ Epoch(k) \in Nat
    BY <1>1, <1>3, <2>1, InvParts DEF Epoch, SlotType
  <2>3. Reached(k) \in Seats(k)
    BY <2>1 DEF Seats
  <2>4. \A s \in Seats(k) : Reached(k) = s
    BY <2>1, SeatIs
  <2>5. QED
    BY <2>2, <2>3, <2>4
<1>4. QED
  BY <1>2, <1>3

LEMMA StartStep ==
  ASSUME Undisturbed, SidecarInv, Backfill \/ BackfillDone \/ Listen
  PROVE  SidecarInv'
<1>1. UNCHANGED << vars, processed, vectors >> /\ ~ InCall(Sidecar)
  BY NoCall DEF Backfill, BackfillDone, Listen, Look
<1>2. Listed \subseteq SlotIds
  BY DEF Listed
<1>3. CASE Backfill
  <2> DEFINE s == Next1(sc.todo)  k == S[s].key
  <2>2. s \in SlotIds
    BY <1>3, NextOf DEF Backfill
  <2>3. CASE ~ (k \in Texts /\ Zeroed(S[s].embedding))
    <3>1. sc' = [sc EXCEPT !.todo = @ \ {s}]
      BY <1>3, <2>3 DEF Backfill
    <3>2. sc' \in LocalType /\ sc'.pc = "fill" /\ sc'.of = "fill"
      BY <1>3, <3>1, InvParts DEF LocalType, Backfill, SidecarInv, Making
    <3>3. ~ Listening
      BY <1>3 DEF SidecarInv, Making, Backfill, Listening
    <3>4. QED
      BY <1>1, <3>2, <3>3, Looking DEF Reading, Keyed
  <2>4. CASE k \in Texts /\ Zeroed(S[s].embedding)
    <3>1. sc' = [sc EXCEPT !.pc = "epoch", !.at = s, !.key = k]
      BY <1>3, <2>4 DEF Backfill
    <3>2. k \in Keys
      BY <2>4, SidecarAssumption
    <3>3. /\ sc' \in LocalType /\ sc'.pc = "epoch" /\ sc'.of = sc.of /\ sc'.key = k
      BY <3>1, <3>2, <2>2, InvParts DEF LocalType, Keyed
    <3>4. ~ Listening
      BY <1>3 DEF SidecarInv, Making, Backfill, Listening
    <3>5. Seats(k) # {}
      BY <2>2, <3>2, <3>4, StartTable, KeysAssumption
    <3>6. QED
      BY <1>1, <3>2, <3>3, <3>4, <3>5, Looking DEF Reading
  <2>5. QED
    BY <2>3, <2>4
<1>4. CASE BackfillDone
  <2>1. sc' \in LocalType /\ sc'.pc = "baseline" /\ ~ Listening
    BY <1>2, <1>4, InvParts DEF LocalType, BackfillDone, SidecarInv, Making, Listening
  <2>2. QED
    BY <1>1, <2>1, Looking DEF Reading, Keyed
<1>5. CASE Listen
  <2>1. sc' \in LocalType /\ sc'.pc = "wait" /\ ~ Listening
    BY <1>5, InvParts DEF LocalType, Listen, Listening
  <2>2. QED
    BY <1>1, <2>1, Looking DEF Reading, Keyed
<1>6. QED
  BY <1>3, <1>4, <1>5

(* The entries made at the start are of the vectors the backfill stored.   *)
LEMMA BaselineStep ==
  ASSUME Undisturbed, SidecarInv, Baseline
  PROVE  SidecarInv'
<1> DEFINE s == Next1(sc.todo)  k == S[s].key
<1>1. /\ sc' = [sc EXCEPT !.todo = @ \ {s}]
      /\ processed' = IF k # NoKey /\ ~ Zeroed(S[s].embedding)
                        THEN [processed EXCEPT ![k] = S[s].epoch]
                        ELSE processed
      /\ k # NoKey => ~ Odd(S[s].epoch)
      /\ UNCHANGED << vars, vectors >> /\ sc.pc = "baseline" /\ ~ InCall(Sidecar)
  BY NoCall DEF Baseline
<1>2. /\ s \in SlotIds /\ S[s].epoch \in Nat /\ ~ Listening
      /\ sc' \in LocalType /\ sc'.pc = "baseline" /\ ~ Listening'
  BY <1>1, NextOf, InvParts DEF Baseline, Listening, LocalType, SlotType
<1>3. IInv'
  BY <1>1, SameInvariant DEF SidecarInv
<1>4. processed' \in [Keys -> Nat]
  BY <1>1, <1>2, InvParts
<1>5. SidecarTyped' /\ Numbered'
  BY <1>1, <1>2, <1>4 DEF SidecarInv, SidecarTyped, Numbered, vars
<1>6. Making' /\ Found'
  BY <1>1, <1>2, LookSame, InvParts DEF SidecarInv, Making, Found, Clients, Keyed, Reading
<1>7. ReadTrue' /\ Storing'
  BY <1>2 DEF ReadTrue, Storing, Reading
<1>8. Filled'
  BY <1>1, <1>2, LookSame DEF SidecarInv, Filled, vars
<1>9. Entered'
  <2>1. ASSUME NEW j \in Keys, processed'[j] # 0
        PROVE  /\ Seats(j) # {} /\ ~ Odd(processed'[j])
               /\ \A r \in Seats(j) : /\ processed'[j] <= S[r].epoch
                                      /\ processed'[j] = S[r].epoch => Carries(r)
    <3>1. CASE j = k /\ ~ Zeroed(S[s].embedding)
      <4>1. Seats(j) = {s} /\ processed'[j] = S[s].epoch /\ ~ Odd(S[s].epoch)
        BY <1>1, <1>2, <2>1, <3>1, StartTable, KeysAssumption, InvParts
      <4>2. ~ Holds(Sidecar, s)
        BY <1>1, <1>2 DEF Holds, InCall, Critical, Outside
      <4>3. Carries(s)
        BY <1>2, <3>1, <4>2 DEF SidecarInv, Filled, Zeroed
      <4>4. QED
        BY <1>2, <4>1, <4>3
    <3>2. CASE ~ (j = k /\ ~ Zeroed(S[s].embedding))
      <4>1. processed'[j] = processed[j]
        BY <1>1, <3>2, InvParts
      <4>2. QED
        BY <2>1, <4>1 DEF SidecarInv, Entered
    <3>3. QED
      BY <3>1, <3>2
  <2>2. S' = S
    BY <1>1 DEF vars
  <2>3. QED
    BY <1>1, <1>2, <2>1, <2>2, LookSame DEF Entered
<1>10. QED
  BY <1>1, <1>3, <1>5, <1>6, <1>7, <1>8, <1>9, LookSame DEF SidecarInv

LEMMA LoopStep ==
  ASSUME SidecarInv, Notice \/ List \/ PassOver \/ Take \/ EndScan
  PROVE  SidecarInv'
<1>1. /\ UNCHANGED << vars, processed, vectors >> /\ ~ InCall(Sidecar)
      /\ sc.pc \in {"wait", "list", "scan"}
  BY NoCall DEF Notice, List, PassOver, Take, EndScan, Look
<1>2. Listed \subseteq SlotIds
  BY DEF Listed
<1>3. CASE Notice \/ List \/ PassOver \/ EndScan
  <2>1. sc' \in LocalType /\ sc'.pc \in {"wait", "list", "scan"} /\ sc'.of = sc.of
    BY <1>2, <1>3, InvParts DEF LocalType, Notice, List, PassOver, EndScan
  <2>2. Listening => Listening'
    BY <2>1 DEF Listening
  <2>3. QED
    BY <1>1, <2>1, <2>2, Looking DEF Reading, Keyed
<1>4. CASE Take
  <2> DEFINE s == Next1(sc.todo)  k == S[s].key
  <2>1. s \in SlotIds /\ k \in Keys /\ processed[k] < Epoch(k)
    BY <1>4, NextOf DEF Take
  <2>2. processed[k] \in Nat /\ Epoch(k) # 0
    BY <2>1, InvParts, EpochIs
  <2>3. Seats(k) # {}
    BY <2>1, <2>2, EpochIs
  <2>4. sc' = [sc EXCEPT !.pc = "epoch", !.at = s, !.key = k]
    BY <1>4 DEF Take
  <2>5. sc' \in LocalType /\ sc'.pc = "epoch" /\ sc'.of = sc.of /\ sc'.key = k
    BY <2>1, <2>4, InvParts DEF LocalType, Keyed
  <2>6. Listening => Listening'
    BY <2>5 DEF Listening
  <2>7. QED
    BY <1>1, <2>1, <2>3, <2>5, <2>6, Looking DEF Reading
<1>5. QED
  BY <1>3, <1>4

(* From the epoch to the whole text *)

LEMMA ReadEpochStep ==
  ASSUME SidecarInv, ReadEpoch
  PROVE  SidecarInv'
<1>1. /\ UNCHANGED << vars, processed, vectors >> /\ ~ InCall(Sidecar) /\ sc.pc = "epoch"
  BY NoCall DEF ReadEpoch, Look
<1>2. sc.key \in Keys /\ Seats(sc.key) # {}
  BY <1>1 DEF SidecarInv, Found, Keyed
<1>3. CASE Odd(Epoch(sc.key))
  BY <1>1, <1>3, DropStep DEF ReadEpoch
<1>4. CASE ~ Odd(Epoch(sc.key))
  <2>1. sc' = [sc EXCEPT !.pc = "ptr", !.e = Epoch(sc.key)]
    BY <1>4 DEF ReadEpoch
  <2>2. sc' \in LocalType /\ sc'.pc = "ptr" /\ sc'.of = sc.of /\ sc'.key = sc.key /\ ~ Odd(sc'.e)
    BY <1>2, <1>4, <2>1, InvParts, EpochIs DEF LocalType, Keyed
  <2>3. Listening => Listening'
    BY <2>2 DEF Listening
  <2>4. QED
    BY <1>1, <1>2, <2>2, <2>3, Looking DEF Reading
<1>5. QED
  BY <1>3, <1>4

LEMMA RawPtrStep ==
  ASSUME SidecarInv, RawPtr
  PROVE  SidecarInv'
<1> DEFINE s == Reached(sc.key)
<1>1. /\ UNCHANGED << vars, processed, vectors >> /\ ~ InCall(Sidecar) /\ sc.pc = "ptr"
  BY NoCall DEF RawPtr, Look
<1>2. sc.key \in Keys /\ ~ Odd(sc.e)
  BY <1>1 DEF SidecarInv, Found, Keyed, ReadTrue
<1>4. CASE s = Slots \/ S[s].val_len = 0 \/ S[s].epoch # sc.e
  BY <1>1, <1>4, DropStep DEF RawPtr
<1>5. CASE s # Slots /\ S[s].val_len # 0 /\ S[s].epoch = sc.e
  <2>0. s \in Seats(sc.key) /\ s \in SlotIds /\ S[s] \in SlotType /\ s \in Nat
    BY <1>2, <1>5, ReachedIn, InvParts, SlotsAssumption DEF SlotIds, Seats
  <2>1. sc' = [sc EXCEPT !.pc = "text", !.slot = s, !.n = S[s].val_len, !.text = << >>]
    BY <1>2, <1>5 DEF RawPtr
  <2>2. S[s].val_len \in Length /\ << >> \in Seq(Cell)
    BY <2>0 DEF SlotType
  <2>3. /\ sc' \in LocalType /\ sc'.pc = "text" /\ sc'.of = sc.of /\ sc'.key = sc.key
        /\ sc'.slot = s /\ sc'.n = S[s].val_len /\ sc'.text = << >> /\ sc'.e = sc.e
    BY <2>0, <2>1, <2>2, InvParts DEF LocalType, Keyed, Reading
  <2>4. Listening' = Listening
    BY <1>1, <2>3 DEF Listening
  <2>5. sc'.n > 0 /\ Len(sc'.text) = 0 /\ Len(sc'.text) <= sc'.n
    BY <1>5, <2>2, <2>3, SlotsAssumption DEF Length
  <2>6. sc'.e <= S[s].epoch
    BY <2>0, <1>5, <2>3 DEF SlotType
  <2>7. \A c \in 1 .. Len(sc'.text) : sc'.text[c] = S[s].val[c]
    BY <2>5
  <2>8. QED
    BY <1>1, <1>2, <2>0, <2>3, <2>4, <2>5, <2>6, <2>7, Considering DEF Reading
<1>6. QED
  BY <1>4, <1>5

LEMMA TextIs ==
  ASSUME SidecarInv, sc.pc \in Reading
  PROVE  /\ sc.key \in Keys /\ sc.slot \in Seats(sc.key) /\ Seats(sc.key) = {sc.slot}
         /\ sc.slot \in SlotIds /\ S[sc.slot] \in SlotType /\ S[sc.slot].epoch \in Nat
         /\ ~ Odd(sc.e) /\ sc.e \in Nat /\ sc.n \in Length /\ sc.n > 0
         /\ sc.text \in Seq(Cell) /\ Len(sc.text) <= sc.n
         /\ sc.pc # "text" => Len(sc.text) = sc.n
         /\ sc.pc # "post" => Moved = 0 /\ sc.e <= S[sc.slot].epoch
         /\ Untouched => /\ S[sc.slot].val_len = sc.n
                         /\ \A c \in 1 .. Len(sc.text) : sc.text[c] = S[sc.slot].val[c]
<1>1. sc.key \in Keys /\ sc.slot \in Seats(sc.key)
  BY DEF SidecarInv, Found, Keyed
<1>2. sc.slot \in SlotIds /\ Seats(sc.key) = {sc.slot}
  BY <1>1, SeatIs
<1>3. sc.e \in Nat /\ sc.n \in Length /\ sc.text \in Seq(Cell)
  BY InvParts DEF LocalType
<1>4. S[sc.slot] \in SlotType /\ S[sc.slot].epoch \in Nat
  BY <1>2, InvParts DEF SlotType
<1>5. sc.pc # "post" => Moved = 0 /\ sc.e <= S[sc.slot].epoch
  BY <1>3 DEF SidecarInv, ReadTrue, Moved
<1>6. QED
  BY <1>1, <1>2, <1>3, <1>4, <1>5 DEF SidecarInv, ReadTrue

LEMMA TokenizeStep ==
  ASSUME SidecarInv, Tokenize
  PROVE  SidecarInv'
<1> DEFINE x == S[sc.slot].val[Len(sc.text) + 1]
<1>1. /\ UNCHANGED << vars, processed, vectors >> /\ ~ InCall(Sidecar) /\ sc.pc = "text"
      /\ Len(sc.text) < sc.n /\ sc' = [sc EXCEPT !.text = Append(@, x)]
  BY NoCall DEF Tokenize, Look
<1>2. sc.pc \in Reading
  BY <1>1 DEF Reading
<1>3. Len(sc.text) + 1 \in 1 .. MaxLen /\ Len(sc.text) \in Nat
  BY <1>1, <1>2, TextIs, SlotsAssumption, LenProperties DEF Length
<1>4. x \in Cell
  BY <1>2, <1>3, TextIs DEF SlotType
<1> DEFINE u == Append(sc.text, x)
<1>5. /\ u \in Seq(Cell) /\ Len(u) = Len(sc.text) + 1 /\ u[Len(sc.text) + 1] = x
      /\ \A c \in 1 .. Len(sc.text) : u[c] = sc.text[c]
  BY <1>2, <1>4, TextIs, AppendProperties
<1> HIDE DEF u
<1>6. /\ sc' \in LocalType /\ sc'.pc = "text" /\ sc'.of = sc.of /\ sc'.key = sc.key
      /\ sc'.slot = sc.slot /\ sc'.n = sc.n /\ sc'.text = u /\ sc'.e = sc.e
  BY <1>1, <1>5, InvParts DEF LocalType, u
<1>7. Listening' = Listening
  BY <1>1, <1>6 DEF Listening
<1>8. Len(u) <= sc.n
  BY <1>1, <1>2, <1>3, <1>5, TextIs DEF Length
<1>9. ASSUME S[sc.slot].epoch = sc.e \/ ~ Listening
      PROVE  /\ S[sc.slot].val_len = sc.n
             /\ \A c \in 1 .. Len(u) : u[c] = S[sc.slot].val[c]
  <2>1. Untouched
    BY <1>1, <1>2, <1>9, TextIs DEF Untouched
  <2>2. \A c \in 1 .. Len(sc.text) + 1 : c \in 1 .. Len(sc.text) \/ c = Len(sc.text) + 1
    BY <1>3
  <2>3. QED
    BY <1>2, <1>5, <2>1, <2>2, TextIs
<1>10. QED
  BY <1>1, <1>2, <1>6, <1>7, <1>8, <1>9, TextIs, Considering DEF Reading

(* No text is too long. *)
LEMMA DecodeStep ==
  ASSUME Undisturbed, SidecarInv, Decode
  PROVE  SidecarInv'
<1>1. /\ UNCHANGED << vars, processed, vectors >> /\ ~ InCall(Sidecar) /\ sc.pc = "text"
      /\ Len(sc.text) = sc.n
  BY NoCall DEF Decode, Look
<1>2. sc.pc \in Reading
  BY <1>1 DEF Reading
<1>3. CASE Epoch(sc.key) # sc.e
  BY <1>1, <1>3, DropStep DEF Decode
<1>4. CASE Epoch(sc.key) = sc.e
  <2>1. sc.mode \in Modes /\ sc.n <= MaxLen /\ sc.n \in Nat
    BY <1>2, TextIs, InvParts, SlotsAssumption DEF LocalType, Length
  <2>2. ~ (sc.n >= sc.mode.ceiling)
    BY <2>1, SidecarAssumption, SlotsAssumption DEF Undisturbed
  <2> DEFINE l == IF sc.mode.training THEN "gate" ELSE "commit"
  <2>3. sc' = [sc EXCEPT !.pc = l]
    BY <1>4, <2>2, InvParts DEF Decode, LocalType
  <2>4. l \in Reading \ {"post", "text"}
    BY DEF Reading
  <2> HIDE DEF l
  <2>5. /\ sc' \in LocalType /\ sc'.pc = l /\ sc'.of = sc.of /\ sc'.key = sc.key
        /\ sc'.slot = sc.slot /\ sc'.n = sc.n /\ sc'.text = sc.text /\ sc'.e = sc.e
    BY <2>3, <2>4, InvParts DEF LocalType, Keyed
  <2>6. Listening' = Listening
    BY <1>1, <2>4, <2>5 DEF Listening, Reading
  <2>7. S[sc.slot].epoch = sc.e \/ ~ Listening => Untouched
    BY <1>1, <1>2, TextIs DEF Untouched
  <2>8. QED
    BY <1>1, <1>2, <2>4, <2>5, <2>6, <2>7, TextIs, Considering
<1>5. QED
  BY <1>3, <1>4

LEMMA GatedStep ==
  ASSUME SidecarInv, Gated
  PROVE  SidecarInv'
<1>1. /\ UNCHANGED << vars, processed, vectors >> /\ ~ InCall(Sidecar) /\ sc.pc = "gated"
      /\ Drop \/ Go("commit")
  BY DEF Gated, Look, InCall, Outside
<1>2. sc.pc \in Reading
  BY <1>1 DEF Reading
<1>3. CASE Drop
  BY <1>1, <1>3, DropStep
<1>4. CASE Go("commit")
  <2>1. /\ sc' \in LocalType /\ sc'.pc = "commit" /\ sc'.of = sc.of /\ sc'.key = sc.key
        /\ sc'.slot = sc.slot /\ sc'.n = sc.n /\ sc'.text = sc.text /\ sc'.e = sc.e
    BY <1>4, InvParts DEF LocalType, Keyed, Reading, Go
  <2>2. Listening' = Listening
    BY <1>1, <2>1 DEF Listening
  <2>3. S[sc.slot].epoch = sc.e \/ ~ Listening => Untouched
    BY <1>1, <1>2, TextIs DEF Untouched
  <2>4. QED
    BY <1>1, <1>2, <2>1, <2>2, <2>3, TextIs, Considering DEF Reading
<1>5. QED
  BY <1>1, <1>3, <1>4

(* After the vector *)

LEMMA LeaveStep ==
  ASSUME SidecarInv, Failed \/ NextKey
  PROVE  SidecarInv'
<1>1. /\ UNCHANGED << vars, processed, vectors >> /\ ~ InCall(Sidecar) /\ Drop
      /\ sc.pc \in {"post", "next"}
  BY DEF Failed, NextKey, Look, InCall, Outside
<1>2. QED
  BY <1>1, DropStep

LEMMA PostIs ==
  ASSUME SidecarInv, sc.pc = "post", pc[Sidecar] = "idle", ret[Sidecar].rc = "ok",
         S[sc.slot].epoch = sc.e + 2
  PROVE  Carries(sc.slot)
<1>1. sc.pc \in Reading /\ Moved = 2 /\ Untouched
  BY DEF Reading, Moved, Untouched, Critical, Published
<1>2. /\ S[sc.slot].embedding[1] = vectors[Len(vectors)].ver
      /\ S[sc.slot].embedding[2] = vectors[Len(vectors)].ver
      /\ vectors # << >> /\ vectors[Len(vectors)].text = sc.text
  BY <1>1 DEF SidecarInv, Storing
<1>3. Copies(sc.text, S[sc.slot].val, S[sc.slot].val_len)
  BY <1>1, TextIs DEF Copies
<1>4. Len(vectors) \in DOMAIN vectors
  BY <1>2, InvParts, LenProperties, EmptySeq
<1>5. QED
  BY <1>2, <1>3, <1>4 DEF Carries

LEMMA ProcessedStep ==
  ASSUME SidecarInv, Processed
  PROVE  SidecarInv'
<1>1. /\ UNCHANGED << vars, vectors >> /\ sc.pc = "post" /\ pc[Sidecar] = "idle"
      /\ ret[Sidecar].rc = "ok" /\ Epoch(sc.key) = sc.e + 2 /\ ~ InCall(Sidecar)
  BY DEF Processed, InCall, Outside
<1>2. sc.pc \in Reading
  BY <1>1 DEF Reading
<1>3. S[sc.slot].epoch = sc.e + 2 /\ Epoch(sc.key) = sc.e + 2 /\ sc.e \in Nat /\ ~ Odd(sc.e + 2)
  <2>1. sc.e \in Nat /\ ~ Odd(sc.e) /\ sc.key \in Keys /\ sc.slot \in Seats(sc.key)
    BY <1>2, TextIs
  <2>2. Epoch(sc.key) = S[sc.slot].epoch
    BY <1>1, <2>1, EpochIs
  <2>3. QED
    BY <1>1, <2>1, <2>2, OddEven
<1>4. CASE Drop /\ UNCHANGED processed
  BY <1>1, <1>4, DropStep
<1>5. CASE processed' = [processed EXCEPT ![sc.key] = sc.e + 2] /\ Go("unlabel")
  <2>1. /\ sc' \in LocalType /\ sc'.pc = "unlabel" /\ sc'.of = sc.of /\ sc'.key = sc.key
        /\ sc'.e = sc.e
    BY <1>5, InvParts DEF LocalType, Keyed, Go
  <2>2. /\ processed' \in [Keys -> Nat] /\ processed'[sc.key] = sc.e + 2
        /\ \A k \in Keys \ {sc.key} : processed'[k] = processed[k]
    BY <1>2, <1>3, <1>5, TextIs, InvParts
  <2>3. Listening' = Listening
    BY <1>1, <2>1 DEF Listening
  <2>4. IInv'
    BY <1>1, SameInvariant DEF SidecarInv
  <2>5. SidecarTyped' /\ Numbered'
    BY <1>1, <2>1, <2>2 DEF SidecarInv, SidecarTyped, Numbered, vars
  <2>6. Making'
    BY <1>1, <2>1, <2>3, LookSame, InvParts DEF SidecarInv, Making, Clients
  <2>7. Found'
    BY <1>1, <1>2, <2>1, LookSame, InvParts, TextIs DEF Found, Keyed, Reading
  <2>8. ReadTrue' /\ Storing'
    BY <2>1 DEF ReadTrue, Storing, Reading
  <2>9. Filled'
    BY <1>1, <2>3, LookSame DEF SidecarInv, Filled, vars
  <2>10. Entered'
    <3>1. ASSUME NEW k \in Keys, processed'[k] # 0
          PROVE  /\ Seats(k) # {} /\ ~ Odd(processed'[k])
                 /\ \A s \in Seats(k) : /\ processed'[k] <= S[s].epoch
                                        /\ processed'[k] = S[s].epoch => Carries(s)
      <4>1. CASE k = sc.key
        BY <1>1, <1>2, <1>3, <2>2, <4>1, TextIs, PostIs
      <4>2. CASE k # sc.key
        BY <2>2, <3>1, <4>2 DEF SidecarInv, Entered
      <4>3. QED
        BY <4>1, <4>2
    <3>2. sc'.e < processed'[sc'.key]
      BY <1>3, <2>1, <2>2
    <3>3. S' = S
      BY <1>1 DEF vars
    <3>4. QED
      BY <1>1, <3>1, <3>2, <3>3, LookSame DEF Entered
  <2>11. QED
    BY <1>1, <2>4, <2>5, <2>6, <2>7, <2>8, <2>9, <2>10, LookSame DEF SidecarInv
<1>6. QED
  BY <1>1, <1>3, <1>4, <1>5 DEF Processed, Record

-----------------------------------------------------------------------------
(* The daemon begins a call *)

LEMMA BeginIs ==
  ASSUME SidecarInv, NEW o \in OpNames \ Rewinds, NEW k \in Keys,
         Begin(Sidecar, [op |-> o, key |-> k], 0)
  PROVE  /\ IInv' /\ UNCHANGED << S, H >> /\ ~ InCall(Sidecar) /\ InCall(Sidecar)'
         /\ pc'[Sidecar] = "probe" /\ ret'[Sidecar].rc = "none"
         /\ Op(Sidecar)' = o /\ call'[Sidecar].key = k /\ call'[Sidecar].i = 0
         /\ left'[Sidecar] \in Nat /\ left[Sidecar] = left'[Sidecar] + 1
         /\ \A p \in Clients : InCall(p)' = InCall(p) /\ Op(p)' = Op(p)
         /\ \A s \in SlotIds : ~ Holds(Sidecar, s) /\ ~ Holds(Sidecar, s)'
<1> DEFINE c == [op |-> o, key |-> k]
<1>1. c \in [op : OpNames, key : Keys] /\ 0 \in Length /\ c.op = o /\ c.key = k
  BY SlotsAssumption DEF Length
<1>2. IInv'
  BY <1>1, InvParts, BeginInvariant DEF SidecarInv
<1>3. /\ Typed /\ Sidecar \in Procs /\ pc[Sidecar] = "idle" /\ left[Sidecar] > 0
      /\ left' = [left EXCEPT ![Sidecar] = @ - 1] /\ UNCHANGED << S, H >>
      /\ ret' = [ret EXCEPT ![Sidecar] = Nothing] /\ pc' = [pc EXCEPT ![Sidecar] = "probe"]
      /\ call' = [call EXCEPT ![Sidecar] =
                    [Idle EXCEPT !.op = o, !.key = k,
                                 !.n = IF o \in {"set", "append"} THEN 0 ELSE 0]]
  BY InvParts DEF Begin, Goto
<1>4. left \in [Procs -> Nat] /\ pc \in [Procs -> PCs] /\ DOMAIN call = Procs /\ DOMAIN ret = Procs
  BY <1>3 DEF Typed, TypeOK
<1>5. call'[Sidecar].op = o /\ call'[Sidecar].key = k /\ call'[Sidecar].i = 0
  BY <1>3, <1>4 DEF Idle
<1>6. \A p \in Clients : pc'[p] = pc[p] /\ call'[p] = call[p]
  BY <1>3, <1>4 DEF Clients
<1>7. pc'[Sidecar] = "probe" /\ ret'[Sidecar].rc = "none"
  BY <1>3, <1>4 DEF Nothing
<1>8. left'[Sidecar] \in Nat /\ left[Sidecar] = left'[Sidecar] + 1
  BY <1>3, <1>4
<1>9. QED
  BY <1>2, <1>3, <1>5, <1>6, <1>7, <1>8 DEF InCall, Op, Outside, Holds, Critical

LEMMA TableSame ==
  ASSUME UNCHANGED S
  PROVE  /\ \A k : Seats(k)' = Seats(k)
         /\ (OneSeat => OneSeat') /\ (Named => Named')
BY DEF Seats, OneSeat, Named

LEMMA CarriesSame ==
  ASSUME UNCHANGED << S, vectors >>
  PROVE  \A s : Carries(s)' = Carries(s)
BY DEF Carries

LEMMA VersionsOf ==
  ASSUME SidecarInv, NEW i \in DOMAIN vectors
  PROVE  /\ vectors[i] \in [ver : Version, text : Seq(Cell)]
         /\ vectors[i].ver[3] \in Nat
<1>1. i \in 1 .. Len(vectors)
  BY InvParts, LenProperties
<1>2. vectors[i] \in [ver : Version, text : Seq(Cell)]
  BY <1>1, InvParts, ElementOfSeq
<1>3. vectors[i].ver \in Version
  BY <1>2
<1>4. QED
  BY <1>2, <1>3 DEF Version

(* What a vector was stands when another is added. *)
LEMMA CarriesMore ==
  ASSUME SidecarInv, UNCHANGED S, NEW v \in [ver : Version, text : Seq(Cell)],
         vectors' = vectors \/ vectors' = Append(vectors, v),
         NEW s \in SlotIds, Carries(s)
  PROVE  Carries(s)'
<1>1. PICK i \in DOMAIN vectors :
        /\ \A h \in 1 .. 2 : S[s].embedding[h] = vectors[i].ver
        /\ Copies(vectors[i].text, S[s].val, S[s].val_len)
  BY DEF Carries
<1>2. i \in DOMAIN vectors' /\ vectors'[i] = vectors[i]
  <2>1. i \in 1 .. Len(vectors) /\ Len(vectors) \in Nat
    BY <1>1, InvParts, LenProperties
  <2>2. CASE vectors' = Append(vectors, v)
    BY <2>1, <2>2, InvParts, AppendProperties
  <2>3. QED
    BY <1>1, <2>2
<1>3. QED
  BY <1>1, <1>2 DEF Carries

(* A call other than the one that stores the vector. *)
LEMMA CallStep ==
  ASSUME SidecarInv, NEW o, NEW k \in Keys, NEW l,
         << l, o >> \in {<< "gated", "getemb" >>, << "lane", "unlabel" >>, << "next", "pulsekey" >>},
         << sc.pc, l >> \in {<< "gate", "gated" >>, << "unlabel", "lane" >>, << "lane", "next" >>},
         l # "next" => k = sc.key,
         Begin(Sidecar, [op |-> o, key |-> k], 0), Go(l), UNCHANGED << processed, vectors >>
  PROVE  SidecarInv'
<1>1. o \in OpNames \ Rewinds
  BY DEF OpNames, Rewinds, LockOps, ReadOps, LabelOps
<1>2. /\ sc' \in LocalType /\ sc'.pc = l /\ sc'.of = sc.of /\ sc'.key = sc.key
      /\ sc'.slot = sc.slot /\ sc'.n = sc.n /\ sc'.text = sc.text /\ sc'.e = sc.e
  BY InvParts DEF LocalType, Keyed, Reading, Go
<1>3. Listening' = Listening
  BY <1>2 DEF Listening
<1>4. IInv'
  BY <1>1, BeginIs
<1>5. SidecarTyped'
  BY <1>2 DEF SidecarInv, SidecarTyped
<1>6. Numbered'
  <2>1. left'[Sidecar] <= left[Sidecar] /\ left'[Sidecar] \in Nat /\ left[Sidecar] \in Nat
    BY <1>1, BeginIs, InvParts
  <2>2. \A i \in DOMAIN vectors : vectors[i].ver[3] \in Nat
    BY VersionsOf
  <2>3. QED
    BY <2>1, <2>2 DEF SidecarInv, Numbered
<1>7. Making'
  BY <1>1, <1>2, <1>3, BeginIs DEF SidecarInv, Making
<1>8. UNCHANGED S
  BY <1>1, BeginIs
<1>9. sc.pc \in Keyed /\ sc.key \in Keys /\ Seats(sc.key) # {}
  BY DEF SidecarInv, Found, Keyed, Reading
<1>10. Found'
  <2>2. sc'.pc \in Reading => sc'.slot \in Seats(sc'.key)
    BY <1>2 DEF SidecarInv, Found, Reading
  <2>3. pc'[Sidecar] = "probe"
    BY <1>1, BeginIs
  <2>4. QED
    BY <1>2, <1>8, <1>9, <2>2, <2>3, TableSame DEF Found
<1>11. ReadTrue'
  <2>1. CASE l = "gated"
    <3>1. sc.pc \in Reading /\ Moved' = 0 /\ sc.pc = "gate" /\ sc'.pc = "gated"
      BY <1>2, <2>1 DEF Reading, Moved
    <3>2. Untouched' => Untouched
      BY <1>2, <1>3, <1>8, <3>1, TextIs DEF Untouched
    <3>3. sc'.e + Moved' = sc.e
      BY <1>2, <3>1, TextIs
    <3>4. QED
      BY <1>2, <1>8, <3>1, <3>2, <3>3, TextIs DEF ReadTrue
  <2>2. CASE l # "gated"
    BY <1>2, <2>2 DEF ReadTrue, Reading
  <2>3. QED
    BY <2>1, <2>2
<1>12. Storing'
  BY <1>2 DEF Storing
<1>13. Filled'
  <2>1. \A s \in SlotIds : ~ Holds(Sidecar, s)
    BY <1>1, BeginIs
  <2>2. QED
    BY <1>3, <1>8, <2>1, CarriesSame DEF SidecarInv, Filled
<1>14. Entered'
  <2>1. sc'.pc \in {"unlabel", "lane"} => sc'.e < processed'[sc'.key]
    BY <1>2 DEF SidecarInv, Entered
  <2>2. QED
    BY <1>8, <2>1, TableSame, CarriesSame DEF SidecarInv, Entered
<1>15. QED
  BY <1>4, <1>5, <1>6, <1>7, <1>8, <1>10, <1>11, <1>12, <1>13, <1>14, TableSame DEF SidecarInv

(* The entries stand while the epochs grow, where no content changes       *)
(* under an even one.                                                      *)
LEMMA EnteredNext ==
  ASSUME SidecarInv, UNCHANGED processed,
         sc'.pc \in {"unlabel", "lane"} => sc'.e < processed'[sc'.key],
         \A k \in Keys : Seats(k) # {} => Seats(k)' = Seats(k),
         \A s \in SlotIds :
           /\ S[s].epoch \in Nat /\ S'[s].epoch \in Nat /\ S[s].epoch <= S'[s].epoch
           /\ S'[s].epoch = S[s].epoch /\ ~ Odd(S[s].epoch) => (Carries(s) => Carries(s)')
  PROVE  Entered'
<1>1. ASSUME NEW j \in Keys, processed[j] # 0
      PROVE  Seats(j) # {} /\ Seats(j)' = Seats(j) /\ ~ Odd(processed[j])
  BY <1>1 DEF SidecarInv, Entered
<1>2. ASSUME NEW j \in Keys, processed[j] # 0, NEW r \in Seats(j)
      PROVE  /\ processed[j] <= S'[r].epoch
             /\ processed[j] = S'[r].epoch => Carries(r)'
  <2>1. /\ processed[j] <= S[r].epoch /\ r \in SlotIds
        /\ processed[j] = S[r].epoch => Carries(r)
    BY <1>2 DEF SidecarInv, Entered, Seats
  <2>2. processed[j] \in Nat
    BY InvParts
  <2>3. processed[j] <= S'[r].epoch /\ (processed[j] = S'[r].epoch => S'[r].epoch = S[r].epoch /\ processed[j] = S[r].epoch)
    BY <2>1, <2>2
  <2>4. QED
    BY <1>1, <1>2, <2>1, <2>3
<1>3. QED
  BY <1>1, <1>2 DEF Entered

LEMMA OtherCallStep ==
  ASSUME SidecarInv, Gate \/ Unlabel \/ PulseLane
  PROVE  SidecarInv'
<1>1. sc.pc \in {"gate", "unlabel"} => sc.key \in Keys
  BY DEF SidecarInv, Found, Keyed, Reading
<1>2. CASE Gate
  BY <1>1, <1>2, CallStep DEF Gate
<1>3. CASE Unlabel
  BY <1>1, <1>3, CallStep DEF Unlabel
<1>4. CASE PulseLane
  BY <1>4, SidecarAssumption, CallStep DEF PulseLane
<1>5. QED
  BY <1>2, <1>3, <1>4

(* The vector of the text in hand is given its version as it is stored.    *)
LEMMA CommitStep ==
  ASSUME SidecarInv, Commit
  PROVE  SidecarInv'
<1> DEFINE v == [ver |-> << sc.key, Sidecar, left[Sidecar] - 1 >>, text |-> sc.text]
<1>1. /\ sc.pc = "commit" /\ sc.pc \in Reading /\ UNCHANGED processed
      /\ Begin(Sidecar, [op |-> "setemb", key |-> sc.key], 0)
      /\ vectors' = Append(vectors, v)
      /\ Go(IF sc.text = << >> THEN "marker" ELSE "post")
  BY DEF Commit, Reading
<1>2. /\ sc.key \in Keys /\ sc.slot \in Seats(sc.key)
      /\ sc.slot \in SlotIds /\ S[sc.slot].epoch \in Nat /\ sc.e \in Nat /\ ~ Odd(sc.e)
      /\ sc.n \in Length /\ sc.n > 0 /\ Len(sc.text) = sc.n /\ sc.text \in Seq(Cell)
      /\ Moved = 0 /\ sc.e <= S[sc.slot].epoch
  BY <1>1, TextIs
<1>3. sc.text # << >>
  BY <1>2, EmptySeq
<1>4. "setemb" \in OpNames \ Rewinds
  BY DEF OpNames, Rewinds, LockOps
<1>5. /\ IInv' /\ UNCHANGED << S, H >> /\ InCall(Sidecar)'
      /\ pc'[Sidecar] = "probe" /\ ret'[Sidecar].rc = "none"
      /\ Op(Sidecar)' = "setemb" /\ call'[Sidecar].key = sc.key /\ call'[Sidecar].i = 0
      /\ left'[Sidecar] \in Nat /\ left[Sidecar] = left'[Sidecar] + 1
      /\ \A p \in Clients : InCall(p)' = InCall(p) /\ Op(p)' = Op(p)
      /\ \A s \in SlotIds : ~ Holds(Sidecar, s) /\ ~ Holds(Sidecar, s)'
  BY <1>1, <1>2, <1>4, BeginIs
<1>6. /\ sc' \in LocalType /\ sc'.pc = "post" /\ sc'.of = sc.of /\ sc'.key = sc.key
      /\ sc'.slot = sc.slot /\ sc'.n = sc.n /\ sc'.text = sc.text /\ sc'.e = sc.e
  BY <1>1, <1>3, InvParts DEF LocalType, Keyed, Reading, Go
<1>7. Listening' = Listening
  BY <1>1, <1>6 DEF Listening
<1>8. v.ver[3] = left'[Sidecar] /\ v.ver = << sc.key, Sidecar, left'[Sidecar] >>
  BY <1>5
<1>9. v \in [ver : Version, text : Seq(Cell)]
  BY <1>2, <1>5, <1>8, SidecarAssumption DEF Version
<1>10. /\ vectors' \in Seq([ver : Version, text : Seq(Cell)]) /\ Len(vectors) \in Nat
       /\ Len(vectors') = Len(vectors) + 1 /\ vectors'[Len(vectors) + 1] = v
       /\ \A i \in 1 .. Len(vectors) : vectors'[i] = vectors[i]
       /\ DOMAIN vectors = 1 .. Len(vectors) /\ DOMAIN vectors' = 1 .. Len(vectors) + 1
  <2> HIDE DEF v
  <2>1. QED
    BY <1>1, <1>9, InvParts, AppendProperties, LenProperties
<1> HIDE DEF v
<1>11. SidecarTyped'
  BY <1>1, <1>6, <1>10 DEF SidecarInv, SidecarTyped
<1>12. Numbered'
  <2>1. \A i \in DOMAIN vectors : vectors[i].ver[3] \in Nat /\ left[Sidecar] <= vectors[i].ver[3]
    BY VersionsOf DEF SidecarInv, Numbered
  <2>2. \A i \in DOMAIN vectors : left'[Sidecar] < vectors[i].ver[3]
    BY <1>5, <2>1
  <2>3. \A i \in DOMAIN vectors : v.ver # vectors[i].ver
    BY <1>5, <1>8, <2>1, <2>2
  <2>4. \A i \in DOMAIN vectors' : i \in DOMAIN vectors \/ i = Len(vectors) + 1
    BY <1>10
  <2>5. \A i \in DOMAIN vectors' : left'[Sidecar] <= vectors'[i].ver[3]
    <3>1. ASSUME NEW i \in DOMAIN vectors
          PROVE  left'[Sidecar] <= vectors'[i].ver[3]
      <4>1. vectors'[i] = vectors[i]
        BY <1>10
      <4>2. vectors[i].ver[3] \in Nat /\ left'[Sidecar] < vectors[i].ver[3]
        BY <2>1, <2>2
      <4>3. QED
        BY <1>5, <4>1, <4>2
    <3>2. left'[Sidecar] <= vectors'[Len(vectors) + 1].ver[3]
      BY <1>5, <1>8, <1>10
    <3>3. QED
      BY <2>4, <3>1, <3>2
  <2>6. \A i, j \in DOMAIN vectors' : vectors'[i].ver = vectors'[j].ver => i = j
    BY <1>10, <2>3, <2>4 DEF SidecarInv, Numbered
  <2>7. QED
    BY <2>5, <2>6 DEF Numbered
<1>13. Making'
  BY <1>5, <1>6, <1>7 DEF SidecarInv, Making
<1>14. Found'
  BY <1>2, <1>5, <1>6, TableSame DEF Found
<1>15. ReadTrue'
  <2>1. Moved' = 0
    BY <1>5, <1>6 DEF Moved, Critical, Published
  <2>2. Untouched' => Untouched
    BY <1>2, <1>5, <1>6, <1>7, <2>1 DEF Untouched
  <2>3. QED
    BY <1>1, <1>2, <1>5, <1>6, <2>1, <2>2, TextIs DEF ReadTrue
<1>16. Storing'
  <2>1. Moved' = 0 /\ pc'[Sidecar] = "probe"
    BY <1>5, <1>6 DEF Moved, Critical, Published
  <2>2. vectors' # << >> /\ Len(vectors') = Len(vectors) + 1
    BY <1>10, EmptySeq
  <2>3. vectors'[Len(vectors')] = [ver |-> << sc'.key, Sidecar, left'[Sidecar] >>, text |-> sc'.text]
    BY <1>5, <1>6, <1>8, <1>10 DEF v
  <2>4. QED
    BY <2>1, <2>2, <2>3 DEF Storing
<1>17. Filled'
  BY <1>5, <1>7, <1>9, <1>1, CarriesMore DEF SidecarInv, Filled
<1>18. Entered'
  <2>1. \A s \in SlotIds : Carries(s) => Carries(s)'
    BY <1>1, <1>5, <1>9, CarriesMore
  <2>2. \A s \in SlotIds : S[s].epoch \in Nat
    BY InvParts DEF SlotType
  <2>3. QED
    BY <1>1, <1>5, <1>6, <2>1, <2>2, TableSame, EnteredNext
<1>19. QED
  BY <1>5, <1>11, <1>12, <1>13, <1>14, <1>15, <1>16, <1>17, <1>18, TableSame DEF SidecarInv

-----------------------------------------------------------------------------
(* The daemon's own calls *)

LEMMA OwnOp ==
  ASSUME SidecarInv, Step(Sidecar)
  PROVE  /\ InCall(Sidecar) /\ Op(Sidecar) \in {"getemb", "setemb", "unlabel", "pulsekey"}
         /\ << sc.pc, Op(Sidecar) >> \in {<< "gated", "getemb" >>, << "post", "setemb" >>,
                                          << "lane", "unlabel" >>, << "next", "pulsekey" >>}
         /\ Shape(pc[Sidecar], call[Sidecar]) /\ call[Sidecar] \in CallType
         /\ sc.pc = "post" =>
              pc[Sidecar] \in {"probe", "found", "cas", "emb1", "emb2", "close"} \cup Published
<1>1. InCall(Sidecar)
  BY StepStays, InvParts DEF InCall
<1>2. QED
  BY <1>1, InvParts, SlotTyped DEF SidecarInv, Making, InCall, Outside

(* The steps that they are made of. *)
LEMMA OwnStep ==
  ASSUME SidecarInv, Step(Sidecar)
  PROVE  \/ Probe(Sidecar) \/ LoadOdd(Sidecar) \/ LoadEven(Sidecar)
         \/ ReadCopy(Sidecar) \/ ReadVerify(Sidecar) \/ Publish(Sidecar)
         \/ UnsetLabel(Sidecar) \/ PulseKeygroup(Sidecar)
         \/ /\ sc.pc = "post" /\ Op(Sidecar) = "setemb"
            /\ \/ CasWin(Sidecar) \/ CasLose(Sidecar) \/ SetEmbFirst(Sidecar)
               \/ SetEmbSecond(Sidecar) \/ CloseSlot(Sidecar)
<1> USE OwnOp DEF Shape, Op
<1>1. CASE Enter(Sidecar)
  BY <1>1 DEF Enter, CasWin, CasLose, LockOps
<1>2. CASE Write(Sidecar)
  BY <1>2 DEF Write, SetScrub, SetFill, SetBlank, SetLink, AppendRoom, AppendTooLong, AppendExtend,
              SetEmbFirst, SetEmbSecond, PurgeSweep, BumpPulse, CloseSlot, LockOps, Critical,
              Published
<1>3. CASE Read(Sidecar) \/ Poll(Sidecar) \/ Unset(Sidecar) \/ Retrain(Sidecar) \/ Mark(Sidecar)
  BY <1>3 DEF Read, ReadLen, SnapOdd, SnapStart, SnapEnd, Poll, PollClock, PollMoved, PollTimeout,
              Unset, UnsetForget, UnsetWipe, UnsetRewind, UnsetReset, UnsetReopen,
              Retrain, RetrainOdd, RetrainZero, RetrainEven, Mark, SetLabel,
              WatchRegister, WatchUnregister
<1>4. QED
  BY <1>1, <1>2, <1>3 DEF Step

(* Where a step of one of them takes the call. *)
Probing(p) == pc[p] = "probe" /\ call[p].i < Slots

Onward(p) ==
  \/ /\ Probing(p) /\ pc'[p] = "probe" /\ call'[p].i = call[p].i + 1 /\ ~ Match(p, Phys(p))
  \/ /\ Probing(p) /\ pc'[p] = "found" /\ call'[p].slot = Phys(p) /\ Match(p, Phys(p))
  \/ /\ pc[p] # "probe" /\ pc'[p] \notin Outside \cup {"probe"} /\ call'[p].slot = call[p].slot

LEMMA OwnMoves ==
  ASSUME SidecarInv, Step(Sidecar)
  PROVE  /\ OthersStay(Sidecar)
         /\ sc.pc = "post" =>
              pc'[Sidecar] \in {"idle", "probe", "found", "cas", "emb1", "emb2", "close"} \cup Published
         /\ \/ pc'[Sidecar] = "idle"
            \/ Onward(Sidecar) /\ call'[Sidecar].key = call[Sidecar].key
<1> DEFINE P == Sidecar  c == call[Sidecar]
<1>1. /\ Typed /\ P \in Procs /\ c \in CallType /\ Op(P) \in {"getemb", "setemb", "unlabel", "pulsekey"}
      /\ sc.pc = "post" => Op(P) = "setemb"
      /\ Op(P) = "setemb" => sc.pc = "post"
  BY OwnOp, InvParts
<1>2. OthersStay(P)
  BY <1>1, StepStays DEF KeepsCall
<1>3. ASSUME NEW rc, Return(P, rc)
      PROVE  pc'[P] = "idle"
  BY <1>1, <1>3, ReturnStays
<1>4. ASSUME NEW l, Then(P, l)
      PROVE  pc'[P] = l /\ call'[P] = c
  BY <1>1, <1>4, ThenStays
<1>5. ASSUME NEW l, NEW d, With(P, l, d)
      PROVE  pc'[P] = l /\ call'[P] = d
  BY <1>1, <1>5, WithStays
<1> HIDE DEF c
<1>6. CASE Probe(P)
  <2>1. CASE ProbeHit(P)
    <3> DEFINE d == [c EXCEPT !.slot = Phys(P), !.sh = S[Phys(P)].hash]
    <3>1. Probing(P) /\ Candidate(P, Phys(P)) /\ With(P, "found", d)
      BY <2>1 DEF c, ProbeHit, Probing
    <3>2. d.slot = Phys(P) /\ d.key = c.key
      BY <1>1 DEF CallType
    <3> HIDE DEF d
    <3>3. Match(P, Phys(P))
      BY <1>1, <3>1 DEF Candidate
    <3>4. pc'[P] = "found" /\ call'[P] = d
      BY <1>5, <3>1
    <3>5. QED
      BY <1>2, <3>1, <3>2, <3>3, <3>4 DEF c, Onward, Outside
  <2>2. CASE ProbeNext(P)
    BY <1>1, <1>2, <1>5, <2>2, SMTT(30) DEF c, ProbeNext, Candidate, Onward, Probing, CallType, Outside
  <2>3. CASE ProbeEnd(P)
    BY <1>2, <1>3, <2>3 DEF ProbeEnd
  <2>4. QED
    BY <1>6, <2>1, <2>2, <2>3 DEF Probe
<1>7. CASE LoadOdd(P) \/ CasLose(P)
  <2>1. GiveUpSlot(P)
    BY <1>7 DEF LoadOdd, CasLose
  <2>2. Return(P, "busy")
    BY <1>1, <2>1 DEF GiveUpSlot
  <2>3. QED
    BY <1>2, <1>3, <2>2
<1>8. CASE LoadEven(P)
  <2>1. /\ pc[P] = "found" /\ ChecksEpoch(P)
        /\ pc'[P] = AfterLoad(P) /\ call'[P] = [c EXCEPT !.e = Slot(P).epoch]
    BY <1>5, <1>8 DEF LoadEven, c
  <2>2. AfterLoad(P) \in {"copy", "cas"} /\ (Op(P) = "setemb" => AfterLoad(P) = "cas")
    BY <1>1, <2>1 DEF AfterLoad, ChecksEpoch, LockOps
  <2>3. QED
    BY <1>1, <1>2, <2>1, <2>2 DEF c, Onward, Outside, CallType
<1>9. CASE ReadCopy(P)
  <2>1. /\ pc[P] = "copy" /\ pc'[P] = "copy"
        /\ call'[P] = [c EXCEPT !.buf = Append(@, Source(P)[Len(@) + 1])]
    BY <1>5, <1>9 DEF ReadCopy, c
  <2>2. call'[P].key = c.key /\ call'[P].slot = c.slot
    BY <1>1, <2>1 DEF CallType
  <2>3. Op(P) # "setemb"
    BY <2>1, OwnOp DEF Published
  <2>4. QED
    BY <1>1, <1>2, <2>1, <2>2, <2>3 DEF c, Onward, Outside
<1>10. CASE ReadVerify(P)
  BY <1>2, <1>3, <1>10 DEF ReadVerify
<1>11. CASE Publish(P)
  <2>1. CASE Pulse(P)
    <3>1. pc[P] = "pulse" /\ (Return(P, "ok") \/ Then(P, "dirty") \/ Then(P, "epoch"))
      BY <2>1 DEF Pulse
    <3>2. QED
      BY <1>2, <1>3, <1>4, <3>1 DEF c, Onward, Outside, Published
  <2>2. CASE GlobalEpoch(P)
    BY <1>2, <1>4, <2>2 DEF GlobalEpoch, c, Onward, Outside, Published
  <2>3. CASE NotifySkip(P) \/ NotifyBell(P)
    BY <1>2, <1>3, <2>3 DEF NotifySkip, NotifyBell
  <2>4. CASE NotifyDirty(P)
    BY <1>2, <1>4, <2>4 DEF NotifyDirty, c, Onward, Outside, Published
  <2>5. QED
    BY <1>11, <2>1, <2>2, <2>3, <2>4 DEF Publish
<1>12. CASE UnsetLabel(P)
  <2>1. /\ pc[P] = "found" /\ Op(P) = "unlabel" /\ pc'[P] = "pulse"
        /\ call'[P] = [c EXCEPT !.bl = Slot(P).bloom]
    BY <1>5, <1>12 DEF UnsetLabel, c
  <2>2. QED
    BY <1>1, <1>2, <2>1 DEF c, Onward, Outside, CallType
<1>13. CASE PulseKeygroup(P)
  BY <1>1, <1>2, <1>4, <1>13 DEF PulseKeygroup, c, Onward, Outside
<1>14. CASE sc.pc = "post" /\ Op(P) = "setemb" /\ CasWin(P)
  BY <1>2, <1>4, <1>14 DEF CasWin, AfterCas, c, Onward, Outside
<1>15. CASE sc.pc = "post" /\ Op(P) = "setemb" /\ (SetEmbFirst(P) \/ SetEmbSecond(P))
  BY <1>2, <1>4, <1>15 DEF SetEmbFirst, SetEmbSecond, c, Onward, Outside
<1>16. CASE sc.pc = "post" /\ Op(P) = "setemb" /\ CloseSlot(P)
  BY <1>2, <1>4, <1>16 DEF CloseSlot, c, Onward, Outside, Published
<1>17. QED
  BY <1>6, <1>7, <1>8, <1>9, <1>10, <1>11, <1>12, <1>13, <1>14, <1>15, <1>16, OwnStep

(* The call stays the daemon's, and goes to the slot of the key in hand.   *)
LEMMA OwnCall ==
  ASSUME SidecarInv, Step(Sidecar), UNCHANGED sidecarVars, Staying
  PROVE  Making' /\ Found'
<1> DEFINE P == Sidecar  c == call[Sidecar]  k == sc.key
<1>1. /\ Typed /\ P \in Procs /\ c \in CallType /\ Shape(pc[P], c) /\ InCall(P)
      /\ Op(P) \in {"getemb", "setemb", "unlabel", "pulsekey"}
      /\ sc.pc # "next" => sc.pc \in Keyed /\ k \in Keys /\ Seats(k) # {} /\ c.key = k
      /\ sc' = sc /\ Listening' = Listening
  <2>1. sc.pc # "next" => sc.pc \in {"gated", "post", "lane"}
    BY OwnOp
  <2>2. QED
    BY <2>1, OwnOp, InvParts DEF SidecarInv, Making, Found, Keyed, Reading, Listening, sidecarVars
<1>2. OthersStay(P) /\ (pc'[P] \notin Outside => Op(P)' = Op(P))
  BY <1>1, StepStays DEF KeepsCall, Op
<1>3. Making'
  <2>1. \A q \in Clients : InCall(q)' = InCall(q) /\ Op(q)' = Op(q)
    BY <1>2 DEF OthersStay, Clients, InCall, Op
  <2>2. InCall(P)' => call'[P].key = c.key
    BY OwnMoves DEF InCall, Outside
  <2>3. QED
    BY <1>1, <1>2, <2>1, <2>2, OwnMoves DEF SidecarInv, Making, InCall
<1>4. Found'
  <2>1. sc.pc \in Keyed => k \in Keys /\ Seats(k) # {} /\ Seats(k)' = Seats(k)
    BY <1>1, SeatsHold
  <2>2. ASSUME pc'[P] \notin Outside \cup {"probe"}, sc.pc # "next"
        PROVE  call'[P].slot \in Seats(k)
    <3>1. Onward(P)
      BY <2>2, OwnMoves DEF Outside
    <3>2. CASE Probing(P) /\ call'[P].slot = Phys(P) /\ Match(P, Phys(P))
      BY <1>1, <2>2, <3>2, PhysType DEF Match, Seats, Probing
    <3>3. CASE pc[P] # "probe" /\ call'[P].slot = call[P].slot
      BY <1>1, <2>2, <3>3 DEF SidecarInv, Found, At
    <3>4. QED
      BY <2>2, <3>1, <3>2, <3>3 DEF Onward
  <2>3. sc.pc \in Reading => sc.slot \in Seats(k) /\ sc.pc \in Keyed
    BY DEF SidecarInv, Found, Keyed
  <2>4. InCall(P)' /\ sc.pc # "next" /\ pc'[P] # "probe" => At(P)' \in Seats(k)'
    BY <1>1, <2>1, <2>2 DEF InCall, At
  <2>5. QED
    BY <1>1, <2>1, <2>3, <2>4 DEF Found
<1>5. QED
  BY <1>3, <1>4

(* What a step must leave alone: what the daemon holds, and the content    *)
(* under an even epoch.                                                    *)
Grown(s) ==
  /\ S[s].epoch \in Nat /\ S'[s].epoch \in Nat /\ S[s].epoch <= S'[s].epoch
  /\ S'[s].epoch = S[s].epoch /\ ~ Odd(S[s].epoch) => SameContent(s)

LEMMA SameCarries ==
  ASSUME UNCHANGED vectors, NEW s \in SlotIds, SameContent(s)
  PROVE  Carries(s)' = Carries(s)
BY DEF Carries, SameContent, Copies

LEMMA EnteredGrown ==
  ASSUME SidecarInv, UNCHANGED sidecarVars, Staying, \A s \in SlotIds : Grown(s)
  PROVE  Entered'
<1>1. \A s \in SlotIds : SameContent(s) => (Carries(s) => Carries(s)')
  BY SameCarries DEF sidecarVars
<1>2. sc'.pc \in {"unlabel", "lane"} => sc'.e < processed'[sc'.key]
  BY DEF SidecarInv, Entered, sidecarVars
<1>3. QED
  BY <1>1, <1>2, EnteredNext DEF Grown, Staying, sidecarVars

LEMMA MovedIs == Moved \in {0, 1, 2} /\ (Moved = 1 <=> sc.pc = "post" /\ pc[Sidecar] \in Critical)
BY DEF Moved, Published, Critical

LEMMA Apart ==
  ASSUME SidecarInv, IInv', UNCHANGED sidecarVars, left'[Sidecar] = left[Sidecar],
         OneSeat', Named', Making', Found', Filled', Staying, Moved' = Moved,
         pc'[Sidecar] \in {"emb2", "close"} => pc'[Sidecar] = pc[Sidecar],
         \A s \in SlotIds : Grown(s),
         sc.pc \in Reading /\ (Moved = 1 \/ ~ Listening) => SameContent(sc.slot)
  PROVE  SidecarInv'
<1>1. sc' = sc /\ vectors' = vectors /\ processed' = processed /\ Listening' = Listening
  BY DEF sidecarVars, Listening
<1>2. SidecarTyped' /\ Numbered'
  BY <1>1 DEF SidecarInv, SidecarTyped, Numbered
<1>3. ASSUME sc.pc \in Reading
      PROVE  /\ sc.slot \in SlotIds /\ S[sc.slot].epoch \in Nat /\ S'[sc.slot].epoch \in Nat
             /\ sc.e \in Nat /\ sc.e + Moved <= S[sc.slot].epoch
             /\ sc.e + Moved <= S'[sc.slot].epoch
             /\ Untouched' => Untouched /\ SameContent(sc.slot)
  <2>1. sc.slot \in SlotIds /\ sc.e \in Nat /\ ~ Odd(sc.e) /\ Grown(sc.slot)
        /\ sc.e + Moved <= S[sc.slot].epoch
    BY <1>3, TextIs DEF SidecarInv, ReadTrue
  <2>2. S[sc.slot].epoch \in Nat /\ S'[sc.slot].epoch \in Nat
        /\ S[sc.slot].epoch <= S'[sc.slot].epoch
    BY <2>1 DEF Grown
  <2>3. sc.e + Moved \in Nat /\ (Moved # 1 => ~ Odd(sc.e + Moved))
    BY <2>1, MovedIs, OddEven
  <2>4. sc.e + Moved <= S'[sc.slot].epoch
    BY <2>1, <2>2, <2>3
  <2>5. ASSUME Untouched'
        PROVE  Untouched /\ SameContent(sc.slot)
    <3>1. CASE ~ Listening
      BY <1>3, <3>1 DEF Untouched
    <3>2. CASE Listening
      <4>1. S'[sc.slot].epoch = sc.e + Moved
        BY <1>1, <2>5, <3>2 DEF Untouched
      <4>2. S[sc.slot].epoch = sc.e + Moved
        BY <2>1, <2>2, <2>3, <4>1
      <4>3. SameContent(sc.slot)
        BY <1>3, <2>1, <2>3, <4>1, <4>2 DEF Grown
      <4>4. QED
        BY <4>2, <4>3 DEF Untouched
    <3>3. QED
      BY <3>1, <3>2
  <2>6. QED
    BY <2>1, <2>2, <2>4, <2>5
<1>4. ReadTrue'
  <2>1. sc.pc \in Reading =>
          (Untouched' => /\ S'[sc.slot].val_len = sc.n
                         /\ \A c \in 1 .. Len(sc.text) : sc.text[c] = S'[sc.slot].val[c])
    BY <1>3 DEF SidecarInv, ReadTrue, SameContent
  <2>2. QED
    BY <1>1, <1>3, <2>1 DEF SidecarInv, ReadTrue
<1>5. Storing'
  <2> DEFINE w == vectors[Len(vectors)].ver
  <2>1. ASSUME sc.pc = "post"
        PROVE  /\ pc'[Sidecar] \in {"emb2", "close"} \/ (Moved = 2 /\ Untouched') =>
                    S'[sc.slot].embedding[1] = w
               /\ pc'[Sidecar] = "close" \/ (Moved = 2 /\ Untouched') =>
                    S'[sc.slot].embedding[2] = w
    <3>1. sc.pc \in Reading
      BY <2>1 DEF Reading
    <3>2. pc'[Sidecar] \in {"emb2", "close"} => SameContent(sc.slot) /\ pc'[Sidecar] = pc[Sidecar]
      BY <2>1, <3>1, MovedIs DEF Critical
    <3>3. Untouched' => Untouched /\ SameContent(sc.slot)
      BY <1>3, <3>1
    <3>4. QED
      BY <2>1, <3>2, <3>3 DEF SidecarInv, Storing, SameContent
  <2>2. QED
    BY <1>1, <2>1 DEF SidecarInv, Storing
<1>6. Entered'
  BY EnteredGrown
<1>7. QED
  BY <1>2, <1>4, <1>5, <1>6 DEF SidecarInv

(* The steps of its calls outside a seqlock, *)
Aside(p) == \/ Probe(p) \/ LoadOdd(p) \/ LoadEven(p) \/ CasLose(p) \/ ReadCopy(p) \/ ReadVerify(p)
            \/ Publish(p) \/ UnsetLabel(p) \/ PulseKeygroup(p)

LEMMA AsideMoved ==
  ASSUME SidecarInv, Step(Sidecar), Aside(Sidecar), UNCHANGED sidecarVars,
         CasLose(Sidecar) => sc.pc = "post"
  PROVE  Moved' = Moved
<1> DEFINE P == Sidecar
<1>1. sc' = sc
  BY DEF sidecarVars
<1>2. CASE sc.pc # "post"
  BY <1>1, <1>2 DEF Moved
<1>3. CASE sc.pc = "post"
  <2>1. Typed /\ P \in Procs /\ Op(P) = "setemb"
    BY <1>3, OwnOp, InvParts
  <2>2. ASSUME NEW rc, Return(P, rc)
        PROVE  pc'[P] = "idle" /\ ret'[P].rc = rc
    BY <2>1, <2>2, ReturnStays, ReturnCode
  <2>3. ASSUME NEW l, Then(P, l)
        PROVE  pc'[P] = l
    BY <2>1, <2>3, ThenStays
  <2>4. ASSUME NEW l, NEW d, With(P, l, d)
        PROVE  pc'[P] = l
    BY <2>1, <2>4, WithStays
  <2>5. CASE Probe(P)
    <3>1. pc[P] = "probe" /\ (pc'[P] \in {"found", "probe"} \/ Return(P, "miss"))
      <4>1. CASE ProbeHit(P) \/ ProbeNext(P)
        BY <2>4, <4>1 DEF ProbeHit, ProbeNext
      <4>2. CASE ProbeEnd(P)
        BY <2>1, <4>2 DEF ProbeEnd
      <4>3. QED
        BY <2>5, <4>1, <4>2 DEF Probe
    <3>2. QED
      BY <1>1, <1>3, <2>2, <3>1 DEF Moved, Published, Critical
  <2>6. CASE LoadOdd(P) \/ CasLose(P)
    <3>1. pc[P] \in {"found", "cas"} /\ Return(P, "busy")
      BY <2>1, <2>6 DEF LoadOdd, CasLose, GiveUpSlot
    <3>2. pc'[P] = "idle" /\ ret'[P].rc = "busy"
      BY <2>2, <3>1
    <3>3. QED
      BY <1>1, <1>3, <3>1, <3>2 DEF Moved, Published, Critical
  <2>7. CASE LoadEven(P)
    <3>1. pc[P] = "found" /\ pc'[P] = "cas"
      BY <2>1, <2>4, <2>7 DEF LoadEven, AfterLoad
    <3>2. QED
      BY <1>1, <1>3, <3>1 DEF Moved, Published, Critical
  <2>8. CASE Publish(P)
    <3>1. pc[P] \in Published /\ (pc'[P] \in Published \/ Return(P, "ok"))
      <4>1. CASE Pulse(P)
        <5>1. pc[P] = "pulse" /\ Then(P, "epoch")
          BY <2>1, <4>1 DEF Pulse
        <5>2. QED
          BY <2>3, <5>1 DEF Published
      <4>2. CASE GlobalEpoch(P) \/ NotifySkip(P) \/ NotifyDirty(P) \/ NotifyBell(P)
        BY <2>3, <4>2 DEF GlobalEpoch, NotifySkip, NotifyDirty, NotifyBell, Published
      <4>3. QED
        BY <2>8, <4>1, <4>2 DEF Publish
    <3>2. QED
      BY <1>1, <1>3, <2>2, <3>1 DEF Moved, Published, Critical
  <2>9. CASE ReadCopy(P) \/ ReadVerify(P) \/ UnsetLabel(P) \/ PulseKeygroup(P)
    BY <1>3, <2>1, <2>9, OwnOp DEF ReadCopy, ReadVerify, UnsetLabel, PulseKeygroup, Published
  <2>10. QED
    BY <2>5, <2>6, <2>7, <2>8, <2>9 DEF Aside
<1>4. QED
  BY <1>2, <1>3

LEMMA AsideStep ==
  ASSUME SidecarInv, Step(Sidecar), Aside(Sidecar), UNCHANGED sidecarVars, Staying,
         CasLose(Sidecar) => sc.pc = "post"
  PROVE  SidecarInv'
<1> DEFINE P == Sidecar
<1>1. /\ Typed /\ SeqlockOwner /\ P \in Procs /\ S \in [SlotIds -> SlotType]
      /\ Op(P) \in {"getemb", "setemb", "unlabel", "pulsekey"} /\ Op(P) \notin Rewinds
  BY OwnOp, InvParts DEF Rewinds
<1>2. IInv' /\ Typed' /\ left' = left
  BY <1>1, StepInvariant, StepReturns DEF SidecarInv, IInv, Typed, Returning
<1>3. pc[P] \notin Critical
  BY DEF Aside, Probe, ProbeHit, ProbeNext, ProbeEnd, LoadOdd, LoadEven, CasLose, ReadCopy,
         ReadVerify, Publish, Pulse, GlobalEpoch, NotifySkip, NotifyDirty, NotifyBell,
         UnsetLabel, PulseKeygroup, Critical
<1>4. Silent(P)
  <2>1. CASE LoadOdd(P) \/ CasLose(P)
    <3>1. OthersStay(P) /\ pc'[P] \in {"probe", "idle"} /\ UNCHANGED S
      BY <1>1, <2>1, GiveUpStays DEF LoadOdd, CasLose
    <3>2. pc[P] # "killed" /\ pc'[P] \notin Critical
      BY <2>1, <3>1 DEF LoadOdd, CasLose, Critical
    <3>3. QED
      BY <1>1, <1>3, <3>1, <3>2, SilentOutside
  <2>2. CASE LoadEven(P)
    BY <1>1, <2>2, EnterSilent DEF Enter, LoadEven, CasWin
  <2>3. QED
    BY <1>1, <2>1, <2>2, ProbeSilent, ReadSilent, PublishSilent, MarkSilent DEF Aside, Read, Mark
<1>5. \A s \in SlotIds : SameContent(s) /\ Holds(P, s)' = Holds(P, s)
  BY <1>3, <1>4 DEF Silent, Holds
<1>6. \A s \in SlotIds : S'[s].hash = S[s].hash /\ S'[s].key = S[s].key
  <2>1. CASE UnsetLabel(P)
    BY <1>1, <2>1, SlotTyped DEF UnsetLabel, SlotType
  <2>2. CASE ~ UnsetLabel(P)
    BY <2>2 DEF Aside, Probe, ProbeHit, ProbeNext, ProbeEnd, LoadOdd, LoadEven, CasLose, ReadCopy,
         ReadVerify, Publish, Pulse, GlobalEpoch, NotifySkip, NotifyDirty, NotifyBell,
         PulseKeygroup
  <2>3. QED
    BY <2>1, <2>2
<1>13. OneSeat' /\ Named'
  BY <1>6 DEF SidecarInv, OneSeat, Named
<1>7. Filled'
  <2>1. \A s \in SlotIds : Carries(s)' = Carries(s)
    BY <1>5, SameCarries DEF sidecarVars
  <2>2. Listening' = Listening
    BY DEF Listening, sidecarVars
  <2>3. QED
    BY <1>5, <1>6, <2>1, <2>2 DEF SidecarInv, Filled, SameContent
<1>8. \A s \in SlotIds : Grown(s)
  BY <1>1, <1>2, ContentMoves DEF Grown
<1>9. pc'[P] \notin {"emb2", "close"}
  BY <1>3, <1>4 DEF Silent, Critical
<1>10. Moved' = Moved
  BY AsideMoved
<1>11. sc.pc \in Reading => SameContent(sc.slot)
  BY <1>5, TextIs
<1>12. QED
  BY <1>2, <1>7, <1>8, <1>9, <1>10, <1>11, <1>13, OwnCall, Apart

(* and those of set_embedding inside it: the epoch is moved on, or a half  *)
(* of the vector is stored.                                                *)
Locked(p) == CasWin(p) \/ SetEmbFirst(p) \/ SetEmbSecond(p) \/ CloseSlot(p)

LEMMA LockedSlot ==
  ASSUME SidecarInv, Step(Sidecar), sc.pc = "post", Op(Sidecar) = "setemb", Locked(Sidecar),
         UNCHANGED sidecarVars
  PROVE  /\ sc.slot \in SlotIds /\ At(Sidecar) = sc.slot /\ call'[Sidecar] = call[Sidecar]
         /\ Ver(Sidecar) = vectors[Len(vectors)].ver
         /\ \A s \in SlotIds \ {sc.slot} : S'[s] = S[s]
         /\ \A s \in SlotIds : /\ S'[s].hash = S[s].hash /\ S'[s].key = S[s].key
                               /\ S'[s].val = S[s].val /\ S'[s].val_len = S[s].val_len
         /\ \/ /\ Moved = 0 /\ Moved' = 1 /\ S'[sc.slot].epoch = S[sc.slot].epoch + 1
               /\ pc'[Sidecar] = "emb1"
            \/ /\ Moved = 1 /\ Moved' = 1 /\ S'[sc.slot].epoch = S[sc.slot].epoch
               /\ pc'[Sidecar] = "emb2" /\ S'[sc.slot].embedding[1] = Ver(Sidecar)
            \/ /\ Moved = 1 /\ Moved' = 1 /\ S'[sc.slot].epoch = S[sc.slot].epoch
               /\ pc'[Sidecar] = "close" /\ pc[Sidecar] = "emb2"
               /\ S'[sc.slot].embedding[1] = S[sc.slot].embedding[1]
               /\ S'[sc.slot].embedding[2] = Ver(Sidecar)
            \/ /\ Moved = 1 /\ Moved' = 2 /\ S'[sc.slot].epoch = S[sc.slot].epoch + 1
               /\ pc'[Sidecar] = "pulse" /\ pc[Sidecar] = "close"
               /\ S'[sc.slot].embedding = S[sc.slot].embedding
<1> DEFINE P == Sidecar
<1>1. /\ Typed /\ P \in Procs /\ S \in [SlotIds -> SlotType] /\ InCall(P)
      /\ sc' = sc
  BY OwnOp, InvParts DEF sidecarVars
<1>2. pc[P] \in {"cas", "emb1", "emb2", "close"}
  BY DEF Locked, CasWin, SetEmbFirst, SetEmbSecond, CloseSlot
<1>3. /\ call[P].key = sc.key /\ At(P) = sc.slot /\ sc.slot \in SlotIds
  <2>1. call[P].key = sc.key /\ At(P) \in Seats(sc.key)
    BY <1>1, <1>2 DEF SidecarInv, Making, Found
  <2>2. QED
    BY <2>1, TextIs DEF Reading
<1>4. Ver(P) = vectors[Len(vectors)].ver
  BY <1>3 DEF SidecarInv, Storing, Ver
<1>5. S[sc.slot] \in SlotType /\ S[sc.slot].epoch \in Nat /\ S[sc.slot].embedding \in [1 .. 2 -> Cell]
  BY <1>1, <1>3 DEF SlotType
<1>6. CASE CasWin(P)
  <2>1. /\ S' = [S EXCEPT ![sc.slot].epoch = @ + 1] /\ Then(P, "emb1") /\ pc[P] = "cas"
    BY <1>3, <1>6 DEF CasWin, AfterCas
  <2>2. pc'[P] = "emb1" /\ call'[P] = call[P]
    BY <1>1, <2>1, ThenStays
  <2>3. Moved = 0 /\ Moved' = 1
    BY <1>1, <2>1, <2>2 DEF Moved, Critical, Published
  <2>4. QED
    BY <1>1, <1>3, <1>4, <1>5, <2>1, <2>2, <2>3 DEF SlotType
<1>7. CASE SetEmbFirst(P)
  <2>1. /\ S' = [S EXCEPT ![sc.slot].embedding[1] = Ver(P)] /\ Then(P, "emb2") /\ pc[P] = "emb1"
    BY <1>3, <1>7 DEF SetEmbFirst
  <2>2. pc'[P] = "emb2" /\ call'[P] = call[P]
    BY <1>1, <2>1, ThenStays
  <2>3. Moved = 1 /\ Moved' = 1
    BY <1>1, <2>1, <2>2 DEF Moved, Critical, Published
  <2>4. QED
    BY <1>1, <1>3, <1>4, <1>5, <2>1, <2>2, <2>3 DEF SlotType
<1>8. CASE SetEmbSecond(P)
  <2>1. /\ S' = [S EXCEPT ![sc.slot].embedding[2] = Ver(P)] /\ Then(P, "close") /\ pc[P] = "emb2"
    BY <1>3, <1>8 DEF SetEmbSecond
  <2>2. pc'[P] = "close" /\ call'[P] = call[P]
    BY <1>1, <2>1, ThenStays
  <2>3. Moved = 1 /\ Moved' = 1
    BY <1>1, <2>1, <2>2 DEF Moved, Critical, Published
  <2>4. QED
    BY <1>1, <1>3, <1>4, <1>5, <2>1, <2>2, <2>3 DEF SlotType
<1>9. CASE CloseSlot(P)
  <2>1. /\ S' = [S EXCEPT ![sc.slot].epoch = @ + 1] /\ Then(P, "pulse") /\ pc[P] = "close"
    BY <1>3, <1>9 DEF CloseSlot
  <2>2. pc'[P] = "pulse" /\ call'[P] = call[P]
    BY <1>1, <2>1, ThenStays
  <2>3. Moved = 1 /\ Moved' = 2
    BY <1>1, <2>1, <2>2 DEF Moved, Critical, Published
  <2>4. QED
    BY <1>1, <1>3, <1>4, <1>5, <2>1, <2>2, <2>3 DEF SlotType
<1>10. QED
  BY <1>6, <1>7, <1>8, <1>9 DEF Locked

LEMMA LockedStep ==
  ASSUME SidecarInv, Step(Sidecar), sc.pc = "post", Op(Sidecar) = "setemb", Locked(Sidecar),
         UNCHANGED sidecarVars, Staying
  PROVE  SidecarInv'
<1> DEFINE P == Sidecar  w == vectors[Len(vectors)].ver
<1>1. /\ Typed /\ SeqlockOwner /\ P \in Procs /\ Op(P) \notin Rewinds
      /\ sc' = sc /\ vectors' = vectors /\ processed' = processed /\ Listening' = Listening
      /\ sc.pc \in Reading
  BY InvParts DEF Rewinds, sidecarVars, Listening, Reading
<1>2. IInv' /\ Typed' /\ left' = left
  BY <1>1, StepInvariant, StepReturns DEF SidecarInv, IInv, Typed, Returning
<1>3. SidecarTyped' /\ Numbered'
  BY <1>1, <1>2 DEF SidecarInv, SidecarTyped, Numbered
<1>4. Making' /\ Found'
  BY OwnCall
<1>5. Entered'
  <2>1. \A s \in SlotIds : Grown(s)
    BY <1>1, <1>2, ContentMoves DEF Grown
  <2>2. QED
    BY <2>1, EnteredGrown
<1>6. /\ sc.slot \in SlotIds /\ S[sc.slot].epoch \in Nat /\ sc.e \in Nat
      /\ sc.e + Moved <= S[sc.slot].epoch
  BY <1>1, TextIs DEF SidecarInv, ReadTrue
<1>7. /\ sc.e + Moved' <= S'[sc.slot].epoch
      /\ S'[sc.slot].epoch = sc.e + Moved' <=> S[sc.slot].epoch = sc.e + Moved
  <2>1. \/ Moved = 0 /\ Moved' = 1 /\ S'[sc.slot].epoch = S[sc.slot].epoch + 1
        \/ Moved = 1 /\ Moved' = 1 /\ S'[sc.slot].epoch = S[sc.slot].epoch
        \/ Moved = 1 /\ Moved' = 2 /\ S'[sc.slot].epoch = S[sc.slot].epoch + 1
    BY LockedSlot
  <2>2. QED
    BY <1>6, <2>1
<1>8. Untouched' <=> Untouched
  BY <1>1, <1>7 DEF Untouched
<1>9. ReadTrue'
  <2>1. S'[sc.slot].val = S[sc.slot].val /\ S'[sc.slot].val_len = S[sc.slot].val_len
    BY <1>6, LockedSlot
  <2>2. QED
    BY <1>1, <1>7, <1>8, <2>1 DEF SidecarInv, ReadTrue
<1>10. pc'[P] = "pulse" => /\ S'[sc.slot].embedding[1] = w /\ S'[sc.slot].embedding[2] = w
  BY LockedSlot DEF SidecarInv, Storing
<1>11. Storing'
  <2>1. pc'[P] \in {"emb2", "close"} \/ (Moved' = 2 /\ Untouched') => S'[sc.slot].embedding[1] = w
    BY LockedSlot, <1>10 DEF SidecarInv, Storing
  <2>2. pc'[P] = "close" \/ (Moved' = 2 /\ Untouched') => S'[sc.slot].embedding[2] = w
    BY LockedSlot, <1>10 DEF SidecarInv, Storing
  <2>3. QED
    BY <1>1, <1>2, <2>1, <2>2 DEF SidecarInv, Storing
<1>12. Filled'
  <2>1. ASSUME ~ Listening, NEW s \in SlotIds
        PROVE  /\ S'[s].hash = Layout[s] /\ S'[s].key = Layout[s]
               /\ S'[s].embedding = NoEmbedding \/ Carries(s)' \/ Holds(P, s)'
    <3>1. S'[s].hash = Layout[s] /\ S'[s].key = Layout[s]
      BY <2>1, LockedSlot DEF SidecarInv, Filled
    <3>2. CASE s # sc.slot
      <4>1. S'[s] = S[s] /\ ~ Holds(P, s)
        BY <3>2, LockedSlot DEF Holds
      <4>2. SameContent(s)
        BY <4>1 DEF SameContent
      <4>3. Carries(s)' = Carries(s)
        BY <1>1, <4>2, SameCarries
      <4>4. QED
        BY <2>1, <3>1, <4>1, <4>3 DEF SidecarInv, Filled
    <3>3. CASE s = sc.slot /\ pc'[P] # "pulse"
      <4>1. pc'[P] \in {"emb1", "emb2", "close"} /\ call'[P].slot = s
        BY <3>3, LockedSlot DEF At
      <4>2. Holds(P, s)'
        BY <4>1 DEF Holds, Critical, At
      <4>3. QED
        BY <3>1, <4>2
    <3>4. CASE s = sc.slot /\ pc'[P] = "pulse"
      <4>1. /\ vectors[Len(vectors)].text = sc.text /\ Len(vectors) \in DOMAIN vectors
        <5>1. vectors # << >> /\ vectors[Len(vectors)].text = sc.text
          BY DEF SidecarInv, Storing
        <5>2. QED
          BY <5>1, InvParts, LenProperties, EmptySeq
      <4>2. Copies(sc.text, S[sc.slot].val, S[sc.slot].val_len)
        BY <1>1, <2>1, TextIs DEF Copies, Untouched
      <4>3. S'[s].val = S[s].val /\ S'[s].val_len = S[s].val_len
        BY LockedSlot
      <4>4. Carries(s)'
        BY <1>1, <1>10, <3>4, <4>1, <4>2, <4>3 DEF Carries
      <4>5. QED
        BY <3>1, <4>4
    <3>5. QED
      BY <3>2, <3>3, <3>4
  <2>2. QED
    BY <1>1, <2>1 DEF Filled
<1>13. OneSeat' /\ Named'
  BY LockedSlot DEF SidecarInv, OneSeat, Named
<1>14. QED
  BY <1>2, <1>3, <1>4, <1>5, <1>9, <1>11, <1>12, <1>13 DEF SidecarInv

LEMMA CallingStep ==
  ASSUME SidecarInv, Calling, Staying
  PROVE  SidecarInv'
<1>1. Step(Sidecar) /\ UNCHANGED sidecarVars
  BY DEF Calling
<1>2. \/ Aside(Sidecar) /\ (CasLose(Sidecar) => sc.pc = "post")
      \/ sc.pc = "post" /\ Op(Sidecar) = "setemb" /\ Locked(Sidecar)
  <2>1. CasLose(Sidecar) => sc.pc = "post"
    BY OwnOp, <1>1 DEF CasLose, Shape, LockOps, Op
  <2>2. QED
    BY <1>1, <2>1, OwnStep DEF Aside, Locked
<1>3. QED
  BY <1>1, <1>2, AsideStep, LockedStep

-----------------------------------------------------------------------------
(* The clients *)

(* Only a set changes the key of a slot: it wipes it, and links it with    *)
(* the hash.                                                               *)
LEMMA KeyedSame ==
  ASSUME Typed, NEW p \in Procs, Step(p), Op(p) \notin Rewinds, ~ SetLink(p), NEW s \in SlotIds
  PROVE  S'[s].hash = S[s].hash /\ (~ SetBlank(p) => S'[s].key = S[s].key)
<1> USE SlotTyped
<1>1. S \in [SlotIds -> SlotType]
  BY DEF Typed, TypeOK
<1>2. CASE Probe(p) \/ Publish(p) \/ Read(p) \/ Poll(p)
  BY <1>2 DEF Probe, ProbeHit, ProbeNext, ProbeEnd, Publish, Pulse, GlobalEpoch, NotifySkip,
     NotifyDirty, NotifyBell, Read, ReadLen, ReadCopy, ReadVerify, SnapOdd, SnapStart, SnapEnd,
     Poll, PollClock, PollMoved, PollTimeout
<1>3. CASE Enter(p)
  BY <1>1, <1>3, SMTT(30) DEF Enter, LoadOdd, LoadEven, CasWin, CasLose, SlotType
<1>4. CASE Write(p)
  <2>1. CASE SetScrub(p)
    BY <1>1, <2>1 DEF SetScrub, SlotType
  <2>2. CASE SetFill(p)
    BY <1>1, <2>2 DEF SetFill, SlotType
  <2>3. CASE AppendRoom(p)
    BY <1>1, <2>3 DEF AppendRoom, SlotType
  <2>4. CASE AppendExtend(p)
    BY <1>1, <2>4 DEF AppendExtend, SlotType
  <2>5. CASE SetEmbFirst(p) \/ SetEmbSecond(p)
    <3>1. CASE SetEmbFirst(p)
      BY <1>1, <3>1 DEF SetEmbFirst, SlotType
    <3>2. CASE SetEmbSecond(p)
      BY <1>1, <3>2 DEF SetEmbSecond, SlotType
    <3>3. QED
      BY <2>5, <3>1, <3>2
  <2>6. CASE PurgeSweep(p)
    BY <1>1, <2>6 DEF PurgeSweep, SlotType
  <2>7. CASE CloseSlot(p)
    BY <1>1, <2>7 DEF CloseSlot, SlotType
  <2>8. CASE AppendTooLong(p) \/ BumpPulse(p)
    BY <2>8 DEF AppendTooLong, BumpPulse
  <2>9. CASE SetBlank(p)
    BY <1>1, <2>9 DEF SetBlank, SlotType
  <2>10. QED
    BY <1>4, <2>1, <2>2, <2>3, <2>4, <2>5, <2>6, <2>7, <2>8, <2>9 DEF Write
<1>5. CASE Unset(p) \/ Retrain(p)
  BY <1>5 DEF Unset, UnsetForget, UnsetWipe, UnsetRewind, UnsetReset, UnsetReopen, Retrain,
     RetrainOdd, RetrainZero, RetrainEven, Shape, Op, Rewinds, Outside
<1>6. CASE Mark(p)
  <2>1. CASE SetLabel(p) \/ UnsetLabel(p)
    <3>1. CASE SetLabel(p)
      BY <1>1, <3>1 DEF SetLabel, SlotType
    <3>2. CASE UnsetLabel(p)
      BY <1>1, <3>2 DEF UnsetLabel, SlotType
    <3>3. QED
      BY <2>1, <3>1, <3>2
  <2>2. CASE PulseKeygroup(p)
    BY <2>2 DEF PulseKeygroup
  <2>3. CASE WatchRegister(p) \/ WatchUnregister(p)
    <3>1. CASE WatchRegister(p)
      BY <1>1, <3>1 DEF WatchRegister, SlotType
    <3>2. CASE WatchUnregister(p)
      BY <1>1, <3>2 DEF WatchUnregister, SlotType
    <3>3. QED
      BY <2>3, <3>1, <3>2
  <2>4. QED
    BY <1>6, <2>1, <2>2, <2>3 DEF Mark
<1>7. QED
  BY <1>2, <1>3, <1>4, <1>5, <1>6 DEF Step

LEMMA SeatedNext ==
  ASSUME SidecarInv, NEW p \in Procs, Step(p), Op(p) \notin Rewinds, Staying
  PROVE  OneSeat' /\ Named'
<1>1. Typed /\ S \in [SlotIds -> SlotType] /\ OneSeat /\ Named
  BY InvParts DEF SidecarInv
<1>2. CASE SetLink(p)
  <2>0. PICK k : k = call[p].key
    OBVIOUS
  <2>1. k \in Keys /\ At(p) \in SlotIds
    BY <1>1, <1>2, <2>0, SlotTyped DEF SetLink, Shape, Outside
  <2>2. \A s \in SlotIds : /\ S'[s].hash = IF s = At(p) THEN k ELSE S[s].hash
                           /\ S'[s].key = IF s = At(p) THEN k ELSE S[s].key
    BY <1>1, <1>2, <2>0, <2>1 DEF SetLink, SlotType
  <2>3. \A s \in SlotIds : S[s].hash = k => s = At(p)
    <3>1. ASSUME NEW s \in SlotIds, S[s].hash = k
          PROVE  s = At(p)
      <4>1. s \in Seats(k)
        BY <3>1 DEF Seats
      <4>2. Seats(k)' = Seats(k)
        BY <2>1, <4>1 DEF Staying
      <4>3. PICK a : a = At(p)
        OBVIOUS
      <4>4. a \in Seats(k)'
        BY <2>1, <2>2, <4>3 DEF Seats
      <4>5. QED
        BY <1>1, <2>1, <4>1, <4>2, <4>3, <4>4, KeysAssumption DEF OneSeat, Seats
    <3>2. QED
      BY <3>1
  <2>4. QED
    BY <1>1, <2>2, <2>3 DEF OneSeat, Named
<1>3. CASE SetBlank(p)
  <2>1. \A s \in SlotIds : S'[s].hash = S[s].hash
    BY <1>1, <1>3, KeyedSame DEF SetBlank, SetLink
  <2>2. \A s \in SlotIds : S'[s].key \in {S[s].key, NoKey}
    BY <1>1, <1>3, SlotTyped DEF SetBlank, SlotType
  <2>3. QED
    BY <1>1, <2>1, <2>2 DEF OneSeat, Named
<1>4. CASE ~ SetLink(p) /\ ~ SetBlank(p)
  <2>1. \A s \in SlotIds : S'[s].hash = S[s].hash /\ S'[s].key = S[s].key
    BY <1>1, <1>4, KeyedSame
  <2>2. QED
    BY <1>1, <2>1 DEF OneSeat, Named
<1>5. QED
  BY <1>2, <1>3, <1>4

(* A client, calling or in a call, leaves the daemon's calls alone.        *)
LEMMA ClientApart ==
  ASSUME SidecarInv, NEW p \in Clients, IInv', OneSeat', Named', UNCHANGED sidecarVars, Staying, Listening,
         OthersStay(p), ret'[Sidecar] = ret[Sidecar], left'[Sidecar] = left[Sidecar],
         InCall(p)' => Op(p)' \notin Rewinds,
         \A s \in SlotIds : Grown(s) /\ (Holds(Sidecar, s) => SameContent(s))
  PROVE  SidecarInv'
<1> DEFINE P == Sidecar
<1>1. /\ sc' = sc /\ Listening' /\ P \in Procs /\ P # p
      /\ pc'[P] = pc[P] /\ call'[P] = call[P]
      /\ \A q \in Clients \ {p} : pc'[q] = pc[q] /\ call'[q] = call[q]
  BY SidecarAssumption DEF sidecarVars, Listening, OthersStay, Clients
<1>2. Making'
  <2>1. sc.pc = "fill" => sc.of = "fill"
    BY DEF SidecarInv, Making
  <2>2. \A q \in Clients : InCall(q)' => Op(q)' \notin Rewinds
    BY <1>1 DEF SidecarInv, Making, InCall, Op
  <2>3. QED
    BY <1>1, <2>1, <2>2 DEF SidecarInv, Making, InCall, Op
<1>3. Found'
  <2>1. sc.pc \in Keyed => sc.key \in Keys /\ Seats(sc.key) # {} /\ Seats(sc.key)' = Seats(sc.key)
    BY <1>1, SeatsHold
  <2>2. InCall(P) /\ sc.pc # "next" => sc.pc \in Keyed
    BY DEF SidecarInv, Making, Keyed, Reading
  <2>3. sc.pc \in Reading => sc.pc \in Keyed
    BY DEF Keyed
  <2>4. QED
    BY <1>1, <2>1, <2>2, <2>3 DEF SidecarInv, Found, InCall, At
<1>4. Filled'
  BY <1>1 DEF Filled
<1>5. Moved' = Moved
  BY <1>1 DEF Moved
<1>6. sc.pc \in Reading /\ Moved = 1 => SameContent(sc.slot)
  <2>1. ASSUME sc.pc \in Reading, Moved = 1
        PROVE  SameContent(sc.slot)
    <3>1. sc.pc = "post" /\ pc[P] \in Critical
      BY <2>1, MovedIs
    <3>2. At(P) = sc.slot /\ sc.slot \in SlotIds
      <4>1. At(P) \in Seats(sc.key)
        BY <3>1 DEF SidecarInv, Found, InCall, Critical, Outside
      <4>2. QED
        BY <2>1, <4>1, TextIs
    <3>3. QED
      BY <3>1, <3>2 DEF Holds
  <2>2. QED
    BY <2>1
<1>7. QED
  BY <1>1, <1>2, <1>3, <1>4, <1>5, <1>6, Apart

LEMMA ClientStep ==
  ASSUME Undisturbed, SidecarInv, NEW p \in Clients, Client(p), Staying
  PROVE  SidecarInv'
<1>1. /\ UNCHANGED sidecarVars /\ Typed /\ SeqlockOwner /\ p \in Procs /\ Sidecar \in Procs \ {p}
  BY InvParts DEF Client, Clients
<1>2. CASE Step(p)
  <2>1. /\ Listening /\ Op(p) \notin Rewinds /\ KeepsCall(p)
    BY <1>1, <1>2, StepStays DEF SidecarInv, Making, InCall
  <2>2. IInv' /\ Typed' /\ Returning(p)
    BY <1>1, <1>2, StepInvariant, StepReturns DEF SidecarInv, IInv, Typed
  <2>3. \A s \in SlotIds : Grown(s) /\ (Holds(Sidecar, s) => SameContent(s))
    BY <1>1, <1>2, <2>1, <2>2, ContentMoves DEF Grown
  <2>4. InCall(p)' => Op(p)' \notin Rewinds
    BY <2>1 DEF KeepsCall, InCall, Op
  <2>5. OneSeat' /\ Named'
    BY <1>1, <1>2, <2>1, SeatedNext
  <2>6. QED
    BY <1>1, <2>1, <2>2, <2>3, <2>4, <2>5, ClientApart DEF KeepsCall, Returning
<1>3. CASE ~ Step(p)
  <2>1. PICK c \in Calls[p], m \in Lens : Begin(p, c, m) /\ (Listening \/ sc.mode.early)
    BY <1>3 DEF Client
  <2>2. Listening
    BY <2>1, InvParts DEF Undisturbed, LocalType
  <2>3. /\ c \in [op : OpNames, key : Keys] /\ m \in Length /\ c.op \notin Rewinds
    BY <1>1, <2>1, CallsAssumption, SlotsAssumption DEF Undisturbed, Length
  <2>4. IInv'
    BY <1>1, <2>1, <2>3, BeginInvariant DEF SidecarInv
  <2>5. /\ S' = S /\ OthersStay(p) /\ ret'[Sidecar] = ret[Sidecar]
        /\ left'[Sidecar] = left[Sidecar] /\ call'[p].op = c.op
    BY <1>1, <2>1 DEF Begin, Goto, OthersStay, Typed, TypeOK, Idle
  <2>6. \A s \in SlotIds : Grown(s) /\ SameContent(s)
    <3>1. \A s \in SlotIds : S[s].epoch \in Nat
      BY InvParts DEF SlotType
    <3>2. QED
      BY <2>5, <3>1 DEF Grown, SameContent
  <2>7. InCall(p)' => Op(p)' \notin Rewinds
    BY <2>3, <2>5 DEF Op
  <2>8. QED
    BY <1>1, <2>2, <2>4, <2>5, <2>6, <2>7, TableSame, ClientApart DEF SidecarInv
<1>4. QED
  BY <1>2, <1>3

-----------------------------------------------------------------------------
(* From the start *)

LEMMA StartInv ==
  ASSUME Undisturbed, SidecarInit
  PROVE  SidecarInv
<1>1. Init /\ IInv /\ Typed
  BY InvariantInit DEF SidecarInit, IInv, Typed
<1>2. \A p \in Procs : ~ InCall(p) /\ pc[p] = "idle"
  BY <1>1 DEF Init, InCall, Outside
<1>3. PICK m \in Modes :
        sc = [pc |-> IF m.backfill THEN "fill" ELSE "baseline", of |-> IF m.backfill THEN "fill" ELSE "scan",
              mode |-> m, cur |-> 0, last |-> 0, todo |-> Listed, at |-> 0,
              key |-> NoKey, e |-> 0, slot |-> 0, n |-> 0, text |-> << >>]
  BY DEF SidecarInit
<1>4. /\ sc.pc \in {"fill", "baseline"} /\ sc.of \in {"fill", "scan"} /\ sc.mode = m
      /\ sc.cur = 0 /\ sc.last = 0 /\ sc.todo = Listed /\ sc.at = 0 /\ sc.key = NoKey /\ sc.e = 0
      /\ sc.slot = 0 /\ sc.n = 0 /\ sc.text = << >> /\ (sc.pc = "fill" => sc.of = "fill")
  BY <1>3
<1>5. sc \in LocalType
  <2>1. Listed \in SUBSET SlotIds /\ 0 \in SlotIds /\ 0 \in Length /\ << >> \in Seq(Cell)
    BY SlotsAssumption DEF Listed, SlotIds, Length
  <2>2. DOMAIN sc = {"pc", "of", "mode", "cur", "last", "todo", "at", "key", "e", "slot", "n", "text"}
    BY <1>3
  <2>3. QED
    BY <1>3, <1>4, <2>1 DEF LocalType
<1>6. vectors = << >> /\ processed = [k \in Keys |-> 0] /\ DOMAIN vectors = {}
  BY DEF SidecarInit
<1>7. SidecarTyped /\ Numbered
  BY <1>5, <1>6 DEF SidecarTyped, Numbered
<1>8. ~ Listening
  BY <1>4 DEF Listening
<1>9. Making /\ Found /\ ReadTrue /\ Storing
  BY <1>2, <1>4, SidecarAssumption DEF Making, Found, ReadTrue, Storing, Clients, Keyed, Reading
<1>10. Filled
  <2>1. ASSUME NEW s \in SlotIds
        PROVE  S[s].hash = Layout[s] /\ S[s].key = Layout[s] /\ S[s].embedding = NoEmbedding
    <3>1. S[s] = IF Layout[s] = NoKey THEN Empty ELSE Stored(Layout[s])
      BY <1>1 DEF Init
    <3>2. CASE Layout[s] = NoKey
      BY <3>1, <3>2 DEF Empty
    <3>3. CASE Layout[s] # NoKey
      BY <3>1, <3>3 DEF Stored, Empty
    <3>4. QED
      BY <3>2, <3>3
  <2>2. QED
    BY <2>1 DEF Filled
<1>11. Entered
  BY <1>4, <1>6 DEF Entered
<1>12. OneSeat /\ Named
  BY <1>8, <1>10 DEF Filled, OneSeat, Named, Undisturbed
<1>13. QED
  BY <1>1, <1>7, <1>9, <1>10, <1>11, <1>12 DEF SidecarInv

(* A text of no length is never stored, so there is no diagnostic.         *)
LocalPCs == Keyed \cup {"fill", "baseline", "wait", "list", "scan", "next"}

LEMMA MainStep ==
  ASSUME Undisturbed, SidecarInv, Main
  PROVE  SidecarInv'
<1>1. sc.pc \in LocalPCs /\ ~ Marker /\ ~ Stamp /\ ~ Bump /\ ~ Marked
  <2>1. sc.pc \in LocalPCs
    BY InvParts DEF LocalType, LocalPCs
  <2>2. QED
    BY <2>1 DEF LocalPCs, Keyed, Reading, Marker, Stamp, Bump, Marked
<1>2. QED
  BY <1>1, StartStep, BaselineStep, LoopStep, ReadEpochStep, RawPtrStep, TokenizeStep, DecodeStep,
     GatedStep, LeaveStep, ProcessedStep, OtherCallStep, CommitStep DEF Main

LEMMA SidecarStep ==
  ASSUME Undisturbed, SidecarInv, [SidecarNext]_allVars, Staying
  PROVE  SidecarInv'
<1>1. CASE UNCHANGED allVars
  <2>1. UNCHANGED << vars, sidecarVars >>
    BY <1>1 DEF allVars
  <2>2. IInv'
    BY <2>1, SameInvariant DEF SidecarInv
  <2>3. UNCHANGED << sc, processed, vectors, S, pc, call, ret, left >>
    BY <2>1 DEF vars, sidecarVars
  <2>4. Making'
    BY <2>3 DEF SidecarInv, Making, Listening, InCall, Op
  <2>5. Found'
    <3>1. \A k : Seats(k)' = Seats(k)
      BY <2>3, TableSame
    <3>2. sc.pc \in Keyed => sc.key \in Keys
      BY DEF SidecarInv, Found
    <3>3. InCall(Sidecar) /\ sc.pc # "next" => sc.pc \in Keyed
      BY DEF SidecarInv, Making, Keyed, Reading
    <3>4. sc.pc \in Reading => sc.pc \in Keyed
      BY DEF Keyed
    <3>5. QED
      BY <2>3, <3>1, <3>2, <3>3, <3>4 DEF SidecarInv, Found, InCall, At
  <2>6. \A s \in SlotIds : Grown(s) /\ SameContent(s)
    <3>1. \A s \in SlotIds : S[s].epoch \in Nat
      BY InvParts DEF SlotType
    <3>2. QED
      BY <2>3, <3>1 DEF Grown, SameContent
  <2>7. Filled'
    BY <2>1, <2>3, LookSame DEF SidecarInv, Filled, Listening
  <2>8. Moved' = Moved
    BY <2>3 DEF Moved
  <2>9. sc.pc \in Reading => SameContent(sc.slot)
    BY <2>6, TextIs
  <2>10. QED
    BY <2>1, <2>2, <2>3, <2>4, <2>5, <2>6, <2>7, <2>8, <2>9, TableSame, Apart DEF SidecarInv
<1>2. CASE Main
  BY <1>2, MainStep
<1>3. CASE Calling
  BY <1>3, CallingStep
<1>4. ASSUME NEW p \in Clients, Client(p)
      PROVE  SidecarInv'
  BY <1>4, ClientStep
<1>5. QED
  BY <1>1, <1>2, <1>3, <1>4 DEF SidecarNext

LEMMA SidecarInvariant ==
  ASSUME Undisturbed
  PROVE  SidecarSpec /\ KeysStay => []SidecarInv
<1>1. SidecarInit => SidecarInv
  BY StartInv
<1>2. SidecarInv /\ [SidecarNext]_allVars /\ [Staying]_allVars => SidecarInv'
  <2> SUFFICES ASSUME SidecarInv, [SidecarNext]_allVars, [Staying]_allVars
               PROVE  SidecarInv'
    OBVIOUS
  <2>1. CASE Staying
    BY <2>1, SidecarStep
  <2>2. CASE UNCHANGED allVars
    <3>1. Staying
      BY <2>2 DEF Staying, Seats, allVars, vars
    <3>2. QED
      BY <3>1, SidecarStep
  <2>3. QED
    BY <2>1, <2>2
<1>3. QED
  BY <1>1, <1>2, PTL DEF SidecarSpec, KeysStay

LEMMA CarriedIsCurrent ==
  ASSUME SidecarInv, NEW s, Carries(s)
  PROVE  Current(s)
<1>1. PICK i \in DOMAIN vectors :
        /\ \A h \in 1 .. 2 : S[s].embedding[h] = vectors[i].ver
        /\ Copies(vectors[i].text, S[s].val, S[s].val_len)
  BY DEF Carries
<1>2. S[s].embedding[1] = vectors[i].ver /\ S[s].embedding[2] = vectors[i].ver
  BY <1>1
<1>3. DOMAIN vectors = 1 .. Len(vectors)
  BY InvParts, LenProperties
<1>4. {j \in 1 .. Len(vectors) : vectors[j].ver = S[s].embedding[1]} = {i}
  BY <1>2, <1>3 DEF SidecarInv, Numbered
<1>5. TextOf(s) = vectors[i].text
  BY <1>2, <1>4 DEF TextOf
<1>6. QED
  BY <1>1, <1>5 DEF Current

LEMMA DoneNow ==
  ASSUME SidecarInv
  PROVE  DoneIsCurrent
<1> SUFFICES ASSUME NEW k \in Keys, processed[k] # 0, processed[k] = Epoch(k)
             PROVE  Current(Reached(k))
  BY DEF DoneIsCurrent
<1>1. Reached(k) \in Seats(k) /\ Epoch(k) = S[Reached(k)].epoch
  BY EpochIs
<1>2. Carries(Reached(k))
  BY <1>1 DEF SidecarInv, Entered
<1>3. QED
  BY <1>2, CarriedIsCurrent

Clearing ==
  Clears => LET s == At(Sidecar) IN
    Current(s) \/ (sc.e < processed[sc.key] /\ processed[sc.key] < S[s].epoch)

LEMMA ClearingStep ==
  ASSUME SidecarInv
  PROVE  Clearing
<1> SUFFICES ASSUME pc[Sidecar] = "found", Op(Sidecar) = "unlabel"
             PROVE  LET s == At(Sidecar) IN
                      Current(s) \/ (sc.e < processed[sc.key] /\ processed[sc.key] < S[s].epoch)
  BY DEF Clearing, Clears
<1> DEFINE s == At(Sidecar)
<1>1. sc.pc = "lane" /\ InCall(Sidecar)
  BY DEF SidecarInv, Making, InCall, Outside
<1>2. sc.key \in Keys /\ s \in Seats(sc.key)
  BY <1>1 DEF SidecarInv, Found, Keyed
<1>3. s \in SlotIds
  BY <1>2, SeatIs
<1>4. sc.e \in Nat /\ processed[sc.key] \in Nat /\ S[s].epoch \in Nat
  BY <1>2, <1>3, InvParts DEF LocalType, SlotType
<1>5. sc.e < processed[sc.key]
  BY <1>1 DEF SidecarInv, Entered
<1>6. processed[sc.key] # 0
  BY <1>4, <1>5
<1>7. processed[sc.key] <= S[s].epoch /\ (processed[sc.key] = S[s].epoch => Carries(s))
  BY <1>2, <1>6 DEF SidecarInv, Entered
<1>8. CASE processed[sc.key] = S[s].epoch
  BY <1>7, <1>8, CarriedIsCurrent
<1>9. CASE processed[sc.key] # S[s].epoch
  BY <1>4, <1>5, <1>7, <1>9
<1>10. QED
  BY <1>8, <1>9

(* A key whose epoch is the one the daemon has processed carries the       *)
(* vector of the value it holds, whoever writes it while the daemon reads, *)
(* tokenizes, decodes and stores, as long as no key changes its slot.      *)
THEOREM DoneStaysCurrent ==
  ASSUME Undisturbed
  PROVE  SidecarSpec /\ KeysStay => []DoneIsCurrent
<1>1. SidecarInv => DoneIsCurrent
  BY DoneNow
<1>2. QED
  BY <1>1, SidecarInvariant, PTL

(* WAITING is cleared from a slot that carries the vector of its value, or *)
(* has been written since it did in this pass of the daemon.               *)
THEOREM WaitingMeansServed ==
  ASSUME Undisturbed
  PROVE  SidecarSpec /\ KeysStay => WaitingCleared
<1>1. SidecarInv /\ [SidecarNext]_allVars => [Clearing]_allVars
  BY ClearingStep
<1>2. QED
  BY <1>1, SidecarInvariant, PTL DEF SidecarSpec, WaitingCleared, Clearing

-----------------------------------------------------------------------------
(* Where the keys stay *)

(* A set comes to a slot that it has found free or its own. *)
SetOn(p) ==
  \/ pc'[p] \in Outside
  \/ /\ call'[p].key = call[p].key
     /\ pc'[p] \in Placing =>
          \/ /\ pc[p] = "probe" /\ call[p].i < Slots /\ Candidate(p, Phys(p))
             /\ call'[p].slot = Phys(p)
          \/ pc[p] \in Placing /\ call'[p].slot = call[p].slot

LEMMA SetMoves ==
  ASSUME Typed, NEW p \in Procs, Step(p), Op(p) = "set"
  PROVE  SetOn(p)
<1> USE SlotTyped
<1>1. ASSUME NEW rc, Return(p, rc)
      PROVE  SetOn(p)
  BY <1>1, ReturnStays DEF SetOn, Outside
<1>2. ASSUME NEW l, Then(p, l), l \in Placing => pc[p] \in Placing
      PROVE  SetOn(p)
  BY <1>2, ThenStays DEF SetOn
<1>3. ASSUME NEW l, NEW d, With(p, l, d), d.key = call[p].key,
             l \in Placing => pc[p] \in Placing /\ d.slot = call[p].slot
      PROVE  SetOn(p)
  BY <1>3, WithStays DEF SetOn
<1>4. CASE Probe(p)
  <2>1. CASE ProbeHit(p)
    <3> DEFINE d == [call[p] EXCEPT !.slot = Phys(p), !.sh = S[Phys(p)].hash]
    <3>1. /\ pc[p] = "probe" /\ call[p].i < Slots /\ Candidate(p, Phys(p)) /\ With(p, "found", d)
      BY <2>1 DEF ProbeHit
    <3>2. d.key = call[p].key /\ d.slot = Phys(p)
      BY DEF CallType
    <3> HIDE DEF d
    <3>3. pc'[p] = "found" /\ call'[p] = d
      BY <3>1, WithStays
    <3>4. QED
      BY <3>1, <3>2, <3>3 DEF SetOn
  <2>2. CASE ProbeNext(p)
    BY <1>3, <2>2 DEF ProbeNext, Placing, CallType
  <2>3. CASE ProbeEnd(p)
    BY <1>1, <2>3 DEF ProbeEnd
  <2>4. QED
    BY <1>4, <2>1, <2>2, <2>3 DEF Probe
<1>5. CASE Enter(p)
  <2>1. CASE LoadOdd(p) \/ CasLose(p)
    <3>1. GiveUpSlot(p)
      BY <2>1 DEF LoadOdd, CasLose
    <3>2. With(p, "probe", [call[p] EXCEPT !.busy = TRUE, !.i = @ + 1])
      BY <3>1 DEF GiveUpSlot
    <3>3. QED
      BY <1>3, <3>2 DEF Placing, CallType
  <2>2. CASE LoadEven(p)
    BY <1>3, <2>2 DEF LoadEven, Placing, CallType
  <2>3. CASE CasWin(p)
    BY <1>2, <2>3 DEF CasWin, Placing
  <2>4. QED
    BY <1>5, <2>1, <2>2, <2>3 DEF Enter
<1>6. CASE Write(p)
  <2>1. CASE SetScrub(p) \/ SetFill(p) \/ SetBlank(p) \/ SetLink(p) \/ AppendExtend(p) \/ SetEmbFirst(p)
             \/ SetEmbSecond(p) \/ PurgeSweep(p) \/ BumpPulse(p)
    BY <1>2, <2>1 DEF SetScrub, SetFill, SetBlank, SetLink, AppendExtend, SetEmbFirst, SetEmbSecond,
                      PurgeSweep, BumpPulse, Placing
  <2>2. CASE AppendRoom(p) \/ AppendTooLong(p)
    BY <1>3, <2>2 DEF AppendRoom, AppendTooLong, Placing, CallType
  <2>3. CASE CloseSlot(p)
    <3>1. Then(p, "pulse")
      BY <2>3 DEF CloseSlot
    <3>2. QED
      BY <1>2, <3>1 DEF Placing
  <2>4. QED
    BY <1>6, <2>1, <2>2, <2>3 DEF Write
<1>7. CASE Publish(p)
  <2>1. CASE Pulse(p)
    <3>1. Then(p, "epoch")
      BY <2>1 DEF Pulse
    <3>2. QED
      BY <1>2, <3>1 DEF Placing
  <2>2. CASE GlobalEpoch(p) \/ NotifySkip(p) \/ NotifyDirty(p) \/ NotifyBell(p)
    BY <1>1, <1>2, <2>2 DEF GlobalEpoch, NotifySkip, NotifyDirty, NotifyBell, Placing
  <2>3. QED
    BY <1>7, <2>1, <2>2 DEF Publish
<1>8. CASE Read(p) \/ Poll(p) \/ Unset(p) \/ Retrain(p) \/ Mark(p)
  BY <1>8 DEF Read, ReadLen, ReadCopy, ReadVerify, SnapOdd, SnapStart, SnapEnd, Poll, PollClock,
     PollMoved, PollTimeout, Unset, UnsetForget, UnsetWipe, UnsetRewind, UnsetReset, UnsetReopen,
     Retrain, RetrainOdd, RetrainZero, RetrainEven, Mark, SetLabel, UnsetLabel, PulseKeygroup,
     WatchRegister, WatchUnregister, Shape, Op
<1>9. QED
  BY <1>4, <1>5, <1>6, <1>7, <1>8 DEF Step

LEMMA KeptStays ==
  ASSUME KeptKeys, KeptKeys'
  PROVE  Staying
BY DEF KeptKeys, Staying, Seats

(* Only a set comes to the places where a slot is linked. *)
LEMMA FillOnly ==
  ASSUME Typed, NEW p \in Procs, Step(p), pc'[p] \in {"scrub", "fill", "blank", "link"}
  PROVE  (pc[p] = "cas" /\ Op(p) = "set") \/ pc[p] \in {"scrub", "fill", "blank"}
<1>1. \A rc : ~ Return(p, rc)
  BY ReturnStays
<1>2. \A l : Then(p, l) => l \in {"scrub", "fill", "blank", "link"}
  BY ThenStays
<1>3. \A l, d : With(p, l, d) => l \in {"scrub", "fill", "blank", "link"}
  BY WithStays
<1>4. ~ Probe(p)
  BY <1>1, <1>3 DEF Probe, ProbeHit, ProbeNext, ProbeEnd
<1>5. CASE Enter(p)
  <2>1. ~ GiveUpSlot(p)
    BY <1>1, <1>3 DEF GiveUpSlot
  <2>2. ~ LoadEven(p)
    BY <1>3 DEF LoadEven, AfterLoad
  <2>3. CasWin(p)
    BY <1>5, <2>1, <2>2 DEF Enter, LoadOdd, CasLose
  <2>4. AfterCas(p) \in {"scrub", "fill", "blank", "link"} /\ pc[p] = "cas"
    BY <1>2, <2>3 DEF CasWin
  <2>5. QED
    BY <2>4 DEF AfterCas
<1>6. CASE Write(p)
  <2>1. ~ CloseSlot(p)
    BY <1>1, <1>2, <1>3 DEF CloseSlot
  <2>2. QED
    BY <1>2, <1>3, <1>6, <2>1 DEF Write, SetScrub, SetFill, SetBlank, SetLink, AppendRoom, AppendTooLong,
       AppendExtend, SetEmbFirst, SetEmbSecond, PurgeSweep, BumpPulse
<1>7. ~ Publish(p)
  <2>1. ~ Pulse(p)
    BY <1>1, <1>2 DEF Pulse
  <2>2. QED
    BY <1>1, <1>2, <2>1 DEF Publish, GlobalEpoch, NotifySkip, NotifyDirty, NotifyBell
<1>8. ~ Read(p) /\ ~ Poll(p)
  <2>1. ~ SnapEnd(p)
    BY <1>1, <1>3 DEF SnapEnd
  <2>2. QED
    BY <1>1, <1>3, <2>1 DEF Read, ReadLen, ReadCopy, ReadVerify, SnapOdd, SnapStart, Poll,
       PollClock, PollMoved, PollTimeout
<1>9. ~ Unset(p) /\ ~ Retrain(p) /\ ~ Mark(p)
  BY <1>1, <1>2, <1>3 DEF Unset, UnsetForget, UnsetWipe, UnsetRewind, UnsetReset, UnsetReopen,
     Retrain, RetrainOdd, RetrainZero, RetrainEven, Mark, SetLabel, UnsetLabel, PulseKeygroup,
     WatchRegister, WatchUnregister
<1>10. QED
  BY <1>4, <1>5, <1>6, <1>7, <1>8, <1>9 DEF Step

(* A process's part of KeptKeys. *)
KeptCall(p) ==
  /\ pc[p] \in {"scrub", "fill", "blank", "link"} => Op(p) = "set"
  /\ p \in Clients /\ InCall(p) /\ Op(p) = "set" =>
       /\ \A s \in SlotIds : Layout[s] # NoKey
       /\ pc[p] \in Placing => Slot(p).hash = call[p].key

LEMMA KeptParts ==
  KeptKeys <=> (\A s \in SlotIds : S[s].hash = Layout[s]) /\ \A p \in Procs : KeptCall(p)
BY DEF KeptKeys, KeptCall, Clients

LEMMA KeptPartsNext ==
  KeptKeys' <=> (\A s \in SlotIds : S'[s].hash = Layout[s]) /\ \A p \in Procs : KeptCall(p)'
BY DEF KeptKeys, KeptCall, Clients, InCall, Op, Slot, At

(* No slot changes hands: the call of a process that stays where it is, *)
LEMMA KeptCallSame ==
  ASSUME Typed, NEW p \in Procs, KeptCall(p), pc'[p] = pc[p], call'[p] = call[p],
         \A s \in SlotIds : S'[s].hash = S[s].hash
  PROVE  KeptCall(p)'
<1>1. InCall(p) /\ pc[p] \in Placing => At(p) \in SlotIds
  BY SlotTyped DEF InCall, Placing, Outside
<1>2. QED
  BY <1>1 DEF KeptCall, InCall, Op, Slot, At

(* and of one that goes on. *)
LEMMA KeptCallStep ==
  ASSUME Typed, \A s \in SlotIds : S[s].hash = Layout[s] /\ S'[s].hash = Layout[s],
         NEW p \in Procs, KeptCall(p), Step(p)
  PROVE  KeptCall(p)'
<1>1. KeepsCall(p) /\ InCall(p)
  BY StepStays DEF InCall
<1>2. pc'[p] \in {"scrub", "fill", "blank", "link"} => Op(p)' = "set"
  BY <1>1, FillOnly DEF KeptCall, KeepsCall, Op, Outside
<1>3. ASSUME p \in Clients, InCall(p)', Op(p)' = "set"
      PROVE  /\ \A s \in SlotIds : Layout[s] # NoKey
             /\ pc'[p] \in Placing => S'[call'[p].slot].hash = call'[p].key
  <2>1. Op(p) = "set" /\ pc'[p] \notin Outside
    BY <1>1, <1>3 DEF KeepsCall, InCall, Op
  <2>2. SetOn(p) /\ call'[p].key = call[p].key /\ \A s \in SlotIds : Layout[s] # NoKey
    BY <1>1, <1>3, <2>1, SetMoves DEF SetOn, KeptCall
  <2>3. CASE pc[p] \in Placing /\ call'[p].slot = call[p].slot
    <3>1. call[p].slot \in SlotIds /\ S[call[p].slot].hash = call[p].key
      BY <1>1, <1>3, <2>1, <2>3, SlotTyped DEF KeptCall, Slot, At, Placing, Outside
    <3>2. QED
      BY <2>2, <2>3, <3>1
  <2>4. CASE /\ pc[p] = "probe" /\ call[p].i < Slots /\ Candidate(p, Phys(p))
             /\ call'[p].slot = Phys(p)
    <3>1. Phys(p) \in SlotIds
      BY <1>1, <2>4, PhysType DEF Outside
    <3>2. S[Phys(p)].hash = call[p].key
      BY <2>1, <2>2, <2>4, <3>1 DEF Candidate, Match
    <3>3. QED
      BY <2>2, <2>4, <3>1, <3>2
  <2>5. QED
    BY <2>1, <2>2, <2>3, <2>4 DEF SetOn
<1>4. QED
  BY <1>2, <1>3 DEF KeptCall, At, Slot

LEMMA KeptSame ==
  ASSUME SidecarInv, KeptKeys, S' = S, \A p \in Procs : KeptCall(p)'
  PROVE  KeptKeys'
BY KeptParts, KeptPartsNext

LEMMA KeptMain ==
  ASSUME SidecarInv, KeptKeys, Main
  PROVE  KeptKeys'
<1>1. sc.pc \in LocalPCs /\ ~ Marker /\ ~ Stamp /\ ~ Bump /\ ~ Marked
  <2>1. sc.pc \in LocalPCs
    BY InvParts DEF LocalType, LocalPCs
  <2>2. QED
    BY <2>1 DEF LocalPCs, Keyed, Reading, Marker, Stamp, Bump, Marked
<1>2. CASE UNCHANGED vars
  <2>1. S' = S /\ pc' = pc /\ call' = call
    BY <1>2 DEF vars
  <2>2. QED
    BY <2>1, InvParts, KeptParts, KeptCallSame, KeptSame
<1>3. ASSUME NEW c, Begin(Sidecar, c, 0)
      PROVE  KeptKeys'
  <2>0. Typed /\ Sidecar \in Procs /\ \A p \in Procs : KeptCall(p)
    BY InvParts, KeptParts
  <2>1. S' = S /\ OthersStay(Sidecar) /\ pc'[Sidecar] = "probe"
    BY <1>3, <2>0 DEF Begin, Goto, OthersStay, Typed, TypeOK
  <2>2. \A p \in Procs \ {Sidecar} : KeptCall(p)'
    BY <2>0, <2>1, KeptCallSame DEF OthersStay
  <2>3. KeptCall(Sidecar)'
    BY <2>1 DEF KeptCall, Clients
  <2>4. QED
    BY <2>1, <2>2, <2>3, KeptSame
<1>4. UNCHANGED vars \/ \E c : Begin(Sidecar, c, 0)
  BY <1>1 DEF Main, Look, Backfill, BackfillDone, Baseline, Listen, Notice, List, PassOver, Take,
     EndScan, ReadEpoch, RawPtr, Tokenize, Decode, Gate, Gated, Commit, Processed, Failed, Unlabel,
     PulseLane, NextKey
<1>5. QED
  BY <1>2, <1>3, <1>4

(* A step of a call: a set links a slot of its key. *)
LEMMA KeptCallOn ==
  ASSUME SidecarInv, KeptKeys, NEW p \in Procs, Step(p), Op(p) \notin Rewinds,
         p = Sidecar => ~ SetLink(p)
  PROVE  KeptKeys'
<1>1. Typed /\ OthersStay(p) /\ \A q \in Procs : KeptCall(q)
  BY InvParts, KeptParts, StepStays DEF KeepsCall
<1>2. \A s \in SlotIds : S'[s].hash = S[s].hash
  <2>1. CASE SetLink(p)
    <3>1. /\ S \in [SlotIds -> SlotType] /\ At(p) \in SlotIds /\ p \in Clients
          /\ InCall(p) /\ pc[p] = "link"
      BY <1>1, <2>1, SlotTyped DEF SetLink, Typed, TypeOK, Clients, InCall, Outside
    <3>2. S[At(p)].hash = call[p].key
      BY <1>1, <3>1 DEF KeptCall, Placing, Slot
    <3>3. QED
      BY <2>1, <3>1, <3>2 DEF SetLink, SlotType
  <2>2. CASE ~ SetLink(p)
    BY <1>1, <2>2, KeyedSame
  <2>3. QED
    BY <2>1, <2>2
<1>3. \A s \in SlotIds : S[s].hash = Layout[s] /\ S'[s].hash = Layout[s]
  BY <1>2 DEF KeptKeys
<1>4. KeptCall(p)'
  BY <1>1, <1>3, KeptCallStep
<1>5. \A q \in Procs \ {p} : KeptCall(q)'
  BY <1>1, <1>2, KeptCallSame DEF OthersStay
<1>6. QED
  BY <1>3, <1>4, <1>5, KeptPartsNext

LEMMA KeptCalling ==
  ASSUME SidecarInv, KeptKeys, Step(Sidecar)
  PROVE  KeptKeys'
<1>1. Op(Sidecar) \notin Rewinds
  BY OwnOp DEF Rewinds
<1>2. ~ SetLink(Sidecar)
  BY OwnOp DEF SetLink, Shape, Op, LockOps, Critical, Published
<1>3. QED
  BY <1>1, <1>2, SidecarAssumption, KeptCallOn

LEMMA KeptClient ==
  ASSUME Undisturbed, Settled, SidecarInv, KeptKeys, NEW p \in Clients, Client(p)
  PROVE  KeptKeys'
<1>1. Typed /\ p \in Procs /\ p # Sidecar /\ \A q \in Procs : KeptCall(q)
  BY InvParts, KeptParts DEF Clients
<1>2. CASE Step(p)
  <2>1. Op(p) \notin Rewinds
    BY <1>1, <1>2, StepStays DEF SidecarInv, Making, InCall
  <2>2. QED
    BY <1>1, <1>2, <2>1, KeptCallOn
<1>3. CASE ~ Step(p)
  <2>1. PICK c \in Calls[p], m \in Lens : Begin(p, c, m)
    BY <1>3 DEF Client
  <2>2. S' = S /\ OthersStay(p) /\ pc'[p] = "probe" /\ call'[p].op = c.op
    BY <1>1, <2>1 DEF Begin, Goto, OthersStay, Typed, TypeOK, Idle
  <2>3. c.op = "set" => \A s \in SlotIds : Layout[s] # NoKey
    BY DEF Settled
  <2>4. KeptCall(p)'
    BY <2>2, <2>3 DEF KeptCall, Op, Placing
  <2>5. \A q \in Procs \ {p} : KeptCall(q)'
    BY <1>1, <2>2, KeptCallSame DEF OthersStay
  <2>6. QED
    BY <2>2, <2>4, <2>5, KeptSame
<1>4. QED
  BY <1>2, <1>3

LEMMA KeptStep ==
  ASSUME Undisturbed, Settled, SidecarInv, KeptKeys, [SidecarNext]_allVars
  PROVE  KeptKeys'
<1>1. CASE UNCHANGED allVars
  <2>1. S' = S /\ pc' = pc /\ call' = call
    BY <1>1 DEF allVars, vars
  <2>2. QED
    BY <2>1, InvParts, KeptParts, KeptCallSame, KeptSame
<1>2. QED
  BY <1>1, KeptMain, KeptCalling, KeptClient DEF SidecarNext, Calling

LEMMA KeptInit ==
  ASSUME SidecarInit
  PROVE  KeptKeys
<1>1. Init /\ \A p \in Procs : pc[p] = "idle"
  BY DEF SidecarInit, Init
<1>2. ASSUME NEW s \in SlotIds
      PROVE  S[s].hash = Layout[s]
  <2>1. S[s] = IF Layout[s] = NoKey THEN Empty ELSE Stored(Layout[s])
    BY <1>1 DEF Init
  <2>2. CASE Layout[s] = NoKey
    BY <2>1, <2>2 DEF Empty
  <2>3. CASE Layout[s] # NoKey
    BY <2>1, <2>3 DEF Stored, Empty
  <2>4. QED
    BY <2>2, <2>3
<1>3. \A p \in Procs : KeptCall(p)
  BY <1>1 DEF KeptCall, InCall, Outside
<1>4. QED
  BY <1>2, <1>3, KeptParts

LEMMA SettledInvariant ==
  ASSUME Undisturbed, Settled
  PROVE  SidecarSpec => [](SidecarInv /\ KeptKeys)
<1>1. SidecarInit => SidecarInv /\ KeptKeys
  BY StartInv, KeptInit
<1>2. SidecarInv /\ KeptKeys /\ [SidecarNext]_allVars => SidecarInv' /\ KeptKeys'
  BY KeptStep, KeptStays, SidecarStep
<1>3. QED
  BY <1>1, <1>2, PTL DEF SidecarSpec

(* Where clients set only while no slot is empty, no key changes its slot: *)
(* the assumption of the theorems above.                                   *)
THEOREM SettledKeysStay ==
  ASSUME Undisturbed, Settled
  PROVE  SidecarSpec => KeysStay
<1>1. SidecarInv /\ KeptKeys /\ [SidecarNext]_allVars => [Staying]_allVars
  BY KeptStep, KeptStays
<1>2. QED
  BY <1>1, SettledInvariant, PTL DEF SidecarSpec, KeysStay

(* So there a key that counts as done carries the vector of its value, and *)
(* WAITING is cleared from it no sooner, in every behaviour.               *)
THEOREM SettledDone ==
  ASSUME Undisturbed, Settled
  PROVE  SidecarSpec => []DoneIsCurrent /\ WaitingCleared
BY SettledKeysStay, DoneStaysCurrent, WaitingMeansServed, PTL

=============================================================================
