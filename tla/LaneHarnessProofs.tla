-------------------------- MODULE LaneHarnessProofs --------------------------
(***************************************************************************)
(* What splinter_chi_sao.c promises, for every number of writers, readers, *)
(* keys and slots.                                                         *)
(***************************************************************************)
EXTENDS LaneHarness, SlotStoreProofs, FiniteSetTheorems

-----------------------------------------------------------------------------
(* The chain of a key goes through every slot, once. *)

LEMMA ModBelow ==
  ASSUME NEW n \in Nat \ {0}, NEW y \in 0 .. n - 1
  PROVE  y % n = y
OBVIOUS

LEMMA Divides ==
  ASSUME NEW x \in Int, NEW n \in Int, n > 0
  PROVE  x = (x \div n) * n + (x % n) /\ x % n \in 0 .. n - 1 /\ x \div n \in Int
OBVIOUS

LEMMA DividesNat ==
  ASSUME NEW x \in Nat, NEW n \in Nat \ {0}
  PROVE  x \div n \in Nat
OBVIOUS

LEMMA Parts ==
  ASSUME NEW w \in Nat, NEW j \in Nat, j <= w, NEW b \in Nat
  PROVE  w * b = j * b + (w - j) * b /\ (w - j) * b \in Nat /\ j * b \in Nat /\ w * b \in Nat
OBVIOUS

LEMMA OneLess ==
  ASSUME NEW j \in Nat, NEW b \in Nat
  PROVE  (j - 1) * b = j * b - b
OBVIOUS

LEMMA ModOver ==
  ASSUME NEW n \in Nat \ {0}, NEW y \in 0 .. n - 1
  PROVE  (y + n) % n = y
<1> DEFINE q == (y + n) \div n
           r == (y + n) % n
<1>1. y + n = q * n + r /\ r \in 0 .. n - 1 /\ q \in Nat
  <2>1. y + n \in Nat /\ y + n \in Int /\ n \in Int /\ n > 0
    OBVIOUS
  <2>2. QED
    BY <2>1, Divides, DividesNat
<1> HIDE DEF q, r
<1>2. q = 1
  <2>1. CASE q = 0
    BY <1>1, <2>1
  <2>2. CASE q >= 2
    <3>1. q * n = 2 * n + (q - 2) * n /\ (q - 2) * n \in Nat
      BY <1>1, <2>2, Parts
    <3>2. QED
      BY <1>1, <3>1
  <2>3. QED
    BY <1>1, <2>1, <2>2
<1>3. r = y
  BY <1>1, <1>2
<1>4. QED
  BY <1>3 DEF r

LEMMA ChainAt ==
  ASSUME NEW k \in Keys, NEW d \in 0 .. Slots - 1
  PROVE  /\ Home[k] \in 0 .. Slots - 1 /\ Slots \in Nat \ {0}
         /\ Chain(k, d) = IF Home[k] + d < Slots THEN Home[k] + d ELSE Home[k] + d - Slots
<1>1. Home[k] \in 0 .. Slots - 1 /\ Slots \in Nat \ {0}
  BY HomeAssumption, SlotsAssumption DEF SlotIds
<1>2. CASE Home[k] + d < Slots
  <2>1. Home[k] + d \in 0 .. Slots - 1
    BY <1>1, <1>2
  <2>2. QED
    BY <1>1, <1>2, <2>1, ModBelow DEF Chain
<1>3. CASE ~ Home[k] + d < Slots
  <2> DEFINE y == Home[k] + d - Slots
  <2>1. y \in 0 .. Slots - 1 /\ y + Slots = Home[k] + d
    BY <1>1, <1>3
  <2> HIDE DEF y
  <2>2. (y + Slots) % Slots = y
    BY <1>1, <2>1, ModOver
  <2>3. QED
    BY <1>1, <1>3, <2>1, <2>2 DEF Chain, y
<1>4. QED
  BY <1>1, <1>2, <1>3

LEMMA ChainOnce ==
  ASSUME NEW k \in Keys, NEW d \in 0 .. Slots - 1, NEW e \in 0 .. Slots - 1, Chain(k, d) = Chain(k, e)
  PROVE  d = e
<1>1. Chain(k, e) = IF Home[k] + e < Slots THEN Home[k] + e ELSE Home[k] + e - Slots
  BY ChainAt
<1>2. QED
  BY <1>1, ChainAt

LEMMA ChainIn ==
  ASSUME NEW k \in Keys, NEW d \in 0 .. Slots - 1
  PROVE  Chain(k, d) \in SlotIds
BY ChainAt DEF SlotIds

LEMMA ChainCovers ==
  ASSUME NEW k \in Keys, NEW s \in SlotIds
  PROVE  \E d \in 0 .. Slots - 1 : Chain(k, d) = s
<1>1. Home[k] \in 0 .. Slots - 1 /\ Slots \in Nat \ {0} /\ s \in 0 .. Slots - 1
  BY HomeAssumption, SlotsAssumption DEF SlotIds
<1> DEFINE d == IF s >= Home[k] THEN s - Home[k] ELSE s - Home[k] + Slots
<1>2. d \in 0 .. Slots - 1
  BY <1>1
<1>3. s = IF Home[k] + d < Slots THEN Home[k] + d ELSE Home[k] + d - Slots
  BY <1>1
<1> HIDE DEF d
<1>4. Chain(k, d) = s
  BY <1>1, <1>2, <1>3, ChainAt
<1>5. QED
  BY <1>2, <1>4

-----------------------------------------------------------------------------
(* The lanes do not overlap. *)

LEMMA LanesApart ==
  ASSUME NEW j \in DOMAIN Writers, NEW m \in DOMAIN Writers, j < m,
         NEW i \in Lane(j)
  PROVE  i \notin Lane(m)
<1> DEFINE base == Len(KeySeq) \div Len(Writers)
<1>1. /\ Len(KeySeq) \in Nat /\ Len(Writers) \in Nat \ {0} /\ base \in Nat
      /\ j \in 1 .. Len(Writers) /\ m \in 1 .. Len(Writers)
  BY HarnessAssumption
<1>2. i \in (j - 1) * base + 1 .. j * base
  BY <1>1 DEF Lane
<1>3. \A x \in Lane(m) : x \in Int /\ x >= (m - 1) * base + 1
  <2>1. (m - 1) * base + 1 \in Int /\ m * base \in Int
    BY <1>1
  <2>2. QED
    BY <1>1, <2>1 DEF Lane
<1> HIDE DEF base
<1>4. j * base <= (m - 1) * base
  <2>1. (m - 1) * base = j * base + (m - 1 - j) * base
    BY <1>1
  <2>2. (m - 1 - j) * base \in Nat /\ j * base \in Int
    BY <1>1
  <2>3. QED
    BY <2>1, <2>2
<1>5. i \in Int /\ i <= j * base /\ j * base \in Int /\ (m - 1) * base \in Int
  <2>1. j * base \in Int /\ (j - 1) * base \in Int /\ (m - 1) * base \in Int
    BY <1>1
  <2>2. QED
    BY <1>2, <2>1
<1>6. QED
  BY <1>3, <1>4, <1>5

LEMMA LaneInKeys ==
  ASSUME NEW j \in DOMAIN Writers
  PROVE  /\ Lane(j) \subseteq DOMAIN KeySeq
         /\ Lane(j) # {}
<1> DEFINE base == Len(KeySeq) \div Len(Writers)
           w == Len(Writers)
           n == Len(KeySeq)
           r == n % w
           low == (j - 1) * base
           top == IF j = w THEN n ELSE j * base
<1>1. n \in Nat /\ w \in Nat \ {0} /\ j \in 1 .. w /\ n >= w /\ DOMAIN KeySeq = 1 .. n
  BY HarnessAssumption
<1>2. base \in Nat /\ n = base * w + r /\ r \in 0 .. w - 1
  <2>1. n \in Int /\ w \in Int /\ w > 0
    BY <1>1
  <2>2. QED
    BY <1>1, <2>1, Divides, DividesNat
<1>3. Lane(j) = low + 1 .. top
  BY DEF Lane
<1>4. /\ low = j * base - base /\ j * base \in Nat
      /\ w * base = j * base + (w - j) * base /\ (w - j) * base \in Nat
  <2>1. j \in Nat /\ w \in Nat /\ j <= w
    BY <1>1
  <2>2. low = j * base - base
    BY <1>2, <2>1, OneLess
  <2>3. QED
    BY <1>2, <2>1, <2>2, Parts
<1>5. low \in Nat
  <2>1. (j - 1) * base \in Nat
    <3>1. j - 1 \in Nat /\ j - 1 <= j /\ j \in Nat
      BY <1>1
    <3>2. QED
      BY <1>2, <3>1, Parts
  <2>2. QED
    BY <2>1
<1> HIDE DEF r, low, n, w
<1>6. base # 0
  <2>1. ASSUME base = 0
        PROVE  FALSE
    <3>1. base * w = 0
      BY <1>1, <2>1
    <3>2. QED
      BY <1>1, <1>2, <3>1
  <2>2. QED
    BY <2>1
<1> HIDE DEF base
<1>7. w * base \in Nat /\ base * w = w * base
  BY <1>1, <1>2
<1> DEFINE x == w * base
           y == j * base
           z == (w - j) * base
<1>8. n = x + r /\ x = y + z /\ z \in Nat /\ y = low + base
  BY <1>2, <1>4, <1>7
<1> HIDE DEF x, y, z
<1>9. top \in Int /\ top <= n /\ top >= low + 1
  <2>1. top = n \/ top = y
    BY DEF y
  <2>2. x \in Nat /\ y \in Nat
    BY <1>4, <1>7 DEF x, y
  <2>3. QED
    BY <1>1, <1>2, <1>5, <1>6, <1>8, <2>1, <2>2
<1> HIDE DEF top
<1>10. Lane(j) \subseteq 1 .. n /\ low + 1 \in Lane(j)
  BY <1>1, <1>3, <1>5, <1>9
<1>11. QED
  BY <1>1, <1>10

(* A writer has one lane, *)
LEMMA WriterLane ==
  ASSUME Dealt, NEW j \in DOMAIN Writers
  PROVE  IsWriter(Writers[j]) /\ LaneOf(Writers[j]) = Lane(j)
<1>1. \A m \in DOMAIN Writers : Writers[m] = Writers[j] => m = j
  BY DEF Dealt, IsInjective
<1>2. (CHOOSE m \in DOMAIN Writers : Writers[m] = Writers[j]) = j
  BY <1>1
<1>3. QED
  BY <1>2 DEF IsWriter, LaneOf

LEMMA WriterIs ==
  ASSUME Dealt, NEW p, IsWriter(p)
  PROVE  /\ p \in Procs /\ p # Main /\ p \notin Readers
         /\ \E j \in DOMAIN Writers : p = Writers[j] /\ LaneOf(p) = Lane(j)
         /\ LaneOf(p) \subseteq DOMAIN KeySeq /\ LaneOf(p) # {} /\ First(p) \in LaneOf(p)
<1>1. PICK j \in DOMAIN Writers : Writers[j] = p
  BY DEF IsWriter
<1>2. LaneOf(p) = Lane(j)
  BY <1>1, WriterLane
<1>3. p \in Procs /\ p # Main /\ p \notin Readers
  BY <1>1, HarnessAssumption DEF Dealt
<1>4. LaneOf(p) \subseteq DOMAIN KeySeq /\ LaneOf(p) # {}
  BY <1>2, LaneInKeys
<1>5. First(p) \in LaneOf(p)
  <2>1. \E i \in LaneOf(p) : \A k \in LaneOf(p) : i <= k
    <3> DEFINE base == Len(KeySeq) \div Len(Writers)
               i == (j - 1) * base + 1
    <3>1. Len(KeySeq) \in Nat /\ Len(Writers) \in Nat \ {0} /\ base \in Nat /\ j \in Nat
      BY HarnessAssumption
    <3>2. i \in Int
      BY <3>1
    <3>3. PICK top : Lane(j) = i .. top /\ top \in Int
      <4>1. Lane(j) = i .. IF j = Len(Writers) THEN Len(KeySeq) ELSE j * base
        BY DEF Lane
      <4>2. j * base \in Int
        BY <3>1
      <4>3. QED
        BY <3>1, <4>1, <4>2
    <3> HIDE DEF i
    <3>4. i \in LaneOf(p)
      BY <1>2, <1>4, <3>2, <3>3
    <3>5. QED
      BY <1>2, <3>2, <3>3, <3>4
  <2>2. QED
    BY <2>1 DEF First
<1>6. QED
  BY <1>1, <1>2, <1>3, <1>4, <1>5

(* and a key one writer. *)
LEMMA LanesOwn ==
  ASSUME Dealt, NEW p, NEW q, IsWriter(p), IsWriter(q), p # q,
         NEW i \in LaneOf(p), NEW m \in LaneOf(q)
  PROVE  KeySeq[i] # KeySeq[m]
<1>1. PICK a \in DOMAIN Writers : p = Writers[a] /\ LaneOf(p) = Lane(a)
  BY WriterIs
<1>2. PICK b \in DOMAIN Writers : q = Writers[b] /\ LaneOf(q) = Lane(b)
  BY WriterIs
<1>3. a \in Nat /\ b \in Nat /\ a # b
  BY <1>1, <1>2, HarnessAssumption
<1>4. i # m
  <2>1. CASE a < b
    BY <1>1, <1>2, <2>1, LanesApart
  <2>2. CASE b < a
    BY <1>1, <1>2, <2>2, LanesApart
  <2>3. QED
    BY <1>3, <2>1, <2>2
<1>5. i \in DOMAIN KeySeq /\ m \in DOMAIN KeySeq
  BY WriterIs
<1>6. QED
  BY <1>4, <1>5 DEF Dealt, IsInjective

-----------------------------------------------------------------------------
(* The harness runs the slot table, and calls nothing but set and get. *)

LEMMA DealtPlain ==
  ASSUME Dealt
  PROVE  Plain /\ RewindsAreQuiet
<1>1. ASSUME NEW p \in Procs, NEW c \in Calls[p]
      PROVE  c.op \in {"set", "get"}
  <2>1. Calls[p] = [op : {"set", "get"}, key : Keys]
    BY DEF Dealt
  <2>2. QED
    BY <2>1
<1>2. {"set", "get"} \cap Rewinds = {}
  BY DEF Rewinds
<1>3. QED
  BY <1>1, <1>2 DEF Dealt, Plain, RewindsAreQuiet

LEMMA CallOnBegins ==
  ASSUME Dealt, NEW p \in Procs, NEW o \in {"set", "get"}, CallOn(p, o),
         t'[p].i \in DOMAIN KeySeq
  PROVE  \E c \in Calls[p], m \in Lens :
           Begin(p, c, m) /\ c.op = o /\ c.key = KeySeq[t'[p].i] /\ c.key \in Keys
<1>1. PICK n \in Lens : Begin(p, [op |-> o, key |-> KeySeq[t'[p].i]], n)
  BY DEF CallOn
<1>2. KeySeq[t'[p].i] \in Keys
  BY HarnessAssumption
<1>3. [op |-> o, key |-> KeySeq[t'[p].i]] \in Calls[p]
  BY <1>2 DEF Dealt
<1>4. QED
  BY <1>1, <1>2, <1>3

(* A step of the harness that begins a call, *)
Calling(p, o) ==
  /\ \E a \in {"seed", "set", "get"}, i \in DOMAIN KeySeq : t' = [t EXCEPT ![p].at = a, ![p].i = i]
  /\ t'[p].i \in DOMAIN KeySeq
  /\ CallOn(p, o)
  /\ \/ p = Main /\ o = "set" /\ t[p].at = "seed" /\ t[p].i < Len(KeySeq)
        /\ t'[p].at = "seed" /\ t'[p].i = t[p].i + 1
     \/ IsWriter(p) /\ o = "set" /\ t[p].at = "loop" /\ t'[p].at = "set" /\ t'[p].i = t[p].i
     \/ p \in Readers /\ o = "get" /\ t[p].at \in {"loop", "retry"} /\ t'[p].at = "get"

LEMMA CallingStep ==
  ASSUME Dealt, Threads, NEW p \in Procs, Placed(p), Seed \/ Write1(p) \/ Sample(p) \/ Retry(p)
  PROVE  \E q \in Procs, o \in {"set", "get"} : Calling(q, o) /\ UNCHANGED << running, observed >>
<1> USE DEF Threads
<1>1. CASE Seed
  <2>1. t[Main].i + 1 \in DOMAIN KeySeq
    BY <1>1, HarnessAssumption DEF Seed
  <2>2. t' = [t EXCEPT ![Main].at = "seed", ![Main].i = t[Main].i + 1]
    BY <1>1, HarnessAssumption DEF Seed
  <2>3. t'[Main].at = "seed" /\ t'[Main].i = t[Main].i + 1
    BY <2>2, HarnessAssumption
  <2>4. QED
    BY <1>1, <2>1, <2>2, <2>3, HarnessAssumption DEF Seed, Calling
<1>2. CASE Write1(p)
  <2>1. t[p].i \in DOMAIN KeySeq
    BY <1>2, WriterIs DEF Write1, Placed
  <2>2. t' = [t EXCEPT ![p].at = "set", ![p].i = t[p].i]
    BY <1>2 DEF Write1, To
  <2>3. t'[p].at = "set" /\ t'[p].i = t[p].i
    BY <2>2
  <2>4. \E a \in {"seed", "set", "get"}, i \in DOMAIN KeySeq : t' = [t EXCEPT ![p].at = a, ![p].i = i]
    BY <2>1, <2>2
  <2>5. CallOn(p, "set") /\ UNCHANGED << running, observed >>
    BY <1>2 DEF Write1
  <2>6. QED
    BY <1>2, <2>1, <2>2, <2>3, <2>4, <2>5 DEF Write1, Calling
<1>3. CASE Sample(p)
  <2>1. PICK i \in DOMAIN KeySeq : t' = [t EXCEPT ![p].at = "get", ![p].i = i]
    BY <1>3 DEF Sample
  <2>2. t'[p].at = "get" /\ t'[p].i = i
    BY <2>1
  <2>3. \E a \in {"seed", "set", "get"}, j \in DOMAIN KeySeq : t' = [t EXCEPT ![p].at = a, ![p].i = j]
    BY <2>1
  <2>4. CallOn(p, "get") /\ UNCHANGED << running, observed >>
    BY <1>3 DEF Sample
  <2>5. QED
    BY <1>3, <2>1, <2>2, <2>3, <2>4 DEF Sample, Calling
<1>4. CASE Retry(p)
  <2>1. t[p].i \in DOMAIN KeySeq /\ p \in Readers
    BY <1>4, HarnessAssumption DEF Retry, Placed
  <2>2. t' = [t EXCEPT ![p].at = "get", ![p].i = t[p].i]
    BY <1>4 DEF Retry, To
  <2>3. t'[p].at = "get" /\ t'[p].i = t[p].i
    BY <2>2
  <2>4. \E a \in {"seed", "set", "get"}, i \in DOMAIN KeySeq : t' = [t EXCEPT ![p].at = a, ![p].i = i]
    BY <2>1, <2>2
  <2>5. CallOn(p, "get") /\ UNCHANGED << running, observed >>
    BY <1>4 DEF Retry
  <2>6. QED
    BY <1>4, <2>1, <2>2, <2>3, <2>4, <2>5 DEF Retry, Calling
<1>5. QED
  BY <1>1, <1>2, <1>3, <1>4

LEMMA HarnessStep ==
  ASSUME Dealt, LaneInv, [HarnessNext]_laneVars
  PROVE  [Next]_vars
<1>1. CASE UNCHANGED laneVars
  BY <1>1 DEF laneVars
<1>2. ASSUME NEW q \in Procs, NEW o \in {"set", "get"}, Calling(q, o)
      PROVE  Next
  BY <1>2, CallOnBegins DEF Calling, Next
<1>3. Main \in Procs /\ Threads /\ \A p \in Procs : Placed(p)
  BY HarnessAssumption DEF LaneInv
<1>4. CASE Seed
  BY <1>2, <1>3, <1>4, CallingStep
<1>5. CASE Seeded \/ Stop \/ Join
  BY <1>5 DEF Seeded, Stop, Join, Back
<1>6. ASSUME NEW p \in Procs, Thread(p)
      PROVE  Next \/ UNCHANGED vars
  <2>1. CASE Write1(p) \/ Sample(p) \/ Retry(p)
    BY <1>2, <1>3, <2>1, CallingStep
  <2>2. CASE Create(p) \/ Written(p) \/ Read1(p) \/ Leave(p)
    BY <2>2 DEF Create, Written, Read1, Leave, Back
  <2>3. QED
    BY <1>6, <2>1, <2>2 DEF Thread
<1>7. ASSUME NEW p \in Procs, Step(p)
      PROVE  Next
  BY <1>7 DEF Next
<1>8. QED
  BY <1>1, <1>4, <1>5, <1>6, <1>7 DEF HarnessNext

-----------------------------------------------------------------------------
(* Who is in the library: the main thread alone, then writers and readers. *)

LEMMA SeedAlone ==
  ASSUME LaneInv, NEW p \in Procs, InCall(p), Seeding
  PROVE  p = Main /\ Op(p) = "set"
<1>1. Placed(p)
  BY DEF LaneInv
<1>2. pc[p] # "idle"
  BY DEF InCall, Outside
<1>3. QED
  BY <1>1, <1>2 DEF Placed, Seeding

LEMMA Busy ==
  ASSUME LaneInv, NEW p \in Procs, InCall(p)
  PROVE  /\ Op(p) \in {"set", "get"} /\ call[p].key \in Keys /\ call[p].key # NoKey
         /\ \E i \in DOMAIN KeySeq : call[p].key = KeySeq[i]
         /\ ~ Seeding /\ Op(p) = "set" =>
              IsWriter(p) /\ \E i \in LaneOf(p) : call[p].key = KeySeq[i]
         /\ ~ Seeding /\ Op(p) = "get" => t[p].at = "get" /\ p \in Readers
<1>1. Placed(p)
  BY DEF LaneInv
<1>2. pc[p] # "idle"
  BY DEF InCall, Outside
<1>3. call[p].key \in Keys
  BY <1>1, HarnessAssumption DEF Placed
<1>4. ~ Seeding => t[p].at \in {"set", "get"}
  BY <1>1, <1>2 DEF Placed, Seeding
<1>5. QED
  BY <1>1, <1>3, <1>4, KeysAssumption DEF Placed

LEMMA Two ==
  ASSUME LaneInv, NEW p \in Procs, NEW q \in Procs, p # q, InCall(p), InCall(q)
  PROVE  ~ Seeding
BY SeedAlone

(* Two writers are never in one slot. *)
LEMMA SlotsApart ==
  ASSUME Dealt, LaneInv, NEW p \in Procs, NEW q \in Procs, p # q, InCall(p), InCall(q),
         Op(p) = "set", Op(q) = "set", pc[p] # "probe", pc[q] # "probe"
  PROVE  At(p) # At(q)
<1>1. ~ Seeding
  BY Two
<1>2. Slot(p).hash = call[p].key /\ Slot(q).hash = call[q].key
  BY <1>1 DEF LaneInv, Hits
<1>3. PICK i \in LaneOf(p) : call[p].key = KeySeq[i] /\ IsWriter(p)
  BY <1>1, Busy
<1>4. PICK m \in LaneOf(q) : call[q].key = KeySeq[m] /\ IsWriter(q)
  BY <1>1, Busy
<1>5. call[p].key # call[q].key
  BY <1>3, <1>4, LanesOwn
<1>6. QED
  BY <1>2, <1>5 DEF Slot

-----------------------------------------------------------------------------
(* What a step of a set or a get is. *)

LEMMA SetGetSteps ==
  ASSUME Typed, NEW p \in Procs, Step(p), Kept(p), Op(p) \in {"set", "get"}
  PROVE  \/ Probe(p) \/ Enter(p) \/ CloseSlot(p) \/ Publish(p)
         \/ SetScrub(p) \/ SetFill(p) \/ SetBlank(p) \/ SetLink(p)
         \/ ReadLen(p) \/ ReadCopy(p) \/ ReadVerify(p)
<1>1. Shape(pc[p], call[p]) /\ Regular(p)
  BY SlotTyped DEF Kept
<1>2. ~ (AppendRoom(p) \/ AppendTooLong(p) \/ AppendExtend(p))
  BY <1>1 DEF Regular, AppendRoom, AppendTooLong, AppendExtend
<1>3. ~ (SetEmbFirst(p) \/ SetEmbSecond(p) \/ PurgeSweep(p) \/ BumpPulse(p))
  BY <1>1 DEF Regular, SetEmbFirst, SetEmbSecond, PurgeSweep, BumpPulse
<1>4. ~ (SnapOdd(p) \/ SnapStart(p) \/ SnapEnd(p))
  BY DEF SnapOdd, SnapStart, SnapEnd
<1>5. ~ Poll(p)
  BY <1>1 DEF Shape, Op, Poll, PollClock, PollMoved, PollTimeout
<1>6. ~ Unset(p)
  BY <1>1 DEF Shape, Op, Unset, UnsetForget, UnsetWipe, UnsetRewind, UnsetReset, UnsetReopen
<1>7. ~ Retrain(p)
  BY <1>1 DEF Shape, Op, Retrain, RetrainOdd, RetrainZero, RetrainEven
<1>8. ~ Mark(p)
  BY DEF Mark, SetLabel, UnsetLabel, PulseKeygroup, WatchRegister, WatchUnregister
<1>9. QED
  BY <1>2, <1>3, <1>4, <1>5, <1>6, <1>7, <1>8 DEF Step, Write, Read

(* The chain of a key is what the probe follows. *)
LEMMA PhysIs ==
  ASSUME NEW p \in Procs, Op(p) \in {"set", "get"}
  PROVE  Phys(p) = Chain(call[p].key, call[p].i)
BY DEF Phys, Chain

(* A key of the table is met before a free slot, and before the end. *)
LEMMA Reaches ==
  ASSUME LaneInv, Typed, NEW p \in Procs, InCall(p), call[p].i < Slots,
         Op(p) = "set", Stands(call[p].key)
  PROVE  S[Chain(call[p].key, call[p].i)].hash # NoKey
<1> DEFINE k == call[p].key
           i == call[p].i
<1>0. Walks(p) /\ call[p].i \in 0 .. Slots /\ Slots \in Nat
  BY SlotsAssumption DEF LaneInv, Walks
<1>1. k \in Keys /\ i \in 0 .. Slots - 1 /\ Walks(p)
  BY <1>0, Busy
<1>2. PICK s \in SlotIds : S[s].hash = k
  BY DEF Stands
<1>3. PICK d \in 0 .. Slots - 1 : Chain(k, d) = s
  BY <1>1, ChainCovers
<1>4. i <= d
  BY <1>1, <1>2, <1>3 DEF Walks
<1>5. \A j \in 0 .. d : S[Chain(k, j)].hash # NoKey
  BY <1>1, <1>2, <1>3 DEF LaneInv, Tabled
<1>6. QED
  BY <1>1, <1>4, <1>5

LEMMA Ended ==
  ASSUME LaneInv, Typed, NEW p \in Procs, InCall(p), Op(p) = "set", call[p].i = Slots
  PROVE  /\ ~ Stands(call[p].key)
         /\ \A s \in SlotIds : S[s].hash \notin {NoKey, call[p].key}
<1>1. call[p].key \in Keys /\ Walks(p)
  BY Busy DEF LaneInv
<1>2. ASSUME NEW s \in SlotIds
      PROVE  S[s].hash \notin {NoKey, call[p].key}
  <2>1. PICK d \in 0 .. Slots - 1 : Chain(call[p].key, d) = s
    BY <1>1, ChainCovers
  <2>2. QED
    BY <1>1, <2>1 DEF Walks
<1>3. QED
  BY <1>2 DEF Stands

LEMMA CountFrom ==
  ASSUME NEW n \in Nat
  PROVE  /\ IsFiniteSet(1 .. n) /\ Cardinality(1 .. n) = n
         /\ IsFiniteSet(0 .. n - 1) /\ Cardinality(0 .. n - 1) = n
<1>1. 0 \in Int /\ 1 \in Int /\ n \in Int /\ n - 1 \in Int
  OBVIOUS
<1>2. IsFiniteSet(1 .. n) /\ Cardinality(1 .. n) = IF 1 > n THEN 0 ELSE n - 1 + 1
  BY <1>1, FS_Interval
<1>3. IsFiniteSet(0 .. n - 1) /\ Cardinality(0 .. n - 1) = IF 0 > n - 1 THEN 0 ELSE n - 1 - 0 + 1
  BY <1>1, FS_Interval
<1>4. QED
  BY <1>2, <1>3

(* There are fewer other keys than slots: a set finds one. *)
LEMMA RoomLeft ==
  ASSUME Dealt, LaneInv, Typed, NEW p \in Procs, InCall(p), Op(p) = "set"
  PROVE  call[p].i # Slots
<1> SUFFICES ASSUME call[p].i = Slots
             PROVE  FALSE
  OBVIOUS
<1>1. PICK m \in DOMAIN KeySeq : call[p].key = KeySeq[m]
  BY Busy
<1>2. CASE ~ Seeding
  <2>1. Stands(call[p].key)
    BY <1>1, <1>2 DEF LaneInv, Tabled
  <2>2. QED
    BY <2>1, Ended
<1>3. CASE Seeding
  <2>1. \A s \in SlotIds : S[s].hash \notin {NoKey, call[p].key}
    BY <1>3, SeedAlone, Ended
  <2>2. Len(KeySeq) \in Nat /\ DOMAIN KeySeq = 1 .. Len(KeySeq) /\ Slots \in Nat /\ Len(KeySeq) <= Slots
    BY HarnessAssumption, SlotsAssumption DEF Dealt
  <2> DEFINE T == (1 .. Len(KeySeq)) \ {m}
             f == [s \in SlotIds |-> CHOOSE i \in T : S[s].hash = KeySeq[i]]
  <2>3. ASSUME NEW s \in SlotIds
        PROVE  \E i \in T : S[s].hash = KeySeq[i]
    BY <1>1, <2>1, <2>2 DEF LaneInv, Tabled
  <2>4. ASSUME NEW s \in SlotIds
        PROVE  f[s] \in T /\ S[s].hash = KeySeq[f[s]]
    BY <2>3
  <2>5. IsFiniteSet(T) /\ Cardinality(T) = Len(KeySeq) - 1
    <3>1. IsFiniteSet(1 .. Len(KeySeq)) /\ Cardinality(1 .. Len(KeySeq)) = Len(KeySeq)
      BY <2>2, CountFrom
    <3>2. Cardinality(T) = Cardinality(1 .. Len(KeySeq)) - 1 /\ IsFiniteSet(T)
      BY <1>1, <2>2, <3>1, FS_RemoveElement
    <3>3. QED
      BY <3>1, <3>2
  <2>6. IsFiniteSet(SlotIds) /\ Cardinality(SlotIds) = Slots
    BY <2>2, CountFrom DEF SlotIds
  <2>7. f \in [SlotIds -> T]
    BY <2>4
  <2> HIDE DEF f, T
  <2>8. PICK r \in SlotIds, s \in SlotIds : r # s /\ f[r] = f[s]
    <3>1. Cardinality(T) < Cardinality(SlotIds)
      BY <2>2, <2>5, <2>6
    <3>2. QED
      BY <2>5, <2>6, <2>7, <3>1, FS_PigeonHole
  <2>9. S[r].hash = S[s].hash /\ S[s].hash # NoKey
    BY <2>1, <2>4, <2>8
  <2>10. QED
    BY <2>8, <2>9 DEF LaneInv, Tabled
<1>4. QED
  BY <1>2, <1>3

LEMMA LinParts ==
  ASSUME LinInv
  PROVE  Typed /\ IInv /\ SeqlockOwner /\ \A p \in Procs : Kept(p)
BY DEF LinInv, IInv, Typed, Kept

LEMMA WriterSets ==
  ASSUME LaneInv, LinInv, NEW p \in Procs, pc[p] \in {"cas"} \cup Critical
  PROVE  InCall(p) /\ Op(p) = "set" /\ pc[p] # "probe"
<1>1. InCall(p) /\ pc[p] # "probe"
  BY DEF InCall, Outside, Critical
<1>2. Op(p) \in {"set", "get"}
  BY <1>1, Busy
<1>3. Shape(pc[p], call[p])
  BY LinParts, SlotTyped
<1>4. Op(p) \in LockOps \cup {"retrain"}
  BY <1>3 DEF Shape, Op, Critical
<1>5. QED
  BY <1>1, <1>2, <1>4 DEF LockOps

(* No set meets another in its slot: its CAS cannot fail. *)
LEMMA SetEnters ==
  ASSUME Dealt, StrongCAS, LaneInv, LinInv, NEW p \in Procs, InCall(p), Op(p) = "set", pc[p] \in {"found", "cas"}
  PROVE  ~ LoadOdd(p) /\ ~ CasLose(p)
<1>1. ~ Odd(Slot(p).epoch)
  <2>1. SUFFICES ASSUME Odd(Slot(p).epoch)
                 PROVE  FALSE
    OBVIOUS
  <2>2. At(p) \in SlotIds
    BY LinParts, SlotTyped
  <2>3. PICK q \in Procs : Holds(q, At(p)) \/ (pc[q] = "killed" /\ At(q) = At(p))
    BY <2>1, <2>2, LinParts DEF SeqlockOwner, Slot
  <2>4. Holds(q, At(p))
    BY <2>3, LinParts DEF Kept, Regular
  <2>5. InCall(q) /\ Op(q) = "set" /\ pc[q] # "probe"
    BY <2>4, WriterSets DEF Holds
  <2>6. p # q /\ pc[p] # "probe"
    BY <2>4 DEF Holds, Critical
  <2>7. QED
    BY <2>4, <2>5, <2>6, SlotsApart DEF Holds
<1>2. pc[p] = "cas" => call[p].e = Slot(p).epoch
  BY DEF LaneInv, Hits
<1>3. QED
  BY <1>1, <1>2 DEF LoadOdd, CasLose, StrongCAS

(* A call that has reached its slot stays on it, until it ends. *)
Onward(p) ==
  /\ pc[p] \notin Outside \cup {"probe"} /\ pc'[p] \notin Outside \cup {"probe"}
  /\ call'[p].op = call[p].op /\ call'[p].key = call[p].key
  /\ call'[p].i = call[p].i /\ call'[p].slot = call[p].slot /\ call'[p].busy = call[p].busy
  /\ Op(p) = "set" => call'[p].n = call[p].n
  /\ pc'[p] = "cas" => pc[p] = "found" /\ call'[p].e = Slot(p).epoch
  /\ UNCHANGED << ret, left >>

Over(p) ==
  /\ UNCHANGED S /\ pc'[p] = "idle"
  /\ Op(p) = "set" => pc[p] \in {"dirty", "bell"} /\ Return(p, "ok")
  /\ Op(p) = "get" => \/ pc[p] = "probe" /\ Return(p, "miss")
                      \/ pc[p] = "found" /\ Return(p, "busy")
                      \/ pc[p] = "copy" /\ ReadVerify(p)

LEMMA OnwardWith ==
  ASSUME Typed, NEW p \in Procs, NEW l, NEW c, With(p, l, c),
         pc[p] \notin Outside \cup {"probe"}, l \notin Outside \cup {"probe"},
         c.op = call[p].op, c.key = call[p].key, c.i = call[p].i, c.slot = call[p].slot,
         c.busy = call[p].busy, Op(p) = "set" => c.n = call[p].n,
         l = "cas" => pc[p] = "found" /\ c.e = Slot(p).epoch
  PROVE  Onward(p)
<1>0. UNCHANGED << ret, left >>
  BY DEF With
<1>1. pc'[p] = l /\ call'[p] = c
  BY WithStays
<1>2. (Op(p) = "set" => call'[p].n = call[p].n)
      /\ (pc'[p] = "cas" => pc[p] = "found" /\ call'[p].e = Slot(p).epoch)
  BY <1>1
<1>3. /\ pc'[p] \notin Outside \cup {"probe"} /\ call'[p].op = call[p].op
      /\ call'[p].key = call[p].key /\ call'[p].i = call[p].i
      /\ call'[p].slot = call[p].slot /\ call'[p].busy = call[p].busy
  BY <1>1
<1>4. QED
  BY <1>0, <1>1, <1>2, <1>3 DEF Onward

LEMMA OnwardThen ==
  ASSUME Typed, NEW p \in Procs, NEW l, Then(p, l),
         pc[p] \notin Outside \cup {"probe"}, l \notin Outside \cup {"probe", "cas"}
  PROVE  Onward(p)
<1>1. pc'[p] = l /\ call'[p] = call[p] /\ UNCHANGED << ret, left >>
  BY ThenStays DEF Then
<1>2. QED
  BY <1>1 DEF Onward

LEMMA EnterShape ==
  ASSUME Dealt, StrongCAS, LaneInv, LinInv, NEW p \in Procs, InCall(p), Enter(p)
  PROVE  Over(p) \/ Onward(p)
<1> USE LinParts, SlotTyped
<1>1. Op(p) \in {"set", "get"} /\ pc[p] \in {"found", "cas"}
  BY Busy DEF Enter, LoadOdd, LoadEven, CasWin, CasLose
<1>2. CASE LoadEven(p)
  <2> DEFINE c == [call[p] EXCEPT !.e = Slot(p).epoch]
  <2>1. With(p, AfterLoad(p), c) /\ pc[p] = "found"
    BY <1>2 DEF LoadEven
  <2>2. /\ c.op = call[p].op /\ c.key = call[p].key /\ c.i = call[p].i /\ c.n = call[p].n
        /\ c.slot = call[p].slot /\ c.busy = call[p].busy /\ c.e = Slot(p).epoch
    BY DEF CallType
  <2>3. AfterLoad(p) \in {"len", "cas"}
    BY <1>1 DEF AfterLoad
  <2> HIDE DEF c
  <2>4. QED
    BY <1>1, <2>1, <2>2, <2>3, OnwardWith DEF Outside
<1>3. CASE CasWin(p)
  <2>1. Then(p, AfterCas(p)) /\ pc[p] = "cas"
    BY <1>3 DEF CasWin
  <2>2. AfterCas(p) \notin Outside \cup {"probe", "cas"}
    BY <1>1 DEF AfterCas, Outside
  <2>3. QED
    BY <2>1, <2>2, OnwardThen DEF Outside
<1>4. CASE LoadOdd(p) \/ CasLose(p)
  <2>1. Op(p) = "get"
    BY <1>1, <1>4, SetEnters
  <2>2. pc[p] = "found"
    BY <1>1, <2>1, WriterSets
  <2>3. UNCHANGED S /\ Return(p, "busy")
    BY <1>4, <2>1 DEF LoadOdd, CasLose, GiveUpSlot
  <2>4. pc'[p] = "idle"
    BY <2>3, ReturnStays
  <2>5. QED
    BY <2>1, <2>2, <2>3, <2>4 DEF Over
<1>5. QED
  BY <1>2, <1>3, <1>4 DEF Enter

LEMMA WriteShape ==
  ASSUME LaneInv, LinInv, NEW p \in Procs, InCall(p),
         SetScrub(p) \/ SetFill(p) \/ SetBlank(p) \/ SetLink(p) \/ CloseSlot(p)
  PROVE  Onward(p) /\ Op(p) = "set" /\ pc[p] \in Critical
<1> USE LinParts, SlotTyped
<1>1. pc[p] \in {"scrub", "fill", "blank", "link", "close"}
  BY DEF SetScrub, SetFill, SetBlank, SetLink, CloseSlot
<1>2. pc[p] \in Critical /\ pc[p] \notin Outside \cup {"probe"}
  BY <1>1 DEF Critical, Outside
<1>3. Op(p) = "set" /\ call[p].rc = "ok"
  BY <1>2, WriterSets DEF Kept, Regular
<1>4. CASE CloseSlot(p)
  <2>1. Then(p, "pulse")
    BY <1>3, <1>4 DEF CloseSlot
  <2>2. "pulse" \notin Outside \cup {"probe", "cas"}
    BY DEF Outside
  <2>3. QED
    BY <1>2, <1>3, <2>1, <2>2, OnwardThen
<1>5. CASE SetScrub(p) \/ SetFill(p) \/ SetBlank(p) \/ SetLink(p)
  <2>1. PICK l \in {"fill", "blank", "link", "close"} : Then(p, l)
    BY <1>5 DEF SetScrub, SetFill, SetBlank, SetLink
  <2>2. l \notin Outside \cup {"probe", "cas"}
    BY <2>1 DEF Outside
  <2>3. QED
    BY <1>2, <1>3, <2>1, <2>2, OnwardThen
<1>6. QED
  BY <1>4, <1>5

LEMMA PublishShape ==
  ASSUME LaneInv, LinInv, NEW p \in Procs, InCall(p), Publish(p)
  PROVE  (Over(p) \/ Onward(p)) /\ Op(p) = "set" /\ UNCHANGED S
<1> USE LinParts, SlotTyped
<1>1. pc[p] \in After /\ UNCHANGED S
  BY DEF Publish, Pulse, GlobalEpoch, NotifySkip, NotifyDirty, NotifyBell, After
<1>2. pc[p] \notin Outside \cup {"probe"}
  BY <1>1 DEF After, Outside
<1>3. Op(p) = "set"
  BY <1>1, Busy DEF Shape, Op, After, ReadOps
<1>4. CASE NotifySkip(p) \/ NotifyBell(p)
  <2>1. Return(p, "ok") /\ pc[p] \in {"dirty", "bell"}
    BY <1>4 DEF NotifySkip, NotifyBell
  <2>2. pc'[p] = "idle"
    BY <2>1, ReturnStays
  <2>3. QED
    BY <1>1, <1>3, <2>1, <2>2 DEF Over
<1>5. CASE Pulse(p) \/ GlobalEpoch(p) \/ NotifyDirty(p)
  <2>1. PICK l \in {"epoch", "dirty", "bell"} : Then(p, l)
    BY <1>3, <1>5 DEF Pulse, GlobalEpoch, NotifyDirty
  <2>2. l \notin Outside \cup {"probe", "cas"}
    BY <2>1 DEF Outside
  <2>3. QED
    BY <1>1, <1>2, <1>3, <2>1, <2>2, OnwardThen
<1>6. QED
  BY <1>4, <1>5 DEF Publish

LEMMA ReadShape ==
  ASSUME LaneInv, LinInv, NEW p \in Procs, InCall(p), ReadLen(p) \/ ReadCopy(p) \/ ReadVerify(p)
  PROVE  (Over(p) \/ Onward(p)) /\ Op(p) = "get" /\ UNCHANGED S
<1> USE LinParts, SlotTyped
<1>1. pc[p] \in {"len", "copy"} /\ UNCHANGED S
  BY DEF ReadLen, ReadCopy, ReadVerify
<1>2. Op(p) = "get"
  BY <1>1, Busy DEF Shape, Op
<1>3. CASE ReadVerify(p)
  <2>1. PICK rc : Return(p, rc)
    BY <1>3 DEF ReadVerify
  <2>2. pc'[p] = "idle" /\ pc[p] = "copy"
    BY <1>3, <2>1, ReturnStays DEF ReadVerify
  <2>3. QED
    BY <1>1, <1>2, <1>3, <2>2 DEF Over
<1>4. CASE ReadLen(p) \/ ReadCopy(p)
  <2>1. PICK c : /\ With(p, "copy", c)
                 /\ c.op = call[p].op /\ c.key = call[p].key /\ c.i = call[p].i
                 /\ c.slot = call[p].slot /\ c.busy = call[p].busy
    <3>1. CASE ReadLen(p)
      <4> DEFINE c == [call[p] EXCEPT !.n = Slot(p).val_len]
      <4>1. /\ c.op = call[p].op /\ c.key = call[p].key /\ c.i = call[p].i
            /\ c.slot = call[p].slot /\ c.busy = call[p].busy
        BY DEF CallType
      <4>2. With(p, "copy", c)
        BY <3>1 DEF ReadLen
      <4>3. QED
        BY <4>1, <4>2
    <3>2. CASE ReadCopy(p)
      <4> DEFINE c == [call[p] EXCEPT !.buf = Append(@, Source(p)[Len(@) + 1])]
      <4>1. /\ c.op = call[p].op /\ c.key = call[p].key /\ c.i = call[p].i
            /\ c.slot = call[p].slot /\ c.busy = call[p].busy
        BY DEF CallType
      <4>2. With(p, "copy", c)
        BY <3>2 DEF ReadCopy
      <4>3. QED
        BY <4>1, <4>2
    <3>3. QED
      BY <1>4, <3>1, <3>2
  <2>2. "copy" \notin Outside \cup {"probe", "cas"} /\ pc[p] \notin Outside \cup {"probe"}
    BY <1>1 DEF Outside
  <2>3. Onward(p)
    BY <1>2, <2>1, <2>2, OnwardWith DEF Op
  <2>4. QED
    BY <1>1, <1>2, <2>3
<1>5. QED
  BY <1>3, <1>4

LEMMA StepShape ==
  ASSUME Dealt, StrongCAS, LaneInv, LinInv, NEW p \in Procs, Step(p)
  PROVE  InCall(p) /\ (ProbeHit(p) \/ ProbeNext(p) \/ Over(p) \/ Onward(p))
<1>1. InCall(p) /\ Typed /\ Kept(p)
  BY LinParts, StepStays DEF InCall
<1>2. Op(p) \in {"set", "get"}
  BY <1>1, Busy
<1>3. ProbeEnd(p) => Over(p)
  <2>1. SUFFICES ASSUME ProbeEnd(p)
                 PROVE  Over(p)
    OBVIOUS
  <2>2. Op(p) = "get"
    BY <1>1, <1>2, <2>1, RoomLeft DEF ProbeEnd
  <2>3. Return(p, "miss") /\ pc[p] = "probe" /\ UNCHANGED S
    BY <2>1, <2>2 DEF ProbeEnd
  <2>4. pc'[p] = "idle"
    BY <1>1, <2>3, ReturnStays
  <2>5. QED
    BY <2>2, <2>3, <2>4 DEF Over
<1>4. QED
  BY <1>1, <1>2, <1>3, SetGetSteps, EnterShape, WriteShape, PublishShape, ReadShape DEF Probe

-----------------------------------------------------------------------------
(* What a step of a set or a get does to the table. *)

LEMMA HashStep ==
  ASSUME Dealt, StrongCAS, LaneInv, LinInv, NEW p \in Procs, Step(p), Discreet(p), NEW s \in SlotIds
  PROVE  \/ S'[s].hash = S[s].hash
         \/ /\ Seeding /\ s = At(p) /\ S[s].hash = NoKey /\ S'[s].hash = call[p].key
            /\ Op(p) = "set" /\ pc[p] = "link"
<1>1. Typed /\ Kept(p)
  BY LinParts
<1>2. CASE S'[s].hash # S[s].hash
  <2>1. /\ S[s].hash \in {NoKey, call[p].key} /\ S'[s].hash = call[p].key
        /\ Op(p) = "set" /\ pc[p] = "link"
    BY <1>1, <1>2, HashMoves
  <2>2. Holds(p, s)
    BY <1>2 DEF Discreet, SameCells
  <2>3. s = At(p) /\ InCall(p) /\ pc[p] # "probe"
    BY <2>1, <2>2 DEF Holds, InCall, Outside
  <2>4. Hits(p)
    BY DEF LaneInv
  <2>5. QED
    BY <1>2, <2>1, <2>3, <2>4 DEF Hits, Slot
<1>3. QED
  BY <1>2

(* A key is wiped only inside a set, which has the slot for itself. *)
LEMMA WipedIs ==
  ASSUME LaneInv, LinInv, NEW s \in SlotIds, S[s].key # S[s].hash
  PROVE  /\ S[s].key = NoKey /\ Odd(S[s].epoch)
         /\ \E q \in Procs : /\ pc[q] = "link" /\ At(q) = s /\ InCall(q) /\ Op(q) = "set"
                              /\ Hits(q)
<1>1. S[s].key = NoKey /\ \E q \in Procs : pc[q] = "link" /\ At(q) = s
  BY DEF LaneInv, Tabled, Wiping
<1>2. PICK q \in Procs : pc[q] = "link" /\ At(q) = s
  BY <1>1
<1>3. InCall(q) /\ Op(q) = "set" /\ Holds(q, s)
  BY <1>2, WriterSets DEF Holds, Critical
<1>4. QED
  BY <1>1, <1>2, <1>3, LinParts DEF SeqlockOwner, LaneInv

(* The key of a writer is wiped by none but the writer itself. *)
LEMMA NotWiped ==
  ASSUME Dealt, LaneInv, LinInv, ~ Seeding, NEW p \in Procs, IsWriter(p), pc[p] # "link",
         NEW i \in LaneOf(p), NEW s \in SlotIds, S[s].hash = KeySeq[i]
  PROVE  S[s].key = S[s].hash
<1> SUFFICES ASSUME S[s].key # S[s].hash
             PROVE  FALSE
  OBVIOUS
<1>1. PICK q \in Procs : pc[q] = "link" /\ At(q) = s /\ InCall(q) /\ Op(q) = "set" /\ Hits(q)
  BY WipedIs
<1>2. call[q].key = KeySeq[i]
  BY <1>1 DEF Hits, Slot
<1>3. PICK m \in LaneOf(q) : call[q].key = KeySeq[m] /\ IsWriter(q)
  BY <1>1, Busy
<1>4. QED
  BY <1>1, <1>2, <1>3, LanesOwn

LEMMA KeyStep ==
  ASSUME LaneInv, LinInv, NEW p \in Procs, Step(p), InCall(p), OthersStay(p), NEW s \in SlotIds
  PROVE  S'[s].key # S'[s].hash => S'[s].key = NoKey /\ Wiping(s)'
<1>1. Typed /\ Kept(p) /\ Op(p) \in {"set", "get"}
  BY LinParts, Busy
<1>2. S \in [SlotIds -> SlotType] /\ At(p) \in SlotIds
  BY <1>1, SlotTyped DEF Typed, TypeOK
<1>3. ASSUME S'[s].key = S[s].key, S'[s].hash = S[s].hash, ~ (pc[p] = "link" /\ At(p) = s)
      PROVE  S'[s].key # S'[s].hash => S'[s].key = NoKey /\ Wiping(s)'
  <2>1. SUFFICES ASSUME S[s].key # S[s].hash
                 PROVE  S[s].key = NoKey /\ Wiping(s)'
    BY <1>3
  <2>2. PICK q \in Procs : pc[q] = "link" /\ At(q) = s
    BY <2>1, WipedIs
  <2>3. pc'[q] = "link" /\ At(q)' = s
    BY <1>3, <2>2 DEF OthersStay, At
  <2>4. QED
    BY <2>1, <2>3, WipedIs DEF Wiping
<1>4. CASE Probe(p) \/ LoadOdd(p) \/ LoadEven(p) \/ CasLose(p) \/ Publish(p)
           \/ ReadLen(p) \/ ReadCopy(p) \/ ReadVerify(p)
  <2>1. UNCHANGED S /\ pc[p] # "link"
    BY <1>4 DEF Probe, ProbeHit, ProbeNext, ProbeEnd, LoadOdd, LoadEven, CasLose, Publish, Pulse,
                GlobalEpoch, NotifySkip, NotifyDirty, NotifyBell, ReadLen, ReadCopy, ReadVerify
  <2>2. QED
    BY <1>3, <2>1
<1>5. CASE CasWin(p) \/ CloseSlot(p)
  <2>1. S' = [S EXCEPT ![At(p)].epoch = @ + 1] /\ pc[p] # "link"
    BY <1>5 DEF CasWin, CloseSlot
  <2>2. S'[s].key = S[s].key /\ S'[s].hash = S[s].hash
    BY <1>2, <2>1 DEF SlotType
  <2>3. QED
    BY <1>3, <2>1, <2>2
<1>6. CASE SetScrub(p)
  <2>1. PICK v : S' = [S EXCEPT ![At(p)].val = v] /\ pc[p] # "link"
    BY <1>6 DEF SetScrub
  <2>2. S'[s].key = S[s].key /\ S'[s].hash = S[s].hash
    BY <1>2, <2>1 DEF SlotType
  <2>3. QED
    BY <1>3, <2>1, <2>2
<1>7. CASE SetFill(p)
  <2>1. PICK v, n : S' = [S EXCEPT ![At(p)].val = v, ![At(p)].val_len = n] /\ pc[p] # "link"
    BY <1>7 DEF SetFill
  <2>2. S'[s].key = S[s].key /\ S'[s].hash = S[s].hash
    BY <1>2, <2>1 DEF SlotType
  <2>3. QED
    BY <1>3, <2>1, <2>2
<1>8. CASE SetBlank(p)
  <2>1. PICK e : S' = [S EXCEPT ![At(p)].embedding = e, ![At(p)].key = NoKey]
    BY <1>8 DEF SetBlank
  <2>2. pc[p] = "blank" /\ pc'[p] = "link" /\ At(p)' = At(p)
    BY <1>1, <1>8, ThenStays DEF SetBlank, At
  <2>3. CASE s = At(p)
    <3>1. S'[s].key = NoKey
      BY <1>2, <2>1, <2>3 DEF SlotType
    <3>2. QED
      BY <2>2, <2>3, <3>1 DEF Wiping
  <2>4. CASE s # At(p)
    BY <1>2, <1>3, <2>1, <2>4
  <2>5. QED
    BY <2>3, <2>4
<1>9. CASE SetLink(p)
  <2>1. S' = [S EXCEPT ![At(p)].key = call[p].key, ![At(p)].hash = call[p].key]
    BY <1>9 DEF SetLink
  <2>2. CASE s = At(p)
    <3>1. S'[s].key = S'[s].hash
      BY <1>2, <2>1, <2>2 DEF SlotType
    <3>2. QED
      BY <3>1
  <2>3. CASE s # At(p)
    BY <1>2, <1>3, <2>1, <2>3
  <2>4. QED
    BY <2>2, <2>3
<1>10. QED
  BY <1>1, <1>4, <1>5, <1>6, <1>7, <1>8, <1>9, SetGetSteps DEF Enter

LEMMA EpochStep ==
  ASSUME LaneInv, LinInv, NEW p \in Procs, Step(p), InCall(p), NEW s \in SlotIds
  PROVE  \/ S'[s].epoch = S[s].epoch
         \/ s = At(p) /\ pc[p] \in {"cas"} \cup Critical
<1>1. Typed /\ Kept(p) /\ Op(p) \in {"set", "get"}
  BY LinParts, Busy
<1>2. S \in [SlotIds -> SlotType] /\ At(p) \in SlotIds
  BY <1>1, SlotTyped DEF Typed, TypeOK
<1>3. CASE Silent(p) \/ InLock(p)
  BY <1>3 DEF Silent, InLock, SameContent
<1>4. CASE CasWin(p) \/ CloseSlot(p)
  <2>1. S' = [S EXCEPT ![At(p)].epoch = @ + 1] /\ pc[p] \in {"cas", "close"}
    BY <1>4 DEF CasWin, CloseSlot
  <2>2. s # At(p) => S'[s] = S[s]
    BY <1>2, <2>1
  <2>3. QED
    BY <2>1, <2>2 DEF Critical
<1>5. ~ Outright(p)
  <2>1. Shape(pc[p], call[p])
    BY <1>1, SlotTyped
  <2>2. ~ Unset(p)
    BY <1>1, <2>1 DEF Shape, Op, Unset, UnsetForget, UnsetWipe, UnsetRewind, UnsetReset, UnsetReopen
  <2>3. ~ RetrainOdd(p) /\ ~ RetrainEven(p)
    BY <1>1, <2>1 DEF Shape, Op, RetrainOdd, RetrainEven
  <2>4. QED
    BY <2>2, <2>3 DEF Outright
<1>6. QED
  BY <1>1, <1>3, <1>4, <1>5, Sorted

LEMMA FreeKept ==
  ASSUME LaneInv
  PROVE  FreeSlotKept
<1>1. ASSUME NEW q \in Procs, Op(q) = "set", pc[q] \in {"found", "cas"}
      PROVE  Slot(q).hash \in {NoKey, call[q].key}
  BY <1>1 DEF LaneInv, Hits, InCall, Outside
<1>2. QED
  BY <1>1 DEF FreeSlotKept

(* A step of p as the rest of the proof sees it. *)
Steps(p) == /\ Step(p) /\ UNCHANGED harnessVars /\ Discreet(p) /\ InCall(p)
            /\ ProbeHit(p) \/ ProbeNext(p) \/ Over(p) \/ Onward(p)

LEMMA IsSteps ==
  ASSUME Dealt, StrongCAS, LaneInv, LinInv, Typed', NEW p \in Procs, Step(p), UNCHANGED harnessVars
  PROVE  Steps(p) /\ KeepsCall(p)
<1>1. Typed /\ Kept(p) /\ KeepsCall(p)
  BY LinParts, StepStays
<1>2. QED
  BY <1>1, FreeKept, StepShape, MoveKept DEF Steps

-----------------------------------------------------------------------------
(* A step of p and the calls of the others *)

LEMMA OthersSame ==
  ASSUME NEW p \in Procs, Steps(p), NEW q \in Procs \ {p}
  PROVE  /\ pc'[q] = pc[q] /\ call'[q] = call[q] /\ left'[q] = left[q]
         /\ At(q)' = At(q) /\ Op(q)' = Op(q) /\ Ver(q)' = Ver(q) /\ InCall(q)' = InCall(q)
         /\ t' = t /\ Seeding' = Seeding
BY DEF Steps, Discreet, OthersStay, At, Op, Ver, InCall, harnessVars, Seeding

LEMMA HashesStill ==
  ASSUME Dealt, StrongCAS, LaneInv, LinInv, NEW p \in Procs, Steps(p), ~ Seeding
  PROVE  \A s \in SlotIds : S'[s].hash = S[s].hash
BY HashStep DEF Steps

LEMMA WalksOther ==
  ASSUME Dealt, StrongCAS, LaneInv, LinInv, NEW p \in Procs, Steps(p), NEW q \in Procs \ {p}
  PROVE  Walks(q)'
<1> SUFFICES ASSUME InCall(q)
             PROVE  Walks(q)'
  BY OthersSame DEF Walks
<1>1. ~ Seeding
  BY Two DEF Steps
<1>2. \A s \in SlotIds : S'[s].hash = S[s].hash
  BY <1>1, HashesStill
<1>3. Walks(q) /\ call[q].key \in Keys
  BY Busy DEF LaneInv
<1>4. ASSUME NEW d \in 0 .. call[q].i - 1
      PROVE  S'[Chain(call[q].key, d)].hash = S[Chain(call[q].key, d)].hash
  <2>1. d \in 0 .. Slots - 1
    BY <1>3, SlotsAssumption DEF Walks
  <2>2. QED
    BY <1>2, <1>3, <2>1, ChainIn
<1>5. QED
  BY <1>3, <1>4, OthersSame DEF Walks, Chain

LEMMA SetKept ==
  ASSUME Dealt, StrongCAS, LaneInv, LinInv, NEW p \in Procs, Steps(p), NEW q \in Procs \ {p},
         InCall(q), Op(q) = "set", pc[q] # "probe"
  PROVE  SameCells(At(q)) /\ S'[At(q)].epoch = S[At(q)].epoch
<1>1. At(q) \in SlotIds
  BY LinParts, SlotTyped
<1>2. ~ (At(q) = At(p) /\ pc[p] \in {"cas"} \cup Critical)
  BY WriterSets, SlotsApart DEF Steps
<1>3. ~ Holds(p, At(q))
  BY <1>2 DEF Holds
<1>4. QED
  BY <1>1, <1>2, <1>3, EpochStep DEF Steps, Discreet

LEMMA HitsOther ==
  ASSUME Dealt, StrongCAS, LaneInv, LinInv, NEW p \in Procs, Steps(p), NEW q \in Procs \ {p}
  PROVE  Hits(q)'
<1> SUFFICES ASSUME InCall(q), pc[q] # "probe"
             PROVE  Hits(q)'
  BY OthersSame DEF Hits
<1>1. ~ Seeding /\ At(q) \in SlotIds
  BY Two, LinParts, SlotTyped DEF Steps
<1>2. Slot(q)'.hash = Slot(q).hash
  BY <1>1, HashesStill, OthersSame DEF Slot
<1>3. Hits(q)
  BY DEF LaneInv
<1>4. CASE Op(q) = "set"
  <2>1. Slot(q)'.epoch = Slot(q).epoch /\ Slot(q)'.val = Slot(q).val /\ Slot(q)'.val_len = Slot(q).val_len
    BY <1>4, SetKept, OthersSame DEF Slot, SameCells
  <2>2. QED
    BY <1>1, <1>2, <1>3, <2>1, OthersSame DEF Hits
<1>5. CASE Op(q) # "set"
  <2>1. pc[q] # "cas"
    BY <1>5, WriterSets
  <2>2. QED
    BY <1>1, <1>2, <1>3, <1>5, <2>1, OthersSame DEF Hits
<1>6. QED
  BY <1>4, <1>5

LEMMA RetStep ==
  ASSUME LaneInv, LinInv, NEW p \in Procs, Steps(p), NEW q \in Procs \ {p}
  PROVE  ret'[q] = ret[q]
<1>1. ret \in [Procs -> RetType]
  BY LinParts DEF Typed, TypeOK
<1>2. ASSUME NEW rc, Return(p, rc)
      PROVE  ret'[q] = ret[q]
  BY <1>1, <1>2 DEF Return
<1>3. CASE Over(p)
  <2>1. Op(p) \in {"set", "get"}
    BY Busy DEF Steps
  <2>2. \E rc : Return(p, rc)
    BY <1>3, <2>1 DEF Over, ReadVerify
  <2>3. QED
    BY <1>2, <2>2
<1>4. QED
  BY <1>3 DEF Steps, ProbeHit, ProbeNext, With, Onward

LEMMA RestsOther ==
  ASSUME Dealt, StrongCAS, LaneInv, LinInv, NEW p \in Procs, Steps(p), NEW q \in Procs \ {p}
  PROVE  Rests(q)'
<1> SUFFICES ASSUME IsWriter(q), pc[q] = "idle", ret[q].op = "set", ret[q].rc # "none"
             PROVE  Rests(q)'
  BY OthersSame, RetStep DEF Rests
<1>1. Rests(q) /\ Placed(q) /\ q # Main
  BY WriterIs DEF LaneInv
<1>2. ~ Seeding
  BY <1>1 DEF Placed
<1>3. PICK m \in LaneOf(q) : ret[q].key = KeySeq[m]
  BY <1>1 DEF Rests
<1>4. ASSUME NEW s \in SlotIds, S'[s].hash = ret[q].key
      PROVE  S[s].hash = ret[q].key /\ SameCells(s)
  <2>1. S[s].hash = ret[q].key
    BY <1>2, <1>4, HashesStill
  <2>2. ASSUME Holds(p, s)
        PROVE  FALSE
    <3>1. InCall(p) /\ Op(p) = "set" /\ pc[p] # "probe" /\ s = At(p)
      BY <2>2, WriterSets DEF Holds
    <3>2. S[s].hash = call[p].key
      BY <1>2, <3>1 DEF LaneInv, Hits, Slot
    <3>3. PICK i \in LaneOf(p) : call[p].key = KeySeq[i] /\ IsWriter(p)
      BY <1>2, <3>1, Busy
    <3>4. QED
      BY <1>3, <2>1, <3>2, <3>3, LanesOwn
  <2>3. QED
    BY <2>1, <2>2 DEF Steps, Discreet
<1>5. /\ ret[q].rc = "ok" /\ ret'[q] = ret[q] /\ left'[q] = left[q]
      /\ \A s \in SlotIds : S'[s].hash = ret[q].key =>
           S'[s].val_len = ret[q].n
             /\ \A c \in 1 .. ret[q].n : S'[s].val[c] = << ret[q].key, q, left[q] >>
  BY <1>1, <1>4, OthersSame, RetStep DEF Rests, SameCells
<1>6. QED
  BY <1>3, <1>5 DEF Rests, LaneOf

LEMMA PlacedOther ==
  ASSUME LaneInv, NEW q \in Procs, t'[q] = t[q], Seeding' => Seeding,
         pc'[q] = pc[q], call'[q] = call[q], ret'[q] = ret[q]
  PROVE  Placed(q)'
<1>1. Placed(q)
  BY DEF LaneInv
<1>2. QED
  BY <1>1 DEF Placed, InCall, Op, IsWriter, LaneOf

-----------------------------------------------------------------------------
(* and its own *)

LEMMA ProbeHitIs ==
  ASSUME LaneInv, LinInv, NEW p \in Procs, InCall(p), ProbeHit(p)
  PROVE  /\ pc'[p] = "found" /\ UNCHANGED << S, ret, left >>
         /\ call'[p].op = call[p].op /\ call'[p].key = call[p].key /\ call'[p].i = call[p].i
         /\ call'[p].busy = call[p].busy /\ call[p].i \in 0 .. Slots - 1
         /\ At(p)' = Chain(call[p].key, call[p].i) /\ At(p)' \in SlotIds
         /\ Candidate(p, At(p)')
<1>1. Op(p) \in {"set", "get"} /\ call[p] \in CallType /\ Typed /\ call[p].key \in Keys
  BY Busy, LinParts, SlotTyped
<1> DEFINE c == [call[p] EXCEPT !.slot = Phys(p), !.sh = S[Phys(p)].hash]
<1>2. With(p, "found", c) /\ UNCHANGED S /\ Candidate(p, Phys(p)) /\ call[p].i < Slots
  BY DEF ProbeHit
<1>3. /\ c.op = call[p].op /\ c.key = call[p].key /\ c.i = call[p].i /\ c.busy = call[p].busy
      /\ c.slot = Phys(p)
  BY <1>1 DEF CallType
<1> HIDE DEF c
<1>4. pc'[p] = "found" /\ call'[p] = c /\ UNCHANGED << ret, left >>
  BY <1>1, <1>2, WithStays DEF With
<1>5. call[p].i \in 0 .. Slots - 1
  BY <1>1, <1>2, SlotsAssumption DEF CallType
<1>6. Phys(p) = Chain(call[p].key, call[p].i) /\ Phys(p) \in SlotIds
  BY <1>1, <1>5, PhysIs, ChainIn
<1>7. QED
  BY <1>2, <1>3, <1>4, <1>5, <1>6 DEF At

LEMMA ProbeNextIs ==
  ASSUME LaneInv, LinInv, NEW p \in Procs, InCall(p), ProbeNext(p)
  PROVE  /\ pc'[p] = "probe" /\ UNCHANGED << S, ret, left >>
         /\ call'[p].op = call[p].op /\ call'[p].key = call[p].key
         /\ call'[p].i = call[p].i + 1 /\ call'[p].busy = call[p].busy
         /\ call[p].i \in 0 .. Slots - 1
         /\ Phys(p) = Chain(call[p].key, call[p].i) /\ Phys(p) \in SlotIds
         /\ S[Phys(p)].hash = call[p].key => S[Phys(p)].key # S[Phys(p)].hash
         /\ Op(p) = "set" => S[Phys(p)].hash # NoKey
<1>1. Op(p) \in {"set", "get"} /\ call[p] \in CallType /\ Typed /\ call[p].key \in Keys
  BY Busy, LinParts, SlotTyped
<1> DEFINE c == [call[p] EXCEPT !.i = @ + 1]
<1>2. With(p, "probe", c) /\ UNCHANGED S /\ ~ Candidate(p, Phys(p)) /\ call[p].i < Slots
  BY DEF ProbeNext
<1>3. /\ c.op = call[p].op /\ c.key = call[p].key /\ c.i = call[p].i + 1
      /\ c.busy = call[p].busy
  BY <1>1 DEF CallType
<1> HIDE DEF c
<1>4. pc'[p] = "probe" /\ call'[p] = c /\ UNCHANGED << ret, left >>
  BY <1>1, <1>2, WithStays DEF With
<1>5. call[p].i \in 0 .. Slots - 1
  BY <1>1, <1>2, SlotsAssumption DEF CallType
<1>6. Phys(p) = Chain(call[p].key, call[p].i) /\ Phys(p) \in SlotIds
  BY <1>1, <1>5, PhysIs, ChainIn
<1>7. /\ S[Phys(p)].hash = call[p].key => S[Phys(p)].key # S[Phys(p)].hash
      /\ Op(p) = "set" => S[Phys(p)].hash # NoKey
  BY <1>2 DEF Candidate, Match
<1>8. QED
  BY <1>2, <1>3, <1>4, <1>5, <1>6, <1>7

(* A set passes neither its key nor a free slot. *)
LEMMA SetPasses ==
  ASSUME Dealt, LaneInv, LinInv, NEW p \in Procs, InCall(p), ProbeNext(p), Op(p) = "set"
  PROVE  S[Chain(call[p].key, call[p].i)].hash \notin {NoKey, call[p].key}
<1>1. /\ Phys(p) = Chain(call[p].key, call[p].i) /\ Phys(p) \in SlotIds
      /\ S[Phys(p)].hash = call[p].key => S[Phys(p)].key # S[Phys(p)].hash
      /\ S[Phys(p)].hash # NoKey /\ pc[p] = "probe"
  BY ProbeNextIs DEF ProbeNext
<1> SUFFICES ASSUME S[Phys(p)].hash = call[p].key
             PROVE  FALSE
  BY <1>1
<1>2. PICK q \in Procs : pc[q] = "link" /\ InCall(q)
  BY <1>1, WipedIs
<1>3. ~ Seeding
  BY <1>1, <1>2, Two
<1>4. PICK i \in LaneOf(p) : call[p].key = KeySeq[i] /\ IsWriter(p)
  BY <1>3, Busy
<1>5. QED
  BY <1>1, <1>3, <1>4, NotWiped

LEMMA WalksOwn ==
  ASSUME Dealt, StrongCAS, LaneInv, LinInv, NEW p \in Procs, Steps(p)
  PROVE  Walks(p)'
<1>1. Walks(p) /\ call[p].key \in Keys /\ Slots \in Nat \ {0} /\ InCall(p)
  BY Busy, SlotsAssumption DEF LaneInv, Steps
<1>2. CASE ProbeHit(p)
  <2>1. InCall(p)' /\ Op(p)' = Op(p)
    BY <1>1, <1>2, ProbeHitIs DEF InCall, Outside, Op
  <2>2. QED
    BY <1>1, <1>2, <2>1, ProbeHitIs DEF Walks, Chain
<1>3. CASE ProbeNext(p)
  <2>1. Op(p)' = Op(p) /\ UNCHANGED S /\ pc[p] = "probe" /\ call'[p].key = call[p].key
        /\ call[p].i \in 0 .. Slots - 1 /\ call'[p].i = call[p].i + 1
    BY <1>1, <1>3, ProbeNextIs DEF Op, ProbeNext
  <2>2. 0 .. call'[p].i - 1 = (0 .. call[p].i - 1) \cup {call[p].i}
    BY <1>1, <2>1
  <2>3. /\ call'[p].i \in 0 .. Slots /\ ~ call[p].busy /\ call'[p].busy = call[p].busy
        /\ pc'[p] = "probe"
    BY <1>1, <1>3, <2>1, ProbeNextIs DEF Walks
  <2>4. ASSUME Op(p) = "set", NEW d \in 0 .. call'[p].i - 1
        PROVE  S[Chain(call[p].key, d)].hash \notin {NoKey, call[p].key}
    <3>1. CASE d = call[p].i
      BY <1>1, <1>3, <2>4, <3>1, SetPasses
    <3>2. CASE d \in 0 .. call[p].i - 1
      BY <1>1, <2>4, <3>2 DEF Walks
    <3>3. QED
      BY <2>2, <2>4, <3>1, <3>2
  <2>5. QED
    BY <2>1, <2>3, <2>4 DEF Walks, Chain
<1>4. CASE Over(p)
  BY <1>4 DEF Over, Walks, InCall, Outside
<1>5. CASE Onward(p)
  <2>1. /\ call'[p].key = call[p].key /\ call'[p].i = call[p].i /\ call'[p].busy = call[p].busy
        /\ At(p)' = At(p) /\ Op(p)' = Op(p) /\ pc[p] # "probe" /\ pc'[p] # "probe"
    BY <1>5 DEF Onward, At, Op
  <2>2. call[p].i \in 0 .. Slots - 1 /\ At(p) = Chain(call[p].key, call[p].i)
    BY <1>1, <2>1, SlotsAssumption DEF Walks
  <2>3. ASSUME NEW d \in 0 .. call[p].i - 1
        PROVE  S'[Chain(call[p].key, d)].hash = S[Chain(call[p].key, d)].hash
    <3>1. d \in 0 .. Slots - 1 /\ d # call[p].i
      BY <1>1, <2>2
    <3>2. Chain(call[p].key, d) # At(p) /\ Chain(call[p].key, d) \in SlotIds
      BY <1>1, <2>2, <3>1, ChainOnce, ChainIn
    <3>3. QED
      BY <3>2, HashStep DEF Steps
  <2>4. QED
    BY <1>1, <2>1, <2>2, <2>3 DEF Walks, Chain
<1>6. QED
  BY <1>2, <1>3, <1>4, <1>5 DEF Steps

LEMMA SetNext ==
  ASSUME Dealt, StrongCAS, LaneInv, LinInv, NEW p \in Procs, Steps(p), Onward(p), Op(p) = "set"
  PROVE  \/ pc[p] = "found" /\ pc'[p] = "cas" /\ UNCHANGED S
         \/ pc[p] = "cas" /\ CasWin(p) /\ pc'[p] = "scrub"
         \/ pc[p] = "scrub" /\ SetScrub(p) /\ pc'[p] = "fill"
         \/ pc[p] = "fill" /\ SetFill(p) /\ pc'[p] = "blank"
         \/ pc[p] = "blank" /\ SetBlank(p) /\ pc'[p] = "link"
         \/ pc[p] = "link" /\ SetLink(p) /\ pc'[p] = "close"
         \/ pc[p] = "close" /\ CloseSlot(p) /\ pc'[p] = "pulse"
         \/ pc[p] \in After /\ pc'[p] \in After /\ UNCHANGED S
<1> USE LinParts, SlotTyped
<1>1. InCall(p) /\ pc[p] # "probe" /\ pc'[p] \notin Outside
  BY DEF Steps, Onward
<1>2. CASE Probe(p)
  BY <1>1, <1>2 DEF Probe, ProbeHit, ProbeNext, ProbeEnd
<1>3. CASE Enter(p)
  <2>1. ~ LoadOdd(p) /\ ~ CasLose(p)
    BY <1>1, <1>3, SetEnters DEF LoadOdd, CasLose
  <2>2. CASE LoadEven(p)
    <3>1. PICK c : With(p, AfterLoad(p), c)
      BY <2>2 DEF LoadEven
    <3>2. pc'[p] = "cas"
      BY <3>1, WithStays DEF AfterLoad
    <3>3. QED
      BY <2>2, <3>2 DEF LoadEven
  <2>3. CASE CasWin(p)
    <3>1. Then(p, "scrub") /\ pc[p] = "cas"
      BY <2>3 DEF CasWin, AfterCas
    <3>2. QED
      BY <2>3, <3>1, ThenStays
  <2>4. QED
    BY <1>3, <2>1, <2>2, <2>3 DEF Enter
<1>4. CASE SetScrub(p) \/ SetFill(p) \/ SetBlank(p) \/ SetLink(p)
  BY <1>4, ThenStays DEF SetScrub, SetFill, SetBlank, SetLink
<1>5. CASE CloseSlot(p)
  <2>1. call[p].rc = "ok"
    BY DEF Kept, Regular
  <2>2. Then(p, "pulse") /\ pc[p] = "close"
    BY <1>5, <2>1 DEF CloseSlot
  <2>3. QED
    BY <1>5, <2>2, ThenStays
<1>6. CASE Publish(p)
  <2>1. pc[p] \in After /\ UNCHANGED S
    BY <1>6 DEF Publish, Pulse, GlobalEpoch, NotifySkip, NotifyDirty, NotifyBell, After
  <2>2. CASE NotifySkip(p) \/ NotifyBell(p)
    BY <1>1, <2>2, ReturnStays DEF NotifySkip, NotifyBell, Outside
  <2>3. CASE Pulse(p) \/ GlobalEpoch(p) \/ NotifyDirty(p)
    <3>1. PICK l \in {"epoch", "dirty", "bell"} : Then(p, l)
      BY <2>3 DEF Pulse, GlobalEpoch, NotifyDirty
    <3>2. QED
      BY <2>1, <3>1, ThenStays DEF After
  <2>4. QED
    BY <1>6, <2>2, <2>3 DEF Publish
<1>7. CASE ReadLen(p) \/ ReadCopy(p) \/ ReadVerify(p)
  BY <1>1, <1>7, ReadShape
<1>8. QED
  BY <1>2, <1>3, <1>4, <1>5, <1>6, <1>7, SetGetSteps DEF Steps

(* When the seqlock opens, the slot has what the set was to store. *)
LEMMA SetDone ==
  ASSUME LinInv, NEW p \in Procs, Op(p) = "set", pc[p] = "close"
  PROVE  /\ Slot(p).val_len = call[p].n /\ call[p].n \in 1 .. MaxLen
         /\ \A c \in 1 .. call[p].n : Slot(p).val[c] = Ver(p)
<1>1. Kept(p) /\ InCall(p)
  BY LinParts DEF InCall, Outside
<1>2. call[p].n \in 1 .. MaxLen /\ Outcome(p) = Raw(At(p))
  BY <1>1 DEF Kept, Regular, Pieces
<1>3. Slot(p).val_len = call[p].n /\ Slot(p).val = SetWrites(p, Slot(p).val)
  BY <1>2, SetOutcome DEF Raw, Slot
<1>4. ASSUME NEW c \in 1 .. call[p].n
      PROVE  Slot(p).val[c] = Ver(p)
  <2>1. c \in 1 .. MaxLen
    BY <1>2, SlotsAssumption
  <2>2. SetWrites(p, Slot(p).val)[c] = Ver(p)
    BY <2>1, WrittenAt
  <2>3. QED
    BY <1>3, <2>2
<1>5. QED
  BY <1>2, <1>3, <1>4

LEMMA OnwardGet ==
  ASSUME LaneInv, LinInv, NEW p \in Procs, Steps(p), Onward(p), Op(p) = "get"
  PROVE  pc'[p] \in {"len", "copy"}
<1> USE LinParts, SlotTyped
<1>1. InCall(p) /\ pc[p] # "probe" /\ pc'[p] \notin Outside
  BY DEF Steps, Onward
<1>2. pc[p] \notin {"cas"} \cup Critical
  BY <1>1, WriterSets
<1>3. CASE LoadEven(p)
  <2>1. PICK c : With(p, "len", c)
    BY <1>3 DEF LoadEven, AfterLoad
  <2>2. QED
    BY <2>1, WithStays
<1>4. CASE ReadLen(p) \/ ReadCopy(p)
  BY <1>4, WithStays DEF ReadLen, ReadCopy
<1>5. CASE LoadOdd(p) \/ ReadVerify(p)
  <2>1. PICK rc : Return(p, rc)
    BY <1>5 DEF LoadOdd, GiveUpSlot, ReadVerify
  <2>2. QED
    BY <1>1, <2>1, ReturnStays DEF Outside
<1>6. Probe(p) \/ Enter(p) \/ CloseSlot(p) \/ Publish(p) \/ SetScrub(p) \/ SetFill(p)
      \/ SetBlank(p) \/ SetLink(p) \/ ReadLen(p) \/ ReadCopy(p) \/ ReadVerify(p)
  BY SetGetSteps DEF Steps
<1>7. ~ Publish(p)
  BY <1>1, PublishShape
<1>8. ~ Probe(p) /\ ~ CasWin(p) /\ ~ CasLose(p) /\ ~ CloseSlot(p) /\ ~ SetScrub(p) /\ ~ SetFill(p)
      /\ ~ SetBlank(p) /\ ~ SetLink(p)
  BY <1>1, <1>2 DEF Probe, ProbeHit, ProbeNext, ProbeEnd, CasWin, CasLose, CloseSlot,
       SetScrub, SetFill, SetBlank, SetLink, Critical
<1>9. QED
  BY <1>3, <1>4, <1>5, <1>6, <1>7, <1>8 DEF Enter

LEMMA HitsOwn ==
  ASSUME Dealt, StrongCAS, LaneInv, LinInv, NEW p \in Procs, Steps(p)
  PROVE  Hits(p)'
<1>1. Hits(p) /\ InCall(p) /\ Typed /\ Op(p) \in {"set", "get"} /\ Seeding' = Seeding
  BY Busy, LinParts DEF LaneInv, Steps, harnessVars, Seeding
<1>2. CASE ProbeHit(p)
  <2>1. Op(p)' = Op(p) /\ pc'[p] = "found" /\ call'[p].key = call[p].key /\ Slot(p)' = S[At(p)']
    BY <1>1, <1>2, ProbeHitIs DEF Op, Slot
  <2>2. S[At(p)'].hash = call[p].key \/ (Op(p) = "set" /\ S[At(p)'].hash = NoKey)
    BY <1>1, <1>2, ProbeHitIs DEF Candidate, Match
  <2>3. Op(p) = "set" /\ ~ Seeding => S[At(p)'].hash # NoKey
    <3>1. ~ Seeding => Stands(call[p].key)
      BY <1>1, Busy DEF LaneInv, Tabled
    <3>2. call[p].i < Slots
      BY <1>2 DEF ProbeHit
    <3>3. QED
      BY <1>1, <1>2, <3>1, <3>2, Reaches, ProbeHitIs
  <2>4. QED
    BY <1>1, <2>1, <2>2, <2>3 DEF Hits
<1>3. CASE ProbeNext(p)
  BY <1>1, <1>3, ProbeNextIs DEF Hits
<1>4. CASE Over(p)
  BY <1>4 DEF Over, Hits, InCall, Outside
<1>5. CASE Onward(p)
  <2>1. /\ call'[p].key = call[p].key /\ At(p)' = At(p) /\ Op(p)' = Op(p) /\ pc[p] # "probe"
        /\ At(p) \in SlotIds /\ InCall(p)'
    BY <1>1, <1>5, SlotTyped DEF Onward, At, Op, InCall
  <2>2. CASE Op(p) = "get"
    <3>1. ~ Seeding /\ Slot(p).hash = call[p].key
      BY <1>1, <2>1, <2>2, SeedAlone DEF Hits
    <3>2. Slot(p)'.hash = Slot(p).hash
      BY <2>1, <3>1, HashesStill DEF Slot
    <3>3. pc'[p] # "cas"
      BY <1>5, <2>2, OnwardGet
    <3>4. QED
      BY <2>1, <2>2, <3>1, <3>2, <3>3 DEF Hits
  <2>3. CASE Op(p) = "set"
    <3>1. /\ Slot(p)'.hash = Slot(p).hash
             \/ (Slot(p).hash = NoKey /\ Slot(p)'.hash = call[p].key)
      BY <2>1, HashStep DEF Steps, Slot
    <3>2. \/ Slot(p)'.hash = call[p].key
          \/ (Seeding /\ Slot(p)'.hash = NoKey /\ pc'[p] \in {"found", "cas", "scrub", "fill", "blank", "link"})
      <4>1. CASE Slot(p).hash = call[p].key
        BY <3>1, <4>1
      <4>2. CASE Slot(p).hash # call[p].key
        <5>1. Seeding /\ Slot(p).hash = NoKey /\ pc[p] \in {"found", "cas", "scrub", "fill", "blank", "link"}
          BY <1>1, <2>1, <4>2 DEF Hits
        <5>2. CASE pc[p] = "link"
          <6>1. SetLink(p)
            BY <1>5, <2>3, <5>2, SetNext DEF After
          <6>2. Slot(p)'.hash = call[p].key
            BY <1>1, <2>1, <6>1, SlotTyped DEF SetLink, Slot, Typed, TypeOK, SlotType
          <6>3. QED
            BY <6>2
        <5>3. CASE pc[p] # "link"
          <6>1. pc'[p] \in {"found", "cas", "scrub", "fill", "blank", "link"}
            BY <1>5, <2>3, <5>1, <5>3, SetNext DEF After
          <6>2. QED
            BY <3>1, <5>1, <6>1
        <5>4. QED
          BY <5>2, <5>3
      <4>3. QED
        BY <4>1, <4>2
    <3>3. pc'[p] = "cas" => call'[p].e = Slot(p)'.epoch
      <4>1. SUFFICES ASSUME pc'[p] = "cas"
                     PROVE  call'[p].e = Slot(p)'.epoch
        OBVIOUS
      <4>2. UNCHANGED S /\ call'[p].e = Slot(p).epoch
        BY <1>5, <2>3, <4>1, SetNext DEF After, Onward
      <4>3. QED
        BY <2>1, <4>2 DEF Slot
    <3>4. ASSUME pc'[p] \in {"pulse", "epoch", "dirty", "bell"}
          PROVE  /\ Slot(p)'.val_len = call'[p].n
                 /\ \A c \in 1 .. call'[p].n : Slot(p)'.val[c] = Ver(p)'
      <4>1. call'[p].n = call[p].n /\ Ver(p)' = Ver(p)
        BY <1>5, <2>3 DEF Onward, Ver
      <4>2. CASE pc[p] = "close" /\ CloseSlot(p)
        <5>1. Slot(p)'.val_len = Slot(p).val_len /\ Slot(p)'.val = Slot(p).val
          BY <1>1, <2>1, <4>2, SlotTyped DEF CloseSlot, Slot, Typed, TypeOK, SlotType
        <5>2. QED
          BY <2>3, <4>1, <4>2, <5>1, SetDone
      <4>3. CASE pc[p] \in After /\ UNCHANGED S
        <5>1. Slot(p)' = Slot(p)
          BY <2>1, <4>3 DEF Slot
        <5>2. QED
          BY <1>1, <2>1, <2>3, <4>1, <4>3, <5>1 DEF Hits, After
      <4>4. QED
        BY <1>5, <2>3, <3>4, <4>2, <4>3, SetNext
    <3>5. QED
      BY <1>1, <2>1, <3>2, <3>3, <3>4 DEF Hits
  <2>4. QED
    BY <1>1, <2>2, <2>3
<1>6. QED
  BY <1>2, <1>3, <1>4, <1>5 DEF Steps

LEMMA RestsOwn ==
  ASSUME Dealt, StrongCAS, LaneInv, LinInv, NEW p \in Procs, Steps(p)
  PROVE  Rests(p)'
<1> SUFFICES ASSUME IsWriter(p), pc'[p] = "idle", ret'[p].op = "set", ret'[p].rc # "none"
             PROVE  Rests(p)'
  BY DEF Rests, IsWriter
<1>1. InCall(p) /\ Typed /\ Op(p) \in {"set", "get"} /\ p # Main
  BY Busy, LinParts, WriterIs DEF Steps
<1>2. ~ Seeding
  BY <1>1, SeedAlone
<1>3. Op(p) = "set"
  <2>1. t[p].at # "get"
    BY WriterIs DEF LaneInv, Placed
  <2>2. QED
    BY <1>1, <1>2, <2>1, Busy
<1>4. Over(p)
  BY <1>1, ProbeHitIs, ProbeNextIs DEF Steps, Onward, Outside
<1>5. UNCHANGED << S, left >> /\ pc[p] \in {"dirty", "bell"} /\ Return(p, "ok") /\ pc[p] # "probe"
  BY <1>3, <1>4 DEF Over, Return
<1>6. ret'[p].rc = "ok" /\ ret'[p].key = call[p].key /\ ret'[p].n = call[p].n
  <2>1. ret \in [Procs -> RetType]
    BY <1>1 DEF Typed, TypeOK
  <2>2. QED
    BY <1>5, <2>1 DEF Return
<1>7. Hits(p) /\ Tabled
  BY DEF LaneInv
<1>8. /\ Slot(p).hash = call[p].key /\ Slot(p).val_len = call[p].n
      /\ \A c \in 1 .. call[p].n : Slot(p).val[c] = Ver(p)
  BY <1>1, <1>2, <1>3, <1>5, <1>7 DEF Hits
<1>9. ASSUME NEW s \in SlotIds, S[s].hash = call[p].key
      PROVE  s = At(p)
  <2>1. At(p) \in SlotIds /\ call[p].key # NoKey
    BY <1>1, SlotTyped, Busy
  <2>2. QED
    BY <1>7, <1>8, <1>9, <2>1 DEF Tabled, Slot
<1>10. \E i \in LaneOf(p) : call[p].key = KeySeq[i]
  BY <1>1, <1>2, <1>3, Busy
<1>11. \A s \in SlotIds : S'[s].hash = ret'[p].key =>
         S'[s].val_len = ret'[p].n
           /\ \A c \in 1 .. ret'[p].n : S'[s].val[c] = << ret'[p].key, p, left'[p] >>
  BY <1>5, <1>6, <1>8, <1>9 DEF Slot, Ver
<1>12. QED
  BY <1>6, <1>10, <1>11 DEF Rests, LaneOf

LEMMA PlacedOwn ==
  ASSUME LaneInv, LinInv, NEW p \in Procs, Steps(p), KeepsCall(p)
  PROVE  Placed(p)'
<1>1. Placed(p) /\ InCall(p) /\ t' = t /\ Seeding' = Seeding /\ pc[p] # "idle"
  BY DEF LaneInv, Steps, harnessVars, Seeding, InCall, Outside
<1>2. t[p].at \in {"seed", "set", "get"}
  BY <1>1 DEF Placed
<1>3. InCall(p)' => Op(p)' = Op(p) /\ call'[p].key = call[p].key
  BY <1>1, ProbeHitIs, ProbeNextIs DEF Steps, Over, Onward, InCall, Op, Outside
<1>4. QED
  BY <1>1, <1>2, <1>3 DEF Placed, IsWriter, LaneOf

(* The seeding puts a key where its chain comes to the first free slot. *)
LEMMA NewKey ==
  ASSUME Dealt, StrongCAS, LaneInv, LinInv, NEW p \in Procs, Steps(p), NEW s \in SlotIds,
         S'[s].hash # S[s].hash
  PROVE  /\ S[s].hash = NoKey /\ S'[s].hash = call[p].key /\ call[p].i \in 0 .. Slots - 1
         /\ s = Chain(call[p].key, call[p].i)
         /\ \A r \in SlotIds : S[r].hash # call[p].key
         /\ \A r \in SlotIds \ {s} : S'[r].hash = S[r].hash
         /\ \A d \in 0 .. call[p].i - 1 : S[Chain(call[p].key, d)].hash # NoKey
<1>1. /\ s = At(p) /\ S[s].hash = NoKey /\ S'[s].hash = call[p].key
      /\ Op(p) = "set" /\ pc[p] = "link"
  BY HashStep DEF Steps
<1>2. Walks(p) /\ InCall(p) /\ Typed /\ Slots \in Nat
  BY LinParts, SlotsAssumption DEF LaneInv, Steps
<1>3. call[p].i \in 0 .. Slots - 1 /\ s = Chain(call[p].key, call[p].i)
  BY <1>1, <1>2 DEF Walks
<1>4. ~ Stands(call[p].key)
  <2>1. call[p].i < Slots
    BY <1>2, <1>3
  <2>2. QED
    BY <1>1, <1>2, <1>3, <2>1, Reaches
<1>5. \A d \in 0 .. call[p].i - 1 : S[Chain(call[p].key, d)].hash # NoKey
  BY <1>1, <1>2 DEF Walks
<1>6. \A r \in SlotIds \ {s} : S'[r].hash = S[r].hash
  BY <1>1, HashStep DEF Steps
<1>7. QED
  BY <1>1, <1>3, <1>4, <1>5, <1>6 DEF Stands

LEMMA HashLasts ==
  ASSUME Dealt, StrongCAS, LaneInv, LinInv, NEW p \in Procs, Steps(p), NEW s \in SlotIds, S[s].hash # NoKey
  PROVE  S'[s].hash = S[s].hash
BY NewKey

LEMMA ChainsStep ==
  ASSUME Dealt, StrongCAS, LaneInv, LinInv, NEW p \in Procs, Steps(p),
         NEW k \in Keys, NEW d \in 0 .. Slots - 1, S'[Chain(k, d)].hash = k, NEW j \in 0 .. d
  PROVE  S'[Chain(k, j)].hash # NoKey
<1>1. Slots \in Nat \ {0} /\ j \in 0 .. Slots - 1 /\ k # NoKey
  BY SlotsAssumption, KeysAssumption
<1>2. Chain(k, d) \in SlotIds /\ Chain(k, j) \in SlotIds
  BY <1>1, ChainIn
<1>3. CASE S[Chain(k, d)].hash = k
  <2>1. S[Chain(k, j)].hash # NoKey
    BY <1>3 DEF LaneInv, Tabled
  <2>2. QED
    BY <1>2, <2>1, HashLasts
<1>4. CASE S[Chain(k, d)].hash # k
  <2>1. /\ k = call[p].key /\ Chain(k, d) = Chain(k, call[p].i) /\ call[p].i \in 0 .. Slots - 1
        /\ \A e \in 0 .. call[p].i - 1 : S[Chain(k, e)].hash # NoKey
    BY <1>2, <1>4, NewKey
  <2>2. d = call[p].i
    BY <2>1, ChainOnce
  <2>3. CASE j = d
    BY <1>1, <2>3
  <2>4. CASE j # d
    <3>1. j \in 0 .. call[p].i - 1
      BY <1>1, <2>2, <2>4
    <3>2. QED
      BY <1>2, <2>1, <3>1, HashLasts
  <2>5. QED
    BY <2>3, <2>4
<1>5. QED
  BY <1>3, <1>4

LEMMA StandsStep ==
  ASSUME Dealt, StrongCAS, LaneInv, LinInv, NEW p \in Procs, Steps(p), NEW m \in DOMAIN KeySeq,
         ~ Seeding \/ m < t[Main].i \/ (m = t[Main].i /\ pc'[Main] = "idle")
  PROVE  Stands(KeySeq[m])'
<1>1. KeySeq[m] # NoKey /\ Main \in Procs
  BY HarnessAssumption, KeysAssumption
<1>2. Stands(KeySeq[m])
  <2>1. CASE ~ Seeding \/ m < t[Main].i \/ (m = t[Main].i /\ pc[Main] = "idle")
    BY <2>1 DEF LaneInv, Tabled
  <2>2. CASE Seeding /\ m = t[Main].i /\ pc'[Main] = "idle" /\ pc[Main] # "idle"
    <3>1. p = Main
      BY <1>1, <2>2 DEF Steps, Discreet, OthersStay
    <3>2. InCall(p) /\ Op(p) = "set" /\ Typed
      BY <2>2, LinParts, SeedAlone DEF Steps
    <3>3. Over(p)
      BY <2>2, <3>1, <3>2, ProbeHitIs, ProbeNextIs DEF Steps, Onward, Outside
    <3>4. pc[p] \in {"dirty", "bell"} /\ pc[p] # "probe"
      BY <3>2, <3>3 DEF Over
    <3>5. Slot(p).hash = call[p].key
      BY <3>2, <3>4 DEF LaneInv, Hits
    <3>6. call[p].key = KeySeq[m]
      BY <2>2, <3>1, <3>2 DEF LaneInv, Placed
    <3>7. At(p) \in SlotIds
      BY <3>2, SlotTyped
    <3>8. QED
      BY <3>5, <3>6, <3>7 DEF Stands, Slot
  <2>3. QED
    BY <2>1, <2>2
<1>3. QED
  BY <1>1, <1>2, HashLasts DEF Stands

LEMMA TabledStep ==
  ASSUME Dealt, StrongCAS, LaneInv, LinInv, NEW p \in Procs, Steps(p)
  PROVE  Tabled'
<1>1. Tabled /\ t' = t /\ Seeding' = Seeding /\ InCall(p)
  BY DEF LaneInv, Steps, harnessVars, Seeding
<1>2. ASSUME NEW s \in SlotIds
      PROVE  /\ S'[s].key # S'[s].hash => S'[s].key = NoKey /\ Wiping(s)'
             /\ S'[s].hash \in {NoKey} \cup {KeySeq[i] : i \in DOMAIN KeySeq}
  <2>1. S'[s].key # S'[s].hash => S'[s].key = NoKey /\ Wiping(s)'
    BY <1>1, KeyStep DEF Steps, Discreet
  <2>2. S'[s].hash = S[s].hash \/ S'[s].hash = call[p].key
    BY NewKey
  <2>3. QED
    BY <1>1, <2>1, <2>2, Busy DEF Tabled
<1>3. ASSUME NEW r \in SlotIds, NEW s \in SlotIds, S'[r].hash = S'[s].hash, S'[s].hash # NoKey
      PROVE  r = s
  <2>1. CASE S'[r].hash = S[r].hash /\ S'[s].hash = S[s].hash
    BY <1>1, <1>3, <2>1 DEF Tabled
  <2>2. CASE S'[r].hash # S[r].hash
    BY <1>3, <2>2, NewKey
  <2>3. CASE S'[s].hash # S[s].hash
    BY <1>3, <2>3, NewKey
  <2>4. QED
    BY <2>1, <2>2, <2>3
<1>4. \A k \in Keys, d \in 0 .. Slots - 1 : S'[Chain(k, d)].hash = k =>
        \A i \in 0 .. d : S'[Chain(k, i)].hash # NoKey
  BY ChainsStep
<1>5. \A i \in DOMAIN KeySeq :
        ~ Seeding \/ i < t[Main].i \/ (i = t[Main].i /\ pc'[Main] = "idle") => Stands(KeySeq[i])'
  BY StandsStep
<1>6. QED
  BY <1>1, <1>2, <1>3, <1>4, <1>5 DEF Tabled, Chain, Stands

(* A step of a call keeps the invariant. *)
LEMMA LaneStep ==
  ASSUME Dealt, StrongCAS, LaneInv, LinInv, Typed', NEW p \in Procs, Step(p), UNCHANGED harnessVars
  PROVE  LaneInv'
<1>1. Steps(p) /\ KeepsCall(p)
  BY IsSteps
<1>2. Threads'
  BY DEF LaneInv, Threads, harnessVars
<1>3. ASSUME NEW q \in Procs
      PROVE  Placed(q)' /\ Walks(q)' /\ Hits(q)' /\ Rests(q)'
  <2>1. CASE q = p
    BY <1>1, <2>1, PlacedOwn, WalksOwn, HitsOwn, RestsOwn
  <2>2. CASE q # p
    <3>1. q \in Procs \ {p}
      BY <2>2
    <3>2. Placed(q)'
      BY <1>1, <3>1, OthersSame, RetStep, PlacedOther
    <3>3. QED
      BY <1>1, <3>1, <3>2, WalksOther, HitsOther, RestsOther
  <2>3. QED
    BY <2>1, <2>2
<1>4. QED
  BY <1>1, <1>2, <1>3, TabledStep DEF LaneInv

-----------------------------------------------------------------------------
(* The harness's own steps *)

LEMMA BeginIs ==
  ASSUME Dealt, StrongCAS, LaneInv, LinInv, NEW p \in Procs, NEW o \in {"set", "get"}, Calling(p, o)
  PROVE  /\ pc[p] = "idle" /\ UNCHANGED S /\ \A q \in Procs \ {p} : t'[q] = t[q]
         /\ pc'[p] = "probe" /\ InCall(p)' /\ Op(p)' = o
         /\ call'[p].key = KeySeq[t'[p].i] /\ call'[p].i = 0 /\ ~ call'[p].busy
         /\ \A q \in Procs \ {p} : /\ pc'[q] = pc[q] /\ call'[q] = call[q]
                                   /\ ret'[q] = ret[q] /\ left'[q] = left[q]
         /\ left[p] > 0 /\ left'[p] = left[p] - 1 /\ ret'[p] = Nothing
<1>0. CallOn(p, o) /\ t'[p].i \in DOMAIN KeySeq
  BY DEF Calling
<1>1. PICK c \in Calls[p], m \in Lens :
           Begin(p, c, m) /\ c.op = o /\ c.key = KeySeq[t'[p].i]
  BY <1>0, CallOnBegins
<1>2. /\ pc \in [Procs -> PCs] /\ call \in [Procs -> CallType] /\ ret \in [Procs -> RetType]
      /\ left \in [Procs -> Nat]
  BY LinParts DEF Typed, TypeOK
<1> DEFINE i == [Idle EXCEPT !.op = c.op, !.key = c.key,
                             !.n = IF c.op \in {"set", "append"} THEN m ELSE 0]
<1>3. i.op = o /\ i.key = KeySeq[t'[p].i] /\ i.i = 0 /\ ~ i.busy
  BY <1>1 DEF Idle
<1>4. call' = [call EXCEPT ![p] = i] /\ pc' = [pc EXCEPT ![p] = "probe"]
      /\ ret' = [ret EXCEPT ![p] = Nothing] /\ left' = [left EXCEPT ![p] = @ - 1]
      /\ pc[p] = "idle" /\ left[p] > 0 /\ UNCHANGED S
  BY <1>1 DEF Begin, Goto
<1> HIDE DEF i
<1>5. \A q \in Procs \ {p} : t'[q] = t[q]
  <2>1. PICK a \in {"seed", "set", "get"}, j \in DOMAIN KeySeq : t' = [t EXCEPT ![p].at = a, ![p].i = j]
    BY DEF Calling
  <2>2. QED
    BY <2>1 DEF LaneInv, Threads
<1>6. QED
  BY <1>2, <1>3, <1>4, <1>5 DEF InCall, Outside, Op

LEMMA CallingLane ==
  ASSUME Dealt, StrongCAS, LaneInv, LinInv, NEW p \in Procs, NEW o \in {"set", "get"}, Calling(p, o)
  PROVE  LaneInv'
<1>1. Placed(p) /\ Threads /\ Tabled
  BY DEF LaneInv
<1>2. PICK a \in {"seed", "set", "get"}, i \in DOMAIN KeySeq : t' = [t EXCEPT ![p].at = a, ![p].i = i]
  BY DEF Calling
<1>3. t'[p].at = a /\ t'[p].i = i /\ i \in Nat /\ i \in 1 .. Len(KeySeq) /\ Main \in Procs
  BY <1>1, <1>2, HarnessAssumption DEF Threads
<1>4. Threads'
  <2>1. a \in Places
    BY DEF Places
  <2>2. QED
    BY <1>1, <1>2, <1>3, <2>1 DEF Threads
<1>5. Seeding' = Seeding /\ (Seeding => p = Main \/ t'[Main] = t[Main])
  <2>1. CASE p # Main
    BY <1>3, <2>1, BeginIs DEF Seeding
  <2>2. CASE p = Main
    BY <1>1, <2>2, WriterIs DEF Calling, Seeding, Placed
  <2>3. QED
    BY <2>1, <2>2
<1>6. Placed(p)'
  <2>1. CASE p = Main
    <3>1. o = "set" /\ t[p].at = "seed" /\ t'[p].at = "seed"
      BY <1>1, <2>1, WriterIs DEF Calling, Placed
    <3>2. QED
      BY <1>3, <2>1, <3>1, BeginIs, WriterIs DEF Placed, IsWriter, LaneOf
  <2>2. CASE p # Main /\ IsWriter(p)
    <3>1. o = "set" /\ t[p].at = "loop" /\ t'[p].at = "set" /\ t'[p].i = t[p].i
      BY <2>2, WriterIs DEF Calling
    <3>2. t[p].i \in LaneOf(p) /\ ~ Seeding
      BY <1>1, <2>2, <3>1 DEF Placed
    <3>3. QED
      BY <1>3, <1>5, <2>2, <3>1, <3>2, BeginIs DEF Placed, IsWriter, LaneOf
  <2>3. CASE p # Main /\ ~ IsWriter(p)
    <3>1. o = "get" /\ t[p].at \in {"loop", "retry"} /\ t'[p].at = "get" /\ p \in Readers
      BY <2>3 DEF Calling
    <3>2. ~ Seeding
      BY <1>1, <2>3, <3>1 DEF Placed
    <3>3. QED
      BY <1>3, <1>5, <2>3, <3>1, <3>2, BeginIs DEF Placed, IsWriter, LaneOf
  <2>4. QED
    BY <2>1, <2>2, <2>3
<1>7. Tabled'
  <2>1. ASSUME NEW m \in DOMAIN KeySeq,
               ~ Seeding' \/ m < t'[Main].i \/ (m = t'[Main].i /\ pc'[Main] = "idle")
        PROVE  Stands(KeySeq[m])
    <3>1. m \in Nat
      BY HarnessAssumption
    <3>2. ~ Seeding \/ m < t[Main].i \/ (m = t[Main].i /\ pc[Main] = "idle")
      <4>1. CASE p = Main
        <5>1. t'[p].i = t[p].i + 1
          BY <1>1, <4>1, WriterIs DEF Calling, Placed
        <5>2. t[p].i \in Nat /\ pc[p] = "idle" /\ pc'[p] = "probe"
          BY <1>1, BeginIs DEF Threads
        <5>3. QED
          BY <1>5, <2>1, <3>1, <4>1, <5>1, <5>2
      <4>2. CASE p # Main
        BY <1>3, <1>5, <2>1, <4>2, BeginIs
      <4>3. QED
        BY <4>1, <4>2
    <3>3. QED
      BY <1>1, <3>2 DEF Tabled
  <2>2. UNCHANGED S /\ pc[p] = "idle" /\ \A q \in Procs \ {p} : pc'[q] = pc[q] /\ call'[q] = call[q]
    BY BeginIs
  <2>3. \A s \in SlotIds : Wiping(s) => Wiping(s)'
    BY <2>2 DEF Wiping, At
  <2>4. QED
    BY <1>1, <2>1, <2>2, <2>3 DEF Tabled, Stands, Chain
<1>8. Walks(p)' /\ Hits(p)' /\ Rests(p)'
  BY BeginIs, SlotsAssumption DEF Walks, Hits, Rests
<1>9. ASSUME NEW q \in Procs \ {p}
      PROVE  Placed(q)' /\ Walks(q)' /\ Hits(q)' /\ Rests(q)'
  <2>1. Walks(q) /\ Hits(q) /\ Rests(q)
    BY DEF LaneInv
  <2>2. /\ UNCHANGED S /\ pc'[q] = pc[q] /\ call'[q] = call[q] /\ ret'[q] = ret[q]
        /\ left'[q] = left[q] /\ t'[q] = t[q]
    BY BeginIs
  <2>3. Placed(q)'
    BY <1>5, <2>2, PlacedOther
  <2>4. Walks(q)'
    BY <2>1, <2>2 DEF Walks, InCall, Op, At, Chain
  <2>5. Hits(q)'
    BY <1>5, <2>1, <2>2 DEF Hits, InCall, Op, At, Slot, Ver
  <2>6. Rests(q)'
    BY <2>1, <2>2 DEF Rests, IsWriter, LaneOf
  <2>7. QED
    BY <2>3, <2>4, <2>5, <2>6
<1>10. QED
  BY <1>4, <1>6, <1>7, <1>8, <1>9 DEF LaneInv

(* A step outside the library: only a thread's own place changes. *)
LEMMA LocalLane ==
  ASSUME LaneInv, UNCHANGED vars, Threads', \A q \in Procs : Placed(q)',
         Seeding' => Seeding, t'[Main].i = t[Main].i,
         Seeding /\ ~ Seeding' => pc[Main] = "idle" /\ t[Main].i = Len(KeySeq)
  PROVE  LaneInv'
<1> USE DEF vars
<1>1. Main \in Procs /\ Tabled
  BY HarnessAssumption DEF LaneInv
<1>2. Tabled'
  <2>1. ASSUME NEW m \in DOMAIN KeySeq,
               ~ Seeding' \/ m < t'[Main].i \/ (m = t'[Main].i /\ pc[Main] = "idle")
        PROVE  Stands(KeySeq[m])
    <3>1. m \in 1 .. Len(KeySeq) /\ Len(KeySeq) \in Nat
      BY HarnessAssumption
    <3>2. ~ Seeding \/ m < t[Main].i \/ (m = t[Main].i /\ pc[Main] = "idle")
      BY <2>1, <3>1
    <3>3. QED
      BY <1>1, <3>2 DEF Tabled
  <2>2. QED
    BY <1>1, <2>1 DEF Tabled, Stands, Chain, Wiping, At
<1>3. ASSUME NEW q \in Procs
      PROVE  Walks(q)' /\ Hits(q)' /\ Rests(q)'
  <2>1. Walks(q) /\ Hits(q) /\ Rests(q)
    BY DEF LaneInv
  <2>2. Seeding /\ ~ Seeding' => ~ InCall(q)
    BY <1>1, SeedAlone DEF InCall, Outside
  <2>3. Walks(q)'
    BY <2>1 DEF Walks, InCall, Op, At, Chain
  <2>4. Hits(q)'
    BY <2>1, <2>2 DEF Hits, InCall, Op, At, Slot, Ver
  <2>5. Rests(q)'
    BY <2>1 DEF Rests, IsWriter, LaneOf
  <2>6. QED
    BY <2>3, <2>4, <2>5
<1>4. QED
  BY <1>2, <1>3 DEF LaneInv

LEMMA LaneNonempty == 1 \in 0 .. Len(KeySeq) /\ Len(KeySeq) \in Nat
<1>1. Len(Writers) \in Nat /\ Len(Writers) > 0 /\ Len(KeySeq) \in Nat /\ Len(KeySeq) >= Len(Writers)
  BY HarnessAssumption
<1>2. QED
  BY <1>1

(* Where a thread goes. *)
Moved(p, a, i) == \E e \in {"none", "EAGAIN"} : t' = [t EXCEPT ![p].at = a, ![p].i = i, ![p].errno = e]

LEMMA MovedLane ==
  ASSUME Dealt, LaneInv, UNCHANGED vars, NEW p \in Procs, NEW a \in Places, NEW i \in Nat, Moved(p, a, i),
         pc[p] = "idle", i \in 0 .. Len(KeySeq), a # "seed",
         IF p = Main
           THEN i = t[p].i /\ a \in {"create", "join", "ended"} /\ (Seeding => i = Len(KeySeq))
           ELSE a \in {"loop", "retry", "ended"} /\ ~ Seeding,
         IsWriter(p) /\ a = "loop" => i \in LaneOf(p),
         a = "retry" => p \in Readers /\ i > 0
  PROVE  LaneInv'
<1>1. PICK e \in {"none", "EAGAIN"} : t' = [t EXCEPT ![p].at = a, ![p].i = i, ![p].errno = e]
  BY DEF Moved
<1>2. Threads /\ Main \in Procs
  BY HarnessAssumption DEF LaneInv
<1>3. t'[p].at = a /\ t'[p].i = i /\ \A q \in Procs \ {p} : t'[q] = t[q]
  BY <1>1, <1>2 DEF Threads
<1>4. Threads'
  <2>1. t' \in [Procs -> [at : Places, i : Nat, errno : {"none", "EAGAIN"}]]
    BY ZenonT(30), <1>1, <1>2 DEF Threads
  <2>2. QED
    BY <2>1 DEF Threads
<1>5. (Seeding' => Seeding) /\ t'[Main].i = t[Main].i
      /\ (Seeding /\ ~ Seeding' => pc[Main] = "idle" /\ t[Main].i = Len(KeySeq))
  BY <1>2, <1>3 DEF Seeding
<1>6. ASSUME NEW q \in Procs
      PROVE  Placed(q)'
  <2>1. CASE q # p
    BY <1>3, <1>5, <2>1, PlacedOther DEF vars
  <2>2. CASE q = p
    <3>1. pc'[p] = "idle" /\ ~ InCall(p)'
      BY DEF vars, InCall, Outside
    <3>2. CASE p = Main
      BY <1>3, <2>2, <3>1, <3>2, WriterIs DEF Placed, IsWriter, LaneOf
    <3>3. CASE p # Main
      BY <1>3, <1>5, <2>2, <3>1, <3>3 DEF Placed, IsWriter, LaneOf
    <3>4. QED
      BY <3>2, <3>3
  <2>3. QED
    BY <2>1, <2>2
<1>7. QED
  BY <1>4, <1>5, <1>6, LocalLane

LEMMA MainMoves ==
  ASSUME Dealt, LaneInv, Seeded \/ Stop \/ Join
  PROVE  LaneInv'
<1>1. Main \in Procs /\ Placed(Main) /\ Threads /\ Len(KeySeq) \in Nat
  BY HarnessAssumption DEF LaneInv
<1>2. UNCHANGED vars /\ pc[Main] = "idle" /\ (Seeding => t[Main].i = Len(KeySeq))
  BY <1>1 DEF Seeded, Stop, Join, Back, Placed, Seeding
<1>3. PICK a \in {"create", "join", "ended"} : t' = [t EXCEPT ![Main].at = a]
  BY DEF Seeded, Stop, Join, To
<1>4. t' = [t EXCEPT ![Main].at = a, ![Main].i = t[Main].i, ![Main].errno = t[Main].errno]
  BY <1>1, <1>3 DEF Threads
<1>5. Moved(Main, a, t[Main].i) /\ t[Main].i \in Nat /\ a \in Places
  BY <1>1, <1>3, <1>4 DEF Moved, Threads, Places
<1>6. QED
  BY <1>1, <1>2, <1>3, <1>5, MovedLane, WriterIs DEF Placed

LEMMA ThreadMoves ==
  ASSUME Dealt, LaneInv, NEW p \in Procs, Create(p) \/ Written(p) \/ Read1(p) \/ Leave(p)
  PROVE  LaneInv'
<1>1. Main \in Procs /\ Placed(p) /\ Threads /\ UNCHANGED vars /\ Placed(Main)
  BY HarnessAssumption DEF LaneInv, Create, Written, Read1, Leave, Back
<1>2. t[p].at \in {"none", "set", "get", "loop", "retry"} /\ (Seeding => t[p].at = "none" \/ p = Main)
  BY <1>1 DEF Create, Written, Read1, Leave, Placed
<1>3. p # Main
  <2>1. CASE Create(p)
    BY <2>1 DEF Create
  <2>2. CASE Written(p) \/ Read1(p) \/ Leave(p)
    BY <1>1, <2>2 DEF Written, Read1, Leave, Placed
  <2>3. QED
    BY <2>1, <2>2
<1>4. CASE Create(p)
  <2>1. ~ Seeding /\ pc[p] = "idle"
    BY <1>1, <1>4 DEF Create, Seeding, Placed
  <2>2. PICK i \in 0 .. Len(KeySeq) : /\ t' = [t EXCEPT ![p].at = "loop", ![p].i = i]
                                      /\ IsWriter(p) => i \in LaneOf(p)
    <3>1. CASE IsWriter(p)
      <4>1. First(p) \in LaneOf(p) /\ First(p) \in 0 .. Len(KeySeq)
        BY <3>1, WriterIs, HarnessAssumption
      <4>2. QED
        BY <1>4, <3>1, <4>1 DEF Create
    <3>2. CASE ~ IsWriter(p)
      BY <1>4, <3>2, LaneNonempty DEF Create
    <3>3. QED
      BY <3>1, <3>2
  <2>3. t' = [t EXCEPT ![p].at = "loop", ![p].i = i, ![p].errno = t[p].errno]
    BY <1>1, <2>2 DEF Threads
  <2>4. Moved(p, "loop", i) /\ "loop" \in Places
    BY <1>1, <2>3 DEF Moved, Threads, Places
  <2>5. i \in Nat
    BY LaneNonempty
  <2>6. QED
    BY <1>1, <1>3, <2>1, <2>2, <2>4, <2>5, MovedLane
<1>5. CASE Written(p)
  <2>1. ~ Seeding /\ pc[p] = "idle" /\ IsWriter(p)
    BY <1>1, <1>2, <1>3, <1>5 DEF Written, Back, Placed
  <2> DEFINE i == IF t[p].i + 1 \in LaneOf(p) THEN t[p].i + 1 ELSE First(p)
  <2>2. i \in LaneOf(p) /\ i \in 0 .. Len(KeySeq) /\ i \in Nat
    BY <2>1, WriterIs, HarnessAssumption
  <2>3. t' = [t EXCEPT ![p].at = "loop", ![p].i = i, ![p].errno = t[p].errno]
    BY <1>1, <1>5 DEF Written, Threads
  <2> HIDE DEF i
  <2>4. Moved(p, "loop", i) /\ "loop" \in Places
    BY <1>1, <2>3 DEF Moved, Threads, Places
  <2>5. QED
    BY <1>1, <1>3, <2>1, <2>2, <2>4, MovedLane
<1>6. CASE Read1(p)
  <2>1. ~ Seeding /\ pc[p] = "idle" /\ p \in Readers /\ t[p].i \in 1 .. Len(KeySeq)
    BY <1>1, <1>2, <1>3, <1>6, LaneNonempty DEF Read1, Back, Placed
  <2>2. PICK a \in {"loop", "retry"}, e \in {"none", "EAGAIN"} :
             t' = [t EXCEPT ![p].errno = e, ![p].at = a]
    <3> DEFINE e == IF ret[p].rc = "busy" THEN "EAGAIN" ELSE t[p].errno
               a == IF ret[p].rc # "ok" /\ e = "EAGAIN" THEN "retry" ELSE "loop"
    <3>1. t' = [t EXCEPT ![p].errno = e, ![p].at = a]
      BY <1>6 DEF Read1
    <3>2. e \in {"none", "EAGAIN"} /\ a \in {"loop", "retry"}
      BY <1>1 DEF Threads
    <3> HIDE DEF e, a
    <3>3. QED
      BY <3>1, <3>2
  <2>3. t' = [t EXCEPT ![p].at = a, ![p].i = t[p].i, ![p].errno = e]
    BY <1>1, <2>2 DEF Threads
  <2>4. Moved(p, a, t[p].i) /\ a \in Places
    BY <2>2, <2>3 DEF Moved, Places
  <2>5. t[p].i \in Nat /\ t[p].i > 0 /\ t[p].i \in 0 .. Len(KeySeq)
    BY <2>1, LaneNonempty
  <2>6. ~ IsWriter(p)
    BY <2>1, WriterIs
  <2>7. QED
    BY <1>1, <1>3, <2>1, <2>2, <2>4, <2>5, <2>6, MovedLane
<1>7. CASE Leave(p)
  <2>1. ~ Seeding /\ pc[p] = "idle" /\ t[p].i \in 0 .. Len(KeySeq)
    BY <1>1, <1>2, <1>3, <1>7 DEF Leave, Placed
  <2>2. t' = [t EXCEPT ![p].at = "ended", ![p].i = t[p].i, ![p].errno = t[p].errno]
    BY <1>1, <1>7 DEF Leave, To, Threads
  <2>3. Moved(p, "ended", t[p].i) /\ t[p].i \in Nat /\ "ended" \in Places
    BY <1>1, <2>2 DEF Moved, Threads, Places
  <2>4. QED
    BY <1>1, <1>3, <2>1, <2>3, MovedLane
<1>8. QED
  BY <1>4, <1>5, <1>6, <1>7

-----------------------------------------------------------------------------
(* The invariant *)

LEMMA LaneInit == Dealt /\ HarnessInit => LaneInv /\ LinInv
<1> SUFFICES ASSUME Dealt, HarnessInit
             PROVE  LaneInv /\ LinInv
  OBVIOUS
<1>1. LinInv /\ Main \in Procs /\ KeySeq \in Seq(Keys) /\ Len(KeySeq) \in Nat
  BY LinInit, HarnessAssumption DEF HarnessInit
<1>2. /\ \A s \in SlotIds : S[s].hash = NoKey /\ S[s].key = NoKey
      /\ \A p \in Procs : pc[p] = "idle" /\ ret[p].rc = "none"
  <2>1. \A s \in SlotIds : S[s] = Empty
    BY DEF HarnessInit, Init, Dealt
  <2>2. QED
    BY <2>1 DEF HarnessInit, Init, Empty, Nothing
<1>3. /\ Threads /\ Seeding /\ t[Main].i = 0
      /\ \A p \in Procs : t[p].at = (IF p = Main THEN "seed" ELSE "none") /\ t[p].i = 0
  BY <1>1 DEF HarnessInit, Threads, Places, Seeding
<1>4. Tabled
  <2>1. \A k \in Keys, d \in 0 .. Slots - 1 : S[Chain(k, d)].hash # k
    BY <1>2, ChainIn, KeysAssumption
  <2>2. \A i \in DOMAIN KeySeq : ~ (i < 0) /\ i # 0
    BY <1>1
  <2>3. QED
    BY <1>2, <1>3, <2>1, <2>2 DEF Tabled
<1>5. ASSUME NEW p \in Procs
      PROVE  Placed(p) /\ Walks(p) /\ Hits(p) /\ Rests(p)
  <2>1. ~ InCall(p)
    BY <1>2 DEF InCall, Outside
  <2>2. Placed(p)
    BY <1>1, <1>2, <1>3, <2>1 DEF Placed
  <2>3. QED
    BY <1>2, <2>1, <2>2 DEF Walks, Hits, Rests
<1>6. QED
  BY <1>1, <1>3, <1>4, <1>5 DEF LaneInv

LEMMA LaneStays ==
  ASSUME LaneInv, UNCHANGED laneVars
  PROVE  LaneInv'
<1>1. UNCHANGED vars /\ t' = t /\ Seeding' = Seeding
  BY DEF laneVars, harnessVars, Seeding
<1>2. Threads' /\ \A q \in Procs : Placed(q)'
  BY <1>1, PlacedOther DEF LaneInv, Threads, vars
<1>3. QED
  BY <1>1, <1>2, LocalLane

LEMMA LaneNext ==
  ASSUME Dealt, StrongCAS, LaneInv, LinInv, [HarnessNext]_laneVars
  PROVE  LaneInv' /\ LinInv'
<1>1. [Next]_vars /\ LinInv'
  BY HarnessStep, DealtPlain, FreeKept, LinStep
<1>2. CASE UNCHANGED laneVars
  BY <1>1, <1>2, LaneStays
<1>3. Main \in Procs /\ Typed'
  BY <1>1, HarnessAssumption DEF LinInv, IInv, Typed
<1>4. CASE Seeded \/ Stop \/ Join
  BY <1>1, <1>4, MainMoves
<1>5. ASSUME NEW p \in Procs, Seed \/ Write1(p) \/ Sample(p) \/ Retry(p)
      PROVE  LaneInv'
  <2>1. Threads /\ Placed(p)
    BY DEF LaneInv
  <2>2. QED
    BY <1>5, <2>1, CallingStep, CallingLane
<1>6. ASSUME NEW p \in Procs, Thread(p) \/ (Step(p) /\ UNCHANGED harnessVars)
      PROVE  LaneInv'
  BY <1>3, <1>5, <1>6, ThreadMoves, LaneStep DEF Thread
<1>7. QED
  BY <1>1, <1>2, <1>3, <1>4, <1>5, <1>6 DEF HarnessNext

THEOREM LaneInvariant ==
  ASSUME Dealt, StrongCAS
  PROVE  HarnessSpec => [](LaneInv /\ LinInv)
<1>1. HarnessInit => LaneInv /\ LinInv
  BY LaneInit
<1>2. LaneInv /\ LinInv /\ [HarnessNext]_laneVars => (LaneInv /\ LinInv)'
  BY LaneNext
<1>3. QED
  BY <1>1, <1>2, PTL DEF HarnessSpec

(* A key is in at most one slot, while it is seeded and ever after: two    *)
(* threads that set different keys never lay claim to one free slot, and   *)
(* a set stops at its key before the free slots behind it.                 *)
THEOREM KeyHasOneSlot ==
  ASSUME Dealt, StrongCAS
  PROVE  HarnessSpec => []OneSlotPerKey
<1>1. LaneInv => OneSlotPerKey
  <2>1. SUFFICES ASSUME LaneInv, NEW k \in Keys
                 PROVE  Cardinality({s \in SlotIds : S[s].hash = k}) <= 1
    BY DEF OneSlotPerKey
  <2> DEFINE T == {s \in SlotIds : S[s].hash = k}
  <2>2. \A r, s \in T : r = s
    BY <2>1, KeysAssumption DEF LaneInv, Tabled
  <2>3. CASE T = {}
    BY <2>3, FS_EmptySet
  <2>4. CASE T # {}
    <3>1. PICK s : T = {s}
      BY <2>2, <2>4
    <3>2. Cardinality(T) = 1
      BY <3>1, FS_Singleton
    <3>3. QED
      BY <3>2
  <2>5. QED
    BY <2>3, <2>4
<1>2. QED
  BY <1>1, LaneInvariant, PTL

(* In a table where a key is in one slot, that is the slot it is found in. *)
LEMMA ReachedIs ==
  ASSUME Tabled, NEW s \in SlotIds, NEW k \in Keys, S[s].hash = k, S[s].key = k
  PROVE  Reached(k) = s /\ s # Slots
<1>1. PICK d \in 0 .. Slots - 1 : Chain(k, d) = s
  BY ChainCovers
<1>2. S[s].key = k /\ \A r \in SlotIds : S[r].hash = k => r = s
  BY KeysAssumption DEF Tabled
<1>3. ASSUME NEW i \in 0 .. Slots - 1, S[Chain(k, i)].hash = k
      PROVE  i = d
  BY <1>1, <1>2, <1>3, ChainIn, ChainOnce
<1>4. Distance(k) = {d}
  BY <1>1, <1>2, <1>3 DEF Distance, Chain
<1>5. (CHOOSE i \in {d} : \A j \in {d} : i <= j) = d
  BY SlotsAssumption
<1>6. QED
  BY <1>1, <1>4, <1>5, SlotsAssumption DEF Reached, Chain, SlotIds

(* No set of a writer fails, and until its next one a lookup of the key    *)
(* finds all of the value.                                                 *)
THEOREM LanesKept ==
  ASSUME Dealt, StrongCAS
  PROVE  HarnessSpec => []LanesHold
<1>1. LaneInv /\ LinInv => LanesHold
  <2>1. SUFFICES ASSUME LaneInv, LinInv, NEW p \in Procs, IsWriter(p),
                        pc[p] = "idle", ret[p].op = "set", ret[p].rc # "none"
                 PROVE  ret[p].rc = "ok" /\ HoldsSet(p)
    BY HarnessAssumption DEF LanesHold, IsWriter
  <2>2. Rests(p) /\ Placed(p) /\ p # Main /\ Tabled
    BY <2>1, WriterIs DEF LaneInv
  <2>3. PICK i \in LaneOf(p) : ret[p].key = KeySeq[i]
    BY <2>1, <2>2 DEF Rests
  <2>4. i \in DOMAIN KeySeq /\ ret[p].key \in Keys
    BY <2>1, <2>3, WriterIs, HarnessAssumption
  <2>5. Stands(ret[p].key)
    BY <2>1, <2>2, <2>3, <2>4 DEF Placed, Tabled
  <2>6. PICK s \in SlotIds : S[s].hash = ret[p].key
    BY <2>5 DEF Stands
  <2>7. Reached(ret[p].key) = s /\ s # Slots
    <3>1. ~ Seeding
      BY <2>1, <2>2 DEF Placed
    <3>2. S[s].key = S[s].hash
      BY <2>1, <2>3, <2>6, <3>1, NotWiped
    <3>3. QED
      BY <2>2, <2>4, <2>6, <3>2, ReachedIs
  <2>8. QED
    BY <2>1, <2>2, <2>6, <2>7 DEF Rests, HoldsSet
<1>2. QED
  BY <1>1, LaneInvariant, PTL

(* The harness is a use of the slot table in which a free slot is kept:    *)
(* whatever it does, the table behaves like one register per slot.         *)
THEOREM HarnessLinearizes ==
  ASSUME Dealt, StrongCAS
  PROVE  HarnessSpec => Linearizable
<1>1. LaneInv /\ [HarnessNext]_laneVars => [Next]_vars
  BY HarnessStep
<1>2. LaneInv => FreeSlotKept
  BY FreeKept
<1>3. HarnessInit => Init
  BY DEF HarnessInit
<1>4. HarnessSpec => [](LaneInv /\ LinInv)
  BY LaneInvariant
<1>5. HarnessSpec => Spec /\ []FreeSlotKept
  BY <1>1, <1>2, <1>3, <1>4, PTL DEF HarnessSpec, Spec
<1>6. Spec /\ []FreeSlotKept => Linearizable
  BY DealtPlain, FreeSlotKeptLinearizes
<1>7. QED
  BY <1>5, <1>6

-----------------------------------------------------------------------------
(* What the readers see *)

(* Where a call has stored nothing yet. *)
Before == {"probe", "found", "cas", "scrub"}

LEMMA BeforeStep ==
  ASSUME Dealt, StrongCAS, LaneInv, LinInv, NEW p \in Procs, Steps(p)
  PROVE  /\ pc'[p] \in Before => pc[p] \in Before
         /\ UNCHANGED left
<1>1. InCall(p) /\ Op(p) \in {"set", "get"}
  BY Busy DEF Steps
<1>2. CASE Onward(p)
  BY <1>1, <1>2, SetNext, OnwardGet DEF Before, After, Onward
<1>3. CASE ProbeHit(p) \/ ProbeNext(p)
  BY <1>1, <1>3, ProbeHitIs, ProbeNextIs DEF Before, ProbeHit, ProbeNext
<1>4. CASE Over(p)
  <2>1. PICK rc : Return(p, rc)
    BY <1>1, <1>4 DEF Over, ReadVerify
  <2>2. QED
    BY <1>4, <2>1 DEF Over, Return, Before
<1>5. QED
  BY <1>2, <1>3, <1>4 DEF Steps

LEMMA PastStep ==
  ASSUME Dealt, StrongCAS, LaneInv, LinInv, NEW p \in Procs, Steps(p), NEW x, Past(x)
  PROVE  Past(x)'
<1>1. x[2] \in Procs
  BY DEF Past
<1>2. CASE x[2] = p
  BY <1>2, BeforeStep DEF Past, Before, InCall, Steps
<1>3. CASE x[2] # p
  BY <1>1, <1>3, BeforeStep, OthersSame DEF Past, InCall
<1>4. QED
  BY <1>2, <1>3

LEMMA PastCall ==
  ASSUME Dealt, StrongCAS, LaneInv, LinInv, NEW p \in Procs, NEW o \in {"set", "get"}, Calling(p, o),
         NEW x, Past(x)
  PROVE  Past(x)'
<1>1. x[2] \in Procs /\ x[3] \in Nat /\ left \in [Procs -> Nat]
  BY LinParts DEF Past, Typed, TypeOK
<1>2. CASE x[2] = p
  BY <1>1, <1>2, BeginIs DEF Past
<1>3. CASE x[2] # p
  BY <1>1, <1>3, BeginIs DEF Past, InCall
<1>4. QED
  BY <1>2, <1>3

LEMMA OwnPast ==
  ASSUME Dealt, StrongCAS, LaneInv, LinInv, NEW p \in Procs, Steps(p), pc'[p] \notin Before,
         NEW x, x = Ver(p)
  PROVE  Past(x)'
<1>1. call[p].key \in Keys /\ left[p] \in Nat /\ UNCHANGED left
  BY Busy, LinParts, BeforeStep DEF Typed, TypeOK, Steps
<1>2. x[2] = p /\ x[3] = left[p] /\ x \in Keys \X Procs \X Nat
  BY <1>1 DEF Ver
<1>3. QED
  BY <1>1, <1>2 DEF Past, Before

(* The cells of a value change only under the set that writes it. *)
Writes(p, s) == Op(p) = "set" /\ s = At(p) /\ pc[p] \in {"scrub", "fill"} /\ pc'[p] \in {"fill", "blank"}

LEMMA SlotPut ==
  ASSUME Typed, NEW p \in Procs, SetScrub(p) \/ SetFill(p) \/ SetBlank(p) \/ SetLink(p) \/ CloseSlot(p) \/ CasWin(p)
  PROVE  LET s == At(p) IN
         /\ SetScrub(p) => /\ S'[s].val = Overwrite(Overwrite(S[s].val, Scrubbed(call[p].n), Zero),
                                                    {1}, Ver(p))
                           /\ S'[s].val_len = S[s].val_len /\ S'[s].hash = S[s].hash
         /\ SetFill(p) => /\ S'[s].val = Overwrite(S[s].val, 2 .. call[p].n, Ver(p))
                          /\ S'[s].val_len = call[p].n /\ S'[s].hash = S[s].hash
         /\ SetBlank(p) => /\ S'[s].val = S[s].val /\ S'[s].val_len = S[s].val_len
                           /\ S'[s].hash = S[s].hash
         /\ SetLink(p) => /\ S'[s].val = S[s].val /\ S'[s].val_len = S[s].val_len
                          /\ S'[s].hash = call[p].key
         /\ CloseSlot(p) \/ CasWin(p) =>
              S'[s].val = S[s].val /\ S'[s].val_len = S[s].val_len /\ S'[s].hash = S[s].hash
<1> DEFINE s == At(p)
<1>1. s \in SlotIds /\ S \in [SlotIds -> SlotType]
  BY SlotTyped DEF Typed, TypeOK
<1>2. CASE SetScrub(p)
  <2>1. pc[p] = "scrub"
    BY <1>2 DEF SetScrub
  <2>2. S' = [S EXCEPT ![s].val = Overwrite(Overwrite(@, Scrubbed(call[p].n), Zero), {1}, Ver(p))]
    BY <1>2 DEF SetScrub
  <2>3. QED
    BY <1>1, <2>1, <2>2 DEF SlotType, SetFill, SetBlank, SetLink, CloseSlot, CasWin
<1>3. CASE SetFill(p)
  BY <1>1, <1>3 DEF SlotType, SetFill, SetScrub, SetBlank, SetLink, CloseSlot, CasWin
<1>4. CASE SetLink(p)
  BY <1>1, <1>4 DEF SlotType, SetFill, SetScrub, SetBlank, SetLink, CloseSlot, CasWin
<1>5. CASE CloseSlot(p) \/ CasWin(p)
  <2>1. S' = [S EXCEPT ![s].epoch = @ + 1] /\ pc[p] \in {"close", "cas"}
    BY <1>5 DEF CloseSlot, CasWin
  <2>2. QED
    BY <1>1, <2>1 DEF SlotType, SetFill, SetScrub, SetBlank, SetLink
<1>6. CASE SetBlank(p)
  BY <1>1, <1>6 DEF SlotType, SetFill, SetScrub, SetBlank, SetLink, CloseSlot, CasWin
<1>7. QED
  BY <1>2, <1>3, <1>4, <1>5, <1>6

(* After the fill, all of the value is the set's. *)
LEMMA Filled ==
  ASSUME LinInv, NEW p \in Procs, SetFill(p)
  PROVE  \A c \in 1 .. call[p].n : S'[At(p)].val[c] = Ver(p)
<1>1. Typed /\ Kept(p) /\ pc[p] = "fill" /\ InCall(p) /\ Op(p) = "set"
  BY LinParts DEF SetFill, InCall, Outside, Kept, Regular
<1>2. call[p].n \in 1 .. MaxLen /\ Slot(p).val[1] = Ver(p) /\ MaxLen \in Nat
  BY <1>1, SlotsAssumption DEF Kept, Regular, Pieces
<1>3. S'[At(p)].val = Overwrite(S[At(p)].val, 2 .. call[p].n, Ver(p))
  BY <1>1, SlotPut
<1>4. ASSUME NEW c \in 1 .. call[p].n
      PROVE  S'[At(p)].val[c] = Ver(p)
  <2>1. c \in 1 .. MaxLen /\ (c = 1 \/ c \in 2 .. call[p].n)
    BY <1>2
  <2>2. QED
    BY <1>2, <1>3, <2>1, OverwriteAt DEF Slot
<1>5. QED
  BY <1>4

LEMMA CellsStep ==
  ASSUME Dealt, StrongCAS, LaneInv, LinInv, NEW p \in Procs, Steps(p), NEW s \in SlotIds, NEW x \in Cells(s)'
  PROVE  x \in Cells(s) \/ (Writes(p, s) /\ x = Ver(p))
<1>1. Typed /\ InCall(p) /\ S \in [SlotIds -> SlotType] /\ At(p) \in SlotIds
  BY LinParts, SlotTyped DEF Steps, Typed, TypeOK
<1>2. PICK c \in 1 .. S'[s].val_len : x = S'[s].val[c] /\ x # Zero
  BY DEF Cells
<1>3. CASE S'[s].val = S[s].val /\ S'[s].val_len = S[s].val_len
  BY <1>2, <1>3 DEF Cells
<1>4. CASE ~ (S'[s].val = S[s].val /\ S'[s].val_len = S[s].val_len)
  <2>1. Holds(p, s)
    BY <1>4 DEF Steps, Discreet, SameCells
  <2>2. s = At(p) /\ pc[p] \in Critical /\ Op(p) = "set"
    BY <2>1, WriterSets DEF Holds
  <2>3. Onward(p)
    BY <1>1, <1>4, ProbeHitIs, ProbeNextIs DEF Steps, Over
  <2>4. CASE SetScrub(p) /\ pc'[p] = "fill"
    <3>1. Writes(p, s)
      BY <2>2, <2>4 DEF Writes, SetScrub
    <3>2. /\ S'[s].val = Overwrite(Overwrite(S[s].val, Scrubbed(call[p].n), Zero), {1}, Ver(p))
          /\ S'[s].val_len = S[s].val_len
      BY <1>1, <2>2, <2>4, SlotPut
    <3>3. c \in 1 .. MaxLen
      BY <1>1, <1>2, <3>2, SlotsAssumption DEF SlotType, Length
    <3>4. x = Ver(p) \/ x = Zero \/ x = S[s].val[c]
      BY <1>2, <3>2, <3>3, OverwriteAt
    <3>5. QED
      BY <1>2, <3>1, <3>2, <3>4 DEF Cells
  <2>5. CASE SetFill(p) /\ pc'[p] = "blank"
    <3>1. Writes(p, s)
      BY <2>2, <2>5 DEF Writes, SetFill
    <3>2. x = Ver(p)
      BY <1>1, <1>2, <2>2, <2>5, SlotPut, Filled
    <3>3. QED
      BY <3>1, <3>2
  <2>6. CASE SetBlank(p) \/ SetLink(p) \/ CloseSlot(p) \/ CasWin(p) \/ UNCHANGED S
    BY <1>1, <1>4, <2>2, <2>6, SlotPut
  <2>7. QED
    BY <2>2, <2>3, <2>4, <2>5, <2>6, SetNext
<1>5. QED
  BY <1>3, <1>4

LEMMA VerNotZero ==
  ASSUME NEW p
  PROVE  Ver(p) # Zero
<1>1. Len(Ver(p)) = 3 /\ Len(Zero) = 0
  BY DEF Ver, Zero
<1>2. QED
  BY <1>1

(* A set that has just linked its value has written all of it. *)
LEMMA Linked ==
  ASSUME LinInv, NEW p \in Procs, pc[p] = "link"
  PROVE  \A x \in Cells(At(p)) : x = Ver(p)
<1>1. Kept(p) /\ InCall(p)
  BY LinParts DEF InCall, Outside
<1>2. /\ Op(p) = "set" /\ call[p].n \in 1 .. MaxLen /\ Outcome(p).val = Slot(p).val
      /\ Slot(p).val_len = call[p].n
  BY <1>1 DEF Kept, Regular, Pieces
<1>3. Slot(p).val = SetWrites(p, Slot(p).val)
  BY <1>2, SetOutcome
<1>4. ASSUME NEW c \in 1 .. call[p].n
      PROVE  Slot(p).val[c] = Ver(p)
  <2>1. c \in 1 .. MaxLen
    BY <1>2, SlotsAssumption
  <2>2. SetWrites(p, Slot(p).val)[c] = Ver(p)
    BY <2>1, WrittenAt
  <2>3. QED
    BY <1>3, <2>2
<1>5. QED
  BY <1>2, <1>4 DEF Cells, Slot

LEMMA SettledStep ==
  ASSUME Dealt, StrongCAS, LaneInv, LinInv, LinInv', NEW p \in Procs, Steps(p), NEW s \in SlotIds, Settled(s)
  PROVE  Settled(s)'
<1> SUFFICES ASSUME S'[s].hash # NoKey
             PROVE  Settled(s)'
  BY DEF Settled
<1>1. /\ Typed /\ InCall(p) /\ Op(p) \in {"set", "get"} /\ At(p) \in SlotIds /\ SeqlockOwner'
      /\ Hits(p)
  BY Busy, LinParts, SlotTyped DEF Steps, LinInv, IInv, LaneInv
<1>2. /\ S'[s].hash = S[s].hash
         \/ (S[s].hash = NoKey /\ S'[s].hash = call[p].key /\ s = At(p) /\ Op(p) = "set" /\ pc[p] = "link")
  BY HashStep DEF Steps
<1>3. ASSUME NEW x \in Cells(s)'
      PROVE  x[1] = S'[s].hash /\ Past(x)'
  <2>1. CASE x \in Cells(s) /\ S'[s].hash = S[s].hash
    BY <2>1, PastStep DEF Settled
  <2>2. CASE x \in Cells(s) /\ S'[s].hash # S[s].hash
    <3>1. x = Ver(p) /\ x[1] = S'[s].hash
      BY <1>2, <2>2, Linked DEF Ver
    <3>2. Onward(p)
      BY <1>1, <1>2, <2>2 DEF Steps, Over, ProbeHit, ProbeNext
    <3>3. pc'[p] = "close"
      BY <1>2, <2>2, <3>2, SetNext DEF After
    <3>4. QED
      BY <3>1, <3>3, OwnPast DEF Before
  <2>3. CASE Writes(p, s) /\ x = Ver(p)
    <3>1. S'[s].hash = S[s].hash
      BY <1>2, <2>3 DEF Writes
    <3>2. S[s].hash = call[p].key
      BY <1>1, <2>3, <3>1 DEF Hits, Writes, Slot
    <3>3. QED
      BY <2>3, <3>1, <3>2, OwnPast DEF Writes, Before, Ver
  <2>4. QED
    BY <2>1, <2>2, <2>3, CellsStep
<1>4. ASSUME ~ Odd(S'[s].epoch)
      PROVE  S'[s].val_len > 0 /\ \A c \in 1 .. S'[s].val_len : S'[s].val[c] = S'[s].val[1] /\ S'[s].val[c] # Zero
  <2>1. CASE SameCells(s) /\ S'[s].epoch = S[s].epoch
    BY <1>4, <2>1 DEF SameCells, Settled
  <2>2. CASE ~ (SameCells(s) /\ S'[s].epoch = S[s].epoch)
    <3>1. s = At(p) /\ pc[p] \in {"cas"} \cup Critical /\ Op(p) = "set"
      BY <2>2, EpochStep, WriterSets DEF Steps, Discreet, Holds
    <3>2. Onward(p)
      BY <1>1, <3>1 DEF Steps, Over, ProbeHit, ProbeNext, Critical
    <3>3. At(p)' = At(p)
      BY <3>2 DEF Onward, At
    <3>4. pc'[p] \notin Critical
      BY <1>1, <1>4, <3>1, <3>3 DEF SeqlockOwner, Holds
    <3>5. CloseSlot(p) /\ pc[p] = "close"
      BY <3>1, <3>2, <3>4, SetNext DEF Critical, After
    <3>6. /\ S[s].val_len = call[p].n /\ call[p].n \in 1 .. MaxLen
          /\ \A c \in 1 .. call[p].n : S[s].val[c] = Ver(p)
      BY <3>1, <3>5, SetDone DEF Slot
    <3>7. S'[s].val = S[s].val /\ S'[s].val_len = S[s].val_len
      BY <1>1, <3>1, <3>5, SlotPut
    <3>8. QED
      BY <3>6, <3>7, VerNotZero, SlotsAssumption
  <2>3. QED
    BY <2>1, <2>2
<1>5. QED
  BY <1>3, <1>4 DEF Settled

(* What has been read stays behind what may still be. *)
LEMMA SeenStep ==
  ASSUME Dealt, StrongCAS, LaneInv, LinInv, NEW p \in Procs, Steps(p), ~ Seeding, NEW o, NEW k, Seen(o, k)
  PROVE  Seen(o, k)'
<1>1. Past(o)' /\ o[1] = k
  BY PastStep DEF Seen
<1>2. ASSUME NEW s \in SlotIds, S'[s].hash = k, NEW x \in Cells(s)'
      PROVE  Follows(o, x)
  <2>1. S[s].hash = k
    BY <1>2, HashesStill
  <2>2. CASE x \in Cells(s)
    BY <2>1, <2>2 DEF Seen
  <2>3. CASE Writes(p, s) /\ x = Ver(p)
    <3>1. p # Main
      BY <2>3, Busy, WriterIs DEF Writes, Steps
    <3>2. o[2] = p => left[p] <= o[3] /\ o[3] \in Nat /\ left[p] \in Nat
      BY LinParts DEF Seen, Past, Typed, TypeOK
    <3>3. x[2] = p /\ x[3] = left[p]
      BY <2>3 DEF Ver
    <3>4. QED
      BY <3>1, <3>2, <3>3 DEF Follows
  <2>4. QED
    BY <1>2, <2>2, <2>3, CellsStep
<1>3. QED
  BY <1>1, <1>2 DEF Seen, Follows

(* What a get of a stable slot returns is one value, the last one there.   *)
LEMMA SeenNow ==
  ASSUME Dealt, LaneInv, NEW s \in SlotIds, Settled(s), ~ Odd(S[s].epoch), S[s].hash # NoKey
  PROVE  /\ S[s].val_len > 0 /\ \A c \in 1 .. S[s].val_len : S[s].val[c] = S[s].val[1]
         /\ S[s].val_len \in Nat => S[s].val[1] \in Cells(s) /\ Seen(S[s].val[1], S[s].hash)
<1>1. /\ S[s].val_len > 0
      /\ \A c \in 1 .. S[s].val_len : S[s].val[c] = S[s].val[1] /\ S[s].val[c] # Zero
  BY DEF Settled
<1>2. SUFFICES ASSUME S[s].val_len \in Nat
               PROVE  S[s].val[1] \in Cells(s) /\ Seen(S[s].val[1], S[s].hash)
  BY <1>1
<1>3. PICK x : x = S[s].val[1]
  OBVIOUS
<1>4. x \in Cells(s) /\ \A y \in Cells(s) : y = x
  <2>1. 1 \in 1 .. S[s].val_len
    BY <1>1, <1>2
  <2>2. QED
    BY <1>1, <1>3, <2>1 DEF Cells
<1>5. x[1] = S[s].hash /\ Past(x)
  BY <1>4 DEF Settled
<1>6. Follows(x, x)
  BY <1>5 DEF Follows, Past
<1>7. \A r \in SlotIds : S[r].hash = S[s].hash => r = s
  BY DEF LaneInv, Tabled
<1>8. Seen(x, S[s].hash)
  BY <1>4, <1>5, <1>6, <1>7 DEF Seen
<1>9. QED
  BY <1>3, <1>4, <1>8

LEMMA GetReads ==
  ASSUME Dealt, StrongCAS, LaneInv, LinInv, LinInv', ReadInv, [Next]_vars, NEW p \in Procs, Steps(p),
         ~ Seeding, Op(p) = "get", pc'[p] = "idle"
  PROVE  /\ ret'[p].op = "get" /\ ret'[p].key = call[p].key
         /\ ret'[p].rc = "ok" => Slot(p).hash = call[p].key
         /\ ret'[p].rc = "ok" =>
              /\ ret'[p].buf # << >> /\ \A c \in DOMAIN ret'[p].buf : ret'[p].buf[c] = ret'[p].buf[1]
              /\ ret'[p].buf[1] \in Cells(At(p))
              /\ Seen(ret'[p].buf[1], call[p].key)
<1>1. /\ Typed /\ IInv /\ InCall(p) /\ call[p].key # NoKey /\ At(p) \in SlotIds
      /\ ret \in [Procs -> RetType] /\ S \in [SlotIds -> SlotType]
      /\ ret' \in [Procs -> RetType]
  BY Busy, LinParts, SlotTyped DEF Steps, Typed, TypeOK, LinInv, IInv
<1>2. Over(p)
  BY <1>1, ProbeHitIs, ProbeNextIs DEF Steps, Onward, Outside
<1>3. \/ pc[p] = "probe" /\ Return(p, "miss")
      \/ pc[p] = "found" /\ Return(p, "busy")
      \/ pc[p] = "copy" /\ ReadVerify(p)
  BY <1>2 DEF Over
<1>4. PICK rc \in {"ok", "busy", "miss"} : Return(p, rc)
  BY <1>3 DEF ReadVerify
<1>5. ret'[p].op = "get" /\ ret'[p].rc = rc /\ ret'[p].key = call[p].key
  BY <1>1, <1>4 DEF Return
<1>6. rc = "ok" => Slot(p).hash = call[p].key
  <2>1. SUFFICES ASSUME pc[p] = "probe", Return(p, "miss")
                 PROVE  rc # "ok"
    BY <1>1, <1>3 DEF LaneInv, Hits
  <2>2. ret'[p].rc = "miss"
    BY <1>1, <2>1 DEF Return
  <2>3. QED
    BY <1>5, <2>2
<1>7. ASSUME rc = "ok"
      PROVE  /\ ret'[p].buf # << >> /\ \A c \in DOMAIN ret'[p].buf : ret'[p].buf[c] = ret'[p].buf[1]
             /\ ret'[p].buf[1] \in Cells(At(p))
             /\ Seen(ret'[p].buf[1], call[p].key)
  <2>1. Returns(p, Op(p), "ok")
    BY <1>1, <1>5, <1>7 DEF Returns, InCall, Outside
  <2>2. Copies(ret'[p].buf, Slot(p).val, Slot(p).val_len)
    BY <1>1, <2>1, VerifiedExact
  <2>3. pc[p] = "copy" /\ Slot(p).epoch = call[p].e
    BY <1>1, <2>1, OnlyVerified DEF ReadVerify
  <2>4. ~ Odd(Slot(p).epoch)
    BY <1>1, <2>3 DEF IInv, ReaderExact, CopyExact
  <2>5. Slot(p).val_len \in Nat
    BY <1>1, SlotsAssumption DEF Slot, SlotType, Length
  <2>6. Settled(At(p))
    BY <1>1 DEF ReadInv
  <2>7. /\ Slot(p).val_len > 0 /\ \A c \in 1 .. Slot(p).val_len : Slot(p).val[c] = Slot(p).val[1]
        /\ Slot(p).val[1] \in Cells(At(p)) /\ Seen(Slot(p).val[1], call[p].key)
    BY <1>1, <1>6, <1>7, <2>4, <2>5, <2>6, SeenNow DEF Slot
  <2>8. ret'[p].buf \in Seq(Cell) /\ Len(ret'[p].buf) = Slot(p).val_len
    BY <1>1, <2>2 DEF RetType, Copies
  <2>9. ret'[p].buf # << >> /\ DOMAIN ret'[p].buf = 1 .. Slot(p).val_len
    BY <2>7, <2>8
  <2>10. \A c \in 1 .. Slot(p).val_len : ret'[p].buf[c] = Slot(p).val[c]
    BY <2>2 DEF Copies
  <2>11. 1 \in 1 .. Slot(p).val_len
    BY <2>5, <2>7
  <2>12. ret'[p].buf[1] = Slot(p).val[1]
    BY <2>10, <2>11
  <2>13. QED
    BY <2>7, <2>9, <2>10, <2>12
<1>8. QED
  BY <1>4, <1>5, <1>6, <1>7

(* What a reader has read stands where nothing it has read is disturbed.   *)
LEMMA ReadsCarry ==
  ASSUME NEW q \in Procs, Reads(q), observed'[q] = observed[q], ~ Seeding => ~ Seeding',
         t'[q].at = "get" /\ pc'[q] = "idle" =>
           t[q].at = "get" /\ pc[q] = "idle" /\ ret'[q] = ret[q] /\ ~ Seeding,
         \A o, k : ~ Seeding /\ Seen(o, k) => Seen(o, k)'
  PROVE  Reads(q)'
<1> SUFFICES ASSUME q \in Readers
             PROVE  Reads(q)'
  BY DEF Reads
<1>1. ASSUME NEW k \in Keys, observed'[q][k] # << >>
      PROVE  ~ Seeding' /\ Seen(observed[q][k][1], k)'
  <2>1. PICK o : o = observed[q][k][1]
    OBVIOUS
  <2>2. ~ Seeding /\ Seen(o, k)
    BY <1>1, <2>1 DEF Reads
  <2>3. Seen(o, k)'
    BY <2>2
  <2>4. o = observed'[q][k][1]
    BY <2>1
  <2>5. QED
    BY <2>2, <2>3, <2>4 DEF Seen, Past
<1>2. ASSUME t'[q].at = "get", pc'[q] = "idle", ret'[q].rc = "ok"
      PROVE  Seen(ret[q].buf[1], ret[q].key)'
  <2>1. PICK o, k : o = ret[q].buf[1] /\ k = ret[q].key
    OBVIOUS
  <2>2. ~ Seeding /\ Seen(o, k)
    BY <1>2, <2>1 DEF Reads
  <2>3. Seen(o, k)'
    BY <2>2
  <2>4. o = ret'[q].buf[1] /\ k = ret'[q].key
    BY <1>2, <2>1
  <2>5. QED
    BY <2>3, <2>4 DEF Seen, Past
<1>3. t'[q].at = "get" /\ pc'[q] = "idle" =>
         /\ ret'[q].op = "get" /\ ret'[q].key \in Keys
         /\ ret'[q].rc = "ok" =>
              /\ ret'[q].buf # << >> /\ \A c \in DOMAIN ret'[q].buf : ret'[q].buf[c] = ret'[q].buf[1]
              /\ observed'[q][ret'[q].key] # << >> =>
                   Follows(observed'[q][ret'[q].key][1], ret'[q].buf[1])
  BY DEF Reads
<1>4. QED
  BY <1>1, <1>2, <1>3 DEF Reads

LEMMA ReadsOwn ==
  ASSUME Dealt, StrongCAS, LaneInv, LinInv, LinInv', ReadInv, [Next]_vars, NEW p \in Procs, Steps(p),
         p \in Readers, t[p].at = "get", pc'[p] = "idle"
  PROVE  /\ ret'[p].op = "get" /\ ret'[p].key \in Keys
         /\ ret'[p].rc = "ok" =>
              /\ ret'[p].buf # << >> /\ \A c \in DOMAIN ret'[p].buf : ret'[p].buf[c] = ret'[p].buf[1]
              /\ Seen(ret[p].buf[1], ret[p].key)'
              /\ observed[p][ret'[p].key] # << >> =>
                   Follows(observed[p][ret'[p].key][1], ret'[p].buf[1])
<1>1. ~ Seeding /\ Op(p) = "get" /\ call[p].key \in Keys
  BY Busy DEF Steps, LaneInv, Placed
<1>2. PICK k : k = call[p].key
  OBVIOUS
<1>3. /\ ret'[p].op = "get" /\ ret'[p].key = k /\ k \in Keys
      /\ ret'[p].rc = "ok" => S[At(p)].hash = k
  BY <1>1, <1>2, GetReads DEF Slot
<1>4. ASSUME ret'[p].rc = "ok"
      PROVE  /\ ret'[p].buf # << >> /\ \A c \in DOMAIN ret'[p].buf : ret'[p].buf[c] = ret'[p].buf[1]
             /\ Seen(ret[p].buf[1], k)'
             /\ observed[p][k] # << >> => Follows(observed[p][k][1], ret'[p].buf[1])
  <2>1. PICK b : b = ret'[p].buf[1]
    OBVIOUS
  <2>2. /\ ret'[p].buf # << >> /\ \A c \in DOMAIN ret'[p].buf : ret'[p].buf[c] = ret'[p].buf[1]
        /\ b \in Cells(At(p)) /\ Seen(b, k)
    BY <1>1, <1>2, <1>4, <2>1, GetReads
  <2>3. Seen(b, k)'
    BY <1>1, <2>2, SeenStep
  <2>4. observed[p][k] # << >> => Follows(observed[p][k][1], b)
    <3>1. SUFFICES ASSUME observed[p][k] # << >>
                   PROVE  Follows(observed[p][k][1], b)
      OBVIOUS
    <3>2. Seen(observed[p][k][1], k)
      BY <1>3, <3>1 DEF ReadInv, Reads
    <3>3. At(p) \in SlotIds
      BY LinParts, SlotTyped
    <3>4. QED
      BY <1>3, <1>4, <2>2, <3>2, <3>3 DEF Seen
  <2>5. Seen(ret[p].buf[1], k)'
    BY <2>1, <2>3 DEF Seen, Past
  <2>6. QED
    BY <2>1, <2>2, <2>4, <2>5
<1>5. ret'[p].rc = "ok" => Seen(ret[p].buf[1], ret[p].key)'
  BY <1>3, <1>4 DEF Seen, Past
<1>6. QED
  BY <1>3, <1>4, <1>5

LEMMA ReadsStep ==
  ASSUME Dealt, StrongCAS, LaneInv, LinInv, LinInv', ReadInv, [Next]_vars, NEW p \in Procs, Steps(p),
         NEW q \in Procs
  PROVE  Reads(q)'
<1>1. /\ observed' = observed /\ t' = t /\ Seeding' = Seeding
      /\ (q # Main /\ t[q].at = "get" => ~ Seeding) /\ (t[q].at = "get" => q # Main)
  BY DEF Steps, harnessVars, Seeding, LaneInv, Placed
<1>2. \A o, k : ~ Seeding /\ Seen(o, k) => Seen(o, k)'
  BY SeenStep
<1>3. CASE q # p
  BY <1>1, <1>2, <1>3, OthersSame, RetStep, ReadsCarry DEF ReadInv
<1>4. CASE q = p
  <2> SUFFICES ASSUME q \in Readers
               PROVE  Reads(q)'
    BY DEF Reads
  <2>1. ASSUME NEW k \in Keys, observed'[q][k] # << >>
        PROVE  ~ Seeding' /\ Seen(observed[q][k][1], k)'
    <3>1. PICK o : o = observed[q][k][1]
      OBVIOUS
    <3>2. ~ Seeding /\ Seen(o, k)
      BY <1>1, <2>1, <3>1 DEF ReadInv, Reads
    <3>3. Seen(o, k)'
      BY <1>2, <3>2
    <3>4. o = observed'[q][k][1]
      BY <1>1, <3>1
    <3>5. QED
      BY <1>1, <3>2, <3>3, <3>4 DEF Seen, Past
  <2>2. ASSUME t'[q].at = "get", pc'[q] = "idle"
        PROVE  /\ ret'[q].op = "get" /\ ret'[q].key \in Keys
               /\ ret'[q].rc = "ok" =>
                    /\ ret'[q].buf # << >> /\ \A c \in DOMAIN ret'[q].buf : ret'[q].buf[c] = ret'[q].buf[1]
                    /\ Seen(ret[q].buf[1], ret[q].key)'
                    /\ observed'[q][ret'[q].key] # << >> =>
                         Follows(observed'[q][ret'[q].key][1], ret'[q].buf[1])
    BY <1>1, <1>4, <2>2, ReadsOwn
  <2>3. QED
    BY <2>1, <2>2 DEF Reads
<1>5. QED
  BY <1>3, <1>4

LEMMA SeenStill ==
  ASSUME UNCHANGED S, \A x : Past(x) => Past(x)'
  PROVE  /\ \A o, k : Seen(o, k) => Seen(o, k)'
         /\ \A s \in SlotIds : Settled(s) => Settled(s)'
<1>1. \A s : Cells(s)' = Cells(s)
  BY DEF Cells
<1>2. QED
  BY <1>1 DEF Seen, Settled, Follows

LEMMA CallingReads ==
  ASSUME Dealt, StrongCAS, LaneInv, LinInv, ReadInv, NEW p \in Procs, NEW o \in {"set", "get"}, Calling(p, o),
         UNCHANGED observed
  PROVE  ReadInv'
<1>1. UNCHANGED S /\ pc'[p] = "probe" /\ \A x : Past(x) => Past(x)'
  BY BeginIs, PastCall
<1>2. \A q \in Procs \ {p} : pc'[q] = pc[q] /\ ret'[q] = ret[q] /\ t'[q] = t[q]
  BY BeginIs
<1>3. ~ Seeding => ~ Seeding'
  <2>1. CASE p = Main
    BY <2>1, WriterIs DEF Calling, Seeding, LaneInv, Placed
  <2>2. CASE p # Main
    BY <1>2, <2>2, HarnessAssumption DEF Seeding
  <2>3. QED
    BY <2>1, <2>2
<1>4. \A k, x : Seen(x, k) => Seen(x, k)'
  BY <1>1, SeenStill
<1>5. ASSUME NEW q \in Procs
      PROVE  Reads(q)'
  <2>1. Reads(q) /\ Placed(q) /\ (t[q].at = "get" => ~ Seeding)
    BY DEF ReadInv, LaneInv, Placed
  <2>2. t'[q].at = "get" /\ pc'[q] = "idle" =>
          t[q].at = "get" /\ pc[q] = "idle" /\ ret'[q] = ret[q] /\ ~ Seeding
    BY <1>1, <1>2, <2>1
  <2>3. QED
    BY <1>3, <1>4, <2>1, <2>2, ReadsCarry
<1>6. \A s \in SlotIds : Settled(s)'
  BY <1>1, SeenStill DEF ReadInv
<1>7. QED
  BY <1>5, <1>6 DEF ReadInv

(* Where a thread moves on between two calls, and no slot is touched.      *)
LEMMA LocalReads ==
  ASSUME LaneInv, LinInv, ReadInv, UNCHANGED vars, observed' \in [Readers -> [Keys -> Seq(Cell)]],
         ~ Seeding => ~ Seeding',
         \A q \in Procs : (t'[q].at = "get" => t[q].at = "get") /\ (observed'[q] = observed[q] \/ Reads(q)')
  PROVE  ReadInv'
<1>1. UNCHANGED << S, pc, ret, left >> /\ \A x : Past(x) => Past(x)'
  BY DEF vars, Past, InCall
<1>2. ASSUME NEW q \in Procs, observed'[q] = observed[q]
      PROVE  Reads(q)'
  <2>1. Reads(q) /\ Placed(q) /\ (t[q].at = "get" => ~ Seeding)
    BY DEF ReadInv, LaneInv, Placed
  <2>2. t'[q].at = "get" /\ pc'[q] = "idle" =>
          t[q].at = "get" /\ pc[q] = "idle" /\ ret'[q] = ret[q] /\ ~ Seeding
    BY <1>1, <2>1
  <2>3. \A k, x : Seen(x, k) => Seen(x, k)'
    BY <1>1, SeenStill
  <2>4. QED
    BY <1>2, <2>1, <2>2, <2>3, ReadsCarry
<1>3. \A s \in SlotIds : Settled(s)'
  BY <1>1, SeenStill DEF ReadInv
<1>4. QED
  BY <1>2, <1>3 DEF ReadInv

(* A reader keeps what it was given: not a mixture, and not an older value *)
(* than it had. *)
LEMMA GivenIs ==
  ASSUME LaneInv, ReadInv, NEW p \in Procs, Read1(p)
  PROVE  /\ p \in Readers /\ ~ Seeding /\ pc[p] = "idle" /\ UNCHANGED vars
         /\ ret[p].key \in Keys
         /\ ret[p].rc = "ok" =>
              /\ ret[p].buf # << >> /\ \A c \in DOMAIN ret[p].buf : ret[p].buf[c] = ret[p].buf[1]
              /\ Seen(ret[p].buf[1], ret[p].key)
              /\ observed[p][ret[p].key] # << >> =>
                   Follows(observed[p][ret[p].key][1], ret[p].buf[1])
<1>1. t[p].at = "get" /\ pc[p] = "idle" /\ UNCHANGED vars
  BY DEF Read1, Back
<1>2. p \in Readers /\ ~ Seeding
  BY <1>1 DEF LaneInv, Placed
<1>3. QED
  BY <1>1, <1>2 DEF ReadInv, Reads

LEMMA Read1Reads ==
  ASSUME LaneInv, LinInv, ReadInv, NEW p \in Procs, Read1(p)
  PROVE  ReadInv'
<1>1. /\ p \in Readers /\ ~ Seeding /\ pc[p] = "idle" /\ UNCHANGED vars
      /\ Threads /\ ret \in [Procs -> RetType] /\ p # Main /\ Main \in Procs
      /\ observed \in [Readers -> [Keys -> Seq(Cell)]] /\ ret[p].key \in Keys
  BY GivenIs, LinParts, HarnessAssumption DEF LaneInv, ReadInv, Placed, Read1, Typed, TypeOK
<1>2. PICK a \in {"loop", "retry"}, e \in {"none", "EAGAIN"} :
        t' = [t EXCEPT ![p].errno = e, ![p].at = a]
  BY <1>1 DEF Read1, Threads
<1>3. t'[p].at = a /\ \A q \in Procs \ {p} : t'[q] = t[q]
  BY <1>1, <1>2 DEF Threads
<1>4. ~ Seeding'
  BY <1>1, <1>3 DEF Seeding
<1>5. \A k, x : Seen(x, k) => Seen(x, k)'
  BY <1>1, SeenStill DEF vars, Past, InCall
<1>6. CASE ret[p].rc # "ok"
  BY <1>1, <1>3, <1>4, <1>6, LocalReads DEF Read1
<1>7. CASE ret[p].rc = "ok"
  <2>1. observed' = [observed EXCEPT ![p][ret[p].key] = ret[p].buf]
    BY <1>7 DEF Read1
  <2>2. ret[p].buf \in Seq(Cell)
    BY <1>1 DEF RetType
  <2>3. /\ observed' \in [Readers -> [Keys -> Seq(Cell)]]
        /\ \A q \in Readers \ {p} : observed'[q] = observed[q]
        /\ \A k \in Keys : observed'[p][k] = IF k = ret[p].key THEN ret[p].buf ELSE observed[p][k]
    BY <1>1, <2>1, <2>2
  <2>4. ASSUME NEW k \in Keys, observed'[p][k] # << >>
        PROVE  Seen(observed[p][k][1], k)'
    <3>1. PICK x : x = observed'[p][k][1]
      OBVIOUS
    <3>2. Seen(x, k)
      BY <1>1, <1>7, <2>3, <2>4, <3>1, GivenIs DEF ReadInv, Reads
    <3>3. Seen(x, k)'
      BY <1>5, <3>2
    <3>4. QED
      BY <3>1, <3>3 DEF Seen, Past
  <2>5. Reads(p)'
    BY <1>3, <1>4, <2>4 DEF Reads
  <2>6. \A q \in Procs \ Readers : Reads(q)'
    BY DEF Reads
  <2>7. QED
    BY <1>1, <1>3, <1>4, <2>3, <2>5, <2>6, LocalReads
<1>8. QED
  BY <1>6, <1>7

LEMMA ReadInit == Dealt /\ HarnessInit => ReadInv
<1> SUFFICES ASSUME Dealt, HarnessInit
             PROVE  ReadInv
  OBVIOUS
<1>1. observed = [p \in Readers |-> [k \in Keys |-> << >>]]
  BY DEF HarnessInit
<1>2. \A s \in SlotIds : S[s].hash = NoKey
  <2>1. \A s \in SlotIds : S[s] = Empty
    BY DEF HarnessInit, Init, Dealt
  <2>2. QED
    BY <2>1 DEF Empty
<1>3. \A p \in Procs : t[p].at # "get"
  BY DEF HarnessInit
<1>4. QED
  BY <1>1, <1>2, <1>3 DEF ReadInv, Settled, Reads

LEMMA ReadStays ==
  ASSUME LaneInv, LinInv, ReadInv, UNCHANGED << vars, observed >>, ~ Seeding => ~ Seeding',
         \A q \in Procs : t'[q].at = "get" => t[q].at = "get"
  PROVE  ReadInv'
BY LocalReads DEF ReadInv

LEMMA ReadNext ==
  ASSUME Dealt, StrongCAS, LaneInv, LinInv, ReadInv, [HarnessNext]_laneVars
  PROVE  ReadInv'
<1>1. LinInv' /\ Typed' /\ [Next]_vars /\ Main \in Procs /\ Threads
  BY LaneNext, HarnessStep, HarnessAssumption DEF LaneInv, LinInv, IInv, Typed
<1>2. CASE UNCHANGED laneVars
  BY <1>2, ReadStays DEF laneVars, harnessVars, Seeding
<1>3. CASE Seeded \/ Stop \/ Join
  <2>1. UNCHANGED << vars, observed >> /\ \E a \in {"create", "join", "ended"} : t' = [t EXCEPT ![Main].at = a]
    BY <1>3 DEF Seeded, Stop, Join, To, Back
  <2>2. (~ Seeding => ~ Seeding') /\ \A q \in Procs : t'[q].at = "get" => t[q].at = "get"
    BY <1>1, <2>1 DEF Threads, Seeding
  <2>3. QED
    BY <2>1, <2>2, ReadStays
<1>4. ASSUME NEW p \in Procs, Seed \/ Write1(p) \/ Sample(p) \/ Retry(p)
      PROVE  ReadInv'
  <2>1. Threads /\ Placed(p)
    BY DEF LaneInv
  <2>2. QED
    BY <1>4, <2>1, CallingStep, CallingReads
<1>5. ASSUME NEW p \in Procs, Create(p) \/ Written(p) \/ Leave(p)
      PROVE  ReadInv'
  <2>1. UNCHANGED << vars, observed >>
    BY <1>5 DEF Create, Written, Leave, Back
  <2>2. \E a \in {"loop", "ended"} : \E i : t' = [t EXCEPT ![p].at = a, ![p].i = i]
    <3>1. CASE Create(p) \/ Written(p)
      BY <3>1 DEF Create, Written
    <3>2. CASE Leave(p)
      <4>1. t' = [t EXCEPT ![p].at = "ended", ![p].i = t[p].i]
        BY <1>1, <3>2 DEF Leave, To, Threads
      <4>2. QED
        BY <4>1
    <3>3. QED
      BY <1>5, <3>1, <3>2
  <2>3. (~ Seeding => ~ Seeding') /\ \A q \in Procs : t'[q].at = "get" => t[q].at = "get"
    BY <1>1, <2>2 DEF Threads, Seeding
  <2>4. QED
    BY <2>1, <2>3, ReadStays
<1>6. ASSUME NEW p \in Procs, Step(p), UNCHANGED harnessVars
      PROVE  ReadInv'
  <2>1. Steps(p)
    BY <1>1, <1>6, IsSteps
  <2>2. QED
    BY <1>1, <1>6, <2>1, SettledStep, ReadsStep DEF ReadInv, harnessVars
<1>7. QED
  BY <1>1, <1>2, <1>3, <1>4, <1>5, <1>6, Read1Reads DEF HarnessNext, Thread

(* What the readers have been given, and may still be given, stays so.     *)
THEOREM ReadInvariant ==
  ASSUME Dealt, StrongCAS
  PROVE  HarnessSpec => []ReadInv
<1>1. HarnessInit => ReadInv
  BY ReadInit
<1>2. LaneInv /\ LinInv /\ ReadInv /\ [HarnessNext]_laneVars => ReadInv'
  BY ReadNext
<1>3. HarnessSpec => [](LaneInv /\ LinInv)
  BY LaneInvariant
<1>4. QED
  BY <1>1, <1>2, <1>3, PTL DEF HarnessSpec

(* A reader steps over the slot of its key only where a set has it. *)
LEMMA OverOnlyOdd ==
  ASSUME Dealt, StrongCAS, LaneInv, LinInv, [HarnessNext]_laneVars, NEW p \in Readers, PassesOver(p)
  PROVE  Odd(S[Phys(p)].epoch)
<1>1. /\ p \in Procs /\ Typed /\ Typed' /\ Threads /\ \A q \in Procs : Placed(q)
      /\ Main \in Procs /\ call[p].i \in Nat
  BY LaneNext, HarnessAssumption, SlotTyped DEF LaneInv, LinInv, IInv, Typed, CallType
<1>2. call'[p] # call[p]
  BY <1>1 DEF PassesOver
<1>3. ~ UNCHANGED vars
  BY <1>2 DEF vars
<1>4. ASSUME NEW q \in Procs, Seed \/ Write1(q) \/ Sample(q) \/ Retry(q)
      PROVE  FALSE
  <2>1. PICK r \in Procs, o \in {"set", "get"} : Calling(r, o)
    BY <1>1, <1>4, CallingStep
  <2>2. r = p
    BY <1>1, <1>2, <2>1, BeginIs
  <2>3. call'[p].i = 0
    BY <2>1, <2>2, BeginIs
  <2>4. QED
    BY <1>1, <2>3 DEF PassesOver
<1>5. PICK q \in Procs : Step(q) /\ UNCHANGED harnessVars
  BY <1>1, <1>3, <1>4 DEF HarnessNext, Thread, Create, Written, Read1, Leave, Seeded, Stop, Join,
     Back, laneVars
<1>6. Steps(q) /\ q = p
  <2>1. Steps(q)
    BY <1>1, <1>5, IsSteps
  <2>2. q = p
    BY <1>1, <1>2, <2>1, OthersSame
  <2>3. QED
    BY <2>1, <2>2
<1>7. ~ ProbeHit(p) /\ ~ Onward(p)
  BY <1>1, <1>6, ProbeHitIs DEF PassesOver, Onward, Steps
<1>8. ~ Over(p)
  <2>1. SUFFICES ASSUME Over(p)
                 PROVE  FALSE
    OBVIOUS
  <2>2. Op(p) \in {"set", "get"}
    BY <1>6, Busy DEF Steps
  <2>3. PICK rc : Return(p, rc)
    BY <2>1, <2>2 DEF Over, ReadVerify
  <2>4. call'[p].i = 0
    BY <1>1, <2>3 DEF Return, Idle, Typed, TypeOK
  <2>5. QED
    BY <1>1, <2>4 DEF PassesOver
<1>9. ProbeNext(p) /\ InCall(p)
  BY <1>6, <1>7, <1>8 DEF Steps
<1>10. Phys(p) \in SlotIds /\ S[Phys(p)].key # S[Phys(p)].hash
  BY <1>1, <1>9, ProbeNextIs DEF PassesOver
<1>11. QED
  BY <1>10, WipedIs

(* A reader is never given a mixture of two values, nor an older value of  *)
(* a key than it was given before, and it passes over the slot of its key  *)
(* only while a set holds that slot.                                       *)
THEOREM ReadersAdvance ==
  ASSUME Dealt, StrongCAS
  PROVE  HarnessSpec => ReadsAdvance
<1>1. ASSUME LaneInv, LinInv, ReadInv, [HarnessNext]_laneVars, NEW p \in Readers,
             t[p].at = "get", t'[p].at # "get"
      PROVE  GivenTrue(p)
  <2>1. p \in Procs /\ p # Main /\ Main \in Procs /\ Threads /\ ~ IsWriter(p)
    BY <1>1, HarnessAssumption, WriterIs DEF LaneInv, Placed
  <2>2. Read1(p)
    <3>1. CASE UNCHANGED t
      BY <1>1, <3>1
    <3>2. CASE Seed \/ Seeded \/ Stop \/ Join
      BY <1>1, <2>1, <3>2 DEF Seed, Seeded, Stop, Join, To, Threads
    <3>3. ASSUME NEW q \in Procs, Thread(q)
          PROVE  Read1(p)
      <4>1. CASE q = p
        BY <1>1, <2>1, <3>3, <4>1 DEF Thread, Create, Write1, Written, Sample, Retry, Leave, Placed, LaneInv
      <4>2. CASE q # p
        <5>1. t'[p] = t[p]
          BY <2>1, <3>3, <4>2 DEF Thread, Create, Write1, Written, Sample, Retry, Leave, Read1, To, Threads
        <5>2. QED
          BY <1>1, <5>1
      <4>3. QED
        BY <4>1, <4>2
    <3>4. QED
      BY <1>1, <3>1, <3>2, <3>3 DEF HarnessNext, laneVars, harnessVars
  <2>3. QED
    BY <1>1, <2>1, <2>2, GivenIs DEF GivenTrue, Older, Seen, Past, Follows, Version
<1>2. HarnessSpec => [](LaneInv /\ LinInv /\ ReadInv)
  BY LaneInvariant, ReadInvariant, PTL
<1>3. LaneInv /\ LinInv /\ ReadInv /\ [HarnessNext]_laneVars =>
        [\A p \in Readers : /\ t[p].at = "get" /\ t'[p].at # "get" => GivenTrue(p)
                            /\ PassesOver(p) => Odd(S[Phys(p)].epoch)]_laneVars
  BY <1>1, OverOnlyOdd
<1>4. QED
  BY <1>2, <1>3, PTL DEF HarnessSpec, ReadsAdvance

=============================================================================
