-------------------------- MODULE KeyCommandsProofs --------------------------
(***************************************************************************)
(* What the commands of splinterctl keep beside one another, for every     *)
(* number of processes, keys, slots and chunks.                            *)
(***************************************************************************)
EXTENDS KeyCommands, TLAPS, FiniteSetTheorems, SequenceTheorems, WellFoundedInduction

-----------------------------------------------------------------------------
(* The slots a probe goes through *)

LEMMA Least ==
  ASSUME NEW T \in SUBSET Nat, T # {}
  PROVE  Min(T) \in T /\ \A j \in T : Min(T) <= j
<1> DEFINE R == {ss \in Nat \X Nat : ss[1] < ss[2]}
<1>1. IsWellFoundedOn(R, Nat)
  BY NatLessThanWellFounded DEF OpToRel
<1>2. PICK i \in T : \A j \in T : ~ (<< j, i >> \in R)
  <2> HIDE DEF R
  <2>1. QED
    BY <1>1, WFMin
<1>3. ASSUME NEW j \in T
      PROVE  i <= j
  <2>1. ~ (j < i)
    BY <1>2, <1>3
  <2>2. QED
    BY <2>1
<1>4. QED
  BY <1>3 DEF Min

LEMMA ProbeIs ==
  ASSUME NEW k \in Keys
  PROVE  /\ Len(Probe(k)) = Slots
         /\ \A i \in 1 .. Slots : Probe(k)[i] \in 1 .. Slots
         /\ \A s \in 1 .. Slots : \E i \in 1 .. Slots : Probe(k)[i] = s
<1> DEFINE h == Home[k]
<1>1. h \in 1 .. Slots /\ Slots \in Nat \ {0}
  BY CommandsAssumption
<1>2. \A i \in 1 .. Slots : 1 + ((h + i - 2) % Slots) \in 1 .. Slots
  BY <1>1
<1>3. Probe(k) \in Seq(1 .. Slots) /\ Len(Probe(k)) = Slots
  BY <1>1, <1>2 DEF Probe
<1>4. ASSUME NEW s \in 1 .. Slots
      PROVE  \E i \in 1 .. Slots : Probe(k)[i] = s
  <2>1. CASE s >= h
    <3>1. s - h + 1 \in 1 .. Slots /\ h + (s - h + 1) - 2 = s - 1
      BY <1>1, <2>1
    <3>2. (s - 1) % Slots = s - 1
      BY <1>1
    <3>3. Probe(k)[s - h + 1] = s
      BY <3>1, <3>2 DEF Probe
    <3>4. QED
      BY <3>1, <3>3
  <2>2. CASE s < h
    <3>1. s - h + 1 + Slots \in 1 .. Slots /\ h + (s - h + 1 + Slots) - 2 = s - 1 + Slots
      BY <1>1, <2>2
    <3>2. (s - 1 + Slots) % Slots = s - 1
      BY <1>1
    <3>3. Probe(k)[s - h + 1 + Slots] = s
      BY <3>1, <3>2 DEF Probe
    <3>4. QED
      BY <3>1, <3>3
  <2>3. QED
    BY <1>1, <2>1, <2>2
<1>5. QED
  BY <1>1, <1>2, <1>3, <1>4 DEF Probe

LEMMA RoomIs ==
  ASSUME NEW k \in Keys, Takes(k)
  PROVE  /\ RoomAt(k) \in 1 .. Slots
         /\ tab[RoomAt(k)].key \in {NoKey, k} /\ ~ Odd(tab[RoomAt(k)].epoch)
<1> DEFINE q == Probe(k)
           I == {i \in 1 .. Len(q) : tab[q[i]].key \in {NoKey, k} /\ ~ Odd(tab[q[i]].epoch)}
<1>1. Room(k) = IF I # {} THEN Min(I) ELSE 0
  BY DEF Room, SelectInSeq
<1>2. I \in SUBSET Nat /\ I # {}
  BY <1>1 DEF Takes
<1>3. Room(k) \in I
  BY <1>1, <1>2, Least
<1>4. Len(q) = Slots /\ \A i \in 1 .. Slots : q[i] \in 1 .. Slots
  BY ProbeIs
<1>5. QED
  BY <1>3, <1>4 DEF RoomAt

LEMMA FoundIs ==
  ASSUME NEW k \in Keys
  PROVE  /\ Has(k) => At(k) \in 1 .. Slots /\ tab[At(k)].key = k /\ ~ tab[At(k)].hid
         /\ ~ Has(k) => \A s \in 1 .. Slots : tab[s].key = k => tab[s].hid
<1> DEFINE q == Probe(k)
           I == {i \in 1 .. Len(q) : tab[q[i]].key = k /\ ~ tab[q[i]].hid}
<1>1. Found(k) = IF I # {} THEN Min(I) ELSE 0
  BY DEF Found, SelectInSeq
<1>2. I \in SUBSET Nat /\ 0 \notin I
  OBVIOUS
<1>3. Len(q) = Slots /\ (\A i \in 1 .. Slots : q[i] \in 1 .. Slots)
      /\ \A s \in 1 .. Slots : \E i \in 1 .. Slots : q[i] = s
  BY ProbeIs
<1>4. CASE I # {}
  <2>1. Found(k) \in I
    BY <1>1, <1>2, <1>4, Least
  <2>2. QED
    BY <1>2, <1>3, <2>1 DEF Has, At
<1>5. CASE I = {}
  BY <1>1, <1>3, <1>5 DEF Has
<1>6. QED
  BY <1>4, <1>5

-----------------------------------------------------------------------------
(* The invariants *)

Version  == [of : Nat, n : Nat]
SlotType == [key : Keys \cup {NoKey}, hid : BOOLEAN, val : Version, type : {"void", "vartext", "json"},
             label : SUBSET {"embed", "meta"}, vec : Version, epoch : Nat]

(* Where each command may be. *)
Setting == {"set", "link", "type", "label", "bump"}
Scan    == {"collect", "rows", "copy", "check"}
Seek    == {"look", "wait", "fetch"}
Places ==
  [ingest |-> Setting, orders |-> {"set", "link"}, unset |-> {"unset"}, disorder |-> {"unset"},
   list |-> Scan, export |-> Scan \cup {"values"}, watch |-> Seek,
   search |-> Setting \cup Seek \cup Scan \cup {"score", "unset"}]

PCs == {"idle", "dead", "crashed", "values", "score", "unset"} \cup Setting \cup Seek \cup Scan

Local == [do : DOMAIN Entry \cup {"none"}, name : Names \cup {"none"}, n : Nat, gen : Nat,
          flag : BOOLEAN, pc : PCs, i : Nat, s : 0 .. Slots, x : Nat, e : Nat, vec : Version,
          got : BOOLEAN, scores : BOOLEAN, raw : BOOLEAN, names : Seq(1 .. Slots), row : SlotType,
          rows : Seq(SlotType), rc : Int]

Current(p) == [do |-> m[p].do, name |-> m[p].name, n |-> m[p].n, gen |-> m[p].gen, flag |-> m[p].flag]

DaemonType == [at : {"idle", "decode", "commit", "stamp", "link", "bump"}, key : Keys \cup {NoKey},
               text : Version, s : 0 .. Slots]

Typed ==
  /\ tab \in [1 .. Slots -> SlotType]
  /\ m \in [Procs -> Local]
  /\ todo \in [Procs -> Seq(Command)]
  /\ stood \in [Procs -> SUBSET Keys]
  /\ held \in SUBSET (1 .. Slots)
  /\ d \in DaemonType
  /\ d.at # "idle" => d.key \in Keys
  /\ d.at \in {"commit", "link"} => d.s # 0
  /\ d.at \in {"stamp", "link", "bump"} => d.text.of \in Long

Early == Setting \cup Seek

PlacedAt(p) ==
  /\ m[p].do = "none" => m[p].pc \in {"idle", "dead"}
  /\ m[p].do # "none" =>
       /\ Current(p) \in Command
       /\ \/ m[p].pc \in Places[m[p].do] \cup {"idle"}
          \/ m[p].do \in Listing /\ m[p].pc = "crashed"
       /\ m[p].do \notin Listing => K(p) \in Keys
       /\ m[p].do \in {"ingest", "orders", "disorder"} => m[p].i \in Orders(Current(p))
       /\ m[p].do \notin {"ingest", "orders", "disorder", "unset"} => m[p].i = 0
       /\ m[p].pc = "bump" /\ m[p].do = "ingest" => m[p].i > 0
       /\ m[p].do = "search" /\ m[p].pc \in Early => m[p].x = 0
       /\ m[p].pc = "collect" => m[p].x < Slots
       /\ m[p].pc \in {"link", "wait", "copy", "check"} => m[p].s # 0

Placed == \A p \in Procs : PlacedAt(p)

(* A slot between the two halves of a set is its setter's alone; so is one *)
(* that the daemon, or another client, has locked.                         *)
Taken(s, k, v) ==
  /\ Odd(tab[s].epoch) /\ s \notin held /\ tab[s].key \in {NoKey, k} /\ tab[s].val = v
  /\ tab[s].key = NoKey => tab[s].vec = Nothing

LockedAt(p) ==
  m[p].pc = "link" =>
    /\ Taken(m[p].s, K(p), Written(m[p]))
    /\ d.at \in {"commit", "link"} => d.s # m[p].s
    /\ \A q \in Procs \ {p} : m[q].pc = "link" => m[q].s # m[p].s

Busied ==
  /\ d.at = "commit" => Odd(tab[d.s].epoch) /\ d.s \notin held /\ tab[d.s].key = d.key /\ ~ tab[d.s].hid
  /\ d.at = "link" => Taken(d.s, d.key, Excuse)
  /\ \A s \in held : Odd(tab[s].epoch) /\ ~ tab[s].hid
  /\ \A s \in 1 .. Slots : tab[s].hid => Odd(tab[s].epoch)

Locked == Busied /\ \A p \in Procs : LockedAt(p)

(* What p has in hand or before it. *)
Pending(p) == {Current(p)} \cup {todo[p][j] : j \in DOMAIN todo[p]}

Separate ==
  /\ \A p, q \in Procs : p # q => \A c \in Pending(p), e \in Pending(q) : Apart(c, e)
  /\ \A p \in Procs : \A j \in DOMAIN todo[p] :
       InTurn(Current(p), todo[p][j]) /\ \A i \in 1 .. j - 1 : InTurn(todo[p][i], todo[p][j])

Base == Typed /\ Placed /\ Locked /\ Separate

-----------------------------------------------------------------------------
(* Documents *)
Numbered == \A s \in 1 .. Slots : tab[s].key # NoKey /\ tab[s].key[2] > 0 => tab[s].val.n = tab[s].key[2]

(* No value is newer than what is still to be set. *)
Newest ==
  \A p \in Procs : \A c \in Pending(p) : c.do \in Setters =>
    \A s \in 1 .. Slots : tab[s].key # NoKey /\ tab[s].key[1] = c.name => tab[s].val.of <= c.gen

(* The chunks an ingest has been through. *)
Through(p) == IF m[p].i = 0 THEN 1 .. m[p].n ELSE 1 .. IF m[p].pc \in {"set", "link"} THEN m[p].i - 1 ELSE m[p].i
Ingesting ==
  \A p \in Procs : m[p].do = "ingest" /\ m[p].pc # "idle" =>
    \A i \in Through(p) : \E s \in 1 .. Slots : tab[s].key = << m[p].name, i >> /\ tab[s].val.of = m[p].gen

Bare(x) ==
  \A s \in 1 .. Slots : tab[s].key # NoKey /\ tab[s].key = << x, 0 >> => tab[s].val.n = 0 \/ tab[s].val.of = 0

Removing ==
  \A p \in Procs :
    /\ m[p].do = "unset" /\ m[p].pc = "unset" /\ m[p].i > 0 => Bare(m[p].name)
    /\ \A c \in Pending(p) : c.do = "disorder" => Bare(c.name)

(* What is too long for the daemon's model is no chunk. *)
Short ==
  /\ \A p \in Procs : \A c \in Pending(p) : c.do \in Setters \ {"search"} => c.gen \notin Long
  /\ \A s \in 1 .. Slots : tab[s].key # NoKey /\ tab[s].val.of \in Long => tab[s].key[2] = 0
  /\ d.at # "idle" /\ d.text.of \in Long => d.key[2] = 0

Announces(s) == tab[s].key # NoKey /\ tab[s].key[2] = 0 /\ tab[s].val.of > 0 /\ tab[s].val.n > 0
Chunked(s, i) == \E r \in 1 .. Slots : /\ tab[r].key = << tab[s].key[1], i >> /\ tab[r].key # NoKey
                                      /\ tab[r].val.n = i /\ tab[r].val.of >= tab[s].val.of

Whole == \A s \in 1 .. Slots : Announces(s) => \A i \in 1 .. tab[s].val.n : Chunked(s, i)

IngestInv == Base /\ Numbered /\ Newest /\ Ingesting /\ Removing /\ Short /\ Whole

-----------------------------------------------------------------------------
(* A pointer, a row *)
Pointed(p, s) == \E i \in DOMAIN m[p].names : m[p].names[i] = s
Shows(p, k)   == \E i \in DOMAIN m[p].rows : /\ m[p].rows[i].key = k
                                             /\ \A j \in DOMAIN m[p].rows : m[p].rows[j].key = k => j = i
Hidden(p, k)  == \A i \in DOMAIN m[p].rows : m[p].rows[i].key # k

Kept == \A p \in Procs : stood[p] \subseteq Standing(tab)

(* Of a slot whose key has stood: where p's pointer to it has come. *)
AheadAt(p, s) == IF Pointed(p, s) THEN Hidden(p, tab[s].key) ELSE Shows(p, tab[s].key)

ListedAt(p) ==
  m[p].do \in Listing =>
    /\ \A i, j \in DOMAIN m[p].names : m[p].names[i] = m[p].names[j] => i = j
    /\ m[p].pc = "collect" => \A i \in DOMAIN m[p].names : m[p].names[i] <= m[p].x
    /\ \A s \in 1 .. Slots : tab[s].key \in stood[p] =>
         /\ m[p].pc = "collect" => Hidden(p, tab[s].key) /\ (Pointed(p, s) <=> s <= m[p].x)
         /\ m[p].pc = "rows" => AheadAt(p, s)
         /\ m[p].pc \in {"copy", "check"} =>
              IF m[p].s = s THEN Hidden(p, tab[s].key) /\ ~ Pointed(p, s) ELSE AheadAt(p, s)
         /\ m[p].pc = "check" => (m[p].row.key = tab[s].key <=> m[p].s = s)
         /\ m[p].pc \in {"values", "idle"} => Shows(p, tab[s].key)

ListInv == Base /\ Kept /\ \A p \in Procs : ListedAt(p)

-----------------------------------------------------------------------------
(* What a step does *)

LEMMA Parity ==
  ASSUME NEW n \in Nat
  PROVE  (Odd(n + 1) <=> ~ Odd(n)) /\ (Odd(n + 2) <=> Odd(n)) /\ n + 1 \in Nat /\ n + 2 \in Nat /\ n # n + 1
BY DEF Odd

LEMMA Plain ==
  Nothing \in Version /\ Excuse \in Version /\ Free \in SlotType /\ Nothing.n = 0 /\ Excuse.of = 0
BY DEF Nothing, Excuse, Version, Free, SlotType

LEMMA FreeIs ==
  /\ Free.key = NoKey /\ Free.hid = FALSE /\ Free.epoch = 2 /\ Free.vec = Nothing /\ Free.val = Nothing
  /\ ~ Odd(Free.epoch)
BY DEF Free, Odd

LEMMA SlotIs ==
  ASSUME Typed, NEW s \in 1 .. Slots
  PROVE  /\ tab[s] \in SlotType /\ tab \in [1 .. Slots -> SlotType]
         /\ tab[s].key \in Keys \cup {NoKey} /\ tab[s].hid \in BOOLEAN /\ tab[s].val \in Version
         /\ tab[s].vec \in Version /\ tab[s].epoch \in Nat /\ NoKey \notin Keys
BY CommandsAssumption DEF Typed, SlotType

(* What is put in place of a slot. *)
LEMMA PutIs ==
  ASSUME Typed, NEW s \in 1 .. Slots, NEW r \in SlotType, tab' = [tab EXCEPT ![s] = r]
  PROVE  tab'[s] = r /\ (\A x \in (1 .. Slots) \ {s} : tab'[x] = tab[x]) /\ tab' \in [1 .. Slots -> SlotType]
BY DEF Typed

(* The one slot that a step changes. *)
Only(s) == \A r \in (1 .. Slots) \ {s} : tab'[r] = tab[r]
Stood   == stood' = [q \in Procs |-> stood[q] \cap Standing(tab')]

(* What a step of p does to the table and to what has stood. *)
Marks(p, s) ==
  /\ m[p].pc \in {"type", "label", "bump"} /\ m'[p].pc # "link" /\ tab[s].key = K(p)
  /\ tab'[s].key = tab[s].key /\ tab'[s].hid = tab[s].hid /\ tab'[s].val = tab[s].val
  /\ tab'[s].vec = tab[s].vec /\ tab'[s].epoch \in {tab[s].epoch, tab[s].epoch + 2}

Opens(p, s) ==
  /\ m[p].pc = "set" /\ m[p].do \in Setters /\ tab[s].key \in {NoKey, K(p)} /\ ~ Odd(tab[s].epoch)
  /\ tab'[s].key = tab[s].key /\ tab'[s].hid = (tab[s].key # NoKey) /\ tab'[s].val = Written(m[p])
  /\ tab'[s].vec = (IF tab[s].key = NoKey THEN Nothing ELSE tab[s].vec)
  /\ tab'[s].epoch = tab[s].epoch + 1
  /\ m'[p].pc = "link" /\ m'[p].s = s /\ m'[p].i = m[p].i /\ s = RoomAt(K(p))

Links(p, s) ==
  /\ m[p].pc = "link" /\ m'[p].pc # "link" /\ m[p].do \in Setters /\ s = m[p].s
  /\ tab'[s].key = K(p) /\ tab'[s].hid = FALSE /\ tab'[s].val = tab[s].val /\ tab'[s].vec = tab[s].vec
  /\ tab'[s].epoch = tab[s].epoch + 1

Frees(p, s) ==
  /\ m[p].pc = "unset" /\ m'[p].pc # "link" /\ m[p].do \in Writers /\ tab[s].key = K(p) /\ ~ Odd(tab[s].epoch)
  /\ tab'[s] = Free

Tables(p) ==
  \/ UNCHANGED << tab, stood >> /\ m'[p].pc # "link"
  \/ /\ Stood /\ tab' \in [1 .. Slots -> SlotType] /\ K(p) \in Keys
     /\ \E s \in 1 .. Slots : Only(s) /\ (Marks(p, s) \/ Opens(p, s) \/ Links(p, s) \/ Frees(p, s))

(* A slot that is wiped, and one that is linked. *)
LEMMA WipedIs ==
  ASSUME Typed, NEW s \in 1 .. Slots, NEW v \in Version, Put(Wiped(s, v))
  PROVE  /\ Only(s) /\ tab' \in [1 .. Slots -> SlotType] /\ Stood
         /\ tab'[s].key = tab[s].key /\ tab'[s].hid = (tab[s].key # NoKey) /\ tab'[s].val = v
         /\ tab'[s].vec = (IF tab[s].key = NoKey THEN Nothing ELSE tab[s].vec)
         /\ tab'[s].epoch = tab[s].epoch + 1
<1> DEFINE w == IF tab[s].key = NoKey THEN Nothing ELSE tab[s].vec
           h == tab[s].key # NoKey
           e == tab[s].epoch + 1
           r == [tab[s] EXCEPT !.val = v, !.epoch = e, !.hid = h, !.vec = w]
<1>1. tab[s] \in SlotType /\ tab \in [1 .. Slots -> SlotType] /\ w \in Version /\ h \in BOOLEAN /\ e \in Nat
  BY SlotIs, Plain, Parity
<1>2. Wiped(s, v) = [tab EXCEPT ![s] = r]
  <2>1. Wiped(s, v) = [tab EXCEPT ![s].val = v, ![s].epoch = @ + 1, ![s].hid = h, ![s].vec = IF tab[s].key = NoKey THEN Nothing ELSE @]
    BY DEF Wiped
  <2> HIDE DEF h
  <2>2. QED
    BY <1>1, <2>1 DEF SlotType
<1> HIDE DEF w, h, e
<1>3. /\ r \in SlotType /\ r.key = tab[s].key /\ r.hid = h /\ r.val = v /\ r.vec = w /\ r.epoch = e
  BY <1>1 DEF SlotType
<1>4. tab' = [tab EXCEPT ![s] = r] /\ Stood
  BY <1>2 DEF Put, Stood
<1> HIDE DEF r
<1>5. tab'[s] = r /\ Only(s) /\ tab' \in [1 .. Slots -> SlotType]
  BY <1>3, <1>4, PutIs DEF Only
<1>6. QED
  BY <1>3, <1>4, <1>5 DEF w, h, e

LEMMA LinkedIs ==
  ASSUME Typed, NEW s \in 1 .. Slots, NEW k \in Keys, Put(Linked(s, k))
  PROVE  /\ Only(s) /\ tab' \in [1 .. Slots -> SlotType] /\ Stood
         /\ tab'[s].key = k /\ tab'[s].hid = FALSE /\ tab'[s].val = tab[s].val /\ tab'[s].vec = tab[s].vec
         /\ tab'[s].epoch = tab[s].epoch + 1
<1> DEFINE e == tab[s].epoch + 1
           r == [tab[s] EXCEPT !.key = k, !.hid = FALSE, !.epoch = e]
<1>1. tab[s] \in SlotType /\ tab \in [1 .. Slots -> SlotType] /\ e \in Nat
  BY SlotIs, Parity
<1>2. Linked(s, k) = [tab EXCEPT ![s] = r]
  BY <1>1 DEF Linked, SlotType
<1> HIDE DEF e
<1>3. /\ r \in SlotType /\ r.key = k /\ r.hid = FALSE /\ r.val = tab[s].val /\ r.vec = tab[s].vec /\ r.epoch = e
  BY <1>1 DEF SlotType
<1>4. tab' = [tab EXCEPT ![s] = r] /\ Stood
  BY <1>2 DEF Put, Stood
<1> HIDE DEF r
<1>5. tab'[s] = r /\ Only(s) /\ tab' \in [1 .. Slots -> SlotType]
  BY <1>3, <1>4, PutIs DEF Only
<1>6. QED
  BY <1>3, <1>4, <1>5 DEF e

(* A slot whose type, label or epoch alone changes. *)
Marked(s) ==
  /\ Only(s) /\ tab' \in [1 .. Slots -> SlotType] /\ Stood
  /\ tab'[s].key = tab[s].key /\ tab'[s].hid = tab[s].hid /\ tab'[s].val = tab[s].val
  /\ tab'[s].vec = tab[s].vec

LEMMA BumpIs ==
  ASSUME Typed, NEW k \in Keys, Even(k), Put(WithBump(k))
  PROVE  At(k) \in 1 .. Slots /\ tab[At(k)].key = k /\ Marked(At(k)) /\ tab'[At(k)].epoch = tab[At(k)].epoch + 2
         /\ ~ Odd(tab[At(k)].epoch)
<1> DEFINE s == At(k)
           e == tab[s].epoch + 2
           r == [tab[s] EXCEPT !.epoch = e]
<1>1. s \in 1 .. Slots /\ tab[s].key = k /\ ~ Odd(tab[s].epoch)
  BY FoundIs DEF Even
<1>2. tab[s] \in SlotType /\ e \in Nat
  BY <1>1, SlotIs, Parity
<1>3. tab' = [tab EXCEPT ![s] = r] /\ Stood
  BY DEF Put, WithBump, Stood
<1> HIDE DEF s, e
<1>4. /\ r \in SlotType /\ r.key = tab[s].key /\ r.hid = tab[s].hid /\ r.val = tab[s].val /\ r.vec = tab[s].vec
      /\ r.epoch = e
  BY <1>2 DEF SlotType
<1> HIDE DEF r
<1>5. tab'[s] = r /\ Only(s) /\ tab' \in [1 .. Slots -> SlotType]
  BY <1>1, <1>3, <1>4, PutIs DEF Only
<1>6. QED
  BY <1>1, <1>3, <1>4, <1>5 DEF Marked, s, e

LEMMA TypeIs ==
  ASSUME Typed, NEW k \in Keys, Even(k), NEW t \in {"vartext", "json"}, Put(WithType(k, t))
  PROVE  At(k) \in 1 .. Slots /\ tab[At(k)].key = k /\ Marked(At(k)) /\ tab'[At(k)].epoch = tab[At(k)].epoch + 2
<1> DEFINE s == At(k)
           e == tab[s].epoch + 2
           r == [tab[s] EXCEPT !.type = t, !.epoch = e]
<1>1. s \in 1 .. Slots /\ tab[s].key = k
  BY FoundIs DEF Even
<1>2. tab[s] \in SlotType /\ e \in Nat /\ t \in {"void", "vartext", "json"}
  BY <1>1, SlotIs, Parity
<1>3. tab' = [tab EXCEPT ![s] = r] /\ Stood
  BY DEF Put, WithType, Stood
<1> HIDE DEF s, e
<1>4. /\ r \in SlotType /\ r.key = tab[s].key /\ r.hid = tab[s].hid /\ r.val = tab[s].val /\ r.vec = tab[s].vec
      /\ r.epoch = e
  BY <1>2 DEF SlotType
<1> HIDE DEF r
<1>5. tab'[s] = r /\ Only(s) /\ tab' \in [1 .. Slots -> SlotType]
  BY <1>1, <1>3, <1>4, PutIs DEF Only
<1>6. QED
  BY <1>1, <1>3, <1>4, <1>5 DEF Marked, s, e

LEMMA LabelIs ==
  ASSUME Typed, NEW k \in Keys, Has(k), NEW l \in {"embed", "meta"}, Put(WithLabel(k, l))
  PROVE  At(k) \in 1 .. Slots /\ tab[At(k)].key = k /\ Marked(At(k)) /\ tab'[At(k)].epoch = tab[At(k)].epoch
<1> DEFINE s == At(k)
           r == [tab[s] EXCEPT !.label = @ \cup {l}]
<1>1. s \in 1 .. Slots /\ tab[s].key = k
  BY FoundIs
<1>2. tab[s] \in SlotType
  BY <1>1, SlotIs
<1>3. tab' = [tab EXCEPT ![s] = r] /\ Stood
  BY DEF Put, WithLabel, Stood
<1> HIDE DEF s
<1>4. /\ r \in SlotType /\ r.key = tab[s].key /\ r.hid = tab[s].hid /\ r.val = tab[s].val /\ r.vec = tab[s].vec
      /\ r.epoch = tab[s].epoch
  BY <1>2 DEF SlotType
<1> HIDE DEF r
<1>5. tab'[s] = r /\ Only(s) /\ tab' \in [1 .. Slots -> SlotType]
  BY <1>1, <1>3, <1>4, PutIs DEF Only
<1>6. QED
  BY <1>1, <1>3, <1>4, <1>5 DEF Marked, s

LEMMA MarkIs ==
  ASSUME Typed, NEW p \in Procs, K(p) \in Keys, m'[p].pc # "link",
         \/ m[p].pc = "type" /\ \E t \in {"vartext", "json"} : Type(p, t)
         \/ m[p].pc = "label" /\ \E l \in {"embed", "meta"} : Label(p, l)
         \/ m[p].pc = "bump" /\ Bump(p)
  PROVE  Tables(p)
<1> DEFINE s == At(K(p))
<1>1. ASSUME s \in 1 .. Slots, tab[s].key = K(p), Marked(s), m[p].pc \in {"type", "label", "bump"},
             tab'[s].epoch \in {tab[s].epoch, tab[s].epoch + 2}
      PROVE  Tables(p)
  <2> HIDE DEF s
  <2>1. QED
    BY <1>1 DEF Marked, Marks, Tables
<1>2. ASSUME Still
      PROVE  Tables(p)
  BY <1>2 DEF Still, Tables
<1>3. CASE m[p].pc = "type"
  <2>1. PICK t \in {"vartext", "json"} : Type(p, t)
    BY <1>3
  <2>2. QED
    BY <1>1, <1>2, <1>3, <2>1, TypeIs DEF Type
<1>4. CASE m[p].pc = "label"
  <2>1. PICK l \in {"embed", "meta"} : Label(p, l)
    BY <1>4
  <2>2. QED
    BY <1>1, <1>2, <1>4, <2>1, LabelIs DEF Label
<1>5. CASE m[p].pc = "bump"
  BY <1>1, <1>2, <1>5, BumpIs DEF Bump
<1>6. QED
  BY <1>3, <1>4, <1>5

LEMMA ForgetIs ==
  ASSUME Typed, NEW p \in Procs, K(p) \in Keys, Forget(p), m[p].pc = "unset", m[p].do \in Writers,
         m'[p].pc # "link"
  PROVE  Tables(p) /\ (Even(K(p)) => \E s \in 1 .. Slots : Frees(p, s) /\ Only(s))
<1>1. CASE Even(K(p))
  <2> DEFINE s == At(K(p))
  <2>1. s \in 1 .. Slots /\ tab[s].key = K(p) /\ ~ Odd(tab[s].epoch)
    BY <1>1, FoundIs DEF Even
  <2>2. tab' = [tab EXCEPT ![s] = Free] /\ Stood
    BY <1>1 DEF Forget, Put, Without, Stood
  <2> HIDE DEF s
  <2>3. tab'[s] = Free /\ Only(s) /\ tab' \in [1 .. Slots -> SlotType]
    BY <2>1, <2>2, Plain, PutIs DEF Only
  <2>4. Frees(p, s)
    BY <2>1, <2>3 DEF Frees
  <2>5. QED
    BY <2>1, <2>2, <2>3, <2>4 DEF Tables
<1>2. CASE ~ Even(K(p))
  BY <1>2 DEF Forget, Still, Tables
<1>3. QED
  BY <1>1, <1>2

(* What a step of p does to its locals. *)
Goes(p) ==
  /\ m' = [m EXCEPT ![p] = m'[p]] /\ m'[p] \in Local
  /\ m'[p].do = m[p].do /\ m'[p].name = m[p].name /\ m'[p].n = m[p].n /\ m'[p].gen = m[p].gen
  /\ m'[p].flag = m[p].flag

Stays(p) ==
  /\ Goes(p) /\ m'[p].i = m[p].i /\ m'[p].vec = m[p].vec /\ m'[p].got = m[p].got
  /\ m'[p].rows = m[p].rows

LEMMA ToIs ==
  ASSUME Typed, NEW p \in Procs, NEW l \in PCs, To(p, l)
  PROVE  /\ Stays(p) /\ m'[p].pc = l /\ m'[p].names = m[p].names /\ m'[p].x = m[p].x
         /\ m'[p].s = m[p].s /\ m'[p].e = m[p].e /\ m'[p].row = m[p].row
<1> DEFINE r == [m[p] EXCEPT !.pc = l]
<1>1. m \in [Procs -> Local] /\ m[p] \in Local
  BY DEF Typed
<1>2. m' = [m EXCEPT ![p] = r]
  BY <1>1 DEF To, Local
<1>3. /\ r \in Local /\ r.do = m[p].do /\ r.name = m[p].name /\ r.n = m[p].n /\ r.gen = m[p].gen
      /\ r.flag = m[p].flag /\ r.i = m[p].i /\ r.vec = m[p].vec /\ r.got = m[p].got
      /\ r.rows = m[p].rows /\ r.pc = l /\ r.names = m[p].names /\ r.x = m[p].x /\ r.s = m[p].s
      /\ r.e = m[p].e /\ r.row = m[p].row
  BY <1>1 DEF Local
<1> HIDE DEF r
<1>4. QED
  BY <1>1, <1>2, <1>3 DEF Goes, Stays

LEMMA EndIs ==
  ASSUME Typed, NEW p \in Procs, NEW rc \in Int, End(p, rc)
  PROVE  Stays(p) /\ m'[p].pc = "idle" /\ m'[p].names = << >>
<1> DEFINE r == [m[p] EXCEPT !.pc = "idle", !.rc = rc, !.names = << >>, !.s = 0, !.e = 0]
<1>1. m \in [Procs -> Local] /\ m[p] \in Local
  BY DEF Typed
<1>2. m' = [m EXCEPT ![p] = r]
  BY <1>1 DEF End, Local
<1>3. 0 \in 0 .. Slots /\ << >> \in Seq(1 .. Slots) /\ "idle" \in PCs
  BY CommandsAssumption DEF PCs
<1>4. /\ r \in Local /\ r.do = m[p].do /\ r.name = m[p].name /\ r.n = m[p].n /\ r.gen = m[p].gen
      /\ r.flag = m[p].flag /\ r.i = m[p].i /\ r.vec = m[p].vec /\ r.got = m[p].got
      /\ r.rows = m[p].rows /\ r.pc = "idle" /\ r.names = << >>
  BY <1>1, <1>3 DEF Local
<1> HIDE DEF r
<1>5. QED
  BY <1>1, <1>2, <1>4 DEF Goes, Stays

(* Only i, and the place, move; s, where it is no longer of use. *)
Turns(p, l, i) ==
  /\ Goes(p) /\ m'[p].i = i /\ m'[p].pc = l /\ m'[p].vec = m[p].vec /\ m'[p].got = m[p].got
  /\ m'[p].rows = m[p].rows /\ m'[p].x = m[p].x

LEMMA TurnIs ==
  ASSUME Typed, NEW p \in Procs, NEW l \in PCs, NEW i \in Nat, NEW s \in 0 .. Slots,
         NEW r, r = [m[p] EXCEPT !.pc = l, !.i = i, !.s = s], m' = [m EXCEPT ![p] = r]
  PROVE  Turns(p, l, i)
<1>1. m \in [Procs -> Local] /\ m[p] \in Local
  BY DEF Typed
<1>2. /\ r \in Local /\ r.do = m[p].do /\ r.name = m[p].name /\ r.n = m[p].n /\ r.gen = m[p].gen
      /\ r.flag = m[p].flag /\ r.i = i /\ r.pc = l /\ r.vec = m[p].vec /\ r.got = m[p].got
      /\ r.rows = m[p].rows /\ r.s = s /\ r.x = m[p].x
  BY <1>1 DEF Local
<1>3. m'[p] = r
  BY <1>1
<1>4. QED
  BY <1>2, <1>3 DEF Goes, Turns

LEMMA AdvanceIs ==
  ASSUME Typed, NEW p \in Procs, m' = [m EXCEPT ![p].i = @ + 1]
  PROVE  /\ Goes(p) /\ m'[p].i = m[p].i + 1 /\ m'[p].pc = m[p].pc /\ m'[p].vec = m[p].vec
         /\ m'[p].got = m[p].got /\ m'[p].rows = m[p].rows
<1> DEFINE r == [m[p] EXCEPT !.i = @ + 1]
<1>1. m \in [Procs -> Local] /\ m[p] \in Local
  BY DEF Typed
<1>2. m' = [m EXCEPT ![p] = r]
  BY <1>1 DEF Local
<1>3. /\ r \in Local /\ r.do = m[p].do /\ r.name = m[p].name /\ r.n = m[p].n /\ r.gen = m[p].gen
      /\ r.flag = m[p].flag /\ r.i = m[p].i + 1 /\ r.pc = m[p].pc /\ r.vec = m[p].vec /\ r.got = m[p].got
      /\ r.rows = m[p].rows
  <2>1. m[p].i + 1 \in Nat
    BY <1>1 DEF Local
  <2>2. QED
    BY <1>1, <2>1 DEF Local
<1> HIDE DEF r
<1>4. QED
  BY <1>1, <1>2, <1>3 DEF Goes

LEMMA PlaceIs ==
  ASSUME NEW p \in Procs, PlacedAt(p), m[p].do # "none", Goes(p), m'[p].i = m[p].i,
         \/ m'[p].pc \in Places[m[p].do] \cup {"idle"}
         \/ m[p].do \in Listing /\ m'[p].pc = "crashed",
         m'[p].pc = "bump" /\ m[p].do = "ingest" => m[p].i > 0,
         m[p].do = "search" /\ m'[p].pc \in Early => m'[p].x = 0,
         m'[p].pc = "collect" => m'[p].x < Slots,
         m'[p].pc \in {"link", "wait", "copy", "check"} => m'[p].s # 0
  PROVE  PlacedAt(p)'
<1>1. Current(p)' = Current(p) /\ K(p)' = K(p) /\ m'[p].do = m[p].do
  BY DEF Goes, Current, K
<1>2. QED
  BY <1>1 DEF PlacedAt

LEMMA TurnPlaced ==
  ASSUME NEW p \in Procs, PlacedAt(p), Goes(p), m[p].do \in {"ingest", "orders", "disorder"},
         m'[p].i \in Orders(Current(p)), m'[p].pc \in Places[m[p].do], m'[p].pc \in {"set", "unset"}
  PROVE  PlacedAt(p)'
<1>1. Current(p)' = Current(p) /\ m'[p].do = m[p].do /\ m'[p].name = m[p].name
  BY DEF Goes, Current
<1>2. Current(p) \in Command /\ Current(p).do \notin Listing /\ Current(p).name = m[p].name
  BY DEF PlacedAt, Listing, Current
<1>3. << m[p].name, m'[p].i >> \in Keys
  BY <1>2 DEF Command
<1>4. QED
  BY <1>1, <1>2, <1>3 DEF PlacedAt, K, Listing

Same(p) == m'[p].vec = m[p].vec /\ m'[p].got = m[p].got /\ m'[p].rows = m[p].rows

(* Where a command may be. *)
LEMMA SetPlaces ==
  ASSUME Typed, NEW p \in Procs, PlacedAt(p)
  PROVE  /\ m[p].pc \in {"set", "link"} =>
              /\ m[p].do \in Setters /\ m[p].do \in Writers /\ K(p) \in Keys
              /\ {"set", "link"} \subseteq Places[m[p].do]
              /\ m[p].do # "orders" => {"type", "label"} \subseteq Places[m[p].do]
              /\ m[p].do = "search" => m[p].x = 0
         /\ m[p].pc = "link" => m[p].s \in 1 .. Slots
         /\ {"set", "link", "type", "label", "bump", "look", "idle"} \subseteq PCs
         /\ {"type", "label", "bump", "look"} \subseteq Places["search"]
         /\ {"type", "label", "bump", "set"} \subseteq Places["ingest"]
         /\ Early = {"set", "link", "type", "label", "bump", "look", "wait", "fetch"}
<1>1. m[p].do \in DOMAIN Entry \cup {"none"} /\ m[p].s \in 0 .. Slots
  BY DEF Typed, Local
<1>2. m[p].pc \in {"set", "link"} => m[p].do \in Setters
  BY <1>1 DEF PlacedAt, Places, Entry, Listing, Setting, Seek, Scan, Setters
<1>3. m[p].pc \in {"set", "link"} => K(p) \in Keys /\ (m[p].do = "search" => m[p].x = 0) /\ (m[p].pc = "link" => m[p].s # 0)
  BY <1>2 DEF PlacedAt, Setters, Listing, Early, Setting
<1>4. m[p].pc = "link" => m[p].s \in 1 .. Slots
  BY <1>1, <1>3, CommandsAssumption
<1>5. QED
  BY <1>2, <1>3, <1>4 DEF Places, Setting, Seek, Scan, Setters, Writers, PCs, Early

LEMMA SetOpenIs ==
  ASSUME Typed, NEW p \in Procs, PlacedAt(p), SetOpen(p)
  PROVE  /\ Stays(p) /\ PlacedAt(p)' /\ Tables(p) /\ UNCHANGED rest
         /\ m[p].pc = "set" /\ m'[p].pc = "link" /\ m'[p].x = m[p].x
         /\ \E s \in 1 .. Slots : Opens(p, s) /\ Only(s)
<1> DEFINE s == RoomAt(K(p))
           r == [m[p] EXCEPT !.pc = "link", !.s = s]
<1>1. m[p].pc = "set" /\ Takes(K(p)) /\ m[p].do \in Setters /\ K(p) \in Keys /\ UNCHANGED rest
  BY SetPlaces DEF SetOpen
<1>2. s \in 1 .. Slots /\ s \in 0 .. Slots /\ s # 0 /\ tab[s].key \in {NoKey, K(p)} /\ ~ Odd(tab[s].epoch)
  BY <1>1, RoomIs, CommandsAssumption
<1>3. Written(m[p]) \in Version
  BY DEF Typed, Local, Written, Version
<1>4. Put(Wiped(s, Written(m[p])))
  BY DEF SetOpen
<1>5. m \in [Procs -> Local] /\ m[p] \in Local /\ "link" \in PCs
  BY SetPlaces DEF Typed
<1>6. m' = [m EXCEPT ![p] = r]
  BY <1>5 DEF SetOpen, Local
<1> HIDE DEF s
<1>7. /\ r \in Local /\ r.do = m[p].do /\ r.name = m[p].name /\ r.n = m[p].n /\ r.gen = m[p].gen
      /\ r.flag = m[p].flag /\ r.i = m[p].i /\ r.vec = m[p].vec /\ r.got = m[p].got
      /\ r.rows = m[p].rows /\ r.pc = "link" /\ r.s = s /\ r.x = m[p].x
  BY <1>2, <1>5 DEF Local
<1> HIDE DEF r
<1>8. Stays(p) /\ m'[p] = r
  BY <1>5, <1>6, <1>7 DEF Goes, Stays
<1>9. PlacedAt(p)'
  BY <1>1, <1>2, <1>7, <1>8, PlaceIs, SetPlaces DEF Stays, Setters
<1>10. Opens(p, s) /\ Only(s) /\ Stood /\ tab' \in [1 .. Slots -> SlotType]
  BY <1>1, <1>2, <1>3, <1>4, <1>7, <1>8, WipedIs DEF Opens, s
<1>11. QED
  BY <1>1, <1>2, <1>7, <1>8, <1>9, <1>10 DEF Tables

LEMMA SetLinkIs ==
  ASSUME Typed, NEW p \in Procs, PlacedAt(p), SetLink(p)
  PROVE  /\ Goes(p) /\ PlacedAt(p)' /\ Tables(p) /\ UNCHANGED rest /\ Same(p)
         /\ m[p].pc = "link" /\ m'[p].pc # "link" /\ Links(p, m[p].s) /\ Only(m[p].s)
         /\ m[p].do # "orders" => m'[p].pc = "type" /\ m'[p].i = m[p].i /\ m'[p].x = m[p].x
<1>1. /\ m[p].pc = "link" /\ m[p].do \in Setters /\ K(p) \in Keys /\ UNCHANGED rest /\ m[p].s \in 1 .. Slots
      /\ m \in [Procs -> Local] /\ m[p] \in Local /\ Put(Linked(m[p].s, K(p)))
  BY SetPlaces DEF SetLink, Typed
<1>2. m[p].i \in Nat /\ 0 \in 0 .. Slots /\ "type" \in PCs /\ "set" \in PCs /\ m[p].n \in Nat
  BY <1>1, CommandsAssumption, SetPlaces DEF Local
<1>3. /\ Goes(p) /\ PlacedAt(p)' /\ Same(p) /\ m'[p].pc # "link"
      /\ m[p].do # "orders" => m'[p].pc = "type" /\ m'[p].i = m[p].i /\ m'[p].x = m[p].x
  <2>1. CASE m[p].do # "orders"
    <3>1. m' = [m EXCEPT ![p].pc = "type", ![p].s = 0]
      BY <2>1 DEF SetLink
    <3> DEFINE j == m[p].i
               r == [m[p] EXCEPT !.pc = "type", !.i = j, !.s = 0]
    <3>2. m' = [m EXCEPT ![p] = r]
      BY <1>1, <3>1 DEF Local
    <3>3. Goes(p) /\ m'[p].i = m[p].i /\ m'[p].pc = "type" /\ m'[p].x = m[p].x /\ Same(p)
      <4>1. j \in Nat
        BY <1>2
      <4> HIDE DEF j
      <4>2. PICK t : t = r
        OBVIOUS
      <4>3. Turns(p, "type", j)
        BY <1>2, <3>2, <4>1, <4>2, TurnIs
      <4>4. QED
        BY <4>3 DEF Turns, Same, j
    <3>4. PlacedAt(p)'
      BY <1>1, <2>1, <3>3, PlaceIs, SetPlaces DEF Setters
    <3>5. QED
      BY <3>3, <3>4
  <2>2. CASE m[p].do = "orders" /\ m[p].i < m[p].n - 1
    <3>1. m' = [m EXCEPT ![p].pc = "set", ![p].i = @ + 1, ![p].s = 0]
      BY <2>2 DEF SetLink
    <3> DEFINE j == m[p].i + 1
               r == [m[p] EXCEPT !.pc = "set", !.i = j, !.s = 0]
    <3>2. m' = [m EXCEPT ![p] = r]
      BY <1>1, <3>1 DEF Local
    <3>3. Goes(p) /\ m'[p].i = m[p].i + 1 /\ m'[p].pc = "set" /\ Same(p)
      <4>1. j \in Nat
        BY <1>2
      <4> HIDE DEF j
      <4>2. PICK t : t = r
        OBVIOUS
      <4>3. Turns(p, "set", j)
        BY <1>2, <3>2, <4>1, <4>2, TurnIs
      <4>4. QED
        BY <4>3 DEF Turns, Same, j
    <3>4. m'[p].i \in Orders(Current(p))
      BY <1>2, <2>2, <3>3 DEF Orders, Current
    <3>5. PlacedAt(p)'
      BY <1>1, <2>2, <3>3, <3>4, TurnPlaced, SetPlaces
    <3>6. QED
      BY <2>2, <3>3, <3>5
  <2>3. CASE m[p].do = "orders" /\ ~ (m[p].i < m[p].n - 1)
    <3>1. End(p, 0)
      BY <2>3 DEF SetLink
    <3>2. Stays(p) /\ m'[p].pc = "idle"
      BY <3>1, EndIs
    <3>3. PlacedAt(p)'
      BY <2>3, <3>2, PlaceIs DEF Stays
    <3>4. QED
      BY <2>3, <3>2, <3>3 DEF Stays, Same
  <2>4. QED
    BY <2>1, <2>2, <2>3
<1>4. Links(p, m[p].s) /\ Only(m[p].s) /\ Stood /\ tab' \in [1 .. Slots -> SlotType]
  BY <1>1, <1>3, LinkedIs DEF Links
<1>5. QED
  BY <1>1, <1>3, <1>4 DEF Tables

LEMMA SetFailsIs ==
  ASSUME Typed, NEW p \in Procs, PlacedAt(p), SetFails(p)
  PROVE  /\ Stays(p) /\ PlacedAt(p)' /\ Tables(p) /\ UNCHANGED rest /\ Still /\ m[p].pc = "set"
         /\ m'[p].pc = (IF m[p].do = "search" THEN "type" ELSE "idle")
<1>1. m[p].pc = "set" /\ m[p].do \in Setters /\ Still /\ UNCHANGED rest
  BY SetPlaces DEF SetFails
<1>2. CASE m[p].do = "search"
  <2>1. Stays(p) /\ m'[p].pc = "type" /\ m'[p].x = m[p].x
    BY <1>2, ToIs, SetPlaces DEF SetFails
  <2>2. PlacedAt(p)'
    BY <1>1, <1>2, <2>1, PlaceIs, SetPlaces DEF Stays
  <2>3. QED
    BY <1>1, <1>2, <2>1, <2>2 DEF Tables, Still
<1>3. CASE m[p].do # "search"
  <2>1. Stays(p) /\ m'[p].pc = "idle"
    BY <1>3, EndIs DEF SetFails
  <2>2. PlacedAt(p)'
    <3>1. m[p].do # "none"
      BY <1>1 DEF Setters
    <3>2. QED
      BY <1>3, <2>1, <3>1, PlaceIs DEF Stays
  <2>3. QED
    BY <1>1, <1>3, <2>1, <2>2 DEF Tables, Still
<1>4. QED
  BY <1>2, <1>3

(* The course of an ingest. *)
Ingests(p) ==
  \/ m'[p].pc = "idle"
  \/ m[p].pc = "set" /\ m'[p].pc = "link" /\ m'[p].i = m[p].i
  \/ m[p].pc = "link" /\ m'[p].pc = "type" /\ m'[p].i = m[p].i /\ Links(p, m[p].s) /\ Only(m[p].s)
  \/ m[p].pc = "type" /\ m'[p].pc = "label" /\ m'[p].i = m[p].i
  \/ m[p].pc = "label" /\ m'[p].pc = "bump" /\ m'[p].i = m[p].i
  \/ m[p].pc = "bump" /\ m'[p].pc = "set" /\ m[p].i > 0 /\ m'[p].i = NextOrder(m[p])

LEMMA IngestIs ==
  ASSUME Typed, NEW p \in Procs, PlacedAt(p), Chunk(p) \/ Metadata(p)
  PROVE  /\ Goes(p) /\ PlacedAt(p)' /\ Tables(p) /\ UNCHANGED rest /\ Same(p)
         /\ m[p].do = "ingest" /\ Ingests(p)
<1>1. /\ m[p].do = "ingest" /\ K(p) \in Keys /\ m[p].i \in Orders(Current(p)) /\ UNCHANGED rest
  BY DEF Chunk, Metadata, PlacedAt, Listing
<1>2. m[p].i \in Nat /\ m[p].n \in Nat /\ m \in [Procs -> Local] /\ m[p] \in Local
  BY DEF Typed, Local
<1>3. CASE m[p].pc = "type"
  <2>1. To(p, "label") /\ \E t \in {"vartext", "json"} : Type(p, t)
    BY <1>3 DEF Chunk, Metadata
  <2>2. Stays(p) /\ m'[p].pc = "label"
    BY <2>1, ToIs, SetPlaces
  <2>3. Tables(p)
    BY <1>1, <1>3, <2>1, <2>2, MarkIs
  <2>4. PlacedAt(p)'
    BY <1>1, <2>2, PlaceIs, SetPlaces DEF Stays
  <2>5. QED
    BY <1>1, <1>3, <2>2, <2>3, <2>4 DEF Stays, Same, Ingests
<1>4. CASE m[p].pc = "label"
  <2>1. \E l \in {"embed", "meta"} : Label(p, l)
    BY <1>4 DEF Chunk, Metadata
  <2>2. CASE Chunk(p)
    <3>1. To(p, "bump") /\ m[p].i > 0
      BY <1>4, <2>2 DEF Chunk
    <3>2. Stays(p) /\ m'[p].pc = "bump"
      BY <3>1, ToIs, SetPlaces
    <3>3. PlacedAt(p)'
      BY <1>1, <3>1, <3>2, PlaceIs, SetPlaces DEF Stays
    <3>4. Tables(p)
      BY <1>1, <1>4, <2>1, <3>2, MarkIs
    <3>5. QED
      BY <1>1, <1>4, <3>2, <3>3, <3>4 DEF Stays, Same, Ingests
  <2>3. CASE Metadata(p)
    <3>1. End(p, 0)
      BY <1>4, <2>3 DEF Metadata
    <3>2. Stays(p) /\ m'[p].pc = "idle"
      BY <3>1, EndIs
    <3>3. PlacedAt(p)'
      BY <1>1, <3>2, PlaceIs DEF Stays
    <3>4. Tables(p)
      BY <1>1, <1>4, <2>1, <3>2, MarkIs
    <3>5. QED
      BY <1>1, <3>2, <3>3, <3>4 DEF Stays, Same, Ingests
  <2>4. QED
    BY <2>2, <2>3
<1>5. CASE m[p].pc = "bump"
  <2> DEFINE o == NextOrder(m[p])
  <2>1. /\ Bump(p) /\ m' = [m EXCEPT ![p].pc = "set", ![p].i = o] /\ m[p].i > 0
    BY <1>5 DEF Chunk, Metadata
  <2>2. o \in Nat /\ o \in Orders(Current(p)) /\ "set" \in PCs /\ m[p].s \in 0 .. Slots
    BY <1>1, <1>2, <2>1, SetPlaces DEF NextOrder, Orders, Current, Local
  <2> HIDE DEF o
  <2>3. PICK t : t = [m[p] EXCEPT !.pc = "set", !.i = o, !.s = m[p].s]
    OBVIOUS
  <2>4. Goes(p) /\ m'[p].i = o /\ m'[p].pc = "set" /\ Same(p)
    <3>1. m' = [m EXCEPT ![p] = t]
      BY <1>2, <2>1, <2>3 DEF Local
    <3>2. Turns(p, "set", o)
      BY <2>2, <2>3, <3>1, TurnIs
    <3>3. QED
      BY <3>2 DEF Turns, Same
  <2>5. Tables(p)
    BY <1>1, <1>5, <2>1, <2>4, MarkIs
  <2>6. PlacedAt(p)'
    BY <1>1, <2>2, <2>4, TurnPlaced, SetPlaces
  <2>7. QED
    BY <1>1, <1>5, <2>1, <2>4, <2>5, <2>6 DEF Ingests, o
<1>6. QED
  BY <1>3, <1>4, <1>5 DEF Chunk, Metadata

LEMMA QueryIs ==
  ASSUME Typed, NEW p \in Procs, PlacedAt(p), Query(p) \/ Cleanup(p)
  PROVE  /\ Stays(p) /\ PlacedAt(p)' /\ Tables(p) /\ UNCHANGED rest
         /\ m[p].do = "search" /\ m[p].pc \in {"type", "label", "bump", "unset"}
         /\ m'[p].pc = CASE m[p].pc = "type" -> "label" [] m[p].pc = "label" -> "bump"
                         [] m[p].pc = "bump" -> "look" [] OTHER -> "idle"
<1>1. /\ m[p].do = "search" /\ K(p) \in Keys /\ m[p].i = 0 /\ UNCHANGED rest
      /\ m[p].do \in Writers /\ (m[p].pc \in {"type", "label", "bump"} => m[p].x = 0)
  BY SetPlaces DEF Query, Cleanup, PlacedAt, Listing, Setters, Writers
<1>2. CASE Cleanup(p)
  <2>1. m[p].pc = "unset" /\ Forget(p) /\ End(p, 0)
    BY <1>2 DEF Cleanup
  <2>2. Stays(p) /\ m'[p].pc = "idle"
    BY <2>1, EndIs
  <2>3. Tables(p)
    BY <1>1, <2>1, <2>2, ForgetIs
  <2>4. PlacedAt(p)'
    BY <1>1, <2>2, PlaceIs, SetPlaces DEF Stays
  <2>5. QED
    BY <1>1, <2>1, <2>2, <2>3, <2>4
<1>3. CASE Query(p) /\ m[p].pc = "type"
  <2>1. To(p, "label") /\ \E t \in {"vartext", "json"} : Type(p, t)
    BY <1>3 DEF Query
  <2>2. Stays(p) /\ m'[p].pc = "label" /\ m'[p].x = m[p].x
    BY <2>1, ToIs, SetPlaces
  <2>3. Tables(p)
    BY <1>1, <1>3, <2>1, <2>2, MarkIs
  <2>4. PlacedAt(p)'
    BY <1>1, <1>3, <2>2, PlaceIs, SetPlaces DEF Stays
  <2>5. QED
    BY <1>1, <1>3, <2>2, <2>3, <2>4
<1>4. CASE Query(p) /\ m[p].pc = "label"
  <2>1. To(p, "bump") /\ \E l \in {"embed", "meta"} : Label(p, l)
    BY <1>4 DEF Query
  <2>2. Stays(p) /\ m'[p].pc = "bump" /\ m'[p].x = m[p].x
    BY <2>1, ToIs, SetPlaces
  <2>3. Tables(p)
    BY <1>1, <1>4, <2>1, <2>2, MarkIs
  <2>4. PlacedAt(p)'
    BY <1>1, <1>4, <2>2, PlaceIs, SetPlaces DEF Stays
  <2>5. QED
    BY <1>1, <1>4, <2>2, <2>3, <2>4
<1>5. CASE Query(p) /\ m[p].pc = "bump"
  <2>1. To(p, "look") /\ Bump(p)
    BY <1>5 DEF Query
  <2>2. Stays(p) /\ m'[p].pc = "look" /\ m'[p].x = m[p].x
    BY <2>1, ToIs, SetPlaces
  <2>3. Tables(p)
    BY <1>1, <1>5, <2>1, <2>2, MarkIs
  <2>4. PlacedAt(p)'
    BY <1>1, <1>5, <2>2, PlaceIs, SetPlaces DEF Stays
  <2>5. QED
    BY <1>1, <1>5, <2>2, <2>3, <2>4
<1>6. QED
  BY <1>2, <1>3, <1>4, <1>5 DEF Query

LEMMA DisorderIs ==
  ASSUME Typed, NEW p \in Procs, PlacedAt(p), Disorder(p)
  PROVE  Goes(p) /\ PlacedAt(p)' /\ Tables(p) /\ UNCHANGED rest /\ Same(p) /\ m[p].do = "disorder"
<1>1. /\ m[p].do = "disorder" /\ K(p) \in Keys /\ m[p].i \in Orders(Current(p)) /\ UNCHANGED rest
      /\ m[p].do \in Writers /\ m[p].pc = "unset" /\ Forget(p)
  BY DEF Disorder, PlacedAt, Listing, Writers
<1>2. m[p].i \in Nat /\ m[p].n \in Nat /\ "unset" \in Places[m[p].do]
  BY <1>1 DEF Typed, Local, Places
<1>3. m'[p].pc # "link" => Tables(p)
  BY <1>1, ForgetIs
<1>4. CASE End(p, 0)
  <2>1. Stays(p) /\ m'[p].pc = "idle"
    BY <1>4, EndIs
  <2>2. PlacedAt(p)'
    BY <1>1, <2>1, PlaceIs DEF Stays
  <2>3. QED
    BY <1>1, <1>3, <2>1, <2>2 DEF Stays, Same
<1>5. CASE m[p].i < m[p].n - 1 /\ m' = [m EXCEPT ![p].i = @ + 1]
  <2>1. Goes(p) /\ m'[p].i = m[p].i + 1 /\ m'[p].pc = "unset" /\ Same(p)
    BY <1>1, <1>5, AdvanceIs DEF Same
  <2>2. m'[p].i \in Orders(Current(p))
    BY <1>1, <1>2, <1>5, <2>1 DEF Orders, Current
  <2>3. PlacedAt(p)'
    BY <1>1, <1>2, <2>1, <2>2, TurnPlaced
  <2>4. QED
    BY <1>1, <1>3, <2>1, <2>3
<1>6. QED
  BY <1>4, <1>5 DEF Disorder

LEMMA UnsetIs ==
  ASSUME Typed, NEW p \in Procs, PlacedAt(p), Unset(p)
  PROVE  /\ Goes(p) /\ PlacedAt(p)' /\ Tables(p) /\ UNCHANGED rest /\ Same(p) /\ m[p].do = "unset"
         /\ m[p].pc = "unset"
         /\ \/ m'[p].pc = "idle"
            \/ \E s \in 1 .. Slots : Frees(p, s) /\ Only(s)
<1>1. /\ m[p].do = "unset" /\ K(p) \in Keys /\ UNCHANGED rest
      /\ m[p].do \in Writers /\ m[p].pc = "unset" /\ Forget(p)
  BY DEF Unset, PlacedAt, Listing, Writers
<1>2. m'[p].pc # "link" => Tables(p) /\ (Even(K(p)) => \E s \in 1 .. Slots : Frees(p, s) /\ Only(s))
  BY <1>1, ForgetIs
<1>3. CASE \E rc \in Int : End(p, rc)
  <2>1. Stays(p) /\ m'[p].pc = "idle"
    BY <1>3, EndIs
  <2>2. PlacedAt(p)'
    BY <1>1, <2>1, PlaceIs DEF Stays
  <2>3. QED
    BY <1>1, <1>2, <2>1, <2>2 DEF Stays, Same
<1>4. CASE Even(K(p)) /\ << m[p].name, m[p].i + 1 >> \in Keys /\ m' = [m EXCEPT ![p].i = @ + 1]
  <2>1. Goes(p) /\ m'[p].i = m[p].i + 1 /\ m'[p].pc = "unset" /\ Same(p)
    BY <1>1, <1>4, AdvanceIs DEF Same
  <2>2. Current(p)' = Current(p) /\ K(p)' = << m[p].name, m[p].i + 1 >> /\ m'[p].do = m[p].do
    BY <2>1 DEF Goes, Current, K
  <2>3. PlacedAt(p)'
    BY <1>1, <1>4, <2>1, <2>2, SetPlaces DEF PlacedAt
  <2>4. QED
    BY <1>1, <1>2, <1>4, <2>1, <2>3
<1>5. QED
  BY <1>3, <1>4 DEF Unset

(* What a step of p that changes no slot does. *)
Reads(p) == Goes(p) /\ PlacedAt(p)' /\ Still /\ UNCHANGED rest /\ m'[p].pc # "link"

LEMMA SeekPlaces ==
  ASSUME Typed, NEW p \in Procs, PlacedAt(p)
  PROVE  /\ m[p].pc \in {"look", "wait", "fetch"} => m[p].do \in {"search", "watch"}
         /\ m[p].do = "search" => /\ m[p].i = 0 /\ K(p) \in Keys
                                  /\ m[p].pc \in Early => m[p].x = 0
         /\ m[p].do = "watch" => m[p].i = 0 /\ K(p) \in Keys
         /\ {"idle", "collect", "unset", "look", "wait", "fetch"} \subseteq Places["search"] \cup {"idle"}
         /\ {"idle", "look", "wait", "fetch"} \subseteq Places["watch"] \cup {"idle"}
         /\ {"idle", "collect", "unset", "look", "wait", "fetch"} \subseteq PCs
<1>1. /\ {"idle", "collect", "unset", "look", "wait", "fetch"} \subseteq PCs
      /\ {"idle", "collect", "unset", "look", "wait", "fetch"} \subseteq Places["search"] \cup {"idle"}
      /\ {"idle", "look", "wait", "fetch"} \subseteq Places["watch"] \cup {"idle"}
  BY DEF PCs, Places, Setting, Seek, Scan
<1>2. m[p].pc \in {"look", "wait", "fetch"} => m[p].do \in {"search", "watch"}
  <2>1. m[p].do \in DOMAIN Entry \cup {"none"}
    BY DEF Typed, Local
  <2>2. QED
    BY <2>1 DEF PlacedAt, Places, Setting, Seek, Scan, Entry
<1>3. QED
  BY <1>1, <1>2 DEF PlacedAt, Listing

LEMMA LookIs ==
  ASSUME Typed, NEW p \in Procs, PlacedAt(p), Look(p)
  PROVE  /\ Reads(p) /\ Same(p) /\ m[p].do \in {"search", "watch"} /\ m'[p].i = m[p].i
         /\ m[p].pc = "look" /\ m'[p].pc = "wait" /\ Even(K(p))
         /\ m'[p].s = At(K(p)) /\ m'[p].e = tab[At(K(p))].epoch
<1> DEFINE k == K(p)
           s == At(k)
           e == tab[s].epoch
           r == [m[p] EXCEPT !.pc = "wait", !.s = s, !.e = e]
<1>1. m[p].do \in {"search", "watch"} /\ m[p].i = 0 /\ k \in Keys /\ m[p].pc = "look" /\ Even(k)
  BY SeekPlaces DEF Look
<1>2. s \in 1 .. Slots /\ s \in 0 .. Slots
  BY <1>1, FoundIs, CommandsAssumption DEF Even
<1>3. e \in Nat
  BY <1>2 DEF Typed, SlotType
<1>4. m \in [Procs -> Local] /\ m[p] \in Local /\ "wait" \in PCs
  BY DEF Typed, PCs, Setting, Seek, Scan
<1>5. m' = [m EXCEPT ![p] = r]
  BY <1>4 DEF Look, Local
<1> HIDE DEF e, s, k
<1>6. /\ r \in Local /\ r.do = m[p].do /\ r.name = m[p].name /\ r.n = m[p].n /\ r.gen = m[p].gen
      /\ r.flag = m[p].flag /\ r.i = m[p].i /\ r.vec = m[p].vec /\ r.got = m[p].got
      /\ r.rows = m[p].rows /\ r.pc = "wait" /\ r.x = m[p].x /\ r.s = s /\ r.e = e
  BY <1>2, <1>3, <1>4 DEF Local
<1> HIDE DEF r
<1>7. Goes(p) /\ m'[p] = r
  BY <1>4, <1>5, <1>6 DEF Goes
<1>8. PlacedAt(p)'
  <2>1. m[p].do = "search" => m[p].x = 0
    BY <1>1, SeekPlaces DEF Early, Setting, Seek
  <2>2. "wait" \in Places[m[p].do]
    BY <1>1 DEF Places, Setting, Seek, Scan
  <2>3. QED
    BY <1>1, <1>2, <1>6, <1>7, <2>1, <2>2, PlaceIs, CommandsAssumption
<1>9. QED
  BY <1>1, <1>6, <1>7, <1>8 DEF Look, Reads, Same, s, e, k

LEMMA MovedIs ==
  ASSUME Typed, NEW p \in Procs, PlacedAt(p), Moved(p)
  PROVE  /\ Reads(p) /\ Same(p) /\ m[p].do \in {"search", "watch"} /\ m'[p].i = m[p].i
         /\ m[p].pc = "wait" /\ m'[p].pc = "fetch"
<1>1. m[p].do \in {"search", "watch"} /\ m[p].pc = "wait" /\ To(p, "fetch") /\ Still /\ UNCHANGED rest
  BY SeekPlaces DEF Moved
<1>2. Stays(p) /\ m'[p].pc = "fetch" /\ m'[p].x = m[p].x
  BY <1>1, ToIs DEF PCs, Setting, Seek, Scan
<1>3. PlacedAt(p)'
  <2>1. m[p].do = "search" => m[p].x = 0
    BY <1>1, SeekPlaces DEF Early, Setting, Seek
  <2>2. "fetch" \in Places[m[p].do]
    BY <1>1 DEF Places, Setting, Seek, Scan
  <2>3. QED
    BY <1>1, <1>2, <2>1, <2>2, PlaceIs DEF Stays
<1>4. QED
  BY <1>1, <1>2, <1>3 DEF Reads, Stays, Same

LEMMA NoVectorIs ==
  ASSUME Typed, NEW p \in Procs, PlacedAt(p), NoVector(p), Still, UNCHANGED rest,
         m[p].do = "search", m[p].pc \in Early
  PROVE  Reads(p) /\ Same(p) /\ m'[p].i = m[p].i /\ m'[p].pc \in {"collect", "unset"}
<1> DEFINE l == IF m[p].flag THEN "collect" ELSE "unset"
<1>1. l \in {"collect", "unset"} /\ l \in PCs /\ To(p, l)
  BY DEF NoVector, PCs, Setting, Seek, Scan
<1> HIDE DEF l
<1>2. Stays(p) /\ m'[p].pc = l /\ m'[p].x = m[p].x /\ m[p].x = 0
  BY <1>1, ToIs, SeekPlaces
<1>3. PlacedAt(p)'
  BY <1>1, <1>2, PlaceIs, CommandsAssumption DEF Stays, Early, Places, Setting, Seek, Scan
<1>4. QED
  BY <1>1, <1>2, <1>3 DEF Reads, Stays, Same

LEMMA SearchPollIs ==
  ASSUME Typed, NEW p \in Procs, PlacedAt(p), SearchPoll(p)
  PROVE  Reads(p) /\ Same(p) /\ m[p].do = "search" /\ m'[p].i = m[p].i /\ m'[p].pc \in {"collect", "unset"}
<1>1. /\ m[p].do = "search" /\ m[p].pc \in Early /\ Still /\ UNCHANGED rest
      /\ m[p].x = 0 /\ m[p].i = 0
  BY SeekPlaces DEF SearchPoll, Refused, Expired, Early, Setting, Seek
<1>2. CASE NoVector(p)
  BY <1>1, <1>2, NoVectorIs
<1>3. CASE m' = [m EXCEPT ![p].pc = "collect", ![p].scores = TRUE]
  <2> DEFINE r == [m[p] EXCEPT !.pc = "collect", !.scores = TRUE]
  <2>1. m \in [Procs -> Local] /\ m[p] \in Local /\ "collect" \in PCs
    BY DEF Typed, PCs, Setting, Seek, Scan
  <2>2. m' = [m EXCEPT ![p] = r]
    BY <1>3, <2>1 DEF Local
  <2>3. /\ r \in Local /\ r.do = m[p].do /\ r.name = m[p].name /\ r.n = m[p].n /\ r.gen = m[p].gen
        /\ r.flag = m[p].flag /\ r.i = m[p].i /\ r.vec = m[p].vec /\ r.got = m[p].got
        /\ r.rows = m[p].rows /\ r.pc = "collect" /\ r.x = m[p].x
    BY <2>1 DEF Local
  <2> HIDE DEF r
  <2>4. Goes(p) /\ m'[p] = r
    BY <2>1, <2>2, <2>3 DEF Goes
  <2>5. PlacedAt(p)'
    BY <1>1, <2>3, <2>4, PlaceIs, CommandsAssumption DEF Places, Early, Setting, Seek, Scan
  <2>6. QED
    BY <1>1, <2>3, <2>4, <2>5 DEF Reads, Same
<1>4. QED
  BY <1>2, <1>3 DEF SearchPoll

LEMMA SearchFetchIs ==
  ASSUME Typed, NEW p \in Procs, PlacedAt(p), SearchFetch(p)
  PROVE  /\ Reads(p) /\ m[p].do = "search" /\ m[p].pc = "fetch" /\ m'[p].i = m[p].i
         /\ m'[p].rows = m[p].rows /\ m'[p].pc \in {"collect", "unset"}
         /\ \/ Same(p)
            \/ Even(K(p)) /\ m'[p].vec = tab[At(K(p))].vec
<1> DEFINE k == K(p)
<1>1. /\ m[p].do = "search" /\ m[p].pc = "fetch" /\ m[p].pc \in Early /\ Still /\ UNCHANGED rest
      /\ m[p].x = 0 /\ m[p].i = 0 /\ k \in Keys
  BY SeekPlaces DEF SearchFetch, Early, Setting, Seek
<1>2. CASE ~ Even(k)
  <2>1. NoVector(p)
    BY <1>2 DEF SearchFetch
  <2>2. QED
    BY <1>1, <2>1, NoVectorIs DEF Same
<1>3. CASE Even(k)
  <2> DEFINE v == tab[At(k)].vec
             r == [m[p] EXCEPT !.pc = "collect", !.vec = v, !.got = TRUE, !.scores = TRUE]
  <2>1. m \in [Procs -> Local] /\ m[p] \in Local /\ "collect" \in PCs
    BY DEF Typed, PCs, Setting, Seek, Scan
  <2>2. v \in Version
    BY <1>1, <1>3, FoundIs DEF Even, Typed, SlotType
  <2>3. m' = [m EXCEPT ![p] = r]
    BY <1>3, <2>1 DEF SearchFetch, Local
  <2> HIDE DEF v, k
  <2>4. /\ r \in Local /\ r.do = m[p].do /\ r.name = m[p].name /\ r.n = m[p].n /\ r.gen = m[p].gen
        /\ r.flag = m[p].flag /\ r.i = m[p].i /\ r.vec = v
        /\ r.rows = m[p].rows /\ r.pc = "collect" /\ r.x = m[p].x
    BY <2>1, <2>2 DEF Local
  <2> HIDE DEF r
  <2>5. Goes(p) /\ m'[p] = r
    BY <2>1, <2>3, <2>4 DEF Goes
  <2>6. PlacedAt(p)'
    BY <1>1, <2>4, <2>5, PlaceIs, CommandsAssumption DEF Places, Early, Setting, Seek, Scan
  <2>7. QED
    BY <1>1, <1>3, <2>4, <2>5, <2>6 DEF Reads, v, k
<1>4. QED
  BY <1>2, <1>3

LEMMA WatchIs ==
  ASSUME Typed, NEW p \in Procs, PlacedAt(p), WatchPoll(p) \/ WatchFetch(p) \/ Leave(p)
  PROVE  Reads(p) /\ Same(p) /\ m[p].do = "watch" /\ m'[p].i = m[p].i
<1>1. m[p].do = "watch" /\ Still /\ UNCHANGED rest /\ m \in [Procs -> Local] /\ m[p] \in Local
  BY DEF WatchPoll, WatchFetch, Leave, Typed
<1>2. ASSUME NEW rc \in Int, m' = [m EXCEPT ![p].pc = "idle", ![p].rc = rc, ![p].raw = FALSE]
      PROVE  Stays(p) /\ m'[p].pc = "idle"
  <2> DEFINE r == [m[p] EXCEPT !.pc = "idle", !.rc = rc, !.raw = FALSE]
  <2>1. m' = [m EXCEPT ![p] = r]
    BY <1>1, <1>2 DEF Local
  <2>2. /\ r \in Local /\ r.do = m[p].do /\ r.name = m[p].name /\ r.n = m[p].n /\ r.gen = m[p].gen
        /\ r.flag = m[p].flag /\ r.i = m[p].i /\ r.vec = m[p].vec /\ r.got = m[p].got
        /\ r.rows = m[p].rows /\ r.pc = "idle"
    BY <1>1 DEF Local, PCs, Setting, Seek, Scan
  <2> HIDE DEF r
  <2>3. QED
    BY <1>1, <2>1, <2>2 DEF Goes, Stays
<1>3. ASSUME m' = [m EXCEPT ![p].pc = "idle", ![p].raw = FALSE]
      PROVE  Stays(p) /\ m'[p].pc = "idle"
  <2>1. m' = [m EXCEPT ![p].pc = "idle", ![p].rc = m[p].rc, ![p].raw = FALSE] /\ m[p].rc \in Int
    BY <1>1, <1>3 DEF Local
  <2>2. QED
    BY <1>2, <2>1
<1>4. ASSUME To(p, "look")
      PROVE  Stays(p) /\ m'[p].pc = "look"
  BY <1>4, ToIs DEF PCs, Setting, Seek, Scan
<1>5. ASSUME End(p, -1)
      PROVE  Stays(p) /\ m'[p].pc = "idle"
  BY <1>5, EndIs
<1>6. Stays(p) /\ m'[p].pc \in {"idle", "look"}
  <2>1. CASE WatchPoll(p)
    <3>1. m' = [m EXCEPT ![p].pc = "idle", ![p].rc = -1, ![p].raw = FALSE] /\ -1 \in Int
      BY <2>1 DEF WatchPoll
    <3>2. QED
      BY <1>2, <3>1
  <2>2. CASE WatchFetch(p)
    BY <1>3, <1>4, <1>5, <2>2 DEF WatchFetch
  <2>3. CASE Leave(p)
    BY <1>3, <2>3 DEF Leave
  <2>4. QED
    BY <2>1, <2>2, <2>3
<1>7. PlacedAt(p)'
  BY <1>1, <1>6, PlaceIs DEF Stays, Places, Setting, Seek, Scan
<1>8. QED
  BY <1>1, <1>6, <1>7 DEF Reads, Stays, Same

LEMMA SeqIs ==
  ASSUME NEW S, NEW q \in Seq(S)
  PROVE  /\ \A e \in S : /\ Append(q, e) \in Seq(S) /\ Len(Append(q, e)) = Len(q) + 1
                         /\ Append(q, e)[Len(q) + 1] = e
                         /\ \A i \in 1 .. Len(q) : Append(q, e)[i] = q[i]
         /\ q # << >> => /\ Head(q) \in S /\ Tail(q) \in Seq(S) /\ Len(q) > 0 /\ Head(q) = q[1]
                         /\ Len(Tail(q)) = Len(q) - 1 /\ \A i \in 1 .. Len(q) - 1 : Tail(q)[i] = q[i + 1]
         /\ Len(q) \in Nat /\ DOMAIN q = 1 .. Len(q) /\ \A i \in 1 .. Len(q) : q[i] \in S
OBVIOUS

LEMMA RowPlaces ==
  ASSUME Typed, NEW p \in Procs, PlacedAt(p)
  PROVE  /\ m[p].pc \in Scan => m[p].do \in Listing \cup {"search"}
         /\ m[p].pc = "values" => m[p].do = "export"
         /\ m[p].pc = "score" => m[p].do = "search"
         /\ m[p].do \in Listing \cup {"search"} => Scan \subseteq Places[m[p].do]
         /\ {"score", "unset"} \subseteq Places["search"] /\ "values" \in Places["export"]
         /\ {"idle", "crashed", "collect", "rows", "copy", "check", "values", "score", "unset"} \subseteq PCs
         /\ Scan = {"collect", "rows", "copy", "check"} /\ Scan \cap Early = {}
         /\ m[p].pc \in {"copy", "check"} => m[p].s \in 1 .. Slots
<1>1. m[p].do \in DOMAIN Entry \cup {"none"}
  BY DEF Typed, Local
<1>2. /\ m[p].pc \in Scan => m[p].do \in Listing \cup {"search"}
      /\ m[p].pc = "values" => m[p].do = "export"
      /\ m[p].pc = "score" => m[p].do = "search"
  BY <1>1 DEF PlacedAt, Places, Setting, Seek, Scan, Entry, Listing
<1>3. m[p].pc \in {"copy", "check"} => m[p].s \in 1 .. Slots
  <2>1. m[p].s \in 0 .. Slots /\ Slots \in Nat
    BY CommandsAssumption DEF Typed, Local
  <2>2. m[p].pc \in {"copy", "check"} => m[p].s # 0
    BY <1>1 DEF PlacedAt
  <2>3. QED
    BY <2>1, <2>2
<1>4. QED
  BY <1>2, <1>3 DEF Places, PCs, Early, Setting, Seek, Scan, Listing

LEMMA CollectIs ==
  ASSUME Typed, NEW p \in Procs, PlacedAt(p), Collect(p)
  PROVE  /\ Reads(p) /\ Same(p) /\ m[p].do \in Listing \cup {"search"} /\ m[p].pc = "collect"
         /\ m[p].x + 1 \in 1 .. Slots
         /\ m'[p].x = (IF m[p].x + 1 < Slots THEN m[p].x + 1 ELSE 0)
         /\ m'[p].pc = (IF m[p].x + 1 < Slots THEN "collect" ELSE "rows")
         /\ m'[p].names = (IF tab[m[p].x + 1].key # NoKey THEN Append(m[p].names, m[p].x + 1) ELSE m[p].names)
<1> DEFINE s == m[p].x + 1
           x == IF s < Slots THEN s ELSE 0
           l == IF s < Slots THEN m[p].pc ELSE "rows"
           g == IF tab[s].key # NoKey THEN Append(m[p].names, s) ELSE m[p].names
           r == [m[p] EXCEPT !.x = x, !.pc = l, !.names = g]
<1>1. /\ m[p].do \in Listing \cup {"search"} /\ m[p].pc = "collect" /\ Still /\ UNCHANGED rest
      /\ m[p].x < Slots /\ Slots \in Nat
  BY RowPlaces, CommandsAssumption DEF Collect, PlacedAt, Listing, Scan
<1>2. m \in [Procs -> Local] /\ m[p] \in Local /\ m[p].x \in Nat /\ m[p].names \in Seq(1 .. Slots)
  BY DEF Typed, Local
<1>3. s \in 1 .. Slots /\ x \in Nat
  BY <1>1, <1>2
<1>4. l \in PCs /\ g \in Seq(1 .. Slots)
  <2>1. l \in {"collect", "rows"}
    BY <1>1
  <2>2. l \in PCs
    BY <2>1 DEF PCs, Scan
  <2> HIDE DEF s, l
  <2>3. Append(m[p].names, s) \in Seq(1 .. Slots)
    BY <1>2, <1>3, SeqIs
  <2>4. QED
    BY <1>2, <2>2, <2>3
<1>5. m' = [m EXCEPT ![p] = r]
  BY <1>2 DEF Collect, Local
<1>6. l = (IF s < Slots THEN "collect" ELSE "rows")
  BY <1>1
<1>7. x < Slots /\ (m[p].i = m[p].i)
  BY <1>1, <1>2
<1> HIDE DEF s, x, l, g
<1>8. /\ r \in Local /\ r.do = m[p].do /\ r.name = m[p].name /\ r.n = m[p].n /\ r.gen = m[p].gen
      /\ r.flag = m[p].flag /\ r.i = m[p].i /\ r.vec = m[p].vec /\ r.got = m[p].got
      /\ r.rows = m[p].rows /\ r.pc = l /\ r.x = x /\ r.names = g
  BY <1>2, <1>3, <1>4 DEF Local
<1> HIDE DEF r
<1>9. Goes(p) /\ m'[p] = r
  BY <1>2, <1>5, <1>8 DEF Goes
<1>10. PlacedAt(p)'
  BY <1>1, <1>6, <1>7, <1>8, <1>9, PlaceIs, RowPlaces DEF Early, Setting, Seek, Listing
<1>11. QED
  BY <1>1, <1>3, <1>6, <1>8, <1>9, <1>10 DEF Reads, Same, s, x, g

LEMMA RowStepIs ==
  ASSUME Typed, NEW p \in Procs, PlacedAt(p), RowStep(p)
  PROVE  /\ Reads(p) /\ Same(p) /\ m[p].do \in Listing \cup {"search"} /\ m[p].pc = "rows"
         /\ m[p].names # << >> /\ Head(m[p].names) \in 1 .. Slots /\ m'[p].names = Tail(m[p].names)
         /\ Passed(p) => m'[p].pc = "rows"
         /\ ~ Passed(p) => /\ Shown(p) \in Keys /\ m'[p].pc = "copy" /\ m'[p].s \in 1 .. Slots
                           /\ tab[m'[p].s].key = Shown(p)
<1>1. /\ m[p].do \in Listing \cup {"search"} /\ m[p].pc = "rows" /\ Still /\ UNCHANGED rest
      /\ m[p].names # << >>
  BY RowPlaces DEF RowStep
<1>2. /\ m \in [Procs -> Local] /\ m[p] \in Local /\ m[p].x \in Nat /\ m[p].names \in Seq(1 .. Slots)
      /\ m[p].s \in 0 .. Slots
  BY DEF Typed, Local
<1>3. Head(m[p].names) \in 1 .. Slots /\ Tail(m[p].names) \in Seq(1 .. Slots)
  BY <1>1, <1>2, SeqIs
<1>4. ASSUME ~ Passed(p)
      PROVE  Shown(p) \in Keys /\ At(Shown(p)) \in 1 .. Slots /\ tab[At(Shown(p))].key = Shown(p)
  <2> DEFINE k == Shown(p)
  <2>1. k \in Keys /\ k = tab[Head(m[p].names)].key /\ ~ tab[Head(m[p].names)].hid
    BY <1>3, <1>4, SlotIs DEF Passed, Shown
  <2> HIDE DEF k
  <2>2. Has(k)
    BY <1>3, <2>1, FoundIs
  <2>3. At(k) \in 1 .. Slots /\ tab[At(k)].key = k
    BY <2>1, <2>2, FoundIs
  <2>4. QED
    BY <2>1, <2>3 DEF k
<1> DEFINE g == Tail(m[p].names)
           x == m[p].x + 1
           l == IF Passed(p) THEN m[p].pc ELSE "copy"
           s == IF Passed(p) THEN m[p].s ELSE At(Shown(p))
           r == [m[p] EXCEPT !.names = g, !.x = x, !.pc = l, !.s = s]
<1>5. x \in Nat /\ l \in {"rows", "copy"} /\ l \in PCs /\ s \in 0 .. Slots /\ g \in Seq(1 .. Slots)
  <2>1. l \in {"rows", "copy"}
    BY <1>1
  <2>2. s \in 0 .. Slots
    BY <1>2, <1>4, CommandsAssumption
  <2> HIDE DEF s, l
  <2>3. QED
    BY <1>2, <1>3, <2>1, <2>2, RowPlaces
<1>6. m' = [m EXCEPT ![p] = r]
  BY <1>2 DEF RowStep, Local
<1>7. /\ Passed(p) => l = "rows"
      /\ ~ Passed(p) => l = "copy" /\ s = At(Shown(p))
  BY <1>1
<1> HIDE DEF g, x, l, s
<1>8. /\ r \in Local /\ r.do = m[p].do /\ r.name = m[p].name /\ r.n = m[p].n /\ r.gen = m[p].gen
      /\ r.flag = m[p].flag /\ r.i = m[p].i /\ r.vec = m[p].vec /\ r.got = m[p].got
      /\ r.rows = m[p].rows /\ r.pc = l /\ r.names = g /\ r.s = s
  BY <1>2, <1>5 DEF Local
<1> HIDE DEF r
<1>9. Goes(p) /\ m'[p] = r
  BY <1>2, <1>6, <1>8 DEF Goes
<1>10. l = "copy" => s # 0
  BY <1>4, <1>7, CommandsAssumption
<1>11. m[p].do # "none" /\ r.pc \in Places[m[p].do] /\ r.pc \notin Early
  BY <1>1, <1>5, <1>8, RowPlaces DEF Listing
<1>12. PlacedAt(p)'
  BY <1>5, <1>8, <1>9, <1>10, <1>11, PlaceIs
<1>13. QED
  BY <1>1, <1>3, <1>4, <1>5, <1>7, <1>8, <1>9, <1>12 DEF Reads, Same, g

LEMMA RowCopyIs ==
  ASSUME Typed, NEW p \in Procs, PlacedAt(p), RowCopy(p)
  PROVE  /\ Reads(p) /\ Same(p) /\ m[p].do \in Listing \cup {"search"} /\ m[p].pc = "copy" /\ m'[p].pc = "check"
         /\ m'[p].names = m[p].names /\ m'[p].s = m[p].s /\ m[p].s \in 1 .. Slots
         /\ m'[p].row = tab[m[p].s]
<1>1. /\ m[p].do \in Listing \cup {"search"} /\ m[p].pc = "copy" /\ Still /\ UNCHANGED rest
      /\ m[p].s \in 1 .. Slots /\ m \in [Procs -> Local] /\ m[p] \in Local /\ m[p].s # 0
  BY RowPlaces, CommandsAssumption DEF RowCopy, Typed
<1> DEFINE t == tab[m[p].s]
           e == tab[m[p].s].epoch
           r == [m[p] EXCEPT !.pc = "check", !.row = t, !.e = e]
<1>2. t \in SlotType /\ e \in Nat /\ "check" \in PCs
  BY <1>1, SlotIs, RowPlaces
<1>3. m' = [m EXCEPT ![p] = r]
  BY <1>1 DEF RowCopy, Local
<1> HIDE DEF t, e
<1>4. /\ r \in Local /\ r.do = m[p].do /\ r.name = m[p].name /\ r.n = m[p].n /\ r.gen = m[p].gen
      /\ r.flag = m[p].flag /\ r.i = m[p].i /\ r.vec = m[p].vec /\ r.got = m[p].got
      /\ r.rows = m[p].rows /\ r.pc = "check" /\ r.names = m[p].names /\ r.s = m[p].s /\ r.row = t
  BY <1>1, <1>2 DEF Local
<1> HIDE DEF r
<1>5. Goes(p) /\ m'[p] = r
  BY <1>1, <1>3, <1>4 DEF Goes
<1>6. m[p].do # "none" /\ r.pc \in Places[m[p].do] /\ r.pc \notin Early
  BY <1>1, <1>4, RowPlaces DEF Listing
<1>7. PlacedAt(p)'
  BY <1>1, <1>4, <1>5, <1>6, PlaceIs
<1>8. QED
  BY <1>1, <1>4, <1>5, <1>7 DEF Reads, Same, t

LEMMA RowCheckIs ==
  ASSUME Typed, NEW p \in Procs, PlacedAt(p), RowCheck(p)
  PROVE  /\ Reads(p) /\ m'[p].vec = m[p].vec /\ m'[p].got = m[p].got
         /\ m[p].do \in Listing \cup {"search"} /\ m[p].pc = "check" /\ m[p].s \in 1 .. Slots
         /\ m'[p].names = m[p].names
         /\ \/ m'[p].pc = "copy" /\ m'[p].s = m[p].s /\ m'[p].rows = m[p].rows
            \/ /\ m'[p].pc = "rows"
               /\ \E t \in SlotType : /\ t.key = m[p].row.key \/ t.key = Printed(tab[m[p].s]).key
                                      /\ m'[p].rows = Append(m[p].rows, t)
<1>1. /\ m[p].do \in Listing \cup {"search"} /\ m[p].pc = "check" /\ Still /\ UNCHANGED rest
      /\ m[p].s \in 1 .. Slots /\ m \in [Procs -> Local] /\ m[p] \in Local /\ m[p].s # 0
      /\ m[p].row \in SlotType /\ m[p].rows \in Seq(SlotType)
  <2>1. m[p].pc = "check" /\ Still /\ UNCHANGED rest
    BY DEF RowCheck
  <2>2. m \in [Procs -> Local] /\ m[p] \in Local /\ m[p].row \in SlotType /\ m[p].rows \in Seq(SlotType)
    BY DEF Typed, Local
  <2>3. m[p].do \in Listing \cup {"search"} /\ m[p].s \in 1 .. Slots
    BY <2>1, RowPlaces
  <2>4. m[p].s # 0
    BY <2>3, CommandsAssumption
  <2>5. QED
    BY <2>1, <2>2, <2>3, <2>4
<1>2. Printed(tab[m[p].s]) \in SlotType
  BY <1>1, SlotIs DEF Printed, SlotType
<1>3. CASE To(p, "copy")
  <2>1. Stays(p) /\ m'[p].pc = "copy" /\ m'[p].names = m[p].names /\ m'[p].s = m[p].s
    BY <1>3, ToIs, RowPlaces
  <2>2. m[p].do # "none" /\ "copy" \in Places[m[p].do] /\ "copy" \notin Early
    BY <1>1, RowPlaces DEF Listing
  <2>3. PlacedAt(p)'
    BY <1>1, <2>1, <2>2, PlaceIs DEF Stays
  <2>4. QED
    BY <1>1, <2>1, <2>3 DEF Reads, Stays
<1>4. CASE \E t \in {m[p].row, Printed(tab[m[p].s])} : WithRow(p, t)
  <2>1. PICK t \in {m[p].row, Printed(tab[m[p].s])} : WithRow(p, t)
    BY <1>4
  <2>2. t \in SlotType
    BY <1>1, <1>2
  <2> DEFINE g == Append(m[p].rows, t)
             r == [m[p] EXCEPT !.pc = "rows", !.rows = g, !.row = Free]
  <2>3. g \in Seq(SlotType) /\ "rows" \in PCs
    BY <1>1, <2>2, SeqIs, RowPlaces
  <2>4. m' = [m EXCEPT ![p] = r]
    BY <1>1, <2>1 DEF WithRow, Local
  <2> HIDE DEF g
  <2>5. /\ r \in Local /\ r.do = m[p].do /\ r.name = m[p].name /\ r.n = m[p].n /\ r.gen = m[p].gen
        /\ r.flag = m[p].flag /\ r.i = m[p].i /\ r.vec = m[p].vec /\ r.got = m[p].got
        /\ r.rows = g /\ r.pc = "rows" /\ r.names = m[p].names
    BY <1>1, <2>3, Plain DEF Local
  <2> HIDE DEF r
  <2>6. Goes(p) /\ m'[p] = r
    BY <1>1, <2>4, <2>5 DEF Goes
  <2>7. m[p].do # "none" /\ "rows" \in Places[m[p].do] /\ "rows" \notin Early
    BY <1>1, RowPlaces DEF Listing
  <2>8. PlacedAt(p)'
    BY <2>5, <2>6, <2>7, PlaceIs
  <2>9. t.key = m[p].row.key \/ t.key = Printed(tab[m[p].s]).key
    OBVIOUS
  <2>10. QED
    BY <1>1, <2>2, <2>5, <2>6, <2>8, <2>9 DEF Reads, g
<1>5. QED
  BY <1>3, <1>4 DEF RowCheck

LEMMA ListedIs ==
  ASSUME Typed, NEW p \in Procs, PlacedAt(p), Listed(p)
  PROVE  /\ Reads(p) /\ Same(p) /\ m[p].pc = "rows" /\ m[p].names = << >> /\ m'[p].names = << >>
         /\ \/ m[p].do = "search" /\ m'[p].pc \in {"score", "unset"}
            \/ m[p].do \in Listing /\ m'[p].pc \in {"idle", "values", "crashed"}
<1>1. /\ m[p].do \in Listing \cup {"search"} /\ m[p].pc = "rows" /\ m[p].names = << >>
      /\ Still /\ UNCHANGED rest
  BY RowPlaces DEF Listed, Scan
<1>2. m \in [Procs -> Local] /\ m[p] \in Local
  BY DEF Typed
<1>3. ASSUME NEW l \in PCs, m' = [m EXCEPT ![p].pc = l, ![p].x = 0]
      PROVE  Stays(p) /\ m'[p].pc = l /\ m'[p].names = m[p].names
  <2> DEFINE r == [m[p] EXCEPT !.pc = l, !.x = 0]
  <2>1. m' = [m EXCEPT ![p] = r]
    BY <1>2, <1>3 DEF Local
  <2>2. /\ r \in Local /\ r.do = m[p].do /\ r.name = m[p].name /\ r.n = m[p].n /\ r.gen = m[p].gen
        /\ r.flag = m[p].flag /\ r.i = m[p].i /\ r.vec = m[p].vec /\ r.got = m[p].got
        /\ r.rows = m[p].rows /\ r.pc = l /\ r.names = m[p].names
    BY <1>2 DEF Local
  <2> HIDE DEF r
  <2>3. QED
    BY <1>2, <2>1, <2>2 DEF Goes, Stays
<1>4. CASE m[p].do = "search"
  <2> DEFINE l == IF m[p].scores THEN "score" ELSE "unset"
  <2>1. m' = [m EXCEPT ![p].pc = l, ![p].x = 0]
    BY <1>4 DEF Listed, Listing
  <2>2. l \in {"score", "unset"} /\ l \in PCs
    BY RowPlaces
  <2> HIDE DEF l
  <2>3. Stays(p) /\ m'[p].pc = l /\ m'[p].names = m[p].names
    BY <1>3, <2>1, <2>2
  <2>4. PlacedAt(p)'
    BY <1>4, <2>2, <2>3, PlaceIs, RowPlaces DEF Stays, Early, Setting, Seek
  <2>5. QED
    BY <1>1, <1>4, <2>2, <2>3, <2>4 DEF Reads, Stays, Same
<1>5. CASE m[p].do \in Listing
  <2>1. CASE \E rc \in Int : End(p, rc)
    <3>1. Stays(p) /\ m'[p].pc = "idle" /\ m'[p].names = << >>
      BY <2>1, EndIs
    <3>2. QED
      BY <1>1, <1>5, <3>1, PlaceIs DEF Stays, Reads, Same, Listing
  <2>2. CASE m[p].do = "export" /\ m' = [m EXCEPT ![p].pc = "values", ![p].x = 0]
    <3>1. Stays(p) /\ m'[p].pc = "values" /\ m'[p].names = m[p].names
      BY <1>3, <2>2, RowPlaces
    <3>2. QED
      BY <1>1, <1>5, <2>2, <3>1, PlaceIs, RowPlaces DEF Stays, Reads, Same
  <2>3. CASE To(p, "crashed")
    <3>1. Stays(p) /\ m'[p].pc = "crashed" /\ m'[p].names = m[p].names
      BY <2>3, ToIs DEF PCs, Setting, Seek, Scan
    <3>2. QED
      BY <1>1, <1>5, <3>1, PlaceIs DEF Stays, Reads, Same, Listing
  <2>4. To(p, "crashed") \/ IF m[p].do = "list" THEN End(p, 0) ELSE m' = [m EXCEPT ![p].pc = "values", ![p].x = 0]
    BY <1>5 DEF Listed, Listing
  <2>5. QED
    BY <1>5, <2>1, <2>2, <2>3, <2>4 DEF Listing
<1>6. QED
  BY <1>1, <1>4, <1>5

LEMMA ExportedIs ==
  ASSUME Typed, NEW p \in Procs, PlacedAt(p), Exported(p)
  PROVE  Reads(p) /\ Same(p) /\ m[p].do = "export" /\ m[p].pc = "values" /\ m'[p].pc = "idle"
<1>1. m[p].do = "export" /\ m[p].pc = "values" /\ Still /\ UNCHANGED rest /\ End(p, 0)
  BY RowPlaces DEF Exported
<1>2. Stays(p) /\ m'[p].pc = "idle"
  BY <1>1, EndIs
<1>3. PlacedAt(p)'
  BY <1>1, <1>2, PlaceIs DEF Stays
<1>4. QED
  BY <1>1, <1>2, <1>3 DEF Reads, Stays, Same

(* A row gets another value or vector. *)
Rewrites(p) ==
  /\ Reads(p) /\ m'[p].vec = m[p].vec /\ m'[p].got = m[p].got
  /\ m'[p].pc = m[p].pc /\ m'[p].names = m[p].names
  /\ DOMAIN m'[p].rows = DOMAIN m[p].rows
  /\ \A j \in DOMAIN m[p].rows : m'[p].rows[j].key = m[p].rows[j].key

LEMMA RewriteIs ==
  ASSUME Typed, NEW p \in Procs, PlacedAt(p), Still, UNCHANGED rest,
         NEW i \in DOMAIN m[p].rows, NEW t \in SlotType, t.key = m[p].rows[i].key,
         m' = [m EXCEPT ![p] = [m[p] EXCEPT !.x = i, !.rows = [m[p].rows EXCEPT ![i] = t]]],
         m[p].pc \in {"values", "score"}
  PROVE  Rewrites(p)
<1> DEFINE o == [m[p].rows EXCEPT ![i] = t]
           r == [m[p] EXCEPT !.x = i, !.rows = o]
<1>1. m \in [Procs -> Local] /\ m[p] \in Local /\ m[p].rows \in Seq(SlotType) /\ i \in Nat
  BY DEF Typed, Local
<1>2. o \in Seq(SlotType) /\ DOMAIN o = DOMAIN m[p].rows
      /\ \A j \in DOMAIN m[p].rows : o[j].key = m[p].rows[j].key
  <2>1. /\ DOMAIN m[p].rows = 1 .. Len(m[p].rows) /\ Len(m[p].rows) \in Nat
        /\ \A j \in 1 .. Len(m[p].rows) : m[p].rows[j] \in SlotType
    BY <1>1, SeqIs
  <2>2. o \in [1 .. Len(m[p].rows) -> SlotType]
    BY <2>1
  <2>3. \A j \in DOMAIN m[p].rows : o[j].key = m[p].rows[j].key
    BY <2>1
  <2> HIDE DEF o
  <2>4. QED
    BY <2>1, <2>2, <2>3
<1>3. m' = [m EXCEPT ![p] = r]
  OBVIOUS
<1> HIDE DEF o
<1>4. /\ r \in Local /\ r.do = m[p].do /\ r.name = m[p].name /\ r.n = m[p].n /\ r.gen = m[p].gen
      /\ r.flag = m[p].flag /\ r.i = m[p].i /\ r.vec = m[p].vec /\ r.got = m[p].got
      /\ r.rows = o /\ r.pc = m[p].pc /\ r.names = m[p].names
  BY <1>1, <1>2 DEF Local
<1> HIDE DEF r
<1>5. Goes(p) /\ m'[p] = r
  BY <1>1, <1>3, <1>4 DEF Goes
<1>6. m[p].do \in {"export", "search"} /\ m[p].pc \in Places[m[p].do]
  BY RowPlaces
<1>7. PlacedAt(p)'
  BY <1>4, <1>5, <1>6, PlaceIs DEF Early, Setting, Seek
<1>8. QED
  BY <1>2, <1>4, <1>5, <1>7 DEF Reads, Rewrites

LEMMA ValueStepIs ==
  ASSUME Typed, NEW p \in Procs, PlacedAt(p), ValueStep(p)
  PROVE  Rewrites(p) /\ m[p].do = "export" /\ m[p].pc = "values"
<1> DEFINE i == m[p].x + 1
           q == m[p].rows[i]
           v == IF q.type # "vartext" \/ q.val = Nothing THEN q.val
                ELSE IF Gettable(q.key) THEN tab[At(q.key)].val ELSE Nothing
           t == [q EXCEPT !.val = v]
<1>1. /\ m[p].pc = "values" /\ m[p].do = "export" /\ m[p].x < Len(m[p].rows) /\ Still /\ UNCHANGED rest
      /\ m \in [Procs -> Local] /\ m[p] \in Local /\ m[p].rows \in Seq(SlotType) /\ m[p].x \in Nat
  BY RowPlaces DEF ValueStep, Typed, Local
<1>2. i \in DOMAIN m[p].rows /\ q \in SlotType
  BY <1>1
<1>3. v \in Version
  <2>1. ASSUME Gettable(q.key)
        PROVE  tab[At(q.key)].val \in Version
    <3>1. q.key \in Keys /\ Has(q.key)
      BY <1>2, <2>1 DEF Gettable, Even, SlotType
    <3> HIDE DEF q
    <3>2. QED
      BY <3>1, FoundIs, SlotIs
  <2>2. QED
    BY <1>2, <2>1, Plain DEF SlotType
<1>4. m' = [m EXCEPT ![p] = [m[p] EXCEPT !.x = i, !.rows = [m[p].rows EXCEPT ![i] = t]]]
  <2>1. m' = [m EXCEPT ![p].x = i, ![p].rows[i].val = v]
    BY DEF ValueStep
  <2> HIDE DEF v, i
  <2>2. QED
    BY <1>1, <1>2, <2>1 DEF Local, SlotType
<1> HIDE DEF v, i
<1>5. t \in SlotType /\ t.key = q.key
  <2> HIDE DEF q
  <2>1. QED
    BY <1>2, <1>3 DEF SlotType
<1> HIDE DEF t
<1>6. QED
  BY <1>1, <1>2, <1>4, <1>5, RewriteIs

LEMMA ScoreIs ==
  ASSUME Typed, NEW p \in Procs, PlacedAt(p), Score(p)
  PROVE  /\ Reads(p) /\ m'[p].vec = m[p].vec /\ m'[p].got = m[p].got
         /\ m[p].do = "search" /\ m'[p].pc \in {"score", "unset"}
<1> DEFINE i == m[p].x + 1
           q == m[p].rows[i]
           v == LET k == q.key IN IF Gettable(k) THEN tab[At(k)].vec ELSE Nothing
           t == [q EXCEPT !.vec = v]
<1>1. /\ m[p].pc = "score" /\ m[p].do = "search" /\ Still /\ UNCHANGED rest
      /\ m \in [Procs -> Local] /\ m[p] \in Local /\ m[p].rows \in Seq(SlotType) /\ m[p].x \in Nat
  BY RowPlaces DEF Score, Typed, Local
<1>2. CASE i > Len(m[p].rows)
  <2>1. Stays(p) /\ m'[p].pc = "unset"
    BY <1>2, ToIs, RowPlaces DEF Score
  <2>2. PlacedAt(p)'
    BY <1>1, <2>1, PlaceIs, RowPlaces DEF Stays, Early, Setting, Seek
  <2>3. QED
    BY <1>1, <2>1, <2>2 DEF Reads, Stays
<1>3. CASE i <= Len(m[p].rows)
  <2>1. i \in DOMAIN m[p].rows /\ q \in SlotType
    BY <1>1, <1>3
  <2>2. v \in Version
    <3>1. ASSUME Gettable(q.key)
          PROVE  tab[At(q.key)].vec \in Version
      <4>1. q.key \in Keys /\ Has(q.key)
        BY <2>1, <3>1 DEF Gettable, Even, SlotType
      <4> HIDE DEF q
      <4>2. QED
        BY <4>1, FoundIs, SlotIs
    <3>2. QED
      BY <3>1, Plain
  <2>3. m' = [m EXCEPT ![p] = [m[p] EXCEPT !.x = i, !.rows = [m[p].rows EXCEPT ![i] = t]]]
    <3>1. m' = [m EXCEPT ![p].x = i, ![p].rows[i].vec = v]
      BY <1>1, <1>3 DEF Score
    <3> HIDE DEF v, i
    <3>2. QED
      BY <1>1, <2>1, <3>1 DEF Local, SlotType
  <2> HIDE DEF v, i
  <2>4. t \in SlotType /\ t.key = q.key
    <3> HIDE DEF q
    <3>1. QED
      BY <2>1, <2>2 DEF SlotType
  <2> HIDE DEF t
  <2>5. Rewrites(p)
    BY <1>1, <2>1, <2>3, <2>4, RewriteIs
  <2>6. QED
    BY <1>1, <2>5 DEF Rewrites
<1>4. QED
  <2>1. Len(m[p].rows) \in Nat
    BY <1>1
  <2>2. QED
    BY <1>1, <1>2, <1>3, <2>1

LEMMA StepIs ==
  ASSUME Typed, NEW p \in Procs, PlacedAt(p), Steps(p)
  PROVE  /\ Goes(p) /\ PlacedAt(p)' /\ Tables(p) /\ UNCHANGED rest
         /\ m[p].do = "ingest" => Ingests(p)
         /\ m[p].do = "unset" =>
              /\ m[p].pc = "unset"
              /\ \/ m'[p].pc = "idle"
                 \/ \E s \in 1 .. Slots : Frees(p, s) /\ Only(s)
<1>1. CASE SetOpen(p) \/ SetLink(p) \/ SetFails(p)
  <2>1. m[p].pc \in {"set", "link"} /\ m[p].do # "unset" /\ m[p].i \in Nat
    BY <1>1, SetPlaces DEF SetOpen, SetLink, SetFails, Setters, Typed, Local
  <2>2. CASE SetOpen(p)
    BY <2>1, <2>2, SetOpenIs DEF Stays, Ingests
  <2>3. CASE SetLink(p)
    BY <2>1, <2>3, SetLinkIs DEF Ingests
  <2>4. CASE SetFails(p)
    BY <2>1, <2>4, SetFailsIs DEF Stays, Ingests
  <2>5. QED
    BY <1>1, <2>2, <2>3, <2>4
<1>2. CASE Chunk(p) \/ Metadata(p)
  BY <1>2, IngestIs
<1>3. CASE Query(p) \/ Cleanup(p)
  BY <1>3, QueryIs DEF Stays
<1>4. CASE Unset(p)
  BY <1>4, UnsetIs
<1>5. CASE Disorder(p)
  BY <1>5, DisorderIs
<1>6. ASSUME Reads(p), m[p].do \notin {"ingest", "unset"}
      PROVE  /\ Goes(p) /\ PlacedAt(p)' /\ Tables(p) /\ UNCHANGED rest
             /\ m[p].do # "ingest" /\ m[p].do # "unset"
  BY <1>6 DEF Reads, Tables, Still
<1>7. CASE Look(p)
  BY <1>6, <1>7, LookIs
<1>8. CASE Moved(p)
  BY <1>6, <1>8, MovedIs
<1>9. CASE SearchPoll(p)
  BY <1>6, <1>9, SearchPollIs
<1>10. CASE SearchFetch(p)
  BY <1>6, <1>10, SearchFetchIs
<1>11. CASE WatchPoll(p) \/ WatchFetch(p)
  BY <1>6, <1>11, WatchIs
<1>12. CASE Collect(p)
  BY <1>6, <1>12, CollectIs DEF Listing
<1>13. CASE RowStep(p)
  BY <1>6, <1>13, RowStepIs DEF Listing
<1>14. CASE RowCopy(p)
  BY <1>6, <1>14, RowCopyIs DEF Listing
<1>15. CASE RowCheck(p)
  BY <1>6, <1>15, RowCheckIs DEF Listing
<1>16. CASE Listed(p)
  BY <1>6, <1>16, ListedIs DEF Listing
<1>17. CASE ValueStep(p)
  BY <1>6, <1>17, ValueStepIs DEF Rewrites
<1>18. CASE Exported(p)
  BY <1>6, <1>18, ExportedIs
<1>19. CASE Score(p)
  BY <1>6, <1>19, ScoreIs
<1>20. QED
  BY <1>1, <1>2, <1>3, <1>4, <1>5, <1>7, <1>8, <1>9, <1>10, <1>11, <1>12, <1>13, <1>14, <1>15,
     <1>16, <1>17, <1>18, <1>19 DEF Steps

-----------------------------------------------------------------------------
(* A command begins; a process is killed. *)
LEMMA Idles ==
  Idle \in Local /\ Idle.do = "none" /\ ~ Idle.got /\ Idle.x = 0 /\ Idle.names = << >> /\ Idle.rows = << >>
  /\ Idle.pc = "idle" /\ Idle.name = "none"
<1>1. /\ Nothing \in Version /\ << >> \in Seq(1 .. Slots) /\ << >> \in Seq(SlotType) /\ 0 \in 0 .. Slots
      /\ "idle" \in PCs /\ Free \in SlotType
  BY Plain, CommandsAssumption DEF PCs
<1>2. QED
  BY <1>1 DEF Idle, Local

Begins(p) ==
  /\ todo[p] # << >> /\ m[p].pc = "idle" /\ Head(todo[p]) \in Command /\ Current(p)' = Head(todo[p])
  /\ m' = [m EXCEPT ![p] = m'[p]] /\ m'[p] \in Local
  /\ m'[p].pc = Entry[m'[p].do] /\ m'[p].i = First(Head(todo[p])) /\ m'[p].x = 0 /\ ~ m'[p].got
  /\ m'[p].pc \in {"set", "unset", "collect", "look"}
  /\ m'[p].names = << >> /\ m'[p].rows = << >>
  /\ todo' = [todo EXCEPT ![p] = Tail(todo[p])]
  /\ stood' = [stood EXCEPT ![p] = IF m'[p].do \in Listing THEN Standing(tab) ELSE {}]
  /\ swept' = swept \ {p}
  /\ UNCHANGED << tab, others >>

LEMMA StartIs ==
  ASSUME Typed, NEW p \in Procs, Start(p)
  PROVE  Begins(p) /\ PlacedAt(p)'
<1> DEFINE c == Head(todo[p])
           w == m[p].raw \/ c.do = "watch"
           f == First(c)
           l == Entry[c.do]
           r == [Idle EXCEPT !.do = c.do, !.name = c.name, !.n = c.n, !.gen = c.gen, !.flag = c.flag,
                             !.pc = l, !.i = f, !.raw = w]
<1>1. todo[p] \in Seq(Command) /\ todo[p] # << >> /\ m \in [Procs -> Local] /\ m[p] \in Local
  BY DEF Start, Typed
<1>2. c \in Command
  BY <1>1, SeqIs
<1>3. m' = [m EXCEPT ![p] = r]
  BY DEF Start
<1> HIDE DEF c
<1>4. /\ c \in [do : DOMAIN Entry, name : Names, n : Nat, gen : Nat, flag : BOOLEAN]
      /\ c.do \notin Listing => \A i \in Orders(c) : << c.name, i >> \in Keys
  BY <1>2 DEF Command
<1>5. /\ Entry[c.do] \in PCs /\ Entry[c.do] \in Places[c.do] /\ First(c) \in Nat
      /\ Entry[c.do] # "bump" /\ c.do # "none"
  BY <1>4 DEF Entry, PCs, Places, First, Setting, Seek, Scan
<1>6. First(c) \in Orders(c)
  BY <1>4 DEF First, Orders, Entry
<1>7. /\ m[p].raw \in BOOLEAN /\ Nothing \in Version /\ << >> \in Seq(1 .. Slots) /\ << >> \in Seq(SlotType)
      /\ 0 \in 0 .. Slots
  BY <1>1, Plain, CommandsAssumption DEF Local
<1>8. /\ r \in Local /\ r.do = c.do /\ r.name = c.name /\ r.n = c.n /\ r.gen = c.gen
      /\ r.flag = c.flag /\ r.pc = Entry[c.do] /\ r.i = First(c) /\ r.x = 0 /\ ~ r.got
      /\ r.names = << >> /\ r.rows = << >>
  <2>1. w \in BOOLEAN
    BY <1>7
  <2> HIDE DEF w, f, l
  <2>2. f \in Nat /\ l \in PCs
    BY <1>5 DEF f, l
  <2>3. /\ r \in Local /\ r.do = c.do /\ r.name = c.name /\ r.n = c.n /\ r.gen = c.gen
        /\ r.flag = c.flag /\ r.pc = l /\ r.i = f /\ r.x = Idle.x /\ r.got = Idle.got
        /\ r.names = Idle.names /\ r.rows = Idle.rows
    BY <1>4, <2>1, <2>2, Idles DEF Local
  <2>4. QED
    BY <2>3, Idles DEF f, l
<1> HIDE DEF r
<1>9. m'[p] = r
  BY <1>1, <1>3
<1>10. Current(p)' = c
  BY <1>4, <1>8, <1>9 DEF Current
<1>11. Begins(p)
  <2>1. m'[p].pc \in {"set", "unset", "collect", "look"}
    BY <1>4, <1>8, <1>9 DEF Entry
  <2>2. m'[p].do = c.do
    BY <1>8, <1>9
  <2>3. QED
    BY <1>1, <1>2, <1>3, <1>8, <1>9, <1>10, <2>1, <2>2 DEF Start, Begins, c
<1>12. PlacedAt(p)'
  <2>1. c.do \notin Listing => << c.name, First(c) >> \in Keys
    BY <1>4, <1>6
  <2>2. c.do \notin {"ingest", "orders", "disorder", "unset"} => First(c) = 0
    BY DEF First
  <2>3. 0 < Slots
    BY CommandsAssumption
  <2>4. QED
    BY <1>2, <1>5, <1>6, <1>8, <1>9, <1>10, <1>11, <2>1, <2>2, <2>3 DEF PlacedAt, K, Begins
<1>13. QED
  BY <1>11, <1>12

Stops(p) ==
  /\ m' = [m EXCEPT ![p] = m'[p]] /\ m'[p] \in Local /\ m'[p].do = "none" /\ m'[p].pc = "dead" /\ ~ m'[p].got
  /\ m'[p].name = m[p].name /\ m'[p].i = m[p].i /\ m'[p].s = m[p].s
  /\ UNCHANGED << tab, todo, d, held, holds, embeds, stood, swept >>

LEMMA KillIs ==
  ASSUME Typed, NEW p \in Procs, Kill(p)
  PROVE  Stops(p) /\ PlacedAt(p)' /\ m[p].pc # "idle"
<1> DEFINE r == [Idle EXCEPT !.pc = "dead", !.name = m[p].name, !.i = m[p].i, !.s = m[p].s]
<1>1. /\ m' = [m EXCEPT ![p] = r] /\ UNCHANGED << tab, todo, d, held, holds, embeds, stood, swept >>
      /\ m \in [Procs -> Local] /\ m[p] \in Local /\ m[p].pc # "idle"
  BY DEF Kill, Typed
<1>2. "dead" \in PCs
  BY DEF PCs
<1>3. /\ r \in Local /\ r.do = "none" /\ r.pc = "dead" /\ ~ r.got
      /\ r.name = m[p].name /\ r.i = m[p].i /\ r.s = m[p].s
  <2>1. /\ r \in Local /\ r.do = Idle.do /\ r.pc = "dead" /\ r.got = Idle.got
        /\ r.name = m[p].name /\ r.i = m[p].i /\ r.s = m[p].s
    BY <1>1, <1>2, Idles DEF Local
  <2>2. QED
    BY <2>1, Idles
<1> HIDE DEF r
<1>4. QED
  BY <1>1, <1>3 DEF Stops, PlacedAt

-----------------------------------------------------------------------------
(* Types and places last. *)
Moves(p)  == Goes(p) /\ PlacedAt(p)' /\ Tables(p) /\ UNCHANGED rest

(* What others do to the slots, but for the daemon's set of a diagnostic. *)
Touches   ==
  /\ UNCHANGED << m, todo >>
  /\ \A s \in 1 .. Slots : tab'[s].key = tab[s].key /\ tab'[s].val = tab[s].val /\ tab'[s].hid = tab[s].hid
  /\ \A q \in Procs : stood'[q] \subseteq stood[q]
  /\ UNCHANGED stood \/ Stood

Others(s) == Hold(s) \/ Release(s) \/ EmbedRead \/ EmbedOpen \/ EmbedClose \/ StampBump

LEMMA MovesAre ==
  ASSUME Typed, NEW p \in Procs, PlacedAt(p), Steps(p) \/ Leave(p)
  PROVE  Moves(p)
<1>1. CASE Steps(p)
  BY <1>1, StepIs DEF Moves
<1>2. CASE Leave(p)
  BY <1>2, WatchIs DEF Moves, Reads, Tables, Still
<1>3. QED
  BY <1>1, <1>2

LEMMA Elsewhere ==
  ASSUME Typed, Placed, NEW p \in Procs, m' = [m EXCEPT ![p] = m'[p]], PlacedAt(p)'
  PROVE  Placed' /\ \A q \in Procs \ {p} : m'[q] = m[q]
<1>1. \A q \in Procs \ {p} : m'[q] = m[q]
  BY DEF Typed
<1>2. ASSUME NEW q \in Procs \ {p}
      PROVE  PlacedAt(q)'
  BY <1>1 DEF Placed, PlacedAt, Current, K
<1>3. QED
  BY <1>1, <1>2 DEF Placed

LEMMA MovesTyped ==
  ASSUME Typed, Placed, NEW p \in Procs, Moves(p)
  PROVE  Typed' /\ Placed'
<1>1. Placed'
  BY Elsewhere DEF Moves, Goes
<1>2. tab' \in [1 .. Slots -> SlotType]
  BY DEF Moves, Tables, Typed
<1>3. m' \in [Procs -> Local]
  <2> DEFINE r == m'[p]
  <2>1. m' = [m EXCEPT ![p] = r] /\ r \in Local
    BY DEF Moves, Goes
  <2> HIDE DEF r
  <2>2. QED
    BY <2>1 DEF Typed
<1>4. stood' \in [Procs -> SUBSET Keys]
  BY DEF Moves, Tables, Stood, Typed
<1>5. UNCHANGED << todo, d, held >>
  BY DEF Moves, rest, others
<1>6. QED
  BY <1>1, <1>2, <1>3, <1>4, <1>5 DEF Typed

LEMMA BeginsTyped ==
  ASSUME Typed, Placed, NEW p \in Procs, Begins(p), PlacedAt(p)'
  PROVE  Typed' /\ Placed'
<1>1. Placed'
  BY Elsewhere DEF Begins
<1>2. m' \in [Procs -> Local]
  <2> DEFINE r == m'[p]
  <2>1. m' = [m EXCEPT ![p] = r] /\ r \in Local
    BY DEF Begins
  <2> HIDE DEF r
  <2>2. QED
    BY <2>1 DEF Typed
<1>3. stood' \in [Procs -> SUBSET Keys]
  <2>1. Standing(tab) \subseteq Keys
    BY DEF Standing, Typed, SlotType
  <2>2. QED
    BY <2>1 DEF Begins, Typed
<1>4. todo' \in [Procs -> Seq(Command)]
  <2>1. todo[p] \in Seq(Command) /\ todo[p] # << >>
    BY DEF Begins, Typed
  <2>2. Tail(todo[p]) \in Seq(Command)
    BY <2>1, SeqIs
  <2>3. QED
    BY <2>2 DEF Begins, Typed
<1>5. UNCHANGED << tab, d, held >>
  BY DEF Begins, others
<1>6. QED
  BY <1>1, <1>2, <1>3, <1>4, <1>5 DEF Typed

LEMMA StopsTyped ==
  ASSUME Typed, Placed, NEW p \in Procs, Stops(p), PlacedAt(p)'
  PROVE  Typed' /\ Placed'
<1>1. Placed'
  BY Elsewhere DEF Stops
<1>2. m' \in [Procs -> Local]
  <2> DEFINE r == m'[p]
  <2>1. m' = [m EXCEPT ![p] = r] /\ r \in Local
    BY DEF Stops
  <2> HIDE DEF r
  <2>2. QED
    BY <2>1 DEF Typed
<1>3. UNCHANGED << tab, d, todo, stood, held >>
  BY DEF Stops
<1>4. QED
  BY <1>1, <1>2, <1>3 DEF Typed

LEMMA SamePlaced ==
  ASSUME Placed, UNCHANGED m
  PROVE  Placed'
BY DEF Placed, PlacedAt, Current, K

(* A slot whose epoch and vector alone change. *)
LEMMA RetouchIs ==
  ASSUME Typed, NEW s \in 1 .. Slots, NEW v \in Version,
         tab' = [tab EXCEPT ![s] = [tab[s] EXCEPT !.epoch = tab[s].epoch + 1, !.vec = v]]
  PROVE  /\ tab' \in [1 .. Slots -> SlotType] /\ Only(s)
         /\ tab'[s].key = tab[s].key /\ tab'[s].val = tab[s].val /\ tab'[s].hid = tab[s].hid
         /\ tab'[s].vec = v /\ tab'[s].epoch = tab[s].epoch + 1
<1> DEFINE r == [tab[s] EXCEPT !.epoch = tab[s].epoch + 1, !.vec = v]
<1>1. tab[s] \in SlotType /\ tab[s].epoch + 1 \in Nat
  BY SlotIs
<1>2. /\ r \in SlotType /\ r.key = tab[s].key /\ r.val = tab[s].val /\ r.hid = tab[s].hid
      /\ r.vec = v /\ r.epoch = tab[s].epoch + 1
  BY <1>1 DEF SlotType
<1>3. tab' = [tab EXCEPT ![s] = r]
  OBVIOUS
<1> HIDE DEF r
<1>4. QED
  BY <1>2, <1>3, PutIs DEF Only

(* Another client comes to a slot, or leaves it. *)
Handles(s) ==
  /\ Touches /\ UNCHANGED << d, stood, kills, embeds >> /\ Only(s)
  /\ tab'[s].vec = tab[s].vec /\ tab'[s].epoch = tab[s].epoch + 1

LEMMA HoldIs ==
  ASSUME Typed, Placed, NEW s \in 1 .. Slots, Hold(s)
  PROVE  /\ Typed' /\ Placed' /\ Handles(s) /\ ~ Odd(tab[s].epoch) /\ held' = held \cup {s}
         /\ holds > 0 /\ holds' = holds - 1
         /\ swept' = swept \cup {p \in Procs : m[p].pc = "wait" /\ m[p].s = s}
<1> DEFINE v == tab[s].vec
<1>1. /\ UNCHANGED << m, todo, d, stood, kills, embeds >> /\ ~ Odd(tab[s].epoch) /\ held' = held \cup {s}
      /\ holds > 0 /\ holds' = holds - 1
      /\ swept' = swept \cup {p \in Procs : m[p].pc = "wait" /\ m[p].s = s}
  BY DEF Hold
<1>2. v \in Version /\ tab \in [1 .. Slots -> SlotType] /\ tab[s] \in SlotType
  BY SlotIs
<1>3. tab' = [tab EXCEPT ![s] = [tab[s] EXCEPT !.epoch = tab[s].epoch + 1, !.vec = v]]
  BY <1>2 DEF Hold, SlotType
<1>4. /\ tab' \in [1 .. Slots -> SlotType] /\ Only(s)
      /\ tab'[s].key = tab[s].key /\ tab'[s].val = tab[s].val /\ tab'[s].hid = tab[s].hid
      /\ tab'[s].vec = tab[s].vec /\ tab'[s].epoch = tab[s].epoch + 1
  BY <1>2, <1>3, RetouchIs
<1>5. Typed'
  BY <1>1, <1>4 DEF Typed
<1>6. Handles(s)
  BY <1>1, <1>4 DEF Handles, Touches, Only
<1>7. QED
  BY <1>1, <1>5, <1>6, SamePlaced

LEMMA ReleaseIs ==
  ASSUME Typed, Placed, NEW s \in 1 .. Slots, Release(s)
  PROVE  Typed' /\ Placed' /\ Handles(s) /\ s \in held /\ held' = held \ {s} /\ UNCHANGED << holds, swept >>
<1> DEFINE v == tab[s].vec
<1>1. /\ UNCHANGED << m, todo, d, stood, kills, embeds, holds, swept >> /\ s \in held /\ held' = held \ {s}
  BY DEF Release
<1>2. v \in Version /\ tab \in [1 .. Slots -> SlotType] /\ tab[s] \in SlotType
  BY SlotIs
<1>3. tab' = [tab EXCEPT ![s] = [tab[s] EXCEPT !.epoch = tab[s].epoch + 1, !.vec = v]]
  BY <1>2 DEF Release, SlotType
<1>4. /\ tab' \in [1 .. Slots -> SlotType] /\ Only(s)
      /\ tab'[s].key = tab[s].key /\ tab'[s].val = tab[s].val /\ tab'[s].hid = tab[s].hid
      /\ tab'[s].vec = tab[s].vec /\ tab'[s].epoch = tab[s].epoch + 1
  BY <1>2, <1>3, RetouchIs
<1>5. Typed'
  BY <1>1, <1>4 DEF Typed
<1>6. Handles(s)
  BY <1>1, <1>4 DEF Handles, Touches, Only
<1>7. QED
  BY <1>1, <1>5, <1>6, SamePlaced

LEMMA AwayIs == Away.at = "idle" /\ Away.key = NoKey /\ Away.text = Nothing /\ Away \in DaemonType
BY Plain, CommandsAssumption DEF Away, DaemonType

LEMMA EmbedReadIs ==
  ASSUME Typed, Placed, EmbedRead
  PROVE  /\ Typed' /\ Placed' /\ Touches /\ UNCHANGED << tab, held, holds, stood, swept >>
         /\ d.at = "idle" /\ d'.at = "decode" /\ embeds > 0 /\ d'.key \in Keys
         /\ \E s \in 1 .. Slots : d'.key = tab[s].key /\ d'.text = tab[s].val /\ ~ Odd(tab[s].epoch)
<1>1. PICK k \in Keys : Even(k) /\ d' = [d EXCEPT !.at = "decode", !.key = k, !.text = tab[At(k)].val]
  BY DEF EmbedRead
<1> DEFINE s == At(k)
<1>2. s \in 1 .. Slots /\ tab[s].key = k /\ ~ Odd(tab[s].epoch)
  BY <1>1, FoundIs DEF Even
<1>3. /\ UNCHANGED << m, tab, todo, held, holds, stood, swept >> /\ d.at = "idle" /\ embeds > 0
      /\ d \in DaemonType
  BY DEF EmbedRead, Typed
<1>4. tab[s].val \in Version
  BY <1>2, SlotIs
<1>5. d' = [d EXCEPT !.at = "decode", !.key = k, !.text = tab[s].val]
  BY <1>1
<1> HIDE DEF s
<1>6. d' \in DaemonType /\ d'.at = "decode" /\ d'.key = k /\ d'.text = tab[s].val
  BY <1>3, <1>4, <1>5 DEF DaemonType
<1>7. Typed'
  BY <1>3, <1>6 DEF Typed
<1>8. QED
  BY <1>2, <1>3, <1>6, <1>7, SamePlaced DEF Touches

LEMMA EmbedOpenIs ==
  ASSUME Typed, Placed, EmbedOpen
  PROVE  /\ Typed' /\ Placed' /\ Touches /\ d.at = "decode" /\ d.key \in Keys /\ UNCHANGED << unembedded, stood >>
         /\ \/ d' = Away /\ UNCHANGED tab
            \/ \E s \in 1 .. Slots :
                 /\ tab[s].key = d.key /\ ~ tab[s].hid /\ ~ Odd(tab[s].epoch) /\ Only(s)
                 /\ d'.at = "commit" /\ d'.s = s /\ d'.key = d.key /\ d'.text = d.text
                 /\ tab'[s].vec = tab[s].vec /\ tab'[s].epoch = tab[s].epoch + 1
<1>1. d.at = "decode" /\ d.key \in Keys /\ UNCHANGED << unembedded, stood >> /\ d \in DaemonType
  BY DEF EmbedOpen, Typed
<1>2. CASE ~ Even(d.key)
  <2>1. d' = Away /\ UNCHANGED tab
    BY <1>2 DEF EmbedOpen
  <2>2. Typed'
    BY <1>1, <2>1, AwayIs DEF Typed, unembedded
  <2>3. QED
    BY <1>1, <2>1, <2>2, SamePlaced DEF Touches, unembedded
<1>3. CASE Even(d.key)
  <2> DEFINE s == At(d.key)
             v == tab[s].vec
  <2>1. s \in 1 .. Slots /\ tab[s].key = d.key /\ ~ tab[s].hid /\ ~ Odd(tab[s].epoch)
    BY <1>1, <1>3, FoundIs DEF Even
  <2>2. tab \in [1 .. Slots -> SlotType] /\ s \in 0 .. Slots /\ s # 0 /\ v \in Version /\ tab[s] \in SlotType
    BY <2>1, CommandsAssumption, SlotIs
  <2>3. /\ tab' = [tab EXCEPT ![s] = [tab[s] EXCEPT !.epoch = tab[s].epoch + 1, !.vec = v]]
        /\ d' = [d EXCEPT !.at = "commit", !.s = s]
    BY <1>3, <2>2 DEF EmbedOpen, SlotType
  <2> HIDE DEF s, v
  <2>4. /\ tab' \in [1 .. Slots -> SlotType] /\ Only(s)
        /\ tab'[s].key = tab[s].key /\ tab'[s].val = tab[s].val /\ tab'[s].hid = tab[s].hid
        /\ tab'[s].vec = tab[s].vec /\ tab'[s].epoch = tab[s].epoch + 1
    BY <2>1, <2>2, <2>3, RetouchIs DEF v
  <2>5. d' \in DaemonType /\ d'.at = "commit" /\ d'.s = s /\ d'.key = d.key /\ d'.text = d.text
    BY <1>1, <2>2, <2>3 DEF DaemonType
  <2>6. Typed'
    BY <1>1, <2>2, <2>4, <2>5 DEF Typed, unembedded
  <2>7. Touches
    BY <1>1, <2>4 DEF Touches, Only, unembedded
  <2>8. QED
    BY <1>1, <2>1, <2>4, <2>5, <2>6, <2>7, SamePlaced DEF unembedded
<1>4. QED
  BY <1>2, <1>3

LEMMA EmbedCloseIs ==
  ASSUME Typed, Placed, EmbedClose
  PROVE  /\ Typed' /\ Placed' /\ Touches /\ d.at = "commit" /\ d.key \in Keys /\ UNCHANGED << unembedded, stood >>
         /\ d.s \in 1 .. Slots /\ Only(d.s)
         /\ tab'[d.s].vec = (IF TooLong THEN Nothing ELSE d.text) /\ tab'[d.s].epoch = tab[d.s].epoch + 1
         /\ IF TooLong THEN d'.at = "stamp" /\ d'.key = d.key /\ d'.text = d.text ELSE d' = Away
<1> DEFINE s == d.s
           v == IF TooLong THEN Nothing ELSE d.text
<1>1. d.at = "commit" /\ UNCHANGED << unembedded, stood >> /\ d \in DaemonType /\ d.key \in Keys
  BY DEF EmbedClose, Typed
<1>2. tab \in [1 .. Slots -> SlotType] /\ s \in 1 .. Slots /\ v \in Version /\ 0 \in 0 .. Slots
  <2>1. s \in 0 .. Slots /\ s # 0 /\ d.text \in Version
    BY <1>1 DEF Typed, DaemonType
  <2>2. QED
    BY <2>1, Plain, CommandsAssumption DEF Typed
<1>3. tab' = [tab EXCEPT ![s] = [tab[s] EXCEPT !.epoch = tab[s].epoch + 1, !.vec = v]]
  <2>1. tab' = [tab EXCEPT ![d.s].epoch = @ + 1, ![d.s].vec = v]
    BY DEF EmbedClose
  <2> HIDE DEF v
  <2>2. tab[s] \in SlotType
    BY <1>2
  <2>3. QED
    BY <1>2, <2>1, <2>2 DEF SlotType
<1>4. d' \in DaemonType /\ IF TooLong THEN d'.at = "stamp" /\ d'.key = d.key /\ d'.text = d.text ELSE d' = Away
  <2>1. CASE TooLong
    <3>1. d' = [d EXCEPT !.at = "stamp", !.s = 0]
      BY <2>1 DEF EmbedClose
    <3>2. QED
      BY <1>1, <1>2, <2>1, <3>1 DEF DaemonType
  <2>2. CASE ~ TooLong
    BY <2>2, AwayIs DEF EmbedClose
  <2>3. QED
    BY <2>1, <2>2
<1>5. TooLong => d.text.of \in Long
  BY DEF TooLong
<1> HIDE DEF v
<1>6. /\ tab' \in [1 .. Slots -> SlotType] /\ Only(s)
      /\ tab'[s].key = tab[s].key /\ tab'[s].val = tab[s].val /\ tab'[s].hid = tab[s].hid
      /\ tab'[s].vec = v /\ tab'[s].epoch = tab[s].epoch + 1
  BY <1>2, <1>3, RetouchIs
<1>7. Typed'
  <2>1. /\ d'.at # "idle" => d'.key \in Keys
        /\ d'.at \notin {"commit", "link"}
        /\ d'.at \in {"stamp", "link", "bump"} => d'.text.of \in Long
    BY <1>1, <1>4, <1>5, AwayIs
  <2>2. QED
    BY <1>1, <1>4, <1>6, <2>1 DEF Typed, unembedded
<1>8. Touches
  BY <1>1, <1>6 DEF Touches, Only, unembedded
<1>9. QED
  BY <1>1, <1>2, <1>4, <1>6, <1>7, <1>8, SamePlaced DEF v, unembedded

(* The daemon's set of its diagnostic. *)
StampOpens(s) ==
  /\ tab[s].key \in {NoKey, d.key} /\ ~ Odd(tab[s].epoch)
  /\ tab'[s].key = tab[s].key /\ tab'[s].hid = (tab[s].key # NoKey) /\ tab'[s].val = Excuse
  /\ tab'[s].vec = (IF tab[s].key = NoKey THEN Nothing ELSE tab[s].vec)
  /\ tab'[s].epoch = tab[s].epoch + 1
  /\ d'.at = "link" /\ d'.s = s /\ d'.key = d.key /\ d'.text = d.text /\ s = RoomAt(d.key)

LEMMA StampOpenIs ==
  ASSUME Typed, Placed, StampOpen
  PROVE  /\ Typed' /\ Placed' /\ d.at = "stamp" /\ d.key \in Keys /\ UNCHANGED unembedded
         /\ \/ d' = Away /\ Still
            \/ Stood /\ \E s \in 1 .. Slots : StampOpens(s) /\ Only(s)
<1>1. d.at = "stamp" /\ d.key \in Keys /\ UNCHANGED unembedded /\ d \in DaemonType /\ d.text.of \in Long
  BY DEF StampOpen, Typed
<1>2. CASE ~ Takes(d.key)
  <2>1. d' = Away /\ Still
    BY <1>2 DEF StampOpen
  <2>2. Typed'
    BY <1>1, <2>1, AwayIs DEF Typed, unembedded, Still
  <2>3. QED
    BY <1>1, <2>1, <2>2, SamePlaced DEF unembedded
<1>3. CASE Takes(d.key)
  <2> DEFINE s == RoomAt(d.key)
  <2>1. s \in 1 .. Slots /\ tab[s].key \in {NoKey, d.key} /\ ~ Odd(tab[s].epoch) /\ s \in 0 .. Slots /\ s # 0
    BY <1>1, <1>3, RoomIs, CommandsAssumption
  <2>2. Put(Wiped(s, Excuse)) /\ d' = [d EXCEPT !.at = "link", !.s = s]
    BY <1>3 DEF StampOpen
  <2> HIDE DEF s
  <2>3. /\ Only(s) /\ tab' \in [1 .. Slots -> SlotType] /\ Stood
        /\ tab'[s].key = tab[s].key /\ tab'[s].hid = (tab[s].key # NoKey) /\ tab'[s].val = Excuse
        /\ tab'[s].vec = (IF tab[s].key = NoKey THEN Nothing ELSE tab[s].vec)
        /\ tab'[s].epoch = tab[s].epoch + 1
    BY <2>1, <2>2, WipedIs, Plain
  <2>4. d' \in DaemonType /\ d'.at = "link" /\ d'.s = s /\ d'.key = d.key /\ d'.text = d.text
    BY <1>1, <2>1, <2>2 DEF DaemonType
  <2>5. Typed'
    BY <1>1, <2>1, <2>3, <2>4 DEF Typed, unembedded, Stood
  <2>6. StampOpens(s)
    BY <2>1, <2>3, <2>4 DEF StampOpens, s
  <2>7. QED
    BY <1>1, <2>1, <2>3, <2>5, <2>6, SamePlaced DEF unembedded
<1>4. QED
  BY <1>2, <1>3

StampLinks(s) ==
  /\ tab'[s].key = d.key /\ tab'[s].hid = FALSE /\ tab'[s].val = tab[s].val /\ tab'[s].vec = tab[s].vec
  /\ tab'[s].epoch = tab[s].epoch + 1
  /\ d'.at = "bump" /\ d'.key = d.key /\ d'.text = d.text

LEMMA StampLinkIs ==
  ASSUME Typed, Placed, StampLink
  PROVE  /\ Typed' /\ Placed' /\ d.at = "link" /\ d.key \in Keys /\ d.s \in 1 .. Slots /\ UNCHANGED unembedded
         /\ Stood /\ StampLinks(d.s) /\ Only(d.s)
<1>1. d.at = "link" /\ d.key \in Keys /\ UNCHANGED unembedded /\ d \in DaemonType /\ d.text.of \in Long
  BY DEF StampLink, Typed
<1>2. d.s \in 1 .. Slots /\ 0 \in 0 .. Slots
  <2>1. d.s \in 0 .. Slots /\ d.s # 0
    BY <1>1 DEF Typed, DaemonType
  <2>2. QED
    BY <2>1, CommandsAssumption
<1>3. Put(Linked(d.s, d.key)) /\ d' = [d EXCEPT !.at = "bump", !.s = 0]
  BY DEF StampLink
<1>4. /\ Only(d.s) /\ tab' \in [1 .. Slots -> SlotType] /\ Stood
      /\ tab'[d.s].key = d.key /\ tab'[d.s].hid = FALSE /\ tab'[d.s].val = tab[d.s].val
      /\ tab'[d.s].vec = tab[d.s].vec /\ tab'[d.s].epoch = tab[d.s].epoch + 1
  BY <1>1, <1>2, <1>3, LinkedIs
<1>5. d' \in DaemonType /\ d'.at = "bump" /\ d'.key = d.key /\ d'.text = d.text
  BY <1>1, <1>2, <1>3 DEF DaemonType
<1>6. Typed'
  BY <1>1, <1>4, <1>5 DEF Typed, unembedded, Stood
<1>7. QED
  BY <1>1, <1>2, <1>4, <1>5, <1>6, SamePlaced DEF StampLinks, unembedded

LEMMA StampBumpIs ==
  ASSUME Typed, Placed, StampBump
  PROVE  /\ Typed' /\ Placed' /\ Touches /\ d.at = "bump" /\ d' = Away /\ UNCHANGED unembedded
         /\ d.key \in Keys /\ d.text.of \in Long
         /\ \/ UNCHANGED << tab, stood >>
            \/ \E s \in 1 .. Slots : /\ Only(s) /\ ~ Odd(tab[s].epoch) /\ tab'[s].epoch = tab[s].epoch + 2
                                     /\ tab'[s].vec = tab[s].vec /\ tab[s].key = d.key
<1>1. d.at = "bump" /\ d' = Away /\ UNCHANGED unembedded /\ d.key \in Keys /\ d.text.of \in Long
  BY DEF StampBump, Typed
<1>2. CASE ~ Even(d.key)
  <2>1. UNCHANGED << tab, stood >>
    BY <1>2 DEF StampBump, Still
  <2>2. Typed'
    BY <1>1, <2>1, AwayIs DEF Typed, unembedded
  <2>3. QED
    BY <1>1, <2>1, <2>2, SamePlaced DEF Touches, unembedded
<1>3. CASE Even(d.key)
  <2> DEFINE s == At(d.key)
  <2>1. s \in 1 .. Slots /\ tab[s].key = d.key /\ Marked(s) /\ tab'[s].epoch = tab[s].epoch + 2 /\ ~ Odd(tab[s].epoch)
    BY <1>1, <1>3, BumpIs DEF StampBump
  <2> HIDE DEF s
  <2>2. Typed'
    BY <1>1, <2>1, AwayIs DEF Typed, Marked, Stood, unembedded
  <2>3. Touches
    BY <1>1, <2>1 DEF Touches, Marked, Only, Stood, unembedded, Typed
  <2>4. QED
    BY <1>1, <2>1, <2>2, <2>3, SamePlaced DEF Marked, unembedded
<1>4. QED
  BY <1>2, <1>3

-----------------------------------------------------------------------------
LEMMA EpochIs ==
  ASSUME Typed, NEW s \in 1 .. Slots
  PROVE  /\ tab'[s].epoch = tab[s].epoch + 1 => (Odd(tab'[s].epoch) <=> ~ Odd(tab[s].epoch))
         /\ tab'[s].epoch \in {tab[s].epoch, tab[s].epoch + 2} => (Odd(tab'[s].epoch) <=> Odd(tab[s].epoch))
<1>1. tab[s].epoch \in Nat
  BY SlotIs
<1>2. QED
  BY <1>1 DEF Odd

-----------------------------------------------------------------------------
(* Who is in a slot. *)

(* A slot that is as its setter left it. *)
Steady(s) ==
  /\ tab'[s].key = tab[s].key /\ tab'[s].val = tab[s].val /\ tab'[s].vec = tab[s].vec /\ tab'[s].hid = tab[s].hid
  /\ Odd(tab[s].epoch) => Odd(tab'[s].epoch)

LEMMA StillLocked ==
  ASSUME NEW q \in Procs, LockedAt(q), m'[q] = m[q],
         m[q].pc = "link" =>
           /\ Steady(m[q].s) /\ m[q].s \notin held'
           /\ d'.at \in {"commit", "link"} => d'.s # m[q].s
           /\ \A o \in Procs \ {q} : m'[o].pc = "link" => m'[o].s # m[q].s
  PROVE  LockedAt(q)'
<1>1. K(q)' = K(q) /\ Written(m[q])' = Written(m[q])
  BY DEF K
<1>2. CASE m[q].pc = "link"
  <2>1. Taken(m[q].s, K(q), Written(m[q])) /\ Steady(m[q].s)
    BY <1>2 DEF LockedAt
  <2>2. Taken(m[q].s, K(q), Written(m[q]))'
    BY <1>1, <1>2, <2>1 DEF Taken, Steady
  <2>3. QED
    BY <1>2, <2>2 DEF LockedAt
<1>3. CASE m[q].pc # "link"
  BY <1>3 DEF LockedAt
<1>4. QED
  BY <1>2, <1>3

LEMMA StillBusied ==
  ASSUME Typed, Busied, UNCHANGED << d, held >>,
         \A s \in held : Steady(s),
         d.at \in {"commit", "link"} => Steady(d.s),
         \A s \in 1 .. Slots : tab'[s].hid => Odd(tab'[s].epoch)
  PROVE  Busied'
<1>1. d.at = "link" => Taken(d.s, d.key, Excuse)'
  BY DEF Busied, Taken, Steady
<1>2. d.at = "commit" => (Odd(tab[d.s].epoch) /\ d.s \notin held /\ tab[d.s].key = d.key /\ ~ tab[d.s].hid)'
  BY DEF Busied, Steady
<1>3. \A s \in held : Odd(tab'[s].epoch) /\ ~ tab'[s].hid
  BY DEF Busied, Steady
<1>4. QED
  BY <1>1, <1>2, <1>3 DEF Busied

LEMMA SameSteady ==
  ASSUME NEW s \in 1 .. Slots, Only(s)
  PROVE  \A r \in (1 .. Slots) \ {s} : Steady(r)
BY DEF Only, Steady

(* Nobody is in a slot whose epoch is even. *)
LEMMA Nobody ==
  ASSUME Typed, Placed, Locked, NEW s \in 1 .. Slots, ~ Odd(tab[s].epoch)
  PROVE  /\ s \notin held /\ ~ tab[s].hid
         /\ d.at \in {"commit", "link"} => d.s # s
         /\ \A q \in Procs : m[q].pc = "link" => m[q].s # s
BY DEF Locked, Busied, LockedAt, Taken

LEMMA LinkerIs ==
  ASSUME Typed, Placed, Locked
  PROVE  /\ \A q \in Procs : m[q].pc = "link" => m[q].s \in 1 .. Slots /\ LockedAt(q) /\ m[q].s \notin held
         /\ d.at \in {"commit", "link"} => d.s \in 1 .. Slots
         /\ \A s \in held : s \in 1 .. Slots
<1>1. \A q \in Procs : m[q].pc = "link" => m[q].s \in 1 .. Slots
  BY SetPlaces DEF Placed
<1>2. d.at \in {"commit", "link"} => d.s \in 1 .. Slots
  <2>1. d.s \in 0 .. Slots /\ (d.at \in {"commit", "link"} => d.s # 0)
    BY DEF Typed, DaemonType
  <2>2. QED
    BY <2>1, CommandsAssumption
<1>3. QED
  BY <1>1, <1>2 DEF Typed, Locked, LockedAt, Taken

LEMMA MovesLocked ==
  ASSUME Typed, Placed, Locked, NEW p \in Procs, Moves(p)
  PROVE  Locked'
<1>1. /\ UNCHANGED << d, held >> /\ (\A q \in Procs \ {p} : m'[q] = m[q])
      /\ \A q \in Procs : m[q].pc = "link" => m[q].s \in 1 .. Slots /\ LockedAt(q) /\ m[q].s \notin held
  BY LinkerIs DEF Moves, Goes, rest, others, Typed
<1>2. \A q \in Procs : LockedAt(q)
  BY DEF Locked
<1>3. d.at \in {"commit", "link"} => d.s \in 1 .. Slots
  BY LinkerIs
<1>4. CASE m'[p].pc # "link" /\ \A s \in 1 .. Slots : Steady(s)
  <2>1. ASSUME NEW q \in Procs \ {p}
        PROVE  LockedAt(q)'
    <3>1. m[q].pc = "link" =>
           /\ Steady(m[q].s) /\ m[q].s \notin held'
           /\ d'.at \in {"commit", "link"} => d'.s # m[q].s
           /\ \A o \in Procs \ {q} : m'[o].pc = "link" => m'[o].s # m[q].s
      BY <1>1, <1>2, <1>4 DEF LockedAt
    <3>2. QED
      BY <1>1, <1>2, <3>1, StillLocked
  <2>2. LockedAt(p)'
    BY <1>4 DEF LockedAt
  <2>3. \A s \in 1 .. Slots : tab'[s].hid => Odd(tab'[s].epoch)
    BY <1>4 DEF Steady, Locked, Busied
  <2>4. Busied'
    BY <1>1, <1>3, <1>4, <2>3, LinkerIs, StillBusied DEF Locked
  <2>5. QED
    BY <2>1, <2>2, <2>4 DEF Locked
<1>5. CASE UNCHANGED tab /\ m'[p].pc # "link"
  BY <1>4, <1>5 DEF Steady
<1>6. ASSUME NEW s \in 1 .. Slots, Only(s), Marks(p, s)
      PROVE  Locked'
  <2>1. Odd(tab[s].epoch) => Odd(tab'[s].epoch)
    BY <1>6, EpochIs DEF Marks
  <2>2. Steady(s) /\ m'[p].pc # "link"
    BY <1>6, <2>1 DEF Marks, Steady
  <2>3. QED
    BY <1>4, <1>6, <2>2, SameSteady
<1>7. ASSUME NEW s \in 1 .. Slots, Only(s),
             \A q \in Procs \ {p} : m[q].pc = "link" => m[q].s # s,
             d.at \in {"commit", "link"} => d.s # s, s \notin held, tab'[s].hid => Odd(tab'[s].epoch),
             m'[p].pc = "link" => m'[p].s = s, LockedAt(p)'
      PROVE  Locked'
  <2>1. ASSUME NEW q \in Procs \ {p}
        PROVE  LockedAt(q)'
    <3>1. m[q].pc = "link" =>
           /\ Steady(m[q].s) /\ m[q].s \notin held'
           /\ d'.at \in {"commit", "link"} => d'.s # m[q].s
           /\ \A o \in Procs \ {q} : m'[o].pc = "link" => m'[o].s # m[q].s
      BY <1>1, <1>2, <1>7, SameSteady DEF LockedAt
    <3>2. QED
      BY <1>1, <1>2, <3>1, StillLocked
  <2>2. \A r \in 1 .. Slots : tab'[r].hid => Odd(tab'[r].epoch)
    BY <1>7 DEF Only, Locked, Busied
  <2>3. Busied'
    <3>1. \A r \in held : Steady(r)
      BY <1>7, SameSteady, LinkerIs
    <3>2. d.at \in {"commit", "link"} => Steady(d.s)
      BY <1>3, <1>7, SameSteady
    <3>3. QED
      BY <1>1, <2>2, <3>1, <3>2, StillBusied DEF Locked
  <2>4. QED
    BY <1>7, <2>1, <2>3 DEF Locked
<1>8. ASSUME NEW s \in 1 .. Slots, Only(s), Opens(p, s)
      PROVE  Locked'
  <2>1. ~ Odd(tab[s].epoch) /\ Odd(tab'[s].epoch)
    BY <1>8, EpochIs DEF Opens
  <2>2. /\ s \notin held /\ (d.at \in {"commit", "link"} => d.s # s)
        /\ \A q \in Procs : m[q].pc = "link" => m[q].s # s
    BY <2>1, Nobody
  <2>3. K(p)' = K(p) /\ Written(m[p])' = Written(m[p]) /\ m'[p].pc = "link" /\ m'[p].s = s
    BY <1>8 DEF Opens, Moves, Goes, K, Written
  <2>4. Taken(s, K(p), Written(m[p]))'
    BY <1>1, <1>8, <2>1, <2>2, <2>3 DEF Opens, Taken
  <2>5. LockedAt(p)'
    BY <1>1, <2>2, <2>3, <2>4 DEF LockedAt
  <2>6. QED
    BY <1>7, <1>8, <2>1, <2>2, <2>3, <2>5
<1>9. ASSUME NEW s \in 1 .. Slots, Only(s), Links(p, s)
      PROVE  Locked'
  <2>1. s = m[p].s /\ m[p].pc = "link" /\ LockedAt(p) /\ m'[p].pc # "link" /\ tab'[s].hid = FALSE
    BY <1>2, <1>9 DEF Links
  <2>2. s \notin held /\ (d.at \in {"commit", "link"} => d.s # s) /\ LockedAt(p)'
    BY <1>1, <2>1 DEF LockedAt
  <2>3. \A q \in Procs \ {p} : m[q].pc = "link" => m[q].s # s
    BY <2>1 DEF LockedAt
  <2>4. QED
    BY <1>7, <1>9, <2>1, <2>2, <2>3
<1>10. ASSUME NEW s \in 1 .. Slots, Only(s), Frees(p, s)
       PROVE  Locked'
  <2>1. ~ Odd(tab[s].epoch) /\ tab'[s].hid = FALSE /\ m'[p].pc # "link"
    BY <1>10, FreeIs DEF Frees
  <2>2. /\ s \notin held /\ (d.at \in {"commit", "link"} => d.s # s)
        /\ \A q \in Procs : m[q].pc = "link" => m[q].s # s
    BY <2>1, Nobody
  <2>3. LockedAt(p)'
    BY <2>1 DEF LockedAt
  <2>4. QED
    BY <1>7, <1>10, <2>1, <2>2, <2>3
<1>11. QED
  BY <1>5, <1>6, <1>8, <1>9, <1>10 DEF Moves, Tables

LEMMA BeginsLocked ==
  ASSUME Typed, Placed, Locked, NEW p \in Procs, Begins(p) \/ Stops(p)
  PROVE  Locked'
<1>1. /\ UNCHANGED << tab, d, held >> /\ (\A q \in Procs \ {p} : m'[q] = m[q]) /\ m'[p].pc # "link"
  BY DEF Begins, Stops, others, Typed
<1>2. Busied'
  BY <1>1 DEF Locked, Busied, Taken
<1>3. ASSUME NEW q \in Procs \ {p}
      PROVE  LockedAt(q)'
  <2>1. LockedAt(q)
    BY DEF Locked
  <2>2. m[q].pc = "link" =>
           /\ Steady(m[q].s) /\ m[q].s \notin held'
           /\ d'.at \in {"commit", "link"} => d'.s # m[q].s
           /\ \A o \in Procs \ {q} : m'[o].pc = "link" => m'[o].s # m[q].s
    BY <1>1, <2>1, LinkerIs DEF LockedAt, Steady
  <2>3. QED
    BY <1>1, <2>1, <2>2, StillLocked
<1>4. LockedAt(p)'
  BY <1>1 DEF LockedAt
<1>5. QED
  BY <1>2, <1>3, <1>4 DEF Locked

(* A step of others, in a slot which no linker is in. *)
LEMMA ElseLocked ==
  ASSUME Typed, Placed, Locked, UNCHANGED m,
         \A q \in Procs : m[q].pc = "link" =>
           Steady(m[q].s) /\ m[q].s \notin held' /\ (d'.at \in {"commit", "link"} => d'.s # m[q].s),
         Busied'
  PROVE  Locked'
<1>1. ASSUME NEW q \in Procs
      PROVE  LockedAt(q)'
  <2>1. LockedAt(q)
    BY DEF Locked
  <2>2. \A o \in Procs \ {q} : m[q].pc = "link" /\ m'[o].pc = "link" => m'[o].s # m[q].s
    BY <2>1 DEF LockedAt
  <2>3. QED
    BY <2>1, <2>2, StillLocked
<1>2. QED
  BY <1>1 DEF Locked

LEMMA HoldLocked ==
  ASSUME Typed, Placed, Locked, NEW s \in 1 .. Slots, Handles(s), ~ Odd(tab[s].epoch), held' = held \cup {s}
  PROVE  Locked'
<1>1. /\ s \notin held /\ ~ tab[s].hid /\ (d.at \in {"commit", "link"} => d.s # s)
      /\ \A q \in Procs : m[q].pc = "link" => m[q].s # s
  BY Nobody
<1>2. UNCHANGED << m, d >> /\ Odd(tab'[s].epoch) /\ ~ tab'[s].hid /\ Only(s)
  BY <1>1, EpochIs DEF Handles, Touches
<1>3. \A r \in (1 .. Slots) \ {s} : Steady(r) /\ tab'[r] = tab[r]
  BY <1>2, SameSteady DEF Only
<1>4. Busied'
  <2>1. d.at = "link" => Taken(d.s, d.key, Excuse)'
    BY <1>1, <1>2, <1>3, LinkerIs DEF Locked, Busied, Taken
  <2>2. d.at = "commit" => (Odd(tab[d.s].epoch) /\ d.s \notin held /\ tab[d.s].key = d.key /\ ~ tab[d.s].hid)'
    BY <1>1, <1>2, <1>3, LinkerIs DEF Locked, Busied
  <2>3. \A r \in held' : Odd(tab'[r].epoch) /\ ~ tab'[r].hid
    BY <1>2, <1>3, LinkerIs DEF Locked, Busied
  <2>4. \A r \in 1 .. Slots : tab'[r].hid => Odd(tab'[r].epoch)
    BY <1>2, <1>3 DEF Locked, Busied
  <2>5. QED
    BY <1>2, <2>1, <2>2, <2>3, <2>4 DEF Busied
<1>5. QED
  BY <1>1, <1>2, <1>3, <1>4, LinkerIs, ElseLocked DEF Locked, LockedAt

LEMMA ReleaseLocked ==
  ASSUME Typed, Placed, Locked, NEW s \in 1 .. Slots, Handles(s), s \in held, held' = held \ {s}
  PROVE  Locked'
<1>1. /\ ~ tab[s].hid /\ (d.at \in {"commit", "link"} => d.s # s)
      /\ \A q \in Procs : m[q].pc = "link" => m[q].s # s
  BY DEF Locked, Busied, LockedAt, Taken
<1>2. UNCHANGED << m, d >> /\ ~ tab'[s].hid /\ Only(s)
  BY <1>1 DEF Handles, Touches
<1>3. \A r \in (1 .. Slots) \ {s} : Steady(r) /\ tab'[r] = tab[r]
  BY <1>2, SameSteady DEF Only
<1>4. Busied'
  <2>1. d.at = "link" => Taken(d.s, d.key, Excuse)'
    BY <1>1, <1>2, <1>3, LinkerIs DEF Locked, Busied, Taken
  <2>2. d.at = "commit" => (Odd(tab[d.s].epoch) /\ d.s \notin held /\ tab[d.s].key = d.key /\ ~ tab[d.s].hid)'
    BY <1>1, <1>2, <1>3, LinkerIs DEF Locked, Busied
  <2>3. \A r \in held' : Odd(tab'[r].epoch) /\ ~ tab'[r].hid
    BY <1>3, LinkerIs DEF Locked, Busied
  <2>4. \A r \in 1 .. Slots : tab'[r].hid => Odd(tab'[r].epoch)
    BY <1>2, <1>3 DEF Locked, Busied
  <2>5. QED
    BY <1>2, <2>1, <2>2, <2>3, <2>4 DEF Busied
<1>5. QED
  BY <1>1, <1>2, <1>3, <1>4, LinkerIs, ElseLocked DEF Locked, LockedAt

(* The daemon. *)
LEMMA AwayLocked ==
  ASSUME Typed, Placed, Locked, UNCHANGED << m, held >>, d'.at \notin {"commit", "link"},
         \A q \in Procs : m[q].pc = "link" => Steady(m[q].s),
         \A s \in held : Steady(s),
         \A s \in 1 .. Slots : tab'[s].hid => Odd(tab'[s].epoch)
  PROVE  Locked'
<1>1. Busied'
  BY DEF Locked, Busied, Steady
<1>2. QED
  BY <1>1, LinkerIs, ElseLocked

LEMMA EmbedReadLocked ==
  ASSUME Typed, Placed, Locked, EmbedRead
  PROVE  Locked'
<1>1. UNCHANGED << tab, held, m >> /\ d'.at = "decode"
  BY EmbedReadIs DEF Touches
<1>2. QED
  BY <1>1, AwayLocked DEF Steady, Locked, Busied

LEMMA EmbedOpenLocked ==
  ASSUME Typed, Placed, Locked, EmbedOpen
  PROVE  Locked'
<1>1. UNCHANGED << held, m >> /\ d.at = "decode" /\ Touches
  BY EmbedOpenIs DEF unembedded
<1>2. CASE d' = Away /\ UNCHANGED tab
  BY <1>1, <1>2, AwayIs, AwayLocked DEF Steady, Locked, Busied
<1>3. ASSUME NEW s \in 1 .. Slots,
             /\ tab[s].key = d.key /\ ~ tab[s].hid /\ ~ Odd(tab[s].epoch) /\ Only(s)
             /\ d'.at = "commit" /\ d'.s = s /\ d'.key = d.key /\ d'.text = d.text
             /\ tab'[s].vec = tab[s].vec /\ tab'[s].epoch = tab[s].epoch + 1
      PROVE  Locked'
  <2>1. s \notin held /\ \A q \in Procs : m[q].pc = "link" => m[q].s # s
    BY <1>3, Nobody
  <2>2. Odd(tab'[s].epoch) /\ tab'[s].key = tab[s].key /\ tab'[s].hid = tab[s].hid
    BY <1>1, <1>3, EpochIs DEF Touches
  <2>3. \A r \in (1 .. Slots) \ {s} : Steady(r) /\ tab'[r] = tab[r]
    BY <1>3, SameSteady DEF Only
  <2>4. Busied'
    BY <1>1, <1>3, <2>1, <2>2, <2>3, LinkerIs DEF Locked, Busied
  <2>5. QED
    BY <1>1, <1>3, <2>1, <2>3, <2>4, LinkerIs, ElseLocked
<1>4. QED
  BY <1>2, <1>3, EmbedOpenIs

LEMMA EmbedCloseLocked ==
  ASSUME Typed, Placed, Locked, EmbedClose
  PROVE  Locked'
<1>1. UNCHANGED << held, m >> /\ d.at = "commit" /\ d.s \in 1 .. Slots /\ Only(d.s) /\ Touches
  BY EmbedCloseIs DEF unembedded
<1>2. d'.at \notin {"commit", "link"}
  BY EmbedCloseIs, AwayIs
<1>3. d.s \notin held /\ ~ tab[d.s].hid /\ \A q \in Procs : m[q].pc = "link" => m[q].s # d.s
  BY <1>1 DEF Locked, Busied, LockedAt
<1>4. \A r \in (1 .. Slots) \ {d.s} : Steady(r) /\ tab'[r] = tab[r]
  BY <1>1, SameSteady DEF Only
<1>5. tab'[d.s].hid = tab[d.s].hid
  BY <1>1 DEF Touches
<1>6. QED
  BY <1>1, <1>2, <1>3, <1>4, <1>5, LinkerIs, AwayLocked DEF Locked, Busied

LEMMA StampOpenLocked ==
  ASSUME Typed, Placed, Locked, StampOpen
  PROVE  Locked'
<1>1. UNCHANGED << held, m >> /\ d.at = "stamp"
  BY StampOpenIs DEF unembedded
<1>2. CASE d' = Away /\ Still
  BY <1>1, <1>2, AwayIs, AwayLocked DEF Steady, Locked, Busied, Still
<1>3. ASSUME NEW s \in 1 .. Slots, StampOpens(s), Only(s)
      PROVE  Locked'
  <2>1. s \notin held /\ (\A q \in Procs : m[q].pc = "link" => m[q].s # s) /\ ~ Odd(tab[s].epoch)
    BY <1>3, Nobody DEF StampOpens
  <2>2. Odd(tab'[s].epoch)
    BY <1>3, <2>1, EpochIs DEF StampOpens
  <2>3. \A r \in (1 .. Slots) \ {s} : Steady(r) /\ tab'[r] = tab[r]
    BY <1>3, SameSteady DEF Only
  <2>4. Busied'
    <3>1. d'.at = "link" /\ d'.s = s /\ d'.key = d.key
      BY <1>3 DEF StampOpens
    <3>2. Taken(s, d.key, Excuse)'
      BY <1>1, <1>3, <2>1, <2>2, <3>1 DEF StampOpens, Taken
    <3>3. \A r \in 1 .. Slots : tab'[r].hid => Odd(tab'[r].epoch)
      BY <2>2, <2>3 DEF Locked, Busied
    <3>4. \A r \in held' : Odd(tab'[r].epoch) /\ ~ tab'[r].hid
      BY <1>1, <2>1, <2>3, LinkerIs DEF Locked, Busied
    <3>5. Taken(d.s, d.key, Excuse)'
      BY <3>1, <3>2 DEF Taken
    <3>6. QED
      BY <3>1, <3>3, <3>4, <3>5 DEF Busied
  <2>5. QED
    BY <1>1, <1>3, <2>1, <2>3, <2>4, LinkerIs, ElseLocked DEF StampOpens
<1>4. QED
  BY <1>2, <1>3, StampOpenIs

LEMMA StampLinkLocked ==
  ASSUME Typed, Placed, Locked, StampLink
  PROVE  Locked'
<1>1. UNCHANGED << held, m >> /\ d.at = "link" /\ d.s \in 1 .. Slots /\ Only(d.s) /\ StampLinks(d.s)
  BY StampLinkIs DEF unembedded
<1>2. d'.at = "bump" /\ ~ tab'[d.s].hid
  BY <1>1 DEF StampLinks
<1>3. d.s \notin held /\ \A q \in Procs : m[q].pc = "link" => m[q].s # d.s
  BY <1>1 DEF Locked, Busied, LockedAt, Taken
<1>4. \A r \in (1 .. Slots) \ {d.s} : Steady(r) /\ tab'[r] = tab[r]
  BY <1>1, SameSteady DEF Only
<1>5. QED
  BY <1>1, <1>2, <1>3, <1>4, LinkerIs, AwayLocked DEF Locked, Busied

LEMMA StampBumpLocked ==
  ASSUME Typed, Placed, Locked, StampBump
  PROVE  Locked'
<1>1. UNCHANGED << held, m >> /\ d' = Away /\ Touches
  BY StampBumpIs DEF unembedded
<1>2. CASE UNCHANGED << tab, stood >>
  BY <1>1, <1>2, AwayIs, AwayLocked DEF Steady, Locked, Busied
<1>3. ASSUME NEW s \in 1 .. Slots, Only(s), ~ Odd(tab[s].epoch), tab'[s].vec = tab[s].vec
      PROVE  Locked'
  <2>1. Steady(s) /\ ~ tab'[s].hid
    BY <1>1, <1>3, Nobody DEF Touches, Steady
  <2>2. \A r \in (1 .. Slots) \ {s} : Steady(r) /\ tab'[r] = tab[r]
    BY <1>3, SameSteady DEF Only
  <2>3. QED
    BY <1>1, <2>1, <2>2, LinkerIs, AwayIs, AwayLocked DEF Locked, Busied
<1>4. QED
  BY <1>2, <1>3, StampBumpIs

-----------------------------------------------------------------------------
(* Whose a key is. *)
LEMMA MovesSeparate ==
  ASSUME Typed, Separate, NEW p \in Procs, Moves(p)
  PROVE  Separate' /\ \A q \in Procs : Current(q)' = Current(q) /\ Pending(q)' = Pending(q)
<1>1. \A q \in Procs : Current(q)' = Current(q)
  BY DEF Moves, Goes, Typed, Current
<1>2. UNCHANGED todo
  BY DEF Moves, rest
<1>3. \A q \in Procs : Pending(q)' = Pending(q)
  BY <1>1, <1>2 DEF Pending
<1> HIDE DEF Current, Pending
<1>4. Separate'
  BY <1>1, <1>2, <1>3 DEF Separate
<1>5. QED
  BY <1>1, <1>3, <1>4

LEMMA TouchesSeparate ==
  ASSUME Separate, UNCHANGED << m, todo >>
  PROVE  Separate' /\ \A q \in Procs : Pending(q)' = Pending(q)
<1>1. \A q \in Procs : Current(q)' = Current(q)
  BY DEF Current
<1>2. \A q \in Procs : Pending(q)' = Pending(q)
  BY <1>1 DEF Pending
<1> HIDE DEF Current, Pending
<1>3. QED
  BY <1>1, <1>2 DEF Separate

LEMMA BeginsSeparate ==
  ASSUME Typed, Separate, NEW p \in Procs, Begins(p)
  PROVE  /\ Separate' /\ \A q \in Procs : Pending(q)' \subseteq Pending(q)
         /\ \A q \in Procs \ {p} : m'[q] = m[q] /\ Current(q)' = Current(q) /\ todo'[q] = todo[q]
         /\ \E j \in DOMAIN todo[p] : Current(p)' = todo[p][j]
         /\ \A j \in DOMAIN todo'[p] : \E i \in DOMAIN todo[p] : todo'[p][j] = todo[p][i]
<1> DEFINE q0 == todo[p]  q1 == todo'[p]
<1>1. /\ q0 \in Seq(Command) /\ q0 # << >> /\ q1 = Tail(q0) /\ Current(p)' = Head(q0)
      /\ \A q \in Procs \ {p} : m'[q] = m[q] /\ todo'[q] = todo[q]
  BY DEF Begins, Typed
<1>2. /\ Current(p)' = q0[1] /\ DOMAIN q0 = 1 .. Len(q0) /\ Len(q0) \in Nat /\ Len(q0) > 0
      /\ DOMAIN q1 = 1 .. Len(q0) - 1
      /\ \A i \in 1 .. Len(q0) - 1 : q1[i] = q0[i + 1]
  <2>1. q1 \in Seq(Command)
    BY <1>1, SeqIs
  <2>2. Len(q1) = Len(q0) - 1 /\ DOMAIN q1 = 1 .. Len(q1)
    BY <1>1, <2>1, SeqIs
  <2>3. QED
    BY <1>1, <2>2, SeqIs
<1>3. \A q \in Procs \ {p} : Current(q)' = Current(q)
  BY <1>1 DEF Current
<1>4. \A q \in Procs \ {p} : Pending(q)' = Pending(q)
  BY <1>1, <1>3 DEF Pending
<1>5. Pending(p)' \subseteq Pending(p)
  <2>1. Pending(p)' = {Current(p)'} \cup {q1[j] : j \in DOMAIN q1}
    BY DEF Pending
  <2>2. {q1[j] : j \in DOMAIN q1} \subseteq {q0[j] : j \in DOMAIN q0}
    <3>1. \A j \in DOMAIN q1 : j + 1 \in DOMAIN q0 /\ q1[j] = q0[j + 1]
      BY <1>2
    <3> HIDE DEF q0, q1
    <3>2. QED
      BY <3>1
  <2>3. Current(p)' \in {q0[j] : j \in DOMAIN q0}
    BY <1>2
  <2>4. QED
    BY <2>1, <2>2, <2>3 DEF Pending
<1>6. Separate'
  <2>1. ASSUME NEW a \in Procs, NEW b \in Procs, a # b, NEW c \in Pending(a)', NEW e \in Pending(b)'
        PROVE  Apart(c, e)
    BY <1>4, <1>5, <2>1 DEF Separate
  <2>2. ASSUME NEW q \in Procs \ {p}, NEW j \in DOMAIN todo'[q]
        PROVE  InTurn(Current(q), todo[q][j])' /\ \A i \in 1 .. j - 1 : InTurn(todo[q][i], todo[q][j])'
    <3>1. todo'[q] = todo[q] /\ Current(q)' = Current(q) /\ j \in DOMAIN todo[q] /\ q \in Procs
      BY <1>1, <1>3, <2>2
    <3>2. InTurn(Current(q), todo[q][j]) /\ \A i \in 1 .. j - 1 : InTurn(todo[q][i], todo[q][j])
      BY <3>1 DEF Separate
    <3>3. QED
      BY <3>1, <3>2 DEF InTurn
  <2>3. ASSUME NEW j \in DOMAIN q1
        PROVE  InTurn(Current(p), todo[p][j])' /\ \A i \in 1 .. j - 1 : InTurn(todo[p][i], todo[p][j])'
    <3>1. j + 1 \in DOMAIN q0 /\ q1[j] = q0[j + 1] /\ j \in Nat
      BY <1>2, <2>3
    <3>2. \A i \in 1 .. j : InTurn(q0[i], q0[j + 1])
      BY <3>1 DEF Separate
    <3>3. 1 \in 1 .. j /\ \A i \in 1 .. j - 1 : i + 1 \in 1 .. j /\ q1[i] = q0[i + 1]
      BY <1>2, <2>3
    <3>4. InTurn(q0[1], q0[j + 1]) /\ \A i \in 1 .. j - 1 : InTurn(q0[i + 1], q0[j + 1])
      BY <3>2, <3>3
    <3>5. QED
      BY <1>2, <3>1, <3>3, <3>4 DEF InTurn
  <2>4. QED
    BY <2>1, <2>2, <2>3 DEF Separate, Apart
<1>7. QED
  <2>1. 1 \in DOMAIN todo[p] /\ Current(p)' = todo[p][1]
    BY <1>2
  <2>2. \A j \in DOMAIN todo'[p] : j + 1 \in DOMAIN todo[p] /\ todo'[p][j] = todo[p][j + 1]
    BY <1>2
  <2>3. QED
    BY <1>1, <1>3, <1>4, <1>5, <1>6, <2>1, <2>2

LEMMA StopsSeparate ==
  ASSUME Typed, Separate, NEW p \in Procs, Stops(p)
  PROVE  /\ Separate' /\ \A q \in Procs : \A c \in Pending(q)' : c \in Pending(q) \/ c.do = "none"
         /\ \A q \in Procs \ {p} : m'[q] = m[q] /\ Current(q)' = Current(q)
<1>1. \A q \in Procs \ {p} : m'[q] = m[q] /\ Current(q)' = Current(q)
  BY DEF Stops, Typed, Current
<1>2. UNCHANGED todo /\ Current(p)'.do = "none"
  BY DEF Stops, Current
<1>3. \A q \in Procs : \A c \in Pending(q)' : c \in Pending(q) \/ c.do = "none"
  BY <1>1, <1>2 DEF Pending
<1>4. ASSUME NEW c, NEW e, c.do = "none"
      PROVE  Apart(c, e) /\ Apart(e, c) /\ InTurn(c, e)
  BY <1>4 DEF Apart, InTurn, Writers, Setters
<1>5. Separate'
  <2>1. ASSUME NEW a \in Procs, NEW b \in Procs, a # b, NEW c \in Pending(a)', NEW e \in Pending(b)'
        PROVE  Apart(c, e)
    BY <1>3, <1>4, <2>1 DEF Separate
  <2>2. ASSUME NEW q \in Procs, NEW j \in DOMAIN todo'[q]
        PROVE  InTurn(Current(q), todo[q][j])' /\ \A i \in 1 .. j - 1 : InTurn(todo[q][i], todo[q][j])'
    <3>1. InTurn(Current(q)', todo[q][j])
      <4>1. CASE q = p
        BY <1>2, <1>4, <4>1
      <4>2. CASE q # p
        BY <1>1, <1>2, <2>2, <4>2 DEF Separate
      <4>3. QED
        BY <4>1, <4>2
    <3>2. QED
      BY <1>2, <2>2, <3>1 DEF Separate, InTurn
  <2>3. QED
    BY <2>1, <2>2 DEF Separate, Apart
<1>6. QED
  BY <1>1, <1>3, <1>5

LEMMA Owner ==
  ASSUME Separate, NEW p \in Procs, NEW q \in Procs, p # q, NEW c \in Pending(q),
         m[p].do \in Writers, c.do \in Writers
  PROVE  c.name # m[p].name
<1>1. Current(p) \in Pending(p) /\ Current(p).do = m[p].do /\ Current(p).name = m[p].name
  BY DEF Pending, Current
<1>2. Apart(Current(p), c)
  BY <1>1 DEF Separate
<1>3. QED
  BY <1>1, <1>2 DEF Apart

LEMMA Owners ==
  ASSUME Separate, NEW p \in Procs, NEW q \in Procs, p # q, m[p].do \in Writers, m[q].do \in Writers
  PROVE  m[q].name # m[p].name
<1>1. Current(q) \in Pending(q) /\ Current(q).do = m[q].do /\ Current(q).name = m[q].name
  BY DEF Pending, Current
<1>2. QED
  BY <1>1, Owner

LEMMA Later ==
  ASSUME Typed, Separate, NEW p \in Procs, NEW q \in Procs, NEW c \in Pending(q),
         m[p].do \in Setters, c.do \in Setters, c.name = m[p].name
  PROVE  q = p /\ m[p].gen <= c.gen
<1>1. q = p
  BY Owner DEF Writers
<1>2. CASE c = Current(p)
  BY <1>1, <1>2 DEF Typed, Local, Current
<1>3. CASE \E j \in DOMAIN todo[p] : c = todo[p][j]
  <2>1. InTurn(Current(p), c)
    BY <1>3 DEF Separate
  <2>2. Current(p).do = m[p].do /\ Current(p).name = m[p].name /\ Current(p).gen = m[p].gen
    BY DEF Current
  <2>3. QED
    BY <1>1, <2>1, <2>2 DEF InTurn
<1>4. QED
  BY <1>1, <1>2, <1>3 DEF Pending

-----------------------------------------------------------------------------
(* The one slot a step of p may change. *)
Stores(p, s) ==
  /\ m[p].pc \in {"set", "link"} /\ m[p].do \in Setters /\ tab[s].key \in {NoKey, K(p)}
  /\ tab'[s].key \in {NoKey, K(p)} /\ (tab[s].key # NoKey => tab'[s].key = tab[s].key)
  /\ tab'[s].val = Written(m[p])

LEMMA Change ==
  ASSUME Typed, Locked, NEW p \in Procs, Moves(p)
  PROVE  \/ UNCHANGED tab
         \/ /\ K(p) \in Keys /\ K(p) # NoKey /\ K(p)[1] = m[p].name /\ K(p)[2] = m[p].i
            /\ \E s \in 1 .. Slots : /\ \A r \in (1 .. Slots) \ {s} : tab'[r] = tab[r]
                                     /\ Marks(p, s) \/ Stores(p, s) \/ Frees(p, s)
<1>1. \A s \in 1 .. Slots : Opens(p, s) => Stores(p, s)
  BY DEF Opens, Stores
<1>2. \A s \in 1 .. Slots : Links(p, s) => Stores(p, s)
  BY DEF Links, Stores, Locked, LockedAt, Taken
<1>3. QED
  BY <1>1, <1>2, CommandsAssumption DEF Moves, Tables, K, Only

LEMMA WrittenIs ==
  ASSUME Typed, NEW p \in Procs
  PROVE  /\ Written(m[p]).of = m[p].gen /\ Written(m[p]).of \in Nat /\ Written(m[p]).n \in Nat
         /\ m[p].i > 0 => Written(m[p]).n = m[p].i
         /\ m[p].i = 0 /\ m[p].do # "ingest" => Written(m[p]).n = 0
         /\ m[p].i = 0 /\ m[p].do = "ingest" => Written(m[p]).n = m[p].n
BY DEF Typed, Local, Written

LEMMA MovesNumbered ==
  ASSUME Typed, Locked, Numbered, NEW p \in Procs, Moves(p)
  PROVE  Numbered'
<1>1. CASE UNCHANGED tab
  BY <1>1 DEF Numbered
<1>2. CASE /\ K(p) # NoKey
           /\ \E s \in 1 .. Slots : /\ \A r \in (1 .. Slots) \ {s} : tab'[r] = tab[r]
                                    /\ Marks(p, s) \/ Stores(p, s) \/ Frees(p, s)
  <2>1. PICK s \in 1 .. Slots : /\ \A r \in (1 .. Slots) \ {s} : tab'[r] = tab[r]
                                /\ Marks(p, s) \/ Stores(p, s) \/ Frees(p, s)
    BY <1>2
  <2>2. tab'[s].key # NoKey /\ tab'[s].key[2] > 0 => tab'[s].val.n = tab'[s].key[2]
    <3>1. CASE Marks(p, s)
      BY <3>1 DEF Marks, Numbered
    <3>2. CASE Stores(p, s)
      <4>1. tab'[s].val.n = Written(m[p]).n /\ (tab'[s].key # NoKey => tab'[s].key[2] = m[p].i)
        BY <1>2, <3>2 DEF Stores, K
      <4>2. QED
        BY <4>1, WrittenIs
    <3>3. CASE Frees(p, s)
      BY <3>3, FreeIs DEF Frees, Nothing
    <3>4. QED
      BY <2>1, <3>1, <3>2, <3>3
  <2>3. QED
    BY <2>1, <2>2 DEF Numbered
<1>3. QED
  BY <1>1, <1>2, Change

LEMMA MovesNewest ==
  ASSUME Typed, Locked, Separate, Newest, NEW p \in Procs, Moves(p)
  PROVE  Newest'
<1>1. \A q \in Procs : Pending(q)' = Pending(q)
  BY MovesSeparate
<1> SUFFICES ASSUME NEW q \in Procs, NEW c \in Pending(q), c.do \in Setters,
                    NEW r \in 1 .. Slots, tab'[r].key # NoKey, tab'[r].key[1] = c.name
             PROVE  tab'[r].val.of <= c.gen
  <2> HIDE DEF Pending
  <2>1. QED
    BY <1>1 DEF Newest
<1>2. CASE UNCHANGED tab
  BY <1>2 DEF Newest
<1>3. CASE \E s \in 1 .. Slots : /\ \A x \in (1 .. Slots) \ {s} : tab'[x] = tab[x]
                                 /\ Marks(p, s) \/ Stores(p, s) \/ Frees(p, s)
  <2>1. PICK s \in 1 .. Slots : /\ \A x \in (1 .. Slots) \ {s} : tab'[x] = tab[x]
                                /\ Marks(p, s) \/ Stores(p, s) \/ Frees(p, s)
    BY <1>3
  <2>2. CASE r # s
    BY <2>1, <2>2 DEF Newest
  <2>3. CASE r = s /\ Marks(p, s)
    BY <2>3 DEF Newest, Marks
  <2>4. CASE r = s /\ Stores(p, s)
    <3>1. c.name = m[p].name /\ m[p].do \in Setters /\ tab'[r].val.of = m[p].gen
      BY <2>4, WrittenIs DEF Stores, K
    <3>2. QED
      BY <3>1, Later
  <2>5. CASE r = s /\ Frees(p, s)
    BY <2>5, FreeIs DEF Frees
  <2>6. QED
    BY <2>1, <2>2, <2>3, <2>4, <2>5
<1>4. QED
  BY <1>2, <1>3, Change

Course(p) ==
  /\ m[p].do = "ingest" => Ingests(p)
  /\ m[p].do = "unset" /\ m'[p].pc # "idle" =>
       \E s \in 1 .. Slots : Frees(p, s) /\ \A r \in (1 .. Slots) \ {s} : tab'[r] = tab[r]

LEMMA CourseIs ==
  ASSUME Typed, NEW p \in Procs, PlacedAt(p), Steps(p) \/ Leave(p)
  PROVE  Course(p)
<1>1. CASE Steps(p)
  BY <1>1, StepIs DEF Course, Only
<1>2. CASE Leave(p)
  BY <1>2, WatchIs DEF Course
<1>3. QED
  BY <1>1, <1>2

(* A slot that others hold for a name does not change by p. *)
LEMMA NotMine ==
  ASSUME Typed, Locked, NEW p \in Procs, Moves(p), NEW r \in 1 .. Slots, tab[r].key # NoKey,
         tab[r].key[1] # m[p].name
  PROVE  tab'[r].key = tab[r].key /\ tab'[r].val = tab[r].val
<1>1. CASE UNCHANGED tab
  BY <1>1
<1>2. CASE /\ K(p)[1] = m[p].name
           /\ \E s \in 1 .. Slots : /\ \A x \in (1 .. Slots) \ {s} : tab'[x] = tab[x]
                                    /\ Marks(p, s) \/ Stores(p, s) \/ Frees(p, s)
  BY <1>2 DEF Marks, Stores, Frees
<1>3. QED
  BY <1>1, <1>2, Change

(* A step that stores keeps every slot's key, but takes a free one. *)
LEMMA StoredKept ==
  ASSUME NEW p \in Procs, NEW s \in 1 .. Slots, Stores(p, s), \A x \in (1 .. Slots) \ {s} : tab'[x] = tab[x],
         NEW r \in 1 .. Slots, tab[r].key # NoKey
  PROVE  /\ tab'[r].key = tab[r].key
         /\ tab[r].key # K(p) => tab'[r].val = tab[r].val
         /\ tab[r].key = K(p) => tab'[r].val = tab[r].val \/ tab'[r].val = Written(m[p])
BY DEF Stores

LEMMA ThroughKeys ==
  ASSUME Typed, NEW q \in Procs, PlacedAt(q), m[q].do = "ingest", NEW i \in Through(q)
  PROVE  i \in Nat /\ i > 0 /\ << m[q].name, i >> \in Keys /\ << m[q].name, i >> # NoKey
<1>1. m[q].i \in Nat /\ m[q].n \in Nat
  BY DEF Typed, Local
<1>2. m[q].i \in Orders(Current(q)) /\ Current(q) \in Command /\ Current(q).do \notin Listing
  BY DEF PlacedAt, Listing, Current
<1>3. Orders(Current(q)) = 0 .. IF m[q].n > 1 THEN m[q].n ELSE 1
  BY DEF Orders, Current
<1>4. i \in Nat /\ i > 0 /\ i \in Orders(Current(q))
  BY <1>1, <1>2, <1>3 DEF Through
<1>5. << m[q].name, i >> \in Keys
  BY <1>2, <1>4 DEF Command, Current
<1>6. QED
  BY <1>4, <1>5, CommandsAssumption

LEMMA MovesIngesting ==
  ASSUME Typed, Placed, Locked, Separate, Ingesting, NEW p \in Procs, Moves(p), Course(p)
  PROVE  Ingesting'
<1> SUFFICES ASSUME NEW q \in Procs, m'[q].do = "ingest", m'[q].pc # "idle", NEW i \in Through(q)'
             PROVE  \E s \in 1 .. Slots : tab'[s].key = << m'[q].name, i >> /\ tab'[s].val.of = m'[q].gen
  BY DEF Ingesting
<1>1. CASE q # p
  <2>1. m'[q] = m[q]
    BY <1>1 DEF Moves, Goes, Typed
  <2>2. i \in Through(q) /\ m[q].do = "ingest" /\ m[q].pc # "idle"
    BY <2>1 DEF Through
  <2>3. PICK s \in 1 .. Slots : tab[s].key = << m[q].name, i >> /\ tab[s].val.of = m[q].gen
    BY <2>2 DEF Ingesting
  <2>4. tab[s].key # NoKey /\ tab[s].key[1] = m[q].name
    BY <2>2, <2>3, ThroughKeys DEF Placed
  <2>5. CASE m[p].name = m[q].name
    <3>1. m[p].do \notin Writers
      BY <1>1, <2>2, <2>5, Owners DEF Writers, Setters
    <3>2. UNCHANGED tab \/ \E x \in 1 .. Slots : (\A y \in (1 .. Slots) \ {x} : tab'[y] = tab[y]) /\ Marks(p, x)
      BY <3>1, Change DEF Stores, Frees, Writers
    <3>3. QED
      BY <2>1, <2>3, <3>2 DEF Marks
  <2>6. CASE m[p].name # m[q].name
    BY <2>1, <2>3, <2>4, <2>6, NotMine
  <2>7. QED
    BY <2>5, <2>6
<1>2. CASE q = p
  <2>1. /\ m[p].do = "ingest" /\ m'[p].name = m[p].name /\ m'[p].gen = m[p].gen /\ m'[p].n = m[p].n
        /\ PlacedAt(p) /\ PlacedAt(p)' /\ m[p].i \in Nat /\ m[p].n \in Nat
    BY <1>2 DEF Moves, Goes, Placed, Typed, Local
  <2>2. Ingests(p) /\ m'[p].pc # "idle"
    BY <1>2, <2>1 DEF Course
  <2>3. i \in Nat /\ i > 0
    BY <1>2, <2>1 DEF Through, Moves, Goes, Local
  <2>4. ASSUME UNCHANGED tab \/ \E x \in 1 .. Slots : (\A y \in (1 .. Slots) \ {x} : tab'[y] = tab[y]) /\ Marks(p, x),
               i \in Through(p), m[p].pc # "idle"
        PROVE  \E s \in 1 .. Slots : tab'[s].key = << m[p].name, i >> /\ tab'[s].val.of = m[p].gen
    <3>1. PICK s \in 1 .. Slots : tab[s].key = << m[p].name, i >> /\ tab[s].val.of = m[p].gen
      BY <2>1, <2>4 DEF Ingesting
    <3>2. tab'[s].key = tab[s].key /\ tab'[s].val = tab[s].val
      BY <2>4 DEF Marks
    <3>3. QED
      BY <3>1, <3>2
  <2>5. CASE m[p].pc \in {"set", "link"} /\ i \in Through(p)
    <3>1. PICK r \in 1 .. Slots : tab[r].key = << m[p].name, i >> /\ tab[r].val.of = m[p].gen
      BY <2>1, <2>5 DEF Ingesting
    <3>2. tab[r].key # NoKey
      BY <2>1, <2>5, <3>1, ThroughKeys
    <3>3. tab'[r].key = tab[r].key /\ tab'[r].val.of = m[p].gen
      <4>1. CASE UNCHANGED tab
        BY <3>1, <4>1
      <4>2. CASE \E s \in 1 .. Slots : (\A x \in (1 .. Slots) \ {s} : tab'[x] = tab[x]) /\ Stores(p, s)
        <5>1. PICK s \in 1 .. Slots : (\A x \in (1 .. Slots) \ {s} : tab'[x] = tab[x]) /\ Stores(p, s)
          BY <4>2
        <5>2. tab'[r].key = tab[r].key /\ (tab'[r].val = tab[r].val \/ tab'[r].val = Written(m[p]))
          BY <3>2, <5>1, StoredKept
        <5>3. QED
          BY <3>1, <5>2, WrittenIs
      <4>3. QED
        BY <2>5, <4>1, <4>2, Change DEF Marks, Frees
    <3>4. QED
      BY <1>2, <2>1, <3>1, <3>3
  <2>6. CASE m[p].pc = "set"
    <3>1. m'[p].pc = "link" /\ m'[p].i = m[p].i
      BY <2>2, <2>6 DEF Ingests
    <3>2. i \in Through(p)
      BY <1>2, <2>1, <2>6, <3>1 DEF Through
    <3>3. QED
      BY <2>5, <2>6, <3>2
  <2>7. CASE m[p].pc = "link" /\ i \notin Through(p)
    <3>1. m'[p].pc = "type" /\ m'[p].i = m[p].i /\ Links(p, m[p].s)
      BY <2>2, <2>7 DEF Ingests
    <3>2. tab'[m[p].s].key = << m[p].name, m[p].i >> /\ tab'[m[p].s].val.of = m[p].gen /\ m[p].s \in 1 .. Slots
      <4>1. tab[m[p].s].val = Written(m[p])
        BY <2>7 DEF Locked, LockedAt, Taken
      <4>2. m[p].s \in 1 .. Slots
        BY <2>1, <2>7, SetPlaces
      <4>3. QED
        BY <3>1, <4>1, <4>2, WrittenIs DEF Links, K
    <3>3. i = m[p].i
      BY <1>2, <2>1, <2>3, <2>7, <3>1 DEF Through
    <3>4. QED
      BY <1>2, <2>1, <3>2, <3>3
  <2>8. CASE m[p].pc \in {"type", "label", "bump"}
    <3>1. UNCHANGED tab \/ \E x \in 1 .. Slots : (\A y \in (1 .. Slots) \ {x} : tab'[y] = tab[y]) /\ Marks(p, x)
      BY <2>8, Change DEF Stores, Frees
    <3>2. i \in Through(p)
      BY <1>2, <2>1, <2>2, <2>3, <2>8 DEF Through, Ingests, NextOrder
    <3>3. QED
      BY <1>2, <2>1, <2>4, <2>8, <3>1, <3>2
  <2>9. QED
    BY <2>2, <2>5, <2>6, <2>7, <2>8 DEF Ingests
<1>3. QED
  BY <1>1, <1>2

(* Whoever is to find no metadata of a name finds none. *)
LEMMA MovesBare ==
  ASSUME Typed, Locked, NEW p \in Procs, Moves(p), NEW x, Bare(x),
         m[p].do = "ingest" => m[p].name # x
  PROVE  Bare(x)'
<1>1. CASE UNCHANGED tab
  BY <1>1 DEF Bare
<1>2. CASE /\ K(p) # NoKey
           /\ \E s \in 1 .. Slots : /\ \A r \in (1 .. Slots) \ {s} : tab'[r] = tab[r]
                                    /\ Marks(p, s) \/ Stores(p, s) \/ Frees(p, s)
  <2>1. PICK s \in 1 .. Slots : /\ \A r \in (1 .. Slots) \ {s} : tab'[r] = tab[r]
                                /\ Marks(p, s) \/ Stores(p, s) \/ Frees(p, s)
    BY <1>2
  <2>2. tab'[s].key # NoKey /\ tab'[s].key = << x, 0 >> => tab'[s].val.n = 0 \/ tab'[s].val.of = 0
    <3>1. CASE Marks(p, s)
      BY <3>1 DEF Marks, Bare
    <3>2. CASE Stores(p, s)
      <4>1. tab'[s].key \in {NoKey, << m[p].name, m[p].i >>} /\ tab'[s].val = Written(m[p]) /\ NoKey \notin Keys
        BY <3>2, CommandsAssumption DEF Stores, K
      <4>2. QED
        BY <4>1, WrittenIs
    <3>3. CASE Frees(p, s)
      BY <3>3, FreeIs DEF Frees, Nothing
    <3>4. QED
      BY <2>1, <3>1, <3>2, <3>3
  <2>3. QED
    BY <2>1, <2>2 DEF Bare
<1>3. QED
  BY <1>1, <1>2, Change

LEMMA MovesRemoving ==
  ASSUME Typed, Placed, Locked, Separate, Removing, Once, NEW p \in Procs, Moves(p), Course(p)
  PROVE  Removing'
<1>1. \A q \in Procs : Pending(q)' = Pending(q)
  BY MovesSeparate
<1>2. ASSUME NEW q \in Procs, NEW c \in Pending(q)', c.do = "disorder"
      PROVE  Bare(c.name)'
  <2>1. c \in Pending(q) /\ Bare(c.name)
    BY <1>1, <1>2 DEF Removing
  <2>2. ASSUME m[p].do = "ingest", m[p].name = c.name
        PROVE  FALSE
    <3>1. q = p
      BY <1>2, <2>1, <2>2, Owner DEF Writers, Setters
    <3>2. CASE c = Current(p)
      BY <1>2, <2>2, <3>2 DEF Current
    <3>3. CASE \E j \in DOMAIN todo[p] : c = todo[p][j]
      BY <1>2, <2>2, <3>3 DEF Separate, InTurn, Current
    <3>4. QED
      BY <2>1, <3>1, <3>2, <3>3 DEF Pending
  <2>3. QED
    BY <2>1, <2>2, MovesBare
<1>3. ASSUME NEW q \in Procs, m'[q].do = "unset", m'[q].pc = "unset", m'[q].i > 0
      PROVE  Bare(m[q].name)'
  <2>1. CASE q # p
    <3>1. m'[q] = m[q]
      BY <2>1 DEF Moves, Goes, Typed
    <3>2. Bare(m[q].name)
      BY <1>3, <3>1 DEF Removing
    <3>3. m[p].do = "ingest" => m[p].name # m[q].name
      BY <1>3, <2>1, <3>1, Owners DEF Writers, Setters
    <3>4. PICK x : x = m[q].name
      OBVIOUS
    <3>5. Bare(x)'
      BY <3>2, <3>3, <3>4, MovesBare
    <3>6. QED
      BY <3>1, <3>4, <3>5 DEF Bare
  <2>2. CASE q = p
    <3>1. m[p].do = "unset" /\ m'[p].name = m[p].name /\ m'[p].pc # "idle"
      BY <1>3, <2>2 DEF Moves, Goes
    <3>2. PICK s \in 1 .. Slots : Frees(p, s) /\ \A r \in (1 .. Slots) \ {s} : tab'[r] = tab[r]
      BY <3>1 DEF Course
    <3>3. CASE m[p].i > 0
      <4>1. PICK x : x = m[p].name
        OBVIOUS
      <4>2. Bare(x)
        BY <3>1, <3>2, <3>3, <4>1 DEF Removing, Frees
      <4>3. Bare(x)'
        BY <3>1, <4>1, <4>2, MovesBare
      <4>4. QED
        BY <2>2, <3>1, <4>1, <4>3 DEF Bare
    <3>4. CASE m[p].i = 0
      <4>1. tab[s].key = << m[p].name, 0 >> /\ tab'[s].key = NoKey
        BY <3>2, <3>4, FreeIs DEF Frees, K
      <4>2. K(p) \in Keys /\ K(p) = << m[p].name, 0 >> /\ NoKey \notin Keys
        BY <3>1, <3>4, CommandsAssumption DEF Placed, PlacedAt, Listing, K
      <4>3. \A r \in 1 .. Slots : tab'[r].key # << m[p].name, 0 >>
        BY <3>2, <4>1, <4>2 DEF Once
      <4>4. QED
        BY <2>2, <3>1, <4>3 DEF Bare
    <3>5. m[p].i \in Nat
      BY DEF Typed, Local
    <3>6. QED
      BY <3>3, <3>4, <3>5
  <2>3. QED
    BY <2>1, <2>2
<1>4. QED
  <2>1. \A q \in Procs : m'[q].do = "unset" /\ m'[q].pc = "unset" /\ m'[q].i > 0 => Bare(m[q].name)'
    BY <1>3
  <2>2. \A q \in Procs : \A c \in Pending(q)' : c.do = "disorder" => Bare(c.name)'
    BY <1>2
  <2> HIDE DEF Pending
  <2>3. QED
    BY <2>1, <2>2 DEF Removing

LEMMA MovesOrder ==
  ASSUME Typed, Placed, Locked, Separate, Numbered, Newest, Ingesting, Removing, Whole,
         NEW p \in Procs, Moves(p)
  PROVE  Whole'
<1> SUFFICES ASSUME NEW s \in 1 .. Slots, Announces(s)', NEW i \in 1 .. tab'[s].val.n
             PROVE  Chunked(s, i)'
  BY DEF Whole
<1> USE DEF Announces, Chunked
<1>1. CASE UNCHANGED tab
  BY <1>1 DEF Whole
<1>2. CASE /\ K(p) \in Keys /\ K(p) # NoKey /\ K(p)[1] = m[p].name /\ K(p)[2] = m[p].i
           /\ \E x \in 1 .. Slots : /\ \A r \in (1 .. Slots) \ {x} : tab'[r] = tab[r]
                                    /\ Marks(p, x) \/ Stores(p, x) \/ Frees(p, x)
  <2>1. PICK x \in 1 .. Slots : /\ \A r \in (1 .. Slots) \ {x} : tab'[r] = tab[r]
                                /\ Marks(p, x) \/ Stores(p, x) \/ Frees(p, x)
    BY <1>2
  <2>2. CASE Marks(p, x)
    <3>1. \A r \in 1 .. Slots : tab'[r].key = tab[r].key /\ tab'[r].val = tab[r].val
      BY <2>1, <2>2 DEF Marks
    <3>2. tab[s].key # NoKey /\ tab[s].key[2] = 0 /\ tab[s].val.of > 0 /\ tab[s].val.n > 0 /\ i \in 1 .. tab[s].val.n
      BY <3>1
    <3>3. PICK r \in 1 .. Slots : /\ tab[r].key = << tab[s].key[1], i >> /\ tab[r].key # NoKey
                                  /\ tab[r].val.n = i /\ tab[r].val.of >= tab[s].val.of
      BY <3>2 DEF Whole
    <3>4. QED
      BY <3>1, <3>3
  <2>3. tab'[s].val.n \in Nat /\ i \in Nat /\ i > 0
    <3>1. tab' \in [1 .. Slots -> SlotType]
      BY MovesTyped DEF Typed
    <3>2. tab'[s].val.n \in Nat
      BY <3>1 DEF SlotType, Version
    <3>3. QED
      BY <3>2
  <2>4. ASSUME s # x
        PROVE  \E r \in 1 .. Slots : /\ tab[r].key = << tab'[s].key[1], i >> /\ tab[r].key # NoKey
                                     /\ tab[r].val.n = i /\ tab[r].val.of >= tab'[s].val.of
    <3>1. tab'[s] = tab[s]
      BY <2>1, <2>4
    <3>2. PICK r \in 1 .. Slots : /\ tab[r].key = << tab[s].key[1], i >> /\ tab[r].key # NoKey
                                  /\ tab[r].val.n = i /\ tab[r].val.of >= tab[s].val.of
      BY <3>1 DEF Whole
    <3>3. QED
      BY <3>1, <3>2
  <2>5. CASE Stores(p, x)
    <3>1. /\ tab'[x].key \in {NoKey, << m[p].name, m[p].i >>} /\ tab'[x].val = Written(m[p]) /\ m[p].do \in Setters
          /\ m[p].pc # "idle"
      BY <2>5 DEF Stores, K
    <3>2. CASE s = x
      <4>1. m[p].i = 0 /\ m[p].do = "ingest" /\ tab'[s].val.n = m[p].n /\ tab'[s].val.of = m[p].gen
            /\ tab'[s].key[1] = m[p].name /\ m[p].pc # "idle"
        BY <2>5, <3>1, <3>2, WrittenIs DEF Stores
      <4>2. i \in Through(p)
        BY <4>1 DEF Through
      <4>3. PICK r \in 1 .. Slots : tab[r].key = << m[p].name, i >> /\ tab[r].val.of = m[p].gen
        BY <4>1, <4>2 DEF Ingesting
      <4>4. tab[r].key # NoKey /\ tab[r].key # K(p)
        BY <2>3, <4>1, <4>2, <4>3, ThroughKeys DEF Placed, K
      <4>5. r # x /\ tab[r].val.n = i
        <5>1. r # x
          BY <2>5, <4>4 DEF Stores
        <5>2. tab[r].key[2] = i
          BY <4>3
        <5>3. QED
          BY <2>3, <4>4, <5>1, <5>2 DEF Numbered
      <4>6. m[p].gen \in Nat
        BY DEF Typed, Local
      <4>7. tab'[r] = tab[r] /\ tab'[r].val.of >= tab'[s].val.of
        BY <2>1, <4>1, <4>3, <4>5, <4>6
      <4>8. tab'[r].key = << tab'[s].key[1], i >> /\ tab'[r].key # NoKey /\ tab'[r].val.n = i
        BY <4>1, <4>3, <4>4, <4>5, <4>7
      <4>9. QED
        BY <4>7, <4>8
    <3>3. CASE s # x
      <4>1. PICK r \in 1 .. Slots : /\ tab[r].key = << tab'[s].key[1], i >> /\ tab[r].key # NoKey
                                    /\ tab[r].val.n = i /\ tab[r].val.of >= tab'[s].val.of
        BY <2>4, <3>3
      <4>2. CASE r # x
        BY <2>1, <4>1, <4>2
      <4>3. CASE r = x
        <5>1. m[p].i = i /\ m[p].name = tab'[s].key[1] /\ tab[r].key = K(p)
          BY <1>2, <2>5, <4>1, <4>3 DEF Stores, K
        <5>2. tab'[r].val.n = i /\ tab'[r].val.of = m[p].gen
          BY <2>3, <3>1, <4>3, <5>1, WrittenIs
        <5>3. tab'[s] = tab[s]
          BY <2>1, <3>3
        <5>4. tab[s].val.of <= m[p].gen
          <6>1. Current(p) \in Pending(p) /\ Current(p).do = m[p].do /\ Current(p).name = m[p].name /\ Current(p).gen = m[p].gen
            BY DEF Pending, Current
          <6>2. QED
            BY <3>1, <5>1, <5>3, <6>1 DEF Newest
        <5>5. tab[s].val.of \in Nat /\ m[p].gen \in Nat
          BY DEF Typed, SlotType, Version, Local
        <5>6. tab'[r].key = tab[r].key
          BY <2>5, <4>1, <4>3 DEF Stores
        <5>7. QED
          BY <3>1, <4>1, <4>3, <5>1, <5>2, <5>3, <5>4, <5>5, <5>6
      <4>4. QED
        BY <4>2, <4>3
    <3>4. QED
      BY <3>2, <3>3
  <2>6. CASE Frees(p, x)
    <3>1. s # x
      BY <2>6, FreeIs DEF Frees
    <3>2. PICK r \in 1 .. Slots : /\ tab[r].key = << tab'[s].key[1], i >> /\ tab[r].key # NoKey
                                  /\ tab[r].val.n = i /\ tab[r].val.of >= tab'[s].val.of
      BY <2>4, <3>1
    <3>3. r # x
      <4>1. SUFFICES ASSUME r = x
                     PROVE  FALSE
        OBVIOUS
      <4>2. m[p].i = i /\ m[p].name = tab'[s].key[1] /\ m[p].pc = "unset" /\ m[p].do \in Writers
        BY <1>2, <2>6, <3>2, <4>1 DEF Frees, K
      <4>3. m[p].do \in {"unset", "disorder"}
        BY <2>3, <4>2 DEF Placed, PlacedAt, Writers, Setters, Places, Setting
      <4>4. Bare(m[p].name)
        <5>1. Current(p) \in Pending(p) /\ Current(p).do = m[p].do /\ Current(p).name = m[p].name
          BY DEF Pending, Current
        <5>2. QED
          BY <2>3, <4>2, <4>3, <5>1 DEF Removing
      <4>5. tab'[s] = tab[s] /\ tab[s].key \in Keys
        BY <2>1, <3>1 DEF Typed, SlotType
      <4>6. tab[s].key = << m[p].name, 0 >>
        BY <4>2, <4>5, CommandsAssumption
      <4>7. QED
        BY <4>4, <4>5, <4>6 DEF Bare
    <3>4. QED
      BY <2>1, <3>2, <3>3
  <2>7. QED
    BY <2>1, <2>2, <2>5, <2>6
<1>3. QED
  BY <1>1, <1>2, Change

-----------------------------------------------------------------------------
(* Documents, while commands begin and are killed, and others go about.    *)
Documents == Numbered /\ Newest /\ Ingesting /\ Removing /\ Whole /\ Short

LEMMA MovesShort ==
  ASSUME Typed, Placed, Locked, Separate, Short, NEW p \in Procs, Moves(p)
  PROVE  Short'
<1>1. (\A q \in Procs : Pending(q)' = Pending(q)) /\ UNCHANGED d
  BY MovesSeparate DEF Moves, rest, others
<1>2. \A q \in Procs : \A c \in Pending(q)' : c.do \in Setters \ {"search"} => c.gen \notin Long
  BY <1>1 DEF Short
<1>3. ASSUME NEW r \in 1 .. Slots, tab'[r].key # NoKey, tab'[r].val.of \in Long
      PROVE  tab'[r].key[2] = 0
  <2>1. CASE UNCHANGED tab
    BY <1>3, <2>1 DEF Short
  <2>2. CASE /\ K(p)[2] = m[p].i
             /\ \E s \in 1 .. Slots : /\ \A x \in (1 .. Slots) \ {s} : tab'[x] = tab[x]
                                      /\ Marks(p, s) \/ Stores(p, s) \/ Frees(p, s)
    <3>1. PICK s \in 1 .. Slots : /\ \A x \in (1 .. Slots) \ {s} : tab'[x] = tab[x]
                                  /\ Marks(p, s) \/ Stores(p, s) \/ Frees(p, s)
      BY <2>2
    <3>2. CASE r # s
      BY <1>3, <3>1, <3>2 DEF Short
    <3>3. CASE r = s /\ Marks(p, s)
      BY <1>3, <3>3 DEF Short, Marks
    <3>4. CASE r = s /\ Stores(p, s)
      <4>1. m[p].gen \in Long /\ m[p].do \in Setters /\ tab'[r].key = K(p)
        BY <1>3, <3>4, WrittenIs DEF Stores
      <4>2. Current(p) \in Pending(p) /\ Current(p).do = m[p].do /\ Current(p).gen = m[p].gen
        BY DEF Pending, Current
      <4>3. m[p].do = "search"
        BY <4>1, <4>2 DEF Short
      <4>4. m[p].i = 0
        BY <4>3 DEF Placed, PlacedAt
      <4>5. QED
        BY <2>2, <4>1, <4>4
    <3>5. CASE r = s /\ Frees(p, s)
      BY <1>3, <3>5, FreeIs DEF Frees
    <3>6. QED
      BY <3>1, <3>2, <3>3, <3>4, <3>5
  <2>3. QED
    BY <2>1, <2>2, Change
<1>4. d'.at # "idle" /\ d'.text.of \in Long => d'.key[2] = 0
  BY <1>1 DEF Short
<1> HIDE DEF Pending
<1>5. QED
  BY <1>2, <1>3, <1>4 DEF Short

LEMMA BeginsDocuments ==
  ASSUME Typed, Separate, Documents, NEW p \in Procs, Begins(p)
  PROVE  Documents'
<1>1. /\ UNCHANGED << tab, d >> /\ \A q \in Procs : Pending(q)' \subseteq Pending(q)
      /\ \A q \in Procs \ {p} : m'[q] = m[q]
  BY BeginsSeparate DEF Begins, others
<1>2. Numbered' /\ Whole'
  BY <1>1 DEF Documents, Numbered, Whole, Announces, Chunked
<1>3. Newest' /\ Short'
  <2> HIDE DEF Pending
  <2>1. QED
    BY <1>1 DEF Documents, Newest, Short
<1>4. /\ m'[p].do = "ingest" => m'[p].pc = "set" /\ m'[p].i = 1
      /\ m'[p].do = "unset" => m'[p].i = 0
  BY DEF Begins, Current, First, Entry
<1>5. Ingesting'
  <2> SUFFICES ASSUME NEW q \in Procs, m'[q].do = "ingest", m'[q].pc # "idle", NEW i \in Through(q)'
               PROVE  \E s \in 1 .. Slots : tab'[s].key = << m'[q].name, i >> /\ tab'[s].val.of = m'[q].gen
    BY DEF Ingesting
  <2>1. q # p
    BY <1>4 DEF Through
  <2>2. m'[q] = m[q] /\ i \in Through(q)
    BY <1>1, <2>1 DEF Through
  <2>3. QED
    BY <1>1, <2>2 DEF Documents, Ingesting
<1>6. Removing'
  <2>1. ASSUME NEW q \in Procs, NEW c \in Pending(q)', c.do = "disorder"
        PROVE  Bare(c.name)'
    BY <1>1, <2>1 DEF Documents, Removing, Bare
  <2>2. ASSUME NEW q \in Procs, m'[q].do = "unset", m'[q].pc = "unset", m'[q].i > 0
        PROVE  Bare(m[q].name)'
    <3>1. q # p
      BY <1>4, <2>2
    <3>2. QED
      BY <1>1, <2>2, <3>1 DEF Documents, Removing, Bare
  <2>3. /\ \A q \in Procs : m'[q].do = "unset" /\ m'[q].pc = "unset" /\ m'[q].i > 0 => Bare(m[q].name)'
        /\ \A q \in Procs : \A c \in Pending(q)' : c.do = "disorder" => Bare(c.name)'
    BY <2>1, <2>2
  <2> HIDE DEF Pending
  <2>4. QED
    <3>1. \A q \in Procs : m'[q].do = "unset" /\ m'[q].pc = "unset" /\ m'[q].i > 0 => m'[q] = m[q]
      BY <1>1, <1>4
    <3>2. QED
      BY <2>3, <3>1 DEF Removing
<1>7. QED
  BY <1>2, <1>3, <1>5, <1>6 DEF Documents

LEMMA StopsDocuments ==
  ASSUME Typed, Separate, Documents, NEW p \in Procs, Stops(p)
  PROVE  Documents'
<1>1. /\ UNCHANGED << tab, d >> /\ \A q \in Procs : \A c \in Pending(q)' : c \in Pending(q) \/ c.do = "none"
      /\ \A q \in Procs \ {p} : m'[q] = m[q]
      /\ m'[p].do = "none"
  BY StopsSeparate DEF Stops
<1>2. Numbered' /\ Whole'
  BY <1>1 DEF Documents, Numbered, Whole, Announces, Chunked
<1>3. Newest' /\ Short'
  <2>1. "none" \notin Setters
    BY DEF Setters
  <2> HIDE DEF Pending
  <2>2. QED
    BY <1>1, <2>1 DEF Documents, Newest, Short
<1>4. Ingesting'
  <2> SUFFICES ASSUME NEW q \in Procs, m'[q].do = "ingest", m'[q].pc # "idle", NEW i \in Through(q)'
               PROVE  \E s \in 1 .. Slots : tab'[s].key = << m'[q].name, i >> /\ tab'[s].val.of = m'[q].gen
    BY DEF Ingesting
  <2>1. m'[q] = m[q] /\ i \in Through(q)
    BY <1>1 DEF Through
  <2>2. QED
    BY <1>1, <2>1 DEF Documents, Ingesting
<1>5. Removing'
  <2>1. ASSUME NEW q \in Procs, NEW c \in Pending(q)', c.do = "disorder"
        PROVE  Bare(c.name)'
    BY <1>1, <2>1 DEF Documents, Removing, Bare
  <2>2. ASSUME NEW q \in Procs, m'[q].do = "unset", m'[q].pc = "unset", m'[q].i > 0
        PROVE  Bare(m[q].name)'
    <3>1. m'[q] = m[q]
      BY <1>1, <2>2
    <3>2. QED
      BY <1>1, <2>2, <3>1 DEF Documents, Removing, Bare
  <2>3. /\ \A q \in Procs : m'[q].do = "unset" /\ m'[q].pc = "unset" /\ m'[q].i > 0 => m'[q] = m[q] /\ Bare(m[q].name)'
        /\ \A q \in Procs : \A c \in Pending(q)' : c.do = "disorder" => Bare(c.name)'
    BY <1>1, <2>1, <2>2
  <2> HIDE DEF Pending
  <2>4. QED
    BY <2>3 DEF Removing
<1>6. QED
  BY <1>2, <1>3, <1>4, <1>5 DEF Documents

(* The daemon's diagnostic in a slot: it stands in no chunk's place. *)
Spoils(s, k) ==
  /\ k # NoKey /\ k[2] = 0 /\ tab[s].key \in {NoKey, k} /\ tab'[s].key \in {NoKey, k}
  /\ tab[s].key # NoKey => tab'[s].key = tab[s].key
  /\ tab'[s].val = Excuse

LEMMA ElseDocuments ==
  ASSUME Typed, Typed', Placed, Separate, Documents, UNCHANGED << m, todo >>, NEW k,
         \A s \in 1 .. Slots : (tab'[s].key = tab[s].key /\ tab'[s].val = tab[s].val) \/ Spoils(s, k),
         d'.at # "idle" /\ d'.text.of \in Long => d'.key[2] = 0
  PROVE  Separate' /\ Documents'
<1> DEFINE Alike(s) == tab'[s].key = tab[s].key /\ tab'[s].val = tab[s].val
<1>1. Excuse.of = 0 /\ Excuse.of \notin Long
  BY CommandsAssumption DEF Excuse
<1>2. Separate' /\ \A q \in Procs : Pending(q)' = Pending(q)
  BY TouchesSeparate
<1>3. ASSUME NEW s \in 1 .. Slots, tab[s].key # NoKey, tab[s].key[2] # 0
      PROVE  Alike(s)
  BY <1>3 DEF Spoils
<1>4. Numbered'
  <2> SUFFICES ASSUME NEW s \in 1 .. Slots, tab'[s].key # NoKey, tab'[s].key[2] > 0
               PROVE  tab'[s].val.n = tab'[s].key[2]
    BY DEF Numbered
  <2>1. Alike(s)
    BY DEF Spoils
  <2>2. QED
    BY <2>1 DEF Documents, Numbered
<1>5. Newest'
  <2> SUFFICES ASSUME NEW q \in Procs, NEW c \in Pending(q), c.do \in Setters,
                      NEW s \in 1 .. Slots, tab'[s].key # NoKey, tab'[s].key[1] = c.name
               PROVE  tab'[s].val.of <= c.gen
    <3> HIDE DEF Pending
    <3>1. QED
      BY <1>2 DEF Newest
  <2>1. CASE Alike(s)
    BY <2>1 DEF Documents, Newest
  <2>2. CASE Spoils(s, k)
    <3>1. c.gen \in Nat
      <4>1. CASE c = Current(q)
        BY <4>1 DEF Current, Typed, Local
      <4>2. CASE \E j \in DOMAIN todo[q] : c = todo[q][j]
        <5>1. todo[q] \in Seq(Command)
          BY DEF Typed
        <5>2. c \in Command
          BY <4>2, <5>1
        <5>3. QED
          BY <5>2 DEF Command
      <4>3. QED
        BY <4>1, <4>2 DEF Pending
    <3>2. QED
      BY <1>1, <2>2, <3>1 DEF Spoils
  <2>3. QED
    BY <2>1, <2>2
<1>6. Ingesting'
  <2> SUFFICES ASSUME NEW q \in Procs, m[q].do = "ingest", m[q].pc # "idle", NEW i \in Through(q)
               PROVE  \E s \in 1 .. Slots : tab'[s].key = << m[q].name, i >> /\ tab'[s].val.of = m[q].gen
    BY DEF Ingesting, Through
  <2>1. PICK s \in 1 .. Slots : tab[s].key = << m[q].name, i >> /\ tab[s].val.of = m[q].gen
    BY DEF Documents, Ingesting
  <2>2. tab[s].key # NoKey /\ tab[s].key[2] # 0
    <3>1. i \in Nat /\ i > 0 /\ << m[q].name, i >> # NoKey
      BY ThroughKeys DEF Placed
    <3>2. QED
      BY <2>1, <3>1
  <2>3. QED
    BY <1>3, <2>1, <2>2
<1>7. Removing'
  <2>1. ASSUME NEW x, Bare(x)
        PROVE  Bare(x)'
    <3> SUFFICES ASSUME NEW s \in 1 .. Slots, tab'[s].key # NoKey, tab'[s].key = << x, 0 >>
                 PROVE  tab'[s].val.n = 0 \/ tab'[s].val.of = 0
      BY DEF Bare
    <3>1. CASE Alike(s)
      BY <2>1, <3>1 DEF Bare
    <3>2. CASE Spoils(s, k)
      BY <1>1, <3>2 DEF Spoils
    <3>3. QED
      BY <3>1, <3>2
  <2>2. ASSUME NEW q \in Procs, NEW c \in Pending(q)', c.do = "disorder"
        PROVE  Bare(c.name)'
    BY <1>2, <2>1, <2>2 DEF Documents, Removing
  <2>3. ASSUME NEW q \in Procs, m'[q].do = "unset", m'[q].pc = "unset", m'[q].i > 0
        PROVE  Bare(m[q].name)'
    <3>1. PICK x : x = m[q].name
      OBVIOUS
    <3>2. Bare(x)
      BY <2>3, <3>1 DEF Documents, Removing
    <3>3. Bare(x)'
      BY <2>1, <3>2
    <3>4. QED
      BY <3>1, <3>3 DEF Bare
  <2>4. /\ \A q \in Procs : m'[q].do = "unset" /\ m'[q].pc = "unset" /\ m'[q].i > 0 => Bare(m[q].name)'
        /\ \A q \in Procs : \A c \in Pending(q)' : c.do = "disorder" => Bare(c.name)'
    BY <2>2, <2>3
  <2> HIDE DEF Pending
  <2>5. QED
    BY <2>4 DEF Removing
<1>8. Whole'
  <2> SUFFICES ASSUME NEW s \in 1 .. Slots, Announces(s)', NEW i \in 1 .. tab'[s].val.n
               PROVE  Chunked(s, i)'
    BY DEF Whole
  <2>1. Alike(s)
    BY <1>1 DEF Announces, Spoils
  <2>2. PICK r \in 1 .. Slots : /\ tab[r].key = << tab[s].key[1], i >> /\ tab[r].key # NoKey
                                /\ tab[r].val.n = i /\ tab[r].val.of >= tab[s].val.of
    BY <2>1 DEF Documents, Whole, Announces, Chunked
  <2>3. tab'[s].val.n \in Nat
    BY <2>1, SlotIs DEF Version
  <2>4. tab[r].key[2] # 0
    BY <2>2, <2>3
  <2>5. Alike(r)
    BY <1>3, <2>2, <2>4
  <2>6. QED
    BY <2>1, <2>2, <2>5 DEF Chunked
<1>9. Short'
  <2>1. \A q \in Procs : \A c \in Pending(q)' : c.do \in Setters \ {"search"} => c.gen \notin Long
    BY <1>2 DEF Documents, Short
  <2>2. \A s \in 1 .. Slots : tab'[s].key # NoKey /\ tab'[s].val.of \in Long => tab'[s].key[2] = 0
    BY <1>1 DEF Documents, Short, Spoils
  <2> HIDE DEF Pending
  <2>3. QED
    BY <2>1, <2>2 DEF Short
<1>10. QED
  BY <1>2, <1>4, <1>5, <1>6, <1>7, <1>8, <1>9 DEF Documents

LEMMA TouchesDocuments ==
  ASSUME Typed, Typed', Placed, Separate, Documents, Touches,
         d'.at # "idle" /\ d'.text.of \in Long => d'.key[2] = 0
  PROVE  Separate' /\ Documents'
<1>1. \A s \in 1 .. Slots : tab'[s].key = tab[s].key /\ tab'[s].val = tab[s].val
  BY DEF Touches
<1>2. UNCHANGED << m, todo >>
  BY DEF Touches
<1>3. QED
  BY <1>1, <1>2, ElseDocuments

LEMMA StampsDocuments ==
  ASSUME Typed, Placed, Locked, Separate, Documents, StampOpen \/ StampLink
  PROVE  Separate' /\ Documents'
<1>1. CASE StampOpen
  <2>1. /\ Typed' /\ d.at = "stamp" /\ d.key \in Keys /\ UNCHANGED << m, todo >>
        /\ \/ d' = Away /\ Still
           \/ \E s \in 1 .. Slots : StampOpens(s) /\ Only(s)
    BY <1>1, StampOpenIs DEF unembedded
  <2>2. d.key[2] = 0 /\ d.key # NoKey
    BY <2>1, CommandsAssumption DEF Typed, Documents, Short
  <2>3. CASE d' = Away /\ Still
    BY <2>1, <2>3, ElseDocuments, AwayIs DEF Still
  <2>4. CASE \E s \in 1 .. Slots : StampOpens(s) /\ Only(s)
    <3>1. PICK s \in 1 .. Slots : StampOpens(s) /\ Only(s)
      BY <2>4
    <3>2. Spoils(s, d.key) /\ d'.key = d.key
      BY <2>2, <3>1 DEF StampOpens, Spoils
    <3>3. \A r \in 1 .. Slots : (tab'[r].key = tab[r].key /\ tab'[r].val = tab[r].val) \/ Spoils(r, d.key)
      BY <3>1, <3>2 DEF Only
    <3>4. PICK k : k = d.key
      OBVIOUS
    <3>5. QED
      BY <2>1, <2>2, <3>2, <3>3, <3>4, ElseDocuments
  <2>5. QED
    BY <2>1, <2>3, <2>4
<1>2. CASE StampLink
  <2>1. /\ Typed' /\ d.at = "link" /\ d.key \in Keys /\ UNCHANGED << m, todo >> /\ d.s \in 1 .. Slots
        /\ StampLinks(d.s) /\ Only(d.s)
    BY <1>2, StampLinkIs DEF unembedded
  <2>2. d.key[2] = 0 /\ d.key # NoKey
    BY <2>1, CommandsAssumption DEF Typed, Documents, Short
  <2>3. tab[d.s].key \in {NoKey, d.key} /\ tab[d.s].val = Excuse
    BY <2>1 DEF Locked, Busied, Taken
  <2>4. Spoils(d.s, d.key) /\ d'.key = d.key
    BY <2>1, <2>2, <2>3 DEF StampLinks, Spoils
  <2>5. \A r \in 1 .. Slots : (tab'[r].key = tab[r].key /\ tab'[r].val = tab[r].val) \/ Spoils(r, d.key)
    BY <2>1, <2>4 DEF Only
  <2>6. PICK k : k = d.key
    OBVIOUS
  <2>7. QED
    BY <2>1, <2>2, <2>4, <2>5, <2>6, ElseDocuments
<1>3. QED
  BY <1>1, <1>2

(* The part of every invariant that says who is where. *)
LEMMA BaseStep ==
  ASSUME Base, [CommandsNext]_commandVars
  PROVE  Base'
<1> USE DEF Base
<1>1. ASSUME NEW p \in Procs, Steps(p) \/ Leave(p)
      PROVE  Base'
  <2>1. Moves(p)
    BY <1>1, MovesAre DEF Placed
  <2>2. QED
    BY <2>1, MovesTyped, MovesLocked, MovesSeparate
<1>2. ASSUME NEW p \in Procs, Start(p)
      PROVE  Base'
  BY <1>2, StartIs, BeginsTyped, BeginsLocked, BeginsSeparate
<1>3. ASSUME NEW p \in Procs, Kill(p)
      PROVE  Base'
  BY <1>3, KillIs, StopsTyped, BeginsLocked, StopsSeparate
<1>4. ASSUME NEW s \in 1 .. Slots, Hold(s)
      PROVE  Base'
  BY <1>4, HoldIs, HoldLocked, TouchesSeparate DEF Handles, Touches
<1>5. ASSUME NEW s \in 1 .. Slots, Release(s)
      PROVE  Base'
  BY <1>5, ReleaseIs, ReleaseLocked, TouchesSeparate DEF Handles, Touches
<1>6. CASE EmbedRead
  BY <1>6, EmbedReadIs, EmbedReadLocked, TouchesSeparate DEF Touches
<1>7. CASE EmbedOpen
  BY <1>7, EmbedOpenIs, EmbedOpenLocked, TouchesSeparate DEF Touches
<1>8. CASE EmbedClose
  BY <1>8, EmbedCloseIs, EmbedCloseLocked, TouchesSeparate DEF Touches
<1>9. CASE StampOpen
  BY <1>9, StampOpenIs, StampOpenLocked, TouchesSeparate DEF unembedded
<1>10. CASE StampLink
  BY <1>10, StampLinkIs, StampLinkLocked, TouchesSeparate DEF unembedded
<1>11. CASE StampBump
  BY <1>11, StampBumpIs, StampBumpLocked, TouchesSeparate DEF Touches
<1>12. CASE UNCHANGED commandVars
  <2>1. UNCHANGED << tab, m, d, held, todo, stood >>
    BY <1>12 DEF commandVars
  <2>2. Typed' /\ Placed' /\ Separate'
    BY <2>1, SamePlaced, TouchesSeparate DEF Typed
  <2>3. Busied'
    BY <2>1 DEF Locked, Busied, Taken
  <2>4. Locked'
    <3>1. \A q \in Procs : m[q].pc = "link" => Steady(m[q].s) /\ m[q].s \notin held
      BY <2>1, LinkerIs DEF Steady
    <3>2. \A q \in Procs : m[q].pc = "link" => (d.at \in {"commit", "link"} => d.s # m[q].s)
      BY DEF Locked, LockedAt
    <3>3. QED
      BY <2>1, <2>3, <3>1, <3>2, ElseLocked
  <2>5. QED
    BY <2>2, <2>4
<1>13. QED
  BY <1>1, <1>2, <1>3, <1>4, <1>5, <1>6, <1>7, <1>8, <1>9, <1>10, <1>11, <1>12 DEF CommandsNext

LEMMA IngestStep ==
  ASSUME IngestInv, Once, [CommandsNext]_commandVars
  PROVE  IngestInv'
<1>1. Base' /\ Typed /\ Placed /\ Locked /\ Separate /\ Typed' /\ Documents
  BY BaseStep DEF IngestInv, Base, Documents
<1> SUFFICES Documents'
  BY <1>1 DEF IngestInv, Documents
<1>2. ASSUME NEW p \in Procs, Steps(p) \/ Leave(p)
      PROVE  Documents'
  <2>1. Moves(p) /\ Course(p)
    BY <1>1, <1>2, MovesAre, CourseIs DEF Placed
  <2>2. QED
    BY <1>1, <2>1, MovesNumbered, MovesNewest, MovesIngesting, MovesRemoving, MovesOrder, MovesShort DEF Documents
<1>3. ASSUME NEW p \in Procs, Start(p)
      PROVE  Documents'
  BY <1>1, <1>3, StartIs, BeginsDocuments
<1>4. ASSUME NEW p \in Procs, Kill(p)
      PROVE  Documents'
  BY <1>1, <1>4, KillIs, StopsDocuments
<1>5. ASSUME Touches, UNCHANGED d \/ d' = Away \/ (d'.key = d.key /\ d'.text = d.text /\ d.at # "idle")
      PROVE  Documents'
  <2>1. d'.at # "idle" /\ d'.text.of \in Long => d'.key[2] = 0
    BY <1>1, <1>5, AwayIs DEF Documents, Short
  <2>2. QED
    BY <1>1, <1>5, <2>1, TouchesDocuments
<1>6. ASSUME NEW s \in 1 .. Slots, Hold(s) \/ Release(s)
      PROVE  Documents'
  BY <1>1, <1>5, <1>6, HoldIs, ReleaseIs DEF Handles
<1>7. CASE EmbedRead
  <2>1. PICK s \in 1 .. Slots : d'.key = tab[s].key /\ d'.text = tab[s].val
    BY <1>1, <1>7, EmbedReadIs
  <2>2. Touches /\ d'.key # NoKey
    BY <1>1, <1>7, EmbedReadIs, CommandsAssumption
  <2>3. d'.text.of \in Long => d'.key[2] = 0
    BY <1>1, <2>1, <2>2 DEF Documents, Short
  <2>4. QED
    BY <1>1, <2>2, <2>3, TouchesDocuments
<1>8. CASE EmbedOpen \/ EmbedClose \/ StampBump
  BY <1>1, <1>5, <1>8, EmbedOpenIs, EmbedCloseIs, StampBumpIs
<1>9. CASE StampOpen \/ StampLink
  BY <1>1, <1>9, StampsDocuments
<1>10. CASE UNCHANGED commandVars
  BY <1>1, <1>5, <1>10 DEF commandVars, Touches
<1>11. QED
  BY <1>2, <1>3, <1>4, <1>6, <1>7, <1>8, <1>9, <1>10 DEF CommandsNext

-----------------------------------------------------------------------------
(* How it begins. *)
LEMMA BegunIs ==
  ASSUME NEW c, c.keys \in [1 .. Slots -> Keys \cup {NoKey}], NEW s \in 1 .. Slots, c.keys[s] # NoKey
  PROVE  /\ Begun(c, c.keys[s]) \in Nat
         /\ c.keys[s][2] > 0 \/ c.keys[s][1] \notin c.whole => Begun(c, c.keys[s]) = c.keys[s][2]
<1> DEFINE k == c.keys[s]
           T == {r \in 1 .. Slots : c.keys[r] # NoKey /\ c.keys[r][1] = k[1]}
<1>1. k \in Keys /\ k[2] \in Nat /\ Slots \in Nat
  BY CommandsAssumption
<1>2. IsFiniteSet(T) /\ Cardinality(T) \in Nat
  <2>1. IsFiniteSet(1 .. Slots) /\ T \subseteq 1 .. Slots
    BY <1>1, FS_Interval
  <2> HIDE DEF T
  <2>2. IsFiniteSet(T)
    BY <2>1, FS_Subset
  <2>3. QED
    BY <2>2, FS_CardinalityType
<1>3. Cardinality(T) # 0
  <2>1. s \in T
    OBVIOUS
  <2> HIDE DEF T
  <2>2. QED
    BY <1>2, <2>1, FS_EmptySet
<1>4. Cardinality(T) - 1 \in Nat
  BY <1>2, <1>3
<1>5. Begun(c, k) = IF k[2] > 0 \/ k[1] \notin c.whole THEN k[2] ELSE Cardinality(T) - 1
  BY DEF Begun, Quantify
<1> HIDE DEF T
<1>6. QED
  BY <1>1, <1>4, <1>5

(* What every scene begins with. *)
Opened(c) ==
  /\ todo = c.todo /\ m = [p \in Procs |-> Idle] /\ d = Away /\ held = {} /\ swept = {}
  /\ holds = c.holds /\ embeds = c.embeds
  /\ \A s \in 1 .. Slots :
       /\ tab[s].key = c.keys[s] /\ ~ tab[s].hid /\ ~ Odd(tab[s].epoch) /\ tab[s].vec = Nothing
       /\ c.keys[s] # NoKey => tab[s].val.of = 1 /\ tab[s].val.n = Begun(c, c.keys[s])
       /\ c.keys[s] = NoKey => tab[s].val.n = 0
  /\ \A p \in Procs : m[p].do = "none" /\ m[p].pc = "idle" /\ Current(p).do = "none" /\ ~ m[p].got /\ stood[p] = {}
  /\ \A p \in Procs : \A e \in Pending(p) : e.do = "none" \/ \E j \in DOMAIN todo[p] : e = todo[p][j]

LEMMA OpenedIs ==
  ASSUME Sorted, CommandsInit
  PROVE  Base /\ \E c \in Scenes : Opened(c)
<1>1. PICK c \in Scenes :
        /\ tab = [s \in 1 .. Slots |-> IF c.keys[s] = NoKey THEN Free
                                       ELSE [Free EXCEPT !.key = c.keys[s], !.val = [of |-> 1, n |-> Begun(c, c.keys[s])]]]
        /\ todo = c.todo /\ m = [p \in Procs |-> Idle] /\ d = Away /\ stood = [p \in Procs |-> {}]
        /\ held = {} /\ swept = {} /\ holds = c.holds /\ embeds = c.embeds
  BY DEF CommandsInit
<1>2. /\ c.keys \in [1 .. Slots -> Keys \cup {NoKey}] /\ todo \in [Procs -> Seq(Command)]
      /\ \A p, q \in Procs : p # q =>
           \A i \in DOMAIN todo[p], j \in DOMAIN todo[q] : Apart(todo[p][i], todo[q][j])
      /\ \A p \in Procs : \A j \in DOMAIN todo[p] : \A i \in 1 .. j - 1 : InTurn(todo[p][i], todo[p][j])
  BY <1>1 DEF Sorted
<1>3. ASSUME NEW s \in 1 .. Slots
      PROVE  /\ tab[s] \in SlotType
             /\ tab[s].key = c.keys[s] /\ ~ tab[s].hid /\ ~ Odd(tab[s].epoch) /\ tab[s].vec = Nothing
             /\ c.keys[s] # NoKey => tab[s].val.of = 1 /\ tab[s].val.n = Begun(c, c.keys[s])
             /\ c.keys[s] = NoKey => tab[s].val.n = 0
  <2>1. CASE c.keys[s] = NoKey
    <3>1. tab[s] = Free
      BY <1>1, <2>1
    <3>2. QED
      BY <2>1, <3>1, Plain, FreeIs
  <2>2. CASE c.keys[s] # NoKey
    <3> DEFINE v == [of |-> 1, n |-> Begun(c, c.keys[s])]
    <3>1. v \in Version /\ v.of = 1 /\ v.n = Begun(c, c.keys[s])
      BY <1>2, <2>2, BegunIs DEF Version
    <3>2. tab[s] = [Free EXCEPT !.key = c.keys[s], !.val = v]
      BY <1>1, <2>2
    <3> HIDE DEF v
    <3>3. /\ tab[s] \in SlotType /\ tab[s].key = c.keys[s] /\ tab[s].val = v /\ tab[s].hid = Free.hid
          /\ tab[s].epoch = Free.epoch /\ tab[s].vec = Free.vec
      <4>1. c.keys[s] \in Keys /\ v \in Version
        BY <1>2, <2>2, <3>1
      <4>2. Free \in SlotType
        BY Plain
      <4>3. QED
        BY <3>2, <4>1, <4>2 DEF SlotType
    <3>4. QED
      BY <2>2, <3>1, <3>3, FreeIs
  <2>3. QED
    BY <2>1, <2>2
<1>4. Typed
  <2>1. tab \in [1 .. Slots -> SlotType]
    BY <1>1, <1>3
  <2>2. m \in [Procs -> Local]
    BY <1>1, Idles
  <2>3. d \in DaemonType /\ d.at = "idle"
    BY <1>1, AwayIs
  <2>4. QED
    BY <1>1, <1>2, <2>1, <2>2, <2>3 DEF Typed
<1>5. \A p \in Procs : m[p].do = "none" /\ m[p].pc = "idle" /\ Current(p).do = "none" /\ ~ m[p].got
  BY <1>1, Idles DEF Current
<1>6. Placed
  BY <1>5 DEF Placed, PlacedAt
<1>7. \A p \in Procs : \A e \in Pending(p) : e.do = "none" \/ \E j \in DOMAIN todo[p] : e = todo[p][j]
  BY <1>5 DEF Pending
<1>8. ASSUME NEW e, NEW f, e.do = "none"
      PROVE  Apart(e, f) /\ Apart(f, e) /\ InTurn(e, f)
  BY <1>8 DEF Apart, InTurn, Writers, Setters
<1>9. Separate
  <2>1. ASSUME NEW p \in Procs, NEW q \in Procs, p # q, NEW e \in Pending(p), NEW f \in Pending(q)
        PROVE  Apart(e, f)
    BY <1>2, <1>7, <1>8, <2>1
  <2>2. ASSUME NEW p \in Procs, NEW j \in DOMAIN todo[p]
        PROVE  InTurn(Current(p), todo[p][j]) /\ \A i \in 1 .. j - 1 : InTurn(todo[p][i], todo[p][j])
    BY <1>2, <1>5, <1>8
  <2>3. QED
    BY <2>1, <2>2 DEF Separate
<1>10. Locked
  <2>1. d.at = "idle"
    BY <1>1, AwayIs
  <2>2. QED
    BY <1>1, <1>3, <1>5, <2>1 DEF Locked, LockedAt, Busied
<1>11. Opened(c)
  BY <1>1, <1>3, <1>5, <1>7 DEF Opened
<1>12. QED
  BY <1>4, <1>6, <1>9, <1>10, <1>11 DEF Base

LEMMA IngestInit ==
  ASSUME Sorted, CommandsInit
  PROVE  IngestInv
<1>1. PICK c \in Scenes : Opened(c)
  BY OpenedIs
<1>2. Base
  BY OpenedIs
<1>3. /\ c.keys \in [1 .. Slots -> Keys \cup {NoKey}] /\ todo \in [Procs -> Seq(Command)]
      /\ \A k \in Stocked(c) : \A i \in 1 .. Begun(c, k) : k[2] = 0 => << k[1], i >> \in Stocked(c)
      /\ \A p \in Procs : \A j \in DOMAIN todo[p] :
           /\ todo[p][j].do \in Setters => todo[p][j].gen > 0
           /\ todo[p][j].do = "disorder" => todo[p][j].name \notin c.whole
           /\ todo[p][j].do \in Setters \ {"search"} => todo[p][j].gen \notin Long
  BY <1>1 DEF Sorted, Opened
<1>4. \A s \in 1 .. Slots : /\ tab[s].key = c.keys[s]
                            /\ c.keys[s] # NoKey => tab[s].val.of = 1 /\ tab[s].val.n = Begun(c, c.keys[s])
  BY <1>1 DEF Opened
<1>5. \A p \in Procs : m[p].do = "none" /\ m[p].pc = "idle"
  BY <1>1 DEF Opened
<1>6. \A p \in Procs : \A e \in Pending(p) : e.do = "none" \/ \E j \in DOMAIN todo[p] : e = todo[p][j]
  BY <1>1 DEF Opened
<1>7. Numbered
  BY <1>3, <1>4, BegunIs DEF Numbered
<1>8. Newest
  <2> SUFFICES ASSUME NEW p \in Procs, NEW e \in Pending(p), e.do \in Setters,
                      NEW s \in 1 .. Slots, tab[s].key # NoKey
               PROVE  tab[s].val.of <= e.gen
    BY DEF Newest
  <2>1. PICK j \in DOMAIN todo[p] : e = todo[p][j]
    BY <1>6 DEF Setters
  <2>2. e.gen > 0 /\ e \in Command
    BY <1>3, <2>1
  <2>3. e.gen \in Nat
    BY <2>2 DEF Command
  <2>4. QED
    BY <1>4, <2>2, <2>3
<1>9. Ingesting
  BY <1>5 DEF Ingesting
<1>10. Removing
  <2>1. ASSUME NEW p \in Procs, NEW e \in Pending(p), e.do = "disorder"
        PROVE  Bare(e.name)
    <3>1. PICK j \in DOMAIN todo[p] : e = todo[p][j]
      BY <1>6, <2>1
    <3>2. e.name \notin c.whole
      BY <1>3, <2>1, <3>1
    <3>3. ASSUME NEW s \in 1 .. Slots, tab[s].key # NoKey, tab[s].key = << e.name, 0 >>
          PROVE  tab[s].val.n = 0
      <4>1. c.keys[s] = << e.name, 0 >> /\ c.keys[s][1] = e.name /\ c.keys[s][2] = 0
        BY <1>4, <3>3
      <4>2. QED
        BY <1>3, <1>4, <3>2, <3>3, <4>1, BegunIs
    <3>4. QED
      BY <3>3 DEF Bare
  <2>2. QED
    BY <1>5, <2>1 DEF Removing
<1>11. Whole
  <2> SUFFICES ASSUME NEW s \in 1 .. Slots, Announces(s), NEW i \in 1 .. tab[s].val.n
               PROVE  Chunked(s, i)
    BY DEF Whole
  <2>1. c.keys[s] # NoKey /\ c.keys[s][2] = 0 /\ i \in 1 .. Begun(c, c.keys[s]) /\ tab[s].val.of = 1
        /\ tab[s].key = c.keys[s]
    BY <1>4 DEF Announces
  <2>2. PICK r \in 1 .. Slots : c.keys[r] = << c.keys[s][1], i >> /\ c.keys[r] # NoKey
    <3>1. << c.keys[s][1], i >> \in Stocked(c)
      BY <1>3, <2>1 DEF Stocked
    <3>2. QED
      BY <3>1 DEF Stocked
  <2>3. i \in Nat /\ i > 0
    BY <1>3, <2>1, BegunIs
  <2>4. tab[r].key = << c.keys[s][1], i >> /\ tab[r].key[2] = i /\ tab[r].key # NoKey
    <3>1. tab[r].key = c.keys[r]
      BY <1>4
    <3>2. QED
      BY <2>2, <3>1
  <2>5. tab[r].val.n = i /\ tab[r].val.of = 1
    <3>1. c.keys[r][2] > 0 /\ c.keys[r][2] = i
      BY <2>2, <2>3
    <3>2. Begun(c, c.keys[r]) = i
      BY <1>3, <2>2, <3>1, BegunIs
    <3>3. QED
      BY <1>4, <2>2, <3>2
  <2>6. tab[r].key = << tab[s].key[1], i >> /\ tab[r].val.of >= tab[s].val.of
    BY <2>1, <2>4, <2>5
  <2>7. QED
    BY <2>4, <2>5, <2>6 DEF Chunked
<1>12. Short
  <2>1. ASSUME NEW p \in Procs, NEW e \in Pending(p), e.do \in Setters \ {"search"}
        PROVE  e.gen \notin Long
    <3>1. PICK j \in DOMAIN todo[p] : e = todo[p][j]
      BY <1>6, <2>1 DEF Setters
    <3>2. QED
      BY <1>3, <2>1, <3>1
  <2>2. d.at = "idle" /\ 1 \notin Long
    BY <1>1, AwayIs, CommandsAssumption DEF Opened
  <2>3. \A s \in 1 .. Slots : tab[s].key # NoKey => tab[s].val.of \notin Long
    BY <1>4, <2>2
  <2> HIDE DEF Pending
  <2>4. QED
    BY <2>1, <2>2, <2>3 DEF Short
<1>13. QED
  BY <1>2, <1>7, <1>8, <1>9, <1>10, <1>11, <1>12 DEF IngestInv

(* Metadata that announces n chunks of a document stands only where every  *)
(* one of them has its slot, with a text at least as new: cmd_ingest       *)
(* writes it last and unset -r takes it away first, whatever fails,        *)
(* wherever either is killed, inside a set too, and whatever other         *)
(* commands, clients and the embedding daemon do meanwhile.                *)
THEOREM IngestOrdered ==
  ASSUME Sorted
  PROVE  CommandsSpec /\ []Once => []IngestOrder
<1>1. CommandsInit => IngestInv
  BY IngestInit
<1>2. IngestInv /\ Once /\ [CommandsNext]_commandVars => IngestInv'
  BY IngestStep
<1>3. IngestInv => IngestOrder
  BY DEF IngestInv, Whole, Announces, Chunked, IngestOrder
<1>4. QED
  BY <1>1, <1>2, <1>3, PTL DEF CommandsSpec

-----------------------------------------------------------------------------
(* What a list keeps. *)
LEMMA StoodStays ==
  ASSUME Kept, Once, Once', NEW p \in Procs, stood'[p] \subseteq stood[p],
         UNCHANGED tab \/ \E x \in 1 .. Slots : Only(x),
         NEW s \in 1 .. Slots, tab'[s].key \in stood'[p]
  PROVE  tab[s].key = tab'[s].key /\ tab[s].key \in stood[p]
<1>1. CASE UNCHANGED tab
  BY <1>1
<1>2. CASE \E x \in 1 .. Slots : Only(x)
  <2>1. PICK x \in 1 .. Slots : \A r \in (1 .. Slots) \ {x} : tab'[r] = tab[r]
    BY <1>2 DEF Only
  <2>2. tab'[s].key \in stood[p]
    OBVIOUS
  <2>3. PICK r \in 1 .. Slots : tab[r].key = tab'[s].key /\ tab[r].key # NoKey
    BY <2>2 DEF Kept, Standing
  <2>4. CASE r = s
    BY <2>2, <2>3, <2>4
  <2>5. CASE r # s
    <3>1. CASE r # x
      <4>1. tab'[r].key = tab'[s].key /\ tab'[r].key # NoKey
        BY <2>1, <2>3, <3>1
      <4>2. QED
        BY <2>5, <4>1 DEF Once
    <3>2. CASE r = x
      <4>1. tab[s].key = tab[r].key
        BY <2>1, <2>3, <2>5, <3>2
      <4>2. QED
        BY <2>3, <2>5, <4>1 DEF Once
    <3>3. QED
      BY <3>1, <3>2
  <2>6. QED
    BY <2>4, <2>5
<1>3. QED
  BY <1>1, <1>2

(* A key that has stood is in one slot, and legible there. *)
LEMMA StoodIs ==
  ASSUME Typed, Kept, Once, NEW p \in Procs, NEW s \in 1 .. Slots, tab[s].key \in stood[p]
  PROVE  /\ tab[s].key # NoKey /\ tab[s].key \in Keys /\ ~ tab[s].hid
         /\ \A r \in 1 .. Slots : tab[r].key = tab[s].key => r = s
<1>1. tab[s].key \in Keys /\ tab[s].key # NoKey
  BY CommandsAssumption DEF Typed
<1>2. PICK r \in 1 .. Slots : tab[r].key = tab[s].key /\ ~ tab[r].hid
  BY DEF Kept, Standing
<1>3. \A x \in 1 .. Slots : tab[x].key = tab[s].key => x = s
  BY <1>1 DEF Once
<1>4. QED
  BY <1>1, <1>2, <1>3

LEMMA ListedElsewhere ==
  ASSUME NEW p \in Procs, m'[p] = m[p], ListedAt(p),
         \A s \in 1 .. Slots : tab'[s].key \in stood'[p] => tab[s].key = tab'[s].key /\ tab[s].key \in stood[p]
  PROVE  ListedAt(p)'
<1>1. ASSUME NEW s \in 1 .. Slots, tab[s].key = tab'[s].key
      PROVE  /\ Pointed(p, s)' <=> Pointed(p, s)
             /\ Hidden(p, tab[s].key)' <=> Hidden(p, tab[s].key)
             /\ Shows(p, tab[s].key)' <=> Shows(p, tab[s].key)
             /\ AheadAt(p, s)' <=> AheadAt(p, s)
  BY <1>1 DEF Pointed, Hidden, Shows, AheadAt
<1>2. QED
  BY <1>1 DEF ListedAt

LEMMA CollectListed ==
  ASSUME Typed, Kept, NEW p \in Procs, PlacedAt(p), Collect(p), ListedAt(p)
  PROVE  ListedAt(p)'
<1> DEFINE y == m[p].x + 1
           g == m[p].names
           h == m'[p].names
<1>1. /\ Reads(p) /\ Same(p) /\ m[p].pc = "collect" /\ y \in 1 .. Slots
      /\ m'[p].x = (IF y < Slots THEN y ELSE 0) /\ m'[p].pc = (IF y < Slots THEN "collect" ELSE "rows")
      /\ h = (IF tab[y].key # NoKey THEN Append(g, y) ELSE g)
  BY CollectIs
<1>2. UNCHANGED << tab, stood >> /\ m'[p].do = m[p].do /\ m'[p].rows = m[p].rows
  BY <1>1 DEF Reads, Same, Still, Goes
<1>3. g \in Seq(1 .. Slots) /\ m[p].x \in Nat /\ Slots \in Nat
  BY CommandsAssumption DEF Typed, Local
<1>4. /\ DOMAIN g = 1 .. Len(g) /\ Len(g) \in Nat
      /\ tab[y].key # NoKey => /\ DOMAIN h = 1 .. Len(g) + 1 /\ h[Len(g) + 1] = y
                               /\ \A i \in 1 .. Len(g) : h[i] = g[i]
  <2>1. Append(g, y) \in Seq(1 .. Slots) /\ Len(Append(g, y)) = Len(g) + 1
        /\ Append(g, y)[Len(g) + 1] = y /\ \A i \in 1 .. Len(g) : Append(g, y)[i] = g[i]
    BY <1>1, <1>3, SeqIs
  <2>2. DOMAIN Append(g, y) = 1 .. Len(g) + 1
    BY <2>1, SeqIs
  <2>3. QED
    BY <1>1, <1>3, <2>1, <2>2, SeqIs
<1> SUFFICES ASSUME m[p].do \in Listing
             PROVE  ListedAt(p)'
  BY <1>2 DEF ListedAt
<1>5. /\ \A i, j \in DOMAIN g : g[i] = g[j] => i = j
      /\ \A i \in DOMAIN g : g[i] <= m[p].x
      /\ \A s \in 1 .. Slots : tab[s].key \in stood[p] =>
           Hidden(p, tab[s].key) /\ (Pointed(p, s) <=> s <= m[p].x)
  BY <1>1 DEF ListedAt
<1>6. \A i \in DOMAIN g : g[i] \in 1 .. Slots
  BY <1>3, SeqIs
<1> HIDE DEF g, h, y
<1>7. y = m[p].x + 1 /\ h = m'[p].names /\ g = m[p].names
  BY DEF y, h, g
<1>8. /\ \A i, j \in DOMAIN h : h[i] = h[j] => i = j
      /\ \A i \in DOMAIN h : h[i] <= y
      /\ \A s \in 1 .. Slots : s # y => ((\E i \in DOMAIN h : h[i] = s) <=> \E i \in DOMAIN g : g[i] = s)
      /\ tab[y].key # NoKey => \E i \in DOMAIN h : h[i] = y
  <2>1. CASE tab[y].key = NoKey
    BY <1>1, <1>3, <1>5, <1>6, <1>7, <2>1
  <2>2. CASE tab[y].key # NoKey
    <3>1. /\ DOMAIN g = 1 .. Len(g) /\ Len(g) \in Nat /\ DOMAIN h = 1 .. Len(g) + 1 /\ h[Len(g) + 1] = y
          /\ \A i \in 1 .. Len(g) : h[i] = g[i] /\ g[i] <= m[p].x /\ g[i] # y /\ g[i] \in 1 .. Slots
      <4>1. DOMAIN g = 1 .. Len(g) /\ Len(g) \in Nat /\ DOMAIN h = 1 .. Len(g) + 1 /\ h[Len(g) + 1] = y
        BY <1>4, <2>2
      <4>2. ASSUME NEW i \in 1 .. Len(g)
            PROVE  h[i] = g[i] /\ g[i] <= m[p].x /\ g[i] # y /\ g[i] \in 1 .. Slots
        <5>1. h[i] = g[i] /\ g[i] <= m[p].x /\ g[i] \in 1 .. Slots
          BY <1>4, <1>5, <1>6, <2>2, <4>1
        <5>2. QED
          BY <1>3, <1>7, <5>1
      <4>3. QED
        BY <4>1, <4>2
    <3>2. ASSUME NEW i \in DOMAIN h, NEW j \in DOMAIN h, h[i] = h[j]
          PROVE  i = j
      <4>1. CASE i = Len(g) + 1 \/ j = Len(g) + 1
        BY <3>1, <3>2, <4>1
      <4>2. CASE i # Len(g) + 1 /\ j # Len(g) + 1
        <5>1. i \in DOMAIN g /\ j \in DOMAIN g /\ g[i] = g[j]
          BY <3>1, <3>2, <4>2
        <5>2. QED
          BY <1>5, <5>1
      <4>3. QED
        BY <4>1, <4>2
    <3>3. ASSUME NEW i \in DOMAIN h
          PROVE  h[i] <= y
      <4>1. CASE i = Len(g) + 1
        BY <1>1, <3>1, <4>1
      <4>2. CASE i \in 1 .. Len(g)
        <5>1. h[i] = g[i] /\ g[i] <= m[p].x /\ g[i] \in 1 .. Slots
          BY <3>1, <4>2
        <5>2. QED
          BY <1>3, <1>7, <5>1
      <4>3. QED
        BY <3>1, <4>1, <4>2
    <3>4. \A s \in 1 .. Slots : s # y => ((\E i \in DOMAIN h : h[i] = s) <=> \E i \in DOMAIN g : g[i] = s)
      BY <3>1
    <3>5. \E i \in DOMAIN h : h[i] = y
      BY <3>1
    <3>6. QED
      BY <3>2, <3>3, <3>4, <3>5
  <2>3. QED
    BY <2>1, <2>2
<1>9. ASSUME NEW s \in 1 .. Slots, tab[s].key \in stood[p]
      PROVE  Hidden(p, tab[s].key)' /\ (Pointed(p, s)' <=> s <= y)
  <2>1. Hidden(p, tab[s].key)'
    BY <1>2, <1>5, <1>9 DEF Hidden
  <2>2. tab[s].key # NoKey
    BY <1>9, CommandsAssumption DEF Typed
  <2>3. Pointed(p, s)' <=> \E i \in DOMAIN h : h[i] = s
    BY <1>7 DEF Pointed
  <2>4. CASE s = y
    BY <1>1, <1>8, <2>1, <2>2, <2>3, <2>4
  <2>5. CASE s # y
    <3>1. Pointed(p, s)' <=> Pointed(p, s)
      BY <1>7, <1>8, <2>3, <2>5 DEF Pointed
    <3>2. Pointed(p, s) <=> s <= m[p].x
      BY <1>5, <1>9
    <3>3. s <= m[p].x <=> s <= y
      BY <1>3, <1>7, <2>5
    <3>4. QED
      BY <2>1, <3>1, <3>2, <3>3
  <2>6. QED
    BY <2>4, <2>5
<1>10. CASE y < Slots
  <2>1. m'[p].pc = "collect" /\ m'[p].x = y
    BY <1>1, <1>10
  <2>2. /\ \A i, j \in DOMAIN m'[p].names : m'[p].names[i] = m'[p].names[j] => i = j
        /\ \A i \in DOMAIN m'[p].names : m'[p].names[i] <= m'[p].x
    BY <1>7, <1>8, <2>1
  <2>3. ASSUME NEW s \in 1 .. Slots, tab'[s].key \in stood'[p]
        PROVE  Hidden(p, tab[s].key)' /\ (Pointed(p, s)' <=> s <= m'[p].x)
    BY <1>2, <1>9, <2>1, <2>3
  <2>4. QED
    BY <2>1, <2>2, <2>3 DEF ListedAt
<1>11. CASE ~ (y < Slots)
  <2>1. \A s \in 1 .. Slots : s <= y
    BY <1>1, <1>3, <1>11
  <2>2. ASSUME NEW s \in 1 .. Slots, tab'[s].key \in stood'[p]
        PROVE  AheadAt(p, s)'
    BY <1>2, <1>9, <2>1, <2>2 DEF AheadAt
  <2>3. /\ m'[p].pc = "rows"
        /\ \A i, j \in DOMAIN m'[p].names : m'[p].names[i] = m'[p].names[j] => i = j
    BY <1>1, <1>7, <1>8, <1>11
  <2>4. QED
    BY <2>2, <2>3 DEF ListedAt
<1>12. QED
  BY <1>10, <1>11

LEMMA RowListed ==
  ASSUME Typed, Kept, Once, NEW p \in Procs, PlacedAt(p), RowStep(p), ListedAt(p)
  PROVE  ListedAt(p)'
<1> DEFINE g == m[p].names
           g1 == m'[p].names
           h == Head(g)
<1>1. /\ Reads(p) /\ Same(p) /\ m[p].pc = "rows" /\ g # << >> /\ h \in 1 .. Slots
      /\ g1 = Tail(g)
      /\ Passed(p) => m'[p].pc = "rows"
      /\ ~ Passed(p) => /\ Shown(p) \in Keys /\ m'[p].pc = "copy" /\ m'[p].s \in 1 .. Slots
                        /\ tab[m'[p].s].key = Shown(p)
  BY RowStepIs
<1>2. UNCHANGED << tab, stood >> /\ m'[p].do = m[p].do /\ m'[p].rows = m[p].rows
  BY <1>1 DEF Reads, Same, Still, Goes
<1>3. g \in Seq(1 .. Slots)
  BY DEF Typed, Local
<1>4. /\ DOMAIN g = 1 .. Len(g) /\ Len(g) \in Nat /\ Len(g) > 0 /\ h = g[1]
      /\ DOMAIN g1 = 1 .. Len(g) - 1 /\ \A i \in 1 .. Len(g) - 1 : g1[i] = g[i + 1]
  <2>1. Tail(g) \in Seq(1 .. Slots) /\ Len(Tail(g)) = Len(g) - 1
    BY <1>1, <1>3, SeqIs
  <2>2. DOMAIN g1 = 1 .. Len(g) - 1
    BY <1>1, <2>1, SeqIs
  <2>3. QED
    BY <1>1, <1>3, <2>2, SeqIs
<1> SUFFICES ASSUME m[p].do \in Listing
             PROVE  ListedAt(p)'
  BY <1>2 DEF ListedAt
<1>5. Passed(p) => tab[h].hid \/ tab[h].key = NoKey
  BY DEF Passed, Shown, Listing
<1>6. ~ Passed(p) => m'[p].s = h
  <2>1. NoKey \notin Keys
    BY CommandsAssumption
  <2>2. QED
    BY <1>1, <2>1 DEF Shown, Once
<1>7. /\ \A i, j \in DOMAIN g : g[i] = g[j] => i = j
      /\ \A s \in 1 .. Slots : tab[s].key \in stood[p] =>
           IF Pointed(p, s) THEN Hidden(p, tab[s].key) ELSE Shows(p, tab[s].key)
  BY <1>1 DEF ListedAt, AheadAt
<1> HIDE DEF g, g1, h
<1>8. ASSUME NEW i \in DOMAIN g1, NEW j \in DOMAIN g1, g1[i] = g1[j]
      PROVE  i = j
  <2>1. i + 1 \in DOMAIN g /\ j + 1 \in DOMAIN g /\ g[i + 1] = g[j + 1]
    BY <1>4, <1>8
  <2>2. i + 1 = j + 1
    BY <1>7, <2>1
  <2>3. QED
    BY <1>4, <2>2
<1>9. ASSUME NEW s \in 1 .. Slots
      PROVE  /\ (\E i \in DOMAIN g1 : g1[i] = s) <=> s # h /\ \E i \in DOMAIN g : g[i] = s
             /\ \E i \in DOMAIN g : g[i] = h
  <2>1. \A i \in DOMAIN g1 : i + 1 \in DOMAIN g /\ g1[i] = g[i + 1] /\ g1[i] # h
    <3>1. \A i \in DOMAIN g1 : i + 1 \in DOMAIN g /\ g1[i] = g[i + 1] /\ i + 1 # 1
      BY <1>4
    <3>2. 1 \in DOMAIN g /\ g[1] = h
      BY <1>4
    <3>3. QED
      BY <1>7, <3>1, <3>2
  <2>2. \A i \in DOMAIN g : i = 1 \/ (i - 1 \in DOMAIN g1 /\ g1[i - 1] = g[i])
    BY <1>4
  <2>3. 1 \in DOMAIN g /\ g[1] = h
    BY <1>4
  <2>4. QED
    BY <2>1, <2>2, <2>3
<1>10. /\ \A s \in 1 .. Slots : Pointed(p, s) <=> \E i \in DOMAIN g : g[i] = s
       /\ \A s \in 1 .. Slots : Pointed(p, s)' <=> \E i \in DOMAIN g1 : g1[i] = s
       /\ \A k : Hidden(p, k)' <=> Hidden(p, k)
       /\ \A k : Shows(p, k)' <=> Shows(p, k)
  BY <1>2 DEF Pointed, Hidden, Shows, g, g1
<1>11. ASSUME NEW s \in 1 .. Slots, tab[s].key \in stood[p]
       PROVE  /\ s = h => ~ Passed(p) /\ Hidden(p, tab[s].key)' /\ ~ Pointed(p, s)'
              /\ s # h => IF Pointed(p, s)' THEN Hidden(p, tab[s].key)' ELSE Shows(p, tab[s].key)'
  <2>1. tab[s].key # NoKey /\ ~ tab[s].hid
    BY <1>11, StoodIs
  <2>2. tab'[s].key = tab[s].key
    BY <1>2
  <2>3. CASE s = h
    <3>1. ~ Passed(p)
      BY <1>5, <2>1, <2>3
    <3>2. Pointed(p, s) /\ ~ Pointed(p, s)'
      BY <1>9, <1>10, <2>3
    <3>3. Hidden(p, tab[s].key)
      BY <1>7, <1>11, <3>2
    <3>4. QED
      BY <1>2, <2>3, <3>1, <3>2, <3>3 DEF Hidden
  <2>4. CASE s # h
    <3>1. Pointed(p, s)' <=> Pointed(p, s)
      BY <1>9, <1>10, <2>4
    <3>2. IF Pointed(p, s) THEN Hidden(p, tab[s].key) ELSE Shows(p, tab[s].key)
      BY <1>7, <1>11
    <3>3. QED
      BY <1>2, <2>4, <3>1, <3>2 DEF Hidden, Shows
  <2>5. QED
    BY <2>3, <2>4
<1>12. \A i, j \in DOMAIN m'[p].names : m'[p].names[i] = m'[p].names[j] => i = j
  BY <1>8 DEF g1
<1>13. CASE Passed(p)
  <2>1. ASSUME NEW s \in 1 .. Slots, tab'[s].key \in stood'[p]
        PROVE  AheadAt(p, s)'
    BY <1>2, <1>11, <1>13, <2>1 DEF AheadAt
  <2>2. m'[p].pc = "rows"
    BY <1>1, <1>13
  <2>3. QED
    BY <1>12, <2>1, <2>2 DEF ListedAt
<1>14. CASE ~ Passed(p)
  <2>1. m'[p].pc = "copy" /\ m'[p].s = h
    BY <1>1, <1>6, <1>14
  <2>2. ASSUME NEW s \in 1 .. Slots, tab'[s].key \in stood'[p]
        PROVE  IF m'[p].s = s THEN Hidden(p, tab[s].key)' /\ ~ Pointed(p, s)' ELSE AheadAt(p, s)'
    BY <1>2, <1>11, <2>1, <2>2 DEF AheadAt
  <2>3. QED
    BY <1>12, <2>1, <2>2 DEF ListedAt
<1>15. QED
  BY <1>13, <1>14

LEMMA CopyListed ==
  ASSUME Typed, Kept, Once, NEW p \in Procs, PlacedAt(p), RowCopy(p), ListedAt(p)
  PROVE  ListedAt(p)'
<1>1. /\ Reads(p) /\ Same(p) /\ m[p].pc = "copy" /\ m'[p].pc = "check"
      /\ m'[p].names = m[p].names /\ m'[p].s = m[p].s /\ m[p].s \in 1 .. Slots /\ m'[p].row = tab[m[p].s]
  BY RowCopyIs
<1>2. UNCHANGED << tab, stood >> /\ m'[p].do = m[p].do /\ m'[p].rows = m[p].rows
  BY <1>1 DEF Reads, Same, Still, Goes
<1>3. \A s \in 1 .. Slots : /\ Pointed(p, s)' <=> Pointed(p, s)
                            /\ Hidden(p, tab[s].key)' <=> Hidden(p, tab[s].key)
                            /\ AheadAt(p, s)' <=> AheadAt(p, s)
  BY <1>1, <1>2 DEF Pointed, Hidden, Shows, AheadAt
<1>4. ASSUME NEW s \in 1 .. Slots, tab'[s].key \in stood'[p]
      PROVE  m'[p].row.key = tab'[s].key <=> m'[p].s = s
  <2>1. \A r \in 1 .. Slots : tab[r].key = tab[s].key => r = s
    BY <1>2, <1>4, StoodIs
  <2>2. QED
    BY <1>1, <1>2, <2>1
<1>5. QED
  BY <1>1, <1>2, <1>3, <1>4 DEF ListedAt

LEMMA CheckListed ==
  ASSUME Typed, Kept, Once, NEW p \in Procs, PlacedAt(p), RowCheck(p), ListedAt(p)
  PROVE  ListedAt(p)'
<1>1. /\ Reads(p) /\ m[p].pc = "check" /\ m[p].s \in 1 .. Slots /\ m'[p].names = m[p].names
      /\ \/ m'[p].pc = "copy" /\ m'[p].s = m[p].s /\ m'[p].rows = m[p].rows
         \/ /\ m'[p].pc = "rows"
            /\ \E t \in SlotType : /\ t.key = m[p].row.key \/ t.key = Printed(tab[m[p].s]).key
                                   /\ m'[p].rows = Append(m[p].rows, t)
  BY RowCheckIs
<1>2. UNCHANGED << tab, stood >> /\ m'[p].do = m[p].do
  BY <1>1 DEF Reads, Still, Goes
<1>3. \A s \in 1 .. Slots : Pointed(p, s)' <=> Pointed(p, s)
  BY <1>1 DEF Pointed
<1>4. CASE m'[p].pc = "copy" /\ m'[p].s = m[p].s /\ m'[p].rows = m[p].rows
  BY <1>1, <1>2, <1>3, <1>4 DEF ListedAt, Hidden, Shows, AheadAt
<1>5. CASE /\ m'[p].pc = "rows"
           /\ \E t \in SlotType : /\ t.key = m[p].row.key \/ t.key = Printed(tab[m[p].s]).key
                                  /\ m'[p].rows = Append(m[p].rows, t)
  <2>1. PICK t \in SlotType : /\ t.key = m[p].row.key \/ t.key = Printed(tab[m[p].s]).key
                              /\ m'[p].rows = Append(m[p].rows, t)
    BY <1>5
  <2> DEFINE o == m[p].rows
             o1 == m'[p].rows
             n == Len(o)
  <2>2. o \in Seq(SlotType)
    BY DEF Typed, Local
  <2>3. /\ DOMAIN o = 1 .. n /\ n \in Nat /\ DOMAIN o1 = 1 .. n + 1 /\ o1[n + 1] = t
        /\ \A i \in 1 .. n : o1[i] = o[i]
    <3>1. o1 \in Seq(SlotType) /\ Len(o1) = n + 1
      BY <2>1, <2>2, SeqIs
    <3>2. DOMAIN o1 = 1 .. n + 1
      BY <3>1, SeqIs
    <3>3. QED
      BY <2>1, <2>2, <3>2, SeqIs
  <2> SUFFICES ASSUME m[p].do \in Listing
               PROVE  ListedAt(p)'
    BY <1>2 DEF ListedAt
  <2>4. ASSUME NEW s \in 1 .. Slots, tab[s].key \in stood[p]
        PROVE  AheadAt(p, s)'
    <3>1. PICK k : k = tab[s].key
      OBVIOUS
    <3>2. /\ k # NoKey /\ ~ tab[s].hid /\ tab'[s].key = k
          /\ \A r \in 1 .. Slots : tab[r].key = k => r = s
      BY <1>2, <2>4, <3>1, StoodIs
    <3>3. t.key = k <=> m[p].s = s
      <4>1. m[p].row.key = k <=> m[p].s = s
        BY <1>1, <2>4, <3>1 DEF ListedAt
      <4>2. Printed(tab[m[p].s]).key = IF tab[m[p].s].hid THEN NoKey ELSE tab[m[p].s].key
        BY <1>1, SlotIs DEF Printed, SlotType
      <4>3. Printed(tab[m[p].s]).key = k <=> m[p].s = s
        BY <1>1, <3>1, <3>2, <4>2
      <4>4. QED
        BY <2>1, <4>1, <4>3
    <3>4. /\ Hidden(p, k) <=> \A i \in DOMAIN o : o[i].key # k
          /\ Hidden(p, tab[s].key)' <=> \A i \in DOMAIN o1 : o1[i].key # k
          /\ Shows(p, k) <=> \E i \in DOMAIN o : o[i].key = k /\ \A j \in DOMAIN o : o[j].key = k => j = i
          /\ Shows(p, tab[s].key)' <=> \E i \in DOMAIN o1 : o1[i].key = k /\ \A j \in DOMAIN o1 : o1[j].key = k => j = i
      BY <3>2 DEF Hidden, Shows
    <3> HIDE DEF o, o1, n
    <3>5. CASE m[p].s = s
      <4>1. Hidden(p, k) /\ ~ Pointed(p, s)'
        BY <1>1, <1>3, <2>4, <3>1, <3>5 DEF ListedAt
      <4>2. n + 1 \in DOMAIN o1 /\ o1[n + 1].key = k
        BY <2>3, <3>3, <3>5
      <4>3. \A j \in DOMAIN o1 : j = n + 1 \/ (j \in DOMAIN o /\ o1[j] = o[j])
        BY <2>3
      <4>4. Shows(p, tab[s].key)'
        BY <3>4, <4>1, <4>2, <4>3
      <4>5. QED
        BY <4>1, <4>4 DEF AheadAt
    <3>6. CASE m[p].s # s
      <4>1. IF Pointed(p, s) THEN Hidden(p, k) ELSE Shows(p, k)
        BY <1>1, <2>4, <3>1, <3>6 DEF ListedAt, AheadAt
      <4>2. /\ \A j \in DOMAIN o1 : o1[j].key = k => j \in DOMAIN o /\ o[j].key = k
            /\ \A j \in DOMAIN o : j \in DOMAIN o1 /\ o1[j] = o[j]
        BY <2>3, <3>3, <3>6
      <4>3. Hidden(p, k) => Hidden(p, tab[s].key)'
        BY <3>4, <4>2
      <4>4. Shows(p, k) => Shows(p, tab[s].key)'
        BY <3>4, <4>2
      <4>5. QED
        BY <1>3, <4>1, <4>3, <4>4 DEF AheadAt
    <3>7. QED
      BY <3>5, <3>6
  <2>5. m'[p].pc = "rows"
    BY <1>5
  <2>6. \A i, j \in DOMAIN m'[p].names : m'[p].names[i] = m'[p].names[j] => i = j
    BY <1>1 DEF ListedAt
  <2>7. \A s \in 1 .. Slots : tab'[s].key \in stood'[p] => AheadAt(p, s)'
    BY <1>2, <2>4
  <2> HIDE DEF o, o1, n
  <2>8. QED
    BY <2>5, <2>6, <2>7 DEF ListedAt
<1>6. QED
  BY <1>1, <1>4, <1>5

(* The rest of a list moves no pointer, and its rows keep their keys. *)
LEMMA RestListed ==
  ASSUME Typed, NEW p \in Procs, ListedAt(p), UNCHANGED << tab, stood >>, m'[p].do = m[p].do,
         DOMAIN m'[p].rows = DOMAIN m[p].rows,
         \A i \in DOMAIN m[p].rows : m'[p].rows[i].key = m[p].rows[i].key,
         \/ m[p].pc = "rows" /\ m[p].names = << >> /\ m'[p].pc \in {"idle", "values", "crashed"} /\ m'[p].names = << >>
         \/ m[p].pc = "values" /\ m'[p].pc = "values" /\ m'[p].names = m[p].names
         \/ m[p].pc = "values" /\ m'[p].pc = "idle" /\ m'[p].names = << >>
  PROVE  ListedAt(p)'
<1>1. DOMAIN << >> = {}
  OBVIOUS
<1>2. m[p].do \in Listing => \A i, j \in DOMAIN m'[p].names : m'[p].names[i] = m'[p].names[j] => i = j
  BY <1>1 DEF ListedAt
<1>3. ASSUME NEW s \in 1 .. Slots, tab'[s].key \in stood'[p], m[p].do \in Listing
      PROVE  Shows(p, tab[s].key)'
  <2>1. m[p].names = << >> => ~ Pointed(p, s)
    BY <1>1 DEF Pointed
  <2>2. Shows(p, tab[s].key)
    BY <1>3, <2>1 DEF ListedAt, AheadAt
  <2>3. QED
    BY <2>2 DEF Shows
<1>4. m'[p].pc # "collect" /\ m'[p].pc # "rows"
  OBVIOUS
<1>5. QED
  BY <1>2, <1>3, <1>4 DEF ListedAt

LEMMA OwnListed ==
  ASSUME Typed, Kept, Once, NEW p \in Procs, PlacedAt(p), Steps(p) \/ Leave(p), ListedAt(p)
  PROVE  ListedAt(p)'
<1>1. m'[p].do = m[p].do
  BY MovesAre DEF Moves, Goes
<1> SUFFICES ASSUME m[p].do \in Listing
             PROVE  ListedAt(p)'
  BY <1>1 DEF ListedAt
<1>2. m[p].do \notin {"ingest", "search", "orders", "unset", "disorder", "watch"} /\ m[p].do \notin Setters
  BY DEF Listing, Setters
<1>3. ~ (Chunk(p) \/ Metadata(p) \/ Query(p) \/ Unset(p) \/ Disorder(p) \/ Cleanup(p))
  BY <1>2 DEF Chunk, Metadata, Query, Unset, Disorder, Cleanup
<1>4. ~ (SetOpen(p) \/ SetLink(p) \/ SetFails(p))
  BY <1>2, SetPlaces DEF SetOpen, SetLink, SetFails
<1>5. ~ (Look(p) \/ Moved(p) \/ SearchPoll(p) \/ SearchFetch(p) \/ WatchPoll(p) \/ WatchFetch(p) \/ Leave(p))
  BY <1>2, LookIs, MovedIs DEF SearchPoll, SearchFetch, WatchPoll, WatchFetch, Leave
<1>6. ~ Score(p)
  BY <1>2, ScoreIs
<1>7. CASE Collect(p)
  BY <1>7, CollectListed
<1>8. CASE RowStep(p)
  BY <1>8, RowListed
<1>9. CASE RowCopy(p)
  BY <1>9, CopyListed
<1>10. CASE RowCheck(p)
  BY <1>10, CheckListed
<1>11. CASE Listed(p)
  BY <1>1, <1>2, <1>11, ListedIs, RestListed DEF Reads, Same, Still
<1>12. CASE ValueStep(p)
  BY <1>1, <1>12, ValueStepIs, RestListed DEF Rewrites, Reads, Still
<1>13. CASE Exported(p)
  <2>1. End(p, 0)
    BY <1>13 DEF Exported
  <2>2. m'[p].names = << >>
    BY <2>1, EndIs
  <2>3. QED
    BY <1>1, <1>13, <2>2, ExportedIs, RestListed DEF Reads, Same, Still
<1>14. QED
  BY <1>3, <1>4, <1>5, <1>6, <1>7, <1>8, <1>9, <1>10, <1>11, <1>12, <1>13 DEF Steps

LEMMA ListStep ==
  ASSUME ListInv, Once, Once', [CommandsNext]_commandVars
  PROVE  ListInv'
<1>1. Base' /\ Typed /\ Placed /\ Kept /\ \A q \in Procs : ListedAt(q)
  BY BaseStep DEF ListInv, Base
<1> SUFFICES Kept' /\ \A q \in Procs : ListedAt(q)'
  BY <1>1 DEF ListInv
<1>2. ASSUME NEW p \in Procs, Steps(p) \/ Leave(p)
      PROVE  Kept' /\ \A q \in Procs : ListedAt(q)'
  <2>1. Moves(p)
    BY <1>1, <1>2, MovesAre DEF Placed
  <2>2. /\ (UNCHANGED << tab, stood >>) \/ (Stood /\ \E x \in 1 .. Slots : Only(x))
        /\ \A q \in Procs : stood'[q] \subseteq stood[q]
    BY <2>1 DEF Moves, Tables, Stood
  <2>3. Kept'
    BY <1>1, <2>2 DEF Kept, Stood
  <2>4. ASSUME NEW q \in Procs
        PROVE  ListedAt(q)'
    <3>1. CASE q = p
      BY <1>1, <1>2, <3>1, OwnListed DEF Placed
    <3>2. CASE q # p
      <4>1. m'[q] = m[q]
        BY <1>1, <2>1, <3>2 DEF Moves, Goes, Typed
      <4>2. \A s \in 1 .. Slots : tab'[s].key \in stood'[q] => tab[s].key = tab'[s].key /\ tab[s].key \in stood[q]
        BY <1>1, <2>2, StoodStays
      <4>3. QED
        BY <1>1, <4>1, <4>2, ListedElsewhere
    <3>3. QED
      BY <3>1, <3>2
  <2>5. QED
    BY <2>3, <2>4
<1>3. ASSUME NEW p \in Procs, Start(p)
      PROVE  Kept' /\ \A q \in Procs : ListedAt(q)'
  <2>1. Begins(p)
    BY <1>1, <1>3, StartIs
  <2>2. UNCHANGED tab /\ (\A q \in Procs \ {p} : m'[q] = m[q] /\ stood'[q] = stood[q])
    BY <1>1, <2>1 DEF Begins, Typed
  <2>3. /\ stood'[p] = IF m'[p].do \in Listing THEN Standing(tab) ELSE {}
        /\ m'[p].pc = Entry[m'[p].do] /\ m'[p].x = 0 /\ m'[p].names = << >> /\ m'[p].rows = << >>
    BY <1>1, <2>1 DEF Begins, Typed
  <2>4. Kept'
    BY <1>1, <2>2, <2>3 DEF Kept
  <2>5. ListedAt(p)'
    <3>1. m'[p].do \in Listing => m'[p].pc = "collect"
      BY <2>3 DEF Listing, Entry
    <3>2. DOMAIN << >> = {} /\ \A s \in 1 .. Slots : ~ (s <= 0)
      BY CommandsAssumption
    <3>3. QED
      BY <2>3, <3>1, <3>2 DEF ListedAt, Pointed, Hidden
  <2>6. \A q \in Procs \ {p} : ListedAt(q)'
    BY <1>1, <2>2, ListedElsewhere
  <2>7. QED
    BY <2>4, <2>5, <2>6
<1>4. ASSUME NEW p \in Procs, Kill(p)
      PROVE  Kept' /\ \A q \in Procs : ListedAt(q)'
  <2>1. Stops(p)
    BY <1>1, <1>4, KillIs
  <2>2. UNCHANGED << tab, stood >> /\ m'[p].do = "none" /\ \A q \in Procs \ {p} : m'[q] = m[q]
    BY <1>1, <2>1 DEF Stops, Typed
  <2>3. Kept'
    BY <1>1, <2>2 DEF Kept
  <2>4. ListedAt(p)'
    BY <2>2 DEF ListedAt, Listing
  <2>5. \A q \in Procs \ {p} : ListedAt(q)'
    BY <1>1, <2>2, ListedElsewhere
  <2>6. QED
    BY <2>3, <2>4, <2>5
<1>5. ASSUME UNCHANGED m, \A q \in Procs : stood'[q] \subseteq stood[q],
             Standing(tab) \subseteq Standing(tab') \/ Stood,
             \A q \in Procs : \A s \in 1 .. Slots :
               tab'[s].key \in stood'[q] => tab[s].key = tab'[s].key /\ tab[s].key \in stood[q]
      PROVE  Kept' /\ \A q \in Procs : ListedAt(q)'
  <2>1. Kept'
    BY <1>1, <1>5 DEF Kept, Stood
  <2>2. \A q \in Procs : ListedAt(q)'
    BY <1>1, <1>5, ListedElsewhere
  <2>3. QED
    BY <2>1, <2>2
<1>6. ASSUME Touches
      PROVE  Kept' /\ \A q \in Procs : ListedAt(q)'
  <2>1. Standing(tab) \subseteq Standing(tab')
    BY <1>6 DEF Touches, Standing
  <2>2. \A q \in Procs : \A s \in 1 .. Slots :
          tab'[s].key \in stood'[q] => tab[s].key = tab'[s].key /\ tab[s].key \in stood[q]
    BY <1>6 DEF Touches
  <2>3. QED
    BY <1>5, <1>6, <2>1, <2>2 DEF Touches
<1>7. ASSUME NEW s \in 1 .. Slots, Hold(s) \/ Release(s)
      PROVE  Kept' /\ \A q \in Procs : ListedAt(q)'
  BY <1>1, <1>6, <1>7, HoldIs, ReleaseIs DEF Handles
<1>8. CASE EmbedRead \/ EmbedOpen \/ EmbedClose \/ StampBump
  BY <1>1, <1>6, <1>8, EmbedReadIs, EmbedOpenIs, EmbedCloseIs, StampBumpIs
<1>9. CASE StampOpen \/ StampLink
  <2>1. /\ UNCHANGED m
        /\ UNCHANGED << tab, stood >> \/ (Stood /\ \E x \in 1 .. Slots : Only(x))
    BY <1>1, <1>9, StampOpenIs, StampLinkIs DEF unembedded, Still
  <2>2. \A q \in Procs : stood'[q] \subseteq stood[q]
    BY <2>1 DEF Stood
  <2>3. \A q \in Procs : \A s \in 1 .. Slots :
          tab'[s].key \in stood'[q] => tab[s].key = tab'[s].key /\ tab[s].key \in stood[q]
    BY <1>1, <2>1, <2>2, StoodStays
  <2>4. QED
    BY <1>5, <2>1, <2>2, <2>3
<1>10. CASE UNCHANGED commandVars
  BY <1>6, <1>10 DEF commandVars, Touches
<1>11. QED
  BY <1>2, <1>3, <1>4, <1>7, <1>8, <1>9, <1>10 DEF CommandsNext

LEMMA ListInit ==
  ASSUME Sorted, CommandsInit
  PROVE  ListInv
<1>1. PICK c \in Scenes : Opened(c)
  BY OpenedIs
<1>2. Base
  BY OpenedIs
<1>3. \A p \in Procs : stood[p] = {} /\ m[p].do \notin Listing
  BY <1>1 DEF Opened, Listing
<1>4. QED
  BY <1>2, <1>3 DEF ListInv, Kept, ListedAt

LEMMA ListShows ==
  ASSUME ListInv
  PROVE  ListTrue
<1> SUFFICES ASSUME NEW p \in Procs, m[p].do \in Listing, m[p].pc = "idle", NEW k \in stood[p]
             PROVE  Quantify(DOMAIN m[p].rows, LAMBDA i : m[p].rows[i].key = k) = 1
  BY DEF ListTrue
<1>1. PICK s \in 1 .. Slots : tab[s].key = k
  BY DEF ListInv, Kept, Standing
<1>2. Shows(p, k)
  BY <1>1 DEF ListInv, ListedAt
<1>3. PICK i \in DOMAIN m[p].rows : /\ m[p].rows[i].key = k
                                    /\ \A j \in DOMAIN m[p].rows : m[p].rows[j].key = k => j = i
  BY <1>2 DEF Shows
<1>4. {j \in DOMAIN m[p].rows : m[p].rows[j].key = k} = {i}
  BY <1>3
<1>5. Cardinality({i}) = 1
  BY FS_Singleton
<1>6. QED
  BY <1>4, <1>5 DEF Quantify

(* A key that stands from the beginning of a list or an export to its end, *)
(* and that nobody sets meanwhile, is in its rows exactly once: cmd_list   *)
(* and cmd_export keep pointers into the slots, and whoever sets and       *)
(* unsets keys under them moves no such key from one pointer to another,   *)
(* nor spoils its row with a copy that did not come out whole.             *)
THEOREM ListsTrue ==
  ASSUME Sorted
  PROVE  CommandsSpec /\ []Once => []ListTrue
<1>1. CommandsInit => ListInv
  BY ListInit
<1>2. ListInv /\ Once /\ Once' /\ [CommandsNext]_commandVars => ListInv'
  BY ListStep
<1>3. ListInv => ListTrue
  BY ListShows
<1>4. QED
  BY <1>1, <1>2, <1>3, PTL DEF CommandsSpec


-----------------------------------------------------------------------------
(* What a search keeps. *)
Asked(p)     == [of |-> m[p].gen, n |-> 0]
TextOk(p, v) == v = Asked(p) \/ (v = Excuse /\ m[p].gen \in Long)
VecOk(p, v)  == v \in {Nothing, Asked(p)} \/ (v = Excuse /\ m[p].gen \in Long)
Met(p, v)    == v = Asked(p) \/ p \in swept

(* A key that no slot has, and the daemon does not. *)
Unused(k) == d.key # k /\ \A s \in 1 .. Slots : tab[s].key # k

QueuedAt(p) == \A j \in DOMAIN todo[p] : todo[p][j].do = "search" => Unused(<< todo[p][j].name, 0 >>)

(* The epoch is as it was, or the daemon is at the slot, or has been. *)
Waited(p) == tab[m[p].s].epoch = m[p].e \/ (d.at = "commit" /\ d.s = m[p].s) \/ Met(p, tab[m[p].s].vec)

WaitAt(p) ==
  /\ m[p].pc = "wait" => m[p].s \in 1 .. Slots /\ tab[m[p].s].key = K(p) /\ ~ Odd(m[p].e) /\ Waited(p)
  /\ m[p].pc = "fetch" => \A s \in 1 .. Slots : tab[s].key = K(p) => Met(p, tab[s].vec)

SearchAt(p) ==
  m[p].do = "search" =>
    /\ m[p].pc \in {"set", "link"} => Unused(K(p))
    /\ \A s \in 1 .. Slots : tab[s].key = K(p) => TextOk(p, tab[s].val) /\ VecOk(p, tab[s].vec)
    /\ d.key = K(p) => TextOk(p, d.text)
    /\ m[p].gen \notin Long => WaitAt(p)

GotAt(p) ==
  m[p].got => m[p].do = "search" /\ VecOk(p, m[p].vec) /\ (m[p].gen \notin Long => Met(p, m[p].vec))

SearchInv == Base /\ \A p \in Procs : QueuedAt(p) /\ SearchAt(p) /\ GotAt(p)

(* The key of a search is a key. *)
LEMMA ScratchIs ==
  ASSUME Typed, Placed, NEW p \in Procs, m[p].do = "search"
  PROVE  K(p) \in Keys /\ K(p) # NoKey /\ m[p].i = 0 /\ m[p].do \in Writers /\ m[p].do \in Setters
BY CommandsAssumption DEF Placed, PlacedAt, Listing, Writers, Setters

LEMMA QueuedIs ==
  ASSUME Typed, NEW p \in Procs, NEW j \in DOMAIN todo[p], todo[p][j].do = "search"
  PROVE  << todo[p][j].name, 0 >> \in Keys /\ << todo[p][j].name, 0 >> # NoKey /\ todo[p][j] \in Pending(p)
<1> DEFINE c == todo[p][j]
<1>1. c \in Command /\ c.do = "search" /\ c \in Pending(p)
  BY DEF Typed, Pending
<1> HIDE DEF c
<1>2. Orders(c) = {0} /\ c.do \notin Listing
  BY <1>1 DEF Orders, Listing
<1>3. << c.name, 0 >> \in Keys
  BY <1>1, <1>2 DEF Command
<1>4. QED
  BY <1>1, <1>3, CommandsAssumption DEF c

(* A slot with a search's key does not change by another process. *)
LEMMA Foreign ==
  ASSUME Typed, Placed, Locked, Separate, NEW p \in Procs, NEW q \in Procs, p # q, m[p].do \in Writers,
         Moves(q), NEW r \in 1 .. Slots, K(p) # NoKey, tab[r].key = K(p) \/ tab'[r].key = K(p)
  PROVE  tab'[r] = tab[r]
<1>1. CASE UNCHANGED tab
  BY <1>1
<1>2. CASE /\ K(q)[1] = m[q].name
           /\ \E x \in 1 .. Slots : /\ \A y \in (1 .. Slots) \ {x} : tab'[y] = tab[y]
                                    /\ Marks(q, x) \/ Stores(q, x) \/ Frees(q, x)
  <2>1. PICK x \in 1 .. Slots : /\ \A y \in (1 .. Slots) \ {x} : tab'[y] = tab[y]
                                /\ Marks(q, x) \/ Stores(q, x) \/ Frees(q, x)
    BY <1>2
  <2>2. m[q].do \in Writers
    <3>1. CASE Marks(q, x)
      <4>1. m[q].pc \in {"type", "label", "bump"} /\ PlacedAt(q) /\ m[q].do \in DOMAIN Entry \cup {"none"}
        BY <3>1 DEF Marks, Placed, Typed, Local
      <4>2. m[q].do \in {"ingest", "search"}
        BY <4>1 DEF PlacedAt, Places, Entry, Seek, Scan, Setting
      <4>3. QED
        BY <4>2 DEF Writers, Setters
    <3>2. QED
      BY <2>1, <3>1 DEF Stores, Frees, Writers
  <2>3. K(q) # K(p)
    BY <2>2, Owners DEF K
  <2>4. r # x
    BY <2>1, <2>3, FreeIs DEF Marks, Stores, Frees
  <2>5. QED
    BY <2>1, <2>4
<1>3. QED
  BY <1>1, <1>2, Change

(* Nobody sets the key of a search that is still to begin. *)
LEMMA MovesQueued ==
  ASSUME Typed, Placed, Locked, Separate, NEW p \in Procs, QueuedAt(p), NEW q \in Procs, Moves(q)
  PROVE  QueuedAt(p)'
<1>1. UNCHANGED << todo, d >>
  BY DEF Moves, rest, others
<1> SUFFICES ASSUME NEW j \in DOMAIN todo[p], todo[p][j].do = "search"
             PROVE  /\ d.key # << todo[p][j].name, 0 >>
                    /\ \A r \in 1 .. Slots : tab'[r].key # << todo[p][j].name, 0 >>
  BY <1>1 DEF QueuedAt, Unused
<1> DEFINE c == todo[p][j]
           k == << c.name, 0 >>
<1>2. d.key # k /\ \A r \in 1 .. Slots : tab[r].key # k
  BY DEF QueuedAt, Unused
<1>3. c \in Pending(p) /\ c.do = "search" /\ InTurn(Current(p), c) /\ k # NoKey
  BY QueuedIs DEF Separate
<1>4. ASSUME NEW x \in 1 .. Slots, Stores(q, x)
      PROVE  tab'[x].key # k
  <2> SUFFICES ASSUME tab'[x].key = k
               PROVE  FALSE
    OBVIOUS
  <2>0. K(q) = k
    BY <1>3, <1>4 DEF Stores
  <2>1. m[q].name = c.name
    BY <2>0 DEF K
  <2>2. m[q].do \in Writers
    BY <1>4 DEF Stores, Writers
  <2>3. q = p
    BY <1>3, <2>1, <2>2, Owner DEF Writers, Setters
  <2>4. QED
    BY <1>3, <2>1, <2>2, <2>3 DEF InTurn, Current
<1> HIDE DEF c, k
<1>5. \A r \in 1 .. Slots : tab'[r].key # k
  BY <1>2, <1>3, <1>4, Change, FreeIs DEF Marks, Frees
<1>6. QED
  BY <1>2, <1>5 DEF k, c

(* The course of a search. *)
Searches(p) ==
  \/ m'[p].pc \in {"collect", "rows", "copy", "check", "score", "unset", "idle"}
  \/ m[p].pc = "set" /\ m'[p].pc = "link"
  \/ m[p].pc \in {"set", "link", "type", "label", "bump"} /\ m'[p].pc \in {"type", "label", "bump", "look"}
  \/ /\ m'[p].pc = "wait" /\ UNCHANGED tab
     /\ Even(K(p)) /\ m'[p].s = At(K(p)) /\ m'[p].e = tab[At(K(p))].epoch
  \/ Moved(p) /\ m'[p].pc = "fetch" /\ UNCHANGED tab

Gets(p) ==
  \/ m'[p].vec = m[p].vec /\ m'[p].got = m[p].got
  \/ m[p].do = "search" /\ m[p].pc = "fetch" /\ Even(K(p)) /\ m'[p].vec = tab[At(K(p))].vec

LEMMA SearchesAre ==
  ASSUME Typed, NEW p \in Procs, PlacedAt(p), Steps(p) \/ Leave(p)
  PROVE  Gets(p) /\ (m[p].do = "search" => Searches(p) /\ m'[p].i = 0)
<1>1. CASE SetOpen(p)
  BY <1>1, SetOpenIs, SeekPlaces DEF Stays, Gets, Searches
<1>2. CASE SetLink(p)
  BY <1>2, SetLinkIs, SeekPlaces DEF Gets, Same, Searches
<1>3. CASE SetFails(p)
  BY <1>3, SetFailsIs, SeekPlaces DEF Stays, Gets, Searches
<1>4. CASE Chunk(p) \/ Metadata(p)
  BY <1>4, IngestIs DEF Gets, Same
<1>5. CASE Query(p) \/ Cleanup(p)
  BY <1>5, QueryIs, SeekPlaces DEF Stays, Gets, Searches
<1>6. CASE Unset(p) \/ Disorder(p)
  BY <1>6, UnsetIs, DisorderIs DEF Gets, Same
<1>7. CASE Look(p)
  BY <1>7, LookIs, SeekPlaces DEF Gets, Same, Searches, Reads, Still
<1>8. CASE Moved(p)
  BY <1>8, MovedIs, SeekPlaces DEF Gets, Same, Searches, Reads, Still
<1>9. CASE SearchPoll(p)
  BY <1>9, SearchPollIs, SeekPlaces DEF Gets, Same, Searches
<1>10. CASE SearchFetch(p)
  BY <1>10, SearchFetchIs, SeekPlaces DEF Gets, Same, Searches
<1>11. CASE WatchPoll(p) \/ WatchFetch(p) \/ Leave(p)
  BY <1>11, WatchIs DEF Gets, Same
<1>12. ASSUME PlacedAt(p)', Goes(p), m[p].do = "search"
       PROVE  m'[p].i = 0
  BY <1>12 DEF PlacedAt, Goes
<1>13. CASE Collect(p)
  BY <1>12, <1>13, CollectIs DEF Gets, Same, Searches, Reads
<1>14. CASE RowStep(p)
  BY <1>12, <1>14, RowStepIs DEF Gets, Same, Searches, Reads
<1>15. CASE RowCopy(p)
  BY <1>12, <1>15, RowCopyIs DEF Gets, Same, Searches, Reads
<1>16. CASE RowCheck(p)
  BY <1>12, <1>16, RowCheckIs DEF Gets, Searches, Reads
<1>17. CASE Listed(p)
  BY <1>12, <1>17, ListedIs DEF Gets, Same, Searches, Reads, Listing
<1>18. CASE ValueStep(p) \/ Exported(p)
  BY <1>18, ValueStepIs, ExportedIs DEF Gets, Same, Rewrites
<1>19. CASE Score(p)
  BY <1>12, <1>19, ScoreIs DEF Gets, Searches, Reads
<1>20. QED
  BY <1>1, <1>2, <1>3, <1>4, <1>5, <1>6, <1>7, <1>8, <1>9, <1>10, <1>11, <1>13, <1>14, <1>15,
     <1>16, <1>17, <1>18, <1>19 DEF Steps

-----------------------------------------------------------------------------
(* What a step of others may do to a slot that a search is at. *)
Spares(p, r) ==
  /\ tab'[r].key = tab[r].key
  /\ \/ tab'[r] = tab[r] /\ (d.at = "commit" /\ d.s = r => d'.at = "commit" /\ d'.s = r)
     \/ tab'[r].vec = Asked(p)
     \/ /\ tab'[r].vec = tab[r].vec
        /\ \/ d'.at = "commit" /\ d'.s = r
           \/ m[p].pc = "wait" /\ m[p].s = r => p \in swept'
           \/ Odd(tab[r].epoch) /\ ~ (d.at = "commit" /\ d.s = r)

Serves(p) ==
  /\ m[p].pc \in {"set", "link"} => d'.key # K(p) /\ \A r \in 1 .. Slots : tab'[r].key # K(p)
  /\ \A r \in 1 .. Slots : tab'[r].key = K(p) => TextOk(p, tab'[r].val) /\ VecOk(p, tab'[r].vec)
  /\ d'.key = K(p) => TextOk(p, d'.text)
  /\ m[p].gen \notin Long => \A r \in 1 .. Slots : tab[r].key = K(p) \/ tab'[r].key = K(p) => Spares(p, r)

LEMMA ServesSearch ==
  ASSUME NEW p \in Procs, SearchAt(p), m'[p] = m[p], p \in swept => p \in swept',
         m[p].do = "search" => Serves(p)
  PROVE  SearchAt(p)'
<1>1. K(p)' = K(p) /\ Asked(p)' = Asked(p) /\ \A v : Met(p, v) => (v = Asked(p) \/ p \in swept')
  BY DEF K, Asked, Met
<1>2. \A v : (TextOk(p, v) => (v = Asked(p) \/ (v = Excuse /\ m'[p].gen \in Long)))
             /\ (VecOk(p, v) => (v \in {Nothing, Asked(p)} \/ (v = Excuse /\ m'[p].gen \in Long)))
  BY DEF TextOk, VecOk
<1> SUFFICES ASSUME m[p].do = "search"
             PROVE  SearchAt(p)'
  BY DEF SearchAt
<1>3. SearchAt(p) /\ Serves(p)
  OBVIOUS
<1>4. m'[p].pc \in {"set", "link"} => Unused(K(p))'
  <2> HIDE DEF K
  <2>1. QED
    BY <1>1, <1>3 DEF Serves, Unused
<1>5. \A s \in 1 .. Slots : tab'[s].key = K(p)' => TextOk(p, tab[s].val)' /\ VecOk(p, tab[s].vec)'
  <2> HIDE DEF K, Asked
  <2>1. QED
    BY <1>1, <1>2, <1>3 DEF Serves, TextOk, VecOk
<1>6. d'.key = K(p)' => TextOk(p, d.text)'
  <2> HIDE DEF K, Asked
  <2>1. QED
    BY <1>1, <1>2, <1>3 DEF Serves, TextOk
<1>7. ASSUME m[p].gen \notin Long
      PROVE  WaitAt(p)'
  <2>1. WaitAt(p) /\ \A r \in 1 .. Slots : tab[r].key = K(p) \/ tab'[r].key = K(p) => Spares(p, r)
    BY <1>3, <1>7 DEF SearchAt, Serves
  <2>2. ASSUME m[p].pc = "wait"
        PROVE  m'[p].s \in 1 .. Slots /\ tab'[m'[p].s].key = K(p)' /\ ~ Odd(m'[p].e) /\ Waited(p)'
    <3> DEFINE s == m[p].s
    <3>1. s \in 1 .. Slots /\ tab[s].key = K(p) /\ ~ Odd(m[p].e)
      BY <2>1, <2>2 DEF WaitAt
    <3>2. tab[s].epoch = m[p].e \/ (d.at = "commit" /\ d.s = s) \/ Met(p, tab[s].vec)
      BY <2>1, <2>2 DEF WaitAt, Waited
    <3>3. Spares(p, s)
      BY <2>1, <3>1
    <3>4. m'[p].s = s /\ m'[p].e = m[p].e /\ m[p].s = s
      OBVIOUS
    <3> HIDE DEF s, K, Asked
    <3>5. tab'[s].epoch = m[p].e \/ (d'.at = "commit" /\ d'.s = s) \/ (tab'[s].vec = Asked(p) \/ p \in swept')
      <4>1. CASE tab'[s].vec = Asked(p) \/ (d'.at = "commit" /\ d'.s = s) \/ p \in swept'
        BY <4>1
      <4>2. CASE tab'[s] = tab[s] /\ (d.at = "commit" /\ d.s = s => d'.at = "commit" /\ d'.s = s)
        BY <1>1, <3>2, <4>2
      <4>3. CASE tab'[s].vec = tab[s].vec /\ Odd(tab[s].epoch) /\ ~ (d.at = "commit" /\ d.s = s)
        <5>1. tab[s].epoch # m[p].e
          BY <3>1, <4>3
        <5>2. Met(p, tab[s].vec)
          BY <3>2, <4>3, <5>1
        <5>3. QED
          BY <1>1, <4>3, <5>2
      <4>4. QED
        BY <2>2, <3>3, <3>4, <4>1, <4>2, <4>3 DEF Spares
    <3>6. Waited(p)'
      BY <1>1, <3>4, <3>5 DEF Waited, Met
    <3>7. QED
      BY <1>1, <3>1, <3>3, <3>4, <3>6 DEF Spares
  <2>3. ASSUME m[p].pc = "fetch", NEW s \in 1 .. Slots, tab'[s].key = K(p)
        PROVE  tab'[s].vec = Asked(p) \/ p \in swept'
    <3>1. Spares(p, s)
      BY <2>1, <2>3
    <3>2. tab[s].key = K(p)
      BY <2>3, <3>1 DEF Spares
    <3>3. Met(p, tab[s].vec)
      BY <2>1, <2>3, <3>2 DEF WaitAt
    <3> HIDE DEF K, Asked
    <3>4. QED
      BY <1>1, <3>1, <3>3 DEF Spares
  <2>4. m'[p].pc = "fetch" => \A s \in 1 .. Slots : tab'[s].key = K(p)' => Met(p, tab[s].vec)'
    <3> HIDE DEF K, Asked
    <3>1. QED
      BY <1>1, <2>3 DEF Met
  <2>5. QED
    BY <2>2, <2>4 DEF WaitAt
<1>8. QED
  BY <1>4, <1>5, <1>6, <1>7 DEF SearchAt

(* The other process's step. *)
LEMMA MovesForeign ==
  ASSUME Base, NEW p \in Procs, SearchAt(p), NEW q \in Procs, p # q, Moves(q)
  PROVE  SearchAt(p)'
<1>1. m'[p] = m[p] /\ UNCHANGED << d, swept >>
  BY DEF Base, Moves, Goes, rest, others, Typed
<1>2. ASSUME m[p].do = "search"
      PROVE  Serves(p)
  <2>1. K(p) # NoKey /\ m[p].do \in Writers
    BY <1>2, ScratchIs DEF Base
  <2>2. \A r \in 1 .. Slots : tab[r].key = K(p) \/ tab'[r].key = K(p) => tab'[r] = tab[r]
    BY <2>1, Foreign DEF Base
  <2>3. /\ m[p].pc \in {"set", "link"} => Unused(K(p))
        /\ \A s \in 1 .. Slots : tab[s].key = K(p) => TextOk(p, tab[s].val) /\ VecOk(p, tab[s].vec)
        /\ d.key = K(p) => TextOk(p, d.text)
    BY <1>2 DEF SearchAt
  <2>4. \A r \in 1 .. Slots : tab[r].key = K(p) \/ tab'[r].key = K(p) => Spares(p, r)
    BY <1>1, <2>2 DEF Spares
  <2> HIDE DEF K, TextOk, VecOk
  <2>5. QED
    BY <1>1, <2>2, <2>3, <2>4 DEF Serves, Unused
<1>3. QED
  BY <1>1, <1>2, ServesSearch

(* The search's own step. *)
LEMMA MovesOwn ==
  ASSUME Base, Once, NEW p \in Procs, SearchAt(p), Moves(p), m[p].do = "search", Searches(p), m'[p].i = 0
  PROVE  SearchAt(p)'
<1>1. /\ UNCHANGED << d, swept >> /\ K(p)' = K(p) /\ Asked(p)' = Asked(p) /\ m'[p].do = "search"
      /\ m'[p].gen = m[p].gen /\ K(p) \in Keys /\ K(p) # NoKey /\ m[p].i = 0 /\ Tables(p)
      /\ Typed /\ Placed /\ Locked
  BY ScratchIs DEF Base, Moves, Goes, rest, others, K, Asked
<1>2. ASSUME m'[p].pc \in {"set", "link"}
      PROVE  d'.key # K(p) /\ \A s \in 1 .. Slots : tab'[s].key # K(p)
  <2>1. m[p].pc = "set" /\ m'[p].pc = "link"
    BY <1>2 DEF Searches
  <2>2. Unused(K(p))
    BY <2>1 DEF SearchAt
  <2>3. \E x \in 1 .. Slots : Only(x) /\ Opens(p, x)
    BY <1>1, <2>1 DEF Tables, Marks, Links, Frees
  <2> HIDE DEF K
  <2>4. QED
    BY <1>1, <2>2, <2>3 DEF Unused, Opens, Only
<1>3. \A s \in 1 .. Slots : tab[s].key = K(p) => TextOk(p, tab[s].val) /\ VecOk(p, tab[s].vec)
  BY DEF SearchAt
<1>4. ASSUME NEW s \in 1 .. Slots, tab'[s].key = K(p)
      PROVE  TextOk(p, tab'[s].val) /\ VecOk(p, tab'[s].vec)
  <2>1. CASE UNCHANGED tab
    BY <1>3, <1>4, <2>1
  <2>2. CASE \E x \in 1 .. Slots : Only(x) /\ (Marks(p, x) \/ Opens(p, x) \/ Links(p, x) \/ Frees(p, x))
    <3>1. PICK x \in 1 .. Slots : Only(x) /\ (Marks(p, x) \/ Opens(p, x) \/ Links(p, x) \/ Frees(p, x))
      BY <2>2
    <3>2. CASE s # x \/ Marks(p, x)
      <4> HIDE DEF K, TextOk, VecOk
      <4>1. QED
        BY <1>3, <1>4, <3>1, <3>2 DEF Only, Marks
    <3>3. CASE s = x /\ Opens(p, x)
      <4>1. Unused(K(p)) /\ tab[x].key = K(p)
        BY <1>4, <3>3 DEF SearchAt, Opens
      <4>2. QED
        BY <4>1 DEF Unused
    <3>4. CASE s = x /\ Links(p, x)
      <4>1. /\ Unused(K(p)) /\ x = m[p].s /\ tab'[x].val = tab[x].val /\ tab'[x].vec = tab[x].vec
            /\ Taken(x, K(p), Written(m[p]))
        BY <1>1, <3>4 DEF SearchAt, Links, Locked, LockedAt
      <4>2. tab[x].key = NoKey /\ tab[x].val = Written(m[p]) /\ tab[x].vec = Nothing
        BY <4>1 DEF Unused, Taken
      <4>3. Written(m[p]) = Asked(p)
        BY <1>1 DEF Written, Asked
      <4>4. QED
        BY <3>4, <4>1, <4>2, <4>3 DEF TextOk, VecOk
    <3>5. CASE s = x /\ Frees(p, x)
      BY <1>1, <1>4, <3>5, FreeIs DEF Frees
    <3>6. QED
      BY <3>1, <3>2, <3>3, <3>4, <3>5
  <2>3. QED
    BY <1>1, <2>1, <2>2 DEF Tables
<1>5. ASSUME m'[p].pc = "wait"
      PROVE  /\ m'[p].s \in 1 .. Slots /\ tab'[m'[p].s].key = K(p) /\ ~ Odd(m'[p].e)
             /\ tab'[m'[p].s].epoch = m'[p].e
  <2>1. UNCHANGED tab /\ Even(K(p)) /\ m'[p].s = At(K(p)) /\ m'[p].e = tab[At(K(p))].epoch
    BY <1>5 DEF Searches
  <2>2. At(K(p)) \in 1 .. Slots /\ tab[At(K(p))].key = K(p) /\ ~ Odd(tab[At(K(p))].epoch)
    BY <1>1, <2>1, FoundIs DEF Even
  <2>3. QED
    BY <2>1, <2>2
<1>6. ASSUME m[p].gen \notin Long, m'[p].pc = "fetch", NEW s \in 1 .. Slots, tab'[s].key = K(p)
      PROVE  tab'[s].vec = Asked(p) \/ p \in swept
  <2>1. UNCHANGED tab /\ Moved(p)
    BY <1>6 DEF Searches
  <2>2. /\ m[p].pc = "wait" /\ ~ Odd(tab[m[p].s].epoch) /\ tab[m[p].s].epoch # m[p].e
        /\ m[p].s \in 1 .. Slots /\ tab[m[p].s].key = K(p) /\ Waited(p)
    BY <1>6, <2>1 DEF Moved, SearchAt, WaitAt
  <2>3. ~ (d.at = "commit" /\ d.s = m[p].s)
    BY <1>1, <2>2 DEF Locked, Busied
  <2>4. s = m[p].s
    BY <1>1, <1>6, <2>1, <2>2 DEF Once
  <2>5. QED
    BY <2>1, <2>2, <2>3, <2>4 DEF Waited, Met
<1>7. ASSUME m[p].gen \notin Long
      PROVE  WaitAt(p)'
  <2>1. m'[p].pc = "wait" => m'[p].s \in 1 .. Slots /\ tab'[m'[p].s].key = K(p)' /\ ~ Odd(m'[p].e) /\ Waited(p)'
    <3> HIDE DEF K
    <3>1. QED
      BY <1>1, <1>5 DEF Waited
  <2>2. m'[p].pc = "fetch" => \A s \in 1 .. Slots : tab'[s].key = K(p)' => Met(p, tab[s].vec)'
    <3> HIDE DEF K, Asked
    <3>1. QED
      BY <1>1, <1>6, <1>7 DEF Met
  <2>3. QED
    BY <2>1, <2>2 DEF WaitAt
<1>8. m'[p].pc \in {"set", "link"} => Unused(K(p))'
  <2> HIDE DEF K
  <2>1. QED
    BY <1>1, <1>2 DEF Unused
<1>9. /\ \A s \in 1 .. Slots : tab'[s].key = K(p)' => TextOk(p, tab[s].val)' /\ VecOk(p, tab[s].vec)'
      /\ d'.key = K(p)' => TextOk(p, d.text)'
  <2>1. d.key = K(p) => TextOk(p, d.text)
    BY DEF SearchAt
  <2> HIDE DEF K, Asked
  <2>2. QED
    BY <1>1, <1>4, <2>1 DEF TextOk, VecOk
<1>10. QED
  BY <1>1, <1>7, <1>8, <1>9 DEF SearchAt

LEMMA GotStays ==
  ASSUME NEW p \in Procs, GotAt(p), p \in swept => p \in swept',
         m'[p].do = m[p].do, m'[p].gen = m[p].gen, m'[p].vec = m[p].vec, m'[p].got = m[p].got
  PROVE  GotAt(p)'
BY DEF GotAt, VecOk, Met, Asked

LEMMA MovesGot ==
  ASSUME Typed, Placed, NEW p \in Procs, SearchAt(p), GotAt(p), Moves(p), Gets(p)
  PROVE  GotAt(p)'
<1>1. Asked(p)' = Asked(p) /\ m'[p].do = m[p].do /\ m'[p].gen = m[p].gen /\ UNCHANGED swept
  BY DEF Moves, Goes, Asked, rest
<1>2. CASE m'[p].vec = m[p].vec /\ m'[p].got = m[p].got
  BY <1>1, <1>2, GotStays
<1>3. CASE m[p].do = "search" /\ m[p].pc = "fetch" /\ Even(K(p)) /\ m'[p].vec = tab[At(K(p))].vec
  <2> DEFINE s == At(K(p))
  <2>1. s \in 1 .. Slots /\ tab[s].key = K(p)
    BY <1>3, ScratchIs, FoundIs DEF Even
  <2>2. VecOk(p, tab[s].vec) /\ (m[p].gen \notin Long => Met(p, tab[s].vec))
    BY <1>3, <2>1 DEF SearchAt, WaitAt
  <2>3. m'[p].vec = tab[s].vec
    BY <1>3
  <2> HIDE DEF s, Asked
  <2>4. QED
    BY <1>1, <1>3, <2>2, <2>3 DEF GotAt, VecOk, Met
<1>4. QED
  BY <1>2, <1>3 DEF Gets

LEMMA MovesSearching ==
  ASSUME SearchInv, Once, NEW p \in Procs, Steps(p) \/ Leave(p), NEW q \in Procs
  PROVE  QueuedAt(q)' /\ SearchAt(q)' /\ GotAt(q)'
<1>1. Base /\ Typed /\ Placed /\ Locked /\ Separate /\ PlacedAt(p) /\ QueuedAt(q) /\ SearchAt(q) /\ GotAt(q)
  BY DEF SearchInv, Base, Placed
<1>2. Moves(p) /\ Gets(p) /\ (m[p].do = "search" => Searches(p) /\ m'[p].i = 0)
  BY <1>1, MovesAre, SearchesAre
<1>3. QueuedAt(q)'
  BY <1>1, <1>2, MovesQueued
<1>4. CASE q # p
  <2>1. SearchAt(q)'
    BY <1>1, <1>2, <1>4, MovesForeign
  <2>2. m'[q] = m[q] /\ UNCHANGED swept
    BY <1>1, <1>2, <1>4 DEF Moves, Goes, Typed, rest
  <2>3. QED
    BY <1>1, <1>3, <2>1, <2>2, GotStays
<1>5. CASE q = p
  <2>1. GotAt(p)'
    BY <1>1, <1>2, <1>5, MovesGot
  <2>2. CASE m[p].do = "search"
    BY <1>1, <1>2, <1>3, <1>5, <2>1, <2>2, MovesOwn
  <2>3. CASE m[p].do # "search"
    BY <1>2, <1>3, <1>5, <2>1, <2>3 DEF SearchAt, Moves, Goes
  <2>4. QED
    BY <2>2, <2>3
<1>6. QED
  BY <1>4, <1>5

(* A step of another client, or of the daemon. *)
LEMMA ElseQueued ==
  ASSUME Typed, NEW p \in Procs, QueuedAt(p), UNCHANGED todo,
         d'.key \in {d.key, NoKey} \cup {tab[s].key : s \in 1 .. Slots},
         \A s \in 1 .. Slots : tab'[s].key \in {tab[s].key, d.key}
  PROVE  QueuedAt(p)'
<1> SUFFICES ASSUME NEW j \in DOMAIN todo[p], todo[p][j].do = "search"
             PROVE  /\ d'.key # << todo[p][j].name, 0 >>
                    /\ \A r \in 1 .. Slots : tab'[r].key # << todo[p][j].name, 0 >>
  BY DEF QueuedAt, Unused
<1> DEFINE k == << todo[p][j].name, 0 >>
<1>1. d.key # k /\ \A r \in 1 .. Slots : tab[r].key # k
  BY DEF QueuedAt, Unused
<1>2. k # NoKey
  BY QueuedIs
<1> HIDE DEF k
<1>3. d'.key # k /\ \A r \in 1 .. Slots : tab'[r].key # k
  BY <1>1, <1>2
<1>4. QED
  BY <1>3 DEF k

LEMMA ElseSearching ==
  ASSUME SearchInv, UNCHANGED << m, todo >>, swept \subseteq swept',
         d'.key \in {d.key, NoKey} \cup {tab[s].key : s \in 1 .. Slots},
         \A s \in 1 .. Slots : tab'[s].key \in {tab[s].key, d.key},
         \A p \in Procs : m[p].do = "search" => Serves(p),
         NEW q \in Procs
  PROVE  QueuedAt(q)' /\ SearchAt(q)' /\ GotAt(q)'
<1>1. Typed /\ QueuedAt(q) /\ SearchAt(q) /\ GotAt(q)
  BY DEF SearchInv, Base
<1>2. QED
  BY <1>1, ElseQueued, ServesSearch, GotStays

(* Of each search: whose its key is not, and what stands at it. *)
LEMMA ServedIs ==
  ASSUME SearchInv, NEW p \in Procs, m[p].do = "search"
  PROVE  /\ K(p) # NoKey
         /\ m[p].pc \in {"set", "link"} => d.key # K(p) /\ \A r \in 1 .. Slots : tab[r].key # K(p)
         /\ \A r \in 1 .. Slots : tab[r].key = K(p) => TextOk(p, tab[r].val) /\ VecOk(p, tab[r].vec)
         /\ d.key = K(p) => TextOk(p, d.text)
         /\ d.key = K(p) /\ d.at \in {"stamp", "link", "bump"} => m[p].gen \in Long
<1>1. SearchAt(p) /\ Typed /\ Placed
  BY DEF SearchInv, Base
<1>2. K(p) # NoKey
  BY <1>1, ScratchIs
<1>3. d.key = K(p) => TextOk(p, d.text)
  BY <1>1 DEF SearchAt
<1>4. d.key = K(p) /\ d.at \in {"stamp", "link", "bump"} => m[p].gen \in Long
  BY <1>1, <1>3 DEF Typed, TextOk, Asked
<1> HIDE DEF K, TextOk, VecOk
<1>5. QED
  BY <1>1, <1>2, <1>3, <1>4 DEF SearchAt, Unused

(* The slots' keys and texts stay, and the daemon's text is of a slot. *)
LEMMA TouchServes ==
  ASSUME SearchInv, NEW p \in Procs, m[p].do = "search", Touches,
         \/ d'.key \in {d.key, NoKey} /\ (d'.key = d.key => d'.text = d.text)
         \/ \E s \in 1 .. Slots : d'.key = tab[s].key /\ d'.text = tab[s].val,
         \A r \in 1 .. Slots : tab[r].key = K(p) => VecOk(p, tab'[r].vec) /\ (m[p].gen \notin Long => Spares(p, r))
  PROVE  Serves(p)
<1>1. \A r \in 1 .. Slots : tab'[r].key = tab[r].key /\ tab'[r].val = tab[r].val
  BY DEF Touches
<1>2. /\ K(p) # NoKey
      /\ m[p].pc \in {"set", "link"} => d.key # K(p) /\ \A r \in 1 .. Slots : tab[r].key # K(p)
      /\ \A r \in 1 .. Slots : tab[r].key = K(p) => TextOk(p, tab[r].val)
      /\ d.key = K(p) => TextOk(p, d.text)
  BY ServedIs
<1> HIDE DEF K, TextOk, VecOk, Spares
<1>3. d'.key = K(p) => TextOk(p, d'.text)
  BY <1>2
<1>4. m[p].pc \in {"set", "link"} => d'.key # K(p) /\ \A r \in 1 .. Slots : tab'[r].key # K(p)
  BY <1>1, <1>2
<1>5. QED
  BY <1>1, <1>2, <1>3, <1>4 DEF Serves

LEMMA HandlesServes ==
  ASSUME SearchInv, NEW s \in 1 .. Slots, Hold(s) \/ Release(s), NEW p \in Procs, m[p].do = "search"
  PROVE  Serves(p)
<1>1. Typed /\ Placed /\ Busied
  BY DEF SearchInv, Base, Locked
<1>2. Handles(s)
  BY <1>1, HoldIs, ReleaseIs
<1>3. ASSUME NEW r \in 1 .. Slots
      PROVE  tab'[r].vec = tab[r].vec /\ Spares(p, r)
  <2>1. tab'[r].key = tab[r].key /\ tab'[r].vec = tab[r].vec /\ UNCHANGED d /\ (r # s => tab'[r] = tab[r])
    BY <1>2 DEF Handles, Touches, Only
  <2>2. CASE r # s
    BY <2>1, <2>2 DEF Spares
  <2>3. CASE r = s /\ Hold(s)
    <3>1. swept' = swept \cup {q \in Procs : m[q].pc = "wait" /\ m[q].s = s}
      BY <2>3 DEF Hold
    <3>2. QED
      BY <2>1, <2>3, <3>1 DEF Spares
  <2>4. CASE r = s /\ Release(s)
    <3>1. s \in held
      BY <2>4 DEF Release
    <3>2. Odd(tab[s].epoch) /\ ~ (d.at = "commit" /\ d.s = s)
      BY <1>1, <3>1 DEF Busied
    <3>3. QED
      BY <2>1, <2>4, <3>2 DEF Spares
  <2>5. QED
    BY <2>1, <2>2, <2>3, <2>4
<1>4. \A r \in 1 .. Slots : tab[r].key = K(p) => VecOk(p, tab'[r].vec) /\ Spares(p, r)
  <2>1. \A r \in 1 .. Slots : tab[r].key = K(p) => VecOk(p, tab[r].vec)
    BY ServedIs
  <2> HIDE DEF K, VecOk, Spares
  <2>2. QED
    BY <1>3, <2>1
<1>5. Touches /\ UNCHANGED d
  BY <1>2 DEF Handles
<1>6. QED
  BY <1>4, <1>5, TouchServes

(* Where the vectors stay too, and the daemon is at no slot, or comes to one. *)
LEMMA ReadServes ==
  ASSUME SearchInv, NEW p \in Procs, m[p].do = "search", Touches, d.at # "commit",
         \/ d'.key \in {d.key, NoKey} /\ (d'.key = d.key => d'.text = d.text)
         \/ \E s \in 1 .. Slots : d'.key = tab[s].key /\ d'.text = tab[s].val,
         \A r \in 1 .. Slots :
           /\ tab'[r].vec = tab[r].vec
           /\ tab'[r] = tab[r] \/ (d'.at = "commit" /\ d'.s = r) \/ (tab[r].key = d.key /\ d.at = "bump")
  PROVE  Serves(p)
<1>1. ASSUME NEW r \in 1 .. Slots, tab[r].key = K(p)
      PROVE  VecOk(p, tab'[r].vec) /\ (m[p].gen \notin Long => Spares(p, r))
  <2>1. VecOk(p, tab'[r].vec)
    BY <1>1, ServedIs
  <2>2. m[p].gen \notin Long => tab'[r] = tab[r] \/ (d'.at = "commit" /\ d'.s = r)
    BY <1>1, ServedIs
  <2>3. m[p].gen \notin Long => Spares(p, r)
    <3>1. tab'[r].key = tab[r].key
      BY DEF Touches
    <3>2. QED
      BY <2>2, <3>1 DEF Spares
  <2>4. QED
    BY <2>1, <2>3
<1>2. QED
  BY <1>1, TouchServes

LEMMA CloseServes ==
  ASSUME SearchInv, EmbedClose, NEW p \in Procs, m[p].do = "search"
  PROVE  Serves(p)
<1>1. Typed /\ Placed /\ Busied
  BY DEF SearchInv, Base, Locked
<1>2. /\ Touches /\ d.at = "commit" /\ d.s \in 1 .. Slots /\ Only(d.s)
      /\ tab'[d.s].vec = (IF TooLong THEN Nothing ELSE d.text)
      /\ d'.key \in {d.key, NoKey} /\ (d'.key = d.key => d'.text = d.text)
  BY <1>1, EmbedCloseIs, AwayIs, CommandsAssumption
<1>3. ASSUME NEW r \in 1 .. Slots, tab[r].key = K(p)
      PROVE  VecOk(p, tab'[r].vec) /\ (m[p].gen \notin Long => Spares(p, r))
  <2>1. tab'[r].key = tab[r].key
    BY <1>2 DEF Touches
  <2>2. CASE r # d.s
    <3>1. tab'[r] = tab[r] /\ VecOk(p, tab[r].vec)
      BY <1>2, <1>3, <2>2, ServedIs DEF Only
    <3>2. QED
      BY <2>2, <3>1 DEF Spares
  <2>3. CASE r = d.s
    <3>1. d.key = K(p)
      BY <1>1, <1>2, <1>3, <2>3 DEF Busied
    <3>2. TextOk(p, d.text)
      BY <3>1, ServedIs
    <3>3. VecOk(p, tab'[r].vec)
      BY <1>2, <2>3, <3>2 DEF TextOk, VecOk
    <3>4. m[p].gen \notin Long => tab'[r].vec = Asked(p)
      BY <1>2, <2>3, <3>2 DEF TextOk, TooLong, Asked
    <3>5. QED
      BY <2>1, <3>3, <3>4 DEF Spares
  <2>4. QED
    BY <2>2, <2>3
<1>4. QED
  BY <1>2, <1>3, TouchServes

(* The diagnostic takes the place of a text that is too long. *)
LEMMA StampServes ==
  ASSUME SearchInv, d.at \in {"stamp", "link"}, d.key # NoKey,
         d'.key \in {d.key, NoKey} /\ (d'.key = d.key => d'.text = d.text),
         \/ UNCHANGED tab
         \/ \E s \in 1 .. Slots :
              /\ Only(s) /\ tab[s].key \in {NoKey, d.key} /\ tab'[s].key \in {NoKey, d.key}
              /\ tab'[s].val = Excuse /\ (tab[s].key = NoKey => tab'[s].vec = Nothing)
              /\ (tab[s].key # NoKey => tab'[s].vec = tab[s].vec),
         NEW p \in Procs, m[p].do = "search"
  PROVE  Serves(p)
<1>1. /\ K(p) # NoKey
      /\ m[p].pc \in {"set", "link"} => d.key # K(p) /\ \A r \in 1 .. Slots : tab[r].key # K(p)
      /\ \A r \in 1 .. Slots : tab[r].key = K(p) => TextOk(p, tab[r].val) /\ VecOk(p, tab[r].vec)
      /\ d.key = K(p) => TextOk(p, d.text)
      /\ d.key = K(p) => m[p].gen \in Long
  BY ServedIs
<1>2. \A r \in 1 .. Slots : tab'[r] = tab[r] \/ (tab[r].key \in {NoKey, d.key} /\ tab'[r].key \in {NoKey, d.key})
  BY DEF Only
<1>3. ASSUME NEW r \in 1 .. Slots, tab'[r].key = K(p)
      PROVE  TextOk(p, tab'[r].val) /\ VecOk(p, tab'[r].vec)
  <2>1. CASE tab'[r] = tab[r]
    BY <1>1, <1>3, <2>1
  <2>2. CASE /\ Only(r) /\ tab[r].key \in {NoKey, d.key} /\ tab'[r].key \in {NoKey, d.key}
             /\ tab'[r].val = Excuse /\ (tab[r].key = NoKey => tab'[r].vec = Nothing)
             /\ (tab[r].key # NoKey => tab'[r].vec = tab[r].vec)
    <3>1. d.key = K(p) /\ m[p].gen \in Long
      BY <1>1, <1>3, <2>2
    <3>2. TextOk(p, tab'[r].val)
      BY <2>2, <3>1 DEF TextOk
    <3>3. VecOk(p, tab'[r].vec)
      <4>1. CASE tab[r].key = NoKey
        BY <2>2, <4>1 DEF VecOk
      <4>2. CASE tab[r].key # NoKey
        <5>1. tab[r].key = K(p) /\ tab'[r].vec = tab[r].vec
          BY <2>2, <3>1, <4>2
        <5>2. QED
          BY <1>1, <5>1
      <4>3. QED
        BY <4>1, <4>2
    <3>4. QED
      BY <3>2, <3>3
  <2>3. QED
    BY <2>1, <2>2 DEF Only
<1>4. ASSUME m[p].gen \notin Long, NEW r \in 1 .. Slots, tab[r].key = K(p) \/ tab'[r].key = K(p)
      PROVE  Spares(p, r)
  <2>1. tab'[r] = tab[r]
    BY <1>1, <1>2, <1>4
  <2>2. QED
    BY <2>1 DEF Spares
<1>5. m[p].pc \in {"set", "link"} => d'.key # K(p) /\ \A r \in 1 .. Slots : tab'[r].key # K(p)
  <2> HIDE DEF K
  <2>1. QED
    BY <1>1, <1>2
<1>6. d'.key = K(p) => TextOk(p, d'.text)
  BY <1>1
<1> HIDE DEF K, TextOk, VecOk, Spares
<1>7. QED
  BY <1>3, <1>4, <1>5, <1>6 DEF Serves

LEMMA StampsServe ==
  ASSUME SearchInv, StampOpen \/ StampLink
  PROVE  /\ \A p \in Procs : m[p].do = "search" => Serves(p)
         /\ UNCHANGED << m, todo, swept >> /\ d'.key \in {d.key, NoKey}
         /\ \A s \in 1 .. Slots : tab'[s].key \in {tab[s].key, d.key}
<1>1. Typed /\ Placed /\ Busied
  BY DEF SearchInv, Base, Locked
<1>2. d.key \in Keys /\ d.key # NoKey /\ d.at \in {"stamp", "link"} /\ UNCHANGED << m, todo, swept >>
  BY <1>1, StampOpenIs, StampLinkIs, CommandsAssumption DEF unembedded
<1>3. d'.key \in {d.key, NoKey} /\ (d'.key = d.key => d'.text = d.text)
  <2>1. CASE StampOpen
    BY <1>1, <1>2, <2>1, StampOpenIs, AwayIs DEF StampOpens
  <2>2. CASE StampLink
    BY <1>1, <1>2, <2>2, StampLinkIs DEF StampLinks
  <2>3. QED
    BY <2>1, <2>2
<1>4. \/ UNCHANGED tab
      \/ \E s \in 1 .. Slots :
           /\ Only(s) /\ tab[s].key \in {NoKey, d.key} /\ tab'[s].key \in {NoKey, d.key}
           /\ tab'[s].val = Excuse /\ (tab[s].key = NoKey => tab'[s].vec = Nothing)
           /\ (tab[s].key # NoKey => tab'[s].vec = tab[s].vec)
           /\ tab'[s].key \in {tab[s].key, d.key}
  <2>1. CASE StampOpen
    <3>1. UNCHANGED tab \/ \E s \in 1 .. Slots : StampOpens(s) /\ Only(s)
      BY <1>1, <2>1, StampOpenIs DEF Still
    <3>2. QED
      BY <1>2, <3>1 DEF StampOpens
  <2>2. CASE StampLink
    <3>1. d.at = "link" /\ d.s \in 1 .. Slots /\ StampLinks(d.s) /\ Only(d.s)
      BY <1>1, <2>2, StampLinkIs
    <3>2. Taken(d.s, d.key, Excuse)
      BY <1>1, <3>1 DEF Busied
    <3>3. QED
      BY <3>1, <3>2 DEF StampLinks, Taken
  <2>3. QED
    BY <2>1, <2>2
<1>5. ASSUME NEW p \in Procs, m[p].do = "search"
      PROVE  Serves(p)
  <2>1. \/ UNCHANGED tab
        \/ \E s \in 1 .. Slots :
              /\ Only(s) /\ tab[s].key \in {NoKey, d.key} /\ tab'[s].key \in {NoKey, d.key}
              /\ tab'[s].val = Excuse /\ (tab[s].key = NoKey => tab'[s].vec = Nothing)
              /\ (tab[s].key # NoKey => tab'[s].vec = tab[s].vec)
    BY <1>4
  <2>2. QED
    BY <1>2, <1>3, <1>5, <2>1, StampServes
<1>6. \A s \in 1 .. Slots : tab'[s].key \in {tab[s].key, d.key}
  BY <1>4 DEF Only
<1>7. QED
  BY <1>2, <1>3, <1>5, <1>6

(* A search begins, or stops. *)
LEMMA BeginsSearching ==
  ASSUME SearchInv, NEW p \in Procs, Begins(p), PlacedAt(p)', NEW q \in Procs
  PROVE  QueuedAt(q)' /\ SearchAt(q)' /\ GotAt(q)'
<1>1. Typed /\ Separate /\ \A o \in Procs : QueuedAt(o) /\ SearchAt(o) /\ GotAt(o)
  BY DEF SearchInv, Base
<1>2. /\ \A o \in Procs \ {p} : m'[o] = m[o] /\ todo'[o] = todo[o]
      /\ \E j \in DOMAIN todo[p] : Current(p)' = todo[p][j]
      /\ \A j \in DOMAIN todo'[p] : \E i \in DOMAIN todo[p] : todo'[p][j] = todo[p][i]
      /\ UNCHANGED << tab, d >> /\ swept' = swept \ {p}
  BY <1>1, BeginsSeparate DEF Begins, others
<1>3. CASE q # p
  <2>1. m'[q] = m[q] /\ todo'[q] = todo[q] /\ (q \in swept => q \in swept')
    BY <1>2, <1>3
  <2>2. QueuedAt(q)' /\ GotAt(q)'
    BY <1>1, <1>2, <2>1, GotStays DEF QueuedAt, Unused
  <2>3. m[q].do = "search" => Serves(q)
    <3>1. UNCHANGED << tab, d >>
      BY <1>2
    <3>2. ASSUME m[q].do = "search"
          PROVE  /\ m[q].pc \in {"set", "link"} => d.key # K(q) /\ \A r \in 1 .. Slots : tab[r].key # K(q)
                 /\ \A r \in 1 .. Slots : tab[r].key = K(q) => TextOk(q, tab[r].val) /\ VecOk(q, tab[r].vec)
                 /\ d.key = K(q) => TextOk(q, d.text)
      BY <3>2, ServedIs
    <3>3. \A r \in 1 .. Slots : Spares(q, r)
      BY <3>1 DEF Spares
    <3> HIDE DEF K, TextOk, VecOk, Spares
    <3>4. QED
      BY <3>1, <3>2, <3>3 DEF Serves
  <2>4. QED
    BY <1>1, <2>1, <2>2, <2>3, ServesSearch
<1>4. CASE q = p
  <2>1. QueuedAt(p)'
    BY <1>1, <1>2 DEF QueuedAt, Unused
  <2>2. GotAt(p)'
    BY DEF Begins, GotAt
  <2>3. ASSUME m'[p].do = "search"
        PROVE  SearchAt(p)'
    <3>1. PICK j \in DOMAIN todo[p] : Current(p)' = todo[p][j]
      BY <1>2
    <3>2. m'[p].do = todo[p][j].do /\ m'[p].name = todo[p][j].name
      BY <3>1 DEF Current
    <3>3. Current(p)' = Head(todo[p]) /\ m'[p].pc = "set" /\ m'[p].i = First(Head(todo[p]))
      BY <2>3 DEF Begins, Entry
    <3>4. m'[p].i = 0
      BY <2>3, <3>3 DEF First, Current
    <3> DEFINE k == << todo[p][j].name, 0 >>
    <3>5. K(p)' = k /\ Unused(k)
      BY <1>1, <2>3, <3>2, <3>4 DEF QueuedAt, K
    <3> HIDE DEF k
    <3>6. d'.key # k /\ \A s \in 1 .. Slots : tab'[s].key # k
      BY <1>2, <3>5 DEF Unused
    <3>7. WaitAt(p)'
      BY <3>3 DEF WaitAt
    <3> HIDE DEF K
    <3>8. QED
      BY <3>5, <3>6, <3>7 DEF SearchAt, Unused
  <2>4. SearchAt(p)'
    BY <2>3 DEF SearchAt
  <2>5. QED
    BY <1>4, <2>1, <2>2, <2>4
<1>5. QED
  BY <1>3, <1>4

LEMMA StopsSearching ==
  ASSUME SearchInv, NEW p \in Procs, Stops(p), NEW q \in Procs
  PROVE  QueuedAt(q)' /\ SearchAt(q)' /\ GotAt(q)'
<1>1. Typed /\ QueuedAt(q) /\ SearchAt(q) /\ GotAt(q)
  BY DEF SearchInv, Base
<1>2. UNCHANGED << tab, d, todo, swept >> /\ (q # p => m'[q] = m[q])
  BY <1>1 DEF Stops, Typed
<1>3. QueuedAt(q)'
  BY <1>1, <1>2 DEF QueuedAt, Unused
<1>4. CASE q # p
  <2>1. m'[q] = m[q]
    BY <1>2, <1>4
  <2>2. m[q].do = "search" => Serves(q)
    <3>1. ASSUME m[q].do = "search"
          PROVE  /\ m[q].pc \in {"set", "link"} => d.key # K(q) /\ \A r \in 1 .. Slots : tab[r].key # K(q)
                 /\ \A r \in 1 .. Slots : tab[r].key = K(q) => TextOk(q, tab[r].val) /\ VecOk(q, tab[r].vec)
                 /\ d.key = K(q) => TextOk(q, d.text)
      BY <3>1, ServedIs
    <3>2. \A r \in 1 .. Slots : Spares(q, r)
      BY <1>2 DEF Spares
    <3> HIDE DEF K, TextOk, VecOk, Spares
    <3>3. QED
      BY <1>2, <3>1, <3>2 DEF Serves
  <2>3. QED
    BY <1>1, <1>2, <1>3, <2>1, <2>2, ServesSearch, GotStays
<1>5. CASE q = p
  BY <1>3, <1>5 DEF Stops, SearchAt, GotAt
<1>6. QED
  BY <1>4, <1>5

LEMMA SearchStep ==
  ASSUME SearchInv, Once, [CommandsNext]_commandVars
  PROVE  SearchInv'
<1>1. Base' /\ Typed /\ Placed
  BY BaseStep DEF SearchInv, Base
<1> SUFFICES ASSUME NEW q \in Procs
             PROVE  QueuedAt(q)' /\ SearchAt(q)' /\ GotAt(q)'
  BY <1>1 DEF SearchInv
<1>2. ASSUME NEW p \in Procs, Steps(p) \/ Leave(p)
      PROVE  QueuedAt(q)' /\ SearchAt(q)' /\ GotAt(q)'
  BY <1>2, MovesSearching
<1>3. ASSUME NEW p \in Procs, Start(p)
      PROVE  QueuedAt(q)' /\ SearchAt(q)' /\ GotAt(q)'
  BY <1>1, <1>3, StartIs, BeginsSearching
<1>4. ASSUME NEW p \in Procs, Kill(p)
      PROVE  QueuedAt(q)' /\ SearchAt(q)' /\ GotAt(q)'
  BY <1>1, <1>4, KillIs, StopsSearching
<1>5. ASSUME Touches, swept \subseteq swept',
             d'.key \in {d.key, NoKey} \cup {tab[s].key : s \in 1 .. Slots},
             \A p \in Procs : m[p].do = "search" => Serves(p)
      PROVE  QueuedAt(q)' /\ SearchAt(q)' /\ GotAt(q)'
  <2>1. UNCHANGED << m, todo >> /\ \A s \in 1 .. Slots : tab'[s].key \in {tab[s].key, d.key}
    BY <1>5 DEF Touches
  <2>2. QED
    BY <1>5, <2>1, ElseSearching
<1>6. ASSUME NEW s \in 1 .. Slots, Hold(s) \/ Release(s)
      PROVE  QueuedAt(q)' /\ SearchAt(q)' /\ GotAt(q)'
  <2>1. Touches /\ UNCHANGED d /\ swept \subseteq swept'
    BY <1>1, <1>6, HoldIs, ReleaseIs DEF Handles
  <2>2. QED
    BY <1>5, <1>6, <2>1, HandlesServes
<1>7. ASSUME Touches, d.at # "commit", swept' = swept,
             \/ d'.key \in {d.key, NoKey} /\ (d'.key = d.key => d'.text = d.text)
             \/ \E s \in 1 .. Slots : d'.key = tab[s].key /\ d'.text = tab[s].val,
             \A r \in 1 .. Slots :
               /\ tab'[r].vec = tab[r].vec
               /\ tab'[r] = tab[r] \/ (d'.at = "commit" /\ d'.s = r) \/ (tab[r].key = d.key /\ d.at = "bump")
      PROVE  QueuedAt(q)' /\ SearchAt(q)' /\ GotAt(q)'
  <2>1. \A p \in Procs : m[p].do = "search" => Serves(p)
    BY <1>7, ReadServes
  <2>2. d'.key \in {d.key, NoKey} \cup {tab[s].key : s \in 1 .. Slots}
    BY <1>7
  <2>3. QED
    BY <1>5, <1>7, <2>1, <2>2
<1>8. CASE EmbedRead
  <2>1. /\ Touches /\ UNCHANGED << tab, swept >> /\ d.at = "idle"
        /\ \E s \in 1 .. Slots : d'.key = tab[s].key /\ d'.text = tab[s].val
    BY <1>1, <1>8, EmbedReadIs
  <2>2. QED
    BY <1>7, <2>1
<1>9. CASE EmbedOpen
  <2>1. /\ Touches /\ UNCHANGED swept /\ d.at = "decode" /\ d.key # NoKey
        /\ d'.key \in {d.key, NoKey} /\ (d'.key = d.key => d'.text = d.text)
    BY <1>1, <1>9, EmbedOpenIs, AwayIs, CommandsAssumption DEF unembedded
  <2>2. \A r \in 1 .. Slots : tab'[r].vec = tab[r].vec /\ (tab'[r] = tab[r] \/ (d'.at = "commit" /\ d'.s = r))
    BY <1>1, <1>9, EmbedOpenIs DEF Only
  <2>3. QED
    BY <1>7, <2>1, <2>2
<1>10. CASE EmbedClose
  <2>1. Touches /\ UNCHANGED swept /\ d'.key \in {d.key, NoKey}
    BY <1>1, <1>10, EmbedCloseIs, AwayIs DEF unembedded
  <2>2. QED
    BY <1>5, <1>10, <2>1, CloseServes
<1>11. CASE StampOpen \/ StampLink
  <2>1. /\ \A p \in Procs : m[p].do = "search" => Serves(p)
        /\ UNCHANGED << m, todo, swept >> /\ d'.key \in {d.key, NoKey}
        /\ \A s \in 1 .. Slots : tab'[s].key \in {tab[s].key, d.key}
    BY <1>11, StampsServe
  <2>2. QED
    BY <2>1, ElseSearching
<1>12. CASE StampBump
  <2>1. Touches /\ UNCHANGED swept /\ d.at = "bump" /\ d.key # NoKey /\ d'.key = NoKey
    BY <1>1, <1>12, StampBumpIs, AwayIs, CommandsAssumption DEF unembedded
  <2>2. \A r \in 1 .. Slots : tab'[r].vec = tab[r].vec /\ (tab'[r] = tab[r] \/ tab[r].key = d.key)
    BY <1>1, <1>12, StampBumpIs DEF Only
  <2>3. QED
    BY <1>7, <2>1, <2>2
<1>13. CASE UNCHANGED commandVars
  <2>1. Touches /\ UNCHANGED << tab, m, d, swept >>
    BY <1>13 DEF commandVars, Touches
  <2>2. \A p \in Procs : m[p].do = "search" => Serves(p)
    <3> SUFFICES ASSUME NEW p \in Procs, m[p].do = "search"
                 PROVE  Serves(p)
      OBVIOUS
    <3>1. /\ m[p].pc \in {"set", "link"} => d.key # K(p) /\ \A r \in 1 .. Slots : tab[r].key # K(p)
          /\ \A r \in 1 .. Slots : tab[r].key = K(p) => TextOk(p, tab[r].val) /\ VecOk(p, tab[r].vec)
          /\ d.key = K(p) => TextOk(p, d.text)
      BY ServedIs
    <3>2. \A r \in 1 .. Slots : Spares(p, r)
      BY <2>1 DEF Spares
    <3> HIDE DEF K, TextOk, VecOk, Spares
    <3>3. QED
      BY <2>1, <3>1, <3>2 DEF Serves
  <2>3. QED
    BY <1>5, <2>1, <2>2
<1>14. QED
  BY <1>2, <1>3, <1>4, <1>6, <1>8, <1>9, <1>10, <1>11, <1>12, <1>13 DEF CommandsNext

LEMMA SearchInit ==
  ASSUME Sorted, CommandsInit
  PROVE  SearchInv
<1>1. PICK c \in Scenes : Opened(c)
  BY OpenedIs
<1>2. Base /\ Typed
  BY OpenedIs DEF Base
<1>3. d.key = NoKey /\ todo = c.todo /\ \A s \in 1 .. Slots : tab[s].key = c.keys[s]
  BY <1>1, AwayIs DEF Opened
<1>4. ASSUME NEW p \in Procs
      PROVE  QueuedAt(p)
  <2> SUFFICES ASSUME NEW j \in DOMAIN todo[p], todo[p][j].do = "search"
               PROVE  Unused(<< todo[p][j].name, 0 >>)
    BY DEF QueuedAt
  <2> DEFINE k == << todo[p][j].name, 0 >>
  <2>1. k \notin Stocked(c)
    BY <1>3 DEF Sorted
  <2>2. k # NoKey
    BY <1>2, QueuedIs
  <2> HIDE DEF k
  <2>3. Unused(k)
    BY <1>3, <2>1, <2>2 DEF Unused, Stocked
  <2>4. QED
    BY <2>3 DEF k
<1>5. \A p \in Procs : m[p].do # "search" /\ ~ m[p].got
  BY <1>1 DEF Opened
<1>6. QED
  BY <1>2, <1>4, <1>5 DEF SearchInv, SearchAt, GotAt

LEMMA SearchShows ==
  ASSUME SearchInv
  PROVE  SearchTrue
<1> SUFFICES ASSUME NEW p \in Procs, m[p].got
             PROVE  \/ m[p].vec = Written([m[p] EXCEPT !.i = 0])
                    \/ m[p].vec = Nothing /\ p \in swept
                    \/ m[p].vec \in {Nothing, Excuse} /\ m[p].gen \in Long
  BY DEF SearchTrue
<1>1. m[p].do = "search" /\ VecOk(p, m[p].vec) /\ (m[p].gen \notin Long => Met(p, m[p].vec)) /\ m[p] \in Local
  BY DEF SearchInv, Base, GotAt, Typed
<1> DEFINE c == [m[p] EXCEPT !.i = 0]
<1>2. c.do = m[p].do /\ c.gen = m[p].gen /\ c.i = 0
  BY <1>1 DEF Local
<1> HIDE DEF c
<1>3. Written(c) = Asked(p)
  BY <1>1, <1>2 DEF Written, Asked
<1>4. m[p].vec = Asked(p) \/ (m[p].vec = Nothing /\ p \in swept) \/ (m[p].vec \in {Nothing, Excuse} /\ m[p].gen \in Long)
  BY <1>1 DEF VecOk, Met
<1>5. QED
  BY <1>3, <1>4 DEF c

(* The vector that cmd_search is given at the end of its wait is that of   *)
(* its own text, or zeros where another client's call met the wait, or     *)
(* where the text is too long for the daemon's model the zeros or the      *)
(* vector of its diagnostic: once the search has looked at the epoch of    *)
(* its scratch key only the daemon and such a call move it, and what the   *)
(* daemon has read of that key is the search's own text.                   *)
THEOREM SearchesTrue ==
  ASSUME Sorted
  PROVE  CommandsSpec /\ []Once => []SearchTrue
<1>1. CommandsInit => SearchInv
  BY SearchInit
<1>2. SearchInv /\ Once /\ [CommandsNext]_commandVars => SearchInv'
  BY SearchStep
<1>3. SearchInv => SearchTrue
  BY SearchShows
<1>4. QED
  BY <1>1, <1>2, <1>3, PTL DEF CommandsSpec

-----------------------------------------------------------------------------
(* Where no key comes to be in two slots. *)
Dealt(c) == \A p \in Procs : \A e \in Pending(p) : e.do = "none" \/ e \in Given(c)
Own(c)   == Stocked(c) \cup Sets(c)

(* A process killed in a set has left the slot locked, and nobody else     *)
(* will set its key. *)
Left(c, q, s) ==
  /\ m[q].pc = "dead" /\ m[q].s = s /\ K(q) \in Keys \cap Sets(c) /\ Home[K(q)] = s
  /\ \A p \in Procs \ {q} : \A e \in Pending(p) : e.do \in Writers => e.name # m[q].name
  /\ c.embeds = 0 \/ Unused(K(q))

Occupied(c, s) ==
  \/ \E q \in Procs : m[q].pc = "link" /\ m[q].s = s
  \/ d.at \in {"commit", "link"} /\ d.s = s
  \/ \E q \in Procs : Left(c, q, s)

Homed(c) == \A s \in 1 .. Slots : tab[s].key # NoKey => tab[s].key \in Own(c) /\ Home[tab[s].key] = s
Seated   == \A p \in Procs : m[p].pc = "link" => m[p].s = Home[K(p)]
Manned(c) == \A s \in 1 .. Slots : Odd(tab[s].epoch) => Occupied(c, s)
Served(c) ==
  /\ c.embeds = 0 => embeds = 0 /\ d.at = "idle"
  /\ d.at # "idle" => d.key \in Own(c)
  /\ d.at = "link" => d.s = Home[d.key]

RootedAt(c) == Rooted(c) /\ Dealt(c) /\ holds = 0 /\ held = {} /\ Homed(c) /\ Seated /\ Manned(c) /\ Served(c)

FilledAt(c) == Filled(c) /\ Dealt(c) /\ \A s \in 1 .. Slots : tab[s].key = c.keys[s]

OnceInv == SearchInv /\ \E c \in Scenes : RootedAt(c) \/ FilledAt(c)

LEMMA OnceIs ==
  ASSUME OnceInv
  PROVE  Once
BY DEF OnceInv, RootedAt, Homed, FilledAt, Filled, Once

(* A set whose key's home is free, or holds the key, takes the home. *)
LEMMA HomeIs ==
  ASSUME NEW k \in Keys, tab[Home[k]].key \in {NoKey, k}, ~ Odd(tab[Home[k]].epoch)
  PROVE  RoomAt(k) = Home[k]
<1> DEFINE q == Probe(k)
           h == Home[k]
           I == {i \in 1 .. Len(q) : tab[q[i]].key \in {NoKey, k} /\ ~ Odd(tab[q[i]].epoch)}
<1>1. Room(k) = IF I # {} THEN Min(I) ELSE 0
  BY DEF Room, SelectInSeq
<1>2. Len(q) = Slots /\ Slots \in Nat \ {0} /\ h \in 1 .. Slots
  BY ProbeIs, CommandsAssumption
<1>3. q[1] = h
  <2>1. q[1] = 1 + ((h + 1 - 2) % Slots)
    BY <1>2 DEF Probe
  <2>2. (h + 1 - 2) % Slots = h - 1
    BY <1>2
  <2> HIDE DEF q, h
  <2>3. QED
    BY <1>2, <2>1, <2>2
<1>4. 1 \in I /\ I \in SUBSET Nat
  BY <1>2, <1>3
<1>5. Min(I) \in I /\ Min(I) <= 1
  BY <1>4, Least
<1>6. Min(I) \in 1 .. Slots
  BY <1>2, <1>5
<1> HIDE DEF I
<1>7. Room(k) = 1
  BY <1>1, <1>4, <1>5, <1>6
<1>8. QED
  BY <1>3, <1>7 DEF RoomAt

(* Who is in a set goes on to link; who is killed does not go on. *)
LEMMA LinkersAre ==
  ASSUME NEW p \in Procs, Steps(p) \/ Leave(p), m[p].pc \in {"link", "dead"}
  PROVE  SetLink(p)
<1>1. ~ (SetOpen(p) \/ SetFails(p) \/ Chunk(p) \/ Metadata(p) \/ Query(p))
  BY DEF SetOpen, SetFails, Chunk, Metadata, Query
<1>2. ~ (Unset(p) \/ Disorder(p) \/ Cleanup(p) \/ Look(p) \/ Moved(p) \/ SearchPoll(p) \/ SearchFetch(p))
  BY DEF Unset, Disorder, Cleanup, Look, Moved, SearchPoll, SearchFetch, Refused, Expired
<1>3. ~ (WatchPoll(p) \/ WatchFetch(p) \/ Leave(p) \/ Collect(p) \/ RowStep(p) \/ RowCopy(p) \/ RowCheck(p) \/ Listed(p))
  BY DEF WatchPoll, WatchFetch, Leave, Collect, RowStep, RowCopy, RowCheck, Listed, Refused, Expired
<1>4. ~ (ValueStep(p) \/ Exported(p) \/ Score(p))
  BY DEF ValueStep, Exported, Score
<1>5. QED
  BY <1>1, <1>2, <1>3, <1>4 DEF Steps

(* The key a process sets is one that its command goes through. *)
LEMMA SetsKey ==
  ASSUME NEW c, Placed, Dealt(c), NEW p \in Procs, m[p].do \in Setters
  PROVE  /\ Current(p) \in Given(c) /\ Current(p) \in Pending(p) /\ Current(p).do = m[p].do
         /\ Current(p).name = m[p].name /\ K(p) \in Sets(c)
<1>1. Current(p) \in Pending(p) /\ Current(p).do = m[p].do /\ Current(p).name = m[p].name
  BY DEF Pending, Current
<1>2. Current(p) \in Given(c)
  BY <1>1 DEF Dealt, Setters
<1>3. m[p].i \in Orders(Current(p))
  <2>1. CASE m[p].do \in {"ingest", "orders"}
    BY <2>1 DEF Placed, PlacedAt
  <2>2. CASE m[p].do = "search"
    <3>1. m[p].i = 0
      BY <2>2 DEF Placed, PlacedAt
    <3>2. Orders(Current(p)) = {0}
      BY <1>1, <2>2 DEF Orders
    <3>3. QED
      BY <3>1, <3>2
  <2>3. QED
    BY <2>1, <2>2 DEF Setters
<1> DEFINE e == Current(p)
<1>4. e \in {x \in Given(c) : x.do \in Setters} /\ K(p) = << e.name, m[p].i >> /\ m[p].i \in Orders(e)
  BY <1>1, <1>2, <1>3 DEF K
<1> HIDE DEF e
<1>5. K(p) \in Sets(c)
  BY <1>4 DEF Sets
<1>6. QED
  BY <1>1, <1>2, <1>5

(* Where texts are embedded, only searches set. *)
LEMMA SettersAre ==
  ASSUME SearchInv, NEW c, RootedAt(c), NEW p \in Procs, m[p].pc \in {"set", "link"}
  PROVE  /\ m[p].do \in Setters /\ m[p].do \in Writers /\ K(p) \in Keys /\ K(p) \in Sets(c)
         /\ c.embeds = 0 \/ Unused(K(p))
<1>1. /\ Typed /\ Placed /\ Dealt(c) /\ Rooted(c) /\ SearchAt(p) /\ PlacedAt(p)
  BY DEF SearchInv, Base, RootedAt, Placed
<1>2. m[p].do \in Setters /\ m[p].do \in Writers /\ K(p) \in Keys
  BY <1>1, SetPlaces
<1>3. K(p) \in Sets(c) /\ Current(p) \in Given(c) /\ Current(p).do = m[p].do
  BY <1>1, <1>2, SetsKey
<1>4. c.embeds = 0 \/ m[p].do = "search"
  BY <1>1, <1>2, <1>3 DEF Rooted
<1>5. QED
  BY <1>1, <1>2, <1>3, <1>4 DEF SearchAt

(* A set finds the home of a key that nobody else is at. *)
LEMMA HomeFree ==
  ASSUME SearchInv, NEW c, RootedAt(c), NEW k \in Keys, k \in Own(c),
         \A q \in Procs : m[q].pc = "link" => K(q) # k,
         d.at \in {"commit", "link"} => d.key # k,
         \A q \in Procs, s \in 1 .. Slots : Left(c, q, s) => K(q) # k
  PROVE  RoomAt(k) = Home[k]
<1> DEFINE h == Home[k]
<1>1. h \in 1 .. Slots /\ Busied /\ Homed(c) /\ Manned(c) /\ Seated /\ Served(c)
  BY CommandsAssumption DEF SearchInv, Base, Locked, RootedAt
<1>2. \A j \in Own(c) : Home[j] = h => j = k
  BY DEF RootedAt, Rooted, Own
<1>3. tab[h].key \in {NoKey, k}
  BY <1>1, <1>2 DEF Homed
<1>4. ~ Odd(tab[h].epoch)
  <2>1. SUFFICES ASSUME Odd(tab[h].epoch)
                 PROVE  FALSE
    OBVIOUS
  <2>2. Occupied(c, h)
    BY <1>1, <2>1 DEF Manned
  <2>3. ASSUME NEW q \in Procs, m[q].pc = "link", m[q].s = h
        PROVE  FALSE
    <3>1. K(q) \in Own(c) /\ Home[K(q)] = h
      BY <1>1, <2>3, SettersAre DEF Own, Seated
    <3>2. QED
      BY <1>2, <2>3, <3>1
  <2>4. ASSUME d.at = "commit", d.s = h
        PROVE  FALSE
    <3>1. tab[h].key = d.key /\ d.key \in Keys
      BY <1>1, <2>4 DEF Busied, SearchInv, Base, Typed
    <3>2. QED
      BY <1>3, <2>4, <3>1, CommandsAssumption
  <2>5. ASSUME d.at = "link", d.s = h
        PROVE  FALSE
    <3>1. d.key \in Own(c) /\ Home[d.key] = h
      BY <1>1, <2>5 DEF Served
    <3>2. QED
      BY <1>2, <2>5, <3>1
  <2>6. ASSUME NEW q \in Procs, Left(c, q, h)
        PROVE  FALSE
    <3>1. K(q) \in Own(c) /\ Home[K(q)] = h
      BY <2>6 DEF Left, Own
    <3>2. K(q) = k
      BY <1>2, <3>1
    <3>3. QED
      BY <1>1, <2>6, <3>2
  <2>7. QED
    BY <2>2, <2>3, <2>4, <2>5, <2>6 DEF Occupied
<1>5. QED
  BY <1>3, <1>4, HomeIs

LEMMA SetHome ==
  ASSUME SearchInv, NEW c, RootedAt(c), NEW p \in Procs, m[p].pc = "set"
  PROVE  RoomAt(K(p)) = Home[K(p)]
<1>1. /\ m[p].do \in Setters /\ m[p].do \in Writers /\ K(p) \in Keys /\ K(p) \in Sets(c)
      /\ c.embeds = 0 \/ Unused(K(p))
  BY SettersAre
<1>2. Separate /\ Placed /\ Dealt(c) /\ Served(c)
  BY DEF SearchInv, Base, RootedAt
<1>3. Current(p) \in Pending(p) /\ Current(p).do = m[p].do /\ Current(p).name = m[p].name
  BY <1>1, <1>2, SetsKey
<1>4. ASSUME NEW q \in Procs, m[q].pc = "link"
      PROVE  K(q) # K(p)
  <2>1. q # p /\ m[q].do \in Writers
    BY <1>4, SettersAre
  <2>2. m[q].name # m[p].name
    BY <1>1, <1>2, <2>1, Owners
  <2>3. QED
    BY <2>2 DEF K
<1>5. d.at \in {"commit", "link"} => d.key # K(p)
  BY <1>1, <1>2 DEF Served, Unused
<1>6. ASSUME NEW q \in Procs, NEW s \in 1 .. Slots, Left(c, q, s)
      PROVE  K(q) # K(p)
  <2>1. q # p
    BY <1>6 DEF Left
  <2>2. m[q].name # m[p].name
    BY <1>1, <1>3, <1>6, <2>1 DEF Left
  <2>3. QED
    BY <2>2 DEF K
<1>7. K(p) \in Own(c)
  BY <1>1 DEF Own
<1> HIDE DEF K
<1>8. QED
  BY <1>1, <1>4, <1>5, <1>6, <1>7, HomeFree

LEMMA StampHome ==
  ASSUME SearchInv, NEW c, RootedAt(c), d.at = "stamp"
  PROVE  RoomAt(d.key) = Home[d.key]
<1>1. d.key \in Keys /\ d.key \in Own(c) /\ c.embeds # 0
  BY DEF SearchInv, Base, Typed, RootedAt, Served
<1>2. ASSUME NEW q \in Procs, m[q].pc = "link"
      PROVE  K(q) # d.key
  BY <1>1, <1>2, SettersAre DEF Unused
<1>3. ASSUME NEW q \in Procs, NEW s \in 1 .. Slots, Left(c, q, s)
      PROVE  K(q) # d.key
  BY <1>1, <1>3 DEF Left, Unused
<1> HIDE DEF K
<1>4. QED
  BY <1>1, <1>2, <1>3, HomeFree

LEMMA DealtStays ==
  ASSUME NEW c, Dealt(c), \A q \in Procs : \A e \in Pending(q)' : e \in Pending(q) \/ e.do = "none"
  PROVE  Dealt(c)'
BY DEF Dealt

LEMMA LeftStays ==
  ASSUME NEW c, NEW q \in Procs, NEW s \in 1 .. Slots, Left(c, q, s), m'[q] = m[q],
         \A p \in Procs : \A e \in Pending(p)' : e \in Pending(p) \/ e.do = "none",
         Unused(K(q)) => d'.key # K(q) /\ \A r \in 1 .. Slots : tab'[r].key # K(q)
  PROVE  Left(c, q, s)'
<1>1. K(q)' = K(q)
  BY DEF K
<1>2. "none" \notin Writers
  BY DEF Writers, Setters
<1>3. \A p \in Procs \ {q} : \A e \in Pending(p)' : e.do \in Writers => e.name # m[q].name
  BY <1>2 DEF Left
<1> HIDE DEF Pending, K
<1>4. QED
  BY <1>1, <1>3 DEF Left, Unused

(* A process's step. *)
LEMMA MovesUnused ==
  ASSUME SearchInv, NEW c, RootedAt(c), NEW p \in Procs, Moves(p), NEW q \in Procs, NEW s \in 1 .. Slots,
         Left(c, q, s), p # q, Unused(K(q))
  PROVE  d'.key # K(q) /\ \A r \in 1 .. Slots : tab'[r].key # K(q)
<1>1. UNCHANGED d /\ Typed /\ Locked /\ Placed /\ Dealt(c) /\ K(q) # NoKey
  BY CommandsAssumption DEF SearchInv, Base, Moves, rest, others, RootedAt, Left
<1>2. ASSUME NEW x \in 1 .. Slots, Stores(p, x)
      PROVE  tab'[x].key # K(q)
  <2>1. m[p].do \in Setters /\ m[p].do \in Writers /\ tab'[x].key \in {NoKey, K(p)}
    BY <1>2 DEF Stores, Writers
  <2>2. Current(p) \in Pending(p) /\ Current(p).do = m[p].do /\ Current(p).name = m[p].name
    BY <1>1, <2>1, SetsKey
  <2>3. m[p].name # m[q].name
    BY <2>1, <2>2 DEF Left
  <2>4. K(p) # K(q)
    BY <2>3 DEF K
  <2>5. QED
    BY <1>1, <2>1, <2>4
<1>3. \A r \in 1 .. Slots : tab[r].key # K(q)
  BY DEF Unused
<1> HIDE DEF K
<1>4. \A r \in 1 .. Slots : tab'[r].key # K(q)
  BY <1>1, <1>2, <1>3, Change, FreeIs DEF Marks, Frees
<1>5. QED
  BY <1>1, <1>4 DEF Unused

LEMMA MovesRooted ==
  ASSUME SearchInv, NEW c, RootedAt(c), NEW p \in Procs, Steps(p) \/ Leave(p)
  PROVE  RootedAt(c)'
<1>1. /\ Base /\ Typed /\ Placed /\ Locked /\ Separate /\ PlacedAt(p)
      /\ Rooted(c) /\ Dealt(c) /\ Homed(c) /\ Seated /\ Manned(c) /\ Served(c) /\ holds = 0 /\ held = {}
  BY DEF SearchInv, Base, Placed, RootedAt
<1>2. Moves(p) /\ Goes(p) /\ Tables(p)
  BY <1>1, MovesAre DEF Moves
<1>3. Dealt(c)' /\ \A q \in Procs : Pending(q)' = Pending(q)
  BY <1>1, <1>2, MovesSeparate, DealtStays
<1>4. UNCHANGED << d, held, holds, embeds >> /\ \A q \in Procs \ {p} : m'[q] = m[q]
  BY <1>1, <1>2 DEF Moves, Goes, rest, others, Typed
<1>5. ASSUME m[p].pc \in {"link", "dead"}
      PROVE  m[p].pc = "link" /\ Links(p, m[p].s) /\ Only(m[p].s) /\ m[p].s \in 1 .. Slots /\ m'[p].pc # "link"
  BY <1>1, <1>5, LinkersAre, SetLinkIs, SetPlaces
<1>6. Seated'
  <2>1. ASSUME m'[p].pc = "link"
        PROVE  m'[p].s = Home[K(p)] /\ K(p)' = K(p)
    <3>1. PICK x \in 1 .. Slots : Opens(p, x)
      BY <1>2, <2>1 DEF Tables, Marks, Links, Frees
    <3>2. RoomAt(K(p)) = Home[K(p)]
      BY <1>1, <3>1, SetHome DEF Opens
    <3>3. K(p)' = K(p)
      BY <1>2, <3>1 DEF Goes, Opens, K
    <3>4. QED
      BY <3>1, <3>2, <3>3 DEF Opens
  <2>2. ASSUME NEW q \in Procs, m'[q].pc = "link"
        PROVE  m'[q].s = Home[K(q)']
    <3>1. CASE q = p
      <4> HIDE DEF K
      <4>1. QED
        BY <2>1, <2>2, <3>1
    <3>2. CASE q # p
      <4>1. K(q)' = K(q)
        BY <1>4, <3>2 DEF K
      <4> HIDE DEF K
      <4>2. QED
        BY <1>1, <1>4, <2>2, <3>2, <4>1 DEF Seated
    <3>3. QED
      BY <3>1, <3>2
  <2>3. QED
    BY <2>2 DEF Seated
<1>7. Homed(c)'
  <2> SUFFICES ASSUME NEW s \in 1 .. Slots, tab'[s].key # NoKey
               PROVE  tab'[s].key \in Own(c) /\ Home[tab'[s].key] = s
    BY DEF Homed, Own
  <2>1. CASE tab'[s].key = tab[s].key
    BY <1>1, <2>1 DEF Homed
  <2>2. CASE tab'[s].key # tab[s].key
    <3>1. Links(p, s) \/ Frees(p, s)
      BY <1>2, <2>2 DEF Tables, Only, Marks, Opens
    <3>2. CASE Links(p, s)
      <4>1. m[p].s = s /\ s = Home[K(p)] /\ tab'[s].key = K(p)
        BY <1>1, <3>2 DEF Links, Seated
      <4>2. K(p) \in Own(c)
        BY <1>1, <3>2, SettersAre DEF Links, Own
      <4>3. QED
        BY <4>1, <4>2
    <3>3. CASE Frees(p, s)
      BY <3>3, FreeIs DEF Frees
    <3>4. QED
      BY <3>1, <3>2, <3>3
  <2>3. QED
    BY <2>1, <2>2
<1>8. ASSUME NEW s \in 1 .. Slots, Occupied(c, s), ~ (m[p].pc = "link" /\ m[p].s = s)
      PROVE  Occupied(c, s)'
  <2>1. ASSUME NEW q \in Procs, m[q].pc = "link", m[q].s = s
        PROVE  Occupied(c, s)'
    BY <1>4, <1>8, <2>1 DEF Occupied
  <2>2. ASSUME NEW q \in Procs, Left(c, q, s)
        PROVE  Occupied(c, s)'
    <3>1. q # p
      BY <1>5, <2>2 DEF Left
    <3>2. Unused(K(q)) => d'.key # K(q) /\ \A r \in 1 .. Slots : tab'[r].key # K(q)
      BY <1>2, <2>2, <3>1, MovesUnused
    <3>3. Left(c, q, s)'
      BY <1>3, <1>4, <2>2, <3>1, <3>2, LeftStays
    <3>4. QED
      BY <3>3 DEF Occupied
  <2>3. QED
    BY <1>4, <1>8, <2>1, <2>2 DEF Occupied
<1>9. Manned(c)'
  <2> SUFFICES ASSUME NEW s \in 1 .. Slots, Odd(tab'[s].epoch)
               PROVE  Occupied(c, s)'
    BY DEF Manned
  <2>1. ASSUME Odd(tab[s].epoch), ~ (m[p].pc = "link" /\ m[p].s = s)
        PROVE  Occupied(c, s)'
    BY <1>1, <1>8, <2>1 DEF Manned
  <2>2. ASSUME m[p].pc = "link", m[p].s = s
        PROVE  FALSE
    <3>1. Links(p, s) /\ Odd(tab[s].epoch)
      BY <1>1, <1>5, <2>2 DEF Locked, LockedAt, Taken
    <3>2. tab'[s].epoch = tab[s].epoch + 1
      BY <3>1 DEF Links
    <3>3. QED
      BY <1>1, <3>1, <3>2, EpochIs
  <2>3. ASSUME ~ Odd(tab[s].epoch)
        PROVE  Occupied(c, s)'
    <3>1. PICK x \in 1 .. Slots : Only(x) /\ (Marks(p, x) \/ Opens(p, x) \/ Links(p, x) \/ Frees(p, x))
      BY <1>2, <2>3 DEF Tables
    <3>2. x = s
      BY <2>3, <3>1 DEF Only
    <3>3. CASE Opens(p, s)
      <4>1. m'[p].pc = "link" /\ m'[p].s = s
        BY <3>3 DEF Opens
      <4>2. QED
        BY <4>1 DEF Occupied
    <3>4. CASE Marks(p, s)
      <4>1. tab'[s].epoch \in {tab[s].epoch, tab[s].epoch + 2}
        BY <3>4 DEF Marks
      <4>2. QED
        BY <1>1, <2>3, <4>1, EpochIs
    <3>5. CASE Links(p, s)
      BY <2>2, <3>5 DEF Links
    <3>6. CASE Frees(p, s)
      BY <3>6, FreeIs DEF Frees
    <3>7. QED
      BY <3>1, <3>2, <3>3, <3>4, <3>5, <3>6
  <2>4. QED
    BY <2>1, <2>2, <2>3
<1>10. Served(c)'
  BY <1>1, <1>4 DEF Served, Own
<1>11. Rooted(c)'
  BY <1>1
<1>12. QED
  BY <1>1, <1>3, <1>4, <1>6, <1>7, <1>9, <1>10, <1>11 DEF RootedAt

LEMMA MovesFilled ==
  ASSUME SearchInv, NEW c, FilledAt(c), NEW p \in Procs, Steps(p) \/ Leave(p)
  PROVE  FilledAt(c)'
<1>1. Typed /\ Placed /\ Locked /\ Separate /\ PlacedAt(p) /\ Filled(c) /\ Dealt(c)
  BY DEF SearchInv, Base, Placed, FilledAt
<1>2. Moves(p)
  BY <1>1, MovesAre
<1>3. Dealt(c)'
  BY <1>1, <1>2, MovesSeparate, DealtStays
<1>4. ASSUME NEW x \in 1 .. Slots, Frees(p, x)
      PROVE  FALSE
  <2>1. m[p].pc = "unset" /\ m[p].do \in Writers
    BY <1>4 DEF Frees
  <2>2. m[p].do \in {"unset", "disorder", "search"}
    BY <1>1, <2>1 DEF PlacedAt, Places, Writers, Setters, Setting, Seek, Scan
  <2>3. Current(p) \in Pending(p) /\ Current(p).do = m[p].do
    BY DEF Pending, Current
  <2>4. QED
    BY <1>1, <2>2, <2>3 DEF Dealt, Filled
<1>5. \A s \in 1 .. Slots : tab[s].key # NoKey
  BY <1>1 DEF FilledAt, Filled
<1>6. \A s \in 1 .. Slots : tab'[s].key = tab[s].key
  BY <1>1, <1>2, <1>4, <1>5, Change DEF Marks, Stores
<1>7. QED
  BY <1>1, <1>3, <1>6 DEF FilledAt

(* A command begins, or is killed. *)
LEMMA OwnSeated ==
  ASSUME NEW c, RootedAt(c), NEW p \in Procs, \A q \in Procs \ {p} : m'[q] = m[q], m'[p].pc # "link"
  PROVE  Seated'
<1> SUFFICES ASSUME NEW q \in Procs, m'[q].pc = "link"
             PROVE  m'[q].s = Home[K(q)']
  BY DEF Seated
<1>1. m'[q] = m[q]
  OBVIOUS
<1>2. K(q)' = K(q)
  BY <1>1 DEF K
<1> HIDE DEF K
<1>3. QED
  BY <1>1, <1>2 DEF RootedAt, Seated

LEMMA SameRooted ==
  ASSUME SearchInv, NEW c, RootedAt(c), NEW p \in Procs, UNCHANGED << tab, d, held, holds, embeds >>,
         \A q \in Procs \ {p} : m'[q] = m[q], m'[p].pc # "link", m[p].pc # "dead",
         \A q \in Procs : \A e \in Pending(q)' : e \in Pending(q) \/ e.do = "none",
         \A s \in 1 .. Slots : m[p].pc = "link" /\ m[p].s = s => Left(c, p, s)'
  PROVE  RootedAt(c)'
<1>1. /\ Rooted(c) /\ Dealt(c) /\ Homed(c) /\ Manned(c) /\ Served(c) /\ holds = 0 /\ held = {}
  BY DEF RootedAt
<1>2. Seated'
  BY OwnSeated
<1>3. ASSUME NEW s \in 1 .. Slots, Occupied(c, s)
      PROVE  Occupied(c, s)'
  <2>1. ASSUME NEW q \in Procs, m[q].pc = "link", m[q].s = s
        PROVE  Occupied(c, s)'
    <3>1. CASE q = p
      <4>1. Left(c, p, s)'
        BY <2>1, <3>1
      <4>2. QED
        BY <4>1 DEF Occupied
    <3>2. CASE q # p
      BY <2>1, <3>2 DEF Occupied
    <3>3. QED
      BY <3>1, <3>2
  <2>2. ASSUME NEW q \in Procs, Left(c, q, s)
        PROVE  Occupied(c, s)'
    <3>1. m'[q] = m[q]
      BY <2>2 DEF Left
    <3>2. Unused(K(q)) => d'.key # K(q) /\ \A r \in 1 .. Slots : tab'[r].key # K(q)
      BY DEF Unused
    <3>3. Left(c, q, s)'
      BY <2>2, <3>1, <3>2, LeftStays
    <3>4. QED
      BY <3>3 DEF Occupied
  <2>3. QED
    BY <1>3, <2>1, <2>2 DEF Occupied
<1>4. Manned(c)'
  BY <1>1, <1>3 DEF Manned
<1>5. Homed(c)' /\ Served(c)' /\ Rooted(c)'
  BY <1>1 DEF Homed, Served, Own
<1>6. Dealt(c)'
  BY <1>1, DealtStays
<1>7. QED
  BY <1>1, <1>2, <1>4, <1>5, <1>6 DEF RootedAt

LEMMA BeginsRooted ==
  ASSUME SearchInv, NEW c, RootedAt(c), NEW p \in Procs, Start(p)
  PROVE  RootedAt(c)'
<1>1. Typed /\ Separate
  BY DEF SearchInv, Base
<1>2. Begins(p)
  BY <1>1, StartIs
<1>3. /\ \A q \in Procs : Pending(q)' \subseteq Pending(q)
      /\ \A q \in Procs \ {p} : m'[q] = m[q]
  BY <1>1, <1>2, BeginsSeparate
<1>4. /\ UNCHANGED << tab, d, held, holds, embeds >> /\ m[p].pc = "idle" /\ m'[p].pc # "link"
  BY <1>2 DEF Begins, others
<1> HIDE DEF Pending
<1>5. \A q \in Procs : \A e \in Pending(q)' : e \in Pending(q) \/ e.do = "none"
  BY <1>3
<1>6. QED
  BY <1>3, <1>4, <1>5, SameRooted

LEMMA StopsRooted ==
  ASSUME SearchInv, NEW c, RootedAt(c), NEW p \in Procs, Kill(p)
  PROVE  RootedAt(c)'
<1>1. Typed /\ Separate /\ Seated
  BY DEF SearchInv, Base, RootedAt
<1>2. Stops(p)
  BY <1>1, KillIs
<1>3. /\ \A q \in Procs : \A e \in Pending(q)' : e \in Pending(q) \/ e.do = "none"
      /\ \A q \in Procs \ {p} : m'[q] = m[q]
  BY <1>1, <1>2, StopsSeparate
<1>4. /\ UNCHANGED << tab, d, held, holds, embeds >> /\ m[p].pc # "dead" /\ m'[p].pc = "dead"
      /\ m'[p].name = m[p].name /\ m'[p].i = m[p].i /\ m'[p].s = m[p].s
  BY <1>2 DEF Stops, Kill
<1>5. ASSUME NEW s \in 1 .. Slots, m[p].pc = "link", m[p].s = s
      PROVE  Left(c, p, s)'
  <2>1. m[p].do \in Writers /\ K(p) \in Keys \cap Sets(c) /\ (c.embeds = 0 \/ Unused(K(p)))
    BY <1>5, SettersAre
  <2>2. Home[K(p)] = m[p].s
    BY <1>1, <1>5 DEF Seated
  <2>3. K(p)' = K(p)
    BY <1>4 DEF K
  <2>4. ASSUME NEW q \in Procs \ {p}, NEW e \in Pending(q)', e.do \in Writers
        PROVE  e.name # m[p].name
    <3>1. e \in Pending(q)
      BY <1>3, <2>4 DEF Writers, Setters
    <3>2. QED
      BY <1>1, <2>1, <2>4, <3>1, Owner
  <2> HIDE DEF K, Pending
  <2>5. c.embeds = 0 \/ Unused(K(p))'
    BY <1>4, <2>1, <2>3 DEF Unused
  <2>6. QED
    BY <1>4, <1>5, <2>1, <2>2, <2>3, <2>4, <2>5 DEF Left
<1> HIDE DEF Pending, Left
<1>6. QED
  BY <1>3, <1>4, <1>5, SameRooted

(* Another step than a process's. *)
LEMMA ElseRooted ==
  ASSUME SearchInv, NEW c, RootedAt(c), UNCHANGED << m, todo, held, holds >>, Served(c)',
         d'.key \in {d.key, NoKey} \cup {tab[s].key : s \in 1 .. Slots},
         \A s \in 1 .. Slots : tab'[s].key = tab[s].key \/ (d.at = "link" /\ d.s = s /\ tab'[s].key = d.key),
         \A s \in 1 .. Slots : Odd(tab'[s].epoch) =>
           \/ Odd(tab[s].epoch) /\ ~ (d.at \in {"commit", "link"} /\ d.s = s)
           \/ d'.at \in {"commit", "link"} /\ d'.s = s
  PROVE  RootedAt(c)'
<1>1. /\ Rooted(c) /\ Dealt(c) /\ Homed(c) /\ Seated /\ Manned(c) /\ Served(c) /\ holds = 0 /\ held = {}
      /\ Separate
  BY DEF RootedAt, SearchInv, Base
<1>2. \A q \in Procs : Pending(q)' = Pending(q) /\ K(q)' = K(q)
  BY <1>1, TouchesSeparate DEF K
<1>3. Dealt(c)'
  BY <1>1, <1>2 DEF Dealt
<1>4. Homed(c)'
  <2> SUFFICES ASSUME NEW s \in 1 .. Slots, tab'[s].key # NoKey
               PROVE  tab'[s].key \in Own(c) /\ Home[tab'[s].key] = s
    BY DEF Homed, Own
  <2>1. CASE tab'[s].key = tab[s].key
    BY <1>1, <2>1 DEF Homed
  <2>2. CASE d.at = "link" /\ d.s = s /\ tab'[s].key = d.key
    BY <1>1, <2>2 DEF Served
  <2>3. QED
    BY <2>1, <2>2
<1>5. Seated'
  BY <1>1, <1>2 DEF Seated
<1>6. ASSUME NEW s \in 1 .. Slots, Occupied(c, s), ~ (d.at \in {"commit", "link"} /\ d.s = s)
      PROVE  Occupied(c, s)'
  <2>1. ASSUME NEW q \in Procs, m[q].pc = "link", m[q].s = s
        PROVE  Occupied(c, s)'
    BY <2>1 DEF Occupied
  <2>2. ASSUME NEW q \in Procs, Left(c, q, s)
        PROVE  Occupied(c, s)'
    <3>1. m'[q] = m[q] /\ \A p \in Procs : \A e \in Pending(p)' : e \in Pending(p) \/ e.do = "none"
      BY <1>2
    <3>2. K(q) # NoKey
      BY <2>2, CommandsAssumption DEF Left
    <3>3. Unused(K(q)) => d'.key # K(q) /\ \A r \in 1 .. Slots : tab'[r].key # K(q)
      <4> HIDE DEF K
      <4>1. QED
        BY <3>2 DEF Unused
    <3>4. Left(c, q, s)'
      BY <2>2, <3>1, <3>3, LeftStays
    <3>5. QED
      BY <3>4 DEF Occupied
  <2>3. QED
    BY <1>6, <2>1, <2>2 DEF Occupied
<1>7. Manned(c)'
  <2> SUFFICES ASSUME NEW s \in 1 .. Slots, Odd(tab'[s].epoch)
               PROVE  Occupied(c, s)'
    BY DEF Manned
  <2>1. CASE Odd(tab[s].epoch) /\ ~ (d.at \in {"commit", "link"} /\ d.s = s)
    BY <1>1, <1>6, <2>1 DEF Manned
  <2>2. CASE d'.at \in {"commit", "link"} /\ d'.s = s
    BY <2>2 DEF Occupied
  <2>3. QED
    BY <2>1, <2>2
<1>8. QED
  BY <1>1, <1>3, <1>4, <1>5, <1>7 DEF RootedAt

LEMMA ReadRooted ==
  ASSUME SearchInv, NEW c, RootedAt(c), EmbedRead
  PROVE  RootedAt(c)'
<1>1. Typed /\ Placed /\ Homed(c) /\ Served(c)
  BY DEF SearchInv, Base, RootedAt
<1>2. /\ UNCHANGED << m, todo, tab, held, holds >> /\ d.at = "idle" /\ d'.at = "decode" /\ embeds > 0
      /\ d'.key \in Keys /\ d'.key # NoKey
  BY <1>1, EmbedReadIs, CommandsAssumption DEF Touches
<1>3. PICK s \in 1 .. Slots : d'.key = tab[s].key
  BY <1>1, EmbedReadIs
<1>4. d'.key \in Own(c)
  BY <1>1, <1>2, <1>3 DEF Homed
<1>5. c.embeds # 0
  <2>1. SUFFICES ASSUME c.embeds = 0
                 PROVE  FALSE
    OBVIOUS
  <2>2. embeds = 0
    BY <1>1, <2>1 DEF Served
  <2>3. ~ (0 > 0)
    OBVIOUS
  <2>4. QED
    BY <1>2, <2>2, <2>3
<1>6. Served(c)'
  BY <1>2, <1>4, <1>5 DEF Served, Own
<1>7. QED
  BY <1>2, <1>3, <1>6, ElseRooted

LEMMA DaemonServed ==
  ASSUME NEW c, RootedAt(c), d.at # "idle", UNCHANGED embeds,
         \/ d' = Away
         \/ d'.key = d.key /\ (d'.at = "link" => d'.s = Home[d.key])
  PROVE  Served(c)'
<1>1. c.embeds # 0 /\ d.key \in Own(c)
  BY DEF RootedAt, Served
<1>2. CASE d' = Away
  BY <1>1, <1>2, AwayIs DEF Served
<1>3. CASE d'.key = d.key /\ (d'.at = "link" => d'.s = Home[d.key])
  BY <1>1, <1>3 DEF Served, Own
<1>4. QED
  BY <1>2, <1>3

LEMMA DaemonRooted ==
  ASSUME SearchInv, NEW c, RootedAt(c), EmbedOpen \/ EmbedClose \/ StampOpen \/ StampLink \/ StampBump
  PROVE  RootedAt(c)'
<1>1. Typed /\ Placed /\ Busied /\ Served(c)
  BY DEF SearchInv, Base, Locked, RootedAt
<1>2. CASE EmbedOpen
  <2>1. /\ d.at = "decode" /\ UNCHANGED << m, todo, held, holds, embeds >>
        /\ \A s \in 1 .. Slots : tab'[s].key = tab[s].key
    BY <1>1, <1>2, EmbedOpenIs DEF unembedded, Touches
  <2>2. CASE d' = Away /\ UNCHANGED tab
    <3>1. Served(c)' /\ d'.key = NoKey
      BY <2>1, <2>2, DaemonServed, AwayIs
    <3>2. QED
      BY <2>1, <2>2, <3>1, ElseRooted
  <2>3. CASE \E s \in 1 .. Slots : Only(s) /\ d'.at = "commit" /\ d'.s = s /\ d'.key = d.key
    <3>1. Served(c)'
      BY <2>1, <2>3, DaemonServed
    <3>2. QED
      BY <2>1, <2>3, <3>1, ElseRooted DEF Only
  <2>4. QED
    BY <1>1, <1>2, <2>2, <2>3, EmbedOpenIs
<1>3. CASE EmbedClose
  <2>1. /\ d.at = "commit" /\ UNCHANGED << m, todo, held, holds, embeds >>
        /\ \A s \in 1 .. Slots : tab'[s].key = tab[s].key
        /\ d.s \in 1 .. Slots /\ Only(d.s) /\ tab'[d.s].epoch = tab[d.s].epoch + 1
        /\ d' = Away \/ (d'.at = "stamp" /\ d'.key = d.key)
    BY <1>1, <1>3, EmbedCloseIs DEF unembedded, Touches
  <2>2. Served(c)' /\ d'.key \in {d.key, NoKey}
    BY <2>1, DaemonServed, AwayIs
  <2>3. ~ Odd(tab'[d.s].epoch)
    BY <1>1, <2>1, EpochIs DEF Busied
  <2>4. QED
    BY <2>1, <2>2, <2>3, ElseRooted DEF Only
<1>4. CASE StampOpen
  <2>1. d.at = "stamp" /\ UNCHANGED << m, todo, held, holds, embeds >>
    BY <1>1, <1>4, StampOpenIs DEF unembedded
  <2>2. CASE d' = Away /\ Still
    <3>1. Served(c)' /\ d'.key = NoKey
      BY <2>1, <2>2, DaemonServed, AwayIs
    <3>2. QED
      BY <2>1, <2>2, <3>1, ElseRooted DEF Still
  <2>3. CASE \E s \in 1 .. Slots : StampOpens(s) /\ Only(s)
    <3>1. PICK s \in 1 .. Slots : StampOpens(s) /\ Only(s)
      BY <2>3
    <3>2. s = Home[d.key]
      BY <2>1, <3>1, StampHome DEF StampOpens
    <3>3. d'.at = "link" /\ d'.s = s /\ d'.key = d.key /\ tab'[s].key = tab[s].key
      BY <3>1 DEF StampOpens
    <3>4. Served(c)'
      BY <2>1, <3>2, <3>3, DaemonServed
    <3>5. QED
      BY <2>1, <3>1, <3>3, <3>4, ElseRooted DEF Only
  <2>4. QED
    BY <1>1, <1>4, <2>2, <2>3, StampOpenIs
<1>5. CASE StampLink
  <2>1. /\ d.at = "link" /\ UNCHANGED << m, todo, held, holds, embeds >>
        /\ d.s \in 1 .. Slots /\ Only(d.s) /\ StampLinks(d.s)
    BY <1>1, <1>5, StampLinkIs DEF unembedded
  <2>2. /\ d'.at = "bump" /\ d'.key = d.key /\ tab'[d.s].key = d.key /\ tab'[d.s].epoch = tab[d.s].epoch + 1
    BY <2>1 DEF StampLinks
  <2>3. Served(c)'
    BY <2>1, <2>2, DaemonServed
  <2>4. ~ Odd(tab'[d.s].epoch)
    BY <1>1, <2>1, <2>2, EpochIs DEF Busied, Taken
  <2>5. QED
    BY <2>1, <2>2, <2>3, <2>4, ElseRooted DEF Only
<1>6. CASE StampBump
  <2>1. /\ d.at = "bump" /\ d' = Away /\ UNCHANGED << m, todo, held, holds, embeds >>
        /\ \A s \in 1 .. Slots : tab'[s].key = tab[s].key
    BY <1>1, <1>6, StampBumpIs DEF unembedded, Touches
  <2>2. \A s \in 1 .. Slots : tab'[s] = tab[s] \/ tab'[s].epoch = tab[s].epoch + 2
    BY <1>1, <1>6, StampBumpIs DEF Only
  <2>3. \A s \in 1 .. Slots : Odd(tab'[s].epoch) => Odd(tab[s].epoch)
    BY <1>1, <2>2, EpochIs
  <2>4. Served(c)' /\ d'.key = NoKey
    BY <2>1, DaemonServed, AwayIs
  <2>5. QED
    BY <2>1, <2>3, <2>4, ElseRooted
<1>7. QED
  BY <1>2, <1>3, <1>4, <1>5, <1>6

(* Of a full table the keys stay, whoever sets them again. *)
LEMMA ElseFilled ==
  ASSUME SearchInv, NEW c, FilledAt(c), UNCHANGED << m, todo >>, Touches \/ StampOpen \/ StampLink
  PROVE  FilledAt(c)'
<1>1. /\ Typed /\ Placed /\ Busied /\ Separate /\ Filled(c) /\ Dealt(c)
      /\ \A s \in 1 .. Slots : tab[s].key = c.keys[s] /\ tab[s].key # NoKey
  BY DEF SearchInv, Base, Locked, FilledAt, Filled
<1>2. Dealt(c)'
  BY <1>1, TouchesSeparate DEF Dealt
<1>3. \A s \in 1 .. Slots : tab'[s].key = tab[s].key
  <2>1. CASE Touches
    BY <2>1 DEF Touches
  <2>2. CASE StampOpen
    BY <1>1, <2>2, StampOpenIs DEF StampOpens, Only, Still
  <2>3. CASE StampLink
    <3>1. d.at = "link" /\ d.s \in 1 .. Slots /\ Only(d.s) /\ tab'[d.s].key = d.key
      BY <1>1, <2>3, StampLinkIs DEF StampLinks
    <3>2. tab[d.s].key = d.key
      BY <1>1, <3>1 DEF Busied, Taken
    <3>3. QED
      BY <3>1, <3>2 DEF Only
  <2>4. QED
    BY <2>1, <2>2, <2>3
<1>4. QED
  BY <1>1, <1>2, <1>3 DEF FilledAt

LEMMA SameFilled ==
  ASSUME SearchInv, NEW c, FilledAt(c), NEW p \in Procs, Start(p) \/ Kill(p)
  PROVE  FilledAt(c)'
<1>1. Typed /\ Separate /\ Filled(c) /\ Dealt(c)
  BY DEF SearchInv, Base, FilledAt
<1>2. UNCHANGED tab
  BY DEF Start, Kill
<1>3. \A q \in Procs : \A e \in Pending(q)' : e \in Pending(q) \/ e.do = "none"
  <2>1. CASE Start(p)
    BY <1>1, <2>1, StartIs, BeginsSeparate
  <2>2. CASE Kill(p)
    BY <1>1, <2>2, KillIs, StopsSeparate
  <2>3. QED
    BY <2>1, <2>2
<1> HIDE DEF Pending
<1>4. Dealt(c)'
  BY <1>1, <1>3, DealtStays
<1>5. QED
  BY <1>1, <1>2, <1>4 DEF FilledAt

LEMMA RootedStep ==
  ASSUME SearchInv, NEW c, RootedAt(c), [CommandsNext]_commandVars
  PROVE  RootedAt(c)'
<1>1. holds = 0 /\ held = {} /\ Served(c)
  BY DEF RootedAt
<1>2. ASSUME NEW s \in 1 .. Slots, Hold(s) \/ Release(s)
      PROVE  FALSE
  <2>1. ~ (0 > 0)
    OBVIOUS
  <2>2. QED
    BY <1>1, <1>2, <2>1 DEF Hold, Release
<1>3. CASE UNCHANGED commandVars
  <2>1. UNCHANGED << tab, m, todo, d, held, holds, embeds >>
    BY <1>3 DEF commandVars
  <2>2. Served(c)'
    BY <1>1, <2>1 DEF Served, Own
  <2>3. QED
    BY <2>1, <2>2, ElseRooted
<1>4. QED
  BY <1>2, <1>3, MovesRooted, BeginsRooted, StopsRooted, ReadRooted, DaemonRooted DEF CommandsNext

LEMMA FilledStep ==
  ASSUME SearchInv, NEW c, FilledAt(c), [CommandsNext]_commandVars
  PROVE  FilledAt(c)'
<1>1. Typed /\ Placed
  BY DEF SearchInv, Base
<1>2. ASSUME NEW s \in 1 .. Slots, Hold(s) \/ Release(s)
      PROVE  FilledAt(c)'
  <2>1. Touches
    BY <1>1, <1>2, HoldIs, ReleaseIs DEF Handles
  <2>2. UNCHANGED << m, todo >>
    BY <2>1 DEF Touches
  <2>3. QED
    BY <2>1, <2>2, ElseFilled
<1>3. CASE EmbedRead \/ EmbedOpen \/ EmbedClose \/ StampBump
  <2>1. Touches
    BY <1>1, <1>3, EmbedReadIs, EmbedOpenIs, EmbedCloseIs, StampBumpIs
  <2>2. UNCHANGED << m, todo >>
    BY <2>1 DEF Touches
  <2>3. QED
    BY <2>1, <2>2, ElseFilled
<1>4. CASE StampOpen \/ StampLink
  <2>1. UNCHANGED << m, todo >>
    BY <1>4 DEF StampOpen, StampLink, unembedded
  <2>2. QED
    BY <1>4, <2>1, ElseFilled
<1>5. CASE UNCHANGED commandVars
  <2>1. Touches /\ UNCHANGED << m, todo >>
    BY <1>5 DEF commandVars, Touches
  <2>2. QED
    BY <2>1, ElseFilled
<1>6. QED
  BY <1>2, <1>3, <1>4, <1>5, MovesFilled, SameFilled DEF CommandsNext

LEMMA OnceStep ==
  ASSUME OnceInv, [CommandsNext]_commandVars
  PROVE  OnceInv'
<1>1. SearchInv' /\ SearchInv
  BY OnceIs, SearchStep DEF OnceInv
<1>2. PICK c \in Scenes : RootedAt(c) \/ FilledAt(c)
  BY DEF OnceInv
<1>3. RootedAt(c)' \/ FilledAt(c)'
  BY <1>1, <1>2, RootedStep, FilledStep
<1>4. QED
  BY <1>1, <1>3 DEF OnceInv

LEMMA OnceInit ==
  ASSUME Sorted, Settled, CommandsInit
  PROVE  OnceInv
<1>1. SearchInv
  BY SearchInit
<1>2. PICK c \in Scenes : Opened(c)
  BY OpenedIs
<1>3. /\ todo = c.todo /\ d.at = "idle" /\ held = {} /\ holds = c.holds /\ embeds = c.embeds
      /\ \A s \in 1 .. Slots : tab[s].key = c.keys[s] /\ ~ Odd(tab[s].epoch)
      /\ \A p \in Procs : m[p].pc = "idle"
  BY <1>2, AwayIs DEF Opened
<1>4. Dealt(c)
  <2>1. ASSUME NEW p \in Procs, NEW j \in DOMAIN todo[p]
        PROVE  todo[p][j] \in Given(c)
    <3> DEFINE T == {c.todo[p][i] : i \in DOMAIN c.todo[p]}
    <3>1. todo[p][j] \in T /\ T \in {{c.todo[q][i] : i \in DOMAIN c.todo[q]} : q \in Procs}
      BY <1>3, <2>1
    <3> HIDE DEF T
    <3>2. QED
      BY <3>1 DEF Given
  <2>2. \A p \in Procs : \A e \in Pending(p) : e.do = "none" \/ \E j \in DOMAIN todo[p] : e = todo[p][j]
    BY <1>2 DEF Opened
  <2> HIDE DEF Pending
  <2>3. QED
    BY <2>1, <2>2 DEF Dealt
<1>5. Rooted(c) \/ Filled(c)
  BY DEF Settled
<1>6. ASSUME Rooted(c)
      PROVE  RootedAt(c)
  <2>1. Homed(c)
    <3> SUFFICES ASSUME NEW s \in 1 .. Slots, tab[s].key # NoKey
                 PROVE  tab[s].key \in Own(c) /\ Home[tab[s].key] = s
      BY DEF Homed
    <3>1. c.keys[s] # NoKey /\ tab[s].key = c.keys[s]
      BY <1>3
    <3>2. c.keys[s] \in Stocked(c)
      BY <3>1 DEF Stocked
    <3>3. Home[c.keys[s]] = s
      BY <1>6, <3>1 DEF Rooted
    <3>4. QED
      BY <3>1, <3>2, <3>3 DEF Own
  <2>2. Seated /\ Manned(c) /\ holds = 0
    BY <1>3, <1>6 DEF Seated, Manned, Rooted
  <2>3. Served(c)
    BY <1>3 DEF Served
  <2>4. QED
    BY <1>3, <1>4, <1>6, <2>1, <2>2, <2>3 DEF RootedAt
<1>7. Filled(c) => FilledAt(c)
  BY <1>3, <1>4 DEF FilledAt
<1>8. QED
  BY <1>1, <1>5, <1>6, <1>7 DEF OnceInv

(* Where keys have slots of their own and no set meets a busy one, or      *)
(* where the table is full and nothing is removed, splinter_set never      *)
(* takes a second slot for a key, the daemon's set of its diagnostic       *)
(* included and whoever is killed in a set: the assumption of the theorems *)
(* above follows from the constants.                                       *)
THEOREM SettledOnce ==
  ASSUME Sorted, Settled
  PROVE  CommandsSpec => []Once
<1>1. CommandsInit => OnceInv
  BY OnceInit
<1>2. OnceInv /\ [CommandsNext]_commandVars => OnceInv'
  BY OnceStep
<1>3. OnceInv => Once
  BY OnceIs
<1>4. QED
  BY <1>1, <1>2, <1>3, PTL DEF CommandsSpec

(* So there metadata announces only what stands, a key that stands and     *)
(* that nobody sets is listed once, and a search is never given the vector *)
(* of another text, in every behaviour.                                    *)
THEOREM SettledCommands ==
  ASSUME Sorted, Settled
  PROVE  CommandsSpec => []IngestOrder /\ []ListTrue /\ []SearchTrue
BY IngestOrdered, ListsTrue, SearchesTrue, SettledOnce, PTL

=============================================================================
