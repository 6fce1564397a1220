-------------------------- MODULE ShardTableProofs --------------------------
(***************************************************************************)
(* Proofs about the bid table: whatever the number of records and shards.  *)
(***************************************************************************)
EXTENDS ShardTable, TLAPS, SequenceTheorems

-----------------------------------------------------------------------------
(* The parameters, and records read field by field.                        *)

FieldNames == {"id", "pid", "intent", "prio", "dur", "at"}

LEMMA Parameters ==
  /\ Records \in Nat /\ Records > 0 /\ Span \in Nat /\ Span > 0
  /\ Latest \in Nat /\ Horizon \in Nat /\ Latest <= Horizon /\ Horizon < Span
  /\ \A p \in Procs : Id[p] \in Nat /\ Id[p] # 0 /\ Pid[p] \in Nat
  /\ \A p, q \in Procs : Id[p] = Id[q] => p = q
BY ShardAssumption

LEMMA BidFields ==
  ASSUME NEW r \in Bid, NEW field \in FieldNames, NEW v
  PROVE  /\ [r EXCEPT ![field] = v][field] = v
         /\ \A g \in FieldNames \ {field} : [r EXCEPT ![field] = v][g] = r[g]
BY DEF Bid, FieldNames

LEMMA SameBid ==
  ASSUME NEW r \in Bid, NEW s \in Bid, \A g \in FieldNames : r[g] = s[g]
  PROVE  r = s
BY DEF Bid, FieldNames

LEMMA BidTyped ==
  ASSUME NEW r \in Bid, NEW s \in Bid, NEW field \in FieldNames
  PROVE  [r EXCEPT ![field] = s[field]] \in Bid
BY DEF Bid, FieldNames

LEMMA EmptyBid == Empty \in Bid /\ Empty.id = 0 /\ Empty.intent = "none"
BY Parameters DEF Empty, Bid, Intents

LEMMA IdleFrame ==
  /\ Idle \in Frame
  /\ Idle.pc = "idle" /\ Idle.op = "none" /\ Idle.b = 1 /\ Idle.f = 1 /\ Idle.arg = Empty
  /\ Idle.began = 0 /\ Idle.now = 0 /\ Idle.got = Empty /\ Idle.live = FALSE /\ Idle.best = Empty
  /\ Idle.age = Empty /\ Idle.rows = << >>
BY EmptyBid, Parameters DEF Idle, Frame, Operations, WeighOrder

(* The clock never wraps here, but a record may be later than the reading  *)
(* it is compared with: then its elapsed time does.                        *)
LEMMA ElapsedNat ==
  ASSUME NEW x \in Bid, NEW now \in 0 .. Horizon
  PROVE  /\ Elapsed(x, now) \in 0 .. Span - 1
         /\ x.at <= now => Elapsed(x, now) = now - x.at
<1>1. x.at \in 0 .. Latest /\ now - x.at \in Int /\ Span \in Nat \ {0}
  BY Parameters DEF Bid
<1>2. \A d \in Int, n \in Nat \ {0} : d % n \in 0 .. n - 1
  OBVIOUS
<1>3. \A n \in Nat \ {0} : \A d \in 0 .. n - 1 : d % n = d
  OBVIOUS
<1>4. x.at <= now => now - x.at \in 0 .. Span - 1
  BY <1>1, Parameters
<1>5. QED
  BY <1>1, <1>2, <1>3, <1>4 DEF Elapsed

LEMMA ExpiredWhen ==
  ASSUME NEW x \in Bid, NEW now \in 0 .. Horizon
  PROVE  \E e \in BOOLEAN : e = Expired(x, now)
<1>1. Elapsed(x, now) \in Int /\ x.dur \in Int
  BY ElapsedNat, Parameters DEF Bid
<1>2. Expired(x, now) \in BOOLEAN
  BY <1>1 DEF Expired
<1>3. QED
  BY <1>2, Zenon

(* The orders of loads and stores name fields.                             *)
LEMMA Orders ==
  /\ Len(LookOrder) = 4 /\ \A i \in 1 .. 4 : LookOrder[i] \in FieldNames
  /\ Len(WeighOrder) = 7 /\ \A i \in 1 .. 7 : WeighOrder[i] \in FieldNames
  /\ Len(CopyOrder) = 6 /\ \A i \in 1 .. 6 : CopyOrder[i] \in FieldNames
  /\ Len(AgeOrder) = 2 /\ \A i \in 1 .. 2 : AgeOrder[i] \in FieldNames
<1>1. Len(LookOrder) = 4 /\ \A i \in 1 .. 4 : LookOrder[i] \in FieldNames
  BY DEF LookOrder, FieldNames
<1>2. Len(WeighOrder) = 7 /\ \A i \in 1 .. 7 : WeighOrder[i] \in FieldNames
  BY DEF WeighOrder, FieldNames
<1>3. Len(CopyOrder) = 6 /\ \A i \in 1 .. 6 : CopyOrder[i] \in FieldNames
  BY DEF CopyOrder, FieldNames
<1>4. Len(AgeOrder) = 2 /\ \A i \in 1 .. 2 : AgeOrder[i] \in FieldNames
  BY DEF AgeOrder, FieldNames
<1>5. QED
  BY <1>1, <1>2, <1>3, <1>4

LEMMA StoreFields ==
  ASSUME NEW op \in {"claim", "rebid", "release"}
  PROVE  /\ Len(StoreOrder(op)) \in 1 .. 6
         /\ \A i \in 1 .. Len(StoreOrder(op)) : StoreOrder(op)[i] \in FieldNames
<1>1. CASE op = "claim"
  BY <1>1 DEF StoreOrder, FieldNames
<1>2. CASE op = "rebid"
  BY <1>2 DEF StoreOrder, FieldNames
<1>3. CASE op = "release"
  BY <1>3 DEF StoreOrder, FieldNames
<1>4. QED
  BY <1>1, <1>2, <1>3

-----------------------------------------------------------------------------
(* Types and places.  They go together: the record a call works on is in   *)
(* the table only at certain places.                                       *)

Framed == ShardTypeOK /\ Places

(* A step of one process replaces its frame and leaves the others'.        *)
LEMMA GoTo ==
  ASSUME ShardTypeOK, NEW p \in Procs, NEW r \in Frame, Go(p, r)
  PROVE  /\ m' \in [Procs -> Frame] /\ m'[p] = r
         /\ \A q \in Procs \ {p} : m'[q] = m[q]
BY DEF ShardTypeOK, Go

LEMMA FramedStep ==
  ASSUME Framed, NEW p \in Procs, NEW r \in Frame, Go(p, r), clock' = clock,
         bid' \in [Table -> Bid], left' \in [Procs -> Nat],
         due' \in [Procs -> Bid \cup {Lost}], same' \in [Procs -> SUBSET Table],
         Place(p)'
  PROVE  Framed'
<1>1. m' \in [Procs -> Frame] /\ \A q \in Procs \ {p} : m'[q] = m[q]
  BY GoTo DEF Framed
<1>2. ASSUME NEW q \in Procs
      PROVE  Place(q)'
  <2>1. CASE q = p
    BY <2>1
  <2>2. CASE q # p
    BY <1>1, <2>2 DEF Framed, Places, Place
  <2>3. QED
    BY <2>1, <2>2
<1>3. QED
  BY <1>1, <1>2 DEF Framed, ShardTypeOK, Places

(* The same for a step that stores nothing, *)
LEMMA QuietFramed ==
  ASSUME Framed, NEW p \in Procs, NEW r \in Frame, Go(p, r),
         Untouched, UNCHANGED << clock, left, due >>, Place(p)'
  PROVE  Framed'
BY FramedStep DEF Framed, ShardTypeOK, Untouched

(* and for one that ends the call.                                         *)
LEMMA ReturnFramed ==
  ASSUME Framed, NEW p \in Procs, NEW rc, Return(p, rc),
         UNCHANGED << bid, clock, left >>, due' \in [Procs -> Bid \cup {Lost}]
  PROVE  Framed'
<1>1. Go(p, Idle) /\ same' \in [Procs -> SUBSET Table]
  BY DEF Return, Framed, ShardTypeOK
<1>2. m'[p] = Idle
  BY <1>1, GoTo, IdleFrame DEF Framed
<1>3. Place(p)'
  BY <1>2, IdleFrame DEF Place
<1>4. QED
  BY <1>1, <1>3, FramedStep, IdleFrame DEF Framed, ShardTypeOK

LEMMA FieldsBid ==
  ASSUME Framed, NEW p \in Procs, NEW x \in Bids[p], clock <= Latest
  PROVE  Fields(p, x) \in Bid /\ Fields(p, x).id = Id[p] /\ Fields(p, x).pid = Pid[p]
BY Parameters, CallAssumption DEF Fields, Bid, Framed, ShardTypeOK

LEMMA StartMoves ==
  ASSUME Framed, NEW p \in Procs, Start(p)
  PROVE  \E s \in Frame :
           /\ Go(p, s) /\ s.b = 1 /\ s.f = 1 /\ s.rows = << >> /\ s.began \in {0, clock}
           /\ m[p].pc = "idle" /\ UNCHANGED << bid, clock, due, same >> /\ clock <= Latest
           /\ left' \in [Procs -> Nat]
           /\ \/ s.pc = "find" /\ s.op \in {"claim", "rebid"} /\ s.arg.id = Id[p]
              \/ s.pc = "find" /\ s.op \in {"release", "advise"} /\ s.arg = Empty
              \/ s.pc = "elect" /\ s.op \in {"elect", "snapshot"}
<1> USE IdleFrame
<1> DEFINE Started ==
      \E s \in Frame :
        /\ Go(p, s) /\ s.b = 1 /\ s.f = 1 /\ s.rows = << >> /\ s.began \in {0, clock}
        /\ m[p].pc = "idle" /\ UNCHANGED << bid, clock, due, same >> /\ clock <= Latest
        /\ left' \in [Procs -> Nat]
        /\ \/ s.pc = "find" /\ s.op \in {"claim", "rebid"} /\ s.arg.id = Id[p]
           \/ s.pc = "find" /\ s.op \in {"release", "advise"} /\ s.arg = Empty
           \/ s.pc = "elect" /\ s.op \in {"elect", "snapshot"}
<1>1. ASSUME NEW op \in Operations, NEW r \in Frame, Begin(p, op, r), r.b = 1, r.f = 1,
             r.rows = << >>, r.began \in {0, clock},
             \/ r.pc = "find" /\ op \in {"claim", "rebid"} /\ r.arg.id = Id[p]
             \/ r.pc = "find" /\ op \in {"release", "advise"} /\ r.arg = Empty
             \/ r.pc = "elect" /\ op \in {"elect", "snapshot"}
      PROVE  Started
  <2>1. PICK s \in Frame : s = [r EXCEPT !.op = op]
    BY DEF Frame
  <2>2. /\ s.op = op /\ s.pc = r.pc /\ s.b = 1 /\ s.f = 1 /\ s.arg = r.arg
        /\ s.rows = << >> /\ s.began = r.began
    BY <1>1, <2>1 DEF Frame
  <2>3. /\ Go(p, s) /\ m[p].pc = "idle" /\ UNCHANGED << bid, clock, due, same >> /\ clock <= Latest
    BY <1>1, <2>1 DEF Begin
  <2>4. left' \in [Procs -> Nat]
    <3>1. left[p] - 1 \in Nat /\ left' = [left EXCEPT ![p] = left[p] - 1]
      BY <1>1 DEF Begin, Framed, ShardTypeOK
    <3>2. QED
      BY <3>1 DEF Framed, ShardTypeOK
  <2>5. QED
    BY <1>1, <2>2, <2>3, <2>4
<1>2. ASSUME NEW op \in {"claim", "rebid"}, NEW x \in Bids[p],
             Begin(p, op, [Idle EXCEPT !.pc = "find", !.arg = Fields(p, x)])
      PROVE  Started
  <2>1. Fields(p, x) \in Bid /\ Fields(p, x).id = Id[p]
    BY <1>2, FieldsBid DEF Begin
  <2>2. PICK r \in Frame : r = [Idle EXCEPT !.pc = "find", !.arg = Fields(p, x)]
    BY <2>1 DEF Frame
  <2>3. r.pc = "find" /\ r.arg = Fields(p, x) /\ r.b = 1 /\ r.f = 1 /\ r.rows = << >> /\ r.began = 0
    BY <2>1, <2>2 DEF Frame
  <2>4. QED
    BY <1>1, <1>2, <2>1, <2>2, <2>3 DEF Operations
<1>3. CASE Claim(p) \/ Rebid(p)
  BY <1>2, <1>3 DEF Claim, Rebid
<1>4. CASE Release(p)
  <2>1. PICK r \in Frame : r = [Idle EXCEPT !.pc = "find"]
    BY DEF Frame
  <2>2. r.pc = "find" /\ r.arg = Empty /\ r.b = 1 /\ r.f = 1 /\ r.rows = << >> /\ r.began = 0
    BY <2>1 DEF Frame
  <2>3. QED
    BY <1>1, <1>4, <2>1, <2>2 DEF Release, Operations
<1>5. CASE Election(p)
  <2>1. PICK op \in {"elect", "snapshot"} :
          Begin(p, op, [Idle EXCEPT !.pc = "elect", !.began = IF op = "snapshot" THEN clock ELSE 0])
    BY <1>5 DEF Election
  <2>2. PICK t \in 0 .. Horizon : t = IF op = "snapshot" THEN clock ELSE 0
    BY Parameters DEF Framed, ShardTypeOK
  <2>3. PICK r \in Frame : r = [Idle EXCEPT !.pc = "elect", !.began = t]
    BY DEF Frame
  <2>4. r.pc = "elect" /\ r.b = 1 /\ r.f = 1 /\ r.rows = << >> /\ r.began \in {0, clock}
    BY <2>2, <2>3 DEF Frame
  <2>5. QED
    BY <1>1, <2>1, <2>2, <2>3, <2>4 DEF Operations
<1>6. CASE Advise(p)
  <2>1. PICK t \in Timeouts[p] : Begin(p, "advise", [Idle EXCEPT !.pc = "find", !.timeout = t])
    BY <1>6 DEF Advise
  <2>2. PICK r \in Frame : r = [Idle EXCEPT !.pc = "find", !.timeout = t]
    BY CallAssumption DEF Frame
  <2>3. r.pc = "find" /\ r.b = 1 /\ r.f = 1 /\ r.arg = Empty /\ r.rows = << >> /\ r.began = 0
    BY CallAssumption, <2>2 DEF Frame
  <2>4. QED
    BY <1>1, <2>1, <2>2, <2>3 DEF Operations
<1>7. QED
  BY <1>3, <1>4, <1>5, <1>6 DEF Start

LEMMA StartFramed ==
  ASSUME Framed, NEW p \in Procs, Start(p)
  PROVE  Framed'
<1>1. PICK s \in Frame :
        /\ Go(p, s) /\ s.b = 1 /\ s.f = 1
        /\ UNCHANGED << bid, clock, due, same >> /\ clock <= Latest
        /\ left' \in [Procs -> Nat]
        /\ \/ s.pc = "find" /\ s.op \in {"claim", "rebid"} /\ s.arg.id = Id[p]
           \/ s.pc = "find" /\ s.op \in {"release", "advise"} /\ s.arg = Empty
           \/ s.pc = "elect" /\ s.op \in {"elect", "snapshot"}
  BY StartMoves
<1>2. m'[p] = s
  BY <1>1, GoTo DEF Framed
<1>3. Place(p)'
  BY <1>1, <1>2 DEF Place
<1>4. QED
  BY <1>1, <1>3, FramedStep DEF Framed, ShardTypeOK

(* The moves of a scan: its call stays what it is.                         *)
SameCall(r, s) ==
  /\ s.op = r.op /\ s.arg = r.arg /\ s.began = r.began /\ s.now = r.now /\ s.rows = r.rows

LEMMA LoadedBid ==
  ASSUME Framed, NEW p \in Procs, NEW order, m[p].b \in Table,
         order[m[p].f] \in FieldNames
  PROVE  Got(p, order) \in Bid
BY BidTyped DEF Got, Framed, ShardTypeOK, Frame

LEMMA NextPassMoves ==
  ASSUME NEW r \in Frame
  PROVE  /\ NextPass(r) \in Frame /\ SameCall(r, NextPass(r))
         /\ NextPass(r).live = r.live /\ NextPass(r).best = r.best
         /\ NextPass(r).pc = "weigh" /\ NextPass(r).b = 1 /\ NextPass(r).f = 1
<1>0. 1 \in 1 .. Records + 1 /\ 1 \in 1 .. Len(WeighOrder)
  BY Parameters, Orders
<1>1. PICK s \in Frame : s = [r EXCEPT !.pc = "weigh", !.b = 1, !.f = 1, !.got = Empty]
  BY <1>0, EmptyBid DEF Frame
<1>2. /\ s.op = r.op /\ s.arg = r.arg /\ s.began = r.began /\ s.now = r.now /\ s.rows = r.rows
      /\ s.live = r.live /\ s.best = r.best /\ s.pc = "weigh" /\ s.b = 1 /\ s.f = 1
  BY <1>1 DEF Frame
<1>3. NextPass(r) = s
  BY <1>1 DEF NextPass
<1>4. QED
  BY <1>2, <1>3 DEF SameCall

LEMMA NextRecordMoves ==
  ASSUME NEW r \in Frame, r.b \in Table, ~ (r.pc = "look" /\ r.b = Records)
  PROVE  /\ NextRecord(r) \in Frame /\ SameCall(r, NextRecord(r))
         /\ NextRecord(r).live = r.live /\ NextRecord(r).best = r.best
         /\ NextRecord(r).pc = r.pc /\ NextRecord(r).b = r.b + 1 /\ NextRecord(r).f = 1
<1>0. r.b + 1 \in 1 .. Records + 1 /\ 1 \in 1 .. Len(WeighOrder)
  BY Parameters, Orders DEF Table
<1>1. PICK s \in Frame : s = [r EXCEPT !.b = r.b + 1, !.f = 1, !.got = Empty]
  BY <1>0, EmptyBid DEF Frame
<1>2. /\ s.op = r.op /\ s.arg = r.arg /\ s.began = r.began /\ s.now = r.now /\ s.rows = r.rows
      /\ s.live = r.live /\ s.best = r.best /\ s.pc = r.pc /\ s.b = r.b + 1 /\ s.f = 1
  BY <1>1 DEF Frame
<1>3. NextRecord(r) = s
  BY <1>1 DEF NextRecord
<1>4. QED
  BY <1>2, <1>3 DEF SameCall

(* What one load of the first pass does: it passes the record over, goes   *)
(* on with it, or ends with it.                                            *)
LookSkips(p, s) == Skipped(p, LookOrder, Got(p, LookOrder)) /\ s = NextRecord(m[p])
LookLoads(p, s) ==
  /\ ~ Skipped(p, LookOrder, Got(p, LookOrder)) /\ m[p].f < 4
  /\ SameCall(m[p], s) /\ s.live = m[p].live /\ s.best = m[p].best
  /\ s.pc = "look" /\ s.b = m[p].b /\ s.f = m[p].f + 1 /\ s.got = Got(p, LookOrder)
LookFinds(p, s) ==
  /\ m[p].f = 4 /\ Got(p, LookOrder).intent \in Protective
  /\ SameCall(m[p], s) /\ s.live = TRUE /\ s.best = m[p].best
  /\ s.pc = "weigh" /\ s.b = 1 /\ s.f = 1
LookPasses(p, s) ==
  m[p].f = 4 /\ Got(p, LookOrder).intent \notin Protective /\ s = NextRecord(m[p])

LEMMA LookCases ==
  ASSUME Framed, NEW p \in Procs, Look(p)
  PROVE  \E s \in Frame : /\ Go(p, s)
                          /\ LookSkips(p, s) \/ LookLoads(p, s) \/ LookFinds(p, s) \/ LookPasses(p, s)
<1> DEFINE g == Got(p, LookOrder)
<1>0. m[p] \in Frame /\ m[p].pc = "look" /\ Place(p)
  BY DEF Framed, ShardTypeOK, Places, Look
<1>1. /\ m[p] \in Frame /\ m[p].pc = "look" /\ m[p].b \in Table /\ m[p].f \in 1 .. 4
  <2>1. m[p].f \in 1 .. 7
    BY <1>0, Orders DEF Frame
  <2>2. m[p].b \in Table /\ m[p].f <= 4
    BY <1>0, Orders DEF Place
  <2>3. QED
    BY <1>0, <2>1, <2>2
<1>2. g \in Bid
  BY <1>1, LoadedBid, Orders
<1>3. NextRecord(m[p]) \in Frame
  BY <1>1, NextRecordMoves, NextPassMoves DEF NextRecord
<1>4. CASE Skipped(p, LookOrder, g)
  <2>1. Go(p, NextRecord(m[p]))
    BY <1>4 DEF Look
  <2>2. QED
    BY <2>1, <1>3, <1>4 DEF LookSkips
<1>5. CASE ~ Skipped(p, LookOrder, g) /\ m[p].f < 4
  <2>0. m[p].f + 1 \in 1 .. Len(WeighOrder)
    BY <1>1, <1>5, Orders
  <2>1. PICK s \in Frame : s = [m[p] EXCEPT !.f = m[p].f + 1, !.got = g]
    BY <1>1, <1>2, <2>0 DEF Frame
  <2>2. /\ s.op = m[p].op /\ s.arg = m[p].arg /\ s.began = m[p].began /\ s.now = m[p].now
        /\ s.rows = m[p].rows /\ s.live = m[p].live /\ s.best = m[p].best
        /\ s.pc = m[p].pc /\ s.b = m[p].b /\ s.f = m[p].f + 1 /\ s.got = g
    BY <1>1, <2>1 DEF Frame
  <2>3. Go(p, s)
    BY <1>5, <2>1, Orders DEF Look
  <2>4. LookLoads(p, s)
    BY <1>1, <1>5, <2>2 DEF LookLoads, SameCall
  <2>5. QED
    BY <2>3, <2>4
<1>6. CASE ~ Skipped(p, LookOrder, g) /\ m[p].f = 4 /\ g.intent \in Protective
  <2>1. PICK r \in Frame : r = [m[p] EXCEPT !.live = TRUE]
    BY <1>1 DEF Frame
  <2>2. /\ r.op = m[p].op /\ r.arg = m[p].arg /\ r.began = m[p].began /\ r.now = m[p].now
        /\ r.rows = m[p].rows /\ r.live = TRUE /\ r.best = m[p].best
    BY <1>1, <2>1 DEF Frame
  <2>3. Go(p, NextPass(r))
    BY <1>6, <2>1, Orders DEF Look
  <2>4. LookFinds(p, NextPass(r))
    BY <1>6, <2>2, NextPassMoves DEF LookFinds, SameCall
  <2>5. QED
    BY <2>3, <2>4, NextPassMoves
<1>7. CASE ~ Skipped(p, LookOrder, g) /\ m[p].f = 4 /\ g.intent \notin Protective
  <2>1. Go(p, NextRecord(m[p]))
    BY <1>7, Orders DEF Look
  <2>2. QED
    BY <2>1, <1>3, <1>7 DEF LookPasses
<1>8. QED
  BY <1>1, <1>4, <1>5, <1>6, <1>7

(* The same for the second pass.                                           *)
WeighSkips(p, s) == Skipped(p, WeighOrder, Got(p, WeighOrder)) /\ s = NextRecord(m[p])
WeighLoads(p, s) ==
  /\ ~ Skipped(p, WeighOrder, Got(p, WeighOrder)) /\ m[p].f < 7
  /\ SameCall(m[p], s) /\ s.live = m[p].live /\ s.best = m[p].best
  /\ s.pc = "weigh" /\ s.b = m[p].b /\ s.f = m[p].f + 1 /\ s.got = Got(p, WeighOrder)
WeighWins(p, s) ==
  /\ m[p].f = 7 /\ Wins(p, Got(p, WeighOrder))
  /\ SameCall(m[p], s) /\ s.live = m[p].live /\ s.best = Got(p, WeighOrder)
  /\ s.pc = "weigh" /\ s.b = m[p].b + 1 /\ s.f = 1
WeighLoses(p, s) ==
  m[p].f = 7 /\ ~ Wins(p, Got(p, WeighOrder)) /\ s = NextRecord(m[p])

LEMMA WeighCases ==
  ASSUME Framed, NEW p \in Procs, Weigh(p)
  PROVE  \E s \in Frame : /\ Go(p, s)
                          /\ WeighSkips(p, s) \/ WeighLoads(p, s) \/ WeighWins(p, s) \/ WeighLoses(p, s)
<1> DEFINE g == Got(p, WeighOrder)
<1>0. m[p] \in Frame /\ m[p].pc = "weigh" /\ m[p].b <= Records
  BY DEF Framed, ShardTypeOK, Weigh
<1>1. /\ m[p] \in Frame /\ m[p].pc = "weigh" /\ m[p].b \in Table /\ m[p].f \in 1 .. 7
  <2>1. m[p].f \in 1 .. 7 /\ m[p].b \in 1 .. Records + 1
    BY <1>0, Orders DEF Frame
  <2>2. QED
    BY <1>0, <2>1, Parameters DEF Table
<1>2. g \in Bid
  BY <1>1, LoadedBid, Orders
<1>3. NextRecord(m[p]) \in Frame
  BY <1>1, NextRecordMoves
<1>4. CASE Skipped(p, WeighOrder, g)
  <2>1. Go(p, NextRecord(m[p]))
    BY <1>4 DEF Weigh
  <2>2. QED
    BY <2>1, <1>3, <1>4 DEF WeighSkips
<1>5. CASE ~ Skipped(p, WeighOrder, g) /\ m[p].f < 7
  <2>0. m[p].f + 1 \in 1 .. Len(WeighOrder)
    BY <1>1, <1>5, Orders
  <2>1. PICK s \in Frame : s = [m[p] EXCEPT !.f = m[p].f + 1, !.got = g]
    BY <1>1, <1>2, <2>0 DEF Frame
  <2>2. /\ s.op = m[p].op /\ s.arg = m[p].arg /\ s.began = m[p].began /\ s.now = m[p].now
        /\ s.rows = m[p].rows /\ s.live = m[p].live /\ s.best = m[p].best
        /\ s.pc = m[p].pc /\ s.b = m[p].b /\ s.f = m[p].f + 1 /\ s.got = g
    BY <1>1, <2>1 DEF Frame
  <2>3. Go(p, s)
    BY <1>5, <2>1, Orders DEF Weigh
  <2>4. WeighLoads(p, s)
    BY <1>1, <1>5, <2>2 DEF WeighLoads, SameCall
  <2>5. QED
    BY <2>3, <2>4
<1>6. CASE ~ Skipped(p, WeighOrder, g) /\ m[p].f = 7 /\ Wins(p, g)
  <2>1. PICK r \in Frame : r = [m[p] EXCEPT !.best = g]
    BY <1>1, <1>2 DEF Frame
  <2>2. /\ r.op = m[p].op /\ r.arg = m[p].arg /\ r.began = m[p].began /\ r.now = m[p].now
        /\ r.rows = m[p].rows /\ r.live = m[p].live /\ r.best = g /\ r.b = m[p].b /\ r.pc = "weigh"
    BY <1>1, <2>1 DEF Frame
  <2>3. Go(p, NextRecord(r))
    BY <1>6, <2>1, Orders DEF Weigh
  <2>4. /\ NextRecord(r) \in Frame /\ SameCall(r, NextRecord(r))
        /\ NextRecord(r).live = m[p].live /\ NextRecord(r).best = g
        /\ NextRecord(r).pc = "weigh" /\ NextRecord(r).b = m[p].b + 1 /\ NextRecord(r).f = 1
    BY <1>1, <2>2, NextRecordMoves
  <2>5. WeighWins(p, NextRecord(r))
    BY <1>6, <2>2, <2>4 DEF WeighWins, SameCall
  <2>6. QED
    BY <2>3, <2>4, <2>5
<1>7. CASE ~ Skipped(p, WeighOrder, g) /\ m[p].f = 7 /\ ~ Wins(p, g)
  <2>1. Go(p, NextRecord(m[p]))
    BY <1>7, Orders DEF Weigh
  <2>2. QED
    BY <2>1, <1>3, <1>7 DEF WeighLoses
<1>8. QED
  BY <1>1, <1>4, <1>5, <1>6, <1>7

(* Framed, action by action.                                               *)

LEMMA FrameOf ==
  ASSUME Framed, NEW p \in Procs
  PROVE  /\ m[p] \in Frame /\ Place(p) /\ m[p].b \in 1 .. Records + 1 /\ m[p].f \in 1 .. 7
         /\ m[p].arg \in Bid /\ m[p].got \in Bid /\ m[p].best \in Bid /\ m[p].age \in Bid
         /\ m[p].now \in 0 .. Horizon /\ m[p].began \in 0 .. Horizon /\ m[p].live \in BOOLEAN
         /\ \A b \in Table : bid[b] \in Bid
         /\ clock \in 0 .. Horizon /\ same[p] \subseteq Table
<1>1. m[p] \in Frame /\ Place(p) /\ clock \in 0 .. Horizon /\ same[p] \subseteq Table
      /\ \A b \in Table : bid[b] \in Bid
  BY DEF Framed, ShardTypeOK, Places
<1>2. m[p].f \in 1 .. 7 /\ m[p].b \in 1 .. Records + 1
  BY <1>1, Orders DEF Frame
<1>3. QED
  BY <1>1, <1>2 DEF Frame

LEMMA FindMoves ==
  ASSUME Framed, NEW p \in Procs, Find(p)
  PROVE  \E s \in Frame : /\ Go(p, s) /\ SameCall(m[p], s) /\ s.b \in Mine(p) /\ s.f = m[p].f
                          /\ s.pc = IF m[p].op = "advise" THEN "arm" ELSE "store"
<1>1. PICK b \in Mine(p) :
        Go(p, [m[p] EXCEPT !.b = b, !.pc = IF m[p].op = "advise" THEN "arm" ELSE "store"])
  BY DEF Find
<1>2. m[p] \in Frame /\ b \in 1 .. Records + 1
  BY <1>1, FrameOf, Parameters DEF Mine, Table
<1>3. PICK l \in {"arm", "store"} : l = IF m[p].op = "advise" THEN "arm" ELSE "store"
  OBVIOUS
<1>4. PICK s \in Frame : s = [m[p] EXCEPT !.b = b, !.pc = l]
  BY <1>2 DEF Frame
<1>5. /\ s.op = m[p].op /\ s.arg = m[p].arg /\ s.began = m[p].began /\ s.now = m[p].now
      /\ s.rows = m[p].rows /\ s.b = b /\ s.f = m[p].f /\ s.pc = l
  BY <1>2, <1>4 DEF Frame
<1>6. QED
  BY <1>1, <1>3, <1>4, <1>5 DEF SameCall

LEMMA FindFramed ==
  ASSUME Framed, NEW p \in Procs, Find(p)
  PROVE  Framed'
<1>1. PICK s \in Frame : /\ Go(p, s) /\ SameCall(m[p], s) /\ s.b \in Mine(p) /\ s.f = m[p].f
                         /\ s.pc = IF m[p].op = "advise" THEN "arm" ELSE "store"
  BY FindMoves
<1>2. m'[p] = s
  BY <1>1, GoTo DEF Framed
<1>3. /\ clock <= Latest /\ clock' = clock /\ s.f = 1 /\ s.b \in Table
      /\ m[p].op \in {"claim", "rebid", "release", "advise"} /\ s.op = m[p].op /\ s.arg = m[p].arg
      /\ (m[p].op \in {"claim", "rebid"} => m[p].arg.id = Id[p])
      /\ (m[p].op = "release" => m[p].arg = Empty)
  BY <1>1, FrameOf DEF Find, Place, SameCall, Mine
<1>4. s.pc = "store" => s.f <= Len(StoreOrder(s.op))
  <2>1. s.pc = "store" => s.op \in {"claim", "rebid", "release"}
    BY <1>1, <1>3
  <2>2. \A op \in {"claim", "rebid", "release"} : 1 <= Len(StoreOrder(op))
    BY StoreFields
  <2>3. QED
    BY <1>3, <2>1, <2>2
<1>5. Place(p)'
  BY <1>1, <1>2, <1>3, <1>4 DEF Place
<1>6. QED
  BY <1>1, <1>5, QuietFramed DEF Find

LEMMA NotFoundMoves ==
  ASSUME Framed, NEW p \in Procs, NotFound(p), m[p].op = "claim"
  PROVE  \E s \in Frame : /\ Go(p, s) /\ SameCall(m[p], s) /\ s.pc = "grab" /\ s.b = 1 /\ s.f = 1
                          /\ UNCHANGED << bid, clock, left, due, same >>
<1>1. Go(p, [m[p] EXCEPT !.pc = "grab"]) /\ UNCHANGED << bid, clock, left, due, same >>
  BY DEF NotFound
<1>2. m[p] \in Frame /\ m[p].b = 1 /\ m[p].f = 1
  BY FrameOf DEF Place, NotFound
<1>3. PICK s \in Frame : s = [m[p] EXCEPT !.pc = "grab"]
  BY <1>2 DEF Frame
<1>4. /\ s.op = m[p].op /\ s.arg = m[p].arg /\ s.began = m[p].began /\ s.now = m[p].now
      /\ s.rows = m[p].rows /\ s.b = m[p].b /\ s.f = m[p].f /\ s.pc = "grab"
  BY <1>2, <1>3 DEF Frame
<1>5. QED
  BY <1>1, <1>2, <1>3, <1>4 DEF SameCall

LEMMA NotFoundFramed ==
  ASSUME Framed, NEW p \in Procs, NotFound(p)
  PROVE  Framed'
<1>1. CASE m[p].op = "claim"
  <2>1. PICK s \in Frame : /\ Go(p, s) /\ SameCall(m[p], s) /\ s.pc = "grab" /\ s.b = 1 /\ s.f = 1
                          /\ UNCHANGED << bid, clock, left, due, same >>
    BY <1>1, NotFoundMoves
  <2>2. m'[p] = s
    BY <2>1, GoTo DEF Framed
  <2>3. Place(p)'
    BY <1>1, <2>1, <2>2, FrameOf DEF Place, SameCall, NotFound
  <2>4. QED
    BY <2>1, <2>3, QuietFramed DEF Untouched
<1>2. CASE m[p].op # "claim"
  <2>1. \E rc : Return(p, rc)
    BY <1>2 DEF NotFound
  <2>2. UNCHANGED << bid, clock, left, due >>
    BY DEF NotFound
  <2>3. QED
    BY <2>1, <2>2, ReturnFramed DEF Framed, ShardTypeOK
<1>3. QED
  BY <1>1, <1>2

(* The CAS takes the record, or goes on to the next.                       *)
GrabTakes(p, s) ==
  /\ bid[m[p].b].id = 0 /\ bid' = [bid EXCEPT ![m[p].b].id = Id[p]]
  /\ same' = [q \in Procs |-> same[q] \ {m[p].b}]
  /\ s.pc = "store" /\ s.b = m[p].b
GrabMisses(p, s) ==
  bid[m[p].b].id # 0 /\ Untouched /\ s.pc = "grab" /\ s.b = m[p].b + 1

LEMMA GrabMoves ==
  ASSUME Framed, NEW p \in Procs, Grab(p)
  PROVE  \E s \in Frame : /\ Go(p, s) /\ SameCall(m[p], s) /\ s.f = 1 /\ m[p].b \in Table
                          /\ GrabTakes(p, s) \/ GrabMisses(p, s)
<1>1. m[p] \in Frame /\ m[p].b \in Table /\ m[p].b + 1 \in 1 .. Records + 1 /\ m[p].f = 1
  BY FrameOf, Parameters DEF Grab, Place, Table
<1>2. CASE bid[m[p].b].id = 0
  <2>1. PICK s \in Frame : s = [m[p] EXCEPT !.pc = "store"]
    BY <1>1 DEF Frame
  <2>2. /\ s.op = m[p].op /\ s.arg = m[p].arg /\ s.began = m[p].began /\ s.now = m[p].now
        /\ s.rows = m[p].rows /\ s.b = m[p].b /\ s.f = m[p].f /\ s.pc = "store"
    BY <1>1, <2>1 DEF Frame
  <2>3. QED
    BY <1>1, <1>2, <2>1, <2>2 DEF SameCall, GrabTakes, Grab
<1>3. CASE bid[m[p].b].id # 0
  <2>1. PICK s \in Frame : s = [m[p] EXCEPT !.b = m[p].b + 1]
    BY <1>1 DEF Frame
  <2>2. /\ s.op = m[p].op /\ s.arg = m[p].arg /\ s.began = m[p].began /\ s.now = m[p].now
        /\ s.rows = m[p].rows /\ s.b = m[p].b + 1 /\ s.f = m[p].f /\ s.pc = m[p].pc
    BY <1>1, <2>1 DEF Frame
  <2>3. QED
    BY <1>1, <1>3, <2>1, <2>2 DEF SameCall, GrabMisses, Grab
<1>4. QED
  BY <1>2, <1>3

LEMMA GrabBid ==
  ASSUME Framed, NEW p \in Procs, m[p].b \in Table, bid' = [bid EXCEPT ![m[p].b].id = Id[p]]
  PROVE  /\ bid' \in [Table -> Bid] /\ bid'[m[p].b].id = Id[p]
         /\ \A c \in Table \ {m[p].b} : bid'[c] = bid[c]
<1>1. bid \in [Table -> Bid] /\ Id[p] \in {0} \cup {Id[q] : q \in Procs}
  BY DEF Framed, ShardTypeOK
<1>2. PICK r \in Bid : r = [bid[m[p].b] EXCEPT !.id = Id[p]]
  BY <1>1 DEF Bid
<1>3. r.id = Id[p]
  BY <1>1, <1>2 DEF Bid
<1>4. bid' = [bid EXCEPT ![m[p].b] = r]
  BY <1>2
<1>5. QED
  BY <1>1, <1>3, <1>4

LEMMA GrabFramed ==
  ASSUME Framed, NEW p \in Procs, Grab(p)
  PROVE  Framed'
<1>1. PICK s \in Frame : /\ Go(p, s) /\ SameCall(m[p], s) /\ s.f = 1 /\ m[p].b \in Table
                         /\ GrabTakes(p, s) \/ GrabMisses(p, s)
  BY GrabMoves
<1>2. Go(p, s) /\ m'[p] = s
  <2>1. ShardTypeOK /\ s \in Frame /\ Go(p, s)
    BY <1>1 DEF Framed
  <2>2. QED
    BY <2>1, GoTo
<1>3. UNCHANGED << clock, left, due >> /\ clock <= Latest /\ m[p].op = "claim" /\ m[p].arg.id = Id[p]
  BY FrameOf DEF Grab, Place
<1>4. 1 <= Len(StoreOrder("claim"))
  BY StoreFields
<1>5. Place(p)'
  <2>1. s.op = "claim" /\ s.arg.id = Id[p] /\ s.f = 1 /\ s.b \in 1 .. Records + 1
    BY <1>1, <1>3 DEF SameCall, Frame
  <2>2. s.pc \in {"store", "grab"} /\ (s.pc = "store" => s.b \in Table)
    BY <1>1 DEF GrabTakes, GrabMisses
  <2>3. QED
    BY <1>2, <1>3, <1>4, <2>1, <2>2 DEF Place
<1>6. bid' \in [Table -> Bid] /\ same' \in [Procs -> SUBSET Table]
  <2>1. CASE GrabTakes(p, s)
    BY <1>1, <2>1, GrabBid DEF GrabTakes, Framed, ShardTypeOK
  <2>2. CASE GrabMisses(p, s)
    BY <2>2 DEF GrabMisses, Untouched, Framed, ShardTypeOK
  <2>3. QED
    BY <1>1, <2>1, <2>2
<1>7. QED
  BY <1>2, <1>3, <1>5, <1>6, FramedStep DEF Framed, ShardTypeOK

(* A store writes one field of the record; the last ends the call.         *)
StoreGoesOn(p, s) ==
  /\ m[p].f < Len(StoreOrder(m[p].op)) /\ due' = due
  /\ SameCall(m[p], s) /\ s.pc = "store" /\ s.b = m[p].b /\ s.f = m[p].f + 1
StoreEnds(p, s) ==
  /\ m[p].f = Len(StoreOrder(m[p].op)) /\ s = Idle
  /\ \E d \in Bid : /\ due' = [due EXCEPT ![p] = d]
                    /\ m[p].op = "claim" => d = m[p].arg
                    /\ m[p].op = "release" => d = Empty
                    /\ m[p].op = "rebid" => /\ d.at = clock /\ d.pid = bid[m[p].b].pid
                                            /\ \A g \in {"id", "intent", "prio", "dur"} : d[g] = m[p].arg[g]

LEMMA StoreMoves ==
  ASSUME Framed, NEW p \in Procs, Store(p)
  PROVE  \E s \in Frame : Go(p, s) /\ (StoreGoesOn(p, s) \/ StoreEnds(p, s))
<1>1. /\ m[p] \in Frame /\ m[p].pc = "store" /\ m[p].b \in Table /\ m[p].f \in 1 .. 7
      /\ m[p].f <= Len(StoreOrder(m[p].op))
      /\ m[p].op \in {"claim", "rebid", "release"} /\ clock <= Latest
  BY FrameOf DEF Place, Store
<1>2. PICK n \in 1 .. 6 : n = Len(StoreOrder(m[p].op))
  BY <1>1, StoreFields
<1>3. CASE m[p].f < n
  <2>1. Go(p, [m[p] EXCEPT !.f = m[p].f + 1]) /\ due' = due
    BY <1>2, <1>3, Zenon DEF Store
  <2>2. m[p].f + 1 \in 1 .. Len(WeighOrder)
    <3>1. m[p].f \in 1 .. 7 /\ m[p].f < n
      BY <1>1, <1>3
    <3>2. m[p].f + 1 \in 1 .. 7
      BY <3>1
    <3>3. QED
      BY <3>2, Orders
  <2>3. PICK s \in Frame : s = [m[p] EXCEPT !.f = m[p].f + 1]
    BY <1>1, <2>2 DEF Frame
  <2>4. /\ s.op = m[p].op /\ s.arg = m[p].arg /\ s.began = m[p].began /\ s.now = m[p].now
        /\ s.rows = m[p].rows /\ s.b = m[p].b /\ s.f = m[p].f + 1 /\ s.pc = m[p].pc
    BY <1>1, <2>3 DEF Frame
  <2>5. QED
    BY <1>1, <1>2, <1>3, <2>1, <2>3, <2>4 DEF SameCall, StoreGoesOn
<1>4. CASE m[p].f = n
  <2>1. /\ Go(p, Idle)
        /\ due' = [due EXCEPT ![p] =
             CASE m[p].op = "claim"   -> m[p].arg
               [] m[p].op = "rebid"   -> [m[p].arg EXCEPT !.at = clock, !.pid = bid[m[p].b].pid]
               [] m[p].op = "release" -> Empty]
    <3>1. ~ (m[p].f < n)
      BY <1>2, <1>4
    <3>2. QED
      BY <1>2, <3>1, Zenon DEF Store
  <2>2. m[p].arg \in Bid /\ bid[m[p].b].pid \in Nat /\ clock \in 0 .. Latest
    BY <1>1, FrameOf, Parameters DEF Bid
  <2>3. PICK d \in Bid : d = [m[p].arg EXCEPT !.at = clock, !.pid = bid[m[p].b].pid]
    BY <2>2 DEF Bid
  <2>4. /\ d.at = clock /\ d.pid = bid[m[p].b].pid /\ d.id = m[p].arg.id
        /\ d.intent = m[p].arg.intent /\ d.prio = m[p].arg.prio /\ d.dur = m[p].arg.dur
    BY <2>2, <2>3 DEF Bid
  <2>5. CASE m[p].op = "claim"
    BY <1>2, <1>4, <2>1, <2>2, <2>5, IdleFrame DEF StoreEnds
  <2>6. CASE m[p].op = "release"
    BY <1>2, <1>4, <2>1, <2>6, IdleFrame, EmptyBid DEF StoreEnds
  <2>7. CASE m[p].op = "rebid"
    <3>1. due' = [due EXCEPT ![p] = d]
      BY <2>1, <2>3, <2>7
    <3>2. \A g \in {"id", "intent", "prio", "dur"} : d[g] = m[p].arg[g]
      BY <2>4
    <3>3. QED
      BY <1>2, <1>4, <2>1, <2>4, <2>7, <3>1, <3>2, IdleFrame DEF StoreEnds
  <2>8. QED
    BY <1>1, <2>5, <2>6, <2>7
<1>5. QED
  BY <1>1, <1>2, <1>3, <1>4

LEMMA StoreBid ==
  ASSUME Framed, NEW p \in Procs, Store(p)
  PROVE  LET field == StoreOrder(m[p].op)[m[p].f]
         IN /\ m[p].b \in Table /\ field \in FieldNames
            /\ bid' = [bid EXCEPT ![m[p].b] = [bid[m[p].b] EXCEPT ![field] = Stored(p, field)]]
            /\ bid' \in [Table -> Bid] /\ bid'[m[p].b][field] = Stored(p, field)
            /\ \A g \in FieldNames \ {field} : bid'[m[p].b][g] = bid[m[p].b][g]
            /\ \A c \in Table \ {m[p].b} : bid'[c] = bid[c]
            /\ same' = [q \in Procs |-> same[q] \ {m[p].b}] /\ UNCHANGED << clock, left >>
<1> DEFINE field == StoreOrder(m[p].op)[m[p].f]
           old   == bid[m[p].b]
<1>1. /\ m[p].b \in Table /\ m[p].op \in {"claim", "rebid", "release"}
      /\ m[p].f \in 1 .. Len(StoreOrder(m[p].op)) /\ clock \in 0 .. Latest
  <2>1. Place(p) /\ m[p].pc = "store" /\ m[p].f \in 1 .. 7 /\ clock \in 0 .. Horizon
    BY FrameOf DEF Store
  <2>2. /\ m[p].b \in Table /\ m[p].op \in {"claim", "rebid", "release"}
        /\ m[p].f <= Len(StoreOrder(m[p].op)) /\ clock <= Latest
    BY <2>1 DEF Place
  <2>3. Len(StoreOrder(m[p].op)) \in 1 .. 6
    BY <2>2, StoreFields
  <2>4. QED
    BY <2>1, <2>2, <2>3, Parameters
<1>2. field \in FieldNames
  BY <1>1, StoreFields
<1>3. /\ bid' = [bid EXCEPT ![m[p].b] = [old EXCEPT ![field] = Stored(p, field)]]
      /\ same' = [q \in Procs |-> same[q] \ {m[p].b}] /\ UNCHANGED << clock, left >>
  BY DEF Store
<1>4. old \in Bid /\ m[p].arg \in Bid
  BY <1>1, FrameOf
<1>5. PICK new \in Bid : new = [old EXCEPT ![field] = Stored(p, field)]
  <2>1. CASE m[p].op = "rebid" /\ field = "at"
    BY <1>1, <1>4, <2>1 DEF Stored, Bid
  <2>2. CASE ~ (m[p].op = "rebid" /\ field = "at")
    BY <1>2, <1>4, <2>2, BidTyped DEF Stored
  <2>3. QED
    BY <2>1, <2>2
<1>6. new[field] = Stored(p, field) /\ \A g \in FieldNames \ {field} : new[g] = old[g]
  BY <1>2, <1>4, <1>5, BidFields
<1>7. bid' \in [Table -> Bid] /\ bid'[m[p].b] = new /\ \A c \in Table \ {m[p].b} : bid'[c] = bid[c]
  BY <1>1, <1>3, <1>5 DEF Framed, ShardTypeOK
<1>8. QED
  BY <1>1, <1>2, <1>3, <1>6, <1>7

LEMMA StoreFramed ==
  ASSUME Framed, NEW p \in Procs, Store(p)
  PROVE  Framed'
<1>1. PICK s \in Frame : Go(p, s) /\ (StoreGoesOn(p, s) \/ StoreEnds(p, s))
  BY StoreMoves
<1>2. m'[p] = s
  BY <1>1, GoTo DEF Framed
<1>3. /\ bid' \in [Table -> Bid] /\ UNCHANGED << clock, left >> /\ clock <= Latest
      /\ same' = [q \in Procs |-> same[q] \ {m[p].b}]
  BY StoreBid, FrameOf DEF Store, Place
<1>4. due' \in [Procs -> Bid \cup {Lost}]
  BY <1>1 DEF StoreGoesOn, StoreEnds, Framed, ShardTypeOK
<1>5. Place(p)'
  <2>1. CASE StoreGoesOn(p, s)
    <3>1. m[p].f + 1 <= Len(StoreOrder(m[p].op))
      BY <2>1, FrameOf, StoreFields DEF StoreGoesOn, Place, Store
    <3>2. QED
      BY <1>2, <1>3, <2>1, <3>1, FrameOf DEF StoreGoesOn, SameCall, Place, Store
  <2>2. CASE StoreEnds(p, s)
    BY <1>2, <2>2, IdleFrame DEF StoreEnds, Place
  <2>3. QED
    BY <1>1, <2>1, <2>2
<1>6. same' \in [Procs -> SUBSET Table]
  BY <1>3 DEF Framed, ShardTypeOK
<1>7. QED
  BY <1>1, <1>3, <1>4, <1>5, <1>6, FramedStep DEF Framed, ShardTypeOK

LEMMA ElectMoves ==
  ASSUME Framed, NEW p \in Procs, Elect(p)
  PROVE  \E s \in Frame : /\ Go(p, s) /\ s.op = m[p].op /\ s.arg = m[p].arg /\ s.rows = m[p].rows
                          /\ s.began = m[p].began /\ s.now = clock
                          /\ s.pc = "look" /\ s.b = 1 /\ s.f = 1 /\ s.live = FALSE /\ s.best = Empty
<1>1. m[p] \in Frame /\ 1 \in 1 .. Records + 1 /\ 1 \in 1 .. Len(WeighOrder) /\ clock \in 0 .. Horizon
  BY FrameOf, Parameters, Orders
<1>2. PICK s \in Frame : s = [m[p] EXCEPT !.pc = "look", !.b = 1, !.f = 1, !.now = clock,
                                          !.live = FALSE, !.best = Empty]
  BY <1>1, EmptyBid DEF Frame
<1>3. /\ s.op = m[p].op /\ s.arg = m[p].arg /\ s.began = m[p].began /\ s.now = clock
      /\ s.rows = m[p].rows /\ s.b = 1 /\ s.f = 1 /\ s.pc = "look" /\ s.live = FALSE /\ s.best = Empty
  BY <1>1, <1>2 DEF Frame
<1>4. QED
  BY <1>2, <1>3 DEF Elect

LEMMA ElectFramed ==
  ASSUME Framed, NEW p \in Procs, Elect(p)
  PROVE  Framed'
<1>1. PICK s \in Frame : /\ Go(p, s) /\ s.op = m[p].op /\ s.arg = m[p].arg /\ s.rows = m[p].rows
                         /\ s.began = m[p].began /\ s.now = clock
                         /\ s.pc = "look" /\ s.b = 1 /\ s.f = 1 /\ s.live = FALSE /\ s.best = Empty
  BY ElectMoves
<1>2. m'[p] = s
  BY <1>1, GoTo DEF Framed
<1>3. same' \in [Procs -> SUBSET Table] /\ UNCHANGED << bid, clock, left, due >>
  BY DEF Elect, Framed, ShardTypeOK
<1>4. Place(p)'
  BY <1>1, <1>2, FrameOf, Parameters, Orders DEF Place, Table
<1>5. QED
  BY <1>1, <1>3, <1>4, FramedStep DEF Framed, ShardTypeOK

LEMMA LookFramed ==
  ASSUME Framed, NEW p \in Procs, Look(p)
  PROVE  Framed'
<1>1. PICK s \in Frame : /\ Go(p, s)
                         /\ LookSkips(p, s) \/ LookLoads(p, s) \/ LookFinds(p, s) \/ LookPasses(p, s)
  BY LookCases
<1>2. m'[p] = s
  BY <1>1, GoTo DEF Framed
<1>3. /\ m[p] \in Frame /\ m[p].pc = "look" /\ m[p].b \in Table
      /\ (m[p].op \in {"claim", "rebid"} => m[p].arg.id = Id[p])
      /\ (m[p].op = "release" => m[p].arg = Empty)
  BY FrameOf DEF Look, Place
<1>4. /\ s.op = m[p].op /\ s.arg = m[p].arg
      /\ s.pc = "weigh" \/ (s.pc = "look" /\ s.b \in Table /\ s.f <= 4)
  <2>1. CASE s = NextRecord(m[p])
    <3>1. CASE m[p].b = Records
      BY <1>3, <2>1, <3>1, NextPassMoves DEF NextRecord, SameCall
    <3>2. CASE m[p].b # Records
      BY <1>3, <2>1, <3>2, NextRecordMoves, Parameters DEF SameCall, Table
    <3>3. QED
      BY <3>1, <3>2
  <2>2. CASE LookLoads(p, s)
    BY <1>3, <2>2, FrameOf DEF LookLoads, SameCall
  <2>3. CASE LookFinds(p, s)
    BY <2>3 DEF LookFinds, SameCall
  <2>4. QED
    BY <1>1, <2>1, <2>2, <2>3 DEF LookSkips, LookPasses
<1>5. Place(p)'
  BY <1>2, <1>3, <1>4, Orders DEF Place
<1>6. QED
  BY <1>1, <1>5, QuietFramed DEF Look

LEMMA WeighFramed ==
  ASSUME Framed, NEW p \in Procs, Weigh(p)
  PROVE  Framed'
<1>1. PICK s \in Frame : /\ Go(p, s)
                         /\ WeighSkips(p, s) \/ WeighLoads(p, s) \/ WeighWins(p, s) \/ WeighLoses(p, s)
  BY WeighCases
<1>2. m'[p] = s
  BY <1>1, GoTo DEF Framed
<1>3. /\ m[p] \in Frame /\ m[p].pc = "weigh" /\ m[p].b \in Table
      /\ (m[p].op \in {"claim", "rebid"} => m[p].arg.id = Id[p])
      /\ (m[p].op = "release" => m[p].arg = Empty)
  BY FrameOf, Parameters DEF Weigh, Place, Table
<1>4. s.op = m[p].op /\ s.arg = m[p].arg /\ s.pc = "weigh"
  BY <1>1, <1>3, NextRecordMoves DEF WeighSkips, WeighLoads, WeighWins, WeighLoses, SameCall
<1>5. Place(p)'
  BY <1>2, <1>3, <1>4 DEF Place
<1>6. QED
  BY <1>1, <1>5, QuietFramed DEF Weigh

(* The steps that only go on to another place of the same call.            *)
LEMMA ArmMoves ==
  ASSUME Framed, NEW p \in Procs, Arm(p)
  PROVE  \E s \in Frame : Go(p, s) /\ SameCall(m[p], s) /\ s.pc = "elect"
<1>1. PICK t \in Nat : t = IF m[p].timeout = Forever THEN 0 ELSE (clock + m[p].timeout) % Span
  <2>1. m[p].timeout \in Nat \cup {Forever} /\ clock \in Nat /\ Span \in Nat \ {0}
    BY FrameOf, Parameters DEF Frame
  <2>2. QED
    BY <2>1
<1>2. m[p] \in Frame
  BY FrameOf
<1>3. PICK s \in Frame : s = [m[p] EXCEPT !.pc = "elect", !.end = t]
  BY <1>2 DEF Frame
<1>4. /\ s.op = m[p].op /\ s.arg = m[p].arg /\ s.began = m[p].began /\ s.now = m[p].now
      /\ s.rows = m[p].rows /\ s.pc = "elect"
  BY <1>2, <1>3 DEF Frame
<1>5. Go(p, s)
  BY <1>1, <1>3 DEF Arm
<1>6. QED
  BY <1>4, <1>5 DEF SameCall

LEMMA WaitMoves ==
  ASSUME Framed, NEW p \in Procs, Wait(p)
  PROVE  \E s \in Frame : Go(p, s) /\ SameCall(m[p], s) /\ s.pc = "elect"
<1>1. m[p] \in Frame
  BY FrameOf
<1>2. PICK s \in Frame : s = [m[p] EXCEPT !.pc = "elect"]
  BY <1>1 DEF Frame
<1>3. /\ s.op = m[p].op /\ s.arg = m[p].arg /\ s.began = m[p].began /\ s.now = m[p].now
      /\ s.rows = m[p].rows /\ s.pc = "elect"
  BY <1>1, <1>2 DEF Frame
<1>4. QED
  BY <1>2, <1>3 DEF SameCall, Wait

LEMMA AgainFramed ==
  ASSUME Framed, NEW p \in Procs, Arm(p) \/ Wait(p)
  PROVE  Framed'
<1>1. PICK s \in Frame : Go(p, s) /\ SameCall(m[p], s) /\ s.pc = "elect"
  BY ArmMoves, WaitMoves
<1>2. m'[p] = s
  BY <1>1, GoTo DEF Framed
<1>3. Place(p)'
  BY <1>1, <1>2, FrameOf DEF Place, SameCall
<1>4. QED
  BY <1>1, <1>3, QuietFramed DEF Arm, Wait

LEMMA SnapMoves ==
  ASSUME Framed, NEW p \in Procs, Snap(p)
  PROVE  \E s \in Frame : /\ Go(p, s) /\ SameCall(m[p], s) /\ s.best = m[p].best
                          /\ s.pc = "copy" /\ s.b = 1 /\ s.f = 1
<1>1. m[p] \in Frame /\ 1 \in 1 .. Records + 1 /\ 1 \in 1 .. Len(WeighOrder)
  BY FrameOf, Parameters, Orders
<1>2. PICK s \in Frame : s = [m[p] EXCEPT !.pc = "copy", !.b = 1, !.f = 1, !.got = Empty]
  BY <1>1, EmptyBid DEF Frame
<1>3. /\ s.op = m[p].op /\ s.arg = m[p].arg /\ s.began = m[p].began /\ s.now = m[p].now
      /\ s.rows = m[p].rows /\ s.best = m[p].best /\ s.pc = "copy" /\ s.b = 1 /\ s.f = 1
  BY <1>1, <1>2 DEF Frame
<1>4. QED
  BY <1>2, <1>3 DEF SameCall, Snap

(* A load of a field to be copied.                                         *)
LEMMA CopyMoves ==
  ASSUME Framed, NEW p \in Procs, Copy(p)
  PROVE  \E s \in Frame : /\ Go(p, s) /\ SameCall(m[p], s) /\ s.best = m[p].best
                          /\ s.b = m[p].b /\ s.b \in Table /\ s.got = Got(p, CopyOrder)
                          /\ \/ m[p].f < 6 /\ s.pc = "copy" /\ s.f = m[p].f + 1
                             \/ m[p].f = 6 /\ s.pc = "age" /\ s.f = 1
<1>1. /\ m[p] \in Frame /\ m[p].pc = "copy" /\ m[p].b \in Table /\ m[p].f \in 1 .. 6
      /\ 1 \in 1 .. Len(WeighOrder)
  <2>1. m[p].pc = "copy" /\ m[p].b <= Records
    BY DEF Copy
  <2>2. m[p].f <= 6
    BY <2>1, FrameOf, Orders DEF Place
  <2>3. QED
    BY <2>1, <2>2, FrameOf, Parameters, Orders DEF Table
<1>2. PICK g \in Bid : g = Got(p, CopyOrder)
  BY <1>1, LoadedBid, Orders
<1>3. CASE m[p].f < 6
  <2>1. m[p].f + 1 \in 1 .. Len(WeighOrder)
    BY <1>1, <1>3, Orders
  <2>2. PICK s \in Frame : s = [m[p] EXCEPT !.f = m[p].f + 1, !.got = g]
    BY <1>1, <2>1 DEF Frame
  <2>3. /\ s.op = m[p].op /\ s.arg = m[p].arg /\ s.began = m[p].began /\ s.now = m[p].now
        /\ s.rows = m[p].rows /\ s.best = m[p].best /\ s.pc = m[p].pc /\ s.b = m[p].b
        /\ s.f = m[p].f + 1 /\ s.got = g
    BY <1>1, <2>2 DEF Frame
  <2>4. Go(p, s)
    BY <1>2, <1>3, <2>2, Orders DEF Copy
  <2>5. QED
    BY <1>1, <1>2, <1>3, <2>3, <2>4 DEF SameCall
<1>4. CASE m[p].f = 6
  <2>1. PICK s \in Frame : s = [m[p] EXCEPT !.pc = "age", !.f = 1, !.got = g]
    BY <1>1 DEF Frame
  <2>2. /\ s.op = m[p].op /\ s.arg = m[p].arg /\ s.began = m[p].began /\ s.now = m[p].now
        /\ s.rows = m[p].rows /\ s.best = m[p].best /\ s.pc = "age" /\ s.b = m[p].b
        /\ s.f = 1 /\ s.got = g
    BY <1>1, <2>1 DEF Frame
  <2>3. Go(p, s)
    BY <1>2, <1>4, <2>1, Orders DEF Copy
  <2>4. QED
    BY <1>1, <1>2, <1>4, <2>2, <2>3 DEF SameCall
<1>5. QED
  BY <1>1, <1>3, <1>4

(* The age of a record: two loads, and its row.                            *)
AgeLoads(p, s) ==
  /\ m[p].f = 1 /\ m[p].got.id # 0 /\ SameCall(m[p], s)
  /\ s.pc = "age" /\ s.b = m[p].b /\ s.f = 2 /\ s.got = m[p].got
  /\ s.age.at = bid[m[p].b].at
AgeEmits(p, s, expired) ==
  /\ m[p].got.id # 0 => m[p].f = 2 /\ expired = Expired(Aged(p), m[p].began)
  /\ s.op = m[p].op /\ s.arg = m[p].arg /\ s.began = m[p].began /\ s.now = m[p].now
  /\ s.pc = "copy" /\ s.b = m[p].b + 1 /\ s.f = 1
  /\ s.rows = Append(m[p].rows, Row(p, expired))

LEMMA AgedBid ==
  ASSUME Framed, NEW p \in Procs, Age(p)
  PROVE  /\ Aged(p) \in Bid /\ m[p].f \in 1 .. 2 /\ m[p].b \in Table
         /\ m[p].f = 1 => Aged(p).at = bid[m[p].b].at
         /\ m[p].f = 2 => Aged(p).at = m[p].age.at /\ Aged(p).dur = bid[m[p].b].dur
<1>1. /\ m[p].age \in Bid /\ bid[m[p].b] \in Bid /\ m[p].f \in 1 .. 2 /\ m[p].b \in Table
  <2>1. m[p].pc = "age"
    BY DEF Age
  <2>2. m[p].b \in Table /\ m[p].f <= 2
    BY <2>1, FrameOf, Orders DEF Place
  <2>3. QED
    BY <2>2, FrameOf
<1>2. CASE m[p].f = 1
  <2>1. Aged(p) = [m[p].age EXCEPT !.at = bid[m[p].b].at]
    BY <1>2 DEF Aged, AgeOrder
  <2>2. QED
    BY <1>1, <1>2, <2>1 DEF Bid
<1>3. CASE m[p].f = 2
  <2>1. Aged(p) = [m[p].age EXCEPT !.dur = bid[m[p].b].dur]
    BY <1>3 DEF Aged, AgeOrder
  <2>2. QED
    BY <1>1, <1>3, <2>1 DEF Bid
<1>4. QED
  BY <1>1, <1>2, <1>3

LEMMA AgeMoves ==
  ASSUME Framed, NEW p \in Procs, Age(p)
  PROVE  \E s \in Frame : /\ Go(p, s) /\ s.best = m[p].best
                          /\ AgeLoads(p, s) \/ \E expired \in BOOLEAN : AgeEmits(p, s, expired)
<1>1. /\ m[p] \in Frame /\ m[p].pc = "age" /\ m[p].f \in 1 .. 2 /\ m[p].b \in Table
      /\ Aged(p) \in Bid /\ (m[p].f = 1 => Aged(p).at = bid[m[p].b].at) /\ m[p].got \in Bid
  BY FrameOf, AgedBid DEF Age
<1>2. /\ m[p].b + 1 \in 1 .. Records + 1 /\ 1 \in 1 .. Len(WeighOrder) /\ 2 \in 1 .. Len(WeighOrder)
  BY <1>1, Parameters, Orders DEF Table
<1>3. ASSUME NEW expired \in BOOLEAN, Emit(p, expired),
             m[p].got.id # 0 => m[p].f = 2 /\ expired = Expired(Aged(p), m[p].began)
      PROVE  \E s \in Frame : Go(p, s) /\ s.best = m[p].best /\ AgeEmits(p, s, expired)
  <2>1. PICK rows \in Seq([bid : Bid, expired : BOOLEAN, sovereign : BOOLEAN]) :
          rows = Append(m[p].rows, Row(p, expired))
    <3>1. m[p].rows \in Seq([bid : Bid, expired : BOOLEAN, sovereign : BOOLEAN])
      BY <1>1 DEF Frame
    <3>2. Row(p, expired) \in [bid : Bid, expired : BOOLEAN, sovereign : BOOLEAN]
      BY <1>1 DEF Row
    <3>3. QED
      BY <3>1, <3>2, AppendProperties
  <2>2. PICK s \in Frame : s = [m[p] EXCEPT !.pc = "copy", !.b = m[p].b + 1, !.f = 1,
                                            !.got = Empty, !.age = Empty, !.rows = rows]
    BY <1>1, <1>2, EmptyBid DEF Frame
  <2>3. /\ s.op = m[p].op /\ s.arg = m[p].arg /\ s.began = m[p].began /\ s.now = m[p].now
        /\ s.best = m[p].best /\ s.pc = "copy" /\ s.b = m[p].b + 1 /\ s.f = 1 /\ s.rows = rows
    BY <1>1, <2>2 DEF Frame
  <2>4. Go(p, s)
    BY <1>3, <2>1, <2>2 DEF Emit
  <2>5. QED
    BY <1>3, <2>1, <2>3, <2>4 DEF AgeEmits
<1>4. CASE m[p].got.id = 0
  <2>1. Emit(p, TRUE)
    BY <1>4 DEF Age
  <2>2. QED
    BY <1>3, <1>4, <2>1
<1>5. CASE m[p].got.id # 0 /\ m[p].f = 1
  <2>1. Go(p, [m[p] EXCEPT !.f = m[p].f + 1, !.age = Aged(p)])
    BY <1>5, Orders DEF Age
  <2>2. PICK s \in Frame : s = [m[p] EXCEPT !.f = 2, !.age = Aged(p)]
    BY <1>1, <1>2 DEF Frame
  <2>3. /\ s.op = m[p].op /\ s.arg = m[p].arg /\ s.began = m[p].began /\ s.now = m[p].now
        /\ s.rows = m[p].rows /\ s.best = m[p].best /\ s.pc = m[p].pc /\ s.b = m[p].b
        /\ s.f = 2 /\ s.got = m[p].got /\ s.age = Aged(p)
    BY <1>1, <2>2 DEF Frame
  <2>4. Go(p, s)
    BY <1>5, <2>1, <2>2
  <2>5. QED
    BY <1>1, <1>5, <2>3, <2>4 DEF AgeLoads, SameCall
<1>6. CASE m[p].got.id # 0 /\ m[p].f = 2
  <2>1. PICK expired \in BOOLEAN : expired = Expired(Aged(p), m[p].began)
    BY <1>1, FrameOf, ExpiredWhen
  <2>2. Emit(p, expired)
    BY <1>6, <2>1, Orders DEF Age
  <2>3. QED
    BY <1>3, <1>6, <2>1, <2>2
<1>7. QED
  BY <1>1, <1>4, <1>5, <1>6

LEMMA SnapshotFramed ==
  ASSUME Framed, NEW p \in Procs, Snap(p) \/ Copy(p) \/ Age(p)
  PROVE  Framed'
<1>1. /\ Untouched /\ UNCHANGED << clock, left, due >>
      /\ m[p].op \in {"claim", "rebid"} => m[p].arg.id = Id[p]
      /\ m[p].op = "release" => m[p].arg = Empty
  BY FrameOf DEF Snap, Copy, Age, Place
<1>2. ASSUME NEW s \in Frame, Go(p, s), s.op = m[p].op, s.arg = m[p].arg,
             \/ s.pc = "copy" /\ s.f <= 6
             \/ s.pc = "age" /\ s.b \in Table /\ s.f <= 2
      PROVE  Framed'
  <2>1. m'[p] = s
    BY <1>2, GoTo DEF Framed
  <2>2. Place(p)'
    BY <1>1, <1>2, <2>1, Orders DEF Place
  <2>3. QED
    BY <1>1, <1>2, <2>2, QuietFramed
<1>3. CASE Snap(p)
  BY <1>2, <1>3, SnapMoves DEF SameCall
<1>4. CASE Copy(p)
  <2>1. PICK s \in Frame : /\ Go(p, s) /\ SameCall(m[p], s) /\ s.best = m[p].best
                           /\ s.b = m[p].b /\ s.b \in Table /\ s.got = Got(p, CopyOrder)
                           /\ \/ m[p].f < 6 /\ s.pc = "copy" /\ s.f = m[p].f + 1
                              \/ m[p].f = 6 /\ s.pc = "age" /\ s.f = 1
    BY <1>4, CopyMoves
  <2>2. s.f <= 6 /\ (s.pc = "age" => s.f <= 2)
    BY <2>1, FrameOf
  <2>3. QED
    BY <1>2, <2>1, <2>2 DEF SameCall
<1>5. CASE Age(p)
  <2>1. PICK s \in Frame : /\ Go(p, s) /\ s.best = m[p].best
                           /\ AgeLoads(p, s) \/ \E expired \in BOOLEAN : AgeEmits(p, s, expired)
    BY <1>5, AgeMoves
  <2>2. CASE AgeLoads(p, s)
    BY <1>2, <1>5, <2>1, <2>2, AgedBid DEF AgeLoads, SameCall
  <2>3. CASE \E expired \in BOOLEAN : AgeEmits(p, s, expired)
    BY <1>2, <2>1, <2>3 DEF AgeEmits
  <2>4. QED
    BY <2>1, <2>2, <2>3
<1>6. QED
  BY <1>3, <1>4, <1>5

(* Every way a call may end.                                               *)
Ends(p) == \/ Full(p) \/ Answer(p) \/ Sovereign(p) \/ Defer(p) \/ TimedOut(p) \/ Shown(p) \/ Kill(p)
           \/ NotFound(p) /\ m[p].op # "claim"

LEMMA EndsMoves ==
  ASSUME Framed, NEW p \in Procs, Ends(p)
  PROVE  /\ Return(p, "any") /\ UNCHANGED << bid, clock, left >>
         /\ due' \in [Procs -> Bid \cup {Lost}]
         /\ \A q \in Procs \ {p} : due'[q] = due[q]
         /\ due'[p] = due[p] \/ due'[p] = Lost
         /\ m[p].pc = "store" => due'[p] = Lost
<1>1. CASE ~ Kill(p)
  <2>1. /\ Return(p, "any") /\ UNCHANGED << bid, clock, left, due >> /\ m[p].pc # "store"
    BY <1>1 DEF Ends, Full, Answer, Sovereign, Defer, TimedOut, Shown, NotFound, Return, Elected
  <2>2. QED
    BY <2>1 DEF Framed, ShardTypeOK
<1>2. CASE Kill(p)
  <2>1. /\ Return(p, "any") /\ UNCHANGED << bid, clock, left >>
        /\ due' = [due EXCEPT ![p] = IF m[p].op \in {"claim", "rebid", "release"} THEN Lost ELSE due[p]]
    BY <1>2 DEF Kill, Return
  <2>2. m[p].pc = "store" => m[p].op \in {"claim", "rebid", "release"}
    BY FrameOf DEF Place
  <2>3. QED
    BY <2>1, <2>2 DEF Framed, ShardTypeOK
<1>3. QED
  BY <1>1, <1>2

LEMMA EndsFramed ==
  ASSUME Framed, NEW p \in Procs, Ends(p)
  PROVE  Framed'
BY EndsMoves, ReturnFramed

LEMMA TickFramed ==
  ASSUME Framed, Tick
  PROVE  Framed'
<1>1. clock' \in 0 .. Horizon /\ UNCHANGED << bid, m, left, due, same >>
  BY Parameters DEF Tick, Framed, ShardTypeOK
<1>2. ASSUME NEW p \in Procs
      PROVE  Place(p)'
  <2>1. m[p].pc \in {"find", "grab", "store", "arm"} => clock' <= Latest
    BY Parameters DEF Tick, Framed, ShardTypeOK
  <2>2. QED
    BY <1>1, <2>1, FrameOf DEF Place
<1>3. QED
  BY <1>1, <1>2 DEF Framed, ShardTypeOK, Places

LEMMA InitFramed == ShardInit => Framed
<1> SUFFICES ASSUME ShardInit
             PROVE  Framed
  OBVIOUS
<1>1. bid \in [Table -> Bid] /\ left \in [Procs -> Nat]
  BY SceneAssumption DEF ShardInit
<1>2. clock \in 0 .. Horizon /\ m \in [Procs -> Frame] /\ same \in [Procs -> SUBSET Table]
  BY Parameters, IdleFrame DEF ShardInit
<1>3. ASSUME NEW p \in Procs
      PROVE  (IF Mine(p) = {} THEN Empty ELSE bid[CHOOSE b \in Mine(p) : TRUE]) \in Bid
  <2>1. CASE Mine(p) = {}
    BY <2>1, EmptyBid
  <2>2. CASE Mine(p) # {}
    <3>1. (CHOOSE b \in Mine(p) : TRUE) \in Table
      BY <2>2 DEF Mine
    <3>2. QED
      BY <1>1, <2>2, <3>1
  <2>3. QED
    BY <2>1, <2>2
<1>4. due \in [Procs -> Bid \cup {Lost}]
  BY <1>3 DEF ShardInit
<1>5. ASSUME NEW p \in Procs
      PROVE  Place(p)
  BY IdleFrame DEF ShardInit, Place
<1>6. QED
  BY <1>1, <1>2, <1>4, <1>5 DEF Framed, ShardTypeOK, Places

(* Every step of the specification, by what it does.                       *)
LEMMA StepCases ==
  ASSUME ShardNext
  PROVE  \/ Tick
         \/ \E p \in Procs : \/ Start(p) \/ Find(p) \/ (NotFound(p) /\ m[p].op = "claim")
                             \/ Grab(p) \/ Store(p) \/ Elect(p) \/ Look(p) \/ Weigh(p)
                             \/ Arm(p) \/ Wait(p) \/ Snap(p) \/ Copy(p) \/ Age(p) \/ Ends(p)
BY DEF ShardNext, Steps, Ends

LEMMA NextFramed ==
  ASSUME Framed, [ShardNext]_shardVars
  PROVE  Framed'
<1>1. CASE ShardNext
  BY <1>1, StepCases, TickFramed, StartFramed, FindFramed, NotFoundFramed, GrabFramed, StoreFramed,
     ElectFramed, LookFramed, WeighFramed, AgainFramed, SnapshotFramed, EndsFramed
<1>2. CASE UNCHANGED shardVars
  BY <1>2 DEF shardVars, Framed, ShardTypeOK, Places, Place
<1>3. QED
  BY <1>1, <1>2

(* The bid table and every call in it are well typed.                      *)
THEOREM ShardTypes == ShardSpec => []ShardTypeOK
<1>1. ShardSpec => []Framed
  BY InitFramed, NextFramed, PTL DEF ShardSpec
<1>2. Framed => ShardTypeOK
  BY DEF Framed
<1>3. QED
  BY <1>1, <1>2, PTL

-----------------------------------------------------------------------------
(* Every shard's own record.  A process stores its own id only where no    *)
(* shard stands, and otherwise into the record it found under its id: what *)
(* a shard knows of its record nobody else can change.                     *)

LEMMA OthersOwned ==
  ASSUME NEW p \in Procs, Owned(p), m'[p] = m[p], due'[p] = due[p],
         bid \in [Table -> Bid], Place(p),
         \A c \in Table : bid[c].id = Id[p] \/ bid'[c].id = Id[p] => bid'[c] = bid[c]
  PROVE  Owned(p)'
<1>1. Mine(p)' = Mine(p)
  BY DEF Mine
<1>2. (m[p].pc = "grab" => Mine(p) = {})'
  BY <1>1 DEF Owned
<1>3. CASE m[p].pc = "store"
  <2>1. m[p].b \in Table /\ bid[m[p].b].id = Id[p] /\ bid'[m[p].b] = bid[m[p].b]
    BY <1>3 DEF Owned, Place
  <2>2. QED
    BY <1>3, <2>1 DEF Owned
<1>4. CASE m[p].pc # "store"
  <2>1. due[p] # Lost => Settled(p)
    BY <1>4 DEF Owned
  <2>2. due[p] # Lost => Settled(p)'
    BY <1>1, <2>1 DEF Settled
  <2>3. QED
    BY <1>2, <1>4, <2>2 DEF Owned
<1>5. QED
  BY <1>3, <1>4

(* A step that stores nothing, and is not about to.                        *)
LEMMA QuietHolds ==
  ASSUME Framed, Holds, NEW p \in Procs, NEW s \in Frame, Go(p, s), bid' = bid, due' = due,
         m[p].pc # "store", s.pc \notin {"store", "grab"}
  PROVE  Holds'
<1>1. m'[p] = s /\ \A q \in Procs \ {p} : m'[q] = m[q]
  BY GoTo DEF Framed
<1>2. Owned(p)'
  BY <1>1 DEF Holds, Owned, Settled, Mine
<1>3. \A q \in Procs \ {p} : Owned(q)'
  BY <1>1, FrameOf, OthersOwned DEF Holds, Framed, ShardTypeOK
<1>4. QED
  BY <1>2, <1>3 DEF Holds, OneRecord

LEMMA FindHolds ==
  ASSUME Framed, Holds, NEW p \in Procs, Find(p)
  PROVE  Holds'
<1>1. PICK s \in Frame : /\ Go(p, s) /\ SameCall(m[p], s) /\ s.b \in Mine(p) /\ s.f = m[p].f
                         /\ s.pc = IF m[p].op = "advise" THEN "arm" ELSE "store"
  BY FindMoves
<1>2. m'[p] = s /\ \A q \in Procs \ {p} : m'[q] = m[q]
  BY <1>1, GoTo DEF Framed
<1>3. bid' = bid /\ due' = due /\ m[p].pc # "store" /\ m[p].f = 1
  BY FrameOf DEF Find, Untouched, Place
<1>4. bid[s.b].id = Id[p]
  BY <1>1 DEF Mine
<1>5. Owned(p)'
  BY <1>1, <1>2, <1>3, <1>4 DEF Owned, Holds, Settled, Mine
<1>6. \A q \in Procs \ {p} : Owned(q)'
  BY <1>2, <1>3, FrameOf, OthersOwned DEF Holds, Framed, ShardTypeOK
<1>7. QED
  BY <1>3, <1>5, <1>6 DEF Holds, OneRecord

LEMMA NotFoundHolds ==
  ASSUME Framed, Holds, NEW p \in Procs, NotFound(p), m[p].op = "claim"
  PROVE  Holds'
<1>1. PICK s \in Frame : /\ Go(p, s) /\ SameCall(m[p], s) /\ s.pc = "grab" /\ s.b = 1 /\ s.f = 1
                         /\ UNCHANGED << bid, clock, left, due, same >>
  BY NotFoundMoves
<1>2. m'[p] = s /\ \A q \in Procs \ {p} : m'[q] = m[q]
  BY <1>1, GoTo DEF Framed
<1>3. m[p].pc = "find" /\ Mine(p) = {}
  BY DEF NotFound
<1>4. Owned(p)'
  BY <1>1, <1>2, <1>3 DEF Owned, Holds, Settled, Mine
<1>5. \A q \in Procs \ {p} : Owned(q)'
  BY <1>1, <1>2, FrameOf, OthersOwned DEF Holds, Framed, ShardTypeOK
<1>6. QED
  BY <1>1, <1>4, <1>5 DEF Holds, OneRecord

LEMMA GrabHolds ==
  ASSUME Framed, Holds, NEW p \in Procs, Grab(p)
  PROVE  Holds'
<1>1. PICK s \in Frame : /\ Go(p, s) /\ SameCall(m[p], s) /\ s.f = 1 /\ m[p].b \in Table
                         /\ GrabTakes(p, s) \/ GrabMisses(p, s)
  BY GrabMoves
<1>2. m'[p] = s /\ \A q \in Procs \ {p} : m'[q] = m[q]
  <2>1. Go(p, s)
    BY <1>1
  <2>2. QED
    BY <2>1, GoTo DEF Framed
<1>3. m[p].pc = "grab" /\ Mine(p) = {} /\ due' = due
  BY DEF Grab, Holds, Owned
<1>4. CASE GrabTakes(p, s)
  <2>1. /\ bid[m[p].b].id = 0 /\ bid'[m[p].b].id = Id[p]
        /\ \A c \in Table \ {m[p].b} : bid'[c] = bid[c]
    BY <1>1, <1>4, GrabBid DEF GrabTakes
  <2>2. OneRecord'
    BY <1>3, <2>1 DEF Holds, OneRecord, Mine
  <2>3. Owned(p)'
    BY <1>1, <1>2, <1>4, <2>1 DEF Owned, GrabTakes
  <2>4. \A q \in Procs \ {p} : Id[q] # 0 /\ Id[q] # Id[p]
    BY Parameters
  <2>5. \A q \in Procs \ {p} : \A c \in Table : bid[c].id = Id[q] \/ bid'[c].id = Id[q] => bid'[c] = bid[c]
    BY <2>1, <2>4
  <2>6. \A q \in Procs \ {p} : Owned(q)'
    BY <1>2, <1>3, <2>5, FrameOf, OthersOwned DEF Holds, Framed, ShardTypeOK
  <2>7. QED
    BY <2>2, <2>3, <2>6 DEF Holds
<1>5. CASE GrabMisses(p, s)
  <2>1. bid' = bid
    BY <1>5 DEF GrabMisses, Untouched
  <2>2. Owned(p)'
    BY <1>2, <1>3, <1>5, <2>1 DEF Owned, GrabMisses, Holds, Settled, Mine
  <2>3. \A q \in Procs \ {p} : Owned(q)'
    BY <1>2, <1>3, <2>1, FrameOf, OthersOwned DEF Holds, Framed, ShardTypeOK
  <2>4. QED
    BY <2>1, <2>2, <2>3 DEF Holds, OneRecord
<1>6. QED
  BY <1>1, <1>4, <1>5

(* The fields a store of a call writes are all different, the id only by   *)
(* the last store of a release.                                            *)
LEMMA StoreOrders ==
  ASSUME NEW op \in {"claim", "rebid", "release"}
  PROVE  LET order == StoreOrder(op) IN
         /\ \A i, j \in 1 .. Len(order) : order[i] = order[j] => i = j
         /\ \A i \in 1 .. Len(order) : order[i] = "id" => op = "release" /\ i = Len(order)
         /\ op = "claim" => \A g \in FieldNames \ {"id"} : \E i \in 1 .. Len(order) : order[i] = g
         /\ op = "rebid" => /\ \A g \in FieldNames \ {"id", "pid"} : \E i \in 1 .. Len(order) : order[i] = g
                            /\ \A i \in 1 .. Len(order) : order[i] = "at" => i = Len(order)
                            /\ \A i \in 1 .. Len(order) : order[i] # "pid"
         /\ op = "release" => /\ order[Len(order)] = "id"
                              /\ \A g \in FieldNames : \E i \in 1 .. Len(order) : order[i] = g
<1>1. CASE op = "claim"
  <2>1. PICK ord : ord = StoreOrder(op)
    OBVIOUS
  <2>2. /\ Len(ord) = 5 /\ ord[1] = "pid" /\ ord[2] = "intent"
        /\ ord[3] = "prio" /\ ord[4] = "dur" /\ ord[5] = "at"
    BY <1>1, <2>1 DEF StoreOrder
  <2>3. \A i \in 1 .. 5 : i = 1 \/ i = 2 \/ i = 3 \/ i = 4 \/ i = 5
    OBVIOUS
  <2>4. \A i, j \in 1 .. 5 : ord[i] = ord[j] => i = j
    BY <2>2, <2>3
  <2>5. \A i \in 1 .. 5 : ord[i] # "id"
    BY <2>2, <2>3
  <2>6. \A g \in FieldNames \ {"id"} : \E i \in 1 .. 5 : ord[i] = g
    BY <2>2 DEF FieldNames
  <2>7. QED
    BY <1>1, <2>1, <2>2, <2>4, <2>5, <2>6
<1>2. CASE op = "rebid"
  <2>1. PICK ord : ord = StoreOrder(op)
    OBVIOUS
  <2>2. /\ Len(ord) = 4 /\ ord[1] = "intent" /\ ord[2] = "prio"
        /\ ord[3] = "dur" /\ ord[4] = "at"
    BY <1>2, <2>1 DEF StoreOrder
  <2>3. \A i \in 1 .. 4 : i = 1 \/ i = 2 \/ i = 3 \/ i = 4
    OBVIOUS
  <2>4. \A i, j \in 1 .. 4 : ord[i] = ord[j] => i = j
    BY <2>2, <2>3
  <2>5. \A i \in 1 .. 4 : ord[i] # "id" /\ ord[i] # "pid" /\ (ord[i] = "at" => i = 4)
    BY <2>2, <2>3
  <2>6. \A g \in FieldNames \ {"id", "pid"} : \E i \in 1 .. 4 : ord[i] = g
    BY <2>2 DEF FieldNames
  <2>7. /\ \A i, j \in 1 .. Len(ord) : ord[i] = ord[j] => i = j
        /\ \A i \in 1 .. Len(ord) : ord[i] # "id" /\ ord[i] # "pid" /\ (ord[i] = "at" => i = Len(ord))
    BY <2>2, <2>4, <2>5
  <2>8. \A g \in FieldNames \ {"id", "pid"} : \E i \in 1 .. Len(ord) : ord[i] = g
    BY <2>2, <2>6
  <2>9. QED
    BY <1>2, <2>1, <2>7, <2>8
<1>3. CASE op = "release"
  <2>1. PICK ord : ord = StoreOrder(op)
    OBVIOUS
  <2>2. /\ Len(ord) = 6 /\ ord[1] = "pid" /\ ord[2] = "intent"
        /\ ord[3] = "prio" /\ ord[4] = "dur" /\ ord[5] = "at" /\ ord[6] = "id"
    BY <1>3, <2>1 DEF StoreOrder
  <2>3. \A i \in 1 .. 6 : i = 1 \/ i = 2 \/ i = 3 \/ i = 4 \/ i = 5 \/ i = 6
    OBVIOUS
  <2>4. \A i, j \in 1 .. 6 : ord[i] = ord[j] => i = j
    BY <2>2, <2>3
  <2>5. \A i \in 1 .. 6 : ord[i] = "id" => i = 6
    BY <2>2, <2>3
  <2>6. \A g \in FieldNames : \E i \in 1 .. 6 : ord[i] = g
    BY <2>2 DEF FieldNames
  <2>7. QED
    BY <1>3, <2>1, <2>2, <2>4, <2>5, <2>6
<1>4. QED
  BY <1>1, <1>2, <1>3

(* A store keeps the caller's record in step with its arguments.           *)
LEMMA StoreKeepsOwn ==
  ASSUME Framed, Holds, NEW p \in Procs, Store(p),
         NEW order, order = StoreOrder(m[p].op)
  PROVE  /\ bid[m[p].b].id = Id[p] /\ m[p].op \in {"claim", "rebid", "release"}
         /\ m[p].f \in 1 .. Len(order) /\ Len(order) \in 1 .. 6
         /\ bid'[m[p].b].id = IF m[p].op = "release" /\ m[p].f = Len(order) THEN 0 ELSE Id[p]
         /\ \A i \in 1 .. m[p].f : ~ (m[p].op = "rebid" /\ order[i] = "at") =>
                                      bid'[m[p].b][order[i]] = m[p].arg[order[i]]
<1> DEFINE b == m[p].b
           f == m[p].f
<1>1. /\ m[p].pc = "store" /\ m[p].op \in {"claim", "rebid", "release"} /\ f \in 1 .. Len(order)
      /\ Len(order) \in 1 .. 6 /\ (m[p].op = "release" => m[p].arg = Empty) /\ b \in Table
  <2>1. m[p].pc = "store" /\ Place(p) /\ f \in 1 .. 7
    BY FrameOf DEF Store
  <2>2. /\ m[p].op \in {"claim", "rebid", "release"} /\ f <= Len(order)
        /\ (m[p].op = "release" => m[p].arg = Empty) /\ b \in Table
    BY <2>1 DEF Place
  <2>3. Len(order) \in 1 .. 6
    BY <2>2, StoreFields
  <2>4. QED
    BY <2>1, <2>2, <2>3
<1>2. bid[b].id = Id[p] /\ \A i \in 1 .. f - 1 : bid[b][order[i]] = m[p].arg[order[i]]
  BY <1>1 DEF Holds, Owned
<1>3. /\ order[f] \in FieldNames /\ bid'[b][order[f]] = Stored(p, order[f])
      /\ \A g \in FieldNames \ {order[f]} : bid'[b][g] = bid[b][g]
  BY StoreBid
<1>4. /\ \A i, j \in 1 .. Len(order) : order[i] = order[j] => i = j
      /\ \A i \in 1 .. Len(order) : order[i] = "id" => m[p].op = "release" /\ i = Len(order)
      /\ m[p].op = "release" => order[Len(order)] = "id"
  BY <1>1, StoreOrders
<1>5. \A i \in 1 .. Len(order) : order[i] \in FieldNames
  BY <1>1, StoreFields
<1>6. bid'[b].id = IF m[p].op = "release" /\ f = Len(order) THEN 0 ELSE Id[p]
  <2>1. CASE m[p].op = "release" /\ f = Len(order)
    <3>1. order[f] = "id" /\ Stored(p, "id") = 0
      BY <1>1, <1>4, <2>1, EmptyBid DEF Stored
    <3>2. bid'[b]["id"] = 0
      BY <1>3, <3>1
    <3>3. QED
      BY <2>1, <3>2
  <2>2. CASE ~ (m[p].op = "release" /\ f = Len(order))
    <3>1. order[f] # "id" /\ "id" \in FieldNames
      BY <1>1, <1>4, <2>2 DEF FieldNames
    <3>2. bid'[b]["id"] = bid[b]["id"]
      BY <1>3, <3>1
    <3>3. QED
      BY <1>2, <2>2, <3>2
  <2>3. QED
    BY <2>1, <2>2
<1>7. ASSUME NEW i \in 1 .. f, ~ (m[p].op = "rebid" /\ order[i] = "at")
      PROVE  bid'[b][order[i]] = m[p].arg[order[i]]
  <2>1. CASE i = f
    BY <1>3, <1>7, <2>1 DEF Stored
  <2>2. CASE i # f
    <3>1. i \in 1 .. f - 1 /\ i \in 1 .. Len(order)
      BY <1>1, <2>2
    <3>2. order[i] \in FieldNames \ {order[f]}
      BY <1>1, <1>4, <1>5, <2>2, <3>1
    <3>3. QED
      BY <1>2, <1>3, <3>1, <3>2
  <2>3. QED
    BY <2>1, <2>2
<1>8. QED
  BY <1>1, <1>2, <1>6, <1>7

(* The last one of them leaves what the call asked for, or a free record.  *)
LEMMA StoreSettles ==
  ASSUME Framed, Holds, NEW p \in Procs, Store(p), StoreEnds(p, Idle)
  PROVE  due'[p] # Lost => Settled(p)'
<1>1. PICK order : order = StoreOrder(m[p].op)
  OBVIOUS
<1>2. PICK d \in Bid : /\ due' = [due EXCEPT ![p] = d]
                       /\ m[p].op = "claim" => d = m[p].arg
                       /\ m[p].op = "release" => d = Empty
                       /\ m[p].op = "rebid" => /\ d.at = clock /\ d.pid = bid[m[p].b].pid
                                               /\ \A g \in {"id", "intent", "prio", "dur"} : d[g] = m[p].arg[g]
  BY DEF StoreEnds
<1>3. /\ bid[m[p].b].id = Id[p] /\ m[p].op \in {"claim", "rebid", "release"} /\ m[p].f = Len(order)
      /\ bid'[m[p].b].id = IF m[p].op = "release" THEN 0 ELSE Id[p]
      /\ \A i \in 1 .. Len(order) : ~ (m[p].op = "rebid" /\ order[i] = "at") =>
                                      bid'[m[p].b][order[i]] = m[p].arg[order[i]]
  BY <1>1, StoreKeepsOwn DEF StoreEnds
<1>4. /\ m[p].b \in Table /\ bid' \in [Table -> Bid] /\ m[p].arg \in Bid
      /\ m[p].op \in {"claim", "rebid"} => m[p].arg.id = Id[p]
      /\ \A c \in Table \ {m[p].b} : bid'[c] = bid[c]
  BY StoreBid, FrameOf DEF Place
<1>5. due'[p] = d
  BY <1>2 DEF Framed, ShardTypeOK
<1>6. CASE m[p].op = "claim"
  <2>1. \A g \in FieldNames \ {"id"} : bid'[m[p].b][g] = m[p].arg[g]
    BY <1>1, <1>3, <1>6, StoreOrders
  <2>2. bid'[m[p].b]["id"] = m[p].arg["id"]
    BY <1>3, <1>4, <1>6
  <2>3. bid'[m[p].b] = d
    BY <1>2, <1>4, <1>6, <2>1, <2>2, SameBid
  <2>4. d # Empty /\ d.id = Id[p]
    BY <1>2, <1>4, <1>6, Parameters, EmptyBid
  <2>5. QED
    BY <1>4, <1>5, <2>3, <2>4 DEF Settled
<1>7. CASE m[p].op = "rebid"
  <2>1. PICK n \in 1 .. Len(order) : order[n] = "at" /\ n = Len(order)
    BY <1>1, <1>7, StoreOrders DEF FieldNames
  <2>2. order[m[p].f] = "at"
    BY <1>3, <2>1
  <2>3. bid'[m[p].b]["at"] = clock
    BY <1>1, <1>7, <2>2, StoreBid DEF Stored
  <2>4. bid'[m[p].b]["pid"] = bid[m[p].b]["pid"]
    BY <1>1, <2>2, StoreBid DEF FieldNames
  <2>5. \A g \in FieldNames \ {"id", "pid", "at"} : bid'[m[p].b][g] = m[p].arg[g]
    <3>1. \A g \in FieldNames \ {"id", "pid"} : \E i \in 1 .. Len(order) : order[i] = g
      BY <1>1, <1>7, StoreOrders
    <3>2. QED
      BY <1>3, <3>1
  <2>6. bid'[m[p].b]["id"] = m[p].arg["id"] /\ d["id"] = Id[p]
    BY <1>2, <1>3, <1>4, <1>7
  <2>7. \A g \in FieldNames : bid'[m[p].b][g] = d[g]
    BY <1>2, <1>7, <2>3, <2>4, <2>5, <2>6 DEF FieldNames
  <2>8. bid'[m[p].b] = d
    BY <1>4, <2>7, SameBid
  <2>9. d # Empty /\ d.id = Id[p]
    BY <2>6, Parameters, EmptyBid
  <2>10. QED
    BY <1>4, <1>5, <2>8, <2>9 DEF Settled
<1>8. CASE m[p].op = "release"
  <2>1. \A c \in Table : bid'[c].id # Id[p]
    BY <1>3, <1>4, <1>8, Parameters DEF Holds, OneRecord
  <2>2. due'[p] = Empty
    BY <1>2, <1>5, <1>8
  <2>3. QED
    BY <2>1, <2>2 DEF Settled, Mine
<1>9. QED
  BY <1>3, <1>6, <1>7, <1>8

LEMMA StoreHolds ==
  ASSUME Framed, Holds, NEW p \in Procs, Store(p)
  PROVE  Holds'
<1>1. PICK s \in Frame : Go(p, s) /\ (StoreGoesOn(p, s) \/ StoreEnds(p, s))
  BY StoreMoves
<1>2. m'[p] = s /\ \A q \in Procs \ {p} : m'[q] = m[q] /\ due'[q] = due[q]
  BY <1>1, GoTo DEF Framed, ShardTypeOK, StoreGoesOn, StoreEnds
<1>3. PICK order : order = StoreOrder(m[p].op)
  OBVIOUS
<1>4. /\ bid[m[p].b].id = Id[p] /\ m[p].op \in {"claim", "rebid", "release"}
      /\ m[p].f \in 1 .. Len(order) /\ Len(order) \in 1 .. 6
      /\ bid'[m[p].b].id = IF m[p].op = "release" /\ m[p].f = Len(order) THEN 0 ELSE Id[p]
      /\ \A i \in 1 .. m[p].f : ~ (m[p].op = "rebid" /\ order[i] = "at") =>
                                   bid'[m[p].b][order[i]] = m[p].arg[order[i]]
  BY <1>3, StoreKeepsOwn
<1>5. m[p].b \in Table /\ \A c \in Table \ {m[p].b} : bid'[c] = bid[c]
  BY StoreBid
<1>6. OneRecord'
  BY <1>4, <1>5 DEF Holds, OneRecord
<1>7. Owned(p)'
  <2>1. CASE StoreGoesOn(p, s)
    <3>1. /\ s.pc = "store" /\ s.b = m[p].b /\ s.f = m[p].f + 1 /\ s.op = m[p].op /\ s.arg = m[p].arg
          /\ m[p].f < Len(order)
      BY <1>3, <2>1 DEF StoreGoesOn, SameCall
    <3>2. \A i \in 1 .. m[p].f : ~ (m[p].op = "rebid" /\ order[i] = "at")
      <4>1. m[p].op = "rebid" => \A i \in 1 .. Len(order) : order[i] = "at" => i = Len(order)
        BY <1>3, <1>4, StoreOrders
      <4>2. QED
        BY <1>4, <3>1, <4>1
    <3>3. \A i \in 1 .. s.f - 1 : bid'[s.b][order[i]] = s.arg[order[i]]
      BY <1>4, <3>1, <3>2
    <3>4. bid'[s.b].id = Id[p]
      BY <1>4, <3>1
    <3>5. QED
      BY <1>2, <1>3, <3>1, <3>3, <3>4 DEF Owned
  <2>2. CASE StoreEnds(p, s)
    <3>1. s = Idle
      BY <2>2 DEF StoreEnds
    <3>2. due'[p] # Lost => Settled(p)'
      BY <2>2, <3>1, StoreSettles
    <3>3. QED
      BY <1>2, <3>1, <3>2, IdleFrame DEF Owned
  <2>3. QED
    BY <1>1, <2>1, <2>2
<1>8. ASSUME NEW q \in Procs \ {p}
      PROVE  Owned(q)'
  <2>1. Id[q] # 0 /\ Id[q] # Id[p]
    BY Parameters
  <2>2. \A c \in Table : bid[c].id = Id[q] \/ bid'[c].id = Id[q] => bid'[c] = bid[c]
    BY <1>4, <1>5, <2>1
  <2>3. QED
    BY <1>2, <2>2, FrameOf, OthersOwned DEF Holds, Framed, ShardTypeOK
<1>9. QED
  BY <1>6, <1>7, <1>8 DEF Holds

LEMMA EndsHolds ==
  ASSUME Framed, Holds, NEW p \in Procs, Ends(p)
  PROVE  Holds'
<1>1. /\ Go(p, Idle) /\ bid' = bid /\ \A q \in Procs \ {p} : due'[q] = due[q]
      /\ due'[p] = due[p] \/ due'[p] = Lost
      /\ m[p].pc = "store" => due'[p] = Lost
  BY EndsMoves DEF Return
<1>2. m'[p] = Idle /\ \A q \in Procs \ {p} : m'[q] = m[q]
  <2>1. Go(p, Idle)
    BY <1>1
  <2>2. QED
    BY <2>1, IdleFrame, GoTo DEF Framed
<1>3. Owned(p)'
  BY <1>1, <1>2, IdleFrame DEF Holds, Owned, Settled, Mine
<1>4. \A q \in Procs \ {p} : Owned(q)'
  BY <1>1, <1>2, FrameOf, OthersOwned DEF Holds, Framed, ShardTypeOK
<1>5. QED
  BY <1>1, <1>3, <1>4 DEF Holds, OneRecord

(* The steps of a scan, and those that go on to one, store nothing.        *)
LEMMA ScanHolds ==
  ASSUME Framed, Holds, NEW p \in Procs,
         Start(p) \/ Elect(p) \/ Look(p) \/ Weigh(p) \/ Arm(p) \/ Wait(p) \/ Snap(p) \/ Copy(p) \/ Age(p)
  PROVE  Holds'
<1>1. bid' = bid /\ due' = due /\ m[p].pc # "store"
  BY StartMoves DEF Elect, Look, Weigh, Arm, Wait, Snap, Copy, Age, Untouched, Elected
<1>2. \E s \in Frame : Go(p, s) /\ s.pc \notin {"store", "grab"}
  <2>1. CASE Start(p)
    BY <2>1, StartMoves
  <2>2. CASE Elect(p)
    BY <2>2, ElectMoves
  <2>3. CASE Look(p)
    <3>1. PICK s \in Frame : /\ Go(p, s)
                             /\ LookSkips(p, s) \/ LookLoads(p, s) \/ LookFinds(p, s) \/ LookPasses(p, s)
      BY <2>3, LookCases
    <3>2. m[p] \in Frame /\ m[p].pc = "look" /\ m[p].b \in Table
      BY <2>3, FrameOf DEF Look, Place
    <3>3. NextRecord(m[p]).pc \in {"look", "weigh"}
      BY <3>2, NextPassMoves, NextRecordMoves DEF NextRecord
    <3>4. s.pc \in {"look", "weigh"}
      BY <3>1, <3>3 DEF LookSkips, LookLoads, LookFinds, LookPasses
    <3>5. QED
      BY <3>1, <3>4
  <2>4. CASE Weigh(p)
    <3>1. PICK s \in Frame : /\ Go(p, s)
                             /\ WeighSkips(p, s) \/ WeighLoads(p, s) \/ WeighWins(p, s) \/ WeighLoses(p, s)
      BY <2>4, WeighCases
    <3>2. m[p] \in Frame /\ m[p].pc = "weigh" /\ m[p].b \in Table
      BY <2>4, FrameOf, Parameters DEF Weigh, Table
    <3>3. NextRecord(m[p]).pc = "weigh"
      BY <3>2, NextRecordMoves
    <3>4. s.pc = "weigh"
      BY <3>1, <3>3 DEF WeighSkips, WeighLoads, WeighWins, WeighLoses
    <3>5. QED
      BY <3>1, <3>4
  <2>5. CASE Arm(p) \/ Wait(p)
    BY <2>5, ArmMoves, WaitMoves
  <2>6. CASE Snap(p)
    BY <2>6, SnapMoves
  <2>7. CASE Copy(p)
    BY <2>7, CopyMoves
  <2>8. CASE Age(p)
    <3>1. PICK s \in Frame : /\ Go(p, s) /\ s.best = m[p].best
                             /\ AgeLoads(p, s) \/ \E expired \in BOOLEAN : AgeEmits(p, s, expired)
      BY <2>8, AgeMoves
    <3>2. s.pc \in {"age", "copy"}
      BY <3>1 DEF AgeLoads, AgeEmits
    <3>3. QED
      BY <3>1, <3>2
  <2>9. QED
    BY <2>1, <2>2, <2>3, <2>4, <2>5, <2>6, <2>7, <2>8
<1>3. QED
  BY <1>1, <1>2, QuietHolds

LEMMA NextHolds ==
  ASSUME Framed, Holds, [ShardNext]_shardVars
  PROVE  Holds'
<1>1. ASSUME NEW p \in Procs,
             \/ Start(p) \/ Find(p) \/ (NotFound(p) /\ m[p].op = "claim")
             \/ Grab(p) \/ Store(p) \/ Elect(p) \/ Look(p) \/ Weigh(p)
             \/ Arm(p) \/ Wait(p) \/ Snap(p) \/ Copy(p) \/ Age(p) \/ Ends(p)
      PROVE  Holds'
  BY <1>1, FindHolds, NotFoundHolds, GrabHolds, StoreHolds, ScanHolds, EndsHolds
<1>2. CASE Tick \/ UNCHANGED shardVars
  BY <1>2 DEF Tick, shardVars, Holds, OneRecord, Owned, Settled, Mine
<1>3. QED
  BY <1>1, <1>2, StepCases

LEMMA InitHolds == ShardInit => Holds
<1> SUFFICES ASSUME ShardInit
             PROVE  Holds
  OBVIOUS
<1>1. Framed
  BY InitFramed
<1>2. OneRecord
  BY SceneAssumption DEF ShardInit, OneRecord
<1>3. ASSUME NEW p \in Procs
      PROVE  Owned(p)
  <2>1. m[p].pc = "idle"
    BY IdleFrame DEF ShardInit
  <2>2. CASE Mine(p) = {}
    BY <2>1, <2>2 DEF ShardInit, Owned, Settled
  <2>3. CASE Mine(p) # {}
    <3>1. PICK b \in Mine(p) : b = CHOOSE c \in Mine(p) : TRUE
      BY <2>3
    <3>2. due[p] = bid[b] /\ b \in Table /\ bid[b].id = Id[p]
      BY <2>3, <3>1 DEF ShardInit, Mine
    <3>3. due[p] # Empty
      BY <3>2, Parameters, EmptyBid
    <3>4. QED
      BY <2>1, <3>2, <3>3 DEF Owned, Settled
  <2>4. QED
    BY <2>2, <2>3
<1>4. QED
  BY <1>2, <1>3 DEF Holds

LEMMA AlwaysHolds == ShardSpec => [](Framed /\ Holds)
<1>1. ShardInit => Framed /\ Holds
  BY InitFramed, InitHolds
<1>2. Framed /\ Holds /\ [ShardNext]_shardVars => (Framed /\ Holds)'
  BY NextFramed, NextHolds
<1>3. QED
  BY <1>1, <1>2, PTL DEF ShardSpec

(* No shard ever holds two records of the table, however the claims,       *)
(* releases, kills and restarts of any number of shards interleave.        *)
THEOREM OneRecordEach == ShardSpec => []OneRecord
<1>1. Framed /\ Holds => OneRecord
  BY DEF Holds
<1>2. QED
  BY <1>1, AlwaysHolds, PTL

(* Between two calls of a shard its record is what its last completed call *)
(* asked for: nobody else writes into it, and no store of its own is lost. *)
THEOREM TableIsTrue == ShardSpec => []TableTrue
<1>1. Framed /\ Holds => TableTrue
  BY DEF Holds, Owned, Settled, Mine, TableTrue
<1>2. QED
  BY <1>1, AlwaysHolds, PTL

-----------------------------------------------------------------------------
(* The elections.  What an election has read of a record holds as long as  *)
(* nobody stores into the record; a store takes the record out of `same'   *)
(* of every election under way.                                            *)

Counted(p) == PassOne(p) /\ PassTwo(p) /\ Winner(p) /\ Copied(p)

LEMMA OthersCounted ==
  ASSUME Framed, NEW p \in Procs, Counted(p), m'[p] = m[p], clock' \in Nat, clock <= clock',
         same'[p] \subseteq same[p], \A c \in same'[p] : bid'[c] = bid[c]
  PROVE  Counted(p)'
<1>1. same[p] \subseteq Table /\ m[p] \in Frame /\ clock \in Nat /\ m[p].began \in Nat
  BY FrameOf, Parameters
<1>2. same'[p] = Table => same[p] = Table /\ \A c \in Table : bid'[c] = bid[c]
  BY <1>1
<1>3. \A c \in same'[p] : Live(c, m[p].now)' <=> Live(c, m[p].now)
  BY DEF Live
<1>4. \A c \in same'[p] : Guarded(c, m[p].now)' <=> Guarded(c, m[p].now)
  BY <1>3 DEF Guarded
<1>5. \A c \in same'[p] : Counts(p, c)' <=> Counts(p, c)
  BY <1>3 DEF Counts
<1>6. same'[p] = Table => Runs(m[p].now)' = Runs(m[p].now)
  BY <1>2, <1>3, <1>4 DEF Runs
<1>7. \A order : Read(p, order) => Read(p, order)'
  BY DEF Read
<1>8. Considered(p) => Considered(p)'
  BY DEF Considered
<1>9. PassOne(p)'
  BY <1>4, <1>7, <1>8 DEF Counted, PassOne
<1>10. PassTwo(p)'
  <2> SUFFICES ASSUME m[p].pc = "weigh"
               PROVE  PassTwo(p)'
    BY DEF PassTwo
  <2>1. Read(p, WeighOrder)' /\ Considered(p)'
    BY <1>7, <1>8 DEF Counted, PassTwo
  <2>2. m[p].f > 1 => m[p].got.id # 0 /\ \A c \in same'[p] : bid'[c].id = m[p].got.id => c = m[p].b
    BY DEF Counted, PassTwo
  <2>3. (\E c \in same'[p] : Guarded(c, m[p].now)') => m[p].live
    BY <1>4 DEF Counted, PassTwo
  <2>4. same'[p] = Table /\ m[p].live => \E c \in Table : Guarded(c, m[p].now)'
    BY <1>2, <1>4 DEF Counted, PassTwo
  <2>5. m[p].live => m[p].best.intent # "dontneed"
    BY DEF Counted, PassTwo
  <2>6. \A c \in same'[p] : c < m[p].b /\ Counts(p, c)' =>
          m[p].best.id # 0 /\ (m[p].best = bid'[c] \/ ~ Beats(bid'[c], m[p].best))
    BY <1>5 DEF Counted, PassTwo
  <2>7. same'[p] = Table => m[p].best = Empty \/ \E c \in Runs(m[p].now)' : m[p].best = bid'[c]
    <3>1. \A c \in Runs(m[p].now) : c \in Table
      BY DEF Runs
    <3>2. QED
      BY <1>2, <1>6, <3>1 DEF Counted, PassTwo
  <2>8. QED
    BY <2>1, <2>2, <2>3, <2>4, <2>5, <2>6, <2>7 DEF PassTwo
<1>11. Winner(p)'
  BY <1>1 DEF Counted, Winner
<1>12. Copied(p)'
  BY <1>7 DEF Counted, Copied
<1>13. QED
  BY <1>9, <1>10, <1>11, <1>12 DEF Counted

LEMMA Shrinks ==
  ASSUME Framed, Counting, NEW p \in Procs, NEW s \in Frame, Go(p, s), clock' = clock,
         \A q \in Procs \ {p} : same'[q] \subseteq same[q] /\ \A c \in same'[q] : bid'[c] = bid[c],
         Counted(p)'
  PROVE  Counting'
<1>1. \A q \in Procs \ {p} : m'[q] = m[q]
  BY GoTo DEF Framed
<1>2. \A q \in Procs \ {p} : Counted(q)'
  BY <1>1, FrameOf, Parameters, OthersCounted DEF Counting, Counted
<1>3. QED
  BY <1>2 DEF Counting, Counted

(* Outside an election nothing is known.                                   *)
LEMMA OutsideCounted ==
  ASSUME NEW p \in Procs, NEW s \in Frame, m'[p] = s, s.pc \notin {"look", "weigh", "copy", "age"},
         s.rows = << >>, s.began <= clock'
  PROVE  Counted(p)'
BY DEF Counted, PassOne, PassTwo, Winner, Copied

(* A load of a record that was left alone: what it tells.                  *)
LEMMA Loaded ==
  ASSUME Framed, NEW p \in Procs, m[p].b \in same[p], NEW order, order \in {LookOrder, WeighOrder},
         m[p].f \in 1 .. Len(order), Read(p, order), Considered(p)
  PROVE  LET g == Got(p, order)
             b == m[p].b IN
         /\ \A i \in 1 .. m[p].f : g[order[i]] = bid[b][order[i]]
         /\ Skipped(p, order, g) => ~ Live(b, m[p].now)
         /\ ~ Skipped(p, order, g) => bid[b].id # 0 /\ (m[p].f >= 3 => ~ Expired(bid[b], m[p].now))
<1> DEFINE g == Got(p, order)
           b == m[p].b
           f == m[p].f
<1>1. b \in Table /\ m[p].got \in Bid /\ bid[b] \in Bid /\ f \in 1 .. 7
  BY FrameOf
<1>2. /\ \A i \in 1 .. Len(order) : order[i] \in FieldNames
      /\ order[1] = "id" /\ order[2] = "at" /\ order[3] = "dur"
      /\ \A i \in 1 .. Len(order) : (order[i] = "id" => i = 1) /\ (order[i] = "dur" => i = 3)
  <2>1. CASE order = LookOrder
    <3>1. /\ Len(order) = 4 /\ order[1] = "id" /\ order[2] = "at" /\ order[3] = "dur" /\ order[4] = "intent"
      BY <2>1 DEF LookOrder
    <3>2. \A i \in 1 .. 4 : i = 1 \/ i = 2 \/ i = 3 \/ i = 4
      OBVIOUS
    <3>3. QED
      BY <3>1, <3>2 DEF FieldNames
  <2>2. CASE order = WeighOrder
    <3>1. /\ Len(order) = 7 /\ order[1] = "id" /\ order[2] = "at" /\ order[3] = "dur" /\ order[4] = "intent"
          /\ order[5] = "prio" /\ order[6] = "at" /\ order[7] = "pid"
      BY <2>2 DEF WeighOrder
    <3>2. \A i \in 1 .. 7 : i = 1 \/ i = 2 \/ i = 3 \/ i = 4 \/ i = 5 \/ i = 6 \/ i = 7
      OBVIOUS
    <3>3. QED
      BY <3>1, <3>2 DEF FieldNames
  <2>3. QED
    BY <2>1, <2>2
<1>3. /\ order[f] \in FieldNames /\ g[order[f]] = bid[b][order[f]]
      /\ \A h \in FieldNames \ {order[f]} : g[h] = m[p].got[h]
  <2>1. order[f] \in FieldNames /\ m[p].got \in Bid
    BY <1>1, <1>2
  <2>2. PICK field \in FieldNames : field = order[f]
    BY <2>1
  <2>3. PICK r \in Bid : r = m[p].got
    BY <2>1
  <2>4. PICK v : v = bid[b][order[f]]
    OBVIOUS
  <2>5. g = [r EXCEPT ![field] = v]
    BY <2>2, <2>3, <2>4 DEF Got
  <2>6. [r EXCEPT ![field] = v][field] = v /\ \A h \in FieldNames \ {field} : [r EXCEPT ![field] = v][h] = r[h]
    BY BidFields
  <2>7. QED
    BY <2>2, <2>3, <2>4, <2>5, <2>6
<1>4. ASSUME NEW i \in 1 .. f
      PROVE  g[order[i]] = bid[b][order[i]]
  <2>1. CASE order[i] = order[f]
    BY <1>3, <2>1
  <2>2. CASE order[i] # order[f]
    <3>1. i \in 1 .. f - 1 /\ i \in 1 .. Len(order)
      BY <1>1, <2>2
    <3>2. m[p].got[order[i]] = bid[b][order[i]]
      BY <3>1 DEF Read
    <3>3. QED
      BY <1>2, <1>3, <2>2, <3>1, <3>2
  <2>3. QED
    BY <2>1, <2>2
<1>5. g["id"] = bid[b]["id"]
  BY <1>1, <1>2, <1>4
<1>6. f >= 3 => g["at"] = bid[b]["at"] /\ g["dur"] = bid[b]["dur"]
  BY <1>1, <1>2, <1>4
<1>7. f >= 3 => (Expired(g, m[p].now) <=> Expired(bid[b], m[p].now))
  BY <1>6 DEF Expired, Elapsed
<1>8. Skipped(p, order, g) => ~ Live(b, m[p].now)
  BY <1>1, <1>2, <1>5, <1>7 DEF Skipped, Live
<1>9. ASSUME ~ Skipped(p, order, g)
      PROVE  bid[b].id # 0 /\ (f >= 3 => ~ Expired(bid[b], m[p].now))
  <2>1. f = 1 => bid[b].id # 0
    BY <1>2, <1>5, <1>9 DEF Skipped
  <2>2. f > 1 => bid[b].id # 0
    BY DEF Considered
  <2>3. f = 3 => ~ Expired(bid[b], m[p].now)
    BY <1>2, <1>7, <1>9 DEF Skipped
  <2>4. f > 3 => ~ Expired(bid[b], m[p].now)
    BY DEF Considered
  <2>5. QED
    BY <1>1, <2>1, <2>2, <2>3, <2>4
<1>10. QED
  BY <1>4, <1>8, <1>9

LEMMA LookCounted ==
  ASSUME Framed, Counting, NEW p \in Procs, Look(p)
  PROVE  Counted(p)'
<1> DEFINE g == Got(p, LookOrder)
           b == m[p].b
           now == m[p].now
<1>1. PICK s \in Frame : /\ Go(p, s)
                         /\ LookSkips(p, s) \/ LookLoads(p, s) \/ LookFinds(p, s) \/ LookPasses(p, s)
  BY LookCases
<1>2. m'[p] = s
  <2>1. Go(p, s)
    BY <1>1
  <2>2. QED
    BY <2>1, GoTo DEF Framed
<1>3. /\ m[p].pc = "look" /\ m[p] \in Frame /\ b \in Table /\ m[p].f \in 1 .. 4 /\ same[p] \subseteq Table
      /\ UNCHANGED << bid, same, clock >>
  <2>1. m[p].pc = "look" /\ UNCHANGED << bid, same, clock >> /\ Place(p)
    BY FrameOf DEF Look, Untouched
  <2>2. b \in Table /\ m[p].f <= 4
    BY <2>1, Orders DEF Place
  <2>3. QED
    BY <2>1, <2>2, FrameOf
<1>4. /\ PassOne(p) /\ Read(p, LookOrder) /\ Considered(p) /\ m[p].live = FALSE /\ m[p].best = Empty
      /\ \A c \in same[p] : c < b => ~ Guarded(c, now)
      /\ m[p].began <= clock /\ m[p].began <= now /\ m[p].rows = << >>
  BY <1>3 DEF Counting, PassOne, Winner, Copied
<1>5. b \in same[p] => /\ \A i \in 1 .. m[p].f : g[LookOrder[i]] = bid[b][LookOrder[i]]
                       /\ Skipped(p, LookOrder, g) => ~ Live(b, now)
                       /\ ~ Skipped(p, LookOrder, g) =>
                            bid[b].id # 0 /\ (m[p].f >= 3 => ~ Expired(bid[b], now))
  BY <1>3, <1>4, Orders, Loaded
<1>6. b \in same[p] /\ m[p].f = 4 => g.intent = bid[b].intent
  <2>1. LookOrder[4] = "intent"
    BY DEF LookOrder
  <2>2. QED
    BY <1>5, <2>1
<1>7. ASSUME s = NextRecord(m[p]), b \in same[p] => ~ Guarded(b, now)
      PROVE  Counted(p)'
  <2>1. \A c \in same[p] : c < b + 1 => ~ Guarded(c, now)
    BY <1>3, <1>4, <1>7 DEF Table
  <2>2. CASE b = Records
    <3>1. /\ s.pc = "weigh" /\ s.b = 1 /\ s.f = 1 /\ s.live = FALSE /\ s.best = Empty /\ SameCall(m[p], s)
      BY <1>3, <1>4, <1>7, <2>2, NextPassMoves DEF NextRecord
    <3>2. \A c \in same[p] : ~ Guarded(c, now)
      BY <1>3, <2>1, <2>2 DEF Table
    <3>3. \A c \in same[p] : ~ (c < 1)
      BY <1>3 DEF Table
    <3>4. PassTwo(p)'
      BY <1>2, <1>3, <3>1, <3>2, <3>3 DEF PassTwo, Read, Considered, SameCall, Guarded, Live
    <3>5. PassOne(p)' /\ Winner(p)' /\ Copied(p)'
      BY <1>2, <1>3, <1>4, <3>1, EmptyBid DEF PassOne, Winner, Copied, SameCall
    <3>6. QED
      BY <3>4, <3>5 DEF Counted
  <2>3. CASE b # Records
    <3>1. /\ s.pc = "look" /\ s.b = b + 1 /\ s.f = 1 /\ s.live = FALSE /\ s.best = Empty /\ SameCall(m[p], s)
      BY <1>3, <1>4, <1>7, <2>3, NextRecordMoves
    <3>2. PassOne(p)'
      BY <1>2, <1>3, <2>1, <3>1 DEF PassOne, Read, Considered, SameCall, Guarded, Live
    <3>3. PassTwo(p)' /\ Winner(p)' /\ Copied(p)'
      BY <1>2, <1>3, <1>4, <3>1 DEF PassTwo, Winner, Copied, SameCall
    <3>4. QED
      BY <3>2, <3>3 DEF Counted
  <2>4. QED
    BY <2>2, <2>3
<1>8. CASE LookSkips(p, s)
  BY <1>5, <1>7, <1>8 DEF LookSkips, Guarded
<1>9. CASE LookPasses(p, s)
  BY <1>6, <1>7, <1>9 DEF LookPasses, Guarded
<1>10. CASE LookLoads(p, s)
  <2>1. /\ s.pc = "look" /\ s.b = b /\ s.f = m[p].f + 1 /\ s.got = g /\ s.live = FALSE /\ s.best = Empty
        /\ SameCall(m[p], s) /\ ~ Skipped(p, LookOrder, g)
    BY <1>4, <1>10 DEF LookLoads
  <2>2. b \in same[p] => \A i \in 1 .. s.f - 1 : s.got[LookOrder[i]] = bid[b][LookOrder[i]]
    BY <1>3, <1>5, <2>1
  <2>3. b \in same[p] => (s.f > 1 => bid[b].id # 0) /\ (s.f > 3 => ~ Expired(bid[b], now))
    BY <1>3, <1>5, <2>1
  <2>4. PassOne(p)'
    <3>1. Read(p, LookOrder)' /\ Considered(p)'
      BY <1>2, <1>3, <2>1, <2>2, <2>3 DEF Read, Considered, SameCall
    <3>2. QED
      BY <1>2, <1>3, <1>4, <2>1, <3>1 DEF PassOne, SameCall, Guarded, Live
  <2>5. PassTwo(p)' /\ Winner(p)' /\ Copied(p)'
    BY <1>2, <1>3, <1>4, <2>1 DEF PassTwo, Winner, Copied, SameCall
  <2>6. QED
    BY <2>4, <2>5 DEF Counted
<1>11. CASE LookFinds(p, s)
  <2>1. /\ s.pc = "weigh" /\ s.b = 1 /\ s.f = 1 /\ s.live = TRUE /\ s.best = Empty /\ SameCall(m[p], s)
        /\ m[p].f = 4 /\ g.intent \in Protective
    BY <1>4, <1>11 DEF LookFinds
  <2>2. ~ Skipped(p, LookOrder, g)
    <3>1. LookOrder[4] = "intent"
      BY DEF LookOrder
    <3>2. QED
      BY <2>1, <3>1 DEF Skipped
  <2>3. b \in same[p] => Guarded(b, now)
    BY <1>5, <1>6, <2>1, <2>2 DEF Guarded, Live
  <2>4. same[p] = Table => \E c \in Table : Guarded(c, now)
    BY <1>3, <2>3
  <2>5. \A c \in same[p] : ~ (c < 1)
    BY <1>3 DEF Table
  <2>6. PassTwo(p)'
    BY <1>2, <1>3, <2>1, <2>4, <2>5, EmptyBid DEF PassTwo, Read, Considered, SameCall, Guarded, Live
  <2>7. PassOne(p)' /\ Winner(p)' /\ Copied(p)'
    BY <1>2, <1>3, <1>4, <2>1, EmptyBid DEF PassOne, Winner, Copied, SameCall
  <2>8. QED
    BY <2>6, <2>7 DEF Counted
<1>12. QED
  BY <1>1, <1>8, <1>9, <1>10, <1>11

(* The order of the election is strict, and ties leave the one before: a   *)
(* bid that does not beat the best so far does not beat a better one.      *)
LEMMA BetterStill ==
  ASSUME NEW x \in Bid, NEW y \in Bid, NEW z \in Bid, y.id # 0, z.id # 0,
         Beats(z, y), x = y \/ ~ Beats(x, y)
  PROVE  ~ Beats(x, z)
BY Parameters DEF Beats, Bid

LEMMA BeatsNotItself ==
  ASSUME NEW x \in Bid, x.id # 0
  PROVE  ~ Beats(x, x)
BY Parameters DEF Beats, Bid

LEMMA WeighCounted ==
  ASSUME Framed, OneRecord, Counting, NEW p \in Procs, Weigh(p)
  PROVE  Counted(p)'
<1> DEFINE g == Got(p, WeighOrder)
           b == m[p].b
           f == m[p].f
           now == m[p].now
           best == m[p].best
<1>1. PICK s \in Frame : /\ Go(p, s)
                         /\ WeighSkips(p, s) \/ WeighLoads(p, s) \/ WeighWins(p, s) \/ WeighLoses(p, s)
  BY WeighCases
<1>2. m'[p] = s
  <2>1. Go(p, s)
    BY <1>1
  <2>2. QED
    BY <2>1, GoTo DEF Framed
<1>3. /\ m[p].pc = "weigh" /\ m[p] \in Frame /\ b \in Table /\ f \in 1 .. 7 /\ same[p] \subseteq Table
      /\ UNCHANGED << bid, same, clock >> /\ best \in Bid /\ now \in 0 .. Horizon
      /\ \A c \in Table : bid[c] \in Bid
  <2>1. m[p].pc = "weigh" /\ b <= Records /\ UNCHANGED << bid, same, clock >>
    BY DEF Weigh, Untouched
  <2>2. QED
    BY <2>1, FrameOf, Parameters DEF Table
<1>4. g \in Bid /\ WeighOrder[1] = "id" /\ \A i \in 2 .. 7 : WeighOrder[i] \in FieldNames \ {"id"}
  <2>1. g \in Bid
    BY <1>3, LoadedBid, Orders
  <2>2. WeighOrder = << "id", "at", "dur", "intent", "prio", "at", "pid" >>
    BY DEF WeighOrder
  <2>3. \A i \in 2 .. 7 : i = 2 \/ i = 3 \/ i = 4 \/ i = 5 \/ i = 6 \/ i = 7
    OBVIOUS
  <2>4. QED
    BY <2>1, <2>2, <2>3 DEF FieldNames
<1>5. /\ Read(p, WeighOrder) /\ Considered(p)
      /\ f > 1 => m[p].got.id # 0 /\ \A c \in same[p] : bid[c].id = m[p].got.id => c = b
      /\ (\E c \in same[p] : Guarded(c, now)) => m[p].live
      /\ same[p] = Table /\ m[p].live => \E c \in Table : Guarded(c, now)
      /\ m[p].live => best.intent # "dontneed"
      /\ \A c \in same[p] : c < b /\ Counts(p, c) => best.id # 0 /\ (best = bid[c] \/ ~ Beats(bid[c], best))
      /\ same[p] = Table => best = Empty \/ \E c \in Runs(now) : best = bid[c]
  BY <1>3 DEF Counting, PassTwo
<1>6. /\ m[p].began <= clock /\ m[p].began <= now /\ m[p].rows = << >>
      /\ best.id # 0 => \A c \in same[p] : bid[c].id = best.id => best = bid[c] /\ ~ Expired(bid[c], now)
  BY <1>3 DEF Counting, Winner, Copied
<1>7. b \in same[p] => /\ \A i \in 1 .. f : g[WeighOrder[i]] = bid[b][WeighOrder[i]]
                       /\ Skipped(p, WeighOrder, g) => ~ Live(b, now)
                       /\ ~ Skipped(p, WeighOrder, g) =>
                            bid[b].id # 0 /\ (f >= 3 => ~ Expired(bid[b], now))
  BY <1>3, <1>5, Orders, Loaded
<1>8. ASSUME ~ Skipped(p, WeighOrder, g)
      PROVE  g.id # 0 /\ \A c \in same[p] : bid[c].id = g.id => c = b
  <2>1. CASE f = 1
    <3>1. g.id = bid[b].id
      <4>1. m[p].got \in Bid /\ g = [m[p].got EXCEPT !.id = bid[b].id]
        BY <1>4, <2>1, FrameOf DEF Got
      <4>2. QED
        BY <4>1 DEF Bid
    <3>2. g.id # 0
      BY <1>4, <1>8, <2>1 DEF Skipped
    <3>3. \A c \in Table : bid[c].id = g.id => c = b
      BY <1>3, <3>1, <3>2 DEF OneRecord
    <3>4. QED
      BY <1>3, <3>2, <3>3
  <2>2. CASE f # 1
    <3>1. WeighOrder[f] \in FieldNames \ {"id"} /\ f > 1
      BY <1>3, <1>4, <2>2
    <3>0. PICK v : v = bid[b][WeighOrder[f]]
      OBVIOUS
    <3>2. PICK r \in Bid, field \in FieldNames :
            r = m[p].got /\ field = WeighOrder[f] /\ v = bid[b][WeighOrder[f]]
      BY <3>1, <3>0, FrameOf
    <3>3. g = [r EXCEPT ![field] = v]
      BY <3>2 DEF Got
    <3>4. g["id"] = r["id"]
      BY <3>1, <3>2, <3>3, BidFields DEF FieldNames
    <3>5. QED
      BY <1>5, <3>1, <3>2, <3>4
  <2>3. QED
    BY <2>1, <2>2
<1>9. f = 7 => ~ Skipped(p, WeighOrder, g)
  <2>1. WeighOrder[7] = "pid"
    BY DEF WeighOrder
  <2>2. QED
    BY <2>1 DEF Skipped
<1>10. f = 7 /\ b \in same[p] => g = bid[b] /\ Live(b, now)
  <2> SUFFICES ASSUME f = 7, b \in same[p]
               PROVE  g = bid[b] /\ Live(b, now)
    OBVIOUS
  <2>1. \A i \in 1 .. 7 : g[WeighOrder[i]] = bid[b][WeighOrder[i]]
    BY <1>7
  <2>2. /\ WeighOrder[1] = "id" /\ WeighOrder[2] = "at" /\ WeighOrder[3] = "dur" /\ WeighOrder[4] = "intent"
        /\ WeighOrder[5] = "prio" /\ WeighOrder[7] = "pid"
    BY DEF WeighOrder
  <2>3. \A h \in FieldNames : \E i \in 1 .. 7 : WeighOrder[i] = h
    BY <2>2 DEF FieldNames
  <2>4. g = bid[b]
    BY <1>3, <1>4, <2>1, <2>3, SameBid
  <2>5. QED
    BY <1>7, <1>9, <2>4 DEF Live
(* On to the next record: this one is settled. *)
<1>11. ASSUME s.pc = "weigh", s.b = b + 1, s.f = 1, s.live = m[p].live, SameCall(m[p], s),
              s.best \in Bid,
              m[p].live => s.best.intent # "dontneed",
              \A c \in same[p] : c <= b /\ Counts(p, c) =>
                s.best.id # 0 /\ (s.best = bid[c] \/ ~ Beats(bid[c], s.best)),
              same[p] = Table => s.best = Empty \/ \E c \in Runs(now) : s.best = bid[c],
              s.best.id # 0 => \A c \in same[p] : bid[c].id = s.best.id =>
                s.best = bid[c] /\ ~ Expired(bid[c], now)
       PROVE  Counted(p)'
  <2>1. \A c \in same[p] : c < b + 1 => c <= b
    BY <1>3 DEF Table
  <2>2. \A c \in Table : Guarded(c, now)' <=> Guarded(c, now)
    BY <1>2, <1>3, <1>11 DEF Guarded, Live, SameCall
  <2>3. Runs(now)' = Runs(now)
    BY <1>2, <1>3, <1>11 DEF Runs, Live, Guarded, SameCall
  <2>4. \A c \in Table : Counts(p, c)' <=> Counts(p, c)
    BY <1>2, <1>3, <1>11 DEF Counts, Live, SameCall
  <2>5. s.now = now /\ s.began = m[p].began /\ s.rows = m[p].rows
    BY <1>11 DEF SameCall
  <2>6. PassTwo(p)'
    <3>1. Read(p, WeighOrder)' /\ Considered(p)'
      BY <1>2, <1>11 DEF Read, Considered
    <3>2. (\E c \in same[p] : Guarded(c, now)') => m[p].live
      BY <1>3, <1>5, <2>2
    <3>3. same[p] = Table /\ m[p].live => \E c \in Table : Guarded(c, now)'
      BY <1>5, <2>2
    <3>4. \A c \in same[p] : c < s.b /\ Counts(p, c)' =>
            s.best.id # 0 /\ (s.best = bid[c] \/ ~ Beats(bid[c], s.best))
      BY <1>3, <1>11, <2>1, <2>4
    <3>5. QED
      BY <1>2, <1>3, <1>11, <2>3, <2>5, <3>1, <3>2, <3>3, <3>4 DEF PassTwo
  <2>7. PassOne(p)' /\ Winner(p)' /\ Copied(p)'
    BY <1>2, <1>3, <1>6, <1>11, <2>5 DEF PassOne, Winner, Copied
  <2>8. QED
    BY <2>6, <2>7 DEF Counted
<1>12. CASE WeighSkips(p, s) \/ WeighLoses(p, s)
  <2>1. /\ s.pc = "weigh" /\ s.b = b + 1 /\ s.f = 1 /\ s.live = m[p].live /\ s.best = best
        /\ SameCall(m[p], s)
    BY <1>3, <1>12, NextRecordMoves DEF WeighSkips, WeighLoses
  <2>2. b \in same[p] /\ Counts(p, b) => best.id # 0 /\ ~ Beats(bid[b], best)
    <3>1. CASE WeighSkips(p, s)
      BY <1>7, <3>1 DEF WeighSkips, Counts
    <3>2. CASE WeighLoses(p, s)
      <4>1. f = 7 /\ ~ Wins(p, g)
        BY <3>2 DEF WeighLoses
      <4>2. b \in same[p] /\ Counts(p, b) => ~ Beats(bid[b], best)
        BY <1>10, <4>1 DEF Wins, Counts
      <4>3. QED
        BY <4>2 DEF Beats
    <3>3. QED
      BY <1>12, <3>1, <3>2
  <2>3. \A c \in same[p] : c <= b /\ Counts(p, c) => best.id # 0 /\ (best = bid[c] \/ ~ Beats(bid[c], best))
    <3>1. \A c \in same[p] : c <= b => c < b \/ c = b
      BY <1>3 DEF Table
    <3>2. QED
      BY <1>5, <2>2, <3>1
  <2>4. QED
    BY <1>3, <1>5, <1>6, <1>11, <2>1, <2>3
<1>13. CASE WeighWins(p, s)
  <2>1. /\ s.pc = "weigh" /\ s.b = b + 1 /\ s.f = 1 /\ s.live = m[p].live /\ s.best = g
        /\ SameCall(m[p], s) /\ f = 7 /\ Wins(p, g)
    BY <1>13 DEF WeighWins
  <2>2. g.id # 0 /\ \A c \in same[p] : bid[c].id = g.id => c = b
    BY <1>8, <1>9, <2>1
  <2>3. m[p].live => g.intent # "dontneed"
    BY <2>1 DEF Wins
  <2>4. ASSUME NEW c \in same[p], c <= b, Counts(p, c)
        PROVE  g = bid[c] \/ ~ Beats(bid[c], g)
    <3>1. CASE c = b
      BY <1>10, <2>1, <2>4, <3>1
    <3>2. CASE c # b
      <4>1. c < b
        BY <1>3, <2>4, <3>2 DEF Table
      <4>2. best.id # 0 /\ (best = bid[c] \/ ~ Beats(bid[c], best))
        BY <1>5, <2>4, <4>1
      <4>3. Beats(g, best)
        BY <2>1 DEF Wins
      <4>4. bid[c] \in Bid
        BY <1>3, <2>4
      <4>5. ~ Beats(bid[c], g)
        BY <1>3, <1>4, <2>2, <4>2, <4>3, <4>4, BetterStill
      <4>6. QED
        BY <4>5
    <3>3. QED
      BY <3>1, <3>2
  <2>5. same[p] = Table => \E c \in Runs(now) : g = bid[c]
    <3> SUFFICES ASSUME same[p] = Table
                 PROVE  b \in Runs(now) /\ g = bid[b]
      OBVIOUS
    <3>1. g = bid[b] /\ Live(b, now)
      BY <1>3, <1>10, <2>1
    <3>2. bid[b].intent = "dontneed" => \A c \in Table : ~ Guarded(c, now)
      BY <1>5, <2>3, <3>1
    <3>3. QED
      BY <1>3, <3>1, <3>2 DEF Runs
  <2>6. \A c \in same[p] : bid[c].id = g.id => g = bid[c] /\ ~ Expired(bid[c], now)
    BY <1>10, <2>1, <2>2 DEF Live
  <2>7. QED
    BY <1>4, <1>11, <2>1, <2>2, <2>3, <2>4, <2>5, <2>6
<1>14. CASE WeighLoads(p, s)
  <2>1. /\ s.pc = "weigh" /\ s.b = b /\ s.f = f + 1 /\ s.got = g /\ s.live = m[p].live /\ s.best = best
        /\ s.now = now /\ s.began = m[p].began /\ s.rows = m[p].rows
        /\ ~ Skipped(p, WeighOrder, g)
    BY <1>14 DEF WeighLoads, SameCall
  <2>2. b \in same[p] => \A i \in 1 .. s.f - 1 : s.got[WeighOrder[i]] = bid[b][WeighOrder[i]]
    BY <1>3, <1>7, <2>1
  <2>3. b \in same[p] => (s.f > 1 => bid[b].id # 0) /\ (s.f > 3 => ~ Expired(bid[b], now))
    BY <1>3, <1>7, <2>1
  <2>4. Read(p, WeighOrder)' /\ Considered(p)'
    BY <1>2, <1>3, <2>1, <2>2, <2>3 DEF Read, Considered
  <2>5. \A c \in Table : (Guarded(c, now)' <=> Guarded(c, now)) /\ (Counts(p, c)' <=> Counts(p, c))
    BY <1>2, <1>3, <2>1 DEF Guarded, Live, Counts
  <2>6. Runs(now)' = Runs(now)
    BY <1>2, <1>3, <2>1 DEF Runs, Live, Guarded
  <2>7. PassTwo(p)'
    <3>1. (\E c \in same[p] : Guarded(c, now)') => m[p].live
      BY <1>3, <1>5, <2>5
    <3>2. same[p] = Table /\ m[p].live => \E c \in Table : Guarded(c, now)'
      BY <1>5, <2>5
    <3>3. \A c \in same[p] : c < b /\ Counts(p, c)' => best.id # 0 /\ (best = bid[c] \/ ~ Beats(bid[c], best))
      BY <1>3, <1>5, <2>5
    <3>4. s.got.id # 0 /\ \A c \in same[p] : bid[c].id = s.got.id => c = b
      BY <1>8, <2>1
    <3>5. QED
      BY <1>2, <1>3, <1>5, <2>1, <2>4, <2>6, <3>1, <3>2, <3>3, <3>4 DEF PassTwo
  <2>8. PassOne(p)' /\ Winner(p)' /\ Copied(p)'
    BY <1>2, <1>3, <1>6, <2>1 DEF PassOne, Winner, Copied
  <2>9. QED
    BY <2>7, <2>8 DEF Counted
<1>15. QED
  BY <1>1, <1>12, <1>13, <1>14

LEMMA ElectCounted ==
  ASSUME Framed, Counting, NEW p \in Procs, Elect(p)
  PROVE  Counted(p)'
<1>1. PICK s \in Frame : /\ Go(p, s) /\ s.op = m[p].op /\ s.arg = m[p].arg /\ s.rows = m[p].rows
                         /\ s.began = m[p].began /\ s.now = clock
                         /\ s.pc = "look" /\ s.b = 1 /\ s.f = 1 /\ s.live = FALSE /\ s.best = Empty
  BY ElectMoves
<1>2. m'[p] = s
  BY <1>1, GoTo DEF Framed
<1>3. m[p].rows = << >> /\ m[p].began <= clock /\ clock' = clock
  BY DEF Elect, Counting, Copied, Winner
<1>4. same' = [same EXCEPT ![p] = Table]
  BY DEF Elect
<1>5. same'[p] = Table
  BY <1>4 DEF Framed, ShardTypeOK
<1>6. \A c \in Table : ~ (c < 1)
  BY DEF Table
<1>7. PassOne(p)'
  BY <1>1, <1>2, <1>5, <1>6 DEF PassOne, Read, Considered
<1>8. PassTwo(p)' /\ Winner(p)' /\ Copied(p)'
  BY <1>1, <1>2, <1>3 DEF PassTwo, Winner, Copied
<1>9. QED
  BY <1>7, <1>8 DEF Counted

LEMMA SnapCounted ==
  ASSUME Framed, Counting, NEW p \in Procs, Snap(p)
  PROVE  Counted(p)'
<1>1. PICK s \in Frame : /\ Go(p, s) /\ SameCall(m[p], s) /\ s.best = m[p].best
                         /\ s.pc = "copy" /\ s.b = 1 /\ s.f = 1
  BY SnapMoves
<1>2. m'[p] = s
  BY <1>1, GoTo DEF Framed
<1>3. m[p].pc = "weigh" /\ UNCHANGED << bid, same, clock >> /\ same[p] \subseteq Table
  BY FrameOf DEF Snap, Elected, Untouched
<1>4. /\ m[p].began <= clock /\ m[p].began <= m[p].now /\ m[p].rows = << >>
      /\ m[p].best.id # 0 => \A c \in same[p] :
           bid[c].id = m[p].best.id => m[p].best = bid[c] /\ ~ Expired(bid[c], m[p].now)
  BY <1>3 DEF Counting, Winner, Copied
<1>5. s.rows = << >> /\ s.began = m[p].began /\ s.now = m[p].now
  BY <1>1, <1>4 DEF SameCall
<1>6. Winner(p)'
  BY <1>1, <1>2, <1>3, <1>4, <1>5 DEF Winner
<1>7. \A c \in same[p] : ~ (c < 1)
  BY <1>3 DEF Table
<1>8. Copied(p)'
  BY <1>1, <1>2, <1>3, <1>5, <1>7 DEF Copied, Read
<1>9. PassOne(p)' /\ PassTwo(p)'
  BY <1>1, <1>2 DEF PassOne, PassTwo
<1>10. QED
  BY <1>6, <1>8, <1>9 DEF Counted

LEMMA CopyCounted ==
  ASSUME Framed, Counting, NEW p \in Procs, Copy(p)
  PROVE  Counted(p)'
<1> DEFINE b == m[p].b
           f == m[p].f
<1>1. PICK s \in Frame : /\ Go(p, s) /\ SameCall(m[p], s) /\ s.best = m[p].best
                         /\ s.b = b /\ s.b \in Table /\ s.got = Got(p, CopyOrder)
                         /\ \/ f < 6 /\ s.pc = "copy" /\ s.f = f + 1
                            \/ f = 6 /\ s.pc = "age" /\ s.f = 1
  BY CopyMoves
<1>2. Go(p, s)
  BY <1>1
<1>3. m'[p] = s
  BY <1>2, GoTo DEF Framed
<1>4. /\ m[p].pc = "copy" /\ UNCHANGED << bid, same, clock >> /\ same[p] \subseteq Table
      /\ f \in 1 .. 6 /\ m[p].got \in Bid /\ b \in Table /\ bid[b] \in Bid
  <2>1. m[p].pc = "copy" /\ UNCHANGED << bid, same, clock >> /\ Place(p)
    BY FrameOf DEF Copy, Untouched
  <2>2. f <= 6
    BY <2>1, Orders DEF Place
  <2>3. QED
    BY <1>1, <2>1, <2>2, FrameOf
<1>5. /\ Winner(p) /\ Read(p, CopyOrder) /\ Len(m[p].rows) = b - 1
      /\ \A c \in same[p] : c < b =>
           /\ m[p].rows[c].bid = bid[c]
           /\ m[p].rows[c].sovereign =>
                /\ bid[c].id # 0 /\ bid[c].id = m[p].best.id
                /\ m[p].rows[c].expired => Expired(bid[c], m[p].began)
  BY <1>4 DEF Counting, Copied
<1>6. s.rows = m[p].rows /\ s.began = m[p].began /\ s.now = m[p].now
  BY <1>1 DEF SameCall
<1>7. Winner(p)'
  BY <1>1, <1>3, <1>4, <1>5, <1>6 DEF Winner
<1>8. CopyOrder[f] \in FieldNames /\ s.got \in Bid
  BY <1>1, <1>4, Orders, LoadedBid
<1>0. PICK v : v = bid[b][CopyOrder[f]]
  OBVIOUS
<1>9. PICK r \in Bid, field \in FieldNames :
        r = m[p].got /\ field = CopyOrder[f] /\ v = bid[b][CopyOrder[f]]
  BY <1>0, <1>4, <1>8
<1>10. s.got = [r EXCEPT ![field] = v]
  BY <1>1, <1>9 DEF Got
<1>11. s.got[field] = v /\ \A h \in FieldNames \ {field} : s.got[h] = r[h]
  BY <1>10, BidFields
<1>12. ASSUME b \in same[p], NEW i \in 1 .. f
       PROVE  s.got[CopyOrder[i]] = bid[b][CopyOrder[i]]
  <2>1. CASE CopyOrder[i] = field
    BY <1>9, <1>11, <2>1
  <2>2. CASE CopyOrder[i] # field
    <3>1. i \in 1 .. f - 1 /\ CopyOrder[i] \in FieldNames
      BY <1>4, <1>9, <2>2, Orders
    <3>2. r[CopyOrder[i]] = bid[b][CopyOrder[i]]
      BY <1>5, <1>9, <1>12, <3>1 DEF Read
    <3>3. QED
      BY <1>11, <2>2, <3>1, <3>2
  <2>3. QED
    BY <2>1, <2>2
<1>13. f = 6 /\ b \in same[p] => s.got = bid[b]
  <2> SUFFICES ASSUME f = 6, b \in same[p]
               PROVE  s.got = bid[b]
    OBVIOUS
  <2>1. /\ CopyOrder[1] = "id" /\ CopyOrder[2] = "pid" /\ CopyOrder[3] = "intent"
        /\ CopyOrder[4] = "prio" /\ CopyOrder[5] = "dur" /\ CopyOrder[6] = "at"
    BY DEF CopyOrder
  <2>2. \A h \in FieldNames : \E i \in 1 .. 6 : CopyOrder[i] = h
    BY <2>1 DEF FieldNames
  <2>3. \A i \in 1 .. 6 : s.got[CopyOrder[i]] = bid[b][CopyOrder[i]]
    BY <1>12
  <2>4. \A h \in FieldNames : s.got[h] = bid[b][h]
    BY <2>2, <2>3
  <2>5. QED
    BY <1>4, <1>8, <2>4, SameBid
<1>14. Copied(p)'
  <2>1. CASE f < 6
    <3>1. b \in same[p] => \A i \in 1 .. s.f - 1 : s.got[CopyOrder[i]] = bid[b][CopyOrder[i]]
      BY <1>1, <1>4, <1>12, <2>1
    <3>2. Read(p, CopyOrder)'
      BY <1>1, <1>3, <1>4, <3>1 DEF Read
    <3>3. QED
      BY <1>1, <1>3, <1>4, <1>5, <1>6, <2>1, <3>2 DEF Copied
  <2>2. CASE f = 6
    BY <1>1, <1>3, <1>4, <1>5, <1>6, <1>13, <2>2 DEF Copied
  <2>3. QED
    BY <1>4, <2>1, <2>2
<1>15. PassOne(p)' /\ PassTwo(p)'
  BY <1>1, <1>3 DEF PassOne, PassTwo
<1>16. QED
  BY <1>7, <1>14, <1>15 DEF Counted

LEMMA AgeCounted ==
  ASSUME Framed, Counting, NEW p \in Procs, Age(p)
  PROVE  Counted(p)'
<1> DEFINE b == m[p].b
           f == m[p].f
<1>1. PICK s \in Frame : /\ Go(p, s) /\ s.best = m[p].best
                         /\ AgeLoads(p, s) \/ \E expired \in BOOLEAN : AgeEmits(p, s, expired)
  BY AgeMoves
<1>2. Go(p, s) /\ s.best = m[p].best
  BY <1>1
<1>3. m'[p] = s
  BY <1>2, GoTo DEF Framed
<1>4. /\ m[p].pc = "age" /\ UNCHANGED << bid, same, clock >> /\ same[p] \subseteq Table /\ b \in Table
  BY FrameOf, AgedBid DEF Age, Untouched
<1>5. /\ Winner(p) /\ Len(m[p].rows) = b - 1
      /\ b \in same[p] => m[p].got = bid[b] /\ (f > 1 => m[p].age.at = bid[b].at)
      /\ \A c \in same[p] : c < b =>
           /\ m[p].rows[c].bid = bid[c]
           /\ m[p].rows[c].sovereign =>
                /\ bid[c].id # 0 /\ bid[c].id = m[p].best.id
                /\ m[p].rows[c].expired => Expired(bid[c], m[p].began)
  BY <1>4 DEF Counting, Copied
<1>6. s.pc \in {"copy", "age"} /\ s.began = m[p].began /\ s.now = m[p].now
  BY <1>1 DEF AgeLoads, AgeEmits, SameCall
<1>7. Winner(p)'
  BY <1>2, <1>3, <1>4, <1>5, <1>6 DEF Winner
<1>8. PassOne(p)' /\ PassTwo(p)'
  BY <1>3, <1>6 DEF PassOne, PassTwo
<1>9. CASE AgeLoads(p, s)
  <2>1. /\ s.pc = "age" /\ s.b = b /\ s.f = 2 /\ s.got = m[p].got /\ s.age.at = bid[b].at
        /\ s.rows = m[p].rows
    BY <1>9 DEF AgeLoads, SameCall
  <2>2. Copied(p)'
    BY <1>2, <1>3, <1>4, <1>5, <1>6, <2>1 DEF Copied
  <2>3. QED
    BY <1>7, <1>8, <2>2 DEF Counted
<1>10. ASSUME NEW expired \in BOOLEAN, AgeEmits(p, s, expired)
       PROVE  Counted(p)'
  <2>1. /\ s.pc = "copy" /\ s.b = b + 1 /\ s.f = 1 /\ s.rows = Append(m[p].rows, Row(p, expired))
        /\ m[p].got.id # 0 => f = 2 /\ expired = Expired(Aged(p), m[p].began)
    BY <1>10 DEF AgeEmits
  <2>2. PICK row \in [bid : Bid, expired : BOOLEAN, sovereign : BOOLEAN] : row = Row(p, expired)
    <3>1. m[p].got \in Bid
      BY FrameOf
    <3>2. Row(p, expired) \in [bid : Bid, expired : BOOLEAN, sovereign : BOOLEAN]
      BY <3>1 DEF Row
    <3>3. QED
      BY <3>2
  <2>3. /\ row.bid = m[p].got /\ row.expired = expired
        /\ row.sovereign => m[p].got.id # 0 /\ m[p].got.id = m[p].best.id
    BY <2>2 DEF Row
  <2>4. /\ Len(s.rows) = b /\ s.rows[b] = row
        /\ \A c \in 1 .. b - 1 : s.rows[c] = m[p].rows[c]
    <3>0. m[p] \in Frame
      BY FrameOf
    <3>1. m[p].rows \in Seq([bid : Bid, expired : BOOLEAN, sovereign : BOOLEAN]) /\ b \in Nat
      BY <1>4, <3>0 DEF Frame, Table
    <3>2. s.rows = Append(m[p].rows, row)
      BY <2>1, <2>2
    <3>3. QED
      BY <1>5, <3>1, <3>2, AppendProperties
  <2>5. b \in same[p] /\ row.sovereign /\ row.expired => Expired(bid[b], m[p].began)
    <3> SUFFICES ASSUME b \in same[p], row.sovereign, row.expired
                 PROVE  Expired(bid[b], m[p].began)
      OBVIOUS
    <3>1. f = 2 /\ Expired(Aged(p), m[p].began)
      BY <2>1, <2>3
    <3>2. Aged(p).at = bid[b].at /\ Aged(p).dur = bid[b].dur
      BY <1>5, <3>1, AgedBid
    <3>3. QED
      BY <3>1, <3>2 DEF Expired, Elapsed
  <2>6. \A c \in same[p] : c < b + 1 =>
          /\ s.rows[c].bid = bid[c]
          /\ s.rows[c].sovereign =>
               /\ bid[c].id # 0 /\ bid[c].id = m[p].best.id
               /\ s.rows[c].expired => Expired(bid[c], m[p].began)
    <3>1. \A c \in same[p] : c < b + 1 => (c \in 1 .. b - 1 /\ c < b) \/ c = b
      BY <1>4 DEF Table
    <3>2. QED
      BY <1>5, <2>3, <2>4, <2>5, <3>1
  <2>7. Len(s.rows) = s.b - 1
    BY <1>4, <2>1, <2>4 DEF Table
  <2>8. Read(p, CopyOrder)'
    BY <1>3, <2>1 DEF Read
  <2>9. Copied(p)'
    BY <1>2, <1>3, <1>4, <1>6, <2>1, <2>6, <2>7, <2>8 DEF Copied
  <2>10. QED
    BY <1>7, <1>8, <2>9 DEF Counted
<1>11. QED
  BY <1>1, <1>9, <1>10

LEMMA NextCounting ==
  ASSUME Framed, Holds, Counting, [ShardNext]_shardVars
  PROVE  Counting'
<1> DEFINE Rests(p) == \A q \in Procs \ {p} : same'[q] \subseteq same[q] /\ \A c \in same'[q] : bid'[c] = bid[c]
<1>1. ASSUME NEW p \in Procs, Look(p) \/ Weigh(p) \/ Snap(p) \/ Copy(p) \/ Age(p)
      PROVE  Counting'
  <2>1. Counted(p)'
    BY <1>1, LookCounted, WeighCounted, SnapCounted, CopyCounted, AgeCounted DEF Holds
  <2>2. UNCHANGED << bid, same, clock >>
    BY <1>1 DEF Look, Weigh, Snap, Copy, Age, Untouched
  <2>3. \E s \in Frame : Go(p, s)
    BY <1>1, LookCases, WeighCases, SnapMoves, CopyMoves, AgeMoves
  <2>4. QED
    BY <2>1, <2>2, <2>3, Shrinks
<1>2. ASSUME NEW p \in Procs, Elect(p)
      PROVE  Counting'
  <2>1. Counted(p)' /\ clock' = clock /\ \E s \in Frame : Go(p, s)
    BY <1>2, ElectCounted, ElectMoves DEF Elect
  <2>2. Rests(p)
    BY <1>2 DEF Elect, Framed, ShardTypeOK
  <2>3. QED
    BY <2>1, <2>2, Shrinks
<1>3. ASSUME NEW p \in Procs, NEW s \in Frame, Go(p, s), clock' = clock, Rests(p),
             s.pc \notin {"look", "weigh", "copy", "age"}, s.rows = << >>, s.began <= clock
      PROVE  Counting'
  <2>1. m'[p] = s
    BY <1>3, GoTo DEF Framed
  <2>2. Counted(p)'
    BY <1>3, <2>1, OutsideCounted
  <2>3. QED
    BY <1>3, <2>2, Shrinks
<1>4. ASSUME NEW p \in Procs, m[p].pc \notin {"copy", "age"},
             NEW s \in Frame, Go(p, s), SameCall(m[p], s), clock' = clock, Rests(p),
             s.pc \notin {"look", "weigh", "copy", "age"}
      PROVE  Counting'
  <2>1. s.rows = << >> /\ s.began <= clock
    BY <1>4 DEF Counting, Copied, Winner, SameCall
  <2>2. QED
    BY <1>3, <1>4, <2>1
<1>5. ASSUME NEW p \in Procs, Start(p)
      PROVE  Counting'
  <2>1. PICK s \in Frame : /\ Go(p, s) /\ s.rows = << >> /\ s.began \in {0, clock}
                           /\ UNCHANGED << bid, clock, same >> /\ s.pc \in {"find", "elect"}
    BY <1>5, StartMoves
  <2>2. s.began <= clock
    BY <2>1, FrameOf, <1>5, Parameters
  <2>3. QED
    BY <1>3, <1>5, <2>1, <2>2
<1>6. ASSUME NEW p \in Procs, Find(p) \/ (NotFound(p) /\ m[p].op = "claim") \/ Arm(p) \/ Wait(p)
      PROVE  Counting'
  <2>1. UNCHANGED << bid, same, clock >> /\ m[p].pc \notin {"copy", "age"}
    BY <1>6 DEF Find, NotFound, Arm, Wait, Untouched, Elected
  <2>2. \E s \in Frame : Go(p, s) /\ SameCall(m[p], s) /\ s.pc \in {"arm", "store", "grab", "elect"}
    BY <1>6, FindMoves, NotFoundMoves, ArmMoves, WaitMoves
  <2>3. QED
    BY <1>4, <1>6, <2>1, <2>2
<1>7. ASSUME NEW p \in Procs, Grab(p)
      PROVE  Counting'
  <2>1. PICK s \in Frame : /\ Go(p, s) /\ SameCall(m[p], s) /\ s.f = 1 /\ m[p].b \in Table
                           /\ GrabTakes(p, s) \/ GrabMisses(p, s)
    BY <1>7, GrabMoves
  <2>2. Go(p, s) /\ SameCall(m[p], s) /\ s.pc \in {"store", "grab"} /\ clock' = clock /\ m[p].pc = "grab"
    BY <1>7, <2>1 DEF GrabTakes, GrabMisses, Grab
  <2>3. Rests(p)
    <3>1. CASE GrabTakes(p, s)
      <4>1. \A q \in Procs : same'[q] = same[q] \ {m[p].b} /\ same[q] \subseteq Table
        BY <3>1, FrameOf DEF GrabTakes
      <4>2. \A c \in Table \ {m[p].b} : bid'[c] = bid[c]
        BY <2>1, <3>1, GrabBid DEF GrabTakes
      <4>3. QED
        BY <4>1, <4>2
    <3>2. CASE GrabMisses(p, s)
      BY <3>2 DEF GrabMisses, Untouched
    <3>3. QED
      BY <2>1, <3>1, <3>2
  <2>4. QED
    BY <1>4, <2>2, <2>3
<1>8. ASSUME NEW p \in Procs, Store(p)
      PROVE  Counting'
  <2>1. PICK s \in Frame : Go(p, s) /\ (StoreGoesOn(p, s) \/ StoreEnds(p, s))
    BY <1>8, StoreMoves
  <2>2. m[p].pc = "store" /\ clock' = clock
    BY <1>8 DEF Store
  <2>3. Rests(p)
    <3>0. same' = [q \in Procs |-> same[q] \ {m[p].b}]
      BY <1>8, StoreBid
    <3>1. \A q \in Procs : same'[q] = same[q] \ {m[p].b} /\ same[q] \subseteq Table
      BY <3>0, FrameOf
    <3>2. \A c \in Table \ {m[p].b} : bid'[c] = bid[c]
      BY <1>8, StoreBid
    <3>3. QED
      BY <3>1, <3>2
  <2>4. CASE StoreGoesOn(p, s)
    <3>1. SameCall(m[p], s) /\ s.pc = "store"
      BY <2>4 DEF StoreGoesOn
    <3>2. QED
      BY <1>4, <2>1, <2>2, <2>3, <3>1
  <2>5. CASE StoreEnds(p, s)
    <3>1. s.pc = "idle" /\ s.rows = << >> /\ s.began = 0 /\ 0 <= clock
      BY <2>5, IdleFrame, FrameOf, Parameters DEF StoreEnds
    <3>2. QED
      BY <1>3, <2>1, <2>2, <2>3, <3>1
  <2>6. QED
    BY <2>1, <2>4, <2>5
<1>9. ASSUME NEW p \in Procs, Ends(p)
      PROVE  Counting'
  <2>1. Go(p, Idle) /\ same' = [same EXCEPT ![p] = {}] /\ bid' = bid /\ clock' = clock
    BY <1>9, EndsMoves DEF Return
  <2>2. Rests(p)
    BY <2>1 DEF Framed, ShardTypeOK
  <2>3. Idle.began <= clock
    BY IdleFrame, FrameOf, Parameters
  <2>4. QED
    BY <1>3, <2>1, <2>2, <2>3, IdleFrame
<1>10. CASE Tick \/ UNCHANGED shardVars
  <2>1. UNCHANGED << bid, m, same >> /\ clock \in Nat /\ clock' \in Nat /\ clock <= clock'
    BY <1>10, Parameters DEF Tick, shardVars, Framed, ShardTypeOK
  <2>2. \A q \in Procs : Counted(q)'
    BY <2>1, OthersCounted DEF Counting, Counted
  <2>3. QED
    BY <2>2 DEF Counting, Counted
<1>11. QED
  BY <1>1, <1>2, <1>5, <1>6, <1>7, <1>8, <1>9, <1>10, StepCases

LEMMA InitCounting == ShardInit => Counting
<1> SUFFICES ASSUME ShardInit, NEW p \in Procs
             PROVE  PassOne(p) /\ PassTwo(p) /\ Winner(p) /\ Copied(p)
  BY DEF Counting
<1>1. m[p] = Idle /\ clock = 0
  BY DEF ShardInit
<1>2. QED
  BY <1>1, IdleFrame DEF PassOne, PassTwo, Winner, Copied

LEMMA AlwaysCounting == ShardSpec => [](Framed /\ Holds /\ Counting)
<1>1. ShardInit => Framed /\ Holds /\ Counting
  BY InitFramed, InitHolds, InitCounting
<1>2. Framed /\ Holds /\ Counting /\ [ShardNext]_shardVars => (Framed /\ Holds /\ Counting)'
  BY NextFramed, NextHolds, NextCounting
<1>3. QED
  BY <1>1, <1>2, PTL DEF ShardSpec

(* When nobody stores into the table during an election, its winner is the *)
(* live bid that beats all others that may run, DONTNEED ones only without *)
(* a live protective bid: every shard that looks computes the same.        *)
THEOREM ElectionsAgree == ShardSpec => []StillElection
<1>1. ASSUME Framed, Counting, NEW p \in Procs, Elected(p), same[p] = Table
      PROVE  IF Runs(m[p].now) = {} THEN m[p].best = Empty
             ELSE \E b \in Runs(m[p].now) : /\ m[p].best = bid[b]
                                           /\ \A c \in Runs(m[p].now) \ {b} : ~ Beats(bid[c], bid[b])
  <2> DEFINE now == m[p].now
             best == m[p].best
  <2>1. m[p].pc = "weigh" /\ m[p].b > Records /\ m[p].b \in 1 .. Records + 1
        /\ \A c \in Table : bid[c] \in Bid
    BY <1>1, FrameOf DEF Elected
  <2>2. /\ (\E c \in Table : Guarded(c, now)) => m[p].live
        /\ m[p].live => \E c \in Table : Guarded(c, now)
        /\ \A c \in Table : c < m[p].b /\ Counts(p, c) => best.id # 0 /\ (best = bid[c] \/ ~ Beats(bid[c], best))
        /\ best = Empty \/ \E c \in Runs(now) : best = bid[c]
    BY <1>1, <2>1 DEF Counting, PassTwo
  <2>3. \A c \in Runs(now) : best.id # 0 /\ (best = bid[c] \/ ~ Beats(bid[c], best))
    <3>1. \A c \in Table : c < m[p].b
      BY <2>1, Parameters DEF Table
    <3>2. \A c \in Runs(now) : c \in Table /\ Counts(p, c)
      BY <2>2 DEF Runs, Counts
    <3>3. QED
      BY <2>2, <3>1, <3>2
  <2>4. CASE Runs(now) = {}
    BY <2>2, <2>4
  <2>5. CASE Runs(now) # {}
    <3>1. best # Empty
      BY <2>3, <2>5, EmptyBid
    <3>2. PICK b \in Runs(now) : best = bid[b]
      BY <2>2, <3>1
    <3>3. \A c \in Runs(now) : ~ Beats(bid[c], bid[b])
      <4>1. bid[b] \in Bid /\ bid[b].id # 0
        BY <2>1, <2>3, <3>2 DEF Runs
      <4>2. ~ Beats(bid[b], bid[b])
        BY <4>1, BeatsNotItself
      <4>3. QED
        BY <2>3, <3>2, <4>2
    <3>4. QED
      BY <2>5, <3>2, <3>3
  <2>6. QED
    BY <2>4, <2>5
<1>2. Framed /\ Counting => StillElection
  BY <1>1 DEF StillElection
<1>3. QED
  BY <1>2, AlwaysCounting, PTL

(* A live protective bid that stands through an election, whatever others  *)
(* store meanwhile, keeps a DONTNEED bid from winning it.                  *)
THEOREM SoftBumper == ShardSpec => []Bumper
<1>1. Framed /\ Counting => Bumper
  BY DEF Counting, PassTwo, Bumper, Elected
<1>2. QED
  BY <1>1, AlwaysCounting, PTL

(* A live bid that stands through an election does not lose it to a lesser *)
(* one, whatever others store meanwhile.                                   *)
THEOREM NeverOutbid == ShardSpec => []Outbid
<1>1. ASSUME Framed, Counting, NEW p \in Procs, Elected(p), NEW b \in same[p],
             Live(b, m[p].now), bid[b].intent # "dontneed"
      PROVE  m[p].best.id # 0 /\ (m[p].best = bid[b] \/ ~ Beats(bid[b], m[p].best))
  <2>1. b \in Table /\ m[p].pc = "weigh" /\ b < m[p].b
    BY <1>1, FrameOf, Parameters DEF Elected, Table
  <2>2. Counts(p, b)
    BY <1>1 DEF Counts
  <2>3. QED
    BY <1>1, <2>1, <2>2 DEF Counting, PassTwo
<1>2. Framed /\ Counting => Outbid
  BY <1>1 DEF Outbid
<1>3. QED
  BY <1>2, AlwaysCounting, PTL

(* No row of a snapshot that was left alone is at once sovereign and       *)
(* expired, though the clock is read twice.                                *)
THEOREM SovereignRowsLive == ShardSpec => []SovereignLive
<1>1. ASSUME Framed, Counting, NEW p \in Procs, NEW b \in DOMAIN m[p].rows,
             b \in same[p], m[p].rows[b].bid.at <= m[p].began,
             m[p].rows[b].sovereign, m[p].rows[b].expired
      PROVE  FALSE
  <2>1. m[p].pc \in {"copy", "age"}
    <3>1. m[p].rows # << >>
      BY <1>1
    <3>2. QED
      BY <1>1, <3>1 DEF Counting, Copied
  <2>2. m[p].began \in 0 .. Horizon /\ m[p].now \in 0 .. Horizon /\ m[p].began <= m[p].now
        /\ bid[b] \in Bid /\ b \in Table /\ m[p].b \in 1 .. Records + 1
    BY <1>1, <2>1, FrameOf DEF Counting, Winner
  <2>3. b < m[p].b
    <3>1. Len(m[p].rows) = m[p].b - 1 /\ b \in 1 .. Len(m[p].rows)
      BY <1>1, <2>1, FrameOf DEF Counting, Copied, Frame
    <3>2. QED
      BY <2>2, <3>1, Parameters
  <2>4. /\ m[p].rows[b].bid = bid[b] /\ bid[b].id # 0 /\ bid[b].id = m[p].best.id
        /\ Expired(bid[b], m[p].began)
    BY <1>1, <2>1, <2>3 DEF Counting, Copied
  <2>5. ~ Expired(bid[b], m[p].now)
    BY <1>1, <2>1, <2>4 DEF Counting, Winner
  <2>6. bid[b].at <= m[p].began /\ bid[b].at <= m[p].now /\ bid[b].at \in Nat /\ bid[b].dur \in Nat
    BY <1>1, <2>2, <2>4, Parameters DEF Bid
  <2>7. Elapsed(bid[b], m[p].began) = m[p].began - bid[b].at /\ Elapsed(bid[b], m[p].now) = m[p].now - bid[b].at
    BY <2>2, <2>6, ElapsedNat
  <2>8. QED
    BY <2>2, <2>4, <2>5, <2>6, <2>7, Parameters DEF Expired
<1>2. Framed /\ Counting => SovereignLive
  BY <1>1 DEF SovereignLive
<1>3. QED
  BY <1>2, AlwaysCounting, PTL

=============================================================================
