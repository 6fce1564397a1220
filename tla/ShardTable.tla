----------------------------- MODULE ShardTable -----------------------------
(***************************************************************************)
(* The logic shard bid table of splinter.c: a table of bids in the header  *)
(* of the store, written field by field by the shards that own them, and   *)
(* an election that every shard computes for itself from what it reads.    *)
(*                                                                         *)
(* One step is one load or one store of the table, or one read of the      *)
(* clock; the only read-modify-write is the CAS that claims an empty       *)
(* record.  Times are taken modulo Span (2^64 in the code), so that an     *)
(* elapsed time that is negative wraps.                                    *)
(***************************************************************************)
EXTENDS Integers, Sequences

CONSTANTS
  Procs,     \* processes; each speaks for one shard
  Id,        \* [Procs -> shard ids], none of them 0
  Pid,       \* [Procs -> process ids]
  Records,   \* SPLINTER_MAX_SHARDS
  Bids,      \* [Procs -> sets of [intent, prio, dur]]: what a process bids
  Calls,     \* [Procs -> sets of operations]: what a process calls
  Timeouts,  \* the timeouts given to splinter_madvise
  Forever,   \* the timeout UINT64_MAX
  Span,      \* the clock's modulus
  Latest,    \* bound: no call begins after this time
  Horizon,   \* bound: the clock stops here
  Mortal,    \* processes that may be killed, and start again
  Scenes     \* how it begins: a set of [table, turns], the bids that stand and
             \* the number of calls each process makes

Protective == {"willneed", "sequential"}
Intents    == Protective \cup {"none", "random", "dontneed"}
Empty      == [id |-> 0, pid |-> 0, intent |-> "none", prio |-> 0, dur |-> 0, at |-> 0]
Table      == 1 .. Records

(* What a record of the table may hold.                                    *)
Bid == [id : {0} \cup {Id[p] : p \in Procs}, pid : Nat, intent : Intents, prio : Nat,
        dur : Nat, at : 0 .. Latest]

ASSUME ShardAssumption ==
  /\ Records \in Nat \ {0} /\ Span \in Nat \ {0} /\ Latest \in Nat /\ Horizon \in Latest .. Span - 1
  /\ \A p \in Procs : Id[p] \in Nat \ {0} /\ Pid[p] \in Nat
  /\ \A p, q \in Procs : p # q => Id[p] # Id[q]
  /\ Forever \notin Nat

(* What the callers pass.                                                  *)
ASSUME CallAssumption ==
  \A p \in Procs : /\ Bids[p] \subseteq [intent : Intents, prio : Nat, dur : Nat]
                    /\ Timeouts[p] \subseteq Nat \cup {Forever}

(* The tables the runs begin with: what completed calls have left.         *)
ASSUME SceneAssumption ==
  \A scene \in Scenes :
    /\ scene.table \in [Table -> Bid] /\ scene.turns \in [Procs -> Nat]
    /\ \A b, c \in Table : scene.table[b].id = scene.table[c].id /\ b # c => scene.table[b].id = 0

VARIABLES
  bid,    \* H->shard_bids
  clock,  \* splinter_now()
  m,      \* the call each process is in
  left,   \* calls it may still make
  due,    \* history: the bid its last completed calls leave in the table
  same    \* history: records not stored to since it began its election

shardVars == << bid, clock, m, left, due, same >>

Idle == [pc |-> "idle", op |-> "none", b |-> 1, f |-> 1, arg |-> Empty, timeout |-> 0,
         end |-> 0, began |-> 0, now |-> 0, got |-> Empty, live |-> FALSE, best |-> Empty,
         age |-> Empty, rows |-> << >>]
Lost == [Empty EXCEPT !.id = -1]   \* due of a process killed inside a call

Elapsed(x, now) == (now - x.at) % Span
Expired(x, now) == Elapsed(x, now) >= x.dur

Beats(x, y) == \/ y.id = 0
               \/ x.prio > y.prio
               \/ x.prio = y.prio /\ x.at < y.at
               \/ x.prio = y.prio /\ x.at = y.at /\ x.pid < y.pid

(* The orders in which the fields of a record are stored and loaded.       *)
BrokenStoreOrder(op) ==   \* a release frees the record first
  CASE op = "claim"   -> << "pid", "intent", "prio", "dur", "at" >>
    [] op = "rebid"   -> << "intent", "prio", "dur", "at" >>
    [] op = "release" -> << "id", "pid", "intent", "prio", "dur", "at" >>
StoreOrder(op) ==
  CASE op = "claim"   -> << "pid", "intent", "prio", "dur", "at" >>
    [] op = "rebid"   -> << "intent", "prio", "dur", "at" >>
    [] op = "release" -> << "pid", "intent", "prio", "dur", "at", "id" >>
LookOrder  == << "id", "at", "dur", "intent" >>
WeighOrder == << "id", "at", "dur", "intent", "prio", "at", "pid" >>

-----------------------------------------------------------------------------
(* A call begins.  splinter_shard_claim reads its pid and the clock before *)
(* it looks at the table.                                                  *)

Go(p, r) == m' = [m EXCEPT ![p] = r]

Begin(p, op, r) ==
  /\ m[p].pc = "idle" /\ left[p] > 0 /\ op \in Calls[p] /\ clock <= Latest
  /\ Go(p, [r EXCEPT !.op = op])
  /\ left' = [left EXCEPT ![p] = @ - 1]
  /\ UNCHANGED << bid, clock, due, same >>

Fields(p, x) == [id |-> Id[p], pid |-> Pid[p], intent |-> x.intent, prio |-> x.prio,
                 dur |-> x.dur, at |-> clock]

Claim(p)    == \E x \in Bids[p] : Begin(p, "claim", [Idle EXCEPT !.pc = "find", !.arg = Fields(p, x)])
Rebid(p)    == \E x \in Bids[p] : Begin(p, "rebid", [Idle EXCEPT !.pc = "find", !.arg = Fields(p, x)])
Release(p)  == Begin(p, "release", [Idle EXCEPT !.pc = "find"])
Election(p) == \E op \in {"elect", "snapshot"} :
                 Begin(p, op, [Idle EXCEPT !.pc = "elect", !.began = IF op = "snapshot" THEN clock ELSE 0])
Advise(p)   == \E t \in Timeouts[p] : Begin(p, "advise", [Idle EXCEPT !.pc = "find", !.timeout = t])

Untouched     == UNCHANGED << bid, same >>
Return(p, rc) == Go(p, Idle) /\ same' = [same EXCEPT ![p] = {}]   \* rc is not kept

-----------------------------------------------------------------------------
(* The first pass of a claim, and the only one of the calls that need a    *)
(* record: the first one with the caller's id.  Only the caller stores its *)
(* id anywhere, so the loads of this pass are taken as one step.           *)

BrokenMine(p) == IF m[p].op = "claim" THEN {} ELSE {b \in Table : bid[b].id = Id[p]}   \* no refresh
Mine(p) == {b \in Table : bid[b].id = Id[p]}

Find(p) ==
  /\ m[p].pc = "find" /\ Mine(p) # {}
  /\ \E b \in Mine(p) :
       /\ \A c \in Mine(p) : b <= c
       /\ Go(p, [m[p] EXCEPT !.b = b, !.pc = IF m[p].op = "advise" THEN "arm" ELSE "store"])
  /\ Untouched /\ UNCHANGED << clock, left, due >>

NotFound(p) ==
  /\ m[p].pc = "find" /\ Mine(p) = {}
  /\ \/ m[p].op = "claim" /\ Go(p, [m[p] EXCEPT !.pc = "grab"]) /\ UNCHANGED same
     \/ m[p].op \in {"rebid", "release"} /\ Return(p, "none")
     \/ m[p].op = "advise" /\ Return(p, "EINVAL")
  /\ UNCHANGED << bid, clock, left, due >>

(* The second pass: a CAS on the id of each record, from 0.                *)
Grab(p) ==
  /\ m[p].pc = "grab" /\ m[p].b <= Records
  /\ IF bid[m[p].b].id = 0
     THEN /\ bid' = [bid EXCEPT ![m[p].b].id = Id[p]]
          /\ same' = [q \in Procs |-> same[q] \ {m[p].b}]
          /\ Go(p, [m[p] EXCEPT !.pc = "store"])
     ELSE Go(p, [m[p] EXCEPT !.b = @ + 1]) /\ Untouched
  /\ UNCHANGED << clock, left, due >>

Full(p) ==
  /\ m[p].pc = "grab" /\ m[p].b > Records
  /\ Return(p, "ENOSPC")
  /\ UNCHANGED << bid, clock, left, due >>

(* One store; a rebid reads the clock for the last of them, a release      *)
(* stores zeros and frees the record with the last.  A rebid leaves the pid *)
(* of the record alone, whoever had it when the record was claimed.        *)
BrokenStored(p, field) == IF m[p].op = "rebid" /\ field = "at" THEN clock + m[p].arg.dur ELSE m[p].arg[field]
Stored(p, field) == IF m[p].op = "rebid" /\ field = "at" THEN clock ELSE m[p].arg[field]

Store(p) ==
  LET order == StoreOrder(m[p].op)
      field == order[m[p].f]
      b     == m[p].b
  IN /\ m[p].pc = "store"
     /\ bid' = [bid EXCEPT ![b] = [@ EXCEPT ![field] = Stored(p, field)]]
     /\ same' = [q \in Procs |-> same[q] \ {b}]
     /\ IF m[p].f < Len(order)
        THEN Go(p, [m[p] EXCEPT !.f = @ + 1]) /\ UNCHANGED due
        ELSE /\ Go(p, Idle)
             /\ due' = [due EXCEPT ![p] = CASE m[p].op = "claim"   -> m[p].arg
                                            [] m[p].op = "rebid"   -> [m[p].arg EXCEPT !.at = clock, !.pid = bid[b].pid]
                                            [] m[p].op = "release" -> Empty]
     /\ UNCHANGED << clock, left >>

-----------------------------------------------------------------------------
(* The election: the clock is read once, then the table twice.             *)

Elect(p) ==
  /\ m[p].pc = "elect"
  /\ Go(p, [m[p] EXCEPT !.pc = "look", !.b = 1, !.f = 1, !.now = clock, !.live = FALSE, !.best = Empty])
  /\ same' = [same EXCEPT ![p] = Table]
  /\ UNCHANGED << bid, clock, left, due >>

Got(p, order)    == [m[p].got EXCEPT ![order[m[p].f]] = bid[m[p].b][order[m[p].f]]]
BrokenNextPass(r) == [r EXCEPT !.pc = "weigh", !.f = 1, !.got = Empty]   \* goes on where pass 1 stopped
NextPass(r)      == [r EXCEPT !.pc = "weigh", !.b = 1, !.f = 1, !.got = Empty]
NextRecord(r)    == IF r.pc = "look" /\ r.b = Records THEN NextPass(r)
                    ELSE [r EXCEPT !.b = @ + 1, !.f = 1, !.got = Empty]

(* After this load, the record is passed over: it is empty or has expired. *)
Skipped(p, order, g) == \/ order[m[p].f] = "id" /\ g.id = 0
                        \/ order[m[p].f] = "dur" /\ Expired(g, m[p].now)

(* Pass 1 looks for a live protective bid and stops at the first.          *)
BrokenLook(p) ==
  LET g == Got(p, LookOrder)
  IN /\ m[p].pc = "look"
     /\ Go(p, IF Skipped(p, LookOrder, g) THEN NextRecord(m[p])
              ELSE IF m[p].f < Len(LookOrder) THEN [m[p] EXCEPT !.f = @ + 1, !.got = g]
              ELSE NextPass([m[p] EXCEPT !.live = g.intent \in Protective]))
     /\ Untouched /\ UNCHANGED << clock, left, due >>

Look(p) ==
  LET g == Got(p, LookOrder)
  IN /\ m[p].pc = "look"
     /\ Go(p, IF Skipped(p, LookOrder, g) THEN NextRecord(m[p])
              ELSE IF m[p].f < Len(LookOrder) THEN [m[p] EXCEPT !.f = @ + 1, !.got = g]
              ELSE IF g.intent \in Protective THEN NextPass([m[p] EXCEPT !.live = TRUE])
              ELSE NextRecord(m[p]))
     /\ Untouched /\ UNCHANGED << clock, left, due >>

(* Pass 2 keeps the best bid; DONTNEED does not count beside a live        *)
(* protective bid.                                                         *)
BrokenWins(p, g) == ~ (g.intent = "dontneed" /\ m[p].live) /\ (m[p].best.id = 0 \/ g.prio >= m[p].best.prio)
Wins(p, g) == ~ (g.intent = "dontneed" /\ m[p].live) /\ Beats(g, m[p].best)

Weigh(p) ==
  LET g == Got(p, WeighOrder)
  IN /\ m[p].pc = "weigh" /\ m[p].b <= Records
     /\ Go(p, IF Skipped(p, WeighOrder, g) THEN NextRecord(m[p])
              ELSE IF m[p].f < Len(WeighOrder) THEN [m[p] EXCEPT !.f = @ + 1, !.got = g]
              ELSE NextRecord(IF Wins(p, g) THEN [m[p] EXCEPT !.best = g] ELSE m[p]))
     /\ Untouched /\ UNCHANGED << clock, left, due >>

Elected(p) == m[p].pc = "weigh" /\ m[p].b > Records

(* splinter_shard_election returns the winner's id and intent,             *)
(* splinter_shard_is_sovereign whether it is the caller.                   *)
Answer(p) ==
  /\ Elected(p) /\ m[p].op = "elect"
  /\ Return(p, m[p].best)
  /\ UNCHANGED << bid, clock, left, due >>

(* splinter_madvise asks for the election again until its shard wins, it   *)
(* may not wait, or its deadline has passed.  The wait ends after 5 ms at  *)
(* the latest, whether the bus rings or not.                               *)
Arm(p) ==
  /\ m[p].pc = "arm"
  /\ Go(p, [m[p] EXCEPT !.pc = "elect", !.end = IF m[p].timeout = Forever THEN 0 ELSE (clock + m[p].timeout) % Span])
  /\ Untouched /\ UNCHANGED << clock, left, due >>

Sovereign(p) ==
  /\ Elected(p) /\ m[p].op = "advise" /\ m[p].best.id = Id[p]
  /\ \E rc \in {"ok", "refused"} : Return(p, rc)     \* posix_madvise
  /\ UNCHANGED << bid, clock, left, due >>

Defer(p) ==
  /\ Elected(p) /\ m[p].op = "advise" /\ m[p].best.id # Id[p] /\ m[p].timeout = 0
  /\ Return(p, "EAGAIN")
  /\ UNCHANGED << bid, clock, left, due >>

TimedOut(p) ==
  /\ Elected(p) /\ m[p].op = "advise" /\ m[p].best.id # Id[p]
  /\ m[p].timeout \notin {0, Forever} /\ clock >= m[p].end
  /\ Return(p, "ETIMEDOUT")
  /\ UNCHANGED << bid, clock, left, due >>

(* Broken: the deadline moves on.                                          *)
BrokenWaitOn(p) ==
  /\ Elected(p) /\ m[p].op = "advise" /\ m[p].best.id # Id[p] /\ m[p].timeout # 0
  /\ m[p].timeout = Forever \/ clock < m[p].end
  /\ Go(p, [m[p] EXCEPT !.pc = "elect", !.end = IF m[p].timeout = Forever THEN 0 ELSE (clock + m[p].timeout) % Span])
  /\ Untouched /\ UNCHANGED << clock, left, due >>

Wait(p) ==
  /\ Elected(p) /\ m[p].op = "advise" /\ m[p].best.id # Id[p] /\ m[p].timeout # 0
  /\ m[p].timeout = Forever \/ clock < m[p].end
  /\ Go(p, [m[p] EXCEPT !.pc = "elect"])
  /\ Untouched /\ UNCHANGED << clock, left, due >>

(* splinter_shard_table_snapshot copies the records after the election, and *)
(* tells their age by the clock it read before it.                          *)
CopyOrder == << "id", "pid", "intent", "prio", "dur", "at" >>
AgeOrder  == << "at", "dur" >>

Snap(p) ==
  /\ Elected(p) /\ m[p].op = "snapshot"
  /\ Go(p, [m[p] EXCEPT !.pc = "copy", !.b = 1, !.f = 1, !.got = Empty])
  /\ Untouched /\ UNCHANGED << clock, left, due >>

Row(p, expired) == [bid |-> m[p].got, expired |-> expired,
                    sovereign |-> m[p].got.id # 0 /\ m[p].got.id = m[p].best.id]
Emit(p, expired) ==
  Go(p, [m[p] EXCEPT !.pc = "copy", !.b = @ + 1, !.f = 1, !.got = Empty, !.age = Empty,
                     !.rows = Append(@, Row(p, expired))])

Copy(p) ==
  /\ m[p].pc = "copy" /\ m[p].b <= Records
  /\ Go(p, IF m[p].f < Len(CopyOrder) THEN [m[p] EXCEPT !.f = @ + 1, !.got = Got(p, CopyOrder)]
           ELSE [m[p] EXCEPT !.pc = "age", !.f = 1, !.got = Got(p, CopyOrder)])
  /\ Untouched /\ UNCHANGED << clock, left, due >>

Aged(p) == [m[p].age EXCEPT ![AgeOrder[m[p].f]] = bid[m[p].b][AgeOrder[m[p].f]]]

BrokenAge(p) ==
  /\ m[p].pc = "age"
  /\ IF m[p].got.id = 0 THEN Emit(p, TRUE)
     ELSE IF m[p].f < Len(AgeOrder) THEN Go(p, [m[p] EXCEPT !.f = @ + 1, !.age = Aged(p)])
     ELSE Emit(p, Expired(Aged(p), clock))
  /\ Untouched /\ UNCHANGED << clock, left, due >>

Age(p) ==
  /\ m[p].pc = "age"
  /\ IF m[p].got.id = 0 THEN Emit(p, TRUE)
     ELSE IF m[p].f < Len(AgeOrder) THEN Go(p, [m[p] EXCEPT !.f = @ + 1, !.age = Aged(p)])
     ELSE Emit(p, Expired(Aged(p), m[p].began))
  /\ Untouched /\ UNCHANGED << clock, left, due >>

Shown(p) ==
  /\ m[p].pc = "copy" /\ m[p].b > Records
  /\ Return(p, "ok")
  /\ UNCHANGED << bid, clock, left, due >>

-----------------------------------------------------------------------------
(* A killed process leaves its record as it is; it starts again knowing    *)
(* nothing.                                                                *)
Kill(p) ==
  /\ p \in Mortal /\ m[p].pc # "idle"
  /\ Return(p, "killed")
  /\ due' = [due EXCEPT ![p] = IF m[p].op \in {"claim", "rebid", "release"} THEN Lost ELSE @]
  /\ UNCHANGED << bid, clock, left >>

(* The clock.  Bound: it passes Latest only when no call is left that may  *)
(* still read it into the table or into a deadline.                        *)
Tick ==
  /\ clock < Horizon
  /\ clock >= Latest => \A p \in Procs : m[p].pc \notin {"find", "grab", "store", "arm"}
  /\ clock' = clock + 1
  /\ UNCHANGED << bid, m, left, due, same >>

Steps(p) ==
  \/ Find(p) \/ NotFound(p) \/ Grab(p) \/ Full(p) \/ Store(p)
  \/ Elect(p) \/ Look(p) \/ Weigh(p) \/ Answer(p)
  \/ Arm(p) \/ Sovereign(p) \/ Defer(p) \/ TimedOut(p) \/ Wait(p)
  \/ Snap(p) \/ Copy(p) \/ Age(p) \/ Shown(p)

Start(p) == Claim(p) \/ Rebid(p) \/ Release(p) \/ Election(p) \/ Advise(p)

ShardInit ==
  /\ \E scene \in Scenes : bid = scene.table /\ left = scene.turns
  /\ clock = 0
  /\ m = [p \in Procs |-> Idle]
  /\ due = [p \in Procs |-> IF Mine(p) = {} THEN Empty ELSE bid[CHOOSE b \in Mine(p) : TRUE]]
  /\ same = [p \in Procs |-> {}]

ShardNext == Tick \/ \E p \in Procs : Start(p) \/ Steps(p) \/ Kill(p)
ShardSpec == ShardInit /\ [][ShardNext]_shardVars

(* Time passes, and a process in a call is scheduled.                      *)
ShardFair == ShardSpec /\ WF_shardVars(Tick) /\ \A p \in Procs : WF_shardVars(Steps(p))

-----------------------------------------------------------------------------
Operations == {"none", "claim", "rebid", "release", "elect", "snapshot", "advise"}
Frame == [pc : {"idle", "find", "grab", "store", "elect", "look", "weigh", "arm", "copy", "age"},
          op : Operations, b : 1 .. Records + 1, f : 1 .. Len(WeighOrder), arg : Bid,
          timeout : Nat \cup {Forever}, end : Nat, began : 0 .. Horizon, now : 0 .. Horizon,
          got : Bid, live : BOOLEAN, best : Bid, age : Bid,
          rows : Seq([bid : Bid, expired : BOOLEAN, sovereign : BOOLEAN])]

ShardTypeOK ==
  /\ bid \in [Table -> Bid] /\ clock \in 0 .. Horizon
  /\ m \in [Procs -> Frame] /\ left \in [Procs -> Nat]
  /\ due \in [Procs -> Bid \cup {Lost}] /\ same \in [Procs -> SUBSET Table]

(* No shard holds two records, however claims, releases and restarts of    *)
(* several shards interleave: a shard that is in the table twice would     *)
(* release one record and keep bidding with the other.                     *)
OneRecord == \A b, c \in Table : bid[b].id = bid[c].id /\ b # c => bid[b].id = 0

(* Between two calls of a shard, the table holds exactly what its last     *)
(* completed claim or rebid asked for, and nothing once it has released:   *)
(* no other shard's claim, release or restart ever writes into its record. *)
TableTrue ==
  \A p \in Procs : m[p].pc = "idle" /\ due[p] # Lost =>
    IF due[p] = Empty THEN \A b \in Table : bid[b].id # Id[p]
                      ELSE \E b \in Table : bid[b] = due[p]

Live(b, now)     == bid[b].id # 0 /\ ~ Expired(bid[b], now)
Guarded(b, now)  == Live(b, now) /\ bid[b].intent \in Protective

(* The election is a function of the table: when nobody stored to it since *)
(* the clock was read, the winner is the live bid that beats all others,   *)
(* DONTNEED bids counting only when no protective bid is live.             *)
Runs(now) == {b \in Table : Live(b, now) /\ (bid[b].intent = "dontneed" => \A c \in Table : ~ Guarded(c, now))}
StillElection ==
  \A p \in Procs : Elected(p) /\ same[p] = Table =>
    IF Runs(m[p].now) = {} THEN m[p].best = Empty
    ELSE \E b \in Runs(m[p].now) : /\ m[p].best = bid[b]
                                  /\ \A c \in Runs(m[p].now) \ {b} : ~ Beats(bid[c], bid[b])

(* The soft bumper, while others write: a protective bid that is live and  *)
(* is not stored to during the election keeps DONTNEED from winning it.    *)
Bumper ==
  \A p \in Procs : Elected(p) /\ (\E b \in same[p] : Guarded(b, m[p].now)) => m[p].best.intent # "dontneed"

(* While others write: no live bid that is left alone during the election  *)
(* loses it to a lesser one.                                               *)
Outbid ==
  \A p \in Procs : Elected(p) =>
    \A b \in same[p] : Live(b, m[p].now) /\ bid[b].intent # "dontneed" =>
      m[p].best.id # 0 /\ (m[p].best = bid[b] \/ ~ Beats(bid[b], m[p].best))

(* The rows of a snapshot agree with each other: a row that was there when *)
(* the call began and was left alone since is not at once sovereign and    *)
(* expired, though the two flags come from two readings of the clock.      *)
SovereignLive ==
  \A p \in Procs : \A b \in DOMAIN m[p].rows :
    b \in same[p] /\ m[p].rows[b].bid.at <= m[p].began => ~ (m[p].rows[b].sovereign /\ m[p].rows[b].expired)

(* A call of splinter_madvise returns, whatever the others bid: when it    *)
(* has a deadline; and when it has none, if its own bid lasts (Span - 1    *)
(* here) and the others' run out, so that its turn comes.                  *)
Lasting(p) == due[p].dur = Span - 1 /\ \A q \in Procs \ {p} : due[q].dur < Span - 1
Waiting(p) == m[p].op = "advise" /\ (m[p].timeout = Forever => Lasting(p))
AdviseReturns == \A p \in Procs : Waiting(p) ~> ~ Waiting(p)

-----------------------------------------------------------------------------
(* What the steps preserve, from which the invariants above follow.        *)

(* Where a call may be, and the bounds of its two counters there.  The     *)
(* clock stands at Latest while a call may still stamp a record with it.   *)
Place(p) ==
  /\ m[p].pc \in {"find", "grab", "store", "arm"} => clock <= Latest
  /\ m[p].pc = "find" => m[p].op \in {"claim", "rebid", "release", "advise"} /\ m[p].b = 1 /\ m[p].f = 1
  /\ m[p].pc = "grab" => m[p].op = "claim" /\ m[p].f = 1
  /\ m[p].pc = "store" => /\ m[p].b \in Table /\ m[p].op \in {"claim", "rebid", "release"}
                          /\ m[p].f <= Len(StoreOrder(m[p].op))
  /\ m[p].pc = "look" => m[p].b \in Table /\ m[p].f <= Len(LookOrder)
  /\ m[p].pc = "copy" => m[p].f <= Len(CopyOrder)
  /\ m[p].pc = "age" => m[p].b \in Table /\ m[p].f <= Len(AgeOrder)
  /\ m[p].op \in {"claim", "rebid"} => m[p].arg.id = Id[p]
  /\ m[p].op = "release" => m[p].arg = Empty

(* What a shard knows of its own record: nobody else writes there.         *)
Settled(p) == IF due[p] = Empty THEN Mine(p) = {}
              ELSE due[p].id = Id[p] /\ \E b \in Table : bid[b] = due[p]
Owned(p) ==
  /\ m[p].pc = "grab" => Mine(p) = {}
  /\ m[p].pc = "store" =>
       /\ bid[m[p].b].id = Id[p]
       /\ \A i \in 1 .. m[p].f - 1 : LET field == StoreOrder(m[p].op)[i]
                                     IN bid[m[p].b][field] = m[p].arg[field]
  /\ m[p].pc # "store" /\ due[p] # Lost => Settled(p)

(* What an election has read: of the records left alone since it began.    *)
Read(p, order) ==
  m[p].b \in same[p] => \A i \in 1 .. m[p].f - 1 : m[p].got[order[i]] = bid[m[p].b][order[i]]
Considered(p) ==
  m[p].b \in same[p] => /\ m[p].f > 1 => bid[m[p].b].id # 0
                        /\ m[p].f > 3 => ~ Expired(bid[m[p].b], m[p].now)

PassOne(p) ==
  m[p].pc = "look" =>
    /\ Read(p, LookOrder) /\ Considered(p)
    /\ m[p].live = FALSE /\ m[p].best = Empty
    /\ \A c \in same[p] : c < m[p].b => ~ Guarded(c, m[p].now)

Counts(p, c) == Live(c, m[p].now) /\ (bid[c].intent = "dontneed" => ~ m[p].live)
PassTwo(p) ==
  m[p].pc = "weigh" =>
    /\ Read(p, WeighOrder) /\ Considered(p)
    /\ m[p].f > 1 => m[p].got.id # 0 /\ \A c \in same[p] : bid[c].id = m[p].got.id => c = m[p].b
    /\ (\E c \in same[p] : Guarded(c, m[p].now)) => m[p].live
    /\ same[p] = Table /\ m[p].live => \E c \in Table : Guarded(c, m[p].now)
    /\ m[p].live => m[p].best.intent # "dontneed"
    /\ \A c \in same[p] : c < m[p].b /\ Counts(p, c) =>
         m[p].best.id # 0 /\ (m[p].best = bid[c] \/ ~ Beats(bid[c], m[p].best))
    /\ same[p] = Table => m[p].best = Empty \/ \E c \in Runs(m[p].now) : m[p].best = bid[c]

(* The winner a snapshot marks its rows by, and the rows it has copied.    *)
Winner(p) ==
  /\ m[p].began <= clock
  /\ m[p].pc \in {"look", "weigh", "copy", "age"} => m[p].began <= m[p].now
  /\ m[p].pc \in {"weigh", "copy", "age"} /\ m[p].best.id # 0 =>
       \A c \in same[p] : bid[c].id = m[p].best.id => m[p].best = bid[c] /\ ~ Expired(bid[c], m[p].now)
Copied(p) ==
  /\ m[p].pc \notin {"copy", "age"} => m[p].rows = << >>
  /\ m[p].pc = "copy" => Read(p, CopyOrder)
  /\ m[p].pc = "age" /\ m[p].b \in same[p] =>
       m[p].got = bid[m[p].b] /\ (m[p].f > 1 => m[p].age.at = bid[m[p].b].at)
  /\ m[p].pc \in {"copy", "age"} =>
       /\ Len(m[p].rows) = m[p].b - 1
       /\ \A c \in same[p] : c < m[p].b =>
            /\ m[p].rows[c].bid = bid[c]
            /\ m[p].rows[c].sovereign =>
                 /\ bid[c].id # 0 /\ bid[c].id = m[p].best.id
                 /\ m[p].rows[c].expired => Expired(bid[c], m[p].began)

Places   == \A p \in Procs : Place(p)
Holds    == OneRecord /\ \A p \in Procs : Owned(p)
Counting == \A p \in Procs : PassOne(p) /\ PassTwo(p) /\ Winner(p) /\ Copied(p)

=============================================================================
