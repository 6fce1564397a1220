----------------------------- MODULE LaneHarness -----------------------------
(***************************************************************************)
(* The lane stress test of splinter_chi_sao.c as a client of the slot      *)
(* table: the main thread fills the store, deals the keys to its writers   *)
(* in lanes that do not overlap, starts the threads, and ends them after   *)
(* some time.  Readers sample all keys and try again where a key is busy.  *)
(*                                                                         *)
(* A thread is a process of SlotStore.  The counters, the printing and the *)
(* failures of malloc and pthread_create are left out.                     *)
(***************************************************************************)
EXTENDS SlotStoreProps, Functions

CONSTANTS
  Main,     \* the main thread
  Writers,  \* the writer threads, in order
  Readers,  \* the reader threads
  KeySeq    \* sh->keys

ASSUME HarnessAssumption ==
  /\ Writers \in Seq(Procs) /\ Readers \subseteq Procs /\ Main \in Procs
  /\ KeySeq \in Seq(Keys) /\ Writers # << >> /\ Len(KeySeq) >= Len(Writers)

VARIABLES
  running,  \* what the threads look at before each call
  t,        \* by thread: where it is, the index of its key, errno
  observed  \* by reader and key: the last value it was given

harnessVars == << running, t, observed >>
laneVars    == << vars, harnessVars >>

(* Broken: each lane ends one key late. *)
BrokenLane(j) ==
  LET base == Len(KeySeq) \div Len(Writers)
  IN  (j - 1) * base + 1 .. IF j = Len(Writers) THEN Len(KeySeq) ELSE j * base + 1

(* The lane of the j-th writer; the last takes what is left over.          *)
Lane(j) ==
  LET base == Len(KeySeq) \div Len(Writers)
  IN  (j - 1) * base + 1 .. IF j = Len(Writers) THEN Len(KeySeq) ELSE j * base

IsWriter(p) == \E j \in DOMAIN Writers : Writers[j] = p
LaneOf(p)   == Lane(CHOOSE j \in DOMAIN Writers : Writers[j] = p)
First(p)    == CHOOSE i \in LaneOf(p) : \A k \in LaneOf(p) : i <= k

To(p, l)     == t' = [t EXCEPT ![p].at = l]
CallOn(p, o) == \E n \in Lens : Begin(p, [op |-> o, key |-> KeySeq[t'[p].i]], n)
Back(p)      == pc[p] = "idle" /\ UNCHANGED vars

-----------------------------------------------------------------------------
(* The main thread *)

(* prepopulate: a value for every key. *)
Seed ==
  /\ t[Main].at = "seed" /\ t[Main].i < Len(KeySeq)
  /\ t' = [t EXCEPT ![Main].i = @ + 1]
  /\ CallOn(Main, "set")
  /\ UNCHANGED << running, observed >>

Seeded ==
  /\ t[Main].at = "seed" /\ t[Main].i = Len(KeySeq) /\ Back(Main)
  /\ To(Main, "create")
  /\ UNCHANGED << running, observed >>

(* The writers are started in their order, then the readers.               *)
Create(p) ==
  /\ t[Main].at = "create" /\ t[p].at = "none"
  /\ IF IsWriter(p)
       THEN \A j \in DOMAIN Writers : t[Writers[j]].at = "none" => \E i \in 1 .. j : Writers[i] = p
       ELSE p \in Readers /\ \A j \in DOMAIN Writers : t[Writers[j]].at # "none"
  /\ t' = [t EXCEPT ![p].at = "loop", ![p].i = IF IsWriter(p) THEN First(p) ELSE 1]
  /\ UNCHANGED << vars, running, observed >>

(* The duration is over. *)
Stop ==
  /\ t[Main].at = "create" /\ \A p \in Procs : t[p].at # "none"
  /\ running' = FALSE
  /\ To(Main, "join")
  /\ UNCHANGED << vars, observed >>

Join ==
  /\ t[Main].at = "join" /\ \A p \in Procs \ {Main} : t[p].at = "ended"
  /\ To(Main, "ended")
  /\ UNCHANGED << vars, running, observed >>

-----------------------------------------------------------------------------
(* writer_main: sets the keys of its lane, over and over. *)

Write1(p) ==
  /\ IsWriter(p) /\ t[p].at = "loop" /\ running
  /\ To(p, "set")
  /\ CallOn(p, "set")
  /\ UNCHANGED << running, observed >>

Written(p) ==
  /\ t[p].at = "set" /\ Back(p)
  /\ t' = [t EXCEPT ![p].at = "loop", ![p].i = IF @ + 1 \in LaneOf(p) THEN @ + 1 ELSE First(p)]
  /\ UNCHANGED << running, observed >>

-----------------------------------------------------------------------------
(* reader_main: gets any key, and the same one again after EAGAIN.         *)

Sample(p) ==
  /\ p \in Readers /\ t[p].at = "loop" /\ running
  /\ \E i \in DOMAIN KeySeq : t' = [t EXCEPT ![p].at = "get", ![p].i = i]
  /\ CallOn(p, "get")
  /\ UNCHANGED << running, observed >>

Retry(p) ==
  /\ t[p].at = "retry" /\ running
  /\ To(p, "get")
  /\ CallOn(p, "get")
  /\ UNCHANGED << running, observed >>

(* A get that misses leaves errno as it was, and is tried again if it was  *)
(* EAGAIN. *)
Read1(p) ==
  /\ t[p].at = "get" /\ Back(p)
  /\ LET errno == IF ret[p].rc = "busy" THEN "EAGAIN" ELSE t[p].errno IN
       t' = [t EXCEPT ![p].errno = errno,
                      ![p].at = IF ret[p].rc # "ok" /\ errno = "EAGAIN" THEN "retry" ELSE "loop"]
  /\ observed' = IF ret[p].rc = "ok" THEN [observed EXCEPT ![p][ret[p].key] = ret[p].buf] ELSE observed
  /\ UNCHANGED running

-----------------------------------------------------------------------------
Leave(p) ==
  /\ t[p].at \in {"loop", "retry"} /\ ~ running
  /\ To(p, "ended")
  /\ UNCHANGED << vars, running, observed >>

Thread(p) == Create(p) \/ Write1(p) \/ Written(p) \/ Sample(p) \/ Retry(p) \/ Read1(p) \/ Leave(p)

HarnessInit ==
  /\ Init
  /\ running = TRUE
  /\ t = [p \in Procs |-> [at |-> IF p = Main THEN "seed" ELSE "none", i |-> 0, errno |-> "none"]]
  /\ observed = [p \in Readers |-> [k \in Keys |-> << >>]]

HarnessNext ==
  \/ Seed \/ Seeded \/ Stop \/ Join
  \/ \E p \in Procs : Thread(p) \/ (Step(p) /\ UNCHANGED harnessVars)

HarnessSpec == HarnessInit /\ [][HarnessNext]_laneVars

-----------------------------------------------------------------------------
(* "Each writer owns an exclusive, non-overlapping slice of the keyspace   *)
(* so write-write contention is zero by construction": no set of a writer  *)
(* fails, and until its next one the key's slot holds all of the value.    *)
LanesHold ==
  \A j \in DOMAIN Writers :
    LET p == Writers[j] IN
    pc[p] = "idle" /\ ret[p].op = "set" /\ ret[p].rc # "none" => ret[p].rc = "ok" /\ HoldsSet(p)

(* A reader is never given a mixture of two values, and never one older    *)
(* than a value of that key it has been given before.  It may miss a key   *)
(* that stands: get passes over the key's slot, but only while a set has   *)
(* the slot's epoch odd, which is where the key is wiped. *)
Older(b, c) == b # << >> /\ b[1][2] = c[1][2] /\ b[1][3] < c[1][3]

GivenTrue(p) ==
  ret[p].rc = "ok" =>
    LET b == ret[p].buf
        k == ret[p].key
    IN  /\ b # << >> /\ \A c \in DOMAIN b : b[c] = b[1]
        /\ b[1] \in Version /\ b[1][1] = k
        /\ ~ Older(observed[p][k], b)
        /\ observed[p][k] # << >> /\ observed[p][k][1][2] # Main => b[1][2] # Main

PassesOver(p) == call[p].i < call'[p].i /\ S[Phys(p)].hash = call[p].key

ReadsAdvance ==
  [][\A p \in Readers :
       /\ t[p].at = "get" /\ t'[p].at # "get" => GivenTrue(p)
       /\ PassesOver(p) => Odd(S[Phys(p)].epoch)]_laneVars

-----------------------------------------------------------------------------
(* What the steps preserve: the inductive invariant behind OneSlotPerKey,  *)
(* LanesHold and ReadsAdvance *)

(* The weak CAS of set fails only where the epoch has moved.  So it is     *)
(* where it compiles to one locked instruction (x86-64); a pair of load    *)
(* and store exclusives (aarch64 without LSE) may fail for nothing.        *)
StrongCAS == SpuriousCAS = FALSE

(* The harness as its defaults have it: a fresh store, more slots than     *)
(* keys, no key twice, threads that either write or read, nobody killed.   *)
Dealt ==
  /\ Mortal = {}
  /\ \A s \in SlotIds : Layout[s] = NoKey
  /\ \A p \in Procs : Calls[p] = [op : {"set", "get"}, key : Keys]
  /\ IsInjective(Writers) /\ IsInjective(KeySeq) /\ Len(KeySeq) <= Slots
  /\ \A j \in DOMAIN Writers : Writers[j] # Main /\ Writers[j] \notin Readers

Seeding == t[Main].at = "seed"

(* Where each thread is, and what it has called. *)
Placed(p) ==
  /\ t[p].at \in (IF p = Main THEN {"seed", "create", "join", "ended"}
                              ELSE {"none", "loop", "set", "get", "retry", "ended"})
  /\ t[p].i \in 0 .. Len(KeySeq)
  /\ p # Main /\ Seeding => t[p].at = "none"
  /\ t[p].at = "none" => ret[p].rc = "none"
  /\ t[p].at \in {"seed", "set", "get"} \/ pc[p] = "idle"
  /\ t[p].at \in {"set", "get", "retry"} => t[p].i > 0
  /\ IsWriter(p) /\ t[p].at \in {"loop", "set"} => t[p].i \in LaneOf(p)
  /\ t[p].at = "set" => IsWriter(p)
  /\ t[p].at \in {"get", "retry"} => p \in Readers /\ p # Main
  /\ InCall(p) => /\ t[p].i \in DOMAIN KeySeq
                  /\ Op(p) = (IF t[p].at = "get" THEN "get" ELSE "set")
                  /\ call[p].key = KeySeq[t[p].i]

(* The chain of k, and its d-th slot. *)
Chain(k, d) == (Home[k] + d) % Slots

Stands(k) == \E s \in SlotIds : S[s].hash = k

(* A set that has wiped the key of slot s. *)
Wiping(s) == \E p \in Procs : pc[p] = "link" /\ At(p) = s

(* The table as the harness makes it: hash and key agree but for a wiped   *)
(* key, a key is in one slot and no slot before it on its chain is free,   *)
(* and the keys set so far are there. *)
Tabled ==
  /\ \A s \in SlotIds : S[s].hash \in {NoKey} \cup {KeySeq[i] : i \in DOMAIN KeySeq}
  /\ \A s \in SlotIds : S[s].key # S[s].hash => S[s].key = NoKey /\ Wiping(s)
  /\ \A r, s \in SlotIds : S[r].hash = S[s].hash /\ S[s].hash # NoKey => r = s
  /\ \A k \in Keys, d \in 0 .. Slots - 1 : S[Chain(k, d)].hash = k =>
       \A i \in 0 .. d : S[Chain(k, i)].hash # NoKey
  /\ \A i \in DOMAIN KeySeq :
       ~ Seeding \/ i < t[Main].i \/ (i = t[Main].i /\ pc[Main] = "idle") => Stands(KeySeq[i])

(* How far the call of p has come on its chain: a set has passed neither   *)
(* its key nor a free slot, *)
Walks(p) ==
  InCall(p) =>
    /\ call[p].i \in 0 .. Slots /\ ~ call[p].busy
    /\ Op(p) = "set" => \A d \in 0 .. call[p].i - 1 :
                          S[Chain(call[p].key, d)].hash \notin {NoKey, call[p].key}
    /\ pc[p] # "probe" => call[p].i < Slots /\ At(p) = Chain(call[p].key, call[p].i)

(* and what a call has found there: its key, or in the seeding a free slot. *)
Hits(p) ==
  InCall(p) /\ pc[p] # "probe" =>
    /\ Slot(p).hash = call[p].key
         \/ (Seeding /\ Slot(p).hash = NoKey /\ pc[p] \in {"found", "cas", "scrub", "fill", "blank", "link"})
    /\ pc[p] = "cas" => call[p].e = Slot(p).epoch
    /\ Op(p) = "set" /\ pc[p] \in {"pulse", "epoch", "dirty", "bell"} =>
         /\ Slot(p).val_len = call[p].n
         /\ \A c \in 1 .. call[p].n : Slot(p).val[c] = Ver(p)

(* Between two sets of a writer. *)
Rests(p) ==
  IsWriter(p) /\ pc[p] = "idle" /\ ret[p].op = "set" /\ ret[p].rc # "none" =>
    /\ ret[p].rc = "ok"
    /\ \E i \in LaneOf(p) : ret[p].key = KeySeq[i]
    /\ \A s \in SlotIds : S[s].hash = ret[p].key =>
         S[s].val_len = ret[p].n /\ \A c \in 1 .. ret[p].n : S[s].val[c] = << ret[p].key, p, left[p] >>

Places == {"seed", "create", "join", "none", "loop", "set", "get", "retry", "ended"}

Threads == t \in [Procs -> [at : Places, i : Nat, errno : {"none", "EAGAIN"}]]

LaneInv ==
  /\ Threads /\ Tabled
  /\ \A p \in Procs : Placed(p) /\ Walks(p) /\ Hits(p) /\ Rests(p)

(* Every version in the table is of a call that has begun. *)
Past(x) ==
  /\ x \in Keys \X Procs \X Nat /\ left[x[2]] <= x[3]
  /\ InCall(x[2]) /\ pc[x[2]] \in {"probe", "found", "cas", "scrub"} => left[x[2]] < x[3]

Cells(s) == {S[s].val[c] : c \in 1 .. S[s].val_len} \ {Zero}

(* A slot that nobody writes holds one value of its key.                   *)
Settled(s) ==
  S[s].hash # NoKey =>
    /\ \A x \in Cells(s) : x[1] = S[s].hash /\ Past(x)
    /\ ~ Odd(S[s].epoch) =>
         S[s].val_len > 0 /\ \A c \in 1 .. S[s].val_len : S[s].val[c] = S[s].val[1] /\ S[s].val[c] # Zero

(* A value read is not newer than what may still be read.                  *)
Follows(o, x) == ~ (o[2] = x[2] /\ o[3] < x[3]) /\ (o[2] # Main => x[2] # Main)

Seen(o, k) ==
  /\ o[1] = k /\ Past(o)
  /\ \A s \in SlotIds : S[s].hash = k => \A x \in Cells(s) : Follows(o, x)

Reads(p) ==
  p \in Readers =>
    /\ \A k \in Keys : observed[p][k] # << >> => ~ Seeding /\ Seen(observed[p][k][1], k)
    /\ t[p].at = "get" /\ pc[p] = "idle" =>
         /\ ret[p].op = "get" /\ ret[p].key \in Keys
         /\ ret[p].rc = "ok" =>
              LET b == ret[p].buf
                  o == observed[p][ret[p].key]
              IN  /\ b # << >> /\ \A c \in DOMAIN b : b[c] = b[1]
                  /\ Seen(b[1], ret[p].key)
                  /\ o # << >> => Follows(o[1], b[1])

ReadInv ==
  /\ observed \in [Readers -> [Keys -> Seq(Cell)]]
  /\ \A s \in SlotIds : Settled(s)
  /\ \A p \in Procs : Reads(p)

=============================================================================
