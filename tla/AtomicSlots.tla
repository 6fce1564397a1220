---------------------------- MODULE AtomicSlots ----------------------------
(***************************************************************************)
(* What a caller of splinter.c may believe of the slot table: a slot is    *)
(* one register with its key, value, length and embedding.  A call that    *)
(* writes changes it once and at once, some time between the call and its  *)
(* return; a call that reads returns what the register holds at such a     *)
(* moment; a call may also give up, and then it changed nothing.  The      *)
(* calls that mark a slot or watch it change no register at all.           *)
(*                                                                         *)
(* No epoch, no probe and no copy in pieces: those are how SlotStore       *)
(* implements this (SlotRegisters).                                        *)
(***************************************************************************)
EXTENDS Naturals, Sequences

CONSTANTS Procs, Keys, NoKey, Slots, MaxLen, Lens, Budget, Layout, Boot, Zero

VARIABLES
  reg,   \* reg[s]: the register of slot s
  job,   \* job[p]: the call p is in, and how far it got
  ans,   \* ans[p]: what p's last call returned
  left   \* how many calls p may still make

avars == << reg, job, ans, left >>

Bank     == 0 .. Slots - 1
Writes   == {"set", "append", "setemb", "bump"}
Reads    == {"get", "getemb"}
Asides   == {"snapshot", "poll", "label", "unlabel", "watch", "unwatch", "pulsekey"}
GivesUp  == {"busy", "nospace", "miss"}

Out      == [op |-> "get", key |-> NoKey, n |-> 0, at |-> "out"]
NoAnswer == [rc |-> "none", copy |-> << >>]

(* The mark of the call p is in: what its write can be told by. *)
Mark(p) == << job[p].key, p, left[p] >>

(* The first cells of a value, and a value with some cells written over. *)
First(v, n)      == [c \in 1 .. n |-> v[c]]
Put(v, C, x)     == [c \in 1 .. MaxLen |-> IF c \in C THEN x ELSE v[c]]
Both(x)          == [h \in 1 .. 2 |-> x]

Called(p, op) == job[p].at = "called" /\ job[p].op = op
Effect(p, to) == job' = [job EXCEPT ![p].at = to, ![p].n = 0] /\ UNCHANGED << ans, left >>
Back(p, a)    == job' = [job EXCEPT ![p] = Out] /\ ans' = [ans EXCEPT ![p] = a]
                 /\ UNCHANGED << reg, left >>

Call(p) ==
  /\ job[p].at = "out" /\ left[p] > 0
  /\ left' = [left EXCEPT ![p] = @ - 1]
  /\ \E op \in Writes \cup Reads \cup Asides \cup {"purge"}, k \in Keys, n \in Lens :
       job' = [job EXCEPT ![p] =
                [op |-> op, key |-> k, at |-> "called",
                 n |-> IF op \in {"set", "append"} THEN n ELSE 0]]
  /\ ans' = [ans EXCEPT ![p] = NoAnswer]
  /\ UNCHANGED reg

(* A set takes a free register or its key's, never one of another key.     *)
(* What lies past the new length is kept or scrubbed, and the embedding    *)
(* kept or dropped.                                                        *)
Set(p, s) ==
  LET r == reg[s] IN
  /\ Called(p, "set") /\ r.key \in {NoKey, job[p].key}
  /\ Effect(p, "done")
  /\ \E v \in {r.val, Put(r.val, 1 .. MaxLen, Zero)}, e \in {r.emb, Both(Zero)} :
       reg' = [reg EXCEPT ![s] =
                [key |-> job[p].key, len |-> job[p].n,
                 val |-> Put(v, 1 .. job[p].n, Mark(p)), emb |-> e]]

(* Two appends never take the same cells. *)
Extend(p, s) ==
  LET r == reg[s] IN
  /\ Called(p, "append") /\ r.key = job[p].key
  /\ r.len + job[p].n <= MaxLen
  /\ Effect(p, "done")
  /\ reg' = [reg EXCEPT ![s].len = @ + job[p].n,
                        ![s].val = Put(@, r.len + 1 .. r.len + job[p].n, Mark(p))]

Refuse(p, s) ==
  /\ Called(p, "append") /\ reg[s].key = job[p].key
  /\ reg[s].len + job[p].n > MaxLen
  /\ Effect(p, "full")
  /\ UNCHANGED reg

Embed(p, s) ==
  /\ Called(p, "setemb") /\ reg[s].key = job[p].key
  /\ Effect(p, "done")
  /\ reg' = [reg EXCEPT ![s].emb = Both(Mark(p))]

Bump(p, s) ==
  /\ Called(p, "bump") /\ reg[s].key = job[p].key
  /\ Effect(p, "done")
  /\ UNCHANGED reg

(* A purge goes from slot to slot, and scrubs what no reader gets to see. *)
Purge(p, s) ==
  /\ Called(p, "purge")
  /\ reg' = [reg EXCEPT ![s].val =
              Put(@, IF reg[s].key = NoKey THEN 1 .. MaxLen
                                           ELSE reg[s].len + 1 .. MaxLen, Zero)]
  /\ UNCHANGED << job, ans, left >>

Get(p, s) ==
  /\ Called(p, "get") /\ reg[s].key = job[p].key
  /\ Back(p, [rc |-> "ok", copy |-> First(reg[s].val, reg[s].len)])

GetEmbedding(p, s) ==
  /\ Called(p, "getemb") /\ reg[s].key = job[p].key
  /\ Back(p, [rc |-> "ok", copy |-> reg[s].emb])

(* A call that has had its effect says so, *)
Return(p) ==
  \/ job[p].at = "done" /\ Back(p, [rc |-> "ok", copy |-> << >>])
  \/ job[p].at = "full" /\ Back(p, [rc |-> "toolong", copy |-> << >>])
  \/ Called(p, "purge") /\ Back(p, [rc |-> "ok", copy |-> << >>])

(* one that is about a slot's labels or watchers, or looks whether it      *)
(* moved, touches no register (nothing is promised of what a snapshot      *)
(* copies),                                                                *)
Aside(p) ==
  /\ job[p].at = "called" /\ job[p].op \in Asides
  /\ \E rc \in {"ok", "timeout"} : Back(p, [rc |-> rc, copy |-> << >>])

(* and one that gives up has had no effect. *)
GiveUp(p) ==
  /\ job[p].at = "called" /\ job[p].op # "purge"
  /\ \E rc \in GivesUp : Back(p, [rc |-> rc, copy |-> << >>])

Register(k) ==
  [key |-> k, len |-> IF k = NoKey THEN 0 ELSE MaxLen, emb |-> Both(Zero),
   val |-> [c \in 1 .. MaxLen |-> IF k = NoKey THEN Zero ELSE << k, Boot, 0 >>]]

Init == /\ reg = [s \in Bank |-> Register(Layout[s])]
        /\ job = [p \in Procs |-> Out]
        /\ ans = [p \in Procs |-> NoAnswer]
        /\ left = Budget

Next == \E p \in Procs :
          \/ Call(p) \/ Return(p) \/ Aside(p) \/ GiveUp(p)
          \/ \E s \in Bank : \/ Set(p, s) \/ Extend(p, s) \/ Refuse(p, s)
                             \/ Embed(p, s) \/ Bump(p, s) \/ Purge(p, s)
                             \/ Get(p, s) \/ GetEmbedding(p, s)

(* A step that changes nothing comes first: TLC is quick to see one.       *)
Spec == Init /\ [][UNCHANGED avars \/ Next]_avars

=============================================================================
