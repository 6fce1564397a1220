---------------------------- MODULE EmbedSidecar ----------------------------
(***************************************************************************)
(* The embedding daemon of splinference.cpp, run against the slot table:   *)
(* it watches the counter of one signal group, scans the keys whose epoch  *)
(* is past the one it last processed, computes a vector from the value     *)
(* each of them holds and writes it to the slot.  A value too long for the *)
(* model gets a diagnostic in its place, with the vector of zeros.         *)
(*                                                                         *)
(* It makes its calls as a process of SlotStore.  Between them it reads    *)
(* the store through splinter_get_epoch and the pointer that               *)
(* splinter_get_raw_ptr returned.  Each of these loads is a step.          *)
(***************************************************************************)
EXTENDS SlotStoreProps

CONSTANTS
  Sidecar,  \* the daemon's process
  Group,    \* the signal group it listens to
  Lane,     \* the key it pulses after each vector ("__lane_dw_2")
  Texts,    \* the keys whose slots are typed VARTEXT
  Exceeded, \* the label of a diagnostic (0x80)
  Modes     \* how it is started: backfill and vector-training, the length
            \* from which a text is too long, the clients that call and
            \* whether they do so before it is listening

ASSUME SidecarAssumption ==
  /\ Sidecar \in Procs /\ Group \in Groups /\ Lane \in Keys /\ Texts \subseteq Keys /\ Exceeded \in Labels
  /\ Modes \subseteq [backfill : BOOLEAN, training : BOOLEAN, ceiling : Nat, callers : SUBSET Procs, early : BOOLEAN]

VARIABLES
  sc,         \* the daemon's locals
  processed,  \* processed_epochs: by key, 0 where it has no entry
  vectors     \* the text behind each vector it has written, in order: none
              \* behind the vector of zeros

sidecarVars == << sc, processed, vectors >>
allVars     == << vars, sidecarVars >>

Clients == Procs \ {Sidecar}

(* splinter_get_epoch: 0 where the key is not found. *)
Epoch(k) == IF k = NoKey \/ Distance(k) = {} THEN 0 ELSE S[Reached(k)].epoch

(* splinter_list: the slots that hold a key and a value. *)
Listed == {s \in SlotIds : S[s].hash # NoKey /\ S[s].val_len > 0}

Next1(T) == CHOOSE s \in T : \A t \in T : s <= t

Go(l)  == sc' = [sc EXCEPT !.pc = l]
Look   == UNCHANGED << vars, processed, vectors >>

(* The scan, or the backfill, goes on with the next key. *)
Drop == sc' = [sc EXCEPT !.pc = sc.of, !.todo = @ \ {sc.at}]

(* needs_embedding: no vector, or the zeros the daemon wrote. *)
Zeroed(v) == v = NoEmbedding \/ \E i \in DOMAIN vectors :
                                  vectors[i].text = << >> /\ \A h \in 1 .. 2 : v[h] = vectors[i].ver

-----------------------------------------------------------------------------
(* Start-up: a backfill processes the texts that have no vector and keeps  *)
(* no record of it.  Then the epochs of the keys that carry a vector are   *)
(* taken as processed (a snapshot waits for an even epoch), and the        *)
(* counter as the last one seen. *)

Backfill ==
  /\ sc.pc = "fill" /\ sc.todo # {}
  /\ LET s == Next1(sc.todo)
         k == S[s].key
     IN  /\ k # NoKey => ~ Odd(S[s].epoch)
         /\ sc' = IF k \in Texts /\ Zeroed(S[s].embedding)
                    THEN [sc EXCEPT !.pc = "epoch", !.at = s, !.key = k]
                    ELSE [sc EXCEPT !.todo = @ \ {s}]
  /\ Look

BackfillDone ==
  /\ sc.pc = "fill" /\ sc.todo = {}
  /\ sc' = [sc EXCEPT !.pc = "baseline", !.of = "scan", !.todo = Listed]
  /\ Look

Baseline ==
  /\ sc.pc = "baseline" /\ sc.todo # {}
  /\ LET s == Next1(sc.todo)
         k == S[s].key
     IN  /\ k # NoKey => ~ Odd(S[s].epoch)
         /\ sc' = [sc EXCEPT !.todo = @ \ {s}]
         /\ processed' = IF k # NoKey /\ ~ Zeroed(S[s].embedding)
                           THEN [processed EXCEPT ![k] = S[s].epoch]
                           ELSE processed
  /\ UNCHANGED << vars, vectors >>

Listen ==
  /\ sc.pc = "baseline" /\ sc.todo = {}
  /\ sc' = [sc EXCEPT !.pc = "wait", !.last = H.signal[Group]]
  /\ Look

-----------------------------------------------------------------------------
(* The main loop *)

Notice ==
  /\ sc.pc = "wait" /\ H.signal[Group] # sc.last
  /\ sc' = [sc EXCEPT !.pc = "list", !.cur = H.signal[Group]]
  /\ Look

List ==
  /\ sc.pc = "list"
  /\ sc' = [sc EXCEPT !.pc = "scan", !.todo = Listed]
  /\ Look

(* A key at or below its processed epoch is passed over. *)
PassOver ==
  /\ sc.pc = "scan" /\ sc.todo # {}
  /\ LET s == Next1(sc.todo)
         k == S[s].key
     IN  /\ k # NoKey => processed[k] >= Epoch(k)
         /\ sc' = [sc EXCEPT !.todo = @ \ {s}]
  /\ Look

Take ==
  /\ sc.pc = "scan" /\ sc.todo # {}
  /\ LET s == Next1(sc.todo)
         k == S[s].key
     IN  /\ k # NoKey /\ processed[k] < Epoch(k)
         /\ sc' = [sc EXCEPT !.pc = "epoch", !.at = s, !.key = k]
  /\ Look

(* Broken: the counter is read after the scan. *)
BrokenEndScan ==
  /\ sc.pc = "scan" /\ sc.todo = {}
  /\ sc' = [sc EXCEPT !.pc = "wait", !.last = H.signal[Group]]
  /\ Look

EndScan ==
  /\ sc.pc = "scan" /\ sc.todo = {}
  /\ sc' = [sc EXCEPT !.pc = "wait", !.last = sc.cur]
  /\ Look

-----------------------------------------------------------------------------
(* process_key *)

(* An odd epoch is a busy writer: the key is skipped. *)
ReadEpoch ==
  /\ sc.pc = "epoch"
  /\ IF Odd(Epoch(sc.key)) THEN Drop
     ELSE sc' = [sc EXCEPT !.pc = "ptr", !.e = Epoch(sc.key)]
  /\ Look

RawPtr ==
  /\ sc.pc = "ptr"
  /\ LET s == Reached(sc.key)
     IN  IF s = Slots \/ S[s].val_len = 0 \/ S[s].epoch # sc.e THEN Drop
         ELSE sc' = [sc EXCEPT !.pc = "text", !.slot = s, !.n = S[s].val_len,
                               !.text = << >>]
  /\ Look

(* The tokenizer reads the value where it lies. *)
Tokenize ==
  /\ sc.pc = "text" /\ Len(sc.text) < sc.n
  /\ sc' = [sc EXCEPT !.text = Append(@, S[sc.slot].val[Len(@) + 1])]
  /\ Look

(* The vector is written if the text still is the key's; a text that is    *)
(* too long has none. *)
Decode ==
  /\ sc.pc = "text" /\ Len(sc.text) = sc.n
  /\ IF Epoch(sc.key) # sc.e THEN Drop
     ELSE sc' = [sc EXCEPT !.pc = IF sc.mode.training THEN "gate" ELSE "commit",
                           !.text = IF sc.n >= sc.mode.ceiling THEN << >> ELSE @]
  /\ Look

(* In vector-training a vector that is there already is left alone; one    *)
(* that cannot be read counts as none. *)
Gate ==
  /\ sc.pc = "gate"
  /\ Begin(Sidecar, [op |-> "getemb", key |-> sc.key], 0)
  /\ Go("gated")
  /\ UNCHANGED << processed, vectors >>

Gated ==
  /\ sc.pc = "gated" /\ pc[Sidecar] = "idle"
  /\ IF ret[Sidecar].rc = "ok" /\ ~ Zeroed(ret[Sidecar].buf) THEN Drop ELSE Go("commit")
  /\ Look

(* splinter_set_embedding with the vector of the text, or with zeros. *)
Commit ==
  /\ sc.pc = "commit"
  /\ Begin(Sidecar, [op |-> "setemb", key |-> sc.key], 0)
  /\ vectors' = Append(vectors, [ver |-> << sc.key, Sidecar, left[Sidecar] - 1 >>,
                                 text |-> sc.text])
  /\ Go(IF sc.text = << >> THEN "marker" ELSE "post")
  /\ UNCHANGED processed

(* mark_context_exceeded: the zeros are followed by the diagnostic, its    *)
(* label and a bump, and the epoch is read after all of them. *)
Marker ==
  /\ sc.pc = "marker" /\ pc[Sidecar] = "idle"
  /\ IF ret[Sidecar].rc = "ok"
       THEN Begin(Sidecar, [op |-> "set", key |-> sc.key], 1) /\ Go("mark") /\ UNCHANGED << processed, vectors >>
       ELSE Drop /\ Look

Stamp ==
  /\ sc.pc = "mark" /\ pc[Sidecar] = "idle"
  /\ IF ret[Sidecar].rc # "ok" THEN Drop /\ Look
     ELSE /\ LET s == Reached(sc.key) IN
               IF s = Slots THEN UNCHANGED << S, H >>
               ELSE /\ S' = [S EXCEPT ![s].bloom = @ \cup {Exceeded}]
                    /\ PulseMasks(S[s].watcher_mask, S[s].bloom \cup {Exceeded})
          /\ Go("bump")
          /\ UNCHANGED << pc, call, ret, left, processed, vectors >>

Bump ==
  /\ sc.pc = "bump"
  /\ Begin(Sidecar, [op |-> "bump", key |-> sc.key], 0)
  /\ Go("marked")
  /\ UNCHANGED << processed, vectors >>

(* The key counts as processed; a backfill only counts it, and a key that  *)
(* is gone by now counts as failed. *)
Record(e) ==
  IF sc.of = "fill" \/ e = 0 THEN Drop /\ UNCHANGED processed
  ELSE processed' = [processed EXCEPT ![sc.key] = e] /\ Go("unlabel")

Marked ==
  /\ sc.pc = "marked" /\ pc[Sidecar] = "idle"
  /\ Record(Epoch(sc.key))
  /\ UNCHANGED << vars, vectors >>

(* Broken: a write that raced the vector goes unnoticed. *)
BrokenProcessed ==
  /\ sc.pc = "post" /\ pc[Sidecar] = "idle"
  /\ ret[Sidecar].rc = "ok"
  /\ Record(Epoch(sc.key))
  /\ UNCHANGED << vars, vectors >>

(* The write moved the epoch by exactly 2, or a writer raced it. *)
Processed ==
  /\ sc.pc = "post" /\ pc[Sidecar] = "idle"
  /\ ret[Sidecar].rc = "ok" /\ Epoch(sc.key) = sc.e + 2
  /\ Record(Epoch(sc.key))
  /\ UNCHANGED << vars, vectors >>

(* Broken: WAITING is cleared although a write raced the vector. *)
BrokenFailed ==
  /\ sc.pc = "post" /\ pc[Sidecar] = "idle"
  /\ ret[Sidecar].rc # "ok" \/ Epoch(sc.key) # sc.e + 2
  /\ Go("unlabel")
  /\ Look

Failed ==
  /\ sc.pc = "post" /\ pc[Sidecar] = "idle"
  /\ ret[Sidecar].rc # "ok" \/ Epoch(sc.key) # sc.e + 2
  /\ Drop
  /\ Look

(* Clear WAITING, *)
Unlabel ==
  /\ sc.pc = "unlabel"
  /\ Begin(Sidecar, [op |-> "unlabel", key |-> sc.key], 0)
  /\ Go("lane")
  /\ UNCHANGED << processed, vectors >>

(* pulse the lane, *)
PulseLane ==
  /\ sc.pc = "lane"
  /\ Begin(Sidecar, [op |-> "pulsekey", key |-> Lane], 0)
  /\ Go("next")
  /\ UNCHANGED << processed, vectors >>

(* and go on. *)
NextKey ==
  /\ sc.pc = "next" /\ pc[Sidecar] = "idle"
  /\ Drop
  /\ Look

Main == Backfill \/ BackfillDone \/ Baseline \/ Listen \/ Notice \/ List \/ PassOver \/ Take
        \/ EndScan \/ ReadEpoch \/ RawPtr \/ Tokenize \/ Decode \/ Gate \/ Gated \/ Commit
        \/ Marker \/ Stamp \/ Bump \/ Marked \/ Processed \/ Failed \/ Unlabel \/ PulseLane \/ NextKey

Listening == sc.of = "scan" /\ sc.pc # "baseline"

Client(p) ==
  /\ \/ p \in sc.mode.callers /\ (Listening \/ sc.mode.early) /\ \E c \in Calls[p], m \in Lens : Begin(p, c, m)
     \/ Step(p)
  /\ UNCHANGED sidecarVars

(* A step of the call the daemon is in. *)
Calling == Step(Sidecar) /\ UNCHANGED sidecarVars

SidecarInit ==
  /\ Init
  /\ \E m \in Modes :
       sc = [pc |-> IF m.backfill THEN "fill" ELSE "baseline", of |-> IF m.backfill THEN "fill" ELSE "scan",
             mode |-> m, cur |-> 0, last |-> 0, todo |-> Listed, at |-> 0,
             key |-> NoKey, e |-> 0, slot |-> 0, n |-> 0, text |-> << >>]
  /\ processed = [k \in Keys |-> 0]
  /\ vectors = << >>

SidecarNext == Main \/ Calling \/ \E p \in Clients : Client(p)

SidecarSpec == SidecarInit /\ [][SidecarNext]_allVars

(* The daemon and every call that has begun are scheduled. *)
SidecarFair ==
  /\ SidecarSpec
  /\ WF_allVars(Main) /\ WF_allVars(Calling)
  /\ \A p \in Clients : WF_allVars(Step(p) /\ UNCHANGED sidecarVars)

-----------------------------------------------------------------------------
(* The text behind the vector in slot s; << >> where it is not a whole     *)
(* vector of the daemon's. *)
TextOf(s) ==
  LET v == {i \in 1 .. Len(vectors) : vectors[i].ver = S[s].embedding[1]}
  IN  IF v = {} \/ S[s].embedding[1] # S[s].embedding[2] THEN << >>
      ELSE vectors[CHOOSE i \in v : TRUE].text

(* The whole diagnostic: no vector, the label, the daemon's text. *)
Diagnosed(s) ==
  /\ Zeroed(S[s].embedding) /\ Exceeded \in S[s].bloom
  /\ S[s].val_len = 1 /\ S[s].val[1] \in Version /\ S[s].val[1][2] = Sidecar

Current(s) == Copies(TextOf(s), S[s].val, S[s].val_len) \/ Diagnosed(s)

(* A key whose epoch is the one the daemon has processed carries the       *)
(* vector of the value it holds, or the diagnostic: no vector of an older  *)
(* or half-read value counts as done, whoever wrote while the daemon       *)
(* tokenized, decoded or stored it.                                        *)
DoneIsCurrent ==
  \A k \in Keys : processed[k] # 0 /\ processed[k] = Epoch(k) => Current(Reached(k))

(* The daemon's step that clears WAITING. *)
Clears == pc[Sidecar] = "found" /\ pc'[Sidecar] = "pulse" /\ Op(Sidecar) = "unlabel"

(* WAITING is cleared only where the daemon has done a vector in this pass *)
(* and seen it stand for the value.  The slot may have been written since, *)
(* and then it is the newer deposit's label that goes.                     *)
WaitingCleared ==
  [][Clears => LET s == At(Sidecar) IN
       Current(s) \/ (sc.e < processed[sc.key] /\ processed[sc.key] < S[s].epoch)]_allVars

(* The cleared label is the "authoritative THIS deposit was serviced       *)
(* signal", the one the client "waits on to know its own deposit - not     *)
(* residue from a reused slot - was embedded": a client that has set a     *)
(* value and labelled it loses the label only to the vector of that value. *)
OwnDepositServed ==
  [][Clears => LET s == At(Sidecar) IN
       \A p \in Clients : ret[p].op = "label" /\ ret[p].rc = "ok" /\ S[s].val[1] \in Version
                          /\ S[s].val[1][2] = p => Current(s)]_allVars

(* "Computes embeddings for modified keys": once the clients have stopped, *)
(* every value that a client has stored carries its vector, or has given   *)
(* way to the diagnostic.  (In vector-training it may have another's.)     *)
Served ==
  <>[](\A s \in Listed :
         S[s].val[1] \in Version /\ S[s].val[1][2] # Boot /\ ~ sc.mode.training => Current(s))

(* In vector-training a computed vector is not overwritten, a racing       *)
(* writer's included ("an ordinary backfill/pulse can't clobber a computed *)
(* vector that a racing writer landed mid-decode").                        *)
WriteOnce ==
  [][sc.mode.training /\ pc[Sidecar] = "emb1" /\ pc'[Sidecar] = "emb2" => Zeroed(Slot(Sidecar).embedding)]_allVars

(* "a client that observes the bloom never reads a stale vector or value": *)
(* the label comes upon a whole diagnostic.                                *)
MarkerWhole ==
  [][sc.pc = "mark" /\ sc'.pc = "bump" /\ Reached(sc.key) # Slots => Diagnosed(Reached(sc.key))']_allVars

(* A diagnostic keeps the vector of zeros a client tells it by.            *)
MarkerStays ==
  \A s \in SlotIds : Exceeded \in S[s].bloom /\ S[s].val_len = 1 => Zeroed(S[s].embedding)

(* "splinter_bump_slot() on a key with this label wakes us up": a key      *)
(* bumped to ask for its vector gets it.                                   *)
BumpWakes ==
  \A p \in Clients :
    ret[p].op = "bump" /\ ret[p].rc = "ok" ~>
      \A s \in Listed : S[s].hash # Lane => Current(s)

-----------------------------------------------------------------------------
(* What the steps preserve: the inductive invariant behind DoneIsCurrent   *)
(* and WaitingCleared *)

(* No text is too long for the model, clients do not begin before the      *)
(* daemon listens and store no epoch outright, and at the start no key is  *)
(* in the table twice.                                                     *)
Undisturbed ==
  /\ \A m \in Modes : MaxLen < m.ceiling /\ ~ m.early
  /\ \A p \in Clients : \A c \in Calls[p] : c.op \notin Rewinds
  /\ \A r, s \in SlotIds : Layout[r] = Layout[s] /\ Layout[r] # NoKey => r = s

(* A key that is in the table stays in its slot, and comes into no other.  *)
Seats(k) == {s \in SlotIds : S[s].hash = k}
Staying  == \A k \in Keys : Seats(k) # {} => Seats(k)' = Seats(k)
KeysStay == [][Staying]_allVars

OneSeat == \A r, s \in SlotIds : S[r].hash = S[s].hash /\ S[s].hash # NoKey => r = s

(* A slot's key is that of its hash, or wiped.                             *)
Named == \A s \in SlotIds : S[s].key \in {S[s].hash, NoKey}

Reading == {"text", "gate", "gated", "commit", "post"}   \* a text in hand,
Keyed   == Reading \cup {"epoch", "ptr", "unlabel", "lane"}   \* a key

LocalType == [pc : Keyed \cup {"fill", "baseline", "wait", "list", "scan", "next"},
              of : {"fill", "scan"}, mode : Modes, cur : Nat, last : Nat,
              todo : SUBSET SlotIds, at : SlotIds, key : Keys \cup {NoKey},
              e : Nat, slot : Nat, n : Length, text : Seq(Cell)]

SidecarTyped ==
  /\ sc \in LocalType
  /\ processed \in [Keys -> Nat]
  /\ vectors \in Seq([ver : Version, text : Seq(Cell)])

(* A version tells which vector it is. *)
Numbered ==
  /\ \A i \in DOMAIN vectors : left[Sidecar] <= vectors[i].ver[3]
  /\ \A i, j \in DOMAIN vectors : vectors[i].ver = vectors[j].ver => i = j

Published == {"pulse", "epoch", "dirty", "bell"}   \* past its seqlock

(* Who is in which call. *)
Making ==
  /\ sc.pc = "fill" => sc.of = "fill"
  /\ \A p \in Clients : InCall(p) => Listening /\ Op(p) \notin Rewinds
  /\ InCall(Sidecar) =>
       /\ << sc.pc, Op(Sidecar) >> \in {<< "gated", "getemb" >>, << "post", "setemb" >>,
                                        << "lane", "unlabel" >>, << "next", "pulsekey" >>}
       /\ sc.pc # "next" => call[Sidecar].key = sc.key
  /\ sc.pc = "post" =>
       pc[Sidecar] \in {"idle", "probe", "found", "cas", "emb1", "emb2", "close"} \cup Published

(* The key in hand stands, and the daemon's calls go to its slot if they   *)
(* reach one. *)
Found ==
  /\ sc.pc \in Keyed => sc.key \in Keys /\ Seats(sc.key) # {}
  /\ sc.pc \in Reading => sc.slot \in Seats(sc.key)
  /\ InCall(Sidecar) /\ sc.pc # "next" /\ pc[Sidecar] # "probe" => At(Sidecar) \in Seats(sc.key)

(* How far the vector's own write has moved the epoch.                     *)
Moved == CASE sc.pc = "post" /\ pc[Sidecar] \in Critical -> 1
           [] sc.pc = "post" /\ \/ pc[Sidecar] \in Published
                                \/ pc[Sidecar] = "idle" /\ ret[Sidecar].rc = "ok" -> 2
           [] OTHER -> 0

Untouched == S[sc.slot].epoch = sc.e + Moved \/ ~ Listening

(* Where no other write has been at the slot, what the daemon has read is  *)
(* what the slot holds, *)
ReadTrue ==
  /\ sc.pc \in Reading \cup {"ptr"} => ~ Odd(sc.e)
  /\ sc.pc \in Reading =>
    /\ sc.e + Moved <= S[sc.slot].epoch
    /\ sc.n > 0 /\ Len(sc.text) <= sc.n /\ (sc.pc # "text" => Len(sc.text) = sc.n)
    /\ Untouched => /\ S[sc.slot].val_len = sc.n
                    /\ \A c \in 1 .. Len(sc.text) : sc.text[c] = S[sc.slot].val[c]

(* and what it has stored is the vector of it.                             *)
Storing ==
  sc.pc = "post" =>
    /\ vectors # << >>
    /\ vectors[Len(vectors)] = [ver |-> << sc.key, Sidecar, left[Sidecar] >>, text |-> sc.text]
    /\ pc[Sidecar] \in {"emb2", "close"} \/ (Moved = 2 /\ Untouched) =>
         S[sc.slot].embedding[1] = vectors[Len(vectors)].ver
    /\ pc[Sidecar] = "close" \/ (Moved = 2 /\ Untouched) =>
         S[sc.slot].embedding[2] = vectors[Len(vectors)].ver

(* The slot carries the vector of its value. *)
Carries(s) ==
  \E i \in DOMAIN vectors :
    /\ \A h \in 1 .. 2 : S[s].embedding[h] = vectors[i].ver
    /\ Copies(vectors[i].text, S[s].val, S[s].val_len)

(* Until the daemon listens nobody else writes. *)
Filled ==
  ~ Listening =>
    \A s \in SlotIds : /\ S[s].hash = Layout[s] /\ S[s].key = Layout[s]
                       /\ S[s].embedding = NoEmbedding \/ Carries(s) \/ Holds(Sidecar, s)

(* An entry of processed_epochs is no later than the epoch of its key.     *)
Entered ==
  /\ \A k \in Keys : processed[k] # 0 =>
       /\ Seats(k) # {} /\ ~ Odd(processed[k])
       /\ \A s \in Seats(k) : /\ processed[k] <= S[s].epoch
                              /\ processed[k] = S[s].epoch => Carries(s)
  /\ sc.pc \in {"unlabel", "lane"} => sc.e < processed[sc.key]

SidecarInv ==
  /\ IInv /\ SidecarTyped /\ Numbered /\ OneSeat /\ Named /\ Making /\ Found
  /\ ReadTrue /\ Storing /\ Filled /\ Entered

-----------------------------------------------------------------------------
(* Where KeysStay holds *)

(* Where clients set, no slot is empty.  (A set that meets its key's slot  *)
(* held, by the daemon for one, takes the next empty slot.)                *)
Settled ==
  \/ \A s \in SlotIds : Layout[s] # NoKey
  \/ \A p \in Clients : \A c \in Calls[p] : c.op # "set"

(* No slot changes hands: a set holds a slot of its key.                   *)
Placing == {"found", "cas", "scrub", "fill", "blank", "link"}

KeptKeys ==
  /\ \A s \in SlotIds : S[s].hash = Layout[s]
  /\ \A p \in Procs : pc[p] \in {"scrub", "fill", "blank", "link"} => Op(p) = "set"
  /\ \A p \in Clients : InCall(p) /\ Op(p) = "set" =>
       /\ \A s \in SlotIds : Layout[s] # NoKey
       /\ pc[p] \in Placing => Slot(p).hash = call[p].key

=============================================================================
