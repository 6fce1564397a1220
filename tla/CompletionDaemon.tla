-------------------------- MODULE CompletionDaemon --------------------------
(***************************************************************************)
(* The completion daemon of splainference.cpp: clients leave a question in *)
(* a slot and label it WAITING; the daemon copies the question, moves the  *)
(* label on to SERVICING, replaces the value by the prompt, appends the    *)
(* completion as the model decodes it and labels the slot READY.           *)
(*                                                                         *)
(* A library call of the daemon is one step (SlotStore shows what happens  *)
(* inside).  A client's calls that hold the slot's epoch odd, set and      *)
(* bump, are two steps, so that the daemon meets the odd epoch.  The model *)
(* is an oracle: what a token is made of is the set of questions in the    *)
(* model's memory, failed ones that were not cleared included, and its     *)
(* place in the completion.                                                *)
(***************************************************************************)
EXTENDS Naturals, Sequences

CONSTANTS
  Keys,        \* the keys, one slot each
  Requests,    \* how many questions are asked under each key: a set of [Keys -> Nat]
  MaxVal,      \* max_val_sz, in units of one token
  PromptLen,   \* length of a prompt
  FlushMax,    \* SPLAIN_TOKEN_FLUSH_MAX
  Wrap,        \* size_t: 2^64
  Stops,       \* bound: how often the daemon is stopped
  Kills,       \* bound: how often it is killed
  Early,       \* TRUE: clients ask while the daemon works on its backlog
  Bumps,       \* TRUE: clients bump the slot after they have labelled it
  Patient,     \* TRUE: clients wait for READY before they ask again
  Clears,      \* TRUE: and clear it when they have read the answer
  Eager        \* TRUE: the model can fail

ASSUME CompletionAssumption ==
  /\ MaxVal \in Nat \ {0} /\ PromptLen \in Nat \ {0} /\ FlushMax \in Nat \ {0}
  /\ Wrap \in Nat /\ Wrap > MaxVal + PromptLen
  /\ Requests \subseteq [Keys -> Nat]
  /\ Stops \in Nat /\ Kills \in Nat /\ {Early, Bumps, Clears, Patient, Eager} \subseteq BOOLEAN

VARIABLES
  val,    \* each slot's value: what it begins with and the tokens after it
  epoch,  \* each slot's epoch
  bloom,  \* each slot's labels
  count,  \* the counter of the group that WAITING is routed to
  cl,     \* by key, its client: where it is, how many questions it has asked and
          \* has left to ask
  d       \* the daemon; lost and refused are history: the key that was in hand at a kill, and
          \* the questions whose prompt the model failed to decode

completionVars == << val, epoch, bloom, count, cl, d >>

Odd(e) == e % 2 = 1
User(r)   == [kind |-> "user", req |-> r, toks |-> << >>]
Prompt(r) == [kind |-> "prompt", req |-> r, toks |-> << >>]
Nothing   == [kind |-> "none", req |-> 0, toks |-> << >>]

Torn      == User(0)

Size(v) == Len(v.toks) + CASE v.kind = "prompt" -> PromptLen [] v.kind = "none" -> 0 [] OTHER -> 1

(* splinter_pulse_watchers, as far as the daemon's group goes.             *)
Pulses(L) == IF "waiting" \in L THEN 1 ELSE 0

Off == [pc |-> "off", up |-> FALSE, cold |-> FALSE, seen |-> 0, cur |-> 0, look |-> {}, todo |-> << >>,
        key |-> "none", e |-> 0, user |-> Nothing, written |-> 0, chunk |-> << >>, n |-> 0,
        run |-> 0, kv |-> {}, oom |-> FALSE, stops |-> Stops, kills |-> Kills, lost |-> "none", refused |-> {}]

(* What a daemon that comes up or goes down takes with it.                 *)
Idle == [Off EXCEPT !.stops = d.stops, !.kills = d.kills, !.lost = d.lost, !.refused = d.refused]

-----------------------------------------------------------------------------
(* The clients.  A question is set, and labelled.                          *)

Listening == d.pc # "off" => ~ d.cold
Ready(k)  == bloom[k] = {"ready"}

ClientAt(k, l) == cl' = [cl EXCEPT ![k].pc = l]
Asked == IF Patient THEN "await" ELSE "idle"

(* It reads the answer when it sees READY.                                 *)
Read(k) ==
  /\ cl[k].pc = "await" /\ "ready" \in bloom[k]
  /\ ClientAt(k, "idle")
  /\ IF Clears THEN /\ bloom' = [bloom EXCEPT ![k] = @ \ {"ready"}]
                    /\ count' = count + Pulses(bloom[k])
               ELSE UNCHANGED << bloom, count >>
  /\ UNCHANGED << val, epoch, d >>

SetOpen(k) ==
  /\ cl[k].pc = "idle" /\ cl[k].left > 0 /\ ~ Odd(epoch[k])
  /\ epoch' = [epoch EXCEPT ![k] = @ + 1]
  /\ cl' = [cl EXCEPT ![k].pc = "set", ![k].asked = @ + 1, ![k].left = @ - 1]
  /\ UNCHANGED << val, bloom, count, d >>

SetClose(k) ==
  /\ cl[k].pc = "set"
  /\ val' = [val EXCEPT ![k] = User(cl[k].asked)]
  /\ epoch' = [epoch EXCEPT ![k] = @ + 1]
  /\ count' = count + Pulses(bloom[k])
  /\ ClientAt(k, "label")
  /\ UNCHANGED << bloom, d >>

Label(k) ==
  /\ cl[k].pc = "label" /\ (Early \/ Listening)
  /\ bloom' = [bloom EXCEPT ![k] = @ \cup {"waiting"}]
  /\ count' = count + 1
  /\ ClientAt(k, IF Bumps THEN "bump" ELSE Asked)
  /\ UNCHANGED << val, epoch, d >>

BumpOpen(k) ==
  /\ cl[k].pc = "bump" /\ Bumps /\ ~ Odd(epoch[k])
  /\ epoch' = [epoch EXCEPT ![k] = @ + 1]
  /\ count' = count + Pulses(bloom[k])
  /\ ClientAt(k, "bumped")
  /\ UNCHANGED << val, bloom, d >>

BumpClose(k) ==
  /\ cl[k].pc = "bumped" /\ Bumps
  /\ epoch' = [epoch EXCEPT ![k] = @ + 1]
  /\ ClientAt(k, Asked)
  /\ UNCHANGED << val, bloom, count, d >>

Client(k) == Read(k) \/ SetOpen(k) \/ SetClose(k) \/ Label(k)

-----------------------------------------------------------------------------
(* The daemon starts: it enumerates the keys that are WAITING already, and *)
(* only when it has served them reads the counter.                         *)

Store == << val, epoch, bloom, count >>
Go(l) == d' = [d EXCEPT !.pc = l]

Start ==
  /\ d.pc = "off"
  /\ d' = [Idle EXCEPT !.pc = "enum", !.up = TRUE, !.cold = TRUE, !.look = Keys]
  /\ UNCHANGED << Store, cl >>

(* splinter_enumerate_matches, slot by slot; the slots' order is any.      *)
Enumerate ==
  /\ d.pc = "enum"
  /\ \/ \E k \in d.look :
          d' = [d EXCEPT !.look = @ \ {k}, !.todo = IF "waiting" \in bloom[k] THEN Append(@, k) ELSE @]
     \/ d.look = {} /\ Go("next")
  /\ UNCHANGED << Store, cl >>

NextKey ==
  /\ d.pc = "next" /\ d.todo # << >> /\ (d.up \/ d.cold)
  /\ d' = [d EXCEPT !.pc = "epoch", !.key = Head(d.todo), !.todo = Tail(@)]
  /\ UNCHANGED << Store, cl >>

(* Broken: the counter is read again after the pass.                       *)
BrokenPassDone ==
  /\ d.pc = "next" /\ ~ (d.todo # << >> /\ (d.up \/ d.cold))
  /\ d' = [d EXCEPT !.pc = "poll", !.cold = FALSE, !.todo = << >>, !.cur = 0, !.seen = count]
  /\ UNCHANGED << Store, cl >>

PassDone ==
  /\ d.pc = "next" /\ ~ (d.todo # << >> /\ (d.up \/ d.cold))
  /\ d' = [d EXCEPT !.pc = "poll", !.cold = FALSE, !.todo = << >>, !.cur = 0,
                    !.seen = IF d.cold THEN count ELSE d.cur]
  /\ UNCHANGED << Store, cl >>

Poll ==
  /\ d.pc = "poll" /\ d.up /\ count # d.seen
  /\ d' = [d EXCEPT !.pc = "enum", !.cur = count, !.look = Keys]
  /\ UNCHANGED << Store, cl >>

Shutdown ==
  /\ d.pc = "poll" /\ ~ d.up
  /\ d' = Idle
  /\ UNCHANGED << Store, cl >>

-----------------------------------------------------------------------------
(* process_completion *)

Skip == d' = [d EXCEPT !.pc = "next", !.key = "none", !.e = 0]
Here == UNCHANGED << Store, cl >>

Epoch ==
  /\ d.pc = "epoch"
  /\ IF Odd(epoch[d.key]) THEN Skip ELSE d' = [d EXCEPT !.pc = "ptr", !.e = epoch[d.key]]
  /\ Here

RawPtr ==
  /\ d.pc = "ptr"
  /\ IF Size(val[d.key]) = 0 \/ epoch[d.key] # d.e THEN Skip ELSE Go("copy")
  /\ Here

(* The question is copied from the slot with no check after it.            *)
Copy ==
  /\ d.pc = "copy"
  /\ d' = [d EXCEPT !.pc = "unwait", !.user = IF Odd(epoch[d.key]) THEN Torn ELSE val[d.key]]
  /\ Here

(* The transitions of the label: two calls and a bump, which fails where   *)
(* the epoch is odd.                                                       *)
Relabel(l, L, next) ==
  /\ d.pc = l
  /\ bloom' = [bloom EXCEPT ![d.key] = L]
  /\ count' = count + IF L \subseteq bloom[d.key] THEN Pulses(bloom[d.key]) ELSE Pulses(L)
  /\ Go(next)
  /\ UNCHANGED << val, epoch, cl >>

BumpAt(l, r) ==
  /\ d.pc = l
  /\ IF Odd(epoch[d.key]) THEN UNCHANGED << epoch, count >>
     ELSE /\ epoch' = [epoch EXCEPT ![d.key] = @ + 2]
          /\ count' = count + Pulses(bloom[d.key])
  /\ d' = r
  /\ UNCHANGED << val, bloom, cl >>

Unwait    == Relabel("unwait", bloom[d.key] \ {"waiting"}, "service")
BrokenService == Relabel("service", bloom[d.key] \cup {"ready"}, "bump1")   \* the wrong label
Service   == Relabel("service", bloom[d.key] \cup {"servicing"}, "bump1")
BumpFirst == BumpAt("bump1", [d EXCEPT !.pc = "tokenize"])

Tokenize ==
  /\ d.pc = "tokenize"
  /\ Go("prompt") \/ (Eager /\ Go("unservice"))
  /\ Here

(* splinter_set of the prompt; what it returns is not looked at.           *)
PromptIn(k) == ~ Odd(epoch[k]) /\ PromptLen <= MaxVal
SetPrompt ==
  /\ d.pc = "prompt"
  /\ IF PromptIn(d.key)
     THEN /\ val' = [val EXCEPT ![d.key] = Prompt(d.user.req)]
          /\ epoch' = [epoch EXCEPT ![d.key] = @ + 2]
          /\ count' = count + Pulses(bloom[d.key])
     ELSE UNCHANGED << val, epoch, count >>
  /\ Go("prefill")
  /\ UNCHANGED << bloom, cl >>

(* The decoding of the prompt.  Where it fails nothing clears the model's  *)
(* memory, which may hold the prompt, or part of it, from then on.         *)
Question == << d.key, d.user.req >>
Prefill ==
  /\ d.pc = "prefill"
  /\ \/ d' = [d EXCEPT !.pc = "sample", !.kv = @ \cup {Question}, !.written = PromptLen]
     \/ /\ Eager
        /\ \E kept \in {{}, {Question}} :
             d' = [d EXCEPT !.pc = "unservice", !.kv = @ \cup kept, !.refused = @ \cup {Question}]
  /\ Here

(* One token: the end of the completion, or a piece that does not fit its  *)
(* buffer, or a piece that is decoded in turn.                             *)
Sample ==
  /\ d.pc = "sample"
  /\ LET more == [d EXCEPT !.n = @ + 1, !.run = @ + 1, !.chunk = Append(@, << d.kv, d.n + 1 >>)]
     IN \/ Go("partial")     \* stopped, end of generation, or no room for the piece
        \/ d.up /\ Eager /\ d' = [more EXCEPT !.pc = "partial"]
        \/ d.up /\ more.run < FlushMax /\ d' = more
        \/ d.up /\ d' = [more EXCEPT !.pc = "flush"]
  /\ Here

(* splinter_append, which adds up in size_t.                               *)
Fits(k, n) == ~ Odd(epoch[k]) /\ (Size(val[k]) + n) % Wrap <= MaxVal
Appended(k, toks) ==
  /\ val' = [val EXCEPT ![k].toks = @ \o toks]
  /\ epoch' = [epoch EXCEPT ![k] = @ + 2]
  /\ count' = count + Pulses(bloom[k])
TooLong(k, n) ==      \* the epoch moves where only the room was missing
  /\ epoch' = [epoch EXCEPT ![k] = IF Odd(@) THEN @ ELSE @ + 2]
  /\ UNCHANGED << val, count >>

Remaining == (MaxVal - d.written) % Wrap

(* Broken: the slot's length is not read back from the append.             *)
BrokenFlush ==
  /\ d.pc = "flush" /\ d.written + Len(d.chunk) <= MaxVal
  /\ IF Fits(d.key, Len(d.chunk))
     THEN /\ Appended(d.key, d.chunk)
          /\ d' = [d EXCEPT !.pc = "sample", !.chunk = << >>, !.run = 0]
     ELSE TooLong(d.key, Len(d.chunk)) /\ Go("partial")
  /\ UNCHANGED << bloom, cl >>

Flush ==
  /\ d.pc = "flush" /\ d.written + Len(d.chunk) <= MaxVal
  /\ IF Fits(d.key, Len(d.chunk))
     THEN /\ Appended(d.key, d.chunk)
          /\ d' = [d EXCEPT !.pc = "sample", !.chunk = << >>, !.written = Size(val'[d.key]), !.run = 0]
     ELSE TooLong(d.key, Len(d.chunk)) /\ Go("partial")
  /\ UNCHANGED << bloom, cl >>

(* The last chunk of a full slot is cut, and so is what is left at the end.*)
Cut(n) ==
  IF n = 0 THEN UNCHANGED << val, epoch, count >>
  ELSE IF Fits(d.key, n) THEN Appended(d.key, SubSeq(d.chunk, 1, n)) ELSE TooLong(d.key, n)

(* Where the prompt was too long for the slot, what is left is not the     *)
(* chunk's: the copy runs off its end and the daemon dies in the slot.     *)
Overruns == Remaining > Len(d.chunk) /\ Fits(d.key, Remaining)
Full ==
  /\ d.pc = "flush" /\ d.written + Len(d.chunk) > MaxVal
  /\ IF Overruns THEN /\ epoch' = [epoch EXCEPT ![d.key] = @ + 1]
                      /\ d' = [Idle EXCEPT !.lost = d.key]
                      /\ UNCHANGED << val, count >>
     ELSE Cut(Remaining) /\ d' = [d EXCEPT !.pc = "partial", !.oom = TRUE]
  /\ UNCHANGED << bloom, cl >>

Partial ==
  /\ d.pc = "partial"
  /\ IF d.chunk # << >> /\ ~ d.oom
     THEN Cut(IF Len(d.chunk) < Remaining THEN Len(d.chunk) ELSE Remaining)
     ELSE UNCHANGED << val, epoch, count >>
  /\ Go("clear")
  /\ UNCHANGED << bloom, cl >>

(* The model forgets the exchange; the slot's time is set (not modelled).  *)
BrokenForget == d.pc = "clear" /\ Go("unservice") /\ Here
Forget ==
  /\ d.pc = "clear"
  /\ d' = [d EXCEPT !.pc = "unservice", !.kv = {}]
  /\ Here

Unservice == Relabel("unservice", bloom[d.key] \ {"servicing"}, "ready")
MarkReady == Relabel("ready", bloom[d.key] \cup {"ready"}, "bump2")
BumpLast  == BumpAt("bump2", [d EXCEPT !.pc = "next", !.key = "none", !.e = 0, !.user = Nothing,
                                       !.written = 0, !.chunk = << >>, !.n = 0, !.run = 0, !.oom = FALSE])

Process ==
  \/ Epoch \/ RawPtr \/ Copy \/ Unwait \/ Service \/ BumpFirst \/ Tokenize \/ SetPrompt \/ Prefill
  \/ Sample \/ Flush \/ Full \/ Partial \/ Forget \/ Unservice \/ MarkReady \/ BumpLast
Daemon == Start \/ Enumerate \/ NextKey \/ PassDone \/ Poll \/ Shutdown \/ Process

(* SIGINT or SIGTERM; SIGKILL, which leaves a key that was being served as *)
(* it is (lost remembers it).                                              *)
Stop ==
  /\ d.up /\ d.stops > 0
  /\ d' = [d EXCEPT !.up = FALSE, !.stops = @ - 1]
  /\ Here
Kill ==
  /\ d.pc # "off" /\ d.kills > 0
  /\ d' = [Idle EXCEPT !.kills = d.kills - 1,
                       !.lost = IF d.key # "none" /\ "waiting" \notin bloom[d.key] THEN d.key ELSE d.lost]
  /\ Here

CompletionInit ==
  /\ val = [k \in Keys |-> Nothing]
  /\ epoch = [k \in Keys |-> 2]
  /\ bloom = [k \in Keys |-> {}]
  /\ count = 0
  /\ \E n \in Requests : cl = [k \in Keys |-> [pc |-> "idle", asked |-> 0, left |-> n[k]]]
  /\ d = Off

CompletionNext == Daemon \/ Stop \/ Kill \/ \E k \in Keys : Client(k)
BumpingNext    == CompletionNext \/ \E k \in Keys : BumpOpen(k) \/ BumpClose(k)
CompletionSpec == CompletionInit /\ [][CompletionNext]_completionVars

(* The daemon runs, and is started again when it was stopped; a client     *)
(* that has begun to ask goes on.                                          *)
CompletionFair ==
  /\ CompletionSpec /\ WF_completionVars(Daemon)
  /\ \A k \in Keys : WF_completionVars(cl[k].pc # "idle" /\ Client(k))
BumpingFair ==
  /\ CompletionInit /\ [][BumpingNext]_completionVars /\ WF_completionVars(Daemon)
  /\ \A k \in Keys : WF_completionVars(cl[k].pc # "idle" /\ (Client(k) \/ BumpOpen(k) \/ BumpClose(k)))

-----------------------------------------------------------------------------
(* An answered slot holds the exchange and nothing else: the question as   *)
(* it was left, if the model refused it; or the prompt made of the last    *)
(* question asked under the key, followed by the first tokens of its       *)
(* completion, none of them missing, doubled or out of order, each decoded *)
(* from that question, and beside it from no question that was answered:   *)
(* only from such as the model had failed on, whose prompts nobody clears. *)
Drawn(x, k, i) ==
  /\ x[2] = i /\ << k, cl[k].asked >> \in x[1]
  /\ x[1] \subseteq {<< k, cl[k].asked >>} \cup d.refused

Answered(k) ==
  /\ val[k].req = cl[k].asked
  /\ \A i \in DOMAIN val[k].toks : Drawn(val[k].toks[i], k, i)
  /\ val[k].toks # << >> => val[k].kind = "prompt"

Exchange == \A k \in Keys : Ready(k) /\ cl[k].pc \in {"await", "idle"} => Answered(k)

(* While it appends, the daemon's count of the bytes in the slot is the    *)
(* slot's length, so that what it computes to be left is what is left.     *)
WrittenTrue ==
  d.pc \in {"sample", "flush"} => d.written = Size(val[d.key]) /\ d.written <= MaxVal

(* READY is the consumer's signal to read: from then on, until the next    *)
(* question, the value stays as it is.                                     *)
ReadyIsFinal ==
  [][\A k \in Keys : "ready" \in bloom[k] \cap bloom'[k] => val'[k] = val[k]]_completionVars

(* A question is answered: WAITING leads to READY alone, also when the     *)
(* daemon is stopped or killed meanwhile and started again; a kill loses   *)
(* no question but the one that was being served.                          *)
Served == \A k \in Keys : "waiting" \in bloom[k] ~> (Ready(k) \/ k = d.lost)

-----------------------------------------------------------------------------
(* What the steps preserve, where clients wait for READY, clear it and do  *)
(* not bump, and a prompt fits a value.                                    *)

Orderly == Patient /\ Clears /\ ~ Bumps /\ PromptLen <= MaxVal

Begun    == {"epoch", "ptr", "copy", "unwait"}
Decoding == {"sample", "flush", "partial"}
UnderWay == {"service", "bump1", "tokenize", "prompt", "prefill", "clear", "unservice", "ready"} \cup Decoding
Places   == {"off", "enum", "next", "poll", "bump2"} \cup Begun \cup UnderWay

Token  == (SUBSET (Keys \X Nat)) \X Nat
Value  == [kind : {"user", "prompt", "none"}, req : Nat, toks : Seq(Token)]
Asker  == [pc : {"idle", "set", "label", "await"}, asked : Nat, left : Nat]
Server == [pc : Places, up : BOOLEAN, cold : BOOLEAN, seen : Nat, cur : Nat, look : SUBSET Keys,
           todo : Seq(Keys), key : Keys \cup {"none"}, e : Nat, user : Value, written : Nat,
           chunk : Seq(Token), n : Nat, run : Nat, kv : SUBSET (Keys \X Nat), refused : SUBSET (Keys \X Nat), oom : BOOLEAN,
           stops : Nat, kills : Nat, lost : Keys \cup {"none"}]

CompletionTypeOK ==
  /\ val \in [Keys -> Value] /\ epoch \in [Keys -> Nat]
  /\ bloom \in [Keys -> {{}, {"waiting"}, {"servicing"}, {"ready"}}]
  /\ count \in Nat /\ cl \in [Keys -> Asker] /\ d \in Server
  /\ d.pc \in Begun \cup UnderWay \cup {"bump2"} => d.key \in Keys

(* A slot is as its client left it until the daemon takes the label off.   *)
Asking == \A k \in Keys :
  /\ Odd(epoch[k]) <=> cl[k].pc = "set"
  /\ cl[k].pc # "await" => bloom[k] = {}
  /\ cl[k].pc = "label" \/ bloom[k] = {"waiting"} => val[k] = User(cl[k].asked)
  /\ bloom[k] = {"ready"} => Answered(k)

(* Nobody else takes the label off a key that was listed.                  *)
Listed(k) == \E i \in DOMAIN d.todo : d.todo[i] = k
Queued ==
  /\ \A k \in Keys : Listed(k) => bloom[k] = {"waiting"}
  /\ \A i, j \in DOMAIN d.todo : d.todo[i] = d.todo[j] => i = j
  /\ d.pc \in {"off", "poll"} => d.todo = << >>
  /\ d.pc = "enum" => \A k \in d.look : ~ Listed(k)
  /\ d.pc \in Begun => bloom[d.key] = {"waiting"} /\ ~ Listed(d.key)

(* While it serves a key the daemon has its question in hand, and what it  *)
(* has decoded and not yet flushed goes on where the slot ends.            *)
Serving == d.pc \in UnderWay =>
  /\ cl[d.key].pc = "await" /\ d.user = User(cl[d.key].asked) /\ Answered(d.key)
  /\ bloom[d.key] = IF d.pc \in {"service", "ready"} THEN {} ELSE {"servicing"}
  /\ d.pc = "prefill" => val[d.key] = Prompt(cl[d.key].asked)
  /\ d.pc \in Decoding =>
       /\ Question \in d.kv /\ val[d.key].kind = "prompt"
       /\ d.pc # "partial" => ~ d.oom
       /\ ~ d.oom => /\ d.written = Size(val[d.key]) /\ d.written <= MaxVal
                     /\ d.n = Len(val[d.key].toks) + Len(d.chunk)
                     /\ \A i \in DOMAIN d.chunk : Drawn(d.chunk[i], d.key, Len(val[d.key].toks) + i)

(* Between two exchanges nothing is left but of what failed.               *)
Fresh ==
  /\ d.pc = "unwait" => d.user = val[d.key]
  /\ d.kv \subseteq d.refused \cup IF d.pc \in Decoding \cup {"clear"} THEN {Question} ELSE {}
  /\ d.pc \notin Decoding \cup {"clear", "unservice", "ready", "bump2"} => d.chunk = << >> /\ d.n = 0 /\ ~ d.oom

CompletionInv == CompletionTypeOK /\ Asking /\ Queued /\ Serving /\ Fresh

=============================================================================
