----------------------- MODULE CompletionDaemonProofs -----------------------
(***************************************************************************)
(* Proofs about the completion daemon and its clients, for every number of *)
(* keys, questions and tokens, whatever is stopped or killed where.        *)
(***************************************************************************)
EXTENDS CompletionDaemon, TLAPS

LEMMA OddNext ==
  ASSUME NEW e \in Nat
  PROVE  (Odd(e + 1) <=> ~ Odd(e)) /\ (Odd(e + 2) <=> Odd(e))
BY DEF Odd

(* What is left of a value is computed modulo 2^64, which it never reaches.*)
LEMMA RemainingIs ==
  ASSUME d.written \in Nat, d.written <= MaxVal
  PROVE  Remaining = MaxVal - d.written /\ Remaining \in Nat
<1>1. MaxVal \in Nat /\ Wrap \in Nat /\ PromptLen \in Nat /\ Wrap > MaxVal + PromptLen
  BY CompletionAssumption
<1>2. PICK x : x = MaxVal - d.written
  OBVIOUS
<1>3. x \in Nat /\ x < Wrap
  BY <1>1, <1>2
<1>4. x % Wrap = x
  BY <1>1, <1>3
<1>5. QED
  BY <1>2, <1>3, <1>4 DEF Remaining

(* The tokens of a completion of the r-th question under k, from the b-th  *)
(* on.                                                                     *)
Made(x, k, r, i) ==
  /\ x[2] = i /\ << k, r >> \in x[1]
  /\ x[1] \subseteq {<< k, r >>} \cup d.refused
From(s, k, r, b) == \A i \in DOMAIN s : Made(s[i], k, r, b + i)

LEMMA Joined ==
  ASSUME NEW k, NEW r, NEW s \in Seq(Token), NEW t \in Seq(Token), From(s, k, r, 0), From(t, k, r, Len(s))
  PROVE  s \o t \in Seq(Token) /\ Len(s \o t) = Len(s) + Len(t) /\ From(s \o t, k, r, 0)
<1>1. s \o t \in Seq(Token) /\ Len(s \o t) = Len(s) + Len(t) /\ DOMAIN (s \o t) = 1 .. Len(s) + Len(t)
  OBVIOUS
<1>2. ASSUME NEW i \in 1 .. Len(s) + Len(t)
      PROVE  Made((s \o t)[i], k, r, 0 + i)
  <2>1. CASE i <= Len(s)
    BY <2>1 DEF From
  <2>2. CASE i > Len(s)
    <3>1. i - Len(s) \in DOMAIN t /\ (s \o t)[i] = t[i - Len(s)]
      BY <2>2
    <3>2. Made(t[i - Len(s)], k, r, Len(s) + (i - Len(s)))
      BY <3>1 DEF From
    <3>3. Len(s) + (i - Len(s)) = 0 + i
      BY <2>2
    <3>4. QED
      BY <3>1, <3>2, <3>3
  <2>3. QED
    BY <2>1, <2>2
<1>3. QED
  BY <1>1, <1>2 DEF From

LEMMA CutOff ==
  ASSUME NEW k, NEW r, NEW b, NEW t \in Seq(Token), NEW n \in 0 .. Len(t), From(t, k, r, b)
  PROVE  SubSeq(t, 1, n) \in Seq(Token) /\ Len(SubSeq(t, 1, n)) = n /\ From(SubSeq(t, 1, n), k, r, b)
BY DEF From

LEMMA Longer ==
  ASSUME NEW k, NEW r, NEW b \in Nat, NEW t \in Seq(Token), NEW x \in Token, From(t, k, r, b),
         Made(x, k, r, b + Len(t) + 1)
  PROVE  Append(t, x) \in Seq(Token) /\ Len(Append(t, x)) = Len(t) + 1 /\ From(Append(t, x), k, r, b)
<1>1. /\ Append(t, x) \in Seq(Token) /\ Len(Append(t, x)) = Len(t) + 1
      /\ DOMAIN Append(t, x) = 1 .. Len(t) + 1
  OBVIOUS
<1>2. ASSUME NEW i \in 1 .. Len(t) + 1
      PROVE  Made(Append(t, x)[i], k, r, b + i)
  <2>1. CASE i <= Len(t)
    BY <2>1 DEF From
  <2>2. CASE i = Len(t) + 1
    <3>1. Append(t, x)[i] = x /\ b + Len(t) + 1 = b + i
      BY <2>2
    <3>2. QED
      BY <3>1
  <2>3. QED
    BY <2>1, <2>2
<1>3. QED
  BY <1>1, <1>2 DEF From

LEMMA PlacesAre ==
  /\ "off" \in Places /\ "enum" \in Places /\ "next" \in Places /\ "poll" \in Places /\ "bump2" \in Places
  /\ "epoch" \in Places /\ "ptr" \in Places /\ "copy" \in Places /\ "unwait" \in Places
  /\ "service" \in Places /\ "bump1" \in Places /\ "tokenize" \in Places /\ "prompt" \in Places /\ "prefill" \in Places
  /\ "sample" \in Places /\ "flush" \in Places /\ "partial" \in Places
  /\ "clear" \in Places /\ "unservice" \in Places /\ "ready" \in Places
BY DEF Places, Begun, UnderWay, Decoding

(* A step of the daemon that only goes on.                                 *)
LEMMA Gone ==
  ASSUME d \in Server, NEW l \in Places, d' = [d EXCEPT !.pc = l]
  PROVE  d' \in Server /\ d'.pc = l /\ d'.key = d.key
BY DEF Server

-----------------------------------------------------------------------------
(* The steps that leave the store to itself.                               *)

LEMMA AnsweredStands ==
  ASSUME NEW k, val'[k] = val[k], cl'[k] = cl[k], d.refused \subseteq d'.refused, Answered(k)
  PROVE  Answered(k)'
BY DEF Answered, Drawn

LEMMA AnsweredSame ==
  ASSUME NEW k, val'[k] = val[k], cl'[k] = cl[k], d'.refused = d.refused
  PROVE  Answered(k)' <=> Answered(k)
BY DEF Answered, Drawn

LEMMA AskingStands ==
  ASSUME Asking, UNCHANGED << val, epoch, bloom, count >>, cl' = cl, d.refused \subseteq d'.refused
  PROVE  Asking'
<1>1. \A k \in Keys : Answered(k) => Answered(k)'
  BY AnsweredStands
<1>2. QED
  BY <1>1 DEF Asking

LEMMA TypesStand ==
  ASSUME CompletionTypeOK, UNCHANGED << val, epoch, bloom, count >>, cl' = cl, d' \in Server,
         d'.pc \in Begun \cup UnderWay \cup {"bump2"} => d'.key \in Keys
  PROVE  CompletionTypeOK'
BY DEF CompletionTypeOK

Waits == Start \/ Enumerate \/ NextKey \/ PassDone \/ Poll \/ Shutdown \/ Stop \/ Kill
Looks == Epoch \/ RawPtr \/ Copy \/ Tokenize \/ Prefill \/ Sample \/ Forget

LEMMA IdleIs ==
  ASSUME d \in Server, Off \in Server
  PROVE  /\ Idle \in Server /\ Idle.pc = "off" /\ Idle.todo = << >> /\ Idle.chunk = << >> /\ Idle.n = 0
         /\ ~ Idle.oom /\ Idle.kv = {} /\ Idle.refused = d.refused
<1>1. PICK a, b, c, f : a = d.stops /\ b = d.kills /\ c = d.lost /\ f = d.refused
  OBVIOUS
<1>2. a \in Nat /\ b \in Nat /\ c \in Keys \cup {"none"} /\ f \in SUBSET (Keys \X Nat)
  BY ZenonT(40), <1>1 DEF Server
<1>3. Idle = [Off EXCEPT !.stops = a, !.kills = b, !.lost = c, !.refused = f]
  BY <1>1 DEF Idle
<1>4. PICK u, w : u = [Off EXCEPT !.stops = a, !.kills = b] /\ w = [u EXCEPT !.lost = c]
  OBVIOUS
<1>5. /\ u \in Server /\ u.pc = Off.pc /\ u.todo = Off.todo /\ u.chunk = Off.chunk /\ u.n = Off.n
      /\ u.oom = Off.oom /\ u.kv = Off.kv
  BY ZenonT(40), <1>2, <1>4 DEF Server
<1>6. /\ w \in Server /\ w.pc = Off.pc /\ w.todo = Off.todo /\ w.chunk = Off.chunk /\ w.n = Off.n
      /\ w.oom = Off.oom /\ w.kv = Off.kv
  BY ZenonT(40), <1>2, <1>4, <1>5 DEF Server
<1>7. Idle = [w EXCEPT !.refused = f]
  BY ZenonT(40), <1>3, <1>4, <1>5, <1>6 DEF Server
<1>8. /\ Idle \in Server /\ Idle.pc = Off.pc /\ Idle.todo = Off.todo /\ Idle.chunk = Off.chunk /\ Idle.n = Off.n
      /\ Idle.oom = Off.oom /\ Idle.kv = Off.kv /\ Idle.refused = f
  BY ZenonT(40), <1>2, <1>6, <1>7 DEF Server
<1>9. QED
  BY <1>1, <1>8 DEF Off

LEMMA OffTyped == Off \in Server
<1>1. Nothing \in Value /\ << >> \in Seq(Keys) /\ << >> \in Seq(Token)
  BY DEF Nothing, Value
<1>2. QED
  BY <1>1, CompletionAssumption, PlacesAre DEF Off, Server

LEMMA StopsTyped ==
  ASSUME CompletionTypeOK, Start \/ Shutdown \/ Stop \/ Kill
  PROVE  CompletionTypeOK'
<1>0. d \in Server
  BY DEF CompletionTypeOK
<1>1. Off \in Server
  BY OffTyped
<1>9. Idle \in Server
  BY <1>0, <1>1, IdleIs
<1>2. d' \in Server
  <2>1. CASE Start
    BY ZenonT(40), <1>9, <2>1, PlacesAre DEF Start, Server
  <2>2. CASE Shutdown
    BY <1>9, <2>2 DEF Shutdown
  <2>3. CASE Stop
    <3>1. PICK n : n = d.stops - 1
      OBVIOUS
    <3>2. n \in Nat
      BY <1>0, <2>3, <3>1, PlacesAre DEF Stop, Server
    <3>3. d' = [d EXCEPT !.up = FALSE, !.stops = n]
      BY <2>3, <3>1 DEF Stop
    <3>4. QED
      BY ZenonT(40), <1>0, <3>2, <3>3, PlacesAre DEF Server
  <2>4. CASE Kill
    <3>1. PICK n, k : n = d.kills - 1 /\ k = IF d.key # "none" /\ "waiting" \notin bloom[d.key] THEN d.key ELSE d.lost
      OBVIOUS
    <3>2. n \in Nat /\ k \in Keys \cup {"none"}
      BY <1>0, <2>4, <3>1, PlacesAre DEF Kill, Server
    <3>3. d' = [Idle EXCEPT !.kills = n, !.lost = k]
      BY <2>4, <3>1 DEF Kill
    <3>4. QED
      BY ZenonT(40), <1>9, <3>2, <3>3, PlacesAre DEF Server
  <2>5. QED
    BY <2>1, <2>2, <2>3, <2>4
<1>3. d'.pc \in {"off", "enum"} \/ (d'.pc = d.pc /\ d'.key = d.key)
  <2>1. CASE Start \/ Shutdown \/ Kill
    <3>1. Idle \in Server /\ Idle.pc = "off"
      BY <1>0, <1>1, IdleIs
    <3>2. QED
      BY ZenonT(40), <2>1, <3>1 DEF Start, Shutdown, Kill, Server
  <2>2. CASE Stop
    BY <1>0, <2>2, PlacesAre DEF Stop, Server
  <2>3. QED
    BY <2>1, <2>2
<1>4. QED
  BY <1>2, <1>3, TypesStand DEF CompletionTypeOK, Begun, UnderWay, Decoding, Start, Shutdown, Stop, Kill, Store, Here

LEMMA LoopTyped ==
  ASSUME CompletionTypeOK, Enumerate \/ NextKey \/ PassDone \/ Poll
  PROVE  CompletionTypeOK'
<1>0. d \in Server /\ count \in Nat
  BY DEF CompletionTypeOK
<1>1. CASE Enumerate
  <2>1. \A k \in Keys : Append(d.todo, k) \in Seq(Keys)
    BY <1>0, PlacesAre DEF Server
  <2>2. d' \in Server /\ d'.pc \in {"enum", "next"}
    <3>1. CASE d' = [d EXCEPT !.pc = "next"]
      BY ZenonT(40), <1>0, <3>1, PlacesAre DEF Server
    <3>2. CASE d.pc = "enum" /\ d' # [d EXCEPT !.pc = "next"]
      <4>1. PICK k \in d.look : d' = [d EXCEPT !.look = @ \ {k}, !.todo = IF "waiting" \in bloom[k] THEN Append(@, k) ELSE @]
        BY <1>1, <3>2 DEF Enumerate, Go
      <4>2. PICK look, todo : look = d.look \ {k} /\ todo = IF "waiting" \in bloom[k] THEN Append(d.todo, k) ELSE d.todo
        OBVIOUS
      <4>3. look \in SUBSET Keys /\ todo \in Seq(Keys)
        BY <1>0, <2>1, <4>2, PlacesAre DEF Server
      <4>4. d' = [d EXCEPT !.look = look, !.todo = todo]
        BY <4>1, <4>2
      <4>5. QED
        BY ZenonT(40), <1>0, <3>2, <4>3, <4>4, PlacesAre DEF Server
    <3>3. QED
      BY <1>1, <3>1, <3>2 DEF Enumerate
  <2>3. QED
    BY <1>1, <2>2, TypesStand DEF Enumerate, Store, Begun, UnderWay, Decoding
<1>2. CASE NextKey
  <2>1. Head(d.todo) \in Keys /\ Tail(d.todo) \in Seq(Keys)
    BY <1>0, <1>2, PlacesAre DEF NextKey, Server
  <2>2. d' \in Server /\ d'.key \in Keys
    BY ZenonT(40), <1>0, <1>2, <2>1, PlacesAre DEF NextKey, Server
  <2>3. QED
    BY <1>2, <2>2, TypesStand DEF NextKey, Store
<1>3. CASE PassDone \/ Poll
  <2>1. d' \in Server /\ d'.pc \in {"poll", "enum"}
    <3>1. PICK seen : seen = IF d.cold THEN count ELSE d.cur
      OBVIOUS
    <3>2. seen \in Nat /\ << >> \in Seq(Keys)
      BY <1>0, <3>1, PlacesAre DEF Server
    <3>3. \/ d' = [d EXCEPT !.pc = "poll", !.cold = FALSE, !.todo = << >>, !.cur = 0, !.seen = seen]
          \/ d' = [d EXCEPT !.pc = "enum", !.cur = count, !.look = Keys]
      BY <1>3, <3>1 DEF PassDone, Poll
    <3>4. CASE d' = [d EXCEPT !.pc = "poll", !.cold = FALSE, !.todo = << >>, !.cur = 0, !.seen = seen]
      <4>1. PICK r, q : r = [d EXCEPT !.pc = "poll", !.cold = FALSE] /\ q = [r EXCEPT !.todo = << >>]
        OBVIOUS
      <4>2. r \in Server /\ r.pc = "poll"
        BY ZenonT(40), <1>0, <4>1, PlacesAre DEF Server
      <4>3. q \in Server /\ q.pc = "poll" /\ d' = [q EXCEPT !.cur = 0, !.seen = seen]
        BY ZenonT(40), <3>2, <3>4, <4>1, <4>2 DEF Server
      <4>4. QED
        BY ZenonT(40), <3>2, <4>3 DEF Server
    <3>5. CASE d' = [d EXCEPT !.pc = "enum", !.cur = count, !.look = Keys]
      <4>1. PICK r : r = [d EXCEPT !.pc = "enum", !.cur = count]
        OBVIOUS
      <4>2. r \in Server /\ r.pc = "enum" /\ d' = [r EXCEPT !.look = Keys]
        BY ZenonT(40), <1>0, <3>5, <4>1, PlacesAre DEF Server
      <4>3. QED
        BY <4>2 DEF Server
    <3>6. QED
      BY <3>3, <3>4, <3>5
  <2>2. QED
    BY <1>3, <2>1, TypesStand DEF PassDone, Poll, Store, Begun, UnderWay, Decoding
<1>4. QED
  BY <1>1, <1>2, <1>3

LEMMA LooksTyped ==
  ASSUME CompletionTypeOK, Looks
  PROVE  CompletionTypeOK'
<1>0. /\ d \in Server /\ val \in [Keys -> Value] /\ epoch \in [Keys -> Nat]
      /\ d.pc \in Begun \cup UnderWay => d.key \in Keys
  BY DEF CompletionTypeOK
<1>1. CASE Epoch \/ RawPtr \/ Tokenize \/ Forget
  <2>1. d' \in Server
    <3>1. Skip \/ Go("copy") \/ Go("prompt") \/ Go("unservice") => d' \in Server
      <4>1. ASSUME Skip
            PROVE  d' \in Server
        <5>1. PICK r : r = [d EXCEPT !.pc = "next", !.key = "none"]
          OBVIOUS
        <5>2. r \in Server /\ d' = [r EXCEPT !.e = 0]
          BY ZenonT(40), <1>0, <4>1, <5>1, PlacesAre DEF Skip, Server
        <5>3. QED
          BY ZenonT(40), <5>2 DEF Server
      <4>2. QED
        BY <1>0, <4>1, PlacesAre, Gone DEF Go
    <3>2. CASE Epoch /\ ~ Skip
      <4>1. PICK e : e = epoch[d.key]
        OBVIOUS
      <4>2. e \in Nat /\ d' = [d EXCEPT !.pc = "ptr", !.e = e]
        BY <1>0, <3>2, <4>1 DEF Epoch, Begun
      <4>3. QED
        BY ZenonT(40), <1>0, <4>2, PlacesAre DEF Server
    <3>3. CASE Forget
      BY ZenonT(40), <1>0, <3>3, PlacesAre DEF Forget, Server
    <3>4. QED
      BY <1>1, <3>1, <3>2, <3>3 DEF RawPtr, Tokenize
  <2>2. d'.pc = "next" \/ (d.pc \in Begun \cup UnderWay /\ d'.key = d.key)
    BY ZenonT(40), <1>0, <1>1 DEF Epoch, RawPtr, Tokenize, Forget, Skip, Go, Server, Begun, UnderWay
  <2>3. QED
    BY <1>0, <1>1, <2>1, <2>2, TypesStand DEF Epoch, RawPtr, Tokenize, Forget, Here, Store, Begun, UnderWay, Decoding
<1>2. CASE Copy
  <2>1. Torn \in Value
    BY DEF Torn, User, Value
  <2>2. d.key \in Keys /\ val[d.key] \in Value
    BY <1>0, <1>2 DEF Copy, Begun
  <2>3. d' \in Server /\ d'.key = d.key
    BY ZenonT(40), <1>0, <1>2, <2>1, <2>2, PlacesAre DEF Copy, Server
  <2>4. QED
    BY <1>2, <2>2, <2>3, TypesStand DEF Copy, Here, Store
<1>3. CASE Prefill
  <2>1. d.key \in Keys /\ d.user.req \in Nat /\ PromptLen \in Nat
    BY <1>0, <1>3, CompletionAssumption DEF Prefill, UnderWay, Server, Value
  <2>2. Question \in Keys \X Nat
    BY <2>1 DEF Question
  <2>3. d' \in Server /\ d'.key = d.key
    <3>1. CASE d' = [d EXCEPT !.pc = "sample", !.kv = @ \cup {Question}, !.written = PromptLen]
      <4>1. PICK kv, r : kv = d.kv \cup {Question} /\ r = [d EXCEPT !.pc = "sample", !.written = PromptLen]
        OBVIOUS
      <4>2. kv \in SUBSET (Keys \X Nat)
        BY <1>0, <2>2, <4>1 DEF Server
      <4>3. r \in Server /\ r.key = d.key /\ d' = [r EXCEPT !.kv = kv]
        BY ZenonT(40), <1>0, <2>1, <3>1, <4>1, PlacesAre DEF Server
      <4>4. QED
        BY ZenonT(40), <4>2, <4>3 DEF Server
    <3>2. CASE \E kept \in {{}, {Question}} :
                 d' = [d EXCEPT !.pc = "unservice", !.kv = @ \cup kept, !.refused = @ \cup {Question}]
      <4>1. PICK kept \in {{}, {Question}} :
                   d' = [d EXCEPT !.pc = "unservice", !.kv = @ \cup kept, !.refused = @ \cup {Question}]
        BY <3>2
      <4>2. PICK kv, f, r : kv = d.kv \cup kept /\ f = d.refused \cup {Question} /\ r = [d EXCEPT !.pc = "unservice", !.kv = kv]
        OBVIOUS
      <4>3. kv \in SUBSET (Keys \X Nat) /\ f \in SUBSET (Keys \X Nat)
        BY <1>0, <2>2, <4>2 DEF Server
      <4>4. r \in Server /\ r.key = d.key /\ d' = [r EXCEPT !.refused = f]
        BY ZenonT(40), <1>0, <4>1, <4>2, <4>3, PlacesAre DEF Server
      <4>5. QED
        BY ZenonT(40), <4>3, <4>4 DEF Server
    <3>3. QED
      BY <1>3, <3>1, <3>2 DEF Prefill
  <2>4. QED
    BY <1>3, <2>1, <2>3, TypesStand DEF Prefill, Here, Store
<1>4. CASE Sample
  <2>1. d.key \in Keys
    BY <1>0, <1>4 DEF Sample, UnderWay, Decoding
  <2>2. PICK c : c = Append(d.chunk, << d.kv, d.n + 1 >>)
    OBVIOUS
  <2>3. c \in Seq(Token)
    <3>1. d.chunk \in Seq(Token) /\ d.n \in Nat /\ d.kv \in SUBSET (Keys \X Nat)
      BY ZenonT(40), <1>0 DEF Server
    <3>2. QED
      BY <2>2, <3>1 DEF Token
  <2>4. PICK more : more = [d EXCEPT !.n = @ + 1, !.run = @ + 1, !.chunk = c]
    OBVIOUS
  <2>5. more \in Server /\ more.key = d.key
    <3>1. PICK n, run : n = d.n + 1 /\ run = d.run + 1
      OBVIOUS
    <3>2. d.n \in Nat /\ d.run \in Nat
      BY ZenonT(40), <1>0 DEF Server
    <3>3. n \in Nat /\ run \in Nat
      BY <3>1, <3>2
    <3>4. PICK u, w : u = [d EXCEPT !.n = n] /\ w = [u EXCEPT !.run = run]
      OBVIOUS
    <3>5. u \in Server /\ u.key = d.key
      BY ZenonT(40), <1>0, <3>3, <3>4 DEF Server
    <3>6. w \in Server /\ w.key = d.key
      BY ZenonT(40), <3>3, <3>4, <3>5 DEF Server
    <3>7. more = [w EXCEPT !.chunk = c]
      BY <2>4, <3>1, <3>4
    <3>8. QED
      BY ZenonT(40), <2>3, <3>6, <3>7 DEF Server
  <2>6. \/ d' = [d EXCEPT !.pc = "partial"] \/ d' = more
        \/ d' = [more EXCEPT !.pc = "partial"] \/ d' = [more EXCEPT !.pc = "flush"]
    BY <1>4, <2>2, <2>4 DEF Sample, Go
  <2>7. d' \in Server /\ d'.key = d.key
    <3>1. CASE d' = [d EXCEPT !.pc = "partial"]
      BY ZenonT(40), <1>0, <3>1, PlacesAre DEF Server
    <3>2. CASE d' = more
      BY <2>5, <3>2
    <3>3. CASE d' = [more EXCEPT !.pc = "partial"]
      BY ZenonT(40), <2>5, <3>3, PlacesAre DEF Server
    <3>4. CASE d' = [more EXCEPT !.pc = "flush"]
      BY ZenonT(40), <2>5, <3>4, PlacesAre DEF Server
    <3>5. QED
      BY <2>6, <3>1, <3>2, <3>3, <3>4
  <2>8. QED
    BY <1>4, <2>1, <2>7, TypesStand DEF Sample, Here, Store
<1>5. QED
  BY <1>1, <1>2, <1>3, <1>4 DEF Looks

(* What a step of the daemon makes of its locals.                          *)
SameWork == d'.chunk = d.chunk /\ d'.n = d.n /\ d'.oom = d.oom /\ d'.kv = d.kv /\ d'.refused = d.refused

LEMMA WaitsIs ==
  ASSUME d \in Server
  PROVE  /\ Start => d'.pc = "enum" /\ d'.look = Keys
         /\ Shutdown \/ Kill => d'.pc = "off"
         /\ Start \/ Shutdown \/ Kill => /\ d'.todo = << >> /\ d'.chunk = << >> /\ d'.n = 0 /\ ~ d'.oom /\ d'.kv = {}
                                        /\ d'.refused = d.refused
         /\ Stop => /\ SameWork /\ d'.pc = d.pc /\ d'.key = d.key /\ d'.look = d.look /\ d'.todo = d.todo
                    /\ d'.user = d.user /\ d'.written = d.written
         /\ NextKey => /\ SameWork /\ d.pc = "next" /\ d.todo # << >>
                       /\ d'.pc = "epoch" /\ d'.key = Head(d.todo) /\ d'.todo = Tail(d.todo)
         /\ PassDone => SameWork /\ d.pc = "next" /\ d'.pc = "poll" /\ d'.todo = << >>
         /\ Poll => SameWork /\ d.pc = "poll" /\ d'.pc = "enum" /\ d'.look = Keys /\ d'.todo = d.todo
<1>0. /\ Idle \in Server /\ Idle.pc = "off" /\ Idle.todo = << >> /\ Idle.chunk = << >> /\ Idle.n = 0
      /\ ~ Idle.oom /\ Idle.kv = {} /\ Idle.refused = d.refused
  BY OffTyped, IdleIs
<1>1. Start \/ Shutdown \/ Kill =>
        /\ d'.todo = << >> /\ d'.chunk = << >> /\ d'.n = 0 /\ ~ d'.oom /\ d'.kv = {} /\ d'.refused = d.refused
        /\ Start => d'.pc = "enum" /\ d'.look = Keys
        /\ Shutdown \/ Kill => d'.pc = "off"
  <2>1. CASE Start
    <3>1. /\ d'.todo = Idle.todo /\ d'.chunk = Idle.chunk /\ d'.n = Idle.n /\ d'.oom = Idle.oom /\ d'.kv = Idle.kv
          /\ d'.refused = Idle.refused /\ d'.pc = "enum" /\ d'.look = Keys
      BY ZenonT(40), <1>0, <2>1 DEF Start, Server
    <3>2. ~ (Shutdown \/ Kill)
      BY <2>1 DEF Start, Shutdown, Kill
    <3>3. QED
      BY <1>0, <3>1, <3>2
  <2>2. CASE Shutdown
    <3>1. ~ Start
      BY <2>2 DEF Start, Shutdown
    <3>2. QED
      BY <1>0, <2>2, <3>1 DEF Shutdown
  <2>3. CASE Kill
    <3>1. /\ d'.todo = Idle.todo /\ d'.chunk = Idle.chunk /\ d'.n = Idle.n /\ d'.oom = Idle.oom /\ d'.kv = Idle.kv
          /\ d'.refused = Idle.refused /\ d'.pc = Idle.pc
      BY ZenonT(40), <1>0, <2>3 DEF Kill, Server
    <3>2. ~ Start
      BY <2>3 DEF Start, Kill
    <3>3. QED
      BY <1>0, <3>1, <3>2
  <2>4. QED
    BY <2>1, <2>2, <2>3
<1>2. Stop => /\ SameWork /\ d'.pc = d.pc /\ d'.key = d.key /\ d'.look = d.look /\ d'.todo = d.todo
              /\ d'.user = d.user /\ d'.written = d.written
  BY DEF Stop, SameWork, Server
<1>3. NextKey => /\ SameWork /\ d.pc = "next" /\ d.todo # << >>
                 /\ d'.pc = "epoch" /\ d'.key = Head(d.todo) /\ d'.todo = Tail(d.todo)
  BY DEF NextKey, SameWork, Server
<1>4. PassDone => SameWork /\ d.pc = "next" /\ d'.pc = "poll" /\ d'.todo = << >>
  BY DEF PassDone, SameWork, Server
<1>5. Poll => SameWork /\ d.pc = "poll" /\ d'.pc = "enum" /\ d'.look = Keys /\ d'.todo = d.todo
  BY DEF Poll, SameWork, Server
<1>6. QED
  BY <1>1, <1>2, <1>3, <1>4, <1>5

LEMMA EnumerateIs ==
  ASSUME d \in Server, Enumerate
  PROVE  /\ SameWork /\ d.pc = "enum"
         /\ \/ d'.pc = "next" /\ d'.todo = d.todo
            \/ /\ d'.pc = "enum"
               /\ \E k \in d.look : /\ d'.look = d.look \ {k}
                                   /\ d'.todo = IF "waiting" \in bloom[k] THEN Append(d.todo, k) ELSE d.todo
<1>1. CASE d' = [d EXCEPT !.pc = "next"]
  BY ZenonT(40), <1>1 DEF SameWork, Enumerate, Server
<1>2. CASE d' # [d EXCEPT !.pc = "next"]
  <2>1. PICK k \in d.look : d' = [d EXCEPT !.look = @ \ {k}, !.todo = IF "waiting" \in bloom[k] THEN Append(@, k) ELSE @]
    BY <1>2 DEF Enumerate, Go
  <2>2. QED
    BY ZenonT(40), <2>1 DEF SameWork, Enumerate, Server
<1>3. QED
  BY <1>1, <1>2

LEMMA LooksIs ==
  ASSUME d \in Server
  PROVE  /\ Epoch \/ RawPtr \/ Copy \/ Tokenize \/ Prefill \/ Sample \/ Forget => d'.todo = d.todo
         /\ Skip => SameWork /\ d'.pc = "next"
         /\ Epoch => \/ Skip
                     \/ SameWork /\ d'.pc = "ptr" /\ d'.key = d.key
         /\ RawPtr => \/ Skip
                      \/ SameWork /\ d'.pc = "copy" /\ d'.key = d.key
         /\ Copy => /\ SameWork /\ d'.pc = "unwait" /\ d'.key = d.key
                    /\ d'.user = IF Odd(epoch[d.key]) THEN Torn ELSE val[d.key]
         /\ Tokenize => /\ SameWork /\ d'.pc \in {"prompt", "unservice"} /\ d'.key = d.key /\ d'.user = d.user
         /\ Prefill => /\ d'.chunk = d.chunk /\ d'.n = d.n /\ d'.oom = d.oom /\ d'.key = d.key /\ d'.user = d.user
                       /\ \/ d'.pc = "unservice" /\ d'.kv \subseteq d.kv \cup {Question} /\ d'.refused = d.refused \cup {Question}
                          \/ /\ d'.pc = "sample" /\ d'.written = PromptLen
                             /\ d'.kv = d.kv \cup {Question} /\ d'.refused = d.refused
         /\ Sample => d'.refused = d.refused
         /\ Forget => /\ d'.pc = "unservice" /\ d'.kv = {} /\ d'.key = d.key /\ d'.user = d.user /\ d'.refused = d.refused
<1>0. Skip => SameWork /\ d'.pc = "next" /\ d'.todo = d.todo
  BY DEF Skip, SameWork, Server
<1>1. Epoch => /\ d'.todo = d.todo
               /\ \/ Skip
                  \/ SameWork /\ d'.pc = "ptr" /\ d'.key = d.key
  <2>1. ASSUME Epoch, ~ Skip
        PROVE  SameWork /\ d'.pc = "ptr" /\ d'.key = d.key /\ d'.todo = d.todo
    BY ZenonT(40), <2>1 DEF Epoch, SameWork, Server
  <2>2. QED
    BY <1>0, <2>1
<1>2. RawPtr => /\ d'.todo = d.todo
                /\ \/ Skip
                   \/ SameWork /\ d'.pc = "copy" /\ d'.key = d.key
  <2>1. ASSUME RawPtr, ~ Skip
        PROVE  SameWork /\ d'.pc = "copy" /\ d'.key = d.key /\ d'.todo = d.todo
    BY <2>1 DEF RawPtr, Go, SameWork, Server
  <2>2. QED
    BY <1>0, <2>1
<1>3. Copy => /\ SameWork /\ d'.pc = "unwait" /\ d'.key = d.key /\ d'.todo = d.todo
              /\ d'.user = IF Odd(epoch[d.key]) THEN Torn ELSE val[d.key]
  BY DEF Copy, SameWork, Server
<1>4. Tokenize => /\ SameWork /\ d'.pc \in {"prompt", "unservice"} /\ d'.key = d.key /\ d'.user = d.user /\ d'.todo = d.todo
  BY DEF Tokenize, Go, SameWork, Server
<1>5. Prefill => /\ d'.chunk = d.chunk /\ d'.n = d.n /\ d'.oom = d.oom /\ d'.key = d.key /\ d'.user = d.user /\ d'.todo = d.todo
                 /\ \/ d'.pc = "unservice" /\ d'.kv \subseteq d.kv \cup {Question} /\ d'.refused = d.refused \cup {Question}
                    \/ /\ d'.pc = "sample" /\ d'.written = PromptLen
                       /\ d'.kv = d.kv \cup {Question} /\ d'.refused = d.refused
  <2>1. ASSUME d' = [d EXCEPT !.pc = "sample", !.kv = @ \cup {Question}, !.written = PromptLen]
        PROVE  /\ d'.chunk = d.chunk /\ d'.n = d.n /\ d'.oom = d.oom /\ d'.key = d.key /\ d'.user = d.user /\ d'.todo = d.todo
               /\ d'.pc = "sample" /\ d'.written = PromptLen /\ d'.kv = d.kv \cup {Question} /\ d'.refused = d.refused
    BY <2>1 DEF Server
  <2>2. ASSUME NEW kept \in {{}, {Question}},
               d' = [d EXCEPT !.pc = "unservice", !.kv = @ \cup kept, !.refused = @ \cup {Question}]
        PROVE  /\ d'.chunk = d.chunk /\ d'.n = d.n /\ d'.oom = d.oom /\ d'.key = d.key /\ d'.user = d.user /\ d'.todo = d.todo
               /\ d'.pc = "unservice" /\ d'.kv \subseteq d.kv \cup {Question} /\ d'.refused = d.refused \cup {Question}
    BY <2>2 DEF Server
  <2>3. QED
    BY <2>1, <2>2 DEF Prefill
<1>6. Forget => /\ d'.pc = "unservice" /\ d'.kv = {} /\ d'.key = d.key /\ d'.user = d.user /\ d'.todo = d.todo
                /\ d'.refused = d.refused
  BY DEF Forget, Server
<1>7. Sample => d'.todo = d.todo /\ d'.refused = d.refused
  BY ZenonT(40) DEF Sample, Go, Server
<1>8. QED
  BY <1>0, <1>1, <1>2, <1>3, <1>4, <1>5, <1>6, <1>7

-----------------------------------------------------------------------------
(* What the daemon does between two questions, and what is done to it.     *)

LEMMA Stands ==
  ASSUME Waits \/ Looks
  PROVE  val' = val /\ epoch' = epoch /\ bloom' = bloom /\ count' = count /\ cl' = cl
BY DEF Waits, Looks, Start, Enumerate, NextKey, PassDone, Poll, Shutdown, Stop, Kill, Epoch, RawPtr, Copy, Tokenize, Prefill,
   Sample, Forget, Store, Here

LEMMA QueuedWaits ==
  ASSUME CompletionInv, Waits
  PROVE  Queued'
<1>0. /\ d \in Server /\ Queued /\ bloom' = bloom /\ d.todo \in Seq(Keys) /\ d.look \in SUBSET Keys
      /\ bloom \in [Keys -> {{}, {"waiting"}, {"servicing"}, {"ready"}}]
  BY ZenonT(40), Stands DEF CompletionInv, CompletionTypeOK, Server
<1>1. CASE Start \/ Shutdown \/ Kill \/ PassDone
  <2>1. d'.todo = << >> /\ d'.pc \in {"enum", "off", "poll"}
    BY <1>0, <1>1, WaitsIs
  <2>2. QED
    BY <2>1 DEF Queued, Listed, Begun
<1>2. CASE Stop
  BY <1>0, <1>2, WaitsIs DEF Queued, Listed
<1>3. CASE Poll
  <2>1. d'.todo = << >> /\ d'.pc = "enum"
    BY <1>0, <1>3, WaitsIs DEF Queued
  <2>2. QED
    BY <2>1 DEF Queued, Listed, Begun
<1>4. CASE NextKey
  <2>1. PICK t : t = d.todo
    OBVIOUS
  <2>2. /\ t \in Seq(Keys) /\ t # << >> /\ d'.pc = "epoch" /\ d'.key = t[1] /\ d'.todo = Tail(t)
        /\ \A i \in DOMAIN t : bloom[t[i]] = {"waiting"}
        /\ \A i, j \in DOMAIN t : t[i] = t[j] => i = j
    BY <1>0, <1>4, <2>1, WaitsIs DEF Queued, Listed
  <2>3. /\ 1 \in DOMAIN t
        /\ \A i \in DOMAIN Tail(t) : i + 1 \in DOMAIN t /\ Tail(t)[i] = t[i + 1] /\ i \in Nat /\ i # 0
    BY <2>2
  <2>4. \A i \in DOMAIN Tail(t) : bloom[Tail(t)[i]] = {"waiting"} /\ Tail(t)[i] # t[1]
    BY <2>2, <2>3
  <2>5. \A i, j \in DOMAIN Tail(t) : Tail(t)[i] = Tail(t)[j] => i = j
    <3>1. ASSUME NEW i \in DOMAIN Tail(t), NEW j \in DOMAIN Tail(t), Tail(t)[i] = Tail(t)[j]
          PROVE  i = j
      <4>1. i + 1 = j + 1
        BY <2>2, <2>3, <3>1
      <4>2. QED
        BY <2>3, <4>1
    <3>2. QED
      BY <3>1
  <2>6. QED
    BY <1>0, <2>2, <2>3, <2>4, <2>5 DEF Queued, Listed, Begun
<1>5. CASE Enumerate
  <2>1. d.pc = "enum" /\ \A k \in d.look : ~ Listed(k)
    BY <1>0, <1>5 DEF Enumerate, Queued
  <2>2. CASE d'.todo = d.todo
    <3>1. d'.pc = "next" \/ (d'.pc = "enum" /\ \A k \in d'.look : k \in d.look)
      BY <1>0, <1>5, <2>2, EnumerateIs
    <3>2. QED
      BY <1>0, <2>1, <2>2, <3>1 DEF Queued, Listed, Begun
  <2>3. CASE d'.todo # d.todo
    <3>1. PICK k \in d.look : d'.look = d.look \ {k} /\ d'.todo = Append(d.todo, k) /\ "waiting" \in bloom[k] /\ d'.pc = "enum"
      BY <1>0, <1>5, <2>3, EnumerateIs
    <3>2. PICK t, u : t = d.todo /\ u = Append(t, k)
      OBVIOUS
    <3>3. /\ t \in Seq(Keys) /\ k \in Keys /\ bloom[k] = {"waiting"}
          /\ \A i \in DOMAIN t : bloom[t[i]] = {"waiting"} /\ t[i] \notin d.look /\ t[i] \in Keys
          /\ \A i, j \in DOMAIN t : t[i] = t[j] => i = j
      <4>1. t \in Seq(Keys) /\ k \in Keys /\ bloom[k] = {"waiting"}
        BY <1>0, <3>1, <3>2
      <4>2. \A i \in DOMAIN t : t[i] \in Keys /\ Listed(t[i])
        BY <3>2, <4>1 DEF Listed
      <4>3. \A i \in DOMAIN t : bloom[t[i]] = {"waiting"} /\ t[i] \notin d.look
        BY <1>0, <2>1, <4>2 DEF Queued
      <4>4. \A i, j \in DOMAIN t : t[i] = t[j] => i = j
        BY <1>0, <3>2 DEF Queued
      <4>5. QED
        BY <4>1, <4>2, <4>3, <4>4
    <3>4. \A i \in DOMAIN u : (i \in DOMAIN t /\ u[i] = t[i]) \/ (i = Len(t) + 1 /\ u[i] = k)
      BY <3>2, <3>3
    <3>5. \A i \in DOMAIN u : bloom[u[i]] = {"waiting"} /\ u[i] \notin d.look \ {k}
      BY <3>3, <3>4
    <3>6. \A i, j \in DOMAIN u : u[i] = u[j] => i = j
      BY <3>1, <3>3, <3>4
    <3>7. d'.todo = u /\ d'.look = d.look \ {k} /\ d'.pc = "enum"
      BY <3>1, <3>2
    <3>8. QED
      BY <1>0, <3>5, <3>6, <3>7 DEF Queued, Listed, Begun
  <2>4. QED
    BY <2>2, <2>3
<1>6. QED
  BY <1>1, <1>2, <1>3, <1>4, <1>5 DEF Waits

LEMMA WaitsKept ==
  ASSUME CompletionInv, Waits
  PROVE  CompletionInv'
<1>0. /\ CompletionTypeOK /\ d \in Server /\ Asking /\ Serving /\ Fresh
      /\ val' = val /\ epoch' = epoch /\ bloom' = bloom /\ count' = count /\ cl' = cl
  BY Stands DEF CompletionInv, CompletionTypeOK
<1>1. CompletionTypeOK'
  BY <1>0, StopsTyped, LoopTyped DEF Waits
<1>2. Asking'
  <2>1. d'.refused = d.refused
    BY <1>0, WaitsIs, EnumerateIs DEF Waits, SameWork
  <2>2. QED
    BY <1>0, <2>1, AskingStands
<1>3. Queued'
  BY QueuedWaits
<1>4. CASE Stop
  <2>1. /\ SameWork /\ d'.pc = d.pc /\ d'.key = d.key /\ d'.user = d.user /\ d'.written = d.written
    BY <1>0, <1>4, WaitsIs
  <2>2. Serving'
    BY <1>0, <2>1 DEF Serving, SameWork, Answered, Drawn, Question
  <2>3. Fresh'
    BY <1>0, <2>1 DEF Fresh, SameWork, Question
  <2>4. QED
    BY <1>1, <1>2, <1>3, <2>2, <2>3 DEF CompletionInv
<1>5. CASE ~ Stop
  <2>1. d'.pc \in {"off", "enum", "next", "poll", "epoch"}
    BY <1>0, <1>5, WaitsIs, EnumerateIs DEF Waits
  <2>2. (d'.kv = {} /\ d'.chunk = << >> /\ d'.n = 0 /\ ~ d'.oom) \/ (SameWork /\ d.pc \in {"enum", "next", "poll"})
    BY <1>0, <1>5, WaitsIs, EnumerateIs DEF Waits
  <2>3. Serving'
    BY <2>1 DEF Serving, UnderWay, Decoding
  <2>4. Fresh'
    BY <1>0, <2>1, <2>2 DEF Fresh, SameWork, Decoding
  <2>5. QED
    BY <1>1, <1>2, <1>3, <2>3, <2>4 DEF CompletionInv
<1>6. QED
  BY <1>4, <1>5

-----------------------------------------------------------------------------
(* What the daemon reads, and what it asks the model.                      *)

LEMMA QueuedGoesOn ==
  ASSUME Queued, d'.todo = d.todo, bloom' = bloom, d'.pc \notin {"off", "poll", "enum"},
         d'.pc \in Begun => d.pc \in Begun /\ d'.key = d.key
  PROVE  Queued'
BY DEF Queued, Listed, Begun

LEMMA LooksKept ==
  ASSUME Orderly, CompletionInv, Looks
  PROVE  CompletionInv'
<1>0. /\ CompletionTypeOK /\ d \in Server /\ Asking /\ Queued /\ Serving /\ Fresh
      /\ val' = val /\ epoch' = epoch /\ bloom' = bloom /\ count' = count /\ cl' = cl
      /\ val \in [Keys -> Value] /\ cl \in [Keys -> Asker]
      /\ d.pc \in Begun \cup UnderWay => d.key \in Keys
  BY Stands DEF CompletionInv, CompletionTypeOK
<1>1. CompletionTypeOK' /\ Asking'
  <2>1. d.refused \subseteq d'.refused
    BY <1>0, LooksIs DEF Looks, SameWork
  <2>2. QED
    BY <1>0, <2>1, LooksTyped, AskingStands
<1>2. CASE Skip /\ (Epoch \/ RawPtr)
  <2>1. SameWork /\ d'.pc = "next" /\ d'.todo = d.todo /\ d.pc \in {"epoch", "ptr"}
    BY <1>0, <1>2, LooksIs DEF Epoch, RawPtr
  <2>2. Queued' /\ Serving' /\ Fresh'
    BY <1>0, <2>1, QueuedGoesOn DEF Serving, Fresh, SameWork, Begun, UnderWay, Decoding
  <2>3. QED
    BY <1>1, <2>2 DEF CompletionInv
<1>3. CASE ~ Skip /\ (Epoch \/ RawPtr)
  <2>1. SameWork /\ d'.pc \in {"ptr", "copy"} /\ d'.key = d.key /\ d'.todo = d.todo /\ d.pc \in {"epoch", "ptr"}
    BY <1>0, <1>3, LooksIs DEF Epoch, RawPtr
  <2>2. Queued' /\ Serving' /\ Fresh'
    BY <1>0, <2>1, QueuedGoesOn DEF Serving, Fresh, SameWork, Begun, UnderWay, Decoding
  <2>3. QED
    BY <1>1, <2>2 DEF CompletionInv
<1>4. CASE Copy
  <2>1. /\ SameWork /\ d'.pc = "unwait" /\ d'.key = d.key /\ d'.todo = d.todo /\ d.pc = "copy"
        /\ d'.user = IF Odd(epoch[d.key]) THEN Torn ELSE val[d.key]
    BY <1>0, <1>4, LooksIs DEF Copy
  <2>2. bloom[d.key] = {"waiting"} /\ d.key \in Keys
    BY <1>0, <2>1 DEF Queued, Begun
  <2>3. ~ Odd(epoch[d.key])
    BY <1>0, <2>2 DEF Asking
  <2>4. Queued' /\ Serving' /\ Fresh'
    BY <1>0, <2>1, <2>3, QueuedGoesOn DEF Serving, Fresh, SameWork, Begun, UnderWay, Decoding
  <2>5. QED
    BY <1>1, <2>4 DEF CompletionInv
<1>5. CASE Tokenize
  <2>1. /\ SameWork /\ d'.pc \in {"prompt", "unservice"} /\ d'.key = d.key /\ d'.user = d.user /\ d'.todo = d.todo
        /\ d.pc = "tokenize"
    BY <1>0, <1>5, LooksIs DEF Tokenize
  <2>2. Queued' /\ Fresh'
    BY <1>0, <2>1, QueuedGoesOn DEF Fresh, SameWork, Begun, UnderWay, Decoding
  <2>3. Serving'
    BY <1>0, <2>1 DEF Serving, Answered, Drawn, SameWork, UnderWay, Decoding
  <2>4. QED
    BY <1>1, <2>2, <2>3 DEF CompletionInv
<1>6. CASE Prefill
  <2>0. /\ d'.chunk = d.chunk /\ d'.n = d.n /\ d'.oom = d.oom /\ d'.key = d.key /\ d'.user = d.user /\ d'.todo = d.todo
        /\ d.pc = "prefill"
        /\ \/ d'.pc = "unservice" /\ d'.kv \subseteq d.kv \cup {Question} /\ d'.refused = d.refused \cup {Question}
           \/ /\ d'.pc = "sample" /\ d'.written = PromptLen
              /\ d'.kv = d.kv \cup {Question} /\ d'.refused = d.refused
    BY <1>0, <1>6, LooksIs DEF Prefill
  <2>1. /\ cl[d.key].pc = "await" /\ d.user = User(cl[d.key].asked) /\ Answered(d.key)
        /\ bloom[d.key] = {"servicing"} /\ val[d.key] = Prompt(cl[d.key].asked)
        /\ d.kv \subseteq d.refused /\ d.chunk = << >> /\ d.n = 0 /\ ~ d.oom /\ d.key \in Keys
    BY <1>0, <2>0 DEF Serving, Fresh, UnderWay, Decoding
  <2>2. Question' = Question
    BY <2>0 DEF Question
  <2>3. Queued' /\ Fresh'
    <3>1. Queued'
      BY <1>0, <2>0, <2>1, QueuedGoesOn DEF Begun
    <3>2. d'.kv \subseteq d'.refused \cup IF d'.pc \in Decoding \cup {"clear"} THEN {Question'} ELSE {}
      BY <2>0, <2>1, <2>2 DEF Decoding
    <3>3. QED
      BY <1>0, <2>0, <2>1, <3>1, <3>2 DEF Fresh, Decoding
  <2>4. /\ Size(val[d.key]) = PromptLen /\ val[d.key].kind = "prompt" /\ val[d.key].toks = << >>
    BY <2>0, <2>1, CompletionAssumption DEF User, Prompt, Size
  <2>5. Serving'
    <3>1. Answered(d.key)'
      <4>1. PICK k : k = d.key
        OBVIOUS
      <4>2. Answered(k)'
        BY <1>0, <2>0, <2>1, <4>1, AnsweredStands
      <4>3. QED
        BY <2>0, <4>1, <4>2 DEF Answered, Drawn
    <3>2. PromptLen <= MaxVal
      BY DEF Orderly
    <3>3. Size(val[d.key]) = Size(val'[d'.key])
      BY <1>0, <2>0
    <3>4. d'.pc = "sample" => Question' \in d'.kv
      BY <2>0, <2>2
    <3>5. QED
      BY <1>0, <2>0, <2>1, <2>4, <3>1, <3>2, <3>3, <3>4 DEF Serving, UnderWay, Decoding
  <2>6. QED
    BY <1>1, <2>3, <2>5 DEF CompletionInv
<1>7. CASE Forget
  <2>1. /\ d'.pc = "unservice" /\ d'.kv = {} /\ d'.key = d.key /\ d'.user = d.user /\ d'.todo = d.todo /\ d.pc = "clear"
        /\ d'.refused = d.refused
    BY <1>0, <1>7, LooksIs DEF Forget
  <2>2. Queued' /\ Fresh'
    BY <1>0, <2>1, QueuedGoesOn DEF Fresh, Begun, UnderWay, Decoding
  <2>3. Serving'
    BY <1>0, <2>1 DEF Serving, Answered, Drawn, UnderWay, Decoding
  <2>4. QED
    BY <1>1, <2>2, <2>3 DEF CompletionInv
<1>8. CASE Sample
  <2>0. /\ d.pc = "sample" /\ d.key \in Keys
        /\ d.kv \in SUBSET (Keys \X Nat) /\ d.n \in Nat /\ d.chunk \in Seq(Token)
    BY <1>0, <1>8 DEF Sample, UnderWay, Decoding, Server
  <2>1. /\ cl[d.key].pc = "await" /\ d.user = User(cl[d.key].asked) /\ Answered(d.key)
        /\ bloom[d.key] = {"servicing"}
        /\ Question \in d.kv /\ val[d.key].kind = "prompt"
        /\ ~ d.oom /\ d.written = Size(val[d.key]) /\ d.written <= MaxVal
        /\ d.n = Len(val[d.key].toks) + Len(d.chunk)
        /\ \A i \in DOMAIN d.chunk : Drawn(d.chunk[i], d.key, Len(val[d.key].toks) + i)
        /\ d.kv \subseteq d.refused \cup {Question}
    BY <1>0, <2>0 DEF Serving, Fresh, UnderWay, Decoding
  <2>2. PICK c, b : c = Append(d.chunk, << d.kv, d.n + 1 >>) /\ b = Len(val[d.key].toks)
    OBVIOUS
  <2>3. /\ b \in Nat /\ << d.kv, d.n + 1 >> \in Token /\ From(d.chunk, d.key, cl[d.key].asked, b)
        /\ Made(<< d.kv, d.n + 1 >>, d.key, cl[d.key].asked, b + Len(d.chunk) + 1)
    <3>1. val[d.key] \in Value /\ val[d.key].toks \in Seq(Token)
      BY <1>0, <2>0 DEF Value
    <3>2. b \in Nat /\ Len(d.chunk) \in Nat /\ d.n = b + Len(d.chunk)
      <4>1. Len(val[d.key].toks) \in Nat
        BY <3>1
      <4>2. Len(d.chunk) \in Nat
        BY <2>0
      <4>3. QED
        BY <2>1, <2>2, <4>1, <4>2
    <3>3. d.n + 1 \in Nat /\ d.n + 1 = b + Len(d.chunk) + 1
      BY <2>0, <3>2
    <3>4. << d.kv, d.n + 1 >> \in Token
      BY <2>0, <3>3 DEF Token
    <3>5. From(d.chunk, d.key, cl[d.key].asked, b)
      BY <2>1, <2>2 DEF From, Made, Drawn
    <3>6. Question = << d.key, cl[d.key].asked >>
      BY <2>1 DEF Question, User
    <3>7. Made(<< d.kv, d.n + 1 >>, d.key, cl[d.key].asked, b + Len(d.chunk) + 1)
      BY <2>1, <3>3, <3>6 DEF Made
    <3>8. QED
      BY <3>2, <3>4, <3>5, <3>7
  <2>4. c \in Seq(Token) /\ Len(c) = Len(d.chunk) + 1 /\ From(c, d.key, cl[d.key].asked, b)
    <3>1. PICK x, k, r, t : x = << d.kv, d.n + 1 >> /\ k = d.key /\ r = cl[d.key].asked /\ t = d.chunk
      OBVIOUS
    <3>2. /\ b \in Nat /\ t \in Seq(Token) /\ x \in Token /\ From(t, k, r, b)
          /\ Made(x, k, r, b + Len(t) + 1)
      BY <2>0, <2>3, <3>1
    <3>3. Append(t, x) \in Seq(Token) /\ Len(Append(t, x)) = Len(t) + 1 /\ From(Append(t, x), k, r, b)
      BY <3>2, Longer
    <3>4. QED
      BY <2>2, <3>1, <3>3
  <2>5. /\ d'.pc \in {"sample", "partial", "flush"} /\ d'.todo = d.todo /\ d'.key = d.key /\ d'.user = d.user
        /\ d'.kv = d.kv /\ d'.oom = d.oom /\ d'.written = d.written /\ d'.refused = d.refused
        /\ \/ d'.chunk = d.chunk /\ d'.n = d.n
           \/ d'.chunk = c /\ d'.n = d.n + 1
    <3>1. PICK more : more = [d EXCEPT !.n = @ + 1, !.run = @ + 1, !.chunk = c]
      OBVIOUS
    <3>2. \/ d' = [d EXCEPT !.pc = "partial"] \/ d' = more
          \/ d' = [more EXCEPT !.pc = "partial"] \/ d' = [more EXCEPT !.pc = "flush"]
      BY <1>8, <2>2, <3>1 DEF Sample, Go
    <3>3. QED
      BY ZenonT(40), <1>0, <2>0, <3>1, <3>2 DEF Server
  <2>6. Queued' /\ Fresh'
    BY <1>0, <2>0, <2>5, QueuedGoesOn DEF Fresh, Question, Begun, UnderWay, Decoding
  <2>7. Serving'
    <3>1. Answered(d.key)' /\ Size(val[d.key]) = Size(val'[d'.key]) /\ Question' = Question
      BY <1>0, <2>1, <2>5 DEF Answered, Drawn, Question
    <3>2. d'.n = b + Len(d'.chunk) /\ From(d'.chunk, d.key, cl[d.key].asked, b)
      <4>1. CASE d'.chunk = d.chunk /\ d'.n = d.n
        BY <2>1, <2>2, <2>3, <4>1
      <4>2. CASE d'.chunk = c /\ d'.n = d.n + 1
        <5>1. d.n + 1 = b + Len(c)
          <6>1. Len(d.chunk) \in Nat
            BY <2>0
          <6>2. d.n = b + Len(d.chunk)
            BY <2>1, <2>2
          <6>3. b \in Nat /\ Len(c) = Len(d.chunk) + 1
            BY <2>3, <2>4
          <6>4. QED
            BY <6>1, <6>2, <6>3
        <5>2. QED
          BY <2>4, <4>2, <5>1
      <4>3. QED
        BY <2>5, <4>1, <4>2
    <3>3. \A i \in DOMAIN d'.chunk : Drawn(d.chunk[i], d.key, b + i)'
      BY <1>0, <2>5, <3>2 DEF From, Made, Drawn
    <3>4. QED
      BY ZenonT(40), <1>0, <2>0, <2>1, <2>2, <2>5, <3>1, <3>2, <3>3 DEF Serving, UnderWay, Decoding
  <2>8. QED
    BY <1>1, <2>6, <2>7 DEF CompletionInv
<1>9. QED
  BY <1>2, <1>3, <1>4, <1>5, <1>6, <1>7, <1>8 DEF Looks

-----------------------------------------------------------------------------
(* The label's transitions.                                                *)

(* A step of the daemon that writes leaves these alone.                    *)
SameHand == d'.key = d.key /\ d'.user = d.user /\ d'.todo = d.todo /\ d'.look = d.look

LEMMA PulsesNat == \A L : Pulses(L) \in Nat
BY DEF Pulses

LEMMA RelabelKept ==
  ASSUME CompletionInv, NEW l, NEW L \in {{}, {"servicing"}, {"ready"}},
         NEW m \in Places \ (Begun \cup {"off", "poll", "enum"}), Relabel(l, L, m),
         d.key \in Keys, cl[d.key].pc = "await", ~ Listed(d.key), L = {"ready"} => Answered(d.key)
  PROVE  /\ CompletionTypeOK' /\ Asking' /\ Queued' /\ SameWork /\ SameHand
         /\ d.pc = l /\ d'.pc = m /\ d'.written = d.written
         /\ bloom' = [bloom EXCEPT ![d.key] = L] /\ bloom'[d.key] = L
         /\ val' = val /\ epoch' = epoch /\ cl' = cl /\ (Answered(d.key)' <=> Answered(d.key))
<1>0. /\ CompletionTypeOK /\ Asking /\ Queued /\ d \in Server /\ count \in Nat
      /\ bloom \in [Keys -> {{}, {"waiting"}, {"servicing"}, {"ready"}}]
  BY DEF CompletionInv, CompletionTypeOK
<1>1. /\ bloom' = [bloom EXCEPT ![d.key] = L] /\ val' = val /\ epoch' = epoch /\ cl' = cl
      /\ d' = [d EXCEPT !.pc = m] /\ d.pc = l
  BY DEF Relabel, Go
<1>2. /\ d' \in Server /\ SameWork /\ SameHand /\ d'.pc = m /\ d'.written = d.written
  <2>1. d' \in Server
    BY <1>0, <1>1, Gone
  <2>2. QED
    BY ZenonT(40), <1>0, <1>1, <2>1 DEF SameWork, SameHand, Server
<1>3. count' \in Nat
  <2>1. PICK p \in Nat : count' = count + p
    <3>1. CASE L \subseteq bloom[d.key]
      BY <3>1, PulsesNat DEF Relabel
    <3>2. CASE ~ (L \subseteq bloom[d.key])
      BY <3>2, PulsesNat DEF Relabel
    <3>3. QED
      BY <3>1, <3>2
  <2>2. QED
    BY <1>0, <2>1
<1>4. bloom'[d.key] = L /\ \A k \in Keys \ {d.key} : bloom'[k] = bloom[k]
  BY <1>0, <1>1
<1>5. bloom' \in [Keys -> {{}, {"waiting"}, {"servicing"}, {"ready"}}]
  BY <1>0, <1>1
<1>6. CompletionTypeOK'
  BY <1>0, <1>1, <1>2, <1>3, <1>5 DEF CompletionTypeOK, SameHand
<1>7. \A k \in Keys : Answered(k)' <=> Answered(k)
  BY <1>1, <1>2, AnsweredSame DEF SameWork
<1>8. Asking'
  <2>1. ASSUME NEW k \in Keys
        PROVE  /\ Odd(epoch'[k]) <=> cl'[k].pc = "set"
               /\ cl'[k].pc # "await" => bloom'[k] = {}
               /\ cl'[k].pc = "label" \/ bloom'[k] = {"waiting"} => val'[k] = User(cl'[k].asked)
               /\ bloom'[k] = {"ready"} => Answered(k)'
    <3>1. CASE k = d.key
      <4>1. L # {"waiting"}
        OBVIOUS
      <4>2. QED
        BY <1>0, <1>1, <1>4, <1>7, <3>1, <4>1 DEF Asking
    <3>2. CASE k # d.key
      BY <1>0, <1>1, <1>4, <1>7, <3>2 DEF Asking
    <3>3. QED
      BY <3>1, <3>2
  <2>2. QED
    BY <2>1 DEF Asking
<1>9. Queued'
  <2>1. d'.todo = d.todo /\ d'.pc \notin Begun \cup {"off", "poll", "enum"}
    BY <1>2 DEF SameHand
  <2>2. d.todo \in Seq(Keys) /\ \A i \in DOMAIN d.todo : d.todo[i] # d.key
    BY <1>0, PlacesAre DEF Server, Listed
  <2>3. QED
    BY <1>0, <1>4, <2>1, <2>2 DEF Queued, Listed
<1>10. Answered(d.key)' <=> Answered(d.key)
  BY <1>1, <1>2 DEF Answered, Drawn, SameHand, SameWork
<1>11. QED
  BY <1>1, <1>2, <1>4, <1>6, <1>8, <1>9, <1>10

(* Nobody else has the key in hand.                                        *)
LEMMA InHand ==
  ASSUME CompletionInv, d.pc \in UnderWay \cup {"unwait"}
  PROVE  d.key \in Keys /\ cl[d.key].pc = "await" /\ ~ Listed(d.key) /\ ~ Odd(epoch[d.key])
<1>1. CompletionTypeOK /\ Asking /\ Queued /\ Serving
  BY DEF CompletionInv
<1>2. d.key \in Keys
  BY <1>1 DEF CompletionTypeOK, Begun
<1>3. CASE d.pc = "unwait"
  <2>1. bloom[d.key] = {"waiting"} /\ ~ Listed(d.key)
    BY <1>1, <1>3 DEF Queued, Begun
  <2>2. QED
    BY <1>1, <1>2, <2>1 DEF Asking
<1>4. CASE d.pc \in UnderWay
  <2>1. bloom[d.key] # {"waiting"} /\ cl[d.key].pc = "await"
    BY <1>1, <1>4 DEF Serving
  <2>2. QED
    BY <1>1, <1>2, <2>1 DEF Asking, Queued
<1>5. QED
  BY <1>3, <1>4

LEMMA LabelsKept ==
  ASSUME CompletionInv, Unwait \/ Service \/ Unservice \/ MarkReady
  PROVE  CompletionInv'
<1>0. /\ Asking /\ Queued /\ Serving /\ Fresh
      /\ d.pc \in {"unwait", "service", "unservice", "ready"}
  BY DEF CompletionInv, Unwait, Service, Unservice, MarkReady, Relabel
<1>1. d.key \in Keys /\ cl[d.key].pc = "await" /\ ~ Listed(d.key)
  BY <1>0, InHand DEF UnderWay
<1>2. /\ {"service", "bump1", "ready", "bump2"} \subseteq Places \ (Begun \cup {"off", "poll", "enum"})
  BY PlacesAre DEF Begun
<1>3. CASE Unwait
  <2>1. d.pc = "unwait" /\ bloom[d.key] = {"waiting"}
    BY <1>0, <1>3 DEF Unwait, Relabel, Queued, Begun
  <2>2. Relabel("unwait", {}, "service")
    <3>1. bloom[d.key] \ {"waiting"} = {}
      BY <2>1
    <3>2. QED
      BY <1>3, <3>1 DEF Unwait
  <2>3. /\ CompletionTypeOK' /\ Asking' /\ Queued' /\ SameWork /\ SameHand /\ d'.pc = "service"
        /\ bloom'[d.key] = {} /\ val' = val /\ cl' = cl /\ (Answered(d.key)' <=> Answered(d.key))
    BY <1>1, <1>2, <2>2, RelabelKept
  <2>4. val[d.key] = User(cl[d.key].asked) /\ d.user = User(cl[d.key].asked)
    BY <1>0, <1>1, <2>1 DEF Asking, Fresh
  <2>5. Answered(d.key)
    BY <2>4 DEF Answered, User
  <2>6. Serving'
    BY <1>1, <2>3, <2>4, <2>5 DEF Serving, SameHand, UnderWay, Decoding
  <2>7. Fresh'
    BY <1>0, <2>1, <2>3 DEF Fresh, SameWork, Decoding, Question, SameHand
  <2>8. QED
    BY <2>3, <2>6, <2>7 DEF CompletionInv
<1>4. CASE Service
  <2>1. d.pc = "service" /\ bloom[d.key] = {} /\ d.user = User(cl[d.key].asked) /\ Answered(d.key)
    BY <1>0, <1>4 DEF Service, Relabel, Serving, UnderWay
  <2>2. Relabel("service", {"servicing"}, "bump1")
    <3>1. bloom[d.key] \cup {"servicing"} = {"servicing"}
      BY <2>1
    <3>2. QED
      BY <1>4, <3>1 DEF Service
  <2>3. /\ CompletionTypeOK' /\ Asking' /\ Queued' /\ SameWork /\ SameHand /\ d'.pc = "bump1"
        /\ bloom'[d.key] = {"servicing"} /\ val' = val /\ cl' = cl /\ (Answered(d.key)' <=> Answered(d.key))
    BY <1>1, <1>2, <2>2, RelabelKept
  <2>4. Serving'
    BY <1>1, <2>1, <2>3 DEF Serving, SameHand, UnderWay, Decoding
  <2>5. Fresh'
    BY <1>0, <2>1, <2>3 DEF Fresh, SameWork, Decoding, Question, SameHand
  <2>6. QED
    BY <2>3, <2>4, <2>5 DEF CompletionInv
<1>5. CASE Unservice
  <2>1. d.pc = "unservice" /\ bloom[d.key] = {"servicing"} /\ d.user = User(cl[d.key].asked) /\ Answered(d.key)
    BY <1>0, <1>5 DEF Unservice, Relabel, Serving, UnderWay
  <2>2. Relabel("unservice", {}, "ready")
    <3>1. bloom[d.key] \ {"servicing"} = {}
      BY <2>1
    <3>2. QED
      BY <1>5, <3>1 DEF Unservice
  <2>3. /\ CompletionTypeOK' /\ Asking' /\ Queued' /\ SameWork /\ SameHand /\ d'.pc = "ready"
        /\ bloom'[d.key] = {} /\ val' = val /\ cl' = cl /\ (Answered(d.key)' <=> Answered(d.key))
    BY <1>1, <1>2, <2>2, RelabelKept
  <2>4. Serving'
    BY <1>1, <2>1, <2>3 DEF Serving, SameHand, UnderWay, Decoding
  <2>5. Fresh'
    BY <1>0, <2>1, <2>3 DEF Fresh, SameWork, Decoding, Question, SameHand
  <2>6. QED
    BY <2>3, <2>4, <2>5 DEF CompletionInv
<1>6. CASE MarkReady
  <2>1. d.pc = "ready" /\ bloom[d.key] = {} /\ Answered(d.key)
    BY <1>0, <1>6 DEF MarkReady, Relabel, Serving, UnderWay
  <2>2. Relabel("ready", {"ready"}, "bump2")
    <3>1. bloom[d.key] \cup {"ready"} = {"ready"}
      BY <2>1
    <3>2. QED
      BY <1>6, <3>1 DEF MarkReady
  <2>3. /\ CompletionTypeOK' /\ Asking' /\ Queued' /\ SameWork /\ d'.pc = "bump2"
    BY <1>1, <1>2, <2>1, <2>2, RelabelKept
  <2>4. Serving'
    BY <2>3 DEF Serving, UnderWay, Decoding
  <2>5. Fresh'
    BY <1>0, <2>1, <2>3 DEF Fresh, SameWork, Decoding, Question, SameHand
  <2>6. QED
    BY <2>3, <2>4, <2>5 DEF CompletionInv
<1>7. QED
  BY <1>3, <1>4, <1>5, <1>6

-----------------------------------------------------------------------------
(* The steps that move the slot's epoch and its value.                     *)

(* The epoch moves by two or not at all, and the value of the daemon's key *)
(* alone, while its client waits.                                          *)
LEMMA WriteKept ==
  ASSUME CompletionInv, d.key \in Keys, val' \in [Keys -> Value], count' \in Nat, d' \in Server,
         bloom' = bloom, cl' = cl, epoch' = epoch \/ epoch' = [epoch EXCEPT ![d.key] = @ + 2],
         d'.pc \in Begun \cup UnderWay \cup {"bump2"} => d'.key \in Keys,
         \A k \in Keys : val'[k] = val[k] \/ (k = d.key /\ d.pc \in UnderWay), d'.refused = d.refused
  PROVE  CompletionTypeOK' /\ Asking'
<1>0. /\ CompletionTypeOK /\ Asking /\ Serving /\ epoch \in [Keys -> Nat]
  BY DEF CompletionInv, CompletionTypeOK
<1>1. epoch' \in [Keys -> Nat] /\ \A k \in Keys : Odd(epoch'[k]) <=> Odd(epoch[k])
  <2>1. PICK e : e = epoch[d.key] + 2
    OBVIOUS
  <2>2. e \in Nat /\ (Odd(e) <=> Odd(epoch[d.key]))
    BY <1>0, <2>1, OddNext
  <2>3. epoch' = epoch \/ epoch' = [epoch EXCEPT ![d.key] = e]
    BY <2>1
  <2>4. QED
    BY <1>0, <2>2, <2>3
<1>2. CompletionTypeOK'
  BY <1>0, <1>1 DEF CompletionTypeOK
<1>3. ASSUME NEW k \in Keys
      PROVE  /\ Odd(epoch'[k]) <=> cl'[k].pc = "set"
             /\ cl'[k].pc # "await" => bloom'[k] = {}
             /\ cl'[k].pc = "label" \/ bloom'[k] = {"waiting"} => val'[k] = User(cl'[k].asked)
             /\ bloom'[k] = {"ready"} => Answered(k)'
  <2>1. CASE val'[k] = val[k]
    <3>1. Answered(k)' <=> Answered(k)
      BY <2>1, AnsweredSame
    <3>2. QED
      BY <1>0, <1>1, <2>1, <3>1 DEF Asking
  <2>2. CASE k = d.key /\ d.pc \in UnderWay
    <3>1. cl[k].pc = "await" /\ bloom[k] \in {{}, {"servicing"}}
      BY <1>0, <2>2 DEF Serving
    <3>2. QED
      BY <1>0, <1>1, <3>1 DEF Asking
  <2>3. QED
    BY <2>1, <2>2
<1>4. QED
  BY <1>2, <1>3 DEF Asking

LEMMA QueueRests ==
  ASSUME CompletionInv, bloom' = bloom, d'.todo = d.todo, d'.pc \notin Begun \cup {"off", "poll", "enum"}
  PROVE  Queued'
BY DEF CompletionInv, Queued, Listed

LEMMA BumpsKept ==
  ASSUME CompletionInv, BumpFirst \/ BumpLast
  PROVE  CompletionInv'
<1>0. /\ CompletionTypeOK /\ Serving /\ Fresh /\ d \in Server /\ val \in [Keys -> Value] /\ epoch \in [Keys -> Nat] /\ count \in Nat
      /\ d.pc \in {"bump1", "bump2"} /\ d.key \in Keys
  BY DEF CompletionInv, CompletionTypeOK, BumpFirst, BumpLast, BumpAt, UnderWay
<1>1. /\ val' = val /\ bloom' = bloom /\ cl' = cl
      /\ epoch' = epoch \/ epoch' = [epoch EXCEPT ![d.key] = @ + 2]
  BY DEF BumpFirst, BumpLast, BumpAt
<1>2. count' \in Nat
  <2>1. Pulses(bloom[d.key]) \in Nat
    BY PulsesNat
  <2>2. count' = count \/ count' = count + Pulses(bloom[d.key])
    BY DEF BumpFirst, BumpLast, BumpAt
  <2>3. QED
    BY <1>0, <2>1, <2>2
<1>3. CASE BumpFirst
  <2>1. d.pc = "bump1" /\ d' = [d EXCEPT !.pc = "tokenize"]
    BY <1>3 DEF BumpFirst, BumpAt
  <2>2. d' \in Server /\ d'.pc = "tokenize" /\ SameWork /\ SameHand
    <3>1. d' \in Server
      BY <1>0, <2>1, PlacesAre, Gone
    <3>2. QED
      BY ZenonT(40), <1>0, <2>1, <3>1 DEF SameWork, SameHand, Server
  <2>3. CompletionTypeOK' /\ Asking'
    BY <1>0, <1>1, <1>2, <2>2, WriteKept DEF SameHand, SameWork
  <2>4. Queued'
    BY <1>1, <2>2, QueueRests DEF SameHand, Begun
  <2>5. Serving'
    BY <1>0, <1>1, <2>1, <2>2 DEF Serving, Answered, Drawn, SameHand, SameWork, UnderWay, Decoding
  <2>6. Fresh'
    BY <1>0, <2>1, <2>2 DEF Fresh, SameWork, Decoding
  <2>7. QED
    BY <2>3, <2>4, <2>5, <2>6 DEF CompletionInv
<1>4. CASE BumpLast
  <2>1. /\ d.pc = "bump2"
        /\ d' = [d EXCEPT !.pc = "next", !.key = "none", !.e = 0, !.user = Nothing,
                          !.written = 0, !.chunk = << >>, !.n = 0, !.run = 0, !.oom = FALSE]
    BY <1>4 DEF BumpLast, BumpAt
  <2>2. PICK r, q, s, t : /\ r = [d EXCEPT !.pc = "next", !.key = "none"] /\ q = [r EXCEPT !.e = 0, !.user = Nothing]
                          /\ s = [q EXCEPT !.written = 0, !.n = 0] /\ t = [s EXCEPT !.run = 0, !.chunk = << >>]
    OBVIOUS
  <2>3. Nothing \in Value /\ << >> \in Seq(Token)
    BY DEF Nothing, Value
  <2>4. r \in Server
    BY ZenonT(40), <1>0, <2>2, PlacesAre DEF Server
  <2>5. q \in Server
    <3>1. PICK u : u = [r EXCEPT !.e = 0]
      OBVIOUS
    <3>2. u \in Server
      BY ZenonT(40), <2>4, <3>1 DEF Server
    <3>3. q = [u EXCEPT !.user = Nothing]
      BY <2>2, <3>1
    <3>4. QED
      BY ZenonT(40), <2>3, <3>2, <3>3 DEF Server
  <2>6. s \in Server
    <3>1. PICK u : u = [q EXCEPT !.written = 0]
      OBVIOUS
    <3>2. u \in Server
      BY ZenonT(40), <2>5, <3>1 DEF Server
    <3>3. s = [u EXCEPT !.n = 0]
      BY <2>2, <3>1
    <3>4. QED
      BY ZenonT(40), <3>2, <3>3 DEF Server
  <2>7. t \in Server
    <3>1. PICK c, u : c \in Seq(Token) /\ c = << >> /\ u = [s EXCEPT !.run = 0]
      BY <2>3
    <3>2. u \in Server
      BY <2>6, <3>1 DEF Server
    <3>3. t = [u EXCEPT !.chunk = c]
      BY <2>2, <3>1
    <3>4. QED
      BY ZenonT(40), <3>1, <3>2, <3>3 DEF Server
  <2>8. d' = [t EXCEPT !.oom = FALSE]
    BY ZenonT(40), <1>0, <2>1, <2>2 DEF Server
  <2>9. d' \in Server
    BY ZenonT(40), <2>7, <2>8 DEF Server
  <2>10. /\ d'.pc = "next" /\ d'.chunk = << >> /\ d'.n = 0 /\ ~ d'.oom /\ d'.kv = d.kv /\ d'.todo = d.todo
         /\ d'.refused = d.refused
    BY <1>0, <2>1 DEF Server
  <2>11. CompletionTypeOK' /\ Asking'
    BY <1>0, <1>1, <1>2, <2>9, <2>10, WriteKept DEF UnderWay, Begun, Decoding
  <2>12. Queued'
    BY <1>1, <2>10, QueueRests DEF Begun
  <2>13. Serving' /\ Fresh'
    BY <1>0, <2>1, <2>10 DEF Serving, Fresh, UnderWay, Decoding
  <2>14. QED
    BY <2>11, <2>12, <2>13 DEF CompletionInv
<1>5. QED
  BY <1>3, <1>4

LEMMA PromptKept ==
  ASSUME Orderly, CompletionInv, SetPrompt
  PROVE  CompletionInv'
<1>0. /\ CompletionTypeOK /\ Serving /\ Fresh /\ d \in Server /\ val \in [Keys -> Value] /\ epoch \in [Keys -> Nat] /\ count \in Nat
      /\ d.pc = "prompt" /\ bloom' = bloom /\ cl' = cl /\ cl \in [Keys -> Asker] /\ d' = [d EXCEPT !.pc = "prefill"]
  BY DEF CompletionInv, CompletionTypeOK, SetPrompt, Go
<1>1. /\ cl[d.key].pc = "await" /\ d.user = User(cl[d.key].asked) /\ bloom[d.key] = {"servicing"}
  BY <1>0 DEF Serving, UnderWay
<1>2. d.key \in Keys /\ ~ Odd(epoch[d.key])
  BY <1>0, InHand DEF UnderWay
<1>3. /\ val' = [val EXCEPT ![d.key] = Prompt(d.user.req)]
      /\ epoch' = [epoch EXCEPT ![d.key] = @ + 2] /\ count' = count + Pulses(bloom[d.key])
  BY <1>2 DEF SetPrompt, PromptIn, Orderly
<1>4. cl[d.key].asked \in Nat /\ d.user.req = cl[d.key].asked
  BY <1>0, <1>1, <1>2 DEF Asker, User
<1>5. PICK p : p = Prompt(cl[d.key].asked)
  OBVIOUS
<1>6. p \in Value /\ p.req = cl[d.key].asked /\ p.toks = << >>
  BY <1>4, <1>5 DEF Prompt, Value
<1>7. val' = [val EXCEPT ![d.key] = p]
  BY <1>3, <1>4, <1>5
<1>8. val' \in [Keys -> Value] /\ val'[d.key] = p /\ \A k \in Keys \ {d.key} : val'[k] = val[k]
  BY <1>0, <1>2, <1>6, <1>7
<1>9. d' \in Server /\ d'.pc = "prefill" /\ SameWork /\ SameHand
  <2>1. d' \in Server
    BY <1>0, PlacesAre, Gone
  <2>2. QED
    BY ZenonT(40), <1>0, <2>1 DEF SameWork, SameHand, Server
<1>10. count' \in Nat
  BY <1>0, <1>3, PulsesNat
<1>11. CompletionTypeOK' /\ Asking'
  BY <1>0, <1>2, <1>3, <1>8, <1>9, <1>10, WriteKept DEF SameHand, SameWork, UnderWay
<1>12. Queued'
  BY <1>0, <1>9, QueueRests DEF SameHand, Begun
<1>13. Answered(d.key)'
  BY <1>0, <1>6, <1>8, <1>9 DEF Answered, SameHand
<1>14. Serving'
  BY <1>0, <1>1, <1>5, <1>8, <1>9, <1>13 DEF Serving, SameHand, UnderWay, Decoding
<1>15. Fresh'
  BY <1>0, <1>9 DEF Fresh, SameWork, Decoding
<1>16. QED
  BY <1>11, <1>12, <1>14, <1>15 DEF CompletionInv

-----------------------------------------------------------------------------
(* What is appended goes on where the slot ends.                           *)

LEMMA DecodingIs ==
  ASSUME CompletionInv, d.pc \in Decoding
  PROVE  /\ d.key \in Keys /\ cl[d.key].pc = "await" /\ d.user = User(cl[d.key].asked) /\ Answered(d.key)
         /\ bloom[d.key] = {"servicing"} /\ ~ Odd(epoch[d.key])
         /\ val[d.key] \in Value /\ val[d.key].toks \in Seq(Token) /\ d.chunk \in Seq(Token)
         /\ << d.key, cl[d.key].asked >> \in d.kv /\ val[d.key].kind = "prompt"
         /\ d.kv \subseteq d.refused \cup {<< d.key, cl[d.key].asked >>}
         /\ From(val[d.key].toks, d.key, cl[d.key].asked, 0)
         /\ Size(val[d.key]) = Len(val[d.key].toks) + PromptLen
         /\ d.pc # "partial" => ~ d.oom
         /\ ~ d.oom => /\ d.written = Size(val[d.key]) /\ d.written \in Nat /\ d.written <= MaxVal
                       /\ d.n = Len(val[d.key].toks) + Len(d.chunk)
                       /\ From(d.chunk, d.key, cl[d.key].asked, Len(val[d.key].toks))
<1>0. Serving /\ Fresh /\ CompletionTypeOK /\ d.pc \in UnderWay
  BY DEF CompletionInv, UnderWay
<1>1. d.key \in Keys /\ ~ Odd(epoch[d.key])
  BY <1>0, InHand
<1>2. val[d.key] \in Value /\ val[d.key].toks \in Seq(Token) /\ d.chunk \in Seq(Token) /\ d.written \in Nat
  BY <1>0, <1>1 DEF CompletionTypeOK, Server, Value
<1>3. /\ cl[d.key].pc = "await" /\ d.user = User(cl[d.key].asked) /\ Answered(d.key)
      /\ Question \in d.kv /\ val[d.key].kind = "prompt" /\ bloom[d.key] = {"servicing"}
      /\ d.kv \subseteq d.refused \cup {Question}
      /\ d.pc # "partial" => ~ d.oom
      /\ ~ d.oom => /\ d.written = Size(val[d.key]) /\ d.written <= MaxVal
                    /\ d.n = Len(val[d.key].toks) + Len(d.chunk)
                    /\ \A i \in DOMAIN d.chunk : Drawn(d.chunk[i], d.key, Len(val[d.key].toks) + i)
  BY <1>0 DEF Serving, Fresh, Decoding
<1>4. ~ d.oom => From(d.chunk, d.key, cl[d.key].asked, Len(val[d.key].toks))
  BY <1>3 DEF From, Made, Drawn
<1>8. Question = << d.key, cl[d.key].asked >>
  BY <1>3 DEF Question, User
<1>5. From(val[d.key].toks, d.key, cl[d.key].asked, 0)
  <2>1. \A i \in DOMAIN val[d.key].toks : Made(val[d.key].toks[i], d.key, cl[d.key].asked, i) /\ 0 + i = i
    <3>1. PICK t : t = val[d.key].toks
      OBVIOUS
    <3>2. t \in Seq(Token) /\ \A i \in DOMAIN t : 0 + i = i
      BY <1>2, <3>1
    <3>3. \A i \in DOMAIN t : Drawn(t[i], d.key, i)
      BY <1>3, <3>1 DEF Answered
    <3>4. QED
      BY <3>1, <3>2, <3>3 DEF Drawn, Made
  <2>2. QED
    BY <2>1 DEF From
<1>6. Size(val[d.key]) = Len(val[d.key].toks) + PromptLen
  BY <1>3 DEF Size
<1>7. QED
  BY <1>1, <1>2, <1>3, <1>4, <1>5, <1>6, <1>8

LEMMA AppendedIs ==
  ASSUME CompletionInv, d.pc \in Decoding, NEW s \in Seq(Token),
         From(s, d.key, cl[d.key].asked, Len(val[d.key].toks)), Appended(d.key, s), cl' = cl
  PROVE  /\ val' \in [Keys -> Value] /\ \A k \in Keys \ {d.key} : val'[k] = val[k]
         /\ val'[d.key].kind = "prompt" /\ val'[d.key].req = cl[d.key].asked
         /\ val'[d.key].toks \in Seq(Token) /\ Len(val'[d.key].toks) = Len(val[d.key].toks) + Len(s)
         /\ From(val'[d.key].toks, d.key, cl[d.key].asked, 0)
         /\ epoch' = [epoch EXCEPT ![d.key] = @ + 2] /\ count' \in Nat
<1>0. val \in [Keys -> Value] /\ count \in Nat
  BY DEF CompletionInv, CompletionTypeOK
<1>1. PICK k, v, r : k = d.key /\ v = val[d.key] /\ r = cl[d.key].asked
  OBVIOUS
<1>2. /\ k \in Keys /\ v \in Value /\ v.toks \in Seq(Token) /\ v.kind = "prompt" /\ From(v.toks, k, r, 0)
      /\ v.req = r /\ From(s, k, r, Len(v.toks))
  BY <1>1, DecodingIs DEF Answered
<1>3. PICK t : t = v.toks \o s
  OBVIOUS
<1>4. t \in Seq(Token) /\ Len(t) = Len(v.toks) + Len(s) /\ From(t, k, r, 0)
  BY <1>2, <1>3, Joined
<1>5. PICK w : w = [v EXCEPT !.toks = t]
  OBVIOUS
<1>6. w \in Value /\ w.kind = "prompt" /\ w.req = r /\ w.toks = t
  BY <1>2, <1>4, <1>5 DEF Value
<1>7. val' = [val EXCEPT ![k] = w]
  BY <1>1, <1>3, <1>5 DEF Appended
<1>8. val' \in [Keys -> Value] /\ val'[k] = w /\ \A j \in Keys \ {k} : val'[j] = val[j]
  BY <1>0, <1>2, <1>6, <1>7
<1>9. epoch' = [epoch EXCEPT ![k] = @ + 2] /\ count' \in Nat
  BY <1>0, <1>1, PulsesNat DEF Appended
<1>10. QED
  BY <1>1, <1>4, <1>6, <1>8, <1>9

LEMMA FlushKept ==
  ASSUME CompletionInv, Flush
  PROVE  CompletionInv'
<1>0. /\ d.pc = "flush" /\ d.pc \in Decoding /\ bloom' = bloom /\ cl' = cl /\ d \in Server /\ ~ d.oom
      /\ d.written + Len(d.chunk) <= MaxVal /\ Fresh
  BY DecodingIs DEF Flush, Decoding, CompletionInv, CompletionTypeOK
<1>1. PICK k, r : k = d.key /\ r = cl[d.key].asked
  OBVIOUS
<1>2. /\ k \in Keys /\ cl[k].pc = "await" /\ d.user = User(r) /\ bloom[k] = {"servicing"} /\ ~ Odd(epoch[k])
      /\ val[k].toks \in Seq(Token) /\ d.chunk \in Seq(Token)
      /\ << k, r >> \in d.kv /\ d.kv \subseteq d.refused \cup {<< k, r >>}
      /\ Size(val[k]) = Len(val[k].toks) + PromptLen
      /\ d.written = Size(val[k]) /\ d.written \in Nat
      /\ d.n = Len(val[k].toks) + Len(d.chunk) /\ From(d.chunk, k, r, Len(val[k].toks))
  BY <1>0, <1>1, DecodingIs
<1>3. Fits(d.key, Len(d.chunk))
  <2>1. PICK x : x = d.written + Len(d.chunk)
    OBVIOUS
  <2>2. Len(d.chunk) \in Nat
    BY <1>2
  <2>3. x \in Nat /\ x <= MaxVal
    BY <1>0, <1>2, <2>1, <2>2
  <2>4. x % Wrap = x
    BY <2>3, CompletionAssumption
  <2>5. QED
    BY <1>1, <1>2, <2>1, <2>3, <2>4 DEF Fits
<1>4. /\ Appended(d.key, d.chunk)
      /\ d' = [d EXCEPT !.pc = "sample", !.chunk = << >>, !.written = Size(val'[d.key]), !.run = 0]
  BY <1>3 DEF Flush
<1>5. /\ val' \in [Keys -> Value] /\ \A j \in Keys \ {k} : val'[j] = val[j]
      /\ val'[k].kind = "prompt" /\ val'[k].req = r
      /\ val'[k].toks \in Seq(Token) /\ Len(val'[k].toks) = Len(val[k].toks) + Len(d.chunk)
      /\ From(val'[k].toks, k, r, 0)
      /\ epoch' = [epoch EXCEPT ![k] = @ + 2] /\ count' \in Nat
  BY <1>0, <1>1, <1>2, <1>4, AppendedIs
<1>6. /\ Size(val'[k]) = Len(val'[k].toks) + PromptLen /\ Size(val'[k]) = d.written + Len(d.chunk)
      /\ Size(val'[k]) \in Nat /\ Size(val'[k]) <= MaxVal
  <2>1. PromptLen \in Nat /\ Len(val[k].toks) \in Nat /\ Len(d.chunk) \in Nat
    BY <1>2, CompletionAssumption
  <2>2. Size(val'[k]) = Len(val'[k].toks) + PromptLen
    BY <1>5 DEF Size
  <2>3. PICK a, b, w : a = Len(val[k].toks) /\ b = Len(d.chunk) /\ w = d.written
    OBVIOUS
  <2>4. a \in Nat /\ b \in Nat /\ w = a + PromptLen /\ w + b <= MaxVal
    BY <1>0, <1>2, <2>1, <2>3
  <2>5. Size(val'[k]) = a + b + PromptLen
    BY <1>5, <2>2, <2>3
  <2>6. PICK z : z = Size(val'[k])
    OBVIOUS
  <2>7. z = a + b + PromptLen
    BY <2>5, <2>6
  <2>8. z = w + b /\ z \in Nat /\ z <= MaxVal
    BY <2>1, <2>4, <2>7, CompletionAssumption
  <2>9. QED
    BY <2>2, <2>3, <2>6, <2>8
<1>7. PICK z : z = Size(val'[k])
  OBVIOUS
<1>8. d' \in Server
  <2>1. PICK c, u : c = << >> /\ u = [d EXCEPT !.pc = "sample", !.chunk = c]
    OBVIOUS
  <2>2. c \in Seq(Token)
    BY <2>1
  <2>3. u \in Server
    BY ZenonT(40), <1>0, <2>1, <2>2, PlacesAre DEF Server
  <2>4. d' = [u EXCEPT !.written = z, !.run = 0]
    BY <1>0, <1>1, <1>4, <1>7, <2>1 DEF Server
  <2>5. QED
    BY ZenonT(40), <1>6, <1>7, <2>3, <2>4 DEF Server
<1>9. /\ d'.pc = "sample" /\ d'.key = k /\ d'.user = d.user /\ d'.todo = d.todo /\ d'.n = d.n /\ d'.kv = d.kv /\ ~ d'.oom
      /\ d'.chunk = << >> /\ d'.written = z /\ d'.refused = d.refused
  BY <1>0, <1>1, <1>4, <1>7 DEF Server
<1>10. CompletionTypeOK' /\ Asking'
  BY <1>0, <1>1, <1>2, <1>5, <1>8, <1>9, WriteKept DEF UnderWay
<1>11. Queued'
  BY <1>0, <1>9, QueueRests DEF Begun
<1>12. Serving'
  <2>1. Answered(k)'
    <3>1. \A i \in DOMAIN val'[k].toks : 0 + i = i
      BY <1>5
    <3>2. QED
      BY <1>0, <1>1, <1>5, <1>9, <3>1 DEF Answered, From, Made, Drawn
  <2>2. d'.n = Len(val'[k].toks) + Len(d'.chunk) /\ DOMAIN d'.chunk = {}
    <3>1. << >> \in Seq(Token)
      OBVIOUS
    <3>2. PICK c : c \in Seq(Token) /\ c = << >>
      BY <3>1
    <3>3. Len(c) = 0 /\ DOMAIN c = {}
      BY <3>2
    <3>4. d'.chunk = c
      BY <1>9, <3>2
    <3>5. Len(val'[k].toks) \in Nat
      <4>1. val'[k].toks \in Seq(Token)
        BY <1>5
      <4>2. QED
        BY <4>1
    <3>6. d.n = Len(val[k].toks) + Len(d.chunk)
      BY <1>2
    <3>7. Len(val'[k].toks) = Len(val[k].toks) + Len(d.chunk)
      BY <1>5
    <3>8. d'.n = Len(val'[k].toks)
      BY <1>9, <3>6, <3>7
    <3>9. QED
      BY <3>3, <3>4, <3>5, <3>8
  <2>3. Question' = << k, r >> /\ Question' \in d'.kv
    BY <1>0, <1>2, <1>9 DEF Question, User
  <2>4. Answered(d.key)'
    BY <1>9, <2>1 DEF Answered, Drawn
  <2>6. /\ d'.pc = "sample" /\ d'.key = k /\ cl'[k].pc = "await" /\ d'.user = User(cl'[k].asked) /\ Answered(d.key)'
        /\ bloom'[k] = {"servicing"} /\ val'[k].kind = "prompt" /\ ~ d'.oom /\ d'.written = Size(val'[k])
        /\ d'.written <= MaxVal
    BY <1>0, <1>1, <1>2, <1>5, <1>6, <1>7, <1>9, <2>4
  <2>7. \A i \in DOMAIN d'.chunk : Drawn(d.chunk[i], d.key, Len(val[d.key].toks) + i)'
    BY <2>2
  <2>8. QED
    BY <2>2, <2>3, <2>6, <2>7 DEF Serving, UnderWay, Decoding
<1>13. Fresh'
  <2>1. Question' = << k, r >>
    BY <1>0, <1>2, <1>9 DEF Question, User
  <2>2. QED
    BY <1>2, <1>9, <2>1 DEF Fresh, Decoding
<1>14. QED
  BY <1>10, <1>11, <1>12, <1>13 DEF CompletionInv

(* The cut of the last chunk fits, and what it leaves behind is dropped.   *)
LEMMA CutIs ==
  ASSUME CompletionInv, d.pc \in Decoding, ~ d.oom, NEW n \in 0 .. Len(d.chunk), Cut(n), cl' = cl
  PROVE  /\ val' \in [Keys -> Value] /\ \A k \in Keys \ {d.key} : val'[k] = val[k]
         /\ epoch' = epoch \/ epoch' = [epoch EXCEPT ![d.key] = @ + 2]
         /\ count' \in Nat
         /\ val'[d.key].kind = "prompt" /\ val'[d.key].req = cl[d.key].asked
         /\ val'[d.key].toks \in Seq(Token) /\ From(val'[d.key].toks, d.key, cl[d.key].asked, 0)
<1>0. /\ val \in [Keys -> Value] /\ count \in Nat /\ val[d.key].kind = "prompt" /\ val[d.key].req = cl[d.key].asked
      /\ val[d.key].toks \in Seq(Token) /\ From(val[d.key].toks, d.key, cl[d.key].asked, 0)
      /\ d.chunk \in Seq(Token) /\ From(d.chunk, d.key, cl[d.key].asked, Len(val[d.key].toks)) /\ ~ Odd(epoch[d.key])
  BY DecodingIs DEF CompletionInv, CompletionTypeOK, Answered
<1>1. CASE UNCHANGED << val, count >>
  <2>1. epoch' = epoch \/ epoch' = [epoch EXCEPT ![d.key] = @ + 2] \/ Appended(d.key, SubSeq(d.chunk, 1, n))
    BY <1>0 DEF Cut, TooLong
  <2>2. ASSUME Appended(d.key, SubSeq(d.chunk, 1, n))
        PROVE  epoch' = [epoch EXCEPT ![d.key] = @ + 2]
    BY <2>2 DEF Appended
  <2>3. QED
    BY <1>0, <1>1, <2>1, <2>2
<1>2. CASE Appended(d.key, SubSeq(d.chunk, 1, n))
  <2>1. PICK s : s = SubSeq(d.chunk, 1, n)
    OBVIOUS
  <2>2. s \in Seq(Token) /\ From(s, d.key, cl[d.key].asked, Len(val[d.key].toks))
    <3>1. PICK t, k, r, b : t = d.chunk /\ k = d.key /\ r = cl[d.key].asked /\ b = Len(val[d.key].toks)
      OBVIOUS
    <3>2. t \in Seq(Token) /\ n \in 0 .. Len(t) /\ From(t, k, r, b)
      BY <1>0, <3>1
    <3>3. SubSeq(t, 1, n) \in Seq(Token) /\ From(SubSeq(t, 1, n), k, r, b)
      BY <3>2, CutOff
    <3>4. QED
      BY <2>1, <3>1, <3>3
  <2>3. QED
    BY <1>2, <2>1, <2>2, AppendedIs
<1>3. QED
  BY <1>1, <1>2 DEF Cut, TooLong

LEMMA EndsKept ==
  ASSUME CompletionInv, Full \/ Partial
  PROVE  CompletionInv'
<1>0. /\ d.pc \in {"flush", "partial"} /\ d.pc \in Decoding /\ bloom' = bloom /\ cl' = cl /\ d \in Server /\ Fresh
      /\ val \in [Keys -> Value] /\ count \in Nat
      /\ Full => d.pc = "flush" /\ d.written + Len(d.chunk) > MaxVal
  BY DEF Full, Partial, Decoding, CompletionInv, CompletionTypeOK
<1>1. PICK k, r : k = d.key /\ r = cl[d.key].asked
  OBVIOUS
<1>2. /\ k \in Keys /\ cl[k].pc = "await" /\ d.user = User(r) /\ bloom[k] = {"servicing"} /\ val[k].kind = "prompt"
      /\ << k, r >> \in d.kv /\ d.kv \subseteq d.refused \cup {<< k, r >>}
      /\ val[k].req = r /\ val[k].toks \in Seq(Token) /\ From(val[k].toks, k, r, 0)
  BY <1>0, <1>1, DecodingIs DEF Answered
<1>13. Full => /\ ~ d.oom /\ Remaining \in 0 .. Len(d.chunk) /\ ~ Overruns
  <2>1. ASSUME Full
        PROVE  /\ ~ d.oom /\ Remaining \in 0 .. Len(d.chunk) /\ ~ Overruns
    <3>1. /\ ~ d.oom /\ d.written \in Nat /\ d.written <= MaxVal /\ d.chunk \in Seq(Token)
          /\ d.written + Len(d.chunk) > MaxVal
      BY <1>0, <2>1, DecodingIs
    <3>2. Remaining = MaxVal - d.written /\ Remaining \in Nat
      BY <3>1, RemainingIs
    <3>3. Len(d.chunk) \in Nat /\ MaxVal \in Nat
      BY <3>1, CompletionAssumption
    <3>4. PICK x, y : x = Remaining /\ y = Len(d.chunk)
      OBVIOUS
    <3>5. x \in 0 .. y /\ ~ (x > y)
      BY <3>1, <3>2, <3>3, <3>4
    <3>6. QED
      BY <3>1, <3>4, <3>5 DEF Overruns
  <2>2. QED
    BY <2>1
<1>14. d' = [d EXCEPT !.pc = "partial", !.oom = TRUE] \/ d' = [d EXCEPT !.pc = "clear"]
  BY <1>13 DEF Full, Partial, Go
<1>3. \/ UNCHANGED << val, epoch, count >>
      \/ ~ d.oom /\ \E n \in 0 .. Len(d.chunk) : Cut(n)
  <2>1. CASE Full
    <3>1. ~ d.oom /\ Remaining \in 0 .. Len(d.chunk) /\ Cut(Remaining)
      BY <1>13, <2>1 DEF Full
    <3>2. QED
      BY <3>1
  <2>2. CASE Partial /\ d.chunk # << >> /\ ~ d.oom
    <3>1. PICK n : n = IF Len(d.chunk) < Remaining THEN Len(d.chunk) ELSE Remaining
      OBVIOUS
    <3>2. Remaining \in Nat /\ Len(d.chunk) \in Nat
      <4>1. d.written \in Nat /\ d.written <= MaxVal /\ d.chunk \in Seq(Token)
        BY <1>0, <2>2, DecodingIs
      <4>2. QED
        BY <4>1, RemainingIs
    <3>3. n \in 0 .. Len(d.chunk)
      BY <3>1, <3>2
    <3>4. Cut(n)
      BY <2>2, <3>1 DEF Partial
    <3>5. QED
      BY <2>2, <3>3, <3>4
  <2>3. CASE Partial /\ ~ (d.chunk # << >> /\ ~ d.oom)
    BY <2>3 DEF Partial
  <2>4. QED
    BY <2>1, <2>2, <2>3
<1>4. /\ val' \in [Keys -> Value] /\ \A j \in Keys \ {k} : val'[j] = val[j]
      /\ epoch' = epoch \/ epoch' = [epoch EXCEPT ![k] = @ + 2]
      /\ count' \in Nat
      /\ val'[k].kind = "prompt" /\ val'[k].req = r
      /\ val'[k].toks \in Seq(Token) /\ From(val'[k].toks, k, r, 0)
  <2>1. CASE UNCHANGED << val, epoch, count >>
    BY <1>0, <1>2, <2>1
  <2>2. CASE ~ d.oom /\ \E n \in 0 .. Len(d.chunk) : Cut(n)
    <3>1. PICK n \in 0 .. Len(d.chunk) : Cut(n)
      BY <2>2
    <3>2. QED
      BY <1>0, <1>1, <2>2, <3>1, CutIs
  <2>3. QED
    BY <1>3, <2>1, <2>2
<1>5. d' \in Server
  <2>1. CASE d' = [d EXCEPT !.pc = "partial", !.oom = TRUE]
    BY ZenonT(40), <1>0, <2>1, PlacesAre DEF Server
  <2>2. CASE d' = [d EXCEPT !.pc = "clear"]
    BY <1>0, <2>2, PlacesAre, Gone
  <2>3. QED
    BY <1>14, <2>1, <2>2
<1>6. d'.pc = "clear" \/ (d'.pc = "partial" /\ d'.oom)
  BY ZenonT(40), <1>0, <1>14 DEF Server
<1>7. d'.key = k /\ d'.user = d.user /\ d'.todo = d.todo /\ d'.kv = d.kv /\ d'.refused = d.refused
  BY ZenonT(40), <1>0, <1>1, <1>14 DEF Server
<1>15. Question' = << k, r >>
  BY <1>2, <1>7 DEF Question, User
<1>8. CompletionTypeOK' /\ Asking'
  BY <1>0, <1>1, <1>2, <1>4, <1>5, <1>7, WriteKept DEF UnderWay
<1>9. Queued'
  BY <1>0, <1>6, <1>7, QueueRests DEF Begun
<1>10. Serving'
  <2>1. Answered(k)'
    <3>1. \A i \in DOMAIN val'[k].toks : 0 + i = i
      BY <1>4
    <3>2. QED
      BY <1>0, <1>1, <1>4, <1>7, <3>1 DEF Answered, From, Made, Drawn
  <2>2. /\ cl'[k].pc = "await" /\ d'.user = User(cl'[k].asked) /\ bloom'[k] = {"servicing"}
        /\ Question' \in d'.kv /\ val'[k].kind = "prompt"
    BY <1>0, <1>1, <1>2, <1>4, <1>7, <1>15
  <2>3. Answered(d.key)' /\ d'.key = k
    BY <1>7, <2>1 DEF Answered, Drawn
  <2>4. QED
    BY <1>6, <2>2, <2>3 DEF Serving, UnderWay, Decoding
<1>11. Fresh'
  BY <1>2, <1>6, <1>7, <1>15 DEF Fresh, Decoding
<1>12. QED
  BY <1>8, <1>9, <1>10, <1>11 DEF CompletionInv

-----------------------------------------------------------------------------
(* The clients.  A key whose client moves is not in the daemon's hands.    *)

LEMMA ClientKept ==
  ASSUME CompletionInv, NEW k \in Keys, cl[k].pc # "await" \/ bloom[k] = {"ready"}, d' = d, CompletionTypeOK',
         \A j \in Keys \ {k} : val'[j] = val[j] /\ epoch'[j] = epoch[j] /\ bloom'[j] = bloom[j] /\ cl'[j] = cl[j],
         Odd(epoch'[k]) <=> cl'[k].pc = "set",
         cl'[k].pc # "await" => bloom'[k] = {},
         cl'[k].pc = "label" \/ bloom'[k] = {"waiting"} => val'[k] = User(cl'[k].asked),
         bloom'[k] # {"ready"}
  PROVE  CompletionInv'
<1>0. CompletionTypeOK /\ Asking /\ Queued /\ Serving /\ Fresh /\ d.todo \in Seq(Keys)
  BY ZenonT(40) DEF CompletionInv, CompletionTypeOK, Server
<1>1. \A j \in Keys : bloom[j] = {"waiting"} \/ (d.pc \in UnderWay /\ j = d.key) => j # k
  <2>1. /\ {"ready"} # {"waiting"} /\ {"ready"} # {"servicing"} /\ {"ready"} # {} /\ {"waiting"} # {}
    OBVIOUS
  <2>2. ASSUME NEW j \in Keys, bloom[j] = {"waiting"}
        PROVE  j # k
    BY <1>0, <2>1, <2>2 DEF Asking
  <2>3. ASSUME d.pc \in UnderWay
        PROVE  d.key # k
    BY <1>0, <2>1, <2>3 DEF Serving
  <2>4. QED
    BY <2>2, <2>3
<1>2. \A j \in Keys \ {k} : Answered(j)' <=> Answered(j)
  BY AnsweredSame
<1>3. Asking'
  <2>1. ASSUME NEW j \in Keys
        PROVE  /\ Odd(epoch'[j]) <=> cl'[j].pc = "set"
               /\ cl'[j].pc # "await" => bloom'[j] = {}
               /\ cl'[j].pc = "label" \/ bloom'[j] = {"waiting"} => val'[j] = User(cl'[j].asked)
               /\ bloom'[j] = {"ready"} => Answered(j)'
    <3>1. CASE j = k
      BY <3>1
    <3>2. CASE j # k
      BY <1>0, <1>2, <3>2 DEF Asking
    <3>3. QED
      BY <3>1, <3>2
  <2>2. QED
    BY <2>1 DEF Asking
<1>4. Queued'
  <2>1. \A j \in Keys : Listed(j) => bloom'[j] = {"waiting"}
    BY <1>0, <1>1 DEF Queued
  <2>2. d.pc \in Begun => d.key \in Keys /\ bloom'[d.key] = {"waiting"}
    BY <1>0, <1>1 DEF Queued, CompletionTypeOK
  <2>3. QED
    BY <1>0, <2>1, <2>2 DEF Queued, Listed
<1>5. Serving'
  <2>1. CASE d.pc \in UnderWay
    <3>1. d.key \in Keys \ {k}
      BY <1>0, <1>1, <2>1 DEF CompletionTypeOK
    <3>2. /\ val'[d'.key] = val[d.key] /\ bloom'[d'.key] = bloom[d.key] /\ cl'[d'.key] = cl[d.key]
          /\ (Answered(d.key)' <=> Answered(d.key)) /\ Question' = Question
      BY <1>2, <3>1 DEF Answered, Drawn, Question
    <3>3. QED
      BY <1>0, <3>2 DEF Serving, Drawn
  <2>2. CASE d.pc \notin UnderWay
    BY <2>2 DEF Serving
  <2>3. QED
    BY <2>1, <2>2
<1>6. Fresh'
  <2>1. d.pc = "unwait" => d.key \in Keys \ {k}
    BY <1>0, <1>1 DEF Queued, CompletionTypeOK, Begun
  <2>2. QED
    BY <1>0, <2>1 DEF Fresh, Question
<1>7. QED
  BY <1>3, <1>4, <1>5, <1>6 DEF CompletionInv

(* What a client's step is, and what is left alone.                        *)
LEMMA ClientsKept ==
  ASSUME Orderly, CompletionInv, NEW k \in Keys, Client(k)
  PROVE  CompletionInv'
<1>0. /\ val \in [Keys -> Value] /\ epoch \in [Keys -> Nat] /\ count \in Nat /\ cl \in [Keys -> Asker]
      /\ bloom \in [Keys -> {{}, {"waiting"}, {"servicing"}, {"ready"}}] /\ Asking /\ CompletionTypeOK
  BY DEF CompletionInv, CompletionTypeOK
<1>1. PICK c, e, L, v : c = cl[k] /\ e = epoch[k] /\ L = bloom[k] /\ v = val[k]
  OBVIOUS
<1>2. c \in Asker /\ e \in Nat /\ (Odd(e + 1) <=> ~ Odd(e)) /\ (Odd(e) <=> c.pc = "set") /\ Pulses(L) \in Nat
  BY <1>0, <1>1, OddNext, PulsesNat DEF Asking
<1>3. CASE Read(k)
  <2>1. /\ c.pc = "await" /\ L = {"ready"} /\ d' = d /\ val' = val /\ epoch' = epoch
        /\ cl' = [cl EXCEPT ![k].pc = "idle"] /\ bloom' = [bloom EXCEPT ![k] = {}] /\ count' = count + Pulses(L)
    <3>1. L = {"ready"} /\ L \ {"ready"} = {}
      BY <1>0, <1>1, <1>3 DEF Read
    <3>2. bloom' = [bloom EXCEPT ![k] = L \ {"ready"}] /\ count' = count + Pulses(L)
      BY <1>1, <1>3 DEF Read, Orderly
    <3>3. QED
      BY <1>1, <1>3, <3>1, <3>2 DEF Read, ClientAt
  <2>2. PICK a : a = [c EXCEPT !.pc = "idle"]
    OBVIOUS
  <2>3. a \in Asker /\ a.pc = "idle" /\ a.asked = c.asked
    BY <1>2, <2>2 DEF Asker
  <2>4. cl' = [cl EXCEPT ![k] = a]
    BY <1>1, <2>1, <2>2
  <2>5. CompletionTypeOK'
    BY <1>0, <1>2, <2>1, <2>3, <2>4 DEF CompletionTypeOK
  <2>6. /\ cl'[k] = a /\ bloom'[k] = {}
        /\ \A j \in Keys \ {k} : val'[j] = val[j] /\ epoch'[j] = epoch[j] /\ bloom'[j] = bloom[j] /\ cl'[j] = cl[j]
    BY <1>0, <2>1, <2>4
  <2>7. QED
    BY <1>1, <1>2, <2>1, <2>3, <2>5, <2>6, ClientKept
<1>4. CASE SetOpen(k)
  <2>1. /\ c.pc = "idle" /\ c.left > 0 /\ ~ Odd(e) /\ d' = d /\ val' = val /\ bloom' = bloom /\ count' = count
        /\ cl' = [cl EXCEPT ![k].pc = "set", ![k].asked = @ + 1, ![k].left = @ - 1]
        /\ epoch' = [epoch EXCEPT ![k] = e + 1]
    BY <1>1, <1>4 DEF SetOpen
  <2>2. PICK n, m : n = c.asked + 1 /\ m = c.left - 1
    OBVIOUS
  <2>3. n \in Nat /\ m \in Nat
    BY <1>2, <2>1, <2>2 DEF Asker
  <2>4. PICK a : a = [c EXCEPT !.pc = "set", !.asked = n, !.left = m]
    OBVIOUS
  <2>5. a \in Asker /\ a.pc = "set"
    BY <1>2, <2>3, <2>4 DEF Asker
  <2>6. cl' = [cl EXCEPT ![k] = a]
    <3>1. cl' = [cl EXCEPT ![k] = [cl[k] EXCEPT !.pc = "set", !.asked = cl[k].asked + 1, !.left = cl[k].left - 1]]
      BY <1>0, <2>1 DEF Asker
    <3>2. QED
      BY <1>1, <2>2, <2>4, <3>1
  <2>7. L = {}
    BY <1>0, <1>1, <2>1 DEF Asking
  <2>8. epoch' \in [Keys -> Nat] /\ cl' \in [Keys -> Asker]
    <3>1. PICK f : f = e + 1
      OBVIOUS
    <3>2. f \in Nat /\ epoch' = [epoch EXCEPT ![k] = f]
      BY <1>2, <2>1, <3>1
    <3>3. QED
      BY <1>0, <2>5, <2>6, <3>2
  <2>9. CompletionTypeOK'
    BY <1>0, <2>1, <2>8 DEF CompletionTypeOK
  <2>10. /\ cl'[k] = a /\ bloom'[k] = {} /\ epoch'[k] = e + 1
         /\ \A j \in Keys \ {k} : val'[j] = val[j] /\ epoch'[j] = epoch[j] /\ bloom'[j] = bloom[j] /\ cl'[j] = cl[j]
    BY <1>0, <1>1, <2>1, <2>6, <2>7
  <2>11. QED
    BY <1>1, <1>2, <2>1, <2>5, <2>9, <2>10, ClientKept
<1>5. CASE SetClose(k)
  <2>1. /\ c.pc = "set" /\ d' = d /\ bloom' = bloom /\ count' = count + Pulses(L)
        /\ cl' = [cl EXCEPT ![k].pc = "label"] /\ val' = [val EXCEPT ![k] = User(c.asked)]
        /\ epoch' = [epoch EXCEPT ![k] = e + 1]
    BY <1>1, <1>5 DEF SetClose, ClientAt
  <2>2. PICK a, u : a = [c EXCEPT !.pc = "label"] /\ u = User(c.asked)
    OBVIOUS
  <2>3. a \in Asker /\ a.pc = "label" /\ a.asked = c.asked
    BY <1>2, <2>2 DEF Asker
  <2>4. u \in Value
    BY <1>2, <2>2 DEF Asker, User, Value
  <2>5. cl' = [cl EXCEPT ![k] = a]
    BY <1>1, <2>1, <2>2
  <2>6. L = {}
    BY <1>0, <1>1, <2>1 DEF Asking
  <2>7. epoch' \in [Keys -> Nat] /\ cl' \in [Keys -> Asker] /\ val' \in [Keys -> Value] /\ count' \in Nat
    <3>1. PICK f : f = e + 1
      OBVIOUS
    <3>2. f \in Nat /\ epoch' = [epoch EXCEPT ![k] = f] /\ count' \in Nat
      BY <1>0, <1>2, <2>1, <3>1
    <3>3. epoch' \in [Keys -> Nat]
      BY <1>0, <3>2
    <3>4. cl' \in [Keys -> Asker]
      BY <1>0, <2>3, <2>5
    <3>5. val' \in [Keys -> Value]
      BY <1>0, <2>1, <2>2, <2>4
    <3>6. QED
      BY <3>2, <3>3, <3>4, <3>5
  <2>8. CompletionTypeOK'
    BY <1>0, <2>1, <2>7 DEF CompletionTypeOK
  <2>9. /\ cl'[k] = a /\ bloom'[k] = {} /\ epoch'[k] = e + 1 /\ val'[k] = User(c.asked)
        /\ \A j \in Keys \ {k} : val'[j] = val[j] /\ epoch'[j] = epoch[j] /\ bloom'[j] = bloom[j] /\ cl'[j] = cl[j]
    BY <1>0, <1>1, <2>1, <2>5, <2>6
  <2>10. QED
    BY <1>1, <1>2, <2>1, <2>3, <2>8, <2>9, ClientKept
<1>6. CASE Label(k)
  <2>1. /\ c.pc = "label" /\ d' = d /\ val' = val /\ epoch' = epoch /\ count' = count + 1
        /\ cl' = [cl EXCEPT ![k].pc = "await"] /\ bloom' = [bloom EXCEPT ![k] = @ \cup {"waiting"}]
    BY <1>1, <1>6 DEF Label, ClientAt, Asked, Orderly
  <2>2. PICK a : a = [c EXCEPT !.pc = "await"]
    OBVIOUS
  <2>3. a \in Asker /\ a.pc = "await" /\ a.asked = c.asked
    BY <1>2, <2>2 DEF Asker
  <2>4. cl' = [cl EXCEPT ![k] = a]
    BY <1>1, <2>1, <2>2
  <2>5. v = User(c.asked) /\ bloom[k] = {}
    BY <1>0, <1>1, <2>1 DEF Asking
  <2>6. bloom' = [bloom EXCEPT ![k] = {"waiting"}]
    <3>1. bloom[k] \cup {"waiting"} = {"waiting"}
      BY <2>5
    <3>2. QED
      BY <2>1, <3>1
  <2>7. cl' \in [Keys -> Asker] /\ bloom' \in [Keys -> {{}, {"waiting"}, {"servicing"}, {"ready"}}] /\ count' \in Nat
    BY <1>0, <2>1, <2>3, <2>4, <2>6
  <2>8. CompletionTypeOK'
    BY <1>0, <2>1, <2>7 DEF CompletionTypeOK
  <2>9. /\ cl'[k] = a /\ bloom'[k] = {"waiting"} /\ val'[k] = v /\ epoch'[k] = e
        /\ \A j \in Keys \ {k} : val'[j] = val[j] /\ epoch'[j] = epoch[j] /\ bloom'[j] = bloom[j] /\ cl'[j] = cl[j]
    BY <1>0, <1>1, <2>1, <2>4, <2>6
  <2>10. {"waiting"} # {"ready"} /\ {"waiting"} # {}
    OBVIOUS
  <2>11. QED
    BY <1>1, <1>2, <2>1, <2>3, <2>5, <2>8, <2>9, <2>10, ClientKept
<1>7. QED
  BY <1>3, <1>4, <1>5, <1>6 DEF Client

-----------------------------------------------------------------------------
(* The invariant.                                                          *)

LEMMA CompletionInitially ==
  ASSUME CompletionInit
  PROVE  CompletionInv
<1>1. /\ val = [k \in Keys |-> Nothing] /\ epoch = [k \in Keys |-> 2] /\ bloom = [k \in Keys |-> {}] /\ count = 0 /\ d = Off
  BY DEF CompletionInit
<1>2. PICK n \in Requests : cl = [k \in Keys |-> [pc |-> "idle", asked |-> 0, left |-> n[k]]]
  BY DEF CompletionInit
<1>3. \A k \in Keys : n[k] \in Nat
  BY CompletionAssumption
<1>4. cl \in [Keys -> Asker] /\ \A k \in Keys : cl[k].pc = "idle"
  BY <1>2, <1>3 DEF Asker
<1>5. /\ d.pc = "off" /\ d.todo = << >> /\ d.kv = {} /\ d.chunk = << >> /\ d.n = 0 /\ ~ d.oom
  BY <1>1 DEF Off
<1>6. CompletionTypeOK
  <2>1. Nothing \in Value /\ << >> \in Seq(Keys) /\ << >> \in Seq(Token)
    BY DEF Nothing, Value
  <2>2. Off \in Server
    BY OffTyped
  <2>3. QED
    BY <1>1, <1>4, <1>5, <2>1, <2>2 DEF CompletionTypeOK, Begun, UnderWay, Decoding
<1>7. Asking
  <2>1. ~ Odd(2)
    BY DEF Odd
  <2>2. QED
    BY <1>1, <1>4, <2>1 DEF Asking
<1>8. Queued
  BY <1>5 DEF Queued, Listed, Begun
<1>9. Serving /\ Fresh
  BY <1>5 DEF Serving, Fresh, UnderWay, Decoding
<1>10. QED
  BY <1>6, <1>7, <1>8, <1>9 DEF CompletionInv

LEMMA CompletionKept ==
  ASSUME Orderly, CompletionInv, [CompletionNext]_completionVars
  PROVE  CompletionInv'
<1>1. CASE Waits
  BY <1>1, WaitsKept
<1>2. CASE Looks
  BY <1>2, LooksKept
<1>3. CASE Unwait \/ Service \/ Unservice \/ MarkReady
  BY <1>3, LabelsKept
<1>4. CASE BumpFirst \/ BumpLast
  BY <1>4, BumpsKept
<1>5. CASE SetPrompt
  BY <1>5, PromptKept
<1>6. CASE Flush
  BY <1>6, FlushKept
<1>7. CASE Full \/ Partial
  BY <1>7, EndsKept
<1>8. CASE \E k \in Keys : Client(k)
  BY <1>8, ClientsKept
<1>9. CASE UNCHANGED completionVars
  <2>1. val' = val /\ epoch' = epoch /\ bloom' = bloom /\ count' = count /\ cl' = cl /\ d' = d
    BY <1>9 DEF completionVars
  <2>2. CompletionTypeOK' /\ Asking'
    BY <2>1 DEF CompletionInv, CompletionTypeOK, Asking, Answered, Drawn
  <2>3. Queued'
    BY <2>1 DEF CompletionInv, Queued, Listed
  <2>4. Serving'
    BY <2>1 DEF CompletionInv, Serving, Answered, Drawn, Question
  <2>5. Fresh'
    BY <2>1 DEF CompletionInv, Fresh, Question
  <2>6. QED
    BY <2>2, <2>3, <2>4, <2>5 DEF CompletionInv
<1>10. QED
  BY <1>1, <1>2, <1>3, <1>4, <1>5, <1>6, <1>7, <1>8, <1>9 DEF CompletionNext, Daemon, Process, Waits, Looks

LEMMA CompletionInvariant ==
  ASSUME Orderly
  PROVE  CompletionSpec => []CompletionInv
<1>1. CompletionInit => CompletionInv
  BY CompletionInitially
<1>2. CompletionInv /\ [CompletionNext]_completionVars => CompletionInv'
  BY CompletionKept
<1>3. QED
  BY <1>1, <1>2, PTL DEF CompletionSpec

-----------------------------------------------------------------------------
(* Whatever a client reads under READY is the last question it asked, or   *)
(* the prompt made of it and the first tokens of its completion, in order  *)
(* and whole.  Each was decoded from that question, and beside it from no  *)
(* other but such as the model had failed on, whose prompts stay in its    *)
(* memory: also when the daemon is stopped or killed at any step and       *)
(* started again.                                                          *)
THEOREM AnswersHold ==
  ASSUME Orderly
  PROVE  CompletionSpec => []Exchange
<1>1. CompletionInv => Exchange
  BY DEF CompletionInv, Asking, Exchange, Ready
<1>2. QED
  BY <1>1, CompletionInvariant, PTL

(* While the daemon samples, what it believes it has written is what the   *)
(* slot holds: the room it computes for the next piece is the room there   *)
(* is, and the subtraction that computes it does not wrap.                 *)
THEOREM WrittenIsTrue ==
  ASSUME Orderly
  PROVE  CompletionSpec => []WrittenTrue
<1>1. CompletionInv => WrittenTrue
  BY DEF CompletionInv, Serving, WrittenTrue, UnderWay, Decoding
<1>2. QED
  BY <1>1, CompletionInvariant, PTL

(* A write goes to a key whose client is asking, or to the one in the      *)
(* daemon's hands: neither is labelled READY.                              *)
LEMMA WritesElsewhere ==
  ASSUME CompletionInv, CompletionNext, NEW k \in Keys, "ready" \in bloom[k]
  PROVE  val'[k] = val[k]
<1>0. CompletionTypeOK /\ Asking /\ Serving /\ val \in [Keys -> Value]
  BY DEF CompletionInv, CompletionTypeOK
<1>1. bloom[k] = {"ready"}
  BY <1>0 DEF CompletionTypeOK
<1>2. d.pc \in UnderWay => d.key # k
  <2>1. {"ready"} # {"servicing"} /\ {"ready"} # {}
    OBVIOUS
  <2>2. QED
    BY <1>0, <1>1, <2>1 DEF Serving
<1>3. CASE Waits \/ Looks
  BY <1>3, Stands
<1>4. CASE Unwait \/ Service \/ Unservice \/ MarkReady \/ BumpFirst \/ BumpLast
  BY <1>4 DEF Unwait, Service, Unservice, MarkReady, Relabel, BumpFirst, BumpLast, BumpAt
<1>5. CASE SetPrompt \/ Flush \/ Full \/ Partial
  <2>1. d.pc \in UnderWay
    BY <1>5 DEF SetPrompt, Flush, Full, Partial, UnderWay, Decoding
  <2>2. \/ val' = val
        \/ \E v : val' = [val EXCEPT ![d.key] = v]
    <3>1. CASE SetPrompt
      BY <3>1 DEF SetPrompt
    <3>2. \A s : Appended(d.key, s) => \E v : val' = [val EXCEPT ![d.key] = v]
      BY DEF Appended
    <3>3. CASE Flush \/ Full \/ Partial
      BY <3>2, <3>3 DEF Flush, Full, Partial, Cut, TooLong
    <3>4. QED
      BY <1>5, <3>1, <3>3
  <2>3. QED
    BY <1>0, <1>2, <2>1, <2>2
<1>6. CASE \E j \in Keys : Client(j)
  <2>1. PICK j \in Keys : Client(j)
    BY <1>6
  <2>2. val' = val \/ (cl[j].pc = "set" /\ \E v : val' = [val EXCEPT ![j] = v])
    BY <2>1 DEF Client, Read, SetOpen, SetClose, Label
  <2>3. cl[j].pc = "set" => j # k
    BY <1>0, <1>1 DEF Asking
  <2>4. QED
    BY <1>0, <2>2, <2>3
<1>7. QED
  BY <1>3, <1>4, <1>5, <1>6 DEF CompletionNext, Daemon, Process, Waits, Looks

(* Once a slot is READY its value stands until the next question, whoever  *)
(* asks, appends or is stopped elsewhere: a consumer that reads it needs   *)
(* no lock.                                                                *)
THEOREM ReadyStands ==
  ASSUME Orderly
  PROVE  CompletionSpec => ReadyIsFinal
<1>1. ASSUME CompletionInv, [CompletionNext]_completionVars
      PROVE  [\A k \in Keys : "ready" \in bloom[k] \cap bloom'[k] => val'[k] = val[k]]_completionVars
  BY <1>1, WritesElsewhere
<1>2. QED
  BY <1>1, CompletionInvariant, PTL DEF CompletionSpec, ReadyIsFinal

=============================================================================
