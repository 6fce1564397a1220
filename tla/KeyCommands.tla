----------------------------- MODULE KeyCommands -----------------------------
(***************************************************************************)
(* The commands of splinterctl that are more than one call of the library: *)
(* ingest, search, list, export, watch, unset -r and orders, with the      *)
(* tandem calls of splinter.c, over one store which other clients and the  *)
(* embedding daemon use at the same time.                                  *)
(*                                                                         *)
(* One step is one call of the library; what goes on inside a call is      *)
(* SlotStore's, but for a set, which locks a slot and hides its key before *)
(* it links it, and for the calls that scan: list looks at a slot a step,  *)
(* and a snapshot matches a key, copies the slot and checks its epoch.     *)
(***************************************************************************)
EXTENDS Integers, Sequences, SequencesExt, FiniteSetsExt

CONSTANTS
  Procs,     \* processes that run commands
  Keys,      \* the keys, << name, order >>: order 0 is the name itself
  Slots,     \* number of slots
  Home,      \* [Keys -> 1 .. Slots]: where the probe for a key begins
  Long,      \* the generations of the texts that are too long for the daemon's model
  Scenes,    \* how it begins: a set of [keys, whole, todo, holds, kills, embeds]
  NoKey      \* not a key

ASSUME CommandsAssumption ==
  /\ Slots \in Nat \ {0} /\ Home \in [Keys -> 1 .. Slots] /\ NoKey \notin Keys /\ Long \subseteq Nat \ {0, 1}
  /\ \A k \in Keys : k = << k[1], k[2] >> /\ k[2] \in Nat

VARIABLES
  tab,     \* the slots: key (the hash), hid (its name is wiped), val, type, label, vec, epoch
  m,       \* the command each process is in
  todo,    \* [Procs -> sequences of commands]: what each will run
  d,       \* the embedding daemon's key, if it is at one
  held,    \* the slots that other clients are in
  holds,   \* bound: calls of other clients, each of which locks a slot
  kills,   \* bound: processes that may be killed
  embeds,  \* bound: texts the daemon may read
  stood,   \* history: the keys that have stood, legible, since a process began its scan
  swept    \* history: the processes that another client's call met in their wait

commandVars == << tab, m, todo, d, held, holds, kills, embeds, stood, swept >>

Odd(n)  == n % 2 = 1
Nothing == [of |-> 0, n |-> 0]      \* no value, and the vector of zeros
Excuse  == [of |-> 0, n |-> 1]      \* the diagnostic the daemon leaves for a text too long
Free    == [key |-> NoKey, hid |-> FALSE, val |-> Nothing, type |-> "void", label |-> {}, vec |-> Nothing, epoch |-> 2]
Away    == [at |-> "idle", key |-> NoKey, text |-> Nothing, s |-> 0]

Idle == [do |-> "none", name |-> "none", n |-> 0, gen |-> 0, flag |-> FALSE, pc |-> "idle", i |-> 0, s |-> 0, x |-> 0,
         e |-> 0, vec |-> Nothing, got |-> FALSE, scores |-> FALSE, raw |-> FALSE,
         names |-> << >>, row |-> Free, rows |-> << >>, rc |-> 0]

Standing(t) == {t[s].key : s \in {r \in 1 .. Slots : ~ t[r].hid}} \ {NoKey}
Put(t)      == tab' = t /\ stood' = [p \in Procs |-> stood[p] \cap Standing(t)]
Still       == UNCHANGED << tab, stood >>

Probe(k)    == [j \in 1 .. Slots |-> 1 + ((Home[k] + j - 2) % Slots)]
Found(k)    == SelectInSeq(Probe(k), LAMBDA s : tab[s].key = k /\ ~ tab[s].hid)
Has(k)      == Found(k) # 0
At(k)       == Probe(k)[Found(k)]
Even(k)     == Has(k) /\ ~ Odd(tab[At(k)].epoch)

-----------------------------------------------------------------------------
(* The calls of the library.                                               *)

(* The slot a set takes: the first on the probe that is free or the key's, *)
(* and not busy.                                                           *)
Room(k)  == SelectInSeq(Probe(k), LAMBDA s : tab[s].key \in {NoKey, k} /\ ~ Odd(tab[s].epoch))
Takes(k) == Room(k) # 0

RoomAt(k) == Probe(k)[Room(k)]

(* It is locked, given the value, and loses its name, and is linked and    *)
(* opened: until then no lookup meets it, although its hash still stands.  *)
Wiped(s, v) ==
  [tab EXCEPT ![s].val = v, ![s].epoch = @ + 1, ![s].hid = tab[s].key # NoKey,
              ![s].vec = IF tab[s].key = NoKey THEN Nothing ELSE @]
Linked(s, k) == [tab EXCEPT ![s].key = k, ![s].hid = FALSE, ![s].epoch = @ + 1]

WithType(k, t)   == [tab EXCEPT ![At(k)].type = t, ![At(k)].epoch = @ + 2]
WithLabel(k, l)  == [tab EXCEPT ![At(k)].label = @ \cup {l}]
WithBump(k)      == [tab EXCEPT ![At(k)].epoch = @ + 2]
Without(k)       == [tab EXCEPT ![At(k)] = Free]

-----------------------------------------------------------------------------
K(p)       == << m[p].name, m[p].i >>
To(p, l)   == m' = [m EXCEPT ![p].pc = l]
End(p, rc) == m' = [m EXCEPT ![p].pc = "idle", ![p].rc = rc, ![p].names = << >>, ![p].s = 0, ![p].e = 0]
others     == << d, held, holds, kills, embeds >>
rest       == << todo, others, swept >>

(* The order a command begins with, and the one it goes on to: ingest      *)
(* writes its chunks from 1 and its metadata, which has no order, last.    *)
First(c) == IF c.do = "ingest" THEN 1 ELSE 0

(* Broken: the last chunk is left out.                                     *)
BrokenNextOrder(c) == IF c.i < c.n - 1 THEN c.i + 1 ELSE 0
NextOrder(c)       == IF c.i < c.n THEN c.i + 1 ELSE 0

Entry == [ingest |-> "set", search |-> "set", orders |-> "set", unset |-> "unset", disorder |-> "unset",
          list |-> "collect", export |-> "collect", watch |-> "look"]

Listing == {"list", "export"}

(* The next command of a process; a terminal that watches is set raw.      *)
Start(p) ==
  /\ m[p].pc = "idle" /\ todo[p] # << >>
  /\ LET c == Head(todo[p]) IN
       m' = [m EXCEPT ![p] = [Idle EXCEPT !.do = c.do, !.name = c.name, !.n = c.n, !.gen = c.gen, !.flag = c.flag,
                                          !.pc = Entry[c.do], !.i = First(c),
                                          !.raw = m[p].raw \/ c.do = "watch"]]
  /\ todo' = [todo EXCEPT ![p] = Tail(@)]
  /\ stood' = [stood EXCEPT ![p] = IF m'[p].do \in Listing THEN Standing(tab) ELSE {}]
  /\ swept' = swept \ {p}
  /\ UNCHANGED << tab, others >>

(* Killed in a set it leaves the slot locked, and its name wiped.          *)
Kill(p) ==
  /\ m[p].pc \notin {"idle", "dead", "crashed"} /\ kills > 0
  /\ m' = [m EXCEPT ![p] = [Idle EXCEPT !.pc = "dead", !.name = m[p].name, !.i = m[p].i, !.s = m[p].s]]
  /\ kills' = kills - 1
  /\ UNCHANGED << tab, todo, d, held, holds, embeds, stood, swept >>

-----------------------------------------------------------------------------
(* Writing: the chunks of an ingest and the metadata that announces them,  *)
(* the orders of a key, a query's scratch key.                             *)

Written(c) == [of |-> c.gen, n |-> IF c.do = "ingest" /\ c.i = 0 THEN c.n ELSE c.i]

Type(p, t)  == IF Even(K(p)) THEN Put(WithType(K(p), t)) ELSE Still
Label(p, l) == IF Has(K(p)) THEN Put(WithLabel(K(p), l)) ELSE Still
Bump(p)     == IF Even(K(p)) THEN Put(WithBump(K(p))) ELSE Still

SetOpen(p) ==
  /\ m[p].pc = "set" /\ Takes(K(p))
  /\ Put(Wiped(RoomAt(K(p)), Written(m[p])))
  /\ m' = [m EXCEPT ![p].pc = "link", ![p].s = RoomAt(K(p))]
  /\ UNCHANGED rest

(* Orders go on to the next set; the others give the key its type.         *)
SetLink(p) ==
  /\ m[p].pc = "link"
  /\ Put(Linked(m[p].s, K(p)))
  /\ IF m[p].do # "orders" THEN m' = [m EXCEPT ![p].pc = "type", ![p].s = 0]
     ELSE IF m[p].i < m[p].n - 1 THEN m' = [m EXCEPT ![p].pc = "set", ![p].i = @ + 1, ![p].s = 0]
     ELSE End(p, 0)
  /\ UNCHANGED rest

(* Only a search goes on after a set that found no slot.                   *)
SetFails(p) ==
  /\ m[p].pc = "set" /\ ~ Takes(K(p))
  /\ IF m[p].do = "search" THEN To(p, "type") ELSE End(p, 1)
  /\ Still /\ UNCHANGED rest

(* Where the type, the label or the bump fails, all that comes of it is a  *)
(* warning. *)
Chunk(p) ==
  /\ m[p].do = "ingest" /\ m[p].i > 0
  /\ \/ m[p].pc = "type"  /\ Type(p, "vartext") /\ To(p, "label")
     \/ m[p].pc = "label" /\ Label(p, "embed") /\ To(p, "bump")
     \/ m[p].pc = "bump"  /\ Bump(p) /\ m' = [m EXCEPT ![p].pc = "set", ![p].i = NextOrder(m[p])]
  /\ UNCHANGED rest

Metadata(p) ==
  /\ m[p].do = "ingest" /\ m[p].i = 0
  /\ \/ m[p].pc = "type"  /\ Type(p, "json") /\ To(p, "label")
     \/ m[p].pc = "label" /\ Label(p, "meta") /\ End(p, 0)
  /\ UNCHANGED rest

(* A search looks at none of these calls' results.                         *)
Query(p) ==
  /\ m[p].do = "search"
  /\ \/ m[p].pc = "type"  /\ Type(p, "vartext") /\ To(p, "label")
     \/ m[p].pc = "label" /\ Label(p, "embed") /\ To(p, "bump")
     \/ m[p].pc = "bump"  /\ Bump(p) /\ To(p, "look")
  /\ UNCHANGED rest

-----------------------------------------------------------------------------
(* Removing: unset, with -r also the orders from 1 until one fails;        *)
(* disorder (orders unset) passes over failures.                           *)

Forget(p) == IF Even(K(p)) THEN Put(Without(K(p))) ELSE Still

Unset(p) ==
  /\ m[p].do = "unset" /\ m[p].pc = "unset"
  /\ Forget(p)
  /\ IF Even(K(p)) /\ m[p].flag /\ << m[p].name, m[p].i + 1 >> \in Keys
       THEN m' = [m EXCEPT ![p].i = @ + 1]
       ELSE End(p, IF Even(K(p)) \/ m[p].i > 0 THEN 0 ELSE -1)
  /\ UNCHANGED rest

Disorder(p) ==
  /\ m[p].do = "disorder" /\ m[p].pc = "unset"
  /\ Forget(p)
  /\ IF m[p].i < m[p].n - 1 THEN m' = [m EXCEPT ![p].i = @ + 1] ELSE End(p, 0)
  /\ UNCHANGED rest

Cleanup(p) ==
  /\ m[p].do = "search" /\ m[p].pc = "unset"
  /\ Forget(p)
  /\ End(p, 0)
  /\ UNCHANGED rest

-----------------------------------------------------------------------------
(* Waiting for a key: search for its vector, watch for its value.          *)
(* splinter_poll fails at once on a key that is missing or busy.           *)

Look(p) ==
  /\ m[p].pc = "look" /\ Even(K(p))
  /\ m' = [m EXCEPT ![p].pc = "wait", ![p].s = At(K(p)), ![p].e = tab[At(K(p))].epoch]
  /\ Still /\ UNCHANGED rest

(* Broken: the wait ends whether or not the epoch has moved.               *)
BrokenMoved(p) ==
  /\ m[p].pc = "wait" /\ ~ Odd(tab[m[p].s].epoch)
  /\ To(p, "fetch")
  /\ Still /\ UNCHANGED rest

Moved(p) ==
  /\ m[p].pc = "wait" /\ ~ Odd(tab[m[p].s].epoch) /\ tab[m[p].s].epoch # m[p].e
  /\ To(p, "fetch")
  /\ Still /\ UNCHANGED rest

Refused(p) == m[p].pc = "look" /\ ~ Even(K(p))
Expired(p) == m[p].pc = "wait" /\ tab[m[p].s].epoch = m[p].e

(* Without a vector a search lists if it has a filter, and has nothing     *)
(* left to do if it has none.                                              *)
NoVector(p) == To(p, IF m[p].flag THEN "collect" ELSE "unset")

(* A search heeds only a timeout (2 s); at any other failure it goes on    *)
(* with a vector that it has not been given.                               *)
SearchPoll(p) ==
  /\ m[p].do = "search"
  /\ \/ Refused(p) /\ m' = [m EXCEPT ![p].pc = "collect", ![p].scores = TRUE]
     \/ Expired(p) /\ NoVector(p)
  /\ Still /\ UNCHANGED rest

SearchFetch(p) ==
  /\ m[p].do = "search" /\ m[p].pc = "fetch"
  /\ IF Even(K(p))
       THEN m' = [m EXCEPT ![p].pc = "collect", ![p].vec = tab[At(K(p))].vec, ![p].got = TRUE, ![p].scores = TRUE]
       ELSE NoVector(p)
  /\ Still /\ UNCHANGED rest

(* A watch takes any failure, its 100 ms included, for an invalid key.     *)
WatchPoll(p) ==
  /\ m[p].do = "watch" /\ (Refused(p) \/ Expired(p))
  /\ m' = [m EXCEPT ![p].pc = "idle", ![p].rc = -1, ![p].raw = FALSE]
  /\ Still /\ UNCHANGED rest

(* A watch that fails to read the value leaves the terminal as it is.      *)
WatchFetch(p) ==
  /\ m[p].do = "watch" /\ m[p].pc = "fetch"
  /\ IF ~ Even(K(p)) THEN End(p, -1)
     ELSE IF m[p].flag THEN m' = [m EXCEPT ![p].pc = "idle", ![p].raw = FALSE]
     ELSE To(p, "look")
  /\ Still /\ UNCHANGED rest

(* CTRL-] leaves a watch.                                                  *)
Leave(p) ==
  /\ m[p].pc = "look" /\ m[p].do = "watch"
  /\ m' = [m EXCEPT ![p].pc = "idle", ![p].raw = FALSE]
  /\ Still /\ UNCHANGED rest

-----------------------------------------------------------------------------
(* Listing: pointers to the keys of the slots in use, then a snapshot of   *)
(* whatever key each pointer shows by then.                                *)

Scratch(p) == << m[p].name, 0 >>

Collect(p) ==
  /\ m[p].pc = "collect"
  /\ LET s == m[p].x + 1 IN
       m' = [m EXCEPT ![p].x = IF s < Slots THEN s ELSE 0,
                      ![p].pc = IF s < Slots THEN @ ELSE "rows",
                      ![p].names = IF tab[s].key # NoKey THEN Append(@, s) ELSE @]
  /\ Still /\ UNCHANGED rest

Shown(p)  == tab[Head(m[p].names)].key
Passed(p) == tab[Head(m[p].names)].hid \/ Shown(p) = NoKey \/ (m[p].do = "search" /\ Shown(p) = Scratch(p))

(* A pointer to an empty name is passed over.  The match is of any slot    *)
(* with the key; it may have another one when it is copied.                *)
RowStep(p) ==
  /\ m[p].pc = "rows" /\ m[p].names # << >>
  /\ m' = [m EXCEPT ![p].names = Tail(@), ![p].x = @ + 1,
                    ![p].pc = IF Passed(p) THEN @ ELSE "copy", ![p].s = IF Passed(p) THEN @ ELSE At(Shown(p))]
  /\ Still /\ UNCHANGED rest

RowCopy(p) ==
  /\ m[p].pc = "copy" /\ ~ Odd(tab[m[p].s].epoch)
  /\ m' = [m EXCEPT ![p].pc = "check", ![p].row = tab[m[p].s], ![p].e = tab[m[p].s].epoch]
  /\ Still /\ UNCHANGED rest

Printed(t)   == [t EXCEPT !.key = IF t.hid THEN NoKey ELSE @]
WithRow(p, t) == m' = [m EXCEPT ![p].pc = "rows", ![p].rows = Append(@, t), ![p].row = Free]

(* Broken: a copy that did not come out whole is left out.                 *)
BrokenRowCheck(p) ==
  /\ m[p].pc = "check"
  /\ IF tab[m[p].s].epoch = m[p].e THEN WithRow(p, m[p].row) ELSE To(p, "rows")
  /\ Still /\ UNCHANGED rest

(* The epoch has moved: once more, or, where it is odd, the loop may end   *)
(* with a copy of which part was made before and part since.               *)
RowCheck(p) ==
  /\ m[p].pc = "check"
  /\ IF tab[m[p].s].epoch = m[p].e THEN WithRow(p, m[p].row)
     ELSE \/ To(p, "copy")
          \/ Odd(tab[m[p].s].epoch) /\ \E t \in {m[p].row, Printed(tab[m[p].s])} : WithRow(p, t)
  /\ Still /\ UNCHANGED rest

(* After the last pointer list looks for a null one, beyond its array when *)
(* every slot was in use.                                                  *)
Listed(p) ==
  /\ m[p].pc = "rows" /\ m[p].names = << >>
  /\ \/ CASE m[p].do = "search" -> m' = [m EXCEPT ![p].pc = IF m[p].scores THEN "score" ELSE "unset", ![p].x = 0]
         [] m[p].do = "list"   -> End(p, 0)
         [] m[p].do = "export" -> m' = [m EXCEPT ![p].pc = "values", ![p].x = 0]
     \/ m[p].do \in Listing /\ m[p].x = Slots /\ To(p, "crashed")
  /\ Still /\ UNCHANGED rest

Gettable(k) == k # NoKey /\ Even(k)

(* export gets each text again by its key; null where the get fails.       *)
ValueStep(p) ==
  /\ m[p].pc = "values" /\ m[p].x < Len(m[p].rows)
  /\ LET i == m[p].x + 1
         r == m[p].rows[i]
     IN  m' = [m EXCEPT ![p].x = i,
                        ![p].rows[i].val = IF r.type # "vartext" \/ r.val = Nothing THEN @
                                           ELSE IF Gettable(r.key) THEN tab[At(r.key)].val ELSE Nothing]
  /\ Still /\ UNCHANGED rest

Exported(p) ==
  /\ m[p].pc = "values" /\ m[p].x = Len(m[p].rows)
  /\ End(p, 0)
  /\ Still /\ UNCHANGED rest

(* search gets the vector of each key again, and scores the row by it.     *)
Score(p) ==
  /\ m[p].pc = "score"
  /\ LET i == m[p].x + 1 IN
       IF i > Len(m[p].rows) THEN To(p, "unset")
       ELSE m' = [m EXCEPT ![p].x = i,
                           ![p].rows[i].vec = LET k == m[p].rows[i].key IN IF Gettable(k) THEN tab[At(k)].vec ELSE Nothing]
  /\ Still /\ UNCHANGED rest

-----------------------------------------------------------------------------
(* Others: a client inside a call on a slot that leaves its text alone, or *)
(* a purge, which goes through every slot; and the embedding daemon, which *)
(* does not look at the epoch again once it has a vector.                  *)

Hold(s) ==
  /\ holds > 0 /\ ~ Odd(tab[s].epoch)
  /\ tab' = [tab EXCEPT ![s].epoch = @ + 1] /\ held' = held \cup {s} /\ holds' = holds - 1
  /\ swept' = swept \cup {p \in Procs : m[p].pc = "wait" /\ m[p].s = s}
  /\ UNCHANGED << m, todo, d, kills, embeds, stood >>

Release(s) ==
  /\ s \in held
  /\ tab' = [tab EXCEPT ![s].epoch = @ + 1] /\ held' = held \ {s}
  /\ UNCHANGED << m, todo, d, holds, kills, embeds, stood, swept >>

EmbedRead ==
  /\ d.at = "idle" /\ embeds > 0
  /\ \E k \in Keys :
       /\ Even(k) /\ "embed" \in tab[At(k)].label /\ tab[At(k)].type = "vartext" /\ tab[At(k)].vec # tab[At(k)].val
       /\ d' = [d EXCEPT !.at = "decode", !.key = k, !.text = tab[At(k)].val]
  /\ embeds' = embeds - 1
  /\ UNCHANGED << tab, m, todo, held, holds, kills, stood, swept >>

unembedded == << m, todo, held, holds, kills, embeds, swept >>

EmbedOpen ==
  /\ d.at = "decode"
  /\ IF Even(d.key) THEN /\ tab' = [tab EXCEPT ![At(d.key)].epoch = @ + 1]
                         /\ d' = [d EXCEPT !.at = "commit", !.s = At(d.key)]
                    ELSE d' = Away /\ UNCHANGED tab
  /\ UNCHANGED << unembedded, stood >>

(* A text that is too long has the vector of zeros, then the diagnostic in *)
(* its place, a label (not modelled) and a bump.                           *)
TooLong == d.text.of \in Long

EmbedClose ==
  /\ d.at = "commit"
  /\ tab' = [tab EXCEPT ![d.s].epoch = @ + 1, ![d.s].vec = IF TooLong THEN Nothing ELSE d.text]
  /\ d' = IF TooLong THEN [d EXCEPT !.at = "stamp", !.s = 0] ELSE Away
  /\ UNCHANGED << unembedded, stood >>

StampOpen ==
  /\ d.at = "stamp"
  /\ IF Takes(d.key) THEN /\ Put(Wiped(RoomAt(d.key), Excuse))
                          /\ d' = [d EXCEPT !.at = "link", !.s = RoomAt(d.key)]
                     ELSE d' = Away /\ Still
  /\ UNCHANGED unembedded

StampLink ==
  /\ d.at = "link"
  /\ Put(Linked(d.s, d.key)) /\ d' = [d EXCEPT !.at = "bump", !.s = 0]
  /\ UNCHANGED unembedded

StampBump ==
  /\ d.at = "bump"
  /\ IF Even(d.key) THEN Put(WithBump(d.key)) ELSE Still
  /\ d' = Away
  /\ UNCHANGED unembedded

-----------------------------------------------------------------------------
(* Of what stands at the beginning, c.whole are documents, all of whose    *)
(* chunks are there.                                                       *)
Begun(c, k) == IF k[2] > 0 \/ k[1] \notin c.whole THEN k[2]
                                                 ELSE Quantify(1 .. Slots, LAMBDA s : c.keys[s] # NoKey /\ c.keys[s][1] = k[1]) - 1

CommandsInit ==
  \E c \in Scenes :
    /\ tab = [s \in 1 .. Slots |-> IF c.keys[s] = NoKey THEN Free
                                   ELSE [Free EXCEPT !.key = c.keys[s], !.val = [of |-> 1, n |-> Begun(c, c.keys[s])]]]
    /\ todo = c.todo /\ holds = c.holds /\ kills = c.kills /\ embeds = c.embeds
    /\ m = [p \in Procs |-> Idle]
    /\ d = Away /\ held = {}
    /\ stood = [p \in Procs |-> {}] /\ swept = {}

Steps(p) ==
  \/ SetOpen(p) \/ SetLink(p) \/ SetFails(p) \/ Chunk(p) \/ Metadata(p) \/ Query(p)
  \/ Unset(p) \/ Disorder(p) \/ Cleanup(p)
  \/ Look(p) \/ Moved(p) \/ SearchPoll(p) \/ SearchFetch(p) \/ WatchPoll(p) \/ WatchFetch(p)
  \/ Collect(p) \/ RowStep(p) \/ RowCopy(p) \/ RowCheck(p) \/ Listed(p) \/ ValueStep(p) \/ Exported(p) \/ Score(p)

CommandsNext ==
  \/ \E p \in Procs : Start(p) \/ Kill(p) \/ Leave(p) \/ Steps(p)
  \/ \E s \in 1 .. Slots : Hold(s) \/ Release(s)
  \/ EmbedRead \/ EmbedOpen \/ EmbedClose \/ StampOpen \/ StampLink \/ StampBump

CommandsSpec == CommandsInit /\ [][CommandsNext]_commandVars
-----------------------------------------------------------------------------
(* Metadata that announces n chunks of a document stands only where every  *)
(* one of them has its slot, with a text at least as new: whatever fails   *)
(* and wherever an ingest is killed, its sets included, a reader who takes *)
(* the metadata and then the chunks never misses one and never has one of  *)
(* a generation before.  It may find one newer than the metadata (a second *)
(* ingest over the first is seen half done), or locked, by who is writing  *)
(* it or was killed there.                                                 *)
IngestOrder ==
  \A s \in 1 .. Slots :
    tab[s].key # NoKey /\ tab[s].key[2] = 0 /\ tab[s].val.of > 0 /\ tab[s].val.n > 0 =>
      \A i \in 1 .. tab[s].val.n :
        \E r \in 1 .. Slots :
          tab[r].key = << tab[s].key[1], i >> /\ tab[r].val.n = i /\ tab[r].val.of >= tab[s].val.of

(* A key that stands from the beginning of a list or an export to its end, *)
(* and that nobody sets meanwhile, which would wipe its name, is in it     *)
(* exactly once, whatever comes and goes in the slots that the pointers of *)
(* splinter_list show.                                                     *)
ListTrue ==
  \A p \in Procs :
    m[p].do \in Listing /\ m[p].pc = "idle" =>
      \A k \in stood[p] : Quantify(DOMAIN m[p].rows, LAMBDA i : m[p].rows[i].key = k) = 1

(* The vector a search is given at the end of its wait is that of its own  *)
(* text; or zeros, where another client's call (a purge) met the wait; or, *)
(* where the text is too long, the zeros or the vector of the diagnostic.  *)
(* It is never that of another text.                                       *)
SearchTrue ==
  \A p \in Procs : m[p].got =>
    \/ m[p].vec = Written([m[p] EXCEPT !.i = 0])
    \/ m[p].vec = Nothing /\ p \in swept
    \/ m[p].vec \in {Nothing, Excuse} /\ m[p].gen \in Long

(* What the code does not keep: a search scores only with a vector it was  *)
(* given; a watch ends by an error only when its key is gone; a watch that *)
(* has ended gives the terminal back; list returns.                        *)
SearchSure   == \A p \in Procs : m[p].scores => m[p].got
WatchStays   == [][\A p \in Procs : m[p].do = "watch" /\ m[p].pc = "wait" /\ m'[p].rc = -1 => ~ Has(K(p))]_commandVars
TerminalBack == \A p \in Procs : m[p].do = "watch" /\ m[p].pc = "idle" => ~ m[p].raw
ListReturns  == \A p \in Procs : m[p].pc # "crashed"

-----------------------------------------------------------------------------
(* What the proofs assume. *)

Names   == {k[1] : k \in Keys}
Setters == {"ingest", "search", "orders"}
Writers == Setters \cup {"unset", "disorder"}

(* The orders a command goes through. *)
Orders(c) == CASE c.do = "ingest" -> 0 .. IF c.n > 1 THEN c.n ELSE 1
               [] c.do \in {"orders", "disorder"} -> 0 .. IF c.n > 1 THEN c.n - 1 ELSE 0
               [] OTHER -> {0}

Command == {c \in [do : DOMAIN Entry, name : Names, n : Nat, gen : Nat, flag : BOOLEAN] :
              c.do \notin Listing => \A i \in Orders(c) : << c.name, i >> \in Keys}

(* Before or after c in one process's hands, or in two processes'. *)
Apart(c, e)  == c.do \in Writers /\ e.do \in Writers => c.name # e.name
InTurn(c, e) ==
  c.name = e.name =>
    /\ c.do \in Setters /\ e.do \in Setters => c.gen <= e.gen
    /\ {c.do, e.do} # {"disorder", "ingest"}
    /\ c.do = "search" => e.do \notin Writers
    /\ e.do = "search" => c.do \notin Writers

Stocked(c) == {c.keys[s] : s \in 1 .. Slots} \ {NoKey}

(* No two processes write keys of one name; what a process sets is newer   *)
(* than what it has set before; orders unset is not meant for a document;  *)
(* a search has a name of its own, which nobody else uses; only a search's *)
(* text may be too long for the model, as the daemon would put its         *)
(* diagnostic in the place of a chunk; and what stands at the start are    *)
(* documents, whole.                                                       *)
Sorted ==
  \A c \in Scenes :
    /\ c.keys \in [1 .. Slots -> Keys \cup {NoKey}] /\ c.todo \in [Procs -> Seq(Command)]
    /\ \A k \in Stocked(c) : \A i \in 1 .. Begun(c, k) : k[2] = 0 => << k[1], i >> \in Stocked(c)
    /\ \A p, q \in Procs : p # q =>
         \A i \in DOMAIN c.todo[p], j \in DOMAIN c.todo[q] : Apart(c.todo[p][i], c.todo[q][j])
    /\ \A p \in Procs : \A j \in DOMAIN c.todo[p] :
         /\ \A i \in 1 .. j - 1 : InTurn(c.todo[p][i], c.todo[p][j])
         /\ c.todo[p][j].do \in Setters => c.todo[p][j].gen > 0
         /\ c.todo[p][j].do = "disorder" => c.todo[p][j].name \notin c.whole
         /\ IF c.todo[p][j].do = "search" THEN << c.todo[p][j].name, 0 >> \notin Stocked(c)
            ELSE c.todo[p][j].do \in Setters => c.todo[p][j].gen \notin Long

(* Where no key comes to be in two slots: keys that have slots of their    *)
(* own, and no set of a key which another client or the daemon may have    *)
(* busy; or a full table, from which nothing is removed.                   *)
Given(c) == UNION {{c.todo[p][j] : j \in DOMAIN c.todo[p]} : p \in Procs}
Sets(c)  == UNION {{<< e.name, i >> : i \in Orders(e)} : e \in {x \in Given(c) : x.do \in Setters}}

Rooted(c) ==
  /\ \A s \in 1 .. Slots : c.keys[s] # NoKey => Home[c.keys[s]] = s
  /\ \A j, k \in Stocked(c) \cup Sets(c) : Home[j] = Home[k] => j = k
  /\ c.holds = 0
  /\ c.embeds = 0 \/ \A e \in Given(c) : e.do \in Setters => e.do = "search"

Filled(c) ==
  /\ \A r, s \in 1 .. Slots : c.keys[r] = c.keys[s] => r = s
  /\ \A s \in 1 .. Slots : c.keys[s] # NoKey
  /\ \A e \in Given(c) : e.do \notin {"unset", "disorder", "search"}

Settled == \A c \in Scenes : Rooted(c) \/ Filled(c)

(* No key is in two slots. *)
Once == \A r, s \in 1 .. Slots : tab[r].key = tab[s].key /\ tab[r].key # NoKey => r = s

=============================================================================
