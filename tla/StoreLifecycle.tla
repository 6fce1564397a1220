--------------------------- MODULE StoreLifecycle ---------------------------
(***************************************************************************)
(* The life of one store of splinter.c: the shared object is made, filled  *)
(* in store by store, mapped by other processes, closed, and mapped again; *)
(* one of them arms the event bus and others open its eventfd.             *)
(*                                                                         *)
(* One step is one system call or one store to the header that another     *)
(* process could tell from the next.  The header's first fields are plain  *)
(* stores, which the compiler may order as it likes: any order.            *)
(* File descriptors are numbers, the lowest free one first, because the    *)
(* bus hands a number and a process id around instead of a file.           *)
(***************************************************************************)
EXTENDS Integers, Sequences, FiniteSetsExt, Functions

CONSTANTS
  Procs,    \* processes
  Home,     \* [Procs -> Slots]: the slot of the key each one puts
  Slots,    \* number of slots
  Calls,    \* [Procs -> sets of calls]: what a process calls
  Most,     \* bound: the most calls any process makes
  Limits,   \* bounds: a set of [Procs -> number of calls a process makes]
  Kills     \* bound: how often a process is killed

Openers == {"open", "create_or_open", "open_or_create"}
Makers  == {"create", "create_or_open", "open_or_create"}
Bus     == {"bus_init", "bus_open", "bus_close"}
AllCalls == Openers \cup Makers \cup Bus \cup {"close", "put"}

ASSUME LifecycleAssumption ==
  /\ Slots \in Nat \ {0} /\ Kills \in Nat /\ Most \in Nat
  /\ Home \in [Procs -> 1 .. Slots] /\ Limits \subseteq [Procs -> 0 .. Most]
  /\ Calls \in [Procs -> SUBSET AllCalls]

VARIABLES
  obj,    \* the shared object: its size, what has been stored, its keys, the bus
  proc,   \* each process: the library's globals and the call it is in
  files,  \* each process's descriptors
  rings,  \* eventfds made so far
  left,   \* calls each process may still make
  kills,  \* kills that may still happen
  steady  \* history: consumers that found the bus's owner standing by, while it does

lifeVars == << obj, proc, files, rings, left, kills, steady >>
budget   == << left, kills, steady >>

Plain   == {"magic", "version", "geometry"}
Later   == << "rest" >>  \* counters, flags, bus, bids and watches
Stages  == Plain \cup Range(Later)

(* Descriptor numbers: every call leaves at most one behind.               *)
Numbers == 1 .. Most + 2
Closed  == 0

(* What a descriptor names: nothing, the store, or an eventfd.             *)
Free    == 0
Shared  == 1
Ring(n) == 2 + n

Down == [pc |-> "idle", op |-> "none", h |-> FALSE, arena |-> "none", ok |-> FALSE,
         bell |-> Closed, ear |-> Closed, fd |-> Closed, size |-> "none", pid |-> 1,
         whole |-> FALSE, n |-> 0, peer |-> << "none", 0 >>]

NoStore == [there |-> FALSE, size |-> "none", has |-> {}, made |-> 0, keys |-> [s \in 1 .. Slots |-> "zero"],
            fd |-> Closed, pid |-> << "none", 0 >>, kept |-> {}]

Whole == obj.has = Stages /\ obj.made = Slots

At(p, l) == proc' = [proc EXCEPT ![p].pc = l]

(* The end of a call, and the locals gone with it.                         *)
Away(r)     == [r EXCEPT !.pc = "idle", !.fd = Closed, !.size = "none", !.n = 0, !.peer = << "none", 0 >>]
Leave(p, r) == proc' = [proc EXCEPT ![p] = Away(r)]
Back(p)     == Leave(p, proc[p])

(* The lowest descriptor a process has free, and what open and close do.   *)
Lowest(p)      == Min({n \in Numbers : files[p][n] = Free})
With(p, n, f)  == files' = [files EXCEPT ![p] = [k \in Numbers |-> IF k = n THEN f ELSE @[k]]]
File(p, n)     == IF n = Closed THEN Free ELSE files[p][n]

Me(p)    == << p, proc[p].pid >>
Live(id) == \E p \in Procs : id = Me(p)

(* The owner stands by: what the header names is the ring it writes to.    *)
(* A process killed between the header's two stores leaves its descriptor  *)
(* number beside the id of the owner before it, and names no ring.         *)
Standing == /\ \E p \in Procs : obj.pid = Me(p) /\ proc[p].bell # Closed /\ obj.fd = proc[p].bell
            /\ \A p \in Procs : proc[p].pc # "own"

Unsettled == [p \in Procs |-> FALSE]

-----------------------------------------------------------------------------
(* splinter_create.                                                        *)

BrokenCreateObject(p) ==
  /\ proc[p].pc = "create"
  /\ obj' = IF obj.there THEN obj ELSE [NoStore EXCEPT !.there = TRUE]
  /\ With(p, Lowest(p), Shared)
  /\ proc' = [proc EXCEPT ![p].pc = "truncate", ![p].fd = Lowest(p)]
  /\ UNCHANGED << rings, budget >>

CreateObject(p) ==
  /\ proc[p].pc = "create"
  /\ IF obj.there
       THEN /\ IF proc[p].op = "create_or_open" THEN At(p, "open") ELSE Leave(p, [proc[p] EXCEPT !.ok = FALSE])
            /\ UNCHANGED << obj, files >>
       ELSE /\ obj' = [NoStore EXCEPT !.there = TRUE]
            /\ With(p, Lowest(p), Shared)
            /\ proc' = [proc EXCEPT ![p].pc = "truncate", ![p].fd = Lowest(p)]
  /\ UNCHANGED << rings, budget >>

Truncate(p) ==
  /\ proc[p].pc = "truncate"
  /\ obj' = [obj EXCEPT !.size = "full"]
  /\ At(p, "map")
  /\ UNCHANGED << files, rings, budget >>

(* map_fd, for the process that makes the store: the header is zero.       *)
MapNew(p) ==
  /\ proc[p].pc = "map"
  /\ proc' = [proc EXCEPT ![p].pc = "format", ![p].h = TRUE, ![p].arena = "slots"]
  /\ UNCHANGED << obj, files, rings, budget >>

StorePlain(p) ==
  /\ proc[p].pc = "format"
  /\ \E f \in Plain \ obj.has : obj' = [obj EXCEPT !.has = @ \cup {f}]
  /\ UNCHANGED << proc, files, rings, budget >>

BrokenRecompute(p) ==
  /\ proc[p].pc = "format" /\ Plain \subseteq obj.has
  /\ proc' = [proc EXCEPT ![p].pc = "fill", ![p].n = 1]
  /\ UNCHANGED << obj, files, rings, budget >>

Recompute(p) ==
  /\ proc[p].pc = "format" /\ Plain \subseteq obj.has
  /\ proc' = [proc EXCEPT ![p].pc = "fill", ![p].arena = "arena", ![p].n = 1]
  /\ UNCHANGED << obj, files, rings, budget >>

StoreRest(p) ==
  /\ proc[p].pc = "fill" /\ proc[p].n <= Len(Later)
  /\ obj' = [obj EXCEPT !.has = @ \cup {Later[proc[p].n]},
                        !.fd  = IF Later[proc[p].n] = "rest" THEN Closed ELSE @,
                        !.pid = IF Later[proc[p].n] = "rest" THEN << "none", 0 >> ELSE @]
  /\ proc' = [proc EXCEPT ![p].n = @ + 1]
  /\ steady' = IF Later[proc[p].n] = "rest" THEN Unsettled ELSE steady
  /\ UNCHANGED << files, rings, left, kills >>

(* The slots, one after the other; the call returns after the last.        *)
StoreSlot(p) ==
  LET s == proc[p].n - Len(Later) IN
  /\ proc[p].pc = "fill" /\ s >= 1
  /\ obj' = [obj EXCEPT !.made = s, !.keys[s] = "empty"]
  /\ IF s = Slots THEN Leave(p, [proc[p] EXCEPT !.ok = TRUE, !.whole = TRUE])
                  ELSE proc' = [proc EXCEPT ![p].n = @ + 1]
  /\ UNCHANGED << files, rings, budget >>

-----------------------------------------------------------------------------
(* splinter_open.                                                          *)

NotOpen(p) == IF proc[p].op = "open_or_create" THEN At(p, "create") ELSE Leave(p, [proc[p] EXCEPT !.ok = FALSE])

OpenObject(p) ==
  /\ proc[p].pc = "open"
  /\ IF obj.there
       THEN /\ With(p, Lowest(p), Shared)
            /\ proc' = [proc EXCEPT ![p].pc = "stat", ![p].fd = Lowest(p)]
       ELSE NotOpen(p) /\ UNCHANGED files
  /\ UNCHANGED << obj, rings, budget >>

Stat(p) ==
  /\ proc[p].pc = "stat"
  /\ proc' = [proc EXCEPT ![p].pc = "mmap", ![p].size = obj.size]
  /\ UNCHANGED << obj, files, rings, budget >>

(* An empty object cannot be mapped, and H stays what it was.  Otherwise H *)
(* is set before anything is checked, and stays set if the check fails.    *)
MapOpen(p) ==
  /\ proc[p].pc = "mmap"
  /\ IF proc[p].size = "none"
       THEN NotOpen(p)
       ELSE proc' = [proc EXCEPT ![p].h = TRUE, ![p].pc = "check",
                                 ![p].arena = IF "geometry" \in obj.has THEN "arena" ELSE "slots"]
  /\ UNCHANGED << obj, files, rings, budget >>

Check(p) ==
  /\ proc[p].pc = "check"
  /\ IF {"magic", "version"} \subseteq obj.has THEN Leave(p, [proc[p] EXCEPT !.ok = TRUE]) ELSE NotOpen(p)
  /\ UNCHANGED << obj, files, rings, budget >>

-----------------------------------------------------------------------------
(* splinter_close: it closes the descriptor writers ring, and leaves the    *)
(* bus's owner in the header as it was.                                    *)
Close(p) ==
  /\ proc[p].pc = "close"
  /\ With(p, proc[p].bell, Free)
  /\ proc' = [proc EXCEPT ![p] = [Down EXCEPT !.ear = proc[p].ear, !.pid = proc[p].pid]]
  /\ steady' = IF obj.pid = Me(p) THEN Unsettled ELSE steady
  /\ UNCHANGED << obj, rings, left, kills >>

-----------------------------------------------------------------------------
(* The bus: who owns it is a descriptor number and a process id.           *)

InitFd(p) ==
  /\ proc[p].pc = "bus_init"
  /\ With(p, Lowest(p), Ring(rings))
  /\ rings' = rings + 1
  /\ obj' = [obj EXCEPT !.fd = Lowest(p)]
  /\ proc' = [proc EXCEPT ![p].pc = "own", ![p].fd = Lowest(p)]
  /\ steady' = Unsettled
  /\ UNCHANGED << left, kills >>

InitPid(p) ==
  /\ proc[p].pc = "own"
  /\ obj' = [obj EXCEPT !.pid = Me(p)]
  /\ Leave(p, [proc[p] EXCEPT !.bell = proc[p].fd])
  /\ UNCHANGED << files, rings, budget >>

LoadFd(p) ==
  /\ proc[p].pc = "bus_open"
  /\ proc' = [proc EXCEPT ![p].pc = "owner", ![p].fd = obj.fd]
  /\ steady' = [steady EXCEPT ![p] = Standing]
  /\ UNCHANGED << obj, files, rings, left, kills >>

LoadPid(p) ==
  /\ proc[p].pc = "owner"
  /\ IF proc[p].fd = Closed \/ obj.pid[2] = 0
       THEN Back(p)
       ELSE proc' = [proc EXCEPT ![p].pc = "dup", ![p].peer = obj.pid]
  /\ UNCHANGED << obj, files, rings, budget >>

(* Broken: the owner's number is looked up among the caller's descriptors. *)
BrokenDup(p) ==
  LET file == IF Live(proc[p].peer) THEN File(p, proc[p].fd) ELSE Free IN
  /\ proc[p].pc = "dup"
  /\ IF file = Free THEN Back(p) /\ UNCHANGED files
                    ELSE With(p, Lowest(p), file) /\ Leave(p, [proc[p] EXCEPT !.ear = Lowest(p)])
  /\ UNCHANGED << obj, rings, budget >>

(* dup, or pidfd_getfd from the process with that id, whatever file the    *)
(* number names there now.                                                 *)
Dup(p) ==
  LET q    == proc[p].peer[1]
      file == IF Live(proc[p].peer) THEN File(q, proc[p].fd) ELSE Free IN
  /\ proc[p].pc = "dup"
  /\ IF file = Free THEN Back(p) /\ UNCHANGED files
                    ELSE With(p, Lowest(p), file) /\ Leave(p, [proc[p] EXCEPT !.ear = Lowest(p)])
  /\ UNCHANGED << obj, rings, budget >>

BusClose(p) ==
  /\ proc[p].pc = "bus_close"
  /\ With(p, proc[p].ear, Free)
  /\ Leave(p, [proc[p] EXCEPT !.ear = Closed])
  /\ UNCHANGED << obj, rings, budget >>

-----------------------------------------------------------------------------
(* A key is put by a process whose open or create returned 0.  A header    *)
(* that still says 0 slots divides by zero; an arena that begins where the *)
(* slots do overwrites one.                                                *)

Dead(p) == /\ proc' = [proc EXCEPT ![p] = [Down EXCEPT !.pid = proc[p].pid + 1]]
           /\ files' = [files EXCEPT ![p] = [n \in Numbers |-> Free]]
           /\ steady' = IF obj.pid = Me(p) THEN Unsettled ELSE [steady EXCEPT ![p] = FALSE]

Put(p) ==
  LET taken == [obj.keys EXCEPT ![Home[p]] = "key"] IN
  /\ proc[p].pc = "put"
  /\ IF "geometry" \notin obj.has
       THEN Dead(p) /\ UNCHANGED obj
       ELSE /\ \E ks \in IF proc[p].arena = "arena" THEN {taken}
                         ELSE {[taken EXCEPT ![s] = "wrecked"] : s \in 1 .. Slots} :
                 obj' = [obj EXCEPT !.kept = IF proc[p].whole THEN @ \cup {Home[p]} ELSE @, !.keys = ks]
            /\ Back(p) /\ UNCHANGED << files, steady >>
  /\ UNCHANGED << rings, left, kills >>

-----------------------------------------------------------------------------
Callable(p, c) ==
  CASE c = "put"       -> proc[p].ok
    [] c = "bus_init"  -> proc[p].ok
    [] c = "bus_open"  -> proc[p].ok /\ proc[p].ear = Closed
    [] c = "bus_close" -> proc[p].ear # Closed
    [] OTHER           -> TRUE

Start(p) ==
  /\ proc[p].pc = "idle" /\ left[p] > 0
  /\ \E c \in Calls[p] :
       /\ Callable(p, c)
       /\ proc' = [proc EXCEPT ![p].op = c,
                               ![p].pc = CASE c = "create_or_open" -> "create" [] c = "open_or_create" -> "open"
                                           [] OTHER -> c,
                               ![p].whole = IF c \in Openers THEN Whole ELSE @]
  /\ left' = [left EXCEPT ![p] = @ - 1]
  /\ UNCHANGED << obj, files, rings, kills, steady >>

Kill(p) ==
  /\ kills > 0 /\ proc[p] # [Down EXCEPT !.pid = proc[p].pid]
  /\ kills' = kills - 1
  /\ Dead(p)
  /\ UNCHANGED << obj, rings, left >>

LifecycleInit ==
  /\ obj = NoStore /\ rings = 0 /\ left \in Limits /\ kills = Kills
  /\ proc = [p \in Procs |-> Down]
  /\ files = [p \in Procs |-> [n \in Numbers |-> Free]]
  /\ steady = Unsettled

LifecycleNext == \E p \in Procs :
  \/ Start(p) \/ Kill(p) \/ Put(p) \/ Close(p)
  \/ CreateObject(p) \/ Truncate(p) \/ MapNew(p) \/ StorePlain(p) \/ Recompute(p) \/ StoreRest(p) \/ StoreSlot(p)
  \/ OpenObject(p) \/ Stat(p) \/ MapOpen(p) \/ Check(p)
  \/ InitFd(p) \/ InitPid(p) \/ LoadFd(p) \/ LoadPid(p) \/ Dup(p) \/ BusClose(p)

LifecycleSpec == LifecycleInit /\ [][LifecycleNext]_lifeVars

-----------------------------------------------------------------------------
(* Properties.                                                             *)

(* Whatever process creates, opens or is killed, and in whatever order: a  *)
(* key put by a process that made the store, or opened it once it was      *)
(* whole, is never wiped by another that makes the store again (the O_EXCL *)
(* of splinter_create, and its comment).  It may be overwritten by one     *)
(* whose arena begins at the slots, which ArenaAfterSlots is about.        *)
PutsKept == \A s \in obj.kept : obj.keys[s] \in {"key", "wrecked"}

Idle(p) == proc[p].pc = "idle" /\ proc[p].whole

(* A call that may open the store, begun once it was whole, attaches; and  *)
(* whoever made the store or attached to it whole sees the value arena     *)
(* after the slots (map_fd, and the recomputation in splinter_create).     *)
AttachTrue == \A p \in Procs :
  /\ Idle(p) /\ proc[p].op \in Openers => proc[p].ok
  /\ Idle(p) /\ proc[p].ok => proc[p].arena = "arena"

(* Whoever attached, even to a store that was not whole, sees the arena    *)
(* after the slots (splinter.c:215 says splinter_open always does).        *)
ArenaAfterSlots == \A p \in Procs : proc[p].pc = "idle" /\ proc[p].ok => proc[p].arena = "arena"

(* A consumer that opened the bus while its owner stood by hears, for as   *)
(* long as the owner does, the ring its owner writes to (the documented    *)
(* result of splinter_event_bus_open).                                     *)
HearsOwner == \A p \in Procs : steady[p] /\ proc[p].ear # Closed =>
  \E q \in Procs : obj.pid = Me(q) /\ File(p, proc[p].ear) = File(q, proc[q].bell)

(* What splinter_event_bus_open returns is an eventfd.                     *)
EarIsRing == \A p \in Procs : File(p, proc[p].ear) # Shared

-----------------------------------------------------------------------------
(* What the steps preserve.                                                *)

MakerPlaces == {"truncate", "map", "format", "fill"}
OpenPlaces  == {"open", "stat", "mmap", "check"}
CallPlaces  == {"close", "put"} \cup Bus
Places      == {"idle", "create", "own", "owner", "dup"} \cup MakerPlaces \cup OpenPlaces \cup CallPlaces

Descriptors == {Closed} \cup Numbers
Ids         == (Procs \X (Nat \ {0})) \cup {<< "none", 0 >>}
Sizes       == {"none", "full"}

Object  == [there : BOOLEAN, size : Sizes, has : SUBSET Stages, made : 0 .. Slots,
            keys : [1 .. Slots -> {"zero", "empty", "key", "wrecked"}],
            fd : Descriptors, pid : Ids, kept : SUBSET (1 .. Slots)]
Process == [pc : Places, op : AllCalls \cup {"none"}, h : BOOLEAN, arena : {"none", "slots", "arena"},
            ok : BOOLEAN, bell : Descriptors, ear : Descriptors, fd : Descriptors, size : Sizes,
            pid : Nat \ {0}, whole : BOOLEAN, n : 0 .. Slots + 1, peer : Ids]

LifeTypeOK ==
  /\ obj \in Object /\ proc \in [Procs -> Process] /\ files \in [Procs -> [Numbers -> Nat]]
  /\ rings \in Nat /\ left \in [Procs -> 0 .. Most] /\ kills \in Nat /\ steady \in [Procs -> BOOLEAN]

(* Which call a process in the middle of one is in.                        *)
Doing == \A p \in Procs :
  /\ proc[p].pc \in {"create"} \cup MakerPlaces => proc[p].op \in Makers
  /\ proc[p].pc \in OpenPlaces => proc[p].op \in Openers
  /\ proc[p].pc \in CallPlaces => proc[p].op = proc[p].pc
  /\ proc[p].pc = "own" => proc[p].op = "bus_init"
  /\ proc[p].pc \in {"owner", "dup"} => proc[p].op = "bus_open"

(* O_EXCL: one process ever makes the store, and what it has stored so far *)
(* is what its place says.                                                 *)
Making(p) == proc[p].pc \in MakerPlaces
OneMaker == \A p \in Procs : Making(p) =>
  /\ obj.there /\ ~ proc[p].whole /\ obj.kept = {}
  /\ \A q \in Procs : Making(q) => q = p
  /\ proc[p].pc # "truncate" => obj.size = "full"
  /\ proc[p].pc \in {"truncate", "map"} => obj.has = {}
  /\ proc[p].pc = "format" => obj.has \subseteq Plain
  /\ proc[p].pc # "fill" => obj.made = 0
  /\ proc[p].pc = "fill" =>
       /\ proc[p].arena = "arena" /\ obj.made < Slots
       /\ \/ proc[p].n = 1 /\ obj.has = Plain /\ obj.made = 0
          \/ proc[p].n = obj.made + 2 /\ obj.has = Stages

Stored ==
  /\ ~ obj.there => obj.has = {} /\ obj.pid[2] = 0
  /\ \A p \in Procs : proc[p].ok \/ proc[p].pc \in {"bus_init", "own"} => obj.there
  /\ obj.has # {} => obj.size = "full"
  /\ obj.kept # {} => Whole
  /\ \A p \in Procs : proc[p].whole => Whole

(* A call begun on a whole store can only attach.                          *)
Attaching == \A p \in Procs : proc[p].whole =>
  /\ proc[p].op \in Openers =>
       /\ proc[p].pc = "create" => proc[p].op = "create_or_open"
       /\ proc[p].pc = "mmap"   => proc[p].size = "full"
       /\ proc[p].pc = "check"  => proc[p].arena = "arena"
       /\ proc[p].pc = "idle"   => proc[p].ok
  /\ proc[p].ok /\ proc[p].pc \notin OpenPlaces \cup {"create"} => proc[p].arena = "arena"

(* The descriptors a process keeps are open, each for itself, and it has   *)
(* not opened more than its calls allow.                                   *)
Owed(p) == \/ proc[p].pc \in {"open", "bus_init", "bus_open", "owner", "dup"}
           \/ proc[p].pc = "create" /\ (obj.there => proc[p].op = "create_or_open")
Used(p) == {n \in Numbers : files[p][n] # Free}
Held(p, n) == n \in Numbers /\ files[p][n] # Free
Descried == \A p \in Procs :
  /\ proc[p].pc \in {"stat", "mmap", "check"} => obj.there
  /\ proc[p].bell # Closed => Held(p, proc[p].bell)
  /\ proc[p].ear # Closed => Held(p, proc[p].ear) /\ proc[p].ear # proc[p].bell
  /\ proc[p].pc = "own" => /\ Held(p, proc[p].fd)
                           /\ proc[p].fd # proc[p].bell /\ proc[p].fd # proc[p].ear
  /\ Cardinality(Used(p)) + left[p] + (IF Owed(p) THEN 1 ELSE 0) <= Most

(* What a consumer that found the owner standing by has read.              *)
Hearing == \A p \in Procs :
  /\ proc[p].pc \in {"bus_open", "owner", "dup"} => proc[p].ear = Closed
  /\ steady[p] => /\ Standing
                  /\ proc[p].pc \in {"owner", "dup"} => proc[p].fd = obj.fd
                  /\ proc[p].pc = "dup" => proc[p].peer = obj.pid

LifeInv == LifeTypeOK /\ Doing /\ OneMaker /\ Stored /\ Attaching /\ Descried /\ Hearing /\ PutsKept /\ HearsOwner

=============================================================================
