------------------------ MODULE StoreLifecycleProofs ------------------------
(***************************************************************************)
(* Proofs about the life of a store, for every number of processes, slots  *)
(* and calls, whatever is killed where.                                    *)
(***************************************************************************)
EXTENDS StoreLifecycle, TLAPS, FiniteSetTheorems, WellFoundedInduction

(* A finite set of numbers that is not empty has a least one: the one with *)
(* the smallest set of numbers below it.                                   *)
LEMMA LeastIsLeast ==
  ASSUME NEW S \in SUBSET Nat, IsFiniteSet(S), S # {}
  PROVE  Min(S) \in S /\ \A n \in S : Min(S) <= n
<1> DEFINE Below(x) == {y \in S : y < x}
           Belows   == {Below(x) : x \in S}
           R        == StrictSubsetOrdering(S)
<1>1. IsWellFoundedOn(R, FiniteSubsetsOf(S))
  BY FS_StrictSubsetOrderingWellFounded
<1>2. Belows \subseteq FiniteSubsetsOf(S) /\ Belows # {}
  <2>1. ASSUME NEW x \in S
        PROVE  Below(x) \in FiniteSubsetsOf(S)
    <3>1. Below(x) \in SUBSET S
      OBVIOUS
    <3>2. IsFiniteSet(Below(x))
      BY <3>1, FS_Subset
    <3>3. QED
      BY <3>1, <3>2 DEF FiniteSubsetsOf
  <2>2. QED
    BY <2>1
<1> HIDE DEF R
<1>3. PICK B \in Belows : \A C \in Belows : ~ (<< C, B >> \in R)
  BY <1>1, <1>2, WFMin
<1>4. PICK x \in S : B = Below(x)
  BY <1>3
<1>5. ASSUME NEW y \in S
      PROVE  x <= y
  <2>1. SUFFICES ASSUME y < x
                 PROVE  FALSE
    BY <1>5
  <2>2. Below(y) \in Belows /\ Below(y) \subseteq Below(x) /\ Below(y) # Below(x)
    <3>1. x \in Nat /\ y \in Nat
      OBVIOUS
    <3>2. y \in Below(x) /\ y \notin Below(y)
      BY <2>1, <3>1
    <3>3. ASSUME NEW z \in Below(y)
          PROVE  z \in Below(x)
      BY <2>1, <3>1, <3>3
    <3>4. QED
      BY <3>2, <3>3
  <2>3. << Below(y), Below(x) >> \in R
    BY <2>2 DEF R, StrictSubsetOrdering
  <2>4. QED
    BY <2>2, <2>3, <1>3, <1>4
<1>6. QED
  BY <1>5 DEF Min

(* A process that may still make a call has a descriptor free.             *)
LEMMA LowestFree ==
  ASSUME LifeTypeOK, Descried, NEW p \in Procs
  PROVE  Lowest(p) \in Numbers /\ files[p][Lowest(p)] = Free
<1> DEFINE Open == {n \in Numbers : files[p][n] = Free}
<1>1. Numbers \subseteq Nat /\ IsFiniteSet(Numbers) /\ Cardinality(Numbers) = Most + 2
  <2>1. 1 \in Int /\ Most + 2 \in Int /\ Most \in Nat
    BY LifecycleAssumption
  <2>2. QED
    BY <2>1, FS_Interval DEF Numbers
<1>2. Open # {}
  <2>1. SUFFICES ASSUME Open = {}
                 PROVE  FALSE
    OBVIOUS
  <2>2. Used(p) = Numbers
    BY <2>1 DEF Used
  <2>3. QED
    <3>1. left[p] \in 0 .. Most /\ Most \in Nat
      BY LifecycleAssumption DEF LifeTypeOK
    <3>2. Cardinality(Used(p)) + left[p] + (IF Owed(p) THEN 1 ELSE 0) <= Most
      BY DEF Descried
    <3>3. QED
      BY <1>1, <2>2, <3>1, <3>2
<1>3. Min(Open) \in Open
  <2>1. IsFiniteSet(Open)
    BY <1>1, FS_Subset
  <2>2. QED
    BY <1>1, <1>2, <2>1, LeastIsLeast
<1>4. QED
  BY <1>3 DEF Lowest

StepOf(p) ==
  \/ Start(p) \/ Kill(p) \/ Put(p) \/ Close(p)
  \/ CreateObject(p) \/ Truncate(p) \/ MapNew(p) \/ StorePlain(p) \/ Recompute(p) \/ StoreRest(p) \/ StoreSlot(p)
  \/ OpenObject(p) \/ Stat(p) \/ MapOpen(p) \/ Check(p)
  \/ InitFd(p) \/ InitPid(p) \/ LoadFd(p) \/ LoadPid(p) \/ Dup(p) \/ BusClose(p)

-----------------------------------------------------------------------------
(* Types.                                                                  *)

LEMMA LaterIs == Len(Later) = 1 /\ Later[1] = "rest" /\ Stages = Plain \cup {"rest"}
BY DEF Later, Stages, Range

LEMMA PlacesAre ==
  Places = {"idle", "create", "own", "owner", "dup", "truncate", "map", "format", "fill", "open", "stat", "mmap",
            "check", "close", "put", "bus_init", "bus_open", "bus_close"}
BY DEF Places, MakerPlaces, OpenPlaces, CallPlaces, Bus

LEMMA NothingTypes ==
  /\ Closed \in Descriptors /\ "none" \in Sizes /\ << "none", 0 >> \in Ids
  /\ 0 \in 0 .. Slots + 1 /\ 1 \in 0 .. Slots + 1
<1>1. Slots \in Nat \ {0}
  BY LifecycleAssumption
<1>2. QED
  BY <1>1 DEF Descriptors, Sizes, Ids, Closed

(* What a process is between its calls, and what it is once killed.        *)
LEMMA AwayIs ==
  ASSUME NEW r \in Process
  PROVE  /\ Away(r) \in Process
         /\ Away(r).pc = "idle" /\ Away(r).op = r.op /\ Away(r).h = r.h /\ Away(r).arena = r.arena /\ Away(r).ok = r.ok
         /\ Away(r).bell = r.bell /\ Away(r).ear = r.ear /\ Away(r).pid = r.pid /\ Away(r).whole = r.whole
<1>1. "idle" \in Places
  BY PlacesAre
<1>2. QED
  BY <1>1, NothingTypes DEF Away, Process

Gone(p) == [Down EXCEPT !.pid = proc[p].pid + 1]

LEMMA GoneIs ==
  ASSUME LifeTypeOK, NEW p \in Procs
  PROVE  /\ Gone(p) \in Process
         /\ Gone(p).pc = "idle" /\ Gone(p).op = "none" /\ ~ Gone(p).ok /\ ~ Gone(p).whole
         /\ Gone(p).bell = Closed /\ Gone(p).ear = Closed /\ Gone(p).pid = proc[p].pid + 1
<1>1. proc[p].pid \in Nat \ {0}
  BY DEF LifeTypeOK, Process
<1>2. QED
  <2>1. "idle" \in Places /\ proc[p].pid + 1 \in Nat \ {0}
    BY <1>1, PlacesAre
  <2>2. QED
    BY <2>1, NothingTypes DEF Gone, Down, Process

(* Every step gives one process a new record, and leaves the others theirs *)
(* and their descriptors.                                                  *)
LEMMA ProcTypesKept ==
  ASSUME LifeTypeOK, Descried, NEW p \in Procs, StepOf(p)
  PROVE  proc' \in [Procs -> Process] /\ proc' = [proc EXCEPT ![p] = proc'[p]]
<1>0. proc \in [Procs -> Process] /\ proc[p] \in Process
  BY DEF LifeTypeOK
<1> DEFINE Becomes(r) == proc' = [proc EXCEPT ![p] = r]
<1>q. ASSUME NEW r \in Process, Becomes(r)
      PROVE  proc' \in [Procs -> Process] /\ proc' = [proc EXCEPT ![p] = proc'[p]]
  BY <1>0, <1>q
<1>1. CASE Start(p)
  <2>1. PICK c \in Calls[p] :
          proc' = [proc EXCEPT ![p].op = c,
                               ![p].pc = CASE c = "create_or_open" -> "create" [] c = "open_or_create" -> "open"
                                           [] OTHER -> c,
                               ![p].whole = IF c \in Openers THEN Whole ELSE @]
    BY <1>1 DEF Start
  <2>2. PICK l, w : /\ l = CASE c = "create_or_open" -> "create" [] c = "open_or_create" -> "open" [] OTHER -> c
                    /\ w = IF c \in Openers THEN Whole ELSE proc[p].whole
    OBVIOUS
  <2>3. c \in AllCalls /\ l \in Places /\ w \in BOOLEAN
    BY <1>0, <2>2, LifecycleAssumption, PlacesAre DEF AllCalls, Openers, Makers, Bus, Process, Whole
  <2>4. Becomes([proc[p] EXCEPT !.op = c, !.pc = l, !.whole = w])
    BY <2>1, <2>2, <1>0
  <2>5. [proc[p] EXCEPT !.op = c, !.pc = l, !.whole = w] \in Process
    BY <1>0, <2>3 DEF Process
  <2>6. QED
    BY <2>4, <2>5, <1>q
<1>2. CASE Kill(p)
  BY <1>2, <1>q, GoneIs DEF Kill, Dead, Gone
<1>3. CASE Put(p)
  BY <1>0, <1>3, <1>q, GoneIs, AwayIs DEF Put, Dead, Gone, Back, Leave
<1>4. CASE Close(p)
  <2>1. [Down EXCEPT !.ear = proc[p].ear, !.pid = proc[p].pid] \in Process
    <3>1. "idle" \in Places
      BY PlacesAre
    <3>2. QED
      BY <1>0, <3>1, NothingTypes DEF Down, Process
  <2>2. QED
    BY <1>4, <2>1, <1>q DEF Close
<1>5. CASE CreateObject(p)
  <2>1. Lowest(p) \in Descriptors
    BY LowestFree DEF Descriptors
  <2>2. [proc[p] EXCEPT !.pc = "truncate", !.fd = Lowest(p)] \in Process /\ [proc[p] EXCEPT !.pc = "open"] \in Process
        /\ [proc[p] EXCEPT !.ok = FALSE] \in Process
    <3>1. [proc[p] EXCEPT !.pc = "truncate", !.fd = Lowest(p)] \in Process
      BY <1>0, <2>1, PlacesAre DEF Process
    <3>2. [proc[p] EXCEPT !.pc = "open"] \in Process
      BY <1>0, <2>1, PlacesAre DEF Process
    <3>3. [proc[p] EXCEPT !.ok = FALSE] \in Process
      BY <1>0, <2>1, PlacesAre DEF Process
    <3>4. QED
      BY <3>1, <3>2, <3>3
  <2>3. \/ Becomes([proc[p] EXCEPT !.pc = "truncate", !.fd = Lowest(p)]) \/ Becomes([proc[p] EXCEPT !.pc = "open"])
        \/ Becomes(Away([proc[p] EXCEPT !.ok = FALSE]))
    BY <1>0, <1>5 DEF CreateObject, At, Leave
  <2>4. QED
    BY <2>2, <2>3, <1>q, AwayIs
<1>6. CASE Truncate(p)
  <2>1. [proc[p] EXCEPT !.pc = "map"] \in Process
    BY <1>0, PlacesAre DEF Process
  <2>2. Becomes([proc[p] EXCEPT !.pc = "map"])
    BY <1>0, <1>6 DEF Truncate, At
  <2>3. QED
    BY <2>1, <2>2, <1>q
<1>7. CASE MapNew(p)
  <2>1. [proc[p] EXCEPT !.pc = "format", !.h = TRUE, !.arena = "slots"] \in Process
    BY <1>0, PlacesAre DEF Process
  <2>2. Becomes([proc[p] EXCEPT !.pc = "format", !.h = TRUE, !.arena = "slots"])
    BY <1>0, <1>7 DEF MapNew
  <2>3. QED
    BY <2>1, <2>2, <1>q
<1>8. CASE StorePlain(p)
  BY <1>0, <1>8 DEF StorePlain
<1>9. CASE Recompute(p)
  <2>1. [proc[p] EXCEPT !.pc = "fill", !.arena = "arena", !.n = 1] \in Process
    BY <1>0, PlacesAre, NothingTypes DEF Process
  <2>2. Becomes([proc[p] EXCEPT !.pc = "fill", !.arena = "arena", !.n = 1])
    BY <1>0, <1>9 DEF Recompute
  <2>3. QED
    BY <2>1, <2>2, <1>q
<1>10. CASE StoreRest(p)
  <2>1. proc[p].n + 1 \in 0 .. Slots + 1
    BY <1>0, <1>10, LaterIs, LifecycleAssumption DEF StoreRest, Process
  <2>2. [proc[p] EXCEPT !.n = @ + 1] \in Process
    BY <1>0, <2>1 DEF Process
  <2>3. Becomes([proc[p] EXCEPT !.n = @ + 1])
    BY <1>0, <1>10 DEF StoreRest
  <2>4. QED
    BY <2>2, <2>3, <1>q
<1>11. CASE StoreSlot(p)
  <2>1. proc[p].n \in 0 .. Slots + 1 /\ Slots \in Nat
    BY <1>0, LifecycleAssumption DEF Process
  <2>2. CASE proc[p].n - 1 = Slots
    <3>1. [proc[p] EXCEPT !.ok = TRUE, !.whole = TRUE] \in Process
      BY <1>0 DEF Process
    <3>2. QED
      BY <1>11, <2>2, <3>1, <1>q, AwayIs, LaterIs DEF StoreSlot, Leave
  <2>3. CASE proc[p].n - 1 # Slots
    <3>1. [proc[p] EXCEPT !.n = @ + 1] \in Process
      BY <1>0, <2>1, <2>3 DEF Process
    <3>2. Becomes([proc[p] EXCEPT !.n = @ + 1])
      BY <1>0, <1>11, <2>3, LaterIs DEF StoreSlot
    <3>3. QED
      BY <3>1, <3>2, <1>q
  <2>4. QED
    BY <2>2, <2>3
<1>12. CASE OpenObject(p)
  <2>1. Lowest(p) \in Descriptors
    BY LowestFree DEF Descriptors
  <2>2. [proc[p] EXCEPT !.pc = "stat", !.fd = Lowest(p)] \in Process /\ [proc[p] EXCEPT !.pc = "create"] \in Process
        /\ [proc[p] EXCEPT !.ok = FALSE] \in Process
    <3>1. [proc[p] EXCEPT !.pc = "stat", !.fd = Lowest(p)] \in Process
      BY <1>0, <2>1, PlacesAre DEF Process
    <3>2. [proc[p] EXCEPT !.pc = "create"] \in Process
      BY <1>0, <2>1, PlacesAre DEF Process
    <3>3. [proc[p] EXCEPT !.ok = FALSE] \in Process
      BY <1>0, <2>1, PlacesAre DEF Process
    <3>4. QED
      BY <3>1, <3>2, <3>3
  <2>3. \/ Becomes([proc[p] EXCEPT !.pc = "stat", !.fd = Lowest(p)]) \/ Becomes([proc[p] EXCEPT !.pc = "create"])
        \/ Becomes(Away([proc[p] EXCEPT !.ok = FALSE]))
    BY <1>0, <1>12 DEF OpenObject, NotOpen, At, Leave
  <2>4. QED
    BY <2>2, <2>3, <1>q, AwayIs
<1>13. CASE Stat(p)
  <2>1. [proc[p] EXCEPT !.pc = "mmap", !.size = obj.size] \in Process
    BY <1>0, PlacesAre DEF Process, LifeTypeOK, Object
  <2>2. Becomes([proc[p] EXCEPT !.pc = "mmap", !.size = obj.size])
    BY <1>0, <1>13 DEF Stat
  <2>3. QED
    BY <2>1, <2>2, <1>q
<1>14. CASE MapOpen(p)
  <2>1. PICK a : a = IF "geometry" \in obj.has THEN "arena" ELSE "slots"
    OBVIOUS
  <2>2. [proc[p] EXCEPT !.h = TRUE, !.pc = "check", !.arena = a] \in Process
        /\ [proc[p] EXCEPT !.pc = "create"] \in Process /\ [proc[p] EXCEPT !.ok = FALSE] \in Process
    <3>1. a \in {"slots", "arena"} /\ "check" \in Places /\ "create" \in Places
      BY <2>1, PlacesAre
    <3>2. QED
      BY <1>0, <3>1 DEF Process
  <2>3. \/ Becomes([proc[p] EXCEPT !.h = TRUE, !.pc = "check", !.arena = a])
        \/ Becomes([proc[p] EXCEPT !.pc = "create"]) \/ Becomes(Away([proc[p] EXCEPT !.ok = FALSE]))
    BY <1>0, <1>14, <2>1 DEF MapOpen, NotOpen, At, Leave
  <2>4. QED
    BY <2>2, <2>3, <1>q, AwayIs
<1>15. CASE Check(p)
  <2>1. [proc[p] EXCEPT !.ok = TRUE] \in Process /\ [proc[p] EXCEPT !.ok = FALSE] \in Process
        /\ [proc[p] EXCEPT !.pc = "create"] \in Process
    <3>1. [proc[p] EXCEPT !.ok = TRUE] \in Process
      BY <1>0, PlacesAre DEF Process
    <3>2. [proc[p] EXCEPT !.ok = FALSE] \in Process
      BY <1>0, PlacesAre DEF Process
    <3>3. [proc[p] EXCEPT !.pc = "create"] \in Process
      BY <1>0, PlacesAre DEF Process
    <3>4. QED
      BY <3>1, <3>2, <3>3
  <2>2. \/ Becomes(Away([proc[p] EXCEPT !.ok = TRUE])) \/ Becomes([proc[p] EXCEPT !.pc = "create"])
        \/ Becomes(Away([proc[p] EXCEPT !.ok = FALSE]))
    BY <1>0, <1>15 DEF Check, NotOpen, At, Leave
  <2>3. QED
    BY <2>1, <2>2, <1>q, AwayIs
<1>16. CASE InitFd(p)
  <2>1. Lowest(p) \in Descriptors
    BY LowestFree DEF Descriptors
  <2>2. [proc[p] EXCEPT !.pc = "own", !.fd = Lowest(p)] \in Process
    BY <1>0, <2>1, PlacesAre DEF Process
  <2>3. Becomes([proc[p] EXCEPT !.pc = "own", !.fd = Lowest(p)])
    BY <1>0, <1>16 DEF InitFd
  <2>4. QED
    BY <2>2, <2>3, <1>q
<1>17. CASE InitPid(p)
  <2>1. [proc[p] EXCEPT !.bell = proc[p].fd] \in Process
    BY <1>0 DEF Process
  <2>2. QED
    BY <2>1, <1>17, <1>q, AwayIs DEF InitPid, Leave
<1>18. CASE LoadFd(p)
  <2>1. [proc[p] EXCEPT !.pc = "owner", !.fd = obj.fd] \in Process
    BY <1>0, PlacesAre DEF Process, LifeTypeOK, Object
  <2>2. Becomes([proc[p] EXCEPT !.pc = "owner", !.fd = obj.fd])
    BY <1>0, <1>18 DEF LoadFd
  <2>3. QED
    BY <2>1, <2>2, <1>q
<1>19. CASE LoadPid(p)
  <2>1. [proc[p] EXCEPT !.pc = "dup", !.peer = obj.pid] \in Process
    BY <1>0, PlacesAre DEF Process, LifeTypeOK, Object
  <2>2. Becomes([proc[p] EXCEPT !.pc = "dup", !.peer = obj.pid]) \/ Becomes(Away(proc[p]))
    BY <1>0, <1>19 DEF LoadPid, Back, Leave
  <2>3. QED
    BY <1>0, <2>1, <2>2, <1>q, AwayIs
<1>20. CASE Dup(p)
  <2>1. Lowest(p) \in Descriptors
    BY LowestFree DEF Descriptors
  <2>2. [proc[p] EXCEPT !.ear = Lowest(p)] \in Process
    BY <1>0, <2>1 DEF Process
  <2>3. Becomes(Away(proc[p])) \/ Becomes(Away([proc[p] EXCEPT !.ear = Lowest(p)]))
    BY <1>20 DEF Dup, Back, Leave
  <2>4. QED
    BY <1>0, <2>2, <2>3, <1>q, AwayIs
<1>21. CASE BusClose(p)
  <2>1. [proc[p] EXCEPT !.ear = Closed] \in Process
    BY <1>0 DEF Process, Descriptors
  <2>2. QED
    BY <1>21, <2>1, <1>q, AwayIs DEF BusClose, Leave
<1>22. QED
  BY <1>1, <1>2, <1>3, <1>4, <1>5, <1>6, <1>7, <1>8, <1>9, <1>10, <1>11, <1>12, <1>13, <1>14, <1>15, <1>16, <1>17, <1>18,
     <1>19, <1>20, <1>21 DEF StepOf

(* A descriptor opened or closed leaves the others, and the other          *)
(* processes, theirs.                                                      *)
LEMMA WithIs ==
  ASSUME LifeTypeOK, NEW p \in Procs, NEW d, NEW f \in Nat, With(p, d, f)
  PROVE  /\ files' \in [Procs -> [Numbers -> Nat]]
         /\ \A q \in Procs : q # p => files'[q] = files[q]
         /\ \A k \in Numbers : files'[p][k] = IF k = d THEN f ELSE files[p][k]
<1>1. files \in [Procs -> [Numbers -> Nat]]
  BY DEF LifeTypeOK
<1>2. PICK g : g = [k \in Numbers |-> IF k = d THEN f ELSE files[p][k]]
  OBVIOUS
<1>3. files' = [files EXCEPT ![p] = g]
  BY <1>1, <1>2 DEF With
<1>4. g \in [Numbers -> Nat] /\ \A k \in Numbers : g[k] = IF k = d THEN f ELSE files[p][k]
  BY <1>1, <1>2
<1>5. QED
  BY <1>1, <1>3, <1>4

LEMMA FilesKept ==
  ASSUME LifeTypeOK, Descried, NEW p \in Procs, StepOf(p)
  PROVE  files' \in [Procs -> [Numbers -> Nat]] /\ \A q \in Procs : q # p => files'[q] = files[q]
<1>0. /\ files \in [Procs -> [Numbers -> Nat]] /\ rings \in Nat
      /\ Free \in Nat /\ Shared \in Nat /\ Ring(rings) \in Nat
  BY DEF LifeTypeOK, Free, Shared, Ring
<1>1. CASE Kill(p) \/ Put(p)
  <2>1. [k \in Numbers |-> Free] \in [Numbers -> Nat]
    BY <1>0
  <2>2. files' = files \/ files' = [files EXCEPT ![p] = [k \in Numbers |-> Free]]
    BY <1>1 DEF Kill, Put, Dead
  <2>3. QED
    BY <1>0, <2>1, <2>2
<1>2. CASE Dup(p)
  <2>1. ASSUME NEW q \in Procs, NEW d \in Descriptors
        PROVE  File(q, d) \in Nat
    BY <1>0, <2>1 DEF File, Descriptors, Closed
  <2>2. proc[p].fd \in Descriptors /\ (Live(proc[p].peer) => proc[p].peer[1] \in Procs)
    BY DEF LifeTypeOK, Process, Live, Me
  <2>3. \/ UNCHANGED files
        \/ Live(proc[p].peer) /\ With(p, Lowest(p), File(proc[p].peer[1], proc[p].fd))
    BY <1>2 DEF Dup
  <2>4. QED
    BY <1>0, <2>1, <2>2, <2>3, WithIs
<1>3. CASE Close(p) \/ CreateObject(p) \/ OpenObject(p) \/ InitFd(p) \/ BusClose(p)
  BY <1>0, <1>3, WithIs DEF Close, CreateObject, OpenObject, InitFd, BusClose
<1>4. CASE \/ Start(p) \/ Truncate(p) \/ MapNew(p) \/ StorePlain(p) \/ Recompute(p) \/ StoreRest(p) \/ StoreSlot(p)
           \/ Stat(p) \/ MapOpen(p) \/ Check(p) \/ InitPid(p) \/ LoadFd(p) \/ LoadPid(p)
  BY <1>0, <1>4 DEF Start, Truncate, MapNew, StorePlain, Recompute, StoreRest, StoreSlot, Stat, MapOpen, Check,
     InitPid, LoadFd, LoadPid
<1>5. QED
  BY <1>1, <1>2, <1>3, <1>4 DEF StepOf

LEMMA ObjTypesKept ==
  ASSUME LifeTypeOK, Descried, OneMaker, NEW p \in Procs, StepOf(p)
  PROVE  obj' \in Object
<1>0. obj \in Object /\ proc[p] \in Process
  BY DEF LifeTypeOK
<1>1. CASE Put(p)
  <2>0. Home[p] \in 1 .. Slots
    BY LifecycleAssumption
  <2>1. PICK taken : taken = [obj.keys EXCEPT ![Home[p]] = "key"]
    OBVIOUS
  <2>2. taken \in [1 .. Slots -> {"zero", "empty", "key", "wrecked"}]
    BY <1>0, <2>0, <2>1 DEF Object
  <2>3. CASE obj' = obj
    BY <1>0, <2>3
  <2>4. CASE obj' # obj
    <3>1. PICK kept : kept = IF proc[p].whole THEN obj.kept \cup {Home[p]} ELSE obj.kept
      OBVIOUS
    <3>2. PICK ks \in {taken} \cup {[taken EXCEPT ![s] = "wrecked"] : s \in 1 .. Slots} :
            obj' = [obj EXCEPT !.kept = kept, !.keys = ks]
      <4>1. CASE proc[p].arena = "arena"
        BY <1>1, <2>1, <2>4, <3>1, <4>1 DEF Put
      <4>2. CASE proc[p].arena # "arena"
        <5>1. PICK s \in 1 .. Slots :
                obj' = [obj EXCEPT !.kept = IF proc[p].whole THEN @ \cup {Home[p]} ELSE @,
                                   !.keys = [[obj.keys EXCEPT ![Home[p]] = "key"] EXCEPT ![s] = "wrecked"]]
          BY <1>1, <2>4, <4>2 DEF Put
        <5>2. QED
          BY <2>1, <3>1, <5>1
      <4>3. QED
        BY <4>1, <4>2
    <3>3. ks \in [1 .. Slots -> {"zero", "empty", "key", "wrecked"}] /\ kept \in SUBSET (1 .. Slots)
      BY <1>0, <2>0, <2>2, <3>1 DEF Object
    <3>4. QED
      BY <1>0, <3>2, <3>3 DEF Object
  <2>5. QED
    BY <2>3, <2>4
<1>2. CASE CreateObject(p)
  <2>1. [NoStore EXCEPT !.there = TRUE] \in Object
    <3>1. [s \in 1 .. Slots |-> "zero"] \in [1 .. Slots -> {"zero", "empty", "key", "wrecked"}]
      OBVIOUS
    <3>2. 0 \in 0 .. Slots
      BY LifecycleAssumption
    <3>3. QED
      BY <3>1, <3>2, NothingTypes DEF NoStore, Object
  <2>2. QED
    BY <1>0, <1>2, <2>1 DEF CreateObject
<1>3. CASE Truncate(p)
  BY <1>0, <1>3 DEF Truncate, Object, Sizes
<1>4. CASE StorePlain(p)
  BY <1>0, <1>4, LaterIs DEF StorePlain, Object
<1>5. CASE StoreRest(p)
  <2>1. proc[p].n = 1
    <3>1. proc[p].n \in Nat /\ obj.made \in Nat /\ proc[p].n <= 1 /\ proc[p].pc = "fill"
      BY <1>0, <1>5, LaterIs, LifecycleAssumption DEF StoreRest, Process, Object
    <3>2. IF proc[p].n = 1 THEN TRUE ELSE proc[p].n = obj.made + 2
      BY <3>1 DEF OneMaker, Making, MakerPlaces
    <3>3. QED
      BY <3>1, <3>2
  <2>2. obj' = [obj EXCEPT !.has = @ \cup {"rest"}, !.fd = Closed, !.pid = << "none", 0 >>]
    BY <1>5, <2>1, LaterIs DEF StoreRest
  <2>3. QED
    BY <1>0, <2>2, LaterIs, NothingTypes DEF Object
<1>6. CASE StoreSlot(p)
  <2>1. proc[p].n \in 0 .. Slots + 1 /\ Slots \in Nat
    BY <1>0, LifecycleAssumption DEF Process
  <2>2. PICK s : s = proc[p].n - 1
    OBVIOUS
  <2>3. s \in 1 .. Slots /\ obj' = [obj EXCEPT !.made = s, !.keys[s] = "empty"]
    BY <1>6, <2>1, <2>2, LaterIs DEF StoreSlot
  <2>4. PICK ks : ks = [obj.keys EXCEPT ![s] = "empty"]
    OBVIOUS
  <2>5. ks \in [1 .. Slots -> {"zero", "empty", "key", "wrecked"}] /\ s \in 0 .. Slots
    BY <1>0, <2>1, <2>3, <2>4 DEF Object
  <2>6. obj' = [obj EXCEPT !.made = s, !.keys = ks]
    BY <1>0, <2>3, <2>4
  <2>7. QED
    BY <1>0, <2>5, <2>6 DEF Object
<1>7. CASE InitFd(p)
  BY <1>0, <1>7, LowestFree DEF InitFd, Object, Descriptors
<1>8. CASE InitPid(p)
  <2>1. Me(p) \in Ids
    BY <1>0 DEF Me, Ids, Process
  <2>2. QED
    BY <1>0, <1>8, <2>1 DEF InitPid, Object
<1>9. CASE \/ Start(p) \/ Kill(p) \/ Close(p) \/ MapNew(p) \/ Recompute(p) \/ OpenObject(p) \/ Stat(p) \/ MapOpen(p)
           \/ Check(p) \/ LoadFd(p) \/ LoadPid(p) \/ Dup(p) \/ BusClose(p)
  BY <1>0, <1>9 DEF Start, Kill, Close, MapNew, Recompute, OpenObject, Stat, MapOpen, Check, LoadFd, LoadPid, Dup, BusClose
<1>10. QED
  BY <1>1, <1>2, <1>3, <1>4, <1>5, <1>6, <1>7, <1>8, <1>9 DEF StepOf

LEMMA TypesKept ==
  ASSUME LifeTypeOK, Descried, OneMaker, NEW p \in Procs, StepOf(p)
  PROVE  LifeTypeOK'
<1>1. proc' \in [Procs -> Process] /\ files' \in [Procs -> [Numbers -> Nat]] /\ obj' \in Object
  BY ProcTypesKept, FilesKept, ObjTypesKept
<1>2. /\ rings' = rings \/ rings' = rings + 1
      /\ kills' = kills \/ (kills > 0 /\ kills' = kills - 1)
      /\ left' = left \/ (left[p] > 0 /\ left' = [left EXCEPT ![p] = @ - 1])
  <2>1. CASE Start(p) \/ Kill(p) \/ InitFd(p)
    BY <2>1 DEF Start, Kill, InitFd
  <2>2. CASE ~ (Start(p) \/ Kill(p) \/ InitFd(p))
    BY <2>2 DEF StepOf, Put, Close, CreateObject, Truncate, MapNew, StorePlain, Recompute, StoreRest, StoreSlot, OpenObject,
       Stat, MapOpen, Check, InitPid, LoadFd, LoadPid, Dup, BusClose, budget
  <2>3. QED
    BY <2>1, <2>2
<1>3. rings' \in Nat /\ kills' \in Nat /\ left' \in [Procs -> 0 .. Most]
  <2>1. left \in [Procs -> 0 .. Most] /\ Most \in Nat
    BY LifecycleAssumption DEF LifeTypeOK
  <2>2. ASSUME left[p] > 0
        PROVE  left[p] - 1 \in 0 .. Most
    BY <2>1, <2>2
  <2>3. left' \in [Procs -> 0 .. Most]
    BY <1>2, <2>1, <2>2
  <2>4. QED
    BY <1>2, <2>3 DEF LifeTypeOK
<1>4. steady' \in [Procs -> BOOLEAN]
  <2>1. steady \in [Procs -> BOOLEAN] /\ Unsettled \in [Procs -> BOOLEAN] /\ Standing \in BOOLEAN
    BY DEF LifeTypeOK, Unsettled, Standing
  <2>2. QED
    BY <2>1 DEF StepOf, Start, Kill, Put, Dead, Close, CreateObject, Truncate, MapNew, StorePlain, Recompute, StoreRest,
       StoreSlot, OpenObject, Stat, MapOpen, Check, InitFd, InitPid, LoadFd, LoadPid, Dup, BusClose, budget
<1>5. QED
  BY <1>1, <1>3, <1>4 DEF LifeTypeOK

(* What the types say of one process and of the store.                     *)
LEMMA ProcessIs ==
  ASSUME LifeTypeOK, NEW p \in Procs
  PROVE  /\ proc \in [Procs -> Process] /\ proc[p] \in Process
         /\ proc[p].pc \in Places /\ proc[p].op \in AllCalls \cup {"none"} /\ proc[p].ok \in BOOLEAN
         /\ proc[p].whole \in BOOLEAN /\ proc[p].n \in Nat /\ proc[p].pid \in Nat \ {0}
BY LifecycleAssumption DEF LifeTypeOK, Process

(* How the calls that end here leave their process's record.               *)
LEMMA LeaveIs ==
  ASSUME LifeTypeOK, NEW p \in Procs, NEW r \in Process, Leave(p, r)
  PROVE  proc'[p] = Away(r)
BY DEF Leave, LifeTypeOK

(* A call that changes nothing of what the process keeps.                 *)
LEMMA BackIs ==
  ASSUME LifeTypeOK, NEW p \in Procs, Back(p)
  PROVE  /\ proc'[p].pc = "idle"
         /\ proc'[p].h = proc[p].h /\ proc'[p].arena = proc[p].arena /\ proc'[p].bell = proc[p].bell /\ proc'[p].ear = proc[p].ear
         /\ proc'[p].pid = proc[p].pid /\ proc'[p].whole = proc[p].whole /\ proc'[p].ok = proc[p].ok /\ proc'[p].op = proc[p].op
<1>1. proc[p] \in Process
  BY DEF LifeTypeOK, Process
<1>2. proc'[p] = Away(proc[p])
  BY <1>1, LeaveIs DEF Back
<1>3. QED
  BY <1>1, <1>2, AwayIs DEF Process

(* A call that fails.                                                      *)
LEMMA FailIs ==
  ASSUME LifeTypeOK, NEW p \in Procs, Leave(p, [proc[p] EXCEPT !.ok = FALSE])
  PROVE  /\ proc'[p].pc = "idle"
         /\ proc'[p].h = proc[p].h /\ proc'[p].arena = proc[p].arena /\ proc'[p].bell = proc[p].bell /\ proc'[p].ear = proc[p].ear
         /\ proc'[p].pid = proc[p].pid /\ proc'[p].whole = proc[p].whole /\ proc'[p].ok = FALSE /\ proc'[p].op = proc[p].op
<1>1. PICK r : r = [proc[p] EXCEPT !.ok = FALSE]
  OBVIOUS
<1>2. /\ r \in Process
      /\ r.h = proc[p].h /\ r.arena = proc[p].arena /\ r.bell = proc[p].bell /\ r.ear = proc[p].ear
      /\ r.pid = proc[p].pid /\ r.whole = proc[p].whole /\ r.ok = FALSE /\ r.op = proc[p].op
  <2>1. proc[p] \in Process
    BY DEF LifeTypeOK
  <2>2. r \in Process
    BY <1>1, <2>1 DEF Process
  <2>3. /\ r.h = proc[p].h /\ r.arena = proc[p].arena /\ r.bell = proc[p].bell /\ r.ear = proc[p].ear
        /\ r.pid = proc[p].pid /\ r.whole = proc[p].whole /\ r.ok = FALSE /\ r.op = proc[p].op
    BY <1>1, <2>1 DEF Process
  <2>4. QED
    BY <2>2, <2>3
<1>3. proc'[p] = Away(r)
  BY <1>1, <1>2, LeaveIs
<1>4. QED
  BY <1>2, <1>3, AwayIs

(* A call that attaches to a store made by another.                        *)
LEMMA AttachIs ==
  ASSUME LifeTypeOK, NEW p \in Procs, Leave(p, [proc[p] EXCEPT !.ok = TRUE])
  PROVE  /\ proc'[p].pc = "idle"
         /\ proc'[p].h = proc[p].h /\ proc'[p].arena = proc[p].arena /\ proc'[p].bell = proc[p].bell /\ proc'[p].ear = proc[p].ear
         /\ proc'[p].pid = proc[p].pid /\ proc'[p].whole = proc[p].whole /\ proc'[p].ok = TRUE /\ proc'[p].op = proc[p].op
<1>1. PICK r : r = [proc[p] EXCEPT !.ok = TRUE]
  OBVIOUS
<1>2. /\ r \in Process
      /\ r.h = proc[p].h /\ r.arena = proc[p].arena /\ r.bell = proc[p].bell /\ r.ear = proc[p].ear
      /\ r.pid = proc[p].pid /\ r.whole = proc[p].whole /\ r.ok = TRUE /\ r.op = proc[p].op
  <2>1. proc[p] \in Process
    BY DEF LifeTypeOK
  <2>2. r \in Process
    BY <1>1, <2>1 DEF Process
  <2>3. /\ r.h = proc[p].h /\ r.arena = proc[p].arena /\ r.bell = proc[p].bell /\ r.ear = proc[p].ear
        /\ r.pid = proc[p].pid /\ r.whole = proc[p].whole /\ r.ok = TRUE /\ r.op = proc[p].op
    BY <1>1, <2>1 DEF Process
  <2>4. QED
    BY <2>2, <2>3
<1>3. proc'[p] = Away(r)
  BY <1>1, <1>2, LeaveIs
<1>4. QED
  BY <1>2, <1>3, AwayIs

(* A call that has made the store.                                         *)
LEMMA MadeIs ==
  ASSUME LifeTypeOK, NEW p \in Procs, Leave(p, [proc[p] EXCEPT !.ok = TRUE, !.whole = TRUE])
  PROVE  /\ proc'[p].pc = "idle"
         /\ proc'[p].h = proc[p].h /\ proc'[p].arena = proc[p].arena /\ proc'[p].bell = proc[p].bell /\ proc'[p].ear = proc[p].ear
         /\ proc'[p].pid = proc[p].pid /\ proc'[p].whole = TRUE /\ proc'[p].ok = TRUE /\ proc'[p].op = proc[p].op
<1>1. PICK r : r = [proc[p] EXCEPT !.ok = TRUE, !.whole = TRUE]
  OBVIOUS
<1>2. /\ r \in Process
      /\ r.h = proc[p].h /\ r.arena = proc[p].arena /\ r.bell = proc[p].bell /\ r.ear = proc[p].ear
      /\ r.pid = proc[p].pid /\ r.whole = TRUE /\ r.ok = TRUE /\ r.op = proc[p].op
  <2>1. proc[p] \in Process
    BY DEF LifeTypeOK
  <2>2. r \in Process
    BY <1>1, <2>1 DEF Process
  <2>3. /\ r.h = proc[p].h /\ r.arena = proc[p].arena /\ r.bell = proc[p].bell /\ r.ear = proc[p].ear
        /\ r.pid = proc[p].pid /\ r.whole = TRUE /\ r.ok = TRUE /\ r.op = proc[p].op
    BY <1>1, <2>1 DEF Process
  <2>4. QED
    BY <2>2, <2>3
<1>3. proc'[p] = Away(r)
  BY <1>1, <1>2, LeaveIs
<1>4. QED
  BY <1>2, <1>3, AwayIs

(* A call that sets the consumer's descriptor.                             *)
LEMMA EarIs ==
  ASSUME LifeTypeOK, NEW p \in Procs, NEW d \in Descriptors, Leave(p, [proc[p] EXCEPT !.ear = d])
  PROVE  /\ proc'[p].pc = "idle"
         /\ proc'[p].h = proc[p].h /\ proc'[p].arena = proc[p].arena /\ proc'[p].bell = proc[p].bell /\ proc'[p].ear = d
         /\ proc'[p].pid = proc[p].pid /\ proc'[p].whole = proc[p].whole /\ proc'[p].ok = proc[p].ok /\ proc'[p].op = proc[p].op
<1>1. PICK r : r = [proc[p] EXCEPT !.ear = d]
  OBVIOUS
<1>2. /\ r \in Process
      /\ r.h = proc[p].h /\ r.arena = proc[p].arena /\ r.bell = proc[p].bell /\ r.ear = d
      /\ r.pid = proc[p].pid /\ r.whole = proc[p].whole /\ r.ok = proc[p].ok /\ r.op = proc[p].op
  <2>1. proc[p] \in Process
    BY DEF LifeTypeOK
  <2>2. r \in Process
    BY <1>1, <2>1 DEF Process
  <2>3. /\ r.h = proc[p].h /\ r.arena = proc[p].arena /\ r.bell = proc[p].bell /\ r.ear = d
        /\ r.pid = proc[p].pid /\ r.whole = proc[p].whole /\ r.ok = proc[p].ok /\ r.op = proc[p].op
    BY <1>1, <2>1 DEF Process
  <2>4. QED
    BY <2>2, <2>3
<1>3. proc'[p] = Away(r)
  BY <1>1, <1>2, LeaveIs
<1>4. QED
  BY <1>2, <1>3, AwayIs

(* A call that sets the owner's descriptor.                                *)
LEMMA BellIs ==
  ASSUME LifeTypeOK, NEW p \in Procs, NEW d \in Descriptors, Leave(p, [proc[p] EXCEPT !.bell = d])
  PROVE  /\ proc'[p].pc = "idle"
         /\ proc'[p].h = proc[p].h /\ proc'[p].arena = proc[p].arena /\ proc'[p].bell = d /\ proc'[p].ear = proc[p].ear
         /\ proc'[p].pid = proc[p].pid /\ proc'[p].whole = proc[p].whole /\ proc'[p].ok = proc[p].ok /\ proc'[p].op = proc[p].op
<1>1. PICK r : r = [proc[p] EXCEPT !.bell = d]
  OBVIOUS
<1>2. /\ r \in Process
      /\ r.h = proc[p].h /\ r.arena = proc[p].arena /\ r.bell = d /\ r.ear = proc[p].ear
      /\ r.pid = proc[p].pid /\ r.whole = proc[p].whole /\ r.ok = proc[p].ok /\ r.op = proc[p].op
  <2>1. proc[p] \in Process
    BY DEF LifeTypeOK
  <2>2. r \in Process
    BY <1>1, <2>1 DEF Process
  <2>3. /\ r.h = proc[p].h /\ r.arena = proc[p].arena /\ r.bell = d /\ r.ear = proc[p].ear
        /\ r.pid = proc[p].pid /\ r.whole = proc[p].whole /\ r.ok = proc[p].ok /\ r.op = proc[p].op
    BY <1>1, <2>1 DEF Process
  <2>4. QED
    BY <2>2, <2>3
<1>3. proc'[p] = Away(r)
  BY <1>1, <1>2, LeaveIs
<1>4. QED
  BY <1>2, <1>3, AwayIs

-----------------------------------------------------------------------------
(* What each step makes of the process that takes it, field by field.      *)
Becomes(p, l, op, whole, ok, arena) ==
  /\ proc'[p].pc = l /\ proc'[p].op = op /\ proc'[p].whole = whole /\ proc'[p].ok = ok /\ proc'[p].arena = arena

SameEars(p) == proc'[p].bell = proc[p].bell /\ proc'[p].ear = proc[p].ear /\ proc'[p].pid = proc[p].pid

Moves(p, l) == Becomes(p, l, proc[p].op, proc[p].whole, proc[p].ok, proc[p].arena) /\ SameEars(p)
Fails(p)    == Becomes(p, "idle", proc[p].op, proc[p].whole, FALSE, proc[p].arena) /\ SameEars(p)
Dies(p)     == /\ Becomes(p, "idle", "none", FALSE, FALSE, "none")
               /\ proc'[p].bell = Closed /\ proc'[p].ear = Closed /\ proc'[p].pid = proc[p].pid + 1
FirstPlace(c) == CASE c = "create_or_open" -> "create" [] c = "open_or_create" -> "open" [] OTHER -> c

LEMMA StartIs ==
  ASSUME LifeTypeOK, NEW p \in Procs, Start(p)
  PROVE  /\ proc[p].pc = "idle" /\ left[p] > 0
         /\ \E c \in Calls[p] : /\ Callable(p, c) /\ SameEars(p)
                                /\ Becomes(p, FirstPlace(c), c, IF c \in Openers THEN Whole ELSE proc[p].whole,
                                           proc[p].ok, proc[p].arena)
<1>1. PICK c \in Calls[p] :
        /\ Callable(p, c)
        /\ proc' = [proc EXCEPT ![p].op = c,
                                ![p].pc = CASE c = "create_or_open" -> "create" [] c = "open_or_create" -> "open"
                                            [] OTHER -> c,
                                ![p].whole = IF c \in Openers THEN Whole ELSE @]
  BY DEF Start
<1>2. PICK l, w : l = FirstPlace(c) /\ w = IF c \in Openers THEN Whole ELSE proc[p].whole
  OBVIOUS
<1>3. proc' = [proc EXCEPT ![p].op = c, ![p].pc = l, ![p].whole = w]
  BY <1>1, <1>2, ProcessIs DEF FirstPlace
<1>4. Becomes(p, l, c, w, proc[p].ok, proc[p].arena) /\ SameEars(p)
  BY <1>3, ProcessIs DEF Becomes, SameEars, Process
<1>5. QED
  BY <1>1, <1>2, <1>4 DEF Start

LEMMA DeadIs ==
  ASSUME LifeTypeOK, NEW p \in Procs, Dead(p)
  PROVE  Dies(p)
<1>1. Gone(p).arena = "none"
  BY DEF Gone, Down
<1>2. proc'[p] = Gone(p)
  BY ProcessIs DEF Dead, Gone
<1>3. QED
  BY <1>1, <1>2, GoneIs DEF Dies, Becomes

LEMMA PutIs ==
  ASSUME LifeTypeOK, NEW p \in Procs, Put(p)
  PROVE  \/ "geometry" \notin obj.has /\ Dead(p) /\ Dies(p) /\ obj' = obj
         \/ "geometry" \in obj.has /\ Moves(p, "idle") /\ UNCHANGED << files, steady >>
<1>1. \/ "geometry" \notin obj.has /\ Dead(p) /\ obj' = obj
      \/ "geometry" \in obj.has /\ Back(p) /\ UNCHANGED << files, steady >>
  BY DEF Put
<1>2. QED
  BY <1>1, DeadIs, BackIs DEF Moves, Becomes, SameEars

LEMMA CloseIs ==
  ASSUME LifeTypeOK, NEW p \in Procs, Close(p)
  PROVE  /\ Becomes(p, "idle", "none", FALSE, FALSE, "none")
         /\ proc'[p].bell = Closed /\ proc'[p].ear = proc[p].ear /\ proc'[p].pid = proc[p].pid
<1>1. proc'[p] = [Down EXCEPT !.ear = proc[p].ear, !.pid = proc[p].pid]
  BY ProcessIs DEF Close
<1>2. QED
  BY <1>1 DEF Becomes, Down

LEMMA CreateIs ==
  ASSUME LifeTypeOK, NEW p \in Procs, CreateObject(p)
  PROVE  \/ /\ obj.there /\ UNCHANGED << obj, files >>
            /\ IF proc[p].op = "create_or_open" THEN Moves(p, "open") ELSE Fails(p)
         \/ /\ ~ obj.there /\ obj' = [NoStore EXCEPT !.there = TRUE] /\ With(p, Lowest(p), Shared)
            /\ Moves(p, "truncate") /\ proc'[p].fd = Lowest(p)
<1>1. \/ /\ obj.there /\ UNCHANGED << obj, files >>
         /\ IF proc[p].op = "create_or_open" THEN At(p, "open") ELSE Leave(p, [proc[p] EXCEPT !.ok = FALSE])
      \/ /\ ~ obj.there /\ obj' = [NoStore EXCEPT !.there = TRUE] /\ With(p, Lowest(p), Shared)
         /\ proc' = [proc EXCEPT ![p].pc = "truncate", ![p].fd = Lowest(p)]
  BY DEF CreateObject
<1>2. ASSUME At(p, "open")
      PROVE  Moves(p, "open")
  BY <1>2, ProcessIs DEF At, Moves, Becomes, SameEars, Process
<1>3. ASSUME Leave(p, [proc[p] EXCEPT !.ok = FALSE])
      PROVE  Fails(p)
  BY <1>3, FailIs DEF Fails, Becomes, SameEars
<1>4. ASSUME proc' = [proc EXCEPT ![p].pc = "truncate", ![p].fd = Lowest(p)]
      PROVE  Moves(p, "truncate") /\ proc'[p].fd = Lowest(p)
  BY <1>4, ProcessIs DEF Moves, Becomes, SameEars, Process
<1>5. QED
  BY <1>1, <1>2, <1>3, <1>4

LEMMA NotOpenIs ==
  ASSUME LifeTypeOK, NEW p \in Procs, NotOpen(p)
  PROVE  IF proc[p].op = "open_or_create" THEN Moves(p, "create") ELSE Fails(p)
<1>1. IF proc[p].op = "open_or_create" THEN At(p, "create") ELSE Leave(p, [proc[p] EXCEPT !.ok = FALSE])
  BY DEF NotOpen
<1>2. ASSUME At(p, "create")
      PROVE  Moves(p, "create")
  BY <1>2, ProcessIs DEF At, Moves, Becomes, SameEars, Process
<1>3. ASSUME Leave(p, [proc[p] EXCEPT !.ok = FALSE])
      PROVE  Fails(p)
  BY <1>3, FailIs DEF Fails, Becomes, SameEars
<1>4. QED
  BY <1>1, <1>2, <1>3

LEMMA MakingIs ==
  ASSUME LifeTypeOK, NEW p \in Procs
  PROVE  /\ Truncate(p) => Moves(p, "map")
         /\ MapNew(p) => Becomes(p, "format", proc[p].op, proc[p].whole, proc[p].ok, "slots") /\ SameEars(p)
         /\ StorePlain(p) => Moves(p, proc[p].pc)
         /\ Recompute(p) => /\ Becomes(p, "fill", proc[p].op, proc[p].whole, proc[p].ok, "arena") /\ SameEars(p)
                            /\ proc'[p].n = 1
         /\ StoreRest(p) => Moves(p, proc[p].pc) /\ proc'[p].n = proc[p].n + 1
<1>1. ASSUME Truncate(p)
      PROVE  Moves(p, "map")
  BY <1>1, ProcessIs DEF Truncate, At, Moves, Becomes, SameEars, Process
<1>2. ASSUME MapNew(p)
      PROVE  Becomes(p, "format", proc[p].op, proc[p].whole, proc[p].ok, "slots") /\ SameEars(p)
  BY <1>2, ProcessIs DEF MapNew, Becomes, SameEars, Process
<1>3. ASSUME StorePlain(p)
      PROVE  Moves(p, proc[p].pc)
  BY <1>3, ProcessIs DEF StorePlain, Moves, Becomes, SameEars
<1>4. ASSUME Recompute(p)
      PROVE  Becomes(p, "fill", proc[p].op, proc[p].whole, proc[p].ok, "arena") /\ SameEars(p) /\ proc'[p].n = 1
  BY <1>4, ProcessIs DEF Recompute, Becomes, SameEars, Process
<1>5. ASSUME StoreRest(p)
      PROVE  Moves(p, proc[p].pc) /\ proc'[p].n = proc[p].n + 1
  BY <1>5, ProcessIs DEF StoreRest, Moves, Becomes, SameEars, Process
<1>6. QED
  BY <1>1, <1>2, <1>3, <1>4, <1>5

LEMMA StoreSlotIs ==
  ASSUME LifeTypeOK, NEW p \in Procs, StoreSlot(p)
  PROVE  /\ proc[p].n - 1 \in 1 .. Slots /\ obj' = [obj EXCEPT !.made = proc[p].n - 1, !.keys[proc[p].n - 1] = "empty"]
         /\ IF proc[p].n - 1 = Slots
              THEN Becomes(p, "idle", proc[p].op, TRUE, TRUE, proc[p].arena) /\ SameEars(p)
              ELSE Moves(p, proc[p].pc) /\ proc'[p].n = proc[p].n + 1
<1>1. proc[p].n \in 0 .. Slots + 1 /\ Slots \in Nat
  BY LifecycleAssumption DEF LifeTypeOK, Process
<1>2. /\ proc[p].n - 1 >= 1 /\ obj' = [obj EXCEPT !.made = proc[p].n - 1, !.keys[proc[p].n - 1] = "empty"]
      /\ IF proc[p].n - 1 = Slots THEN Leave(p, [proc[p] EXCEPT !.ok = TRUE, !.whole = TRUE])
                                  ELSE proc' = [proc EXCEPT ![p].n = @ + 1]
  BY LaterIs DEF StoreSlot
<1>3. ASSUME Leave(p, [proc[p] EXCEPT !.ok = TRUE, !.whole = TRUE])
      PROVE  Becomes(p, "idle", proc[p].op, TRUE, TRUE, proc[p].arena) /\ SameEars(p)
  BY <1>3, MadeIs DEF Becomes, SameEars
<1>4. ASSUME proc' = [proc EXCEPT ![p].n = @ + 1]
      PROVE  Moves(p, proc[p].pc) /\ proc'[p].n = proc[p].n + 1
  BY <1>4, ProcessIs DEF Moves, Becomes, SameEars, Process
<1>5. proc[p].n - 1 \in 1 .. Slots
  BY <1>1, <1>2
<1>6. QED
  BY <1>2, <1>3, <1>4, <1>5

LEMMA OpenIs ==
  ASSUME LifeTypeOK, NEW p \in Procs, OpenObject(p)
  PROVE  \/ obj.there /\ With(p, Lowest(p), Shared) /\ Moves(p, "stat")
         \/ /\ ~ obj.there /\ files' = files
            /\ IF proc[p].op = "open_or_create" THEN Moves(p, "create") ELSE Fails(p)
<1>1. \/ /\ obj.there /\ With(p, Lowest(p), Shared)
         /\ proc' = [proc EXCEPT ![p].pc = "stat", ![p].fd = Lowest(p)]
      \/ ~ obj.there /\ files' = files /\ NotOpen(p)
  BY DEF OpenObject
<1>2. ASSUME proc' = [proc EXCEPT ![p].pc = "stat", ![p].fd = Lowest(p)]
      PROVE  Moves(p, "stat")
  BY <1>2, ProcessIs DEF Moves, Becomes, SameEars, Process
<1>3. QED
  BY <1>1, <1>2, NotOpenIs

LEMMA StatIs ==
  ASSUME LifeTypeOK, NEW p \in Procs, Stat(p)
  PROVE  Moves(p, "mmap") /\ proc'[p].size = obj.size
BY ProcessIs DEF Stat, Moves, Becomes, SameEars, Process

LEMMA MapOpenIs ==
  ASSUME LifeTypeOK, NEW p \in Procs, MapOpen(p)
  PROVE  IF proc[p].size = "none"
           THEN IF proc[p].op = "open_or_create" THEN Moves(p, "create") ELSE Fails(p)
           ELSE /\ Becomes(p, "check", proc[p].op, proc[p].whole, proc[p].ok,
                           IF "geometry" \in obj.has THEN "arena" ELSE "slots")
                /\ SameEars(p)
<1>1. PICK a : a = IF "geometry" \in obj.has THEN "arena" ELSE "slots"
  OBVIOUS
<1>2. IF proc[p].size = "none" THEN NotOpen(p)
        ELSE proc' = [proc EXCEPT ![p].h = TRUE, ![p].pc = "check", ![p].arena = a]
  BY <1>1 DEF MapOpen
<1>3. ASSUME proc' = [proc EXCEPT ![p].h = TRUE, ![p].pc = "check", ![p].arena = a]
      PROVE  Becomes(p, "check", proc[p].op, proc[p].whole, proc[p].ok, a) /\ SameEars(p)
  BY <1>3, ProcessIs DEF Becomes, SameEars, Process
<1>4. QED
  BY <1>1, <1>2, <1>3, NotOpenIs

LEMMA CheckIs ==
  ASSUME LifeTypeOK, NEW p \in Procs, Check(p)
  PROVE  IF {"magic", "version"} \subseteq obj.has
           THEN Becomes(p, "idle", proc[p].op, proc[p].whole, TRUE, proc[p].arena) /\ SameEars(p)
           ELSE IF proc[p].op = "open_or_create" THEN Moves(p, "create") ELSE Fails(p)
<1>1. IF {"magic", "version"} \subseteq obj.has THEN Leave(p, [proc[p] EXCEPT !.ok = TRUE]) ELSE NotOpen(p)
  BY DEF Check
<1>2. ASSUME Leave(p, [proc[p] EXCEPT !.ok = TRUE])
      PROVE  Becomes(p, "idle", proc[p].op, proc[p].whole, TRUE, proc[p].arena) /\ SameEars(p)
  BY <1>2, AttachIs DEF Becomes, SameEars
<1>3. QED
  BY <1>1, <1>2, NotOpenIs

LEMMA OwnIs ==
  ASSUME LifeTypeOK, NEW p \in Procs
  PROVE  /\ InitFd(p) => Moves(p, "own") /\ proc'[p].fd = Lowest(p)
         /\ InitPid(p) => /\ Becomes(p, "idle", proc[p].op, proc[p].whole, proc[p].ok, proc[p].arena)
                          /\ proc'[p].bell = proc[p].fd /\ proc'[p].ear = proc[p].ear /\ proc'[p].pid = proc[p].pid
<1>1. ASSUME InitFd(p)
      PROVE  Moves(p, "own") /\ proc'[p].fd = Lowest(p)
  BY <1>1, ProcessIs DEF InitFd, Moves, Becomes, SameEars, Process
<1>2. ASSUME InitPid(p)
      PROVE  /\ Becomes(p, "idle", proc[p].op, proc[p].whole, proc[p].ok, proc[p].arena)
             /\ proc'[p].bell = proc[p].fd /\ proc'[p].ear = proc[p].ear /\ proc'[p].pid = proc[p].pid
  <2>1. proc[p].fd \in Descriptors /\ Leave(p, [proc[p] EXCEPT !.bell = proc[p].fd])
    BY <1>2, ProcessIs DEF InitPid, Process
  <2>2. QED
    BY <2>1, BellIs DEF Becomes
<1>3. QED
  BY <1>1, <1>2

LEMMA HearIs ==
  ASSUME LifeTypeOK, NEW p \in Procs
  PROVE  /\ LoadFd(p) => Moves(p, "owner") /\ proc'[p].fd = obj.fd
         /\ LoadPid(p) => IF proc[p].fd = Closed \/ obj.pid[2] = 0
                            THEN Moves(p, "idle")
                            ELSE Moves(p, "dup") /\ proc'[p].fd = proc[p].fd /\ proc'[p].peer = obj.pid
         /\ BusClose(p) => /\ Becomes(p, "idle", proc[p].op, proc[p].whole, proc[p].ok, proc[p].arena)
                           /\ proc'[p].bell = proc[p].bell /\ proc'[p].ear = Closed /\ proc'[p].pid = proc[p].pid
<1>1. ASSUME LoadFd(p)
      PROVE  Moves(p, "owner") /\ proc'[p].fd = obj.fd
  BY <1>1, ProcessIs DEF LoadFd, Moves, Becomes, SameEars, Process
<1>2. ASSUME LoadPid(p), proc[p].fd = Closed \/ obj.pid[2] = 0
      PROVE  Moves(p, "idle")
  BY <1>2, BackIs DEF LoadPid, Moves, Becomes, SameEars
<1>3. ASSUME LoadPid(p), ~ (proc[p].fd = Closed \/ obj.pid[2] = 0)
      PROVE  Moves(p, "dup") /\ proc'[p].fd = proc[p].fd /\ proc'[p].peer = obj.pid
  <2>1. proc' = [proc EXCEPT ![p].pc = "dup", ![p].peer = obj.pid]
    BY <1>3 DEF LoadPid
  <2>2. QED
    BY <2>1, ProcessIs DEF Moves, Becomes, SameEars, Process
<1>4. ASSUME BusClose(p)
      PROVE  /\ Becomes(p, "idle", proc[p].op, proc[p].whole, proc[p].ok, proc[p].arena)
             /\ proc'[p].bell = proc[p].bell /\ proc'[p].ear = Closed /\ proc'[p].pid = proc[p].pid
  <2>1. Closed \in Descriptors /\ Leave(p, [proc[p] EXCEPT !.ear = Closed])
    BY <1>4, NothingTypes DEF BusClose
  <2>2. QED
    BY <2>1, EarIs DEF Becomes
<1>5. QED
  BY <1>1, <1>2, <1>3, <1>4

Peered(p) == IF Live(proc[p].peer) THEN File(proc[p].peer[1], proc[p].fd) ELSE Free

LEMMA PeeredType ==
  ASSUME LifeTypeOK, NEW p \in Procs
  PROVE  Peered(p) \in Nat
<1>0. files \in [Procs -> [Numbers -> Nat]] /\ proc[p].fd \in Descriptors /\ Free \in Nat
  BY DEF LifeTypeOK, Process, Free
<1>1. ASSUME Live(proc[p].peer)
      PROVE  proc[p].peer[1] \in Procs
  BY <1>1 DEF Live, Me
<1>2. QED
  BY <1>0, <1>1 DEF Peered, File, Descriptors

LEMMA DupIs ==
  ASSUME LifeTypeOK, Descried, NEW p \in Procs, Dup(p)
  PROVE  \/ Peered(p) = Free /\ files' = files /\ Moves(p, "idle")
         \/ /\ Peered(p) # Free /\ With(p, Lowest(p), Peered(p))
            /\ Becomes(p, "idle", proc[p].op, proc[p].whole, proc[p].ok, proc[p].arena)
            /\ proc'[p].bell = proc[p].bell /\ proc'[p].ear = Lowest(p) /\ proc'[p].pid = proc[p].pid
<1>1. \/ Peered(p) = Free /\ files' = files /\ Back(p)
      \/ Peered(p) # Free /\ With(p, Lowest(p), Peered(p)) /\ Leave(p, [proc[p] EXCEPT !.ear = Lowest(p)])
  BY DEF Dup, Peered
<1>2. Lowest(p) \in Descriptors
  BY LowestFree DEF Descriptors
<1>3. QED
  BY <1>1, <1>2, BackIs, EarIs DEF Moves, Becomes, SameEars

-----------------------------------------------------------------------------
(* A process in the middle of a call knows which.                          *)
DoingOf(r) ==
  /\ r.pc \in {"create"} \cup MakerPlaces => r.op \in Makers
  /\ r.pc \in OpenPlaces => r.op \in Openers
  /\ r.pc \in CallPlaces => r.op = r.pc
  /\ r.pc = "own" => r.op = "bus_init"
  /\ r.pc \in {"owner", "dup"} => r.op = "bus_open"

LEMMA DoingHere ==
  ASSUME LifeTypeOK, Descried, Doing, NEW p \in Procs, StepOf(p)
  PROVE  DoingOf(proc'[p])
<1>0. DoingOf(proc[p]) /\ Calls[p] \subseteq AllCalls
  BY LifecycleAssumption DEF Doing, DoingOf
<1>1. CASE Start(p)
  BY <1>1, <1>0, StartIs DEF FirstPlace, AllCalls, Moves, Fails, Dies, Becomes, DoingOf, MakerPlaces, OpenPlaces, CallPlaces, Bus, Makers, Openers
<1>2. CASE Kill(p)
  BY <1>2, <1>0, DeadIs DEF Kill, Moves, Fails, Dies, Becomes, DoingOf, MakerPlaces, OpenPlaces, CallPlaces, Bus, Makers, Openers
<1>3. CASE Put(p)
  BY <1>3, <1>0, PutIs DEF Moves, Fails, Dies, Becomes, DoingOf, MakerPlaces, OpenPlaces, CallPlaces, Bus, Makers, Openers
<1>4. CASE Close(p)
  BY <1>4, <1>0, CloseIs DEF Moves, Fails, Dies, Becomes, DoingOf, MakerPlaces, OpenPlaces, CallPlaces, Bus, Makers, Openers
<1>5. CASE CreateObject(p)
  BY <1>5, <1>0, CreateIs DEF CreateObject, Moves, Fails, Dies, Becomes, DoingOf, MakerPlaces, OpenPlaces, CallPlaces, Bus, Makers, Openers
<1>6. CASE Truncate(p)
  BY <1>6, <1>0, MakingIs DEF Truncate, Moves, Fails, Dies, Becomes, DoingOf, MakerPlaces, OpenPlaces, CallPlaces, Bus, Makers, Openers
<1>7. CASE MapNew(p)
  BY <1>7, <1>0, MakingIs DEF MapNew, Moves, Fails, Dies, Becomes, DoingOf, MakerPlaces, OpenPlaces, CallPlaces, Bus, Makers, Openers
<1>8. CASE StorePlain(p)
  BY <1>8, <1>0, MakingIs DEF Moves, Fails, Dies, Becomes, DoingOf, MakerPlaces, OpenPlaces, CallPlaces, Bus, Makers, Openers
<1>9. CASE Recompute(p)
  BY <1>9, <1>0, MakingIs DEF Recompute, Moves, Fails, Dies, Becomes, DoingOf, MakerPlaces, OpenPlaces, CallPlaces, Bus, Makers, Openers
<1>10. CASE StoreRest(p)
  BY <1>10, <1>0, MakingIs DEF Moves, Fails, Dies, Becomes, DoingOf, MakerPlaces, OpenPlaces, CallPlaces, Bus, Makers, Openers
<1>11. CASE StoreSlot(p)
  BY <1>11, <1>0, StoreSlotIs DEF Moves, Fails, Dies, Becomes, DoingOf, MakerPlaces, OpenPlaces, CallPlaces, Bus, Makers, Openers
<1>12. CASE OpenObject(p)
  BY <1>12, <1>0, OpenIs DEF OpenObject, Moves, Fails, Dies, Becomes, DoingOf, MakerPlaces, OpenPlaces, CallPlaces, Bus, Makers, Openers
<1>13. CASE Stat(p)
  BY <1>13, <1>0, StatIs DEF Stat, Moves, Fails, Dies, Becomes, DoingOf, MakerPlaces, OpenPlaces, CallPlaces, Bus, Makers, Openers
<1>14. CASE MapOpen(p)
  BY <1>14, <1>0, MapOpenIs DEF MapOpen, Moves, Fails, Dies, Becomes, DoingOf, MakerPlaces, OpenPlaces, CallPlaces, Bus, Makers, Openers
<1>15. CASE Check(p)
  BY <1>15, <1>0, CheckIs DEF Check, Moves, Fails, Dies, Becomes, DoingOf, MakerPlaces, OpenPlaces, CallPlaces, Bus, Makers, Openers
<1>16. CASE InitFd(p)
  BY <1>16, <1>0, OwnIs DEF InitFd, Moves, Fails, Dies, Becomes, DoingOf, MakerPlaces, OpenPlaces, CallPlaces, Bus, Makers, Openers
<1>17. CASE InitPid(p)
  BY <1>17, <1>0, OwnIs DEF InitPid, Moves, Fails, Dies, Becomes, DoingOf, MakerPlaces, OpenPlaces, CallPlaces, Bus, Makers, Openers
<1>18. CASE LoadFd(p)
  BY <1>18, <1>0, HearIs DEF LoadFd, Moves, Fails, Dies, Becomes, DoingOf, MakerPlaces, OpenPlaces, CallPlaces, Bus, Makers, Openers
<1>19. CASE LoadPid(p)
  BY <1>19, <1>0, HearIs DEF LoadPid, Moves, Fails, Dies, Becomes, DoingOf, MakerPlaces, OpenPlaces, CallPlaces, Bus, Makers, Openers
<1>20. CASE Dup(p)
  BY <1>20, <1>0, DupIs DEF Dup, Moves, Fails, Dies, Becomes, DoingOf, MakerPlaces, OpenPlaces, CallPlaces, Bus, Makers, Openers
<1>21. CASE BusClose(p)
  BY <1>21, <1>0, HearIs DEF BusClose, Moves, Fails, Dies, Becomes, DoingOf, MakerPlaces, OpenPlaces, CallPlaces, Bus, Makers, Openers
<1>22. QED
  BY <1>1, <1>2, <1>3, <1>4, <1>5, <1>6, <1>7, <1>8, <1>9, <1>10, <1>11, <1>12, <1>13, <1>14, <1>15, <1>16, <1>17, <1>18, <1>19, <1>20, <1>21 DEF StepOf

LEMMA DoingKept ==
  ASSUME LifeInv, NEW p \in Procs, StepOf(p)
  PROVE  Doing'
<1>1. \A q \in Procs : DoingOf(proc[q])
  BY DEF LifeInv, Doing, DoingOf
<1>2. \A q \in Procs : q # p => proc'[q] = proc[q]
  BY ProcTypesKept DEF LifeInv, LifeTypeOK
<1>3. \A q \in Procs : DoingOf(proc'[q])
  BY <1>1, <1>2, DoingHere DEF LifeInv
<1>4. QED
  BY <1>3 DEF Doing, DoingOf

-----------------------------------------------------------------------------
(* The store itself: who makes it, and what stays.                         *)

SameStore == /\ obj'.there = obj.there /\ obj'.has = obj.has /\ obj'.made = obj.made
             /\ obj'.size = obj.size /\ obj'.kept = obj.kept /\ obj'.keys = obj.keys

MakerStep(p)  == Truncate(p) \/ MapNew(p) \/ StorePlain(p) \/ Recompute(p) \/ StoreRest(p) \/ StoreSlot(p)
FirstMake(p)  == CreateObject(p) /\ ~ obj.there

LEMMA StoreIs ==
  ASSUME LifeTypeOK
  PROVE  /\ obj \in Object /\ obj.there \in BOOLEAN /\ obj.has \subseteq Stages /\ obj.made \in 0 .. Slots /\ obj.made \in Nat
         /\ obj.size \in Sizes /\ obj.kept \subseteq 1 .. Slots /\ DOMAIN obj.keys = 1 .. Slots /\ Slots \in Nat \ {0}
BY LifecycleAssumption DEF LifeTypeOK, Object

LEMMA SameStoreIs ==
  ASSUME LifeTypeOK, NEW p \in Procs, StepOf(p), ~ MakerStep(p), ~ FirstMake(p), ~ Put(p)
  PROVE  SameStore
<1>1. CASE InitFd(p)
  BY <1>1, StoreIs DEF InitFd, SameStore, Object
<1>2. CASE InitPid(p)
  BY <1>2, StoreIs DEF InitPid, SameStore, Object
<1>3. CASE CreateObject(p)
  BY <1>3, CreateIs DEF FirstMake, SameStore
<1>4. CASE \/ Start(p) \/ Kill(p) \/ Close(p) \/ OpenObject(p) \/ Stat(p) \/ MapOpen(p) \/ Check(p) \/ LoadFd(p)
           \/ LoadPid(p) \/ Dup(p) \/ BusClose(p)
  BY <1>4 DEF Start, Kill, Close, OpenObject, Stat, MapOpen, Check, LoadFd, LoadPid, Dup, BusClose, SameStore
<1>5. QED
  BY <1>1, <1>2, <1>3, <1>4 DEF StepOf, MakerStep

LEMMA PutKeeps ==
  ASSUME LifeTypeOK, NEW p \in Procs, Put(p)
  PROVE  /\ obj'.there = obj.there /\ obj'.has = obj.has /\ obj'.made = obj.made /\ obj'.size = obj.size
         /\ obj'.kept = obj.kept \/ (proc[p].whole /\ obj'.kept = obj.kept \cup {Home[p]})
         /\ \/ obj' = obj
            \/ /\ obj'.keys[Home[p]] \in {"key", "wrecked"}
               /\ \A s \in 1 .. Slots : obj'.keys[s] \in {obj.keys[s], "key", "wrecked"}
<1>0. Home[p] \in 1 .. Slots /\ obj \in Object /\ obj.keys \in [1 .. Slots -> {"zero", "empty", "key", "wrecked"}]
  BY StoreIs, LifecycleAssumption DEF Object
<1>1. CASE obj' = obj
  BY <1>1
<1>2. CASE obj' # obj
  <2>1. PICK kept : kept = IF proc[p].whole THEN obj.kept \cup {Home[p]} ELSE obj.kept
    OBVIOUS
  <2>2. PICK taken : taken = [obj.keys EXCEPT ![Home[p]] = "key"]
    OBVIOUS
  <2>3. PICK ks : /\ obj' = [obj EXCEPT !.kept = kept, !.keys = ks]
                  /\ ks = taken \/ \E s \in 1 .. Slots : ks = [taken EXCEPT ![s] = "wrecked"]
    <3>1. CASE proc[p].arena = "arena"
      BY <1>1, <1>2, <2>1, <2>2, <3>1 DEF Put
    <3>2. CASE proc[p].arena # "arena"
      <4>1. PICK s \in 1 .. Slots :
              obj' = [obj EXCEPT !.kept = IF proc[p].whole THEN @ \cup {Home[p]} ELSE @,
                                 !.keys = [[obj.keys EXCEPT ![Home[p]] = "key"] EXCEPT ![s] = "wrecked"]]
        BY <1>2, <3>2 DEF Put
      <4>2. QED
        BY <2>1, <2>2, <4>1
    <3>3. QED
      BY <3>1, <3>2
  <2>4. /\ ks[Home[p]] \in {"key", "wrecked"}
        /\ \A s \in 1 .. Slots : ks[s] \in {obj.keys[s], "key", "wrecked"}
    BY <1>0, <2>2, <2>3
  <2>5. QED
    BY <1>0, <2>1, <2>3, <2>4 DEF Object
<1>3. QED
  BY <1>1, <1>2

(* While a process makes the store it is not whole.                        *)
LEMMA MakingNotWhole ==
  ASSUME LifeTypeOK, OneMaker, NEW p \in Procs, Making(p)
  PROVE  ~ Whole
<1>1. "rest" \notin Plain /\ Plain # {} /\ "rest" \in Stages /\ "magic" \in Stages
  BY LaterIs DEF Plain
<1>2. QED
  BY <1>1, StoreIs, LaterIs DEF OneMaker, Making, MakerPlaces, Whole

(* The places a step of another call leads to are not a maker's.           *)
LEMMA MakerEnters ==
  ASSUME LifeTypeOK, Descried, NEW p \in Procs, StepOf(p), ~ MakerStep(p), ~ FirstMake(p)
  PROVE  proc'[p].pc \notin MakerPlaces
<1>0. Calls[p] \subseteq AllCalls
  BY LifecycleAssumption
<1>1. CASE Start(p)
  BY <1>1, <1>0, StartIs DEF FirstPlace, AllCalls, Makers, Openers, Bus, Moves, Fails, Dies, Becomes, MakerPlaces
<1>2. CASE Kill(p)
  BY <1>2, <1>0, DeadIs DEF Kill, Moves, Fails, Dies, Becomes, MakerPlaces
<1>3. CASE Put(p)
  BY <1>3, <1>0, PutIs DEF Moves, Fails, Dies, Becomes, MakerPlaces
<1>4. CASE Close(p)
  BY <1>4, <1>0, CloseIs DEF Moves, Fails, Dies, Becomes, MakerPlaces
<1>5. CASE CreateObject(p)
  BY <1>5, <1>0, CreateIs DEF FirstMake, Moves, Fails, Dies, Becomes, MakerPlaces
<1>6. CASE OpenObject(p)
  BY <1>6, <1>0, OpenIs DEF OpenObject, Moves, Fails, Dies, Becomes, MakerPlaces
<1>7. CASE Stat(p)
  BY <1>7, <1>0, StatIs DEF Stat, Moves, Fails, Dies, Becomes, MakerPlaces
<1>8. CASE MapOpen(p)
  BY <1>8, <1>0, MapOpenIs DEF MapOpen, Moves, Fails, Dies, Becomes, MakerPlaces
<1>9. CASE Check(p)
  BY <1>9, <1>0, CheckIs DEF Check, Moves, Fails, Dies, Becomes, MakerPlaces
<1>10. CASE InitFd(p)
  BY <1>10, <1>0, OwnIs DEF Moves, Fails, Dies, Becomes, MakerPlaces
<1>11. CASE InitPid(p)
  BY <1>11, <1>0, OwnIs DEF Moves, Fails, Dies, Becomes, MakerPlaces
<1>12. CASE LoadFd(p)
  BY <1>12, <1>0, HearIs DEF Moves, Fails, Dies, Becomes, MakerPlaces
<1>13. CASE LoadPid(p)
  BY <1>13, <1>0, HearIs DEF Moves, Fails, Dies, Becomes, MakerPlaces
<1>14. CASE Dup(p)
  BY <1>14, <1>0, DupIs DEF Moves, Fails, Dies, Becomes, MakerPlaces
<1>15. CASE BusClose(p)
  BY <1>15, <1>0, HearIs DEF Moves, Fails, Dies, Becomes, MakerPlaces
<1>16. QED
  BY <1>1, <1>2, <1>3, <1>4, <1>5, <1>6, <1>7, <1>8, <1>9, <1>10, <1>11, <1>12, <1>13, <1>14, <1>15 DEF StepOf, MakerStep

(* What a maker's place says of the store, but for its being alone.        *)
MakerOf(q) == Making(q) =>
  /\ obj.there /\ ~ proc[q].whole /\ obj.kept = {}
  /\ proc[q].pc # "truncate" => obj.size = "full"
  /\ proc[q].pc \in {"truncate", "map"} => obj.has = {}
  /\ proc[q].pc = "format" => obj.has \subseteq Plain
  /\ proc[q].pc # "fill" => obj.made = 0
  /\ proc[q].pc = "fill" =>
       /\ proc[q].arena = "arena" /\ obj.made < Slots
       /\ \/ proc[q].n = 1 /\ obj.has = Plain /\ obj.made = 0
          \/ proc[q].n = obj.made + 2 /\ obj.has = Stages

LEMMA MakerOfKept ==
  ASSUME LifeTypeOK, OneMaker, NEW p \in Procs, MakerStep(p)
  PROVE  Making(p) /\ MakerOf(p)'
<1>0. MakerOf(p) /\ obj \in Object /\ Slots \in Nat \ {0}
  BY StoreIs DEF OneMaker, MakerOf
<1>1. CASE Truncate(p)
  BY <1>0, <1>1, MakingIs DEF Truncate, MakerOf, Making, MakerPlaces, Moves, Becomes, Object
<1>2. CASE MapNew(p)
  BY <1>0, <1>2, MakingIs DEF MapNew, MakerOf, Making, MakerPlaces, Becomes
<1>3. CASE StorePlain(p)
  <2>1. PICK f \in Plain : obj' = [obj EXCEPT !.has = @ \cup {f}]
    BY <1>3 DEF StorePlain
  <2>2. proc[p].pc = "format" /\ Moves(p, "format")
    BY <1>3, MakingIs DEF StorePlain
  <2>3. /\ obj'.has \subseteq Plain /\ obj'.there = obj.there /\ obj'.kept = obj.kept /\ obj'.size = obj.size
        /\ obj'.made = obj.made
    BY <1>0, <2>1, <2>2 DEF MakerOf, Making, MakerPlaces, Object
  <2>4. QED
    BY <1>0, <2>2, <2>3 DEF MakerOf, Making, MakerPlaces, Moves, Becomes
<1>4. CASE Recompute(p)
  <2>1. obj.has = Plain /\ obj' = obj /\ proc[p].pc = "format"
    BY <1>0, <1>4 DEF Recompute, MakerOf, Making, MakerPlaces
  <2>2. QED
    BY <1>0, <1>4, <2>1, MakingIs DEF MakerOf, Making, MakerPlaces, Becomes
<1>5. CASE StoreRest(p)
  <2>1. proc[p].pc = "fill" /\ proc[p].n <= 1
    BY <1>5, LaterIs DEF StoreRest
  <2>2. proc[p].n = 1 /\ obj.has = Plain /\ obj.made = 0
    BY <1>0, <2>1, StoreIs, ProcessIs DEF MakerOf, Making, MakerPlaces
  <2>3. obj' = [obj EXCEPT !.has = @ \cup {"rest"}, !.fd = Closed, !.pid = << "none", 0 >>]
    BY <1>5, <2>2, LaterIs DEF StoreRest
  <2>4. obj'.has = Stages /\ obj'.there = obj.there /\ obj'.kept = obj.kept /\ obj'.size = obj.size /\ obj'.made = obj.made
    BY <1>0, <2>2, <2>3, LaterIs DEF Object
  <2>5. QED
    BY <1>0, <1>5, <2>1, <2>2, <2>4, MakingIs DEF MakerOf, Making, MakerPlaces, Moves, Becomes
<1>6. CASE StoreSlot(p)
  <2>1. proc[p].pc = "fill" /\ proc[p].n - 1 \in 1 .. Slots
    BY <1>6, StoreSlotIs DEF StoreSlot
  <2>2. obj.has = Stages /\ proc[p].n = obj.made + 2 /\ proc[p].n \in Nat
    BY <1>0, <2>1, ProcessIs DEF MakerOf, Making, MakerPlaces
  <2>3. /\ obj'.has = Stages /\ obj'.made = proc[p].n - 1 /\ obj'.there = obj.there /\ obj'.kept = obj.kept
        /\ obj'.size = obj.size
    <3>1. PICK ks : obj' = [obj EXCEPT !.made = proc[p].n - 1, !.keys = ks]
      BY <1>0, <1>6, StoreSlotIs
    <3>2. QED
      BY <1>0, <2>2, <3>1 DEF Object
  <2>4. CASE proc[p].n - 1 = Slots
    BY <1>6, <2>1, <2>4, StoreSlotIs DEF MakerOf, Making, MakerPlaces, Becomes
  <2>5. CASE proc[p].n - 1 # Slots
    <3>1. Moves(p, "fill") /\ proc'[p].n = proc[p].n + 1 /\ proc[p].n - 1 < Slots
      <4>1. proc[p].n - 1 < Slots
        BY <1>0, <2>1, <2>2, <2>5
      <4>2. Moves(p, proc[p].pc) /\ proc'[p].n = proc[p].n + 1
        BY <1>0, <1>6, <2>5, StoreSlotIs
      <4>3. QED
        BY <2>1, <4>1, <4>2
    <3>2. QED
      BY <1>0, <2>1, <2>2, <2>3, <3>1 DEF MakerOf, Making, MakerPlaces, Moves, Becomes
  <2>6. QED
    BY <2>1, <2>4, <2>5 DEF Making, MakerPlaces
<1>7. QED
  BY <1>1, <1>2, <1>3, <1>4, <1>5, <1>6 DEF MakerStep, Truncate, MapNew, StorePlain, Recompute, StoreRest, Making, MakerPlaces

LEMMA OneMakerKept ==
  ASSUME LifeInv, NEW p \in Procs, StepOf(p)
  PROVE  OneMaker'
<1>0. LifeTypeOK /\ OneMaker /\ Descried /\ Stored /\ \A q \in Procs : MakerOf(q)
  BY DEF LifeInv, OneMaker, MakerOf
<1>1. \A q \in Procs : q # p => proc'[q] = proc[q]
  BY <1>0, ProcTypesKept DEF LifeTypeOK
<1>2. CASE MakerStep(p)
  <2>1. Making(p) /\ MakerOf(p)'
    BY <1>0, <1>2, MakerOfKept
  <2>2. ASSUME NEW q \in Procs, q # p
        PROVE  ~ Making(q)'
    BY <1>0, <1>1, <2>1, <2>2 DEF OneMaker, Making
  <2>3. QED
    BY <2>1, <2>2 DEF OneMaker, MakerOf
<1>3. CASE FirstMake(p)
  <2>1. ASSUME NEW q \in Procs, q # p
        PROVE  ~ Making(q)'
    BY <1>0, <1>1, <1>3, <2>1 DEF OneMaker, Making, FirstMake
  <2>2. Moves(p, "truncate") /\ obj' = [NoStore EXCEPT !.there = TRUE]
    BY <1>0, <1>3, CreateIs DEF FirstMake
  <2>3. ~ proc[p].whole
    \* nothing is stored, so nothing is whole
    BY <1>0, <1>3, LaterIs DEF Stored, FirstMake, Whole, Plain
  <2>4. obj'.there /\ obj'.kept = {} /\ obj'.has = {} /\ obj'.made = 0
    BY <2>2 DEF NoStore
  <2>5. QED
    BY <2>1, <2>2, <2>3, <2>4 DEF OneMaker, Making, MakerPlaces, Moves, Becomes
<1>4. CASE ~ MakerStep(p) /\ ~ FirstMake(p)
  <2>1. ~ Making(p)'
    BY <1>0, <1>4, MakerEnters DEF Making
  <2>2. ASSUME NEW q \in Procs, Making(q)'
        PROVE  /\ q # p /\ Making(q) /\ proc'[q] = proc[q]
               /\ obj'.there = obj.there /\ obj'.has = obj.has /\ obj'.made = obj.made /\ obj'.size = obj.size
               /\ obj'.kept = obj.kept
    <3>1. q # p /\ proc'[q] = proc[q] /\ Making(q)
      BY <1>1, <2>1, <2>2 DEF Making
    <3>2. ~ proc[p].whole
      BY <1>0, <3>1, MakingNotWhole DEF Stored
    <3>3. QED
      BY <1>0, <1>4, <3>1, <3>2, SameStoreIs, PutKeeps DEF SameStore
  <2>3. QED
    BY <1>0, <2>2 DEF OneMaker, Making
<1>5. QED
  BY <1>2, <1>3, <1>4

LEMMA ThereStays ==
  ASSUME LifeTypeOK, NEW p \in Procs, StepOf(p), obj.there
  PROVE  obj'.there
<1>1. CASE MakerStep(p)
  BY <1>1, StoreIs, StoreSlotIs DEF MakerStep, Truncate, MapNew, StorePlain, Recompute, StoreRest, Object
<1>2. CASE ~ MakerStep(p)
  BY <1>2, SameStoreIs, PutKeeps DEF FirstMake, SameStore
<1>3. QED
  BY <1>1, <1>2

(* A whole store stays whole, and only a process that saw it whole or made *)
(* it keeps keys there.                                                    *)
LEMMA StoredKept ==
  ASSUME LifeInv, NEW p \in Procs, StepOf(p)
  PROVE  Stored'
<1>0. LifeTypeOK /\ OneMaker /\ Descried /\ Stored /\ \A q \in Procs : MakerOf(q)
  BY DEF LifeInv, OneMaker, MakerOf
<1>1. \A q \in Procs : q # p => proc'[q] = proc[q]
  BY <1>0, ProcTypesKept DEF LifeTypeOK
<1>2. CASE MakerStep(p)
  <2>1. Making(p) /\ MakerOf(p)' /\ MakerOf(p)
    BY <1>0, <1>2, MakerOfKept
  <2>2. ~ Whole /\ obj.kept = {} /\ (\A q \in Procs : ~ proc[q].whole)
    BY <1>0, <2>1, MakingNotWhole DEF Stored, MakerOf
  <2>3. obj'.kept = {} /\ obj'.there
    BY <1>0, <1>2, <2>1, <2>2, StoreIs, StoreSlotIs DEF MakerStep, MakerOf, Truncate, MapNew, StorePlain, Recompute, StoreRest, Object
  <2>4. obj'.has # {} => obj'.size = "full"
    <3>1. CASE Truncate(p)
      BY <1>0, <3>1, StoreIs DEF Truncate, Object
    <3>2. CASE ~ Truncate(p)
      <4>1. obj.size = "full"
        BY <1>2, <2>1, <3>2, StoreIs DEF MakerStep, MakerOf, Making, MapNew, StorePlain, Recompute, StoreRest, StoreSlot
      <4>2. obj'.size = obj.size
        BY <1>0, <1>2, <3>2, StoreIs, StoreSlotIs DEF MakerStep, MapNew, StorePlain, Recompute, StoreRest, Object
      <4>3. QED
        BY <4>1, <4>2
    <3>3. QED
      BY <3>1, <3>2
  <2>5. ASSUME NEW q \in Procs, proc'[q].whole
        PROVE  Whole'
    <3>1. q = p /\ StoreSlot(p) /\ proc[p].n - 1 = Slots
      <4>1. q = p
        BY <1>1, <2>2, <2>5
      <4>2. proc'[p].whole /\ ~ proc[p].whole
        BY <2>2, <2>5, <4>1
      <4>3. StoreSlot(p)
        BY <1>0, <1>2, <4>2, MakingIs DEF MakerStep, Moves, Becomes
      <4>4. proc[p].n - 1 = Slots
        BY <1>0, <4>2, <4>3, StoreSlotIs DEF Moves, Becomes
      <4>5. QED
        BY <4>1, <4>3, <4>4
    <3>2. obj'.has = obj.has /\ obj'.made = Slots
      BY <1>0, <3>1, StoreIs, StoreSlotIs DEF Object
    <3>3. obj.has = Stages
      <4>1. proc[p].pc = "fill" /\ proc[p].n # 1
        BY <1>0, <3>1, StoreIs, ProcessIs DEF StoreSlot
      <4>2. QED
        BY <2>1, <4>1 DEF MakerOf
    <3>4. QED
      BY <3>2, <3>3 DEF Whole
  <2>6. QED
    BY <2>3, <2>4, <2>5 DEF Stored
<1>3. CASE FirstMake(p)
  <2>1. Moves(p, "truncate") /\ obj' = [NoStore EXCEPT !.there = TRUE] /\ ~ obj.there
    BY <1>0, <1>3, CreateIs DEF FirstMake
  <2>2. \A q \in Procs : ~ proc[q].whole
    BY <1>0, <2>1, LaterIs DEF Stored, Whole, Plain
  <2>3. obj'.there /\ obj'.kept = {} /\ obj'.has = {}
    BY <2>1 DEF NoStore
  <2>4. \A q \in Procs : ~ proc'[q].whole
    BY <1>1, <2>1, <2>2 DEF Moves, Becomes
  <2>5. QED
    BY <2>3, <2>4 DEF Stored
<1>4. CASE ~ MakerStep(p) /\ ~ FirstMake(p)
  <2>0. ASSUME ~ obj'.there
        PROVE  ~ obj.there /\ obj'.pid[2] = 0 /\ (\A q \in Procs : ~ proc'[q].ok /\ proc'[q].pc \notin {"bus_init", "own"})
    <3>1. ~ obj.there
      BY <1>0, <2>0, ThereStays
    <3>2. obj.pid[2] = 0 /\ (\A q \in Procs : ~ proc[q].ok /\ proc[q].pc \notin {"bus_init", "own"})
      BY <1>0, <3>1 DEF Stored
    <3>3. ~ InitFd(p) /\ ~ InitPid(p) /\ ~ Stat(p) /\ ~ MapOpen(p) /\ ~ Check(p) /\ ~ CreateObject(p)
      BY <1>0, <1>4, <3>1, <3>2 DEF InitFd, InitPid, Stat, MapOpen, Check, Descried, FirstMake
    <3>4. obj'.pid = obj.pid /\ ~ proc'[p].ok /\ proc'[p].pc \notin {"bus_init", "own"}
      <4>0. Calls[p] \subseteq AllCalls /\ obj.has = {}
        BY <1>0, <3>1, LifecycleAssumption DEF Stored
      <4>1. CASE Start(p)
        BY <1>0, <3>2, <4>0, <4>1, StartIs DEF Start, Callable, Becomes, FirstPlace, AllCalls, Openers, Makers, Bus
      <4>2. CASE Put(p)
        BY <1>0, <3>2, <4>0, <4>2, PutIs DEF Dies, Becomes
      <4>3. CASE Kill(p)
        BY <1>0, <4>3, DeadIs DEF Kill, Dies, Becomes
      <4>4. CASE Close(p)
        BY <1>0, <4>4, CloseIs DEF Close, Becomes
      <4>5. CASE OpenObject(p)
        BY <1>0, <3>1, <3>2, <4>5, OpenIs DEF OpenObject, Moves, Fails, Becomes
      <4>6. CASE LoadFd(p) \/ LoadPid(p) \/ BusClose(p)
        BY <1>0, <3>2, <4>6, HearIs DEF LoadFd, LoadPid, BusClose, Moves, Becomes
      <4>7. CASE Dup(p)
        BY <1>0, <3>2, <4>7, DupIs DEF Dup, Moves, Becomes
      <4>8. QED
        BY <1>4, <3>3, <4>1, <4>2, <4>3, <4>4, <4>5, <4>6, <4>7 DEF StepOf, MakerStep
    <3>5. QED
      BY <1>1, <3>1, <3>2, <3>4
  <2>1. /\ obj'.there = obj.there /\ obj'.has = obj.has /\ obj'.made = obj.made /\ obj'.size = obj.size
        /\ obj'.kept # {} => obj.kept # {} \/ proc[p].whole
    BY <1>0, <1>4, SameStoreIs, PutKeeps DEF SameStore
  <2>2. proc'[p].whole => proc[p].whole \/ Whole
    <3>1. CASE Start(p)
      BY <1>0, <1>4, <3>1, StartIs DEF Moves, Fails, Dies, Becomes
    <3>2. CASE Kill(p)
      BY <1>0, <1>4, <3>2, DeadIs DEF Kill, Moves, Fails, Dies, Becomes
    <3>3. CASE Put(p)
      BY <1>0, <1>4, <3>3, PutIs DEF Moves, Fails, Dies, Becomes
    <3>4. CASE Close(p)
      BY <1>0, <1>4, <3>4, CloseIs DEF Moves, Fails, Dies, Becomes
    <3>5. CASE CreateObject(p)
      BY <1>0, <1>4, <3>5, CreateIs DEF FirstMake, Moves, Fails, Dies, Becomes
    <3>6. CASE OpenObject(p)
      BY <1>0, <1>4, <3>6, OpenIs DEF Moves, Fails, Dies, Becomes
    <3>7. CASE Stat(p)
      BY <1>0, <1>4, <3>7, StatIs DEF Moves, Fails, Dies, Becomes
    <3>8. CASE MapOpen(p)
      BY <1>0, <1>4, <3>8, MapOpenIs DEF Moves, Fails, Dies, Becomes
    <3>9. CASE Check(p)
      BY <1>0, <1>4, <3>9, CheckIs DEF Moves, Fails, Dies, Becomes
    <3>10. CASE InitFd(p)
      BY <1>0, <1>4, <3>10, OwnIs DEF Moves, Fails, Dies, Becomes
    <3>11. CASE InitPid(p)
      BY <1>0, <1>4, <3>11, OwnIs DEF Moves, Fails, Dies, Becomes
    <3>12. CASE LoadFd(p)
      BY <1>0, <1>4, <3>12, HearIs DEF Moves, Fails, Dies, Becomes
    <3>13. CASE LoadPid(p)
      BY <1>0, <1>4, <3>13, HearIs DEF Moves, Fails, Dies, Becomes
    <3>14. CASE Dup(p)
      BY <1>0, <1>4, <3>14, DupIs DEF Moves, Fails, Dies, Becomes
    <3>15. CASE BusClose(p)
      BY <1>0, <1>4, <3>15, HearIs DEF Moves, Fails, Dies, Becomes
    <3>16. QED
      BY <1>4, <3>1, <3>2, <3>3, <3>4, <3>5, <3>6, <3>7, <3>8, <3>9, <3>10, <3>11, <3>12, <3>13, <3>14, <3>15 DEF StepOf, MakerStep
  <2>3. QED
    BY <1>0, <1>1, <2>0, <2>1, <2>2 DEF Stored, Whole
<1>5. QED
  BY <1>2, <1>3, <1>4

LEMMA PutsStay ==
  ASSUME LifeInv, NEW p \in Procs, StepOf(p)
  PROVE  PutsKept'
<1>0. LifeTypeOK /\ OneMaker /\ Descried /\ Stored /\ PutsKept /\ Home[p] \in 1 .. Slots
  BY LifecycleAssumption DEF LifeInv
<1>1. CASE Put(p)
  BY <1>0, <1>1, PutKeeps, StoreIs DEF PutsKept
<1>2. CASE MakerStep(p) \/ FirstMake(p)
  <2>1. obj'.kept = {}
    <3>1. CASE MakerStep(p)
      <4>1. obj.kept = {}
        BY <1>0, <3>1, MakerOfKept DEF OneMaker
      <4>2. obj'.kept = obj.kept
        BY <1>0, <3>1, StoreIs, StoreSlotIs DEF MakerStep, Truncate, MapNew, StorePlain, Recompute, StoreRest, Object
      <4>3. QED
        BY <4>1, <4>2
    <3>2. CASE FirstMake(p)
      BY <1>0, <3>2, CreateIs DEF FirstMake, NoStore
    <3>3. QED
      BY <1>2, <3>1, <3>2
  <2>2. QED
    BY <2>1 DEF PutsKept
<1>3. CASE ~ MakerStep(p) /\ ~ FirstMake(p) /\ ~ Put(p)
  BY <1>0, <1>3, SameStoreIs DEF SameStore, PutsKept
<1>4. QED
  BY <1>1, <1>2, <1>3

-----------------------------------------------------------------------------
(* A call that began on a whole store attaches to it.                      *)

AttachOf(r) == r.whole =>
  /\ r.op \in Openers =>
       /\ r.pc = "create" => r.op = "create_or_open"
       /\ r.pc = "mmap"   => r.size = "full"
       /\ r.pc = "check"  => r.arena = "arena"
       /\ r.pc = "idle"   => r.ok
  /\ r.ok /\ r.pc \notin OpenPlaces \cup {"create"} => r.arena = "arena"

LEMMA WholeIs ==
  ASSUME LifeTypeOK, Stored, Whole
  PROVE  obj.there /\ {"magic", "version", "geometry"} \subseteq obj.has /\ obj.size = "full"
BY LaterIs, StoreIs DEF Stored, Whole, Plain

LEMMA AttachHere ==
  ASSUME LifeInv, NEW p \in Procs, StepOf(p)
  PROVE  AttachOf(proc'[p])
<1>0. /\ LifeTypeOK /\ Descried /\ OneMaker /\ AttachOf(proc[p]) /\ DoingOf(proc[p]) /\ Calls[p] \subseteq AllCalls
      /\ proc[p].whole => obj.there /\ {"magic", "version", "geometry"} \subseteq obj.has /\ obj.size = "full"
  BY LifecycleAssumption, WholeIs DEF LifeInv, Attaching, AttachOf, Doing, DoingOf, Stored
<1>m. MakerStep(p) => Making(p) /\ ~ proc[p].whole
  BY <1>0, MakerOfKept DEF OneMaker
<1>1. CASE Start(p)
  BY <1>0, <1>1, StartIs, ProcessIs DEF FirstPlace, AllCalls, Makers, Bus, Callable, Moves, Fails, Dies, Becomes, AttachOf, DoingOf, OpenPlaces, CallPlaces, Bus, Openers
<1>2. CASE Kill(p)
  BY <1>0, <1>2, DeadIs DEF Kill, Moves, Fails, Dies, Becomes, AttachOf, DoingOf, OpenPlaces, CallPlaces, Bus, Openers
<1>3. CASE Put(p)
  BY <1>0, <1>3, PutIs DEF Put, Moves, Fails, Dies, Becomes, AttachOf, DoingOf, OpenPlaces, CallPlaces, Bus, Openers
<1>4. CASE Close(p)
  BY <1>0, <1>4, CloseIs DEF Moves, Fails, Dies, Becomes, AttachOf, DoingOf, OpenPlaces, CallPlaces, Bus, Openers
<1>5. CASE CreateObject(p)
  BY <1>0, <1>5, CreateIs DEF CreateObject, Moves, Fails, Dies, Becomes, AttachOf, DoingOf, OpenPlaces, CallPlaces, Bus, Openers
<1>6. CASE OpenObject(p)
  BY <1>0, <1>6, OpenIs DEF OpenObject, Moves, Fails, Dies, Becomes, AttachOf, DoingOf, OpenPlaces, CallPlaces, Bus, Openers
<1>7. CASE Stat(p)
  BY <1>0, <1>7, StatIs DEF Stat, Moves, Fails, Dies, Becomes, AttachOf, DoingOf, OpenPlaces, CallPlaces, Bus, Openers
<1>8. CASE MapOpen(p)
  BY <1>0, <1>8, MapOpenIs DEF MapOpen, Moves, Fails, Dies, Becomes, AttachOf, DoingOf, OpenPlaces, CallPlaces, Bus, Openers
<1>9. CASE Check(p)
  BY <1>0, <1>9, CheckIs DEF Check, Moves, Fails, Dies, Becomes, AttachOf, DoingOf, OpenPlaces, CallPlaces, Bus, Openers
<1>10. CASE InitFd(p)
  BY <1>0, <1>10, OwnIs DEF InitFd, Moves, Fails, Dies, Becomes, AttachOf, DoingOf, OpenPlaces, CallPlaces, Bus, Openers
<1>11. CASE InitPid(p)
  BY <1>0, <1>11, OwnIs DEF InitPid, Moves, Fails, Dies, Becomes, AttachOf, DoingOf, OpenPlaces, CallPlaces, Bus, Openers
<1>12. CASE LoadFd(p)
  BY <1>0, <1>12, HearIs DEF LoadFd, Moves, Fails, Dies, Becomes, AttachOf, DoingOf, OpenPlaces, CallPlaces, Bus, Openers
<1>13. CASE LoadPid(p)
  BY <1>0, <1>13, HearIs DEF LoadPid, Moves, Fails, Dies, Becomes, AttachOf, DoingOf, OpenPlaces, CallPlaces, Bus, Openers
<1>14. CASE Dup(p)
  BY <1>0, <1>14, DupIs DEF Dup, Moves, Fails, Dies, Becomes, AttachOf, DoingOf, OpenPlaces, CallPlaces, Bus, Openers
<1>15. CASE BusClose(p)
  BY <1>0, <1>15, HearIs DEF BusClose, Moves, Fails, Dies, Becomes, AttachOf, DoingOf, OpenPlaces, CallPlaces, Bus, Openers
<1>16. CASE MakerStep(p)
  <2>1. ASSUME proc'[p].whole
        PROVE  StoreSlot(p) /\ proc[p].pc = "fill" /\ proc'[p].pc = "idle" /\ proc'[p].arena = proc[p].arena /\ proc'[p].ok
    BY <1>0, <1>m, <1>16, <2>1, MakingIs, StoreSlotIs DEF MakerStep, Moves, Becomes, StoreSlot
  <2>2. proc[p].pc = "fill" => proc[p].arena = "arena"
    BY <1>0 DEF OneMaker, Making, MakerPlaces
  <2>3. QED
    BY <2>1, <2>2 DEF AttachOf
<1>17. QED
  BY <1>1, <1>2, <1>3, <1>4, <1>5, <1>6, <1>7, <1>8, <1>9, <1>10, <1>11, <1>12, <1>13, <1>14, <1>15, <1>16 DEF StepOf, MakerStep

LEMMA AttachingKept ==
  ASSUME LifeInv, NEW p \in Procs, StepOf(p)
  PROVE  Attaching'
<1>1. \A q \in Procs : AttachOf(proc[q])
  BY DEF LifeInv, Attaching, AttachOf
<1>2. \A q \in Procs : q # p => proc'[q] = proc[q]
  BY ProcTypesKept DEF LifeInv, LifeTypeOK
<1>3. \A q \in Procs : AttachOf(proc'[q])
  BY <1>1, <1>2, AttachHere
<1>4. QED
  BY <1>3 DEF Attaching, AttachOf

-----------------------------------------------------------------------------
(* The descriptors of a process.                                           *)

LEMMA UsedFinite ==
  ASSUME NEW p \in Procs
  PROVE  IsFiniteSet(Used(p)) /\ Cardinality(Used(p)) \in Nat /\ Used(p) \subseteq Numbers
<1>1. Used(p) \subseteq Numbers
  BY DEF Used
<1>2. IsFiniteSet(Numbers)
  BY LifecycleAssumption, FS_Interval DEF Numbers
<1>3. QED
  BY <1>1, <1>2, FS_Subset, FS_CardinalityType

(* The lowest free descriptor opened: one more is used, and every one that *)
(* was held is held still.                                                 *)
LEMMA OpensOne ==
  ASSUME LifeTypeOK, Descried, NEW p \in Procs, NEW f \in Nat, f # Free, With(p, Lowest(p), f)
  PROVE  /\ Cardinality(Used(p))' = Cardinality(Used(p)) + 1
         /\ \E l \in Numbers : /\ l = Lowest(p) /\ l # Closed /\ ~ Held(p, l)
                              /\ Held(p, l)' /\ files'[p][l] = f
         /\ \A n : Held(p, n) => Held(p, n)' /\ files'[p][n] = files[p][n]
<1>1. PICK l : l = Lowest(p)
  OBVIOUS
<1>2. l \in Numbers /\ files[p][l] = Free /\ l # Closed
  BY <1>1, LowestFree, LifecycleAssumption DEF Numbers, Closed
<1>3. \A n \in Numbers : files'[p][n] = IF n = l THEN f ELSE files[p][n]
  BY <1>1, WithIs
<1>4. Used(p)' = Used(p) \cup {l} /\ l \notin Used(p)
  BY <1>2, <1>3 DEF Used
<1>5. Cardinality(Used(p) \cup {l}) = Cardinality(Used(p)) + 1
  BY <1>4, UsedFinite, FS_AddElement
<1>6. files'[p][l] = f /\ ~ Held(p, l) /\ Held(p, l)'
  BY <1>2, <1>3 DEF Held
<1>7. \A n : Held(p, n) => Held(p, n)' /\ files'[p][n] = files[p][n]
  BY <1>2, <1>3 DEF Held
<1>8. Cardinality(Used(p))' = Cardinality(Used(p)) + 1
  BY <1>4, <1>5
<1>9. QED
  BY <1>1, <1>2, <1>6, <1>7, <1>8

LEMMA ClosesOne ==
  ASSUME LifeTypeOK, NEW p \in Procs, NEW d, With(p, d, Free)
  PROVE  /\ Cardinality(Used(p))' <= Cardinality(Used(p))
         /\ \A n : Held(p, n) /\ n # d => Held(p, n)' /\ files'[p][n] = files[p][n]
<1>1. \A n \in Numbers : files'[p][n] = IF n = d THEN Free ELSE files[p][n]
  BY WithIs DEF Free
<1>2. Used(p)' \subseteq Used(p)
  BY <1>1 DEF Used
<1>3. Cardinality(Used(p))' <= Cardinality(Used(p))
  BY <1>2, UsedFinite, FS_Subset
<1>4. QED
  BY <1>1, <1>3 DEF Held

LEMMA ClosesAll ==
  ASSUME LifeTypeOK, NEW p \in Procs, Dead(p)
  PROVE  Cardinality(Used(p))' = 0
<1>1. files'[p] = [n \in Numbers |-> Free]
  BY DEF Dead, LifeTypeOK
<1>2. Used(p)' = {}
  BY <1>1 DEF Used
<1>3. QED
  BY <1>2, FS_EmptySet

(* What the invariant says of one process, and how many it may still open. *)
HoldsOf(p) ==
  /\ proc[p].pc \in {"stat", "mmap", "check"} => obj.there
  /\ proc[p].bell # Closed => Held(p, proc[p].bell)
  /\ proc[p].ear # Closed => Held(p, proc[p].ear) /\ proc[p].ear # proc[p].bell
  /\ proc[p].pc = "own" => /\ Held(p, proc[p].fd)
                           /\ proc[p].fd # proc[p].bell /\ proc[p].fd # proc[p].ear

Count(p) == Cardinality(Used(p)) + left[p] + (IF Owed(p) THEN 1 ELSE 0) <= Most

LEMMA LeftIs ==
  ASSUME LifeTypeOK, NEW p \in Procs, StepOf(p)
  PROVE  /\ \A q \in Procs : q # p \/ ~ Start(p) => left'[q] = left[q]
         /\ Start(p) => left'[p] = left[p] - 1
<1>1. left \in [Procs -> 0 .. Most]
  BY DEF LifeTypeOK
<1>2. CASE Start(p)
  BY <1>1, <1>2 DEF Start
<1>3. CASE ~ Start(p)
  <2>1. left' = left
    BY <1>3 DEF StepOf, Kill, Put, Close, CreateObject, Truncate, MapNew, StorePlain, Recompute, StoreRest, StoreSlot,
       OpenObject, Stat, MapOpen, Check, InitFd, InitPid, LoadFd, LoadPid, Dup, BusClose, budget
  <2>2. QED
    BY <1>3, <2>1
<1>4. QED
  BY <1>2, <1>3

(* Another process's step.                                                 *)
LEMMA DescriedThere ==
  ASSUME LifeInv, NEW p \in Procs, StepOf(p), NEW q \in Procs, q # p
  PROVE  HoldsOf(q)' /\ Count(q)'
<1>0. LifeTypeOK /\ Descried /\ OneMaker /\ HoldsOf(q) /\ Count(q)
  BY DEF LifeInv, Descried, HoldsOf, Count
<1>1. proc'[q] = proc[q] /\ files'[q] = files[q] /\ left'[q] = left[q]
  BY <1>0, ProcTypesKept, FilesKept, LeftIs DEF LifeTypeOK
<1>2. obj.there => obj'.there
  BY <1>0, ThereStays
<1>3. HoldsOf(q)'
  BY <1>0, <1>1, <1>2 DEF HoldsOf, Held
<1>4. Used(q)' = Used(q) /\ (Owed(q)' => Owed(q))
  BY <1>1, <1>2 DEF Used, Owed
<1>5. Cardinality(Used(q)) \in Nat /\ left[q] \in Nat /\ Most \in Nat
  BY <1>0, UsedFinite, LifecycleAssumption DEF LifeTypeOK
<1>6. QED
  BY <1>0, <1>1, <1>3, <1>4, <1>5 DEF Count

(* The process's own step: what it uses and owes together does not grow,   *)
(* but by the call it begins.                                              *)
LEMMA CountHere ==
  ASSUME LifeTypeOK, NEW p \in Procs, Count(p), left'[p] \in Nat, left'[p] <= left[p],
         \/ /\ Cardinality(Used(p))' <= Cardinality(Used(p))
            /\ Owed(p)' => Owed(p) \/ left'[p] < left[p]
         \/ Cardinality(Used(p))' = Cardinality(Used(p)) + 1 /\ Owed(p) /\ ~ Owed(p)'
  PROVE  Count(p)'
<1>1. /\ Cardinality(Used(p)) \in Nat /\ left[p] \in Nat /\ Most \in Nat /\ IsFiniteSet(Used(p)')
  <2>1. Used(p)' \subseteq Numbers
    BY DEF Used
  <2>2. IsFiniteSet(Numbers)
    BY FS_Interval, LifecycleAssumption DEF Numbers
  <2>3. IsFiniteSet(Used(p)')
    BY <2>1, <2>2, FS_Subset
  <2>4. left[p] \in Nat /\ Most \in Nat
    BY LifecycleAssumption DEF LifeTypeOK
  <2>5. QED
    BY <2>3, <2>4, UsedFinite
<1>2. Cardinality(Used(p))' \in Nat
  BY <1>1, FS_CardinalityType
<1>3. QED
  BY <1>1, <1>2 DEF Count

LEMMA CountKept ==
  ASSUME LifeInv, NEW p \in Procs, StepOf(p)
  PROVE  Count(p)'
<1>0. LifeTypeOK /\ Descried /\ OneMaker /\ HoldsOf(p) /\ Count(p) /\ DoingOf(proc[p])
  BY DEF LifeInv, Descried, HoldsOf, Count, Doing, DoingOf
<1>1. left[p] \in Nat /\ left'[p] \in Nat /\ left'[p] <= left[p] /\ (Start(p) => left'[p] < left[p])
  <2>1. left \in [Procs -> 0 .. Most] /\ left' \in [Procs -> 0 .. Most] /\ Most \in Nat
    BY <1>0, TypesKept, LifecycleAssumption DEF LifeTypeOK
  <2>2. left[p] \in Nat /\ left'[p] \in Nat
    BY <2>1
  <2>3. QED
    BY <1>0, <2>2, LeftIs
<1>2. Cardinality(Used(p)) \in Nat
  BY UsedFinite
<1>3. ASSUME files' = files
      PROVE  Cardinality(Used(p))' <= Cardinality(Used(p))
  <2>1. Used(p)' = Used(p)
    BY <1>3 DEF Used
  <2>2. QED
    BY <1>2, <2>1
<1>4. obj.there => obj'.there
  BY <1>0, ThereStays
<1>5. CASE Start(p) \/ StorePlain(p) \/ Truncate(p) \/ MapNew(p) \/ Recompute(p) \/ StoreRest(p) \/ StoreSlot(p) \/ Stat(p)
           \/ InitPid(p)
  <2>1. files' = files
    BY <1>5 DEF Start, StorePlain, Truncate, MapNew, Recompute, StoreRest, StoreSlot, Stat, InitPid
  <2>2. Start(p) \/ ~ Owed(p)'
    <3>1. CASE MakerStep(p)
      BY <1>0, <3>1, MakingIs, StoreSlotIs DEF MakerStep, StorePlain, StoreRest, StoreSlot, Moves, Becomes, Owed
    <3>2. CASE Stat(p) \/ InitPid(p)
      BY <1>0, <3>2, StatIs, OwnIs DEF Moves, Becomes, Owed
    <3>3. QED
      BY <1>5, <3>1, <3>2 DEF MakerStep
  <2>3. QED
    BY <1>0, <1>1, <1>3, <2>1, <2>2, CountHere
<1>6. CASE MapOpen(p) \/ Check(p)
  <2>1. files' = files /\ obj' = obj /\ obj.there
    BY <1>0, <1>6 DEF MapOpen, Check, HoldsOf
  <2>2. ~ Owed(p)'
    BY <1>0, <1>6, <2>1, MapOpenIs, CheckIs DEF Moves, Fails, Becomes, Owed
  <2>3. QED
    BY <1>0, <1>1, <1>3, <2>1, <2>2, CountHere
<1>7. CASE LoadFd(p) \/ LoadPid(p)
  <2>1. files' = files /\ Owed(p)
    BY <1>7 DEF LoadFd, LoadPid, Owed
  <2>2. QED
    BY <1>0, <1>1, <1>3, <2>1, CountHere
<1>8. CASE Kill(p) \/ (Put(p) /\ Dead(p))
  <2>1. Cardinality(Used(p))' = 0 /\ Dies(p)
    BY <1>0, <1>8, ClosesAll, DeadIs DEF Kill
  <2>2. Cardinality(Used(p))' <= Cardinality(Used(p)) /\ ~ Owed(p)'
    BY <1>2, <2>1 DEF Dies, Becomes, Owed
  <2>3. QED
    BY <1>0, <1>1, <2>2, CountHere
<1>9. CASE Put(p) /\ ~ Dead(p)
  <2>1. files' = files /\ ~ Owed(p)'
    BY <1>0, <1>9, PutIs DEF Moves, Becomes, Owed
  <2>2. QED
    BY <1>0, <1>1, <1>3, <2>1, CountHere
<1>10. CASE Close(p)
  <2>1. ~ Owed(p)' /\ With(p, proc[p].bell, Free)
    BY <1>0, <1>10, CloseIs DEF Close, Becomes, Owed
  <2>2. Cardinality(Used(p))' <= Cardinality(Used(p))
    BY <1>0, <2>1, ClosesOne
  <2>3. QED
    BY <1>0, <1>1, <2>1, <2>2, CountHere
<1>11. CASE BusClose(p)
  <2>1. ~ Owed(p)' /\ With(p, proc[p].ear, Free)
    BY <1>0, <1>11, HearIs DEF BusClose, Becomes, Owed
  <2>2. Cardinality(Used(p))' <= Cardinality(Used(p))
    BY <1>0, <2>1, ClosesOne
  <2>3. QED
    BY <1>0, <1>1, <2>1, <2>2, CountHere
<1>12. CASE CreateObject(p)
  <2>1. CASE obj.there
    <3>1. files' = files /\ obj' = obj /\ (Owed(p)' => Owed(p))
      BY <1>0, <1>12, <2>1, CreateIs DEF CreateObject, Moves, Fails, Becomes, Owed
    <3>2. QED
      BY <1>0, <1>1, <1>3, <3>1, CountHere
  <2>2. CASE ~ obj.there
    <3>1. With(p, Lowest(p), Shared) /\ Owed(p) /\ ~ Owed(p)'
      BY <1>0, <1>12, <2>2, CreateIs DEF CreateObject, Moves, Becomes, Owed
    <3>2. Cardinality(Used(p))' = Cardinality(Used(p)) + 1
      BY <1>0, <3>1, OpensOne DEF Shared, Free
    <3>3. QED
      BY <1>0, <1>1, <3>1, <3>2, CountHere
  <2>3. QED
    BY <2>1, <2>2
<1>13. CASE OpenObject(p)
  <2>0. Owed(p) /\ obj' = obj
    BY <1>13 DEF OpenObject, Owed
  <2>1. CASE obj.there
    <3>1. With(p, Lowest(p), Shared) /\ ~ Owed(p)'
      BY <1>0, <1>13, <2>1, OpenIs DEF Moves, Becomes, Owed
    <3>2. Cardinality(Used(p))' = Cardinality(Used(p)) + 1
      BY <1>0, <3>1, OpensOne DEF Shared, Free
    <3>3. QED
      BY <1>0, <1>1, <2>0, <3>1, <3>2, CountHere
  <2>2. CASE ~ obj.there
    <3>1. files' = files
      BY <1>0, <1>13, <2>2, OpenIs
    <3>2. QED
      BY <1>0, <1>1, <1>3, <2>0, <3>1, CountHere
  <2>3. QED
    BY <2>1, <2>2
<1>14. CASE InitFd(p)
  <2>1. With(p, Lowest(p), Ring(rings)) /\ Owed(p) /\ ~ Owed(p)'
    BY <1>0, <1>14, OwnIs DEF InitFd, Moves, Becomes, Owed
  <2>2. Ring(rings) \in Nat /\ Ring(rings) # Free
    BY <1>0 DEF LifeTypeOK, Ring, Free
  <2>3. Cardinality(Used(p))' = Cardinality(Used(p)) + 1
    BY <1>0, <2>1, <2>2, OpensOne
  <2>4. QED
    BY <1>0, <1>1, <2>1, <2>3, CountHere
<1>15. CASE Dup(p)
  <2>0. Owed(p) /\ ~ Owed(p)'
    BY <1>0, <1>15, DupIs DEF Dup, Moves, Becomes, Owed
  <2>1. CASE files' = files
    BY <1>0, <1>1, <1>3, <2>0, <2>1, CountHere
  <2>2. CASE files' # files
    <3>1. Peered(p) # Free /\ With(p, Lowest(p), Peered(p))
      BY <1>0, <1>15, <2>2, DupIs
    <3>2. Peered(p) \in Nat
      BY <1>0, PeeredType
    <3>3. Cardinality(Used(p))' = Cardinality(Used(p)) + 1
      BY <1>0, <3>1, <3>2, OpensOne
    <3>4. QED
      BY <1>0, <1>1, <2>0, <3>3, CountHere
  <2>3. QED
    BY <2>1, <2>2
<1>16. QED
  BY <1>5, <1>6, <1>7, <1>8, <1>9, <1>10, <1>11, <1>12, <1>13, <1>14, <1>15 DEF StepOf

LEMMA HoldsKept ==
  ASSUME LifeInv, NEW p \in Procs, StepOf(p)
  PROVE  HoldsOf(p)'
<1>0. /\ LifeTypeOK /\ Descried /\ OneMaker /\ Hearing /\ HoldsOf(p) /\ DoingOf(proc[p]) /\ Calls[p] \subseteq AllCalls
      /\ (obj.there => obj'.there)
  BY LifecycleAssumption, ThereStays DEF LifeInv, Descried, HoldsOf, Doing, DoingOf
<1>1. ASSUME files' = files, SameEars(p), proc'[p].pc # "own", proc'[p].pc \in {"stat", "mmap", "check"} => obj.there
      PROVE  HoldsOf(p)'
  BY <1>0, <1>1 DEF HoldsOf, Held, SameEars
<1>2. CASE Start(p)
  <2>1. files' = files /\ SameEars(p)
    BY <1>0, <1>2, StartIs DEF Start
  <2>2. proc'[p].pc \notin {"own", "stat", "mmap", "check"}
    BY <1>0, <1>2, StartIs DEF Becomes, FirstPlace, AllCalls, Openers, Makers, Bus
  <2>3. QED
    BY <1>1, <2>1, <2>2
<1>3. CASE MakerStep(p)
  <2>1. files' = files /\ SameEars(p)
    BY <1>0, <1>3, MakingIs, StoreSlotIs DEF MakerStep, Truncate, MapNew, StorePlain, Recompute, StoreRest, StoreSlot, Moves
  <2>2. proc'[p].pc \notin {"own", "stat", "mmap", "check"}
    BY <1>0, <1>3, MakingIs, StoreSlotIs DEF MakerStep, StorePlain, StoreRest, StoreSlot, Moves, Becomes
  <2>3. QED
    BY <1>1, <2>1, <2>2
<1>4. CASE Stat(p) \/ MapOpen(p) \/ Check(p)
  <2>1. files' = files /\ obj.there
    BY <1>0, <1>4 DEF Stat, MapOpen, Check, HoldsOf
  <2>2. SameEars(p) /\ proc'[p].pc # "own"
    BY <1>0, <1>4, StatIs, MapOpenIs, CheckIs DEF Moves, Fails, Becomes
  <2>3. QED
    BY <1>1, <2>1, <2>2
<1>5. CASE LoadFd(p) \/ LoadPid(p)
  <2>1. files' = files /\ SameEars(p) /\ proc'[p].pc \notin {"own", "stat", "mmap", "check"}
    BY <1>0, <1>5, HearIs DEF LoadFd, LoadPid, Moves, Becomes
  <2>2. QED
    BY <1>1, <2>1
<1>6. CASE Kill(p) \/ (Put(p) /\ Dies(p))
  <2>1. Dies(p)
    BY <1>0, <1>6, DeadIs DEF Kill
  <2>2. QED
    BY <2>1 DEF Dies, Becomes, HoldsOf
<1>7. CASE Put(p) /\ ~ Dies(p)
  <2>1. files' = files /\ SameEars(p) /\ proc'[p].pc = "idle"
    BY <1>0, <1>7, PutIs DEF Moves, Becomes
  <2>2. QED
    BY <1>1, <2>1
<1>8. CASE Close(p)
  <2>1. /\ With(p, proc[p].bell, Free) /\ proc'[p].pc = "idle" /\ proc'[p].bell = Closed /\ proc'[p].ear = proc[p].ear
    BY <1>0, <1>8, CloseIs DEF Close, Becomes
  <2>2. QED
    BY <1>0, <2>1, ClosesOne DEF HoldsOf
<1>9. CASE BusClose(p)
  <2>1. /\ With(p, proc[p].ear, Free) /\ proc'[p].pc = "idle" /\ proc'[p].bell = proc[p].bell /\ proc'[p].ear = Closed
    BY <1>0, <1>9, HearIs DEF BusClose, Becomes
  <2>2. QED
    BY <1>0, <2>1, ClosesOne DEF HoldsOf
<1>10. CASE CreateObject(p)
  <2>1. CASE obj.there
    <3>1. files' = files /\ SameEars(p) /\ proc'[p].pc \notin {"own", "stat", "mmap", "check"}
      BY <1>0, <1>10, <2>1, CreateIs DEF Moves, Fails, Becomes
    <3>2. QED
      BY <1>1, <3>1
  <2>2. CASE ~ obj.there
    <3>1. With(p, Lowest(p), Shared) /\ SameEars(p) /\ proc'[p].pc = "truncate"
      BY <1>0, <1>10, <2>2, CreateIs DEF Moves, Becomes
    <3>2. \A n : Held(p, n) => Held(p, n)'
      BY <1>0, <3>1, OpensOne DEF Shared, Free
    <3>3. QED
      BY <1>0, <3>1, <3>2 DEF HoldsOf, SameEars
  <2>3. QED
    BY <2>1, <2>2
<1>11. CASE OpenObject(p)
  <2>1. CASE obj.there
    <3>1. With(p, Lowest(p), Shared) /\ SameEars(p) /\ proc'[p].pc = "stat"
      BY <1>0, <1>11, <2>1, OpenIs DEF Moves, Becomes
    <3>2. \A n : Held(p, n) => Held(p, n)'
      BY <1>0, <3>1, OpensOne DEF Shared, Free
    <3>3. QED
      BY <1>0, <2>1, <3>1, <3>2 DEF HoldsOf, SameEars
  <2>2. CASE ~ obj.there
    <3>1. files' = files /\ SameEars(p) /\ proc'[p].pc \notin {"own", "stat", "mmap", "check"}
      BY <1>0, <1>11, <2>2, OpenIs DEF Moves, Fails, Becomes
    <3>2. QED
      BY <1>1, <3>1
  <2>3. QED
    BY <2>1, <2>2
<1>12. CASE InitFd(p)
  <2>1. With(p, Lowest(p), Ring(rings)) /\ SameEars(p) /\ proc'[p].pc = "own" /\ proc'[p].fd = Lowest(p)
    BY <1>0, <1>12, OwnIs DEF InitFd, Moves, Becomes
  <2>2. Ring(rings) \in Nat /\ Ring(rings) # Free
    BY <1>0 DEF LifeTypeOK, Ring, Free
  <2>3. PICK l \in Numbers : l = Lowest(p) /\ l # Closed /\ ~ Held(p, l) /\ Held(p, l)'
    BY <1>0, <2>1, <2>2, OpensOne
  <2>4. \A n : Held(p, n) => Held(p, n)'
    BY <1>0, <2>1, <2>2, OpensOne
  <2>5. l # proc[p].bell /\ l # proc[p].ear
    BY <1>0, <2>3 DEF HoldsOf
  <2>6. QED
    BY <1>0, <2>1, <2>3, <2>4, <2>5 DEF HoldsOf, SameEars
<1>13. CASE InitPid(p)
  <2>1. /\ files' = files /\ proc[p].pc = "own" /\ proc'[p].pc = "idle"
        /\ proc'[p].bell = proc[p].fd /\ proc'[p].ear = proc[p].ear
    BY <1>0, <1>13, OwnIs DEF InitPid, Becomes
  <2>2. QED
    BY <1>0, <2>1 DEF HoldsOf, Held
<1>14. CASE Dup(p)
  <2>1. CASE Peered(p) = Free
    <3>1. files' = files /\ SameEars(p) /\ proc'[p].pc = "idle"
      BY <1>0, <1>14, <2>1, DupIs DEF Moves, Becomes
    <3>2. QED
      BY <1>1, <3>1
  <2>2. CASE Peered(p) # Free
    <3>1. /\ With(p, Lowest(p), Peered(p)) /\ proc'[p].pc = "idle" /\ proc'[p].bell = proc[p].bell
          /\ proc'[p].ear = Lowest(p)
      BY <1>0, <1>14, <2>2, DupIs DEF Becomes
    <3>2. PICK l \in Numbers : l = Lowest(p) /\ l # Closed /\ ~ Held(p, l) /\ Held(p, l)'
      BY <1>0, <2>2, <3>1, OpensOne, PeeredType
    <3>3. \A n : Held(p, n) => Held(p, n)'
      BY <1>0, <2>2, <3>1, OpensOne, PeeredType
    <3>4. l # proc[p].bell
      BY <1>0, <3>2 DEF HoldsOf
    <3>5. QED
      BY <1>0, <3>1, <3>2, <3>3, <3>4 DEF HoldsOf
  <2>3. QED
    BY <2>1, <2>2
<1>15. QED
  BY <1>2, <1>3, <1>4, <1>5, <1>6, <1>7, <1>8, <1>9, <1>10, <1>11, <1>12, <1>13, <1>14 DEF StepOf, MakerStep

LEMMA DescriedKept ==
  ASSUME LifeInv, NEW p \in Procs, StepOf(p)
  PROVE  Descried'
<1>1. \A q \in Procs : HoldsOf(q)' /\ Count(q)'
  BY DescriedThere, CountKept, HoldsKept
<1>2. QED
  BY <1>1 DEF Descried, HoldsOf, Count

-----------------------------------------------------------------------------
(* What a consumer hears.                                                  *)

Dying(p) == Kill(p) \/ (Put(p) /\ Dead(p))

(* A descriptor stays what it is until its process closes it or dies.      *)
LEMMA HeldStays ==
  ASSUME LifeInv, NEW p \in Procs, StepOf(p), NEW n, Held(p, n),
         Close(p) => n # proc[p].bell, BusClose(p) => n # proc[p].ear, ~ Dying(p)
  PROVE  files'[p][n] = files[p][n]
<1>0. LifeTypeOK /\ Descried /\ Ring(rings) \in Nat /\ Ring(rings) # Free
  BY DEF LifeInv, LifeTypeOK, Ring, Free
<1>1. CASE Close(p) \/ BusClose(p)
  BY <1>0, <1>1, ClosesOne DEF Close, BusClose
<1>2. CASE CreateObject(p)
  BY <1>0, <1>2, CreateIs, OpensOne DEF Shared, Free
<1>3. CASE OpenObject(p)
  BY <1>0, <1>3, OpenIs, OpensOne DEF Shared, Free
<1>4. CASE InitFd(p)
  <2>1. With(p, Lowest(p), Ring(rings))
    BY <1>4 DEF InitFd
  <2>2. QED
    BY <1>0, <2>1, OpensOne
<1>5. CASE Dup(p)
  BY <1>0, <1>5, DupIs, OpensOne, PeeredType
<1>6. CASE Put(p)
  BY <1>0, <1>6, PutIs DEF Dying
<1>7. CASE Start(p) \/ MakerStep(p) \/ Stat(p) \/ MapOpen(p) \/ Check(p) \/ InitPid(p) \/ LoadFd(p) \/ LoadPid(p)
  BY <1>7 DEF Start, MakerStep, Truncate, MapNew, StorePlain, Recompute, StoreRest, StoreSlot, Stat, MapOpen, Check,
     InitPid, LoadFd, LoadPid
<1>8. QED
  BY <1>1, <1>2, <1>3, <1>4, <1>5, <1>6, <1>7 DEF StepOf, MakerStep, Dying

(* While the owner stands by and some consumer stays steady, nobody has    *)
(* touched what the header names, nor the owner's ring.                    *)
OwnerOf(q) == obj.pid = Me(q) /\ proc[q].bell # Closed /\ obj.fd = proc[q].bell

LEMMA SteadyStays ==
  ASSUME LifeInv, NEW p \in Procs, StepOf(p), NEW c \in Procs, steady'[c]
  PROVE  /\ steady[c] \/ (LoadFd(p) /\ c = p /\ Standing)
         /\ ~ StoreRest(p) /\ ~ InitFd(p)
         /\ Close(p) \/ Dying(p) => obj.pid # Me(p)
<1>0. steady \in [Procs -> BOOLEAN] /\ ~ Unsettled[c]
  BY DEF LifeInv, LifeTypeOK, Unsettled
<1>1. CASE StoreRest(p)
  <2>1. proc[p].n = 1
    <3>1. LifeTypeOK /\ MakerOf(p) /\ proc[p].pc = "fill" /\ proc[p].n <= 1
      BY <1>1, LaterIs DEF LifeInv, OneMaker, MakerOf, StoreRest
    <3>2. proc[p].n \in Nat /\ obj.made \in Nat
      BY <3>1, StoreIs, ProcessIs
    <3>3. QED
      BY <3>1, <3>2 DEF MakerOf, Making, MakerPlaces
  <2>2. QED
    BY <1>0, <1>1, <2>1, LaterIs DEF StoreRest
<1>2. CASE InitFd(p)
  BY <1>0, <1>2 DEF InitFd
<1>3. CASE Close(p)
  <2>1. obj.pid # Me(p) /\ steady' = steady
    BY <1>0, <1>3 DEF Close
  <2>2. QED
    BY <1>3, <2>1 DEF Close, StoreRest, InitFd
<1>4. CASE Dying(p)
  <2>1. Dead(p)
    BY <1>4 DEF Dying, Kill
  <2>2. obj.pid # Me(p) /\ steady[c]
    BY <1>0, <2>1 DEF Dead
  <2>3. ~ StoreRest(p) /\ ~ InitFd(p)
    BY <1>1, <1>2
  <2>4. QED
    BY <2>2, <2>3
<1>5. CASE LoadFd(p)
  <2>1. steady' = [steady EXCEPT ![p] = Standing]
    BY <1>5 DEF LoadFd
  <2>2. steady[c] \/ (c = p /\ Standing)
    BY <1>0, <2>1
  <2>3. ~ StoreRest(p) /\ ~ InitFd(p)
    BY <1>1, <1>2
  <2>4. ~ Close(p) /\ ~ Put(p)
    BY <1>5 DEF LoadFd, Close, Put
  <2>5. Dying(p) => obj.pid # Me(p)
    BY <1>4
  <2>6. QED
    BY <1>5, <2>2, <2>3, <2>4, <2>5
<1>6. CASE ~ StoreRest(p) /\ ~ InitFd(p) /\ ~ Close(p) /\ ~ Dying(p) /\ ~ LoadFd(p)
  <2>1. steady' = steady
    <3>1. CASE Put(p)
      BY <1>6, <3>1 DEF Put, Dying
    <3>2. CASE ~ Put(p)
      BY <1>6, <3>2 DEF StepOf, Dying, Start, CreateObject, Truncate, MapNew, StorePlain, Recompute, StoreSlot, OpenObject, Stat,
         MapOpen, Check, InitPid, LoadPid, Dup, BusClose, budget
    <3>3. QED
      BY <3>1, <3>2
  <2>2. QED
    BY <1>6, <2>1
<1>7. QED
  BY <1>1, <1>2, <1>3, <1>4, <1>5, <1>6

LEMMA OwnerStays ==
  ASSUME LifeInv, NEW p \in Procs, StepOf(p), NEW c \in Procs, steady'[c]
  PROVE  /\ obj'.fd = obj.fd /\ obj'.pid = obj.pid
         /\ \E q \in Procs : /\ OwnerOf(q) /\ OwnerOf(q)'
                             /\ Held(q, proc[q].bell) /\ files'[q][proc[q].bell] = files[q][proc[q].bell]
         /\ Standing'
<1>0. LifeTypeOK /\ Descried /\ Stored /\ OneMaker /\ Hearing
  BY DEF LifeInv
<1>1. /\ Standing /\ ~ StoreRest(p) /\ ~ InitFd(p)
      /\ Close(p) \/ Dying(p) => obj.pid # Me(p)
  BY <1>0, SteadyStays DEF Hearing
<1>2. PICK q \in Procs : OwnerOf(q)
  BY <1>1 DEF Standing, OwnerOf
<1>3. \A r \in Procs : proc[r].pc # "own"
  BY <1>1 DEF Standing
<1>4. obj.there
  <2>1. proc[q].pid \in Nat \ {0} /\ Me(q)[2] = proc[q].pid
    BY <1>0, ProcessIs DEF Me
  <2>2. QED
    BY <1>0, <1>2, <2>1 DEF Stored, OwnerOf
<1>5. obj'.fd = obj.fd /\ obj'.pid = obj.pid
  <2>0. obj \in Object /\ ~ InitPid(p)
    BY <1>0, <1>3 DEF LifeTypeOK, InitPid
  <2>1. CASE Put(p)
    <3>1. CASE obj' = obj
      BY <3>1
    <3>2. CASE obj' # obj
      <4>1. PICK kept : kept = IF proc[p].whole THEN obj.kept \cup {Home[p]} ELSE obj.kept
        OBVIOUS
      <4>2. PICK taken : taken = [obj.keys EXCEPT ![Home[p]] = "key"]
        OBVIOUS
      <4>3. \E ks : obj' = [obj EXCEPT !.kept = kept, !.keys = ks]
        BY <2>1, <3>2, <4>1, <4>2 DEF Put
      <4>4. QED
        BY <2>0, <4>3 DEF Object
    <3>3. QED
      BY <3>1, <3>2
  <2>2. CASE Truncate(p) \/ StorePlain(p)
    BY <2>0, <2>2 DEF Truncate, StorePlain, Object
  <2>3. CASE StoreSlot(p)
    <3>1. PICK ks : obj' = [obj EXCEPT !.made = proc[p].n - 1, !.keys = ks]
      BY <1>0, <2>3, StoreSlotIs
    <3>2. QED
      BY <2>0, <3>1 DEF Object
  <2>4. CASE CreateObject(p)
    BY <1>0, <1>4, <2>4, CreateIs
  <2>5. CASE \/ Start(p) \/ Kill(p) \/ Close(p) \/ MapNew(p) \/ Recompute(p) \/ OpenObject(p) \/ Stat(p) \/ MapOpen(p)
             \/ Check(p) \/ LoadFd(p) \/ LoadPid(p) \/ Dup(p) \/ BusClose(p)
    BY <2>5 DEF Start, Kill, Close, MapNew, Recompute, OpenObject, Stat, MapOpen, Check, LoadFd, LoadPid, Dup, BusClose
  <2>6. QED
    BY <1>1, <2>0, <2>1, <2>2, <2>3, <2>4, <2>5 DEF StepOf
<1>6. Held(q, proc[q].bell) /\ (proc[q].ear # Closed => proc[q].ear # proc[q].bell)
  BY <1>0, <1>2 DEF Descried, OwnerOf
<1>7. \A r \in Procs : r # p => proc'[r] = proc[r] /\ files'[r] = files[r]
  BY <1>0, ProcTypesKept, FilesKept DEF LifeTypeOK
<1>8. proc'[q].bell = proc[q].bell /\ proc'[q].pid = proc[q].pid /\ files'[q][proc[q].bell] = files[q][proc[q].bell]
  <2>1. CASE q # p
    BY <1>7, <2>1
  <2>2. CASE q = p
    <3>1. ~ Close(p) /\ ~ Dying(p) /\ ~ InitPid(p)
      BY <1>1, <1>2, <1>3, <2>2 DEF OwnerOf, InitPid
    <3>2. proc'[p].bell = proc[p].bell /\ proc'[p].pid = proc[p].pid
      <4>1. CASE Start(p)
        BY <1>0, <4>1, StartIs DEF SameEars
      <4>2. CASE Put(p)
        BY <1>0, <3>1, <4>2, PutIs DEF Dying, Moves, SameEars
      <4>3. CASE CreateObject(p)
        BY <1>0, <4>3, CreateIs DEF Moves, Fails, SameEars
      <4>4. CASE MakerStep(p)
        BY <1>0, <4>4, MakingIs, StoreSlotIs DEF MakerStep, Moves, SameEars
      <4>5. CASE OpenObject(p)
        BY <1>0, <4>5, OpenIs DEF Moves, Fails, SameEars
      <4>6. CASE Stat(p) \/ MapOpen(p) \/ Check(p)
        BY <1>0, <4>6, StatIs, MapOpenIs, CheckIs DEF Moves, Fails, SameEars
      <4>7. CASE LoadFd(p) \/ LoadPid(p) \/ BusClose(p)
        BY <1>0, <4>7, HearIs DEF Moves, SameEars
      <4>8. CASE Dup(p)
        BY <1>0, <4>8, DupIs DEF Moves, SameEars
      <4>9. QED
        BY <1>1, <3>1, <4>1, <4>2, <4>3, <4>4, <4>5, <4>6, <4>7, <4>8 DEF StepOf, MakerStep, Dying
    <3>3. BusClose(p) => proc[p].bell # proc[p].ear
      BY <1>2, <1>6, <2>2 DEF OwnerOf
    <3>4. files'[p][proc[p].bell] = files[p][proc[p].bell]
      BY <1>6, <2>2, <3>1, <3>3, HeldStays
    <3>5. QED
      BY <2>2, <3>2, <3>4
  <2>3. QED
    BY <2>1, <2>2
<1>9. OwnerOf(q)'
  BY <1>2, <1>5, <1>8 DEF OwnerOf, Me
<1>10. \A r \in Procs : proc'[r].pc # "own"
  <2>1. proc'[p].pc # "own"
    <3>0. proc[p].pc # "own" /\ Calls[p] \subseteq AllCalls
      BY <1>3, LifecycleAssumption
    <3>1. CASE Start(p)
      BY <1>0, <3>0, <3>1, StartIs DEF Becomes, FirstPlace, AllCalls, Openers, Makers, Bus
    <3>2. CASE Put(p)
      BY <1>0, <3>2, PutIs DEF Dies, Moves, Becomes
    <3>3. CASE CreateObject(p)
      BY <1>0, <3>3, CreateIs DEF Moves, Fails, Becomes
    <3>4. CASE MakerStep(p)
      BY <1>0, <3>0, <3>4, MakingIs, StoreSlotIs DEF MakerStep, Moves, Becomes
    <3>5. CASE OpenObject(p)
      BY <1>0, <3>5, OpenIs DEF Moves, Fails, Becomes
    <3>6. CASE Stat(p) \/ MapOpen(p) \/ Check(p)
      BY <1>0, <3>6, StatIs, MapOpenIs, CheckIs DEF Moves, Fails, Becomes
    <3>7. CASE LoadFd(p) \/ LoadPid(p) \/ BusClose(p)
      BY <1>0, <3>7, HearIs DEF Moves, Becomes
    <3>8. CASE Dup(p) \/ InitPid(p)
      BY <1>0, <3>8, DupIs, OwnIs DEF Moves, Becomes
    <3>9. CASE Kill(p) \/ Close(p)
      BY <1>0, <3>9, DeadIs, CloseIs DEF Kill, Dies, Becomes
    <3>10. QED
      BY <1>1, <3>1, <3>2, <3>3, <3>4, <3>5, <3>6, <3>7, <3>8, <3>9 DEF StepOf, MakerStep
  <2>2. QED
    BY <1>3, <1>7, <2>1
<1>11. Standing'
  BY <1>9, <1>10 DEF Standing, OwnerOf
<1>12. QED
  BY <1>2, <1>5, <1>6, <1>8, <1>9, <1>11

LEMMA HearingKept ==
  ASSUME LifeInv, NEW p \in Procs, StepOf(p)
  PROVE  Hearing'
<1>0. LifeTypeOK /\ Descried /\ Stored /\ OneMaker /\ Hearing /\ Doing /\ Calls[p] \subseteq AllCalls
  BY LifecycleAssumption DEF LifeInv
<1>1. \A r \in Procs : r # p => proc'[r] = proc[r] /\ files'[r] = files[r]
  BY <1>0, ProcTypesKept, FilesKept DEF LifeTypeOK
<1>2. proc'[p].pc \in {"bus_open", "owner", "dup"} => proc'[p].ear = Closed
  <2>1. CASE Start(p)
    BY <1>0, <2>1, StartIs DEF Becomes, SameEars, FirstPlace, AllCalls, Openers, Makers, Bus, Callable
  <2>2. CASE Put(p)
    BY <1>0, <2>2, PutIs DEF Dies, Moves, Becomes
  <2>3. CASE CreateObject(p)
    BY <1>0, <2>3, CreateIs DEF Moves, Fails, Becomes
  <2>4. CASE MakerStep(p)
    BY <1>0, <2>4, MakingIs, StoreSlotIs DEF MakerStep, StorePlain, StoreRest, StoreSlot, Moves, Becomes
  <2>5. CASE OpenObject(p)
    BY <1>0, <2>5, OpenIs DEF Moves, Fails, Becomes
  <2>6. CASE Stat(p) \/ MapOpen(p) \/ Check(p)
    BY <1>0, <2>6, StatIs, MapOpenIs, CheckIs DEF Moves, Fails, Becomes
  <2>7. CASE LoadFd(p) \/ LoadPid(p)
    BY <1>0, <2>7, HearIs DEF Hearing, LoadFd, LoadPid, Moves, SameEars
  <2>8. CASE Dup(p) \/ InitPid(p) \/ InitFd(p) \/ BusClose(p)
    BY <1>0, <2>8, DupIs, OwnIs, HearIs DEF Moves, Becomes
  <2>9. CASE Kill(p) \/ Close(p)
    BY <1>0, <2>9, DeadIs, CloseIs DEF Kill, Dies, Becomes
  <2>10. QED
    BY <2>1, <2>2, <2>3, <2>4, <2>5, <2>6, <2>7, <2>8, <2>9 DEF StepOf, MakerStep
<1>3. ASSUME NEW c \in Procs, steady'[c]
      PROVE  /\ Standing'
             /\ proc'[c].pc \in {"owner", "dup"} => proc'[c].fd = obj'.fd
             /\ proc'[c].pc = "dup" => proc'[c].peer = obj'.pid
  <2>1. /\ Standing' /\ obj'.fd = obj.fd /\ obj'.pid = obj.pid
        /\ steady[c] \/ (LoadFd(p) /\ c = p)
    BY <1>3, OwnerStays, SteadyStays
  <2>2. CASE c # p
    BY <1>0, <1>1, <2>1, <2>2 DEF Hearing
  <2>3. CASE c = p
    <3>1. CASE LoadFd(p)
      BY <1>0, <2>1, <2>3, <3>1, HearIs DEF Moves, Becomes
    <3>2. CASE LoadPid(p)
      BY <1>0, <2>1, <2>3, <3>2, HearIs DEF Hearing, LoadPid, LoadFd, Moves, Becomes
    <3>3. CASE ~ LoadFd(p) /\ ~ LoadPid(p)
      <4>1. proc'[p].pc \notin {"owner", "dup"}
        <5>1. CASE Start(p)
          BY <1>0, <5>1, StartIs DEF Becomes, FirstPlace, AllCalls, Openers, Makers, Bus
        <5>2. CASE Put(p)
          BY <1>0, <5>2, PutIs DEF Dies, Moves, Becomes
        <5>3. CASE CreateObject(p)
          BY <1>0, <5>3, CreateIs DEF Moves, Fails, Becomes
        <5>4. CASE MakerStep(p)
          BY <1>0, <5>4, MakingIs, StoreSlotIs DEF MakerStep, StorePlain, StoreRest, StoreSlot, Moves, Becomes
        <5>5. CASE OpenObject(p)
          BY <1>0, <5>5, OpenIs DEF Moves, Fails, Becomes
        <5>6. CASE Stat(p) \/ MapOpen(p) \/ Check(p)
          BY <1>0, <5>6, StatIs, MapOpenIs, CheckIs DEF Moves, Fails, Becomes
        <5>7. CASE Dup(p) \/ InitPid(p) \/ InitFd(p) \/ BusClose(p)
          BY <1>0, <5>7, DupIs, OwnIs, HearIs DEF Moves, Becomes
        <5>8. CASE Kill(p) \/ Close(p)
          BY <1>0, <5>8, DeadIs, CloseIs DEF Kill, Dies, Becomes
        <5>9. QED
          BY <3>3, <5>1, <5>2, <5>3, <5>4, <5>5, <5>6, <5>7, <5>8 DEF StepOf, MakerStep
      <4>2. QED
        BY <2>1, <2>3, <4>1
    <3>4. QED
      BY <3>1, <3>2, <3>3
  <2>4. QED
    BY <2>2, <2>3
<1>4. \A c \in Procs : proc'[c].pc \in {"bus_open", "owner", "dup"} => proc'[c].ear = Closed
  BY <1>0, <1>1, <1>2 DEF Hearing
<1>5. QED
  BY <1>3, <1>4 DEF Hearing

LEMMA HearsOwnerKept ==
  ASSUME LifeInv, NEW p \in Procs, StepOf(p)
  PROVE  HearsOwner'
<1>0. /\ LifeTypeOK /\ Descried /\ Stored /\ OneMaker /\ Hearing /\ HearsOwner
      /\ \A r \in Procs : r # p => proc'[r] = proc[r] /\ files'[r] = files[r]
  BY ProcTypesKept, FilesKept DEF LifeInv, LifeTypeOK
<1>1. ASSUME NEW c \in Procs, steady'[c], proc'[c].ear # Closed
      PROVE  \E q \in Procs : obj'.pid = Me(q)' /\ File(c, proc[c].ear)' = File(q, proc[q].bell)'
  <2>1. PICK q \in Procs : /\ OwnerOf(q) /\ OwnerOf(q)' /\ Held(q, proc[q].bell)
                           /\ files'[q][proc[q].bell] = files[q][proc[q].bell]
                           /\ obj'.fd = obj.fd /\ obj'.pid = obj.pid
    BY <1>1, OwnerStays
  <2>2. /\ File(q, proc[q].bell) = files[q][proc[q].bell]
        /\ File(q, proc[q].bell)' = files[q][proc[q].bell]
    BY <2>1 DEF OwnerOf, File
  <2>3. /\ steady[c] \/ (LoadFd(p) /\ c = p)
        /\ Standing /\ ~ StoreRest(p) /\ ~ InitFd(p) /\ ~ InitPid(p)
    <3>1. Standing
      BY <1>0, <1>1, SteadyStays DEF Hearing
    <3>2. QED
      BY <1>1, <3>1, SteadyStays DEF Standing, InitPid
  <2>4. ASSUME steady[c], proc[c].ear # Closed, proc'[c].ear = proc[c].ear, files'[c][proc[c].ear] = files[c][proc[c].ear]
        PROVE  File(c, proc[c].ear)' = File(q, proc[q].bell)'
    <3>1. PICK o \in Procs : obj.pid = Me(o) /\ File(c, proc[c].ear) = File(o, proc[o].bell)
      BY <1>0, <2>4 DEF HearsOwner
    <3>2. o = q
      BY <2>1, <3>1 DEF OwnerOf, Me
    <3>3. File(c, proc[c].ear)' = File(c, proc[c].ear)
      BY <2>4 DEF File
    <3>4. QED
      BY <2>2, <3>1, <3>2, <3>3
  <2>5. CASE c # p
    BY <1>0, <1>1, <2>1, <2>3, <2>4, <2>5 DEF OwnerOf
  <2>6. CASE c = p
    <3>1. ~ LoadFd(p) /\ ~ LoadPid(p) /\ ~ BusClose(p) /\ ~ Dying(p)
      <4>1. CASE LoadFd(p) \/ LoadPid(p)
        BY <1>0, <1>1, <2>6, <4>1, HearIs DEF Hearing, LoadFd, LoadPid, Moves, SameEars
      <4>2. CASE BusClose(p)
        BY <1>0, <1>1, <2>6, <4>2, HearIs
      <4>3. CASE Dying(p)
        <5>1. Dead(p)
          BY <4>3 DEF Dying, Kill
        <5>2. Dies(p)
          BY <1>0, <5>1, DeadIs
        <5>3. QED
          BY <1>1, <2>6, <5>2 DEF Dies
      <4>4. QED
        BY <4>1, <4>2, <4>3
    <3>2. CASE Dup(p) /\ Peered(p) # Free
      <4>1. /\ With(p, Lowest(p), Peered(p)) /\ proc'[p].ear = Lowest(p)
        BY <1>0, <3>2, DupIs
      <4>2. Peered(p) \in Nat /\ Lowest(p) \in Numbers
        BY <1>0, <3>2, PeeredType, OpensOne, <4>1
      <4>3. files'[p][Lowest(p)] = Peered(p)
        BY <1>0, <4>1, <4>2, WithIs
      <4>4. proc[p].peer = Me(q) /\ proc[p].fd = proc[q].bell
        BY <1>0, <2>1, <2>3, <2>6, <3>1, <3>2 DEF Hearing, Dup, OwnerOf
      <4>5. Peered(p) = File(q, proc[q].bell)
        BY <4>4 DEF Peered, Live, Me
      <4>6. File(p, proc[p].ear)' = Peered(p)
        BY <1>1, <2>6, <4>1, <4>3 DEF File
      <4>7. QED
        BY <2>1, <2>2, <2>6, <4>5, <4>6 DEF OwnerOf
    <3>3. CASE ~ (Dup(p) /\ Peered(p) # Free)
      <4>1. proc'[p].ear = proc[p].ear
        <5>1. CASE Start(p)
          BY <1>0, <5>1, StartIs DEF SameEars
        <5>2. CASE Put(p)
          BY <1>0, <3>1, <5>2, PutIs DEF Dying, Moves, SameEars
        <5>3. CASE CreateObject(p)
          BY <1>0, <5>3, CreateIs DEF Moves, Fails, SameEars
        <5>4. CASE MakerStep(p)
          BY <1>0, <5>4, MakingIs, StoreSlotIs DEF MakerStep, Moves, SameEars
        <5>5. CASE OpenObject(p)
          BY <1>0, <5>5, OpenIs DEF Moves, Fails, SameEars
        <5>6. CASE Stat(p) \/ MapOpen(p) \/ Check(p)
          BY <1>0, <5>6, StatIs, MapOpenIs, CheckIs DEF Moves, Fails, SameEars
        <5>7. CASE Dup(p)
          BY <1>0, <3>3, <5>7, DupIs DEF Moves, SameEars
        <5>8. CASE Close(p)
          BY <1>0, <5>8, CloseIs
        <5>9. QED
          BY <2>3, <3>1, <5>1, <5>2, <5>3, <5>4, <5>5, <5>6, <5>7, <5>8 DEF StepOf, MakerStep, Dying
      <4>2. /\ steady[p] /\ proc[p].ear # Closed
            /\ Held(p, proc[p].ear) /\ proc[p].ear # proc[p].bell
        BY <1>0, <1>1, <2>3, <2>6, <3>1, <4>1 DEF Descried
      <4>3. files'[p][proc[p].ear] = files[p][proc[p].ear]
        BY <3>1, <4>2, HeldStays
      <4>4. QED
        BY <2>1, <2>4, <2>6, <4>1, <4>2, <4>3 DEF OwnerOf
    <3>4. QED
      BY <3>2, <3>3
  <2>7. QED
    BY <2>5, <2>6
<1>2. QED
  BY <1>1 DEF HearsOwner

-----------------------------------------------------------------------------
(* The invariant, and what follows from it.                                *)
LEMMA LifeInvInit == LifecycleInit => LifeInv
<1> SUFFICES ASSUME LifecycleInit
             PROVE  LifeInv
  OBVIOUS
<1>0. /\ obj = NoStore /\ rings = 0 /\ left \in Limits /\ kills = Kills
      /\ \A p \in Procs : proc[p] = Down /\ files[p] = [n \in Numbers |-> Free] /\ ~ steady[p]
  BY DEF LifecycleInit, Unsettled
<1>1. LifeTypeOK
  <2>1. NoStore \in Object
    <3>1. [s \in 1 .. Slots |-> "zero"] \in [1 .. Slots -> {"zero", "empty", "key", "wrecked"}]
      OBVIOUS
    <3>2. 0 \in 0 .. Slots
      BY LifecycleAssumption
    <3>3. QED
      BY <3>1, <3>2, NothingTypes DEF NoStore, Object
  <2>2. Down \in Process
    <3>1. 0 \in 0 .. Slots + 1 /\ "idle" \in Places
      BY LifecycleAssumption DEF Places
    <3>2. QED
      BY <3>1, NothingTypes DEF Down, Process
  <2>3. proc \in [Procs -> Process]
    BY <2>2 DEF LifecycleInit
  <2>4. files \in [Procs -> [Numbers -> Nat]]
    BY DEF LifecycleInit, Free
  <2>5. QED
    BY <1>0, <2>1, <2>3, <2>4, LifecycleAssumption DEF LifecycleInit, Unsettled, LifeTypeOK
<1>2. Doing /\ OneMaker /\ Attaching
  BY <1>0 DEF Down, Doing, OneMaker, Attaching, Making, MakerPlaces, OpenPlaces, CallPlaces, Bus
<1>3. Stored /\ PutsKept
  BY <1>0 DEF Down, NoStore, Stored, PutsKept
<1>4. Descried
  <2>1. ASSUME NEW p \in Procs
        PROVE  Used(p) = {} /\ ~ Owed(p) /\ left[p] \in 0 .. Most /\ proc[p] = Down
    <3>1. proc[p] = Down /\ \A n \in Numbers : files[p][n] = Free
      BY <1>0, <2>1
    <3>2. Used(p) = {}
      BY <3>1 DEF Used
    <3>3. ~ Owed(p)
      BY <3>1 DEF Owed, Down
    <3>4. left[p] \in 0 .. Most
      BY <1>0, <2>1, LifecycleAssumption
    <3>5. QED
      BY <3>1, <3>2, <3>3, <3>4
  <2>2. Cardinality({}) = 0 /\ Most \in Nat
    BY FS_EmptySet, LifecycleAssumption
  <2>3. QED
    BY <2>1, <2>2 DEF Descried, Down
<1>5. Hearing /\ HearsOwner
  BY <1>0 DEF Hearing, HearsOwner, Down
<1>6. QED
  BY <1>1, <1>2, <1>3, <1>4, <1>5 DEF LifeInv

LEMMA LifeInvKept == LifeInv /\ [LifecycleNext]_lifeVars => LifeInv'
<1>1. ASSUME LifeInv, LifecycleNext
      PROVE  LifeInv'
  <2>1. PICK p \in Procs : StepOf(p)
    BY <1>1 DEF LifecycleNext, StepOf
  <2>2. LifeTypeOK /\ Descried /\ OneMaker
    BY <1>1 DEF LifeInv
  <2>3. LifeTypeOK' /\ Doing' /\ OneMaker' /\ Stored' /\ Attaching'
    BY <1>1, <2>1, <2>2, TypesKept, DoingKept, OneMakerKept, StoredKept, AttachingKept DEF LifeInv
  <2>4. Descried' /\ Hearing' /\ PutsKept' /\ HearsOwner'
    BY <1>1, <2>1, DescriedKept, HearingKept, PutsStay, HearsOwnerKept
  <2>5. QED
    BY <2>3, <2>4 DEF LifeInv
<1>2. ASSUME LifeInv, UNCHANGED lifeVars
      PROVE  LifeInv'
  <2>1. /\ obj' = obj /\ proc' = proc /\ files' = files /\ rings' = rings
        /\ left' = left /\ kills' = kills /\ steady' = steady
    BY <1>2 DEF lifeVars
  <2>2. LifeTypeOK' /\ Doing' /\ OneMaker' /\ Stored' /\ Attaching'
    BY <1>2, <2>1 DEF LifeInv, LifeTypeOK, Doing, OneMaker, Making, Stored, Whole, Attaching
  <2>3. Standing' = Standing
    BY <2>1 DEF Standing, Live, Me
  <2>4. Descried'
    BY <1>2, <2>1 DEF LifeInv, Descried, Held, Used, Owed
  <2>5. Hearing' /\ PutsKept' /\ HearsOwner'
    BY <1>2, <2>1, <2>3 DEF LifeInv, Hearing, PutsKept, HearsOwner, File, Me
  <2>6. QED
    BY <2>2, <2>4, <2>5 DEF LifeInv
<1>3. QED
  BY <1>1, <1>2

(* A key put in a store by a process that made it, or opened it whole, is  *)
(* never wiped by a process that makes the store again: splinter_create's  *)
(* O_EXCL lets one process through, whatever is killed between its steps.  *)
THEOREM NeverMadeTwice == LifecycleSpec => []PutsKept
<1>1. LifeInv => PutsKept
  BY DEF LifeInv
<1>2. QED
  BY <1>1, LifeInvInit, LifeInvKept, PTL DEF LifecycleSpec

(* A call that may open the store, begun once it was whole, attaches, and  *)
(* whoever made the store or attached to it whole has splinter.c's arena   *)
(* after the slots.                                                        *)
THEOREM WholeStoresOpen == LifecycleSpec => []AttachTrue
<1>1. LifeInv => AttachTrue
  BY DEF LifeInv, Attaching, AttachTrue, Idle, OpenPlaces
<1>2. QED
  BY <1>1, LifeInvInit, LifeInvKept, PTL DEF LifecycleSpec

(* A consumer whose splinter_event_bus_open found the owner standing by    *)
(* hears the eventfd the owner writes to for as long as the owner stands,  *)
(* whatever numbers the processes in between closed, opened or died with.  *)
THEOREM RingsReachConsumers == LifecycleSpec => []HearsOwner
<1>1. LifeInv => HearsOwner
  BY DEF LifeInv
<1>2. QED
  BY <1>1, LifeInvInit, LifeInvKept, PTL DEF LifecycleSpec

=============================================================================
