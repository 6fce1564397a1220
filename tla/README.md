# A TLA+ verification project for libsplinter

libsplinter is a key/value and vector store in shared memory. There is no server: every process
maps the same region and calls the library, and all coordination happens through atomics in that
region. This directory holds TLA+ models of that coordination, of the daemons and commands built
on it, the TLC instances that check them and the TLAPS proofs about them. `PROJECT.json` ties
every definition to the lines it models and lists the hazards and the properties about them.

    tlasany MCSlotStore.tla
    tlc -workers 2 -config locked.cfg MCSlotStore
    tlapm SlotStoreProofs.tla

## 1. The system

| Component | Source | State | Operations | Modules |
|---|---|---|---|---|
| Slot table | `splinter.c`, `splinter.h` | per slot: hash, key, epoch (the seqlock), val_off/val_len, embedding, watcher_mask, bloom, type, ctime/atime, user flag; header: epoch, 64 signal counters, bloom_watches | set, get, append, unset, list, poll, snapshot, set/get_embedding, bump, retrain, purge, labels, watches, pulse_keygroup | `SlotStore`, `AtomicSlots` |
| Event bus | `splinter.c` 60-85, 1018-1050, 1110-1186 | 1024-bit dirty mask, owner pid and fd in the header; an eventfd; per process g_event_fd and the stripe | init, open, wait, close, get_dirty, take_dirty, and the writers' notify | `EventBus`, `StoreLifecycle` |
| Shard bid table | `splinter.c` 1255-1546 | 32 bids: shard_id, pid, intent, priority, duration, claimed_at | claim, claim_ex, rebid, release, election, is_sovereign, snapshot, madvise | `ShardTable` |
| Value arena | `splinter.c` 310-334, 701-813, 1190-1200 | mop, type flags, val_brk, val_off, the bytes | set_mop, set_named_type (promotion), integer_op, set_as_system | `ValueArena` |
| Store life cycle | `splinter.c` 126-309, 354-359, 1110-1161 | the shared object, each process's mapping and descriptors | create, open, create_or_open, open_or_create, close; the bus's init, open and close | `StoreLifecycle` |
| Embedding daemon | `splinference.cpp` | processed_epochs by key, last_signal_count | backfill, baseline, main loop, process_key with the marker of long texts and the write-once gate | `EmbedSidecar` |
| Completion daemon | `splainference.cpp` | labels WAITING/SERVICING/READY, the model's memory | backlog, main loop, process_completion | `CompletionDaemon` |
| Lane stress harness | `splinter_chi_sao.c` | one key range per writer thread, counters | populate, deal lanes, start threads, write own lane, read all, stop, join | `LaneHarness` |
| Commands that are several calls | `splinter_cli_cmd_*.c`, tandem keys of `splinter.c` 958-976 | a command's locals, the terminal | ingest, search, list, export, watch, unset -r, orders | `KeyCommands` |
| Resource monitor | `sidecar.c` | a terminal display of CPU, memory and load, and of the keys labelled for debugging | watch, enumerate, draw | not modelled |
| Session, parsing, one-call commands | the rest of `splinter_cli_*.c` | the open store, a history | one library call per command; Lua and WASM interpreters | not modelled |
| Tests, bindings, vendored code | `splinter_test.c`, `splinter_stress.c`, `bindings/`, `3rdparty/` | | | read, not modelled |

**How they interact.** A *writer* finds the slot of a key by linear probing from `hash % slots`,
CASes its epoch from even to odd, changes it, and increments the epoch to even. It then
*publishes*: it adds 1 to the counter of every signal group that watches the slot (by
watcher_mask, or by a label that routes there), advances `H->epoch`, and, in the process that
armed the bus, sets a bit of the dirty mask and rings the eventfd. A *reader* loads the epoch,
copies, and loads it again. A *daemon* sleeps until the counter of its group moves, scans the
keys it serves, reads their values in place, computes for long, and writes the result back with
the ordinary calls; labels on the slot tell the client how far it is. A *bus consumer* blocks on
the eventfd, collects the mask and revisits the slots of the stripes it names. `unset` and
`retrain` store epochs outright, without taking the seqlock; `set_as_system` stores the type and
the length without it. *Shards* bid in a table of the header that everyone reads field by field
and elect a sovereign each for itself; `madvise` waits to be it, and meanwhile on the bus's
eventfd. A *command* strings several calls together, with anything between them.

**What is hard.** Each call is a sequence of independent atomic accesses, and every other
process may be between any two of its own: a slot is chosen by a hash loaded before the CAS; a
value is copied while it is replaced; the probe chain changes while it is walked; a counter
moves while it is scanned for; a bid expires while it is weighed; an eventfd is drained by
somebody else, and its number outlives its owner. A process may be killed with a slot locked or
a store half made, in memory that outlives it. `PROJECT.json` lists these hazards by line.

**What makes each part correct.** *Slot table*: at most one writer in a slot, and an odd epoch
exactly while there is one; a read that returns 0 is whole and current; calls take effect at one
moment; the table is a map, one slot per key, set stores and unset deletes; calls return. *Bus*:
no bit outside the mask, no lost ring, no lost change, and a consumer listens to the owner's
ring. *Shard table*: a record is its owner's alone; an election is a function of the table when
it stands still, and a DONTNEED never beats a live protective bid; a wait ends. *Arena*: a value
changes only by the calls on its own key. *Life cycle*: nobody works on geometry that is not the
store's, and what was put stays. *Embedding daemon*: a key counts as processed only with the
vector of the value it holds, every stored value is served in the end, and WAITING is cleared
only where the daemon has embedded something in that pass (not only for the deposit it then
meets: the `OwnDepositServed` row). *Completion daemon*: an answered slot holds one exchange, and every
question is answered. *Commands*: metadata never announces chunks that are missing or older; a list
shows once what stood throughout and nobody set; a search is never given another text's vector.

## 2. The modules

| Module | Content |
|---|---|
| `SlotStore` | the slot table: state, one action per atomic step, `Next`, `Spec`, `FairSpec` |
| `SlotStoreProps` | its type invariant, safety, action and liveness properties, and the parts of its inductive invariant |
| `AtomicSlots` | the abstract specification: a slot is a register, every call takes effect in one step |
| `SlotRegisters` | the refinement mapping from `SlotStore` to `AtomicSlots` and the property `Linearizable` |
| `SlotStoreProofs` | TLAPS proofs about `SlotStore`, that it implements `AtomicSlots`, and that a get returns what was written for its key |
| `LaneHarness`, `LaneHarnessProofs` | `splinter_chi_sao.c`, composed with `SlotStore` as its processes' callers; TLAPS proofs about the composition |
| `EmbedSidecar`, `EmbedSidecarProofs` | the embedding daemon beside clients, composed with `SlotStore` by sharing its variables and making calls as one of its processes; TLAPS proofs about the composition |
| `EventBus`, `EventBusProofs` | consumers of the bus, composed with the writers of `SlotStore`; TLAPS proofs about the composition |
| `ShardTable`, `ShardTableProofs` | the bid table, field by field, with clocks and kills; TLAPS proofs about it |
| `StoreLifecycle`, `StoreLifecycleProofs` | the shared object from its making to its closing, descriptors included; TLAPS proofs about it |
| `ValueArena` | the bytes of the arena under set, promotion and integer_op |
| `CompletionDaemon`, `CompletionDaemonProofs` | the completion daemon and its clients; TLAPS proofs about them |
| `KeyCommands`, `KeyCommandsProofs` | commands as sequences of library calls; TLAPS proofs about them |
| `MC...` | the instances of each for TLC |

### SlotStore

`S[s]` is `struct splinter_slot`, `H` the part of the header that calls change. `pc[p]`,
`call[p]` are the position and the C locals of the call that process `p` is in; `ret[p]` is what
its last call returned, `left[p]` how many it may still make.

The operations share their code paths the way the functions share their code: `Begin` is the
call, `ProbeHit / ProbeNext / ProbeEnd` the loop over the chain, `LoadOdd / LoadEven` the first
epoch load, `CasWin / CasLose` the compare-and-swap, then one group of actions per function
(`SetScrub, SetFill, SetBlank, SetLink`; `AppendRoom, AppendTooLong, AppendExtend`; `SetEmbFirst,
SetEmbSecond`; `PurgeSweep`; `BumpPulse`), `CloseSlot` the increment back to even, and `Pulse,
GlobalEpoch, NotifySkip, NotifyDirty, NotifyBell` the publication. Readers are `ReadLen,
ReadCopy, ReadVerify`, `SnapStart, SnapOdd, SnapEnd`, `PollClock, PollMoved, PollTimeout`;
`Unset…` and `Retrain…` the two operations that store epochs; `SetLabel, UnsetLabel,
PulseKeygroup, WatchRegister, WatchUnregister` those outside the seqlock. `Kill` ends a process
anywhere inside a call.

The control flow that differs between functions is kept where it is decided: set and purge go
on to the next slot when one is contended and the others return EAGAIN (`GiveUpSlot`); set and
append use the weak CAS (`SpuriousCAS`: it may fail although the epoch has not moved); bump pulses inside the seqlock; a failed append and a
bump return without publishing; unset routes its pulse by masks captured before the reset;
snapshot's `continue` meets the loop's condition (`SnapOdd`).

Abstractions, all in the data:

- A value is `MaxLen` cells and an embedding two halves, each copied piece by piece; a piece
  is the version `<<key, caller, calls the caller had left>>` that wrote it, or `Zero`.
- A key stands for its 64-bit hash as well; distinct keys do not collide in 64 bits, and the
  hash load and the `strncmp` of a probe are one step. Two keys collide in `Home`, the index.
  `hash` and `key` of a slot are two variables all the same: a set over a standing key wipes the
  name (`SetBlank`, line 467) while the hash stays published, and a lookup in between finds
  nothing, which get returns as a plain miss. The `strncpy` that brings the name back and the store
  of the hash are one step (`SetLink`).
- Memory is sequentially consistent. The loads that `unset` makes of the masks and the length
  are one step with its store of the hash; the scrub of a set is one step with its first cell;
  label and retrain calls advance `H->epoch` in the step of their last slot access.
- The up to 128 counter increments of one pulse are one step; a daemon watches one group, and the
  groups' counters are not compared with each other.
- Each slot owns its region of the arena (`val_off` is constant) and the scrub mode `Mop` is a
  constant (`ValueArena` has both as state); type flags, slot times and user flags are left out.
  NULL arguments, lengths beyond `max_val_sz`, short output buffers and the bounds check of
  `val_off` are not exercised.
- A label routes to at most one group and the routing is constant.

### AtomicSlots and SlotRegisters

`AtomicSlots` is what a caller may believe: one register per slot, and between call and return
one step that reads or writes it, or none where the call gives up. `SlotRegisters` maps the
epochs, probes and copies to it. A write is placed at its `CasWin` and a read at its
`ReadVerify`; while the slot is odd the register already is what the writer will leave, which
can be computed from what it has done so far, because redoing a piece of a write changes
nothing. So the mapping needs neither history nor prophecy. It leaves out unset and retrain,
which store epochs under other calls, and writers killed inside, whose half-done write stays.

### LaneHarness

`t[p]` is where a thread of the harness is, the index of its key and its errno; `running` is the
flag the threads look at. `Seed, Seeded` are prepopulate, `Lane` the partition of the keys,
`Create, Stop, Join` the main thread, `Write1, Written` writer_main, `Sample, Retry, Read1,
Leave` reader_main with its retries on EAGAIN; errno keeps EAGAIN over a get that misses, as in
the code. The library calls are those of `SlotStore`, step by step: a reader may miss a key that
stands, in the window of `SetBlank`, and then goes on to the next one. The reader's `observed` array
is allocated in the code and never used; here it holds what its name says, and `ReadsAdvance`
is about it: what a get returns is whole, of its key and never older than what this reader was
given before, and a get passes over the slot of its key only while the slot's epoch is odd. The counters, their report and failures of malloc and pthread_create are left out.

### EmbedSidecar

`sc` holds the daemon's locals, `processed` is `processed_epochs`, and `vectors` remembers, for
each vector written, the text it was computed from. The code's `keys[i]` points into the slot, whose
name may be wiped or another's later; the daemon here holds the name it read from there. One action per load: `Backfill,
BackfillDone` (a backfill goes through the texts without a vector and keeps no record of it),
`Baseline, Listen` (start-up), `Notice, List, PassOver, Take, EndScan` (the loop), `ReadEpoch,
RawPtr, Tokenize, Decode, Commit, Processed / Failed` (process_key), `Unlabel, PulseLane,
NextKey`. `Tokenize` reads one cell of the live value per step, through the pointer, while
clients write. A text of `ceiling` cells or more gets the diagnostic, the code's four calls in
their order: the vector of zeros, the value, the label, the bump. In vector-training the
daemon looks at the vector by a `get_embedding` before it writes. The daemon's calls are calls of
`SlotStore`, step by step; `splinter_get_epoch` and the checks of `splinter_get_raw_ptr` are one
step each; the snapshot taken for the baseline waits for an even epoch and is one step.
`processed` records what splinter_get_epoch returned; 0, a key that is gone, counts as failed.
Not modelled: shard bids, slot times, the one-shot mode, SIGINT, the cap on the number of keys.

### EventBus

`con[c]` is what a consumer has in its hands, `seen` what the consumers together last saw of
each slot. `Wake, Drain, Again` are `splinter_event_bus_wait` (poll, read, EAGAIN); a timeout is
a re-arm and needs no action. `TakeWord` exchanges one word of the mask with 0 and `PeekWord`
only loads it. `Rescan` / `Compare`, `Visit` and `Rearm` are the caller, external code, modelled
from the comments on those functions: bits to slots, then a stable read of each slot. The stripe
is the rounded-up quotient of slots by bits, as an assumption that the proofs use.

### ShardTable

`bid` is the table, `clock` the time stamp counter, `m[p]` a call's locals. One step is one load
or store of one field, or a reading of the clock; only the claim of an empty record is a CAS.
`StoreOrder`, `LookOrder`, `WeighOrder` are the orders in which claim, rebid and release store
fields and the two passes of the election load them. Elapsed time is taken modulo `Span`, as the
unsigned difference is. `madvise` is an election, a look at the deadline, a wait on the
eventfd, and again. `due` remembers the bid a process's last completed calls leave; `same` which
records were not stored to during an election.

### StoreLifecycle

`obj` is the shared object: its size, which header stores have been made, its keys and the bus's
fields; `proc` a process's globals and the call it is in; `files` its descriptors, the lowest free
number first, because the bus hands a number and a pid to other processes. `splinter_create`
stores its first fields in any order (plain stores) and the rest after them, computes g_arena
before and after; `map_fd` checks size, magic and version and then takes the geometry. O_EXCL and
O_TRUNC are what they are in the code. The bus's `init` stores pid and fd in two steps, `open`
reads them and duplicates the descriptor, `close` resets them. A process may be killed anywhere.

### ValueArena

`mem` is the bytes of the arena and the `Spare` ones behind it, because val_sz counts header and
slots as well; `slot` is epoch, val_off, val_len and type of each key, `brk` val_brk, `own` what
the completed calls on a key have made of its value. `set`, `set_named_type` with its promotion
(parse the numerals, take eight bytes at val_brk, move), `integer_op`, `set_as_system` and
`set_mop` are one step per load, store or read-modify-write; a value is copied in one step.

### CompletionDaemon

`val[k]` is what a slot begins with and the tokens behind it, `bloom[k]` its labels, `count` the
group's counter, `cl[k]` a client that sets a question, labels it, waits and reads. `d` is the
daemon: `Start, Enumerate, NextKey, PassDone, Poll` its loop, the rest process_completion call
by call with the flush of tokens by append and its arithmetic modulo 2^64 (`Remaining`). A
library call of the daemon is one step; a client's set and bump are two, so that the daemon
meets odd epochs. The model is an oracle: a token is the set of questions in its memory and its
place. A prompt that fails to decode is not cleared from the memory (`splainference.cpp` 286-293), whole,
in part or not at all; `refused` remembers which questions those were. Where a prompt was too long for
the slot, `remaining` wraps and the copy of the last chunk runs off its end: the daemon dies
in the slot (`Overruns`). `Stop` is SIGTERM, `Kill` SIGKILL, after which the daemon starts again.

### KeyCommands

`tab` is the slots, `m[p]` the command a process runs, with one action per function: `Chunk,
Metadata` (ingest), `Query, SearchPoll, SearchFetch, NoVector, Score, Cleanup` (search),
`Collect, RowStep, RowCopy, RowCheck, ValueStep, Exported` (list and export), `WatchPoll,
WatchFetch, Leave`, `Unset, Disorder`. A library call is one step, but for those in which
something can be seen from outside: a set locks a slot and wipes its name (`SetOpen`, `hid`), and links
and opens it (`SetLink`), and may be killed in between; list looks at a slot a step; a snapshot
matches a key, copies the slot it found, which may have another key by then, and checks the epoch,
and leaves its loop with a mixture where it meets an odd one (`RowCheck`). `Hold / Release` is
another client's call on any slot that leaves its text alone, a purge included; `Embed…` is the
embedding daemon, with the vector of zeros, the diagnostic and the bump that it leaves for a text too long
(`Stamp…`). `gen` is the version of a text, so that a chunk of an older document can be told.

Abstractions: the probe and the CAS of a call are one step, and a weak CAS does not fail for nothing
(`SlotStore` has both); the daemon may take up any key whose vector is not its text's; the label
of the diagnostic is not kept; `RowStep` tests the pointer and matches the key at one
moment. The search's filters, its enumeration by label, output formats and the watch of a signal group are
left out.

## 3. The runs

`CHECK_DEADLOCK FALSE` is set everywhere because processes are free to stop calling, and every
instance stops when its budget of calls is used up.

| Run | Question | Instance | Distinct states |
|---|---|---|---|
| `locked` | Is there ever more than one writer in a slot, or an overlong value? Does every call take effect at one moment (`Linearizable`: `SlotStore` implements `AtomicSlots`)? | 1 slot, 3 processes: every operation that takes the seqlock, two lengths, spurious CAS failures, a reader, label calls beside them | 457,375 |
| `lanes` | Does `splinter_chi_sao.c` keep its word: no write meets another, no key in two slots, no reader is given a mixture or goes back to an older value? | main thread, 2 writers with one and two keys, a reader; 3 keys on one chain of 4 slots | 1,093,909 |
| `quiet` | If unset and retrain are called while the library is otherwise idle, is the table a map, with a writer that may be killed anywhere? Does `IInv` hold? | 2 slots, 2 keys with homes of their own, 3 processes | 195,021 |
| `returns` | Does every call return, and leave no slot locked? | 2 slots, every operation but unset and retrain: set/purge, poll/snapshot/setemb, and append, bump, labels and watches of the process that armed the bus, at once, under `FairSpec` | 53,115 |
| `deposits` | Does the daemon serve every deposit and never mark a stale vector as done? | 2 clients with one call each beside the daemon, one key; the daemon started by default, after a backfill, in vector-training, and with every text too long and one client | 137,856 |
| `rings` | Does the bus lose a ring or a change? | 2 armed writers, 2 consumers, 3 slots on 2 stripes in 2 words | 24,506 |
| `shards` | Who is sovereign while bids come, go, expire and are half written? Does a madvise return? | 3 records, 4 shards, one of which may be killed; 6 tables to begin with | 144,638 |
| `completes` | What does the key of a question hold, and is every question answered, across a stop and a kill? | 2 keys, up to 2 questions each, values of 5 tokens, a model that may fail anywhere | 578,810 |
| `opens` | What can be seen of a store that is half made, made twice, closed and opened again? | owner, rival and consumer with up to 4 calls each, one kill | 1,670,581 |
| `counts` | Does a value change by any call but those on its key? | 3 keys, values of 4 bytes, words of 2, two calls each; the break in a free word, at the end of the arena and at the end of what val_sz counts | 2,543,386 |
| `commands` | Do commands of several calls keep their order beside others? | 4 slots, 5 scenes of up to 3 processes: kills inside a set, a busy slot or a purge, texts too long for the daemon | 907,440 |
| `trained` | Is a vector written once in vector-training? (It is not.) | `deposits`, vector-training alone | |

Bounds. `Budget` bounds the calls of a process, `Slots`, `MaxLen`, `Keys`, `Procs` the rest.
One slot and three processes are enough for the seqlock, since slots do not share state below
the header and a conflict involves two writers and a witness. Two cells are the least that can
be torn; two lengths make append overflow. A probe chain of two keys and a hole shows every
effect of probing that depends on order; the lanes have three keys so that the last writer takes
the remainder, and a free slot that a wrong probe would take. In `rings`, slots 0 and 1 share a
stripe and slot 2 lies in another word, so that a consumer may be between words while writers set
bits before and behind it. In `deposits` the daemon's budget of 20 calls is never used up: four
client-visible changes can make it process the key at most that often. In `shards` two records
are the least that an election weighs and the third the one it meets half stored; `Horizon` 3
lets a bid of duration 1 or 2 expire in any phase of a call, and `Span` 16 is past every
difference but the negative ones, which wrap. In `completes` a slot of five tokens is filled by a
prompt, a full flush and a partial one. In `opens`, `Limits` trades a long owner against a long
rival, since the product of all three long does not finish. In `counts` the arithmetic is modulo
3^2 instead of 2^64. In `commands` a scene has the commands that share keys and nothing else: a second ingest into a full
table whose slots others hold; ingests and removals beside a list and an export; tandem keys set and
removed beside a list and a watch; two searches, one of them too long for the model; a search that a
purge may meet, and a list. The
proofs remove the bounds where they apply.

Fairness. `FairSpec`: a process inside the library is scheduled (WF of its `Step`); nothing
makes it call, and the fairness is not stated of `Kill`. WF of the whole step suffices, since
the only step that may repeat without progress, a snapshot's retry, needs another writer's
progress each time. poll's clock is a step of the process, so that time passes. `SidecarFair`
and `CompletionFair` add the daemon's process (started again when it was stopped), `BusFair` the
consumers', `ShardFair` the clock: they are loops of ordinary threads, which the kernel
schedules. A client that has begun a question goes on with it. No fairness is claimed for which of
two contenders wins a CAS, and none of a command or an opener, whose runs have no liveness property.

The passing runs name their regime. Only in `locked` may a weak CAS fail although the epoch has not
moved (`SpuriousCAS`); the others suppose that it does not, as on x86-64, where it is one locked
instruction (with load and store exclusives it may: the row for `lanes` below). `locked`, `lanes` and
`returns` call neither unset nor retrain; `quiet` and `rings` call them alone (`Quiet`); `deposits` lets clients call once the
daemon listens, and they call neither purge, bump, retrain nor append; in `completes` clients ask
once the daemon has served its backlog, wait for the answer, and clear READY; in `opens`,
`PutsKept` and `AttachTrue` are about calls begun on a whole store; in `counts` set_named_type
meets keys beside which the arena is free, and set_as_system is called on
a key that only its caller uses. The regime is a
constant of the specification and an assumption of the theorems, never a change to an action.
What happens outside it is the next section.

### Disagreements between code and documentation

`trained` ends in a counterexample: the write-once gate of `--vector-training` is a
`splinter_get_embedding` (`splinference.cpp` 265) and the write a `splinter_set_embedding` of its
own (271). A vector stored between the two is overwritten, and so is one whose store makes the
get fail with EAGAIN, against the comment at `splinference.cpp` 54-56.

The others are shown by TLC under the settings below and are not kept as runs. Start from the
configuration named, replace only the constants listed and check the one property. In the rows
marked *one slot* replace also `Procs = {p1, p2}`, `Keys = {k1}`, `Slots = 1`, `Home <- OneKey`,
`Layout <- Full1`, `Lens <- LensB`, `Quiet = {}`, `Mortal = {}`; in those marked *two slots*
`Procs = {p1, p2}`, `Lens <- LensB`, `Quiet = {}`, `Mortal = {}`.

| Start from | Settings | Property | What the code does |
|---|---|---|---|
| `quiet`, two slots | `Procs = {p1}`, `Home <- Collide`, `Layout <- Lanes2`, `Calls <- HoleCalls`, `Budget <- HoleBudget` | `UnsetForgets` | set takes the first empty slot of the chain without looking further for the key; after an unset earlier in the chain the key is stored twice, and unset uncovers the old value |
| `quiet`, two slots | `Home <- Collide`, `Layout <- Empty2`, `Calls <- RaceCalls`, `Budget <- Once` | `LaneHolds` | after its CAS set does not look at the hash again: two sets of new keys take the same slot and both return 0 |
| `quiet`, two slots | `Keys = {k1}`, `Home <- OneKey`, `Calls <- BusyCalls`, `Budget <- Once` | `SetLands` | a set whose slot is held by another writer takes the next empty slot and returns 0; lookups still reach the old one |
| `quiet`, one slot | `Calls <- AbaCalls`, `Budget <- Twice` | `ReadExact` | retrain stores epoch 4, which may be the epoch a reader began with: a torn vector passes the check |
| `quiet`, one slot | `Calls <- SnapCalls`, `Budget <- Once` | `SnapshotExact` | `continue` on an odd epoch evaluates the loop's condition with the end of the pass before, and may leave the loop with the torn copy |
| `quiet`, one slot | `Calls <- PollCalls`, `Budget <- Once`, `Mortal = {p1}`, `FairSpec` | `PollReturns` | poll looks at its deadline only under an even epoch; after a writer is killed it never returns |
| `quiet`, one slot | `Calls <- UnsetCalls`, `Budget <- Once`, `Lens <- LensA` | `NoStuckSlot` | unset rewinds the epoch under an append, whose increment leaves it odd for good |
| `quiet`, one slot | `Keys = {k1, k2}`, `Home <- Collide`, `Calls <- KeyedCalls`, `Budget <- Twice` | `ReadKeyed` | get matches the key before it loads the epoch; the slot may be another key's by then |
| `quiet`, one slot | `Calls <- PurgeCalls`, `Budget <- Once` | `PurgeSilent` | a purge moves every epoch by 2, which poll reports as a change |
| `rings` | `PeekFair`, `Consumers = {c1}`, `Calls <- SetCalls`, `Budget <- Twice`, `Quiet = {}` | `Informed` | get_dirty never clears a bit and writers only OR, so the second change of a stripe looks like the first to a consumer that diffs masks, as the header advises |
| `rings` | `Consumers = {c1}`, `Calls <- SetCalls`, `Armed = {p1}` | `Informed` | a write of a process that did not arm the bus neither sets a bit nor rings |
| `lanes` | `SpuriousCAS = TRUE` | `OneSlotPerKey`, `LanesHold`, `ReadsAdvance` | a weak CAS that fails for nothing makes set pass over its key's slot and take the next free one, or fail (`splinter.c` 431; against "zero by construction" in `splinter_chi_sao.c`) |
| `deposits` | `Modes <- Plain`, `Calls <- AgainCalls`, `Budget <- TwoEach` | `OwnDepositServed` | process_key looks at the epoch for the last time at line 282 and main clears WAITING at 545: a client that deposits again between the two loses its label while the slot carries the old value's vector, against the comments at `splinference.cpp` 75-80 and 539-545, by which the cleared label is the "authoritative "THIS deposit was serviced" signal". The next pass embeds the new value all the same (`Served`) |
| `deposits` | `Modes <- Plain`, `Calls <- BumpCalls` | `BumpWakes` | bump pulses before the epoch is even: the daemon finds the key busy, skips it, and counts the pulse as seen |
| `deposits` | `Modes <- Plain`, `Calls <- SweepCalls` | `Served` | a purge passes while the daemon is on the key: the deposit is dropped, and purge pulses nobody |
| `deposits` | `Modes <- Plain`, `Calls <- RetrainCalls`, `Budget <- TwoEach` | `Served` | retrain moves the epoch below the processed one: the zeroed vector is not computed again |
| `deposits` | `Modes <- Early`; `Modes <- Filling` | `Served`, `DoneIsCurrent` | clients deposit while the daemon starts: a pulse between the baseline and the first read of the counter is lost, and a value stored between a backfill's vector and the baseline counts as processed |
| `deposits` | `Modes <- TooLong` | `DoneIsCurrent`, `Served`, `WaitingCleared`, `MarkerWhole`, `MarkerStays` | with two clients the four calls of the diagnostic interleave with theirs: the label may come upon a client's vector or value, and a value stored in between counts as processed, against the comment at `splinference.cpp` 182-183 |
| `deposits` | `Modes <- FillLong` | `MarkerStays` | a backfill keeps no record of the key it has marked, so that the next pulse makes the daemon embed its own diagnostic, whose label stays |
| `completes`, `Stops = 0`, `Kills = 0` | `Bumps = TRUE`, `BumpingFair` | `Exchange`, `WrittenTrue`, `Served` | the set of the prompt is not checked (269): if the client's bump holds the epoch odd, the completion is appended to the question; and the bump's pulse may be seen before its epoch is even |
| as before | `Early = TRUE` | `Served` | a question asked while the daemon serves its backlog is not in the list, and its pulse is taken as seen (562) |
| as before | `Clears = FALSE` | `ReadyIsFinal` | READY of the last answer still stands while the next one is written |
| as before | `Patient = FALSE` | `Exchange`, `WrittenTrue`, `ReadyIsFinal` | a question set while another is answered under the same key is mixed with the answer |
| as before | `PromptLen = 6` | `Exchange`, `WrittenTrue` | a prompt longer than the value may hold is refused by the set, `remaining` wraps (339, 369), and the copy of the last chunk runs off its end |
| `opens` | none | `ArenaAfterSlots` | an opener of a half-made store finds magic and version before the geometry and takes the arena to begin at the slots, against the comment at `splinter.c` 206-215 |
| `opens` | none | `EarIsRing` | the owner closes and opens the store again: the number in the header names the store, and splinter_event_bus_open duplicates that (`splinter.h` 142-145) |
| `counts` | `Scenes <- Plain`, `Calls <- Promoting` | `OwnCalls` | val_brk starts at 0: the first promotion takes the first eight bytes of the first slot |
| `counts` | `Scenes <- Roomy`, `Calls <- Widening` | `OwnCalls` | set_as_system takes no lock and sets a promoted key's length to its slot's, past its word |
| `commands` | none | `SearchSure`, `WatchStays`, `ListReturns` | a search whose poll fails scores with an uninitialised vector (`search.c` 313-334); a watch takes a poll's EAGAIN for the key's end; list on a full store looks for a null pointer past its array (`list.c` 99) |
| `commands` | `Scenes <- Overlong` | `IngestOrder` | a chunk too long for the model is replaced by the daemon's diagnostic, while the metadata still announces it (`splinference.cpp` 185) |
| `commands` | `Scenes <- Watching` | `TerminalBack` | a watch whose get fails leaves the terminal raw (`watch.c` 160-165) |

Read in the code and left to these models as they are, without a property of their own: a
claimer killed between its CAS and its last field leaves a record with claimed_at 0, which only
the same shard can take up again; a rebid during an election makes a live protective bid look
expired, so that a DONTNEED may win over it (`same` excludes such records from `Bumper`); a
madvise with no deadline whose own bid has expired waits for good; its wait drains the bus's
ring; a kill leaves SERVICING on a key; set_mop(2) leaves the hybrid flag on; a shorter ingest
leaves the chunks of a longer one behind its own; unset -r stops at the first failure and returns
0, orders unset passes over failures; a killed search leaves its scratch key.

### Not modelled

- *Two copies of the library.* The Rust crates carry byte-identical copies of `splinter.c` and
  `splinter.h`, a third of the repository's lines of implementation. What is said of
  `src/splinter.c` holds of them; the map names each line once.
- *The client's session.* Prompt, history, argument parsing and tokenizing, help and formatting
  keep no state that another process sees. A command that makes one library call and prints the
  result is a call of the models above. The Lua and WASM commands hand the same calls to
  an interpreter.
- *The resource monitor* (`sidecar.c`) draws a terminal and reads the store by get and
  enumerate_matches.
- *Of the slot table*: slot times and user flags (plain loads and stores under their own
  seqlock, or none), enumerate_matches (a callback per slot), watch_label_register (the routing
  is a constant here), NULL arguments.
- *Of the daemons*: loading models, templates, sampling; the one-shot modes; the shard bids they
  make (`ShardTable` has the table).
- *Of the life cycle*: umask and modes, the numa variant, the persistent path, descriptors left
  open on error paths.
- Weak memory. The code uses acquire and release where the models assume sequential consistency.

## 4. The proofs

Each theorem holds for every value of the constants (processes, keys, slots, records, calls,
lengths, words of the mask, tokens, kills); TLC has checked the same property, and the inductive
invariant under it, on the instance above. A theorem assumes the named ASSUME of its modules
(shapes of the constants, which TLC evaluates in the runs), what is said here, and nothing else.

| Theorem | Property | Assumes |
|---|---|---|
| `TypeCorrect` | `TypeOK` | |
| `InvariantHolds`, `SeqlockExclusive`, `ReadsAreExact`, `NoSlotLeftOdd` | `IInv`, `SeqlockOwner`, `ReadExact`, `NoStuckSlot` | `RewindsAreQuiet` |
| `Linearizes` | `Linearizable` | `Plain`, `Uncontended` |
| `FreeSlotKeptLinearizes` | `Linearizable` of the behaviours that keep `FreeSlotKept` | `Plain` |
| `ReadsAreKeyed` | `ReadKeyed` | `RewindsAreQuiet`, `SetsAgree` |
| `FreeSlotKeptReadsKeyed` | `ReadKeyed` of the behaviours that keep `FreeSlotKept` | `RewindsAreQuiet` |
| `KeyHasOneSlot`, `LanesKept`, `ReadersAdvance`, `HarnessLinearizes` | `OneSlotPerKey`, `LanesHold`, `ReadsAdvance`, `Linearizable` of `HarnessSpec` | `Dealt`, `StrongCAS` |
| `DoneStaysCurrent`, `WaitingMeansServed` | `DoneIsCurrent`, `WaitingCleared` of the behaviours that keep `KeysStay` | `Undisturbed` |
| `SettledKeysStay`, `SettledDone` | `KeysStay`, `DoneIsCurrent`, `WaitingCleared` | `Undisturbed`, `Settled` |
| `BitsStayInMask`, `BusTypes` | `DirtyInMask`, `BusTypeOK` | |
| `NoLostWakeup` | `DirtyRings` | `Mortal = {}` |
| `NoChangeLost` | `ChangeReported` | `RewindsAreQuiet`, `Mortal = {}`, `Procs \subseteq Armed` |
| `ShardTypes`, `OneRecordEach`, `TableIsTrue`, `ElectionsAgree`, `SoftBumper`, `NeverOutbid`, `SovereignRowsLive` | `ShardTypeOK`, `OneRecord`, `TableTrue`, `StillElection`, `Bumper`, `Outbid`, `SovereignLive` | |
| `NeverMadeTwice`, `WholeStoresOpen`, `RingsReachConsumers` | `PutsKept`, `AttachTrue`, `HearsOwner` | |
| `AnswersHold`, `WrittenIsTrue`, `ReadyStands` | `Exchange`, `WrittenTrue`, `ReadyIsFinal` | `Orderly` |
| `IngestOrdered`, `ListsTrue`, `SearchesTrue` | `IngestOrder`, `ListTrue`, `SearchTrue` of the behaviours that keep `Once` | `Sorted` |
| `SettledOnce`, `SettledCommands` | `Once`, `IngestOrder`, `ListTrue`, `SearchTrue` | `Sorted`, `Settled` of `KeyCommands` |

### The slot table (`SlotStoreProofs`)

`TypeCorrect` includes kills and racing unsets. Its core is that val_len stays within
max_val_sz: append checks it under the seqlock, but unset may reset it in between, so
`AppendExtend` stores a total computed before. The strengthening is `CallShape`: which operations
can be where, with which locals.

The other theorems assume that unset and retrain run alone (`RewindsAreQuiet`; the `AbaCalls` and
`UnsetCalls` rows above show that it is needed). The inductive invariant is `IInv == TypeOK /\
QuietAlone /\ CallShape /\ SeqlockOwner /\ ReaderExact`. `SeqlockOwner` alone is not inductive: a
CAS needs the epoch it expects to be even (`CallShape`), and a store of the epoch needs nobody
else inside (`QuietAlone`). `ReaderExact` says that a reader whose slot still has the epoch it
began with has copied, so far, what the slot holds now; it needs epochs to grow, and the content
of a slot to change only under an odd epoch. Steps are sorted into five kinds (`Sorted`): silent,
inside the lock, CAS, close, outright stores; each conjunct is shown for each kind. Kills are
included: a killed writer stays the owner of its odd epoch, and only such a one leaves a slot odd
(`NoSlotLeftOdd`).

### The slot table is a set of registers (`SlotStoreProofs`)

Every step of `SlotStore` maps to a step of `AtomicSlots` or to none. The invariant is `LinInv`:
`IInv`; that every call does what it was called for (`Regular`); that a call that found its key
stays on it (`KeyMet`); and how much of its outcome a writer has already written (`Pieces`), which
is what makes the mapped register change once, at the CAS. `Plain` leaves out the calls that store
epochs outright and killed writers. Two sets of different keys that race for one free slot both
take it (the `RaceCalls` row), and no register explains that: `FreeSlotKept` says that it does not
happen, and `Uncontended` is a condition on the constants from which it follows.

### What a get returns (`SlotStoreProofs`)

A get matches its key before it loads the epoch, so the seqlock alone does not tie the bytes to the
key. `KeyInv` adds to `IInv` that a slot with a key holds, up to its length, cells written for that
key or scrubbed ones (`SlotKeyed`); that a call that found its key stays on it (`Finds`); and that
what a writer has put into a slot it has not linked yet was written for the key it will link
(`Prepares`). Other than `Linearizes` it includes kills: a writer killed between its pieces leaves
a mixture of writes, but all of one key. It includes unset and retrain too, where they run alone.
A slot changes hands without an unset only when two sets race for it (`FreeSlotKept`), which
`SetsAgree` excludes; with an unset beside a get it may, as the `KeyedCalls` row shows.

### The lane harness (`LaneHarnessProofs`)

`Dealt` is the harness as its defaults have it: a fresh store with at least as many slots as keys,
no key twice, threads that either write or read, nobody killed; TLC evaluates it on the run's
instance. `StrongCAS` is an assumption about the build, not about the harness: `splinter_set` uses
`atomic_compare_exchange_weak`, and the theorems suppose that it fails only where the epoch has moved. So it is on
x86-64; where it is a pair of load and store exclusives it may fail for nothing, the set passes
over its key's slot and all four fail (the row for `lanes` above). The four theorems are about the table and its callers together, for every number of
threads, keys and slots and every collision of homes.

`LaneInv` says where each thread is and what it has called (`Placed`); that the table is a map
whose chains have no free slot before a key (`Tabled`); how far a call has come on its chain
(`Walks`) and what it found there (`Hits`); and that the last set of a writer still stands
(`Rests`). It needs `LinInv` beside it: at the CAS of a set nobody else is writing the slot, since
no other thread's lane has that slot's key, so that the CAS of a lane never loses and its set never
probes on past its key. Only the main thread takes free slots, so two sets never race for one
(`FreeSlotKept`), and the refinement of `AtomicSlots` holds for a table that starts empty.

`ReadsAdvance` does not say that a reader finds every key: a set wipes the name it is about to write again,
and a get that meets it then returns a miss. It says that a get passes over the slot of its key only while
that slot's epoch is odd, and what a get that succeeds is given. It needs `ReadInv` on top: a slot that
nobody writes holds one value, of a call that has begun (`Settled`), and a value a reader has been
given is not newer than what any slot still holds for its key (`Seen`). Values are ordered by their writer's call counter, and a key's writers
are the main thread and then the owner of its lane.

### The embedding daemon (`EmbedSidecarProofs`)

`Undisturbed`: no text is too long for the model, clients begin once the daemon listens and store
no epoch outright, and the table it starts on holds no key twice. The rows for `deposits` above
show what happens otherwise (`TooLong`, `Early`, `RetrainCalls`); three of the four ways in which
`deposits` starts the daemon are of this kind, the fourth, one client with texts that are too
long, is only model-checked. `SidecarInv`, over `IInv` of the slot table, says who is in which call (`Making`); that
the key in hand stands in the slot the daemon has in hand (`Found`); that what the daemon has read
through its pointer, without a lock, is what the slot holds unless the epoch has moved past what
the daemon's own write accounts for (`Untouched`, `ReadTrue`); that what it has stored is the
vector of that text, half by half (`Storing`); and that an entry of processed_epochs is no later
than its key's epoch and, where it is that epoch, the slot carries the vector (`Entered`). The last
is what makes the exact test `epoch + 2` sound: a write that races the vector makes the difference
another one, since epochs only grow.

`WaitingCleared` needs that the pass recorded an epoch past the one it began with, which `Entered` keeps
until the label is cleared. It does not say that the label was the served deposit's: that fails (the `OwnDepositServed` row).

A lookup by epoch and a write by probing need not reach the same slot: a set that takes an empty
slot hides or doubles the key, and a lookup while a set has the name wiped goes on to another copy, so
that the daemon would read one and write the other. `KeysStay` says of a behaviour that a key in the table
stays in its slot and comes into no other. `Settled` is a condition on the constants from which it
follows, by `KeptKeys`: no slot is empty, or no client calls set. TLC has checked `SidecarInv` and `KeptKeys` on
`deposits` without its long texts, and with `KeysStay` on three slots with colliding keys.

### The bus (`EventBusProofs`)

`BitsStayInMask` is the arithmetic of the rounded-up stripe (`CeilDivCovers`, `DivBelow`).
`NoLostWakeup` rests on `RingInv`, which places every bit in a word the consumer still has before
it when it has just drained; a writer killed between its bit and its ring loses the ring until the
next armed write. `NoChangeLost` needs `BusInv`: `IInv`, since a consumer's stable read must be
exact; `WriteInv`, because a writer that fails after its CAS must be one that changed nothing; and
`FreeIsEmpty`, because a set that took a free slot over, and is seen by nobody before its link,
must not leave a value behind that nobody reports. A killed writer, one that did not arm the bus
and an unset under another call each lose a change, as the rows above show.

### The bid table (`ShardTableProofs`)

No assumption: kills, expiries and every interleaving of field-wise loads and stores are in. The
invariant has three layers. `Framed`: types, and which locals are settled at which place of a
call. `Holds`: a record belongs to the shard whose id is in it, from its CAS to the store that
frees it, and what its owner has stored so far is what the bid will be. `Counting`: what the first
pass of an election has read of a record that was left alone (`same`) is what the record holds,
and the best of the second pass beats all that it has weighed. The last four properties are read
off `Counting` at the election's end.

### The life cycle (`StoreLifecycleProofs`)

No assumption. `LifeInv` says that one process makes the store, once, because of O_EXCL, and how
far it has come (`OneMaker`); that what was stored stands in the order of the code (`Stored`); and
that a call begun on a whole store is on a path that ends with the arena in its place
(`Attaching`). For `HearsOwner` it counts descriptors: a process never has more open than its calls
allow (`Descried`), so that a free number always exists, and a number that is in a consumer's hands
is the ring its owner is holding, not a later file under the same number (`Hearing`).

### The completion daemon (`CompletionDaemonProofs`)

`Orderly`: clients wait for READY, clear it when they have read, and do not bump, and a prompt fits
a value. Each clause is needed, as the rows for `completes` above show. Stops and kills at any
step, failures of the model and the number of tokens are free, and so is whether clients ask
during the backlog. `CompletionInv` says who has a key in hand: its client (`Asking`), the daemon's
list (`Queued`) or process_completion (`Serving`); the label says which, and nobody else writes. While
the daemon decodes, `Serving` relates its locals to the slot: the bytes it has counted are the
slot's length, and the chunk in its buffer goes on where the slot ends (`Joined`, `CutOff`,
`Longer`). It follows that the slot never refuses a flush, and that `remaining` never wraps
(`RemainingIs`). `Fresh` says that the model remembers nothing of an exchange that it completed:
what it has beside the question in hand is the prompts it failed to decode (`refused`), which nobody
clears, so that a token is decoded from its question and possibly from those.

### The commands (`KeyCommandsProofs`)

`Sorted` says what users owe one another, and what a scene of the run is: no two processes write
keys of one name; a process sets a name only to what is newer than what it has set before; `orders
unset` is not used on a document; a search's scratch key is nobody else's; only a search's text may be
too long for the daemon's model, whose diagnostic would stand in a chunk's place (the `Overlong` row);
and the documents that stand at the start are whole. TLC evaluates it on the run's instance. `Once` says of a behaviour
that no key comes to be in two slots. A set does not keep that by itself: it passes over the
key's own slot where that is busy, and it takes a free slot that comes before it on the chain. All
behaviours of the instance of `commands` keep `Once` (TLC finds no violation of it as an
invariant), those with busy slots, removals and the daemon included. `Settled` is a condition on
the constants from which it follows, by `OnceInv`: either the keys have homes of their own and a set
meets no slot that another client or the daemon may have busy (`Rooted`: under the daemon, only
searches set), or the table is full and nothing is removed (`Filled`). In the first case every slot
with an odd epoch is occupied by a set on its way, the daemon or somebody killed in a set, each at the
home of its key (`Homed, Seated, Manned`), so that no set passes over its own. TLC evaluates it: two
of the run's five scenes are `Settled`, one of each kind; the others need `Once`. Kills, those inside a set
included, failing calls, other clients' calls and the daemon are free, and so are
the numbers of processes, commands, chunks and slots.

`IngestOrder` is not inductive. `IngestInv` adds that a key with an order holds the chunk of that
order (`Numbered`); that nothing in a slot is newer than what its writer has still to set
(`Newest`), so that an ingest over an older one replaces a chunk only by one at least as new; that
an ingest has left every chunk it has been through in its slot (`Ingesting`), which is what makes
its metadata true when it comes; that an `unset -r` which has come to the chunks, and an
`orders unset`, have no metadata over them (`Removing`); and that no chunk is too long for the daemon
(`Short`). It does not say that a reader sees one version of a document: a second ingest over the
first shows new chunks behind the old metadata while it runs, and for good where it is killed.

`ListTrue` is about keys whose name is legible throughout: a key that somebody sets meanwhile may be
missing, as its name is wiped when the pointer is followed. It rests on `ListInv`: in a list that
collects, a key that has stood since it began is pointed at exactly when the scan is past its slot, and
once it collects no more such a key is either still pointed at, or in the copy being made, or in the
rows, once, and never twice (`ListedAt`). A pointer shows whatever key its slot has by then, but a key
that stood throughout has not left its slot, as it would have to be in two to do so; and a snapshot
that ends with a torn copy still has that key in it, since nobody wrote it.

`SearchTrue` rests on `SearchInv`: who has a slot busy, a client, the daemon or a set (`Busied`); nobody
has the key of a search that is still to begin (`QueuedAt`); and while a search waits, either the
epoch is the one it looked at, or the daemon is in the slot, or the vector of the search's own text
is there, or another client's call has been in the slot (`Waited`, `Met`). A poll ends on an even epoch,
which leaves the last two. Where the text is too long, what its key may hold are the zeros and the diagnostic.

### What the proofs found

Errors of the models, which the runs' bounds had hidden and the failed proof showed: an
operator of the refinement mapping whose cases overlapped, so that a process outside a call could
count as inside one; a rebid after a restart, which the record's own pid allows and the memory of
what the table should hold did not; and the owner of the bus, who was taken to stand by although a
predecessor killed between the stores of its pid and its descriptor had left a number of its own
in the header.

### Only model-checked

- Liveness, which is out of the prover's reach: `CallsReturn`, `Served`, `Informed`, `AdviseReturns`.
- What an unset or a set promises of the probe chain: `UnsetForgets`, `SetLands`.
- `OwnCalls` of `ValueArena`: a promoted value is the integer its digits spell, so that its proof
  would need an induction over digit strings, which no installed prover can instantiate.
- `EmbedSidecar` with texts that are too long (`DoneIsCurrent`, `WaitingCleared` there).

## 5. The plan

The models of the plan are written, and so are the proofs of the safety properties but for those
of the last section. What is left: `DoneIsCurrent` of the embedding daemon with one client and texts
that are too long.
