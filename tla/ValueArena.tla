----------------------------- MODULE ValueArena -----------------------------
(***************************************************************************)
(* The value arena of splinter.c: keys that stand in their slots, their    *)
(* values in one run of bytes, and the calls that write there: a set, a    *)
(* type given to a key (which may move a short value to a word of its own) *)
(* and an operation on the integer a key holds.                            *)
(*                                                                         *)
(* One step is one load, store or read-modify-write of the slot, of the    *)
(* break or of a value; a value is copied in one step, as only its slot's  *)
(* lock is about it.  No slot is free, so a set that meets a busy slot     *)
(* fails (SlotStore has the rest of the probing, readers and unset).       *)
(***************************************************************************)
EXTENDS Integers, Sequences, SequencesExt, FiniteSetsExt

CONSTANTS
  Procs,    \* processes
  Keys,     \* the keys, one slot each
  Slots,    \* number of slots
  MaxVal,   \* max_val_sz, in bytes
  Word,     \* bytes of an integer: 8
  Grain,    \* bytes the hybrid scrub rounds to: 64
  Base,     \* values a byte takes
  Zero,     \* the byte of the numeral 0; the numerals run to Base - 1
  Spare,    \* bytes of header and slots, which val_sz counts as well
  Calls,    \* [Procs -> sets of [op, key, arg]]: what a process calls
  Limit,    \* bound: how many calls a process makes
  Scenes    \* how it begins: a set of [slot, mem, brk]

Arena == Slots * MaxVal
ValSz == Arena + Spare
Bytes == 0 .. ValSz - 1

ASSUME ArenaAssumption ==
  /\ Slots \in Nat \ {0} /\ Word \in Nat \ {0} /\ MaxVal \in Nat \ {0} /\ Grain \in Nat \ {0}
  /\ Base \in Nat \ {0} /\ Zero \in 0 .. Base - 1 /\ Spare \in Nat /\ Limit \in Nat

VARIABLES
  slot,   \* by key: epoch, val_off, val_len, type_flag
  mem,    \* the bytes after VALUES; those from Arena on are not the store's
  brk,    \* H->val_brk
  mop,    \* H->core_flags
  m,      \* the call each process is in
  left,   \* calls it may still make
  own     \* history: by key, what the calls on it have made of its value

arenaVars == << slot, mem, brk, mop, m, left, own >>

Odd(e) == e % 2 = 1

Idle == [pc |-> "idle", op |-> "none", key |-> "none", arg |-> 0, e |-> 0, off |-> 0, n |-> 0, rc |-> "none"]

(* The integer in a run of bytes, lowest first, and the bytes of one.      *)
Integer(b) == FoldRight(LAMBDA x, sum : x + Base * sum, b, 0)
Spelled(n) == [i \in 1 .. Word |-> (n \div Base ^ (i - 1)) % Base]

(* The n bytes at offset o, and the bytes once b is written there.         *)
Held(o, n)     == [i \in 1 .. n |-> mem[o + i - 1]]
Overlaid(o, b) == [x \in Bytes |-> IF x \in o .. o + Len(b) - 1 THEN b[x - o + 1] ELSE mem[x]]

(* What a short value becomes: strtoull(.., 0) of the numerals it starts   *)
(* with, or its bytes as they are.                                         *)
Numeral(b) ==
  LET radix == IF b[1] = Zero THEN 8 ELSE 10
      next(a, x) == IF a.on /\ x >= Zero THEN [a EXCEPT !.n = radix * @ + (x - Zero)] ELSE [a EXCEPT !.on = FALSE]
  IN  FoldLeft(next, [n |-> 0, on |-> TRUE], b).n

Converted(b) == IF b # << >> /\ b[1] >= Zero THEN Numeral(b) ELSE Integer(b)

Mod(n) == n % Base ^ Word

(* The operations on integers, bit by bit where they are.                  *)
Bit(n, i) == (n \div 2 ^ i) % 2
BitByBit(f(_, _), x, y) ==
  Mod(FoldSet(LAMBDA i, sum : sum + f(Bit(x, i), Bit(y, i)) * 2 ^ i, 0, {i \in 0 .. 30 : 2 ^ i < Base ^ Word}))

Applied(op, x, y) ==
  CASE op = "inc" -> Mod(x + y)
    [] op = "dec" -> Mod(x - y)
    [] op = "or"  -> BitByBit(LAMBDA a, b : IF a + b > 0 THEN 1 ELSE 0, x, y)
    [] op = "and" -> BitByBit(LAMBDA a, b : a * b, x, y)
    [] op = "xor" -> BitByBit(LAMBDA a, b : (a + b) % 2, x, y)
    [] op = "not" -> Base ^ Word - 1 - x

Integral == {"inc", "dec", "or", "and", "xor", "not"}
Naming   == {"biguint", "void"}

-----------------------------------------------------------------------------
At(p, l)      == m' = [m EXCEPT ![p].pc = l]
Return(p, rc) == m' = [m EXCEPT ![p] = [Idle EXCEPT !.rc = rc]]
K(p)          == m[p].key
My(p)         == slot[K(p)]
calls         == << left, mop, own >>

Begin(p) ==
  /\ m[p].pc = "idle" /\ left[p] > 0
  /\ \E c \in Calls[p] :
       m' = [m EXCEPT ![p] = [Idle EXCEPT !.op = c.op, !.key = c.key, !.arg = c.arg,
                                          !.pc = IF c.op \in {"mop", "system"} THEN c.op ELSE IF c.op \in Integral THEN "check" ELSE "load"]]
  /\ left' = [left EXCEPT ![p] = @ - 1]
  /\ UNCHANGED << slot, mem, brk, mop, own >>

(* splinter_integer_op looks at the type before it takes the lock.         *)
Check(p) ==
  /\ m[p].pc = "check"
  /\ IF My(p).type = "biguint" THEN At(p, "load") ELSE Return(p, "EPROTOTYPE")
  /\ UNCHANGED << slot, mem, brk, calls >>

Load(p) ==
  /\ m[p].pc = "load"
  /\ IF Odd(My(p).epoch) THEN Return(p, "EAGAIN")
                        ELSE m' = [m EXCEPT ![p].pc = "cas", ![p].e = My(p).epoch]
  /\ UNCHANGED << slot, mem, brk, calls >>

(* Broken: the lock is taken by a store, whatever the epoch has become.    *)
BrokenLock(p) ==
  /\ m[p].pc = "cas"
  /\ slot' = [slot EXCEPT ![K(p)].epoch = m[p].e + 1]
  /\ At(p, IF m[p].op \in Integral THEN "read" ELSE m[p].op)
  /\ UNCHANGED << mem, brk, calls >>

Lock(p) ==
  /\ m[p].pc = "cas"
  /\ IF My(p).epoch # m[p].e
       THEN Return(p, "EAGAIN") /\ UNCHANGED slot
       ELSE /\ slot' = [slot EXCEPT ![K(p)].epoch = @ + 1]
            /\ At(p, IF m[p].op \in Integral THEN "read" ELSE m[p].op)
  /\ UNCHANGED << mem, brk, calls >>

(* The lock is let go; what the call has made of the value is its own.     *)
Unlock(p, rc, made) ==
  /\ slot' = [slot EXCEPT ![K(p)].epoch = @ + 1]
  /\ own' = [own EXCEPT ![K(p)] = made]
  /\ Return(p, rc)

(* A write past the arena lands on the rest of the last page, or faults    *)
(* with the lock held.                                                     *)
Write(p, o, b, l) ==
  \/ mem' = Overlaid(o, b) /\ At(p, l)
  \/ o + Len(b) > Arena /\ At(p, "dead") /\ UNCHANGED mem

-----------------------------------------------------------------------------
(* splinter_set, on a key that stands.                                     *)

Scrubbed(n) ==
  IF "auto" \notin mop THEN 0
  ELSE IF "hybrid" \notin mop THEN MaxVal
  ELSE LET up == ((n + Grain - 1) \div Grain) * Grain IN IF up > MaxVal THEN MaxVal ELSE up

SetScrub(p) ==
  /\ m[p].pc = "set"
  /\ IF My(p).off + Len(m[p].arg) > Arena
       THEN Unlock(p, "EOVERFLOW", own[K(p)]) /\ UNCHANGED mem
       ELSE Write(p, My(p).off, [i \in 1 .. Scrubbed(Len(m[p].arg)) |-> 0], "copy") /\ UNCHANGED << slot, own >>
  /\ UNCHANGED << brk, left, mop >>

SetCopy(p) ==
  /\ m[p].pc = "copy"
  /\ mem' = Overlaid(My(p).off, m[p].arg)
  /\ slot' = [slot EXCEPT ![K(p)].len = Len(m[p].arg)]
  /\ At(p, "set_end")
  /\ UNCHANGED << brk, calls >>

SetEnd(p) ==
  /\ m[p].pc = "set_end"
  /\ Unlock(p, "ok", m[p].arg)
  /\ UNCHANGED << mem, brk, left, mop >>

-----------------------------------------------------------------------------
(* splinter_set_named_type.                                                *)

(* A short value is given a word at the break, which moves on whether or   *)
(* not the word fits.                                                      *)
Reserve(p) ==
  /\ m[p].pc = "biguint"
  /\ IF My(p).len >= Word THEN At(p, "name") /\ UNCHANGED << slot, own, brk >>
     ELSE /\ brk' = brk + Word
          /\ IF brk + Word > ValSz
               THEN Unlock(p, "ENOMEM", own[K(p)])
               ELSE m' = [m EXCEPT ![p].pc = "convert", ![p].off = brk] /\ UNCHANGED << slot, own >>
  /\ UNCHANGED << mem, left, mop >>

Convert(p) ==
  /\ m[p].pc = "convert"
  /\ m' = [m EXCEPT ![p].pc = "word", ![p].n = Mod(Converted(Held(My(p).off, My(p).len)))]
  /\ UNCHANGED << slot, mem, brk, calls >>

WriteWord(p) ==
  /\ m[p].pc = "word"
  /\ Write(p, m[p].off, Spelled(m[p].n), "move")
  /\ UNCHANGED << slot, brk, calls >>

Move(p) ==
  /\ m[p].pc = "move"
  /\ slot' = [slot EXCEPT ![K(p)].off = m[p].off, ![K(p)].len = Word]
  /\ At(p, "name")
  /\ UNCHANGED << mem, brk, calls >>

Name(p) ==
  /\ m[p].pc \in {"name", "void"}
  /\ slot' = [slot EXCEPT ![K(p)].type = m[p].op]
  /\ At(p, "named")
  /\ UNCHANGED << mem, brk, calls >>

Named(p) ==
  /\ m[p].pc = "named"
  /\ Unlock(p, "ok", IF m[p].op = "biguint" /\ Len(own[K(p)]) < Word THEN Spelled(Mod(Converted(own[K(p)])))
                                                                    ELSE own[K(p)])
  /\ UNCHANGED << mem, brk, left, mop >>

-----------------------------------------------------------------------------
(* splinter_integer_op: a word is read and written at the value, however   *)
(* short the value is.                                                     *)

ReadWord(p) ==
  /\ m[p].pc = "read"
  /\ m' = [m EXCEPT ![p].pc = "apply", ![p].n = Integer(Held(My(p).off, Word))]
  /\ UNCHANGED << slot, mem, brk, calls >>

Apply(p) ==
  /\ m[p].pc = "apply"
  /\ Write(p, My(p).off, Spelled(Applied(m[p].op, m[p].n, m[p].arg)), "applied")
  /\ UNCHANGED << slot, brk, calls >>

EndApply(p) ==
  /\ m[p].pc = "applied"
  /\ Unlock(p, "ok", Spelled(Applied(m[p].op, Integer(own[K(p)]), m[p].arg)))
  /\ UNCHANGED << mem, brk, left, mop >>

-----------------------------------------------------------------------------
(* splinter_set_as_system makes a key stand for its whole slot, without    *)
(* the lock.                                                               *)
SystemType(p) ==
  /\ m[p].pc = "system"
  /\ slot' = [slot EXCEPT ![K(p)].type = "binary"]
  /\ At(p, "widen")
  /\ UNCHANGED << mem, brk, calls >>

SystemLen(p) ==
  /\ m[p].pc = "widen"
  /\ slot' = [slot EXCEPT ![K(p)].len = MaxVal]
  /\ own' = [own EXCEPT ![K(p)] = @ \o Held(My(p).off + Len(@), MaxVal - Len(@))]
  /\ Return(p, "ok")
  /\ UNCHANGED << mem, brk, left, mop >>

-----------------------------------------------------------------------------
(* splinter_set_mop: 2 leaves the hybrid flag as it is.                    *)
SetMop(p) ==
  /\ m[p].pc = "mop"
  /\ mop' = CASE m[p].arg = 0 -> {} [] m[p].arg = 1 -> {"auto", "hybrid"} [] m[p].arg = 2 -> mop \cup {"auto"}
  /\ Return(p, "ok")
  /\ UNCHANGED << slot, mem, brk, left, own >>

-----------------------------------------------------------------------------
ArenaInit ==
  \E s \in Scenes :
    /\ slot = s.slot /\ mem = s.mem /\ brk = s.brk
    /\ own = [k \in Keys |-> [i \in 1 .. s.slot[k].len |-> s.mem[s.slot[k].off + i - 1]]]
    /\ mop = {"auto", "hybrid"}
    /\ m = [p \in Procs |-> Idle]
    /\ left = [p \in Procs |-> Limit]

ArenaNext == \E p \in Procs :
  \/ Begin(p) \/ Check(p) \/ Load(p) \/ Lock(p) \/ SetScrub(p) \/ SetCopy(p) \/ SetEnd(p)
  \/ Reserve(p) \/ Convert(p) \/ WriteWord(p) \/ Move(p) \/ Name(p) \/ Named(p)
  \/ ReadWord(p) \/ Apply(p) \/ EndApply(p) \/ SystemType(p) \/ SystemLen(p) \/ SetMop(p)

ArenaSpec == ArenaInit /\ [][ArenaNext]_arenaVars

-----------------------------------------------------------------------------
(* Whenever no call holds a key, its value is what the completed calls on  *)
(* that key have made of it, one after the other: no operation on an       *)
(* integer is lost or half done beside another, a promotion keeps the      *)
(* number, and no call on one key reaches the bytes of another ("in-place  *)
(* atomic" of splinter_integer_op, static geometry of the arena).          *)
OwnCalls == \A k \in Keys : ~ Odd(slot[k].epoch) => Held(slot[k].off, slot[k].len) = own[k]
=============================================================================
