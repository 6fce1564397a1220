---------------------------- MODULE MCValueArena ----------------------------
(***************************************************************************)
(* Instances of ValueArena: two counters and a text, bytes of four values  *)
(* of which two are numerals, integers of two bytes.                       *)
(***************************************************************************)
EXTENDS ValueArena, TLC

CONSTANTS p1, p2, p3

Three == {"count", "late", "text"}

S(o, n, t)    == [epoch |-> 2, off |-> o, len |-> n, type |-> t]
Begun(c, l, t) == "count" :> c @@ "late" :> l @@ "text" :> t
Mem(b)        == [x \in Bytes |-> IF x < Len(b) THEN b[x + 1] ELSE 0]
C(o, k, a)    == [op |-> o, key |-> k, arg |-> a]

(* The first slot's key has a word already, and its slot room for the word *)
(* the other is promoted to; or promotions have used up what val_sz        *)
(* counts, or all but one word of it, which is past the arena.             *)
Sheltered(b) == [slot |-> Begun(S(0, 2, "biguint"), S(4, 1, "void"), S(8, 2, "void")), brk |-> b,
                 mem |-> Mem(<< 1, 0, 0, 0, 3, 0, 0, 0, 3, 2, 0, 0 >>)]
SomeScenes   == {Sheltered(Word), Sheltered(Arena), Sheltered(ValSz)}

SomeCalls == p1 :> {C("inc", "count", 15), C("biguint", "late", 0), C("inc", "late", 1)}
          @@ p2 :> {C("xor", "count", 5), C("dec", "late", 2), C("biguint", "late", 0), C("void", "late", 0)}
          @@ p3 :> {C("set", "text", << 2, 3, 1 >>), C("system", "text", 0), C("mop", "text", 2), C("not", "count", 0)}

(* The first slot holds a text, and the break stands where it begins.      *)
Plain     == {[slot |-> Begun(S(4, 1, "void"), S(8, 2, "void"), S(0, 2, "void")), brk |-> 0,
               mem |-> Mem(<< 3, 2, 0, 0, 3, 0, 0, 0, 3, 2, 0, 0 >>)]}
Promoting == p1 :> {C("biguint", "count", 0), C("inc", "count", 1)} @@ p2 :> {} @@ p3 :> {C("set", "text", << 2, 3, 1 >>)}

(* A key is widened to its whole slot while another call gives it a word.  *)
Roomy     == {Sheltered(Word)}
Widening  == p1 :> {C("system", "late", 0)} @@ p2 :> {C("biguint", "late", 0)} @@ p3 :> {}
=============================================================================
