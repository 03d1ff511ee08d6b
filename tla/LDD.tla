-------------------------------- MODULE LDD --------------------------------
(***************************************************************************)
(* The list decision diagrams of SylvanWrapper and their operations.  A    *)
(* node holds a value, the diagram of what follows the value (down) and    *)
(* the rest of its level (right), by increasing values; a path to True is  *)
(* a marking, one value for each place.                                    *)
(*                                                                         *)
(* The table of module SylvanWrapper gives equal diagrams one number, and  *)
(* its cache returns what an operation has computed for the same numbers:  *)
(* here a diagram is its own structure, and there is no cache.  Copy nodes *)
(* exist only in relations, which no construction builds.                  *)
(***************************************************************************)
EXTENDS Integers, Sequences, SequencesExt

False == <<>>
True == <<"true">>
Terminal(m) == m \in {False, True}

Value(m) == m[1]
Down(m) == m[2]
Right(m) == m[3]

(* lddmc_makenode: a value that nothing follows has no node. *)
MakeNode(value, ifeq, ifneq) == IF ifeq = False THEN ifneq ELSE <<value, ifeq, ifneq>>

RECURSIVE Cube(_)
Cube(values) ==
  IF values = <<>> THEN True ELSE MakeNode(Head(values), Cube(Tail(values)), False)

(* The nodes of the first level of m: the loops over getright. *)
RECURSIVE Level(_)
Level(m) == IF Terminal(m) THEN <<>> ELSE <<m>> \o Level(Right(m))

RECURSIVE Union(_, _)
Union(a, b) ==
  IF a = b \/ b = False THEN a
  ELSE IF a = False THEN b
  ELSE IF Value(a) < Value(b) THEN MakeNode(Value(a), Down(a), Union(Right(a), b))
  ELSE IF Value(a) > Value(b) THEN MakeNode(Value(b), Down(b), Union(a, Right(b)))
  ELSE MakeNode(Value(a), Union(Down(a), Down(b)), Union(Right(a), Right(b)))

RECURSIVE Minus(_, _)
Minus(a, b) ==
  IF a = b \/ a = False THEN False
  ELSE IF b = False THEN a
  ELSE IF Value(a) < Value(b) THEN MakeNode(Value(a), Down(a), Minus(Right(a), b))
  ELSE IF Value(a) > Value(b) THEN Minus(a, Right(b))
  ELSE MakeNode(Value(a), Minus(Down(a), Down(b)), Minus(Right(a), Right(b)))

RECURSIVE Intersect(_, _)
Intersect(a, b) ==
  IF a = b THEN a
  ELSE IF a = False \/ b = False THEN False
  ELSE IF Value(a) < Value(b) THEN Intersect(Right(a), b)
  ELSE IF Value(a) > Value(b) THEN Intersect(a, Right(b))
  ELSE MakeNode(Value(a), Intersect(Down(a), Down(b)), Intersect(Right(a), Right(b)))

(* lddmc_firing_mono: minus and plus are cubes, what a transition takes   *)
(* and gives, one value for each place.                                    *)
RECURSIVE Firing(_, _, _)
Firing(m, minus, plus) ==
  IF Terminal(m) THEN m
  ELSE IF minus = False \/ plus = False THEN False
  ELSE LET others == Firing(Right(m), minus, plus)
       IN  IF Value(m) < Value(minus) THEN others
           ELSE Union(others,
                      MakeNode(Value(m) - Value(minus) + Value(plus),
                               Firing(Down(m), Down(minus), Down(plus)), False))

(* One marking, or none. *)
RECURSIVE isSingleMDD(_)
isSingleMDD(m) == Terminal(m) \/ (Right(m) = False /\ isSingleMDD(Down(m)))

(* The number of nodes at a level, under the first node of those above. *)
RECURSIVE get_mddnbr(_, _)
get_mddnbr(m, level) == IF level = 0 THEN Len(Level(m)) ELSE get_mddnbr(Down(m), level - 1)

(* ldd_divide_internal: the first node of each level down to the given     *)
(* one, and all that follows it.                                           *)
RECURSIVE Divide(_, _, _)
Divide(m, current, level) ==
  IF Terminal(m) THEN m
  ELSE MakeNode(Value(m), Divide(Down(m), current + 1, level),
                IF current <= level THEN False ELSE Divide(Right(m), current, level))

-----------------------------------------------------------------------------
(* A diagram as the bytes of an MPI message: two for the number of         *)
(* markings, whose low bit is set so that neither is zero, then the        *)
(* markings, every value plus one.                                         *)
Byte(v) == v % 256

(* convert_wholemdd_stringcpp walks along down, with the rights it leaves  *)
(* behind on a stack.  It sends one marking without a byte for False,      *)
(* which is never sent.                                                    *)
RECURSIVE Paths(_)
Paths(m) ==
  IF m = True THEN <<<<>>>>
  ELSE IF m = False THEN <<>>
  ELSE FoldLeft(LAMBDA res, path : Append(res, <<Value(m)>> \o path), <<>>, Paths(Down(m)))
         \o Paths(Right(m))

Encode(m) ==
  LET marks == Paths(m)
      count == 2 * Len(marks) + 1
  IN  <<Byte(count), Byte(count \div 256 + 1)>>
        \o FoldLeft(LAMBDA res, p : res \o [j \in DOMAIN p |-> Byte(p[j] + 1)], <<>>, marks)

(* decodage_message.  A byte that is 0 would give the greatest uint32_t,   *)
(* written -1 here: the value was 255.                                     *)
Decode(bytes, places) ==
  LET count == (bytes[2] - 1) * 128 + bytes[1] \div 2
      marking(k) == [j \in 1 .. places |-> bytes[2 + k * places + j] - 1]
  IN  FoldLeft(LAMBDA m, k : Union(m, Cube(marking(k - 1))), False, [k \in 1 .. count |-> k])

-----------------------------------------------------------------------------
(* What a diagram stands for. *)
Markings(m) == ToSet(Paths(m))
=============================================================================
