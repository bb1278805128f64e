------------------------------ MODULE Bytecode ------------------------------
(***************************************************************************)
(* The instructions of the virtual machine: their numbers (opcode.h), the  *)
(* bytes and the values they take (vm.c), and what it means that a chunk   *)
(* is fit to be executed.                                                  *)
(***************************************************************************)
EXTENDS Chunk, TLC

OP == [ PUSH_TRUE |-> 0, PUSH_FALSE |-> 1, PUSH_NIL |-> 2, PUSH_CONST |-> 3, PUSH_X |-> 4,
        SAVE_X |-> 5, POP |-> 6, POPN |-> 7, ADD |-> 8, SUB |-> 9, MUL |-> 10, DIV |-> 11,
        MOD |-> 12, NEG |-> 13, EQ |-> 14, NEQ |-> 15, LT |-> 16, LTQ |-> 17, GT |-> 18,
        GTQ |-> 19, NOT |-> 20, CONS |-> 21, ARRAY_8 |-> 22, ARRAY_16 |-> 23, INDEX_SET |-> 24,
        INDEX_GET |-> 25, MAP_8 |-> 26, MAP_16 |-> 27, DEF_GLOBAL |-> 28, SET_GLOBAL |-> 29,
        GET_GLOBAL |-> 30, SET_LOCAL |-> 31, GET_LOCAL |-> 32, SET_UPVALUE |-> 33,
        GET_UPVALUE |-> 34, CALL |-> 35, JMP |-> 36, JMP_BACK |-> 37, JMP_FALSE |-> 38,
        JMP_POP_FALSE |-> 39, CLOSURE |-> 40, CLOSE_UPVALUE |-> 41, ASSERT |-> 42,
        RETURN |-> 43, EXIT |-> 44 ]

LastOpcode == 44

\* Instructions with a slot, an index or a count behind them, and with two bytes.
Counted == { OP.POPN, OP.ARRAY_8, OP.MAP_8, OP.CALL }
Slotted == { OP.GET_LOCAL, OP.SET_LOCAL }
Indexed == { OP.GET_UPVALUE, OP.SET_UPVALUE }
Globals == { OP.DEF_GLOBAL, OP.SET_GLOBAL, OP.GET_GLOBAL }
Jumps   == { OP.JMP, OP.JMP_BACK, OP.JMP_FALSE, OP.JMP_POP_FALSE }
Short   == Jumps \cup { OP.ARRAY_16, OP.MAP_16 }

Pushing == { OP.PUSH_TRUE, OP.PUSH_FALSE, OP.PUSH_NIL, OP.PUSH_CONST, OP.PUSH_X, OP.CLOSURE,
             OP.GET_LOCAL, OP.GET_UPVALUE, OP.GET_GLOBAL }
Popping == { OP.SAVE_X, OP.POP, OP.DEF_GLOBAL, OP.ASSERT, OP.CLOSE_UPVALUE, OP.JMP_POP_FALSE,
             OP.RETURN }
Binary  == { OP.ADD, OP.SUB, OP.MUL, OP.DIV, OP.MOD, OP.EQ, OP.NEQ, OP.LT, OP.LTQ, OP.GT, OP.GTQ,
             OP.CONS, OP.INDEX_GET }
Peeking == { OP.NEG, OP.NOT, OP.SET_LOCAL, OP.SET_UPVALUE, OP.SET_GLOBAL, OP.JMP_FALSE }

\* A function is a chunk, the number of its parameters and upvalues, and the
\* functions that its constants stand for.
Operand(f, offset) == Byte(f.chunk, offset + 1)
Operand16(f, offset) == 256 * Byte(f.chunk, offset + 1) + Byte(f.chunk, offset + 2)

Size(f, fns, offset) ==
    LET op == Byte(f.chunk, offset)
    IN  CASE op = OP.CLOSURE -> 2 + 2 * fns[f.chunk.constants[Operand(f, offset) + 1].function].upvalue_count
          [] op \in Short    -> 3
          [] op \in Counted \cup Slotted \cup Indexed \cup Globals \cup {OP.PUSH_CONST} -> 2
          [] OTHER -> 1

Pops(f, offset) ==
    LET op == Byte(f.chunk, offset)
    IN  CASE op \in Popping \cup Peeking -> 1
          [] op \in Binary -> 2
          [] op = OP.INDEX_SET -> 3
          [] op = OP.CALL -> Operand(f, offset) + 1
          [] op \in {OP.POPN, OP.ARRAY_8} -> Operand(f, offset)
          [] op = OP.MAP_8 -> 2 * Operand(f, offset)
          [] op = OP.ARRAY_16 -> Operand16(f, offset)
          [] op = OP.MAP_16 -> 2 * Operand16(f, offset)
          [] OTHER -> 0

Pushes(f, offset) ==
    LET op == Byte(f.chunk, offset)
    IN  IF op \in Pushing \cup Peeking \cup Binary
                    \cup {OP.INDEX_SET, OP.CALL, OP.ARRAY_8, OP.ARRAY_16, OP.MAP_8, OP.MAP_16}
        THEN 1 ELSE 0

\* Where the machine goes on after an instruction.
Successors(f, fns, offset) ==
    LET op == Byte(f.chunk, offset)
        next == offset + Size(f, fns, offset)
    IN  CASE op \in {OP.RETURN, OP.EXIT} -> {}
          [] op = OP.JMP      -> { next + Operand16(f, offset) }
          [] op = OP.JMP_BACK -> { next - Operand16(f, offset) }
          [] op \in {OP.JMP_FALSE, OP.JMP_POP_FALSE} -> { next, next + Operand16(f, offset) }
          [] OTHER -> { next }

-----------------------------------------------------------------------------
(* A chunk is fit when every instruction the machine can reach is reached    *)
(* with one height of the frame, takes no more than the frame has beside     *)
(* slot 0, names slots, upvalues and constants that are there, and is cut    *)
(* by no other.                                                              *)

Fit(f, fns, offset, height) ==
    LET op == Byte(f.chunk, offset)
    IN  /\ op <= LastOpcode
        /\ offset + Size(f, fns, offset) <= Count(f.chunk)
        /\ height - Pops(f, offset) >= 1
        /\ op \in Slotted => Operand(f, offset) < height
        /\ op \in Indexed => Operand(f, offset) < f.upvalue_count
        /\ op = OP.EXIT   => f.toplevel /\ height = 1
        /\ op = OP.RETURN => ~f.toplevel

\* A constant that is there, a closure of a function: before its size is asked for.
Known(f, offset) ==
    Byte(f.chunk, offset) \in {OP.PUSH_CONST, OP.CLOSURE} =>
        /\ offset + 1 < Count(f.chunk)
        /\ Operand(f, offset) < Len(f.chunk.constants)
        /\ (Byte(f.chunk, offset) = OP.CLOSURE) = (f.chunk.constants[Operand(f, offset) + 1].function # 0)

\* The heights of what can be reached, as sets of one height while all is well.
RECURSIVE Reach(_, _, _, _)
Reach(f, fns, heights, todo) ==
    IF todo = {} THEN heights
    ELSE LET o == CHOOSE p \in todo : TRUE
             h == CHOOSE n \in heights[o] : TRUE
         IN  IF ~(o \in 0..(Count(f.chunk) - 1) /\ Known(f, o) /\ Fit(f, fns, o, h))
             THEN o :> {} @@ heights
             ELSE LET after == h - Pops(f, o) + Pushes(f, o)
                      next  == Successors(f, fns, o)
                      new   == { p \in next : p \notin DOMAIN heights }
                  IN  Reach(f, fns,
                            [p \in next |-> {after} \cup (IF p \in new THEN {} ELSE heights[p])]
                               @@ heights,
                            (todo \ {o}) \cup new)

IsFit(f, fns) ==
    LET heights == Reach(f, fns, 0 :> {1 + f.arity}, {0})
    IN  \A o \in DOMAIN heights :
            /\ Cardinality(heights[o]) = 1
            /\ \A p \in DOMAIN heights : ~(o < p /\ p < o + Size(f, fns, o))

=============================================================================
