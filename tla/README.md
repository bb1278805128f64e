# raven: models, checks and proofs

raven (`src/`) is a small dynamically typed language: a one-pass compiler that
emits bytecode, a stack machine that executes it, a mark-sweep collector, and a
REPL that runs scripts one after the other on one machine. It is sequential. What
makes it hard is what happens *in the middle* of something else: a collection in
the middle of a constructor, a capture in the middle of an instruction, an error
in the middle of a call, and a compiler that takes back code it has emitted. The
tree-walking interpreter it grew out of is kept in `src/old_interpreter/`.

File names without a directory are those of `src/src/`.

## 1. Inventory

| Component | Source | State | Operations | Talks to | Hard, and what makes it correct |
|---|---|---|---|---|---|
| Allocator and collector | `mem.c` | object list, gray stack, mark flags, weak table of strings, `bytes_allocated`, `next_gc`, `gc_off` | `allocate`, `mark_roots`, `trace_references`, `table_remove_weak`, `sweep` | called by every constructor; casts itself to the VM to find the roots | it runs inside constructors: frees nothing live, frees everything else, leaves no mark behind, ends |
| Constructors | `object.c` | the object being built | `new_string`, `box_string`, `new_pair`, `new_array`, `new_map`, `new_function`, `new_upvalue`, `new_closure` | `allocate`, `strings` | two allocations each for strings, arrays and closures; interning |
| Hash table | `table.c` | entries, count with tombstones, mask | get, set, remove, copy, interned, remove_weak | globals, maps, strings | open-ended probing loops; tombstones; keys never duplicated or hidden |
| Virtual machine | `vm.c` | value stack, frames, register `x`, globals, open upvalues | one per opcode, `interpret`, `runtime_error` | constructors, collector | pointers must be where `mark_roots` looks; captured variables must be shared and outlive their call |
| Compiler: scopes | `compiler.c` | a context per function: locals, upvalues, scope depth | declare, define, resolve, begin and end scopes and functions | the parser calls it | slots are positions in an array, not heights of the stack; captures reach through functions |
| Compiler: parser | `compiler.c` | two tokens, panic mode, loop state, the chunk being written | one per construct, `recover` | lexer, chunk, constructors with the collector off | code is emitted while it is read, patched and taken back; precedence; limits; it goes on after an error |
| Chunk | `chunk.c` | code, constants, run-length line table | write, decode_line | compiler writes, errors read | the table must survive the bytes that are taken back |
| Lexer | `lexer.c` | position, line | next_token | parser | lines must be counted in every kind of white space |
| Values | `value.c` | none | equality, printing | all | NaN boxing |
| Disassembler | `debug.c` | none | printing | | |
| Command line | `raven.c` | none | REPL, file | `interpret` | the machine survives an error of a script |
| Old resolver | `../old_interpreter/src/resolver.c` | stack of scopes, whether in a function or a loop | one per construct | writes distance and slot into the tree | the environments at run time must be those it counted |
| Old evaluator | `eval.c`, `env.c` there | current environment, globals, modes in the objects | one per construct, `rt_err` | reads the tree; prompt in `raven.c` | the environment must be restored and modes be cleared on every way out |
| Old lexer, parser, tools | there | | | | superseded |

`PROJECT.json` lists the same components with what is modelled of each, and every
hazard with the line where it bites and the properties aimed at it.

## 2. Modules

```
Reachability            graphs of objects; its lemmas are in Reachability_proofs
  Heap                  what the allocator promises: a collection is ONE step
  Memory                mem.c and object.c step by step      implements  Heap
    Memory_proofs       the inductive invariant, the accounting and the refinement, proved
  Machine               vm.c as a client of the collector
    Machine_proofs      what is rooted is allocated, proved
Lists_proofs            lemmas on sequences, least and greatest numbers that the proofs share
Variables               what a program may assume of local variables: cells
  Closures              vm.c: stack, frames, upvalues        implements  Variables
    Closures_proofs     the order of the open list and the refinement of Variables, proved
Map                     what table.h promises
  Table                 table.c                              implements  Map
    Table_proofs        probes end, and the refinement of Map, proved
Compiler                compiler.c against lexical scoping, for any program
  Compiler_proofs       slots, names, captures and heights, proved
Lexer                   lexer.c
Chunk                   chunk.c
  Lines                 both, between a text and the line of an error message
    Lines_proofs        the lines of tokens and of bytes, and that the search for them ends, proved
  Bytecode              opcode.h: what an instruction takes and leaves; fit chunks
    Execution           vm.c on the values of Grammar
Grammar                 expressions as trees: their text and their meaning
  Parser                compiler.c, every function           agrees with  Grammar
Syntax                  ast.h of the old interpreter
  Resolver              its resolver.c
  Scoping               which statements are rejected
  Language              what a session means: scopes and completions
  Evaluator             its eval.c and env.c at the prompt   implements  Language
MC*                     the instances TLC checks
```

The modules meet at stated contracts. `Memory` lets its client store only what is
`Usable` (reachable, an interned string, or anything while the collector is off);
`Machine` checks that the instructions keep to that. `Closures` and `Machine`
execute any sequence of instructions the compiler may emit; what the compiler
emits is the subject of `Compiler` (variables that were captured end with
OP_CLOSE_UPVALUE, slots are right) and of `Parser` (whatever a text is, its code is fit to be
executed). `Compiler` and `Parser` read the same file with two questions: `Compiler` has every
program in its bounds and the names and slots as the language has them, `Parser` has the tokens and the bytes.

**Memory.** `phase` says which C function runs. `New`, `NewHeader`, `NewBuffer`,
`FinishHeader` and `FinishArray` are the stretches of a constructor between its
`allocate()` calls; `MarkRoots`, `Blacken`, `RemoveWeak`, `Keep`, `Free` and
`FinishGc` are the collector. The object list and the gray stack are sets, so the
model covers every order of marking and sweeping, that of the code included. A size
is the number of `allocate()` calls behind an object. Chunks and tables are
allocated with plain `malloc` in the code, and are in no account there either.

**Machine.** An object is the sequence of the values `blacken_object` follows.
A collection is one step (`Survivors`), because that is what `Memory` is proved
to implement. `RuntimeError` empties the stack and keeps the open upvalues, as the code does. `left` has what
the slots above the top hold that they point to, which GET_UPVALUE, SET_UPVALUE and the closing of upvalues
still read and write (`Deref`); the ghost `abandoned` tells these upvalues from those of the running script. Numbers, names and constants are one plain value `Nil`: the
collector does not follow them, and constants live as long as their function.

**Closures.** The slots below `stack_top`, the frames, and the list of open
upvalues as a sequence. The ghosts `slotCell` and `upvalueCell` name the variable
each slot and each upvalue was made for; they appear in no guard. The refinement
mapping takes the content of a variable from its slot while it has one, and
otherwise from its upvalue, which is the claim.

**Table.** A table is a value and each function of `table.c` an operator on it.
`capacity` is `hash_mask + 1`; `hash & hash_mask` is the remainder, which takes a capacity without
odd divisors (`PowerOfTwo`). The loops over an array are recursive functions whose values are the array after each turn.

**Compiler.** There is no token stream: at each step the grammar decides what may
come, so the runs range over all programs within the bounds. `tail` is what the
compiler can see of the code it has emitted (the last byte or two). The ghosts
`runtime` and `agrees` compute the height of the frame at run time and what a name
means by lexical scoping. An entry of `parse` remembers, beside what the code keeps in the variables of its recursive
functions, how many locals and variables there were when the construct began. Constructs that treat scopes alike are one: a condition
is a constant, a call or a literal collection an operator. `and` and `or` are constructs of their own (`AndOr`): they
drop the left operand before the right one is compiled, so that a block may declare variables there.

**Lexer, Chunk, Bytecode.** A text is a sequence of symbols (a word, a run of digits, another
character). `Chunk` has the bytes and the run-length table of lines; ghosts remember where each byte came from,
where instructions begin, and where patched jumps lead. `Bytecode` says what an instruction takes from the
stack, leaves there and where the machine goes on, and defines by that what a *fit* chunk is:
every instruction that can be reached is whole, is reached with one height of the frame, takes
nothing that is not there, and names slots, upvalues and constants that are there.

**Lines.** The lexer and the table of lines, with what the compiler does between them: it reads one token ahead
and over the tokens that are errors (`Advance`, `ReadOver`), writes bytes with the line of the token before
(`Write`), takes bytes back (`TakeBack`, the five places in `compiler.c` that decrement the count of a chunk) and goes from
one function into another and out again. Which tokens and bytes these are is left open, so that what is shown holds whatever the parser
does. The ghost `left` has the chunks that keep an entry for bytes that are gone and begin before it again; `LinesTrue`
is about the others, and `Intact` of `Parser` says that what is compiled is one of the others, but for the programs of section 4.
The loops of the lexer are sets of positions (`Upto`) or, like that of `decode_line`, recursive functions whose
values are the state after each turn.

**Parser.** Every function of `compiler.c` is an operator of the same name from a parser to a parser;
a step compiles one top-level declaration, because between declarations is where the code can go
on after an error. The tokens are found in the beginning, as the lexer depends on nothing the parser does. A ghost, `torn`, notes when bytes were taken back that are not whole
instructions, or that a jump leads behind.

**Grammar, Execution.** `Grammar` writes a tree as text, with parentheses where the documented precedence
asks for them and nowhere else, and says what the tree means: a symbolic value, what was
called and stored in what order. `Execution` runs the bytes on the same values, for every choice of which variables are
true. What is compiled must mean what was written.

**Evaluator, Resolver, Language.** The functions of `eval.c` are operators from a state to a state and a
result; a pointer is a position in a list; a run-time error is a result nobody goes on with (`Then`), as a longjmp is.
The prompt is the step: a statement is read, resolved, executed and printed.
`Language`, with `Scoping`, knows neither distances, environments nor modes: it looks names up in scopes and gives
statements completions. The refinement mapping is what is printed. Reading a variable that has no slot yet, or an environment
that is not there, is undefined behaviour; a statement in which it happens, in a block or not, is a step that prints what no session of
`Language` prints (`Fail`), and so is one that does not end, or ends with an error, where that of the language does otherwise.

## 3. Runs

| Run | Question | Bounds |
|---|---|---|
| `memory` | Wherever a collection starts: is anything live freed, does a mark or a gray object stay behind, is the collection atomic to its client, does it end, is the accounting exact? | 3 objects, 1 root table; strings (payload allocated before the header) and arrays (payload after it); a threshold of 3 units with growth factor 2, so that collections start at different calls of a constructor |
| `closures` | Do captured variables behave as cells, and is the list of open upvalues in order? | 4 slots, 2 frames, 2 closures, 2 upvalues, 1 run-time error |
| `closures_error` | finding | as `closures` |
| `machine` | Does an instruction keep a pointer where the collector does not look? | 4 objects, 4 slots, 2 frames, 1 global, arrays of up to one element; the last object is in use only while an upvalue is open |
| `machine_cons` | finding | 3 objects, with one hole open |
| `table` | Do probes end, and is the table a map? | 5 keys, two of them with the same characters, capacities 4 and 8, hashes that collide at both and wrap round |
| `compiler` | Do slots, names, captures and heights agree with the language? | 2 names, 2 locals beside slot 0, 3 functions of one parameter at most, 5 constructs in one another |
| `compiler_blocks` | finding | as `compiler`, with blocks that declare variables admitted where operands are on the stack |
| `parser` | Is the code of any text fit to be executed, does it do what is written, are its lines true, and does the parser recover? | about 38,000 states over: every tree of two nested constructs, as written by `Grammar`; every sequence of up to three of 14 tokens; statements nested in one another; programs at each limit |
| `lines` | Is every line counted once, is no symbol read twice, and does the table give the line of each byte after bytes were taken back? | every text of up to three of six symbols and three longer ones with comments, unfinished strings and errors; 4 bytes in a chunk, 2 functions in one another; bytes written and taken back in any order |
| `parser_operands` | finding | programs in which the bytes before an `=` are not those of a variable |
| `evaluator` | Do resolver, environments and modes print what the language means? | sessions of three statements: one that defines `x`, any of a set of programs nested two deep, one that looks at what is left; 4 turns of loops and calls in a statement |

Why the bounds are enough. In `memory` the objects make every shape the marking
tells apart: a root, an object behind it, a cycle, garbage that points to live
objects, and the object under construction beside two others; the build that collects at every
allocation (`StressGc`) and other thresholds are left to the theorems, which do not depend on them. In `machine`
three objects hold a script, a closure and its upvalue, and the fourth is for another closure of the same variable, for what
they are put into, or for the script behind an error, which is when abandoned upvalues matter (`LastForUpvalues`). In `closures` two
upvalues and two frames give every relation of two open upvalues (the same slot, another, another
frame, one of them closed) and a closure that hands on its own. In `table`
the growth from 0 to 4 to 8 happens with tombstones in the table, and 5 keys exceed
the load of the smaller one. In `compiler` three functions are what it takes for an
upvalue to be handed on, and two names for shadowing with a bystander.
`MinCapacity` is 4 and not the 8 of `Grow_Capacity`, to reach a second growth; with
1 or 2 the load factor would let a table fill up, which is why the module assumes at least 4, and a power of two.

In `parser` the limits of the code (256 locals, upvalues, globals, constants, arguments and cases, 65536
elements, 255 for a byte) are constants, and the run makes them 2 to 5, so that programs
exceed each of them; jumps of 100 bytes stand for those of 65535. Nesting two deep pairs
every construct with every other, which is what precedence, patching and the restoring of the loop state depend on.
In `lines` three symbols put each kind of symbol before, in and behind a token of every kind; 4 bytes give a table of three entries,
the least in which the search goes both ways, with bytes taken back across two of them.
In `evaluator` two deep gives a loop in a function, a function in a loop, and a declaration between. Errors that the language
has too are left out inside of blocks (finding 6); undefined behaviour and any other error are not.

Where a bound stands in a guard (an address is left, room on the stack), the guard says so
and is at no place where the code itself decides.

**Fairness.** `CollectionEnds` is the one liveness property. It assumes weak fairness of the
collector's steps: the program has one thread, and a collection that was called is
executed until it returns. Nothing is assumed of the client, the compiler or the machine. In `Parser` and
`Evaluator` a step is a whole declaration or statement, so that an execution simply stops at the end of the text or
the session, which is why their runs do not look for deadlock.

## 4. What the checks show

*Holds.* The collector, wherever it interrupts a constructor, frees exactly the
unreachable objects; the mark that `new_array` sets by hand is needed (the mutant
without it breaks the refinement) and never survives. Apart from three holes (finding 2), the instructions of the machine
keep their pointers where the collector looks, after run-time errors as well. The open list stays sorted through
any history, run-time errors included, and until the first error closures implement cells. Tables never
fill up although tombstones are not uncounted. Apart from three kinds of programs, compiled
slots, names and captures are those of lexical scoping, and the code is balanced. But for the
programs listed below, whatever sequence of tokens compiles without an error gives code that is fit to be
executed, expressions mean what precedence and associativity say, jumps meet at one height of
the stack, and each byte has the line of its token although bytes are taken back under the table of lines. The lexer counts every line
and reads no symbol twice, and the search in the table of lines ends whatever was taken back. The old
interpreter's distances and slots find the variable of the name, for functions that outlive their blocks
as well, and no mode outlives its loop or call, in the programs of the run.

*Does not hold* (1 to 4 are the `findings` in `PROJECT.json`, each of them a run that TLC refutes):

1. `runtime_error` leaves the open upvalues of the calls it abandons. In the REPL, a closure stored in a
   global reads and writes the slots of the next script.
2. OP_CONS pops its operands before it allocates the pair, which may then hold freed objects.
   (The register `x` is no root either: in a block that ends with a declaration, the value of the
   last expression statement may be freed before OP_PUSH_X, or the end of the script, uses it.
   `MCMachine_cons.cfg` with `UnrootedX` TRUE in place of `UnrootedCons` shows it. And the upvalues of finding 1 point to slots above
   the top of the stack, which `mark_roots` does not walk: a script captures a variable and fails, the next one collects what the variable
   held, and GET_UPVALUE, or the closing of the upvalue, brings the freed object back. `UnrootedSlots` TRUE in
   `MCMachine_rooted.cfg` shows it, by `NoDangling`.)
3. A block that declares a variable where operands are on the stack, as in
   `1 + do let a = 2; a end`, reads the wrong slot.
4. `assignment` looks at the last two bytes. `b = nil`, with `b` at index 25 of the globals, takes the index for
   OP_INDEX_GET; `a and b = nil` takes back bytes behind the target of a jump.
5. An entry of the table of lines stays when the bytes it was made for are taken back. In

       do (a
       ) end = b

   the OP_SAVE_X of line 2 and the getter of line 1 are taken back, and `b`, on line 2, is written before the entry
   that is left: that there is no variable `b` is reported for line 1. (`Programs <- BehindALine` in
   `MCParser_programs.cfg` shows it, by `LinesTrue` and `Intact`.)
6. In the old interpreter a match whose arm is an expression leaves its environment as the current one, and so does a
   run-time error inside of any block, for the rest of the session at the prompt, where a `let` then defines a local variable.
   (`Lines <- Freely` and `InnerErrors = TRUE` in `MCEvaluator_session.cfg` show it, by `AtTopLevel`.)

Further holes, which the runs leave out by the choice of their programs, each found with the same models:

- `continue` unwinds the scope around the loop as well: a local of the block around the loop is popped and
  forgotten, at the top level slot 0 is (`while a do continue; end`), and after a conditional `continue` in a body
  with a `let` the slots of what follows are off. A function does not reset `inner_loop_start`, so that `while a do f = -> do continue; end end`
  jumps into another chunk. (`Continues` TRUE in `MCCompiler_scopes.cfg` shows the first, by `SlotsAgree`.)
- The test for a trailing OP_SAVE_X looks at a byte that may be an operand, as the 5 of a block that pops
  five locals, or at the byte before the array (`do end` at the start of a chunk). (`Operands` TRUE there, by `CodeIntact`.)
- 256 arguments are accepted and their number is written into one byte as 0.
- The lexer prints a message for a lexical error, but the parser skips its token without noting that there was an error
  (`had_error`), and the program is executed without it.
- `src/specs` has `expression_statement ::= expression delimiter` and `delimiter ::= ";" | NEW_LINE`. Nothing ends an expression statement
  in the code, where the test is commented out: `a b` are two, and a `;` behind one is an error. `Grammar` writes none either. And a
  new line ends nothing: it is white space for the lexer, while messages ask for "';' or newline".
- In the old interpreter a `for` loop ignores break, continue and return, whose mode stays in the
  shared nil; the same holds of a break or return in an operand. A function inside of a loop may
  contain `break`, which ends the loop of its caller. The value of a `let` that uses the name of a local reads a slot that is not there yet.
- There, a `for` over what is no list has the result that stands for "no value", and as an expression it stores it: `let y = for a in 1 do nil end`,
  though `object.h` says that this object "can't be used inside the language itself". (`Lines <- Voids` shows it, by `TypeOK`.)

The constants `UnrootedCons`, `UnrootedX`, `UnrootedSlots`, `BlocksAnywhere`, `Continues`, `Operands` and `InnerErrors` admit these one by
one: with all of them FALSE the rest of the component is checked for what else could be wrong,
and with one TRUE the consequence is shown.

## 5. Proofs

TLC looks at the small instances of section 3; the theorems hold for every value of the constants
that satisfies the assumptions of the module. Every invariant, action property and refinement that a run of `Memory`,
`Closures`, `Machine`, `Table`, `Compiler` or `Lines` checks is a theorem as well.

| Module | Theorems | Assumed beyond types |
|---|---|---|
| `Memory_proofs` | `TypeCorrect`, `NothingDangles`, `TriColourHolds`, `MarksAreClean`, `SizesAccounted`, `RefinesHeap` | there is a root table |
| `Closures_proofs` | `TypesCorrect`, `OpenListStaysSorted`, `UpvaluesKeepTheirVariables`, `MachineImplementsVariables` | upvalues are finitely many, and there are names for the variables in use (`CellAssumption`); a closed upvalue's location is no slot |
| `Machine_proofs` | `TypesCorrect`, `RootedIsAllocated` | `~UnrootedCons`, `~UnrootedX`, `~UnrootedSlots` |
| `Table_proofs` | `TypesCorrect`, `ProbesAlwaysEnd`, `TableImplementsMap` | the first capacity is a power of two and at least 4 (in the code it is 8) |
| `Compiler_proofs` | `TypesCorrect`, `LocalsInTheirSlots`, `NamesMeanWhatTheyShould`, `CodeBalanced`, `CapturesMarked` | `~BlocksAnywhere`, `~Continues`; the name of slot 0 is no identifier |
| `Lines_proofs` | `LinesTypeCorrect`, `LinesTokensTrue`, `LinesTokensAdvance`, `LinesDecodeTrue`, `LinesDecodeEnds` | nothing: a text is any sequence of symbols |

The assumptions on constants are the `ASSUME`s of the modules, which TLC evaluates in the runs. Where a
theorem assumes that a constant is FALSE it leaves out the programs of a finding; the run that
goes with it (`machine`, `compiler`) does so too, and a second one (`machine_cons`, `compiler_blocks`)
shows that without the assumption the statement is false; section 4 says how to see it for `UnrootedX`, `UnrootedSlots` and `Continues`.

In each module the argument is one inductive invariant, `IInv`, with a lemma for each action that says that
the action keeps it, and below the theorems the lemmas that the properties follow from it.

**Memory.** `NoDangling` alone is not inductive, because freeing an
unmarked object is safe only if everything reachable is marked; that follows at the end of tracing from the tri-colour
property and from the roots that were walked being marked; and in turn needs the marks to be no
more than what is reachable or pinned, or garbage would survive and the collection would not be the
one of `Heap`. So `IInv` says what is marked in each phase, what is swept, and in which state the object under
construction is. The refinement follows from the same invariant:
the step that purges the strings is `Heap`'s collection, every other step of the collector is
invisible. `Accounting` is a sum over the heap: the proof shows how the sum changes when an object is added,
freed, or gets its second part. `Reachability_proofs` has the facts about reachability they share: it is closed, it is the least closed
set, and it depends on the fields of reachable objects only.

**Closures.** That the open list is sorted is kept by `capture_upvalue` because its loop stops at the first location
that is not above the slot, and this is the right place because the list is sorted; that it is complete
needs every upvalue in use to be in an array of some closure. These parts of the invariant hold in every run, errors
included. `Distinct` holds before the first run-time error only: different slots are different variables, and an
upvalue points to a slot in use exactly if it was made for that variable. That is what the refinement rests on:
a write to a slot or through an upvalue then changes one variable of `Variables`, and closing an upvalue changes none.
After an error the abandoned calls' upvalues still point to slots (finding 1), and `ImplementsVariables` claims nothing.

**Machine.** What a slot, a frame, a global or a field holds is allocated, and what the register holds as long as nothing was freed since. A collection keeps what is
reachable, so that each instruction has to show that what it still uses is reachable when it allocates.
With OP_CONS as written, or the register unrooted, that step fails, as finding 2 says it must. For what an upvalue reads the proof
distinguishes where it points: its own copy is a field, a slot below the top is on the stack, and a slot above it can be only an abandoned
upvalue's, because every other one points to a slot of a call that still runs (`IInv` says so, and that what leaves the stack leaves no
such slot behind); of those `~UnrootedSlots` says that they are read only while they hold what is allocated. `LeftTyped` is the type of what
is left above the top.

**Table.** The invariant says of each key that every index from the first one its hash probes to its own is in use and
has another key (`Chained`), so that `find_entry` reaches it; that the count is the number of entries in use, tombstones
included; and that one entry is free. An insertion keeps `Chained` because it fills entries only, a removal because it leaves a
tombstone. `adjust_capacity` counts anew, and the load factor leaves an entry free in the new array. The state
machine lets a client use keys that are interned (`Interned`), which `table_interned` itself establishes. For `Map` a table stands for
its keys' values: each function is one step or a stutter, and returns what `Map` says.

**Compiler.** `SlotsAgree` says that what `resolve_local` finds is what lexical scoping means. Its invariant
follows the recursion of the parser instead of the code: for each construct that is open, `Opened` says what the locals
were when it began, `Linked` what has been declared between it and the construct in it, and `Stands` where the innermost one has got to. They determine
the height of the frame, so that a block that ends knows that its locals are all there is above those of the construct around
it. This is where `~BlocksAnywhere` is needed: a block in an operand would not be at the height of its locals. `Framed` says that the
initialised locals are the variables in scope, `Captures` what upvalues refer to. For a name that is found in an outer function the proof follows
`resolve_upvalue` inwards: each function on the way gets an upvalue that stands for the variable, and the ones it had stand
for what they did.

**Lines.** Three arguments, which meet in `IInv`. A turn of `skip_whitespace` takes a symbol and counts it if it is a new line,
or the loop is done (`Clear`); the text has no more symbols than the function has turns, so that it is done, and the lexer has counted
the new lines up to where it stands (`At`). A token begins there, and what it consists of has no new line in it, strings
included, because `string` stops at one; the end of a token is therefore on its line, which is what the next turn
starts from. For the table, `Started` says that it has an entry from the first byte on, and `Registered` that entries are in order, begin
at most behind the last byte, and agree with the bytes they cover; writing keeps this as long as no entry is left
behind. The search does not need the order: at each turn its interval begins at or before the offset and ends before an entry
behind it (`Within`), as the code compares both, and gets smaller, so that it ends at an entry that covers the byte in
every chunk; only if entries are in order is this the one that was written with it. That is the difference between
`LinesDecodeEnds` and `LinesDecodeTrue`, and finding 5 is in between.

Only model-checked: `CollectionEnds` (liveness under fairness is out of the prover's reach);
the properties of `Parser` and `Evaluator`, with `Bytecode`, `Grammar`, `Execution`, `Resolver`, `Scoping` and `Language`. They
follow the recursion of the code in RECURSIVE operators over trees and tokens: what they compute for every input is an induction over
data, which the provers at hand cannot do. Induction over numbers, which the recursive functions of `Table`,
`Compiler`, `Lexer` and `Chunk` take, is proved with the least number that would be a counterexample (`LeastNat` and `Steps` in `Lists_proofs`; `Iteration`
there says that a loop written in this way is a function at all).

## 6. Not modelled

Printing and disassembly; reading files and lines; the values of numbers, their arithmetic and
comparison, and that OP_MOD tests only one of its operands; NaN
boxing; functions and maps in `Execution`; the overflow of the value stack, behind which anything
may happen; `free_vm` and `free_allocator`; in the old interpreter hashes, strings, indexing, the
built-in functions, its lexer and its parser, which are superseded.

## 7. Plan

Done, in this order because a defect in the collector would be the hardest to find by testing:
`Reachability`, `Heap`, `Memory`, `Variables`, `Closures`, `Machine`, `Map`, `Table`, `Compiler`,
then `Syntax`, `Resolver`, `Language`, `Evaluator`, and `Lexer`, `Chunk`, `Lines`, `Bytecode`, `Grammar`, `Execution`, `Parser`.
Proved: `Memory`, `Closures`, `Machine`, `Table`, `Compiler` and `Lines`, each property of their runs but `CollectionEnds`.

Next, to model:

1. Functions in `Execution`, so that what a call means is compared as well, on the frames of `Closures`.
2. Globals over scripts: indices given at compile time against the buffer used at run time, when a script fails in between.
3. Strings and hashes of the old evaluator, on its own table.

Next, to prove:

1. `Compiler`: how much of `continue` is right. `~Continues` leaves out more than what is compiled wrongly; the
   invariant should hold with the condition that the code at the loop's start sees the locals it was compiled for.
2. `Closures`: which upvalues a run-time error leaves alone, as a refinement that holds afterwards.
3. `Parser`: that what it compiles keeps to what `Lines` asks (no entry left behind), which needs its
   RECURSIVE operators to become recursive functions over the tokens, as the loops of `Lexer` and `Chunk` have.
