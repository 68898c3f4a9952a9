----------------------------- MODULE RegisterCode -----------------------------
(***************************************************************************)
(* IRGenerator::generate_function: once a word is graphed, code is         *)
(* generated for it that keeps every register in memory of its own. Running*)
(* that code is to implement what the blocks mean (module StackMachine).   *)
(*                                                                         *)
(* The code of an instruction is given by the instruction and the registers*)
(* of its nodes, none of which changes any more. LLVM, its optimisations   *)
(* included, is external: the code runs as it was generated.               *)
(***************************************************************************)
EXTENDS StackGraph

CONSTANTS
  Answer(_, _),   \* what a word called answers, bottom first, to its arguments
  Arguments,      \* what the word itself may be called with
  Addresses,      \* where malloc finds a cell
  Unset,          \* what memory holds before the first store
  LeftFirst       \* the order of evaluation of the interpreter it is compared with

VARIABLES
  shape,     \* history: the stack and the parameters taken before each instruction
  sound,     \* history: the premises of Implements hold
  code,      \* "none", "generated", "running", "ended", "undefined" (what is run);
             \* "rejected" (nullptr), "aborted" (an exception), "crashed"
  known,     \* FBuilder::val_ptrs: the registers that have memory
  args,      \* the arguments of the function
  pc,        \* the instruction that runs
  memory,    \* the contents of each register
  heap,      \* the cells malloc has found
  printed    \* the last element printed

machine  == <<args, pc, memory, heap, printed>>
codeVars == <<vars, shape, sound, code, known, machine>>

InitCode ==
  /\ Init
  /\ shape = PerInstruction
  /\ sound = FALSE
  /\ code = "none"
  /\ known = {}
  /\ args = <<>> /\ pc = <<1, 1>> /\ memory = <<>> /\ heap = <<>> /\ printed = Unset

\* A step of the analysis; the shape of the stack is recorded.
Analyse ==
  /\ outcome = "running"
  /\ Next
  /\ shape' = IF Graphing
              THEN [shape EXCEPT ![B][Frame.at] = [stack |-> Stack, taken |-> Frame.taken]]
              ELSE shape
  /\ UNCHANGED <<sound, code, known, machine>>

(***************************************************************************)
(* generate_function, one pass over the blocks in the order of their       *)
(* numbers. Loading a register that has no memory yet crashes: its pointer *)
(* is nullptr.                                                             *)
(***************************************************************************)
Supported(c) ==
  \/ c = Exit \/ c.kind = "word" \/ IsLocal(c)
  \/ c.kind = "prim" /\ c.p \notin {"'", ",", "see", ".S", "here", "create", "allot",
                                    "[", "]", "immediate", "to"}

Silent(c) == c = Exit \/ IsPrimitive(c, "drop") \/ IsPrimitive(c, "branch")

\* The registers of the pop nodes, top first, and of the push nodes, bottom
\* first; visits of a block that came later have added more of these.
In(b, k)  == [j \in DOMAIN pops[b][k] |-> nodes[pops[b][k][j]].back]
Out(b, k) == [j \in DOMAIN pushes[b][k] |-> nodes[pushes[b][k][j]].forth]

Loads(b, k) ==
  LET c == blocks[b][k].cell
  IN  IF Silent(c) THEN {}
      ELSE IF c.kind = "fromLocal" THEN {locals[Key(c)]} ELSE Range(In(b, k))

Stores(b, k) ==
  LET c == blocks[b][k].cell
  IN  IF c.kind = "toLocal" THEN {locals[Key(c)]} ELSE Range(Out(b, k))

\* How the generation of an instruction ends, when registers ks have memory.
Generated(b, k, ks) ==
  LET i == blocks[b][k]
      e == Effect(i.cell)
  IN  CASE ~Supported(i.cell) -> "rejected"
        [] IsPrimitive(i.cell, "literal") /\ ~IsNumber(i.operand) -> "aborted"
        [] i.cell.kind = "fromLocal" /\ Key(i.cell) \notin DOMAIN locals -> "aborted"
        [] i.cell.kind = "word" /\ Len(pops[b][k]) + Len(pushes[b][k]) # e.pops + e.pushes
             -> "rejected"
        [] ~Silent(i.cell) /\ (Len(pops[b][k]) < e.pops \/ Len(pushes[b][k]) < e.pushes)
             -> "crashed"
        [] ~(Loads(b, k) \subseteq ks) -> "crashed"
        [] OTHER -> "generated"

Returns == [j \in DOMAIN outputs[ExitBlock] |-> nodes[outputs[ExitBlock][j]].back]

\* Variant: the parameters are not stored.
FirstKnownReturns == Range(Returns)

FirstKnown == {Param(j) : j \in 1 .. effects.pops} \cup Range(Returns)

Generation ==
  FoldLeftDomain(
    LAMBDA g, b :
      FoldLeftDomain(
        LAMBDA h, k :
          IF h.code # "generated" THEN h
          ELSE LET how == Generated(b, k, h.known)
               IN  [code  |-> how,
                    known |-> IF how # "generated" THEN h.known
                              ELSE h.known \cup Stores(b, k)],
        g, blocks[b]),
    [code |-> "generated", known |-> FirstKnown], blocks)

(***************************************************************************)
(* The premises under which generated code does what the blocks mean.      *)
(***************************************************************************)
\* The moves between registers an instruction makes; NoRegister for the source
\* of an element it computes.
Moves(b, k) ==
  LET c  == blocks[b][k].cell
      in == In(b, k)
      from == CASE IsPrimitive(c, "swap") \/ c.kind = "toLocal" -> in
                [] IsPrimitive(c, "rot") -> <<in[2], in[1], in[3]>>
                [] IsPrimitive(c, "dup") -> <<in[1], in[1]>>
                [] c.kind = "fromLocal"  -> <<locals[Key(c)]>>
                [] OTHER                 -> [j \in DOMAIN Out(b, k) |-> NoRegister]
      to == IF c.kind = "toLocal" THEN <<locals[Key(c)]>> ELSE Out(b, k)
  IN  {<<from[j], to[j]>> : j \in DOMAIN to}

\* The registers of the elements an instruction leaves on the stack.
Staying(b, k) ==
  LET s == shape[b][k].stack
  IN  {nodes[s[j]].back : j \in 1 .. Len(s) - Effect(blocks[b][k].cell).pops}

\* The registers that have to keep what they hold during an instruction: of the
\* elements that stay, of the parameters not taken and of the other locals.
Held(b, k) ==
  LET c     == blocks[b][k].cell
      taken == shape[b][k].taken + Max({0, Effect(c).pops - Len(shape[b][k].stack)})
  IN  Staying(b, k) \cup {Param(j) : j \in taken + 1 .. effects.pops}
        \cup {locals[x] : x \in DOMAIN locals \ (IF c.kind = "toLocal" THEN {Key(c)} ELSE {})}

\* No instruction moves something else to a register that is held, or two
\* things to the same.
Unshared ==
  \A b \in Reached : \A k \in DOMAIN blocks[b] :
    LET moves == Moves(b, k)
    IN  /\ \A m \in moves : m[1] # m[2] => m[2] \notin Held(b, k)
        /\ \A m, n \in moves : m[2] = n[2] => m[1] = n[1]

\* The exit block is visited for every edge: nothing may pile up in it.
ExitPlain ==
  \/ ExitOnce
  \/ /\ params[ExitBlock] = <<>> /\ outputs[ExitBlock] = <<>>
     /\ \A k \in DOMAIN blocks[ExitBlock] : pushes[ExitBlock][k] = <<>>

\* Only a block in line with the one before passes elements on.
PassedAlong ==
  \A t \in Reached :
    \/ Range(inputs[t]) \cap Range(outputs[t]) = {}
    \/ \E b \in Reached : NextBBs(b) = <<t>> /\ {e[1] : e \in EdgesInto(t)} = {b}

\* Where the interpreter and the generator take different primitives to mean
\* the same.
OrderOpen == {"&", IF LeftFirst THEN "/" ELSE "<"}

Agreeing ==
  \A b \in Blocks : \A k \in DOMAIN blocks[b] :
    \A q \in OrderOpen : ~IsPrimitive(blocks[b][k].cell, q)

\* Every local has a register of its own.
LocalCells == {c \in UNION {{i.cell : i \in Range(blocks[b])} : b \in Blocks} : IsLocal(c)}
Bound(c)   == <<c.w, c.x>>
KeysDiffer == \A c, d \in LocalCells : Key(c) = Key(d) => Bound(c) = Bound(d)

Sound ==
  /\ Balanced /\ SplitOwnsOne /\ PassedAlong /\ ExitPlain
  /\ Agreeing /\ KeysDiffer
  /\ IsInjective(Returns)
  /\ Unshared

Generate ==
  /\ outcome = "done" /\ code = "none"
  /\ \E root \in BOOLEAN :
       IF root /\ (effects.pops # 0 \/ effects.pushes # 0)
       THEN code' = "rejected" /\ UNCHANGED <<known, sound>>
       ELSE \E g \in {Generation} :
              code' = g.code /\ known' = g.known
                /\ sound' = (g.code = "generated" /\ Sound)
  /\ UNCHANGED <<vars, shape, machine>>

(***************************************************************************)
(* The code generated, running.                                            *)
(***************************************************************************)
\* The arguments are stored at the start of the first block, not of the
\* function: again whenever that block is entered.
Entering(b, m, a) ==
  IF b # 1 THEN m
  ELSE [r \in known |-> IF r.type = "param" /\ r.index \in DOMAIN a THEN a[r.index] ELSE m[r]]

Start ==
  /\ code = "generated"
  /\ code' = "running"
  /\ args' \in [1 .. effects.pops -> Arguments]
  /\ memory' = Entering(1, [r \in known |-> Unset], args')
  /\ UNCHANGED <<vars, shape, sound, known, pc, heap, printed>>

Instruction == blocks[pc[1]][pc[2]]
Current     == Instruction.cell
Is(q)       == code = "running" /\ IsPrimitive(Current, q)

Input(j) == memory[In(pc[1], pc[2])[j]]
Output(j) == Out(pc[1], pc[2])[j]

\* One store after the other: pairs of a register and an element.
Put(stores) ==
  /\ memory' = FoldLeft(LAMBDA m, s : [m EXCEPT ![s[1]] = s[2]], memory, stores)
  /\ pc' = <<pc[1], pc[2] + 1>>
  /\ UNCHANGED <<vars, shape, sound, code, known, args>>

Wrapped(v) == ((v + MaxElement + 1) % (2 * MaxElement + 2)) - MaxElement - 1

\* Variant: the operands in the order they are popped.
ComputeInPopOrder(q, one, two) ==
  CASE q = "=" -> Bool(one = two)
    [] q = "+" -> Wrapped(one + two)
    [] q = "-" -> Wrapped(one - two)
    [] q = "*" -> Wrapped(one * two)
    [] q = "/" -> Wrapped(Quotient(one, two))
    [] q = "<" -> Bool(one < two)
    [] q = "&" -> Wrapped(one + two - BitOr(one, two))

Compute(q, one, two) ==
  CASE q = "=" -> Bool(one = two)
    [] q = "+" -> Wrapped(one + two)
    [] q = "-" -> Wrapped(two - one)
    [] q = "*" -> Wrapped(one * two)
    [] q = "/" -> Wrapped(Quotient(two, one))
    [] q = "<" -> Bool(two < one)
    [] q = "&" -> Wrapped(one + two - BitOr(one, two))

RunBinary ==
  /\ \E q \in BinaryPrimitives :
       /\ Is(q)
       /\ q = "/" => Input(1) # 0
       /\ Put(<< <<Output(1), IF Unset \in {Input(1), Input(2)} THEN Unset
                              ELSE Compute(q, Input(1), Input(2))>> >>)
  /\ UNCHANGED <<heap, printed>>

RunRearrange ==
  /\ \/ Is("swap") /\ Put(<< <<Output(1), Input(1)>>, <<Output(2), Input(2)>> >>)
     \/ Is("rot") /\ Put(<< <<Output(2), Input(1)>>, <<Output(1), Input(2)>>,
                            <<Output(3), Input(3)>> >>)
     \/ Is("dup") /\ Put(<< <<Output(1), Input(1)>>, <<Output(2), Input(1)>> >>)
     \/ Is("drop") /\ Put(<<>>)
     \/ Is("literal") /\ Put(<< <<Output(1), Instruction.operand.n>> >>)
  /\ UNCHANGED <<heap, printed>>

\* The function called has the results stored by the pointers it is given.
RunCall ==
  /\ code = "running" /\ Current.kind = "word"
  /\ LET in == In(pc[1], pc[2])
         results == Answer(Current.w, [j \in DOMAIN in |-> Input(j)])
     IN  Put([j \in DOMAIN results |-> <<Output(j), results[j]>>])
  /\ UNCHANGED <<heap, printed>>

\* printf("%d\n") of an i64.
RunEmit ==
  /\ Is(".")
  /\ printed' = IF Input(1) = Unset THEN Unset ELSE ToInt(Input(1))
  /\ Put(<<>>)
  /\ UNCHANGED heap

RunLocal ==
  /\ code = "running"
  /\ \/ Current.kind = "toLocal" /\ Put(<< <<locals[Key(Current)], Input(1)>> >>)
     \/ Current.kind = "fromLocal" /\ Put(<< <<Output(1), memory[locals[Key(Current)]]>> >>)
  /\ UNCHANGED <<heap, printed>>

RunMemory ==
  /\ \/ /\ Is("malloc")
        /\ \/ \E a \in Addresses \ DOMAIN heap :
                heap' = heap @@ (a :> Unset) /\ Put(<< <<Output(1), a>> >>)
           \/ UNCHANGED heap /\ Put(<< <<Output(1), 0>> >>)
     \/ /\ Is("@") /\ Input(1) \in DOMAIN heap
        /\ Put(<< <<Output(1), heap[Input(1)]>> >>)
        /\ UNCHANGED heap
     \/ /\ Is("!") /\ Input(1) \in DOMAIN heap
        /\ heap' = [heap EXCEPT ![Input(1)] = Input(2)]
        /\ Put(<<>>)
     \/ /\ Is("free") /\ Input(1) \in DOMAIN heap \cup {0}
        /\ heap' = [a \in DOMAIN heap \ {Input(1)} |-> heap[a]]
        /\ Put(<<>>)
  /\ UNCHANGED printed

RunBranch ==
  /\ \/ Is("branch")
     \/ Is("branchif") /\ Input(1) # Unset
  /\ LET b == Instruction.to[IF Is("branchif") /\ Input(1) = 0 THEN 2 ELSE 1]
     IN  pc' = <<b, 1>> /\ memory' = Entering(b, memory, args)
  /\ UNCHANGED <<vars, shape, sound, code, known, args, heap, printed>>

Halt(how) ==
  /\ code' = how
  /\ UNCHANGED <<vars, shape, sound, known, machine>>

RunReturn == code = "running" /\ Current = Exit /\ Halt("ended")

RunUndefined ==
  /\ \/ Is("/") /\ Input(1) = 0
     \/ Is("branchif") /\ Input(1) = Unset
     \/ (Is("@") \/ Is("!")) /\ Input(1) \notin DOMAIN heap
     \/ Is("free") /\ Input(1) \notin DOMAIN heap \cup {0}
  /\ Halt("undefined")

EndedCode ==
  /\ \/ outcome \in {"aborted", "undefined"}
     \/ code \in {"rejected", "aborted", "crashed", "ended", "undefined"}
  /\ UNCHANGED codeVars

NextCode ==
  Analyse \/ Generate \/ Start \/ RunBinary \/ RunRearrange \/ RunCall \/ RunEmit
    \/ RunLocal \/ RunMemory \/ RunBranch \/ RunReturn \/ RunUndefined \/ EndedCode

SpecCode == InitCode /\ [][NextCode]_codeVars

(***************************************************************************)
(* The machine that generated code implements. It is idle for a word that  *)
(* does not meet the premises.                                             *)
(***************************************************************************)
Runs == sound /\ code \in {"running", "ended", "undefined"}

Value(n) == memory[nodes[n].back]

\* The parameters not yet taken are below the elements of the graph. A register
\* returned twice is only stored to by the first pointer.
MachineStack ==
  IF code = "ended"
  THEN [j \in DOMAIN Returns |-> IF \E i \in 1 .. j - 1 : Returns[i] = Returns[j]
                                 THEN Unset ELSE memory[Returns[j]]]
  ELSE LET s == shape[pc[1]][pc[2]]
       IN  Reverse([j \in 1 .. effects.pops - s.taken |-> memory[Param(s.taken + j)]])
             \o [j \in DOMAIN s.stack |-> Value(s.stack[j])]

Machine ==
  INSTANCE StackMachine WITH
    phase  <- IF Runs THEN code ELSE "idle",
    at     <- IF Runs THEN pc ELSE <<1, 1>>,
    stack  <- IF Runs THEN MachineStack ELSE <<>>,
    heap   <- IF Runs THEN heap ELSE <<>>,
    printed <- IF Runs THEN printed ELSE Unset,
    locals <- [k \in {Bound(c) : c \in LocalCells} |->
                 IF Runs THEN memory[locals[<<WordName[k[1]], k[2]>>]] ELSE Unset]

\* Generated code does what the blocks mean: every step of it is a step of the
\* machine.
Implements == Machine!Spec

\* Every block but the first follows an earlier one.
InOrder == \A t \in Blocks \ {1} : \E b \in 1 .. t - 1 : t \in Range(NextBBs(b))

\* A local is stored to in an instruction before any that loads it, as it is
\* known to the interpreter from its first "to" on.
StoredFirst ==
  \A b \in Blocks : \A k \in DOMAIN blocks[b] :
    LET c == blocks[b][k].cell
    IN  c.kind = "fromLocal" =>
          \E a \in 1 .. b : StoresTo(a, IF a = b THEN k ELSE Len(blocks[a]) + 1, Key(c))

\* The generator never reads a node an instruction does not have, nor loads a
\* register without memory, of a word whose blocks can be reached in their order,
\* lead to the exit and agree on the stack and its registers.
GeneratorDefined ==
  code = "crashed" =>
    ~(/\ Balanced /\ SplitOwnsOne /\ PassedAlong
      /\ InOrder /\ Reached \subseteq Exiting /\ StoredFirst)

\* "This process ... allocates unique registers for each element passed on the
\* stack" (README.md:68): an instruction changes none of the elements that stay on
\* the stack.
ElementsKept ==
  [][code = "running" /\ pc' # pc =>
       \A r \in Staying(pc[1], pc[2]) \cap known : memory'[r] = memory[r]]_codeVars
=============================================================================
