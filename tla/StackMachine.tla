---------------------------- MODULE StackMachine ----------------------------
(***************************************************************************)
(* What the blocks of a word mean: they are run on a data stack, one       *)
(* instruction at a time, and do what the primitives of the interpreter    *)
(* do. Code generated for the word is to implement this.                   *)
(*                                                                         *)
(* Where C++ leaves the result of a primitive open, so does this machine.  *)
(***************************************************************************)
EXTENDS Cells, SequencesExt

CONSTANTS
  WordEffects,    \* the effects of the words called
  Answer(_, _),   \* what one answers, bottom first, to its arguments, top first
  Arguments,      \* what the word itself may be called with
  Addresses,      \* where malloc finds a cell
  Unset,          \* an element nobody has set yet
  LeftFirst       \* pop() / pop() pops its left operand first

VARIABLES
  blocks,    \* sWord::blocks: instructions with the blocks they lead to
  phase,     \* "idle", "running", "ended" or "undefined"
  at,        \* the instruction to run, as a block and a position
  stack,     \* the data stack
  locals,    \* ForthWord::locals, by word and name
  heap,      \* the cells of memory not freed
  printed    \* the last element printed

vars == <<blocks, phase, at, stack, locals, heap, printed>>

Init ==
  /\ phase = "idle"
  /\ at = <<1, 1>>
  /\ stack = <<>>
  /\ \A k \in DOMAIN locals : locals[k] = Unset
  /\ heap = <<>>
  /\ printed = Unset

\* The word is called.
Call ==
  /\ phase = "idle"
  /\ phase' = "running"
  /\ stack' \in Seq(Arguments)
  /\ UNCHANGED <<blocks, at, locals, heap, printed>>

-----------------------------------------------------------------------------
Instruction == blocks[at[1]][at[2]]
Cell0       == Instruction.cell

\* The j-th element from the top, and the stack without n elements.
Top(j)   == stack[Len(stack) + 1 - j]
Below(n) == SubSeq(stack, 1, Len(stack) - n)
Has(n)   == phase = "running" /\ Len(stack) >= n

\* The instruction ends well; s is the new stack.
Proceed(s) ==
  /\ stack' = s
  /\ at' = <<at[1], at[2] + 1>>
  /\ UNCHANGED <<blocks, phase>>

Result(q, a, b) ==
  LET left  == IF LeftFirst THEN a ELSE b
      right == IF LeftFirst THEN b ELSE a
  IN  CASE q = "=" -> Bool(a = b)
        [] q = "+" -> a + b
        [] q = "-" -> b - a
        [] q = "*" -> a * b
        [] q = "<" -> Bool(left > right)
        [] q = "&" -> BitOr(a, b)
        [] q = "/" -> IF right = 0 THEN MaxElement + 1 ELSE Quotient(left, right)

\* A result that is no element may be any.
Results(q, a, b) ==
  IF Unset \in {a, b} THEN {Unset}
  ELSE IF Result(q, a, b) \in Element THEN {Result(q, a, b)} ELSE Element

Binary ==
  /\ Cell0.kind = "prim" /\ Cell0.p \in BinaryPrimitives
  /\ Has(2)
  /\ \E v \in Results(Cell0.p, Top(1), Top(2)) : Proceed(Append(Below(2), v))
  /\ UNCHANGED <<locals, heap, printed>>

Rearrange ==
  /\ \/ IsPrimitive(Cell0, "swap") /\ Has(2) /\ Proceed(Below(2) \o <<Top(1), Top(2)>>)
     \/ IsPrimitive(Cell0, "rot") /\ Has(3)
          /\ Proceed(Below(3) \o <<Top(2), Top(1), Top(3)>>)
     \/ IsPrimitive(Cell0, "dup") /\ Has(1) /\ Proceed(Append(stack, Top(1)))
     \/ IsPrimitive(Cell0, "drop") /\ Has(1) /\ Proceed(Below(1))
     \/ IsPrimitive(Cell0, "literal") /\ Has(0)
          /\ Proceed(Append(stack, Instruction.operand.n))
  /\ UNCHANGED <<locals, heap, printed>>

Word ==
  /\ Cell0.kind = "word"
  /\ LET n == WordEffects[Cell0.w].pops
     IN  Has(n) /\ Proceed(Below(n) \o Answer(Cell0.w, [j \in 1 .. n |-> Top(j)]))
  /\ UNCHANGED <<locals, heap, printed>>

Emit ==
  /\ IsPrimitive(Cell0, ".") /\ Has(1)
  /\ printed' = IF Top(1) = Unset THEN Unset ELSE ToInt(Top(1))
  /\ Proceed(Below(1))
  /\ UNCHANGED <<locals, heap>>

Local ==
  /\ \/ /\ Cell0.kind = "toLocal" /\ Has(1)
        /\ locals' = [locals EXCEPT ![<<Cell0.w, Cell0.x>>] = Top(1)]
        /\ Proceed(Below(1))
     \/ /\ Cell0.kind = "fromLocal" /\ Has(0)
        /\ Proceed(Append(stack, locals[<<Cell0.w, Cell0.x>>]))
        /\ UNCHANGED locals
  /\ UNCHANGED <<heap, printed>>

\* malloc may fail.
Memory ==
  /\ \/ /\ IsPrimitive(Cell0, "malloc") /\ Has(1)
        /\ \/ \E a \in Addresses \ DOMAIN heap :
                heap' = heap @@ (a :> Unset) /\ Proceed(Append(Below(1), a))
           \/ UNCHANGED heap /\ Proceed(Append(Below(1), 0))
     \/ /\ IsPrimitive(Cell0, "@") /\ Has(1) /\ Top(1) \in DOMAIN heap
        /\ Proceed(Append(Below(1), heap[Top(1)]))
        /\ UNCHANGED heap
     \/ /\ IsPrimitive(Cell0, "!") /\ Has(2) /\ Top(1) \in DOMAIN heap
        /\ heap' = [heap EXCEPT ![Top(1)] = Top(2)]
        /\ Proceed(Below(2))
     \/ /\ IsPrimitive(Cell0, "free") /\ Has(1) /\ Top(1) \in DOMAIN heap \cup {0}
        /\ heap' = [a \in DOMAIN heap \ {Top(1)} |-> heap[a]]
        /\ Proceed(Below(1))
  /\ UNCHANGED <<locals, printed>>

GoTo(b, s) == at' = <<b, 1>> /\ stack' = s /\ UNCHANGED <<blocks, phase>>

Branch ==
  /\ \/ IsPrimitive(Cell0, "branch") /\ Has(0) /\ GoTo(Instruction.to[1], stack)
     \/ /\ IsPrimitive(Cell0, "branchif") /\ Has(1) /\ Top(1) # Unset
        /\ GoTo(Instruction.to[IF Top(1) = 0 THEN 2 ELSE 1], Below(1))
  /\ UNCHANGED <<locals, heap, printed>>

End ==
  /\ Cell0.kind = "exit" /\ Has(0)
  /\ phase' = "ended"
  /\ UNCHANGED <<blocks, at, stack, locals, heap, printed>>

\* Division by zero, an address outside memory, a branch on no element.
Undefined ==
  /\ \/ IsPrimitive(Cell0, "/") /\ Has(2) /\ 0 \in {Top(1), Top(2)}
     \/ \E q \in {"@", "!", "free"} : /\ IsPrimitive(Cell0, q) /\ Has(1)
                                     /\ Top(1) \notin DOMAIN heap
                                     /\ q = "free" => Top(1) # 0
     \/ IsPrimitive(Cell0, "branchif") /\ Has(1) /\ Top(1) = Unset
  /\ phase' = "undefined"
  /\ UNCHANGED <<blocks, at, stack, locals, heap, printed>>

Next ==
  Call \/ Binary \/ Rearrange \/ Word \/ Emit \/ Local \/ Memory \/ Branch \/ End
    \/ Undefined

Spec == Init /\ [][Next]_vars
=============================================================================
