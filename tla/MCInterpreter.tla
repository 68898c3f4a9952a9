---------------------------- MODULE MCInterpreter ----------------------------
(***************************************************************************)
(* Instances of Interpreter for TLC: the programs of Examples/, programs   *)
(* generated from a small structured language with a meaning of its own,   *)
(* and arbitrary sequences of tokens.                                      *)
(***************************************************************************)
EXTENDS Interpreter

\* One element is 64 bits, an int 32; the runs keep both small enough that
\* sums and "." can leave their ranges.
MCNumberOf ==
  "-3" :> -3 @@ "-1" :> -1 @@ "0" :> 0 @@ "1" :> 1 @@ "2" :> 2 @@ "3" :> 3 @@
  "4" :> 4 @@ "5" :> 5 @@ "7" :> 7 @@ "8" :> 8 @@ "32" :> 32 @@ "42" :> 42 @@
  "99" :> 99 @@ "100" :> 100

\* "2dup" is no word of movForth, and stoi reads the 2.
TinyNumberOf ==
  "-1" :> -1 @@ "0" :> 0 @@ "1" :> 1 @@ "2dup" :> 2 @@ "-3" :> -3 @@ "16" :> 16

\* Two's complement of w bits, w the width of an element.
MCBitOr(a, b) ==
  LET size == 2 * (MaxElement + 1)
      Bit(i, k) == ((i % size) \div 2^k) % 2
      bits == {k \in 0 .. 15 : 2^k < size}
      sum  == MapThenFoldSet(+, 0, LAMBDA k : 2^k * (IF Bit(a, k) + Bit(b, k) > 0
                                                     THEN 1 ELSE 0),
                             LAMBDA S : CHOOSE k \in S : TRUE, bits)
  IN  IF sum > MaxElement THEN sum - size ELSE sum

MCToken == STRING

-----------------------------------------------------------------------------
(***************************************************************************)
(* The programs of Examples/, each followed by "main", which a comment of  *)
(* fibonacci.fs:53 suggests to run during interpretation.                  *)
(***************************************************************************)
\* Examples/Bubble/bubble.fs:9-51, the control flow words.
ControlWords ==
  <<":", "negative", "-1", "*", ";", ":", "jump>", "literal", "branch", ",",
    "here", "0", ",", ";", ":", "jumpif>", "literal", "branchif", ",",
    "here", "0", ",", ";", ":", ">land", "dup", "here", "-", "negative",
    "swap", "!", ";", ":", "land<", "here", ";", ":", "<jumpif", "literal",
    "branchif", ",", "here", "-", ",", ";", ":", "while", "immediate",
    "land<", ";", ":", "repeatif", "immediate", "literal", "literal", ",",
    "0", ",", "literal", "=", ",", "<jumpif", ";", ":", "if", "immediate",
    "jumpif>", ";", ":", "else", "immediate", "jump>", "swap", ">land", ";",
    ":", "then", "immediate", ">land", ";">>

\* Examples/Bubble/bubble.fs:55-73, array utilities and a word named swap.
ArrayWords ==
  <<":", "cells", "8", "*", ";", ":", "get-value", "cells", "+", "@", ";",
    ":", "set-index", "rot", "rot", "cells", "+", "!", ";", ":", "swap",
    "to", "index2", "to", "index1", "to", "pointer", "pointer", "index1",
    "get-value", "to", "num1", "pointer", "index2", "get-value", "to",
    "num2", "pointer", "index1", "num2", "set-index", "pointer", "index2",
    "num1", "set-index", ";">>

\* Examples/Conditional/condition.fs:29.
Conditional ==
  <<":", "conditional", "if", "32", "32", "else", "42", "42", "then", ".",
    ".", ";">>

\* Examples/Loop/loop.fs, with 3 turns for 12.
Loop ==
  <<":", "land<", "here", ";", ":", "<jumpif", "literal", "branchif", ",",
    "here", "-", ",", ";", ":", "while", "immediate", "land<", ";", ":",
    "repeatif", "immediate", "literal", "literal", ",", "0", ",", "literal",
    "=", ",", "<jumpif", ";", ":", "main", "3", "while", "dup", ".", "1",
    "-", "dup", "repeatif", "drop", ";">>

\* Examples/Fibonacci/fibonacci.fs, with 4 turns for 40.
Fibonacci ==
  <<":", "land<", "here", ";", ":", "<jumpif", "literal", "branchif", ",",
    "here", "-", ",", ";", ":", "<jump", "literal", "branch", ",", "here",
    "-", ",", ";", ":", "while", "immediate", "land<", ";", ":", "until0",
    "immediate", "literal", "literal", ",", "1", ",", "literal", "-", ",",
    "literal", "dup", ",", "literal", "literal", ",", "0", ",", "literal",
    "=", ",", "<jumpif", ";", ":", "repeatif", "immediate", "literal",
    "literal", ",", "0", ",", "literal", "=", ",", "<jumpif", ";", ":",
    "main", "1", "1", "4", "while", "rot", "rot", "dup", "rot", "+", "dup",
    ".", "rot", "until0", "drop", "drop", "drop", ";">>

\* Examples/Memory/memory.fs.
MemoryProgram ==
  <<":", "cells", "8", "*", ";", ":", "get-index", "cells", "+", "@", ";",
    ":", "set-index", "rot", "rot", "cells", "+", "!", ";", ":", "main", "2",
    "cells", "malloc", "to", "array", "array", "0", "99", "set-index",
    "array", "1", "100", "set-index", "array", "0", "get-index", ".",
    "array", "1", "get-index", ".", "array", "free", ";">>

\* Examples/MultipleWords/multiple.fs.
Multiple ==
  <<":", "print", ".", ";", ":", "main", "42", "print", "42", "print", "42",
    "print", ";">>

\* Examples/Swap/swap.fs.
SwapProgram ==
  <<":", "main", "1", "2", "swap", ".", ".", ";">>

\* Examples/SimpleEmit/emit.fs.
SimpleEmit == <<":", "main", "42", ".", ";">>

\* Examples/Bubble/bubble.fs:75-128: 3 elements for 20000, and smaller numbers
\* in "random": -3 * 5 + 7 & for 1309 * 13849 + 65535 &.
Bubble ==
  <<":", "print-array", "to", "length", "to", "pointer", "0", "to", "index",
    "while", "pointer", "index", "get-value", ".", "index", "1", "+", "to",
    "index", "index", "length", "<", "repeatif", ";", ":", "random", "-3",
    "*", "5", "+", "7", "&", ";", ":", "populate", "to", "length", "42", "to", "seed",
    "length", "8", "*", "malloc", "to", "pointer", "0", "to", "i", "while",
    "seed", "random", "to", "seed", "pointer", "i", "seed", "set-index", "i",
    "1", "+", "to", "i", "i", "length", "<", "repeatif", "pointer", ";", ":",
    "main", "3", "to", "length", "length", "populate", "to", "array", "0",
    "to", "i", "while", "0", "to", "j", "while", "array", "j", "1", "+",
    "get-value", "array", "j", "get-value", "<", "if", "array", "j", "j",
    "1", "+", "swap", "then", "j", "1", "+", "to", "j", "j", "length", "i",
    "-", "1", "-", "<", "repeatif", "i", "1", "+", "to", "i", "i", "length",
    "1", "-", "<", "repeatif", "array", "length", "print-array", "array",
    "free", ";">>

\* What each program may print. Bubble sorts 7, 0 and 5 if & keeps the bits both
\* operands have, and -121, 375 and -1113 if it ORs them (MasksBits).
Expected ==
  (SimpleEmit \o <<"main">>                :> {<<42>>}) @@
  (Loop \o <<"main">>                      :> {<<3, 2, 1>>}) @@
  (Fibonacci \o <<"main">>                 :> {<<2, 3, 5, 8>>}) @@
  (Multiple \o <<"main">>                  :> {<<42, 42, 42>>}) @@
  (SwapProgram \o <<"main">>               :> {<<1, 2>>}) @@
  (MemoryProgram \o <<"main">>             :> {<<99, 100>>}) @@
  (ControlWords \o Conditional \o <<"1", "conditional">> :> {<<32, 32>>}) @@
  (ControlWords \o Conditional \o <<"0", "conditional">> :> {<<42, 42>>}) @@
  (ControlWords \o ArrayWords \o Bubble \o <<"main">> :>
     {<<0, 5, 7>>, <<-1113, -121, 375>>})

ExampleSources == DOMAIN Expected

\* Every example, run during interpretation, ends with an empty stack and has
\* printed what its text says; only a malloc that fails can stop it. This takes
\* the immediate words if, else, while and repeatif to patch the definition
\* under construction at the right cells, and locals and rot to work.
ExamplesPrint ==
  \/ status = "running" \/ source \notin ExampleSources
  \/ status = "done" /\ out \in Expected[source] /\ stack = <<>>
  \/ status = "undefined" /\ "malloc" \in Range(source) /\ heap = <<>>

\* @, ! and free take any address, and malloc reuses what was freed. The
\* examples nevertheless keep to memory they own: whatever they are about to
\* read or write is a cell of a block granted and not freed, they free only
\* such a block, and they end having freed every block; unless malloc failed.
AccessesOwned ==
  source \in ExampleSources /\ heap # <<>> =>
    /\ status = "running" /\ xt \in {PrimXt("@"), PrimXt("!")} /\ immediate =>
         Owned(TopNumber(stack))
    /\ status = "running" /\ xt = PrimXt("free") =>
         \E b \in DOMAIN heap : heap[b].live /\ TopNumber(stack) = Base(b)
    /\ status = "done" => \A b \in DOMAIN heap : ~heap[b].live

-----------------------------------------------------------------------------
(***************************************************************************)
(* Structured programs: a number y is incremented, printed, tested and     *)
(* loops count down, with the control words of Examples/.                  *)
(***************************************************************************)
If(S)       == {[kind |-> "if", then |-> a, else |-> b] : a \in S, b \in S}
When(S)     == {[kind |-> "when", then |-> a] : a \in S}
Seqs(S)     == {[kind |-> "seq", first |-> a, second |-> b] : a \in S, b \in S}
Loops(x, S) == {[kind |-> "loop", counter |-> x, turns |-> n, body |-> a] :
                  n \in {1, 2}, a \in S}

Statements(simple) ==
  LET inner == simple \cup If(simple) \cup When(simple) \cup Loops("i", simple)
  IN  inner \cup If(inner) \cup When(inner) \cup Loops("j", inner) \cup Seqs(inner)

Digit(n) == IF n = 1 THEN "1" ELSE "2"

\* The Forth text of a statement.
RECURSIVE Code(_)
Code(a) ==
  CASE a.kind = "emit" -> <<"y", ".">>
    [] a.kind = "bump" -> <<"y", "1", "+", "to", "y">>
    [] a.kind = "if"   -> <<"y", "if">> \o Code(a.then) \o <<"else">>
                            \o Code(a.else) \o <<"then">>
    [] a.kind = "when" -> <<"y", "if">> \o Code(a.then) \o <<"then">>
    [] a.kind = "seq"  -> Code(a.first) \o Code(a.second)
    [] a.kind = "loop" ->
         <<Digit(a.turns), "to", a.counter, "while">> \o Code(a.body) \o
         <<a.counter, "1", "-", "to", a.counter, a.counter, "repeatif">>

Program(a) ==
  ControlWords \o <<":", "main", "0", "to", "y">> \o Code(a) \o
  <<"y", ".", ";", "main">>

StructuredPrograms == Statements({[kind |-> "bump"], [kind |-> "emit"]})

\* Its meaning: what it does to y and to the output.
Meaning[a \in StructuredPrograms, m \in [y : Nat, out : Seq(Nat)]] ==
  CASE a.kind = "emit" -> [m EXCEPT !.out = Append(@, m.y)]
    [] a.kind = "bump" -> [m EXCEPT !.y = @ + 1]
    [] a.kind = "if"   -> Meaning[IF m.y # 0 THEN a.then ELSE a.else, m]
    [] a.kind = "when" -> IF m.y # 0 THEN Meaning[a.then, m] ELSE m
    [] a.kind = "seq"  -> Meaning[a.second, Meaning[a.first, m]]
    [] a.kind = "loop" ->
         IF a.turns = 1 THEN Meaning[a.body, m]
         ELSE Meaning[[a EXCEPT !.turns = 1], Meaning[a.body, m]]

StructuredSources == {Program(a) : a \in StructuredPrograms}

Prints(a) ==
  LET m == Meaning[a, [y |-> 0, out |-> <<>>]] IN Append(m.out, m.y)

\* A structured program prints what its structure means, however its ifs and
\* loops nest: the branches compiled by the immediate words close over exactly
\* their bodies.
StructuredMeaning ==
  status # "running" /\ source \in StructuredSources =>
    /\ status = "done"
    /\ stack = <<>>
    /\ \E a \in StructuredPrograms : source = Program(a) /\ out = Prints(a)

\* Every structured program is read to its end and stops.
ProgramEnds == source \in StructuredSources ~> status = "done"

ProgramSources == ExampleSources \cup StructuredSources

\* The offset of a branch is advanced by without a check, and the immediate words
\* compute it from places they marked by here. In examples and structured
\* programs every branch about to execute has its offset, and leads, without
\* wrapping around the list, to where an instruction starts or to the end of
\* the definition: never to an operand or outside.
JumpsLand ==
  status = "running" /\ xt.kind = "prim" /\ IsBranch(xt) =>
    /\ HasOperand /\ IsNumber(Operand)
    /\ Frame0.pc + Operand.n \in Instructions(Body)
    /\ Frame0.pc + Operand.n <= Len(Body) + 1

-----------------------------------------------------------------------------
(***************************************************************************)
(* Arbitrary token sequences.                                              *)
(***************************************************************************)
\* Up to three tokens, at the top level, in a definition, or after one, and
\* the word x afterwards or not.
DefiningTokens ==
  {":", ";", "x", "to", "1", "2dup", "-3", "immediate", ",", "allot", "!", "'", "here",
   "]"}

DefiningSources ==
  {prefix \o s \o suffix :
     prefix \in {<<>>, <<":", "x">>, <<":", "x", "to", "x", ";">>,
                 <<":", "x", ";", ":", "x", ";", "'", "x">>,
                 <<":", "y", "to", "1", "'", "x", ",", "!", ";", "1", ":", "x", "1">>},
     s \in BoundedSeq(DefiningTokens, 3), suffix \in {<<>>, <<";", "x", "y">>}}

\* A recursive word of up to three instructions, with branches of any offset.
Instruction ==
  {<<q, "[", n, ",", "]">> : q \in {"branch", "branchif", "literal"},
                             n \in {"-3", "-1", "0", "1"}}
  \cup {<<"dup">>, <<"drop">>, <<"x">>, <<"to", "l">>, <<"l">>, <<"[", "here", "]">>}

ControlSources ==
  {<<":", "x", "to", "l">> \o FlattenSeq(s) \o <<";", "1", "x">> :
     s \in BoundedSeq(Instruction, 3)}

\* Primitives that fail or leave the defined behaviour.
FaultSources ==
  {s \o t : s \in {<<>>, <<"1">>, <<"2dup", "0">>, <<"16", "malloc">>, <<"-1", "malloc">>},
            t \in {<<q>> : q \in Primitives \ ImmediatePrimitives}
                  \cup {<<"dup", "free", q>> : q \in {"free", "@"}}
                  \cup {<<"dup", "1", "rot", "!", "@">>, <<"dup", "free", "dup", "!">>}}

TokenSources == DefiningSources \cup ControlSources \cup FaultSources

\* "7 2 &" printed.
MaskSources == {<<a, b, "&", ".">> : a, b \in {"1", "2", "7", "42"}}

\* & keeps the bits both operands have: it is registered as the primitive AND
\* (PrimitiveEnums.h:37), compiled as one (IRGenerator.cpp:348), and bubble.fs
\* masks with it. The interpreter's & ORs its operands.
MasksBits ==
  status = "done" /\ source = <<"7", "2", "&", ".">> => out = <<2>>

\* Bound of the runs over arbitrary tokens, whose loops may push forever.
StackBound == Len(stack) <= 5
=============================================================================
