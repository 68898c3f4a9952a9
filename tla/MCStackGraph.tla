---------------------------- MODULE MCStackGraph ----------------------------
(***************************************************************************)
(* Instances of StackGraph for TLC: words of three blocks, with every flow *)
(* of control between them.                                                *)
(***************************************************************************)
EXTENDS StackGraph

MCToken == {"x"}

\* The analysis computes no element.
MCBitOr(a, b) == 0

\* The words called: one that adds, one that counts down.
MCWordEffects == <<[pops |-> 2, pushes |-> 1], [pops |-> 1, pushes |-> 1]>>
MCWordName == <<"w">>

Instr(c, to) == [cell |-> c, to |-> to]

Straight(cells, k) == {[i \in DOMAIN s |-> Instr(s[i], <<>>)] : s \in BoundedSeq(cells, k)}

\* The ways out of block b when there are n: a branchif falls through to the
\* next one.
WaysOut(b, n) ==
  {Instr(PrimXt("branch"), <<t>>) : t \in 1 .. n}
  \cup {Instr(PrimXt("branchif"), <<b + 1, t>>) : t \in 1 .. n}

OpenBlocks(b, n, cells, k) ==
  {Append(s, i) : s \in Straight(cells, k), i \in WaysOut(b, n)}

ExitBlocks(cells, k) == {Append(s, Instr(Exit, <<>>)) : s \in Straight(cells, k)}

AnyCell == {PrimXt("literal"), PrimXt("drop"), PrimXt("dup"), WordXt(1), ToLocal(1, "x"),
            FromLocal(1, "x")}

SmallGraphs ==
  {<<a, b, c>> : a \in OpenBlocks(1, 3, AnyCell, 1), b \in OpenBlocks(2, 3, AnyCell, 1),
                 c \in ExitBlocks(AnyCell, 1)}

\* A counter on the stack in two blocks between a first block, which skips or
\* enters them, and the exit.
Counting(b) ==
  {s \o <<i>> : s \in {<<>>, <<Instr(WordXt(2), <<>>)>>,
                         <<Instr(WordXt(2), <<>>), Instr(PrimXt("dup"), <<>>)>>},
                 i \in WaysOut(b, 4)}

CounterGraphs ==
  {<<Append([i \in 1 .. 2 |-> Instr(PrimXt("literal"), <<>>)],
            Instr(PrimXt("branchif"), <<2, t>>)),
     b, c, <<Instr(PrimXt("drop"), <<>>), Instr(Exit, <<>>)>> >> :
     t \in 1 .. 4, b \in Counting(2), c \in Counting(3)}

MCGraphs == SmallGraphs \cup CounterGraphs
=============================================================================
