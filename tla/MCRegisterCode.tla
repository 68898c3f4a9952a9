---------------------------- MODULE MCRegisterCode ----------------------------
(***************************************************************************)
(* Instances of RegisterCode for TLC: straight words, and words with a     *)
(* condition or a loop.                                                    *)
(***************************************************************************)
EXTENDS RegisterCode

MCToken == {"x"}
MCBitOr(a, b) == IF a + b > 0 THEN 1 ELSE 0

\* The words called: one adds, one answers its argument and 1, one counts down.
MCWordEffects == <<[pops |-> 2, pushes |-> 1], [pops |-> 1, pushes |-> 2],
                   [pops |-> 1, pushes |-> 1]>>
MCAnswer(w, a) ==
  IF w = 2 THEN <<a[1], 1>>
  ELSE IF Unset \in Range(a) THEN <<Unset>>
  ELSE <<Wrapped(IF w = 1 THEN a[1] + a[2] ELSE a[1] - 1)>>
MCWordName == <<"w", "w">>

Instr(c, n, to) == [cell |-> c, operand |-> Num(n), to |-> to]
\* A literal whose operand is a word.
LitXt  == [cell |-> PrimXt("literal"), operand |-> WordXt(1), to |-> <<>>]
P(q)   == Instr(PrimXt(q), 0, <<>>)
Lit(n) == Instr(PrimXt("literal"), n, <<>>)
CallTo(w) == Instr(WordXt(w), 0, <<>>)
Leave  == Instr(Exit, 0, <<>>)

Common == {Lit(1), P("dup"), P("swap"), P("."), P("-"), CallTo(2),
           Instr(ToLocal(1, "x"), 0, <<>>), Instr(FromLocal(1, "x"), 0, <<>>)}

Every == Common \cup {P(q) : q \in {"rot", "drop", "<", "=", "malloc", "@", "!", "free", "/", "&"}}
              \cup {Lit(0), LitXt, CallTo(1)}

Straight(cells, n) == {<<Append(s, Leave)>> : s \in BoundedSeq(cells, n)}

Jump(b)      == Instr(PrimXt("branch"), 0, <<b>>)
Fork(b, far) == Instr(PrimXt("branchif"), 0, <<b, far>>)

Few == {Lit(1), P("dup"), P("."), P("-")}

\* "if ... else ... then".
Conditionals ==
  {<<Append(a, Fork(2, 3)), Append(b, Jump(4)), Append(c, Jump(4)), Append(d, Leave)>> :
     a, b, c, d \in BoundedSeq(Few, 1)}

\* "while ... repeatif".
Loops ==
  {<<Append(a, Jump(2)), Append(b, Fork(3, 2)), Append(d, Leave)>> :
     a \in BoundedSeq(Few, 2), b \in BoundedSeq(Few, 3), d \in BoundedSeq(Few, 1)}

\* A counter on the stack in two blocks between the first, which skips or enters
\* them, and the exit, which prints it.
Counting(b) ==
  {Append(s, i) : s \in {<<>>, <<CallTo(3)>>, <<CallTo(3), P("dup")>>},
                  i \in {Jump(t) : t \in 1 .. 4} \cup {Fork(b + 1, t) : t \in 1 .. 4}}

Counters ==
  {<< <<Lit(2), Lit(1), Fork(2, t)>>, b, c, <<P("."), Leave>> >> :
     t \in 1 .. 4, b \in Counting(2), c \in Counting(3)}

\* Every flow of control between three blocks.
Flows ==
  {<<Append(a, i), Append(b, j), Append(d, Leave)>> :
     a, b, d \in BoundedSeq({Lit(1), P("-"), P("dup")}, 1),
     i \in {Jump(t) : t \in 1 .. 3} \cup {Fork(2, t) : t \in 1 .. 3},
     j \in {Jump(t) : t \in 1 .. 3} \cup {Fork(3, t) : t \in 1 .. 3}}

Moving == {Lit(1), P("dup"), P("swap"), P("."), Instr(ToLocal(1, "x"), 0, <<>>),
           Instr(FromLocal(1, "x"), 0, <<>>)}

\* The locals of two words of the same name.
Renamed == {Lit(1), P("."), Instr(ToLocal(1, "x"), 0, <<>>), Instr(ToLocal(2, "x"), 0, <<>>),
            Instr(FromLocal(1, "x"), 0, <<>>)}

\* Loads with no store before them: from a register the block before does not
\* store to, as both of its successors had registers; of a parameter the exit
\* does not count; of a local.
Unstored ==
  {<< <<Lit(1), Fork(2, 3)>>, <<Jump(6)>>, <<Lit(1), Lit(1), Fork(4, 5)>>, <<P("."), Jump(8)>>,
      <<P("."), Jump(8)>>, <<Lit(1), Lit(1), Fork(7, 4)>>, <<P("."), Lit(1), Jump(5)>>, <<Leave>> >>,
   << <<Lit(1), Fork(2, 4)>>, <<P("."), Jump(3)>>, <<Jump(3)>>, <<Leave>> >>,
   << <<Lit(1), Fork(2, 3)>>, <<Jump(4)>>, <<Instr(FromLocal(1, "x"), 0, <<>>), P("."), Jump(4)>>,
      <<Lit(1), Instr(ToLocal(1, "x"), 0, <<>>), Leave>> >>}

MCGraphs ==
  Straight(Every, 3) \cup Straight(Moving, 4) \cup Straight(Renamed, 4)
    \cup Conditionals \cup Loops \cup Counters \cup Flows \cup Unstored

MovingGraphs == Straight(Moving, 4)

\* Only words that meet the premises are run.
RunSound == code = "running" => sound
=============================================================================
