---------------------------- MODULE MCBasicBlocks ----------------------------
(***************************************************************************)
(* Instances of BasicBlocks for TLC: one definition with branches of any   *)
(* offset, and words that call each other.                                 *)
(***************************************************************************)
EXTENDS BasicBlocks

MCToken == {"x"}

\* The translation computes no element.
MCBitOr(a, b) == 0

Definitions(S, k) == {FlattenSeq(s) : s \in BoundedSeq(S, k)}

Branching(offsets) ==
  {<<PrimXt(q), Num(n)>> : q \in {"branch", "branchif"}, n \in offsets}

\* The last offset leads backwards once it is kept as a short.
FlowPrograms ==
  {<<d>> : d \in Definitions({<<PrimXt("dup")>>, <<PrimXt("literal"), Num(1)>>}
                             \cup Branching({-4, -2, -1, 0, 1, 2, MaxShort + MaxShort}), 4)}

Pieces(w) ==
  {<<WordXt(v)>> : v \in 1 .. w} \cup {<<PrimXt("literal"), WordXt(v)>> : v \in 1 .. w}
  \cup {<<PrimXt("branch"), Num(1)>>, <<PrimXt("branchif"), Num(-2)>>,
        <<PrimXt("literal"), PrimXt("branch")>>, <<PrimXt("literal")>>, <<Num(1)>>, <<Undef>>,
        <<FromLocal(w, "x")>>}

CallPrograms ==
  {<<a, b, c>> : a \in Definitions(Pieces(1), 1), b \in Definitions(Pieces(2), 1),
                 c \in Definitions(Pieces(3), 2)}

MCPrograms == FlowPrograms \cup CallPrograms
=============================================================================
