----------------------------- MODULE MCInlining -----------------------------
(***************************************************************************)
(* Instances of Inlining for TLC: dictionaries of three words, of which a  *)
(* later one calls earlier ones or itself. MaxSize, 50 in the program, is  *)
(* small, so that some calls fit and some do not.                          *)
(***************************************************************************)
EXTENDS Inlining

MCToken == {"x"}

\* The inliner computes no element.
MCBitOr(a, b) == 0

Word(name, d) ==
  [name |-> name, body |-> d, names |-> {c.x : c \in {e \in Range(d) : IsLocal(e)}}]

\* Definitions of up to k instructions taken from S.
Definitions(S, k) == {FlattenSeq(s) : s \in BoundedSeq(S, k)}

Branching(offsets) ==
  {<<PrimXt(q), Num(n)>> : q \in {"branch", "branchif"}, n \in offsets}

FirstBodies ==
  {<<>>, <<PrimXt("dup")>>, <<PrimXt("literal")>>, <<PrimXt("dup"), PrimXt("drop"), PrimXt("dup")>>,
   <<ToLocal(1, "x"), FromLocal(1, "x")>>}

SecondBodies ==
  Definitions({<<WordXt(1)>>, <<WordXt(2)>>, <<FromLocal(2, "x")>>,
               <<PrimXt("branchif"), Num(-2)>>}, 2)

ThirdBodies ==
  Definitions({<<WordXt(1)>>, <<WordXt(2)>>, <<PrimXt("drop")>>,
               <<PrimXt("branch"), Num(-3)>>}, 3)
  \cup Definitions({<<WordXt(1)>>, <<WordXt(3)>>, <<PrimXt("literal"), WordXt(2)>>,
                    <<PrimXt("literal"), PrimXt("branch")>>, <<PrimXt("branch")>>}, 3)

\* The third word has the name of the first: the dictionary keeps both.
CallPrograms ==
  {<<Word("x", a), Word("", b), Word("x", c)>> : a \in FirstBodies, b \in SecondBodies, c \in ThirdBodies}

\* Branches over and around calls.
BranchPrograms ==
  {<<Word("x", a), Word("", b)>> :
     a \in {<<>>, <<PrimXt("dup"), PrimXt("drop"), PrimXt("dup")>>},
     b \in Definitions({<<WordXt(1)>>, <<PrimXt("drop")>>,
                        <<PrimXt("literal"), Num(1)>>}
                       \cup Branching({-4, -3, -2, -1, 0, 1, 2, 3}), 3)}

MCPrograms == CallPrograms \cup BranchPrograms
=============================================================================
