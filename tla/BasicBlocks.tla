----------------------------- MODULE BasicBlocks -----------------------------
(***************************************************************************)
(* Analysis::static_analysis and translate_to_basic_blocks: the definition *)
(* of a word, and of the words it calls, is cut into basic blocks.         *)
(*                                                                         *)
(* The active calls of translate_to_basic_blocks are the sequence calls:   *)
(* each has created the blocks of its word and fills them cell by cell,    *)
(* suspended whenever a cell or an operand is a word not translated yet.   *)
(***************************************************************************)
EXTENDS Cells, SequencesExt, FiniteSetsExt

CONSTANTS
  Programs,   \* sequences of definitions, one per word
  MaxShort    \* largest short, the type BasicBlockBuilder counts cells with

ASSUME ShortAssumption == MaxShort \in Nat

\* A definition calls its own word and older ones (CallsOlder of Interpreter),
\* and a short counts its cells and its end (the bound on its length).
ASSUME ProgramsAssumption ==
  \A p \in Programs :
    /\ p \in Seq(Seq(Cell))
    /\ \A w \in DOMAIN p :
         /\ Len(p[w]) < MaxShort
         /\ \A i \in DOMAIN p[w] : p[w][i].kind = "word" => p[w][i].w \in 1 .. w

VARIABLES
  def,       \* the definitions
  blocks,    \* sWord::blocks of each word, <<>> while it has none
  visited,   \* the keys of visited_words
  calls,     \* the active calls of translate_to_basic_blocks, innermost last
  graphed,   \* the words given to word_stack_graph, in order
  outcome    \* "running", "done", "aborted" (bad_variant_access) or "undefined"

vars == <<def, blocks, visited, calls, graphed, outcome>>

Words == DOMAIN def

(***************************************************************************)
(* BasicBlockBuilder. A block starts at the first cell and wherever a      *)
(* branch may lead. Every cell that is a branch counts, the operand of a   *)
(* literal as well.                                                        *)
(***************************************************************************)
\* An int kept as a short.
ToShort(i) == ((i + MaxShort + 1) % (2 * MaxShort + 2)) - MaxShort - 1

\* Variant: offsets count from the cell of the branch itself.
TargetFromBranch(d, i) == ToShort(i - 1 + d[i + 1].n) + 1

\* make_bb_for_jump: from + delta + 1, counted from 0, kept as a short.
Target(d, i) == ToShort(i + d[i + 1].n) + 1

BranchesOf(d) == {i \in DOMAIN d : IsBranch(d[i])}

GoodBranch(d, i) ==
  i < Len(d) /\ IsNumber(d[i + 1]) /\ Target(d, i) \in 1 .. Len(d) + 1

Leaders(d) ==
  {1} \cup {Target(d, i) : i \in BranchesOf(d)}
      \cup {i + 2 : i \in {j \in BranchesOf(d) : d[j].p = "branchif"}}

\* createBBs numbers the blocks in the order of their first cells.
BlockAt(d, i) == Cardinality({l \in Leaders(d) : l <= i})

(***************************************************************************)
(* Instructions: the cell, its operand, the blocks it may jump to and the  *)
(* cell of the definition it stems from (history; 0 for what is added).    *)
(***************************************************************************)
Instr(c, operand, to, at) == [cell |-> c, operand |-> operand, to |-> to, at |-> at]

Exit        == [kind |-> "exit"]
IsBranchy(c) == IsBranch(c) \/ c = Exit
BranchTo(b) == Instr(PrimXt("branch"), Undef, <<b>>, 0)

Translated(d, i) ==
  LET c == d[i]
      operand == IF IsStateful(c) THEN d[i + 1] ELSE Undef
      to == IF IsPrimitive(c, "branch") THEN <<BlockAt(d, Target(d, i))>>
            ELSE IF IsPrimitive(c, "branchif")
            THEN <<BlockAt(d, i + 2), BlockAt(d, Target(d, i))>>
            ELSE <<>>
  IN  Instr(c, operand, to, i)

(***************************************************************************)
(* static_analysis.                                                        *)
(***************************************************************************)
Enter(w) == [w |-> w, at |-> 1, block |-> 1]

NoBlocks(d) == [b \in 1 .. Cardinality(Leaders(d)) |-> <<>>]

\* What the scan for branches stops with, at the first bad one.
ScanFails(d) ==
  LET bad == {i \in BranchesOf(d) : ~GoodBranch(d, i)}
      i   == Min(bad)
  IN  IF bad = {} THEN {}
      ELSE IF i < Len(d) /\ ~IsNumber(d[i + 1]) THEN {"aborted"} ELSE {"undefined"}

Stop(how) ==
  /\ outcome' = how
  /\ UNCHANGED <<def, blocks, visited, calls, graphed>>

\* translate_to_basic_blocks(w), up to the loop that fills the blocks, from
\* the calls that wait for it.
Translate(w, waiting) ==
  \/ /\ ScanFails(def[w]) = {}
     /\ visited' = visited \cup {w}
     /\ blocks' = [blocks EXCEPT ![w] = NoBlocks(def[w])]
     /\ calls' = Append(waiting, Enter(w))
     /\ UNCHANGED <<def, graphed, outcome>>
  \/ \E how \in ScanFails(def[w]) : Stop(how)

\* Analysis::static_analysis of a word, by main.
Init ==
  /\ def \in Programs
  /\ blocks = [w \in Words |-> <<>>]
  /\ visited = {}
  /\ calls = <<>>
  /\ graphed = <<>>
  /\ outcome = "running"

Start ==
  /\ outcome = "running" /\ visited = {}
  /\ \E root \in Words : Translate(root, calls)

Current == Last(calls)
Word    == Current.w
Body    == def[Word]
At      == Current.at

Filling == outcome = "running" /\ calls # <<>>
Inside  == Filling /\ At <= Len(Body)

IsNew(c) == c.kind = "word" /\ c.w \notin visited

\* The word in a cell, or the word a literal pushes, is translated first.
VisitWord ==
  /\ Inside
  /\ \/ IsNew(Body[At]) /\ Translate(Body[At].w, calls)
     \/ /\ IsStateful(Body[At]) /\ At < Len(Body)
        /\ IsNew(Body[At + 1])
        /\ Translate(Body[At + 1].w, calls)

\* Variant: a number is looked at for ever.
NoWordForever == Inside /\ ~IsWord(Body[At]) /\ UNCHANGED vars

\* as_word() of a number is nullptr, of an empty cell an exception.
NoWord ==
  /\ Inside
  /\ \/ IsNumber(Body[At]) /\ Stop("undefined")
     \/ Body[At] = Undef /\ Stop("aborted")

NoOperand == Inside /\ IsStateful(Body[At]) /\ At = Len(Body) /\ Stop("undefined")

\* Variant: every instruction has an operand.
NextAtTwo == At + 2

NextAt == NextInstruction(Body, At)

\* Variant: blocks end where they end.
FillOnly ==
  /\ Inside
  /\ IsWord(Body[At]) /\ ~IsNew(Body[At])
  /\ IsStateful(Body[At]) => At < Len(Body) /\ ~IsNew(Body[At + 1])
  /\ LET leads  == NextAt \in Leaders(Body)
         next   == BlockAt(Body, NextAt)
     IN  /\ blocks' = [blocks EXCEPT ![Word][Current.block] =
                                               Append(@, Translated(Body, At))]
         /\ calls' = [calls EXCEPT ![Len(calls)] =
                        [w |-> Word, at |-> NextAt,
                         block |-> IF leads THEN next ELSE Current.block]]
  /\ UNCHANGED <<def, visited, graphed, outcome>>

\* One instruction is appended. Where the next cell starts a block, the current
\* one is closed, with a branch unless it ends in one, and filling goes on
\* there. A block whose first cell is an operand is passed by.
Fill ==
  /\ Inside
  /\ IsWord(Body[At]) /\ ~IsNew(Body[At])
  /\ IsStateful(Body[At]) => At < Len(Body) /\ ~IsNew(Body[At + 1])
  /\ LET leads  == NextAt \in Leaders(Body)
         next   == BlockAt(Body, NextAt)
         closed == IF leads /\ ~IsBranchy(Body[At]) THEN <<BranchTo(next)>> ELSE <<>>
     IN  /\ blocks' = [blocks EXCEPT ![Word][Current.block] =
                                               @ \o <<Translated(Body, At)>> \o closed]
         /\ calls' = [calls EXCEPT ![Len(calls)] =
                        [w |-> Word, at |-> NextAt,
                         block |-> IF leads THEN next ELSE Current.block]]
  /\ UNCHANGED <<def, visited, graphed, outcome>>

\* Variant: words have their stack graphed later, the last one first.
FinishBackwards ==
  /\ Filling /\ At > Len(Body)
  /\ blocks' = [blocks EXCEPT ![Word][Len(blocks[Word])] =
                                             Append(@, Instr(Exit, Undef, <<>>, 0))]
  /\ graphed' = <<Word>> \o graphed
  /\ calls' = Front(calls)
  /\ outcome' = IF Len(calls) = 1 THEN "done" ELSE "running"
  /\ UNCHANGED <<def, visited>>

\* The last block gets a return: its last instruction is never the "is_exit"
\* that is looked for. The word then has its stack graphed.
Finish ==
  /\ Filling /\ At > Len(Body)
  /\ blocks' = [blocks EXCEPT ![Word][Len(blocks[Word])] =
                                             Append(@, Instr(Exit, Undef, <<>>, 0))]
  /\ graphed' = Append(graphed, Word)
  /\ calls' = Front(calls)
  /\ outcome' = IF Len(calls) = 1 THEN "done" ELSE "running"
  /\ UNCHANGED <<def, visited>>

Ended == outcome # "running" /\ UNCHANGED vars

Next == Start \/ VisitWord \/ NoWord \/ NoOperand \/ Fill \/ Finish \/ Ended

Spec == Init /\ [][Next]_vars /\ WF_vars(Next)

(***************************************************************************)
(* Block::nextBBs looks at the last instruction of a block only.           *)
(***************************************************************************)
NextBBs(block) == Last(block).to

(***************************************************************************)
(* Properties.                                                             *)
(***************************************************************************)
IsInstr(i) ==
  /\ i.cell \in WordCell \cup PrimCell \cup LocalCell \cup {Exit}
  /\ i.operand \in Cell

\* Every variable holds what its C++ counterpart can hold; every jump leads to
\* a block its word has, and an active call fills a block that exists.
TypeOK ==
  /\ DOMAIN blocks = Words
  /\ \A w \in Words : \A b \in DOMAIN blocks[w] : \A k \in DOMAIN blocks[w][b] :
       /\ IsInstr(blocks[w][b][k])
       /\ \A t \in Range(blocks[w][b][k].to) : t \in DOMAIN blocks[w]
  /\ visited \subseteq Words
  /\ \A k \in DOMAIN calls :
       /\ calls[k].w \in visited
       /\ calls[k].at \in 1 .. Len(def[calls[k].w]) + 1
       /\ calls[k].block \in DOMAIN blocks[calls[k].w]
  /\ graphed \in Seq(visited)
  /\ outcome \in {"running", "done", "aborted", "undefined"}

\* The stack graph of a word reads the effects of the words its blocks run:
\* each has been graphed by then, but for the word itself, and none is
\* graphed twice.
CalleesFirst ==
  \A k \in DOMAIN graphed :
    LET w == graphed[k]
    IN  /\ \A j \in 1 .. k - 1 : graphed[j] # w
        /\ \A b \in DOMAIN blocks[w] : \A n \in DOMAIN blocks[w][b] :
             LET i == blocks[w][b][n]
             IN  \A c \in {i.cell, i.operand} :
                   c.kind = "word" /\ c.w # w => \E j \in 1 .. k - 1 : graphed[j] = c.w

(***************************************************************************)
(* The flow of control of a definition d, as the interpreter walks it: from*)
(* an instruction at i to the next one, or to the one a branch leads to;   *)
(* Len(d) + 1 is the end.                                                  *)
(***************************************************************************)
Flow(d, i) ==
  IF IsPrimitive(d[i], "branch") THEN <<i + 1 + d[i + 1].n>>
  ELSE IF IsPrimitive(d[i], "branchif") THEN <<NextInstruction(d, i), i + 1 + d[i + 1].n>>
  ELSE <<NextInstruction(d, i)>>

\* Branches of d lead to instructions.
WellFormed(d) ==
  \A i \in Instructions(d) \cap DOMAIN d :
    \A j \in Range(Flow(d, i)) : j \in Instructions(d)

\* Where control enters a block: the cell of its first instruction, or the
\* end of the definition.
Entry(bs, b, d) ==
  IF bs[b] = <<>> THEN 0 ELSE IF bs[b][1].cell = Exit THEN Len(d) + 1 ELSE bs[b][1].at

\* Where it goes from the k-th instruction of block b.
BlockFlow(bs, b, k, d) ==
  IF bs[b][k].to # <<>> THEN [t \in DOMAIN bs[b][k].to |-> Entry(bs, bs[b][k].to[t], d)]
  ELSE IF k = Len(bs[b]) THEN <<>>
  ELSE LET i == bs[b][k + 1]
       IN  IF i.at # 0 THEN <<i.at>>
           ELSE IF i.cell = Exit THEN <<Len(d) + 1>> ELSE <<Entry(bs, i.to[1], d)>>

\* Every instruction of the definition is in the blocks once, and control
\* leaves it for the same instructions as when the definition is interpreted,
\* a branchif for the same one when its condition holds.
SameFlow ==
  \A w \in Range(graphed) : WellFormed(def[w]) =>
    \A i \in Instructions(def[w]) \cap DOMAIN def[w] :
      \E b \in DOMAIN blocks[w] : \E k \in DOMAIN blocks[w][b] :
        /\ blocks[w][b][k].at = i
        /\ BlockFlow(blocks[w], b, k, def[w]) = Flow(def[w], i)
        /\ \A c \in DOMAIN blocks[w] : \A n \in DOMAIN blocks[w][c] :
             blocks[w][c][n].at = i => c = b /\ n = k

\* Something leads to the cell after every unconditional branch.
NoDeadCode(d) ==
  \A i \in Instructions(d) \cap DOMAIN d :
    IsPrimitive(d[i], "branch") => i + 2 \in Leaders(d)

\* A block ends in a branch or a return and has no other, so that what nextBBs
\* answers is all the ways out of it. A definition with code nothing jumps to
\* after a branch, a loop without end at its end above all, gives a block with
\* two: nextBBs then forgets the loop.
BlocksClosed ==
  \A w \in Range(graphed) : WellFormed(def[w]) /\ NoDeadCode(def[w]) =>
    \A b \in DOMAIN blocks[w] :
      /\ blocks[w][b] # <<>>
      /\ \A k \in DOMAIN blocks[w][b] :
           IsBranchy(blocks[w][b][k].cell) <=> k = Len(blocks[w][b])

\* Translation ends, words that call themselves included.
TranslationEnds == <>(outcome # "running")
=============================================================================
