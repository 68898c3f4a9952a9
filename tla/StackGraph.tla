------------------------------ MODULE StackGraph ------------------------------
(***************************************************************************)
(* Analysis::word_stack_graph: the blocks of a word are walked depth first,*)
(* every element of the stack becomes a node, the nodes are linked to the  *)
(* instructions that push and pop them, and the edges between nodes are    *)
(* given registers, which have to agree where blocks meet.                 *)
(*                                                                         *)
(* The active calls of explore_graph_dfs are the sequence calls. Nodes are *)
(* objects several lists point to: a node is named by the number of its    *)
(* allocation.                                                             *)
(***************************************************************************)
EXTENDS Cells, SequencesExt, FiniteSetsExt

CONSTANTS
  Graphs,        \* sequences of blocks, as module BasicBlocks leaves them
  WordEffects,   \* the effects of the words they call
  WordName       \* the names of the words their locals belong to

Exit == [kind |-> "exit"]

\* What Instruction::linked_word can be: the return, a primitive, an access to a
\* local or a word graphed before.
IsLinked(c) ==
  \/ c = Exit \/ IsLocal(c)
  \/ c.kind = "prim" /\ c.p \in Primitives
  \/ c.kind = "word" /\ c.w \in DOMAIN WordEffects

\* A block ends in the instruction that names its successors, no more than two;
\* the last block holds the return (BlocksClosed of BasicBlocks).
ASSUME GraphsAssumption ==
  \A g \in Graphs :
    /\ g \in Seq(Range(g)) /\ g # <<>>
    /\ \A b \in DOMAIN g :
         /\ g[b] \in Seq(Range(g[b])) /\ g[b] # <<>>
         /\ \A i \in DOMAIN g[b] :
              /\ IsLinked(g[b][i].cell)
              /\ i # Len(g[b]) => g[b][i].to = <<>>
         /\ Last(g[b]).to \in Seq(DOMAIN g) /\ Len(Last(g[b]).to) <= 2
         /\ Last(g[b]).cell = Exit <=> b = Len(g)
         /\ b = Len(g) => Last(g[b]).to = <<>>

ASSUME EffectsAssumption ==
  \A w \in DOMAIN WordEffects : WordEffects[w] \in [pops : Nat, pushes : Nat]

VARIABLES
  blocks,       \* sWord::blocks
  nodes,        \* every Node allocated
  pops,         \* Instruction::pop_nodes, by block and position
  pushes,       \* Instruction::push_nodes
  params,       \* Block::params
  inputs,       \* Block::inputs
  outputs,      \* Block::outputs
  initial,      \* Block::initial_registers
  aligned,      \* the blocks with inputs_aligned and those with outputs_aligned
  generated,    \* how many registers Block::register_gen has handed out
  accumulated,  \* Block::initial_accumulated_params and _stack_size
  locals,       \* sWord::locals: the register of each local
  calls,        \* the active calls of explore_graph_dfs, innermost last
  reported,     \* the edges a mismatch was reported for
  effects,      \* sWord::effects
  outcome       \* "running", "done", "aborted" (out_of_range) or "undefined"

perBlock == <<params, inputs, outputs>>
links    == <<initial, aligned, generated>>
vars == <<blocks, nodes, pops, pushes, perBlock, links, accumulated, locals,
          calls, reported, effects, outcome>>

Blocks    == DOMAIN blocks
ExitBlock == Len(blocks)

\* Block::nextBBs, of a block that is closed.
NextBBs(b) == Last(blocks[b]).to

(***************************************************************************)
(* Registers and nodes. link_bidirection(a, b, r) makes r the register of  *)
(* the edge from node a to node b: a is stored to it, b read from it. Here,*)
(* for prevs[i], list[i] and regs[i], each i in turn: the last one counts. *)
(***************************************************************************)
NoRegister == [type |-> "undef", block |-> 0, index |-> 0]
Normal(b, i) == [type |-> "normal", block |-> b, index |-> i]
Param(i)     == [type |-> "param", block |-> 0, index |-> i]
Returned(r)  == [r EXCEPT !.type = "return"]

NewNode == [prev |-> 0, back |-> NoRegister, forth |-> NoRegister]

LastAt(list, n) == Max({i \in DOMAIN list : list[i] = n})

Link(ns, prevs, list, regs) ==
  [n \in DOMAIN ns |->
     IF n \notin Range(list) THEN ns[n]
     ELSE [ns[n] EXCEPT !.prev = prevs[LastAt(list, n)], !.back = regs[LastAt(list, n)]]]

LinkBoth(ns, prevs, list, regs) ==
  LET linked == Link(ns, prevs, list, regs)
  IN  [n \in DOMAIN ns |->
         IF n \notin Range(prevs) THEN linked[n]
         ELSE [linked[n] EXCEPT !.forth = regs[LastAt(prevs, n)]]]

\* redefine_preceding_edge, for each node of a list.
Redefine(ns, list, regs) ==
  LinkBoth(ns, [i \in DOMAIN list |-> ns[list[i]].prev], list, regs)

\* The new nodes of a list of n, when there are ns already.
NewTops(ns, n) == [i \in 1 .. n |-> Len(ns) + i]
WithNew(ns, n) == ns \o [i \in 1 .. n |-> NewNode]

(***************************************************************************)
(* Effects of the word an instruction links to.                            *)
(***************************************************************************)
Effect(c) ==
  CASE c = Exit         -> [pops |-> 0, pushes |-> 0]
    [] c.kind = "word"  -> WordEffects[c.w]
    [] IsLocal(c)       -> [pops |-> Effects.pops[c.kind], pushes |-> Effects.pushes[c.kind]]
    [] OTHER            -> [pops |-> Effects.pops[c.p], pushes |-> Effects.pushes[c.p]]

\* out_in_pairs: the element popped (counted from the top) whose register the
\* i-th element pushed (counted from below) takes over.
OutIn(c) ==
  CASE IsPrimitive(c, "swap") -> <<2, 1>>
    [] IsPrimitive(c, "rot")  -> <<2, 1, 3>>
    [] IsPrimitive(c, "dup")  -> <<1, 1>>
    [] OTHER                  -> <<>>

\* Locals are keyed by the name of their word.
Key(c) == <<WordName[c.w], c.x>>

(***************************************************************************)
(* explore_graph_dfs.                                                      *)
(***************************************************************************)
\* An active call: its block, the next instruction, its copies of the stack
\* (bottom first) and of the parameter generator, the successors left.
Enter(t, stack, taken) ==
  [block |-> t, at |-> 1, stack |-> stack, taken |-> taken, left |-> <<>>]

Frame == Last(calls)
B     == Frame.block
Stack == Frame.stack
Body  == blocks[B]
Cell0 == Body[Frame.at].cell

Running  == outcome = "running" /\ calls # <<>>
Graphing == Running /\ Frame.at <= Len(Body)

\* The innermost call one step further in its block.
Moved(stack, taken, left) ==
  [block |-> B, at |-> Frame.at + 1, stack |-> stack, taken |-> taken, left |-> left]

Step(stack, taken) ==
  calls' = [calls EXCEPT ![Len(calls)] = Moved(stack, taken, Frame.left)]

Stop(how) ==
  /\ outcome' = how
  /\ UNCHANGED <<blocks, nodes, pops, pushes, perBlock, links, accumulated,
                 locals, calls, reported, effects>>

PerBlock(v) == [b \in Blocks |-> v]
PerInstruction == [b \in Blocks |-> [i \in DOMAIN blocks[b] |-> <<>>]]

Init ==
  /\ blocks \in Graphs
  /\ nodes = <<>>
  /\ pops = PerInstruction /\ pushes = PerInstruction
  /\ params = PerBlock(<<>>) /\ inputs = PerBlock(<<>>) /\ outputs = PerBlock(<<>>)
  /\ initial = PerBlock(<<>>)
  /\ aligned = [inputs |-> {}, outputs |-> {}]
  /\ generated = PerBlock(0)
  /\ accumulated = PerBlock([params |-> 0, size |-> 0])
  /\ locals = <<>>
  /\ calls = <<Enter(1, <<>>, 0)>>
  /\ reported = {}
  /\ effects = <<>>
  /\ outcome = "running"

(***************************************************************************)
(* The pop nodes of an instruction are taken from the stack, its top first,*)
(* and are parameters of the word when there is nothing more on it.        *)
(***************************************************************************)
\* What popping n elements gives: the nodes, those popped, the parameters
\* created for them and the stack left.
Popping(n) ==
  LET k       == Min({n, Len(Stack)})
      found   == Reverse(SubSeq(Stack, Len(Stack) - k + 1, Len(Stack)))
      created == NewTops(nodes, n - k)
      sinks   == NewTops(WithNew(nodes, n - k), n - k)
  IN  [nodes   |-> LinkBoth(WithNew(nodes, 2 * (n - k)), created, sinks,
                            [i \in 1 .. n - k |-> Param(Frame.taken + i)]),
       popped  |-> found \o sinks,
       params  |-> created,
       stack   |-> SubSeq(Stack, 1, Len(Stack) - k)]

SetPops(p) ==
  /\ pops' = [pops EXCEPT ![B][Frame.at] = p.popped]
  /\ params' = [params EXCEPT ![B] = @ \o p.params]

\* The pop nodes whose registers are taken over come before the push nodes.
Paired(p, pushed) ==
  LET oi == OutIn(Cell0)
  IN  Link(WithNew(p.nodes, Effect(Cell0).pushes),
           [i \in DOMAIN oi |-> p.popped[oi[i]]],
           [i \in DOMAIN oi |-> pushed[i]],
           [i \in DOMAIN oi |-> p.nodes[p.popped[oi[i]]].back])

\* propagate_stack. The push nodes of an earlier visit are still there, and
\* every push node is linked to a new element of the stack: by the register it
\* takes over, or by a new one. (p, pushed and ns are bound to their only values
\* for TLC to evaluate them once.)
Propagate ==
  /\ Graphing /\ ~IsLocal(Cell0)
  /\ \E p \in {Popping(Effect(Cell0).pops)} :
     \E pushed \in {pushes[B][Frame.at] \o NewTops(p.nodes, Effect(Cell0).pushes)} :
     \E ns \in {Paired(p, pushed)} :
       LET tops   == NewTops(ns, Len(pushed))
           new    == {i \in DOMAIN pushed : ns[pushed[i]].prev = 0}
           reg(i) == IF i \notin new THEN ns[pushed[i]].back
                     ELSE Normal(B, generated[B] + Cardinality({j \in new : j <= i}))
       IN  /\ nodes' = LinkBoth(WithNew(ns, Len(pushed)), pushed, tops,
                               [i \in DOMAIN pushed |-> reg(i)])
           /\ SetPops(p)
           /\ pushes' = [pushes EXCEPT ![B][Frame.at] = pushed]
           /\ generated' = [generated EXCEPT ![B] = @ + Cardinality(new)]
           /\ Step(p.stack \o tops, Frame.taken + Len(p.params))
  /\ UNCHANGED <<blocks, inputs, outputs, initial, aligned, accumulated, locals,
                 reported, effects, outcome>>

\* Variant: a parameter that is stored creates no register.
StoredOffStack ==
  IF Stack = <<>> THEN DOMAIN locals ELSE DOMAIN locals \cup {Key(Cell0)}

\* The locals that have a register after a store.
Stored == DOMAIN locals \cup {Key(Cell0)}

\* propagate_stack_tolocal: the first store to a local creates its register.
StoreLocal ==
  /\ Graphing /\ Cell0.kind = "toLocal"
  /\ LET p   == Popping(1)
         new == Key(Cell0) \notin DOMAIN locals
     IN  /\ nodes' = p.nodes
         /\ SetPops(p)
         /\ locals' = [x \in Stored |->
                         IF x \in DOMAIN locals THEN locals[x]
                         ELSE Normal(B, generated[B] + 1)]
         /\ generated' = [generated EXCEPT ![B] = IF new THEN @ + 1 ELSE @]
         /\ Step(p.stack, Frame.taken + Len(p.params))
  /\ UNCHANGED <<blocks, pushes, inputs, outputs, initial, aligned, accumulated,
                 reported, effects, outcome>>

\* Variant: the element has a register but no node before it.
LoadedAlone(new) == [WithNew(nodes, 2) EXCEPT ![new[2]].back = locals[Key(Cell0)]]

Loaded(new) == LinkBoth(WithNew(nodes, 2), <<new[1]>>, <<new[2]>>, <<locals[Key(Cell0)]>>)

\* propagate_stack_fromlocal: the element pushed is the register of the local.
LoadLocal ==
  /\ Graphing /\ Cell0.kind = "fromLocal"
  /\ IF Key(Cell0) \notin DOMAIN locals THEN Stop("aborted")
     ELSE /\ LET new == NewTops(nodes, 2)
             IN  /\ nodes' = Loaded(new)
                 /\ pushes' = [pushes EXCEPT ![B][Frame.at] = Append(@, new[1])]
                 /\ Step(Append(Stack, new[2]), Frame.taken)
          /\ pops' = [pops EXCEPT ![B][Frame.at] = <<>>]
          /\ UNCHANGED <<blocks, perBlock, links, accumulated, locals, reported,
                         effects, outcome>>

(***************************************************************************)
(* Block::align_registers, on a record a of the nodes and of what is known *)
(* of the blocks. Either side that has registers gives them to the other;  *)
(* if both do, nothing is done.                                            *)
(***************************************************************************)
\* Variant: the successor gets nothing.
GiveNothing(a, list, t) == a

\* post takes the registers prev has.
Give(a, list, t) ==
  [a EXCEPT !.initial[t] = @ \o [i \in DOMAIN list |-> a.nodes[list[i]].back]]

\* Variant: the generator does not move on.
MakeUncounted(a, list, t) ==
  LET regs == [i \in DOMAIN list |-> Normal(t, a.generated[t] + i)]
  IN  [a EXCEPT !.nodes = Redefine(@, list, regs), !.initial[t] = @ \o regs]

\* Both take new registers of post.
Make(a, list, t) ==
  LET regs == [i \in DOMAIN list |-> Normal(t, a.generated[t] + i)]
  IN  [a EXCEPT !.nodes = Redefine(@, list, regs),
                !.initial[t] = @ \o regs,
                !.generated[t] = @ + Len(list)]

\* prev takes the registers post has.
Take(a, list, t) == [a EXCEPT !.nodes = Redefine(@, list, a.initial[t])]

AlignEdge(a, list, b, t) ==
  LET known == CASE b \notin a.outputs /\ t \in a.inputs    -> Take(a, list, t)
                 [] b \in a.outputs /\ t \notin a.inputs    -> Give(a, list, t)
                 [] b \notin a.outputs /\ t \notin a.inputs -> Make(a, list, t)
                 [] OTHER                                   -> a
  IN  [known EXCEPT !.inputs = @ \cup {t}, !.outputs = @ \cup {b}]

\* Variant: always the far one first.
AlignFarFirst(nexts) == Reverse(nexts)

\* The near successor first if it has registers, else the far one.
AlignOrder(nexts) ==
  IF Len(nexts) = 2 /\ nexts[1] \notin aligned.inputs THEN Reverse(nexts) ELSE nexts

\* Block::align_registers: the edges to one successor or to two.
Alignment(order) ==
  LET a == [nodes |-> nodes, initial |-> initial, generated |-> generated,
            inputs |-> aligned.inputs, outputs |-> aligned.outputs]
      first == AlignEdge(a, Stack, B, order[1])
  IN  CASE Len(order) = 0 -> a
        [] Len(order) = 1 -> first
        [] OTHER          -> AlignEdge(first, Stack, B, order[2])

\* Registers are read beyond those the successor has.
Overrun(order) ==
  order # <<>> /\ order[1] \in aligned.inputs /\ Len(Stack) > Len(initial[order[1]])

\* After the last instruction: successors not finished are told how many
\* parameters and elements there are, those finished are compared with it.
CloseBlock ==
  /\ Running /\ Frame.at = Len(Body) + 1
  /\ LET order == AlignOrder(NextBBs(B))
         nexts == Range(NextBBs(B))
         final == [params |-> accumulated[B].params + Len(params[B]),
                   size   |-> Len(Stack)]
     IN  IF Overrun(order) THEN Stop("undefined")
         ELSE
           /\ outputs' = [outputs EXCEPT ![B] = Stack]
           /\ accumulated' = [t \in Blocks |->
                                IF t \in nexts \ aligned.outputs THEN final
                                ELSE accumulated[t]]
           /\ reported' = reported \cup
                {<<B, t>> : t \in {t \in nexts \cap aligned.outputs :
                                     accumulated[t] # final}}
           /\ \E a \in {Alignment(order)} :
                /\ nodes' = a.nodes
                /\ initial' = a.initial
                /\ generated' = a.generated
                /\ aligned' = [inputs |-> a.inputs, outputs |-> a.outputs]
           /\ calls' = [calls EXCEPT ![Len(calls)] =
                          Moved(Stack, Frame.taken, NextBBs(B))]
           /\ UNCHANGED <<blocks, pops, pushes, params, inputs, locals, effects,
                          outcome>>

\* Variant: the successor stays on the list.
StillWaiting == calls

Waiting == [calls EXCEPT ![Len(calls)].left = Tail(@)]

\* The nodes of the inputs of a block take its initial registers.
Entered(list, regs) ==
  [n \in DOMAIN nodes |->
     IF n \notin Range(list) THEN nodes[n]
     ELSE [nodes[n] EXCEPT !.back = regs[LastAt(list, n)]]]

\* explore_graph_dfs of the next successor, which is done with if it has its
\* outputs aligned. Its initial registers become those of the elements it finds.
Descend ==
  /\ Running /\ Frame.at > Len(Body) + 1 /\ Frame.left # <<>>
  /\ LET t == Head(Frame.left)
     IN  IF t \in aligned.outputs
         THEN /\ calls' = Waiting
              /\ UNCHANGED <<blocks, nodes, pops, pushes, perBlock, links,
                             accumulated, locals, reported, effects, outcome>>
         ELSE IF Len(Stack) > Len(initial[t]) THEN Stop("undefined")
         ELSE /\ calls' = Append(Waiting, Enter(t, Stack, Frame.taken))
              /\ accumulated' = [accumulated EXCEPT ![t].size = Len(Stack)]
              /\ inputs' = [inputs EXCEPT ![t] = Stack]
              /\ nodes' = Entered(Stack, initial[t])
              /\ UNCHANGED <<blocks, pops, pushes, params, outputs, links, locals,
                             reported, effects, outcome>>

Return ==
  /\ Running /\ Frame.at > Len(Body) + 1 /\ Frame.left = <<>>
  /\ calls' = Front(calls)
  /\ UNCHANGED <<blocks, nodes, pops, pushes, perBlock, links, accumulated,
                 locals, reported, effects, outcome>>

\* Variant: only the parameters of the last block count.
LastParams == Len(params[ExitBlock])

TotalParams == accumulated[ExitBlock].params + Len(params[ExitBlock])

\* The end of word_stack_graph: what the last block leaves is returned.
Finish ==
  /\ outcome = "running" /\ calls = <<>>
  /\ LET list == outputs[ExitBlock]
     IN  nodes' = Redefine(nodes, list,
                           [i \in DOMAIN list |-> Returned(nodes[list[i]].back)])
  /\ effects' = [pops |-> TotalParams, pushes |-> Len(outputs[ExitBlock])]
  /\ outcome' = "done"
  /\ UNCHANGED <<blocks, pops, pushes, perBlock, links, accumulated, locals,
                 calls, reported>>

Ended == outcome # "running" /\ UNCHANGED vars

Next ==
  Propagate \/ StoreLocal \/ LoadLocal \/ CloseBlock \/ Descend \/ Return \/ Finish
    \/ Ended

Spec == Init /\ [][Next]_vars /\ WF_vars(Next)

(***************************************************************************)
(* Properties.                                                             *)
(***************************************************************************)
Registers == [type : {"undef", "normal", "param", "return"}, block : Nat, index : Nat]
NodeLists == Seq(DOMAIN nodes)

\* Every variable holds what its C++ counterpart can hold; every node on the
\* stack has a node before it, which the alignment changes.
TypeOK ==
  /\ \A n \in DOMAIN nodes :
       /\ nodes[n].prev \in 0 .. Len(nodes)
       /\ nodes[n].back \in Registers /\ nodes[n].forth \in Registers
  /\ \A b \in Blocks :
       /\ \A i \in DOMAIN blocks[b] : {pops[b][i], pushes[b][i]} \subseteq NodeLists
       /\ {params[b], inputs[b], outputs[b]} \subseteq NodeLists
       /\ initial[b] \in Seq(Registers)
       /\ generated[b] \in Nat
       /\ accumulated[b] \in [params : Nat, size : Nat]
  /\ aligned.inputs \subseteq Blocks /\ aligned.outputs \subseteq Blocks
  /\ \A k \in DOMAIN calls :
       /\ calls[k].block \in Blocks
       /\ calls[k].at \in 1 .. Len(blocks[calls[k].block]) + 2
       /\ calls[k].stack \in NodeLists
       /\ \A i \in DOMAIN calls[k].stack : nodes[calls[k].stack[i]].prev # 0
  /\ reported \subseteq Blocks \X Blocks
  /\ outcome \in {"running", "done", "aborted", "undefined"}

(***************************************************************************)
(* What the paths from the first block do: how many parameters they have   *)
(* taken and how many elements they have left, on entry to each block.     *)
(***************************************************************************)
\* An instruction takes what it can from the stack and the rest as parameters.
Applied(e, s) ==
  LET k == Min({e.pops, s.size})
  IN  [params |-> s.params + (e.pops - k), size |-> (s.size - k) + e.pushes]

\* The state after each number of instructions of a block.
Along(body, s) ==
  LET after[i \in 0 .. Len(body)] ==
        IF i = 0 THEN s ELSE Applied(Effect(body[i].cell), after[i - 1])
  IN  after

After(b, s) == Along(blocks[b], s)[Len(blocks[b])]

\* Paths with one edge more.
OneFurther(S) ==
  [t \in Blocks |->
     S[t] \cup UNION {{After(b, s) : s \in S[b]} : b \in {b \in Blocks : t \in Range(NextBBs(b))}}]

\* Paths of at most Len(blocks) edges: long enough for two that differ.
OnEntry ==
  LET paths[k \in 0 .. Len(blocks)] ==
        IF k = 0 THEN [b \in Blocks |-> IF b = 1 THEN {[params |-> 0, size |-> 0]} ELSE {}]
        ELSE OneFurther(paths[k - 1])
  IN  paths[Len(blocks)]

Reached == LET S == OnEntry IN {b \in Blocks : S[b] # {}}

\* Any two paths into a block have taken and left as much.
Balanced == LET S == OnEntry IN \A b \in Blocks : Cardinality(S[b]) <= 1

EdgesInto(t) ==
  {e \in Reached \X {1, 2} : e[2] \in DOMAIN NextBBs(e[1]) /\ NextBBs(e[1])[e[2]] = t}

\* The exit block never has its outputs aligned, so it is graphed once for
\* every edge, on top of what the visits before left.
ExitOnce == Cardinality(EdgesInto(ExitBlock)) <= 1

\* A block that is not on the way to the exit loops for ever.
Exiting ==
  LET back[k \in 0 .. Len(blocks)] ==
        IF k = 0 THEN {ExitBlock}
        ELSE back[k - 1] \cup {b \in Blocks : Range(NextBBs(b)) \cap back[k - 1] # {}}
  IN  back[Len(blocks)]

\* If all paths agree, the effects the word gets, from which its callers
\* build their graphs and the generator its signature, are those of any of its
\* paths, no mismatch is reported, and no instruction reads a parameter the
\* word does not have.
EffectsExact ==
  outcome = "done" /\ Balanced /\ ExitOnce /\ ExitBlock \in Reached =>
    /\ \E s \in OnEntry[ExitBlock] :
         LET last == After(ExitBlock, s)
         IN  effects = [pops |-> last.params, pushes |-> last.size]
    /\ reported = {}
    /\ Reached \subseteq Exiting =>
         \A n \in DOMAIN nodes :
           nodes[n].back.type = "param" => nodes[n].back.index <= effects.pops

\* If all paths agree, the walk never asks for more registers than a block has.
BalancedDefined == outcome = "undefined" => ~Balanced

\* Different elements that are on the stack between two blocks have different
\* registers, none of which holds a local.
RegistersDistinct ==
  \A b \in Blocks :
    /\ \A i, j \in DOMAIN initial[b] : initial[b][i] = initial[b][j] => i = j
    /\ Range(initial[b]) \cap Range(locals) = {}

\* Of the two successors of a branchif one can only be entered from there.
SplitOwnsOne ==
  \A b \in Reached :
    Len(NextBBs(b)) = 2 => \E t \in Range(NextBBs(b)) : {e[1] : e \in EdgesInto(t)} = {b}

\* No element is only passed on by a block.
NothingPassed == \A b \in Reached : Range(inputs[b]) \cap Range(outputs[b]) = {}

Aligned ==
  \A b \in Reached : \A t \in Range(NextBBs(b)) : \A i \in DOMAIN outputs[b] :
    /\ nodes[nodes[outputs[b][i]].prev].forth = initial[t][i]
    /\ i \in DOMAIN inputs[t] => nodes[inputs[t][i]].back = initial[t][i]

\* An element is stored to the register its block passes it on in, whichever
\* way control goes, and read from it there.
RegistersMatch ==
  outcome = "done" /\ Balanced /\ SplitOwnsOne /\ NothingPassed => Aligned

\* align_registers "makes sure that registers between control flow splits and
\* merges always line up" (Block.cpp:36).
RegistersLineUp == outcome = "done" /\ Balanced /\ NothingPassed => Aligned

\* Block b stores to the local x before its instruction n.
StoresTo(b, n, x) ==
  \E j \in DOMAIN blocks[b] :
    /\ j < n
    /\ blocks[b][j].cell.kind = "toLocal" /\ Key(blocks[b][j].cell) = x

\* The blocks a path enters that has not stored to x.
EnteredWithout(x) ==
  {b \in Blocks :
     \A S \in SUBSET Blocks :
       /\ 1 \in S
       /\ \A c \in S : StoresTo(c, Len(blocks[c]) + 1, x) \/ Range(NextBBs(c)) \subseteq S
       => b \in S}

\* The analysis of a word aborts (locals.at) only if there is a path on which a
\* local is loaded that was not stored to before, whatever the order in which
\* the walk meets the blocks.
LocalsAssigned ==
  outcome = "aborted" =>
    \E b \in Blocks : \E k \in DOMAIN blocks[b] :
      LET c == blocks[b][k].cell
      IN  /\ c.kind = "fromLocal"
          /\ b \in EnteredWithout(Key(c)) /\ ~StoresTo(b, k, Key(c))

\* word_stack_graph is to "ensure that merging Bbs have the same stack size"
\* (Pass_WordStackGraph.cpp:8): if they have not, that is reported.
MergesReported == outcome = "done" /\ ~Balanced => reported # {}

\* Every word is graphed in the end.
GraphingEnds == <>(outcome # "running")
=============================================================================
