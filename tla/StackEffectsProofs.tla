-------------------------- MODULE StackEffectsProofs --------------------------
(***************************************************************************)
(* Theorems about StackGraph: if all paths through a word agree, the walk  *)
(* counts what the paths count, whatever the word calls.                   *)
(*                                                                         *)
(* A flow gives every block with a path the state its paths enter it in.   *)
(* The calls, registers and totals of the walk stay on the level of any    *)
(* flow there is (AllLevel), and so do the parameters nodes are read from  *)
(* (AllParams). If all paths agree, what they have found after as many     *)
(* rounds as there are blocks is such a flow (BalancedFlow).               *)
(*                                                                         *)
(* In such a flow registers match besides (AllMatched): what a block       *)
(* passes on it has pushed, so the register is stored to by a node of its  *)
(* own, and no other block changes it.                                     *)
(***************************************************************************)
EXTENDS StackGraphProofs


-----------------------------------------------------------------------------
(***************************************************************************)
(* Levels. When all paths into a block agree, the walk counts what the     *)
(* paths count: every call has as many elements and parameters as the      *)
(* instructions before it leave.                                           *)
(***************************************************************************)
State == [params : Nat, size : Nat]

\* The successors of block b of the graph g.
To(g, b) == Last(g[b]).to

\* A state on entry for each block of a set that no edge leaves, the same along
\* every edge.
Flow(g, E) ==
  /\ DOMAIN E \subseteq DOMAIN g /\ 1 \in DOMAIN E /\ E[1] = [params |-> 0, size |-> 0]
  /\ \A b \in DOMAIN E :
       /\ E[b] \in State
       /\ \A t \in Range(To(g, b)) : t \in DOMAIN E /\ E[t] = Along(g[b], E[b])[Len(g[b])]

\* One edge leads to t, or none if the walk begins there.
EnteredOnce(g, E, t) ==
  /\ \A b, c \in DOMAIN E : \A i \in DOMAIN To(g, b), j \in DOMAIN To(g, c) :
       To(g, b)[i] = t /\ To(g, c)[j] = t => b = c /\ i = j
  /\ t = 1 => \A b \in DOMAIN E : t \notin Range(To(g, b))

\* The blocks that are graphed once.
Once(g, E, t) == To(g, t) # <<>> \/ EnteredOnce(g, E, t)

\* The instructions of its block a call is through with.
Through(c, g) == IF c.at <= Len(g[c.block]) THEN c.at - 1 ELSE Len(g[c.block])

\* A call c that did what the paths into its block do.
OnLevel(c, g, E, par, push) ==
  LET s == Along(g[c.block], E[c.block])[Through(c, g)]
  IN  /\ c.taken = s.params /\ Len(c.stack) = s.size
      /\ s.params = E[c.block].params + Len(par[c.block])
      /\ \A i \in DOMAIN g[c.block] : c.at <= i => push[c.block][i] = <<>>

\* The successors left to a call are the last ones of its block.
LeftOf(c, g) ==
  /\ Len(c.left) <= Len(To(g, c.block))
  /\ \A i \in 1 .. Len(c.left) :
       c.left[i] = To(g, c.block)[(Len(To(g, c.block)) - Len(c.left)) + i]

\* A call of a block that paths enter.
Walks(c, g, E, ins, outs) ==
  /\ c.block \in DOMAIN E /\ (c.block \in ins \/ c.block = 1)
  /\ IF c.at <= Len(g[c.block]) + 1 THEN c.left = <<>>
     ELSE c.block \in outs \/ To(g, c.block) = <<>>
  /\ LeftOf(c, g)

CallsLevel(E) ==
  /\ \A k \in 1 .. Len(calls) :
       /\ Walks(calls[k], blocks, E, aligned.inputs, aligned.outputs)
       /\ Once(blocks, E, calls[k].block) => OnLevel(calls[k], blocks, E, params, pushes)
  /\ \A k, l \in 1 .. Len(calls) :
       Once(blocks, E, calls[k].block) /\ calls[k].block = calls[l].block => k = l

\* The blocks with inputs aligned are successors of those with outputs aligned.
InputsLevel(E) ==
  /\ \A t \in aligned.inputs :
       /\ t \in DOMAIN E /\ Len(initial[t]) = E[t].size
       /\ accumulated[t] = E[t]
       /\ \E p \in aligned.outputs : t \in Range(To(blocks, p))
  /\ accumulated[1] = E[1]

OutputsLevel(E) ==
  \A b \in aligned.outputs :
    /\ b \in DOMAIN E /\ To(blocks, b) # <<>>
    /\ b \in aligned.inputs \/ b = 1
    /\ Range(To(blocks, b)) \subseteq aligned.inputs

\* Nothing of a block was graphed.
Fresh(b) == params[b] = <<>> /\ \A i \in DOMAIN blocks[b] : pushes[b][i] = <<>>

Active(b) == \E k \in 1 .. Len(calls) : calls[k].block = b

IsLeft(b) == \E k \in 1 .. Len(calls) : b \in Range(calls[k].left)

\* A block that is entered once will be entered.
Awaited(b) == (b \notin aligned.inputs /\ b # 1) \/ IsLeft(b)

\* A block without successors that paths enter once.
IsEnd(E, b) == b \in DOMAIN E /\ To(blocks, b) = <<>> /\ EnteredOnce(blocks, E, b)

FreshLevel(E) ==
  /\ \A b \in DOMAIN E :
       To(blocks, b) # <<>> /\ b \notin aligned.outputs /\ ~Active(b) => Fresh(b)
  /\ \A b \in DOMAIN E : IsEnd(E, b) /\ Awaited(b) => Fresh(b) /\ ~Active(b)

\* What is left where it ends.
Left(E, b) ==
  LET s == Along(blocks[b], E[b])[Len(blocks[b])]
  IN  Len(outputs[b]) = s.size /\ E[b].params + Len(params[b]) = s.params

Closed(b) ==
  \A k \in 1 .. Len(calls) : calls[k].block = b => ~(calls[k].at <= Len(blocks[b]) + 1)

EndsLevel(E) == \A b \in DOMAIN E : IsEnd(E, b) /\ ~Awaited(b) /\ Closed(b) => Left(E, b)

\* No successor is forgotten.
SeenLevel ==
  \A t \in aligned.inputs \cup {1} :
     t \in aligned.outputs \/ To(blocks, t) = <<>> \/ Active(t) \/ IsLeft(t)

OutcomeLevel ==
  /\ outcome # "undefined" /\ reported = {}
  /\ outcome = "done" =>
       calls = <<>> /\ effects = [pops |-> TotalParams, pushes |-> Len(outputs[ExitBlock])]

Level(E) ==
  /\ CallsLevel(E) /\ InputsLevel(E) /\ OutputsLevel(E) /\ FreshLevel(E)
  /\ EndsLevel(E) /\ SeenLevel /\ OutcomeLevel

\* An instruction never gives a parameter back.
LEMMA AppliedProperties ==
  ASSUME NEW s \in State, NEW e, e.pops \in Nat, e.pushes \in Nat
  PROVE  /\ Applied(e, s) \in State
         /\ s.params <= Applied(e, s).params
         /\ e.pops <= s.size =>
              Applied(e, s) = [params |-> s.params, size |-> (s.size - e.pops) + e.pushes]
         /\ s.size <= e.pops =>
              Applied(e, s) = [params |-> s.params + (e.pops - s.size), size |-> e.pushes]
<1> DEFINE p == e.pops
           q == e.pushes
           x == s.size
           y == s.params
           k == Min({p, x})
<1>1. p \in Nat /\ q \in Nat /\ x \in Nat /\ y \in Nat
  BY DEF State
<1>2. Applied(e, s) = [params |-> y + (p - k), size |-> (x - k) + q]
  BY DEF Applied
<1> HIDE DEF p, q, x, y
<1>3. k = IF p <= x THEN p ELSE x
  <2>1. \E z \in {p, x} : \A w \in {p, x} : z <= w
    BY <1>1
  <2>2. k \in {p, x} /\ \A w \in {p, x} : k <= w
    BY <2>1, Zenon DEF Min
  <2> HIDE DEF k
  <2> QED
    BY <1>1, <2>2
<1> HIDE DEF k
<1> QED
  BY <1>1, <1>2, <1>3 DEF State, p, q, x, y

\* The state along a block is defined by what its instructions do.
LEMMA AlongProperties ==
  ASSUME NEW body, NEW n \in Nat, n = Len(body), \A i \in 1 .. n : IsLinked(body[i].cell),
         NEW s \in State
  PROVE  /\ Along(body, s) \in [0 .. n -> State]
         /\ Along(body, s)[0] = s
         /\ \A i \in 1 .. n : Along(body, s)[i] = Applied(Effect(body[i].cell), Along(body, s)[i - 1])
<1> DEFINE G == [p \in (0 .. n) \X State |->
                   IF p[1] = 0 THEN s ELSE Applied(Effect(body[p[1]].cell), p[2])]
           f == Along(body, s)
<1>1. G \in [(0 .. n) \X State -> State]
  <2> SUFFICES ASSUME NEW p \in (0 .. n) \X State
               PROVE  (IF p[1] = 0 THEN s ELSE Applied(Effect(body[p[1]].cell), p[2])) \in State
    OBVIOUS
  <2>1. CASE p[1] # 0
    <3>1. p[1] \in 1 .. n /\ p[2] \in State
      BY <2>1
    <3>2. Effect(body[p[1]].cell).pops \in Nat /\ Effect(body[p[1]].cell).pushes \in Nat
      BY <3>1, EffectType
    <3> QED
      BY <2>1, <3>1, <3>2, AppliedProperties
  <2> QED
    BY <2>1
<1>2. \A i \in 1 .. n, x \in State : G[<<i, x>>] = Applied(Effect(body[i].cell), x)
  OBVIOUS
<1> HIDE DEF G
<1>3. PICK h \in [0 .. n -> State] : h = [i \in 0 .. n |-> IF i = 0 THEN s ELSE G[<<i, h[i - 1]>>]]
  <2> DEFINE S == State
             H == G
  <2>1. s \in S /\ H \in [(0 .. n) \X S -> S]
    BY <1>1
  <2> HIDE DEF S, H
  <2>2. \E h \in [0 .. n -> S] : IsIteration(h, n, s, H)
    BY <2>1, Iterated
  <2> QED
    BY <2>2, Zenon DEF S, H, IsIteration
<1>4. h = [i \in 0 .. n |-> IF i = 0 THEN s ELSE Applied(Effect(body[i].cell), h[i - 1])]
  <2>1. \A i \in 0 .. n :
          (IF i = 0 THEN s ELSE G[<<i, h[i - 1]>>])
          = (IF i = 0 THEN s ELSE Applied(Effect(body[i].cell), h[i - 1]))
    <3> SUFFICES ASSUME NEW i \in 0 .. n, i # 0
                 PROVE  G[<<i, h[i - 1]>>] = Applied(Effect(body[i].cell), h[i - 1])
      OBVIOUS
    <3>1. i \in 1 .. n /\ i - 1 \in 0 .. n
      OBVIOUS
    <3>2. h[i - 1] \in State
      BY <3>1
    <3> QED
      BY <1>2, <3>1, <3>2
  <2> QED
    BY <1>3, <2>1
<1>5. f = [i \in 0 .. n |-> IF i = 0 THEN s ELSE Applied(Effect(body[i].cell), f[i - 1])]
  BY <1>4 DEF Along
<1>6. f[0] = s /\ \A i \in 1 .. n : f[i] = Applied(Effect(body[i].cell), f[i - 1])
  <2> DEFINE a(i) == Applied(Effect(body[i].cell), f[i - 1])
  <2>1. f = [i \in 0 .. n |-> IF i = 0 THEN s ELSE a(i)]
    BY <1>5
  <2> HIDE DEF a
  <2>2. f[0] = s /\ \A i \in 1 .. n : f[i] = a(i)
    BY <2>1
  <2> QED
    BY <2>2 DEF a
<1>7. f = [i \in 0 .. n |-> f[i]]
  BY <1>5
<1> DEFINE T == {i \in 0 .. n : f[i] \notin State}
<1>8. T = {}
  <2> SUFFICES ASSUME T # {} PROVE FALSE
    OBVIOUS
  <2>1. PICK m \in T : \A k \in T : m <= k
    <3>1. T \in SUBSET Nat
      OBVIOUS
    <3> QED
      BY <3>1, LeastElement
  <2>2. m \in 1 .. n /\ m - 1 \in 0 .. n /\ m - 1 \notin T
    BY <1>6, <2>1
  <2>3. f[m - 1] \in State
    BY <2>2
  <2>4. Effect(body[m].cell).pops \in Nat /\ Effect(body[m].cell).pushes \in Nat
    BY <2>2, EffectType
  <2>5. f[m] \in State
    BY <1>6, <2>2, <2>3, <2>4, AppliedProperties
  <2> QED
    BY <2>1, <2>5
<1>9. f \in [0 .. n -> State]
  BY <1>7, <1>8
<1> QED
  BY <1>6, <1>9 DEF f

\* The calls after a step of the innermost one.
LEMMA ReplacedCalls ==
  ASSUME NEW cs, NEW bl, NEW ns, NEW outs, ActiveCalls(cs, bl, ns, outs), cs # <<>>, NEW c
  PROVE  /\ Len(cs) \in Nat /\ 1 <= Len(cs) /\ Last(cs) = cs[Len(cs)]
         /\ Len(ReplaceTop(cs, c)) = Len(cs)
         /\ \A k \in 1 .. Len(cs) : ReplaceTop(cs, c)[k] = IF k = Len(cs) THEN c ELSE cs[k]
<1> DEFINE S == Call(bl, ns)
           U == S \cup {c}
           n == Len(cs)
<1>1. cs \in Seq(S)
  BY DEF ActiveCalls
<1>2. n \in Nat /\ 1 <= n /\ Last(cs) = cs[n]
  BY TopProperties
<1> HIDE DEF S
<1>3. cs \in Seq(U) /\ c \in U
  BY <1>1, SeqMonotonic
<1> HIDE DEF U
<1>4. n \in 1 .. n
  BY <1>2
<1>5. /\ Len(ReplaceTop(cs, c)) = n
      /\ \A k \in 1 .. n : ReplaceTop(cs, c)[k] = IF k = n THEN c ELSE cs[k]
  BY <1>3, <1>4, ExceptSeq DEF ReplaceTop
<1> QED
  BY <1>2, <1>5

LEMMA FlowProperties ==
  ASSUME blocks \in Graphs, NEW E, Flow(blocks, E), NEW b \in DOMAIN E
  PROVE  /\ b \in Blocks /\ E[b] \in State
         /\ To(blocks, b) = NextBBs(b) /\ To(blocks, b) \in Seq(Blocks)
         /\ Len(blocks[b]) \in Nat /\ 1 <= Len(blocks[b])
         /\ DOMAIN blocks[b] = 1 .. Len(blocks[b])
         /\ Along(blocks[b], E[b]) \in [0 .. Len(blocks[b]) -> State]
         /\ Along(blocks[b], E[b])[0] = E[b]
         /\ \A i \in 1 .. Len(blocks[b]) :
              Along(blocks[b], E[b])[i] = Applied(Effect(blocks[b][i].cell), Along(blocks[b], E[b])[i - 1])
<1>1. b \in Blocks /\ E[b] \in State
  BY DEF Flow, Blocks
<1>2. /\ Len(blocks[b]) \in Nat /\ 1 <= Len(blocks[b])
      /\ DOMAIN blocks[b] = 1 .. Len(blocks[b])
      /\ \A i \in 1 .. Len(blocks[b]) : IsLinked(blocks[b][i].cell)
      /\ NextBBs(b) \in Seq(Blocks)
  BY <1>1, BlockProperties
<1> DEFINE g == blocks[b]
           n == Len(g)
           s == E[b]
<1>3. n \in Nat /\ n = Len(g) /\ (\A i \in 1 .. n : IsLinked(g[i].cell)) /\ s \in State
  BY <1>1, <1>2
<1> HIDE DEF g, n, s
<1>4. /\ Along(g, s) \in [0 .. n -> State]
      /\ Along(g, s)[0] = s
      /\ \A i \in 1 .. n : Along(g, s)[i] = Applied(Effect(g[i].cell), Along(g, s)[i - 1])
  BY <1>3, AlongProperties
<1> QED
  BY <1>1, <1>2, <1>4 DEF g, n, s, To, NextBBs

\* What the innermost call of a block graphed once has, when there is one.
LEMMA TopLevel ==
  ASSUME IInv, Running, NEW E, Flow(blocks, E), Level(E)
  PROVE  /\ Len(calls) \in Nat /\ 1 <= Len(calls) /\ Frame = calls[Len(calls)]
         /\ B \in DOMAIN E /\ (B \in aligned.inputs \/ B = 1)
         /\ Walks(Frame, blocks, E, aligned.inputs, aligned.outputs)
         /\ Once(blocks, E, B) => OnLevel(Frame, blocks, E, params, pushes)
<1>1. calls # <<>> /\ ActiveCalls(calls, blocks, nodes, aligned.outputs)
  BY DEF IInv, Running
<1>2. Len(calls) \in Nat /\ 1 <= Len(calls) /\ Last(calls) = calls[Len(calls)]
  BY <1>1, TopProperties
<1>3. Frame = calls[Len(calls)] /\ Len(calls) \in 1 .. Len(calls)
  BY <1>2 DEF Frame
<1> QED
  BY <1>2, <1>3 DEF Level, CallsLevel, Walks, B

\* Push nodes only change at the next instruction.
PushedHere ==
  /\ \A b \in Blocks : b # B => pushes'[b] = pushes[b]
  /\ \A i \in DOMAIN Body : i # Frame.at => pushes'[B][i] = pushes[B][i]

LEMMA PushesChanged ==
  ASSUME Types, B \in Blocks, NEW new, pushes' = [pushes EXCEPT ![B][Frame.at] = new]
  PROVE  PushedHere
BY DEF Types, NodesOfInstructions, Blocks, PushedHere, Body

LEMMA SameLevel ==
  ASSUME NEW E, Level(E), outcome' = outcome \/ outcome' = "aborted",
         UNCHANGED <<blocks, pushes, params, outputs, initial, aligned, accumulated, calls,
                     reported, effects>>
  PROVE  Level(E)'
<1>1. CallsLevel(E)' /\ InputsLevel(E)' /\ OutputsLevel(E)'
  BY DEF Level, CallsLevel, InputsLevel, OutputsLevel
<1>2. /\ \A b : Active(b)' <=> Active(b)
      /\ \A b : IsLeft(b)' <=> IsLeft(b)
      /\ \A b : Awaited(b)' <=> Awaited(b)
      /\ \A b : IsEnd(E, b)' <=> IsEnd(E, b)
      /\ \A b : Fresh(b)' <=> Fresh(b)
      /\ \A b : Closed(b)' <=> Closed(b)
      /\ \A b : Left(E, b)' <=> Left(E, b)
  BY DEF Active, IsLeft, Awaited, IsEnd, Fresh, Closed, Left
<1>3. FreshLevel(E)' /\ EndsLevel(E)' /\ SeenLevel'
  BY <1>2 DEF Level, FreshLevel, EndsLevel, SeenLevel
<1>4. OutcomeLevel'
  BY DEF Level, OutcomeLevel, TotalParams, ExitBlock
<1> QED
  BY <1>1, <1>3, <1>4 DEF Level

\* An instruction of a call: what it does to the stack and to the parameters is
\* what it does on the paths.
LEMMA LevelStep ==
  ASSUME IInv, Graphing, NEW E, Flow(blocks, E), Level(E),
         NEW stack, NEW taken, Step(stack, taken),
         NEW ps, params' = [params EXCEPT ![B] = ps],
         PushedHere, UNCHANGED <<blocks, outputs, initial, aligned, accumulated, reported, effects, outcome>>,
         pushes[B][Frame.at] = <<>> /\ Frame.taken \in Nat /\ Len(Stack) \in Nat =>
           /\ [params |-> taken, size |-> Len(stack)]
              = Applied(Effect(Cell0), [params |-> Frame.taken, size |-> Len(Stack)])
           /\ taken = Frame.taken + (Len(ps) - Len(params[B]))
           /\ Len(ps) \in Nat
  PROVE  Level(E)'
<1> DEFINE n  == Len(calls)
           c  == Moved(stack, taken, Frame.left)
           at == Frame.at
<1>1. /\ Types /\ Running /\ B \in Blocks /\ calls # <<>> /\ Frame.taken \in Nat
      /\ IsStack(Stack, nodes) /\ Frame.at \in DOMAIN Body
      /\ ActiveCalls(calls, blocks, nodes, aligned.outputs)
  BY FrameProperties, CellProperties DEF IInv, Graphing
<1>2. /\ Len(Body) \in Nat /\ at \in 1 .. Len(Body) /\ DOMAIN Body = 1 .. Len(Body)
      /\ Len(Stack) \in Nat
  BY <1>1, BlockProperties, LenProperties DEF Types, Body, IsStack, NodeList
<1>3. /\ n \in Nat /\ 1 <= n /\ Frame = calls[n]
      /\ B \in DOMAIN E /\ (B \in aligned.inputs \/ B = 1)
      /\ Walks(Frame, blocks, E, aligned.inputs, aligned.outputs)
      /\ Once(blocks, E, B) => OnLevel(Frame, blocks, E, params, pushes)
  BY <1>1, TopLevel
<1>4. /\ Len(calls') = n
      /\ \A k \in 1 .. n : calls'[k] = IF k = n THEN c ELSE calls[k]
  <2>1. calls' = ReplaceTop(calls, c)
    BY DEF Step, ReplaceTop
  <2> HIDE DEF c
  <2> QED
    BY <1>1, <2>1, ReplacedCalls
<1>5. /\ c.block = B /\ c.at = at + 1 /\ c.stack = stack /\ c.taken = taken
      /\ c.left = Frame.left /\ Frame.left = <<>> /\ Frame.block = B
  <2>1. Frame.at <= Len(blocks[Frame.block]) + 1
    BY <1>2 DEF Body, B
  <2> QED
    BY <1>3, <2>1 DEF Moved, Walks, B
<1> HIDE DEF c
<1>6. \A k \in 1 .. n : calls'[k].block = calls[k].block /\ calls'[k].left = calls[k].left
  BY <1>3, <1>4, <1>5
<1>7. /\ \A b \in Blocks : b # B => params'[b] = params[b] /\ pushes'[b] = pushes[b]
      /\ \A i \in DOMAIN Body : i # at => pushes'[B][i] = pushes[B][i]
      /\ params'[B] = ps
  BY <1>1 DEF Types, PushedHere
<1>8. Once(blocks, E, B) => OnLevel(c, blocks, E, params', pushes')
  <2> SUFFICES ASSUME Once(blocks, E, B) PROVE OnLevel(c, blocks, E, params', pushes')
    OBVIOUS
  <2> DEFINE f == Along(Body, E[B])
  <2>1. /\ E[B] \in State /\ f \in [0 .. Len(Body) -> State]
        /\ f[at] = Applied(Effect(Cell0), f[at - 1])
    <3>1. blocks \in Graphs
      BY <1>1 DEF Types
    <3> DEFINE g == Along(blocks[B], E[B])
    <3>2. /\ E[B] \in State /\ g \in [0 .. Len(blocks[B]) -> State]
          /\ \A i \in 1 .. Len(blocks[B]) : g[i] = Applied(Effect(blocks[B][i].cell), g[i - 1])
      BY <1>3, <3>1, FlowProperties
    <3>3. g = f
      BY DEF Body
    <3> HIDE DEF f, g
    <3> QED
      BY <1>2, <3>2, <3>3 DEF Body, Cell0
  <2>2. Through(Frame, blocks) = at - 1 /\ Through(c, blocks) = at
    BY <1>2, <1>5 DEF Through, Body
  <2>3. /\ Frame.taken = f[at - 1].params /\ Len(Stack) = f[at - 1].size
        /\ f[at - 1].params = E[B].params + Len(params[B])
        /\ \A i \in DOMAIN Body : at <= i => pushes[B][i] = <<>>
    BY <1>3, <1>5, <2>2 DEF OnLevel, Body, Stack
  <2>4. f[at - 1] \in State /\ f[at] \in State
    <3>1. at - 1 \in 0 .. Len(Body) /\ at \in 0 .. Len(Body)
      BY <1>2
    <3> QED
      BY <2>1, <3>1
  <2>5. f[at - 1] = [params |-> Frame.taken, size |-> Len(Stack)]
    BY <2>3, <2>4 DEF State
  <2>6. pushes[B][at] = <<>>
    BY <1>2, <2>3
  <2> HIDE DEF f
  <2>7. /\ f[at] = [params |-> taken, size |-> Len(stack)]
        /\ taken = Frame.taken + (Len(ps) - Len(params[B])) /\ Len(ps) \in Nat
    BY <1>1, <1>2, <2>1, <2>5, <2>6
  <2>8. taken = E[B].params + Len(params'[B])
    <3>1. Len(params[B]) \in Nat
      BY <1>1, LenProperties DEF Types, NodeList
    <3>2. E[B].params \in Nat
      BY <2>1 DEF State
    <3>3. Frame.taken = E[B].params + Len(params[B])
      BY <2>3
    <3> QED
      BY <1>7, <2>7, <3>1, <3>2, <3>3
  <2>9. \A i \in DOMAIN Body : at + 1 <= i => pushes'[B][i] = <<>>
    BY <1>2, <1>7, <2>3
  <2> QED
    BY <1>5, <2>2, <2>7, <2>8, <2>9 DEF OnLevel, f, Body
<1>9. CallsLevel(E)'
  <2>1. ASSUME NEW k \in 1 .. n
        PROVE  /\ Walks(calls'[k], blocks, E, aligned.inputs, aligned.outputs)
               /\ Once(blocks, E, calls'[k].block) => OnLevel(calls'[k], blocks, E, params', pushes')
    <3>1. CASE k = n
      <4>1. Walks(c, blocks, E, aligned.inputs, aligned.outputs)
        <5>1. c.at <= Len(blocks[c.block]) + 1
          BY <1>2, <1>5 DEF Body
        <5>2. LeftOf(c, blocks)
          BY <1>3, <1>5 DEF Walks, LeftOf
        <5> QED
          BY <1>3, <1>5, <5>1, <5>2 DEF Walks
      <4> QED
        BY <1>4, <1>5, <1>8, <3>1, <4>1
    <3>2. CASE k # n
      <4>1. calls'[k] = calls[k]
        BY <1>4, <3>2
      <4>2. Walks(calls[k], blocks, E, aligned.inputs, aligned.outputs)
            /\ (Once(blocks, E, calls[k].block) => OnLevel(calls[k], blocks, E, params, pushes))
        BY DEF Level, CallsLevel
      <4>3. Once(blocks, E, calls[k].block) => calls[k].block # B
        BY <1>3, <1>5, <3>2 DEF Level, CallsLevel
      <4>4. calls[k].block \in Blocks
        BY <1>1, <4>2, FlowProperties DEF Walks, Types
      <4> QED
        BY <1>7, <4>1, <4>2, <4>3, <4>4 DEF OnLevel
    <3> QED
      BY <3>1, <3>2
  <2>2. \A k, l \in 1 .. n :
          Once(blocks, E, calls'[k].block) /\ calls'[k].block = calls'[l].block => k = l
    BY <1>6 DEF Level, CallsLevel
  <2> QED
    BY <1>4, <2>1, <2>2 DEF CallsLevel
<1>10. InputsLevel(E)' /\ OutputsLevel(E)'
  BY DEF Level, InputsLevel, OutputsLevel
<1>11. /\ \A b : Active(b)' <=> Active(b)
       /\ \A b : IsLeft(b)' <=> IsLeft(b)
       /\ \A b : Awaited(b)' <=> Awaited(b)
       /\ \A b : IsEnd(E, b)' <=> IsEnd(E, b)
  BY <1>4, <1>6 DEF Active, IsLeft, Awaited, IsEnd
<1>12. Active(B)
  <2>1. n \in 1 .. n
    BY <1>3
  <2> QED
    BY <1>3, <1>5, <2>1 DEF Active
<1>13. FreshLevel(E)'
  <2>1. \A b \in DOMAIN E : b # B /\ Fresh(b) => Fresh(b)'
    <3> SUFFICES ASSUME NEW b \in DOMAIN E, b # B, Fresh(b) PROVE Fresh(b)'
      OBVIOUS
    <3>1. b \in Blocks
      BY <1>1, FlowProperties DEF Types
    <3> QED
      BY <1>7, <3>1 DEF Fresh
  <2> QED
    BY <1>11, <1>12, <2>1 DEF Level, FreshLevel
<1>14. EndsLevel(E)'
  <2> SUFFICES ASSUME NEW b \in DOMAIN E, IsEnd(E, b), ~Awaited(b), Closed(b)'
               PROVE  Left(E, b)'
    BY <1>11 DEF EndsLevel
  <2>1. b # B
    <3>1. c.at <= Len(Body) + 1
      BY <1>2, <1>5
    <3>2. n \in 1 .. n /\ calls'[n] = c
      BY <1>3, <1>4
    <3> QED
      BY <1>4, <1>5, <3>1, <3>2 DEF Closed, Body
  <2>2. \A k \in 1 .. n : calls[k].block = b => calls'[k] = calls[k]
    BY <1>3, <1>4, <1>5, <2>1
  <2>3. Closed(b)
    BY <1>4, <1>6, <2>2 DEF Closed
  <2>4. Left(E, b)
    BY <2>3 DEF Level, EndsLevel
  <2>5. b \in Blocks
    BY <1>1, FlowProperties DEF Types
  <2> QED
    BY <1>7, <2>1, <2>4, <2>5 DEF Left
<1>15. SeenLevel'
  BY <1>11 DEF Level, SeenLevel
<1>16. OutcomeLevel'
  BY <1>1 DEF Level, OutcomeLevel, Running
<1> QED
  BY <1>9, <1>10, <1>13, <1>14, <1>15, <1>16 DEF Level

\* What is popped and pushed, for any list of nodes.
LEMMA PoppedLevel ==
  ASSUME NEW p, NEW ns, Nodes(ns), NEW stack \in NodeList(ns), NEW pops0 \in Nat,
         Popped(p, ns, stack, pops0),
         NEW e, e.pops = pops0, e.pushes \in Nat, NEW taken \in Nat, NEW m, m = Len(p.stack) + e.pushes
  PROVE  /\ [params |-> taken + Len(p.params), size |-> m]
            = Applied(e, [params |-> taken, size |-> Len(stack)])
         /\ Len(p.params) \in Nat
<1> DEFINE x == Len(stack)
           y == Len(p.params)
           z == Len(p.stack)
           q == e.pushes
           s == [params |-> taken, size |-> x]
<1>1. x \in Nat /\ z \in Nat
  BY LenProperties DEF Popped, NodeList
<1>2. y \in Nat
  BY LenProperties DEF Popped, NodeList
<1>3. y - z = pops0 - x
  BY DEF Popped
<1>4. y = 0 \/ z = 0
  <2>1. Len(<<>>) = 0
    OBVIOUS
  <2> QED
    BY <2>1 DEF Popped
<1>5. s \in State /\ s.size = x /\ s.params = taken
  BY <1>1 DEF State
<1> HIDE DEF x, y, z, q, s
<1>6. /\ pops0 <= x => Applied(e, s) = [params |-> taken, size |-> (x - pops0) + q]
      /\ x <= pops0 => Applied(e, s) = [params |-> taken + (pops0 - x), size |-> q]
  BY <1>5, AppliedProperties DEF q
<1>7. q \in Nat /\ m = z + q
  BY DEF q, z
<1>8. CASE pops0 <= x
  <2>1. y = 0 /\ (x - pops0) + q = m /\ taken + y = taken
    BY <1>1, <1>2, <1>3, <1>4, <1>7, <1>8
  <2> QED
    BY <1>2, <1>6, <1>8, <2>1 DEF s, x, y
<1>9. CASE x <= pops0
  <2>1. z = 0 /\ y = pops0 - x /\ q = m
    BY <1>1, <1>2, <1>3, <1>4, <1>7, <1>9
  <2> QED
    BY <1>2, <1>6, <1>9, <2>1 DEF s, x, y
<1> QED
  BY <1>1, <1>8, <1>9

LEMMA PropagateLevel ==
  ASSUME IInv, Propagate, NEW E, Flow(blocks, E), Level(E)
  PROVE  Level(E)'
<1> DEFINE e == Effect(Cell0)
<1>1. PICK p, pushed, ns :
        /\ p = Popping(e.pops)
        /\ pushed = pushes[B][Frame.at] \o NewTops(p.nodes, e.pushes)
        /\ SetPops(p)
        /\ pushes' = [pushes EXCEPT ![B][Frame.at] = pushed]
        /\ Step(p.stack \o NewTops(ns, Len(pushed)), Frame.taken + Len(p.params))
  BY Zenon DEF Propagate
<1>2. /\ Graphing
      /\ UNCHANGED <<blocks, outputs, initial, aligned, accumulated, reported, effects, outcome>>
  BY DEF Propagate
<1>3. /\ Types /\ Running /\ B \in Blocks /\ Frame.taken \in Nat
      /\ Nodes(nodes) /\ Stack \in NodeList(nodes)
      /\ e.pops \in Nat /\ e.pushes \in Nat
  BY <1>2, FrameProperties, CellProperties, EffectType
     DEF IInv, Types, Graphing, IsStack
<1>4. Popped(p, nodes, Stack, e.pops)
  BY <1>1, <1>3, PoppingProperties
<1> DEFINE tops  == NewTops(ns, Len(pushed))
           stack == p.stack \o tops
           taken == Frame.taken + Len(p.params)
           ps    == params[B] \o p.params
<1>5. params' = [params EXCEPT ![B] = ps]
  BY <1>1 DEF SetPops
<1>6. ASSUME pushes[B][Frame.at] = <<>>
      PROVE  /\ [params |-> taken, size |-> Len(stack)]
                = Applied(e, [params |-> Frame.taken, size |-> Len(Stack)])
             /\ taken = Frame.taken + (Len(ps) - Len(params[B]))
             /\ Len(ps) \in Nat
  <2>1. Len(pushed) = e.pushes
    <3> DEFINE add == NewTops(p.nodes, e.pushes)
    <3>1. add \in Seq(Nat) /\ Len(add) = e.pushes
      <4>1. Len(p.nodes) \in Nat
        BY <1>4, LenProperties DEF Popped, Extends, Nodes
      <4>2. add \in [1 .. e.pushes -> Nat]
        BY <1>3, <4>1 DEF NewTops
      <4> HIDE DEF add
      <4> QED
        BY <1>3, <4>2, Listed
    <3> HIDE DEF add
    <3>2. <<>> \o add = add
      BY <3>1
    <3> QED
      BY <1>1, <1>6, <3>1, <3>2 DEF add
  <2>2. Len(stack) = Len(p.stack) + e.pushes
    <3> DEFINE add == [i \in 1 .. e.pushes |-> Len(ns) + i]
               S == UNION {Range(p.stack), Range(add)}
    <3>1. tops = add
      BY <2>1 DEF NewTops
    <3>2. p.stack \in NodeList(nodes)
      BY <1>4 DEF Popped
    <3>3. p.stack \in Seq(S)
      <4>1. DOMAIN p.stack = 1 .. Len(p.stack) /\ Len(p.stack) \in Nat /\ p.stack \in Seq(1 .. Len(nodes))
        BY <3>2, LenProperties DEF NodeList
      <4>2. p.stack \in [1 .. Len(p.stack) -> S]
        BY <4>1 DEF Range
      <4> HIDE DEF S
      <4> QED
        BY <4>1, <4>2, Listed
    <3>4. add \in Seq(S) /\ Len(add) = e.pushes
      <4>1. add \in [1 .. e.pushes -> S]
        BY DEF Range
      <4> HIDE DEF S, add
      <4> QED
        BY <1>3, <4>1, Listed
    <3> HIDE DEF S, add, tops
    <3> QED
      BY <3>1, <3>3, <3>4, ConcatProperties
  <2>3. /\ [params |-> taken, size |-> Len(stack)]
           = Applied(e, [params |-> Frame.taken, size |-> Len(Stack)])
        /\ Len(p.params) \in Nat
    <3> DEFINE k == e.pops
               t == Frame.taken
               l == Len(stack)
               st == Stack
    <3>1. /\ k \in Nat /\ t \in Nat /\ l = Len(p.stack) + e.pushes /\ st \in NodeList(nodes)
          /\ Popped(p, nodes, st, k) /\ e.pops = k /\ e.pushes \in Nat /\ Nodes(nodes)
      BY <1>3, <1>4, <2>2
    <3> HIDE DEF k, t, l, st, e
    <3>2. /\ [params |-> t + Len(p.params), size |-> l] = Applied(e, [params |-> t, size |-> Len(st)])
          /\ Len(p.params) \in Nat
      BY <3>1, PoppedLevel
    <3> QED
      BY <3>2 DEF k, t, l, st
  <2>4. Len(ps) = Len(params[B]) + Len(p.params) /\ Len(params[B]) \in Nat
    <3>1. params[B] \in Seq(Nat) /\ p.params \in Seq(Nat)
      <4>1. params[B] \in Seq(1 .. Len(nodes)) /\ p.params \in Seq(1 .. Len(p.nodes))
        BY <1>3, <1>4 DEF Types, NodeList, Popped
      <4>2. 1 .. Len(nodes) \subseteq Nat /\ 1 .. Len(p.nodes) \subseteq Nat
        BY <1>3, <1>4, LenProperties DEF Nodes, Popped, Extends
      <4> QED
        BY <4>1, <4>2, SeqMonotonic
    <3> QED
      BY <3>1, ConcatProperties, LenProperties
  <2>5. taken = Frame.taken + (Len(ps) - Len(params[B])) /\ Len(ps) \in Nat
    <3> DEFINE x == Len(params[B])
               y == Len(p.params)
               z == Frame.taken
    <3>1. x \in Nat /\ y \in Nat /\ z \in Nat
      BY <1>3, <2>3, <2>4
    <3>2. taken = z + y /\ Len(ps) = x + y
      BY <2>4
    <3> HIDE DEF x, y, z, taken, ps
    <3>3. taken = z + (Len(ps) - x) /\ Len(ps) \in Nat
      BY <3>1, <3>2
    <3> QED
      BY <3>3 DEF x, z
  <2> HIDE DEF stack, ps, e
  <2> QED
    BY <2>3, <2>5
<1>7. PushedHere /\ Step(stack, taken)
  BY <1>1, <1>3, PushesChanged
<1> HIDE DEF stack, taken, ps, e
<1> QED
  BY <1>2, <1>5, <1>6, <1>7, LevelStep DEF e

\* What a local is stored from and loaded to.
LEMMA LocalEffects ==
  ASSUME IsLocal(Cell0)
  PROVE  Effect(Cell0) = IF Cell0.kind = "toLocal" THEN [pops |-> 1, pushes |-> 0]
                         ELSE [pops |-> 0, pushes |-> 1]
<1>1. Cell0.kind \in {"toLocal", "fromLocal"} /\ Cell0 # Exit
  BY DEF IsLocal, Exit
<1>2. Effect(Cell0) = [pops |-> Effects.pops[Cell0.kind], pushes |-> Effects.pushes[Cell0.kind]]
  BY <1>1 DEF Effect
<1>3. /\ Effects.pops["toLocal"] = 1 /\ Effects.pushes["toLocal"] = 0
      /\ Effects.pops["fromLocal"] = 0 /\ Effects.pushes["fromLocal"] = 1
  BY DEF Effects, Primitives, BinaryPrimitives
<1> QED
  BY <1>1, <1>2, <1>3

LEMMA StoreLocalLevel ==
  ASSUME IInv, StoreLocal, NEW E, Flow(blocks, E), Level(E)
  PROVE  Level(E)'
<1> DEFINE p == Popping(1)
           e == Effect(Cell0)
           taken == Frame.taken + Len(p.params)
           ps == params[B] \o p.params
<1>1. /\ Graphing /\ Cell0.kind = "toLocal" /\ SetPops(p) /\ Step(p.stack, taken)
      /\ UNCHANGED <<blocks, pushes, outputs, initial, aligned, accumulated, reported, effects, outcome>>
  BY DEF StoreLocal
<1>2. /\ Types /\ Running /\ B \in Blocks /\ Frame.taken \in Nat
      /\ Nodes(nodes) /\ Stack \in NodeList(nodes) /\ Frame.at \in DOMAIN Body
  BY <1>1, FrameProperties, CellProperties DEF IInv, Types, Graphing, IsStack
<1>3. Popped(p, nodes, Stack, 1)
  BY <1>2, PoppingProperties
<1>4. e = [pops |-> 1, pushes |-> 0]
  BY <1>1, LocalEffects DEF IsLocal
<1> HIDE DEF p, e
<1>5. /\ [params |-> taken, size |-> Len(p.stack)]
         = Applied(e, [params |-> Frame.taken, size |-> Len(Stack)])
      /\ Len(p.params) \in Nat
  <2> DEFINE t == Frame.taken
             l == Len(p.stack)
             st == Stack
  <2>1. l \in Nat
    BY <1>3, LenProperties DEF Popped, NodeList
  <2>2. /\ t \in Nat /\ l = Len(p.stack) + e.pushes /\ st \in NodeList(nodes)
        /\ Popped(p, nodes, st, 1) /\ e.pops = 1 /\ e.pushes \in Nat /\ Nodes(nodes)
    BY <1>2, <1>3, <1>4, <2>1
  <2> HIDE DEF t, l, st
  <2>3. /\ [params |-> t + Len(p.params), size |-> l] = Applied(e, [params |-> t, size |-> Len(st)])
        /\ Len(p.params) \in Nat
    BY <2>2, PoppedLevel
  <2> QED
    BY <2>3 DEF t, l, st
<1>6. Len(ps) = Len(params[B]) + Len(p.params) /\ Len(params[B]) \in Nat
  <2>1. params[B] \in Seq(Nat) /\ p.params \in Seq(Nat)
    <3>1. params[B] \in Seq(1 .. Len(nodes)) /\ p.params \in Seq(1 .. Len(p.nodes))
      BY <1>2, <1>3 DEF Types, NodeList, Popped
    <3>2. 1 .. Len(nodes) \subseteq Nat /\ 1 .. Len(p.nodes) \subseteq Nat
      BY <1>2, <1>3, LenProperties DEF Nodes, Popped, Extends
    <3> QED
      BY <3>1, <3>2, SeqMonotonic
  <2> QED
    BY <2>1, ConcatProperties, LenProperties
<1>7. taken = Frame.taken + (Len(ps) - Len(params[B])) /\ Len(ps) \in Nat
  <2> DEFINE x == Len(params[B])
             y == Len(p.params)
             z == Frame.taken
  <2>1. x \in Nat /\ y \in Nat /\ z \in Nat
    BY <1>2, <1>5, <1>6
  <2>2. taken = z + y /\ Len(ps) = x + y
    BY <1>6
  <2> HIDE DEF x, y, z, taken, ps
  <2>3. taken = z + (Len(ps) - x) /\ Len(ps) \in Nat
    BY <2>1, <2>2
  <2> QED
    BY <2>3 DEF x, z
<1>8. params' = [params EXCEPT ![B] = ps]
  BY <1>1 DEF SetPops
<1>9. PushedHere
  BY <1>1 DEF PushedHere
<1> HIDE DEF taken, ps
<1> QED
  BY <1>1, <1>5, <1>7, <1>8, <1>9, LevelStep DEF e

LEMMA LoadLocalLevel ==
  ASSUME IInv, LoadLocal, NEW E, Flow(blocks, E), Level(E)
  PROVE  Level(E)'
<1>1. CASE Key(Cell0) \notin DOMAIN locals
  <2>1. Stop("aborted") /\ Graphing
    BY <1>1 DEF LoadLocal
  <2>2. UNCHANGED <<blocks, nodes, pops, pushes, perBlock, links, accumulated,
                    locals, calls, reported, effects>> /\ outcome' = "aborted"
    BY <2>1 DEF Stop
  <2> QED
    BY <2>2, SameLevel DEF perBlock, links
<1>2. CASE Key(Cell0) \in DOMAIN locals
  <2> DEFINE new   == NewTops(nodes, 2)
             stack == Append(Stack, new[2])
             taken == Frame.taken
             ps    == params[B]
  <2>1. /\ Graphing /\ Cell0.kind = "fromLocal"
        /\ pushes' = [pushes EXCEPT ![B][Frame.at] = Append(@, new[1])]
        /\ Step(stack, taken)
        /\ UNCHANGED <<blocks, perBlock, links, accumulated, reported, effects, outcome>>
    BY <1>2 DEF LoadLocal
  <2>2. UNCHANGED <<blocks, outputs, params, initial, aligned, accumulated, reported, effects, outcome>>
    BY <2>1 DEF perBlock, links
  <2>3. /\ Types /\ B \in Blocks /\ Frame.taken \in Nat /\ Stack \in NodeList(nodes)
        /\ params \in [Blocks -> NodeList(nodes)]
    BY <2>1, FrameProperties, CellProperties DEF IInv, Types, Graphing, IsStack
  <2>4. params' = [params EXCEPT ![B] = ps]
    BY <2>2, <2>3
  <2>5. Effect(Cell0) = [pops |-> 0, pushes |-> 1]
    BY <2>1, LocalEffects DEF IsLocal
  <2>6. Len(stack) = Len(Stack) + 1 /\ Len(Stack) \in Nat /\ Len(ps) \in Nat
    <3>1. Stack \in Seq(Nat) /\ new[2] \in Nat
      <4>1. Len(nodes) \in Nat /\ Stack \in Seq(1 .. Len(nodes))
        BY <2>3, LenProperties DEF Types, Nodes, NodeList
      <4>2. 1 .. Len(nodes) \subseteq Nat /\ new[2] = Len(nodes) + 2
        BY <4>1 DEF NewTops
      <4> HIDE DEF new
      <4> QED
        BY <4>1, <4>2, SeqMonotonic
    <3>2. Len(ps) \in Nat
      BY <2>3, LenProperties DEF NodeList
    <3> HIDE DEF new, ps
    <3> QED
      BY <3>1, <3>2, AppendProperties, LenProperties
  <2>7. /\ [params |-> taken, size |-> Len(stack)]
           = Applied(Effect(Cell0), [params |-> Frame.taken, size |-> Len(Stack)])
        /\ taken = Frame.taken + (Len(ps) - Len(params[B])) /\ Len(ps) \in Nat
    <3> DEFINE s == [params |-> taken, size |-> Len(Stack)]
               e == Effect(Cell0)
               y == Len(ps)
    <3>1. s \in State /\ s.params = taken /\ s.size = Len(Stack) /\ taken \in Nat
      BY <2>3, <2>6 DEF State
    <3>2. e.pops = 0 /\ e.pushes = 1
      BY <2>5
    <3>3. taken = taken + (y - y) /\ y \in Nat
      BY <2>6, <3>1
    <3> HIDE DEF s, e, y, taken
    <3>4. Applied(e, s) = [params |-> s.params, size |-> (s.size - 0) + 1]
      <4>1. e.pops <= s.size
        BY <3>1, <3>2, <2>6
      <4>2. e.pops \in Nat /\ e.pushes \in Nat
        BY <3>2
      <4>3. Applied(e, s) = [params |-> s.params, size |-> (s.size - e.pops) + e.pushes]
        BY <3>1, <4>1, <4>2, AppliedProperties
      <4> QED
        BY <3>2, <4>3
    <3>5. (s.size - 0) + 1 = Len(stack)
      BY <2>6, <3>1
    <3> HIDE DEF stack
    <3> QED
      BY <3>1, <3>3, <3>4, <3>5 DEF e, s, y, taken
  <2>8. PushedHere
    BY <2>1, <2>3, PushesChanged
  <2> HIDE DEF stack, taken, ps
  <2> QED
    BY <2>1, <2>2, <2>4, <2>7, <2>8, LevelStep
<1> QED
  BY <1>1, <1>2

\* The order of the successors does not change which they are.
LEMMA OrderRange ==
  ASSUME NEW S, NEW nexts \in Seq(S), Len(nexts) <= 2
  PROVE  /\ Range(AlignOrder(nexts)) = Range(nexts)
         /\ AlignOrder(nexts) = <<>> <=> nexts = <<>>
<1> DEFINE n == Len(nexts)
           rev == Reverse(nexts)
<1>1. n \in Nat /\ DOMAIN nexts = 1 .. n
  BY LenProperties
<1>2. CASE AlignOrder(nexts) = nexts
  BY <1>2
<1>3. CASE n = 2 /\ AlignOrder(nexts) = rev
  <2>1. rev \in Seq(S) /\ Len(rev) = n /\ \A i \in 1 .. n : rev[i] = nexts[(n - i) + 1]
    BY Reversed
  <2>2. DOMAIN rev = 1 .. 2
    BY <2>1, <1>3, LenProperties
  <2> HIDE DEF rev
  <2>3. rev[1] = nexts[2] /\ rev[2] = nexts[1]
    BY <2>1, <1>3
  <2>4. DOMAIN nexts = {1, 2} /\ DOMAIN rev = {1, 2}
    BY <1>1, <1>3, <2>2
  <2>5. Range(rev) = Range(nexts)
    BY <2>3, <2>4 DEF Range
  <2>6. rev # <<>> /\ nexts # <<>>
    BY <2>1, <1>3, EmptySeq
  <2> QED
    BY <1>3, <2>5, <2>6
<1> QED
  BY <1>2, <1>3 DEF AlignOrder

\* At the end of a block that has successors, the call has as many elements as
\* each of them is entered with.
LEMMA LeavingLevel ==
  ASSUME IInv, Running, NEW E, Flow(blocks, E), Level(E), Frame.at > Len(Body),
         NEW t \in Range(NextBBs(B))
  PROVE  /\ t \in DOMAIN E /\ E[t] \in State
         /\ Frame.taken = E[t].params /\ Len(Stack) = E[t].size
         /\ E[t].params = E[B].params + Len(params[B])
<1>1. B \in DOMAIN E /\ (Once(blocks, E, B) => OnLevel(Frame, blocks, E, params, pushes))
  BY TopLevel
<1>2. blocks \in Graphs
  BY DEF IInv, Types
<1>3. To(blocks, B) = NextBBs(B) /\ Len(Body) \in Nat /\ NextBBs(B) \in Seq(Blocks)
  BY <1>1, <1>2, FlowProperties DEF Body
<1>4. Once(blocks, E, B)
  <2>1. To(blocks, B) # <<>>
    BY <1>3 DEF Range
  <2> QED
    BY <2>1 DEF Once
<1>5. /\ t \in DOMAIN E /\ E[t] = Along(Body, E[B])[Len(Body)]
  BY <1>1, <1>3 DEF Flow, Body
<1>6. E[t] \in State
  BY <1>5 DEF Flow
<1>7. Frame.at \in Nat
  BY FrameProperties, <1>3
<1>8. Through(Frame, blocks) = Len(Body)
  BY <1>3, <1>7 DEF Through, Body, B
<1> QED
  BY <1>1, <1>4, <1>5, <1>6, <1>8 DEF OnLevel, Body, B, Stack

LEMMA CloseBlockLevel ==
  ASSUME IInv, CloseBlock, NEW E, Flow(blocks, E), Level(E)
  PROVE  Level(E)'
<1> DEFINE order == AlignOrder(NextBBs(B))
           nexts == Range(NextBBs(B))
           final == [params |-> accumulated[B].params + Len(params[B]), size |-> Len(Stack)]
           n     == Len(calls)
           c     == Moved(Stack, Frame.taken, NextBBs(B))
           a     == Alignment(order)
<1>1. Running /\ Frame.at = Len(Body) + 1
  BY DEF CloseBlock
<1>2. /\ Types /\ B \in Blocks /\ Frame.taken \in Nat /\ calls # <<>>
      /\ IsStack(Stack, nodes) /\ Nodes(nodes) /\ Stack \in NodeList(nodes) /\ Distinct(Stack)
      /\ ActiveCalls(calls, blocks, nodes, aligned.outputs)
      /\ Allocated(initial, generated, aligned.inputs, locals)
  BY <1>1, FrameProperties DEF IInv, Types, IsStack
<1>3. /\ n \in Nat /\ 1 <= n /\ Frame = calls[n]
      /\ B \in DOMAIN E /\ (B \in aligned.inputs \/ B = 1)
      /\ Walks(Frame, blocks, E, aligned.inputs, aligned.outputs)
      /\ Once(blocks, E, B) => OnLevel(Frame, blocks, E, params, pushes)
  BY <1>1, TopLevel
<1>4. /\ Blocks \subseteq Nat /\ Len(Body) \in Nat /\ DOMAIN Body = 1 .. Len(Body)
      /\ NextBBs(B) \in Seq(Blocks) /\ Len(NextBBs(B)) <= 2
      /\ To(blocks, B) = NextBBs(B)
  BY <1>2, BlockProperties DEF Types, Body, To, NextBBs
<1>5. B \notin aligned.outputs
  <2>1. Frame.at <= Len(blocks[Frame.block]) + 1 /\ Open(Frame, blocks, aligned.outputs)
    BY <1>1, <1>4, FrameProperties DEF Body, B
  <2> QED
    BY <2>1 DEF Open, B
<1>6. /\ order \in Seq(Blocks) /\ Len(order) <= 2
      /\ Range(order) = nexts /\ (order = <<>> <=> NextBBs(B) = <<>>)
  <2> DEFINE nx == NextBBs(B)
             S == Blocks
  <2>1. nx \in Seq(S) /\ Reverse(nx) \in Seq(S) /\ Len(Reverse(nx)) = Len(nx)
        /\ Len(nx) <= 2
    BY <1>4, Reversed
  <2> HIDE DEF nx, S
  <2>2. AlignOrder(nx) \in Seq(S) /\ Len(AlignOrder(nx)) <= 2
    BY <2>1 DEF AlignOrder
  <2>3. /\ Range(AlignOrder(nx)) = Range(nx)
        /\ AlignOrder(nx) = <<>> <=> nx = <<>>
    BY <2>1, OrderRange
  <2> QED
    BY <2>2, <2>3 DEF nx, S
<1>7. nexts \subseteq Blocks
  BY <1>4, ElementOfSeq, LenProperties DEF Range
<1>8. \A t \in nexts :
        /\ t \in DOMAIN E /\ E[t] \in State /\ Len(Stack) = E[t].size
        /\ E[t].params = E[B].params + Len(params[B])
  <2>1. Frame.at > Len(Body)
    BY <1>1, <1>4
  <2> QED
    BY <1>1, <2>1, LeavingLevel
<1>9. \A t \in nexts : final = E[t]
  <2>1. accumulated[B] = E[B]
    BY <1>3 DEF Level, InputsLevel
  <2> QED
    BY <1>8, <2>1 DEF State
<1> HIDE DEF order, nexts, final, c, a
<1>10. ~Overrun(order)
  <2> SUFFICES ASSUME Overrun(order) PROVE FALSE
    OBVIOUS
  <2>1. order # <<>> /\ order[1] \in aligned.inputs /\ Len(Stack) > Len(initial[order[1]])
    BY DEF Overrun
  <2>2. order[1] \in nexts
    <3>1. 1 \in DOMAIN order
      BY <1>6, <2>1, EmptySeq, LenProperties
    <3> QED
      BY <1>6, <3>1 DEF Range
  <2>3. Len(initial[order[1]]) = E[order[1]].size
    BY <2>1 DEF Level, InputsLevel
  <2>4. Len(Stack) \in Nat
    BY <1>2, LenProperties DEF NodeList
  <2> QED
    BY <1>8, <2>1, <2>2, <2>3, <2>4
<1>11. /\ outputs' = [outputs EXCEPT ![B] = Stack]
       /\ accumulated' = [t \in Blocks |->
                            IF t \in nexts \ aligned.outputs THEN final ELSE accumulated[t]]
       /\ reported' = reported \cup
            {<<B, t>> : t \in {t \in nexts \cap aligned.outputs : accumulated[t] # final}}
       /\ initial' = a.initial
       /\ aligned' = [inputs |-> a.inputs, outputs |-> a.outputs]
       /\ calls' = ReplaceTop(calls, c)
       /\ UNCHANGED <<blocks, pushes, params, effects, outcome>>
  BY <1>10 DEF CloseBlock, ReplaceTop, order, nexts, final, c, a
<1> DEFINE outs == aligned'.outputs
           ins  == aligned'.inputs
<1>12. /\ order = <<>> => outs = aligned.outputs
       /\ order # <<>> => outs = aligned.outputs \cup {B}
       /\ ins = aligned.inputs \cup nexts
       /\ \A u \in Blocks : u \notin nexts \/ u \in aligned.inputs => initial'[u] = initial[u]
       /\ \A u \in nexts : u \notin aligned.inputs => Len(initial'[u]) = Len(Stack)
  <2>1. /\ initial \in [Blocks -> Seq(Registers)] /\ generated \in [Blocks -> Nat]
        /\ aligned \in [inputs : SUBSET Blocks, outputs : SUBSET Blocks]
    BY <1>2 DEF Types
  <2>2. /\ order = <<>> => a.outputs = aligned.outputs
        /\ order # <<>> => a.outputs = aligned.outputs \cup {B}
        /\ EdgesAdd(a, order, Stack)
    BY <1>2, <1>4, <1>5, <1>6, <1>10, <2>1, AlignedEdges DEF a
  <2> QED
    BY <1>6, <1>11, <2>2 DEF EdgesAdd
<1>13. /\ Len(calls') = n
       /\ \A k \in 1 .. n : calls'[k] = IF k = n THEN c ELSE calls[k]
  BY <1>2, <1>11, ReplacedCalls
<1>14. /\ c.block = B /\ c.at = Len(Body) + 2 /\ c.stack = Stack /\ c.taken = Frame.taken
       /\ c.left = NextBBs(B) /\ Frame.left = <<>> /\ Frame.block = B
  <2>1. Frame.at <= Len(blocks[Frame.block]) + 1
    BY <1>1, <1>4 DEF Body, B
  <2>2. c.at = Frame.at + 1
    BY DEF c, Moved
  <2> QED
    BY <1>1, <1>3, <1>4, <2>1, <2>2 DEF c, Moved, Walks, B
<1> HIDE DEF outs, ins
<1>15. /\ aligned.outputs \subseteq outs /\ aligned.inputs \subseteq ins
       /\ \A k \in 1 .. n : calls'[k].block = calls[k].block
       /\ B \in outs \/ NextBBs(B) = <<>>
  BY <1>3, <1>6, <1>12, <1>13, <1>14
<1>16. CallsLevel(E)'
  <2>1. ASSUME NEW k \in 1 .. n
        PROVE  /\ Walks(calls'[k], blocks, E, ins, outs)
               /\ Once(blocks, E, calls'[k].block) => OnLevel(calls'[k], blocks, E, params, pushes)
    <3>1. CASE k = n
      <4>1. ~(c.at <= Len(blocks[c.block]) + 1) /\ ~(c.at <= Len(blocks[c.block]))
        BY <1>4, <1>14 DEF Body
      <4>2. LeftOf(c, blocks)
        <5> DEFINE nx == NextBBs(B)
        <5>1. Len(nx) \in Nat /\ c.left = nx /\ To(blocks, c.block) = nx
          BY <1>4, <1>14, LenProperties
        <5> HIDE DEF nx
        <5> QED
          BY <5>1 DEF LeftOf
      <4>3. Walks(c, blocks, E, ins, outs)
        BY <1>3, <1>4, <1>14, <1>15, <4>1, <4>2 DEF Walks
      <4>4. Once(blocks, E, B) => OnLevel(c, blocks, E, params, pushes)
        <5>1. Through(c, blocks) = Len(Body) /\ Through(Frame, blocks) = Len(Body)
          <6>1. ~(Frame.at <= Len(Body))
            BY <1>1, <1>4
          <6> QED
            BY <1>14, <4>1, <6>1 DEF Through, Body
        <5>2. \A i \in DOMAIN blocks[c.block] : ~(c.at <= i)
          BY <1>4, <1>14 DEF Body
        <5> QED
          BY <1>3, <1>14, <5>1, <5>2 DEF OnLevel, Stack
      <4> QED
        BY <1>13, <1>14, <3>1, <4>3, <4>4
    <3>2. CASE k # n
      <4>1. calls'[k] = calls[k]
        BY <1>13, <3>2
      <4>2. Walks(calls[k], blocks, E, aligned.inputs, aligned.outputs)
            /\ (Once(blocks, E, calls[k].block) => OnLevel(calls[k], blocks, E, params, pushes))
        BY DEF Level, CallsLevel
      <4>3. Walks(calls[k], blocks, E, ins, outs)
        BY <1>15, <4>2 DEF Walks
      <4> QED
        BY <4>1, <4>2, <4>3
    <3> QED
      BY <3>1, <3>2
  <2>2. \A k, l \in 1 .. n :
          Once(blocks, E, calls'[k].block) /\ calls'[k].block = calls'[l].block => k = l
    BY <1>15 DEF Level, CallsLevel
  <2> QED
    BY <1>11, <1>13, <2>1, <2>2 DEF CallsLevel, ins, outs
<1>17. \A t \in DOMAIN E : t \in aligned.inputs \/ t = 1 \/ t \in nexts => accumulated'[t] = E[t]
  <2> SUFFICES ASSUME NEW t \in DOMAIN E, t \in aligned.inputs \/ t = 1 \/ t \in nexts
               PROVE  accumulated'[t] = E[t]
    OBVIOUS
  <2>1. t \in Blocks
    BY <1>2, FlowProperties DEF Types
  <2>2. CASE t \in nexts \ aligned.outputs
    BY <1>9, <1>11, <2>1, <2>2
  <2>3. CASE t \notin nexts \ aligned.outputs
    <3>1. t \in aligned.inputs \/ t = 1
      BY <2>3 DEF Level, OutputsLevel
    <3>2. accumulated[t] = E[t]
      BY <3>1 DEF Level, InputsLevel
    <3> QED
      BY <1>11, <2>1, <2>3, <3>2
  <2> QED
    BY <2>2, <2>3
<1>18. InputsLevel(E)'
  <2>1. ASSUME NEW t \in ins
        PROVE  /\ t \in DOMAIN E /\ Len(initial'[t]) = E[t].size
               /\ accumulated'[t] = E[t]
               /\ \E p \in outs : t \in Range(To(blocks, p))
    <3>1. CASE t \in aligned.inputs
      <4>1. /\ t \in DOMAIN E /\ Len(initial[t]) = E[t].size
            /\ \E p \in aligned.outputs : t \in Range(To(blocks, p))
        BY <3>1 DEF Level, InputsLevel
      <4>2. t \in Blocks
        BY <1>2, <4>1, FlowProperties DEF Types
      <4> QED
        BY <1>12, <1>15, <1>17, <3>1, <4>1, <4>2
    <3>2. CASE t \notin aligned.inputs
      <4>1. t \in nexts
        BY <1>12, <3>2
      <4>2. NextBBs(B) # <<>>
        BY <4>1 DEF nexts, Range
      <4>3. B \in outs /\ t \in Range(To(blocks, B))
        BY <1>4, <1>15, <4>1, <4>2 DEF nexts
      <4> QED
        BY <1>8, <1>12, <1>17, <3>2, <4>1, <4>3
    <3> QED
      BY <3>1, <3>2
  <2>2. accumulated'[1] = E[1]
    BY <1>17 DEF Flow
  <2> QED
    BY <1>11, <2>1, <2>2 DEF InputsLevel, ins, outs
<1>19. OutputsLevel(E)'
  <2>1. ASSUME NEW b \in outs
        PROVE  /\ b \in DOMAIN E /\ To(blocks, b) # <<>>
               /\ b \in ins \/ b = 1
               /\ Range(To(blocks, b)) \subseteq ins
    <3>1. CASE b \in aligned.outputs
      BY <1>15, <3>1 DEF Level, OutputsLevel
    <3>2. CASE b \notin aligned.outputs
      <4>1. b = B /\ NextBBs(B) # <<>>
        BY <1>6, <1>12, <3>2
      <4> QED
        BY <1>3, <1>4, <1>12, <1>15, <4>1 DEF nexts
    <3> QED
      BY <3>1, <3>2
  <2> QED
    BY <1>11, <2>1 DEF OutputsLevel, ins, outs
<1>20. \A b : Active(b)' <=> Active(b)
  BY <1>13, <1>15 DEF Active
<1>21. \A b : IsLeft(b)' <=> IsLeft(b) \/ b \in nexts
  <2> SUFFICES ASSUME NEW b PROVE IsLeft(b)' <=> IsLeft(b) \/ b \in nexts
    OBVIOUS
  <2>1. n \in 1 .. n /\ Range(calls'[n].left) = nexts /\ calls[n].left = <<>>
    BY <1>3, <1>13, <1>14 DEF nexts
  <2>2. b \notin Range(calls[n].left)
    BY <2>1 DEF Range
  <2>3. \A k \in 1 .. n : k # n => calls'[k] = calls[k]
    BY <1>13
  <2> QED
    BY <1>13, <2>1, <2>2, <2>3 DEF IsLeft
<1>22. \A b : IsEnd(E, b)' <=> IsEnd(E, b)
  BY <1>11 DEF IsEnd
<1>23. \A b \in DOMAIN E : IsEnd(E, b) => (Awaited(b)' <=> Awaited(b))
  <2> SUFFICES ASSUME NEW b \in DOMAIN E, IsEnd(E, b)
               PROVE  Awaited(b)' <=> Awaited(b)
    OBVIOUS
  <2>1. b \in nexts => b \notin aligned.inputs /\ b # 1
    <3> SUFFICES ASSUME b \in nexts PROVE b \notin aligned.inputs /\ b # 1
      OBVIOUS
    <3>1. PICK i \in DOMAIN To(blocks, B) : To(blocks, B)[i] = b
      BY <1>4 DEF nexts, Range
    <3>2. b # 1
      BY <1>3, <1>4 DEF IsEnd, EnteredOnce, nexts
    <3>3. ASSUME b \in aligned.inputs PROVE FALSE
      <4>1. PICK p \in aligned.outputs : b \in Range(To(blocks, p))
        BY <3>3 DEF Level, InputsLevel
      <4>2. p \in DOMAIN E
        BY DEF Level, OutputsLevel
      <4>3. PICK j \in DOMAIN To(blocks, p) : To(blocks, p)[j] = b
        BY <4>1 DEF Range
      <4>4. p = B
        BY <1>3, <3>1, <4>2, <4>3 DEF IsEnd, EnteredOnce
      <4> QED
        BY <1>5, <4>4
    <3> QED
      BY <3>2, <3>3
  <2> QED
    BY <1>12, <1>21, <2>1 DEF Awaited, ins
<1>24. FreshLevel(E)'
  <2>1. \A b : Fresh(b)' <=> Fresh(b)
    BY <1>11 DEF Fresh
  <2>2. \A b \in DOMAIN E :
          To(blocks, b) # <<>> /\ b \notin outs /\ ~Active(b)' => Fresh(b)'
    BY <1>15, <1>20, <2>1 DEF Level, FreshLevel
  <2>3. \A b \in DOMAIN E : IsEnd(E, b)' /\ Awaited(b)' => Fresh(b)' /\ ~Active(b)'
    BY <1>20, <1>22, <1>23, <2>1 DEF Level, FreshLevel
  <2> QED
    BY <1>11, <2>2, <2>3 DEF FreshLevel, outs
<1>25. EndsLevel(E)'
  <2> SUFFICES ASSUME NEW b \in DOMAIN E, IsEnd(E, b), ~Awaited(b), Closed(b)'
               PROVE  Left(E, b)'
    BY <1>22, <1>23 DEF EndsLevel
  <2>1. b \in Blocks
    BY <1>2, FlowProperties DEF Types
  <2>2. CASE b = B
    <3>1. OnLevel(Frame, blocks, E, params, pushes)
      BY <1>3, <2>2 DEF IsEnd, Once
    <3>2. Through(Frame, blocks) = Len(Body)
      BY <1>1, <1>4, <1>14 DEF Through, Body
    <3>3. outputs'[B] = Stack
      BY <1>2, <1>11 DEF Types
    <3> QED
      BY <1>11, <1>14, <2>2, <3>1, <3>2, <3>3 DEF OnLevel, Left, Body, Stack
  <2>3. CASE b # B
    <3>1. \A k \in 1 .. n : calls[k].block = b => calls'[k] = calls[k]
      BY <1>3, <1>13, <1>14, <2>3
    <3>2. Closed(b)
      BY <1>11, <1>13, <3>1 DEF Closed
    <3>3. outputs'[b] = outputs[b]
      BY <1>2, <1>11, <2>1, <2>3 DEF Types
    <3> QED
      BY <1>11, <3>2, <3>3 DEF Level, EndsLevel, Left
  <2> QED
    BY <2>2, <2>3
<1>26. SeenLevel'
  <2>1. ASSUME NEW t \in ins \cup {1}
        PROVE  t \in outs \/ To(blocks, t) = <<>> \/ Active(t)' \/ IsLeft(t)'
    <3>1. CASE t \in nexts
      BY <1>21, <3>1
    <3>2. CASE t \notin nexts
      <4>1. t \in aligned.inputs \cup {1}
        BY <1>12, <3>2
      <4> QED
        BY <1>15, <1>20, <1>21, <4>1 DEF Level, SeenLevel
    <3> QED
      BY <3>1, <3>2
  <2> QED
    BY <1>11, <2>1 DEF SeenLevel, ins, outs
<1>27. OutcomeLevel'
  <2>1. {t \in nexts \cap aligned.outputs : accumulated[t] # final} = {}
    <3> SUFFICES ASSUME NEW t \in nexts, t \in aligned.outputs PROVE accumulated[t] = final
      OBVIOUS
    <3>1. t \in aligned.inputs \/ t = 1
      BY DEF Level, OutputsLevel
    <3>2. accumulated[t] = E[t]
      BY <3>1 DEF Level, InputsLevel
    <3> QED
      BY <1>9, <3>2
  <2>2. reported' = {}
    BY <1>11, <2>1 DEF Level, OutcomeLevel
  <2> QED
    BY <1>1, <1>11, <2>2 DEF Level, OutcomeLevel, Running
<1> QED
  BY <1>16, <1>18, <1>19, <1>24, <1>25, <1>26, <1>27 DEF Level

\* What the first of the successors left to a closed block is.
LEMMA NextLevel ==
  ASSUME IInv, Running, NEW E, Flow(blocks, E), Level(E), Frame.at > Len(Body) + 1, Frame.left # <<>>
  PROVE  /\ Head(Frame.left) \in Range(NextBBs(B)) /\ Head(Frame.left) \in aligned.inputs
         /\ Tail(Frame.left) \in Seq(Blocks) /\ Len(Tail(Frame.left)) = Len(Frame.left) - 1
         /\ Len(Frame.left) \in Nat /\ 1 <= Len(Frame.left)
         /\ \A i \in 1 .. Len(Frame.left) - 1 : Tail(Frame.left)[i] = Frame.left[i + 1]
         /\ Range(Frame.left) = {Head(Frame.left)} \cup Range(Tail(Frame.left))
<1> DEFINE left == Frame.left
           to   == NextBBs(B)
           m    == Len(left)
<1>1. /\ left \in Seq(Blocks) /\ left # <<>> /\ B \in DOMAIN E
      /\ Walks(Frame, blocks, E, aligned.inputs, aligned.outputs)
  BY FrameProperties, TopLevel
<1>2. blocks \in Graphs
  BY DEF IInv, Types
<1>3. To(blocks, B) = to /\ to \in Seq(Blocks) /\ Len(Body) \in Nat
  BY <1>1, <1>2, FlowProperties DEF Body
<1>4. /\ m \in Nat /\ 1 <= m /\ Head(left) = left[1]
      /\ Tail(left) \in Seq(Blocks) /\ Len(Tail(left)) = m - 1
      /\ \A i \in 1 .. m - 1 : Tail(left)[i] = left[i + 1]
  BY <1>1, HeadTailProperties, EmptySeq
<1>5. Frame.at \in Nat
  BY <1>3, FrameProperties
<1>6. /\ m <= Len(to) /\ (B \in aligned.outputs \/ to = <<>>)
      /\ \A i \in 1 .. m : left[i] = to[(Len(to) - m) + i]
  BY <1>1, <1>3, <1>5 DEF Walks, LeftOf, B, Body
<1>7. Len(to) \in Nat /\ DOMAIN to = 1 .. Len(to)
  BY <1>3, LenProperties
<1> HIDE DEF left, to, m
<1>8. Head(left) \in Range(to)
  <2>1. (Len(to) - m) + 1 \in DOMAIN to
    BY <1>4, <1>6, <1>7
  <2>2. Head(left) = to[(Len(to) - m) + 1]
    BY <1>4, <1>6
  <2> QED
    BY <2>1, <2>2 DEF Range
<1>9. Head(left) \in aligned.inputs
  <2>1. to # <<>>
    BY <1>8 DEF Range
  <2> QED
    BY <1>3, <1>6, <1>8, <2>1 DEF Level, OutputsLevel
<1>10. Range(left) = {Head(left)} \cup Range(Tail(left))
  <2>1. DOMAIN left = 1 .. m /\ DOMAIN Tail(left) = 1 .. m - 1
    BY <1>1, <1>4, LenProperties DEF left, m
  <2>2. \A i \in 1 .. m : i = 1 \/ (i - 1 \in 1 .. m - 1 /\ left[i] = Tail(left)[i - 1])
    <3> SUFFICES ASSUME NEW i \in 1 .. m, i # 1
                 PROVE  i - 1 \in 1 .. m - 1 /\ left[i] = Tail(left)[i - 1]
      OBVIOUS
    <3>1. i - 1 \in 1 .. m - 1 /\ (i - 1) + 1 = i
      BY <1>4
    <3> QED
      BY <1>4, <3>1
  <2>3. \A i \in 1 .. m - 1 : i + 1 \in 1 .. m /\ 1 \in 1 .. m
    BY <1>4
  <2>4. 1 \in 1 .. m
    BY <1>4
  <2>5. \A x \in Range(left) : x \in {Head(left)} \cup Range(Tail(left))
    BY ZenonT(30), <1>4, <2>1, <2>2 DEF Range
  <2>6. \A x \in Range(Tail(left)) : x \in Range(left)
    BY <1>4, <2>1, <2>3 DEF Range
  <2>7. Head(left) \in Range(left)
    BY <1>4, <2>1, <2>4 DEF Range
  <2> QED
    BY <2>5, <2>6, <2>7
<1> QED
  BY <1>4, <1>8, <1>9, <1>10 DEF left, to, m

\* The calls when the innermost one waits for the next successor.
LEMMA WaitingCalls ==
  ASSUME IInv, Running
  PROVE  /\ Len(Waiting) = Len(calls)
         /\ \A k \in 1 .. Len(calls) : k # Len(calls) => Waiting[k] = calls[k]
         /\ LET c == Waiting[Len(calls)]
            IN  /\ c.block = B /\ c.at = Frame.at /\ c.stack = Stack
                /\ c.taken = Frame.taken /\ c.left = Tail(Frame.left)
<1> DEFINE n == Len(calls)
           c == [Frame EXCEPT !.left = Tail(@)]
<1>1. /\ calls # <<>> /\ ActiveCalls(calls, blocks, nodes, aligned.outputs)
      /\ IsCall(Frame, blocks, nodes)
  BY FrameProperties DEF IInv
<1>2. /\ n \in Nat /\ 1 <= n /\ Frame = calls[n]
  BY <1>1, TopProperties DEF Frame
<1>3. Waiting = ReplaceTop(calls, c)
  BY <1>2 DEF Waiting, ReplaceTop
<1>4. /\ c.block = B /\ c.at = Frame.at /\ c.stack = Stack
      /\ c.taken = Frame.taken /\ c.left = Tail(Frame.left)
  <2> DEFINE r == Frame
             T == Tail(r.left)
             N == NodeList(nodes)
             S == DOMAIN blocks
  <2>1. r \in [block : S, at : Nat, stack : N, taken : Nat, left : Seq(S)]
    BY <1>1 DEF IsCall, Call
  <2>2. c = [r EXCEPT !.left = T]
    OBVIOUS
  <2> HIDE DEF r, T, N, S, c
  <2>3. /\ c.block = r.block /\ c.at = r.at /\ c.stack = r.stack
        /\ c.taken = r.taken /\ c.left = T
    BY <2>1, <2>2
  <2> QED
    BY <2>3 DEF r, T, B, Stack
<1> HIDE DEF c
<1>5. /\ Len(Waiting) = n
      /\ \A k \in 1 .. n : Waiting[k] = IF k = n THEN c ELSE calls[k]
  BY <1>1, <1>3, ReplacedCalls
<1> QED
  BY <1>2, <1>4, <1>5

\* The innermost call drops the first of its successors, which is finished or
\* entered now.
LEMMA WaitingLevel ==
  ASSUME IInv, Running, NEW E, Flow(blocks, E), Level(E), Frame.at > Len(Body) + 1, Frame.left # <<>>
  PROVE  /\ \A k \in 1 .. Len(calls) :
              /\ Walks(Waiting[k], blocks, E, aligned.inputs, aligned.outputs)
              /\ Once(blocks, E, Waiting[k].block) => OnLevel(Waiting[k], blocks, E, params, pushes)
              /\ Waiting[k].block = calls[k].block /\ Waiting[k].at = calls[k].at
              /\ k # Len(calls) => Waiting[k].left = calls[k].left
         /\ \A b : IsLeft(b) <=> \/ b = Head(Frame.left)
                                 \/ \E k \in 1 .. Len(calls) : b \in Range(Waiting[k].left)
<1> DEFINE n == Len(calls)
           c == Waiting[n]
<1>1. /\ \A k \in 1 .. n : k # n => Waiting[k] = calls[k]
      /\ c.block = B /\ c.at = Frame.at /\ c.stack = Stack
      /\ c.taken = Frame.taken /\ c.left = Tail(Frame.left)
  BY WaitingCalls
<1>2. /\ n \in Nat /\ 1 <= n /\ Frame = calls[n]
      /\ Walks(Frame, blocks, E, aligned.inputs, aligned.outputs)
      /\ Once(blocks, E, B) => OnLevel(Frame, blocks, E, params, pushes)
  BY TopLevel
<1>3. /\ Len(Tail(Frame.left)) = Len(Frame.left) - 1
      /\ Len(Frame.left) \in Nat /\ 1 <= Len(Frame.left)
      /\ \A i \in 1 .. Len(Frame.left) - 1 : Tail(Frame.left)[i] = Frame.left[i + 1]
      /\ Range(Frame.left) = {Head(Frame.left)} \cup Range(Tail(Frame.left))
  BY NextLevel
<1> HIDE DEF c
<1>4. LeftOf(c, blocks)
  <2> DEFINE to == To(blocks, B)
             l  == Frame.left
             m  == Len(Frame.left)
             h  == Len(to)
             d  == c.left
  <2>1. m <= h /\ \A i \in 1 .. m : l[i] = to[(h - m) + i]
    BY <1>2 DEF Walks, LeftOf, B
  <2>2. h \in Nat
    <3>1. blocks \in Graphs /\ B \in DOMAIN E
      BY TopLevel DEF IInv, Types
    <3> QED
      BY <3>1, FlowProperties, LenProperties
  <2>3. Len(d) = m - 1 /\ m \in Nat /\ 1 <= m /\ \A i \in 1 .. m - 1 : d[i] = l[i + 1]
    BY <1>1, <1>3
  <2>4. To(blocks, c.block) = to
    BY <1>1
  <2> HIDE DEF to, l, m, h, d
  <2>5. Len(d) <= h
    BY <2>1, <2>2, <2>3
  <2>6. \A i \in 1 .. Len(d) : d[i] = to[(h - Len(d)) + i]
    <3> SUFFICES ASSUME NEW i \in 1 .. m - 1 PROVE d[i] = to[(h - (m - 1)) + i]
      BY <2>3
    <3>1. i + 1 \in 1 .. m /\ (h - m) + (i + 1) = (h - (m - 1)) + i
      BY <2>2, <2>3
    <3> QED
      BY <2>1, <2>3, <3>1
  <2> QED
    BY <2>4, <2>5, <2>6 DEF LeftOf, d, h
<1>5. ASSUME NEW k \in 1 .. n
      PROVE  /\ Walks(Waiting[k], blocks, E, aligned.inputs, aligned.outputs)
             /\ Once(blocks, E, Waiting[k].block) => OnLevel(Waiting[k], blocks, E, params, pushes)
             /\ Waiting[k].block = calls[k].block /\ Waiting[k].at = calls[k].at
             /\ k # n => Waiting[k].left = calls[k].left
  <2>1. CASE k # n
    BY <1>1, <2>1 DEF Level, CallsLevel
  <2>2. CASE k = n
    <3>1. Frame.block = B /\ Frame.stack = Stack
      BY DEF B, Stack
    <3>2. ~(c.at <= Len(blocks[c.block]) + 1)
      <4>1. Frame.at \in Nat /\ Len(Body) \in Nat
        <5>1. blocks \in Graphs /\ B \in DOMAIN E
          BY TopLevel DEF IInv, Types
        <5>2. Len(Body) \in Nat
          BY <5>1, FlowProperties DEF Body
        <5> QED
          BY <5>2, FrameProperties
      <4> QED
        BY <1>1, <4>1 DEF Body
    <3>3. Walks(c, blocks, E, aligned.inputs, aligned.outputs)
      BY <1>1, <1>2, <1>4, <3>1, <3>2 DEF Walks
    <3>4. Once(blocks, E, B) => OnLevel(c, blocks, E, params, pushes)
      BY <1>1, <1>2, <3>1 DEF OnLevel, Through
    <3> QED
      BY <1>1, <1>2, <2>2, <3>1, <3>3, <3>4 DEF c
  <2> QED
    BY <2>1, <2>2
<1>6. ASSUME NEW b
      PROVE  IsLeft(b) <=> \/ b = Head(Frame.left)
                           \/ \E k \in 1 .. n : b \in Range(Waiting[k].left)
  <2>1. n \in 1 .. n
    BY <1>2
  <2>2. \A k \in 1 .. n : k # n => Waiting[k].left = calls[k].left
    BY <1>1
  <2>3. Range(calls[n].left) = {Head(Frame.left)} \cup Range(Waiting[n].left)
    BY <1>1, <1>2, <1>3 DEF c
  <2> QED
    BY <2>1, <2>2, <2>3 DEF IsLeft
<1> QED
  BY <1>5, <1>6

LEMMA DescendLevel ==
  ASSUME IInv, Descend, NEW E, Flow(blocks, E), Level(E)
  PROVE  Level(E)'
<1> DEFINE t == Head(Frame.left)
           n == Len(calls)
           e == Enter(t, Stack, Frame.taken)
<1>1. Running /\ Frame.at > Len(Body) + 1 /\ Frame.left # <<>>
  BY DEF Descend
<1>2. /\ Types /\ B \in Blocks /\ Frame.at \in Nat /\ Len(Body) \in Nat /\ Frame.taken \in Nat
      /\ calls # <<>> /\ ActiveCalls(calls, blocks, nodes, aligned.outputs)
      /\ IsStack(Stack, nodes) /\ Stack \in NodeList(nodes)
  <2>1. /\ Types /\ B \in Blocks /\ Frame.at \in 1 .. Len(Body) + 2 /\ Frame.taken \in Nat
        /\ calls # <<>> /\ ActiveCalls(calls, blocks, nodes, aligned.outputs)
        /\ IsStack(Stack, nodes) /\ Stack \in NodeList(nodes)
    BY <1>1, FrameProperties DEF IInv, Types, IsStack
  <2>2. Len(Body) \in Nat
    BY <2>1, BlockProperties, LenProperties DEF Types, Body, Blocks
  <2> QED
    BY <2>1, <2>2
<1>3. /\ n \in Nat /\ 1 <= n /\ Frame = calls[n] /\ B \in DOMAIN E
      /\ Walks(Frame, blocks, E, aligned.inputs, aligned.outputs)
  BY <1>1, TopLevel
<1>4. /\ t \in Range(NextBBs(B)) /\ t \in aligned.inputs
      /\ Range(Frame.left) = {t} \cup Range(Tail(Frame.left))
  BY <1>1, NextLevel
<1>5. /\ \A k \in 1 .. n :
           /\ Walks(Waiting[k], blocks, E, aligned.inputs, aligned.outputs)
           /\ Once(blocks, E, Waiting[k].block) => OnLevel(Waiting[k], blocks, E, params, pushes)
           /\ Waiting[k].block = calls[k].block /\ Waiting[k].at = calls[k].at
           /\ k # n => Waiting[k].left = calls[k].left
      /\ \A b : IsLeft(b) <=> \/ b = t
                              \/ \E k \in 1 .. n : b \in Range(Waiting[k].left)
  BY <1>1, WaitingLevel
<1>6. Len(Waiting) = n
  BY <1>1, WaitingCalls
<1>7. /\ t \in DOMAIN E /\ E[t] \in State /\ Frame.taken = E[t].params /\ Len(Stack) = E[t].size
      /\ B \in aligned.outputs /\ To(blocks, B) = NextBBs(B)
  <2>1. Frame.at > Len(Body)
    BY <1>1, <1>2
  <2>2. To(blocks, B) = NextBBs(B)
    BY DEF To, NextBBs
  <2>3. To(blocks, B) # <<>>
    BY <1>4, <2>2 DEF Range
  <2>4. ~(Frame.at <= Len(Body) + 1)
    BY <1>1, <1>2
  <2>5. B \in aligned.outputs
    BY <1>3, <2>3, <2>4 DEF Walks, B, Body
  <2> QED
    BY <1>1, <1>4, <2>1, <2>2, <2>5, LeavingLevel
<1>8. \A b : Closed(b)
  <2> SUFFICES ASSUME NEW b, NEW k \in 1 .. n, calls[k].block = b
               PROVE  ~(calls[k].at <= Len(blocks[b]) + 1)
    BY DEF Closed
  <2>1. CASE k = n
    BY <1>1, <1>2, <1>3, <2>1 DEF B, Body
  <2>2. CASE k # n
    BY <1>2, <2>2 DEF ActiveCalls
  <2> QED
    BY <2>1, <2>2
<1> HIDE DEF t, e
<1>9. CASE t \in aligned.outputs
  <2>1. /\ calls' = Waiting
        /\ UNCHANGED <<blocks, nodes, pops, pushes, params, outputs, initial, aligned,
                       accumulated, reported, effects, outcome>>
    BY <1>9 DEF Descend, t, perBlock, links
  <2>2. CallsLevel(E)'
    BY <1>5, <1>6, <2>1 DEF Level, CallsLevel
  <2>3. InputsLevel(E)' /\ OutputsLevel(E)'
    BY <2>1 DEF Level, InputsLevel, OutputsLevel
  <2>4. /\ \A b : Active(b)' <=> Active(b)
        /\ \A b : IsLeft(b)' <=> \E k \in 1 .. n : b \in Range(Waiting[k].left)
        /\ \A b : IsEnd(E, b)' <=> IsEnd(E, b)
        /\ \A b : Fresh(b)' <=> Fresh(b)
        /\ \A b : Closed(b)' <=> Closed(b)
        /\ \A b : Left(E, b)' <=> Left(E, b)
    BY <1>5, <1>6, <2>1 DEF Active, IsLeft, IsEnd, Fresh, Closed, Left
  <2>5. \A b : b # t => (IsLeft(b)' <=> IsLeft(b))
    BY <1>5, <2>4
  <2>6. ~IsEnd(E, t)
    BY <1>9 DEF Level, OutputsLevel, IsEnd
  <2>7. \A b : IsEnd(E, b) => (Awaited(b)' <=> Awaited(b))
    BY <2>1, <2>5, <2>6 DEF Awaited
  <2>8. FreshLevel(E)'
    BY <2>1, <2>4, <2>7 DEF Level, FreshLevel
  <2>9. EndsLevel(E)'
    BY <2>1, <2>4, <2>7 DEF Level, EndsLevel
  <2>10. SeenLevel'
    BY <1>9, <2>1, <2>4, <2>5 DEF Level, SeenLevel
  <2>11. OutcomeLevel'
    BY <1>1, <2>1 DEF Level, OutcomeLevel, Running
  <2> QED
    BY <2>2, <2>3, <2>8, <2>9, <2>10, <2>11 DEF Level
<1>10. CASE t \notin aligned.outputs
  <2>1. ~(Len(Stack) > Len(initial[t]))
    <3>1. Len(initial[t]) = E[t].size /\ E[t].size \in Nat
      BY <1>4, <1>7 DEF Level, InputsLevel, State
    <3> QED
      BY <1>7, <3>1
  <2>2. /\ calls' = Append(Waiting, e)
        /\ accumulated' = [accumulated EXCEPT ![t].size = Len(Stack)]
        /\ UNCHANGED <<blocks, pushes, params, outputs, initial, aligned,
                       reported, effects, outcome>>
    BY <1>10, <2>1 DEF Descend, t, e, links
  <2>3. accumulated' = accumulated
    <3>1. accumulated \in [Blocks -> [params : Nat, size : Nat]] /\ t \in Blocks
      BY <1>2, <1>7, FlowProperties DEF Types
    <3>2. accumulated[t] = E[t]
      BY <1>4 DEF Level, InputsLevel
    <3> DEFINE r == accumulated[t]
               m == Len(Stack)
    <3>3. r \in [params : Nat, size : Nat] /\ r.size = m
      BY <1>7, <3>1, <3>2
    <3>4. accumulated' = [accumulated EXCEPT ![t] = [r EXCEPT !.size = m]]
      BY <2>2
    <3> HIDE DEF r, m
    <3>5. [r EXCEPT !.size = m] = r
      BY <3>3
    <3>6. accumulated' = [accumulated EXCEPT ![t] = r]
      BY <3>4, <3>5
    <3> QED
      BY <3>1, <3>6 DEF r
  <2>4. /\ Len(calls') = n + 1 /\ calls'[n + 1] = e
        /\ \A k \in 1 .. n : calls'[k] = Waiting[k]
    <3> DEFINE S == Call(blocks, nodes) \cup {e}
    <3>1. Waiting \in Seq(S) /\ e \in S
      <4>1. ActiveCalls(Waiting, blocks, nodes, aligned.outputs)
        <5>1. ~(Frame.at <= Len(Body) + 1)
          BY <1>1, <1>2
        <5> QED
          BY <1>1, <5>1, WaitingProperties
      <4>2. Waiting \in Seq(Call(blocks, nodes))
        BY <4>1 DEF ActiveCalls
      <4> DEFINE U == Call(blocks, nodes)
      <4> HIDE DEF U
      <4>3. U \subseteq U \cup {e} /\ Waiting \in Seq(U)
        BY <4>2 DEF U
      <4>4. Waiting \in Seq(U \cup {e})
        BY <4>3, SeqMonotonic
      <4> QED
        BY <4>4 DEF U
    <3> HIDE DEF S
    <3> QED
      BY <1>6, <2>2, <3>1, AppendProperties
  <2>5. \A k \in 1 .. n + 1 : k \in 1 .. n \/ k = n + 1
    BY <1>3
  <2>6. /\ e.block = t /\ e.at = 1 /\ e.stack = Stack /\ e.taken = Frame.taken /\ e.left = <<>>
    BY DEF e, Enter
  <2>7. Once(blocks, E, t) => Fresh(t) /\ ~Active(t)
    <3>1. CASE To(blocks, t) # <<>>
      <4>1. ~Active(t)
        <5> SUFFICES ASSUME NEW k \in 1 .. n, calls[k].block = t PROVE FALSE
          BY DEF Active
        <5>1. Walks(calls[k], blocks, E, aligned.inputs, aligned.outputs)
          BY DEF Level, CallsLevel
        <5>2. ~(calls[k].at <= Len(blocks[t]) + 1)
          BY <1>8 DEF Closed
        <5> QED
          BY <1>10, <3>1, <5>1, <5>2 DEF Walks
      <4> QED
        BY <1>7, <1>10, <3>1, <4>1 DEF Level, FreshLevel
    <3>2. CASE To(blocks, t) = <<>> /\ EnteredOnce(blocks, E, t)
      <4>1. IsEnd(E, t) /\ Awaited(t)
        BY <1>5, <1>7, <3>2 DEF IsEnd, Awaited
      <4> QED
        BY <4>1 DEF Level, FreshLevel, IsEnd
    <3> QED
      BY <3>1, <3>2 DEF Once
  <2>8. IsEnd(E, t) => \A k \in 1 .. n : t \notin Range(Waiting[k].left)
    <3> SUFFICES ASSUME IsEnd(E, t), NEW k \in 1 .. n, t \in Range(Waiting[k].left) PROVE FALSE
      OBVIOUS
    <3>1. Walks(Waiting[k], blocks, E, aligned.inputs, aligned.outputs)
          /\ Waiting[k].block = calls[k].block
      BY <1>5
    <3> DEFINE c  == Waiting[k]
               bb == c.block
               to == To(blocks, bb)
               l  == c.left
               h  == Len(to)
               m  == Len(l)
    <3>2. bb \in DOMAIN E /\ m <= h /\ \A i \in 1 .. m : l[i] = to[(h - m) + i]
      BY <3>1 DEF Walks, LeftOf
    <3>3. to \in Seq(Blocks) /\ h \in Nat /\ DOMAIN to = 1 .. h
      <4>1. to \in Seq(Blocks)
        BY <1>2, <3>2, FlowProperties DEF Types
      <4> QED
        BY <4>1, LenProperties
    <3>4. /\ l \in Seq(Blocks) /\ m \in Nat /\ DOMAIN l = 1 .. m
      <4>1. ActiveCalls(Waiting, blocks, nodes, aligned.outputs)
        <5>1. ~(Frame.at <= Len(Body) + 1)
          BY <1>1, <1>2
        <5> QED
          BY <1>1, <5>1, WaitingProperties
      <4>2. l \in Seq(Blocks)
        BY <1>6, <4>1 DEF ActiveCalls, IsCall, Call, Blocks
      <4> QED
        BY <4>2, LenProperties
    <3>5. PICK i \in 1 .. m : l[i] = t
      BY <3>4 DEF Range
    <3> HIDE DEF c, to, l, h, m
    <3>6. (h - m) + i \in DOMAIN to /\ to[(h - m) + i] = t
      BY <3>2, <3>3, <3>4, <3>5
    <3>7. PICK j \in DOMAIN To(blocks, B) : To(blocks, B)[j] = t
      BY <1>4, <1>7 DEF Range
    <3>8. bb = B
      BY <1>3, <3>2, <3>6, <3>7 DEF IsEnd, EnteredOnce, to
    <3>9. k = n
      <4>1. Once(blocks, E, B)
        BY <3>7 DEF Once
      <4>2. calls[k].block = B /\ calls[n].block = B /\ n \in 1 .. n
        BY <1>3, <3>1, <3>8 DEF B, c
      <4> QED
        BY <4>1, <4>2 DEF Level, CallsLevel
    <3>10. l = Tail(Frame.left)
      BY <1>1, <3>9, WaitingCalls DEF l, c
    <3> DEFINE fl == Frame.left
               f  == Len(fl)
    <3>11. f \in Nat /\ m = f - 1 /\ 1 <= f
           /\ (\A x \in 1 .. f - 1 : Tail(fl)[x] = fl[x + 1]) /\ Head(fl) = fl[1]
      <4>1. Head(fl) = fl[1]
        <5>1. fl \in Seq(Blocks) /\ fl # <<>>
          BY <1>1, FrameProperties
        <5> QED
          BY <5>1, HeadTailProperties
      <4> QED
        BY <1>1, <3>10, <4>1, NextLevel DEF m
    <3>12. f <= h /\ \A x \in 1 .. f : fl[x] = to[(h - f) + x]
      BY <1>3, <3>8 DEF Walks, LeftOf, B, to, h
    <3> HIDE DEF fl, f
    <3>13. fl[1] = t
      BY <3>11 DEF t, fl
    <3>14. (h - f) + 1 \in DOMAIN to /\ to[(h - f) + 1] = t
      BY <3>3, <3>11, <3>12, <3>13
    <3>15. (h - f) + 1 = (h - m) + i
      BY <3>2, <3>6, <3>8, <3>14, <1>3 DEF IsEnd, EnteredOnce, to
    <3> QED
      BY <3>3, <3>4, <3>5, <3>11, <3>15
  <2>9. CallsLevel(E)'
    <3>1. Walks(e, blocks, E, aligned.inputs, aligned.outputs)
      <4>1. e.at <= Len(blocks[t]) + 1
        BY <1>2, <1>7, <2>6, FlowProperties DEF Types
      <4>2. LeftOf(e, blocks)
        <5>1. Len(To(blocks, t)) \in Nat
          BY <1>2, <1>7, FlowProperties, LenProperties DEF Types
        <5>2. Len(e.left) = 0
          BY <2>6
        <5> QED
          BY <2>6, <5>1, <5>2 DEF LeftOf
      <4> QED
        BY <1>4, <1>7, <2>6, <4>1, <4>2 DEF Walks
    <3>2. Once(blocks, E, t) => OnLevel(e, blocks, E, params, pushes)
      <4> SUFFICES ASSUME Once(blocks, E, t) PROVE OnLevel(e, blocks, E, params, pushes)
        OBVIOUS
      <4>1. Fresh(t)
        BY <2>7
      <4>2. 1 <= Len(blocks[t]) /\ Along(blocks[t], E[t])[0] = E[t]
        BY <1>2, <1>7, FlowProperties DEF Types
      <4>3. Through(e, blocks) = 0
        BY <2>6, <4>2 DEF Through
      <4>4. E[t].params = E[t].params + Len(params[t])
        <5>1. Len(params[t]) = 0
          BY <4>1 DEF Fresh
        <5> QED
          BY <1>7, <5>1 DEF State
      <4> QED
        BY <1>7, <2>6, <4>1, <4>2, <4>3, <4>4 DEF OnLevel, Fresh
    <3>3. ASSUME NEW k \in 1 .. n + 1
          PROVE  /\ Walks(calls'[k], blocks, E, aligned.inputs, aligned.outputs)
                 /\ Once(blocks, E, calls'[k].block) => OnLevel(calls'[k], blocks, E, params, pushes)
      BY <1>5, <2>4, <2>5, <2>6, <3>1, <3>2
    <3>4. ASSUME NEW k \in 1 .. n + 1, NEW l \in 1 .. n + 1,
                 Once(blocks, E, calls'[k].block), calls'[k].block = calls'[l].block
          PROVE  k = l
      <4>1. CASE k \in 1 .. n /\ l \in 1 .. n
        BY <1>5, <2>4, <3>4, <4>1 DEF Level, CallsLevel
      <4>2. CASE k = n + 1 /\ l \in 1 .. n
        BY <1>5, <2>4, <2>6, <2>7, <3>4, <4>2 DEF Active
      <4>3. CASE k \in 1 .. n /\ l = n + 1
        BY <1>5, <2>4, <2>6, <2>7, <3>4, <4>3 DEF Active
      <4> QED
        BY <2>5, <4>1, <4>2, <4>3
    <3> QED
      BY <2>2, <2>4, <3>3, <3>4 DEF CallsLevel
  <2>10. InputsLevel(E)' /\ OutputsLevel(E)'
    BY <2>2, <2>3 DEF Level, InputsLevel, OutputsLevel
  <2>11. \A b : Active(b)' <=> Active(b) \/ b = t
    <3>1. n + 1 \in 1 .. n + 1 /\ \A k \in 1 .. n : k \in 1 .. n + 1
      BY <1>3
    <3> QED
      BY <1>5, <2>4, <2>5, <2>6, <3>1 DEF Active
  <2>12. \A b : IsLeft(b)' <=> \E k \in 1 .. n : b \in Range(Waiting[k].left)
    <3>1. n + 1 \in 1 .. n + 1 /\ \A k \in 1 .. n : k \in 1 .. n + 1
      BY <1>3
    <3>2. \A b : b \notin Range(e.left)
      BY <2>6 DEF Range
    <3> QED
      BY <2>4, <2>5, <3>1, <3>2 DEF IsLeft
  <2>13. /\ \A b : b # t => (IsLeft(b)' <=> IsLeft(b))
         /\ \A b : b # t => (Awaited(b)' <=> Awaited(b))
         /\ \A b : b = t /\ IsEnd(E, b) => ~Awaited(b)'
    <3>1. \A b : b # t => (IsLeft(b)' <=> IsLeft(b))
      BY <1>5, <2>12
    <3>2. \A b : b # t => (Awaited(b)' <=> Awaited(b))
      BY <2>2, <3>1 DEF Awaited
    <3>3. ASSUME NEW b, b = t, IsEnd(E, b) PROVE ~Awaited(b)'
      <4>1. ~IsLeft(b)'
        BY <2>8, <2>12, <3>3
      <4> QED
        BY <1>4, <2>2, <3>3, <4>1 DEF Awaited
    <3> QED
      BY <3>1, <3>2, <3>3
  <2>14. /\ \A b : IsEnd(E, b)' <=> IsEnd(E, b)
         /\ \A b : Fresh(b)' <=> Fresh(b)
         /\ \A b : Left(E, b)' <=> Left(E, b)
    BY <2>2 DEF IsEnd, Fresh, Left
  <2>15. FreshLevel(E)'
    <3>1. \A b \in DOMAIN E :
            To(blocks, b) # <<>> /\ b \notin aligned.outputs /\ ~Active(b)' => Fresh(b)'
      BY <2>11, <2>14 DEF Level, FreshLevel
    <3>2. \A b \in DOMAIN E : IsEnd(E, b)' /\ Awaited(b)' => Fresh(b)' /\ ~Active(b)'
      <4> SUFFICES ASSUME NEW b \in DOMAIN E, IsEnd(E, b)', Awaited(b)'
                   PROVE  Fresh(b)' /\ ~Active(b)'
        OBVIOUS
      <4>1. b # t
        BY <2>13, <2>14
      <4>2. Awaited(b)
        BY <2>13, <4>1
      <4>3. Fresh(b) /\ ~Active(b)
        BY <2>14, <4>2 DEF Level, FreshLevel
      <4> QED
        BY <2>11, <2>14, <4>1, <4>3
    <3> QED
      BY <2>2, <3>1, <3>2 DEF FreshLevel
  <2>16. EndsLevel(E)'
    <3> SUFFICES ASSUME NEW b \in DOMAIN E, IsEnd(E, b), ~Awaited(b)', Closed(b)'
                 PROVE  Left(E, b)
      BY <2>14 DEF EndsLevel
    <3>1. b # t
      <4>1. Len(blocks[t]) \in Nat
        BY <1>2, <1>7, FlowProperties DEF Types
      <4>2. 1 <= Len(blocks[t]) + 1
        BY <4>1
      <4>3. n + 1 \in 1 .. n + 1
        BY <1>3
      <4> QED
        BY <2>2, <2>4, <2>6, <4>2, <4>3 DEF Closed
    <3>2. ~Awaited(b) /\ Closed(b)
      BY <1>8, <2>13, <3>1
    <3> QED
      BY <3>2 DEF Level, EndsLevel
  <2>17. SeenLevel'
    BY <2>2, <2>11, <2>13 DEF Level, SeenLevel
  <2>18. OutcomeLevel'
    BY <1>1, <2>2 DEF Level, OutcomeLevel, Running
  <2> QED
    BY <2>9, <2>10, <2>15, <2>16, <2>17, <2>18 DEF Level
<1> QED
  BY <1>9, <1>10

LEMMA ReturnLevel ==
  ASSUME IInv, Return, NEW E, Flow(blocks, E), Level(E)
  PROVE  Level(E)'
<1> DEFINE n == Len(calls)
<1>1. /\ Running /\ Frame.at > Len(Body) + 1 /\ Frame.left = <<>> /\ calls' = Front(calls)
      /\ UNCHANGED <<blocks, pushes, params, outputs, initial, aligned, accumulated,
                     reported, effects, outcome>>
  BY DEF Return, perBlock, links
<1>2. /\ Types /\ Frame.at \in Nat /\ Len(Body) \in Nat
      /\ calls # <<>> /\ ActiveCalls(calls, blocks, nodes, aligned.outputs)
  <2>1. /\ Types /\ B \in Blocks /\ Frame.at \in 1 .. Len(Body) + 2
        /\ calls # <<>> /\ ActiveCalls(calls, blocks, nodes, aligned.outputs)
    BY <1>1, FrameProperties DEF IInv, Types
  <2>2. Len(Body) \in Nat
    BY <2>1, BlockProperties, LenProperties DEF Types, Body, Blocks
  <2> QED
    BY <2>1, <2>2
<1>3. /\ n \in Nat /\ 1 <= n /\ Frame = calls[n] /\ B \in DOMAIN E
      /\ Walks(Frame, blocks, E, aligned.inputs, aligned.outputs)
  BY <1>1, TopLevel
<1>4. Len(calls') = n - 1 /\ \A k \in 1 .. n - 1 : calls'[k] = calls[k] /\ k \in 1 .. n
  <2> DEFINE S == Call(blocks, nodes)
  <2>1. calls \in Seq(S)
    BY <1>2 DEF ActiveCalls
  <2> HIDE DEF S
  <2>2. Len(calls') = n - 1 /\ \A k \in 1 .. n - 1 : calls'[k] = calls[k]
    BY <1>1, <1>2, <2>1, FrontProperties
  <2> QED
    BY <1>3, <2>2
<1>5. \A k \in 1 .. n : k \in 1 .. n - 1 \/ k = n
  BY <1>3
<1>6. ~(calls[n].at <= Len(blocks[B]) + 1) /\ calls[n].block = B /\ calls[n].left = <<>>
  BY <1>1, <1>2, <1>3 DEF B, Body
<1>7. B \in aligned.outputs \/ To(blocks, B) = <<>>
  BY <1>3, <1>6 DEF Walks
<1>8. CallsLevel(E)'
  BY <1>1, <1>4 DEF Level, CallsLevel
<1>9. InputsLevel(E)' /\ OutputsLevel(E)'
  BY <1>1 DEF Level, InputsLevel, OutputsLevel
<1>10. /\ \A b : Active(b) <=> Active(b)' \/ b = B
       /\ \A b : IsLeft(b)' <=> IsLeft(b)
       /\ \A b : Closed(b)' <=> Closed(b)
  <2>1. n \in 1 .. n
    BY <1>3
  <2>2. \A b : b \notin Range(calls[n].left)
    BY <1>6 DEF Range
  <2>3. \A b : Active(b) <=> Active(b)' \/ b = B
    BY <1>4, <1>5, <1>6, <2>1 DEF Active
  <2>4. \A b : IsLeft(b)' <=> IsLeft(b)
    BY <1>4, <1>5, <2>2 DEF IsLeft
  <2>5. \A b : Closed(b)' <=> Closed(b)
    <3> SUFFICES ASSUME NEW b PROVE Closed(b)' <=> Closed(b)
      OBVIOUS
    <3>1. Closed(b)' <=> \A k \in 1 .. n - 1 : calls[k].block = b => ~(calls[k].at <= Len(blocks[b]) + 1)
      BY <1>1, <1>4 DEF Closed
    <3>2. calls[n].block = b => ~(calls[n].at <= Len(blocks[b]) + 1)
      BY <1>6
    <3>3. Closed(b) <=> \A k \in 1 .. n : calls[k].block = b => ~(calls[k].at <= Len(blocks[b]) + 1)
      BY DEF Closed
    <3> QED
      BY <1>4, <1>5, <3>1, <3>2, <3>3
  <2> QED
    BY <2>3, <2>4, <2>5
<1>11. /\ \A b : Awaited(b)' <=> Awaited(b)
       /\ \A b : IsEnd(E, b)' <=> IsEnd(E, b)
       /\ \A b : Fresh(b)' <=> Fresh(b)
       /\ \A b : Left(E, b)' <=> Left(E, b)
  BY <1>1, <1>10 DEF Awaited, IsEnd, Fresh, Left
<1>12. FreshLevel(E)'
  BY <1>1, <1>7, <1>10, <1>11 DEF Level, FreshLevel
<1>13. EndsLevel(E)'
  BY <1>10, <1>11 DEF Level, EndsLevel
<1>14. SeenLevel'
  BY <1>1, <1>7, <1>10 DEF Level, SeenLevel
<1>15. OutcomeLevel'
  BY <1>1 DEF Level, OutcomeLevel, Running
<1> QED
  BY <1>8, <1>9, <1>12, <1>13, <1>14, <1>15 DEF Level

LEMMA FinishLevel ==
  ASSUME Finish, NEW E, Level(E)
  PROVE  Level(E)'
<1>1. /\ calls = <<>>
      /\ effects' = [pops |-> TotalParams, pushes |-> Len(outputs[ExitBlock])]
      /\ outcome' = "done"
      /\ UNCHANGED <<blocks, pushes, params, outputs, initial, aligned, accumulated,
                     calls, reported>>
  BY DEF Finish, perBlock, links
<1>2. CallsLevel(E)' /\ InputsLevel(E)' /\ OutputsLevel(E)'
  BY <1>1 DEF Level, CallsLevel, InputsLevel, OutputsLevel
<1>3. /\ \A b : Active(b)' <=> Active(b)
      /\ \A b : IsLeft(b)' <=> IsLeft(b)
      /\ \A b : Awaited(b)' <=> Awaited(b)
      /\ \A b : IsEnd(E, b)' <=> IsEnd(E, b)
      /\ \A b : Fresh(b)' <=> Fresh(b)
      /\ \A b : Closed(b)' <=> Closed(b)
      /\ \A b : Left(E, b)' <=> Left(E, b)
  BY <1>1 DEF Active, IsLeft, Awaited, IsEnd, Fresh, Closed, Left
<1>4. FreshLevel(E)' /\ EndsLevel(E)' /\ SeenLevel'
  BY <1>1, <1>3 DEF Level, FreshLevel, EndsLevel, SeenLevel
<1>5. OutcomeLevel'
  BY <1>1 DEF Level, OutcomeLevel, TotalParams, ExitBlock
<1> QED
  BY <1>2, <1>4, <1>5 DEF Level

LEMMA InitialLevel ==
  ASSUME Init, NEW E, Flow(blocks, E)
  PROVE  Level(E)
<1> DEFINE c == Enter(1, <<>>, 0)
<1>1. /\ blocks \in Graphs /\ pushes = PerInstruction
      /\ params = [b \in Blocks |-> <<>>] /\ outputs = [b \in Blocks |-> <<>>]
      /\ initial = [b \in Blocks |-> <<>>]
      /\ aligned = [inputs |-> {}, outputs |-> {}]
      /\ accumulated = [b \in Blocks |-> [params |-> 0, size |-> 0]]
      /\ calls = <<c>> /\ reported = {} /\ outcome = "running"
  BY DEF Init, PerBlock
<1>2. 1 \in DOMAIN E /\ 1 \in Blocks /\ E[1] = [params |-> 0, size |-> 0] /\ E[1] \in State
  BY DEF Flow, Blocks
<1>3. /\ c.block = 1 /\ c.at = 1 /\ c.stack = <<>> /\ c.taken = 0 /\ c.left = <<>>
  BY DEF Enter
<1> HIDE DEF c
<1>4. Len(calls) = 1 /\ calls[1] = c /\ \A k \in 1 .. Len(calls) : k = 1
  BY <1>1
<1>5. /\ Len(blocks[1]) \in Nat /\ 1 <= Len(blocks[1])
      /\ Along(blocks[1], E[1])[0] = E[1] /\ To(blocks, 1) \in Seq(Blocks)
  BY <1>1, <1>2, FlowProperties
<1>6. \A b \in Blocks : Fresh(b)
  BY <1>1 DEF Fresh, PerInstruction, Blocks
<1>7. Walks(c, blocks, E, aligned.inputs, aligned.outputs)
  <2>1. Len(To(blocks, 1)) \in Nat /\ Len(c.left) = 0 /\ 1 .. 0 = {}
    BY <1>3, <1>5, LenProperties
  <2>2. LeftOf(c, blocks)
    BY <1>3, <2>1 DEF LeftOf
  <2> QED
    BY <1>2, <1>3, <1>5, <2>2 DEF Walks
<1>8. OnLevel(c, blocks, E, params, pushes)
  <2>1. Through(c, blocks) = 0
    BY <1>3, <1>5 DEF Through
  <2>2. Len(c.stack) = 0 /\ params[1] = <<>> /\ Len(params[1]) = 0
    BY <1>2, <1>3, <1>6 DEF Fresh
  <2>3. \A i \in DOMAIN blocks[1] : pushes[1][i] = <<>>
    BY <1>2, <1>6 DEF Fresh
  <2>4. E[1].params = 0 /\ E[1].size = 0
    BY <1>2
  <2> QED
    BY <1>3, <1>5, <2>1, <2>2, <2>3, <2>4 DEF OnLevel
<1>9. CallsLevel(E)
  BY <1>4, <1>7, <1>8 DEF CallsLevel
<1>10. InputsLevel(E) /\ OutputsLevel(E)
  BY <1>1, <1>2 DEF InputsLevel, OutputsLevel
<1>11. Active(1)
  BY <1>3, <1>4 DEF Active
<1>12. \A b : Active(b) => b = 1
  BY <1>3, <1>4 DEF Active
<1>13. \A b : ~IsLeft(b)
  BY <1>3, <1>4 DEF IsLeft, Range
<1>14. FreshLevel(E)
  <2>1. \A b \in DOMAIN E : b \in Blocks
    BY DEF Flow, Blocks
  <2>2. \A b \in DOMAIN E : IsEnd(E, b) /\ Awaited(b) => ~Active(b)
    BY <1>12, <1>13 DEF Awaited
  <2> QED
    BY <1>6, <2>1, <2>2 DEF FreshLevel
<1>15. EndsLevel(E)
  <2> SUFFICES ASSUME NEW b \in DOMAIN E, ~Awaited(b), Closed(b) PROVE FALSE
    BY DEF EndsLevel
  <2>1. b = 1
    BY <1>1 DEF Awaited
  <2> QED
    BY <1>3, <1>4, <1>5, <2>1 DEF Closed
<1>16. SeenLevel /\ OutcomeLevel
  BY <1>1, <1>11 DEF SeenLevel, OutcomeLevel
<1> QED
  BY <1>9, <1>10, <1>14, <1>15, <1>16 DEF Level

\* In words all of whose paths agree the walk counts what the paths count.
AllLevel == \A E : Flow(blocks, E) => Level(E)

LEMMA LevelInvariant == Spec => []AllLevel
<1>1. Init => AllLevel
  BY InitialLevel DEF AllLevel
<1>2. IInv /\ AllLevel /\ [Next]_vars => AllLevel'
  <2> SUFFICES ASSUME IInv, AllLevel, [Next]_vars, NEW E, Flow(blocks', E) PROVE Level(E)'
    BY DEF AllLevel
  <2>1. blocks' = blocks
    BY DEF Next, vars, Propagate, StoreLocal, LoadLocal, CloseBlock, Descend, Return, Finish,
           Ended, Stop
  <2>2. Flow(blocks, E) /\ Level(E)
    BY <2>1 DEF AllLevel
  <2>3. CASE Propagate
    BY <2>2, <2>3, PropagateLevel
  <2>4. CASE StoreLocal
    BY <2>2, <2>4, StoreLocalLevel
  <2>5. CASE LoadLocal
    BY <2>2, <2>5, LoadLocalLevel
  <2>6. CASE CloseBlock
    BY <2>2, <2>6, CloseBlockLevel
  <2>7. CASE Descend
    BY <2>2, <2>7, DescendLevel
  <2>8. CASE Return
    BY <2>2, <2>8, ReturnLevel
  <2>9. CASE Finish
    BY <2>2, <2>9, FinishLevel
  <2>10. CASE UNCHANGED vars
    BY <2>2, <2>10, SameLevel DEF vars, perBlock, links
  <2> QED
    BY <2>3, <2>4, <2>5, <2>6, <2>7, <2>8, <2>9, <2>10 DEF Next, Ended
<1> QED
  BY <1>1, <1>2, Invariant, PTL DEF Spec

-----------------------------------------------------------------------------
(***************************************************************************)
(* The paths. Every round that finds a block no path of fewer edges enters *)
(* makes one block more of those reached, so that there is nothing to find *)
(* after as many rounds as there are blocks, if all paths agree.           *)
(***************************************************************************)
FirstOnly == [b \in Blocks |-> IF b = 1 THEN {[params |-> 0, size |-> 0]} ELSE {}]

\* Paths of up to k edges, for k from 0 to the number of blocks.
IsPaths(f) == f = [k \in 0 .. Len(blocks) |-> IF k = 0 THEN FirstOnly ELSE OneFurther(f[k - 1])]

LEMMA AfterType ==
  ASSUME blocks \in Graphs, NEW b \in Blocks, NEW s \in State
  PROVE  After(b, s) \in State
<1>1. /\ Len(blocks[b]) \in Nat /\ 1 <= Len(blocks[b])
      /\ \A i \in 1 .. Len(blocks[b]) : IsLinked(blocks[b][i].cell)
  BY BlockProperties
<1> DEFINE g == blocks[b]
           n == Len(g)
<1>2. n \in Nat /\ n = Len(g) /\ \A i \in 1 .. n : IsLinked(g[i].cell)
  BY <1>1
<1>3. 0 .. n # {} /\ n \in 0 .. n
  BY <1>2
<1> HIDE DEF g, n
<1>4. Along(g, s) \in [0 .. n -> State]
  BY <1>2, AlongProperties
<1>5. Along(g, s)[n] \in State
  BY <1>3, <1>4
<1> QED
  BY <1>5 DEF After, g, n

LEMMA FurtherProperties ==
  ASSUME blocks \in Graphs, NEW S \in [Blocks -> SUBSET State]
  PROVE  /\ OneFurther(S) \in [Blocks -> SUBSET State]
         /\ \A t \in Blocks : S[t] \subseteq OneFurther(S)[t]
         /\ \A b \in Blocks : \A t \in Range(NextBBs(b)) : \A s \in S[b] :
              t \in Blocks /\ After(b, s) \in OneFurther(S)[t]
         /\ \A t \in Blocks : \A x \in OneFurther(S)[t] :
              x \in S[t] \/ \E b \in Blocks : t \in Range(NextBBs(b)) /\ \E s \in S[b] : x = After(b, s)
<1>1. \A b \in Blocks : Range(NextBBs(b)) \subseteq Blocks
  <2> SUFFICES ASSUME NEW b \in Blocks PROVE Range(NextBBs(b)) \subseteq Blocks
    OBVIOUS
  <2>1. NextBBs(b) \in Seq(Blocks)
    BY BlockProperties
  <2> QED
    BY <2>1 DEF Range
<1>2. \A b \in Blocks : \A s \in S[b] : After(b, s) \in State
  BY AfterType
<1>3. \A t \in Blocks : OneFurther(S)[t] =
        S[t] \cup UNION {{After(b, s) : s \in S[b]} : b \in {b \in Blocks : t \in Range(NextBBs(b))}}
  BY DEF OneFurther
<1>4. \A t \in Blocks : \A x \in OneFurther(S)[t] :
        x \in S[t] \/ \E b \in Blocks : t \in Range(NextBBs(b)) /\ \E s \in S[b] : x = After(b, s)
  BY <1>3
<1>5. \A b \in Blocks : \A t \in Range(NextBBs(b)) : \A s \in S[b] :
        t \in Blocks /\ After(b, s) \in OneFurther(S)[t]
  BY <1>1, <1>3
<1>6. \A t \in Blocks : S[t] \subseteq OneFurther(S)[t]
  BY <1>3
<1>7. \A t \in Blocks : OneFurther(S)[t] \subseteq State
  BY <1>2, <1>4
<1>8. OneFurther(S) \in [Blocks -> SUBSET State]
  <2>1. OneFurther(S) = [t \in Blocks |-> OneFurther(S)[t]]
    BY DEF OneFurther
  <2> QED
    BY <1>7, <2>1
<1> QED
  BY <1>4, <1>5, <1>6, <1>8

\* The rounds are what their definition says, each finds what those before it do.
LEMMA Paths ==
  ASSUME blocks \in Graphs
  PROVE  \E f \in [0 .. Len(blocks) -> [Blocks -> SUBSET State]] :
           /\ OnEntry = f[Len(blocks)]
           /\ f[0] = FirstOnly
           /\ \A k \in 1 .. Len(blocks) : f[k] = OneFurther(f[k - 1])
<1> DEFINE S == [Blocks -> SUBSET State]
           n == Len(blocks)
           x == FirstOnly
           G == [p \in (0 .. n) \X S |-> OneFurther(p[2])]
<1>1. n \in Nat
  BY BlockProperties
<1>2. x \in S
  BY DEF FirstOnly, State
<1>3. \A s \in S : OneFurther(s) \in S
  BY FurtherProperties
<1> HIDE DEF S, n, x
<1>4. G \in [(0 .. n) \X S -> S]
  BY <1>3
<1>5. \A k \in 0 .. n, s \in S : G[<<k, s>>] = OneFurther(s)
  OBVIOUS
<1> HIDE DEF G
<1>6. PICK h \in [0 .. n -> S] : IsIteration(h, n, x, G)
  BY <1>1, <1>2, <1>4, Iterated
<1>7. h = [k \in 0 .. n |-> IF k = 0 THEN x ELSE G[<<k, h[k - 1]>>]]
  BY <1>6 DEF IsIteration
<1>8. \A k \in 0 .. n :
        (IF k = 0 THEN x ELSE G[<<k, h[k - 1]>>]) = (IF k = 0 THEN x ELSE OneFurther(h[k - 1]))
  <2> SUFFICES ASSUME NEW k \in 0 .. n, k # 0 PROVE G[<<k, h[k - 1]>>] = OneFurther(h[k - 1])
    OBVIOUS
  <2>1. k - 1 \in 0 .. n
    BY <1>1
  <2>2. h[k - 1] \in S
    BY <1>6, <2>1
  <2> QED
    BY <1>5, <2>2
<1>9. IsPaths(h)
  BY <1>7, <1>8 DEF IsPaths, n, x
<1> DEFINE f == CHOOSE g : IsPaths(g)
<1>10. IsPaths(f)
  BY <1>9
<1>11. OnEntry = f[n]
  BY DEF OnEntry, IsPaths, FirstOnly, n
<1> HIDE DEF f
<1>12. f = [k \in 0 .. n |-> f[k]] /\ f[0] = x /\ \A k \in 1 .. n : f[k] = OneFurther(f[k - 1])
  <2> DEFINE a(k) == OneFurther(f[k - 1])
  <2>1. f = [k \in 0 .. n |-> IF k = 0 THEN x ELSE a(k)]
    BY <1>10 DEF IsPaths, n, x
  <2> HIDE DEF a
  <2>2. f = [k \in 0 .. n |-> f[k]] /\ f[0] = x /\ \A k \in 1 .. n : f[k] = a(k)
    BY <1>1, <2>1
  <2> QED
    BY <2>2 DEF a
<1> DEFINE T == {k \in 0 .. n : f[k] \notin S}
<1>13. T = {}
  <2> SUFFICES ASSUME T # {} PROVE FALSE
    OBVIOUS
  <2>1. PICK m \in T : \A k \in T : m <= k
    <3>1. T \in SUBSET Nat
      BY <1>1
    <3> QED
      BY <3>1, LeastElement
  <2>2. m \in 1 .. n /\ m - 1 \in 0 .. n /\ m - 1 \notin T
    BY <1>1, <1>2, <1>12, <2>1
  <2>3. f[m - 1] \in S
    BY <2>2
  <2>4. f[m] \in S
    BY <1>3, <1>12, <2>2, <2>3
  <2> QED
    BY <2>1, <2>4
<1>14. f \in [0 .. n -> S]
  BY <1>12, <1>13
<1> QED
  BY <1>11, <1>12, <1>14 DEF S, n, x

LEMMA FiniteImage ==
  ASSUME NEW S, IsFiniteSet(S), NEW U, NEW f \in [S -> U]
  PROVE  IsFiniteSet({f[x] : x \in S})
<1> DEFINE T == {f[x] : x \in S}
<1>1. f \in Surjection(S, T)
  BY DEF Surjection
<1> HIDE DEF T
<1>2. IsFiniteSet(T)
  BY <1>1, FS_Surjection
<1> QED
  BY <1>2 DEF T

LEMMA AtMostOne ==
  ASSUME NEW S, IsFiniteSet(S), Cardinality(S) <= 1
  PROVE  \A x, y \in S : x = y
<1> SUFFICES ASSUME NEW x \in S, NEW y \in S, x # y PROVE FALSE
  OBVIOUS
<1>1. {x, y} \in SUBSET S
  OBVIOUS
<1>2. Cardinality({x, y}) <= Cardinality(S)
  BY <1>1, FS_Subset
<1>3. Cardinality({x}) = 1 /\ IsFiniteSet({x})
  BY FS_Singleton
<1>4. Cardinality({x} \cup {y}) = Cardinality({x}) + 1
  BY <1>3, FS_AddElement
<1>5. {x} \cup {y} = {x, y}
  OBVIOUS
<1>6. Cardinality(S) \in Nat
  BY FS_CardinalityType
<1> QED
  BY <1>2, <1>3, <1>4, <1>5, <1>6

\* Finitely many paths more are found in a round.
LEMMA FurtherFinite ==
  ASSUME blocks \in Graphs, NEW S \in [Blocks -> SUBSET State], \A b \in Blocks : IsFiniteSet(S[b]),
         NEW t \in Blocks
  PROVE  IsFiniteSet(OneFurther(S)[t])
<1> DEFINE D == {b \in Blocks : t \in Range(NextBBs(b))}
           F == [b \in D |-> {After(b, s) : s \in S[b]}]
           C == {F[b] : b \in D}
<1>1. IsFiniteSet(D)
  <2>1. Len(blocks) \in Int /\ 1 \in Int /\ Blocks = 1 .. Len(blocks)
    BY BlockProperties
  <2>2. IsFiniteSet(Blocks)
    BY <2>1, FS_Interval
  <2> QED
    BY <2>2, FS_Subset
<1>2. \A b \in D : IsFiniteSet(F[b])
  <2> SUFFICES ASSUME NEW b \in D PROVE IsFiniteSet({After(b, s) : s \in S[b]})
    OBVIOUS
  <2> DEFINE V == S[b]
             f == [s \in V |-> After(b, s)]
  <2>1. f \in [V -> State]
    BY AfterType
  <2>2. \A s \in V : f[s] = After(b, s)
    OBVIOUS
  <2> HIDE DEF f
  <2>3. IsFiniteSet({f[s] : s \in V})
    <3>1. IsFiniteSet(V)
      OBVIOUS
    <3> HIDE DEF V
    <3> QED
      BY <2>1, <3>1, FiniteImage
  <2>4. {f[s] : s \in V} = {After(b, s) : s \in S[b]}
    BY <2>2
  <2> QED
    BY <2>3, <2>4
<1>3. OneFurther(S)[t] = S[t] \cup UNION C
  <2>1. C = {{After(b, s) : s \in S[b]} : b \in D}
    OBVIOUS
  <2> QED
    BY <2>1 DEF OneFurther
<1>4. IsFiniteSet(C)
  <2> DEFINE U == {F[b] : b \in D}
  <2>1. F \in [D -> U]
    OBVIOUS
  <2> HIDE DEF F, D, U
  <2> QED
    BY <1>1, <2>1, FiniteImage
<1>5. \A V \in C : IsFiniteSet(V)
  BY <1>2
<1> HIDE DEF C
<1>6. IsFiniteSet(UNION C)
  BY <1>4, <1>5, FS_UNION
<1>7. IsFiniteSet(S[t] \cup UNION C)
  BY <1>6, FS_Union
<1> QED
  BY <1>3, <1>7

\* The blocks with a path.
Found(S) == {b \in Blocks : S[b] # {}}

LEMMA RoundGrows ==
  ASSUME blocks \in Graphs, NEW S \in [Blocks -> SUBSET State],
         \A t \in Blocks : \A x, y \in OneFurther(S)[t] : x = y
  PROVE  /\ IsFiniteSet(Found(S)) /\ Cardinality(Found(S)) \in Nat
         /\ Cardinality(Found(S)) <= Len(blocks)
         /\ \/ OneFurther(S) = S
            \/ Cardinality(Found(S)) + 1 <= Cardinality(Found(OneFurther(S)))
<1> DEFINE R == OneFurther(S)
           n == Len(blocks)
<1>1. /\ R \in [Blocks -> SUBSET State]
      /\ \A t \in Blocks : S[t] \subseteq R[t]
  BY FurtherProperties
<1>2. IsFiniteSet(Blocks) /\ Cardinality(Blocks) = n /\ n \in Nat
  <2>1. n \in Int /\ 1 \in Int /\ Blocks = 1 .. n /\ n \in Blocks /\ Blocks \subseteq Nat
    BY BlockProperties
  <2> HIDE DEF n
  <2>2. IsFiniteSet(1 .. n) /\ Cardinality(1 .. n) = IF 1 > n THEN 0 ELSE n - 1 + 1
    BY <2>1, FS_Interval
  <2>3. 1 <= n /\ n \in Nat
    BY <2>1
  <2> QED
    BY <2>1, <2>2, <2>3
<1> HIDE DEF R, n
<1>3. \A X : X \subseteq Blocks =>
        IsFiniteSet(X) /\ Cardinality(X) \in Nat /\ Cardinality(X) <= n
  <2> SUFFICES ASSUME NEW X, X \subseteq Blocks
               PROVE  IsFiniteSet(X) /\ Cardinality(X) \in Nat /\ Cardinality(X) <= n
    OBVIOUS
  <2>1. X \in SUBSET Blocks
    OBVIOUS
  <2>2. IsFiniteSet(X) /\ Cardinality(X) <= Cardinality(Blocks)
    BY <1>2, <2>1, FS_Subset
  <2> QED
    BY <1>2, <2>2, FS_CardinalityType
<1>4. Found(S) \subseteq Blocks /\ Found(R) \subseteq Blocks /\ Found(S) \subseteq Found(R)
  BY <1>1 DEF Found
<1>5. /\ IsFiniteSet(Found(S)) /\ Cardinality(Found(S)) \in Nat /\ Cardinality(Found(S)) <= n
      /\ IsFiniteSet(Found(R)) /\ Cardinality(Found(R)) \in Nat
  BY <1>3, <1>4
<1>6. ASSUME R # S PROVE Cardinality(Found(S)) + 1 <= Cardinality(Found(R))
  <2>1. PICK t \in Blocks : R[t] # S[t]
    BY <1>1, <1>6
  <2>2. t \in Found(R) /\ t \notin Found(S)
    <3>1. PICK x \in R[t] : x \notin S[t]
      BY <1>1, <2>1
    <3>2. S[t] = {}
      BY <1>1, <3>1 DEF R
    <3> QED
      BY <3>1, <3>2 DEF Found
  <2> DEFINE X == Found(S)
             Y == Found(R)
  <2>3. X \cup {t} \in SUBSET Y /\ IsFiniteSet(Y) /\ IsFiniteSet(X) /\ t \notin X
    BY <1>4, <1>5, <2>2
  <2> HIDE DEF X, Y
  <2>4. Cardinality(X \cup {t}) = Cardinality(X) + 1
    BY <2>3, FS_AddElement
  <2>5. Cardinality(X \cup {t}) <= Cardinality(Y)
    BY <2>3, FS_Subset
  <2> QED
    BY <2>4, <2>5 DEF X, Y
<1> QED
  BY <1>5, <1>6 DEF R, n

\* If all paths agree, no more are found after the last round.
LEMMA PathsComplete ==
  ASSUME blocks \in Graphs, Balanced
  PROVE  /\ OnEntry \in [Blocks -> SUBSET State]
         /\ OneFurther(OnEntry) = OnEntry
         /\ [params |-> 0, size |-> 0] \in OnEntry[1]
         /\ \A b \in Blocks : \A x, y \in OnEntry[b] : x = y
<1> DEFINE n == Len(blocks)
           S == [Blocks -> SUBSET State]
<1>1. n \in Nat /\ 1 <= n /\ 1 \in Blocks
  BY BlockProperties
<1>2. PICK f \in [0 .. n -> S] :
        /\ OnEntry = f[n]
        /\ f[0] = FirstOnly
        /\ \A k \in 1 .. n : f[k] = OneFurther(f[k - 1])
  BY Paths
<1>3. n \in 0 .. n /\ 0 \in 0 .. n
  BY <1>1
<1>4. \A k \in 0 .. n : f[k] \in S
  BY <1>2
<1>5. \A k \in 0 .. n - 1 :
        k \in 0 .. n /\ k + 1 \in 0 .. n /\ f[k + 1] = OneFurther(f[k])
  <2> SUFFICES ASSUME NEW k \in 0 .. n - 1
               PROVE  k \in 0 .. n /\ k + 1 \in 0 .. n /\ f[k + 1] = OneFurther(f[k])
    OBVIOUS
  <2>1. k + 1 \in 1 .. n /\ (k + 1) - 1 = k
    BY <1>1
  <2> QED
    BY <1>1, <1>2, <2>1
<1>6. \A k \in 0 .. n : \A b \in Blocks : f[k][b] \subseteq f[n][b]
  <2> DEFINE T == {j \in 0 .. n : \E b \in Blocks : ~(f[n - j][b] \subseteq f[n][b])}
  <2>1. T = {}
    <3> SUFFICES ASSUME T # {} PROVE FALSE
      OBVIOUS
    <3>1. PICK m \in T : \A j \in T : m <= j
      <4>1. T \in SUBSET Nat
        BY <1>1
      <4> HIDE DEF T
      <4> QED
        BY <4>1, LeastElement
    <3>2. m # 0 /\ m \in 0 .. n
      <4>1. n - 0 = n
        BY <1>1
      <4> QED
        BY <3>1, <4>1
    <3>3. m - 1 \in 0 .. n /\ m - 1 \notin T /\ n - m \in 0 .. n - 1 /\ n - (m - 1) = (n - m) + 1
      <4>1. m - 1 \in 0 .. n /\ n - m \in 0 .. n - 1 /\ n - (m - 1) = (n - m) + 1 /\ ~(m <= m - 1)
        BY <1>1, <3>2
      <4> HIDE DEF T
      <4> QED
        BY <3>1, <4>1
    <3>4. \A b \in Blocks : f[(n - m) + 1][b] \subseteq f[n][b]
      BY <3>3
    <3>5. \A b \in Blocks : f[n - m][b] \subseteq f[(n - m) + 1][b]
      BY <1>4, <1>5, <3>3, FurtherProperties
    <3> QED
      BY <3>1, <3>4, <3>5
  <2> SUFFICES ASSUME NEW k \in 0 .. n PROVE \A b \in Blocks : f[k][b] \subseteq f[n][b]
    OBVIOUS
  <2>2. n - k \in 0 .. n /\ n - (n - k) = k
    BY <1>1
  <2> QED
    BY <2>1, <2>2
<1>7. \A k \in 0 .. n : \A b \in Blocks : IsFiniteSet(f[k][b])
  <2> DEFINE T == {k \in 0 .. n : \E b \in Blocks : ~IsFiniteSet(f[k][b])}
  <2>1. T = {}
    <3> SUFFICES ASSUME T # {} PROVE FALSE
      OBVIOUS
    <3>1. PICK m \in T : \A j \in T : m <= j
      <4>1. T \in SUBSET Nat
        BY <1>1
      <4> HIDE DEF T
      <4> QED
        BY <4>1, LeastElement
    <3>2. m # 0 /\ m \in 0 .. n
      <4>1. \A b \in Blocks : f[0][b] = {} \/ f[0][b] = {[params |-> 0, size |-> 0]}
        BY <1>2 DEF FirstOnly
      <4>2. \A b \in Blocks : IsFiniteSet(f[0][b])
        BY <4>1, FS_EmptySet, FS_Singleton
      <4> QED
        BY <3>1, <4>2
    <3>3. m - 1 \in 0 .. n - 1 /\ m - 1 \in 0 .. n /\ m - 1 \notin T /\ (m - 1) + 1 = m
      <4>1. m - 1 \in 0 .. n - 1 /\ m - 1 \in 0 .. n /\ (m - 1) + 1 = m /\ ~(m <= m - 1)
        BY <1>1, <3>2
      <4> HIDE DEF T
      <4> QED
        BY <3>1, <4>1
    <3>4. \A b \in Blocks : IsFiniteSet(f[m - 1][b])
      BY <3>3
    <3>5. f[m] = OneFurther(f[m - 1]) /\ f[m - 1] \in S
      BY <1>4, <1>5, <3>3
    <3>6. \A b \in Blocks : IsFiniteSet(f[m][b])
      BY <3>4, <3>5, FurtherFinite
    <3> QED
      BY <3>1, <3>6
  <2> QED
    BY <2>1
<1>8. \A b \in Blocks : \A x, y \in f[n][b] : x = y
  <2> SUFFICES ASSUME NEW b \in Blocks PROVE \A x, y \in f[n][b] : x = y
    OBVIOUS
  <2>1. IsFiniteSet(f[n][b]) /\ Cardinality(f[n][b]) <= 1
    BY <1>2, <1>3, <1>7 DEF Balanced
  <2> QED
    BY <2>1, AtMostOne
<1>9. \A k \in 0 .. n : \A b \in Blocks : \A x, y \in f[k][b] : x = y
  BY <1>6, <1>8
<1> DEFINE Still(k) == k < n /\ OneFurther(f[k]) = f[k]
           Many(k)  == k + 1 <= Cardinality(Found(f[k]))
<1>10. \A k \in 0 .. n - 1 :
         /\ Cardinality(Found(f[k])) \in Nat
         /\ f[k + 1] = f[k] \/ Cardinality(Found(f[k])) + 1 <= Cardinality(Found(f[k + 1]))
  <2> SUFFICES ASSUME NEW k \in 0 .. n - 1
               PROVE  /\ Cardinality(Found(f[k])) \in Nat
                      /\ \/ f[k + 1] = f[k]
                         \/ Cardinality(Found(f[k])) + 1 <= Cardinality(Found(f[k + 1]))
    OBVIOUS
  <2>1. f[k] \in [Blocks -> SUBSET State] /\ f[k + 1] = OneFurther(f[k])
    BY <1>4, <1>5
  <2>2. \A t \in Blocks : \A x, y \in OneFurther(f[k])[t] : x = y
    BY <1>5, <1>9, <2>1
  <2> QED
    BY <2>1, <2>2, RoundGrows
<1>11. \A k \in 0 .. n : OneFurther(f[k]) = f[k] \/ Many(k)
  <2> DEFINE T == {k \in 0 .. n : ~(OneFurther(f[k]) = f[k] \/ Many(k))}
  <2>1. T = {}
    <3> SUFFICES ASSUME T # {} PROVE FALSE
      OBVIOUS
    <3>1. PICK m \in T : \A j \in T : m <= j
      <4>1. T \in SUBSET Nat
        BY <1>1
      <4> HIDE DEF T
      <4> QED
        BY <4>1, LeastElement
    <3>2. m # 0 /\ m \in 0 .. n
      <4>1. Found(f[0]) = {1}
        BY <1>1, <1>2 DEF Found, FirstOnly
      <4>2. Cardinality(Found(f[0])) = 1
        BY <4>1, FS_Singleton
      <4>3. 0 + 1 <= 1
        OBVIOUS
      <4>4. Many(0)
        BY <4>2, <4>3
      <4> QED
        BY <3>1, <4>4
    <3>3. m - 1 \in 0 .. n - 1 /\ m - 1 \in 0 .. n /\ m - 1 \notin T /\ (m - 1) + 1 = m
      <4>1. m - 1 \in 0 .. n - 1 /\ m - 1 \in 0 .. n /\ (m - 1) + 1 = m /\ ~(m <= m - 1)
        BY <1>1, <3>2
      <4> HIDE DEF T
      <4> QED
        BY <3>1, <4>1
    <3>4. f[m] = OneFurther(f[m - 1])
      BY <1>5, <3>3
    <3>5. CASE f[m] = f[m - 1]
      BY <3>1, <3>4, <3>5
    <3>6. CASE f[m] # f[m - 1]
      <4>1. m <= Cardinality(Found(f[m - 1]))
        BY <3>3, <3>4, <3>6
      <4>2. /\ Cardinality(Found(f[m - 1])) \in Nat
            /\ Cardinality(Found(f[m - 1])) + 1 <= Cardinality(Found(f[m]))
        BY <1>10, <3>3, <3>6
      <4>3. Found(f[m]) \subseteq Blocks
        BY DEF Found
      <4>4. Cardinality(Found(f[m])) \in Nat
        <5>1. 1 \in Int /\ n \in Int /\ Blocks = 1 .. n
          BY <1>1, BlockProperties
        <5>2. IsFiniteSet(Blocks)
          BY <5>1, FS_Interval
        <5> QED
          BY <4>3, <5>2, FS_Subset, FS_CardinalityType
      <4>5. Many(m)
        <5> DEFINE p == Cardinality(Found(f[m - 1]))
                   q == Cardinality(Found(f[m]))
        <5>1. p \in Nat /\ q \in Nat /\ m <= p /\ p + 1 <= q /\ m \in Int
          BY <3>2, <4>1, <4>2, <4>4
        <5> HIDE DEF p, q
        <5>2. m + 1 <= q
          BY <5>1
        <5> QED
          BY <5>2 DEF q
      <4> QED
        BY <3>1, <4>5
    <3> QED
      BY <3>5, <3>6
  <2> QED
    BY <2>1
<1>12. ~Many(n)
  <2>1. Found(f[n]) \in SUBSET Blocks
    BY DEF Found
  <2>2. 1 \in Int /\ n \in Int /\ Blocks = 1 .. n
    BY <1>1, BlockProperties
  <2>3. IsFiniteSet(1 .. n) /\ Cardinality(1 .. n) = IF 1 > n THEN 0 ELSE n - 1 + 1
    BY <2>2, FS_Interval
  <2>4. Cardinality(Found(f[n])) <= Cardinality(1 .. n) /\ IsFiniteSet(Found(f[n]))
    BY <2>1, <2>2, <2>3, FS_Subset
  <2>5. Cardinality(Found(f[n])) \in Nat
    BY <2>4, FS_CardinalityType
  <2> QED
    BY <1>1, <2>3, <2>4, <2>5
<1>13. OneFurther(f[n]) = f[n]
  BY <1>3, <1>11, <1>12
<1>14. [params |-> 0, size |-> 0] \in f[n][1]
  <2>1. [params |-> 0, size |-> 0] \in f[0][1]
    BY <1>1, <1>2 DEF FirstOnly
  <2> QED
    BY <1>1, <1>3, <1>6, <2>1
<1> QED
  BY <1>2, <1>3, <1>4, <1>8, <1>13, <1>14

\* The state of every block with a path, if all paths agree.
TheState == [b \in Reached |-> CHOOSE s \in OnEntry[b] : TRUE]

LEMMA BalancedFlow ==
  ASSUME blocks \in Graphs, Balanced
  PROVE  /\ Flow(blocks, TheState) /\ DOMAIN TheState = Reached
         /\ \A b \in Reached : b \in Blocks /\ OnEntry[b] = {TheState[b]}
<1> DEFINE S == OnEntry
           E == TheState
<1>1. /\ S \in [Blocks -> SUBSET State] /\ OneFurther(S) = S
      /\ [params |-> 0, size |-> 0] \in S[1] /\ 1 \in Blocks
      /\ \A b \in Blocks : \A x, y \in S[b] : x = y
  BY PathsComplete, BlockProperties
<1>2. Reached = {b \in Blocks : S[b] # {}}
  BY DEF Reached
<1>3. DOMAIN E = Reached /\ \A b \in Reached : E[b] = CHOOSE s \in S[b] : TRUE
  BY DEF TheState
<1> HIDE DEF S, E
<1>4. \A b \in Reached : b \in Blocks /\ E[b] \in S[b] /\ S[b] = {E[b]} /\ E[b] \in State
  <2> SUFFICES ASSUME NEW b \in Reached
               PROVE  b \in Blocks /\ E[b] \in S[b] /\ S[b] = {E[b]} /\ E[b] \in State
    OBVIOUS
  <2>1. b \in Blocks /\ \E s \in S[b] : TRUE
    BY <1>2
  <2>2. E[b] \in S[b]
    BY <1>3, <2>1
  <2> QED
    BY <1>1, <2>1, <2>2
<1>5. 1 \in Reached /\ E[1] = [params |-> 0, size |-> 0]
  BY <1>1, <1>2, <1>4
<1>6. ASSUME NEW b \in Reached, NEW t \in Range(To(blocks, b))
      PROVE  t \in Reached /\ E[t] = Along(blocks[b], E[b])[Len(blocks[b])]
  <2>1. t \in Range(NextBBs(b)) /\ b \in Blocks /\ E[b] \in S[b]
    BY <1>4, <1>6 DEF To, NextBBs
  <2>2. t \in Blocks /\ After(b, E[b]) \in S[t]
    BY <1>1, <2>1, FurtherProperties
  <2>3. t \in Reached /\ E[t] \in S[t]
    BY <1>2, <1>4, <2>2
  <2> QED
    BY <1>1, <2>2, <2>3 DEF After
<1> QED
  BY <1>3, <1>4, <1>5, <1>6 DEF Flow, Blocks, S, E

\* BalancedDefined, for all words.
THEOREM BalancedAlwaysDefined == Spec => []BalancedDefined
<1>1. IInv /\ AllLevel => BalancedDefined
  <2> SUFFICES ASSUME IInv, AllLevel, outcome = "undefined", Balanced PROVE FALSE
    BY DEF BalancedDefined
  <2>1. Flow(blocks, TheState)
    BY BalancedFlow DEF IInv, Types
  <2>2. Level(TheState)
    BY <2>1 DEF AllLevel
  <2> QED
    BY <2>2 DEF Level, OutcomeLevel
<1> QED
  BY <1>1, Invariant, LevelInvariant, PTL

-----------------------------------------------------------------------------
(***************************************************************************)
(* Parameters. No more are taken along a path than where it ends, and a    *)
(* node is only read from one that was taken.                              *)
(***************************************************************************)
LEMMA AlongGrows ==
  ASSUME blocks \in Graphs, NEW E, Flow(blocks, E), NEW b \in DOMAIN E,
         NEW i \in 0 .. Len(blocks[b])
  PROVE  /\ Along(blocks[b], E[b])[i] \in State /\ After(b, E[b]) \in State
         /\ Along(blocks[b], E[b])[i].params <= After(b, E[b]).params
<1> DEFINE n == Len(blocks[b])
           f == Along(blocks[b], E[b])
           T == {j \in 0 .. n : ~(f[n - j].params <= f[n].params)}
<1>1. /\ n \in Nat /\ f \in [0 .. n -> State] /\ After(b, E[b]) = f[n]
      /\ \A j \in 1 .. n : f[j] = Applied(Effect(blocks[b][j].cell), f[j - 1])
  BY FlowProperties DEF After
<1>2. \A j \in 1 .. n : Effect(blocks[b][j].cell).pops \in Nat /\ Effect(blocks[b][j].cell).pushes \in Nat
  BY FlowProperties, BlockProperties, EffectType
<1>3. \A j \in 1 .. n : f[j - 1].params <= f[j].params
  <2> SUFFICES ASSUME NEW j \in 1 .. n PROVE f[j - 1].params <= f[j].params
    OBVIOUS
  <2>1. j - 1 \in 0 .. n
    BY <1>1
  <2>2. f[j - 1] \in State
    BY <1>1, <2>1
  <2> HIDE DEF f, n
  <2> QED
    BY <1>1, <1>2, <2>2, AppliedProperties
<1>4. \A j \in 0 .. n : f[j] \in State /\ f[j].params \in Nat
  BY <1>1 DEF State
<1> HIDE DEF f, n
<1>5. T = {}
  <2> SUFFICES ASSUME T # {} PROVE FALSE
    OBVIOUS
  <2>1. PICK m \in T : \A j \in T : m <= j
    <3>1. T \in SUBSET Nat
      BY <1>1
    <3> HIDE DEF T
    <3> QED
      BY <3>1, LeastElement
  <2>2. m \in 0 .. n /\ ~(f[n - m].params <= f[n].params)
    BY <2>1
  <2>3. m # 0
    <3>1. n - 0 = n /\ n \in 0 .. n
      BY <1>1
    <3> QED
      BY <1>4, <2>2, <3>1
  <2>4. /\ m - 1 \in 0 .. n /\ ~(m <= m - 1)
        /\ n - m \in 0 .. n /\ n - (m - 1) \in 1 .. n /\ n \in 0 .. n
        /\ n - (m - 1) \in 0 .. n /\ (n - (m - 1)) - 1 = n - m
    BY <1>1, <2>2, <2>3
  <2>5. m - 1 \notin T
    <3> HIDE DEF T
    <3> QED
      BY <2>1, <2>4
  <2>6. f[n - (m - 1)].params <= f[n].params
    BY <2>4, <2>5
  <2>7. f[n - m].params <= f[n - (m - 1)].params
    BY <1>3, <2>4
  <2> DEFINE x == f[n - m].params
             y == f[n - (m - 1)].params
             z == f[n].params
  <2>8. x \in Nat /\ y \in Nat /\ z \in Nat /\ x <= y /\ y <= z /\ ~(x <= z)
    BY <1>4, <2>2, <2>4, <2>6, <2>7
  <2> HIDE DEF x, y, z
  <2> QED
    BY <2>8
<1>6. n - i \in 0 .. n /\ n - (n - i) = i /\ n \in 0 .. n /\ i \in 0 .. n
  BY <1>1 DEF n
<1>7. f[i].params <= f[n].params
  BY <1>5, <1>6
<1> QED
  BY <1>1, <1>4, <1>6, <1>7 DEF f

\* Every block a path enters is graphed once, and takes no parameter beyond the
\* P-th.
TakesUpTo(E, P) == \A b \in DOMAIN E : Once(blocks, E, b) /\ After(b, E[b]).params <= P

LEMMA TakenHere ==
  ASSUME IInv, Graphing, NEW E, Flow(blocks, E), Level(E), NEW P \in Nat, TakesUpTo(E, P)
  PROVE  Frame.taken + Len(Popping(Effect(Cell0).pops).params) <= P
<1> DEFINE e  == Effect(Cell0)
           p  == Popping(e.pops)
           at == Frame.at
           f  == Along(blocks[B], E[B])
<1>1. /\ Types /\ Running /\ B \in Blocks /\ Frame.taken \in Nat
      /\ Nodes(nodes) /\ Stack \in NodeList(nodes) /\ at \in 1 .. Len(blocks[B])
      /\ e.pops \in Nat /\ e.pushes \in Nat
  <2>1. Len(blocks[B]) \in Nat /\ DOMAIN Body = 1 .. Len(blocks[B])
    BY FrameProperties, BlockProperties DEF IInv, Types, Graphing, Body
  <2> QED
    BY <2>1, FrameProperties, CellProperties, EffectType DEF IInv, Types, Graphing, IsStack
<1>2. B \in DOMAIN E /\ OnLevel(Frame, blocks, E, params, pushes)
  BY <1>1, TopLevel DEF TakesUpTo
<1>3. /\ blocks \in Graphs /\ Len(blocks[B]) \in Nat /\ f \in [0 .. Len(blocks[B]) -> State]
      /\ f[at] = Applied(e, f[at - 1])
  <2>1. blocks[B][at].cell = Cell0
    BY DEF Cell0, Body
  <2>2. blocks \in Graphs
    BY <1>1 DEF Types
  <2>3. /\ Len(blocks[B]) \in Nat /\ f \in [0 .. Len(blocks[B]) -> State]
        /\ \A i \in 1 .. Len(blocks[B]) : f[i] = Applied(Effect(blocks[B][i].cell), f[i - 1])
    BY <1>2, <2>2, FlowProperties
  <2>4. f[at] = Applied(Effect(blocks[B][at].cell), f[at - 1])
    BY <1>1, <2>3
  <2> QED
    BY <2>1, <2>2, <2>3, <2>4
<1>4. at - 1 \in 0 .. Len(blocks[B]) /\ at \in 0 .. Len(blocks[B]) /\ at <= Len(blocks[B])
  BY <1>1, <1>3
<1>5. Through(Frame, blocks) = at - 1
  BY <1>4 DEF Through, B
<1>6. Frame.taken = f[at - 1].params /\ Len(Stack) = f[at - 1].size
  BY <1>2, <1>5 DEF OnLevel, B, Stack
<1>7. f[at - 1] = [params |-> Frame.taken, size |-> Len(Stack)]
  <2>1. f[at - 1] \in State
    BY <1>3, <1>4
  <2> HIDE DEF f, at
  <2> QED
    BY <1>6, <2>1 DEF State
<1>8. Popped(p, nodes, Stack, e.pops)
  BY <1>1, PoppingProperties
<1> DEFINE k  == e.pops
           t  == Frame.taken
           m  == Len(p.stack) + e.pushes
           st == Stack
<1>9. [params |-> t + Len(p.params), size |-> m] = Applied(e, [params |-> t, size |-> Len(st)])
  <2>1. /\ k \in Nat /\ t \in Nat /\ m = Len(p.stack) + e.pushes /\ st \in NodeList(nodes)
        /\ Popped(p, nodes, st, k) /\ e.pops = k /\ e.pushes \in Nat /\ Nodes(nodes)
    BY <1>1, <1>8
  <2> HIDE DEF k, t, m, st, e, p
  <2> QED
    BY <2>1, PoppedLevel
<1>10. f[at] = [params |-> t + Len(p.params), size |-> m]
  BY <1>3, <1>7, <1>9
<1>11. f[at].params = t + Len(p.params)
  <2> HIDE DEF f, m, p, t
  <2> QED
    BY <1>10
<1>12. f[at].params <= After(B, E[B]).params /\ f[at] \in State /\ After(B, E[B]) \in State
  BY <1>2, <1>3, <1>4, AlongGrows
<1>13. After(B, E[B]).params <= P
  BY <1>2 DEF TakesUpTo
<1> DEFINE x == f[at].params
           y == After(B, E[B]).params
<1>14. x \in Nat /\ y \in Nat /\ x <= y /\ y <= P
  BY <1>12, <1>13 DEF State
<1> HIDE DEF x, y
<1>15. x <= P
  BY <1>14
<1> HIDE DEF f, p
<1> QED
  BY <1>11, <1>15 DEF x, p, t

\* Nodes of an instruction, those of earlier visits and the new ones.
LEMMA PushedNodes ==
  ASSUME Types, B \in Blocks, Frame.at \in DOMAIN Body, NEW ns, Extends(ns, nodes), NEW k \in Nat
  PROVE  /\ pushes[B][Frame.at] \o NewTops(ns, k) \in NodeList(WithNew(ns, k))
         /\ k <= Len(pushes[B][Frame.at] \o NewTops(ns, k))
<1> DEFINE ws  == WithNew(ns, k)
           old == pushes[B][Frame.at]
           add == NewTops(ns, k)
<1>1. Nodes(nodes) /\ Nodes(ns)
  BY DEF Types, Extends
<1>2. Nodes(ws) /\ Extends(ws, ns) /\ Len(ws) = Len(ns) + k
  BY <1>1, NewNodes
<1>3. old \in NodeList(ws)
  <2>1. old \in NodeList(nodes)
    BY DEF Types, NodesOfInstructions, Blocks, Body
  <2>2. Extends(ws, nodes)
    BY <1>1, <1>2, ExtendsMore
  <2> QED
    BY <1>1, <2>1, <2>2, ListsGrow
<1>4. Len(ns) \in Nat /\ Len(ws) \in Nat /\ Len(ns) + k <= Len(ws)
  BY <1>1, <1>2, LenProperties DEF Nodes
<1>5. add \in NodeList(ws) /\ Len(add) = k
  BY <1>4, NewTopsProperties DEF NodeList
<1> HIDE DEF old, add, ws
<1>6. old \o add \in NodeList(ws) /\ Len(old \o add) = Len(old) + Len(add) /\ Len(old) \in Nat
  BY <1>3, <1>5, ConcatProperties, LenProperties DEF NodeList
<1> QED
  BY <1>5, <1>6 DEF old, add, ws

LEMMA PropagateParams ==
  ASSUME IInv, Propagate, NEW E, Flow(blocks, E), Level(E), NEW P \in Nat, TakesUpTo(E, P),
         ParamsUpTo(nodes, P)
  PROVE  ParamsUpTo(nodes', P)
<1> DEFINE e == Effect(Cell0)
           New(ns, pushed) == {i \in DOMAIN pushed : ns[pushed[i]].prev = 0}
           Reg(ns, pushed, i) ==
             IF i \notin New(ns, pushed) THEN ns[pushed[i]].back
             ELSE Normal(B, generated[B] + Cardinality({j \in New(ns, pushed) : j <= i}))
           Regs(ns, pushed) == [i \in DOMAIN pushed |-> Reg(ns, pushed, i)]
<1>1. PICK p, pushed, ns :
        /\ p = Popping(e.pops)
        /\ pushed = pushes[B][Frame.at] \o NewTops(p.nodes, e.pushes)
        /\ ns = Paired(p, pushed)
        /\ nodes' = LinkTops(ns, pushed, Regs(ns, pushed))
        /\ SetPops(p)
        /\ pushes' = [pushes EXCEPT ![B][Frame.at] = pushed]
        /\ generated' = [generated EXCEPT ![B] = @ + Cardinality(New(ns, pushed))]
        /\ Step(p.stack \o NewTops(ns, Len(pushed)), Frame.taken + Len(p.params))
  BY Zenon DEF Propagate, LinkTops
<1>2. Graphing
  BY DEF Propagate
<1>3. /\ Types /\ Running /\ B \in Blocks /\ Frame.taken \in Nat
      /\ Nodes(nodes) /\ Stack \in NodeList(nodes)
      /\ Frame.at \in DOMAIN Body /\ IsLinked(Cell0)
      /\ e.pops \in Nat /\ e.pushes \in Nat /\ generated[B] \in Nat /\ B \in Nat
  BY <1>2, FrameProperties, CellProperties, EffectType, BlockProperties
     DEF IInv, Types, Graphing, IsStack
<1>4. Popped(p, nodes, Stack, e.pops) /\ ParamsUpTo(p.nodes, P)
  <2>1. Frame.taken + Len(Popping(e.pops).params) <= P
    BY <1>2, TakenHere
  <2> QED
    BY <1>1, <1>3, <2>1, PoppingProperties
<1>5. /\ Extends(p.nodes, nodes) /\ Nodes(p.nodes)
      /\ p.popped \in NodeList(p.nodes) /\ Len(p.popped) = e.pops
  BY <1>4 DEF Popped, Extends
<1>6. pushed \in NodeList(WithNew(p.nodes, e.pushes)) /\ e.pushes <= Len(pushed)
  BY <1>1, <1>3, <1>5, PushedNodes
<1>7. /\ Extends(ns, p.nodes) /\ Len(ns) = Len(p.nodes) + e.pushes
      /\ ParamsUpTo(ns, P)
  BY <1>1, <1>3, <1>4, <1>5, <1>6, PairedProperties
<1>8. Nodes(ns) /\ pushed \in NodeList(ns)
  <2>1. Len(WithNew(p.nodes, e.pushes)) = Len(ns)
    BY <1>3, <1>5, <1>7, NewNodes
  <2> QED
    BY <1>6, <1>7, <2>1 DEF Extends, NodeList
<1>9. /\ DOMAIN pushed = 1 .. Len(pushed) /\ Len(pushed) \in Nat
      /\ \A i \in 1 .. Len(pushed) : pushed[i] \in 1 .. Len(ns)
  BY <1>8, ElementOfSeq, LenProperties DEF NodeList
<1> DEFINE regs == Regs(ns, pushed)
           new  == New(ns, pushed)
<1>10. ASSUME NEW i \in 1 .. Len(pushed)
       PROVE  regs[i] \in Registers /\ ReadsUpTo(regs[i], P)
  <2>1. CASE i \notin new
    <3>1. ns[pushed[i]] \in Node /\ ReadsUpTo(ns[pushed[i]].back, P)
      BY <1>7, <1>8, <1>9, ElementOfSeq DEF Nodes, ParamsUpTo
    <3>2. regs[i] = ns[pushed[i]].back
      BY <1>9, <2>1
    <3> QED
      BY <3>1, <3>2 DEF Node
  <2>2. CASE i \in new
    <3> DEFINE T == {j \in new : j <= i}
               k == Cardinality(T)
    <3>1. T \in SUBSET (1 .. Len(pushed))
      BY <1>9
    <3>2. k \in Nat
      <4>1. IsFiniteSet(1 .. Len(pushed))
        BY <1>9, FS_Interval
      <4> HIDE DEF T
      <4> QED
        BY <3>1, <4>1, FS_Subset, FS_CardinalityType
    <3>3. regs[i] = Normal(B, generated[B] + k)
      BY <1>9, <2>2
    <3> HIDE DEF k, regs
    <3>4. regs[i] \in Registers /\ regs[i].type = "normal"
      BY <1>3, <3>2, <3>3 DEF Normal, Registers
    <3> QED
      BY <3>4 DEF ReadsUpTo
  <2> QED
    BY <2>1, <2>2
<1> HIDE DEF regs, new
<1>11. ParamsUpTo(LinkTops(ns, pushed, regs), P)
  BY <1>7, <1>8, <1>10, TopsLinked
<1> QED
  BY <1>1, <1>11 DEF regs

LEMMA StoreLocalParams ==
  ASSUME IInv, StoreLocal, NEW E, Flow(blocks, E), Level(E), NEW P \in Nat, TakesUpTo(E, P),
         ParamsUpTo(nodes, P)
  PROVE  ParamsUpTo(nodes', P)
<1>1. Graphing /\ nodes' = Popping(1).nodes
  BY DEF StoreLocal
<1>2. Effect(Cell0).pops = 1
  BY LocalEffects DEF StoreLocal, IsLocal
<1>3. Nodes(nodes) /\ Stack \in NodeList(nodes) /\ Frame.taken \in Nat
  BY <1>1, FrameProperties DEF IInv, Types, Graphing, IsStack
<1>4. Frame.taken + Len(Popping(1).params) <= P
  BY <1>1, <1>2, TakenHere
<1> QED
  BY <1>1, <1>3, <1>4, PoppingProperties

LEMMA LoadLocalParams ==
  ASSUME IInv, LoadLocal, NEW P, ParamsUpTo(nodes, P)
  PROVE  ParamsUpTo(nodes', P)
<1>1. CASE Key(Cell0) \notin DOMAIN locals
  BY <1>1 DEF LoadLocal, Stop
<1>2. CASE Key(Cell0) \in DOMAIN locals
  <2> DEFINE ws  == WithNew(nodes, 2)
             one == <<Len(nodes) + 1>>
             two == <<Len(nodes) + 2>>
             r   == locals[Key(Cell0)]
             reg == <<r>>
  <2>1. nodes' = LinkBoth(ws, one, two, reg)
    BY <1>2 DEF LoadLocal, Loaded, NewTops
  <2>2. Nodes(nodes) /\ Len(nodes) \in Nat
    BY LenProperties DEF IInv, Types, Nodes
  <2>3. Nodes(ws) /\ Len(ws) = Len(nodes) + 2 /\ ParamsUpTo(ws, P)
    BY ZenonT(30), <2>2, NewNodes, NewParams
  <2>4. r \in Registers /\ r.type = "normal"
    BY <1>2 DEF IInv, Allocated, IsUsed
  <2>5. one \in Seq(0 .. Len(ws)) /\ two \in NodeList(ws) /\ Len(one) = 1 /\ Len(two) = 1
    <3>1. Len(nodes) + 1 \in 0 .. Len(ws) /\ Len(nodes) + 2 \in 1 .. Len(ws)
      BY <2>2, <2>3
    <3> HIDE DEF ws
    <3> QED
      BY <3>1 DEF NodeList
  <2>6. \A i \in 1 .. Len(two) : reg[i] = r
    BY <2>5
  <2> HIDE DEF ws, one, two, reg, r
  <2>7. IsLink(nodes', ws, one, two, reg)
    BY <2>1, <2>3, <2>4, <2>5, <2>6, LinkedBoth
  <2>8. \A i \in 1 .. Len(two) : ReadsUpTo(reg[i], P)
    BY <2>4, <2>6 DEF ReadsUpTo
  <2> QED
    BY <2>3, <2>7, <2>8, LinkParams
<1> QED
  BY <1>1, <1>2

LEMMA CloseBlockParams ==
  ASSUME IInv, CloseBlock, NEW P, ParamsUpTo(nodes, P)
  PROVE  ParamsUpTo(nodes', P)
<1> DEFINE order == AlignOrder(NextBBs(B))
<1>1. CASE Overrun(order)
  BY <1>1 DEF CloseBlock, Stop
<1>2. CASE ~Overrun(order)
  <2>1. Running /\ Frame.at = Len(Body) + 1 /\ nodes' = Alignment(order).nodes
    BY <1>2 DEF CloseBlock
  <2>2. /\ Types /\ B \in Blocks /\ Nodes(nodes) /\ Stack \in NodeList(nodes) /\ Distinct(Stack)
        /\ Allocated(initial, generated, aligned.inputs, locals)
    BY <2>1, FrameProperties DEF IInv, Types, IsStack
  <2>3. /\ initial \in [Blocks -> Seq(Registers)] /\ generated \in [Blocks -> Nat]
        /\ aligned \in [inputs : SUBSET Blocks, outputs : SUBSET Blocks]
    BY <2>2 DEF Types
  <2>4. /\ Blocks \subseteq Nat /\ Len(Body) \in Nat
        /\ NextBBs(B) \in Seq(Blocks) /\ Len(NextBBs(B)) <= 2
    BY <2>2, BlockProperties DEF Types, Body
  <2>5. B \notin aligned.outputs
    <3>1. Frame.at <= Len(blocks[Frame.block]) + 1 /\ Open(Frame, blocks, aligned.outputs)
      BY <2>1, <2>4, FrameProperties DEF Body, B
    <3> QED
      BY <3>1 DEF Open, B
  <2>6. order \in Seq(Blocks) /\ Len(order) <= 2
    <3> DEFINE nx == NextBBs(B)
    <3>1. nx \in Seq(Blocks) /\ Reverse(nx) \in Seq(Blocks) /\ Len(Reverse(nx)) = Len(nx)
          /\ Len(nx) <= 2
      BY <2>4, Reversed
    <3> HIDE DEF nx
    <3>2. AlignOrder(nx) \in Seq(Blocks) /\ Len(AlignOrder(nx)) <= 2
      BY <3>1 DEF AlignOrder
    <3> QED
      BY <3>2 DEF nx
  <2> HIDE DEF order
  <2>7. KeepsParams(Alignment(order).nodes, nodes)
    BY <1>2, <2>2, <2>3, <2>4, <2>5, <2>6, AlignedEdges
  <2> QED
    BY <2>1, <2>7 DEF KeepsParams
<1> QED
  BY <1>1, <1>2

LEMMA DescendParams ==
  ASSUME IInv, Descend, NEW P, ParamsUpTo(nodes, P)
  PROVE  ParamsUpTo(nodes', P)
<1> DEFINE t == Head(Frame.left)
<1>1. Running /\ Frame.at > Len(Body) + 1 /\ Frame.left # <<>>
  BY DEF Descend
<1>2. /\ Types /\ Nodes(nodes) /\ Stack \in NodeList(nodes) /\ Frame.left \in Seq(Blocks)
      /\ Allocated(initial, generated, aligned.inputs, locals)
  BY <1>1, FrameProperties DEF IInv, Types, IsStack
<1>3. t \in Blocks
  BY <1>1, <1>2, HeadTailProperties
<1>4. CASE t \in aligned.outputs
  BY <1>4 DEF Descend
<1>5. CASE t \notin aligned.outputs /\ Len(Stack) > Len(initial[t])
  BY <1>5 DEF Descend, Stop
<1>6. CASE t \notin aligned.outputs /\ ~(Len(Stack) > Len(initial[t]))
  <2> DEFINE regs == initial[t]
             l    == Len(nodes)
             list == Stack
  <2>1. nodes' = Entered(list, regs)
    BY <1>6 DEF Descend
  <2>2. l \in Nat /\ DOMAIN nodes = 1 .. l
    BY <1>2, LenProperties DEF Nodes
  <2>3. /\ nodes' = [n \in 1 .. l |-> nodes'[n]] /\ Len(nodes') = l
        /\ \A n \in 1 .. l : nodes'[n] = IF n \notin Range(list) THEN nodes[n]
                               ELSE [nodes[n] EXCEPT !.back = regs[LastAt(list, n)]]
    <3> DEFINE a(n) == IF n \notin Range(list) THEN nodes[n]
                       ELSE [nodes[n] EXCEPT !.back = regs[LastAt(list, n)]]
    <3>1. nodes' = [n \in 1 .. l |-> a(n)]
      BY <2>1, <2>2 DEF Entered
    <3> HIDE DEF a, l
    <3>2. nodes' = [n \in 1 .. l |-> nodes'[n]] /\ \A n \in 1 .. l : nodes'[n] = a(n)
      BY <3>1
    <3>3. Len(nodes') = l
      BY <2>2, <3>1
    <3> QED
      BY <3>2, <3>3 DEF a
  <2>4. Len(list) \in Nat /\ Len(regs) \in Nat /\ Len(list) <= Len(regs)
    <3>1. regs \in Seq(Registers)
      BY <1>2, <1>3 DEF Types
    <3>2. Len(list) \in Nat /\ Len(regs) \in Nat
      BY <1>2, <3>1, LenProperties DEF NodeList
    <3> QED
      BY <1>6, <3>2
  <2>5. \A i \in 1 .. Len(regs) : regs[i].type = "normal"
    BY <1>2, <1>3 DEF Allocated, IsUsed, Types
  <2> HIDE DEF regs, l, list
  <2>6. ASSUME NEW n \in 1 .. l PROVE ReadsUpTo(nodes'[n].back, P)
    <3>1. nodes[n] \in Node /\ ReadsUpTo(nodes[n].back, P)
      BY <1>2, <2>2, ElementOfSeq DEF ParamsUpTo, Nodes, l
    <3>2. CASE n \in Range(list)
      <4>1. LastAt(list, n) \in 1 .. Len(list)
        <5>1. list \in Seq(1 .. Len(nodes))
          BY <1>2 DEF list, NodeList
        <5> QED
          BY <3>2, <5>1, LastAtProperties
      <4> DEFINE r == regs[LastAt(list, n)]
      <4>2. r.type = "normal"
        BY <2>4, <2>5, <4>1
      <4>3. nodes'[n] = [nodes[n] EXCEPT !.back = r]
        BY <2>3, <3>2
      <4> HIDE DEF r
      <4>4. nodes'[n].back = r
        BY <3>1, <4>3 DEF Node
      <4> QED
        BY <4>2, <4>4 DEF ReadsUpTo
    <3>3. CASE n \notin Range(list)
      BY <2>3, <3>1, <3>3
    <3> QED
      BY <3>2, <3>3
  <2> QED
    BY <2>3, <2>6 DEF ParamsUpTo
<1> QED
  BY <1>4, <1>5, <1>6

LEMMA FinishParams ==
  ASSUME IInv, Finish, NEW P, ParamsUpTo(nodes, P)
  PROVE  ParamsUpTo(nodes', P)
<1> DEFINE list == outputs[ExitBlock]
           regs == [i \in DOMAIN list |-> Returned(nodes[list[i]].back)]
<1>1. nodes' = Redefine(nodes, list, regs)
  BY DEF Finish
<1>2. Types /\ Nodes(nodes)
  BY DEF IInv, Types
<1>3. list \in NodeList(nodes)
  <2>1. ExitBlock \in Blocks
    BY <1>2, BlockProperties DEF Types, ExitBlock
  <2> QED
    BY <1>2, <2>1 DEF Types
<1> HIDE DEF list
<1>4. DOMAIN list = 1 .. Len(list) /\ \A i \in 1 .. Len(list) : list[i] \in 1 .. Len(nodes)
  BY <1>3, ElementOfSeq, LenProperties DEF NodeList
<1>5. ASSUME NEW i \in 1 .. Len(list) PROVE regs[i] \in Registers /\ ReadsUpTo(regs[i], P)
  <2> DEFINE r == nodes[list[i]].back
  <2>1. nodes[list[i]] \in Node
    BY <1>2, <1>4, ElementOfSeq DEF Nodes
  <2>2. r \in Registers
    BY <2>1 DEF Node
  <2>3. regs[i] = Returned(r)
    BY <1>4
  <2> HIDE DEF r, regs
  <2>4. Returned(r) \in Registers /\ Returned(r).type = "return"
    BY <2>2 DEF Returned, Registers
  <2> QED
    BY <2>3, <2>4 DEF ReadsUpTo
<1> HIDE DEF regs
<1> QED
  BY <1>1, <1>2, <1>3, <1>5, Redefined

\* If the blocks are graphed once, the parameters read are those the paths take.
AllParams ==
  \A E : \A P \in Nat : Flow(blocks, E) /\ TakesUpTo(E, P) => ParamsUpTo(nodes, P)

LEMMA ParamsInvariant == Spec => []AllParams
<1>1. Init => AllParams
  <2> SUFFICES ASSUME Init PROVE AllParams
    OBVIOUS
  <2>1. nodes = <<>> /\ Len(nodes) = 0
    BY DEF Init
  <2>2. \A P : ParamsUpTo(nodes, P)
    BY <2>1 DEF ParamsUpTo
  <2> QED
    BY <2>2 DEF AllParams
<1>2. IInv /\ AllLevel /\ AllParams /\ [Next]_vars => AllParams'
  <2> SUFFICES ASSUME IInv, AllLevel, AllParams, [Next]_vars PROVE AllParams'
    OBVIOUS
  <2>1. blocks' = blocks
    BY DEF Next, vars, perBlock, links, Propagate, StoreLocal, LoadLocal, CloseBlock, Descend,
           Return, Finish, Ended, Stop
  <2> SUFFICES ASSUME NEW E, NEW P \in Nat, Flow(blocks, E), TakesUpTo(E, P)
               PROVE  ParamsUpTo(nodes', P)
    BY <2>1 DEF AllParams, TakesUpTo, Once, After
  <2>2. Level(E) /\ ParamsUpTo(nodes, P)
    BY DEF AllLevel, AllParams
  <2>3. CASE Propagate
    BY <2>2, <2>3, PropagateParams
  <2>4. CASE StoreLocal
    BY <2>2, <2>4, StoreLocalParams
  <2>5. CASE LoadLocal
    BY <2>2, <2>5, LoadLocalParams
  <2>6. CASE CloseBlock
    BY <2>2, <2>6, CloseBlockParams
  <2>7. CASE Descend
    BY <2>2, <2>7, DescendParams
  <2>8. CASE Finish
    BY <2>2, <2>8, FinishParams
  <2>9. CASE UNCHANGED nodes
    BY <2>2, <2>9
  <2>10. Return \/ Ended \/ UNCHANGED vars => UNCHANGED nodes
    BY DEF Return, Ended, vars
  <2> QED
    BY <2>3, <2>4, <2>5, <2>6, <2>7, <2>8, <2>9, <2>10 DEF Next
<1> QED
  BY <1>1, <1>2, Invariant, LevelInvariant, PTL DEF Spec

-----------------------------------------------------------------------------
(***************************************************************************)
(* The end. The last block has no successors and, if a path enters it, was *)
(* graphed: no successor of a block reached is forgotten.                  *)
(***************************************************************************)
LEMMA LastBlock ==
  ASSUME blocks \in Graphs
  PROVE  ExitBlock \in Blocks /\ NextBBs(ExitBlock) = <<>>
<1>1. ExitBlock \in DOMAIN blocks
  BY BlockProperties DEF ExitBlock, Blocks
<1> QED
  BY <1>1, GraphsAssumption DEF ExitBlock, NextBBs, Blocks

LEMMA ReachedCovered ==
  ASSUME blocks \in Graphs, NEW A, 1 \in A,
         \A b \in Blocks : b \in A => Range(NextBBs(b)) \subseteq A
  PROVE  Reached \subseteq A
<1> DEFINE n == Len(blocks)
<1>1. n \in Nat
  BY BlockProperties
<1>2. PICK f \in [0 .. n -> [Blocks -> SUBSET State]] :
        /\ OnEntry = f[n]
        /\ f[0] = FirstOnly
        /\ \A k \in 1 .. n : f[k] = OneFurther(f[k - 1])
  BY Paths
<1> DEFINE T == {k \in 0 .. n : \E b \in Blocks : f[k][b] # {} /\ b \notin A}
<1>3. T = {}
  <2> SUFFICES ASSUME T # {} PROVE FALSE
    OBVIOUS
  <2>1. PICK m \in T : \A j \in T : m <= j
    <3>1. T \in SUBSET Nat
      BY <1>1
    <3> HIDE DEF T
    <3> QED
      BY <3>1, LeastElement
  <2>2. PICK b \in Blocks : f[m][b] # {} /\ b \notin A
    BY <2>1
  <2>3. m \in 0 .. n /\ m # 0
    BY <1>2, <2>1, <2>2 DEF FirstOnly
  <2>4. m \in 1 .. n /\ m - 1 \in 0 .. n /\ ~(m <= m - 1)
    BY <1>1, <2>3
  <2>5. m - 1 \notin T
    <3> HIDE DEF T
    <3> QED
      BY <2>1, <2>4
  <2>6. f[m] = OneFurther(f[m - 1]) /\ f[m - 1] \in [Blocks -> SUBSET State]
    BY <1>2, <2>4
  <2>7. PICK x : x \in OneFurther(f[m - 1])[b]
    BY <2>2, <2>6
  <2>8. x \in f[m - 1][b] \/ \E c \in Blocks : b \in Range(NextBBs(c)) /\ \E s \in f[m - 1][c] : x = After(c, s)
    BY <2>6, <2>7, FurtherProperties
  <2> QED
    BY <2>2, <2>4, <2>5, <2>8
<1>4. n \in 0 .. n
  BY <1>1
<1> QED
  BY <1>2, <1>3, <1>4 DEF Reached

LEMMA ExitEntered ==
  ASSUME blocks \in Graphs, Balanced, ExitOnce
  PROVE  EnteredOnce(blocks, TheState, ExitBlock)
<1> DEFINE S == EdgesInto(ExitBlock)
<1>1. Reached \subseteq Blocks /\ DOMAIN TheState = Reached
  BY BalancedFlow
<1>2. IsFiniteSet(S)
  <2>1. 1 \in Int /\ Len(blocks) \in Int /\ Blocks = 1 .. Len(blocks)
    BY BlockProperties
  <2>2. IsFiniteSet(Reached)
    BY <1>1, <2>1, FS_Interval, FS_Subset
  <2>3. IsFiniteSet({1, 2})
    <3>1. {1, 2} = 1 .. 2 /\ 1 \in Int /\ 2 \in Int
      OBVIOUS
    <3> QED
      BY <3>1, FS_Interval
  <2>4. IsFiniteSet(Reached \X {1, 2})
    BY <2>2, <2>3, FS_Product
  <2>5. S \in SUBSET (Reached \X {1, 2})
    BY DEF EdgesInto
  <2> QED
    BY <2>4, <2>5, FS_Subset
<1>3. \A x, y \in S : x = y
  <2>1. Cardinality(S) <= 1
    BY DEF ExitOnce
  <2> HIDE DEF S
  <2> QED
    BY <1>2, <2>1, AtMostOne
<1>4. ASSUME NEW b \in Reached, NEW i \in DOMAIN To(blocks, b), To(blocks, b)[i] = ExitBlock
      PROVE  <<b, i>> \in S
  <2> DEFINE nx == NextBBs(b)
  <2>1. nx \in Seq(Blocks) /\ Len(nx) <= 2
    BY <1>1, BlockProperties
  <2>2. To(blocks, b) = nx
    BY DEF To, NextBBs
  <2> HIDE DEF nx
  <2>3. i \in 1 .. Len(nx) /\ Len(nx) \in Nat
    BY <2>1, <2>2, LenProperties
  <2>4. i \in {1, 2}
    BY <2>1, <2>3
  <2>5. i \in DOMAIN NextBBs(b) /\ NextBBs(b)[i] = ExitBlock
    BY <1>4, <2>2 DEF nx
  <2> QED
    BY <2>4, <2>5 DEF EdgesInto
<1>5. ASSUME NEW b \in Reached, NEW c \in Reached,
             NEW i \in DOMAIN To(blocks, b), NEW j \in DOMAIN To(blocks, c),
             To(blocks, b)[i] = ExitBlock, To(blocks, c)[j] = ExitBlock
      PROVE  b = c /\ i = j
  <2>1. <<b, i>> = <<c, j>>
    BY <1>3, <1>4, <1>5
  <2> QED
    BY <2>1
<1>6. ASSUME ExitBlock = 1, NEW b \in Reached PROVE ExitBlock \notin Range(To(blocks, b))
  <2>1. Blocks = 1 .. 1
    BY <1>6, BlockProperties DEF ExitBlock
  <2>2. b = ExitBlock
    BY <1>1, <1>6, <2>1
  <2>3. To(blocks, b) = <<>>
    BY <2>2, LastBlock DEF To, NextBBs
  <2> QED
    BY <2>3 DEF Range
<1> QED
  BY <1>1, <1>5, <1>6 DEF EnteredOnce

\* The rounds that find the blocks on the way to the exit.
IsBack(f) ==
  f = [k \in 0 .. Len(blocks) |->
         IF k = 0 THEN {ExitBlock}
         ELSE f[k - 1] \cup {b \in Blocks : Range(NextBBs(b)) \cap f[k - 1] # {}}]

LEMMA ExitingCovered ==
  ASSUME blocks \in Graphs, NEW Q, ExitBlock \in Q,
         \A b \in Blocks : Range(NextBBs(b)) \cap Q # {} => b \in Q
  PROVE  Exiting \subseteq Q
<1> DEFINE n == Len(blocks)
           S == SUBSET Blocks
           x == {ExitBlock}
           More(X) == X \cup {b \in Blocks : Range(NextBBs(b)) \cap X # {}}
           G == [p \in (0 .. n) \X S |-> More(p[2])]
<1>1. n \in Nat /\ x \in S
  BY BlockProperties DEF ExitBlock
<1>2. \A X \in S : More(X) \in S
  OBVIOUS
<1> HIDE DEF S, n, x, More
<1>3. G \in [(0 .. n) \X S -> S]
  BY <1>2
<1>4. \A k \in 0 .. n, X \in S : G[<<k, X>>] = More(X)
  OBVIOUS
<1> HIDE DEF G
<1>5. PICK h \in [0 .. n -> S] : IsIteration(h, n, x, G)
  BY <1>1, <1>3, Iterated
<1>6. h = [k \in 0 .. n |-> IF k = 0 THEN x ELSE G[<<k, h[k - 1]>>]]
  BY <1>5 DEF IsIteration
<1>7. \A k \in 0 .. n :
        (IF k = 0 THEN x ELSE G[<<k, h[k - 1]>>]) = (IF k = 0 THEN x ELSE More(h[k - 1]))
  <2> SUFFICES ASSUME NEW k \in 0 .. n, k # 0 PROVE G[<<k, h[k - 1]>>] = More(h[k - 1])
    OBVIOUS
  <2>1. k - 1 \in 0 .. n
    BY <1>1
  <2>2. h[k - 1] \in S
    BY <1>5, <2>1
  <2> QED
    BY <1>4, <2>2
<1>8. IsBack(h)
  BY <1>6, <1>7 DEF IsBack, n, x, More
<1> DEFINE f == CHOOSE g : IsBack(g)
<1>9. IsBack(f)
  BY <1>8
<1>10. Exiting = f[n]
  BY DEF Exiting, IsBack, n
<1> HIDE DEF f
<1>11. f[0] = x /\ \A k \in 1 .. n : f[k] = More(f[k - 1])
  <2> DEFINE a(k) == More(f[k - 1])
  <2>1. f = [k \in 0 .. n |-> IF k = 0 THEN x ELSE a(k)]
    BY <1>9 DEF IsBack, n, x, More
  <2> HIDE DEF a
  <2>2. f[0] = x /\ \A k \in 1 .. n : f[k] = a(k)
    BY <1>1, <2>1
  <2> QED
    BY <2>2 DEF a
<1> DEFINE T == {k \in 0 .. n : ~(f[k] \subseteq Q)}
<1>12. T = {}
  <2> SUFFICES ASSUME T # {} PROVE FALSE
    OBVIOUS
  <2>1. PICK m \in T : \A j \in T : m <= j
    <3>1. T \in SUBSET Nat
      BY <1>1
    <3> HIDE DEF T
    <3> QED
      BY <3>1, LeastElement
  <2>2. m \in 0 .. n /\ m # 0
    BY <1>11, <2>1 DEF x
  <2>3. m \in 1 .. n /\ m - 1 \in 0 .. n /\ ~(m <= m - 1)
    BY <1>1, <2>2
  <2>4. m - 1 \notin T
    <3> HIDE DEF T
    <3> QED
      BY <2>1, <2>3
  <2>5. f[m - 1] \subseteq Q /\ f[m] = More(f[m - 1])
    BY <1>11, <2>3, <2>4
  <2>6. f[m] \subseteq Q
    BY <2>5 DEF More
  <2> QED
    BY <2>1, <2>6
<1>13. n \in 0 .. n
  BY <1>1
<1> QED
  BY <1>10, <1>12, <1>13

\* EffectsExact, for all words: the effects of a word all of whose paths agree
\* are those of its paths.
THEOREM EffectsAlwaysExact == Spec => []EffectsExact
<1>1. IInv /\ AllLevel /\ AllParams => EffectsExact
  <2> SUFFICES ASSUME IInv, AllLevel, AllParams,
                      outcome = "done", Balanced, ExitOnce, ExitBlock \in Reached
               PROVE  /\ \E s \in OnEntry[ExitBlock] :
                           LET last == After(ExitBlock, s)
                           IN  effects = [pops |-> last.params, pushes |-> last.size]
                      /\ reported = {}
                      /\ Reached \subseteq Exiting =>
                           \A n \in DOMAIN nodes :
                             nodes[n].back.type = "param" => nodes[n].back.index <= effects.pops
    BY DEF EffectsExact
  <2> DEFINE E == TheState
             x == ExitBlock
  <2>1. blocks \in Graphs /\ aligned.inputs \subseteq Blocks /\ DOMAIN nodes = 1 .. Len(nodes)
        /\ params[x] \in NodeList(nodes)
    <3>1. blocks \in Graphs
      BY DEF IInv, Types
    <3> QED
      BY <3>1, LastBlock, LenProperties DEF IInv, Types, Nodes
  <2>2. /\ Flow(blocks, E) /\ DOMAIN E = Reached
        /\ \A b \in Reached : b \in Blocks /\ OnEntry[b] = {E[b]}
    BY <2>1, BalancedFlow
  <2>3. Level(E)
    BY <2>2 DEF AllLevel
  <2> HIDE DEF E
  <2>4. /\ calls = <<>> /\ reported = {}
        /\ effects = [pops |-> TotalParams, pushes |-> Len(outputs[x])]
    BY <2>3 DEF Level, OutcomeLevel
  <2>5. \A b : ~Active(b) /\ ~IsLeft(b) /\ Closed(b)
    <3>1. Len(calls) = 0
      BY <2>4
    <3> QED
      BY <3>1 DEF Active, IsLeft, Closed
  <2>6. Reached \subseteq aligned.inputs \cup {1}
    <3> DEFINE A == aligned.inputs \cup {1}
    <3>1. \A b \in A : Range(To(blocks, b)) \subseteq aligned.inputs
      <4> SUFFICES ASSUME NEW b \in A PROVE Range(To(blocks, b)) \subseteq aligned.inputs
        OBVIOUS
      <4>1. b \in aligned.outputs \/ To(blocks, b) = <<>>
        BY <2>3, <2>5 DEF Level, SeenLevel
      <4>2. Range(<<>>) = {}
        BY DEF Range
      <4> QED
        BY <2>3, <4>1, <4>2 DEF Level, OutputsLevel
    <3>2. \A b \in Blocks : b \in A => Range(NextBBs(b)) \subseteq A
      BY <3>1 DEF To, NextBBs
    <3> HIDE DEF A
    <3>3. 1 \in A
      BY DEF A
    <3>4. Reached \subseteq A
      BY <2>1, <3>2, <3>3, ReachedCovered
    <3> QED
      BY <3>4 DEF A
  <2>7. IsEnd(E, x) /\ To(blocks, x) = <<>>
    BY <2>1, <2>2, LastBlock, ExitEntered DEF IsEnd, To, NextBBs, E
  <2>8. ~Awaited(x)
    BY <2>5, <2>6 DEF Awaited
  <2>9. Left(E, x)
    BY <2>2, <2>3, <2>5, <2>7, <2>8 DEF Level, EndsLevel
  <2>10. accumulated[x] = E[x]
    BY <2>3, <2>6 DEF Level, InputsLevel
  <2>11. effects = [pops |-> After(x, E[x]).params, pushes |-> After(x, E[x]).size]
    BY <2>4, <2>9, <2>10 DEF Left, After, TotalParams
  <2>12. \E s \in OnEntry[x] :
           LET last == After(x, s) IN effects = [pops |-> last.params, pushes |-> last.size]
    BY <2>2, <2>11
  <2>13. ASSUME Reached \subseteq Exiting, NEW n \in DOMAIN nodes, nodes[n].back.type = "param"
         PROVE  nodes[n].back.index <= effects.pops
    <3> DEFINE P == After(x, E[x]).params
               Q == {b \in Blocks : /\ b \in DOMAIN E => After(b, E[b]).params <= P
                                    /\ To(blocks, b) # <<>> \/ b = x}
    <3>1. x \in Blocks /\ x \in DOMAIN E /\ After(x, E[x]) \in State
      <4>1. x \in DOMAIN E
        BY <2>2
      <4>2. 0 \in 0 .. Len(blocks[x])
        BY <2>1, <2>2, <4>1, FlowProperties
      <4> QED
        BY <2>1, <2>2, <4>1, <4>2, AlongGrows
    <3>2. P \in Nat
      BY <3>1 DEF State
    <3> HIDE DEF P
    <3>3. x \in Q
      BY <3>1, <3>2 DEF P
    <3>4. ASSUME NEW b \in Blocks, Range(NextBBs(b)) \cap Q # {} PROVE b \in Q
      <4>1. PICK t \in Range(NextBBs(b)) : t \in Q
        BY <3>4
      <4>2. To(blocks, b) = NextBBs(b)
        BY DEF To, NextBBs
      <4>3. To(blocks, b) # <<>>
        BY <4>1, <4>2 DEF Range
      <4>4. ASSUME b \in DOMAIN E PROVE After(b, E[b]).params <= P
        <5>1. t \in DOMAIN E /\ E[t] = After(b, E[b])
          BY <2>2, <4>1, <4>2, <4>4 DEF Flow, After
        <5>2. 0 \in 0 .. Len(blocks[t]) /\ Along(blocks[t], E[t])[0] = E[t]
          BY <2>1, <2>2, <5>1, FlowProperties
        <5>3. E[t] \in State /\ After(t, E[t]) \in State /\ E[t].params <= After(t, E[t]).params
          BY <2>1, <2>2, <5>1, <5>2, AlongGrows
        <5>4. After(t, E[t]).params <= P
          BY <4>1, <5>1
        <5> DEFINE u == E[t].params
                   v == After(t, E[t]).params
        <5>5. u \in Nat /\ v \in Nat /\ u <= v /\ v <= P
          BY <5>3, <5>4 DEF State
        <5> HIDE DEF u, v
        <5>6. u <= P
          BY <3>2, <5>5
        <5> QED
          BY <5>1, <5>6 DEF u
      <4> QED
        BY <4>3, <4>4
    <3> HIDE DEF Q
    <3>5. Reached \subseteq Q
      BY <2>1, <2>13, <3>3, <3>4, ExitingCovered
    <3>6. TakesUpTo(E, P)
      BY <2>2, <2>7, <3>5 DEF Q, TakesUpTo, Once, IsEnd
    <3>7. ParamsUpTo(nodes, P)
      BY <2>2, <3>2, <3>6 DEF AllParams
    <3>8. effects.pops = P
      BY <2>11 DEF P
    <3> QED
      BY <2>1, <2>13, <3>7, <3>8 DEF ParamsUpTo, ReadsUpTo
  <2> QED
    BY <2>4, <2>12, <2>13
<1> QED
  BY <1>1, Invariant, LevelInvariant, ParamsInvariant, PTL

-----------------------------------------------------------------------------
(***************************************************************************)
(* Registers match. An element that a block passes on was pushed in it, so *)
(* the node before it is one of the block's own: no other block changes    *)
(* the register it is stored to, and as long as a branch has a successor   *)
(* of its own, every successor has the same.                               *)
(***************************************************************************)
\* The push nodes of block b.
PushNodes(ps, b) == UNION {Range(ps[b][i]) : i \in DOMAIN ps[b]}

PushedOnce(ps) ==
  \A b, c \in DOMAIN ps : b # c => PushNodes(ps, b) \cap PushNodes(ps, c) = {}

\* The elements of a list are no push nodes, and were pushed in the blocks S.
Elements(list, S, ps, ns) ==
  \A i \in 1 .. Len(list) :
    /\ \A c \in DOMAIN ps : list[i] \notin PushNodes(ps, c)
    /\ \E c \in S : ns[list[i]].prev \in PushNodes(ps, c)

\* They were pushed by different nodes.
Apart(list, ns) ==
  \A i, j \in 1 .. Len(list) : ns[list[i]].prev = ns[list[j]].prev => i = j

\* What a block has on its stack it found there, in ins, or pushed.
FoundOrPushed(list, ins, own, ns) ==
  \A i \in 1 .. Len(list) : list[i] \in Range(ins) \/ ns[list[i]].prev \in own

\* A list of elements as block b may have it, given those it found.
Stackable(list, b, g, outs, ps, ns) ==
  /\ Elements(list, outs \cup {b}, ps, ns)
  /\ To(g, b) # <<>> => Apart(list, ns)

\* A call that is not through with its block.
IsOpen(c, g) == c.at <= Len(g[c.block]) + 1

\* A call has a list of its own until its block has it.
CallMatches(c, g, outs, ps, ns, ins, os) ==
  IF IsOpen(c, g)
  THEN /\ Stackable(c.stack, c.block, g, outs, ps, ns)
       /\ FoundOrPushed(c.stack, ins[c.block], PushNodes(ps, c.block), ns)
  ELSE c.stack = os[c.block]

CallsMatch ==
  \A k \in 1 .. Len(calls) :
    /\ CallMatches(calls[k], blocks, aligned.outputs, pushes, nodes, inputs, outputs)
    /\ k < Len(calls) => calls[k].block \in aligned.outputs

OutputsMatch(E) ==
  \A b \in Blocks :
    /\ outputs[b] # <<>> => b \in DOMAIN E
    /\ Stackable(outputs[b], b, blocks, aligned.outputs, pushes, nodes)
    /\ Closed(b) => FoundOrPushed(outputs[b], inputs[b], PushNodes(pushes, b), nodes)

InputsMatch ==
  \A b \in Blocks : inputs[b] # <<>> =>
    \E p \in aligned.outputs : b \in Range(To(blocks, p)) /\ inputs[b] = outputs[p]

\* The elements of a list are stored to registers and read from them.
Fits(ns, regs, list) ==
  \A i \in 1 .. Len(list) :
    ns[list[i]].back = regs[i] /\ ns[ns[list[i]].prev].forth = regs[i]

EdgesMatch ==
  \A b \in aligned.outputs : \A t \in Range(To(blocks, b)) : Fits(nodes, initial[t], outputs[b])

\* No element is only passed on by a block that is done with.
PassesOn(b) == Range(inputs[b]) \cap Range(outputs[b]) # {}

NonePassed(E) ==
  /\ \A b \in aligned.outputs : ~PassesOn(b)
  /\ outcome = "done" /\ ExitBlock \in DOMAIN E => ~PassesOn(ExitBlock)

\* Of two successors, one has no other predecessor.
OwnsOne(g, E) ==
  \A b \in DOMAIN E :
    Len(To(g, b)) = 2 =>
      \E t \in Range(To(g, b)) : \A c \in DOMAIN E : t \in Range(To(g, c)) => c = b

Matches(E) ==
  PushedOnce(pushes) /\ CallsMatch /\ OutputsMatch(E) /\ InputsMatch /\ EdgesMatch

Matched(E) == OwnsOne(blocks, E) /\ NonePassed(E) => Matches(E)

\* What it is to be a push node of a block.
LEMMA PushNode ==
  ASSUME NEW ps, NEW b, NEW n
  PROVE  n \in PushNodes(ps, b) <=> \E i \in DOMAIN ps[b] : n \in Range(ps[b][i])
BY DEF PushNodes

\* A step of block d: it pushes new nodes only, and changes links of its own.
Confined(ms, ns, own) ==
  \A n \in 1 .. Len(ns) :
    /\ n \notin own => ms[n].prev = ns[n].prev /\ ms[n].forth = ns[n].forth
    /\ n \notin own /\ ns[n].prev \notin own => ms[n].back = ns[n].back

\* Block d has pushed nodes that were not there, no other block has.
PushesNew(qs, ps, ns, d) ==
  /\ DOMAIN qs = DOMAIN ps
  /\ \A c \in DOMAIN ps :
       /\ PushNodes(ps, c) = PushNodes(qs, c) \cap (1 .. Len(ns))
       /\ c # d => PushNodes(qs, c) = PushNodes(ps, c)

\* New nodes are push nodes of the block that pushes them only.
LEMMA PushedOnceStays ==
  ASSUME NEW ps, NEW qs, NEW ns, NEW d, PushedOnce(ps), PushesNew(qs, ps, ns, d)
  PROVE  PushedOnce(qs)
<1> SUFFICES ASSUME NEW b \in DOMAIN ps, NEW c \in DOMAIN ps, b # c,
                    NEW n \in PushNodes(qs, b), n \in PushNodes(qs, c)
             PROVE  FALSE
  BY DEF PushedOnce, PushesNew
<1>1. n \in PushNodes(ps, b) /\ n \in PushNodes(ps, c)
  BY DEF PushesNew
<1> QED
  BY <1>1 DEF PushedOnce

\* Elements stay what they are.
LEMMA ElementsStay ==
  ASSUME NEW ns, Nodes(ns), NEW list \in NodeList(ns), NEW ps, NEW qs, NEW ms, NEW d \in DOMAIN ps,
         PushesNew(qs, ps, ns, d), Confined(ms, ns, PushNodes(ps, d)),
         NEW S, S \subseteq DOMAIN ps, NEW T, S \subseteq T, Elements(list, S, ps, ns)
  PROVE  /\ Elements(list, T, qs, ms)
         /\ \A i \in 1 .. Len(list) : ms[list[i]].prev = ns[list[i]].prev
         /\ Apart(list, ns) => Apart(list, ms)
         /\ \A b \in DOMAIN ps : \A ins :
              FoundOrPushed(list, ins, PushNodes(ps, b), ns) =>
                FoundOrPushed(list, ins, PushNodes(qs, b), ms)
<1>1. \A i \in 1 .. Len(list) : list[i] \in 1 .. Len(ns)
  BY ElementOfSeq DEF NodeList
<1>2. \A c \in DOMAIN ps : \A n \in 1 .. Len(ns) : n \in PushNodes(qs, c) <=> n \in PushNodes(ps, c)
  BY DEF PushesNew
<1>3. \A i \in 1 .. Len(list) : ms[list[i]].prev = ns[list[i]].prev
  BY <1>1 DEF Confined, Elements
<1>4. \A i \in 1 .. Len(list) : \A c \in DOMAIN ps :
        ns[list[i]].prev \in PushNodes(ps, c) => ms[list[i]].prev \in PushNodes(qs, c)
  BY <1>3 DEF PushesNew
<1>5. Elements(list, T, qs, ms)
  <2>1. DOMAIN qs = DOMAIN ps
    BY DEF PushesNew
  <2>2. \A i \in 1 .. Len(list) : \A c \in DOMAIN qs : list[i] \notin PushNodes(qs, c)
    BY <1>1, <1>2, <2>1 DEF Elements
  <2>3. \A i \in 1 .. Len(list) : \E c \in T : ms[list[i]].prev \in PushNodes(qs, c)
    BY <1>4 DEF Elements
  <2> QED
    BY <2>2, <2>3 DEF Elements
<1>6. Apart(list, ns) => Apart(list, ms)
  BY <1>3 DEF Apart
<1>7. \A b \in DOMAIN ps : \A ins :
        FoundOrPushed(list, ins, PushNodes(ps, b), ns) =>
          FoundOrPushed(list, ins, PushNodes(qs, b), ms)
  BY <1>4 DEF FoundOrPushed
<1> QED
  BY <1>3, <1>5, <1>6, <1>7

\* Edges between other blocks keep their registers.
LEMMA FitsStays ==
  ASSUME NEW ns, NEW list \in NodeList(ns), NEW ps, NEW ms, NEW d \in DOMAIN ps,
         \A i \in 1 .. Len(list) : ns[list[i]].prev \in 1 .. Len(ns),
         PushedOnce(ps), Confined(ms, ns, PushNodes(ps, d)),
         NEW S, S \subseteq DOMAIN ps, d \notin S, Elements(list, S, ps, ns),
         NEW regs, Fits(ns, regs, list)
  PROVE  Fits(ms, regs, list)
<1> SUFFICES ASSUME NEW i \in 1 .. Len(list)
             PROVE  ms[list[i]].back = regs[i] /\ ms[ms[list[i]].prev].forth = regs[i]
  BY DEF Fits
<1> DEFINE n == list[i]
           own == PushNodes(ps, d)
<1>1. n \in 1 .. Len(ns) /\ ns[n].prev \in 1 .. Len(ns)
  BY ElementOfSeq DEF NodeList
<1>2. n \notin own
  BY DEF Elements
<1>3. PICK c \in S : ns[n].prev \in PushNodes(ps, c)
  BY DEF Elements
<1>4. ns[n].prev \notin own
  <2>1. c # d /\ c \in DOMAIN ps
    BY <1>3
  <2> QED
    BY <1>3, <2>1 DEF PushedOnce
<1>5. ns[n].back = regs[i] /\ ns[ns[n].prev].forth = regs[i]
  BY DEF Fits
<1> HIDE DEF n, own
<1>6. ms[n].prev = ns[n].prev /\ ms[n].back = ns[n].back
      /\ ms[ns[n].prev].forth = ns[ns[n].prev].forth
  BY <1>1, <1>2, <1>4 DEF Confined, own
<1> QED
  BY <1>5, <1>6 DEF n

\* New registers for the edges of a list change nothing else, and all of them if
\* its elements are different.
LEMMA RedefinedLinks ==
  ASSUME NEW ns, Nodes(ns), NEW list \in NodeList(ns), NEW regs,
         \A i \in 1 .. Len(list) : regs[i] \in Registers /\ ns[list[i]].prev # 0
  PROVE  LET ms == Redefine(ns, list, regs)
         IN  /\ \A n \in 1 .. Len(ns) :
                  /\ ms[n].prev = ns[n].prev
                  /\ n \notin Range(list) => ms[n].back = ns[n].back
                  /\ (\A i \in 1 .. Len(list) : ns[list[i]].prev # n) => ms[n].forth = ns[n].forth
             /\ Distinct(list) /\ Apart(list, ns) => Fits(ms, regs, list)
<1> DEFINE m == Len(list)
           prevs == [i \in 1 .. m |-> ns[list[i]].prev]
           ls == Link(ns, prevs, list, regs)
           ms == LinkBoth(ns, prevs, list, regs)
<1>1. /\ m \in Nat /\ DOMAIN list = 1 .. m
      /\ Len(ns) \in Nat /\ DOMAIN ns = 1 .. Len(ns)
      /\ \A i \in 1 .. m : list[i] \in 1 .. Len(ns)
      /\ \A i \in 1 .. m : ns[list[i]].prev \in 1 .. Len(ns)
  <2>1. /\ m \in Nat /\ DOMAIN list = 1 .. m
        /\ Len(ns) \in Nat /\ DOMAIN ns = 1 .. Len(ns)
        /\ \A i \in 1 .. m : list[i] \in 1 .. Len(ns)
    BY LenProperties, ElementOfSeq DEF NodeList, Nodes
  <2> QED
    BY <2>1 DEF Nodes
<1>2. Redefine(ns, list, regs) = ms
  BY <1>1 DEF Redefine
<1>3. prevs \in Seq(1 .. Len(ns)) /\ Len(prevs) = m /\ DOMAIN prevs = 1 .. m
      /\ \A i \in 1 .. m : prevs[i] = ns[list[i]].prev
  <2>1. \A i \in 1 .. m : prevs[i] \in 1 .. Len(ns)
    BY <1>1
  <2> QED
    BY <1>1, <2>1, Listed
<1>4. /\ ls = [n \in 1 .. Len(ns) |->
                 IF n \notin Range(list) THEN ns[n]
                 ELSE [ns[n] EXCEPT !.prev = prevs[LastAt(list, n)], !.back = regs[LastAt(list, n)]]]
      /\ ms = [n \in 1 .. Len(ns) |->
                 IF n \notin Range(prevs) THEN ls[n]
                 ELSE [ls[n] EXCEPT !.forth = regs[LastAt(prevs, n)]]]
  BY <1>1 DEF Link, LinkBoth
<1>5. \A n \in 1 .. Len(ns) : ns[n] \in Node
  BY <1>1, ElementOfSeq DEF Nodes
<1>6. \A n \in 1 .. Len(ns) : n \in Range(list) =>
        LastAt(list, n) \in 1 .. m /\ list[LastAt(list, n)] = n
  BY LastAtProperties DEF NodeList
<1>7. \A n \in 1 .. Len(ns) : n \in Range(prevs) =>
        LastAt(prevs, n) \in 1 .. m /\ prevs[LastAt(prevs, n)] = n
  <2> DEFINE S == 1 .. Len(ns)
             ps == prevs
  <2>1. ps \in Seq(S) /\ Len(ps) = m
    BY <1>3
  <2> HIDE DEF ps, S
  <2>2. \A n \in Range(ps) : LastAt(ps, n) \in 1 .. m /\ ps[LastAt(ps, n)] = n
    BY <2>1, LastAtProperties
  <2> QED
    BY <2>2 DEF ps
<1> HIDE DEF prevs, ls, ms
<1>8. \A n \in 1 .. Len(ns) :
        /\ ls[n] \in Node
        /\ n \notin Range(list) => ls[n] = ns[n]
        /\ n \in Range(list) => ls[n].prev = ns[n].prev /\ ls[n].forth = ns[n].forth
                                /\ ls[n].back = regs[LastAt(list, n)]
  <2> SUFFICES ASSUME NEW n \in 1 .. Len(ns), n \in Range(list)
               PROVE  /\ ls[n] \in Node /\ ls[n].prev = ns[n].prev /\ ls[n].forth = ns[n].forth
                      /\ ls[n].back = regs[LastAt(list, n)]
    BY <1>4, <1>5
  <2> DEFINE i == LastAt(list, n)
  <2>1. i \in 1 .. m /\ list[i] = n
    BY <1>6
  <2>2. ls[n] = [ns[n] EXCEPT !.prev = prevs[i], !.back = regs[i]]
    BY <1>4
  <2> HIDE DEF i
  <2>3. prevs[i] = ns[n].prev /\ regs[i] \in Registers
    BY <1>3, <2>1
  <2>4. ns[n] \in Node
    BY <1>5
  <2>5. ls[n] \in Node /\ ls[n].prev = ns[n].prev /\ ls[n].forth = ns[n].forth /\ ls[n].back = regs[i]
    BY <2>2, <2>3, <2>4 DEF Node
  <2> QED
    BY <2>5 DEF i
<1>9. \A n \in 1 .. Len(ns) :
        /\ n \notin Range(prevs) => ms[n] = ls[n]
        /\ n \in Range(prevs) => ms[n].prev = ls[n].prev /\ ms[n].back = ls[n].back
                                 /\ ms[n].forth = regs[LastAt(prevs, n)]
  BY ZenonT(30), <1>4, <1>8 DEF Node
<1>10. \A n \in 1 .. Len(ns) :
         n \in Range(prevs) => \E i \in 1 .. m : ns[list[i]].prev = n
  BY <1>3, <1>7
<1>11. ASSUME Distinct(list), Apart(list, ns), NEW i \in 1 .. m
       PROVE  ms[list[i]].back = regs[i] /\ ms[ms[list[i]].prev].forth = regs[i]
  <2> DEFINE n == list[i]
             p == ns[n].prev
  <2>1. n \in 1 .. Len(ns) /\ p \in 1 .. Len(ns)
    BY <1>1
  <2>2. n \in Range(list) /\ p \in Range(prevs)
    <3>1. i \in DOMAIN list /\ i \in DOMAIN prevs /\ prevs[i] = p
      BY <1>1, <1>3
    <3> QED
      BY <3>1 DEF Range
  <2>3. LastAt(list, n) = i
    BY <1>6, <1>11, <2>1, <2>2 DEF Distinct
  <2>4. LastAt(prevs, p) = i
    <3>1. LastAt(prevs, p) \in 1 .. m /\ prevs[LastAt(prevs, p)] = p
      BY <1>7, <2>1, <2>2
    <3>2. ns[list[LastAt(prevs, p)]].prev = ns[list[i]].prev
      BY <1>3, <3>1
    <3> QED
      BY <1>11, <3>1, <3>2 DEF Apart
  <2>5. ms[n].back = regs[i] /\ ms[n].prev = p
    BY <1>8, <1>9, <2>1, <2>2, <2>3
  <2>6. ms[p].forth = regs[i]
    BY <1>9, <2>1, <2>2, <2>4
  <2> QED
    BY <2>5, <2>6
<1> QED
  BY <1>2, <1>8, <1>9, <1>10, <1>11 DEF Fits

\* Redefining edges changes links of the elements and the nodes before them only.
LEMMA RedefinedConfined ==
  ASSUME NEW ns, Nodes(ns), NEW list \in NodeList(ns), NEW regs,
         \A i \in 1 .. Len(list) : regs[i] \in Registers /\ ns[list[i]].prev # 0,
         NEW own, \A i \in 1 .. Len(list) : ns[list[i]].prev \in own
  PROVE  Confined(Redefine(ns, list, regs), ns, own)
<1> DEFINE ms == Redefine(ns, list, regs)
<1>1. \A n \in 1 .. Len(ns) :
        /\ ms[n].prev = ns[n].prev
        /\ n \notin Range(list) => ms[n].back = ns[n].back
        /\ (\A i \in 1 .. Len(list) : ns[list[i]].prev # n) => ms[n].forth = ns[n].forth
  BY RedefinedLinks, ZenonT(40)
<1>2. DOMAIN list = 1 .. Len(list)
  BY LenProperties DEF NodeList
<1> HIDE DEF ms
<1>3. \A n \in 1 .. Len(ns) : ns[n].prev \notin own => n \notin Range(list)
  BY <1>2 DEF Range
<1>4. \A n \in 1 .. Len(ns) : n \notin own => ms[n].forth = ns[n].forth
  BY <1>1
<1>5. Confined(ms, ns, own)
  BY <1>1, <1>3, <1>4 DEF Confined
<1> QED
  BY <1>5 DEF ms

\* Links of other nodes.
LEMMA LinkOutside ==
  ASSUME NEW ns, NEW prevs, NEW list, NEW regs, NEW n \in DOMAIN ns, n \notin Range(list)
  PROVE  /\ Link(ns, prevs, list, regs)[n] = ns[n]
         /\ n \notin Range(prevs) => LinkBoth(ns, prevs, list, regs)[n] = ns[n]
<1>1. DOMAIN Link(ns, prevs, list, regs) = DOMAIN ns /\ Link(ns, prevs, list, regs)[n] = ns[n]
  BY DEF Link
<1> QED
  BY <1>1 DEF LinkBoth

\* New nodes of a list, when there are k already.
Above(list, k) == \A n \in Range(list) : n \notin 1 .. k

\* The nodes WithNew appends are new.
LEMMA NewTopsAbove ==
  ASSUME NEW ns, Nodes(ns), NEW k \in Nat, k <= Len(ns), NEW m \in Nat
  PROVE  Above(NewTops(ns, m), k)
<1>1. Len(ns) \in Nat
  BY LenProperties DEF Nodes
<1> QED
  BY <1>1 DEF Above, Range, NewTops

\* Popping changes no node there is.
LEMMA PoppingKeeps ==
  ASSUME Nodes(nodes), Stack \in NodeList(nodes), NEW n \in Nat
  PROVE  \A x \in 1 .. Len(nodes) : Popping(n).nodes[x] = nodes[x]
<1> DEFINE k       == Min({n, Len(Stack)})
           m       == n - k
           created == NewTops(nodes, m)
           one     == WithNew(nodes, m)
           sinks   == NewTops(one, m)
           two     == WithNew(nodes, 2 * m)
           regs    == [i \in 1 .. m |-> Param(Frame.taken + i)]
<1>1. Len(nodes) \in Nat /\ Len(Stack) \in Nat
  BY LenProperties DEF Nodes, NodeList
<1>2. k \in Nat /\ k <= n
  <2>1. \E x \in {n, Len(Stack)} : \A y \in {n, Len(Stack)} : x <= y
    BY <1>1
  <2>2. k \in {n, Len(Stack)} /\ \A y \in {n, Len(Stack)} : k <= y
    BY <2>1, Zenon DEF Min
  <2> QED
    BY <1>1, <2>2
<1>3. Popping(n).nodes = LinkBoth(two, created, sinks, regs)
  BY DEF Popping
<1> HIDE DEF k
<1>4. m \in Nat /\ 2 * m \in Nat
  BY <1>2
<1> HIDE DEF m
<1>5. /\ Nodes(one) /\ Len(one) = Len(nodes) + m
      /\ Nodes(two) /\ Len(two) = Len(nodes) + 2 * m
      /\ \A x \in 1 .. Len(nodes) : two[x] = nodes[x]
  BY <1>4, NewNodes
<1>6. Above(created, Len(nodes)) /\ Above(sinks, Len(nodes))
  <2>1. Len(nodes) <= Len(nodes) /\ Len(nodes) <= Len(one)
    BY <1>1, <1>4, <1>5
  <2> QED
    BY <1>1, <1>4, <1>5, <2>1, NewTopsAbove
<1>7. DOMAIN two = 1 .. Len(two) /\ 1 .. Len(nodes) \subseteq DOMAIN two
  <2>1. DOMAIN two = 1 .. Len(two)
    BY <1>5, LenProperties DEF Nodes
  <2>2. Len(nodes) <= Len(two) /\ Len(two) \in Nat
    BY <1>1, <1>4, <1>5
  <2> QED
    BY <1>1, <2>1, <2>2
<1> HIDE DEF created, sinks, one, two, regs
<1> QED
  BY <1>3, <1>5, <1>6, <1>7, LinkOutside DEF Above

\* Taking over registers changes push nodes only.
LEMMA PairedKeeps ==
  ASSUME NEW p, NEW pushed, Nodes(p.nodes), IsLinked(Cell0),
         pushed \in NodeList(WithNew(p.nodes, Effect(Cell0).pushes)),
         Effect(Cell0).pushes <= Len(pushed)
  PROVE  \A x \in 1 .. Len(p.nodes) : x \notin Range(pushed) => Paired(p, pushed)[x] = p.nodes[x]
<1> DEFINE ns    == p.nodes
           k     == Effect(Cell0).pushes
           ws    == WithNew(ns, k)
           oi    == OutIn(Cell0)
           prevs == [i \in DOMAIN oi |-> p.popped[oi[i]]]
           list  == [i \in DOMAIN oi |-> pushed[i]]
           regs  == [i \in DOMAIN oi |-> ns[p.popped[oi[i]]].back]
<1>1. k \in Nat /\ Len(ns) \in Nat /\ Len(pushed) \in Nat /\ DOMAIN pushed = 1 .. Len(pushed)
  BY EffectType, LenProperties DEF Nodes, NodeList
<1>2. PICK m \in Nat : DOMAIN oi = 1 .. m /\ m <= k
  BY OutInType
<1>3. /\ Nodes(ws) /\ Len(ws) = Len(ns) + k
      /\ \A x \in 1 .. Len(ns) : ws[x] = ns[x]
  BY <1>1, NewNodes
<1>4. Range(list) \subseteq Range(pushed)
  <2>1. DOMAIN list \subseteq DOMAIN pushed
    BY <1>1, <1>2
  <2> QED
    BY <2>1 DEF Range
<1>5. 1 .. Len(ns) \subseteq DOMAIN ws
  <2>1. DOMAIN ws = 1 .. Len(ws)
    BY <1>3, LenProperties DEF Nodes
  <2> HIDE DEF ws, ns
  <2> QED
    BY <1>1, <1>3, <2>1
<1>6. Paired(p, pushed) = Link(ws, prevs, list, regs)
  BY DEF Paired
<1> HIDE DEF ns, ws, prevs, list, regs
<1>7. \A x \in 1 .. Len(ns) : x \notin Range(pushed) => Paired(p, pushed)[x] = ns[x]
  BY <1>3, <1>4, <1>5, <1>6, LinkOutside
<1> QED
  BY <1>7 DEF ns

\* The new elements come from the nodes pushed; no other node changes.
ComeFrom(tops, pushed, ms, ns) ==
  /\ \A x \in 1 .. Len(ns) : x \notin Range(pushed) => ms[x] = ns[x]
  /\ Len(tops) = Len(pushed)
  /\ \A i \in 1 .. Len(pushed) : tops[i] \notin 1 .. Len(ns) /\ ms[tops[i]].prev = pushed[i]

\* What is pushed comes before the new tops of the stack.
LEMMA TopsKeep ==
  ASSUME NEW ns, Nodes(ns), NEW pushed \in NodeList(ns), NEW regs,
         \A i \in 1 .. Len(pushed) : regs[i] \in Registers
  PROVE  ComeFrom(NewTops(ns, Len(pushed)), pushed, LinkTops(ns, pushed, regs), ns)
<1> DEFINE m    == Len(pushed)
           ws   == WithNew(ns, m)
           tops == NewTops(ns, m)
           ms   == LinkTops(ns, pushed, regs)
<1>1. Len(ns) \in Nat /\ m \in Nat /\ DOMAIN pushed = 1 .. m
  BY LenProperties DEF Nodes, NodeList
<1>2. /\ Nodes(ws) /\ Len(ws) = Len(ns) + m
      /\ \A n \in 1 .. Len(ns) : ws[n] = ns[n]
  BY <1>1, NewNodes
<1>3. /\ tops \in NodeList(ws) /\ Len(tops) = m /\ Distinct(tops)
      /\ \A i \in 1 .. m : tops[i] = Len(ns) + i
  <2>1. Len(ns) + m <= Len(ws) /\ Len(ws) \in Nat
    BY <1>1, <1>2
  <2> QED
    BY <1>1, <2>1, NewTopsProperties DEF NodeList
<1>4. pushed \in Seq(0 .. Len(ws))
  <2>1. 1 .. Len(ns) \subseteq 0 .. Len(ws)
    BY <1>1, <1>2
  <2> QED
    BY <2>1, SeqMonotonic DEF NodeList
<1>5. 1 .. Len(ns) \subseteq DOMAIN ws
  <2>1. DOMAIN ws = 1 .. Len(ws)
    BY <1>2, LenProperties DEF Nodes
  <2> HIDE DEF ws
  <2> QED
    BY <1>1, <1>2, <2>1
<1>6. ms = LinkBoth(ws, pushed, tops, regs)
  BY DEF LinkTops
<1>7. Above(tops, Len(ns))
  <2>1. Len(ns) <= Len(ns)
    BY <1>1
  <2> QED
    BY <1>1, <2>1, NewTopsAbove
<1> HIDE DEF m, ws, tops, ms
<1>8. IsLink(ms, ws, pushed, tops, regs)
  BY <1>2, <1>3, <1>4, <1>6, LinkedBoth DEF m
<1>9. \A x \in 1 .. Len(ns) : x \notin Range(pushed) => ms[x] = ns[x]
  BY <1>2, <1>5, <1>6, <1>7, LinkOutside DEF Above
<1>10. ASSUME NEW i \in 1 .. m PROVE tops[i] \notin 1 .. Len(ns) /\ ms[tops[i]].prev = pushed[i]
  <2>1. tops[i] \in Range(tops) /\ tops[i] \in 1 .. Len(ws)
    <3>1. i \in DOMAIN tops
      BY <1>3, LenProperties DEF NodeList
    <3> QED
      BY <3>1, <1>3, ElementOfSeq DEF Range, NodeList
  <2>2. PICK j \in 1 .. m : tops[j] = tops[i] /\ ms[tops[i]].prev = pushed[j]
    BY <2>1, <1>3, <1>8 DEF IsLink
  <2>3. j = i
    BY <2>2, <1>3 DEF Distinct
  <2> QED
    BY <2>1, <2>2, <2>3, <1>7 DEF Above
<1> QED
  BY <1>3, <1>9, <1>10 DEF ComeFrom, m, tops, ms

\* The push nodes are nodes there are; those of one instruction change.
LEMMA PushNodesRange ==
  ASSUME NEW ps, NEW bl, NEW ns, NodesOfInstructions(ps, bl, ns), NEW b \in DOMAIN bl
  PROVE  PushNodes(ps, b) \subseteq 1 .. Len(ns)
<1> SUFFICES ASSUME NEW n \in PushNodes(ps, b) PROVE n \in 1 .. Len(ns)
  OBVIOUS
<1>1. PICK i \in DOMAIN ps[b] : n \in Range(ps[b][i])
  BY PushNode
<1>2. ps[b][i] \in Seq(1 .. Len(ns))
  BY DEF NodesOfInstructions, NodeList
<1>3. PICK j \in DOMAIN ps[b][i] : n = ps[b][i][j]
  BY <1>1 DEF Range
<1> QED
  BY <1>2, <1>3, ElementOfSeq, LenProperties

\* A step that pushes nothing.
LEMMA SamePushes ==
  ASSUME NEW ps, NEW bl, NEW ns, NodesOfInstructions(ps, bl, ns), NEW d
  PROVE  PushesNew(ps, ps, ns, d)
<1>1. DOMAIN ps = DOMAIN bl
  BY DEF NodesOfInstructions
<1>2. \A c \in DOMAIN ps : PushNodes(ps, c) \subseteq 1 .. Len(ns)
  BY <1>1, PushNodesRange
<1> QED
  BY <1>2 DEF PushesNew

\* A step that pushes new nodes for one instruction.
LEMMA MorePushes ==
  ASSUME NEW ps, NEW bl, NEW ns, NodesOfInstructions(ps, bl, ns), NEW b \in DOMAIN bl,
         NEW i \in DOMAIN bl[b], NEW qs, NEW new,
         DOMAIN qs = DOMAIN ps, \A c \in DOMAIN ps : c # b => qs[c] = ps[c],
         DOMAIN qs[b] = DOMAIN ps[b], \A j \in DOMAIN ps[b] : j # i => qs[b][j] = ps[b][j],
         qs[b][i] = new,
         Range(ps[b][i]) = Range(new) \cap (1 .. Len(ns))
  PROVE  /\ PushesNew(qs, ps, ns, b)
         /\ Range(new) \subseteq PushNodes(qs, b)
         /\ \A c \in DOMAIN ps : PushNodes(qs, c) \subseteq (1 .. Len(ns)) \cup Range(new)
<1>1. DOMAIN ps = DOMAIN bl /\ DOMAIN ps[b] = DOMAIN bl[b]
  BY DEF NodesOfInstructions
<1>2. \A c \in DOMAIN ps : c # b => PushNodes(qs, c) = PushNodes(ps, c)
  BY DEF PushNodes
<1>3. \A c \in DOMAIN ps : PushNodes(ps, c) \subseteq 1 .. Len(ns)
  BY <1>1, PushNodesRange
<1>4. \A n : n \in PushNodes(qs, b) <=> n \in Range(new) \/ \E j \in DOMAIN ps[b] : j # i /\ n \in Range(ps[b][j])
  BY <1>1, PushNode
<1>5. \A n : n \in PushNodes(ps, b) <=> n \in Range(ps[b][i]) \/ \E j \in DOMAIN ps[b] : j # i /\ n \in Range(ps[b][j])
  BY <1>1, PushNode
<1>6. \A n : n \in PushNodes(ps, b) <=> n \in PushNodes(qs, b) /\ n \in 1 .. Len(ns)
  BY <1>1, <1>3, <1>4, <1>5
<1>7. \A n : n \in PushNodes(qs, b) => n \in 1 .. Len(ns) \/ n \in Range(new)
  BY <1>1, <1>3, <1>4, <1>5
<1>8. \A c \in DOMAIN ps : PushNodes(ps, c) = PushNodes(qs, c) \cap (1 .. Len(ns))
  <2> SUFFICES ASSUME NEW c \in DOMAIN ps PROVE PushNodes(ps, c) = PushNodes(qs, c) \cap (1 .. Len(ns))
    OBVIOUS
  <2>1. CASE c = b
    BY <1>6, <2>1
  <2>2. CASE c # b
    BY <1>2, <1>3, <2>2
  <2> QED
    BY <2>1, <2>2
<1>9. \A c \in DOMAIN ps : PushNodes(qs, c) \subseteq (1 .. Len(ns)) \cup Range(new)
  <2> SUFFICES ASSUME NEW c \in DOMAIN ps, NEW n \in PushNodes(qs, c)
               PROVE  n \in 1 .. Len(ns) \/ n \in Range(new)
    OBVIOUS
  <2>1. CASE c = b
    BY <1>7, <2>1
  <2>2. CASE c # b
    BY <1>2, <1>3, <2>2
  <2> QED
    BY <2>1, <2>2
<1> QED
  BY <1>2, <1>4, <1>8, <1>9 DEF PushesNew

\* A step of a block that is not done with.
StepOf(d) ==
  /\ d \in Blocks /\ d \notin aligned.outputs
  /\ PushesNew(pushes', pushes, nodes, d) /\ Confined(nodes', nodes, PushNodes(pushes, d))
  /\ aligned.outputs \subseteq aligned'.outputs /\ UNCHANGED blocks

\* What holds of the blocks done with now held of them before.
LEMMA PassedBefore ==
  ASSUME NEW E, NonePassed(E)', outcome # "done", aligned.outputs \subseteq aligned'.outputs,
         \A b \in aligned.outputs : inputs'[b] = inputs[b] /\ outputs'[b] = outputs[b]
  PROVE  NonePassed(E)
<1> SUFFICES ASSUME NEW b \in aligned.outputs PROVE ~PassesOn(b)
  BY DEF NonePassed
<1>1. \A c \in aligned'.outputs : Range(inputs'[c]) \cap Range(outputs'[c]) = {}
  BY DEF NonePassed, PassesOn
<1> QED
  BY <1>1 DEF PassesOn

\* What a list was, it stays.
LEMMA ListStays ==
  ASSUME Types, PushedOnce(pushes), NEW d, StepOf(d),
         NEW b \in Blocks, NEW list \in NodeList(nodes),
         Stackable(list, b, blocks, aligned.outputs, pushes, nodes)
  PROVE  /\ Stackable(list, b, blocks, aligned'.outputs, pushes', nodes')
         /\ \A i \in 1 .. Len(list) :
              /\ nodes[list[i]].prev \in 1 .. Len(nodes)
              /\ nodes'[list[i]].prev = nodes[list[i]].prev
         /\ \A ins : FoundOrPushed(list, ins, PushNodes(pushes, b), nodes) =>
                     FoundOrPushed(list, ins, PushNodes(pushes', b), nodes')
         /\ b \in aligned.outputs =>
              \A regs : Fits(nodes, regs, list) => Fits(nodes', regs, list)
<1> DEFINE S == aligned.outputs \cup {b}
           T == aligned'.outputs \cup {b}
<1>1. /\ Nodes(nodes) /\ d \in DOMAIN pushes /\ b \in DOMAIN pushes /\ S \subseteq DOMAIN pushes
      /\ NodesOfInstructions(pushes, blocks, nodes) /\ DOMAIN pushes = Blocks
  BY DEF Types, NodesOfInstructions, StepOf, Blocks
<1>2. S \subseteq T /\ Elements(list, S, pushes, nodes)
  BY DEF StepOf, Stackable
<1>3. PushesNew(pushes', pushes, nodes, d) /\ Confined(nodes', nodes, PushNodes(pushes, d))
  BY DEF StepOf
<1> HIDE DEF S, T
<1>4. /\ Elements(list, T, pushes', nodes')
      /\ \A i \in 1 .. Len(list) : nodes'[list[i]].prev = nodes[list[i]].prev
      /\ Apart(list, nodes) => Apart(list, nodes')
      /\ \A c \in DOMAIN pushes : \A ins :
           FoundOrPushed(list, ins, PushNodes(pushes, c), nodes) =>
             FoundOrPushed(list, ins, PushNodes(pushes', c), nodes')
  <2> DEFINE ms == nodes'
             qs == pushes'
  <2>1. PushesNew(qs, pushes, nodes, d) /\ Confined(ms, nodes, PushNodes(pushes, d))
    BY <1>3
  <2> HIDE DEF ms, qs
  <2>2. /\ Elements(list, T, qs, ms)
        /\ \A i \in 1 .. Len(list) : ms[list[i]].prev = nodes[list[i]].prev
        /\ Apart(list, nodes) => Apart(list, ms)
        /\ \A c \in DOMAIN pushes : \A ins :
             FoundOrPushed(list, ins, PushNodes(pushes, c), nodes) =>
               FoundOrPushed(list, ins, PushNodes(qs, c), ms)
    BY <1>1, <1>2, <2>1, ElementsStay
  <2> QED
    BY <2>2 DEF ms, qs
<1>5. \A i \in 1 .. Len(list) : nodes[list[i]].prev \in 1 .. Len(nodes)
  <2>1. \A c \in S : PushNodes(pushes, c) \subseteq 1 .. Len(nodes)
    BY <1>1, PushNodesRange DEF Blocks
  <2> QED
    BY <1>2, <2>1 DEF Elements
<1>6. ASSUME b \in aligned.outputs, NEW regs, Fits(nodes, regs, list) PROVE Fits(nodes', regs, list)
  <2> DEFINE ms == nodes'
  <2>1. Confined(ms, nodes, PushNodes(pushes, d)) /\ d \notin S
    BY <1>3, <1>6 DEF StepOf, S
  <2> HIDE DEF ms
  <2>2. Fits(ms, regs, list)
    BY <1>1, <1>2, <1>5, <1>6, <2>1, FitsStays
  <2> QED
    BY <2>2 DEF ms
<1>7. Stackable(list, b, blocks, aligned'.outputs, pushes', nodes')
  BY <1>4 DEF Stackable, T
<1>8. \A ins : FoundOrPushed(list, ins, PushNodes(pushes, b), nodes) =>
               FoundOrPushed(list, ins, PushNodes(pushes', b), nodes')
  BY <1>1, <1>4, Zenon
<1>9. b \in aligned.outputs => \A regs : Fits(nodes, regs, list) => Fits(nodes', regs, list)
  BY <1>6, Zenon
<1> QED
  BY <1>4, <1>5, <1>7, <1>8, <1>9, Zenon

\* An instruction keeps the first r elements of the stack and pushes others,
\* which come from new nodes unless the block was graphed before.
LEMMA InstructionMatched ==
  ASSUME IInv, Graphing, NEW E, Flow(blocks, E), Level(E), Matched(E),
         NEW stack, NEW taken, Step(stack, taken),
         UNCHANGED <<blocks, inputs, outputs, initial, aligned, outcome>>,
         PushesNew(pushes', pushes, nodes, B), Confined(nodes', nodes, PushNodes(pushes, B)),
         NEW r, \A i \in 1 .. Len(stack) : i <= r => i \in 1 .. Len(Stack) /\ stack[i] = Stack[i],
         \A i \in 1 .. Len(stack) : ~(i <= r) =>
           /\ \A c \in Blocks : stack[i] \notin PushNodes(pushes', c)
           /\ nodes'[stack[i]].prev \in PushNodes(pushes', B),
         To(blocks, B) # <<>> =>
           \A i, j \in 1 .. Len(stack) : ~(i <= r) /\ ~(j <= r) =>
             /\ nodes'[stack[i]].prev \notin 1 .. Len(nodes)
             /\ nodes'[stack[i]].prev = nodes'[stack[j]].prev => i = j
  PROVE  Matched(E)'
<1> DEFINE n == Len(calls)
           c == Moved(stack, taken, Frame.left)
<1>1. /\ Types /\ Running /\ B \in Blocks /\ calls # <<>>
      /\ IsStack(Stack, nodes) /\ Frame.at \in DOMAIN Body /\ Stack \in NodeList(nodes)
      /\ ActiveCalls(calls, blocks, nodes, aligned.outputs)
      /\ Open(Frame, blocks, aligned.outputs)
  BY FrameProperties, CellProperties DEF IInv, Graphing, IsStack
<1>2. Len(Body) \in Nat /\ Frame.at \in 1 .. Len(Body) /\ Frame.at \in Nat
  BY <1>1, BlockProperties DEF Types, Body
<1>3. n \in Nat /\ 1 <= n /\ Frame = calls[n] /\ n \in 1 .. n
  BY <1>1, TopLevel
<1>4. /\ Len(calls') = n
      /\ \A k \in 1 .. n : calls'[k] = IF k = n THEN c ELSE calls[k]
  <2>1. calls' = ReplaceTop(calls, c)
    BY DEF Step, ReplaceTop
  <2> HIDE DEF c
  <2> QED
    BY <1>1, <2>1, ReplacedCalls
<1>5. /\ c.block = B /\ c.stack = stack /\ c.at = Frame.at + 1 /\ Frame.block = B
      /\ Frame.stack = Stack
  BY DEF Moved, B, Stack
<1> HIDE DEF c
<1>6. IsOpen(c, blocks) /\ IsOpen(Frame, blocks)
  <2>1. c.at <= Len(Body) + 1 /\ Frame.at <= Len(Body) + 1
    BY <1>2, <1>5
  <2> QED
    BY <1>5, <2>1 DEF IsOpen, Body
<1>7. StepOf(B)
  BY <1>1, <1>5, <1>6 DEF StepOf, Open, IsOpen
<1> SUFFICES ASSUME OwnsOne(blocks, E)', NonePassed(E)' PROVE Matches(E)'
  BY DEF Matched
<1>8. Matches(E)
  <2>1. OwnsOne(blocks, E)
    OBVIOUS
  <2>2. NonePassed(E)
    BY <1>1, PassedBefore DEF Running
  <2> QED
    BY <2>1, <2>2 DEF Matched
<1>9. PushedOnce(pushes) /\ PushedOnce(pushes')
  BY <1>8, PushedOnceStays DEF Matches
<1>10. /\ Stackable(Stack, B, blocks, aligned.outputs, pushes, nodes)
       /\ FoundOrPushed(Stack, inputs[B], PushNodes(pushes, B), nodes)
  BY <1>3, <1>5, <1>6, <1>8 DEF Matches, CallsMatch, CallMatches
<1>11. /\ Stackable(Stack, B, blocks, aligned'.outputs, pushes', nodes')
       /\ \A i \in 1 .. Len(Stack) : nodes'[Stack[i]].prev \in 1 .. Len(nodes)
       /\ FoundOrPushed(Stack, inputs[B], PushNodes(pushes', B), nodes')
  BY <1>1, <1>7, <1>9, <1>10, ListStays
<1>12. Stackable(stack, B, blocks, aligned'.outputs, pushes', nodes')
  <2>1. DOMAIN pushes' = Blocks
    BY <1>1 DEF Types, NodesOfInstructions, Blocks, PushesNew
  <2>2. Elements(stack, aligned'.outputs \cup {B}, pushes', nodes')
    <3> SUFFICES ASSUME NEW i \in 1 .. Len(stack)
                 PROVE  /\ \A b \in Blocks : stack[i] \notin PushNodes(pushes', b)
                        /\ \E b \in aligned'.outputs \cup {B} :
                             nodes'[stack[i]].prev \in PushNodes(pushes', b)
      BY <2>1 DEF Elements
    <3>1. CASE i <= r
      BY <1>11, <2>1, <3>1 DEF Stackable, Elements
    <3>2. CASE ~(i <= r)
      BY <3>2
    <3> QED
      BY <3>1, <3>2
  <2>3. ASSUME To(blocks, B) # <<>> PROVE Apart(stack, nodes')
    <3> SUFFICES ASSUME NEW i \in 1 .. Len(stack), NEW j \in 1 .. Len(stack),
                        nodes'[stack[i]].prev = nodes'[stack[j]].prev
                 PROVE  i = j
      BY DEF Apart
    <3>1. Apart(Stack, nodes')
      BY <1>11, <2>3 DEF Stackable
    <3>2. CASE i <= r /\ j <= r
      BY <3>1, <3>2 DEF Apart
    <3>3. CASE ~(i <= r) /\ ~(j <= r)
      BY <2>3, <3>3
    <3>4. CASE i <= r /\ ~(j <= r)
      BY <1>11, <2>3, <3>4
    <3>5. CASE ~(i <= r) /\ j <= r
      BY <1>11, <2>3, <3>5
    <3> QED
      BY <3>2, <3>3, <3>4, <3>5
  <2> QED
    BY <2>2, <2>3 DEF Stackable
<1>13. FoundOrPushed(stack, inputs[B], PushNodes(pushes', B), nodes')
  <2> SUFFICES ASSUME NEW i \in 1 .. Len(stack)
               PROVE  stack[i] \in Range(inputs[B]) \/ nodes'[stack[i]].prev \in PushNodes(pushes', B)
    BY DEF FoundOrPushed
  <2>1. CASE i <= r
    BY <1>11, <2>1 DEF FoundOrPushed
  <2> QED
    BY <2>1
<1>14. CallsMatch'
  <2> SUFFICES ASSUME NEW k \in 1 .. n
               PROVE  /\ CallMatches(calls'[k], blocks', aligned'.outputs, pushes', nodes', inputs', outputs')
                      /\ k < n => calls'[k].block \in aligned'.outputs
    BY <1>4 DEF CallsMatch
  <2>1. CASE k = n
    <3>1. CallMatches(c, blocks', aligned'.outputs, pushes', nodes', inputs', outputs')
      BY <1>5, <1>6, <1>12, <1>13 DEF CallMatches
    <3> QED
      BY <1>3, <1>4, <2>1, <3>1
  <2>2. CASE k # n
    <3>1. calls'[k] = calls[k] /\ ~IsOpen(calls[k], blocks)
      BY <1>1, <1>4, <2>2 DEF ActiveCalls, IsOpen
    <3> QED
      BY <1>8, <3>1 DEF Matches, CallsMatch, CallMatches
  <2> QED
    BY <2>1, <2>2
<1>15. \A b \in Blocks : outputs[b] \in NodeList(nodes)
                         /\ Stackable(outputs[b], b, blocks, aligned.outputs, pushes, nodes)
  BY <1>1, <1>8 DEF Types, Matches, OutputsMatch
<1>16. OutputsMatch(E)'
  <2> SUFFICES ASSUME NEW b \in Blocks
               PROVE  /\ outputs'[b] # <<>> => b \in DOMAIN E
                      /\ Stackable(outputs'[b], b, blocks', aligned'.outputs, pushes', nodes')
                      /\ Closed(b)' => FoundOrPushed(outputs'[b], inputs'[b], PushNodes(pushes', b), nodes')
    BY DEF OutputsMatch, Blocks
  <2>1. Closed(b)' => Closed(b)
    <3> SUFFICES ASSUME Closed(b)', NEW k \in 1 .. n, calls[k].block = b,
                        calls[k].at <= Len(blocks[b]) + 1
                 PROVE  FALSE
      BY DEF Closed
    <3>1. CASE k = n
      <4>1. calls'[n] = c /\ c.block = b
        BY <1>3, <1>4, <1>5, <3>1
      <4> QED
        BY <1>3, <1>4, <1>6, <4>1 DEF Closed, IsOpen
    <3>2. CASE k # n
      BY <1>4, <3>2 DEF Closed
    <3> QED
      BY <3>1, <3>2
  <2>2. /\ outputs[b] # <<>> => b \in DOMAIN E
        /\ Closed(b) => FoundOrPushed(outputs[b], inputs[b], PushNodes(pushes, b), nodes)
    BY <1>8 DEF Matches, OutputsMatch
  <2> QED
    BY <1>1, <1>7, <1>9, <1>15, <2>1, <2>2, ListStays
<1>17. InputsMatch'
  BY <1>8 DEF Matches, InputsMatch, Blocks
<1>18. EdgesMatch'
  <2> SUFFICES ASSUME NEW b \in aligned.outputs, NEW t \in Range(To(blocks, b))
               PROVE  Fits(nodes', initial[t], outputs[b])
    BY DEF EdgesMatch
  <2>1. b \in Blocks /\ Fits(nodes, initial[t], outputs[b])
    BY <1>1, <1>8 DEF Types, Matches, EdgesMatch
  <2> QED
    BY <1>1, <1>7, <1>9, <1>15, <2>1, ListStays
<1> QED
  BY <1>9, <1>14, <1>16, <1>17, <1>18 DEF Matches

\* Only nodes of one block are touched.
LEMMA UntouchedConfined ==
  ASSUME NEW ms, NEW ns, NEW own, \A n \in 1 .. Len(ns) : n \notin own => ms[n] = ns[n]
  PROVE  Confined(ms, ns, own)
BY DEF Confined

\* An edge is redefined to registers.
LEMMA RegisterType ==
  ASSUME NEW ns, Nodes(ns), NEW list \in NodeList(ns), NEW i \in 1 .. Len(list),
         NEW b \in Nat, NEW g \in Nat, NEW new, new \subseteq DOMAIN list
  PROVE  /\ ns[list[i]].back \in Registers
         /\ Normal(b, g + Cardinality({j \in new : j <= i})) \in Registers
<1>1. DOMAIN list = 1 .. Len(list) /\ Len(list) \in Nat /\ list[i] \in 1 .. Len(ns)
  BY ElementOfSeq, LenProperties DEF NodeList
<1>2. ns[list[i]].back \in Registers
  <2>1. ns[list[i]] \in Node
    BY <1>1, ElementOfSeq DEF Nodes
  <2> QED
    BY <2>1 DEF Node
<1> DEFINE T == {j \in new : j <= i}
           k == Cardinality(T)
<1>3. k \in Nat
  <2>1. IsFiniteSet(1 .. Len(list)) /\ T \in SUBSET (1 .. Len(list))
    BY <1>1, FS_Interval
  <2> HIDE DEF T
  <2> QED
    BY <2>1, FS_Subset, FS_CardinalityType
<1> HIDE DEF k
<1>4. Normal(b, g + k) \in Registers
  BY <1>3 DEF Normal, Registers
<1> QED
  BY <1>2, <1>4 DEF k

\* The instructions of a block graphed once have pushed nothing before.
LEMMA NothingPushed ==
  ASSUME IInv, Graphing, NEW E, Flow(blocks, E), Level(E), To(blocks, B) # <<>>
  PROVE  pushes[B][Frame.at] = <<>>
<1>1. Running /\ Frame.at \in DOMAIN Body /\ Frame.at <= Frame.at
  <2>1. Running /\ Frame.at \in DOMAIN Body /\ B \in Blocks /\ blocks \in Graphs
    BY FrameProperties, CellProperties DEF Graphing, IInv, Types
  <2>2. Frame.at \in Nat
    BY <2>1, BlockProperties DEF Body
  <2> QED
    BY <2>1, <2>2
<1>2. OnLevel(Frame, blocks, E, params, pushes)
  BY <1>1, TopLevel DEF Once
<1> QED
  BY <1>1, <1>2 DEF OnLevel, Body, B

\* An instruction pops and pushes what its effects say.
LEMMA PropagateMatched ==
  ASSUME IInv, Propagate, NEW E, Flow(blocks, E), Level(E), Matched(E)
  PROVE  Matched(E)'
<1> DEFINE e == Effect(Cell0)
           New(ns, pushed) == {i \in DOMAIN pushed : ns[pushed[i]].prev = 0}
           Reg(ns, pushed, i) ==
             IF i \notin New(ns, pushed) THEN ns[pushed[i]].back
             ELSE Normal(B, generated[B] + Cardinality({j \in New(ns, pushed) : j <= i}))
           Regs(ns, pushed) == [i \in DOMAIN pushed |-> Reg(ns, pushed, i)]
           old == pushes[B][Frame.at]
<1>1. PICK p, pushed, ns :
        /\ p = Popping(e.pops)
        /\ pushed = old \o NewTops(p.nodes, e.pushes)
        /\ ns = Paired(p, pushed)
        /\ nodes' = LinkTops(ns, pushed, Regs(ns, pushed))
        /\ pushes' = [pushes EXCEPT ![B][Frame.at] = pushed]
        /\ Step(p.stack \o NewTops(ns, Len(pushed)), Frame.taken + Len(p.params))
  BY Zenon DEF Propagate, LinkTops
<1>2. Graphing /\ UNCHANGED <<blocks, inputs, outputs, initial, aligned, outcome>>
  BY DEF Propagate
<1>3. /\ Types /\ Running /\ B \in Blocks /\ Frame.taken \in Nat
      /\ Nodes(nodes) /\ Stack \in NodeList(nodes)
      /\ Frame.at \in DOMAIN Body /\ IsLinked(Cell0)
      /\ e.pops \in Nat /\ e.pushes \in Nat /\ generated[B] \in Nat /\ B \in Nat
      /\ NodesOfInstructions(pushes, blocks, nodes)
      /\ Len(nodes) \in Nat
  BY <1>2, FrameProperties, CellProperties, EffectType, BlockProperties, LenProperties
     DEF IInv, Types, Graphing, IsStack, Nodes
<1> DEFINE add   == NewTops(p.nodes, e.pushes)
           tops  == NewTops(ns, Len(pushed))
           stack == p.stack \o tops
           r     == Len(p.stack)
<1>4. /\ Popped(p, nodes, Stack, e.pops)
      /\ \A x \in 1 .. Len(nodes) : p.nodes[x] = nodes[x]
  BY <1>1, <1>3, PoppingProperties, PoppingKeeps
<1>5. /\ Extends(p.nodes, nodes) /\ Nodes(p.nodes) /\ Len(nodes) <= Len(p.nodes)
      /\ p.popped \in NodeList(p.nodes) /\ Len(p.popped) = e.pops
      /\ p.stack \in NodeList(nodes) /\ r <= Len(Stack)
      /\ \A i \in 1 .. r : p.stack[i] = Stack[i]
  BY <1>4 DEF Popped, Extends
<1>6. pushed \in NodeList(WithNew(p.nodes, e.pushes)) /\ e.pushes <= Len(pushed)
  BY <1>1, <1>3, <1>5, PushedNodes
<1>7. /\ Extends(ns, p.nodes) /\ Len(ns) = Len(p.nodes) + e.pushes
      /\ \A x \in 1 .. Len(p.nodes) : x \notin Range(pushed) => ns[x] = p.nodes[x]
  BY ZenonT(30), <1>1, <1>3, <1>5, <1>6, PairedProperties, PairedKeeps
<1>8. Nodes(ns) /\ pushed \in NodeList(ns) /\ Len(p.nodes) \in Nat /\ Len(nodes) <= Len(ns)
  <2>1. Len(WithNew(p.nodes, e.pushes)) = Len(ns)
    BY <1>3, <1>5, <1>7, NewNodes
  <2>2. Len(p.nodes) \in Nat
    BY <1>5, LenProperties DEF Nodes
  <2>3. Len(nodes) <= Len(ns)
    BY <1>3, <1>5, <1>7, <2>2
  <2> QED
    BY <1>6, <1>7, <2>1, <2>2, <2>3 DEF Extends, NodeList
<1>9. /\ DOMAIN pushed = 1 .. Len(pushed) /\ Len(pushed) \in Nat /\ Len(ns) \in Nat
      /\ Range(pushed) \subseteq 1 .. Len(ns)
  BY <1>8, LenProperties, RangeOfSeq DEF NodeList, Nodes
<1> DEFINE regs == Regs(ns, pushed)
<1>10. \A i \in 1 .. Len(pushed) : regs[i] \in Registers
  <2> SUFFICES ASSUME NEW i \in 1 .. Len(pushed) PROVE regs[i] \in Registers
    OBVIOUS
  <2> DEFINE new == New(ns, pushed)
             g   == generated[B]
  <2>1. regs[i] = IF i \notin new THEN ns[pushed[i]].back
                  ELSE Normal(B, g + Cardinality({j \in new : j <= i}))
    BY <1>9
  <2>2. new \subseteq DOMAIN pushed /\ g \in Nat
    BY <1>3
  <2> HIDE DEF new, g, regs
  <2>3. /\ ns[pushed[i]].back \in Registers
        /\ Normal(B, g + Cardinality({j \in new : j <= i})) \in Registers
    BY <1>3, <1>8, <2>2, RegisterType
  <2> QED
    BY <2>1, <2>3
<1> HIDE DEF regs
<1>11. /\ \A x \in 1 .. Len(ns) : x \notin Range(pushed) => nodes'[x] = ns[x]
       /\ Len(tops) = Len(pushed)
       /\ \A i \in 1 .. Len(pushed) : tops[i] \notin 1 .. Len(ns) /\ nodes'[tops[i]].prev = pushed[i]
  <2>1. ComeFrom(tops, pushed, LinkTops(ns, pushed, regs), ns)
    BY <1>8, <1>10, TopsKeep
  <2>2. nodes' = LinkTops(ns, pushed, regs)
    BY <1>1 DEF regs
  <2> QED
    BY <2>1, <2>2 DEF ComeFrom
<1>12. /\ old \in NodeList(nodes) /\ Range(old) \subseteq 1 .. Len(nodes)
       /\ Above(add, Len(nodes)) /\ Distinct(add) /\ DOMAIN add = 1 .. Len(add)
       /\ Range(pushed) = Range(old) \cup Range(add)
  <2>1. old \in NodeList(nodes) /\ Range(old) \subseteq 1 .. Len(nodes)
    BY <1>3, RangeOfSeq DEF NodesOfInstructions, Body, Blocks, NodeList
  <2>2. Above(add, Len(nodes))
    BY <1>3, <1>5, NewTopsAbove
  <2>3. /\ Distinct(add) /\ DOMAIN add = 1 .. e.pushes /\ Len(add) = e.pushes
        /\ add \in Seq(1 .. Len(ns))
    <3>1. Len(p.nodes) + e.pushes <= Len(ns)
      BY <1>3, <1>7, <1>8
    <3> QED
      BY <1>3, <1>8, <1>9, <3>1, NewTopsProperties
  <2>4. Range(pushed) = Range(old) \cup Range(add)
    <3>1. old \in Seq(1 .. Len(nodes)) /\ add \in Seq(1 .. Len(ns))
      BY <2>1, <2>3 DEF NodeList
    <3> HIDE DEF old, add
    <3>2. Range(old \o add) = Range(old) \cup Range(add)
      <4>1. 1 .. Len(nodes) \subseteq 1 .. Len(ns)
        BY <1>3, <1>8, <1>9
      <4>2. old \in Seq(1 .. Len(ns))
        BY <3>1, <4>1, SeqMonotonic
      <4> QED
        BY <3>1, <4>2, RangeConcatenation
    <3> QED
      BY <1>1, <3>2 DEF add
  <2> QED
    BY <2>1, <2>2, <2>3, <2>4
<1>13. /\ PushesNew(pushes', pushes, nodes, B)
       /\ Range(pushed) \subseteq PushNodes(pushes', B)
       /\ \A c \in DOMAIN pushes : PushNodes(pushes', c) \subseteq (1 .. Len(nodes)) \cup Range(pushed)
  <2> DEFINE qs == pushes'
             at == Frame.at
  <2>1. /\ DOMAIN qs = DOMAIN pushes /\ \A c \in DOMAIN pushes : c # B => qs[c] = pushes[c]
        /\ DOMAIN qs[B] = DOMAIN pushes[B] /\ qs[B][at] = pushed
        /\ \A j \in DOMAIN pushes[B] : j # at => qs[B][j] = pushes[B][j]
    BY <1>1, <1>3 DEF NodesOfInstructions, Blocks, Body
  <2>2. Range(pushes[B][at]) = Range(pushed) \cap (1 .. Len(nodes))
    BY <1>12 DEF Above
  <2>3. B \in DOMAIN blocks /\ at \in DOMAIN blocks[B]
    BY <1>3 DEF Blocks, Body
  <2> HIDE DEF qs, at
  <2>4. /\ PushesNew(qs, pushes, nodes, B)
        /\ Range(pushed) \subseteq PushNodes(qs, B)
        /\ \A c \in DOMAIN pushes : PushNodes(qs, c) \subseteq (1 .. Len(nodes)) \cup Range(pushed)
    BY <1>3, <2>1, <2>2, <2>3, MorePushes
  <2> QED
    BY <2>4 DEF qs
<1>14. Confined(nodes', nodes, PushNodes(pushes, B))
  <2> DEFINE own == PushNodes(pushes, B)
             ms  == nodes'
  <2>1. Range(old) \subseteq own
    <3>1. Frame.at \in DOMAIN pushes[B]
      BY <1>3 DEF NodesOfInstructions, Blocks, Body
    <3> QED
      BY <3>1, PushNode
  <2>2. \A n \in 1 .. Len(nodes) : n \notin own => ms[n] = nodes[n]
    <3> SUFFICES ASSUME NEW n \in 1 .. Len(nodes), n \notin own PROVE ms[n] = nodes[n]
      OBVIOUS
    <3>1. n \in 1 .. Len(p.nodes) /\ n \in 1 .. Len(ns)
      BY <1>3, <1>5, <1>8, <1>9
    <3>2. n \notin Range(pushed)
      BY <1>12, <2>1 DEF Above
    <3> QED
      BY <1>4, <1>7, <1>11, <3>1, <3>2
  <2> HIDE DEF own, ms
  <2>3. Confined(ms, nodes, own)
    BY <2>2, UntouchedConfined
  <2> QED
    BY <2>3 DEF own, ms
<1> HIDE DEF add, tops
<1>15. /\ r \in Nat /\ Len(stack) = r + Len(pushed)
       /\ \A i \in 1 .. Len(stack) : i <= r => i \in 1 .. Len(Stack) /\ stack[i] = Stack[i]
       /\ \A i \in 1 .. Len(stack) : ~(i <= r) =>
            i - r \in 1 .. Len(pushed) /\ stack[i] = tops[i - r]
  <2>1. p.stack \in Seq(Nat) /\ tops \in Seq(Nat) /\ Len(Stack) \in Nat
    <3>1. p.stack \in Seq(1 .. Len(nodes)) /\ 1 .. Len(nodes) \subseteq Nat
      BY <1>5 DEF NodeList
    <3>2. p.stack \in Seq(Nat)
      BY <3>1, SeqMonotonic
    <3>3. tops \in Seq(1 .. Len(ns) + Len(pushed)) /\ 1 .. Len(ns) + Len(pushed) \subseteq Nat
      <4>1. Len(ns) + Len(pushed) <= Len(ns) + Len(pushed) /\ Len(ns) + Len(pushed) \in Nat
        BY <1>9
      <4> QED
        BY <1>9, <4>1, NewTopsProperties DEF tops
    <3>4. tops \in Seq(Nat)
      BY <3>3, SeqMonotonic
    <3> QED
      BY <1>3, <3>2, <3>4, LenProperties DEF NodeList
  <2> DEFINE a == p.stack
             b == tops
  <2>2. a \in Seq(Nat) /\ b \in Seq(Nat)
    BY <2>1
  <2> HIDE DEF a, b
  <2>3. /\ Len(a) \in Nat /\ Len(b) \in Nat /\ Len(a \o b) = Len(a) + Len(b)
        /\ \A i \in 1 .. Len(a) + Len(b) : (a \o b)[i] = IF i <= Len(a) THEN a[i] ELSE b[i - Len(a)]
    BY <2>2, ConcatProperties, LenProperties
  <2>4. Len(b) = Len(pushed)
    BY <1>11 DEF b
  <2> HIDE DEF stack, r
  <2>5. stack = a \o b /\ r = Len(a)
    BY DEF stack, r, a, b
  <2>6. \A i \in 1 .. Len(a) + Len(b) : i <= Len(a) => i \in 1 .. Len(a)
    BY <2>3
  <2>7. \A i \in 1 .. Len(a) + Len(b) : ~(i <= Len(a)) => i - Len(a) \in 1 .. Len(b)
    BY <2>3
  <2>8. \A i \in 1 .. r : i \in 1 .. Len(Stack) /\ a[i] = Stack[i]
    BY <1>5, <2>1, <2>3, <2>5 DEF a, r
  <2> QED
    BY <2>3, <2>4, <2>5, <2>6, <2>7, <2>8 DEF b
<1>16. \A i \in 1 .. Len(stack) : ~(i <= r) =>
         /\ \A c \in Blocks : stack[i] \notin PushNodes(pushes', c)
         /\ nodes'[stack[i]].prev \in PushNodes(pushes', B)
  <2> SUFFICES ASSUME NEW j \in 1 .. Len(pushed)
               PROVE  /\ \A c \in Blocks : tops[j] \notin PushNodes(pushes', c)
                      /\ nodes'[tops[j]].prev \in PushNodes(pushes', B)
    BY <1>15
  <2>1. tops[j] \notin 1 .. Len(ns) /\ nodes'[tops[j]].prev = pushed[j]
    BY <1>11
  <2>2. 1 .. Len(nodes) \subseteq 1 .. Len(ns)
    BY <1>3, <1>8, <1>9
  <2>3. \A c \in Blocks : PushNodes(pushes', c) \subseteq 1 .. Len(ns)
    BY <1>3, <1>9, <1>13, <2>2 DEF NodesOfInstructions, Blocks
  <2>4. pushed[j] \in Range(pushed)
    BY <1>9 DEF Range
  <2> QED
    BY <1>13, <2>1, <2>3, <2>4
<1>17. ASSUME To(blocks, B) # <<>>, NEW i \in 1 .. Len(stack), NEW j \in 1 .. Len(stack),
              ~(i <= r), ~(j <= r)
       PROVE  /\ nodes'[stack[i]].prev \notin 1 .. Len(nodes)
              /\ nodes'[stack[i]].prev = nodes'[stack[j]].prev => i = j
  <2>1. old = <<>>
    BY <1>2, <1>17, NothingPushed
  <2>2. pushed = add
    <3>1. add \in Seq(1 .. Len(ns))
      <4>1. Len(p.nodes) + e.pushes <= Len(ns)
        BY <1>3, <1>7, <1>8
      <4> QED
        BY <1>3, <1>8, <1>9, <4>1, NewTopsProperties DEF add
    <3>2. pushed = <<>> \o add
      BY <1>1, <2>1 DEF add
    <3> HIDE DEF old
    <3> QED
      BY <3>1, <3>2, ConcatEmptySeq
  <2>3. /\ i - r \in 1 .. Len(pushed) /\ stack[i] = tops[i - r]
        /\ j - r \in 1 .. Len(pushed) /\ stack[j] = tops[j - r]
    BY <1>15, <1>17
  <2>4. nodes'[stack[i]].prev = pushed[i - r] /\ nodes'[stack[j]].prev = pushed[j - r]
    BY <1>11, <2>3
  <2>5. pushed[i - r] \notin 1 .. Len(nodes)
    <3>1. pushed[i - r] \in Range(pushed)
      BY <1>9, <2>3 DEF Range
    <3> QED
      BY <1>12, <2>2, <3>1 DEF Above
  <2>6. pushed[i - r] = pushed[j - r] => i - r = j - r
    BY <1>12, <2>2, <2>3 DEF Distinct
  <2>7. i - r = j - r => i = j
    BY <1>15
  <2> QED
    BY <2>4, <2>5, <2>6, <2>7
<1>18. Step(stack, Frame.taken + Len(p.params))
       /\ UNCHANGED <<blocks, inputs, outputs, initial, aligned, outcome>>
  BY <1>1, <1>2 DEF tops
<1> HIDE DEF stack, r
<1> QED
  BY <1>2, <1>13, <1>14, <1>15, <1>16, <1>17, <1>18, InstructionMatched

\* A local takes the top of the stack.
LEMMA StoreLocalMatched ==
  ASSUME IInv, StoreLocal, NEW E, Flow(blocks, E), Level(E), Matched(E)
  PROVE  Matched(E)'
<1> DEFINE p == Popping(1)
           r == Len(p.stack)
<1>1. /\ Graphing /\ nodes' = p.nodes /\ Step(p.stack, Frame.taken + Len(p.params))
      /\ UNCHANGED <<blocks, pushes, inputs, outputs, initial, aligned, outcome>>
  BY DEF StoreLocal
<1>2. /\ Types /\ B \in Blocks /\ Frame.taken \in Nat
      /\ Nodes(nodes) /\ Stack \in NodeList(nodes)
      /\ NodesOfInstructions(pushes, blocks, nodes)
  BY <1>1, FrameProperties DEF IInv, Types, Graphing, IsStack
<1>3. /\ Popped(p, nodes, Stack, 1)
      /\ \A x \in 1 .. Len(nodes) : p.nodes[x] = nodes[x]
  BY <1>2, PoppingProperties, PoppingKeeps
<1> HIDE DEF p
<1>4. /\ r \in Nat /\ Len(Stack) \in Nat /\ r <= Len(Stack)
      /\ \A i \in 1 .. r : p.stack[i] = Stack[i]
  BY <1>2, <1>3, LenProperties DEF Popped, NodeList
<1>5. PushesNew(pushes', pushes, nodes, B)
  BY <1>1, <1>2, SamePushes
<1>6. Confined(nodes', nodes, PushNodes(pushes, B))
  <2> DEFINE ms == nodes'
  <2>1. \A x \in 1 .. Len(nodes) : ms[x] = nodes[x]
    BY <1>1, <1>3
  <2> HIDE DEF ms
  <2>2. Confined(ms, nodes, PushNodes(pushes, B))
    BY <2>1, UntouchedConfined
  <2> QED
    BY <2>2 DEF ms
<1>7. \A i \in 1 .. r : i <= r /\ i \in 1 .. Len(Stack) /\ p.stack[i] = Stack[i]
  BY <1>4
<1> DEFINE stack == p.stack
           taken == Frame.taken + Len(p.params)
<1>8. /\ Step(stack, taken)
      /\ \A i \in 1 .. Len(stack) : i <= r /\ i \in 1 .. Len(Stack) /\ stack[i] = Stack[i]
  BY <1>1, <1>7
<1>9. UNCHANGED <<blocks, inputs, outputs, initial, aligned, outcome>>
  BY <1>1
<1> HIDE DEF stack, taken, r
<1> QED
  BY <1>1, <1>5, <1>6, <1>8, <1>9, InstructionMatched

\* Nothing but the outcome changes, and the word is not done.
LEMMA SameMatched ==
  ASSUME NEW E, Matched(E), outcome' # "done" \/ outcome' = outcome,
         outcome = "done" => outcome' = outcome,
         UNCHANGED <<blocks, nodes, pushes, inputs, outputs, initial, aligned, calls>>
  PROVE  Matched(E)'
<1> SUFFICES ASSUME OwnsOne(blocks, E)', NonePassed(E)' PROVE Matches(E)'
  BY DEF Matched
<1>1. \A b : PassesOn(b)' <=> PassesOn(b)
  BY DEF PassesOn
<1>2. NonePassed(E)
  BY <1>1 DEF NonePassed, ExitBlock
<1>3. Matches(E)
  BY <1>2 DEF Matched
<1>4. \A b : Closed(b)' <=> Closed(b)
  BY DEF Closed
<1>5. CallsMatch'
  BY <1>3 DEF Matches, CallsMatch
<1>6. OutputsMatch(E)'
  BY <1>3, <1>4 DEF Matches, OutputsMatch, Blocks
<1>7. InputsMatch' /\ EdgesMatch'
  BY <1>3 DEF Matches, InputsMatch, EdgesMatch, Blocks
<1> QED
  BY <1>3, <1>5, <1>6, <1>7 DEF Matches

\* A local is pushed, or the walk ends.
LEMMA LoadLocalMatched ==
  ASSUME IInv, LoadLocal, NEW E, Flow(blocks, E), Level(E), Matched(E)
  PROVE  Matched(E)'
<1>1. Graphing
  BY DEF LoadLocal
<1>2. CASE Key(Cell0) \notin DOMAIN locals
  <2>1. Stop("aborted") /\ outcome # "done"
    BY <1>1, <1>2 DEF LoadLocal, Graphing, Running
  <2> QED
    BY <2>1, SameMatched DEF Stop, perBlock, links
<1>3. CASE Key(Cell0) \in DOMAIN locals
  <2> DEFINE new == NewTops(nodes, 2)
             a == new[1]
             b == new[2]
             two == WithNew(nodes, 2)
             reg == locals[Key(Cell0)]
             old == pushes[B][Frame.at]
             stack == Append(Stack, b)
             r == Len(Stack)
             at == Frame.at
  <2>1. /\ nodes' = LinkBoth(two, <<a>>, <<b>>, <<reg>>)
        /\ pushes' = [pushes EXCEPT ![B][at] = Append(@, a)]
        /\ Step(stack, Frame.taken)
    BY <1>3 DEF LoadLocal, Loaded
  <2>2. UNCHANGED <<blocks, inputs, outputs, initial, aligned, outcome>>
    BY <1>3 DEF LoadLocal, perBlock, links
  <2>3. /\ Types /\ B \in Blocks
        /\ Nodes(nodes) /\ Stack \in NodeList(nodes)
        /\ at \in DOMAIN Body
        /\ NodesOfInstructions(pushes, blocks, nodes)
        /\ Len(nodes) \in Nat /\ r \in Nat /\ DOMAIN nodes = 1 .. Len(nodes)
    BY <1>1, FrameProperties, CellProperties, LenProperties
       DEF IInv, Types, Graphing, IsStack, Nodes, NodeList
  <2>4. a = Len(nodes) + 1 /\ b = Len(nodes) + 2
    BY DEF NewTops
  <2>5. /\ Nodes(two) /\ Len(two) = Len(nodes) + 2
        /\ \A n \in 1 .. Len(nodes) : two[n] = nodes[n]
    BY <2>3, NewNodes
  <2> HIDE DEF new, a, b, two, reg
  <2>6. DOMAIN two = 1 .. Len(two)
    BY <2>5, LenProperties DEF Nodes
  <2>7. Range(<<a>>) = {a} /\ Range(<<b>>) = {b}
    <3>1. /\ DOMAIN <<a>> = {1} /\ <<a>>[1] = a
          /\ DOMAIN <<b>> = {1} /\ <<b>>[1] = b
      OBVIOUS
    <3> QED
      BY <3>1, Zenon DEF Range
  <2>8. \A n \in 1 .. Len(nodes) : nodes'[n] = nodes[n]
    <3>1. \A n \in 1 .. Len(nodes) : n \in DOMAIN two /\ n # a /\ n # b
      BY <2>3, <2>4, <2>5, <2>6
    <3>2. \A n \in 1 .. Len(nodes) : LinkBoth(two, <<a>>, <<b>>, <<reg>>)[n] = two[n]
      BY <2>7, <3>1, LinkOutside
    <3> QED
      BY <2>1, <2>5, <3>2
  <2>9. nodes'[b].prev = a
    <3>1. b \in DOMAIN two /\ b \in Nat /\ a # b
      BY <2>3, <2>4, <2>5, <2>6
    <3>2. LastAt(<<b>>, b) = 1
      <4>1. <<b>> \in Seq({b}) /\ Len(<<b>>) = 1
        OBVIOUS
      <4>2. LastAt(<<b>>, b) \in 1 .. Len(<<b>>)
        BY <2>7, <4>1, LastAtProperties
      <4> QED
        BY <4>1, <4>2
    <3>3. two[b] \in Node
      BY <2>5, <2>6, <3>1, ElementOfSeq DEF Nodes
    <3>4. Link(two, <<a>>, <<b>>, <<reg>>)[b] = [two[b] EXCEPT !.prev = a, !.back = reg]
      BY <2>7, <3>1, <3>2 DEF Link
    <3>5. /\ DOMAIN Link(two, <<a>>, <<b>>, <<reg>>) = DOMAIN two
          /\ LinkBoth(two, <<a>>, <<b>>, <<reg>>)[b] = Link(two, <<a>>, <<b>>, <<reg>>)[b]
      BY <2>7, <3>1 DEF LinkBoth, Link
    <3> QED
      BY <2>1, <3>3, <3>4, <3>5 DEF Node
  <2>10. old \in NodeList(nodes) /\ Range(old) \subseteq 1 .. Len(nodes)
    BY <2>3, RangeOfSeq DEF NodesOfInstructions, Body, Blocks, NodeList
  <2> DEFINE more == Append(old, a)
  <2>11. Range(more) = Range(old) \cup {a}
    <3>1. a \in Nat /\ 1 .. Len(nodes) \subseteq Nat
      BY <2>3, <2>4
    <3>2. old \in Seq(Nat)
      BY <2>10, <3>1, SeqMonotonic DEF NodeList
    <3> HIDE DEF old
    <3>3. /\ Len(more) = Len(old) + 1 /\ more \in Seq(Nat) /\ Len(old) \in Nat
          /\ \A i \in 1 .. Len(old) : more[i] = old[i]
          /\ more[Len(old) + 1] = a
      BY <3>1, <3>2, AppendProperties, LenProperties
    <3>4. DOMAIN more = 1 .. Len(old) + 1 /\ DOMAIN old = 1 .. Len(old)
      BY <3>2, <3>3, LenProperties
    <3> HIDE DEF more
    <3>5. \A i \in 1 .. Len(old) + 1 : i \in 1 .. Len(old) \/ i = Len(old) + 1
      BY <3>3
    <3>6. \A i \in 1 .. Len(old) : i \in 1 .. Len(old) + 1
      BY <3>3
    <3>7. Len(old) + 1 \in 1 .. Len(old) + 1
      BY <3>3
    <3> QED
      BY <3>3, <3>4, <3>5, <3>6, <3>7 DEF Range
  <2>12. a \notin 1 .. Len(nodes) /\ b \notin 1 .. Len(nodes) /\ a # b
    BY <2>3, <2>4
  <2>13. /\ PushesNew(pushes', pushes, nodes, B)
         /\ a \in PushNodes(pushes', B)
         /\ \A c \in DOMAIN pushes : PushNodes(pushes', c) \subseteq (1 .. Len(nodes)) \cup Range(more)
    <3> DEFINE qs == pushes'
    <3>1. /\ DOMAIN qs = DOMAIN pushes /\ \A c \in DOMAIN pushes : c # B => qs[c] = pushes[c]
          /\ DOMAIN qs[B] = DOMAIN pushes[B] /\ qs[B][at] = more
          /\ \A j \in DOMAIN pushes[B] : j # at => qs[B][j] = pushes[B][j]
      BY <2>1, <2>3 DEF NodesOfInstructions, Blocks, Body
    <3>2. Range(pushes[B][at]) = Range(more) \cap (1 .. Len(nodes))
      BY <2>10, <2>11, <2>12
    <3>3. B \in DOMAIN blocks /\ at \in DOMAIN blocks[B]
      BY <2>3 DEF Blocks, Body
    <3> HIDE DEF qs, at, more
    <3>4. /\ PushesNew(qs, pushes, nodes, B)
          /\ Range(more) \subseteq PushNodes(qs, B)
          /\ \A c \in DOMAIN pushes : PushNodes(qs, c) \subseteq (1 .. Len(nodes)) \cup Range(more)
      BY <2>3, <3>1, <3>2, <3>3, MorePushes
    <3> QED
      BY <2>11, <3>4 DEF qs
  <2>14. Confined(nodes', nodes, PushNodes(pushes, B))
    <3> DEFINE ms == nodes'
    <3>1. \A x \in 1 .. Len(nodes) : ms[x] = nodes[x]
      BY <2>8
    <3> HIDE DEF ms
    <3>2. Confined(ms, nodes, PushNodes(pushes, B))
      BY <3>1, UntouchedConfined
    <3> QED
      BY <3>2 DEF ms
  <2>15. \A c \in Blocks : b \notin PushNodes(pushes', c)
    <3>1. DOMAIN pushes = Blocks
      BY <2>3 DEF NodesOfInstructions, Blocks
    <3>2. Range(more) = Range(old) \cup {a}
      BY <2>11
    <3> HIDE DEF more, old
    <3> QED
      BY <2>10, <2>12, <2>13, <3>1, <3>2
  <2>16. /\ Len(stack) = r + 1 /\ stack[r + 1] = b
         /\ \A i \in 1 .. r : stack[i] = Stack[i]
    <3>1. b \in Nat /\ 1 .. Len(nodes) \subseteq Nat
      BY <2>3, <2>4
    <3>2. Stack \in Seq(Nat)
      BY <2>3, <3>1, SeqMonotonic DEF NodeList
    <3> QED
      BY <3>1, <3>2, AppendProperties
  <2> HIDE DEF stack
  <2>17. /\ \A i \in 1 .. Len(stack) : i <= r => i \in 1 .. Len(Stack) /\ stack[i] = Stack[i]
         /\ \A i \in 1 .. Len(stack) : ~(i <= r) => i = r + 1 /\ stack[i] = b
    BY <2>3, <2>16
  <2>18. \A i \in 1 .. Len(stack) : ~(i <= r) =>
           /\ \A c \in Blocks : stack[i] \notin PushNodes(pushes', c)
           /\ nodes'[stack[i]].prev \in PushNodes(pushes', B)
    BY <2>9, <2>13, <2>15, <2>17
  <2>19. \A i, j \in 1 .. Len(stack) : ~(i <= r) /\ ~(j <= r) =>
           /\ nodes'[stack[i]].prev \notin 1 .. Len(nodes)
           /\ nodes'[stack[i]].prev = nodes'[stack[j]].prev => i = j
    BY <2>9, <2>12, <2>17
  <2>20. Step(stack, Frame.taken)
    BY <2>1 DEF stack
  <2> HIDE DEF r, old, at
  <2> QED
    BY <1>1, <2>2, <2>13, <2>14, <2>17, <2>18, <2>19, <2>20, InstructionMatched
<1> QED
  BY <1>2, <1>3

\* The first edge of a block that is not aligned: its elements get the registers
\* of the successor.
LEMMA FirstEdge ==
  ASSUME NEW a, NEW ns, Nodes(ns), NEW list \in NodeList(ns), Distinct(list), Apart(list, ns),
         NEW b \in Blocks, NEW t \in Blocks, Blocks \subseteq Nat, NEW locs,
         Aligns(a, ns, list, b, locs), a.nodes = ns, b \notin a.outputs,
         t \in a.inputs => Len(list) <= Len(a.initial[t]),
         NEW own, \A i \in 1 .. Len(list) : ns[list[i]].prev # 0 /\ ns[list[i]].prev \in own
  PROVE  /\ Fits(AlignEdge(a, list, b, t).nodes, AlignEdge(a, list, b, t).initial[t], list)
         /\ Confined(AlignEdge(a, list, b, t).nodes, ns, own)
<1> DEFINE r == AlignEdge(a, list, b, t)
           m == Len(list)
<1>1. /\ a \in [nodes : Seq(Node), initial : [Blocks -> Seq(Registers)],
                generated : [Blocks -> Nat], inputs : SUBSET Blocks, outputs : SUBSET Blocks]
      /\ a.initial \in [Blocks -> Seq(Registers)] /\ a.generated \in [Blocks -> Nat]
      /\ Allocated(a.initial, a.generated, a.inputs, locs)
  BY DEF Aligns
<1>2. m \in Nat /\ DOMAIN list = 1 .. m
  BY LenProperties DEF NodeList
<1>3. /\ a.initial[t] \in Seq(Registers) /\ Len(a.initial[t]) \in Nat
      /\ t \notin a.inputs => a.initial[t] = <<>>
  BY <1>1, LenProperties DEF Allocated
<1>4. ASSUME NEW regs, \A i \in 1 .. m : regs[i] \in Registers
      PROVE  /\ Fits(Redefine(ns, list, regs), regs, list)
             /\ Confined(Redefine(ns, list, regs), ns, own)
  <2>1. \A i \in 1 .. Len(list) : regs[i] \in Registers /\ ns[list[i]].prev # 0
    BY <1>4
  <2>2. Confined(Redefine(ns, list, regs), ns, own)
    BY <2>1, RedefinedConfined
  <2>3. Fits(Redefine(ns, list, regs), regs, list)
    BY <2>1, RedefinedLinks, Zenon
  <2> QED
    BY <2>2, <2>3
<1>5. CASE t \in a.inputs
  <2> DEFINE regs == a.initial[t]
             ms == Redefine(ns, list, regs)
  <2>1. \A i \in 1 .. m : regs[i] \in Registers
    <3>1. \A i \in 1 .. m : i \in 1 .. Len(regs)
      BY <1>2, <1>3, <1>5
    <3> QED
      BY <1>3, <3>1, ElementOfSeq
  <2>2. r = [[a EXCEPT !.nodes = ms] EXCEPT !.inputs = @ \cup {t}, !.outputs = @ \cup {b}]
    BY <1>5 DEF AlignEdge, Take
  <2> HIDE DEF r, ms, regs
  <2>3. r.nodes = ms /\ r.initial = a.initial
    BY <1>1, <2>2
  <2>4. Fits(ms, regs, list) /\ Confined(ms, ns, own)
    BY <1>4, <2>1 DEF ms
  <2> QED
    BY <2>3, <2>4 DEF r, regs
<1>6. CASE t \notin a.inputs
  <2> DEFINE regs == NewRegisters(a.generated, t, m)
             gen  == HandOut(a.generated, t, m)
             new  == GiveTo(a.initial, t, regs)
             ms   == Redefine(ns, list, regs)
  <2>1. regs \in Seq(Registers) /\ Len(regs) = m
    <3> DEFINE g == a.generated
    <3>1. g \in [Blocks -> Nat] /\ t \in Nat /\ \A x \in DOMAIN locs : IsUsed(locs[x], g)
      BY <1>1 DEF Allocated
    <3> HIDE DEF g, m
    <3>2. /\ NewRegisters(g, t, m) \in Seq(Registers) /\ Len(NewRegisters(g, t, m)) = m
          /\ HandOut(g, t, m) \in [Blocks -> Nat]
          /\ \A x \in Blocks : g[x] <= HandOut(g, t, m)[x]
          /\ Passable(NewRegisters(g, t, m), HandOut(g, t, m), locs)
      BY <1>2, <3>1, Made
    <3> QED
      BY <3>2 DEF g
  <2>2. r = [[a EXCEPT !.nodes = ms, !.initial = new, !.generated = gen]
               EXCEPT !.inputs = @ \cup {t}, !.outputs = @ \cup {b}]
    <3>1. regs = [i \in DOMAIN list |-> Normal(t, a.generated[t] + i)]
      BY <1>2 DEF NewRegisters
    <3>2. gen = [a.generated EXCEPT ![t] = @ + Len(list)]
      BY DEF HandOut
    <3> HIDE DEF regs, gen
    <3> QED
      BY <1>1, <1>6, <3>1, <3>2 DEF AlignEdge, Make, GiveTo
  <2>3. \A i \in 1 .. m : regs[i] \in Registers
    BY <2>1, ElementOfSeq
  <2> HIDE DEF r, ms, regs, gen
  <2>4. new[t] = regs
    <3> DEFINE ini == a.initial
    <3>1. ini[t] \o regs = regs
      BY <1>3, <1>6, <2>1, ConcatEmptySeq
    <3>2. DOMAIN ini = Blocks
      BY <1>1
    <3> HIDE DEF ini
    <3>3. GiveTo(ini, t, regs)[t] = ini[t] \o regs
      BY <3>2 DEF GiveTo
    <3> QED
      BY <3>1, <3>3 DEF ini
  <2> HIDE DEF new
  <2>5. r.nodes = ms /\ r.initial = new
    BY <1>1, <2>2
  <2>6. Fits(ms, regs, list) /\ Confined(ms, ns, own)
    BY <1>4, <2>3 DEF ms
  <2> QED
    BY <2>4, <2>5, <2>6 DEF r
<1> QED
  BY <1>5, <1>6

\* The second one gives the successor the registers the elements have.
LEMMA SecondEdge ==
  ASSUME NEW a, NEW ns, Nodes(ns), NEW list \in NodeList(ns),
         NEW b \in Blocks, NEW t \in Blocks, NEW u \in Blocks, NEW locs,
         Aligns(a, ns, list, b, locs), b \in a.outputs, u \in a.inputs,
         t \in a.inputs => t = u, Fits(a.nodes, a.initial[u], list)
  PROVE  /\ AlignEdge(a, list, b, t).nodes = a.nodes
         /\ Fits(a.nodes, AlignEdge(a, list, b, t).initial[u], list)
         /\ Fits(a.nodes, AlignEdge(a, list, b, t).initial[t], list)
<1> DEFINE r == AlignEdge(a, list, b, t)
           m == Len(list)
<1>1. /\ a \in [nodes : Seq(Node), initial : [Blocks -> Seq(Registers)],
                generated : [Blocks -> Nat], inputs : SUBSET Blocks, outputs : SUBSET Blocks]
      /\ a.initial \in [Blocks -> Seq(Registers)]
      /\ Allocated(a.initial, a.generated, a.inputs, locs)
      /\ Nodes(a.nodes) /\ Len(a.nodes) = Len(ns)
  BY DEF Aligns, Extends
<1>2. list \in NodeList(a.nodes) /\ DOMAIN list = 1 .. m
  BY <1>1, LenProperties DEF NodeList
<1>3. CASE t \in a.inputs
  <2>1. r = [a EXCEPT !.inputs = @ \cup {t}, !.outputs = @ \cup {b}]
    BY <1>3 DEF AlignEdge
  <2> HIDE DEF r
  <2>2. r.nodes = a.nodes /\ r.initial = a.initial
    BY <1>1, <2>1
  <2> QED
    BY <1>3, <2>2 DEF r
<1>4. CASE t \notin a.inputs
  <2> DEFINE regs == Backs(a.nodes, list)
             new  == GiveTo(a.initial, t, regs)
  <2>1. regs \in Seq(Registers)
    BY <1>1, <1>2, BacksType
  <2>2. regs = [i \in DOMAIN list |-> a.nodes[list[i]].back]
    BY <1>2 DEF Backs
  <2>3. \A i \in 1 .. m : regs[i] = a.nodes[list[i]].back
    BY DEF Backs
  <2> HIDE DEF regs
  <2>4. r = [[a EXCEPT !.initial = new] EXCEPT !.inputs = @ \cup {t}, !.outputs = @ \cup {b}]
    BY <1>1, <1>4, <2>2 DEF AlignEdge, Give, GiveTo
  <2>5. new[t] = regs /\ new[u] = a.initial[u]
    <3> DEFINE ini == a.initial
    <3>1. ini[t] = <<>>
      BY <1>1, <1>4 DEF Allocated
    <3>2. DOMAIN ini = Blocks /\ t # u
      BY <1>1, <1>4
    <3> HIDE DEF ini
    <3>3. GiveTo(ini, t, regs)[t] = ini[t] \o regs /\ GiveTo(ini, t, regs)[u] = ini[u]
      BY <3>2 DEF GiveTo
    <3>4. <<>> \o regs = regs
      BY <2>1, ConcatEmptySeq
    <3> QED
      BY <3>1, <3>3, <3>4 DEF ini
  <2> HIDE DEF new, r
  <2>6. r.nodes = a.nodes /\ r.initial = new
    BY <1>1, <2>4
  <2>7. Fits(a.nodes, regs, list)
    BY <2>3 DEF Fits
  <2> QED
    BY <2>5, <2>6, <2>7 DEF r
<1> QED
  BY <1>3, <1>4

\* All edges of a block.
LEMMA EdgesFit ==
  ASSUME Nodes(nodes), Stack \in NodeList(nodes), Distinct(Stack), Apart(Stack, nodes),
         B \in Blocks, Blocks \subseteq Nat, initial \in [Blocks -> Seq(Registers)],
         generated \in [Blocks -> Nat],
         aligned \in [inputs : SUBSET Blocks, outputs : SUBSET Blocks],
         Allocated(initial, generated, aligned.inputs, locals),
         B \notin aligned.outputs,
         NEW order \in Seq(Blocks), order # <<>>, Len(order) <= 2, ~Overrun(order),
         Len(order) = 2 /\ order[2] \in aligned.inputs => order[2] = order[1],
         NEW own, \A i \in 1 .. Len(Stack) : nodes[Stack[i]].prev # 0 /\ nodes[Stack[i]].prev \in own
  PROVE  /\ \A t \in Range(order) : Fits(Alignment(order).nodes, Alignment(order).initial[t], Stack)
         /\ Confined(Alignment(order).nodes, nodes, own)
<1> DEFINE a == [nodes |-> nodes, initial |-> initial, generated |-> generated,
                 inputs |-> aligned.inputs, outputs |-> aligned.outputs]
           t == order[1]
           u == order[2]
           first == AlignEdge(a, Stack, B, t)
           second == AlignEdge(first, Stack, B, u)
           list == Stack
           b == B
<1>1. Len(nodes) \in Nat /\ nodes \in Seq(Node) /\ Extends(nodes, nodes)
  BY LenProperties DEF Nodes, Extends
<1>2. /\ a.nodes = nodes /\ a.initial = initial /\ a.generated = generated
      /\ a.inputs = aligned.inputs /\ a.outputs = aligned.outputs
      /\ Aligns(a, nodes, list, b, locals)
  BY <1>1 DEF Aligns
<1>3. /\ Len(order) \in Nat /\ DOMAIN order = 1 .. Len(order)
      /\ Len(order) = 1 \/ Len(order) = 2
      /\ \A i \in 1 .. Len(order) : order[i] \in Blocks
  <2> DEFINE k == Len(order)
  <2>1. k \in Nat /\ k # 0 /\ DOMAIN order = 1 .. k /\ k <= 2
        /\ \A i \in 1 .. k : order[i] \in Blocks
    BY LenProperties, EmptySeq, ElementOfSeq
  <2> HIDE DEF k
  <2>2. k = 1 \/ k = 2
    BY <2>1
  <2> QED
    BY <2>1, <2>2 DEF k
<1>4. t \in Blocks
  BY <1>3
<1>5. Alignment(order) = IF Len(order) = 1 THEN first ELSE second
  BY <1>3 DEF Alignment
<1> HIDE DEF a
<1>6. t \in a.inputs => Len(list) <= Len(a.initial[t])
  <2>1. Len(Stack) \in Nat /\ Len(initial[order[1]]) \in Nat
    BY <1>4, LenProperties DEF NodeList
  <2> QED
    BY <1>2, <2>1 DEF Overrun
<1>7. /\ EdgeAligned(first, a, nodes, list, b, t, locals)
      /\ Fits(first.nodes, first.initial[t], list) /\ Confined(first.nodes, nodes, own)
  <2>1. /\ b \in Blocks /\ list \in NodeList(nodes) /\ Distinct(list) /\ Apart(list, nodes)
        /\ b \notin a.outputs
        /\ \A i \in 1 .. Len(list) : nodes[list[i]].prev # 0 /\ nodes[list[i]].prev \in own
    BY <1>2
  <2> HIDE DEF list, b, t
  <2>2. EdgeAligned(AlignEdge(a, list, b, t), a, nodes, list, b, t, locals)
    BY <1>2, <1>4, <1>6, <2>1, AlignedEdge
  <2>3. /\ Fits(AlignEdge(a, list, b, t).nodes, AlignEdge(a, list, b, t).initial[t], list)
        /\ Confined(AlignEdge(a, list, b, t).nodes, nodes, own)
    BY <1>2, <1>4, <1>6, <2>1, FirstEdge
  <2> QED
    BY <2>2, <2>3 DEF list, b
<1>8. CASE Len(order) = 1
  <2>1. Range(order) = {t}
    BY <1>3, <1>8 DEF Range
  <2>2. Alignment(order) = first
    BY <1>5, <1>8
  <2> HIDE DEF first, t
  <2> QED
    BY <1>7, <2>1, <2>2 DEF list
<1>9. CASE Len(order) = 2
  <2>1. Range(order) = {t, u}
    BY <1>3, <1>9 DEF Range
  <2>2. Alignment(order) = second /\ u \in Blocks
    BY <1>3, <1>5, <1>9
  <2>3. u \in a.inputs => u = t
    BY <1>2, <1>9
  <2> HIDE DEF first, t, u, list, b
  <2>4. /\ Aligns(first, nodes, list, b, locals) /\ b \in first.outputs
        /\ first.inputs = a.inputs \cup {t} /\ b \in Blocks /\ list \in NodeList(nodes)
    BY <1>7 DEF EdgeAligned, list, b
  <2>5. t \in first.inputs /\ (u \in first.inputs => u = t)
    BY <2>3, <2>4
  <2>6. /\ AlignEdge(first, list, b, u).nodes = first.nodes
        /\ Fits(first.nodes, AlignEdge(first, list, b, u).initial[t], list)
        /\ Fits(first.nodes, AlignEdge(first, list, b, u).initial[u], list)
    BY <1>4, <1>7, <2>2, <2>4, <2>5, SecondEdge
  <2>7. AlignEdge(first, list, b, u) = second
    BY DEF list, b
  <2> HIDE DEF second
  <2> QED
    BY <1>7, <2>1, <2>2, <2>6, <2>7 DEF list
<1> QED
  BY <1>3, <1>8, <1>9

\* A branch asks the second successor for no registers: it has none.
LEMMA SecondNew ==
  ASSUME NEW E, Level(E), OwnsOne(blocks, E), B \in DOMAIN E, B \notin aligned.outputs,
         NextBBs(B) \in Seq(Blocks), Len(AlignOrder(NextBBs(B))) = 2, Len(NextBBs(B)) <= 2
  PROVE  AlignOrder(NextBBs(B))[2] \notin aligned.inputs
<1> DEFINE nexts == NextBBs(B)
           rev == Reverse(nexts)
<1>1. /\ nexts \in Seq(Blocks) /\ Len(nexts) \in Nat /\ DOMAIN nexts = 1 .. Len(nexts)
      /\ rev \in Seq(Blocks) /\ Len(rev) = Len(nexts)
      /\ \A i \in 1 .. Len(nexts) : rev[i] = nexts[(Len(nexts) - i) + 1]
      /\ To(blocks, B) = nexts
  BY LenProperties, Reversed DEF To, NextBBs
<1> HIDE DEF nexts, rev
<1>2. AlignOrder(nexts) = IF Len(nexts) = 2 /\ nexts[1] \notin aligned.inputs THEN rev ELSE nexts
  BY DEF AlignOrder, rev
<1>3. Len(nexts) = 2
  BY <1>1, <1>2 DEF nexts
<1>4. DOMAIN nexts = {1, 2} /\ rev[2] = nexts[1]
  BY <1>1, <1>3
<1>5. PICK t \in Range(nexts) : \A c \in DOMAIN E : t \in Range(To(blocks, c)) => c = B
  BY <1>1, <1>3 DEF OwnsOne
<1>6. t \notin aligned.inputs
  <2> SUFFICES ASSUME t \in aligned.inputs PROVE FALSE
    OBVIOUS
  <2>1. PICK p \in aligned.outputs : t \in Range(To(blocks, p))
    BY DEF Level, InputsLevel
  <2>2. p \in DOMAIN E
    BY DEF Level, OutputsLevel
  <2> QED
    BY <1>5, <2>1, <2>2
<1>7. t = nexts[1] \/ t = nexts[2]
  BY <1>4 DEF Range
<1> QED
  BY <1>2, <1>3, <1>4, <1>6, <1>7 DEF nexts

\* A block aligns its elements with its successors, which is where registers are
\* given to elements.
LEMMA CloseBlockMatched ==
  ASSUME IInv, CloseBlock, NEW E, Flow(blocks, E), Level(E), Matched(E)
  PROVE  Matched(E)'
<1> DEFINE order == AlignOrder(NextBBs(B))
           nexts == Range(NextBBs(B))
           n     == Len(calls)
           c     == Moved(Stack, Frame.taken, NextBBs(B))
           a     == Alignment(order)
           own   == PushNodes(pushes, B)
<1>1. Running /\ Frame.at = Len(Body) + 1
  BY DEF CloseBlock
<1>2. /\ Types /\ B \in Blocks /\ calls # <<>>
      /\ IsStack(Stack, nodes) /\ Nodes(nodes) /\ Stack \in NodeList(nodes) /\ Distinct(Stack)
      /\ ActiveCalls(calls, blocks, nodes, aligned.outputs)
      /\ Allocated(initial, generated, aligned.inputs, locals)
      /\ NodesOfInstructions(pushes, blocks, nodes) /\ DOMAIN pushes = Blocks
  BY <1>1, FrameProperties DEF IInv, Types, IsStack, NodesOfInstructions, Blocks
<1>3. n \in Nat /\ 1 <= n /\ n \in 1 .. n /\ Frame = calls[n] /\ B \in DOMAIN E
  BY <1>1, TopLevel
<1>4. /\ Blocks \subseteq Nat /\ Len(Body) \in Nat
      /\ NextBBs(B) \in Seq(Blocks) /\ Len(NextBBs(B)) <= 2
      /\ To(blocks, B) = NextBBs(B)
  BY <1>2, BlockProperties DEF Types, Body, To, NextBBs
<1>5. B \notin aligned.outputs
  <2>1. Frame.at <= Len(blocks[Frame.block]) + 1 /\ Open(Frame, blocks, aligned.outputs)
    BY <1>1, <1>4, FrameProperties DEF Body, B
  <2> QED
    BY <2>1 DEF Open, B
<1>6. /\ order \in Seq(Blocks) /\ Len(order) <= 2
      /\ Range(order) = nexts /\ (order = <<>> <=> NextBBs(B) = <<>>)
  <2> DEFINE nx == NextBBs(B)
             S == Blocks
  <2>1. nx \in Seq(S) /\ Reverse(nx) \in Seq(S) /\ Len(Reverse(nx)) = Len(nx)
        /\ Len(nx) <= 2
    BY <1>4, Reversed
  <2> HIDE DEF nx, S
  <2>2. AlignOrder(nx) \in Seq(S) /\ Len(AlignOrder(nx)) <= 2
    BY <2>1 DEF AlignOrder
  <2>3. /\ Range(AlignOrder(nx)) = Range(nx)
        /\ AlignOrder(nx) = <<>> <=> nx = <<>>
    BY <2>1, OrderRange
  <2> QED
    BY <2>2, <2>3 DEF nx, S
<1> HIDE DEF nexts, c, a, own
<1>7. ~Overrun(order)
  <2> SUFFICES ASSUME Overrun(order) PROVE FALSE
    OBVIOUS
  <2>1. Stop("undefined")
    BY DEF CloseBlock
  <2>2. Level(E)'
    BY CloseBlockLevel
  <2> QED
    BY <2>1, <2>2 DEF Stop, Level, OutcomeLevel
<1>8. /\ outputs' = [outputs EXCEPT ![B] = Stack] /\ nodes' = a.nodes /\ initial' = a.initial
      /\ aligned' = [inputs |-> a.inputs, outputs |-> a.outputs]
      /\ calls' = ReplaceTop(calls, c)
      /\ UNCHANGED <<blocks, pushes, inputs, outcome>>
  BY <1>7 DEF CloseBlock, ReplaceTop, nexts, c, a
<1>9. /\ initial \in [Blocks -> Seq(Registers)] /\ generated \in [Blocks -> Nat]
      /\ aligned \in [inputs : SUBSET Blocks, outputs : SUBSET Blocks]
      /\ outputs \in [Blocks -> NodeList(nodes)]
  BY <1>2 DEF Types
<1> HIDE DEF order
<1>10. /\ order = <<>> => aligned'.outputs = aligned.outputs
       /\ order # <<>> => aligned'.outputs = aligned.outputs \cup {B}
       /\ \A u \in Blocks : u \in aligned.inputs => initial'[u] = initial[u]
  <2>1. /\ order = <<>> => a.outputs = aligned.outputs
        /\ order # <<>> => a.outputs = aligned.outputs \cup {B}
        /\ EdgesAdd(a, order, Stack)
    BY <1>2, <1>4, <1>5, <1>6, <1>7, <1>9, AlignedEdges DEF a
  <2> QED
    BY <1>6, <1>8, <2>1 DEF EdgesAdd
<1>11. /\ Len(calls') = n
       /\ \A k \in 1 .. n : calls'[k] = IF k = n THEN c ELSE calls[k]
  BY <1>2, <1>8, ReplacedCalls
<1>12. /\ c.block = B /\ c.at = Len(Body) + 2 /\ c.stack = Stack /\ Frame.block = B
       /\ Frame.stack = Stack
  <2>1. c.at = Frame.at + 1
    BY DEF c, Moved
  <2> QED
    BY <1>1, <1>4, <2>1 DEF c, Moved, B, Stack
<1>13. ~IsOpen(c, blocks) /\ IsOpen(Frame, blocks)
  <2>1. ~(c.at <= Len(Body) + 1) /\ Frame.at <= Len(Body) + 1
    BY <1>1, <1>4, <1>12
  <2> QED
    BY <1>12, <2>1 DEF IsOpen, Body
<1>14. /\ outputs'[B] = Stack
       /\ \A b \in Blocks : b # B => outputs'[b] = outputs[b]
       /\ aligned.outputs \subseteq aligned'.outputs /\ aligned.outputs \subseteq Blocks
  BY <1>2, <1>8, <1>9, <1>10
<1> SUFFICES ASSUME OwnsOne(blocks, E)', NonePassed(E)' PROVE Matches(E)'
  BY DEF Matched
<1>15. Matches(E)
  <2>1. OwnsOne(blocks, E)
    BY <1>8
  <2>2. \A b \in aligned.outputs : inputs'[b] = inputs[b] /\ outputs'[b] = outputs[b]
    BY <1>5, <1>8, <1>14
  <2>3. NonePassed(E)
    BY <1>1, <1>14, <2>2, PassedBefore DEF Running
  <2> QED
    BY <2>1, <2>3 DEF Matched
<1>16. /\ Stackable(Stack, B, blocks, aligned.outputs, pushes, nodes)
       /\ FoundOrPushed(Stack, inputs[B], own, nodes)
  BY <1>3, <1>12, <1>13, <1>15 DEF Matches, CallsMatch, CallMatches, own
<1>17. ASSUME order # <<>>
       PROVE  /\ \A t \in nexts : Fits(nodes', initial'[t], Stack)
              /\ Confined(nodes', nodes, own)
  <2>1. To(blocks, B) # <<>> /\ Apart(Stack, nodes)
    BY <1>4, <1>6, <1>16, <1>17 DEF Stackable
  <2>2. Range(inputs[B]) \cap Range(Stack) = {}
    <3>1. \A b \in aligned'.outputs : Range(inputs'[b]) \cap Range(outputs'[b]) = {}
      BY DEF NonePassed, PassesOn
    <3> QED
      BY <1>8, <1>10, <1>14, <1>17, <3>1
  <2>3. \A i \in 1 .. Len(Stack) : nodes[Stack[i]].prev # 0 /\ nodes[Stack[i]].prev \in own
    <3>1. DOMAIN Stack = 1 .. Len(Stack)
      BY <1>2, LenProperties DEF NodeList
    <3>2. \A i \in 1 .. Len(Stack) : Stack[i] \in Range(Stack)
      BY <3>1 DEF Range
    <3> QED
      BY <1>2, <1>16, <2>2, <3>2 DEF FoundOrPushed, IsStack
  <2>4. Len(order) = 2 /\ order[2] \in aligned.inputs => order[2] = order[1]
    <3>1. OwnsOne(blocks, E)
      BY <1>8
    <3> QED
      BY <1>3, <1>4, <1>5, <3>1, SecondNew DEF order
  <2>5. /\ \A t \in Range(order) : Fits(a.nodes, a.initial[t], Stack)
        /\ Confined(a.nodes, nodes, own)
    BY <1>2, <1>4, <1>5, <1>6, <1>7, <1>9, <1>17, <2>1, <2>3, <2>4, EdgesFit DEF a
  <2> QED
    BY <1>6, <1>8, <2>5
<1>18. order = <<>> => nodes' = nodes
  <2>1. order = <<>> => Alignment(order).nodes = nodes
    BY DEF Alignment
  <2> QED
    BY <1>8, <2>1 DEF a
<1>19. Confined(nodes', nodes, own)
  <2> DEFINE ms == nodes'
  <2>1. ms = nodes => Confined(ms, nodes, own)
    <3> HIDE DEF ms
    <3> QED
      BY UntouchedConfined
  <2> QED
    BY <1>17, <1>18, <2>1
<1>20. StepOf(B)
  <2>1. PushesNew(pushes', pushes, nodes, B)
    BY <1>2, <1>8, SamePushes
  <2> QED
    BY <1>2, <1>5, <1>8, <1>14, <1>19, <2>1 DEF StepOf, own
<1>21. PushedOnce(pushes) /\ PushedOnce(pushes')
  BY <1>8, <1>15 DEF Matches
<1>22. /\ Stackable(Stack, B, blocks, aligned'.outputs, pushes', nodes')
       /\ FoundOrPushed(Stack, inputs[B], PushNodes(pushes', B), nodes')
  BY <1>2, <1>16, <1>20, <1>21, ListStays DEF own
<1>23. \A b \in Blocks : outputs[b] \in NodeList(nodes)
                         /\ Stackable(outputs[b], b, blocks, aligned.outputs, pushes, nodes)
  BY <1>9, <1>15 DEF Matches, OutputsMatch
<1>24. CallsMatch'
  <2> SUFFICES ASSUME NEW k \in 1 .. n
               PROVE  /\ CallMatches(calls'[k], blocks', aligned'.outputs, pushes', nodes', inputs', outputs')
                      /\ k < n => calls'[k].block \in aligned'.outputs
    BY <1>11 DEF CallsMatch
  <2>1. CASE k = n
    <3>1. CallMatches(c, blocks', aligned'.outputs, pushes', nodes', inputs', outputs')
      BY <1>8, <1>12, <1>13, <1>14 DEF CallMatches
    <3> QED
      BY <1>3, <1>11, <2>1, <3>1
  <2>2. CASE k # n
    <3>1. calls'[k] = calls[k] /\ ~IsOpen(calls[k], blocks) /\ k < n
      BY <1>2, <1>3, <1>11, <2>2 DEF ActiveCalls, IsOpen
    <3>2. calls[k].block \in aligned.outputs /\ calls[k].stack = outputs[calls[k].block]
      BY <1>15, <3>1 DEF Matches, CallsMatch, CallMatches
    <3>3. outputs'[calls[k].block] = outputs[calls[k].block]
      BY <1>5, <1>14, <3>2
    <3> QED
      BY <1>8, <1>14, <3>1, <3>2, <3>3 DEF CallMatches
  <2> QED
    BY <2>1, <2>2
<1>25. OutputsMatch(E)'
  <2> SUFFICES ASSUME NEW b \in Blocks
               PROVE  /\ outputs'[b] # <<>> => b \in DOMAIN E
                      /\ Stackable(outputs'[b], b, blocks', aligned'.outputs, pushes', nodes')
                      /\ Closed(b)' => FoundOrPushed(outputs'[b], inputs'[b], PushNodes(pushes', b), nodes')
    BY <1>8 DEF OutputsMatch, Blocks
  <2>1. CASE b = B
    BY <1>3, <1>8, <1>14, <1>22, <2>1
  <2>2. CASE b # B
    <3>1. Closed(b)' => Closed(b)
      <4>1. \A k \in 1 .. n : calls[k].block = b => k # n /\ calls'[k] = calls[k]
        BY <1>3, <1>11, <1>12, <2>2
      <4> QED
        BY <1>8, <1>11, <4>1 DEF Closed
    <3>2. /\ outputs[b] # <<>> => b \in DOMAIN E
          /\ Closed(b) => FoundOrPushed(outputs[b], inputs[b], PushNodes(pushes, b), nodes)
      BY <1>15 DEF Matches, OutputsMatch
    <3>3. outputs'[b] = outputs[b] /\ inputs' = inputs /\ blocks' = blocks
      BY <1>8, <1>14, <2>2
    <3> QED
      BY <1>2, <1>20, <1>21, <1>23, <3>1, <3>2, <3>3, ListStays
  <2> QED
    BY <2>1, <2>2
<1>26. InputsMatch'
  <2> SUFFICES ASSUME NEW b \in Blocks, inputs[b] # <<>>
               PROVE  \E p \in aligned'.outputs : b \in Range(To(blocks, p)) /\ inputs[b] = outputs'[p]
    BY <1>8 DEF InputsMatch, Blocks
  <2>1. PICK p \in aligned.outputs : b \in Range(To(blocks, p)) /\ inputs[b] = outputs[p]
    BY <1>15 DEF Matches, InputsMatch
  <2> QED
    BY <1>5, <1>14, <2>1
<1>27. EdgesMatch'
  <2> SUFFICES ASSUME NEW b \in aligned'.outputs, NEW t \in Range(To(blocks, b))
               PROVE  Fits(nodes', initial'[t], outputs'[b])
    BY <1>8 DEF EdgesMatch
  <2>1. CASE b \in aligned.outputs
    <3>1. b \in Blocks /\ Fits(nodes, initial[t], outputs[b]) /\ outputs'[b] = outputs[b]
      BY <1>5, <1>14, <1>15, <2>1 DEF Matches, EdgesMatch
    <3>2. initial'[t] = initial[t]
      <4>1. t \in aligned.inputs
        BY <2>1 DEF Level, OutputsLevel
      <4> QED
        BY <1>9, <1>10, <4>1
    <3> QED
      BY <1>2, <1>20, <1>21, <1>23, <2>1, <3>1, <3>2, ListStays
  <2>2. CASE b \notin aligned.outputs
    <3>1. b = B /\ order # <<>>
      BY <1>10, <2>2
    <3> QED
      BY <1>4, <1>14, <1>17, <3>1 DEF nexts
  <2> QED
    BY <2>1, <2>2
<1> QED
  BY <1>21, <1>24, <1>25, <1>26, <1>27 DEF Matches

\* The elements a block finds are already read from its registers.
LEMMA EnteredSame ==
  ASSUME Nodes(nodes), NEW list \in NodeList(nodes), NEW regs, Fits(nodes, regs, list)
  PROVE  Entered(list, regs) = nodes
<1>1. /\ DOMAIN nodes = 1 .. Len(nodes) /\ nodes = [n \in 1 .. Len(nodes) |-> nodes[n]]
      /\ \A n \in 1 .. Len(nodes) : nodes[n] \in Node
  <2>1. nodes \in Seq(Node) /\ DOMAIN nodes = 1 .. Len(nodes) /\ Len(nodes) \in Nat
    BY LenProperties DEF Nodes
  <2>2. \A n \in 1 .. Len(nodes) : nodes[n] \in Node
    BY <2>1, ElementOfSeq
  <2> QED
    BY <2>1, <2>2
<1>2. ASSUME NEW n \in 1 .. Len(nodes), n \in Range(list)
      PROVE  [nodes[n] EXCEPT !.back = regs[LastAt(list, n)]] = nodes[n]
  <2> DEFINE i == LastAt(list, n)
  <2>1. i \in 1 .. Len(list) /\ list[i] = n
    BY <1>2, LastAtProperties DEF NodeList
  <2> HIDE DEF i
  <2>2. nodes[n].back = regs[i]
    BY <2>1 DEF Fits
  <2>3. nodes[n] \in Node
    BY <1>1
  <2>4. [nodes[n] EXCEPT !.back = regs[i]] = nodes[n]
    BY <2>2, <2>3 DEF Node
  <2> QED
    BY <2>4 DEF i
<1>3. Entered(list, regs) = [n \in 1 .. Len(nodes) |-> nodes[n]]
  BY <1>1, <1>2 DEF Entered
<1> QED
  BY <1>1, <1>3

\* A successor is graphed from the stack its predecessor leaves.
LEMMA DescendMatched ==
  ASSUME IInv, Descend, NEW E, Flow(blocks, E), Level(E), Matched(E)
  PROVE  Matched(E)'
<1> DEFINE t == Head(Frame.left)
           n == Len(calls)
           e == Enter(t, Stack, Frame.taken)
<1>1. Running /\ Frame.at > Len(Body) + 1 /\ Frame.left # <<>>
  BY DEF Descend
<1>2. /\ Types /\ B \in Blocks /\ Frame.at \in Nat /\ Len(Body) \in Nat
      /\ calls # <<>> /\ ActiveCalls(calls, blocks, nodes, aligned.outputs)
      /\ Stack \in NodeList(nodes) /\ Nodes(nodes)
      /\ NodesOfInstructions(pushes, blocks, nodes) /\ DOMAIN pushes = Blocks
      /\ inputs \in [Blocks -> NodeList(nodes)]
  <2>1. /\ Types /\ B \in Blocks /\ Frame.at \in 1 .. Len(Body) + 2
        /\ calls # <<>> /\ ActiveCalls(calls, blocks, nodes, aligned.outputs)
        /\ Stack \in NodeList(nodes)
    BY <1>1, FrameProperties DEF IInv, Types, IsStack
  <2>2. Len(Body) \in Nat
    BY <2>1, BlockProperties, LenProperties DEF Types, Body, Blocks
  <2>3. /\ Nodes(nodes) /\ NodesOfInstructions(pushes, blocks, nodes)
        /\ inputs \in [Blocks -> NodeList(nodes)]
    BY <2>1 DEF Types
  <2>4. DOMAIN pushes = Blocks
    BY <2>3 DEF NodesOfInstructions, Blocks
  <2> QED
    BY <2>1, <2>2, <2>3, <2>4
<1>3. /\ n \in Nat /\ 1 <= n /\ n \in 1 .. n /\ Frame = calls[n] /\ B \in DOMAIN E
      /\ Walks(Frame, blocks, E, aligned.inputs, aligned.outputs)
  BY <1>1, TopLevel
<1>4. t \in Range(NextBBs(B)) /\ t \in aligned.inputs
  BY <1>1, NextLevel
<1>5. /\ Len(Waiting) = n
      /\ \A k \in 1 .. n : k # n => Waiting[k] = calls[k]
      /\ Waiting[n].block = B /\ Waiting[n].at = Frame.at /\ Waiting[n].stack = Stack
  BY <1>1, WaitingCalls
<1>6. ~(Frame.at <= Len(Body) + 1)
  BY <1>1, <1>2
<1>7. /\ B \in aligned.outputs /\ To(blocks, B) = NextBBs(B) /\ To(blocks, B) # <<>>
      /\ Frame.block = B /\ Frame.stack = Stack /\ ~IsOpen(Frame, blocks)
  <2>1. To(blocks, B) = NextBBs(B)
    BY DEF To, NextBBs
  <2>2. To(blocks, B) # <<>>
    BY <1>4, <2>1 DEF Range
  <2> QED
    BY <1>3, <1>6, <2>1, <2>2 DEF Walks, IsOpen, B, Body, Stack
<1>8. \A k \in 1 .. n :
        /\ Waiting[k].block = calls[k].block /\ Waiting[k].at = calls[k].at
        /\ Waiting[k].stack = calls[k].stack
  <2> SUFFICES ASSUME NEW k \in 1 .. n
               PROVE  /\ Waiting[k].block = calls[k].block /\ Waiting[k].at = calls[k].at
                      /\ Waiting[k].stack = calls[k].stack
    OBVIOUS
  <2>1. CASE k = n
    BY <1>3, <1>5, <1>7, <2>1
  <2>2. CASE k # n
    BY <1>5, <2>2
  <2> QED
    BY <2>1, <2>2
<1>9. \A k \in 1 .. n : ~IsOpen(calls[k], blocks)
  <2> SUFFICES ASSUME NEW k \in 1 .. n PROVE ~IsOpen(calls[k], blocks)
    OBVIOUS
  <2>1. CASE k = n
    BY <1>3, <1>7, <2>1
  <2>2. CASE k # n
    BY <1>2, <2>2 DEF ActiveCalls, IsOpen
  <2> QED
    BY <2>1, <2>2
<1> HIDE DEF t, e
<1> SUFFICES ASSUME OwnsOne(blocks, E)', NonePassed(E)' PROVE Matches(E)'
  BY DEF Matched
<1>10. CASE t \in aligned.outputs
  <2>1. /\ calls' = Waiting
        /\ UNCHANGED <<blocks, nodes, pushes, inputs, outputs, initial, aligned, outcome>>
    BY <1>10 DEF Descend, t, perBlock, links
  <2>2. Matches(E)
    <3>1. NonePassed(E)
      BY <1>1, <2>1, PassedBefore DEF Running
    <3> QED
      BY <2>1, <3>1 DEF Matched
  <2>3. CallsMatch'
    <3> SUFFICES ASSUME NEW k \in 1 .. n
                 PROVE  /\ CallMatches(calls'[k], blocks, aligned.outputs, pushes, nodes, inputs, outputs)
                        /\ k < n => calls'[k].block \in aligned.outputs
      BY <1>5, <2>1 DEF CallsMatch
    <3>1. CallMatches(calls[k], blocks, aligned.outputs, pushes, nodes, inputs, outputs)
          /\ (k < n => calls[k].block \in aligned.outputs)
      BY <2>2 DEF Matches, CallsMatch
    <3> QED
      BY <1>8, <2>1, <3>1 DEF CallMatches, IsOpen
  <2>4. \A b : Closed(b)' <=> Closed(b)
    BY <1>5, <1>8, <2>1 DEF Closed
  <2>5. OutputsMatch(E)'
    BY <2>1, <2>2, <2>4 DEF Matches, OutputsMatch, Blocks
  <2>6. InputsMatch' /\ EdgesMatch'
    BY <2>1, <2>2 DEF Matches, InputsMatch, EdgesMatch, Blocks
  <2> QED
    BY <2>1, <2>2, <2>3, <2>5, <2>6 DEF Matches
<1>11. CASE t \notin aligned.outputs
  <2>1. ~(Len(Stack) > Len(initial[t]))
    <3> SUFFICES ASSUME Len(Stack) > Len(initial[t]) PROVE FALSE
      OBVIOUS
    <3>1. Stop("undefined")
      BY <1>11 DEF Descend, t
    <3>2. Level(E)'
      BY DescendLevel
    <3> QED
      BY <3>1, <3>2 DEF Stop, Level, OutcomeLevel
  <2>2. /\ calls' = Append(Waiting, e) /\ inputs' = [inputs EXCEPT ![t] = Stack]
        /\ nodes' = Entered(Stack, initial[t])
        /\ UNCHANGED <<blocks, pushes, outputs, initial, aligned, outcome>>
    BY <1>11, <2>1 DEF Descend, t, e, links
  <2>3. t \in Blocks /\ inputs'[t] = Stack /\ \A b \in Blocks : b # t => inputs'[b] = inputs[b]
    BY <1>2, <1>4, <2>2 DEF Types
  <2>4. Matches(E)
    <3>1. aligned.outputs \subseteq Blocks
      BY <1>2 DEF Types
    <3>2. \A b \in aligned.outputs : inputs'[b] = inputs[b] /\ outputs'[b] = outputs[b]
      BY <1>11, <2>2, <2>3, <3>1
    <3>3. NonePassed(E)
      BY <1>1, <2>2, <3>2, PassedBefore DEF Running
    <3> QED
      BY <2>2, <3>3 DEF Matched
  <2>5. Stack = outputs[B]
    BY <1>3, <1>7, <2>4 DEF Matches, CallsMatch, CallMatches
  <2>6. nodes' = nodes
    <3>1. Fits(nodes, initial[t], Stack)
      BY <1>4, <1>7, <2>4, <2>5 DEF Matches, EdgesMatch
    <3> QED
      BY <1>2, <2>2, <3>1, EnteredSame
  <2>7. /\ Len(calls') = n + 1 /\ calls'[n + 1] = e
        /\ \A k \in 1 .. n : calls'[k] = Waiting[k]
    <3> DEFINE S == Call(blocks, nodes) \cup {e}
    <3>1. Waiting \in Seq(S) /\ e \in S
      <4>1. ActiveCalls(Waiting, blocks, nodes, aligned.outputs)
        BY <1>1, <1>6, WaitingProperties
      <4>2. Waiting \in Seq(Call(blocks, nodes))
        BY <4>1 DEF ActiveCalls
      <4> DEFINE U == Call(blocks, nodes)
      <4> HIDE DEF U
      <4>3. U \subseteq U \cup {e} /\ Waiting \in Seq(U)
        BY <4>2 DEF U
      <4>4. Waiting \in Seq(U \cup {e})
        BY <4>3, SeqMonotonic
      <4> QED
        BY <4>4 DEF U
    <3> HIDE DEF S
    <3> QED
      BY <1>5, <2>2, <3>1, AppendProperties
  <2>8. \A k \in 1 .. n + 1 : k \in 1 .. n \/ k = n + 1
    BY <1>3
  <2>9. \A k \in 1 .. n : k \in 1 .. n + 1 /\ k < n + 1
    BY <1>3
  <2>10. e.block = t /\ e.at = 1 /\ e.stack = Stack
    BY DEF e, Enter
  <2>11. IsOpen(e, blocks)
    <3>1. Len(blocks[t]) \in Nat
      BY <1>2, <2>3, BlockProperties DEF Types
    <3> QED
      BY <2>10, <3>1 DEF IsOpen
  <2>12. Stackable(Stack, t, blocks, aligned.outputs, pushes, nodes)
    <3>1. Stackable(Stack, B, blocks, aligned.outputs, pushes, nodes)
      BY <1>2, <2>4, <2>5 DEF Matches, OutputsMatch
    <3> QED
      BY <1>7, <3>1 DEF Stackable, Elements
  <2>13. FoundOrPushed(Stack, Stack, PushNodes(pushes, t), nodes)
    <3>1. DOMAIN Stack = 1 .. Len(Stack)
      BY <1>2, LenProperties DEF NodeList
    <3> QED
      BY <3>1 DEF FoundOrPushed, Range
  <2>14. CallsMatch'
    <3> SUFFICES ASSUME NEW k \in 1 .. n + 1
                 PROVE  /\ CallMatches(calls'[k], blocks, aligned.outputs, pushes, nodes, inputs', outputs)
                        /\ k < n + 1 => calls'[k].block \in aligned.outputs
      BY <2>2, <2>6, <2>7 DEF CallsMatch
    <3>1. CASE k \in 1 .. n
      <4>1. /\ calls[k].stack = outputs[calls[k].block]
            /\ k < n => calls[k].block \in aligned.outputs
        BY <1>9, <2>4, <3>1 DEF Matches, CallsMatch, CallMatches
      <4>2. calls[k].block \in aligned.outputs
        <5>1. k < n \/ k = n
          BY <1>3, <3>1
        <5> QED
          BY <1>3, <1>7, <4>1, <5>1
      <4>3. ~IsOpen(calls'[k], blocks)
        BY <1>8, <1>9, <2>7, <3>1 DEF IsOpen
      <4> QED
        BY <1>8, <2>7, <3>1, <4>1, <4>2, <4>3 DEF CallMatches
    <3>2. CASE k = n + 1
      <4>1. CallMatches(e, blocks, aligned.outputs, pushes, nodes, inputs', outputs)
        BY <2>3, <2>10, <2>11, <2>12, <2>13 DEF CallMatches
      <4>2. ~(k < n + 1)
        BY <1>3, <3>2
      <4> QED
        BY <2>7, <3>2, <4>1, <4>2
    <3> QED
      BY <2>8, <3>1, <3>2
  <2>15. OutputsMatch(E)'
    <3> SUFFICES ASSUME NEW b \in Blocks
                 PROVE  /\ outputs[b] # <<>> => b \in DOMAIN E
                        /\ Stackable(outputs[b], b, blocks, aligned.outputs, pushes, nodes)
                        /\ Closed(b)' => FoundOrPushed(outputs[b], inputs'[b], PushNodes(pushes, b), nodes)
      BY <2>2, <2>6 DEF OutputsMatch, Blocks
    <3>1. /\ outputs[b] # <<>> => b \in DOMAIN E
          /\ Stackable(outputs[b], b, blocks, aligned.outputs, pushes, nodes)
          /\ Closed(b) => FoundOrPushed(outputs[b], inputs[b], PushNodes(pushes, b), nodes)
      BY <2>4 DEF Matches, OutputsMatch
    <3>2. Closed(b)' => Closed(b) /\ b # t
      <4>1. Closed(b)' => Closed(b)
        BY <1>8, <2>2, <2>7, <2>9 DEF Closed
      <4>2. b = t => ~Closed(b)'
        <5>1. n + 1 \in 1 .. n + 1
          BY <1>3
        <5> QED
          BY <2>2, <2>7, <2>10, <2>11, <5>1 DEF Closed, IsOpen
      <4> QED
        BY <4>1, <4>2
    <3> QED
      BY <2>3, <3>1, <3>2
  <2>16. InputsMatch'
    <3> SUFFICES ASSUME NEW b \in Blocks, inputs'[b] # <<>>
                 PROVE  \E p \in aligned.outputs : b \in Range(To(blocks, p)) /\ inputs'[b] = outputs[p]
      BY <2>2 DEF InputsMatch, Blocks
    <3>1. CASE b = t
      BY <1>4, <1>7, <2>3, <2>5, <3>1
    <3>2. CASE b # t
      BY <2>3, <2>4, <3>2 DEF Matches, InputsMatch
    <3> QED
      BY <3>1, <3>2
  <2>17. EdgesMatch' /\ PushedOnce(pushes')
    BY <2>2, <2>4, <2>6 DEF Matches, EdgesMatch
  <2> QED
    BY <2>14, <2>15, <2>16, <2>17 DEF Matches
<1> QED
  BY <1>10, <1>11

\* A call that is through returns.
LEMMA ReturnMatched ==
  ASSUME IInv, Return, NEW E, Flow(blocks, E), Level(E), Matched(E)
  PROVE  Matched(E)'
<1> DEFINE n == Len(calls)
<1>1. /\ Running /\ Frame.at > Len(Body) + 1 /\ calls' = Front(calls)
      /\ UNCHANGED <<blocks, nodes, pushes, inputs, outputs, initial, aligned, outcome>>
  BY DEF Return, perBlock, links
<1>2. /\ Frame.at \in Nat /\ Len(Body) \in Nat
      /\ calls # <<>> /\ ActiveCalls(calls, blocks, nodes, aligned.outputs)
  <2>1. /\ Types /\ B \in Blocks /\ Frame.at \in 1 .. Len(Body) + 2
        /\ calls # <<>> /\ ActiveCalls(calls, blocks, nodes, aligned.outputs)
    BY <1>1, FrameProperties DEF IInv, Types
  <2>2. Len(Body) \in Nat
    BY <2>1, BlockProperties, LenProperties DEF Types, Body, Blocks
  <2> QED
    BY <2>1, <2>2
<1>3. n \in Nat /\ 1 <= n /\ Frame = calls[n]
  BY <1>1, TopLevel
<1>4. Len(calls') = n - 1 /\ \A k \in 1 .. n - 1 : calls'[k] = calls[k] /\ k \in 1 .. n /\ k < n
  <2> DEFINE S == Call(blocks, nodes)
  <2>1. calls \in Seq(S)
    BY <1>2 DEF ActiveCalls
  <2> HIDE DEF S
  <2>2. Len(calls') = n - 1 /\ \A k \in 1 .. n - 1 : calls'[k] = calls[k]
    BY <1>1, <1>2, <2>1, FrontProperties
  <2> QED
    BY <1>3, <2>2
<1>5. \A k \in 1 .. n : k \in 1 .. n - 1 \/ k = n
  BY <1>3
<1> SUFFICES ASSUME OwnsOne(blocks, E)', NonePassed(E)' PROVE Matches(E)'
  BY DEF Matched
<1>6. Matches(E)
  <2>1. NonePassed(E)
    BY <1>1, PassedBefore DEF Running
  <2> QED
    BY <1>1, <2>1 DEF Matched
<1>7. CallsMatch'
  BY <1>1, <1>4, <1>6 DEF Matches, CallsMatch
<1>8. \A b : Closed(b)' => Closed(b)
  <2> SUFFICES ASSUME NEW b, Closed(b)', NEW k \in 1 .. n, calls[k].block = b
               PROVE  ~(calls[k].at <= Len(blocks[b]) + 1)
    BY DEF Closed
  <2>1. CASE k = n
    BY <1>1, <1>2, <1>3, <2>1 DEF B, Body
  <2>2. CASE k # n
    BY <1>1, <1>4, <1>5, <2>2 DEF Closed
  <2> QED
    BY <2>1, <2>2
<1>9. OutputsMatch(E)'
  BY <1>1, <1>6, <1>8 DEF Matches, OutputsMatch, Blocks
<1>10. InputsMatch' /\ EdgesMatch' /\ PushedOnce(pushes')
  BY <1>1, <1>6 DEF Matches, InputsMatch, EdgesMatch, Blocks
<1> QED
  BY <1>7, <1>9, <1>10 DEF Matches

\* The elements the exit block leaves are put into the registers that are returned.
LEMMA FinishMatched ==
  ASSUME IInv, Finish, NEW E, Flow(blocks, E), Level(E), Matched(E)
  PROVE  Matched(E)'
<1> DEFINE x    == ExitBlock
           list == outputs[x]
           regs == [i \in DOMAIN list |-> Returned(nodes[list[i]].back)]
           own  == PushNodes(pushes, x)
<1>1. /\ nodes' = Redefine(nodes, list, regs) /\ calls = <<>> /\ outcome = "running"
      /\ outcome' = "done"
      /\ UNCHANGED <<blocks, pushes, inputs, outputs, initial, aligned, calls>>
  BY DEF Finish, perBlock, links
<1>2. /\ Types /\ Nodes(nodes) /\ blocks \in Graphs
      /\ NodesOfInstructions(pushes, blocks, nodes)
      /\ outputs \in [Blocks -> NodeList(nodes)] /\ aligned.outputs \subseteq Blocks
  BY DEF IInv, Types
<1>3. x \in Blocks /\ To(blocks, x) = <<>>
  BY <1>2, LastBlock DEF To, NextBBs
<1>4. list \in NodeList(nodes)
  BY <1>2, <1>3
<1>5. x \notin aligned.outputs
  BY <1>3 DEF Level, OutputsLevel
<1>6. \A b : Closed(b) /\ Closed(b)'
  BY <1>1 DEF Closed
<1> HIDE DEF list
<1>7. DOMAIN list = 1 .. Len(list) /\ \A i \in 1 .. Len(list) : list[i] \in 1 .. Len(nodes)
  BY <1>4, ElementOfSeq, LenProperties DEF NodeList
<1>8. ASSUME NEW i \in 1 .. Len(list) PROVE regs[i] \in Registers
  <2> DEFINE r == nodes[list[i]].back
  <2>1. nodes[list[i]] \in Node
    BY <1>2, <1>7, ElementOfSeq DEF Nodes
  <2>2. r \in Registers
    BY <2>1 DEF Node
  <2>3. regs[i] = Returned(r)
    BY <1>7
  <2> HIDE DEF r, regs
  <2>4. Returned(r) \in Registers
    BY <2>2 DEF Returned, Registers
  <2> QED
    BY <2>3, <2>4
<1> HIDE DEF regs
<1> SUFFICES ASSUME OwnsOne(blocks, E)', NonePassed(E)' PROVE Matches(E)'
  BY DEF Matched
<1>9. Matches(E)
  <2>1. NonePassed(E)
    BY <1>1, PassedBefore
  <2> QED
    BY <1>1, <2>1 DEF Matched
<1>10. \A i \in 1 .. Len(list) : nodes[list[i]].prev \in own
  <2> SUFFICES ASSUME NEW i \in 1 .. Len(list) PROVE nodes[list[i]].prev \in own
    OBVIOUS
  <2>1. list[i] \in Range(list) /\ list # <<>>
    BY <1>7 DEF Range
  <2>2. x \in DOMAIN E /\ FoundOrPushed(list, inputs[x], own, nodes)
    BY <1>3, <1>6, <1>9, <2>1 DEF Matches, OutputsMatch, list
  <2>3. Range(inputs[x]) \cap Range(list) = {}
    BY <1>1, <2>2 DEF NonePassed, PassesOn, ExitBlock, list
  <2> QED
    BY <2>1, <2>2, <2>3 DEF FoundOrPushed
<1>11. own \subseteq 1 .. Len(nodes) /\ 0 \notin own
  <2>1. own \subseteq 1 .. Len(nodes)
    BY <1>2, <1>3, PushNodesRange DEF Blocks
  <2> QED
    BY <2>1
<1>12. Confined(nodes', nodes, own)
  <2> HIDE DEF own
  <2>1. \A i \in 1 .. Len(list) : nodes[list[i]].prev # 0
    BY <1>10, <1>11
  <2>2. Confined(Redefine(nodes, list, regs), nodes, own)
    BY <1>2, <1>4, <1>8, <1>10, <2>1, RedefinedConfined
  <2> QED
    BY <1>1, <2>2
<1>13. StepOf(x)
  <2>1. PushesNew(pushes', pushes, nodes, x)
    BY <1>1, <1>2, SamePushes
  <2> QED
    BY <1>1, <1>3, <1>5, <1>12, <2>1 DEF StepOf
<1>14. PushedOnce(pushes) /\ PushedOnce(pushes')
  BY <1>1, <1>9 DEF Matches
<1>15. \A b \in Blocks : outputs[b] \in NodeList(nodes)
                         /\ Stackable(outputs[b], b, blocks, aligned.outputs, pushes, nodes)
  BY <1>2, <1>9 DEF Matches, OutputsMatch
<1>16. CallsMatch'
  BY <1>1 DEF CallsMatch
<1>17. OutputsMatch(E)'
  <2> SUFFICES ASSUME NEW b \in Blocks
               PROVE  /\ outputs[b] # <<>> => b \in DOMAIN E
                      /\ Stackable(outputs[b], b, blocks, aligned'.outputs, pushes', nodes')
                      /\ FoundOrPushed(outputs[b], inputs[b], PushNodes(pushes', b), nodes')
    BY <1>1 DEF OutputsMatch, Blocks
  <2>1. /\ outputs[b] # <<>> => b \in DOMAIN E
        /\ FoundOrPushed(outputs[b], inputs[b], PushNodes(pushes, b), nodes)
    BY <1>6, <1>9 DEF Matches, OutputsMatch
  <2> QED
    BY <1>2, <1>13, <1>14, <1>15, <2>1, ListStays
<1>18. InputsMatch'
  BY <1>1, <1>9 DEF Matches, InputsMatch, Blocks
<1>19. EdgesMatch'
  <2> SUFFICES ASSUME NEW b \in aligned.outputs, NEW t \in Range(To(blocks, b))
               PROVE  Fits(nodes', initial[t], outputs[b])
    BY <1>1 DEF EdgesMatch
  <2>1. b \in Blocks /\ Fits(nodes, initial[t], outputs[b])
    BY <1>2, <1>9 DEF Matches, EdgesMatch
  <2> QED
    BY <1>2, <1>13, <1>14, <1>15, <2>1, ListStays
<1> QED
  BY <1>14, <1>16, <1>17, <1>18, <1>19 DEF Matches

\* Before the walk no block has anything on its stack.
LEMMA InitialMatched ==
  ASSUME Init, NEW E
  PROVE  Matched(E)
<1> DEFINE c == Enter(1, <<>>, 0)
<1>1. /\ blocks \in Graphs /\ pushes = PerInstruction /\ aligned = [inputs |-> {}, outputs |-> {}]
      /\ inputs = [b \in Blocks |-> <<>>] /\ outputs = [b \in Blocks |-> <<>>]
      /\ calls = <<c>>
  BY DEF Init, PerBlock
<1>2. 1 \in Blocks
  BY <1>1, BlockProperties
<1>3. c.block = 1 /\ c.stack = <<>>
  BY DEF Enter
<1> HIDE DEF c
<1>4. Len(calls) = 1 /\ calls[1] = c /\ \A k \in 1 .. Len(calls) : k = 1
  BY <1>1
<1>5. \A i \in 1 .. Len(<<>>) : FALSE
  BY Len(<<>>) = 0
<1>6. PushedOnce(pushes)
  <2>1. \A b \in DOMAIN pushes : PushNodes(pushes, b) = {}
    <3> SUFFICES ASSUME NEW b \in DOMAIN pushes, NEW n \in PushNodes(pushes, b) PROVE FALSE
      OBVIOUS
    <3>1. PICK i \in DOMAIN pushes[b] : n \in Range(pushes[b][i])
      BY PushNode
    <3>2. pushes[b][i] = <<>>
      BY <1>1, <3>1 DEF PerInstruction
    <3> QED
      BY <3>1, <3>2 DEF Range
  <2> QED
    BY <2>1 DEF PushedOnce
<1>7. \A b : Stackable(<<>>, b, blocks, aligned.outputs, pushes, nodes)
  BY <1>5 DEF Stackable, Elements, Apart
<1>8. \A ins, own : FoundOrPushed(<<>>, ins, own, nodes)
  BY <1>5 DEF FoundOrPushed
<1>9. CallsMatch
  <2>1. CallMatches(c, blocks, aligned.outputs, pushes, nodes, inputs, outputs)
    BY <1>1, <1>2, <1>3, <1>7, <1>8 DEF CallMatches
  <2> QED
    BY <1>4, <2>1 DEF CallsMatch
<1>10. OutputsMatch(E)
  BY <1>1, <1>7, <1>8 DEF OutputsMatch
<1>11. InputsMatch /\ EdgesMatch
  BY <1>1 DEF InputsMatch, EdgesMatch
<1> QED
  BY <1>6, <1>9, <1>10, <1>11 DEF Matched, Matches

\* Every flow there is.
AllMatched == \A E : Flow(blocks, E) => Matched(E)

\* The walk keeps this, whatever the graph.
LEMMA MatchedInvariant == Spec => []AllMatched
<1>1. Init => AllMatched
  BY InitialMatched DEF AllMatched
<1>2. IInv /\ AllLevel /\ AllMatched /\ [Next]_vars => AllMatched'
  <2> SUFFICES ASSUME IInv, AllLevel, AllMatched, [Next]_vars, NEW E, Flow(blocks', E)
               PROVE  Matched(E)'
    BY DEF AllMatched
  <2>1. blocks' = blocks
    BY DEF Next, vars, Propagate, StoreLocal, LoadLocal, CloseBlock, Descend, Return, Finish,
           Ended, Stop
  <2>2. Flow(blocks, E) /\ Level(E) /\ Matched(E)
    BY <2>1 DEF AllLevel, AllMatched
  <2>3. CASE Propagate
    BY <2>2, <2>3, PropagateMatched
  <2>4. CASE StoreLocal
    BY <2>2, <2>4, StoreLocalMatched
  <2>5. CASE LoadLocal
    BY <2>2, <2>5, LoadLocalMatched
  <2>6. CASE CloseBlock
    BY <2>2, <2>6, CloseBlockMatched
  <2>7. CASE Descend
    BY <2>2, <2>7, DescendMatched
  <2>8. CASE Return
    BY <2>2, <2>8, ReturnMatched
  <2>9. CASE Finish
    BY <2>2, <2>9, FinishMatched
  <2>10. CASE UNCHANGED vars
    BY <2>2, <2>10, SameMatched DEF vars, perBlock, links
  <2> QED
    BY <2>3, <2>4, <2>5, <2>6, <2>7, <2>8, <2>9, <2>10 DEF Next, Ended
<1> QED
  BY <1>1, <1>2, Invariant, LevelInvariant, PTL DEF Spec

\* Of the blocks of a path, one owns a successor if it has two.
LEMMA SplitsOwn ==
  ASSUME SplitOwnsOne, DOMAIN TheState = Reached, \A b \in Reached : b \in Blocks,
         blocks \in Graphs
  PROVE  OwnsOne(blocks, TheState)
<1> SUFFICES ASSUME NEW b \in Reached, Len(To(blocks, b)) = 2
             PROVE  \E t \in Range(To(blocks, b)) :
                      \A c \in Reached : t \in Range(To(blocks, c)) => c = b
  BY DEF OwnsOne
<1>1. \A c : To(blocks, c) = NextBBs(c)
  BY DEF To, NextBBs
<1>2. PICK t \in Range(NextBBs(b)) : {e[1] : e \in EdgesInto(t)} = {b}
  BY <1>1 DEF SplitOwnsOne
<1>3. ASSUME NEW c \in Reached, t \in Range(NextBBs(c)) PROVE c = b
  <2> DEFINE nx == NextBBs(c)
  <2>1. PICK i \in DOMAIN nx : nx[i] = t
    BY <1>3 DEF Range
  <2>2. i \in {1, 2}
    <3>1. c \in Blocks
      OBVIOUS
    <3>2. nx \in Seq(Blocks) /\ Len(nx) <= 2
      BY <3>1, BlockProperties
    <3> HIDE DEF nx
    <3>3. i \in 1 .. Len(nx) /\ Len(nx) \in Nat
      BY <2>1, <3>2, LenProperties
    <3> QED
      BY <3>2, <3>3
  <2>3. <<c, i>> \in EdgesInto(t) /\ <<c, i>>[1] = c
    BY <2>1, <2>2 DEF EdgesInto
  <2>4. c \in {e[1] : e \in EdgesInto(t)}
    BY <2>3
  <2> QED
    BY <1>2, <2>4
<1> QED
  BY <1>1, <1>2, <1>3

\* RegistersMatch, for all words: if every branch has a successor of its own and
\* no element is only passed on by a block, every element is stored to the
\* register its successors read it from, and read from it.
THEOREM RegistersAlwaysMatch == Spec => []RegistersMatch
<1>1. IInv /\ AllLevel /\ AllMatched => RegistersMatch
  <2> SUFFICES ASSUME IInv, AllLevel, AllMatched, outcome = "done", Balanced, SplitOwnsOne, NothingPassed,
                      NEW b \in Reached, NEW t \in Range(NextBBs(b)), NEW i \in DOMAIN outputs[b]
               PROVE  /\ nodes[nodes[outputs[b][i]].prev].forth = initial[t][i]
                      /\ i \in DOMAIN inputs[t] => nodes[inputs[t][i]].back = initial[t][i]
    BY DEF RegistersMatch, Aligned
  <2> DEFINE E == TheState
  <2>1. /\ Types /\ blocks \in Graphs
        /\ outputs \in [Blocks -> NodeList(nodes)] /\ inputs \in [Blocks -> NodeList(nodes)]
    BY DEF IInv, Types
  <2>2. /\ Flow(blocks, E) /\ DOMAIN E = Reached
        /\ \A c \in Reached : c \in Blocks
    BY <2>1, BalancedFlow
  <2>3. Level(E) /\ Matched(E)
    BY <2>2 DEF AllLevel, AllMatched
  <2>4. OwnsOne(blocks, E)
    BY <2>1, <2>2, SplitsOwn
  <2> HIDE DEF E
  <2>5. NonePassed(E)
    <3>1. aligned.outputs \subseteq Reached
      BY <2>2, <2>3 DEF Level, OutputsLevel
    <3> QED
      BY <2>2, <3>1 DEF NonePassed, PassesOn, NothingPassed
  <2>6. Matches(E)
    BY <2>3, <2>4, <2>5 DEF Matched
  <2>7. \A c : ~Active(c) /\ ~IsLeft(c)
    <3>1. Len(calls) = 0
      BY <2>3 DEF Level, OutcomeLevel
    <3> QED
      BY <3>1 DEF Active, IsLeft
  <2>8. Reached \subseteq aligned.inputs \cup {1}
    <3> DEFINE A == aligned.inputs \cup {1}
    <3>1. \A c \in A : Range(To(blocks, c)) \subseteq aligned.inputs
      <4> SUFFICES ASSUME NEW c \in A PROVE Range(To(blocks, c)) \subseteq aligned.inputs
        OBVIOUS
      <4>1. c \in aligned.outputs \/ To(blocks, c) = <<>>
        BY <2>3, <2>7 DEF Level, SeenLevel
      <4>2. Range(<<>>) = {}
        BY DEF Range
      <4> QED
        BY <2>3, <4>1, <4>2 DEF Level, OutputsLevel
    <3>2. \A c \in Blocks : c \in A => Range(NextBBs(c)) \subseteq A
      BY <3>1 DEF To, NextBBs
    <3> HIDE DEF A
    <3>3. 1 \in A
      BY DEF A
    <3>4. Reached \subseteq A
      BY <2>1, <3>2, <3>3, ReachedCovered
    <3> QED
      BY <3>4 DEF A
  <2>9. To(blocks, b) = NextBBs(b) /\ To(blocks, b) # <<>>
    BY DEF To, NextBBs, Range
  <2>10. b \in aligned.outputs
    BY <2>3, <2>7, <2>8, <2>9 DEF Level, SeenLevel
  <2>11. t \in Blocks /\ b \in Blocks
    <3>1. t \in aligned.inputs
      BY <2>3, <2>9, <2>10 DEF Level, OutputsLevel
    <3> QED
      BY <2>1, <2>2, <3>1 DEF Types
  <2>12. Fits(nodes, initial[t], outputs[b])
    BY <2>6, <2>9, <2>10 DEF Matches, EdgesMatch
  <2>13. DOMAIN outputs[b] = 1 .. Len(outputs[b]) /\ DOMAIN inputs[t] = 1 .. Len(inputs[t])
    <3>1. outputs[b] \in NodeList(nodes) /\ inputs[t] \in NodeList(nodes)
      BY <2>1, <2>11
    <3> QED
      BY <3>1, LenProperties DEF NodeList
  <2>14. nodes[nodes[outputs[b][i]].prev].forth = initial[t][i]
    BY <2>12, <2>13 DEF Fits
  <2>15. ASSUME i \in DOMAIN inputs[t] PROVE nodes[inputs[t][i]].back = initial[t][i]
    <3>1. inputs[t] # <<>>
      BY <2>15
    <3>2. PICK p \in aligned.outputs : t \in Range(To(blocks, p)) /\ inputs[t] = outputs[p]
      BY <2>6, <2>11, <3>1 DEF Matches, InputsMatch
    <3>3. Fits(nodes, initial[t], inputs[t])
      BY <2>6, <3>2 DEF Matches, EdgesMatch
    <3> QED
      BY <2>13, <2>15, <3>3 DEF Fits
  <2> QED
    BY <2>14, <2>15
<1> QED
  BY <1>1, Invariant, LevelInvariant, MatchedInvariant, PTL
=============================================================================
