--------------------------- MODULE StackGraphProofs ---------------------------
(***************************************************************************)
(* Theorems about StackGraph: its types, and that the registers blocks pass*)
(* elements in are distinct, for all words, whatever they call.            *)
(***************************************************************************)
EXTENDS StackGraph, SequenceLemmas

-----------------------------------------------------------------------------
(***************************************************************************)
(* Links between nodes.                                                    *)
(***************************************************************************)
Node == [prev : Nat, back : Registers, forth : Registers]

\* A list of nodes, of which each has a place in ns for the one before it.
Nodes(ns) ==
  /\ ns \in Seq(Node)
  /\ \A n \in 1 .. Len(ns) : ns[n].prev \in 0 .. Len(ns)

\* A node is read from a parameter up to the P-th, if from one at all.
ReadsUpTo(r, P) == r.type = "param" => r.index <= P
ParamsUpTo(ns, P) == \A n \in 1 .. Len(ns) : ReadsUpTo(ns[n].back, P)
KeepsParams(ms, ns) == \A P : ParamsUpTo(ns, P) => ParamsUpTo(ms, P)

\* Nodes are never lost, nor what is before them.
Extends(ms, ns) ==
  /\ Nodes(ms) /\ Len(ns) <= Len(ms)
  /\ \A n \in 1 .. Len(ns) : ns[n].prev # 0 => ms[n].prev # 0

\* Lists of nodes in ns, and such without the same node twice.
NodeList(ns) == Seq(1 .. Len(ns))
Distinct(list) == \A i, j \in 1 .. Len(list) : list[i] = list[j] => i = j

\* The elements of a stack are distinct nodes, that have one before them.
IsStack(list, ns) ==
  /\ list \in NodeList(ns) /\ Distinct(list)
  /\ \A i \in 1 .. Len(list) : ns[list[i]].prev # 0

LEMMA NoRegisterType == NoRegister \in Registers
BY DEF NoRegister, Registers

LEMMA LastAtProperties ==
  ASSUME NEW S, NEW list \in Seq(S), NEW n \in Range(list)
  PROVE  /\ LastAt(list, n) \in 1 .. Len(list)
         /\ list[LastAt(list, n)] = n
<1> DEFINE T == {i \in DOMAIN list : list[i] = n}
<1>1. Len(list) \in Nat /\ DOMAIN list = 1 .. Len(list)
  BY LenProperties
<1>2. T \in SUBSET (1 .. Len(list))
  BY <1>1
<1>3. T # {}
  BY DEF Range
<1>4. \E m \in T : \A k \in T : k <= m
  BY <1>1, <1>2, <1>3, GreatestElement
<1>5. \E m \in T : \A k \in T : m >= k
  BY <1>2, <1>4
<1>6. Max(T) \in T
  BY <1>5, Zenon DEF Max
<1> QED
  BY <1>1, <1>6 DEF LastAt

\* What link does: only the nodes of list get another predecessor, one of prevs.
LinksBack(ms, ns, prevs, list, regs) ==
  /\ Nodes(ms) /\ Len(ms) = Len(ns)
  /\ \A n \in 1 .. Len(ns) :
       \/ n \notin Range(list) /\ ms[n] = ns[n]
       \/ \E i \in 1 .. Len(list) :
            list[i] = n /\ ms[n] = [ns[n] EXCEPT !.prev = prevs[i], !.back = regs[i]]

LEMMA Linked ==
  ASSUME NEW ns, Nodes(ns),
         NEW prevs, NEW list \in NodeList(ns), NEW regs,
         \A i \in 1 .. Len(list) : prevs[i] \in 0 .. Len(ns) /\ regs[i] \in Registers
  PROVE  LinksBack(Link(ns, prevs, list, regs), ns, prevs, list, regs)
<1> DEFINE m  == Len(list)
           ms == Link(ns, prevs, list, regs)
<1>1. Len(ns) \in Nat /\ DOMAIN ns = 1 .. Len(ns) /\ \A n \in 1 .. Len(ns) : ns[n] \in Node
  BY LenProperties, ElementOfSeq DEF Nodes
<1>2. \A n \in 1 .. Len(ns) :
        ms[n] = IF n \notin Range(list) THEN ns[n]
                ELSE [ns[n] EXCEPT !.prev = prevs[LastAt(list, n)], !.back = regs[LastAt(list, n)]]
  BY <1>1 DEF Link
<1>3. ms = [n \in 1 .. Len(ns) |-> ms[n]]
  BY <1>1 DEF Link
<1> HIDE DEF ms
<1>4. \A n \in 1 .. Len(ns) :
        \/ n \notin Range(list) /\ ms[n] = ns[n]
        \/ \E i \in 1 .. m : list[i] = n /\ ms[n] = [ns[n] EXCEPT !.prev = prevs[i], !.back = regs[i]]
  <2> SUFFICES ASSUME NEW n \in 1 .. Len(ns), n \in Range(list)
               PROVE  \E i \in 1 .. m :
                        list[i] = n /\ ms[n] = [ns[n] EXCEPT !.prev = prevs[i], !.back = regs[i]]
    BY <1>2
  <2>1. LastAt(list, n) \in 1 .. m /\ list[LastAt(list, n)] = n
    BY LastAtProperties DEF NodeList
  <2> QED
    BY <1>2, <2>1
<1>5. \A n \in 1 .. Len(ns) : ms[n] \in Node /\ ms[n].prev \in 0 .. Len(ns)
  <2> SUFFICES ASSUME NEW n \in 1 .. Len(ns)
               PROVE  ms[n] \in Node /\ ms[n].prev \in 0 .. Len(ns)
    OBVIOUS
  <2>1. CASE ms[n] = ns[n]
    BY <2>1, <1>1 DEF Nodes
  <2>2. ASSUME NEW i \in 1 .. m,  ms[n] = [ns[n] EXCEPT !.prev = prevs[i], !.back = regs[i]]
        PROVE  ms[n] \in Node /\ ms[n].prev \in 0 .. Len(ns)
    <3>1. ns[n] \in Node /\ prevs[i] \in 0 .. Len(ns) /\ regs[i] \in Registers
      BY <1>1
    <3> DEFINE a == prevs[i]
               x == regs[i]
               r == ns[n]
    <3>2. a \in Nat /\ x \in Registers /\ r \in Node
      BY <3>1, <1>1
    <3> HIDE DEF a, x, r
    <3>3. [r EXCEPT !.prev = a, !.back = x] \in Node
          /\ [r EXCEPT !.prev = a, !.back = x].prev = a
      BY <3>2 DEF Node
    <3> QED
      BY <2>2, <3>1, <3>3 DEF a, x, r
  <2> QED
    BY <1>4, <2>1, <2>2
<1>6. ms \in Seq(Node) /\ Len(ms) = Len(ns)
  <2>1. ms \in [1 .. Len(ns) -> Node]
    BY <1>3, <1>5
  <2> QED
    BY <1>1, <2>1, Listed
<1>7. Nodes(ms)
  BY <1>5, <1>6 DEF Nodes
<1> QED
  BY <1>4, <1>6, <1>7 DEF ms, LinksBack

\* What link_bidirection does to the types, and to the nodes of list when these
\* are distinct.
IsLink(ms, ns, prevs, list, regs) ==
  /\ Nodes(ms) /\ Len(ms) = Len(ns)
  /\ \A n \in 1 .. Len(ns) :
       \/ n \notin Range(list) /\ ms[n].prev = ns[n].prev /\ ms[n].back = ns[n].back
       \/ \E i \in 1 .. Len(list) : list[i] = n /\ ms[n].prev = prevs[i] /\ ms[n].back = regs[i]

LEMMA LinkedBoth ==
  ASSUME NEW ns, Nodes(ns),
         NEW prevs, NEW list \in NodeList(ns), NEW regs,
         prevs \in Seq(0 .. Len(ns)), Len(prevs) = Len(list),
         \A i \in 1 .. Len(list) : regs[i] \in Registers
  PROVE  IsLink(LinkBoth(ns, prevs, list, regs), ns, prevs, list, regs)
<1> DEFINE m  == Len(list)
           ls == Link(ns, prevs, list, regs)
           ms == LinkBoth(ns, prevs, list, regs)
<1>1. Len(ns) \in Nat /\ DOMAIN ns = 1 .. Len(ns) /\ m \in Nat
  BY LenProperties DEF Nodes, NodeList
<1>2. \A i \in 1 .. m : prevs[i] \in 0 .. Len(ns)
  BY ElementOfSeq
<1>3. /\ Nodes(ls) /\ Len(ls) = Len(ns)
      /\ \A n \in 1 .. Len(ns) :
           \/ n \notin Range(list) /\ ls[n] = ns[n]
           \/ \E i \in 1 .. m : list[i] = n /\ ls[n] = [ns[n] EXCEPT !.prev = prevs[i], !.back = regs[i]]
  <2>1. LinksBack(ls, ns, prevs, list, regs)
    BY <1>2, Linked
  <2> QED
    BY <2>1 DEF LinksBack
<1>4. \A n \in 1 .. Len(ns) :
        ms[n] = IF n \notin Range(prevs) THEN ls[n]
                ELSE [ls[n] EXCEPT !.forth = regs[LastAt(prevs, n)]]
  BY <1>1 DEF LinkBoth
<1>5. ms = [n \in 1 .. Len(ns) |-> ms[n]]
  BY <1>1 DEF LinkBoth
<1> HIDE DEF ls, ms
<1>6. \A n \in 1 .. Len(ns) : ls[n] \in Node /\ ls[n].prev \in 0 .. Len(ns)
  BY <1>3, ElementOfSeq DEF Nodes
<1>7. \A n \in 1 .. Len(ns) :
        ms[n] \in Node /\ ms[n].prev = ls[n].prev /\ ms[n].back = ls[n].back
  <2> SUFFICES ASSUME NEW n \in 1 .. Len(ns)
               PROVE  ms[n] \in Node /\ ms[n].prev = ls[n].prev /\ ms[n].back = ls[n].back
    OBVIOUS
  <2>1. CASE n \notin Range(prevs)
    BY <2>1, <1>4, <1>6
  <2>2. CASE n \in Range(prevs)
    <3>1. LastAt(prevs, n) \in 1 .. m
      BY <2>2, LastAtProperties
    <3>2. regs[LastAt(prevs, n)] \in Registers /\ ls[n] \in Node
      BY <3>1, <1>6
    <3>3. ms[n] = [ls[n] EXCEPT !.forth = regs[LastAt(prevs, n)]]
      BY <2>2, <1>4
    <3> QED
      BY <3>2, <3>3 DEF Node
  <2> QED
    BY <2>1, <2>2
<1>8. ms \in Seq(Node) /\ Len(ms) = Len(ns)
  <2>1. ms \in [1 .. Len(ns) -> Node]
    BY <1>5, <1>7
  <2> QED
    BY <1>1, <2>1, Listed
<1>9. Nodes(ms)
  BY <1>6, <1>7, <1>8 DEF Nodes
<1>10. \A n \in 1 .. Len(ns) :
         \/ n \notin Range(list) /\ ms[n].prev = ns[n].prev /\ ms[n].back = ns[n].back
         \/ \E i \in 1 .. m : list[i] = n /\ ms[n].prev = prevs[i] /\ ms[n].back = regs[i]
  <2> SUFFICES ASSUME NEW n \in 1 .. Len(ns), NEW i \in 1 .. m, list[i] = n,
                      ls[n] = [ns[n] EXCEPT !.prev = prevs[i], !.back = regs[i]]
               PROVE  ms[n].prev = prevs[i] /\ ms[n].back = regs[i]
    BY <1>3, <1>7
  <2>1. ns[n] \in Node
    BY ElementOfSeq DEF Nodes
  <2> QED
    BY <2>1, <1>7 DEF Node
<1>11. IsLink(ms, ns, prevs, list, regs)
  BY <1>8, <1>9, <1>10 DEF IsLink
<1> QED
  BY <1>11 DEF ms

LEMMA ExtendsMore ==
  ASSUME NEW ns, NEW ms, NEW ls, Nodes(ns), Extends(ms, ns), Extends(ls, ms)
  PROVE  Extends(ls, ns)
<1>1. Len(ns) \in Nat /\ Len(ms) \in Nat /\ Len(ls) \in Nat
  BY LenProperties DEF Nodes, Extends
<1>2. \A n \in 1 .. Len(ns) : n \in 1 .. Len(ms)
  BY <1>1 DEF Extends
<1> QED
  BY <1>1, <1>2 DEF Extends

LEMMA ListsGrow ==
  ASSUME NEW ns, NEW ms, Nodes(ns), Extends(ms, ns)
  PROVE  NodeList(ns) \subseteq NodeList(ms)
<1>1. Len(ns) \in Nat /\ Len(ms) \in Nat /\ Len(ns) <= Len(ms)
  BY LenProperties DEF Nodes, Extends
<1>2. 1 .. Len(ns) \subseteq 1 .. Len(ms)
  BY <1>1
<1> QED
  BY <1>2, SeqMonotonic DEF NodeList

LEMMA StackGrows ==
  ASSUME NEW ns, NEW ms, NEW list, Nodes(ns), Extends(ms, ns), IsStack(list, ns)
  PROVE  IsStack(list, ms)
<1>1. list \in Seq(1 .. Len(ns)) /\ list \in NodeList(ms)
  BY ListsGrow DEF IsStack, NodeList
<1>2. \A i \in 1 .. Len(list) : list[i] \in 1 .. Len(ns)
  BY <1>1, ElementOfSeq
<1> QED
  BY <1>1, <1>2 DEF IsStack, Extends

\* What redefine_preceding_edge does for distinct nodes and registers of a block.
KeepsNormal(ns, list, regs) ==
  /\ Extends(Redefine(ns, list, regs), ns) /\ Len(Redefine(ns, list, regs)) = Len(ns)
  /\ \A i \in 1 .. Len(list) : Redefine(ns, list, regs)[list[i]].back = regs[i]
  /\ KeepsParams(Redefine(ns, list, regs), ns)

\* A list of new nodes, without links.
LEMMA NewNodes ==
  ASSUME NEW ns, Nodes(ns), NEW m \in Nat
  PROVE  /\ Nodes(WithNew(ns, m)) /\ Extends(WithNew(ns, m), ns)
         /\ Len(WithNew(ns, m)) = Len(ns) + m
         /\ \A n \in 1 .. Len(ns) : WithNew(ns, m)[n] = ns[n]
         /\ \A n \in 1 .. m : WithNew(ns, m)[Len(ns) + n] = NewNode
<1> DEFINE new == [i \in 1 .. m |-> NewNode]
           ms  == ns \o new
<1>1. Len(ns) \in Nat /\ ns \in Seq(Node)
  BY LenProperties DEF Nodes
<1>2. NewNode \in Node
  BY NoRegisterType DEF NewNode, Node
<1>3. new \in Seq(Node) /\ Len(new) = m
  <2>1. new \in [1 .. m -> Node]
    BY <1>2
  <2> QED
    BY <2>1, Listed
<1>4. \A i \in 1 .. m : new[i] = NewNode
  OBVIOUS
<1> HIDE DEF new
<1>5. /\ ms \in Seq(Node) /\ Len(ms) = Len(ns) + m
      /\ \A i \in 1 .. Len(ns) + m : ms[i] = IF i <= Len(ns) THEN ns[i] ELSE new[i - Len(ns)]
  BY <1>1, <1>3, ConcatProperties
<1> HIDE DEF ms
<1>6. \A n \in 1 .. Len(ns) : ms[n] = ns[n]
  BY <1>1, <1>5
<1>7. \A n \in 1 .. m : ms[Len(ns) + n] = NewNode
  <2> SUFFICES ASSUME NEW n \in 1 .. m PROVE ms[Len(ns) + n] = NewNode
    OBVIOUS
  <2>1. Len(ns) + n \in 1 .. Len(ns) + m /\ ~(Len(ns) + n <= Len(ns))
        /\ (Len(ns) + n) - Len(ns) = n
    BY <1>1
  <2> QED
    BY <1>4, <1>5, <2>1
<1>8. \A n \in 1 .. Len(ms) : ms[n].prev \in 0 .. Len(ms)
  <2> SUFFICES ASSUME NEW n \in 1 .. Len(ns) + m PROVE ms[n].prev \in 0 .. Len(ms)
    BY <1>5
  <2>1. CASE n \in 1 .. Len(ns)
    BY <2>1, <1>1, <1>5, <1>6 DEF Nodes
  <2>2. CASE n \notin 1 .. Len(ns)
    <3> DEFINE k == n - Len(ns)
    <3>1. k \in 1 .. m /\ n = Len(ns) + k
      BY <2>2, <1>1
    <3>2. ms[n].prev = 0
      BY <3>1, <1>7 DEF NewNode
    <3> QED
      BY <3>2, <1>1, <1>5
  <2> QED
    BY <2>1, <2>2
<1>9. Nodes(ms)
  BY <1>5, <1>8 DEF Nodes
<1>10. Extends(ms, ns)
  BY <1>1, <1>5, <1>6, <1>9 DEF Extends
<1>11. ms = WithNew(ns, m)
  BY DEF ms, new, WithNew
<1> QED
  BY <1>5, <1>6, <1>7, <1>9, <1>10, <1>11

LEMMA NewTopsProperties ==
  ASSUME NEW ns, Len(ns) \in Nat, NEW m \in Nat, NEW l \in Nat, Len(ns) + m <= l
  PROVE  /\ NewTops(ns, m) \in Seq(1 .. l) /\ NewTops(ns, m) \in Seq(0 .. l)
         /\ Len(NewTops(ns, m)) = m
         /\ DOMAIN NewTops(ns, m) = 1 .. m
         /\ \A i \in 1 .. m : NewTops(ns, m)[i] = Len(ns) + i
         /\ Distinct(NewTops(ns, m))
<1> DEFINE new == NewTops(ns, m)
<1>1. DOMAIN new = 1 .. m /\ \A i \in 1 .. m : new[i] = Len(ns) + i
  BY DEF NewTops
<1>2. new \in [1 .. m -> 1 .. l]
  BY DEF NewTops
<1>3. new \in [1 .. m -> 0 .. l]
  BY DEF NewTops
<1>4. new \in Seq(1 .. l) /\ Len(new) = m
  BY <1>2, Listed
<1>5. new \in Seq(0 .. l)
  BY <1>3, Listed
<1> HIDE DEF new
<1>6. Distinct(new)
  BY <1>1, <1>4 DEF Distinct
<1> QED
  BY <1>1, <1>4, <1>5, <1>6 DEF new

\* Links that only go to nodes with a predecessor keep what was known.
LEMMA LinkExtends ==
  ASSUME NEW ms, NEW ns, NEW prevs, NEW list, NEW regs, Nodes(ns),
         IsLink(ms, ns, prevs, list, regs),
         \A i \in 1 .. Len(list) : prevs[i] # 0 \/ ns[list[i]].prev = 0
  PROVE  Extends(ms, ns)
<1>1. Len(ns) \in Nat
  BY LenProperties DEF Nodes
<1>2. \A n \in 1 .. Len(ns) : ns[n].prev # 0 => ms[n].prev # 0
  BY DEF IsLink
<1> QED
  BY <1>1, <1>2 DEF IsLink, Extends

\* No parameters are read but by old nodes and in the registers given.
LEMMA LinkParams ==
  ASSUME NEW ms, NEW ns, NEW prevs, NEW list, NEW regs, IsLink(ms, ns, prevs, list, regs),
         NEW P, ParamsUpTo(ns, P), \A i \in 1 .. Len(list) : ReadsUpTo(regs[i], P)
  PROVE  ParamsUpTo(ms, P)
BY DEF IsLink, ParamsUpTo

LEMMA NewParams ==
  ASSUME NEW ns, Nodes(ns), NEW m \in Nat, NEW P, ParamsUpTo(ns, P)
  PROVE  ParamsUpTo(WithNew(ns, m), P)
<1> DEFINE ms == WithNew(ns, m)
<1>1. /\ Len(ns) \in Nat /\ Len(ms) = Len(ns) + m
      /\ \A n \in 1 .. Len(ns) : ms[n] = ns[n]
      /\ \A n \in 1 .. m : ms[Len(ns) + n] = NewNode
  BY NewNodes, LenProperties DEF Nodes
<1> HIDE DEF ms
<1>2. ASSUME NEW n \in 1 .. Len(ms) PROVE ReadsUpTo(ms[n].back, P)
  <2>1. CASE n \in 1 .. Len(ns)
    BY <1>1, <2>1 DEF ParamsUpTo
  <2>2. CASE n \notin 1 .. Len(ns)
    <3>1. n - Len(ns) \in 1 .. m /\ Len(ns) + (n - Len(ns)) = n
      BY <1>1, <2>2
    <3>2. ms[n] = NewNode
      BY <1>1, <3>1
    <3> QED
      BY <3>2 DEF NewNode, NoRegister, ReadsUpTo
  <2> QED
    BY <2>1, <2>2
<1> QED
  BY <1>2 DEF ParamsUpTo, ms

\* redefine_preceding_edge changes no link but the registers of the list's nodes.
LEMMA Redefined ==
  ASSUME NEW ns, Nodes(ns), NEW list \in NodeList(ns), NEW regs,
         \A i \in 1 .. Len(list) : regs[i] \in Registers
  PROVE  /\ Extends(Redefine(ns, list, regs), ns)
         /\ Len(Redefine(ns, list, regs)) = Len(ns)
         /\ Distinct(list) =>
              \A i \in 1 .. Len(list) : Redefine(ns, list, regs)[list[i]].back = regs[i]
         /\ \A P : ParamsUpTo(ns, P) /\ (\A i \in 1 .. Len(list) : ReadsUpTo(regs[i], P)) =>
                ParamsUpTo(Redefine(ns, list, regs), P)
<1> DEFINE m == Len(list)
           prevs == [i \in 1 .. m |-> ns[list[i]].prev]
           ms == LinkBoth(ns, prevs, list, regs)
<1>1. m \in Nat /\ DOMAIN list = 1 .. m /\ Len(ns) \in Nat
      /\ \A i \in 1 .. m : list[i] \in 1 .. Len(ns)
  BY LenProperties, ElementOfSeq DEF NodeList, Nodes
<1>2. prevs \in [1 .. m -> 0 .. Len(ns)]
  BY <1>1 DEF Nodes
<1>3. prevs \in Seq(0 .. Len(ns)) /\ Len(prevs) = m
  BY <1>1, <1>2, Listed
<1>4. \A i \in 1 .. m : prevs[i] = ns[list[i]].prev
  OBVIOUS
<1> HIDE DEF prevs, ms
<1>5. IsLink(ms, ns, prevs, list, regs)
  BY <1>3, LinkedBoth DEF ms
<1>6. Extends(ms, ns) /\ Len(ms) = Len(ns)
  <2>1. \A i \in 1 .. Len(list) : prevs[i] # 0 \/ ns[list[i]].prev = 0
    BY <1>4
  <2>2. Extends(ms, ns)
    BY <2>1, <1>5, LinkExtends
  <2> QED
    BY <2>2, <1>5 DEF IsLink
<1>7. ASSUME Distinct(list), NEW i \in 1 .. m PROVE ms[list[i]].back = regs[i]
  <2>1. list[i] \in Range(list) /\ list[i] \in 1 .. Len(ns)
    BY <1>1 DEF Range
  <2>2. PICK j \in 1 .. m : list[j] = list[i] /\ ms[list[i]].back = regs[j]
    BY <2>1, <1>5 DEF IsLink
  <2>3. j = i
    BY <1>7, <2>2 DEF Distinct
  <2> QED
    BY <2>2, <2>3
<1>8. ms = Redefine(ns, list, regs)
  BY <1>1 DEF ms, prevs, Redefine
<1>9. \A P : ParamsUpTo(ns, P) /\ (\A i \in 1 .. Len(list) : ReadsUpTo(regs[i], P)) =>
           ParamsUpTo(ms, P)
  BY <1>5, LinkParams
<1> QED
  BY <1>6, <1>7, <1>8, <1>9

\* What n elements popped from a stack of nodes of ns leave: only nodes at its
\* bottom; what was missing are parameters.
Popped(p, ns, stack, n) ==
  /\ Extends(p.nodes, ns)
  /\ p.popped \in NodeList(p.nodes) /\ Len(p.popped) = n
  /\ p.params \in NodeList(p.nodes)
  /\ p.stack \in NodeList(ns) /\ Len(p.stack) <= Len(stack)
  /\ \A i \in 1 .. Len(p.stack) : p.stack[i] = stack[i]
  /\ Len(p.params) - Len(p.stack) = n - Len(stack)
  /\ p.params = <<>> \/ p.stack = <<>>

LEMMA PoppingProperties ==
  ASSUME Nodes(nodes), Stack \in NodeList(nodes), Frame.taken \in Nat, NEW n \in Nat
  PROVE  /\ Popped(Popping(n), nodes, Stack, n)
         /\ \A P \in Nat :
              ParamsUpTo(nodes, P) /\ Frame.taken + Len(Popping(n).params) <= P =>
                ParamsUpTo(Popping(n).nodes, P)
<1> DEFINE k       == Min({n, Len(Stack)})
           m       == n - k
           top     == SubSeq(Stack, Len(Stack) - k + 1, Len(Stack))
           rest    == SubSeq(Stack, 1, Len(Stack) - k)
           found   == Reverse(top)
           created == NewTops(nodes, m)
           one     == WithNew(nodes, m)
           sinks   == NewTops(one, m)
           two     == WithNew(nodes, 2 * m)
           regs    == [i \in 1 .. m |-> Param(Frame.taken + i)]
           ms      == LinkBoth(two, created, sinks, regs)
<1>1. Len(nodes) \in Nat /\ Len(Stack) \in Nat
  BY LenProperties DEF Nodes, NodeList
<1>2. k \in Nat /\ k <= n /\ k <= Len(Stack) /\ (k = n \/ k = Len(Stack))
  <2>1. \E x \in {n, Len(Stack)} : \A y \in {n, Len(Stack)} : x <= y
    BY <1>1
  <2>2. k \in {n, Len(Stack)} /\ \A y \in {n, Len(Stack)} : k <= y
    BY <2>1, Zenon DEF Min
  <2> QED
    BY <1>1, <2>2
<1> HIDE DEF k
<1>3. m \in Nat /\ 2 * m \in Nat /\ m + m = 2 * m
  BY <1>2
<1>4. /\ top \in NodeList(nodes) /\ Len(top) = k
      /\ rest \in NodeList(nodes) /\ Len(rest) = Len(Stack) - k
      /\ \A i \in 1 .. Len(rest) : rest[i] = Stack[i]
  <2> DEFINE a == Len(Stack) - k + 1
             b == Len(Stack) - k
  <2>1. /\ a \in 1 .. Len(Stack) + 1 /\ Len(Stack) \in 0 .. Len(Stack) /\ a <= Len(Stack) + 1
        /\ 1 \in 1 .. Len(Stack) + 1 /\ b \in 0 .. Len(Stack) /\ 1 <= b + 1
        /\ Len(Stack) - a + 1 = k /\ b - 1 + 1 = b /\ \A i \in 1 .. b : 1 + i - 1 = i
    BY <1>1, <1>2
  <2> HIDE DEF a, b
  <2>2. SubSeq(Stack, a, Len(Stack)) \in NodeList(nodes) /\ Len(SubSeq(Stack, a, Len(Stack))) = k
    <3>1. /\ SubSeq(Stack, a, Len(Stack)) \in Seq(1 .. Len(nodes))
          /\ Len(SubSeq(Stack, a, Len(Stack))) = Len(Stack) - a + 1
      BY SMTT(30), <2>1, Part DEF NodeList
    <3> QED
      BY <2>1, <3>1 DEF NodeList
  <2>3. /\ SubSeq(Stack, 1, b) \in NodeList(nodes) /\ Len(SubSeq(Stack, 1, b)) = b
        /\ \A i \in 1 .. b : SubSeq(Stack, 1, b)[i] = Stack[i]
    <3>1. /\ SubSeq(Stack, 1, b) \in Seq(1 .. Len(nodes))
          /\ Len(SubSeq(Stack, 1, b)) = b - 1 + 1
          /\ \A i \in 1 .. b - 1 + 1 : SubSeq(Stack, 1, b)[i] = Stack[1 + i - 1]
      BY <2>1, Part, Zenon DEF NodeList
    <3> QED
      BY <2>1, <3>1 DEF NodeList
  <2> QED
    BY <2>2, <2>3 DEF a, b
<1>5. found \in NodeList(nodes) /\ Len(found) = k
  BY <1>4, Reversed DEF NodeList
<1>6. Len(one) = Len(nodes) + m
  BY <1>3, NewNodes
<1>7. /\ Nodes(two) /\ Extends(two, nodes) /\ Len(two) = Len(nodes) + 2 * m
      /\ \A i \in 1 .. 2 * m : two[Len(nodes) + i] = NewNode
  BY <1>3, NewNodes
<1>8. /\ created \in NodeList(two) /\ created \in Seq(0 .. Len(two)) /\ Len(created) = m
      /\ \A i \in 1 .. m : created[i] = Len(nodes) + i
  <2>1. Len(nodes) + m <= Len(two) /\ Len(two) \in Nat
    BY <1>1, <1>3, <1>7
  <2> QED
    BY <2>1, <1>1, <1>3, NewTopsProperties DEF NodeList
<1>9. /\ sinks \in NodeList(two) /\ Len(sinks) = m
      /\ \A i \in 1 .. m : sinks[i] = Len(nodes) + (m + i)
  <2>1. Len(one) + m <= Len(two) /\ Len(two) \in Nat /\ Len(one) \in Nat
    BY <1>1, <1>3, <1>6, <1>7
  <2>2. \A i \in 1 .. m : Len(one) + i = Len(nodes) + (m + i)
    BY <1>1, <1>3, <1>6
  <2> HIDE DEF m, one
  <2> QED
    BY <2>1, <2>2, <1>3, NewTopsProperties DEF NodeList
<1>10. \A i \in 1 .. m : regs[i] \in Registers
  BY DEF Param, Registers
<1> HIDE DEF m, top, rest, found, created, one, sinks, two, regs, ms
<1>11. IsLink(ms, two, created, sinks, regs)
  BY <1>7, <1>8, <1>9, <1>10, LinkedBoth DEF ms
<1>12. Extends(ms, two) /\ Len(ms) = Len(two)
  <2>1. \A i \in 1 .. Len(sinks) : created[i] # 0 \/ two[sinks[i]].prev = 0
    BY <1>1, <1>8, <1>9
  <2>2. Extends(ms, two)
    BY <2>1, <1>7, <1>11, LinkExtends
  <2> QED
    BY <2>2, <1>11 DEF IsLink
<1>13. Extends(ms, nodes)
  BY <1>7, <1>12, ExtendsMore
<1>14. NodeList(ms) = NodeList(two) /\ NodeList(nodes) \subseteq NodeList(ms)
  BY <1>12, <1>13, ListsGrow DEF NodeList
<1>15. found \o sinks \in NodeList(ms) /\ Len(found \o sinks) = n
  <2>1. found \in Seq(1 .. Len(ms)) /\ sinks \in Seq(1 .. Len(ms))
    BY <1>5, <1>9, <1>14 DEF NodeList
  <2>2. found \o sinks \in Seq(1 .. Len(ms)) /\ Len(found \o sinks) = Len(found) + Len(sinks)
    BY <2>1, ConcatProperties
  <2>3. k + m = n
    BY <1>2 DEF m
  <2> QED
    BY <2>2, <2>3, <1>5, <1>9 DEF NodeList
<1>16. created = <<>> \/ rest = <<>>
  <2>1. m = 0 \/ Len(Stack) - k = 0
    BY <1>2 DEF m
  <2>2. m = 0 => created = <<>>
    BY <1>8, EmptySeq DEF NodeList
  <2>3. Len(Stack) - k = 0 => rest = <<>>
    BY <1>4, EmptySeq DEF NodeList
  <2> QED
    BY <2>1, <2>2, <2>3
<1>17. Popping(n) = [nodes |-> ms, popped |-> found \o sinks, params |-> created, stack |-> rest]
  BY DEF Popping, k, m, top, rest, found, created, one, sinks, two, regs, ms
<1>18. Len(created) - Len(rest) = n - Len(Stack) /\ Len(rest) <= Len(Stack)
  BY <1>1, <1>2, <1>4, <1>8 DEF m
<1> DEFINE p == Popping(n)
<1>19. p.nodes = ms /\ p.popped = found \o sinks /\ p.params = created /\ p.stack = rest
  BY <1>17
<1> HIDE DEF p
<1>20. Popped(p, nodes, Stack, n)
  BY <1>4, <1>8, <1>13, <1>14, <1>15, <1>16, <1>18, <1>19 DEF Popped
<1>21. ASSUME NEW P \in Nat, ParamsUpTo(nodes, P), Frame.taken + m <= P
       PROVE  ParamsUpTo(ms, P)
  <2>1. ParamsUpTo(two, P)
    BY <1>3, <1>21, NewParams DEF two
  <2>2. ASSUME NEW i \in 1 .. Len(sinks) PROVE ReadsUpTo(regs[i], P)
    <3>1. i \in 1 .. m /\ regs[i] = Param(Frame.taken + i)
      BY <1>9, <2>2 DEF regs
    <3>2. Frame.taken + i <= P
      BY <1>3, <1>21, <3>1
    <3> QED
      BY <3>1, <3>2 DEF Param, ReadsUpTo
  <2> QED
    BY <1>11, <2>1, <2>2, LinkParams
<1>22. \A P \in Nat : ParamsUpTo(nodes, P) /\ Frame.taken + Len(p.params) <= P =>
          ParamsUpTo(p.nodes, P)
  BY <1>8, <1>19, <1>21
<1> QED
  BY <1>20, <1>22 DEF p

-----------------------------------------------------------------------------
(***************************************************************************)
(* Registers.                                                              *)
(***************************************************************************)
\* The generator of a block has handed out r.
IsUsed(r, gen) ==
  /\ r \in Registers /\ r.type = "normal"
  /\ r.block \in DOMAIN gen /\ r.index \in 1 .. gen[r.block]

\* The registers in use are distinct: those of locals, and the initial ones of
\* a block, which has none before its inputs are aligned.
Allocated(ini, gen, ins, locs) ==
  /\ \A x \in DOMAIN locs : IsUsed(locs[x], gen)
  /\ \A b \in DOMAIN ini :
       /\ \A i \in 1 .. Len(ini[b]) :
            IsUsed(ini[b][i], gen) /\ \A x \in DOMAIN locs : ini[b][i] # locs[x]
       /\ \A i, j \in 1 .. Len(ini[b]) : ini[b][i] = ini[b][j] => i = j
       /\ b \notin ins => ini[b] = <<>>

\* A list of registers that may become the initial ones of a block.
Passable(regs, gen, locs) ==
  /\ \A i \in 1 .. Len(regs) :
       IsUsed(regs[i], gen) /\ \A x \in DOMAIN locs : regs[i] # locs[x]
  /\ \A i, j \in 1 .. Len(regs) : regs[i] = regs[j] => i = j

\* The registers the nodes of a list are read from.
Backs(ns, list) == [i \in 1 .. Len(list) |-> ns[list[i]].back]

\* What align_register_edge works on, for a block b with the outputs list.
Aligns(a, ns, list, b, locs) ==
  /\ a \in [nodes : Seq(Node), initial : [Blocks -> Seq(Registers)],
            generated : [Blocks -> Nat], inputs : SUBSET Blocks, outputs : SUBSET Blocks]
  /\ Extends(a.nodes, ns) /\ Len(a.nodes) = Len(ns)
  /\ Allocated(a.initial, a.generated, a.inputs, locs)
  /\ b \in a.outputs => Passable(Backs(a.nodes, list), a.generated, locs)

LEMMA UsedStays ==
  ASSUME NEW r, NEW gen, NEW new, IsUsed(r, gen), DOMAIN new = DOMAIN gen,
         \A b \in DOMAIN gen : gen[b] \in Nat /\ new[b] \in Nat /\ gen[b] <= new[b]
  PROVE  IsUsed(r, new)
BY DEF IsUsed

\* More registers handed out.
LEMMA AllocatedStays ==
  ASSUME NEW ini, NEW gen, NEW new, NEW ins, NEW locs, Allocated(ini, gen, ins, locs),
         DOMAIN new = DOMAIN gen,
         \A b \in DOMAIN gen : gen[b] \in Nat /\ new[b] \in Nat /\ gen[b] <= new[b]
  PROVE  Allocated(ini, new, ins, locs)
<1>1. \A r : IsUsed(r, gen) => IsUsed(r, new)
  BY UsedStays
<1> QED
  BY <1>1 DEF Allocated

\* A block that has no registers is given some.
GiveTo(ini, t, regs) == [ini EXCEPT ![t] = @ \o regs]

LEMMA Given ==
  ASSUME NEW ini, NEW gen, NEW ins, NEW locs, Allocated(ini, gen, ins, locs),
         NEW S, NEW t \in S, ini \in [S -> Seq(Registers)], t \notin ins,
         NEW regs \in Seq(Registers), Passable(regs, gen, locs)
  PROVE  /\ GiveTo(ini, t, regs) \in [S -> Seq(Registers)]
         /\ GiveTo(ini, t, regs)[t] = regs
         /\ \A u \in S : u # t => GiveTo(ini, t, regs)[u] = ini[u]
         /\ Allocated(GiveTo(ini, t, regs), gen, ins \cup {t}, locs)
<1> DEFINE new == GiveTo(ini, t, regs)
<1>1. ini[t] = <<>>
  BY DEF Allocated
<1>2. ini[t] \o regs = regs
  BY <1>1, ConcatEmptySeq
<1>3. new = [ini EXCEPT ![t] = regs]
  BY <1>2 DEF GiveTo
<1>4. /\ new \in [S -> Seq(Registers)] /\ new[t] = regs
      /\ \A b \in S : b # t => new[b] = ini[b]
  BY <1>3
<1> HIDE DEF new
<1>5. Allocated(new, gen, ins \cup {t}, locs)
  <2>1. DOMAIN new = S /\ DOMAIN ini = S
    BY <1>4
  <2>2. ASSUME NEW b \in S
        PROVE  /\ \A i \in 1 .. Len(new[b]) :
                    IsUsed(new[b][i], gen) /\ \A x \in DOMAIN locs : new[b][i] # locs[x]
               /\ \A i, j \in 1 .. Len(new[b]) : new[b][i] = new[b][j] => i = j
               /\ b \notin ins \cup {t} => new[b] = <<>>
    <3>1. CASE b = t
      BY <3>1, <1>4 DEF Passable
    <3>2. CASE b # t
      <4>1. new[b] = ini[b]
        BY <3>2, <1>4
      <4> QED
        BY <4>1, <2>1 DEF Allocated
    <3> QED
      BY <3>1, <3>2
  <2>3. \A x \in DOMAIN locs : IsUsed(locs[x], gen)
    BY DEF Allocated
  <2> QED
    BY <2>1, <2>2, <2>3 DEF Allocated
<1> QED
  BY <1>4, <1>5 DEF new

\* The next m registers of a block t.
NewRegisters(gen, t, m) == [i \in 1 .. m |-> Normal(t, gen[t] + i)]
HandOut(gen, t, m)      == [gen EXCEPT ![t] = @ + m]

LEMMA Made ==
  ASSUME NEW gen, NEW S, gen \in [S -> Nat], NEW t \in S, NEW m \in Nat, NEW locs,
         t \in Nat,
         \A x \in DOMAIN locs : IsUsed(locs[x], gen)
  PROVE  /\ NewRegisters(gen, t, m) \in Seq(Registers) /\ Len(NewRegisters(gen, t, m)) = m
         /\ HandOut(gen, t, m) \in [S -> Nat]
         /\ \A b \in S : gen[b] <= HandOut(gen, t, m)[b]
         /\ Passable(NewRegisters(gen, t, m), HandOut(gen, t, m), locs)
<1> DEFINE regs == NewRegisters(gen, t, m)
           new  == HandOut(gen, t, m)
<1>1. gen[t] \in Nat /\ \A b \in S : gen[b] \in Nat
  OBVIOUS
<1>2. \A i \in 1 .. m : regs[i] = Normal(t, gen[t] + i) /\ regs[i] \in Registers
  BY <1>1 DEF Normal, Registers, NewRegisters
<1>3. regs \in Seq(Registers) /\ Len(regs) = m
  <2>1. regs \in [1 .. m -> Registers]
    BY <1>2 DEF NewRegisters
  <2> QED
    BY <2>1, Listed
<1>4. new \in [S -> Nat] /\ new[t] = gen[t] + m /\ \A b \in S : gen[b] <= new[b]
  BY <1>1 DEF HandOut
<1> HIDE DEF new, regs
<1>22. \A i \in 1 .. m :
         regs[i].type = "normal" /\ regs[i].block = t /\ regs[i].index = gen[t] + i
  <2> SUFFICES ASSUME NEW i \in 1 .. m
               PROVE  regs[i].type = "normal" /\ regs[i].block = t /\ regs[i].index = gen[t] + i
    OBVIOUS
  <2>1. regs[i] = [type |-> "normal", block |-> t, index |-> gen[t] + i]
    BY <1>2 DEF Normal
  <2> QED
    BY <2>1
<1>5. Passable(regs, new, locs)
  <2>1. ASSUME NEW i \in 1 .. m
        PROVE  IsUsed(regs[i], new) /\ \A x \in DOMAIN locs : regs[i] # locs[x]
    <3>1. /\ regs[i].type = "normal" /\ regs[i].block = t /\ regs[i].index = gen[t] + i
          /\ gen[t] + i \in 1 .. new[t] /\ ~(gen[t] + i <= gen[t])
      BY <1>1, <1>22, <1>4
    <3>2. IsUsed(regs[i], new)
      BY <3>1, <1>2, <1>4 DEF IsUsed
    <3>3. \A x \in DOMAIN locs : regs[i] # locs[x]
      BY <3>1, <1>1 DEF IsUsed
    <3> QED
      BY <3>2, <3>3
  <2>2. \A i, j \in 1 .. m : regs[i] = regs[j] => i = j
    BY <1>1, <1>22
  <2> QED
    BY <1>3, <2>1, <2>2 DEF Passable
<1> QED
  BY <1>3, <1>4, <1>5 DEF new, regs

LEMMA BacksType ==
  ASSUME NEW ns, Nodes(ns), NEW list \in NodeList(ns)
  PROVE  Backs(ns, list) \in Seq(Registers) /\ Len(Backs(ns, list)) = Len(list)
<1>1. Len(list) \in Nat /\ \A i \in 1 .. Len(list) : list[i] \in 1 .. Len(ns)
  BY LenProperties, ElementOfSeq DEF NodeList
<1>2. \A n \in 1 .. Len(ns) : ns[n].back \in Registers
  <2>1. \A n \in 1 .. Len(ns) : ns[n] \in Node
    BY ElementOfSeq DEF Nodes
  <2> QED
    BY <2>1 DEF Node
<1>3. Backs(ns, list) \in [1 .. Len(list) -> Registers]
  BY <1>1, <1>2 DEF Backs
<1> QED
  BY <1>1, <1>3, Listed

\* What an edge to t adds to the initial registers.
EdgeAdds(new, ini, ins, list, t) ==
  /\ \A u \in Blocks : u # t \/ t \in ins => new[u] = ini[u]
  /\ t \notin ins => Len(new[t]) = Len(list)

\* What align_register_edge does, for an edge from b to t.
EdgeAligned(r, a, ns, list, b, t, locs) ==
  /\ Aligns(r, ns, list, b, locs)
  /\ r.outputs = a.outputs \cup {b}
  /\ r.inputs = a.inputs \cup {t}
  /\ EdgeAdds(r.initial, a.initial, a.inputs, list, t)
  /\ KeepsParams(r.nodes, a.nodes)

LEMMA AlignedEdge ==
  ASSUME NEW a, NEW ns, Nodes(ns), NEW list \in NodeList(ns), Distinct(list),
         NEW b \in Blocks, NEW t \in Blocks, Blocks \subseteq Nat, NEW locs,
         Aligns(a, ns, list, b, locs),
         b \notin a.outputs /\ t \in a.inputs => Len(list) <= Len(a.initial[t])
  PROVE  EdgeAligned(AlignEdge(a, list, b, t), a, ns, list, b, t, locs)
<1> DEFINE A == [nodes : Seq(Node), initial : [Blocks -> Seq(Registers)],
                 generated : [Blocks -> Nat], inputs : SUBSET Blocks, outputs : SUBSET Blocks]
           r == AlignEdge(a, list, b, t)
           m == Len(list)
<1>1. /\ a \in A /\ Nodes(a.nodes) /\ Extends(a.nodes, ns) /\ Len(a.nodes) = Len(ns)
      /\ Allocated(a.initial, a.generated, a.inputs, locs)
  BY DEF Aligns, Extends
<1>2. /\ a.initial \in [Blocks -> Seq(Registers)] /\ a.generated \in [Blocks -> Nat]
      /\ a.inputs \subseteq Blocks /\ a.outputs \subseteq Blocks
  BY <1>1
<1>3. list \in NodeList(a.nodes) /\ m \in Nat /\ DOMAIN list = 1 .. m
  BY <1>1, LenProperties DEF NodeList
<1>4. t \in Nat /\ Len(a.initial[t]) \in Nat /\ a.initial[t] \in Seq(Registers)
  BY <1>2, LenProperties
<1>5. CASE b \notin a.outputs /\ t \in a.inputs
  <2> DEFINE regs == a.initial[t]
             ms == Redefine(a.nodes, list, regs)
  <2>1. m <= Len(regs) /\ \A i \in 1 .. m : i \in 1 .. Len(regs) /\ regs[i] \in Registers
    BY <1>3, <1>4, <1>5, ElementOfSeq
  <2>2. /\ Extends(ms, a.nodes) /\ Len(ms) = Len(a.nodes)
        /\ \A i \in 1 .. m : ms[list[i]].back = regs[i]
        /\ KeepsParams(ms, a.nodes)
    <3> DEFINE ns1 == a.nodes
    <3>1. /\ Nodes(ns1) /\ list \in NodeList(ns1)
          /\ \A i \in 1 .. Len(list) : regs[i] \in Registers /\ regs[i].type = "normal"
      BY <1>1, <1>2, <1>3, <2>1 DEF Allocated, IsUsed
    <3> HIDE DEF ns1, regs
    <3>2. KeepsNormal(ns1, list, regs)
      BY <3>1, Redefined DEF KeepsNormal, KeepsParams, ReadsUpTo
    <3> QED
      BY <3>2 DEF ns1, regs, KeepsNormal
  <2>3. r = [[a EXCEPT !.nodes = ms] EXCEPT !.inputs = @ \cup {t}, !.outputs = @ \cup {b}]
    BY <1>5 DEF AlignEdge, Take
  <2> HIDE DEF ms, r, regs
  <2>4. /\ r.nodes = ms /\ r.initial = a.initial /\ r.generated = a.generated
        /\ r.inputs = a.inputs \cup {t} /\ r.outputs = a.outputs \cup {b}
        /\ ms \in Seq(Node)
    BY <2>2, <2>3, <1>1 DEF Extends, Nodes
  <2>5. r \in A
    BY <2>3, <2>4, <1>1
  <2>6. Extends(r.nodes, ns) /\ Len(r.nodes) = Len(ns)
    BY <2>2, <2>4, <1>1, ExtendsMore
  <2>7. Passable(Backs(ms, list), a.generated, locs)
    <3>1. Len(Backs(ms, list)) = m
      BY <2>2, <1>1, <1>3, BacksType DEF Extends, NodeList
    <3>2. \A i \in 1 .. m : Backs(ms, list)[i] = regs[i]
      BY <2>2 DEF Backs
    <3>3. /\ \A i \in 1 .. Len(regs) :
               IsUsed(regs[i], a.generated) /\ \A x \in DOMAIN locs : regs[i] # locs[x]
          /\ \A i, j \in 1 .. Len(regs) : regs[i] = regs[j] => i = j
      BY <1>1, <1>2 DEF Allocated, regs
    <3> QED
      BY <3>1, <3>2, <3>3, <2>1 DEF Passable
  <2>8. Allocated(r.initial, r.generated, r.inputs, locs)
    BY <2>4, <1>1 DEF Allocated
  <2>9. Aligns(r, ns, list, b, locs)
    BY <2>4, <2>5, <2>6, <2>7, <2>8 DEF Aligns
  <2>10. EdgeAdds(r.initial, a.initial, a.inputs, list, t)
    BY <2>4, <1>5 DEF EdgeAdds
  <2> QED
    BY <2>2, <2>4, <2>9, <2>10 DEF r, EdgeAligned
<1>6. CASE b \in a.outputs /\ t \notin a.inputs
  <2> DEFINE regs == Backs(a.nodes, list)
             new  == GiveTo(a.initial, t, regs)
  <2>1. regs \in Seq(Registers) /\ Len(regs) = m
    BY <1>1, <1>3, BacksType
  <2>2. Passable(regs, a.generated, locs)
    BY <1>6 DEF Aligns
  <2>3. regs = [i \in DOMAIN list |-> a.nodes[list[i]].back]
    BY <1>3 DEF Backs
  <2> HIDE DEF regs
  <2>4. r = [[a EXCEPT !.initial = new] EXCEPT !.inputs = @ \cup {t}, !.outputs = @ \cup {b}]
    BY <1>1, <1>6, <2>3 DEF AlignEdge, Give, GiveTo
  <2>5. /\ new \in [Blocks -> Seq(Registers)] /\ new[t] = regs
        /\ Allocated(new, a.generated, a.inputs \cup {t}, locs)
        /\ \A u \in Blocks : u # t => new[u] = a.initial[u]
    <3> DEFINE ini == a.initial
               gen == a.generated
               ins == a.inputs
    <3>1. /\ ini \in [Blocks -> Seq(Registers)] /\ t \notin ins
          /\ Allocated(ini, gen, ins, locs) /\ Passable(regs, gen, locs)
      BY <1>1, <1>2, <1>6, <2>2
    <3> HIDE DEF ini, gen, ins, new
    <3>2. /\ GiveTo(ini, t, regs) \in [Blocks -> Seq(Registers)]
          /\ GiveTo(ini, t, regs)[t] = regs
          /\ \A u \in Blocks : u # t => GiveTo(ini, t, regs)[u] = ini[u]
          /\ Allocated(GiveTo(ini, t, regs), gen, ins \cup {t}, locs)
      BY <3>1, <2>1, Given
    <3> QED
      BY <3>2 DEF ini, gen, ins, new
  <2> HIDE DEF new, r
  <2>7. /\ r.nodes = a.nodes /\ r.initial = new /\ r.generated = a.generated
        /\ r.inputs = a.inputs \cup {t} /\ r.outputs = a.outputs \cup {b}
    BY <2>4, <1>1
  <2>8. r \in A
    BY <2>4, <2>5, <1>1
  <2>9. Aligns(r, ns, list, b, locs)
    BY <2>2, <2>5, <2>7, <2>8, <1>1 DEF Aligns, regs
  <2>10. EdgeAdds(r.initial, a.initial, a.inputs, list, t)
    BY <2>1, <2>5, <2>7, <1>6 DEF EdgeAdds
  <2> QED
    BY <2>7, <2>9, <2>10 DEF r, EdgeAligned, KeepsParams
<1>7. CASE b \notin a.outputs /\ t \notin a.inputs
  <2> DEFINE regs == NewRegisters(a.generated, t, m)
             gen  == HandOut(a.generated, t, m)
             new  == GiveTo(a.initial, t, regs)
             ms   == Redefine(a.nodes, list, regs)
  <2>1. /\ regs \in Seq(Registers) /\ Len(regs) = m /\ gen \in [Blocks -> Nat]
        /\ \A u \in Blocks : a.generated[u] <= gen[u]
        /\ Passable(regs, gen, locs)
    <3>1. \A x \in DOMAIN locs : IsUsed(locs[x], a.generated)
      BY <1>1 DEF Allocated
    <3> DEFINE g == a.generated
    <3>2. g \in [Blocks -> Nat] /\ \A x \in DOMAIN locs : IsUsed(locs[x], g)
      BY <3>1, <1>2
    <3> HIDE DEF g, m
    <3>3. /\ NewRegisters(g, t, m) \in Seq(Registers) /\ Len(NewRegisters(g, t, m)) = m
          /\ HandOut(g, t, m) \in [Blocks -> Nat]
          /\ \A u \in Blocks : g[u] <= HandOut(g, t, m)[u]
          /\ Passable(NewRegisters(g, t, m), HandOut(g, t, m), locs)
      BY <3>2, <1>3, <1>4, Made
    <3> QED
      BY <3>3 DEF g
  <2>2. /\ Extends(ms, a.nodes) /\ Len(ms) = Len(a.nodes)
        /\ \A i \in 1 .. m : ms[list[i]].back = regs[i]
        /\ KeepsParams(ms, a.nodes)
    <3> DEFINE ns1 == a.nodes
    <3>1. /\ Nodes(ns1) /\ list \in NodeList(ns1)
          /\ \A i \in 1 .. Len(list) : regs[i] \in Registers /\ regs[i].type = "normal"
      BY <1>1, <1>3, <2>1 DEF Passable, IsUsed
    <3> HIDE DEF ns1, regs
    <3>2. KeepsNormal(ns1, list, regs)
      BY <3>1, Redefined DEF KeepsNormal, KeepsParams, ReadsUpTo
    <3> QED
      BY <3>2 DEF ns1, regs, KeepsNormal
  <2>3. r = [[a EXCEPT !.nodes = ms, !.initial = new, !.generated = gen]
               EXCEPT !.inputs = @ \cup {t}, !.outputs = @ \cup {b}]
    <3>1. regs = [i \in DOMAIN list |-> Normal(t, a.generated[t] + i)]
      BY <1>3 DEF NewRegisters
    <3>2. gen = [a.generated EXCEPT ![t] = @ + Len(list)]
      BY DEF HandOut
    <3> HIDE DEF regs, gen
    <3> QED
      BY <1>1, <1>7, <3>1, <3>2 DEF AlignEdge, Make, GiveTo
  <2>4. Allocated(a.initial, gen, a.inputs, locs)
    BY <1>1, <1>2, <2>1, AllocatedStays
  <2> HIDE DEF regs, gen, ms, r
  <2>5. /\ new \in [Blocks -> Seq(Registers)] /\ new[t] = regs
        /\ Allocated(new, gen, a.inputs \cup {t}, locs)
        /\ \A u \in Blocks : u # t => new[u] = a.initial[u]
    <3> DEFINE ini == a.initial
               ins == a.inputs
    <3>1. /\ ini \in [Blocks -> Seq(Registers)] /\ t \notin ins
          /\ Allocated(ini, gen, ins, locs) /\ Passable(regs, gen, locs)
      BY <1>2, <1>7, <2>1, <2>4
    <3> HIDE DEF ini, ins, new
    <3>2. /\ GiveTo(ini, t, regs) \in [Blocks -> Seq(Registers)]
          /\ GiveTo(ini, t, regs)[t] = regs
          /\ \A u \in Blocks : u # t => GiveTo(ini, t, regs)[u] = ini[u]
          /\ Allocated(GiveTo(ini, t, regs), gen, ins \cup {t}, locs)
      BY <3>1, <2>1, Given
    <3> QED
      BY <3>2 DEF ini, ins, new
  <2> HIDE DEF new
  <2>7. /\ r.nodes = ms /\ r.initial = new /\ r.generated = gen
        /\ r.inputs = a.inputs \cup {t} /\ r.outputs = a.outputs \cup {b}
        /\ ms \in Seq(Node)
    BY <2>2, <2>3, <1>1 DEF Extends, Nodes
  <2>8. r \in A
    BY <2>1, <2>3, <2>5, <2>7, <1>1
  <2>9. Extends(r.nodes, ns) /\ Len(r.nodes) = Len(ns)
    BY <2>2, <2>7, <1>1, ExtendsMore
  <2>10. Passable(Backs(ms, list), gen, locs)
    <3>1. Len(Backs(ms, list)) = m
      BY <2>2, <1>1, <1>3, BacksType DEF Extends, NodeList
    <3>2. \A i \in 1 .. m : Backs(ms, list)[i] = regs[i]
      BY <2>2 DEF Backs
    <3> QED
      BY <3>1, <3>2, <2>1 DEF Passable
  <2>11. Aligns(r, ns, list, b, locs)
    BY <2>5, <2>7, <2>8, <2>9, <2>10 DEF Aligns
  <2>12. EdgeAdds(r.initial, a.initial, a.inputs, list, t)
    BY <2>1, <2>5, <2>7, <1>7 DEF EdgeAdds
  <2> QED
    BY <2>2, <2>7, <2>11, <2>12 DEF r, EdgeAligned
<1>8. CASE b \in a.outputs /\ t \in a.inputs
  <2>1. r = [a EXCEPT !.inputs = @ \cup {t}, !.outputs = @ \cup {b}]
    BY <1>8 DEF AlignEdge
  <2> HIDE DEF r
  <2>2. /\ r.nodes = a.nodes /\ r.initial = a.initial /\ r.generated = a.generated
        /\ r.inputs = a.inputs \cup {t} /\ r.outputs = a.outputs \cup {b}
        /\ a.inputs \cup {t} = a.inputs
    BY <2>1, <1>1, <1>8
  <2>3. r \in A
    BY <2>1, <1>1
  <2>4. Aligns(r, ns, list, b, locs)
    BY <2>2, <2>3, <1>1, <1>8 DEF Aligns
  <2>5. EdgeAdds(r.initial, a.initial, a.inputs, list, t)
    BY <2>2, <1>8 DEF EdgeAdds
  <2> QED
    BY <2>2, <2>4, <2>5 DEF r, EdgeAligned, KeepsParams
<1> QED
  BY <1>5, <1>6, <1>7, <1>8

\* What the edges from a block with the outputs list to the blocks in order add.
EdgesAdd(r, order, list) ==
  /\ r.inputs = aligned.inputs \cup Range(order)
  /\ \A u \in Blocks :
       u \notin Range(order) \/ u \in aligned.inputs => r.initial[u] = initial[u]
  /\ \A u \in Range(order) : u \notin aligned.inputs => Len(r.initial[u]) = Len(list)

\* The edges of a block that is not aligned yet, to no, one or two successors.
LEMMA AlignedEdges ==
  ASSUME Nodes(nodes), Stack \in NodeList(nodes), Distinct(Stack), B \in Blocks,
         Blocks \subseteq Nat, initial \in [Blocks -> Seq(Registers)],
         generated \in [Blocks -> Nat],
         aligned \in [inputs : SUBSET Blocks, outputs : SUBSET Blocks],
         Allocated(initial, generated, aligned.inputs, locals),
         B \notin aligned.outputs,
         NEW order \in Seq(Blocks), Len(order) <= 2, ~Overrun(order)
  PROVE  /\ Aligns(Alignment(order), nodes, Stack, B, locals)
         /\ order = <<>> => Alignment(order).outputs = aligned.outputs
         /\ order # <<>> => Alignment(order).outputs = aligned.outputs \cup {B}
         /\ EdgesAdd(Alignment(order), order, Stack)
         /\ KeepsParams(Alignment(order).nodes, nodes)
<1> DEFINE a == [nodes |-> nodes, initial |-> initial, generated |-> generated,
                 inputs |-> aligned.inputs, outputs |-> aligned.outputs]
           first == AlignEdge(a, Stack, B, order[1])
<1>1. Len(nodes) \in Nat /\ nodes \in Seq(Node) /\ Extends(nodes, nodes)
  BY LenProperties DEF Nodes, Extends
<1>2. /\ a.nodes = nodes /\ a.initial = initial /\ a.generated = generated
      /\ a.inputs = aligned.inputs /\ a.outputs = aligned.outputs
  OBVIOUS
<1>3. Aligns(a, nodes, Stack, B, locals)
  BY <1>1 DEF Aligns
<1> HIDE DEF a
<1>4. Len(order) \in Nat /\ (Len(order) = 0 <=> order = <<>>)
      /\ \A i \in 1 .. Len(order) : order[i] \in Blocks
  BY LenProperties, EmptySeq, ElementOfSeq
<1>5. CASE Len(order) = 0
  <2>1. Alignment(order) = a
    BY <1>5 DEF Alignment, a
  <2>2. Range(order) = {}
    BY <1>4, <1>5 DEF Range
  <2>3. EdgesAdd(a, order, Stack)
    BY <2>2, <1>2 DEF EdgesAdd
  <2>4. KeepsParams(a.nodes, nodes)
    BY <1>2 DEF KeepsParams
  <2> QED
    BY <2>1, <2>3, <2>4, <1>2, <1>3, <1>4, <1>5
<1>6. ASSUME Len(order) # 0
      PROVE  /\ Aligns(first, nodes, Stack, B, locals)
             /\ first.outputs = aligned.outputs \cup {B}
             /\ first.inputs = aligned.inputs \cup {order[1]}
             /\ EdgeAdds(first.initial, initial, aligned.inputs, Stack, order[1])
             /\ KeepsParams(first.nodes, nodes)
  <2>1. order[1] \in Blocks
    BY <1>4, <1>6
  <2>2. B \notin a.outputs /\ order[1] \in a.inputs => Len(Stack) <= Len(a.initial[order[1]])
    <3>1. Len(Stack) \in Nat /\ Len(initial[order[1]]) \in Nat
      BY <2>1, LenProperties DEF NodeList
    <3> QED
      BY <3>1, <1>2, <1>4, <1>6 DEF Overrun
  <2> DEFINE t == order[1]
             list == Stack
             b == B
  <2>3. /\ t \in Blocks /\ b \in Blocks /\ list \in NodeList(nodes) /\ Distinct(list)
        /\ b \notin a.outputs /\ t \in a.inputs => Len(list) <= Len(a.initial[t])
        /\ Aligns(a, nodes, list, b, locals)
    BY <2>1, <2>2, <1>3
  <2> HIDE DEF t, list, b
  <2>4. EdgeAligned(AlignEdge(a, list, b, t), a, nodes, list, b, t, locals)
    BY <2>3, AlignedEdge
  <2> QED
    BY <2>4, <1>2 DEF t, list, b, EdgeAligned
<1>7. CASE Len(order) = 1
  <2>1. Alignment(order) = first
    BY <1>7 DEF Alignment, a
  <2>2. Range(order) = {order[1]}
    BY <1>4, <1>7, LenProperties DEF Range
  <2> HIDE DEF first
  <2>3. EdgesAdd(first, order, Stack)
    BY <2>2, <1>6, <1>7 DEF EdgesAdd, EdgeAdds
  <2> QED
    BY <2>1, <2>3, <1>4, <1>6, <1>7
<1>8. CASE Len(order) = 2
  <2> DEFINE second == AlignEdge(first, Stack, B, order[2])
  <2>1. Alignment(order) = second
    BY <1>8 DEF Alignment, a
  <2>2. Aligns(first, nodes, Stack, B, locals) /\ first.outputs = aligned.outputs \cup {B}
    BY <1>6, <1>8
  <2>3. order[2] \in Blocks /\ B \in first.outputs
    BY <2>2, <1>4, <1>8
  <2>4. /\ Aligns(second, nodes, Stack, B, locals)
        /\ second.outputs = first.outputs \cup {B}
        /\ second.inputs = first.inputs \cup {order[2]}
        /\ EdgeAdds(second.initial, first.initial, first.inputs, Stack, order[2])
        /\ KeepsParams(second.nodes, first.nodes)
    <3> DEFINE t == order[2]
               list == Stack
               b == B
    <3>1. /\ t \in Blocks /\ b \in Blocks /\ list \in NodeList(nodes) /\ Distinct(list)
          /\ Aligns(first, nodes, list, b, locals) /\ b \in first.outputs
      BY <2>2, <2>3
    <3> HIDE DEF t, list, b, first
    <3>2. EdgeAligned(AlignEdge(first, list, b, t), first, nodes, list, b, t, locals)
      BY <3>1, AlignedEdge
    <3> QED
      BY <3>2 DEF t, list, b, EdgeAligned
  <2> HIDE DEF first, second
  <2>5. first.outputs \cup {B} = aligned.outputs \cup {B}
    BY <2>2
  <2>6. order # <<>>
    BY <1>4, <1>8
  <2>7. Aligns(second, nodes, Stack, B, locals) /\ second.outputs = aligned.outputs \cup {B}
    BY <2>4, <2>5
  <2>8. Range(order) = {order[1], order[2]}
    BY <1>4, <1>8, LenProperties DEF Range
  <2>9. EdgesAdd(second, order, Stack)
    <3> DEFINE p == order[1]
               q == order[2]
    <3>1. /\ first.inputs = aligned.inputs \cup {p}
          /\ EdgeAdds(first.initial, initial, aligned.inputs, Stack, p)
          /\ second.inputs = first.inputs \cup {q}
          /\ EdgeAdds(second.initial, first.initial, first.inputs, Stack, q)
          /\ p \in Blocks /\ q \in Blocks
      BY <1>4, <1>6, <1>8, <2>4
    <3>2. Range(order) = {p, q}
      BY <2>8
    <3> HIDE DEF p, q
    <3> QED
      BY <3>1, <3>2 DEF EdgesAdd, EdgeAdds
  <2>10. KeepsParams(second.nodes, nodes)
    BY <1>6, <1>8, <2>4 DEF KeepsParams
  <2> QED
    BY <2>1, <2>6, <2>7, <2>9, <2>10
<1>9. Len(order) = 0 \/ Len(order) = 1 \/ Len(order) = 2
  <2> DEFINE n == Len(order)
  <2>1. n \in Nat /\ n <= 2
    BY <1>4
  <2> HIDE DEF n
  <2>2. n = 0 \/ n = 1 \/ n = 2
    BY <2>1
  <2> QED
    BY <2>2 DEF n
<1> QED
  BY <1>5, <1>7, <1>8, <1>9, Zenon

-----------------------------------------------------------------------------
(***************************************************************************)
(* The invariant.                                                          *)
(***************************************************************************)
\* The nodes of the instructions of all blocks.
NodesOfInstructions(ps, bl, ns) ==
  /\ DOMAIN ps = DOMAIN bl
  /\ \A b \in DOMAIN bl :
       /\ DOMAIN ps[b] = DOMAIN bl[b]
       /\ \A i \in DOMAIN bl[b] : ps[b][i] \in NodeList(ns)

\* An active call.
Call(bl, ns) ==
  [block : DOMAIN bl, at : Nat, stack : NodeList(ns), taken : Nat, left : Seq(DOMAIN bl)]

IsCall(c, bl, ns) ==
  /\ c \in Call(bl, ns)
  /\ c.at \in 1 .. Len(bl[c.block]) + 2
  /\ IsStack(c.stack, ns)

\* c is at a block whose edges have no registers from it.
Open(c, bl, outs) == c.at <= Len(bl[c.block]) + 1 => c.block \notin outs

\* Only the innermost call is not through with its block.
ActiveCalls(cs, bl, ns, outs) ==
  /\ cs \in Seq(Call(bl, ns))
  /\ \A k \in 1 .. Len(cs) :
       /\ IsCall(cs[k], bl, ns)
       /\ cs[k].at <= Len(bl[cs[k].block]) + 1 => k = Len(cs)
       /\ Open(cs[k], bl, outs)

Types ==
  /\ blocks \in Graphs
  /\ Nodes(nodes)
  /\ NodesOfInstructions(pops, blocks, nodes) /\ NodesOfInstructions(pushes, blocks, nodes)
  /\ params \in [Blocks -> NodeList(nodes)]
  /\ inputs \in [Blocks -> NodeList(nodes)]
  /\ outputs \in [Blocks -> NodeList(nodes)]
  /\ initial \in [Blocks -> Seq(Registers)]
  /\ aligned \in [inputs : SUBSET Blocks, outputs : SUBSET Blocks]
  /\ generated \in [Blocks -> Nat]
  /\ accumulated \in [Blocks -> [params : Nat, size : Nat]]
  /\ reported \subseteq Blocks \X Blocks
  /\ outcome \in {"running", "done", "aborted", "undefined"}

IInv ==
  /\ Types
  /\ ActiveCalls(calls, blocks, nodes, aligned.outputs)
  /\ Allocated(initial, generated, aligned.inputs, locals)

-----------------------------------------------------------------------------
(***************************************************************************)
(* Effects.                                                                *)
(***************************************************************************)
\* The table of PrimitiveEffects.h has every word an instruction can link to.
LEMMA EffectsTable ==
  /\ \A q \in Primitives \cup {"toLocal", "fromLocal"} :
       Effects.pops[q] \in Nat /\ Effects.pushes[q] \in Nat
  /\ Effects.pops["swap"] = 2 /\ Effects.pushes["swap"] = 2
  /\ Effects.pops["rot"] = 3 /\ Effects.pushes["rot"] = 3
  /\ Effects.pops["dup"] = 1 /\ Effects.pushes["dup"] = 2
<1> DEFINE D1 == BinaryPrimitives \cup {"swap", "!"}
           D2 == {"dup", "drop", ".", ",", "allot", "@", "branchif",
                  "malloc", "free", "toLocal"}
           D3 == BinaryPrimitives \cup {"@", "literal", "here", "malloc", "fromLocal"}
<1>1. \A q \in Primitives \cup {"toLocal", "fromLocal"} :
        /\ Effects.pops[q] = CASE q = "rot" -> 3 [] q \in D1 -> 2 [] q \in D2 -> 1 [] OTHER -> 0
        /\ Effects.pushes[q] = CASE q = "rot" -> 3 [] q \in {"swap", "dup"} -> 2
                                 [] q \in D3 -> 1 [] OTHER -> 0
  BY DEF Effects
<1>2. /\ "swap" \in Primitives /\ "rot" \in Primitives /\ "dup" \in Primitives
      /\ "swap" \in D1 /\ "dup" \notin D1 /\ "dup" \in D2 /\ "rot" # "swap" /\ "rot" # "dup"
      /\ "rot" \notin D1 /\ "rot" \notin D2 /\ "rot" \notin D3
      /\ "swap" \notin D2 /\ "swap" \notin D3 /\ "dup" \notin D3
  BY DEF Primitives, BinaryPrimitives
<1>3. D1 \cap D2 = {}
  BY DEF BinaryPrimitives
<1>4. {"swap", "dup"} \cap D3 = {}
  BY <1>2
<1> HIDE DEF D1, D2, D3
<1>5. \A q \in Primitives \cup {"toLocal", "fromLocal"} : Effects.pops[q] \in Nat
  BY <1>1, <1>2, <1>3
<1>6. \A q \in Primitives \cup {"toLocal", "fromLocal"} : Effects.pushes[q] \in Nat
  BY <1>1, <1>2, <1>4
<1>7. /\ Effects.pops["swap"] = 2 /\ Effects.pushes["swap"] = 2
      /\ Effects.pops["rot"] = 3 /\ Effects.pushes["rot"] = 3
      /\ Effects.pops["dup"] = 1 /\ Effects.pushes["dup"] = 2
  BY <1>1, <1>2, <1>3, <1>4
<1> QED
  BY <1>5, <1>6, <1>7

LEMMA EffectType ==
  ASSUME NEW c, IsLinked(c)
  PROVE  Effect(c).pops \in Nat /\ Effect(c).pushes \in Nat
<1>1. CASE c = Exit
  <2>1. c.kind # "word" /\ ~IsLocal(c)
    BY <1>1 DEF Exit, IsLocal
  <2>2. Effect(c) = [pops |-> 0, pushes |-> 0]
    BY <1>1, <2>1 DEF Effect
  <2> QED
    BY <2>2
<1>2. CASE c # Exit /\ c.kind = "word"
  <2>1. c.w \in DOMAIN WordEffects
    BY <1>2 DEF IsLinked, IsLocal
  <2>2. Effect(c) = WordEffects[c.w]
    BY <1>2 DEF Effect, IsLocal
  <2> QED
    BY <2>1, <2>2, EffectsAssumption
<1>3. CASE c # Exit /\ c.kind # "word" /\ IsLocal(c)
  <2>1. Effect(c) = [pops |-> Effects.pops[c.kind], pushes |-> Effects.pushes[c.kind]]
    BY <1>3 DEF Effect
  <2>2. c.kind \in {"toLocal", "fromLocal"}
    BY <1>3 DEF IsLocal
  <2> QED
    BY <2>1, <2>2, EffectsTable
<1>4. CASE c # Exit /\ c.kind # "word" /\ ~IsLocal(c)
  <2>1. Effect(c) = [pops |-> Effects.pops[c.p], pushes |-> Effects.pushes[c.p]]
    BY <1>4 DEF Effect
  <2>2. c.p \in Primitives
    BY <1>4 DEF IsLinked
  <2> QED
    BY <2>1, <2>2, EffectsTable
<1> QED
  BY <1>1, <1>2, <1>3, <1>4

\* The elements that are passed on are popped, and pushed.
LEMMA OutInType ==
  ASSUME NEW c, IsLinked(c)
  PROVE  \E m \in Nat :
           /\ DOMAIN OutIn(c) = 1 .. m /\ m <= Effect(c).pushes
           /\ \A i \in 1 .. m : OutIn(c)[i] \in 1 .. Effect(c).pops
<1>1. ASSUME c.kind = "prim" PROVE c # Exit /\ ~IsLocal(c) /\ c.kind # "word"
  BY <1>1 DEF Exit, IsLocal
<1>2. ASSUME c.kind = "prim"
      PROVE  Effect(c).pops = Effects.pops[c.p] /\ Effect(c).pushes = Effects.pushes[c.p]
  BY <1>1, <1>2 DEF Effect
<1>3. CASE IsPrimitive(c, "swap")
  <2>1. OutIn(c) = <<2, 1>>
    BY <1>3 DEF OutIn, IsPrimitive
  <2>2. Effect(c).pops = 2 /\ Effect(c).pushes = 2
    BY <1>2, <1>3, EffectsTable DEF IsPrimitive
  <2>3. DOMAIN OutIn(c) = 1 .. 2 /\ \A i \in 1 .. 2 : OutIn(c)[i] \in 1 .. 2
    BY <2>1
  <2> QED
    BY <2>2, <2>3
<1>4. CASE IsPrimitive(c, "rot")
  <2>1. OutIn(c) = <<2, 1, 3>>
    BY <1>4 DEF OutIn, IsPrimitive
  <2>2. Effect(c).pops = 3 /\ Effect(c).pushes = 3
    BY <1>2, <1>4, EffectsTable DEF IsPrimitive
  <2>3. DOMAIN OutIn(c) = 1 .. 3 /\ \A i \in 1 .. 3 : OutIn(c)[i] \in 1 .. 3
    BY <2>1
  <2> QED
    BY <2>2, <2>3
<1>5. CASE IsPrimitive(c, "dup")
  <2>1. OutIn(c) = <<1, 1>>
    BY <1>5 DEF OutIn, IsPrimitive
  <2>2. Effect(c).pops = 1 /\ Effect(c).pushes = 2
    BY <1>2, <1>5, EffectsTable DEF IsPrimitive
  <2>3. DOMAIN OutIn(c) = 1 .. 2 /\ \A i \in 1 .. 2 : OutIn(c)[i] \in 1 .. 1
    BY <2>1
  <2> QED
    BY <2>2, <2>3
<1>6. CASE ~IsPrimitive(c, "swap") /\ ~IsPrimitive(c, "rot") /\ ~IsPrimitive(c, "dup")
  <2>1. OutIn(c) = <<>>
    BY <1>6 DEF OutIn
  <2>2. DOMAIN OutIn(c) = 1 .. 0 /\ 0 <= Effect(c).pushes
    BY <2>1, EffectType
  <2> QED
    BY <2>2
<1> QED
  BY <1>3, <1>4, <1>5, <1>6

-----------------------------------------------------------------------------
(***************************************************************************)
(* Blocks and active calls.                                                *)
(***************************************************************************)
LEMMA BlockProperties ==
  ASSUME blocks \in Graphs
  PROVE  /\ Blocks = 1 .. Len(blocks) /\ Blocks \subseteq Nat
         /\ Len(blocks) \in Blocks /\ 1 \in Blocks
         /\ \A b \in Blocks :
              /\ Len(blocks[b]) \in Nat /\ 1 <= Len(blocks[b])
              /\ DOMAIN blocks[b] = 1 .. Len(blocks[b])
              /\ \A i \in 1 .. Len(blocks[b]) : IsLinked(blocks[b][i].cell)
              /\ NextBBs(b) \in Seq(Blocks) /\ Len(NextBBs(b)) <= 2
<1>1. blocks \in Seq(Range(blocks)) /\ blocks # <<>>
  BY GraphsAssumption
<1>2. Len(blocks) \in Nat \ {0} /\ Blocks = 1 .. Len(blocks)
  <2> DEFINE S == Range(blocks)
  <2>1. blocks \in Seq(S) /\ blocks # <<>>
    BY <1>1
  <2> HIDE DEF S
  <2> QED
    BY <2>1, EmptySeq, LenProperties DEF Blocks
<1>3. ASSUME NEW b \in Blocks
      PROVE  /\ Len(blocks[b]) \in Nat /\ 1 <= Len(blocks[b])
             /\ DOMAIN blocks[b] = 1 .. Len(blocks[b])
             /\ \A i \in 1 .. Len(blocks[b]) : IsLinked(blocks[b][i].cell)
             /\ NextBBs(b) \in Seq(Blocks) /\ Len(NextBBs(b)) <= 2
  <2>1. /\ blocks[b] \in Seq(Range(blocks[b])) /\ blocks[b] # <<>>
        /\ \A i \in DOMAIN blocks[b] : IsLinked(blocks[b][i].cell)
        /\ Last(blocks[b]).to \in Seq(Blocks) /\ Len(Last(blocks[b]).to) <= 2
    BY GraphsAssumption DEF Blocks
  <2>2. Len(blocks[b]) \in Nat \ {0} /\ DOMAIN blocks[b] = 1 .. Len(blocks[b])
    <3> DEFINE S == Range(blocks[b])
    <3>1. blocks[b] \in Seq(S) /\ blocks[b] # <<>>
      BY <2>1
    <3> HIDE DEF S
    <3> QED
      BY <3>1, EmptySeq, LenProperties
  <2> QED
    BY <2>1, <2>2 DEF NextBBs
<1> QED
  BY <1>2, <1>3

LEMMA TopProperties ==
  ASSUME NEW cs, NEW bl, NEW ns, NEW outs, ActiveCalls(cs, bl, ns, outs), cs # <<>>
  PROVE  /\ Len(cs) \in Nat /\ 1 <= Len(cs)
         /\ Last(cs) = cs[Len(cs)]
         /\ IsCall(Last(cs), bl, ns) /\ Open(Last(cs), bl, outs)
<1>1. cs \in Seq(Call(bl, ns))
  BY DEF ActiveCalls
<1>2. Len(cs) \in Nat \ {0}
  BY <1>1, EmptySeq
<1>3. Last(cs) = cs[Len(cs)]
  BY DEF Last
<1> QED
  BY <1>2, <1>3 DEF ActiveCalls

LEMMA SameExtends ==
  ASSUME NEW ns, Nodes(ns)
  PROVE  Extends(ns, ns)
<1>1. Len(ns) \in Nat
  BY LenProperties DEF Nodes
<1> QED
  BY <1>1 DEF Extends

LEMMA CallGrows ==
  ASSUME NEW c, NEW bl, NEW ns, NEW ms, Nodes(ns), Extends(ms, ns), IsCall(c, bl, ns)
  PROVE  IsCall(c, bl, ms)
<1>1. NodeList(ns) \subseteq NodeList(ms)
  BY ListsGrow
<1>2. c \in Call(bl, ms)
  BY <1>1 DEF Call, IsCall
<1>3. IsStack(c.stack, ms)
  BY StackGrows DEF IsCall
<1> QED
  BY <1>2, <1>3 DEF IsCall

LEMMA CallsGrow ==
  ASSUME NEW cs, NEW bl, NEW ns, NEW ms, NEW outs, Nodes(ns), Extends(ms, ns),
         ActiveCalls(cs, bl, ns, outs)
  PROVE  ActiveCalls(cs, bl, ms, outs)
<1>1. Call(bl, ns) \subseteq Call(bl, ms)
  BY ListsGrow DEF Call
<1>2. cs \in Seq(Call(bl, ms))
  <2> DEFINE S == Call(bl, ns)
             T == Call(bl, ms)
  <2>1. S \subseteq T /\ cs \in Seq(S)
    BY <1>1 DEF ActiveCalls
  <2> HIDE DEF S, T
  <2>2. cs \in Seq(T)
    BY <2>1, SeqMonotonic
  <2> QED
    BY <2>2 DEF T
<1>3. \A k \in 1 .. Len(cs) : IsCall(cs[k], bl, ms)
  BY CallGrows DEF ActiveCalls
<1> QED
  BY <1>2, <1>3 DEF ActiveCalls

\* The innermost call goes on.
ReplaceTop(cs, c) == [cs EXCEPT ![Len(cs)] = c]

LEMMA TopReplaced ==
  ASSUME NEW cs, NEW bl, NEW ns, NEW outs, NEW new, NEW c,
         ActiveCalls(cs, bl, ns, outs), cs # <<>>, IsCall(c, bl, ns), Open(c, bl, new)
  PROVE  ActiveCalls(ReplaceTop(cs, c), bl, ns, new)
<1> DEFINE n  == Len(cs)
           ds == ReplaceTop(cs, c)
           S  == Call(bl, ns)
<1>1. n \in Nat /\ 1 <= n /\ cs \in Seq(S) /\ c \in S
  BY TopProperties DEF ActiveCalls, IsCall
<1> HIDE DEF S
<1>2. n \in 1 .. n
  BY <1>1
<1>3. /\ ds \in Seq(S) /\ Len(ds) = n
      /\ \A k \in 1 .. n : ds[k] = IF k = n THEN c ELSE cs[k]
  BY <1>1, <1>2, ExceptSeq DEF ReplaceTop
<1> HIDE DEF ds
<1>4. ASSUME NEW k \in 1 .. n
      PROVE  /\ IsCall(ds[k], bl, ns)
             /\ ds[k].at <= Len(bl[ds[k].block]) + 1 => k = n
             /\ Open(ds[k], bl, new)
  <2>1. CASE k = n
    BY <2>1, <1>3
  <2>2. CASE k # n
    <3>1. ds[k] = cs[k]
      BY <2>2, <1>3
    <3>2. IsCall(cs[k], bl, ns) /\ ~(cs[k].at <= Len(bl[cs[k].block]) + 1)
      BY <2>2 DEF ActiveCalls
    <3> QED
      BY <3>1, <3>2 DEF Open
  <2> QED
    BY <2>1, <2>2
<1>5. ActiveCalls(ds, bl, ns, new)
  BY <1>3, <1>4 DEF ActiveCalls, S
<1> QED
  BY <1>5 DEF ds

LEMMA CallPushed ==
  ASSUME NEW cs, NEW bl, NEW ns, NEW outs, NEW c,
         ActiveCalls(cs, bl, ns, outs),
         cs # <<>> => ~(Last(cs).at <= Len(bl[Last(cs).block]) + 1),
         IsCall(c, bl, ns), Open(c, bl, outs)
  PROVE  ActiveCalls(Append(cs, c), bl, ns, outs)
<1> DEFINE n  == Len(cs)
           ds == Append(cs, c)
           S  == Call(bl, ns)
<1>1. n \in Nat /\ cs \in Seq(S) /\ c \in S
  BY LenProperties DEF ActiveCalls, IsCall
<1> HIDE DEF S
<1>2. /\ ds \in Seq(S) /\ Len(ds) = n + 1
      /\ \A k \in 1 .. n : ds[k] = cs[k]
      /\ ds[n + 1] = c
  BY <1>1, AppendProperties
<1> HIDE DEF ds
<1>3. ASSUME NEW k \in 1 .. n + 1
      PROVE  /\ IsCall(ds[k], bl, ns)
             /\ ds[k].at <= Len(bl[ds[k].block]) + 1 => k = n + 1
             /\ Open(ds[k], bl, outs)
  <2>1. CASE k = n + 1
    BY <2>1, <1>2
  <2>2. CASE k \in 1 .. n
    <3>1. ds[k] = cs[k] /\ IsCall(cs[k], bl, ns) /\ Open(cs[k], bl, outs)
          /\ (cs[k].at <= Len(bl[cs[k].block]) + 1 => k = n)
      BY <2>2, <1>2 DEF ActiveCalls
    <3>2. cs # <<>>
      BY <2>2, <1>1, EmptySeq
    <3>3. Last(cs) = cs[n]
      BY <3>2, TopProperties
    <3> QED
      BY <3>1, <3>2, <3>3
  <2> QED
    BY <2>1, <2>2, <1>1
<1>4. ActiveCalls(ds, bl, ns, outs)
  BY <1>2, <1>3 DEF ActiveCalls, S
<1> QED
  BY <1>4 DEF ds

LEMMA CallPopped ==
  ASSUME NEW cs, NEW bl, NEW ns, NEW outs, ActiveCalls(cs, bl, ns, outs), cs # <<>>
  PROVE  ActiveCalls(Front(cs), bl, ns, outs)
<1> DEFINE n  == Len(cs)
           ds == Front(cs)
           S  == Call(bl, ns)
<1>1. n \in Nat /\ 1 <= n /\ cs \in Seq(S)
  BY TopProperties DEF ActiveCalls
<1> HIDE DEF S
<1>2. /\ ds \in Seq(S) /\ Len(ds) = n - 1
      /\ \A k \in 1 .. n - 1 : ds[k] = cs[k]
  BY <1>1, FrontProperties
<1> HIDE DEF ds
<1>3. ASSUME NEW k \in 1 .. n - 1
      PROVE  /\ IsCall(ds[k], bl, ns)
             /\ ds[k].at <= Len(bl[ds[k].block]) + 1 => k = n - 1
             /\ Open(ds[k], bl, outs)
  <2>1. k \in 1 .. n /\ k # n /\ ds[k] = cs[k]
    BY <1>1, <1>2
  <2> QED
    BY <2>1 DEF ActiveCalls
<1>4. ActiveCalls(ds, bl, ns, outs)
  BY <1>2, <1>3 DEF ActiveCalls, S
<1> QED
  BY <1>4 DEF ds

-----------------------------------------------------------------------------
(***************************************************************************)
(* The nodes propagate_stack creates.                                      *)
(***************************************************************************)
LEMMA LinksBackExtends ==
  ASSUME NEW ms, NEW ns, NEW prevs, NEW list, NEW regs, Nodes(ns),
         LinksBack(ms, ns, prevs, list, regs),
         \A i \in 1 .. Len(list) : prevs[i] # 0
  PROVE  Extends(ms, ns) /\ Len(ms) = Len(ns)
<1>1. Len(ns) \in Nat /\ \A n \in 1 .. Len(ns) : ns[n] \in Node
  BY LenProperties, ElementOfSeq DEF Nodes
<1>2. ASSUME NEW n \in 1 .. Len(ns), ns[n].prev # 0 PROVE ms[n].prev # 0
  <2>1. CASE ms[n] = ns[n]
    BY <2>1, <1>2
  <2>2. ASSUME NEW i \in 1 .. Len(list), ms[n] = [ns[n] EXCEPT !.prev = prevs[i], !.back = regs[i]]
        PROVE  ms[n].prev # 0
    <3>1. ms[n].prev = prevs[i]
      BY <2>2, <1>1 DEF Node
    <3> QED
      BY <3>1
  <2> QED
    BY <2>1, <2>2 DEF LinksBack
<1>3. Nodes(ms) /\ Len(ms) = Len(ns)
  BY DEF LinksBack
<1> QED
  BY <1>1, <1>2, <1>3 DEF Extends

LEMMA PairedProperties ==
  ASSUME NEW p, NEW pushed, Nodes(p.nodes), IsLinked(Cell0),
         p.popped \in NodeList(p.nodes), Len(p.popped) = Effect(Cell0).pops,
         pushed \in NodeList(WithNew(p.nodes, Effect(Cell0).pushes)),
         Effect(Cell0).pushes <= Len(pushed)
  PROVE  /\ Extends(Paired(p, pushed), p.nodes)
         /\ Len(Paired(p, pushed)) = Len(p.nodes) + Effect(Cell0).pushes
         /\ \A P : ParamsUpTo(p.nodes, P) => ParamsUpTo(Paired(p, pushed), P)
<1> DEFINE ns    == p.nodes
           k     == Effect(Cell0).pushes
           ws    == WithNew(ns, k)
           oi    == OutIn(Cell0)
           prevs == [i \in DOMAIN oi |-> p.popped[oi[i]]]
           list  == [i \in DOMAIN oi |-> pushed[i]]
           regs  == [i \in DOMAIN oi |-> ns[p.popped[oi[i]]].back]
           ms    == Link(ws, prevs, list, regs)
<1>1. k \in Nat /\ Len(ns) \in Nat /\ Len(pushed) \in Nat
  BY EffectType, LenProperties DEF Nodes, NodeList
<1>2. PICK m \in Nat : /\ DOMAIN oi = 1 .. m /\ m <= k
                       /\ \A i \in 1 .. m : oi[i] \in 1 .. Effect(Cell0).pops
  BY OutInType
<1>3. Nodes(ws) /\ Extends(ws, ns) /\ Len(ws) = Len(ns) + k
  BY <1>1, NewNodes
<1>4. ASSUME NEW i \in 1 .. m
      PROVE  /\ p.popped[oi[i]] \in 1 .. Len(ns)
             /\ pushed[i] \in 1 .. Len(ws)
  <2>1. oi[i] \in 1 .. Len(p.popped) /\ i \in 1 .. Len(pushed)
    BY <1>1, <1>2
  <2> QED
    BY <2>1, ElementOfSeq DEF NodeList
<1>5. \A n \in 1 .. Len(ns) : ns[n].back \in Registers
  <2>1. \A n \in 1 .. Len(ns) : ns[n] \in Node
    BY ElementOfSeq DEF Nodes
  <2> QED
    BY <2>1 DEF Node
<1>6. list \in NodeList(ws) /\ Len(list) = m
  <2>1. list \in [1 .. m -> 1 .. Len(ws)]
    BY <1>2, <1>4
  <2> QED
    BY <2>1, Listed DEF NodeList
<1>7. \A i \in 1 .. m : prevs[i] \in 1 .. Len(ns) /\ regs[i] \in Registers
  BY <1>2, <1>4, <1>5
<1>8. ms = Paired(p, pushed)
  BY DEF Paired
<1> HIDE DEF ns, k, ws, oi, prevs, list, regs, ms
<1>9. \A i \in 1 .. m : prevs[i] \in 0 .. Len(ws) /\ prevs[i] # 0
  BY <1>1, <1>3, <1>7
<1>10. LinksBack(ms, ws, prevs, list, regs)
  BY <1>3, <1>6, <1>7, <1>9, Linked DEF ms
<1>11. Extends(ms, ws) /\ Len(ms) = Len(ws)
  BY <1>3, <1>6, <1>9, <1>10, LinksBackExtends
<1>12. Extends(ms, ns)
  BY <1>3, <1>11, ExtendsMore DEF ns
<1>13. ASSUME NEW P, ParamsUpTo(ns, P) PROVE ParamsUpTo(ms, P)
  <2>1. ParamsUpTo(ws, P)
    BY <1>1, <1>13, NewParams DEF ws, ns
  <2>2. \A i \in 1 .. m : ReadsUpTo(regs[i], P)
    BY <1>2, <1>4, <1>13 DEF ParamsUpTo, regs, oi
  <2> SUFFICES ASSUME NEW n \in 1 .. Len(ws) PROVE ReadsUpTo(ms[n].back, P)
    BY <1>11 DEF ParamsUpTo
  <2>3. ws[n] \in Node /\ ReadsUpTo(ws[n].back, P)
    BY <1>3, <2>1, ElementOfSeq DEF Nodes, ParamsUpTo
  <2>4. ASSUME NEW i \in 1 .. m, ms[n] = [ws[n] EXCEPT !.prev = prevs[i], !.back = regs[i]]
        PROVE  ReadsUpTo(ms[n].back, P)
    <3> DEFINE r == regs[i]
    <3>1. ms[n].back = r
      BY <2>3, <2>4 DEF Node
    <3> QED
      BY <2>2, <3>1
  <2> QED
    BY <1>6, <1>10, <2>3, <2>4 DEF LinksBack
<1> QED
  BY <1>3, <1>8, <1>11, <1>12, <1>13 DEF ns, k

\* The elements the nodes pushed are linked to.
LinkTops(ns, pushed, regs) ==
  LinkBoth(WithNew(ns, Len(pushed)), pushed, NewTops(ns, Len(pushed)), regs)

LEMMA TopsLinked ==
  ASSUME NEW ns, Nodes(ns), NEW pushed \in NodeList(ns), NEW regs,
         \A i \in 1 .. Len(pushed) : regs[i] \in Registers
  PROVE  /\ Extends(LinkTops(ns, pushed, regs), ns)
         /\ Len(LinkTops(ns, pushed, regs)) = Len(ns) + Len(pushed)
         /\ IsStack(NewTops(ns, Len(pushed)), LinkTops(ns, pushed, regs))
         /\ \A P : ParamsUpTo(ns, P) /\ (\A i \in 1 .. Len(pushed) : ReadsUpTo(regs[i], P)) =>
                ParamsUpTo(LinkTops(ns, pushed, regs), P)
<1> DEFINE m    == Len(pushed)
           ws   == WithNew(ns, m)
           tops == NewTops(ns, m)
           ms   == LinkTops(ns, pushed, regs)
<1>1. Len(ns) \in Nat /\ m \in Nat
  BY LenProperties DEF Nodes, NodeList
<1>2. /\ Nodes(ws) /\ Extends(ws, ns) /\ Len(ws) = Len(ns) + m
      /\ \A n \in 1 .. m : ws[Len(ns) + n] = NewNode
  BY <1>1, NewNodes
<1>3. /\ tops \in NodeList(ws) /\ Len(tops) = m /\ Distinct(tops)
      /\ \A i \in 1 .. m : tops[i] = Len(ns) + i
  <2>1. Len(ns) + m <= Len(ws) /\ Len(ws) \in Nat
    BY <1>1, <1>2
  <2> QED
    BY <1>1, <2>1, NewTopsProperties DEF NodeList
<1>4. \A i \in 1 .. m : pushed[i] \in 1 .. Len(ns)
  BY ElementOfSeq DEF NodeList
<1>5. pushed \in Seq(0 .. Len(ws))
  <2>1. 1 .. Len(ns) \subseteq 0 .. Len(ws)
    BY <1>1, <1>2
  <2> QED
    BY <2>1, SeqMonotonic DEF NodeList
<1>6. ms = LinkBoth(ws, pushed, tops, regs)
  BY DEF LinkTops
<1> HIDE DEF m, ws, tops, ms
<1>7. IsLink(ms, ws, pushed, tops, regs)
  BY <1>2, <1>3, <1>5, <1>6, LinkedBoth DEF m
<1>8. Extends(ms, ws) /\ Len(ms) = Len(ws)
  <2>1. \A i \in 1 .. Len(tops) : pushed[i] # 0 \/ ws[tops[i]].prev = 0
    BY <1>1, <1>3, <1>4
  <2>2. Extends(ms, ws)
    BY <2>1, <1>2, <1>7, LinkExtends
  <2> QED
    BY <2>2, <1>7 DEF IsLink
<1>9. Extends(ms, ns)
  BY <1>2, <1>8, ExtendsMore
<1>10. ASSUME NEW i \in 1 .. m PROVE ms[tops[i]].prev # 0
  <2>1. tops[i] \in Range(tops) /\ tops[i] \in 1 .. Len(ws)
    <3>1. i \in DOMAIN tops
      BY <1>3, LenProperties DEF NodeList
    <3> QED
      BY <3>1, <1>3, ElementOfSeq DEF Range, NodeList
  <2>2. PICK j \in 1 .. m : ms[tops[i]].prev = pushed[j]
    BY <2>1, <1>3, <1>7 DEF IsLink
  <2> QED
    BY <2>2, <1>1, <1>4
<1>11. IsStack(tops, ms)
  BY <1>3, <1>8, <1>10 DEF IsStack, NodeList
<1>12. ASSUME NEW P, ParamsUpTo(ns, P), \A i \in 1 .. m : ReadsUpTo(regs[i], P)
       PROVE  ParamsUpTo(ms, P)
  <2>1. ParamsUpTo(ws, P)
    BY <1>1, <1>12, NewParams DEF ws
  <2> QED
    BY <1>3, <1>7, <1>12, <2>1, LinkParams
<1> QED
  BY <1>2, <1>8, <1>9, <1>11, <1>12 DEF m, tops, ms

\* New elements on a stack.
LEMMA Stacked ==
  ASSUME NEW ns, NEW ms, NEW os, Nodes(os), Nodes(ns), Extends(ms, ns), Extends(ns, os),
         NEW stack, IsStack(stack, os), NEW m \in Nat, IsStack(NewTops(ns, m), ms)
  PROVE  IsStack(stack \o NewTops(ns, m), ms)
<1> DEFINE tops == NewTops(ns, m)
           k    == Len(stack)
           new  == stack \o tops
<1>1. Len(os) \in Nat /\ Len(ns) \in Nat /\ Len(os) <= Len(ns) /\ Len(ns) <= Len(ms)
      /\ Len(ms) \in Nat
  BY LenProperties DEF Nodes, Extends
<1>2. Extends(ms, os)
  BY ExtendsMore
<1>3. IsStack(stack, ms)
  BY <1>2, StackGrows
<1>4. stack \in Seq(1 .. Len(ms)) /\ tops \in Seq(1 .. Len(ms)) /\ k \in Nat
  BY <1>3, LenProperties DEF IsStack, NodeList
<1>5. Len(tops) = m /\ \A i \in 1 .. m : tops[i] = Len(ns) + i
  BY <1>1, NewTopsProperties
<1>6. \A i \in 1 .. k : stack[i] \in 1 .. Len(os)
  BY ElementOfSeq DEF IsStack, NodeList
<1> HIDE DEF tops
<1>7. /\ new \in Seq(1 .. Len(ms)) /\ Len(new) = k + m
      /\ \A i \in 1 .. k + m : new[i] = IF i <= k THEN stack[i] ELSE tops[i - k]
  BY <1>4, <1>5, ConcatProperties
<1> HIDE DEF k, new
<1>8. ASSUME NEW i \in 1 .. k + m, i > k
      PROVE  i - k \in 1 .. m /\ new[i] = tops[i - k] /\ tops[i - k] = Len(ns) + (i - k)
             /\ new[i] > Len(os)
  <2>1. i - k \in 1 .. m /\ ~(i <= k)
    BY <1>4, <1>8 DEF k
  <2> QED
    BY <2>1, <1>1, <1>5, <1>7
<1>9. ASSUME NEW i \in 1 .. k + m, ~(i > k)
      PROVE  i \in 1 .. k /\ new[i] = stack[i] /\ ~(new[i] > Len(os))
  <2>1. i \in 1 .. k /\ i <= k
    BY <1>4, <1>9 DEF k
  <2> QED
    BY <2>1, <1>1, <1>6, <1>7 DEF k
<1>10. ASSUME NEW i \in 1 .. k + m, NEW j \in 1 .. k + m, new[i] = new[j]
       PROVE  i = j
  <2>1. CASE i > k /\ j > k
    BY <2>1, <1>1, <1>4, <1>8, <1>10 DEF k
  <2>2. CASE ~(i > k) /\ ~(j > k)
    BY <2>2, <1>9, <1>10 DEF IsStack, Distinct, k
  <2>3. CASE i > k /\ ~(j > k)
    BY <2>3, <1>8, <1>9, <1>10
  <2>4. CASE ~(i > k) /\ j > k
    BY <2>4, <1>8, <1>9, <1>10
  <2> QED
    BY <2>1, <2>2, <2>3, <2>4
<1>11. ASSUME NEW i \in 1 .. k + m PROVE ms[new[i]].prev # 0
  <2>1. CASE i > k
    <3>1. i - k \in 1 .. Len(tops) /\ new[i] = tops[i - k]
      BY <2>1, <1>5, <1>8
    <3> QED
      BY <3>1 DEF IsStack, tops
  <2>2. CASE ~(i > k)
    BY <2>2, <1>3, <1>9 DEF IsStack, k
  <2> QED
    BY <2>1, <2>2
<1>12. IsStack(new, ms)
  BY <1>7, <1>10, <1>11 DEF IsStack, NodeList, Distinct
<1> QED
  BY <1>12 DEF new, tops

-----------------------------------------------------------------------------
(***************************************************************************)
(* The steps.                                                              *)
(***************************************************************************)
LEMMA FrameProperties ==
  ASSUME IInv, Running
  PROVE  /\ calls # <<>> /\ IsCall(Frame, blocks, nodes)
         /\ B \in Blocks /\ Frame.at \in 1 .. Len(Body) + 2
         /\ IsStack(Stack, nodes) /\ Frame.taken \in Nat /\ Frame.left \in Seq(Blocks)
         /\ Open(Frame, blocks, aligned.outputs)
<1>1. ActiveCalls(calls, blocks, nodes, aligned.outputs) /\ calls # <<>>
  BY DEF IInv, Running
<1>2. IsCall(Frame, blocks, nodes) /\ Open(Frame, blocks, aligned.outputs)
  BY <1>1, TopProperties DEF Frame
<1>3. Frame \in [block : Blocks, at : Nat, stack : NodeList(nodes), taken : Nat,
                 left : Seq(Blocks)]
  BY <1>2 DEF IsCall, Call, Blocks
<1> QED
  BY <1>1, <1>2, <1>3 DEF IsCall, B, Body, Stack

\* The next instruction, when there is one.
LEMMA CellProperties ==
  ASSUME IInv, Graphing
  PROVE  Frame.at \in DOMAIN Body /\ IsLinked(Cell0)
<1>1. B \in Blocks /\ Frame.at \in 1 .. Len(Body) + 2 /\ Frame.at <= Len(Body)
  BY FrameProperties DEF Graphing
<1>2. Len(Body) \in Nat /\ DOMAIN Body = 1 .. Len(Body)
      /\ \A i \in 1 .. Len(Body) : IsLinked(Body[i].cell)
  BY <1>1, BlockProperties DEF IInv, Types, Body
<1> QED
  BY <1>1, <1>2 DEF Cell0

\* What is known of the lists of nodes stays known when there are more nodes.
LEMMA ListTypesGrow ==
  ASSUME Types, NEW ms, Extends(ms, nodes)
  PROVE  /\ Nodes(ms)
         /\ NodesOfInstructions(pops, blocks, ms) /\ NodesOfInstructions(pushes, blocks, ms)
         /\ params \in [Blocks -> NodeList(ms)]
         /\ inputs \in [Blocks -> NodeList(ms)]
         /\ outputs \in [Blocks -> NodeList(ms)]
<1>1. NodeList(nodes) \subseteq NodeList(ms) /\ Nodes(ms)
  BY ListsGrow DEF Types, Extends
<1>2. NodesOfInstructions(pops, blocks, ms) /\ NodesOfInstructions(pushes, blocks, ms)
  BY <1>1 DEF Types, NodesOfInstructions
<1>3. /\ params \in [Blocks -> NodeList(nodes)]
      /\ inputs \in [Blocks -> NodeList(nodes)]
      /\ outputs \in [Blocks -> NodeList(nodes)]
  BY DEF Types
<1> QED
  BY <1>1, <1>2, <1>3

LEMMA InstructionNodes ==
  ASSUME NEW ps, NEW bl, NEW ns, NodesOfInstructions(ps, bl, ns),
         NEW b \in DOMAIN bl, NEW i \in DOMAIN bl[b], NEW list \in NodeList(ns)
  PROVE  NodesOfInstructions([ps EXCEPT ![b][i] = list], bl, ns)
<1> DEFINE row == [ps[b] EXCEPT ![i] = list]
           new == [ps EXCEPT ![b] = row]
<1>1. DOMAIN ps = DOMAIN bl /\ \A c \in DOMAIN bl : DOMAIN ps[c] = DOMAIN bl[c]
  BY DEF NodesOfInstructions
<1>2. DOMAIN row = DOMAIN bl[b] /\ \A j \in DOMAIN bl[b] : row[j] \in NodeList(ns)
  BY <1>1 DEF NodesOfInstructions
<1> HIDE DEF row
<1>3. /\ DOMAIN new = DOMAIN bl /\ new[b] = row
      /\ \A c \in DOMAIN bl : c # b => new[c] = ps[c]
  BY <1>1
<1> HIDE DEF new
<1>4. NodesOfInstructions(new, bl, ns)
  BY <1>1, <1>2, <1>3 DEF NodesOfInstructions
<1>5. new = [ps EXCEPT ![b][i] = list]
  BY DEF new, row
<1> QED
  BY <1>4, <1>5

\* The nodes popped are those of the instruction, and parameters of the block.
LEMMA SetPopsType ==
  ASSUME Types, B \in Blocks, Frame.at \in DOMAIN Body,
         NEW ms, Extends(ms, nodes), NEW p, p.popped \in NodeList(ms), p.params \in NodeList(ms),
         SetPops(p)
  PROVE  NodesOfInstructions(pops', blocks, ms) /\ params' \in [Blocks -> NodeList(ms)]
<1>1. NodesOfInstructions(pops, blocks, ms) /\ params \in [Blocks -> NodeList(ms)]
  BY ListTypesGrow
<1>2. NodesOfInstructions(pops', blocks, ms)
  <2> DEFINE list == p.popped
             i    == Frame.at
             b    == B
  <2>1. b \in DOMAIN blocks /\ i \in DOMAIN blocks[b] /\ list \in NodeList(ms)
    BY DEF Blocks, Body
  <2>2. pops' = [pops EXCEPT ![b][i] = list]
    BY DEF SetPops
  <2> HIDE DEF b, i, list
  <2> QED
    BY <1>1, <2>1, <2>2, InstructionNodes
<1>3. params[B] \o p.params \in NodeList(ms)
  BY <1>1, ConcatProperties DEF NodeList
<1>4. params' \in [Blocks -> NodeList(ms)]
  BY <1>1, <1>3 DEF SetPops
<1> QED
  BY <1>2, <1>4

\* The call goes on with the next instruction.
LEMMA MovedProperties ==
  ASSUME IInv, Running, Frame.at <= Len(Body) + 1, NEW ms, Extends(ms, nodes),
         NEW stack, IsStack(stack, ms), NEW taken \in Nat, NEW left \in Seq(Blocks), NEW new,
         B \notin new \/ Frame.at = Len(Body) + 1
  PROVE  ActiveCalls(ReplaceTop(calls, Moved(stack, taken, left)), blocks, ms, new)
<1> DEFINE c == Moved(stack, taken, left)
           outs == aligned.outputs
<1>1. /\ calls # <<>> /\ ActiveCalls(calls, blocks, nodes, outs) /\ Nodes(nodes)
      /\ B \in Blocks /\ Frame.at \in 1 .. Len(Body) + 2 /\ Len(Body) \in Nat
  BY FrameProperties, BlockProperties DEF IInv, Types, Body
<1>2. ActiveCalls(calls, blocks, ms, outs)
  BY <1>1, CallsGrow
<1>3. /\ c.block = B /\ c.at = Frame.at + 1 /\ c.stack = stack
      /\ c \in Call(blocks, ms)
  BY <1>1 DEF Moved, Call, IsStack, Blocks
<1> HIDE DEF c, outs
<1>4. IsCall(c, blocks, ms)
  <2>1. Frame.at + 1 \in 1 .. Len(Body) + 2
    BY <1>1
  <2> QED
    BY <1>3, <2>1 DEF IsCall, Body
<1>5. Open(c, blocks, new)
  <2>1. CASE B \notin new
    BY <1>3, <2>1 DEF Open
  <2>2. CASE Frame.at = Len(Body) + 1
    <3>1. ~(c.at <= Len(Body) + 1)
      BY <1>1, <1>3, <2>2
    <3> QED
      BY <1>3, <3>1 DEF Open, Body
  <2> QED
    BY <2>1, <2>2
<1>6. ActiveCalls(ReplaceTop(calls, c), blocks, ms, new)
  BY <1>1, <1>2, <1>4, <1>5, TopReplaced
<1> QED
  BY <1>6 DEF c

\* The call goes on with the next instruction.
LEMMA Stepped ==
  ASSUME IInv, Graphing, NEW ms, Extends(ms, nodes), NEW stack, IsStack(stack, ms),
         NEW taken \in Nat, Step(stack, taken)
  PROVE  ActiveCalls(calls', blocks, ms, aligned.outputs)
<1>1. /\ Running /\ Frame.at \in 1 .. Len(Body) + 2 /\ Frame.at <= Len(Body)
      /\ Frame.left \in Seq(Blocks) /\ Open(Frame, blocks, aligned.outputs) /\ B \in Blocks
  BY FrameProperties DEF Graphing
<1>2. Len(Body) \in Nat
  BY <1>1, BlockProperties DEF IInv, Types, Body
<1>3. Frame.at <= Len(Body) + 1
  BY <1>1, <1>2
<1>4. B \notin aligned.outputs
  BY <1>1, <1>3 DEF Open, B, Body
<1>5. calls' = ReplaceTop(calls, Moved(stack, taken, Frame.left))
  BY DEF Step, ReplaceTop
<1>6. ActiveCalls(ReplaceTop(calls, Moved(stack, taken, Frame.left)), blocks, ms, aligned.outputs)
  BY <1>1, <1>3, <1>4, MovedProperties
<1> QED
  BY <1>5, <1>6

LEMMA PropagateStep ==
  ASSUME IInv, Propagate
  PROVE  IInv'
<1> DEFINE e == Effect(Cell0)
           New(ns, pushed) == {i \in DOMAIN pushed : ns[pushed[i]].prev = 0}
           Reg(ns, pushed, i) ==
             IF i \notin New(ns, pushed) THEN ns[pushed[i]].back
             ELSE Normal(B, generated[B] + Cardinality({j \in New(ns, pushed) : j <= i}))
           Regs(ns, pushed) == [i \in DOMAIN pushed |-> Reg(ns, pushed, i)]
<1>1. PICK p, pushed, ns :
        /\ p = Popping(e.pops)
        /\ pushed = pushes[B][Frame.at] \o NewTops(p.nodes, e.pushes)
        /\ ns = Paired(p, pushed)
        /\ nodes' = LinkTops(ns, pushed, Regs(ns, pushed))
        /\ SetPops(p)
        /\ pushes' = [pushes EXCEPT ![B][Frame.at] = pushed]
        /\ generated' = [generated EXCEPT ![B] = @ + Cardinality(New(ns, pushed))]
        /\ Step(p.stack \o NewTops(ns, Len(pushed)), Frame.taken + Len(p.params))
  BY Zenon DEF Propagate, LinkTops
<1>2. /\ Graphing
      /\ blocks' = blocks /\ inputs' = inputs /\ outputs' = outputs /\ initial' = initial
      /\ aligned' = aligned /\ accumulated' = accumulated /\ locals' = locals
      /\ reported' = reported /\ effects' = effects /\ outcome' = outcome
  BY DEF Propagate
<1> DEFINE ms   == nodes'
           m    == Len(pushed)
           regs == Regs(ns, pushed)
           new  == New(ns, pushed)
<1>3. /\ Types /\ Running /\ B \in Blocks /\ Frame.taken \in Nat
      /\ IsStack(Stack, nodes) /\ Nodes(nodes) /\ Stack \in NodeList(nodes)
      /\ Frame.at \in DOMAIN Body /\ IsLinked(Cell0)
      /\ e.pops \in Nat /\ e.pushes \in Nat
  BY <1>2, FrameProperties, CellProperties, EffectType
     DEF IInv, Types, Graphing, IsStack
<1>4. /\ Extends(p.nodes, nodes)
      /\ p.popped \in NodeList(p.nodes) /\ Len(p.popped) = e.pops
      /\ p.params \in NodeList(p.nodes)
      /\ p.stack \in NodeList(nodes) /\ Len(p.stack) <= Len(Stack)
      /\ \A i \in 1 .. Len(p.stack) : p.stack[i] = Stack[i]
  <2>1. Popped(p, nodes, Stack, e.pops)
    BY <1>1, <1>3, PoppingProperties
  <2> QED
    BY <2>1 DEF Popped
<1>5. Nodes(p.nodes)
  BY <1>4 DEF Extends
<1> DEFINE ws == WithNew(p.nodes, e.pushes)
<1>6. Nodes(ws) /\ Extends(ws, p.nodes) /\ Len(ws) = Len(p.nodes) + e.pushes
  BY <1>3, <1>5, NewNodes
<1>7. pushed \in NodeList(ws) /\ e.pushes <= m /\ m \in Nat
  <2> DEFINE old == pushes[B][Frame.at]
             add == NewTops(p.nodes, e.pushes)
  <2>1. old \in NodeList(ws)
    <3>1. old \in NodeList(nodes)
      BY <1>3 DEF Types, NodesOfInstructions, Blocks, Body
    <3>2. Extends(ws, nodes)
      BY <1>3, <1>4, <1>6, ExtendsMore
    <3> QED
      BY <1>3, <3>1, <3>2, ListsGrow
  <2>2. Len(p.nodes) \in Nat /\ Len(ws) \in Nat /\ Len(p.nodes) + e.pushes <= Len(ws)
    BY <1>3, <1>5, <1>6, LenProperties DEF Nodes
  <2>3. add \in NodeList(ws) /\ Len(add) = e.pushes
    BY <1>3, <2>2, NewTopsProperties DEF NodeList
  <2> HIDE DEF old, add, ws, e
  <2>4. old \o add \in NodeList(ws) /\ Len(old \o add) = Len(old) + Len(add)
        /\ Len(old) \in Nat
    BY <2>1, <2>3, ConcatProperties, LenProperties DEF NodeList
  <2>5. pushed = old \o add
    BY <1>1 DEF old, add, e
  <2> QED
    BY <1>3, <2>3, <2>4, <2>5
<1>8. Extends(ns, p.nodes) /\ Len(ns) = Len(p.nodes) + e.pushes
  BY <1>1, <1>3, <1>4, <1>5, <1>7, PairedProperties
<1>9. Nodes(ns) /\ pushed \in NodeList(ns) /\ Len(ns) \in Nat
  BY <1>6, <1>7, <1>8, LenProperties DEF Extends, Nodes, NodeList
<1>10. DOMAIN pushed = 1 .. m /\ \A i \in 1 .. m : pushed[i] \in 1 .. Len(ns)
  BY <1>9, ElementOfSeq, LenProperties DEF NodeList
<1>11. \A T \in SUBSET (1 .. m) : Cardinality(T) \in Nat
  <2>1. IsFiniteSet(1 .. m)
    BY <1>7, FS_Interval
  <2> QED
    BY <2>1, FS_Subset, FS_CardinalityType
<1>12. Cardinality(new) \in Nat
  BY <1>10, <1>11
<1>13. \A i \in 1 .. m : regs[i] \in Registers
  <2> SUFFICES ASSUME NEW i \in 1 .. m PROVE regs[i] \in Registers
    OBVIOUS
  <2>1. CASE i \notin new
    <3>1. ns[pushed[i]] \in Node
      BY <1>9, <1>10, ElementOfSeq DEF Nodes
    <3>2. regs[i] = ns[pushed[i]].back
      BY <1>10, <2>1
    <3> QED
      BY <3>1, <3>2 DEF Node
  <2>2. CASE i \in new
    <3> DEFINE k == Cardinality({j \in new : j <= i})
    <3>1. {j \in new : j <= i} \in SUBSET (1 .. m)
      BY <1>10
    <3>2. k \in Nat
      BY <1>11, <3>1
    <3>3. regs[i] = Normal(B, generated[B] + k)
      BY <1>10, <2>2
    <3>4. B \in Nat /\ generated[B] \in Nat
      BY <1>3, BlockProperties DEF Types
    <3> HIDE DEF k, regs
    <3> QED
      BY <3>2, <3>3, <3>4 DEF Normal, Registers
  <2> QED
    BY <2>1, <2>2
<1>14. ms = LinkTops(ns, pushed, regs)
  BY <1>1
<1> HIDE DEF e, New, Reg, Regs, ms, m, regs, new, ws
<1>15. /\ Extends(ms, ns) /\ IsStack(NewTops(ns, m), ms)
  <2>1. /\ Extends(LinkTops(ns, pushed, regs), ns)
        /\ IsStack(NewTops(ns, Len(pushed)), LinkTops(ns, pushed, regs))
    BY <1>9, <1>13, TopsLinked DEF m
  <2> QED
    BY <2>1, <1>14 DEF m
<1>16. Extends(ns, nodes)
  BY <1>3, <1>4, <1>8, ExtendsMore
<1>17. Extends(ms, nodes)
  BY <1>3, <1>15, <1>16, ExtendsMore
<1>18. IsStack(p.stack, nodes)
  <2>1. Len(p.stack) \in Nat /\ Len(Stack) \in Nat
    BY <1>3, <1>4, LenProperties DEF NodeList
  <2>2. \A i \in 1 .. Len(p.stack) : i \in 1 .. Len(Stack)
    BY <1>4, <2>1
  <2> QED
    BY <1>3, <1>4, <2>2 DEF IsStack, Distinct
<1>19. IsStack(p.stack \o NewTops(ns, m), ms)
  BY <1>3, <1>7, <1>9, <1>15, <1>16, <1>18, Stacked
<1>20. Frame.taken + Len(p.params) \in Nat
  BY <1>3, <1>4, LenProperties DEF NodeList
<1>21. ActiveCalls(calls', blocks, ms, aligned.outputs)
  BY <1>1, <1>2, <1>17, <1>19, <1>20, Stepped DEF m
<1>22. /\ Nodes(ms) /\ NodesOfInstructions(pushes, blocks, ms)
       /\ inputs \in [Blocks -> NodeList(ms)] /\ outputs \in [Blocks -> NodeList(ms)]
  BY <1>3, <1>17, ListTypesGrow
<1>23. NodesOfInstructions(pops', blocks, ms) /\ params' \in [Blocks -> NodeList(ms)]
  <2>1. Extends(ms, p.nodes)
    BY <1>5, <1>8, <1>15, ExtendsMore
  <2>2. p.popped \in NodeList(ms) /\ p.params \in NodeList(ms)
    BY <1>4, <1>5, <2>1, ListsGrow
  <2> QED
    BY <1>1, <1>3, <1>17, <2>2, SetPopsType
<1>24. NodesOfInstructions(pushes', blocks, ms)
  <2> DEFINE i == Frame.at
             b == B
  <2>1. b \in DOMAIN blocks /\ i \in DOMAIN blocks[b]
    BY <1>3 DEF Blocks, Body
  <2>2. pushes' = [pushes EXCEPT ![b][i] = pushed]
    BY <1>1
  <2>3. pushed \in NodeList(ms)
    BY <1>9, <1>15, ListsGrow
  <2> HIDE DEF b, i
  <2> QED
    BY <1>22, <2>1, <2>2, <2>3, InstructionNodes
<1>25. /\ generated \in [Blocks -> Nat] /\ generated' \in [Blocks -> Nat]
       /\ \A b \in Blocks : generated[b] <= generated'[b]
  <2>1. generated \in [Blocks -> Nat] /\ B \in Blocks
    BY <1>3 DEF Types
  <2>2. generated' = [generated EXCEPT ![B] = @ + Cardinality(new)]
    BY <1>1, Zenon DEF new
  <2> DEFINE c == Cardinality(new)
             b0 == B
  <2>3. c \in Nat /\ b0 \in Blocks /\ generated' = [generated EXCEPT ![b0] = @ + c]
    BY <1>12, <2>1, <2>2
  <2> HIDE DEF c, b0
  <2>4. \A n \in Nat : n + c \in Nat /\ n <= n + c
    BY <2>3
  <2> QED
    BY <2>1, <2>3, <2>4
<1>26. Allocated(initial, generated', aligned.inputs, locals)
  <2>1. Allocated(initial, generated, aligned.inputs, locals)
    BY DEF IInv
  <2>2. DOMAIN generated' = DOMAIN generated
    BY <1>25
  <2>3. \A b \in DOMAIN generated :
          generated[b] \in Nat /\ generated'[b] \in Nat /\ generated[b] <= generated'[b]
    BY <1>25
  <2> HIDE DEF new
  <2> QED
    BY <2>1, <2>2, <2>3, AllocatedStays
<1> QED
  BY <1>2, <1>3, <1>21, <1>22, <1>23, <1>24, <1>25, <1>26
     DEF IInv, Types, ms, Blocks

\* A local that is new has a register of its own.
LEMMA LocalAdded ==
  ASSUME NEW S, NEW ini \in [S -> Seq(Registers)], NEW gen \in [S -> Nat], S \subseteq Nat,
         NEW ins, NEW locs, Allocated(ini, gen, ins, locs), NEW b \in S, NEW key,
         NEW new, new = [x \in DOMAIN locs \cup {key} |->
                          IF x \in DOMAIN locs THEN locs[x] ELSE Normal(b, gen[b] + 1)]
  PROVE  Allocated(ini, HandOut(gen, b, 1), ins, new)
<1> DEFINE hand == HandOut(gen, b, 1)
           r    == Normal(b, gen[b] + 1)
<1>1. gen[b] \in Nat /\ b \in Nat
  OBVIOUS
<1>2. hand \in [S -> Nat] /\ hand[b] = gen[b] + 1 /\ \A c \in S : gen[c] <= hand[c]
  BY <1>1 DEF HandOut
<1> HIDE DEF hand
<1>3. Allocated(ini, hand, ins, locs)
  BY <1>2, AllocatedStays
<1>4. r \in Registers /\ r.type = "normal" /\ r.block = b /\ r.index = gen[b] + 1
  BY <1>1 DEF Normal, Registers
<1> HIDE DEF r
<1>5. IsUsed(r, hand)
  <2>1. gen[b] + 1 \in 1 .. hand[b]
    BY <1>1, <1>2
  <2> QED
    BY <1>2, <1>4, <2>1 DEF IsUsed
<1>6. \A y : IsUsed(y, gen) => y # r
  <2> SUFFICES ASSUME IsUsed(r, gen) PROVE FALSE
    OBVIOUS
  <2>1. gen[b] + 1 \in 1 .. gen[b]
    BY <1>4 DEF IsUsed
  <2> QED
    BY <1>1, <2>1
<1>7. /\ DOMAIN new = DOMAIN locs \cup {key}
      /\ \A x \in DOMAIN new : new[x] = r \/ (x \in DOMAIN locs /\ new[x] = locs[x])
  BY DEF r
<1>8. \A x \in DOMAIN new : IsUsed(new[x], hand)
  BY <1>3, <1>5, <1>7 DEF Allocated
<1>9. ASSUME NEW c \in S, NEW i \in 1 .. Len(ini[c])
      PROVE  IsUsed(ini[c][i], hand) /\ \A x \in DOMAIN new : ini[c][i] # new[x]
  <2>1. IsUsed(ini[c][i], gen) /\ \A x \in DOMAIN locs : ini[c][i] # locs[x]
    BY DEF Allocated
  <2>2. IsUsed(ini[c][i], hand)
    BY <1>3 DEF Allocated
  <2> QED
    BY <1>6, <1>7, <2>1, <2>2
<1>10. ASSUME NEW c \in S
       PROVE  /\ \A i, j \in 1 .. Len(ini[c]) : ini[c][i] = ini[c][j] => i = j
              /\ c \notin ins => ini[c] = <<>>
  BY DEF Allocated
<1>11. DOMAIN ini = S
  OBVIOUS
<1>12. Allocated(ini, hand, ins, new)
  BY <1>8, <1>9, <1>10, <1>11 DEF Allocated
<1> QED
  BY <1>12 DEF hand

LEMMA StoreLocalStep ==
  ASSUME IInv, StoreLocal
  PROVE  IInv'
<1> DEFINE p    == Popping(1)
           ms   == nodes'
           inn  == Key(Cell0) \notin DOMAIN locals
<1>1. /\ Graphing /\ ms = p.nodes /\ SetPops(p)
      /\ locals' = [x \in DOMAIN locals \cup {Key(Cell0)} |->
                      IF x \in DOMAIN locals THEN locals[x] ELSE Normal(B, generated[B] + 1)]
      /\ generated' = [generated EXCEPT ![B] = IF inn THEN @ + 1 ELSE @]
      /\ Step(p.stack, Frame.taken + Len(p.params))
  BY DEF StoreLocal, Stored
<1>2. /\ blocks' = blocks /\ pushes' = pushes /\ inputs' = inputs /\ outputs' = outputs
      /\ initial' = initial /\ aligned' = aligned /\ accumulated' = accumulated
      /\ reported' = reported /\ effects' = effects /\ outcome' = outcome
  BY DEF StoreLocal
<1>3. /\ Types /\ Running /\ B \in Blocks /\ Frame.taken \in Nat
      /\ IsStack(Stack, nodes) /\ Nodes(nodes) /\ Stack \in NodeList(nodes)
      /\ Frame.at \in DOMAIN Body
      /\ Allocated(initial, generated, aligned.inputs, locals)
  BY <1>1, FrameProperties, CellProperties DEF IInv, Types, Graphing, IsStack
<1>4. /\ Extends(p.nodes, nodes)
      /\ p.popped \in NodeList(p.nodes) /\ p.params \in NodeList(p.nodes)
      /\ p.stack \in NodeList(nodes) /\ Len(p.stack) <= Len(Stack)
      /\ \A i \in 1 .. Len(p.stack) : p.stack[i] = Stack[i]
  <2>1. Popped(p, nodes, Stack, 1)
    BY <1>3, PoppingProperties
  <2> QED
    BY <2>1 DEF Popped
<1> HIDE DEF p
<1>5. IsStack(p.stack, nodes)
  <2>1. Len(p.stack) \in Nat /\ Len(Stack) \in Nat
    BY <1>3, <1>4, LenProperties DEF NodeList
  <2>2. \A i \in 1 .. Len(p.stack) : i \in 1 .. Len(Stack)
    BY <1>4, <2>1
  <2> QED
    BY <1>3, <1>4, <2>2 DEF IsStack, Distinct
<1>6. Extends(ms, nodes) /\ IsStack(p.stack, ms)
  BY <1>1, <1>3, <1>4, <1>5, StackGrows
<1>7. Frame.taken + Len(p.params) \in Nat
  BY <1>3, <1>4, LenProperties DEF NodeList
<1> HIDE DEF ms
<1>8. ActiveCalls(calls', blocks, ms, aligned.outputs)
  BY <1>1, <1>6, <1>7, Stepped
<1>9. /\ Nodes(ms) /\ NodesOfInstructions(pushes, blocks, ms)
      /\ inputs \in [Blocks -> NodeList(ms)] /\ outputs \in [Blocks -> NodeList(ms)]
  BY <1>3, <1>6, ListTypesGrow
<1>10. NodesOfInstructions(pops', blocks, ms) /\ params' \in [Blocks -> NodeList(ms)]
  BY <1>1, <1>3, <1>4, <1>6, SetPopsType
<1>11. initial \in [Blocks -> Seq(Registers)] /\ generated \in [Blocks -> Nat]
       /\ Blocks \subseteq Nat
  BY <1>3, BlockProperties DEF Types
<1>12. generated' \in [Blocks -> Nat]
       /\ Allocated(initial, generated', aligned.inputs, locals')
  <2>1. CASE inn
    <3> DEFINE gen == HandOut(generated, B, 1)
               b == B
               key == Key(Cell0)
               new == locals'
               ins == aligned.inputs
    <3>1. generated' = gen
      BY <1>1, <2>1 DEF HandOut
    <3>2. gen \in [Blocks -> Nat]
      <4>1. B \in Blocks /\ generated[B] + 1 \in Nat
        BY <1>3, <1>11
      <4> QED
        BY <1>11, <4>1 DEF HandOut
    <3>3. /\ new = [x \in DOMAIN locals \cup {key} |->
                     IF x \in DOMAIN locals THEN locals[x] ELSE Normal(b, generated[b] + 1)]
          /\ b \in Blocks /\ Allocated(initial, generated, ins, locals)
      BY <1>1, <1>3
    <3> HIDE DEF b, key, new, ins, inn
    <3>4. Allocated(initial, HandOut(generated, b, 1), ins, new)
      BY <1>11, <3>3, LocalAdded
    <3> QED
      BY <3>1, <3>2, <3>4 DEF b, new, ins
  <2>2. CASE ~inn
    <3>1. generated' = generated
      BY <1>1, <1>11, <2>2
    <3>2. DOMAIN locals' = DOMAIN locals /\ \A x \in DOMAIN locals : locals'[x] = locals[x]
      BY <1>1, <2>2
    <3> HIDE DEF inn
    <3>3. Allocated(initial, generated, aligned.inputs, locals')
      BY <1>3, <3>2 DEF Allocated
    <3> QED
      BY <1>11, <3>1, <3>3
  <2> QED
    BY <2>1, <2>2
<1> HIDE DEF inn
<1> QED
  BY <1>2, <1>3, <1>8, <1>9, <1>10, <1>12 DEF IInv, Types, ms, Blocks

LEMMA LoadLocalStep ==
  ASSUME IInv, LoadLocal
  PROVE  IInv'
<1>1. CASE Key(Cell0) \notin DOMAIN locals
  <2>1. Stop("aborted")
    BY <1>1 DEF LoadLocal
  <2> QED
    BY <2>1 DEF Stop, IInv, Types, Blocks, perBlock, links
<1>2. CASE Key(Cell0) \in DOMAIN locals
  <2> DEFINE new == NewTops(nodes, 2)
             ws  == WithNew(nodes, 2)
             one == <<new[1]>>
             two == <<new[2]>>
             reg == <<locals[Key(Cell0)]>>
             ms  == nodes'
  <2>1. /\ Graphing
        /\ ms = LinkBoth(ws, one, two, reg)
        /\ pushes' = [pushes EXCEPT ![B][Frame.at] = Append(@, new[1])]
        /\ Step(Append(Stack, new[2]), Frame.taken)
        /\ pops' = [pops EXCEPT ![B][Frame.at] = <<>>]
    BY <1>2 DEF LoadLocal, Loaded
  <2>2. /\ blocks' = blocks /\ params' = params /\ inputs' = inputs /\ outputs' = outputs
        /\ initial' = initial /\ aligned' = aligned /\ generated' = generated
        /\ accumulated' = accumulated /\ locals' = locals
        /\ reported' = reported /\ effects' = effects /\ outcome' = outcome
    BY <1>2 DEF LoadLocal, perBlock, links
  <2>3. /\ Types /\ Running /\ B \in Blocks /\ Frame.taken \in Nat
        /\ IsStack(Stack, nodes) /\ Nodes(nodes) /\ Stack \in NodeList(nodes)
        /\ Frame.at \in DOMAIN Body
        /\ Allocated(initial, generated, aligned.inputs, locals)
    BY <2>1, FrameProperties, CellProperties DEF IInv, Types, Graphing, IsStack
  <2>4. /\ Nodes(ws) /\ Extends(ws, nodes) /\ Len(ws) = Len(nodes) + 2
        /\ \A n \in 1 .. 2 : ws[Len(nodes) + n] = NewNode
        /\ Len(nodes) \in Nat
    BY <2>3, NewNodes, LenProperties DEF Nodes
  <2>5. new[1] = Len(nodes) + 1 /\ new[2] = Len(nodes) + 2
    BY DEF NewTops
  <2>6. new[1] \in 1 .. Len(ws) /\ new[2] \in 1 .. Len(ws)
    BY <2>4, <2>5
  <2> HIDE DEF new
  <2>7. /\ one \in NodeList(ws) /\ two \in NodeList(ws) /\ one \in Seq(0 .. Len(ws))
        /\ Len(one) = 1 /\ Len(two) = 1 /\ one[1] = new[1] /\ two[1] = new[2]
    <3>1. new[1] \in 0 .. Len(ws)
      BY <2>4, <2>6
    <3> HIDE DEF ws
    <3> QED
      BY <2>6, <3>1 DEF NodeList
  <2>8. \A i \in 1 .. Len(two) : reg[i] \in Registers
    <3>1. locals[Key(Cell0)] \in Registers
      BY <1>2, <2>3 DEF Allocated, IsUsed
    <3> QED
      BY <2>7, <3>1
  <2> HIDE DEF ws, one, two, reg, ms
  <2>9. IsLink(ms, ws, one, two, reg)
    BY <2>1, <2>4, <2>7, <2>8, LinkedBoth
  <2>10. Extends(ms, ws) /\ Len(ms) = Len(ws)
    <3>1. \A i \in 1 .. Len(two) : one[i] # 0 \/ ws[two[i]].prev = 0
      BY <2>4, <2>5, <2>7
    <3>2. Extends(ms, ws)
      BY <3>1, <2>4, <2>9, LinkExtends
    <3> QED
      BY <3>2, <2>9 DEF IsLink
  <2>11. Extends(ms, nodes)
    BY <2>3, <2>4, <2>10, ExtendsMore
  <2> DEFINE stack == Append(Stack, new[2])
             k == Len(Stack)
  <2>12. IsStack(stack, ms)
    <3>1. IsStack(Stack, ms)
      BY <2>3, <2>11, StackGrows
    <3>2. /\ stack \in Seq(1 .. Len(ms)) /\ Len(stack) = k + 1 /\ k \in Nat
          /\ \A i \in 1 .. k : stack[i] = Stack[i]
          /\ stack[k + 1] = new[2]
      BY <2>6, <2>10, <3>1, AppendProperties, LenProperties DEF IsStack, NodeList
    <3>3. \A i \in 1 .. k : Stack[i] \in 1 .. Len(nodes)
      BY <2>3, ElementOfSeq DEF NodeList
    <3>4. ms[new[2]].prev # 0
      <4>1. new[2] \in Range(two)
        <5>1. 1 \in DOMAIN two
          BY <2>7, LenProperties DEF NodeList
        <5> QED
          BY <5>1, <2>7 DEF Range
      <4>2. PICK i \in 1 .. Len(two) : ms[new[2]].prev = one[i]
        BY <2>6, <2>9, <4>1 DEF IsLink
      <4> QED
        BY <2>4, <2>5, <2>7, <4>2
    <3> HIDE DEF stack, k
    <3>5. \A i \in 1 .. k + 1 : i \in 1 .. k \/ i = k + 1
      BY <3>2
    <3>6. \A i \in 1 .. k + 1 : ms[stack[i]].prev # 0
      BY <3>1, <3>2, <3>4, <3>5 DEF IsStack, k
    <3>7. \A i \in 1 .. k : stack[i] # stack[k + 1]
      BY <2>4, <2>5, <3>2, <3>3
    <3>8. \A i, j \in 1 .. k + 1 : stack[i] = stack[j] => i = j
      BY <2>3, <3>2, <3>5, <3>7 DEF IsStack, Distinct, k
    <3> QED
      BY <3>2, <3>6, <3>8 DEF IsStack, NodeList, Distinct
  <2>13. ActiveCalls(calls', blocks, ms, aligned.outputs)
    BY <2>1, <2>3, <2>11, <2>12, Stepped
  <2>14. /\ Nodes(ms)
         /\ NodesOfInstructions(pops, blocks, ms) /\ NodesOfInstructions(pushes, blocks, ms)
         /\ params \in [Blocks -> NodeList(ms)]
         /\ inputs \in [Blocks -> NodeList(ms)] /\ outputs \in [Blocks -> NodeList(ms)]
    BY <2>3, <2>11, ListTypesGrow
  <2>15. NodesOfInstructions(pops', blocks, ms) /\ NodesOfInstructions(pushes', blocks, ms)
    <3> DEFINE i == Frame.at
               b == B
               old == pushes[b][i]
               add == Append(old, new[1])
    <3>1. b \in DOMAIN blocks /\ i \in DOMAIN blocks[b]
      BY <2>3 DEF Blocks, Body
    <3>2. pushes' = [pushes EXCEPT ![b][i] = add] /\ pops' = [pops EXCEPT ![b][i] = <<>>]
      BY <2>1
    <3>3. old \in NodeList(ms)
      BY <2>14, <3>1 DEF NodesOfInstructions
    <3> HIDE DEF old
    <3>4. add \in NodeList(ms) /\ <<>> \in NodeList(ms)
      BY <2>6, <2>10, <3>3, AppendProperties DEF NodeList
    <3> HIDE DEF b, i, add
    <3> QED
      BY <2>14, <3>1, <3>2, <3>4, InstructionNodes
  <2> QED
    BY <2>2, <2>3, <2>13, <2>14, <2>15 DEF IInv, Types, ms, Blocks
<1> QED
  BY <1>1, <1>2

LEMMA CloseBlockStep ==
  ASSUME IInv, CloseBlock
  PROVE  IInv'
<1> DEFINE order == AlignOrder(NextBBs(B))
           nexts == Range(NextBBs(B))
           final == [params |-> accumulated[B].params + Len(params[B]),
                     size   |-> Len(Stack)]
<1>1. CASE Overrun(order)
  <2>1. Stop("undefined")
    BY <1>1 DEF CloseBlock
  <2> QED
    BY <2>1 DEF Stop, IInv, Types, Blocks, perBlock, links
<1>2. CASE ~Overrun(order)
  <2> DEFINE a    == Alignment(order)
             outs == a.outputs
  <2>1. /\ Running /\ Frame.at = Len(Body) + 1
        /\ outputs' = [outputs EXCEPT ![B] = Stack]
        /\ accumulated' = [t \in Blocks |->
                             IF t \in nexts \ aligned.outputs THEN final ELSE accumulated[t]]
        /\ reported' = reported \cup
             {<<B, t>> : t \in {t \in nexts \cap aligned.outputs : accumulated[t] # final}}
        /\ nodes' = a.nodes /\ initial' = a.initial /\ generated' = a.generated
        /\ aligned' = [inputs |-> a.inputs, outputs |-> outs]
        /\ calls' = ReplaceTop(calls, Moved(Stack, Frame.taken, NextBBs(B)))
    BY <1>2 DEF CloseBlock, ReplaceTop
  <2>2. /\ blocks' = blocks /\ pops' = pops /\ pushes' = pushes /\ params' = params
        /\ inputs' = inputs /\ locals' = locals /\ effects' = effects /\ outcome' = outcome
    BY <1>2 DEF CloseBlock
  <2>3. /\ Types /\ B \in Blocks /\ Frame.taken \in Nat
        /\ IsStack(Stack, nodes) /\ Nodes(nodes) /\ Stack \in NodeList(nodes) /\ Distinct(Stack)
        /\ Allocated(initial, generated, aligned.inputs, locals)
    BY <2>1, FrameProperties DEF IInv, Types, IsStack
  <2>4. /\ initial \in [Blocks -> Seq(Registers)] /\ generated \in [Blocks -> Nat]
        /\ aligned \in [inputs : SUBSET Blocks, outputs : SUBSET Blocks]
        /\ accumulated \in [Blocks -> [params : Nat, size : Nat]]
        /\ outputs \in [Blocks -> NodeList(nodes)] /\ params \in [Blocks -> NodeList(nodes)]
        /\ reported \subseteq Blocks \X Blocks
    BY <2>3 DEF Types
  <2>5. /\ Blocks \subseteq Nat /\ Len(Body) \in Nat
        /\ NextBBs(B) \in Seq(Blocks) /\ Len(NextBBs(B)) <= 2
    BY <2>3, BlockProperties DEF Types, Body
  <2>6. B \notin aligned.outputs
    <3>1. Frame.at <= Len(blocks[Frame.block]) + 1 /\ Open(Frame, blocks, aligned.outputs)
      BY <2>1, <2>5, FrameProperties DEF Body, B
    <3> QED
      BY <3>1 DEF Open, B
  <2>7. order \in Seq(Blocks) /\ Len(order) <= 2
    <3> DEFINE nx == NextBBs(B)
    <3>1. nx \in Seq(Blocks) /\ Reverse(nx) \in Seq(Blocks) /\ Len(Reverse(nx)) = Len(nx)
          /\ Len(nx) <= 2
      BY <2>5, Reversed
    <3> HIDE DEF nx
    <3>2. AlignOrder(nx) \in Seq(Blocks) /\ Len(AlignOrder(nx)) <= 2
      BY <3>1 DEF AlignOrder
    <3> QED
      BY <3>2 DEF nx
  <2>8. nexts \subseteq Blocks
    <3> DEFINE nx == NextBBs(B)
    <3>1. nx \in Seq(Blocks)
      BY <2>5
    <3> HIDE DEF nx
    <3>2. Range(nx) \subseteq Blocks
      BY <3>1, ElementOfSeq, LenProperties DEF Range
    <3> QED
      BY <3>2 DEF nx
  <2> HIDE DEF order, nexts
  <2>9. Aligns(a, nodes, Stack, B, locals)
    BY <1>2, <2>3, <2>4, <2>5, <2>6, <2>7, AlignedEdges
  <2>10. /\ a.initial \in [Blocks -> Seq(Registers)] /\ a.generated \in [Blocks -> Nat]
         /\ a.inputs \subseteq Blocks /\ outs \subseteq Blocks
         /\ Extends(a.nodes, nodes)
         /\ Allocated(a.initial, a.generated, a.inputs, locals)
    BY <2>9 DEF Aligns
  <2> DEFINE ms == nodes'
  <2>11. Extends(ms, nodes) /\ IsStack(Stack, ms)
    BY <2>1, <2>3, <2>10, StackGrows
  <2> HIDE DEF a, ms
  <2>12. ActiveCalls(calls', blocks, ms, outs)
    <3>1. Frame.at <= Len(Body) + 1
      BY <2>1, <2>5
    <3> QED
      BY <2>1, <2>3, <2>5, <2>11, <3>1, MovedProperties
  <2>13. /\ Nodes(ms)
         /\ NodesOfInstructions(pops, blocks, ms) /\ NodesOfInstructions(pushes, blocks, ms)
         /\ params \in [Blocks -> NodeList(ms)]
         /\ inputs \in [Blocks -> NodeList(ms)] /\ outputs \in [Blocks -> NodeList(ms)]
    BY <2>3, <2>11, ListTypesGrow
  <2>14. outputs' \in [Blocks -> NodeList(ms)]
    BY <2>1, <2>11, <2>13 DEF IsStack
  <2>15. accumulated' \in [Blocks -> [params : Nat, size : Nat]]
    <3>1. accumulated[B].params \in Nat /\ Len(params[B]) \in Nat /\ Len(Stack) \in Nat
      BY <2>3, <2>4, LenProperties DEF NodeList
    <3>2. final \in [params : Nat, size : Nat]
      BY <3>1
    <3> HIDE DEF final
    <3> QED
      BY <2>1, <2>4, <3>2
  <2>16. reported' \subseteq Blocks \X Blocks
    <3> HIDE DEF final
    <3> QED
      BY <2>1, <2>3, <2>4, <2>8
  <2> HIDE DEF outs
  <2>17. /\ aligned' \in [inputs : SUBSET Blocks, outputs : SUBSET Blocks]
         /\ aligned'.inputs = a.inputs /\ aligned'.outputs = outs
    BY <2>1, <2>10
  <2> QED
    BY <2>1, <2>2, <2>3, <2>10, <2>12, <2>13, <2>14, <2>15, <2>16, <2>17
       DEF IInv, Types, ms, Blocks
<1> QED
  BY <1>1, <1>2

\* The inner call is given the registers of its block.
LEMMA EnteredExtends ==
  ASSUME Nodes(nodes), NEW list \in NodeList(nodes), NEW regs \in Seq(Registers),
         Len(list) <= Len(regs)
  PROVE  Extends(Entered(list, regs), nodes)
<1> DEFINE ms == Entered(list, regs)
           l  == Len(nodes)
<1>1. l \in Nat /\ DOMAIN nodes = 1 .. l /\ \A n \in 1 .. l : nodes[n] \in Node
  BY LenProperties, ElementOfSeq DEF Nodes
<1>2. Len(list) \in Nat /\ Len(regs) \in Nat
  BY LenProperties DEF NodeList
<1>3. ms = [n \in 1 .. l |-> ms[n]]
  BY <1>1 DEF Entered
<1>4. \A n \in 1 .. l :
        ms[n] = IF n \notin Range(list) THEN nodes[n]
                ELSE [nodes[n] EXCEPT !.back = regs[LastAt(list, n)]]
  BY <1>1 DEF Entered
<1> HIDE DEF ms, l
<1>5. ASSUME NEW n \in 1 .. l PROVE ms[n] \in Node /\ ms[n].prev = nodes[n].prev
  <2>1. CASE n \notin Range(list)
    BY <1>1, <1>4, <2>1
  <2>2. CASE n \in Range(list)
    <3>1. LastAt(list, n) \in 1 .. Len(list)
      BY <2>2, LastAtProperties DEF NodeList
    <3>2. LastAt(list, n) \in 1 .. Len(regs)
      BY <1>2, <3>1
    <3> DEFINE x == regs[LastAt(list, n)]
               r == nodes[n]
    <3>3. x \in Registers /\ r \in Node
      BY <1>1, <3>2, ElementOfSeq
    <3>4. ms[n] = [r EXCEPT !.back = x]
      BY <1>4, <2>2
    <3> HIDE DEF x, r
    <3>5. [r EXCEPT !.back = x] \in Node /\ [r EXCEPT !.back = x].prev = r.prev
      BY <3>3 DEF Node
    <3> QED
      BY <3>4, <3>5 DEF r
  <2> QED
    BY <2>1, <2>2
<1>6. ms \in Seq(Node) /\ Len(ms) = l
  <2>1. ms \in [1 .. l -> Node]
    BY <1>3, <1>5
  <2> QED
    BY <1>1, <2>1, Listed
<1>7. \A n \in 1 .. l : ms[n].prev \in 0 .. l
  BY <1>5 DEF Nodes, l
<1>8. Nodes(ms)
  BY <1>6, <1>7 DEF Nodes
<1>9. Extends(ms, nodes)
  BY <1>1, <1>5, <1>6, <1>8 DEF Extends, l
<1> QED
  BY <1>9 DEF ms

\* The call drops the first of its successors.
LEMMA WaitingProperties ==
  ASSUME IInv, Running, Frame.left # <<>>, ~(Frame.at <= Len(Body) + 1)
  PROVE  /\ ActiveCalls(Waiting, blocks, nodes, aligned.outputs)
         /\ ~(Last(Waiting).at <= Len(blocks[Last(Waiting).block]) + 1)
<1> DEFINE c == [block |-> B, at |-> Frame.at, stack |-> Stack, taken |-> Frame.taken,
                 left |-> Tail(Frame.left)]
           outs == aligned.outputs
           n == Len(calls)
<1>1. /\ calls # <<>> /\ ActiveCalls(calls, blocks, nodes, outs)
      /\ B \in Blocks /\ Frame.at \in 1 .. Len(Body) + 2
      /\ IsStack(Stack, nodes) /\ Frame.taken \in Nat /\ Frame.left \in Seq(Blocks)
      /\ IsCall(Frame, blocks, nodes)
  BY FrameProperties DEF IInv
<1>2. Len(Body) \in Nat
  BY <1>1, BlockProperties DEF IInv, Types, Body
<1>3. Tail(Frame.left) \in Seq(Blocks)
  BY <1>1, HeadTailProperties
<1>4. /\ n \in Nat /\ 1 <= n /\ Frame = calls[n]
  BY <1>1, TopProperties DEF Frame
<1>5. Waiting = ReplaceTop(calls, c)
  <2>1. Frame \in [block : Blocks, at : Nat, stack : NodeList(nodes), taken : Nat,
                   left : Seq(Blocks)]
    BY <1>1 DEF IsCall, Call, Blocks
  <2> DEFINE r == Frame
             l == Tail(Frame.left)
             N == NodeList(nodes)
             S == Blocks
             T == Seq(Blocks)
  <2>2. r \in [block : S, at : Nat, stack : N, taken : Nat, left : T]
    BY <2>1
  <2>3. c = [block |-> r.block, at |-> r.at, stack |-> r.stack, taken |-> r.taken, left |-> l]
    BY DEF B, Stack
  <2>4. Waiting = [calls EXCEPT ![n] = [r EXCEPT !.left = l]]
    BY <1>4 DEF Waiting
  <2> HIDE DEF r, l, N, S, T, c, n
  <2>5. c = [r EXCEPT !.left = l]
    BY <2>2, <2>3
  <2> QED
    BY <2>4, <2>5 DEF ReplaceTop, n
<1>6. /\ c.block = B /\ c.at = Frame.at /\ c.stack = Stack /\ c \in Call(blocks, nodes)
  BY <1>1, <1>3 DEF Call, IsStack, Blocks
<1> HIDE DEF c, outs, n
<1>7. IsCall(c, blocks, nodes)
  BY <1>1, <1>6 DEF IsCall, Body
<1>8. Open(c, blocks, outs) /\ ~(c.at <= Len(blocks[c.block]) + 1)
  BY <1>6 DEF Open, Body
<1>9. ActiveCalls(ReplaceTop(calls, c), blocks, nodes, outs)
  BY <1>1, <1>7, <1>8, TopReplaced
<1>10. Last(ReplaceTop(calls, c)) = c
  <2> DEFINE S == Call(blocks, nodes)
  <2>1. calls \in Seq(S) /\ c \in S /\ n \in 1 .. n
    BY <1>1, <1>4, <1>6 DEF ActiveCalls
  <2> HIDE DEF S
  <2>2. Len(ReplaceTop(calls, c)) = n /\ ReplaceTop(calls, c)[n] = c
    BY <2>1, ExceptSeq DEF ReplaceTop, n
  <2> QED
    BY <2>2 DEF Last
<1> QED
  BY <1>5, <1>8, <1>9, <1>10 DEF outs

LEMMA DescendStep ==
  ASSUME IInv, Descend
  PROVE  IInv'
<1> DEFINE t == Head(Frame.left)
<1>1. Running /\ Frame.at > Len(Body) + 1 /\ Frame.left # <<>>
  BY DEF Descend
<1>2. /\ Types /\ B \in Blocks /\ Frame.at \in 1 .. Len(Body) + 2 /\ Frame.taken \in Nat
      /\ IsStack(Stack, nodes) /\ Nodes(nodes) /\ Stack \in NodeList(nodes)
      /\ Frame.left \in Seq(Blocks)
      /\ Allocated(initial, generated, aligned.inputs, locals)
  BY <1>1, FrameProperties DEF IInv, Types, IsStack
<1>3. Len(Body) \in Nat
  BY <1>2, BlockProperties DEF Types, Body
<1>4. /\ ActiveCalls(Waiting, blocks, nodes, aligned.outputs)
      /\ ~(Last(Waiting).at <= Len(blocks[Last(Waiting).block]) + 1)
  BY <1>1, <1>2, <1>3, WaitingProperties
<1>5. t \in Blocks
  BY <1>1, <1>2, HeadTailProperties
<1> HIDE DEF t
<1>6. CASE t \in aligned.outputs
  <2>1. /\ calls' = Waiting
        /\ UNCHANGED <<blocks, nodes, pops, pushes, perBlock, links, accumulated, locals,
                       reported, effects, outcome>>
    BY <1>6 DEF Descend, t
  <2> QED
    BY <1>2, <1>4, <2>1 DEF IInv, Types, Blocks, perBlock, links
<1>7. CASE t \notin aligned.outputs /\ Len(Stack) > Len(initial[t])
  <2>1. Stop("undefined")
    BY <1>7 DEF Descend, t
  <2> QED
    BY <2>1 DEF Stop, IInv, Types, Blocks, perBlock, links
<1>8. CASE t \notin aligned.outputs /\ ~(Len(Stack) > Len(initial[t]))
  <2> DEFINE c  == Enter(t, Stack, Frame.taken)
             ms == nodes'
  <2>1. /\ calls' = Append(Waiting, c)
        /\ accumulated' = [accumulated EXCEPT ![t].size = Len(Stack)]
        /\ inputs' = [inputs EXCEPT ![t] = Stack]
        /\ ms = Entered(Stack, initial[t])
        /\ UNCHANGED <<blocks, pops, pushes, params, outputs, links, locals,
                       reported, effects, outcome>>
    BY <1>8 DEF Descend, t
  <2>2. /\ Len(Stack) \in Nat /\ initial[t] \in Seq(Registers) /\ Len(initial[t]) \in Nat
        /\ Len(Stack) <= Len(initial[t])
    <3>1. Len(Stack) \in Nat /\ initial[t] \in Seq(Registers) /\ Len(initial[t]) \in Nat
      BY <1>2, <1>5, LenProperties DEF Types, NodeList
    <3> QED
      BY <1>8, <3>1
  <2>3. Extends(ms, nodes)
    BY <1>2, <2>1, <2>2, EnteredExtends
  <2> HIDE DEF ms
  <2>4. IsStack(Stack, ms)
    BY <1>2, <2>3, StackGrows
  <2>5. ActiveCalls(Waiting, blocks, ms, aligned.outputs)
    BY <1>2, <1>4, <2>3, CallsGrow
  <2>6. IsCall(c, blocks, ms) /\ Open(c, blocks, aligned.outputs)
    <3>1. /\ c.block = t /\ c.at = 1 /\ c.stack = Stack
          /\ c \in Call(blocks, ms)
      BY <1>2, <1>5, <2>4 DEF Enter, Call, IsStack, Blocks
    <3>2. Len(blocks[t]) \in Nat
      BY <1>2, <1>5, BlockProperties DEF Types
    <3>3. c.at \in 1 .. Len(blocks[t]) + 2
      BY <3>1, <3>2
    <3> HIDE DEF c
    <3> QED
      BY <1>8, <2>4, <3>1, <3>3 DEF IsCall, Open
  <2> HIDE DEF c
  <2>7. ActiveCalls(Append(Waiting, c), blocks, ms, aligned.outputs)
    BY <1>4, <2>5, <2>6, CallPushed
  <2>8. /\ Nodes(ms)
        /\ NodesOfInstructions(pops, blocks, ms) /\ NodesOfInstructions(pushes, blocks, ms)
        /\ params \in [Blocks -> NodeList(ms)]
        /\ inputs \in [Blocks -> NodeList(ms)] /\ outputs \in [Blocks -> NodeList(ms)]
    BY <1>2, <2>3, ListTypesGrow
  <2>9. inputs' \in [Blocks -> NodeList(ms)]
    BY <2>1, <2>4, <2>8 DEF IsStack
  <2>10. accumulated' \in [Blocks -> [params : Nat, size : Nat]]
    <3>1. accumulated \in [Blocks -> [params : Nat, size : Nat]]
      BY <1>2 DEF Types
    <3> QED
      BY <1>5, <2>1, <2>2, <3>1
  <2> QED
    BY <1>2, <2>1, <2>7, <2>8, <2>9, <2>10
       DEF IInv, Types, ms, Blocks, links
<1> QED
  BY <1>6, <1>7, <1>8

LEMMA ReturnStep ==
  ASSUME IInv, Return
  PROVE  IInv'
<1>1. /\ Running /\ calls' = Front(calls)
      /\ UNCHANGED <<blocks, nodes, pops, pushes, perBlock, links, accumulated, locals,
                     reported, effects, outcome>>
  BY DEF Return
<1>2. ActiveCalls(Front(calls), blocks, nodes, aligned.outputs)
  BY <1>1, CallPopped DEF IInv, Running
<1> QED
  BY <1>1, <1>2 DEF IInv, Types, Blocks, perBlock, links

LEMMA FinishStep ==
  ASSUME IInv, Finish
  PROVE  IInv'
<1> DEFINE list == outputs[ExitBlock]
           regs == [i \in DOMAIN list |-> Returned(nodes[list[i]].back)]
           ms   == nodes'
<1>1. /\ ms = Redefine(nodes, list, regs)
      /\ outcome' = "done"
      /\ UNCHANGED <<blocks, pops, pushes, perBlock, links, accumulated, locals, calls, reported>>
  BY DEF Finish
<1>2. Types /\ Nodes(nodes)
  BY DEF IInv, Types
<1>3. list \in NodeList(nodes)
  <2>1. ExitBlock \in Blocks
    BY <1>2, BlockProperties DEF Types, ExitBlock
  <2> QED
    BY <1>2, <2>1 DEF Types
<1> HIDE DEF list
<1>4. DOMAIN list = 1 .. Len(list) /\ \A i \in 1 .. Len(list) : list[i] \in 1 .. Len(nodes)
  BY <1>3, ElementOfSeq, LenProperties DEF NodeList
<1>5. \A i \in 1 .. Len(list) : regs[i] \in Registers
  <2> SUFFICES ASSUME NEW i \in 1 .. Len(list) PROVE regs[i] \in Registers
    OBVIOUS
  <2> DEFINE r == nodes[list[i]].back
  <2>1. nodes[list[i]] \in Node
    BY <1>2, <1>4, ElementOfSeq DEF Nodes
  <2>2. r \in Registers
    BY <2>1 DEF Node
  <2>3. regs[i] = Returned(r)
    BY <1>4
  <2> HIDE DEF r, regs
  <2>4. Returned(r) \in Registers
    BY <2>2 DEF Returned, Registers
  <2> QED
    BY <2>3, <2>4
<1> HIDE DEF regs, ms
<1>6. Extends(ms, nodes)
  BY <1>1, <1>2, <1>3, <1>5, Redefined
<1>7. /\ Nodes(ms)
      /\ NodesOfInstructions(pops, blocks, ms) /\ NodesOfInstructions(pushes, blocks, ms)
      /\ params \in [Blocks -> NodeList(ms)]
      /\ inputs \in [Blocks -> NodeList(ms)] /\ outputs \in [Blocks -> NodeList(ms)]
  BY <1>2, <1>6, ListTypesGrow
<1>8. ActiveCalls(calls, blocks, ms, aligned.outputs)
  BY <1>2, <1>6, CallsGrow DEF IInv
<1> QED
  BY <1>1, <1>2, <1>7, <1>8 DEF IInv, Types, ms, Blocks, perBlock, links

LEMMA InitialState ==
  ASSUME Init
  PROVE  IInv
<1>1. /\ blocks \in Graphs /\ nodes = <<>> /\ pops = PerInstruction /\ pushes = PerInstruction
      /\ params = [b \in Blocks |-> <<>>] /\ inputs = [b \in Blocks |-> <<>>]
      /\ outputs = [b \in Blocks |-> <<>>] /\ initial = [b \in Blocks |-> <<>>]
      /\ aligned = [inputs |-> {}, outputs |-> {}]
      /\ generated = [b \in Blocks |-> 0]
      /\ accumulated = [b \in Blocks |-> [params |-> 0, size |-> 0]]
      /\ locals = <<>> /\ calls = <<Enter(1, <<>>, 0)>> /\ reported = {} /\ outcome = "running"
  BY DEF Init, PerBlock
<1>2. /\ Blocks \subseteq Nat /\ 1 \in Blocks
      /\ \A b \in Blocks : Len(blocks[b]) \in Nat
  BY <1>1, BlockProperties
<1>3. Nodes(nodes) /\ Len(nodes) = 0
  BY <1>1 DEF Nodes
<1>4. <<>> \in NodeList(nodes) /\ <<>> \in Seq(Registers)
  BY DEF NodeList
<1>5. NodesOfInstructions(pops, blocks, nodes) /\ NodesOfInstructions(pushes, blocks, nodes)
  BY <1>1, <1>4 DEF NodesOfInstructions, PerInstruction, Blocks
<1>6. Types
  BY <1>1, <1>3, <1>4, <1>5 DEF Types
<1>7. Allocated(initial, generated, aligned.inputs, locals)
  <2>1. DOMAIN locals = {} /\ \A b \in Blocks : initial[b] = <<>>
    BY <1>1
  <2>2. Len(<<>>) = 0 /\ DOMAIN initial = Blocks
    BY <1>1
  <2> QED
    BY <2>1, <2>2 DEF Allocated
<1> DEFINE c == Enter(1, <<>>, 0)
           S == Call(blocks, nodes)
<1>8. /\ c.block = 1 /\ c.at = 1 /\ c.stack = <<>> /\ c \in S
  BY <1>2, <1>4 DEF Enter, Call, Blocks
<1> HIDE DEF c, S
<1>9. IsCall(c, blocks, nodes)
  <2>1. c.at \in 1 .. Len(blocks[1]) + 2
    BY <1>2, <1>8
  <2>2. IsStack(<<>>, nodes)
    BY <1>4 DEF IsStack, Distinct
  <2> QED
    BY <1>8, <2>1, <2>2 DEF IsCall, S
<1>10. calls = <<c>> /\ calls \in Seq(S) /\ Len(calls) = 1 /\ calls[1] = c
  BY <1>1, <1>8 DEF c
<1>11. ActiveCalls(calls, blocks, nodes, aligned.outputs)
  BY <1>1, <1>9, <1>10 DEF ActiveCalls, Open, S
<1> QED
  BY <1>6, <1>7, <1>11 DEF IInv

\* The invariant holds of every state.
THEOREM Invariant == Spec => []IInv
<1>1. Init => IInv
  BY InitialState
<1>2. IInv /\ [Next]_vars => IInv'
  <2> SUFFICES ASSUME IInv, [Next]_vars PROVE IInv'
    OBVIOUS
  <2>1. CASE Propagate
    BY <2>1, PropagateStep
  <2>2. CASE StoreLocal
    BY <2>2, StoreLocalStep
  <2>3. CASE LoadLocal
    BY <2>3, LoadLocalStep
  <2>4. CASE CloseBlock
    BY <2>4, CloseBlockStep
  <2>5. CASE Descend
    BY <2>5, DescendStep
  <2>6. CASE Return
    BY <2>6, ReturnStep
  <2>7. CASE Finish
    BY <2>7, FinishStep
  <2>8. CASE UNCHANGED vars
    BY <2>8 DEF vars, perBlock, links, IInv, Types, Blocks
  <2> QED
    BY <2>1, <2>2, <2>3, <2>4, <2>5, <2>6, <2>7, <2>8 DEF Next, Ended
<1> QED
  BY <1>1, <1>2, PTL DEF Spec

\* The types are those of the C++ variables; every element of the stack has a
\* node before it, which align_register_edge and the end of word_stack_graph
\* follow without a check (prev_edge_register of Structures.h).
THEOREM TypeCorrect == Spec => []TypeOK
<1>1. IInv => TypeOK
  <2> SUFFICES ASSUME IInv PROVE TypeOK
    OBVIOUS
  <2>1. Types
    BY DEF IInv
  <2>2. ASSUME NEW n \in DOMAIN nodes
        PROVE  /\ nodes[n].prev \in 0 .. Len(nodes)
               /\ nodes[n].back \in Registers /\ nodes[n].forth \in Registers
    <3>1. Nodes(nodes) /\ DOMAIN nodes = 1 .. Len(nodes)
      BY <2>1, LenProperties DEF Types, Nodes
    <3>2. nodes[n] \in Node
      BY <3>1, ElementOfSeq DEF Nodes
    <3> QED
      BY <3>1, <3>2 DEF Nodes, Node
  <2>3. NodeLists = NodeList(nodes)
    BY <2>1, LenProperties DEF Types, Nodes, NodeLists, NodeList
  <2>4. ASSUME NEW b \in Blocks
        PROVE  /\ \A i \in DOMAIN blocks[b] : {pops[b][i], pushes[b][i]} \subseteq NodeLists
               /\ {params[b], inputs[b], outputs[b]} \subseteq NodeLists
               /\ initial[b] \in Seq(Registers)
               /\ generated[b] \in Nat
               /\ accumulated[b] \in [params : Nat, size : Nat]
    BY <2>1, <2>3 DEF Types, NodesOfInstructions, Blocks
  <2>5. ASSUME NEW k \in DOMAIN calls
        PROVE  /\ calls[k].block \in Blocks
               /\ calls[k].at \in 1 .. Len(blocks[calls[k].block]) + 2
               /\ calls[k].stack \in NodeLists
               /\ \A i \in DOMAIN calls[k].stack : nodes[calls[k].stack[i]].prev # 0
    <3>1. ActiveCalls(calls, blocks, nodes, aligned.outputs)
      BY DEF IInv
    <3>2. calls \in Seq(Call(blocks, nodes))
      BY <3>1 DEF ActiveCalls
    <3>3. k \in 1 .. Len(calls)
      BY <3>2, LenProperties
    <3>4. IsCall(calls[k], blocks, nodes)
      BY <3>1, <3>3 DEF ActiveCalls
    <3>5. calls[k].block \in Blocks /\ IsStack(calls[k].stack, nodes)
      BY <3>4 DEF IsCall, Call, Blocks
    <3>6. DOMAIN calls[k].stack = 1 .. Len(calls[k].stack)
      BY <3>5, LenProperties DEF IsStack, NodeList
    <3> QED
      BY <2>3, <3>4, <3>5, <3>6 DEF IsCall, IsStack
  <2> QED
    BY <2>1, <2>2, <2>4, <2>5 DEF TypeOK, Types
<1> QED
  BY <1>1, Invariant, PTL

\* Different elements on the stack between two blocks are passed in different
\* registers, none of which holds a local: align_registers never gives two of
\* them the same, nor one that was handed out before (register_gen of Block.h).
THEOREM RegistersAlwaysDistinct == Spec => []RegistersDistinct
<1>1. IInv => RegistersDistinct
  <2> SUFFICES ASSUME IInv, NEW b \in Blocks
               PROVE  /\ \A i, j \in DOMAIN initial[b] : initial[b][i] = initial[b][j] => i = j
                      /\ Range(initial[b]) \cap Range(locals) = {}
    BY DEF RegistersDistinct
  <2>1. initial \in [Blocks -> Seq(Registers)]
    BY DEF IInv, Types
  <2>2. DOMAIN initial[b] = 1 .. Len(initial[b])
    BY <2>1, LenProperties
  <2>3. /\ \A i \in 1 .. Len(initial[b]) : \A x \in DOMAIN locals : initial[b][i] # locals[x]
        /\ \A i, j \in 1 .. Len(initial[b]) : initial[b][i] = initial[b][j] => i = j
    BY <2>1 DEF IInv, Allocated
  <2>4. Range(initial[b]) \cap Range(locals) = {}
    BY <2>2, <2>3 DEF Range
  <2> QED
    BY <2>2, <2>3, <2>4
<1> QED
  BY <1>1, Invariant, PTL

-----------------------------------------------------------------------------
(***************************************************************************)
(* Locals. The active calls are a path through the word; what is stored to *)
(* on it is known, as a local once known stays so.                         *)
(***************************************************************************)
\* A call is in a block that is entered without a local unknown by now, and has
\* not stored to it.
CallAssigns(c, x) ==
  c.block \in EnteredWithout(x) /\ ~StoresTo(c.block, c.at, x)

CallsAssign ==
  \A k \in 1 .. Len(calls) :
    /\ \A x : x \notin DOMAIN locals => CallAssigns(calls[k], x)
    /\ \A i \in 1 .. Len(calls[k].left) : calls[k].left[i] \in Range(NextBBs(calls[k].block))

\* A block that does not store to x hands on what it was entered with.
LEMMA WithoutHandedOn ==
  ASSUME NEW x, NEW b \in EnteredWithout(x), ~StoresTo(b, Len(blocks[b]) + 1, x),
         NEW t \in Range(NextBBs(b)), t \in Blocks
  PROVE  t \in EnteredWithout(x)
BY DEF EnteredWithout

\* The first block is entered without any.
LEMMA FirstWithout ==
  ASSUME NEW x, 1 \in Blocks
  PROVE  1 \in EnteredWithout(x)
BY DEF EnteredWithout

\* An instruction that is no store to x adds no store to it.
LEMMA NoMoreStored ==
  ASSUME NEW b, NEW n \in Nat, NEW x, ~StoresTo(b, n, x), DOMAIN blocks[b] \subseteq Nat,
         ~(n \in DOMAIN blocks[b] /\ blocks[b][n].cell.kind = "toLocal" /\ Key(blocks[b][n].cell) = x)
  PROVE  ~StoresTo(b, n + 1, x)
<1> SUFFICES ASSUME NEW j \in DOMAIN blocks[b], j < n + 1,
                    blocks[b][j].cell.kind = "toLocal", Key(blocks[b][j].cell) = x
             PROVE  FALSE
  BY DEF StoresTo
<1>1. j \in Nat
  OBVIOUS
<1>2. j < n \/ j = n
  BY <1>1
<1> QED
  BY <1>2 DEF StoresTo

\* What is said of the word stays true as long as the word does not change.
LEMMA SameWord ==
  ASSUME blocks' = blocks
  PROVE  /\ \A x : EnteredWithout(x)' = EnteredWithout(x)
         /\ \A b, n, x : StoresTo(b, n, x)' = StoresTo(b, n, x)
         /\ \A b : NextBBs(b)' = NextBBs(b)
BY DEF EnteredWithout, StoresTo, Blocks, NextBBs

\* The innermost call goes one step further.
LEMMA StepAssigns ==
  ASSUME IInv, Running, CallsAssign, NEW stack, NEW taken, NEW left,
         Frame.at <= Len(Body) + 1,
         \A i \in 1 .. Len(left) : left[i] \in Range(NextBBs(B)),
         calls' = [calls EXCEPT ![Len(calls)] = Moved(stack, taken, left)],
         blocks' = blocks, DOMAIN locals \subseteq DOMAIN locals',
         Frame.at \in DOMAIN Body /\ Body[Frame.at].cell.kind = "toLocal" =>
           Key(Body[Frame.at].cell) \in DOMAIN locals'
  PROVE  CallsAssign'
<1> DEFINE c == Moved(stack, taken, left)
<1>1. calls \in Seq(Call(blocks, nodes)) /\ Len(calls) \in Nat /\ Len(calls) \in 1 .. Len(calls)
      /\ Frame = calls[Len(calls)]
  <2>1. calls \in Seq(Call(blocks, nodes)) /\ calls # <<>>
    BY DEF IInv, ActiveCalls, Running
  <2> QED
    BY <2>1, LenProperties DEF Frame, Last
<1>2. calls' \in Seq(Call(blocks, nodes) \cup {c}) /\ Len(calls') = Len(calls) /\ DOMAIN calls = 1 .. Len(calls)
      /\ \A k \in 1 .. Len(calls) : calls'[k] = IF k = Len(calls) THEN c ELSE calls[k]
  BY <1>1
<1>3. c.block = B /\ c.at = Frame.at + 1 /\ c.left = left
  BY DEF Moved
<1>4. Frame.at \in Nat /\ DOMAIN blocks[B] \subseteq Nat
  <2>1. B \in Blocks /\ Frame.at \in 1 .. Len(Body) + 2
    BY FrameProperties
  <2>2. DOMAIN blocks[B] = 1 .. Len(blocks[B]) /\ Len(blocks[B]) \in Nat
    BY <2>1, BlockProperties DEF IInv, Types
  <2> QED
    BY <2>1, <2>2 DEF Body
<1> HIDE DEF c
<1>5. /\ \A x : EnteredWithout(x)' = EnteredWithout(x)
      /\ \A b, n, x : StoresTo(b, n, x)' = StoresTo(b, n, x)
      /\ \A b : NextBBs(b)' = NextBBs(b)
  BY SameWord
<1>7. ASSUME NEW x, x \notin DOMAIN locals'
      PROVE  CallAssigns(c, x)
  <2>1. CallAssigns(Frame, x)
    BY <1>1, <1>7 DEF CallsAssign
  <2>2. ~StoresTo(B, Frame.at + 1, x)
    BY <1>4, <1>7, <2>1, NoMoreStored DEF CallAssigns, B, Body
  <2> QED
    BY <1>3, <2>1, <2>2 DEF CallAssigns, B
<1> SUFFICES ASSUME NEW k \in 1 .. Len(calls)
             PROVE  /\ \A x : x \notin DOMAIN locals' => CallAssigns(calls'[k], x)
                    /\ \A i \in 1 .. Len(calls'[k].left) :
                         calls'[k].left[i] \in Range(NextBBs(calls'[k].block))
  BY <1>2, <1>5 DEF CallsAssign, CallAssigns
<1>8. CASE k = Len(calls)
  BY <1>2, <1>3, <1>7, <1>8
<1>9. CASE k # Len(calls)
  BY <1>2, <1>9 DEF CallsAssign
<1> QED
  BY <1>8, <1>9

\* No other variable matters.
LEMMA SameAssigns ==
  ASSUME CallsAssign, blocks' = blocks, locals' = locals, calls' = calls
  PROVE  CallsAssign'
BY SameWord DEF CallsAssign, CallAssigns

\* An instruction other than a store.
LEMMA InstructionAssigns ==
  ASSUME IInv, Graphing, CallsAssign, NEW stack, NEW taken, Step(stack, taken),
         blocks' = blocks, DOMAIN locals \subseteq DOMAIN locals',
         Cell0.kind = "toLocal" => Key(Cell0) \in DOMAIN locals'
  PROVE  CallsAssign'
<1>1. Running /\ Frame.at <= Len(Body) /\ Frame.at \in Nat /\ Len(Body) \in Nat
  <2>1. B \in Blocks /\ Frame.at \in 1 .. Len(Body) + 2 /\ Running /\ Frame.at <= Len(Body)
    BY FrameProperties DEF Graphing
  <2> QED
    BY <2>1, BlockProperties DEF IInv, Types, Body
<1>2. Frame.at <= Len(Body) + 1
  BY <1>1
<1>3. calls' = [calls EXCEPT ![Len(calls)] = Moved(stack, taken, Frame.left)]
  BY DEF Step
<1>4. \A i \in 1 .. Len(Frame.left) : Frame.left[i] \in Range(NextBBs(B))
  <2>1. calls \in Seq(Call(blocks, nodes)) /\ calls # <<>>
    BY <1>1 DEF IInv, ActiveCalls, Running
  <2>2. Len(calls) \in 1 .. Len(calls) /\ Frame = calls[Len(calls)]
    BY <2>1, LenProperties DEF Frame, Last
  <2> QED
    BY <2>2 DEF CallsAssign, B
<1>5. Frame.at \in DOMAIN Body /\ Body[Frame.at].cell.kind = "toLocal" =>
        Key(Body[Frame.at].cell) \in DOMAIN locals'
  BY DEF Cell0
<1> DEFINE left == Frame.left
<1>6. /\ calls' = [calls EXCEPT ![Len(calls)] = Moved(stack, taken, left)]
      /\ \A i \in 1 .. Len(left) : left[i] \in Range(NextBBs(B))
  BY <1>3, <1>4
<1> HIDE DEF left
<1> QED
  BY <1>1, <1>2, <1>5, <1>6, StepAssigns

\* A block that is through hands on to its successors what it was entered with.
LEMMA CloseBlockAssigns ==
  ASSUME IInv, CloseBlock, CallsAssign
  PROVE  CallsAssign'
<1>1. /\ Running /\ Frame.at = Len(Body) + 1
      /\ blocks' = blocks /\ locals' = locals
      /\ calls' = calls \/ calls' = [calls EXCEPT ![Len(calls)] =
                                       Moved(Stack, Frame.taken, NextBBs(B))]
  BY DEF CloseBlock, Stop
<1>2. CASE calls' = calls
  BY <1>1, <1>2, SameAssigns
<1>3. CASE calls' = [calls EXCEPT ![Len(calls)] = Moved(Stack, Frame.taken, NextBBs(B))]
  <2> DEFINE left == NextBBs(B)
             stack == Stack
             taken == Frame.taken
  <2>1. B \in Blocks /\ Len(Body) \in Nat /\ DOMAIN Body = 1 .. Len(Body) /\ left \in Seq(Blocks)
    BY <1>1, FrameProperties, BlockProperties DEF IInv, Types, Body
  <2>2. \A i \in 1 .. Len(left) : left[i] \in Range(left)
    BY <2>1, LenProperties DEF Range
  <2>3. Frame.at <= Len(Body) + 1 /\ ~(Frame.at \in DOMAIN Body)
    BY <1>1, <2>1
  <2>4. /\ calls' = [calls EXCEPT ![Len(calls)] = Moved(stack, taken, left)]
        /\ \A i \in 1 .. Len(left) : left[i] \in Range(NextBBs(B))
    BY <1>3, <2>2
  <2> HIDE DEF left, stack, taken
  <2> QED
    BY <1>1, <2>3, <2>4, StepAssigns
<1> QED
  BY <1>1, <1>2, <1>3

\* The successor entered is entered without what the calls have not stored to.
LEMMA DescendAssigns ==
  ASSUME IInv, Descend, CallsAssign
  PROVE  CallsAssign'
<1> DEFINE t == Head(Frame.left)
           n == Len(calls)
           e == Enter(t, Stack, Frame.taken)
<1>1. /\ Running /\ Frame.at > Len(Body) + 1 /\ Frame.left # <<>>
      /\ blocks' = blocks /\ locals' = locals
      /\ calls' = calls \/ calls' = Waiting \/ calls' = Append(Waiting, e)
  BY DEF Descend, Stop
<1>2. /\ B \in Blocks /\ Frame.at \in Nat /\ Frame.left \in Seq(Blocks)
      /\ Len(Body) \in Nat /\ DOMAIN Body = 1 .. Len(Body)
  <2>1. B \in Blocks /\ Frame.at \in 1 .. Len(Body) + 2 /\ Frame.left \in Seq(Blocks)
    BY <1>1, FrameProperties
  <2> QED
    BY <2>1, BlockProperties DEF IInv, Types, Body
<1>3. /\ calls \in Seq(Call(blocks, nodes)) /\ DOMAIN calls = 1 .. n /\ n \in Nat
      /\ n \in 1 .. n /\ Frame = calls[n]
  <2>1. calls \in Seq(Call(blocks, nodes)) /\ calls # <<>>
    BY <1>1 DEF IInv, ActiveCalls, Running
  <2> QED
    BY <2>1, LenProperties DEF Frame, Last
<1>4. \A i \in 1 .. Len(Frame.left) : Frame.left[i] \in Range(NextBBs(B))
  BY <1>3 DEF CallsAssign, B
<1>5. /\ Len(Frame.left) \in Nat /\ 1 <= Len(Frame.left) /\ t = Frame.left[1] /\ t \in Blocks
      /\ Len(Tail(Frame.left)) = Len(Frame.left) - 1
      /\ \A i \in 1 .. Len(Tail(Frame.left)) : Tail(Frame.left)[i] = Frame.left[i + 1]
  BY <1>1, <1>2
<1>6. t \in Range(NextBBs(B))
  BY <1>4, <1>5
<1>7. \A i \in 1 .. Len(Tail(Frame.left)) : Tail(Frame.left)[i] \in Range(NextBBs(B))
  BY <1>4, <1>5
<1>8. ASSUME NEW x, x \notin DOMAIN locals
      PROVE  t \in EnteredWithout(x)
  <2>1. CallAssigns(Frame, x)
    BY <1>3, <1>8 DEF CallsAssign
  <2>2. ~StoresTo(B, Len(Body) + 1, x)
    <3>1. \A j \in DOMAIN Body : j < Len(Body) + 1 => j < Frame.at
      BY <1>1, <1>2
    <3> QED
      BY <2>1, <3>1 DEF CallAssigns, StoresTo, B, Body
  <2>3. ~StoresTo(B, Len(blocks[B]) + 1, x)
    BY <2>2 DEF Body
  <2>4. B \in EnteredWithout(x)
    BY <2>1 DEF CallAssigns, B
  <2> HIDE DEF t
  <2> QED
    BY <1>5, <1>6, <2>3, <2>4, WithoutHandedOn
<1>9. /\ Waiting \in Seq(Call(blocks, nodes)) /\ Len(Waiting) = n
      /\ \A k \in 1 .. n : /\ Waiting[k].block = calls[k].block /\ Waiting[k].at = calls[k].at
                           /\ k # n => Waiting[k] = calls[k]
      /\ Waiting[n].left = Tail(Frame.left)
  <2>1. Waiting \in Seq(Call(blocks, nodes))
    BY <1>1, <1>2, WaitingProperties DEF ActiveCalls
  <2>2. Frame \in Call(blocks, nodes)
    BY <1>3
  <2>3. Waiting = [calls EXCEPT ![n] = [Frame EXCEPT !.left = Tail(Frame.left)]]
    BY <1>3 DEF Waiting
  <2>4. /\ Len(Waiting) = n
        /\ \A k \in 1 .. n : Waiting[k] = IF k = n THEN [Frame EXCEPT !.left = Tail(Frame.left)]
                                          ELSE calls[k]
    BY <1>3, <2>1, <2>3
  <2>5. /\ [Frame EXCEPT !.left = Tail(Frame.left)].block = Frame.block
        /\ [Frame EXCEPT !.left = Tail(Frame.left)].at = Frame.at
        /\ [Frame EXCEPT !.left = Tail(Frame.left)].left = Tail(Frame.left)
    BY <2>2 DEF Call
  <2> QED
    BY <1>3, <2>1, <2>4, <2>5
<1>10. e.block = t /\ e.at = 1 /\ e.left = <<>>
  BY DEF Enter
<1> HIDE DEF t, n, e
<1>11. ASSUME NEW k \in 1 .. n
       PROVE  /\ \A x : x \notin DOMAIN locals => CallAssigns(Waiting[k], x)
              /\ \A i \in 1 .. Len(Waiting[k].left) :
                   Waiting[k].left[i] \in Range(NextBBs(Waiting[k].block))
  <2>1. \A x : x \notin DOMAIN locals => CallAssigns(Waiting[k], x)
    BY <1>3, <1>9 DEF CallsAssign, CallAssigns, n
  <2>2. CASE k = n
    BY <1>3, <1>7, <1>9, <2>1, <2>2 DEF B
  <2>3. CASE k # n
    BY <1>9, <2>1, <2>3 DEF CallsAssign, n
  <2> QED
    BY <2>2, <2>3
<1>12. ASSUME NEW x, x \notin DOMAIN locals
       PROVE  CallAssigns(e, x)
  <2>1. DOMAIN blocks[t] \subseteq Nat /\ \A j \in DOMAIN blocks[t] : ~(j < 1)
    <3>1. DOMAIN blocks[t] = 1 .. Len(blocks[t])
      BY <1>5, BlockProperties DEF IInv, Types
    <3> QED
      BY <3>1
  <2> QED
    BY <1>8, <1>10, <1>12, <2>1 DEF CallAssigns, StoresTo
<1>13. CASE calls' = calls
  BY <1>1, <1>13, SameAssigns
<1>14. CASE calls' = Waiting
  BY <1>1, <1>9, <1>11, <1>14, SameWord DEF CallsAssign, CallAssigns
<1>15. CASE calls' = Append(Waiting, e)
  <2>1. /\ Len(calls') = n + 1
        /\ \A k \in 1 .. n + 1 : calls'[k] = IF k = n + 1 THEN e ELSE Waiting[k]
    BY <1>3, <1>9, <1>15
  <2>2. ASSUME NEW k \in 1 .. n + 1
        PROVE  /\ \A x : x \notin DOMAIN locals => CallAssigns(calls'[k], x)
               /\ \A i \in 1 .. Len(calls'[k].left) :
                    calls'[k].left[i] \in Range(NextBBs(calls'[k].block))
    <3>1. CASE k = n + 1
      BY <1>10, <1>12, <2>1, <3>1
    <3>2. CASE k # n + 1
      <4>1. k \in 1 .. n
        BY <1>3, <3>2
      <4> QED
        BY <1>11, <2>1, <3>2, <4>1
    <3> QED
      BY <3>1, <3>2
  <2> QED
    BY <1>1, <2>1, <2>2, SameWord DEF CallsAssign, CallAssigns
<1> QED
  BY <1>1, <1>13, <1>14, <1>15

\* A local known stays known and a store makes its local known, so the calls keep
\* to a path that has stored to nothing else.
LEMMA AssignsKept ==
  ASSUME IInv, CallsAssign, [Next]_vars
  PROVE  CallsAssign'
<1>1. CASE Propagate
  <2>1. /\ Graphing /\ ~IsLocal(Cell0) /\ blocks' = blocks /\ locals' = locals
        /\ \E stack, taken : Step(stack, taken)
    BY <1>1 DEF Propagate
  <2>2. PICK stack, taken : Step(stack, taken)
    BY <2>1
  <2> QED
    BY <2>1, <2>2, InstructionAssigns DEF IsLocal
<1>2. CASE StoreLocal
  <2>1. /\ Graphing /\ blocks' = blocks /\ DOMAIN locals' = DOMAIN locals \cup {Key(Cell0)}
        /\ \E stack, taken : Step(stack, taken)
    BY <1>2 DEF StoreLocal, Stored
  <2>2. PICK stack, taken : Step(stack, taken)
    BY <2>1
  <2> QED
    BY <2>1, <2>2, InstructionAssigns
<1>3. CASE LoadLocal
  <2>1. CASE Key(Cell0) \notin DOMAIN locals
    <3>1. blocks' = blocks /\ locals' = locals /\ calls' = calls
      BY <1>3, <2>1 DEF LoadLocal, Stop
    <3> QED
      BY <3>1, SameAssigns
  <2>2. CASE Key(Cell0) \in DOMAIN locals
    <3>1. /\ Graphing /\ blocks' = blocks /\ locals' = locals /\ Key(Cell0) \in DOMAIN locals'
          /\ \E stack, taken : Step(stack, taken)
      BY <1>3, <2>2 DEF LoadLocal
    <3>2. PICK stack, taken : Step(stack, taken)
      BY <3>1
    <3> QED
      BY <3>1, <3>2, InstructionAssigns
  <2> QED
    BY <2>1, <2>2
<1>4. CASE CloseBlock
  BY <1>4, CloseBlockAssigns
<1>5. CASE Descend
  BY <1>5, DescendAssigns
<1>6. CASE Return
  <2>1. /\ Running /\ blocks' = blocks /\ locals' = locals /\ calls' = Front(calls)
    BY <1>6 DEF Return
  <2>2. calls \in Seq(Call(blocks, nodes)) /\ calls # <<>>
    BY <2>1 DEF IInv, ActiveCalls, Running
  <2>3. /\ Len(calls') = Len(calls) - 1 /\ Len(calls) \in Nat
        /\ \A k \in 1 .. Len(calls) - 1 : calls'[k] = calls[k]
    BY <2>1, <2>2, LenProperties, FrontProperties
  <2>4. \A k \in 1 .. Len(calls') : k \in 1 .. Len(calls) /\ calls'[k] = calls[k]
    BY <2>3
  <2> QED
    BY <2>1, <2>4, SameWord DEF CallsAssign, CallAssigns
<1>7. CASE Finish \/ Ended \/ UNCHANGED vars
  <2>1. blocks' = blocks /\ locals' = locals /\ calls' = calls
    BY <1>7 DEF Finish, Ended, vars
  <2> QED
    BY <2>1, SameAssigns
<1> QED
  BY <1>1, <1>2, <1>3, <1>4, <1>5, <1>6, <1>7 DEF Next

\* The walk is entered at the first block.
LEMMA InitialAssigns ==
  ASSUME Init
  PROVE  CallsAssign
<1> DEFINE c == Enter(1, <<>>, 0)
<1>1. blocks \in Graphs /\ calls = <<c>> /\ c.block = 1 /\ c.at = 1 /\ c.left = <<>>
  BY DEF Init, Enter
<1> HIDE DEF c
<1>2. 1 \in Blocks /\ DOMAIN blocks[1] = 1 .. Len(blocks[1])
  BY <1>1, BlockProperties
<1>3. ASSUME NEW x PROVE CallAssigns(c, x)
  <2>1. \A j \in DOMAIN blocks[1] : ~(j < 1)
    BY <1>2
  <2> QED
    BY <1>1, <1>2, <2>1, FirstWithout DEF CallAssigns, StoresTo
<1>4. \A k \in 1 .. Len(calls) : calls[k] = c
  BY <1>1
<1> QED
  BY <1>1, <1>3, <1>4 DEF CallsAssign

\* LocalsAssigned, for all words: if every path stores to a local before it loads
\* it, the analysis finds the local, in whatever order it meets the blocks.
THEOREM LocalsAlwaysAssigned == Spec => []LocalsAssigned
<1>1. Init => LocalsAssigned
  BY DEF Init, LocalsAssigned
<1>2. IInv /\ CallsAssign /\ LocalsAssigned /\ [Next]_vars => LocalsAssigned'
  <2> SUFFICES ASSUME IInv, CallsAssign, LocalsAssigned, [Next]_vars, outcome' = "aborted"
               PROVE  LocalsAssigned'
    BY DEF LocalsAssigned
  <2>1. blocks' = blocks
    BY DEF Next, vars, Propagate, StoreLocal, LoadLocal, CloseBlock, Descend, Return, Finish,
           Ended, Stop
  <2>2. CASE outcome = "aborted"
    BY <2>1, <2>2, SameWord DEF LocalsAssigned, Blocks
  <2>3. CASE outcome # "aborted"
    <3>1. LoadLocal /\ Key(Cell0) \notin DOMAIN locals
      BY <2>3 DEF Next, vars, Propagate, StoreLocal, LoadLocal, CloseBlock, Descend, Return,
                  Finish, Ended, Stop, Running, Graphing
    <3>2. Graphing /\ Cell0.kind = "fromLocal"
      BY <3>1 DEF LoadLocal
    <3>3. B \in Blocks /\ Frame.at \in DOMAIN blocks[B]
      BY <3>2, FrameProperties, CellProperties DEF Graphing, Body
    <3>4. CallAssigns(Frame, Key(Cell0))
      <4>1. calls \in Seq(Call(blocks, nodes)) /\ calls # <<>>
        BY <3>2 DEF IInv, ActiveCalls, Graphing, Running
      <4>2. Len(calls) \in 1 .. Len(calls) /\ Frame = calls[Len(calls)]
        BY <4>1, LenProperties DEF Frame, Last
      <4> QED
        BY <3>1, <4>2 DEF CallsAssign
    <3>5. B \in EnteredWithout(Key(Cell0)) /\ ~StoresTo(B, Frame.at, Key(Cell0))
      BY <3>4 DEF CallAssigns, B
    <3> DEFINE b == B
               k == Frame.at
               c == blocks[b][k].cell
    <3>6. /\ b \in Blocks /\ k \in DOMAIN blocks[b] /\ c.kind = "fromLocal"
          /\ b \in EnteredWithout(Key(c)) /\ ~StoresTo(b, k, Key(c))
      BY <3>2, <3>3, <3>5 DEF Cell0, Body
    <3> HIDE DEF b, k
    <3> QED
      BY <2>1, <3>6, SameWord DEF LocalsAssigned, Blocks, Key
  <2> QED
    BY <2>2, <2>3
<1>3. Init => CallsAssign
  BY InitialAssigns
<1>4. IInv /\ CallsAssign /\ [Next]_vars => CallsAssign'
  BY AssignsKept
<1> QED
  BY <1>1, <1>2, <1>3, <1>4, Invariant, PTL DEF Spec
=============================================================================
