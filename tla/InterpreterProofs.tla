-------------------------- MODULE InterpreterProofs --------------------------
(***************************************************************************)
(* Theorems about the interpreter, for every program, every width of       *)
(* elements and every other value of the constants.                        *)
(*                                                                         *)
(* The inductive invariant Inv says that what the dictionary and the       *)
(* definitions hold is sound (WordsInv) and that what an execution in      *)
(* progress refers to exists in them (RunInv). A step that leaves the      *)
(* words alone preserves WordsInv at once; a step that changes them only   *)
(* lets them grow (Grows), so every reference into them stays good.        *)
(***************************************************************************)
EXTENDS Interpreter, SequenceTheorems, TLAPS

LocalsMap == UNION {[S -> Cell] : S \in SUBSET Name}

\* A cell that may be copied anywhere, and a stack of them.
Good(c)      == c \in Cell /\ Resolves(c)
GoodStack(s) == s \in Seq(Cell) /\ \A i \in 1 .. Len(s) : Resolves(s[i])

WordsTyped ==
  /\ dictionary \in Seq(NumCell \cup WordCell)
  /\ dictionary # <<>>
  /\ header \in Seq([name : Name, immediate : BOOLEAN])
  /\ def \in Seq(Seq(Cell))
  /\ Len(def) = Len(header)
  /\ locals \in Seq(LocalsMap)
  /\ Len(locals) = Len(header)

WordsResolve ==
  /\ \A w \in 1 .. Len(header) : \A i \in 1 .. Len(def[w]) : Resolves(def[w][i])
  /\ \A w \in 1 .. Len(header) : \A x \in DOMAIN locals[w] : Resolves(locals[w][x])

WordsInv == WordsTyped /\ DictionaryComplete /\ WordsResolve

FramesInv(fs) ==
  /\ fs \in Seq(Frame)
  /\ Len(fs) <= MaxDepth
  /\ \A k \in 1 .. Len(fs) :
       /\ fs[k].w \in 1 .. Len(header)
       /\ fs[k].pc \in 1 .. Len(def[fs[k].w]) + 1

RunInv ==
  /\ source \in Seq(Token)
  /\ pos \in 1 .. Len(source) + 1
  /\ heap \in Seq([live : BOOLEAN, cells : Seq(NumCell \cup UndefCell)])
  /\ GoodStack(stack)
  /\ immediate \in BOOLEAN
  /\ FramesInv(frames)
  /\ Good(xt)
  /\ ~IsNumber(xt)
  /\ out \in Seq(Int)
  /\ status \in Statuses

Inv == WordsInv /\ RunInv

\* The words of the next state hold at least what they held.
Grows ==
  /\ Len(header) <= Len(header')
  /\ \A w \in 1 .. Len(header) :
       Len(def[w]) <= Len(def'[w]) /\ DOMAIN locals[w] \subseteq DOMAIN locals'[w]

-----------------------------------------------------------------------------
(***************************************************************************)
(* Sequences, cells and the stack.                                         *)
(***************************************************************************)
\* The first n elements of a sequence; Front and Last of a nonempty one.
LEMMA Prefix ==
  ASSUME NEW S, NEW s \in Seq(S), NEW n \in 0 .. Len(s)
  PROVE  /\ SubSeq(s, 1, n) \in Seq(S)
         /\ Len(SubSeq(s, 1, n)) = n
         /\ \A i \in 1 .. n : SubSeq(s, 1, n)[i] = s[i]
<1>1. \A i \in 1 .. n : s[i] \in S
  OBVIOUS
<1>2. Len(SubSeq(s, 1, n)) = n
  BY <1>1, SubSeqProperties
<1>3. SubSeq(s, 1, n) \in Seq(S)
  BY <1>1, SubSeqProperties
<1>4. \A i \in 1 .. n : SubSeq(s, 1, n)[i] = s[i]
  BY <1>1, SubSeqProperties
<1> QED
  BY <1>2, <1>3, <1>4

LEMMA FrontLast ==
  ASSUME NEW S, NEW s \in Seq(S), s # <<>>
  PROVE  /\ Len(s) \in Nat \ {0}
         /\ Front(s) \in Seq(S)
         /\ Len(Front(s)) = Len(s) - 1
         /\ \A i \in 1 .. Len(s) - 1 : Front(s)[i] = s[i]
         /\ Last(s) \in S
         /\ Last(s) = s[Len(s)]
<1>1. Len(s) \in Nat \ {0} /\ Len(s) - 1 \in 0 .. Len(s)
  BY EmptySeq
<1>2. Last(s) \in S
  BY <1>1, ElementOfSeq DEF Last
<1> QED
  BY <1>1, <1>2, Prefix DEF Front, Last

\* What pop_number, pop and top do to a sound stack.
LEMMA PopGood ==
  ASSUME NEW s, GoodStack(s), s # <<>>
  PROVE  /\ GoodStack(DropNumber(s))
         /\ GoodStack(Popped(s))
         /\ Good(Top(s))
         /\ TopNumber(s) \in Int
<1>1. s \in Seq(Cell)
  BY DEF GoodStack
<1>2. /\ Len(s) \in Nat \ {0}
      /\ Front(s) \in Seq(Cell)
      /\ Len(Front(s)) = Len(s) - 1
      /\ \A i \in 1 .. Len(s) - 1 : Front(s)[i] = s[i]
      /\ Last(s) \in Cell /\ Last(s) = s[Len(s)]
  BY <1>1, FrontLast
<1>3. GoodStack(Front(s))
  BY <1>2 DEF GoodStack
<1>4. Resolves(Last(s))
  BY <1>2 DEF GoodStack
<1>5. IsNumber(Last(s)) => Last(s).n \in Int
  BY <1>2 DEF IsNumber, Cell, NumCell, WordCell, PrimCell, LocalCell, UndefCell
<1> QED
  BY <1>2, <1>3, <1>4, <1>5 DEF DropNumber, Popped, Top, TopNumber, Good

LEMMA PopAnyGood ==
  ASSUME NEW s, GoodStack(s)
  PROVE  GoodStack(Popped(s)) /\ Good(Top(s))
<1>1. CASE s = <<>>
  BY <1>1 DEF Popped, Top, Good, GoodStack, Undef, Resolves, IsLocal, Cell, UndefCell
<1>2. CASE s # <<>>
  BY <1>2, PopGood
<1> QED
  BY <1>1, <1>2

LEMMA NumGood == ASSUME NEW i \in Int PROVE Good(Num(i)) /\ IsNumber(Num(i))
BY DEF Num, Good, Resolves, IsLocal, IsNumber, Cell, NumCell

LEMMA UndefGood == Good(Undef) /\ ~IsNumber(Undef)
BY DEF Undef, Good, Resolves, IsLocal, IsNumber, Cell, UndefCell

LEMMA PrimGood ==
  ASSUME NEW q \in Primitives PROVE Good(PrimXt(q)) /\ ~IsNumber(PrimXt(q))
BY DEF PrimXt, Good, Resolves, IsLocal, IsNumber, Cell, PrimCell

LEMMA PushGood ==
  ASSUME NEW s, GoodStack(s), NEW c, Good(c)
  PROVE  GoodStack(Append(s, c))
<1>1. /\ Append(s, c) \in Seq(Cell)
      /\ Len(Append(s, c)) = Len(s) + 1
      /\ \A i \in 1 .. Len(s) : Append(s, c)[i] = s[i]
      /\ Append(s, c)[Len(s) + 1] = c
  BY DEF GoodStack, Good
<1>2. Len(s) \in Nat
  BY LenProperties DEF GoodStack
<1> QED
  BY <1>1, <1>2 DEF GoodStack, Good

LEMMA ConcatGood ==
  ASSUME NEW s, GoodStack(s), NEW t, GoodStack(t)
  PROVE  GoodStack(s \o t)
<1>1. s \in Seq(Cell) /\ t \in Seq(Cell)
  BY DEF GoodStack
<1>2. Len(s) \in Nat /\ Len(t) \in Nat
  BY <1>1, LenProperties
<1>3. /\ s \o t \in Seq(Cell)
      /\ Len(s \o t) = Len(s) + Len(t)
      /\ \A i \in 1 .. Len(s) + Len(t) : (s \o t)[i] =
                     IF i <= Len(s) THEN s[i] ELSE t[i - Len(s)]
  BY <1>1, ConcatProperties
<1>4. ASSUME NEW i \in 1 .. Len(s \o t) PROVE Resolves((s \o t)[i])
  <2>1. CASE i <= Len(s)
    BY <1>2, <1>3, <2>1 DEF GoodStack
  <2>2. CASE ~(i <= Len(s))
    BY <1>2, <1>3, <2>2 DEF GoodStack
  <2> QED
    BY <2>1, <2>2
<1> QED
  BY <1>3, <1>4 DEF GoodStack

LEMMA SmallStacks ==
  /\ GoodStack(<<>>)
  /\ \A c : Good(c) => GoodStack(<<c>>)
  /\ \A c, d : Good(c) /\ Good(d) => GoodStack(<<c, d>>)
  /\ \A c, d, e : Good(c) /\ Good(d) /\ Good(e) => GoodStack(<<c, d, e>>)
BY DEF GoodStack, Good

\* What up to three calls of pop_number leave.
LEMMA BelowGood ==
  ASSUME GoodStack(stack)
  PROVE  /\ CanPop(stack, 1) => GoodStack(Below(1)) /\ TopNumber(stack) \in Int
         /\ CanPop(stack, 2) => /\ GoodStack(Below(1)) /\ GoodStack(Below(2))
                                /\ TopNumber(stack) \in Int
                                /\ TopNumber(Below(1)) \in Int
         /\ CanPop(stack, 3) => /\ GoodStack(Below(3))
                                /\ TopNumber(stack) \in Int
                                /\ TopNumber(Below(1)) \in Int
                                /\ TopNumber(Below(2)) \in Int
<1>1. stack # <<>> => GoodStack(DropNumber(stack)) /\ TopNumber(stack) \in Int
  BY PopGood
<1>2. ASSUME stack # <<>>, DropNumber(stack) # <<>>
      PROVE  /\ GoodStack(DropNumber(DropNumber(stack)))
             /\ TopNumber(DropNumber(stack)) \in Int
  BY <1>1, <1>2, PopGood
<1>3. ASSUME stack # <<>>, DropNumber(stack) # <<>>,
             DropNumber(DropNumber(stack)) # <<>>
      PROVE  /\ GoodStack(DropNumber(DropNumber(DropNumber(stack))))
             /\ TopNumber(DropNumber(DropNumber(stack))) \in Int
  BY <1>2, <1>3, PopGood
<1> QED
  BY <1>1, <1>2, <1>3 DEF CanPop, Below

-----------------------------------------------------------------------------
(***************************************************************************)
(* Steps that leave the words alone.                                       *)
(***************************************************************************)
LEMMA KeepWords ==
  ASSUME Inv, UNCHANGED wordVars, source' = source,
         pos' \in 1 .. Len(source) + 1,
         heap' \in Seq([live : BOOLEAN, cells : Seq(NumCell \cup UndefCell)]),
         GoodStack(stack'), immediate' \in BOOLEAN, FramesInv(frames'),
         Good(xt'), ~IsNumber(xt'), out' \in Seq(Int), status' \in Statuses
  PROVE  Inv'
<1>1. WordsInv'
  <2>1. WordsTyped'
    BY DEF Inv, WordsInv, WordsTyped, wordVars
  <2>2. DictionaryComplete'
    BY DEF Inv, WordsInv, DictionaryComplete, wordVars
  <2>3. WordsResolve'
    BY DEF Inv, WordsInv, WordsResolve, Resolves, wordVars
  <2> QED
    BY <2>1, <2>2, <2>3 DEF WordsInv
<1>2. GoodStack(stack)' /\ Good(xt)'
  BY DEF GoodStack, Good, Resolves, wordVars
<1>3. FramesInv(frames)'
  BY DEF FramesInv, wordVars
<1>4. RunInv'
  BY <1>2, <1>3 DEF Inv, RunInv
<1> QED
  BY <1>1, <1>4 DEF Inv

\* The innermost call walks an existing definition.
LEMMA Frame0Valid ==
  ASSUME Inv, frames # <<>>
  PROVE  /\ Len(frames) \in Nat \ {0}
         /\ Frame0 \in Frame
         /\ Frame0 = frames[Len(frames)]
         /\ Frame0.w \in 1 .. Len(header)
         /\ Frame0.w \in 1 .. Len(def)
         /\ Body \in Seq(Cell)
         /\ Len(Body) \in Nat
         /\ Frame0.pc \in 1 .. Len(Body) + 1
         /\ \A i \in 1 .. Len(Body) : Good(Body[i])
<1>1. FramesInv(frames) /\ WordsTyped /\ WordsResolve
  BY DEF Inv, RunInv, WordsInv
<1>2. /\ Len(frames) \in Nat \ {0}
      /\ Last(frames) \in Frame
      /\ Last(frames) = frames[Len(frames)]
  BY <1>1, FrontLast DEF FramesInv
<1>3. Len(frames) \in 1 .. Len(frames)
  BY <1>2
<1>4. /\ Frame0.w \in 1 .. Len(header)
      /\ Frame0.pc \in 1 .. Len(Body) + 1
  BY <1>1, <1>2, <1>3 DEF FramesInv, Frame0, Body
<1>5. Frame0.w \in 1 .. Len(def) /\ Body \in Seq(Cell)
  BY <1>1, <1>4 DEF WordsTyped, Body
<1>6. Len(Body) \in Nat
  BY <1>5, LenProperties
<1>7. \A i \in 1 .. Len(Body) : Resolves(Body[i])
  BY <1>1, <1>4 DEF WordsResolve, Body
<1> QED
  BY <1>2, <1>4, <1>5, <1>6, <1>7 DEF Frame0, Good

LEMMA OperandGood ==
  ASSUME Inv, HasOperand
  PROVE  /\ Good(Operand)
         /\ Frame0.pc \in Nat
         /\ Frame0.pc + 1 \in 1 .. Len(Body) + 1
         /\ frames # <<>>
BY Frame0Valid DEF HasOperand, Operand

LEMMA GoToValid ==
  ASSUME Inv, frames # <<>>, NEW i \in 1 .. Len(Body) + 1, GoTo(i)
  PROVE  FramesInv(frames')
<1>1. FramesInv(frames)
  BY DEF Inv, RunInv
<1> DEFINE f == [Frame0 EXCEPT !.pc = i]
<1>2. /\ Len(frames) \in 1 .. Len(frames)
      /\ Frame0 \in Frame
      /\ Frame0 = frames[Len(frames)]
      /\ i \in Nat
  BY Frame0Valid
<1>3. f \in Frame /\ f.w = Frame0.w /\ f.pc = i
  BY <1>2 DEF Frame
<1>4. frames' = [frames EXCEPT ![Len(frames)] = f]
  BY <1>2 DEF GoTo
<1>5. /\ frames' \in Seq(Frame)
      /\ Len(frames') = Len(frames)
      /\ \A k \in 1 .. Len(frames) :
           frames'[k] = IF k = Len(frames) THEN f ELSE frames[k]
  <2> HIDE DEF f
  <2> QED
    BY <1>1, <1>2, <1>3, <1>4, ExceptSeq DEF FramesInv
<1>6. ASSUME NEW k \in 1 .. Len(frames')
      PROVE  /\ frames'[k].w \in 1 .. Len(header)
             /\ frames'[k].pc \in 1 .. Len(def[frames'[k].w]) + 1
  <2> HIDE DEF f
  <2>1. CASE k = Len(frames)
    BY <1>2, <1>3, <1>5, <2>1, Frame0Valid DEF Body
  <2>2. CASE k # Len(frames)
    BY <1>1, <1>5, <2>2 DEF FramesInv
  <2> QED
    BY <2>1, <2>2
<1> QED
  BY <1>1, <1>5, <1>6 DEF FramesInv

LEMMA SetStackInv ==
  ASSUME Inv, NEW s, GoodStack(s), SetStack(s)
  PROVE  Inv'
<1>1. GoodStack(stack') /\ Good(xt') /\ ~IsNumber(xt')
  BY UndefGood DEF SetStack
<1> QED
  BY <1>1, KeepWords DEF SetStack, Inv, RunInv

LEMMA FailInv ==
  ASSUME Inv, NEW how \in Statuses, Fail(how)
  PROVE  Inv'
<1>1. Good(xt') /\ ~IsNumber(xt')
  BY UndefGood DEF Fail
<1> QED
  BY <1>1, KeepWords DEF Fail, Inv, RunInv

LEMMA MoveToInv ==
  ASSUME Inv, NEW s, GoodStack(s), frames # <<>>,
         NEW i \in 1 .. Len(Body) + 1, MoveTo(i, s)
  PROVE  Inv'
<1>1. FramesInv(frames')
  BY GoToValid DEF MoveTo
<1>2. GoodStack(stack') /\ Good(xt') /\ ~IsNumber(xt')
  BY UndefGood DEF MoveTo
<1> QED
  BY <1>1, <1>2, KeepWords DEF MoveTo, Inv, RunInv

-----------------------------------------------------------------------------
(***************************************************************************)
(* The token loop and the walk of a definition.                            *)
(***************************************************************************)
\* find answers a good cell, if any.
LEMMA FindGood ==
  ASSUME Inv, NEW name
  PROVE  Good(Find(name)) /\ ~IsNumber(Find(name))
<1>1. CASE \E i \in DOMAIN dictionary : IsNewest(name, i)
  <2>1. PICK i \in DOMAIN dictionary : Find(name) = dictionary[i] /\ IsNewest(name, i)
    BY <1>1 DEF Find
  <2>2. dictionary[i] \in NumCell \cup WordCell
    BY <2>1, ElementOfSeq DEF Inv, WordsInv, WordsTyped
  <2>3. IsWord(dictionary[i]) /\ dictionary[i].w \in DOMAIN header
    BY <2>1 DEF IsNewest, Inv, WordsInv, DictionaryComplete
  <2>4. /\ dictionary[i].kind = "word"
        /\ dictionary[i] \in Cell
        /\ dictionary[i].w \in 1 .. Len(header)
    BY <2>2, <2>3 DEF IsWord, NumCell, WordCell, Cell, Inv, WordsInv, WordsTyped
  <2>5. 1 .. Len(header) = DOMAIN header
    BY LenProperties DEF Inv, WordsInv, WordsTyped
  <2> QED
    BY <2>1, <2>4, <2>5 DEF Good, Resolves, IsLocal, IsNumber
<1>2. CASE ~(\E i \in DOMAIN dictionary : IsNewest(name, i)) /\ name \in Primitives
  <2>1. Find(name) = PrimXt(name)
    BY <1>2, Zenon DEF Find
  <2> QED
    BY <1>2, <2>1, PrimGood
<1>3. CASE ~(\E i \in DOMAIN dictionary : IsNewest(name, i)) /\ name \notin Primitives
  <2>1. Find(name) = Undef
    BY <1>3 DEF Find
  <2> QED
    BY <2>1, UndefGood
<1> QED
  BY <1>1, <1>2, <1>3

\* The position in the file stays in bounds.
LEMMA PosValid ==
  ASSUME Inv
  PROVE  /\ ReadToken => pos' \in 1 .. Len(source) + 1
         /\ Consume => pos' \in 1 .. Len(source) + 1
         /\ NextToken \in Name
<1>1. pos \in 1 .. Len(source) + 1 /\ source \in Seq(Token) /\ Len(source) \in Nat
  BY LenProperties DEF Inv, RunInv
<1>2. NextToken \in Name
  <2>1. CASE pos > Len(source)
    BY <2>1 DEF NextToken, AtEnd, Name
  <2>2. CASE pos \in 1 .. Len(source)
    <3>1. source[pos] \in Token
      BY <1>1, <2>2, ElementOfSeq
    <3>2. ~(pos > Len(source))
      BY <1>1, <2>2
    <3> QED
      BY <3>1, <3>2 DEF NextToken, AtEnd, Name
  <2> QED
    BY <1>1, <2>1, <2>2
<1>3. pos + 1 \in 1 .. Len(source) + 1 \/ AtEnd
  BY <1>1 DEF AtEnd
<1> QED
  BY <1>1, <1>2, <1>3 DEF ReadToken, Consume, AtEnd

LEMMA TokenLoopKeeps ==
  ASSUME Inv, EndOfFile \/ ExecuteToken \/ PushNumber \/ RejectToken
  PROVE  Inv'
<1>1. CASE EndOfFile
  BY <1>1, KeepWords DEF EndOfFile, Return, Statuses, wordVars, Inv, RunInv
<1>2. CASE ExecuteToken
  <2>1. Good(xt') /\ ~IsNumber(xt')
    BY <1>2, FindGood DEF ExecuteToken
  <2>2. pos' \in 1 .. Len(source) + 1
    BY <1>2, PosValid DEF ExecuteToken
  <2> QED
    BY <1>2, <2>1, <2>2, KeepWords DEF ExecuteToken, wordVars, Inv, RunInv
<1>3. CASE PushNumber
  <2>1. NumberOf[NextToken] \in Int
    BY <1>3, NumberAssumption, WidthAssumption DEF PushNumber, TokenIsNumber
  <2>2. GoodStack(stack')
    BY <1>3, <2>1, NumGood, PushGood DEF PushNumber, Inv, RunInv
  <2>3. pos' \in 1 .. Len(source) + 1
    BY <1>3, PosValid DEF PushNumber
  <2> QED
    BY <1>3, <2>2, <2>3, KeepWords DEF PushNumber, wordVars, Inv, RunInv
<1>4. CASE RejectToken
  <2>1. pos' \in 1 .. Len(source) + 1
    BY <1>4, PosValid DEF RejectToken
  <2> QED
    BY <1>4, <2>1, KeepWords DEF RejectToken, Return, Statuses, wordVars, Inv, RunInv
<1> QED
  BY <1>1, <1>2, <1>3, <1>4

LEMMA WalkKeeps ==
  ASSUME Inv, FetchWord \/ SkipNumber \/ ReturnFromWord
  PROVE  Inv'
<1>1. CASE FetchWord
  <2>1. FramesInv(frames')
    BY <1>1, OperandGood, GoToValid DEF FetchWord
  <2>2. Good(xt') /\ ~IsNumber(xt')
    BY <1>1, OperandGood DEF FetchWord, IsWord, IsNumber
  <2> QED
    BY <1>1, <2>1, <2>2, KeepWords DEF FetchWord, Inv, RunInv
<1>2. CASE SkipNumber
  <2>1. FramesInv(frames')
    BY <1>2, OperandGood, GoToValid DEF SkipNumber
  <2> QED
    BY <1>2, <2>1, KeepWords DEF SkipNumber, Inv, RunInv
<1>3. CASE ReturnFromWord
  <2>1. FramesInv(frames) /\ frames # <<>>
    BY <1>3 DEF ReturnFromWord, Walking, Inv, RunInv
  <2>2. /\ Front(frames) \in Seq(Frame)
        /\ Len(frames) \in Nat \ {0}
        /\ Len(Front(frames)) = Len(frames) - 1
        /\ \A k \in 1 .. Len(frames) - 1 : Front(frames)[k] = frames[k]
    BY <2>1, FrontLast DEF FramesInv
  <2>3. FramesInv(frames')
    BY <1>3, <2>1, <2>2, BoundsAssumption DEF FramesInv, ReturnFromWord
  <2> QED
    BY <1>3, <2>3, KeepWords DEF ReturnFromWord, Inv, RunInv
<1> QED
  BY <1>1, <1>2, <1>3

-----------------------------------------------------------------------------
(***************************************************************************)
(* The primitives that only compute, and those that move the iterator.     *)
(***************************************************************************)
LEMMA PureKeeps == ASSUME Inv, Pure PROVE Inv'
<1>0. GoodStack(stack)
  BY DEF Inv, RunInv
<1>1. ASSUME NEW q \in BinaryPrimitives, Binary(q) PROVE Inv'
  <2> DEFINE v == Result(q, TopNumber(stack), TopNumber(Below(1)))
  <2>1. CASE v \in Element
    <3>1. v \in Int
      BY <2>1, WidthAssumption DEF Element
    <3>2. GoodStack(Append(Below(2), Num(v)))
      <4> HIDE DEF v
      <4> QED
        BY <1>0, <1>1, <3>1, NumGood, PushGood, BelowGood DEF Binary
    <3> QED
      BY <1>1, <2>1, <3>2, SetStackInv DEF Binary
  <2>2. CASE v \notin Element
    BY <1>1, <2>2, FailInv DEF Binary, Statuses
  <2> QED
    BY <2>1, <2>2
<1>2. CASE Swap
  BY <1>0, <1>2, BelowGood, NumGood, SmallStacks, ConcatGood, SetStackInv DEF Swap
<1>3. CASE Rot
  <2>1. /\ GoodStack(Below(3))
        /\ Good(Num(TopNumber(stack)))
        /\ Good(Num(TopNumber(Below(1))))
        /\ Good(Num(TopNumber(Below(2))))
    BY <1>0, <1>3, BelowGood, NumGood DEF Rot
  <2> QED
    BY <1>3, <2>1, SmallStacks, ConcatGood, SetStackInv DEF Rot
<1>4. CASE Dup
  BY <1>0, <1>4, PopAnyGood, PushGood, SetStackInv DEF Dup
<1>5. CASE Drop
  BY <1>0, <1>5, BelowGood, SetStackInv DEF Drop
<1>6. CASE Emit
  <2>1. GoodStack(Below(1)) /\ ToInt(TopNumber(stack)) \in Int
    <3>1. GoodStack(Below(1)) /\ TopNumber(stack) \in Int
      BY <1>0, <1>6, BelowGood DEF Emit
    <3>2. 2 * MaxInt + 2 \in Nat \ {0} /\ MaxInt \in Int
      BY WidthAssumption
    <3> QED
      BY <3>1, <3>2 DEF ToInt
  <2> QED
    BY <1>6, <2>1, UndefGood, KeepWords DEF Emit, Inv, RunInv
<1>7. CASE Show
  BY <1>0, <1>7, SetStackInv DEF Show
<1>8. CASE Underflow
  BY <1>8, FailInv DEF Underflow, Statuses
<1> QED
  BY <1>1, <1>2, <1>3, <1>4, <1>5, <1>6, <1>7, <1>8 DEF Pure

\* An iterator moves within its list, which is a ring.
LEMMA AdvanceInside ==
  ASSUME NEW d, Len(d) \in Nat, NEW i \in Int, NEW n \in Int
  PROVE  Advance(d, i, n) \in 0 .. Len(d)
BY DEF Advance

LEMMA MoveByKeeps ==
  ASSUME Inv, frames # <<>>, NEW n \in Int, NEW s, GoodStack(s), MoveBy(n, s)
  PROVE  Inv'
<1>1. Frame0.pc - 1 \in Int /\ Len(Body) \in Nat
  BY Frame0Valid
<1>2. Advance(Body, Frame0.pc - 1, n) + 1 \in 1 .. Len(Body) + 1
  BY <1>1, AdvanceInside
<1> QED
  BY <1>2, MoveToInv DEF MoveBy

LEMMA JumpKeeps == ASSUME Inv, NEW s, GoodStack(s), Jump(s) PROVE Inv'
<1>1. CASE ~HasOperand \/ ~IsNumber(Operand)
  BY <1>1, FailInv DEF Jump, Statuses
<1>2. CASE HasOperand /\ IsNumber(Operand)
  <2>1. Operand.n \in Int
    BY <1>2, OperandGood DEF Good, IsNumber, Cell, NumCell, WordCell, PrimCell,
                             LocalCell, UndefCell
  <2> QED
    BY <1>2, <2>1, OperandGood, MoveByKeeps DEF Jump
<1> QED
  BY <1>1, <1>2

LEMMA ControlKeeps == ASSUME Inv, Control PROVE Inv'
<1>0. GoodStack(stack)
  BY DEF Inv, RunInv
<1>1. CASE Branch
  BY <1>0, <1>1, JumpKeeps DEF Branch
<1>2. CASE BranchIf
  <2>1. GoodStack(Below(1))
    BY <1>0, <1>2, BelowGood DEF BranchIf
  <2>2. ASSUME SkipOperand(Below(1)) PROVE Inv'
    <3>1. CASE frames = <<>>
      BY <2>1, <2>2, <3>1, SetStackInv DEF SkipOperand
    <3>2. CASE frames # <<>>
      BY <2>1, <2>2, <3>2, MoveByKeeps DEF SkipOperand
    <3> QED
      BY <3>1, <3>2
  <2> QED
    BY <1>2, <2>1, <2>2, JumpKeeps DEF BranchIf
<1>3. CASE Literal
  <2>1. CASE ~HasOperand
    BY <1>3, <2>1, FailInv DEF Literal, Statuses
  <2>2. CASE HasOperand
    BY <1>0, <1>3, <2>2, OperandGood, PushGood, MoveToInv DEF Literal
  <2> QED
    BY <2>1, <2>2
<1> QED
  BY <1>1, <1>2, <1>3 DEF Control

-----------------------------------------------------------------------------
(***************************************************************************)
(* Steps that change the words.                                            *)
(***************************************************************************)
\* The last entry of the dictionary, when it is a word, is the newest word.
LEMMA LatestValid ==
  ASSUME Inv, LatestIsWord
  PROVE  Latest = Len(header) /\ Latest \in 1 .. Len(header) /\ Len(header) \in Nat
<1> DEFINE n == Len(dictionary)
<1>1. /\ dictionary \in Seq(NumCell \cup WordCell)
      /\ n \in Nat \ {0}
      /\ Last(dictionary) = dictionary[n]
      /\ DOMAIN dictionary = 1 .. n
  BY FrontLast, LenProperties DEF Inv, WordsInv, WordsTyped
<1>2. /\ Len(header) \in Nat
      /\ DOMAIN header = 1 .. Len(header)
  BY LenProperties DEF Inv, WordsInv, WordsTyped
<1>3. IsWord(dictionary[n]) /\ dictionary[n].w \in 1 .. Len(header)
  BY <1>1, <1>2 DEF LatestIsWord, Inv, WordsInv, DictionaryComplete
<1>4. PICK i \in 1 .. n : dictionary[i] = WordXt(Len(header))
  BY <1>1, <1>2, <1>3 DEF Inv, WordsInv, DictionaryComplete
<1>5. IsWord(dictionary[i]) /\ dictionary[i].w = Len(header)
  BY <1>4 DEF WordXt, IsWord
<1>6. i < n => dictionary[i].w < dictionary[n].w
  BY <1>1, <1>3, <1>5 DEF Inv, WordsInv, DictionaryComplete
<1>7. i = n
  <2>1. i < n => Len(header) < dictionary[n].w
    BY <1>5, <1>6
  <2> HIDE DEF n
  <2> QED
    BY <1>1, <1>2, <1>3, <2>1
<1> QED
  BY <1>1, <1>2, <1>3, <1>5, <1>7 DEF Latest

LEMMA ResolvesStays ==
  ASSUME Inv, WordsTyped', Grows, NEW c, Resolves(c)
  PROVE  Resolves(c)'
<1>1. /\ DOMAIN header = 1 .. Len(header)
      /\ DOMAIN header' = 1 .. Len(header')
      /\ Len(header) \in Nat
      /\ Len(header') \in Nat
  BY LenProperties DEF Inv, WordsInv, WordsTyped
<1>2. c.kind = "word" => c.w \in DOMAIN header'
  BY <1>1 DEF Resolves, Grows
<1>3. IsLocal(c) => c.w \in DOMAIN header' /\ c.x \in DOMAIN locals'[c.w]
  BY <1>1 DEF Resolves, Grows
<1> QED
  BY <1>2, <1>3 DEF Resolves

\* What an execution refers to survives a step that lets the words grow.
LEMMA RunStays ==
  ASSUME Inv, WordsInv', Grows, source' = source,
         pos' \in 1 .. Len(source) + 1, heap' = heap,
         GoodStack(stack'), immediate' \in BOOLEAN, FramesInv(frames'),
         Good(xt'), ~IsNumber(xt'), out' = out, status' \in Statuses
  PROVE  Inv'
<1>1. WordsTyped'
  BY DEF WordsInv
<1>2. GoodStack(stack)' /\ Good(xt)'
  BY <1>1, ResolvesStays DEF GoodStack, Good
<1>3. FramesInv(frames)'
  <2>1. ASSUME NEW k \in 1 .. Len(frames')
        PROVE  /\ frames'[k].w \in 1 .. Len(header')
               /\ frames'[k].pc \in 1 .. Len(def'[frames'[k].w]) + 1
    <3>1. /\ frames'[k].w \in 1 .. Len(header)
          /\ frames'[k].pc \in 1 .. Len(def[frames'[k].w]) + 1
      BY DEF FramesInv
    <3>2. Len(header) \in Nat /\ Len(header') \in Nat
      BY <1>1, LenProperties DEF Inv, WordsInv, WordsTyped
    <3>3. frames'[k].w \in 1 .. Len(header')
      BY <3>1, <3>2 DEF Grows
    <3>4. def[frames'[k].w] \in Seq(Cell) /\ def'[frames'[k].w] \in Seq(Cell)
      BY <1>1, <3>1, <3>3, ElementOfSeq DEF Inv, WordsInv, WordsTyped
    <3>5. /\ Len(def[frames'[k].w]) \in Nat
          /\ Len(def'[frames'[k].w]) \in Nat
          /\ Len(def[frames'[k].w]) <= Len(def'[frames'[k].w])
      BY <3>1, <3>4, LenProperties DEF Grows
    <3> DEFINE p == frames'[k].pc
               a == Len(def[frames'[k].w])
               b == Len(def'[frames'[k].w])
    <3>6. p \in 1 .. a + 1 /\ a \in Nat /\ b \in Nat /\ a <= b
      BY ONLY <3>1, <3>5
    <3>7. p \in 1 .. b + 1
      <4> HIDE DEF p, a, b
      <4> QED
        BY ONLY <3>6
    <3> QED
      BY ONLY <3>3, <3>7
  <2> QED
    BY <2>1 DEF FramesInv
<1>4. RunInv'
  BY <1>2, <1>3 DEF Inv, RunInv
<1> QED
  BY <1>4 DEF Inv

LEMMA DefinitionGood ==
  ASSUME Inv, NEW w \in 1 .. Len(header)
  PROVE  GoodStack(def[w]) /\ Len(def[w]) \in Nat
<1>1. def[w] \in Seq(Cell)
  BY ElementOfSeq DEF Inv, WordsInv, WordsTyped
<1> QED
  BY <1>1, LenProperties DEF GoodStack, Inv, WordsInv, WordsResolve

\* One definition is replaced by a longer one.
LEMMA Redefine ==
  ASSUME Inv, NEW w \in 1 .. Len(header), NEW d, GoodStack(d),
         Len(def[w]) <= Len(d), def' = [def EXCEPT ![w] = d],
         UNCHANGED <<dictionary, header, locals>>
  PROVE  WordsInv' /\ Grows
<1>1. /\ def' \in Seq(Seq(Cell))
      /\ Len(def') = Len(def)
      /\ \A v \in 1 .. Len(header) : def'[v] = IF v = w THEN d ELSE def[v]
  BY ExceptSeq DEF Inv, WordsInv, WordsTyped, GoodStack
<1>2. WordsTyped'
  BY <1>1 DEF Inv, WordsInv, WordsTyped
<1>3. Grows
  <2>1. \A v \in 1 .. Len(header) : Len(def[v]) <= Len(def'[v])
    BY <1>1, DefinitionGood
  <2>2. Len(header) \in Nat
    BY LenProperties DEF Inv, WordsInv, WordsTyped
  <2> QED
    BY <2>1, <2>2 DEF Grows
<1>4. DictionaryComplete'
  BY DEF Inv, WordsInv, DictionaryComplete
<1>5. ASSUME NEW v \in 1 .. Len(header), NEW i \in 1 .. Len(def'[v])
      PROVE  Resolves(def'[v][i])
  <2>1. CASE v = w
    BY <1>1, <2>1 DEF GoodStack
  <2>2. CASE v # w
    BY <1>1, <2>2 DEF Inv, WordsInv, WordsResolve
  <2> QED
    BY <2>1, <2>2
<1>6. /\ \A v \in 1 .. Len(header') : \A i \in 1 .. Len(def'[v]) : Resolves(def'[v][i])
      /\ \A v \in 1 .. Len(header') : \A x \in DOMAIN locals'[v] :
            Resolves(locals'[v][x])
  BY <1>5 DEF Inv, WordsInv, WordsResolve
<1>7. WordsResolve'
  BY <1>6 DEF WordsResolve, Resolves
<1> QED
  BY <1>2, <1>3, <1>4, <1>7 DEF WordsInv

LEMMA CompileGrows ==
  ASSUME Inv, LatestIsWord, NEW cs, GoodStack(cs), Compile(cs),
         UNCHANGED <<dictionary, header, locals>>
  PROVE  WordsInv' /\ Grows
<1> DEFINE d == def[Latest] \o cs
<1>1. Latest \in 1 .. Len(header)
  BY LatestValid
<1>2. GoodStack(def[Latest]) /\ Len(def[Latest]) \in Nat
  BY <1>1, DefinitionGood
<1>3. GoodStack(d) /\ Len(d) = Len(def[Latest]) + Len(cs) /\ Len(cs) \in Nat
  BY <1>2, ConcatGood, ConcatProperties, LenProperties DEF GoodStack
<1>4. def' = [def EXCEPT ![Latest] = d]
  BY DEF Compile
<1>5. Len(def[Latest]) <= Len(d)
  BY <1>2, <1>3
<1> QED
  <2> HIDE DEF d
  <2>1. GoodStack(d)
    BY <1>3
  <2> QED
    BY <1>1, <1>4, <1>5, <2>1, Redefine

\* The locals of one word are replaced by as many or more.
LEMMA Rebind ==
  ASSUME Inv, NEW w \in 1 .. Len(header), NEW f \in LocalsMap,
         DOMAIN locals[w] \subseteq DOMAIN f, \A x \in DOMAIN f : Resolves(f[x]),
         locals' = [locals EXCEPT ![w] = f],
         UNCHANGED <<dictionary, header, def>>
  PROVE  WordsInv' /\ Grows
<1>1. /\ locals' \in Seq(LocalsMap)
      /\ Len(locals') = Len(locals)
      /\ \A v \in 1 .. Len(header) : locals'[v] = IF v = w THEN f ELSE locals[v]
  BY ExceptSeq DEF Inv, WordsInv, WordsTyped
<1>2. WordsTyped'
  BY <1>1 DEF Inv, WordsInv, WordsTyped
<1>3. Grows
  <2>1. \A v \in 1 .. Len(header) : Len(def[v]) <= Len(def'[v])
    BY DefinitionGood
  <2>2. Len(header) \in Nat
    BY LenProperties DEF Inv, WordsInv, WordsTyped
  <2> QED
    BY <1>1, <2>1, <2>2 DEF Grows
<1>4. DictionaryComplete'
  BY DEF Inv, WordsInv, DictionaryComplete
<1>5. \A c : Resolves(c) => Resolves(c)'
  BY <1>2, <1>3, ResolvesStays
<1>6. WordsResolve'
  BY <1>1, <1>5 DEF Inv, WordsInv, WordsResolve
<1> QED
  BY <1>2, <1>3, <1>4, <1>6 DEF WordsInv

\* A binding added to the locals of a word.
LEMMA BindMap ==
  ASSUME NEW f \in LocalsMap, NEW x \in Name, NEW v \in Cell
  PROVE  /\ Bind(f, x, v) \in LocalsMap
         /\ DOMAIN Bind(f, x, v) = DOMAIN f \cup {x}
         /\ \A y \in DOMAIN f : Bind(f, x, v)[y] = f[y]
         /\ x \notin DOMAIN f => Bind(f, x, v)[x] = v
<1>1. PICK S \in SUBSET Name : f \in [S -> Cell]
  BY DEF LocalsMap
<1>2. DOMAIN f = S /\ \A y \in S : f[y] \in Cell
  BY <1>1
<1>3. Bind(f, x, v) \in [S \cup {x} -> Cell]
  BY <1>2 DEF Bind
<1>4. S \cup {x} \in SUBSET Name
  OBVIOUS
<1> QED
  BY <1>2, <1>3, <1>4 DEF LocalsMap, Bind

LEMMA NoLocals == <<>> \in LocalsMap /\ DOMAIN <<>> = {}
<1>1. DOMAIN <<>> = {}
  OBVIOUS
<1>2. <<>> \in [{} -> Cell]
  OBVIOUS
<1> QED
  BY <1>1, <1>2 DEF LocalsMap

LEMMA LocalsGood ==
  ASSUME Inv, NEW w \in 1 .. Len(header)
  PROVE  /\ locals[w] \in LocalsMap
         /\ \A x \in DOMAIN locals[w] : Good(locals[w][x])
<1>1. locals[w] \in LocalsMap
  BY ElementOfSeq DEF Inv, WordsInv, WordsTyped
<1>2. \A x \in DOMAIN locals[w] : locals[w][x] \in Cell
  BY <1>1 DEF LocalsMap
<1> QED
  BY <1>1, <1>2 DEF Good, Inv, WordsInv, WordsResolve
-----------------------------------------------------------------------------
(***************************************************************************)
(* The actions that change the words.                                      *)
(***************************************************************************)
LEMMA CompileCellsInv ==
  ASSUME Inv, LatestIsWord, NEW cs, GoodStack(cs), CompileCells(cs),
         pos' \in 1 .. Len(source) + 1
  PROVE  Inv'
<1>1. WordsInv' /\ Grows
  BY CompileGrows DEF CompileCells
<1> QED
  BY <1>1, RunStays DEF CompileCells, Inv, RunInv

LEMMA CompileKeeps ==
  ASSUME Inv, CompileWord \/ CompileLocal \/ CompileNumber
  PROVE  Inv'
<1>0. pos' \in 1 .. Len(source) + 1
  BY PosValid DEF CompileWord, CompileLocal, CompileNumber
<1>1. CASE CompileWord
  <2>1. GoodStack(<<Find(NextToken)>>)
    BY FindGood, SmallStacks
  <2> QED
    BY <1>0, <1>1, <2>1, CompileCellsInv DEF CompileWord
<1>2. CASE CompileLocal
  <2>1. LatestIsWord /\ NextToken \in DOMAIN locals[Latest]
    BY <1>2 DEF CompileLocal, TokenIsLocal
  <2>2. /\ Latest \in 1 .. Len(header)
        /\ 1 .. Len(header) = DOMAIN header
        /\ NextToken \in Name
    BY <2>1, LatestValid, PosValid, LenProperties DEF Inv, WordsInv, WordsTyped
  <2>3. Good(FromLocal(Latest, NextToken))
    <3>1. FromLocal(Latest, NextToken) \in Cell
      BY <2>2 DEF FromLocal, Cell, LocalCell
    <3>2. Resolves(FromLocal(Latest, NextToken))
      BY <2>1, <2>2 DEF FromLocal, Resolves, IsLocal
    <3> QED
      BY <3>1, <3>2 DEF Good
  <2> QED
    BY <1>0, <1>2, <2>1, <2>3, SmallStacks, CompileCellsInv DEF CompileLocal
<1>3. CASE CompileNumber
  <2>1. NumberOf[NextToken] \in Int
    BY <1>3, NumberAssumption, WidthAssumption DEF CompileNumber, TokenIsNumber
  <2>2. GoodStack(<<Find("literal"), Num(NumberOf[NextToken])>>)
    BY <2>1, FindGood, NumGood, SmallStacks
  <2> QED
    BY <1>0, <1>3, <2>2, CompileCellsInv DEF CompileNumber
<1> QED
  BY <1>1, <1>2, <1>3

LEMMA CommaKeeps == ASSUME Inv, Comma PROVE Inv'
<1>0. GoodStack(stack) /\ Good(Top(stack)) /\ GoodStack(Popped(stack))
  BY PopAnyGood DEF Inv, RunInv
<1>1. CASE LatestIsWord
  <2>1. WordsInv' /\ Grows
    BY <1>0, <1>1, SmallStacks, CompileGrows DEF Comma
  <2>2. Good(xt') /\ ~IsNumber(xt') /\ GoodStack(stack')
    BY <1>0, <1>1, UndefGood DEF Comma
  <2> QED
    BY <1>1, <2>1, <2>2, RunStays DEF Comma, Inv, RunInv
<1>2. CASE ~LatestIsWord
  BY <1>0, <1>2, FailInv, SetStackInv DEF Comma, Statuses
<1> QED
  BY <1>1, <1>2

LEMMA PatchKeeps == ASSUME Inv, PatchDefinition PROVE Inv'
<1>0. GoodStack(stack)
  BY DEF Inv, RunInv
<1>1. CASE ~LatestIsWord
  BY <1>0, <1>1, SetStackInv DEF PatchDefinition, Patch
<1> DEFINE k == Advance(def[Latest], 1, TopNumber(stack))
<1>2. CASE LatestIsWord /\ k = 0
  BY <1>2, FailInv DEF PatchDefinition, Patch, Statuses
<1>3. CASE LatestIsWord /\ k # 0
  <2> DEFINE c == Top(Below(1))
             d == [def[Latest] EXCEPT ![k] = c]
  <2>1. GoodStack(Below(1)) /\ Good(c) /\ GoodStack(Popped(Below(1)))
    BY <1>0, <1>3, BelowGood, PopAnyGood DEF PatchDefinition, Patch
  <2>2. Latest \in 1 .. Len(header)
    BY <1>3, LatestValid
  <2>3. GoodStack(def[Latest])
    BY <2>2, DefinitionGood
  <2>4. k \in 1 .. Len(def[Latest])
    <3>1. TopNumber(stack) \in Int /\ Len(def[Latest]) \in Nat
      BY <1>0, <1>3, <2>2, BelowGood, DefinitionGood DEF PatchDefinition, Patch
    <3>2. k \in 0 .. Len(def[Latest])
      BY <3>1, AdvanceInside
    <3> QED
      BY <1>3, <3>1, <3>2
  <2>5. /\ d \in Seq(Cell)
        /\ Len(d) = Len(def[Latest])
        /\ \A i \in 1 .. Len(d) : d[i] = IF i = k THEN c ELSE def[Latest][i]
    <3> HIDE DEF k, c
    <3> QED
      BY <2>1, <2>3, <2>4, ExceptSeq DEF GoodStack, Good
  <2>6. GoodStack(d) /\ Len(def[Latest]) <= Len(d)
    <3>1. Len(def[Latest]) \in Nat
      BY <2>2, DefinitionGood
    <3> HIDE DEF k, c, d
    <3> QED
      BY <2>1, <2>3, <2>5, <3>1 DEF GoodStack, Good
  <2>7. def' = [def EXCEPT ![Latest] = d] /\ UNCHANGED <<dictionary, header, locals>>
    BY <1>3 DEF PatchDefinition, Patch
  <2>8. WordsInv' /\ Grows
    <3> HIDE DEF d, k
    <3> QED
      BY <2>2, <2>6, <2>7, Redefine
  <2>9. Good(xt') /\ ~IsNumber(xt') /\ GoodStack(stack')
    BY <1>3, <2>1, UndefGood DEF PatchDefinition, Patch
  <2> QED
    BY <1>3, <2>8, <2>9, RunStays DEF PatchDefinition, Patch, Inv, RunInv
<1> QED
  BY <1>1, <1>2, <1>3

\* Only the dictionary list changes, by numbers.
LEMMA ListGrows ==
  ASSUME Inv, UNCHANGED <<header, def, locals>>, DictionaryComplete',
         dictionary' \in Seq(NumCell \cup WordCell), dictionary' # <<>>
  PROVE  WordsInv' /\ Grows
<1>1. WordsTyped'
  BY DEF Inv, WordsInv, WordsTyped
<1>2. WordsResolve'
  BY DEF Inv, WordsInv, WordsResolve, Resolves
<1>3. Grows
  <2>1. \A v \in 1 .. Len(header) : Len(def[v]) <= Len(def'[v])
    BY DefinitionGood
  <2>2. Len(header) \in Nat
    BY LenProperties DEF Inv, WordsInv, WordsTyped
  <2> QED
    BY <2>1, <2>2 DEF Grows
<1> QED
  BY <1>1, <1>2, <1>3 DEF WordsInv

LEMMA ZerosAdded ==
  ASSUME Inv, UNCHANGED header, NEW z \in Seq(NumCell),
         dictionary' = dictionary \o z
  PROVE  /\ DictionaryComplete'
         /\ dictionary' \in Seq(NumCell \cup WordCell)
         /\ dictionary' # <<>>
<1> DEFINE n == Len(dictionary)
<1>1. /\ dictionary \in Seq(NumCell \cup WordCell)
      /\ n \in Nat \ {0} /\ Len(z) \in Nat
      /\ DOMAIN dictionary = 1 .. n
      /\ z \in Seq(NumCell \cup WordCell)
  BY FrontLast, LenProperties DEF Inv, WordsInv, WordsTyped
<1>2. /\ dictionary' \in Seq(NumCell \cup WordCell)
      /\ Len(dictionary') = n + Len(z)
      /\ DOMAIN dictionary' = 1 .. n + Len(z)
      /\ \A i \in 1 .. n + Len(z) : dictionary'[i] =
                     IF i <= n THEN dictionary[i] ELSE z[i - n]
  BY <1>1, ConcatProperties, LenProperties
<1>3. \A i \in 1 .. n + Len(z) : IsWord(dictionary'[i]) =>
          i \in 1 .. n /\ dictionary'[i] = dictionary[i]
  <2> SUFFICES ASSUME NEW i \in 1 .. n + Len(z), ~(i <= n)
               PROVE  ~IsWord(dictionary'[i])
    BY <1>1, <1>2
  <2>1. i - n \in 1 .. Len(z) /\ dictionary'[i] = z[i - n]
    BY <1>1, <1>2
  <2>2. z[i - n] \in NumCell
    BY <2>1, ElementOfSeq
  <2> QED
    BY <2>1, <2>2 DEF NumCell, IsWord
<1>4. \A i \in 1 .. n : i \in 1 .. n + Len(z) /\ dictionary'[i] = dictionary[i]
  BY <1>1, <1>2
<1>5. DictionaryComplete'
  <2> HIDE DEF n
  <2> QED
    BY <1>1, <1>2, <1>3, <1>4 DEF Inv, WordsInv, DictionaryComplete
<1>6. dictionary' # <<>>
  BY <1>1, <1>2
<1> QED
  BY <1>2, <1>5, <1>6

LEMMA Zeros == ASSUME NEW n \in Nat PROVE [i \in 1 .. n |-> Num(0)] \in Seq(NumCell)
<1>1. Num(0) \in NumCell
  BY DEF Num, NumCell
<1> QED
  BY <1>1, SeqDef

LEMMA AllotKeeps == ASSUME Inv, Allot PROVE Inv'
<1>0. /\ GoodStack(Below(1)) /\ TopNumber(stack) \in Int
      /\ UNCHANGED <<header, def, locals>>
  BY BelowGood DEF Allot, Inv, RunInv
<1>1. ASSUME DictionaryComplete', dictionary' \in Seq(NumCell \cup WordCell),
             dictionary' # <<>>
      PROVE  Inv'
  <2>1. WordsInv' /\ Grows
    BY <1>0, <1>1, ListGrows
  <2>2. Good(xt') /\ ~IsNumber(xt') /\ GoodStack(stack')
    BY <1>0, UndefGood DEF Allot
  <2> QED
    BY <2>1, <2>2, RunStays DEF Allot, Inv, RunInv
<1>2. CASE TopNumber(stack) >= 0
  <2>1. dictionary' = dictionary \o [i \in 1 .. TopNumber(stack) |-> Num(0)]
    BY <1>0, <1>2 DEF Allot
  <2>2. [i \in 1 .. TopNumber(stack) |-> Num(0)] \in Seq(NumCell)
    <3>1. TopNumber(stack) \in Nat
      BY <1>0, <1>2
    <3> QED
      BY <3>1, Zeros
  <2>3. /\ DictionaryComplete'
        /\ dictionary' \in Seq(NumCell \cup WordCell)
        /\ dictionary' # <<>>
    BY <1>0, <2>1, <2>2, ZerosAdded
  <2> QED
    BY <1>1, <2>3
<1>3. CASE TopNumber(stack) < 0
  <2>1. PICK k \in DOMAIN dictionary :
          /\ IsWord(dictionary[k])
          /\ \A j \in k + 1 .. Len(dictionary) : IsNumber(dictionary[j])
          /\ dictionary' = SubSeq(dictionary, 1, k)
    BY <1>0, <1>3 DEF Allot
  <2>2. /\ dictionary \in Seq(NumCell \cup WordCell)
        /\ Len(dictionary) \in Nat
        /\ DOMAIN dictionary = 1 .. Len(dictionary)
    BY LenProperties DEF Inv, WordsInv, WordsTyped
  <2>3. k \in 1 .. Len(dictionary) /\ k \in 0 .. Len(dictionary)
    BY <2>2
  <2>4. /\ dictionary' \in Seq(NumCell \cup WordCell)
        /\ Len(dictionary') = k
        /\ DOMAIN dictionary' = 1 .. k
        /\ \A i \in 1 .. k : i \in DOMAIN dictionary /\ dictionary'[i] = dictionary[i]
    BY <2>1, <2>2, <2>3, Prefix, LenProperties
  <2>5. \A i \in DOMAIN dictionary : IsWord(dictionary[i]) => i \in 1 .. k
    BY <2>1, <2>2, <2>3 DEF IsWord, IsNumber
  <2>6. \A w : IsWord(WordXt(w))
    BY DEF WordXt, IsWord
  <2>7. DictionaryComplete'
    <3>1. \A w \in DOMAIN header : \E i \in DOMAIN dictionary' :
             dictionary'[i] = WordXt(w)
      BY <2>4, <2>5, <2>6 DEF Inv, WordsInv, DictionaryComplete
    <3> QED
      BY <1>0, <2>4, <3>1 DEF Inv, WordsInv, DictionaryComplete
  <2>8. dictionary' # <<>>
    BY <2>3, <2>4
  <2> QED
    BY <1>1, <2>4, <2>7, <2>8
<1> QED
  BY <1>0, <1>2, <1>3

LEMMA HereKeeps == ASSUME Inv, Here PROVE Inv'
<1>0. GoodStack(stack)
  BY DEF Inv, RunInv
<1>1. GoodStack(stack')
  <2>1. CASE immediate \/ ~LatestIsWord
    BY <1>0, <2>1 DEF Here
  <2>2. CASE ~(immediate \/ ~LatestIsWord)
    <3>1. Len(def[Latest]) \in Int
      BY <2>2, LatestValid, DefinitionGood
    <3> QED
      BY <1>0, <2>2, <3>1, NumGood, PushGood DEF Here
  <2> QED
    BY <2>1, <2>2
<1>2. /\ DictionaryComplete'
      /\ dictionary' \in Seq(NumCell \cup WordCell)
      /\ dictionary' # <<>>
  <2>1. CASE immediate
    <3>1. <<Num(0)>> \in Seq(NumCell)
      BY DEF Num, NumCell
    <3>2. dictionary' = dictionary \o <<Num(0)>>
      <4>1. dictionary' = Append(dictionary, Num(0))
        BY <2>1 DEF Here
      <4> QED
        BY <4>1, AppendIsConcat DEF Inv, WordsInv, WordsTyped, Num, NumCell
    <3> QED
      BY <3>1, <3>2, ZerosAdded DEF Here
  <2>2. CASE ~immediate
    BY <2>2 DEF Here, Inv, WordsInv, WordsTyped, DictionaryComplete
  <2> QED
    BY <2>1, <2>2
<1>3. WordsInv' /\ Grows
  BY <1>2, ListGrows DEF Here
<1>4. Good(xt') /\ ~IsNumber(xt')
  BY UndefGood DEF Here
<1> QED
  BY <1>1, <1>3, <1>4, RunStays DEF Here, Inv, RunInv

LEMMA MarkKeeps == ASSUME Inv, MarkImmediate PROVE Inv'
<1>1. /\ header' \in Seq([name : Name, immediate : BOOLEAN])
      /\ Len(header') = Len(header)
      /\ DOMAIN header' = DOMAIN header
  <2>1. CASE ~LatestIsWord
    BY <2>1 DEF MarkImmediate, Inv, WordsInv, WordsTyped
  <2>2. CASE LatestIsWord
    <3> DEFINE h == [header[Latest] EXCEPT !.immediate = TRUE]
    <3>1. Latest \in 1 .. Len(header)
      BY <2>2, LatestValid
    <3>2. header[Latest] \in [name : Name, immediate : BOOLEAN]
      BY <3>1, ElementOfSeq DEF Inv, WordsInv, WordsTyped
    <3>3. h \in [name : Name, immediate : BOOLEAN]
      BY <3>2
    <3>4. header' = [header EXCEPT ![Latest] = h]
      BY <2>2 DEF MarkImmediate
    <3> HIDE DEF h
    <3> QED
      BY <3>1, <3>3, <3>4, ExceptSeq, LenProperties DEF Inv, WordsInv, WordsTyped
  <2> QED
    BY <2>1, <2>2
<1>2. UNCHANGED <<dictionary, def, locals>>
  BY DEF MarkImmediate
<1>3. WordsInv'
  <2>1. WordsTyped'
    BY <1>1, <1>2 DEF Inv, WordsInv, WordsTyped
  <2>2. DictionaryComplete'
    BY <1>1, <1>2 DEF Inv, WordsInv, DictionaryComplete
  <2>3. WordsResolve'
    BY <1>1, <1>2 DEF Inv, WordsInv, WordsResolve, Resolves
  <2> QED
    BY <2>1, <2>2, <2>3 DEF WordsInv
<1>4. Grows
  <2>1. \A v \in 1 .. Len(header) : Len(def[v]) <= Len(def'[v])
    BY <1>2, DefinitionGood
  <2>2. Len(header) \in Nat
    BY LenProperties DEF Inv, WordsInv, WordsTyped
  <2> QED
    BY <1>1, <1>2, <2>1, <2>2 DEF Grows
<1>5. Good(xt') /\ ~IsNumber(xt')
  BY UndefGood DEF MarkImmediate
<1> QED
  BY <1>3, <1>4, <1>5, RunStays DEF MarkImmediate, Inv, RunInv

\* A word is added: every earlier word keeps its definition and its locals.
LEMMA CreateKeeps == ASSUME Inv, Create PROVE Inv'
<1> DEFINE n == Len(header)
           h == [name |-> NextToken, immediate |-> FALSE]
<1>0. /\ WordsTyped
      /\ n \in Nat
      /\ NextToken \in Name
      /\ pos' \in 1 .. Len(source) + 1
  BY PosValid, LenProperties DEF Inv, WordsInv, WordsTyped, Create
<1>1. /\ header' \in Seq([name : Name, immediate : BOOLEAN])
      /\ Len(header') = n + 1
      /\ DOMAIN header' = 1 .. n + 1
      /\ DOMAIN header = 1 .. n
  <2>1. h \in [name : Name, immediate : BOOLEAN]
    BY <1>0
  <2> HIDE DEF h
  <2>2. header' = Append(header, h)
    BY DEF Create, h
  <2> QED
    BY <1>0, <2>1, <2>2, AppendProperties, LenProperties DEF WordsTyped
<1>2. /\ def' \in Seq(Seq(Cell))
      /\ Len(def') = n + 1
      /\ \A v \in 1 .. n : def'[v] = def[v]
      /\ def'[n + 1] = <<>>
  <2>1. <<>> \in Seq(Cell)
    OBVIOUS
  <2> QED
    BY <1>0, <2>1, AppendProperties DEF WordsTyped, Create
<1>3. /\ locals' \in Seq(LocalsMap)
      /\ Len(locals') = n + 1
      /\ \A v \in 1 .. n : locals'[v] = locals[v]
      /\ DOMAIN locals'[n + 1] = {}
  <2>1. <<>> \in LocalsMap /\ DOMAIN <<>> = {}
    BY NoLocals
  <2> QED
    BY <1>0, <2>1, AppendProperties DEF WordsTyped, Create
<1>4. /\ dictionary' \in Seq(NumCell \cup WordCell)
      /\ dictionary' # <<>>
      /\ Len(dictionary) \in Nat
      /\ DOMAIN dictionary = 1 .. Len(dictionary)
      /\ DOMAIN dictionary' = 1 .. Len(dictionary) + 1
      /\ \A i \in 1 .. Len(dictionary) : dictionary'[i] = dictionary[i]
      /\ dictionary'[Len(dictionary) + 1] = WordXt(n + 1)
  <2> DEFINE T == NumCell \cup WordCell
             e == WordXt(n + 1)
  <2>1. e \in T
    BY <1>0 DEF WordXt, WordCell
  <2>2. dictionary \in Seq(T) /\ dictionary' = Append(dictionary, e)
    BY <1>0 DEF WordsTyped, Create
  <2>3. dictionary' # <<>>
    <3> HIDE DEF T, e
    <3> QED
      BY <2>1, <2>2, AppendProperties
  <2>4. Len(dictionary) \in Nat /\ DOMAIN dictionary = 1 .. Len(dictionary)
    <3> HIDE DEF T, e
    <3> QED
      BY <2>2, LenProperties
  <2>5. /\ dictionary' \in Seq(T)
        /\ DOMAIN dictionary' = 1 .. Len(dictionary) + 1
        /\ \A i \in 1 .. Len(dictionary) : dictionary'[i] = dictionary[i]
        /\ dictionary'[Len(dictionary) + 1] = e
    <3> HIDE DEF T, e
    <3> QED
      BY <2>1, <2>2, <2>4, AppendProperties, LenProperties
  <2> QED
    BY <2>3, <2>4, <2>5
<1>5. WordsTyped'
  BY <1>1, <1>2, <1>3, <1>4 DEF WordsTyped
<1>6. DictionaryComplete'
  <2> HIDE DEF n
  <2>0. DictionaryComplete
    BY DEF Inv, WordsInv
  <2>1. IsWord(WordXt(n + 1)) /\ WordXt(n + 1).w = n + 1
    BY DEF WordXt, IsWord
  <2>2. \A w \in 1 .. n + 1 : \E i \in DOMAIN dictionary' : dictionary'[i] = WordXt(w)
    <3> SUFFICES ASSUME NEW w \in 1 .. n + 1
                 PROVE  \E i \in DOMAIN dictionary' : dictionary'[i] = WordXt(w)
      OBVIOUS
    <3>1. CASE w = n + 1
      <4>1. Len(dictionary) + 1 \in DOMAIN dictionary'
        BY <1>4
      <4> QED
        BY <1>4, <3>1, <4>1, Zenon
    <3>2. CASE w \in 1 .. n
      <4>1. PICK i \in DOMAIN dictionary : dictionary[i] = WordXt(w)
        BY <1>1, <2>0, <3>2, Zenon DEF DictionaryComplete
      <4>2. i \in DOMAIN dictionary' /\ dictionary'[i] = dictionary[i]
        BY <1>4, <4>1
      <4> QED
        BY <4>1, <4>2, Zenon
    <3> QED
      BY <1>0, <3>1, <3>2
  <2>3. \A i \in DOMAIN dictionary' :
          IsWord(dictionary'[i]) => dictionary'[i].w \in 1 .. n + 1
    <3> SUFFICES ASSUME NEW i \in DOMAIN dictionary', IsWord(dictionary'[i])
                 PROVE  dictionary'[i].w \in 1 .. n + 1
      OBVIOUS
    <3>1. CASE i = Len(dictionary) + 1
      BY <1>0, <1>4, <2>1, <3>1
    <3>2. CASE i \in DOMAIN dictionary
      <4>1. dictionary'[i] = dictionary[i]
        BY <1>4, <3>2
      <4>2. dictionary'[i].w \in 1 .. n
        BY <1>1, <2>0, <3>2, <4>1, Zenon DEF DictionaryComplete
      <4> QED
        BY <1>0, <4>2
    <3> QED
      BY <1>4, <3>1, <3>2
  <2>4. \A i, j \in DOMAIN dictionary' :
          i < j /\ IsWord(dictionary'[i]) /\ IsWord(dictionary'[j]) =>
            dictionary'[i].w < dictionary'[j].w
    <3> SUFFICES ASSUME NEW i \in DOMAIN dictionary', NEW j \in DOMAIN dictionary',
                        i < j, IsWord(dictionary'[i]), IsWord(dictionary'[j])
                 PROVE  dictionary'[i].w < dictionary'[j].w
      OBVIOUS
    <3>1. i \in 1 .. Len(dictionary) /\ dictionary[i].w \in 1 .. n
      BY <1>0, <1>1, <1>4 DEF Inv, WordsInv, DictionaryComplete
    <3>2. CASE j = Len(dictionary) + 1
      BY <1>0, <1>4, <2>1, <3>1, <3>2
    <3>3. CASE j \in 1 .. Len(dictionary)
      BY <1>4, <3>1, <3>3 DEF Inv, WordsInv, DictionaryComplete
    <3> QED
      BY <1>4, <3>2, <3>3
  <2> QED
    BY <1>1, <2>2, <2>3, <2>4 DEF DictionaryComplete
<1>7. Grows
  <2>1. \A v \in 1 .. n : Len(def[v]) <= Len(def'[v])
    BY <1>2, DefinitionGood
  <2> QED
    BY <1>0, <1>1, <1>3, <2>1 DEF Grows
<1>8. WordsResolve'
  <2> HIDE DEF n
  <2>1. ASSUME NEW c, Resolves(c)
        PROVE  /\ c.kind = "word" => c.w \in DOMAIN header'
               /\ IsLocal(c) => c.w \in DOMAIN header' /\ c.x \in DOMAIN locals'[c.w]
    BY <1>0, <1>1, <1>3, <2>1 DEF Resolves
  <2>2. ASSUME NEW v \in 1 .. n + 1
        PROVE  /\ \A i \in 1 .. Len(def'[v]) : Resolves(def'[v][i])
               /\ \A x \in DOMAIN locals'[v] : Resolves(locals'[v][x])
    <3>1. CASE v = n + 1
      BY <1>2, <1>3, <3>1
    <3>2. CASE v \in 1 .. n
      BY <1>2, <1>3, <3>2 DEF n, Inv, WordsInv, WordsResolve
    <3> QED
      BY <1>0, <2>2, <3>1, <3>2
  <2> QED
    BY <1>1, <2>1, <2>2 DEF WordsResolve, Resolves
<1>9. Good(xt') /\ ~IsNumber(xt')
  BY UndefGood DEF Create
<1> QED
  BY <1>0, <1>5, <1>6, <1>7, <1>8, <1>9, RunStays DEF Create, WordsInv, Inv, RunInv

\* Starting a Forth word keeps the invariant: its locals are reset, not forgotten.
LEMMA CallKeeps == ASSUME Inv, CallWord PROVE Inv'
<1>0. xt.kind = "word" /\ Good(xt) /\ FramesInv(frames)
  BY DEF CallWord, Inv, RunInv
<1>1. CASE Len(frames) = MaxDepth
  BY <1>1, FailInv DEF CallWord, Statuses
<1>2. CASE Len(frames) # MaxDepth
  <2> DEFINE w == xt.w
             f == [x \in DOMAIN locals[w] |-> Undef]
             frame == [w |-> xt.w, pc |-> 1]
  <2>1. w \in 1 .. Len(header)
    BY <1>0, LenProperties DEF Good, Resolves, Inv, WordsInv, WordsTyped
  <2>2. /\ locals[w] \in LocalsMap
        /\ f \in LocalsMap
        /\ DOMAIN f = DOMAIN locals[w]
        /\ \A x \in DOMAIN f : Resolves(f[x])
    <3>1. locals[w] \in LocalsMap
      BY <2>1, LocalsGood
    <3>2. DOMAIN locals[w] \in SUBSET Name
      BY <3>1 DEF LocalsMap
    <3>3. Undef \in Cell /\ Resolves(Undef)
      BY UndefGood DEF Good
    <3> QED
      BY <3>1, <3>2, <3>3 DEF LocalsMap
  <2>3. locals' = [locals EXCEPT ![w] = f] /\ UNCHANGED <<dictionary, header, def>>
    BY <1>2 DEF CallWord
  <2>4. WordsInv' /\ Grows
    <3> HIDE DEF f, w
    <3> QED
      BY <2>1, <2>2, <2>3, Rebind
  <2>5. FramesInv(frames')
    <3>1. frame \in Frame /\ frame.w = w /\ frame.pc = 1
      BY <2>1, LenProperties DEF Frame, Inv, WordsInv, WordsTyped
    <3>2. /\ frames' = Append(frames, frame)
          /\ frames \in Seq(Frame)
          /\ Len(frames) \in Nat
          /\ Len(frames) <= MaxDepth
      BY <1>0, <1>2, LenProperties DEF FramesInv, CallWord
    <3> HIDE DEF frame
    <3>3. /\ frames' \in Seq(Frame)
          /\ Len(frames') = Len(frames) + 1
          /\ \A k \in 1 .. Len(frames) : frames'[k] = frames[k]
          /\ frames'[Len(frames) + 1] = frame
      BY <3>1, <3>2, AppendProperties
    <3>4. Len(frames') <= MaxDepth
      BY <1>2, <3>2, <3>3, BoundsAssumption
    <3>5. ASSUME NEW k \in 1 .. Len(frames')
          PROVE  /\ frames'[k].w \in 1 .. Len(header)
                 /\ frames'[k].pc \in 1 .. Len(def[frames'[k].w]) + 1
      <4>1. CASE k = Len(frames) + 1
        <5>1. Len(def[w]) \in Nat
          BY <2>1, DefinitionGood
        <5> HIDE DEF w
        <5> QED
          BY <2>1, <3>1, <3>3, <4>1, <5>1
      <4>2. CASE k \in 1 .. Len(frames)
        BY <1>0, <3>3, <4>2 DEF FramesInv
      <4> QED
        BY <3>2, <3>3, <4>1, <4>2
    <3> QED
      BY <3>3, <3>4, <3>5 DEF FramesInv
  <2>6. Good(xt') /\ ~IsNumber(xt')
    BY <1>2, UndefGood DEF CallWord
  <2> QED
    BY <1>2, <2>4, <2>5, <2>6, RunStays DEF CallWord, Inv, RunInv
<1> QED
  BY <1>1, <1>2

LEMMA SetLocalInv ==
  ASSUME Inv, xt.w \in 1 .. Len(header), NEW s, GoodStack(s), NEW f \in LocalsMap,
         DOMAIN locals[xt.w] \subseteq DOMAIN f, \A x \in DOMAIN f : Resolves(f[x]),
         SetLocal(s, f), status = "running"
  PROVE  Inv'
<1>1. WordsInv' /\ Grows
  BY Rebind DEF SetLocal
<1>2. Good(xt') /\ ~IsNumber(xt')
  BY UndefGood DEF SetLocal
<1> QED
  BY <1>1, <1>2, RunStays DEF SetLocal, Inv, RunInv

LEMMA LocalsKeep == ASSUME Inv, StoreLocal \/ LoadLocal PROVE Inv'
<1>0. /\ GoodStack(stack)
      /\ IsLocal(xt)
      /\ xt \in LocalCell
      /\ xt.w \in 1 .. Len(header)
      /\ xt.x \in DOMAIN locals[xt.w] /\ xt.x \in Name
      /\ locals[xt.w] \in LocalsMap
      /\ \A x \in DOMAIN locals[xt.w] : Good(locals[xt.w][x])
  <2>1. GoodStack(stack) /\ Good(xt) /\ IsLocal(xt)
    BY DEF Inv, RunInv, StoreLocal, LoadLocal, IsLocal
  <2>2. xt \in LocalCell
    BY <2>1 DEF Good, Cell, IsLocal, NumCell, WordCell, PrimCell, LocalCell, UndefCell
  <2>3. xt.w \in 1 .. Len(header) /\ xt.x \in DOMAIN locals[xt.w]
    BY <2>1, LenProperties DEF Good, Resolves, Inv, WordsInv, WordsTyped
  <2> QED
    BY <2>1, <2>2, <2>3, LocalsGood DEF LocalCell
<1>1. CASE StoreLocal
  <2> DEFINE f == [locals[xt.w] EXCEPT ![xt.x] = Top(stack)]
  <2>1. SetLocal(Popped(stack), f)
    BY <1>0, <1>1 DEF StoreLocal
  <2>2. GoodStack(Popped(stack)) /\ Good(Top(stack))
    BY <1>0, PopAnyGood
  <2>3. f \in LocalsMap /\ DOMAIN f = DOMAIN locals[xt.w]
    BY <1>0, <2>2 DEF LocalsMap, Good
  <2>4. \A x \in DOMAIN f : Resolves(f[x])
    BY <1>0, <2>2 DEF Good
  <2> HIDE DEF f
  <2> QED
    BY <1>0, <1>1, <2>1, <2>2, <2>3, <2>4, SetLocalInv DEF StoreLocal
<1>2. CASE LoadLocal
  <2> DEFINE f == Bind(locals[xt.w], xt.x, Undef)
  <2>1. SetLocal(Append(stack, f[xt.x]), f)
    BY <1>2 DEF LoadLocal
  <2>2. /\ f \in LocalsMap
        /\ DOMAIN f = DOMAIN locals[xt.w]
        /\ \A x \in DOMAIN f : f[x] = locals[xt.w][x]
    <3>1. Undef \in Cell
      BY UndefGood DEF Good
    <3>2. /\ f \in LocalsMap
          /\ DOMAIN f = DOMAIN locals[xt.w] \cup {xt.x}
          /\ \A x \in DOMAIN locals[xt.w] : f[x] = locals[xt.w][x]
      BY <1>0, <3>1, BindMap
    <3> HIDE DEF f
    <3> QED
      BY <1>0, <3>2
  <2> HIDE DEF f
  <2>3. GoodStack(Append(stack, f[xt.x])) /\ \A x \in DOMAIN f : Resolves(f[x])
    BY <1>0, <2>2, PushGood DEF Good
  <2> QED
    BY <1>0, <1>2, <2>1, <2>2, <2>3, SetLocalInv DEF LoadLocal
<1> QED
  BY <1>1, <1>2

LEMMA ToKeeps == ASSUME Inv, To PROVE Inv'
<1>1. CASE ~LatestIsWord
  BY <1>1, FailInv DEF To, Statuses
<1>2. CASE LatestIsWord
  <2> DEFINE w == Latest
             c == ToLocal(w, NextToken)
             d == def[w] \o <<c>>
             f == Bind(locals[w], NextToken, Num(0))
  <2>1. /\ w \in 1 .. Len(header)
        /\ NextToken \in Name
        /\ pos' \in 1 .. Len(source) + 1
        /\ Len(header) \in Nat
        /\ DOMAIN header = 1 .. Len(header)
    BY <1>2, LatestValid, PosValid, LenProperties DEF To, Inv, WordsInv, WordsTyped
  <2>2. /\ f \in LocalsMap
        /\ DOMAIN f = DOMAIN locals[w] \cup {NextToken}
        /\ \A x \in DOMAIN f : Good(f[x])
    <3>1. /\ locals[w] \in LocalsMap
          /\ \A x \in DOMAIN locals[w] : Good(locals[w][x])
      BY <2>1, LocalsGood
    <3>2. Good(Num(0)) /\ Num(0) \in Cell
      BY NumGood DEF Good
    <3>3. /\ f \in LocalsMap
          /\ DOMAIN f = DOMAIN locals[w] \cup {NextToken}
          /\ \A y \in DOMAIN locals[w] : f[y] = locals[w][y]
          /\ NextToken \notin DOMAIN locals[w] => f[NextToken] = Num(0)
      BY <2>1, <3>1, <3>2, BindMap
    <3> HIDE DEF f, w
    <3> QED
      BY <3>1, <3>2, <3>3
  <2>3. c \in Cell /\ c.kind = "toLocal" /\ c.w = w /\ c.x = NextToken
    BY <2>1 DEF ToLocal, Cell, LocalCell
  <2>4. GoodStack(def[w]) /\ Len(def[w]) \in Nat
    BY <2>1, DefinitionGood
  <2>5. /\ d \in Seq(Cell)
        /\ Len(d) = Len(def[w]) + 1
        /\ \A i \in 1 .. Len(def[w]) : d[i] = def[w][i]
        /\ d[Len(def[w]) + 1] = c
    <3> HIDE DEF c, w
    <3> QED
      BY <2>3, <2>4 DEF GoodStack
  <2>6. /\ def' = [def EXCEPT ![w] = d]
        /\ locals' = [locals EXCEPT ![w] = f]
        /\ UNCHANGED <<dictionary, header>>
    BY <1>2 DEF To, Compile
  <2> HIDE DEF w, c, d, f
  <2>7. /\ def' \in Seq(Seq(Cell))
        /\ Len(def') = Len(def)
        /\ \A v \in 1 .. Len(header) : def'[v] = IF v = w THEN d ELSE def[v]
    BY <2>1, <2>5, <2>6, ExceptSeq DEF Inv, WordsInv, WordsTyped
  <2>8. /\ locals' \in Seq(LocalsMap)
        /\ Len(locals') = Len(locals)
        /\ \A v \in 1 .. Len(header) : locals'[v] = IF v = w THEN f ELSE locals[v]
    BY <2>1, <2>2, <2>6, ExceptSeq DEF Inv, WordsInv, WordsTyped
  <2>9. WordsTyped'
    BY <2>6, <2>7, <2>8 DEF Inv, WordsInv, WordsTyped
  <2>10. Grows
    <3>1. ASSUME NEW v \in 1 .. Len(header) PROVE Len(def[v]) <= Len(def'[v])
      <4>1. CASE v = w
        BY <2>4, <2>5, <2>7, <4>1
      <4>2. CASE v # w
        BY <2>7, <4>2, DefinitionGood
      <4> QED
        BY <4>1, <4>2
    <3> QED
      BY <2>1, <2>2, <2>6, <2>8, <3>1 DEF Grows
  <2>11. DictionaryComplete'
    BY <2>6 DEF Inv, WordsInv, DictionaryComplete
  <2>12. WordsResolve'
    <3>1. ASSUME NEW e, Resolves(e)
          PROVE  /\ e.kind = "word" => e.w \in DOMAIN header'
                 /\ IsLocal(e) => e.w \in DOMAIN header' /\ e.x \in DOMAIN locals'[e.w]
      BY <2>1, <2>2, <2>6, <2>8, <3>1 DEF Resolves
    <3>2. /\ c.kind = "word" => c.w \in DOMAIN header'
          /\ IsLocal(c) => c.w \in DOMAIN header' /\ c.x \in DOMAIN locals'[c.w]
      BY <2>1, <2>2, <2>3, <2>6, <2>8
    <3>3. ASSUME NEW v \in 1 .. Len(header), NEW i \in 1 .. Len(def'[v])
          PROVE  Resolves(def'[v][i]) \/ def'[v][i] = c
      <4>1. CASE v = w
        <5>1. def'[v] = d
          BY <2>7, <4>1
        <5>2. i \in 1 .. Len(def[w]) \/ i = Len(def[w]) + 1
          BY <5>1, <2>4, <2>5
        <5>3. CASE i \in 1 .. Len(def[w])
          <6>1. d[i] = def[w][i]
            BY <2>5, <5>3
          <6>2. Resolves(def[w][i])
            BY <2>4, <5>3 DEF GoodStack
          <6> QED
            BY <5>1, <6>1, <6>2
        <5>4. CASE i = Len(def[w]) + 1
          BY <5>1, <2>5, <5>4
        <5> QED
          BY <5>2, <5>3, <5>4
      <4>2. CASE v # w
        BY <2>7, <4>2 DEF Inv, WordsInv, WordsResolve
      <4> QED
        BY <4>1, <4>2
    <3>4. ASSUME NEW v \in 1 .. Len(header), NEW x \in DOMAIN locals'[v]
          PROVE  Resolves(locals'[v][x])
      <4>1. CASE v = w
        BY <2>2, <2>8, <4>1 DEF Good
      <4>2. CASE v # w
        BY <2>8, <4>2 DEF Inv, WordsInv, WordsResolve
      <4> QED
        BY <4>1, <4>2
    <3>5. \A v \in 1 .. Len(header') :
            /\ \A i \in 1 .. Len(def'[v]) : Resolves(def'[v][i]) \/ def'[v][i] = c
            /\ \A x \in DOMAIN locals'[v] : Resolves(locals'[v][x])
      BY <2>6, <3>3, <3>4
    <3> QED
      BY <3>1, <3>2, <3>5 DEF WordsResolve, Resolves
  <2>13. Good(xt') /\ ~IsNumber(xt')
    BY <1>2, UndefGood DEF To
  <2> QED
    BY <1>2, <2>1, <2>9, <2>10, <2>11, <2>12, <2>13, RunStays
       DEF To, WordsInv, Inv, RunInv
<1> QED
  BY <1>1, <1>2

-----------------------------------------------------------------------------
(***************************************************************************)
(* Reading a word, the mode, and memory.                                   *)
(***************************************************************************)
LEMMA ModeKeeps == ASSUME Inv, Tick \/ ToImmediate \/ ToCompile PROVE Inv'
<1>1. CASE Tick
  <2>1. GoodStack(stack')
    BY <1>1, FindGood, PushGood DEF Tick, Inv, RunInv
  <2>2. pos' \in 1 .. Len(source) + 1 /\ Good(xt') /\ ~IsNumber(xt')
    BY <1>1, PosValid, UndefGood DEF Tick
  <2> QED
    BY <1>1, <2>1, <2>2, KeepWords DEF Tick, Inv, RunInv
<1>2. CASE ToImmediate \/ ToCompile
  BY <1>2, UndefGood, KeepWords DEF ToImmediate, ToCompile, SetMode, Inv, RunInv
<1> QED
  BY <1>1, <1>2

HeapTyped == Seq([live : BOOLEAN, cells : Seq(NumCell \cup UndefCell)])

LEMMA SetHeapInv ==
  ASSUME Inv, NEW h \in HeapTyped, NEW s, GoodStack(s), SetHeap(h, s)
  PROVE  Inv'
<1>1. Good(xt') /\ ~IsNumber(xt') /\ GoodStack(stack')
  BY UndefGood DEF SetHeap
<1>2. heap' \in Seq([live : BOOLEAN, cells : Seq(NumCell \cup UndefCell)])
  BY DEF SetHeap, HeapTyped
<1> QED
  BY <1>1, <1>2, KeepWords DEF SetHeap, Inv, RunInv

\* A cell of a block, or the block's flag, is replaced.
LEMMA HeapChanged ==
  ASSUME Inv, NEW b \in DOMAIN heap
  PROVE  /\ [heap EXCEPT ![b].live = FALSE] \in HeapTyped
         /\ \A i \in DOMAIN heap[b].cells, v \in Int :
              [heap EXCEPT ![b].cells[i] = Num(v)] \in HeapTyped
<1> DEFINE Block == [live : BOOLEAN, cells : Seq(NumCell \cup UndefCell)]
<1>1. heap \in Seq(Block) /\ b \in 1 .. Len(heap) /\ heap[b] \in Block
  BY ElementOfSeq, LenProperties DEF Inv, RunInv
<1>2. ASSUME NEW block \in Block PROVE [heap EXCEPT ![b] = block] \in HeapTyped
  <2> HIDE DEF Block
  <2>1. [heap EXCEPT ![b] = block] \in Seq(Block)
    BY <1>1, <1>2, ExceptSeq
  <2> QED
    BY <2>1 DEF HeapTyped, Block
<1>3. [heap EXCEPT ![b].live = FALSE] \in HeapTyped
  <2> DEFINE block == [heap[b] EXCEPT !.live = FALSE]
  <2>1. block \in Block
    BY <1>1
  <2>2. [heap EXCEPT ![b].live = FALSE] = [heap EXCEPT ![b] = block]
    OBVIOUS
  <2> HIDE DEF block, Block
  <2> QED
    BY <1>2, <2>1, <2>2
<1>4. ASSUME NEW i \in DOMAIN heap[b].cells, NEW v \in Int
      PROVE  [heap EXCEPT ![b].cells[i] = Num(v)] \in HeapTyped
  <2> DEFINE cells == [heap[b].cells EXCEPT ![i] = Num(v)]
             block == [heap[b] EXCEPT !.cells = cells]
  <2>1. cells \in Seq(NumCell \cup UndefCell)
    <3>1. /\ heap[b].cells \in Seq(NumCell \cup UndefCell)
          /\ i \in 1 .. Len(heap[b].cells)
      BY <1>1, LenProperties
    <3>2. Num(v) \in NumCell \cup UndefCell
      BY DEF Num, NumCell
    <3> QED
      BY <3>1, <3>2, ExceptSeq
  <2>2. block \in Block
    <3> HIDE DEF cells
    <3> QED
      BY <1>1, <2>1
  <2>3. [heap EXCEPT ![b].cells[i] = Num(v)] = [heap EXCEPT ![b] = block]
    OBVIOUS
  <2> HIDE DEF block, Block
  <2> QED
    BY <1>2, <2>2, <2>3
<1> QED
  BY <1>3, <1>4

\* A block is granted.
LEMMA Granted ==
  ASSUME Inv, NEW b \in 1 .. Len(heap) + 1, NEW size \in 0 .. BlockSpan
  PROVE  Grant(b, size) \in HeapTyped
<1> DEFINE Block == [live : BOOLEAN, cells : Seq(NumCell \cup UndefCell)]
           block == [live |-> TRUE, cells |-> [i \in 1 .. size \div CellBytes |-> Undef]]
<1>1. heap \in Seq(Block) /\ Len(heap) \in Nat /\ DOMAIN heap = 1 .. Len(heap)
  BY LenProperties DEF Inv, RunInv
<1>2. block \in Block
  <2>1. size \div CellBytes \in Nat
    BY BoundsAssumption
  <2>2. Undef \in NumCell \cup UndefCell
    BY DEF Undef, UndefCell
  <2>3. [i \in 1 .. size \div CellBytes |-> Undef] \in Seq(NumCell \cup UndefCell)
    BY <2>1, <2>2, SeqDef
  <2> QED
    BY <2>3
<1>3. Grant(b, size) = IF b \in DOMAIN heap THEN [heap EXCEPT ![b] = block] ELSE Append(heap, block)
  BY DEF Grant
<1> HIDE DEF block, Block
<1>4. Append(heap, block) \in Seq(Block)
  BY <1>1, <1>2, AppendProperties
<1>5. b \in DOMAIN heap => [heap EXCEPT ![b] = block] \in Seq(Block)
  BY <1>1, <1>2, ExceptSeq
<1> QED
  BY <1>3, <1>4, <1>5 DEF HeapTyped, Block

LEMMA MemoryKeeps ==
  ASSUME Inv, Fetch \/ StoreMemory \/ Malloc \/ Free
  PROVE  Inv'
<1>0. GoodStack(stack) /\ "undefined" \in Statuses
  BY DEF Inv, RunInv, Statuses
<1>1. CASE Fetch
  <2>1. GoodStack(Below(1))
    BY <1>0, <1>1, BelowGood DEF Fetch
  <2>2. ASSUME NEW b \in DOMAIN heap, NEW i \in DOMAIN heap[b].cells,
               NEW v \in Contents(b, i), SetStack(Append(Below(1), Num(v)))
        PROVE  Inv'
    <3>1. v \in Int
      <4>1. heap[b] \in [live : BOOLEAN, cells : Seq(NumCell \cup UndefCell)]
        BY ElementOfSeq, LenProperties DEF Inv, RunInv
      <4>2. heap[b].cells \in Seq(NumCell \cup UndefCell)
        BY <4>1
      <4>3. heap[b].cells[i] \in NumCell \cup UndefCell
        BY <4>2, ElementOfSeq, LenProperties
      <4>4. IsNumber(heap[b].cells[i]) => heap[b].cells[i].n \in Int
        BY <4>3 DEF IsNumber, NumCell, UndefCell
      <4>5. Garbage \subseteq Int
        BY BoundsAssumption, WidthAssumption DEF Element
      <4> QED
        BY <4>4, <4>5 DEF Contents
    <3>2. GoodStack(Append(Below(1), Num(v)))
      BY <2>1, <3>1, NumGood, PushGood
    <3> QED
      BY <2>2, <3>2, SetStackInv
  <2> QED
    BY <1>0, <1>1, <2>2, FailInv DEF Fetch
<1>2. CASE StoreMemory
  <2>1. GoodStack(Below(2)) /\ TopNumber(Below(1)) \in Int
    BY <1>0, <1>2, BelowGood DEF StoreMemory
  <2>2. ASSUME NEW b \in DOMAIN heap, NEW i \in DOMAIN heap[b].cells,
               SetHeap([heap EXCEPT ![b].cells[i] = Num(TopNumber(Below(1)))], Below(2))
        PROVE  Inv'
    BY <2>1, <2>2, HeapChanged, SetHeapInv
  <2> QED
    BY <1>0, <1>2, <2>2, FailInv DEF StoreMemory
<1>3. CASE Malloc
  <2> DEFINE size == TopNumber(stack)
  <2>1. GoodStack(Below(1)) /\ size \in Int
    BY <1>0, <1>3, BelowGood DEF Malloc
  <2>2. CASE SetStack(Append(Below(1), Num(0)))
    BY <2>1, <2>2, NumGood, PushGood, SetStackInv
  <2>3. ASSUME NEW b \in 1 .. Len(heap) + 1, size \in 0 .. BlockSpan,
               SetHeap(Grant(b, size), Append(Below(1), Num(Base(b))))
        PROVE  Inv'
    <3>1. Base(b) \in Int
      BY BoundsAssumption, LenProperties DEF Base, Inv, RunInv
    <3>2. Grant(b, size) \in HeapTyped
      BY <2>3, Granted
    <3>3. GoodStack(Append(Below(1), Num(Base(b))))
      BY <2>1, <3>1, NumGood, PushGood
    <3> QED
      BY <2>3, <3>2, <3>3, SetHeapInv
  <2> QED
    BY <1>3, <2>2, <2>3 DEF Malloc, Allocate
<1>4. CASE Free
  <2>1. GoodStack(Below(1))
    BY <1>0, <1>4, BelowGood DEF Free
  <2> QED
    BY <1>0, <1>4, <2>1, HeapChanged, SetHeapInv, SetStackInv, FailInv DEF Free
<1> QED
  BY <1>1, <1>2, <1>3, <1>4

-----------------------------------------------------------------------------
(***************************************************************************)
(* The theorems.                                                           *)
(***************************************************************************)
\* The interpreter starts in a state that satisfies the inductive invariant.
LEMMA InitInv == Init => Inv
<1> SUFFICES ASSUME Init PROVE Inv
  OBVIOUS
<1>1. PrimXt("create") \in Cell /\ PrimXt("]") \in Cell /\ PrimXt("[") \in Cell
  BY PrimGood DEF Good, Primitives, ImmediatePrimitives
<1>2. /\ source \in Sources /\ pos = 1 /\ heap = <<>> /\ stack = <<>>
      /\ immediate = TRUE /\ frames = <<>> /\ xt = Undef /\ out = <<>>
      /\ status = "running"
  BY Zenon DEF Init
<1>3. dictionary = <<WordXt(1), WordXt(2)>>
  BY Zenon DEF Init
<1> DEFINE colon     == [name |-> ":", immediate |-> FALSE]
           semicolon == [name |-> ";", immediate |-> TRUE]
<1>4. /\ header = <<colon, semicolon>>
      /\ colon \in [name : Name, immediate : BOOLEAN]
      /\ semicolon \in [name : Name, immediate : BOOLEAN]
  <2>1. header = <<colon, semicolon>>
    BY Zenon DEF Init
  <2>2. /\ colon \in [name : Name, immediate : BOOLEAN]
        /\ semicolon \in [name : Name, immediate : BOOLEAN]
    BY DEF Name
  <2> QED
    BY <2>1, <2>2
<1> HIDE DEF colon, semicolon
<1>5. def = << <<PrimXt("create"), PrimXt("]")>>, <<PrimXt("[")>> >>
  BY Zenon DEF Init
<1>6. locals = << <<>>, <<>> >>
  BY Zenon DEF Init
<1>7. Len(header) = 2 /\ DOMAIN header = {1, 2}
  BY <1>4
<1>8. WordsTyped
  <2>1. dictionary \in Seq(NumCell \cup WordCell) /\ dictionary # <<>>
    BY <1>3 DEF WordXt, WordCell
  <2>2. header \in Seq([name : Name, immediate : BOOLEAN])
    BY <1>4
  <2>3. def \in Seq(Seq(Cell)) /\ Len(def) = 2
    BY <1>1, <1>5
  <2>4. locals \in Seq(LocalsMap) /\ Len(locals) = 2
    BY <1>6, NoLocals
  <2> QED
    BY <1>7, <2>1, <2>2, <2>3, <2>4 DEF WordsTyped
<1>9. DictionaryComplete
  BY <1>3, <1>7 DEF DictionaryComplete, WordXt, IsWord
<1>10. WordsResolve
  <2>1. \A w \in 1 .. 2 : \A i \in 1 .. Len(def[w]) : Resolves(def[w][i])
    BY <1>5 DEF Resolves, PrimXt, IsLocal
  <2>2. \A w \in 1 .. 2 : DOMAIN locals[w] = {}
    BY <1>6, NoLocals
  <2> QED
    BY <1>7, <2>1, <2>2 DEF WordsResolve
<1>11. RunInv
  <2>1. source \in Seq(Token) /\ pos \in 1 .. Len(source) + 1
    <3>1. source \in Seq(Token)
      BY <1>2, SourcesAssumption
    <3> QED
      BY <1>2, <3>1, LenProperties
  <2>2. GoodStack(stack) /\ Good(xt) /\ ~IsNumber(xt)
    BY <1>2, SmallStacks, UndefGood
  <2>3. FramesInv(frames)
    BY <1>2, BoundsAssumption DEF FramesInv
  <2> QED
    BY <1>2, <2>1, <2>2, <2>3 DEF RunInv, Statuses
<1> QED
  BY <1>8, <1>9, <1>10, <1>11 DEF Inv, WordsInv

LEMMA StepInv == Inv /\ [Next]_vars => Inv'
<1> SUFFICES ASSUME Inv, [Next]_vars PROVE Inv'
  OBVIOUS
<1>1. CASE TokenLoop
  BY <1>1, TokenLoopKeeps, CompileKeeps DEF TokenLoop
<1>2. CASE ExecuteWord
  BY <1>2, WalkKeeps, CallKeeps DEF ExecuteWord
<1>3. CASE Pure
  BY <1>3, PureKeeps
<1>4. CASE Control
  BY <1>4, ControlKeeps
<1>5. CASE Defining
  BY <1>5, ModeKeeps, CreateKeeps, CommaKeeps, MarkKeeps, AllotKeeps, HereKeeps,
     ToKeeps, PatchKeeps DEF Defining
<1>6. CASE Memory
  BY <1>6, LocalsKeep, MemoryKeeps DEF Memory
<1>7. CASE UNCHANGED vars
  BY <1>7, KeepWords DEF vars, wordVars, Inv, RunInv
<1>8. CASE Ended
  BY <1>7, <1>8 DEF Ended
<1> QED
  BY <1>1, <1>2, <1>3, <1>4, <1>5, <1>6, <1>7, <1>8 DEF Next

\* The inductive invariant holds in every reachable state.
THEOREM Invariance == Spec => []Inv
BY InitInv, StepInv, PTL DEF Spec

\* Every variable holds what its C++ counterpart can hold, in every program.
THEOREM TypeCorrect == Spec => []TypeOK
<1>1. Inv => TypeOK
  <2> SUFFICES ASSUME Inv PROVE TypeOK
    OBVIOUS
  <2>1. /\ dictionary \in Seq(NumCell \cup WordCell) /\ dictionary # <<>>
        /\ header \in Seq([name : Name, immediate : BOOLEAN])
        /\ def \in Seq(Seq(Cell)) /\ Len(def) = Len(header)
    BY DEF Inv, WordsInv, WordsTyped
  <2>2. DOMAIN locals = 1 .. Len(header) /\ DOMAIN header = 1 .. Len(header)
    BY LenProperties DEF Inv, WordsInv, WordsTyped
  <2>3. ASSUME NEW w \in DOMAIN locals
        PROVE  DOMAIN locals[w] \subseteq Name /\ locals[w] \in [DOMAIN locals[w] -> Cell]
    <3>1. locals[w] \in LocalsMap
      BY <2>2, LocalsGood
    <3> QED
      BY <3>1 DEF LocalsMap
  <2>4. /\ source \in Seq(Token) /\ pos \in 1 .. Len(source) + 1
        /\ heap \in Seq([live : BOOLEAN, cells : Seq(NumCell \cup UndefCell)])
        /\ stack \in Seq(Cell) /\ immediate \in BOOLEAN
        /\ frames \in Seq(Frame) /\ Len(frames) <= MaxDepth
        /\ xt \in Cell /\ ~IsNumber(xt) /\ out \in Seq(Int) /\ status \in Statuses
    BY DEF Inv, RunInv, GoodStack, FramesInv, Good
  <2> QED
    BY <2>1, <2>2, <2>3, <2>4 DEF TypeOK
<1> QED
  BY <1>1, Invariance, PTL

\* No word is ever lost from the dictionary, in particular by a negative
\* allot, and its last word is the newest.
THEOREM DictionaryKept == Spec => []DictionaryComplete
<1>1. Inv => DictionaryComplete
  BY DEF Inv, WordsInv
<1> QED
  BY <1>1, Invariance, PTL

\* No cell, wherever it was copied, names a word or a local that is not there.
THEOREM CellsAlwaysResolve == Spec => []CellsResolve
<1>1. Inv => CellsResolve
  <2> SUFFICES ASSUME Inv PROVE CellsResolve
    OBVIOUS
  <2>1. DOMAIN def = 1 .. Len(header) /\ DOMAIN locals = 1 .. Len(header)
    BY LenProperties DEF Inv, WordsInv, WordsTyped
  <2>2. Resolves(xt) /\ \A i \in DOMAIN stack : Resolves(stack[i])
    BY LenProperties DEF Inv, RunInv, Good, GoodStack
  <2>3. \A w \in 1 .. Len(header) : DOMAIN def[w] = 1 .. Len(def[w])
    BY DefinitionGood, LenProperties DEF GoodStack
  <2> QED
    BY <2>1, <2>2, <2>3 DEF CellsResolve, Inv, WordsInv, WordsResolve
<1> QED
  BY <1>1, Invariance, PTL

-----------------------------------------------------------------------------
(***************************************************************************)
(* What a primitive does to the height of a stack of numbers.              *)
(***************************************************************************)
Numbers(s) == s \in Seq(Cell) /\ \A i \in DOMAIN s : IsNumber(s[i])

\* The table, for each primitive an action of its own.
LEMMA EffectsTable ==
  /\ \A q \in BinaryPrimitives : Effects.pops[q] = 2 /\ Effects.pushes[q] = 1
  /\ Effects.pops["swap"] = 2 /\ Effects.pushes["swap"] = 2
  /\ Effects.pops["rot"] = 3 /\ Effects.pushes["rot"] = 3
  /\ Effects.pops["dup"] = 1 /\ Effects.pushes["dup"] = 2
  /\ Effects.pops["!"] = 2 /\ Effects.pushes["!"] = 0
  /\ \A q \in {"drop", ".", ",", "allot", "branchif", "free", "toLocal"} :
       Effects.pops[q] = 1 /\ Effects.pushes[q] = 0
  /\ \A q \in {"@", "malloc"} : Effects.pops[q] = 1 /\ Effects.pushes[q] = 1
  /\ \A q \in {"literal", "fromLocal"} : Effects.pops[q] = 0 /\ Effects.pushes[q] = 1
  /\ \A q \in {".S", "see", "branch", "create", "[", "]", "immediate", "to"} :
       Effects.pops[q] = 0 /\ Effects.pushes[q] = 0
BY DEF Effects, Primitives, BinaryPrimitives, ImmediatePrimitives, StatefulPrimitives

\* A number popped leaves a stack of numbers.
LEMMA DropNumbers ==
  ASSUME NEW s, Numbers(s), Len(s) >= 1
  PROVE  /\ s # <<>>
         /\ DropNumber(s) = Front(s) /\ Popped(s) = Front(s)
         /\ Numbers(Front(s)) /\ Len(Front(s)) = Len(s) - 1
<1>1. s \in Seq(Cell) /\ s # <<>> /\ DOMAIN s = 1 .. Len(s)
  BY DEF Numbers
<1>2. /\ Len(s) \in Nat \ {0}
      /\ Front(s) \in Seq(Cell) /\ Len(Front(s)) = Len(s) - 1
      /\ \A i \in 1 .. Len(s) - 1 : Front(s)[i] = s[i]
      /\ Last(s) = s[Len(s)]
  BY <1>1, FrontLast
<1>3. DOMAIN Front(s) = 1 .. Len(s) - 1
  BY <1>2
<1>4. IsNumber(Last(s)) /\ Numbers(Front(s))
  BY <1>1, <1>2, <1>3 DEF Numbers
<1> QED
  BY <1>1, <1>2, <1>4 DEF DropNumber, Popped

LEMMA BelowHeights ==
  ASSUME Numbers(stack)
  PROVE  /\ Len(stack) \in Nat
         /\ \A k \in 1 .. 3 :
              Len(stack) >= k => Numbers(Below(k)) /\ Len(Below(k)) = Len(stack) - k
         /\ Len(stack) >= 1 => Len(Popped(stack)) = Len(stack) - 1
         /\ Len(stack) >= 2 => Len(Popped(Below(1))) = Len(stack) - 2
<1>1. Len(stack) \in Nat
  BY DEF Numbers
<1>2. Len(stack) >= 1 => /\ Below(1) = Front(stack) /\ Numbers(Below(1))
                         /\ Len(Below(1)) = Len(stack) - 1
                         /\ Len(Popped(stack)) = Len(stack) - 1
  BY DropNumbers DEF Below
<1>3. Len(stack) >= 2 => /\ Numbers(Below(2))
                         /\ Len(Below(2)) = Len(stack) - 2
                         /\ Len(Popped(Below(1))) = Len(stack) - 2
  <2>1. ASSUME Len(stack) >= 2 PROVE Numbers(Below(1)) /\ Len(Below(1)) = Len(stack) - 1
    BY <1>1, <1>2, <2>1
  <2>2. ASSUME Len(stack) >= 2 PROVE Below(2) = DropNumber(Below(1))
    BY DEF Below
  <2> HIDE DEF Below
  <2> QED
    BY <1>1, <2>1, <2>2, DropNumbers
<1>4. Len(stack) >= 3 => Numbers(Below(3)) /\ Len(Below(3)) = Len(stack) - 3
  <2>1. ASSUME Len(stack) >= 3 PROVE Numbers(Below(2)) /\ Len(Below(2)) = Len(stack) - 2
    BY <1>1, <1>3, <2>1
  <2>2. ASSUME Len(stack) >= 3 PROVE Below(3) = DropNumber(Below(2))
    BY DEF Below
  <2> QED
    BY <1>1, <2>1, <2>2, DropNumbers
<1>5. \A k \in 1 .. 3 : k = 1 \/ k = 2 \/ k = 3
  OBVIOUS
<1> QED
  BY <1>1, <1>2, <1>3, <1>4, <1>5

\* From height n at least, n cells are replaced by m.
Changes(n, m) == Len(stack) >= n => Len(stack') = Len(stack) - n + m

\* What is under way ends well with a stack of numbers and a word to compile into.
Plain == Inv /\ Numbers(stack) /\ LatestIsWord /\ status' = "running"

\* The primitive under way does what the table says of q.
AsTold(q) == Changes(Effects.pops[q], Effects.pushes[q])

LEMMA Pushing ==
  ASSUME NEW s, NEW n \in Nat, s \in Seq(Cell), Len(s) = n
  PROVE  /\ \A c : Len(Append(s, c)) = n + 1
         /\ \A c, d : Len(s \o <<c, d>>) = n + 2
         /\ \A c, d, e : Len(s \o <<c, d, e>>) = n + 3
OBVIOUS

LEMMA PureAgrees ==
  ASSUME Plain, NEW q \in Primitives, xt = PrimXt(q), Pure
  PROVE  AsTold(q)
<1>1. /\ Len(stack) \in Nat /\ stack \in Seq(Cell)
      /\ \A k \in 1 .. 3 :
           Len(stack) >= k => Below(k) \in Seq(Cell) /\ Len(Below(k)) = Len(stack) - k
  BY BelowHeights DEF Plain, Numbers
<1>2. \A r : xt = PrimXt(r) => r = q
  BY DEF PrimXt
<1>3. ASSUME NEW r \in BinaryPrimitives, Binary(r) PROVE AsTold(q)
  <2>1. r = q /\ Effects.pops[q] = 2 /\ Effects.pushes[q] = 1
    BY <1>2, <1>3, EffectsTable DEF Binary, Executing
  <2>2. \E v : stack' = Append(Below(2), v)
    BY <1>3 DEF Binary, SetStack, Fail, Plain
  <2> QED
    BY <1>1, <2>1, <2>2, Pushing DEF AsTold, Changes
<1>4. CASE Swap
  <2>1. q = "swap" /\ Effects.pops[q] = 2 /\ Effects.pushes[q] = 2
    BY <1>2, <1>4, EffectsTable DEF Swap, Executing
  <2>2. \E c, d : stack' = Below(2) \o <<c, d>>
    BY <1>4 DEF Swap, SetStack
  <2> QED
    BY <1>1, <2>1, <2>2, Pushing DEF AsTold, Changes
<1>5. CASE Rot
  <2>1. q = "rot" /\ Effects.pops[q] = 3 /\ Effects.pushes[q] = 3
    BY <1>2, <1>5, EffectsTable DEF Rot, Executing
  <2>2. \E c, d, e : stack' = Below(3) \o <<c, d, e>>
    BY <1>5 DEF Rot, SetStack
  <2> QED
    BY <1>1, <2>1, <2>2, Pushing DEF AsTold, Changes
<1>6. CASE Dup
  <2>1. q = "dup" /\ Effects.pops[q] = 1 /\ Effects.pushes[q] = 2
    BY <1>2, <1>6, EffectsTable DEF Dup, Executing
  <2>2. \E c : stack' = Append(stack, c)
    BY <1>6 DEF Dup, SetStack
  <2> QED
    BY <1>1, <2>1, <2>2, Pushing DEF AsTold, Changes
<1>7. CASE Drop \/ Emit
  <2>1. q \in {"drop", "."} /\ Effects.pops[q] = 1 /\ Effects.pushes[q] = 0
    BY <1>2, <1>7, EffectsTable DEF Drop, Emit, Executing
  <2>2. stack' = Below(1)
    BY <1>7 DEF Drop, Emit, SetStack
  <2> QED
    BY <1>1, <2>1, <2>2 DEF AsTold, Changes
<1>8. CASE Show
  <2>1. q \in {".S", "see"} /\ Effects.pops[q] = 0 /\ Effects.pushes[q] = 0
    BY <1>2, <1>8, EffectsTable DEF Show, Executing
  <2>2. stack' = stack
    BY <1>8 DEF Show, SetStack
  <2> QED
    BY <1>1, <2>1, <2>2 DEF AsTold, Changes
<1>9. ~Underflow
  BY DEF Underflow, Fail, Plain
<1> QED
  BY <1>3, <1>4, <1>5, <1>6, <1>7, <1>8, <1>9 DEF Pure

LEMMA ControlAgrees ==
  ASSUME Plain, NEW q \in Primitives, xt = PrimXt(q), Control
  PROVE  AsTold(q)
<1>1. /\ Len(stack) \in Nat /\ stack \in Seq(Cell)
      /\ Len(stack) >= 1 => Len(Below(1)) = Len(stack) - 1
  BY BelowHeights DEF Plain, Numbers
<1>2. \A r : xt = PrimXt(r) => r = q
  BY DEF PrimXt
<1>3. ASSUME NEW s, Jump(s) \/ SkipOperand(s) PROVE stack' = s
  BY <1>3 DEF Jump, SkipOperand, MoveBy, MoveTo, SetStack, Fail, Plain
<1>4. CASE Branch
  <2>1. q = "branch" /\ Effects.pops[q] = 0 /\ Effects.pushes[q] = 0
    BY <1>2, <1>4, EffectsTable DEF Branch, Executing
  <2>2. stack' = stack
    BY <1>3, <1>4 DEF Branch
  <2> QED
    BY <1>1, <2>1, <2>2 DEF AsTold, Changes
<1>5. CASE BranchIf
  <2>1. q = "branchif" /\ Effects.pops[q] = 1 /\ Effects.pushes[q] = 0
    BY <1>2, <1>5, EffectsTable DEF BranchIf, Executing
  <2>2. stack' = Below(1)
    BY <1>3, <1>5 DEF BranchIf
  <2> QED
    BY <1>1, <2>1, <2>2 DEF AsTold, Changes
<1>6. CASE Literal
  <2>1. q = "literal" /\ Effects.pops[q] = 0 /\ Effects.pushes[q] = 1
    BY <1>2, <1>6, EffectsTable DEF Literal, Executing
  <2>2. \E c : stack' = Append(stack, c)
    BY <1>6 DEF Literal, MoveTo, Fail, Plain
  <2> QED
    BY <1>1, <2>1, <2>2, Pushing DEF AsTold, Changes
<1> QED
  BY <1>4, <1>5, <1>6 DEF Control

LEMMA DefiningAgrees ==
  ASSUME Plain, NEW q \in Primitives \ {"'", "here"}, xt = PrimXt(q), Defining
  PROVE  AsTold(q)
<1>1. /\ Len(stack) \in Nat /\ stack \in Seq(Cell)
      /\ Len(stack) >= 1 => Len(Below(1)) = Len(stack) - 1
      /\ Len(stack) >= 1 => Len(Popped(stack)) = Len(stack) - 1
      /\ Len(stack) >= 2 => Len(Popped(Below(1))) = Len(stack) - 2
  BY BelowHeights DEF Plain, Numbers
<1>2. \A r : xt = PrimXt(r) => r = q
  BY DEF PrimXt
<1>3. ~Tick /\ ~Here
  BY <1>2 DEF Tick, Here, Executing
<1>4. CASE Create \/ ToImmediate \/ ToCompile \/ MarkImmediate \/ To
  <2>1. q \in {"create", "[", "]", "immediate", "to"}
    BY <1>2, <1>4 DEF Create, ToImmediate, ToCompile, SetMode, MarkImmediate, To, Executing
  <2>2. stack' = stack
    BY <1>4 DEF Create, ToImmediate, ToCompile, SetMode, MarkImmediate, To, Fail
  <2>3. Effects.pops[q] = 0 /\ Effects.pushes[q] = 0
    BY <2>1, EffectsTable
  <2> QED
    BY <1>1, <2>2, <2>3 DEF AsTold, Changes
<1>5. CASE Comma
  <2>1. Effects.pops[q] = 1 /\ Effects.pushes[q] = 0
    <3>1. q = ","
      BY <1>2, <1>5 DEF Comma, Executing
    <3> QED
      BY <3>1, EffectsTable
  <2>2. stack' = Popped(stack)
    BY <1>5 DEF Comma, Plain
  <2> QED
    BY <1>1, <2>1, <2>2 DEF AsTold, Changes
<1>6. CASE Allot
  <2>1. q = "allot" /\ Effects.pops[q] = 1 /\ Effects.pushes[q] = 0
    BY <1>2, <1>6, EffectsTable DEF Allot, Executing
  <2>2. stack' = Below(1)
    BY <1>6 DEF Allot
  <2> QED
    BY <1>1, <2>1, <2>2 DEF AsTold, Changes
<1>7. CASE PatchDefinition
  <2>1. q = "!" /\ Effects.pops[q] = 2 /\ Effects.pushes[q] = 0
    BY <1>2, <1>7, EffectsTable DEF PatchDefinition, Patch, Executing
  <2>2. stack' = Popped(Below(1))
    BY <1>7 DEF PatchDefinition, Patch, Plain, Fail
  <2> QED
    BY <1>1, <2>1, <2>2 DEF AsTold, Changes
<1> QED
  BY <1>3, <1>4, <1>5, <1>6, <1>7 DEF Defining

LEMMA MemoryAgrees ==
  ASSUME Plain, NEW q \in Primitives, xt = PrimXt(q),
         Fetch \/ StoreMemory \/ Malloc \/ Free
  PROVE  AsTold(q)
<1>1. /\ Len(stack) \in Nat
      /\ Len(stack) >= 1 => Below(1) \in Seq(Cell) /\ Len(Below(1)) = Len(stack) - 1
      /\ Len(stack) >= 2 => Len(Below(2)) = Len(stack) - 2
  BY BelowHeights DEF Plain, Numbers
<1>2. \A r : xt = PrimXt(r) => r = q
  BY DEF PrimXt
<1>3. CASE Fetch \/ Malloc
  <2>1. q \in {"@", "malloc"}
    BY <1>2, <1>3 DEF Fetch, Malloc, Executing
  <2>2. \E c : stack' = Append(Below(1), c)
    BY <1>3 DEF Fetch, Malloc, Allocate, SetStack, SetHeap, Fail, Plain
  <2>3. Effects.pops[q] = 1 /\ Effects.pushes[q] = 1
    BY <2>1, EffectsTable
  <2> QED
    BY <1>1, <2>2, <2>3, Pushing DEF AsTold, Changes
<1>4. CASE StoreMemory
  <2>1. q = "!" /\ Effects.pops[q] = 2 /\ Effects.pushes[q] = 0
    BY <1>2, <1>4, EffectsTable DEF StoreMemory, Executing
  <2>2. stack' = Below(2)
    BY <1>4 DEF StoreMemory, SetHeap, Fail, Plain
  <2> QED
    BY <1>1, <2>1, <2>2 DEF AsTold, Changes
<1>5. CASE Free
  <2>1. q = "free" /\ Effects.pops[q] = 1 /\ Effects.pushes[q] = 0
    BY <1>2, <1>5, EffectsTable DEF Free, Executing
  <2>2. stack' = Below(1)
    BY <1>5 DEF Free, SetHeap, SetStack, Fail, Plain
  <2> QED
    BY <1>1, <2>1, <2>2 DEF AsTold, Changes
<1> QED
  BY <1>3, <1>4, <1>5

LEMMA LocalsAgree ==
  ASSUME Plain, StoreLocal \/ LoadLocal
  PROVE  AsTold(xt.kind)
<1>1. /\ Len(stack) \in Nat /\ stack \in Seq(Cell)
      /\ Len(stack) >= 1 => Len(Popped(stack)) = Len(stack) - 1
  BY BelowHeights DEF Plain, Numbers
<1>2. CASE StoreLocal
  <2>1. stack' = Popped(stack)
    BY <1>2 DEF StoreLocal, SetLocal, Fail, Plain
  <2>2. xt.kind = "toLocal" /\ Effects.pops["toLocal"] = 1 /\ Effects.pushes["toLocal"] = 0
    BY <1>2, EffectsTable DEF StoreLocal
  <2> QED
    BY <1>1, <2>1, <2>2 DEF AsTold, Changes
<1>3. CASE LoadLocal
  <2>1. \E c : stack' = Append(stack, c)
    BY <1>3 DEF LoadLocal, SetLocal
  <2>2. xt.kind = "fromLocal" /\ Effects.pops["fromLocal"] = 0 /\ Effects.pushes["fromLocal"] = 1
    BY <1>3, EffectsTable DEF LoadLocal
  <2> QED
    BY <1>1, <2>1, <2>2, Pushing DEF AsTold, Changes
<1> QED
  BY <1>2, <1>3

\* The property of a step.
HeightAsTold ==
  /\ status = "running" /\ xt.kind \in {"prim", "toLocal", "fromLocal"}
  /\ xt \notin {PrimXt("'"), PrimXt("here")}
  /\ status' = "running"
  /\ LatestIsWord
  /\ \A i \in DOMAIN stack : IsNumber(stack[i])
  => LET q == IF IsLocal(xt) THEN xt.kind ELSE xt.p
     IN  Len(stack) >= Effects.pops[q] =>
           Len(stack') = Len(stack) - Effects.pops[q] + Effects.pushes[q]

LEMMA StepAgrees == Inv /\ [Next]_vars => [HeightAsTold]_vars
<1> SUFFICES ASSUME Inv, Next,
                    status = "running" /\ xt.kind \in {"prim", "toLocal", "fromLocal"},
                    xt \notin {PrimXt("'"), PrimXt("here")},
                    status' = "running", LatestIsWord,
                    \A i \in DOMAIN stack : IsNumber(stack[i])
             PROVE  AsTold(IF IsLocal(xt) THEN xt.kind ELSE xt.p)
  BY DEF HeightAsTold, AsTold, Changes
<1>1. Plain
  BY DEF Plain, Numbers, Inv, RunInv, GoodStack
<1>2. ~TokenLoop /\ ~ExecuteWord /\ ~Ended
  BY DEF TokenLoop, EndOfFile, ExecuteToken, CompileWord, CompileLocal, PushNumber,
     CompileNumber, RejectToken, ReadToken, Reading, ExecuteWord, FetchWord, SkipNumber,
     ReturnFromWord, Walking, CallWord, Undef, Ended
<1>3. xt \in Cell
  BY DEF Inv, RunInv, Good
<1>4. CASE xt.kind = "prim"
  <2>1. PICK q \in Primitives : xt = PrimXt(q)
    BY <1>3, <1>4 DEF Cell, NumCell, WordCell, PrimCell, LocalCell, UndefCell, PrimXt
  <2>2. q \in Primitives \ {"'", "here"} /\ xt.p = q /\ ~IsLocal(xt)
    BY <2>1 DEF PrimXt, IsLocal
  <2>3. ~StoreLocal /\ ~LoadLocal
    BY <1>4 DEF StoreLocal, LoadLocal
  <2>4. AsTold(q)
    BY <1>1, <1>2, <2>1, <2>2, <2>3, PureAgrees, ControlAgrees, DefiningAgrees,
       MemoryAgrees DEF Next, Memory
  <2> QED
    BY <2>2, <2>4
<1>5. CASE xt.kind \in {"toLocal", "fromLocal"}
  <2>1. \A q : ~Executing(q)
    BY <1>5 DEF Executing, PrimXt
  <2>2. StoreLocal \/ LoadLocal
    BY <1>2, <1>5, <2>1 DEF Next, Pure, Binary, Swap, Rot, Dup, Drop, Emit, Show,
       Underflow, Control, Branch, BranchIf, Literal, Defining, Tick, Create, Comma,
       ToImmediate, ToCompile, SetMode, MarkImmediate, Allot, Here, To,
       PatchDefinition, Patch, Memory, Fetch, StoreMemory, Malloc, Free
  <2> QED
    BY <1>1, <1>5, <2>2, LocalsAgree DEF IsLocal
<1> QED
  BY <1>4, <1>5

\* Whatever the program, a primitive that ends well changes the height of a
\* stack of numbers by what PrimitiveEffects.h tells static analysis.
THEOREM EffectsAlwaysAgree == Spec => EffectsAgree
<1>1. [][HeightAsTold]_vars => EffectsAgree
  BY PTL DEF EffectsAgree, HeightAsTold
<1> QED
  BY <1>1, StepAgrees, Invariance, PTL DEF Spec

-----------------------------------------------------------------------------
(***************************************************************************)
(* The interpreter implements the abstract dictionary of module            *)
(* Dictionary, under the mapping that shows each word's name, flag,        *)
(* definition and the names of its locals.                                 *)
(*                                                                         *)
(* Every action either leaves that table alone, creates a word, extends    *)
(* the newest word or overwrites one of its cells. That the word it        *)
(* touches is the newest one is LatestValid, a consequence of Inv.         *)
(***************************************************************************)

\* The table of words has an entry for every word.
TableFacts ==
  /\ Len(header) \in Nat
  /\ Len(WordTable) = Len(header)
  /\ DOMAIN WordTable = 1 .. Len(header)
  /\ \A w \in 1 .. Len(header) :
       /\ WordTable[w].name = header[w].name
       /\ WordTable[w].immediate = header[w].immediate
       /\ WordTable[w].body = def[w]
       /\ WordTable[w].names = DOMAIN locals[w]

LEMMA IntervalLength ==
  ASSUME NEW a \in Nat, NEW b \in Nat, 1 .. a = 1 .. b PROVE a = b
<1>1. a < b => b \in 1 .. b /\ b \notin 1 .. a
  OBVIOUS
<1>2. b < a => a \in 1 .. a /\ a \notin 1 .. b
  OBVIOUS
<1> QED
  BY <1>1, <1>2

LEMMA Table == Inv => TableFacts
<1> SUFFICES ASSUME Inv PROVE TableFacts
  OBVIOUS
<1> DEFINE n == Len(header)
           S == {WordTable[w] : w \in 1 .. n}
<1>1. n \in Nat
  BY LenProperties DEF Inv, WordsInv, WordsTyped
<1>2. WordTable \in [1 .. n -> S]
  <2> HIDE DEF n
  <2>1. WordTable = [w \in 1 .. n |-> WordTable[w]]
    BY DEF WordTable, n
  <2> QED
    BY <2>1 DEF S
<1>3. WordTable \in Seq(S)
  <2> HIDE DEF n, S
  <2> QED
    BY <1>1, <1>2, SeqDef
<1>4. DOMAIN WordTable = 1 .. Len(WordTable) /\ Len(WordTable) \in Nat
  <2> HIDE DEF S
  <2> QED
    BY <1>3, LenProperties
<1>5. DOMAIN WordTable = 1 .. n
  BY DEF WordTable
<1>6. Len(WordTable) = n
  <2> HIDE DEF n
  <2> QED
    BY <1>1, <1>4, <1>5, IntervalLength
<1> QED
  BY <1>1, <1>5, <1>6 DEF TableFacts, WordTable

LEMMA TableNext == Inv' => TableFacts'
BY Table, PTL

-----------------------------------------------------------------------------
(***************************************************************************)
(* The four ways a step shows in the table.                                *)
(***************************************************************************)
\* Names, flags, definitions and the names of locals stay: nothing shows.
LEMMA TableStays ==
  ASSUME UNCHANGED <<header, def>>,
         \A w \in 1 .. Len(header) : DOMAIN locals'[w] = DOMAIN locals[w]
  PROVE  WordTable' = WordTable
BY DEF WordTable

\* Every word but the newest keeps its entry.
LEMMA OthersStay ==
  ASSUME Inv, Inv', NEW k \in 1 .. Len(header), Len(header') = Len(header),
         \A w \in 1 .. Len(header) : w # k =>
           /\ header'[w] = header[w] /\ def'[w] = def[w]
           /\ DOMAIN locals'[w] = DOMAIN locals[w]
  PROVE  \A w \in 1 .. Len(header) : w # k => WordTable'[w] = WordTable[w]
BY DEF WordTable

LEMMA ExtendsNewest ==
  ASSUME Inv, Inv', LatestIsWord, Len(header') = Len(header),
         \A w \in 1 .. Len(header) : w # Latest =>
           /\ header'[w] = header[w] /\ def'[w] = def[w]
           /\ DOMAIN locals'[w] = DOMAIN locals[w],
         header'[Latest].name = header[Latest].name,
         header[Latest].immediate => header'[Latest].immediate,
         DOMAIN locals[Latest] \subseteq DOMAIN locals'[Latest],
         NEW cs \in Seq(Cell), def'[Latest] = def[Latest] \o cs
  PROVE  Words!Extend
<1> DEFINE n == Len(header)
<1>1. TableFacts /\ TableFacts' /\ Latest = n /\ n \in 1 .. n
  BY Table, TableNext, LatestValid
<1>2. \A w \in 1 .. n - 1 : WordTable'[w] = WordTable[w]
  BY <1>1, OthersStay DEF TableFacts
<1>3. /\ def[n] \in Seq(Cell)
      /\ Len(def[n]) <= Len(def'[n])
      /\ \A i \in 1 .. Len(def[n]) : def'[n][i] = def[n][i]
  <2>1. def[n] \in Seq(Cell) /\ Len(def[n]) \in Nat /\ Len(cs) \in Nat
    BY <1>1, DefinitionGood, LenProperties DEF GoodStack
  <2>2. /\ Len(def[n] \o cs) = Len(def[n]) + Len(cs)
        /\ \A i \in 1 .. Len(def[n]) : (def[n] \o cs)[i] = def[n][i]
    BY <2>1, ConcatProperties
  <2> HIDE DEF n
  <2> QED
    BY <1>1, <2>1, <2>2
<1>4. Words!Newest = WordTable[n] /\ Words!Newest' = WordTable'[n]
  BY <1>1 DEF TableFacts, Words!Newest
<1> QED
  BY <1>1, <1>2, <1>3, <1>4 DEF Words!Extend, Words!ChangeNewest, TableFacts

LEMMA PatchesNewest ==
  ASSUME Inv, Inv', LatestIsWord, UNCHANGED <<header, locals>>,
         NEW i \in 1 .. Len(def[Latest]), NEW c \in Cell,
         def' = [def EXCEPT ![Latest][i] = c]
  PROVE  Words!Patch
<1> DEFINE n == Len(header)
           d == [def[Latest] EXCEPT ![i] = c]
<1>1. TableFacts /\ TableFacts' /\ Latest = n /\ n \in 1 .. n
  BY Table, TableNext, LatestValid
<1>2. def[n] \in Seq(Cell) /\ Len(def[n]) \in Nat /\ n \in DOMAIN def
  BY <1>1, DefinitionGood, LenProperties DEF GoodStack, Inv, WordsInv, WordsTyped
<1>3. /\ Len(d) = Len(def[n])
      /\ \A j \in 1 .. Len(def[n]) : j # i => d[j] = def[n][j]
  BY <1>1, <1>2, ExceptSeq
<1>4. def'[n] = d /\ \A w \in 1 .. n : w # n => def'[w] = def[w]
  BY <1>1, <1>2
<1>5. \A w \in 1 .. n - 1 : WordTable'[w] = WordTable[w]
  <2> HIDE DEF d
  <2> QED
    BY <1>1, <1>4, OthersStay DEF TableFacts
<1>6. Words!Newest = WordTable[n] /\ Words!Newest' = WordTable'[n]
  BY <1>1 DEF TableFacts, Words!Newest
<1>7. Words!ChangeNewest
  <2> HIDE DEF d
  <2> QED
    BY <1>1, <1>5, <1>6 DEF Words!ChangeNewest, TableFacts
<1> QED
  <2> HIDE DEF d
  <2>1. /\ Words!Newest.body = def[n] /\ Words!Newest'.body = d
        /\ i \in 1 .. Len(def[n])
    BY <1>1, <1>4, <1>6 DEF TableFacts
  <2> HIDE DEF n
  <2> QED
    BY <1>3, <1>7, <2>1 DEF Words!Patch

LEMMA CreatesWord == ASSUME Inv, Inv', Create PROVE Words!Create
<1> DEFINE n == Len(header)
           h == [name |-> NextToken, immediate |-> FALSE]
<1>1. /\ TableFacts /\ TableFacts' /\ n \in Nat /\ NextToken \in Name
      /\ WordsTyped
  BY Table, TableNext, PosValid DEF TableFacts, Inv, WordsInv
<1>2. h \in [name : Name, immediate : BOOLEAN] /\ ~h.immediate
  BY <1>1
<1>3. header' = Append(header, h) /\ def' = Append(def, <<>>)
      /\ locals' = Append(locals, <<>>)
  BY DEF Create
<1> HIDE DEF h
<1>4. /\ Len(header') = n + 1
      /\ \A w \in 1 .. n : header'[w] = header[w]
      /\ ~header'[n + 1].immediate
  BY <1>1, <1>2, <1>3, AppendProperties DEF WordsTyped
<1>5. /\ \A w \in 1 .. n : def'[w] = def[w]
      /\ def'[n + 1] = <<>>
  <2>1. <<>> \in Seq(Cell)
    OBVIOUS
  <2> QED
    BY <1>1, <1>3, <2>1, AppendProperties DEF WordsTyped
<1>6. /\ \A w \in 1 .. n : locals'[w] = locals[w]
      /\ DOMAIN locals'[n + 1] = {}
  BY <1>1, <1>3, NoLocals, AppendProperties DEF WordsTyped
<1>7. \A w \in 1 .. n : WordTable'[w] = WordTable[w]
  BY <1>1, <1>4, <1>5, <1>6 DEF WordTable
<1>8. Words!Newest' = WordTable'[n + 1]
  BY <1>1, <1>4 DEF TableFacts, Words!Newest
<1> QED
  BY <1>1, <1>4, <1>5, <1>6, <1>7, <1>8 DEF Words!Create, TableFacts

-----------------------------------------------------------------------------
(***************************************************************************)
(* The steps.                                                              *)
(***************************************************************************)
\* Compile(cs), with the locals of other words and the headers left alone.
LEMMA CompileExtends ==
  ASSUME Inv, Inv', LatestIsWord, NEW cs \in Seq(Cell), Compile(cs),
         UNCHANGED header,
         \A w \in 1 .. Len(header) : w # Latest => locals'[w] = locals[w],
         DOMAIN locals[Latest] \subseteq DOMAIN locals'[Latest]
  PROVE  Words!Extend
<1>1. Latest \in 1 .. Len(header) /\ DOMAIN def = 1 .. Len(header)
  BY LatestValid, LenProperties DEF Inv, WordsInv, WordsTyped
<1>2. /\ def'[Latest] = def[Latest] \o cs
      /\ \A w \in 1 .. Len(header) : w # Latest => def'[w] = def[w]
  BY <1>1 DEF Compile
<1> QED
  BY <1>2, ExtendsNewest

LEMMA CompilingExtends ==
  ASSUME Inv, Inv', CompileWord \/ CompileLocal \/ CompileNumber
  PROVE  Words!Extend
<1>1. CASE CompileWord
  <2>1. <<Find(NextToken)>> \in Seq(Cell)
    BY FindGood DEF Good
  <2> QED
    BY <1>1, <2>1, CompileExtends DEF CompileWord, CompileCells
<1>2. CASE CompileLocal
  <2>1. LatestIsWord /\ FromLocal(Latest, NextToken) \in Cell
    <3>1. LatestIsWord
      BY <1>2 DEF CompileLocal, TokenIsLocal
    <3>2. Latest \in Nat /\ NextToken \in Name
      BY <3>1, LatestValid, PosValid
    <3> QED
      BY <3>1, <3>2 DEF FromLocal, Cell, LocalCell
  <2> QED
    <3>1. <<FromLocal(Latest, NextToken)>> \in Seq(Cell)
      BY <2>1
    <3> QED
      BY <1>2, <2>1, <3>1, CompileExtends DEF CompileLocal, CompileCells
<1>3. CASE CompileNumber
  <2>1. NumberOf[NextToken] \in Int
    BY <1>3, NumberAssumption, WidthAssumption DEF CompileNumber, TokenIsNumber
  <2>2. <<Find("literal"), Num(NumberOf[NextToken])>> \in Seq(Cell)
    BY <2>1, FindGood, NumGood DEF Good
  <2> QED
    BY <1>3, <2>2, CompileExtends DEF CompileNumber, CompileCells
<1> QED
  BY <1>1, <1>2, <1>3

LEMMA CommaExtends ==
  ASSUME Inv, Inv', Comma PROVE Words!Extend \/ WordTable' = WordTable
<1>1. CASE LatestIsWord
  <2>1. <<Top(stack)>> \in Seq(Cell)
    BY PopAnyGood DEF Inv, RunInv, Good
  <2> QED
    BY <1>1, <2>1, CompileExtends DEF Comma
<1>2. CASE ~LatestIsWord
  BY <1>2, TableStays DEF Comma, Fail, SetStack, wordVars
<1> QED
  BY <1>1, <1>2

LEMMA ToExtends == ASSUME Inv, Inv', To PROVE Words!Extend \/ WordTable' = WordTable
<1>1. CASE LatestIsWord
  <2>1. /\ Latest \in 1 .. Len(header)
        /\ Latest \in Nat
        /\ NextToken \in Name
        /\ DOMAIN locals = 1 .. Len(header)
    BY <1>1, LatestValid, PosValid, LenProperties DEF Inv, WordsInv, WordsTyped
  <2>2. <<ToLocal(Latest, NextToken)>> \in Seq(Cell)
    BY <2>1 DEF ToLocal, Cell, LocalCell
  <2>3. /\ Compile(<<ToLocal(Latest, NextToken)>>)
        /\ locals' = [locals EXCEPT ![Latest] = Bind(@, NextToken, Num(0))]
        /\ UNCHANGED header
    BY <1>1 DEF To
  <2>4. /\ \A w \in 1 .. Len(header) : w # Latest => locals'[w] = locals[w]
        /\ locals'[Latest] = Bind(locals[Latest], NextToken, Num(0))
    BY <2>1, <2>3
  <2>5. DOMAIN locals[Latest] \subseteq DOMAIN locals'[Latest]
    BY <2>4 DEF Bind
  <2> QED
    BY <1>1, <2>2, <2>3, <2>4, <2>5, CompileExtends
<1>2. CASE ~LatestIsWord
  BY <1>2, TableStays DEF To, Fail, wordVars
<1> QED
  BY <1>1, <1>2

LEMMA MarkExtends ==
  ASSUME Inv, Inv', MarkImmediate PROVE Words!Extend \/ WordTable' = WordTable
<1>1. CASE LatestIsWord
  <2> DEFINE h == [header[Latest] EXCEPT !.immediate = TRUE]
  <2>1. /\ Latest \in 1 .. Len(header)
        /\ header \in Seq([name : Name, immediate : BOOLEAN])
        /\ header[Latest] \in [name : Name, immediate : BOOLEAN]
    BY <1>1, LatestValid, ElementOfSeq DEF Inv, WordsInv, WordsTyped
  <2>2. h \in [name : Name, immediate : BOOLEAN] /\ h.name = header[Latest].name
        /\ h.immediate
    BY <2>1
  <2>3. header' = [header EXCEPT ![Latest] = h] /\ UNCHANGED <<def, locals>>
    BY <1>1 DEF MarkImmediate
  <2> HIDE DEF h
  <2>4. /\ Len(header') = Len(header)
        /\ header'[Latest] = h
        /\ \A w \in 1 .. Len(header) : w # Latest => header'[w] = header[w]
    BY <2>1, <2>2, <2>3, ExceptSeq
  <2>5. <<>> \in Seq(Cell) /\ def[Latest] = def[Latest] \o <<>>
    BY <2>1, DefinitionGood, ConcatEmptySeq DEF GoodStack
  <2> QED
    BY <1>1, <2>2, <2>3, <2>4, <2>5, ExtendsNewest
<1>2. CASE ~LatestIsWord
  BY <1>2, TableStays DEF MarkImmediate
<1> QED
  BY <1>1, <1>2

LEMMA PatchPatches ==
  ASSUME Inv, Inv', PatchDefinition PROVE Words!Patch \/ WordTable' = WordTable
<1> DEFINE k == Advance(def[Latest], 1, TopNumber(stack))
           c == Top(Below(1))
<1>1. CASE LatestIsWord /\ k # 0
  <2>1. c \in Cell /\ TopNumber(stack) \in Int
    <3>1. CanPop(stack, 1) /\ GoodStack(stack)
      BY <1>1 DEF PatchDefinition, Patch, Inv, RunInv
    <3> QED
      BY <3>1, BelowGood, PopAnyGood DEF Good
  <2>2. Latest \in 1 .. Len(header) /\ k \in 1 .. Len(def[Latest])
    <3>1. Latest \in 1 .. Len(header) /\ Len(def[Latest]) \in Nat
      BY <1>1, LatestValid, DefinitionGood
    <3>2. k \in 0 .. Len(def[Latest])
      BY <2>1, <3>1, AdvanceInside
    <3> QED
      BY <1>1, <3>1, <3>2
  <2>3. def' = [def EXCEPT ![Latest][k] = c] /\ UNCHANGED <<header, locals>>
    BY <1>1 DEF PatchDefinition, Patch
  <2> HIDE DEF k, c
  <2> QED
    BY <1>1, <2>1, <2>2, <2>3, PatchesNewest
<1>2. CASE ~(LatestIsWord /\ k # 0)
  BY <1>2, TableStays DEF PatchDefinition, Patch, Fail, SetStack, wordVars
<1> QED
  BY <1>1, <1>2

\* Calls, stores and loads give the locals of a word values, not names.
LEMMA LocalsHidden ==
  ASSUME Inv, CallWord \/ StoreLocal \/ LoadLocal
  PROVE  WordTable' = WordTable
<1>1. CASE UNCHANGED wordVars
  BY <1>1, TableStays DEF wordVars
<1>2. ASSUME NEW f, DOMAIN f = DOMAIN locals[xt.w], UNCHANGED <<header, def>>,
             locals' = [locals EXCEPT ![xt.w] = f]
      PROVE  WordTable' = WordTable
  BY <1>2, LenProperties, TableStays DEF Inv, WordsInv, WordsTyped
<1>3. CASE CallWord
  <2> DEFINE f == [x \in DOMAIN locals[xt.w] |-> Undef]
  <2>1. CASE Len(frames) = MaxDepth
    <3>1. UNCHANGED wordVars
      BY <1>3, <2>1 DEF CallWord, Fail, wordVars
    <3> QED
      BY <1>1, <3>1
  <2>2. CASE Len(frames) # MaxDepth
    <3>1. UNCHANGED <<header, def>> /\ locals' = [locals EXCEPT ![xt.w] = f]
      BY <1>3, <2>2 DEF CallWord
    <3>2. DOMAIN f = DOMAIN locals[xt.w]
      OBVIOUS
    <3> HIDE DEF f
    <3> QED
      BY <1>2, <3>1, <3>2
  <2> QED
    BY <2>1, <2>2
<1>4. CASE StoreLocal
  <2> DEFINE f == [locals[xt.w] EXCEPT ![xt.x] = Top(stack)]
  <2>1. CASE xt.x \notin DOMAIN locals[xt.w]
    <3>1. UNCHANGED wordVars
      BY <1>4, <2>1 DEF StoreLocal, Fail, wordVars
    <3> QED
      BY <1>1, <3>1
  <2>2. CASE xt.x \in DOMAIN locals[xt.w]
    <3>1. UNCHANGED <<header, def>> /\ locals' = [locals EXCEPT ![xt.w] = f]
      BY <1>4, <2>2 DEF StoreLocal, SetLocal
    <3>2. DOMAIN f = DOMAIN locals[xt.w]
      OBVIOUS
    <3> HIDE DEF f
    <3> QED
      BY <1>2, <3>1, <3>2
  <2> QED
    BY <2>1, <2>2
<1>5. CASE LoadLocal
  <2> DEFINE f == Bind(locals[xt.w], xt.x, Undef)
  <2>1. UNCHANGED <<header, def>> /\ locals' = [locals EXCEPT ![xt.w] = f]
    BY <1>5 DEF LoadLocal, SetLocal
  <2>2. xt.x \in DOMAIN locals[xt.w]
    <3>1. Good(xt) /\ IsLocal(xt)
      BY <1>5 DEF Inv, RunInv, LoadLocal, IsLocal
    <3> QED
      BY <3>1 DEF Good, Resolves
  <2>3. DOMAIN f = DOMAIN locals[xt.w]
    BY <2>2 DEF Bind
  <2> HIDE DEF f
  <2> QED
    BY <1>2, <2>1, <2>3
<1> QED
  BY <1>3, <1>4, <1>5

\* The other actions do not touch the words at all, or only the list of
\* dictionary entries.
LEMMA OthersHidden ==
  ASSUME UNCHANGED vars \/ Pure \/ Control \/ Tick \/ ToImmediate \/ ToCompile
           \/ Allot \/ Here \/ Fetch \/ StoreMemory \/ Malloc \/ Free
           \/ EndOfFile \/ ExecuteToken \/ PushNumber \/ RejectToken
           \/ FetchWord \/ SkipNumber \/ ReturnFromWord
  PROVE  WordTable' = WordTable
<1>1. UNCHANGED <<header, def, locals>>
  <2>1. CASE Pure
    BY <2>1 DEF Pure, Binary, Swap, Rot, Dup, Drop, Emit, Show, Underflow, SetStack,
                Fail, wordVars
  <2>2. CASE Control
    BY <2>2 DEF Control, Branch, BranchIf, Literal, Jump, SkipOperand, MoveBy, MoveTo,
                SetStack, Fail, wordVars
  <2>3. CASE Tick \/ ToImmediate \/ ToCompile \/ Allot \/ Here
    BY <2>3 DEF Tick, ToImmediate, ToCompile, SetMode, Allot, Here, wordVars
  <2>4. CASE Fetch \/ StoreMemory \/ Malloc \/ Free
    BY <2>4 DEF Fetch, StoreMemory, Malloc, Allocate, Free, SetHeap, SetStack, Fail, wordVars
  <2>5. CASE EndOfFile \/ ExecuteToken \/ PushNumber \/ RejectToken
    BY <2>5 DEF EndOfFile, ExecuteToken, PushNumber, RejectToken, Return
  <2>6. CASE FetchWord \/ SkipNumber \/ ReturnFromWord \/ UNCHANGED vars
    BY <2>6 DEF FetchWord, SkipNumber, ReturnFromWord, vars, wordVars
  <2> QED
    BY <2>1, <2>2, <2>3, <2>4, <2>5, <2>6
<1> QED
  BY <1>1, TableStays

LEMMA StepRefines == Inv /\ Inv' /\ [Next]_vars => [Words!Next]_WordTable
<1> SUFFICES ASSUME Inv, Inv', [Next]_vars
             PROVE  Words!Next \/ WordTable' = WordTable
  BY DEF Words!Next
<1>1. CASE TokenLoop
  BY <1>1, CompilingExtends, OthersHidden DEF TokenLoop, Words!Next
<1>2. CASE ExecuteWord
  BY <1>2, LocalsHidden, OthersHidden DEF ExecuteWord
<1>3. CASE Pure \/ Control \/ UNCHANGED vars
  BY <1>3, OthersHidden
<1>4. CASE Defining
  BY <1>4, CreatesWord, CommaExtends, ToExtends, MarkExtends, PatchPatches,
     OthersHidden DEF Defining, Words!Next
<1>5. CASE Memory
  BY <1>5, LocalsHidden, OthersHidden DEF Memory
<1> QED
  BY <1>1, <1>2, <1>3, <1>4, <1>5 DEF Next, Ended

LEMMA InitRefines == Init => Words!Init
<1> SUFFICES ASSUME Init PROVE Words!Init
  OBVIOUS
<1>1. TableFacts
  BY InitInv, Table
<1> DEFINE colon     == [name |-> ":", immediate |-> FALSE]
           semicolon == [name |-> ";", immediate |-> TRUE]
<1>2. /\ Len(header) = 2 /\ 1 \in 1 .. Len(header) /\ 2 \in 1 .. Len(header)
      /\ header[1] = colon /\ header[2] = semicolon
  <2>1. header = <<colon, semicolon>>
    BY Zenon DEF Init
  <2> HIDE DEF colon, semicolon
  <2> QED
    BY <2>1
<1>3. DOMAIN locals[1] = {} /\ DOMAIN locals[2] = {}
  <2>1. locals = << <<>>, <<>> >>
    BY Zenon DEF Init
  <2> QED
    BY <2>1, NoLocals
<1> QED
  <2>1. /\ Len(WordTable) = 2
        /\ \A w \in {1, 2} : WordTable[w].names = {}
    <3> HIDE DEF colon, semicolon
    <3> QED
      BY <1>1, <1>2, <1>3 DEF TableFacts
  <2>2. /\ WordTable[1].name = colon.name /\ WordTable[2].name = semicolon.name
        /\ WordTable[1].immediate = colon.immediate
        /\ WordTable[2].immediate = semicolon.immediate
    <3> HIDE DEF colon, semicolon
    <3> QED
      BY <1>1, <1>2, Zenon DEF TableFacts
  <2>3. /\ colon.name = ":" /\ semicolon.name = ";"
        /\ ~colon.immediate /\ semicolon.immediate
    OBVIOUS
  <2> HIDE DEF colon, semicolon
  <2> QED
    BY <2>1, <2>2, <2>3, Zenon DEF Words!Init

\* The interpreter never forgets, reorders or renames a word, and changes
\* only the newest one, by adding cells or overwriting one: whoever holds a
\* pointer to a word or an iterator into an older definition may rely on it.
THEOREM WordsKept == Spec => KeepsWords
<1>1. Spec => Words!Init /\ [][Words!Next]_WordTable
  BY InitRefines, StepRefines, Invariance, PTL DEF Spec
<1> QED
  BY <1>1 DEF KeepsWords, Words!Spec

-----------------------------------------------------------------------------
(***************************************************************************)
(* Definitions call no newer word: a consequence of the abstract           *)
(* dictionary, and of every call leading to a word that exists.            *)
(***************************************************************************)
CallsExist ==
  \A w \in 1 .. Len(header) : \A i \in 1 .. Len(def[w]) :
    def[w][i].kind = "word" => def[w][i].w \in 1 .. Len(header)

LEMMA CallsInRange == Inv => CallsExist
BY LenProperties DEF Inv, WordsInv, WordsTyped, WordsResolve, Resolves, CallsExist

LEMMA CallsInRangeNext == Inv' => CallsExist'
BY CallsInRange, PTL

LEMMA StepCallsOlder ==
  Inv /\ Inv' /\ [Words!Next]_WordTable /\ CallsOlder => CallsOlder'
<1> SUFFICES ASSUME Inv, Inv', [Words!Next]_WordTable, CallsOlder,
                    NEW w \in DOMAIN def', NEW i \in DOMAIN def'[w],
                    def'[w][i].kind = "word"
             PROVE  def'[w][i].w <= w
  BY DEF CallsOlder
<1> DEFINE n == Len(header)
<1>1. TableFacts /\ TableFacts' /\ n \in Nat /\ Len(header') \in Nat
  BY Table, TableNext DEF TableFacts
<1>2. /\ DOMAIN def = 1 .. n /\ DOMAIN def' = 1 .. Len(header')
      /\ w \in 1 .. Len(header')
  BY LenProperties DEF Inv, WordsInv, WordsTyped
<1>3. def'[w] \in Seq(Cell) /\ i \in 1 .. Len(def'[w])
  BY <1>2, ElementOfSeq, LenProperties DEF Inv, WordsInv, WordsTyped
<1>4. def'[w][i].w \in 1 .. Len(header')
  BY <1>2, <1>3, CallsInRangeNext DEF CallsExist
<1>5. CASE w \in 1 .. n /\ def'[w] = def[w]
  BY <1>2, <1>5 DEF CallsOlder
<1>6. CASE w = Len(header')
  BY <1>1, <1>4, <1>6
<1>7. w = Len(header') \/ (w \in 1 .. n /\ def'[w] = def[w])
  <2>1. CASE Words!Create
    <3>1. Len(header') = n + 1 /\ \A v \in 1 .. n : WordTable'[v] = WordTable[v]
      BY <1>1, <2>1 DEF Words!Create, TableFacts
    <3> QED
      BY <1>1, <1>2, <3>1 DEF TableFacts
  <2>2. CASE Words!Extend \/ Words!Patch
    <3>1. Len(header') = n /\ \A v \in 1 .. n - 1 : WordTable'[v] = WordTable[v]
      BY <1>1, <2>2 DEF Words!Extend, Words!Patch, Words!ChangeNewest, TableFacts
    <3> QED
      BY <1>1, <1>2, <3>1 DEF TableFacts
  <2>3. CASE WordTable' = WordTable
    <3>1. Len(header') = n
      BY <1>1, <2>3 DEF TableFacts
    <3> QED
      BY <1>1, <1>2, <2>3, <3>1 DEF TableFacts
  <2> QED
    BY <2>1, <2>2, <2>3 DEF Words!Next
<1> QED
  BY <1>5, <1>6, <1>7

LEMMA InitCallsOlder == Init => CallsOlder
<1> SUFFICES ASSUME Init PROVE CallsOlder
  OBVIOUS
<1> DEFINE colon     == <<PrimXt("create"), PrimXt("]")>>
           semicolon == <<PrimXt("[")>>
<1>1. def = <<colon, semicolon>>
  BY Zenon DEF Init
<1>2. /\ DOMAIN colon = 1 .. 2 /\ \A i \in 1 .. 2 : colon[i].kind # "word"
      /\ DOMAIN semicolon = 1 .. 1 /\ semicolon[1].kind # "word"
  BY DEF PrimXt
<1> HIDE DEF colon, semicolon
<1>3. /\ DOMAIN def = 1 .. 2 /\ def[1] = colon /\ def[2] = semicolon
  BY <1>1
<1> QED
  BY <1>2, <1>3 DEF CallsOlder

\* Static analysis follows the cells of definitions from word to word: it only
\* ever comes to older words, or back to the word it is in.
THEOREM CallsGoBack == Spec => []CallsOlder
<1>1. Spec => []Inv /\ [][Words!Next]_WordTable
  BY Invariance, WordsKept, PTL DEF KeepsWords, Words!Spec
<1>2. Spec => Init
  BY PTL DEF Spec
<1> QED
  BY <1>1, <1>2, StepCallsOlder, InitCallsOlder, PTL
=============================================================================
