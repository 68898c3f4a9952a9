----------------------------- MODULE Interpreter -----------------------------
(***************************************************************************)
(* The interpretation phase of movForth: the token loop                    *)
(* Interpreter::interpret, the dictionary it builds, and the execution of  *)
(* words (ForthWord::execute and the primitives of init_words).            *)
(*                                                                         *)
(* A step of the token loop either compiles a token into the newest word   *)
(* or sets xt, the word to execute. The active calls of ForthWord::execute *)
(* are the sequence frames: each holds the word whose definition it walks  *)
(* and pc, the 1-based index of the cell after the one under execution.    *)
(* A primitive run straight from the token loop has no frame: the code     *)
(* gives it an iterator into an empty list.                                *)
(*                                                                         *)
(* Two outcomes stop the model where the program has no next state of its  *)
(* own: "aborted" is an exception nobody catches (bad_variant_access,      *)
(* out_of_range) and "undefined" is undefined behaviour (back() of an      *)
(* empty vector, a cell read behind a list's last one, a wild address,     *)
(* signed overflow, division by zero, native stack exhaustion).            *)
(***************************************************************************)
EXTENDS Cells, SequencesExt

CONSTANTS
  Sources,      \* the Forth files: a set of sequences of tokens
  NumberOf,     \* stoi: the int read from each token that begins with a number
  MaxDepth,     \* bound: nested ForthWord::execute calls the native stack holds
  CellBytes,    \* sizeof(element)
  BlockSpan,    \* bound: malloc grants at most this many bytes per block
  Garbage,      \* the elements an uninitialised heap cell may hold
  LeftFirst     \* of two pop_number operands of / and of >, which C++ leaves
                \* unordered, the compiler calls the left one first

ASSUME SourcesAssumption == Sources \subseteq Seq(Token)

ASSUME NumberAssumption ==
  /\ DOMAIN NumberOf \subseteq Token
  /\ \A t \in DOMAIN NumberOf : NumberOf[t] \in -MaxInt - 1 .. MaxInt

ASSUME BoundsAssumption ==
  /\ MaxDepth \in Nat \ {0}
  /\ CellBytes \in Nat \ {0}
  /\ BlockSpan \in Nat \ {0}
  /\ Garbage \subseteq Element
  /\ Garbage # {}
  /\ LeftFirst \in BOOLEAN

VARIABLES
  source,       \* the tokens of the file, comments removed
  pos,          \* the next token next_token() returns
  dictionary,   \* Interpreter::dictionary: words and the zeros of HERE and ALLOT
  header,       \* name and immediate flag of each ForthWord created
  def,          \* ForthWord::definition of each word
  locals,       \* ForthWord::locals of each word: name -> value
  heap,         \* the blocks malloc returned, in order
  stack,        \* Stack::stack, the top at the end
  immediate,    \* Interpreter::immediate
  frames,       \* the active calls of ForthWord::execute, innermost last
  xt,           \* the word about to execute, Undef when there is none
  out,          \* what "." printed
  status        \* "running", or how interpret() ended

vars == <<source, pos, dictionary, header, def, locals, heap, stack,
          immediate, frames, xt, out, status>>

wordVars == <<dictionary, header, def, locals>>

Frame == [w : Nat, pc : Nat]

Statuses == {"running", "done", "error", "aborted", "undefined"}

(***************************************************************************)
(* Stack.cpp. pop_number leaves a word or an empty cell on the stack and   *)
(* answers 0; on an empty stack it is undefined, while pop and top answer  *)
(* an empty cell.                                                          *)
(***************************************************************************)
TopNumber(s)   == IF IsNumber(Last(s)) THEN Last(s).n ELSE 0
DropNumber(s)  == IF IsNumber(Last(s)) THEN Front(s) ELSE s
Top(s)         == IF s = <<>> THEN Undef ELSE Last(s)
Popped(s)      == IF s = <<>> THEN <<>> ELSE Front(s)

\* k calls of pop_number find the stack nonempty.
CanPop(s, k) ==
  /\ s # <<>>
  /\ k >= 2 => DropNumber(s) # <<>>
  /\ k >= 3 => DropNumber(DropNumber(s)) # <<>>

(***************************************************************************)
(* Dictionary lookups. dictionary.back() is the newest entry; find returns *)
(* the newest word of a name, else the primitive, else nullptr.            *)
(***************************************************************************)
LatestIsWord == IsWord(Last(dictionary))
Latest       == Last(dictionary).w

IsNewest(name, i) ==
  LET Named(j) == IsWord(dictionary[j]) /\ header[dictionary[j].w].name = name
  IN  Named(i) /\ \A j \in DOMAIN dictionary : Named(j) => j <= i

Find(name) ==
  IF \E i \in DOMAIN dictionary : IsNewest(name, i)
  THEN dictionary[CHOOSE i \in DOMAIN dictionary : IsNewest(name, i)]
  ELSE IF name \in Primitives THEN PrimXt(name) ELSE Undef

IsImmediate(c) ==
  \/ c.kind = "word" /\ header[c.w].immediate
  \/ c.kind = "prim" /\ c.p \in ImmediatePrimitives

\* Variant: the cells go to the front.
CompileInFront(cs) == def' = [def EXCEPT ![Latest] = cs \o @]

\* ForthWord::add of the cells cs to the newest word.
Compile(cs) == def' = [def EXCEPT ![Latest] = @ \o cs]

\* An unordered_map insert that keeps a binding already there.
Bind(f, x, v) ==
  [y \in DOMAIN f \cup {x} |-> IF y \in DOMAIN f THEN f[y] ELSE v]

(***************************************************************************)
(* Input. next_token answers "" once the file is exhausted.                *)
(***************************************************************************)
AtEnd     == pos > Len(source)
NextToken == IF AtEnd THEN "" ELSE source[pos]
Consume   == pos' = IF AtEnd THEN pos ELSE pos + 1

(***************************************************************************)
(* Initially: the constructor has put ":" and ";" in the dictionary.       *)
(***************************************************************************)
Init ==
  /\ source \in Sources
  /\ pos = 1
  /\ dictionary = <<WordXt(1), WordXt(2)>>
  /\ header = <<[name |-> ":", immediate |-> FALSE],
                [name |-> ";", immediate |-> TRUE]>>
  /\ def = << <<PrimXt("create"), PrimXt("]")>>, <<PrimXt("[")>> >>
  /\ locals = << <<>>, <<>> >>
  /\ heap = <<>>
  /\ stack = <<>>
  /\ immediate = TRUE
  /\ frames = <<>>
  /\ xt = Undef
  /\ out = <<>>
  /\ status = "running"

(***************************************************************************)
(* The token loop: Interpreter::interpret.                                 *)
(***************************************************************************)
Reading == status = "running" /\ xt = Undef /\ frames = <<>>

\* interpret() returns: FALSE at the end of the file, TRUE on an error.
Return(how) ==
  /\ status' = how
  /\ UNCHANGED <<source, dictionary, header, def, locals, heap, stack,
                 immediate, frames, xt, out>>

EndOfFile == Reading /\ AtEnd /\ Return("done") /\ UNCHANGED pos

ReadToken == Reading /\ ~AtEnd /\ pos' = pos + 1

TokenIsWord   == Find(NextToken) # Undef
TokenIsLocal  == /\ ~TokenIsWord
                 /\ LatestIsWord
                 /\ NextToken \in DOMAIN locals[Latest]
TokenIsNumber == ~TokenIsWord /\ ~TokenIsLocal /\ NextToken \in DOMAIN NumberOf

ExecuteToken ==
  /\ ReadToken
  /\ TokenIsWord
  /\ IsImmediate(Find(NextToken)) \/ immediate
  /\ xt' = Find(NextToken)
  /\ UNCHANGED <<source, dictionary, header, def, locals, heap, stack,
                 immediate, frames, out, status>>

CompileCells(cs) ==
  /\ Compile(cs)
  /\ UNCHANGED <<source, dictionary, header, locals, heap, stack,
                 immediate, frames, xt, out, status>>

CompileWord ==
  /\ ReadToken
  /\ TokenIsWord
  /\ ~IsImmediate(Find(NextToken)) /\ ~immediate
  /\ LatestIsWord
  /\ CompileCells(<<Find(NextToken)>>)

\* Whatever the state: the name of a local of the newest word compiles.
CompileLocal ==
  /\ ReadToken
  /\ TokenIsLocal
  /\ CompileCells(<<FromLocal(Latest, NextToken)>>)

PushNumber ==
  /\ ReadToken
  /\ TokenIsNumber
  /\ immediate
  /\ stack' = Append(stack, Num(NumberOf[NextToken]))
  /\ UNCHANGED <<source, dictionary, header, def, locals, heap,
                 immediate, frames, xt, out, status>>

CompileNumber ==
  /\ ReadToken
  /\ TokenIsNumber
  /\ ~immediate
  /\ LatestIsWord
  /\ CompileCells(<<Find("literal"), Num(NumberOf[NextToken])>>)

\* Neither word, local nor number; or nothing to compile into.
RejectToken ==
  /\ ReadToken
  /\ \/ ~TokenIsWord /\ ~TokenIsLocal /\ ~TokenIsNumber
     \/ ~immediate /\ ~LatestIsWord /\ TokenIsNumber
     \/ /\ ~immediate /\ ~LatestIsWord /\ TokenIsWord
        /\ ~IsImmediate(Find(NextToken))
  /\ Return("error")

(***************************************************************************)
(* ForthWord::execute.                                                     *)
(***************************************************************************)
Frame0     == Last(frames)                 \* the innermost call
Body       == def[Frame0.w]
HasOperand == frames # <<>> /\ Frame0.pc <= Len(Body)
Operand    == Body[Frame0.pc]

GoTo(i) == frames' = [frames EXCEPT ![Len(frames)].pc = i]

Walking == status = "running" /\ xt = Undef /\ frames # <<>>

\* Variant: a number is taken for a word.
FetchAny ==
  /\ Walking /\ HasOperand
  /\ xt' = Operand
  /\ GoTo(Frame0.pc + 1)
  /\ UNCHANGED <<source, pos, wordVars, heap, stack, immediate, out, status>>

\* The next cell is a word: execute it.
FetchWord ==
  /\ Walking /\ HasOperand /\ IsWord(Operand)
  /\ xt' = Operand
  /\ GoTo(Frame0.pc + 1)
  /\ UNCHANGED <<source, pos, wordVars, heap, stack, immediate, out, status>>

\* "Too many numbers in definition": report and go on.
SkipNumber ==
  /\ Walking /\ HasOperand /\ ~IsWord(Operand)
  /\ GoTo(Frame0.pc + 1)
  /\ UNCHANGED <<source, pos, wordVars, heap, stack, immediate, xt, out, status>>

ReturnFromWord ==
  /\ Walking /\ ~HasOperand
  /\ frames' = Front(frames)
  /\ UNCHANGED <<source, pos, wordVars, heap, stack, immediate, xt, out, status>>

Fail(how) ==
  /\ status' = how
  /\ xt' = Undef
  /\ UNCHANGED <<source, pos, wordVars, heap, stack, immediate, frames, out>>

\* A Forth word starts: every local it has is reset, even if a call of the
\* same word is still active.
CallWord ==
  /\ status = "running" /\ xt.kind = "word"
  /\ IF Len(frames) = MaxDepth
     THEN Fail("undefined")
     ELSE /\ locals' = [locals EXCEPT ![xt.w] = [x \in DOMAIN @ |-> Undef]]
          /\ frames' = Append(frames, [w |-> xt.w, pc |-> 1])
          /\ xt' = Undef
          /\ UNCHANGED <<source, pos, dictionary, header, def, heap, stack,
                         immediate, out, status>>

(***************************************************************************)
(* The primitives. Executing(q): q runs; it changes only what its action   *)
(* says.                                                                   *)
(***************************************************************************)
Executing(q) == status = "running" /\ xt = PrimXt(q)

\* q ends well, having replaced the stack by s and nothing else.
SetStack(s) ==
  /\ xt' = Undef
  /\ stack' = s
  /\ UNCHANGED <<source, pos, wordVars, heap, immediate, frames, out, status>>

\* What a primitive makes of a, which pop_number answers first, and b. A
\* result that is no element is undefined.
Result(q, a, b) ==
  LET left  == IF LeftFirst THEN a ELSE b
      right == IF LeftFirst THEN b ELSE a
  IN  CASE q = "=" -> Bool(a = b)
        [] q = "+" -> a + b
        [] q = "-" -> b - a
        [] q = "*" -> a * b
        [] q = "<" -> Bool(left > right)
        [] q = "&" -> BitOr(a, b)
        [] q = "/" -> IF right = 0 THEN MaxElement + 1 ELSE Quotient(left, right)

\* The stack once k calls of pop_number are done, k <= 3; the j-th of them
\* answers TopNumber(Below(j - 1)).
Below(k) ==
  CASE k = 0 -> stack
    [] k = 1 -> DropNumber(stack)
    [] k = 2 -> DropNumber(DropNumber(stack))
    [] k = 3 -> DropNumber(DropNumber(DropNumber(stack)))

Binary(q) ==
  /\ Executing(q)
  /\ CanPop(stack, 2)
  /\ LET v == Result(q, TopNumber(stack), TopNumber(Below(1)))
     IN  IF v \in Element THEN SetStack(Append(Below(2), Num(v)))
                          ELSE Fail("undefined")

Swap ==
  /\ Executing("swap")
  /\ CanPop(stack, 2)
  /\ SetStack(Below(2) \o <<Num(TopNumber(stack)), Num(TopNumber(Below(1)))>>)

\* Variant: nothing moves.
RotNothing ==
  /\ Executing("rot")
  /\ CanPop(stack, 3)
  /\ SetStack(stack)

Rot ==
  /\ Executing("rot")
  /\ CanPop(stack, 3)
  /\ SetStack(Below(3) \o <<Num(TopNumber(Below(1))), Num(TopNumber(stack)),
                            Num(TopNumber(Below(2)))>>)

\* Variant: the copy replaces the original.
DupReplacing == Executing("dup") /\ SetStack(Append(Popped(stack), Top(stack)))

Dup == Executing("dup") /\ SetStack(Append(stack, Top(stack)))

Drop ==
  /\ Executing("drop")
  /\ CanPop(stack, 1)
  /\ SetStack(Below(1))

Emit ==
  /\ Executing(".")
  /\ CanPop(stack, 1)
  /\ out' = Append(out, ToInt(TopNumber(stack)))
  /\ stack' = Below(1)
  /\ xt' = Undef
  /\ UNCHANGED <<source, pos, wordVars, heap, immediate, frames, status>>

\* .S and see only print.
Show == \E q \in {".S", "see"} : Executing(q) /\ SetStack(stack)

\* pop_number meets an empty stack: stack.back() of an empty vector.
Arity(q) ==
  CASE q \in BinaryPrimitives \cup {"swap"}               -> 2
    [] q = "rot"                                          -> 3
    [] q \in {"drop", ".", "allot", "@", "branchif", "malloc", "free"} -> 1
    [] q = "!"                                            ->
         IF immediate THEN 2 ELSE IF LatestIsWord THEN 1 ELSE 0
    [] OTHER                                              -> 0

Underflow ==
  /\ status = "running" /\ xt.kind = "prim"
  /\ Arity(xt.p) > 0 /\ ~CanPop(stack, Arity(xt.p))
  /\ Fail("undefined")

(***************************************************************************)
(* Branches and literals read the cell after their own and move pc. No     *)
(* offset is checked. A std::list is a ring of its cells and one sentinel, *)
(* end(), so an iterator that leaves it at one end comes back at the       *)
(* other: only reading or writing the sentinel is undefined.               *)
(***************************************************************************)
\* Where advance(it, n) ends in the ring of list d, from place i; the cells
\* have places 1 to Len(d), the sentinel has place 0.
Advance(d, i, n) == (i + n) % (Len(d) + 1)

\* The primitive ends well, leaving stack s and the iterator at i.
MoveTo(i, s) ==
  /\ GoTo(i)
  /\ xt' = Undef
  /\ stack' = s
  /\ UNCHANGED <<source, pos, wordVars, heap, immediate, out, status>>

\* The iterator, at the primitive's own cell, advances by n; the loop of execute
\* then increments it.
MoveBy(n, s) == MoveTo(Advance(Body, Frame0.pc - 1, n) + 1, s)

\* advance(ip, as_number()).
Jump(s) ==
  IF ~HasOperand THEN Fail("undefined")
  ELSE IF ~IsNumber(Operand) THEN Fail("aborted")
  ELSE MoveBy(Operand.n, s)

\* ip++, where a frameless primitive has an iterator nobody reads again.
SkipOperand(s) ==
  IF frames = <<>> THEN SetStack(s) ELSE MoveBy(1, s)

Branch == Executing("branch") /\ Jump(stack)

\* Variant: the condition is only looked at.
BranchIfPeeking ==
  /\ Executing("branchif")
  /\ CanPop(stack, 1)
  /\ IF TopNumber(stack) = 0 THEN Jump(stack) ELSE SkipOperand(stack)

BranchIf ==
  /\ Executing("branchif")
  /\ CanPop(stack, 1)
  /\ IF TopNumber(stack) = 0 THEN Jump(Below(1)) ELSE SkipOperand(Below(1))

Literal ==
  /\ Executing("literal")
  /\ IF ~HasOperand THEN Fail("undefined")
                    ELSE MoveTo(Frame0.pc + 1, Append(stack, Operand))

(***************************************************************************)
(* The primitives that read the input or change the dictionary.            *)
(***************************************************************************)
Tick ==
  /\ Executing("'")
  /\ Consume
  /\ stack' = IF Find(NextToken) = Undef THEN stack
              ELSE Append(stack, Find(NextToken))
  /\ xt' = Undef
  /\ UNCHANGED <<source, wordVars, heap, immediate, frames, out, status>>

Create ==
  /\ Executing("create")
  /\ Consume
  /\ dictionary' = Append(dictionary, WordXt(Len(header) + 1))
  /\ header' = Append(header, [name |-> NextToken, immediate |-> FALSE])
  /\ def' = Append(def, <<>>)
  /\ locals' = Append(locals, <<>>)
  /\ xt' = Undef
  /\ UNCHANGED <<source, heap, stack, immediate, frames, out, status>>

\* In either mode the top of the stack, even an empty cell, is compiled; only
\* the behaviour without a word to compile into differs.
Comma ==
  /\ Executing(",")
  /\ IF LatestIsWord
     THEN /\ Compile(<<Top(stack)>>)
          /\ stack' = Popped(stack)
          /\ xt' = Undef
          /\ UNCHANGED <<source, pos, dictionary, header, locals, heap,
                         immediate, frames, out, status>>
     ELSE IF immediate THEN Fail("aborted") ELSE SetStack(stack)

SetMode(q, mode) ==
  /\ Executing(q)
  /\ immediate' = mode
  /\ xt' = Undef
  /\ UNCHANGED <<source, pos, wordVars, heap, stack, frames, out, status>>

ToImmediate == SetMode("[", TRUE)
ToCompile   == SetMode("]", FALSE)

MarkImmediate ==
  /\ Executing("immediate")
  /\ header' = IF LatestIsWord
               THEN [header EXCEPT ![Latest].immediate = TRUE] ELSE header
  /\ xt' = Undef
  /\ UNCHANGED <<source, pos, dictionary, def, locals, heap, stack, immediate,
                 frames, out, status>>

\* Variant: a negative count pops that many entries but the first, words too.
AllotEntries ==
  /\ Executing("allot")
  /\ CanPop(stack, 1)
  /\ dictionary' = IF TopNumber(stack) >= 0
                   THEN dictionary \o [i \in 1 .. TopNumber(stack) |-> Num(0)]
                   ELSE SubSeq(dictionary, 1,
                               IF Len(dictionary) + TopNumber(stack) < 1 THEN 1
                               ELSE Len(dictionary) + TopNumber(stack))
  /\ stack' = Below(1)
  /\ xt' = Undef
  /\ UNCHANGED <<source, pos, header, def, locals, heap, immediate, frames,
                 out, status>>

\* A negative count pops every number above the newest word, however many
\* the count asked for; a word is never popped.
Allot ==
  /\ Executing("allot")
  /\ CanPop(stack, 1)
  /\ \/ /\ TopNumber(stack) >= 0
        /\ dictionary' = dictionary \o [i \in 1 .. TopNumber(stack) |-> Num(0)]
     \/ /\ TopNumber(stack) < 0
        /\ \E k \in DOMAIN dictionary :
             /\ IsWord(dictionary[k])
             /\ \A j \in k + 1 .. Len(dictionary) : IsNumber(dictionary[j])
             /\ dictionary' = SubSeq(dictionary, 1, k)
  /\ stack' = Below(1)
  /\ xt' = Undef
  /\ UNCHANGED <<source, pos, header, def, locals, heap, immediate, frames,
                 out, status>>

\* Variant: the position of the last cell, not of the next.
HereLast ==
  /\ Executing("here")
  /\ dictionary' = IF immediate THEN Append(dictionary, Num(0)) ELSE dictionary
  /\ stack' = IF immediate \/ ~LatestIsWord THEN stack
              ELSE Append(stack, Num(Len(def[Latest]) - 1))
  /\ xt' = Undef
  /\ UNCHANGED <<source, pos, header, def, locals, heap, immediate, frames,
                 out, status>>

\* Immediate: a zero in the dictionary. Compiling: where the next cell goes.
Here ==
  /\ Executing("here")
  /\ dictionary' = IF immediate THEN Append(dictionary, Num(0)) ELSE dictionary
  /\ stack' = IF immediate \/ ~LatestIsWord THEN stack
              ELSE Append(stack, Num(Len(def[Latest])))
  /\ xt' = Undef
  /\ UNCHANGED <<source, pos, header, def, locals, heap, immediate, frames,
                 out, status>>

\* Variant: the local is left to its first use to bind.
ToUnbound ==
  /\ Executing("to")
  /\ IF ~LatestIsWord THEN Fail("aborted")
     ELSE /\ Consume
          /\ Compile(<<ToLocal(Latest, NextToken)>>)
          /\ xt' = Undef
          /\ UNCHANGED <<source, dictionary, header, locals, heap, stack,
                         immediate, frames, out, status>>

\* The target of "to" is bound to 0 unless the word has it, and a store to it
\* is compiled, in either mode.
To ==
  /\ Executing("to")
  /\ IF ~LatestIsWord THEN Fail("aborted")
     ELSE /\ Consume
          /\ Compile(<<ToLocal(Latest, NextToken)>>)
          /\ locals' = [locals EXCEPT ![Latest] = Bind(@, NextToken, Num(0))]
          /\ xt' = Undef
          /\ UNCHANGED <<source, dictionary, header, heap, stack, immediate,
                         frames, out, status>>

(***************************************************************************)
(* Locals. A store pops whatever is there; a load of an unbound name would *)
(* bind it.                                                                *)
(***************************************************************************)
SetLocal(s, f) ==
  /\ locals' = [locals EXCEPT ![xt.w] = f]
  /\ stack' = s
  /\ xt' = Undef
  /\ UNCHANGED <<source, pos, dictionary, header, def, heap, immediate, frames,
                 out, status>>

StoreLocal ==
  /\ status = "running" /\ xt.kind = "toLocal"
  /\ IF xt.x \notin DOMAIN locals[xt.w]
     THEN Fail("aborted")
     ELSE SetLocal(Popped(stack), [locals[xt.w] EXCEPT ![xt.x] = Top(stack)])

LoadLocal ==
  /\ status = "running" /\ xt.kind = "fromLocal"
  /\ LET bound == Bind(locals[xt.w], xt.x, Undef)
     IN  SetLocal(Append(stack, bound[xt.x]), bound)

(***************************************************************************)
(* Memory. Block b starts at address b * (BlockSpan + CellBytes). An       *)
(* address is dereferenced whatever it is: at a cell of a freed block the  *)
(* read or write may go well, what it reads being the old content or what  *)
(* the allocator left there; outside every block it is undefined. malloc   *)
(* may fail, always does beyond the bound, and may hand out a freed block  *)
(* again.                                                                  *)
(***************************************************************************)
Base(b) == b * (BlockSpan + CellBytes)

\* Address a is cell i of block b.
At(b, i, a) == i \in DOMAIN heap[b].cells /\ a = Base(b) + (i - 1) * CellBytes

\* The cell at address a, if any, belongs to no block that was freed.
Owned(a) == \E b \in DOMAIN heap : heap[b].live /\ \E i \in DOMAIN heap[b].cells : At(b, i, a)

\* What a cell of a block may be read as.
Contents(b, i) ==
  (IF IsNumber(heap[b].cells[i]) THEN {heap[b].cells[i].n} ELSE {}) \cup
  (IF IsNumber(heap[b].cells[i]) /\ heap[b].live THEN {} ELSE Garbage)

Fetch ==
  /\ Executing("@")
  /\ CanPop(stack, 1)
  /\ \/ ~Owned(TopNumber(stack)) /\ Fail("undefined")
     \/ \E b \in DOMAIN heap : \E i \in DOMAIN heap[b].cells :
          /\ At(b, i, TopNumber(stack))
          /\ \E v \in Contents(b, i) : SetStack(Append(Below(1), Num(v)))

SetHeap(h, s) ==
  /\ heap' = h
  /\ stack' = s
  /\ xt' = Undef
  /\ UNCHANGED <<source, pos, wordVars, immediate, frames, out, status>>

StoreMemory ==
  /\ Executing("!") /\ immediate
  /\ CanPop(stack, 2)
  /\ \/ ~Owned(TopNumber(stack)) /\ Fail("undefined")
     \/ \E b \in DOMAIN heap : \E i \in DOMAIN heap[b].cells :
          /\ At(b, i, TopNumber(stack))
          /\ SetHeap([heap EXCEPT ![b].cells[i] = Num(TopNumber(Below(1)))],
                     Below(2))

\* While compiling, ! overwrites a cell of the newest definition with any cell:
\* the one advance reaches from the first, unless it is the sentinel.
Patch(place) ==
  /\ Executing("!") /\ ~immediate
  /\ IF ~LatestIsWord THEN SetStack(stack)
     ELSE /\ CanPop(stack, 1)
          /\ IF place = 0
             THEN Fail("undefined")
             ELSE /\ def' = [def EXCEPT ![Latest][place] = Top(Below(1))]
                  /\ stack' = Popped(Below(1))
                  /\ xt' = Undef
                  /\ UNCHANGED <<source, pos, dictionary, header, locals, heap,
                                 immediate, frames, out, status>>

\* Variant: locations count from the cell behind the first.
PatchNext == Patch(Advance(def[Latest], 1, TopNumber(stack) + 1))

PatchDefinition == Patch(Advance(def[Latest], 1, TopNumber(stack)))

\* Block b, new or freed before, is granted for size bytes.
Grant(b, size) ==
  LET block == [live |-> TRUE,
                cells |-> [i \in 1 .. size \div CellBytes |-> Undef]]
  IN  IF b \in DOMAIN heap THEN [heap EXCEPT ![b] = block] ELSE Append(heap, block)

Allocate(size) ==
  \/ SetStack(Append(Below(1), Num(0)))
  \/ \E b \in 1 .. Len(heap) + 1 :
       /\ size \in 0 .. BlockSpan
       /\ IF b \in DOMAIN heap THEN ~heap[b].live ELSE Base(b + 1) <= MaxElement
       /\ SetHeap(Grant(b, size), Append(Below(1), Num(Base(b))))

\* Variant: the last cell is not granted.
MallocShort ==
  Executing("malloc") /\ CanPop(stack, 1) /\ Allocate(TopNumber(stack) - CellBytes)

Malloc == Executing("malloc") /\ CanPop(stack, 1) /\ Allocate(TopNumber(stack))

Free ==
  /\ Executing("free")
  /\ CanPop(stack, 1)
  /\ \/ TopNumber(stack) = 0 /\ SetStack(Below(1))
     \/ \E b \in DOMAIN heap :
          /\ heap[b].live /\ TopNumber(stack) = Base(b)
          /\ SetHeap([heap EXCEPT ![b].live = FALSE], Below(1))
     \/ /\ TopNumber(stack) # 0
        /\ ~\E b \in DOMAIN heap : heap[b].live /\ TopNumber(stack) = Base(b)
        /\ Fail("undefined")

(***************************************************************************)
(* The specification.                                                      *)
(***************************************************************************)
TokenLoop ==
  EndOfFile \/ ExecuteToken \/ CompileWord \/ CompileLocal \/ PushNumber
    \/ CompileNumber \/ RejectToken

ExecuteWord == FetchWord \/ SkipNumber \/ ReturnFromWord \/ CallWord

Pure == (\E q \in BinaryPrimitives : Binary(q)) \/ Swap \/ Rot \/ Dup \/ Drop
          \/ Emit \/ Show \/ Underflow

Control == Branch \/ BranchIf \/ Literal

Defining == Tick \/ Create \/ Comma \/ ToImmediate \/ ToCompile \/ MarkImmediate
              \/ Allot \/ Here \/ To \/ PatchDefinition

Memory == StoreLocal \/ LoadLocal \/ Fetch \/ StoreMemory \/ Malloc \/ Free

Ended == status # "running" /\ UNCHANGED vars

Next == TokenLoop \/ ExecuteWord \/ Pure \/ Control \/ Defining \/ Memory \/ Ended

Spec == Init /\ [][Next]_vars /\ WF_vars(Next)

(***************************************************************************)
(* Properties.                                                             *)
(***************************************************************************)
\* Every variable holds what its C++ counterpart can hold.
TypeOK ==
  /\ source \in Seq(Token)
  /\ pos \in 1 .. Len(source) + 1
  /\ dictionary \in Seq(NumCell \cup WordCell) /\ dictionary # <<>>
  /\ header \in Seq([name : Name, immediate : BOOLEAN])
  /\ def \in Seq(Seq(Cell)) /\ Len(def) = Len(header)
  /\ DOMAIN locals = DOMAIN header
  /\ \A w \in DOMAIN locals :
       DOMAIN locals[w] \subseteq Name /\ locals[w] \in [DOMAIN locals[w] -> Cell]
  /\ heap \in Seq([live : BOOLEAN, cells : Seq(NumCell \cup UndefCell)])
  /\ stack \in Seq(Cell)
  /\ immediate \in BOOLEAN
  /\ frames \in Seq(Frame) /\ Len(frames) <= MaxDepth
  /\ xt \in Cell /\ ~IsNumber(xt)
  /\ out \in Seq(Int)
  /\ status \in Statuses

\* The dictionary keeps every word ever created, in the order of creation,
\* whatever here and allot add or a negative allot takes away: so its last
\* word entry, which every compiling word writes to, is the newest word.
DictionaryComplete ==
  /\ \A w \in DOMAIN header : \E i \in DOMAIN dictionary : dictionary[i] = WordXt(w)
  /\ \A i \in DOMAIN dictionary : IsWord(dictionary[i]) => dictionary[i].w \in DOMAIN header
  /\ \A i, j \in DOMAIN dictionary :
       i < j /\ IsWord(dictionary[i]) /\ IsWord(dictionary[j]) =>
         dictionary[i].w < dictionary[j].w

\* A word a cell points to exists, and a local a cell accesses is bound in
\* its owner, wherever the cell is copied to: locals.at() never throws and
\* fromLocal never invents a binding.
Resolves(c) ==
  /\ c.kind = "word" => c.w \in DOMAIN header
  /\ IsLocal(c) => c.w \in DOMAIN header /\ c.x \in DOMAIN locals[c.w]

CellsResolve ==
  /\ Resolves(xt)
  /\ \A i \in DOMAIN stack : Resolves(stack[i])
  /\ \A w \in DOMAIN def : \A i \in DOMAIN def[w] : Resolves(def[w][i])
  /\ \A w \in DOMAIN locals : \A x \in DOMAIN locals[w] : Resolves(locals[w][x])

\* A definition only calls its own word and older ones, however its cells got
\* there: static analysis, which follows the calls, never comes back to a word
\* but through a word that calls itself.
CallsOlder ==
  \A w \in DOMAIN def : \A i \in DOMAIN def[w] :
    def[w][i].kind = "word" => def[w][i].w <= w

\* An execution that ends well changes the height of a stack of numbers by
\* what PrimitiveEffects.h, a table kept apart from the primitives, tells the
\* analysis: but for ' and here, which it is wrong about, and with a word to
\* compile into.
EffectsAgree ==
  [][ /\ status = "running" /\ xt.kind \in {"prim", "toLocal", "fromLocal"}
      /\ xt \notin {PrimXt("'"), PrimXt("here")}
      /\ status' = "running"
      /\ LatestIsWord
      /\ \A i \in DOMAIN stack : IsNumber(stack[i])
      => LET q == IF IsLocal(xt) THEN xt.kind ELSE xt.p
         IN  Len(stack) >= Effects.pops[q] =>
               Len(stack') = Len(stack) - Effects.pops[q] + Effects.pushes[q]
    ]_vars

\* The dictionary as its users may rely on it (module Dictionary): words are
\* never forgotten and only the newest one changes, and only grows.
WordTable ==
  [w \in 1 .. Len(header) |->
     [name |-> header[w].name, immediate |-> header[w].immediate,
      body |-> def[w], names |-> DOMAIN locals[w]]]

Words == INSTANCE Dictionary WITH words <- WordTable

KeepsWords == Words!Spec
=============================================================================
