------------------------------ MODULE Inlining ------------------------------
(***************************************************************************)
(* Analysis::inlining: before a word is compiled, a depth-first walk (dfs) *)
(* over the words it calls replaces calls by the definitions they lead to, *)
(* as long as the definition that grows stays under MaxSize cells, and     *)
(* corrects the offsets of branches that jump back.                        *)
(*                                                                         *)
(* A state is one position of the walk. The active calls of dfs are the    *)
(* sequence calls: each first visits the words of its definition, then     *)
(* goes over the definition a second time, inlining.                       *)
(***************************************************************************)
EXTENDS Cells, SequencesExt, FiniteSetsExt

CONSTANTS
  Programs,   \* what interpretation may leave: sequences of words
              \* [name, body: its definition, names: its locals]
  MaxSize     \* INLINE_WORD_MAX_XTS

\* A definition calls its own word and older ones, and accesses its own locals.
ASSUME ProgramsAssumption ==
  \A p \in Programs :
    /\ p \in Seq([name : Name, body : Seq(Cell), names : SUBSET Name])
    /\ \A w \in DOMAIN p : \A i \in DOMAIN p[w].body :
         /\ p[w].body[i].kind = "word" => p[w].body[i].w \in 1 .. w
         /\ IsLocal(p[w].body[i]) => p[w].body[i].w = w /\ p[w].body[i].x \in p[w].names

ASSUME SizeAssumption == MaxSize \in Nat

VARIABLES
  program,   \* the words as interpretation left them
  body,      \* ForthWord::definition of each word
  locals,    \* the keys of ForthWord::locals: pairs <<name of a word, local>>
  visited,   \* the words dfs has entered
  calls,     \* the active calls of dfs, innermost last
  outcome,   \* "running", "done", "aborted" (bad_variant_access), "undefined",
             \* or "endless": a list copied into itself until memory runs out
  origin     \* history: the position in program of what each cell stems from

vars == <<program, body, locals, visited, calls, outcome, origin>>

Words == DOMAIN program

\* The Local a cell accesses, as the maps know it: by the name of its word.
Key(c) == <<program[c.w].name, c.x>>

Enter(w) == [w |-> w, phase |-> "visit", at |-> 1, offset |-> 0]

\* inlining(root), root a Forth word.
Init ==
  /\ program \in Programs
  /\ body = [w \in Words |-> program[w].body]
  /\ locals = [w \in Words |-> {program[w].name} \X program[w].names]
  /\ origin = [w \in Words |-> [i \in DOMAIN body[w] |-> i]]
  /\ \E root \in Words : visited = {root} /\ calls = <<Enter(root)>>
  /\ outcome = "running"

(***************************************************************************)
(* dfs.                                                                    *)
(***************************************************************************)
Current == Last(calls)
Host    == Current.w
At      == Current.at
Inside  == At <= Len(body[Host])
This    == body[Host][At]

In(phase) == outcome = "running" /\ calls # <<>> /\ Current.phase = phase

Advance(f) == calls' = [calls EXCEPT ![Len(calls)] = f]

Stop(how) ==
  /\ outcome' = how
  /\ UNCHANGED <<program, body, locals, visited, calls, origin>>

\* A word not seen yet is visited first. Primitives have nothing to visit.
VisitWord ==
  /\ In("visit") /\ Inside
  /\ This.kind = "word" /\ This.w \notin visited
  /\ visited' = visited \cup {This.w}
  /\ calls' = Append([calls EXCEPT ![Len(calls)].at = At + 1], Enter(This.w))
  /\ UNCHANGED <<program, body, locals, outcome, origin>>

PassOver ==
  /\ In("visit") /\ Inside
  /\ ~(This.kind = "word" /\ This.w \notin visited)
  /\ Advance([Current EXCEPT !.at = At + 1])
  /\ UNCHANGED <<program, body, locals, visited, outcome, origin>>

StartInlining ==
  /\ In("visit") /\ ~Inside
  /\ Advance([Enter(Host) EXCEPT !.phase = "inline"])
  /\ UNCHANGED <<program, body, locals, visited, outcome, origin>>

\* Variant: one cell more.
FitsExactly == Len(body[Host]) + Len(body[This.w]) <= MaxSize

\* Variant: one cell less.
FitsShort == Len(body[Host]) + Len(body[This.w]) + 1 < MaxSize

\* can_inline.
Fits == Len(body[Host]) + Len(body[This.w]) < MaxSize

Inlinable == This.kind = "word" /\ Fits

\* Variant: the call stays.
SpliceAfter(s, i, t) == SubSeq(s, 1, i) \o t \o SubSeq(s, i + 1, Len(s))

\* Variant: t has been emptied before it is copied.
SpliceEmpty(s, i, t) == SubSeq(s, 1, i - 1) \o SubSeq(s, i + 1, Len(s))

\* replace_with: t in place of the i-th element of s.
Splice(s, i, t) == SubSeq(s, 1, i - 1) \o t \o SubSeq(s, i + 1, Len(s))

\* The call is replaced, the walk goes on at cell next, and the growth is added
\* up, from the size the inlined word has by then: a word that calls itself
\* first has grown itself.
Inline(next) ==
  LET sub == body[This.w]
      new == Splice(body[Host], At, sub)
  IN  /\ In("inline") /\ Inside
      /\ Inlinable
      /\ This.w # Host \/ At = 1
      /\ body' = [body EXCEPT ![Host] = new]
      /\ origin' = [origin EXCEPT ![Host] = Splice(@, At, [i \in DOMAIN sub |-> @[At]])]
      /\ Advance([Current EXCEPT !.at = next, !.offset = @ + Len(body'[This.w]) - 1])
      /\ UNCHANGED <<program, visited, outcome>>

AddLocals == locals' = [locals EXCEPT ![Host] = @ \cup locals[This.w]]

\* Variant: the locals stay behind.
InlineBody == Inline(At + Len(body[This.w])) /\ UNCHANGED locals

\* Variant: the walk goes on with what was inserted.
InlineAgain == Inline(At) /\ AddLocals

\* The walk goes on after what was inserted.
InlineCall == Inline(At + Len(body[This.w])) /\ AddLocals

\* A word that calls itself later on: replace_with goes on reading the cells
\* it has just inserted.
InlineForever ==
  /\ In("inline") /\ Inside
  /\ Inlinable /\ This.w = Host /\ At # 1
  /\ Stop("endless")

SkipCell ==
  /\ In("inline") /\ Inside
  /\ ~Inlinable /\ ~IsBranch(This)
  /\ Advance([Current EXCEPT !.at = At + 1])
  /\ UNCHANGED <<program, body, locals, visited, outcome, origin>>

\* Variant: the growth is added.
FixBranchWrongly ==
  /\ In("inline") /\ Inside
  /\ IsBranch(This)
  /\ At < Len(body[Host]) /\ IsNumber(body[Host][At + 1])
  /\ body' = IF body[Host][At + 1].n < 0
             THEN [body EXCEPT ![Host][At + 1].n = @ + Current.offset] ELSE body
  /\ Advance([Current EXCEPT !.at = At + 1])
  /\ UNCHANGED <<program, locals, visited, outcome, origin>>

\* "fix branch jumps": a branch back reaches back over all the growth so far.
FixBranch ==
  /\ In("inline") /\ Inside
  /\ IsBranch(This)
  /\ At < Len(body[Host]) /\ IsNumber(body[Host][At + 1])
  /\ body' = IF body[Host][At + 1].n < 0
             THEN [body EXCEPT ![Host][At + 1].n = @ - Current.offset] ELSE body
  /\ Advance([Current EXCEPT !.at = At + 1])
  /\ UNCHANGED <<program, locals, visited, outcome, origin>>

\* The cell after a branch, whatever role it has, is read as a number.
BadBranch ==
  /\ In("inline") /\ Inside
  /\ IsBranch(This)
  /\ \/ At = Len(body[Host]) /\ Stop("undefined")
     \/ /\ At < Len(body[Host]) /\ ~IsNumber(body[Host][At + 1])
        /\ Stop("aborted")

Return ==
  /\ In("inline") /\ ~Inside
  /\ calls' = Front(calls)
  /\ outcome' = IF Len(calls) = 1 THEN "done" ELSE "running"
  /\ UNCHANGED <<program, body, locals, visited, origin>>

Ended == outcome # "running" /\ UNCHANGED vars

Next ==
  \/ VisitWord \/ PassOver \/ StartInlining
  \/ InlineCall \/ InlineForever \/ SkipCell \/ FixBranch \/ BadBranch \/ Return
  \/ Ended

Spec == Init /\ [][Next]_vars /\ WF_vars(Next)

(***************************************************************************)
(* Properties.                                                             *)
(***************************************************************************)
\* Every variable holds what its C++ counterpart can hold; an active call of
\* dfs stands inside its definition or at its end.
TypeOK ==
  /\ DOMAIN body = Words /\ DOMAIN locals = Words /\ DOMAIN origin = Words
  /\ \A w \in Words : body[w] \in Seq(Cell) /\ DOMAIN origin[w] = DOMAIN body[w]
  /\ visited \subseteq Words
  /\ \A k \in DOMAIN calls :
       /\ calls[k].w \in visited
       /\ calls[k].phase \in {"visit", "inline"}
       /\ calls[k].at \in 1 .. Len(body[calls[k].w]) + 1
       /\ calls[k].offset \in Int
  /\ outcome \in {"running", "done", "aborted", "undefined", "endless"}

Finished(w) == w \in visited /\ \A k \in DOMAIN calls : calls[k].w # w

\* No definition outgrows the limit, but one that was beyond it already.
SizeBounded ==
  \A w \in Words : \/ Len(body[w]) + 2 <= MaxSize
                   \/ Len(body[w]) = Len(program[w].body)

Recursive(w) == WordXt(w) \in Range(program[w].body)

\* Nothing is left to do: a call that stays in a finished word, whether it was
\* there before or came with an inlined definition, does not fit. A word may
\* only come to fit again if an empty definition shrank its caller, or if
\* a caller copied itself.
Saturated ==
  (\A w \in Words : program[w].body # <<>> /\ ~Recursive(w)) =>
    \A w \in Words : Finished(w) =>
      \A i \in DOMAIN body[w] :
        body[w][i].kind = "word" => Len(body[w]) + Len(body[body[w][i].w]) >= MaxSize

\* The cells of a definition that call a word when it runs: not those that hold
\* the word as an operand.
CallsIn(d) == {i \in Instructions(d) \cap DOMAIN d : d[i].kind = "word"}

\* The instructions a cell stands for, if leaves are those of the words it may
\* call; offsets of branches aside.
Piece(s, i, at, leaves) ==
  IF i \in at THEN leaves[s[i].w]
  ELSE IF i > 1 /\ IsBranch(s[i - 1]) /\ IsNumber(s[i]) THEN <<Num(0)>>
  ELSE <<s[i]>>

Replaced(s, leaves) ==
  LET at == CallsIn(s) IN FlattenSeq([i \in DOMAIN s |-> Piece(s, i, at, leaves)])

\* The instructions of each definition with every call replaced.
Leaves(bodies) ==
  LET leaves[w \in DOMAIN bodies] == Replaced(bodies[w], leaves)
  IN  leaves

\* Every instruction has its operand, and no operand is a word: dfs replaces such
\* a word like a call, and makes literal w push the first cell of w's definition.
Proper(d) ==
  /\ Len(d) + 1 \in Instructions(d)
  /\ \A i \in DOMAIN d : d[i].kind = "word" => i \in Instructions(d)

\* Whatever was inlined where, and in whichever order the words were visited, a
\* word still stands for the same instructions, if no word calls itself and all
\* definitions are proper.
ExpansionKept ==
  (\A w \in Words : ~Recursive(w) /\ Proper(program[w].body)) =>
    Leaves(body) = Leaves([w \in Words |-> program[w].body])

\* A word knows every local its definition accesses, those of the words
\* inlined into it and of the words inlined into those as well.
LocalsFollow ==
  \A w \in Words : \A i \in DOMAIN body[w] :
    IsLocal(body[w][i]) => Key(body[w][i]) \in locals[w]

(***************************************************************************)
(* Branches. Image(w, j) is where the j-th cell of the original definition *)
(* of w, or what replaced it, begins; Growth(w, i, j) counts the cells     *)
(* gained from the i-th original cell up to the j-th.                      *)
(***************************************************************************)
Image(w, j)     == Cardinality({i \in DOMAIN origin[w] : origin[w][i] < j}) + 1
Growth(w, i, j) == Image(w, j) - Image(w, i) - (j - i)

\* The branches of a definition that lead into it: [at, to].
Branches(d) ==
  {b \in [at : Instructions(d) \cap DOMAIN d, to : 1 .. Len(d) + 1] :
     /\ IsBranch(d[b.at])
     /\ b.at < Len(d) /\ IsNumber(d[b.at + 1])
     /\ b.to = b.at + 1 + d[b.at + 1].n}

Lands(w, b) ==
  LET at == Image(w, b.at)
  IN  /\ body[w][at] = program[w].body[b.at]
      /\ IsNumber(body[w][at + 1])
      /\ at + 1 + body[w][at + 1].n = Image(w, b.to)

\* A call of the word itself was replaced: its growth was added up from the size
\* the word has reached by then, about twice what it has grown.
CopiedItself(w) ==
  \E j \in DOMAIN program[w].body :
    program[w].body[j] = WordXt(w) /\ Growth(w, j, j + 1) # 0

\* A branch back, when nothing before its target has grown and the word has not
\* copied itself, and a branch forward, when nothing it jumps over has grown,
\* lead where they led.
BranchesKept ==
  \A w \in Words : Finished(w) /\ outcome = "done" =>
    \A b \in Branches(program[w].body) :
      IF b.to <= b.at
      THEN Growth(w, 1, b.to) = 0 /\ ~CopiedItself(w) => Lands(w, b)
      ELSE Growth(w, b.at, b.to) = 0 => Lands(w, b)

\* What "fix branch jumps" says of the code: all branches of a finished word
\* lead where they led.
BranchesFixed ==
  \A w \in Words : Finished(w) /\ outcome = "done" =>
    \A b \in Branches(program[w].body) : Lands(w, b)

\* A word that calls itself, but not first, is inlined into itself for ever.
CallsItselfLater(w) ==
  \E i \in DOMAIN program[w].body : i # 1 /\ program[w].body[i] = WordXt(w)

\* Although definitions grow while they are walked, the walk ends, unless a word
\* calls itself later than first: also if one calls itself first.
WalkEnds ==
  (\A w \in Words : ~CallsItselfLater(w)) =>
    <>(outcome \in {"done", "aborted", "undefined"})
=============================================================================
