---------------------------- MODULE InliningProofs ----------------------------
(***************************************************************************)
(* Theorems about Inlining: its types, the size of definitions, the locals *)
(* that follow inlined cells, the branches that still lead where they led, *)
(* the calls that stay and what definitions stand for, for all programs    *)
(* interpretation may leave and any limit.                                 *)
(***************************************************************************)
EXTENDS Inlining, CellsProofs

Call     == [w : Words, phase : {"visit", "inline"}, at : Nat \ {0}, offset : Int]
Outcomes == {"running", "done", "aborted", "undefined", "endless"}

\* Cells only refer to words there are.
Refers(c) == c.kind = "word" \/ IsLocal(c) => c.w \in Words

Bodies ==
  /\ program \in Programs
  /\ body \in [Words -> Seq(Cell)]
  /\ origin \in [Words -> Seq(Int)]
  /\ DOMAIN locals = Words
  /\ \A w \in Words : Len(origin[w]) = Len(body[w])
  /\ \A w \in Words : \A i \in 1 .. Len(body[w]) : Refers(body[w][i])

\* No word has two active calls, so no other call walks the definition that grows.
Active ==
  /\ visited \subseteq Words
  /\ outcome \in Outcomes
  /\ calls \in Seq(Call)
  /\ \A k \in 1 .. Len(calls) :
       calls[k].w \in visited /\ calls[k].at <= Len(body[calls[k].w]) + 1
  /\ \A j, k \in 1 .. Len(calls) : j # k => calls[j].w # calls[k].w

IInv == Bodies /\ Active /\ SizeBounded /\ LocalsFollow

-----------------------------------------------------------------------------
(***************************************************************************)
(* Splicing.                                                               *)
(***************************************************************************)
\* The elements of r are elements of s or t.
Mixed(r, s, t) ==
  \A j \in 1 .. Len(r) : \/ \E k \in 1 .. Len(s) : r[j] = s[k]
                        \/ \E k \in 1 .. Len(t) : r[j] = t[k]

LEMMA Concatenated ==
  ASSUME NEW S, NEW s \in Seq(S), NEW t \in Seq(S)
  PROVE  /\ s \o t \in Seq(S)
         /\ Len(s \o t) = Len(s) + Len(t)
         /\ Mixed(s \o t, s, t)
<1>1. Len(s) \in Nat /\ Len(t) \in Nat
  BY LenProperties
<1>2. s \o t \in Seq(S) /\ Len(s \o t) = Len(s) + Len(t)
  BY ConcatProperties
<1>3. \A j \in 1 .. Len(s) + Len(t) :
        (s \o t)[j] = IF j <= Len(s) THEN s[j] ELSE t[j - Len(s)]
  BY ConcatProperties
<1>4. ASSUME NEW j \in 1 .. Len(s) + Len(t)
      PROVE  \/ \E k \in 1 .. Len(s) : (s \o t)[j] = s[k]
             \/ \E k \in 1 .. Len(t) : (s \o t)[j] = t[k]
  <2>1. CASE j <= Len(s)
    <3>1. (s \o t)[j] = s[j] /\ j \in 1 .. Len(s)
      BY <1>1, <1>3, <2>1
    <3> QED
      BY <3>1
  <2>2. CASE Len(s) < j
    <3>1. (s \o t)[j] = t[j - Len(s)] /\ j - Len(s) \in 1 .. Len(t)
      BY <1>1, <1>3, <2>2
    <3> QED
      BY <3>1
  <2> QED
    BY <1>1, <2>1, <2>2
<1> QED
  BY <1>2, <1>4 DEF Mixed

LEMMA SpliceProperties ==
  ASSUME NEW S, NEW s \in Seq(S), NEW t \in Seq(S), NEW i \in 1 .. Len(s)
  PROVE  /\ Splice(s, i, t) \in Seq(S)
         /\ Len(Splice(s, i, t)) = Len(s) + Len(t) - 1
         /\ Mixed(Splice(s, i, t), s, t)
<1> DEFINE a == SubSeq(s, 1, i - 1)
           b == SubSeq(s, i + 1, Len(s))
           c == a \o t
<1>1. Len(s) \in Nat /\ Len(t) \in Nat
  BY LenProperties
<1>2. /\ a \in Seq(S) /\ Len(a) = i - 1
      /\ \A k \in 1 .. Len(a) : a[k] = s[k] /\ k \in 1 .. Len(s)
  <2>1. /\ a \in Seq(S) /\ Len(a) = i - 1 - 1 + 1
        /\ \A k \in 1 .. i - 1 - 1 + 1 : a[k] = s[1 + k - 1]
    BY <1>1, Part
  <2> QED
    BY <1>1, <2>1
<1>3. /\ b \in Seq(S) /\ Len(b) = Len(s) - i
      /\ \A k \in 1 .. Len(b) : b[k] = s[i + k] /\ i + k \in 1 .. Len(s)
  <2>1. /\ b \in Seq(S) /\ Len(b) = Len(s) - (i + 1) + 1
        /\ \A k \in 1 .. Len(s) - (i + 1) + 1 : b[k] = s[i + 1 + k - 1]
    BY <1>1, Part
  <2> QED
    BY <1>1, <2>1
<1>4. Splice(s, i, t) = c \o b
  BY DEF Splice
<1> HIDE DEF a, b
<1>5. c \in Seq(S) /\ Len(c) = Len(a) + Len(t) /\ Mixed(c, a, t)
  BY <1>2, Concatenated
<1> HIDE DEF c
<1> DEFINE d == c \o b
<1>6. d \in Seq(S) /\ Len(d) = Len(c) + Len(b) /\ Mixed(d, c, b)
  BY <1>3, <1>5, Concatenated
<1>7. Splice(s, i, t) = d
  BY <1>4
<1> HIDE DEF d
<1>8. Len(d) = Len(s) + Len(t) - 1
  BY <1>1, <1>2, <1>3, <1>5, <1>6
<1>9. Mixed(d, s, t)
  <2>1. Mixed(c, s, t)
    BY <1>2, <1>5 DEF Mixed
  <2>2. \A j \in 1 .. Len(b) : \E k \in 1 .. Len(s) : b[j] = s[k]
    BY <1>3
  <2>3. ASSUME NEW j \in 1 .. Len(d)
        PROVE  \/ \E k \in 1 .. Len(s) : d[j] = s[k]
               \/ \E k \in 1 .. Len(t) : d[j] = t[k]
    <3>1. CASE \E k \in 1 .. Len(c) : d[j] = c[k]
      BY <3>1, <2>1 DEF Mixed
    <3>2. CASE \E k \in 1 .. Len(b) : d[j] = b[k]
      BY <3>2, <2>2
    <3> QED
      BY <3>1, <3>2, <1>6 DEF Mixed
  <2> QED
    BY <2>3 DEF Mixed
<1> QED
  BY <1>6, <1>7, <1>8, <1>9

\* A number stays one when its value changes.
LEMMA NumberCell ==
  ASSUME NEW c \in Cell, IsNumber(c), NEW m \in Int
  PROVE  /\ c.n \in Int
         /\ [c EXCEPT !.n = m] \in Cell
         /\ [c EXCEPT !.n = m].kind = "num"
BY DEF Cell, IsNumber, NumCell, WordCell, PrimCell, LocalCell, UndefCell

-----------------------------------------------------------------------------
(***************************************************************************)
(* The innermost call.                                                     *)
(***************************************************************************)
LEMMA Innermost ==
  ASSUME IInv, calls # <<>>
  PROVE  /\ Len(calls) \in Nat \ {0}
         /\ Current = calls[Len(calls)]
         /\ Current \in Call /\ Host \in Words /\ At \in Nat \ {0}
         /\ Len(body[Host]) \in Nat
         /\ At <= Len(body[Host]) + 1
         /\ body[Host] \in Seq(Cell)
         /\ Inside => At \in 1 .. Len(body[Host]) /\ This \in Cell /\ Refers(This)
<1>1. calls \in Seq(Call)
  BY DEF IInv, Active
<1>2. Len(calls) \in Nat \ {0} /\ Current = calls[Len(calls)] /\ Current \in Call
  BY <1>1, FrontProperties DEF Current
<1>3. Host \in Words /\ At \in Nat \ {0}
  BY <1>2 DEF Call, Host, At
<1>4. body[Host] \in Seq(Cell) /\ Len(body[Host]) \in Nat
  BY <1>3, LenProperties DEF IInv, Bodies
<1>5. At <= Len(body[Host]) + 1
  BY <1>2 DEF IInv, Active, Host, At
<1>6. ASSUME Inside PROVE At \in 1 .. Len(body[Host]) /\ This \in Cell /\ Refers(This)
  <2>1. At \in 1 .. Len(body[Host])
    BY <1>6, <1>3, <1>4 DEF Inside
  <2>2. This \in Cell
    BY <2>1, <1>4, ElementOfSeq DEF This
  <2>3. Refers(This)
    BY <2>1, <1>3 DEF This, IInv, Bodies
  <2> QED
    BY <2>1, <2>2, <2>3
<1> QED
  BY <1>2, <1>3, <1>4, <1>5, <1>6

\* The innermost call goes on in its definition, which may have changed.
LEMMA AdvanceKeeps ==
  ASSUME IInv, calls # <<>>, NEW f \in Call, Advance(f),
         f.w = Host, f.at <= Len(body'[Host]) + 1,
         \A w \in Words : w # Host => Len(body'[w]) = Len(body[w]),
         UNCHANGED <<program, visited, outcome>>
  PROVE  Active'
<1>1. Words' = Words /\ Call' = Call
  BY DEF Words, Call
<1>2. /\ calls \in Seq(Call) /\ Len(calls) \in 1 .. Len(calls)
      /\ calls[Len(calls)].w = Host
  BY Innermost DEF IInv, Active, Host
<1>3. /\ calls' \in Seq(Call) /\ Len(calls') = Len(calls)
      /\ \A k \in 1 .. Len(calls) : calls'[k] = IF k = Len(calls) THEN f ELSE calls[k]
  BY <1>2, ExceptSeq DEF Advance
<1>4. \A k \in 1 .. Len(calls) : calls'[k].w = calls[k].w
  BY <1>2, <1>3
<1>5. \A k \in 1 .. Len(calls) : calls[k].w \in Words
  <2>1. \A k \in 1 .. Len(calls) : calls[k] \in Call
    BY <1>2, ElementOfSeq
  <2> QED
    BY <2>1 DEF Call
<1>6. ASSUME NEW k \in 1 .. Len(calls) PROVE calls'[k].at <= Len(body'[calls'[k].w]) + 1
  <2>1. CASE k = Len(calls)
    BY <2>1, <1>3
  <2>2. CASE k # Len(calls)
    <3>1. calls'[k] = calls[k] /\ calls[k].w # Host
      BY <2>2, <1>2, <1>3 DEF IInv, Active
    <3> QED
      BY <3>1, <1>5 DEF IInv, Active
  <2> QED
    BY <2>1, <2>2
<1> QED
  BY <1>1, <1>3, <1>4, <1>6 DEF IInv, Active

\* Nothing but the walk changes.
LEMMA BodiesKept ==
  ASSUME IInv, UNCHANGED <<program, body, locals, origin>>
  PROVE  Bodies' /\ SizeBounded' /\ LocalsFollow'
<1>1. Words' = Words
  BY DEF Words
<1> QED
  BY <1>1 DEF IInv, Bodies, SizeBounded, LocalsFollow, Refers, Key, IsLocal

-----------------------------------------------------------------------------
(***************************************************************************)
(* The steps of dfs.                                                       *)
(***************************************************************************)
LEMMA ProgramTyped ==
  ASSUME NEW p \in Programs
  PROVE  /\ p \in Seq([name : Name, body : Seq(Cell), names : SUBSET Name])
         /\ DOMAIN p = 1 .. Len(p)
         /\ \A w \in DOMAIN p :
              /\ p[w].body \in Seq(Cell) /\ Len(p[w].body) \in Nat
              /\ DOMAIN p[w].body = 1 .. Len(p[w].body)
              /\ \A i \in 1 .. Len(p[w].body) :
                   /\ p[w].body[i].kind = "word" => p[w].body[i].w \in DOMAIN p
                   /\ IsLocal(p[w].body[i]) => p[w].body[i].w = w /\ p[w].body[i].x \in p[w].names
<1> DEFINE Program == [name : Name, body : Seq(Cell), names : SUBSET Name]
<1>1. p \in Seq(Program) /\ Len(p) \in Nat /\ DOMAIN p = 1 .. Len(p)
  BY ProgramsAssumption, LenProperties
<1>2. \A w \in DOMAIN p : p[w] \in Program
  BY <1>1, ElementOfSeq
<1>3. \A w \in DOMAIN p : p[w].body \in Seq(Cell)
  BY <1>2
<1>4. \A w \in DOMAIN p : Len(p[w].body) \in Nat /\ DOMAIN p[w].body = 1 .. Len(p[w].body)
  BY <1>3, LenProperties
<1>5. \A w \in DOMAIN p : w \in Nat /\ 1 .. w \subseteq DOMAIN p
  BY <1>1
<1> QED
  BY <1>1, <1>3, <1>4, <1>5, ProgramsAssumption

\* inlining starts with what interpretation left.
LEMMA InitInvariant == Init => IInv
<1> SUFFICES ASSUME Init PROVE IInv
  OBVIOUS
<1>1. /\ program \in Programs /\ body = [w \in Words |-> program[w].body]
      /\ locals = [w \in Words |-> {program[w].name} \X program[w].names]
      /\ origin = [w \in Words |-> [i \in DOMAIN body[w] |-> i]]
      /\ outcome = "running"
  BY DEF Init
<1>2. PICK root \in Words : visited = {root} /\ calls = <<Enter(root)>>
  BY DEF Init
<1>3. \A w \in Words :
        /\ body[w] = program[w].body
        /\ body[w] \in Seq(Cell) /\ Len(body[w]) \in Nat /\ DOMAIN body[w] = 1 .. Len(body[w])
        /\ \A i \in 1 .. Len(body[w]) :
             /\ body[w][i].kind = "word" => body[w][i].w \in Words
             /\ IsLocal(body[w][i]) => body[w][i].w = w /\ body[w][i].x \in program[w].names
  BY <1>1, ProgramTyped DEF Words
<1>4. Bodies
  <2>1. \A w \in Words : origin[w] = [i \in 1 .. Len(body[w]) |-> i]
    BY <1>1, <1>3
  <2>2. ASSUME NEW w \in Words
        PROVE  origin[w] \in Seq(Int) /\ Len(origin[w]) = Len(body[w])
    <3>1. PICK n \in Nat : n = Len(body[w]) /\ origin[w] = [i \in 1 .. n |-> i]
      BY <1>3, <2>1
    <3>2. \A i \in 1 .. n : i \in Int
      OBVIOUS
    <3> QED
      BY <3>1, <3>2
  <2>3. \A w \in Words : \A i \in 1 .. Len(body[w]) : Refers(body[w][i])
    BY <1>3 DEF Refers
  <2>4. /\ body \in [Words -> Seq(Cell)] /\ origin \in [Words -> Seq(Int)]
        /\ DOMAIN locals = Words
    BY <1>1, <1>3, <2>2
  <2> QED
    BY <1>1, <2>2, <2>3, <2>4 DEF Bodies
<1>5. Active
  <2>1. Enter(root) \in Call /\ Enter(root).w = root /\ Enter(root).at = 1
    BY DEF Enter, Call
  <2>2. calls \in Seq(Call) /\ Len(calls) = 1 /\ calls[1] = Enter(root)
    BY <1>2, <2>1
  <2> QED
    BY <1>1, <1>2, <1>3, <2>1, <2>2 DEF Active, Outcomes
<1>6. SizeBounded
  BY <1>3 DEF SizeBounded
<1>7. LocalsFollow
  <2>1. SUFFICES ASSUME NEW w \in Words, NEW i \in 1 .. Len(body[w]), IsLocal(body[w][i])
                 PROVE  Key(body[w][i]) \in locals[w]
    BY <1>3 DEF LocalsFollow
  <2>2. body[w][i].w = w /\ body[w][i].x \in program[w].names
    BY <1>3, <2>1
  <2>3. locals[w] = {program[w].name} \X program[w].names
    BY <1>1
  <2> QED
    BY <2>2, <2>3 DEF Key
<1> QED
  BY <1>4, <1>5, <1>6, <1>7 DEF IInv

LEMMA VisitWordKeeps == IInv /\ VisitWord => IInv'
<1> SUFFICES ASSUME IInv, VisitWord PROVE IInv'
  OBVIOUS
<1> DEFINE f == [Current EXCEPT !.at = At + 1]
           held == [calls EXCEPT ![Len(calls)] = f]
           w == This.w
<1>1. calls # <<>> /\ Inside /\ This.kind = "word" /\ w \notin visited
  BY DEF VisitWord, In
<1>2. /\ UNCHANGED <<program, body, locals, outcome, origin>>
      /\ visited' = visited \cup {w}
      /\ calls' = Append(held, Enter(w))
  BY Innermost, <1>1 DEF VisitWord, At
<1>3. Bodies' /\ SizeBounded' /\ LocalsFollow'
  BY <1>2, BodiesKept
<1>4. w \in Words
  BY <1>1, Innermost DEF Refers
<1>5. Enter(w) \in Call /\ Enter(w).w = w /\ Enter(w).at = 1
  BY <1>4 DEF Enter, Call
<1>6. f \in Call /\ f.w = Host /\ f.at = At + 1 /\ f.at <= Len(body[Host]) + 1
  BY <1>1, Innermost DEF Call, Host, At
<1>7. /\ calls \in Seq(Call) /\ Len(calls) \in Nat \ {0} /\ Len(calls) \in 1 .. Len(calls)
      /\ calls[Len(calls)].w = Host
  BY <1>1, Innermost DEF IInv, Active, Host
<1> HIDE DEF f, w
<1>8. /\ held \in Seq(Call) /\ Len(held) = Len(calls)
      /\ \A k \in 1 .. Len(calls) : held[k] = IF k = Len(calls) THEN f ELSE calls[k]
  BY <1>6, <1>7, ExceptSeq
<1> HIDE DEF held
<1>9. /\ calls' \in Seq(Call) /\ Len(calls') = Len(calls) + 1
      /\ \A k \in 1 .. Len(calls) : calls'[k] = held[k]
      /\ calls'[Len(calls) + 1] = Enter(w)
  BY <1>2, <1>5, <1>8, AppendProperties
<1>10. \A k \in 1 .. Len(calls) :
         calls'[k].w = calls[k].w /\ calls'[k].at <= Len(body[calls[k].w]) + 1
  <2>1. ASSUME NEW k \in 1 .. Len(calls), k = Len(calls)
        PROVE  calls'[k].w = calls[k].w /\ calls'[k].at <= Len(body[calls[k].w]) + 1
    BY <2>1, <1>6, <1>7, <1>8, <1>9
  <2>2. ASSUME NEW k \in 1 .. Len(calls), k # Len(calls)
        PROVE  calls'[k].w = calls[k].w /\ calls'[k].at <= Len(body[calls[k].w]) + 1
    BY <2>2, <1>8, <1>9 DEF IInv, Active
  <2> QED
    BY <2>1, <2>2
<1>11. Words' = Words /\ Call' = Call
  BY <1>2 DEF Words, Call
<1>12. \A k \in 1 .. Len(calls) : calls[k].w \in visited /\ calls[k].w # w
  BY <1>1 DEF IInv, Active, w
<1>13. Len(body[w]) \in Nat
  BY <1>4, LenProperties DEF IInv, Bodies
<1>14. /\ visited' \subseteq Words /\ outcome' \in Outcomes
       /\ \A k \in 1 .. Len(calls') :
            calls'[k].w \in visited' /\ calls'[k].at <= Len(body[calls'[k].w]) + 1
  <2>1. ASSUME NEW k \in 1 .. Len(calls'), k <= Len(calls)
        PROVE  calls'[k].w \in visited' /\ calls'[k].at <= Len(body[calls'[k].w]) + 1
    BY <2>1, <1>2, <1>7, <1>9, <1>10, <1>12
  <2>2. ASSUME NEW k \in 1 .. Len(calls'), k = Len(calls) + 1
        PROVE  calls'[k].w \in visited' /\ calls'[k].at <= Len(body[calls'[k].w]) + 1
    BY <2>2, <1>2, <1>5, <1>9, <1>13
  <2>3. \A k \in 1 .. Len(calls') : k <= Len(calls) \/ k = Len(calls) + 1
    BY <1>7, <1>9
  <2> QED
    BY <2>1, <2>2, <2>3, <1>2, <1>4 DEF IInv, Active
<1>15. \A j, k \in 1 .. Len(calls') : j # k => calls'[j].w # calls'[k].w
  <2>1. \A j, k \in 1 .. Len(calls) : j # k => calls[j].w # calls[k].w
    BY DEF IInv, Active
  <2>2. \A k \in 1 .. Len(calls') : k \in 1 .. Len(calls) \/ k = Len(calls) + 1
    BY <1>7, <1>9
  <2>3. calls'[Len(calls) + 1].w = w
    BY <1>5, <1>9
  <2> QED
    BY <2>1, <2>2, <2>3, <1>10, <1>12
<1> QED
  BY <1>2, <1>3, <1>9, <1>11, <1>14, <1>15 DEF IInv, Active

\* A step over a cell, and the change to the second pass.
LEMMA PassOverKeeps == IInv /\ (PassOver \/ SkipCell) => IInv'
<1> SUFFICES ASSUME IInv, PassOver \/ SkipCell PROVE IInv'
  OBVIOUS
<1> DEFINE f == [Current EXCEPT !.at = At + 1]
<1>1. /\ calls # <<>> /\ Inside /\ Advance(f)
      /\ UNCHANGED <<program, body, locals, visited, outcome, origin>>
  BY DEF PassOver, SkipCell, In
<1>2. f \in Call /\ f.w = Host /\ f.at <= Len(body'[Host]) + 1
  BY <1>1, Innermost DEF Call, Host, At
<1> QED
  BY <1>1, <1>2, AdvanceKeeps, BodiesKept DEF IInv

LEMMA StartInliningKeeps == IInv /\ StartInlining => IInv'
<1> SUFFICES ASSUME IInv, StartInlining PROVE IInv'
  OBVIOUS
<1> DEFINE f == [Enter(Host) EXCEPT !.phase = "inline"]
<1>1. /\ calls # <<>> /\ Advance(f)
      /\ UNCHANGED <<program, body, locals, visited, outcome, origin>>
  BY DEF StartInlining, In
<1>2. f \in Call /\ f.w = Host /\ f.at <= Len(body'[Host]) + 1
  BY <1>1, Innermost DEF Call, Enter
<1> QED
  BY <1>1, <1>2, AdvanceKeeps, BodiesKept DEF IInv

LEMMA StopKeeps == IInv /\ (InlineForever \/ BadBranch \/ Ended) => IInv'
<1> SUFFICES ASSUME IInv, InlineForever \/ BadBranch \/ Ended PROVE IInv'
  OBVIOUS
<1>1. /\ UNCHANGED <<program, body, locals, visited, calls, origin>>
      /\ outcome' \in Outcomes
  BY DEF InlineForever, BadBranch, Ended, Stop, Outcomes, vars, IInv, Active
<1>2. Words' = Words /\ Call' = Call
  BY <1>1 DEF Words, Call
<1>3. Active'
  BY <1>1, <1>2 DEF IInv, Active
<1> QED
  BY <1>1, <1>3, BodiesKept DEF IInv

LEMMA ReturnKeeps == IInv /\ Return => IInv'
<1> SUFFICES ASSUME IInv, Return PROVE IInv'
  OBVIOUS
<1>1. /\ calls # <<>> /\ calls' = Front(calls) /\ outcome' \in Outcomes
      /\ UNCHANGED <<program, body, locals, visited, origin>>
  BY DEF Return, In, Outcomes
<1>2. /\ calls' \in Seq(Call) /\ Len(calls) \in Nat \ {0} /\ Len(calls') = Len(calls) - 1
      /\ \A k \in 1 .. Len(calls) - 1 : calls'[k] = calls[k]
  BY <1>1, FrontProperties DEF IInv, Active
<1>3. Words' = Words /\ Call' = Call
  BY <1>1 DEF Words, Call
<1>4. \A k \in 1 .. Len(calls') : k \in 1 .. Len(calls) /\ calls'[k] = calls[k]
  BY <1>2
<1>5. \A k \in 1 .. Len(calls') :
        calls'[k].w \in visited' /\ calls'[k].at <= Len(body'[calls'[k].w]) + 1
  BY <1>1, <1>4 DEF IInv, Active
<1>6. \A j, k \in 1 .. Len(calls') : j # k => calls'[j].w # calls'[k].w
  BY <1>4 DEF IInv, Active
<1>7. visited' \subseteq Words
  BY <1>1 DEF IInv, Active
<1>8. Active'
  BY <1>1, <1>2, <1>3, <1>5, <1>6, <1>7 DEF Active
<1> QED
  BY <1>1, <1>8, BodiesKept DEF IInv

\* Only the definition of Host and its locals change: what is left to show.
LEMMA HostChanges ==
  ASSUME IInv, calls # <<>>, UNCHANGED program,
         NEW new \in Seq(Cell), body' = [body EXCEPT ![Host] = new],
         origin' \in [Words -> Seq(Int)],
         \A w \in Words : Len(origin'[w]) = IF w = Host THEN Len(new) ELSE Len(origin[w]),
         NEW more, DOMAIN locals' = DOMAIN locals,
         \A w \in Words : locals'[w] = IF w = Host THEN locals[Host] \cup more ELSE locals[w],
         \/ Len(new) + 2 <= MaxSize
         \/ Len(new) = Len(body[Host]),
         \A i \in 1 .. Len(new) :
           Refers(new[i]) /\ (IsLocal(new[i]) => Key(new[i]) \in locals[Host] \cup more)
  PROVE  Bodies' /\ SizeBounded' /\ LocalsFollow'
<1>1. Words' = Words /\ Host \in Words /\ DOMAIN body = Words /\ DOMAIN locals = Words
  BY Innermost DEF Words, IInv, Bodies
<1>2. \A w \in Words : body'[w] = IF w = Host THEN new ELSE body[w]
  BY <1>1
<1>3. \A w \in Words :
        locals'[w] = IF w = Host THEN locals[Host] \cup more ELSE locals[w]
  OBVIOUS
<1>4. body' \in [Words -> Seq(Cell)] /\ DOMAIN locals' = Words
  BY <1>1 DEF IInv, Bodies
<1>5. \A w \in Words : DOMAIN body'[w] = 1 .. Len(body'[w]) /\ DOMAIN body[w] = 1 .. Len(body[w])
  <2>1. \A w \in Words : body'[w] \in Seq(Cell) /\ body[w] \in Seq(Cell)
    BY <1>4 DEF IInv, Bodies
  <2> QED
    BY <2>1, LenProperties
<1>6. ASSUME NEW w \in Words, NEW i \in 1 .. Len(body'[w])
      PROVE  /\ Refers(body'[w][i])
             /\ IsLocal(body'[w][i]) => Key(body'[w][i]) \in locals'[w]
  <2>1. CASE w = Host
    BY <2>1, <1>2, <1>3
  <2>2. CASE w # Host
    BY <2>2, <1>2, <1>3, <1>5 DEF IInv, Bodies, LocalsFollow
  <2> QED
    BY <2>1, <2>2
<1>7. Bodies'
  BY <1>1, <1>2, <1>4, <1>6 DEF IInv, Bodies, Refers, IsLocal
<1>8. SizeBounded'
  BY <1>1, <1>2 DEF IInv, SizeBounded
<1>9. LocalsFollow'
  <2>1. \A w \in Words : \A i \in DOMAIN body'[w] : i \in 1 .. Len(body'[w])
    BY <1>5
  <2> QED
    BY <1>1, <1>6, <2>1 DEF LocalsFollow, Key, IsLocal
<1> QED
  BY <1>7, <1>8, <1>9

LEMMA InlineCallKeeps == IInv /\ InlineCall => IInv'
<1> SUFFICES ASSUME IInv, InlineCall PROVE IInv'
  OBVIOUS
<1> DEFINE host == body[Host]
           sub  == body[This.w]
           new  == Splice(host, At, sub)
           f    == [Current EXCEPT !.at = At + Len(sub), !.offset = @ + Len(body'[This.w]) - 1]
<1>1. /\ calls # <<>> /\ Inside /\ Inlinable
      /\ body' = [body EXCEPT ![Host] = new]
      /\ locals' = [locals EXCEPT ![Host] = @ \cup locals[This.w]]
      /\ origin' = [origin EXCEPT ![Host] = Splice(@, At, [i \in DOMAIN sub |-> @[At]])]
      /\ Advance(f)
      /\ UNCHANGED <<program, visited, outcome>>
  BY DEF InlineCall, Inline, AddLocals, In
<1>2. /\ Host \in Words /\ At \in 1 .. Len(host) /\ host \in Seq(Cell) /\ Len(host) \in Nat
      /\ Current \in Call
  BY <1>1, Innermost
<1>3. /\ This.w \in Words
      /\ sub \in Seq(Cell) /\ Len(sub) \in Nat /\ DOMAIN sub = 1 .. Len(sub)
      /\ Len(host) + Len(sub) < MaxSize
  <2>1. This.w \in Words
    BY <1>1, Innermost DEF Inlinable, Refers
  <2>2. sub \in Seq(Cell)
    BY <2>1 DEF IInv, Bodies
  <2> QED
    BY <1>1, <2>1, <2>2, LenProperties DEF Inlinable, Fits
<1>4. new \in Seq(Cell) /\ Len(new) = Len(host) + Len(sub) - 1 /\ Mixed(new, host, sub)
  BY <1>2, <1>3, SpliceProperties
<1>5. /\ origin' \in [Words -> Seq(Int)]
      /\ \A w \in Words : Len(origin'[w]) = IF w = Host THEN Len(new) ELSE Len(origin[w])
  <2> DEFINE old == origin[Host]
             ins == [i \in 1 .. Len(sub) |-> old[At]]
             org == Splice(old, At, ins)
  <2>1. origin \in [Words -> Seq(Int)] /\ old \in Seq(Int) /\ Len(old) = Len(host)
    BY <1>2 DEF IInv, Bodies
  <2>2. old[At] \in Int
    BY <1>2, <2>1, ElementOfSeq
  <2>3. ins \in Seq(Int) /\ Len(ins) = Len(sub)
    <3>1. PICK n \in Nat : n = Len(sub)
      BY <1>3
    <3>2. ins = [i \in 1 .. n |-> old[At]]
      BY <3>1
    <3> QED
      BY <2>2, <3>1, <3>2
  <2>4. origin' = [origin EXCEPT ![Host] = org]
    BY <1>1, <1>3
  <2>5. At \in 1 .. Len(old)
    BY <1>2, <2>1
  <2> HIDE DEF ins, old
  <2>6. org \in Seq(Int) /\ Len(org) = Len(old) + Len(ins) - 1
    BY <2>1, <2>3, <2>5, SpliceProperties, Zenon
  <2>7. Len(org) = Len(new)
    BY <1>4, <2>1, <2>3, <2>6
  <2> HIDE DEF org
  <2> QED
    BY <1>2, <2>1, <2>4, <2>6, <2>7
<1>6. \A i \in 1 .. Len(new) :
        /\ Refers(new[i])
        /\ IsLocal(new[i]) => Key(new[i]) \in locals[Host] \cup locals[This.w]
  <2>1. \A i \in 1 .. Len(host) :
          Refers(host[i]) /\ (IsLocal(host[i]) => Key(host[i]) \in locals[Host])
    BY <1>2, LenProperties DEF IInv, Bodies, LocalsFollow
  <2>2. \A i \in 1 .. Len(sub) :
          Refers(sub[i]) /\ (IsLocal(sub[i]) => Key(sub[i]) \in locals[This.w])
    BY <1>3 DEF IInv, Bodies, LocalsFollow
  <2> QED
    BY <2>1, <2>2, <1>4 DEF Mixed
<1> HIDE DEF new
<1>7. Len(new) + 2 <= MaxSize
  <2> DEFINE h == Len(host)
             n == Len(sub)
  <2>1. h \in Nat /\ n \in Nat /\ h + n < MaxSize /\ Len(new) = h + n - 1
    BY <1>2, <1>3, <1>4
  <2> HIDE DEF h, n
  <2> QED
    BY <2>1, SizeAssumption
<1>8. Bodies' /\ SizeBounded' /\ LocalsFollow'
  <2>1. /\ DOMAIN locals' = DOMAIN locals
        /\ \A w \in Words :
             locals'[w] = IF w = Host THEN locals[Host] \cup locals[This.w] ELSE locals[w]
    BY <1>1, <1>2 DEF IInv, Bodies
  <2> QED
    BY <1>1, <1>4, <1>5, <1>6, <1>7, <2>1, HostChanges
<1>9. /\ \A w \in Words : w # Host => Len(body'[w]) = Len(body[w])
      /\ Len(body'[Host]) = Len(host) + Len(sub) - 1
      /\ Len(body'[This.w]) \in Nat
  <2>1. body \in [Words -> Seq(Cell)]
    BY DEF IInv, Bodies
  <2> QED
    BY <1>1, <1>2, <1>3, <1>4, <2>1
<1>10. f \in Call /\ f.w = Host /\ f.at <= Len(body'[Host]) + 1
  <2>1. f.at = At + Len(sub) /\ f.w = Host
    BY <1>2 DEF Call, Host
  <2> DEFINE h == Len(host)
             n == Len(sub)
             m == Len(body'[This.w])
             a == At + n
             o == Current.offset + m - 1
             g == [Current EXCEPT !.at = a, !.offset = o]
  <2>2. h \in Nat /\ n \in Nat /\ m \in Nat /\ Len(body'[Host]) = h + n - 1 /\ At \in 1 .. h
    BY <1>2, <1>3, <1>9
  <2>3. f = g /\ f.at = At + n
    BY <2>1
  <2> HIDE DEF f, h, n, m
  <2>4. o \in Int
    BY <1>2, <2>2 DEF Call
  <2>5. At + n \in Nat \ {0} /\ At + n <= Len(body'[Host]) + 1
    BY <2>2
  <2>6. g \in Call
    <3>1. a \in Nat \ {0}
      BY <2>5
    <3> HIDE DEF a, o
    <3> QED
      BY <1>2, <2>4, <3>1 DEF Call
  <2> QED
    BY <2>1, <2>3, <2>5, <2>6
<1> HIDE DEF f
<1>11. Active'
  BY <1>1, <1>9, <1>10, AdvanceKeeps
<1> QED
  BY <1>8, <1>11 DEF IInv

LEMMA FixBranchKeeps == IInv /\ FixBranch => IInv'
<1> SUFFICES ASSUME IInv, FixBranch PROVE IInv'
  OBVIOUS
<1> DEFINE host == body[Host]
           old  == host[At + 1]
           cell == [old EXCEPT !.n = old.n - Current.offset]
           new  == [host EXCEPT ![At + 1] = cell]
           f    == [Current EXCEPT !.at = At + 1]
<1>1. /\ calls # <<>> /\ Inside /\ At < Len(host) /\ IsNumber(old)
      /\ body' = IF old.n < 0 THEN [body EXCEPT ![Host] = new] ELSE body
      /\ Advance(f)
      /\ UNCHANGED <<program, locals, visited, outcome, origin>>
  BY DEF FixBranch, In
<1>2. /\ Host \in Words /\ At \in 1 .. Len(host) /\ host \in Seq(Cell) /\ Len(host) \in Nat
      /\ Current \in Call /\ Current.offset \in Int
  BY <1>1, Innermost DEF Call
<1>3. f \in Call /\ f.w = Host /\ f.at <= Len(host) + 1
  BY <1>1, <1>2 DEF Call, Host
<1>4. old.n \in Int
  <2>1. old \in Cell
    BY <1>1, <1>2, ElementOfSeq
  <2> QED
    BY <1>1, <2>1 DEF Cell, IsNumber, NumCell, WordCell, PrimCell, LocalCell, UndefCell
<1>5. CASE old.n >= 0
  <2>1. UNCHANGED <<program, body, locals, origin>>
    BY <1>4, <1>1, <1>5
  <2> QED
    BY <1>1, <1>3, <2>1, AdvanceKeeps, BodiesKept DEF IInv
<1>6. CASE old.n < 0
  <2>1. old \in Cell /\ At + 1 \in 1 .. Len(host)
    BY <1>1, <1>2, ElementOfSeq
  <2>2. cell \in Cell /\ cell.kind = "num"
    <3>1. old.n - Current.offset \in Int
      BY <1>4, <1>2
    <3> QED
      BY <1>1, <2>1, <3>1, NumberCell
  <2>3. body' = [body EXCEPT ![Host] = new]
    BY <1>1, <1>6
  <2> HIDE DEF cell
  <2>4. /\ new \in Seq(Cell) /\ Len(new) = Len(host)
        /\ \A i \in 1 .. Len(host) : new[i] = IF i = At + 1 THEN cell ELSE host[i]
    BY <1>2, <2>1, <2>2, ExceptSeq
  <2> HIDE DEF new
  <2>5. /\ origin' \in [Words -> Seq(Int)]
        /\ \A w \in Words : Len(origin'[w]) = IF w = Host THEN Len(new) ELSE Len(origin[w])
    BY <1>1, <1>2, <2>4 DEF IInv, Bodies
  <2>6. /\ DOMAIN locals' = DOMAIN locals
        /\ \A w \in Words :
             locals'[w] = IF w = Host THEN locals[Host] \cup {} ELSE locals[w]
    BY <1>1
  <2>7. \A i \in 1 .. Len(new) :
          Refers(new[i]) /\ (IsLocal(new[i]) => Key(new[i]) \in locals[Host] \cup {})
    <3>1. Refers(cell) /\ ~IsLocal(cell)
      BY <2>2 DEF Refers, IsLocal
    <3>2. \A i \in 1 .. Len(host) :
            Refers(host[i]) /\ (IsLocal(host[i]) => Key(host[i]) \in locals[Host])
      BY <1>2, LenProperties DEF IInv, Bodies, LocalsFollow
    <3> QED
      BY <2>4, <3>1, <3>2
  <2>8. Bodies' /\ SizeBounded' /\ LocalsFollow'
    BY <1>1, <2>3, <2>4, <2>5, <2>6, <2>7, HostChanges
  <2>9. /\ \A w \in Words : w # Host => Len(body'[w]) = Len(body[w])
        /\ Len(body'[Host]) = Len(host)
    BY <1>2, <2>3, <2>4 DEF IInv, Bodies
  <2>10. Active'
    BY <1>1, <1>3, <2>9, AdvanceKeeps
  <2> QED
    BY <2>8, <2>10 DEF IInv
<1> QED
  BY <1>4, <1>5, <1>6

LEMMA NextKeeps == IInv /\ [Next]_vars => IInv'
<1>1. IInv /\ UNCHANGED vars => IInv'
  <2> SUFFICES ASSUME IInv, UNCHANGED vars PROVE IInv'
    OBVIOUS
  <2>1. Active'
    BY DEF IInv, Active, vars, Words, Call
  <2> QED
    BY <2>1, BodiesKept DEF IInv, vars
<1> QED
  BY <1>1, VisitWordKeeps, PassOverKeeps, StartInliningKeeps, InlineCallKeeps, StopKeeps,
     FixBranchKeeps, ReturnKeeps DEF Next

\* Every step of dfs keeps the conjunction of the four parts: an active call
\* stays inside its definition because nobody else walks the one that changes.
THEOREM Invariant == Spec => []IInv
BY InitInvariant, NextKeeps, PTL DEF Spec

LEMMA InvariantTypes == IInv => TypeOK
<1> SUFFICES ASSUME IInv PROVE TypeOK
  OBVIOUS
<1>1. /\ DOMAIN body = Words /\ DOMAIN locals = Words /\ DOMAIN origin = Words
      /\ visited \subseteq Words /\ outcome \in Outcomes
  BY DEF IInv, Bodies, Active
<1>2. ASSUME NEW w \in Words
      PROVE  body[w] \in Seq(Cell) /\ DOMAIN origin[w] = DOMAIN body[w]
  <2>1. body[w] \in Seq(Cell) /\ origin[w] \in Seq(Int) /\ Len(origin[w]) = Len(body[w])
    BY DEF IInv, Bodies
  <2> QED
    BY <2>1, LenProperties
<1>3. ASSUME NEW k \in DOMAIN calls
      PROVE  /\ calls[k].w \in visited
             /\ calls[k].phase \in {"visit", "inline"}
             /\ calls[k].at \in 1 .. Len(body[calls[k].w]) + 1
             /\ calls[k].offset \in Int
  <2>1. calls \in Seq(Call) /\ k \in 1 .. Len(calls)
    BY LenProperties DEF IInv, Active
  <2>2. calls[k] \in Call
    BY <2>1, ElementOfSeq
  <2>3. calls[k].w \in visited /\ calls[k].at <= Len(body[calls[k].w]) + 1
    BY <2>1 DEF IInv, Active
  <2>4. Len(body[calls[k].w]) \in Nat
    BY <1>1, <1>2, <2>3, LenProperties
  <2> QED
    BY <2>2, <2>3, <2>4 DEF Call
<1> QED
  BY <1>1, <1>2, <1>3 DEF TypeOK, Outcomes

-----------------------------------------------------------------------------
(***************************************************************************)
(* The theorems.                                                           *)
(***************************************************************************)
\* Every variable of Analysis::inlining holds what its C++ counterpart can
\* hold: cells stay cells whatever is inlined and corrected, and an active
\* call of dfs never stands beyond the end of its definition, not even one
\* that a call of the same word has grown.
THEOREM TypeCorrect == Spec => []TypeOK
BY Invariant, InvariantTypes, PTL

\* can_inline: a definition that inlining has changed keeps under the limit,
\* whatever the limit, the programs and the order in which dfs meets the words.
THEOREM SizesStayBounded == Spec => []SizeBounded
<1>1. IInv => SizeBounded
  BY DEF IInv
<1> QED
  BY <1>1, Invariant, PTL

\* ForthWord::add_local after replace_with: no inlined cell accesses a local
\* that its new word does not know.
THEOREM LocalsAlwaysFollow == Spec => []LocalsFollow
<1>1. IInv => LocalsFollow
  BY DEF IInv
<1> QED
  BY <1>1, Invariant, PTL

-----------------------------------------------------------------------------
(***************************************************************************)
(* What the second pass has made of a definition on its way to position a. *)
(* Of the original d, whose cells stem from o, it has made b, which is     *)
(* longer by s.                                                            *)
(***************************************************************************)
Shift(d, b) == Len(b) - Len(d)

\* Cells up to a stem from cells up to a - s, in order, and the rest are in place.
Stems(b, o, a, s) ==
  /\ Len(o) = Len(b) /\ a - s >= 1
  /\ \A i \in 1 .. Len(b) :
       /\ o[i] >= 1
       /\ i < a => o[i] < a - s
       /\ i >= a => o[i] = i - s
  /\ \A i, k \in 1 .. Len(b) : i < k => o[i] <= o[k]

\* The rest has not changed, but for an offset corrected just now.
Ahead(d, b, a, s) ==
  \A i \in a .. Len(b) :
    \/ b[i] = d[i - s]
    \/ i = a /\ IsNumber(b[i]) /\ IsNumber(d[i - s])

\* A call of word w itself was replaced by a definition of two cells or more.
Doubled(w, d, o) ==
  Len(o) >= 2 /\ o[1] = o[2] /\ \E j \in 1 .. Len(d) : d[j] = WordXt(w) /\ o[1] = j

\* The j-th original cell, a branch with an offset, is the q-th by now; the offset
\* of a branch back reaches over the growth before it, which the copy of a word
\* into itself gets wrong.
Kept(w, d, b, o, j, q) ==
  /\ q + 1 <= Len(b) /\ o[q] = j /\ b[q] = d[j]
  /\ \A i \in 1 .. q - 1 : o[i] < j
  /\ IsNumber(b[q + 1])
  /\ d[j + 1].n >= 0 => b[q + 1].n = d[j + 1].n
  /\ d[j + 1].n < 0 => b[q + 1].n = d[j + 1].n - (q - j) \/ Doubled(w, d, o)

Offsets(d, j) == j < Len(d) /\ IsBranch(d[j]) /\ IsNumber(d[j + 1])

KeptBefore(w, d, b, o, j, a) == \E q \in 1 .. a - 1 : Kept(w, d, b, o, j, q)

Behind(w, d, b, o, a, s) ==
  \A j \in 1 .. a - s - 1 : Offsets(d, j) => KeptBefore(w, d, b, o, j, a)

Spread(w, d, b, o, a) ==
  /\ Stems(b, o, a, Shift(d, b))
  /\ Ahead(d, b, a, Shift(d, b))
  /\ Behind(w, d, b, o, a, Shift(d, b))

Original(w)  == program[w].body
Identity(b)  == [i \in 1 .. Len(b) |-> i]
Untouched(w) == body[w] = Original(w) /\ origin[w] = Identity(body[w])
SpreadTo(w, a) == Spread(w, Original(w), body[w], origin[w], a)

\* An active call: its first pass changes nothing.
Stands(c, d, b, o) ==
  /\ c.phase = "visit" => b = d /\ o = Identity(b)
  /\ c.phase = "inline" => /\ Spread(c.w, d, b, o, c.at)
                           /\ c.offset = Shift(d, b) \/ Doubled(c.w, d, o)

Position(c) == Stands(c, Original(c.w), body[c.w], origin[c.w])

Placed ==
  /\ \A w \in Words \ visited : Untouched(w)
  /\ \A k \in 1 .. Len(calls) : Position(calls[k])
  /\ \A w \in visited : (\A k \in 1 .. Len(calls) : calls[k].w # w) =>
       SpreadTo(w, Len(body[w]) + 1)

LEMMA SpliceElements ==
  ASSUME NEW S, NEW s \in Seq(S), NEW t \in Seq(S), NEW i \in 1 .. Len(s)
  PROVE  \A j \in 1 .. Len(s) + Len(t) - 1 :
           Splice(s, i, t)[j] = IF j < i THEN s[j]
                                ELSE IF j < i + Len(t) THEN t[j - i + 1]
                                ELSE s[j - Len(t) + 1]
<1> DEFINE a == SubSeq(s, 1, i - 1)
           b == SubSeq(s, i + 1, Len(s))
           c == a \o t
           m == Len(s)
           n == Len(t)
<1>1. m \in Nat /\ n \in Nat /\ i \in 1 .. m
  BY LenProperties
<1>2. a \in Seq(S) /\ Len(a) = i - 1 /\ \A k \in 1 .. i - 1 : a[k] = s[k]
  <2>1. /\ a \in Seq(S) /\ Len(a) = i - 1 - 1 + 1
        /\ \A k \in 1 .. i - 1 - 1 + 1 : a[k] = s[1 + k - 1]
    BY <1>1, Part
  <2> QED
    BY <1>1, <2>1
<1>3. b \in Seq(S) /\ Len(b) = m - i /\ \A k \in 1 .. m - i : b[k] = s[i + k]
  <2>1. /\ b \in Seq(S) /\ Len(b) = m - (i + 1) + 1
        /\ \A k \in 1 .. m - (i + 1) + 1 : b[k] = s[i + 1 + k - 1]
    BY <1>1, Part
  <2> QED
    BY <1>1, <2>1
<1>4. Splice(s, i, t) = c \o b
  BY DEF Splice
<1> HIDE DEF a, b
<1>5. /\ c \in Seq(S) /\ Len(c) = i - 1 + n
      /\ \A k \in 1 .. i - 1 + n : c[k] = IF k <= i - 1 THEN a[k] ELSE t[k - (i - 1)]
  <2>1. /\ c \in Seq(S) /\ Len(c) = Len(a) + n
        /\ \A k \in 1 .. Len(a) + n : c[k] = IF k <= Len(a) THEN a[k] ELSE t[k - Len(a)]
    BY <1>2, ConcatProperties
  <2> QED
    BY <1>2, <2>1
<1> HIDE DEF c
<1> DEFINE r == c \o b
<1>6. \A k \in 1 .. i - 1 + n + (m - i) :
        r[k] = IF k <= i - 1 + n THEN c[k] ELSE b[k - (i - 1 + n)]
  BY <1>3, <1>5, ConcatProperties
<1>7. Splice(s, i, t) = r
  BY <1>4
<1> HIDE DEF r, m, n
<1>8. ASSUME NEW j \in 1 .. m + n - 1
      PROVE  r[j] = IF j < i THEN s[j] ELSE IF j < i + n THEN t[j - i + 1] ELSE s[j - n + 1]
  <2>1. j \in 1 .. i - 1 + n + (m - i)
    BY <1>1
  <2>2. CASE j < i
    <3>1. r[j] = c[j] /\ c[j] = a[j] /\ a[j] = s[j]
      BY <1>1, <1>2, <1>5, <1>6, <2>1, <2>2
    <3> QED
      BY <2>2, <3>1
  <2>3. CASE i <= j /\ j < i + n
    <3>1. r[j] = c[j] /\ c[j] = t[j - (i - 1)] /\ j - (i - 1) = j - i + 1
      BY <1>1, <1>5, <1>6, <2>1, <2>3
    <3> QED
      BY <1>1, <2>3, <3>1
  <2>4. CASE i + n <= j
    <3>1. r[j] = b[j - (i - 1 + n)]
      BY <1>1, <1>6, <2>1, <2>4
    <3>2. j - (i - 1 + n) \in 1 .. m - i
      BY <1>1, <2>4
    <3>3. b[j - (i - 1 + n)] = s[i + (j - (i - 1 + n))] /\ i + (j - (i - 1 + n)) = j - n + 1
      BY <1>1, <1>3, <3>2
    <3> QED
      BY <1>1, <2>4, <3>1, <3>3
  <2> QED
    BY <1>1, <2>2, <2>3, <2>4
<1> QED
  BY <1>7, <1>8 DEF m, n

LEMMA ShiftProperties ==
  ASSUME NEW d \in Seq(Cell), NEW b \in Seq(Cell)
  PROVE  /\ Len(d) \in Nat /\ Len(b) \in Nat /\ Shift(d, b) \in Int
         /\ Len(b) = Len(d) + Shift(d, b)
BY LenProperties DEF Shift

\* Before the second pass.
LEMMA SpreadStarts ==
  ASSUME NEW w, NEW d \in Seq(Cell), NEW o, o = Identity(d)
  PROVE  Spread(w, d, d, o, 1) /\ Shift(d, d) = 0
<1> DEFINE n == Len(d)
<1>1. n \in Nat /\ Shift(d, d) = 0
  BY LenProperties DEF Shift
<1>2. Len(o) = n /\ \A i \in 1 .. n : o[i] = i
  <2>1. PICK k \in Nat : k = n
    BY <1>1
  <2>2. o = [i \in 1 .. k |-> i]
    BY <2>1 DEF Identity
  <2>3. o \in [1 .. k -> Int]
    BY <2>2
  <2>4. Len(o) = k
    BY <2>3, Listed
  <2> QED
    BY <2>1, <2>2, <2>4
<1> HIDE DEF n
<1> QED
  BY <1>1, <1>2 DEF Spread, Stems, Ahead, Behind, n

LEMMA NotBoth == \A x : IsNumber(x) => ~IsBranch(x) /\ x.kind # "word"
BY DEF IsNumber, IsBranch

\* One step over the cell at a, which is p in the original definition.
LEMMA StemsStep ==
  ASSUME NEW b, NEW o \in Seq(Int), NEW a \in 1 .. Len(b), NEW s \in Int,
         Len(b) \in Nat, Stems(b, o, a, s)
  PROVE  Stems(b, o, a + 1, s)
<1>1. \A i \in 1 .. Len(b) : o[i] \in Int
  BY ElementOfSeq DEF Stems
<1>2. ASSUME NEW i \in 1 .. Len(b)
      PROVE  /\ i < a + 1 => o[i] < a + 1 - s
             /\ i >= a + 1 => o[i] = i - s
  BY <1>1 DEF Stems
<1> QED
  BY <1>2 DEF Stems

LEMMA KeptLater ==
  ASSUME NEW w, NEW d, NEW b, NEW r, NEW o, NEW a \in Nat, NEW j,
         KeptBefore(w, d, b, o, j, a), Len(r) = Len(b),
         \A i \in 1 .. a : r[i] = b[i]
  PROVE  KeptBefore(w, d, r, o, j, a + 1)
<1>1. PICK q \in 1 .. a - 1 : Kept(w, d, b, o, j, q)
  BY DEF KeptBefore
<1>2. q \in 1 .. (a + 1) - 1 /\ r[q] = b[q] /\ r[q + 1] = b[q + 1]
  OBVIOUS
<1>3. Kept(w, d, r, o, j, q)
  BY <1>1, <1>2 DEF Kept
<1> QED
  BY <1>2, <1>3 DEF KeptBefore

LEMMA SpreadSkips ==
  ASSUME NEW w, NEW d \in Seq(Cell), NEW b \in Seq(Cell), NEW o \in Seq(Int),
         NEW a \in 1 .. Len(b), Spread(w, d, b, o, a), ~IsBranch(b[a])
  PROVE  Spread(w, d, b, o, a + 1)
<1>1. PICK s : s = Shift(d, b)
  OBVIOUS
<1>2. Len(d) \in Nat /\ Len(b) \in Nat /\ s \in Int /\ Len(b) = Len(d) + s
  BY <1>1, ShiftProperties
<1>3. Stems(b, o, a, s) /\ Ahead(d, b, a, s) /\ Behind(w, d, b, o, a, s)
  BY <1>1 DEF Spread
<1>4. Stems(b, o, a + 1, s)
  BY <1>2, <1>3, StemsStep
<1>5. Ahead(d, b, a + 1, s)
  BY <1>2, <1>3 DEF Ahead
<1>6. ASSUME NEW j \in 1 .. (a + 1) - s - 1, Offsets(d, j)
      PROVE  KeptBefore(w, d, b, o, j, a + 1)
  <2>1. CASE j = a - s
    <3>1. ~IsBranch(d[a - s])
      BY <1>2, <1>3, NotBoth DEF Ahead
    <3> QED
      BY <1>6, <2>1, <3>1 DEF Offsets
  <2>2. CASE j # a - s
    <3>1. KeptBefore(w, d, b, o, j, a)
      BY <1>2, <1>3, <1>6, <2>2 DEF Behind
    <3> QED
      BY <3>1, KeptLater
  <2> QED
    BY <2>1, <2>2
<1>7. Behind(w, d, b, o, a + 1, s)
  BY <1>6 DEF Behind
<1> QED
  BY <1>1, <1>4, <1>5, <1>7 DEF Spread

\* Of the cells b a branch at a has its offset corrected by what was counted.
Corrects(r, b, a, counted) ==
  /\ IsBranch(b[a]) /\ a < Len(b) /\ IsNumber(b[a + 1])
  /\ Len(r) = Len(b)
  /\ \A i \in 1 .. Len(b) : i # a + 1 => r[i] = b[i]
  /\ IsNumber(r[a + 1])
  /\ r[a + 1].n = IF b[a + 1].n < 0 THEN b[a + 1].n - counted ELSE b[a + 1].n

LEMMA SpreadFixes ==
  ASSUME NEW w, NEW d \in Seq(Cell), NEW b \in Seq(Cell), NEW o \in Seq(Int),
         NEW a \in 1 .. Len(b), Spread(w, d, b, o, a),
         NEW r \in Seq(Cell), NEW grown \in Int, Corrects(r, b, a, grown),
         grown = Shift(d, b) \/ Doubled(w, d, o)
  PROVE  Spread(w, d, r, o, a + 1)
<1>1. PICK s : s = Shift(d, b)
  OBVIOUS
<1>2. /\ Len(d) \in Nat /\ Len(b) \in Nat /\ s \in Int /\ Len(b) = Len(d) + s
      /\ s = Shift(d, r) /\ Len(r) = Len(b) /\ a < Len(b) /\ a \in 1 .. Len(b)
  BY <1>1, ShiftProperties DEF Shift, Corrects
<1>3. Stems(b, o, a, s) /\ Ahead(d, b, a, s) /\ Behind(w, d, b, o, a, s)
  BY <1>1 DEF Spread
<1>4. Stems(r, o, a + 1, s)
  <2>1. Stems(b, o, a + 1, s)
    BY <1>2, <1>3, StemsStep
  <2> QED
    BY <1>2, <2>1 DEF Stems
<1>5. b[a] = d[a - s] /\ b[a + 1] = d[(a + 1) - s]
  <2>1. a \in a .. Len(b) /\ a + 1 \in a .. Len(b) /\ a + 1 # a
    BY <1>2
  <2>2. b[a] = d[a - s] \/ IsNumber(b[a])
    BY <1>3, <2>1 DEF Ahead
  <2>3. ~IsNumber(b[a])
    BY NotBoth DEF Corrects
  <2>4. \A i \in a .. Len(b) : i # a => b[i] = d[i - s]
    BY <1>3 DEF Ahead
  <2> QED
    BY <2>1, <2>2, <2>3, <2>4
<1>6. Ahead(d, r, a + 1, s)
  BY <1>2, <1>3, <1>5 DEF Ahead, Corrects
<1>7. Kept(w, d, r, o, a - s, a)
  <2>1. a + 1 <= Len(r) /\ o[a] = a - s /\ r[a] = d[a - s] /\ IsNumber(r[a + 1])
    BY <1>2, <1>3, <1>5 DEF Stems, Corrects
  <2>2. \A i \in 1 .. a - 1 : o[i] < a - s
    BY <1>2, <1>3 DEF Stems
  <2>3. b[a + 1] = d[a - s + 1] /\ d[a - s + 1] \in Cell /\ IsNumber(d[a - s + 1])
    <3>1. (a + 1) - s = a - s + 1 /\ a - s + 1 \in 1 .. Len(d)
      BY <1>2, <1>3 DEF Stems
    <3> QED
      BY <1>5, <3>1, ElementOfSeq DEF Corrects
  <2>4. d[a - s + 1].n \in Int
    BY <2>3, NumberCell
  <2>5. /\ d[a - s + 1].n >= 0 => r[a + 1].n = d[a - s + 1].n
        /\ d[a - s + 1].n < 0 => \/ r[a + 1].n = d[a - s + 1].n - (a - (a - s))
                                 \/ Doubled(w, d, o)
    <3>1. a - (a - s) = s
      BY <1>2
    <3> QED
      BY <1>1, <2>3, <2>4, <3>1 DEF Corrects
  <2> QED
    BY <2>1, <2>2, <2>5 DEF Kept
<1>8. ASSUME NEW j \in 1 .. (a + 1) - s - 1, Offsets(d, j)
      PROVE  KeptBefore(w, d, r, o, j, a + 1)
  <2>1. CASE j = a - s
    <3>1. a \in 1 .. (a + 1) - 1
      BY <1>2
    <3> QED
      BY <1>7, <2>1, <3>1 DEF KeptBefore
  <2>2. CASE j # a - s
    <3>1. KeptBefore(w, d, b, o, j, a)
      <4>1. j \in 1 .. a - s - 1
        <5>1. (a + 1) - s - 1 = a - s /\ a - s \in Int
          BY <1>2
        <5>2. j \in 1 .. a - s
          BY <5>1
        <5> QED
          BY <2>2, <5>1, <5>2
      <4> QED
        BY <1>3, <1>8, <4>1 DEF Behind
    <3>2. a \in Nat /\ \A i \in 1 .. a : r[i] = b[i]
      BY <1>2 DEF Corrects
    <3> QED
      BY <1>2, <3>1, <3>2, KeptLater
  <2> QED
    BY <2>1, <2>2
<1>9. Behind(w, d, r, o, a + 1, s)
  BY <1>8 DEF Behind
<1> QED
  BY <1>2, <1>4, <1>6, <1>9 DEF Spread

\* The a-th of the cells b, which stem from o, has become n of the cells r.
Replaces(r, q, b, o, a, n) ==
  /\ Len(r) = Len(b) + n - 1 /\ Len(q) = Len(r)
  /\ \A i \in 1 .. Len(r) : i < a => q[i] = o[i] /\ r[i] = b[i]
  /\ \A i \in 1 .. Len(r) : a <= i /\ i < a + n => q[i] = o[a]
  /\ \A i \in 1 .. Len(r) : i >= a + n => q[i] = o[i - n + 1] /\ r[i] = b[i - n + 1]

\* A call replaced by n cells.
LEMMA SpreadSplices ==
  ASSUME NEW w, NEW d \in Seq(Cell), NEW b \in Seq(Cell), NEW o \in Seq(Int),
         NEW a \in 1 .. Len(b), Spread(w, d, b, o, a), b[a].kind = "word",
         NEW n \in Nat, NEW r \in Seq(Cell), NEW q \in Seq(Int),
         Replaces(r, q, b, o, a, n)
  PROVE  /\ Spread(w, d, r, q, a + n)
         /\ Shift(d, r) = Shift(d, b) + n - 1
         /\ Doubled(w, d, o) => Doubled(w, d, q)
<1>1. PICK s : s = Shift(d, b)
  OBVIOUS
<1>2. PICK m, k, t : m = Len(b) /\ k = Len(r) /\ t = s + n - 1
  OBVIOUS
<1>13. /\ Shift(d, r) = t /\ Len(q) = k /\ Len(d) \in Nat
  BY <1>1, <1>2, ShiftProperties DEF Shift, Replaces
<1>3. m \in Nat /\ k \in Nat /\ s \in Int /\ t \in Int /\ k = m + n - 1 /\ a \in 1 .. m
  BY <1>1, <1>2, ShiftProperties DEF Shift, Replaces
<1>4. Stems(b, o, a, s) /\ Ahead(d, b, a, s) /\ Behind(w, d, b, o, a, s)
  BY <1>1 DEF Spread
<1>5. a - s >= 1 /\ Len(o) = m /\ \A i \in 1 .. m : o[i] \in Int
  <2>1. a - s >= 1 /\ Len(o) = m
    BY <1>2, <1>4 DEF Stems
  <2> QED
    BY <2>1, ElementOfSeq
<1>6. /\ \A i \in 1 .. m : o[i] >= 1 /\ (i < a => o[i] < a - s) /\ (i >= a => o[i] = i - s)
      /\ \A i, j \in 1 .. m : i < j => o[i] <= o[j]
  BY <1>2, <1>4 DEF Stems
<1>7. /\ \A i \in 1 .. k : i < a => i \in 1 .. m /\ q[i] = o[i] /\ r[i] = b[i]
      /\ \A i \in 1 .. k : a <= i /\ i < a + n => q[i] = o[a]
      /\ \A i \in 1 .. k : i >= a + n => /\ i - n + 1 \in 1 .. m /\ i - n + 1 > a
                                         /\ q[i] = o[i - n + 1] /\ r[i] = b[i - n + 1]
  <2>1. ASSUME NEW i \in 1 .. k, i < a PROVE i \in 1 .. m /\ q[i] = o[i] /\ r[i] = b[i]
    <3>1. i \in 1 .. m
      BY <1>3, <2>1
    <3>2. i \in 1 .. Len(r)
      BY <1>2
    <3> QED
      BY <2>1, <3>1, <3>2 DEF Replaces
  <2>2. ASSUME NEW i \in 1 .. k, a <= i, i < a + n PROVE q[i] = o[a]
    BY <1>2, <1>3, <2>2 DEF Replaces
  <2>3. ASSUME NEW i \in 1 .. k, i >= a + n
        PROVE  /\ i - n + 1 \in 1 .. m /\ i - n + 1 > a
               /\ q[i] = o[i - n + 1] /\ r[i] = b[i - n + 1]
    <3>1. i - n + 1 \in 1 .. m /\ i - n + 1 > a /\ ~(i < a) /\ ~(i < a + n)
      BY <1>3, <2>3
    <3> QED
      BY <1>2, <2>3, <3>1 DEF Replaces
  <2> QED
    BY <2>1, <2>2, <2>3
<1>8. Stems(r, q, a + n, t)
  <2>1. (a + n) - t = a - s + 1 /\ (a + n) - t >= 1
    BY <1>2, <1>3, <1>5
  <2>2. ASSUME NEW i \in 1 .. k
        PROVE  /\ q[i] >= 1
               /\ i < a + n => q[i] < (a + n) - t
               /\ i >= a + n => q[i] = i - t
    <3>1. CASE i < a
      <4>1. i \in 1 .. m /\ q[i] = o[i] /\ o[i] >= 1 /\ o[i] < a - s /\ o[i] \in Int
        BY <1>5, <1>6, <1>7, <3>1
      <4>2. o[i] < (a + n) - t
        BY <1>3, <2>1, <4>1
      <4>3. ~(i >= a + n)
        BY <1>3, <3>1
      <4> QED
        BY <4>1, <4>2, <4>3
    <3>2. CASE a <= i /\ i < a + n
      <4>1. q[i] = o[a] /\ o[a] = a - s /\ o[a] >= 1
        BY <1>3, <1>6, <1>7, <3>2
      <4>2. a - s < (a + n) - t
        BY <1>3, <2>1
      <4> QED
        BY <3>2, <4>1, <4>2, <1>3
    <3>3. CASE i >= a + n
      <4>1. i - n + 1 \in 1 .. m /\ i - n + 1 >= a /\ q[i] = o[i - n + 1]
        BY <1>3, <1>7, <3>3
      <4>2. o[i - n + 1] = (i - n + 1) - s /\ o[i - n + 1] >= 1
        BY <1>6, <4>1
      <4>3. (i - n + 1) - s = i - t
        BY <1>2, <1>3
      <4> QED
        BY <1>3, <3>3, <4>1, <4>2, <4>3
    <3> QED
      BY <1>3, <3>1, <3>2, <3>3
  <2>3. ASSUME NEW i \in 1 .. k, NEW j \in 1 .. k, i < j PROVE q[i] <= q[j]
    <3> DEFINE Source(x) == IF x < a THEN x ELSE IF x < a + n THEN a ELSE x - n + 1
    <3>1. \A x \in 1 .. k : q[x] = o[Source(x)] /\ Source(x) \in 1 .. m
      BY <1>3, <1>7
    <3>2. Source(i) <= Source(j)
      BY <1>3, <2>3
    <3> HIDE DEF Source
    <3>3. Source(i) = Source(j) \/ Source(i) < Source(j)
      BY <1>3, <3>1, <3>2
    <3> QED
      BY <1>5, <1>6, <3>1, <3>3
  <2> QED
    BY <1>2, <1>13, <2>1, <2>2, <2>3 DEF Stems
<1>9. Ahead(d, r, a + n, t)
  <2>1. ASSUME NEW i \in a + n .. k PROVE r[i] = d[i - t]
    <3>1. r[i] = b[i - n + 1] /\ i - n + 1 \in a .. m /\ i - n + 1 # a
      BY SMTT(30), <1>3, <1>7
    <3>2. b[i - n + 1] = d[(i - n + 1) - s]
      BY <1>2, <1>4, <3>1 DEF Ahead
    <3>3. (i - n + 1) - s = i - t
      BY <1>2, <1>3
    <3> QED
      BY <3>1, <3>2, <3>3
  <2> QED
    BY <1>2, <2>1 DEF Ahead
<1>10. Doubled(w, d, o) => Doubled(w, d, q)
  <2> SUFFICES ASSUME Doubled(w, d, o) PROVE Doubled(w, d, q)
    OBVIOUS
  <2>1. m >= 2 /\ o[1] = o[2]
    BY <1>5 DEF Doubled
  <2>2. 1 \in 1 .. m /\ 2 \in 1 .. m
    BY <1>3, <2>1
  <2>6. /\ 1 < a => o[1] < a - s
        /\ 1 >= a => o[1] = 1 - s
        /\ 2 < a => o[2] < a - s
        /\ 2 >= a => o[2] = 2 - s
        /\ o[1] \in Int /\ o[2] \in Int
    BY <1>5, <1>6, <2>2
  <2>5. 1 < a /\ 2 < a
    BY <1>3, <2>1, <2>6
  <2>3. k >= 2 /\ 1 \in 1 .. k /\ 2 \in 1 .. k /\ 1 < a /\ 2 < a
    BY <1>3, <2>1, <2>5
  <2>4. Len(q) >= 2 /\ q[1] = o[1] /\ q[2] = o[2]
    BY <1>7, <1>13, <2>3
  <2> QED
    BY <2>4 DEF Doubled
<1>11. ASSUME NEW j \in 1 .. (a + n) - t - 1, Offsets(d, j)
       PROVE  KeptBefore(w, d, r, q, j, a + n)
  <2>1. b[a] = d[a - s]
    <3>1. a \in a .. Len(b)
      BY <1>2, <1>3
    <3> QED
      BY <1>4, <3>1, NotBoth DEF Ahead
  <2>2. j # a - s
    BY <2>1, <1>11 DEF Offsets, IsBranch
  <2>3. j \in 1 .. a - s - 1
    BY <1>2, <1>3, <2>2
  <2>4. PICK x \in 1 .. a - 1 : Kept(w, d, b, o, j, x)
    BY <1>4, <1>11, <2>3 DEF Behind, KeptBefore
  <2>5. x + 1 < a
    <3>1. b[x + 1].kind = "num"
      BY <2>4 DEF Kept, IsNumber
    <3>2. x + 1 # a
      BY <3>1
    <3> QED
      BY <1>3, <3>2
  <2>6. /\ x \in 1 .. (a + n) - 1 /\ x + 1 <= k /\ x \in 1 .. k /\ x + 1 \in 1 .. k
        /\ \A i \in 1 .. x : i \in 1 .. k /\ i < a
    BY <1>3, <2>5
  <2>7. r[x] = b[x] /\ r[x + 1] = b[x + 1] /\ \A i \in 1 .. x : q[i] = o[i]
    BY <1>3, <1>7, <2>5, <2>6
  <2>8. Kept(w, d, r, q, j, x)
    <3>1. x \in 1 .. x /\ \A i \in 1 .. x - 1 : i \in 1 .. x
      OBVIOUS
    <3> QED
      BY <1>2, <1>10, <2>4, <2>6, <2>7, <3>1 DEF Kept
  <2> QED
    BY <2>6, <2>8 DEF KeptBefore
<1>12. Behind(w, d, r, q, a + n, t)
  BY <1>11 DEF Behind
<1> QED
  BY <1>1, <1>2, <1>13, <1>8, <1>9, <1>10, <1>12 DEF Spread

-----------------------------------------------------------------------------
(***************************************************************************)
(* The steps of dfs keep every definition in its place.                    *)
(***************************************************************************)
LEMMA InitPlaced == Init => Placed
<1> SUFFICES ASSUME Init PROVE Placed
  OBVIOUS
<1>1. ASSUME NEW w \in Words PROVE Untouched(w)
  <2>1. /\ program \in Programs /\ body[w] = program[w].body
        /\ origin[w] = [i \in DOMAIN body[w] |-> i]
    BY DEF Init
  <2>2. DOMAIN body[w] = 1 .. Len(body[w])
    BY <2>1, ProgramTyped DEF Words
  <2> QED
    BY <2>1, <2>2 DEF Untouched, Original, Identity
<1>2. PICK root \in Words : visited = {root} /\ calls = <<Enter(root)>>
  BY DEF Init
<1>3. Len(calls) = 1 /\ calls[1] = Enter(root) /\ Enter(root).w = root /\ Enter(root).phase = "visit"
  BY <1>2 DEF Enter
<1>4. \A k \in 1 .. Len(calls) : Position(calls[k])
  BY <1>1, <1>3 DEF Position, Stands, Untouched
<1>5. \A w \in visited : ~\A k \in 1 .. Len(calls) : calls[k].w # w
  BY <1>2, <1>3
<1> QED
  BY <1>1, <1>4, <1>5 DEF Placed

\* The innermost call goes on, and only its own definition may change.
LEMMA PlacesKept ==
  ASSUME IInv, Placed, calls # <<>>, NEW f, Advance(f), f.w = Host,
         UNCHANGED <<program, visited>>,
         \A w \in Words : w # Host => body'[w] = body[w] /\ origin'[w] = origin[w],
         Stands(f, Original(Host), body'[Host], origin'[Host])
  PROVE  Placed'
<1>1. /\ calls \in Seq(Call) /\ Len(calls) \in 1 .. Len(calls)
      /\ calls[Len(calls)].w = Host /\ Host \in visited
  BY Innermost DEF IInv, Active, Host
<1>2. /\ Len(calls') = Len(calls)
      /\ \A k \in 1 .. Len(calls) : calls'[k] = IF k = Len(calls) THEN f ELSE calls[k]
  BY <1>1, LenProperties DEF Advance
<1>3. /\ Words' = Words /\ visited' = visited /\ visited \subseteq Words
      /\ \A w : Original(w)' = Original(w)
  BY DEF Words, Original, IInv, Active
<1>4. ASSUME NEW w \in Words, w # Host
      PROVE  /\ Untouched(w)' <=> Untouched(w)
             /\ \A a : SpreadTo(w, a)' <=> SpreadTo(w, a)
             /\ body'[w] = body[w]
  BY <1>3, <1>4 DEF Untouched, SpreadTo
<1>5. \A w \in (Words \ visited)' : Untouched(w)'
  BY <1>1, <1>3, <1>4 DEF Placed
<1>6. ASSUME NEW k \in 1 .. Len(calls') PROVE Position(calls[k])'
  <2>1. CASE k = Len(calls)
    BY <1>2, <1>3, <2>1 DEF Position
  <2>2. CASE k # Len(calls)
    <3>1. k \in 1 .. Len(calls) /\ calls'[k] = calls[k] /\ calls[k].w # Host /\ calls[k].w \in Words
      BY <1>1, <1>2, <1>3, <2>2 DEF IInv, Active
    <3>2. Position(calls[k])
      BY <3>1 DEF Placed
    <3>3. body'[calls[k].w] = body[calls[k].w] /\ origin'[calls[k].w] = origin[calls[k].w]
      BY <3>1
    <3> QED
      BY <1>3, <3>1, <3>2, <3>3 DEF Position
  <2> QED
    BY <2>1, <2>2
<1>7. ASSUME NEW w \in visited', \A k \in 1 .. Len(calls') : calls'[k].w # w
      PROVE  SpreadTo(w, Len(body[w]) + 1)'
  <2>1. w \in Words /\ w # Host
    BY <1>1, <1>2, <1>3, <1>7
  <2>2. \A k \in 1 .. Len(calls) : calls[k].w # w
    BY <1>1, <1>2, <1>7, <2>1
  <2>3. SpreadTo(w, Len(body[w]) + 1)
    BY <1>3, <1>7, <2>2 DEF Placed
  <2>4. body'[w] = body[w] /\ origin'[w] = origin[w]
    BY <2>1
  <2> QED
    BY <1>3, <2>3, <2>4 DEF SpreadTo
<1> QED
  BY <1>5, <1>6, <1>7 DEF Placed

\* The innermost call, where it stands.
LEMMA InnermostStands ==
  ASSUME IInv, Placed, calls # <<>>
  PROVE  /\ Stands(Current, Original(Host), body[Host], origin[Host])
         /\ Original(Host) \in Seq(Cell) /\ body[Host] \in Seq(Cell)
         /\ origin[Host] \in Seq(Int) /\ Len(origin[Host]) = Len(body[Host])
<1>1. Len(calls) \in 1 .. Len(calls) /\ Current = calls[Len(calls)] /\ Host \in Words
  BY Innermost
<1>2. Position(Current)
  BY <1>1 DEF Placed
<1>3. Original(Host) \in Seq(Cell)
  BY <1>1, ProgramTyped DEF Original, Words, IInv, Bodies
<1> QED
  BY <1>1, <1>2, <1>3 DEF Position, Host, IInv, Bodies

LEMMA PassOverPlaced == IInv /\ Placed /\ (PassOver \/ StartInlining) => Placed'
<1> SUFFICES ASSUME IInv, Placed, PassOver \/ StartInlining PROVE Placed'
  OBVIOUS
<1>1. /\ calls # <<>> /\ Current.phase = "visit"
      /\ UNCHANGED <<program, body, locals, visited, outcome, origin>>
  BY DEF PassOver, StartInlining, In
<1>2. /\ body[Host] = Original(Host) /\ origin[Host] = Identity(body[Host])
      /\ Original(Host) \in Seq(Cell) /\ Current \in Call
  BY <1>1, InnermostStands, Innermost DEF Stands
<1>3. CASE PassOver
  <2> DEFINE f == [Current EXCEPT !.at = At + 1]
  <2>1. Advance(f)
    BY <1>3 DEF PassOver
  <2>2. f.w = Host /\ f.phase = "visit"
    BY <1>1, <1>2 DEF Call, Host
  <2> HIDE DEF f
  <2>3. Stands(f, Original(Host), body'[Host], origin'[Host])
    BY <1>1, <1>2, <2>2 DEF Stands
  <2> QED
    BY <1>1, <2>1, <2>2, <2>3, PlacesKept
<1>4. CASE StartInlining
  <2> DEFINE f == [Enter(Host) EXCEPT !.phase = "inline"]
  <2>1. Advance(f)
    BY <1>4 DEF StartInlining
  <2>2. f.w = Host /\ f.phase = "inline" /\ f.at = 1 /\ f.offset = 0
    BY DEF Enter
  <2> HIDE DEF f
  <2>3. Stands(f, Original(Host), body'[Host], origin'[Host])
    BY <1>1, <1>2, <2>2, SpreadStarts DEF Stands
  <2> QED
    BY <1>1, <2>1, <2>2, <2>3, PlacesKept
<1> QED
  BY <1>3, <1>4

LEMMA SkipCellPlaced == IInv /\ Placed /\ SkipCell => Placed'
<1> SUFFICES ASSUME IInv, Placed, SkipCell PROVE Placed'
  OBVIOUS
<1> DEFINE f == [Current EXCEPT !.at = At + 1]
           d == Original(Host)
           b == body[Host]
           o == origin[Host]
<1>1. /\ calls # <<>> /\ Current.phase = "inline" /\ Inside /\ ~IsBranch(This) /\ Advance(f)
      /\ UNCHANGED <<program, body, locals, visited, outcome, origin>>
  BY DEF SkipCell, In
<1>2. /\ Stands(Current, d, b, o) /\ d \in Seq(Cell) /\ b \in Seq(Cell) /\ o \in Seq(Int)
      /\ Current \in Call /\ At \in 1 .. Len(b)
  BY <1>1, InnermostStands, Innermost
<1>3. f.w = Host /\ f.phase = "inline" /\ f.at = At + 1 /\ f.offset = Current.offset
  BY <1>1, <1>2 DEF Call, Host
<1>4. /\ Spread(Host, d, b, o, At) /\ ~IsBranch(b[At])
      /\ Current.offset = Shift(d, b) \/ Doubled(Host, d, o)
  BY <1>1, <1>2 DEF Stands, Host, At, This
<1> HIDE DEF f, d, b, o
<1>5. Spread(Host, d, b, o, At + 1)
  BY <1>2, <1>4, SpreadSkips
<1>6. Stands(f, d, b, o)
  BY <1>3, <1>4, <1>5 DEF Stands
<1> QED
  BY <1>1, <1>3, <1>6, PlacesKept DEF d, b, o

LEMMA FixBranchPlaced == IInv /\ Placed /\ FixBranch => Placed'
<1> SUFFICES ASSUME IInv, Placed, FixBranch PROVE Placed'
  OBVIOUS
<1> DEFINE f == [Current EXCEPT !.at = At + 1]
           d == Original(Host)
           b == body[Host]
           o == origin[Host]
           r == body'[Host]
           grown == Current.offset
<1>1. /\ calls # <<>> /\ Current.phase = "inline" /\ Inside /\ IsBranch(b[At])
      /\ At < Len(b) /\ IsNumber(b[At + 1]) /\ Advance(f)
      /\ body' = IF b[At + 1].n < 0 THEN [body EXCEPT ![Host][At + 1].n = @ - grown] ELSE body
      /\ UNCHANGED <<program, visited, origin>>
  BY DEF FixBranch, In, This
<1>2. /\ Stands(Current, d, b, o) /\ d \in Seq(Cell) /\ b \in Seq(Cell) /\ o \in Seq(Int)
      /\ Current \in Call /\ At \in 1 .. Len(b) /\ Host \in Words
  BY <1>1, InnermostStands, Innermost
<1>3. /\ f.w = Host /\ f.phase = "inline" /\ f.at = At + 1 /\ f.offset = grown
      /\ grown \in Int
  BY <1>1, <1>2 DEF Call, Host
<1>4. /\ Spread(Host, d, b, o, At)
      /\ grown = Shift(d, b) \/ Doubled(Host, d, o)
  BY <1>1, <1>2 DEF Stands, Host, At
<1>5. IInv'
  BY FixBranchKeeps
<1>6. r \in Seq(Cell) /\ \A w \in Words : w # Host => body'[w] = body[w]
  <2>1. body \in [Words -> Seq(Cell)]
    BY DEF IInv, Bodies
  <2>2. r \in Seq(Cell)
    BY <1>1, <1>2, <1>5 DEF IInv, Bodies, Words
  <2> QED
    BY <1>1, <2>1, <2>2
<1>7. Corrects(r, b, At, grown)
  <2>1. b[At + 1] \in Cell /\ b[At + 1].n \in Int /\ At + 1 \in 1 .. Len(b) /\ At # At + 1
    <3>1. At + 1 \in 1 .. Len(b) /\ At # At + 1
      BY <1>1, <1>2, LenProperties
    <3>2. b[At + 1] \in Cell
      BY <1>2, <3>1, ElementOfSeq
    <3>3. b[At + 1].n \in Int
      BY <1>1, <3>2 DEF Cell, IsNumber, NumCell, WordCell, PrimCell, LocalCell, UndefCell
    <3> QED
      BY <3>1, <3>2, <3>3
  <2>2. CASE b[At + 1].n >= 0
    <3>1. r = b
      BY <1>1, <2>1, <2>2
    <3> HIDE DEF r, b
    <3> QED
      BY <1>1, <2>1, <2>2, <3>1 DEF Corrects
  <2>3. CASE b[At + 1].n < 0
    <3> DEFINE cell == [b[At + 1] EXCEPT !.n = b[At + 1].n - grown]
    <3>1. r = [b EXCEPT ![At + 1] = cell]
      BY <1>1, <1>2, <2>3 DEF IInv, Bodies
    <3>2. cell \in Cell /\ cell.kind = "num" /\ cell.n = b[At + 1].n - grown
      <4>1. b[At + 1].n - grown \in Int
        BY <1>3, <2>1
      <4>2. cell \in Cell /\ cell.kind = "num"
        BY <1>1, <2>1, <4>1, NumberCell
      <4>3. cell.n = b[At + 1].n - grown
        BY <2>1, <1>1 DEF Cell, IsNumber, NumCell, WordCell, PrimCell, LocalCell, UndefCell
      <4> QED
        BY <4>2, <4>3
    <3> HIDE DEF cell, r, b
    <3>3. /\ Len(r) = Len(b)
          /\ \A i \in 1 .. Len(b) : r[i] = IF i = At + 1 THEN cell ELSE b[i]
      BY <1>2, <2>1, <3>1, <3>2, ExceptSeq
    <3> QED
      BY <1>1, <2>1, <2>3, <3>2, <3>3 DEF Corrects, IsNumber
  <2> QED
    BY <2>1, <2>2, <2>3
<1> HIDE DEF f, d, b, o, r, grown
<1>8. Spread(Host, d, r, o, At + 1)
  BY <1>2, <1>3, <1>4, <1>6, <1>7, SpreadFixes
<1>9. Shift(d, r) = Shift(d, b)
  BY <1>7 DEF Corrects, Shift
<1>10. Stands(f, d, r, o)
  BY <1>3, <1>4, <1>8, <1>9 DEF Stands
<1> QED
  BY <1>1, <1>3, <1>6, <1>10, PlacesKept DEF d, b, o, r

LEMMA InlineCallPlaced == IInv /\ Placed /\ InlineCall => Placed'
<1> SUFFICES ASSUME IInv, Placed, InlineCall PROVE Placed'
  OBVIOUS
<1> DEFINE d == Original(Host)
           b == body[Host]
           o == origin[Host]
           sub == body[This.w]
           n == Len(sub)
           r == Splice(b, At, sub)
           q == Splice(o, At, [i \in DOMAIN sub |-> o[At]])
           f == [Current EXCEPT !.at = At + Len(sub), !.offset = @ + Len(body'[This.w]) - 1]
<1>1. /\ calls # <<>> /\ Current.phase = "inline" /\ Inside
      /\ This.kind = "word" /\ (This.w # Host \/ At = 1)
      /\ body' = [body EXCEPT ![Host] = r]
      /\ origin' = [origin EXCEPT ![Host] = q]
      /\ Advance(f)
      /\ UNCHANGED <<program, visited>>
  BY DEF InlineCall, Inline, AddLocals, In, Inlinable
<1>2. /\ Stands(Current, d, b, o) /\ d \in Seq(Cell) /\ b \in Seq(Cell) /\ o \in Seq(Int)
      /\ Len(o) = Len(b)
      /\ Current \in Call /\ At \in 1 .. Len(b) /\ Host \in Words /\ This \in Cell /\ Refers(This)
  BY <1>1, InnermostStands, Innermost
<1>3. /\ This.w \in Words /\ sub \in Seq(Cell) /\ n \in Nat /\ DOMAIN sub = 1 .. n
      /\ Len(b) \in Nat /\ At \in 1 .. Len(b)
      /\ body \in [Words -> Seq(Cell)] /\ origin \in [Words -> Seq(Int)]
  <2>1. This.w \in Words /\ body \in [Words -> Seq(Cell)] /\ origin \in [Words -> Seq(Int)]
    BY <1>1, <1>2 DEF Refers, IInv, Bodies
  <2>2. sub \in Seq(Cell)
    BY <2>1
  <2> QED
    BY <1>2, <2>1, <2>2, LenProperties
<1>4. r \in Seq(Cell) /\ Len(r) = Len(b) + n - 1
  BY ZenonT(30), <1>2, <1>3, SpliceProperties
<1>5. q \in Seq(Int) /\ Replaces(r, q, b, o, At, n)
  <2> DEFINE ins == [i \in 1 .. n |-> o[At]]
  <2>1. o[At] \in Int /\ At \in 1 .. Len(o)
    BY <1>2, ElementOfSeq
  <2>2. ins \in Seq(Int) /\ Len(ins) = n /\ \A i \in 1 .. n : ins[i] = o[At]
    <3> HIDE DEF n
    <3>1. ins \in [1 .. n -> Int]
      BY <2>1
    <3> QED
      BY <1>3, <3>1, Listed
  <2>3. q = Splice(o, At, ins)
    BY <1>3
  <2> HIDE DEF ins, o, b, n, sub, q
  <2>4. q \in Seq(Int) /\ Len(q) = Len(o) + Len(ins) - 1
    BY <1>2, <2>1, <2>2, <2>3, SpliceProperties, Zenon
  <2>5. \A j \in 1 .. Len(o) + Len(ins) - 1 :
          q[j] = IF j < At THEN o[j]
                 ELSE IF j < At + Len(ins) THEN ins[j - At + 1]
                 ELSE o[j - Len(ins) + 1]
    BY <1>2, <2>1, <2>2, <2>3, SpliceElements
  <2>6. \A j \in 1 .. Len(b) + Len(sub) - 1 :
          r[j] = IF j < At THEN b[j]
                 ELSE IF j < At + Len(sub) THEN sub[j - At + 1]
                 ELSE b[j - Len(sub) + 1]
    BY <1>2, <1>3, SpliceElements
  <2> HIDE DEF r
  <2>7. n = Len(sub) /\ Len(r) = Len(b) + n - 1 /\ Len(q) = Len(r) /\ At \in 1 .. Len(b)
        /\ n \in Nat /\ Len(b) \in Nat
    BY <1>2, <1>3, <1>4, <2>2, <2>4 DEF n
  <2>8. ASSUME NEW i \in 1 .. Len(r), i < At PROVE q[i] = o[i] /\ r[i] = b[i]
    BY <1>2, <2>2, <2>5, <2>6, <2>7, <2>8
  <2>9. ASSUME NEW i \in 1 .. Len(r), At <= i, i < At + n PROVE q[i] = o[At]
    <3>1. q[i] = ins[i - At + 1] /\ i - At + 1 \in 1 .. n
      BY <1>2, <2>2, <2>5, <2>7, <2>9
    <3> QED
      BY <2>2, <3>1
  <2>10. ASSUME NEW i \in 1 .. Len(r), i >= At + n
         PROVE  q[i] = o[i - n + 1] /\ r[i] = b[i - n + 1]
    BY <1>2, <2>2, <2>5, <2>6, <2>7, <2>10
  <2> QED
    BY <2>4, <2>7, <2>8, <2>9, <2>10 DEF Replaces
<1>6. /\ body'[Host] = r /\ origin'[Host] = q
      /\ \A w \in Words : w # Host => body'[w] = body[w] /\ origin'[w] = origin[w]
  BY <1>1, <1>2, <1>3
<1>7. /\ f.w = Host /\ f.phase = "inline" /\ f.at = At + n
      /\ f.offset = Current.offset + Len(body'[This.w]) - 1
      /\ Current.offset \in Int
  BY <1>1, <1>2 DEF Call, Host
<1>8. /\ Spread(Host, d, b, o, At)
      /\ Current.offset = Shift(d, b) \/ Doubled(Host, d, o)
  BY <1>1, <1>2 DEF Stands, Host, At
<1>9. b[At] = This /\ b[At].kind = "word"
  BY <1>1 DEF This
<1>10. This.w # Host => Len(body'[This.w]) = n
  BY <1>3, <1>6
<1>11. This.w = Host => At = 1 /\ Len(body'[This.w]) = Len(b) + n - 1 /\ n = Len(b)
  BY <1>1, <1>4, <1>6
<1> HIDE DEF f, d, b, o, n, sub, r, q
<1>12. /\ Spread(Host, d, r, q, At + n)
       /\ Shift(d, r) = Shift(d, b) + n - 1
       /\ Doubled(Host, d, o) => Doubled(Host, d, q)
  BY <1>2, <1>3, <1>4, <1>5, <1>8, <1>9, SpreadSplices
<1>13. ASSUME This.w = Host, n >= 2 PROVE Doubled(Host, d, q)
  <2>1. /\ Len(r) >= 2 /\ Len(q) = Len(r)
        /\ \A i \in 1 .. Len(r) : At <= i /\ i < At + n => q[i] = o[At]
    <3>1. /\ Len(q) = Len(r)
          /\ \A i \in 1 .. Len(r) : At <= i /\ i < At + n => q[i] = o[At]
      BY <1>5 DEF Replaces
    <3>2. Len(r) >= 2
      BY <1>3, <1>4, <1>13
    <3> QED
      BY <3>1, <3>2
  <2>2. At = 1 /\ Len(r) \in Nat
    BY <1>11, <1>13, <1>4, LenProperties
  <2>3. 1 \in 1 .. Len(r) /\ 2 \in 1 .. Len(r)
    BY <2>1, <2>2
  <2>4. q[1] = o[1] /\ q[2] = o[1]
    BY <1>3, <1>13, <2>1, <2>2, <2>3
  <2>5. PICK s : s = Shift(d, b)
    OBVIOUS
  <2>6. /\ Len(d) \in Nat /\ s \in Int /\ Len(b) = Len(d) + s
        /\ Stems(b, o, 1, s) /\ Ahead(d, b, 1, s)
    BY <1>2, <1>8, <2>2, <2>5, ShiftProperties DEF Spread
  <2>7. o[1] = 1 - s /\ 1 - s \in 1 .. Len(d)
    BY <1>3, <2>6 DEF Stems
  <2>8. b[1] = d[1 - s]
    <3>1. b[1] = d[1 - s] \/ IsNumber(b[1])
      BY <1>3, <2>6 DEF Ahead
    <3> QED
      BY <1>9, <2>2, <3>1, NotBoth
  <2>9. This = WordXt(Host)
    BY <1>2, <1>9, <1>13 DEF Cell, NumCell, WordCell, PrimCell, LocalCell, UndefCell, WordXt
  <2> QED
    BY <1>9, <2>1, <2>2, <2>4, <2>7, <2>8, <2>9 DEF Doubled
<1>14. f.offset = Shift(d, r) \/ Doubled(Host, d, q)
  <2>1. CASE Doubled(Host, d, o)
    BY <1>12, <2>1
  <2>2. CASE Current.offset = Shift(d, b) /\ This.w # Host
    BY <1>7, <1>10, <1>12, <2>2
  <2>3. CASE Current.offset = Shift(d, b) /\ This.w = Host /\ n = 1
    <3>1. Len(body'[This.w]) = Len(b) + n - 1 /\ n = Len(b)
      BY <1>11, <2>3
    <3>2. Len(body'[This.w]) = 1
      BY <2>3, <3>1
    <3> QED
      BY <1>7, <1>12, <2>3, <3>2
  <2>4. CASE Current.offset = Shift(d, b) /\ This.w = Host /\ n >= 2
    BY <1>13, <2>4
  <2>5. This.w = Host => n >= 1
    BY <1>3, <1>11
  <2> QED
    BY <1>3, <1>8, <2>1, <2>2, <2>3, <2>4, <2>5
<1>15. Stands(f, d, r, q)
  BY <1>7, <1>12, <1>14 DEF Stands
<1> QED
  BY <1>1, <1>6, <1>7, <1>15, PlacesKept DEF d

LEMMA VisitWordPlaced == IInv /\ Placed /\ VisitWord => Placed'
<1> SUFFICES ASSUME IInv, Placed, VisitWord PROVE Placed'
  OBVIOUS
<1> DEFINE f == [Current EXCEPT !.at = At + 1]
           held == [calls EXCEPT ![Len(calls)] = f]
           w == This.w
           e == Enter(w)
<1>1. /\ calls # <<>> /\ Current.phase = "visit" /\ Inside /\ This.kind = "word" /\ w \notin visited
      /\ UNCHANGED <<program, body, locals, outcome, origin>>
      /\ visited' = visited \cup {w}
  BY DEF VisitWord, In
<1>2. calls' = Append(held, e)
  BY Innermost, <1>1 DEF VisitWord, At
<1>3. /\ calls \in Seq(Call) /\ Len(calls) \in Nat \ {0} /\ Current \in Call
      /\ calls[Len(calls)] = Current /\ w \in Words /\ visited \subseteq Words
  BY <1>1, Innermost DEF Refers, IInv, Active
<1>4. f \in Call /\ f.w = Current.w /\ f.phase = "visit"
  <2>1. At + 1 \in Nat \ {0}
    BY <1>1, Innermost
  <2> QED
    BY <1>1, <1>3, <2>1 DEF Call
<1>5. e \in Call /\ e.w = w /\ e.phase = "visit"
  BY <1>3 DEF Enter, Call
<1> HIDE DEF f, w, e
<1>6. /\ held \in Seq(Call) /\ Len(held) = Len(calls)
      /\ \A k \in 1 .. Len(calls) : held[k] = IF k = Len(calls) THEN f ELSE calls[k]
  BY <1>3, <1>4, ExceptSeq
<1> HIDE DEF held
<1>7. /\ Len(calls') = Len(calls) + 1
      /\ \A k \in 1 .. Len(calls) : calls'[k] = IF k = Len(calls) THEN f ELSE calls[k]
      /\ calls'[Len(calls) + 1] = e
  BY <1>2, <1>3, <1>5, <1>6
<1>8. Words' = Words
  BY <1>1 DEF Words
<1>9. /\ \A x : Untouched(x)' <=> Untouched(x)
      /\ \A x : SpreadTo(x, Len(body[x]) + 1)' <=> SpreadTo(x, Len(body[x]) + 1)
      /\ \A c : Stands(c, Original(c.w)', body'[c.w], origin'[c.w]) <=> Position(c)
  BY <1>1 DEF Untouched, SpreadTo, Original, Position
<1>10. \A x \in (Words \ visited)' : Untouched(x)'
  BY <1>1, <1>8, <1>9 DEF Placed
<1>11. ASSUME NEW k \in 1 .. Len(calls') PROVE Position(calls[k])'
  <2>1. CASE k = Len(calls) + 1
    <3>1. Untouched(w)
      BY <1>1, <1>3 DEF Placed, w
    <3>2. Position(e)
      BY <1>5, <3>1 DEF Position, Stands, Untouched
    <3> QED
      BY <1>7, <1>9, <2>1, <3>2 DEF Position
  <2>2. CASE k = Len(calls)
    <3>1. Position(Current)
      BY <1>3 DEF Placed
    <3>2. Position(f)
      BY <1>1, <1>4, <3>1 DEF Position, Stands
    <3> QED
      BY <1>3, <1>7, <1>9, <2>2, <3>2 DEF Position
  <2>3. CASE k \in 1 .. Len(calls) - 1
    <3>1. Position(calls[k]) /\ calls'[k] = calls[k]
      BY <1>3, <1>7, <2>3 DEF Placed
    <3> QED
      BY <1>9, <3>1 DEF Position
  <2> QED
    BY <1>3, <1>7, <2>1, <2>2, <2>3
<1>12. ASSUME NEW x \in visited', \A k \in 1 .. Len(calls') : calls'[k].w # x
       PROVE  SpreadTo(x, Len(body[x]) + 1)'
  <2>1. x # w /\ \A k \in 1 .. Len(calls) : calls'[k].w # x
    <3>1. Len(calls) + 1 \in 1 .. Len(calls')
      BY <1>3, <1>7
    <3> QED
      BY <1>3, <1>5, <1>7, <1>12, <3>1
  <2>2. \A k \in 1 .. Len(calls) : calls[k].w # x
    BY <1>3, <1>4, <1>7, <2>1
  <2>3. x \in visited
    BY <1>1, <2>1, <1>12 DEF w
  <2> QED
    BY <1>9, <2>2, <2>3 DEF Placed
<1> QED
  BY <1>10, <1>11, <1>12 DEF Placed

LEMMA ReturnPlaced == IInv /\ Placed /\ Return => Placed'
<1> SUFFICES ASSUME IInv, Placed, Return PROVE Placed'
  OBVIOUS
<1>1. /\ calls # <<>> /\ Current.phase = "inline" /\ ~Inside /\ calls' = Front(calls)
      /\ UNCHANGED <<program, body, locals, visited, origin>>
  BY DEF Return, In
<1>2. /\ Len(calls) \in Nat \ {0} /\ Len(calls') = Len(calls) - 1
      /\ \A k \in 1 .. Len(calls) - 1 : calls'[k] = calls[k]
      /\ calls[Len(calls)] = Current /\ At = Len(body[Host]) + 1
  <2>1. At = Len(body[Host]) + 1
    BY <1>1, Innermost DEF Inside
  <2> QED
    BY <1>1, <2>1, Innermost, FrontProperties DEF IInv, Active
<1>3. Words' = Words
  BY <1>1 DEF Words
<1>4. /\ \A x : Untouched(x)' <=> Untouched(x)
      /\ \A x : SpreadTo(x, Len(body[x]) + 1)' <=> SpreadTo(x, Len(body[x]) + 1)
      /\ \A c : Stands(c, Original(c.w)', body'[c.w], origin'[c.w]) <=> Position(c)
  BY <1>1 DEF Untouched, SpreadTo, Original, Position
<1>5. SpreadTo(Host, Len(body[Host]) + 1)
  BY <1>1, <1>2, InnermostStands DEF Stands, SpreadTo, Host, At
<1>6. \A x \in (Words \ visited)' : Untouched(x)'
  BY <1>1, <1>3, <1>4 DEF Placed
<1>7. ASSUME NEW k \in 1 .. Len(calls') PROVE Position(calls[k])'
  <2>1. Position(calls[k]) /\ calls'[k] = calls[k]
    BY <1>2 DEF Placed
  <2> QED
    BY <1>4, <2>1 DEF Position
<1>8. ASSUME NEW x \in visited', \A k \in 1 .. Len(calls') : calls'[k].w # x
      PROVE  SpreadTo(x, Len(body[x]) + 1)'
  <2>1. CASE x = Host
    BY <1>4, <1>5, <2>1
  <2>2. CASE x # Host
    <3>1. \A k \in 1 .. Len(calls) : calls[k].w # x
      BY <1>2, <1>8, <2>2 DEF Host
    <3> QED
      BY <1>1, <1>4, <3>1 DEF Placed
  <2> QED
    BY <2>1, <2>2
<1> QED
  BY <1>6, <1>7, <1>8 DEF Placed

LEMMA StaysPlaced ==
  ASSUME Placed, UNCHANGED <<program, body, visited, calls, origin>>
  PROVE  Placed'
BY DEF Placed, Words, Untouched, SpreadTo, Original, Position

LEMMA NextPlaced == IInv /\ Placed /\ [Next]_vars => Placed'
<1> SUFFICES ASSUME IInv, Placed, [Next]_vars PROVE Placed'
  OBVIOUS
<1>1. CASE InlineForever \/ BadBranch \/ Ended \/ UNCHANGED vars
  <2>1. UNCHANGED <<program, body, visited, calls, origin>>
    BY <1>1 DEF InlineForever, BadBranch, Ended, Stop, vars
  <2> QED
    BY <2>1, StaysPlaced
<1> QED
  BY <1>1, VisitWordPlaced, PassOverPlaced, InlineCallPlaced, SkipCellPlaced, FixBranchPlaced,
     ReturnPlaced DEF Next

LEMMA PlacesHold == Spec => []Placed
BY InitPlaced, NextPlaced, Invariant, PTL DEF Spec

-----------------------------------------------------------------------------
(***************************************************************************)
(* Where branches lead in a finished word.                                 *)
(***************************************************************************)
LEMMA ImageIs ==
  ASSUME NEW w, NEW n \in Nat, NEW q \in 1 .. n + 1, NEW j \in Int,
         DOMAIN origin[w] = 1 .. n,
         \A i \in 1 .. n : origin[w][i] \in Int,
         \A i \in 1 .. n : i < q => origin[w][i] < j,
         \A i \in 1 .. n : i >= q => origin[w][i] >= j
  PROVE  Image(w, j) = q
<1> DEFINE S == {i \in DOMAIN origin[w] : origin[w][i] < j}
<1>1. S = 1 .. q - 1
  OBVIOUS
<1>2. Cardinality(1 .. q - 1) = q - 1
  BY FS_Interval
<1>3. Image(w, j) = Cardinality(S) + 1
  BY DEF Image
<1> HIDE DEF S
<1>4. Cardinality(S) = q - 1
  BY <1>1, <1>2
<1> QED
  BY <1>3, <1>4

LEMMA ImageTyped ==
  ASSUME NEW w, NEW n \in Nat, DOMAIN origin[w] = 1 .. n, NEW j
  PROVE  Image(w, j) \in Nat
<1>1. IsFiniteSet(1 .. n)
  BY FS_Interval
<1>2. {i \in DOMAIN origin[w] : origin[w][i] < j} \subseteq 1 .. n
  OBVIOUS
<1>3. Cardinality({i \in DOMAIN origin[w] : origin[w][i] < j}) \in Nat
  BY <1>1, <1>2, FS_Subset, FS_CardinalityType
<1> QED
  BY <1>3 DEF Image

\* The two cells of a doubled word's first call count for its growth.
LEMMA DoubledCopied ==
  ASSUME NEW w, NEW n \in Nat, DOMAIN origin[w] = 1 .. n,
         Original(w) \in Seq(Cell),
         Len(origin[w]) = n,
         \A i \in 1 .. n : origin[w][i] \in Int,
         \A i, k \in 1 .. n : i < k => origin[w][i] <= origin[w][k],
         Doubled(w, Original(w), origin[w])
  PROVE  CopiedItself(w)
<1>1. PICK j \in 1 .. Len(Original(w)) : Original(w)[j] = WordXt(w) /\ origin[w][1] = j
  BY DEF Doubled
<1>2. n >= 2 /\ origin[w][1] = origin[w][2]
  BY DEF Doubled
<1>3. j \in Int /\ j \in DOMAIN Original(w)
  BY <1>1, LenProperties
<1>4. Image(w, j) = 1
  <2>1. 1 \in 1 .. n + 1 /\ 1 \in 1 .. n
    BY <1>2
  <2>2. \A i \in 1 .. n : i >= 1 => origin[w][i] >= j
    BY <1>1, <2>1
  <2> QED
    BY <1>3, <2>1, <2>2, ImageIs
<1> DEFINE S == {i \in DOMAIN origin[w] : origin[w][i] < j + 1}
<1>5. Cardinality(S) \in Nat /\ Cardinality(S) >= 2
  <2>1. IsFiniteSet(1 .. n) /\ Cardinality(1 .. 2) = 2
    <3>1. IsFiniteSet(1 .. n)
      BY FS_Interval
    <3>2. PICK x \in Int, y \in Int : x = 1 /\ y = 2
      OBVIOUS
    <3>3. Cardinality(x .. y) = IF x > y THEN 0 ELSE y - x + 1
      BY FS_Interval
    <3> QED
      BY <3>1, <3>2, <3>3
  <2>2. S \subseteq 1 .. n
    OBVIOUS
  <2>3. 1 .. 2 \subseteq S
    BY <1>1, <1>2, <1>3
  <2> HIDE DEF S
  <2>4. IsFiniteSet(S)
    BY <2>1, <2>2, FS_Subset
  <2>5. Cardinality(1 .. 2) <= Cardinality(S)
    BY <2>3, <2>4, FS_Subset
  <2> QED
    BY <2>1, <2>4, <2>5, FS_CardinalityType
<1>6. Image(w, j + 1) = Cardinality(S) + 1
  BY DEF Image
<1> HIDE DEF S
<1>7. Growth(w, j, j + 1) # 0
  BY <1>3, <1>4, <1>5, <1>6 DEF Growth
<1> QED
  BY <1>1, <1>3, <1>7 DEF CopiedItself, Original

\* A word gone through to its end.
LEMMA GoneThrough ==
  ASSUME NEW w, Original(w) \in Seq(Cell), body[w] \in Seq(Cell), origin[w] \in Seq(Int),
         SpreadTo(w, Len(body[w]) + 1), NEW b \in Branches(Original(w))
  PROVE  IF b.to <= b.at
         THEN Growth(w, 1, b.to) = 0 /\ ~CopiedItself(w) => Lands(w, b)
         ELSE Growth(w, b.at, b.to) = 0 => Lands(w, b)
<1> DEFINE d == Original(w)
           c == body[w]
           o == origin[w]
           j == b.at
<1>1. PICK n : n = Len(c)
  OBVIOUS
<1>2. PICK s : s = Shift(d, c)
  OBVIOUS
<1>3. /\ n \in Nat /\ Len(d) \in Nat /\ s \in Int /\ n = Len(d) + s
  BY <1>1, <1>2, ShiftProperties
<1>4. Stems(c, o, n + 1, s) /\ Behind(w, d, c, o, n + 1, s)
  BY <1>1, <1>2 DEF SpreadTo, Spread
<1>5. /\ DOMAIN o = 1 .. n /\ Len(o) = n
      /\ \A i \in 1 .. n : o[i] \in Int /\ o[i] >= 1
      /\ \A i, k \in 1 .. n : i < k => o[i] <= o[k]
  <2>1. Len(o) = n /\ \A i \in 1 .. n : o[i] >= 1
    BY <1>1, <1>4 DEF Stems
  <2>2. \A i, k \in 1 .. n : i < k => o[i] <= o[k]
    BY <1>1, <1>4 DEF Stems
  <2> QED
    BY <2>1, <2>2, LenProperties, ElementOfSeq
<1>6. /\ j \in 1 .. Len(d) /\ b.to \in 1 .. Len(d) + 1 /\ Offsets(d, j)
      /\ b.to = j + 1 + d[j + 1].n
  <2>1. DOMAIN d = 1 .. Len(d)
    BY LenProperties
  <2>2. /\ b.at \in DOMAIN d /\ b.to \in 1 .. Len(d) + 1
        /\ IsBranch(d[b.at]) /\ b.at < Len(d) /\ IsNumber(d[b.at + 1])
        /\ b.to = b.at + 1 + d[b.at + 1].n
    BY DEF Branches
  <2> QED
    BY <2>1, <2>2 DEF Offsets
<1>7. PICK m : m = d[j + 1].n
  OBVIOUS
<1>8. m \in Int /\ b.to = j + 1 + m
  <2>1. d[j + 1] \in Cell /\ IsNumber(d[j + 1])
    <3>1. j + 1 \in 1 .. Len(d)
      BY <1>3, <1>6 DEF Offsets
    <3> QED
      BY <1>6, <3>1, ElementOfSeq DEF Offsets
  <2>2. d[j + 1].n \in Int
    BY <2>1 DEF Cell, IsNumber, NumCell, WordCell, PrimCell, LocalCell, UndefCell
  <2> QED
    BY <1>6, <1>7, <2>2
<1>9. PICK q \in 1 .. n : Kept(w, d, c, o, j, q)
  <2>1. j \in 1 .. (n + 1) - s - 1 /\ (n + 1) - 1 = n
    BY <1>3, <1>6
  <2> QED
    BY <1>4, <1>6, <2>1 DEF Behind, KeptBefore
<1>10. PICK e : e = c[q + 1].n
  OBVIOUS
<1>11. /\ o[q] = j /\ c[q] = d[j] /\ IsNumber(c[q + 1])
       /\ \A i \in 1 .. q - 1 : o[i] < j
       /\ m >= 0 => e = m
       /\ m < 0 => e = m - (q - j) \/ Doubled(w, d, o)
  BY <1>7, <1>9, <1>10 DEF Kept
<1> HIDE DEF j, o, c, d
<1>12. Image(w, j) = q
  <2>1. \A i \in 1 .. n : i < q => o[i] < j
    <3>1. \A i \in 1 .. n : i < q => i \in 1 .. q - 1
      BY <1>3
    <3> QED
      BY <1>11, <3>1
  <2>2. ASSUME NEW i \in 1 .. n, i >= q PROVE o[i] >= j
    <3>1. i = q \/ q < i
      BY <1>3, <2>2
    <3>2. o[q] <= o[i] /\ o[i] \in Int /\ o[q] \in Int
      BY <1>3, <1>5, <3>1
    <3> QED
      BY <1>11, <3>2
  <2>3. j \in Int /\ q \in 1 .. n + 1
    BY <1>3, <1>6
  <2> QED
    BY <1>3, <1>5, <2>1, <2>2, <2>3, ImageIs DEF o
<1>13. Image(w, 1) = 1
  <2>1. PICK x : x = 1
    OBVIOUS
  <2>2. \A i \in 1 .. n : i < x => o[i] < x
    BY <1>3, <2>1
  <2>3. \A i \in 1 .. n : i >= x => o[i] >= x
    BY <1>5, <2>1
  <2>4. x \in Int /\ x \in 1 .. n + 1
    BY <1>3, <2>1
  <2>5. Image(w, x) = x
    BY <1>3, <1>5, <2>2, <2>3, <2>4, ImageIs DEF o
  <2> QED
    BY <2>1, <2>5
<1>14. Image(w, b.to) \in Nat
  BY <1>3, <1>5, ImageTyped DEF o
<1>15. Lands(w, b) <=> q + 1 + e = Image(w, b.to)
  BY <1>10, <1>11, <1>12 DEF Lands, c, d, j, Original
<1>16. ASSUME b.to <= b.at, Growth(w, 1, b.to) = 0, ~CopiedItself(w) PROVE Lands(w, b)
  <2>1. ~Doubled(w, d, o)
    BY <1>3, <1>5, <1>16, DoubledCopied DEF d, o
  <2>2. m < 0
    BY <1>3, <1>6, <1>8, <1>16 DEF j
  <2>3. Image(w, b.to) = b.to
    BY <1>3, <1>6, <1>13, <1>14, <1>16 DEF Growth
  <2>4. e = m - (q - j)
    BY <1>11, <2>1, <2>2
  <2> QED
    BY <1>3, <1>6, <1>8, <1>15, <2>3, <2>4
<1>17. ASSUME ~(b.to <= b.at), Growth(w, b.at, b.to) = 0 PROVE Lands(w, b)
  <2>1. m >= 0
    BY <1>3, <1>6, <1>8, <1>17 DEF j
  <2>2. Image(w, b.to) - q - (b.to - j) = 0
    BY <1>12, <1>17 DEF Growth, j
  <2>3. e = m
    BY <1>11, <2>1
  <2>4. PICK y \in Nat : y = Image(w, b.to)
    BY <1>14
  <2>5. j \in Int /\ q \in Int
    BY <1>3, <1>6
  <2>6. y - q - ((j + 1 + m) - j) = 0
    BY <1>8, <2>2, <2>4
  <2>7. y = q + 1 + m
    BY <1>8, <2>5, <2>6
  <2> QED
    BY <1>15, <2>3, <2>4, <2>7
<1> QED
  BY <1>16, <1>17

\* "fix branch jumps", as far as it is true: whatever is inlined where, a branch
\* of a finished word leads where it led if nothing it jumps over has grown or,
\* jumping back, if nothing before its target has and the word was not copied
\* into itself.
THEOREM BranchesAlwaysKept == Spec => []BranchesKept
<1>1. IInv /\ Placed => BranchesKept
  <2> SUFFICES ASSUME IInv, Placed, NEW w \in Words, Finished(w), outcome = "done",
                      NEW b \in Branches(program[w].body)
               PROVE  IF b.to <= b.at
                      THEN Growth(w, 1, b.to) = 0 /\ ~CopiedItself(w) => Lands(w, b)
                      ELSE Growth(w, b.at, b.to) = 0 => Lands(w, b)
    BY DEF BranchesKept
  <2>1. DOMAIN calls = 1 .. Len(calls)
    BY LenProperties DEF IInv, Active
  <2>2. SpreadTo(w, Len(body[w]) + 1)
    BY <2>1 DEF Finished, Placed
  <2>3. Original(w) \in Seq(Cell) /\ body[w] \in Seq(Cell) /\ origin[w] \in Seq(Int)
    BY ProgramTyped DEF Original, Words, IInv, Bodies
  <2> QED
    BY <2>2, <2>3, GoneThrough DEF Original
<1> QED
  BY <1>1, Invariant, PlacesHold, PTL

-----------------------------------------------------------------------------
(***************************************************************************)
(* What is left to do. bs gives the definitions, seen the words that have  *)
(* been visited.                                                           *)
(***************************************************************************)
Full(bs, w, i) == Len(bs[w]) + Len(bs[bs[w][i].w]) >= MaxSize

Filled(bs) == \A w \in DOMAIN bs : Len(bs[w]) >= 1

\* What a walk over w that stands at a has seen to: calls that stay do not fit,
\* and branches have offsets.
Walked(bs, seen, w, phase, a) ==
  \A i \in 1 .. Len(bs[w]) :
    /\ bs[w][i].kind = "word" =>
         /\ phase = "inline" \/ i < a => bs[w][i].w \in seen
         /\ phase = "inline" /\ i < a /\ Filled(bs) => Full(bs, w, i)
    /\ IsBranch(bs[w][i]) /\ phase = "inline" /\ i < a =>
         i < Len(bs[w]) /\ IsNumber(bs[w][i + 1])

WalkedThrough(bs, seen, w) == Walked(bs, seen, w, "inline", Len(bs[w]) + 1)

\* Definitions call older words only.
Descends(bs, W) ==
  \A w \in W : \A i \in 1 .. Len(bs[w]) : bs[w][i].kind = "word" =>
    bs[w][i].w \in W /\ bs[w][i].w < w

Straight == \A w \in Words : ~Recursive(w)
NoneEmpty == \A w \in Words : program[w].body # <<>>

\* A word that an active call may inline is older than all of them: it is finished.
Left ==
  Straight =>
    /\ Descends(body, Words)
    /\ NoneEmpty => Filled(body)
    /\ \A j, k \in 1 .. Len(calls) : j < k => calls[k].w < calls[j].w
    /\ \A k \in 1 .. Len(calls) :
         Walked(body, visited, calls[k].w, calls[k].phase, calls[k].at)
    /\ \A w \in visited : (\A k \in 1 .. Len(calls) : calls[k].w # w) =>
         WalkedThrough(body, visited, w)

\* Others may grow and be seen.
LEMMA WalkedStays ==
  ASSUME NEW W, NEW bs \in [W -> Seq(Cell)], NEW cs \in [W -> Seq(Cell)], NEW w \in W,
         Len(cs[w]) = Len(bs[w]),
         \A i \in 1 .. Len(bs[w]) :
           cs[w][i] = bs[w][i] \/ (IsNumber(cs[w][i]) /\ IsNumber(bs[w][i])),
         Filled(cs) => Filled(bs) /\ \A v \in W : Len(bs[v]) <= Len(cs[v]),
         \A i \in 1 .. Len(bs[w]) : bs[w][i].kind = "word" => bs[w][i].w \in W,
         NEW seen, NEW more, seen \subseteq more, NEW phase, NEW a,
         Walked(bs, seen, w, phase, a)
  PROVE  Walked(cs, more, w, phase, a)
<1>1. \A v \in W : Len(bs[v]) \in Nat /\ Len(cs[v]) \in Nat
  <2>1. \A v \in W : bs[v] \in Seq(Cell) /\ cs[v] \in Seq(Cell)
    OBVIOUS
  <2> QED
    BY <2>1, LenProperties
<1>2. ASSUME NEW i \in 1 .. Len(cs[w]), cs[w][i].kind = "word"
      PROVE  /\ phase = "inline" \/ i < a => cs[w][i].w \in more
             /\ phase = "inline" /\ i < a /\ Filled(cs) => Full(cs, w, i)
  <2>1. i \in 1 .. Len(bs[w]) /\ cs[w][i] = bs[w][i]
    BY <1>2, NotBoth
  <2> DEFINE v == bs[w][i].w
  <2>2. v \in W
    BY <1>2, <2>1
  <2>3. /\ phase = "inline" \/ i < a => v \in seen
        /\ phase = "inline" /\ i < a /\ Filled(bs) => Full(bs, w, i)
    BY <1>2, <2>1 DEF Walked
  <2>4. Full(bs, w, i) /\ Filled(cs) => Full(cs, w, i)
    <3>1. Full(bs, w, i) <=> Len(bs[w]) + Len(bs[v]) >= MaxSize
      BY DEF Full
    <3>2. Full(cs, w, i) <=> Len(cs[w]) + Len(cs[v]) >= MaxSize
      BY <2>1 DEF Full
    <3> HIDE DEF v
    <3>3. /\ Len(bs[v]) \in Nat /\ Len(cs[v]) \in Nat /\ Len(bs[w]) \in Nat
          /\ Filled(cs) => Len(bs[v]) <= Len(cs[v])
      BY <1>1, <2>2
    <3> QED
      BY <3>1, <3>2, <3>3, SizeAssumption
  <2> QED
    BY <2>1, <2>3, <2>4
<1>3. ASSUME NEW i \in 1 .. Len(cs[w]), IsBranch(cs[w][i]), phase = "inline", i < a
      PROVE  i < Len(cs[w]) /\ IsNumber(cs[w][i + 1])
  <2>1. i \in 1 .. Len(bs[w]) /\ cs[w][i] = bs[w][i]
    BY <1>3, NotBoth
  <2>2. i < Len(bs[w]) /\ IsNumber(bs[w][i + 1])
    BY <1>3, <2>1 DEF Walked
  <2>3. i + 1 \in 1 .. Len(bs[w])
    BY <1>1, <2>1, <2>2
  <2> QED
    BY <2>2, <2>3
<1> QED
  BY <1>2, <1>3 DEF Walked

\* The walk goes on by one cell.
LEMMA WalkedOn ==
  ASSUME NEW bs, NEW seen, NEW w, NEW phase, NEW a \in Int, Walked(bs, seen, w, phase, a),
         bs[w][a].kind = "word" => /\ bs[w][a].w \in seen
                                   /\ phase = "inline" /\ Filled(bs) => Full(bs, w, a),
         IsBranch(bs[w][a]) /\ phase = "inline" => a < Len(bs[w]) /\ IsNumber(bs[w][a + 1])
  PROVE  Walked(bs, seen, w, phase, a + 1)
<1>1. ASSUME NEW i \in 1 .. Len(bs[w])
      PROVE  /\ bs[w][i].kind = "word" =>
                  /\ phase = "inline" \/ i < a + 1 => bs[w][i].w \in seen
                  /\ phase = "inline" /\ i < a + 1 /\ Filled(bs) => Full(bs, w, i)
             /\ IsBranch(bs[w][i]) /\ phase = "inline" /\ i < a + 1 =>
                  i < Len(bs[w]) /\ IsNumber(bs[w][i + 1])
  <2>1. CASE i = a
    BY <1>1, <2>1
  <2>2. CASE i # a
    <3>1. i < a + 1 => i < a
      BY <2>2
    <3> QED
      BY <1>1, <3>1 DEF Walked
  <2> QED
    BY <2>1, <2>2
<1> QED
  BY <1>1 DEF Walked

\* The first pass has seen every call by its end.
LEMMA WalkedAll ==
  ASSUME NEW bs, NEW seen, NEW w, Len(bs[w]) \in Nat, NEW phase,
         Walked(bs, seen, w, phase, Len(bs[w]) + 1)
  PROVE  Walked(bs, seen, w, "inline", 1)
BY DEF Walked

LEMMA NoRoomLater ==
  ASSUME NEW m \in Nat, NEW k \in Nat, NEW x \in Nat, NEW y \in Nat,
         m + x >= MaxSize, k >= m, y >= x
  PROVE  k + y >= MaxSize
BY SizeAssumption

\* A call at a replaced by a definition sub that was walked through.
LEMMA WalkedSpliced ==
  ASSUME NEW W \in SUBSET Nat, NEW bs \in [W -> Seq(Cell)], NEW cs \in [W -> Seq(Cell)],
         NEW w \in W, NEW v \in W, v < w, NEW a \in 1 .. Len(bs[w]), bs[w][a].kind = "word",
         NEW n, n = Len(bs[v]),
         Len(cs[w]) = Len(bs[w]) + n - 1,
         \A i \in 1 .. Len(cs[w]) : i < a => cs[w][i] = bs[w][i],
         \A i \in 1 .. Len(cs[w]) : a <= i /\ i < a + n => cs[w][i] = bs[v][i - a + 1],
         \A i \in 1 .. Len(cs[w]) : i >= a + n => cs[w][i] = bs[w][i - n + 1],
         \A u \in W : u # w => cs[u] = bs[u],
         Descends(bs, W), NEW seen,
         Walked(bs, seen, w, "inline", a), WalkedThrough(bs, seen, v)
  PROVE  /\ Filled(cs) => Filled(bs)
         /\ Filled(bs) => Len(cs[w]) >= Len(bs[w]) /\ Filled(cs)
         /\ Walked(cs, seen, w, "inline", a + n)
         /\ Descends(cs, W)
<1>1. \A u \in W : Len(bs[u]) \in Nat /\ Len(cs[u]) \in Nat
  <2>1. \A u \in W : bs[u] \in Seq(Cell) /\ cs[u] \in Seq(Cell)
    OBVIOUS
  <2> QED
    BY <2>1, LenProperties
<1>2. PICK m, k : m = Len(bs[w]) /\ k = Len(cs[w])
  OBVIOUS
<1>3. /\ m \in Nat /\ k \in Nat /\ n \in Nat /\ k = m + n - 1 /\ a \in 1 .. m
      /\ w \in Nat /\ v \in Nat
  BY <1>1, <1>2
<1>11. DOMAIN bs = W /\ DOMAIN cs = W
  OBVIOUS
<1>12. Filled(cs) => Filled(bs)
  <2>1. m >= 1
    BY <1>3
  <2> QED
    BY <1>2, <1>11, <2>1 DEF Filled
<1>13. ASSUME Filled(bs)
       PROVE  n >= 1 /\ k >= m /\ k >= n /\ \A u \in W : Len(cs[u]) >= Len(bs[u])
  <2>1. n >= 1
    BY <1>11, <1>13 DEF Filled
  <2>2. k >= m /\ k >= n
    BY <1>3, <2>1
  <2>3. ASSUME NEW u \in W PROVE Len(cs[u]) >= Len(bs[u])
    <3>1. CASE u = w
      BY <1>2, <2>2, <3>1
    <3>2. CASE u # w
      BY <1>1, <3>2
    <3> QED
      BY <3>1, <3>2
  <2> QED
    BY <2>1, <2>2, <2>3
<1>4. Filled(bs) => Filled(cs)
  <2> SUFFICES ASSUME Filled(bs), NEW u \in W PROVE Len(cs[u]) >= 1
    BY <1>11 DEF Filled
  <2>1. Len(bs[u]) >= 1
    BY <1>11 DEF Filled
  <2>2. Len(cs[u]) >= Len(bs[u])
    BY <1>13
  <2> QED
    BY <1>1, <2>1, <2>2
<1>5. ASSUME NEW i \in 1 .. k, cs[w][i].kind = "word"
      PROVE  /\ cs[w][i].w \in W /\ cs[w][i].w < w /\ cs[w][i].w \in seen
             /\ i < a + n /\ Filled(cs) => Full(cs, w, i)
  <2> DEFINE u == cs[w][i].w
  <2>1. CASE i < a
    <3>1. i \in 1 .. m /\ cs[w][i] = bs[w][i]
      BY <1>2, <1>3, <2>1
    <3>2. u \in W /\ u < w
      BY <1>2, <1>5, <3>1 DEF Descends
    <3>3. u \in seen /\ (Filled(bs) => Full(bs, w, i))
      BY <1>2, <1>5, <2>1, <3>1 DEF Walked
    <3>4. Filled(bs) => m + Len(bs[u]) >= MaxSize
      BY <1>2, <3>1, <3>3 DEF Full
    <3> HIDE DEF u
    <3>5. ASSUME Filled(cs) PROVE k + Len(cs[u]) >= MaxSize
      <4>1. m + Len(bs[u]) >= MaxSize
        BY <1>12, <3>4, <3>5
      <4>2. k >= m /\ Len(cs[u]) >= Len(bs[u])
        BY <1>12, <1>13, <3>2, <3>5
      <4>3. Len(cs[u]) \in Nat /\ Len(bs[u]) \in Nat
        BY <1>1, <3>2
      <4>4. PICK x, y \in Nat : x = Len(bs[u]) /\ y = Len(cs[u])
        BY <4>3
      <4>5. m + x >= MaxSize /\ k >= m /\ y >= x /\ k \in Nat /\ m \in Nat
        BY <1>3, <4>1, <4>2, <4>4
      <4>6. k + y >= MaxSize
        BY <4>5, NoRoomLater, Zenon
      <4> QED
        BY <4>4, <4>6
    <3> QED
      BY <1>2, <3>2, <3>3, <3>5 DEF Full, u
  <2>2. CASE a <= i /\ i < a + n
    <3>1. PICK j : j = i - a + 1
      OBVIOUS
    <3>2. j \in 1 .. n /\ cs[w][i] = bs[v][j] /\ j < n + 1
      BY <1>2, <1>3, <2>2, <3>1
    <3>3. u \in W /\ u < v
      BY <1>5, <3>2 DEF Descends
    <3>4. u \in seen /\ (Filled(bs) => Full(bs, v, j))
      BY <1>5, <3>2 DEF WalkedThrough, Walked
    <3>5. Filled(bs) => n + Len(bs[u]) >= MaxSize
      BY <3>2, <3>4 DEF Full
    <3> HIDE DEF u
    <3>6. u < w
      <4>1. u \in Nat
        BY <3>3
      <4> QED
        BY <1>3, <3>3, <4>1
    <3>7. ASSUME Filled(cs) PROVE k + Len(cs[u]) >= MaxSize
      <4>1. n + Len(bs[u]) >= MaxSize
        BY <1>12, <3>5, <3>7
      <4>2. k >= n /\ Len(cs[u]) >= Len(bs[u])
        BY <1>12, <1>13, <3>3, <3>7
      <4>3. Len(cs[u]) \in Nat /\ Len(bs[u]) \in Nat
        BY <1>1, <3>3
      <4>4. PICK x, y \in Nat : x = Len(bs[u]) /\ y = Len(cs[u])
        BY <4>3
      <4>5. n + x >= MaxSize /\ k >= n /\ y >= x /\ k \in Nat /\ n \in Nat
        BY <1>3, <4>1, <4>2, <4>4
      <4>6. k + y >= MaxSize
        BY <4>5, NoRoomLater, Zenon
      <4> QED
        BY <4>4, <4>6
    <3> QED
      BY <1>2, <3>3, <3>4, <3>6, <3>7 DEF Full, u
  <2>3. CASE a + n <= i
    <3>1. PICK j : j = i - n + 1
      OBVIOUS
    <3>2. j \in 1 .. m /\ cs[w][i] = bs[w][j] /\ ~(i < a + n)
      BY <1>2, <1>3, <2>3, <3>1
    <3>3. u \in W /\ u < w
      BY <1>2, <1>5, <3>2 DEF Descends
    <3>4. u \in seen
      BY <1>2, <1>5, <3>2 DEF Walked
    <3> QED
      BY <3>2, <3>3, <3>4
  <2> QED
    BY <1>3, <2>1, <2>2, <2>3
<1>10. ASSUME NEW i \in 1 .. k, IsBranch(cs[w][i]), i < a + n
       PROVE  i < k /\ IsNumber(cs[w][i + 1])
  <2>1. CASE i < a
    <3>1. i \in 1 .. m /\ cs[w][i] = bs[w][i]
      BY <1>2, <1>3, <2>1
    <3>2. IsNumber(bs[w][i + 1])
      BY <1>2, <1>10, <2>1, <3>1 DEF Walked
    <3>3. i + 1 # a
      BY <3>2, NotBoth
    <3>4. i + 1 < a /\ i + 1 \in 1 .. k /\ i < k
      BY <1>3, <2>1, <3>1, <3>3
    <3> QED
      BY <1>2, <3>2, <3>4
  <2>2. CASE a <= i
    <3>1. PICK j : j = i - a + 1
      OBVIOUS
    <3>2. j \in 1 .. n /\ cs[w][i] = bs[v][j] /\ j < n + 1
      BY <1>2, <1>3, <1>10, <2>2, <3>1
    <3>3. j < n /\ IsNumber(bs[v][j + 1])
      BY <1>10, <3>2 DEF WalkedThrough, Walked
    <3>6. j < n
      BY <3>3
    <3>4. a <= i + 1 /\ i + 1 < a + n /\ (i + 1) - a + 1 = j + 1 /\ i + 1 \in 1 .. k /\ i < k
      <4>1. j \in 1 .. n
        BY <3>2
      <4> QED
        BY <1>3, <2>2, <3>1, <3>6, <4>1
    <3>5. cs[w][i + 1] = bs[v][(i + 1) - a + 1]
      BY <1>2, <3>4
    <3> QED
      BY <3>3, <3>4, <3>5
  <2> QED
    BY <1>3, <2>1, <2>2
<1>6. Walked(cs, seen, w, "inline", a + n)
  BY <1>2, <1>5, <1>10 DEF Walked
<1>7. ASSUME NEW x \in W, NEW i \in 1 .. Len(cs[x]), cs[x][i].kind = "word"
      PROVE  cs[x][i].w \in W /\ cs[x][i].w < x
  <2>1. CASE x = w
    BY <1>2, <1>5, <1>7, <2>1
  <2>2. CASE x # w
    BY <1>7, <2>2 DEF Descends
  <2> QED
    BY <2>1, <2>2
<1>8. Descends(cs, W)
  BY <1>7 DEF Descends
<1> QED
  BY <1>2, <1>4, <1>6, <1>8, <1>12, <1>13

\* The innermost call goes on, and only its own definition may change.
LEMMA LeftKept ==
  ASSUME IInv, Left, calls # <<>>, NEW f, Advance(f), f.w = Host,
         UNCHANGED <<program, visited>>, body' \in [Words -> Seq(Cell)],
         \A w \in Words : w # Host => body'[w] = body[w],
         Straight => /\ Filled(body') => Filled(body)
                     /\ Filled(body) => Len(body[Host]) <= Len(body'[Host]) /\ Filled(body')
                     /\ Descends(body', Words)
                     /\ Walked(body', visited, Host, f.phase, f.at)
  PROVE  Left'
<1>1. /\ calls \in Seq(Call) /\ Len(calls) \in 1 .. Len(calls)
      /\ calls[Len(calls)].w = Host /\ Host \in visited
  BY Innermost DEF IInv, Active, Host
<1>2. /\ Len(calls') = Len(calls)
      /\ \A k \in 1 .. Len(calls) : calls'[k] = IF k = Len(calls) THEN f ELSE calls[k]
  BY <1>1, LenProperties DEF Advance
<1>3. Words' = Words /\ visited' = visited /\ visited \subseteq Words /\ (Straight' <=> Straight) /\ (NoneEmpty' <=> NoneEmpty)
  BY DEF Words, Straight, NoneEmpty, Recursive, IInv, Active
<1> SUFFICES ASSUME Straight
             PROVE  /\ Descends(body', Words)
                    /\ NoneEmpty => Filled(body')
                    /\ \A j, k \in 1 .. Len(calls') : j < k => calls'[k].w < calls'[j].w
                    /\ \A k \in 1 .. Len(calls') :
                         Walked(body', visited, calls'[k].w, calls'[k].phase, calls'[k].at)
                    /\ \A w \in visited : (\A k \in 1 .. Len(calls') : calls'[k].w # w) =>
                         WalkedThrough(body', visited, w)
  BY <1>3 DEF Left
<1>4. /\ Descends(body, Words)
      /\ NoneEmpty => Filled(body)
      /\ \A j, k \in 1 .. Len(calls) : j < k => calls[k].w < calls[j].w
      /\ \A k \in 1 .. Len(calls) : Walked(body, visited, calls[k].w, calls[k].phase, calls[k].at)
      /\ \A w \in visited : (\A k \in 1 .. Len(calls) : calls[k].w # w) =>
           WalkedThrough(body, visited, w)
  BY DEF Left
<1>5. body \in [Words -> Seq(Cell)] /\ Host \in Words
  BY <1>1, <1>3 DEF IInv, Bodies
<1>6. Filled(body') => Filled(body) /\ \A w \in Words : Len(body[w]) <= Len(body'[w])
  <2>1. \A w \in Words : Len(body[w]) \in Nat
    BY <1>5, LenProperties
  <2> QED
    BY <2>1
<1>7. ASSUME NEW w \in Words, w # Host, NEW phase, NEW a, Walked(body, visited, w, phase, a)
      PROVE  Walked(body', visited, w, phase, a)
  <2>1. \A i \in 1 .. Len(body[w]) : body[w][i].kind = "word" => body[w][i].w \in Words
    BY <1>4, <1>7 DEF Descends
  <2>2. body'[w] = body[w]
    BY <1>7
  <2> QED
    BY <1>5, <1>6, <1>7, <2>1, <2>2, WalkedStays
<1>8. \A j, k \in 1 .. Len(calls') : j < k => calls'[k].w < calls'[j].w
  <2>1. \A k \in 1 .. Len(calls) : calls'[k].w = calls[k].w
    BY <1>1, <1>2
  <2> QED
    BY <1>2, <1>4, <2>1
<1>9. ASSUME NEW k \in 1 .. Len(calls')
      PROVE  Walked(body', visited, calls'[k].w, calls'[k].phase, calls'[k].at)
  <2>1. CASE k = Len(calls)
    BY <1>1, <1>2, <2>1
  <2>2. CASE k # Len(calls)
    <3>1. k \in 1 .. Len(calls) /\ calls'[k] = calls[k] /\ calls[k].w # Host /\ calls[k].w \in Words
      BY <1>1, <1>2, <1>3, <2>2 DEF IInv, Active
    <3> QED
      BY <1>4, <1>7, <3>1
  <2> QED
    BY <2>1, <2>2
<1>10. ASSUME NEW w \in visited, \A k \in 1 .. Len(calls') : calls'[k].w # w
       PROVE  WalkedThrough(body', visited, w)
  <2>1. w \in Words /\ w # Host
    BY <1>1, <1>2, <1>3, <1>10
  <2>2. \A k \in 1 .. Len(calls) : calls[k].w # w
    BY <1>1, <1>2, <1>10, <2>1
  <2>3. Walked(body, visited, w, "inline", Len(body[w]) + 1)
    BY <1>4, <2>2 DEF WalkedThrough
  <2>4. body'[w] = body[w]
    BY <2>1
  <2> QED
    BY <1>7, <2>1, <2>3, <2>4 DEF WalkedThrough
<1>11. NoneEmpty => Filled(body')
  BY <1>4
<1> QED
  BY <1>8, <1>9, <1>10, <1>11

\* The innermost call and its definition.
LEMMA InnermostWalked ==
  ASSUME IInv, Left, Straight, calls # <<>>
  PROVE  /\ Descends(body, Words)
         /\ Walked(body, visited, Host, Current.phase, At)
         /\ Inside /\ This.kind = "word" => This.w \in Words /\ This.w < Host
<1>1. Len(calls) \in 1 .. Len(calls) /\ Current = calls[Len(calls)] /\ Host \in Words
  BY Innermost
<1>2. /\ Descends(body, Words)
      /\ \A k \in 1 .. Len(calls) : Walked(body, visited, calls[k].w, calls[k].phase, calls[k].at)
  BY DEF Left
<1>3. Inside => At \in 1 .. Len(body[Host])
  BY Innermost
<1> QED
  BY <1>1, <1>2, <1>3 DEF Descends, Host, At, This

LEMMA PassOverLeaves == IInv /\ Left /\ (PassOver \/ StartInlining \/ SkipCell) => Left'
<1> SUFFICES ASSUME IInv, Left, PassOver \/ StartInlining \/ SkipCell PROVE Left'
  OBVIOUS
<1>1. calls # <<>> /\ UNCHANGED <<program, body, locals, visited, outcome, origin>>
  BY DEF PassOver, StartInlining, SkipCell, In
<1>2. /\ Current \in Call /\ At \in Nat \ {0} /\ body \in [Words -> Seq(Cell)] /\ Host \in Words
      /\ Len(body[Host]) \in Nat /\ At <= Len(body[Host]) + 1
  BY <1>1, Innermost DEF IInv, Bodies
<1>3. Straight => Descends(body, Words) /\ Walked(body, visited, Host, Current.phase, At)
  BY <1>1, InnermostWalked
<1>4. CASE PassOver \/ SkipCell
  <2> DEFINE f == [Current EXCEPT !.at = At + 1]
  <2>1. /\ Advance(f) /\ f.w = Host /\ f.phase = Current.phase /\ f.at = At + 1
        /\ Current.phase = IF PassOver THEN "visit" ELSE "inline"
    BY <1>2, <1>4 DEF PassOver, SkipCell, Call, Host, In
  <2>2. Inside
    BY <1>4 DEF PassOver, SkipCell
  <2> HIDE DEF f
  <2>3. ASSUME Straight PROVE Walked(body, visited, Host, f.phase, f.at)
    <3>1. /\ This.kind = "word" =>
               This.w \in visited /\ (Current.phase = "inline" /\ Filled(body) => Full(body, Host, At))
          /\ ~(IsBranch(This) /\ Current.phase = "inline")
      <4>1. CASE PassOver
        BY <2>1, <4>1 DEF PassOver
      <4>2. CASE SkipCell /\ ~PassOver
        <5> ~IsBranch(This)
          BY <4>2 DEF SkipCell
        <5>1. SUFFICES ASSUME This.kind = "word" PROVE This.w \in visited /\ Full(body, Host, At)
          OBVIOUS
        <5>2. ~Fits /\ Current.phase = "inline" /\ At \in 1 .. Len(body[Host])
          BY <1>1, <2>1, <2>2, <4>2, <5>1, Innermost DEF SkipCell, Inlinable
        <5>3. This.w \in visited
          BY <1>3, <2>3, <5>1, <5>2 DEF Walked, This
        <5>4. This.w \in Words
          BY <1>1, <2>2, <2>3, <5>1, InnermostWalked
        <5>5. Len(body[This.w]) \in Nat
          BY <1>2, <5>4, LenProperties
        <5>6. Len(body[Host]) + Len(body[This.w]) >= MaxSize
          BY <1>2, <5>2, <5>5, SizeAssumption DEF Fits
        <5> QED
          BY <5>3, <5>6 DEF Full, This
      <4> QED
        BY <1>4, <4>1, <4>2
    <3> QED
      BY <1>2, <1>3, <2>1, <2>3, <3>1, WalkedOn DEF This
  <2>4. Straight => Len(body[Host]) <= Len(body'[Host]) /\ Walked(body', visited, Host, f.phase, f.at)
    BY <1>1, <1>2, <2>3
  <2> QED
    BY <1>1, <1>2, <1>3, <2>1, <2>4, LeftKept
<1>5. CASE StartInlining
  <2> DEFINE f == [Enter(Host) EXCEPT !.phase = "inline"]
  <2>1. Advance(f) /\ f.w = Host /\ f.phase = "inline" /\ f.at = 1 /\ ~Inside
    BY <1>5 DEF StartInlining, Enter
  <2> HIDE DEF f
  <2>2. At = Len(body[Host]) + 1
    BY <1>2, <2>1 DEF Inside
  <2>3. Straight => Len(body[Host]) <= Len(body'[Host]) /\ Walked(body', visited, Host, f.phase, f.at)
    <3>1. Straight => Walked(body, visited, Host, "inline", 1)
      <4>1. Straight => Walked(body, visited, Host, Current.phase, Len(body[Host]) + 1)
        BY <1>3, <2>2
      <4> QED
        BY <1>2, <4>1, WalkedAll
    <3> QED
      BY <1>1, <1>2, <2>1, <3>1
  <2> QED
    BY <1>1, <1>2, <1>3, <2>1, <2>3, LeftKept
<1> QED
  BY <1>4, <1>5

LEMMA FixBranchLeaves == IInv /\ Left /\ FixBranch => Left'
<1> SUFFICES ASSUME IInv, Left, FixBranch PROVE Left'
  OBVIOUS
<1> DEFINE f == [Current EXCEPT !.at = At + 1]
           b == body[Host]
           r == body'[Host]
           grown == Current.offset
<1>1. /\ calls # <<>> /\ Current.phase = "inline" /\ Inside /\ IsBranch(This)
      /\ At < Len(b) /\ IsNumber(b[At + 1]) /\ Advance(f)
      /\ body' = IF b[At + 1].n < 0 THEN [body EXCEPT ![Host][At + 1].n = @ - grown] ELSE body
      /\ UNCHANGED <<program, visited, origin>>
  BY DEF FixBranch, In
<1>2. /\ b \in Seq(Cell) /\ Len(b) \in Nat /\ Current \in Call /\ At \in 1 .. Len(b)
      /\ Host \in Words /\ body \in [Words -> Seq(Cell)]
  BY <1>1, Innermost DEF IInv, Bodies
<1>3. /\ f.w = Host /\ f.phase = Current.phase /\ f.at = At + 1
  BY <1>1, <1>2 DEF Call, Host
<1>4. body' \in [Words -> Seq(Cell)]
  <2>1. IInv'
    BY FixBranchKeeps
  <2> QED
    BY <1>1, <2>1 DEF IInv, Bodies, Words
<1>5. \A w \in Words : w # Host => body'[w] = body[w]
  BY <1>1, <1>2
<1>6. /\ Len(r) = Len(b)
      /\ \A i \in 1 .. Len(b) : r[i] = b[i] \/ (IsNumber(r[i]) /\ IsNumber(b[i]))
  <2>1. CASE ~(b[At + 1].n < 0)
    BY <1>1, <2>1
  <2>2. CASE b[At + 1].n < 0
    <3> DEFINE cell == [b[At + 1] EXCEPT !.n = b[At + 1].n - grown]
    <3>1. r = [b EXCEPT ![At + 1] = cell]
      BY <1>1, <1>2, <2>2
    <3>2. b[At + 1] \in Cell /\ At + 1 \in 1 .. Len(b)
      BY <1>1, <1>2, ElementOfSeq
    <3>3. IsNumber(cell) /\ IsNumber(b[At + 1])
      BY <1>1, <3>2 DEF Cell, IsNumber, NumCell, WordCell, PrimCell, LocalCell, UndefCell
    <3> HIDE DEF cell, r, b
    <3>4. Len(r) = Len(b) /\ \A i \in 1 .. Len(b) : r[i] = IF i = At + 1 THEN cell ELSE b[i]
      BY <1>2, <3>1, LenProperties
    <3> QED
      BY <3>3, <3>4
  <2> QED
    BY <2>1, <2>2
<1>9. Filled(body') <=> Filled(body)
  <2>1. DOMAIN body = Words /\ DOMAIN body' = Words
    BY <1>2, <1>4
  <2>2. \A w \in Words : Len(body'[w]) = Len(body[w])
    BY <1>5, <1>6
  <2> QED
    BY <2>1, <2>2 DEF Filled
<1>7. ASSUME Straight
      PROVE  Descends(body', Words) /\ Walked(body', visited, Host, f.phase, f.at)
  <2>1. Descends(body, Words) /\ Walked(body, visited, Host, Current.phase, At)
    BY <1>1, <1>7, InnermostWalked
  <2>2. Descends(body', Words)
    BY <1>5, <1>6, <2>1, NotBoth DEF Descends
  <2>3. Walked(body, visited, Host, Current.phase, At + 1)
    <3>1. This.kind # "word"
      BY <1>1 DEF IsBranch
    <3> QED
      BY <1>1, <1>2, <2>1, <3>1, WalkedOn DEF This
  <2>4. \A w \in Words : Len(body[w]) <= Len(body'[w])
    <3>1. \A w \in Words : Len(body[w]) \in Nat
      BY <1>2, LenProperties
    <3> QED
      BY <1>5, <1>6, <3>1
  <2>5. \A i \in 1 .. Len(b) : b[i].kind = "word" => b[i].w \in Words
    BY <1>2, <2>1 DEF Descends
  <2>6. Walked(body', visited, Host, Current.phase, At + 1)
    <3> HIDE DEF f, grown
    <3>1. visited \subseteq visited
      OBVIOUS
    <3> QED
      BY <1>2, <1>4, <1>6, <1>9, <2>3, <2>4, <2>5, <3>1, WalkedStays
  <2> HIDE DEF f, grown
  <2> QED
    BY <1>3, <2>2, <2>6
<1>8. Len(b) <= Len(r)
  BY <1>2, <1>6
<1> HIDE DEF f, grown
<1> QED
  BY <1>1, <1>3, <1>4, <1>5, <1>7, <1>8, <1>9, LeftKept

\* What a call is replaced by has been gone through.
LEMMA CalleeFinished ==
  ASSUME IInv, Left, Straight, calls # <<>>, Current.phase = "inline", Inside,
         This.kind = "word"
  PROVE  WalkedThrough(body, visited, This.w)
<1>1. /\ Descends(body, Words) /\ Walked(body, visited, Host, "inline", At)
      /\ This.w < Host /\ This.w \in Words
  BY InnermostWalked
<1>2. At \in 1 .. Len(body[Host]) /\ Host \in Words
  BY Innermost
<1>3. This.w \in visited
  BY <1>1, <1>2 DEF Walked, This
<1>4. Words \subseteq Nat
  BY ProgramTyped DEF Words, IInv, Bodies
<1>5. \A k \in 1 .. Len(calls) : calls[k].w # This.w
  <2>1. Len(calls) \in 1 .. Len(calls) /\ Len(calls) \in Nat /\ calls[Len(calls)].w = Host
    BY Innermost DEF Host
  <2>2. \A j, k \in 1 .. Len(calls) : j < k => calls[k].w < calls[j].w
    BY DEF Left
  <2>3. \A k \in 1 .. Len(calls) : calls[k].w \in Nat
    BY <1>4 DEF IInv, Active
  <2>4. ASSUME NEW k \in 1 .. Len(calls) PROVE Host <= calls[k].w
    <3>1. CASE k = Len(calls)
      BY <1>2, <1>4, <2>1, <3>1
    <3>2. CASE k # Len(calls)
      <4>1. k < Len(calls)
        BY <2>1, <3>2
      <4>2. Host < calls[k].w
        BY <2>1, <2>2, <4>1
      <4> QED
        BY <1>2, <1>4, <2>3, <4>2
    <3> QED
      BY <3>1, <3>2
  <2> QED
    BY <1>1, <1>2, <1>4, <2>3, <2>4
<1> QED
  BY <1>3, <1>5 DEF Left

LEMMA InlineCallLeaves == IInv /\ Left /\ InlineCall => Left'
<1> SUFFICES ASSUME IInv, Left, InlineCall PROVE Left'
  OBVIOUS
<1> DEFINE b == body[Host]
           sub == body[This.w]
           n == Len(sub)
           r == Splice(b, At, sub)
           f == [Current EXCEPT !.at = At + Len(sub), !.offset = @ + Len(body'[This.w]) - 1]
<1>1. /\ calls # <<>> /\ Current.phase = "inline" /\ Inside /\ This.kind = "word"
      /\ body' = [body EXCEPT ![Host] = r]
      /\ Advance(f)
      /\ UNCHANGED <<program, visited>>
  BY DEF InlineCall, Inline, AddLocals, In, Inlinable
<1>2. /\ b \in Seq(Cell) /\ Len(b) \in Nat /\ Current \in Call /\ At \in 1 .. Len(b)
      /\ Host \in Words /\ body \in [Words -> Seq(Cell)] /\ This.w \in Words
  BY <1>1, Innermost DEF IInv, Bodies, Refers
<1>3. sub \in Seq(Cell) /\ n \in Nat
  BY <1>2, LenProperties
<1>4. r \in Seq(Cell) /\ Len(r) = Len(b) + n - 1
  BY <1>2, <1>3, SpliceProperties
<1>5. f.w = Host /\ f.phase = "inline" /\ f.at = At + n
  BY <1>1, <1>2 DEF Call, Host
<1>6. /\ body' \in [Words -> Seq(Cell)] /\ body'[Host] = r
      /\ \A w \in Words : w # Host => body'[w] = body[w]
  BY <1>1, <1>2, <1>4
<1>7. ASSUME Straight
      PROVE  /\ Filled(body') => Filled(body)
             /\ Filled(body) => Len(body[Host]) <= Len(body'[Host]) /\ Filled(body')
             /\ Descends(body', Words)
             /\ Walked(body', visited, Host, f.phase, f.at)
  <2>1. /\ Descends(body, Words) /\ Walked(body, visited, Host, "inline", At)
        /\ This.w < Host
    BY <1>1, <1>7, InnermostWalked
  <2>3. Words \subseteq Nat
    BY ProgramTyped DEF Words, IInv, Bodies
  <2>5. WalkedThrough(body, visited, This.w)
    BY <1>1, <1>7, CalleeFinished
  <2> DEFINE cs == body'
  <2>6. /\ \A i \in 1 .. Len(cs[Host]) : i < At => cs[Host][i] = body[Host][i]
        /\ \A i \in 1 .. Len(cs[Host]) : At <= i /\ i < At + n => cs[Host][i] = sub[i - At + 1]
        /\ \A i \in 1 .. Len(cs[Host]) : i >= At + n => cs[Host][i] = body[Host][i - n + 1]
    <3>1. \A j \in 1 .. Len(b) + Len(sub) - 1 :
            r[j] = IF j < At THEN b[j]
                   ELSE IF j < At + Len(sub) THEN sub[j - At + 1]
                   ELSE b[j - Len(sub) + 1]
      BY <1>2, <1>3, SpliceElements
    <3>2. cs[Host] = r
      BY <1>6
    <3> HIDE DEF r, b, sub, cs
    <3>3. ASSUME NEW i \in 1 .. Len(r) PROVE i \in 1 .. Len(b) + Len(sub) - 1
      BY <1>4
    <3>4. \A i \in 1 .. Len(r) : i < At => r[i] = b[i]
      BY <3>1, <3>3
    <3>5. \A i \in 1 .. Len(r) : At <= i /\ i < At + n => r[i] = sub[i - At + 1]
      BY <1>2, <3>1, <3>3
    <3>6. \A i \in 1 .. Len(r) : i >= At + n => r[i] = b[i - n + 1]
      BY <1>2, <1>3, <3>1, <3>3
    <3> QED
      BY <3>2, <3>4, <3>5, <3>6 DEF b
  <2>7. Len(cs[Host]) = Len(body[Host]) + n - 1 /\ \A u \in Words : u # Host => cs[u] = body[u]
    BY <1>4, <1>6
  <2>8. cs \in [Words -> Seq(Cell)]
    BY <1>6
  <2> HIDE DEF cs, f, r
  <2>9. /\ Filled(cs) => Filled(body)
        /\ Filled(body) => Len(cs[Host]) >= Len(body[Host]) /\ Filled(cs)
        /\ Walked(cs, visited, Host, "inline", At + n)
        /\ Descends(cs, Words)
    <3>1. body[Host][At].kind = "word"
      BY <1>1 DEF This
    <3> QED
      BY <3>1, <1>2, <2>1, <2>3, <2>5, <2>6, <2>7, <2>8, WalkedSpliced
  <2>10. Len(cs[Host]) \in Nat
    BY <1>2, <2>8, LenProperties
  <2> QED
    BY <1>2, <1>5, <2>9, <2>10 DEF cs
<1> HIDE DEF f, r
<1> QED
  BY <1>1, <1>5, <1>6, <1>7, LeftKept

LEMMA VisitWordLeaves == IInv /\ Left /\ VisitWord => Left'
<1> SUFFICES ASSUME IInv, Left, VisitWord PROVE Left'
  OBVIOUS
<1> DEFINE f == [Current EXCEPT !.at = At + 1]
           held == [calls EXCEPT ![Len(calls)] = f]
           w == This.w
           e == Enter(w)
<1>1. /\ calls # <<>> /\ Current.phase = "visit" /\ Inside /\ This.kind = "word" /\ w \notin visited
      /\ UNCHANGED <<program, body, locals, outcome, origin>>
      /\ visited' = visited \cup {w}
  BY DEF VisitWord, In
<1>2. calls' = Append(held, e)
  BY Innermost, <1>1 DEF VisitWord, At
<1>3. /\ calls \in Seq(Call) /\ Len(calls) \in Nat \ {0} /\ Current \in Call /\ At \in Nat
      /\ calls[Len(calls)] = Current /\ w \in Words /\ visited \subseteq Words /\ Host \in Words
      /\ body \in [Words -> Seq(Cell)]
  BY <1>1, Innermost DEF Refers, IInv, Active, Bodies
<1>4. f \in Call /\ f.w = Current.w /\ f.phase = "visit" /\ f.at = At + 1
  <2>1. At + 1 \in Nat \ {0}
    BY <1>3
  <2> QED
    BY <1>1, <1>3, <2>1 DEF Call
<1>5. e \in Call /\ e.w = w /\ e.phase = "visit" /\ e.at = 1
  BY <1>3 DEF Enter, Call
<1>6. Words' = Words /\ (Straight' <=> Straight) /\ (NoneEmpty' <=> NoneEmpty)
  BY <1>1 DEF Words, Straight, NoneEmpty, Recursive
<1> HIDE DEF f, e
<1>7. /\ held \in Seq(Call) /\ Len(held) = Len(calls)
      /\ \A k \in 1 .. Len(calls) : held[k] = IF k = Len(calls) THEN f ELSE calls[k]
  BY <1>3, <1>4, ExceptSeq
<1> HIDE DEF held
<1>8. /\ Len(calls') = Len(calls) + 1
      /\ \A k \in 1 .. Len(calls) : calls'[k] = IF k = Len(calls) THEN f ELSE calls[k]
      /\ calls'[Len(calls) + 1] = e
  BY <1>2, <1>3, <1>5, <1>7
<1> SUFFICES ASSUME Straight
             PROVE  /\ Descends(body, Words)
                    /\ NoneEmpty => Filled(body)
                    /\ \A j, k \in 1 .. Len(calls') : j < k => calls'[k].w < calls'[j].w
                    /\ \A k \in 1 .. Len(calls') :
                         Walked(body, visited', calls'[k].w, calls'[k].phase, calls'[k].at)
                    /\ \A x \in visited' : (\A k \in 1 .. Len(calls') : calls'[k].w # x) =>
                         WalkedThrough(body, visited', x)
  BY <1>1, <1>6 DEF Left
<1>9. /\ Descends(body, Words)
      /\ NoneEmpty => Filled(body)
      /\ \A j, k \in 1 .. Len(calls) : j < k => calls[k].w < calls[j].w
      /\ \A k \in 1 .. Len(calls) : Walked(body, visited, calls[k].w, calls[k].phase, calls[k].at)
      /\ \A x \in visited : (\A k \in 1 .. Len(calls) : calls[k].w # x) =>
           WalkedThrough(body, visited, x)
  BY DEF Left
<1>10. Walked(body, visited, Host, "visit", At) /\ w < Host
  BY <1>1, InnermostWalked
<1>11. ASSUME NEW x \in Words, NEW phase, NEW a, Walked(body, visited, x, phase, a)
       PROVE  Walked(body, visited', x, phase, a)
  BY <1>1, <1>11 DEF Walked
<1>12. Words \subseteq Nat
  BY ProgramTyped DEF Words, IInv, Bodies
<1>13. \A k \in 1 .. Len(calls) : calls'[k].w = calls[k].w /\ calls[k].w \in Words
  BY <1>3, <1>4, <1>8 DEF IInv, Active
<1>14. ASSUME NEW j \in 1 .. Len(calls'), NEW k \in 1 .. Len(calls'), j < k
       PROVE  calls'[k].w < calls'[j].w
  <2>1. j \in 1 .. Len(calls)
    BY <1>3, <1>8, <1>14
  <2>2. CASE k \in 1 .. Len(calls)
    BY <1>9, <1>13, <1>14, <2>1, <2>2
  <2>3. CASE k = Len(calls) + 1
    <3>1. calls'[k].w = w
      BY <1>5, <1>8, <2>3
    <3>2. Host <= calls'[j].w
      <4>1. CASE j = Len(calls)
        <5>1. calls'[j].w = Host
          BY <1>3, <1>13, <2>1, <4>1 DEF Host
        <5> QED
          BY <1>3, <1>12, <5>1
      <4>2. CASE j < Len(calls)
        <5>1. Len(calls) \in 1 .. Len(calls) /\ calls[Len(calls)].w = Host
          BY <1>3 DEF Host
        <5>2. Host < calls[j].w
          BY <1>9, <2>1, <4>2, <5>1
        <5>3. Host \in Nat /\ calls[j].w \in Nat /\ calls'[j].w = calls[j].w
          BY <1>3, <1>12, <1>13, <2>1
        <5> QED
          BY <5>2, <5>3
      <4> QED
        BY <1>3, <2>1, <4>1, <4>2
    <3>3. calls'[j].w \in Nat /\ w \in Nat /\ Host \in Nat /\ w < Host
      BY <1>3, <1>10, <1>12, <1>13, <2>1
    <3> HIDE DEF w
    <3> QED
      BY <3>1, <3>2, <3>3
  <2> QED
    BY <1>3, <1>8, <2>2, <2>3
<1>15. ASSUME NEW k \in 1 .. Len(calls')
       PROVE  Walked(body, visited', calls'[k].w, calls'[k].phase, calls'[k].at)
  <2>1. CASE k = Len(calls) + 1
    <3>1. Walked(body, visited', w, "visit", 1)
      BY DEF Walked
    <3> QED
      BY <1>5, <1>8, <2>1, <3>1
  <2>2. CASE k = Len(calls)
    <3>1. Walked(body, visited', Host, "visit", At)
      BY <1>3, <1>10, <1>11
    <3>2. body[Host][At].kind = "word" => body[Host][At].w \in visited' /\ ("visit" = "inline" => Full(body, Host, At))
      BY <1>1 DEF This
    <3>3. Walked(body, visited', Host, "visit", At + 1)
      BY <1>3, <3>1, <3>2, WalkedOn
    <3>4. calls'[k] = f /\ f.w = Host
      BY <1>3, <1>4, <1>8, <2>2 DEF Host
    <3> QED
      BY <1>4, <3>3, <3>4
  <2>3. CASE k \in 1 .. Len(calls) - 1
    <3>1. calls'[k] = calls[k] /\ k \in 1 .. Len(calls)
      BY <1>3, <1>8, <2>3
    <3> QED
      BY <1>9, <1>11, <1>13, <3>1
  <2> QED
    BY <1>3, <1>8, <2>1, <2>2, <2>3
<1>16. ASSUME NEW x \in visited', \A k \in 1 .. Len(calls') : calls'[k].w # x
       PROVE  WalkedThrough(body, visited', x)
  <2>1. x # w
    <3>1. Len(calls) + 1 \in 1 .. Len(calls')
      BY <1>3, <1>8
    <3> QED
      BY <1>5, <1>8, <1>16, <3>1
  <2>2. \A k \in 1 .. Len(calls) : calls[k].w # x
    <3>1. \A k \in 1 .. Len(calls) : k \in 1 .. Len(calls')
      BY <1>3, <1>8
    <3> QED
      BY <1>13, <1>16, <3>1
  <2>3. x \in visited /\ x \in Words
    BY <1>1, <1>3, <1>16, <2>1
  <2> QED
    BY <1>9, <1>11, <2>2, <2>3 DEF WalkedThrough
<1> QED
  BY <1>9, <1>14, <1>15, <1>16

LEMMA ReturnLeaves == IInv /\ Left /\ Return => Left'
<1> SUFFICES ASSUME IInv, Left, Return PROVE Left'
  OBVIOUS
<1>1. /\ calls # <<>> /\ Current.phase = "inline" /\ ~Inside /\ calls' = Front(calls)
      /\ UNCHANGED <<program, body, locals, visited, origin>>
  BY DEF Return, In
<1>2. /\ Len(calls) \in Nat \ {0} /\ Len(calls') = Len(calls) - 1
      /\ \A k \in 1 .. Len(calls) - 1 : calls'[k] = calls[k]
      /\ calls[Len(calls)] = Current /\ At = Len(body[Host]) + 1
  <2>1. At = Len(body[Host]) + 1
    BY <1>1, Innermost DEF Inside
  <2> QED
    BY <1>1, <2>1, Innermost, FrontProperties DEF IInv, Active
<1>3. Words' = Words /\ (Straight' <=> Straight) /\ (NoneEmpty' <=> NoneEmpty)
  BY <1>1 DEF Words, Straight, NoneEmpty, Recursive
<1> SUFFICES ASSUME Straight
             PROVE  /\ Descends(body, Words)
                    /\ NoneEmpty => Filled(body)
                    /\ \A j, k \in 1 .. Len(calls') : j < k => calls'[k].w < calls'[j].w
                    /\ \A k \in 1 .. Len(calls') :
                         Walked(body, visited, calls'[k].w, calls'[k].phase, calls'[k].at)
                    /\ \A x \in visited : (\A k \in 1 .. Len(calls') : calls'[k].w # x) =>
                         WalkedThrough(body, visited, x)
  BY <1>1, <1>3 DEF Left
<1>4. /\ Descends(body, Words)
      /\ NoneEmpty => Filled(body)
      /\ \A j, k \in 1 .. Len(calls) : j < k => calls[k].w < calls[j].w
      /\ \A k \in 1 .. Len(calls) : Walked(body, visited, calls[k].w, calls[k].phase, calls[k].at)
      /\ \A x \in visited : (\A k \in 1 .. Len(calls) : calls[k].w # x) =>
           WalkedThrough(body, visited, x)
  BY DEF Left
<1>5. WalkedThrough(body, visited, Host)
  BY <1>1, <1>2, InnermostWalked DEF WalkedThrough
<1>6. \A k \in 1 .. Len(calls') : k \in 1 .. Len(calls) /\ calls'[k] = calls[k]
  BY <1>2
<1>7. ASSUME NEW x \in visited, \A k \in 1 .. Len(calls') : calls'[k].w # x
      PROVE  WalkedThrough(body, visited, x)
  <2>1. CASE x = Host
    BY <1>5, <2>1
  <2>2. CASE x # Host
    <3>1. \A k \in 1 .. Len(calls) : calls[k].w # x
      BY <1>2, <1>7, <2>2 DEF Host
    <3> QED
      BY <1>4, <3>1
  <2> QED
    BY <2>1, <2>2
<1> QED
  BY <1>4, <1>6, <1>7

LEMMA InitLeft == Init => Left
<1> SUFFICES ASSUME Init, Straight
             PROVE  /\ Descends(body, Words)
                    /\ NoneEmpty => Filled(body)
                    /\ \A j, k \in 1 .. Len(calls) : j < k => calls[k].w < calls[j].w
                    /\ \A k \in 1 .. Len(calls) :
                         Walked(body, visited, calls[k].w, calls[k].phase, calls[k].at)
                    /\ \A w \in visited : (\A k \in 1 .. Len(calls) : calls[k].w # w) =>
                         WalkedThrough(body, visited, w)
  BY DEF Left
<1>1. PICK root \in Words : visited = {root} /\ calls = <<Enter(root)>>
  BY DEF Init
<1>2. Len(calls) = 1 /\ calls[1] = Enter(root) /\ Enter(root).w = root
      /\ Enter(root).phase = "visit" /\ Enter(root).at = 1
  BY <1>1 DEF Enter
<1>3. \A k \in 1 .. Len(calls) : Walked(body, visited, calls[k].w, calls[k].phase, calls[k].at)
  BY <1>2 DEF Walked
<1>4. ASSUME NEW w \in Words
      PROVE  /\ NoneEmpty => Len(body[w]) >= 1
             /\ \A i \in 1 .. Len(body[w]) : body[w][i].kind = "word" =>
                  body[w][i].w \in Words /\ body[w][i].w < w
  <2>1. program \in Programs /\ body[w] = program[w].body
    BY DEF Init
  <2>2. /\ w \in 1 .. Len(program) /\ program[w].body \in Seq(Cell) /\ Len(program[w].body) \in Nat
        /\ DOMAIN program[w].body = 1 .. Len(program[w].body)
        /\ \A i \in 1 .. Len(program[w].body) :
             program[w].body[i].kind = "word" => program[w].body[i].w \in Words
    BY <2>1, ProgramTyped DEF Words
  <2>3. ~Recursive(w) /\ (NoneEmpty => program[w].body # <<>>)
    BY DEF Straight, NoneEmpty
  <2>4. NoneEmpty => Len(program[w].body) >= 1
    BY <2>2, <2>3, EmptySeq
  <2>5. ASSUME NEW i \in 1 .. Len(program[w].body), program[w].body[i].kind = "word"
        PROVE  program[w].body[i].w < w
    <3> DEFINE c == program[w].body[i]
    <3>1. c \in Cell /\ c.w \in 1 .. w
      BY <2>1, <2>2, <2>5, ElementOfSeq, ProgramsAssumption DEF Words
    <3>2. c = WordXt(c.w)
      BY <2>5, <3>1 DEF Cell, NumCell, WordCell, PrimCell, LocalCell, UndefCell, WordXt
    <3>3. c \in Range(program[w].body)
      BY <2>2, <2>5 DEF Range
    <3>4. c.w # w
      BY <2>3, <3>2, <3>3 DEF Recursive
    <3> HIDE DEF c
    <3> QED
      BY <2>2, <3>1, <3>4 DEF c
  <2> QED
    BY <2>1, <2>2, <2>4, <2>5
<1>5. Descends(body, Words)
  BY <1>4 DEF Descends
<1>8. NoneEmpty => Filled(body)
  BY <1>4 DEF Filled, Init
<1>6. \A w \in visited : ~\A k \in 1 .. Len(calls) : calls[k].w # w
  BY <1>1, <1>2
<1>7. \A j, k \in 1 .. Len(calls) : ~(j < k)
  BY <1>2
<1> QED
  BY <1>3, <1>5, <1>6, <1>7, <1>8

LEMMA StaysLeft ==
  ASSUME Left, UNCHANGED <<program, body, visited, calls>>
  PROVE  Left'
BY DEF Left, Words, Straight, NoneEmpty, Recursive

LEMMA NextLeft == IInv /\ Left /\ [Next]_vars => Left'
<1> SUFFICES ASSUME IInv, Left, [Next]_vars PROVE Left'
  OBVIOUS
<1>1. CASE InlineForever \/ BadBranch \/ Ended \/ UNCHANGED vars
  <2>1. UNCHANGED <<program, body, visited, calls>>
    BY <1>1 DEF InlineForever, BadBranch, Ended, Stop, vars
  <2> QED
    BY <2>1, StaysLeft
<1> QED
  BY <1>1, VisitWordLeaves, PassOverLeaves, InlineCallLeaves, FixBranchLeaves, ReturnLeaves DEF Next

LEMMA LeftHolds == Spec => []Left
BY InitLeft, NextLeft, Invariant, PTL DEF Spec

\* Inlining leaves nothing to do, whatever the limit and the programs: in a
\* finished word no call stays whose definition would have fit, neither one the
\* walk passed over nor one that an inlined definition brought along, because
\* the words a definition calls are finished before it goes through its calls.
THEOREM SaturatedAlways == Spec => []Saturated
<1>1. IInv /\ Left => Saturated
  <2> SUFFICES ASSUME IInv, Left, Straight, NoneEmpty, NEW w \in Words, Finished(w),
                      NEW i \in DOMAIN body[w], body[w][i].kind = "word"
               PROVE  Len(body[w]) + Len(body[body[w][i].w]) >= MaxSize
    BY DEF Saturated, Straight, NoneEmpty
  <2>1. DOMAIN calls = 1 .. Len(calls)
    BY LenProperties DEF IInv, Active
  <2>2. body[w] \in Seq(Cell)
    BY DEF IInv, Bodies
  <2>3. Len(body[w]) \in Nat /\ i \in 1 .. Len(body[w])
    BY <2>2, LenProperties
  <2>4. WalkedThrough(body, visited, w) /\ Filled(body)
    BY <2>1 DEF Finished, Left
  <2>5. i < Len(body[w]) + 1
    BY <2>3
  <2> QED
    BY <2>3, <2>4, <2>5 DEF WalkedThrough, Walked, Full
<1> QED
  BY <1>1, LeftHolds, Invariant, PTL

-----------------------------------------------------------------------------
(***************************************************************************)
(* What definitions stand for. leaves gives the instructions of each word  *)
(* that may be called.                                                     *)
(***************************************************************************)
Pieces(s, leaves) == [i \in DOMAIN s |-> Piece(s, i, CallsIn(s), leaves)]

LEMMA PiecesTyped ==
  ASSUME NEW s \in Seq(Cell), NEW leaves,
         \A i \in 1 .. Len(s) : s[i].kind = "word" => leaves[s[i].w] \in Seq(Cell)
  PROVE  /\ Pieces(s, leaves) \in Seq(Seq(Cell))
         /\ Len(Pieces(s, leaves)) = Len(s)
         /\ \A i \in 1 .. Len(s) : Pieces(s, leaves)[i] = Piece(s, i, CallsIn(s), leaves)
         /\ Replaced(s, leaves) = FlattenSeq(Pieces(s, leaves))
         /\ Replaced(s, leaves) \in Seq(Cell)
<1> DEFINE T == Seq(Cell)
           n == Len(s)
           ps == Pieces(s, leaves)
<1>1. n \in Nat /\ DOMAIN s = 1 .. n /\ \A i \in 1 .. n : s[i] \in Cell
  BY LenProperties, ElementOfSeq
<1>2. Num(0) \in Cell
  BY DEF Num, Cell, NumCell
<1>3. \A c \in Cell : <<c>> \in T
  OBVIOUS
<1> HIDE DEF T
<1>4. ASSUME NEW i \in 1 .. n PROVE Piece(s, i, CallsIn(s), leaves) \in T
  <2>1. <<s[i]>> \in T /\ <<Num(0)>> \in T
    BY <1>1, <1>2, <1>3
  <2>2. i \in CallsIn(s) => leaves[s[i].w] \in T
    BY DEF T, CallsIn
  <2> QED
    BY <2>1, <2>2 DEF Piece
<1>5. ps = [i \in 1 .. n |-> Piece(s, i, CallsIn(s), leaves)]
  BY <1>1 DEF Pieces
<1>6. ps \in [1 .. n -> T]
  BY <1>4, <1>5
<1>7. ps \in Seq(T) /\ Len(ps) = n
  BY <1>1, <1>6, Listed
<1>8. Replaced(s, leaves) = FlattenSeq(ps)
  BY DEF Replaced, Pieces
<1>9. FlattenSeq(ps) \in Seq(Cell)
  BY <1>7, FlattenConcat DEF T
<1> QED
  BY <1>5, <1>7, <1>8, <1>9 DEF T

\* Only the words that are called matter.
LEMMA ReplacedAgrees ==
  ASSUME NEW s \in Seq(Cell), NEW L, NEW M,
         \A i \in 1 .. Len(s) : s[i].kind = "word" => L[s[i].w] = M[s[i].w]
  PROVE  Replaced(s, L) = Replaced(s, M)
<1>1. DOMAIN s = 1 .. Len(s)
  BY LenProperties
<1> DEFINE at == CallsIn(s)
<1>2. \A i \in DOMAIN s : Piece(s, i, at, L) = Piece(s, i, at, M)
  BY <1>1 DEF Piece, CallsIn
<1>3. [i \in DOMAIN s |-> Piece(s, i, at, L)] = [i \in DOMAIN s |-> Piece(s, i, at, M)]
  BY <1>2
<1> QED
  BY <1>3 DEF Replaced

\* What the words of bs stand for, if calls go back.
Solves(L, bs) == L = [w \in DOMAIN bs |-> Replaced(bs[w], L)]

LEMMA LeavesExist ==
  ASSUME NEW n \in Nat, NEW bs \in [1 .. n -> Seq(Cell)], Descends(bs, 1 .. n)
  PROVE  \E L \in [1 .. n -> Seq(Cell)] : Solves(L, bs)
<1> DEFINE T == Seq(Cell)
           Is(L, m) == /\ L \in [1 .. n -> T]
                       /\ \A w \in 1 .. n : w <= m => L[w] = Replaced(bs[w], L)
           U == {m \in 0 .. n : ~\E L : Is(L, m)}
<1>9. <<>> \in T /\ \A w \in 1 .. n : bs[w] \in T
  OBVIOUS
<1>1. ASSUME NEW w \in 1 .. n, NEW L \in [1 .. n -> T] PROVE Replaced(bs[w], L) \in T
  <2>1. \A i \in 1 .. Len(bs[w]) : bs[w][i].kind = "word" => bs[w][i].w \in 1 .. n
    BY DEF Descends
  <2>2. \A i \in 1 .. Len(bs[w]) : bs[w][i].kind = "word" => L[bs[w][i].w] \in Seq(Cell)
    BY <2>1
  <2> QED
    BY <2>2, PiecesTyped
<1> HIDE DEF T
<1>2. U = {}
  <2> SUFFICES ASSUME U # {} PROVE FALSE
    OBVIOUS
  <2>1. U \in SUBSET Nat
    OBVIOUS
  <2>2. PICK m \in U : \A k \in U : m <= k
    BY <2>1, LeastElement
  <2>3. m # 0
    <3> DEFINE L == [w \in 1 .. n |-> <<>>]
    <3>1. L \in [1 .. n -> T]
      BY <1>9
    <3> HIDE DEF L
    <3>3. \A w \in 1 .. n : ~(w <= 0)
      OBVIOUS
    <3>2. Is(L, 0)
      BY <3>1, <3>3
    <3> QED
      BY <3>2
  <2>4. m - 1 \in 0 .. n /\ m - 1 \notin U /\ m \in 1 .. n
    <3> HIDE DEF U
    <3>1. m \in 0 .. n
      BY <2>2 DEF U
    <3> QED
      BY <2>2, <2>3, <3>1
  <2>5. PICK L : Is(L, m - 1)
    BY <2>4
  <2> DEFINE r == Replaced(bs[m], L)
             M == [w \in 1 .. n |-> IF w = m THEN r ELSE L[w]]
  <2>6. r \in T
    BY <1>1, <2>4, <2>5
  <2> HIDE DEF r
  <2>7. M \in [1 .. n -> T]
    BY <2>5, <2>6
  <2>8. \A w \in 1 .. n : w < m => M[w] = L[w]
    OBVIOUS
  <2>9. M[m] = r
    BY <2>4
  <2> HIDE DEF M
  <2>10. ASSUME NEW w \in 1 .. n, w <= m PROVE Replaced(bs[w], M) = Replaced(bs[w], L)
    <3>1. ASSUME NEW i \in 1 .. Len(bs[w]), bs[w][i].kind = "word"
          PROVE  M[bs[w][i].w] = L[bs[w][i].w]
      <4>1. bs[w][i].w \in 1 .. n /\ bs[w][i].w < w
        BY <3>1 DEF Descends
      <4>2. bs[w][i].w < m
        BY <2>4, <2>10, <4>1
      <4> QED
        BY <2>8, <4>1, <4>2
    <3>2. bs[w] \in Seq(Cell)
      BY <1>9 DEF T
    <3> QED
      BY <3>1, <3>2, ReplacedAgrees
  <2>11. ASSUME NEW w \in 1 .. n, w <= m PROVE M[w] = Replaced(bs[w], M)
    <3>1. CASE w = m
      BY <2>9, <2>10, <2>11, <3>1 DEF r
    <3>2. CASE w # m
      <4>1. w < m /\ w <= m - 1
        BY <2>4, <2>11, <3>2
      <4> QED
        BY <2>5, <2>8, <2>10, <2>11, <4>1
    <3> QED
      BY <3>1, <3>2
  <2>12. Is(M, m)
    BY <2>7, <2>11
  <2> QED
    BY <2>2, <2>12
<1>3. PICK L : Is(L, n)
  <2>1. n \in 0 .. n
    OBVIOUS
  <2>2. n \notin U
    <3> HIDE DEF U
    <3> QED
      BY <1>2
  <2> QED
    BY <2>1, <2>2
<1>4. \A w \in 1 .. n : L[w] = Replaced(bs[w], L)
  BY <1>3
<1>5. DOMAIN bs = 1 .. n
  OBVIOUS
<1>6. L = [w \in 1 .. n |-> Replaced(bs[w], L)]
  BY <1>3, <1>4
<1> QED
  BY <1>3, <1>5, <1>6 DEF Solves, T

LEMMA LeavesUnique ==
  ASSUME NEW n \in Nat, NEW bs \in [1 .. n -> Seq(Cell)], Descends(bs, 1 .. n),
         NEW L, NEW M, Solves(L, bs), Solves(M, bs)
  PROVE  L = M
<1> DEFINE U == {w \in 1 .. n : L[w] # M[w]}
<1>1. DOMAIN bs = 1 .. n /\ \A w \in 1 .. n : bs[w] \in Seq(Cell)
  OBVIOUS
<1>2. /\ L = [w \in 1 .. n |-> Replaced(bs[w], L)]
      /\ M = [w \in 1 .. n |-> Replaced(bs[w], M)]
  BY <1>1 DEF Solves
<1>3. U = {}
  <2> SUFFICES ASSUME U # {} PROVE FALSE
    OBVIOUS
  <2>1. U \in SUBSET Nat
    OBVIOUS
  <2>2. PICK m \in U : \A k \in U : m <= k
    BY <2>1, LeastElement
  <2>3. \A w \in 1 .. n : w < m => L[w] = M[w]
    <3> SUFFICES ASSUME NEW w \in 1 .. n, w < m, w \in U PROVE FALSE
      OBVIOUS
    <3> HIDE DEF U
    <3>1. m <= w
      BY <2>2
    <3>2. m \in Nat
      BY <2>1, <2>2
    <3> QED
      BY <3>1, <3>2
  <2>4. m \in 1 .. n
    BY <2>2
  <2> HIDE DEF U
  <2>5. \A i \in 1 .. Len(bs[m]) : bs[m][i].kind = "word" => L[bs[m][i].w] = M[bs[m][i].w]
    BY <2>3, <2>4 DEF Descends
  <2>6. Replaced(bs[m], L) = Replaced(bs[m], M)
    BY <1>1, <2>4, <2>5, ReplacedAgrees
  <2>7. L[m] = M[m]
    BY <1>2, <2>4, <2>6
  <2> QED
    BY <2>2, <2>7 DEF U
<1>4. \A w \in 1 .. n : L[w] = M[w]
  BY <1>3
<1> QED
  BY <1>2, <1>4

LEMMA LeavesSolve ==
  ASSUME NEW n \in Nat, NEW bs \in [1 .. n -> Seq(Cell)], Descends(bs, 1 .. n)
  PROVE  Leaves(bs) \in [1 .. n -> Seq(Cell)] /\ Solves(Leaves(bs), bs)
<1>1. PICK L \in [1 .. n -> Seq(Cell)] : Solves(L, bs)
  BY LeavesExist
<1>2. L = [w \in DOMAIN bs |-> Replaced(bs[w], L)]
  BY <1>1 DEF Solves
<1> DEFINE M == Leaves(bs)
<1>3. M = [w \in DOMAIN bs |-> Replaced(bs[w], M)]
  BY <1>2 DEF Leaves
<1> HIDE DEF M
<1>4. Solves(M, bs)
  BY <1>3 DEF Solves
<1>5. M = L
  BY <1>1, <1>4, LeavesUnique
<1> QED
  BY <1>1, <1>4, <1>5 DEF M

\* An element replaced by the sequences it is made of.
LEMMA FlattenSpliced ==
  ASSUME NEW S, NEW ps \in Seq(Seq(S)), NEW pt \in Seq(Seq(S)), NEW a \in 1 .. Len(ps),
         ps[a] = FlattenSeq(pt)
  PROVE  FlattenSeq(Splice(ps, a, pt)) = FlattenSeq(ps)
<1> DEFINE T == Seq(S)
           m == Len(ps)
           q == Splice(ps, a, pt)
<1>1. m \in Nat
  BY LenProperties
<1> DEFINE x == SubSeq(ps, 1, a - 1)
           y == SubSeq(ps, a + 1, Len(ps))
<1>10. x \in Seq(T) /\ y \in Seq(T) /\ ps = x \o (<<ps[a]>> \o y) /\ q = x \o (pt \o y)
  <2>1. ps \in Seq(T) /\ pt \in Seq(T) /\ Len(ps) = m
    OBVIOUS
  <2> HIDE DEF T
  <2>7. a \in 1 .. Len(ps)
    BY <2>1
  <2>2. x \in Seq(T) /\ y \in Seq(T)
    BY <1>1, <2>1, Part
  <2>3. ps[a] \in T /\ <<ps[a]>> \in Seq(T)
    <3>1. ps[a] \in T
      BY <2>1, ElementOfSeq
    <3> QED
      BY <3>1
  <2>4. ps = x \o (<<ps[a]>> \o y)
    <3>1. ps = Splice(ps, a, <<ps[a]>>)
      <4> DEFINE o == <<ps[a]>>
      <4>1. Len(o) = 1 /\ o[1] = ps[a] /\ o \in Seq(T)
        BY <2>3
      <4> HIDE DEF o
      <4> DEFINE z == Splice(ps, a, o)
      <4>2. z \in Seq(T) /\ Len(z) = m + 1 - 1
        <5>1. z \in Seq(T) /\ Len(z) = Len(ps) + Len(o) - 1
          BY <2>1, <2>7, <4>1, SpliceProperties
        <5> HIDE DEF z
        <5> QED
          BY <2>1, <4>1, <5>1
      <4>3. \A j \in 1 .. m + 1 - 1 : z[j] = IF j < a THEN ps[j]
                                             ELSE IF j < a + 1 THEN o[j - a + 1]
                                             ELSE ps[j - 1 + 1]
        <5>1. \A j \in 1 .. Len(ps) + Len(o) - 1 :
                z[j] = IF j < a THEN ps[j]
                       ELSE IF j < a + Len(o) THEN o[j - a + 1] ELSE ps[j - Len(o) + 1]
          BY <2>1, <2>7, <4>1, SpliceElements
        <5> HIDE DEF z
        <5> QED
          BY <2>1, <4>1, <5>1
      <4> HIDE DEF z
      <4>4. Len(z) = m
        BY <1>1, <4>2
      <4>5. \A j \in 1 .. m : z[j] = ps[j]
        <5> SUFFICES ASSUME NEW j \in 1 .. m PROVE z[j] = ps[j]
          OBVIOUS
        <5>1. j \in 1 .. m + 1 - 1
          BY <1>1
        <5>2. CASE j = a
          <6>1. j - a + 1 = 1 /\ ~(j < a) /\ j < a + 1
            BY <5>2
          <6> QED
            BY <4>1, <4>3, <5>1, <5>2, <6>1
        <5>3. CASE j # a
          <6>1. j < a \/ ~(j < a + 1)
            BY <5>3
          <6>2. j - 1 + 1 = j /\ (j < a + 1 => j < a)
            BY <5>3
          <6> QED
            BY <4>3, <5>1, <6>1, <6>2
        <5> QED
          BY <5>2, <5>3
      <4> QED
        BY <2>1, <4>2, <4>4, <4>5, SeqEqual DEF z, o
    <3>2. Splice(ps, a, <<ps[a]>>) = (x \o <<ps[a]>>) \o y
      BY DEF Splice
    <3> HIDE DEF x, y
    <3>3. (x \o <<ps[a]>>) \o y = x \o (<<ps[a]>> \o y)
      BY <2>2, <2>3, ConcatAssociative
    <3> QED
      BY <3>1, <3>2, <3>3
  <2>5. q = (x \o pt) \o y
    BY DEF q, Splice
  <2>6. q = x \o (pt \o y)
    <3> HIDE DEF x, y
    <3>2. pt \in Seq(T)
      BY <2>1
    <3>1. (x \o pt) \o y = x \o (pt \o y)
      BY <2>2, <3>2, ConcatAssociative
    <3> QED
      BY <2>5, <3>1
  <2> QED
    BY <2>2, <2>4, <2>6
<1>11. ps[a] = FlattenSeq(pt) /\ ps[a] \in T
  BY FlattenConcat
<1> HIDE DEF x, y
<1>12. FlattenSeq(<<ps[a]>>) = FlattenSeq(pt)
  BY <1>11, FlattenOne
<1>13. FlattenSeq(ps) = FlattenSeq(x) \o (FlattenSeq(<<ps[a]>>) \o FlattenSeq(y))
  <2>1. <<ps[a]>> \in Seq(T) /\ <<ps[a]>> \o y \in Seq(T)
    <3>1. <<ps[a]>> \in Seq(T)
      BY <1>11
    <3> HIDE DEF T
    <3> QED
      BY <1>10, <3>1, ConcatProperties
  <2>2. FlattenSeq(x \o (<<ps[a]>> \o y)) = FlattenSeq(x) \o FlattenSeq(<<ps[a]>> \o y)
    BY <1>10, <2>1, FlattenConcat
  <2>3. FlattenSeq(<<ps[a]>> \o y) = FlattenSeq(<<ps[a]>>) \o FlattenSeq(y)
    BY <1>10, <2>1, FlattenConcat
  <2> QED
    BY <1>10, <2>2, <2>3
<1>14. FlattenSeq(q) = FlattenSeq(x) \o (FlattenSeq(pt) \o FlattenSeq(y))
  <2>1. pt \in Seq(T) /\ pt \o y \in Seq(T)
    <3>1. pt \in Seq(T)
      OBVIOUS
    <3> HIDE DEF T
    <3> QED
      BY <1>10, <3>1, ConcatProperties
  <2>2. FlattenSeq(x \o (pt \o y)) = FlattenSeq(x) \o FlattenSeq(pt \o y)
    BY <1>10, <2>1, FlattenConcat
  <2>3. FlattenSeq(pt \o y) = FlattenSeq(pt) \o FlattenSeq(y)
    BY <1>10, <2>1, FlattenConcat
  <2> QED
    BY <1>10, <2>2, <2>3
<1> QED
  BY <1>12, <1>13, <1>14 DEF q

\* In a proper definition every word is called.
LEMMA ProperCalls ==
  ASSUME NEW s \in Seq(Cell), Proper(s)
  PROVE  \A i \in 1 .. Len(s) : i \in CallsIn(s) <=> s[i].kind = "word"
<1>1. DOMAIN s = 1 .. Len(s)
  BY LenProperties
<1> QED
  BY <1>1 DEF Proper, CallsIn

\* A definition stays proper when one of its calls is replaced by a proper one:
\* the instructions up to the call, those of the word called and those after
\* the call start where they started.
LEMMA SpliceProper ==
  ASSUME NEW s \in Seq(Cell), NEW t \in Seq(Cell), NEW a \in 1 .. Len(s),
         Proper(s), Proper(t), s[a].kind = "word"
  PROVE  Proper(Splice(s, a, t))
<1> DEFINE r == Splice(s, a, t)
           m == Len(s)
           n == Len(t)
<1>1. /\ m \in Nat /\ n \in Nat
      /\ DOMAIN s = 1 .. m /\ DOMAIN t = 1 .. n
  BY LenProperties
<1>2. /\ r \in Seq(Cell) /\ Len(r) = m + n - 1 /\ DOMAIN r = 1 .. m + n - 1
      /\ \A j \in 1 .. m + n - 1 : r[j] = IF j < a THEN s[j]
                                          ELSE IF j < a + n THEN t[j - a + 1]
                                          ELSE s[j - n + 1]
  <2>1. r \in Seq(Cell) /\ Len(r) = m + n - 1
    BY SpliceProperties
  <2>2. DOMAIN r = 1 .. m + n - 1
    BY <2>1, LenProperties
  <2> QED
    BY <2>1, <2>2, SpliceElements
<1> HIDE DEF r
<1>3. /\ 1 \in Instructions(r) /\ 1 \in Instructions(s) /\ 1 \in Instructions(t)
      /\ m + 1 \in Instructions(s) /\ n + 1 \in Instructions(t)
      /\ \A i \in 1 .. m : s[i].kind = "word" => i \in Instructions(s)
      /\ \A i \in 1 .. n : t[i].kind = "word" => i \in Instructions(t)
  <2>1. 1 \in Instructions(r)
    BY <1>1, <1>2, InstructionsRecursion
  <2>2. 1 \in Instructions(s) /\ 1 \in Instructions(t)
    BY <1>1, InstructionsRecursion
  <2> QED
    BY <1>1, <2>1, <2>2 DEF Proper
<1>4. a \in 1 .. m /\ a \in Instructions(s) /\ ~IsStateful(s[a])
  BY <1>3 DEF IsStateful
<1>5. \A k \in 0 .. a - 1 : 1 + k \in Instructions(r) <=> 1 + k \in Instructions(s)
  <2> DEFINE e == a - 1
  <2>1. \A k \in 0 .. e - 1 : r[1 + k] = s[1 + k]
    <3> SUFFICES ASSUME NEW k \in 0 .. e - 1 PROVE r[1 + k] = s[1 + k]
      OBVIOUS
    <3>1. 1 + k \in 1 .. m + n - 1 /\ 1 + k < a
      BY <1>1, <1>4
    <3> QED
      BY <1>2, <3>1
  <2>2. /\ e \in Nat /\ Len(r) \in Nat
        /\ 1 + e <= Len(r) + 1 /\ 1 + e <= m + 1
    BY <1>1, <1>2, <1>4
  <2> HIDE DEF m, n, e
  <2>3. \A k \in 0 .. e - 1 : IsStateful(r[1 + k]) <=> IsStateful(s[1 + k])
    BY <2>1
  <2>4. 1 \in Nat /\ Len(s) \in Nat /\ 1 + e <= Len(s) + 1
    BY <1>1, <2>2 DEF m
  <2>5. \A k \in 0 .. e : 1 + k \in Instructions(r) <=> 1 + k \in Instructions(s)
    BY <1>3, <2>2, <2>3, <2>4, InstructionsAlike
  <2> QED
    BY <2>5 DEF e
<1>6. a \in Instructions(r)
  <2>1. a - 1 \in 0 .. a - 1 /\ 1 + (a - 1) = a
    BY <1>4
  <2> QED
    BY <1>4, <1>5, <2>1
<1>7. \A k \in 0 .. n : a + k \in Instructions(r) <=> 1 + k \in Instructions(t)
  <2>1. \A k \in 0 .. n - 1 : r[a + k] = t[1 + k]
    <3> SUFFICES ASSUME NEW k \in 0 .. n - 1 PROVE r[a + k] = t[1 + k]
      OBVIOUS
    <3>1. /\ a + k \in 1 .. m + n - 1 /\ ~(a + k < a) /\ a + k < a + n
          /\ (a + k) - a + 1 = 1 + k
      BY <1>1, <1>4
    <3> QED
      BY <1>2, <3>1
  <2>2. Len(r) \in Nat /\ a + n <= Len(r) + 1 /\ 1 + n <= n + 1 /\ a \in Nat
    BY <1>1, <1>2, <1>4
  <2> HIDE DEF m, n
  <2> QED
    BY <1>1, <1>3, <1>6, <2>1, <2>2, InstructionsAlike DEF n
<1>8. a + n \in Instructions(r)
  <2>1. n \in 0 .. n /\ 1 + n = n + 1
    BY <1>1
  <2> QED
    BY <1>3, <1>7, <2>1
<1>9. a + 1 \in Instructions(s)
  <2>1. a + 1 \in 1 .. m + 2 /\ a + 1 # 1 /\ (a + 1) - 1 = a /\ ~(a > m)
    BY <1>1, <1>4
  <2> QED
    BY <1>1, <1>4, <2>1, InstructionsRecursion
<1>10. \A k \in 0 .. m - a : (a + n) + k \in Instructions(r) <=> (a + 1) + k \in Instructions(s)
  <2>1. \A k \in 0 .. (m - a) - 1 : r[(a + n) + k] = s[(a + 1) + k]
    <3> SUFFICES ASSUME NEW k \in 0 .. (m - a) - 1 PROVE r[(a + n) + k] = s[(a + 1) + k]
      OBVIOUS
    <3>1. /\ (a + n) + k \in 1 .. m + n - 1 /\ ~((a + n) + k < a) /\ ~((a + n) + k < a + n)
          /\ ((a + n) + k) - n + 1 = (a + 1) + k
      BY <1>1, <1>4
    <3> QED
      BY <1>2, <3>1
  <2>2. /\ m - a \in Nat /\ a + n \in Nat /\ a + 1 \in Nat /\ Len(r) \in Nat
        /\ (a + n) + (m - a) <= Len(r) + 1 /\ (a + 1) + (m - a) <= m + 1
    BY <1>1, <1>2, <1>4
  <2> HIDE DEF m, n
  <2> QED
    BY <1>1, <1>8, <1>9, <2>1, <2>2, InstructionsAlike DEF m
<1>11. Len(r) + 1 \in Instructions(r)
  <2>1. m - a \in 0 .. m - a /\ (a + n) + (m - a) = Len(r) + 1 /\ (a + 1) + (m - a) = m + 1
    BY <1>1, <1>2, <1>4
  <2> QED
    BY <1>3, <1>10, <2>1
<1>12. ASSUME NEW j \in DOMAIN r, r[j].kind = "word" PROVE j \in Instructions(r)
  <2>1. j \in 1 .. m + n - 1
    BY <1>2
  <2>2. CASE j < a
    <3>1. r[j] = s[j] /\ j \in 1 .. m /\ j - 1 \in 0 .. a - 1 /\ 1 + (j - 1) = j
      BY <1>1, <1>2, <1>4, <2>1, <2>2
    <3> QED
      BY <1>3, <1>5, <1>12, <3>1
  <2>3. CASE ~(j < a) /\ j < a + n
    <3> DEFINE k == j - a
    <3>1. r[j] = t[1 + k] /\ 1 + k \in 1 .. n /\ k \in 0 .. n /\ a + k = j
      <4>1. /\ j - a + 1 = 1 + k /\ 1 + k \in 1 .. n /\ k \in 0 .. n /\ a + k = j
        BY <1>1, <1>4, <2>1, <2>3
      <4>2. r[j] = t[j - a + 1]
        BY <1>2, <2>1, <2>3
      <4> QED
        BY <4>1, <4>2
    <3> QED
      BY <1>3, <1>7, <1>12, <3>1
  <2>4. CASE ~(j < a) /\ ~(j < a + n)
    <3> DEFINE k == j - (a + n)
    <3>1. /\ r[j] = s[(a + 1) + k] /\ (a + 1) + k \in 1 .. m /\ k \in 0 .. m - a
          /\ (a + n) + k = j
      <4>1. /\ j - n + 1 = (a + 1) + k /\ (a + 1) + k \in 1 .. m /\ k \in 0 .. m - a
            /\ (a + n) + k = j
        BY <1>1, <1>4, <2>1, <2>4
      <4>2. r[j] = s[j - n + 1]
        BY <1>2, <2>1, <2>4
      <4> QED
        BY <4>1, <4>2
    <3> QED
      BY <1>3, <1>10, <1>12, <3>1
  <2> QED
    BY <2>2, <2>3, <2>4
<1> QED
  BY <1>11, <1>12 DEF Proper, r

\* Places behind n elements put in the place of the a-th of m: the first of them, and
\* one that is not.
LEMMA PlaceBehind ==
  ASSUME NEW m \in Nat, NEW n \in Nat, NEW a \in 1 .. m, NEW j \in 1 .. m + n - 1, j >= a + n
  PROVE  j - n + 1 \in 1 .. m /\ j - n + 1 > a /\ j - n + 1 > 1 /\ ~(j < a)
OBVIOUS

LEMMA PlaceBeyond ==
  ASSUME NEW m \in Nat, NEW n \in Nat, NEW a \in 1 .. m, NEW j \in 1 .. m + n - 1, j > a + n
  PROVE  /\ j - 1 \in 1 .. m + n - 1 /\ ~(j - 1 < a + n) /\ ~(j - 1 < a)
         /\ (j - 1) - n + 1 = (j - n + 1) - 1 /\ j > 1
OBVIOUS

\* A call replaced by what it calls.
LEMMA ReplacedSplice ==
  ASSUME NEW s \in Seq(Cell), NEW t \in Seq(Cell), NEW a \in 1 .. Len(s), NEW L,
         Proper(s), Proper(t),
         \A i \in 1 .. Len(s) : s[i].kind = "word" => L[s[i].w] \in Seq(Cell),
         \A i \in 1 .. Len(t) : t[i].kind = "word" => L[t[i].w] \in Seq(Cell),
         s[a].kind = "word", L[s[a].w] = Replaced(t, L),
         a > 1 => ~IsBranch(s[a - 1]),
         Len(t) >= 1 => ~IsBranch(t[Len(t)])
  PROVE  Replaced(Splice(s, a, t), L) = Replaced(s, L)
<1> DEFINE T == Seq(Cell)
           r  == Splice(s, a, t)
           ps == Pieces(s, L)
           pt == Pieces(t, L)
           pr == Pieces(r, L)
           m  == Len(s)
           n  == Len(t)
<1>1. m \in Nat /\ n \in Nat
  BY LenProperties
<1>2. /\ r \in Seq(Cell) /\ Len(r) = m + n - 1
      /\ \A j \in 1 .. m + n - 1 : r[j] = IF j < a THEN s[j]
                                          ELSE IF j < a + n THEN t[j - a + 1]
                                          ELSE s[j - n + 1]
  BY SpliceProperties, SpliceElements
<1>0. /\ \A i \in 1 .. m : i \in CallsIn(s) <=> s[i].kind = "word"
      /\ \A i \in 1 .. n : i \in CallsIn(t) <=> t[i].kind = "word"
      /\ \A i \in 1 .. m + n - 1 : i \in CallsIn(r) <=> r[i].kind = "word"
  BY <1>2, SpliceProper, ProperCalls
<1> HIDE DEF r
<1>3. /\ ps \in Seq(Seq(Cell)) /\ Len(ps) = m /\ Replaced(s, L) = FlattenSeq(ps)
      /\ \A i \in 1 .. m : ps[i] = Piece(s, i, CallsIn(s), L)
  BY PiecesTyped
<1>4. /\ pt \in Seq(Seq(Cell)) /\ Len(pt) = n /\ Replaced(t, L) = FlattenSeq(pt)
      /\ Replaced(t, L) \in Seq(Cell)
      /\ \A i \in 1 .. n : pt[i] = Piece(t, i, CallsIn(t), L)
  BY PiecesTyped
<1>5. ASSUME NEW i \in 1 .. Len(r), r[i].kind = "word" PROVE L[r[i].w] \in Seq(Cell)
  <2>1. i \in 1 .. m + n - 1
    BY <1>2
  <2>2. CASE i < a
    <3>1. i \in 1 .. m /\ r[i] = s[i]
      BY <1>1, <1>2, <2>1, <2>2
    <3> QED
      BY <1>5, <3>1
  <2>3. CASE ~(i < a) /\ i < a + n
    <3>1. i - a + 1 \in 1 .. n /\ r[i] = t[i - a + 1]
      BY <1>1, <1>2, <2>1, <2>3
    <3> QED
      BY <1>5, <3>1
  <2>4. CASE ~(i < a) /\ ~(i < a + n)
    <3>1. i - n + 1 \in 1 .. m /\ r[i] = s[i - n + 1]
      BY <1>1, <1>2, <2>1, <2>4
    <3> QED
      BY <1>5, <3>1
  <2> QED
    BY <2>2, <2>3, <2>4
<1>6. /\ pr \in Seq(Seq(Cell)) /\ Len(pr) = m + n - 1 /\ Replaced(r, L) = FlattenSeq(pr)
      /\ \A i \in 1 .. m + n - 1 : pr[i] = Piece(r, i, CallsIn(r), L)
  BY <1>2, <1>5, PiecesTyped
<1> HIDE DEF ps, pt, pr
<1> DEFINE q == Splice(ps, a, pt)
<1>7. /\ q \in Seq(Seq(Cell)) /\ Len(q) = m + n - 1
      /\ \A j \in 1 .. m + n - 1 : q[j] = IF j < a THEN ps[j]
                                          ELSE IF j < a + n THEN pt[j - a + 1]
                                          ELSE ps[j - n + 1]
  <2> HIDE DEF T
  <2>1. ps \in Seq(T) /\ pt \in Seq(T) /\ a \in 1 .. Len(ps)
    BY <1>3, <1>4 DEF T
  <2>2. q \in Seq(T) /\ Len(q) = Len(ps) + Len(pt) - 1
    BY <2>1, SpliceProperties
  <2>3. \A j \in 1 .. Len(ps) + Len(pt) - 1 : q[j] = IF j < a THEN ps[j]
                                          ELSE IF j < a + Len(pt) THEN pt[j - a + 1]
                                          ELSE ps[j - Len(pt) + 1]
    BY <2>1, SpliceElements
  <2> QED
    BY <1>3, <1>4, <2>2, <2>3 DEF T
<1> HIDE DEF q
<1>8. ASSUME NEW j \in 1 .. m + n - 1 PROVE pr[j] = q[j]
  <2> DEFINE Same(u, k) == /\ r[j] = u[k]
                           /\ k \in CallsIn(u) <=> u[k].kind = "word"
                           /\ j > 1 /\ IsBranch(r[j - 1]) <=> k > 1 /\ IsBranch(u[k - 1])
  <2>1. ASSUME NEW u, NEW k, Same(u, k) PROVE pr[j] = Piece(u, k, CallsIn(u), L)
    <3>1. pr[j] = Piece(r, j, CallsIn(r), L) /\ (j \in CallsIn(r) <=> r[j].kind = "word")
      BY <1>0, <1>6
    <3> QED
      BY <2>1, <3>1 DEF Piece
  <2>2. CASE j < a
    <3>1. j \in 1 .. m /\ r[j] = s[j] /\ q[j] = ps[j]
      BY <1>1, <1>2, <1>7, <2>2
    <3>2. j > 1 => r[j - 1] = s[j - 1]
      <4>1. j > 1 => j - 1 \in 1 .. m + n - 1 /\ j - 1 < a
        BY <1>1, <2>2
      <4> QED
        BY <1>2, <4>1
    <3> QED
      BY <1>0, <1>3, <2>1, <3>1, <3>2
  <2>3. CASE ~(j < a) /\ j < a + n
    <3> DEFINE k == j - a + 1
    <3>1. k \in 1 .. n /\ r[j] = t[k] /\ q[j] = pt[k]
      BY <1>1, <1>2, <1>7, <2>3
    <3>2. CASE k = 1
      <4>1. j = a
        BY <2>3, <3>2
      <4>2. ~(k > 1 /\ IsBranch(t[k - 1]))
        BY <3>2
      <4>3. j > 1 => r[j - 1] = s[j - 1]
        <5>1. j > 1 => j - 1 \in 1 .. m + n - 1 /\ j - 1 < a
          BY <1>1, <4>1
        <5> QED
          BY <1>2, <5>1
      <4>4. ~(j > 1 /\ IsBranch(r[j - 1]))
        BY <4>1, <4>3
      <4> QED
        BY <1>0, <1>4, <2>1, <3>1, <4>2, <4>4
    <3>3. CASE k # 1
      <4>1. j - 1 \in 1 .. m + n - 1 /\ ~(j - 1 < a) /\ j - 1 < a + n
            /\ (j - 1) - a + 1 = k - 1 /\ j > 1 /\ k > 1
        BY <1>1, <2>3, <3>1, <3>3
      <4>2. r[j - 1] = t[k - 1]
        BY <1>2, <4>1
      <4> QED
        BY <1>0, <1>4, <2>1, <3>1, <4>1, <4>2
    <3> QED
      BY <3>2, <3>3
  <2>4. CASE ~(j < a + n)
    <3> DEFINE k == j - n + 1
    <3>4. k \in 1 .. m /\ k > a /\ k > 1 /\ ~(j < a)
      <4>1. a \in 1 .. m /\ j \in 1 .. m + n - 1
        OBVIOUS
      <4> HIDE DEF m, n
      <4>2. j >= a + n
        BY <1>1, <2>4, <4>1
      <4> QED
        BY <1>1, <4>1, <4>2, PlaceBehind
    <3>1. k \in 1 .. m /\ k > a /\ r[j] = s[k] /\ q[j] = ps[k] /\ k > 1
      <4>1. r[j] = s[j - n + 1] /\ q[j] = ps[j - n + 1]
        BY <1>2, <1>7, <2>4, <3>4
      <4> QED
        BY <3>4, <4>1
    <3>2. CASE k = a + 1
      <4>1. ~IsBranch(s[k - 1])
        <5>1. k - 1 = a
          BY <3>2
        <5> QED
          BY <5>1 DEF IsBranch
      <4>2. ASSUME j > 1 PROVE ~IsBranch(r[j - 1])
        <5>4. j = a + n
          BY <1>1, <3>2
        <5>1. j - 1 = a + n - 1 /\ j - 1 \in 1 .. m + n - 1
          BY <1>1, <4>2, <5>4
        <5>2. CASE n = 0
          <6>1. j - 1 < a /\ j - 1 = a - 1 /\ a > 1
            BY <4>2, <5>1, <5>2
          <6> QED
            BY <1>2, <5>1, <6>1
        <5>3. CASE n # 0
          <6>1. ~(j - 1 < a) /\ j - 1 < a + n /\ (j - 1) - a + 1 = n /\ n >= 1
            BY <1>1, <5>1, <5>3
          <6>2. r[j - 1] = t[n]
            BY <1>2, <5>1, <6>1
          <6> QED
            BY <6>1, <6>2
        <5> QED
          BY <5>2, <5>3
      <4> QED
        BY <1>0, <1>3, <2>1, <3>1, <4>1, <4>2
    <3>3. CASE k # a + 1
      <4>1. j - 1 \in 1 .. m + n - 1 /\ ~(j - 1 < a + n) /\ ~(j - 1 < a)
            /\ (j - 1) - n + 1 = k - 1 /\ j > 1
        <5>1. a \in 1 .. m /\ j \in 1 .. m + n - 1 /\ j - n + 1 # a + 1
          BY <3>3
        <5> HIDE DEF m, n
        <5>2. j > a + n
          BY <1>1, <2>4, <5>1
        <5>3. /\ j - 1 \in 1 .. m + n - 1 /\ ~(j - 1 < a + n) /\ ~(j - 1 < a)
              /\ (j - 1) - n + 1 = (j - n + 1) - 1 /\ j > 1
          BY <1>1, <5>1, <5>2, PlaceBeyond
        <5> QED
          BY <5>3
      <4>2. r[j - 1] = s[k - 1]
        BY <1>2, <4>1
      <4> QED
        BY <1>0, <1>3, <2>1, <3>1, <4>1, <4>2
    <3> QED
      BY <3>2, <3>3
  <2> QED
    BY <2>2, <2>3, <2>4
<1>9. pr = q
  <2>1. DOMAIN pr = 1 .. m + n - 1 /\ DOMAIN q = 1 .. m + n - 1
    BY <1>6, <1>7, LenProperties
  <2> HIDE DEF m, n
  <2> QED
    BY <1>6, <1>7, <1>8, <2>1, SeqEqual
<1>10. FlattenSeq(q) = FlattenSeq(ps)
  <2>1. ps[a] = FlattenSeq(pt)
    BY <1>0, <1>3, <1>4 DEF Piece
  <2>2. a \in 1 .. Len(ps)
    BY <1>3
  <2> QED
    BY <1>3, <1>4, <2>1, <2>2, FlattenSpliced DEF q
<1> QED
  BY <1>3, <1>6, <1>9, <1>10 DEF r

\* A number after a branch corrected.
LEMMA FixKeepsInstructions ==
  ASSUME NEW s \in Seq(Cell), NEW r \in Seq(Cell), NEW a \in 1 .. Len(s),
         Len(r) = Len(s), IsNumber(s[a + 1]), IsNumber(r[a + 1]),
         \A i \in 1 .. Len(s) : i # a + 1 => r[i] = s[i]
  PROVE  /\ \A i \in 1 .. Len(s) + 1 : i \in Instructions(r) <=> i \in Instructions(s)
         /\ \A i \in 1 .. Len(s) : r[i].kind = "word" <=> s[i].kind = "word"
<1>1. Len(s) \in Nat /\ \A x : IsNumber(x) => ~IsStateful(x) /\ x.kind # "word"
  BY LenProperties DEF IsNumber, IsStateful
<1>2. ASSUME NEW i \in 1 .. Len(s)
      PROVE  (IsStateful(r[i]) <=> IsStateful(s[i])) /\ (r[i].kind = "word" <=> s[i].kind = "word")
  <2>1. CASE i = a + 1
    BY <1>1, <2>1
  <2>2. CASE i # a + 1
    BY <2>2
  <2> QED
    BY <2>1, <2>2
<1>3. 1 \in Instructions(s) /\ 1 \in Instructions(r)
  BY <1>1, InstructionsRecursion
<1>4. \A k \in 0 .. Len(s) - 1 : IsStateful(r[1 + k]) <=> IsStateful(s[1 + k])
  <2> SUFFICES ASSUME NEW k \in 0 .. Len(s) - 1 PROVE IsStateful(r[1 + k]) <=> IsStateful(s[1 + k])
    OBVIOUS
  <2>1. 1 + k \in 1 .. Len(s)
    BY <1>1
  <2> QED
    BY <1>2, <2>1
<1>5. 1 + Len(s) <= Len(r) + 1 /\ 1 + Len(s) <= Len(s) + 1 /\ Len(r) \in Nat /\ 1 \in Nat
  BY <1>1
<1>6. \A k \in 0 .. Len(s) : 1 + k \in Instructions(r) <=> 1 + k \in Instructions(s)
  BY <1>1, <1>3, <1>4, <1>5, InstructionsAlike
<1>7. ASSUME NEW i \in 1 .. Len(s) + 1 PROVE i \in Instructions(r) <=> i \in Instructions(s)
  <2>1. i - 1 \in 0 .. Len(s) /\ 1 + (i - 1) = i
    BY <1>1
  <2> QED
    BY <1>6, <2>1
<1> QED
  BY <1>2, <1>7

LEMMA FixProper ==
  ASSUME NEW s \in Seq(Cell), NEW r \in Seq(Cell), NEW a \in 1 .. Len(s),
         Len(r) = Len(s), IsNumber(s[a + 1]), IsNumber(r[a + 1]),
         \A i \in 1 .. Len(s) : i # a + 1 => r[i] = s[i]
  PROVE  (Proper(r) <=> Proper(s)) /\ CallsIn(r) = CallsIn(s)
<1>1. DOMAIN s = 1 .. Len(s) /\ DOMAIN r = 1 .. Len(s) /\ Len(s) \in Nat
  BY LenProperties
<1>2. /\ \A i \in 1 .. Len(s) + 1 : i \in Instructions(r) <=> i \in Instructions(s)
      /\ \A i \in 1 .. Len(s) : r[i].kind = "word" <=> s[i].kind = "word"
  BY FixKeepsInstructions
<1>3. \A i \in 1 .. Len(s) : i \in 1 .. Len(s) + 1
  BY <1>1
<1>4. Len(s) + 1 \in 1 .. Len(s) + 1
  BY <1>1
<1> QED
  BY <1>1, <1>2, <1>3, <1>4 DEF Proper, CallsIn

LEMMA ReplacedFixes ==
  ASSUME NEW s \in Seq(Cell), NEW r \in Seq(Cell), NEW a \in 1 .. Len(s), NEW L,
         Len(r) = Len(s), IsBranch(s[a]), IsNumber(s[a + 1]), IsNumber(r[a + 1]),
         \A i \in 1 .. Len(s) : i # a + 1 => r[i] = s[i]
  PROVE  Replaced(r, L) = Replaced(s, L)
<1>1. DOMAIN s = 1 .. Len(s) /\ DOMAIN r = 1 .. Len(s) /\ Len(s) \in Nat
  BY LenProperties
<1>0. CallsIn(r) = CallsIn(s)
  BY FixProper
<1> DEFINE at == CallsIn(s)
<1>9. \A i \in at : s[i].kind = "word"
  BY DEF CallsIn
<1> HIDE DEF at
<1>2. ASSUME NEW i \in 1 .. Len(s) PROVE Piece(r, i, at, L) = Piece(s, i, at, L)
  <2>1. CASE i = a + 1
    <3>1. i > 1 /\ i - 1 = a /\ a # a + 1
      BY <2>1
    <3>2. IsBranch(r[i - 1]) /\ IsBranch(s[i - 1]) /\ IsNumber(r[i]) /\ IsNumber(s[i])
      BY <2>1, <3>1
    <3>3. r[i].kind # "word" /\ s[i].kind # "word"
      BY <3>2, NotBoth
    <3> QED
      BY <1>9, <3>1, <3>2, <3>3 DEF Piece
  <2>2. CASE i # a + 1
    <3>1. r[i] = s[i]
      BY <2>2
    <3>2. i > 1 => (IsBranch(r[i - 1]) <=> IsBranch(s[i - 1]))
      <4>1. CASE i - 1 = a + 1
        BY <4>1, NotBoth
      <4>2. CASE i - 1 # a + 1
        <5>1. i > 1 => i - 1 \in 1 .. Len(s)
          BY <1>1
        <5> QED
          BY <4>2, <5>1
      <4> QED
        BY <4>1, <4>2
    <3> QED
      BY <3>1, <3>2 DEF Piece
  <2> QED
    BY <2>1, <2>2
<1>3. [i \in DOMAIN r |-> Piece(r, i, at, L)] = [i \in DOMAIN s |-> Piece(s, i, at, L)]
  BY <1>1, <1>2
<1> QED
  BY <1>0, <1>3 DEF Replaced, at

\* What the words stood for as interpretation left them, they still stand for.
Before == Leaves([w \in Words |-> program[w].body])

Regular == Straight /\ \A w \in Words : Proper(program[w].body)

Expanded ==
  Regular => /\ Before \in [Words -> Seq(Cell)]
             /\ \A w \in Words : Proper(body[w]) /\ Before[w] = Replaced(body[w], Before)

LEMMA InitExpanded == Init => Expanded
<1> SUFFICES ASSUME Init, Regular
             PROVE  /\ Before \in [Words -> Seq(Cell)]
                    /\ \A w \in Words : Proper(body[w]) /\ Before[w] = Replaced(body[w], Before)
  BY DEF Expanded
<1>0. Straight
  BY DEF Regular
<1>1. IInv /\ Left
  BY InitInvariant, InitLeft
<1>2. Words = 1 .. Len(program) /\ Len(program) \in Nat
  BY <1>1, ProgramTyped, LenProperties DEF Words, IInv, Bodies
<1>3. body = [w \in Words |-> program[w].body]
  BY DEF Init
<1>4. body \in [1 .. Len(program) -> Seq(Cell)] /\ Descends(body, 1 .. Len(program))
  BY <1>0, <1>1, <1>2 DEF IInv, Bodies, Left
<1>5. Leaves(body) \in [1 .. Len(program) -> Seq(Cell)] /\ Solves(Leaves(body), body)
  BY <1>2, <1>4, LeavesSolve
<1>6. Before = Leaves(body)
  BY <1>3 DEF Before
<1>7. Before \in [Words -> Seq(Cell)] /\ Solves(Before, body) /\ DOMAIN body = Words
  BY <1>2, <1>4, <1>5, <1>6
<1>8. Before = [w \in Words |-> Replaced(body[w], Before)]
  BY <1>7 DEF Solves
<1>9. \A w \in Words : Proper(body[w])
  BY <1>3 DEF Regular
<1> QED
  BY <1>7, <1>8, <1>9

\* A definition that grows must stand for the same.
LEMMA ExpandedKept ==
  ASSUME IInv, Expanded, calls # <<>>, UNCHANGED program,
         \A w \in Words : w # Host => body'[w] = body[w],
         Regular /\ Before \in [Words -> Seq(Cell)] =>
           Proper(body'[Host]) /\ Replaced(body'[Host], Before) = Replaced(body[Host], Before)
  PROVE  Expanded'
<1>1. Words' = Words /\ Before' = Before /\ (Regular' <=> Regular)
  BY DEF Words, Before, Regular, Straight, Recursive
<1>2. ASSUME Regular, NEW w \in Words
      PROVE  Proper(body'[w]) /\ Before[w] = Replaced(body'[w], Before)
  BY <1>2 DEF Expanded
<1> QED
  BY <1>1, <1>2 DEF Expanded

LEMMA FixBranchExpands == IInv /\ Expanded /\ FixBranch => Expanded'
<1> SUFFICES ASSUME IInv, Expanded, FixBranch PROVE Expanded'
  OBVIOUS
<1> DEFINE b == body[Host]
           r == body'[Host]
           cell == [b[At + 1] EXCEPT !.n = b[At + 1].n - Current.offset]
<1>1. /\ calls # <<>> /\ Inside /\ IsBranch(b[At])
      /\ At < Len(b) /\ IsNumber(b[At + 1])
      /\ body' = IF b[At + 1].n < 0 THEN [body EXCEPT ![Host] = [b EXCEPT ![At + 1] = cell]]
                 ELSE body
      /\ UNCHANGED program
  BY DEF FixBranch, In, This
<1>2. /\ b \in Seq(Cell) /\ Len(b) \in Nat /\ At \in 1 .. Len(b)
      /\ Host \in Words /\ body \in [Words -> Seq(Cell)]
  BY <1>1, Innermost DEF IInv, Bodies
<1>3. r \in Seq(Cell)
  <2>1. IInv'
    BY FixBranchKeeps
  <2> QED
    BY <1>1, <1>2, <2>1 DEF IInv, Bodies, Words
<1>4. \A w \in Words : w # Host => body'[w] = body[w]
  BY <1>1, <1>2
<1>5. /\ Len(r) = Len(b) /\ IsNumber(r[At + 1])
      /\ \A i \in 1 .. Len(b) : i # At + 1 => r[i] = b[i]
  <2>1. CASE ~(b[At + 1].n < 0)
    BY <1>1, <2>1
  <2>2. CASE b[At + 1].n < 0
    <3>1. r = [b EXCEPT ![At + 1] = cell]
      BY <1>1, <1>2, <2>2
    <3>2. b[At + 1] \in Cell /\ At + 1 \in 1 .. Len(b)
      BY <1>1, <1>2, ElementOfSeq
    <3>3. IsNumber(cell)
      BY <1>1, <3>2 DEF Cell, IsNumber, NumCell, WordCell, PrimCell, LocalCell, UndefCell
    <3> HIDE DEF cell, r, b
    <3>4. Len(r) = Len(b) /\ \A i \in 1 .. Len(b) : r[i] = IF i = At + 1 THEN cell ELSE b[i]
      BY <1>2, <3>1, LenProperties
    <3> QED
      BY <3>2, <3>3, <3>4
  <2> QED
    BY <2>1, <2>2
<1>6. Replaced(r, Before) = Replaced(b, Before) /\ (Proper(r) <=> Proper(b))
  <2> HIDE DEF r, b, cell
  <2> QED
    BY <1>1, <1>2, <1>3, <1>5, ReplacedFixes, FixProper
<1>7. Regular => Proper(b)
  BY <1>2 DEF Expanded
<1> QED
  BY <1>1, <1>4, <1>6, <1>7, ExpandedKept

LEMMA InlineCallExpands == IInv /\ Left /\ Expanded /\ InlineCall => Expanded'
<1> SUFFICES ASSUME IInv, Left, Expanded, InlineCall PROVE Expanded'
  OBVIOUS
<1> DEFINE b == body[Host]
           sub == body[This.w]
           r == Splice(b, At, sub)
<1>1. /\ calls # <<>> /\ Current.phase = "inline" /\ Inside /\ This.kind = "word"
      /\ body' = [body EXCEPT ![Host] = r]
      /\ UNCHANGED program
  BY DEF InlineCall, Inline, AddLocals, In, Inlinable
<1>2. /\ b \in Seq(Cell) /\ At \in 1 .. Len(b) /\ This = b[At]
      /\ Host \in Words /\ body \in [Words -> Seq(Cell)]
      /\ This.w \in Words /\ sub \in Seq(Cell)
  BY <1>1, Innermost DEF IInv, Bodies, Refers, This
<1>3. body'[Host] = r /\ \A w \in Words : w # Host => body'[w] = body[w]
  BY <1>1, <1>2
<1>4. ASSUME Regular, Before \in [Words -> Seq(Cell)]
      PROVE  Proper(r) /\ Replaced(r, Before) = Replaced(b, Before)
  <2>0. Straight /\ Proper(b) /\ Proper(sub)
    BY <1>2, <1>4 DEF Regular, Expanded
  <2>1. Descends(body, Words) /\ Walked(body, visited, Host, "inline", At)
    BY <1>1, <2>0, InnermostWalked
  <2>2. WalkedThrough(body, visited, This.w)
    BY <1>1, <2>0, CalleeFinished
  <2>3. \A i \in 1 .. Len(b) : b[i].kind = "word" => Before[b[i].w] \in Seq(Cell)
    BY <1>2, <1>4, <2>1 DEF Descends
  <2>4. \A i \in 1 .. Len(sub) : sub[i].kind = "word" => Before[sub[i].w] \in Seq(Cell)
    BY <1>2, <1>4, <2>1 DEF Descends
  <2>5. Before[This.w] = Replaced(sub, Before)
    BY <1>2, <1>4 DEF Expanded
  <2>6. ASSUME At > 1 PROVE ~IsBranch(b[At - 1])
    <3>1. At - 1 \in 1 .. Len(b) /\ At - 1 < At /\ (At - 1) + 1 = At
      BY <1>2, <2>6
    <3>2. ~IsNumber(b[At])
      BY <1>1, <1>2 DEF IsNumber
    <3> QED
      BY <2>1, <3>1, <3>2 DEF Walked
  <2>7. ASSUME Len(sub) >= 1 PROVE ~IsBranch(sub[Len(sub)])
    <3>1. Len(sub) \in 1 .. Len(sub) /\ Len(sub) < Len(sub) + 1 /\ ~(Len(sub) < Len(sub))
      BY <1>2, <2>7, LenProperties
    <3> QED
      BY <2>2, <3>1 DEF WalkedThrough, Walked
  <2> HIDE DEF r, b, sub
  <2> QED
    BY <1>1, <1>2, <2>0, <2>3, <2>4, <2>5, <2>6, <2>7, ReplacedSplice, SpliceProper DEF r
<1> QED
  BY <1>1, <1>3, <1>4, ExpandedKept

LEMMA StaysExpanded ==
  ASSUME Expanded, UNCHANGED <<program, body>>
  PROVE  Expanded'
BY DEF Expanded, Words, Before, Regular, Straight, Recursive

LEMMA NextExpanded == IInv /\ Left /\ Expanded /\ [Next]_vars => Expanded'
<1> SUFFICES ASSUME IInv, Left, Expanded, [Next]_vars PROVE Expanded'
  OBVIOUS
<1>1. CASE ~InlineCall /\ ~FixBranch
  <2>1. UNCHANGED <<program, body>>
    BY <1>1 DEF Next, VisitWord, PassOver, StartInlining, InlineForever, SkipCell, BadBranch,
                Return, Ended, Stop, vars
  <2> QED
    BY <2>1, StaysExpanded
<1> QED
  BY <1>1, InlineCallExpands, FixBranchExpands

\* Whatever the limit and the programs, and however far the walk has come: in a
\* program without recursion whose definitions are proper, a word stands for the
\* instructions it stood for before anything was inlined. The definitions
\* interpretation left and those of now have the same solution, and there is only
\* one as calls go back.
THEOREM ExpansionAlwaysKept == Spec => []ExpansionKept
<1>1. IInv /\ Left /\ Expanded => ExpansionKept
  <2> SUFFICES ASSUME IInv, Left, Expanded, Regular PROVE Leaves(body) = Before
    BY DEF ExpansionKept, Regular, Straight, Before
  <2>1. Words = 1 .. Len(program) /\ Len(program) \in Nat
    BY ProgramTyped, LenProperties DEF Words, IInv, Bodies
  <2>2. body \in [1 .. Len(program) -> Seq(Cell)] /\ Descends(body, 1 .. Len(program))
    BY <2>1 DEF IInv, Bodies, Left, Regular
  <2>3. Solves(Leaves(body), body)
    BY <2>1, <2>2, LeavesSolve
  <2>4. Before \in [Words -> Seq(Cell)] /\ \A w \in Words : Before[w] = Replaced(body[w], Before)
    BY DEF Expanded
  <2>5. DOMAIN body = Words
    BY <2>1, <2>2
  <2> DEFINE B == Before
  <2> HIDE DEF B
  <2>6. B \in [Words -> Seq(Cell)] /\ \A w \in Words : B[w] = Replaced(body[w], B)
    BY <2>4 DEF B
  <2>7. B = [w \in Words |-> Replaced(body[w], B)]
    BY <2>6
  <2>8. Solves(B, body)
    BY <2>5, <2>7 DEF Solves
  <2>9. Leaves(body) = B
    BY <2>1, <2>2, <2>3, <2>8, LeavesUnique
  <2> QED
    BY <2>9 DEF B
<1>2. Spec => []Expanded
  BY InitExpanded, NextExpanded, Invariant, LeftHolds, PTL DEF Spec
<1> QED
  BY <1>1, <1>2, Invariant, LeftHolds, PTL

=============================================================================
