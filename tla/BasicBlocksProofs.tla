-------------------------- MODULE BasicBlocksProofs --------------------------
(***************************************************************************)
(* Theorems about BasicBlocks: its types, the order in which words have    *)
(* their stack graphed, and that blocks keep the flow of control of the    *)
(* definition and are closed, for all programs interpretation may leave.   *)
(***************************************************************************)
EXTENDS BasicBlocks, CellsProofs

-----------------------------------------------------------------------------
(***************************************************************************)
(* Leaders and the numbers of blocks.                                      *)
(***************************************************************************)
\* The scan for branches succeeds: all lead into the definition or to its end.
Good(d) == \A i \in BranchesOf(d) : GoodBranch(d, i)

LEMMA ScanSucceeds ==
  ASSUME NEW d
  PROVE  /\ ScanFails(d) \subseteq {"aborted", "undefined"}
         /\ ScanFails(d) = {} => Good(d)
BY DEF ScanFails, Good

LEMMA LeadersProperties ==
  ASSUME NEW d, Len(d) \in Nat, DOMAIN d = 1 .. Len(d), Good(d)
  PROVE  /\ 1 \in Leaders(d)
         /\ Leaders(d) \subseteq 1 .. Len(d) + 1
         /\ IsFiniteSet(Leaders(d))
<1>1. \A i \in BranchesOf(d) :
        /\ i \in 1 .. Len(d) /\ i < Len(d)
        /\ Target(d, i) \in 1 .. Len(d) + 1
  BY DEF Good, GoodBranch, BranchesOf
<1>2. 1 \in Leaders(d) /\ Leaders(d) \subseteq 1 .. Len(d) + 1
  BY <1>1 DEF Leaders
<1>3. IsFiniteSet(1 .. Len(d) + 1)
  BY FS_Interval
<1> QED
  BY <1>2, <1>3, FS_Subset

LEMMA BlockAtProperties ==
  ASSUME NEW d, Len(d) \in Nat, DOMAIN d = 1 .. Len(d), Good(d)
  PROVE  /\ Cardinality(Leaders(d)) \in Nat \ {0}
         /\ \A i \in Nat \ {0} : BlockAt(d, i) \in 1 .. Cardinality(Leaders(d))
         /\ BlockAt(d, 1) = 1
         /\ BlockAt(d, Len(d) + 1) = Cardinality(Leaders(d))
         /\ \A i \in Nat : \A l \in Leaders(d) : i < l => BlockAt(d, i) < BlockAt(d, l)
         /\ \A i, j \in Nat : i < j /\ (\A l \in Leaders(d) : ~(i < l /\ l < j)) =>
              BlockAt(d, j) = IF j \in Leaders(d) THEN BlockAt(d, i) + 1 ELSE BlockAt(d, i)
<1> DEFINE Ls == Leaders(d)
           Upto(i) == {l \in Ls : l <= i}
<1>1. 1 \in Ls /\ Ls \subseteq 1 .. Len(d) + 1 /\ IsFiniteSet(Ls)
  BY LeadersProperties
<1>2. \A i : BlockAt(d, i) = Cardinality(Upto(i))
  BY DEF BlockAt
<1>3. \A l \in Ls : l \in Nat \ {0} /\ l <= Len(d) + 1
  BY <1>1
<1> HIDE DEF Ls
<1>4. ASSUME NEW i
      PROVE  IsFiniteSet(Upto(i)) /\ Cardinality(Upto(i)) \in Nat
             /\ Cardinality(Upto(i)) <= Cardinality(Ls)
  <2>1. Upto(i) \subseteq Ls
    OBVIOUS
  <2>2. IsFiniteSet(Upto(i)) /\ Cardinality(Upto(i)) <= Cardinality(Ls)
    BY <1>1, <2>1, FS_Subset
  <2> QED
    BY <2>2, FS_CardinalityType
<1>5. Cardinality(Ls) \in Nat
  BY <1>1, FS_CardinalityType
<1>6. ASSUME NEW i \in Nat \ {0}
      PROVE  Cardinality(Upto(i)) # 0
  <2>1. 1 \in Upto(i)
    BY <1>1
  <2> QED
    BY <2>1, <1>4, FS_EmptySet
<1>7. ASSUME NEW i \in Nat \ {0} PROVE BlockAt(d, i) \in 1 .. Cardinality(Ls)
  <2>1. /\ Cardinality(Upto(i)) \in Nat /\ Cardinality(Upto(i)) <= Cardinality(Ls)
        /\ Cardinality(Upto(i)) # 0 /\ BlockAt(d, i) = Cardinality(Upto(i))
    BY <1>2, <1>4, <1>6
  <2> HIDE DEF Upto
  <2> QED
    BY <2>1, <1>5
<1>8. BlockAt(d, 1) = 1
  <2>1. Upto(1) = {1}
    <3>1. \A l \in Ls : l <= 1 <=> l = 1
      BY <1>3
    <3> QED
      BY <1>1, <3>1
  <2> QED
    BY <2>1, <1>2, FS_Singleton
<1>9. BlockAt(d, Len(d) + 1) = Cardinality(Ls)
  <2>1. Upto(Len(d) + 1) = Ls
    BY <1>3, Zenon
  <2> QED
    BY <2>1, <1>2
<1>10. Cardinality(Ls) # 0
  BY <1>1, FS_EmptySet
<1>11. ASSUME NEW i \in Nat, NEW j \in Nat, i < j, \A l \in Ls : ~(i < l /\ l < j)
       PROVE  BlockAt(d, j) = IF j \in Ls THEN BlockAt(d, i) + 1 ELSE BlockAt(d, i)
  <2>1. CASE j \notin Ls
    <3>1. Upto(j) = Upto(i)
      <4>1. \A l \in Ls : l <= j <=> l <= i
        BY <1>3, <1>11, <2>1
      <4> QED
        BY <4>1, Zenon
    <3> QED
      BY <3>1, <2>1, <1>2
  <2>2. CASE j \in Ls
    <3>1. Upto(j) = Upto(i) \cup {j} /\ j \notin Upto(i)
      <4>1. \A l \in Ls : l <= j <=> l <= i \/ l = j
        BY <1>3, <1>11, <2>2
      <4>2. ~(j <= i)
        BY <1>11
      <4> QED
        BY <4>1, <4>2, <2>2, Zenon
    <3> HIDE DEF Upto
    <3>2. Cardinality(Upto(j)) = Cardinality(Upto(i)) + 1
      BY <3>1, <1>4, FS_AddElement
    <3> QED
      BY <3>2, <2>2, <1>2
  <2> QED
    BY <2>1, <2>2
<1>12. ASSUME NEW i \in Nat, NEW l \in Ls, i < l PROVE BlockAt(d, i) < BlockAt(d, l)
  <2>1. ~(l <= i) /\ \A h \in Ls : h <= i => h <= l
    BY <1>3, <1>12
  <2>2. l <= l
    BY <1>3
  <2>3. l \notin Upto(i) /\ Upto(i) \cup {l} \subseteq Upto(l)
    BY <2>1, <2>2, Zenon
  <2> HIDE DEF Upto
  <2>4. Cardinality(Upto(i) \cup {l}) = Cardinality(Upto(i)) + 1
    BY <2>3, <1>4, FS_AddElement
  <2>5. Cardinality(Upto(i) \cup {l}) <= Cardinality(Upto(l))
    BY <2>3, <1>4, FS_Subset
  <2> QED
    BY <2>4, <2>5, <1>2, <1>4
<1> QED
  BY <1>5, <1>7, <1>8, <1>9, <1>10, <1>11, <1>12 DEF Ls

-----------------------------------------------------------------------------
(***************************************************************************)
(* Definitions whose blocks are spoken of: those that are translated to    *)
(* the end.                                                                *)
(***************************************************************************)
\* Every instruction before the i-th cell is a word, and has its operand.
WordsBefore(d, i) ==
  \A j \in Instructions(d) :
    j < i /\ j <= Len(d) => IsWord(d[j]) /\ (IsStateful(d[j]) => j < Len(d))

Sound(d) ==
  Good(d) /\ WellFormed(d) /\ WordsBefore(d, Len(d) + 1) /\ Len(d) < MaxShort

LEMMA Remainder ==
  ASSUME NEW k \in Nat, NEW x \in 0 .. k - 1
  PROVE  x % k = x
OBVIOUS

\* What a short can hold is kept.
LEMMA ShortKept ==
  ASSUME NEW i \in -MaxShort - 1 .. MaxShort
  PROVE  ToShort(i) = i
<1>1. i + MaxShort + 1 \in 0 .. (2 * MaxShort + 2) - 1 /\ 2 * MaxShort + 2 \in Nat
  BY ShortAssumption
<1>2. (i + MaxShort + 1) % (2 * MaxShort + 2) = i + MaxShort + 1
  BY <1>1, Remainder
<1> QED
  BY <1>2, ShortAssumption DEF ToShort

\* Every cell the scan takes for a branch is an instruction.
LEMMA BranchesAreInstructions ==
  ASSUME NEW d \in Seq(Cell), Sound(d)
  PROVE  BranchesOf(d) \subseteq Instructions(d)
<1>1. Len(d) \in Nat /\ DOMAIN d = 1 .. Len(d)
  BY LenProperties
<1>2. \A i \in BranchesOf(d) : i \in 1 .. Len(d) /\ i < Len(d) /\ IsBranch(d[i]) /\ IsNumber(d[i + 1])
  BY <1>1 DEF Sound, Good, GoodBranch, BranchesOf
<1> SUFFICES ASSUME NEW i \in BranchesOf(d), i \notin Instructions(d) PROVE FALSE
  OBVIOUS
<1>3. i > 1 /\ i - 1 \in Instructions(d) /\ IsStateful(d[i - 1])
  BY <1>1, <1>2, InstructionsProperties
<1>4. NextInstruction(d, i - 1) = i + 1
  BY <1>2, <1>3 DEF NextInstruction
<1>5. i + 1 \in Instructions(d) /\ i + 1 <= Len(d)
  BY <1>2, <1>3, <1>4, <1>1, InstructionsProperties
<1>6. IsWord(d[i + 1])
  BY <1>1, <1>2, <1>5 DEF Sound, WordsBefore
<1> QED
  BY <1>6, <1>2 DEF IsWord, IsNumber

LEMMA FlowProperties ==
  ASSUME NEW d \in Seq(Cell), NEW i \in 1 .. Len(d), Sound(d)
  PROVE  /\ IsPrimitive(d[i], "branch") => Flow(d, i) = <<Target(d, i)>>
         /\ IsPrimitive(d[i], "branchif") => Flow(d, i) = <<i + 2, Target(d, i)>>
         /\ ~IsBranch(d[i]) => Flow(d, i) = <<NextInstruction(d, i)>>
         /\ IsBranch(d[i]) => NextInstruction(d, i) = i + 2
         /\ IsBranch(d[i]) <=> IsPrimitive(d[i], "branch") \/ IsPrimitive(d[i], "branchif")
         /\ IsPrimitive(d[i], "branch") => ~IsPrimitive(d[i], "branchif")
<1>1. Len(d) \in Nat /\ DOMAIN d = 1 .. Len(d)
  BY LenProperties
<1>2. /\ IsBranch(d[i]) <=> IsPrimitive(d[i], "branch") \/ IsPrimitive(d[i], "branchif")
      /\ IsPrimitive(d[i], "branch") => ~IsPrimitive(d[i], "branchif")
      /\ IsBranch(d[i]) => IsStateful(d[i])
  BY DEF IsPrimitive, IsBranch, IsStateful, StatefulPrimitives
<1>3. ASSUME IsBranch(d[i]) PROVE Target(d, i) = i + 1 + d[i + 1].n
  <2>1. i + 1 \in 1 .. Len(d) /\ IsNumber(d[i + 1])
    BY <1>1, <1>3 DEF Sound, Good, GoodBranch, BranchesOf
  <2>2. d[i + 1] \in Cell
    BY <2>1, ElementOfSeq
  <2>3. d[i + 1].n \in Int
    BY <2>1, <2>2 DEF Cell, IsNumber, NumCell, WordCell, PrimCell, LocalCell, UndefCell
  <2>4. i \in Instructions(d)
    BY <1>1, <1>3, BranchesAreInstructions DEF BranchesOf
  <2>5. i + 1 + d[i + 1].n \in Range(Flow(d, i))
    BY <1>2, <1>3 DEF Flow, Range
  <2>6. i + 1 + d[i + 1].n \in 1 .. Len(d) + 2
    BY <1>1, <2>4, <2>5, InstructionsProperties DEF Sound, WellFormed
  <2>7. i + d[i + 1].n \in -MaxShort - 1 .. MaxShort
    BY <1>1, <2>3, <2>6, ShortAssumption DEF Sound
  <2>8. ToShort(i + d[i + 1].n) = i + d[i + 1].n
    BY <2>7, ShortKept
  <2>9. Target(d, i) = i + d[i + 1].n + 1
    BY <2>8 DEF Target
  <2> QED
    BY <2>3, <2>9
<1> QED
  BY <1>2, <1>3 DEF Flow, NextInstruction

LEMMA SoundProperties ==
  ASSUME NEW d \in Seq(Cell), Sound(d)
  PROVE  /\ BranchesOf(d) \subseteq Instructions(d)
         /\ Leaders(d) \subseteq Instructions(d)
         /\ \A i \in BranchesOf(d) : Target(d, i) \in Leaders(d)
         /\ \A i \in BranchesOf(d) : d[i].p = "branchif" => i + 2 \in Leaders(d)
<1>1. Len(d) \in Nat /\ DOMAIN d = 1 .. Len(d)
  BY LenProperties
<1>2. \A i \in BranchesOf(d) : i \in 1 .. Len(d) /\ i < Len(d) /\ IsBranch(d[i]) /\ IsNumber(d[i + 1])
  BY <1>1 DEF Sound, Good, GoodBranch, BranchesOf
<1>3. \A i \in BranchesOf(d) : i \in Instructions(d)
  BY BranchesAreInstructions
<1>4. ASSUME NEW i \in BranchesOf(d)
      PROVE  Target(d, i) \in Instructions(d) /\ (d[i].p = "branchif" => i + 2 \in Instructions(d))
  <2>1. \A j \in Range(Flow(d, i)) : j \in Instructions(d)
    BY <1>1, <1>2, <1>3 DEF Sound, WellFormed
  <2>2. CASE IsPrimitive(d[i], "branch")
    <3>1. Flow(d, i) = <<Target(d, i)>> /\ d[i].p # "branchif"
      BY <2>2, <1>2, FlowProperties DEF IsPrimitive, Sound
    <3>2. Target(d, i) \in Range(Flow(d, i))
      BY <3>1 DEF Range
    <3> QED
      BY <2>1, <3>1, <3>2
  <2>3. CASE IsPrimitive(d[i], "branchif")
    <3>1. Flow(d, i) = <<i + 2, Target(d, i)>>
      BY <2>3, <1>2, FlowProperties DEF Sound
    <3>2. Target(d, i) \in Range(Flow(d, i)) /\ i + 2 \in Range(Flow(d, i))
      BY <3>1 DEF Range
    <3> QED
      BY <2>1, <3>2
  <2> QED
    BY <1>2, <2>2, <2>3, FlowProperties DEF Sound
<1>5. 1 \in Instructions(d)
  BY <1>1, InstructionsProperties
<1> QED
  BY <1>3, <1>4, <1>5 DEF Leaders

\* The block of the next instruction.
LEMMA NextBlock ==
  ASSUME NEW d \in Seq(Cell), Sound(d),
         NEW i \in Instructions(d), i <= Len(d)
  PROVE  LET n == NextInstruction(d, i)
         IN  /\ n \in Instructions(d) /\ n \in 1 .. Len(d) + 1 /\ i < n
             /\ BlockAt(d, n) = IF n \in Leaders(d) THEN BlockAt(d, i) + 1 ELSE BlockAt(d, i)
<1> DEFINE n == NextInstruction(d, i)
<1>1. Len(d) \in Nat /\ DOMAIN d = 1 .. Len(d)
  BY LenProperties
<1>2. i \in 1 .. Len(d) /\ n \in Instructions(d)
  BY <1>1, InstructionsProperties
<1>3. n \in 1 .. Len(d) + 1 /\ i < n
  BY <1>1, <1>2 DEF NextInstruction, Sound, WordsBefore
<1>4. \A l \in Leaders(d) : l \in Instructions(d) /\ (i < l => n <= l)
  BY <1>1, <1>2, SoundProperties, InstructionsProperties
<1>5. \A l \in Leaders(d) : l \in Nat
  BY <1>1, LeadersProperties DEF Sound
<1> HIDE DEF n
<1>6. \A l \in Leaders(d) : ~(i < l /\ l < n)
  BY <1>3, <1>4, <1>5
<1>7. BlockAt(d, n) = IF n \in Leaders(d) THEN BlockAt(d, i) + 1 ELSE BlockAt(d, i)
  BY <1>1, <1>2, <1>3, <1>6, BlockAtProperties DEF Sound
<1> QED
  BY <1>2, <1>3, <1>7 DEF n

-----------------------------------------------------------------------------
(***************************************************************************)
(* The instructions of blocks.                                             *)
(***************************************************************************)
Code        == WordCell \cup PrimCell \cup LocalCell \cup {Exit}
Instruction == [cell : Code, operand : Cell, to : Seq(Nat), at : Nat]
ReturnInstr == Instr(Exit, Undef, <<>>, 0)

LEMMA InstrProperties ==
  ASSUME NEW c \in Code, NEW operand \in Cell, NEW to \in Seq(Nat), NEW at \in Nat
  PROVE  /\ Instr(c, operand, to, at) \in Instruction
         /\ Instr(c, operand, to, at).cell = c
         /\ Instr(c, operand, to, at).operand = operand
         /\ Instr(c, operand, to, at).to = to
         /\ Instr(c, operand, to, at).at = at
BY DEF Instr, Instruction

LEMMA CodeProperties ==
  /\ \A c \in Cell : IsWord(c) => c \in Code
  /\ Undef \in Cell /\ Exit \in Code /\ PrimXt("branch") \in Code
  /\ IsBranch(PrimXt("branch")) /\ ~IsBranch(Exit) /\ \A c \in Cell : c # Exit
  /\ Undef.kind # "word" /\ Exit.kind # "word" /\ PrimXt("branch").kind # "word"
<1>1. Undef \in Cell
  BY DEF Undef, Cell, UndefCell
<1>2. PrimXt("branch") \in Code
  BY DEF PrimXt, Code, PrimCell, Primitives, StatefulPrimitives
<1>3. \A c \in Cell : IsWord(c) => c \in Code
  BY DEF IsWord, Code, Cell, NumCell, WordCell, PrimCell, LocalCell, UndefCell
<1>4. \A c \in Cell : c # Exit
  BY DEF Exit, Cell, NumCell, WordCell, PrimCell, LocalCell, UndefCell
<1> QED
  BY <1>1, <1>2, <1>3, <1>4 DEF Code, Exit, IsBranch, PrimXt, Undef

LEMMA AddedProperties ==
  /\ ReturnInstr \in Instruction
  /\ ReturnInstr.cell = Exit /\ ReturnInstr.operand = Undef /\ ReturnInstr.to = <<>>
  /\ ReturnInstr.at = 0
  /\ \A b \in Nat :
       /\ BranchTo(b) \in Instruction
       /\ BranchTo(b).cell = PrimXt("branch") /\ BranchTo(b).operand = Undef
       /\ BranchTo(b).to = <<b>> /\ BranchTo(b).at = 0
<1>1. <<>> \in Seq(Nat) /\ \A b \in Nat : <<b>> \in Seq(Nat)
  OBVIOUS
<1>2. /\ ReturnInstr \in Instruction
      /\ ReturnInstr.cell = Exit /\ ReturnInstr.operand = Undef /\ ReturnInstr.to = <<>>
      /\ ReturnInstr.at = 0
  <2>1. Exit \in Code /\ Undef \in Cell /\ <<>> \in Seq(Nat) /\ 0 \in Nat
    BY <1>1, CodeProperties
  <2>2. ReturnInstr = Instr(Exit, Undef, <<>>, 0)
    BY DEF ReturnInstr
  <2> QED
    BY <2>1, <2>2 DEF Instr, Instruction
<1>3. ASSUME NEW b \in Nat
      PROVE  /\ BranchTo(b) \in Instruction
             /\ BranchTo(b).cell = PrimXt("branch") /\ BranchTo(b).operand = Undef
             /\ BranchTo(b).to = <<b>> /\ BranchTo(b).at = 0
  <2>1. PrimXt("branch") \in Code /\ Undef \in Cell /\ <<b>> \in Seq(Nat) /\ 0 \in Nat
    BY <1>1, CodeProperties
  <2>2. BranchTo(b) = Instr(PrimXt("branch"), Undef, <<b>>, 0)
    BY DEF BranchTo
  <2> QED
    BY <2>1, <2>2 DEF Instr, Instruction
<1> QED
  BY <1>2, <1>3

LEMMA TranslatedProperties ==
  ASSUME NEW d \in Seq(Cell), Good(d), NEW i \in 1 .. Len(d),
         IsWord(d[i]), IsStateful(d[i]) => i < Len(d)
  PROVE  /\ Translated(d, i) \in Instruction
         /\ Translated(d, i).cell = d[i] /\ Translated(d, i).at = i
         /\ Translated(d, i).operand = IF IsStateful(d[i]) THEN d[i + 1] ELSE Undef
         /\ Translated(d, i).to =
              IF IsPrimitive(d[i], "branch") THEN <<BlockAt(d, Target(d, i))>>
              ELSE IF IsPrimitive(d[i], "branchif")
              THEN <<BlockAt(d, i + 2), BlockAt(d, Target(d, i))>>
              ELSE <<>>
         /\ \A t \in 1 .. Len(Translated(d, i).to) :
              Translated(d, i).to[t] \in 1 .. Cardinality(Leaders(d))
<1> DEFINE operand == IF IsStateful(d[i]) THEN d[i + 1] ELSE Undef
           a  == BlockAt(d, Target(d, i))
           b  == BlockAt(d, i + 2)
           to == IF IsPrimitive(d[i], "branch") THEN <<a>>
                 ELSE IF IsPrimitive(d[i], "branchif") THEN <<b, a>> ELSE <<>>
<1>1. Len(d) \in Nat /\ DOMAIN d = 1 .. Len(d) /\ d[i] \in Cell
  BY LenProperties, ElementOfSeq
<1>2. d[i] \in Code /\ operand \in Cell
  <2>1. IsStateful(d[i]) => d[i + 1] \in Cell
    BY <1>1, ElementOfSeq
  <2> QED
    BY <1>1, <2>1, CodeProperties
<1>3. IsBranch(d[i]) => Target(d, i) \in Nat \ {0}
  BY <1>1 DEF Good, GoodBranch, BranchesOf
<1>4. /\ Cardinality(Leaders(d)) \in Nat /\ b \in 1 .. Cardinality(Leaders(d))
      /\ IsBranch(d[i]) => a \in 1 .. Cardinality(Leaders(d))
  BY SMTT(30), <1>1, <1>3, BlockAtProperties
<1>5. Translated(d, i) = Instr(d[i], operand, to, i)
  BY DEF Translated
<1> HIDE DEF a, b
<1>6. to \in Seq(Nat) /\ \A t \in 1 .. Len(to) : to[t] \in 1 .. Cardinality(Leaders(d))
  <2>1. CASE IsPrimitive(d[i], "branch")
    <3>1. to = <<a>> /\ a \in 1 .. Cardinality(Leaders(d))
      BY <2>1, <1>4 DEF IsPrimitive, IsBranch
    <3> QED
      BY <3>1, <1>4
  <2>2. CASE ~IsPrimitive(d[i], "branch") /\ IsPrimitive(d[i], "branchif")
    <3>1. to = <<b, a>> /\ a \in 1 .. Cardinality(Leaders(d))
      BY <2>2, <1>4 DEF IsPrimitive, IsBranch
    <3> QED
      BY <3>1, <1>4
  <2>3. CASE ~IsPrimitive(d[i], "branch") /\ ~IsPrimitive(d[i], "branchif")
    BY <2>3
  <2> QED
    BY <2>1, <2>2, <2>3
<1> HIDE DEF to, operand
<1>7. /\ Translated(d, i) \in Instruction
      /\ Translated(d, i).cell = d[i] /\ Translated(d, i).at = i
      /\ Translated(d, i).operand = operand /\ Translated(d, i).to = to
  BY <1>2, <1>5, <1>6, InstrProperties
<1> QED
  BY <1>6, <1>7 DEF operand, to, a, b

-----------------------------------------------------------------------------
(***************************************************************************)
(* The invariant. A word is not translated, active or graphed.             *)
(***************************************************************************)
Graphed == Range(graphed)

\* Every jump of the blocks bs leads to one of them.
JumpsInside(bs) ==
  \A b \in 1 .. Len(bs) : \A k \in 1 .. Len(bs[b]) :
    \A t \in 1 .. Len(bs[b][k].to) : bs[b][k].to[t] \in 1 .. Len(bs)

Bodies ==
  /\ def \in Programs
  /\ DOMAIN blocks = Words
  /\ visited \subseteq Words
  /\ \A w \in Words : blocks[w] \in Seq(Seq(Instruction)) /\ JumpsInside(blocks[w])
  /\ \A w \in visited : Good(def[w]) /\ Len(blocks[w]) = Cardinality(Leaders(def[w]))

\* The calls that are active are of ever older words.
Frames ==
  /\ calls \in Seq([w : Nat, at : Nat, block : Nat])
  /\ \A k \in 1 .. Len(calls) :
       /\ calls[k].w \in visited \ Graphed
       /\ calls[k].at \in 1 .. Len(def[calls[k].w]) + 1
       /\ calls[k].block \in 1 .. Len(blocks[calls[k].w])
  /\ \A j, k \in 1 .. Len(calls) : j < k => calls[k].w < calls[j].w
  /\ \A w \in visited \ Graphed : \E k \in 1 .. Len(calls) : calls[k].w = w
  /\ graphed \in Seq(visited)
  /\ outcome \in {"running", "done", "aborted", "undefined"}

\* The words the blocks bs of the word w refer to are in G, w itself excepted.
RefersTo(bs, w, G) ==
  \A b \in 1 .. Len(bs) : \A k \in 1 .. Len(bs[b]) :
    \A c \in {bs[b][k].cell, bs[b][k].operand} : c.kind = "word" /\ c.w # w => c.w \in G

References == \A w \in visited : RefersTo(blocks[w], w, Graphed)

\* CalleesFirst: to those that were graphed before.
InOrder(g, bl) ==
  \A k \in 1 .. Len(g) :
    /\ \A j \in 1 .. k - 1 : g[j] # g[k]
    /\ RefersTo(bl[g[k]], g[k], {g[j] : j \in 1 .. k - 1})

Ordered == InOrder(graphed, blocks)

(***************************************************************************)
(* The blocks bs of the definition d while they are filled: the next cell  *)
(* is d[at], its instruction goes into bs[block].                          *)
(***************************************************************************)
Contents(d, bs, at, block) ==
  \A b \in 1 .. Len(bs) : \A k \in 1 .. Len(bs[b]) :
    LET i == bs[b][k].at
    IN  \/ /\ i \in Instructions(d) /\ i < at /\ i <= Len(d)
           /\ bs[b][k] = Translated(d, i) /\ BlockAt(d, i) = b
        \/ bs[b][k] = BranchTo(b + 1) /\ k = Len(bs[b]) /\ k > 1 /\ b < block

Covered(d, bs, at) ==
  \A i \in Instructions(d) : i < at =>
    \E b \in 1 .. Len(bs) : \E k \in 1 .. Len(bs[b]) : bs[b][k].at = i

Unique(bs) ==
  \A b, c \in 1 .. Len(bs) : \A k \in 1 .. Len(bs[b]) : \A n \in 1 .. Len(bs[c]) :
    bs[b][k].at = bs[c][n].at /\ bs[b][k].at # 0 => b = c /\ k = n

\* What comes after the instruction of the i-th cell, at bs[b][k].
FollowedBy(d, bs, at, block, b, k, i) ==
  LET n == NextInstruction(d, i)
  IN  /\ k < Len(bs[b]) =>
           \/ bs[b][k + 1].at = n
           \/ bs[b][k + 1] = BranchTo(b + 1) /\ n \in Leaders(d)
      /\ k = Len(bs[b]) =>
           \/ n = at /\ b = block
           \/ IsBranch(d[i]) /\ b # block

Followed(d, bs, at, block) ==
  \A b \in 1 .. Len(bs) : \A k \in 1 .. Len(bs[b]) :
    bs[b][k].at # 0 => FollowedBy(d, bs, at, block, b, k, bs[b][k].at)

\* Blocks start with their leaders.
Headed(d, bs, at) ==
  \A l \in Leaders(d) : LET b == BlockAt(d, l)
                        IN  IF l < at THEN bs[b] # <<>> /\ bs[b][1].at = l ELSE bs[b] = <<>>

ClosedBefore(bs, block) ==
  \A b \in 1 .. Len(bs) :
    /\ b < block => bs[b] # <<>>
    /\ b > block => bs[b] = <<>>

OneWayOut(bs, block) ==
  \A b \in 1 .. Len(bs) : \A k \in 1 .. Len(bs[b]) :
    IsBranchy(bs[b][k].cell) <=> b # block /\ k = Len(bs[b])

Shape(d, bs, at, block) ==
  /\ block = BlockAt(d, at)
  /\ Contents(d, bs, at, block)
  /\ Covered(d, bs, at)
  /\ Unique(bs)
  /\ Followed(d, bs, at, block)
  /\ Headed(d, bs, at)
  /\ ClosedBefore(bs, block)
  /\ NoDeadCode(d) => OneWayOut(bs, block)

\* Whether a definition is sound is known when all of it has been seen.
Shapes ==
  \A k \in 1 .. Len(calls) :
    LET c == calls[k]
        d == def[c.w]
    IN  /\ c.at \in Instructions(d) /\ WordsBefore(d, c.at)
        /\ Sound(d) => Shape(d, blocks[c.w], c.at, c.block)

\* What SameFlow and BlocksClosed say of a definition and its blocks.
KeepsFlow(d, bs) ==
  \A i \in Instructions(d) \cap DOMAIN d :
    \E b \in DOMAIN bs : \E k \in DOMAIN bs[b] :
      /\ bs[b][k].at = i
      /\ BlockFlow(bs, b, k, d) = Flow(d, i)
      /\ \A c \in DOMAIN bs : \A n \in DOMAIN bs[c] : bs[c][n].at = i => c = b /\ n = k

Closed(bs) ==
  \A b \in DOMAIN bs :
    /\ bs[b] # <<>>
    /\ \A k \in DOMAIN bs[b] : IsBranchy(bs[b][k].cell) <=> k = Len(bs[b])

Finished ==
  \A w \in Graphed :
    WellFormed(def[w]) => /\ KeepsFlow(def[w], blocks[w])
                          /\ NoDeadCode(def[w]) => Closed(blocks[w])

IInv == Bodies /\ Frames /\ References /\ Ordered /\ Shapes /\ Finished

-----------------------------------------------------------------------------
(***************************************************************************)
(* Filling a block.                                                        *)
(***************************************************************************)
\* Blocks of a sound definition that are being filled.
Filled(d, bs, at, block) ==
  /\ d \in Seq(Cell) /\ Sound(d)
  /\ bs \in Seq(Seq(Instruction)) /\ Len(bs) = Cardinality(Leaders(d))
  /\ at \in Instructions(d) /\ at \in 1 .. Len(d) + 1
  /\ Shape(d, bs, at, block)

LEMMA FilledProperties ==
  ASSUME NEW d, NEW bs, NEW at, NEW block, Filled(d, bs, at, block)
  PROVE  /\ Len(d) \in Nat /\ DOMAIN d = 1 .. Len(d)
         /\ Len(bs) \in Nat /\ DOMAIN bs = 1 .. Len(bs)
         /\ block \in 1 .. Len(bs) /\ block = BlockAt(d, at)
         /\ \A b \in 1 .. Len(bs) : bs[b] \in Seq(Instruction) /\ Len(bs[b]) \in Nat
         /\ \A l \in Leaders(d) : l \in 1 .. Len(d) + 1 /\ BlockAt(d, l) \in 1 .. Len(bs)
         /\ \A l \in Leaders(d) : at < l => block < BlockAt(d, l)
         /\ \A b \in 1 .. Len(bs) : bs[b] # <<>> => b <= block
         /\ \A b \in 1 .. Len(bs) : \A k \in 1 .. Len(bs[b]) :
              bs[b][k].at = 0 \/ (bs[b][k].at \in Instructions(d) /\ bs[b][k].at < at)
<1>1. Len(d) \in Nat /\ DOMAIN d = 1 .. Len(d)
  BY LenProperties DEF Filled
<1>2. Len(bs) \in Nat /\ DOMAIN bs = 1 .. Len(bs)
  BY LenProperties DEF Filled
<1>3. \A b \in 1 .. Len(bs) : bs[b] \in Seq(Instruction) /\ Len(bs[b]) \in Nat
  BY ElementOfSeq, LenProperties DEF Filled
<1>4. block = BlockAt(d, at) /\ block \in 1 .. Len(bs)
  BY <1>1, BlockAtProperties DEF Filled, Shape, Sound
<1>5. \A l \in Leaders(d) : l \in 1 .. Len(d) + 1
  BY <1>1, LeadersProperties DEF Filled, Sound
<1>6. \A l \in Leaders(d) : BlockAt(d, l) \in 1 .. Len(bs)
  BY <1>1, <1>5, BlockAtProperties DEF Filled, Sound
<1>7. \A l \in Leaders(d) : at < l => block < BlockAt(d, l)
  BY <1>1, <1>4, BlockAtProperties DEF Filled, Sound
<1>8. \A b \in 1 .. Len(bs) : bs[b] # <<>> => b <= block
  BY <1>2, <1>4 DEF Filled, Shape, ClosedBefore
<1>9. ASSUME NEW b \in 1 .. Len(bs), NEW k \in 1 .. Len(bs[b])
      PROVE  bs[b][k].at = 0 \/ (bs[b][k].at \in Instructions(d) /\ bs[b][k].at < at)
  BY <1>2, AddedProperties DEF Filled, Shape, Contents
<1> QED
  BY <1>1, <1>2, <1>3, <1>4, <1>5, <1>6, <1>7, <1>8, <1>9

LEMMA EnterShape ==
  ASSUME NEW d \in Seq(Cell), Good(d)
  PROVE  Shape(d, NoBlocks(d), 1, 1)
<1> DEFINE N  == Cardinality(Leaders(d))
           bs == NoBlocks(d)
<1>1. Len(d) \in Nat /\ DOMAIN d = 1 .. Len(d)
  BY LenProperties
<1>2. N \in Nat /\ BlockAt(d, 1) = 1 /\ \A l \in Leaders(d) : l \in Nat \ {0} /\ BlockAt(d, l) \in 1 .. N
  BY <1>1, BlockAtProperties, LeadersProperties
<1>3. \A i \in Instructions(d) : ~(i < 1)
  BY <1>1, InstructionsProperties
<1> HIDE DEF N
<1>4. Len(bs) = N /\ \A b \in 1 .. N : bs[b] = <<>> /\ Len(bs[b]) = 0
  BY <1>2 DEF NoBlocks, N
<1> HIDE DEF bs
<1>5. \A b \in 1 .. Len(bs) : \A k \in 1 .. Len(bs[b]) : FALSE
  BY <1>4
<1>6. Contents(d, bs, 1, 1) /\ Unique(bs) /\ Followed(d, bs, 1, 1) /\ OneWayOut(bs, 1)
  BY <1>5 DEF Contents, Unique, Followed, OneWayOut
<1>7. Covered(d, bs, 1)
  BY <1>3 DEF Covered
<1>8. Headed(d, bs, 1)
  BY <1>2, <1>4 DEF Headed
<1>9. ClosedBefore(bs, 1)
  BY <1>2, <1>4 DEF ClosedBefore
<1> QED
  BY <1>2, <1>6, <1>7, <1>8, <1>9 DEF Shape, bs

\* One more instruction.
LEMMA FillShape ==
  ASSUME NEW d, NEW bs, NEW at, NEW block, Filled(d, bs, at, block), at <= Len(d)
  PROVE  LET n      == NextInstruction(d, at)
             leads  == n \in Leaders(d)
             next   == BlockAt(d, n)
             closed == IF leads /\ ~IsBranchy(d[at]) THEN <<BranchTo(next)>> ELSE <<>>
             new    == [bs EXCEPT ![block] = @ \o <<Translated(d, at)>> \o closed]
         IN  Filled(d, new, n, IF leads THEN next ELSE block)
<1> DEFINE n      == NextInstruction(d, at)
           leads  == n \in Leaders(d)
           next   == BlockAt(d, n)
           T      == Translated(d, at)
           closed == IF leads /\ ~IsBranchy(d[at]) THEN <<BranchTo(next)>> ELSE <<>>
           added  == <<T>> \o closed
           new    == [bs EXCEPT ![block] = @ \o added]
           bnew   == IF leads THEN next ELSE block
           m      == Len(bs[block])
           I      == Instructions(d)
\* What there was.
<1>1. /\ Len(d) \in Nat /\ DOMAIN d = 1 .. Len(d)
      /\ Len(bs) \in Nat /\ block \in 1 .. Len(bs) /\ block = BlockAt(d, at)
      /\ \A b \in 1 .. Len(bs) : bs[b] \in Seq(Instruction) /\ Len(bs[b]) \in Nat
      /\ \A l \in Leaders(d) : l \in 1 .. Len(d) + 1 /\ BlockAt(d, l) \in 1 .. Len(bs)
      /\ \A l \in Leaders(d) : at < l => block < BlockAt(d, l)
      /\ \A b \in 1 .. Len(bs) : bs[b] # <<>> => b <= block
      /\ \A b \in 1 .. Len(bs) : \A k \in 1 .. Len(bs[b]) :
           bs[b][k].at = 0 \/ (bs[b][k].at \in I /\ bs[b][k].at < at)
  BY FilledProperties
<1>2. /\ d \in Seq(Cell) /\ Sound(d) /\ Good(d)
      /\ bs \in Seq(Seq(Instruction)) /\ Len(bs) = Cardinality(Leaders(d))
      /\ at \in I /\ at \in 1 .. Len(d)
  BY <1>1 DEF Filled, Sound
<1>3. I \subseteq Nat \ {0}
  BY <1>1, InstructionsProperties
\* The next instruction.
<1>4. /\ n \in I /\ n \in 1 .. Len(d) + 1 /\ at < n
      /\ next = IF leads THEN block + 1 ELSE block
      /\ next \in 1 .. Len(bs)
  <2>1. next \in 1 .. Len(bs)
    BY <1>1, <1>2, NextBlock, BlockAtProperties
  <2> QED
    BY <1>1, <1>2, <2>1, NextBlock
<1>5. \A i \in I : i < n <=> i < at \/ i = at
  <2>1. \A i \in I : at < i => n <= i
    BY <1>1, <1>2, InstructionsProperties
  <2> HIDE DEF n, I
  <2> QED
    BY <1>2, <1>3, <1>4, <2>1
<1>6. bnew = next /\ bnew \in 1 .. Len(bs)
  BY <1>4
\* What is appended.
<1>7. /\ IsWord(d[at]) /\ d[at] \in Cell
      /\ IsStateful(d[at]) => at < Len(d)
  BY SMTT(30), <1>1, <1>2, ElementOfSeq DEF Sound, WordsBefore
<1>8. T \in Instruction /\ T.cell = d[at] /\ T.at = at
  BY <1>2, <1>7, TranslatedProperties
<1>9. /\ BranchTo(next) \in Instruction /\ BranchTo(next).cell = PrimXt("branch")
      /\ BranchTo(next).at = 0
  BY <1>4, <1>1, AddedProperties
<1>10. IsBranchy(PrimXt("branch")) /\ (IsBranchy(d[at]) <=> IsBranch(d[at]))
  BY <1>7, CodeProperties DEF IsBranchy
<1> DEFINE closes == leads /\ ~IsBranch(d[at])
<1>11. /\ added \in Seq(Instruction)
       /\ Len(added) = (IF closes THEN 2 ELSE 1) /\ added[1] = T
       /\ closes => added[2] = BranchTo(next)
  <2> DEFINE e == BranchTo(next)
  <2>1. closed = IF closes THEN <<e>> ELSE <<>>
    BY <1>10, Zenon
  <2>2. e \in Instruction
    BY <1>9
  <2> HIDE DEF T, e, closes, closed
  <2>3. CASE closes
    <3>1. /\ <<T>> \in Seq(Instruction) /\ Len(<<T>>) = 1 /\ <<T>>[1] = T
          /\ closed \in Seq(Instruction) /\ Len(closed) = 1 /\ closed[1] = e
      BY <2>1, <2>2, <2>3, <1>8
    <3> DEFINE t == <<T>>
    <3> HIDE DEF t
    <3>2. added = t \o closed
      BY DEF t
    <3>3. t \in Seq(Instruction) /\ Len(t) = 1 /\ t[1] = T
      BY <3>1 DEF t
    <3>4. /\ added \in Seq(Instruction) /\ Len(added) = 1 + 1
          /\ \A k \in 1 .. 1 + 1 : added[k] = IF k <= 1 THEN t[k] ELSE closed[k - 1]
      BY <3>1, <3>2, <3>3, ConcatProperties
    <3> HIDE DEF added
    <3> QED
      BY <3>1, <3>3, <3>4, <2>3 DEF e
  <2>4. CASE ~closes
    <3>1. added = <<T>>
      BY <2>1, <2>4
    <3> HIDE DEF added
    <3> QED
      BY <3>1, <2>4, <1>8
  <2> QED
    BY <2>3, <2>4
<1> HIDE DEF added, closed
<1>12. /\ new \in Seq(Seq(Instruction)) /\ Len(new) = Len(bs)
       /\ m \in Nat /\ Len(new[block]) = m + Len(added)
       /\ \A c \in 1 .. Len(bs) : c # block => new[c] = bs[c]
       /\ \A k \in 1 .. m : new[block][k] = bs[block][k]
       /\ \A k \in 1 .. Len(added) : new[block][m + k] = added[k]
  <2>1. new = Extend(bs, block, added)
    BY DEF Extend
  <2> DEFINE e == Extend(bs, block, added)
  <2>2. e \in Seq(Seq(Instruction)) /\ IsExtension(e, bs, block, added)
    BY <1>1, <1>2, <1>11, Extended
  <2> HIDE DEF new
  <2> QED
    BY <2>1, <2>2 DEF IsExtension
<1> HIDE DEF new, m, T, next, n, I, bnew
<1>13. /\ Len(new[block]) = (IF closes THEN m + 2 ELSE m + 1)
       /\ new[block][m + 1] = T /\ (closes => new[block][m + 2] = BranchTo(block + 1))
  <2>1. 1 \in 1 .. Len(added) /\ (closes => 2 \in 1 .. Len(added))
    BY <1>11
  <2>2. Len(added) \in {1, 2}
    BY <1>11
  <2> QED
    BY <1>4, <1>11, <1>12, <2>1, <2>2
<1> HIDE DEF closes, leads
\* Every instruction is an old one, the new one or the branch after it.
<1> DEFINE Old(b, k) == /\ k \in 1 .. Len(bs[b]) /\ new[b][k] = bs[b][k]
                        /\ b # block => Len(new[b]) = Len(bs[b])
           Now(b, k) == b = block /\ k = m + 1 /\ new[b][k] = T
           Add(b, k) == b = block /\ k = m + 2 /\ closes /\ new[b][k] = BranchTo(b + 1)
<1>14. ASSUME NEW b \in 1 .. Len(new), NEW k \in 1 .. Len(new[b])
       PROVE  b \in 1 .. Len(bs) /\ (Old(b, k) \/ Now(b, k) \/ Add(b, k))
  <2>1. CASE b # block
    BY <2>1, <1>12
  <2>2. CASE b = block
    <3>1. k \in 1 .. m \/ k = m + 1 \/ (k = m + 2 /\ closes)
      BY <2>2, <1>12, <1>13
    <3>2. m = Len(bs[block])
      BY DEF m
    <3> QED
      BY <2>2, <3>1, <3>2, <1>12, <1>13
  <2> QED
    BY <2>1, <2>2
<1>15. m = Len(bs[block])
  BY DEF m
<1>16. ASSUME NEW b \in 1 .. Len(bs), NEW k \in 1 .. Len(bs[b])
       PROVE  /\ b \in 1 .. Len(new) /\ k \in 1 .. Len(new[b]) /\ new[b][k] = bs[b][k]
              /\ b <= block
  <2>1. bs[b] # <<>> /\ Len(bs[b]) \in Nat
    BY <1>1
  <2>2. b <= block /\ b \in 1 .. Len(new)
    BY <2>1, <1>1, <1>12
  <2>3. CASE b # block
    BY <2>2, <2>3, <1>12
  <2>4. CASE b = block
    <3>1. k \in 1 .. m
      BY <2>4, <1>15
    <3>2. k \in 1 .. Len(new[block]) /\ new[block][k] = bs[block][k]
      BY <3>1, <1>12, <1>13
    <3> QED
      BY <3>2, <2>2, <2>4
  <2> QED
    BY <2>3, <2>4
<1>17. block \in 1 .. Len(new) /\ m + 1 \in 1 .. Len(new[block])
  BY <1>1, <1>12, <1>13
<1>18. bnew = (IF leads THEN block + 1 ELSE block) /\ (closes => leads)
       /\ (leads /\ ~closes => IsBranch(d[at]))
  BY <1>4, <1>6 DEF closes
<1>19. Contents(d, new, n, bnew)
  <2> SUFFICES ASSUME NEW b \in 1 .. Len(new), NEW k \in 1 .. Len(new[b])
               PROVE  LET i == new[b][k].at
                      IN  \/ /\ i \in Instructions(d) /\ i < n /\ i <= Len(d)
                             /\ new[b][k] = Translated(d, i) /\ BlockAt(d, i) = b
                          \/ new[b][k] = BranchTo(b + 1) /\ k = Len(new[b]) /\ k > 1 /\ b < bnew
    BY DEF Contents
  <2>1. CASE Old(b, k)
    <3> DEFINE i == bs[b][k].at
    <3>1. \/ /\ i \in Instructions(d) /\ i < at /\ i <= Len(d)
             /\ bs[b][k] = Translated(d, i) /\ BlockAt(d, i) = b
          \/ bs[b][k] = BranchTo(b + 1) /\ k = Len(bs[b]) /\ k > 1 /\ b < block
      BY <2>1, <1>14 DEF Filled, Shape, Contents
    <3>2. b < block => b < bnew
      BY <1>14, <1>1, <1>18
    <3>3. i \in I /\ i < at => i < n
      BY <1>5
    <3> QED
      BY <2>1, <3>1, <3>2, <3>3, <1>12 DEF I
  <2>2. CASE Now(b, k)
    BY <2>2, <1>1, <1>2, <1>4, <1>8 DEF T, I
  <2>3. CASE Add(b, k)
    BY <2>3, <1>1, <1>12, <1>13, <1>18
  <2> QED
    BY <1>14, <2>1, <2>2, <2>3
<1>20. Covered(d, new, n)
  <2> SUFFICES ASSUME NEW i \in Instructions(d), i < n
               PROVE  \E b \in 1 .. Len(new) : \E k \in 1 .. Len(new[b]) : new[b][k].at = i
    BY DEF Covered
  <2>1. CASE i < at
    <3>1. PICK b \in 1 .. Len(bs) : \E k \in 1 .. Len(bs[b]) : bs[b][k].at = i
      BY <2>1 DEF Filled, Shape, Covered
    <3> QED
      BY <3>1, <1>16
  <2>2. CASE i = at
    BY <2>2, <1>8, <1>13, <1>17
  <2> QED
    BY <2>1, <2>2, <1>5 DEF I
<1>21. Unique(new)
  <2> SUFFICES ASSUME NEW b \in 1 .. Len(new), NEW c \in 1 .. Len(new),
                      NEW k \in 1 .. Len(new[b]), NEW h \in 1 .. Len(new[c]),
                      new[b][k].at = new[c][h].at, new[b][k].at # 0
               PROVE  b = c /\ k = h
    BY DEF Unique
  <2>1. b \in 1 .. Len(bs) /\ c \in 1 .. Len(bs)
    BY <1>14
  <2>2. Old(b, k) => new[b][k].at < at
    BY <2>1, <1>1
  <2>3. Old(c, h) => new[c][h].at < at
    BY <2>1, <1>1
  <2>4. ~Add(b, k) /\ ~Add(c, h)
    BY SMTT(30), <1>1, AddedProperties
  <2>5. at \in Nat
    BY <1>2
  <2>6. CASE Old(b, k) /\ Old(c, h)
    BY <2>6, <2>1 DEF Filled, Shape, Unique
  <2>7. CASE Now(b, k) /\ Now(c, h)
    BY <2>7
  <2> QED
    BY SMTT(30), <1>8, <1>14, <2>2, <2>3, <2>4, <2>5, <2>6, <2>7
<1>22. Followed(d, new, n, bnew)
  <2> SUFFICES ASSUME NEW b \in 1 .. Len(new), NEW k \in 1 .. Len(new[b]), new[b][k].at # 0
               PROVE  FollowedBy(d, new, n, bnew, b, k, new[b][k].at)
    BY DEF Followed
  <2>1. CASE Old(b, k)
    <3> DEFINE i == bs[b][k].at
               N == NextInstruction(d, i)
    <3>1. FollowedBy(d, bs, at, block, b, k, i)
      BY <2>1, <1>14 DEF Filled, Shape, Followed
    <3>2. /\ k < Len(bs[b]) => \/ bs[b][k + 1].at = N
                               \/ bs[b][k + 1] = BranchTo(b + 1) /\ N \in Leaders(d)
          /\ k = Len(bs[b]) => \/ N = at /\ b = block
                               \/ IsBranch(d[i]) /\ b # block
      BY <3>1 DEF FollowedBy
    <3>3. new[b][k].at = i /\ b \in 1 .. Len(bs) /\ k \in 1 .. Len(bs[b]) /\ b <= block
      BY <2>1, <1>14, <1>16
    <3> HIDE DEF i, N
    <3>4. CASE k < Len(bs[b])
      <4>1. k + 1 \in 1 .. Len(bs[b])
        BY <3>3, <3>4, <1>1
      <4>2. new[b][k + 1] = bs[b][k + 1] /\ k + 1 \in 1 .. Len(new[b])
        BY <4>1, <3>3, <1>16
      <4>3. k # Len(new[b])
        <5>1. Len(new[b]) \in Nat
          BY <1>1, <1>12, <1>13
        <5> QED
          BY <5>1, <4>2
      <4>4. new[b][k + 1].at = N \/ (new[b][k + 1] = BranchTo(b + 1) /\ N \in Leaders(d))
        BY <4>2, <3>2, <3>4
      <4> QED
        BY <4>3, <4>4, <3>3 DEF FollowedBy, N
    <3>5. CASE k = Len(bs[b]) /\ b # block
      <4>1. IsBranch(d[i]) /\ Len(new[b]) = k /\ b # bnew
        BY <3>5, <3>2, <3>3, <2>1, <1>1, <1>18
      <4>2. ~(k < Len(new[b]))
        BY <4>1, <3>3
      <4> QED
        BY <4>1, <4>2, <3>3 DEF FollowedBy
    <3>6. CASE k = Len(bs[b]) /\ b = block
      <4>1. N = at /\ new[b][k + 1] = T /\ k # Len(new[b])
        BY <3>6, <3>2, <1>12, <1>13, <1>15
      <4>2. new[b][k + 1].at = N
        BY <4>1, <1>8
      <4> QED
        BY <4>1, <4>2, <3>3 DEF FollowedBy, N
    <3> QED
      BY <3>3, <3>4, <3>5, <3>6, <1>1
  <2>2. CASE Now(b, k)
    <3>1. new[b][k].at = at /\ n = NextInstruction(d, at)
      BY <2>2, <1>8 DEF n
    <3>2. CASE closes
      <4>1. new[b][k + 1] = BranchTo(b + 1) /\ n \in Leaders(d) /\ k # Len(new[b])
        BY <2>2, <3>2, <1>12, <1>13, <1>18 DEF leads
      <4> QED
        BY <4>1, <3>1 DEF FollowedBy
    <3>3. CASE ~closes
      <4>1. k = Len(new[b]) /\ ~(k < Len(new[b]))
        BY <2>2, <3>3, <1>12, <1>13
      <4>2. b = bnew \/ (IsBranch(d[at]) /\ b # bnew)
        BY <2>2, <3>3, <1>1, <1>18
      <4> QED
        BY <4>1, <4>2, <3>1 DEF FollowedBy
    <3> QED
      BY <3>2, <3>3
  <2>3. ~Add(b, k)
    BY <1>1, AddedProperties
  <2> QED
    BY <1>14, <2>1, <2>2, <2>3
<1>23. Headed(d, new, n)
  <2> SUFFICES ASSUME NEW l \in Leaders(d)
               PROVE  LET b == BlockAt(d, l)
                      IN  IF l < n THEN new[b] # <<>> /\ new[b][1].at = l ELSE new[b] = <<>>
    BY DEF Headed
  <2> DEFINE b == BlockAt(d, l)
  <2>1. b \in 1 .. Len(bs) /\ l \in I
    BY <1>1, <1>2, SoundProperties DEF I
  <2>2. IF l < at THEN bs[b] # <<>> /\ bs[b][1].at = l ELSE bs[b] = <<>>
    BY DEF Filled, Shape, Headed
  <2>3. CASE l < at
    <3>1. bs[b] \in Seq(Instruction) /\ bs[b] # <<>>
      BY <2>1, <2>2, <2>3, <1>1
    <3>2. 1 \in 1 .. Len(bs[b])
      BY <3>1, EmptySeq, LenProperties
    <3>3. 1 \in 1 .. Len(new[b]) /\ new[b][1] = bs[b][1]
      BY <2>1, <3>2, <1>16
    <3>4. new[b] # <<>>
      BY <3>3
    <3> QED
      BY <2>1, <2>2, <2>3, <3>3, <3>4, <1>5
  <2>4. CASE l = at
    <3>1. b = block /\ bs[block] = <<>>
      BY <2>2, <2>4, <1>1
    <3>2. m = 0
      BY <3>1, <1>15
    <3>3. 1 \in 1 .. Len(new[b]) /\ new[b][1] = T
      BY <3>1, <3>2, <1>13, <1>17
    <3>4. new[b] # <<>>
      BY <3>3
    <3> QED
      BY <2>1, <2>4, <3>3, <3>4, <1>5, <1>8
  <2>5. CASE ~(l < at) /\ l # at
    <3>1. at < l
      BY <2>1, <2>5, <1>2, <1>3
    <3>2. b # block
      BY <3>1, <2>1, <1>1
    <3>3. new[b] = <<>>
      BY <3>2, <2>1, <2>2, <2>5, <1>12
    <3> QED
      BY <3>3, <2>1, <2>5, <1>5
  <2> QED
    BY <2>3, <2>4, <2>5
<1>24. ClosedBefore(new, bnew)
  <2> SUFFICES ASSUME NEW b \in 1 .. Len(new)
               PROVE  (b < bnew => new[b] # <<>>) /\ (b > bnew => new[b] = <<>>)
    BY DEF ClosedBefore
  <2>1. b \in 1 .. Len(bs) /\ (b < block => bs[b] # <<>>) /\ (b > block => bs[b] = <<>>)
    BY <1>12 DEF Filled, Shape, ClosedBefore
  <2>2. CASE b = block
    <3>1. new[b] # <<>> /\ ~(b > bnew)
      BY <2>2, <1>1, <1>17, <1>18
    <3> QED
      BY <3>1
  <2>3. CASE b # block
    <3>1. new[b] = bs[b]
      BY <2>1, <2>3, <1>12
    <3>2. (b < bnew => b < block) /\ (b > bnew => b > block)
      BY <2>1, <2>3, <1>1, <1>18
    <3> QED
      BY <2>1, <3>1, <3>2
  <2> QED
    BY <2>2, <2>3
<1>25. ASSUME NoDeadCode(d) PROVE OneWayOut(new, bnew)
  <2> SUFFICES ASSUME NEW b \in 1 .. Len(new), NEW k \in 1 .. Len(new[b])
               PROVE  IsBranchy(new[b][k].cell) <=> b # bnew /\ k = Len(new[b])
    BY DEF OneWayOut
  <2>1. CASE Old(b, k)
    <3>1. IsBranchy(bs[b][k].cell) <=> b # block /\ k = Len(bs[b])
      BY <2>1, <1>14, <1>25 DEF Filled, Shape, OneWayOut
    <3>2. b \in 1 .. Len(bs) /\ b <= block
      BY <2>1, <1>14, <1>16
    <3>3. CASE b = block
      BY <3>1, <3>3, <2>1, <1>12, <1>13, <1>15
    <3>4. CASE b # block
      <4>1. b # bnew
        BY <3>2, <3>4, <1>1, <1>18
      <4> QED
        BY <3>1, <3>4, <4>1, <2>1
    <3> QED
      BY <3>3, <3>4
  <2>2. CASE Now(b, k)
    <3>1. IsBranchy(new[b][k].cell) <=> IsBranch(d[at])
      BY <2>2, <1>8, <1>10
    <3>2. IsBranch(d[at]) => leads
      <4>1. IsBranch(d[at]) => n = at + 2
        BY <1>2, FlowProperties DEF n
      <4>2. IsPrimitive(d[at], "branch") => at + 2 \in Leaders(d)
        BY <1>1, <1>2, <1>25 DEF NoDeadCode, I
      <4>3. IsPrimitive(d[at], "branchif") => at + 2 \in Leaders(d)
        BY <1>1, <1>2, SoundProperties DEF IsPrimitive, BranchesOf, IsBranch
      <4> QED
        BY <4>1, <4>2, <4>3, <1>2, FlowProperties DEF leads
    <3>3. k = Len(new[b]) <=> ~closes
      BY <2>2, <1>12, <1>13
    <3>4. closes => ~IsBranch(d[at])
      BY DEF closes
    <3> QED
      BY <2>2, <3>1, <3>2, <3>3, <3>4, <1>1, <1>18
  <2>3. CASE Add(b, k)
    <3>1. IsBranchy(new[b][k].cell)
      BY <2>3, <1>10, <1>14, AddedProperties
    <3> QED
      BY <2>3, <3>1, <1>1, <1>13, <1>18
  <2> QED
    BY <1>14, <2>1, <2>2, <2>3
<1>26. Shape(d, new, n, bnew)
  BY <1>6, <1>19, <1>20, <1>21, <1>22, <1>23, <1>24, <1>25 DEF Shape, next
<1>27. Filled(d, new, n, bnew)
  BY <1>2, <1>4, <1>12, <1>26 DEF Filled, I
<1>28. new = [bs EXCEPT ![block] = @ \o <<Translated(d, at)>> \o closed]
  <2>1. bs[block] \o added = bs[block] \o <<T>> \o closed
    <3>1. bs[block] \in Seq(Instruction) /\ <<T>> \in Seq(Instruction) /\ closed \in Seq(Instruction)
      BY <1>1, <1>8, <1>9 DEF closed
    <3> DEFINE t == <<T>>
               x == bs[block]
    <3> HIDE DEF t, x
    <3>2. x \in Seq(Instruction) /\ t \in Seq(Instruction)
      BY <3>1 DEF x, t
    <3>3. (x \o t) \o closed = x \o (t \o closed)
      BY <3>1, <3>2, ConcatAssociative
    <3> QED
      BY <3>3 DEF added, x, t
  <2> QED
    BY <2>1 DEF new, T
<1> QED
  BY <1>27, <1>28 DEF n, leads, next, closed, bnew

\* The blocks bs with a return after the last one.
LEMMA Returned ==
  ASSUME NEW bs \in Seq(Seq(Instruction)), NEW block, block = Len(bs), block # 0
  PROVE  LET new == [bs EXCEPT ![Len(bs)] = Append(@, ReturnInstr)]
         IN  /\ new \in Seq(Seq(Instruction)) /\ Len(new) = Len(bs)
             /\ Len(new[block]) = Len(bs[block]) + 1
             /\ new[block][Len(bs[block]) + 1] = ReturnInstr
             /\ \A b \in 1 .. Len(bs) :
                  /\ b # block => new[b] = bs[b]
                  /\ \A k \in 1 .. Len(bs[b]) : k \in 1 .. Len(new[b]) /\ new[b][k] = bs[b][k]
<1> DEFINE new == [bs EXCEPT ![Len(bs)] = Append(@, ReturnInstr)]
           xs  == <<ReturnInstr>>
           ext == [bs EXCEPT ![block] = @ \o xs]
           m   == Len(bs[block])
<1>1. /\ Len(bs) \in Nat /\ block \in 1 .. Len(bs)
      /\ \A b \in 1 .. Len(bs) : bs[b] \in Seq(Instruction) /\ Len(bs[b]) \in Nat
  BY LenProperties, ElementOfSeq
<1>2. block = Len(bs)
  OBVIOUS
<1>3. xs \in Seq(Instruction) /\ Len(xs) = 1 /\ xs[1] = ReturnInstr
  <2>1. ReturnInstr \in Instruction
    BY AddedProperties
  <2> QED
    BY <2>1
<1>4. new = ext
  <2>1. bs[block] \o xs = Append(bs[block], ReturnInstr)
    BY <1>1, <1>3, AddedProperties, AppendIsConcat
  <2> QED
    BY <1>2, <2>1
<1> HIDE DEF new, xs
<1>5. /\ ext \in Seq(Seq(Instruction)) /\ Len(ext) = Len(bs)
      /\ m \in Nat /\ Len(ext[block]) = m + Len(xs)
      /\ \A c \in 1 .. Len(bs) : c # block => ext[c] = bs[c]
      /\ \A k \in 1 .. m : ext[block][k] = bs[block][k]
      /\ \A k \in 1 .. Len(xs) : ext[block][m + k] = xs[k]
  <2>1. ext = Extend(bs, block, xs)
    BY DEF Extend
  <2> DEFINE e == Extend(bs, block, xs)
  <2>2. e \in Seq(Seq(Instruction)) /\ IsExtension(e, bs, block, xs)
    BY <1>1, <1>3, Extended
  <2> HIDE DEF ext
  <2> QED
    BY <2>1, <2>2 DEF IsExtension
<1> HIDE DEF ext
<1>6. ext[block][m + 1] = ReturnInstr /\ Len(ext[block]) = m + 1
  BY <1>3, <1>5
<1>7. ASSUME NEW b \in 1 .. Len(bs), NEW k \in 1 .. Len(bs[b])
      PROVE  k \in 1 .. Len(ext[b]) /\ ext[b][k] = bs[b][k]
  BY SMTT(30), <1>1, <1>5, <1>6
<1> QED
  BY <1>2, <1>4, <1>5, <1>6, <1>7 DEF new

LEMMA LastBlock ==
  ASSUME NEW d, NEW bs, NEW block, Filled(d, bs, Len(d) + 1, block)
  PROVE  bs \in Seq(Seq(Instruction)) /\ block = Len(bs) /\ block # 0
<1>1. Len(d) \in Nat /\ DOMAIN d = 1 .. Len(d) /\ block \in 1 .. Len(bs) /\ block = BlockAt(d, Len(d) + 1)
  BY FilledProperties
<1>2. block = Len(bs)
  BY <1>1, BlockAtProperties DEF Filled, Sound
<1> QED
  BY <1>1, <1>2 DEF Filled

LEMMA FinishFlow ==
  ASSUME NEW d, NEW bs, NEW block, Filled(d, bs, Len(d) + 1, block)
  PROVE  KeepsFlow(d, [bs EXCEPT ![Len(bs)] = Append(@, ReturnInstr)])
<1> DEFINE new == [bs EXCEPT ![Len(bs)] = Append(@, ReturnInstr)]
           m   == Len(bs[block])
           I   == Instructions(d)
<1>1. /\ Len(d) \in Nat /\ DOMAIN d = 1 .. Len(d)
      /\ Len(bs) \in Nat /\ block \in 1 .. Len(bs) /\ block = BlockAt(d, Len(d) + 1)
      /\ \A b \in 1 .. Len(bs) : bs[b] \in Seq(Instruction) /\ Len(bs[b]) \in Nat
      /\ \A l \in Leaders(d) : l \in 1 .. Len(d) + 1 /\ BlockAt(d, l) \in 1 .. Len(bs)
      /\ \A b \in 1 .. Len(bs) : bs[b] # <<>> => b <= block
  BY FilledProperties
<1>2. d \in Seq(Cell) /\ Sound(d) /\ Good(d)
  BY DEF Filled, Sound
<1>3. I \subseteq Nat \ {0}
  BY <1>1, InstructionsProperties
<1>4. /\ block = Len(bs)
      /\ new \in Seq(Seq(Instruction)) /\ Len(new) = Len(bs)
      /\ Len(new[block]) = m + 1
      /\ new[block][m + 1] = ReturnInstr
      /\ \A b \in 1 .. Len(bs) :
           /\ b # block => new[b] = bs[b]
           /\ \A k \in 1 .. Len(bs[b]) : k \in 1 .. Len(new[b]) /\ new[b][k] = bs[b][k]
  <2>1. bs \in Seq(Seq(Instruction)) /\ block = Len(bs) /\ block # 0
    BY LastBlock
  <2> QED
    BY <2>1, Returned
<1> HIDE DEF new
<1>5. DOMAIN new = 1 .. Len(bs) /\ \A b \in 1 .. Len(bs) : DOMAIN new[b] = 1 .. Len(new[b])
  BY <1>4, ElementOfSeq, LenProperties
<1>6. ReturnInstr.at = 0 /\ ReturnInstr.cell = Exit /\ ReturnInstr.to = <<>>
  BY AddedProperties
<1>7. ASSUME NEW b \in 1 .. Len(bs), NEW k \in 1 .. Len(new[b])
      PROVE  \/ k \in 1 .. Len(bs[b]) /\ new[b][k] = bs[b][k]
             \/ new[b][k] = ReturnInstr
  <2>1. CASE b # block
    BY <2>1, <1>4
  <2>2. CASE b = block
    <3>1. m \in Nat /\ k \in 1 .. m + 1 /\ Len(bs[b]) = m
      BY <2>2, <1>1, <1>4
    <3> HIDE DEF m
    <3>2. k \in 1 .. m \/ k = m + 1
      BY <3>1
    <3> QED
      BY <2>2, <3>1, <3>2, <1>4
  <2> QED
    BY <2>1, <2>2
\* What is in the blocks.
<1>8. ASSUME NEW b \in 1 .. Len(bs), NEW k \in 1 .. Len(bs[b]), bs[b][k].at # 0
      PROVE  LET i == bs[b][k].at
             IN  /\ i \in I /\ i \in 1 .. Len(d) /\ BlockAt(d, i) = b
                 /\ bs[b][k] = Translated(d, i) /\ Translated(d, i).cell = d[i] /\ d[i] # Exit
                 /\ Translated(d, i).to =
                      IF IsPrimitive(d[i], "branch") THEN <<BlockAt(d, Target(d, i))>>
                      ELSE IF IsPrimitive(d[i], "branchif")
                      THEN <<BlockAt(d, i + 2), BlockAt(d, Target(d, i))>>
                      ELSE <<>>
  <2> DEFINE i == bs[b][k].at
  <2>1. i \in I /\ i <= Len(d) /\ bs[b][k] = Translated(d, i) /\ BlockAt(d, i) = b
    <3>1. \/ /\ i \in Instructions(d) /\ i < Len(d) + 1 /\ i <= Len(d)
             /\ bs[b][k] = Translated(d, i) /\ BlockAt(d, i) = b
          \/ bs[b][k] = BranchTo(b + 1)
      BY DEF Filled, Shape, Contents
    <3>2. b + 1 \in Nat
      BY <1>1
    <3> QED
      BY <1>8, <3>1, <3>2, AddedProperties
  <2> HIDE DEF i
  <2>2. i \in 1 .. Len(d)
    BY <1>1, <1>3, <2>1
  <2>3. d[i] \in Cell /\ IsWord(d[i]) /\ (IsStateful(d[i]) => i < Len(d))
    <3>1. d[i] \in Cell
      BY <1>2, <2>2, ElementOfSeq
    <3>2. WordsBefore(d, Len(d) + 1) /\ i < Len(d) + 1
      BY <1>1, <1>2, <2>2 DEF Sound
    <3> QED
      BY <2>1, <3>1, <3>2 DEF WordsBefore
  <2> QED
    BY <1>2, <2>1, <2>2, <2>3, TranslatedProperties, CodeProperties DEF i
\* Where control enters the blocks.
<1>9. ASSUME NEW l \in Leaders(d) PROVE Entry(new, BlockAt(d, l), d) = l
  <2> DEFINE b == BlockAt(d, l)
  <2>1. IF l < Len(d) + 1 THEN bs[b] # <<>> /\ bs[b][1].at = l ELSE bs[b] = <<>>
    BY DEF Filled, Shape, Headed
  <2>2. b \in 1 .. Len(bs) /\ l \in 1 .. Len(d) + 1
    BY <1>1
  <2>3. CASE l < Len(d) + 1
    <3>1. 1 \in 1 .. Len(bs[b])
      BY <2>1, <2>2, <2>3, <1>1, EmptySeq, LenProperties
    <3>2. 1 \in 1 .. Len(new[b]) /\ new[b][1] = bs[b][1]
      BY <2>2, <3>1, <1>4
    <3>3. new[b][1].at = l /\ new[b][1].cell # Exit
      <4>1. bs[b][1].at = l /\ l # 0
        BY <2>1, <2>2, <2>3
      <4>2. bs[b][1].cell # Exit
        BY <2>2, <3>1, <4>1, <1>8
      <4> QED
        BY <3>2, <4>1, <4>2
    <3>4. new[b] # <<>>
      BY <3>2
    <3> QED
      BY <3>3, <3>4 DEF Entry
  <2>4. CASE ~(l < Len(d) + 1)
    <3>1. l = Len(d) + 1 /\ b = block
      BY <2>2, <2>4, <1>1
    <3>2. bs[block] = <<>>
      BY <2>1, <2>4, <3>1
    <3>3. new[b][1] = ReturnInstr /\ Len(new[b]) = 1
      BY <3>1, <3>2, <1>4
    <3>4. new[b] # <<>>
      BY <3>3
    <3> QED
      BY <3>1, <3>3, <3>4, <1>6 DEF Entry
  <2> QED
    BY <2>3, <2>4
<1> SUFFICES ASSUME NEW i \in I, i \in 1 .. Len(d)
             PROVE  \E b \in DOMAIN new : \E k \in DOMAIN new[b] :
                      /\ new[b][k].at = i
                      /\ BlockFlow(new, b, k, d) = Flow(d, i)
                      /\ \A c \in DOMAIN new : \A n \in DOMAIN new[c] :
                           new[c][n].at = i => c = b /\ n = k
  BY <1>1 DEF KeepsFlow, new
<1>10. PICK b \in 1 .. Len(bs) : \E k \in 1 .. Len(bs[b]) : bs[b][k].at = i
  <2>1. Covered(d, bs, Len(d) + 1)
    BY DEF Filled, Shape
  <2>2. i < Len(d) + 1
    BY <1>1
  <2> QED
    BY <2>1, <2>2 DEF Covered
<1>11. PICK k \in 1 .. Len(bs[b]) : bs[b][k].at = i
  BY <1>10
<1>12. k \in 1 .. Len(new[b]) /\ new[b][k] = bs[b][k] /\ i # 0
  BY <1>3, <1>4
<1>13. ASSUME NEW c \in DOMAIN new, NEW n \in DOMAIN new[c], new[c][n].at = i
       PROVE  c = b /\ n = k
  <2>1. c \in 1 .. Len(bs) /\ n \in 1 .. Len(new[c])
    BY <1>5
  <2>2. n \in 1 .. Len(bs[c]) /\ bs[c][n].at = i
    <3>1. new[c][n].at = i /\ i # 0
      BY <1>12, <1>13
    <3> QED
      BY <2>1, <3>1, <1>6, <1>7
  <2>3. Unique(bs)
    BY DEF Filled, Shape
  <2>4. bs[b][k].at = bs[c][n].at /\ bs[b][k].at # 0
    BY <2>2, <1>11, <1>12
  <2>5. \A j \in 1 .. Len(bs[b]) : \A l \in 1 .. Len(bs[c]) :
          bs[b][j].at = bs[c][l].at /\ bs[b][j].at # 0 => b = c /\ j = l
    BY <2>1, <2>3, Zenon DEF Unique
  <2> QED
    BY <2>2, <2>4, <2>5, <1>11, Zenon
<1> DEFINE n == NextInstruction(d, i)
           to == new[b][k].to
<1>14. /\ to = IF IsPrimitive(d[i], "branch") THEN <<BlockAt(d, Target(d, i))>>
               ELSE IF IsPrimitive(d[i], "branchif")
               THEN <<BlockAt(d, i + 2), BlockAt(d, Target(d, i))>>
               ELSE <<>>
       /\ BlockAt(d, i) = b
  BY <1>8, <1>11, <1>12
<1>15. IsBranch(d[i]) => i \in BranchesOf(d)
  BY <1>1 DEF BranchesOf
<1>16. ASSUME IsPrimitive(d[i], "branch") PROVE BlockFlow(new, b, k, d) = Flow(d, i)
  <2>1. Target(d, i) \in Leaders(d)
    BY <1>2, <1>15, <1>16, SoundProperties DEF IsBranch, IsPrimitive
  <2>2. to = <<BlockAt(d, Target(d, i))>>
    BY <1>14, <1>16
  <2>3. Entry(new, to[1], d) = Target(d, i)
    BY <2>1, <2>2, <1>9
  <2>4. BlockFlow(new, b, k, d) = [t \in DOMAIN to |-> Entry(new, to[t], d)]
    BY <2>2 DEF BlockFlow
  <2>5. BlockFlow(new, b, k, d) = <<Target(d, i)>>
    BY <2>2, <2>3, <2>4
  <2>6. Flow(d, i) = <<Target(d, i)>>
    BY <1>2, <1>16, FlowProperties
  <2> QED
    BY <2>5, <2>6
<1>17. ASSUME IsPrimitive(d[i], "branchif") PROVE BlockFlow(new, b, k, d) = Flow(d, i)
  <2>1. Target(d, i) \in Leaders(d) /\ i + 2 \in Leaders(d)
    BY <1>2, <1>15, <1>17, SoundProperties DEF IsBranch, IsPrimitive
  <2>2. to = <<BlockAt(d, i + 2), BlockAt(d, Target(d, i))>>
    BY <1>14, <1>17 DEF IsPrimitive
  <2>3. Entry(new, to[1], d) = i + 2 /\ Entry(new, to[2], d) = Target(d, i)
    BY <2>1, <2>2, <1>9
  <2>4. BlockFlow(new, b, k, d) = [t \in DOMAIN to |-> Entry(new, to[t], d)]
    BY <2>2 DEF BlockFlow
  <2>5. BlockFlow(new, b, k, d) = <<i + 2, Target(d, i)>>
    BY <2>2, <2>3, <2>4
  <2>6. Flow(d, i) = <<i + 2, Target(d, i)>>
    BY <1>2, <1>17, FlowProperties
  <2> QED
    BY <2>5, <2>6
<1>18. ASSUME ~IsBranch(d[i]) PROVE BlockFlow(new, b, k, d) = Flow(d, i)
  <2>1. to = <<>> /\ Flow(d, i) = <<n>>
    BY <1>2, <1>14, <1>18, FlowProperties
  <2>2. /\ n \in I /\ n \in 1 .. Len(d) + 1
        /\ n \in Leaders(d) => BlockAt(d, n) = b + 1
    BY <1>1, <1>2, <1>14, NextBlock
  <2>3. FollowedBy(d, bs, Len(d) + 1, block, b, k, i)
    BY <1>11, <1>12 DEF Filled, Shape, Followed
  <2>4. k + 1 \in 1 .. Len(new[b]) /\ k # Len(new[b])
        /\ BlockFlow(new, b, k, d) =
             (LET j == new[b][k + 1]
              IN  IF j.at # 0 THEN <<j.at>>
                  ELSE IF j.cell = Exit THEN <<Len(d) + 1>> ELSE <<Entry(new, j.to[1], d)>>)
    <3>1. k < Len(bs[b]) \/ (k = Len(bs[b]) /\ b = block)
      BY <2>3, <1>1, <1>18 DEF FollowedBy
    <3>2. k + 1 \in 1 .. Len(new[b]) /\ k # Len(new[b])
      <4>1. CASE k < Len(bs[b])
        <5>1. k + 1 \in 1 .. Len(bs[b])
          BY <4>1, <1>1
        <5> QED
          BY <5>1, <1>4
      <4>2. CASE k = Len(bs[b]) /\ b = block
        BY <4>2, <1>1, <1>4
      <4> QED
        BY <3>1, <4>1, <4>2
    <3> QED
      BY <2>1, <3>2 DEF BlockFlow
  <2>5. BlockFlow(new, b, k, d) = <<n>>
    <3>1. CASE k < Len(bs[b])
      <4>1. new[b][k + 1] = bs[b][k + 1]
        <5>1. k + 1 \in 1 .. Len(bs[b])
          BY <3>1, <1>1
        <5> QED
          BY <5>1, <1>4
      <4>2. bs[b][k + 1].at = n \/ (bs[b][k + 1] = BranchTo(b + 1) /\ n \in Leaders(d))
        BY <2>3, <3>1 DEF FollowedBy
      <4>3. CASE bs[b][k + 1].at = n
        BY <4>1, <4>3, <2>2, <2>4
      <4>4. CASE bs[b][k + 1] = BranchTo(b + 1) /\ n \in Leaders(d)
        <5>1. Entry(new, b + 1, d) = n
          BY <4>4, <2>2, <1>9
        <5>2. /\ new[b][k + 1].at = 0 /\ new[b][k + 1].cell # Exit
              /\ new[b][k + 1].to = <<b + 1>>
          BY <4>1, <4>4, <1>1, AddedProperties, CodeProperties
        <5> QED
          BY <5>1, <5>2, <2>4
      <4> QED
        BY <4>2, <4>3, <4>4
    <3>2. CASE k = Len(bs[b])
      <4>1. n = Len(d) + 1 /\ b = block
        BY <2>3, <3>2, <1>18 DEF FollowedBy
      <4>2. new[b][k + 1] = ReturnInstr
        BY <3>2, <4>1, <1>4
      <4> QED
        BY <4>1, <4>2, <2>4, <1>6
    <3> QED
      BY <3>1, <3>2, <1>1
  <2> QED
    BY <2>1, <2>5
<1>19. BlockFlow(new, b, k, d) = Flow(d, i)
  BY <1>2, <1>16, <1>17, <1>18, FlowProperties
<1>20. b \in DOMAIN new /\ k \in DOMAIN new[b] /\ new[b][k].at = i
  BY <1>5, <1>11, <1>12
<1> QED
  BY <1>13, <1>19, <1>20

LEMMA FinishClosed ==
  ASSUME NEW d, NEW bs, NEW block, Filled(d, bs, Len(d) + 1, block), NoDeadCode(d)
  PROVE  Closed([bs EXCEPT ![Len(bs)] = Append(@, ReturnInstr)])
<1> DEFINE new == [bs EXCEPT ![Len(bs)] = Append(@, ReturnInstr)]
           m   == Len(bs[block])
<1>1. /\ Len(bs) \in Nat /\ block \in 1 .. Len(bs)
      /\ \A b \in 1 .. Len(bs) : bs[b] \in Seq(Instruction) /\ Len(bs[b]) \in Nat
      /\ \A b \in 1 .. Len(bs) : bs[b] # <<>> => b <= block
  BY FilledProperties
<1>2. /\ block = Len(bs)
      /\ new \in Seq(Seq(Instruction)) /\ Len(new) = Len(bs)
      /\ Len(new[block]) = m + 1
      /\ new[block][m + 1] = ReturnInstr
      /\ \A b \in 1 .. Len(bs) :
           /\ b # block => new[b] = bs[b]
           /\ \A k \in 1 .. Len(bs[b]) : k \in 1 .. Len(new[b]) /\ new[b][k] = bs[b][k]
  <2>1. bs \in Seq(Seq(Instruction)) /\ block = Len(bs) /\ block # 0
    BY LastBlock
  <2> QED
    BY <2>1, Returned
<1> HIDE DEF new
<1>3. DOMAIN new = 1 .. Len(bs) /\ \A b \in 1 .. Len(bs) : DOMAIN new[b] = 1 .. Len(new[b])
  BY <1>2, ElementOfSeq, LenProperties
<1>4. \A b \in 1 .. Len(bs) : b < block => bs[b] # <<>>
  BY DEF Filled, Shape, ClosedBefore
<1>5. \A b \in 1 .. Len(bs) : \A k \in 1 .. Len(bs[b]) :
        IsBranchy(bs[b][k].cell) <=> b # block /\ k = Len(bs[b])
  BY DEF Filled, Shape, OneWayOut
<1>6. IsBranchy(ReturnInstr.cell)
  BY AddedProperties DEF IsBranchy
<1>7. ASSUME NEW b \in 1 .. Len(bs)
      PROVE  /\ new[b] # <<>>
             /\ \A k \in 1 .. Len(new[b]) : IsBranchy(new[b][k].cell) <=> k = Len(new[b])
  <2>1. CASE b # block
    <3>1. new[b] = bs[b] /\ b < block
      BY <2>1, <1>1, <1>2
    <3> QED
      BY <2>1, <3>1, <1>4, <1>5
  <2>2. CASE b = block
    <3>1. new[b] # <<>>
      BY <2>2, <1>1, <1>2
    <3>2. ASSUME NEW k \in 1 .. Len(new[b])
          PROVE  IsBranchy(new[b][k].cell) <=> k = Len(new[b])
      <4>1. CASE k = m + 1
        BY <2>2, <4>1, <1>2, <1>6
      <4>2. CASE k # m + 1
        <5>1. k \in 1 .. Len(bs[b]) /\ Len(new[b]) = m + 1
          BY <2>2, <4>2, <1>1, <1>2
        <5>2. new[b][k] = bs[b][k]
          BY <5>1, <1>2
        <5>3. ~IsBranchy(bs[b][k].cell)
          BY <2>2, <5>1, <1>5, Zenon
        <5> QED
          BY <4>2, <5>1, <5>2, <5>3
      <4> QED
        BY <4>1, <4>2
    <3> QED
      BY <3>1, <3>2
  <2> QED
    BY <2>1, <2>2
<1>8. Closed(new)
  BY <1>3, <1>7 DEF Closed
<1> QED
  BY <1>8 DEF new

-----------------------------------------------------------------------------
(***************************************************************************)
(* The invariant holds initially, and after the steps that visit a word or *)
(* stop.                                                                   *)
(***************************************************************************)
Frame == [w : Nat, at : Nat, block : Nat]

LEMMA StateProperties ==
  ASSUME Bodies, Frames
  PROVE  /\ Words \subseteq Nat \ {0}
         /\ \A w \in Words :
              /\ def[w] \in Seq(Cell) /\ Len(def[w]) \in Nat /\ DOMAIN def[w] = 1 .. Len(def[w])
              /\ blocks[w] \in Seq(Seq(Instruction)) /\ Len(blocks[w]) \in Nat
              /\ \A i \in 1 .. Len(def[w]) :
                   def[w][i] \in Cell /\ (def[w][i].kind = "word" => def[w][i].w \in 1 .. w)
         /\ calls \in Seq(Frame) /\ Len(calls) \in Nat /\ DOMAIN calls = 1 .. Len(calls)
         /\ graphed \in Seq(visited) /\ Len(graphed) \in Nat /\ DOMAIN graphed = 1 .. Len(graphed)
         /\ \A w : w \in Graphed <=> \E k \in 1 .. Len(graphed) : graphed[k] = w
         /\ Graphed \subseteq visited
<1>1. def \in Seq(Seq(Cell)) /\ \A w \in Words : \A i \in DOMAIN def[w] :
        def[w][i].kind = "word" => def[w][i].w \in 1 .. w
  BY ProgramsAssumption DEF Bodies, Words
<1>2. Len(def) \in Nat /\ Words = 1 .. Len(def)
  BY <1>1, LenProperties DEF Words
<1>3. ASSUME NEW w \in Words
      PROVE  /\ def[w] \in Seq(Cell) /\ Len(def[w]) \in Nat /\ DOMAIN def[w] = 1 .. Len(def[w])
             /\ blocks[w] \in Seq(Seq(Instruction)) /\ Len(blocks[w]) \in Nat
             /\ \A i \in 1 .. Len(def[w]) :
                  def[w][i] \in Cell /\ (def[w][i].kind = "word" => def[w][i].w \in 1 .. w)
  <2>1. def[w] \in Seq(Cell)
    BY <1>1, <1>2, ElementOfSeq
  <2>2. Len(def[w]) \in Nat /\ DOMAIN def[w] = 1 .. Len(def[w])
    BY <2>1, LenProperties
  <2>3. \A i \in 1 .. Len(def[w]) : def[w][i] \in Cell
    BY <2>1, ElementOfSeq
  <2>4. blocks[w] \in Seq(Seq(Instruction)) /\ Len(blocks[w]) \in Nat
    BY LenProperties DEF Bodies
  <2> QED
    BY <1>1, <2>1, <2>2, <2>3, <2>4
<1>4. calls \in Seq(Frame) /\ Len(calls) \in Nat /\ DOMAIN calls = 1 .. Len(calls)
  BY LenProperties DEF Frames, Frame
<1>5. graphed \in Seq(visited) /\ Len(graphed) \in Nat /\ DOMAIN graphed = 1 .. Len(graphed)
  BY LenProperties DEF Frames
<1>6. \A w : w \in Graphed <=> \E k \in 1 .. Len(graphed) : graphed[k] = w
  BY <1>5 DEF Graphed, Range
<1>7. Graphed \subseteq visited
  BY <1>5, <1>6, ElementOfSeq
<1>8. Words \subseteq Nat \ {0}
  BY <1>2
<1> QED
  BY <1>3, <1>4, <1>5, <1>6, <1>7, <1>8

LEMMA OrderKept ==
  ASSUME Ordered, graphed' = graphed,
         \A k \in 1 .. Len(graphed) : blocks'[graphed[k]] = blocks[graphed[k]]
  PROVE  Ordered'
<1>1. InOrder(graphed, blocks')
  BY DEF Ordered, InOrder
<1> QED
  BY <1>1 DEF Ordered

LEMMA InitIInv == Init => IInv
<1> SUFFICES ASSUME Init PROVE IInv
  OBVIOUS
<1>1. /\ DOMAIN blocks = Words /\ \A w \in Words : blocks[w] = <<>>
      /\ calls = <<>> /\ graphed = <<>> /\ visited = {} /\ outcome = "running"
      /\ Len(calls) = 0 /\ Len(graphed) = 0
  BY DEF Init
<1>2. \A bs : bs = <<>> => bs \in Seq(Seq(Instruction)) /\ JumpsInside(bs)
  BY DEF JumpsInside
<1>3. Bodies
  BY <1>1, <1>2 DEF Bodies, Init
<1>4. Frames
  BY <1>1 DEF Frames
<1>5. Graphed = {}
  BY <1>1 DEF Graphed, Range
<1> QED
  BY <1>1, <1>3, <1>4, <1>5 DEF IInv, References, Ordered, InOrder, Shapes, Finished

\* Steps that stop translation.
LEMMA StopKeeps ==
  ASSUME IInv, UNCHANGED <<def, blocks, visited, calls, graphed>>,
         outcome' \in {"running", "done", "aborted", "undefined"}
  PROVE  IInv'
<1>1. Words' = Words /\ Graphed' = Graphed
  BY DEF Words, Graphed
<1>2. Bodies'
  BY <1>1 DEF IInv, Bodies
<1>3. Frames'
  BY <1>1 DEF IInv, Frames
<1>4. References' /\ Ordered' /\ Shapes' /\ Finished'
  BY <1>1 DEF IInv, References, Ordered, Shapes, Finished
<1> QED
  BY <1>2, <1>3, <1>4 DEF IInv

\* A word that is older than all active ones gets its blocks.
LEMMA TranslateKeeps ==
  ASSUME IInv, NEW w \in Words \ visited,
         \A k \in 1 .. Len(calls) : w < calls[k].w,
         Translate(w, calls)
  PROVE  IInv'
<1>1. CASE \E how \in ScanFails(def[w]) : Stop(how)
  <2>1. PICK how \in {"aborted", "undefined"} : Stop(how)
    BY <1>1, ScanSucceeds
  <2>2. UNCHANGED <<def, blocks, visited, calls, graphed>> /\ outcome' = how
    BY <2>1 DEF Stop
  <2>3. outcome' \in {"running", "done", "aborted", "undefined"}
    BY <2>2
  <2> QED
    BY <2>2, <2>3, StopKeeps
<1> DEFINE d  == def[w]
           bs == NoBlocks(d)
           n  == Len(calls)
<1>2. CASE /\ ScanFails(d) = {}
           /\ visited' = visited \cup {w}
           /\ blocks' = [blocks EXCEPT ![w] = bs]
           /\ calls' = Append(calls, Enter(w))
           /\ UNCHANGED <<def, graphed, outcome>>
  <2>1. Bodies /\ Frames /\ Words' = Words /\ Graphed' = Graphed
    BY <1>2 DEF IInv, Words, Graphed
  <2>2. /\ Words \subseteq Nat \ {0}
        /\ d \in Seq(Cell) /\ Len(d) \in Nat /\ DOMAIN d = 1 .. Len(d)
        /\ calls \in Seq(Frame) /\ n \in Nat
        /\ Graphed \subseteq visited /\ visited \subseteq Words
    BY <2>1, StateProperties DEF Bodies
  <2>3. Good(d)
    BY <1>2, ScanSucceeds
  <2>4. /\ Cardinality(Leaders(d)) \in Nat \ {0}
        /\ bs \in Seq(Seq(Instruction)) /\ Len(bs) = Cardinality(Leaders(d))
        /\ \A b \in 1 .. Len(bs) : bs[b] = <<>>
    <3>1. Cardinality(Leaders(d)) \in Nat \ {0}
      BY <2>2, <2>3, BlockAtProperties
    <3> DEFINE N == Cardinality(Leaders(d))
               T == Seq(Instruction)
    <3>2. <<>> \in T
      OBVIOUS
    <3>3. bs = [b \in 1 .. N |-> <<>>]
      BY DEF NoBlocks
    <3> HIDE DEF N, T, bs
    <3>4. bs \in Seq(T) /\ Len(bs) = N /\ \A b \in 1 .. N : bs[b] = <<>>
      BY <3>1, <3>2, <3>3 DEF N
    <3> QED
      BY <3>1, <3>4 DEF N, T
  <2>5. JumpsInside(bs) /\ RefersTo(bs, w, Graphed)
    BY <2>4 DEF JumpsInside, RefersTo
  <2>6. Shape(d, bs, 1, 1)
    BY <2>2, <2>3, EnterShape
  <2>7. 1 \in Instructions(d) /\ WordsBefore(d, 1)
    BY <2>2, InstructionsProperties DEF WordsBefore
  <2> HIDE DEF bs
  <2>8. /\ blocks'[w] = bs /\ DOMAIN blocks' = Words
        /\ \A v \in Words : v # w => blocks'[v] = blocks[v]
    BY <1>2, <2>1 DEF Bodies
  <2>9. Bodies'
    <3>1. def' \in Programs /\ visited' \subseteq Words'
      BY <1>2, <2>1, <2>2 DEF Bodies
    <3>2. \A v \in Words' : blocks'[v] \in Seq(Seq(Instruction)) /\ JumpsInside(blocks'[v])
      BY <2>1, <2>4, <2>5, <2>8 DEF Bodies
    <3>3. \A v \in visited' : Good(def'[v]) /\ Len(blocks'[v]) = Cardinality(Leaders(def'[v]))
      BY <1>2, <2>1, <2>2, <2>3, <2>4, <2>8 DEF Bodies
    <3> QED
      BY <2>1, <2>8, <3>1, <3>2, <3>3 DEF Bodies
  <2>10. Enter(w) \in Frame /\ Enter(w).w = w /\ Enter(w).at = 1 /\ Enter(w).block = 1
    BY <2>2 DEF Enter, Frame
  <2>11. /\ calls' \in Seq(Frame) /\ Len(calls') = n + 1
         /\ \A k \in 1 .. n : calls'[k] = calls[k]
         /\ calls'[n + 1] = Enter(w)
    BY <1>2, <2>2, <2>10, AppendProperties
  <2>12. ASSUME NEW k \in 1 .. n
         PROVE  /\ calls[k].w \in visited \ Graphed /\ calls[k].w # w
                /\ calls[k].at \in 1 .. Len(def[calls[k].w]) + 1
                /\ calls[k].block \in 1 .. Len(blocks[calls[k].w])
    BY <2>1 DEF Frames
  <2>13. \A k \in 1 .. n + 1 : k \in 1 .. n \/ k = n + 1
    BY <2>2
  <2>14. Frames'
    <3>1. ASSUME NEW k \in 1 .. Len(calls')
          PROVE  /\ calls'[k].w \in visited' \ Graphed'
                 /\ calls'[k].at \in 1 .. Len(def'[calls'[k].w]) + 1
                 /\ calls'[k].block \in 1 .. Len(blocks'[calls'[k].w])
      <4>1. CASE k \in 1 .. n
        <5>1. calls'[k] = calls[k] /\ calls[k].w \in Words
          BY <4>1, <2>2, <2>11, <2>12
        <5> QED
          BY <4>1, <5>1, <1>2, <2>1, <2>8, <2>12
      <4>2. CASE k = n + 1
        BY <4>2, <1>2, <2>1, <2>2, <2>4, <2>8, <2>10, <2>11
      <4> QED
        BY <4>1, <4>2, <2>11, <2>13
    <3>2. ASSUME NEW j \in 1 .. Len(calls'), NEW k \in 1 .. Len(calls'), j < k
          PROVE  calls'[k].w < calls'[j].w
      <4>1. j \in 1 .. n
        BY <3>2, <2>2, <2>11
      <4>2. CASE k \in 1 .. n
        BY <4>1, <4>2, <3>2, <2>1, <2>11 DEF Frames
      <4>3. CASE k = n + 1
        BY <4>1, <4>3, <2>10, <2>11
      <4> QED
        BY <4>2, <4>3, <2>11, <2>13
    <3>3. ASSUME NEW v \in visited' \ Graphed' PROVE \E k \in 1 .. Len(calls') : calls'[k].w = v
      <4>1. CASE v = w
        <5>1. n + 1 \in 1 .. Len(calls')
          BY <2>2, <2>11
        <5> QED
          BY <4>1, <5>1, <2>10, <2>11
      <4>2. CASE v # w
        <5>1. PICK k \in 1 .. n : calls[k].w = v
          BY <4>2, <1>2, <2>1 DEF Frames
        <5>2. k \in 1 .. Len(calls')
          BY <2>2, <2>11
        <5> QED
          BY <5>1, <5>2, <2>11
      <4> QED
        BY <4>1, <4>2
    <3>4. graphed' \in Seq(visited')
      <4>1. graphed \in Seq(visited) /\ visited \subseteq visited'
        BY <1>2, <2>1 DEF Frames
      <4> QED
        BY <4>1, <1>2
    <3>5. outcome' \in {"running", "done", "aborted", "undefined"}
      BY <1>2, <2>1 DEF Frames
    <3> QED
      BY <2>11, <3>1, <3>2, <3>3, <3>4, <3>5 DEF Frames, Frame
  <2>15. References'
    BY <1>2, <2>1, <2>2, <2>5, <2>8 DEF IInv, References
  <2>16. \A k \in 1 .. Len(graphed) : graphed[k] \in Words /\ graphed[k] # w
    BY <2>1, <2>2, StateProperties
  <2>17. Ordered'
    <3>1. \A k \in 1 .. Len(graphed) : blocks'[graphed[k]] = blocks[graphed[k]]
      BY <2>8, <2>16
    <3>2. graphed' = graphed /\ Ordered
      BY <1>2 DEF IInv
    <3> QED
      BY <3>1, <3>2, OrderKept
  <2>18. Shapes'
    <3> SUFFICES ASSUME NEW k \in 1 .. Len(calls')
                 PROVE  LET c == calls'[k]
                            e == def'[c.w]
                        IN  /\ c.at \in Instructions(e) /\ WordsBefore(e, c.at)
                            /\ Sound(e) => Shape(e, blocks'[c.w], c.at, c.block)
      BY DEF Shapes
    <3>1. CASE k \in 1 .. n
      <4>1. calls'[k] = calls[k] /\ blocks'[calls[k].w] = blocks[calls[k].w]
        BY <3>1, <2>2, <2>8, <2>11, <2>12
      <4> QED
        BY <3>1, <4>1, <1>2 DEF IInv, Shapes
    <3>2. CASE k = n + 1
      BY <3>2, <1>2, <2>6, <2>7, <2>8, <2>10, <2>11
    <3> QED
      BY <3>1, <3>2, <2>11, <2>13
  <2>19. Finished'
    BY <1>2, <2>1, <2>2, <2>8 DEF IInv, Finished
  <2> QED
    BY <2>9, <2>14, <2>15, <2>17, <2>18, <2>19 DEF IInv
<1> QED
  BY <1>1, <1>2 DEF Translate

LEMMA CurrentProperties ==
  ASSUME IInv, calls # <<>>
  PROVE  /\ Len(calls) \in Nat \ {0} /\ Current = calls[Len(calls)] /\ Current \in Frame
         /\ Word \in visited \ Graphed /\ Word \in Words /\ Good(Body)
         /\ Body \in Seq(Cell) /\ Len(Body) \in Nat /\ DOMAIN Body = 1 .. Len(Body)
         /\ blocks[Word] \in Seq(Seq(Instruction)) /\ Len(blocks[Word]) \in Nat
         /\ Len(blocks[Word]) = Cardinality(Leaders(Body))
         /\ At \in 1 .. Len(Body) + 1 /\ Current.block \in 1 .. Len(blocks[Word])
         /\ At \in Instructions(Body) /\ WordsBefore(Body, At)
         /\ Sound(Body) => Filled(Body, blocks[Word], At, Current.block)
         /\ \A k \in 1 .. Len(calls) - 1 : calls[k] \in Frame /\ Word < calls[k].w
         /\ \A v \in visited \ Graphed : v = Word \/ Word < v
<1>1. /\ Bodies /\ Frames /\ Shapes /\ calls \in Seq(Frame)
      /\ graphed \in Seq(visited)
  BY StateProperties DEF IInv
<1>2. Len(calls) \in Nat \ {0} /\ Current = calls[Len(calls)] /\ Current \in Frame
  BY <1>1, FrontProperties DEF Current
<1> DEFINE n == Len(calls)
<1>3. /\ Word \in visited \ Graphed /\ Word \in Words
      /\ At \in 1 .. Len(Body) + 1 /\ Current.block \in 1 .. Len(blocks[Word])
  BY <1>1, <1>2 DEF Frames, Word, At, Body, Bodies
<1>4. /\ Body \in Seq(Cell) /\ Len(Body) \in Nat /\ DOMAIN Body = 1 .. Len(Body)
      /\ blocks[Word] \in Seq(Seq(Instruction)) /\ Len(blocks[Word]) \in Nat
  BY <1>1, <1>3, StateProperties DEF Body
<1>5. Good(Body) /\ Len(blocks[Word]) = Cardinality(Leaders(Body))
  BY <1>1, <1>3 DEF Bodies, Body
<1>6. /\ At \in Instructions(Body) /\ WordsBefore(Body, At)
      /\ Sound(Body) => Shape(Body, blocks[Word], At, Current.block)
  BY <1>1, <1>2 DEF Shapes, Body, Word, At
<1>7. \A k \in 1 .. n - 1 : calls[k] \in Frame /\ Word < calls[k].w
  <2>1. \A k \in 1 .. n - 1 : k \in 1 .. n /\ n \in 1 .. n /\ k < n
    BY <1>2
  <2>2. \A k \in 1 .. n : calls[k] \in Frame
    BY <1>1, ElementOfSeq
  <2> QED
    BY <1>1, <1>2, <2>1, <2>2 DEF Frames, Word
<1>8. ASSUME NEW v \in visited \ Graphed PROVE v = Word \/ Word < v
  <2>1. PICK k \in 1 .. n : calls[k].w = v
    BY <1>1 DEF Frames
  <2>2. k = n \/ k \in 1 .. n - 1
    BY <1>2
  <2> QED
    BY <1>2, <1>7, <2>1, <2>2 DEF Word
<1> QED
  BY <1>2, <1>3, <1>4, <1>5, <1>6, <1>7, <1>8 DEF Filled

\* The words that a word may visit, and those it refers to afterwards.
LEMMA OlderWords ==
  ASSUME IInv, calls # <<>>, NEW i \in 1 .. Len(Body), Body[i].kind = "word"
  PROVE  /\ IsNew(Body[i]) => /\ Body[i].w \in Words \ visited
                              /\ \A k \in 1 .. Len(calls) : Body[i].w < calls[k].w
         /\ ~IsNew(Body[i]) /\ Body[i].w # Word => Body[i].w \in Graphed
<1> DEFINE v == Body[i].w
<1>1. /\ Len(calls) \in Nat \ {0} /\ Current = calls[Len(calls)]
      /\ Word \in visited \ Graphed /\ Word \in Words
      /\ \A k \in 1 .. Len(calls) - 1 : calls[k] \in Frame /\ Word < calls[k].w
      /\ \A u \in visited \ Graphed : u = Word \/ Word < u
  BY CurrentProperties
<1>2. Bodies /\ Frames
  BY DEF IInv
<1>3. v \in 1 .. Word /\ Words \subseteq Nat \ {0}
  BY <1>1, <1>2, StateProperties DEF Body
<1>4. v \in Words
  <2>1. Words = 1 .. Len(def) /\ Len(def) \in Nat
    <3>1. def \in Seq(Seq(Cell))
      BY <1>2, ProgramsAssumption DEF Bodies
    <3> QED
      BY <3>1, LenProperties DEF Words
  <2> QED
    BY <1>1, <1>3, <2>1
<1>5. v \in Nat /\ Word \in Nat
  BY <1>1, <1>3
<1> HIDE DEF v
<1>6. ASSUME v \notin visited, NEW k \in 1 .. Len(calls) PROVE v < calls[k].w
  <2>1. v < Word
    BY <1>1, <1>3, <1>5, <1>6
  <2>2. CASE k = Len(calls)
    BY <1>1, <2>1, <2>2 DEF Word
  <2>3. CASE k # Len(calls)
    <3>1. k \in 1 .. Len(calls) - 1
      BY <1>1, <2>3
    <3>2. calls[k].w \in Nat /\ Word < calls[k].w
      BY <1>1, <3>1 DEF Frame
    <3> QED
      BY <1>5, <2>1, <3>2
  <2> QED
    BY <2>2, <2>3
<1>7. ASSUME v \in visited, v # Word PROVE v \in Graphed
  BY <1>1, <1>3, <1>5, <1>7
<1> QED
  BY <1>4, <1>6, <1>7 DEF IsNew, v

LEMMA VisitKeeps ==
  ASSUME IInv, VisitWord
  PROVE  IInv'
<1>1. calls # <<>> /\ At <= Len(Body)
  BY DEF VisitWord, Inside, Filling
<1>2. At \in 1 .. Len(Body) + 1 /\ Len(Body) \in Nat
  BY <1>1, CurrentProperties
<1>3. PICK i \in 1 .. Len(Body) : IsNew(Body[i]) /\ Translate(Body[i].w, calls)
  <2>1. CASE IsNew(Body[At]) /\ Translate(Body[At].w, calls)
    <3>1. At \in 1 .. Len(Body)
      BY <1>1, <1>2
    <3> QED
      BY <2>1, <3>1
  <2>2. CASE At < Len(Body) /\ IsNew(Body[At + 1]) /\ Translate(Body[At + 1].w, calls)
    <3>1. At + 1 \in 1 .. Len(Body)
      BY <2>2, <1>2
    <3> QED
      BY <2>2, <3>1
  <2> QED
    BY <2>1, <2>2 DEF VisitWord
<1>4. /\ Body[i].w \in Words \ visited
      /\ \A k \in 1 .. Len(calls) : Body[i].w < calls[k].w
  BY <1>1, <1>3, OlderWords DEF IsNew
<1> QED
  BY <1>3, <1>4, TranslateKeeps

LEMMA StartKeeps ==
  ASSUME IInv, Start
  PROVE  IInv'
<1>1. PICK root \in Words : Translate(root, calls)
  BY DEF Start
<1>2. visited = {}
  BY DEF Start
<1>3. \A k \in 1 .. Len(calls) : calls[k].w \in visited
  BY DEF IInv, Frames
<1> QED
  BY <1>1, <1>2, <1>3, TranslateKeeps

-----------------------------------------------------------------------------
(***************************************************************************)
(* The invariant after an instruction is appended.                         *)
(***************************************************************************)
\* The blocks bs with the instruction of d[at] in the last one, and its end.
AfterFill(d, bs, at, block) ==
  LET n      == NextInstruction(d, at)
      closed == IF n \in Leaders(d) /\ ~IsBranchy(d[at])
                THEN <<BranchTo(BlockAt(d, n))>> ELSE <<>>
  IN  [bs EXCEPT ![block] = @ \o <<Translated(d, at)>> \o closed]

\* What is known of the blocks though the definition may not be sound.
LEMMA FillCode ==
  ASSUME NEW d \in Seq(Cell), Good(d),
         NEW bs \in Seq(Seq(Instruction)), Len(bs) = Cardinality(Leaders(d)),
         NEW block \in 1 .. Len(bs), NEW at \in 1 .. Len(d), at \in Instructions(d),
         IsWord(d[at]), IsStateful(d[at]) => at < Len(d)
  PROVE  LET n      == NextInstruction(d, at)
             next   == BlockAt(d, n)
             new    == AfterFill(d, bs, at, block)
         IN  /\ n \in 1 .. Len(d) + 1 /\ n \in Instructions(d) /\ next \in 1 .. Len(bs)
             /\ WordsBefore(d, at) => WordsBefore(d, n)
             /\ new \in Seq(Seq(Instruction)) /\ Len(new) = Len(bs)
             /\ \A b \in 1 .. Len(new) : \A k \in 1 .. Len(new[b]) :
                  \/ k \in 1 .. Len(bs[b]) /\ new[b][k] = bs[b][k]
                  \/ new[b][k] = Translated(d, at)
                  \/ new[b][k] = BranchTo(next)
<1> DEFINE n      == NextInstruction(d, at)
           leads  == n \in Leaders(d)
           next   == BlockAt(d, n)
           T      == Translated(d, at)
           e      == BranchTo(next)
           closed == IF leads /\ ~IsBranchy(d[at]) THEN <<e>> ELSE <<>>
           first  == [bs EXCEPT ![block] = @ \o <<T>>]
           new    == [bs EXCEPT ![block] = @ \o <<T>> \o closed]
<1>1. Len(d) \in Nat /\ DOMAIN d = 1 .. Len(d) /\ \A b \in 1 .. Len(bs) : bs[b] \in Seq(Instruction)
  BY LenProperties, ElementOfSeq
<1>2. n \in 1 .. Len(d) + 1 /\ at < n
  BY <1>1 DEF NextInstruction
<1>3. n \in Instructions(d) /\ \A i \in Instructions(d) : i \in Nat /\ (at < i => n <= i)
  BY <1>1, InstructionsProperties
<1>4. next \in 1 .. Len(bs) /\ next \in Nat
  <2>1. n \in Nat \ {0}
    BY <1>1, <1>2
  <2> HIDE DEF n
  <2> QED
    BY SMTT(30), <1>1, <2>1, BlockAtProperties
<1>5. ASSUME WordsBefore(d, at) PROVE WordsBefore(d, n)
  <2>1. \A i \in Instructions(d) : i < n => i < at \/ i = at
    BY <1>1, <1>2, <1>3
  <2> HIDE DEF n
  <2> QED
    BY <1>5, <2>1 DEF WordsBefore
<1>6. T \in Instruction /\ e \in Instruction
  BY <1>4, TranslatedProperties, AddedProperties
<1> HIDE DEF n, next, T, e
<1>7. <<T>> \in Seq(Instruction) /\ Len(<<T>>) = 1 /\ <<T>>[1] = T
      /\ <<e>> \in Seq(Instruction) /\ Len(<<e>>) = 1 /\ <<e>>[1] = e
  BY <1>6
<1> DEFINE t == <<T>>
           u == <<e>>
<1> HIDE DEF t, u
<1>9. /\ first \in Seq(Seq(Instruction)) /\ Len(first) = Len(bs)
      /\ AddsOnly(first, bs, T)
  <2>1. t \in Seq(Instruction) /\ Len(t) = 1 /\ t[1] = T
    BY <1>7 DEF t
  <2>2. first = Extend(bs, block, t)
    BY DEF t, Extend
  <2> DEFINE x == Extend(bs, block, t)
  <2>3. x \in Seq(Seq(Instruction)) /\ IsExtension(x, bs, block, t)
    BY <2>1, Extended
  <2> HIDE DEF first, x
  <2>4. Len(x) = Len(bs) /\ AddsOnly(x, bs, T)
    BY <2>1, <2>3, ExtendedByOne DEF IsExtension
  <2> QED
    BY <2>2, <2>3, <2>4 DEF x
<1>10. /\ new \in Seq(Seq(Instruction)) /\ Len(new) = Len(bs)
       /\ AddsOnly(new, first, e)
  <2>1. new = [first EXCEPT ![block] = @ \o closed]
    <3>1. first[block] = bs[block] \o <<T>> /\ DOMAIN bs = 1 .. Len(bs)
      BY LenProperties
    <3> HIDE DEF closed
    <3> QED
      BY <3>1
  <2> HIDE DEF first, new
  <2>2. CASE closed = u
    <3>1. u \in Seq(Instruction) /\ Len(u) = 1 /\ u[1] = e
      BY <1>7 DEF u
    <3>2. new = Extend(first, block, u)
      BY <2>1, <2>2 DEF Extend
    <3> DEFINE x == Extend(first, block, u)
    <3>3. first \in Seq(Seq(Instruction)) /\ block \in 1 .. Len(first)
      BY <1>9
    <3>4. x \in Seq(Seq(Instruction)) /\ IsExtension(x, first, block, u)
      BY <3>1, <3>3, Extended
    <3> HIDE DEF x
    <3>5. Len(x) = Len(first) /\ AddsOnly(x, first, e)
      BY <3>1, <3>4, ExtendedByOne DEF IsExtension
    <3> QED
      BY <1>9, <3>2, <3>4, <3>5 DEF x
  <2>3. CASE closed = <<>>
    <3>1. DOMAIN first = 1 .. Len(bs) /\ first[block] \in Seq(Instruction)
      BY <1>9, LenProperties, ElementOfSeq
    <3>2. first[block] \o <<>> = first[block]
      BY <3>1, ConcatEmptySeq
    <3> HIDE DEF closed
    <3>3. new = first
      <4>1. new = [first EXCEPT ![block] = first[block]]
        BY <2>1, <2>3, <3>2
      <4> QED
        BY <4>1, <1>9
    <3> QED
      BY <3>3, <1>9 DEF AddsOnly
  <2> QED
    BY <2>2, <2>3 DEF u
<1> HIDE DEF first
<1>11. \A b \in 1 .. Len(new) : \A k \in 1 .. Len(new[b]) :
         \/ k \in 1 .. Len(bs[b]) /\ new[b][k] = bs[b][k]
         \/ new[b][k] = T
         \/ new[b][k] = e
  <2> HIDE DEF new
  <2> QED
    BY <1>9, <1>10 DEF AddsOnly
<1> QED
  BY <1>2, <1>3, <1>4, <1>5, <1>10, <1>11 DEF AfterFill, n, leads, next, T, e, closed, new

\* The innermost call goes on in its definition.
LEMMA AdvanceKeeps ==
  ASSUME IInv, calls # <<>>,
         NEW n \in 1 .. Len(Body) + 1, NEW b \in 1 .. Len(blocks[Word]), n \in Instructions(Body),
         WordsBefore(Body, n),
         NEW bs \in Seq(Seq(Instruction)), Len(bs) = Len(blocks[Word]),
         JumpsInside(bs), RefersTo(bs, Word, Graphed),
         Sound(Body) => Shape(Body, bs, n, b),
         blocks' = [blocks EXCEPT ![Word] = bs],
         calls' = [calls EXCEPT ![Len(calls)] = [w |-> Word, at |-> n, block |-> b]],
         UNCHANGED <<def, visited, graphed, outcome>>
  PROVE  IInv'
<1> DEFINE m == Len(calls)
           f == [w |-> Word, at |-> n, block |-> b]
<1>1. /\ Bodies /\ Frames /\ Words' = Words /\ Graphed' = Graphed /\ Graphed \subseteq visited
      /\ visited \subseteq Words /\ Words \subseteq Nat \ {0} /\ calls \in Seq(Frame)
      /\ graphed \in Seq(visited)
  BY StateProperties DEF IInv, Words, Graphed, Bodies
<1>2. /\ m \in Nat \ {0} /\ Current = calls[m]
      /\ Word \in visited \ Graphed /\ Word \in Words /\ Good(Body)
      /\ Len(Body) \in Nat /\ Len(blocks[Word]) \in Nat
      /\ Len(blocks[Word]) = Cardinality(Leaders(Body))
      /\ \A k \in 1 .. m - 1 : calls[k] \in Frame /\ Word < calls[k].w
  BY CurrentProperties
<1>3. /\ blocks'[Word] = bs /\ DOMAIN blocks' = Words
      /\ \A v \in Words : v # Word => blocks'[v] = blocks[v]
  BY <1>1, <1>2 DEF Bodies
<1>4. f \in Frame /\ f.w = Word /\ f.at = n /\ f.block = b
  BY <1>1, <1>2 DEF Frame
<1> HIDE DEF f
<1>5. /\ calls' \in Seq(Frame) /\ Len(calls') = m
      /\ \A k \in 1 .. m : calls'[k] = IF k = m THEN f ELSE calls[k]
  <2>1. calls' = [calls EXCEPT ![m] = f] /\ m \in 1 .. Len(calls)
    BY <1>2 DEF f
  <2> QED
    BY <1>1, <1>4, <2>1, ExceptSeq
<1>6. ASSUME NEW k \in 1 .. m
      PROVE  /\ calls'[k].w = calls[k].w
             /\ k # m => calls'[k] = calls[k] /\ calls[k].w # Word
             /\ k = m => calls'[k] = f /\ calls[k].w = Word
  <2>1. CASE k = m
    BY <1>2, <1>4, <1>5, <2>1 DEF Word
  <2>2. CASE k # m
    <3>1. k \in 1 .. m - 1
      BY <1>2, <2>2
    <3>2. calls'[k] = calls[k] /\ calls[k].w \in Nat /\ Word < calls[k].w
      BY <1>2, <1>5, <2>2, <3>1 DEF Frame
    <3> QED
      BY <1>1, <1>2, <2>2, <3>2
  <2> QED
    BY <2>1, <2>2
<1>7. Bodies'
  <2>1. \A v \in Words' : blocks'[v] \in Seq(Seq(Instruction)) /\ JumpsInside(blocks'[v])
    BY <1>1, <1>3 DEF Bodies
  <2>2. \A v \in visited' : Good(def'[v]) /\ Len(blocks'[v]) = Cardinality(Leaders(def'[v]))
    BY <1>1, <1>2, <1>3 DEF Bodies, Body
  <2> QED
    BY <1>1, <1>3, <2>1, <2>2 DEF Bodies
<1>8. Frames'
  <2>1. ASSUME NEW k \in 1 .. Len(calls')
        PROVE  /\ calls'[k].w \in visited' \ Graphed'
               /\ calls'[k].at \in 1 .. Len(def'[calls'[k].w]) + 1
               /\ calls'[k].block \in 1 .. Len(blocks'[calls'[k].w])
    <3>1. k \in 1 .. m
      BY <1>5
    <3>2. CASE k = m
      BY <3>1, <3>2, <1>1, <1>2, <1>3, <1>4, <1>6 DEF Body
    <3>3. CASE k # m
      <4>1. calls'[k] = calls[k] /\ calls[k].w # Word
        BY <3>1, <3>3, <1>6
      <4>2. /\ calls[k].w \in visited \ Graphed
            /\ calls[k].at \in 1 .. Len(def[calls[k].w]) + 1
            /\ calls[k].block \in 1 .. Len(blocks[calls[k].w])
        BY <3>1, <1>1 DEF Frames
      <4> QED
        BY <4>1, <4>2, <1>1, <1>3
    <3> QED
      BY <3>2, <3>3
  <2>2. \A j, k \in 1 .. Len(calls') : j < k => calls'[k].w < calls'[j].w
    BY <1>1, <1>5, <1>6 DEF Frames
  <2>3. ASSUME NEW v \in visited' \ Graphed' PROVE \E k \in 1 .. Len(calls') : calls'[k].w = v
    <3>1. v \in visited \ Graphed
      BY <1>1
    <3>2. PICK k \in 1 .. m : calls[k].w = v
      BY <1>1, <3>1 DEF Frames
    <3>3. k \in 1 .. Len(calls') /\ calls'[k].w = v
      BY <3>2, <1>5, <1>6
    <3> QED
      BY <3>3
  <2> QED
    BY <1>1, <1>5, <2>1, <2>2, <2>3 DEF Frames, Frame
<1>9. References'
  BY <1>1, <1>3 DEF IInv, References
<1>10. \A k \in 1 .. Len(graphed) : blocks'[graphed[k]] = blocks[graphed[k]]
  BY <1>1, <1>2, <1>3, StateProperties
<1>11. Ordered'
  <2>1. graphed' = graphed /\ Ordered
    BY DEF IInv
  <2> QED
    BY <1>10, <2>1, OrderKept
<1>12. Shapes'
  <2> SUFFICES ASSUME NEW k \in 1 .. Len(calls')
               PROVE  LET c == calls'[k]
                          e == def'[c.w]
                      IN  /\ c.at \in Instructions(e) /\ WordsBefore(e, c.at)
                          /\ Sound(e) => Shape(e, blocks'[c.w], c.at, c.block)
    BY DEF Shapes
  <2>1. k \in 1 .. m
    BY <1>5
  <2>2. CASE k = m
    BY <2>1, <2>2, <1>3, <1>4, <1>6 DEF Body
  <2>3. CASE k # m
    <3>1. calls'[k] = calls[k] /\ calls[k].w # Word /\ calls[k].w \in Words
      BY <2>1, <2>3, <1>1, <1>6 DEF Frames
    <3> QED
      BY <2>1, <3>1, <1>3 DEF IInv, Shapes
  <2> QED
    BY <2>2, <2>3
<1>13. Finished'
  BY <1>1, <1>2, <1>3 DEF IInv, Finished
<1> QED
  BY <1>7, <1>8, <1>9, <1>11, <1>12, <1>13 DEF IInv

LEMMA FillKeeps ==
  ASSUME IInv, Fill
  PROVE  IInv'
<1> DEFINE d      == Body
           bs     == blocks[Word]
           at     == At
           block  == Current.block
           n      == NextInstruction(d, at)
           leads  == n \in Leaders(d)
           next   == BlockAt(d, n)
           T      == Translated(d, at)
           new    == AfterFill(d, bs, at, block)
           b      == IF leads THEN next ELSE block
<1>1. /\ calls # <<>> /\ at <= Len(d)
      /\ IsWord(d[at]) /\ ~IsNew(d[at])
      /\ IsStateful(d[at]) => at < Len(d) /\ ~IsNew(d[at + 1])
      /\ blocks' = [blocks EXCEPT ![Word] = new]
      /\ calls' = [calls EXCEPT ![Len(calls)] = [w |-> Word, at |-> n, block |-> b]]
      /\ UNCHANGED <<def, visited, graphed, outcome>>
  BY DEF Fill, Inside, Filling, NextAt, AfterFill
<1>2. /\ Word \in visited \ Graphed /\ Word \in Words /\ Good(d)
      /\ d \in Seq(Cell) /\ Len(d) \in Nat /\ DOMAIN d = 1 .. Len(d)
      /\ bs \in Seq(Seq(Instruction)) /\ Len(bs) \in Nat /\ Len(bs) = Cardinality(Leaders(d))
      /\ at \in 1 .. Len(d) + 1 /\ block \in 1 .. Len(bs)
      /\ at \in Instructions(d) /\ WordsBefore(d, at)
      /\ Sound(d) => Filled(d, bs, at, block)
  BY <1>1, CurrentProperties
<1> HIDE DEF d, bs, at, block
<1>3. at \in 1 .. Len(d)
  BY <1>1, <1>2
<1>4. /\ n \in 1 .. Len(d) + 1 /\ n \in Instructions(d) /\ next \in 1 .. Len(bs)
      /\ WordsBefore(d, n)
      /\ new \in Seq(Seq(Instruction)) /\ Len(new) = Len(bs)
      /\ \A c \in 1 .. Len(new) : \A k \in 1 .. Len(new[c]) :
           \/ k \in 1 .. Len(bs[c]) /\ new[c][k] = bs[c][k]
           \/ new[c][k] = T
           \/ new[c][k] = BranchTo(next)
  BY <1>1, <1>2, <1>3, FillCode
<1>5. Sound(d) => Filled(d, new, n, b)
  BY <1>1, <1>2, FillShape DEF AfterFill
<1>6. Sound(d) => Shape(d, new, n, b)
  BY <1>5 DEF Filled
<1>7. b \in 1 .. Len(bs)
  BY <1>2, <1>4
<1>8. /\ T.cell = d[at] /\ T.operand = IF IsStateful(d[at]) THEN d[at + 1] ELSE Undef
      /\ \A t \in 1 .. Len(T.to) : T.to[t] \in 1 .. Len(bs)
  BY <1>1, <1>2, <1>3, TranslatedProperties
<1>9. /\ BranchTo(next).cell = PrimXt("branch") /\ BranchTo(next).operand = Undef
      /\ BranchTo(next).to = <<next>>
  BY <1>2, <1>4, AddedProperties
<1> HIDE DEF new, T, b, next, n
<1>10. JumpsInside(new)
  <2>1. JumpsInside(bs)
    BY <1>2 DEF IInv, Bodies, bs
  <2>2. \A t \in 1 .. Len(<<next>>) : <<next>>[t] \in 1 .. Len(bs)
    BY <1>4
  <2>3. \A t \in 1 .. Len(BranchTo(next).to) : BranchTo(next).to[t] \in 1 .. Len(bs)
    BY <1>9, <2>2
  <2> QED
    BY <1>4, <1>8, <2>1, <2>3 DEF JumpsInside
<1>11. RefersTo(new, Word, Graphed)
  <2>1. RefersTo(bs, Word, Graphed)
    BY <1>2 DEF IInv, References, bs
  <2>2. d[at].kind = "word" /\ d[at].w # Word => d[at].w \in Graphed
    BY <1>1, <1>3, OlderWords DEF d
  <2>3. IsStateful(d[at]) /\ d[at + 1].kind = "word" /\ d[at + 1].w # Word => d[at + 1].w \in Graphed
    <3>1. IsStateful(d[at]) => at + 1 \in 1 .. Len(d)
      BY <1>1, <1>2, <1>3
    <3> QED
      BY <1>1, <3>1, OlderWords DEF d
  <2>4. \A c \in {T.cell, T.operand} : c.kind = "word" /\ c.w # Word => c.w \in Graphed
    BY <1>8, <2>2, <2>3, CodeProperties
  <2>5. \A c \in {BranchTo(next).cell, BranchTo(next).operand} : c.kind # "word"
    BY <1>9, CodeProperties
  <2> SUFFICES ASSUME NEW c \in 1 .. Len(new), NEW k \in 1 .. Len(new[c])
               PROVE  \A x \in {new[c][k].cell, new[c][k].operand} :
                        x.kind = "word" /\ x.w # Word => x.w \in Graphed
    BY DEF RefersTo
  <2>6. CASE k \in 1 .. Len(bs[c]) /\ new[c][k] = bs[c][k]
    BY <1>4, <2>1, <2>6 DEF RefersTo
  <2>7. CASE new[c][k] = T
    BY <2>4, <2>7
  <2>8. CASE new[c][k] = BranchTo(next)
    BY <2>5, <2>8
  <2> QED
    BY <1>4, <2>6, <2>7, <2>8
<1> QED
  BY <1>1, <1>4, <1>6, <1>7, <1>10, <1>11, AdvanceKeeps DEF d, bs

-----------------------------------------------------------------------------
(***************************************************************************)
(* The invariant after a word is finished.                                 *)
(***************************************************************************)
LEMMA FinishCode ==
  ASSUME NEW bs \in Seq(Seq(Instruction)), Len(bs) # 0, NEW w, NEW G,
         JumpsInside(bs), RefersTo(bs, w, G)
  PROVE  LET new == [bs EXCEPT ![Len(bs)] = Append(@, ReturnInstr)]
         IN  /\ new \in Seq(Seq(Instruction)) /\ Len(new) = Len(bs)
             /\ JumpsInside(new) /\ RefersTo(new, w, G)
<1> DEFINE block == Len(bs)
           new   == [bs EXCEPT ![Len(bs)] = Append(@, ReturnInstr)]
           m     == Len(bs[block])
<1>1. /\ new \in Seq(Seq(Instruction)) /\ Len(new) = Len(bs)
      /\ Len(new[block]) = m + 1
      /\ new[block][m + 1] = ReturnInstr
      /\ \A b \in 1 .. Len(bs) :
           /\ b # block => new[b] = bs[b]
           /\ \A k \in 1 .. Len(bs[b]) : k \in 1 .. Len(new[b]) /\ new[b][k] = bs[b][k]
  <2> DEFINE last == block
  <2> HIDE DEF last
  <2>1. last = Len(bs) /\ last # 0
    BY DEF last
  <2>2. /\ new \in Seq(Seq(Instruction)) /\ Len(new) = Len(bs)
        /\ Len(new[last]) = Len(bs[last]) + 1
        /\ new[last][Len(bs[last]) + 1] = ReturnInstr
        /\ \A b \in 1 .. Len(bs) :
             /\ b # last => new[b] = bs[b]
             /\ \A k \in 1 .. Len(bs[b]) : k \in 1 .. Len(new[b]) /\ new[b][k] = bs[b][k]
    BY <2>1, Returned
  <2> HIDE DEF new
  <2> QED
    BY <2>1, <2>2
<1> HIDE DEF new
<1>2. block \in 1 .. Len(bs) /\ m \in Nat
  BY LenProperties, ElementOfSeq
<1>3. ASSUME NEW b \in 1 .. Len(bs), NEW k \in 1 .. Len(new[b])
      PROVE  \/ k \in 1 .. Len(bs[b]) /\ new[b][k] = bs[b][k]
             \/ new[b][k] = ReturnInstr
  <2>1. CASE b # block
    BY <2>1, <1>1
  <2>2. CASE b = block
    <3>1. k \in 1 .. m + 1 /\ Len(bs[b]) = m
      BY <2>2, <1>1
    <3> HIDE DEF m
    <3>2. k \in 1 .. m \/ k = m + 1
      BY <1>2, <3>1
    <3> QED
      BY <2>2, <3>1, <3>2, <1>1
  <2> QED
    BY <2>1, <2>2
<1>4. /\ ReturnInstr.to = <<>> /\ Len(<<>>) = 0
      /\ ReturnInstr.cell.kind # "word" /\ ReturnInstr.operand.kind # "word"
  BY AddedProperties, CodeProperties
<1>5. JumpsInside(new)
  <2> SUFFICES ASSUME NEW b \in 1 .. Len(bs), NEW k \in 1 .. Len(new[b])
               PROVE  \A t \in 1 .. Len(new[b][k].to) : new[b][k].to[t] \in 1 .. Len(bs)
    BY <1>1 DEF JumpsInside
  <2>1. CASE k \in 1 .. Len(bs[b]) /\ new[b][k] = bs[b][k]
    BY <2>1 DEF JumpsInside
  <2>2. CASE new[b][k] = ReturnInstr
    BY <1>4, <2>2
  <2> QED
    BY <1>3, <2>1, <2>2
<1>6. RefersTo(new, w, G)
  <2> SUFFICES ASSUME NEW b \in 1 .. Len(new), NEW k \in 1 .. Len(new[b])
               PROVE  \A c \in {new[b][k].cell, new[b][k].operand} :
                        c.kind = "word" /\ c.w # w => c.w \in G
    BY DEF RefersTo
  <2>1. CASE k \in 1 .. Len(bs[b]) /\ new[b][k] = bs[b][k]
    BY <1>1, <2>1 DEF RefersTo
  <2>2. CASE new[b][k] = ReturnInstr
    BY <1>4, <2>2
  <2> QED
    BY <1>1, <1>3, <2>1, <2>2
<1> QED
  BY <1>1, <1>5, <1>6 DEF new

LEMMA FinishKeeps ==
  ASSUME IInv, Finish
  PROVE  IInv'
<1> DEFINE d     == Body
           bs    == blocks[Word]
           m     == Len(calls)
           g     == Len(graphed)
           new   == [bs EXCEPT ![Len(bs)] = Append(@, ReturnInstr)]
           block == Current.block
<1>1. /\ calls # <<>> /\ At > Len(d)
      /\ blocks' = [blocks EXCEPT ![Word] = new]
      /\ graphed' = Append(graphed, Word)
      /\ calls' = Front(calls)
      /\ outcome' \in {"done", "running"}
      /\ UNCHANGED <<def, visited>>
  BY DEF Finish, Filling, ReturnInstr
<1>2. /\ m \in Nat \ {0} /\ Current = calls[m]
      /\ Word \in visited \ Graphed /\ Word \in Words /\ Good(d)
      /\ d \in Seq(Cell) /\ Len(d) \in Nat
      /\ bs \in Seq(Seq(Instruction)) /\ Len(bs) \in Nat
      /\ Len(bs) = Cardinality(Leaders(d))
      /\ At \in 1 .. Len(d) + 1 /\ block \in 1 .. Len(bs)
      /\ WordsBefore(d, At)
      /\ Sound(d) => Filled(d, bs, At, block)
      /\ \A k \in 1 .. m - 1 : calls[k] \in Frame /\ Word < calls[k].w
  BY <1>1, CurrentProperties
<1>3. /\ Bodies /\ Frames /\ Graphed \subseteq visited
      /\ visited \subseteq Words /\ Words \subseteq Nat \ {0} /\ calls \in Seq(Frame)
      /\ graphed \in Seq(visited) /\ g \in Nat
      /\ \A w : w \in Graphed <=> \E k \in 1 .. g : graphed[k] = w
  BY StateProperties DEF IInv, Bodies
<1>4. At = Len(d) + 1
  BY <1>1, <1>2
<1>5. /\ new \in Seq(Seq(Instruction)) /\ Len(new) = Len(bs)
      /\ JumpsInside(new) /\ RefersTo(new, Word, Graphed)
  <2>1. Len(bs) # 0 /\ JumpsInside(bs) /\ RefersTo(bs, Word, Graphed)
    BY <1>2 DEF IInv, Bodies, References
  <2> HIDE DEF bs
  <2> QED
    BY <1>2, <2>1, FinishCode
<1>6. ASSUME WellFormed(d)
      PROVE  KeepsFlow(d, new) /\ (NoDeadCode(d) => Closed(new))
  <2>1. Sound(d)
    <3>1. Len(d) < MaxShort
      BY <1>2, <1>3, ProgramsAssumption DEF Bodies, Words, Body
    <3> QED
      BY <1>2, <1>4, <1>6, <3>1 DEF Sound
  <2>2. Filled(d, bs, Len(d) + 1, block)
    BY <1>2, <1>4, <2>1
  <2> HIDE DEF d, bs, block
  <2> QED
    BY <2>2, FinishFlow, FinishClosed
<1> HIDE DEF new
<1>7. /\ blocks'[Word] = new /\ DOMAIN blocks' = Words
      /\ \A v \in Words : v # Word => blocks'[v] = blocks[v]
  BY <1>1, <1>2, <1>3 DEF Bodies
<1>8. /\ graphed' \in Seq(visited) /\ Len(graphed') = g + 1
      /\ \A k \in 1 .. g : graphed'[k] = graphed[k]
      /\ graphed'[g + 1] = Word
  BY <1>1, <1>2, <1>3, AppendProperties
<1>9. /\ calls' \in Seq(Frame) /\ Len(calls') = m - 1
      /\ \A k \in 1 .. m - 1 : calls'[k] = calls[k]
  <2>1. calls # <<>> /\ calls \in Seq(Frame)
    BY <1>1, <1>3
  <2>2. Front(calls) \in Seq(Frame) /\ Len(Front(calls)) = m - 1
        /\ \A k \in 1 .. m - 1 : Front(calls)[k] = calls[k]
    BY <2>1, FrontProperties
  <2> QED
    BY <1>1, <2>2
<1>10. Words' = Words /\ visited' = visited /\ def' = def
  BY <1>1 DEF Words
<1>11. Graphed' = Graphed \cup {Word}
  <2>1. DOMAIN graphed' = 1 .. g + 1
    BY <1>8, LenProperties
  <2>2. \A w : w \in Graphed' <=> \E k \in 1 .. g + 1 : graphed'[k] = w
    BY <2>1 DEF Graphed, Range
  <2>3. ASSUME NEW w PROVE w \in Graphed' <=> w \in Graphed \/ w = Word
    <3>1. CASE w \in Graphed'
      <4>1. PICK k \in 1 .. g + 1 : graphed'[k] = w
        BY <2>2, <3>1
      <4>2. k \in 1 .. g \/ k = g + 1
        BY <1>3
      <4> QED
        BY <3>1, <4>1, <4>2, <1>3, <1>8
    <3>2. CASE w \in Graphed
      <4>1. PICK k \in 1 .. g : graphed[k] = w
        BY <1>3, <3>2
      <4>2. k \in 1 .. g + 1 /\ graphed'[k] = w
        BY <4>1, <1>3, <1>8
      <4> QED
        BY <2>2, <3>2, <4>2
    <3>3. CASE w = Word
      <4>1. g + 1 \in 1 .. g + 1
        BY <1>3
      <4> QED
        BY <2>2, <3>3, <4>1, <1>8
    <3> QED
      BY <3>1, <3>2, <3>3
  <2> QED
    BY <2>3, Zenon
<1>12. Bodies'
  <2>1. \A v \in Words' : blocks'[v] \in Seq(Seq(Instruction)) /\ JumpsInside(blocks'[v])
    BY <1>3, <1>5, <1>7, <1>10 DEF Bodies
  <2>2. \A v \in visited' : Good(def'[v]) /\ Len(blocks'[v]) = Cardinality(Leaders(def'[v]))
    BY <1>2, <1>3, <1>5, <1>7, <1>10 DEF Bodies, Body
  <2> QED
    BY <1>3, <1>7, <1>10, <2>1, <2>2 DEF Bodies
<1>13. Frames'
  <2>1. ASSUME NEW k \in 1 .. Len(calls')
        PROVE  /\ k \in 1 .. m /\ k \in 1 .. m - 1 /\ calls'[k] = calls[k] /\ calls[k].w # Word
               /\ calls[k].w \in Words
    <3>1. k \in 1 .. m - 1 /\ k \in 1 .. m
      BY <1>2, <1>9
    <3>2. calls[k].w \in Nat /\ Word < calls[k].w /\ calls[k].w \in visited
      BY <3>1, <1>2, <1>3 DEF Frame, Frames
    <3> QED
      BY <3>1, <3>2, <1>3, <1>9
  <2>2. ASSUME NEW k \in 1 .. Len(calls')
        PROVE  /\ calls'[k].w \in visited' \ Graphed'
               /\ calls'[k].at \in 1 .. Len(def'[calls'[k].w]) + 1
               /\ calls'[k].block \in 1 .. Len(blocks'[calls'[k].w])
    <3>1. calls'[k] = calls[k] /\ calls[k].w # Word /\ calls[k].w \in Words
      BY <2>1
    <3>2. /\ calls[k].w \in visited \ Graphed
          /\ calls[k].at \in 1 .. Len(def[calls[k].w]) + 1
          /\ calls[k].block \in 1 .. Len(blocks[calls[k].w])
      BY <2>1, <1>3 DEF Frames
    <3>3. calls'[k].w \in visited' \ Graphed'
      BY <3>1, <3>2, <1>10, <1>11
    <3>4. blocks'[calls[k].w] = blocks[calls[k].w] /\ def'[calls[k].w] = def[calls[k].w]
      BY <3>1, <1>7, <1>10
    <3> QED
      BY <3>1, <3>2, <3>3, <3>4
  <2>3. ASSUME NEW j \in 1 .. Len(calls'), NEW k \in 1 .. Len(calls'), j < k
        PROVE  calls'[k].w < calls'[j].w
    BY <2>1, <2>3, <1>3 DEF Frames
  <2>4. ASSUME NEW v \in visited' \ Graphed' PROVE \E k \in 1 .. Len(calls') : calls'[k].w = v
    <3>1. v \in visited \ Graphed /\ v # Word
      BY <1>10, <1>11
    <3>2. PICK k \in 1 .. m : calls[k].w = v
      BY <1>3, <3>1 DEF Frames
    <3>3. k # m
      BY <3>1, <3>2, <1>2 DEF Word
    <3>4. k \in 1 .. m - 1
      BY <3>3, <1>2
    <3> QED
      BY <3>2, <3>4, <1>9
  <2>5. outcome' \in {"running", "done", "aborted", "undefined"} /\ graphed' \in Seq(visited')
    BY <1>1, <1>8, <1>10
  <2> QED
    BY <1>9, <2>2, <2>3, <2>4, <2>5 DEF Frames, Frame
<1>14. References'
  <2>1. \A v \in visited : RefersTo(blocks'[v], v, Graphed)
    BY <1>3, <1>5, <1>7 DEF IInv, References
  <2>2. \A v \in visited : RefersTo(blocks'[v], v, Graphed')
    BY <2>1, <1>11 DEF RefersTo
  <2> QED
    BY <2>2, <1>10 DEF References
<1>15. Ordered'
  <2> DEFINE h == graphed'
             bl == blocks'
  <2>1. InOrder(graphed, blocks)
    BY DEF IInv, Ordered
  <2> HIDE DEF h, bl
  <2>2. /\ Len(h) = g + 1 /\ h[g + 1] = Word /\ bl[Word] = new
        /\ \A k \in 1 .. g : h[k] = graphed[k] /\ bl[h[k]] = blocks[h[k]] /\ h[k] # Word
    <3>1. \A k \in 1 .. g : graphed[k] \in Graphed
      BY <1>3
    <3> QED
      BY <3>1, <1>2, <1>3, <1>7, <1>8 DEF h, bl
  <2>3. ASSUME NEW k \in 1 .. Len(h)
        PROVE  /\ \A j \in 1 .. k - 1 : h[j] # h[k]
               /\ RefersTo(bl[h[k]], h[k], {h[j] : j \in 1 .. k - 1})
    <3>1. CASE k \in 1 .. g
      <4>1. /\ \A j \in 1 .. k - 1 : graphed[j] # graphed[k]
            /\ RefersTo(blocks[graphed[k]], graphed[k], {graphed[j] : j \in 1 .. k - 1})
        BY <2>1, <3>1 DEF InOrder
      <4>2. \A j \in 1 .. k - 1 : h[j] = graphed[j]
        BY <1>3, <2>2, <3>1
      <4>3. {h[j] : j \in 1 .. k - 1} = {graphed[j] : j \in 1 .. k - 1}
        BY <4>2
      <4> QED
        BY <4>1, <4>2, <4>3, <2>2, <3>1
    <3>2. CASE k = g + 1
      <4>1. k - 1 = g
        BY <3>2, <1>3
      <4>2. {h[j] : j \in 1 .. g} = Graphed
        <5>1. {h[j] : j \in 1 .. g} = {graphed[j] : j \in 1 .. g}
          BY <2>2
        <5> QED
          BY <5>1, <1>3
      <4> QED
        BY <2>2, <3>2, <4>1, <4>2, <1>5
    <3>3. k \in 1 .. g \/ k = g + 1
      BY <1>3, <2>2
    <3> QED
      BY <3>1, <3>2, <3>3
  <2>4. InOrder(h, bl)
    BY <2>3 DEF InOrder
  <2> QED
    BY <2>4 DEF Ordered, h, bl
<1>16. Shapes'
  <2> SUFFICES ASSUME NEW k \in 1 .. Len(calls')
               PROVE  LET c == calls'[k]
                          e == def'[c.w]
                      IN  /\ c.at \in Instructions(e) /\ WordsBefore(e, c.at)
                          /\ Sound(e) => Shape(e, blocks'[c.w], c.at, c.block)
    BY DEF Shapes
  <2>1. k \in 1 .. m - 1 /\ k \in 1 .. m
    BY <1>2, <1>9
  <2>2. calls'[k] = calls[k] /\ calls[k].w # Word /\ calls[k].w \in Words
    <3>1. calls[k].w \in Nat /\ Word < calls[k].w /\ calls[k].w \in visited
      BY <2>1, <1>2, <1>3 DEF Frame, Frames
    <3> QED
      BY <2>1, <3>1, <1>3, <1>9
  <2> QED
    BY <2>1, <2>2, <1>7, <1>10 DEF IInv, Shapes
<1>17. Finished'
  <2> SUFFICES ASSUME NEW v \in Graphed', WellFormed(def'[v])
               PROVE  /\ KeepsFlow(def'[v], blocks'[v])
                      /\ NoDeadCode(def'[v]) => Closed(blocks'[v])
    BY DEF Finished
  <2>1. CASE v = Word
    BY <2>1, <1>6, <1>7, <1>10 DEF Body
  <2>2. CASE v # Word
    <3>1. v \in Graphed /\ v \in Words
      BY <2>2, <1>3, <1>11
    <3> QED
      BY <2>2, <3>1, <1>7, <1>10 DEF IInv, Finished
  <2> QED
    BY <2>1, <2>2
<1> QED
  BY <1>12, <1>13, <1>14, <1>15, <1>16, <1>17 DEF IInv

-----------------------------------------------------------------------------
(***************************************************************************)
(* The theorems.                                                           *)
(***************************************************************************)
LEMMA NextIInv == IInv /\ [Next]_vars => IInv'
<1> SUFFICES ASSUME IInv, [Next]_vars PROVE IInv'
  OBVIOUS
<1>1. CASE Start
  BY <1>1, StartKeeps
<1>2. CASE VisitWord
  BY <1>2, VisitKeeps
<1>3. ASSUME NEW how \in {"aborted", "undefined"}, Stop(how) PROVE IInv'
  <2>1. UNCHANGED <<def, blocks, visited, calls, graphed>> /\ outcome' = how
    BY <1>3 DEF Stop
  <2>2. outcome' \in {"running", "done", "aborted", "undefined"}
    BY <2>1
  <2> QED
    BY <2>1, <2>2, StopKeeps
<1>4. CASE NoWord \/ NoOperand
  BY <1>3, <1>4 DEF NoWord, NoOperand
<1>5. CASE Fill
  BY <1>5, FillKeeps
<1>6. CASE Finish
  BY <1>6, FinishKeeps
<1>7. CASE Ended \/ UNCHANGED vars
  <2>1. UNCHANGED <<def, blocks, visited, calls, graphed>> /\ outcome' = outcome
    BY <1>7 DEF Ended, vars
  <2>2. outcome' \in {"running", "done", "aborted", "undefined"}
    BY <2>1 DEF IInv, Frames
  <2> QED
    BY <2>1, <2>2, StopKeeps
<1> QED
  BY <1>1, <1>2, <1>4, <1>5, <1>6, <1>7 DEF Next

LEMMA Invariant == Spec => []IInv
<1> QED
  BY InitIInv, NextIInv, PTL DEF Spec

\* Every variable holds what its C++ counterpart can hold; every jump leads to
\* a block its word has, and an active call of translate_to_basic_blocks fills
\* a block that exists, also when it comes back to it after other words.
THEOREM TypeCorrect == Spec => []TypeOK
<1>1. IInv => TypeOK
  <2> SUFFICES ASSUME IInv PROVE TypeOK
    OBVIOUS
  <2>1. /\ Bodies /\ Frames /\ Graphed \subseteq visited
        /\ visited \subseteq Words /\ calls \in Seq(Frame) /\ DOMAIN calls = 1 .. Len(calls)
        /\ \A w \in Words : blocks[w] \in Seq(Seq(Instruction)) /\ JumpsInside(blocks[w])
    BY StateProperties DEF IInv, Bodies
  <2>2. ASSUME NEW w \in Words, NEW b \in DOMAIN blocks[w], NEW k \in DOMAIN blocks[w][b]
        PROVE  /\ IsInstr(blocks[w][b][k])
               /\ \A t \in Range(blocks[w][b][k].to) : t \in DOMAIN blocks[w]
    <3> DEFINE i == blocks[w][b][k]
    <3>1. DOMAIN blocks[w] = 1 .. Len(blocks[w]) /\ blocks[w][b] \in Seq(Instruction)
      BY <2>1, LenProperties, ElementOfSeq
    <3>2. DOMAIN blocks[w][b] = 1 .. Len(blocks[w][b]) /\ i \in Instruction
      BY <3>1, LenProperties, ElementOfSeq
    <3>3. i.cell \in Code /\ i.operand \in Cell /\ i.to \in Seq(Nat)
      BY <3>2 DEF Instruction
    <3>4. DOMAIN i.to = 1 .. Len(i.to) /\ \A t \in 1 .. Len(i.to) : i.to[t] \in 1 .. Len(blocks[w])
      BY <2>1, <3>1, <3>2, <3>3, LenProperties DEF JumpsInside
    <3> QED
      BY <3>1, <3>3, <3>4 DEF IsInstr, Code, Range
  <2>3. ASSUME NEW k \in DOMAIN calls
        PROVE  /\ calls[k].w \in visited
               /\ calls[k].at \in 1 .. Len(def[calls[k].w]) + 1
               /\ calls[k].block \in DOMAIN blocks[calls[k].w]
    <3>1. /\ calls[k].w \in visited
          /\ calls[k].at \in 1 .. Len(def[calls[k].w]) + 1
          /\ calls[k].block \in 1 .. Len(blocks[calls[k].w])
      BY <2>1 DEF Frames
    <3> QED
      BY <2>1, <3>1, LenProperties
  <2> QED
    BY <2>1, <2>2, <2>3 DEF TypeOK, Bodies, Frames
<1> QED
  BY <1>1, Invariant, PTL

\* However words call each other and themselves, a word has its stack graphed
\* once, and after all the words that its blocks run or push, itself excepted:
\* word_stack_graph finds their effects.
THEOREM CalleesAlwaysFirst == Spec => []CalleesFirst
<1>1. IInv => CalleesFirst
  <2> SUFFICES ASSUME IInv, NEW k \in DOMAIN graphed
               PROVE  LET w == graphed[k]
                      IN  /\ \A j \in 1 .. k - 1 : graphed[j] # w
                          /\ \A b \in DOMAIN blocks[w] : \A n \in DOMAIN blocks[w][b] :
                               LET i == blocks[w][b][n]
                               IN  \A c \in {i.cell, i.operand} :
                                     c.kind = "word" /\ c.w # w =>
                                       \E j \in 1 .. k - 1 : graphed[j] = c.w
    BY DEF CalleesFirst
  <2> DEFINE w == graphed[k]
  <2>1. /\ DOMAIN graphed = 1 .. Len(graphed) /\ graphed \in Seq(visited) /\ visited \subseteq Words
        /\ \A v \in Words : blocks[v] \in Seq(Seq(Instruction))
    BY StateProperties DEF IInv, Bodies
  <2>2. blocks[w] \in Seq(Seq(Instruction))
    BY <2>1, ElementOfSeq
  <2>3. DOMAIN blocks[w] = 1 .. Len(blocks[w])
        /\ \A b \in 1 .. Len(blocks[w]) : DOMAIN blocks[w][b] = 1 .. Len(blocks[w][b])
    BY <2>2, LenProperties, ElementOfSeq
  <2>4. /\ \A j \in 1 .. k - 1 : graphed[j] # w
        /\ RefersTo(blocks[w], w, {graphed[j] : j \in 1 .. k - 1})
    BY <2>1 DEF IInv, Ordered, InOrder
  <2> HIDE DEF w
  <2>5. ASSUME NEW b \in DOMAIN blocks[w], NEW n \in DOMAIN blocks[w][b],
               NEW c \in {blocks[w][b][n].cell, blocks[w][b][n].operand},
               c.kind = "word", c.w # w
        PROVE  \E j \in 1 .. k - 1 : graphed[j] = c.w
    <3>1. c.w \in {graphed[j] : j \in 1 .. k - 1}
      BY <2>3, <2>4, <2>5 DEF RefersTo
    <3> QED
      BY <3>1
  <2> QED
    BY <2>4, <2>5, Zenon DEF w
<1> QED
  BY <1>1, Invariant, PTL

\* In the blocks of a graphed word every instruction of its definition is found
\* once, and control leaves it for the same instructions as when the definition
\* is interpreted, whatever the branches of the definition.
THEOREM FlowKept == Spec => []SameFlow
<1>1. IInv => SameFlow
  BY DEF IInv, Finished, SameFlow, KeepsFlow, Graphed
<1> QED
  BY <1>1, Invariant, PTL

\* Where no code is dead, the last instruction of a block, and no other, is a
\* branch or a return: what nextBBs answers is all the ways out of the block.
THEOREM BlocksAlwaysClosed == Spec => []BlocksClosed
<1>1. IInv => BlocksClosed
  BY DEF IInv, Finished, BlocksClosed, Closed, Graphed
<1> QED
  BY <1>1, Invariant, PTL
=============================================================================
