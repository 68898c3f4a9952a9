----------------------------- MODULE DriverProofs -----------------------------
(***************************************************************************)
(* Theorems about Driver.                                                  *)
(*                                                                         *)
(* What the exit status tells (StatusTells) holds for every number of      *)
(* invocations, whatever the files hold. Nothing about the tokens or the   *)
(* functions is needed but how the interpretation and the generation end.  *)
(*                                                                         *)
(* The module that generate answers is complete (ModuleComplete of         *)
(* ModuleFunctions), for words that call each other in any way. The active *)
(* calls are a path of calls from the root; a word is remembered once all  *)
(* the words it calls are. So no active word is remembered, and a word on  *)
(* the path twice stays there: nothing recursive gets complete.            *)
(*                                                                         *)
(* The tokens of a file are what TokensExact says, for files of any        *)
(* length. next_token is a function by recursion because a call that skips *)
(* a comment goes further (NextEquation); between calls the position is    *)
(* never in the midst of a token or of a comment, unless the file ends     *)
(* (Clean), and from there one call answers the next token (CallTells).    *)
(***************************************************************************)
EXTENDS Driver, SequenceLemmas

-----------------------------------------------------------------------------
(***************************************************************************)
(* The exit status.                                                        *)
(***************************************************************************)
Read      == {"find", "analyse", "generate", "print", "emit", "write", "link", "run"}
Complete  == {"print", "emit", "write", "link", "run"}
Assembled == {"link", "run"}
Phases    == {"idle", "interpret"} \cup Read

Types ==
  /\ path \in Paths
  /\ round \in 0 .. MaxRounds
  /\ phase \in Phases
  /\ linked \in BOOLEAN
  /\ files \in [FileNames -> 0 .. round \cup {NotWhole, Intact}]

\* The program is of this invocation if and only if it has been linked.
Linked ==
  /\ linked => files[Program] = round /\ path # "dotted"
  /\ ~linked /\ round > 0 => files[Program] # round

\* What the phase says of the ones before it.
Phased ==
  /\ phase # "idle" => round > 0 /\ ran = 0
  /\ phase \in Read => ~has_next
  /\ phase \in Complete => generated = "yes"
  /\ phase \in Assembled => files["S"] = round
  /\ phase \notin {"idle", "run"} => ~linked

IInv == Types /\ Linked /\ Phased /\ StatusTells

-----------------------------------------------------------------------------
\* The constants tell versions of files apart.
LEMMA Versions ==
  ASSUME NEW r \in 0 .. MaxRounds
  PROVE  /\ NotWhole # r /\ Intact # r /\ NotWhole # Intact
         /\ Program \in {"program", "source"}
         /\ Program \in FileNames
BY RoundsAssumption DEF NotWhole, Intact, Program, FileNames

\* A new program starts with the files of the ones before it.
LEMMA InvokeKeeps == IInv /\ Invoke => IInv'
<1> SUFFICES ASSUME IInv, Invoke PROVE IInv'
  OBVIOUS
<1> USE RoundsAssumption
<1>1. round' = round + 1 /\ round' \in 0 .. MaxRounds /\ path' = path
  BY DEF Invoke, IInv, Types
<1>2. files' = files \/ files' = [files EXCEPT !["source"] = Intact]
  BY DEF Invoke
<1>3. files' \in [FileNames -> 0 .. round \cup {NotWhole, Intact}]
  BY <1>2 DEF IInv, Types, FileNames
<1>4. \A f \in FileNames : files'[f] # round'
  BY <1>1, <1>3, Versions DEF IInv, Types
<1>5. /\ linked' = FALSE /\ ran' = 0
      /\ phase' = "interpret" \/ (phase' = "idle" /\ status' = 1)
  BY DEF Invoke, GoTo, Exit
<1>6. Types'
  <2>1. 0 .. round \subseteq 0 .. round'
    BY <1>1 DEF IInv, Types
  <2>2. files' \in [FileNames -> 0 .. round' \cup {NotWhole, Intact}]
    BY <1>3, <2>1
  <2> QED
    BY <1>1, <1>5, <2>2 DEF Types, Phases, IInv, NotWhole, Intact
<1>7. Program' = Program /\ Program \in FileNames
  BY <1>1, Versions DEF Program, FileNames
<1>8. Linked'
  BY <1>4, <1>5, <1>7 DEF Linked
<1>9. Phased' /\ StatusTells'
  BY <1>1, <1>4, <1>5, <1>7 DEF Phased, StatusTells, Read, Complete, Assembled, IInv, Types
<1> QED
  BY <1>6, <1>8, <1>9 DEF IInv

-----------------------------------------------------------------------------
\* A step that leaves the files, and what a program was made from, alone.
LEMMA QuietKeeps ==
  ASSUME IInv, phase # "idle",
         UNCHANGED <<path, round, files, linked>>,
         phase' \in Phases,
         phase' \in Read => ~has_next',
         phase' \in Complete => generated' = "yes",
         phase' \in Assembled => phase \in Assembled,
         phase' \notin {"idle", "run"} => ~linked,
         phase' # "idle" => ran' = ran,
         phase' = "idle" => \/ status' = 2
                            \/ status' = 1 /\ ~linked /\ ran' = ran
  PROVE  IInv'
<1>1. Types'
  BY DEF IInv, Types, NotWhole, Intact
<1>2. Program' = Program
  BY DEF Program
<1>3. Linked'
  BY <1>2 DEF IInv, Linked
<1>4. Phased'
  BY DEF IInv, Phased
<1>5. StatusTells'
  BY <1>2 DEF StatusTells, IInv, Phased, Linked
<1> QED
  BY <1>1, <1>3, <1>4, <1>5 DEF IInv

LEMMA InterpretKeeps == IInv /\ Interpret => IInv'
<1> SUFFICES ASSUME IInv, Interpret PROVE IInv'
  OBVIOUS
<1>1. /\ phase = "interpret" /\ ~linked
      /\ UNCHANGED <<path, round, files, linked, ran, generated>>
  BY DEF Interpret, IInv, Phased, Phases, functionVars
<1>2. \/ phase' = IF has_next' THEN "interpret" ELSE "find"
      \/ phase' = "idle" /\ status' \in {1, 2}
  BY DEF Interpret, GoTo, Exit
<1> QED
  BY <1>1, <1>2, QuietKeeps DEF Phases, Read, Complete, Assembled

LEMMA FindMainKeeps == IInv /\ FindMain => IInv'
<1> SUFFICES ASSUME IInv, FindMain PROVE IInv'
  OBVIOUS
<1>1. /\ phase = "find" /\ ~linked /\ ~has_next
      /\ UNCHANGED <<path, round, files, linked, ran, has_next, generated>>
  BY DEF FindMain, IInv, Phased, Phases, Read, functionVars, inputVars
<1>2. phase' = "analyse" \/ (phase' = "idle" /\ status' = 1)
  BY DEF FindMain, GoTo, Exit
<1> QED
  BY <1>1, <1>2, QuietKeeps DEF Phases, Read, Complete, Assembled

LEMMA AnalyseMainKeeps == IInv /\ AnalyseMain => IInv'
<1> SUFFICES ASSUME IInv, AnalyseMain PROVE IInv'
  OBVIOUS
<1>1. /\ phase = "analyse" /\ ~linked /\ ~has_next
      /\ UNCHANGED <<path, round, files, linked, ran, has_next, generated>>
  BY DEF AnalyseMain, IInv, Phased, Phases, Read, functionVars, inputVars
<1>2. phase' = "generate" \/ (phase' = "idle" /\ status' = 2)
  BY DEF AnalyseMain, GoTo, Exit
<1> QED
  BY <1>1, <1>2, QuietKeeps DEF Phases, Read, Complete, Assembled

LEMMA GenerateModuleKeeps == IInv /\ GenerateModule => IInv'
<1> SUFFICES ASSUME IInv, GenerateModule PROVE IInv'
  OBVIOUS
<1>1. /\ phase = "generate" /\ ~linked /\ ~has_next
      /\ UNCHANGED <<path, round, files, linked, ran, has_next>>
  BY DEF GenerateModule, IInv, Phased, Phases, Read, inputVars
<1>2. generated' \in {"no", "yes", "rejected", "overflow"}
  BY DEF GenerateModule, GenerateStep, GenerateRoot, GetFunction, EndFunction, Reject
<1>3. \/ phase' = "generate"
      \/ phase' = "print" /\ generated' = "yes"
      \/ phase' = "idle" /\ status' \in {1, 2}
  BY <1>2 DEF GenerateModule, GoTo, Exit
<1> QED
  BY <1>1, <1>3, QuietKeeps DEF Phases, Read, Complete, Assembled

LEMMA InterruptKeeps == IInv /\ Interrupt => IInv'
<1> SUFFICES ASSUME IInv, Interrupt PROVE IInv'
  OBVIOUS
<1>1. UNCHANGED <<path, round, files, linked, ran>>
  BY DEF Interrupt
<1>2. phase # "idle" /\ phase' = "idle" /\ status' = 2
  BY DEF Interrupt, Exit
<1> QED
  BY <1>1, <1>2, QuietKeeps DEF Phases, Read, Complete, Assembled

-----------------------------------------------------------------------------
\* A step before the linker that may write another file than the program.
LEMMA WriteKeeps ==
  ASSUME IInv, phase # "idle", ~linked,
         UNCHANGED <<path, round, linked, ran, has_next, generated>>,
         NEW f \in {"ll", "S"}, NEW n \in 0 .. round \cup {NotWhole, Intact},
         files' = files \/ files' = [files EXCEPT ![f] = n],
         phase' \in Phases,
         phase' \in Read => ~has_next,
         phase' \in Complete => generated = "yes",
         phase' \in Assembled => files'["S"] = round,
         phase' = "idle" => status' \in {1, 2}
  PROVE  IInv'
<1>1. files' \in [FileNames -> 0 .. round \cup {NotWhole, Intact}]
  BY DEF IInv, Types, FileNames
<1>2. Program' = Program /\ Program \in FileNames /\ Program # f
  BY Versions DEF Program, FileNames
<1>3. files'[Program] = files[Program]
  BY <1>2 DEF IInv, Types
<1>4. Types'
  BY <1>1 DEF IInv, Types, NotWhole, Intact
<1>5. Linked'
  BY <1>2, <1>3 DEF IInv, Linked
<1>6. Phased'
  BY DEF IInv, Phased
<1>7. StatusTells'
  BY <1>2, <1>3 DEF StatusTells, IInv, Phased, Linked
<1> QED
  BY <1>4, <1>5, <1>6, <1>7 DEF IInv

LEMMA PrintModuleKeeps == IInv /\ PrintModule => IInv'
<1> SUFFICES ASSUME IInv, PrintModule PROVE IInv'
  OBVIOUS
<1>1. /\ phase = "print" /\ ~linked /\ ~has_next /\ generated = "yes"
      /\ UNCHANGED <<path, round, linked, ran, has_next, generated>>
  BY DEF PrintModule, IInv, Phased, Phases, Read, Complete, functionVars, inputVars
<1>2. phase' = "emit" \/ (phase' = "idle" /\ status' = 2)
  BY DEF PrintModule, GoTo, Exit
<1>3. PICK n \in 0 .. round \cup {NotWhole, Intact} :
        files' = files \/ files' = [files EXCEPT !["ll"] = n]
  <2>1. round \in 0 .. round
    BY DEF IInv, Types
  <2>2. \/ files' = files
        \/ files' = [files EXCEPT !["ll"] = round]
        \/ files' = [files EXCEPT !["ll"] = NotWhole]
    BY DEF PrintModule, Write
  <2> QED
    BY <2>1, <2>2
<1> QED
  BY <1>1, <1>2, <1>3, WriteKeeps DEF Phases, Read, Complete, Assembled

LEMMA OpenAssemblyKeeps == IInv /\ OpenAssembly => IInv'
<1> SUFFICES ASSUME IInv, OpenAssembly PROVE IInv'
  OBVIOUS
<1>1. /\ phase = "emit" /\ ~linked /\ ~has_next /\ generated = "yes"
      /\ UNCHANGED <<path, round, linked, ran, has_next, generated>>
  BY DEF OpenAssembly, IInv, Phased, Phases, Read, Complete, functionVars, inputVars
<1>2. phase' = "write" \/ (phase' = "idle" /\ status' = 1)
  BY DEF OpenAssembly, GoTo, Exit
<1>3. files' = files \/ files' = [files EXCEPT !["S"] = NotWhole]
  BY DEF OpenAssembly, Write
<1> QED
  BY <1>1, <1>2, <1>3, WriteKeeps DEF Phases, Read, Complete, Assembled

LEMMA WriteAssemblyKeeps == IInv /\ WriteAssembly => IInv'
<1> SUFFICES ASSUME IInv, WriteAssembly PROVE IInv'
  OBVIOUS
<1>1. /\ phase = "write" /\ ~linked /\ ~has_next /\ generated = "yes"
      /\ UNCHANGED <<path, round, linked, ran, has_next, generated>>
  BY DEF WriteAssembly, IInv, Phased, Phases, Read, Complete, functionVars, inputVars
<1>2. round \in 0 .. round /\ "S" \in DOMAIN files
  BY DEF IInv, Types, FileNames
<1>3. CASE Exit(1) /\ UNCHANGED files
  BY <1>1, <1>2, <1>3, WriteKeeps DEF Exit, Phases, Read, Complete, Assembled
<1>4. CASE Write("S", round) /\ GoTo("link")
  <2>1. files' = [files EXCEPT !["S"] = round] /\ files'["S"] = round /\ phase' = "link"
    BY <1>2, <1>4 DEF Write, GoTo
  <2> QED
    BY <1>1, <1>2, <2>1, WriteKeeps DEF Phases, Read, Complete, Assembled
<1> QED
  BY <1>3, <1>4 DEF WriteAssembly

\* What is linked is the assembly of this invocation.
LEMMA LinkKeeps == IInv /\ Link => IInv'
<1> SUFFICES ASSUME IInv, Link PROVE IInv'
  OBVIOUS
<1>1. /\ phase = "link" /\ ~linked /\ ~has_next /\ generated = "yes"
      /\ files["S"] = round /\ round > 0
      /\ UNCHANGED <<path, round, ran, has_next, generated>>
  BY DEF Link, IInv, Phased, Phases, Read, Complete, Assembled, functionVars, inputVars
<1>2. CASE path # "dotted" /\ linked' = TRUE /\ Write(Program, files["S"]) /\ GoTo("run")
  <2>1. Program' = Program /\ Program \in FileNames /\ Program # "S"
    BY <1>1, Versions DEF Program, FileNames
  <2>2. files' = [files EXCEPT ![Program] = round] /\ phase' = "run"
    BY <1>1, <1>2 DEF Write, GoTo
  <2>3. files' \in [FileNames -> 0 .. round \cup {NotWhole, Intact}]
    BY <2>1, <2>2 DEF IInv, Types
  <2>4. files'["S"] = round /\ files'[Program] = round
    BY <1>1, <2>1, <2>2 DEF IInv, Types, FileNames
  <2>5. Types'
    BY <1>1, <1>2, <2>2, <2>3 DEF IInv, Types, Phases, Read, NotWhole, Intact
  <2>6. Linked'
    BY <1>1, <1>2, <2>1, <2>4 DEF Linked
  <2>7. Phased'
    BY <1>1, <2>2, <2>4 DEF IInv, Phased
  <2>8. StatusTells'
    BY <2>2 DEF StatusTells
  <2> QED
    BY <2>5, <2>6, <2>7, <2>8 DEF IInv
<1>3. CASE UNCHANGED <<linked, files>> /\ (GoTo("run") \/ Exit(2))
  BY <1>1, <1>3, QuietKeeps DEF GoTo, Exit, Phases, Read, Complete, Assembled
<1> QED
  BY <1>2, <1>3 DEF Link

\* A program that was linked, and to which the path leads, is the one run.
LEMMA ExecModuleKeeps == IInv /\ ExecModule => IInv'
<1> SUFFICES ASSUME IInv, ExecModule PROVE IInv'
  OBVIOUS
<1>1. /\ phase = "run" /\ ~has_next /\ generated = "yes"
      /\ files["S"] = round /\ round > 0
      /\ UNCHANGED <<path, round, files, linked, has_next, generated>>
  BY DEF ExecModule, IInv, Phased, Phases, Read, Complete, Assembled, functionVars, inputVars
<1>2. CASE UNCHANGED ran /\ Exit(2)
  BY <1>1, <1>2, QuietKeeps DEF Exit, Phases, Read, Complete, Assembled
<1>3. CASE ran' = (IF Runnable THEN files[Program] ELSE 0) /\ Exit(0)
  <2>1. phase' = "idle" /\ status' = 0 /\ Program' = Program
    BY <1>1, <1>3 DEF Exit, Program
  <2>2. linked => files[Program] = round /\ path # "dotted"
    BY DEF IInv, Linked
  <2>3. linked /\ path # "absolute" => Runnable
    BY <1>1, <2>2 DEF Runnable, IInv, Types, Paths
  <2>4. StatusTells'
    BY <1>1, <1>3, <2>1, <2>2, <2>3 DEF StatusTells
  <2>5. Types' /\ Linked' /\ Phased'
    BY <1>1, <2>1 DEF IInv, Types, Linked, Phased, Phases, Read, Complete, Assembled,
                      NotWhole, Intact
  <2> QED
    BY <2>4, <2>5 DEF IInv
<1> QED
  BY <1>2, <1>3 DEF ExecModule

-----------------------------------------------------------------------------
\* Before the first invocation nothing has been written.
LEMMA InitIInv == Init => IInv
<1> SUFFICES ASSUME Init PROVE IInv
  OBVIOUS
<1> USE RoundsAssumption DEF Init
<1>1. Types
  <2>1. files \in [FileNames -> 0 .. round \cup {NotWhole, Intact}]
    OBVIOUS
  <2>2. round \in 0 .. MaxRounds
    OBVIOUS
  <2>3. phase \in Phases /\ linked \in BOOLEAN /\ path \in Paths
    BY DEF Phases
  <2> QED
    BY <2>1, <2>2, <2>3 DEF Types
<1>2. Linked /\ Phased /\ StatusTells
  BY DEF Linked, Phased, StatusTells, Read, Complete, Assembled
<1> QED
  BY <1>1, <1>2 DEF IInv

LEMMA NextIInv == IInv /\ [Next]_allVars => IInv'
<1> SUFFICES ASSUME IInv, [Next]_allVars PROVE IInv'
  OBVIOUS
<1>1. CASE Next
  BY <1>1, InvokeKeeps, InterpretKeeps, FindMainKeeps, AnalyseMainKeeps, GenerateModuleKeeps,
     PrintModuleKeeps, OpenAssemblyKeeps, WriteAssemblyKeeps, LinkKeeps, ExecModuleKeeps,
     InterruptKeeps DEF Next, Step
<1>2. CASE UNCHANGED allVars
  <2>1. UNCHANGED <<path, round, phase, status, files, linked, ran, has_next, generated>>
    BY <1>2 DEF allVars, driverVars, inputVars, functionVars
  <2>2. Program' = Program
    BY <2>1 DEF Program
  <2> QED
    BY <2>1, <2>2 DEF IInv, Types, Linked, Phased, StatusTells, NotWhole, Intact
<1> QED
  BY <1>1, <1>2

\* However often the program is called, interrupted and fails, an exit status of 0
\* means that the file was read to its end and that the assembly on disk, the program
\* linked from it and the one run are of this invocation; 1 that no program was
\* replaced or run.
THEOREM StatusAlwaysTells == Spec => []StatusTells
<1>1. Init => IInv
  BY InitIInv
<1>2. IInv /\ [Next]_allVars => IInv'
  BY NextIInv
<1>3. IInv => StatusTells
  BY DEF IInv
<1> QED
  BY <1>1, <1>2, <1>3, PTL DEF Spec

-----------------------------------------------------------------------------
(***************************************************************************)
(* The module generated.                                                   *)
(***************************************************************************)
ActiveWords == {active[i].w : i \in 1 .. Len(active)}

Typed ==
  /\ calls \in Seq(Seq(0 .. Len(calls))) /\ Len(calls) > 0
  /\ active \in Seq([w : Words, at : Nat \ {0}])
  /\ created \in Seq(Words)
  /\ visited \subseteq Needed

\* The active calls are a path from the root.
Path ==
  /\ IF active = <<>> THEN visited = {} ELSE active[1].w = Root
  /\ ActiveWords \subseteq Needed
  /\ \A i \in 1 .. Len(active) : active[i].at <= Len(calls[active[i].w]) + 1
  /\ \A i \in 1 .. Len(active) - 1 :
       /\ active[i].at <= Len(calls[active[i].w])
       /\ calls[active[i].w][active[i].at] = active[i + 1].w

\* What has been passed is remembered.
Passed ==
  \A i \in 1 .. Len(active) : \A k \in 1 .. active[i].at - 1 :
    calls[active[i].w][k] \in visited

\* Words remembered are complete and not recursive, and none is active.
Remembered ==
  /\ Closed(visited)
  /\ visited \cap faulty = {}
  /\ \A w \in visited : Unsupported \notin Range(calls[w])
  /\ visited \cap ActiveWords = {}
  /\ \A S \in SUBSET visited : S # {} => \E w \in S : Called(w) \cap S = {}

\* Functions are created twice only while a word calls itself.
Recurring == \E i, j \in 1 .. Len(active) : i < j /\ active[i].w = active[j].w

CreatedOnce ==
  /\ Range(created) = visited \cup ActiveWords
  /\ IsInjective(created) \/ Recurring

Generating == Typed /\ Path /\ Passed /\ Remembered /\ CreatedOnce /\ verified = visited

FInv == (generated = "no" => Generating) /\ ModuleComplete

-----------------------------------------------------------------------------
(***************************************************************************)
(* What the types say.                                                     *)
(***************************************************************************)
LEMMA CallsTyped ==
  ASSUME Typed
  PROVE  /\ Len(calls) \in Nat /\ Words = 1 .. Len(calls) /\ Root \in Words
         /\ Unsupported \notin Words
         /\ \A w \in Words :
              /\ Len(calls[w]) \in Nat /\ DOMAIN calls[w] = 1 .. Len(calls[w])
              /\ \A k \in 1 .. Len(calls[w]) : calls[w][k] \in Words \cup {Unsupported}
              /\ Called(w) = {calls[w][k] : k \in 1 .. Len(calls[w])} \ {Unsupported}
<1>1. /\ Len(calls) \in Nat /\ Words = 1 .. Len(calls)
      /\ \A w \in 1 .. Len(calls) : calls[w] \in Seq(0 .. Len(calls))
  BY LenProperties, ElementOfSeq DEF Typed, Words
<1>2. \A w \in Words : /\ Len(calls[w]) \in Nat /\ DOMAIN calls[w] = 1 .. Len(calls[w])
                       /\ \A k \in 1 .. Len(calls[w]) : calls[w][k] \in 0 .. Len(calls)
  BY <1>1, LenProperties, ElementOfSeq
<1>3. \A w \in Words : Called(w) = {calls[w][k] : k \in 1 .. Len(calls[w])} \ {Unsupported}
  BY <1>2 DEF Called, Range
<1> QED
  BY <1>1, <1>2, <1>3 DEF Typed, Root, Unsupported

LEMMA ActiveTyped ==
  ASSUME Typed
  PROVE  /\ Len(active) \in Nat
         /\ DOMAIN active = 1 .. Len(active)
         /\ active = <<>> <=> Len(active) = 0
         /\ \A i \in 1 .. Len(active) :
              /\ active[i] \in [w : Words, at : Nat \ {0}]
              /\ active[i].w \in Words /\ active[i].at \in Nat \ {0}
<1>1. active \in Seq([w : Words, at : Nat \ {0}])
  BY DEF Typed
<1>2. Len(active) \in Nat /\ DOMAIN active = 1 .. Len(active)
  BY <1>1, LenProperties
<1>3. active = <<>> <=> Len(active) = 0
  BY <1>1, EmptySeq
<1>4. \A i \in 1 .. Len(active) : active[i] \in [w : Words, at : Nat \ {0}]
  BY <1>1, ElementOfSeq
<1> QED
  BY <1>2, <1>3, <1>4

\* The words needed are the least set closed under calls.
LEMMA NeededLeast ==
  ASSUME Typed
  PROVE  /\ Needed \subseteq Words
         /\ Root \in Needed
         /\ Closed(Needed)
         /\ \A S \in SUBSET Words : Root \in S /\ Closed(S) => Needed \subseteq S
<1>1. Root \in Needed /\ Needed \subseteq Words
  BY CallsTyped DEF Needed
<1>2. ASSUME NEW w \in Needed, NEW v \in Called(w) PROVE v \in Needed
  <2>1. v \in Words
    BY <1>1, CallsTyped
  <2>2. ASSUME NEW S \in SUBSET Words, Root \in S, Closed(S) PROVE v \in S
    BY <2>2 DEF Needed, Closed
  <2> QED
    BY <2>1, <2>2 DEF Needed
<1> QED
  BY <1>1, <1>2 DEF Needed, Closed

\* The words of a path of which one comes twice call each other in a circle.
LEMMA RecurringRecursive ==
  ASSUME Typed, Path, Recurring
  PROVE  Recursive
<1> DEFINE n == Len(active)
<1>1. PICK i, j \in 1 .. n : i < j /\ active[i].w = active[j].w
  BY DEF Recurring
<1> DEFINE S == {active[k].w : k \in i .. j - 1}
<1>2. n \in Nat
  BY ActiveTyped
<1>3. S \in SUBSET Needed /\ S # {}
  BY <1>1, <1>2 DEF Path, ActiveWords
<1>4. ASSUME NEW w \in S PROVE Called(w) \cap S # {}
  <2>1. PICK k \in i .. j - 1 : w = active[k].w
    OBVIOUS
  <2>2. k \in 1 .. n - 1 /\ k \in 1 .. n
    BY <1>1, <1>2, <2>1
  <2> DEFINE v == active[k + 1].w
  <2>3. v \in S
    <3>1. CASE k + 1 = j
      BY <1>1, <1>2, <3>1
    <3>2. CASE k + 1 # j
      BY <1>1, <1>2, <2>1, <3>2
    <3> QED
      BY <3>1, <3>2
  <2>4. active[k].at \in 1 .. Len(calls[w]) /\ calls[w][active[k].at] = v
    BY SMTT(30), <2>1, <2>2, ActiveTyped, CallsTyped DEF Path
  <2>5. v \in Words
    BY <1>1, <1>2, <2>2, ActiveTyped
  <2>6. v \in Called(w)
    BY SMTT(30), <2>1, <2>2, <2>4, <2>5, ActiveTyped, CallsTyped
  <2> QED
    BY <2>3, <2>6
<1> QED
  BY <1>3, <1>4 DEF Recursive

-----------------------------------------------------------------------------
(***************************************************************************)
(* The steps of generate keep what holds while it is generating.           *)
(***************************************************************************)
\* A function is created for a word called, or for the root.
LEMMA CreateKeeps ==
  ASSUME Generating, NEW v \in Needed, v \notin visited, Create(v),
         UNCHANGED <<calls, faulty, visited, verified>>,
         active = <<>> => v = Root,
         active # <<>> => /\ active[Len(active)].at <= Len(calls[active[Len(active)].w])
                          /\ calls[active[Len(active)].w][active[Len(active)].at] = v
  PROVE  Generating'
<1> DEFINE n == Len(active)
<1> USE DEF Generating
<1>1. /\ n \in Nat /\ v \in Words /\ Words' = Words /\ Needed' = Needed
      /\ \A i \in 1 .. n : active[i].w \in Words /\ active[i].at \in Nat \ {0}
  BY ActiveTyped, NeededLeast DEF Words, Needed, Closed, Called
<1>2. /\ active' \in Seq([w : Words, at : Nat \ {0}])
      /\ Len(active') = n + 1
      /\ \A i \in 1 .. n : active'[i] = active[i]
      /\ active'[n + 1].w = v /\ active'[n + 1].at = 1
  <2> DEFINE e == [w |-> v, at |-> 1]
  <2>1. e \in [w : Words, at : Nat \ {0}] /\ e.w = v /\ e.at = 1
    BY <1>1
  <2>2. active' = Append(active, e)
    BY DEF Create
  <2> QED
    BY <2>1, <2>2, AppendProperties DEF Typed
<1>3. ActiveWords' = ActiveWords \cup {v}
  BY SMTT(30), <1>1, <1>2 DEF ActiveWords
<1>4. /\ created' \in Seq(Words)
      /\ Range(created') = Range(created) \cup {v}
      /\ IsInjective(created) /\ v \notin Range(created) => IsInjective(created')
  <2>1. /\ created' = Append(created, v) /\ created \in Seq(Words)
    BY DEF Create, Typed
  <2>2. /\ created' \in Seq(Words) /\ Len(created') = Len(created) + 1
        /\ \A i \in 1 .. Len(created) : created'[i] = created[i]
        /\ created'[Len(created) + 1] = v
    BY <1>1, <2>1, AppendProperties
  <2>3. /\ Len(created) \in Nat /\ DOMAIN created = 1 .. Len(created)
        /\ DOMAIN created' = 1 .. Len(created) + 1
    BY <2>1, <2>2, LenProperties
  <2>4. Range(created') = Range(created) \cup {v}
    BY <2>2, <2>3 DEF Range
  <2>5. IsInjective(created) /\ v \notin Range(created) => IsInjective(created')
    BY <2>2, <2>3 DEF Range, IsInjective
  <2> QED
    BY <2>2, <2>4, <2>5
<1>5. Typed'
  BY <1>1, <1>2, <1>4 DEF Typed
<1>6. Path'
  <2>1. active' # <<>> /\ active'[1].w = Root
    BY <1>1, <1>2, ActiveTyped DEF Path
  <2>2. ActiveWords' \subseteq Needed'
    BY <1>1, <1>3 DEF Path
  <2>3. ASSUME NEW i \in 1 .. n + 1
        PROVE  active'[i].at <= Len(calls[active'[i].w]) + 1
    <3>1. CASE i = n + 1
      BY <1>1, <1>2, <3>1, CallsTyped
    <3>2. CASE i \in 1 .. n
      BY <1>2, <3>2 DEF Path
    <3> QED
      BY <1>1, <3>1, <3>2
  <2>4. ASSUME NEW i \in 1 .. n
        PROVE  /\ active'[i].at <= Len(calls[active'[i].w])
               /\ calls[active'[i].w][active'[i].at] = active'[i + 1].w
    <3>1. CASE i = n
      BY <1>1, <1>2, <3>1, ActiveTyped
    <3>2. CASE i \in 1 .. n - 1
      <4>1. i + 1 \in 1 .. n
        BY <1>1, <3>2
      <4> QED
        BY <1>2, <3>2, <4>1 DEF Path
    <3> QED
      BY <1>1, <3>1, <3>2
  <2>5. 1 .. Len(active') = 1 .. n + 1 /\ 1 .. Len(active') - 1 = 1 .. n
    BY <1>1, <1>2
  <2> QED
    BY <2>1, <2>2, <2>3, <2>4, <2>5 DEF Path
<1>7. Passed'
  <2> SUFFICES ASSUME NEW i \in 1 .. n + 1, NEW k \in 1 .. active'[i].at - 1
               PROVE  calls[active'[i].w][k] \in visited
    BY <1>2 DEF Passed
  <2>1. i \in 1 .. n
    BY <1>1, <1>2
  <2> QED
    BY <1>2, <2>1 DEF Passed
<1>8. Remembered'
  BY <1>3 DEF Remembered, Closed, Called
<1>9. CreatedOnce'
  <2>1. Range(created') = visited' \cup ActiveWords'
    BY <1>3, <1>4 DEF CreatedOnce
  <2>2. CASE Recurring
    <3>1. PICK i, j \in 1 .. n : i < j /\ active[i].w = active[j].w
      BY <2>2 DEF Recurring
    <3>2. i \in 1 .. n + 1 /\ j \in 1 .. n + 1 /\ active'[i].w = active'[j].w
      BY <1>1, <1>2, <3>1
    <3>3. Recurring'
      BY <1>2, <3>1, <3>2 DEF Recurring
    <3> QED
      BY <2>1, <3>3 DEF CreatedOnce
  <2>3. CASE IsInjective(created) /\ v \notin Range(created)
    BY <1>4, <2>1, <2>3 DEF CreatedOnce
  <2>4. CASE v \in Range(created)
    <3>1. PICK i \in 1 .. n : active[i].w = v
      BY <2>4 DEF CreatedOnce, ActiveWords
    <3>2. Recurring'
      BY <1>1, <1>2, <3>1 DEF Recurring
    <3> QED
      BY <2>1, <3>2 DEF CreatedOnce
  <2> QED
    BY <2>2, <2>3, <2>4 DEF CreatedOnce
<1> QED
  BY <1>5, <1>6, <1>7, <1>8, <1>9

\* The innermost call goes on behind a word that is remembered.
LEMMA ProceedKeeps ==
  ASSUME Generating, active # <<>>,
         active[Len(active)].at <= Len(calls[active[Len(active)].w]),
         calls[active[Len(active)].w][active[Len(active)].at] \in visited,
         active' = Proceed(active),
         UNCHANGED <<calls, faulty, visited, created, verified>>
  PROVE  Generating'
<1> DEFINE n == Len(active)
           e == [active[n] EXCEPT !.at = @ + 1]
<1> USE DEF Generating
<1>1. /\ n \in Nat \ {0} /\ n \in 1 .. n /\ Words' = Words /\ Needed' = Needed
      /\ \A i \in 1 .. n : /\ active[i] \in [w : Words, at : Nat \ {0}]
                          /\ active[i].w \in Words /\ active[i].at \in Nat \ {0}
  BY ActiveTyped DEF Words, Needed, Closed, Called
<1>2. e \in [w : Words, at : Nat \ {0}] /\ e.w = active[n].w /\ e.at = active[n].at + 1
  BY <1>1
<1>3. active' = [active EXCEPT ![n] = e]
  BY DEF Proceed
<1>4. /\ active' \in Seq([w : Words, at : Nat \ {0}])
      /\ Len(active') = n
      /\ \A i \in 1 .. n : active'[i] = IF i = n THEN e ELSE active[i]
  <2> HIDE DEF e
  <2> QED
    BY <1>1, <1>2, <1>3, ExceptSeq DEF Typed
<1> HIDE DEF e
<1>5. \A i \in 1 .. n : /\ active'[i].w = active[i].w
                        /\ active'[i].at = IF i = n THEN active[i].at + 1 ELSE active[i].at
  BY <1>2, <1>4
<1>6. ActiveWords' = ActiveWords
  BY <1>4, <1>5 DEF ActiveWords
<1>7. Typed'
  BY <1>1, <1>4 DEF Typed
<1>8. Path'
  <2>1. active' # <<>> /\ active'[1].w = Root
    BY <1>1, <1>4, <1>5, <1>7, EmptySeq DEF Path, Typed
  <2>2. ActiveWords' \subseteq Needed'
    BY <1>1, <1>6 DEF Path
  <2>3. ASSUME NEW i \in 1 .. n
        PROVE  active'[i].at <= Len(calls[active'[i].w]) + 1
    <3>1. CASE i = n
      BY <1>1, <1>5, <3>1, CallsTyped
    <3>2. CASE i # n
      BY <1>5, <3>2 DEF Path
    <3> QED
      BY <3>1, <3>2
  <2>4. ASSUME NEW i \in 1 .. n - 1
        PROVE  /\ active'[i].at <= Len(calls[active'[i].w])
               /\ calls[active'[i].w][active'[i].at] = active'[i + 1].w
    <3>1. i \in 1 .. n /\ i + 1 \in 1 .. n /\ i # n
      BY <1>1
    <3> QED
      BY <1>5, <3>1 DEF Path
  <2> QED
    BY <1>4, <2>1, <2>2, <2>3, <2>4 DEF Path
<1>9. Passed'
  <2> SUFFICES ASSUME NEW i \in 1 .. n, NEW k \in 1 .. active'[i].at - 1
               PROVE  calls[active[i].w][k] \in visited
    BY <1>4, <1>5 DEF Passed
  <2>1. CASE k = active[i].at
    BY <1>1, <1>5, <2>1
  <2>2. CASE k # active[i].at
    BY <1>1, <1>5, <2>2 DEF Passed
  <2> QED
    BY <2>1, <2>2
<1>10. Remembered'
  BY <1>6 DEF Remembered, Closed, Called
<1>11. CreatedOnce'
  BY <1>4, <1>5, <1>6 DEF CreatedOnce, Recurring
<1> QED
  BY <1>7, <1>8, <1>9, <1>10, <1>11

\* A word whose instructions are all passed calls only remembered words, is none of
\* the words further out, and makes no circle of the remembered ones.
LEMMA EndedWord ==
  ASSUME Generating, active # <<>>,
         active[Len(active)].at > Len(calls[active[Len(active)].w]),
         NEW x, x = active[Len(active)].w, x \notin faulty
  PROVE  /\ x \in Needed /\ x \notin visited
         /\ Called(x) \subseteq visited /\ Unsupported \notin Range(calls[x])
         /\ \A i \in 1 .. Len(active) - 1 : active[i].w # x
         /\ \A S \in SUBSET (visited \cup {x}) : S # {} => \E w \in S : Called(w) \cap S = {}
<1> DEFINE n == Len(active)
<1> USE DEF Generating
<1>1. n \in Nat \ {0} /\ n \in 1 .. n /\ x \in Words /\ active[n].at \in Nat
  BY ActiveTyped
<1>2. x \in Needed /\ x \notin visited
  BY <1>1 DEF Path, Remembered, ActiveWords
<1>3. \A k \in 1 .. Len(calls[x]) : calls[x][k] \in visited
  <2>1. active[n].at = Len(calls[x]) + 1
    <3>1. active[n].at <= Len(calls[x]) + 1 /\ active[n].at > Len(calls[x])
      BY <1>1 DEF Path
    <3>2. Len(calls[x]) \in Nat
      BY <1>1, CallsTyped
    <3> QED
      BY <1>1, <3>1, <3>2
  <2> QED
    <3>1. \A k \in 1 .. active[n].at - 1 : calls[active[n].w][k] \in visited
      BY <1>1 DEF Passed
    <3> QED
      BY <1>1, <2>1, <3>1, CallsTyped
<1>4. visited \subseteq Words
  BY NeededLeast DEF Typed
<1>5. Called(x) \subseteq visited /\ Unsupported \notin Range(calls[x])
  BY <1>1, <1>3, <1>4, CallsTyped DEF Range
<1>6. ASSUME NEW i \in 1 .. n - 1, active[i].w = x PROVE FALSE
  <2>1. i \in 1 .. n /\ i + 1 \in 1 .. n
    BY <1>1
  <2>2. active[i].at \in 1 .. Len(calls[x]) /\ calls[x][active[i].at] = active[i + 1].w
    BY <1>1, <1>6, <2>1, ActiveTyped, CallsTyped DEF Path
  <2>3. active[i + 1].w \in visited
    BY <1>3, <2>2
  <2> QED
    BY <2>1, <2>3 DEF Remembered, ActiveWords
<1>7. ASSUME NEW S \in SUBSET (visited \cup {x}), S # {}
      PROVE  \E w \in S : Called(w) \cap S = {}
  <2> DEFINE T == S \ {x}
  <2>1. CASE T = {}
    BY <1>2, <1>5, <1>7, <2>1
  <2>2. CASE T # {}
    <3>1. PICK w \in T : Called(w) \cap T = {}
      BY <2>2 DEF Remembered
    <3>2. Called(w) \subseteq visited
      BY <3>1 DEF Remembered, Closed
    <3> QED
      BY <1>2, <3>1, <3>2
  <2> QED
    BY <2>1, <2>2
<1> QED
  BY <1>2, <1>5, <1>6, <1>7

\* The end of a function that another one calls.
LEMMA EndKeeps ==
  ASSUME Generating, active # <<>>, Len(active) # 1,
         active[Len(active)].at > Len(calls[active[Len(active)].w]),
         active[Len(active)].w \notin faulty,
         visited' = visited \cup {active[Len(active)].w},
         verified' = verified \cup {active[Len(active)].w},
         active' = Proceed(Front(active)),
         UNCHANGED <<calls, faulty, created>>
  PROVE  Generating'
<1> DEFINE n == Len(active)
           m == n - 1
           x == active[n].w
           e == [active[m] EXCEPT !.at = @ + 1]
<1>0. Typed /\ Path /\ Passed /\ Remembered /\ CreatedOnce /\ verified = visited
  BY DEF Generating
<1>len. n \in Nat /\ n # 0 /\ n # 1
  BY <1>0, ActiveTyped
<1>bounds. /\ n \in Nat \ {0} /\ m \in Nat \ {0} /\ n = m + 1 /\ m = n - 1
      /\ m \in 1 .. n /\ n \in 1 .. n /\ m \in 1 .. m
  <2> HIDE DEF n
  <2> QED
    BY <1>len
<1>typed. \A i \in 1 .. n : /\ active[i] \in [w : Words, at : Nat \ {0}]
                        /\ active[i].w \in Words /\ active[i].at \in Nat \ {0}
  BY <1>0, ActiveTyped
<1>same. Words' = Words /\ Needed' = Needed
  BY DEF Words, Needed, Closed, Called
<1>2. /\ x \in Needed /\ x \notin visited
      /\ Called(x) \subseteq visited /\ Unsupported \notin Range(calls[x])
      /\ \A i \in 1 .. m : active[i].w # x
      /\ \A S \in SUBSET (visited \cup {x}) : S # {} => \E w \in S : Called(w) \cap S = {}
  BY EndedWord
<1> HIDE DEF m
<1>3. e \in [w : Words, at : Nat \ {0}] /\ e.w = active[m].w /\ e.at = active[m].at + 1
  BY <1>bounds, <1>typed, <1>bounds, <1>typed
<1>4. /\ Front(active) \in Seq([w : Words, at : Nat \ {0}])
      /\ Len(Front(active)) = m
      /\ \A i \in 1 .. m : Front(active)[i] = active[i]
  <2>1. \A i \in 1 .. m : active[i] \in [w : Words, at : Nat \ {0}]
    BY <1>bounds, <1>typed, <1>bounds, <1>typed
  <2>2. Front(active) = SubSeq(active, 1, m)
    BY DEF Front, m
  <2>3. 1 \in Int /\ m \in Int /\ 1 <= m /\ m - 1 + 1 = m
    BY <1>bounds, <1>typed, <1>bounds, <1>typed
  <2>4. /\ SubSeq(active, 1, m) \in Seq([w : Words, at : Nat \ {0}])
        /\ Len(SubSeq(active, 1, m)) = m
        /\ \A i \in 1 .. m : SubSeq(active, 1, m)[i] = active[1 + i - 1]
    BY <2>1, <2>3, SubSeqProperties
  <2> QED
    BY <2>2, <2>3, <2>4
<1>5. /\ active' \in Seq([w : Words, at : Nat \ {0}])
      /\ Len(active') = m
      /\ \A i \in 1 .. m : active'[i] = IF i = m THEN e ELSE active[i]
  <2>1. active' = [Front(active) EXCEPT ![m] = e]
    BY <1>bounds, <1>typed, <1>4 DEF Proceed
  <2> HIDE DEF e
  <2> QED
    BY <1>bounds, <1>typed, <1>3, <1>4, <2>1, ExceptSeq
<1> HIDE DEF e
<1>6. \A i \in 1 .. m : /\ active'[i].w = active[i].w
                        /\ active'[i].at = IF i = m THEN active[i].at + 1 ELSE active[i].at
  BY <1>3, <1>5
<1>7. ActiveWords = ActiveWords' \cup {x} /\ x \notin ActiveWords'
  <2>1. ActiveWords' = {active[i].w : i \in 1 .. m}
    BY <1>5, <1>6 DEF ActiveWords
  <2>2. 1 .. n = 1 .. m \cup {n}
    BY <1>len, <1>bounds
  <2>3. ActiveWords = {active[i].w : i \in 1 .. m} \cup {x}
    BY <2>2 DEF ActiveWords
  <2> QED
    BY <1>2, <2>1, <2>3
<1>8. Typed'
  BY <1>0, <1>bounds, <1>typed, <1>same, <1>2, <1>5 DEF Typed
<1>9. /\ active[m].at <= Len(calls[active[m].w])
      /\ calls[active[m].w][active[m].at] = x
  BY <1>0, <1>bounds, <1>typed DEF Path
<1>10. Path'
  <2>1. active' # <<>> /\ active'[1].w = Root
    <3>1. active' # <<>>
      BY <1>bounds, <1>5, EmptySeq
    <3>2. active[1].w = Root /\ 1 \in 1 .. m
      BY <1>0, <1>bounds DEF Path
    <3> QED
      BY <1>6, <3>1, <3>2
  <2>2. ActiveWords' \subseteq Needed'
    BY <1>0, <1>bounds, <1>typed, <1>same, <1>7 DEF Path
  <2>3. ASSUME NEW i \in 1 .. m
        PROVE  active'[i].at <= Len(calls[active'[i].w]) + 1
    <3>1. CASE i = m
      <4>1. active[m].w \in Words /\ active[m].at \in Nat /\ Len(calls[active[m].w]) \in Nat
        BY <1>0, <1>bounds, <1>typed, CallsTyped
      <4>2. active'[m].w = active[m].w /\ active'[m].at = active[m].at + 1
        BY <1>bounds, <1>6
      <4> QED
        BY <1>9, <3>1, <4>1, <4>2
    <3>2. CASE i # m
      BY SMTT(30), <1>0, <1>bounds, <1>typed, <1>same, <1>6, <3>2 DEF Path
    <3> QED
      BY <3>1, <3>2
  <2>4. ASSUME NEW i \in 1 .. m - 1
        PROVE  /\ active'[i].at <= Len(calls[active'[i].w])
               /\ calls[active'[i].w][active'[i].at] = active'[i + 1].w
    <3>1. i \in 1 .. m /\ i + 1 \in 1 .. m /\ i # m /\ i \in 1 .. n - 1
      BY <1>bounds, <1>typed, <1>bounds, <1>typed
    <3> QED
      BY <1>0, <1>6, <3>1 DEF Path
  <2> QED
    BY <1>5, <2>1, <2>2, <2>3, <2>4 DEF Path
<1>11. Passed'
  <2> SUFFICES ASSUME NEW i \in 1 .. m, NEW k \in 1 .. active'[i].at - 1
               PROVE  calls[active[i].w][k] \in visited \cup {x}
    BY ZenonT(30), <1>5, <1>6 DEF Passed
  <2>1. i \in 1 .. n
    BY <1>bounds, <1>typed, <1>bounds, <1>typed
  <2>2. CASE i = m /\ k = active[m].at
    BY <1>9, <2>2
  <2>3. CASE ~(i = m /\ k = active[m].at)
    <3>1. k \in 1 .. active[i].at - 1
      BY <1>bounds, <1>typed, <1>6, <2>1, <2>3
    <3> QED
      BY <1>0, <2>1, <3>1 DEF Passed
  <2> QED
    BY <2>2, <2>3
<1>12. Remembered'
  BY <1>0, <1>2, <1>7 DEF Remembered, Closed, Called
<1>13. CreatedOnce'
  <2>1. Range(created') = visited' \cup ActiveWords'
    BY <1>0, <1>7 DEF CreatedOnce
  <2>2. ASSUME Recurring PROVE Recurring'
    <3>1. PICK i, j \in 1 .. n : i < j /\ active[i].w = active[j].w
      BY <2>2 DEF Recurring
    <3>2. i \in 1 .. m /\ j \in 1 .. m
      BY <1>bounds, <1>typed, <1>2, <3>1
    <3> QED
      BY <1>5, <1>6, <3>1, <3>2 DEF Recurring
  <2> QED
    BY <1>0, <2>1, <2>2 DEF CreatedOnce
<1> QED
  BY <1>0, <1>8, <1>10, <1>11, <1>12, <1>13 DEF Generating

-----------------------------------------------------------------------------
(***************************************************************************)
(* How the generation ends.                                                *)
(***************************************************************************)
\* The end of the function of the root: what was remembered and the root are the
\* least set closed under calls.
LEMMA RootComplete ==
  ASSUME Generating, Len(active) = 1,
         active[Len(active)].at > Len(calls[active[Len(active)].w]),
         active[Len(active)].w \notin faulty,
         verified' = verified \cup {active[Len(active)].w},
         generated' = "yes",
         UNCHANGED <<calls, faulty, created>>
  PROVE  ModuleComplete'
<1> DEFINE V == visited \cup {Root}
<1>1. Typed /\ Path /\ Passed /\ Remembered /\ CreatedOnce /\ verified = visited
  BY DEF Generating
<1>2. active # <<>> /\ active[Len(active)].w = Root
  BY <1>1, ActiveTyped DEF Path
<1>3. /\ Called(Root) \subseteq visited /\ Unsupported \notin Range(calls[Root])
      /\ Root \in Needed
      /\ \A S \in SUBSET V : S # {} => \E w \in S : Called(w) \cap S = {}
  BY <1>2, EndedWord
<1>4. V = Needed
  <2>1. V \subseteq Needed
    BY <1>1, <1>3 DEF Typed
  <2>2. Closed(V)
    BY <1>1, <1>3 DEF Closed, Remembered
  <2>3. V \in SUBSET Words /\ Root \in V
    BY <1>1, <2>1, NeededLeast
  <2> QED
    BY <1>1, <2>1, <2>2, <2>3, NeededLeast
<1>5. ActiveWords = {Root}
  BY <1>2 DEF ActiveWords
<1>6. Range(created) = Needed
  BY <1>1, <1>4, <1>5 DEF CreatedOnce
<1>7. IsInjective(created)
  BY <1>1 DEF CreatedOnce, Recurring
<1>8. Needed \cap faulty = {} /\ \A w \in Needed : Unsupported \notin Range(calls[w])
  BY <1>1, <1>2, <1>3, <1>4 DEF Remembered
<1>9. ~Recursive
  <2> HIDE DEF V
  <2> QED
    BY <1>3, <1>4 DEF Recursive
<1>10. verified' = Needed
  BY <1>1, <1>2, <1>4
<1>11. Needed' = Needed /\ Recursive' = Recursive
  BY DEF Needed, Recursive, Words, Closed, Called
<1> QED
  BY <1>6, <1>7, <1>8, <1>9, <1>10, <1>11 DEF ModuleComplete

\* More active calls than there are words needed: one of them comes twice.
LEMMA Overflowing ==
  ASSUME Generating, Len(active) = MaxCalls, NEW v \in Needed, v \notin visited,
         active # <<>>,
         active[Len(active)].at <= Len(calls[active[Len(active)].w]),
         calls[active[Len(active)].w][active[Len(active)].at] = v
  PROVE  Recursive \/ Cardinality(Needed) > MaxCalls
<1> SUFFICES ASSUME ~(Cardinality(Needed) > MaxCalls) PROVE Recursive
  OBVIOUS
<1> DEFINE n == MaxCalls
           f == [i \in 1 .. n + 1 |-> IF i = n + 1 THEN v ELSE active[i].w]
<1>1. Typed /\ Path /\ n \in Nat \ {0} /\ n = Len(active)
  BY CallsAssumption DEF Generating
<1>2. IsFiniteSet(Needed) /\ Cardinality(Needed) \in Nat
  <2>1. Needed \in SUBSET (1 .. Len(calls)) /\ Len(calls) \in Nat
    BY <1>1, NeededLeast, CallsTyped
  <2>2. IsFiniteSet(1 .. Len(calls))
    BY <2>1, FS_Interval
  <2> QED
    BY <2>1, <2>2, FS_Subset, FS_CardinalityType
<1>3. IsFiniteSet(1 .. n + 1) /\ Cardinality(1 .. n + 1) = n + 1
  BY <1>1, FS_Interval
<1>4. f \in [1 .. n + 1 -> Needed]
  BY <1>1 DEF Path, ActiveWords
<1>5. \E i, j \in 1 .. n + 1 : i # j /\ f[i] = f[j]
  <2> HIDE DEF f, n
  <2>1. Cardinality(Needed) < Cardinality(1 .. n + 1)
    BY <1>1, <1>2, <1>3 DEF n
  <2> QED
    BY <1>2, <1>3, <1>4, <2>1, FS_PigeonHole
<1>6. PICK i, j \in 1 .. n + 1 : i < j /\ f[i] = f[j]
  <2> HIDE DEF f
  <2>1. PICK a, b \in 1 .. n + 1 : a # b /\ f[a] = f[b]
    BY <1>5
  <2>2. a < b \/ b < a
    BY <1>1, <2>1
  <2> QED
    BY <2>1, <2>2
<1>7. CASE j # n + 1
  <2>1. i \in 1 .. n /\ j \in 1 .. n /\ active[i].w = active[j].w
    BY <1>1, <1>6, <1>7
  <2> QED
    BY <1>1, <1>6, <2>1, RecurringRecursive DEF Recurring
<1>8. CASE j = n + 1
  <2>1. i \in 1 .. n /\ active[i].w = v
    BY <1>1, <1>6, <1>8
  <2> DEFINE S == {active[k].w : k \in i .. n}
  <2>2. S \in SUBSET Needed /\ S # {}
    BY <1>1, <2>1 DEF Path, ActiveWords
  <2>3. ASSUME NEW w \in S PROVE Called(w) \cap S # {}
    <3>1. PICK k \in i .. n : w = active[k].w
      OBVIOUS
    <3> DEFINE u == IF k = n THEN v ELSE active[k + 1].w
    <3>2. k \in 1 .. n /\ active[k].at \in Nat \ {0} /\ w \in Words
      BY <1>1, <2>1, <3>1, ActiveTyped
    <3>3. active[k].at <= Len(calls[w]) /\ calls[w][active[k].at] = u
      <4>1. CASE k = n
        BY <1>1, <3>1, <4>1
      <4>2. CASE k # n
        <5>1. k \in 1 .. Len(active) - 1
          BY <1>1, <3>2, <4>2
        <5> QED
          BY <1>1, <3>1, <4>2, <5>1 DEF Path
      <4> QED
        BY <4>1, <4>2
    <3>4. u \in S
      <4>1. CASE k = n
        BY <1>1, <2>1, <4>1
      <4>2. CASE k # n
        BY <1>1, <2>1, <3>1, <4>2
      <4> QED
        BY <4>1, <4>2
    <3>5. u \in Words
      BY <1>1, <2>2, <3>4, NeededLeast
    <3> HIDE DEF u
    <3>6. active[k].at \in 1 .. Len(calls[w])
      BY <1>1, <3>2, <3>3, CallsTyped
    <3>7. u \in Called(w)
      BY SMTT(30), <1>1, <3>2, <3>3, <3>5, <3>6, CallsTyped
    <3> QED
      BY <3>4, <3>7
  <2> QED
    BY <2>2, <2>3 DEF Recursive
<1> QED
  BY <1>7, <1>8

-----------------------------------------------------------------------------
LEMMA GenerateKeeps == FInv /\ GenerateStep => FInv'
<1> SUFFICES ASSUME FInv, GenerateStep PROVE FInv'
  OBVIOUS
<1>1. generated = "no" /\ Generating /\ Typed
  BY DEF GenerateStep, GenerateRoot, GetFunction, EndFunction, FInv, Generating
<1>2. ASSUME generated' \notin {"yes", "overflow"} PROVE ModuleComplete'
  BY <1>2 DEF ModuleComplete
<1>3. CASE GenerateRoot
  <2>1. CASE Reject
    BY <1>2, <2>1 DEF Reject, FInv
  <2>2. CASE Create(Root) /\ UNCHANGED generated
    <3>1. Root \in Needed /\ Root \notin visited
      BY <1>1, <1>3, NeededLeast DEF Generating, Path, GenerateRoot
    <3>2. Generating'
      BY <1>1, <1>3, <2>2, <3>1, CreateKeeps DEF GenerateRoot
    <3> QED
      BY <1>1, <1>2, <2>2, <3>2 DEF FInv
  <2> QED
    BY <1>3, <2>1, <2>2 DEF GenerateRoot
<1>4. CASE GetFunction
  <2> DEFINE w == Callees[Innermost.at]
  <2> USE DEF Innermost, Last, Callees
  <2>1. /\ active # <<>> /\ active[Len(active)].at <= Len(calls[active[Len(active)].w])
        /\ w = calls[active[Len(active)].w][active[Len(active)].at]
        /\ UNCHANGED <<calls, faulty, visited, verified>>
    BY <1>4 DEF GetFunction
  <2>2. w # Unsupported => w \in Needed
    <3>1. /\ Len(active) \in 1 .. Len(active) /\ active[Len(active)].at \in Nat \ {0}
          /\ active[Len(active)].w \in Words
      BY <1>1, <2>1, ActiveTyped
    <3>2. active[Len(active)].at \in 1 .. Len(calls[active[Len(active)].w])
      BY <1>1, <2>1, <3>1, CallsTyped
    <3>3. w # Unsupported => w \in Called(active[Len(active)].w)
      BY <1>1, <2>1, <3>1, <3>2, CallsTyped
    <3>4. active[Len(active)].w \in Needed
      BY <1>1, <3>1 DEF Generating, Path, ActiveWords
    <3> QED
      BY <1>1, <3>3, <3>4, NeededLeast DEF Closed
  <2>3. CASE Reject
    BY <1>2, <2>3 DEF Reject, FInv
  <2>4. CASE w \in visited /\ active' = Proceed(active) /\ UNCHANGED <<created, generated>>
    <3>1. Generating'
      BY <1>1, <2>1, <2>4, ProceedKeeps
    <3> QED
      BY <1>1, <1>2, <2>4, <3>1 DEF FInv
  <2>5. CASE w \notin visited \cup {Unsupported} /\ Create(w) /\ UNCHANGED generated
    <3>1. Generating'
      BY <1>1, <2>1, <2>2, <2>5, CreateKeeps
    <3> QED
      BY <1>1, <1>2, <2>5, <3>1 DEF FInv
  <2>6. CASE /\ w \notin visited \cup {Unsupported} /\ Len(active) = MaxCalls
             /\ generated' = "overflow" /\ UNCHANGED <<active, created>>
    <3>1. Recursive \/ Cardinality(Needed) > MaxCalls
      BY <1>1, <2>1, <2>2, <2>6, Overflowing
    <3>2. Recursive' = Recursive /\ Needed' = Needed
      BY <2>1 DEF Recursive, Needed, Words, Closed, Called
    <3> QED
      BY <2>6, <3>1, <3>2 DEF FInv, ModuleComplete
  <2> QED
    BY <1>4, <2>3, <2>4, <2>5, <2>6 DEF GetFunction
<1>5. CASE EndFunction
  <2> USE DEF Innermost, Last, Callees
  <2>1. /\ active # <<>> /\ active[Len(active)].at > Len(calls[active[Len(active)].w])
        /\ UNCHANGED <<calls, faulty, created>>
    BY <1>5 DEF EndFunction
  <2>2. CASE Reject
    BY <1>2, <2>2 DEF Reject, FInv
  <2>3. CASE /\ active[Len(active)].w \notin faulty
             /\ verified' = verified \cup {active[Len(active)].w}
             /\ Len(active) = 1 /\ generated' = "yes"
    <3>1. ModuleComplete'
      BY <1>1, <2>1, <2>3, RootComplete
    <3> QED
      BY <2>3, <3>1 DEF FInv
  <2>4. CASE /\ active[Len(active)].w \notin faulty
             /\ verified' = verified \cup {active[Len(active)].w}
             /\ Len(active) # 1 /\ visited' = visited \cup {active[Len(active)].w}
             /\ active' = Proceed(Front(active)) /\ UNCHANGED generated
    <3>1. Generating'
      BY <1>1, <2>1, <2>4, EndKeeps
    <3> QED
      BY <1>1, <1>2, <2>4, <3>1 DEF FInv
  <2> QED
    BY <1>5, <2>2, <2>3, <2>4 DEF EndFunction, Remember
<1> QED
  BY <1>3, <1>4, <1>5 DEF GenerateStep

\* A new generator has generated nothing.
LEMMA NewKeeps ==
  ASSUME NEW c, NEW f, c \in Seq(Seq(0 .. Len(c))), c # <<>>, NewGenerator(c, f)
  PROVE  FInv'
<1>1. Len(c) \in Nat /\ Len(c) > 0
  BY EmptySeq
<1>2. calls' = c /\ visited' = {} /\ verified' = {} /\ active' = <<>> /\ created' = <<>>
      /\ generated' = "no"
  BY DEF NewGenerator
<1>3. Typed'
  BY <1>1, <1>2, EmptySeq DEF Typed
<1>4. ActiveWords' = {}
  BY <1>2 DEF ActiveWords
<1>5. Path' /\ Passed'
  BY <1>2, <1>4 DEF Path, Passed
<1>6. Remembered'
  BY <1>2 DEF Remembered, Closed
<1>7. CreatedOnce'
  BY <1>2, <1>4 DEF CreatedOnce, Range, IsInjective
<1> QED
  BY <1>2, <1>3, <1>5, <1>6, <1>7 DEF FInv, Generating, ModuleComplete

Counted == round \in Nat

LEMMA InitFInv == Init => FInv /\ Counted
<1> SUFFICES ASSUME Init PROVE FInv /\ Counted
  OBVIOUS
<1>1. /\ calls = <<<<>>>> /\ visited = {} /\ verified = {} /\ active = <<>> /\ created = <<>>
      /\ generated = "no" /\ round = 0
  BY DEF Init, FunctionsInit
<1>2. Typed
  <2>1. calls \in Seq(Seq(0 .. Len(calls))) /\ Len(calls) > 0
    BY <1>1
  <2> QED
    BY <1>1, <2>1, EmptySeq DEF Typed
<1>3. ActiveWords = {}
  BY <1>1 DEF ActiveWords
<1>4. Path /\ Passed
  BY <1>1, <1>3 DEF Path, Passed
<1>5. Remembered /\ CreatedOnce
  BY <1>1, <1>3 DEF Remembered, Closed, CreatedOnce, Range, IsInjective
<1> QED
  BY <1>1, <1>2, <1>4, <1>5 DEF FInv, Generating, ModuleComplete, Counted

LEMMA NextFInv == FInv /\ Counted /\ [Next]_allVars => FInv' /\ Counted'
<1> SUFFICES ASSUME FInv, Counted, [Next]_allVars PROVE FInv' /\ Counted'
  OBVIOUS
<1>1. ASSUME UNCHANGED functionVars PROVE FInv'
  <2>1. UNCHANGED <<calls, faulty, visited, active, created, verified, generated>>
    BY <1>1 DEF functionVars
  <2>2. Needed' = Needed /\ Recursive' = Recursive /\ ActiveWords' = ActiveWords
    BY <2>1 DEF Needed, Recursive, ActiveWords, Words, Closed, Called
  <2>3. Typed' = Typed
    BY <2>1, <2>2 DEF Typed, Words
  <2>4. Path' = Path /\ Passed' = Passed
    BY <2>1, <2>2 DEF Path, Passed
  <2>5. Remembered' = Remembered
    BY <2>1, <2>2 DEF Remembered, Closed, Called
  <2>6. CreatedOnce' = CreatedOnce
    BY <2>1, <2>2 DEF CreatedOnce, Recurring
  <2>7. ModuleComplete' = ModuleComplete
    BY <2>1, <2>2 DEF ModuleComplete
  <2> QED
    BY <2>1, <2>3, <2>4, <2>5, <2>6, <2>7 DEF FInv, Generating
<1>2. CASE Invoke
  <2>1. round + 1 \in 1 .. MaxRounds /\ Counted'
    BY <1>2, RoundsAssumption DEF Invoke, Counted
  <2>2. \/ UNCHANGED functionVars
        \/ \E job \in Jobs(round + 1) : NewGenerator(job.calls, job.faulty)
    BY <1>2 DEF Invoke
  <2>3. ASSUME NEW job \in Jobs(round + 1), NewGenerator(job.calls, job.faulty) PROVE FInv'
    BY <2>1, <2>3, NewKeeps, JobsAssumption
  <2> QED
    BY <1>1, <2>1, <2>2, <2>3
<1>3. CASE GenerateModule
  BY <1>3, GenerateKeeps DEF GenerateModule, Counted
<1>4. CASE UNCHANGED functionVars /\ UNCHANGED round
  BY <1>1, <1>4 DEF Counted
<1> QED
  BY <1>2, <1>3, <1>4 DEF Next, Step, Interpret, FindMain, AnalyseMain, PrintModule,
     OpenAssembly, WriteAssembly, Link, ExecModule, Interrupt, allVars, driverVars

\* For words that call each other in any way: a module that generate answers has one
\* complete function for every word main needs, and only words that call themselves,
\* or too many of them, overflow the native stack.
THEOREM ModulesComplete == Spec => []ModuleComplete
<1>1. FInv => ModuleComplete
  BY DEF FInv
<1> QED
  BY <1>1, InitFInv, NextFInv, PTL DEF Spec

-----------------------------------------------------------------------------
(***************************************************************************)
(* The tokens.                                                             *)
(***************************************************************************)
\* A character is of one kind.
LEMMA TextProperties ==
  ASSUME text \in Seq(Chars)
  PROVE  /\ Len(text) \in Nat /\ DOMAIN text = 1 .. Len(text)
         /\ \A i \in 1 .. Len(text) :
              /\ text[i] \in Letter \/ text[i] \in Blank \/ text[i] = "backslash"
              /\ text[i] \in Letter => text[i] \notin Blank /\ text[i] # "backslash"
              /\ text[i] \in Blank => text[i] # "backslash"
              /\ text[i] = "newline" => text[i] \in Blank
<1>1. Len(text) \in Nat /\ DOMAIN text = 1 .. Len(text)
  BY LenProperties
<1>2. "backslash" \notin Blank /\ "newline" \in Blank
  BY DEF Blank
<1>3. ASSUME NEW i \in 1 .. Len(text) PROVE text[i] \in Chars
  BY ElementOfSeq
<1> QED
  BY <1>1, <1>2, <1>3, LetterAssumption DEF Chars

\* What Find finds.
LEMMA FindProperties ==
  ASSUME text \in Seq(Chars), NEW i \in Nat, NEW S
  PROVE  /\ Find(i, S) \in Nat /\ Find(i, S) <= Len(text) + 1
         /\ i <= Len(text) + 1 => i <= Find(i, S)
         /\ Find(i, S) <= Len(text) => i <= Find(i, S) /\ text[Find(i, S)] \in S
         /\ \A k \in i .. Len(text) : k < Find(i, S) => text[k] \notin S
<1> DEFINE T == {j \in i .. Len(text) : text[j] \in S} \cup {Len(text) + 1}
           m == Find(i, S)
<1>1. Len(text) \in Nat
  BY TextProperties
<1>2. T \in SUBSET Nat /\ T # {}
  BY <1>1
<1>3. \E x \in T : \A y \in T : x <= y
  <2> HIDE DEF T
  <2> QED
    BY <1>2, LeastElement
<1>4. m = CHOOSE x \in T : \A y \in T : x <= y
  BY Zenon DEF Find, Min
<1>5. m \in T /\ \A y \in T : m <= y
  <2> HIDE DEF T, m
  <2> QED
    BY <1>3, <1>4
<1> HIDE DEF m
<1> QED
  BY <1>1, <1>5 DEF m

\* A position is in a comment if it begins one, or if the one before is and the line
\* does not end.
LEMMA CommentedNext ==
  ASSUME text \in Seq(Chars)
  PROVE  /\ ~Commented(0)
         /\ \A i \in 1 .. Len(text) :
              Commented(i) <=> \/ text[i] = "backslash"
                               \/ text[i] # "newline" /\ Commented(i - 1)
<1>1. Len(text) \in Nat
  BY TextProperties
<1>2. ~Commented(0)
  BY DEF Commented
<1>3. ASSUME NEW i \in 1 .. Len(text), Commented(i), text[i] # "backslash"
      PROVE  text[i] # "newline" /\ Commented(i - 1)
  <2>1. PICK k \in 1 .. i : text[k] = "backslash" /\ "newline" \notin {text[j] : j \in k .. i}
    BY <1>3 DEF Commented
  <2>2. k \in 1 .. i - 1 /\ i \in k .. i /\ \A j \in k .. i - 1 : j \in k .. i
    BY <1>1, <1>3, <2>1
  <2>3. "newline" \notin {text[j] : j \in k .. i - 1}
    BY <2>1, <2>2
  <2> QED
    BY <2>1, <2>2, <2>3 DEF Commented
<1>4. ASSUME NEW i \in 1 .. Len(text), text[i] = "backslash" PROVE Commented(i)
  <2>1. i \in 1 .. i /\ \A j \in i .. i : j = i
    OBVIOUS
  <2>2. "newline" # "backslash"
    OBVIOUS
  <2>3. "newline" \notin {text[j] : j \in i .. i}
    BY <1>4, <2>1, <2>2
  <2> QED
    BY <1>4, <2>1, <2>3 DEF Commented
<1>5. ASSUME NEW i \in 1 .. Len(text), text[i] # "newline", Commented(i - 1) PROVE Commented(i)
  <2>1. PICK k \in 1 .. i - 1 : /\ text[k] = "backslash"
                                /\ "newline" \notin {text[j] : j \in k .. i - 1}
    BY <1>5 DEF Commented
  <2>2. k \in 1 .. i /\ \A j \in k .. i : j = i \/ j \in k .. i - 1
    BY <1>1, <2>1
  <2>3. "newline" \notin {text[j] : j \in k .. i}
    BY <1>5, <2>1, <2>2
  <2> QED
    BY <2>1, <2>2, <2>3 DEF Commented
<1> QED
  BY <1>2, <1>3, <1>4, <1>5

\* Comments go on up to the end of their line; no other begins without a backslash.
LEMMA CommentedUpTo ==
  ASSUME text \in Seq(Chars), NEW p \in 0 .. Len(text), NEW q \in p .. Len(text)
  PROVE  /\ ~Commented(p) /\ (\A k \in p + 1 .. q : text[k] # "backslash") =>
              \A k \in p .. q : ~Commented(k)
         /\ Commented(p) /\ (\A k \in p + 1 .. q : text[k] # "newline") =>
              \A k \in p .. q : Commented(k)
<1>1. Len(text) \in Nat
  BY TextProperties
<1>2. ASSUME ~Commented(p), \A k \in p + 1 .. q : text[k] # "backslash"
      PROVE  \A k \in p .. q : ~Commented(k)
  <2> DEFINE T == {k \in p .. q : Commented(k)}
  <2> SUFFICES ASSUME T # {} PROVE FALSE
    OBVIOUS
  <2>1. T \in SUBSET Nat
    BY <1>1
  <2>2. PICK m \in T : \A k \in T : m <= k
    <3> HIDE DEF T
    <3> QED
      BY <2>1, LeastElement
  <2>3. m \in p + 1 .. q /\ Commented(m) /\ m \in 1 .. Len(text)
    BY <1>1, <1>2, <2>2
  <2>4. Commented(m - 1)
    BY <1>2, <2>3, CommentedNext
  <2>5. m - 1 \in T /\ ~(m <= m - 1)
    BY <1>1, <2>3, <2>4
  <2> QED
    BY <2>2, <2>5
<1>3. ASSUME Commented(p), \A k \in p + 1 .. q : text[k] # "newline"
      PROVE  \A k \in p .. q : Commented(k)
  <2> DEFINE T == {k \in p .. q : ~Commented(k)}
  <2> SUFFICES ASSUME T # {} PROVE FALSE
    OBVIOUS
  <2>1. T \in SUBSET Nat
    BY <1>1
  <2>2. PICK m \in T : \A k \in T : m <= k
    <3> HIDE DEF T
    <3> QED
      BY <2>1, LeastElement
  <2>3. m \in p + 1 .. q /\ ~Commented(m) /\ m \in 1 .. Len(text)
    BY <1>1, <1>3, <2>2
  <2>4. ~Commented(m - 1)
    BY <1>3, <2>3, CommentedNext
  <2>5. m - 1 \in T /\ ~(m <= m - 1)
    BY <1>1, <2>3, <2>4
  <2> QED
    BY <2>2, <2>5
<1> QED
  BY <1>2, <1>3

\* Where next_token may leave off: not in the midst of a token or a comment, unless
\* the file ends.
Clean(p) == p = Len(text) \/ (~Commented(p) /\ ~(InToken(p) /\ InToken(p + 1)))

\* What Ignore skips from the midst of a comment on is the rest of it.
LEMMA IgnoreProperties ==
  ASSUME text \in Seq(Chars), NEW c \in 1 .. Len(text), text[c] = "backslash",
         NEW stop \in c + 1 .. Len(text) + 1, \A k \in c .. stop - 1 : text[k] # "newline"
  PROVE  /\ Ignore(stop) \in c .. Len(text) /\ Ignore(stop) >= stop - 1
         /\ Clean(Ignore(stop))
         /\ \A k \in c .. Ignore(stop) : ~InToken(k)
<1> DEFINE n == Find(stop, {"newline"})
           q == Ignore(stop)
<1>1. Len(text) \in Nat /\ stop \in Nat
  BY TextProperties
<1>2. /\ n \in Nat /\ stop <= n /\ n <= Len(text) + 1
      /\ n <= Len(text) => text[n] = "newline"
      /\ \A k \in stop .. Len(text) : k < n => text[k] # "newline"
  BY <1>1, FindProperties
<1>3. q = IF n <= Len(text) THEN n ELSE Len(text)
  <2> HIDE DEF n
  <2>1. q = Min({n, Len(text)})
    BY DEF Ignore, n
  <2>2. Min({n, Len(text)}) = IF n <= Len(text) THEN n ELSE Len(text)
    BY <1>1, <1>2, LeastOfTwo
  <2> QED
    BY <2>1, <2>2
<1> HIDE DEF n, q
<1>4. q \in c .. Len(text) /\ q >= stop - 1
  BY <1>1, <1>2, <1>3
<1>5. \A k \in c .. Len(text) : k < n => text[k] # "newline"
  BY <1>1, <1>2
<1>6. Commented(c)
  BY CommentedNext
<1>7. ASSUME NEW k \in c .. q, k < n PROVE Commented(k)
  <2>1. k \in c .. Len(text) /\ c \in 0 .. Len(text)
    BY <1>4, <1>1
  <2>2. \A j \in c + 1 .. k : text[j] # "newline"
    BY <1>1, <1>2, <1>5, <1>7, <2>1
  <2> QED
    BY <1>6, <2>1, <2>2, <1>1, CommentedUpTo
<1>8. ASSUME NEW k \in c .. q, ~(k < n) PROVE k = n /\ q = n /\ n \in 1 .. Len(text)
  BY <1>1, <1>2, <1>3, <1>8
<1>9. ASSUME NEW k \in c .. q PROVE ~InToken(k)
  <2>1. CASE k < n
    BY <1>7, <2>1 DEF InToken
  <2>2. CASE ~(k < n)
    BY <1>2, <1>8, <2>2, TextProperties DEF InToken
  <2> QED
    BY <2>1, <2>2
<1>10. Clean(q)
  <2>1. CASE n <= Len(text)
    <3>1. n \in 1 .. Len(text) /\ text[n] = "newline" /\ q = n
      BY <1>1, <1>2, <1>3, <2>1
    <3>2. ~Commented(n)
      <4>1. "newline" # "backslash"
        OBVIOUS
      <4> QED
        BY <3>1, <4>1, CommentedNext
    <3>3. ~InToken(q)
      BY <1>4, <1>9, <1>1
    <3> QED
      BY <3>1, <3>2, <3>3 DEF Clean
  <2>2. CASE ~(n <= Len(text))
    BY <1>3, <2>2 DEF Clean
  <2> QED
    BY <2>1, <2>2
<1> QED
  BY <1>4, <1>9, <1>10 DEF q

\* What next_token finds after i characters.
LEMMA Places ==
  ASSUME text \in Seq(Chars), NEW i \in Nat
  PROVE  /\ TokenStart(i) \in Nat /\ TokenStart(i) <= Len(text) + 1
         /\ TokenStart(i) <= Len(text) =>
              /\ i < TokenStart(i)
              /\ text[TokenStart(i)] \in Letter \/ text[TokenStart(i)] = "backslash"
         /\ \A k \in i + 1 .. Len(text) : k < TokenStart(i) => text[k] \in Blank
         /\ TokenStop(i) \in Nat /\ TokenStop(i) <= Len(text) + 1
         /\ TokenStop(i) <= Len(text) => text[TokenStop(i)] \in Blank
         /\ TokenStart(i) <= Len(text) => TokenStart(i) < TokenStop(i)
         /\ \A k \in TokenStart(i) .. Len(text) : k < TokenStop(i) => text[k] \notin Blank
<1> DEFINE start == TokenStart(i)
           stop  == TokenStop(i)
<1>1. Len(text) \in Nat /\ i + 1 \in Nat
  BY TextProperties
<1>2. /\ start \in Nat /\ start <= Len(text) + 1
      /\ start <= Len(text) => i + 1 <= start /\ text[start] \in Letter \cup {"backslash"}
      /\ \A k \in i + 1 .. Len(text) : k < start => text[k] \notin Letter \cup {"backslash"}
  BY <1>1, FindProperties DEF TokenStart
<1>3. /\ stop \in Nat /\ stop <= Len(text) + 1 /\ start <= stop
      /\ stop <= Len(text) => text[stop] \in Blank
      /\ \A k \in start .. Len(text) : k < stop => text[k] \notin Blank
  BY <1>2, FindProperties DEF TokenStop
<1> HIDE DEF start, stop
<1>4. \A k \in i + 1 .. Len(text) : k < start => text[k] \in Blank
  BY <1>1, <1>2, TextProperties
<1>5. start <= Len(text) => start < stop
  <2> SUFFICES ASSUME start <= Len(text), start = stop PROVE FALSE
    BY <1>1, <1>2, <1>3
  <2>1. start \in 1 .. Len(text)
    BY <1>1, <1>2
  <2> QED
    BY <1>2, <1>3, <2>1, TextProperties
<1> QED
  BY <1>1, <1>2, <1>3, <1>4, <1>5 DEF start, stop

\* Where there is a token.
LEMMA Found ==
  ASSUME text \in Seq(Chars), NEW p \in 0 .. Len(text), TokenStart(p) <= Len(text)
  PROVE  /\ TokenStart(p) \in p + 1 .. Len(text) /\ TokenStart(p) \in 1 .. Len(text)
         /\ TokenStop(p) \in TokenStart(p) + 1 .. Len(text) + 1
         /\ text[TokenStart(p)] \in Letter \/ text[TokenStart(p)] = "backslash"
         /\ \A k \in p + 1 .. TokenStart(p) - 1 : text[k] \in Blank
         /\ \A k \in TokenStart(p) .. TokenStop(p) - 1 : text[k] \notin Blank
         /\ TokenStop(p) <= Len(text) => text[TokenStop(p)] \in Blank
<1> DEFINE start == TokenStart(p)
           stop  == TokenStop(p)
<1>1. Len(text) \in Nat /\ p \in Nat
  BY TextProperties
<1>2. /\ start \in Nat /\ start <= Len(text) + 1
      /\ p < start
      /\ text[start] \in Letter \/ text[start] = "backslash"
      /\ \A k \in p + 1 .. Len(text) : k < start => text[k] \in Blank
      /\ stop \in Nat /\ stop <= Len(text) + 1
      /\ stop <= Len(text) => text[stop] \in Blank
      /\ start < stop
      /\ \A k \in start .. Len(text) : k < stop => text[k] \notin Blank
  BY <1>1, Places
<1>3. start <= Len(text)
  OBVIOUS
<1> HIDE DEF start, stop
<1>4. \A k \in p + 1 .. start - 1 : k \in p + 1 .. Len(text) /\ k < start
  BY <1>1, <1>2
<1>5. \A k \in start .. stop - 1 : k \in start .. Len(text) /\ k < stop
  BY <1>1, <1>2
<1>6. /\ start \in p + 1 .. Len(text) /\ start \in 1 .. Len(text)
      /\ stop \in start + 1 .. Len(text) + 1
  BY <1>1, <1>2, <1>3
<1> QED
  BY <1>2, <1>4, <1>5, <1>6 DEF start, stop

\* Where a comment that begins a token ends is further on.
LEMMA IgnoreType ==
  ASSUME text \in Seq(Chars), NEW i \in Nat
  PROVE  /\ Ignore(i) \in Nat /\ Ignore(i) <= Len(text)
         /\ i <= Len(text) + 1 => i <= Ignore(i) + 1
<1> DEFINE n == Find(i, {"newline"})
<1>1. Len(text) \in Nat
  BY TextProperties
<1>2. n \in Nat /\ (i <= Len(text) + 1 => i <= n)
  BY FindProperties
<1>3. Ignore(i) = IF n <= Len(text) THEN n ELSE Len(text)
  <2>1. Ignore(i) = Min({n, Len(text)})
    BY DEF Ignore
  <2> HIDE DEF n
  <2> QED
    BY <1>1, <1>2, <2>1, LeastOfTwo
<1> HIDE DEF n
<1> QED
  BY <1>1, <1>2, <1>3

Cut(i) == Find(TokenStart(i), {"backslash"})

\* What next_token answers where it does not call itself.
Ended      == [tok |-> <<>>, position |-> Len(text), has_next |-> FALSE]
Answer(i)  == [tok |-> SubSeq(text, TokenStart(i), Min({Cut(i), TokenStop(i)}) - 1),
               position |-> IF Cut(i) < TokenStop(i) THEN Ignore(TokenStop(i)) ELSE TokenStop(i) - 1,
               has_next |-> TRUE]

\* next_token is what it is defined to be: such a function exists.
LEMMA NextEquation ==
  ASSUME text \in Seq(Chars), NEW i \in Nat
  PROVE  next_token[i] = IF TokenStart(i) > Len(text) THEN Ended
                         ELSE IF TokenStart(i) = Cut(i) THEN next_token[Ignore(TokenStop(i))]
                         ELSE Answer(i)
<1> DEFINE Past(j) == TokenStart(j) > Len(text)
           ends == {j \in Nat : Past(j) \/ TokenStart(j) # Cut(j)}
           A    == [j \in Nat |-> IF Past(j) THEN Ended ELSE Answer(j)]
           J    == [j \in Nat |-> Ignore(TokenStop(j))]
           R    == {A[j] : j \in Nat}
           f    == next_token
<1>1. Len(text) \in Nat
  BY TextProperties
<1>2. J \in [Nat -> Nat]
  BY Places, IgnoreType
<1>3. ASSUME NEW j \in Nat, j \notin ends PROVE j < Len(text) /\ j < J[j]
  <2>1. /\ TokenStart(j) \in Nat /\ TokenStop(j) \in Nat /\ TokenStart(j) <= Len(text)
        /\ j < TokenStart(j) /\ TokenStart(j) < TokenStop(j) /\ TokenStop(j) <= Len(text) + 1
    <3>1. TokenStart(j) \in Nat /\ ~(TokenStart(j) > Len(text))
      BY <1>3, Places
    <3>2. TokenStart(j) <= Len(text)
      BY <1>1, <3>1
    <3> QED
      BY <3>1, <3>2, Places
  <2>2. Ignore(TokenStop(j)) \in Nat /\ TokenStop(j) <= Ignore(TokenStop(j)) + 1
    BY <2>1, IgnoreType
  <2> QED
    BY <1>1, <2>1, <2>2
<1>4. A \in [Nat -> R]
  OBVIOUS
<1>5. PICK h : IsRecursion(h, ends, A, J)
  <2>1. ends \in SUBSET Nat
    OBVIOUS
  <2> HIDE DEF ends, A, J, R
  <2> QED
    BY <1>1, <1>2, <1>3, <1>4, <2>1, Recursion
<1>6. h = [j \in Nat |-> IF TokenStart(j) > Len(text) THEN Ended
                         ELSE IF TokenStart(j) = Cut(j) THEN h[Ignore(TokenStop(j))]
                         ELSE Answer(j)]
  <2>1. \A j \in Nat : (IF j \in ends THEN A[j] ELSE h[J[j]])
                       = IF TokenStart(j) > Len(text) THEN Ended
                         ELSE IF TokenStart(j) = Cut(j) THEN h[Ignore(TokenStop(j))]
                         ELSE Answer(j)
    OBVIOUS
  <2>2. h = [j \in Nat |-> IF j \in ends THEN A[j] ELSE h[J[j]]]
    BY <1>5, Zenon DEF IsRecursion
  <2> HIDE DEF ends, A, J
  <2> QED
    BY <2>1, <2>2
<1>7. f = [j \in Nat |-> IF TokenStart(j) > Len(text) THEN Ended
                         ELSE IF TokenStart(j) = Cut(j) THEN f[Ignore(TokenStop(j))]
                         ELSE Answer(j)]
  BY <1>6 DEF next_token, Ended, Answer, Cut
<1> HIDE DEF f
<1>8. f[i] = IF TokenStart(i) > Len(text) THEN Ended
             ELSE IF TokenStart(i) = Cut(i) THEN f[Ignore(TokenStop(i))]
             ELSE Answer(i)
  BY <1>7, Zenon
<1> QED
  BY <1>8 DEF f

\* One call answers the next token of the reference, or that there is none, and
\* leaves off where the next call may start.
Told(p, r) ==
  \/ /\ r.has_next = FALSE /\ r.position = Len(text)
     /\ \A t \in Starts : t <= p
  \/ /\ r.has_next = TRUE /\ r.position \in 0 .. Len(text) /\ Clean(r.position)
     /\ \E s \in Starts : /\ p < s /\ s <= r.position /\ r.tok = TokenAt(s)
                         /\ \A t \in Starts : p < t /\ t <= r.position => t = s

\* A call that does not answer skips a comment.
LEMMA SkipsComment ==
  ASSUME text \in Seq(Chars), NEW p \in 0 .. Len(text), Clean(p),
         TokenStart(p) <= Len(text), TokenStart(p) = Cut(p)
  PROVE  LET q == Ignore(TokenStop(p))
         IN  q \in p + 1 .. Len(text) /\ Clean(q) /\ \A t \in Starts : t <= p \/ q < t
<1> DEFINE start == TokenStart(p)
           stop  == TokenStop(p)
           q     == Ignore(stop)
<1>1. /\ Len(text) \in Nat /\ start \in p + 1 .. Len(text) /\ start \in 1 .. Len(text)
      /\ stop \in start + 1 .. Len(text) + 1
      /\ \A k \in p + 1 .. start - 1 : text[k] \in Blank
      /\ \A k \in start .. stop - 1 : text[k] \notin Blank
  BY TextProperties, Found
<1>2. text[start] = "backslash"
  BY <1>1, FindProperties DEF Cut
<1> HIDE DEF start, stop
<1>3. \A k \in start .. stop - 1 : text[k] # "newline"
  BY <1>1, TextProperties
<1>4. /\ q \in start .. Len(text) /\ Clean(q) /\ \A k \in start .. q : ~InToken(k)
  <2> HIDE DEF q
  <2> QED
    BY <1>1, <1>2, <1>3, IgnoreProperties DEF q
<1> HIDE DEF q
<1>5. \A k \in p + 1 .. start - 1 : ~InToken(k)
  BY <1>1, TextProperties DEF InToken
<1>6. ASSUME NEW t \in Starts PROVE t <= p \/ q < t
  <2>1. t \in 1 .. Len(text) /\ InToken(t)
    BY TextProperties DEF Starts
  <2> QED
    BY <1>1, <1>4, <1>5, <2>1
<1>7. q \in p + 1 .. Len(text)
  BY <1>1, <1>4
<1> QED
  BY <1>4, <1>6, <1>7 DEF q, stop

\* A call that answers a token.
LEMMA AnswersToken ==
  ASSUME text \in Seq(Chars), NEW p \in 0 .. Len(text), Clean(p),
         TokenStart(p) <= Len(text), TokenStart(p) # Cut(p)
  PROVE  Told(p, Answer(p))
<1> DEFINE start == TokenStart(p)
           stop  == TokenStop(p)
           cut   == Cut(p)
           e     == Min({cut, stop})
           q     == IF cut < stop THEN Ignore(stop) ELSE stop - 1
<1>1. /\ Len(text) \in Nat /\ start \in p + 1 .. Len(text) /\ start \in 1 .. Len(text)
      /\ stop \in start + 1 .. Len(text) + 1
      /\ text[start] \in Letter \/ text[start] = "backslash"
      /\ \A k \in p + 1 .. start - 1 : text[k] \in Blank
      /\ \A k \in start .. stop - 1 : text[k] \notin Blank
      /\ stop <= Len(text) => text[stop] \in Blank
  BY TextProperties, Found
<1>2. /\ cut \in start .. Len(text) + 1
      /\ cut <= Len(text) => text[cut] = "backslash"
      /\ \A k \in start .. Len(text) : k < cut => text[k] # "backslash"
  BY <1>1, FindProperties DEF Cut
<1>3. Answer(p) = [tok |-> SubSeq(text, start, e - 1), position |-> q, has_next |-> TRUE]
  BY DEF Answer
<1>4. cut # start
  OBVIOUS
<1> HIDE DEF start, stop, cut
<1>5. cut \in start + 1 .. Len(text) + 1 /\ e = (IF cut <= stop THEN cut ELSE stop)
  BY <1>1, <1>2, <1>4, LeastOfTwo
<1> HIDE DEF e
<1>6. e \in start + 1 .. Len(text) + 1 /\ e <= stop /\ e <= cut
  BY <1>1, <1>5
<1>7. ~Commented(p) /\ ~(InToken(p) /\ InToken(p + 1))
  BY <1>1 DEF Clean
<1>8. \A k \in p .. e - 1 : ~Commented(k)
  <2>1. \A k \in p + 1 .. e - 1 : text[k] # "backslash"
    <3> SUFFICES ASSUME NEW k \in p + 1 .. e - 1 PROVE text[k] # "backslash"
      OBVIOUS
    <3>1. CASE k < start
      BY <1>1, <3>1, TextProperties
    <3>2. CASE ~(k < start)
      BY <1>1, <1>2, <1>6, <3>2
    <3> QED
      BY <3>1, <3>2
  <2>2. e - 1 \in p .. Len(text)
    BY <1>1, <1>6
  <2> QED
    BY <1>7, <2>1, <2>2, CommentedUpTo
<1>9. \A k \in start .. e - 1 : InToken(k)
  <2> SUFFICES ASSUME NEW k \in start .. e - 1 PROVE InToken(k)
    OBVIOUS
  <2>1. k \in 1 .. Len(text) /\ k \in start .. stop - 1 /\ k < cut /\ k \in p .. e - 1
    <3>1. p \in Nat /\ start \in Nat /\ p < start /\ 1 <= start
      BY <1>1
    <3>2. e \in Nat /\ e <= Len(text) + 1 /\ stop \in Nat /\ cut \in Nat
      BY <1>1, <1>5, <1>6
    <3> QED
      BY <1>1, <1>6, <3>1, <3>2
  <2>2. text[k] \in Letter
    BY <1>1, <1>2, <2>1, TextProperties
  <2> QED
    BY <1>8, <2>1, <2>2, TextProperties DEF InToken
<1>10. ~InToken(e)
  <2>1. CASE e = Len(text) + 1
    BY <1>1, <2>1, TextProperties DEF InToken
  <2>2. CASE e # Len(text) + 1
    <3>1. e \in 1 .. Len(text) /\ (text[e] = "backslash" \/ text[e] \in Blank)
      BY <1>1, <1>2, <1>5, <1>6, <2>2
    <3> QED
      BY <3>1, TextProperties DEF InToken
  <2> QED
    BY <2>1, <2>2
<1>11. SubSeq(text, start, e - 1) = TokenAt(start)
  <2> DEFINE T == {j \in start .. Len(text) : ~InToken(j + 1)}
  <2>1. e - 1 \in T
    BY <1>1, <1>6, <1>10
  <2>2. \A j \in T : e - 1 <= j
    <3> SUFFICES ASSUME NEW j \in T, j < e - 1 PROVE FALSE
      BY <1>1, <1>6
    <3>1. j + 1 \in start .. e - 1
      BY <1>1, <1>6
    <3> QED
      BY <1>9, <3>1
  <2>3. T \in SUBSET Nat
    BY <1>1
  <2>4. Min(T) = e - 1
    <3> HIDE DEF T
    <3>1. \E x \in T : \A y \in T : x <= y
      BY <2>1, <2>2
    <3>2. Min(T) \in T /\ \A y \in T : Min(T) <= y
      BY <3>1, Zenon DEF Min
    <3>3. Min(T) <= e - 1 /\ e - 1 <= Min(T) /\ Min(T) \in Nat /\ e - 1 \in Nat
      BY <2>1, <2>2, <2>3, <3>2
    <3> QED
      BY <3>3
  <2> QED
    BY <2>4 DEF TokenAt
<1>12. start \in Starts
  <2>1. InToken(start)
    BY <1>1, <1>6, <1>9
  <2>2. ~InToken(start - 1)
    <3>1. CASE start - 1 = p
      BY <1>1, <1>7, <2>1, <3>1
    <3>2. CASE start - 1 # p
      <4>1. start - 1 \in p + 1 .. start - 1 /\ start - 1 \in 1 .. Len(text)
        BY <1>1, <3>2
      <4> QED
        BY <1>1, <4>1, TextProperties DEF InToken
    <3> QED
      BY <3>1, <3>2
  <2> QED
    BY <1>1, <2>1, <2>2, TextProperties DEF Starts
<1>13. /\ q \in start .. Len(text) /\ Clean(q)
       /\ \A k \in e .. q : ~InToken(k)
  <2>1. CASE cut < stop
    <3>1. q = Ignore(stop) /\ e = cut /\ cut \in 1 .. Len(text) /\ stop \in cut + 1 .. Len(text) + 1
      BY <1>1, <1>2, <1>5, <2>1
    <3>2. \A k \in cut .. stop - 1 : text[k] # "newline"
      BY <1>1, <1>2, <3>1, TextProperties
    <3>3. q \in cut .. Len(text) /\ Clean(q) /\ \A k \in cut .. q : ~InToken(k)
      <4> HIDE DEF q
      <4> QED
        BY <1>2, <3>1, <3>2, IgnoreProperties
    <3> HIDE DEF q
    <3> QED
      BY <1>1, <1>2, <3>1, <3>3
  <2>2. CASE ~(cut < stop)
    <3>1. q = stop - 1 /\ e = stop
      BY <1>1, <1>2, <1>5, <2>2
    <3> HIDE DEF q
    <3>2. q \in start .. Len(text) /\ q \in p .. e - 1 /\ \A k : ~(k \in e .. q)
      BY <1>1, <3>1
    <3>3. ~Commented(q) /\ ~InToken(q + 1)
      <4>1. q + 1 = e
        BY <1>1, <3>1
      <4> QED
        BY <1>8, <1>10, <3>2, <4>1
    <3> QED
      BY <3>2, <3>3 DEF Clean
  <2> QED
    BY <2>1, <2>2
<1> HIDE DEF q
<1>14. ASSUME NEW t \in Starts, p < t, t <= q PROVE t = start
  <2>1. t \in 1 .. Len(text) /\ InToken(t) /\ ~InToken(t - 1)
    BY TextProperties DEF Starts
  <2>2. ~(t < start)
    <3> SUFFICES ASSUME t < start PROVE FALSE
      OBVIOUS
    <3>1. t \in p + 1 .. start - 1
      BY <1>1, <1>14, <2>1
    <3> QED
      BY <1>1, <2>1, <3>1, TextProperties DEF InToken
  <2>3. ~(start < t)
    <3> SUFFICES ASSUME start < t PROVE FALSE
      OBVIOUS
    <3>1. CASE t <= e
      <4>1. t - 1 \in start .. e - 1
        BY <1>1, <1>6, <2>1, <3>1
      <4> QED
        BY <1>9, <2>1, <4>1
    <3>2. CASE ~(t <= e)
      <4>1. t \in e .. q
        BY <1>1, <1>6, <1>13, <1>14, <2>1, <3>2
      <4> QED
        BY <1>13, <2>1, <4>1
    <3> QED
      BY <3>1, <3>2
  <2> QED
    BY <1>1, <2>1, <2>2, <2>3
<1>15. p < start /\ start <= q /\ q \in 0 .. Len(text)
  BY <1>1, <1>13
<1> DEFINE r == Answer(p)
<1>16. r.tok = TokenAt(start) /\ r.position = q /\ r.has_next = TRUE
  BY <1>3, <1>11
<1> HIDE DEF r
<1>17. Told(p, r)
  BY <1>12, <1>13, <1>14, <1>15, <1>16 DEF Told
<1> QED
  BY <1>17 DEF r

\* One call of next_token, however many comments it skips.
LEMMA CallTells ==
  ASSUME text \in Seq(Chars), NEW p \in 0 .. Len(text), Clean(p)
  PROVE  Told(p, next_token[p])
<1> DEFINE T == {m \in 0 .. Len(text) : Clean(Len(text) - m) /\ ~Told(Len(text) - m, next_token[Len(text) - m])}
<1>1. Len(text) \in Nat
  BY TextProperties
<1>2. T = {}
  <2> SUFFICES ASSUME T # {} PROVE FALSE
    OBVIOUS
  <2>1. T \in SUBSET Nat
    BY <1>1
  <2>2. PICK m \in T : \A k \in T : m <= k
    <3> HIDE DEF T
    <3> QED
      BY <2>1, LeastElement
  <2> DEFINE i == Len(text) - m
             q == Ignore(TokenStop(i))
  <2>3. i \in 0 .. Len(text) /\ i \in Nat /\ Clean(i) /\ ~Told(i, next_token[i])
    BY <1>1, <2>2
  <2> HIDE DEF i
  <2>4. CASE TokenStart(i) > Len(text)
    <3>1. next_token[i] = Ended
      BY <2>3, <2>4, NextEquation
    <3>2. ASSUME NEW t \in Starts PROVE t <= i
      <4>1. t \in 1 .. Len(text) /\ text[t] \in Letter
        BY TextProperties DEF Starts, InToken
      <4>2. \A k \in i + 1 .. Len(text) : k < TokenStart(i) => text[k] \in Blank
        BY <2>3, Places
      <4>3. TokenStart(i) \in Nat
        BY <2>3, Places
      <4> QED
        BY <1>1, <2>3, <2>4, <4>1, <4>2, <4>3, TextProperties
    <3> QED
      BY <2>3, <3>1, <3>2 DEF Told, Ended
  <2>5. CASE TokenStart(i) <= Len(text) /\ TokenStart(i) = Cut(i)
    <3>1. q \in i + 1 .. Len(text) /\ Clean(q) /\ \A t \in Starts : t <= i \/ q < t
      BY <2>3, <2>5, SkipsComment
    <3>2. next_token[i] = next_token[q]
      <4>1. TokenStart(i) \in Nat
        BY <2>3, Places
      <4>2. ~(TokenStart(i) > Len(text))
        BY <1>1, <2>5, <4>1
      <4> QED
        BY <2>3, <2>5, <4>2, NextEquation
    <3> HIDE DEF q
    <3>3. Told(q, next_token[q])
      <4> DEFINE k == Len(text) - q
      <4>1. k \in 0 .. Len(text) /\ ~(m <= k) /\ Len(text) - k = q
        BY <1>1, <2>2, <2>3, <3>1 DEF i
      <4> HIDE DEF k
      <4>2. k \notin T
        <5> HIDE DEF T
        <5> QED
          BY <2>2, <4>1
      <4> QED
        BY <3>1, <4>1, <4>2
    <3>4. Told(i, next_token[q])
      <4> DEFINE r == next_token[q]
      <4>1. Told(q, r)
        BY <3>3
      <4> HIDE DEF r
      <4>2. Told(i, r)
        <5>1. \A t \in Starts : t \in 1 .. Len(text)
          BY TextProperties DEF Starts
        <5>2. \A t \in Starts : (q < t <=> i < t) /\ (t <= q => t <= i)
          BY <1>1, <2>3, <3>1, <5>1
        <5> QED
          BY <4>1, <5>2 DEF Told
      <4> QED
        BY <4>2 DEF r
    <3> QED
      BY <2>3, <3>2, <3>4
  <2>6. CASE TokenStart(i) <= Len(text) /\ TokenStart(i) # Cut(i)
    <3>1. Told(i, Answer(i))
      BY <2>3, <2>6, AnswersToken
    <3>2. next_token[i] = Answer(i)
      <4>1. TokenStart(i) \in Nat
        BY <2>3, Places
      <4>2. ~(TokenStart(i) > Len(text))
        BY <1>1, <2>6, <4>1
      <4> QED
        BY <2>3, <2>6, <4>2, NextEquation
    <3> QED
      BY <2>3, <3>1, <3>2
  <2>7. TokenStart(i) \in Nat
    BY <2>3, Places
  <2> QED
    BY <1>1, <2>4, <2>5, <2>6, <2>7
<1>3. Len(text) - p \in 0 .. Len(text) /\ Len(text) - (Len(text) - p) = p
  BY <1>1
<1> QED
  BY <1>2, <1>3

\* How many tokens start in the first characters, and which is which.
LEMMA CountProperties ==
  ASSUME text \in Seq(Chars)
  PROVE  /\ Cardinality(Starts) \in Nat
         /\ \A i : Count(i) \in Nat /\ Count(i) <= Cardinality(Starts)
         /\ Count(0) = 0
         /\ \A i : (\A t \in Starts : t <= i) => Count(i) = Cardinality(Starts)
         /\ \A i, j \in Nat : \A s \in Starts :
              /\ i < s /\ s <= j
              /\ \A t \in Starts : i < t /\ t <= j => t = s
              => Count(j) = Count(i) + 1
         /\ \A s, t \in Starts : s < t => Count(s) < Count(t)
<1> DEFINE U(i) == {j \in Starts : j <= i}
<1>1. Len(text) \in Nat /\ Starts \subseteq 1 .. Len(text)
  BY TextProperties DEF Starts
<1>2. IsFiniteSet(Starts) /\ Cardinality(Starts) \in Nat
  <2>1. IsFiniteSet(1 .. Len(text))
    BY <1>1, FS_Interval
  <2> QED
    BY <1>1, <2>1, FS_Subset, FS_CardinalityType
<1>positive. \A t \in Starts : t \in Nat /\ ~(t <= 0)
  BY <1>1
<1>3. \A i : /\ IsFiniteSet(U(i)) /\ Cardinality(U(i)) \in Nat
             /\ Cardinality(U(i)) <= Cardinality(Starts) /\ Count(i) = Cardinality(U(i))
  <2> SUFFICES ASSUME NEW i
               PROVE  /\ IsFiniteSet(U(i)) /\ Cardinality(U(i)) \in Nat
                      /\ Cardinality(U(i)) <= Cardinality(Starts) /\ Count(i) = Cardinality(U(i))
    OBVIOUS
  <2>1. U(i) \subseteq Starts
    OBVIOUS
  <2>2. Count(i) = Cardinality(U(i))
    BY DEF Count
  <2> HIDE DEF U
  <2> QED
    BY <1>2, <2>1, <2>2, FS_Subset, FS_CardinalityType
<1>4. Count(0) = 0
  <2>1. U(0) = {}
    BY <1>positive
  <2> HIDE DEF U
  <2> QED
    BY <1>3, <2>1, FS_EmptySet
<1>5. ASSUME NEW i, \A t \in Starts : t <= i PROVE Count(i) = Cardinality(Starts)
  <2>1. U(i) = Starts
    BY <1>5
  <2> QED
    BY <1>3, <2>1
<1>6. ASSUME NEW i \in Nat, NEW j \in Nat, NEW s \in Starts, i < s, s <= j,
             \A t \in Starts : i < t /\ t <= j => t = s
      PROVE  Count(j) = Count(i) + 1
  <2>1. U(j) = U(i) \cup {s} /\ s \notin U(i)
    <3>1. \A t \in Starts : t \in Nat
      BY <1>1
    <3>2. ASSUME NEW t \in Starts PROVE t <= j <=> t <= i \/ t = s
      BY <1>6, <3>1
    <3>3. ~(s <= i)
      BY <1>6, <3>1
    <3> QED
      BY <3>2, <3>3
  <2> HIDE DEF U
  <2> QED
    BY <1>3, <2>1, FS_AddElement
<1>7. ASSUME NEW s \in Starts, NEW t \in Starts, s < t PROVE Count(s) < Count(t)
  <2>1. U(s) \subseteq U(t) /\ t \in U(t) /\ t \notin U(s)
    <3>1. s \in Nat /\ t \in Nat
      BY <1>positive
    <3>2. t <= t /\ ~(t <= s) /\ \A j \in Nat : j <= s => j <= t
      BY <1>7, <3>1
    <3> QED
      BY <1>positive, <3>2
  <2> HIDE DEF U
  <2>2. Cardinality(U(s) \cup {t}) = Cardinality(U(s)) + 1
    BY <1>3, <2>1, FS_AddElement
  <2>3. U(s) \cup {t} \subseteq U(t)
    BY <2>1
  <2>4. Cardinality(U(s) \cup {t}) <= Cardinality(U(t))
    BY <1>3, <2>3, FS_Subset
  <2> QED
    BY <1>3, <2>2, <2>4
<1> QED
  BY <1>2, <1>3, <1>4, <1>5, <1>6, <1>7

\* The first tokens, up to a position.
Kept(p, toks) ==
  /\ p \in 0 .. Len(text) /\ Clean(p)
  /\ toks \in Seq(Range(Reference)) /\ Len(toks) = Count(p)
  /\ \A n \in 1 .. Len(toks) : toks[n] = Reference[n]

\* The tokens of the reference, by where they start.
LEMMA ReferenceProperties ==
  ASSUME text \in Seq(Chars)
  PROVE  /\ Reference \in Seq(Range(Reference)) /\ Len(Reference) = Cardinality(Starts)
         /\ \A s \in Starts : /\ Count(s) \in 1 .. Len(Reference)
                              /\ Reference[Count(s)] = TokenAt(s)
<1> DEFINE c == Cardinality(Starts)
           R == Reference
           Nth(n) == CHOOSE i \in Starts : Count(i) = n
<1>1. /\ c \in Nat /\ Starts \subseteq Nat
      /\ \A s \in Starts : Count(s) \in Nat /\ Count(s) <= c
      /\ \A s, t \in Starts : s < t => Count(s) < Count(t)
  BY CountProperties, TextProperties DEF Starts
<1>2. R = [n \in 1 .. c |-> TokenAt(Nth(n))]
  BY DEF Reference
<1>3. ASSUME NEW s \in Starts PROVE Nth(Count(s)) = s
  <2>1. Nth(Count(s)) \in Starts /\ Count(Nth(Count(s))) = Count(s)
    OBVIOUS
  <2> DEFINE x == Nth(Count(s))
  <2>2. x \in Starts /\ Count(x) = Count(s)
    BY <2>1
  <2> HIDE DEF x
  <2>3. x \in Nat /\ s \in Nat /\ Count(s) \in Nat
    BY <1>1, <2>2
  <2>4. ~(x < s) /\ ~(s < x)
    BY <1>1, <2>2, <2>3
  <2>5. x = s
    BY <2>3, <2>4
  <2> QED
    BY <2>5 DEF x
<1>4. ASSUME NEW s \in Starts PROVE Count(s) \in 1 .. c
  <2>1. Count(s) # 0
    <3>1. \A t \in Starts : 0 < t /\ t \in Nat
      BY TextProperties DEF Starts
    <3> DEFINE T == {t \in Starts : TRUE}
    <3>2. PICK m \in T : \A t \in T : m <= t
      <4>1. T \in SUBSET Nat /\ T # {}
        BY <3>1
      <4> HIDE DEF T
      <4> QED
        BY <4>1, LeastElement
    <3>3. Count(m) = Count(0) + 1
      <4>1. \A t \in Starts : 0 < t /\ t <= m => t = m
        BY <3>1, <3>2
      <4> QED
        BY <3>1, <3>2, <4>1, CountProperties
    <3>4. Count(m) = 1
      BY <3>3, CountProperties
    <3>5. m = s \/ m < s
      BY <3>1, <3>2
    <3> QED
      BY <1>1, <3>2, <3>4, <3>5
  <2> QED
    BY <1>1, <2>1
<1> HIDE DEF R, c, Nth
<1>5. R \in [1 .. c -> Range(R)]
  BY <1>2 DEF Range
<1>6. R \in Seq(Range(R)) /\ Len(R) = c
  BY <1>1, <1>5, Listed
<1>7. ASSUME NEW s \in Starts PROVE R[Count(s)] = TokenAt(s)
  BY <1>2, <1>3, <1>4
<1> QED
  BY <1>4, <1>6, <1>7 DEF R, c

\* One more call.
LEMMA Asked ==
  ASSUME text \in Seq(Chars), NEW p, NEW toks, Kept(p, toks), NEW r, Told(p, r)
  PROVE  /\ r.has_next = TRUE => Kept(r.position, Append(toks, r.tok))
         /\ r.has_next = FALSE => r.position = Len(text) /\ Kept(r.position, toks)
         /\ r.has_next \in BOOLEAN
<1>1. /\ Len(text) \in Nat /\ p \in 0 .. Len(text)
      /\ toks \in Seq(Range(Reference)) /\ Len(toks) = Count(p) /\ Len(toks) \in Nat
      /\ \A n \in 1 .. Len(toks) : toks[n] = Reference[n]
  BY TextProperties, LenProperties DEF Kept
<1>2. ASSUME r.has_next = FALSE PROVE r.position = Len(text) /\ Kept(r.position, toks)
  <2>1. r.position = Len(text) /\ \A t \in Starts : t <= p
    BY <1>2 DEF Told
  <2>2. \A t \in Starts : t <= Len(text)
    BY TextProperties DEF Starts
  <2>3. Count(p) = Count(Len(text))
    BY <2>1, <2>2, CountProperties
  <2> QED
    BY <1>1, <2>1, <2>3 DEF Kept, Clean
<1>3. ASSUME r.has_next = TRUE PROVE Kept(r.position, Append(toks, r.tok))
  <2>1. /\ r.position \in 0 .. Len(text) /\ Clean(r.position)
        /\ \E s \in Starts : /\ p < s /\ s <= r.position /\ r.tok = TokenAt(s)
                            /\ \A t \in Starts : p < t /\ t <= r.position => t = s
    BY <1>3 DEF Told
  <2>2. PICK s \in Starts : /\ p < s /\ s <= r.position /\ r.tok = TokenAt(s)
                            /\ \A t \in Starts : p < t /\ t <= r.position => t = s
    BY <2>1
  <2>3. s \in Nat /\ p \in Nat /\ r.position \in Nat
    BY <1>1, <2>1, TextProperties DEF Starts
  <2>4. Count(r.position) = Count(p) + 1
    BY <2>2, <2>3, CountProperties
  <2>5. Count(s) = Count(p) + 1
    <3>1. s <= s /\ \A t \in Starts : p < t /\ t <= s => t = s
      <4>1. \A t \in Starts : t \in Nat
        BY TextProperties DEF Starts
      <4> QED
        BY <2>2, <2>3, <4>1
    <3> QED
      BY <2>2, <2>3, <3>1, CountProperties
  <2> DEFINE n    == Len(toks)
             more == Append(toks, r.tok)
             S    == Range(Reference)
  <2>6. r.tok = Reference[n + 1] /\ n + 1 \in 1 .. Len(Reference)
    BY <1>1, <2>2, <2>5, ReferenceProperties
  <2>7. r.tok \in S
    BY <2>6, ReferenceProperties, LenProperties DEF Range
  <2>8. /\ more \in Seq(S) /\ Len(more) = n + 1
        /\ \A k \in 1 .. n : more[k] = toks[k] /\ more[n + 1] = r.tok
    <3>1. toks \in Seq(S)
      BY <1>1
    <3> HIDE DEF S
    <3> QED
      BY <2>7, <3>1, AppendProperties
  <2>9. \A k \in 1 .. n + 1 : more[k] = Reference[k]
    <3>1. more[n + 1] = r.tok
      BY <1>1, <2>7, AppendProperties
    <3> HIDE DEF more
    <3> QED
      BY <1>1, <2>6, <2>8, <3>1
  <2> QED
    BY <1>1, <2>1, <2>4, <2>8, <2>9 DEF Kept
<1>4. r.has_next \in BOOLEAN
  BY DEF Told
<1> QED
  BY <1>2, <1>3, <1>4

\* What has been answered is what the reference has up to the position.
TokensInv ==
  /\ text \in Seq(Chars) /\ has_next \in BOOLEAN
  /\ Kept(position, tokens)
  /\ ~has_next => position = Len(text)

\* While the text stays, so does what is said of it.
LEMMA TextStays ==
  ASSUME UNCHANGED text
  PROVE  /\ Reference' = Reference
         /\ \A p : (Clean(p)' <=> Clean(p)) /\ Count(p)' = Count(p)
<1> QED
  BY DEF Reference, TokenAt, Count, Starts, Clean, InToken, Commented

LEMMA NextTokenKeeps ==
  ASSUME TokensInv, NextToken
  PROVE  TokensInv'
<1>1. PICK r : /\ r = next_token[position]
               /\ position' = r.position
               /\ has_next' = (has_next /\ r.has_next)
               /\ tokens' = IF r.has_next THEN Append(tokens, r.tok) ELSE tokens
  BY DEF NextToken
<1>2. text \in Seq(Chars) /\ has_next \in BOOLEAN /\ Kept(position, tokens) /\ text' = text
  BY DEF TokensInv, NextToken
<1>3. Told(position, r)
  BY <1>1, <1>2, CallTells DEF Kept
<1>4. /\ r.has_next = TRUE => Kept(r.position, Append(tokens, r.tok))
      /\ r.has_next = FALSE => r.position = Len(text) /\ Kept(r.position, tokens)
      /\ r.has_next \in BOOLEAN
  BY <1>2, <1>3, Asked
<1>5. /\ Kept(position', tokens') /\ has_next' \in BOOLEAN
      /\ r.has_next = FALSE => position' = Len(text)
      /\ ~has_next => position = Len(text)
      /\ ~has_next' => ~has_next \/ r.has_next = FALSE
  BY <1>1, <1>2, <1>4, Zenon DEF TokensInv
<1>6. ~has_next' => position' = Len(text)
  <2> SUFFICES ASSUME ~has_next, r.has_next = TRUE, position = Len(text) PROVE position' = Len(text)
    BY <1>4, <1>5
  <2>1. \E s \in Starts : position < s /\ s <= r.position
    BY <1>3 DEF Told
  <2>2. \A s \in Starts : s \in 1 .. Len(text)
    BY TextProperties, <1>2 DEF Starts
  <2>3. Len(text) \in Nat
    BY TextProperties, <1>2
  <2> QED
    BY <2>1, <2>2, <2>3
<1>7. Kept(position, tokens)'
  BY <1>2, <1>5, TextStays DEF Kept
<1> QED
  BY <1>2, <1>5, <1>6, <1>7 DEF TokensInv

\* A file that has just been opened.
Opened == text \in Seq(Chars) /\ position = 0 /\ has_next = TRUE /\ tokens = <<>>

LEMMA OpenedInv == Opened => TokensInv
<1> SUFFICES ASSUME Opened PROVE TokensInv
  OBVIOUS
<1>1. text \in Seq(Chars)
  BY DEF Opened
<1>2. Len(text) \in Nat /\ Count(0) = 0 /\ ~Commented(0) /\ ~InToken(0)
  BY <1>1, TextProperties, CountProperties, CommentedNext DEF InToken
<1>3. <<>> \in Seq(Range(Reference)) /\ Len(<<>>) = 0
  BY EmptySeq
<1>4. Kept(0, <<>>)
  BY <1>2, <1>3 DEF Kept, Clean
<1> QED
  BY <1>1, <1>4 DEF Opened, TokensInv

LEMMA OpenKeeps == (\E t \in Seq(Chars) : Open(t)) => TokensInv'
<1>1. (\E t \in Seq(Chars) : Open(t)) => Opened'
  BY DEF Open, Opened
<1> QED
  BY <1>1, OpenedInv, PTL

LEMMA TokensSame == TokensInv /\ UNCHANGED inputVars => TokensInv'
<1> SUFFICES ASSUME TokensInv, UNCHANGED inputVars PROVE TokensInv'
  OBVIOUS
<1>1. text' = text /\ position' = position /\ has_next' = has_next /\ tokens' = tokens
  BY DEF inputVars
<1>2. Kept(position, tokens)'
  BY <1>1, TextStays DEF TokensInv, Kept
<1> QED
  BY <1>1, <1>2 DEF TokensInv

LEMMA CountedNext == Counted /\ [Next]_allVars => Counted'
<1> SUFFICES ASSUME Counted, [Next]_allVars PROVE Counted'
  OBVIOUS
<1>1. CASE Invoke
  BY <1>1 DEF Invoke, Counted
<1>2. CASE Step \/ Interrupt \/ UNCHANGED allVars
  <2>1. round' = round
    BY <1>2 DEF Step, Interpret, FindMain, AnalyseMain, GenerateModule, PrintModule, OpenAssembly,
                WriteAssembly, Link, ExecModule, Interrupt, allVars, driverVars
  <2> QED
    BY <2>1 DEF Counted
<1> QED
  BY <1>1, <1>2 DEF Next

LEMMA TokensNext == Counted /\ TokensInv /\ [Next]_allVars => TokensInv'
<1> SUFFICES ASSUME Counted, TokensInv, [Next]_allVars PROVE TokensInv'
  OBVIOUS
<1>1. CASE Invoke
  <2>1. CASE UNCHANGED inputVars
    BY <2>1, TokensSame
  <2>2. CASE \E job \in Jobs(round + 1) : Open(job.text)
    <3>1. round + 1 \in 1 .. MaxRounds
      BY <1>1, RoundsAssumption DEF Invoke, Counted
    <3>2. \E t \in Seq(Chars) : Open(t)
      BY <2>2, <3>1, JobsAssumption
    <3> QED
      BY <3>2, OpenKeeps
  <2> QED
    BY <1>1, <2>1, <2>2 DEF Invoke
<1>2. CASE Interpret
  BY <1>2, NextTokenKeeps DEF Interpret
<1>3. CASE \/ FindMain \/ AnalyseMain \/ GenerateModule \/ PrintModule \/ OpenAssembly
           \/ WriteAssembly \/ Link \/ ExecModule \/ Interrupt \/ UNCHANGED allVars
  <2>1. UNCHANGED inputVars
    BY <1>3 DEF FindMain, AnalyseMain, GenerateModule, PrintModule, OpenAssembly,
                WriteAssembly, Link, ExecModule, Interrupt, allVars
  <2> QED
    BY <2>1, TokensSame
<1> QED
  BY <1>1, <1>2, <1>3 DEF Next, Step

\* The tokens answered are those of the file, in order and, once it is read to its
\* end, all of them (TokensExact).
THEOREM TokensAlwaysExact == Spec => []TokensExact
<1>1. Init => Counted /\ TokensInv
  <2> SUFFICES ASSUME Init PROVE Counted /\ TokensInv
    OBVIOUS
  <2>1. Opened
    <3>1. <<>> \in Seq(Chars)
      BY EmptySeq
    <3> QED
      BY <3>1 DEF Init, InputInit, Opened
  <2> QED
    BY <2>1, OpenedInv DEF Init, Counted
<1>2. Counted /\ TokensInv /\ [Next]_allVars => Counted' /\ TokensInv'
  BY TokensNext, CountedNext
<1>3. TokensInv => TokensExact
  <2> SUFFICES ASSUME TokensInv PROVE TokensExact
    OBVIOUS
  <2> DEFINE S == Range(Reference)
             R == Reference
             n == Len(tokens)
  <2>1. /\ text \in Seq(Chars) /\ Kept(position, tokens)
        /\ ~has_next => position = Len(text)
    BY DEF TokensInv
  <2>2. /\ R \in Seq(S) /\ Len(R) = Cardinality(Starts) /\ Cardinality(Starts) \in Nat
        /\ tokens \in Seq(S) /\ n = Count(position) /\ Count(position) \in Nat
        /\ Count(position) <= Cardinality(Starts)
        /\ \A k \in 1 .. n : tokens[k] = R[k]
    BY <2>1, ReferenceProperties, CountProperties DEF Kept
  <2> HIDE DEF S, R
  <2>3. n \in Nat /\ n <= Len(R) /\ Len(R) \in Nat /\ 1 \in 1 .. n + 1 /\ n \in 0 .. n
        /\ 1 \in 1 .. Len(R) + 1 /\ n \in 0 .. Len(R) /\ 1 <= n + 1 /\ n - 1 + 1 = n
    BY <2>2
  <2>4. SubSeq(tokens, 1, n) = SubSeq(R, 1, n)
    <3>1. /\ SubSeq(tokens, 1, n) \in Seq(S) /\ Len(SubSeq(tokens, 1, n)) = n
          /\ \A j \in 1 .. n : SubSeq(tokens, 1, n)[j] = tokens[1 + j - 1]
      BY <2>2, <2>3, Part
    <3>2. /\ SubSeq(R, 1, n) \in Seq(S) /\ Len(SubSeq(R, 1, n)) = n
          /\ \A j \in 1 .. n : SubSeq(R, 1, n)[j] = R[1 + j - 1]
      BY <2>2, <2>3, Part
    <3>3. \A j \in 1 .. n : 1 + j - 1 = j
      BY <2>3
    <3>4. \A j \in 1 .. n : SubSeq(tokens, 1, n)[j] = SubSeq(R, 1, n)[j]
      BY <2>2, <3>1, <3>2, <3>3
    <3> QED
      BY <3>1, <3>2, <3>4, SeqEqual
  <2>5. IsPrefix(tokens, R)
    BY <2>3, <2>4 DEF IsPrefix
  <2>6. ASSUME ~has_next PROVE tokens = R
    <3>1. \A t \in Starts : t <= position
      BY <2>1, <2>6, TextProperties DEF Starts
    <3>2. Count(position) = Cardinality(Starts)
      BY <2>1, <3>1, CountProperties
    <3> QED
      BY <2>2, <3>2, SeqEqual
  <2> QED
    BY <2>5, <2>6 DEF TokensExact, R
<1> QED
  BY <1>1, <1>2, <1>3, PTL DEF Spec

=============================================================================
