-------------------------------- MODULE Driver --------------------------------
(***************************************************************************)
(* main.cpp: a Forth file is interpreted, its word main is generated, the  *)
(* assembly is linked and the program run. Invocations for the same path   *)
(* follow each other and find the files that earlier ones left.            *)
(*                                                                         *)
(* How the interpreter fares with a token, the analysis with main, and     *)
(* LLVM, clang++ and the shell with what they are given, is left open.     *)
(* What a token runs and the program itself are taken to end.              *)
(***************************************************************************)
EXTENDS Input, ModuleFunctions

CONSTANTS
  Jobs(_),   \* what the file may hold at an invocation
  MaxRounds  \* bound of the number of invocations

ASSUME RoundsAssumption == MaxRounds \in Nat

\* A file holds characters. Words call words there are.
ASSUME JobsAssumption ==
  \A n \in 1 .. MaxRounds : \A job \in Jobs(n) :
    /\ job.text \in Seq(Chars)
    /\ job.calls \in Seq(Seq(0 .. Len(job.calls))) /\ job.calls # <<>>

VARIABLES
  path,      \* the kind of path given, which does not change
  round,     \* the number of invocations
  phase,     \* where main is; "idle" before and after
  status,    \* the exit status, 2 for an abort, a crash or a signal
  files,     \* which invocation wrote each file; 0 for a file that is missing,
             \* NotWhole for one cut short, Intact for the source as its author left it
  linked,    \* the linker succeeded, in this invocation
  ran        \* what the last invocation ran; 0 for nothing

driverVars == <<path, round, phase, status, files, linked, ran>>
allVars    == <<inputVars, functionVars, driverVars>>

\* "a.fs"; "a"; "./a" or "d.e/a", whose last dot is not of an extension; "/a.fs".
Paths == {"plain", "bare", "dotted", "absolute"}

NotWhole == MaxRounds + 1
Intact   == MaxRounds + 2

FileNames == {"ll", "S", "program", "source"}

Init ==
  /\ InputInit /\ FunctionsInit
  /\ path \in Paths
  /\ round = 0 /\ phase = "idle" /\ status = 0
  /\ files = [f \in FileNames |-> IF f = "source" THEN Intact ELSE 0]
  /\ linked = FALSE /\ ran = 0

\* The file written by -o program_name: the source if its path has no dot.
Program == IF path = "bare" THEN "source" ELSE "program"

GoTo(p) == phase' = p /\ UNCHANGED status
Exit(s) == phase' = "idle" /\ status' = s

\* The program is called, for a file its author has just edited or not; a source
\* the linker has written over holds anything. More than one argument is refused.
Invoke ==
  /\ phase = "idle" /\ round < MaxRounds
  /\ round' = round + 1
  /\ linked' = FALSE /\ ran' = 0
  /\ \/ \E job \in Jobs(round + 1), edited \in BOOLEAN :
          /\ Open(job.text) /\ NewGenerator(job.calls, job.faulty)
          /\ files' = IF edited THEN [files EXCEPT !["source"] = Intact] ELSE files
          /\ GoTo("interpret")
     \/ /\ Exit(1)
        /\ UNCHANGED <<inputVars, functionVars, files>>
  /\ UNCHANGED path

\* One turn of the loop of interpret. At the end of the file it returns false, unless
\* it was a word that asked for the token.
Interpret ==
  /\ phase = "interpret"
  /\ NextToken
  /\ \/ GoTo(IF has_next' THEN "interpret" ELSE "find")
     \/ (has_next' \/ tokens # <<>>) /\ Exit(1)
     \/ tokens' # <<>> /\ Exit(2)
  /\ UNCHANGED <<functionVars, path, round, files, linked, ran>>

\* find("main"), which takes ":" and "main" to be there.
FindMain ==
  /\ phase = "find"
  /\ \/ Len(tokens) >= 2 /\ GoTo("analyse")
     \/ Exit(1)
  /\ UNCHANGED <<inputVars, functionVars, path, round, files, linked, ran>>

\* inlining and static_analysis.
AnalyseMain ==
  /\ phase = "analyse"
  /\ GoTo("generate") \/ Exit(2)
  /\ UNCHANGED <<inputVars, functionVars, path, round, files, linked, ran>>

\* ir_generator.generate.
GenerateModule ==
  /\ phase = "generate"
  /\ GenerateStep
  /\ CASE generated' = "no"       -> GoTo("generate")
       [] generated' = "yes"      -> GoTo("print")
       [] generated' = "rejected" -> Exit(1)
       [] generated' = "overflow" -> Exit(2)
  /\ UNCHANGED <<inputVars, path, round, files, linked, ran>>

Write(file, n) == files' = [files EXCEPT ![file] = n]

\* print_module: an error code is not looked at, but LLVM may not survive it.
PrintModule ==
  /\ phase = "print"
  /\ \/ Write("ll", round) /\ GoTo("emit")
     \/ Write("ll", NotWhole) /\ Exit(2)
     \/ UNCHANGED files /\ (GoTo("emit") \/ Exit(2))
  /\ UNCHANGED <<inputVars, functionVars, path, round, linked, ran>>

\* ObjectGenerator::generate: the file is opened before it is known whether LLVM can
\* emit assembly for the target.
OpenAssembly ==
  /\ phase = "emit"
  /\ \/ Exit(1) /\ UNCHANGED files
     \/ Write("S", NotWhole) /\ GoTo("write")
  /\ UNCHANGED <<inputVars, functionVars, path, round, linked, ran>>

\* Variant: a failure to emit is not told.
WriteAssemblyAnyway ==
  /\ phase = "write"
  /\ \/ GoTo("link") /\ UNCHANGED files
     \/ Write("S", round) /\ GoTo("link")
  /\ UNCHANGED <<inputVars, functionVars, path, round, linked, ran>>

WriteAssembly ==
  /\ phase = "write"
  /\ \/ Exit(1) /\ UNCHANGED files
     \/ Write("S", round) /\ GoTo("link")
  /\ UNCHANGED <<inputVars, functionVars, path, round, linked, ran>>

\* ObjectGenerator::link: whether clang++ succeeds is not looked at. Where the name
\* was cut at a dot in a directory there is no file to write to. popen may throw.
Link ==
  /\ phase = "link"
  /\ \/ path # "dotted" /\ linked' = TRUE /\ Write(Program, files["S"]) /\ GoTo("run")
     \/ UNCHANGED <<linked, files>> /\ GoTo("run")
     \/ UNCHANGED <<linked, files>> /\ Exit(2)
  /\ UNCHANGED <<inputVars, functionVars, path, round, ran>>

\* exec_module2: the shell runs "./" + program_name if there is such a program. What
\* it answers is not looked at.
Runnable == path \in {"plain", "bare"} /\ files[Program] \in 1 .. MaxRounds

ExecModule ==
  /\ phase = "run"
  /\ \/ ran' = (IF Runnable THEN files[Program] ELSE 0) /\ Exit(0)
     \/ UNCHANGED ran /\ Exit(2)
  /\ UNCHANGED <<inputVars, functionVars, path, round, files, linked>>

\* The program is interrupted by a signal.
Interrupt ==
  /\ phase # "idle"
  /\ Exit(2)
  /\ UNCHANGED <<inputVars, functionVars, path, round, files, linked, ran>>

Step ==
  Interpret \/ FindMain \/ AnalyseMain \/ GenerateModule \/ PrintModule \/ OpenAssembly
    \/ WriteAssembly \/ Link \/ ExecModule

Next == Invoke \/ Step \/ Interrupt

\* The operating system runs the program.
Spec == Init /\ [][Next]_allVars /\ WF_allVars(Step)

(***************************************************************************)
(* Properties.                                                             *)
(***************************************************************************)
\* What the exit status of an invocation tells. 0: the file was read to its end, the
\* module generated, its assembly is on disk and, if clang++ linked it, the program
\* made from it is there and is what was run, where "./" leads to it. 1: nothing was
\* run, and the program of an earlier invocation is still in place.
StatusTells ==
  phase = "idle" /\ round > 0 =>
    /\ status = 0 =>
         /\ ~has_next
         /\ generated = "yes"
         /\ files["S"] = round
         /\ linked => files[Program] = round
         /\ linked /\ path # "absolute" => ran = round
    /\ status = 1 => files[Program] # round /\ ran = 0

\* Every invocation ends: with a status, or by an abort or an overflow of the native
\* stack, as for words that call themselves.
DriverEnds == phase # "idle" ~> phase = "idle"
=============================================================================
