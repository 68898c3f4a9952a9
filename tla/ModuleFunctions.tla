--------------------------- MODULE ModuleFunctions ---------------------------
(***************************************************************************)
(* IRGenerator::generate: the function of a word is generated, and in the  *)
(* midst of it those of the words it calls, unless they have been. What is *)
(* generated for the other instructions is the subject of RegisterCode.    *)
(***************************************************************************)
EXTENDS Naturals, SequencesExt, FiniteSetsExt

CONSTANT MaxCalls   \* how many calls of generate_function the native stack holds

ASSUME CallsAssumption == MaxCalls \in Nat \ {0}

Root == 1           \* the word main
Unsupported == 0    \* an instruction that is not supported at runtime

VARIABLES
  calls,      \* the words each word calls, in order, Unsupported among them
  faulty,     \* the words whose function does not verify
  visited,    \* IRGenerator::visited_words
  active,     \* the active calls of generate_function, innermost last
  created,    \* the words functions have been created for, in order
  verified,   \* the words whose function is complete
  generated   \* "no", "yes", "rejected" (nullptr) or "overflow" of the native stack

functionVars == <<calls, faulty, visited, active, created, verified, generated>>

FunctionsInit ==
  /\ calls = <<<<>>>> /\ faulty = {}
  /\ visited = {} /\ active = <<>> /\ created = <<>> /\ verified = {}
  /\ generated = "no"

\* A generator for other words.
NewGenerator(c, f) ==
  /\ calls' = c /\ faulty' = f
  /\ visited' = {} /\ active' = <<>> /\ created' = <<>> /\ verified' = {}
  /\ generated' = "no"

Create(w) ==
  /\ active' = Append(active, [w |-> w, at |-> 1])
  /\ created' = Append(created, w)

\* A nullptr goes all the way up.
Reject == generated' = "rejected" /\ active' = <<>>

\* generate, for a root that may have parameters or returns.
GenerateRoot ==
  /\ generated = "no" /\ active = <<>>
  /\ \/ Create(Root) /\ UNCHANGED generated
     \/ Reject /\ UNCHANGED created
  /\ UNCHANGED <<calls, faulty, visited, verified>>

Innermost == Last(active)
Callees   == calls[Innermost.w]

\* Variant: the loop over the instructions stays where it is.
ProceedNowhere(s) == s

Proceed(s) == [s EXCEPT ![Len(s)].at = @ + 1]

\* The next call in the innermost word: get_function.
GetFunction ==
  /\ generated = "no" /\ active # <<>> /\ Innermost.at <= Len(Callees)
  /\ LET w == Callees[Innermost.at]
     IN  \/ /\ w = Unsupported
            /\ Reject /\ UNCHANGED created
         \/ /\ w \in visited
            /\ active' = Proceed(active) /\ UNCHANGED <<created, generated>>
         \/ /\ w \notin visited \cup {Unsupported} /\ Len(active) < MaxCalls
            /\ Create(w) /\ UNCHANGED generated
         \/ /\ w \notin visited \cup {Unsupported} /\ Len(active) = MaxCalls
            /\ generated' = "overflow" /\ UNCHANGED <<active, created>>
  /\ UNCHANGED <<calls, faulty, visited, verified>>

\* Variant: a function is cached under the word that calls it.
RememberCaller(w) == visited \cup {active[Len(active) - 1].w}

\* visited_words.insert, by the caller of generate_function: not for the root.
Remember(w) == visited \cup {w}

\* The end of generate_function.
EndFunction ==
  /\ generated = "no" /\ active # <<>> /\ Innermost.at > Len(Callees)
  /\ \/ /\ Innermost.w \in faulty
        /\ Reject /\ UNCHANGED <<visited, verified>>
     \/ /\ Innermost.w \notin faulty
        /\ verified' = verified \cup {Innermost.w}
        /\ IF Len(active) = 1
           THEN generated' = "yes" /\ active' = <<>> /\ UNCHANGED visited
           ELSE /\ visited' = Remember(Innermost.w)
                /\ active' = Proceed(Front(active))
                /\ UNCHANGED generated
  /\ UNCHANGED <<calls, faulty, created>>

GenerateStep == GenerateRoot \/ GetFunction \/ EndFunction

(***************************************************************************)
(* Properties.                                                             *)
(***************************************************************************)
Words     == DOMAIN calls
Called(w) == Range(calls[w]) \ {Unsupported}
Closed(S) == \A w \in S : Called(w) \subseteq S

\* The words called from the root, however indirectly, and the root.
Needed == {w \in Words : \A S \in SUBSET Words : Root \in S /\ Closed(S) => w \in S}

\* Some of them call each other in circles.
Recursive == \E S \in SUBSET Needed : S # {} /\ \A w \in S : Called(w) \cap S # {}

\* When generate answers a module it has one function for every word needed, each was
\* completed, and none calls itself, however indirectly. The native stack overflows
\* only for words that do - their functions are created over and over again, as they
\* are remembered when they are complete - or for more words than it holds.
ModuleComplete ==
  /\ generated = "yes" =>
       /\ verified = Needed
       /\ Range(created) = Needed /\ IsInjective(created)
       /\ Needed \cap faulty = {}
       /\ \A w \in Needed : Unsupported \notin Range(calls[w])
       /\ ~Recursive
  /\ generated = "overflow" => Recursive \/ Cardinality(Needed) > MaxCalls
=============================================================================
