------------------------------- MODULE MCDriver -------------------------------
(***************************************************************************)
(* An instance of Driver for TLC: files of up to six characters, and main  *)
(* with up to two other words that call each other in every way.           *)
(***************************************************************************)
EXTENDS Driver

MCLetter == {"a"}

Job(t, c, f) == [text |-> t, calls |-> c, faulty |-> f]

Texts == BoundedSeq({"a", " ", "newline", "backslash"}, 6)

Defining == <<"a", " ", "a">>   \* a file that defines main

Graphs ==
  {<<a, b, c>> : a \in BoundedSeq({2, 3}, 2), b \in BoundedSeq(0 .. 3, 2),
                 c \in BoundedSeq(1 .. 3, 1)}

\* The first file is any, the second defines main with one call or ends in a comment.
FirstJobs ==
  {Job(t, <<<<>>>>, {}) : t \in Texts}
    \cup {Job(Defining, g, f) : g \in Graphs, f \in {{}, {1}, {3}}}

MCJobs(n) ==
  IF n = 1 THEN FirstJobs
  ELSE {Job(Defining, <<<<2>>, <<>>>>, {}), Job(<<"a", "backslash">>, <<<<>>>>, {})}
=============================================================================
