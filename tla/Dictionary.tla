----------------------------- MODULE Dictionary -----------------------------
(***************************************************************************)
(* What the dictionary of movForth promises to whoever holds a pointer or  *)
(* an iterator into it: words are created one after the other and never    *)
(* forgotten, only the newest word may change, and it only grows. Its      *)
(* definition is extended at the end or has one cell overwritten, its      *)
(* locals and its immediate flag are never taken back.                     *)
(***************************************************************************)
EXTENDS Naturals, Sequences

VARIABLE words   \* the words in the order of their creation:
                 \* [name, immediate, body: the definition, names: its locals]

Newest == words[Len(words)]

Init ==
  /\ Len(words) = 2
  /\ words[1].name = ":" /\ ~words[1].immediate
  /\ words[2].name = ";" /\ words[2].immediate
  /\ \A w \in {1, 2} : words[w].names = {}

\* A new word: empty, not immediate, without locals.
Create ==
  /\ Len(words') = Len(words) + 1
  /\ \A w \in 1 .. Len(words) : words'[w] = words[w]
  /\ Newest'.body = <<>>
  /\ Newest'.names = {}
  /\ ~Newest'.immediate

\* Only the newest word changes; it keeps its name, its flag and its locals.
ChangeNewest ==
  /\ Len(words') = Len(words)
  /\ \A w \in 1 .. Len(words) - 1 : words'[w] = words[w]
  /\ Newest'.name = Newest.name
  /\ Newest.immediate => Newest'.immediate
  /\ Newest.names \subseteq Newest'.names

\* Cells are added at the end of its definition.
Extend ==
  /\ ChangeNewest
  /\ Len(Newest.body) <= Len(Newest'.body)
  /\ \A i \in 1 .. Len(Newest.body) : Newest'.body[i] = Newest.body[i]

\* One cell of its definition is overwritten.
Patch ==
  /\ ChangeNewest
  /\ Len(Newest'.body) = Len(Newest.body)
  /\ \E i \in 1 .. Len(Newest.body) :
       \A j \in 1 .. Len(Newest.body) : j # i => Newest'.body[j] = Newest.body[j]

Next == Create \/ Extend \/ Patch

Spec == Init /\ [][Next]_words
=============================================================================
