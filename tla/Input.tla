-------------------------------- MODULE Input --------------------------------
(***************************************************************************)
(* file_input: the tokens of a Forth file. A backslash ends a token and    *)
(* makes the rest of its line a comment.                                   *)
(***************************************************************************)
EXTENDS Naturals, SequencesExt, FiniteSetsExt

CONSTANT Letter   \* the characters that are neither white space nor a backslash

VARIABLES
  text,       \* the characters of the file
  position,   \* how many of them have been extracted
  has_next,   \* Input::has_next
  tokens      \* the tokens answered

inputVars == <<text, position, has_next, tokens>>

InputInit == text = <<>> /\ position = 0 /\ has_next = TRUE /\ tokens = <<>>

\* The constructor. A file that cannot be opened reads like an empty one.
Open(t) == text' = t /\ position' = 0 /\ has_next' = TRUE /\ tokens' = <<>>

Blank == {" ", "newline"}

ASSUME LetterAssumption == Letter \cap (Blank \cup {"backslash"}) = {}

Chars == Letter \cup Blank \cup {"backslash"}

\* The first position from i on whose character is in S, or the end of the file.
Find(i, S) == Min({j \in i .. Len(text) : text[j] \in S} \cup {Len(text) + 1})

\* Where `file >> tok` finds a token after i characters, and where it ends.
TokenStart(i) == Find(i + 1, Letter \cup {"backslash"})
TokenStop(i)  == Find(TokenStart(i), Blank)

\* Variant: the next line goes as well when the token is the last of its line.
IgnoreNext(i) == Min({Find(i + 1, {"newline"}), Len(text)})

\* file.ignore, from position i on: the newline goes as well.
Ignore(i) == Min({Find(i, {"newline"}), Len(text)})

\* next_token: what it answers and leaves, after i characters. A comment that
\* begins a token makes it call itself.
next_token[i \in Nat] ==
  LET start == TokenStart(i)
      stop  == TokenStop(i)
      cut   == Find(start, {"backslash"})
  IN  IF start > Len(text)
      THEN [tok |-> <<>>, position |-> Len(text), has_next |-> FALSE]
      ELSE IF start = cut THEN next_token[Ignore(stop)]
      ELSE [tok |-> SubSeq(text, start, Min({cut, stop}) - 1),
            position |-> IF cut < stop THEN Ignore(stop) ELSE stop - 1,
            has_next |-> TRUE]

\* The loop of Interpreter::interpret, and the words that read a name, ask for
\* the next token.
NextToken ==
  /\ \E r \in {next_token[position]} :
       /\ position' = r.position
       /\ has_next' = (has_next /\ r.has_next)
       /\ tokens' = IF r.has_next THEN Append(tokens, r.tok) ELSE tokens
  /\ UNCHANGED text

(***************************************************************************)
(* What the tokens of a text are.                                          *)
(***************************************************************************)
Commented(i) ==
  \E k \in 1 .. i : text[k] = "backslash" /\ "newline" \notin {text[j] : j \in k .. i}

InToken(i) == i \in DOMAIN text /\ text[i] \in Letter /\ ~Commented(i)

Starts == {i \in DOMAIN text : InToken(i) /\ ~InToken(i - 1)}

TokenAt(i) == SubSeq(text, i, Min({j \in i .. Len(text) : ~InToken(j + 1)}))

\* How many tokens start in the first i characters.
Count(i) == Cardinality({j \in Starts : j <= i})

Reference == [n \in 1 .. Cardinality(Starts) |-> TokenAt(CHOOSE i \in Starts : Count(i) = n)]

\* What next_token has answered are the tokens of the file without its comments, in
\* order and, once it closes, all of them: whatever a comment follows, and also the
\* last token of a file that does not end in a newline.
TokensExact ==
  /\ IsPrefix(tokens, Reference)
  /\ ~has_next => tokens = Reference
=============================================================================
