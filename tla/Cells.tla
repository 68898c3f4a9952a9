------------------------------- MODULE Cells -------------------------------
(***************************************************************************)
(* The values movForth computes with: iData, the variant every definition, *)
(* the data stack and the dictionary are made of, the primitive words with *)
(* the two flags they are registered with, and int64/int arithmetic.       *)
(*                                                                         *)
(* A Forth word is named by the number of its creation: word w is the w-th *)
(* ForthWord the program allocated. ForthWords are never freed, so the     *)
(* number identifies the object the C++ code points to.                    *)
(***************************************************************************)
EXTENDS Integers, Sequences, TLC

CONSTANTS
  Token,        \* what a Forth file is made of, whitespace apart
  MaxElement,   \* largest element (int64_t); the smallest is -MaxElement - 1
  MaxInt,       \* largest int, the range of stoi and of what "." prints
  BitOr(_, _)   \* operator | of C++ on elements

Element == -MaxElement - 1 .. MaxElement

ASSUME WidthAssumption ==
  /\ MaxElement \in Nat
  /\ MaxInt \in Nat
  /\ 1 <= MaxInt
  /\ MaxInt <= MaxElement

(***************************************************************************)
(* The primitives of Interpreter::init_words.                              *)
(***************************************************************************)
BinaryPrimitives == {"=", "+", "-", "*", "/", "<", "&"}
ImmediatePrimitives == {"[", "immediate", "to"}
StatefulPrimitives  == {"branch", "branchif", "literal"}

Primitives ==
  BinaryPrimitives \cup ImmediatePrimitives \cup StatefulPrimitives \cup
  {"swap", "rot", "dup", "drop", ".", ".S", "'", ",", "see", "]", "allot",
   "@", "!", "here", "create", "malloc", "free"}

(***************************************************************************)
(* iData: a number, a word pointer (Forth word or primitive) or nullptr.   *)
(* The primitives "toLocal" and "fromLocal" are objects that carry the     *)
(* local they access: its name and the word whose map holds it.            *)
(***************************************************************************)
Name == Token \cup {"", ":", ";"}   \* "" is read at the end of the file

NumCell   == [kind : {"num"}, n : Int]
WordCell  == [kind : {"word"}, w : Nat]
PrimCell  == [kind : {"prim"}, p : Primitives]
LocalCell == [kind : {"toLocal", "fromLocal"}, w : Nat, x : Name]
UndefCell == [kind : {"undef"}]

Cell == NumCell \cup WordCell \cup PrimCell \cup LocalCell \cup UndefCell

Num(i)          == [kind |-> "num", n |-> i]
WordXt(i)       == [kind |-> "word", w |-> i]
PrimXt(q)       == [kind |-> "prim", p |-> q]
ToLocal(i, y)   == [kind |-> "toLocal", w |-> i, x |-> y]
FromLocal(i, y) == [kind |-> "fromLocal", w |-> i, x |-> y]
Undef           == [kind |-> "undef"]

IsNumber(c) == c.kind = "num"
IsLocal(c)  == c.kind \in {"toLocal", "fromLocal"}
IsWord(c)   == c.kind \in {"word", "prim", "toLocal", "fromLocal"}

IsPrimitive(c, q) == c.kind = "prim" /\ c.p = q
IsStateful(c)     == c.kind = "prim" /\ c.p \in StatefulPrimitives
IsBranch(c)       == c.kind = "prim" /\ c.p \in {"branch", "branchif"}

\* A primitive that is stateful takes the cell after it.
NextInstruction(d, i) == IF IsStateful(d[i]) THEN i + 2 ELSE i + 1

\* The cells of a definition at which an instruction starts, if it is walked
\* without jumps: every one but the operand of the instruction before. Its end,
\* one cell further, has one too, unless the last instruction lacks its operand.
Instructions(d) ==
  LET starts[i \in 1 .. Len(d) + 2] ==
        i = 1 \/ ~(starts[i - 1] /\ (i - 1 > Len(d) \/ IsStateful(d[i - 1])))
  IN  {i \in 1 .. Len(d) + 2 : starts[i]}

(***************************************************************************)
(* PrimitiveEffects.h: how many cells the analysis takes each primitive to *)
(* pop and to push.                                                        *)
(***************************************************************************)
Effects ==
  LET Words == Primitives \cup {"toLocal", "fromLocal"}
  IN  [pops   |-> [q \in Words |->
                     CASE q = "rot"                                 -> 3
                       [] q \in BinaryPrimitives \cup {"swap", "!"} -> 2
                       [] q \in {"dup", "drop", ".", ",", "allot", "@", "branchif",
                                 "malloc", "free", "toLocal"}       -> 1
                       [] OTHER                                     -> 0],
       pushes |-> [q \in Words |->
                     CASE q = "rot"             -> 3
                       [] q \in {"swap", "dup"} -> 2
                       [] q \in BinaryPrimitives \cup
                            {"@", "literal", "here", "malloc", "fromLocal"} -> 1
                       [] OTHER                 -> 0]]

(***************************************************************************)
(* Arithmetic on elements.                                                 *)
(***************************************************************************)
Bool(b) == IF b THEN 1 ELSE 0

\* C++ division truncates towards zero.
Quotient(a, b) ==
  LET Abs(i) == IF i < 0 THEN -i ELSE i
  IN  IF (a < 0) = (b < 0) THEN Abs(a) \div Abs(b) ELSE -(Abs(a) \div Abs(b))

\* The conversion of an element to int that print_single(int) performs.
ToInt(i) == ((i + MaxInt + 1) % (2 * MaxInt + 2)) - MaxInt - 1
=============================================================================
