# movForth in TLA+

movForth compiles a Forth file in four phases that run one after the other in
one process (`src/main.cpp`):

1. **interpretation** reads the file token by token, defines words and executes
   whatever the file says to execute on the way;
2. **inlining** copies small words into the words that call them, starting from
   the word `main`;
3. **static analysis** cuts every word `main` needs into basic blocks, computes a
   stack graph per word and names a register for every stack element;
4. **generation** emits LLVM IR from the blocks and registers, has it turned into
   assembly, and runs `clang++` and the program.

There is no concurrency; what lasts beyond a run are the files it writes next to
the source, which the next run for the same path finds. What makes the code hard is
that it edits what it walks: words run while they are being compiled, control
flow words patch the definition under construction at indices they computed
themselves, the inliner grows the lists it iterates over and corrects offsets
for it, and the analysis is a set of mutually recursive walks over a graph with
cycles, tied together by caches.

## Inventory

| Component | State | Operations | Interacts with |
|---|---|---|---|
| Input (`Input.h`) | open file | `next_token` | interpreter: token loop, `create`, `to`, `'` |
| Interpreter (`Interpreter.cpp`, `ForthWord`, `Primitive`, `Stack`, `iData`, `WordGenerator`) | dictionary, definitions, locals, data stack, immediate flag, iterators of the active `execute` calls, heap cells | token loop, `ForthWord::execute`, 30 primitives, `toLocal`, `fromLocal` | hands its words to the later phases by pointer |
| Inlining (`Pass.cpp` `inlining`, `dfs`) | the definitions and locals, `visited`, the active calls of `dfs` | `can_inline`, `replace_with`, branch correction | edits the interpreter's words |
| Static analysis (`Pass.cpp` `static_analysis`) | cache `visited_words` | translate, then graph, one word | recursive through the blocks |
| Basic blocks (`Pass_ToBasicBlocks.cpp`, `Block`, `Instruction`) | blocks and instructions of each word | `BasicBlockBuilder`, `translate_to_basic_blocks`, `nextBBs` | calls static analysis for every cell |
| Stack graph (`Pass_WordStackGraph.cpp`, `Pass_BlockStackGraph.cpp`, `Pass_MatchingPairs.cpp`, `Block::align_registers`) | nodes and registers, per block inputs, outputs, parameters | `explore_graph_dfs`, `propagate_stack`, register alignment | reads effects of callees, writes its own |
| IR generation (`IRGenerator.cpp`, `FBuilder.cpp`) | LLVM module, functions, alloca per register | `get_function`, `generate_function` | reads blocks and nodes |
| Object generation (`ObjectGenerator.cpp`, `SystemExec.cpp`) | assembly file, program | `generate`, `link`, `exec` | LLVM, shell |
| Driver (`main.cpp`) | exit status, file names made from the path | `main` | calls all the others |
| Printing (`Print.cpp`) | indentation | `print`, `println` | called by all |

What would make each of them correct, and where it is hard:

* *Interpreter.* The dictionary must keep every word although `here` and `allot`
  push and pop data on the same vector; iterators of suspended calls must
  survive edits of the definitions; every branch offset the control words
  compute must lead to an instruction; cells copied between words must still
  find the locals they access; each primitive must do to the stack what
  `PrimitiveEffects.h` tells the analysis.
* *Inlining.* A word must stand for the same instructions afterwards, must know
  the locals it inherited, must stay under the limit, and its branches must lead
  where they led.
* *Static analysis and blocks.* The blocks must have the flow of control the
  interpreter gives the definition; a block must end in its only branch; a
  callee must be graphed before its caller; the walk must end for words that
  call themselves.
* *Stack graph and IR.* Two paths into a block must agree on height and
  registers; a compiled word must compute what the interpreted word computes; a
  module must have one complete function for every word it needs.
* *Input.* The tokens must be those of the text without its comments.
* *Driver.* The exit status must tell something reliable of the files left and of
  what was run, whichever step failed, in this run or an earlier one.

The hazards found at each line are listed in `PROJECT.json`.

## Modules

| Module | Models |
|---|---|
| `Cells` | `iData`, the primitives with the flags they are registered with, the table `PrimitiveEffects.h`, element and int arithmetic |
| `Interpreter` | interpretation: token loop, `ForthWord::execute`, every primitive |
| `Dictionary` | abstract specification: what the table of words promises to whoever points into it |
| `Inlining` | `Analysis::inlining` |
| `BasicBlocks` | `Analysis::static_analysis` and `translate_to_basic_blocks` |
| `StackGraph` | `word_stack_graph`, `explore_graph_dfs`, `propagate_stack`, `Block::align_registers` |
| `StackMachine` | abstract specification: what the blocks of a word mean, by the primitives of the interpreter on a stack |
| `RegisterCode` | extends `StackGraph`: `generate_function`, and the code it generates running |
| `Input` | `file_input::next_token` on characters |
| `ModuleFunctions` | `IRGenerator::generate`, `get_function`: the functions of a module |
| `Driver` | extends `Input` and `ModuleFunctions`: `main.cpp`, `print_module`, `ObjectGenerator`, `exec`, the files |
| `MCInterpreter`, `MCInlining`, `MCBasicBlocks`, `MCStackGraph`, `MCRegisterCode`, `MCDriver` | instances for TLC |
| `InterpreterProofs` | theorems about `Interpreter`, and that it implements `Dictionary` |
| `CellsProofs` | what the instructions of a list of cells are |
| `InliningProofs` | theorems about `Inlining`: types, sizes, locals, branches, what is left to inline, what words stand for |
| `BasicBlocksProofs` | theorems about `BasicBlocks`: callees first, the flow of control kept, closed blocks |
| `StackGraphProofs` | theorems about `StackGraph`: types, registers distinct, locals known |
| `StackEffectsProofs` | theorems about `StackGraph`: the effects are those of the paths, registers match across edges |
| `SequenceLemmas` | what the proofs keep needing of sequences: concatenation, removal, replacement, reversal, greatest and least elements, functions by recursion |
| `DriverProofs` | theorems about `Driver`: the exit status, the module generated, the tokens of a file |

A Forth word is named by the number of its creation in all modules. The output
of one phase is the input of the next: the programs `Inlining` and `BasicBlocks`
start from are constrained by assumptions (`ProgramsAssumption`) that are
properties of `Interpreter`, above all `CallsOlder`, which is proved.

### Interpreter

The control state of the C++ call stack is explicit. A step of the token loop
(`ExecuteToken`, `CompileWord`, `CompileLocal`, `PushNumber`, `CompileNumber`,
`RejectToken`, `EndOfFile`) either finishes a token or sets `xt`, the word about
to execute. `CallWord` enters `ForthWord::execute`, which pushes a frame: the
word and the index of the cell after the current one, which is what the iterator
`it` will be after its increment. `FetchWord`, `SkipNumber` and `ReturnFromWord`
are the loop of `execute`. Each primitive is an action of its own enabled when
`xt` is that primitive; `branch`, `branchif` and `literal` move the iterator of
the innermost frame, as the C++ does through the reference `IP`. A primitive run
straight from the token loop has no frame (the C++ gives it an iterator into an
empty list).

No offset is checked, neither that of a branch nor the place `!` patches. A
`std::list` is a ring of its cells and one sentinel, `end()`, and `Advance` goes
around it: a branch far out of its definition may come back into it at the
other end. Only reading, writing or executing what the sentinel does not hold is
undefined. This is how both common libraries link a list.

Memory is not checked either. `@` and `!` take any number for an address. At a
cell of a block that was freed they may go well, a read giving the old content or
what the allocator left there, and `malloc` may hand a freed block out again;
whoever holds the old address then reads and writes the new block. An address
outside every block, or in a freed one, may also end the program as undefined.

The stack, the definitions and the dictionary are sequences of cells, a cell a
record with its kind. `pop_number` is modelled with its quirk of leaving a word
or an empty cell on the stack and answering 0; so all actions are total on any
stack. Exceptions end the program in `status = "aborted"`; undefined behaviour
(popping an empty vector, leaving a list, wild addresses, signed overflow,
division by zero, exhausting the native stack) in `status = "undefined"`, with
no claim about what follows. Uninitialised heap cells hold any value of
`Garbage`; whether the left or the right `pop_number` of `/` and `<` is
evaluated first is the constant `LeftFirst`.

A token is atomic: `Sources` is a set of sequences of tokens, and `NumberOf`
says which tokens `stoi` accepts, with their values (also such as `2dup`, of
which `stoi` reads the 2).

### Dictionary

The abstract view of the words: `Create` adds an empty one, `Extend` and `Patch`
change the newest one only. `Interpreter` is shown to implement it by the
refinement mapping `WordTable`, as the property `KeepsWords`.

### Inlining

One step per cell of each of the two passes `dfs` makes over a definition:
`VisitWord` descends into a word not seen, `PassOver` steps on, `StartInlining`
begins the second pass, in which `InlineCall` replaces a call and `FixBranch`
corrects an offset. `replace_with` takes its list by value but works on the
nodes of the original through the iterator; that a word that calls itself beyond
its first cell makes it read forever what it inserts is `InlineForever`. A
history variable, `origin`, remembers which original cell each cell stems from;
the properties on branches are stated with it. `dfs` takes every cell that holds a
word for a call, also the operand of a `literal`, and so does the model.
`ExpansionKept` tells the two apart: only cells at which an instruction starts
are calls (`CallsIn`), an operand stands for itself.

### BasicBlocks

`Start` and `VisitWord` enter `translate_to_basic_blocks` for a word: the scan
for branches and the creation of empty blocks are one step, as nothing else runs
between them. `Fill` appends one instruction and closes the block where the next
begins. `Finish` adds the return and graphs the word. `NoWord` and `NoOperand`
are the definitions the C++ does not survive. The place a branch leads to is kept
as a short (`ToShort`), and definitions are taken to be of a length a short can
count.

### StackGraph

The graph of one word, whose blocks are those `BasicBlocks` leaves
(`GraphsAssumption` is `BlocksClosed`) and whose callees have been graphed
(`CalleesFirst`), so that their effects are a constant. A node is named by the
number of its allocation, since the lists of instructions and blocks share nodes
through pointers; it holds its predecessor and the registers of its two edges.
The recursion of `explore_graph_dfs` is the sequence `calls`; each call has its
own copies of the stack and of the parameter generator, as the C++ passes them
by value. `Propagate`, `StoreLocal` and `LoadLocal` are one instruction each,
`CloseBlock` is what follows the last one: comparing counts with the successors
and aligning registers with them, in the order of `align_registers`. `Descend`
enters a successor and gives its inputs their registers, `Return` leaves a block,
`Finish` computes the effects of the word. `locals.at` of a local that has no
register ends the walk as `aborted`; reading past `initial_registers` is
`undefined`.

The exit block is different: it has no successor, so its outputs are never
aligned, and it is graphed again for every edge into it. The properties say where
they need that not to happen (`ExitOnce`).

### RegisterCode and StackMachine

When the graph of a word is done (`Analyse` is a step of `StackGraph`), `Generate`
is `generate_function` as one step: nothing it reads changes any more. It goes over
the instructions in the order of the blocks and keeps the set of registers that
have memory (`known`, the keys of `val_ptrs`). It can end in `nullptr`
(`rejected`), with an exception (`aborted`), or by following a null pointer or
reading past a list of nodes (`crashed`).

The code generated is not a data structure of its own: it is given by the
instructions and the registers of their nodes, one load, computation or store
for each. `Start` calls the function with any arguments and one action per kind
of instruction runs it on `memory`, the contents of the registers; the arguments
are stored where the C++ stores them, at the head of the first Forth block, so
again whenever that is entered. The functions called are a constant, `Answer`.

`StackMachine` says what the same blocks mean on a stack, primitive by primitive
as in `Interpreter.cpp`; results that leave the range of `element`, addresses and
whatever was never set may be anything there, and division by zero or a wild
address ends it as `undefined`. The refinement mapping of `Implements` finds the
stack in the registers of the nodes that were on the graph's stack before the
instruction (the history variable `shape`), above the parameters not taken yet.
The program is compared under the premises `Sound`, which it states one by one:

| Premise | Without it |
|---|---|
| `Balanced`, `SplitOwnsOne` | registers do not line up (runs `merges`, `lineup`) |
| `PassedAlong` | an element passed on by a block is aligned for the block before as well |
| `ExitPlain` | parameters and results pile up in an exit block visited twice |
| `Agreeing` | `&`, and one of `/` and `<`, mean another thing when compiled |
| `KeysDiffer` | locals of two words of one name share a register |
| `IsInjective(Returns)` | of a result returned twice (`: twice dup ;`) the second is never written |
| `Unshared` | registers are not unique to an element (run `unique`) |

`Unshared` is a condition on the graph alone: no instruction moves a different
element into a register that is held by an element staying on the stack, a
parameter not taken or a local, nor two into one.

### Input, ModuleFunctions and Driver

`Input` keeps the characters of the file and how many have been extracted.
`next_token` is a recursive function as the C++ is a recursive method. The
characters are letters, a backslash, and white space of which only the newline
is told apart.

`ModuleFunctions` is the recursion of `generate_function` and `get_function`:
`active` holds the calls, each at the next word it calls. A word is remembered by
the caller after its function is complete; the root is not. A function that LLVM
does not verify, an instruction that is not supported and a root with parameters
end in a `nullptr` all the way up. `MaxCalls` is the size of the native stack.

`Driver` composes the two and follows `main`, one action per call, with every early
return. For each file it keeps which invocation wrote it. The path is of one of
four kinds, as `main.cpp:22` makes the name of the program from it by cutting at
the last dot: with an extension, without a dot, with its only dot in a directory,
and absolute. Before the next invocation the author may have edited the source.
How the interpreter fares with a token, the analysis with `main`, LLVM, `clang++`
and the shell with what they are given is left open: each may succeed, fail as
the code lets it, or abort. Words run while interpreting, and the program itself,
are taken to end. `ModuleFunctions` gets any calls between words.

## Runs

| Run | Instance | Shows |
|---|---|---|
| `programs` | the eight programs of `src/Examples`, with fewer loop turns and `bubble` with three small elements, each `main` run during interpretation; all programs of a small language (assignments, if, if-else, counted loops, two levels deep), translated to Forth with the control words of `src/Examples/Bubble` | `ExamplesPrint`: the examples print what they should and leave an empty stack; `StructuredMeaning`: what is printed is the meaning of the structure; `JumpsLand`: every branch leads to an instruction of its definition or to its end; `AccessesOwned`: the examples touch and free only memory they were granted and have not freed; `ProgramEnds` |
| `tokens` | up to three tokens out of 14 in five contexts, recursive words of up to three instructions with branches of any small offset, every primitive on small stacks with heap blocks | `TypeOK`, `DictionaryComplete`, `CellsResolve`, `CallsOlder`, `EffectsAgree`, `KeepsWords` |
| `mask` | two numbers and `&` | `MasksBits` is violated: `&` ORs |
| `inlining` | three words of up to three instructions, recursive calls, operands that are words, words of the same name, branches | `TypeOK`, `SizeBounded`, `Saturated`, `ExpansionKept`, `LocalsFollow`, `BranchesKept`, `WalkEnds` |
| `fixed` | branches over and around one inlined call | `BranchesFixed` is violated: forward branches are not corrected |
| `blocks` | words with branches of any offset, calls and literals | `TypeOK`, `CalleesFirst`, `SameFlow`, `BlocksClosed`, `TranslationEnds` |
| `graphs` | all words of three blocks with up to one instruction of six and any branch at the end, and counters in four blocks | `TypeOK`, `EffectsExact`, `BalancedDefined`, `RegistersDistinct`, `RegistersMatch`, `LocalsAssigned`, `GraphingEnds` |
| `lineup` | the same | `RegistersLineUp` is violated: registers do not always line up |
| `merges` | the same | `MergesReported` is violated: different stack sizes go unreported |
| `code` | straight words of any three instructions, or of four that move elements; conditions, loops, counters, any flow of control between three blocks; three larger words that load what was not stored | `Implements`: generated code does what the blocks mean; `GeneratorDefined`: the generator does not crash |
| `unique` | straight words that move elements | `ElementsKept` is violated: registers are not unique to elements |
| `driver` | two invocations; files of up to six characters; three words with any calls between them | `TokensExact`, `ModuleComplete`, `StatusTells`, `DriverEnds` |

`StructuredMeaning` is the central property of the interpreter: it relates the
output of the program, after tokens have been read, words executed at compile
time and definitions patched, to a meaning function defined on the structure
alone. `JumpsLand` says why it holds: the offsets the control words compute from the
places they marked lead to instructions, though nothing in the interpreter asks.
`AccessesOwned` is about memory what `JumpsLand` is about branches; neither holds of
arbitrary programs. `SameFlow` is the central property of the blocks. `EffectsExact` and `RegistersMatch` are those
of the stack graph: the first compares the effects a word is given with a count
along every path from its first block (`OnEntry`), which knows nothing of the
order in which the walk met the blocks; the second follows an element over every
edge, from the register it is stored to, to the one it is read from. `Implements`
goes on from there: the code that results computes what the blocks compute.
`TokensExact` compares `next_token` with a definition of tokens that looks at each
character on its own. `StatusTells` ties the exit status to four files.

### Bounds and why they are enough

* `MaxElement`, `MaxInt`: 64-bit and 32-bit ranges shrunk, so that sums leave
  the range and printing truncates within a few steps.
* `MaxDepth` (3 or 6): the native stack; recursion deeper than it is `undefined`.
  Two nested calls of the same word already show the reset of locals.
* `BlockSpan`, `CellBytes`: blocks of up to four cells of eight bytes.
* `bubble` sorts 3 elements for 20000, and its random numbers are made by `-3 * 5 + 7 &`
  for `1309 * 13849 + 65535 &`, as the text's own numbers do not fit into a small
  range of elements. In the interpreter, where `&` ORs, they do not fit into 64 bits
  either: the OR keeps what the mask should take away, and the products overflow
  after a few turns. What `bubble` may print is stated for a `&` that masks and for
  one that ORs, as the sorting does not depend on it; `MasksBits` is about `&`.
* `MaxShort` (15): a branch of offset 30 leads backwards once it is kept as a short.
* `StackBound`, a constraint of the run `tokens`: endless loops may push forever.
  The invariants do not depend on the height beyond what three primitives pop.
* `MaxSize` (8 or 12 for 50): so small that of the calls in a word some fit and
  some do not.
* Three blocks with one instruction before the branch: a loop of one or two
  blocks, a branch over a block, a merge, unreachable blocks; one instruction of
  the six changes the height by at most two. Misaligned registers need a second
  branch, whose two successors are aligned by different blocks: hence the
  counters in four blocks. Paths of as many edges as there are blocks reach every
  block at two heights if any do.
* `code`: three instructions, two of them to put elements on the stack and one that
  moves or computes; four where moves only are concerned, as `dup` needs a `swap`
  after it and an element below. Elements from -4 to 3, so that sums wrap; one
  address, which `malloc` may find or not, and again after `free`. Only words that
  meet `Sound` are run (the constraint `RunSound`); all are generated.
* `driver`: six characters hold two tokens with a comment between them, a comment
  behind another, and a file that ends in each of the four characters; three words
  and three calls on the native stack make cycles, words called twice, and an
  overflow; the second invocation finds whatever the first may leave.
* Three words with three instructions each: a callee, a caller that is itself
  called, and a third that calls both, in every order, or itself.

### Fairness

`WF_vars(Next)` in the specifications of the phases: the program is one thread, and
as long as it has a next step it takes it. `Driver` has `WF(Step)`: the operating
system goes on running the process, but need not invoke it, nor interrupt it. No
other fairness is assumed. `ProgramEnds`, `WalkEnds`, `TranslationEnds`, `GraphingEnds`
and `DriverEnds` are the liveness properties; `RegisterCode` states no fairness, as
the code generated may loop. Deadlock is checked in every run, the terminal states
stutter explicitly (`Ended`), but for `driver`: after the last of the invocations
counted there is no next step.

## Proofs

`InterpreterProofs` proves, for any sources, number readings and bounds:

* `Invariance`: the conjunction of `TypeOK`, `DictionaryComplete`, `CellsResolve` and a
  few auxiliary facts, among them that a suspended call stands in its definition or at
  its end, is an inductive invariant. None of these is inductive alone: a call stays
  in its definition only if that does not shrink and its word exists; the word
  exists only if the cells resolve; they keep resolving only if the newest
  dictionary entry is the newest word, which is `DictionaryComplete`.
* `TypeCorrect`, `DictionaryKept`, `CellsAlwaysResolve` follow.
* `EffectsAlwaysAgree` (`EffectsAgree`) is an action property: what a step does to the
  height of the stack, primitive by primitive, from the types of what the invariant says
  is on the stack, compared with the table `PrimitiveEffects.h`.
* `WordsKept`: the interpreter implements `Dictionary` step by step, by the invariant
  above; and `CallsGoBack` (`CallsOlder`), which the later phases assume of their input.

The proof has a lemma per group of actions and per part of the invariant;
actions that change only the stack, or only the frames, are summarised by
lemmas.

`InliningProofs` proves, for any programs and any limit, `TypeCorrect` (`TypeOK`),
`SizesStayBounded` (`SizeBounded`) and `LocalsAlwaysFollow` (`LocalsFollow`). The
invariant `IInv` says besides that cells only refer to words there are, that what is spliced
in has as many origins as cells, and that no word has two active calls of `dfs`
(`Active`): without the last an outer call could stand beyond the end of a
definition that an inner one changes. `SpliceProperties` says what `replace_with`
does to a list, `HostChanges` what a change to one definition has to keep. Two more
theorems have invariants of their own:

* `BranchesAlwaysKept` (`BranchesKept`), from `Placed`: what the second pass has made
  of a definition (`Spread`) is, up to where it stands, the original with some cells
  spread out in order (`Stems`) and, beyond, the original moved by what it has grown
  (`Ahead`), which is what dfs has added up, unless the word was copied into itself
  (`Doubled`); each branch passed has the offset the correction gave it, and no call
  spliced in later comes between it and its operand (`Behind`). `SpreadSkips`,
  `SpreadFixes` and `SpreadSplices` are about lists only, `PlacesKept` is what the
  rest of the state has to do with it.
* `SaturatedAlways` (`Saturated`), from `Left`: calls lead to older words, so the words
  of the active calls descend and a word about to be inlined is finished; its own calls
  did not fit then, and fit even less in a longer definition (`WalkedSpliced`).
* `ExpansionAlwaysKept` (`ExpansionKept`), again from `Left`: what words stand for
  (`Leaves`) is the solution of one equation for each word, which says that a cell
  stands for itself and a call for what its callee stands for (`Replaced`). There is only
  one solution where calls go back, so it is enough that what the words stood for
  before anything was inlined (`Before`) still solves the equations of the definitions
  of now (`Expanded`). Fixing an offset changes no instruction (`ReplacedFixes`). Inlining
  puts the definition of the callee in the place of its call (`ReplacedSplice`), which
  is right only for definitions that are `Proper`: if an operand could be a word,
  `dfs` would take it for a call, and if a definition could end before an operand, a cell
  of the caller would become it. The theorem has that premise, TLC refutes it
  without either part, and both steps keep definitions proper (`SpliceProper`,
  `FixProper`), so that the places of the calls are the words (`ProperCalls`).

`BasicBlocksProofs` proves, for any words and any branches in them, `TypeCorrect`
(`TypeOK`), `CalleesAlwaysFirst` (`CalleesFirst`), `FlowKept` (`SameFlow`) and
`BlocksAlwaysClosed` (`BlocksClosed`). The invariant says besides the types:

* the active calls are of ever older words, and a word one of them has passed in
  its definition is graphed or is the word itself: as a definition refers to older
  words only (`ProgramsAssumption`), a word met again is never one whose walk is
  under way, which is why reading the cache there is right;
* what a half-filled word looks like: its blocks up to the one being filled hold
  the cells between two beginnings, the later ones are empty, and the indices at
  which blocks begin are those the scan for branches found;
* a word is known to be sound only when its walk is through, so the properties of
  complete words are facts about the step `Finish`.

What the cells before an index leave of instructions is shown by induction on the
index, which least elements of sets replace: `Instructions` is a recursive function
and is used by the equation it satisfies.

`StackGraphProofs` proves, for any graph of closed blocks and any effects of the words
called, `TypeCorrect` (`TypeOK`) and `RegistersAlwaysDistinct` (`RegistersDistinct`: two
elements at the head of a block, or two locals, or one of each, never have one
register). `RegistersDistinct` is far from inductive: the registers of a block are
assigned by a neighbour, in `align_registers`, from lists several calls share. The
invariant `IInv` is

* `Types`: a node on a stack, in a list or a chain exists, and the lists of an
  instruction hold as many nodes as its effects say;
* `ActiveCalls`: only the innermost call is not through with its block, the block it
  fills has no outputs aligned yet, and the nodes on a stack are distinct and have
  a predecessor each;
* `Allocated`: a register in use was handed out by the generator of its block, with
  an index that generator has passed, never twice, and never to a local; a block
  has none before its inputs are aligned.

Aligning is the step that counts: the inputs of a successor get what `LinkBoth`
makes of both edges of a node, in one order for all the successors. It is written as
one comprehension over the list rather than one assignment after the other, and the
two rounds of the loop over the successors are written out (`Alignment`), since a
block has at most two.

It proves `LocalsAlwaysAssigned` (`LocalsAssigned`) besides: the analysis aborts at
`locals.at` only if there is a path on which a local is loaded that was not stored to,
whichever way the walk came. What the walk knows of locals it has found on other paths as
well, so the invariant is about what it does not know (`CallsAssign`): each active call
is in a block some path enters without having stored to a local unknown by now, and has
not stored to it either, as the active calls are such a path themselves.

`StackEffectsProofs` proves, for the same graphs, `BalancedAlwaysDefined`
(`BalancedDefined`: if all paths agree, the walk never reads registers a block does not
have) and `EffectsAlwaysExact` (`EffectsExact`: if they do and one edge leads to the
exit, the effects of the word are those of its paths, nothing is reported, and no
parameter is read that the effects do not count). The premise speaks of paths, the walk
knows counters and calls; what ties them together is a *flow*, a state on entry for each
block of a set no edge leaves, the same along every edge (`Flow`).

* `LevelInvariant`: the walk stays on the level of *any* flow there is (`Level`), whose
  parts need each other: a call has as many elements and parameters as the
  instructions behind it leave on the path (`OnLevel`), for blocks graphed once only,
  as others keep what earlier visits left; the registers and the totals of a block
  are those of its entry (`InputsLevel`); blocks with outputs are followed by blocks
  with inputs (`OutputsLevel`); a block is as it was created until its only call
  (`FreshLevel`), and keeps what that call leaves (`EndsLevel`); no block with inputs
  is forgotten (`SeenLevel`).
* `ParamsInvariant`: a node is read from a parameter the flow has taken by then. Redefining
  an edge only ever replaces registers by others of this kind (`KeepsParams`).
* `BalancedFlow`: `OnEntry` gives such a flow if all paths agree. A round that finds
  anything reaches one block more, so nothing is left to find after as many rounds as
  there are blocks (`PathsComplete`). `ReachedCovered` and `ExitingCovered` are the
  inductions over rounds that show the walk has been everywhere.

The properties' recursive functions (`Along`, `OnEntry`, `Exiting`) are used by the
equations they satisfy, which `Iterated` provides.

It proves `RegistersAlwaysMatch` (`RegistersMatch`) besides: if all paths agree, one
successor of every branch has no other predecessor and no block only passes an element
on, every element is stored to the register its block's successors read it from. The
property speaks of the end; the invariant `Matched` says during the walk, again for any
flow:

* blocks push different nodes (`PushedOnce`). An element on the stack of a call, in the
  outputs of a block or in its inputs was pushed in that block or in one that is done
  with (`Elements`), by a node of its own (`Apart`), and what a block has not found
  there it has pushed (`FoundOrPushed`);
* so an element a block passes on, as it has not found it, was pushed in that block, and
  a step of a block changes links of its own push nodes only (`Confined`,
  `PushesNew`): an edge that fits the registers of its head (`Fits`, `EdgesMatch`) is
  changed by no other block;
* the inputs of a block are the outputs of one of its predecessors (`InputsMatch`);
* aligning a block with two successors takes over the registers of the first that has
  some; the second has none yet (`SecondNew`), as one of the two is entered from here
  only. This is where `SplitOwnsOne` is needed: without it the run `lineup` shows an
  edge that does not fit.

The premise `NothingPassed` is about the end too. Used in an invariant it must hold
earlier if it holds later: `NonePassed` says it of the blocks whose outputs are aligned,
which nothing changes afterwards (`PassedBefore`).

`DriverProofs` proves `StatusAlwaysTells` (`StatusTells` always holds), for any number
of invocations. The invariant adds that the program is of this invocation if and
only if it was linked in it (`Linked`), and what each phase knows of the phases
before it (`Phased`).

It proves `ModulesComplete` (`ModuleComplete` always holds) besides, for any
number of words with any calls between them and any native stack. `ModuleComplete`
speaks of the end only; the invariant (`FInv`) says during generation that the
active calls are a path from the root (`Path`), that the calls each has passed are
remembered (`Passed`), and that the words remembered are closed under calls,
complete, and never recursive or active (`Remembered`), as every set of them has a
word that calls none of the set. So a word that is on the path twice stays there
until the native stack overflows, and functions are created twice only then
(`CreatedOnce`). That an overflow without recursion needs more words than the stack
holds is a count of the words on the path.

And it proves `TokensAlwaysExact` (`TokensExact` always holds), for files of any
length. Between calls of `next_token` the position is not in the midst of a token or of
a comment, unless the file ends (`Clean`), and the tokens answered are those of the
reference that start up to it (`Kept`). A call that begins there answers the
reference's next token or finds that there is none (`CallTells`): by induction on what
is left of the file, as a call that skips a comment calls itself further on
(`SkipsComment`, `AnswersToken`). `NextEquation` shows that the recursive function
`next_token` exists.

The assumptions are those of the constants (`WidthAssumption`,
`SourcesAssumption`, `NumberAssumption`, `BoundsAssumption`; `ProgramsAssumption` and
`SizeAssumption` of `Inlining`; `ProgramsAssumption` of `BasicBlocks`: what
`CallsOlder` proves of the interpreter; `GraphsAssumption` of `StackGraph`: closed
blocks with at most two successors, which is what `BlocksClosed` proves of
`BasicBlocks`, the last of which has none (`nextBBs` of the return), and `EffectsAssumption`: effects are natural numbers;
`CallsAssumption`, `RoundsAssumption`, `JobsAssumption`: a file holds characters, words
call words there are; `LetterAssumption`: a letter is neither white space nor a backslash).

Only model-checked: liveness; the meaning of structured programs (`ExamplesPrint`,
`StructuredMeaning`), which is given by a recursive operator; the refinement `Implements`,
whose mapping is over folds; and `GeneratorDefined` of `RegisterCode`.

## What the checks found

* `&` is OR during interpretation and AND when compiled (run `mask`).
* Inlining a call breaks branches: forward branches over an inlined call keep
  their old offset, backward ones are moved by growth before their target too
  (run `fixed`). `BranchesKept` states the cases in which they are right.
* In a word that calls itself first, the growth is added up from the size the word
  has by then, about twice what it has grown, so branches back to the copied call
  go wrong even if nothing before their target has grown (`CopiedItself`, which
  `BranchesKept` excludes).
* Recursive words inline into themselves: once, when the call is the first cell,
  and without end otherwise (outcome `endless` of `Inlining`). `WalkEnds` says that the
  walk ends if no word calls itself later than first; `endless` is no end.
* `dfs` replaces the operand of a `literal` like a call: `literal w` then pushes the first
  cell of w's definition and the rest of it runs. `ExpansionKept` has the premise that
  no operand is a word (`Proper`); the literals of the examples hold numbers and
  primitives only.
* If both ways out of a `branchif` are blocks that already have registers, from
  other blocks, only one of them is given the elements in the registers it reads
  (run `lineup`): in `3 0 if 1 - else while 1 - dup repeatif then drop` the loop
  counts in a register its head does not read. `RegistersMatch` states the flow
  of control for which alignment is right.
* Blocks at different heights are merged silently where the block is the exit,
  or branches to itself, or has not been finished (run `merges`).
* The exit block keeps its push nodes and parameters from earlier visits
  (`EffectsExact` and the premise `ExitPlain` of `Implements` exclude it).
* `'` and `here` push cells `PrimitiveEffects.h` does not know of, or the other
  way round; `EffectsAgree` excludes them.
* A local stored to on some paths only ends the compiler with an exception or not,
  depending on the order of the walk, which takes the near way out first: `if else 1
  to x then x .` aborts, `if 1 to x then x .` is compiled. `LocalsAssigned` says that a
  word in which every path stores first is safe.
* Registers are not unique to elements (run `unique`): what `dup`, `swap` and `rot`
  push takes the registers of what they pop, and a local pushes its own. Compiled,
  `5 dup 3 swap . . .` prints 5 3 3 for 5 3 5, `swap` after two locals exchanges the
  locals, and in `x 1 to x .` the 1 is printed.
* Where generated code means the same as the interpreter, and where not, is the
  list of premises above. The words the run `code` runs have no `&` and, with the order
  of evaluation chosen there (`LeftFirst`), no `/`: they are generated only. No order of evaluation of `stack.pop_number() /
  stack.pop_number()` and the like agrees with the compiled code for both `/` and `<`.
* A word that returns an element twice does not write the second result; a loop
  that leaves its counter as the result of a word loses the way back, as the
  register returned replaces that of the loop.
* Instructions are generated in the order of the blocks. If a block that is reached
  earlier in the program has a later number, its registers have no memory when they
  are loaded and the generator crashes; so it does for some elements a block only
  passes on, for registers that do not line up, as no earlier block stores to the
  register that is loaded, and for parameters taken on a way that never ends, which
  the effects of the word do not count. `GeneratorDefined` names them all, and TLC
  finds a word of `MCRegisterCode` for each if its premise is dropped (`Unstored` has
  two of them). That a local is stored to before it is loaded (`StoredFirst`) is the
  interpreter's doing (`TokenIsLocal`).
* A word that calls itself, however indirectly, is generated until the native stack
  overflows (`ModuleComplete`).
* The driver returns 0 although `clang++` failed, and then runs the program of an
  earlier invocation if there is one. A path without an extension has the linker
  write over the source; with a dot in a directory only, nothing can be linked; of
  an absolute path the program is not found. A definition of `main` that the file
  does not finish is compiled all the same.
* A definition that ends in an unconditional branch nothing jumps past gives a
  block with two ends, of which `nextBBs` sees only the return (`BlocksClosed`
  excludes it).

## Not modelled

* `.S`, `see` and all logging print nothing here (`Print.cpp`); `string_input` and
  `cin_input` are never used.
* Of the stack graph, `compute_matching_pairs` and the side effects of a block,
  which nothing reads; the effects of a recursive word, read before they are known
  (`Pass.cpp:29`), as generating it does not end.
* Of the generation of IR, what is never called (`make_main`, `exec_module`) and LLVM:
  the passes `fpm` runs are taken to keep what the code does, `verifyFunction` to
  answer as it likes. One word at a time is run; the words it calls answer
  as the constant says.
* The assembler, the linker, the shell: external, with all their outcomes open.
* The phases are composed by what they hand on (`CallsOlder`, `BlocksClosed`,
  `CalleesFirst`), and by `RegisterCode` for the last two, not as one state machine
  from text to output: its instances would be too large for TLC to be of use.

## Plan

1. `Cells`, `Interpreter`, `Dictionary`, `Inlining`, `BasicBlocks`, `StackGraph`
   and the proofs about the interpreter: done.
2. `RegisterCode` against `StackMachine`, `Input`, `ModuleFunctions`, `Driver`, and the
   proofs about the last two: done.
3. The proofs about `Inlining`, `BasicBlocks` and `StackGraph` (registers, effects): done.
4. A proof still open: `GeneratorDefined` of `RegisterCode`.
