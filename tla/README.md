# pyx86 in TLA+

`pyx86` (crates/pyx86) compiles a statically typed subset of Python ahead of
time: a parsed module is checked and lowered to a typed HIR (`check.rs`), the
HIR is printed as LLVM IR together with a small runtime (`codegen.rs`), and
`clang` links it. `pyx86_bench` (crates/pyx86_bench) compares compiled programs
with CPython. What the project promises is that a compiled program does what
CPython does, up to divergences the slice documents in `specs/` name. This
directory states that promise for the parts of the system where it depends on
order, on state, or on arithmetic at a boundary, and checks it.

## 1. Inventory

| Component | State it keeps | Operations | What makes it correct | What is hard about it |
|---|---|---|---|---|
| Driver (`main.rs`) | nothing across steps | parse, check, emit, write or link | any failing stage ends the run with FAILURE and no executable | partial failure leaves a temporary `.ll` |
| Parser (`parser.rs`) | none | calls rustpython-parser | syntax errors reported | pure, external |
| Module loader (`check.rs::lower_module_into`) | `signatures`, `loaded`, `all_functions`, class registry | lower a module, import a sibling file | every function called is emitted once; a call reaches the definition Python reaches | one flat table for all files; import cycles; a module already loaded is not verified again |
| Class table (`check.rs` 0a–0c, `hir.rs` class arena) | registry, arena, per-class fields, abstract names, root, slots | register, open, add item, close, link | layouts and slots extend the parent's; below `ABC` the abstract sets are Python's | three passes over the file, each reading what an earlier one stored for another class |
| Scope and statement lowering (`check.rs::lower_block`) | `scope: name -> type`, loop depth | one rule per statement | a name read has the value Python has bound it to | one scope filled in the order of the text: names bound in one branch only, rebinding at another type |
| Loop lowering (`for` over range, list, enumerate, zip, generator; `sum`, `any`, `all`, comprehensions) | helper variables in the same scope | desugar to `While { cond, body, update }`, around an accumulator where something is gathered | iterates as Python's iterator would, also under `continue`, mutation and nesting | bounds re-evaluated, lists mutated while iterated, helper names shared |
| Expression lowering (`lower_expr`, `coerce`, `unify`) | scope, signatures | typing and coercion | each operand evaluated once, left to right | operands cloned in the HIR |
| Lambdas (`lower_lambda`, `lower_lambda_value`) | lifted functions, env struct | lift, capture, indirect call | the body reads what its names had when it was made | environments read by field index; names read only inside a comprehension or another lambda |
| Block emission (`codegen.rs::lower_block`) | open block, `block_terminated`, `loop_targets` | If, While, Break, Continue, Return | every block ends in one terminator; jumps go to the innermost loop | code after a terminator |
| Integer operations | none | `//`, `%`, `**`, shifts, casts | Python's floor semantics at width w | sign corrections at the edges |
| Lists (`codegen.rs` list ops) | heap struct `{len, cap, data}` | literal, index, store, append, concat, slice, len | a Python list, aliases included | `realloc` moves the data under an operation that has already read it |
| Dict and set runtime (`pyx86_dict_i64_*`) | `{size, cap, slots}` | lookup, insert, grow, has | a Python mapping; every probe ends | growth re-enters insert |
| Instances and dispatch | struct memory, vtable constants | construct, read, write, call | a Python object through every upcast | slot numbers and field offsets of one class used on another |
| Strings and printing | `{len, data}` values | concat, slice, format, print | CPython's text | formatting: no state |
| Linker (`link.rs`) | a temporary file | write, run clang | executable exists iff clang succeeded | cleanup |
| Bench harness (`pyx86_bench`) | results, temporary directory | a look at the corpus, parallel correctness runs, sequential perf runs, summary | exit 1 iff something failed, but for a missing corpus | workers in parallel; skips; samples of failed runs |
| Test corpus, stubs | data | – | – | – |

Interaction: the driver calls the stages in sequence in one thread. The class
table is filled by the loader before any function body of the module is
lowered, then only read: by statement and expression lowering, and by codegen.
Codegen turns tables into constants that the compiled program reads at run
time: a virtual call multiplies a slot number chosen by the checker, a vtable
built by codegen and a pointer stored by a constructor. The runtime of the
compiled program is single threaded; the bench harness is the only concurrent
component.


The properties each component needs, in one line each: the **hash table** is a
Python mapping and every probe ends; the **class table**'s layouts, slots,
abstract sets and vtables agree between a class and its ancestors; an
**instance** is one Python object through every upcast; a **loop** collects what
Python's loop collects and ends when it ends; the **list heap** never reads or
writes through a dead pointer and shows what Python's lists show; an **integer
operation** is Python's where the result fits and wraps where it does not; the
**bench**'s exit code says whether something went wrong; the **loader** accepts what Python
imports, and calls reach the definitions Python reaches; a **frame** (scope,
blocks, slots and callables of one function) executes Python's statements on
Python's values.

## 2. Modules

An abstract module says what Python (or the project's documents) promise, the
detailed one is read off the code, an `MC` module gives it a small instance, a
`Proofs` module proves about it (`RuntimeProofs` about integers and the table,
`VerdictProofs` about the loader and the bench; to be read together, `IntOps` and `Bench`
call their specifications `IntSpec` and `BenchSpec`).

| Component | Abstract | Detailed | Instance | Proofs |
|---|---|---|---|---|
| Dict and set runtime | `PyDict` | `DictTable` | `MCDictTable` | `RuntimeProofs` |
| Class table, vtables | `PyClasses` | `ClassTable` | `MCClassTable` | `ClassProofs` |
| Instances, dispatch | `PyObject` | `ClassObjects` (extends `ClassTable`) | `MCClassTable` | `ClassProofs` |
| Loop lowering | `PyLoops` | `LoopLowering` (both over `LoopText`) | `MCLoopLowering` | `LoopProofs`, `LoopSteps`, `LoopFollows` |
| Lists | `PyLists` | `ListHeap` | `MCListHeap` | `ListHeapProofs` |
| Module loader | `PyImports` | `Loader` | `MCLoader` | `VerdictProofs` |
| Scope, block emission, lambdas | `PyFrame` | `Frames` | `MCFrames` | `FramesProofs` |
| Integer operations | `PyInts` | `IntOps` | `MCIntOps` | `RuntimeProofs` |
| Test bench | – | `Bench` | `MCBench` | `VerdictProofs` |

### DictTable

One action per basic block of the runtime (`pyx86_dict_i64_lookup`, `_grow`,
`_insert`, `_has`) between two loads or stores that matter, plus the two loops
of a literal (widening the capacity, inserting the entries). `slots`, `cap` and
`size` are the table's words, `i` the probe cursor, `old` and `gi` the table and
the scan of a growth, `pc` the block. A key's home is `key & (cap - 1)`, which on
a power of two is `key % cap`, for negative keys as well. The runtime has no
deletion. A set is the same table storing 0. `PyDict` is a function whose domain
is the set of keys; `Content` maps to it what the table holds, with the entries a
growth has still to move.

### ClassTable and ClassObjects

`ClassTable` runs the three passes of `lower_module_into` over the classes of a
program (0a names, 0b bases and members, 0c roots and slots), then codegen's
vtable types and vtable constants, each class one step and each member one step,
with the rejections and the panic the code has. A program is a sequence of
declarations with names as numbers (the code sorts the new slots by name).
`PyClasses` gives Python's method resolution on the same programs, and two sets of
names: those whose lookup ends at an `@abstractmethod` (`Unimplemented`), and
`__abstractmethods__` (`AbstractNames`), which is the same set for a class with
`ABC` in its MRO and empty for any other, since only `ABCMeta` gathers and enforces it.
The compiler does not ask for `ABC`: it goes by the decorators. `ClassObjects` adds one
instance in memory: `New` stores the vtable pointer at the head of the struct and runs
`__init__`, `GetField` and `SetField` go through the field numbers of any class the instance may be viewed as,
`CallVirtual` through its slot numbers. `PyObject` is an object with attributes
that knows its class.

### LoopLowering

A function body is a sequence of tokens (`LoopText`), each construct with the token
that opens it and the tokens that belong to that one. `Compiled` gives each token its
instructions, as `lower_block` lowers one statement after the other: every kind of `for`
(over range, list, enumerate, zip, a generator expression) becomes `Let`s and a `While`
with a latch over helper variables, named by the loop depth (`Depth`) or by the size of the
scope (`Scope`, `Uniq`); `sum`, `any`, `all` and list comprehensions become the same loops
around an accumulator, and their source and element may gather themselves. Statements
keep their order, and a branch goes where codegen's blocks start: to the else or the
merge of its id (`Position`), for `break` and `continue` past the end or to the latch of
the loop on top of `loop_targets` (`LoopTarget`). The machine runs one instruction at a time, over one
slot per name (`env`) and a heap of lists. `at` is where in the text an instruction
belongs, and is there for the comparison only.

`PyLoops` executes the text itself, with Python's iterators (`iters`): a range is
fixed when its loop is entered, a list is looked at again for every element, `any` and
`all` stop when they know. `LoopLowering` implements it under the mapping `Place`,
`Shown` (the names a program can read there), `Iterators` (what helper variables and
counters stand for, between the load of an element and the latch one further) and
`Held` (the lists that somebody still holds). `Follows` says for which bodies: the
exceptions it makes are the findings and the hazards of PROJECT.json. The language has no print: a
program collects into the list `res`.

### ListHeap

`slot`, `struct` and `block` are the stack slots of names, the list structs and
the blocks of cells. A statement with an operand that calls a function is two
steps, `Begin` (what has been loaded before the operand's code) and `End`, and
`Callee` appends to any list in between. `realloc` may move a block to any free
address or keep it. `PyLists` is names bound to objects that are sequences.

### Loader

`lower_module_into` calls itself at an import, so its activations are a stack:
each goes through its file's class names, its statements in order, and the bodies
of its functions, and an activation in phase `verify` waits for the import it
made. `signatures`, `registry`, `loaded` and `emitted` are shared by all
activations, as in the code. A file is a sequence of statements, of which the
names they bind, import and call are kept. `PyImports` is CPython importing the
same files: a namespace per module, `sys.modules`, and a call that looks its
callee up in the module its function was written in. The two run one after the
other on one program, and the properties compare what they arrived at.

### Frames

A function body is a sequence of tokens. `Check` is the checker's pass (the names
in scope before each token, the loops around it, whether the body always
returns), `Generate` emits token after token (`Emission`) as `lower_block` recurses
over the body (labels, `block_terminated`, `loop_targets`, dead statements passed over)
and `Link` stands for LLVM's refusal of a load or a store at another type than
its slot's. Then the blocks run, one action per kind of instruction. `slots` holds
the slots written so far, so that a load of an unwritten one can be told; a
callable is the lambda it came from and the fields of its environment. `PyFrame`
executes the text itself, with UnboundLocalError where Python raises it, and both
agree on values by the token that made them.

### IntOps

A type is its width in bits, 1 for bool. `ResultType`, `Unify` and `Coerce` are
the checker's; `FloorDiv`, `FloorMod` and the stepwise power are the emitted
code's; `undefined` stands for every outcome of an instruction LLVM gives no
value to (a trap included). `PyInts` is Python's unbounded arithmetic.

### Bench

`main` looks at the corpus first. Without a directory `correctness` it returns with
exit code 0 at once: no test, no benchmark and no JSON file, whatever the tier
(`NoCorpus`); a filter that is no glob pattern is an error, exit code 1
(`RefusePattern`). The pattern of the second pillar differs from that one in a
directory's name only, so it cannot be refused after the tests have run. Otherwise the
tests are listed: a free worker of the pool takes any waiting test; a test goes from waiting to
compiling to running to done, one step per subprocess or early return, with
every outcome a subprocess may have. The benchmarks follow one after the other,
then the JSON file and the exit code. A missing directory `performance`, and a filter
that selects nothing, are the cases of no benchmarks and no tests: both are silent in
the code. How often a test with inputs runs (`Iterations`) is the code's: its own
number for the tier, or the default of the tier. That is not what
`specs/test-bench.md` says, "If a key for the requested tier is absent the test is
skipped at that tier", and from tier 5 on (and at tier 0), where no key is looked at,
the default is 0: a test with inputs is compiled and passes without having run.
`TierAssumption` says so, and the property names those tests (`NeverRun`). `wrong` and `slow` are an observer's: they
are not in the code, and hold what exit code 1 has to report.

## 3. Runs

| Run | What it shows | Bounds, and why they are enough |
|---|---|---|
| `dict_map` | the table is a Python mapping, probe by probe; keys stay reachable; never full, growth does not recur; calls return | 283 260 states. Five keys: colliding at 4 and at 8 slots, wrapping past the end, one negative; two values tell an overwrite; literals of up to 3 entries, so both starting capacities, and one growth. Larger literals and further growths are the proofs' (section 4) |
| `class_table` | layouts, slots, abstract sets (Python's below `ABC`, the decorators' elsewhere), vtables, no panic; then one object through every view | 147 018 states. 4648 programs of up to three classes: two ancestors are what every pass looks back over; bodies with up to two abstract names in an order the sort changes; and chains of three with constructors, fields in several classes and two values per field, whose objects are used |
| `loop_lowering` | types and indices; every step is Python's or none; the function ends | 111 546 states. 1464 programs: each loop form and each way to gather in each loop form, with continue, break, return and appends to the lists iterated, and pairs of gatherings; lists of 2 and 3 elements; `MaxLen` is never reached |
| `list_heap` | the heap's soundness, Python's lists | 60 835 states. Two names, three structs, four blocks, five elements in all: growth from 0 to 4 and from 4 to 8 cells, aliases, a concatenation of two different lists |
| `loader` | what is accepted links; calls reach Python's definitions; Python's programs are accepted | 700 227 states. 27 672 programs of a root and two files: chains, diamonds, cycles through the root and between the others, self-imports, re-exports, aliases, imports before and after the definitions they need, functions of the interpreter and of libraries that a file defines or passes on, and one program per rejection |
| `frames` | blocks well formed; Python's statements on Python's values | 153 098 states. 28 396 bodies: a name assigned before, in either or after a branch at two types, by comprehensions, in dead code; loops in loops with jumps in branches of branches; callables made before, in and after a loop that assigns what they captured, and callables that capture callables |
| `int_ops` | exactness, wrapping, undefinedness | widths 2, 3 and 4 with 4 as the full word: each has both ends of its range, and nothing in the code depends on a width but through them |
| `bench` | exit code, quiet timings, end | 210 225 states. No corpus, a bad pattern, or five tests of four tiers on two workers, with and without inputs, with an own number of iterations (one of them 0); tier 3; three benchmarks, one skipped |

Four runs end in a violation, and are the findings:

| Run | Finding |
|---|---|
| `class_layout` | a class that adds the first abstract method below a concrete parent has a vtable pointer its parent has not, so "Layout prefix matches by construction" fails and an upcast writes over the pointer |
| `vtable_width` | the vtable type of a chain is as wide as its deepest class, its constants only as wide as their own slots |
| `loop_repeated` | helper names come from the number of names in scope: a list comprehension whose source is one has the same accumulator as its source, and goes on with its source's list |
| `list_slice` | a slice loads length and data before its bounds run: a bound that appends leaves both stale |

The passing runs stay clear of these, and of the divergences PROJECT.json lists as
hazards without a property, by their programs or by an exception with a name:

- `class_table` takes programs in which no class starts a chain of vtables below a
  base that is outside one (`Rooted`, `RootedChains`) and does not check
  `VtableWellTyped`;
- `AbstractAsInPython` claims Python's abstract sets for the classes below `ABC`
  (`UnderABC`) only. For the others it says what the compiler does, which is not
  Python's: a class with an unimplemented `@abstractmethod` and no `ABC` above it is
  refused by the compiler (check.rs:2149) and instantiated by CPython, where the
  decorator alone does nothing. `class_table` has such classes. `ImplementsPyObject` is
  not touched, as it asks that Python constructs what the compiler constructs;
- `ImplementsPyObject` leaves out programs in which a static method or a property
  meets a name of another kind (`SameKind`), though `class_table` has them;
- `ExitZeroMeansAllPass` excepts a missing corpus (exit code 0 there says nothing of
  benchmarks or JSON file), and from "at least one iteration" the tests of `NeverRun`;
- the nests of `loop_lowering` follow `Follows` (an assumption of `MCLoopLowering`): new
  target names, ranges that stop at a variable the bodies leave alone, and no
  gathering that is the source of one with the same kind of accumulator;
- `list_heap` has `SliceCalls = FALSE` and constant subscripts;
- `CallsAsPython` leaves out names bound by an alias (`Aliases`) and names that
  are the interpreter's, a library's or `lower_builtin_call`'s and are defined by the
  program as well, or that are both a class's and a function's (`Redefined`): the
  compiler's flat table resolves these in its own order;
- `ImplementsPyFrame` leaves out bodies where a comprehension's variable has the
  name of a variable of the function (`SharesGenerator`): the slot is shared.

`CHECK_DEADLOCK FALSE` is there where the modelled thing ends (a compilation, a
function, an operation, a run of the bench) or where a bound stops it (the
lists).

### Fairness

- `DictTable`: weak fairness of the runtime and of a literal's loops. The program
  is one thread, so whatever it executes runs on; the program itself need not call
  again, and gets none.
- `LoopLowering`, `IntOps`: weak fairness of the next step, for the same reason:
  the compiled function is one thread.
- `Bench`: weak fairness of the next step. Some worker with work moves on, since
  rayon's threads wait only for subprocesses; that those end is an assumption, as
  the bench has no timeout (a hazard of PROJECT.json).
- `ListHeap`, `ClassTable`, `ClassObjects`, `Loader`, `Frames`: safety only. The
  compiler's passes over a finite program end by their shape, and a function of
  `Frames` may loop as long as its conditions say.

## 4. Proofs

Checked by TLAPS for all values of the constants under the named assumptions.

The second part of `RuntimeProofs` (from `KeysAssumption` and the others of `DictTable`):
`TypeCorrect`, `SizeIsCount`, `TableNeverFull`, `GrowthDoesNotRecur`. That the
table keeps a free slot is not inductive alone. The invariant `IInv` joins:

- `CapShape`: the capacity is a multiple of 4, so 75 % of it is whole;
- `LoadShape`: at most 75 % full, and below while an insert probes (the growth
  test comes before the probe);
- `GrowShape`: a growth has twice the old slots and has moved at most one entry
  per old slot passed, so it is at most half full;
- `ReqShape`: which call each block serves;
- `SizeCounts`: the size word, which the load test reads, counts the slots;
- `NoNestedGrowth`: follows from `GrowShape`, and keeps `GrowShape` from being
  asked of two growths at once.

`StepIInv` has one case per action. `TableNeverFull` then follows by counting:
fewer occupied slots than slots.

It goes on, from the same assumptions, with `KeysReachable`
(no empty slot between a key's home and its slot) and `TableIsMapping` (each step
of the runtime is a step of `PyDict` or a stutter). `MInv` adds to `IInv`:

- `Reachable` itself;
- `Walked`: a probe under way has passed only slots other keys occupy. It is what
  makes the slot an insert writes to, and an answer "not there", right;
- `OldTable`: the table a growth empties holds no key twice, and what is in the
  new one has come from slots the scan has passed. Without it a re-insertion could
  overwrite a newer value, and the content would not be the same after a growth;
- `Waiting`: a function of the runtime runs exactly while the program waits.

That a key is held once is `KeysDistinct`: of two slots reached from one home, one
lies before the other (`BetweenLinear`), and the walk would have stopped there.

`ListHeapProofs` (from `BoundsAssumption` and `NoneAssumption` of `ListHeap`):
`TypeCorrect`, `NoDeadPointer`, `OneOwner`, and, provided slice bounds call nothing,
`NeverUnwritten`; provided besides that no item assignment computes its subscript
from the length, `ListsAsPython`, the refinement of `PyLists`. These two
hypotheses are the finding `list_slice` and the hazard at `codegen.rs:2353`; the
other theorems need neither. The invariant `IInv` joins `HeapOK` (each list's block
is allocated, as large as its capacity, and its own), `NamesOK` (names hold
lists), `OpenOK` (a statement under way holds a list) and `Written` (its cells up
to its length have values, and what a slice loaded is fresh). What a literal, an
append in place, an append that moves and a store do to the heap is stated once
(`BuildKeeps`, `PushInPlace`, `PushMoved`, `StoreKeeps`), with the contents of every
list before and after, and serves the invariant and the refinement.

`ClassProofs` (from `NoneAssumption` and `ProgramsAssumption` of `ClassTable`, and
provided bases are above the classes they are bases of, `BasesAbove`):
`TypeCorrect`, `NeverPanics`, `SlotNumbersAgree`, for programs with any number of
classes and chains of any length; and, provided no chain of vtables starts below a
class outside it (`Rooted`, the finding `class_layout`), `LayoutsExtend` and
`VtableSurvives`. `BasesAbove` is Python's rule; that the compiler accepts a base
further down, and reads what it has not yet collected, is the hazard at `check.rs:178`,
and the theorems say nothing of such a program.
`MCClassTable` states both hypotheses of the programs of `class_table`. Each pass
reads what an earlier one stored for another class, so `IInv` says of every class
what each pass it has been through has made true:

- `NamesOK`, `TreeOK`: registered once; the parent is the base, and comes before;
- `FieldsOK`: the fields start with the parent's;
- `AbstractOK`: a name is abstract if declared so here, or inherited and not given a
  body here. `LocalOK` is its form half way through a body;
- `LinksOK`: root and slots are the parent's, extended by own abstract names;
- `RootsOK`: in a rooted program, exactly the classes of chains have a root;
- `ObjectOK`: the instance has its class's cells and the pointer in the first.

`NeverPanics` needs `AbstractOK` and `LinksOK` together: going down the file, a slot is
abstract in a class or has a body on its chain (`Covered`). `VtableSurvives` needs
`RootsOK`: every class an instance may be viewed as carries a vtable too
(`ViewCarries`), so its fields are counted from the second cell. The first sections have what
these need of `Chain`: it is a recursive function, and the induction over its climbs
is done with the library's well-founded minimum (`Least`, `UpTo`, `Iterates`), which
takes no operator as a parameter; a chain ends before the climbs do, since a parent
comes earlier in the file (`ChainClosed`).

The second part of `ClassProofs` (from the same assumptions and `BasesAbove`): `AbstractSetsAgree` and
`VtablesAgree`, that the abstract sets of classes below `ABC` and all vtable entries are
Python's, for any programs and chains. What is proved by induction is that every abstract set
is `Unimplemented` (`LinkedIsAbstract`); Python's is that set or empty (`PythonsNames`), which
is what the refinement needs of a constructor. The compiler's chain and Python's MRO are read as walks: one from a class
is the class and then the walk from its parent or base (`ChainStep`, `MroStep`; the
position in the file is the rank that makes the walk end, `WalkEnds`). So both lookups
have the same recursion (`ResolveStep`, `FindsStep`), and so have both abstract sets
(`NamesStep`). The invariant `PyInv` makes exact what `IInv` bounds: a closed class has
bodies for just the callables its body binds and is abstract in just what it inherits
without one (`ExactOK`; half way through a body, `OpenOK`, which needs that a name with
a signature is not bound again, the duplicate check of `check.rs`). The compiler looks
for a body and passes over abstract declarations, where Python stops at them: the two
agree on a class only because it is not abstract in the name (`ResolveIs`), which is
why the abstract sets come first.

`ObjectsImplementPython`, the last theorem of `ClassProofs`, is the refinement of
`PyObject`, from `BasesAbove` and `Rooted`: an instance is a Python object, however long
the chain and through every class it may be viewed as. Beyond what is proved of layouts
and vtables it needs to know which names a class has at all, and `ObjInv` says so:

- `KindsOK`, `MembersOK` (`OpenFieldsOK` half way through a body): the signatures, static
  methods and properties of a class are those its body binds, its fields the parent's and
  its own. So an attribute Python finds has a field number, and one that is a method,
  or nothing, has none;
- `SlotsOK`, `EmittedOK`: the abstract names of a chain have slots, and each class of
  it a vtable with an entry per slot;
- `SelfOK`: an instance is of a class without abstract names.

A field of a parent that the class declares again is the same field, which is where
`LayoutsExtend` is used, and a virtual call finds by the slot of the view's class what
Python finds from the instance's, which is `SlotNumbersAgree` and `VtablesAgree`.

`VerdictProofs` (from `ProgramsAssumption` of `Loader`): `TypeCorrect` and `AcceptedLinks`, for any
programs. `Linkable` says something of accepted programs only, so its invariant has
to follow every definition from its statement to its code. `IInv` joins:

- `Shape`: a file is on the stack once, all activations but the innermost wait for
  an import, and each has collected the functions it has passed, each once;
- `TablesOK`: the tables hold definitions under their own names;
- `Collects` and `NoneForgotten`: what is collected has a signature, and what has a
  signature is emitted or an activation on the stack is still going to emit it. At
  the end the stack is empty;
- `EmittedOK`: what is emitted has a signature, its calls too, and its activation
  is past it (`Past`), so nothing is emitted twice;
- `FilesOK`, `VerdictOK`.

From `NoneAssumption` and `LibrariesAssumption` besides: `CallsReachPython` and
`AcceptsWhatPythonRuns`, the two properties that compare the compiler with Python's
import. The two run one after the other, and each is a depth-first walk over the
files, so each has its own invariant and `Together` relates them:

- `CompilerInv`, of the compiler: what an activation has passed of its file is in the
  tables, classes (`ClassesCovered`), functions and imports (`NamesCovered`), and nothing
  else is (`SignedPast`); files are begun only along imports from the root (`Reached`);
  the stack is a path of imports, none of which leads to what was passed before
  (`PathOK`, `OrderOK`); an emitted call is what a table holds (`CallsOK`); and a
  rejection has its reason (`Blocked`);
- `PyInv`, of Python: an import passed has begun its file (`Ran`), and nothing else has
  been begun (`PyReached`, `Least`); a name is bound to a definition of that name that
  has been executed, or to a library's (`NsOK`);
- `Together`: Python has not begun before the compiler has ended; and if the compiler
  rejected a program without classes and aliases, Python has raised, has not come to
  the statement where the compiler stopped (`Before`), or has run the file in whose
  bodies it stopped and bound no name there that is without a signature (`After`), so
  that the call in question finds nothing in Python either.

Attempts at these proofs showed that two properties said more than is true, with counter-
examples that the programs then lacked: a function of the interpreter that is not lowered
inline (`sorted`) and that another file defines is that file's to the compiler and the
interpreter's to Python, and a file that passes on a name of a library (`floor` of
`math`) has it for Python and not for the compiler. `Redefined`, `OneName` and `CallsFound`
name these cases, and the programs of `Foreign` have them.

The first part of `RuntimeProofs` (from `WidthAssumption` only): `IntTypeCorrect`, `Exact`, `Wraps` and
`Undefinedness`, for every set of widths. The arithmetic of a width is that of the
integers modulo a power of two (`Congruent`): what an instruction computes is congruent to
what it stands for, and of the numbers congruent to one only one has the width. The
corrections of `//` and `%` after LLVM's truncating division are by cases of the signs. The
loop of `**` keeps `acc` times `base` to the power `exp` congruent to the whole power
(`Squared`); powers
are a recursive function (`Power`), since the prover knows nothing of `^`, and the
facts about them are proved by the least counterexample.

`FramesProofs` (from `ProgramsAssumption`: a body is what a syntax tree can be, a call
loads its callable and no more): `TypeCorrect` and `FramesImplementPython`. The first is that the code of every body is a control-flow graph. It is
proved of the emission token by token (`EmissionOK`): all blocks but the one being
written have ended in one terminator, and the targets are blocks or *promised* by a
construct that is open: an if will bring its else and its merge, a while its
latch and its exit. The open constructs are the outer ones around the place in the text,
the inner ones being those passed over as dead (`skip`). So a break has a loop to
leave, if `check.rs` has seen it in one (`JumpsInLoop`): the `expect` on `loop_targets` does
not fail. At the end no construct is open, and nothing is promised.

`FramesImplementPython` is the refinement of `PyFrame`, for every body. `PyFrame` reads
the text by counting (`Depth`, `Part`, `Opener`, `Loop`) and follows it with `Settle`;
the emission has a stack. So the proof first has what these find (`CloseIs`, `ElseIs`,
`OpenerIs`, `LoopIs`): the construct the stack has on top. Then it gives each block a
place in the text, by the id in its label, which is one token's (`IdsOne`):

- `CodeMaps`, of the code: the place before an instruction (`Where`) leads, by
  `Settle`, to the statement it is, or to where the block it branches to starts (`Aim`).
  `TokenMaps` shows that every token keeps this, with the open constructs being those
  around the place (`Opened`), so that a break goes behind its loop and an else to
  the merge of its if;
- `ReturnsIs` and `BlindIs`: `block_always_returns` is right in Python's terms: from no
  statement of an accepted body does Python arrive at its end, nor at the `unreachable`
  that codegen puts at the end of a merge (`SettleSees`);
- `CapturedIs`: the fields of an environment are the body's names bound around it, each
  once, so that the field of a name's index is the name's. What a lambda loads is then
  what Python takes (`ReadsAre`, `LambdaStep`, `CallStep`).

The invariant `FollowsInv` is that the function runs along such a map: Python's next
statement (`At`) is the one the program counter aims at (`OnCourse`). Each instruction
that is a statement is then Python's step, an unwritten slot an unbound name (`LoadsAre`,
`RaiseStep`), and a jump is a stutter. A generator's variable is the one write to a slot
that Python does not do, hence `SharesGenerator`. For this proof the operators of `PyFrame`
on the text take the body as a parameter, and `Captured` is a recursive function.

`LoopProofs` (from `ProgramsAssumption`: a body is well nested, has its types, and reads
no loop variable outside its loop): `TypeCorrect` and `IndicesInBounds`, for any bodies, however
loops and gatherings nest. A load of an element has no bounds check: that its index is in
bounds rests on the test of the `while` before it, so the proof has to know where every
branch goes. It follows the compiler:

- the nesting of a text, from the recursion that defines it (`NestingIs`, `CloseIs`, `ElseIs`);
- the instructions of a token, place by place (`PlaceIs`), and the place every mark has:
  of all instructions there is one with that operation and id, so `Position` finds it
  and a branch lands at `Dest` (`BranchIs`). What `LoopTarget` finds by pushing and popping
  is the loop the text has around the place;
- `Known`: the names that have been made on every way to a place. No flow of control
  leads to a place where more is known than where it comes from, but for what is stored
  there (`FlowIs`), and every instruction reads what is known and stores its slot's type (`Sound`).

The invariant `LoopInv` is that the function is in the text, slots have their types
(`Fine`), indices are not negative (`Counts`), what is known is bound (`HasKnown`), and that between
the test of a loop and its loads the index is below the lengths of the lists still to be
read (`Looking`). Without `HasKnown` a slot could be read that was never written; without
`Counts`, a loop could go on from an index below 0.

`LoopSteps` and `LoopFollows` go on to `FollowsPython`, the refinement of `PyLoops`: of any
body that `Follows`, the compiled function takes Python's steps. The hypothesis is about
the one body that runs, and `MCLoopLowering` states it of its 1464 programs; outside it the
refinement is false, as `loop_repeated` and the hazards at `check.rs:1106` and `:1296` say.

Python's iterators are read off helper variables, counters and accumulators, and many
loops are under way at once. So the proof first has, from `Follows`, that names are apart
where it matters: the helpers of loops under way from each other (`UniqsDiffer`,
`HelpersApart`: the scope grows from a loop to those in it) and from the names of the
program; and that what a step stores is read by no loop around it (`StoreApart`). A step
then changes at most one iterator of Python's, the one of its own loop (`StepsBehind`
and the lemmas `Seen...`). What has to be known besides is `FollowInv`, over `LoopInv`:

- `Prepared`: the instructions of a head before the `while` have copied the lists that are
  walked, and set the counter of an `enumerate`;
- `Loading`: a turn that loads its elements has them, as `IndexInBounds` asks of one load
  and Python of all of a `zip` at once;
- `OldIsNew`: an accumulator has not changed since `sum` or a comprehension read its old
  value (codegen evaluates the addition from a copy);
- `AccsApart`: the list a comprehension gathers is no list of the program's and no other
  comprehension's, so that an append to one is seen by nobody else;
- `Unknown` and `FoundOut`: `any` is false and `all` true until an element decides, and
  at the break that follows the element has decided.

`Held` forgets the lists nobody holds any more. That an append to one of them, or the
handing of a gathered list to its name, forgets and creates the same lists as Python does
is `HeldMoves` and `HandedAtResult`. For each kind of instruction there is then one
lemma that it is the step of `PyLoops` the token stands for, or none (`PythonSingle` for
statements, `PythonBegin`, `PythonTurn`, `PythonExhausted` for the iteration, `PythonGain`
and `PythonKnown` for what is gathered, `PythonLatch` for the latch and so on).

The proof also showed what `SourceApart` has to ask, for every kind of gathering: one whose
source is a gathering of the same kind would share its accumulator, unless a loop whose
elements are being gathered lies between the two, since there the scope has grown.

The second part of `VerdictProofs` (from `BenchAssumption`, `TierAssumption` and `UnsetAssumption`):
`BenchTypeCorrect`, `ExitZero`, `ExitOne`, `TimingsAreQuiet`, for any number of tests,
benchmarks, tiers, iterations and workers. The invariant `BenchInv` says of every record that it
tells what happened (`TestRecords`, `BenchRecords`), that the second pillar
follows the first and both the list of tests (`Pillars`), and what the exit code rests on,
case by case of the look at the corpus (`ExitLast`). Without
`TestRecords` a test could be done with no iteration behind it; without `Pillars`
the exit code could be computed from unfinished results.

Only model-checked is liveness (`EveryCallReturns`, the three `Ends`), which is
beyond the prover, as is anything with ENABLED.

The proofs take `& (cap - 1)` to be `% cap`, as `Home` is written: capacities start
at 4 and only double.

## 5. Not modelled

Driver, parser, linker (each a straight line of I/O that ends at its first
error), strings and formatting (immutable values; text has no state), the
interning arenas (append-only tables), tests, specs and stubs.

Of what is modelled in part: the typing of expressions in general, with floats,
comparisons, and/or/xor on integers and tuple unpacking; dict and set
comprehensions (the same loop with another accumulator) and comprehensions inside
conditions, filters and bounds; element types of lists other than one; calls as
receivers; arguments and signatures of methods; byte offsets and padding of
structs. Out-of-bounds list accesses are undefined by `specs/slice-v0.29`.
Allocation failure is not looked at by the code, and it frees nothing but what
`realloc` moves.

## 6. Plan

Written in this order, since a compiled program's answers rest on the first: the
hash table, classes and dispatch, loops, lists, the bench, integers, the loader,
frames; then the proofs, of the table's shape and of the bench, of the table as a
mapping, of what an accepted program links, of the heap, of the class table and its
agreement with Python, of integers, of instances, of the loader's agreement with
Python, of the blocks and of what they do. What would come next:

1. An expression model: order of evaluation, calls as receivers and operands cloned
   in the HIR, comprehensions inside conditions and bounds.
2. Dict and set comprehensions, as `LoopLowering` over `PyDict`.
