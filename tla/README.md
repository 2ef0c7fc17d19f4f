# A TLA+ model of shm_stack_machine

`shm_stack_machine` interprets small programs on a stack of 64 bit words. A
program is loaded from a text file, its variables live in local memory or in
POSIX shared memory, and it is executed once per period of an interval timer
until a number of cycles is reached or the process is asked to terminate.

This directory models that program in TLA+, checks the models with TLC and
proves the main safety properties with TLAPS. `PROJECT.json` is the index:
components, runs, mutants, the source lines behind every definition, hazards,
findings and theorems. Paths below are relative to the repository, whose C++
code is in `src/`.

## 1. The system

| Part | State | Operations | Modelled in |
|------|-------|-----------|-------------|
| Operand stack (`StackMachine.*`) | `stack`, `MAX_STACK`, `verbose` | push, pop, get, clr, dup, about 70 instructions | `StackMachine`, `BoundedStack` |
| Arithmetic (`StackMachine.cpp`) | none | what an instruction pushes for its operands | `Words` |
| Instructions (`instruction.*`) | a jump target and a reference to `ip` | `exec()` per class | `Machine` |
| Special variables (`special_instructions.*`) | a random engine | push a clock, an id, a random number; print or drop the top | `Machine` (`PUSH_special`, `POP_discard`) |
| Machine at run time (`Machine::init`, `Machine::run`) | `instructions`, `ip`, variables, memories | initialise, execute one cycle | `Machine` |
| Loader (`Machine::load_file`, `parse_*`, `split_string.hpp`) | the maps and the instruction list it fills | read the file into five sections, parse each once | `Loader`, `Program` |
| Memories (`Memory.*`) | local vectors, shared memory | load and store of 15 data types in cells of four sizes | `Memory`, `SharedMemory`, `Registers` |
| Process (`main.cpp`) | `terminate`, `waiting`, loop counter, timer | start-up, cycle loop, three termination signals, one alarm | `Process`, `System` |
| Libraries `cxxshm`, `cxxendian`, `cxxsignal`, `cxxitimer`, `cxxopts` | outside the repository | | environment actions |
| Time stamps, licence texts, build files | none that matters | | not modelled |

How they interact. `main` owns one `Machine`; the machine owns the stack, the
memories and the list of instructions, and every instruction holds a reference
to the stack. All calls are synchronous and made by one thread. Two things
happen beside it: other processes write to the shared memories at any moment,
and signal handlers interrupt `main` at any moment. The handlers share two
flags with the loop: `terminate` and `CycleTimeWarning::waiting`.

What is hard about it:

* exceptions leave a call, an instruction, a cycle and finally the process;
  what has been popped or stored by then stays as it is;
* undefined behaviour and traps (`ATANXY` with one operand, two malformed lines
  of a file, division) are not exceptions and pass every `catch`;
* bounds hold for indirect reasons: instructions push without a bound check,
  `instructions.at(ip)` relies on where `END` and the labels are;
* words are signed and unsigned at once, and wrap;
* another process writes between two loads of the same cycle, or between the
  two halves of a store of a bit;
* the file's sections come in any order, some may be given twice, some lines
  are dropped without a word;
* range checks compute addresses that wrap;
* signals arrive between any two steps, also between the loop condition and
  the wait they should have interrupted.

`PROJECT.json` lists these as hazards, each at its line.

What makes each part correct:

* stack: the bound holds in every call sequence; a call that throws changes
  nothing; only the top is touched (last in, first out);
* arithmetic: quotient and remainder belong together, the power is the power,
  the signed and unsigned orders are orders, every result is a word;
* machine: `ip` never leaves the list; the number of elements on the stack at
  an instruction is determined by the program alone; a program with such a
  count cannot fail but for its addresses; initial values survive the order
  they are stored in; a run without backward jumps ends;
* loader: what it accepts is what `run()` assumes; a name means one thing; the
  exceptions to "every line counts" are known, and so are the lines that lead
  to undefined behaviour;
* memories: an accepted access stays inside; what was stored is there until it
  is stored again, other variables, types and processes notwithstanding;
* process: none of the signals it handles kills it inside its loop or leaves a
  cycle half done; cycles are exact, paced and overruns reported; a termination
  request ends it and starts no more runs.

## 2. Modules

```
Program ------.   StackMachine -- BoundedStack      Memory        Process -- ProcessProofs
   |           \   |                                 |              |
Loader        Machine -- MachineProofs          SharedMemory --.     |
   |            |              |                     |     Registers |
LoaderProofs    |              |                SharedMemoryProofs   |
   |            |              |                                     |
LoaderValuesProofs             |                                     |
                |              |                                     |
                +---------- System (INSTANCE Process) ---------------+
                |              |
            MCToggle       SystemProofs             Words -- MCWords -- WordsProofs
                |
           ToggleProofs (with MachineProofs)
```

A line down is EXTENDS, a line across a refinement or a composition. The `MC`
modules `MCWords`, `MCStackMachine`, `MCMachine`, `MCToggle`, `MCSharedMemory`,
`MCLoader` and `MCSystem` give the parameters values; those that run programs
take the arithmetic from `Words` and the memories from `Memory`.

**`Words`** translates the integer, bitwise and relational instructions.
`L` and `R` are the operands as the code names them. The result is a *set*:
a singleton for an integer instruction, empty where x86-64 raises `SIGFPE`
(zero divisor, and the signed division MIN / -1), every word of the right
format for a floating point instruction. `WordBits` is any even width up to 64,
since nothing in the code depends on 64 but the position of the sign bit, the
wrap and half the word for a `float`. `ipow` is a recursive *function*, not a
RECURSIVE operator, so modules with proofs may use this one. Signed overflow in
`ipow<int64_t>` is undefined in C++; the builds wrap, and so does the model.

**`StackMachine`** has the variables `stack` (top last), `verbose` and
`outcome`, how the last call ended. Each method is an operator with its
disjuncts in the order of the code's checks. The arithmetic is a parameter
(`BinaryResults`, `UnaryResults`): the instructions come in two shapes,
`binary` (check_arith, two `_pop`, one unchecked push) and `unary` (check_conv,
one `_pop`, one unchecked push), and `atanxy`, which has the check of the
second and the pops of the first. `StackSpec` lets a caller make any call in
any order and go on after an exception, as `test_stack_machine.cpp` does.
`get` inside `dup` and the switching of `verbose` are part of the one step.

**`BoundedStack`** is the abstract specification: put, take, replace up to two
values by one, clear, with a capacity. `StackMachine` is shown to implement it
with `items <- stack`.

**`Machine`** EXTENDS `StackMachine` and adds `instructions`, `ip`, `mem`,
`pending` (variables `init()` has still to reach) and `phase`. One action per
instruction class; `Advance` is the tail of the loop in `run()`: `++ip` after
an instruction that returned, `failed` after an exception, `dead` after a trap.
A jump sets `ip` to the position of the label and the loop steps past it, so
`Jump` goes to `target + 1`. `J` is bound to a dummy and only falls through.
`InitVariable(v)` is one iteration of `init()` and may be taken in any order,
because the map is unordered. `OutsideWrite` is another process. The
instruction lists are those `parse_program` can build (`WellFormed`, from module
**`Program`**, which `Loader` shares), the memories a parameter (`Load`, `Store`,
`Outside`).

**`Memory`** is `Memory.cpp`. A memory maps addresses to bytes, a byte is the
set of its 1 bits, a value is a function of byte positions, least significant
first; so byte order, register order and masks are maps of positions, and
`ByteBits` and `SizeMax` are parameters. An access is the *set* of its results:
empty when it throws, several where a shift is undefined. The code's own checks
and slips are kept: the index of a bit is bounded by `cell * 8`; `cell *
cell_size + n` wraps; a 2 byte cell is read through a `uint8_t` pointer by
`load_bit`; the mask `0x1 << index` is an `int`; `load_64` reads 32 bits;
`store_64` swaps 16 bit halves where it means 32 bit ones.

**`SharedMemory`** puts several processes on one shared memory. `access[p]` is
where process p stands: idle, between the read (`ReadsCell`) and the write
(`WritesBack`) of `store_bit`, or gone after an access outside the memory, which
is undefined. `last` and `endangered` are histories: what was last stored in a
variable, and whether that fell between the halves of another process's store
to the same cell. **`Registers`** is its abstract specification: one atomic
register per variable. It is implemented by the variables that are `Private`:
their type reads back, they share no bit with another variable, and no other
process stores single bits in their cells.

**`Loader`** is `load_file`. A line is the sequence of its words; what a word
denotes (`Numeral`, `AtParts`, `DotParts`, `Label`) is a parameter, so a file is
a value and every line one step. `stage` is the function at work: the reader,
one of the five parsers in their order, the assignment of the jump targets, or
how it ended. Every test that throws is a disjunct that ends in `Throw`, and an
accepted line of `__MEM` may throw, too: the shared memory does not exist, or
there is no room for the local cells. Two lines are undefined behaviour, which
no `catch` sees, and end in `Undefined`: a `CYCLES` without a value, whose second
word is used, and a variable like `memory@@ type name` (`CellMissing`), whose
cell is empty and has no parts: `split_cell[0]` is used before `check_cell_str`
counts them, but behind the tests of the name and the memory (`VarHasMemory`).
The lines the code drops (`DroppedLine`), the setting it does not record
(`SetsCycles`) and the types it replaces (`VarType`) are modelled as they are.

**`System`** composes `Process` and `Machine`: `CallInit` and `CallRun` are
joint steps, `Instruction` is one instruction of the machine while `main` is in
`run()`, and signals and other processes come in between. It shows that
`Process` is an abstraction of it: by projection, since each joint step contains
one of `Process`, so what the refinement adds is that `init()` and `run()` end in
no way `Process` does not list. The fairness it assumes of a run does not follow
that way. After undefined behaviour (an `ATANXY` with
one operand) nothing is said: `Instruction` excludes it, and the programs of the
run do not reach it.

**`Process`** is `main()`: `pc` names the statement it is about to execute.
Start-up has its error exits; the loop is split so that a signal can come
between the condition, the call of `run()`, the setting of `waiting`, the call
of `wait()`, its return, the reset of `waiting` and `--i`. `Terminated(s)` and
`Alarm` are the handlers, or the default action as long as there is none;
`Killed` is a signal `main` never handles (SIGKILL, SIGHUP, SIGPIPE) and may end
the process anywhere. `LoadFile` may crash, for the lines above, and
`EstablishTimer` may end in an uncaught exception: the timer is constructed
outside the try block.
`runs` and `ticked` are history variables, for the properties only. A run of
the machine is one step here that ends, throws or traps; `System` has its
inside.

**`MC...`** give the constants values; `MCWords` also holds the reference
definitions, and `MCToggle` the program of `examples/toggle_ff.stackm` with two
history variables. **`...Proofs`** hold the theorems.

## 3. Runs

| Run | Module | Shows | Size |
|-----|--------|-------|------|
| `words` | `MCWords` | integer instructions against independent definitions, all operand pairs | 256 states |
| `pows_signed` | `MCWords` | *violation*: POWS of a negative base is 0 | |
| `stack` | `MCStackMachine` | bound, exceptions, refinement of `BoundedStack` | 1 430 states |
| `atanxy_too_few` | `MCStackMachine` | *violation*: ATANXY with one operand | |
| `machine` | `MCMachine` | programs of up to 3 instructions of all classes and up to 4 of control flow: type, stack depth, no failures, initial values, forward runs end | 299 000 states |
| `j_jumps` | `MCMachine` | *violation*: J does not jump | |
| `toggle` | `MCToggle` | the flip-flop example under every timing of its trigger | 332 states |
| `memory` | `MCSharedMemory` | two processes on one memory: which stores can be lost, bounds, refinement of `Registers` | 38 300 states |
| `wide_reads_back` | `MCSharedMemory` | *violation*: a 64 bit variable does not read back | |
| `loader` | `MCLoader` | what is accepted is well formed and means what its lines say | 259 000 states |
| `system` | `MCSystem` | `main` and machine together implement `Process`; cycles are whole | 11 000 states |
| `process` | `Process` | signals, pacing, cycles, termination, liveness | 734 states |

Bounds, and why they are enough:

* `WordBits = 4` for the arithmetic: it has negative words, both wraps, MIN,
  -1 and a float half of the word, and exponents past the point where powers
  wrap. `WordBits = 2` where only "zero or not" and a few values matter.
* `MAX_STACK = 4` for the object, so that full, one below full, two, one and
  no elements are different; `2`, the smallest the constructor accepts, for
  programs of three instructions, so that they reach it.
* 3 or 4 instructions before `END`: enough for a loop (label, push,
  conditional jump), for every pair of instructions that meet on the stack, for
  a jump across another and for overflow and underflow. The theorems cover all
  lengths.
* Two variables share a local cell, two are bits of one shared byte of which
  another process writes one, one lies outside its memory: aliasing,
  interference and a throwing access.
* Memories: `ByteBits = 2` keeps an `int` at 8 bits, so that indices at and
  beyond its width occur; `SizeMax = 63` lets a small cell number wrap. Each
  cell size has two to four sets of declarations that pair one or two processes
  with bits in one byte, in one cell, in both byte orders, values across cells,
  refused, wrapping and overlapping ones. Two processes are enough for a lost
  update, which has two parties. `SharedMemoryProofs` covers all of them.
* Files: one section at a time runs through every sequence of two or three
  lines out of 7 to 23 (the program up to 4 out of 7), and every sequence of
  five headers, blank and other lines, which contains a header given twice with
  and without lines. Every refusal of every parser is met, and so are the two
  undefined lines, the second in local, shared and unknown memories and with
  free and taken names. `LoaderProofs` and `LoaderValuesProofs` cover all files.
* `system`: seven programs, one per way a run ends (normally by two paths, a
  short stack, a load and a store outside the memory, a trap) and one that loops
  while an input stays set; a shared memory that is large enough or not, so that
  `init()` throws; `CycleSettings = {0, 2}`.
* `CycleSettings = {0, 1, 3}` for `process`: unlimited, one, several; `SizeMax
  = 3` so that the counter of the unlimited loop wraps and the largest count
  equals the largest counter value; `RunCap = 4` stops the history counter above
  the largest count.

`stack` and `atanxy_too_few` switch deadlock checking off: after undefined
behaviour or a trap the object is gone and no call follows. So does `memory`,
where both processes may have left the memory. The other models stutter
explicitly where the process or the loader has ended (`Stopped`, `Ended`,
`Loaded`).

Every property of a passing run has a mutant: an operator marked `Mutation:`
beside the definition it replaces, with a plausible slip in it, that makes TLC
report that property.

### Fairness

* `Machine`: `WF(Execute)`. One thread runs the loop in `run()`; the operating
  system keeps scheduling it. Nothing is assumed of other processes, of `init`
  or of the start of a cycle.
* `System`: `WF(Main)`, one thread again, now of `main` and the machine in it,
  and `WF(Alarm)` as below. That a run ends is not assumed.
* `Process`: `WF(Main)`, the same, plus that a run ends. `ForwardProgramsAreFair`
  derives this from the fairness of `System` for programs without backward jumps
  (a program that loops for ever cannot be terminated: the flag is read between
  runs only, and run `system` contains one); and `WF(Alarm)`, a
  timer that was started goes on firing. The last does not hold with
  `CYCLE_MS 0`, which disarms the timer. No signal of a user is ever assumed to
  come, and `wait()` is not assumed to be interrupted by one.

### Findings

1. `POWS` pushes 0 for every negative base (`StackMachine.cpp:245`), the
   documentation says "Signed integer exponentiation".
2. `ATANXY` checks for one element and pops two (`StackMachine.cpp:779`), the
   header promises `std::runtime_error`.
3. `J` writes its target to a static dummy (`instruction.hpp:661`), the
   documentation says "Unconditional jump to label".
4. `load_64` reads through a `uint32_t` pointer (`Memory.cpp:165`), so 64 bit
   variables lose their upper half; the header declares "64 bit little endian".

Other slips that the models contain and the runs live with: `be1` is created as
`le1` (`Machine.cpp:436`); bit indices are bounded by the position of the cell
(`Memory.cpp:95`), and bits beyond the first byte of a 2 byte cell do not read
back (`Memory.cpp:104`); `reg32` of `store_64` has 16 bit elements
(`Memory.cpp:265`); `CYCLES` without a value reads past a vector
(`Machine.cpp:290`), and so does a variable with an empty cell, `memory@@`
(`Machine.cpp:396`); lines with an unknown first word are dropped
(`Machine.cpp:822`). `ReadsBack`, `SettingsApplied` and
`OnlyUnknownLinesMissing` say exactly how far each of them reaches.

## 4. Proofs

Each theorem is about every value of the constants; TLC has checked the same
formulas, and the strengthenings, on the instances above. Assumptions are the
named ASSUMEs of the modules: the constructor's bound on `MAX_STACK`; results
of the arithmetic are words (`WordsTypeCorrect` proves it of `Words`); programs
are well formed (`LoadedIsWellFormedTheorem` proves it of `Loader`); loads give
words and stores give memories; cycle settings are `size_t` values; a numeral
denotes one number or none; the position `parse_program` appends to a label
makes the labels of different lines different (`Machine.cpp:727`); `size_t`
counts at least to 7, so that the widest cell has an address.

* `MachineProofs`, the stack. `StackTypeOK` is inductive: the point is the bound,
  which the unchecked pushes keep because each has popped at least one element
  (one lemma per method). `ThrowKeepsStackHolds` is the action property, and
  `StackImplementsBoundedStack` maps every call to one step of `BoundedStack`
  or to none.
* `MachineProofs`, the machine. `MachineTypeCorrect` needs of the program only that `END` is
  last and a target is a label: then no instruction but `END` is last and a
  target plus one is an index. For the depth theorem the invariant is
  quantified over all static counts: with `Balanced(instructions, depth)`, a
  running machine has `depth[ip]` elements, and has neither thrown for the
  stack nor met undefined behaviour. `ExecuteSound` says an instruction with
  enough elements and room does not fail, `ExecuteFlow` that it follows an edge
  of the control flow, `CountStep` puts the two together. The end of a cycle
  is covered by `clr` at the start of the next.
* `ToggleProofs` joins `Machine` and `Memory`. `LoadIs` and `StoreIs` say what
  a load and a store do at a local cell and at a bit of a shared one byte cell:
  they concern that place and no other. `PlacedAt` describes a machine whose
  variables are at such places, some of which another process writes; `MCMachine`
  and `MCToggle` are instances (`ToggleIsPlaced` proves it of the second at every
  width). `InitialisedReadBackTheorem` follows with the invariant `StoredSoFar`.
  For `TogglesOnRisingEdgeTheorem` the invariant `Along` gives the elements on
  the stack at each of the fifteen instructions, and relates the history to
  `q`, `nq` and `old_trigger` until the jump or the three stores have settled it;
  `ToggleSetting` repeats the values of `MCToggle.cfg`, except that the widths
  and the size of the stack are free.
* `ProcessProofs`. The invariant `ProcessInv` says how far start-up has come
  for each `pc` (which handlers exist, whether the timer runs), relates the
  counter to the number of runs (`i = cycles - runs`, or one more, depending on
  `pc`), says that an ended wait is due to an alarm or to the flag, and where
  `waiting` may be set. The five safety properties follow; `TerminateIsFinal`
  is the temporal form of a step lemma.

* `SharedMemoryProofs`. The invariant keeps with a process that is gone the
  reason: the access was accepted and leaves the memory. `WrappedOnlyLeaves`
  is then arithmetic on the checks: an accepted value whose last address did not
  wrap lies below the size, and the cell of an accepted bit does too, since its
  number is below `size / cell_size`. `LostOnlyInOverlapTheorem` and
  `ImplementsRegistersTheorem` are about contents: the invariant `LInv` says
  what the memory holds of every stored value that is not endangered, and what
  each half-done `store_bit` will write back. It rests on one fact per layout:
  the bits a store writes are exactly those the load of the same type collects,
  in the same order (`ReliableReadsBackTheorem`; with an index or a width the
  two directions treat differently it is false, which is what `Reliable`
  excludes), and on stores being local: bits of the memory outside the footprint
  stay as they are, and for a bit the footprint is the whole cell while it is
  held. Every step of `SharedMemory` is then a step of `Registers` on the
  `Private` variables, or none.
* `WordsProofs`. The laws hold for every even width up to 64. Division,
  orders: modular arithmetic, `TruncDivIs` for the quotient that truncates, and
  `SignedIs` for the meaning of a word. `BitwiseLawsTheorem` needs that a word
  and the set of its 1 bits determine each other (`FromBitsOfBits`,
  `FromBitsInjective`), `PowerLawsTheorem` that `ipow` is the repeated product
  (`ipowComputes`, by the case of an odd and an even exponent). Both are about
  recursive functions, which no library theorem covers here. So existence and
  uniqueness of each are proved first (`SumExists`, `SumUnique`,
  `ProductExists`), with `SetInduction`: a set of numbers that is not empty has
  a least element. That `2^n` doubles is obtained by counting the subsets of
  `1..n` (`PowersOfTwo`), since the provers know no powers.
  `WordsTypeCorrect` discharges what `StackMachine` assumes of the arithmetic.
* `LoaderProofs`. The invariant says of the list that is being built that every
  operand is declared, that exactly the recorded positions are jumps and that
  every label is the position of a `LABEL`; appending keeps it
  (`AppendPlain`, `AppendLabel`, `AppendJump`), and assigning the targets turns
  it into `WellFormedOver` (`TargetsAssigned`). With `LoadedIsWellFormedTheorem`
  the assumption of `Machine` on its programs is what the loader guarantees, so
  the theorems of `MachineProofs` hold for every file. For
  `SectionsAreBlocksTheorem` the invariant `BlocksRead` describes the part of
  the file read so far: each closed section holds the lines behind one of its
  headers, the open one those since the last header. The lemmas about
  `Selected` say how the selection of lines by their numbers grows by one line.
* `LoaderValuesProofs`. The theorems follow the lines of a section one by one:
  the invariants `SettingsMeaning`, `ValuesMeaning` and `ProgramDraft` say of the
  lines dealt with so far what the properties say of all of them; `ProgramDraft`
  relates the list that is being built to the known lines by their rank, and
  `AssignTargets` turns recorded labels into ranks. What they add is what the
  code relies on: a `CYCLE_MS` among them has been recorded in
  `applied_settings`, so a second one is refused; a constant one of whose lines
  has been read has a value, so a second line is refused; and no line is a
  constant's and a variable's at once, since `parse_var` kept the names apart.
  `LeftAt` adds to the settings where loading left the defined behaviour: the
  line itself, and, since `__VAR` is parsed behind `__SETTINGS`, that the
  settings stood by then.
* `SystemProofs`. Each step of `System` is one of `Process` or leaves `main`
  alone, and one of `Machine` or leaves the machine alone: two refinements by
  projection. `CyclesAreWholeTheorem` needs where both stand at once: the
  machine runs exactly while `main` is in `run()`, it stands between two cycles
  elsewhere in the loop, and the handlers exist before the first cycle, so that
  of the signals they are for none has its default action in the middle of one;
  a process killed by another signal is set apart.

So every invariant that a run checks is proved, with two restrictions:
`InitialisedReadBack` for places as above (bits of wider cells and whole values
have the properties `SharedMemoryProofs` gives them), `TogglesOnRisingEdge` for
this program. Only model-checked is liveness (`ForwardRunsEnd`,
`ForwardProgramsAreFair`, `TerminationEnds`, `WaitsEnd`, `FiniteRunsEnd`):
fairness and ENABLED are out of the prover's reach.

## 5. Not modelled

* Values of floating point results, output formatting, log text, time stamps
  and licence texts.
* `std::bad_alloc` (but for the cells of a local memory), failing
  `clock_gettime`, exceptions of the output streams, read errors of the program
  file.
* The alarm handler's use of `std::cerr` while `main` may be writing to it: the
  effect lies inside the stream library.
* Torn accesses: a value of up to 8 bytes is read and written with one access,
  which the processor performs at once within a cache line. Across a boundary
  another process might see half a value; nothing in the code prevents it.
* How a word is made of characters: numerals, names and labels are parameters
  of `Loader`. `std::stoull` accepts a minus sign and wraps, which `MCLoader`
  contains as the value of "-1".
* What several machines do to a memory beyond loads and stores: `OutsideWrite`
  changes any shared bit at any time instead of running a second `Machine`.
* The libraries, which are not in the repository; `Process` takes of `wait()`
  what `main.cpp` relies on: it blocks until the alarm, may be interrupted with
  or without an exception, and may fail. `CYCLE_MS 0` passes an interval of zero
  to the timer, and what `cxxitimer` does with it is not known here.

## 6. What could come next

* Two machines on one memory (`SharedMemory` under `System`), for protocols
  between programs rather than between variables.
* `InitialisedReadBack` for whole values and bits of wider cells.
* The safety half of the liveness properties: a measure that every instruction
  of a program without backward jumps decreases.
