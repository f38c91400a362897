# A model of Rosie's pattern engine

Rosie compiles patterns (parsing expression grammars with named captures and
backreferences) to the code of a small matching machine and runs them. This
directory holds TLA+ models of that system, the TLC runs that check them and
the theorems that TLAPS proves about them. Paths below are relative to
`src/src/`, the sources of the crate.

## Inventory

| Part | State it keeps | Operations | Hard behaviour | What makes it correct |
|---|---|---|---|---|
| Pattern trees, `rpeg/compiler/lptree.c` | a `TTree` and a name table for each pattern, in Lua | `lp_*`, `r_*` constructors, `newgrammar`, `finalfix`, `verifygrammar`, RPLX load and save | argument checks that later phases rely on (no empty loops, fixed look-behind); indices renumbered when two name tables join, and again when a pattern is compiled | the tree still means the expression it was built from; a grammar accepted by `verifygrammar` cannot loop |
| Code generator, `rpeg/compiler/lpcode.c` | the code vector being built and patched | analyses (`checkaux`, `fixedlenx`, `getfirst`, `headfail`, ...), one `code*` function for each construct, `peephole` | optimisations that drop a choice on the word of an analysis; jumps patched later; code for an optional that reuses the enclosing choice | a compiled pattern gives the answer its tree means |
| Matching machine, `rpeg/runtime/vm.c`, `stack.c` | program counter, position, backtrack stack, capture array | one step for each opcode; backtracking; `find_prior_capture` | its assertions are compiled out, so it trusts the shape of the code; both arrays grow and run out; slots keep what a backtracked alternative wrote | never underflows the stack, leaves the subject or the array; returns |
| Capture walk and match entry, `vm.c` (`caploop`, `walk_captures`, `vm_match2`), `capture.c`, `json.c`, `lptree.c` (`r_match_lua`, `r_match_C2`) | a stack of open captures that grows, the output buffer | one encoder call at each open and each close | captures left open by a halt; positions given by the caller, from either end | output nests as the captures do; the result says what was matched and what is left |
| Buffers, `rpeg/runtime/buf.c`, `compiler/rbuf.c` | data pointer, length, capacity, static first block | append, reset, sub, write, collect; number codecs | growth from the first block to the heap and on the heap, failed allocation, bytes of somebody else | each call appends wholly or not at all, wherever the bytes are; no block is lost; what was written is read back |
| Name tables, `rpeg/runtime/ktable.c` | strings in one block, elements with offsets | add, concatenate, sort, compact, search | growth, removal of duplicates, a search that may not end, failed allocation | an index names the same string before and after |
| Pattern files, `rpeg/runtime/file.c`, `rplx.c` | the file, the stream and its buffer | save, load | a full disk, a crash between two writes, streams left open, limits, error codes | a loaded pattern is the saved one, or an error |
| Capture decoder, `rpeg/compiler/lpcap.c` | none | byte encoding to Lua tables | constant captures marked by the sign of a length | inverse of the byte encoder |
| Start-up, `librosie/librosie.c` | `pthread_once` flag, pointer to the home directory, `all_is_lost`, lock `booting` | `rosie_home_init`, `rosie_new`, `boot` | several threads at once; a string that its owner may free; failures at every step | initialised once, with a home that is alive; a failed engine is freed and the lock released |
| Engines, `librosie/librosie.c`, `registry.c` | one lock, one Lua state, one table of compiled patterns for each engine | `rosie_compile`, `rosie_match2`, `rosie_free_rplx`, `rosie_finalize`, ... | threads; failures after a part has been done; indices that are freed and given out again; results that point into a buffer of the pattern | each call is atomic on its engine and leaves the lock free; an index names the pattern it was returned for until it is freed |
| Printers `lpprint.c`, command line and REPL `rosie.c`, `lua_repl.c`, `readlink.c`, Rust binding `lib.rs`, `build.rs`, vendored `lua-cjson` | - | - | - | not modelled: terminal I/O, declarations and third-party code |

The parts meet as follows. Lua code calls the constructors of `lptree.c`; the
first match of a pattern calls `compile` of `lpcode.c`; `rosie_match2` takes
the engine's lock, looks the pattern up and calls `vm_match2`, which runs
`vm()` and then hands the capture array to an encoder that writes into the
pattern's buffer; the match result the caller gets points into that buffer.

## Modules

| Module | What it holds |
|---|---|
| `PegTree` | pattern trees; constructors, `finalfix`, `verifyrule`, `checkloops` and `verifygrammar` of `lptree.c`; the analyses of `lpcode.c` that constructors use |
| `PegCompile` | the code generator, from `getfirst` to `peephole` |
| `PegSemantics` | what a pattern means: the reference the machine is compared with |
| `PegVM` | `vm()`, one action for each opcode, and `find_prior_capture`; its properties |
| `PegSpec` | the abstract machine: one step from a running match to its answer, to a resource error, or to the end of the process |
| `PegShape` | what the machine requires of its code (`ShapeAssumption`) and the inductive invariant `IInv` |
| `MCPegVM` | pattern universes, compiled programs and their shapes as constants; refinement of `PegSpec`; soundness of the analyses; `NoRunaway` |
| `PegVMProof` | theorems about the machine |
| `Boot` | start-up: `rosie_home_init`, `rosie_new`, `boot`, from several threads; its properties and inductive invariant |
| `BootProof` | theorems about start-up |
| `EngineSpec` | the abstract engine: a table of patterns and a limit, on which each call takes effect at one moment |
| `Engine` | one engine and the threads that call it: every exported call but the two of the command line |
| `EngineProof` | theorems about it, the refinement of `EngineSpec` among them |
| `MCEngine` | the symmetry of threads and patterns |
| `ByteCodec` | the ints and shorts of the byte encoding, written and read back, with their width |
| `ByteCodecProof` | what is written is read back; lemmas about bytes laid end to end, for the proofs of buffers and files |
| `CapWalk` | one call of the match entry around the machine: positions, `walk_captures`, `caploop`, the encoders, and `r_lua_decode` on what the byte encoder wrote |
| `CapMeaning` | the tree, and the JSON text, that a capture list stands for; the properties of `CapWalk` that compare with it |
| `CapWalkProof` | theorems about `caploop`, the decoder, the json text and what a call returns beside its data |
| `MCCapWalk` | all small capture lists, complete or cut off by a halt, and the calls |
| `BufferSpec` | what a growable buffer promises: a text |
| `Buffer` | a buffer with its bytes, its first block and the heap (`buf.c`, `rbuf.c`, `addlstring_json` of `json.c`) |
| `MCBuffer` | its small instance |
| `BufferProof` | theorems about buffers |
| `Ktable` | name tables as pure operators: every operation of `ktable.c` |
| `PatternNames` | how trees, code and name tables are kept together by the constructors, `newgrammar` and `prepcompile` |
| `MCPatternNames` | its small instance |
| `NamesProof` | theorems about names in patterns, and the lemmas about name tables they rest on |
| `RplxFile` | `file_save` and `file_load` over a stream that is buffered, a disk that may be full and a process that may die |
| `MCRplxFile` | the patterns that are saved |
| `RplxProof` | theorems about files |

`PegVM` and `CapWalk` are the two halves of a match: what `vm()` answers, the
end of the match and the capture list, is a constant of `CapWalk`
(`Answers`), restricted to lists that `vm()` can leave (`Enclosed`): closed
captures, or captures that are open because of a halt. `CapWalk`, `Buffer` and
`RplxFile` share `ByteCodec`; `PatternNames` and `RplxFile` share `Ktable`.

**The matching machine.** A behaviour of `PegVM` is one call of `vm()`. `pc`, `s`,
`captop` and `capsize` are the locals of that name; `stack` is the `BTEntry`
stack, whose frames hold the saved position (`NULL` for a call), the slot to
resume at and the capture level; `capture` is the capture array including the
slots above `captop`, because `find_prior_capture` and `ICloseCapture` read
them; `status` and `r` are what `vm()` returns. The `fail` label, which several
opcodes jump to, is the operator `FailFrom` and part of each of their actions.
A slot of the code vector holds an instruction whatever its size in bytes, and
jumps hold slots instead of offsets. The expansion of the backtrack stack is
abstracted to its limit `MAX_BACKTRACK`; its memory is left out.

A byte that a charset would make the code generator emit as `IChar` is a
one-element set; `Char` is the set of all bytes, with three elements in the
runs so that an empty, a one-byte, a proper and the full charset all differ
(`charsettype` distinguishes exactly those). The release build defines
`NDEBUG`, so the assertions of the C code are not guards of the model; they are
properties. `getfirst` returns without writing its result for a backreference.
The model passes the arbitrary content of that charset as `junk`.

**Start-up.** In `Boot` every thread has a place (`pc`) in the
call it makes. A pointer to a home directory is the pair of the thread and the
call that passed it, so that using it after the call has returned can be told
from using it in time; `Deref` is the string it points to. `EnterOnce` and
`SkipOnce` are `pthread_once`: the first caller initialises, later ones wait.
What `set_bootscript` finds is chosen when it runs (`install`), and decides at
which step of `boot` a new engine fails. `held` is what `rosie_new` has
allocated and must free or hand over; `given` records, for `HomeGiven` alone,
which homes were passed in time.

**An engine.** In `Engine` a call begins (`Begin`), waits for
the lock, works in one to four steps and returns. The steps are cut where Lua
code runs (`lua_pcall`), because that is where it can fail in between, collect
garbage or create a pattern. `L` is the Lua stack: values that the code finds
by position are in it, others are left out. `rplx` and `freelist` are
`rplx_table`, with the free list that `luaL_ref` and `luaL_unref` thread through
slots `1..` from slot 0. `heap` is the set of patterns that are not collected:
a collection keeps those in the table and on the stack. `buf` is the output
buffer of each pattern: the block its data are in, which changes when it is
reallocated, and the thread whose match wrote it. `out` is what a call returns;
of messages the model keeps whether they are JSON, text, null or untouched.
`Leave` is the way out that all functions share. Clients are modelled from what
`librosie.c` (lines 15 to 60) and `lib.rs` ask of them: an index is freed once
and not used after that, a result is given up before the next match with the
same pattern, `rosie_finalize` is the last call.

**A call of the match entry.** In `CapWalk` the steps of a call are its `pc`:
"call" checks the range and lets `vm()` answer; "walk" and "loop" are
`walk_captures` and `caploop`, one step for each capture, with `stack`,
`capacity` and `count` as in the code; "halting" closes what a halt left open;
"decode" and "subs" are `r_lua_decode` and `pushmatch`, whose recursion is the
sequence `frames` of tables under construction. `output` is the buffer: real
bytes for the byte encoder, whose positions and lengths are read back from it,
and a sequence of labels and text ranges for the json encoder. The line encoder
allocates and may have no memory. Where the code reads beyond an end or below
the stack, the model takes any of the values that make a difference
(`Beyond`, `InMemory`, `Below`).

**A buffer.** In `Buffer`, `b` is the C structure with its two pointers,
length and capacity; `mem` says what bytes each location holds, `live` which
blocks the heap has given out. `Grown` is `buf_prepsize` and `buf_resize`,
which may stay in place (`realloc`), move, or find no memory (`OutOfMemory`).
A buffer that wraps foreign bytes is one whose `initb` is `NULL`. `damage` names
what no longer holds after a failure that the code does not undo: "freed" (the
buffer points to data that are gone), "twice" (it has then been collected),
"text" (the json encoder wrote a text for which there was no room). `did` is
the last call with its arguments and result, for the refinement.

**Names in patterns.** In `PatternNames` a Lua program holds patterns in
`Slots` and builds new ones from them. A tree is the sequence of its nodes that
hold an index into the name table, in the order of a walk; the other nodes make
no difference to the indices. `name` and `value` of a node are what the caller
asked for, and only the properties look at them. Tables have their real
memory: `size` and `blocksize` grow, and a table that was written to after a
failed `realloc` is `Overrun`. Comparing, sorting and searching are done on
strings byte by byte, because an empty string and a string that begins another
are the cases that matter.

**Pattern files.** In `RplxFile` each `fwrite` of `file_save` is a step
(`Writes`, `step`) into the buffer of a stream (`pending`), whose bytes reach
`file` at any time. A write may fail, the process may die (`Die`) or exit with
streams open (`Exit`); `strays` and `mixed` follow the streams that an error
leaves open, `cut` an `fclose` that could not write. A load is one step,
`file_load(file)`, which may happen in every state: the properties apply it.

## Runs

Subjects of the machine are all strings over two of the three bytes up to `MaxSubject`.

| Run | Question | Bounds | Result |
|---|---|---|---|
| `vm_plain` | Does every pattern without grammars give the answer it means, and stay inside the subject? Does a backreference find the last closed capture of its name? Are the analyses that optimisations trust sound? | the trees of up to three constructors over five atoms, with captures, constant captures, halts, predicates and look-behind; backreferences to six captured patterns with six things in between, wrapped and combined; subjects up to 3 | holds |
| `vm_recursive` | Does a grammar that `newgrammar` accepts ever go round without consuming? Do recursive grammars, whose stack and captures run out, keep the stack discipline, the capture levels and the meaning, and return? | all grammars of two rules whose bodies are up to two items (`a`, a call of either rule, `!b`, `(a R1 / b)`) and a byte, and deeper ones with captures, predicates and tail calls; capture array 1 growing to 4 of a limit of 5, stack 8; malloc may fail; subjects up to 4 | holds |
| `vm_uninitialised` | the answer of patterns in which a backreference follows a choice or a repetition | two patterns | violated: see Findings |
| `boot` | Do threads that start the library and create engines at the same time get one initialisation, booted engines, and their locks and memory back? | 2 threads with 2 calls each, 2 homes and NULL, 5 kinds of installation | holds |
| `engine_table` | Does every index name its pattern, every result stay in place, and every call take effect at once, while slots are reused? | 2 threads with 3 calls each, compile, match and free; 3 patterns; 1 reallocation of a buffer | holds |
| `engine_calls` | Do all calls, with every failure, exclude each other, leave the stack empty and the lock free, report errors as text, and return? | 2 threads with 2 calls each, all 15 calls; 1 pattern | holds |
| `engine_grow` | Do results stay in place when an encoder written in Lua returns a string that does not fit the buffer? | 1 pattern | violated |
| `captures` | Is what the encoders write, and Lua decodes, the tree of the captures? Does the walk stay in its list and its stack, and the decoder in its bytes? Does the result say what was matched? | every tree of up to 3 captures (and one of 4), complete or cut off by a halt, at every rising position of an input of 2 bytes (of its first byte for the larger lists); the small ones also with a halt before what was captured; names of 0 to 5 bytes of 8 values; a stack of 1 growing to 3; every encoder on the whole input, and ranges given from C and from Lua, inside and outside | holds |
| `cap_halt` | Is the text of each capture that a halt leaves open that from its own start to the halt? | the same | violated |
| `buffer` | Does a buffer behave like a text whatever is moved to make room, and is no block lost? | bytes of 2 values; a first block of 2 bytes, 2 heap blocks; texts up to 9 bytes, a file up to 2; memory may run out at any time | holds |
| `names` | Does every index, in a tree or in code, keep standing for its name, and each name get one index by compaction? Do tables stay in their memory? | 2 slots, 2 nodes with names besides 2 rules; tables of up to 5 elements that start with room for one; 3 strings, one empty, one beginning another; memory may run out | holds |
| `rplx_file` | Is a file that loads the whole of what was saved last, and does what was saved load? | 5 patterns with 0, 1 or 3 names and code below, at and above the limit of 8 bytes; bytes of 4 values | holds |

**Bounds.** Every opcode, every exit of each `code*` function and both resource
errors occur in the passing runs. `vm_recursive` has a limit on captures that
doubling does not meet, as in `config.h`; in `vm_plain` it is met, and
`MATCH_ERR_CAP` occurs. Three bytes of subject are enough for a
choice, a repetition or a predicate to consume, fail and resume elsewhere;
grammars get four and a stack of eight, so that some inputs need more than the
stack. The limits of `config.h` are constants (`INIT_CAPLISTSIZE`,
`MAX_CAPLISTSIZE`, `MAX_BACKTRACK`, `INIT_CAPDEPTH`, `MAX_CAPDEPTH`), small
enough to be reached. Every backreference pattern is wrapped in an outer
capture, as Rosie does and as the comment in `find_prior_capture` requires
("capture[0] is always an OPEN").

Start-up needs two threads, one to initialise and one to wait or to come late,
and a second call of each, so that a string is freed and its owner calls again.
The engine needs three calls of each thread for an index to be given out, freed
and given out again while the other thread uses another, and three patterns for
a free list of two slots beside a slot in use.

Three captures are the fewest in which a capture has both a sibling and a
parent that must resume its count, the extra list of four has one inside the
second of two siblings. With a `Radix` of 8 a short still has a sign bit in
each byte, so lengths that `buf_peekshort` misreads exist beside others. A
first block of two bytes is outgrown by one int, nine bytes allow a move to the
heap, one on the heap, and both ways to choose the new size. Two patterns and
a third as the result are what any constructor takes; a grammar of two rules
that shares a rule's pattern, or whose rules were compiled before, is among
what two slots can hold. In `RplxFile` nothing counts files: the file is replaced by
each save, and a process that died is followed by another.

**Fairness.** `vm()` is a loop without calls that wait, so weak fairness of its
step is all that `Termination` assumes, and `Returns` of `CapWalk` assumes the
same of its own. In `Boot` and `Engine` each thread is weakly
fair while it is in a call; nothing is assumed of the order in which a lock is
granted. A thread that waits gets its turn because the calls of each thread are
bounded (`MaxCalls`): under an endless stream of calls a mutex of POSIX may
starve it. `Buffer`, `PatternNames` and `RplxFile` assume no fairness: nothing
obliges a client to call again, and they have safety properties only.

**Refinements.** `Correct`: `MCPegVM` maps the machine's state to `PegSpec`,
whose only step from "running" is to the answer that `PegSemantics` gives for
the tree, to a resource error, or to the end of the process when malloc has no
memory for captures. The code generator, the optimisations and the machine are
checked together by it.

`CallsAtomic`: `EngineSpec` has one step for each call,
between its beginning and its return, and the table it acts on is the table of
the engine without a pattern that a compilation in progress has just stored.

`Implements`: `BufferSpec` knows a text and no memory. The text of `Buffer` is
the first `n` bytes at the place that `data` points to; a buffer with `damage` is
"lost", of which nothing is promised. This one is also proved.

## Theorems

### The matching machine

`PegVMProof` proves, for every set of programs, subjects and limits, that the
specification of the machine implies `TypeOK`, `StackAssertions`,
`CaptureLevels` and `Positions`.

The assumptions are those of `PegVM` and `PegShape`:
`CodeAssumption` (programs are sequences of instructions, subjects of bytes),
`LimitAssumption` (limits are naturals, there is room for one capture and one
frame) and `ShapeAssumption`. The last one is
what the machine needs from the compiler: each reachable slot has a shape (the
number of choices pushed since the innermost call, and whether there is one),
and every instruction leaves its successors in theirs. The runs evaluate it on
all the code that `PegCompile` generates for their patterns, with the shapes
computed by following the code.

`StackAssertions` is not inductive: a step can only be shown to leave the right
frame on top if the frames below it are known to fit as well. `IInv` adds that
the slot saved in each frame fits the frames under it (`FramesRest`) and that
the program counter fits the whole stack. `TopFrame` then reads off, from the
shape of the current slot, what the top frame is. `CaptureLevels` needs that
levels never decrease up the stack. The proof has one case for each opcode and
one lemma for each way a step can change the stack: `Moves`, `Pushes`, `Drops`,
`Fails`, `Captures`, `Returns`.

Nothing is assumed of how the capture array's sizes relate to its limit: the
theorems hold for 1000 and `INT32_MAX`, the values of `config.h`, up to and
including the last doubling. The limit is the greatest int, so that a size
beyond it (from 2,097,152,000 captures on) is negative after `2 * captop`, and
the test that would clamp it (`vm.c:85`) cannot be true; compiled, `malloc` is
asked for more than there is of anything. As its answer is not looked at
(`vm.c:86`), the process dies in `memcpy`, which the model calls "crashed" and
which may happen at every other doubling too. `TypeOK` says that the array
always has the `capsize` slots the machine takes it to have, `CaptureLevels` that
the next capture has one of them as long as the call goes on.

### Start-up

`BootProof` proves, for any threads, homes and number of calls, that `Spec` of
`Boot` implies `HomeInLife`, `HomeGiven`, `SettledOnce`, `BootingExclusive`,
`EnginesBooted` and `NothingLeaks`, from `BootAssumption` alone. `HomeGiven`
and `HomeInLife` depend on each other and on who initialises, so `IInv` adds
three parts: `OnceInv` (exactly one thread is inside `initialize` and nobody is
past it before it is done), `PointerInv` (until then the shared pointer is that
of a call in progress, whose home was given) and `PlaceInv` (what a thread's
place in `rosie_new` says of the installation).

### An engine

`EngineProof` proves, for any threads, patterns and number of calls, that `Spec`
of `Engine` implies `TypeOK`, `Exclusive`, `StackInPlace`, `NamesKept` and
`FreeListSound`, from `EngineAssumption` alone, and `ResultsIntact` if the output
of encoders written in Lua fits the buffer (without that condition `engine_grow`
refutes it). None of the last four is inductive. `NamesKept` speaks of the
moments between calls; `IInv` says at every moment who refers to each slot in use
(`TableInv`): a client that holds its index, a call that frees it, or the
compilation that has stored it and not yet returned, and that no two calls use
one index. `StackInv` says what the call that holds the lock has on the Lua
stack, `PlaceInv` that the place of a thread fits its call and that
`rosie_finalize` is alone. `ResultsInv` says that no call in progress uses the
pattern of a result that a client holds.

Most of the steps fall into three classes with one lemma each: a call `Enters`
the Lua state, `Moves` on in it, or `Ends`. The others have a lemma of their own,
those that store or free a pattern on top of `RefTable` and `UnrefTable`.

### Growable buffers

`BufferProof` proves, for any strings, numbers, blocks, sizes and base of a byte,
that `Spec` of `Buffer` implies `TypeOK`, `Fits`, `NothingLeaks` and
`Implements`, the refinement of `BufferSpec`, from `RadixAssumption` (a byte has
a sign bit) and `BufferAssumption` (the locations differ, the strings consist of
bytes, and the json encoder writes at most six bytes for one).

`IInv` is the conjunction of the first three and of `LiteOutside` (a buffer
that wraps foreign bytes has no storage of its own and no other buffer points
to foreign bytes). They need each other: growing copies `capacity` bytes, which is inside the
memory only if `Fits`; that a block is not lost when it moves needs to know
which flag says that it is on the heap. `GrownAppends` says what growing does to the
text, `AppendedKeeps` that it keeps the invariant; `StepMaps` has one lemma for
each operation. `SubstringIsPiece` compares the arithmetic of `buf_substring`
with the piece that `BufferSpec` defines as a set of positions.

The json encoder reserves `2 + 6 * Len(s)` bytes and then writes unchecked. That its
text is never longer, and is made of bytes, is `JsonBytes`, an induction over
the recursive function that builds the text. Without an induction theorem,
which would take an operator, it goes by `LeastNumber`: a set of numbers that
is not empty has a least element, so there is no first length at which it fails.

`IntsReadBack` (in `ByteCodecProof`) proves that `string_to_int` undoes `int_to_string` for every int
of four bytes, in any base. `ShortsReadBack` says the same of shorts, but only
of those that `ReadBack` names: `buf_peekshort` does not undo `short_to_string`
for the others (see below).

### The engine implements its specification

On top of `IInv`, `EngineProof` goes on to prove that `Spec` of `Engine` implies `ErrorsAreText` and `CallsAtomic`, the refinement of
`EngineSpec`. Both need to know what a call has in `out` at each place: `OutInv`
says that nothing is reported before the last step, and which pattern a
compilation or a match has stored or found by then (`OutCorrect`). Each action
of `Engine` then maps to the one step of its call that takes effect, or to a
stutter; the abstract table is the engine's without the pattern that a
compilation has stored and not yet returned, so storing it is a stutter and
returning it is the step.

### The capture walk

`CapWalkProof` proves, for every call, all sizes of the stack and every set of
capture lists that satisfies the assumption of `CapWalk`, that `Spec` implies
`StackSound`, `DecoderInside`, `RoundTrip`, `JsonFaithful` and
`ResultTells`. The assumption is what `vm()`
can leave: the captures are nested under an outer one (`Enclosed`), a constant
is closed as soon as it is opened and positions rise, except to a halt
(`Ordered`), and what an encoder looks up has a name (`Named`; that
indices have names is `NamesKept`).

`StackTracks` says that the depth of the stack is the depth of the list at
`cap`; that `caploop` never pops an empty stack follows from the lists being
balanced, a fact about `Depth`, which is a cardinality: the lemmas about it
rest on `FiniteSetTheorems`. `WalkInv` adds what holds before the loop begins
(`BeforeLoop`), what the list is (`Given`) and how many captures a halt has
left (`Halting`).

The decoder reads bytes, and the test for a nested match
reads four of them unchecked, so the argument must know how the bytes got there.
`Layout` says that the output is a list of entries one after the other, each with
the bytes that `byte_Open` and `byte_Close` write for it, and `Nested` that the
entries are those of balanced captures under a first one. Both grow by one
entry with each open, close and synthetic close (`LayoutGrows`, `NestedGrows`,
`OpenWrites`, `CloseWrites`, `HaltWrites`). In the decoder, `ReadTo` says that `at` is
at the beginning of an entry, or of the position inside one that closes a
constant, and that there is one table for each capture open there. `ReadOpen`
and `ReadClose` find out what the decoder reads at an entry, by `IntsReadBack`
and `ShortsReadBack`. As long as a table is open an entry follows
(`NextEntry`), and every entry has its four bytes. None of this is inductive
without the bytes' values: the decoder goes by lengths and signs that it reads.

`RoundTrip` says that the tables so built are the tree of the captures. Here the
argument must know which captures are complete at every place of the list. `Path`
gives, after k entries, the captures that are open, outermost first, and for each
of them the sequence of those inside it that are complete; opening and closing
take a path to a path (`PathOpens`, `PathCloses`), and at a close the path has
exactly the captures that the tree has inside the one that is closed
(`ClosesAt`). `Tables` says that the table of an open capture has its name, its
place, the data of a constant and the nodes of the complete captures inside, so
a close makes it the node of the tree (`TableDone`). `TreeOf` is a recursive
function: `TreeExists` proves that it exists, from the end of the list to its
beginning, and `OneOrder` that a set of places has one order only, so that
`Inside` is determined. A full stack is the one way not to get the tree.

`JsonFaithful` rests on the same path. `WroteText` cuts the text written so far
into what stood there when each open capture began, its beginning with a comma
if others precede it, and the texts of the complete captures inside; the stack
of `caploop` holds the start and the count that belong to each. `TextCloses`
shows that a close, which looks at the kind of the entry before it and at the
start on the stack, ends the text as the tree has it: the bracket is written
exactly if something is inside, and a constant takes its data from its own close
(`LeafAt`, `ConstantCloses`). It holds for matches that no halt cut short; what is
wrong after a halt is the finding of the run `cap_halt`.

`DecoderInside` and `RoundTrip` are stated for lists that are `Readable`: the lengths of names are read back
as they were written, and positions fit an int. `vm_match2` allows inputs of
up to `UINT_MAX` bytes (`vm.c:766`) where positions are signed ints of
four bytes. `ResultTells` needs it only for where the decoded match lies.

### Pattern files

`RplxProof` proves, for all patterns, any base of a byte, magic number and limit,
that `Spec` of `RplxFile` implies `LoadedIsSaved` and `SavedLoads`, from
`RadixAssumption` and `FileAssumption`: a table and code consist of ints and
bytes, and their lengths fit the ints that the format has for them. The code
writes a length of type `size_t` or `int` as an int of four bytes; a table
has at most `KTABLE_MAX_SIZE` elements.

`LoadedIsSaved` looks at one file and says nothing of how it came about.
`SaveInv` says that the file followed by the buffer of the stream holds, as far
as it goes, what `file_save` writes (`Saved`, with `Agree`), that a save
has got exactly to its step (`Saving`), and that one that returned `FILE_OK`
is complete unless `fclose` lost something (`Whole`). `AgreeShorter` and
`AgreeLonger` keep `Agree` through all that a step does: cutting the end off, or
adding the next bytes. The other half is about the format: `Start(c, k)` is
where item `k + 1` begins, `FlattenedPieces` where each piece of an
array is, and `HeadIs`, `ElementRead`, `BlockRead`, `LengthRead` and
`InstructionRead` follow `file_load` from one item to the next, each place
computed from ints that were read before. A file that ends early is refused
because the last byte of each item is asked for. `FlattenSeq` is defined by a
recursive function, whose existence is proved (`FlattenedExists`) before it
can be unfolded.

### Names in patterns

`NamesProof` proves, for any names and values, any sizes and limits of tables,
any number of patterns and any order of operations, that `Spec` of
`PatternNames` implies `TablesFit`, `NamesKept` and `Canonical`, from
`TableAssumption` (the constants of `config.h` are positive) and
`NamesAssumption` (strings consist of bytes).

The invariant `Inv` says of each pattern whose table was not overrun (`PatOK`)
that the table is sound (`TableOK`), that every node is `Good` for it (each
index it holds is in the table and has the node's name there), that what is in
the code is such an index modulo the 24 bits it has, and that the table is in order
once the pattern is compiled. None of the three properties is inductive: that
`correctkeys` moves an index to its name needs to know where `ktable_concat` put
the strings, and that needs sound tables. There is one lemma for each
constructor (`VariableKept`, `CaptureKept`, `TwoKept`, `OneRuleKept`,
`CompiledKept`, ...), all in terms of a few facts about tables:

* `AddSound`, `ConcatSound`: adding leaves the old names where they are and puts
  the new ones behind. The element and the block may each have grown for it.
* `CmpIs`, `LessTransitive`: `ktable_name_cmp` decides a strict total order,
  with strings that begin others.
* `RankOnto`, `SortedIndex`: the places that sorting gives to the strings are
  all different and are all taken. This is where equal strings matter.
* `CompactSound`: a compacted table is in order, so it has no name twice, is no
  longer than the old one, and lacks none of its names.
* `SearchFinds`, `SearchIsRight`: in such a table the binary search ends at the
  index of any name that is there, so it never reaches the range on which
  it would go on for ever.

The folds of the community modules and the search are recursive functions:
`IterExists`, `SearchExists` and `SumChooses` first prove that they exist, by
the least number for which something would fail, before they can be unfolded.

### Model-checked only

`Correct`, `PriorSound`, `AnalysesSound` and `NoRunaway` depend on recursive
definitions over trees and code that `PegCompile` generates from them. Liveness
(`Termination`, `CallsReturn`, `Returns`) is checked by TLC alone.

## Findings

* A backreference as part of a choice or after a repetition
  (`vm_uninitialised`). `getfirst` does not write the first set of a
  backreference (`lpcode.c:335`), and `codechoice` and `coderep` use it.
* A match with an encoder written in Lua (`engine_grow`). `rosie_match2` copies
  the string of the encoder to the output buffer and sets only the length of
  the result (`librosie.c:953`); when the buffer was reallocated for it, the
  pointer in the result is that of the old block.
* Captures that a halt leaves open (`cap_halt`). `caploop` pops its stack
  before it reads the top (`vm.c:645`): each synthetic close but the first gets
  the start and the count of the capture around it, the outermost one what lies
  below the stack. With two open captures, which the run shows, the text of the
  outer one starts at a place that is not in the input. One open capture is
  closed as it should be, `start` having been read before (`vm.c:618`).
  `TextAfterHalt` looks at the texts alone.

Further observations made while modelling, for which there is no run:

* After a halt `json_Close` decides about a bracket by the capture before the
  one it is given (`json.c:108`), which for a synthetic close is whatever is in
  memory before a local variable (`InMemory`).
* `vm.h:52` has a message for "capture limit exceeded (or insufficient memory
  for captures)", but `doublecap` copies to what `malloc` gives it without
  looking whether there is any (`vm.c:86`): the process dies. The limit ends the
  same way: doubling from 1000 never meets `INT32_MAX`, and twice the last size
  is no int. `MATCH_ERR_CAP` is returned in neither case.
* `getfirst` treats `THalt` like the empty pattern (`lpcode.c:291`): in a choice
  such as `(halt 'a') / 'b'` the test for the first set jumps over the halt.
* A halt counts as a pattern of length 0 (`lpcode.c:227`), so `lp_behind`
  accepts it in a look-behind. The machine then stops before what it has
  captured: the closes that `caploop` makes up lie before the opens, even
  before the start of the range, and what is left over overlaps what was matched.
  `PartsOfRange` leaves such a halt out (`Forward`). An attempt to justify that
  positions rise, as a proof needed it, found this.
* A backreference inside the capture it names: the search for the close reads
  slot `captop` (`vm.c:224`), where an abandoned alternative may have left a
  close, and the end of the text may be before its start, against the assertion
  at `vm.c:477`. A constant capture inside the referenced one is counted as an
  open capture, against the assertion at `vm.c:241`.
* `verifyrule` has no case for a backreference (`lptree.c:1081`) and
  `numsiblings` gives it no siblings, so no walk over a tree visits its pattern.
* `hascaptures` follows calls without a bound and does not return for a recursive
  rule without captures (`lpcode.c:135`).
* A one-byte set that `codecharset` codes through its default case meets an
  assertion (`lpcode.c:484`).
* `vm()` does not free an expanded backtrack stack when it returns an error (`vm.c:422`).
* A failed conversion of messages in `rosie_load` is reported as plain text with
  `SUCCESS` (`librosie.c:1102`); elsewhere a second failure overwrites the
  messages of the first (`librosie.c:1355`). The allocation limit adds numbers of
  different units (`librosie.c:543`). The home pointer is stored and loaded with
  relaxed atomics (`librosie.c:253`).
* A dynamic buffer that cannot be resized is freed and keeps its pointer, and
  is freed again when it is collected (`buf.c:90`; the states "freed" and
  "twice" of `Buffer`). `addlstring_json` does not look whether it got the room
  it reserves (`json.c:74`; "text").
* `buf_peekshort` sign-extends its low byte (`buf.c:234`), so a name whose length
  has a low byte of 0x80 or more is misread; `RoundTrip` is stated for
  the other lengths (`ReadBack`).
* `ktable_add` tests for negative errors where `extend_ktable_elements` and
  `extend_ktable_block` return positive ones (`ktable.c:240`; `Overrun`), and
  `compact_search` does not end for some absent targets (`ktable.c:357`; `NoEnd`).
* `initialrulename` adds a name without looking at the limit (`lptree.c:1125`).
  Behind a table of `KTABLE_MAX_SIZE` elements it becomes one more, and if the
  table is still as long after compaction, the code that refers to its last
  element has index 0: 24 bits hold no more. `NamesKept` was first stated for all
  code; the attempt to prove it found this, and it is now stated for tables
  within the limit. (Trees keep the index whole, and `Canonical` holds even then:
  no other index is 0.)
  The error messages of `fixonecall` and `finalfix` take bytes of the block that
  have no terminator, or the address of an element, for a C string
  (`lptree.c:88`, `:152`).
* `file_save` cannot save a pattern without names: `fwrite` of nothing counts as
  an error. It does not apply the limits of `file_load`, ignores what `fclose`
  returns (`file.c:194`), and leaves the stream open on an error (`file.c:145`).
  `file_load` ignores errors about newlines (`file.c:237`), and sets a capacity
  that is one less than the array has (`file.c:242`).

## Not modelled

* Trees and code: `lp_range` and the bytes of charsets, operands without a tree
  (`TNoTree`), growth of the code vector, sizes of instructions, printers.
* The walk: timing, the text of the debug encoder.
* Buffers: `buf_readlen`, `buf_read` and `buf_writelen`, which nothing calls.
* Files: a load while another process saves.
* Engines: `rosie_exec_cli` and `rosie_exec_lua_repl` (the command line), the
  number of kilobytes behind the allocation limit, who owns a returned string,
  freeing a pattern after `rosie_finalize` (the comment at `librosie.c:642` counts
  on an error from a lock whose memory was freed while it was held), errors that
  Lua raises outside `lua_pcall` (they end the process), a failing
  `pthread` call (it aborts), weak memory ordering of the home pointer, and what
  the Lua code of Rosie's compiler computes.
* Printers, command line and REPL, strings and logging: output and copying. The
  Rust binding and the build script have no state. `lua-cjson` is third-party code.

What is left to do: backreferences inside recursive grammars, for which
`PegSemantics` does not yet skip nested instances.
