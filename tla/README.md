# attesor: specifications, model checking and proofs

attesor translates programs of one instruction set to another at run time. This
directory holds TLA+ specifications of the parts of it that keep state, the TLC
configurations that check them, and proofs of their main theorems for TLAPS.
Every definition is translated from the C sources; `PROJECT.json` maps each one
to the lines it stands for.

## 1. Inventory

The program is sequential: no source creates a thread. What makes it hard is
(a) long sequences of calls on objects that share state, (b) every failure of
`malloc`, `calloc`, `mmap` and `mprotect` in the middle of a sequence, (c) caches
whose keys say less than their users think, (d) the file system, which changes
between two system calls, and (e) signal handlers.

| Component | State | Operations | Works with |
|---|---|---|---|
| JIT core (`rosetta_jit.c`) | code cache and its offset, page protections, direct-mapped translation cache, counters, the flag of the global context | init, cleanup, reset, lookup, insert, invalidate, flush, alloc, mark executable, translate, execute | the emitter, which drops bytes past the end of its buffer |
| Block chaining (`rosetta_jit.c`) | translation blocks with successor, predecessor, flags | alloc, free, chain, unchain, get successor | `malloc`, which reuses addresses |
| ELF loader (`rosetta_elf_loader.c`) | loaded binaries; a cache of 8 entries with file name, size, mtime; enable switch | load, unload, cache init, cleanup, clear, set enabled | the file system; the runner |
| Guest memory (`rosetta_memmgr.c`) | one block of memory, list of regions, `used_size` | create, destroy, alloc, map segment, stack, read, write | the runner's loop over the segments of a binary |
| Runner and execution engine (`rosetta_runner.c`, `rosetta_execute_fixed.c`, `rosetta_execute_stubs.c`) | runner: binary, memory manager, thread state, `is_running`; a process-wide cache of translated blocks; heap pages made executable | create, destroy, load, prepare, execute, stop; translate block, run block | the loader, guest memory |
| Exceptions and signals (`rosetta_refactored_exception.c`, `_signal.c`) | handler tables, fault handler, pending exception, installed signals, mask | init, cleanup, register, raise, clear; install its own handlers or the program's, block, unblock, set the mask; the signal handler | instructions that fault, also inside a handler |
| Daemon (`rosettad_refactored.c`) | configuration with three descriptors, flags, the guest's mapping, installed handlers | entry, init, run, shutdown, setup memory, logging, crash handlers | signals between any two system calls; the client's descriptors |
| Modular build (`rosetta_trans_cache.c`, `rosetta_refactored_block.c`, `_exec.c`, `_init.c`) | translation cache with a code cache, block cache, a static buffer per translator | init, cleanup, two translators, block lookup, remove, invalidate | `malloc`, `mmap`; each translator uses the other's caches |
| Decoder (`rosetta_x86_decode.c`) | none; tables | decode, by fast paths or in general | every translator advances by its result |
| Instruction cache (`rosetta_insn_cache.c`) | direct-mapped cache of decoded instructions, statistics, switch | init, cleanup, lookup, insert, both at once (`decode_x86_insn_cached`), invalidate, flush, enable | the decoder; guest code that changes |
| Translate-loop cache (`rosetta_transcache.c`), refactored code cache (`_codecache.c`) | a table with flags and reference counts; an arena | insert, lookup, flush; alloc, reset | nothing calls them |
| Guest mapping (`rosetta_memmgmt.c`) | one remembered mapping | map, unmap, protect, translate | `mmap` |
| procfs (`rosetta_procfs.c`) | table of emulated open files | open, read, close | system calls |
| Everything else | none that outlives a call, or registers and counters | emitting, system call wrappers, Mach-O parsing, helpers | |

What makes each one correct, and what is hard about it:

* **JIT core.** A lookup returns code that was emitted for that program counter
  and that nobody has overwritten since; space handed to a client is its own;
  the code cache is rewound only together with the table that points into it;
  initialisation is reported truthfully. Hard: rewinding, slot collisions, the
  end of the code cache, 32-bit sums, write protection of shared pages.
* **Chaining.** A link has two halves and leads to a live block, as long as no
  block is freed while it is chained; where one is, as in the tests, only its
  neighbours are left with a link to it. Hard: a block with two predecessors, freed
  blocks whose address comes back.
* **ELF loader.** A binary stays allocated while somebody uses it; what the
  cache hands out is the file as it is. Hard: files replaced between `stat` and
  `mmap`, eviction of binaries in use, the switch.
* **Guest memory.** Regions lie inside the memory; loading a segment leaves
  loaded ones alone. Hard: rounding and padding, order of segments, a second
  execution in the same memory, `calloc` failing after the copy.
* **Runner.** `is_running` is true only during an execution, a result of 0 means
  that a block was executed, and a runner executes the code of its own binary.
  Hard: five error exits after the flag was set, a cache shared by all runners and
  keyed by an address they all use.
* **Exceptions and signals.** What is reported of an exception is one exception;
  a signal does not enter its own running handler; a fault ends, with its cause
  removed or with the process, unless a handler returns without doing either, which
  repeats it for ever. Hard: faults inside handlers, tables that are reset
  while handlers run, dispositions that could not be set, blocked signals.
* **Daemon.** It loses no descriptor or mapping; it closes none of its client's but
  those a configuration names until the defaults replace them; a crash releases all
  but what the interrupted call had got and not yet stored. Hard: a signal between a
  system call and the store of its result, or between the copy of a configuration and
  the defaults, a crash inside a shutdown inside a crash, numbers that are used again.
* **Modular build.** A cached address leads to code of its own program counter that
  is mapped and not overwritten; the block cache's does so too, except for code that
  was left in a static buffer or unmapped under it. Hard: two translators in one code
  cache, and those two exceptions.
* **Decoder.** The length is right, fast paths agree with the general one in all
  fields but two, where the difference is known, and no byte behind the instruction
  matters. Hard: the number of encodings.
* **Instruction cache.** An entry is stale only for a write to its own bytes that
  nobody invalidated. Hard: instructions that overlap, entries that outlive the time
  the cache is switched off, clients that never invalidate.

## 2. Modules

| Module | Role |
|---|---|
| `TranslationMap` | abstract: a partial map from program counters to translations that may forget |
| `JitCache` | the JIT core; implements `TranslationMap` |
| `JitCacheProofs` | its inductive invariant, theorems and the refinement |
| `MCJitCache` | three program counters, two of which share a slot |
| `BlockChain` | chains of blocks; its theorems are at the end of `JitCacheProofs` |
| `FileHandles` | abstract: opening a file, keeping its image, closing it |
| `ElfCache`, `ElfCacheProofs` | the loader's cache; implements `FileHandles` |
| `GuestMemory`, `GuestMemoryProofs`, `MCGuestMemory` | the memory manager and the loop that loads segments |
| `Runner`, `RunnerProofs`, `MCRunner` | runners, the engine and the shared cache of blocks |
| `Faults`, `FaultsProofs`, `MCFaults` | exceptions, signals and the contexts of their handlers |
| `Translator`, `TranslatorProofs`, `MCTranslator` | the modular build's translators and caches; implements `TranslationMap` |
| `X86Decode` | the decoder, as operators on a sequence of bytes |
| `DecodeCheck`, `MCDecode` | the decoder against the opcode maps of the architecture |
| `InsnCache`, `MCInsnCache` | the cache of decoded instructions; `MCInsnCache` puts `X86Decode` into it |
| `DecoderProofs` | theorems about the decoder and its cache |
| `Daemon`, `DaemonProofs`, `MCDaemon` | the daemon's life cycle and its crash handlers |

Definitions whose comment begins with *Mutant:* are wrong variants of the
definition that follows them. Nothing uses them; put in the place of the right
one, each makes one property fail, which shows that the property can fail.

### JitCache

Cells of the code cache stand for bytes, `PageSize` cells are a page. `cache` is
`ctx->cache`, `offset` is `ctx->code_cache_offset`, `prot` the protection of
each page, `alive` whether the process still runs. Three things are history and
not in the program: `owner` (who each cell was last given to), `whole` of an
entry (no byte of it was dropped) and `region` (what a client got from
`code_cache_alloc` and has not inserted yet). Clients are those of
`test_jit.c`: they fill a region they were given before they ask for another and
give it up when they reset. Instructions are a size; `emit_byte` drops what does
not fit (`TranslateMiss`), and writes to a read-only page are a SIGSEGV
(`TranslateFault`). `JitExecute` ends in a SIGSEGV when the code is cut off or
not executable. Left out: `cache_misses`, entry flags, the hash function (any
`SlotOf`), a second context.

### BlockChain

Blocks are addresses; a freed address may be allocated again. The client of
`ChainSpec` is the one of `test_jit.c`: it chains free ends, unchains, and frees a
block at any time, chained or not (test_jit.c:358-359 and 401-402 do). Freeing a
chained block leaves its neighbours with links to freed memory; `lost` is history
and holds those neighbours, which this client only frees from then on.
`ChainOpenSpec` chains and unchains anything.

### ElfCache

A binary is the address of its structure. A load that misses is two steps,
`LoadMiss` (the `stat` at line 290) and `LoadDone` (mapping, parsing,
`cache_add`) or `LoadFail`, and files may be replaced between them; the other
operations are atomic, as the program is sequential. A version stands for size
and mtime, so replacements within one second that keep the size are outside the
model, and so is rewriting a mapped file in place. Parsing either succeeds or
fails. `Spec` has careful clients: no two of them hold the same file, and the
cache is empty when it is switched. `SharedSpec` drops the first condition.

### GuestMemory

Addresses count cells. `memory` records which segment wrote a cell, `Data` stands
for what the guest writes, `loaded` is the progress of the loop of
`rosetta_runner_execute`. `chosen` of a region is history. `Word` stands for 2^64:
all sums are modulo `Word`, as in `size_t`. Rounding the stack's address down to
16 bytes is the identity on multiples of the page size. `SegmentsAscend` is what
the ELF format demands of loadable segments. Names, protections and host pointers
are left out: nothing reads them back.

### Runner

`call` is the program counter of `rosetta_runner_execute`: mapping, stack, context,
translation, execution, return. `Stop` may come between any two of them: the header
exports `rosetta_runner_stop`, which has an effect only while a program runs, but no
source calls it. Each step may fail, the `mprotect` of `translate_block_with_memmgr`
included, whose result nobody looks at: the code is cached and run without being
executable. `code` of a block records what it was translated from. Mapping all segments
is one step here (`GuestMemory` has the single ones), and a failure in it leaves the
memory as it was or changed. `sealed` says that a page of the heap lost its write
permission because code was placed in it; from then on `HeapFault` may end the process.
`rosetta_execute` executes one block: `rosetta_execute_block` returns 0 or -1 and its
loop leaves on both. A failed `rosetta_elf_load` leaves everything as it was and is no
step. Decoding and emitting are left out.

### Faults

`stack` holds the contexts of the one thread: the program, and above it the
handlers that run, called by `rosetta_raise_exception` (`"raise"`) or by the signal
handler (`"signal"`). `cause` is the signal of an instruction that a context is
about to execute again; `SignalEnter` is its delivery, `Resume` the return to the
instruction, which succeeds or raises the signal again, `Refuse` and `SignalReturn`
are `signal(sig, SIG_DFL); raise(sig)` and the delivery of the raised signal when the
mask is restored. `Answer` says what a handler does of each type of exception: it
repairs, refuses (a negative result), or continues without having done anything, as
that of `test_exception_handling.c` does. An exception handler is passed NULL for the
context, so that only memory faults are in its power. `disposition` of a signal is
the default, the library's handler, or one of the program's own (`InstallHandler`),
which is given the context and may repair anything or nothing. `Spinning` says that
such a handler is on the way to being entered again and again. A SIGTRAP is taken to
be raised by an instruction that is executed again, as on the ARM64 host. `Raising`
are handlers that call the interface themselves. A handler faults or raises once
(`spent`). `last` is history. Left out are calls that the program itself makes of
`rosetta_handle_exception` and `rosetta_handle_signal`, the registers, names and
printing.

### Translator

Host addresses are cells of the code cache, the heap, or the static buffer of one of the
two translators. `arena` and `static` record whose code is there. The code cache is
unmapped by `rosetta_cleanup` or by `refactored_translation_cache_cleanup` alone,
whatever the block cache holds; neither tells it. `stale` is history: the slots of the
block cache whose code was unmapped so. Heap code is never freed, as in the source. A
request of size 0 is refused by the allocator; translations are never empty, since a
`RET` is added. Reference counts, flags and counters, which nothing reads, are left out.

### X86Decode and DecodeCheck

`X86Decode` has the fast paths in the order of `decode_x86_insn` and the general
path: prefixes, opcode maps, VEX, ModR/M, displacement, immediate. The tables are
sets, `ModRM0FLookup` with the row that is eight entries short. `DecodeCheck` builds
instructions from their parts, with enough bytes behind them for the longest, and
takes their sizes from the architecture's opcode maps. `Mishandled` lists the
encodings the decoder gets wrong; everything else in the run has the right length.
`FastPathsAgree` compares all fields of the model: length, both opcodes, mod and rm are
the same; `reg` of PUSH and POP is the register where the general path has 0, and that
of INC and DEC lacks the bit of REX.R; `is_64bit` is the W bit of a REX prefix where the
general path always has 1. LEA with base r12 or r13 and the near conditional jumps
are excepted. Values of displacements and immediates, and which of the two fields the
fast paths put them in, and the SIMD, LOCK and VEX fields are left out.

### InsnCache

The cache is a function of slots over a memory whose bytes change. The decoder is a
parameter; `DecodeIsLocal` is what the module assumes of it and what
`WritesElsewhere` proves of the decoder of `X86Decode`. A write may come at any time
and hit any byte, cached or not, with the cache on or off; no source of the repository
calls `insn_cache_invalidate` after one. `owed` is history: the addresses whose cached
instruction had a byte of its own written, or was inserted wrong, and which nobody has
invalidated or replaced since. `LookupHit`, `LookupMiss` and `Insert` are the functions
of the header called by a client, of which a hit is `decode_x86_insn_cached` as well;
`DecodeMiss` is its other case, lookup and insertion in one.

### Daemon

Each store and system call of `rosettad_init`, `rosettad_shutdown`,
`setup_process_memory` and the crash handler is an action, and a signal may arrive
between any two: inside the copy of a configuration (`CopyField`) or between the copy
and the defaults (`SetDefault`), between two `sigaction` calls (`SetupSignal`), between
`socketpair` and either store of its result (`StoreCommand`, `StoreStatus`), between
`mmap` and the stores of address and size (`StoreBase`, `StoreSize`), between `close` and
the store of -1 (`Close`, `Forget`), inside a crash handler. `stack` is the program and
above it the crash handlers; `got` holds what a system call returned and the code has
not stored yet. `base` is `memory_base` and `sized` says that `memory_size` is not 0;
`Unmap` asks for both, as the code does. `owner` says who holds each descriptor number.
Clients open, close and hand over descriptors at any time, map memory and shut down
before the first start too, and pass a configuration or none (`Zeroed`: every field
names descriptor 0, as after the `memset`, and as before the first start). `foreign` is
history: the descriptors that such a configuration names and that no default has
replaced. `Remaps = FALSE` means one mapping: section 5 has what happens otherwise.

## 3. Runs

| Run | Checks | Shows |
|---|---|---|
| `jit` | `TypeOK`, `CodeIntact`, `RegionIntact`, `NoRewindUnderCode`, `RefinesTranslationMap` | lookups return intact code of their own program counter through resets, flushes, collisions, client regions and failing `mprotect` |
| `chain` | `ChainTypeOK`, `Reciprocal`, `NoDangling` | blocks are freed chained or not: only the neighbours of the block that was freed are left with half a link or one to freed memory |
| `elf_cache` | `TypeOK`, `HeldLive`, `CachedLive`, `EntriesDistinct`, `RefinesFileHandles` | loading through the cache is opening a file, and eviction and cleanup free nothing in use |
| `guest_memory` | `TypeOK`, `RegionsInside`, `ImageLoaded`, `Tiled` | loading, reloading, allocating and failing keep regions inside and the image whole |
| `runner` | `TypeOK`, `RunningInside`, `OwnCode`, `SuccessMeansRan` | every exit resets `is_running`, results are truthful, no runner executes another binary's code |
| `runner_hit` | `HitsRun` fails | a binary cannot be executed a second time in a process |
| `faults` | `TypeOK`, `InfoWhole`, `NoReentry`, `FaultEnds` | one exception is reported as one, no signal enters its own handler, every fault ends unless a handler neither removes the cause nor refuses |
| `translator` | `TypeOK`, `TableIntact`, `BlocksIntact`, `RefinesTranslationMap` | cached addresses lead to their own code although translators share the code cache; those of the block cache do unless the code stayed in a static buffer or was unmapped under it |
| `decode` | `LengthsRight`, `FastPathsAgree`, `LooksNoFurther` | lengths are those of the architecture but for the listed families; fast paths differ from the general one in `reg` and `is_64bit` only, and as stated |
| `decode_rows` | `RowsComplete` fails | thirteen opcodes lose their ModR/M byte to a short row of a table |
| `insn_cache` | `TypeOK`, `CachedIsCurrent`, `StatsAgree` | a cached instruction is what the bytes of now decode to, unless the client owes an invalidation |
| `daemon` | `TypeOK`, `NothingLost`, `ChannelsOpen`, `ClosesItsOwn`, `CrashReleases` | whatever a signal interrupts, nothing is lost; of the client's descriptors only those are closed that a configuration names before the defaults; a crash releases all but what the interrupted call had not stored |

Bounds. `jit`: four cells on two pages, two slots, two blocks and one hit before
a reset; this has collisions, a full cache, a block that crosses a page and one
that shares it, and every interleaving of a client's region with translations.
`chain`: four blocks, enough for a chain with a middle, a second chain, and a
freed address in use again. `elf_cache`: two clients, two files in two versions,
two entries and three binaries, so that the cache overflows and an evicted binary
is still in use while its file is loaded anew. `guest_memory`: four pages of two
cells, a first segment whose padding covers the second, sizes from one cell to
more than the memory. `runner`: two runners and three binaries, two with one
entry point and the third in the same slot. `faults`: two signals, three types,
three contexts, so that a handler faults inside a handler, with the same signal and
with the other; one handler that repairs data aborts and one that continues after
them. `translator`: three cells for translations of one and two, a
collision in each table, either translator filling the code cache. `decode`: all
opcodes of one and two bytes and some of the others, six sequences of legacy
prefixes, no REX prefix and three (B alone, R alone, W and R), every mod with rm 0, 4
and 5, SIB bytes with and without a base. `insn_cache`: three bytes of which any may
start an instruction, two in one slot, clients that insert a NOP wherever they like,
three lookups and three insertions between resets. `daemon`: two signals, so that a crash
strikes inside a crash and again inside its own signal; five descriptors, room for a
pair and a file of the client, so that every number is used again; a configuration
that names two descriptors for the channels and one that names the log and number 0.

Deadlock is checked for `chain`, `guest_memory`, `insn_cache` and `translator`. The
other systems may stop: a SIGSEGV ends the process in `jit` and `runner`, a signal
in `faults` and `daemon`, in `elf_cache` files run out of versions and loads of free
addresses, and `decode` decodes once.

Fairness. `Faults` has weak fairness of `Handling`: the kernel delivers a signal that an
instruction raised, and a handler with nothing left to do returns. It says nothing of
the program, which may stop calling, and nothing of what a handler does. `Daemon` has
weak fairness of `CrashStep`: the thread in a crash handler keeps running, since nothing
it calls waits. The other components state no liveness: nothing in them waits, and a
client may stop calling at any time.

## 4. Proofs

All theorems hold for every value of the constants that satisfies the modules'
assumptions. Each of these modules also has `TypeCorrect`.

* **`JitCacheProofs`**: `TypeCorrect`, `CodeStaysIntact`, `RegionStaysIntact`,
  `NoRewind`, `GlobalFlagIsTrue`, `JitRefinesTranslationMap`, `RefCountsAreHits`,
  `CountersStayInStep`, under `NoWrap`: no request reaches 2^32 (without it
  `code_cache_alloc` really hands out regions outside the code cache). The inductive
  invariant adds to `CodeIntact` that cells past the offset belong to nobody and that
  live entries sit in their own slots and in no client's region; with that, new code,
  which starts at the offset, cannot lie over old code. `StepsOfTheTable` says what a
  step does to the table (empty it, drop entries, count a hit, insert one), and the two
  theorems on counters follow from it.
* **`BlockChain`**, at the end of `JitCacheProofs`: `ChainTypeCorrect`, `ChainsHold`,
  `LinksAreReciprocal`, `LinksLeadToLiveBlocks`, `JumpsAreFlagged`, of clients that give
  a block one predecessor and free blocks whenever they like. They do not say that no
  link dangles: freeing a chained block leaves its neighbours with one. They say that
  its neighbours, which the block itself names, are all, because every link to it has
  its other half; a client that frees those too has no dangling link left, whatever
  address `malloc` uses again.
* **`ElfCacheProofs`**: `ElfInvHolds`, `LoadedIsLive`, `CachedIsLive`,
  `EntriesAreDistinct`, `CacheRefinesFileHandles`. The invariant adds that no binary has
  two holders, that a cache that is off is empty, and that no image is newer than its
  file: a hit compares stamps, `stat` came before the mapping, and so an equal stamp
  means an equal version.
* **`GuestMemoryProofs`**: `MemInvHolds`, `RegionsStayInside`, `ImageStaysLoaded`,
  `ChosenRegionsTile`, under `NoWrap` (no sum reaches 2^64) and, for the image,
  `SegmentsAscend`: padding reaches later segments only, and those are copied
  after it, in each execution anew.
* **`RunnerProofs`**: `RunnerInvHolds`, `RunningOnlyInside`, `RunsOwnCode`,
  `SuccessIsReal`. That a cache keyed by the address alone never gives a runner
  foreign code rests on a flaw: a hit is refused. The step that would break it is
  the mutant `TranslateHitSized`, the obvious repair of `runner_hit`; whoever
  repairs one has to change the key as well.
* **`FaultsProofs`**: `NoSignalReenters` and `InfoIsWhole`, of programs whose handlers
  do not use the interface themselves (`Raising = {}`). The invariant of the first
  (`Covered`) is about the masks the contexts saved: the signal of each handler is
  blocked now and in the mask of every context entered above it, so that no return
  unblocks it early; a handler that calls `rosetta_signal_unblock` breaks it. That of
  the second (`RaisedOnce`, `InfoParts`) is that at most one exception is being
  handled, right above the program, and that what differs from the last one raised
  until it returns is the address it carries.
* **`TranslatorProofs`**: `TableStaysIntact`, `BlocksStayIntact`,
  `TranslatorRefinesMap`. An entry is good (`Good`) if its code is on the heap or
  below the offset of a mapped code cache in cells that hold it; new code goes above
  the offset. When the cache is unmapped the translation cache is emptied and the
  slots of the block cache that lead into it become `stale`; `BlocksStayIntact` is
  about the others, static buffers apart.
* **`DaemonProofs`**: `LifeCycleHolds`, `NoPairIsLost`, `NothingIsLost`,
  `ChannelsStayOpen`, `ClosesOnlyItsOwn`, `CrashedIsReleased`, for any number of
  descriptors, mappings and signals, and so any depth of crashes inside crashes. The
  invariant has four parts. `StackOK`: every handler on the stack has a signal of its
  own, at a step that handlers have, since a handler's signal is blocked while it runs;
  it bounds the stack by the number of signals. `Owning`: every descriptor of a channel
  is named by the state or held by a frame, and a field of the state names a descriptor
  of the client only if that is in `foreign`; `Sizing` and `Mapping` say the same of a
  mapping. `Shutdown`: which fields are gone at each step of a shutdown. A signal
  between `close` and the store of -1 makes the handler close the number again; nobody
  can have got the number by then, since the interrupted program does not run any more,
  and the next shutdown may begin at the first field because what is below it never
  returns. `Program` (`Starting`, `Started`): how far start-up has come, which matters
  only until the first crash. `NothingIsLost` and `CrashedIsReleased` assume `~Remaps`;
  with a second mapping the first is lost (section 5), and `NoPairIsLost` is the part
  that holds regardless. `CrashedIsReleased` is the safety half of `CrashReleases`.
  Both, and `ClosesOnlyItsOwn`, have the exceptions that the code has: what an
  interrupted call holds, and the descriptors in `foreign`.
* **`DecoderProofs`**, the cache: `CacheTransparent`, `StatsAddUp`, for every decoder
  with `DecodeIsLocal`. Writes are not restricted, and `CacheTransparent` is about the
  entries for which no invalidation is owed: it says that an invalidation of an address
  settles every write to its instruction, and that nothing else makes an entry stale,
  not that the cache is transparent to a program that writes code. Entries survive the
  time the cache is switched off, and so the invariant does not ask whether it is on.
* **`DecoderProofs`**, the decoder. Two theorems are about every sequence of bytes of any
  length. `FastIsGeneral`: a fast path gives what the general path does, up to the
  differences of `reg` and `is_64bit` that `FastForm` states, except for LEA with base r12
  or r13 (`LeaR12R13`) and `0F 80`-`0F 8F`. It rests on
  the opcodes of the fast paths having an entry in `ModRMLookup` where they need one, and
  on the lengths of the two paths being the same sums. `DecodingIsLocal`: sequences that
  agree up to the length of the first are decoded alike. The fast paths look one byte
  behind a REX prefix and an opcode before they know whether it is the instruction's;
  what has to be shown is that the answer can depend on it only for opcodes that own the
  byte. From it follow `NoByteBehind` and `WritesElsewhere`, which discharges the
  assumption that the cache's theorem makes. `FastPathsAlwaysAgree` and
  `LengthsAreRight` are about the instructions that `DecodeCheck` puts together, for any
  set of legacy prefixes in any number, REX prefixes, ModR/M and SIB bytes
  (`DecodeAssumption` only says which bytes those are). The length is compared part by
  part: the prefixes (`PrefixesRight`), the opcode (`OpcodeRight`), whether a ModR/M byte
  follows (`ModRMRight`), the operand (`OperandRight`) and the immediate (`ImmRight`), of
  the general path; the fast paths follow by `FastIsGeneral`. So the families of
  `Mishandled` are all there are in the maps of `DecodeCheck`, and no combination of
  prefixes or operands has an error of its own.

Only model-checked: liveness (`FaultEnds`, `CrashReleases`), which is out of reach of
the prover, and what the violated runs show. Every invariant of a passing run is a
theorem, and every action property and refinement. `GlobalFlagTrue`, `RefsAreHits`,
`CountersAgree` and `JumpFlagged` are proved and need no run.

## 5. Flaws met without a run of their own

The models have each of these; the steps are named. A claim of a comment, document
or test that fails is stated in the module named, and is found violated when it is
added to the configuration of that module.

* **Write protection.** `translate_block` makes the page of a block read-only for
  writing and the next block starts in the same page (`rosetta_jit.c:654`): a SIGSEGV
  on the second translation, although ARCHITECTURE.md:221-223 continues execution.
  `TranslationSurvives` of `JitCache`. The result of `mprotect` is ignored too:
  `MarkExecutable` with `ok = FALSE`, then `JitExecute`.
* **Truncation.** A block that does not fit is cut off, cached and returned
  (`rosetta_jit.c:651`): `CachedCodeWhole` of `JitCache`.
* **Rewinding.** `code_cache_reset` keeps the translation cache
  (`rosetta_jit.c:489`): `CodeOwned` under `OpenSpec` of `JitCache`. `jit_cleanup` on
  the global context leaves `g_jit_initialized` set (`:779`): `GlobalFlagTrue` there.
* **Chains.** With two predecessors, unchaining a block leaves one leading to it
  (`rosetta_jit.c:353`, against rosetta_jit.h:220): `UnchainForgets` under `ChainOpenSpec`
  of `BlockChain`. `translation_free_block` frees a block that is chained, as the tests
  have it, and leaves its neighbours with a link to freed memory (`:312`).
* **ELF cache.** Two clients of one file share a binary without a reference count
  (`rosetta_elf_loader.c:282`): `HeldLive` under `SharedSpec` of `ElfCache`. A cached
  binary unloaded while the cache is off is freed and listed (`:572`); cleanup and
  eviction leak (`:54`, `:135`); an outdated entry hides the new one (`:279`).
* **Guest memory.** After an allocation at a given address the manager chooses
  addresses inside it (`rosetta_memmgr.c:172`): `ChosenIsFree` of `GuestMemory`. 0 is
  an address and the error code (`:203`).
* **Widths.** `code_cache_alloc` adds in 32 bits (`rosetta_jit.c:408`),
  `rosetta_memmgr_alloc` in 64 (`rosetta_memmgr.c:183`): give `AllocSizes` or `Sizes`
  a value near `Word` and `RegionIntact` or `RegionsInside` fails.
* **Runner.** `rosetta_execute` executes one block (`rosetta_execute_fixed.c:812`);
  `rosetta_runner_stop` resets a flag that nothing reads (`rosetta_runner.c:611`);
  placing code in the heap makes other objects read-only
  (`rosetta_execute_fixed.c:252`): `RunBlock`, `Stop`, `HeapFault`.
* **Exceptions.** An exception raised by a handler gets the address and flags of the
  outer one (`rosetta_refactored_exception.c:251`): `InfoWhole` with a handler in
  `Raising`. A trap that nobody handles, and any fault whose handler returns 0 without
  having removed the cause, executes the same instruction again for ever:
  `FaultEnds` without `Spinning`. Installing the signal
  handlers drops what was registered (`rosetta_refactored_signal.c:183`):
  `InstallSignals`.
* **Block cache.** It may hold the static buffer, against the comment "permanent
  storage" (`rosetta_refactored_block.c:447`, `:459`): `FastCodeIntact` of
  `Translator`. `rosetta_block_translate` asks the translation cache and fills the
  block cache, so that it translates a block on every call. The code cache of
  `rosetta_trans_cache.c` is mapped without execute permission and called into.
  `rosetta_cleanup` unmaps the code cache and leaves the block cache as it is
  (`rosetta_refactored_init.c:85`), which then leads into unmapped memory: `stale`, and
  `FastCodeIntact` again.
* **Decoder.** `Mishandled` of `DecodeCheck` lists the families: operations of AL and
  EAX with an immediate take a ModR/M byte too many (`AlImmediateLength`, against
  test_decoder_robustness.c:143-151); LEA with base r12 or r13 (`LeaLength`); 6B, 63,
  D8-DF and FE lack the byte; the immediates of 80, A0-A3, A8, C6, C7, C8, F6 and F7;
  immediates of 16 bits; SIB without base; B0-B7 with REX.W; a near conditional jump
  behind a prefix; several opcodes of two bytes; VEX maps 2 and 3. The segment prefixes
  2E, 36, 3E and 26 are no prefixes to it. Its fast paths set `is_64bit` from REX.W
  (`rosetta_x86_decode.c:562`) where the general path sets 1 (`:850`), PUSH and POP set
  `reg` (`:686`) where the general path does not, and INC and DEC lose REX.R.
* **Instruction cache.** Nothing invalidates it when guest code changes, and
  `insn_cache_invalidate` takes a start address: who writes a byte has to call it for
  every address an instruction that holds the byte may start at.
* **Daemon.** The crash handler spins although its comment says "Clean up and exit"
  (`rosettad_refactored.c:1170`): `FinishShutdown` at depth 2 goes to `"spin"`. A zeroed
  state names descriptor 0 and a copied configuration the client's descriptors: a
  shutdown before the first initialisation, or a crash between the copy (`:498`) and the
  defaults, closes them; `foreign` in `ClosesItsOwn` is this exception. The configuration
  is otherwise without effect, since the defaults overwrite it. A signal between the
  stores of address and size (`:829`, `:830`) leaves the mapping, since a size of 0 is
  not unmapped (`:847`), and one between `socketpair` and its stores leaves the pair:
  the exceptions of `Released`. A second `setup_process_memory` loses the first mapping:
  `NothingLost` with `Remaps = TRUE`. The signal handlers stay after a shutdown;
  `init_ipc_channels` or `rosettad_entry` while the daemon runs loses a pair; both ends
  of the pair stay in the daemon, so a receive waits for ever.

## 6. Not modelled

* Translators and emitters are functions between two instruction sets: whether the
  emitted code means the same is out of reach of models of this kind. Their sizes,
  failures and drops are in `JitCache`, `Translator` and `Runner`.
* System calls are passed to the host; the Mach-O loader and the parsing of ELF
  files read a file into a structure and keep nothing.
* The decompiler output (`rosetta_decomp.c`, `rosettad_decomp.c`) is more than half
  of all lines. It is generated, not built, and has the same functions under
  addresses for names. `rosetta_refactored_complete.c` and the files of helpers
  for vectors, floating point and cryptography are arithmetic on registers. This is
  why the mapped share of the repository is small: the state the program keeps is in
  a few thousand lines.
* `rosetta_transcache.c` and `rosetta_refactored_codecache.c` are called by nothing.
  The padding of an aligned allocation of the latter is not taken from its free count
  (`:160`); the former replaces entries that are in use (`:139`).
* Messages of the daemon, its watchdog and address translation; guest mapping
  (`rosetta_memmgmt.c`), which remembers one address; procfs, a table of handles.
* A composition of `Runner` with `GuestMemory` and `ElfCache`: each abstracts the
  others to what it needs (the progress of a mapping, an image that stays), and
  procfs and this composition are what would be worth adding next.
