------------------------------- MODULE Runner -------------------------------
(***************************************************************************)
(* Runners of one process, rosetta_runner.c, and the execution engine they *)
(* share, rosetta_execute_fixed.c with the translation cache of             *)
(* rosetta_execute_stubs.c.  One thread makes the calls; a client of the     *)
(* interface may call rosetta_runner_stop while rosetta_runner_execute is   *)
(* under way, which nothing in the repository does.  A run of rosetta_execute is one    *)
(* block: rosetta_execute_block returns 0 or -1 and the loop leaves on both.*)
(***************************************************************************)
EXTENDS Naturals, Integers

CONSTANTS
  Runners,    \* addresses of rosetta_runner_t
  Binaries,   \* x86_64 binaries
  Entry,      \* the entry point of each binary
  Slot,       \* hash_pc of each entry point
  None,       \* NULL
  Blank       \* content of a fresh guest memory

PCs == {Entry[b] : b \in Binaries}
Slots == {Slot[p] : p \in PCs}

ASSUME RunnerAssumption ==
  /\ Slot \in [PCs -> Slots]
  /\ None \notin Runners \union Binaries /\ Blank # None /\ Blank \notin Binaries

VARIABLES
  runner,   \* each runner: None or its fields
  cache,    \* g_translation_cache: None or the entry of each slot
  call,     \* None or the rosetta_runner_execute under way
  sealed,   \* a page of the heap was made read-only for code in it
  fault     \* None or what memory the process died on

vars == <<runner, cache, call, sealed, fault>>

Code == [of : Binaries, pc : PCs]   \* what a block was translated from

Fresh == [binary |-> None, memory |-> None, state |-> FALSE, running |-> FALSE]

Init ==
  /\ runner = [r \in Runners |-> None]
  /\ cache = [s \in Slots |-> None]
  /\ call = None
  /\ sealed = FALSE
  /\ fault = None

Idle == call = None /\ fault = None
At(step) == call # None /\ call.step = step /\ fault = None

-----------------------------------------------------------------------------
(* Calls between executions.                                                *)

Create(r) ==
  /\ Idle /\ runner[r] = None
  /\ runner' = [runner EXCEPT ![r] = Fresh]
  /\ UNCHANGED <<cache, call, sealed, fault>>

(* The translations of the runner's binary stay in the cache. *)
Destroy(r) ==
  /\ Idle /\ runner[r] # None
  /\ runner' = [runner EXCEPT ![r] = None]
  /\ UNCHANGED <<cache, call, sealed, fault>>

(* A file that is no x86_64 binary replaces the one loaded before by NULL;  *)
(* one that cannot be loaded at all leaves it.                              *)
LoadBinary(r, b) ==
  /\ Idle /\ runner[r] # None
  /\ runner' = [runner EXCEPT ![r].binary = b]
  /\ UNCHANGED <<cache, call, sealed, fault>>

(* A new memory, then a new thread state; either allocation may fail.       *)
Prepare(r) ==
  /\ Idle /\ runner[r] # None /\ runner[r].binary # None
  /\ \/ runner' = [runner EXCEPT ![r].memory = None]
     \/ \E ok \in BOOLEAN :
          runner' = [runner EXCEPT ![r].memory = Blank, ![r].state = ok]
  /\ UNCHANGED <<cache, call, sealed, fault>>

-----------------------------------------------------------------------------
(* rosetta_runner_execute.                                                  *)

(* Mutant: the memory manager is not checked. *)
ExecuteUnchecked(r) ==
  /\ Idle /\ runner[r] # None /\ runner[r].binary # None /\ runner[r].state
  /\ runner' = [runner EXCEPT ![r].running = TRUE]
  /\ call' = [runner |-> r, step |-> "map", code |-> None, ran |-> FALSE, result |-> 0]
  /\ UNCHANGED <<cache, sealed, fault>>

(* Without a memory manager the call returns before anything happened, with *)
(* is_running set and reset.                                                *)
Execute(r) ==
  /\ Idle /\ runner[r] # None /\ runner[r].binary # None /\ runner[r].state
  /\ runner[r].memory # None
  /\ runner' = [runner EXCEPT ![r].running = TRUE]
  /\ call' = [runner |-> r, step |-> "map", code |-> None, ran |-> FALSE, result |-> 0]
  /\ UNCHANGED <<cache, sealed, fault>>

(* Every error path before the execution loop. *)
Fail ==
  /\ runner' = [runner EXCEPT ![call.runner].running = FALSE]
  /\ call' = None

(* Mutant: a segment that cannot be mapped ends the call at once. *)
MapSegmentsBare ==
  /\ At("map")
  /\ \/ /\ runner' = [runner EXCEPT ![call.runner].memory = runner[call.runner].binary]
        /\ call' = [call EXCEPT !.step = "stack"]
     \/ call' = None /\ UNCHANGED runner
  /\ UNCHANGED <<cache, sealed, fault>>

(* The segments go over what an earlier execution left.  When one of them   *)
(* cannot be mapped those before it stay.                                   *)
MapSegments ==
  /\ At("map")
  /\ \/ /\ runner' = [runner EXCEPT ![call.runner].memory = runner[call.runner].binary]
        /\ call' = [call EXCEPT !.step = "stack"]
     \/ Fail
     \/ /\ runner' = [runner EXCEPT ![call.runner].running = FALSE,
                                    ![call.runner].memory = runner[call.runner].binary]
        /\ call' = None
  /\ UNCHANGED <<cache, sealed, fault>>

(* The stack, then the execution context, and rosetta_execute sets it up.   *)
SetUp ==
  /\ \/ At("stack") /\ call' = [call EXCEPT !.step = "context"] /\ UNCHANGED runner
     \/ At("context") /\ call' = [call EXCEPT !.step = "block"] /\ UNCHANGED runner
     \/ (At("stack") \/ At("context")) /\ Fail
  /\ UNCHANGED <<cache, sealed, fault>>

EntryPC == Entry[runner[call.runner].binary]

(* refactored_translation_cache_lookup *)
Cached(pc) == cache[Slot[pc]] # None /\ cache[Slot[pc]].pc = pc

(* Mutant: a hit comes with the size of its code. *)
TranslateHitSized ==
  /\ At("block") /\ Cached(EntryPC) /\ cache[Slot[EntryPC]].size > 0
  /\ call' = [call EXCEPT !.step = "run", !.code = cache[Slot[EntryPC]].code]
  /\ UNCHANGED <<runner, cache, sealed, fault>>

(* Mutant: a block without code counts as one that executed nothing. *)
TranslateHitEmpty ==
  /\ At("block") /\ Cached(EntryPC)
  /\ call' = [call EXCEPT !.step = "return", !.result = 0]
  /\ UNCHANGED <<runner, cache, sealed, fault>>

(* A hit is returned with size 0, which rosetta_execute_block refuses.      *)
TranslateHit ==
  /\ At("block") /\ Cached(EntryPC)
  /\ call' = [call EXCEPT !.step = "return", !.result = -1]
  /\ UNCHANGED <<runner, cache, sealed, fault>>

(* refactored_translation_cache_insert; sizes are 0 or more. *)
Insert(pc, code, size) ==
  cache' = [cache EXCEPT ![Slot[pc]] = [pc |-> pc, code |-> code, size |-> size]]

(* A miss translates what the runner's memory holds.  The code goes to the  *)
(* heap, whose page loses its write permission, and into the cache.  A      *)
(* block that emitted nothing is cached too, and refused.  Code that cannot *)
(* be run is run all the same: the cached one when mprotect failed, and,    *)
(* without memory for it, the static buffer it was generated in; unless     *)
(* there is no memory for the context either.                               *)
TranslateMiss ==
  /\ At("block") /\ ~Cached(EntryPC)
  /\ LET code   == [of |-> runner[call.runner].memory, pc |-> EntryPC]
         run    == call' = [call EXCEPT !.step = "run", !.code = code]
         refuse == call' = [call EXCEPT !.step = "return", !.result = -1]
         keep   == Insert(EntryPC, code, 1) \/ UNCHANGED cache
     IN  \/ run /\ Insert(EntryPC, code, 1) /\ sealed' = TRUE /\ UNCHANGED fault
         \/ run /\ keep /\ fault' = "code" /\ UNCHANGED sealed
         \/ refuse /\ Insert(EntryPC, code, 0) /\ UNCHANGED <<sealed, fault>>
         \/ refuse /\ keep /\ UNCHANGED <<sealed, fault>>
  /\ UNCHANGED runner

(* The context for the code may not fit; otherwise the block is executed.   *)
RunBlock ==
  /\ At("run")
  /\ \/ call' = [call EXCEPT !.step = "return", !.result = -1]
     \/ call' = [call EXCEPT !.step = "return", !.ran = TRUE]
  /\ UNCHANGED <<runner, cache, sealed, fault>>

Return ==
  /\ At("return")
  /\ Fail
  /\ UNCHANGED <<cache, sealed, fault>>

(* rosetta_runner_stop, while the runner executes: the context that the     *)
(* loop of rosetta_execute looks at is not reached.                         *)
Stop(r) ==
  /\ call # None /\ fault = None
  /\ runner[r] # None /\ runner[r].running
  /\ runner' = [runner EXCEPT ![r].running = FALSE]
  /\ UNCHANGED <<cache, call, sealed, fault>>

(* Any use of the heap may touch the page that holds translated code.       *)
HeapFault ==
  /\ fault = None /\ sealed
  /\ fault' = "heap"
  /\ UNCHANGED <<runner, cache, call, sealed>>

Next ==
  \/ \E r \in Runners :
       \/ Create(r) \/ Destroy(r) \/ Prepare(r) \/ Execute(r) \/ Stop(r)
       \/ \E b \in Binaries \union {None} : LoadBinary(r, b)
  \/ MapSegments \/ SetUp \/ TranslateHit \/ TranslateMiss \/ RunBlock \/ Return
  \/ HeapFault

Spec == Init /\ [][Next]_vars

-----------------------------------------------------------------------------
RunnerState ==
  [binary : Binaries \union {None}, memory : Binaries \union {None, Blank},
   state : BOOLEAN, running : BOOLEAN]

Call ==
  [runner : Runners, step : {"map", "stack", "context", "block", "run", "return"},
   code : Code \union {None}, ran : BOOLEAN, result : {0, -1}]

(* NULL is no record. *)
ASSUME NullAssumption == None \notin RunnerState \union Call

CacheEntry == [pc : PCs, code : Code, size : {0, 1}]

(* A runner under execution has all it needs. *)
TypeOK ==
  /\ runner \in [Runners -> RunnerState \union {None}]
  /\ cache \in [Slots -> CacheEntry \union {None}]
  /\ call \in Call \union {None}
  /\ call # None =>
       LET s == runner[call.runner]
       IN  s # None /\ s.binary # None /\ s.memory # None /\ s.state
  /\ sealed \in BOOLEAN
  /\ fault \in {None, "heap", "code"}

(* A runner that says it is running is inside rosetta_runner_execute: each  *)
(* of its many ways out, and a stop that comes at any moment, leaves        *)
(* is_running at 0.                                                         *)
RunningInside ==
  \A r \in Runners :
    runner[r] # None /\ runner[r].running => call # None /\ call.runner = r

(* The cache is keyed by the guest address alone and outlives the runners,  *)
(* and yet a runner only runs code that was translated from what its own    *)
(* memory holds now, at its own entry point.                                *)
OwnCode ==
  call # None /\ call.code # None =>
    call.code = [of |-> runner[call.runner].memory, pc |-> EntryPC]

(* Success is reported exactly when a block was executed. *)
SuccessMeansRan ==
  At("return") => (call.result = 0 <=> call.ran)

-----------------------------------------------------------------------------
(* Claims of comments and tests that the code does not keep.                *)

(* A block that is found in the cache, and has code, is run.                *)
HitsRun ==
  [][TranslateHit /\ cache[Slot[EntryPC]].size > 0 => call'.result = 0]_vars
=============================================================================
