------------------------------- MODULE Faults -------------------------------
(***************************************************************************)
(* Exceptions of rosetta_refactored_exception.c and the host signals that   *)
(* rosetta_refactored_signal.c turns into them.  The process has one thread *)
(* and its contexts form a stack: the program at the bottom, and above it   *)
(* the exception handlers that run, each called by rosetta_raise_exception  *)
(* ("raise") or from a signal handler ("signal").  Any context may execute  *)
(* an instruction that raises a signal, and executes it again when the      *)
(* signal handler returns.                                                  *)
(***************************************************************************)
EXTENDS Naturals, Sequences

CONSTANTS
  Signals,      \* host signals, a subset of DOMAIN SignalType
  Types,        \* exception types
  Handlers,     \* exception handlers of the program
  Answer,       \* what each handler does of each type: removes the cause ("repair"),
                \* returns a negative result ("refuse"), or neither ("continue")
  Raising,      \* handlers that call this interface themselves
  HandlerFaults,\* signals that handlers run into
  Addrs,        \* fault addresses
  None,         \* NULL, 0
  MaxDepth      \* bound: contexts on the stack

VARIABLES
  ready,        \* g_exception_initialized
  table,        \* g_exception_handlers
  faultHandler, \* g_fault_handler
  current,      \* g_current_exception
  pending,      \* g_exception_pending
  disposition,  \* what sigaction last set for each signal
  mask,         \* blocked signals
  stack,        \* contexts, the running one last
  alive,        \* the process exists
  last          \* history: the last exception raised

tables == <<ready, table, faultHandler>>
infos == <<current, pending, last>>
vars == <<tables, infos, disposition, mask, stack, alive>>

(* rosetta_signal_to_exception *)
SignalType == [SIGTRAP |-> "TRAP", SIGILL |-> "UNDEFINED", SIGSEGV |-> "DAT_ABORT",
               SIGBUS |-> "DAT_ABORT", SIGFPE |-> "FP"]

Continued == {"TRAP", "BREAKPOINT", "SYS"}            \* result 0 without a handler
MemoryFaults == {"DAT_ABORT", "PRE_ABORT", "ALIGNMENT"}

(* What a signal does: end the process (SIG_DFL, and SIG_IGN too where an   *)
(* instruction raises it), call rosetta_handle_signal (rosetta_handle_fault *)
(* and rosetta_signal_handler_fault add messages only), or call a handler   *)
(* that the program wrote.                                                  *)
Dispositions == {"default", "rosetta", "own"}

(* An exception handler is passed NULL for the interrupted context: it can  *)
(* change memory and mappings, but no register, so that the only causes it  *)
(* can remove are those of memory faults.                                   *)
ASSUME FaultsAssumption ==
  /\ Signals \subseteq DOMAIN SignalType
  /\ {SignalType[s] : s \in Signals} \union {"DAT_ABORT"} \subseteq Types
  /\ Answer \in [Handlers -> [Types -> {"repair", "refuse", "continue"}]]
  /\ \A h \in Handlers, t \in Types : Answer[h][t] = "repair" => t \in MemoryFaults
  /\ "own" \notin Handlers \union {None}
  /\ None \notin Signals \union Types \union Handlers \union Addrs
  /\ HandlerFaults \subseteq Signals
  /\ MaxDepth \in Nat

(* A zeroed ros_exception_info_t. *)
NoInfo == [type |-> None, addr |-> None, fatal |-> FALSE]

(* kind, handler and type say what runs, handler "own" a signal handler of  *)
(* the program; sig and saved are what a signal handler was entered with;   *)
(* cause is the signal the next instruction raises; spent bounds a handler  *)
(* to one fault and one exception of its own; refused is a signal handler   *)
(* that has called raise().                                                 *)
Context(kind, h, t, a, s) ==
  [kind |-> kind, handler |-> h, type |-> t, addr |-> a, sig |-> s,
   saved |-> mask, cause |-> None, spent |-> FALSE, refused |-> FALSE]

Init ==
  /\ ready = FALSE
  /\ table = [t \in Types |-> None]
  /\ faultHandler = None
  /\ current = NoInfo
  /\ pending = FALSE
  /\ last = NoInfo
  /\ disposition = [s \in Signals |-> "default"]
  /\ mask = {}
  /\ stack = <<[kind |-> "guest", handler |-> None, type |-> None, addr |-> None,
                sig |-> None, saved |-> {}, cause |-> None, spent |-> FALSE,
                refused |-> FALSE]>>
  /\ alive = TRUE

Depth == Len(stack)
Top == stack[Depth]
Below == SubSeq(stack, 1, Depth - 1)

(* The running context can go on: it is not stuck at a faulting instruction *)
(* and not on its way out.                                                  *)
Running == alive /\ Top.cause = None /\ ~Top.refused
MayCall == Running /\ (Depth = 1 \/ Top.handler \in Raising)

-----------------------------------------------------------------------------
(* Initialisation and registration.                                         *)

ResetTables(on) ==
  /\ ready' = on
  /\ table' = [t \in Types |-> None]
  /\ faultHandler' = None
  /\ current' = NoInfo
  /\ pending' = FALSE

ExceptionInit ==
  /\ MayCall
  /\ ResetTables(TRUE)
  /\ UNCHANGED <<disposition, mask, stack, alive, last>>

ExceptionCleanup ==
  /\ MayCall /\ ready
  /\ ResetTables(FALSE)
  /\ UNCHANGED <<disposition, mask, stack, alive, last>>

(* Without an earlier initialisation the call initialises first.            *)
RegisterHandler(t, h) ==
  /\ MayCall
  /\ IF ready
     THEN /\ table' = [table EXCEPT ![t] = h]
          /\ UNCHANGED <<ready, faultHandler, current, pending>>
     ELSE /\ ready' = TRUE
          /\ table' = [x \in Types |-> IF x = t THEN h ELSE None]
          /\ faultHandler' = None /\ current' = NoInfo /\ pending' = FALSE
  /\ UNCHANGED <<disposition, mask, stack, alive, last>>

UnregisterHandler(t) ==
  /\ MayCall
  /\ table' = [table EXCEPT ![t] = None]
  /\ UNCHANGED <<ready, faultHandler, infos, disposition, mask, stack, alive>>

SetFaultHandler(h) ==
  /\ MayCall
  /\ faultHandler' = h
  /\ IF ready
     THEN UNCHANGED <<ready, table, current, pending>>
     ELSE /\ ready' = TRUE
          /\ table' = [t \in Types |-> None] /\ current' = NoInfo /\ pending' = FALSE
  /\ UNCHANGED <<disposition, mask, stack, alive, last>>

ClearException ==
  /\ MayCall
  /\ current' = NoInfo /\ pending' = FALSE
  /\ UNCHANGED <<tables, disposition, mask, stack, alive, last>>

(* rosetta_init_signal_handlers: the tables start anew, and a sigaction     *)
(* that fails leaves the disposition it would have replaced.                *)
InstallSignals(failed) ==
  /\ MayCall
  /\ ResetTables(TRUE)
  /\ disposition' = [s \in Signals |-> IF s \in failed THEN disposition[s] ELSE "rosetta"]
  /\ UNCHANGED <<mask, stack, alive, last>>

(* rosetta_install_signal_handler and rosetta_install_siginfo_handler. *)
InstallHandler(s, d) ==
  /\ MayCall
  /\ disposition' = [disposition EXCEPT ![s] = d]
  /\ UNCHANGED <<tables, infos, mask, stack, alive>>

CleanupSignals ==
  /\ MayCall
  /\ disposition' = [s \in Signals |-> "default"]
  /\ IF ready THEN ResetTables(FALSE) ELSE UNCHANGED <<tables, current, pending>>
  /\ UNCHANGED <<mask, stack, alive, last>>

BlockSignal(s) ==
  /\ MayCall
  /\ mask' = mask \union {s}
  /\ UNCHANGED <<tables, infos, disposition, stack, alive>>

UnblockSignal(s) ==
  /\ MayCall
  /\ mask' = mask \ {s}
  /\ UNCHANGED <<tables, infos, disposition, stack, alive>>

SetMask(blocked) ==
  /\ MayCall
  /\ mask' = blocked
  /\ UNCHANGED <<tables, infos, disposition, stack, alive>>

-----------------------------------------------------------------------------
(* rosetta_raise_exception, and rosetta_raise_data_abort where an address   *)
(* is given: the address is stored when the handler has returned.           *)

Caller == [stack EXCEPT ![Depth].spent = Depth > 1]
MayRaise == MayCall /\ (Depth = 1 \/ ~Top.spent)

(* The handler that is asked: the registered one, else, for a memory fault, *)
(* the fault handler.                                                       *)
HandlerOf(t) ==
  IF table[t] = None /\ t \in MemoryFaults THEN faultHandler ELSE table[t]

(* Mutant: the record is not zeroed first, and keeps an old address. *)
RaiseUnhandledDirty(t, a) ==
  /\ MayRaise /\ HandlerOf(t) = None
  /\ current' = [type |-> t, addr |-> IF a = None THEN current.addr ELSE a,
                 fatal |-> t \notin Continued]
  /\ pending' = TRUE
  /\ last' = [type |-> t, addr |-> a, fatal |-> t \notin Continued]
  /\ stack' = Caller
  /\ UNCHANGED <<tables, disposition, mask, alive>>

RaiseUnhandled(t, a) ==
  /\ MayRaise /\ HandlerOf(t) = None
  /\ current' = [type |-> t, addr |-> a, fatal |-> t \notin Continued]
  /\ pending' = TRUE
  /\ last' = current'
  /\ stack' = Caller
  /\ UNCHANGED <<tables, disposition, mask, alive>>

RaiseHandled(t, a) ==
  /\ MayRaise /\ HandlerOf(t) # None /\ Depth < MaxDepth
  /\ current' = [type |-> t, addr |-> None, fatal |-> FALSE]
  /\ pending' = TRUE
  /\ last' = [type |-> t, addr |-> a, fatal |-> FALSE]
  /\ stack' = Append(Caller, Context("raise", HandlerOf(t), t, a, None))
  /\ UNCHANGED <<tables, disposition, mask, alive>>

Raise(t, a) == RaiseUnhandled(t, a) \/ RaiseHandled(t, a)

(* The flags the handler left in its copy of the record go to the current   *)
(* exception, whichever that is by now; then the address does.              *)
RaiseReturn ==
  /\ Running /\ Top.kind = "raise"
  /\ \E fatal \in BOOLEAN :
       /\ current' = [current EXCEPT !.fatal = fatal,
                                     !.addr = IF Top.addr = None THEN @ ELSE Top.addr]
       /\ last' = [last EXCEPT !.fatal = fatal]
  /\ stack' = Below
  /\ UNCHANGED <<tables, pending, disposition, mask, alive>>

-----------------------------------------------------------------------------
(* Signals.                                                                 *)

(* An instruction of the program, or once of each handler, raises a signal. *)
Fault(s) ==
  /\ Running /\ Depth < MaxDepth
  /\ IF Depth = 1 THEN TRUE ELSE ~Top.spent /\ s \in HandlerFaults
  /\ stack' = [stack EXCEPT ![Depth].cause = s, ![Depth].spent = Depth > 1]
  /\ UNCHANGED <<tables, infos, disposition, mask, alive>>

Die ==
  /\ alive' = FALSE
  /\ UNCHANGED <<tables, infos, disposition, mask, stack>>

(* A signal that is blocked or has its default disposition ends the         *)
(* process. *)
SignalKills ==
  /\ alive /\ Top.cause # None
  /\ Top.cause \in mask \/ disposition[Top.cause] = "default"
  /\ Die

(* The handler that is called, directly or by rosetta_handle_exception. *)
EntryOf(s) == IF disposition[s] = "own" THEN "own" ELSE table[SignalType[s]]

(* Mutant: SA_NODEFER, the signal stays deliverable in its handler. *)
SignalEnterOpen ==
  LET s == Top.cause IN
  /\ alive /\ s # None /\ s \notin mask /\ disposition[s] # "default"
  /\ stack' = Append(stack, Context("signal", EntryOf(s), SignalType[s], None, s))
  /\ UNCHANGED <<tables, infos, disposition, mask, alive>>

(* Mutant: the context does not say which exception it handles. *)
SignalEnterUntyped ==
  LET s == Top.cause IN
  /\ alive /\ s # None /\ s \notin mask /\ disposition[s] # "default"
  /\ stack' = Append(stack, Context("signal", None, None, None, s))
  /\ mask' = mask \union {s}
  /\ UNCHANGED <<tables, infos, disposition, alive>>

(* Otherwise the signal handler runs, with the signal itself blocked; no    *)
(* exception becomes pending and the fault handler is not asked.            *)
SignalEnter ==
  LET s == Top.cause IN
  /\ alive /\ s # None /\ s \notin mask /\ disposition[s] # "default"
  /\ stack' = Append(stack, Context("signal", EntryOf(s), SignalType[s], None, s))
  /\ mask' = mask \union {s}
  /\ UNCHANGED <<tables, infos, disposition, alive>>

(* What handler h does about an exception of type t: "refuse" is a negative *)
(* result of rosetta_handle_exception.  A signal handler of the program is  *)
(* given the context and may repair anything, or nothing.                   *)
Verdicts(h, t) ==
  IF h = "own" THEN {"repair", "continue"}
  ELSE IF h # None THEN {Answer[h][t]}
  ELSE IF t \in Continued THEN {"continue"} ELSE {"refuse"}

(* The handler returns to the instruction that raised the signal: it        *)
(* succeeds now, or raises the signal again.                                *)
Resume ==
  /\ Running /\ Top.kind = "signal"
  /\ \E verdict \in Verdicts(Top.handler, Top.type) \ {"refuse"} :
       stack' = [Below EXCEPT ![Depth - 1].cause = IF verdict = "repair" THEN None ELSE @]
  /\ mask' = Top.saved
  /\ UNCHANGED <<tables, infos, disposition, alive>>

(* Mutant: the signal is raised again without its default disposition. *)
RefuseArmed ==
  /\ Running /\ Top.kind = "signal" /\ "refuse" \in Verdicts(Top.handler, Top.type)
  /\ stack' = [stack EXCEPT ![Depth].refused = TRUE]
  /\ UNCHANGED <<tables, infos, disposition, mask, alive>>

(* signal(sig, SIG_DFL) and raise(sig): the signal waits for the handler to *)
(* return, unless the handler of the program unblocked it.                  *)
Refuse ==
  /\ Running /\ Top.kind = "signal" /\ "refuse" \in Verdicts(Top.handler, Top.type)
  /\ disposition' = [disposition EXCEPT ![Top.sig] = "default"]
  /\ stack' = [stack EXCEPT ![Depth].refused = TRUE]
  /\ alive' = (Top.sig \in mask)
  /\ UNCHANGED <<tables, infos, mask>>

(* The mask is restored and the raised signal delivered: to the process, or *)
(* to the handler again if it is still there.                               *)
SignalReturn ==
  /\ alive /\ Top.refused
  /\ mask' = Top.saved
  /\ stack' = Below
  /\ alive' = (disposition[Top.sig] # "default")
  /\ UNCHANGED <<tables, infos, disposition>>

Handling ==
  RaiseReturn \/ SignalKills \/ SignalEnter \/ Resume \/ Refuse \/ SignalReturn

Next ==
  \/ ExceptionInit \/ ExceptionCleanup \/ ClearException \/ CleanupSignals
  \/ \E t \in Types :
       \/ UnregisterHandler(t)
       \/ \E h \in Handlers : RegisterHandler(t, h)
       \/ \E a \in IF t = "DAT_ABORT" THEN Addrs \union {None} ELSE {None} : Raise(t, a)
  \/ \E h \in Handlers \union {None} : SetFaultHandler(h)
  \/ \E failed \in SUBSET Signals : InstallSignals(failed)
  \/ \E s \in Signals :
       \/ BlockSignal(s) \/ UnblockSignal(s) \/ Fault(s)
       \/ \E d \in Dispositions : InstallHandler(s, d)
  \/ \E blocked \in SUBSET Signals : SetMask(blocked)
  \/ Handling

(* The kernel runs the process: a signal is delivered, and a handler that   *)
(* has nothing left to do returns.                                          *)
Spec == Init /\ [][Next]_vars /\ WF_vars(Handling)

-----------------------------------------------------------------------------
Info == [type : Types \union {None}, addr : Addrs \union {None}, fatal : BOOLEAN]

Contexts ==
  [kind : {"guest", "raise", "signal"}, handler : Handlers \union {None, "own"},
   type : Types \union {None}, addr : Addrs \union {None},
   sig : Signals \union {None}, saved : SUBSET Signals,
   cause : Signals \union {None}, spent : BOOLEAN, refused : BOOLEAN]

(* The program is at the bottom of the stack and nowhere else. *)
TypeOK ==
  /\ ready \in BOOLEAN /\ pending \in BOOLEAN /\ alive \in BOOLEAN
  /\ table \in [Types -> Handlers \union {None}]
  /\ faultHandler \in Handlers \union {None}
  /\ current \in Info /\ last \in Info
  /\ disposition \in [Signals -> Dispositions] /\ mask \subseteq Signals
  /\ stack \in Seq(Contexts) /\ Depth > 0
  /\ \A i \in 1..Depth :
       /\ stack[i].kind = "guest" <=> i = 1
       /\ stack[i].kind = "signal" => stack[i].sig # None /\ stack[i].type # None
       /\ stack[i].refused => stack[i].kind = "signal"

Raised(i) == stack[i].kind = "raise"
NothingRaised == \A i \in 1..Depth : ~Raised(i)

(* When no exception is being handled, what rosetta_exception_get_info      *)
(* returns is one exception, the last one raised: its type, its flags and   *)
(* its address, of which the last two are stored after a handler ran.       *)
InfoWhole == pending /\ NothingRaised => current = last

(* A signal is not delivered to its own handler while that runs, although   *)
(* the handler may execute the same faulting instruction: it would be       *)
(* entered without end.                                                     *)
NoReentry ==
  \A i, j \in 1..Depth :
    stack[i].kind = "signal" /\ stack[j].kind = "signal" /\ i # j =>
      stack[i].sig # stack[j].sig

(* The handler of s returns to the instruction that raised it, and is       *)
(* entered again, for as long as nobody else removes the cause.             *)
ComesBack(s) == "continue" \in Verdicts(EntryOf(s), SignalType[s])

Spinning == \E i \in 1..Depth : stack[i].cause # None /\ ComesBack(stack[i].cause)

(* A fault of the program ends: the handler removes its cause, or the       *)
(* process dies, whichever handlers and dispositions are set, also where    *)
(* the handler faults itself.  The only endless repetition is that of a     *)
(* handler, of this fault or of one on top of it, that neither removes the  *)
(* cause nor refuses, as that of test_exception_handling.c does of a data   *)
(* abort.                                                                   *)
FaultEnds ==
  \A s \in Signals :
    stack[1].cause = s ~> stack[1].cause # s \/ ~alive \/ Spinning
=============================================================================
