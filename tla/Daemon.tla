------------------------------- MODULE Daemon -------------------------------
(***************************************************************************)
(* Life cycle of the daemon (rosettad_refactored.c): start, run, shutdown   *)
(* and the crash handler that SIGSEGV, SIGILL, SIGBUS and SIGABRT enter.    *)
(* The process has one thread.  A signal may arrive between any two system  *)
(* calls or stores, and between those of a crash handler that runs: the     *)
(* handlers are installed with an empty sa_mask, so that only a handler's   *)
(* own signal is blocked.  They stay installed when the daemon shuts down.  *)
(* A crash handler shuts the daemon down, whatever it interrupted, and      *)
(* never returns.                                                           *)
(***************************************************************************)
EXTENDS Naturals, Sequences

CONSTANTS
  Fds,         \* descriptor numbers of the process
  Stdin,       \* number 0, the value of a zeroed field
  Configs,     \* configurations that clients pass to rosettad_init
  Stderr,      \* STDERR_FILENO
  Maps,        \* mappings that mmap can return
  Signals,     \* signals of do_setup_signal_handlers
  Remaps,      \* clients set up the memory of a process twice
  None         \* -1, NULL

VARIABLES
  initialized, \* g_daemon_initialized
  fd,          \* config.cmd_fd, config.status_fd, config.log_fd
  base,        \* memory_base
  sized,       \* memory_size > 0
  argument,    \* the configuration that rosettad_init copies
  foreign,     \* history: descriptors named by a zeroed configuration, or by one of
               \* a client, that the defaults have not replaced
  handling,    \* signals that have the daemon's handlers
  owner,       \* who holds each descriptor of the process
  mapped,      \* mappings made for the guest
  stack,       \* what the thread does: the program, then crash handlers
  alive        \* the process exists

config == <<fd, argument, foreign>>
memory == <<base, sized>>
state == <<initialized, config, memory>>
kernel == <<handling, owner, mapped>>
vars == <<state, kernel, stack, alive>>

FieldNames == {"cmd", "status", "log"}
Fields == <<"cmd", "status", "log">>          \* in the order of the shutdown
DefaultOrder == <<"log", "cmd", "status">>    \* in the order of the defaults
Owners == {"free", "client", "log", "pair"}

ASSUME DaemonAssumption ==
  /\ {Stdin, Stderr} \subseteq Fds /\ Stdin # Stderr
  /\ None \notin Fds \union Maps \union Signals /\ Fds \intersect Maps = {}
  /\ Configs \subseteq [FieldNames -> Fds \union {None}]
  /\ Remaps \in BOOLEAN

(* at is the next step; field counts the fields it has dealt with; got      *)
(* holds what a system call returned until it is stored.                    *)
Frame(s, a) == [sig |-> s, at |-> a, field |-> 1, got |-> <<>>]

Zeroed == [f \in FieldNames |-> Stdin]
NoConfig == [f \in FieldNames |-> None]

Init ==
  /\ initialized = FALSE
  /\ fd = Zeroed
  /\ base = None /\ sized = FALSE
  /\ argument = NoConfig
  /\ foreign = {Stdin}
  /\ handling = {}
  /\ owner = [d \in Fds |-> IF d \in {Stdin, Stderr} THEN "client" ELSE "free"]
  /\ mapped = {}
  /\ stack = <<Frame(None, "idle")>>
  /\ alive = TRUE

Depth == Len(stack)
Top == stack[Depth]
At(a) == alive /\ Top.at = a
Go(a) == stack' = [stack EXCEPT ![Depth].at = a]

-----------------------------------------------------------------------------
(* rosettad_init: the configuration of the client is copied (without one it *)
(* is zeroed), then replaced by the defaults, and then the subsystems start *)
(* one after the other.                                                     *)

Descriptors(c) == {c[f] : f \in FieldNames} \ {None}

(* Mutant: the check for a running daemon is forgotten. *)
StartInitAgain(c) ==
  /\ At("idle")
  /\ argument' = c
  /\ foreign' = foreign \union Descriptors(c)
  /\ Go("copy")
  /\ UNCHANGED <<initialized, fd, memory, kernel, alive>>

StartInit(c) ==
  /\ At("idle") /\ ~initialized
  /\ argument' = c
  /\ foreign' = foreign \union Descriptors(c)
  /\ Go("copy")
  /\ UNCHANGED <<initialized, fd, memory, kernel, alive>>

(* A descriptor for the log that the daemon forgets is the client's again.  *)
HandBack(f) ==
  owner' = [d \in Fds |-> IF f = "log" /\ owner[d] = "log" THEN "client" ELSE owner[d]]

(* memcpy or memset, in any order. *)
CopyField(f) ==
  /\ At("copy") /\ fd[f] # argument[f]
  /\ fd' = [fd EXCEPT ![f] = argument[f]]
  /\ HandBack(f)
  /\ UNCHANGED <<initialized, argument, foreign, memory, handling, mapped, stack, alive>>

Copied ==
  /\ At("copy") /\ fd = argument
  /\ argument' = NoConfig
  /\ Go("defaults")
  /\ UNCHANGED <<initialized, fd, foreign, memory, kernel, alive>>

NextDefault ==
  LET last == Top.field = Len(DefaultOrder) IN
  /\ stack' = [stack EXCEPT ![Depth].at = IF last THEN "signals" ELSE "defaults",
                            ![Depth].field = IF last THEN 1 ELSE Top.field + 1]
  /\ foreign' = IF last THEN {} ELSE foreign

(* Mutant: the descriptors keep the value of the configuration. *)
SetDefaultNot ==
  /\ At("defaults")
  /\ NextDefault
  /\ UNCHANGED <<initialized, fd, argument, memory, kernel, alive>>

(* init_daemon_state *)
SetDefault ==
  /\ At("defaults")
  /\ fd' = [fd EXCEPT ![DefaultOrder[Top.field]] = None]
  /\ HandBack(DefaultOrder[Top.field])
  /\ NextDefault
  /\ UNCHANGED <<initialized, argument, memory, handling, mapped, alive>>

(* One sigaction after the other; the order is left open. *)
SetupSignal(s) ==
  /\ At("signals") /\ s \notin handling
  /\ handling' = handling \union {s}
  /\ UNCHANGED <<state, owner, mapped, stack, alive>>

SignalsSetUp ==
  /\ At("signals") /\ handling = Signals
  /\ Go("logging")
  /\ UNCHANGED <<state, kernel, alive>>

StartLogging ==
  /\ At("logging")
  /\ fd' = [fd EXCEPT !["log"] = Stderr]
  /\ Go("channels")
  /\ UNCHANGED <<initialized, argument, foreign, memory, kernel, alive>>

(* socketpair: when it fails the daemon goes on without channels.           *)
CreateChannels ==
  /\ At("channels")
  /\ \/ \E c, s \in {d \in Fds : owner[d] = "free"} :
          /\ c # s
          /\ owner' = [owner EXCEPT ![c] = "pair", ![s] = "pair"]
          /\ stack' = [stack EXCEPT ![Depth].at = "storecmd", ![Depth].got = <<c, s>>]
     \/ Go("initialized") /\ UNCHANGED owner
  /\ UNCHANGED <<state, handling, mapped, alive>>

StoreCommand ==
  /\ At("storecmd")
  /\ fd' = [fd EXCEPT !["cmd"] = Top.got[1]]
  /\ stack' = [stack EXCEPT ![Depth].at = "storestatus", ![Depth].got = <<Top.got[2]>>]
  /\ UNCHANGED <<initialized, argument, foreign, memory, kernel, alive>>

StoreStatus ==
  /\ At("storestatus")
  /\ fd' = [fd EXCEPT !["status"] = Top.got[1]]
  /\ stack' = [stack EXCEPT ![Depth].at = "initialized", ![Depth].got = <<>>]
  /\ UNCHANGED <<initialized, argument, foreign, memory, kernel, alive>>

FinishInit ==
  /\ At("initialized")
  /\ initialized' = TRUE
  /\ Go("idle")
  /\ UNCHANGED <<config, memory, kernel, alive>>

-----------------------------------------------------------------------------
(* Calls of the program.                                                    *)

(* rosettad_run: the loop finds no thread state and only yields.            *)
Supervise ==
  /\ At("idle") /\ initialized
  /\ Go("supervise")
  /\ UNCHANGED <<state, kernel, alive>>

(* init_logging, before the daemon starts too, with -1, the standard error  *)
(* output, or a descriptor that the client hands over.                      *)
HandOverLog(d) ==
  /\ At("idle")
  /\ d \in {None, Stderr} \union {x \in Fds : owner[x] = "client"}
  /\ fd' = [fd EXCEPT !["log"] = d]
  /\ owner' = [x \in Fds |-> IF x = d /\ d # Stderr THEN "log"
                             ELSE IF owner[x] = "log" THEN "client" ELSE owner[x]]
  /\ UNCHANGED <<initialized, argument, foreign, memory, handling, mapped, stack, alive>>

(* setup_process_memory, before the daemon starts too: mmap, and then the   *)
(* address and the size are stored.                                         *)
MapMemory(m) ==
  /\ At("idle") /\ m \notin mapped
  /\ Remaps \/ base = None
  /\ mapped' = mapped \union {m}
  /\ stack' = [stack EXCEPT ![Depth].at = "memory", ![Depth].got = <<m>>]
  /\ UNCHANGED <<state, handling, owner, alive>>

StoreBase ==
  /\ At("memory")
  /\ base' = Top.got[1]
  /\ Go("storesize")
  /\ UNCHANGED <<initialized, config, sized, kernel, alive>>

StoreSize ==
  /\ At("storesize")
  /\ sized' = TRUE
  /\ stack' = [stack EXCEPT ![Depth].at = "idle", ![Depth].got = <<>>]
  /\ UNCHANGED <<initialized, config, base, kernel, alive>>

ClientOpen(d) ==
  /\ At("idle") /\ owner[d] = "free"
  /\ owner' = [owner EXCEPT ![d] = "client"]
  /\ UNCHANGED <<state, handling, mapped, stack, alive>>

ClientClose(d) ==
  /\ At("idle") /\ owner[d] = "client" /\ d # Stderr
  /\ owner' = [owner EXCEPT ![d] = "free"]
  /\ UNCHANGED <<state, handling, mapped, stack, alive>>

-----------------------------------------------------------------------------
(* rosettad_shutdown, by the program or by a crash handler.                 *)

(* The program may shut down twice, and before it started.                  *)
StartShutdown ==
  /\ At("idle")
  /\ Go("close")
  /\ UNCHANGED <<state, kernel, alive>>

Field == Fields[Top.field]

(* close_logging leaves the standard error output alone.                    *)
MustClose == fd[Field] # None /\ ~(Field = "log" /\ fd[Field] = Stderr)

(* Mutant: one field too many. *)
NextFieldPast ==
  stack' = [stack EXCEPT ![Depth].at = IF Top.field > Len(Fields) THEN "unmap" ELSE "close",
                         ![Depth].field = Top.field + 1]

NextField ==
  stack' = [stack EXCEPT ![Depth].at = IF Top.field = Len(Fields) THEN "unmap" ELSE "close",
                         ![Depth].field = IF Top.field = Len(Fields) THEN 1 ELSE Top.field + 1]

Close ==
  /\ At("close")
  /\ IF MustClose
     THEN /\ owner' = [owner EXCEPT ![fd[Field]] = "free"]
          /\ Go("forget")
     ELSE UNCHANGED owner /\ NextField
  /\ UNCHANGED <<state, handling, mapped, alive>>

(* Mutant: the closed descriptor stays in the configuration. *)
ForgetNot ==
  /\ At("forget")
  /\ NextField
  /\ UNCHANGED <<state, kernel, alive>>

Forget ==
  /\ At("forget")
  /\ fd' = [fd EXCEPT ![Field] = None]
  /\ NextField
  /\ UNCHANGED <<initialized, argument, foreign, memory, kernel, alive>>

(* A mapping without a size is left alone. *)
Unmap ==
  /\ At("unmap")
  /\ IF base # None /\ sized
     THEN mapped' = mapped \ {base} /\ Go("dropbase")
     ELSE Go("finish") /\ UNCHANGED mapped
  /\ UNCHANGED <<state, handling, owner, alive>>

(* Mutant: memory_base keeps the unmapped address. *)
DropBaseKeep ==
  /\ At("dropbase")
  /\ Go("dropsize")
  /\ UNCHANGED <<state, kernel, alive>>

DropBase ==
  /\ At("dropbase")
  /\ base' = None
  /\ Go("dropsize")
  /\ UNCHANGED <<initialized, config, sized, kernel, alive>>

DropSize ==
  /\ At("dropsize")
  /\ sized' = FALSE
  /\ Go("finish")
  /\ UNCHANGED <<initialized, config, base, kernel, alive>>

(* The program goes on; a crash handler spins in "for (;;)".                *)
FinishShutdown ==
  /\ At("finish")
  /\ initialized' = FALSE
  /\ Go(IF Depth = 1 THEN "idle" ELSE "spin")
  /\ UNCHANGED <<config, memory, kernel, alive>>

ShutdownStep == Close \/ Forget \/ Unmap \/ DropBase \/ DropSize \/ FinishShutdown

-----------------------------------------------------------------------------
(* Signals.                                                                 *)

Blocked == {stack[i].sig : i \in 2..Depth}

Crash(s) ==
  /\ alive /\ s \in handling /\ s \notin Blocked
  /\ stack' = Append(stack, Frame(s, "report"))
  /\ UNCHANGED <<state, kernel, alive>>

(* No handler yet, or a crash handler that runs into its own signal.        *)
Killed(s) ==
  /\ alive /\ (s \notin handling \/ s \in Blocked)
  /\ alive' = FALSE
  /\ UNCHANGED <<state, kernel, stack>>

Report ==
  /\ At("report")
  /\ Go("close")
  /\ UNCHANGED <<state, kernel, alive>>

CrashStep == Depth > 1 /\ (Report \/ ShutdownStep)

Next ==
  \/ \E c \in Configs \union {Zeroed} : StartInit(c)
  \/ \E f \in FieldNames : CopyField(f)
  \/ Copied \/ SetDefault \/ SignalsSetUp \/ StartLogging
  \/ CreateChannels \/ StoreCommand \/ StoreStatus \/ FinishInit
  \/ Supervise \/ StoreBase \/ StoreSize \/ StartShutdown
  \/ \E d \in Fds \union {None} : HandOverLog(d)
  \/ \E d \in Fds : ClientOpen(d) \/ ClientClose(d)
  \/ \E m \in Maps : MapMemory(m)
  \/ Depth = 1 /\ ShutdownStep
  \/ \E s \in Signals : SetupSignal(s) \/ Crash(s) \/ Killed(s)
  \/ CrashStep

(* The thread in a crash handler keeps running: nothing it calls blocks.    *)
Spec == Init /\ [][Next]_vars /\ WF_vars(CrashStep)

-----------------------------------------------------------------------------
Steps == {"idle", "copy", "defaults", "signals", "logging", "channels", "storecmd",
          "storestatus", "initialized", "supervise", "memory", "storesize", "report",
          "close", "forget", "unmap", "dropbase", "dropsize", "finish", "spin"}

(* The program is at the bottom; every crash handler above it was entered   *)
(* by a signal of its own.                                                  *)
TypeOK ==
  /\ initialized \in BOOLEAN /\ sized \in BOOLEAN /\ alive \in BOOLEAN
  /\ fd \in [FieldNames -> Fds \union {None}]
  /\ argument \in [FieldNames -> Fds \union {None}] /\ foreign \subseteq Fds
  /\ base \in Maps \union {None} /\ mapped \subseteq Maps
  /\ handling \subseteq Signals
  /\ owner \in [Fds -> Owners]
  /\ stack \in Seq([sig : Signals \union {None}, at : Steps, field : 1..Len(Fields),
                    got : Seq(Fds \union Maps)])
  /\ Depth > 0
  /\ \A i, j \in 1..Depth : i < j => stack[j].sig # None /\ stack[i].sig # stack[j].sig

(* A descriptor or a mapping the daemon made is known to it as long as it   *)
(* exists: the state names it, or a call that has it is not over.  What is  *)
(* neither can never be released, whichever way the daemon ends.            *)
InHand(x) == \E i \in 1..Depth : \E k \in 1..Len(stack[i].got) : stack[i].got[k] = x

NothingLost ==
  /\ \A d \in Fds : owner[d] = "pair" => d \in {fd["cmd"], fd["status"]} \/ InHand(d)
  /\ \A m \in mapped : m = base \/ InHand(m)

(* A program whose daemon runs sends to and receives from two ends of one   *)
(* pair, or is refused; it logs to a descriptor it handed over, to the      *)
(* standard error output, or not at all.                                    *)
ChannelsOpen ==
  initialized /\ Depth = 1 /\ Top.at \in {"idle", "supervise"} =>
    /\ \/ fd["cmd"] = None /\ fd["status"] = None
       \/ /\ fd["cmd"] # fd["status"]
          /\ \A f \in {"cmd", "status"} : fd[f] \in Fds /\ owner[fd[f]] = "pair"
    /\ \/ fd["log"] \in {None, Stderr}
       \/ fd["log"] \in Fds /\ owner[fd["log"]] = "log"

(* The daemon closes no descriptor of the client, although numbers are used *)
(* again and shutdown runs twice, and again in a crash of a shutdown: with  *)
(* the exception of those that the configuration names before the defaults  *)
(* have replaced it.  A crash that interrupts rosettad_init there closes    *)
(* what the client's configuration names, or number 0 if it passed none,    *)
(* and so does a shutdown before the first start with number 0.             *)
ClosesItsOwn ==
  [][\A d \in Fds :
       owner[d] = "client" /\ owner'[d] # "client" => Top.at = "idle" \/ d \in foreign]_vars

(* A crash, wherever it strikes, ends with everything released but what the *)
(* interrupted call had just got and not yet stored, or the process is      *)
(* killed.  A mapping whose size is not stored counts as not yet stored:    *)
(* the handler leaves it alone, as it leaves a descriptor in no field.      *)
Released ==
  /\ Top.at = "spin" /\ ~initialized
  /\ base # None => InHand(base)
  /\ fd["cmd"] = None /\ fd["status"] = None /\ fd["log"] \in {None, Stderr}
  /\ \A d \in Fds : owner[d] \in {"pair", "log"} => InHand(d)
  /\ \A m \in mapped : InHand(m)

CrashReleases == Depth > 1 ~> Released \/ ~alive
=============================================================================
