---------------------------- MODULE DaemonProofs ----------------------------
(***************************************************************************)
(* Proofs about the daemon's life cycle, for any number of descriptors,     *)
(* mappings and signals: whatever a signal interrupts, and whatever         *)
(* interrupts its handler, no descriptor of the client is closed but one    *)
(* that a configuration named and no default has replaced yet; nothing the  *)
(* daemon made is forgotten; and a handler that is through has released     *)
(* everything but what an interrupted call had not stored yet.              *)
(***************************************************************************)
EXTENDS Daemon, SequenceTheorems, TLAPS

HandlerSteps == {"report", "close", "forget", "unmap", "dropbase", "dropsize", "finish", "spin"}
HoldingSteps == {"storecmd", "storestatus", "memory", "storesize"}
Frames == [sig : Signals \union {None}, at : Steps, field : 1..3, got : Seq(Fds \union Maps)]

-----------------------------------------------------------------------------
(* The inductive invariant, part by part.                                   *)

Typed ==
  /\ initialized \in BOOLEAN /\ sized \in BOOLEAN /\ alive \in BOOLEAN
  /\ fd \in [FieldNames -> Fds \union {None}]
  /\ argument \in [FieldNames -> Fds \union {None}] /\ foreign \subseteq Fds
  /\ base \in Maps \union {None} /\ mapped \subseteq Maps
  /\ handling \subseteq Signals
  /\ owner \in [Fds -> Owners]

(* What a frame holds belongs to the step it is at. *)
FrameOK(fr) ==
  /\ fr \in Frames
  /\ fr.at = "storecmd" => \E c, s \in Fds : c # s /\ fr.got = <<c, s>>
  /\ fr.at = "storestatus" => \E s \in Fds : fr.got = <<s>>
  /\ fr.at \in {"memory", "storesize"} => \E m \in Maps : fr.got = <<m>>
  /\ fr.at \notin HoldingSteps => fr.got = <<>>
  /\ fr.at \notin {"close", "forget", "defaults"} => fr.field = 1

(* Frames below the top never move again: only their signals and what they  *)
(* hold matter.                                                             *)
StackOK ==
  /\ stack \in Seq(Frames) /\ Depth > 0
  /\ stack[1].sig = None
  /\ \A i, j \in 1..Depth : i < j => stack[j].sig # None /\ stack[i].sig # stack[j].sig
  /\ \A i \in 1..Depth : FrameOK(stack[i])
  /\ \A i \in 1..Depth : i > 1 => stack[i].at \in HandlerSteps

(* A shutdown has no more to do about the field.                            *)
Gone(f) == fd[f] = None \/ (f = "log" /\ fd[f] = Stderr)

(* A field names a descriptor of the client only if its configuration does. *)
Owning ==
  /\ owner[Stderr] \in {"client", "free"}
  /\ \A f \in FieldNames : argument[f] = None \/ argument[f] \in foreign
  /\ \A f \in FieldNames : Gone(f) \/ fd[f] \in foreign \/ owner[fd[f]] # "client"
  /\ \A d \in Fds : owner[d] = "log" => fd["log"] = d
  /\ \A d \in Fds : owner[d] = "pair" => d \in {fd["cmd"], fd["status"]} \/ InHand(d)

(* An address whose size is not stored yet is still in hand. *)
Sizing == base # None /\ ~sized => InHand(base)

(* It holds of a client that sets up memory once. *)
Mapping == \A m \in mapped : m = base \/ InHand(m)

Channels ==
  \/ fd["cmd"] = None /\ fd["status"] = None
  \/ /\ fd["cmd"] # fd["status"]
     /\ \A f \in {"cmd", "status"} : fd[f] \in Fds /\ owner[fd[f]] = "pair"
Log == fd["log"] \in {None, Stderr} \/ (fd["log"] \in Fds /\ owner[fd["log"]] = "log")

(* The program before the first crash, step by step: while it starts, ... *)
Starting ==
  /\ Top.at # "copy" => argument = NoConfig
  /\ Top.at = "copy" => \A f \in {"cmd", "status"} : fd[f] = None \/ fd[f] \in foreign
  /\ Top.at = "defaults" =>
       /\ \A f \in FieldNames : fd[f] = None \/ fd[f] \in foreign
       /\ \A k \in 1..3 : k < Top.field => fd[DefaultOrder[k]] = None
  /\ Top.at \in {"copy", "defaults", "signals", "logging", "channels"} =>
       \A d \in Fds : owner[d] # "pair"
  /\ Top.at \in {"signals", "logging", "channels", "storecmd"} =>
       fd["cmd"] = None /\ fd["status"] = None
  /\ Top.at \in {"signals", "logging"} => fd["log"] = None
  /\ Top.at \in {"channels", "storecmd", "storestatus"} => fd["log"] = Stderr
  /\ Top.at = "storecmd" => owner[Top.got[1]] = "pair" /\ owner[Top.got[2]] = "pair"
  /\ Top.at = "storestatus" =>
       /\ fd["cmd"] \in Fds /\ owner[fd["cmd"]] = "pair" /\ fd["status"] = None
       /\ owner[Top.got[1]] = "pair" /\ Top.got[1] # fd["cmd"]
  /\ Top.at = "initialized" => Channels /\ Log

(* ... and before and after that. *)
Started ==
  /\ owner[Stderr] = "client"
  /\ Top.at \notin {"copy", "defaults"} => fd["cmd"] # Stderr /\ fd["status"] # Stderr
  /\ Top.at \in {"idle", "supervise", "memory", "storesize"} /\ initialized => Channels /\ Log
  /\ Top.at = "supervise" => initialized
  /\ Top.at = "storesize" => base = Top.got[1]
  /\ Top.at \in {"idle", "memory", "storesize"} /\ ~initialized =>
       /\ \A d \in Fds : owner[d] # "pair"
       /\ \A f \in {"cmd", "status"} : fd[f] = None \/ fd[f] \in foreign
       /\ Log \/ fd["log"] \in foreign

Program == Starting /\ Started

MemoryOnce == Top.at = "memory" => base = None

(* A shutdown, of the program or of a crash handler, step by step. *)
Shutdown ==
  /\ Top.at \in {"close", "forget"} => \A k \in 1..3 : k < Top.field => Gone(Fields[k])
  /\ Top.at = "forget" => fd[Field] \in Fds /\ owner[fd[Field]] = "free"
  /\ Top.at \in {"unmap", "dropbase", "dropsize", "finish", "spin"} =>
       \A f \in FieldNames : Gone(f)
  /\ Top.at = "dropbase" => base \notin mapped
  /\ Top.at = "dropsize" => base = None
  /\ Top.at \in {"finish", "spin"} => (base # None => InHand(base))
  /\ Top.at = "spin" => ~initialized

IInv ==
  /\ Typed /\ StackOK /\ Owning /\ Sizing /\ Shutdown
  /\ Depth = 1 => Program
  /\ ~Remaps => Mapping /\ MemoryOnce

-----------------------------------------------------------------------------
(* The stack.                                                               *)

(* A step replaces the top frame; what it drops is no longer in hand.       *)
LEMMA TopReplaced ==
  ASSUME StackOK, NEW fr, FrameOK(fr), fr.sig = Top.sig,
         Depth = 1 \/ fr.at \in HandlerSteps,
         stack' = [stack EXCEPT ![Depth] = fr]
  PROVE  /\ StackOK' /\ Depth' = Depth /\ Top' = fr
         /\ \A x : InHand(x) => InHand(x)' \/ \E k \in 1..Len(Top.got) : Top.got[k] = x
         /\ \A x : (\E k \in 1..Len(fr.got) : fr.got[k] = x) => InHand(x)'
<1>1. stack \in Seq(Frames) /\ Depth \in Nat /\ Depth > 0 /\ Depth = Len(stack) /\ fr \in Frames
  BY DEF StackOK, Depth, FrameOK
<1>2. stack' \in Seq(Frames) /\ Len(stack') = Depth
  BY <1>1
<1>3. Depth' = Depth
  BY <1>2 DEF Depth
<1>4. stack'[Depth] = fr /\ \A i \in 1..Depth : i # Depth => stack'[i] = stack[i]
  BY <1>1
<1>5. Top' = fr
  BY <1>3, <1>4 DEF Top
<1>6. \A i \in 1..Depth : stack'[i].sig = stack[i].sig
  BY <1>4 DEF Top
<1>7. StackOK'
  <2>1. stack'[1].sig = None
    BY <1>1, <1>6 DEF StackOK
  <2>2. \A i, j \in 1..Depth : i < j => stack'[j].sig # None /\ stack'[i].sig # stack'[j].sig
    BY <1>6 DEF StackOK
  <2>3. \A i \in 1..Depth : FrameOK(stack'[i])
    BY <1>4 DEF StackOK
  <2>4. \A i \in 1..Depth : i > 1 => stack'[i].at \in HandlerSteps
    BY <1>1, <1>4 DEF StackOK
  <2>5. \A i : FrameOK(stack[i])' <=> FrameOK(stack'[i])
    BY DEF FrameOK
  <2> QED BY <1>1, <1>2, <1>3, <2>1, <2>2, <2>3, <2>4, <2>5 DEF StackOK
<1>8. \A x : (\E k \in 1..Len(fr.got) : fr.got[k] = x) => InHand(x)'
  BY <1>1, <1>3, <1>4 DEF InHand
<1>9. ASSUME NEW x, InHand(x), \A k \in 1..Len(Top.got) : Top.got[k] # x
      PROVE  InHand(x)'
  <2>1. PICK i \in 1..Depth : \E k \in 1..Len(stack[i].got) : stack[i].got[k] = x
    BY <1>9 DEF InHand
  <2>2. i # Depth
    BY <1>9, <2>1 DEF Top
  <2> QED BY <1>3, <1>4, <2>1, <2>2 DEF InHand
<1> QED BY <1>3, <1>5, <1>7, <1>8, <1>9

(* Only the step and the field of the top frame change. *)
LEMMA TopMoved ==
  ASSUME StackOK, NEW a \in Steps, NEW n \in 1..3,
         a \notin {"close", "forget", "defaults"} => n = 1,
         {a, Top.at} \intersect HoldingSteps = {},
         Depth = 1 \/ a \in HandlerSteps,
         stack' = [stack EXCEPT ![Depth].at = a, ![Depth].field = n]
  PROVE  /\ StackOK' /\ Depth' = Depth
         /\ Top'.at = a /\ Top'.field = n
         /\ \A x : InHand(x) => InHand(x)'
<1> DEFINE fr == [Top EXCEPT !.at = a, !.field = n]
<1>1. Depth \in 1..Depth /\ stack \in Seq(Frames) /\ Depth = Len(stack)
  BY DEF StackOK, Depth
<1>2. FrameOK(Top) /\ Top \in Frames
  BY <1>1 DEF StackOK, Top, FrameOK
<1>3. fr \in Frames /\ fr.at = a /\ fr.field = n /\ fr.got = Top.got /\ fr.sig = Top.sig
  BY <1>2 DEF Frames
<1>4. FrameOK(fr)
  BY <1>2, <1>3 DEF FrameOK, HoldingSteps
<1>5. stack' = [stack EXCEPT ![Depth] = fr]
  BY <1>1 DEF Top
<1>6. /\ StackOK' /\ Depth' = Depth /\ Top' = fr
      /\ \A x : InHand(x) => InHand(x)' \/ \E k \in 1..Len(Top.got) : Top.got[k] = x
  BY <1>3, <1>4, <1>5, TopReplaced
<1>7. Top.got = <<>>
  BY <1>2 DEF FrameOK, HoldingSteps
<1> QED BY <1>3, <1>6, <1>7

LEMMA GoTo ==
  ASSUME StackOK, NEW a \in Steps, Go(a),
         a \in {"close", "forget", "defaults"} \/ Top.at \notin {"close", "forget", "defaults"},
         {a, Top.at} \intersect HoldingSteps = {},
         Depth = 1 \/ a \in HandlerSteps
  PROVE  /\ StackOK' /\ Depth' = Depth
         /\ Top'.at = a /\ Top'.field = Top.field
         /\ \A x : InHand(x) => InHand(x)'
<1>1. Depth \in 1..Depth /\ stack \in Seq(Frames) /\ Depth = Len(stack)
  BY DEF StackOK, Depth
<1>2. FrameOK(Top) /\ Top \in Frames
  BY <1>1 DEF StackOK, Top, FrameOK
<1> DEFINE fr == [Top EXCEPT !.at = a]
<1>3. fr \in Frames /\ fr.at = a /\ fr.field = Top.field /\ fr.got = Top.got /\ fr.sig = Top.sig
  BY <1>2 DEF Frames
<1>4. FrameOK(fr)
  BY <1>2, <1>3 DEF FrameOK, HoldingSteps
<1>5. stack' = [stack EXCEPT ![Depth] = fr]
  BY <1>1 DEF Top, Go
<1>6. /\ StackOK' /\ Depth' = Depth /\ Top' = fr
      /\ \A x : InHand(x) => InHand(x)' \/ \E k \in 1..Len(Top.got) : Top.got[k] = x
  BY <1>3, <1>4, <1>5, TopReplaced
<1>7. Top.got = <<>>
  BY <1>2 DEF FrameOK, HoldingSteps
<1> QED BY <1>3, <1>6, <1>7

(* A signal puts a frame of its own on top. *)
LEMMA CrashPushes ==
  ASSUME StackOK, NEW s \in Signals, Crash(s)
  PROVE  /\ StackOK' /\ Depth' = Depth + 1 /\ Depth' > 1
         /\ Top'.at = "report" /\ Top'.field = 1
         /\ \A x : InHand(x) => InHand(x)'
<1> DEFINE fr == Frame(s, "report")
<1>1. stack \in Seq(Frames) /\ Depth \in Nat /\ Depth > 0 /\ Depth = Len(stack)
  BY DEF StackOK, Depth
<1>2. fr \in Frames /\ FrameOK(fr) /\ fr.sig = s /\ fr.at = "report" /\ fr.field = 1
  BY DEF Frame, Frames, FrameOK, Steps, HoldingSteps
<1>3. /\ stack' \in Seq(Frames) /\ Len(stack') = Depth + 1
      /\ stack'[Depth + 1] = fr /\ \A i \in 1..Depth : stack'[i] = stack[i]
  BY <1>1, <1>2 DEF Crash
<1>4. Depth' = Depth + 1 /\ Top' = fr
  BY <1>3 DEF Depth, Top
<1>5. s # None /\ \A i \in 1..Depth : stack[i].sig # s
  BY <1>1, DaemonAssumption DEF DaemonAssumption, Crash, Blocked, StackOK
<1>6. StackOK'
  <2>1. stack'[1].sig = None
    BY <1>1, <1>3 DEF StackOK
  <2>2. \A i, j \in 1..Depth + 1 :
          i < j => stack'[j].sig # None /\ stack'[i].sig # stack'[j].sig
    <3> SUFFICES ASSUME NEW i \in 1..Depth + 1, NEW j \in 1..Depth + 1, i < j
                 PROVE  stack'[j].sig # None /\ stack'[i].sig # stack'[j].sig
      OBVIOUS
    <3>1. CASE j = Depth + 1
      BY <1>1, <1>2, <1>3, <1>5, <3>1
    <3>2. CASE j \in 1..Depth
      BY <1>1, <1>3, <3>2 DEF StackOK
    <3> QED BY <1>1, <3>1, <3>2
  <2>3. \A i \in 1..Depth + 1 : FrameOK(stack'[i])
    BY <1>1, <1>2, <1>3 DEF StackOK
  <2>4. \A i \in 1..Depth + 1 : i > 1 => stack'[i].at \in HandlerSteps
    BY <1>1, <1>2, <1>3 DEF StackOK, HandlerSteps
  <2>5. \A i : FrameOK(stack[i])' <=> FrameOK(stack'[i])
    BY DEF FrameOK
  <2> QED BY <1>1, <1>3, <1>4, <2>1, <2>2, <2>3, <2>4, <2>5 DEF StackOK
<1>7. \A x : InHand(x) => InHand(x)'
  BY <1>1, <1>3, <1>4 DEF InHand
<1> QED BY <1>1, <1>2, <1>4, <1>6, <1>7

(* Only the program is at the steps that no handler has. *)
LEMMA ProgramAlone ==
  ASSUME StackOK
  PROVE  /\ Top.at \notin HandlerSteps => Depth = 1
         /\ FrameOK(Top) /\ Top \in Frames /\ Depth \in Nat \ {0}
<1>1. Depth \in 1..Depth /\ Depth \in Nat \ {0}
  BY DEF StackOK, Depth
<1>2. FrameOK(Top) /\ (Depth > 1 => Top.at \in HandlerSteps)
  BY <1>1 DEF StackOK, Top
<1> QED BY <1>1, <1>2 DEF FrameOK

-----------------------------------------------------------------------------
(* The start of the daemon.                                                 *)

(* Steps of the program that leave the stack alone. *)
LEMMA StackUnchanged ==
  ASSUME StackOK, UNCHANGED stack
  PROVE  /\ StackOK' /\ Depth' = Depth /\ Top' = Top
         /\ \A x : InHand(x) <=> InHand(x)'
BY DEF StackOK, Depth, Top, InHand, FrameOK

LEMMA DefaultsOrdered ==
  /\ DefaultOrder[1] = "log" /\ DefaultOrder[2] = "cmd" /\ DefaultOrder[3] = "status"
  /\ Len(DefaultOrder) = 3
  /\ \A k \in 1..3 : DefaultOrder[k] \in FieldNames
BY DEF DefaultOrder, FieldNames

LEMMA StartInitInv ==
  ASSUME IInv, NEW c \in Configs \union {Zeroed}, StartInit(c)
  PROVE  IInv'
<1> USE DaemonAssumption DEF DaemonAssumption, IInv, StartInit, At, memory, kernel
<1>1. Depth = 1 /\ Top.at = "idle" /\ Program
  BY ProgramAlone DEF HandlerSteps
<1>2. /\ StackOK' /\ Depth' = 1 /\ Top'.at = "copy"
      /\ \A x : InHand(x) => InHand(x)'
  BY <1>1, GoTo DEF Steps, HoldingSteps
<1>3. c \in [FieldNames -> Fds \union {None}]
  BY DEF Zeroed
<1>4. /\ foreign \subseteq foreign' /\ foreign' \subseteq Fds
      /\ \A f \in FieldNames : argument'[f] = None \/ argument'[f] \in foreign'
  BY <1>3 DEF Typed, Descriptors
<1>5. Typed'
  BY <1>3, <1>4 DEF Typed
<1>6. Owning' /\ Sizing'
  BY <1>2, <1>4 DEF Owning, Sizing, Gone
<1>7. Program'
  BY <1>1, <1>2, <1>4 DEF Program, Starting, Started
<1>8. Shutdown'
  BY <1>2 DEF Shutdown
<1>9. ~Remaps => Mapping' /\ MemoryOnce'
  BY <1>2 DEF Mapping, MemoryOnce
<1> QED BY <1>2, <1>5, <1>6, <1>7, <1>8, <1>9

(* A descriptor of the log goes back to the client as its field changes.    *)
LEMMA HandedBack ==
  ASSUME Typed, Owning, NEW f \in FieldNames, HandBack(f)
  PROVE  /\ owner' \in [Fds -> Owners]
         /\ \A d \in Fds : owner[d] # "log" => owner'[d] = owner[d]
         /\ \A d \in Fds : owner'[d] = "pair" <=> owner[d] = "pair"
         /\ \A d \in Fds : owner'[d] = "log" => owner[d] = "log" /\ f # "log"
BY DEF Typed, HandBack, Owners

LEMMA CopyFieldInv ==
  ASSUME IInv, NEW f \in FieldNames, CopyField(f)
  PROVE  IInv'
<1> USE DaemonAssumption DEF DaemonAssumption, IInv, CopyField, At, memory
<1>1. Depth = 1 /\ Top.at = "copy" /\ Program
  BY ProgramAlone DEF HandlerSteps
<1>2. /\ StackOK' /\ Depth' = 1 /\ Top' = Top
      /\ \A x : InHand(x) <=> InHand(x)'
  BY <1>1, StackUnchanged
<1>3. /\ owner' \in [Fds -> Owners]
      /\ \A d \in Fds : owner[d] # "log" => owner'[d] = owner[d]
      /\ \A d \in Fds : owner'[d] = "pair" <=> owner[d] = "pair"
      /\ \A d \in Fds : owner'[d] = "log" => owner[d] = "log" /\ f # "log"
  BY HandedBack
<1>4. \A g \in FieldNames : fd'[g] = IF g = f THEN argument[f] ELSE fd[g]
  BY DEF Typed
<1>5. argument[f] = None \/ argument[f] \in foreign
  BY DEF Owning
<1>6. Typed'
  BY <1>3, <1>4 DEF Typed
<1>7. Owning'
  <2>1. \A g \in FieldNames : Gone(g)' \/ fd'[g] \in foreign' \/ owner'[fd'[g]] # "client"
    <3> SUFFICES ASSUME NEW g \in FieldNames
                 PROVE  Gone(g)' \/ fd'[g] \in foreign \/ owner'[fd'[g]] # "client"
      OBVIOUS
    <3>1. CASE g = f
      BY <1>4, <1>5, <3>1 DEF Gone
    <3>2. CASE g # f /\ g \in {"cmd", "status"}
      BY <1>1, <1>4, <3>2 DEF Gone, Program, Starting
    <3>3. CASE g # f /\ g = "log"
      <4>1. owner' = owner
        BY <3>3 DEF HandBack, Typed
      <4> QED BY <1>4, <3>3, <4>1 DEF Gone, Owning
    <3> QED BY <3>1, <3>2, <3>3 DEF FieldNames
  <2>2. \A d \in Fds : owner'[d] = "log" => fd'["log"] = d
    BY <1>3, <1>4 DEF Owning, FieldNames
  <2>3. \A d \in Fds : owner'[d] # "pair"
    BY <1>1, <1>3 DEF Program, Starting
  <2>4. owner'[Stderr] \in {"client", "free"}
    BY <1>3 DEF Owning
  <2> QED BY <2>1, <2>2, <2>3, <2>4 DEF Owning
<1>8. Sizing'
  BY <1>2 DEF Sizing
<1>9. Program'
  <2>1. Starting'
    BY <1>1, <1>2, <1>3, <1>4, <1>5 DEF Program, Starting, FieldNames
  <2>2. Started'
    BY <1>1, <1>2, <1>3 DEF Program, Started
  <2> QED BY <2>1, <2>2 DEF Program
<1>10. Shutdown'
  BY <1>1, <1>2 DEF Shutdown
<1>11. ~Remaps => Mapping' /\ MemoryOnce'
  BY <1>1, <1>2 DEF Mapping, MemoryOnce
<1> QED BY <1>2, <1>6, <1>7, <1>8, <1>9, <1>10, <1>11

LEMMA CopiedInv ==
  ASSUME IInv, Copied
  PROVE  IInv'
<1> USE DaemonAssumption DEF DaemonAssumption, IInv, Copied, At, memory, kernel
<1>1. Depth = 1 /\ Top.at = "copy" /\ Program /\ Top.field = 1
  BY ProgramAlone DEF HandlerSteps, FrameOK
<1>2. /\ StackOK' /\ Depth' = 1 /\ Top'.at = "defaults" /\ Top'.field = 1
      /\ \A x : InHand(x) => InHand(x)'
  BY <1>1, GoTo DEF Steps, HoldingSteps
<1>3. \A f \in FieldNames : argument'[f] = None
  BY DEF NoConfig
<1>4. Typed'
  BY DEF Typed, NoConfig
<1>5. Owning' /\ Sizing'
  BY <1>2, <1>3 DEF Owning, Sizing, Gone
<1>6. \A f \in FieldNames : fd'[f] = None \/ fd'[f] \in foreign'
  BY DEF Owning
<1>7. Program'
  BY <1>1, <1>2, <1>6 DEF Program, Starting, Started
<1>8. Shutdown'
  BY <1>2 DEF Shutdown
<1>9. ~Remaps => Mapping' /\ MemoryOnce'
  BY <1>2 DEF Mapping, MemoryOnce
<1> QED BY <1>2, <1>4, <1>5, <1>7, <1>8, <1>9

LEMMA NextDefaultMoves ==
  ASSUME StackOK, Top.at = "defaults", NextDefault
  PROVE  /\ StackOK' /\ Depth' = Depth /\ Depth = 1
         /\ \/ Top.field < 3 /\ Top'.at = "defaults" /\ Top'.field = Top.field + 1
               /\ foreign' = foreign
            \/ Top.field = 3 /\ Top'.at = "signals" /\ foreign' = {}
         /\ Top.field \in 1..3
         /\ \A x : InHand(x) => InHand(x)'
<1>1. Top.field \in 1..3 /\ Depth = 1
  BY ProgramAlone DEF Frames, HandlerSteps
<1>2. PICK a \in Steps, n \in 1..3 : /\ a = (IF Top.field = 3 THEN "signals" ELSE "defaults")
                                     /\ n = (IF Top.field = 3 THEN 1 ELSE Top.field + 1)
  BY <1>1 DEF Steps
<1>3. stack' = [stack EXCEPT ![Depth].at = a, ![Depth].field = n]
  BY <1>2, DefaultsOrdered, Zenon DEF NextDefault
<1>4. /\ a \notin {"close", "forget", "defaults"} => n = 1
      /\ {a, Top.at} \intersect HoldingSteps = {}
  BY <1>2 DEF HoldingSteps
<1>5. /\ StackOK' /\ Depth' = Depth /\ Top'.at = a /\ Top'.field = n
      /\ \A x : InHand(x) => InHand(x)'
  BY <1>1, <1>3, <1>4, TopMoved
<1>6. foreign' = IF Top.field = 3 THEN {} ELSE foreign
  BY DefaultsOrdered DEF NextDefault
<1> QED BY <1>1, <1>2, <1>5, <1>6

LEMMA SetDefaultInv ==
  ASSUME IInv, SetDefault
  PROVE  IInv'
<1> USE DaemonAssumption DEF DaemonAssumption, IInv, At, memory
<1>1. Top.at = "defaults" /\ NextDefault
  BY DEF SetDefault
<1>2. /\ StackOK' /\ Depth' = 1 /\ Depth = 1
      /\ \/ Top.field < 3 /\ Top'.at = "defaults" /\ Top'.field = Top.field + 1
            /\ foreign' = foreign
         \/ Top.field = 3 /\ Top'.at = "signals" /\ foreign' = {}
      /\ Top.field \in 1..3
      /\ \A x : InHand(x) => InHand(x)'
  BY <1>1, NextDefaultMoves
<1>3. PICK f \in FieldNames : f = DefaultOrder[Top.field]
  BY <1>2, DefaultsOrdered
<1>4. UNCHANGED <<initialized, argument, base, sized, handling, mapped, alive>>
  BY DEF SetDefault
<1>5. /\ owner' \in [Fds -> Owners]
      /\ \A d \in Fds : owner[d] # "log" => owner'[d] = owner[d]
      /\ \A d \in Fds : owner'[d] = "pair" <=> owner[d] = "pair"
      /\ \A d \in Fds : owner'[d] = "log" => owner[d] = "log" /\ f # "log"
  BY <1>3, HandedBack DEF SetDefault
<1>6. fd' \in [FieldNames -> Fds \union {None}] /\ \A g \in FieldNames : fd'[g] = IF g = f THEN None ELSE fd[g]
  BY <1>3 DEF Typed, SetDefault
<1>7. /\ Program
      /\ \A g \in FieldNames : fd[g] = None \/ fd[g] \in foreign
      /\ \A k \in 1..3 : k < Top.field => fd[DefaultOrder[k]] = None
      /\ argument = NoConfig
  BY <1>1, <1>2 DEF Program, Starting
<1>8. \A k \in 1..3 : k <= Top.field => fd'[DefaultOrder[k]] = None
  <2> SUFFICES ASSUME NEW k \in 1..3, k <= Top.field PROVE fd'[DefaultOrder[k]] = None
    OBVIOUS
  <2>1. DefaultOrder[k] \in FieldNames
    BY DefaultsOrdered
  <2>2. k < Top.field \/ k = Top.field
    BY <1>2
  <2> QED BY <1>3, <1>6, <1>7, <2>1, <2>2
<1>9. Top.field = 3 => \A g \in FieldNames : fd'[g] = None
  <2> SUFFICES ASSUME Top.field = 3 PROVE \A g \in FieldNames : fd'[g] = None
    OBVIOUS
  <2>1. fd'[DefaultOrder[1]] = None /\ fd'[DefaultOrder[2]] = None /\ fd'[DefaultOrder[3]] = None
    BY <1>8
  <2> QED BY <2>1, DefaultsOrdered DEF FieldNames
<1>10. \A g \in FieldNames : fd'[g] = None \/ fd'[g] \in foreign'
  BY <1>2, <1>6, <1>7, <1>9
<1>11. Typed'
  BY <1>2, <1>4, <1>5, <1>6 DEF Typed
<1>12. Owning'
  <2>1. \A g \in FieldNames : argument'[g] = None
    BY <1>4, <1>7 DEF NoConfig
  <2>2. \A d \in Fds : owner'[d] = "log" => fd'["log"] = d
    BY <1>5, <1>6 DEF Owning, FieldNames
  <2>3. \A d \in Fds : owner'[d] # "pair"
    BY <1>1, <1>5, <1>7 DEF Program, Starting
  <2>4. owner'[Stderr] \in {"client", "free"}
    BY <1>5 DEF Owning
  <2> QED BY <1>10, <2>1, <2>2, <2>3, <2>4 DEF Owning, Gone
<1>13. Sizing'
  BY <1>2, <1>4 DEF Sizing
<1>14. Program'
  <2>1. \A d \in Fds : owner'[d] # "pair"
    BY <1>1, <1>5, <1>7 DEF Program, Starting
  <2>2. argument' = NoConfig
    BY <1>4, <1>7 DEF NoConfig
  <2>3. \A k \in 1..3 : Top.field < 3 /\ k < Top.field + 1 => fd'[DefaultOrder[k]] = None
    BY <1>2, <1>8
  <2>4. Starting'
    BY <1>2, <1>9, <1>10, <2>1, <2>2, <2>3 DEF Starting, FieldNames
  <2>5. owner'[Stderr] = "client"
    BY <1>5, <1>7 DEF Program, Started
  <2>6. Started'
    BY <1>2, <1>9, <2>5 DEF Started, FieldNames
  <2> QED BY <2>4, <2>6 DEF Program
<1>15. Shutdown'
  BY <1>2 DEF Shutdown
<1>16. ~Remaps => Mapping' /\ MemoryOnce'
  BY <1>2, <1>4 DEF Mapping, MemoryOnce
<1> QED BY <1>2, <1>11, <1>12, <1>13, <1>14, <1>15, <1>16

LEMMA SetupSignalInv ==
  ASSUME IInv, NEW s \in Signals, SetupSignal(s)
  PROVE  IInv'
<1> USE DEF IInv, SetupSignal, At, state, config, memory
<1>1. Depth = 1 /\ Top.at = "signals" /\ Program
  BY ProgramAlone DEF HandlerSteps
<1>2. /\ StackOK' /\ Depth' = 1 /\ Top' = Top
      /\ \A x : InHand(x) <=> InHand(x)'
  BY <1>1, StackUnchanged
<1>3. Typed'
  BY DEF Typed
<1>4. Owning' /\ Sizing'
  BY <1>2 DEF Owning, Sizing, Gone
<1>5. Program'
  BY <1>1, <1>2 DEF Program, Starting, Started
<1>6. Shutdown'
  BY <1>1, <1>2 DEF Shutdown
<1>7. ~Remaps => Mapping' /\ MemoryOnce'
  BY <1>1, <1>2 DEF Mapping, MemoryOnce
<1> QED BY <1>2, <1>3, <1>4, <1>5, <1>6, <1>7

LEMMA SignalsSetUpInv ==
  ASSUME IInv, SignalsSetUp
  PROVE  IInv'
<1> USE DEF IInv, SignalsSetUp, At, state, config, memory, kernel
<1>1. Depth = 1 /\ Top.at = "signals" /\ Program
  BY ProgramAlone DEF HandlerSteps
<1>2. /\ StackOK' /\ Depth' = 1 /\ Top'.at = "logging"
      /\ \A x : InHand(x) => InHand(x)'
  BY <1>1, GoTo DEF Steps, HoldingSteps
<1>3. Typed'
  BY DEF Typed
<1>4. Owning' /\ Sizing'
  BY <1>2 DEF Owning, Sizing, Gone
<1>5. Program'
  BY <1>1, <1>2 DEF Program, Starting, Started
<1>6. Shutdown'
  BY <1>2 DEF Shutdown
<1>7. ~Remaps => Mapping' /\ MemoryOnce'
  BY <1>2 DEF Mapping, MemoryOnce
<1> QED BY <1>2, <1>3, <1>4, <1>5, <1>6, <1>7

LEMMA StartLoggingInv ==
  ASSUME IInv, StartLogging
  PROVE  IInv'
<1> USE DaemonAssumption DEF DaemonAssumption, IInv, StartLogging, At, memory, kernel
<1>1. Depth = 1 /\ Top.at = "logging" /\ Program
  BY ProgramAlone DEF HandlerSteps
<1>2. /\ StackOK' /\ Depth' = 1 /\ Top'.at = "channels"
      /\ \A x : InHand(x) => InHand(x)'
  BY <1>1, GoTo DEF Steps, HoldingSteps
<1>3. Typed'
  BY DEF Typed
<1>4. /\ fd'["cmd"] = None /\ fd'["status"] = None /\ fd'["log"] = Stderr
      /\ fd["cmd"] = None /\ fd["status"] = None /\ fd["log"] = None
  BY <1>1 DEF Typed, Program, Starting, FieldNames
<1>5. Owning' /\ Sizing'
  BY <1>2, <1>4 DEF Owning, Sizing, Gone, FieldNames
<1>6. Program'
  BY <1>1, <1>2, <1>4 DEF Program, Starting, Started
<1>7. Shutdown'
  BY <1>2 DEF Shutdown
<1>8. ~Remaps => Mapping' /\ MemoryOnce'
  BY <1>2 DEF Mapping, MemoryOnce
<1> QED BY <1>2, <1>3, <1>5, <1>6, <1>7, <1>8

LEMMA CreateChannelsInv ==
  ASSUME IInv, CreateChannels
  PROVE  IInv'
<1> USE DaemonAssumption DEF DaemonAssumption, IInv, At, state, config, memory
<1>1. Depth = 1 /\ Top.at = "channels" /\ Program /\ FrameOK(Top)
  BY ProgramAlone DEF HandlerSteps, CreateChannels
<1>2. UNCHANGED <<initialized, fd, base, sized, argument, foreign, handling, mapped, alive>>
  BY DEF CreateChannels
<1>3. CASE Go("initialized") /\ UNCHANGED owner
  <2>1. /\ StackOK' /\ Depth' = 1 /\ Top'.at = "initialized"
        /\ \A x : InHand(x) => InHand(x)'
    BY <1>1, <1>3, GoTo DEF Steps, HoldingSteps
  <2>2. Typed'
    BY <1>2, <1>3 DEF Typed
  <2>3. Owning' /\ Sizing'
    BY <1>2, <1>3, <2>1 DEF Owning, Sizing, Gone
  <2>4. Program'
    BY <1>1, <1>2, <1>3, <2>1 DEF Program, Starting, Started, Channels, Log
  <2>5. Shutdown'
    BY <2>1 DEF Shutdown
  <2>6. ~Remaps => Mapping' /\ MemoryOnce'
    BY <1>2, <2>1 DEF Mapping, MemoryOnce
  <2> QED BY <2>1, <2>2, <2>3, <2>4, <2>5, <2>6
<1>4. CASE \E c, s \in {d \in Fds : owner[d] = "free"} :
             /\ c # s
             /\ owner' = [owner EXCEPT ![c] = "pair", ![s] = "pair"]
             /\ stack' = [stack EXCEPT ![Depth].at = "storecmd", ![Depth].got = <<c, s>>]
  <2>1. PICK c \in Fds, s \in Fds :
          /\ owner[c] = "free" /\ owner[s] = "free" /\ c # s
          /\ owner' = [owner EXCEPT ![c] = "pair", ![s] = "pair"]
          /\ stack' = [stack EXCEPT ![Depth].at = "storecmd", ![Depth].got = <<c, s>>]
    BY <1>4
  <2> DEFINE fr == [Top EXCEPT !.at = "storecmd", !.got = <<c, s>>]
  <2>2. /\ fr \in Frames /\ fr.at = "storecmd" /\ fr.got = <<c, s>> /\ fr.sig = Top.sig
        /\ fr.field = Top.field
    <3>1. <<c, s>> \in Seq(Fds \union Maps) /\ "storecmd" \in Steps
      BY DEF Steps
    <3>2. Top \in Frames
      BY <1>1 DEF FrameOK
    <3> QED BY <3>1, <3>2 DEF Frames
  <2>3. FrameOK(fr)
    BY <1>1, <2>1, <2>2 DEF FrameOK, HoldingSteps
  <2>4. stack' = [stack EXCEPT ![Depth] = fr]
    BY <2>1 DEF Top, StackOK, Depth
  <2> HIDE DEF fr
  <2>5. /\ StackOK' /\ Depth' = 1 /\ Top' = fr
        /\ \A x : InHand(x) => InHand(x)' \/ \E k \in 1..Len(Top.got) : Top.got[k] = x
        /\ \A x : (\E k \in 1..Len(fr.got) : fr.got[k] = x) => InHand(x)'
    BY <1>1, <2>2, <2>3, <2>4, TopReplaced
  <2>6. (\A x : InHand(x) => InHand(x)') /\ InHand(c)' /\ InHand(s)'
    <3>1. Top.got = <<>>
      BY <1>1 DEF FrameOK, HoldingSteps
    <3>2. fr.got[1] = c /\ fr.got[2] = s /\ 1 \in 1..Len(fr.got) /\ 2 \in 1..Len(fr.got)
      BY <2>2
    <3> QED BY <2>5, <3>1, <3>2
  <2>7. Typed'
    BY <1>2, <2>1 DEF Typed, Owners
  <2>8. \A d \in Fds : owner'[d] = IF d \in {c, s} THEN "pair" ELSE owner[d]
    BY <2>1 DEF Typed
  <2>9. owner[Stderr] = "client" /\ owner'[Stderr] = "client"
    BY <1>1, <2>1, <2>8 DEF Program, Started
  <2>10. Owning' /\ Sizing'
    <3>1. \A f \in FieldNames : fd[f] \in Fds \/ fd[f] = None
      BY DEF Typed
    <3>2. \A f \in FieldNames : Gone(f)' \/ fd'[f] \in foreign' \/ owner'[fd'[f]] # "client"
      BY <1>2, <2>8, <3>1 DEF Owning, Gone
    <3>3. \A d \in Fds : owner'[d] = "log" => fd'["log"] = d
      BY <1>2, <2>8 DEF Owning
    <3>4. \A d \in Fds : owner'[d] = "pair" => d \in {fd'["cmd"], fd'["status"]} \/ InHand(d)'
      BY <1>2, <2>6, <2>8 DEF Owning
    <3>5. \A f \in FieldNames : argument'[f] = None \/ argument'[f] \in foreign'
      BY <1>2 DEF Owning
    <3>6. Sizing'
      BY <1>2, <2>6 DEF Sizing
    <3> QED BY <2>9, <3>2, <3>3, <3>4, <3>5, <3>6 DEF Owning
  <2>11. Program'
    <3>1. Top'.at = "storecmd" /\ Top'.got[1] = c /\ Top'.got[2] = s
      BY <2>2, <2>5
    <3>2. owner'[c] = "pair" /\ owner'[s] = "pair"
      BY <2>8
    <3>3. Starting'
      BY <1>1, <1>2, <3>1, <3>2 DEF Program, Starting
    <3>4. Started'
      BY <1>1, <1>2, <2>9, <3>1 DEF Program, Started
    <3> QED BY <3>3, <3>4 DEF Program
  <2>12. Shutdown'
    BY <2>2, <2>5 DEF Shutdown
  <2>13. ~Remaps => Mapping' /\ MemoryOnce'
    BY <1>2, <2>2, <2>5, <2>6 DEF Mapping, MemoryOnce
  <2> QED BY <2>5, <2>7, <2>10, <2>11, <2>12, <2>13
<1> QED BY <1>3, <1>4 DEF CreateChannels

LEMMA StoreCommandInv ==
  ASSUME IInv, StoreCommand
  PROVE  IInv'
<1> USE DaemonAssumption DEF DaemonAssumption, IInv, At, memory, kernel
<1>1. Depth = 1 /\ Top.at = "storecmd" /\ Program /\ FrameOK(Top)
  BY ProgramAlone DEF HandlerSteps, StoreCommand
<1>2. UNCHANGED <<initialized, base, sized, argument, foreign, handling, owner, mapped, alive>>
  BY DEF StoreCommand
<1>3. PICK c \in Fds, s \in Fds : c # s /\ Top.got = <<c, s>>
  BY <1>1 DEF FrameOK
<1> DEFINE fr == [Top EXCEPT !.at = "storestatus", !.got = <<s>>]
<1>4. /\ fr \in Frames /\ fr.at = "storestatus" /\ fr.got = <<s>> /\ fr.sig = Top.sig
      /\ fr.field = Top.field
  <2>1. <<s>> \in Seq(Fds \union Maps) /\ "storestatus" \in Steps
    BY DEF Steps
  <2>2. Top \in Frames
    BY <1>1 DEF FrameOK
  <2> QED BY <2>1, <2>2 DEF Frames
<1>5. FrameOK(fr)
  BY <1>1, <1>4 DEF FrameOK, HoldingSteps
<1>6. stack' = [stack EXCEPT ![Depth] = fr]
  <2>1. stack' = [stack EXCEPT ![Depth].at = "storestatus", ![Depth].got = <<s>>]
    BY <1>3 DEF StoreCommand
  <2> QED BY <2>1 DEF Top, StackOK, Depth
<1> HIDE DEF fr
<1>7. /\ StackOK' /\ Depth' = 1 /\ Top' = fr
      /\ \A x : InHand(x) => InHand(x)' \/ \E k \in 1..Len(Top.got) : Top.got[k] = x
      /\ \A x : (\E k \in 1..Len(fr.got) : fr.got[k] = x) => InHand(x)'
  BY <1>1, <1>4, <1>5, <1>6, TopReplaced
<1>8. InHand(s)' /\ \A x : InHand(x) => InHand(x)' \/ x = c
  <2>1. fr.got[1] = s /\ 1 \in 1..Len(fr.got)
    BY <1>4
  <2>2. InHand(s)'
    BY <1>7, <2>1
  <2>3. \A x : InHand(x) => InHand(x)' \/ x \in {c, s}
    BY <1>3, <1>7
  <2> QED BY <2>2, <2>3
<1>9. fd'["cmd"] = c /\ fd'["status"] = fd["status"] /\ fd'["log"] = fd["log"]
  BY <1>3 DEF StoreCommand, Typed, FieldNames
<1>10. /\ owner[c] = "pair" /\ owner[s] = "pair" /\ fd["log"] = Stderr
       /\ fd["cmd"] = None /\ fd["status"] = None /\ owner[Stderr] = "client"
  BY <1>1, <1>3 DEF Program, Starting, Started
<1>11. Typed'
  <2>1. fd' = [fd EXCEPT !["cmd"] = c]
    BY <1>3 DEF StoreCommand
  <2>2. fd' \in [FieldNames -> Fds \union {None}]
    BY <2>1 DEF Typed
  <2> QED BY <1>2, <2>2 DEF Typed
<1>12. Owning'
  <2>1. \A f \in FieldNames : Gone(f)' \/ fd'[f] \in foreign' \/ owner'[fd'[f]] # "client"
    BY <1>2, <1>9, <1>10 DEF Gone, FieldNames
  <2>2. \A d \in Fds : owner[d] = "pair" => d \in {fd'["cmd"], fd'["status"]} \/ InHand(d)'
    BY <1>8, <1>9, <1>10 DEF Owning
  <2> QED BY <1>2, <1>9, <1>10, <2>1, <2>2 DEF Owning
<1>13. Sizing'
  BY <1>2, <1>3, <1>8 DEF Sizing, Typed
<1>14. Program'
  <2>1. Top'.at = "storestatus" /\ Top'.got[1] = s
    BY <1>4, <1>7
  <2>2. Starting'
    BY <1>1, <1>2, <1>3, <1>9, <1>10, <2>1 DEF Program, Starting
  <2>3. Started'
    BY <1>2, <1>9, <1>10, <2>1 DEF Started
  <2> QED BY <2>2, <2>3 DEF Program
<1>15. Shutdown'
  BY <1>4, <1>7 DEF Shutdown
<1>16. ASSUME ~Remaps PROVE Mapping' /\ MemoryOnce'
  BY <1>2, <1>4, <1>7, <1>8, <1>16 DEF Mapping, MemoryOnce, Typed
<1> QED BY <1>7, <1>11, <1>12, <1>13, <1>14, <1>15, <1>16

LEMMA StoreStatusInv ==
  ASSUME IInv, StoreStatus
  PROVE  IInv'
<1> USE DaemonAssumption DEF DaemonAssumption, IInv, At, memory, kernel
<1>1. Depth = 1 /\ Top.at = "storestatus" /\ Program /\ FrameOK(Top)
  BY ProgramAlone DEF HandlerSteps, StoreStatus
<1>2. UNCHANGED <<initialized, base, sized, argument, foreign, handling, owner, mapped, alive>>
  BY DEF StoreStatus
<1>3. PICK s \in Fds : Top.got = <<s>>
  BY <1>1 DEF FrameOK
<1> DEFINE fr == [Top EXCEPT !.at = "initialized", !.got = <<>>]
<1>4. /\ fr \in Frames /\ fr.at = "initialized" /\ fr.got = <<>> /\ fr.sig = Top.sig
      /\ fr.field = Top.field
  <2>1. <<>> \in Seq(Fds \union Maps) /\ "initialized" \in Steps
    BY DEF Steps
  <2>2. Top \in Frames
    BY <1>1 DEF FrameOK
  <2> QED BY <2>1, <2>2 DEF Frames
<1>5. FrameOK(fr)
  BY <1>1, <1>4 DEF FrameOK, HoldingSteps
<1>6. stack' = [stack EXCEPT ![Depth] = fr]
  BY DEF StoreStatus, Top, StackOK, Depth
<1> HIDE DEF fr
<1>7. /\ StackOK' /\ Depth' = 1 /\ Top' = fr
      /\ \A x : InHand(x) => InHand(x)' \/ \E k \in 1..Len(Top.got) : Top.got[k] = x
  BY <1>1, <1>4, <1>5, <1>6, TopReplaced
<1>8. \A x : InHand(x) => InHand(x)' \/ x = s
  BY <1>3, <1>7
<1>9. fd'["cmd"] = fd["cmd"] /\ fd'["status"] = s /\ fd'["log"] = fd["log"]
  BY <1>3 DEF StoreStatus, Typed, FieldNames
<1>10. /\ fd["cmd"] \in Fds /\ owner[fd["cmd"]] = "pair" /\ owner[s] = "pair" /\ s # fd["cmd"]
       /\ fd["status"] = None /\ fd["log"] = Stderr /\ owner[Stderr] = "client"
  BY <1>1, <1>3 DEF Program, Starting, Started
<1>11. Typed'
  <2>1. fd' = [fd EXCEPT !["status"] = s]
    BY <1>3 DEF StoreStatus
  <2>2. fd' \in [FieldNames -> Fds \union {None}]
    BY <2>1 DEF Typed
  <2> QED BY <1>2, <2>2 DEF Typed
<1>12. Owning'
  <2>1. \A f \in FieldNames : Gone(f)' \/ fd'[f] \in foreign' \/ owner'[fd'[f]] # "client"
    BY <1>2, <1>9, <1>10 DEF Gone, FieldNames
  <2>2. \A d \in Fds : owner[d] = "pair" => d \in {fd'["cmd"], fd'["status"]} \/ InHand(d)'
    BY <1>8, <1>9, <1>10 DEF Owning
  <2> QED BY <1>2, <1>9, <1>10, <2>1, <2>2 DEF Owning
<1>13. Sizing'
  BY <1>2, <1>3, <1>8 DEF Sizing, Typed
<1>14. Program'
  <2>1. Top'.at = "initialized"
    BY <1>4, <1>7
  <2>2. Starting'
    BY <1>1, <1>2, <1>3, <1>9, <1>10, <2>1 DEF Program, Starting, Channels, Log
  <2>3. Started'
    BY <1>2, <1>9, <1>10, <2>1 DEF Started
  <2> QED BY <2>2, <2>3 DEF Program
<1>15. Shutdown'
  BY <1>4, <1>7 DEF Shutdown
<1>16. ASSUME ~Remaps PROVE Mapping' /\ MemoryOnce'
  BY <1>2, <1>4, <1>7, <1>8, <1>16 DEF Mapping, MemoryOnce, Typed
<1> QED BY <1>7, <1>11, <1>12, <1>13, <1>14, <1>15, <1>16

LEMMA FinishInitInv ==
  ASSUME IInv, FinishInit
  PROVE  IInv'
<1> USE DEF IInv, FinishInit, At, config, memory, kernel
<1>1. Depth = 1 /\ Top.at = "initialized" /\ Program
  BY ProgramAlone DEF HandlerSteps
<1>2. /\ StackOK' /\ Depth' = 1 /\ Top'.at = "idle"
      /\ \A x : InHand(x) => InHand(x)'
  BY <1>1, GoTo DEF Steps, HoldingSteps
<1>3. Typed'
  BY DEF Typed
<1>4. Owning' /\ Sizing'
  BY <1>2 DEF Owning, Sizing, Gone
<1>5. Program'
  BY <1>1, <1>2 DEF Program, Starting, Started, Channels, Log
<1>6. Shutdown'
  BY <1>2 DEF Shutdown
<1>7. ~Remaps => Mapping' /\ MemoryOnce'
  BY <1>2 DEF Mapping, MemoryOnce
<1> QED BY <1>2, <1>3, <1>4, <1>5, <1>6, <1>7

-----------------------------------------------------------------------------
(* The calls of the program.                                                *)

LEMMA SuperviseInv ==
  ASSUME IInv, Supervise
  PROVE  IInv'
<1> USE DEF IInv, Supervise, At, state, config, memory, kernel
<1>1. Depth = 1 /\ Top.at = "idle" /\ Program
  BY ProgramAlone DEF HandlerSteps
<1>2. /\ StackOK' /\ Depth' = 1 /\ Top'.at = "supervise"
      /\ \A x : InHand(x) => InHand(x)'
  BY <1>1, GoTo DEF Steps, HoldingSteps
<1>3. Typed'
  BY DEF Typed
<1>4. Owning' /\ Sizing'
  BY <1>2 DEF Owning, Sizing, Gone
<1>5. Program'
  BY <1>1, <1>2 DEF Program, Starting, Started, Channels, Log
<1>6. Shutdown'
  BY <1>2 DEF Shutdown
<1>7. ~Remaps => Mapping' /\ MemoryOnce'
  BY <1>2 DEF Mapping, MemoryOnce
<1> QED BY <1>2, <1>3, <1>4, <1>5, <1>6, <1>7

LEMMA StartShutdownInv ==
  ASSUME IInv, StartShutdown
  PROVE  IInv'
<1> USE DEF IInv, StartShutdown, At, state, config, memory, kernel
<1>1. Depth = 1 /\ Top.at = "idle" /\ Program /\ Top.field = 1
  BY ProgramAlone DEF HandlerSteps, FrameOK
<1>2. /\ StackOK' /\ Depth' = 1 /\ Top'.at = "close" /\ Top'.field = 1
      /\ \A x : InHand(x) => InHand(x)'
  BY <1>1, GoTo DEF Steps, HoldingSteps
<1>3. Typed'
  BY DEF Typed
<1>4. Owning' /\ Sizing'
  BY <1>2 DEF Owning, Sizing, Gone
<1>5. Program'
  BY <1>1, <1>2 DEF Program, Starting, Started
<1>6. Shutdown'
  BY <1>2 DEF Shutdown
<1>7. ~Remaps => Mapping' /\ MemoryOnce'
  BY <1>2 DEF Mapping, MemoryOnce
<1> QED BY <1>2, <1>3, <1>4, <1>5, <1>6, <1>7

LEMMA HandOverLogInv ==
  ASSUME IInv, NEW d \in Fds \union {None}, HandOverLog(d)
  PROVE  IInv'
<1> USE DaemonAssumption DEF DaemonAssumption, IInv, HandOverLog, At, memory
<1>1. Depth = 1 /\ Top.at = "idle" /\ Program
  BY ProgramAlone DEF HandlerSteps
<1>2. /\ StackOK' /\ Depth' = 1 /\ Top' = Top
      /\ \A x : InHand(x) <=> InHand(x)'
  BY <1>1, StackUnchanged
<1>3. fd'["cmd"] = fd["cmd"] /\ fd'["status"] = fd["status"] /\ fd'["log"] = d
  BY DEF Typed, FieldNames
<1>4. Typed'
  BY DEF Typed, Owners
<1>5. d \in {None, Stderr} \/ owner[d] = "client"
  OBVIOUS
<1>6. /\ \A x \in Fds : owner'[x] = IF x = d /\ d # Stderr THEN "log"
                                    ELSE IF owner[x] = "log" THEN "client" ELSE owner[x]
      /\ owner[Stderr] = "client"
  BY <1>1 DEF Program, Started
<1>7. /\ owner'[Stderr] = "client"
      /\ \A x \in Fds : owner'[x] = "pair" <=> owner[x] = "pair"
  BY <1>5, <1>6
<1>8. Log' /\ (Channels => Channels')
  BY <1>3, <1>6, <1>7 DEF Channels, Log
<1>9. \A f \in {"cmd", "status"} : \/ fd[f] = None \/ fd[f] \in foreign
                                   \/ fd[f] \in Fds /\ owner[fd[f]] = "pair"
  BY <1>1 DEF Program, Started, Channels
<1>10. Owning'
  <2>1. \A f \in FieldNames : Gone(f)' \/ fd'[f] \in foreign' \/ owner'[fd'[f]] # "client"
    <3>1. \A f \in {"cmd", "status"} : Gone(f)' \/ fd'[f] \in foreign' \/ owner'[fd'[f]] # "client"
      BY <1>3, <1>7, <1>9 DEF Gone
    <3>2. Gone("log")' \/ owner'[fd'["log"]] # "client"
      BY <1>3, <1>8 DEF Gone, Log
    <3> QED BY <3>1, <3>2 DEF FieldNames
  <2>2. \A x \in Fds : owner'[x] = "log" => fd'["log"] = x
    BY <1>3, <1>6
  <2>3. \A x \in Fds : owner'[x] = "pair" => x \in {fd'["cmd"], fd'["status"]} \/ InHand(x)'
    BY <1>2, <1>3, <1>7 DEF Owning
  <2>4. \A f \in FieldNames : argument'[f] = None \/ argument'[f] \in foreign'
    BY DEF Owning
  <2> QED BY <1>7, <2>1, <2>2, <2>3, <2>4 DEF Owning
<1>11. Sizing'
  BY <1>2 DEF Sizing
<1>12. Program'
  <2>1. Starting'
    BY <1>1, <1>2 DEF Program, Starting
  <2>2. Started'
    BY <1>1, <1>2, <1>3, <1>7, <1>8 DEF Program, Started
  <2> QED BY <2>1, <2>2 DEF Program
<1>13. Shutdown'
  BY <1>1, <1>2 DEF Shutdown
<1>14. ~Remaps => Mapping' /\ MemoryOnce'
  BY <1>1, <1>2 DEF Mapping, MemoryOnce
<1> QED BY <1>2, <1>4, <1>10, <1>11, <1>12, <1>13, <1>14

LEMMA ClientOpenInv ==
  ASSUME IInv, NEW d \in Fds, ClientOpen(d)
  PROVE  IInv'
<1> USE DaemonAssumption DEF DaemonAssumption, IInv, ClientOpen, At, state, config, memory
<1>1. Depth = 1 /\ Top.at = "idle" /\ Program
  BY ProgramAlone DEF HandlerSteps
<1>2. /\ StackOK' /\ Depth' = 1 /\ Top' = Top
      /\ \A x : InHand(x) <=> InHand(x)'
  BY <1>1, StackUnchanged
<1>3. Typed'
  BY DEF Typed, Owners
<1>4. \A x \in Fds : owner'[x] = IF x = d THEN "client" ELSE owner[x]
  BY DEF Typed
<1>5. \A f \in FieldNames : Gone(f) \/ fd[f] \in foreign \/ fd[f] # d
  BY <1>1 DEF Program, Started, Channels, Log, Gone, FieldNames
<1>6. Owning'
  <2>1. \A f \in FieldNames : fd[f] \in Fds \/ fd[f] = None
    BY DEF Typed
  <2>2. \A f \in FieldNames : Gone(f)' \/ fd'[f] \in foreign' \/ owner'[fd'[f]] # "client"
    BY <1>4, <1>5, <2>1 DEF Gone, Owning
  <2>3. \A x \in Fds : owner'[x] = "log" => fd'["log"] = x
    BY <1>4 DEF Owning
  <2>4. \A x \in Fds : owner'[x] = "pair" => x \in {fd'["cmd"], fd'["status"]} \/ InHand(x)'
    BY <1>2, <1>4 DEF Owning
  <2> QED BY <1>4, <2>2, <2>3, <2>4 DEF Owning
<1>7. Sizing'
  BY <1>2 DEF Sizing
<1>8. Program'
  <2>1. Starting'
    BY <1>1, <1>2 DEF Program, Starting
  <2>2. Started'
    BY <1>1, <1>2, <1>4 DEF Program, Started, Channels, Log
  <2> QED BY <2>1, <2>2 DEF Program
<1>9. Shutdown'
  BY <1>1, <1>2 DEF Shutdown
<1>10. ~Remaps => Mapping' /\ MemoryOnce'
  BY <1>1, <1>2 DEF Mapping, MemoryOnce
<1> QED BY <1>2, <1>3, <1>6, <1>7, <1>8, <1>9, <1>10

LEMMA ClientCloseInv ==
  ASSUME IInv, NEW d \in Fds, ClientClose(d)
  PROVE  IInv'
<1> USE DaemonAssumption DEF DaemonAssumption, IInv, ClientClose, At, state, config, memory
<1>1. Depth = 1 /\ Top.at = "idle" /\ Program
  BY ProgramAlone DEF HandlerSteps
<1>2. /\ StackOK' /\ Depth' = 1 /\ Top' = Top
      /\ \A x : InHand(x) <=> InHand(x)'
  BY <1>1, StackUnchanged
<1>3. Typed'
  BY DEF Typed, Owners
<1>4. \A x \in Fds : owner'[x] = IF x = d THEN "free" ELSE owner[x]
  BY DEF Typed
<1>5. Owning'
  <2>1. \A f \in FieldNames : fd[f] \in Fds \/ fd[f] = None
    BY DEF Typed
  <2> QED BY <1>2, <1>4, <2>1 DEF Owning, Gone
<1>6. Sizing'
  BY <1>2 DEF Sizing
<1>7. Program'
  <2>1. Starting'
    BY <1>1, <1>2 DEF Program, Starting
  <2>2. Started'
    BY <1>1, <1>2, <1>4 DEF Program, Started, Channels, Log
  <2> QED BY <2>1, <2>2 DEF Program
<1>8. Shutdown'
  BY <1>1, <1>2 DEF Shutdown
<1>9. ~Remaps => Mapping' /\ MemoryOnce'
  BY <1>1, <1>2 DEF Mapping, MemoryOnce
<1> QED BY <1>2, <1>3, <1>5, <1>6, <1>7, <1>8, <1>9

LEMMA MapMemoryInv ==
  ASSUME IInv, NEW m \in Maps, MapMemory(m)
  PROVE  IInv'
<1> USE DaemonAssumption DEF DaemonAssumption, IInv, MapMemory, At, state, config, memory
<1>1. Depth = 1 /\ Top.at = "idle" /\ Program /\ FrameOK(Top)
  BY ProgramAlone DEF HandlerSteps
<1> DEFINE fr == [Top EXCEPT !.at = "memory", !.got = <<m>>]
<1>2. /\ fr \in Frames /\ fr.at = "memory" /\ fr.got = <<m>> /\ fr.sig = Top.sig
      /\ fr.field = Top.field
  <2>1. <<m>> \in Seq(Fds \union Maps) /\ "memory" \in Steps
    BY DEF Steps
  <2>2. Top \in Frames
    BY <1>1 DEF FrameOK
  <2> QED BY <2>1, <2>2 DEF Frames
<1>3. FrameOK(fr)
  BY <1>1, <1>2 DEF FrameOK, HoldingSteps
<1>4. stack' = [stack EXCEPT ![Depth] = fr]
  BY DEF Top, StackOK, Depth
<1> HIDE DEF fr
<1>5. /\ StackOK' /\ Depth' = 1 /\ Top' = fr
      /\ \A x : InHand(x) => InHand(x)' \/ \E k \in 1..Len(Top.got) : Top.got[k] = x
      /\ \A x : (\E k \in 1..Len(fr.got) : fr.got[k] = x) => InHand(x)'
  BY <1>1, <1>2, <1>3, <1>4, TopReplaced
<1>6. (\A x : InHand(x) => InHand(x)') /\ InHand(m)'
  <2>1. Top.got = <<>>
    BY <1>1 DEF FrameOK, HoldingSteps
  <2>2. fr.got[1] = m /\ 1 \in 1..Len(fr.got)
    BY <1>2
  <2> QED BY <1>5, <2>1, <2>2
<1>7. Typed'
  BY DEF Typed
<1>8. Owning' /\ Sizing'
  BY <1>6 DEF Owning, Sizing, Gone
<1>9. Program'
  BY <1>1, <1>2, <1>5 DEF Program, Starting, Started, Channels, Log
<1>10. Shutdown'
  BY <1>2, <1>5 DEF Shutdown
<1>11. ~Remaps => Mapping' /\ MemoryOnce'
  BY <1>6 DEF Mapping, MemoryOnce
<1> QED BY <1>5, <1>7, <1>8, <1>9, <1>10, <1>11

LEMMA StoreBaseInv ==
  ASSUME IInv, StoreBase
  PROVE  IInv'
<1> USE DaemonAssumption DEF DaemonAssumption, IInv, StoreBase, At, config, kernel
<1>1. Depth = 1 /\ Top.at = "memory" /\ Program /\ FrameOK(Top)
  BY ProgramAlone DEF HandlerSteps
<1>2. PICK m \in Maps : Top.got = <<m>>
  BY <1>1 DEF FrameOK
<1> DEFINE fr == [Top EXCEPT !.at = "storesize"]
<1>3. /\ fr \in Frames /\ fr.at = "storesize" /\ fr.got = <<m>> /\ fr.sig = Top.sig
      /\ fr.field = Top.field
  <2>1. "storesize" \in Steps
    BY DEF Steps
  <2>2. Top \in Frames
    BY <1>1 DEF FrameOK
  <2> QED BY <1>2, <2>1, <2>2 DEF Frames
<1>4. FrameOK(fr)
  BY <1>1, <1>3 DEF FrameOK, HoldingSteps
<1>5. stack' = [stack EXCEPT ![Depth] = fr]
  BY DEF Top, StackOK, Depth, Go
<1> HIDE DEF fr
<1>6. /\ StackOK' /\ Depth' = 1 /\ Top' = fr
      /\ \A x : InHand(x) => InHand(x)' \/ \E k \in 1..Len(Top.got) : Top.got[k] = x
      /\ \A x : (\E k \in 1..Len(fr.got) : fr.got[k] = x) => InHand(x)'
  BY <1>1, <1>3, <1>4, <1>5, TopReplaced
<1>7. base' = m /\ InHand(m)' /\ \A x : InHand(x) => InHand(x)'
  <2>1. fr.got[1] = m /\ 1 \in 1..Len(fr.got) /\ base' = m
    BY <1>2, <1>3
  <2>2. \A x : InHand(x) => InHand(x)'
    BY <1>2, <1>3, <1>6
  <2> QED BY <1>6, <2>1, <2>2
<1>8. Typed'
  BY <1>7 DEF Typed
<1>9. Owning' /\ Sizing'
  BY <1>7 DEF Owning, Sizing, Gone
<1>10. Program'
  <2>1. Top'.at = "storesize" /\ Top'.got[1] = m
    BY <1>3, <1>6
  <2> QED BY <1>1, <1>7, <2>1 DEF Program, Starting, Started, Channels, Log
<1>11. Shutdown'
  BY <1>3, <1>6 DEF Shutdown
<1>12. ~Remaps => Mapping' /\ MemoryOnce'
  BY <1>1, <1>3, <1>6, <1>7 DEF Mapping, MemoryOnce, Typed
<1> QED BY <1>6, <1>8, <1>9, <1>10, <1>11, <1>12

LEMMA StoreSizeInv ==
  ASSUME IInv, StoreSize
  PROVE  IInv'
<1> USE DaemonAssumption DEF DaemonAssumption, IInv, StoreSize, At, config, kernel
<1>1. Depth = 1 /\ Top.at = "storesize" /\ Program /\ FrameOK(Top)
  BY ProgramAlone DEF HandlerSteps
<1>2. PICK m \in Maps : Top.got = <<m>>
  BY <1>1 DEF FrameOK
<1> DEFINE fr == [Top EXCEPT !.at = "idle", !.got = <<>>]
<1>3. /\ fr \in Frames /\ fr.at = "idle" /\ fr.got = <<>> /\ fr.sig = Top.sig
      /\ fr.field = Top.field
  <2>1. <<>> \in Seq(Fds \union Maps) /\ "idle" \in Steps
    BY DEF Steps
  <2>2. Top \in Frames
    BY <1>1 DEF FrameOK
  <2> QED BY <2>1, <2>2 DEF Frames
<1>4. FrameOK(fr)
  BY <1>1, <1>3 DEF FrameOK, HoldingSteps
<1>5. stack' = [stack EXCEPT ![Depth] = fr]
  BY DEF Top, StackOK, Depth
<1> HIDE DEF fr
<1>6. /\ StackOK' /\ Depth' = 1 /\ Top' = fr
      /\ \A x : InHand(x) => InHand(x)' \/ \E k \in 1..Len(Top.got) : Top.got[k] = x
  BY <1>1, <1>3, <1>4, <1>5, TopReplaced
<1>7. base = m /\ \A x : InHand(x) => InHand(x)' \/ x = m
  BY <1>1, <1>2, <1>6 DEF Program, Started
<1>8. Typed'
  BY DEF Typed
<1>9. Owning' /\ Sizing'
  BY <1>7 DEF Owning, Sizing, Gone
<1>10. Program'
  BY <1>1, <1>3, <1>6 DEF Program, Starting, Started, Channels, Log
<1>11. Shutdown'
  BY <1>3, <1>6 DEF Shutdown
<1>12. ~Remaps => Mapping' /\ MemoryOnce'
  BY <1>1, <1>3, <1>6, <1>7 DEF Mapping, MemoryOnce, Typed
<1> QED BY <1>6, <1>8, <1>9, <1>10, <1>11, <1>12

-----------------------------------------------------------------------------
(* The steps of a shutdown.                                                 *)

LEMMA FieldOrder ==
  /\ Fields[1] = "cmd" /\ Fields[2] = "status" /\ Fields[3] = "log" /\ Len(Fields) = 3
  /\ \A k \in 1..3 : Fields[k] \in FieldNames
  /\ \A f \in FieldNames : \E k \in 1..3 : Fields[k] = f
BY DEF Fields, FieldNames

LEMMA NextFieldMoves ==
  ASSUME StackOK, Top.at \in {"close", "forget"}, NextField
  PROVE  /\ StackOK' /\ Depth' = Depth
         /\ \/ Top.field < 3 /\ Top'.at = "close" /\ Top'.field = Top.field + 1
            \/ Top.field = 3 /\ Top'.at = "unmap"
         /\ Top.field \in 1..3
         /\ \A x : InHand(x) => InHand(x)'
<1>1. Top.field \in 1..3
  BY ProgramAlone DEF Frames
<1>2. PICK a \in Steps, n \in 1..3 : /\ a = (IF Top.field = 3 THEN "unmap" ELSE "close")
                                     /\ n = (IF Top.field = 3 THEN 1 ELSE Top.field + 1)
  BY <1>1 DEF Steps
<1>3. stack' = [stack EXCEPT ![Depth].at = a, ![Depth].field = n]
  BY <1>2, FieldOrder, Zenon DEF NextField
<1>4. /\ a \notin {"close", "forget", "defaults"} => n = 1
      /\ {a, Top.at} \intersect HoldingSteps = {}
      /\ a \in HandlerSteps
  BY <1>2 DEF HandlerSteps, HoldingSteps
<1>5. /\ StackOK' /\ Depth' = Depth /\ Top'.at = a /\ Top'.field = n
      /\ \A x : InHand(x) => InHand(x)'
  BY <1>3, <1>4, TopMoved
<1> QED BY <1>1, <1>2, <1>5

LEMMA CloseInv ==
  ASSUME IInv, Close
  PROVE  IInv'
<1> USE DaemonAssumption DEF DaemonAssumption, IInv, At
<1>1. Top.at = "close" /\ Top.field \in 1..3 /\ Depth \in Nat \ {0}
  BY ProgramAlone DEF Close, Frames
<1>2. UNCHANGED <<initialized, fd, base, sized, argument, foreign, handling, mapped, alive>>
  BY DEF Close, state, config, memory
<1>3. PICK f \in FieldNames : f = Field
  BY <1>1, FieldOrder DEF Field
<1>4. \A k \in 1..3 : k < Top.field => Gone(Fields[k])
  BY <1>1 DEF Shutdown
<1>5. Depth = 1 => Program /\ fd["cmd"] # Stderr /\ fd["status"] # Stderr
  BY <1>1 DEF Program, Started
<1>6. CASE MustClose
  <2>1. /\ fd[f] # None /\ ~(f = "log" /\ fd[f] = Stderr) /\ fd[f] \in Fds
        /\ owner' = [owner EXCEPT ![fd[f]] = "free"] /\ Go("forget")
    BY <1>3, <1>6 DEF Close, MustClose, Typed
  <2>2. \A x \in Fds : owner'[x] = IF x = fd[f] THEN "free" ELSE owner[x]
    BY <2>1 DEF Typed
  <2>3. /\ StackOK' /\ Depth' = Depth /\ Top'.at = "forget" /\ Top'.field = Top.field
        /\ \A x : InHand(x) => InHand(x)'
    BY <1>1, <2>1, GoTo DEF Steps, HandlerSteps, HoldingSteps
  <2>4. Typed'
    BY <1>2, <2>1 DEF Typed, Owners
  <2>5. Owning'
    <3>1. \A g \in FieldNames : fd[g] \in Fds \/ fd[g] = None
      BY DEF Typed
    <3>2. \A g \in FieldNames : Gone(g)' \/ fd'[g] \in foreign' \/ owner'[fd'[g]] # "client"
      BY <1>2, <2>2, <3>1 DEF Owning, Gone
    <3>3. \A x \in Fds : owner'[x] = "log" => fd'["log"] = x
      BY <1>2, <2>2 DEF Owning
    <3>4. \A x \in Fds : owner'[x] = "pair" => x \in {fd'["cmd"], fd'["status"]} \/ InHand(x)'
      BY <1>2, <2>2, <2>3 DEF Owning
    <3> QED BY <1>2, <2>2, <3>2, <3>3, <3>4 DEF Owning
  <2>6. Sizing'
    BY <1>2, <2>3 DEF Sizing
  <2>7. Depth = 1 => Program'
    <3>1. Depth = 1 => fd[f] # Stderr
      BY <1>5, <2>1 DEF FieldNames
    <3>2. Depth = 1 => Starting'
      BY <1>1, <1>2, <1>5, <2>3 DEF Program, Starting
    <3>3. Depth = 1 => Started'
      BY <1>1, <1>2, <1>5, <2>2, <2>3, <3>1 DEF Program, Started
    <3> QED BY <3>2, <3>3 DEF Program
  <2>8. Shutdown'
    <3>1. Field' = f
      BY <1>3, <2>3 DEF Field
    <3>2. fd'[Field'] \in Fds /\ owner'[fd'[Field']] = "free"
      BY <1>2, <2>1, <2>2, <3>1
    <3>3. \A k \in 1..3 : Gone(Fields[k])' <=> Gone(Fields[k])
      BY <1>2 DEF Gone, Fields
    <3> QED BY <1>4, <2>3, <3>2, <3>3 DEF Shutdown
  <2>9. ~Remaps => Mapping' /\ MemoryOnce'
    BY <1>2, <2>3 DEF Mapping, MemoryOnce
  <2> QED BY <2>3, <2>4, <2>5, <2>6, <2>7, <2>8, <2>9
<1>7. CASE ~MustClose
  <2>1. Gone(f) /\ NextField /\ UNCHANGED owner
    BY <1>3, <1>7 DEF Close, MustClose, Gone
  <2>2. /\ StackOK' /\ Depth' = Depth
        /\ \/ Top.field < 3 /\ Top'.at = "close" /\ Top'.field = Top.field + 1
           \/ Top.field = 3 /\ Top'.at = "unmap"
        /\ \A x : InHand(x) => InHand(x)'
    BY <1>1, <2>1, NextFieldMoves
  <2>3. Typed'
    BY <1>2, <2>1 DEF Typed
  <2>4. Owning' /\ Sizing'
    BY <1>2, <2>1, <2>2 DEF Owning, Sizing, Gone
  <2>5. Depth = 1 => Program'
    BY <1>1, <1>2, <1>5, <2>1, <2>2 DEF Program, Starting, Started
  <2>6. \A k \in 1..3 : k <= Top.field => Gone(Fields[k])'
    BY <1>1, <1>2, <1>3, <1>4, <2>1 DEF Gone, Field, Fields
  <2>7. Shutdown'
    BY <1>1, <2>2, <2>6, FieldOrder DEF Shutdown
  <2>8. ~Remaps => Mapping' /\ MemoryOnce'
    BY <1>2, <2>2 DEF Mapping, MemoryOnce
  <2> QED BY <2>2, <2>3, <2>4, <2>5, <2>7, <2>8
<1> QED BY <1>6, <1>7

LEMMA ForgetInv ==
  ASSUME IInv, Forget
  PROVE  IInv'
<1> USE DaemonAssumption DEF DaemonAssumption, IInv, At
<1>1. Top.at = "forget" /\ Top.field \in 1..3 /\ Depth \in Nat \ {0} /\ NextField
  BY ProgramAlone DEF Forget, Frames
<1>2. UNCHANGED <<initialized, base, sized, argument, foreign, handling, owner, mapped, alive>>
  BY DEF Forget, memory, kernel
<1>3. PICK f \in FieldNames : f = Field
  BY <1>1, FieldOrder DEF Field
<1>4. /\ \A k \in 1..3 : k < Top.field => Gone(Fields[k])
      /\ fd[f] \in Fds /\ owner[fd[f]] = "free"
  BY <1>1, <1>3 DEF Shutdown
<1>5. Depth = 1 => Program /\ fd["cmd"] # Stderr /\ fd["status"] # Stderr
  BY <1>1 DEF Program, Started
<1>6. \A g \in FieldNames : fd'[g] = IF g = f THEN None ELSE fd[g]
  BY <1>3 DEF Forget, Typed
<1>7. /\ StackOK' /\ Depth' = Depth
      /\ \/ Top.field < 3 /\ Top'.at = "close" /\ Top'.field = Top.field + 1
         \/ Top.field = 3 /\ Top'.at = "unmap"
      /\ \A x : InHand(x) => InHand(x)'
  BY <1>1, NextFieldMoves
<1>8. Typed'
  <2>1. fd' \in [FieldNames -> Fds \union {None}]
    BY DEF Typed, Forget
  <2> QED BY <1>2, <2>1 DEF Typed
<1>9. Owning'
  <2>1. \A g \in FieldNames : Gone(g)' \/ fd'[g] \in foreign' \/ owner'[fd'[g]] # "client"
    BY <1>2, <1>6 DEF Owning, Gone
  <2>2. \A x \in Fds : owner'[x] = "log" => fd'["log"] = x
    BY <1>2, <1>4, <1>6 DEF Owning, FieldNames
  <2>3. \A x \in Fds : owner'[x] = "pair" => x \in {fd'["cmd"], fd'["status"]} \/ InHand(x)'
    BY <1>2, <1>4, <1>6, <1>7 DEF Owning, FieldNames
  <2> QED BY <1>2, <2>1, <2>2, <2>3 DEF Owning
<1>10. Sizing'
  BY <1>2, <1>7 DEF Sizing
<1>11. Depth = 1 => Program'
  <2>1. Depth = 1 => fd'["cmd"] # Stderr /\ fd'["status"] # Stderr
    BY <1>5, <1>6 DEF FieldNames
  <2> QED BY <1>1, <1>2, <1>5, <1>7, <2>1 DEF Program, Starting, Started
<1>12. \A k \in 1..3 : k <= Top.field => Gone(Fields[k])'
  BY <1>1, <1>3, <1>4, <1>6, FieldOrder DEF Gone, Field
<1>13. Shutdown'
  BY <1>1, <1>7, <1>12, FieldOrder DEF Shutdown
<1>14. ~Remaps => Mapping' /\ MemoryOnce'
  BY <1>2, <1>7 DEF Mapping, MemoryOnce
<1> QED BY <1>7, <1>8, <1>9, <1>10, <1>11, <1>13, <1>14

LEMMA UnmapInv ==
  ASSUME IInv, Unmap
  PROVE  IInv'
<1> USE DEF IInv, At
<1>1. Top.at = "unmap" /\ Depth \in Nat \ {0} /\ \A f \in FieldNames : Gone(f)
  BY ProgramAlone DEF Unmap, Shutdown
<1>2. UNCHANGED <<initialized, fd, base, sized, argument, foreign, handling, owner, alive>>
  BY DEF Unmap, state, config, memory
<1>3. PICK a \in {"dropbase", "finish"} :
        /\ Go(a)
        /\ a = "dropbase" => mapped' = mapped \ {base}
        /\ a = "finish" => UNCHANGED mapped /\ ~(base # None /\ sized)
  <2>1. CASE base # None /\ sized
    BY <2>1 DEF Unmap
  <2>2. CASE ~(base # None /\ sized)
    BY <2>2 DEF Unmap
  <2> QED BY <2>1, <2>2
<1>4. /\ StackOK' /\ Depth' = Depth /\ Top'.at = a
      /\ \A x : InHand(x) => InHand(x)'
  BY <1>1, <1>3, GoTo DEF Steps, HandlerSteps, HoldingSteps
<1>5. mapped' \subseteq mapped
  BY <1>3
<1>6. Typed'
  BY <1>2, <1>5 DEF Typed
<1>7. Owning' /\ Sizing'
  BY <1>2, <1>4 DEF Owning, Sizing, Gone
<1>8. Depth = 1 => Program'
  BY <1>1, <1>2, <1>3, <1>4 DEF Program, Starting, Started
<1>9. Shutdown'
  <2>1. \A f \in FieldNames : Gone(f)'
    BY <1>1, <1>2 DEF Gone
  <2>2. a = "dropbase" => base' \notin mapped'
    BY <1>2, <1>3
  <2>3. a = "finish" => (base' # None => InHand(base)')
    BY <1>2, <1>3, <1>4 DEF Sizing, Typed
  <2> QED BY <1>3, <1>4, <2>1, <2>2, <2>3 DEF Shutdown
<1>10. ~Remaps => Mapping' /\ MemoryOnce'
  BY <1>2, <1>3, <1>4, <1>5 DEF Mapping, MemoryOnce
<1> QED BY <1>4, <1>6, <1>7, <1>8, <1>9, <1>10

LEMMA DropBaseInv ==
  ASSUME IInv, DropBase
  PROVE  IInv'
<1> USE DEF IInv, DropBase, At, config, kernel
<1>1. Top.at = "dropbase" /\ Depth \in Nat \ {0}
  BY ProgramAlone
<1>2. /\ StackOK' /\ Depth' = Depth /\ Top'.at = "dropsize"
      /\ \A x : InHand(x) => InHand(x)'
  BY <1>1, GoTo DEF Steps, HandlerSteps, HoldingSteps
<1>3. Typed'
  BY DEF Typed
<1>4. Owning' /\ Sizing'
  BY <1>2 DEF Owning, Sizing, Gone
<1>5. Depth = 1 => Program'
  BY <1>1, <1>2 DEF Program, Starting, Started
<1>6. Shutdown'
  BY <1>1, <1>2 DEF Shutdown, Gone
<1>7. ~Remaps => Mapping' /\ MemoryOnce'
  BY <1>1, <1>2 DEF Mapping, MemoryOnce, Shutdown
<1> QED BY <1>2, <1>3, <1>4, <1>5, <1>6, <1>7

LEMMA DropSizeInv ==
  ASSUME IInv, DropSize
  PROVE  IInv'
<1> USE DEF IInv, DropSize, At, config, kernel
<1>1. Top.at = "dropsize" /\ Depth \in Nat \ {0} /\ base = None
  BY ProgramAlone DEF Shutdown
<1>2. /\ StackOK' /\ Depth' = Depth /\ Top'.at = "finish"
      /\ \A x : InHand(x) => InHand(x)'
  BY <1>1, GoTo DEF Steps, HandlerSteps, HoldingSteps
<1>3. Typed'
  BY DEF Typed
<1>4. Owning' /\ Sizing'
  BY <1>1, <1>2 DEF Owning, Sizing, Gone
<1>5. Depth = 1 => Program'
  BY <1>1, <1>2 DEF Program, Starting, Started
<1>6. Shutdown'
  BY <1>1, <1>2 DEF Shutdown, Gone
<1>7. ~Remaps => Mapping' /\ MemoryOnce'
  BY <1>1, <1>2 DEF Mapping, MemoryOnce
<1> QED BY <1>2, <1>3, <1>4, <1>5, <1>6, <1>7

LEMMA FinishShutdownInv ==
  ASSUME IInv, FinishShutdown
  PROVE  IInv'
<1> USE DEF IInv, FinishShutdown, At, config, memory, kernel
<1>1. Top.at = "finish" /\ Depth \in Nat \ {0} /\ Top.got = <<>>
  BY ProgramAlone DEF FrameOK, HoldingSteps
<1>2. PICK a \in Steps : a = (IF Depth = 1 THEN "idle" ELSE "spin")
  BY DEF Steps
<1>3. /\ StackOK' /\ Depth' = Depth /\ Top'.at = a
      /\ \A x : InHand(x) => InHand(x)'
  <2>1. Go(a) /\ (Depth = 1 \/ a \in HandlerSteps)
    BY <1>2 DEF HandlerSteps
  <2>2. {a, Top.at} \intersect HoldingSteps = {} /\ Top.at \notin {"close", "forget", "defaults"}
    BY <1>1, <1>2 DEF HoldingSteps
  <2> QED BY <2>1, <2>2, GoTo
<1>4. Typed'
  BY DEF Typed
<1>5. Owning' /\ Sizing'
  BY <1>3 DEF Owning, Sizing, Gone
<1>6. Depth = 1 => Program'
  <2>1. fd["cmd"] = None /\ fd["status"] = None /\ fd["log"] \in {None, Stderr}
    BY <1>1 DEF Shutdown, Gone, FieldNames
  <2>2. Depth = 1 => \A x : ~InHand(x)
    BY <1>1 DEF InHand, Top
  <2>3. Depth = 1 => \A d \in Fds : owner[d] # "pair"
    BY <2>1, <2>2, DaemonAssumption DEF Owning, DaemonAssumption
  <2>4. Depth = 1 => Starting'
    BY <1>1, <1>2, <1>3 DEF Program, Starting
  <2>5. Depth = 1 => Started'
    BY <1>1, <1>2, <1>3, <2>1, <2>3 DEF Program, Started, Log
  <2> QED BY <2>4, <2>5 DEF Program
<1>7. Shutdown'
  BY <1>1, <1>2, <1>3 DEF Shutdown, Gone
<1>8. ~Remaps => Mapping' /\ MemoryOnce'
  BY <1>2, <1>3 DEF Mapping, MemoryOnce
<1> QED BY <1>3, <1>4, <1>5, <1>6, <1>7, <1>8

-----------------------------------------------------------------------------
(* Signals.                                                                 *)

LEMMA CrashInv ==
  ASSUME IInv, NEW s \in Signals, Crash(s)
  PROVE  IInv'
<1> USE DEF IInv
<1>1. UNCHANGED <<initialized, fd, base, sized, argument, foreign, handling, owner, mapped, alive>>
  BY DEF Crash, state, config, memory, kernel
<1>2. /\ StackOK' /\ Depth' # 1 /\ Top'.at = "report"
      /\ \A x : InHand(x) => InHand(x)'
  BY CrashPushes, ProgramAlone
<1>3. Typed' /\ Owning' /\ Sizing'
  BY <1>1, <1>2 DEF Typed, Owning, Sizing, Gone
<1>4. Shutdown'
  BY <1>2 DEF Shutdown
<1>5. ~Remaps => Mapping' /\ MemoryOnce'
  BY <1>1, <1>2 DEF Mapping, MemoryOnce
<1> QED BY <1>2, <1>3, <1>4, <1>5

LEMMA ReportInv ==
  ASSUME IInv, Report, Depth > 1
  PROVE  IInv'
<1> USE DEF IInv
<1>1. UNCHANGED <<initialized, fd, base, sized, argument, foreign, handling, owner, mapped, alive>>
  BY DEF Report, state, config, memory, kernel
<1>2. Top.at = "report" /\ Top.field = 1 /\ Depth \in Nat
  BY ProgramAlone DEF Report, At, FrameOK
<1>3. /\ StackOK' /\ Depth' = Depth /\ Top'.at = "close" /\ Top'.field = 1
      /\ \A x : InHand(x) => InHand(x)'
  BY <1>2, GoTo DEF Report, Steps, HandlerSteps, HoldingSteps
<1>4. Typed' /\ Owning' /\ Sizing'
  BY <1>1, <1>3 DEF Typed, Owning, Sizing, Gone
<1>5. Shutdown'
  BY <1>3 DEF Shutdown
<1>6. ~Remaps => Mapping' /\ MemoryOnce'
  BY <1>1, <1>3 DEF Mapping, MemoryOnce
<1> QED BY <1>2, <1>3, <1>4, <1>5, <1>6

(* Nothing the invariant speaks of changes but, possibly, alive. *)
LEMMA StillInv ==
  ASSUME IInv, UNCHANGED <<state, kernel, stack>>, alive' \in BOOLEAN
  PROVE  IInv'
<1>1. UNCHANGED <<initialized, fd, base, sized, argument, foreign, handling, owner, mapped>>
  BY DEF state, config, memory, kernel
<1>2. StackOK' /\ Depth' = Depth /\ Top' = Top /\ Field' = Field /\ \A x : InHand(x) <=> InHand(x)'
  BY StackUnchanged DEF IInv, Field
<1>3. Typed' /\ Owning' /\ Sizing'
  BY <1>1, <1>2 DEF IInv, Typed, Owning, Sizing, Gone
<1>4. Shutdown'
  BY <1>1, <1>2 DEF IInv, Shutdown, Gone
<1>5. Depth' = 1 => Program'
  BY <1>1, <1>2 DEF IInv, Program, Starting, Started, Channels, Log
<1>6. ~Remaps => Mapping' /\ MemoryOnce'
  BY <1>1, <1>2 DEF IInv, Mapping, MemoryOnce
<1> QED BY <1>2, <1>3, <1>4, <1>5, <1>6 DEF IInv

-----------------------------------------------------------------------------
LEMMA InitInv == Init => IInv
<1> SUFFICES ASSUME Init PROVE IInv
  OBVIOUS
<1> USE DaemonAssumption DEF DaemonAssumption, Init, Zeroed, NoConfig
<1> DEFINE fr == Frame(None, "idle")
<1>1. fr \in Frames /\ FrameOK(fr) /\ fr.sig = None /\ fr.at = "idle" /\ fr.got = <<>>
  BY DEF Frame, Frames, FrameOK, Steps, HoldingSteps
<1>2. Depth = 1 /\ Top = fr /\ stack = <<fr>>
  BY DEF Depth, Top
<1>3. StackOK
  BY <1>1, <1>2 DEF StackOK
<1>4. Typed
  BY DEF Typed, Owners
<1>5. \A d \in Fds : owner[d] \in {"client", "free"}
  OBVIOUS
<1>6. Owning /\ Sizing
  BY <1>5 DEF Owning, Sizing, Gone
<1>7. Program /\ Shutdown
  BY <1>1, <1>2, <1>5 DEF Program, Starting, Started, Shutdown, FieldNames
<1>8. Mapping /\ MemoryOnce
  BY <1>1, <1>2 DEF Mapping, MemoryOnce
<1> QED BY <1>3, <1>4, <1>6, <1>7, <1>8 DEF IInv

LEMMA StepInv == IInv /\ [Next]_vars => IInv'
<1> SUFFICES ASSUME IInv, [Next]_vars PROVE IInv'
  OBVIOUS
<1>1. CASE \/ Copied \/ SetDefault \/ SignalsSetUp \/ StartLogging
           \/ CreateChannels \/ StoreCommand \/ StoreStatus \/ FinishInit
           \/ Supervise \/ StoreBase \/ StoreSize \/ StartShutdown
  BY <1>1, CopiedInv, SetDefaultInv, SignalsSetUpInv, StartLoggingInv, CreateChannelsInv,
     StoreCommandInv, StoreStatusInv, FinishInitInv, SuperviseInv, StoreBaseInv, StoreSizeInv,
     StartShutdownInv
<1>2. CASE \E c \in Configs \union {Zeroed} : StartInit(c)
  BY <1>2, StartInitInv
<1>3. CASE \E f \in FieldNames : CopyField(f)
  BY <1>3, CopyFieldInv
<1>4. CASE \E d \in Fds \union {None} : HandOverLog(d)
  BY <1>4, HandOverLogInv
<1>5. CASE \E d \in Fds : ClientOpen(d) \/ ClientClose(d)
  BY <1>5, ClientOpenInv, ClientCloseInv
<1>6. CASE \E m \in Maps : MapMemory(m)
  BY <1>6, MapMemoryInv
<1>7. CASE ShutdownStep
  BY <1>7, CloseInv, ForgetInv, UnmapInv, DropBaseInv, DropSizeInv, FinishShutdownInv
  DEF ShutdownStep
<1>8. CASE \E s \in Signals : SetupSignal(s) \/ Crash(s)
  BY <1>8, SetupSignalInv, CrashInv
<1>9. CASE \E s \in Signals : Killed(s)
  BY <1>9, StillInv DEF Killed
<1>10. CASE Depth > 1 /\ Report
  BY <1>10, ReportInv
<1>11. CASE UNCHANGED vars
  BY <1>11, StillInv DEF vars, IInv, Typed
<1> QED BY <1>1, <1>2, <1>3, <1>4, <1>5, <1>6, <1>7, <1>8, <1>9, <1>10, <1>11 DEF Next, CrashStep

(* Every reachable state satisfies the invariant, however often signals     *)
(* interrupt the program and each other.                                    *)
THEOREM LifeCycleHolds == Spec => []IInv
BY InitInv, StepInv, PTL DEF Spec

(* Types, and a stack of handlers that each have a signal of their own, so  *)
(* that there are never more handlers than signals.                         *)
THEOREM TypeCorrect == Spec => []TypeOK
<1>1. IInv => TypeOK
  BY FieldOrder DEF IInv, Typed, StackOK, TypeOK, Frames
<1> QED BY <1>1, LifeCycleHolds, PTL

(* The half of NothingLost that does not depend on how often a client sets  *)
(* up memory.                                                               *)
PairsKnown == \A d \in Fds : owner[d] = "pair" => d \in {fd["cmd"], fd["status"]} \/ InHand(d)

(* Whatever crashes where, every descriptor of a pair is one the state      *)
(* names or a call holds.                                                   *)
THEOREM NoPairIsLost == Spec => []PairsKnown
<1>1. IInv => PairsKnown
  BY DEF IInv, Owning, PairsKnown
<1> QED BY <1>1, LifeCycleHolds, PTL

(* And so is every mapping of a client that sets up memory once.            *)
THEOREM NothingIsLost == ~Remaps => (Spec => []NothingLost)
<1>1. ASSUME ~Remaps PROVE IInv => NothingLost
  BY <1>1 DEF IInv, Owning, Mapping, NothingLost
<1>2. ASSUME ~Remaps PROVE Spec => []NothingLost
  <2>1. IInv => NothingLost
    BY <1>1, <1>2
  <2> QED BY <2>1, LifeCycleHolds, PTL
<1> QED BY <1>2

(* A program whose daemon runs has two ends of one pair, or none, and a log *)
(* of its own.                                                              *)
THEOREM ChannelsStayOpen == Spec => []ChannelsOpen
<1>1. IInv => ChannelsOpen
  BY DEF IInv, Program, Started, Channels, Log, ChannelsOpen
<1> QED BY <1>1, LifeCycleHolds, PTL

(* A step that frees a descriptor of the client is the client's, or the     *)
(* descriptor is one that a configuration named and no default has replaced.*)
THEOREM ClosesOnlyItsOwn == Spec => ClosesItsOwn
<1> DEFINE Own == \A d \in Fds :
                    owner[d] = "client" /\ owner'[d] # "client" => Top.at = "idle" \/ d \in foreign
<1>1. IInv /\ [Next]_vars => Own
  <2> SUFFICES ASSUME IInv, [Next]_vars, Top.at # "idle"
               PROVE  Own
    OBVIOUS
  <2> USE DEF At, state, config, memory, kernel
  <2>1. CASE CreateChannels
    BY <2>1 DEF CreateChannels, IInv, Typed
  <2>2. CASE Close
    <3>1. PICK f \in FieldNames : f = Field
      BY ProgramAlone, FieldOrder DEF IInv, Field, Frames
    <3>2. CASE MustClose
      <4>1. owner' = [owner EXCEPT ![fd[f]] = "free"]
        BY <2>2, <3>1, <3>2 DEF Close
      <4>2. fd[f] \in foreign \/ owner[fd[f]] # "client"
        BY <3>1, <3>2 DEF MustClose, IInv, Owning, Gone
      <4> QED BY <4>1, <4>2 DEF IInv, Typed
    <3>3. CASE ~MustClose
      BY <2>2, <3>3 DEF Close
    <3> QED BY <3>2, <3>3
  <2>3. CASE (\E f \in FieldNames : CopyField(f)) \/ SetDefault
    BY <2>3 DEF CopyField, SetDefault, HandBack, IInv, Typed
  <2>4. CASE /\ ~CreateChannels /\ ~Close
             /\ ~((\E f \in FieldNames : CopyField(f)) \/ SetDefault)
    BY <2>4 DEF vars, Next, StartInit, Copied, SetupSignal, SignalsSetUp, StartLogging,
       StoreCommand, StoreStatus, FinishInit, Supervise, StoreBase, StoreSize, StartShutdown,
       HandOverLog, ClientOpen, ClientClose, MapMemory, ShutdownStep, Forget, Unmap, DropBase,
       DropSize, FinishShutdown, Crash, Killed, CrashStep, Report
  <2> QED BY <2>1, <2>2, <2>3, <2>4
<1>2. IInv /\ [Next]_vars => [Own]_vars
  BY <1>1
<1> QED BY <1>2, LifeCycleHolds, PTL DEF Spec, ClosesItsOwn

(* The safety half of CrashReleases: a crash handler that is through has    *)
(* released everything but what the interrupted calls hold themselves.      *)
THEOREM CrashedIsReleased == ~Remaps => (Spec => [](Top.at = "spin" => Released))
<1>1. ASSUME ~Remaps, IInv, Top.at = "spin" PROVE Released
  <2>1. \A f \in FieldNames : Gone(f)
    BY <1>1 DEF IInv, Shutdown
  <2>2. /\ fd["cmd"] = None /\ fd["status"] = None /\ fd["log"] \in {None, Stderr}
        /\ ~initialized /\ (base # None => InHand(base))
    BY <1>1, <2>1 DEF IInv, Shutdown, Gone, FieldNames
  <2>3. \A d \in Fds : owner[d] \in {"pair", "log"} => InHand(d)
    BY <1>1, <2>2, DaemonAssumption DEF IInv, Owning, DaemonAssumption
  <2>4. \A m \in mapped : InHand(m)
    BY <1>1, <2>2, DaemonAssumption DEF IInv, Mapping, Typed, DaemonAssumption
  <2> QED BY <1>1, <2>2, <2>3, <2>4 DEF Released
<1>2. ASSUME ~Remaps PROVE Spec => [](Top.at = "spin" => Released)
  <2>1. IInv => (Top.at = "spin" => Released)
    BY <1>1, <1>2
  <2> QED BY <2>1, LifeCycleHolds, PTL
<1> QED BY <1>2
=============================================================================
