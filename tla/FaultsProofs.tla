---------------------------- MODULE FaultsProofs ----------------------------
(***************************************************************************)
(* Proofs about Faults, for every set of signals, exceptions, handlers and  *)
(* answers: types hold of every program; that a signal does not enter its   *)
(* own handler, and that what is reported of an exception is one exception, *)
(* of a program whose handlers do not use the interface themselves.         *)
(***************************************************************************)
EXTENDS Faults, TLAPS

-----------------------------------------------------------------------------
(* The stack.                                                               *)

Frames(q) ==
  /\ q \in Seq(Contexts) /\ Len(q) > 0
  /\ \A i \in 1..Len(q) :
       /\ q[i].kind = "guest" <=> i = 1
       /\ q[i].kind = "signal" => q[i].sig # None /\ q[i].type # None
       /\ q[i].refused => q[i].kind = "signal"

StackOK == Frames(stack)

RestOK ==
  /\ ready \in BOOLEAN /\ pending \in BOOLEAN /\ alive \in BOOLEAN
  /\ table \in [Types -> Handlers \union {None}]
  /\ faultHandler \in Handlers \union {None}
  /\ current \in Info /\ last \in Info
  /\ disposition \in [Signals -> Dispositions] /\ mask \subseteq Signals

LEMMA TypeParts == TypeOK <=> RestOK /\ StackOK
BY DEF TypeOK, RestOK, StackOK, Frames, Depth

LEMMA TopOK ==
  ASSUME StackOK
  PROVE  Depth \in Nat /\ Depth \in 1..Depth /\ Top \in Contexts
BY DEF StackOK, Frames, Depth, Top

(* A context entered on top of the others. *)
LEMMA PushOK ==
  ASSUME NEW q, Frames(q), NEW c \in Contexts, c.kind # "guest", ~c.refused,
         c.kind = "signal" => c.sig # None /\ c.type # None
  PROVE  /\ Frames(Append(q, c))
         /\ Len(Append(q, c)) = Len(q) + 1 /\ Append(q, c)[Len(q) + 1] = c
         /\ \A i \in 1..Len(q) : Append(q, c)[i] = q[i]
<1>1. Len(q) \in Nat /\ Len(q) > 0
  BY DEF Frames
<1> DEFINE r == Append(q, c)
<1>2. /\ r \in Seq(Contexts) /\ Len(r) = Len(q) + 1 /\ r[Len(q) + 1] = c
      /\ \A i \in 1..Len(q) : r[i] = q[i]
  BY DEF Frames
<1> HIDE DEF r
<1>3. ASSUME NEW i \in 1..Len(r)
      PROVE  /\ r[i].kind = "guest" <=> i = 1
             /\ r[i].kind = "signal" => r[i].sig # None /\ r[i].type # None
             /\ r[i].refused => r[i].kind = "signal"
  <2>1. CASE i \in 1..Len(q)
    BY <2>1, <1>2 DEF Frames
  <2>2. CASE i = Len(q) + 1
    <3>1. i # 1
      BY <2>2, <1>1
    <3>2. r[i] = c
      BY <2>2, <1>2
    <3> QED BY <3>1, <3>2
  <2>3. i \in 1..Len(q) \/ i = Len(q) + 1
    BY <1>1, <1>2
  <2> QED BY <2>1, <2>2, <2>3
<1>4. Frames(r)
  BY <1>1, <1>2, <1>3 DEF Frames
<1> QED BY <1>2, <1>4 DEF r

(* A step of one context that does not change what it is. *)
SameContext(c, d) ==
  c.kind = d.kind /\ c.sig = d.sig /\ c.type = d.type /\ c.saved = d.saved /\ c.addr = d.addr

LEMMA StepOK ==
  ASSUME NEW q, Frames(q), NEW n \in 1..Len(q), NEW c \in Contexts, SameContext(c, q[n]),
         c.refused => c.kind = "signal"
  PROVE  /\ Frames([q EXCEPT ![n] = c])
         /\ Len([q EXCEPT ![n] = c]) = Len(q)
         /\ \A i \in 1..Len(q) : SameContext([q EXCEPT ![n] = c][i], q[i])
<1>1. Len(q) \in Nat
  BY DEF Frames
<1> DEFINE r == [q EXCEPT ![n] = c]
<1>2. r \in Seq(Contexts) /\ Len(r) = Len(q)
  BY DEF Frames
<1>3. \A i \in 1..Len(q) : r[i] = IF i = n THEN c ELSE q[i]
  BY DEF Frames
<1> HIDE DEF r
<1>4. \A i \in 1..Len(q) : SameContext(r[i], q[i])
  BY <1>3 DEF SameContext
<1>5. \A i \in 1..Len(q) : r[i].refused => r[i].kind = "signal"
  BY <1>3 DEF Frames
<1>6. Frames(r)
  BY <1>1, <1>2, <1>4, <1>5 DEF Frames, SameContext
<1> QED BY <1>2, <1>4, <1>6 DEF r

(* The running context is over. *)
LEMMA PopOK ==
  ASSUME NEW q, Frames(q), q[Len(q)].kind # "guest"
  PROVE  /\ Len(q) > 1
         /\ Frames(SubSeq(q, 1, Len(q) - 1))
         /\ Len(SubSeq(q, 1, Len(q) - 1)) = Len(q) - 1
         /\ \A i \in 1..(Len(q) - 1) : SubSeq(q, 1, Len(q) - 1)[i] = q[i]
<1>1. Len(q) \in Nat /\ Len(q) > 1
  BY DEF Frames
<1> DEFINE r == SubSeq(q, 1, Len(q) - 1)
<1>2. /\ r \in Seq(Contexts) /\ Len(r) = Len(q) - 1
      /\ \A i \in 1..(Len(q) - 1) : r[i] = q[i]
  BY <1>1 DEF Frames
<1> HIDE DEF r
<1>3. Frames(r)
  BY <1>1, <1>2 DEF Frames
<1> QED BY <1>1, <1>2, <1>3 DEF r

-----------------------------------------------------------------------------
(* Types.                                                                   *)

LEMMA InitTypes == Init => RestOK /\ StackOK
<1> SUFFICES ASSUME Init PROVE RestOK /\ StackOK
  OBVIOUS
<1>1. RestOK
  BY DEF Init, RestOK, Info, NoInfo, Dispositions
<1> DEFINE g == [kind |-> "guest", handler |-> None, type |-> None, addr |-> None,
                 sig |-> None, saved |-> {}, cause |-> None, spent |-> FALSE,
                 refused |-> FALSE]
<1>2. g \in Contexts /\ g.kind = "guest" /\ g.refused = FALSE
  BY DEF Contexts
<1>3. stack = <<g>>
  BY DEF Init
<1> HIDE DEF g
<1>4. stack \in Seq(Contexts) /\ Depth = 1 /\ stack[1] = g
  BY <1>2, <1>3 DEF Depth
<1>5. StackOK
  BY <1>2, <1>4 DEF StackOK, Frames, Depth
<1> QED BY <1>1, <1>5

(* The tables start anew, or are left alone but for the named changes. *)
LEMMA ResetOK ==
  ASSUME RestOK, StackOK, NEW on \in BOOLEAN, ResetTables(on),
         disposition' \in [Signals -> Dispositions],
         UNCHANGED <<mask, stack, alive, last>>
  PROVE  RestOK' /\ StackOK'
<1>1. RestOK'
  BY DEF RestOK, ResetTables, NoInfo, Info
<1> QED BY <1>1 DEF StackOK, Depth

LEMMA NoInfoOK == NoInfo \in Info
BY DEF NoInfo, Info

LEMMA TableTypes ==
  ASSUME RestOK, StackOK,
         NEW t \in Types, NEW h \in Handlers \union {None},
         RegisterHandler(t, h) \/ UnregisterHandler(t) \/ SetFaultHandler(h)
           \/ ClearException
  PROVE  RestOK' /\ StackOK'
<1>1. RestOK'
  <2>1. CASE RegisterHandler(t, h)
    <3>1. CASE ready
      BY <2>1, <3>1 DEF RegisterHandler, RestOK
    <3>2. CASE ~ready
      <4>1. table' \in [Types -> Handlers \union {None}]
        BY <2>1, <3>2 DEF RegisterHandler
      <4> QED BY <2>1, <3>2, <4>1, NoInfoOK DEF RegisterHandler, RestOK
    <3> QED BY <3>1, <3>2
  <2>2. CASE UnregisterHandler(t)
    BY <2>2 DEF UnregisterHandler, RestOK, infos
  <2>3. CASE SetFaultHandler(h)
    <3>1. CASE ready
      BY <2>3, <3>1 DEF SetFaultHandler, RestOK
    <3>2. CASE ~ready
      <4>1. table' \in [Types -> Handlers \union {None}]
        BY <2>3, <3>2 DEF SetFaultHandler
      <4> QED BY <2>3, <3>2, <4>1, NoInfoOK DEF SetFaultHandler, RestOK
    <3> QED BY <3>1, <3>2
  <2>4. CASE ClearException
    BY <2>4 DEF ClearException, RestOK, NoInfo, Info, tables
  <2> QED BY <2>1, <2>2, <2>3, <2>4
<1>2. stack' = stack
  BY DEF RegisterHandler, UnregisterHandler, SetFaultHandler, ClearException
<1> QED BY <1>1, <1>2 DEF StackOK, Depth

LEMMA HandlerOfOK ==
  ASSUME RestOK, NEW t \in Types
  PROVE  HandlerOf(t) \in Handlers \union {None}
BY DEF RestOK, HandlerOf

(* The caller of rosetta_raise_exception. *)
LEMMA CallerOK ==
  ASSUME StackOK
  PROVE  /\ Frames(Caller) /\ Len(Caller) = Depth
         /\ \A i \in 1..Depth : SameContext(Caller[i], stack[i])
<1> DEFINE b == Depth > 1
           c == [Top EXCEPT !.spent = b]
<1>1. Top \in Contexts /\ Depth \in 1..Depth /\ Top = stack[Depth]
  BY TopOK DEF Top
<1>0. b \in BOOLEAN
  OBVIOUS
<1>4. Caller = [stack EXCEPT ![Depth] = c]
  BY DEF Caller, Top
<1> HIDE DEF b
<1>2. c \in Contexts
  BY <1>0, <1>1 DEF Contexts
<1>3. SameContext(c, Top) /\ c.refused = Top.refused
  BY <1>1 DEF Contexts, SameContext
<1>5. c.refused => c.kind = "signal"
  BY <1>1, <1>3 DEF StackOK, Frames, SameContext, Depth
<1> HIDE DEF c
<1> QED BY <1>1, <1>2, <1>3, <1>4, <1>5, StepOK DEF StackOK, Depth

LEMMA RaiseTypes ==
  ASSUME RestOK, StackOK, NEW t \in Types, NEW a \in Addrs \union {None}, Raise(t, a)
  PROVE  RestOK' /\ StackOK'
<1> DEFINE f == t \notin Continued
<1>1. [type |-> t, addr |-> a, fatal |-> f] \in Info
  BY DEF Info
<1>2. /\ [type |-> t, addr |-> None, fatal |-> FALSE] \in Info
      /\ [type |-> t, addr |-> a, fatal |-> FALSE] \in Info
  BY DEF Info
<1>3. CASE RaiseUnhandled(t, a)
  <2>1. RestOK'
    BY <1>1, <1>3 DEF RaiseUnhandled, RestOK, tables
  <2>2. StackOK'
    BY <1>3, CallerOK DEF RaiseUnhandled, StackOK
  <2> QED BY <2>1, <2>2
<1>4. CASE RaiseHandled(t, a)
  <2>1. RestOK'
    BY <1>2, <1>4 DEF RaiseHandled, RestOK, tables
  <2> DEFINE h == HandlerOf(t)
             c == Context("raise", h, t, a, None)
  <2>0. h \in Handlers \union {None}
    BY HandlerOfOK
  <2>3. stack' = Append(Caller, c)
    BY <1>4 DEF RaiseHandled
  <2> HIDE DEF h
  <2>2. c \in Contexts /\ c.kind = "raise" /\ c.refused = FALSE
    BY <2>0 DEF Context, Contexts, RestOK
  <2> HIDE DEF c
  <2>4. StackOK'
    BY <2>2, <2>3, CallerOK, PushOK DEF StackOK
  <2> QED BY <2>1, <2>4
<1> QED BY <1>3, <1>4 DEF Raise

(* The steps of the running context. *)
LEMMA TopStep ==
  ASSUME StackOK, NEW c \in Contexts, SameContext(c, Top), c.refused => c.kind = "signal"
  PROVE  /\ Frames([stack EXCEPT ![Depth] = c]) /\ Len([stack EXCEPT ![Depth] = c]) = Depth
         /\ \A i \in 1..Depth : SameContext([stack EXCEPT ![Depth] = c][i], stack[i])
BY TopOK, StepOK DEF StackOK, Depth, Top

LEMMA PopTop ==
  ASSUME StackOK, Top.kind # "guest"
  PROVE  /\ Depth \in Nat /\ Depth > 1
         /\ Frames(Below) /\ Len(Below) = Depth - 1
         /\ \A i \in 1..(Depth - 1) : Below[i] = stack[i]
BY TopOK, PopOK DEF StackOK, Depth, Top, Below

LEMMA RaiseReturnTypes ==
  ASSUME RestOK, StackOK, RaiseReturn
  PROVE  RestOK' /\ StackOK'
<1>1. StackOK'
  BY PopTop DEF RaiseReturn, StackOK
<1>2. PICK fatal \in BOOLEAN :
        /\ current' = [current EXCEPT !.fatal = fatal,
                                      !.addr = IF Top.addr = None THEN @ ELSE Top.addr]
        /\ last' = [last EXCEPT !.fatal = fatal]
  BY DEF RaiseReturn
<1>3. Top.addr \in Addrs \union {None}
  BY TopOK DEF Contexts
<1>4. current' \in Info /\ last' \in Info
  BY <1>2, <1>3 DEF RestOK, Info
<1> QED BY <1>1, <1>4 DEF RaiseReturn, RestOK, tables

LEMMA FaultTypes ==
  ASSUME RestOK, StackOK, NEW s \in Signals, Fault(s)
  PROVE  /\ RestOK' /\ StackOK'
         /\ Depth' = Depth /\ \A i \in 1..Depth : SameContext(stack'[i], stack[i])
<1> DEFINE b == Depth > 1
           c == [Top EXCEPT !.cause = s, !.spent = b]
<1>1. Top \in Contexts /\ Depth \in 1..Depth /\ Top = stack[Depth]
  BY TopOK DEF Top
<1>2. b \in BOOLEAN
  OBVIOUS
<1>3. stack' = [stack EXCEPT ![Depth] = c]
  BY DEF Fault, Top
<1> HIDE DEF b
<1>4. c \in Contexts
  BY <1>1, <1>2 DEF Contexts
<1>5. SameContext(c, Top) /\ c.refused = Top.refused
  BY <1>1 DEF Contexts, SameContext
<1>6. c.refused => c.kind = "signal"
  BY <1>1, <1>5 DEF StackOK, Frames, SameContext, Depth
<1> HIDE DEF c
<1>7. Frames(stack') /\ Len(stack') = Depth
  BY <1>3, <1>4, <1>5, <1>6, TopStep
<1>8. \A i \in 1..Depth : SameContext(stack'[i], stack[i])
  BY <1>3, <1>4, <1>5, <1>6, TopStep
<1>9. RestOK'
  BY DEF Fault, RestOK, tables, infos
<1> QED BY <1>7, <1>8, <1>9 DEF StackOK, Depth

LEMMA SignalEnterTypes ==
  ASSUME RestOK, StackOK, SignalEnter
  PROVE  /\ RestOK' /\ StackOK'
         /\ Top.cause \in Signals /\ Top.cause \notin mask
         /\ mask' = mask \union {Top.cause}
         /\ Depth' = Depth + 1 /\ \A i \in 1..Depth : stack'[i] = stack[i]
         /\ stack'[Depth + 1].kind = "signal" /\ stack'[Depth + 1].sig = Top.cause
         /\ stack'[Depth + 1].saved = mask
<1> DEFINE s == Top.cause
           t == SignalType[s]
           h == EntryOf(s)
           c == Context("signal", h, t, None, s)
<1>1. s \in Signals /\ s \notin mask /\ mask' = mask \union {s}
  BY TopOK DEF SignalEnter, Contexts
<1>2. t \in Types /\ h \in Handlers \union {None, "own"}
  BY <1>1, FaultsAssumption DEF FaultsAssumption, RestOK, EntryOf
<1>3. s # None /\ t # None
  BY <1>1, <1>2, FaultsAssumption DEF FaultsAssumption
<1>4. stack' = Append(stack, c)
  BY DEF SignalEnter
<1>5. RestOK'
  BY <1>1 DEF SignalEnter, RestOK, tables, infos
<1> HIDE DEF s, t, h
<1>6. /\ c \in Contexts /\ c.kind = "signal" /\ c.sig = s /\ c.type = t /\ c.saved = mask
      /\ c.refused = FALSE
  BY <1>1, <1>2 DEF Context, Contexts, RestOK
<1> HIDE DEF c
<1>7. /\ Frames(stack') /\ Len(stack') = Depth + 1 /\ stack'[Depth + 1] = c
      /\ \A i \in 1..Depth : stack'[i] = stack[i]
  BY <1>3, <1>4, <1>6, PushOK DEF StackOK, Depth
<1> QED BY <1>1, <1>5, <1>6, <1>7 DEF StackOK, Depth, s

LEMMA ResumeTypes ==
  ASSUME RestOK, StackOK, Resume
  PROVE  /\ RestOK' /\ StackOK' /\ mask' = Top.saved
         /\ Depth > 1 /\ Depth' = Depth - 1
         /\ \A i \in 1..(Depth - 1) : SameContext(stack'[i], stack[i])
<1>1. /\ Depth \in Nat /\ Depth > 1 /\ Frames(Below) /\ Len(Below) = Depth - 1
      /\ \A i \in 1..(Depth - 1) : Below[i] = stack[i]
  BY PopTop DEF Resume
<1> DEFINE n == Depth - 1
           d == Below[n]
           x(v) == IF v = "repair" THEN None ELSE d.cause
<1>2. n \in 1..Len(Below) /\ d \in Contexts
  BY <1>1 DEF Frames
<1>3. PICK y : y \in Signals \union {None} /\ stack' = [Below EXCEPT ![n].cause = y]
  <2>1. PICK v : stack' = [Below EXCEPT ![n].cause = IF v = "repair" THEN None ELSE @]
    BY DEF Resume
  <2>2. x(v) \in Signals \union {None}
    BY <1>2 DEF Contexts
  <2>3. stack' = [Below EXCEPT ![n].cause = x(v)]
    BY <2>1
  <2> QED BY <2>2, <2>3
<1> HIDE DEF x
<1> DEFINE c == [d EXCEPT !.cause = y]
<1>4. stack' = [Below EXCEPT ![n] = c]
  BY <1>3
<1>5. RestOK'
  <2>1. Top.saved \subseteq Signals
    BY TopOK DEF Contexts
  <2> QED BY <2>1 DEF Resume, RestOK, tables, infos
<1>6. c \in Contexts /\ SameContext(c, d) /\ c.refused = d.refused
  BY <1>2, <1>3 DEF Contexts, SameContext
<1>7. c.refused => c.kind = "signal"
  BY <1>1, <1>2, <1>6 DEF Frames, SameContext
<1> HIDE DEF c
<1>8. /\ Frames(stack') /\ Len(stack') = Len(Below)
      /\ \A i \in 1..Len(Below) : SameContext(stack'[i], Below[i])
  BY <1>1, <1>2, <1>4, <1>6, <1>7, StepOK
<1> QED BY <1>1, <1>5, <1>8 DEF StackOK, Depth, Resume

LEMMA RefuseTypes ==
  ASSUME RestOK, StackOK, Refuse
  PROVE  /\ RestOK' /\ StackOK' /\ mask' = mask
         /\ Depth' = Depth /\ \A i \in 1..Depth : SameContext(stack'[i], stack[i])
<1> DEFINE c == [Top EXCEPT !.refused = TRUE]
<1>1. Top \in Contexts /\ Top.kind = "signal"
  BY TopOK DEF Refuse
<1>2. c \in Contexts /\ SameContext(c, Top) /\ c.kind = "signal"
  BY <1>1 DEF Contexts, SameContext
<1>3. stack' = [stack EXCEPT ![Depth] = c]
  BY DEF Refuse, Top
<1> HIDE DEF c
<1>4. /\ Frames(stack') /\ Len(stack') = Depth
      /\ \A i \in 1..Depth : SameContext(stack'[i], stack[i])
  BY <1>2, <1>3, TopStep
<1>5. (Top.sig \in mask) \in BOOLEAN /\ "default" \in Dispositions
  BY DEF Dispositions
<1>6. RestOK'
  BY <1>5 DEF Refuse, RestOK, tables, infos
<1> QED BY <1>4, <1>6 DEF StackOK, Depth, Refuse

LEMMA SignalReturnTypes ==
  ASSUME RestOK, StackOK, SignalReturn
  PROVE  /\ RestOK' /\ StackOK' /\ mask' = Top.saved
         /\ Depth > 1 /\ Depth' = Depth - 1
         /\ \A i \in 1..(Depth - 1) : stack'[i] = stack[i]
<1>1. Top.kind = "signal" /\ Top.saved \subseteq Signals
  BY TopOK DEF SignalReturn, StackOK, Frames, Top, Depth, Contexts
<1>2. (disposition[Top.sig] # "default") \in BOOLEAN
  OBVIOUS
<1>3. RestOK'
  BY <1>1, <1>2 DEF SignalReturn, RestOK, tables, infos
<1> QED BY <1>1, <1>3, PopTop DEF SignalReturn, StackOK, Depth

(* Everything but the stack: a call of the program at the bottom of it, or  *)
(* of a handler that uses the interface.                                    *)
Calls ==
  \/ ExceptionInit \/ ExceptionCleanup \/ ClearException \/ CleanupSignals
  \/ \E t \in Types :
       UnregisterHandler(t) \/ \E h \in Handlers : RegisterHandler(t, h)
  \/ \E h \in Handlers \union {None} : SetFaultHandler(h)
  \/ \E failed \in SUBSET Signals : InstallSignals(failed)
  \/ \E s \in Signals :
       BlockSignal(s) \/ UnblockSignal(s) \/ \E d \in Dispositions : InstallHandler(s, d)
  \/ \E blocked \in SUBSET Signals : SetMask(blocked)

LEMMA CallTypes ==
  ASSUME RestOK, StackOK, Calls
  PROVE  RestOK' /\ StackOK' /\ stack' = stack
<1>1. CASE ExceptionInit
  BY <1>1, ResetOK DEF ExceptionInit, RestOK
<1>2. CASE ExceptionCleanup
  BY <1>2, ResetOK DEF ExceptionCleanup, RestOK
<1>3. CASE ClearException
  BY <1>3, NoInfoOK DEF ClearException, RestOK, StackOK, tables
<1>4. CASE CleanupSignals
  <2>1. disposition' \in [Signals -> Dispositions]
    BY <1>4 DEF CleanupSignals, Dispositions
  <2>2. CASE ready
    BY <1>4, <2>1, <2>2, ResetOK DEF CleanupSignals, RestOK
  <2>3. CASE ~ready
    BY <1>4, <2>1, <2>3 DEF CleanupSignals, RestOK, StackOK, tables
  <2> QED BY <2>2, <2>3
<1>5. ASSUME NEW t \in Types, UnregisterHandler(t) PROVE RestOK' /\ StackOK' /\ stack' = stack
  BY <1>5, TableTypes DEF UnregisterHandler
<1>6. ASSUME NEW t \in Types, NEW h \in Handlers, RegisterHandler(t, h)
      PROVE  RestOK' /\ StackOK' /\ stack' = stack
  BY <1>6, TableTypes DEF RegisterHandler
<1>7. ASSUME NEW h \in Handlers \union {None}, SetFaultHandler(h)
      PROVE  RestOK' /\ StackOK' /\ stack' = stack
  <2>2. PICK t \in Types : TRUE
    BY FaultsAssumption DEF FaultsAssumption
  <2> QED BY <1>7, <2>2, TableTypes DEF SetFaultHandler
<1>8. ASSUME NEW failed \in SUBSET Signals, InstallSignals(failed)
      PROVE  RestOK' /\ StackOK' /\ stack' = stack
  <2>1. disposition' \in [Signals -> Dispositions]
    BY <1>8 DEF InstallSignals, Dispositions, RestOK
  <2> QED BY <1>8, <2>1, ResetOK DEF InstallSignals
<1>9. ASSUME NEW s \in Signals, BlockSignal(s) \/ UnblockSignal(s)
      PROVE  RestOK' /\ StackOK' /\ stack' = stack
  BY <1>9 DEF BlockSignal, UnblockSignal, RestOK, StackOK, tables, infos
<1>10. ASSUME NEW s \in Signals, NEW d \in Dispositions, InstallHandler(s, d)
       PROVE  RestOK' /\ StackOK' /\ stack' = stack
  BY <1>10 DEF InstallHandler, RestOK, StackOK, tables, infos
<1>11. ASSUME NEW blocked \in SUBSET Signals, SetMask(blocked)
       PROVE  RestOK' /\ StackOK' /\ stack' = stack
  BY <1>11 DEF SetMask, RestOK, StackOK, tables, infos
<1> QED BY <1>1, <1>2, <1>3, <1>4, <1>5, <1>6, <1>7, <1>8, <1>9, <1>10, <1>11 DEF Calls

LEMMA KillTypes ==
  ASSUME RestOK, StackOK, SignalKills
  PROVE  RestOK' /\ StackOK' /\ stack' = stack /\ mask' = mask
BY DEF SignalKills, Die, RestOK, StackOK, tables, infos

(* The next-state relation, by what a step is to the stack. *)
LEMMA NextParts ==
  Next <=> \/ Calls
           \/ \E t \in Types :
                \E a \in IF t = "DAT_ABORT" THEN Addrs \union {None} ELSE {None} : Raise(t, a)
           \/ \E s \in Signals : Fault(s)
           \/ Handling
BY DEF Next, Calls

LEMMA NextTypes == RestOK /\ StackOK /\ [Next]_vars => RestOK' /\ StackOK'
<1> SUFFICES ASSUME RestOK, StackOK, [Next]_vars PROVE RestOK' /\ StackOK'
  OBVIOUS
<1>1. CASE Calls
  BY <1>1, CallTypes
<1>2. ASSUME NEW t \in Types,
             NEW a \in IF t = "DAT_ABORT" THEN Addrs \union {None} ELSE {None}, Raise(t, a)
      PROVE  RestOK' /\ StackOK'
  <2>1. a \in Addrs \union {None}
    OBVIOUS
  <2> QED BY <1>2, <2>1, RaiseTypes
<1>3. ASSUME NEW s \in Signals, Fault(s) PROVE RestOK' /\ StackOK'
  BY <1>3, FaultTypes
<1>4. CASE Handling
  BY <1>4, RaiseReturnTypes, KillTypes, SignalEnterTypes, ResumeTypes, RefuseTypes,
     SignalReturnTypes DEF Handling
<1>5. CASE UNCHANGED vars
  BY <1>5 DEF vars, tables, infos, RestOK, StackOK
<1> QED BY <1>1, <1>2, <1>3, <1>4, <1>5, NextParts

(* Types of the exception tables and of the stack of handlers, for handlers *)
(* that do anything. *)
THEOREM TypeCorrect == Spec => []TypeOK
<1>1. Init => TypeOK
  BY InitTypes, TypeParts
<1>2. TypeOK /\ [Next]_vars => TypeOK'
  <2>1. TypeOK' <=> RestOK' /\ StackOK'
    BY DEF TypeOK, RestOK, StackOK, Frames, Depth
  <2> QED BY <2>1, NextTypes, TypeParts
<1> QED BY <1>1, <1>2, PTL DEF Spec

-----------------------------------------------------------------------------
(* Handlers that do not use the interface: only the program calls it, at    *)
(* the bottom of the stack.                                                 *)

(* A signal with a handler that runs is blocked, and blocked for every      *)
(* context above it, so that returns keep it blocked.                       *)
Covered ==
  /\ \A i \in 1..Depth : stack[i].kind = "signal" => stack[i].sig \in mask
  /\ \A i, j \in 1..Depth :
       i < j /\ stack[i].kind = "signal" => stack[i].sig \in stack[j].saved

(* A raised exception is that of the program. *)
RaisedOnce == \A i \in 1..Depth : Raised(i) => i = 2

SigInv == RestOK /\ StackOK /\ Covered /\ NoReentry /\ RaisedOnce

LEMMA OnlyProgramCalls ==
  ASSUME Raising = {}, StackOK, MayCall
  PROVE  Depth = 1 /\ \A i \in 1..Depth : stack[i].kind = "guest"
<1>1. Depth = 1
  BY DEF MayCall
<1> QED BY <1>1 DEF StackOK, Frames, Depth

(* The program alone has nothing to cover. *)
LEMMA AloneInv ==
  ASSUME StackOK', Depth' = 1
  PROVE  Covered' /\ NoReentry' /\ RaisedOnce'
<1>1. \A i \in 1..Depth' : i = 1 /\ stack'[i].kind = "guest"
  BY DEF StackOK, Frames, Depth
<1> QED BY <1>1 DEF Covered, NoReentry, RaisedOnce, Raised

(* Contexts that only go on. *)
LEMMA KeepInv ==
  ASSUME SigInv, Depth' = Depth, mask' = mask,
         \A i \in 1..Depth : SameContext(stack'[i], stack[i])
  PROVE  Covered' /\ NoReentry' /\ RaisedOnce'
BY DEF SigInv, Covered, NoReentry, RaisedOnce, Raised, SameContext

(* A return, which restores the mask the context was entered with. *)
LEMMA PopInv ==
  ASSUME SigInv, Depth > 1, Depth' = Depth - 1,
         mask' = mask \/ mask' = Top.saved,
         \A i \in 1..(Depth - 1) : SameContext(stack'[i], stack[i])
  PROVE  Covered' /\ NoReentry' /\ RaisedOnce'
<1>1. Depth \in Nat /\ Top = stack[Depth]
  BY TopOK DEF SigInv, Top
<1>2. \A i \in 1..Depth' : i \in 1..Depth /\ i < Depth /\ SameContext(stack'[i], stack[i])
  BY <1>1
<1>3. NoReentry' /\ RaisedOnce'
  BY <1>2 DEF SigInv, NoReentry, RaisedOnce, Raised, SameContext
<1>4. \A i \in 1..Depth' : stack'[i].kind = "signal" => stack'[i].sig \in mask'
  BY <1>1, <1>2 DEF SigInv, Covered, SameContext
<1>5. \A i, j \in 1..Depth' :
        i < j /\ stack'[i].kind = "signal" => stack'[i].sig \in stack'[j].saved
  BY <1>2 DEF SigInv, Covered, SameContext
<1> QED BY <1>3, <1>4, <1>5 DEF Covered

LEMMA SigInit == Init => SigInv
<1> SUFFICES ASSUME Init PROVE SigInv
  OBVIOUS
<1>1. RestOK /\ StackOK
  BY InitTypes
<1>2. Depth = 1
  BY DEF Init, Depth
<1>3. \A i \in 1..Depth : i = 1 /\ stack[i].kind = "guest"
  BY <1>1, <1>2 DEF StackOK, Frames, Depth
<1> QED BY <1>1, <1>3 DEF SigInv, Covered, NoReentry, RaisedOnce, Raised

LEMMA SigCalls ==
  ASSUME Raising = {}, SigInv, Calls
  PROVE  Depth = 1 /\ Depth' = 1 /\ Covered' /\ NoReentry' /\ RaisedOnce'
<1>1. StackOK' /\ stack' = stack
  BY CallTypes DEF SigInv
<1>2. MayCall
  BY DEF Calls, ExceptionInit, ExceptionCleanup, ClearException, CleanupSignals,
         UnregisterHandler, RegisterHandler, SetFaultHandler, InstallSignals, BlockSignal,
         UnblockSignal, InstallHandler, SetMask
<1>3. Depth = 1
  BY <1>2, OnlyProgramCalls DEF SigInv
<1>4. Depth' = 1
  BY <1>1, <1>3 DEF Depth
<1> QED BY <1>1, <1>3, <1>4, AloneInv

(* A raise by the program: its handler is the second context. *)
LEMMA RaiseShape ==
  ASSUME Raising = {}, RestOK, StackOK, NEW t \in Types, NEW a \in Addrs \union {None},
         RaiseHandled(t, a)
  PROVE  /\ Depth = 1 /\ Depth' = 2
         /\ stack'[1].kind = "guest" /\ stack'[2].kind = "raise" /\ stack'[2].addr = a
<1>1. Depth = 1
  BY OnlyProgramCalls DEF RaiseHandled, MayRaise
<1> DEFINE h == HandlerOf(t)
           c == Context("raise", h, t, a, None)
<1>2. h \in Handlers \union {None}
  BY HandlerOfOK
<1>3. stack' = Append(Caller, c)
  BY DEF RaiseHandled
<1> HIDE DEF h
<1>4. c \in Contexts /\ c.kind = "raise" /\ c.refused = FALSE /\ c.addr = a
  BY <1>2 DEF Context, Contexts, RestOK
<1> HIDE DEF c
<1>5. Frames(stack') /\ Len(stack') = 2 /\ stack'[2] = c
  <2>1. Frames(Caller) /\ Len(Caller) = 1
    BY <1>1, CallerOK
  <2>2. c.kind # "guest" /\ ~c.refused /\ c.kind # "signal"
    BY <1>4
  <2>3. /\ Frames(Append(Caller, c)) /\ Len(Append(Caller, c)) = Len(Caller) + 1
        /\ Append(Caller, c)[Len(Caller) + 1] = c
    BY <1>4, <2>1, <2>2, PushOK
  <2>4. Len(Caller) + 1 = 2
    BY <2>1
  <2> QED BY <1>3, <2>3, <2>4
<1> QED BY <1>1, <1>4, <1>5 DEF Depth, Frames

LEMMA SigRaise ==
  ASSUME Raising = {}, SigInv, NEW t \in Types, NEW a \in Addrs \union {None}, Raise(t, a)
  PROVE  Covered' /\ NoReentry' /\ RaisedOnce'
<1>1. StackOK'
  BY RaiseTypes DEF SigInv
<1>2. CASE RaiseUnhandled(t, a)
  <2>1. Depth = 1
    BY <1>2, OnlyProgramCalls DEF RaiseUnhandled, MayRaise, SigInv
  <2>2. Depth' = 1
    BY <1>2, <2>1, CallerOK DEF RaiseUnhandled, SigInv, Depth
  <2> QED BY <1>1, <2>2, AloneInv
<1>3. CASE RaiseHandled(t, a)
  <2>1. /\ Depth' = 2
        /\ stack'[1].kind = "guest" /\ stack'[2].kind = "raise"
    BY <1>3, RaiseShape DEF SigInv
  <2>2. \A i \in 1..Depth' : stack'[i].kind # "signal" /\ (stack'[i].kind = "raise" => i = 2)
    BY <2>1
  <2> QED BY <2>2 DEF Covered, NoReentry, RaisedOnce, Raised
<1> QED BY <1>2, <1>3 DEF Raise

LEMMA SigEnter ==
  ASSUME SigInv, SignalEnter
  PROVE  Covered' /\ NoReentry' /\ RaisedOnce'
<1> DEFINE s == Top.cause
<1>1. /\ s \notin mask /\ mask' = mask \union {s}
      /\ Depth' = Depth + 1 /\ \A i \in 1..Depth : stack'[i] = stack[i]
      /\ stack'[Depth + 1].kind = "signal" /\ stack'[Depth + 1].sig = s
      /\ stack'[Depth + 1].saved = mask
  BY SignalEnterTypes DEF SigInv
<1> HIDE DEF s
<1>2. Depth \in Nat
  BY TopOK DEF SigInv
<1>3. \A i \in 1..Depth' : i \in 1..Depth \/ i = Depth + 1
  BY <1>1, <1>2
<1>4. \A i \in 1..Depth : stack[i].kind = "signal" => stack[i].sig \in mask /\ stack[i].sig # s
  BY <1>1 DEF SigInv, Covered
<1>5. \A i \in 1..Depth' : stack'[i].kind = "signal" => stack'[i].sig \in mask'
  BY <1>1, <1>3, <1>4
<1>6. ASSUME NEW i \in 1..Depth', NEW j \in 1..Depth', i < j, stack'[i].kind = "signal"
      PROVE  stack'[i].sig \in stack'[j].saved
  <2>1. i \in 1..Depth
    BY <1>1, <1>2, <1>6
  <2>2. CASE j \in 1..Depth
    BY <2>1, <2>2, <1>1, <1>6 DEF SigInv, Covered
  <2>3. CASE j = Depth + 1
    BY <2>1, <2>3, <1>1, <1>4, <1>6
  <2> QED BY <2>2, <2>3, <1>3
<1>7. ASSUME NEW i \in 1..Depth', NEW j \in 1..Depth',
             stack'[i].kind = "signal", stack'[j].kind = "signal", i # j
      PROVE  stack'[i].sig # stack'[j].sig
  <2>1. CASE i \in 1..Depth /\ j \in 1..Depth
    BY <2>1, <1>1, <1>7 DEF SigInv, NoReentry
  <2>2. CASE i = Depth + 1 /\ j \in 1..Depth
    BY <2>2, <1>1, <1>4, <1>7
  <2>3. CASE i \in 1..Depth /\ j = Depth + 1
    BY <2>3, <1>1, <1>4, <1>7
  <2> QED BY <2>1, <2>2, <2>3, <1>3, <1>7
<1>8. ASSUME NEW i \in 1..Depth', stack'[i].kind = "raise" PROVE i = 2
  <2>1. i \in 1..Depth
    BY <1>1, <1>3, <1>8
  <2> QED BY <2>1, <1>1, <1>8 DEF SigInv, RaisedOnce, Raised
<1> QED BY <1>5, <1>6, <1>7, <1>8 DEF Covered, NoReentry, RaisedOnce, Raised

LEMMA SigHandling ==
  ASSUME SigInv, Handling
  PROVE  Covered' /\ NoReentry' /\ RaisedOnce'
<1>0. \A c : SameContext(c, c)
  BY DEF SameContext
<1>1. CASE RaiseReturn
  <2>1. /\ Depth > 1 /\ Len(Below) = Depth - 1
        /\ \A i \in 1..(Depth - 1) : Below[i] = stack[i]
    BY <1>1, PopTop DEF RaiseReturn, SigInv
  <2>2. stack' = Below /\ mask' = mask
    BY <1>1 DEF RaiseReturn
  <2>3. Depth' = Depth - 1 /\ \A i \in 1..(Depth - 1) : SameContext(stack'[i], stack[i])
    BY <2>1, <2>2, <1>0 DEF Depth
  <2> QED BY <2>1, <2>2, <2>3, PopInv
<1>2. CASE SignalKills
  <2>1. stack' = stack /\ mask' = mask
    BY <1>2, KillTypes DEF SigInv
  <2> QED BY <2>1, <1>0, KeepInv DEF Depth
<1>3. CASE SignalEnter
  BY <1>3, SigEnter
<1>4. CASE Resume
  BY <1>4, ResumeTypes, PopInv DEF SigInv
<1>5. CASE Refuse
  BY <1>5, RefuseTypes, KeepInv DEF SigInv
<1>6. CASE SignalReturn
  BY <1>6, <1>0, SignalReturnTypes, PopInv DEF SigInv
<1> QED BY <1>1, <1>2, <1>3, <1>4, <1>5, <1>6 DEF Handling

LEMMA SigNext == ASSUME Raising = {}, SigInv, [Next]_vars PROVE SigInv'
<1>1. RestOK' /\ StackOK'
  BY NextTypes DEF SigInv
<1>2. CASE Calls
  BY <1>1, <1>2, SigCalls DEF SigInv
<1>3. ASSUME NEW t \in Types,
             NEW a \in IF t = "DAT_ABORT" THEN Addrs \union {None} ELSE {None}, Raise(t, a)
      PROVE  SigInv'
  <2>1. a \in Addrs \union {None}
    OBVIOUS
  <2> QED BY <1>1, <1>3, <2>1, SigRaise DEF SigInv
<1>4. ASSUME NEW s \in Signals, Fault(s) PROVE SigInv'
  <2>1. mask' = mask
    BY <1>4 DEF Fault
  <2> QED BY <1>1, <1>4, <2>1, FaultTypes, KeepInv DEF SigInv
<1>5. CASE Handling
  BY <1>1, <1>5, SigHandling DEF SigInv
<1>6. CASE UNCHANGED vars
  <2>1. stack' = stack /\ mask' = mask
    BY <1>6 DEF vars
  <2>2. \A i \in 1..Depth : SameContext(stack'[i], stack[i])
    BY <2>1 DEF SameContext
  <2> QED BY <1>1, <2>1, <2>2, KeepInv DEF SigInv, Depth
<1> QED BY <1>2, <1>3, <1>4, <1>5, <1>6, NextParts

(* A signal does not enter its own running handler, whatever the handlers   *)
(* answer and run into, and whichever signals the program blocks: the       *)
(* kernel's mask is enough as long as handlers leave it alone.              *)
THEOREM NoSignalReenters ==
  ASSUME Raising = {} PROVE Spec => []NoReentry
<1>1. Init => SigInv
  BY SigInit
<1>2. SigInv /\ [Next]_vars => SigInv'
  BY SigNext
<1>3. SigInv => NoReentry
  BY DEF SigInv
<1> QED BY <1>1, <1>2, <1>3, PTL DEF Spec

-----------------------------------------------------------------------------
(* While the handler of a raised exception runs, the record lacks the       *)
(* address, which the call still holds; nothing touches the record until    *)
(* the handler returns, as it interrupts the only one that could.           *)
InfoParts ==
  /\ NothingRaised /\ pending => current = last
  /\ \A i \in 1..Depth :
       Raised(i) => current = [last EXCEPT !.addr = None] /\ last.addr = stack[i].addr

InfoInv == SigInv /\ InfoParts

(* Alone, without or with a whole record. *)
LEMMA AloneInfo ==
  ASSUME StackOK', Depth' = 1, pending' => current' = last'
  PROVE  InfoParts'
<1>1. \A i \in 1..Depth' : stack'[i].kind # "raise"
  BY DEF StackOK, Frames, Depth
<1> QED BY <1>1 DEF InfoParts, Raised

(* Contexts come and go, the record stays. *)
LEMMA SameInfo ==
  ASSUME InfoInv, UNCHANGED <<current, pending, last>>,
         Depth' \in Nat, NEW n \in Nat, n <= Depth, n <= Depth',
         \A i \in 1..n : SameContext(stack'[i], stack[i]),
         \A i \in 1..Depth : i > n => ~Raised(i),
         \A i \in 1..Depth' : i > n => stack'[i].kind # "raise"
  PROVE  InfoParts'
<1>1. Depth \in Nat
  BY TopOK DEF InfoInv, SigInv
<1>2. \A i \in 1..Depth' : stack'[i].kind = "raise" =>
        i \in 1..Depth /\ Raised(i) /\ stack'[i].addr = stack[i].addr
  BY <1>1 DEF Raised, SameContext
<1>3. \A i \in 1..Depth : Raised(i) => i \in 1..Depth' /\ stack'[i].kind = "raise"
  BY <1>1 DEF Raised, SameContext
<1>4. NothingRaised' => NothingRaised
  BY <1>3 DEF NothingRaised, Raised
<1>5. NothingRaised' /\ pending' => current' = last'
  BY <1>4 DEF InfoInv, InfoParts
<1>6. \A i \in 1..Depth' : stack'[i].kind = "raise" =>
        current' = [last' EXCEPT !.addr = None] /\ last'.addr = stack'[i].addr
  BY <1>2 DEF InfoInv, InfoParts
<1> QED BY <1>5, <1>6 DEF InfoParts, Raised

LEMMA InfoRaise ==
  ASSUME Raising = {}, InfoInv, NEW t \in Types, NEW a \in Addrs \union {None}, Raise(t, a)
  PROVE  InfoParts'
<1>1. StackOK'
  BY RaiseTypes DEF InfoInv, SigInv
<1>2. CASE RaiseUnhandled(t, a)
  <2>1. Depth = 1
    BY <1>2, OnlyProgramCalls DEF RaiseUnhandled, MayRaise, InfoInv, SigInv
  <2>2. Depth' = 1
    BY <1>2, <2>1, CallerOK DEF RaiseUnhandled, InfoInv, SigInv, Depth
  <2> QED BY <1>1, <1>2, <2>2, AloneInfo DEF RaiseUnhandled
<1>3. CASE RaiseHandled(t, a)
  <2>1. /\ Depth' = 2
        /\ stack'[1].kind = "guest" /\ stack'[2].kind = "raise" /\ stack'[2].addr = a
    BY <1>3, RaiseShape DEF InfoInv, SigInv
  <2>2. current' = [last' EXCEPT !.addr = None] /\ last'.addr = a
    <3>1. /\ current' = [type |-> t, addr |-> None, fatal |-> FALSE]
          /\ last' = [type |-> t, addr |-> a, fatal |-> FALSE]
      BY <1>3 DEF RaiseHandled
    <3>2. current' \in Info /\ last' \in Info
      BY <1>3, RaiseTypes DEF InfoInv, SigInv, RestOK
    <3>3. last'.addr = a
      BY <3>1
    <3>4. /\ current'.type = last'.type /\ current'.fatal = last'.fatal
          /\ current'.addr = None
      BY <3>1
    <3>5. [last' EXCEPT !.addr = None] \in [type : Types \union {None},
                                            addr : Addrs \union {None}, fatal : BOOLEAN]
      BY <3>2 DEF Info
    <3>6. current' = [last' EXCEPT !.addr = None]
      BY <3>2, <3>4, <3>5 DEF Info
    <3> QED BY <3>3, <3>6
  <2>3. ~NothingRaised'
    BY <2>1 DEF NothingRaised, Raised
  <2>4. \A i \in 1..Depth' : stack'[i].kind = "raise" => i = 2
    BY <2>1
  <2> QED BY <2>1, <2>2, <2>3, <2>4 DEF InfoParts, Raised
<1> QED BY <1>2, <1>3 DEF Raise

(* The return completes the record: flags and address, in both. *)
LEMMA InfoReturn ==
  ASSUME InfoInv, RaiseReturn
  PROVE  InfoParts'
<1>1. /\ Depth \in Nat /\ Depth > 1 /\ Len(Below) = Depth - 1
      /\ \A i \in 1..(Depth - 1) : Below[i] = stack[i]
  BY PopTop DEF RaiseReturn, InfoInv, SigInv
<1>2. Raised(Depth) /\ Depth \in 1..Depth
  BY <1>1 DEF Raised, RaiseReturn, Top
<1>3. Depth = 2
  BY <1>2 DEF InfoInv, SigInv, RaisedOnce
<1>4. current = [last EXCEPT !.addr = None] /\ last.addr = Top.addr
  BY <1>2 DEF InfoInv, InfoParts, Top
<1>5. PICK fatal \in BOOLEAN :
        /\ current' = [current EXCEPT !.fatal = fatal,
                                      !.addr = IF Top.addr = None THEN @ ELSE Top.addr]
        /\ last' = [last EXCEPT !.fatal = fatal]
  BY DEF RaiseReturn
<1>6. current' = last'
  <2>1. last \in Info
    BY DEF InfoInv, SigInv, RestOK
  <2>2. CASE Top.addr = None
    BY <1>4, <1>5, <2>1, <2>2 DEF Info
  <2>3. CASE Top.addr # None
    BY <1>4, <1>5, <2>1, <2>3 DEF Info
  <2> QED BY <2>2, <2>3
<1>7. StackOK'
  BY RaiseReturnTypes DEF InfoInv, SigInv
<1>8. Depth' = 1
  BY <1>1, <1>3 DEF RaiseReturn, Depth
<1> QED BY <1>6, <1>7, <1>8, AloneInfo

LEMMA InfoHandling ==
  ASSUME InfoInv, Handling
  PROVE  InfoParts'
<1>0. /\ \A c : SameContext(c, c)
      /\ Depth \in Nat /\ Top = stack[Depth]
  BY TopOK DEF SameContext, InfoInv, SigInv, Top
<1>1. CASE RaiseReturn
  BY <1>1, InfoReturn
<1>2. CASE SignalKills
  BY <1>2, <1>0, KillTypes, SameInfo DEF SignalKills, Die, infos, Depth, InfoInv, SigInv
<1>3. CASE SignalEnter
  <2>1. UNCHANGED <<current, pending, last>>
    BY <1>3 DEF SignalEnter, infos
  <2>2. /\ Depth' = Depth + 1 /\ \A i \in 1..Depth : stack'[i] = stack[i]
        /\ stack'[Depth + 1].kind = "signal"
    BY <1>3, SignalEnterTypes DEF InfoInv, SigInv
  <2>3. \A i \in 1..Depth' : i > Depth => i = Depth + 1
    BY <1>0, <2>2
  <2>4. \A i \in 1..Depth : SameContext(stack'[i], stack[i])
    BY <1>0, <2>2
  <2>5. Depth' \in Nat /\ Depth <= Depth' /\ \A i \in 1..Depth : ~(i > Depth)
    BY <1>0, <2>2
  <2> QED BY <1>0, <2>1, <2>2, <2>3, <2>4, <2>5, SameInfo
<1>4. CASE Resume \/ SignalReturn
  <2>1. UNCHANGED <<current, pending, last>>
    BY <1>4 DEF Resume, SignalReturn, infos
  <2>2. /\ Depth > 1 /\ Depth' = Depth - 1
        /\ \A i \in 1..(Depth - 1) : SameContext(stack'[i], stack[i])
    BY <1>0, <1>4, ResumeTypes, SignalReturnTypes DEF InfoInv, SigInv
  <2>3. Top.kind = "signal"
    BY <1>4, TopOK DEF Resume, SignalReturn, InfoInv, SigInv, StackOK, Frames, Depth, Top
  <2>4. \A i \in 1..Depth : i > Depth - 1 => ~Raised(i)
    BY <1>0, <2>3 DEF Raised
  <2>5. Depth - 1 \in Nat /\ Depth - 1 <= Depth /\ \A i \in 1..Depth' : ~(i > Depth - 1)
    BY <1>0, <2>2
  <2> QED BY <2>1, <2>2, <2>4, <2>5, SameInfo
<1>5. CASE Refuse
  <2>1. UNCHANGED <<current, pending, last>>
    BY <1>5 DEF Refuse, infos
  <2>2. Depth' = Depth /\ \A i \in 1..Depth : SameContext(stack'[i], stack[i])
    BY <1>5, RefuseTypes DEF InfoInv, SigInv
  <2>3. Depth <= Depth /\ \A i \in 1..Depth : ~(i > Depth)
    BY <1>0
  <2> QED BY <1>0, <2>1, <2>2, <2>3, SameInfo
<1> QED BY <1>1, <1>2, <1>3, <1>4, <1>5 DEF Handling

LEMMA InfoNext == ASSUME Raising = {}, InfoInv, [Next]_vars PROVE InfoInv'
<1>1. SigInv'
  BY SigNext DEF InfoInv
<1>2. CASE Calls
  <2>1. Depth = 1 /\ Depth' = 1 /\ StackOK'
    BY <1>1, <1>2, SigCalls DEF InfoInv, SigInv
  <2>2. NothingRaised
    BY <2>1 DEF NothingRaised, Raised, InfoInv, SigInv, StackOK, Frames, Depth
  <2>3. pending => current = last
    BY <2>2 DEF InfoInv, InfoParts
  <2>4. pending' => current' = last'
    BY <1>2, <2>3 DEF Calls, ExceptionInit, ExceptionCleanup, ClearException, CleanupSignals,
       UnregisterHandler, RegisterHandler, SetFaultHandler, InstallSignals, BlockSignal,
       UnblockSignal, InstallHandler, SetMask, ResetTables, infos
  <2> QED BY <1>1, <2>1, <2>4, AloneInfo DEF InfoInv
<1>3. ASSUME NEW t \in Types,
             NEW a \in IF t = "DAT_ABORT" THEN Addrs \union {None} ELSE {None}, Raise(t, a)
      PROVE  InfoParts'
  <2>1. a \in Addrs \union {None}
    OBVIOUS
  <2> QED BY <1>3, <2>1, InfoRaise
<1>4. (\E s \in Signals : Fault(s)) \/ UNCHANGED vars => InfoParts'
  <2> SUFFICES ASSUME (\E s \in Signals : Fault(s)) \/ UNCHANGED vars PROVE InfoParts'
    OBVIOUS
  <2>1. UNCHANGED <<current, pending, last>>
    BY DEF Fault, infos, vars
  <2>2. Depth' = Depth /\ \A i \in 1..Depth : SameContext(stack'[i], stack[i])
    BY FaultTypes DEF InfoInv, SigInv, vars, Depth, SameContext
  <2>3. Depth \in Nat /\ Depth <= Depth /\ \A i \in 1..Depth : ~(i > Depth)
    BY TopOK DEF InfoInv, SigInv
  <2> QED BY <2>1, <2>2, <2>3, SameInfo
<1>5. CASE Handling
  BY <1>1, <1>5, InfoHandling DEF InfoInv
<1> QED BY <1>1, <1>2, <1>3, <1>4, <1>5, NextParts DEF InfoInv

(* Between exceptions the record is whole: its type, flags and address are  *)
(* those of the last exception raised, although they are stored in two      *)
(* parts with a handler in between.                                         *)
THEOREM InfoIsWhole ==
  ASSUME Raising = {} PROVE Spec => []InfoWhole
<1>1. Init => InfoInv
  <2> SUFFICES ASSUME Init PROVE InfoInv
    OBVIOUS
  <2>1. SigInv
    BY SigInit
  <2>2. ~pending /\ \A i \in 1..Depth : stack[i].kind = "guest"
    BY <2>1 DEF Init, SigInv, StackOK, Frames, Depth
  <2> QED BY <2>1, <2>2 DEF InfoInv, InfoParts, Raised
<1>2. InfoInv /\ [Next]_vars => InfoInv'
  BY InfoNext
<1>3. InfoInv => InfoWhole
  BY DEF InfoInv, InfoParts, InfoWhole
<1> QED BY <1>1, <1>2, <1>3, PTL DEF Spec
=============================================================================
