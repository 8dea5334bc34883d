---------------------------- MODULE RunnerProofs ----------------------------
(***************************************************************************)
(* For any number of runners and binaries, whatever their entry points and *)
(* slots: is_running is set only inside rosetta_runner_execute, no runner    *)
(* runs code of another binary, and success means that a block was executed.*)
(***************************************************************************)
EXTENDS Runner, TLAPS

(* What the steps of rosetta_runner_execute have done so far: from the      *)
(* stack on the memory holds the runner's binary, and nothing is translated *)
(* or executed before the block is reached.                                 *)
CallProgress ==
  call # None =>
    /\ call.step # "map" => runner[call.runner].memory = runner[call.runner].binary
    /\ call.step \notin {"run", "return"} => call.code = None
    /\ call.step # "return" => call.result = 0 /\ ~call.ran
    /\ call.step = "return" => (call.result = 0 <=> call.ran)

Inv == TypeOK /\ RunningInside /\ OwnCode /\ CallProgress

USE RunnerAssumption, NullAssumption

LEMMA InitInv == Init => Inv
BY DEF Init, Inv, TypeOK, RunningInside, OwnCode, CallProgress

(* A call between executions touches no running runner. *)
LEMMA IdleInv ==
  ASSUME Inv, Idle, NEW r \in Runners, NEW s \in RunnerState \union {None},
         s # None => ~s.running,
         runner' = [runner EXCEPT ![r] = s],
         UNCHANGED <<cache, call, sealed, fault>>
  PROVE  Inv'
<1>1. TypeOK'
  BY DEF Inv, Idle, TypeOK
<1>2. RunningInside'
  BY DEF Inv, Idle, TypeOK, RunningInside
<1>3. OwnCode' /\ CallProgress'
  BY DEF Idle, OwnCode, CallProgress
<1> QED BY <1>1, <1>2, <1>3 DEF Inv

LEMMA ClientInv ==
  ASSUME Inv, NEW r \in Runners,
         \/ Create(r) \/ Destroy(r) \/ Prepare(r)
         \/ \E b \in Binaries \union {None} : LoadBinary(r, b)
  PROVE  Inv'
<1>1. Idle
  BY DEF Create, Destroy, Prepare, LoadBinary
<1>2. \A s : runner[s] # None /\ s \in Runners => runner[s] \in RunnerState /\ ~runner[s].running
  BY <1>1 DEF Inv, TypeOK, RunningInside, Idle
<1>3. runner \in [Runners -> RunnerState \union {None}]
  BY DEF Inv, TypeOK
<1>4. CASE Create(r)
  <2>1. Fresh \in RunnerState /\ ~Fresh.running
    BY DEF Fresh, RunnerState
  <2> QED BY <1>1, <1>4, <2>1, IdleInv DEF Create
<1>5. CASE Destroy(r)
  BY <1>1, <1>5, IdleInv DEF Destroy
<1>6. ASSUME NEW b \in Binaries \union {None}, LoadBinary(r, b) PROVE Inv'
  <2> DEFINE s == [runner[r] EXCEPT !.binary = b]
  <2>1. s \in RunnerState /\ ~s.running
    BY <1>2, <1>6 DEF LoadBinary, RunnerState
  <2>2. runner' = [runner EXCEPT ![r] = s]
    BY <1>6 DEF LoadBinary
  <2> HIDE DEF s
  <2> QED BY <1>1, <1>6, <2>1, <2>2, IdleInv DEF LoadBinary
<1>7. CASE Prepare(r)
  <2> DEFINE noMemory == [runner[r] EXCEPT !.memory = None]
             fresh(ok) == [runner[r] EXCEPT !.memory = Blank, !.state = ok]
  <2>1. noMemory \in RunnerState /\ ~noMemory.running
    BY <1>2, <1>7 DEF Prepare, RunnerState
  <2>2. \A ok \in BOOLEAN : fresh(ok) \in RunnerState /\ ~fresh(ok).running
    BY <1>2, <1>7 DEF Prepare, RunnerState
  <2>3. \/ runner' = [runner EXCEPT ![r] = noMemory]
        \/ \E ok \in BOOLEAN : runner' = [runner EXCEPT ![r] = fresh(ok)]
    BY <1>7 DEF Prepare
  <2> HIDE DEF noMemory, fresh
  <2> QED BY <1>1, <1>7, <2>1, <2>2, <2>3, IdleInv DEF Prepare
<1> QED BY <1>4, <1>5, <1>6, <1>7

(* The call under way, and its runner. *)
LEMMA InCall ==
  ASSUME Inv, call # None
  PROVE  /\ call \in Call /\ call.runner \in Runners
         /\ runner[call.runner] \in RunnerState
         /\ runner[call.runner].binary \in Binaries
         /\ EntryPC \in PCs
BY DEF Inv, TypeOK, RunnerState, Call, EntryPC, PCs

LEMMA ExecuteInv ==
  ASSUME Inv, NEW r \in Runners, Execute(r)
  PROVE  Inv'
<1> DEFINE s == [runner[r] EXCEPT !.running = TRUE]
           c == [runner |-> r, step |-> "map", code |-> None, ran |-> FALSE, result |-> 0]
<1>1. runner' = [runner EXCEPT ![r] = s] /\ call' = c
  BY DEF Execute
<1>2. s \in RunnerState /\ s.binary # None /\ s.memory # None /\ s.state
  BY DEF Execute, Inv, TypeOK, RunnerState
<1>3. c \in Call /\ c.runner = r /\ c # None
  <2>1. c \in Call
    BY DEF Call
  <2>2. c # None
    BY <2>1
  <2> QED BY <2>1, <2>2
<1>4. runner'[r] = s /\ \A x \in Runners : x # r => runner'[x] = runner[x]
  BY <1>1 DEF Inv, TypeOK
<1>5. OwnCode' /\ CallProgress'
  BY <1>1 DEF OwnCode, CallProgress
<1> HIDE DEF s, c
<1>6. TypeOK'
  <2>1. runner' \in [Runners -> RunnerState \union {None}]
    BY <1>1, <1>2 DEF Inv, TypeOK
  <2>2. s # None
    BY <1>2
  <2>3. UNCHANGED <<cache, sealed, fault>>
    BY DEF Execute
  <2> QED BY <1>1, <1>2, <1>3, <1>4, <2>1, <2>2, <2>3 DEF Inv, TypeOK
<1>7. RunningInside'
  <2>1. \A x \in Runners : x # r /\ runner[x] # None => ~runner[x].running
    BY DEF Execute, Idle, Inv, RunningInside
  <2> QED BY <1>1, <1>3, <1>4, <2>1 DEF RunningInside
<1> QED BY <1>5, <1>6, <1>7 DEF Inv

(* Leaving the call with the runner at rest. *)
LEMMA LeaveInv ==
  ASSUME Inv, call # None, NEW s \in RunnerState, ~s.running,
         runner' = [runner EXCEPT ![call.runner] = s], call' = None,
         UNCHANGED <<cache, sealed, fault>>
  PROVE  Inv'
<1>1. call.runner \in Runners
  BY InCall
<1>2. TypeOK'
  BY <1>1 DEF Inv, TypeOK
<1>3. RunningInside'
  BY <1>1 DEF Inv, TypeOK, RunningInside
<1> QED BY <1>2, <1>3 DEF Inv, OwnCode, CallProgress

LEMMA FailInv ==
  ASSUME Inv, call # None, Fail, UNCHANGED <<cache, sealed, fault>>
  PROVE  Inv'
<1> DEFINE s == [runner[call.runner] EXCEPT !.running = FALSE]
<1>1. s \in RunnerState /\ ~s.running
  BY InCall DEF RunnerState
<1>2. runner' = [runner EXCEPT ![call.runner] = s]
  BY DEF Fail
<1> HIDE DEF s
<1> QED BY <1>1, <1>2, LeaveInv DEF Fail

(* A step of the call that leaves all runners alone and only notes progress. *)
LEMMA StepInv ==
  ASSUME Inv, call # None, UNCHANGED runner,
         call' \in Call, call'.runner = call.runner,
         cache' \in [Slots -> CacheEntry \union {None}],
         sealed' \in BOOLEAN, fault' \in {None, "heap", "code"}
  PROVE  TypeOK' /\ RunningInside' /\ EntryPC' = EntryPC
<1>1. call' # None
  OBVIOUS
<1>2. TypeOK'
  BY <1>1 DEF Inv, TypeOK
<1>3. RunningInside'
  BY <1>1 DEF Inv, RunningInside
<1> QED BY <1>2, <1>3 DEF EntryPC

LEMMA MapSegmentsInv ==
  ASSUME Inv, MapSegments
  PROVE  Inv'
<1>0. call # None
  BY DEF MapSegments, At
<1> DEFINE old == runner[call.runner]
           s == [old EXCEPT !.memory = old.binary]
           t == [old EXCEPT !.running = FALSE, !.memory = old.binary]
           c == [call EXCEPT !.step = "stack"]
<1>1. s \in RunnerState /\ t \in RunnerState /\ ~t.running
  BY <1>0, InCall DEF RunnerState
<1>2. CASE Fail
  BY <1>0, <1>2, FailInv DEF MapSegments
<1>3. CASE runner' = [runner EXCEPT ![call.runner] = t] /\ call' = None
  <2> HIDE DEF t
  <2> QED BY <1>0, <1>1, <1>3, LeaveInv DEF MapSegments
<1>4. CASE runner' = [runner EXCEPT ![call.runner] = s] /\ call' = c
  <2>1. c \in Call /\ c # None /\ c.runner = call.runner /\ c.code = None
    BY <1>0, InCall DEF Call, MapSegments, At, Inv, CallProgress
  <2>2. c.step = "stack" /\ c.result = 0 /\ ~c.ran
    BY <1>0, InCall DEF Call, MapSegments, At, Inv, CallProgress
  <2>3. /\ s.memory = old.binary /\ s.binary = old.binary
        /\ s.state = old.state /\ s.running = old.running
    BY <1>0, InCall DEF RunnerState
  <2>4. s # None /\ s.binary # None /\ s.memory # None /\ s.state
    BY <1>0, <1>1, <2>3 DEF Inv, TypeOK
  <2>5. call.runner \in Runners
    BY <1>0, InCall
  <2> HIDE DEF s, c
  <2>6. runner' \in [Runners -> RunnerState \union {None}]
    BY <1>1, <1>4 DEF Inv, TypeOK
  <2>7. runner'[call.runner] = s /\ \A x \in Runners : x # call.runner => runner'[x] = runner[x]
    BY <1>4, <2>5 DEF Inv, TypeOK
  <2>8. TypeOK'
    BY <1>4, <2>1, <2>4, <2>6, <2>7 DEF MapSegments, Inv, TypeOK
  <2>9. RunningInside'
    BY <1>4, <2>1, <2>7 DEF Inv, RunningInside
  <2>10. OwnCode' /\ CallProgress'
    BY <1>4, <2>1, <2>2, <2>3, <2>7 DEF OwnCode, CallProgress
  <2> QED BY <2>8, <2>9, <2>10 DEF Inv
<1>5. \/ Fail
      \/ runner' = [runner EXCEPT ![call.runner] = t] /\ call' = None
      \/ runner' = [runner EXCEPT ![call.runner] = s] /\ call' = c
  BY <1>0, InCall DEF MapSegments, Inv, TypeOK
<1> QED BY <1>2, <1>3, <1>4, <1>5

LEMMA SetUpInv ==
  ASSUME Inv, SetUp
  PROVE  Inv'
<1>1. call # None
  BY DEF SetUp, At
<1>2. CASE Fail
  BY <1>1, <1>2, FailInv DEF SetUp
<1>3. ASSUME NEW next \in {"context", "block"}, call.step \in {"stack", "context"},
             call' = [call EXCEPT !.step = next], UNCHANGED runner
      PROVE  Inv'
  <2>1. call' \in Call /\ call'.runner = call.runner /\ call'.step = next
    BY <1>1, <1>3, InCall DEF Call
  <2>2. call'.code = call.code /\ call'.result = call.result /\ call'.ran = call.ran
    BY <1>1, <1>3, InCall DEF Call
  <2>3. TypeOK' /\ RunningInside' /\ EntryPC' = EntryPC
    BY <1>1, <1>3, <2>1, StepInv DEF SetUp, Inv, TypeOK
  <2>4. OwnCode' /\ CallProgress'
    BY <1>1, <1>3, <2>1, <2>2 DEF Inv, OwnCode, CallProgress
  <2> QED BY <2>3, <2>4 DEF Inv
<1> QED BY <1>2, <1>3 DEF SetUp, At

LEMMA TranslateHitInv ==
  ASSUME Inv, TranslateHit
  PROVE  Inv'
<1>1. call # None /\ call.step = "block"
  BY DEF TranslateHit, At
<1>2. /\ call' \in Call /\ call'.runner = call.runner /\ call'.step = "return"
      /\ call'.code = call.code /\ call'.result = -1 /\ call'.ran = call.ran
  BY <1>1, InCall DEF TranslateHit, Call
<1>3. TypeOK' /\ RunningInside'
  BY <1>1, <1>2, StepInv DEF TranslateHit, Inv, TypeOK
<1>4. OwnCode' /\ CallProgress'
  BY <1>1, <1>2 DEF TranslateHit, Inv, OwnCode, CallProgress
<1> QED BY <1>3, <1>4 DEF Inv

LEMMA TranslateMissInv ==
  ASSUME Inv, TranslateMiss
  PROVE  Inv'
<1> DEFINE code == [of |-> runner[call.runner].memory, pc |-> EntryPC]
<1>1. call # None /\ call.step = "block" /\ UNCHANGED runner
  BY DEF TranslateMiss, At
<1>2. code \in Code
  BY <1>1, InCall DEF Code, Inv, CallProgress
<1>3. ASSUME NEW n \in {0, 1}, Insert(EntryPC, code, n)
      PROVE  cache' \in [Slots -> CacheEntry \union {None}]
  <2>1. [pc |-> EntryPC, code |-> code, size |-> n] \in CacheEntry
    BY <1>1, <1>2, InCall DEF CacheEntry
  <2> HIDE DEF code
  <2> QED BY <1>3, <2>1 DEF Insert, Inv, TypeOK
<1>4. cache' \in [Slots -> CacheEntry \union {None}]
  BY <1>3 DEF TranslateMiss, Inv, TypeOK
<1>5. sealed' \in BOOLEAN /\ fault' \in {None, "heap", "code"}
  BY DEF TranslateMiss, Inv, TypeOK
<1>6. CASE call' = [call EXCEPT !.step = "run", !.code = code]
  <2> HIDE DEF code
  <2>1. /\ call' \in Call /\ call'.runner = call.runner /\ call'.step = "run"
        /\ call'.code = code /\ call'.result = call.result /\ call'.ran = call.ran
    BY <1>1, <1>2, <1>6, InCall DEF Call
  <2>2. TypeOK' /\ RunningInside' /\ EntryPC' = EntryPC
    BY <1>1, <1>4, <1>5, <2>1, StepInv
  <2>3. OwnCode'
    BY <1>1, <2>1, <2>2 DEF OwnCode, code
  <2>4. CallProgress'
    BY <1>1, <2>1 DEF Inv, CallProgress
  <2> QED BY <2>2, <2>3, <2>4 DEF Inv
<1>7. CASE call' = [call EXCEPT !.step = "return", !.result = -1]
  <2>1. /\ call' \in Call /\ call'.runner = call.runner /\ call'.step = "return"
        /\ call'.code = call.code /\ call'.result = -1 /\ call'.ran = call.ran
    BY <1>1, <1>7, InCall DEF Call
  <2>2. TypeOK' /\ RunningInside' /\ EntryPC' = EntryPC
    BY <1>1, <1>4, <1>5, <2>1, StepInv
  <2>3. OwnCode' /\ CallProgress'
    BY <1>1, <2>1 DEF Inv, OwnCode, CallProgress
  <2> QED BY <2>2, <2>3 DEF Inv
<1> QED BY <1>6, <1>7 DEF TranslateMiss

LEMMA RunBlockInv ==
  ASSUME Inv, RunBlock
  PROVE  Inv'
<1>1. call # None /\ call.step = "run" /\ UNCHANGED runner
  BY DEF RunBlock, At
<1>2. /\ call' \in Call /\ call'.runner = call.runner /\ call'.step = "return"
      /\ call'.code = call.code
  BY <1>1, InCall DEF RunBlock, Call
<1>3. call'.result = 0 <=> call'.ran
  <2>1. call.result = 0 /\ ~call.ran
    BY <1>1 DEF Inv, CallProgress
  <2>2. CASE call' = [call EXCEPT !.step = "return", !.result = -1]
    <3>1. call'.result = -1 /\ call'.ran = call.ran
      BY <1>1, <2>2, InCall DEF Call
    <3>2. -1 # 0
      OBVIOUS
    <3> QED BY <2>1, <3>1, <3>2
  <2>3. CASE call' = [call EXCEPT !.step = "return", !.ran = TRUE]
    <3>1. call'.result = call.result /\ call'.ran
      BY <1>1, <2>3, InCall DEF Call
    <3> QED BY <2>1, <3>1
  <2> QED BY <2>2, <2>3 DEF RunBlock
<1>4. TypeOK' /\ RunningInside' /\ EntryPC' = EntryPC
  BY <1>1, <1>2, StepInv DEF RunBlock, Inv, TypeOK
<1>5. OwnCode' /\ CallProgress'
  BY <1>1, <1>2, <1>3, <1>4 DEF Inv, OwnCode, CallProgress
<1> QED BY <1>4, <1>5 DEF Inv

(* A stop changes nothing but is_running. *)
LEMMA StopInv ==
  ASSUME Inv, NEW r \in Runners, Stop(r)
  PROVE  Inv'
<1> DEFINE s == [runner[r] EXCEPT !.running = FALSE]
<1>1. runner' = [runner EXCEPT ![r] = s] /\ runner[r] # None
  BY DEF Stop
<1>2. /\ s \in RunnerState /\ ~s.running /\ s.binary = runner[r].binary
      /\ s.memory = runner[r].memory /\ s.state = runner[r].state
  BY DEF Stop, Inv, TypeOK, RunnerState
<1>3. s # None
  BY <1>2
<1>4. UNCHANGED <<cache, call, sealed, fault>> /\ call # None
  BY DEF Stop
<1> HIDE DEF s
<1>5. runner' \in [Runners -> RunnerState \union {None}]
  BY <1>1, <1>2 DEF Inv, TypeOK
<1>6. runner'[r] = s /\ \A x \in Runners : x # r => runner'[x] = runner[x]
  BY <1>1 DEF Inv, TypeOK
<1>7. call.runner \in Runners
  BY <1>4, InCall
<1>8. /\ runner'[call.runner] # None
      /\ runner'[call.runner].binary = runner[call.runner].binary
      /\ runner'[call.runner].memory = runner[call.runner].memory
      /\ runner'[call.runner].state = runner[call.runner].state
  BY <1>2, <1>3, <1>4, <1>6, <1>7 DEF Inv, TypeOK
<1>9. TypeOK'
  BY <1>4, <1>5, <1>8 DEF Inv, TypeOK
<1>10. RunningInside'
  BY <1>2, <1>4, <1>6 DEF Inv, RunningInside
<1>11. OwnCode' /\ CallProgress'
  BY <1>4, <1>8 DEF Inv, OwnCode, CallProgress, EntryPC
<1> QED BY <1>9, <1>10, <1>11 DEF Inv

LEMMA NextInv ==
  ASSUME Inv, [Next]_vars
  PROVE  Inv'
<1>1. ASSUME NEW r \in Runners,
             \/ Create(r) \/ Destroy(r) \/ Prepare(r) \/ Execute(r) \/ Stop(r)
             \/ \E b \in Binaries \union {None} : LoadBinary(r, b)
      PROVE  Inv'
  BY <1>1, ClientInv, ExecuteInv, StopInv
<1>2. CASE Return
  BY <1>2, FailInv DEF Return, At
<1>3. CASE HeapFault
  <2>1. TypeOK'
    BY <1>3 DEF HeapFault, Inv, TypeOK
  <2>2. RunningInside' /\ OwnCode' /\ CallProgress'
    BY <1>3 DEF HeapFault, Inv, RunningInside, OwnCode, CallProgress, EntryPC
  <2> QED BY <2>1, <2>2 DEF Inv
<1>4. CASE UNCHANGED vars
  <2>1. TypeOK'
    BY <1>4 DEF vars, Inv, TypeOK
  <2>2. RunningInside' /\ OwnCode' /\ CallProgress'
    BY <1>4 DEF vars, Inv, RunningInside, OwnCode, CallProgress, EntryPC
  <2> QED BY <2>1, <2>2 DEF Inv
<1> QED BY <1>1, <1>2, <1>3, <1>4, MapSegmentsInv, SetUpInv, TranslateHitInv,
       TranslateMissInv, RunBlockInv DEF Next

(* The inductive invariant of the runners.                                  *)
THEOREM RunnerInvHolds == Spec => []Inv
<1>1. Inv /\ [Next]_vars => Inv'
  BY NextInv
<1> QED BY InitInv, <1>1, PTL DEF Spec

(* is_running is 1 only inside rosetta_runner_execute, on the runner it     *)
(* executes.                                                                *)
THEOREM RunningOnlyInside == Spec => []RunningInside
<1>1. Inv => RunningInside
  BY DEF Inv
<1> QED BY RunnerInvHolds, <1>1, PTL

(* No runner executes code that was translated for another binary, although *)
(* the translation cache is shared and knows guest addresses only.          *)
THEOREM RunsOwnCode == Spec => []OwnCode
<1>1. Inv => OwnCode
  BY DEF Inv
<1> QED BY RunnerInvHolds, <1>1, PTL

(* rosetta_runner_execute returns 0 exactly when a block was executed.      *)
THEOREM SuccessIsReal == Spec => []SuccessMeansRan
<1>1. Inv => SuccessMeansRan
  BY DEF Inv, CallProgress, SuccessMeansRan, At
<1> QED BY RunnerInvHolds, <1>1, PTL

(* Types: a call has a runner with a binary, a memory and a state. *)
THEOREM TypeCorrect == Spec => []TypeOK
<1>1. Inv => TypeOK
  BY DEF Inv
<1> QED BY <1>1, RunnerInvHolds, PTL
=============================================================================
