--------------------------- MODULE TaskPoolQuiet ----------------------------
(***************************************************************************)
(* What the end of an epoch says about the other executors, and who waits  *)
(* for whom, proved for any number of executors, tasks and flows:          *)
(* EndsQuiet and StuckOnlyIfStranded of TaskPool.                          *)
(*                                                                         *)
(* A scheduler whose own queue is empty has found, one after the other,    *)
(* every other queue with nothing a thief may take, and every other        *)
(* executor out of the state busy.  Neither changes behind its back: queues*)
(* are filled by schedule() only, a halted executor is woken up by         *)
(* schedule() only, and nobody is told to stop before the epoch has ended. *)
(*                                                                         *)
(* When everybody waits, no thread holds back what another one waits for:  *)
(* the client waits for an epoch that goes on (SyncOK), threads that were  *)
(* not started have a client that starts them (OffOK), and a scheduler has *)
(* lost no notification of those it waits for (AwaitOK), and that a thread *)
(* keeps the request to stop that it got after it had begun (JoinOK). What *)
(* is left are the end, the lost duty to schedule, and a thread told to    *)
(* stop before it had begun.                                               *)
(***************************************************************************)
EXTENDS TaskPoolTasks

\* An executor is halted from its compare-exchange until it has left its wait.
HaltedOK == \A e \in Executors : state[e] = "halted" =>
    pc[e] \in {"announce", "parked", "sync_epoch", "sync_decide", "sync_wait"}

\* The client goes on, and executor 0 is told to stop, only after the epoch has ended.
StopOK ==
    \/ pc[0] \in {"add", "flow", "stop", "bye", "destroy", "join", "end"}
    \/ pc[0] = "sync_decide" /\ seen < 0
    \/ state[0] = "pending_shutdown"
    => epoch < 0

\* The other executors are told to stop by the destructor.
ThreadStopOK ==
    \A o \in Executors \ {0} :
        state[o] \in {"pending_shutdown", "shutdown"} \/ pc[o] \in {"stop", "bye", "end"}
        => pc[0] \in {"destroy", "join", "end"}

\* The scheduler e has no tasks of its own, and no task has thrown.
Alone(e) == queue[e] = <<>> /\ state[e] = "busy" /\ failed = {}

\* A thief finds nothing in o's queue.
Drained(o) == queue[o] = <<>> \/ (Len(queue[o]) = 1 /\ state[o] \notin {"init", "shutdown"})

\* o executes nothing, and will not before it is woken up.
Idle(o) == hand[o] = NoTask /\ (queue[o] = <<>> \/ state[o] = "halted")

\* The scheduler e has given up stealing, and waits for the executors in busy or has
\* decided to end the epoch.
Ends(e)   == ended /\ pc[e] \in {"tick", "flip"}
Looked(e) == pc[e] \in {"collect", "scan", "await", "decide"} \/ Ends(e)

\* What schedule() knows while it steals and waits.
Known(e) ==
    /\ Looked(e) => schedTargets = <<>>
    /\ Alone(e) /\ (pc[e] \in {"s_pred", "steal", "run"} \/ Looked(e)) =>
         \A o \in Executors \ {e} : o \in Elements(schedTargets) \/ Drained(o)
    /\ Alone(e) /\ Looked(e) =>
         \A o \in Executors \ {e} : (pc[e] = "collect" => o < idx) /\ o \notin busy => Idle(o)
    /\ Alone(e) /\ pc[e] = "decide" => busy = {} \/ global # <<>>
    /\ Alone(e) /\ Ends(e) => busy = {} /\ global = <<>>

QuietOK == \A e \in Executors : mx = e => Known(e)

-----------------------------------------------------------------------------
(* Who is halted, and who is told to stop *)

\* Only Halt halts, and whoever leaves its wait is no longer halted.
LEMMA HaltedStep ==
  ASSUME TypeOK, Control, HaltedOK, [Next]_vars
  PROVE  HaltedOK'
<1> USE DEF Control
<1> DEFINE W == {"announce", "parked", "sync_epoch", "sync_decide", "sync_wait"}
<1>1. CASE UNCHANGED vars
  BY <1>1 DEF HaltedOK, vars, execVars
<1>2. CASE ExecuteFlow
  <2>1. PICK l \in {"try", "spawn", "enter"} : pc' = [pc EXCEPT ![0] = l]
    BY <1>2 DEF ExecuteFlow, Goto
  <2>2. UNCHANGED state /\ pc[0] = "flow"
    BY <1>2 DEF ExecuteFlow, execVars, At
  <2>3. QED BY <2>1, <2>2 DEF HaltedOK, TypeOK
<1>3. CASE SpawnThreads
  <2>1. \A o \in Executors : pc[o] \in {"spawn", "off"}
    BY <1>3 DEF SpawnThreads, ThreadsOK, At
  <2>2. UNCHANGED state
    BY <1>3 DEF SpawnThreads, execVars
  <2>3. QED BY <2>1, <2>2 DEF HaltedOK
<1>4. ASSUME NEW e \in Executors, Quiet(e) PROVE HaltedOK'
  <2>1. PICK l : QuietMove(e, l)
    BY <1>4, QuietSteps
  <2>2. CASE e = 0 /\ (AddTasks \/ Shutdown \/ Join \/ Destroyed)
    <3>1. \A o \in Executors : state'[o] = "halted" => state[o] = "halted"
      BY <2>2 DEF AddTasks, Shutdown, Join, Destroyed, TypeOK, execVars
    <3>2. pc[e] \notin W
      BY <2>2 DEF AddTasks, Shutdown, Join, Destroyed, At
    <3>3. QED BY <2>1, <3>1, <3>2 DEF QuietMove, HaltedOK, TypeOK
  <2>3. CASE e = 0 /\ (SyncEpoch \/ SyncDecide \/ SyncWait)
    BY <2>3 DEF SyncEpoch, SyncDecide, SyncWait, Goto, At, HaltedOK, TypeOK, execVars
  <2>4. CASE \/ Enter(e) \/ LeaveCycle(e) \/ BeginStealing(e) \/ ContinueStealing(e)
             \/ StealBlocked(e) \/ StealNothing(e) \/ Stop(e) \/ Bye(e)
    <3>1. \A o \in Executors : state'[o] = "halted" => state[o] = "halted"
      BY <2>4 DEF Enter, LeaveCycle, BeginStealing, ContinueStealing, OwnQueuePred,
         StealBlocked, StealNothing, Stop, Bye, TypeOK, execVars
    <3>2. pc[e] \notin W
      BY <2>4 DEF Enter, LeaveCycle, BeginStealing, ContinueStealing,
         StealBlocked, StealNothing, Stop, Bye, At
    <3>3. QED BY <2>1, <3>1, <3>2 DEF QuietMove, HaltedOK, TypeOK
  <2>5. CASE Halt(e) \/ Announce(e) \/ Parked(e)
    BY <2>5 DEF Halt, Announce, Parked, WaitOver, Goto, At, HaltedOK, TypeOK, execVars
  <2>6. QED BY <1>4, <2>2, <2>3, <2>4, <2>5 DEF Quiet
<1>5. ASSUME NEW e \in Executors, Inner(e) PROVE HaltedOK'
  <2>1. PICK l : InnerMove(e, l)
    BY <1>5, InnerSteps
  <2>2. \A o \in Executors : state'[o] = "halted" => state[o] = "halted"
    BY <1>5, InnerEffects DEF InnerEffect
  <2>3. QED BY <2>1, <2>2 DEF InnerMove, HaltedOK, SchedLabels, TypeOK
<1>6. ASSUME NEW e \in Executors, Other(e) PROVE HaltedOK'
  <2>1. PICK l : OtherMove(e, l)
    BY <1>6, OtherSteps
  <2>2. QED BY <2>1 DEF OtherMove, HaltedOK, TypeOK
<1>7. QED BY <1>1, <1>2, <1>3, <1>4, <1>5, <1>6, Steps

\* A negative epoch stays negative until the client executes a flow.
LEMMA EpochStays ==
  ASSUME TypeOK, Control, [Next]_vars, epoch < 0, ~ExecuteFlow
  PROVE  epoch' < 0
<1> USE DEF Control
<1>1. CASE UNCHANGED vars \/ SpawnThreads
  BY <1>1 DEF vars, SpawnThreads
<1>2. ASSUME NEW e \in Executors, Quiet(e) PROVE epoch' < 0
  BY <1>2, QuietSteps DEF QuietMove
<1>3. ASSUME NEW e \in Executors, Inner(e) PROVE epoch' < 0
  <2>1. PICK l : InnerMove(e, l)
    BY <1>3, InnerSteps
  <2>2. epoch >= 0
    BY <2>1 DEF InnerMove, EpochOK, LockOK
  <2>3. QED BY <2>2 DEF TypeOK
<1>4. ASSUME NEW e \in Executors, Other(e) PROVE epoch' < 0
  BY <1>4, OtherSteps DEF OtherMove
<1>5. QED BY <1>1, <1>2, <1>3, <1>4, Steps

\* SyncDecide stops executor 0 when it has read a negative epoch; the client goes on
\* after the stop.
LEMMA StopStep ==
  ASSUME TypeOK, Control, PendingOK, StopOK, [Next]_vars
  PROVE  StopOK'
<1> USE DEF Control
<1> DEFINE C == {"add", "flow", "stop", "bye", "destroy", "join", "end"}
<1>1. CASE ExecuteFlow
  <2>1. pc'[0] \in {"try", "spawn", "enter"} /\ state'[0] # "pending_shutdown"
    BY <1>1, ZeroInExecutors DEF ExecuteFlow, Goto, At, PendingOK, TypeOK, execVars
  <2>2. QED BY <2>1 DEF StopOK
<1>2. ASSUME ~ExecuteFlow, epoch >= 0,
             pc[0] \notin C, pc[0] = "sync_decide" => ~(seen < 0), state[0] # "pending_shutdown"
      PROVE  StopOK'
  <2> SUFFICES ASSUME ~(epoch' < 0)
               PROVE  /\ pc'[0] \notin C /\ state'[0] # "pending_shutdown"
                      /\ pc'[0] = "sync_decide" => ~(seen' < 0)
    BY <1>2 DEF StopOK, TypeOK
  <2> USE <1>2
  <2>1. CASE UNCHANGED vars \/ SpawnThreads
    BY <2>1, ZeroInExecutors DEF vars, SpawnThreads, execVars, clientVars
  <2>2. ASSUME NEW e \in Executors, Quiet(e)
        PROVE  /\ pc'[0] \notin C /\ state'[0] # "pending_shutdown"
               /\ pc'[0] = "sync_decide" => ~(seen' < 0)
    <3>1. PICK l : QuietMove(e, l)
      BY <2>2, QuietSteps
    <3>2. CASE e = 0
      <4>1. ~(AddTasks \/ Shutdown \/ Join \/ Destroyed \/ Stop(e) \/ Bye(e) \/ LeaveCycle(e))
        BY <3>2 DEF AddTasks, Shutdown, Join, Destroyed, Stop, Bye, LeaveCycle, At
      <4>2. CASE SyncEpoch \/ SyncDecide \/ SyncWait
        <5>1. CASE SyncEpoch \/ SyncWait
          BY <5>1, ZeroInExecutors DEF SyncEpoch, SyncWait, Goto, At, TypeOK, execVars
        <5>2. CASE SyncDecide
          <6>1. pc[0] = "sync_decide" /\ seen \in Int
            BY <5>2 DEF SyncDecide, At, TypeOK
          <6>2. ~(seen < 0)
            BY <6>1
          <6>3. UNCHANGED state /\ pc'[0] \in {"loop", "sync_wait"}
            BY <5>2, <6>2, ZeroInExecutors DEF SyncDecide, Goto, TypeOK
          <6>4. QED BY <6>3
        <5>3. QED BY <4>2, <5>1, <5>2
      <4>3. CASE Enter(e) \/ Halt(e) \/ Announce(e) \/ Parked(e)
        BY <3>2, <4>3 DEF Enter, Halt, Announce, Parked, Goto, At, TypeOK, execVars
      <4>4. CASE BeginStealing(e) \/ ContinueStealing(e) \/ StealBlocked(e) \/ StealNothing(e)
        BY <3>2, <4>4 DEF BeginStealing, ContinueStealing, OwnQueuePred, StealBlocked,
           StealNothing, Goto, At, TypeOK, execVars
      <4>5. QED BY <2>2, <3>2, <4>1, <4>2, <4>3, <4>4 DEF Quiet
    <3>3. CASE e # 0
      <4>1. pc'[0] = pc[0]
        BY <3>1, <3>3 DEF QuietMove, TypeOK
      <4>2. state'[0] = state[0] /\ seen' = seen
        BY <2>2, <3>3, ZeroInExecutors DEF Quiet, Enter, LeaveCycle, BeginStealing,
           ContinueStealing, OwnQueuePred, StealBlocked, StealNothing, Halt, Announce, Parked,
           Stop, Bye, TypeOK, execVars, clientVars
      <4>3. QED BY <4>1, <4>2
    <3>4. QED BY <3>2, <3>3
  <2>3. ASSUME NEW e \in Executors, Inner(e)
        PROVE  /\ pc'[0] \notin C /\ state'[0] # "pending_shutdown"
               /\ pc'[0] = "sync_decide" => ~(seen' < 0)
    <3>1. PICK l : InnerMove(e, l)
      BY <2>3, InnerSteps
    <3>2. state'[0] # "pending_shutdown"
      BY <2>3, InnerEffects, ZeroInExecutors DEF InnerEffect
    <3>3. QED BY <3>1, <3>2, ZeroInExecutors DEF InnerMove, SchedLabels, TypeOK, clientVars
  <2>4. ASSUME NEW e \in Executors, Other(e)
        PROVE  /\ pc'[0] \notin C /\ state'[0] # "pending_shutdown"
               /\ pc'[0] = "sync_decide" => ~(seen' < 0)
    <3>1. PICK l : OtherMove(e, l)
      BY <2>4, OtherSteps
    <3>2. QED BY <3>1, ZeroInExecutors DEF OtherMove, TypeOK, clientVars
  <2>5. QED BY <2>1, <2>2, <2>3, <2>4, Steps
<1>3. CASE ~ExecuteFlow /\ epoch < 0
  BY <1>3, EpochStays DEF StopOK
<1>4. QED BY <1>1, <1>2, <1>3 DEF StopOK, TypeOK

\* The destructor is the only one to stop the threads, and never returns.
LEMMA ThreadStopStep ==
  ASSUME TypeOK, Control, ThreadStopOK, [Next]_vars
  PROVE  ThreadStopOK'
<1> USE DEF Control
<1> DEFINE D == {"destroy", "join", "end"}
           Stopped(o) == state[o] \in {"pending_shutdown", "shutdown"}
                         \/ pc[o] \in {"stop", "bye", "end"}
<1> SUFFICES ASSUME NEW o \in Executors \ {0}, Stopped(o)' PROVE pc'[0] \in D
  BY DEF ThreadStopOK
<1>1. pc[0] \in D => pc'[0] \in D
  <2>1. CASE UNCHANGED vars \/ ExecuteFlow \/ SpawnThreads
    BY <2>1 DEF vars, ExecuteFlow, SpawnThreads, At
  <2>2. ASSUME NEW e \in Executors, Quiet(e) PROVE pc[0] \in D => pc'[0] \in D
    <3>1. PICK l : QuietMove(e, l)
      BY <2>2, QuietSteps
    <3>2. QED BY <3>1, ZeroInExecutors DEF QuietMove, TypeOK
  <2>3. ASSUME NEW e \in Executors, Inner(e) PROVE pc[0] \in D => pc'[0] \in D
    <3>1. PICK l : InnerMove(e, l)
      BY <2>3, InnerSteps
    <3>2. QED BY <3>1, ZeroInExecutors DEF InnerMove, SchedLabels, TypeOK
  <2>4. ASSUME NEW e \in Executors, Other(e) PROVE pc[0] \in D => pc'[0] \in D
    <3>1. PICK l : OtherMove(e, l)
      BY <2>4, OtherSteps
    <3>2. QED BY <3>1, ZeroInExecutors DEF OtherMove, TypeOK
  <2>5. QED BY <2>1, <2>2, <2>3, <2>4, Steps
<1>2. CASE Stopped(o)
  BY <1>1, <1>2 DEF ThreadStopOK
<1>3. CASE ~Stopped(o)
  <2>1. CASE UNCHANGED vars \/ ExecuteFlow \/ SpawnThreads
    BY <1>3, <2>1 DEF vars, ExecuteFlow, SpawnThreads, Goto, execVars, TypeOK
  <2>2. ASSUME NEW e \in Executors, Quiet(e) PROVE pc'[0] \in D
    <3>1. PICK l : QuietMove(e, l)
      BY <2>2, QuietSteps
    <3>2. CASE e = 0 /\ Shutdown
      BY <3>2, ZeroInExecutors DEF Shutdown, Goto, TypeOK
    <3>3. CASE ~(e = 0 /\ Shutdown) /\ e # o
      <4>1. pc'[o] = pc[o] /\ state'[o] = state[o]
        BY <2>2, <3>1, <3>3 DEF QuietMove, Quiet, AddTasks, Join, Destroyed, SyncEpoch, SyncDecide,
           SyncWait, Enter, LeaveCycle, BeginStealing, ContinueStealing, OwnQueuePred,
           StealBlocked, StealNothing, Halt, Announce, Parked, Stop, Bye, TypeOK, execVars
      <4>2. QED BY <1>3, <4>1
    <3>4. CASE e = o
      <4>1. ~(Stop(e) \/ Bye(e) \/ LeaveCycle(e))
        BY <1>3, <3>4 DEF Stop, Bye, LeaveCycle, At
      <4>2. CASE Enter(e) \/ Halt(e) \/ Announce(e) \/ Parked(e)
        BY <1>3, <3>4, <4>2 DEF Enter, Halt, Announce, Parked, Goto, At, TypeOK, execVars
      <4>3. CASE BeginStealing(e) \/ ContinueStealing(e) \/ StealBlocked(e) \/ StealNothing(e)
        BY <1>3, <3>4, <4>3, SMTT(20) DEF BeginStealing, ContinueStealing, OwnQueuePred, StealBlocked,
           StealNothing, Goto, At, TypeOK, execVars
      <4>4. QED BY <2>2, <3>4, <4>1, <4>2, <4>3 DEF Quiet
    <3>5. QED BY <3>2, <3>3, <3>4
  <2>3. ASSUME NEW e \in Executors, Inner(e) PROVE pc'[0] \in D
    <3>1. PICK l : InnerMove(e, l)
      BY <2>3, InnerSteps
    <3>2. state'[o] \in {state[o], "busy"}
      BY <2>3, InnerEffects DEF InnerEffect
    <3>3. QED BY <1>3, <3>1, <3>2 DEF InnerMove, SchedLabels, TypeOK
  <2>4. ASSUME NEW e \in Executors, Other(e) PROVE pc'[0] \in D
    <3>1. PICK l : OtherMove(e, l)
      BY <2>4, OtherSteps
    <3>2. QED BY <1>3, <3>1 DEF OtherMove, TypeOK
  <2>5. QED BY <2>1, <2>2, <2>3, <2>4, Steps
<1>4. QED BY <1>2, <1>3

\* The invariants of states and stops together.
LEMMA StopInvariant == Spec => [](HaltedOK /\ StopOK /\ ThreadStopOK)
<1>1. Init => HaltedOK /\ StopOK /\ ThreadStopOK
  BY ZeroInExecutors DEF Init, HaltedOK, StopOK, ThreadStopOK
<1>2. IInv /\ PendingOK /\ HaltedOK /\ StopOK /\ ThreadStopOK /\ [Next]_vars
      => (HaltedOK /\ StopOK /\ ThreadStopOK)'
  BY HaltedStep, StopStep, ThreadStopStep DEF IInv
<1>3. QED BY <1>1, <1>2, InductiveInvariant, PendingInvariant, PTL DEF Spec

\* While a scheduler holds its lock and the epoch goes on, the client is in execute_flow
\* and nobody has been told to stop.
LEMMA NobodyStops ==
  ASSUME TypeOK, Control, StopOK, ThreadStopOK, NEW e \in Executors, mx = e, pc[e] # "unlock"
  PROVE  /\ pc[0] \notin {"add", "flow", "spawn", "destroy", "join", "end", "stop", "bye"}
         /\ pc[0] = "sync_decide" => seen >= 0
         /\ \A o \in Executors : /\ state[o] # "pending_shutdown"
                                 /\ pc[o] \notin {"stop", "bye", "end"}
                                 /\ o # 0 => state[o] # "shutdown"
<1> USE DEF Control
<1>1. epoch >= 0
  BY DEF EpochOK
<1>2. /\ pc[0] \notin {"add", "flow", "destroy", "join", "end", "stop", "bye"}
      /\ pc[0] = "sync_decide" => seen >= 0
      /\ state[0] # "pending_shutdown"
  BY <1>1 DEF StopOK, TypeOK
<1>3. pc[0] # "spawn"
  <2>1. pc[e] \in SchedLabels \cup {"steal", "run"}
    BY DEF LockOK
  <2>2. QED BY <2>1, ZeroInExecutors DEF ThreadsOK, SchedLabels
<1>4. QED BY <1>2, <1>3 DEF ThreadStopOK

\* Whoever else has a task in hand is busy, as long as nobody is told to stop.
LEMMA HoldersBusy ==
  ASSUME TypeOK, Control, HandOK, HaltedOK, StopOK, ThreadStopOK,
         NEW e \in Executors, mx = e, pc[e] \notin LastLabels \/ Ends(e),
         NEW o \in Executors \ {e}, hand[o] # NoTask
  PROVE  state[o] = "busy"
<1> USE DEF Control
<1>1. pc[o] # "try"
  <2>1. CASE pc[e] \notin LastLabels
    BY <2>1 DEF TokenOK, Duty, At
  <2>2. CASE Ends(e)
    BY <2>2 DEF TokenOK, NoToken, Ends, Duty, At
  <2>3. QED BY <2>1, <2>2
<1>2. pc[o] = "run"
  BY <1>1 DEF HandOK, Items, TypeOK
<1>3. origin[o] \in {"own", "steal"}
  BY <1>2 DEF OriginOK
<1>4. state[o] \notin {"init", "shutdown"}
  BY <1>2, <1>3 DEF CycleOK, InCycle, OutLabels
<1>5. state[o] # "halted"
  BY <1>2 DEF HaltedOK
<1>6. state[o] # "pending_shutdown"
  <2>1. pc[e] # "unlock"
    BY DEF LastLabels, Ends
  <2>2. QED BY <2>1, NobodyStops
<1>7. QED BY <1>4, <1>5, <1>6 DEF TypeOK, States

-----------------------------------------------------------------------------
(* What stealing does to queues and to the sequence of victims *)

\* Rotating the sequence keeps the victims, dropping its head loses that one only.
LEMMA VictimsLeft ==
  ASSUME NEW s \in Seq(Executors), s # <<>>
  PROVE  /\ Elements(Rotate(s)) = Elements(s)
         /\ Elements(s) = Elements(Tail(s)) \cup {Head(s)}
<1> DEFINE n == Len(s)  r == Rotate(s)  t == Tail(s)
<1>1. /\ n \in Nat /\ n >= 1 /\ t \in Seq(Executors) /\ Len(t) = n - 1
      /\ Head(s) \in Executors /\ Head(s) = s[1]
      /\ \A i \in 1 .. n - 1 : t[i] = s[i + 1]
  BY EmptySeq, HeadTailProperties
<1>2. /\ Len(r) = n /\ r[n] = s[1]
      /\ \A i \in 1 .. n - 1 : r[i] = s[i + 1]
  <2>1. Len(Append(t, Head(s))) = Len(t) + 1
    BY <1>1, AppendProperties
  <2>2. Append(t, Head(s))[Len(t) + 1] = Head(s)
    BY <1>1, AppendProperties
  <2>3. \A i \in 1 .. Len(t) : Append(t, Head(s))[i] = t[i]
    BY <1>1, AppendProperties
  <2>4. r = Append(t, Head(s))
    BY DEF Rotate
  <2> HIDE DEF r, t
  <2>5. QED BY <1>1, <2>1, <2>2, <2>3, <2>4
<1> HIDE DEF n, r, t
<1>3. Elements(s) = Elements(t) \cup {s[1]}
  <2>1. ASSUME NEW i \in 1 .. n PROVE s[i] \in Elements(t) \cup {s[1]}
    <3>1. CASE i = 1
      BY <3>1
    <3>2. CASE i # 1
      <4>1. i - 1 \in 1 .. n - 1 /\ (i - 1) + 1 = i
        BY <1>1, <3>2
      <4>2. t[i - 1] = s[i]
        BY <1>1, <4>1
      <4>3. QED BY <1>1, <4>1, <4>2 DEF Elements
    <3>3. QED BY <3>1, <3>2
  <2>2. ASSUME NEW i \in 1 .. n - 1 PROVE t[i] \in Elements(s)
    <3>1. i + 1 \in 1 .. n /\ t[i] = s[i + 1]
      BY <1>1
    <3>2. QED BY <3>1 DEF Elements, n
  <2>3. s[1] \in Elements(s)
    BY <1>1 DEF Elements, n
  <2>4. Elements(t) \subseteq Elements(s)
    BY <1>1, <2>2 DEF Elements
  <2>5. Elements(s) \subseteq Elements(t) \cup {s[1]}
    BY <2>1 DEF Elements, n
  <2>6. QED BY <2>3, <2>4, <2>5
<1>4. Elements(r) = Elements(s)
  <2>1. ASSUME NEW i \in 1 .. n PROVE r[i] \in Elements(s)
    <3>1. CASE i = n
      <4>1. 1 \in 1 .. n
        BY <1>1
      <4>2. QED BY <1>2, <3>1, <4>1 DEF Elements, n
    <3>2. CASE i # n
      <4>1. i + 1 \in 1 .. n /\ r[i] = s[i + 1]
        BY <1>1, <1>2, <3>2
      <4>2. QED BY <4>1 DEF Elements, n
    <3>3. QED BY <3>1, <3>2
  <2>2. ASSUME NEW i \in 1 .. n PROVE s[i] \in Elements(r)
    <3>1. CASE i = 1
      <4>1. n \in 1 .. n
        BY <1>1
      <4>2. QED BY <1>2, <3>1, <4>1 DEF Elements
    <3>2. CASE i # 1
      <4>1. i - 1 \in 1 .. n - 1 /\ i - 1 \in 1 .. n /\ (i - 1) + 1 = i
        BY <1>1, <3>2
      <4>2. r[i - 1] = s[i]
        BY <1>2, <4>1
      <4>3. QED BY <1>2, <4>1, <4>2 DEF Elements
    <3>3. QED BY <3>1, <3>2
  <2>3. Elements(r) \subseteq Elements(s)
    BY <1>2, <2>1 DEF Elements
  <2>4. Elements(s) \subseteq Elements(r)
    BY <2>2 DEF Elements, n
  <2>5. QED BY <2>3, <2>4
<1>5. QED BY <1>1, <1>3, <1>4 DEF r, t

\* e takes an item of v, which has one less.
Takes(e, v) ==
    /\ v \in Executors /\ queue[v] # <<>>
    /\ \A o \in Executors \ {v} : queue'[o] = queue[o]
    /\ queue'[v] \in Seq(Items) /\ Len(queue'[v]) = Len(queue[v]) - 1
    /\ \A o \in Executors \ {e} : hand'[o] = hand[o]
    /\ UNCHANGED <<state, global, done, failed, mx, epoch, busy, idx, ended>>

LEMMA PopTakesOne ==
  ASSUME TypeOK, Control, NEW e \in Executors, Pop(e)
  PROVE  Takes(e, e)
<1> USE DEF Control
<1>1. Taken(e, e)
  BY PopTakes
<1>2. queue'[e] = Tail(queue[e]) /\ queue[e] \in Seq(Items) /\ queue[e] # <<>>
  BY <1>1 DEF Pop, Taken, TypeOK
<1>3. Len(queue'[e]) = Len(queue[e]) - 1
  BY <1>2, HeadTailProperties, EmptySeq
<1>4. UNCHANGED <<global, done, failed, busy>>
  BY DEF Pop, schedVars, history
<1>5. QED BY <1>1, <1>3, <1>4 DEF Taken, Takes, LeftOf, TypeOK

LEMMA StealTakesOne ==
  ASSUME TypeOK, Control, NEW e \in Executors, StealTask(e)
  PROVE  /\ Takes(e, Head(CurrentTargets(e)))
         /\ Stealable(Head(CurrentTargets(e)))
<1> USE DEF Control
<1> DEFINE v == Head(CurrentTargets(e))
<1>1. Taken(e, v) /\ Stealable(v)
  BY StealTakes
<1>2. queue'[v] = WithoutLast(queue[v]) /\ queue[v] \in Seq(Items) /\ queue[v] # <<>>
  BY <1>1 DEF StealTask, Taken, TypeOK
<1>3. UNCHANGED <<global, done, failed, busy>>
  BY DEF StealTask, history
<1> HIDE DEF v
<1>4. Len(queue'[v]) = Len(queue[v]) - 1
  BY <1>2, CutTypes
<1>5. Takes(e, v)
  BY <1>1, <1>3, <1>4 DEF Taken, Takes, LeftOf, TypeOK
<1>6. QED BY <1>1, <1>5 DEF v

\* A neighbour with nothing to give is drained.
LEMMA NothingToGive ==
  ASSUME TypeOK, NEW o \in Executors
  PROVE  Drained(o) <=> ~Stealable(o)
<1>1. queue[o] \in Seq(Items)
  BY DEF TypeOK
<1> DEFINE n == Len(queue[o])
<1>2. n \in Nat /\ (queue[o] = <<>> <=> n = 0)
  BY <1>1, EmptySeq
<1>3. Stealable(o) <=> n > 1 \/ (state[o] \in {"init", "shutdown"} /\ queue[o] # <<>>)
  BY DEF Stealable
<1>4. Drained(o) <=> queue[o] = <<>> \/ (n = 1 /\ state[o] \notin {"init", "shutdown"})
  BY DEF Drained
<1> HIDE DEF n
<1>5. QED BY <1>2, <1>3, <1>4

\* Nothing is stolen from a drained executor, and it stays drained.
LEMMA DrainedKept ==
  ASSUME TypeOK, NEW o \in Executors, Drained(o),
         state'[o] \in {"init", "shutdown"} => state[o] \in {"init", "shutdown"},
         \/ queue'[o] = queue[o]
         \/ queue'[o] \in Seq(Items) /\ Len(queue'[o]) = Len(queue[o]) - 1
  PROVE  Drained(o)' /\ ~Stealable(o)
<1>1. queue[o] \in Seq(Items)
  BY DEF TypeOK
<1>2. ~Stealable(o)
  BY NothingToGive
<1>3. CASE queue'[o] = queue[o]
  BY <1>2, <1>3 DEF Drained
<1>4. CASE queue'[o] \in Seq(Items) /\ Len(queue'[o]) = Len(queue[o]) - 1
  <2>1. Len(queue[o]) \in {0, 1} /\ Len(queue'[o]) \in Nat
    BY <1>1, <1>4, EmptySeq DEF Drained
  <2>2. Len(queue'[o]) = 0
    BY <1>4, <2>1
  <2>3. queue'[o] = <<>>
    BY <1>4, <2>2, EmptySeq
  <2>4. QED BY <1>2, <2>3 DEF Drained
<1>5. QED BY <1>3, <1>4

-----------------------------------------------------------------------------
(* What the others do meanwhile *)

\* A step of the executor x beside the scheduler e: it starts, halts, takes a task or
\* ends one.
Aside(x, e) ==
    /\ pc'[e] = pc[e]
    /\ UNCHANGED <<schedTargets, busy, idx, ended>>
    /\ \A o \in Executors : state'[o] # state[o] =>
          o = x /\ state[o] # "halted" /\ state'[o] \in {"busy", "halted"}
    /\ \A o \in Executors \ {x} : hand'[o] = hand[o]
    /\ failed \subseteq failed'
    /\ \/ queue' = queue /\ hand'[x] \in {hand[x], NoTask}
       \/ Pop(x) /\ Takes(x, x)
       \/ StealTask(x) /\ \E v \in Executors : Takes(x, v) /\ Stealable(v)
    /\ global' # global => hand[x] # NoTask /\ (global # <<>> => global' # <<>>)

\* Everybody else's steps are such steps.
LEMMA AsideSteps ==
  ASSUME TypeOK, Control, StopOK, ThreadStopOK,
         NEW e \in Executors, mx = e, pc[e] # "unlock", NEW x \in Executors \ {e},
         Quiet(x) \/ Inner(x) \/ Other(x)
  PROVE  Aside(x, e)
<1> USE DEF Control
<1>1. CASE Quiet(x)
  <2>1. PICK l : QuietMove(x, l)
    BY <1>1, QuietSteps
  <2>2. pc'[e] = pc[e] /\ UNCHANGED <<queue, hand, busy, idx, ended>>
    BY <2>1 DEF QuietMove, TypeOK
  <2>3. /\ pc[0] \notin {"add", "flow", "spawn", "destroy", "join", "end", "stop", "bye"}
        /\ pc[0] = "sync_decide" => seen >= 0
        /\ \A o \in Executors : pc[o] \notin {"stop", "bye", "end"}
    BY NobodyStops
  <2>4. /\ ~(x = 0 /\ (AddTasks \/ Shutdown \/ Join \/ Destroyed))
        /\ ~(Stop(x) \/ Bye(x))
    BY <2>3 DEF AddTasks, Shutdown, Join, Destroyed, Stop, Bye, At
  <2>5. UNCHANGED <<schedTargets, global, failed>>
        /\ \A o \in Executors : state'[o] # state[o] =>
              o = x /\ state[o] # "halted" /\ state'[o] \in {"busy", "halted"}
    <3>1. CASE x = 0 /\ (SyncEpoch \/ SyncWait)
      BY <3>1 DEF SyncEpoch, SyncWait, execVars, schedVars, history
    <3>2. CASE x = 0 /\ SyncDecide
      <4>1. seen \in Int /\ seen >= 0
        BY <2>3, <3>2 DEF SyncDecide, At, TypeOK
      <4>2. ~(seen < 0)
        BY <4>1
      <4>3. QED BY <3>2, <4>2 DEF SyncDecide, schedVars, history
    <3>3. CASE Enter(x) \/ Halt(x)
      BY <3>3 DEF Enter, Halt, TypeOK, schedVars, history
    <3>4. CASE LeaveCycle(x) \/ Announce(x) \/ Parked(x) \/ BeginStealing(x) \/ ContinueStealing(x)
      BY <3>4 DEF LeaveCycle, Announce, Parked, BeginStealing, ContinueStealing, OwnQueuePred,
         execVars, schedVars, history
    <3>5. CASE StealBlocked(x) \/ StealNothing(x)
      BY <3>5 DEF StealBlocked, StealNothing, SetTargets, Scheduling, execVars, history
    <3>6. QED BY <1>1, <2>4, <3>1, <3>2, <3>3, <3>4, <3>5 DEF Quiet
  <2>6. QED BY <2>2, <2>5 DEF Aside
<1>2. CASE Inner(x)
  <2>1. PICK l : InnerMove(x, l)
    BY <1>2, InnerSteps
  <2>2. mx = x
    BY <2>1 DEF InnerMove, LockOK
  <2>3. QED BY <2>2
<1>3. CASE Pop(x)
  <2>1. Takes(x, x)
    BY <1>3, PopTakesOne
  <2>2. pc'[e] = pc[e] /\ UNCHANGED schedTargets
    BY <1>3 DEF Pop, Goto, TypeOK, schedVars
  <2>3. QED BY <1>3, <2>1, <2>2 DEF Takes, Aside
<1>4. CASE StealTask(x)
  <2>1. PICK v \in Executors : Takes(x, v) /\ Stealable(v)
    BY <1>4, StealTakesOne DEF Takes
  <2>2. pc'[e] = pc[e] /\ UNCHANGED schedTargets
    BY <1>4 DEF StealTask, SetTargets, Scheduling, Goto, TypeOK
  <2>3. QED BY <1>4, <2>1, <2>2 DEF Takes, Aside
<1>5. CASE EndTask(x)
  <2>1. PICK l : AfterTaskMove(x, l)
    BY <1>5, EndTaskStep
  <2>2. pc'[e] = pc[e] /\ UNCHANGED <<state, queue, idx, ended>>
    BY <2>1 DEF AfterTaskMove, TypeOK
  <2>3. hand' = [hand EXCEPT ![x] = NoTask] /\ hand[x] \in Tasks
    BY <1>5 DEF EndTask, At, LocalsOK
  <2>4. UNCHANGED <<schedTargets, busy>> /\ failed \subseteq failed'
    BY <1>5 DEF EndTask, SetTargets, Scheduling
  <2>5. global' # global => hand[x] # NoTask /\ (global # <<>> => global' # <<>>)
    <3>1. hand[x] # NoTask
      BY <2>3, ItemAssumption DEF Items
    <3>2. PICK s \in {<<>>, Children[hand[x]]} : global' = global \/ global' = global \o s
      BY <1>5 DEF EndTask
    <3>3. global \in Seq(Items)
      BY TaskSeqs DEF TypeOK
    <3>4. Children[hand[x]] \in Seq(Tasks) /\ <<>> \in Seq(Tasks)
      BY <2>3, GraphAssumption, EmptySeq
    <3>5. QED BY <3>1, <3>2, <3>3, <3>4, DealtSeq
  <2>6. QED BY <2>2, <2>3, <2>4, <2>5 DEF Aside, TypeOK
<1>6. CASE TryScheduling(x)
  <2>1. PICK l : OtherMove(x, l)
    BY <1>6, OtherSteps DEF Other
  <2>2. hand' = [hand EXCEPT ![x] = NoTask]
        /\ UNCHANGED <<queue, schedTargets, busy, idx, ended, failed, global>>
    BY <1>6 DEF TryScheduling, execVars, schedVars, history
  <2>3. QED BY <2>1, <2>2 DEF OtherMove, Aside, TypeOK
<1>7. CASE Unlock(x)
  BY <1>7 DEF Unlock, At, LockOK, SchedLabels
<1>8. QED BY <1>1, <1>2, <1>3, <1>4, <1>5, <1>6, <1>7 DEF Other

\* Such a step keeps what the scheduler knows.
LEMMA AsideKeeps ==
  ASSUME TypeOK, Control, HaltedOK, NEW e \in Executors, pc[e] # "unlock", Known(e),
         NEW x \in Executors \ {e}, Aside(x, e)
  PROVE  Known(e)'
<1> USE DEF Control
<1>1. Looked(e)' <=> Looked(e)
  BY DEF Aside, Looked, Ends
<1>2. Ends(e)' <=> Ends(e)
  BY DEF Aside, Ends
<1>3. ASSUME NEW o \in Executors
      PROVE  \/ queue'[o] = queue[o]
             \/ queue'[o] \in Seq(Items) /\ Len(queue'[o]) = Len(queue[o]) - 1
  <2>1. CASE queue' = queue
    BY <2>1
  <2>2. CASE queue' # queue
    <3>1. PICK v \in Executors : Takes(x, v)
      BY <2>2 DEF Aside
    <3>2. QED BY <3>1 DEF Takes
  <2>3. QED BY <2>1, <2>2
<1>4. \A o \in Executors : Drained(o) => Drained(o)'
  BY <1>3, DrainedKept DEF Aside
<1>5. ASSUME Alone(e)' PROVE Alone(e) /\ \A v \in Executors : Takes(x, v) => v # e
  <2>1. state[e] = "busy" /\ failed = {}
    BY <1>5 DEF Alone, Aside
  <2>2. ASSUME NEW v \in Executors, Takes(x, v), v = e PROVE FALSE
    <3>1. Len(queue[e]) = 1
      <4> DEFINE n == Len(queue[e])
      <4>1. n \in Nat
        BY EmptySeq DEF TypeOK
      <4>2. 0 = n - 1
        BY <1>5, <2>2, EmptySeq DEF Alone, Takes
      <4> HIDE DEF n
      <4>3. n = 1
        BY <4>1, <4>2
      <4>4. QED BY <4>3 DEF n
    <3>2. ~Stealable(e)
      BY <2>1, <3>1, NothingToGive DEF Drained
    <3>3. queue'[e] # queue[e]
      BY <3>1, <1>5, EmptySeq DEF Alone
    <3>4. PICK u \in Executors : Takes(x, u) /\ (u = x \/ Stealable(u))
      BY <3>3 DEF Aside
    <3>5. u = e
      BY <3>3, <3>4 DEF Takes
    <3>6. QED BY <3>2, <3>4, <3>5
  <2>3. queue[e] = <<>>
    <3>1. CASE queue' = queue
      BY <1>5, <3>1 DEF Alone
    <3>2. CASE queue' # queue
      <4>1. PICK v \in Executors : Takes(x, v)
        BY <3>2 DEF Aside
      <4>2. queue'[e] = queue[e]
        BY <2>2, <4>1 DEF Takes
      <4>3. QED BY <1>5, <4>2 DEF Alone
    <3>3. QED BY <3>1, <3>2
  <2>4. QED BY <2>1, <2>2, <2>3 DEF Alone
<1>6. ASSUME Alone(e)', Looked(e), NEW o \in Executors \ {e}, Idle(o) PROVE Idle(o)'
  <2>1. \A v \in Executors : v # e => ~Stealable(v)
    <3>1. schedTargets = <<>> /\ Alone(e)
      BY <1>5, <1>6 DEF Known
    <3>2. Elements(schedTargets) = {}
      BY <3>1 DEF Elements
    <3>3. \A v \in Executors \ {e} : Drained(v)
      BY <1>6, <3>1, <3>2 DEF Known
    <3>4. QED BY <3>3, NothingToGive
  <2>2. ~StealTask(x)
    <3>1. ASSUME StealTask(x) PROVE FALSE
      <4>1. PICK v \in Executors : Takes(x, v) /\ Stealable(v)
        BY <3>1, StealTakesOne DEF Takes
      <4>2. v # e
        BY <1>5, <1>6, <4>1
      <4>3. QED BY <2>1, <4>1, <4>2
    <3>2. QED BY <3>1
  <2>3. hand'[o] = NoTask
    <3>1. CASE o # x
      BY <1>6, <3>1 DEF Aside, Idle
    <3>2. CASE o = x
      <4>1. ~Pop(x)
        <5>1. ASSUME Pop(x) PROVE FALSE
          <6>1. queue[x] # <<>> /\ pc[x] = "loop"
            BY <5>1, PopTakesOne DEF Takes, Pop, At
          <6>2. QED BY <1>6, <3>2, <6>1 DEF Idle, HaltedOK
        <5>2. QED BY <5>1
      <4>2. QED BY <1>6, <2>2, <3>2, <4>1 DEF Aside, Idle
    <3>3. QED BY <3>1, <3>2
  <2>4. CASE queue[o] = <<>>
    <3>1. queue'[o] = <<>>
      <4>1. ~(queue'[o] \in Seq(Items) /\ Len(queue'[o]) = Len(queue[o]) - 1)
        BY <2>4, EmptySeq
      <4>2. QED BY <1>3, <2>4, <4>1
    <3>2. QED BY <2>3, <3>1 DEF Idle
  <2>5. CASE state[o] = "halted"
    <3>1. state'[o] = "halted"
      BY <2>5 DEF Aside
    <3>2. QED BY <2>3, <3>1 DEF Idle
  <2>6. QED BY <1>6, <2>4, <2>5 DEF Idle
<1>7. Looked(e)' => schedTargets' = <<>>
  BY <1>1 DEF Known, Aside
<1>8. Alone(e)' /\ (pc'[e] \in {"s_pred", "steal", "run"} \/ Looked(e)') =>
        \A o \in Executors \ {e} : o \in Elements(schedTargets') \/ Drained(o)'
  <2>1. Elements(schedTargets') = Elements(schedTargets)
    BY DEF Aside
  <2>2. QED BY <1>1, <1>4, <1>5, <2>1 DEF Known, Aside
<1>9. Alone(e)' /\ Looked(e)' =>
        \A o \in Executors \ {e} : (pc'[e] = "collect" => o < idx') /\ o \notin busy' => Idle(o)'
  BY <1>1, <1>5, <1>6 DEF Known, Aside
<1>10. Alone(e)' /\ pc'[e] = "decide" => busy' = {} \/ global' # <<>>
  BY <1>5 DEF Known, Aside
<1>11. Alone(e)' /\ Ends(e)' => busy' = {} /\ global' = <<>>
  <2>1. ASSUME Alone(e)', Ends(e) PROVE busy = {} /\ global' = <<>>
    <3>1. busy = {} /\ global = <<>> /\ Alone(e) /\ Looked(e) /\ pc[e] # "collect"
      BY <1>5, <2>1 DEF Known, Looked, Ends
    <3>2. hand[x] = NoTask
      BY <3>1 DEF Known, Idle
    <3>3. QED BY <3>1, <3>2 DEF Aside
  <2>2. QED BY <1>2, <2>1 DEF Aside
<1>12. QED BY <1>7, <1>8, <1>9, <1>10, <1>11 DEF Known

-----------------------------------------------------------------------------
(* What the scheduler finds out *)

\* Once nothing can be stolen, an executor that is not busy is idle.
LEMMA IdleNow ==
  ASSUME TypeOK, Control, HandOK, HaltedOK, StopOK, ThreadStopOK,
         NEW e \in Executors, mx = e, pc[e] \in {"collect", "scan"},
         NEW o \in Executors \ {e}, state[o] # "busy", Drained(o)
  PROVE  Idle(o)
<1>1. pc[e] \notin LastLabels /\ pc[e] # "unlock"
  BY DEF LastLabels
<1>2. hand[o] = NoTask
  BY <1>1, HoldersBusy
<1>3. state[o] # "pending_shutdown"
  BY <1>1, NobodyStops
<1>4. QED BY <1>2, <1>3 DEF Drained, Idle, TypeOK, States

\* The queue of the scheduler was empty, and no task had thrown, a step before.
LEMMA AloneBefore ==
  ASSUME TypeOK, Control, HaltedOK, NEW e \in Executors, mx = e, mx' = e,
         Quiet(e) \/ Inner(e) \/ StealTask(e) \/ EndTask(e), Alone(e)'
  PROVE  Alone(e)
<1> USE DEF Control
<1>1. failed = {}
  <2>1. failed \subseteq failed'
    BY DEF Quiet, Inner, StealTask, EndTask, AddTasks, Shutdown, Join, Destroyed, SyncEpoch,
       SyncDecide, SyncWait, Enter, LeaveCycle, BeginStealing, ContinueStealing, OwnQueuePred,
       StealBlocked, StealNothing, Halt, Announce, Parked, Stop, Bye,
       TakeGlobal, SchedulePred, CollectBusy, ScanBusy, AwaitStateChange, DecideExhausted,
       CountEnqueued, DealShare, WakeUp, NextBatch, Repost, TickEpoch, FlipEpoch, history
  <2>2. QED BY <2>1 DEF Alone
<1>2. CASE Quiet(e)
  <2>1. StealBlocked(e) \/ StealNothing(e)
    BY <1>2 DEF Quiet, AddTasks, Shutdown, Join, Destroyed, SyncEpoch, SyncDecide, SyncWait, Enter,
       LeaveCycle, BeginStealing, ContinueStealing, Halt, Announce, Parked, Stop, Bye, At, LockOK,
       SchedLabels
  <2>2. QED BY <1>1, <2>1 DEF StealBlocked, StealNothing, Alone, execVars
<1>3. CASE Inner(e)
  <2>1. PICK l : InnerMove(e, l)
    BY <1>3, InnerSteps
  <2>2. state[e] # "halted"
    BY <2>1 DEF InnerMove, SchedLabels, HaltedOK
  <2>3. QED BY <1>1, <1>3, <2>2, InnerEffects DEF InnerEffect, Alone
<1>4. CASE StealTask(e)
  <2>1. PICK v \in Executors : Takes(e, v) /\ Stealable(v)
    BY <1>4, StealTakesOne DEF Takes
  <2>2. state[e] = "busy"
    BY <2>1 DEF Takes, Alone
  <2>3. CASE v = e
    <3> DEFINE n == Len(queue[e])
    <3>1. n \in Nat
      BY EmptySeq DEF TypeOK
    <3>2. 0 = n - 1
      BY <2>1, <2>3, EmptySeq DEF Alone, Takes
    <3>3. n > 1
      BY <2>1, <2>2, <2>3 DEF Stealable
    <3> HIDE DEF n
    <3>4. QED BY <3>1, <3>2, <3>3
  <2>4. CASE v # e
    <3>1. queue'[e] = queue[e]
      BY <2>1, <2>4 DEF Takes
    <3>2. QED BY <1>1, <2>2, <3>1 DEF Alone
  <2>5. QED BY <2>3, <2>4
<1>5. CASE EndTask(e)
  BY <1>1, <1>5 DEF EndTask, Alone, execVars
<1>6. QED BY <1>2, <1>3, <1>4, <1>5

\* While the scheduler steals, it forgets a neighbour only if it is drained.
LEMMA StealingKeeps ==
  ASSUME TypeOK, Control, HaltedOK, NEW e \in Executors, Known(e), mx = e, mx' = e,
         StealBlocked(e) \/ StealNothing(e) \/ StealTask(e) \/ EndTask(e)
  PROVE  Known(e)'
<1> USE DEF Control
<1>1. pc[e] \in {"steal", "run"} /\ pc'[e] \in {"s_pred", "try", "run"}
  BY DEF StealBlocked, StealNothing, StealTask, EndTask, AfterTask, Scheduling, Execute, Goto, At, TypeOK
<1>2. ~Looked(e)' /\ ~Ends(e)' /\ pc'[e] # "decide"
  BY <1>1 DEF Looked, Ends
<1>3. SUFFICES ASSUME Alone(e)', NEW o \in Executors \ {e}
               PROVE  o \in Elements(schedTargets') \/ Drained(o)'
  BY <1>2 DEF Known
<1>4. Alone(e)
  BY <1>3, AloneBefore DEF Quiet
<1>5. o \in Elements(schedTargets) \/ Drained(o)
  BY <1>1, <1>4 DEF Known
<1>6. pc[e] = "steal" => /\ schedTargets \in Seq(Executors) /\ schedTargets # <<>>
                         /\ CurrentTargets(e) = schedTargets
  BY DEF TypeOK, TargetsOK, CurrentTargets, Scheduling
<1>7. CASE StealBlocked(e)
  <2>1. schedTargets' = Rotate(schedTargets) /\ pc[e] = "steal" /\ UNCHANGED execVars
    BY <1>7, <1>6 DEF StealBlocked, SetTargets, Scheduling, At
  <2>2. Elements(schedTargets') = Elements(schedTargets)
    BY <1>6, <2>1, VictimsLeft
  <2>3. QED BY <1>5, <2>1, <2>2 DEF Drained, execVars
<1>8. CASE StealNothing(e)
  <2>1. /\ schedTargets' = Tail(schedTargets) /\ pc[e] = "steal" /\ UNCHANGED execVars
        /\ ~Stealable(Head(schedTargets))
    BY <1>8, <1>6 DEF StealNothing, SetTargets, Scheduling, At
  <2>2. Elements(schedTargets) = Elements(schedTargets') \cup {Head(schedTargets)}
    BY <1>6, <2>1, VictimsLeft
  <2>3. o = Head(schedTargets) => Drained(o)
    BY <2>1, NothingToGive
  <2>4. QED BY <1>5, <2>1, <2>2, <2>3 DEF Drained, execVars
<1>9. CASE StealTask(e)
  <2>1. schedTargets' = Rotate(schedTargets) /\ pc[e] = "steal"
    BY <1>9, <1>6 DEF StealTask, SetTargets, Scheduling, At
  <2>2. Elements(schedTargets') = Elements(schedTargets)
    BY <1>6, <2>1, VictimsLeft
  <2>3. PICK v \in Executors : Takes(e, v)
    BY <1>9, StealTakesOne DEF Takes
  <2>4. \/ queue'[o] = queue[o]
        \/ queue'[o] \in Seq(Items) /\ Len(queue'[o]) = Len(queue[o]) - 1
    BY <2>3 DEF Takes
  <2>5. Drained(o) => Drained(o)'
    BY <2>3, <2>4, DrainedKept DEF Takes
  <2>6. QED BY <1>5, <2>2, <2>5
<1>10. CASE EndTask(e)
  <2>1. failed' = {}
    BY <1>3 DEF Alone
  <2>2. UNCHANGED <<schedTargets, queue, state>>
    BY <1>10, <2>1 DEF EndTask, execVars
  <2>3. QED BY <1>5, <2>2 DEF Drained
<1>11. QED BY <1>7, <1>8, <1>9, <1>10

\* While it looks at the states, it learns that an executor is idle before it stops waiting
\* for it.
LEMMA LookingKeeps ==
  ASSUME TypeOK, Control, HandOK, HaltedOK, StopOK, ThreadStopOK,
         NEW e \in Executors, Known(e), mx = e, mx' = e,
         CollectBusy(e) \/ ScanBusy(e) \/ AwaitStateChange(e) \/ DecideExhausted(e)
  PROVE  Known(e)'
<1> USE DEF Control
<1>1. UNCHANGED <<state, queue, hand, failed, schedTargets>>
  BY DEF CollectBusy, ScanBusy, AwaitStateChange, DecideExhausted, execVars, threadVars, history
<1>2. Looked(e) /\ pc[e] \in {"collect", "scan", "await", "decide"} /\ schedTargets = <<>>
  BY DEF CollectBusy, ScanBusy, AwaitStateChange, DecideExhausted, At, Looked, Known
<1>3. /\ Alone(e)' <=> Alone(e)
      /\ \A o \in Executors : (Drained(o)' <=> Drained(o)) /\ (Idle(o)' <=> Idle(o))
  BY <1>1 DEF Alone, Drained, Idle
<1>4. schedTargets' = <<>>
  BY <1>1, <1>2
<1>5. ASSUME Alone(e) PROVE \A o \in Executors \ {e} : Drained(o)
  <2>1. Elements(schedTargets) = {}
    BY <1>2 DEF Elements
  <2>2. QED BY <1>2, <1>5, <2>1 DEF Known
<1>6. Alone(e)' => \A o \in Executors \ {e} : o \in Elements(schedTargets') \/ Drained(o)'
  BY <1>3, <1>5
<1>7. CASE CollectBusy(e)
  <2>1. pc[e] = "collect"
    BY <1>7 DEF CollectBusy, At
  <2>2. ASSUME Alone(e), idx < N,
               busy' = IF Awaited(e, idx) THEN busy \cup {idx} ELSE busy, idx' = idx + 1
        PROVE  \A o \in Executors \ {e} : o < idx' /\ o \notin busy' => Idle(o)
    <3> SUFFICES ASSUME NEW o \in Executors \ {e}, o < idx + 1, o \notin busy' PROVE Idle(o)
      BY <2>2
    <3>1. CASE o = idx
      <4>1. state[o] # "busy"
        BY <2>2, <3>1 DEF Awaited
      <4>2. QED BY <1>5, <2>1, <2>2, <4>1, IdleNow
    <3>2. CASE o # idx
      <4>1. o < idx
        BY <3>2, ZeroInExecutors DEF TypeOK
      <4>2. QED BY <1>2, <2>1, <2>2, <4>1 DEF Known
    <3>3. QED BY <3>1, <3>2
  <2>3. CASE idx < N
    <3>1. pc'[e] = "collect" /\ ~Ends(e)'
      BY <1>7, <2>1, <2>3 DEF CollectBusy, Ends, TypeOK
    <3>2. /\ busy' = IF Awaited(e, idx) THEN busy \cup {idx} ELSE busy
          /\ idx' = idx + 1
      BY <1>7, <2>3 DEF CollectBusy, TypeOK
    <3>3. Alone(e)' => \A o \in Executors \ {e} : o < idx' /\ o \notin busy' => Idle(o)'
      BY <1>3, <2>2, <2>3, <3>2
    <3>4. QED BY <1>4, <1>6, <3>1, <3>3 DEF Known
  <2>4. CASE ~(idx < N)
    <3>1. pc'[e] = "scan" /\ ~Ends(e)' /\ busy' = busy /\ idx = N
      BY <1>7, <2>4 DEF CollectBusy, Goto, Ends, TypeOK
    <3>2. \A o \in Executors : o < idx
      BY <3>1, NAssumption DEF Executors
    <3>3. Alone(e)' => \A o \in Executors \ {e} : o \notin busy' => Idle(o)'
      BY <1>2, <1>3, <3>1, <3>2 DEF Known
    <3>4. QED BY <1>4, <1>6, <3>1, <3>3 DEF Known
  <2>5. QED BY <2>3, <2>4
<1>8. CASE ScanBusy(e)
  <2>1. pc[e] = "scan" /\ pc'[e] \in {"scan", "decide", "await"} /\ ~Ends(e)'
    BY <1>8 DEF ScanBusy, Goto, At, Ends, TypeOK
  <2>2. ASSUME Alone(e), NEW o \in Executors \ {e}, o \notin busy' PROVE Idle(o)
    <3>1. CASE o \notin busy
      BY <1>2, <2>1, <2>2, <3>1 DEF Known
    <3>2. CASE o \in busy
      <4>1. state[o] # "busy"
        BY <1>8, <2>2, <3>2 DEF ScanBusy
      <4>2. QED BY <1>5, <2>1, <2>2, <4>1, IdleNow
    <3>3. QED BY <3>1, <3>2
  <2>3. pc'[e] = "decide" => busy' = {}
    BY <1>8, <2>1 DEF ScanBusy, Goto, TypeOK
  <2>4. Alone(e)' => \A o \in Executors \ {e} : o \notin busy' => Idle(o)'
    BY <1>3, <2>2
  <2>5. QED BY <1>4, <1>6, <2>1, <2>3, <2>4 DEF Known
<1>9. CASE AwaitStateChange(e)
  <2>1. /\ pc[e] = "await" /\ pc'[e] \in {"scan", "decide"} /\ ~Ends(e)'
        /\ pc'[e] = "decide" => global' # <<>>
        /\ busy' = busy
    BY <1>9 DEF AwaitStateChange, Goto, At, Ends, TypeOK
  <2>2. Alone(e)' => \A o \in Executors \ {e} : o \notin busy' => Idle(o)'
    BY <1>2, <1>3, <2>1 DEF Known
  <2>3. QED BY <1>4, <1>6, <2>1, <2>2 DEF Known
<1>10. CASE DecideExhausted(e)
  <2>1. /\ pc[e] = "decide" /\ pc'[e] \in {"tick", "count"}
        /\ pc'[e] = "tick" => global = <<>>
        /\ busy' = busy /\ global' = <<>>
    BY <1>10 DEF DecideExhausted, Goto, At, TypeOK
  <2>2. CASE pc'[e] = "count"
    BY <2>2 DEF Known, Looked, Ends
  <2>3. CASE pc'[e] = "tick"
    <3>1. Alone(e)' => busy' = {}
      BY <1>3, <2>1, <2>3 DEF Known
    <3>2. Alone(e)' => \A o \in Executors \ {e} : o \notin busy' => Idle(o)'
      BY <1>2, <1>3, <2>1 DEF Known
    <3>3. QED BY <1>4, <1>6, <2>1, <2>3, <3>1, <3>2 DEF Known
  <2>4. QED BY <2>1, <2>2, <2>3
<1>11. QED BY <1>7, <1>8, <1>9, <1>10

\* What it knows is kept, or no longer needed, by its other steps.
LEMMA SchedulerKeeps ==
  ASSUME TypeOK, Control, HandOK, HaltedOK, StopOK, ThreadStopOK,
         NEW e \in Executors, Known(e), mx = e, mx' = e, Inner(e)
  PROVE  Known(e)'
<1> USE DEF Control
<1>1. CASE TakeGlobal(e)
  <2>1. pc'[e] \in {"count", "s_pred"} /\ ~Looked(e)' /\ ~Ends(e)'
    BY <1>1 DEF TakeGlobal, Goto, Looked, Ends, TypeOK
  <2>2. CASE pc'[e] = "count"
    BY <2>1, <2>2 DEF Known
  <2>3. CASE pc'[e] = "s_pred"
    <3>1. schedTargets' = get_stealing_target_sequence(e)
      BY <1>1, <2>3 DEF TakeGlobal, Goto, TypeOK
    <3>2. Len(get_stealing_target_sequence(e)) = N - 1
      BY NeighbourSequence
    <3>3. Elements(schedTargets') = Executors \ {e}
      BY <3>1, <3>2, NeighboursCovered DEF Elements
    <3>4. QED BY <2>1, <2>3, <3>3 DEF Known
  <2>4. QED BY <2>1, <2>2, <2>3
<1>2. CASE SchedulePred(e)
  <2>1. /\ pc[e] = "s_pred" /\ pc'[e] \in {"take", "collect", "steal"}
        /\ UNCHANGED <<state, queue, hand, failed, schedTargets>>
        /\ pc'[e] = "collect" => schedTargets = <<>> /\ idx' = 0
    BY <1>2 DEF SchedulePred, Goto, At, TypeOK, execVars, threadVars, history
  <2>2. ~Ends(e)' /\ (Looked(e)' => pc'[e] = "collect") /\ pc'[e] # "decide"
    BY <2>1 DEF Ends, Looked
  <2>3. Alone(e)' => \A o \in Executors \ {e} : o \in Elements(schedTargets') \/ Drained(o)'
    BY <2>1 DEF Known, Alone, Drained
  <2>4. pc'[e] = "collect" => \A o \in Executors : ~(o < idx')
    BY <2>1, ZeroInExecutors DEF Executors
  <2>5. QED BY <2>1, <2>2, <2>3, <2>4 DEF Known
<1>3. CASE CollectBusy(e) \/ ScanBusy(e) \/ AwaitStateChange(e) \/ DecideExhausted(e)
  BY <1>3, LookingKeeps
<1>4. CASE CountEnqueued(e) \/ DealShare(e) \/ WakeUp(e) \/ NextBatch(e) \/ Repost(e)
  <2>1. /\ pc[e] \in {"count", "deal", "wake", "more", "repost"}
        /\ pc'[e] \in {"count", "deal", "wake", "more", "repost", "tick"}
        /\ ended' = ended
    BY <1>4 DEF CountEnqueued, DealShare, WakeUp, NextBatch, Repost, Goto, At, TypeOK, schedVars
  <2>2. ~ended
    BY <2>1 DEF EndedOK, LastLabels
  <2>3. QED BY <2>1, <2>2 DEF Known, Looked, Ends
<1>5. CASE TickEpoch(e)
  <2>1. /\ pc[e] = "tick" /\ pc'[e] = IF ended THEN "flip" ELSE "unlock"
        /\ UNCHANGED <<state, queue, hand, failed, schedTargets, busy, idx, ended, global>>
    BY <1>5 DEF TickEpoch, Goto, At, TypeOK, execVars, threadVars, schedVars, history
  <2>2. CASE ended
    <3>1. Looked(e) /\ Ends(e) /\ pc[e] # "collect" /\ pc'[e] = "flip"
      BY <2>1, <2>2 DEF Looked, Ends
    <3>2. (Alone(e)' <=> Alone(e)) /\ \A o \in Executors : (Drained(o)' <=> Drained(o)) /\ (Idle(o)' <=> Idle(o))
      BY <2>1 DEF Alone, Drained, Idle
    <3>3. QED BY <2>1, <3>1, <3>2 DEF Known
  <2>3. CASE ~ended
    BY <2>1, <2>3 DEF Known, Looked, Ends
  <2>4. QED BY <2>2, <2>3
<1>6. CASE FlipEpoch(e)
  <2>1. pc'[e] = "unlock"
    BY <1>6 DEF FlipEpoch, Goto, TypeOK
  <2>2. QED BY <2>1 DEF Known, Looked, Ends
<1>7. QED BY <1>1, <1>2, <1>3, <1>4, <1>5, <1>6 DEF Inner

-----------------------------------------------------------------------------
(* The end of an epoch *)

LEMMA QuietStep ==
  ASSUME TypeOK, Control, HandOK, HaltedOK, StopOK, ThreadStopOK, QuietOK, [Next]_vars
  PROVE  QuietOK'
<1> USE DEF Control
<1> SUFFICES ASSUME NEW e \in Executors, mx' = e PROVE Known(e)'
  BY DEF QuietOK
<1>1. CASE UNCHANGED vars
  BY <1>1 DEF QuietOK, Known, Looked, Ends, Alone, Drained, Idle, vars, execVars, threadVars,
     schedVars, history
<1>2. CASE ExecuteFlow
  <2>1. mx = e /\ pc[0] = "flow"
    BY <1>2 DEF ExecuteFlow, At
  <2>2. pc[e] = "unlock"
    BY <2>1, NobodyStops
  <2>3. pc'[e] = "unlock"
    BY <1>2, <2>1, <2>2 DEF ExecuteFlow, Goto, TypeOK
  <2>4. QED BY <2>3 DEF Known, Looked, Ends
<1>3. CASE SpawnThreads
  <2>1. pc'[e] = "enter"
    BY <1>3 DEF SpawnThreads
  <2>2. QED BY <2>1 DEF Known, Looked, Ends
<1>4. ASSUME NEW x \in Executors, Quiet(x) \/ Inner(x) \/ Other(x) PROVE Known(e)'
  <2>1. CASE TryScheduling(x)
    <3>1. CASE mx' = mx
      <4>1. x # e /\ mx = e
        BY <2>1, <3>1 DEF TryScheduling, At, LockOK, SchedLabels, TokenOK
      <4>2. QED
        <5>1. CASE pc[e] # "unlock"
          BY <1>4, <4>1, <5>1, AsideSteps, AsideKeeps DEF QuietOK
        <5>2. CASE pc[e] = "unlock"
          <6>1. pc'[e] = "unlock"
            BY <2>1, <4>1, <5>2 DEF TryScheduling, Return, Goto, TypeOK
          <6>2. QED BY <6>1 DEF Known, Looked, Ends
        <5>3. QED BY <5>1, <5>2
    <3>2. CASE mx' # mx
      <4>1. pc'[e] = "take"
        BY <2>1, <3>2 DEF TryScheduling, Goto, TypeOK
      <4>2. QED BY <4>1 DEF Known, Looked, Ends
    <3>3. QED BY <3>1, <3>2
  <2>2. CASE Unlock(x)
    BY <2>2, ZeroInExecutors DEF Unlock
  <2>3. CASE ~TryScheduling(x) /\ ~Unlock(x)
    <3>1. mx = e
      <4>1. CASE Quiet(x)
        BY <4>1, QuietSteps DEF QuietMove
      <4>2. CASE Inner(x)
        BY <4>2, InnerSteps DEF InnerMove
      <4>3. CASE Pop(x) \/ StealTask(x) \/ EndTask(x)
        BY <4>3 DEF Pop, StealTask, EndTask
      <4>4. QED BY <1>4, <2>3, <4>1, <4>2, <4>3 DEF Other
    <3>2. Known(e)
      BY <3>1 DEF QuietOK
    <3>3. CASE x = e
      <4>1. CASE Quiet(x)
        <5>1. StealBlocked(e) \/ StealNothing(e)
          BY <3>1, <3>3, <4>1 DEF Quiet, AddTasks, Shutdown, Join, Destroyed, SyncEpoch, SyncDecide,
             SyncWait, Enter, LeaveCycle, BeginStealing, ContinueStealing, Halt, Announce, Parked,
             Stop, Bye, At, LockOK, SchedLabels
        <5>2. QED BY <3>1, <3>2, <5>1, StealingKeeps
      <4>2. CASE Inner(x)
        BY <3>1, <3>2, <3>3, <4>2, SchedulerKeeps
      <4>3. CASE Pop(x)
        BY <3>1, <3>3, <4>3 DEF Pop, At, LockOK, SchedLabels
      <4>4. CASE StealTask(x) \/ EndTask(x)
        BY <3>1, <3>2, <3>3, <4>4, StealingKeeps
      <4>5. QED BY <1>4, <2>3, <4>1, <4>2, <4>3, <4>4 DEF Other
    <3>4. CASE x # e /\ pc[e] # "unlock"
      BY <1>4, <3>1, <3>2, <3>4, AsideSteps, AsideKeeps
    <3>5. CASE x # e /\ pc[e] = "unlock"
      <4>1. pc'[e] = "unlock"
        <5>1. PICK l : pc' = [pc EXCEPT ![x] = l]
          <6>1. CASE Quiet(x)
            BY <6>1, QuietSteps DEF QuietMove
          <6>2. CASE Inner(x)
            BY <6>2, InnerSteps DEF InnerMove
          <6>3. CASE Other(x)
            BY <6>3, OtherSteps DEF OtherMove
          <6>4. QED BY <1>4, <6>1, <6>2, <6>3
        <5>2. QED BY <3>5, <5>1 DEF TypeOK
      <4>2. QED BY <4>1 DEF Known, Looked, Ends
    <3>6. QED BY <3>3, <3>4, <3>5
  <2>4. QED BY <2>1, <2>2, <2>3
<1>5. QED BY <1>1, <1>2, <1>3, <1>4, Steps

LEMMA QuietInvariant == Spec => []QuietOK
<1>1. Init => QuietOK
  BY ZeroInExecutors DEF Init, QuietOK
<1>2. IInv /\ HandOK /\ HaltedOK /\ StopOK /\ ThreadStopOK /\ QuietOK /\ [Next]_vars => QuietOK'
  BY QuietStep DEF IInv
<1>3. QED BY <1>1, <1>2, InductiveInvariant, PlacesInvariant, StopInvariant, PTL DEF Spec

\* EndsQuiet: when a scheduler without tasks of its own ends the epoch and no task has
\* thrown, the other executors are idle, the global queue is empty, and a task left in
\* a queue is alone there, its owner halted (tasking.cpp:93-119, 466-467).
THEOREM EpochEndsQuiet == Spec => []EndsQuiet
<1>1. IInv /\ QuietOK => EndsQuiet
  <2> SUFFICES ASSUME IInv, QuietOK, NEW e \in Executors,
                      ended, pc[e] \in {"tick", "flip"}, failed = {},
                      queue[e] = <<>>, state[e] = "busy"
               PROVE  /\ global = <<>>
                      /\ \A o \in Executors \ {e} :
                           /\ hand[o] = NoTask
                           /\ queue[o] # <<>> => Len(queue[o]) = 1 /\ state[o] = "halted"
    BY DEF EndsQuiet
  <2>1. mx = e /\ Alone(e) /\ Ends(e) /\ Looked(e) /\ pc[e] # "collect"
    BY DEF IInv, Control, LockOK, SchedLabels, Alone, Ends, Looked
  <2>2. schedTargets = <<>> /\ busy = {} /\ global = <<>>
        /\ \A o \in Executors \ {e} : (o \in Elements(schedTargets) \/ Drained(o)) /\ Idle(o)
    BY <2>1 DEF QuietOK, Known
  <2>3. Elements(schedTargets) = {}
    BY <2>2 DEF Elements
  <2>4. QED BY <2>2, <2>3 DEF Drained, Idle
<1>2. QED BY <1>1, InductiveInvariant, QuietInvariant, PTL

-----------------------------------------------------------------------------
(* Who waits for whom *)

\* Threads that have not been started; executor 0 never waits as they do.
OffOK ==
    /\ pc[0] \notin {"off", "parked"}
    /\ \A o \in Executors \ {0} : pc[o] = "off" =>
         /\ \A x \in Executors : state[x] = "init" /\ (x # 0 => pc[x] = "off")
         /\ pc[0] \in {"add", "flow", "spawn"} \/ origin[0] = "start"

\* Executor 0 waits for an epoch that goes on.  If it has been woken up meanwhile, the
\* scheduler that did so has yet to end the epoch.
WakingLabels == {"deal", "wake", "more", "repost", "tick"}
SyncOK ==
    /\ pc[0] = "sync_wait" => seen >= 0
    /\ pc[0] \in {"sync_decide", "sync_wait"} => seen < 0 \/ epoch < 0 \/ seen <= epoch
    /\ pc[0] = "sync_wait" /\ state[0] # "halted" /\ epoch = seen
       => \E e \in Executors : mx = e /\ pc[e] \in WakingLabels

\* i has halted and notified the scheduler.
Announced(i) == state[i] = "halted" /\ pc[i] # "announce"

\* No notification is lost: if one of the executors the scheduler waits for has
\* announced itself since its state was read, the counter shows it.
AwaitOK == \A e \in Executors : mx = e =>
    /\ pc[e] \in {"collect", "scan", "await"} =>
         \A i \in busy : i # e /\ state[i] \in {"busy", "halted"}
    /\ pc[e] = "scan" => \A i \in busy : i < idx /\ Announced(i) => counter > old
    /\ pc[e] = "await" => busy # {} /\ (counter = 0 => \A i \in busy : ~Announced(i))

\* A thread that is about to begin has been told to stop only too early; a thread the
\* destructor waits for and has not told too early keeps the request until it stops.
JoinOK ==
    /\ \A o \in Executors \ {0} : pc[o] = "enter" => state[o] = "init" \/ o \in early
    /\ pc[0] = "join" /\ joining \notin early => state[joining] \in {"pending_shutdown", "shutdown"}

\* The first execute_flow is the one that starts the threads.
LEMMA OffStep ==
  ASSUME TypeOK, Control, OffOK, [Next]_vars
  PROVE  OffOK'
<1> USE DEF Control
<1> USE ZeroInExecutors
<1>1. CASE UNCHANGED vars
  BY <1>1 DEF OffOK, vars, execVars, threadVars
<1>2. CASE ExecuteFlow
  <2>1. pc[0] = "flow" /\ UNCHANGED state
    BY <1>2 DEF ExecuteFlow, At, execVars
  <2>2. /\ pc'[0] \in {"try", "spawn", "enter"} /\ \A o \in Executors \ {0} : pc'[o] = pc[o]
        /\ (\A e \in Executors : state[e] = "init") => pc'[0] = "spawn" \/ origin'[0] = "start"
    BY <1>2 DEF ExecuteFlow, Goto, TypeOK
  <2>3. QED BY <2>1, <2>2 DEF OffOK
<1>3. CASE SpawnThreads
  BY <1>3 DEF SpawnThreads, OffOK
<1>4. ASSUME NEW e \in Executors, Quiet(e) \/ Inner(e) \/ Other(e) PROVE OffOK'
  <2>1. PICK l : pc' = [pc EXCEPT ![e] = l] /\ l # "off" /\ pc[e] # "off" /\ (e = 0 => l # "parked")
    <3>1. CASE Quiet(e)
      <4>1. PICK l : QuietMove(e, l)
        BY <3>1, QuietSteps
      <4>2. CASE e = 0 /\ l = "parked"
        <5>1. pc'[0] = "parked"
          BY <4>1, <4>2 DEF QuietMove, TypeOK
        <5>2. QED
          BY <3>1, <4>2, <5>1 DEF Quiet, AddTasks, Shutdown, Join, Destroyed, SyncEpoch, SyncDecide,
             SyncWait, Enter, LeaveCycle, BeginStealing, ContinueStealing, OwnQueuePred,
             StealBlocked, StealNothing, Halt, Announce, Parked, Stop, Bye, Goto, TypeOK
      <4>3. QED BY <4>1, <4>2 DEF QuietMove
    <3>2. CASE Inner(e)
      BY <3>2, InnerSteps DEF InnerMove, SchedLabels
    <3>3. CASE Other(e)
      BY <3>3, OtherSteps DEF OtherMove
    <3>4. QED BY <1>4, <3>1, <3>2, <3>3
  <2>2. pc'[0] \notin {"off", "parked"}
    BY <2>1 DEF OffOK, TypeOK
  <2>3. ASSUME NEW o \in Executors \ {0}, pc'[o] = "off"
        PROVE  /\ \A x \in Executors : state'[x] = "init" /\ (x # 0 => pc'[x] = "off")
               /\ pc'[0] \in {"add", "flow", "spawn"} \/ origin'[0] = "start"
    <3>1. /\ \A x \in Executors : state[x] = "init" /\ (x # 0 => pc[x] = "off")
          /\ pc[0] \in {"add", "flow", "spawn"} \/ origin[0] = "start"
      BY <2>1, <2>3 DEF OffOK, TypeOK
    <3>2. e = 0 /\ \A x \in Executors \ {0} : pc'[x] = "off"
      BY <2>1, <3>1 DEF TypeOK
    <3>3. CASE origin[0] # "start"
      <4>1. pc[0] \in {"add", "flow", "spawn"}
        BY <3>1, <3>3
      <4>2. AddTasks
        <5>1. CASE Quiet(e)
          BY <3>2, <4>1, <5>1 DEF Quiet, Shutdown, Join, Destroyed, SyncEpoch, SyncDecide, SyncWait,
             Enter, LeaveCycle, BeginStealing, ContinueStealing, StealBlocked, StealNothing, Halt,
             Announce, Parked, Stop, Bye, At
        <5>2. CASE Inner(e)
          BY <3>2, <4>1, <5>2, InnerSteps DEF InnerMove, SchedLabels
        <5>3. CASE Other(e)
          BY <3>2, <4>1, <5>3, OtherSteps DEF OtherMove
        <5>4. QED BY <1>4, <5>1, <5>2, <5>3
      <4>3. QED BY <3>1, <3>2, <4>2 DEF AddTasks, Goto, TypeOK, execVars
    <3>4. CASE origin[0] = "start"
      <4>1. pc[0] \in TaskLabels /\ (pc[0] \in {"steal", "run"} => mx = 0)
        BY <3>4 DEF OriginOK
      <4>2. CASE Quiet(e)
        <5>1. StealBlocked(e) \/ StealNothing(e)
          BY <3>2, <4>1, <4>2 DEF Quiet, AddTasks, Shutdown, Join, Destroyed, SyncEpoch, SyncDecide,
             SyncWait, Enter, LeaveCycle, BeginStealing, ContinueStealing, Halt, Announce, Parked,
             Stop, Bye, At, TaskLabels, SchedLabels
        <5>2. QED BY <3>1, <3>2, <3>4, <5>1 DEF StealBlocked, StealNothing, execVars
      <4>3. CASE Inner(e)
        <5>1. \A x \in Executors : state'[x] = "init"
          BY <3>1, <4>3, InnerEffects DEF InnerEffect
        <5>2. UNCHANGED origin
          BY <4>3, InnerSteps DEF InnerMove
        <5>3. QED BY <3>2, <3>4, <5>1, <5>2
      <4>4. CASE Other(e)
        <5>1. UNCHANGED state
          BY <4>4, OtherSteps DEF OtherMove
        <5>2. pc'[0] = "spawn" \/ origin'[0] = "start"
          <6>1. CASE Pop(e)
            BY <3>2, <4>1, <6>1 DEF Pop, At, TaskLabels, SchedLabels
          <6>2. CASE StealTask(e) \/ EndTask(e)
            BY <3>2, <3>4, <4>1, <6>2 DEF StealTask, EndTask, AfterTask, Scheduling, At
          <6>3. CASE TryScheduling(e) \/ Unlock(e)
            <7>1. Resume(0) = "spawn"
              BY <3>4, ResumeLabel DEF Origins
            <7>2. QED BY <3>2, <3>4, <6>3, <7>1 DEF TryScheduling, Unlock, Return, Goto, TypeOK
          <6>4. QED BY <4>4, <6>1, <6>2, <6>3 DEF Other
        <5>3. QED BY <3>1, <3>2, <5>1, <5>2
      <4>5. QED BY <1>4, <4>2, <4>3, <4>4
    <3>5. QED BY <3>3, <3>4
  <2>4. QED BY <2>2, <2>3 DEF OffOK
<1>5. QED BY <1>1, <1>2, <1>3, <1>4, Steps

\* A scheduler that wakes up executor 0 goes on to end its epoch, without waiting.
LEMMA SyncStep ==
  ASSUME TypeOK, Control, SyncOK, [Next]_vars
  PROVE  SyncOK'
<1> USE DEF Control
<1> USE ZeroInExecutors
<1>1. CASE UNCHANGED vars
  BY <1>1 DEF SyncOK, vars, execVars, clientVars
<1>2. CASE ExecuteFlow \/ SpawnThreads
  <2>1. pc'[0] \in {"try", "spawn", "enter"}
    BY <1>2 DEF ExecuteFlow, SpawnThreads, Goto, TypeOK
  <2>2. QED BY <2>1 DEF SyncOK
<1>3. ASSUME Quiet(0) \/ Inner(0) \/ Other(0) PROVE SyncOK'
  <2>1. CASE SyncEpoch
    <3>1. pc'[0] = "sync_decide" /\ seen' = epoch /\ epoch' = epoch
      BY <2>1 DEF SyncEpoch, Goto, TypeOK
    <3>2. QED BY <3>1 DEF SyncOK, TypeOK
  <2>2. CASE SyncDecide
    <3>1. seen \in Int /\ epoch \in Int
      BY DEF TypeOK
    <3>2. pc'[0] # "sync_decide"
          /\ (pc'[0] = "sync_wait" => /\ seen >= 0 /\ state'[0] = "halted" /\ seen' = seen
                                     /\ epoch' = epoch /\ pc[0] = "sync_decide")
      BY <2>2 DEF SyncDecide, Goto, At, TypeOK
    <3>3. QED BY <3>1, <3>2 DEF SyncOK
  <2>3. CASE ~SyncEpoch /\ ~SyncDecide
    <3>1. pc'[0] \notin {"sync_decide", "sync_wait"}
      <4>1. CASE Quiet(0)
        BY <2>3, <4>1, ZenonT(30) DEF Quiet, AddTasks, Shutdown, Join, Destroyed, SyncWait,
           Enter, LeaveCycle, BeginStealing, ContinueStealing, OwnQueuePred,
           StealBlocked, StealNothing, Halt, Announce, Parked, Stop, Bye, Goto, Scheduling, TypeOK
      <4>2. CASE Inner(0)
        BY <4>2, InnerSteps DEF InnerMove, SchedLabels, TypeOK
      <4>3. CASE Other(0)
        <5>1. PICK l : OtherMove(0, l)
          BY <4>3, OtherSteps
        <5>2. QED BY <5>1 DEF OtherMove, TypeOK
      <4>4. QED BY <1>3, <4>1, <4>2, <4>3
    <3>2. QED BY <3>1 DEF SyncOK
  <2>4. QED BY <2>1, <2>2, <2>3
<1>4. ASSUME NEW x \in Executors \ {0}, Quiet(x) \/ Other(x) PROVE SyncOK'
  <2>1. /\ pc'[0] = pc[0] /\ UNCHANGED <<epoch, seen>>
        /\ \A o \in Executors \ {x} : state'[o] = state[o] /\ pc'[o] = pc[o]
        /\ pc[x] \notin WakingLabels
    <3>1. CASE Quiet(x)
      <4>1. PICK l : QuietMove(x, l)
        BY <3>1, QuietSteps
      <4>2. UNCHANGED seen /\ \A o \in Executors \ {x} : state'[o] = state[o]
        BY <3>1 DEF Quiet, Enter, LeaveCycle, BeginStealing,
           ContinueStealing, OwnQueuePred, StealBlocked, StealNothing, Halt, Announce, Parked,
           Stop, Bye, TypeOK, execVars, clientVars
      <4>3. QED BY <4>1, <4>2 DEF QuietMove, SchedLabels, WakingLabels, TypeOK
    <3>2. CASE Other(x)
      <4>1. PICK l : OtherMove(x, l)
        BY <3>2, OtherSteps
      <4>2. QED BY <4>1 DEF OtherMove, WakingLabels, clientVars, TypeOK
    <3>3. QED BY <1>4, <3>1, <3>2
  <2>2. ASSUME NEW e \in Executors, mx = e, pc[e] \in WakingLabels
        PROVE  mx' = e /\ pc'[e] \in WakingLabels
    <3>1. e # x /\ pc'[e] = pc[e]
      BY <2>1, <2>2
    <3>2. mx' = mx
      <4>1. CASE Quiet(x)
        BY <4>1, QuietSteps DEF QuietMove
      <4>2. CASE Other(x)
        BY <2>2, <3>1, <4>2 DEF Other, Pop, StealTask, EndTask, TryScheduling, Unlock, At, LockOK,
           SchedLabels
      <4>3. QED BY <1>4, <4>1, <4>2
    <3>3. QED BY <2>2, <3>1, <3>2
  <2>3. state'[0] = state[0]
    BY <2>1
  <2>4. QED BY <2>1, <2>2, <2>3 DEF SyncOK
<1>5. ASSUME NEW x \in Executors \ {0}, Inner(x) PROVE SyncOK'
  <2>1. PICK l : InnerMove(x, l)
    BY <1>5, InnerSteps
  <2>2. pc'[0] = pc[0] /\ seen' = seen /\ seen \in Int /\ epoch \in Int /\ mx' = x /\ mx = x
    BY <2>1 DEF InnerMove, LockOK, clientVars, TypeOK
  <2>3. epoch >= 0
    BY <2>1, <2>2 DEF InnerMove, EpochOK
  <2>4. CASE TickEpoch(x)
    <3>1. epoch' = epoch + 1
      BY <2>4 DEF TickEpoch
    <3>2. QED BY <2>2, <2>3, <3>1 DEF SyncOK
  <2>5. CASE FlipEpoch(x)
    <3>1. epoch' = -epoch - 1
      BY <2>5 DEF FlipEpoch
    <3>2. epoch' < 0
      BY <2>2, <2>3, <3>1
    <3>3. pc'[0] = "sync_wait" => seen' # epoch'
      BY <2>2, <3>2 DEF SyncOK
    <3>4. QED BY <2>2, <3>2, <3>3 DEF SyncOK
  <2>6. CASE ~TickEpoch(x) /\ ~FlipEpoch(x)
    <3>1. epoch' = epoch
      BY <1>5, <2>6 DEF Inner, TakeGlobal, SchedulePred, CollectBusy, ScanBusy, AwaitStateChange,
         DecideExhausted, CountEnqueued, DealShare, WakeUp, NextBatch, Repost
    <3>2. pc[x] \in WakingLabels => pc'[x] \in WakingLabels
      BY <1>5, <2>6 DEF Inner, TakeGlobal, SchedulePred, CollectBusy, ScanBusy, AwaitStateChange,
         DecideExhausted, CountEnqueued, DealShare, WakeUp, NextBatch, Repost, Goto, At, WakingLabels, TypeOK
    <3>3. state'[0] # state[0] => pc'[x] \in WakingLabels
      <4>1. CASE WakeUp(x)
        BY <4>1 DEF WakeUp, Goto, WakingLabels, TypeOK
      <4>2. CASE ~WakeUp(x)
        BY <1>5, <2>6, <4>2 DEF Inner, TakeGlobal, SchedulePred, CollectBusy, ScanBusy,
           AwaitStateChange, DecideExhausted, CountEnqueued, DealShare, NextBatch, Repost, execVars
      <4>3. QED BY <4>1, <4>2
    <3>4. QED BY <2>2, <3>1, <3>2, <3>3 DEF SyncOK
  <2>7. QED BY <2>4, <2>5, <2>6
<1>6. QED BY <1>1, <1>2, <1>3, <1>4, <1>5, Steps

\* Who announces itself notifies the scheduler in the same step.
LEMMA AnnouncedNow ==
  ASSUME TypeOK, Control, HaltedOK, NEW e \in Executors, mx = e, NEW x \in Executors \ {e},
         Quiet(x) \/ Other(x)
  PROVE  /\ counter' \in {counter, counter + 1}
         /\ \A i \in Executors : Announced(i)' => Announced(i) \/ counter' = counter + 1
         /\ old' = old
<1> USE DEF Control
<1>1. CASE Other(x)
  <2>1. PICK l : OtherMove(x, l)
    BY <1>1, OtherSteps
  <2>2. old' = old
    BY <1>1 DEF Other, Pop, StealTask, EndTask, TryScheduling, Unlock, At, LockOK, SchedLabels, schedVars
  <2>3. QED BY <2>1, <2>2 DEF OtherMove, Announced, TypeOK
<1>2. CASE Quiet(x)
  <2>1. PICK l : QuietMove(x, l)
    BY <1>2, QuietSteps
  <2>2. CASE Announce(x)
    BY <2>1, <2>2 DEF Announce, QuietMove
  <2>3. CASE Bye(x)
    BY <2>1, <2>3 DEF Bye, QuietMove
  <2>4. CASE ~Announce(x) /\ ~Bye(x)
    <3>1. UNCHANGED counter
      BY <1>2, <2>4 DEF Quiet, AddTasks, Shutdown, Join, Destroyed, SyncEpoch, SyncDecide, SyncWait,
         Enter, LeaveCycle, BeginStealing, ContinueStealing, OwnQueuePred, StealBlocked,
         StealNothing, Halt, Parked, Stop
    <3>2. ASSUME NEW i \in Executors, Announced(i)' PROVE Announced(i)
      <4>1. CASE Halt(x)
        BY <2>1, <3>2, <4>1 DEF Halt, Goto, Announced, At, TypeOK
      <4>2. CASE ~Halt(x)
        <5>1. state[i] = "halted"
          BY <1>2, <2>4, <3>2, <4>2 DEF Quiet, AddTasks, Shutdown, Join, Destroyed, SyncEpoch,
             SyncDecide, SyncWait, Enter, LeaveCycle, BeginStealing, ContinueStealing, OwnQueuePred,
             StealBlocked, StealNothing, Parked, Stop, Announced, TypeOK, execVars
        <5>2. pc[x] # "announce"
          BY <1>2, <2>4, <4>2 DEF Quiet, AddTasks, Shutdown, Join, Destroyed, SyncEpoch, SyncDecide,
             SyncWait, Enter, LeaveCycle, BeginStealing, ContinueStealing, StealBlocked,
             StealNothing, Parked, Stop, At
        <5>3. pc[i] # "announce"
          BY <2>1, <3>2, <5>2 DEF QuietMove, Announced, TypeOK
        <5>4. QED BY <5>1, <5>3 DEF Announced
      <4>3. QED BY <4>1, <4>2
    <3>3. QED BY <2>1, <3>1, <3>2 DEF QuietMove
  <2>5. QED BY <2>2, <2>3, <2>4
<1>3. QED BY <1>1, <1>2

\* The scheduler's own steps: the counter is reset before the first state is read again,
\* and what is subtracted has been seen before the states were.
LEMMA AwaitOwn ==
  ASSUME TypeOK, Control, AwaitOK, NEW e \in Executors, mx = e, Inner(e)
  PROVE  /\ pc'[e] \in {"collect", "scan", "await"} =>
              \A i \in busy' : i # e /\ state'[i] \in {"busy", "halted"}
         /\ pc'[e] = "scan" => \A i \in busy' : i < idx' /\ Announced(i)' => counter' > old'
         /\ pc'[e] = "await" => busy' # {} /\ (counter' = 0 => \A i \in busy' : ~Announced(i)')
<1> USE DEF Control
<1> USE ZeroInExecutors
<1>1. CASE SchedulePred(e)
  <2>1. pc'[e] \notin {"scan", "await"} /\ (pc'[e] = "collect" => busy' = {})
    BY <1>1 DEF SchedulePred, Goto, TypeOK
  <2>2. QED BY <2>1
<1>2. CASE CollectBusy(e)
  <2>1. pc[e] = "collect" /\ UNCHANGED state /\ pc'[e] \in {"collect", "scan"}
    BY <1>2 DEF CollectBusy, Goto, At, TypeOK, execVars
  <2>2. \A i \in busy' : i # e /\ state'[i] \in {"busy", "halted"}
    <3>1. busy' \subseteq busy \cup {i \in Executors : Awaited(e, i)}
      <4>1. CASE idx < N
        <5>1. idx \in Executors
          BY <4>1, NAssumption DEF TypeOK, Executors
        <5>2. QED BY <1>2, <4>1, <5>1 DEF CollectBusy, TypeOK
      <4>2. CASE ~(idx < N)
        BY <1>2, <4>2 DEF CollectBusy
      <4>3. QED BY <4>1, <4>2
    <3>2. QED BY <2>1, <3>1 DEF Awaited, AwaitOK
  <2>3. pc'[e] = "scan" => idx' = 0
    BY <1>2, <2>1 DEF CollectBusy, TypeOK
  <2>4. \A i \in busy' : ~(i < 0)
    <3>1. busy' \subseteq Executors
      <4>1. idx < N => idx \in Executors
        BY NAssumption DEF TypeOK, Executors
      <4>2. QED BY <1>2, <4>1 DEF CollectBusy, TypeOK
    <3>2. QED BY <3>1 DEF Executors
  <2>5. QED BY <2>1, <2>2, <2>3, <2>4
<1>3. CASE ScanBusy(e)
  <2>1. /\ pc[e] = "scan" /\ UNCHANGED state
        /\ pc'[e] \in {"scan", "decide", "await"} /\ (pc'[e] # "scan" => UNCHANGED busy)
        /\ busy' \subseteq busy
    BY <1>3 DEF ScanBusy, Goto, At, TypeOK, execVars
  <2>2. \A i \in busy' : i # e /\ state'[i] \in {"busy", "halted"}
    BY <2>1 DEF AwaitOK
  <2>3. \A i \in Executors : Announced(i)' => Announced(i)
    <3>1. \A i \in Executors : pc'[i] # pc[i] => i = e
      BY <1>3 DEF ScanBusy, Goto, TypeOK
    <3>2. pc[e] # "announce"
      BY <2>1
    <3>3. QED BY <2>1, <3>1, <3>2 DEF Announced
  <2>4. busy \subseteq Executors /\ idx \in Nat
    BY DEF TypeOK
  <2>5. ASSUME pc'[e] = "scan", NEW i \in busy', i < idx', Announced(i)' PROVE counter' > old'
    <3>1. PICK k \in busy : /\ k >= idx /\ \A j \in busy : j >= idx => k <= j
                            /\ busy' = IF state[k] \in {"init", "busy"} THEN busy ELSE busy \ {k}
                            /\ idx' = k + 1 /\ UNCHANGED <<counter, old>>
      BY <1>3, <2>1, <2>5 DEF ScanBusy, Goto, TypeOK
    <3>2. i \in busy /\ i \in Nat /\ k \in Nat /\ Announced(i)
      BY <2>1, <2>3, <2>4, <2>5, <3>1 DEF Executors
    <3>3. CASE i < idx
      BY <2>1, <3>1, <3>2, <3>3 DEF AwaitOK
    <3>4. CASE ~(i < idx)
      <4>1. i = k
        BY <2>4, <2>5, <3>1, <3>2, <3>4
      <4>2. state[k] = "halted"
        BY <3>2, <4>1 DEF Announced
      <4>3. i \notin busy'
        BY <3>1, <4>1, <4>2
      <4>4. QED BY <2>5, <4>3
    <3>5. QED BY <3>3, <3>4
  <2>6. ASSUME pc'[e] = "await"
        PROVE  busy' # {} /\ (counter' = 0 => \A i \in busy' : ~Announced(i)')
    <3>1. /\ {i \in busy : i >= idx} = {} /\ busy # {} /\ busy' = busy
          /\ counter' = counter - old
      BY <1>3, <2>1, <2>6 DEF ScanBusy, Goto, TypeOK
    <3>2. ASSUME NEW i \in busy, Announced(i) PROVE counter' # 0
      <4>1. i < idx
        BY <2>4, <3>1, <3>2 DEF Executors
      <4>2. counter > old /\ counter \in Nat /\ old \in Nat
        BY <2>1, <3>2, <4>1 DEF AwaitOK, TypeOK
      <4>3. QED BY <3>1, <4>2
    <3>3. QED BY <2>3, <2>4, <3>1, <3>2
  <2>7. QED BY <2>1, <2>2, <2>5, <2>6
<1>4. CASE AwaitStateChange(e)
  <2>1. /\ pc[e] = "await" /\ pc'[e] \in {"scan", "decide"} /\ idx' = 0
        /\ UNCHANGED <<state, busy>>
    BY <1>4 DEF AwaitStateChange, Goto, At, TypeOK, execVars
  <2>2. \A i \in busy : ~(i < 0)
    BY DEF TypeOK, Executors
  <2>3. QED BY <2>1, <2>2 DEF AwaitOK
<1>5. CASE ~SchedulePred(e) /\ ~CollectBusy(e) /\ ~ScanBusy(e) /\ ~AwaitStateChange(e)
  <2>1. pc'[e] \notin {"collect", "scan", "await"}
    BY <1>5 DEF Inner, TakeGlobal, DecideExhausted, CountEnqueued, DealShare, WakeUp, NextBatch,
       Repost, TickEpoch, FlipEpoch, Goto, At, TypeOK
  <2>2. QED BY <2>1
<1>6. QED BY <1>1, <1>2, <1>3, <1>4, <1>5

LEMMA AwaitStep ==
  ASSUME TypeOK, Control, HaltedOK, StopOK, ThreadStopOK, AwaitOK, [Next]_vars
  PROVE  AwaitOK'
<1> USE DEF Control
<1> SUFFICES ASSUME NEW e \in Executors, mx' = e, pc'[e] \in {"collect", "scan", "await"}
             PROVE  /\ \A i \in busy' : i # e /\ state'[i] \in {"busy", "halted"}
                    /\ pc'[e] = "scan" =>
                         \A i \in busy' : i < idx' /\ Announced(i)' => counter' > old'
                    /\ pc'[e] = "await" =>
                         busy' # {} /\ (counter' = 0 => \A i \in busy' : ~Announced(i)')
  BY DEF AwaitOK
<1>1. CASE UNCHANGED vars
  BY <1>1 DEF AwaitOK, Announced, vars, execVars, schedVars
<1>2. CASE ExecuteFlow
  <2>1. PICK l \in {"try", "spawn", "enter"} : pc' = [pc EXCEPT ![0] = l]
    BY <1>2 DEF ExecuteFlow, Goto
  <2>2. mx = e /\ pc[0] = "flow" /\ pc[e] = pc'[e]
    BY <1>2, <2>1 DEF ExecuteFlow, At, TypeOK
  <2>3. pc[e] # "unlock"
    BY <2>2
  <2>4. QED BY <2>2, <2>3, NobodyStops
<1>3. CASE SpawnThreads
  BY <1>3 DEF SpawnThreads
<1>4. ASSUME NEW x \in Executors, Quiet(x) \/ Inner(x) \/ Other(x), x = e, ~Inner(x) PROVE FALSE
  <2>1. CASE Quiet(e)
    <3>1. PICK l : QuietMove(e, l)
      BY <2>1, QuietSteps
    <3>2. QED BY <3>1 DEF QuietMove, SchedLabels, TypeOK
  <2>2. CASE Other(e)
    <3>1. PICK l : OtherMove(e, l)
      BY <2>2, OtherSteps
    <3>2. QED BY <3>1 DEF OtherMove, TypeOK
  <2>3. QED BY <1>4, <2>1, <2>2
<1>5. ASSUME NEW x \in Executors, Quiet(x) \/ Inner(x) \/ Other(x), x = e, Inner(x)
      PROVE  /\ \A i \in busy' : i # e /\ state'[i] \in {"busy", "halted"}
             /\ pc'[e] = "scan" =>
                  \A i \in busy' : i < idx' /\ Announced(i)' => counter' > old'
             /\ pc'[e] = "await" =>
                  busy' # {} /\ (counter' = 0 => \A i \in busy' : ~Announced(i)')
  <2>1. mx = e
    BY <1>5, InnerSteps DEF InnerMove
  <2>2. QED BY <1>5, <2>1, AwaitOwn
<1>6. ASSUME NEW x \in Executors, Quiet(x) \/ Inner(x) \/ Other(x), x # e
      PROVE  /\ \A i \in busy' : i # e /\ state'[i] \in {"busy", "halted"}
             /\ pc'[e] = "scan" =>
                  \A i \in busy' : i < idx' /\ Announced(i)' => counter' > old'
             /\ pc'[e] = "await" =>
                  busy' # {} /\ (counter' = 0 => \A i \in busy' : ~Announced(i)')
  <2>1. PICK l : pc' = [pc EXCEPT ![x] = l]
    <3>1. CASE Quiet(x)
      BY <3>1, QuietSteps DEF QuietMove
    <3>2. CASE Inner(x)
      BY <3>2, InnerSteps DEF InnerMove
    <3>3. CASE Other(x)
      BY <3>3, OtherSteps DEF OtherMove
    <3>4. QED BY <1>6, <3>1, <3>2, <3>3
  <2>2. pc'[e] = pc[e]
    BY <1>6, <2>1 DEF TypeOK
  <2>3. mx = e /\ pc[e] # "unlock"
    BY <2>2 DEF LockOK, SchedLabels
  <2>4. Aside(x, e)
    BY <1>6, <2>3, AsideSteps
  <2>5. ~Inner(x)
    BY <1>6, <2>3, InnerSteps DEF InnerMove, LockOK
  <2>6. /\ counter' \in {counter, counter + 1}
        /\ \A i \in Executors : Announced(i)' => Announced(i) \/ counter' = counter + 1
        /\ old' = old
    BY <1>6, <2>3, <2>5, AnnouncedNow
  <2>7. busy' = busy /\ idx' = idx /\ busy \subseteq Executors
    BY <2>4 DEF Aside, TypeOK
  <2>8. \A i \in busy : i # e /\ state'[i] \in {"busy", "halted"}
    BY <2>2, <2>3, <2>4, <2>7 DEF Aside, AwaitOK
  <2>9. counter \in Nat /\ old \in Nat /\ (old <= counter \/ pc[e] = "collect")
    BY <2>2 DEF LocalsOK, TypeOK
  <2>10. ASSUME pc[e] = "scan", NEW i \in busy, i < idx, Announced(i)' PROVE counter' > old'
    <3>1. Announced(i) => counter > old
      BY <2>3, <2>10 DEF AwaitOK
    <3>2. counter \in Nat /\ old \in Nat /\ old <= counter
      BY <2>9, <2>10 DEF TypeOK
    <3>3. QED BY <2>6, <2>7, <2>10, <3>1, <3>2
  <2>11. ASSUME pc[e] = "await", counter' = 0, NEW i \in busy PROVE busy # {} /\ ~Announced(i)'
    <3>1. counter \in Nat
      BY DEF TypeOK
    <3>2. counter = 0 /\ counter' = counter
      BY <2>6, <2>11, <3>1
    <3>3. ~Announced(i)
      BY <2>3, <2>11, <3>2 DEF AwaitOK
    <3>4. QED BY <2>6, <2>7, <2>11, <3>1, <3>2, <3>3
  <2>12. pc[e] = "await" => busy # {}
    BY <2>3 DEF AwaitOK
  <2>13. QED BY <2>2, <2>7, <2>8, <2>10, <2>11, <2>12
<1>7. QED BY <1>1, <1>2, <1>3, <1>4, <1>5, <1>6, Steps

\* A request to stop is overwritten only by the thread that begins after it.
LEMMA JoinStep ==
  ASSUME TypeOK, Control, OffOK, JoinOK, [Next]_vars
  PROVE  JoinOK'
<1> USE DEF Control
<1> USE ZeroInExecutors
<1> DEFINE Stopped(s) == s \in {"pending_shutdown", "shutdown"}
           Kept(o) == state'[o] = state[o] \/ state[o] \in {"busy", "halted"} \/ Stopped(state'[o])
           Others == \A o \in Executors \ {0} :
                       /\ Kept(o) \/ pc[o] = "enter"
                       /\ pc'[o] = "enter" => pc[o] = "enter" /\ state'[o] = state[o]
           Client0 == UNCHANGED early /\ (pc'[0] = "join" => pc[0] = "join" /\ joining' = joining)
<1>1. joining \in Executors \ {0} \/ pc[0] # "join"
  BY NAssumption DEF ClientOK, TypeOK, Executors
<1>2. ASSUME Others, Client0 PROVE JoinOK'
  <2>1. \A o \in Executors \ {0} : pc'[o] = "enter" => state'[o] = "init" \/ o \in early'
    BY <1>2 DEF JoinOK
  <2>2. ASSUME pc'[0] = "join", joining' \notin early' PROVE Stopped(state'[joining'])
    <3>1. pc[0] = "join" /\ joining' = joining /\ joining \notin early /\ joining \in Executors \ {0}
      BY <1>1, <1>2, <2>2
    <3>2. Stopped(state[joining]) /\ pc[joining] # "enter"
      BY <3>1 DEF JoinOK
    <3>3. QED BY <1>2, <3>1, <3>2
  <2>3. QED BY <2>1, <2>2 DEF JoinOK
<1>3. CASE UNCHANGED vars
  BY <1>2, <1>3 DEF vars, execVars, clientVars, history
<1>4. CASE ExecuteFlow
  BY <1>2, <1>4 DEF ExecuteFlow, Goto, TypeOK, execVars, clientVars, history
<1>5. CASE SpawnThreads
  <2>1. \A o \in Executors \ {0} : state[o] = "init"
    BY <1>5 DEF SpawnThreads, At, ThreadsOK, OffOK
  <2>2. \A o \in Executors : pc'[o] = "enter" /\ state'[o] = state[o]
    BY <1>5 DEF SpawnThreads, execVars
  <2>3. QED BY <2>1, <2>2 DEF JoinOK
<1>6. CASE Shutdown
  <2>1. joining \in Executors \ {0}
    BY <1>6, NAssumption DEF Shutdown, TypeOK, Executors
  <2>2. /\ early' = IF state[joining] = "init" THEN early \cup {joining} ELSE early
        /\ \A o \in Executors \ {joining} : state'[o] = state[o]
        /\ Stopped(state'[joining]) /\ joining' = joining
        /\ \A o \in Executors \ {0} : pc'[o] = pc[o]
    BY <1>6, <2>1 DEF Shutdown, Goto, TypeOK, clientVars
  <2>3. QED BY <2>1, <2>2 DEF JoinOK
<1>7. ASSUME NEW e \in Executors, Quiet(e), ~Shutdown PROVE JoinOK'
  <2>1. PICK l : QuietMove(e, l)
    BY <1>7, QuietSteps
  <2>2. UNCHANGED early
    BY <1>7 DEF Quiet, AddTasks, Join, Destroyed, SyncEpoch, SyncDecide, SyncWait, Enter,
       LeaveCycle, BeginStealing, ContinueStealing, OwnQueuePred, StealBlocked, StealNothing,
       Halt, Announce, Parked, Stop, Bye, history
  <2>3. pc'[0] = "join" => pc[0] = "join" /\ joining' = joining
    <3>1. CASE e # 0
      <4>1. pc'[0] = pc[0]
        BY <2>1, <3>1 DEF QuietMove, TypeOK
      <4>2. UNCHANGED joining
        BY <1>7, <3>1 DEF Quiet, Enter, LeaveCycle, BeginStealing, ContinueStealing, OwnQueuePred,
           StealBlocked, StealNothing, Halt, Announce, Parked, Stop, Bye, clientVars
      <4>3. QED BY <4>1, <4>2
    <3>2. CASE e = 0
      <4>1. pc'[0] # "join"
        BY <1>7, <3>2 DEF Quiet, AddTasks, Join, Destroyed, SyncEpoch, SyncDecide, SyncWait, Enter,
           LeaveCycle, BeginStealing, ContinueStealing, OwnQueuePred, StealBlocked, StealNothing,
           Halt, Announce, Parked, Stop, Bye, Goto, TypeOK
      <4>2. QED BY <4>1
    <3>3. QED BY <3>1, <3>2
  <2>4. \A o \in Executors \ {0, e} : pc'[o] = pc[o] /\ state'[o] = state[o]
    BY <1>7, <2>1 DEF QuietMove, Quiet, AddTasks, Join, Destroyed, SyncEpoch, SyncDecide,
       SyncWait, Enter, LeaveCycle, BeginStealing, ContinueStealing, OwnQueuePred,
       StealBlocked, StealNothing, Halt, Announce, Parked, Stop, Bye, TypeOK, execVars
  <2>5. ASSUME e # 0 PROVE (Kept(e) \/ pc[e] = "enter") /\ pc'[e] # "enter"
    <3>1. CASE Enter(e)
      BY <3>1 DEF Enter, At, Goto, TypeOK
    <3>2. CASE Halt(e) \/ Stop(e)
      BY <3>2 DEF Halt, Stop, Goto, TypeOK
    <3>3. CASE LeaveCycle(e) \/ Announce(e) \/ Parked(e) \/ Bye(e)
      BY <2>5, <3>3 DEF LeaveCycle, Announce, Parked, Bye, Goto, TypeOK, execVars
    <3>4. CASE BeginStealing(e) \/ ContinueStealing(e) \/ StealBlocked(e) \/ StealNothing(e)
      BY <3>4 DEF BeginStealing, ContinueStealing, OwnQueuePred, StealBlocked, StealNothing, Goto,
         TypeOK, execVars
    <3>5. QED BY <1>7, <2>5, <3>1, <3>2, <3>3, <3>4 DEF Quiet
  <2>6. Others
    BY <2>4, <2>5
  <2>7. QED BY <1>2, <2>2, <2>3, <2>6
<1>8. ASSUME NEW e \in Executors, Inner(e) PROVE JoinOK'
  <2>1. PICK l : InnerMove(e, l)
    BY <1>8, InnerSteps
  <2>2. /\ UNCHANGED <<joining, early>> /\ pc[e] # "enter" /\ l \notin {"enter", "join"}
        /\ \A o \in Executors : pc'[o] = "enter" => pc[o] = "enter" /\ o # e
        /\ pc'[0] = "join" => pc[0] = "join"
    BY <2>1 DEF InnerMove, SchedLabels, TypeOK, clientVars, history
  <2>3. \A o \in Executors : state'[o] = state[o] \/ state[o] = "halted"
    BY <1>8, InnerEffects DEF InnerEffect
  <2>4. ASSUME NEW o \in Executors \ {0}, pc'[o] = "enter" PROVE state'[o] = "init" \/ o \in early'
    BY <2>2, <2>3, <2>4 DEF JoinOK
  <2>5. pc'[0] = "join" /\ joining' \notin early' => Stopped(state'[joining'])
    BY <1>1, <2>2, <2>3 DEF JoinOK
  <2>6. QED BY <2>4, <2>5 DEF JoinOK
<1>9. ASSUME NEW e \in Executors, Other(e) PROVE JoinOK'
  <2>1. PICK l : OtherMove(e, l)
    BY <1>9, OtherSteps
  <2>2. UNCHANGED <<state, joining, early>>
    BY <1>9, <2>1 DEF Other, Pop, StealTask, EndTask, TryScheduling, Unlock, OtherMove, clientVars, history
  <2>3. Others
    <3>1. ASSUME e # 0 PROVE pc'[e] # "enter"
      <4>1. origin[e] \in {"own", "steal"}
        BY <3>1 DEF ThreadsOK, TypeOK, Origins
      <4>2. Resume(e) # "enter"
        BY <4>1, ResumeLabel DEF Origins
      <4>3. CASE TryScheduling(e) \/ Unlock(e)
        BY <4>2, <4>3 DEF TryScheduling, Unlock, Return, Goto, TypeOK
      <4>4. CASE EndTask(e)
        BY <4>2, <4>4 DEF EndTask, AfterTask, Return, Goto, TypeOK
      <4>5. CASE Pop(e) \/ StealTask(e)
        BY <4>5 DEF Pop, StealTask, Execute, Goto, TypeOK
      <4>6. QED BY <1>9, <4>3, <4>4, <4>5 DEF Other
    <3>2. QED BY <2>1, <2>2, <3>1 DEF OtherMove, TypeOK
  <2>4. pc'[0] = "join" => pc[0] = "join"
    BY <2>1 DEF OtherMove, TypeOK
  <2>5. QED BY <1>2, <2>2, <2>3, <2>4
<1>10. QED BY <1>3, <1>4, <1>5, <1>6, <1>7, <1>8, <1>9, Steps

LEMMA WaitInvariant == Spec => [](OffOK /\ SyncOK /\ AwaitOK /\ JoinOK)
<1>1. Init => OffOK /\ SyncOK /\ AwaitOK /\ JoinOK
  BY ZeroInExecutors DEF Init, OffOK, SyncOK, AwaitOK, JoinOK
<1>2. /\ IInv /\ HaltedOK /\ StopOK /\ ThreadStopOK
      /\ OffOK /\ SyncOK /\ AwaitOK /\ JoinOK /\ [Next]_vars
      => (OffOK /\ SyncOK /\ AwaitOK /\ JoinOK)'
  BY OffStep, SyncStep, AwaitStep, JoinStep DEF IInv
<1>3. QED BY <1>1, <1>2, InductiveInvariant, StopInvariant, PTL DEF Spec

\* The destructor waits (tasking.cpp:30) for a thread that stops, or has been told too early.
LEMMA JoinWaits ==
  ASSUME TypeOK, Control, StopOK, ThreadStopOK, OffOK, JoinOK, AllBlocked, pc[0] = "join"
  PROVE  joining \in early
<1> USE DEF Control
<1> USE ZeroInExecutors
<1> SUFFICES ASSUME joining \notin early PROVE FALSE
  OBVIOUS
<1>1. joining \in Executors \ {0} /\ state[joining] \in {"pending_shutdown", "shutdown"}
  BY NAssumption DEF ClientOK, TypeOK, JoinOK, Executors
<1>2. pc[joining] # "off"
  BY <1>1 DEF OffOK, OriginOK, TaskLabels, SchedLabels
<1>3. pc[joining] # "end"
  BY DEF AllBlocked, At
<1>4. pc[joining] \notin {"sync_wait", "join"}
  BY <1>1 DEF ThreadsOK, ClientLabels
<1>5. pc[joining] # "await"
  <2>1. ASSUME pc[joining] = "await" PROVE FALSE
    <3>1. mx = joining
      BY <1>1, <2>1 DEF LockOK, SchedLabels
    <3>2. QED BY <1>1, <2>1, <3>1, NobodyStops
  <2>2. QED BY <2>1
<1>6. QED BY <1>1, <1>2, <1>3, <1>4, <1>5 DEF AllBlocked, At

\* StuckOnlyIfStranded: if every thread waits, the client has returned, or waits for a
\* thread that was told to stop before it had begun, or nobody is left who will run
\* schedule().  In particular the wait for state changes (tasking.cpp:93-112), the wait of
\* halted executors, that of on_halt_handler and join never wait for each other otherwise.
THEOREM NoDeadlock == Spec => []StuckOnlyIfStranded
<1>1. /\ IInv /\ StopOK /\ ThreadStopOK /\ OffOK /\ SyncOK /\ AwaitOK /\ JoinOK
      => StuckOnlyIfStranded
  <2> SUFFICES ASSUME IInv, StopOK, ThreadStopOK, OffOK, SyncOK, AwaitOK, JoinOK, AllBlocked,
                      pc[0] \notin {"end", "join"}
               PROVE  Stranded
    BY JoinWaits DEF StuckOnlyIfStranded, IInv, At
  <2> USE DEF IInv, Control
  <2> USE ZeroInExecutors
  <2>1. (pc[0] = "sync_wait" /\ epoch = seen) \/ pc[0] = "await"
    BY DEF AllBlocked, OffOK, At
  <2>2. \A o \in Executors \ {0} : pc[o] \notin {"off", "end"}
    <3>1. ASSUME NEW o \in Executors \ {0}, pc[o] = "off" PROVE FALSE
      <4>1. origin[0] = "start" /\ state[0] = "init" /\ pc[0] = "await"
        BY <2>1, <3>1 DEF OffOK, OriginOK, TaskLabels, SchedLabels
      <4>2. mx = 0 /\ busy # {} /\ \A i \in busy : state[i] \in {"busy", "halted"}
        BY <4>1 DEF LockOK, SchedLabels, AwaitOK
      <4>3. \A i \in busy : state[i] = "init"
        BY <3>1 DEF OffOK, TypeOK
      <4>4. QED BY <4>2, <4>3
    <3>2. ASSUME NEW o \in Executors \ {0}, pc[o] = "end" PROVE FALSE
      BY <2>1, <3>2 DEF ThreadStopOK
    <3>3. QED BY <3>1, <3>2
  <2>3. \A e \in Executors : pc[e] # "await"
    <3>1. ASSUME NEW e \in Executors, pc[e] = "await" PROVE FALSE
      <4>1. mx = e /\ counter = 0
        BY <3>1 DEF AllBlocked, LockOK, SchedLabels, At
      <4>2. PICK i \in busy : i \in Executors /\ i # e /\ state[i] \in {"busy", "halted"} /\ ~Announced(i)
        BY <3>1, <4>1 DEF AwaitOK, TypeOK
      <4>3. pc[i] # "await"
        BY <4>1, <4>2 DEF LockOK, SchedLabels
      <4>4. pc[i] \notin {"off", "end", "join"}
        BY <2>1, <2>2, <4>2 DEF ThreadsOK, ClientLabels
      <4>5. pc[i] = "sync_wait" /\ i = 0 /\ epoch = seen
        <5>1. ~(pc[i] = "parked" /\ state[i] = "halted")
          BY <4>2 DEF Announced
        <5>2. pc[i] = "sync_wait" /\ epoch = seen
          BY <4>2, <4>3, <4>4, <5>1 DEF AllBlocked, At
        <5>3. QED BY <4>2, <5>2 DEF ThreadsOK, ClientLabels
      <4>6. state[0] # "halted"
        BY <4>2, <4>5 DEF Announced
      <4>7. pc[e] \in WakingLabels
        BY <4>1, <4>5, <4>6 DEF SyncOK
      <4>8. QED BY <3>1, <4>7 DEF WakingLabels
    <3>2. QED BY <3>1
  <2>4. \A e \in Executors : pc[e] \in {"parked", "sync_wait"} /\ (pc[e] = "parked" => state[e] = "halted")
                             /\ (pc[e] = "sync_wait" => e = 0 /\ epoch = seen)
    BY <2>1, <2>2, <2>3 DEF AllBlocked, At, ThreadsOK, ClientLabels
  <2>5. mx = -1
    BY <2>4 DEF LockOK, SchedLabels, TypeOK
  <2>6. state[0] = "halted"
    <3>1. pc[0] = "sync_wait" /\ epoch = seen
      BY <2>1, <2>3
    <3>2. ~\E e \in Executors : mx = e
      BY <2>5
    <3>3. QED BY <3>1, <3>2 DEF SyncOK
  <2>7. \A e \in Executors : state[e] = "halted"
    BY <2>4, <2>6
  <2>8. QED BY <2>4, <2>5, <2>7 DEF Stranded, At
<1>2. QED BY <1>1, InductiveInvariant, StopInvariant, WaitInvariant, PTL

=============================================================================
