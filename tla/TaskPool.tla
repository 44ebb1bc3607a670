------------------------------ MODULE TaskPool ------------------------------
(***************************************************************************)
(* The work-stealing task_pool of src/src/io/tasking.{hpp,cpp}.            *)
(*                                                                         *)
(* N executors own one execution queue each.  Executor 0 runs inside the   *)
(* client's call of execute_flow, executors 1..N-1 on threads of their     *)
(* own.  Tasks enter through the global schedule queue; a *scheduling      *)
(* task*, itself an item of some execution queue, deals the global queue   *)
(* out to the executors and reposts itself.  An executor whose queue is    *)
(* empty steals from the others, and halts when nothing can be stolen.     *)
(*                                                                         *)
(* One step is what no other thread can observe in the middle: a critical  *)
(* section, one atomic read-modify-write, or local work.  A lock held by   *)
(* another thread is seen only by try_lock: Contended below.               *)
(***************************************************************************)
EXTENDS Integers, Sequences, FiniteSets

CONSTANTS
    N,              \* number of executors, executors.size()
    Tasks,          \* the client's tasks and all tasks they give rise to
    SchedulingTask, \* the item enqueue_scheduling_task creates
    NoTask,         \* the empty managed_task_item
    Children,       \* Children[t]: the tasks t's execute() passes to put_task
    Throws,         \* the tasks whose payload may throw
    Flows           \* Flows[k]: the tasks added before the k-th execute_flow

Executors == 0 .. N - 1
Items     == Tasks \cup {SchedulingTask}

\* get_target_executors_count never returns less than 3.
ASSUME NAssumption     == N \in Nat /\ N >= 3
ASSUME ItemAssumption  == SchedulingTask \notin Tasks /\ NoTask \notin Items
ASSUME GraphAssumption == /\ Children \in [Tasks -> Seq(Tasks)]
                          /\ Throws \subseteq Tasks
                          /\ Flows \in Seq(Seq(Tasks))
                          /\ Len(Flows) > 0

\* Every add_tasks and put_task creates a managed_task_item of its own: a task is an
\* entry of one flow or one successor of one task.
ASSUME ForestAssumption ==
    /\ \A k, l \in DOMAIN Flows : \A i \in DOMAIN Flows[k], j \in DOMAIN Flows[l] :
            Flows[k][i] = Flows[l][j] => k = l /\ i = j
    /\ \A p, q \in Tasks : \A i \in DOMAIN Children[p], j \in DOMAIN Children[q] :
            Children[p][i] = Children[q][j] => p = q /\ i = j
    /\ \A k \in DOMAIN Flows, p \in Tasks :
            \A i \in DOMAIN Flows[k], j \in DOMAIN Children[p] : Flows[k][i] # Children[p][j]

VARIABLES
    \* per executor, shared
    state,      \* current_state
    queue,      \* local_execution_queue, guarded by execution_queue_mx
    weak,       \* weak_execution_queue_size
    \* per executor, private
    pc, hand,   \* where its thread is, the task it executes
    origin,     \* how the outermost task in hand was acquired
    targets,    \* steal_cycle's sequence, rotated so that *it is its head
    stealing,   \* should_try_stealing
    \* the pool
    global,     \* global_schedule_queue, guarded by schedule_queue_mx
    mx,         \* the owner of scheduling_mx, -1 if none
    epoch,      \* schedule_epoch_counter
    counter,    \* state_subscription_counter
    \* locals of schedule(), which only the owner of scheduling_mx uses
    batch, amounts, total, idx, visits, busy, old, ended, schedTargets,
    \* the client
    seen,       \* the epoch on_halt_handler has read
    flow,       \* index in Flows of the flow being added or executed
    joining,    \* index in threads of the destructor's loop
    done,       \* history: tasks whose execution has ended,
    failed,     \* history: those of them that threw an exception,
    early       \* history: executors that shutdown() has found in state init

execVars   == <<state, queue, weak>>
threadVars == <<hand, origin, targets, stealing>>
schedVars  == <<batch, amounts, total, idx, visits, busy, old, ended, schedTargets>>
clientVars == <<seen, flow, joining>>
history    == <<done, failed, early>>
vars       == <<execVars, threadVars, schedVars, clientVars,
                pc, global, mx, epoch, counter, history>>

States  == {"init", "busy", "halted", "pending_shutdown", "shutdown"}
Origins == {"own", "steal", "start", "restart"}
Labels  == {"off", "add", "flow", "spawn", "destroy", "join", "end",
            "enter", "loop", "pred", "steal", "run",
            "halt", "announce", "parked", "sync_epoch", "sync_decide", "sync_wait",
            "stop", "bye",
            "try", "take", "s_pred", "collect", "scan", "await",
            "decide", "count", "deal", "wake", "more", "repost", "tick", "flip",
            "unlock"}

-----------------------------------------------------------------------------
Goto(e, l) == pc' = [pc EXCEPT ![e] = l]
At(e, l)   == pc[e] = l

Smaller(a, b)    == IF a < b THEN a ELSE b
FloorDiv(a, b)   == a \div b                           \* mutant of CeilDiv
CeilDiv(a, b)    == (a + b - 1) \div b
relu(a)          == IF a > 0 THEN a ELSE 0
Rotate(s)        == Append(Tail(s), Head(s))
WithLast(s)      == s                                  \* mutant of WithoutLast
Cleared(s)       == <<>>                               \* mutant of WithoutLast
WithoutLast(s)   == SubSeq(s, 1, Len(s) - 1)
ZeroPerExecutor  == [i \in Executors |-> 0]

round_wrap_index(i) == IF i < 0 THEN i + N ELSE IF i >= N THEN i - N ELSE i

\* Neighbours at distance -1, +1, -2, +2, ...: each other executor once.
get_stealing_target_sequence(e) ==
    [i \in 1 .. N - 1 |->
        round_wrap_index(e + IF i % 2 = 0 THEN i \div 2 ELSE -((i + 1) \div 2))]

\* Inside schedule() the executor steals along schedule()'s own sequence.
Scheduling(e)     == mx = e
CurrentTargets(e) == IF Scheduling(e) THEN schedTargets ELSE targets[e]
SetTargets(e, s)  == IF Scheduling(e)
                     THEN schedTargets' = s /\ UNCHANGED targets
                     ELSE targets' = [targets EXCEPT ![e] = s] /\ UNCHANGED schedTargets

\* Where a thread continues once the outermost task (or call) has returned.
Resume(e) == CASE origin[e] = "own"     -> "loop"
               [] origin[e] = "steal"   -> "pred"
               [] origin[e] = "start"   -> "spawn"
               [] origin[e] = "restart" -> "enter"

Return(e, l) == Goto(e, l) /\ origin' = [origin EXCEPT ![e] = "own"]

\* A user task run by the scheduler's own steal_cycle returns to that cycle.
AfterTask(e) == IF Scheduling(e) THEN Goto(e, "s_pred") /\ UNCHANGED origin
                ELSE Return(e, Resume(e))

\* The scheduling task's execute() is handle_scheduling.
Execute(t) == IF t = SchedulingTask THEN "try" ELSE "run"

\* Some thread other than e may hold v's execution_queue_mx: its next step is a
\* critical section of that mutex.
Contended(e, v) ==
    \E o \in Executors \ {e} :
        \/ o = v /\ pc[o] \in {"enter", "pred"}
        \/ o = v /\ At(o, "loop") /\ state[o] # "pending_shutdown"
        \/ o = v /\ At(o, "run") /\ Children[hand[o]] # <<>>
        \/ At(o, "steal") /\ Head(CurrentTargets(o)) = v
        \/ pc[o] \in {"deal", "repost"} /\ idx = v

\* Mutant of Stealable: the last task is given away.
StealableToTheLast(v) == queue[v] # <<>>

\* try_steal_task leaves the last task to its owner, unless the owner does not run.
Stealable(v) == \/ Len(queue[v]) > 1
                \/ state[v] \in {"init", "shutdown"} /\ queue[v] # <<>>

\* Mutants of Awaited: only the executors after the scheduler; the scheduler too.
AwaitedAfter(e, i)    == state[i] = "busy" /\ i > e
AwaitedWithSelf(e, i) == state[i] = "busy"

\* The executors a scheduler waits for.
Awaited(e, i) == state[i] = "busy" /\ i # e

\* Mutant of Accounted: the value before the subtraction, as fetch_sub returns it.
AccountedBefore == counter

\* The notifications a scheduler has seen: the value of `counter -= old`.
Accounted == counter - old

\* Mutant of WaitOver: waiting for a wake_up only.
WaitOverIfBusy(e) == state[e] = "busy"

\* current_state.wait(state::halted) returns.
WaitOver(e) == state[e] # "halted"
-----------------------------------------------------------------------------
Init ==
    /\ state = [e \in Executors |-> "init"]
    /\ queue = [e \in Executors |-> <<>>]
    /\ weak = ZeroPerExecutor
    /\ pc = [e \in Executors |-> IF e = 0 THEN "add" ELSE "off"]
    /\ hand = [e \in Executors |-> NoTask]
    /\ origin = [e \in Executors |-> "own"]
    /\ targets = [e \in Executors |-> <<>>]
    /\ stealing = [e \in Executors |-> FALSE]
    /\ global = <<>> /\ mx = -1 /\ epoch = -1 /\ counter = 0
    /\ batch = <<>> /\ amounts = ZeroPerExecutor /\ total = 0 /\ idx = 0
    /\ visits = 0 /\ busy = {} /\ old = 0 /\ ended = FALSE /\ schedTargets = <<>>
    /\ seen = 0 /\ flow = 1 /\ joining = 1
    /\ done = {} /\ failed = {} /\ early = {}

-----------------------------------------------------------------------------
(* The client: add_tasks, execute_flow, ~task_pool *)

\* add_tasks may be called several times; no executor looks at the global queue
\* while no flow is being executed, so the calls are one step.
AddTasks ==
    /\ At(0, "add")
    /\ global' = global \o Flows[flow]
    /\ Goto(0, "flow")
    /\ UNCHANGED <<execVars, threadVars, schedVars, clientVars, mx, epoch, counter, history>>

\* Threads are started unless some executor has left the state init already.
ExecuteFlow ==
    LET call == IF \E e \in Executors : state[e] # "init" THEN "restart" ELSE "start" IN
    /\ At(0, "flow")
    /\ IF epoch < 0
       THEN epoch' = 0 /\ origin' = [origin EXCEPT ![0] = call] /\ Goto(0, "try")
       ELSE UNCHANGED <<epoch, origin>> /\ Goto(0, IF call = "start" THEN "spawn" ELSE "enter")
    /\ UNCHANGED <<execVars, hand, targets, stealing, schedVars, clientVars,
                   global, mx, counter, history>>

SpawnThreads ==
    /\ At(0, "spawn")
    /\ pc' = [e \in Executors |-> "enter"]
    /\ UNCHANGED <<execVars, threadVars, schedVars, clientVars, global, mx, epoch,
                   counter, history>>

\* task_executor::shutdown() on the destructor's next thread.
Shutdown ==
    /\ At(0, "destroy") /\ joining < N
    /\ state' = [state EXCEPT ![joining] =
            IF @ \in {"init", "shutdown"} THEN "shutdown" ELSE "pending_shutdown"]
    /\ early' = IF state[joining] = "init" THEN early \cup {joining} ELSE early
    /\ Goto(0, "join")
    /\ UNCHANGED <<queue, weak, threadVars, schedVars, clientVars, global, mx, epoch,
                   counter, done, failed>>

Join ==
    /\ At(0, "join") /\ At(joining, "end")
    /\ joining' = joining + 1
    /\ Goto(0, "destroy")
    /\ UNCHANGED <<execVars, threadVars, schedVars, seen, flow, global, mx, epoch,
                   counter, history>>

Destroyed ==
    /\ At(0, "destroy") /\ joining = N
    /\ Goto(0, "end")
    /\ UNCHANGED <<execVars, threadVars, schedVars, clientVars, global, mx, epoch,
                   counter, history>>
-----------------------------------------------------------------------------
(* execution_cycle and steal_cycle *)

\* Two compare-exchanges, init -> busy and then shutdown -> busy; then the first
\* look at the own queue.
Enter(e) ==
    /\ At(e, "enter")
    /\ state' = [state EXCEPT ![e] = IF @ \in {"init", "shutdown"} THEN "busy" ELSE @]
    /\ stealing' = [stealing EXCEPT ![e] = queue[e] = <<>>]
    /\ Goto(e, "loop")
    /\ UNCHANGED <<queue, weak, hand, origin, targets, schedVars, clientVars, global,
                   mx, epoch, counter, history>>

LeaveCycle(e) ==
    /\ At(e, "loop") /\ state[e] = "pending_shutdown"
    /\ Goto(e, "stop")
    /\ UNCHANGED <<execVars, threadVars, schedVars, clientVars, global, mx, epoch,
                   counter, history>>

\* acquire_task: front() and pop_front(), whose precondition is a queue that is
\* not empty.
Pop(e) ==
    /\ At(e, "loop") /\ state[e] # "pending_shutdown" /\ ~stealing[e]
    /\ hand' = [hand EXCEPT ![e] = Head(queue[e])]
    /\ queue' = [queue EXCEPT ![e] = Tail(@)]
    /\ weak' = [weak EXCEPT ![e] = Len(queue'[e])]
    /\ stealing' = [stealing EXCEPT ![e] = queue'[e] = <<>>]
    /\ origin' = [origin EXCEPT ![e] = "own"]
    /\ Goto(e, Execute(hand'[e]))
    /\ UNCHANGED <<state, targets, schedVars, clientVars, global, mx, epoch, counter, history>>

\* The predicate of execution_cycle's steal_cycle, then the test of the iterator.
OwnQueuePred(e, candidates) ==
    /\ stealing' = [stealing EXCEPT ![e] = queue[e] = <<>>]
    /\ targets' = [targets EXCEPT ![e] = IF queue[e] = <<>> THEN candidates ELSE <<>>]
    /\ Goto(e, IF queue[e] # <<>> THEN "loop"
               ELSE IF candidates = <<>> THEN "halt" ELSE "steal")
    /\ UNCHANGED <<execVars, hand, origin, schedVars, clientVars, global, mx, epoch,
                   counter, history>>

\* A steal_cycle starts with all the neighbours,
BeginStealing(e) ==
    /\ At(e, "loop") /\ state[e] # "pending_shutdown" /\ stealing[e]
    /\ OwnQueuePred(e, get_stealing_target_sequence(e))

\* and goes on with those that had something to give.
ContinueStealing(e) == At(e, "pred") /\ OwnQueuePred(e, targets[e])

\* A try_lock that fails yields a dummy task, which keeps the neighbour.
StealBlocked(e) ==
    /\ At(e, "steal")
    /\ Contended(e, Head(CurrentTargets(e)))
    /\ SetTargets(e, Rotate(CurrentTargets(e)))
    /\ Goto(e, IF Scheduling(e) THEN "s_pred" ELSE "pred")
    /\ UNCHANGED <<execVars, hand, origin, stealing, batch, amounts, total, idx,
                   visits, busy, old, ended, clientVars, global, mx, epoch, counter, history>>

\* No task to give: the neighbour leaves the sequence.
StealNothing(e) ==
    /\ At(e, "steal")
    /\ ~Stealable(Head(CurrentTargets(e)))
    /\ SetTargets(e, Tail(CurrentTargets(e)))
    /\ Goto(e, IF Scheduling(e) THEN "s_pred" ELSE "pred")
    /\ UNCHANGED <<execVars, hand, origin, stealing, batch, amounts, total, idx,
                   visits, busy, old, ended, clientVars, global, mx, epoch, counter, history>>

\* The victim's latest task.  The neighbour moves to the end of the rotated
\* sequence at once; EndTask takes it out again if the task throws.
StealTask(e) ==
    LET v == Head(CurrentTargets(e)) IN
    /\ At(e, "steal")
    /\ Stealable(v)
    /\ hand' = [hand EXCEPT ![e] = queue[v][Len(queue[v])]]
    /\ queue' = [queue EXCEPT ![v] = WithoutLast(@)]
    /\ weak' = [weak EXCEPT ![v] = Len(queue'[v])]
    /\ origin' = IF Scheduling(e) THEN origin ELSE [origin EXCEPT ![e] = "steal"]
    /\ SetTargets(e, Rotate(CurrentTargets(e)))
    /\ Goto(e, Execute(hand'[e]))
    /\ UNCHANGED <<state, stealing, batch, amounts, total, idx, visits, busy,
                   old, ended, clientVars, global, mx, epoch, counter, history>>

\* execute_task on a user task: its children go to local_schedule_queue, which is
\* spliced to the global queue before the executor does anything else.  A payload
\* that throws puts nothing, and its victim leaves the sequence.
EndTask(e) ==
    /\ At(e, "run")
    /\ \E ok \in IF hand[e] \in Throws THEN BOOLEAN ELSE {TRUE} :
        /\ global' = IF ok THEN global \o Children[hand[e]] ELSE global
        /\ IF ~ok /\ (Scheduling(e) \/ origin[e] = "steal")
           THEN SetTargets(e, WithoutLast(CurrentTargets(e)))
           ELSE UNCHANGED <<targets, schedTargets>>
        /\ failed' = IF ok THEN failed ELSE failed \cup {hand[e]}
    /\ done' = done \cup {hand[e]}
    /\ hand' = [hand EXCEPT ![e] = NoTask]
    /\ AfterTask(e)
    /\ UNCHANGED <<execVars, stealing, batch, amounts, total, idx, visits, busy,
                   old, ended, clientVars, mx, epoch, counter, early>>

Halt(e) ==
    /\ At(e, "halt")
    /\ IF state[e] = "busy"
       THEN state' = [state EXCEPT ![e] = "halted"] /\ Goto(e, "announce")
       ELSE UNCHANGED state /\ Goto(e, "loop")
    /\ UNCHANGED <<queue, weak, threadVars, schedVars, clientVars, global, mx, epoch,
                   counter, history>>

\* notify_executor_state_change, then on_halt_handler.
Announce(e) ==
    /\ At(e, "announce")
    /\ counter' = counter + 1
    /\ Goto(e, IF e = 0 THEN "sync_epoch" ELSE "parked")
    /\ UNCHANGED <<execVars, threadVars, schedVars, clientVars, global, mx, epoch, history>>

Parked(e) ==
    /\ At(e, "parked") /\ WaitOver(e)
    /\ Goto(e, "loop")
    /\ UNCHANGED <<execVars, threadVars, schedVars, clientVars, global, mx, epoch,
                   counter, history>>

\* on_halt_handler of start_synchronous_execution reads the epoch first,
SyncEpoch ==
    /\ At(0, "sync_epoch")
    /\ seen' = epoch
    /\ Goto(0, "sync_decide")
    /\ UNCHANGED <<execVars, threadVars, schedVars, flow, joining, global, mx, epoch,
                   counter, history>>

\* then the state; it stops this executor if the epoch it saw had ended.
SyncDecide ==
    /\ At(0, "sync_decide")
    /\ \/ /\ seen < 0
          /\ state' = [state EXCEPT ![0] = "pending_shutdown"]
          /\ Goto(0, "loop")
       \/ /\ seen >= 0 /\ state[0] = "halted"
          /\ Goto(0, "sync_wait")
          /\ UNCHANGED state
       \/ /\ seen >= 0 /\ state[0] # "halted"
          /\ Goto(0, "loop")
          /\ UNCHANGED state
    /\ seen' = IF seen >= 0 /\ state[0] = "halted" THEN seen ELSE 0
    /\ UNCHANGED <<queue, weak, threadVars, schedVars, flow, joining, global, mx, epoch,
                   counter, history>>

SyncWait ==
    /\ At(0, "sync_wait") /\ epoch # seen
    /\ Goto(0, "sync_epoch")
    /\ UNCHANGED <<execVars, threadVars, schedVars, clientVars, global, mx, epoch,
                   counter, history>>

Stop(e) ==
    /\ At(e, "stop")
    /\ state' = [state EXCEPT ![e] = "shutdown"]
    /\ Goto(e, "bye")
    /\ UNCHANGED <<queue, weak, threadVars, schedVars, clientVars, global, mx, epoch,
                   counter, history>>

\* The cycle returns: a thread ends, the client goes on after execute_flow.
Bye(e) ==
    /\ At(e, "bye")
    /\ counter' = counter + 1
    /\ IF e = 0
       THEN flow' = flow + 1 /\ Goto(0, IF flow < Len(Flows) THEN "add" ELSE "destroy")
       ELSE UNCHANGED flow /\ Goto(e, "end")
    /\ UNCHANGED <<execVars, threadVars, schedVars, seen, joining, global, mx, epoch, history>>
-----------------------------------------------------------------------------
(* task_pool::schedule *)

\* scheduling_mx is only tried: a scheduling task that finds it taken is used up.
TryScheduling(e) ==
    /\ At(e, "try")
    /\ \/ mx = -1 /\ mx' = e /\ Goto(e, "take") /\ UNCHANGED origin
       \/ mx # -1 /\ UNCHANGED mx /\ Return(e, Resume(e))
    /\ hand' = [hand EXCEPT ![e] = NoTask]
    /\ UNCHANGED <<execVars, targets, stealing, schedVars, clientVars, global, epoch, counter, history>>

TakeGlobal(e) ==
    /\ At(e, "take")
    /\ batch' = global /\ global' = <<>>
    /\ \/ /\ global # <<>>
          /\ Goto(e, "count")
          /\ UNCHANGED schedTargets
       \/ /\ global = <<>>
          /\ Goto(e, "s_pred")
          /\ schedTargets' = get_stealing_target_sequence(e)
    /\ UNCHANGED <<execVars, threadVars, amounts, total, idx, visits, busy, old, ended,
                   clientVars, mx, epoch, counter, history>>

\* The predicate of schedule()'s steal_cycle.  Once it fails the global queue,
\* which only grows while this lock is held, is taken.
SchedulePred(e) ==
    /\ At(e, "s_pred")
    /\ \/ /\ global # <<>>
          /\ Goto(e, "take")
          /\ UNCHANGED <<idx, busy>>
       \/ /\ global = <<>> /\ schedTargets = <<>>
          /\ Goto(e, "collect")
          /\ idx' = 0 /\ busy' = {}
       \/ /\ global = <<>> /\ schedTargets # <<>>
          /\ Goto(e, "steal")
          /\ UNCHANGED <<idx, busy>>
    /\ UNCHANGED <<execVars, threadVars, batch, amounts, total, visits, old, ended,
                   schedTargets, clientVars, global, mx, epoch, counter, history>>

\* The states are read one by one; the counter is reset after the last.
CollectBusy(e) ==
    /\ At(e, "collect")
    /\ \/ /\ idx < N
          /\ busy' = IF Awaited(e, idx) THEN busy \cup {idx} ELSE busy
          /\ idx' = idx + 1
          /\ UNCHANGED <<pc, counter, old>>
       \/ /\ idx = N
          /\ counter' = 0 /\ old' = 0 /\ idx' = 0
          /\ Goto(e, "scan")
          /\ UNCHANGED busy
    /\ UNCHANGED <<execVars, threadVars, batch, amounts, total, visits, ended,
                   schedTargets, clientVars, global, mx, epoch, history>>

\* Executors past busy are dropped, one read after the other; then either none is
\* left to wait for, or the notifications known before are subtracted.
ScanBusy(e) ==
    LET unread == {i \in busy : i >= idx} IN
    /\ At(e, "scan")
    /\ \/ \E i \in unread :
            /\ \A j \in unread : i <= j
            /\ busy' = IF state[i] \in {"init", "busy"} THEN busy ELSE busy \ {i}
            /\ idx' = i + 1
            /\ UNCHANGED <<pc, counter, old>>
       \/ /\ busy = {}
          /\ Goto(e, "decide")
          /\ UNCHANGED <<busy, idx, counter, old>>
       \/ /\ unread = {} /\ busy # {}
          /\ counter' = counter - old /\ old' = Accounted
          /\ Goto(e, "await")
          /\ UNCHANGED <<busy, idx>>
    /\ UNCHANGED <<execVars, threadVars, batch, amounts, total, visits, ended,
                   schedTargets, clientVars, global, mx, epoch, history>>

\* state_subscription_counter.wait(0); the loop's condition then reads the global
\* queue without its lock.
AwaitStateChange(e) ==
    /\ At(e, "await") /\ counter # 0
    /\ idx' = 0
    /\ Goto(e, IF global = <<>> THEN "scan" ELSE "decide")
    /\ UNCHANGED <<execVars, threadVars, batch, amounts, total, visits, busy, old, ended,
                   schedTargets, clientVars, global, mx, epoch, counter, history>>

DecideExhausted(e) ==
    /\ At(e, "decide")
    /\ batch' = global /\ global' = <<>>
    /\ ended' = (global = <<>>)
    /\ idx' = 0
    /\ Goto(e, IF global = <<>> THEN "tick" ELSE "count")
    /\ UNCHANGED <<execVars, threadVars, amounts, total, visits, busy, old,
                   schedTargets, clientVars, mx, epoch, counter, history>>

\* enqueued_counts are read one by one; after the last, the share of every executor.
CountEnqueued(e) ==
    LET counts == [amounts EXCEPT ![visits] = weak[visits]]
        sum    == total + weak[visits]
    IN
    /\ At(e, "count")
    /\ \/ /\ visits < N - 1
          /\ amounts' = counts /\ total' = sum /\ visits' = visits + 1
          /\ UNCHANGED <<pc, idx>>
       \/ /\ visits = N - 1
          /\ amounts' = [i \in Executors |->
                relu(CeilDiv(sum + Len(batch), N) - counts[i]
                     + IF counts[i] = 0 THEN 1 ELSE 0)]
          /\ total' = 0 /\ visits' = 0 /\ idx' = e
          /\ Goto(e, "deal")
    /\ UNCHANGED <<execVars, threadVars, batch, busy, old, ended, schedTargets,
                   clientVars, global, mx, epoch, counter, history>>

\* enqueue(list): also an empty list refreshes the weak size.
DealShare(e) ==
    LET n == Smaller(amounts[idx], Len(batch)) IN
    /\ At(e, "deal")
    /\ queue' = [queue EXCEPT ![idx] = @ \o SubSeq(batch, 1, n)]
    /\ weak' = [weak EXCEPT ![idx] = Len(queue'[idx])]
    /\ batch' = SubSeq(batch, n + 1, Len(batch))
    /\ visits' = visits + 1
    /\ Goto(e, "wake")
    /\ UNCHANGED <<state, threadVars, amounts, total, idx, busy, old, ended,
                   schedTargets, clientVars, global, mx, epoch, counter, history>>

\* wake_up, then the loop's break or its next executor.
WakeUp(e) ==
    /\ At(e, "wake")
    /\ state' = [state EXCEPT ![idx] = IF @ = "halted" THEN "busy" ELSE @]
    /\ idx' = IF batch = <<>> THEN idx ELSE (idx + 1) % N
    /\ Goto(e, IF batch = <<>> \/ visits = N THEN "more" ELSE "deal")
    /\ UNCHANGED <<queue, weak, threadVars, batch, amounts, total, visits, busy, old,
                   ended, schedTargets, clientVars, global, mx, epoch, counter, history>>

\* The local buffer is cleared; what has arrived meanwhile is dealt evenly.
NextBatch(e) ==
    /\ At(e, "more")
    /\ batch' = global /\ global' = <<>>
    /\ amounts' = [i \in Executors |-> CeilDiv(Len(global), N)]
    /\ visits' = 0
    /\ Goto(e, IF global = <<>> THEN "repost" ELSE "deal")
    /\ UNCHANGED <<execVars, threadVars, total, idx, busy, old, ended, schedTargets,
                   clientVars, mx, epoch, counter, history>>

\* enqueue_scheduling_task: neither the weak size nor the state is touched.
Repost(e) ==
    /\ At(e, "repost")
    /\ queue' = [queue EXCEPT ![idx] = Append(@, SchedulingTask)]
    /\ Goto(e, "tick")
    /\ UNCHANGED <<state, weak, threadVars, schedVars, clientVars, global, mx, epoch,
                   counter, history>>

\* ~update_epoch_on_return, which runs before the lock is released.
TickEpoch(e) ==
    /\ At(e, "tick")
    /\ epoch' = epoch + 1
    /\ Goto(e, IF ended THEN "flip" ELSE "unlock")
    /\ UNCHANGED <<execVars, threadVars, schedVars, clientVars, global, mx, counter, history>>

FlipEpoch(e) ==
    /\ At(e, "flip")
    /\ epoch' = -epoch - 1
    /\ Goto(e, "unlock")
    /\ UNCHANGED <<execVars, threadVars, schedVars, clientVars, global, mx, counter, history>>

Unlock(e) ==
    /\ At(e, "unlock")
    /\ mx' = -1
    /\ batch' = <<>> /\ amounts' = ZeroPerExecutor /\ total' = 0 /\ idx' = 0
    /\ visits' = 0 /\ busy' = {} /\ old' = 0 /\ ended' = FALSE /\ schedTargets' = <<>>
    /\ Return(e, Resume(e))
    /\ UNCHANGED <<execVars, hand, targets, stealing, clientVars, global, epoch,
                   counter, history>>
-----------------------------------------------------------------------------
Client == AddTasks \/ ExecuteFlow \/ SpawnThreads \/ Shutdown \/ Join \/ Destroyed
          \/ SyncEpoch \/ SyncDecide \/ SyncWait

Cycle(e) == \/ Enter(e) \/ LeaveCycle(e) \/ Pop(e)
            \/ BeginStealing(e) \/ ContinueStealing(e)
            \/ StealBlocked(e) \/ StealNothing(e) \/ StealTask(e) \/ EndTask(e)
            \/ Halt(e) \/ Announce(e) \/ Parked(e) \/ Stop(e) \/ Bye(e)

Schedule(e) == \/ TryScheduling(e) \/ TakeGlobal(e) \/ SchedulePred(e)
               \/ CollectBusy(e) \/ ScanBusy(e) \/ AwaitStateChange(e)
               \/ DecideExhausted(e) \/ CountEnqueued(e)
               \/ DealShare(e) \/ WakeUp(e) \/ NextBatch(e) \/ Repost(e)
               \/ TickEpoch(e) \/ FlipEpoch(e) \/ Unlock(e)

Next == Client \/ \E e \in Executors : Cycle(e) \/ Schedule(e)

Spec == Init /\ [][Next]_vars

\* Every thread is scheduled, its waits return after a notification, and a mutex
\* that is tried again and again is found free at last.
Thread(e) == Cycle(e) \/ Schedule(e) \/ (e = 0 /\ Client)

Fairness == \A e \in Executors : /\ WF_vars(Thread(e))
                                 /\ SF_vars(StealNothing(e) \/ StealTask(e))

FairSpec == Spec /\ Fairness
-----------------------------------------------------------------------------
(* Where a task or a scheduling task is *)

Elements(s)     == {s[i] : i \in 1 .. Len(s)}
Positions(s, x) == {i \in 1 .. Len(s) : s[i] = x}

Places(t) ==
    {<<"global", 0, i>> : i \in Positions(global, t)}
    \cup {<<"batch", 0, i>> : i \in Positions(batch, t)}
    \cup (UNION {{<<"queue", e, i>> : i \in Positions(queue[e], t)} : e \in Executors})
    \cup {<<"hand", e, 0>> : e \in {o \in Executors : hand[o] = t}}
    \cup (IF t \in done THEN {<<"done", 0, 0>>} ELSE {})

Roots(k)     == Elements(Flows[k])
Submitted(k) == k < flow \/ (k = flow /\ ~At(0, "add"))

\* A parent that has not thrown has passed its children on.
Created(t) == \/ \E k \in 1 .. Len(Flows) : Submitted(k) /\ t \in Roots(k)
              \/ \E p \in done \ failed : Positions(Children[p], t) # {}

\* Whoever is bound to run schedule() and to repost the scheduling task: a thread
\* in schedule() that has not reached its last steps, or the holder of the task.
LastLabels == {"tick", "flip", "unlock"}
Duty(e)    == At(e, "try") \/ (mx = e /\ pc[e] \notin LastLabels)

Tokens ==
    (UNION {{<<e, i>> : i \in Positions(queue[e], SchedulingTask)} : e \in Executors})
    \cup {<<e, 0>> : e \in {o \in Executors : Duty(o)}}
-----------------------------------------------------------------------------
(* Properties *)

\* The program counters, queues and counters have the values their types allow.
TypeOK ==
    /\ state \in [Executors -> States]
    /\ queue \in [Executors -> Seq(Items)]
    /\ weak \in [Executors -> Nat]
    /\ pc \in [Executors -> Labels]
    /\ hand \in [Executors -> Items \cup {NoTask}]
    /\ origin \in [Executors -> Origins]
    /\ targets \in [Executors -> Seq(Executors)]
    /\ stealing \in [Executors -> BOOLEAN]
    /\ global \in Seq(Tasks) /\ batch \in Seq(Tasks)
    /\ mx \in Executors \cup {-1}
    /\ epoch \in Int /\ counter \in Nat /\ old \in Nat
    /\ amounts \in [Executors -> Nat] /\ total \in Nat
    /\ idx \in 0 .. N /\ visits \in 0 .. N
    /\ busy \subseteq Executors /\ ended \in BOOLEAN
    /\ schedTargets \in Seq(Executors)
    /\ seen \in Int /\ flow \in 1 .. Len(Flows) + 1 /\ joining \in 1 .. N
    /\ done \subseteq Tasks /\ failed \subseteq done /\ early \subseteq Executors

\* An executor about to pop its queue unconditionally (tasking.cpp:365-366) has
\* a task there, although thieves take tasks between its test and its pop.
PopFindsTask ==
    \A e \in Executors : At(e, "loop") /\ ~stealing[e] => queue[e] # <<>>

\* No task is duplicated or dropped on its way through the local buffers, the
\* execution queues and the thieves: it is in at most one place, once executed it
\* is nowhere else, and once created it is somewhere.
TaskConservation ==
    \A t \in Tasks : LET places == Places(t) IN
        Cardinality(places) <= 1 /\ (places = {} => ~Created(t))

\* At most one thread or queue slot carries the duty to schedule.
OneToken == Cardinality(Tokens) <= 1

\* The owner of scheduling_mx never tries it again (tasking.cpp:47, undefined for a
\* std::mutex): what schedule()'s own steal_cycle steals is no scheduling task.
SchedulerNeverRelocks == \A e \in Executors : At(e, "try") => mx # e

\* tasking.cpp:466-467: "flow execution always ends with failed scheduling attempt.
\* If scheduling fails, then all executors are halted and no tasks available".
QuietAfterEpoch == epoch < 0 => \A e \in Executors : hand[e] = NoTask

\* And of the tasks: none is left in a queue when a flow ends.
FlowDrained == epoch < 0 /\ ~At(0, "flow") => \A e \in Executors : queue[e] = <<>>

\* What the pool keeps of it.  When a scheduler whose own queue is empty ends the epoch,
\* and no task has thrown, every other executor is idle, and what it leaves unexecuted
\* sits alone in the queue of a halted executor.  A scheduler whose queue was filled
\* after its last look at it ends the epoch with tasks of its own, which then run, or are
\* stolen by executors it did not wait for, after the flow; a stolen task that throws
\* hides what its victim has left.
EndsQuiet ==
    \A e \in Executors :
        /\ ended /\ pc[e] \in {"tick", "flip"} /\ failed = {}
        /\ queue[e] = <<>> /\ state[e] = "busy"
        => /\ global = <<>>
           /\ \A o \in Executors \ {e} :
                /\ hand[o] = NoTask
                /\ queue[o] # <<>> => Len(queue[o]) = 1 /\ state[o] = "halted"

\* The shares always cover the batch: the buffer is empty when it is cleared.
BatchDealt == \A e \in Executors : At(e, "more") => batch = <<>>

\* A scheduler that waits for the busy executors (tasking.cpp:93-112) is always
\* resumed: no notification is lost between its reads of their states.
SchedulerWaitEnds == \A e \in Executors : At(e, "await") ~> ~At(e, "await")

\* The destructor's wait for a thread (tasking.cpp:30) ends, whatever the thread was doing
\* when it was told to stop: executing, stealing, about to park, or parked.  The exception
\* is a thread told so before it had begun, which overwrites the request (330).
ShutdownCompletes ==
    \A e \in Executors : At(0, "join") /\ joining = e /\ e \notin early ~> joining > e

\* Nobody is left who will run schedule(): the scheduling task was used up, or it
\* lies in the queue of an executor that has halted and gets no wake_up.
Stranded ==
    /\ mx = -1 /\ \A e \in Executors : ~At(e, "try")
    /\ \A e \in Executors :
        (\E i \in 1 .. Len(queue[e]) : queue[e][i] = SchedulingTask) => state[e] = "halted"

\* Every thread waits for another.
AllBlocked ==
    \A e \in Executors :
        \/ pc[e] \in {"off", "end"}
        \/ At(e, "parked") /\ state[e] = "halted"
        \/ At(e, "sync_wait") /\ epoch = seen
        \/ At(e, "await") /\ counter = 0
        \/ At(e, "join") /\ ~At(joining, "end")

\* There are two ways to get stuck before the end of the program: a flow has lost the duty
\* to schedule, or the destructor waits for a thread that shutdown() found in state init
\* and that has entered its cycle since.  States, epoch, counter and joins give no other.
StuckOnlyIfStranded ==
    AllBlocked => \/ At(0, "end")
                  \/ At(0, "join") /\ joining \in early
                  \/ ~At(0, "join") /\ Stranded

\* The pool implements TaskFlow.  A flow is over as soon as executor 0 has seen the
\* end of the epoch and told itself to stop.
FlowOver == At(0, "stop") \/ At(0, "bye") \/ (At(0, "loop") /\ state[0] = "pending_shutdown")

Promise == INSTANCE TaskFlow WITH
    waiting   <- Tasks \cap (Elements(global) \cup Elements(batch)
                            \cup UNION {Elements(queue[e]) : e \in Executors}),
    executing <- {hand[e] : e \in Executors} \cap Tasks,
    flow      <- IF FlowOver THEN flow + 1 ELSE flow,
    open      <- pc[0] \notin {"add", "destroy", "join", "end"} /\ ~FlowOver

\* Every step of the pool is a step of the promise or leaves its state alone.
KeepsPromise == Promise!Spec

\* tasking.cpp:466: "flow execution always ends with failed scheduling attempt", on
\* which execute_flow returns to its caller.
FlowReturns == At(0, "flow") ~> state[0] = "shutdown"

\* tasking.cpp:513 and 519-520, task_executor::shutdown: "precondition: state is not init",
\* and of a caller that does not care: "there may be race, but it's caller to blame himself.
\* behavior is well-defined".  ~task_pool, its only caller, goes on to join the thread, and
\* would return.
DestructorReturns == At(0, "destroy") ~> At(0, "end")
=============================================================================
