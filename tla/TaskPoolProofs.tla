--------------------------- MODULE TaskPoolProofs ---------------------------
(***************************************************************************)
(* The control invariant of the task pool is inductive together with its   *)
(* type invariant; the safety properties that follow from it hold for      *)
(* every number of executors, every task graph and every sequence of       *)
(* flows.                                                                  *)
(*                                                                         *)
(* First come the parts of that invariant, what the pool's sequence        *)
(* operators return, for each group of actions a summary of the variables  *)
(* they may change, and that every step preserves TypeOK; then the parts,  *)
(* one after the other.                                                    *)
(*                                                                         *)
(* TypeOK alone is not inductive: a pop needs a task (CycleOK), the client *)
(* needs a next flow (ClientOK), schedule() needs an index in range        *)
(* (LocalsOK). CycleOK in turn says that only a thread outside its cycle   *)
(* may lose its last task to a thief; it rests on what its state may be    *)
(* (ThreadsOK), and on the origin of the task in hand (OriginOK). LockOK,  *)
(* the owner of scheduling_mx is the thread in schedule(), rests on        *)
(* TokenOK: a scheduler finds no second scheduling task to steal.          *)
(***************************************************************************)
EXTENDS TaskPool, TLAPS, SequenceTheorems, FiniteSetTheorems

\* Where a thread is inside schedule(), in a task, in the client, out of its cycle.
SchedLabels  == {"take", "s_pred", "collect", "scan", "await", "decide", "count",
                 "deal", "wake", "more", "repost", "tick", "flip", "unlock"}
TaskLabels   == SchedLabels \cup {"try", "steal", "run"}
ClientLabels == {"add", "flow", "spawn", "destroy", "join",
                 "sync_epoch", "sync_decide", "sync_wait"}
OutLabels    == {"off", "add", "flow", "spawn", "destroy", "join", "end", "enter", "bye"}

\* e is in execution_cycle, or in a task it took there.
InCycle(e)   == pc[e] \notin OutLabels /\ origin[e] \in {"own", "steal"}

\* No scheduling task is in the queue q; at most one is.
Clear(q)     == \A i \in 1 .. Len(q) : q[i] # SchedulingTask
Once(q)      == \A i, j \in 1 .. Len(q) : q[i] = SchedulingTask /\ q[j] = SchedulingTask => i = j

\* Nobody is bound to run schedule().
NoToken == \A e \in Executors : ~Duty(e) /\ Clear(queue[e])

\* The thread in schedule() owns scheduling_mx; the owner is in schedule() or in its
\* steal_cycle (tasking.cpp:46-48).
LockOK == \A e \in Executors :
    /\ pc[e] \in SchedLabels => mx = e
    /\ mx = e => pc[e] \in SchedLabels \cup {"steal", "run"}

\* Where a thread continues after a task is settled when it takes the task.
OriginOK == \A e \in Executors :
     /\ pc[e] \notin TaskLabels => origin[e] = "own"
     /\ pc[e] = "steal" /\ mx # e => origin[e] = "own"
     /\ pc[e] = "run" /\ mx # e => origin[e] \in {"own", "steal"}

\* A running executor is not in a state in which thieves may empty its queue, and it
\* pops only a queue that has a task (tasking.cpp:365-366, 424-429).
CycleOK == \A e \in Executors : InCycle(e) =>
     state[e] \notin {"init", "shutdown"} /\ (~stealing[e] => queue[e] # <<>>)

\* Threads other than 0 do nothing for the client, and do not run before it has
\* started them; from then on executor 0 is in its cycle or past it.
ThreadsOK == \A e \in Executors \ {0} :
     /\ pc[e] \notin ClientLabels /\ origin[e] \notin {"start", "restart"}
     /\ pc[0] = "spawn" \/ origin[0] = "start" => pc[e] = "off"
     /\ pc[e] # "off" => state[0] # "init" \/ pc[0] = "enter"

\* The client has a flow to add or execute, the destructor a thread to join.
ClientOK == /\ pc[0] \notin {"destroy", "join", "end"} => flow <= Len(Flows)
            /\ pc[0] = "join" => joining < N

\* A thief has a victim.
TargetsOK == \A e \in Executors : pc[e] = "steal" => CurrentTargets(e) # <<>>

\* The locals of schedule() are in range where they are used: the index of the executor
\* dealt to, the count of executors visited, and the notifications already known.
LocalsOK == \A e \in Executors :
     /\ pc[e] = "run" => hand[e] \in Tasks
     /\ pc[e] \in {"deal", "wake", "more", "repost"} => idx \in Executors
     /\ pc[e] = "deal" => visits < N
     /\ pc[e] \in {"scan", "await"} => old <= counter

\* epoch_ended is set for the last steps of the schedule() that found nothing.
EndedOK == /\ mx = -1 => ~ended
           /\ \A e \in Executors : pc[e] = "flip" => ended
           /\ \A e \in Executors : ended /\ mx = e => pc[e] \in LastLabels

\* While anybody is bound to schedule, the epoch has not ended.
EpochOK == \A e \in Executors :
   /\ mx = e /\ pc[e] # "unlock" => epoch >= 0
   /\ Duty(e) \/ ~Clear(queue[e]) => epoch >= 0

\* At most one thread or queue slot is bound to run schedule(), and none once a schedule()
\* has decided to end the epoch.
TokenOK == /\ \A e, o \in Executors : Duty(e) => (Duty(o) => o = e) /\ Clear(queue[o])
           /\ \A e, o \in Executors : ~Clear(queue[e]) /\ ~Clear(queue[o]) => e = o
           /\ \A e \in Executors : Once(queue[e])
           /\ \A e \in Executors : ended /\ pc[e] \in {"tick", "flip"} => NoToken

\* The control invariant, and the inductive invariant.
Control == /\ LockOK /\ OriginOK /\ CycleOK /\ ThreadsOK /\ ClientOK /\ TargetsOK 
           /\ LocalsOK /\ EndedOK /\ EpochOK /\ TokenOK
IInv == TypeOK /\ Control

-----------------------------------------------------------------------------
(* Data: sequences, queues and shares *)

\* Where a thread goes when its outermost task returns.
LEMMA ResumeLabel ==
  ASSUME NEW e \in Executors, origin[e] \in Origins
  PROVE  /\ origin[e] = "own" => Resume(e) = "loop"
         /\ origin[e] = "steal" => Resume(e) = "pred"
         /\ origin[e] = "start" => Resume(e) = "spawn"
         /\ origin[e] = "restart" => Resume(e) = "enter"
         /\ Resume(e) \in {"loop", "pred", "spawn", "enter"}
<1>1. CASE origin[e] = "own" BY <1>1 DEF Resume
<1>2. CASE origin[e] = "steal" BY <1>2 DEF Resume
<1>3. CASE origin[e] = "start" BY <1>3 DEF Resume
<1>4. CASE origin[e] = "restart" BY <1>4 DEF Resume
<1>5. QED BY <1>1, <1>2, <1>3, <1>4 DEF Origins

\* get_stealing_target_sequence (tasking.cpp:286-299) has one entry per other executor.
LEMMA NeighbourSequence ==
  ASSUME NEW e \in Executors
  PROVE  LET s == get_stealing_target_sequence(e) IN
         /\ s \in Seq(Executors)
         /\ Len(s) = N - 1
         /\ s # <<>>
<1> DEFINE s == get_stealing_target_sequence(e)
<1>1. \A i \in 1 .. N - 1 : s[i] \in Executors
  BY NAssumption DEF get_stealing_target_sequence, round_wrap_index, Executors
<1>2. s \in [1 .. N - 1 -> Executors]
  BY <1>1 DEF get_stealing_target_sequence
<1>3. s \in Seq(Executors)
  BY <1>2, NAssumption, SeqDef
<1>4. Len(s) = N - 1
  BY <1>2, <1>3, LenProperties, NAssumption
<1>5. QED BY <1>3, <1>4, NAssumption, EmptySeq

\* The stealing sequence names exactly the other executors: no executor is out of a
\* thief's reach and none steals from itself, whatever the number of executors.
THEOREM NeighboursCovered ==
  ASSUME NEW e \in Executors
  PROVE  {get_stealing_target_sequence(e)[i] : i \in 1 .. N - 1} = Executors \ {e}
<1> DEFINE s == get_stealing_target_sequence(e)
<1>1. \A i \in 1 .. N - 1 : s[i] \in Executors \ {e}
  BY NAssumption DEF get_stealing_target_sequence, round_wrap_index, Executors
<1>2. ASSUME NEW v \in Executors \ {e}
      PROVE  \E i \in 1 .. N - 1 : s[i] = v
  <2> DEFINE up == IF v > e THEN v - e ELSE v - e + N
             i == IF 2 * up <= N - 1 THEN 2 * up ELSE 2 * (N - up) - 1
  <2>1. up \in 1 .. N - 1
    BY NAssumption DEF Executors
  <2>2. i \in 1 .. N - 1
    BY <2>1, NAssumption
  <2>3. s[i] = v
    <3>1. CASE 2 * up <= N - 1
      <4>1. i = 2 * up
        BY <3>1
      <4>2. i % 2 = 0 /\ i \div 2 = up
        BY <4>1, <2>1
      <4>3. s[i] = round_wrap_index(e + up)
        BY <4>2, <2>2 DEF get_stealing_target_sequence
      <4>4. QED BY <4>3, <2>1, NAssumption DEF round_wrap_index, Executors
    <3>2. CASE 2 * up > N - 1
      <4>1. i = 2 * (N - up) - 1
        BY <3>2, <2>1, NAssumption
      <4>2. i % 2 = 1 /\ (i + 1) \div 2 = N - up
        BY <4>1, <2>1, NAssumption
      <4>3. s[i] = round_wrap_index(e - (N - up))
        BY <4>2, <2>2, <2>1, NAssumption DEF get_stealing_target_sequence, Executors
      <4>4. QED BY <4>3, <2>1, NAssumption DEF round_wrap_index, Executors
    <3>3. QED BY <3>1, <3>2, <2>1, NAssumption
  <2>4. QED BY <2>2, <2>3
<1>3. QED BY <1>1, <1>2

\* The stealing sequence names no executor twice (tasking.cpp:290-297).
THEOREM NeighboursDistinct ==
  ASSUME NEW e \in Executors, NEW i \in 1 .. N - 1, NEW j \in 1 .. N - 1, i # j
  PROVE  get_stealing_target_sequence(e)[i] # get_stealing_target_sequence(e)[j]
  BY NAssumption DEF get_stealing_target_sequence, round_wrap_index, Executors

\* An average rounded up and a share cut off by relu are naturals (tasking.cpp:139-146).
LEMMA SharesNat ==
  /\ \A k \in Nat : CeilDiv(k, N) \in Nat
  /\ \A k \in Int : relu(k) \in Nat
  BY NAssumption DEF CeilDiv, relu

\* Rotating and cutting a sequence of S yields sequences of S.
LEMMA CutTypes ==
  ASSUME NEW S, NEW s \in Seq(S)
  PROVE  /\ WithoutLast(s) \in Seq(S)
         /\ s # <<>> => /\ Rotate(s) \in Seq(S) /\ Rotate(s) # <<>>
                        /\ Tail(s) \in Seq(S) /\ Head(s) \in S
                        /\ s[Len(s)] \in S
                        /\ Len(WithoutLast(s)) = Len(s) - 1
<1> DEFINE n == Len(s)  w == WithoutLast(s)  m == Len(w)
<1>1. n \in Nat /\ \A i \in 1 .. n - 1 : s[i] \in S
  <2>1. n \in Nat
    BY LenProperties
  <2>2. QED BY <2>1, ElementOfSeq
<1>2. w \in Seq(S) /\ (n >= 1 => m = n - 1)
  <2>1. w \in Seq(S) /\ m = IF 1 <= n - 1 THEN (n - 1) - 1 + 1 ELSE 0
    BY <1>1, SubSeqProperties DEF WithoutLast
  <2> HIDE DEF n, w, m
  <2>2. QED BY <1>1, <2>1
<1>3. ASSUME s # <<>>
      PROVE  Tail(s) \in Seq(S) /\ Head(s) \in S /\ Len(s) > 0
  BY <1>3, HeadTailProperties, EmptySeq
<1>4. ASSUME s # <<>>
      PROVE  Rotate(s) \in Seq(S) /\ Rotate(s) # <<>>
  <2>1. PICK t \in Seq(S), h \in S : t = Tail(s) /\ h = Head(s)
    BY <1>3, <1>4
  <2>2. Append(t, h) \in Seq(S) /\ Append(t, h) # <<>>
    BY ONLY t \in Seq(S), h \in S, AppendProperties
  <2>3. QED BY ONLY <2>1, <2>2 DEF Rotate
<1>5. ASSUME s # <<>>
      PROVE  s[Len(s)] \in S /\ Len(WithoutLast(s)) = Len(s) - 1
  <2>1. Len(s) \in 1 .. Len(s)
    BY <1>1, <1>3, <1>5
  <2>2. s[Len(s)] \in S
    BY <2>1, ElementOfSeq
  <2>3. Len(WithoutLast(s)) = Len(s) - 1
    BY <1>1, <1>2, <2>1
  <2>4. QED BY <2>2, <2>3
<1>6. QED BY <1>2, <1>3, <1>4, <1>5

\* Executor 0 exists, and -1, the owner of a free mutex, is none.
LEMMA ZeroInExecutors == 0 \in Executors /\ Executors \subseteq Nat /\ -1 \notin Executors
  BY NAssumption DEF Executors

\* A sequence of tasks may be queued and holds no scheduling task.
LEMMA TaskSeqs ==
  /\ \A s \in Seq(Tasks) : s \in Seq(Items) /\ Clear(s)
  /\ \A e \in Executors : <<>> \in Seq(Executors)
<1>1. ASSUME NEW s \in Seq(Tasks) PROVE s \in Seq(Items) /\ Clear(s)
  <2>1. s \in Seq(Items) BY SeqMonotonic DEF Items
  <2>2. \A i \in 1 .. Len(s) : s[i] \in Tasks BY ElementOfSeq
  <2>3. QED BY <2>1, <2>2, ItemAssumption DEF Clear
<1>2. QED BY <1>1, EmptySeq

\* Dealing tasks to a queue neither adds nor hides a scheduling task.
LEMMA DealtSeq ==
  ASSUME NEW q \in Seq(Items), NEW s \in Seq(Tasks)
  PROVE  /\ q \o s \in Seq(Items)
         /\ q # <<>> => q \o s # <<>>
         /\ Clear(q \o s) <=> Clear(q)
         /\ Once(q) => Once(q \o s)
<1>1. s \in Seq(Items) /\ Clear(s)
  BY TaskSeqs
<1> DEFINE n == Len(q)  m == Len(s)  r == q \o s
<1>2. n \in Nat /\ m \in Nat /\ r \in Seq(Items) /\ Len(r) = n + m
  BY <1>1, LenProperties, ConcatProperties
<1>3. \A i \in 1 .. n : r[i] = q[i]
  BY <1>1, <1>2, ConcatProperties
<1>4. \A i \in n + 1 .. n + m : r[i] # SchedulingTask
  <2>1. TAKE i \in n + 1 .. n + m
  <2>2. i - n \in 1 .. m /\ i \in 1 .. n + m /\ ~(i <= n)
    BY <1>2
  <2>3. r[i] = s[i - n]
    BY <1>1, <2>2, ConcatProperties
  <2>4. QED BY <1>1, <2>2, <2>3 DEF Clear
<1>5. q # <<>> => r # <<>>
  BY <1>2, EmptySeq
<1> HIDE DEF n, m, r
<1>6. Clear(r) <=> Clear(q)
  <2>1. Clear(r) => Clear(q)
    BY <1>2, <1>3 DEF Clear, n
  <2>2. Clear(q) => Clear(r)
    BY <1>2, <1>3, <1>4 DEF Clear, n
  <2>3. QED BY <2>1, <2>2
<1>7. Once(q) => Once(r)
  BY <1>2, <1>3, <1>4, SMTT(20) DEF Once, n
<1>8. QED BY <1>2, <1>5, <1>6, <1>7 DEF r

\* Reposting puts one scheduling task in a queue.
LEMMA RepostedSeq ==
  ASSUME NEW q \in Seq(Items)
  PROVE  /\ Append(q, SchedulingTask) \in Seq(Items)
         /\ Append(q, SchedulingTask) # <<>>
         /\ Clear(q) => Once(Append(q, SchedulingTask))
<1> DEFINE n == Len(q)  r == Append(q, SchedulingTask)
<1>1. SchedulingTask \in Items
  BY DEF Items
<1>2. /\ n \in Nat /\ r \in Seq(Items) /\ r # <<>> /\ Len(r) = n + 1
      /\ \A i \in 1 .. n : r[i] = q[i]
  BY <1>1, LenProperties, AppendProperties
<1> HIDE DEF n, r
<1>3. Clear(q) => Once(r)
  BY <1>2 DEF Clear, Once, n
<1>4. QED BY <1>2, <1>3 DEF r

\* r is what is left of the queue q after the item x was taken from one of its ends.
LeftOf(r, q, x) ==
    /\ r \in Seq(Items) /\ x \in Items
    /\ Clear(q) => Clear(r) /\ x # SchedulingTask
    /\ Once(q) => Once(r) /\ (x = SchedulingTask => Clear(r))

\* The owner takes the front of its queue (tasking.cpp:365-366).
LEMMA PoppedSeq ==
  ASSUME NEW q \in Seq(Items), q # <<>>
  PROVE  LeftOf(Tail(q), q, Head(q))
<1> DEFINE n == Len(q)  r == Tail(q)
<1>1. /\ n \in Nat /\ n >= 1 /\ r \in Seq(Items) /\ Len(r) = n - 1 /\ Head(q) \in Items
      /\ \A i \in 1 .. n - 1 : r[i] = q[i + 1]
  BY EmptySeq, HeadTailProperties
<1>2. Head(q) = q[1]
  OBVIOUS
<1> HIDE DEF r
<1>3. Clear(q) => Clear(r) /\ Head(q) # SchedulingTask
  BY <1>1, <1>2 DEF Clear
<1>4. ASSUME Once(q)
      PROVE  Once(r) /\ (Head(q) = SchedulingTask => Clear(r))
  BY <1>1, <1>2, <1>4, SMTT(20) DEF Once, Clear
<1>5. QED BY <1>1, <1>3, <1>4 DEF LeftOf, r

\* A thief takes the back of its victim's queue (tasking.cpp:434-435).
LEMMA StolenSeq ==
  ASSUME NEW q \in Seq(Items), q # <<>>
  PROVE  /\ LeftOf(WithoutLast(q), q, q[Len(q)])
         /\ Len(q) > 1 => WithoutLast(q) # <<>>
<1> DEFINE n == Len(q)  r == WithoutLast(q)
<1>1. /\ n \in Nat /\ n >= 1 /\ r \in Seq(Items) /\ Len(r) = n - 1 /\ q[n] \in Items
  BY EmptySeq, CutTypes
<1>2. \A i \in 1 .. n - 1 : r[i] = q[i]
  <2>1. \A i \in 1 .. n - 1 : q[i] \in Items
    BY <1>1, ElementOfSeq
  <2>2. \A i \in 1 .. n - 1 - 1 + 1 : r[i] = q[1 + i - 1]
    BY <1>1, <2>1, SubSeqProperties DEF WithoutLast
  <2>3. QED BY <1>1, <2>2
<1>3. n > 1 => r # <<>>
  BY <1>1, EmptySeq
<1> HIDE DEF n, r
<1>4. Clear(q) => Clear(r) /\ q[n] # SchedulingTask
  BY <1>1, <1>2 DEF Clear, n
<1>5. ASSUME Once(q)
      PROVE  Once(r) /\ (q[n] = SchedulingTask => Clear(r))
  BY <1>1, <1>2, <1>5 DEF Once, Clear, n
<1>6. QED BY <1>1, <1>3, <1>4, <1>5 DEF LeftOf, r, n

\* schedule() splices a prefix of its buffer (tasking.cpp:156-161).
LEMMA ShareSeq ==
  ASSUME TypeOK, NEW i \in Executors
  PROVE  LET n == Smaller(amounts[i], Len(batch)) IN
         /\ n \in 0 .. Len(batch)
         /\ SubSeq(batch, 1, n) \in Seq(Tasks)
         /\ SubSeq(batch, n + 1, Len(batch)) \in Seq(Tasks)
<1> DEFINE n == Smaller(amounts[i], Len(batch))
<1>1. Len(batch) \in Nat /\ amounts[i] \in Nat
  BY LenProperties DEF TypeOK
<1>2. n \in 0 .. Len(batch)
  BY <1>1 DEF Smaller
<1>3. \A j \in 1 .. Len(batch) : batch[j] \in Tasks
  BY ElementOfSeq DEF TypeOK
<1>4. \A j \in 1 .. n : batch[j] \in Tasks
  BY <1>1, <1>2, <1>3
<1>5. \A j \in n + 1 .. Len(batch) : batch[j] \in Tasks
  BY <1>1, <1>2, <1>3
<1> HIDE DEF n
<1>6. SubSeq(batch, 1, n) \in Seq(Tasks) /\ SubSeq(batch, n + 1, Len(batch)) \in Seq(Tasks)
  BY <1>1, <1>2, <1>4, <1>5, SubSeqProperties
<1>7. QED BY <1>2, <1>6 DEF n

-----------------------------------------------------------------------------
(* Steps: what the actions have in common *)

\* Actions that neither move items nor touch scheduling_mx, ...
Quiet(e) == \/ e = 0 /\ (AddTasks \/ Shutdown \/ Join \/ Destroyed
                           \/ SyncEpoch \/ SyncDecide \/ SyncWait)
            \/ Enter(e) \/ LeaveCycle(e) \/ BeginStealing(e) \/ ContinueStealing(e)
            \/ StealBlocked(e) \/ StealNothing(e)
            \/ Halt(e) \/ Announce(e) \/ Parked(e) \/ Stop(e) \/ Bye(e)

\* ... the steps of schedule() between its lock and its unlock, ...
Inner(e) == \/ TakeGlobal(e) \/ SchedulePred(e) \/ CollectBusy(e) \/ ScanBusy(e)
            \/ AwaitStateChange(e) \/ DecideExhausted(e) \/ CountEnqueued(e)
            \/ DealShare(e) \/ WakeUp(e) \/ NextBatch(e) \/ Repost(e)
            \/ TickEpoch(e) \/ FlipEpoch(e)

\* ... and those that take a task, end it, or enter or leave schedule().
Other(e) == \/ Pop(e) \/ StealTask(e) \/ EndTask(e) \/ TryScheduling(e) \/ Unlock(e)

\* Every step belongs to one of these groups.
LEMMA Steps ==
  ASSUME [Next]_vars
  PROVE  \/ UNCHANGED vars \/ ExecuteFlow \/ SpawnThreads
         \/ \E e \in Executors : Quiet(e) \/ Inner(e) \/ Other(e)
  BY ZeroInExecutors DEF Next, Client, Cycle, Schedule, Quiet, Inner, Other

\* The control part of a quiet step: e moves to l, and the variables of schedule(), the
\* queues and the tasks in hand stay.
QuietMove(e, l) ==
    /\ pc' = [pc EXCEPT ![e] = l]
    /\ pc[e] \in Labels \ (SchedLabels \cup {"try", "run", "flow", "spawn", "off"})
    /\ l \in Labels \ {"try", "run", "spawn", "off"}
    /\ l \in SchedLabels <=> pc[e] = "steal" /\ mx = e
    /\ l \in SchedLabels => l = "s_pred"
    /\ l = "steal" => pc[e] \in {"loop", "pred"}
    /\ e # 0 => l \notin ClientLabels
    /\ l \notin OutLabels => pc[e] \notin OutLabels \ {"enter"}
    /\ pc[e] \in {"destroy", "join", "end"} => l \in {"destroy", "join", "end"}
    /\ l = "join" => joining < N
    /\ UNCHANGED <<mx, origin, hand, queue, epoch, batch, amounts, total, idx, visits, busy,
                   old, ended>>

\* Every quiet action is such a move.
LEMMA QuietSteps ==
  ASSUME TypeOK, LockOK, NEW e \in Executors, Quiet(e)
  PROVE  \E l : QuietMove(e, l)
<1> USE DEF QuietMove, LockOK, TypeOK, SchedLabels, Labels, ClientLabels, OutLabels, Goto, At,
            OwnQueuePred, Scheduling, execVars, threadVars, schedVars, clientVars
<1>1. ASSUME e = 0, AddTasks PROVE QuietMove(e, "flow")
  BY <1>1 DEF AddTasks
<1>2. ASSUME e = 0, Shutdown PROVE QuietMove(e, "join")
  BY <1>2 DEF Shutdown
<1>3. ASSUME e = 0, Join PROVE QuietMove(e, "destroy")
  BY <1>3 DEF Join
<1>4. ASSUME e = 0, Destroyed PROVE QuietMove(e, "end")
  BY <1>4 DEF Destroyed
<1>5. ASSUME e = 0, SyncEpoch PROVE QuietMove(e, "sync_decide")
  BY <1>5 DEF SyncEpoch
<1>6. ASSUME e = 0, SyncDecide PROVE QuietMove(e, "loop") \/ QuietMove(e, "sync_wait")
  BY <1>6 DEF SyncDecide
<1>7. ASSUME e = 0, SyncWait PROVE QuietMove(e, "sync_epoch")
  BY <1>7 DEF SyncWait
<1>8. ASSUME Enter(e) PROVE QuietMove(e, "loop")
  BY <1>8 DEF Enter
<1>9. ASSUME LeaveCycle(e) PROVE QuietMove(e, "stop")
  BY <1>9 DEF LeaveCycle
<1>10. ASSUME BeginStealing(e)
       PROVE  QuietMove(e, "loop") \/ QuietMove(e, "halt") \/ QuietMove(e, "steal")
  BY <1>10 DEF BeginStealing
<1>11. ASSUME ContinueStealing(e)
       PROVE  QuietMove(e, "loop") \/ QuietMove(e, "halt") \/ QuietMove(e, "steal")
  BY <1>11 DEF ContinueStealing
<1>12. ASSUME StealBlocked(e) PROVE QuietMove(e, "s_pred") \/ QuietMove(e, "pred")
  BY <1>12 DEF StealBlocked
<1>13. ASSUME StealNothing(e) PROVE QuietMove(e, "s_pred") \/ QuietMove(e, "pred")
  BY <1>13 DEF StealNothing
<1>14. ASSUME Halt(e) PROVE QuietMove(e, "announce") \/ QuietMove(e, "loop")
  BY <1>14 DEF Halt
<1>15. ASSUME Announce(e) PROVE QuietMove(e, "sync_epoch") \/ QuietMove(e, "parked")
  BY <1>15 DEF Announce
<1>16. ASSUME Parked(e) PROVE QuietMove(e, "loop")
  BY <1>16 DEF Parked
<1>17. ASSUME Stop(e) PROVE QuietMove(e, "bye")
  BY <1>17 DEF Stop
<1>18. ASSUME Bye(e) PROVE QuietMove(e, "add") \/ QuietMove(e, "destroy") \/ QuietMove(e, "end")
  BY <1>18 DEF Bye
<1> HIDE DEF QuietMove
<1>19. QED
  BY <1>1, <1>2, <1>3, <1>4, <1>5, <1>6, <1>7, <1>8, <1>9,
     <1>10, <1>11, <1>12, <1>13, <1>14, <1>15, <1>16, <1>17, <1>18 DEF Quiet

\* What a quiet step does to the states and to should_try_stealing.
QuietEffect(e) ==
    /\ \A o \in Executors :
          /\ state'[o] \in {"init", "shutdown"} /\ state[o] \notin {"init", "shutdown"}
                => o = e /\ pc[e] = "stop"
          /\ state'[o] = "init" => state[o] = "init"
          /\ o # e => stealing'[o] = stealing[o]
    /\ pc[e] = "enter" => state'[e] \notin {"init", "shutdown"}
    /\ stealing'[e] = (queue[e] = <<>>) \/ (pc[e] # "enter" /\ stealing'[e] = stealing[e])

\* Every quiet action has this effect.
LEMMA QuietEffects ==
  ASSUME TypeOK, ClientOK, NEW e \in Executors, Quiet(e)
  PROVE  QuietEffect(e)
<1> USE DEF QuietEffect, TypeOK, At, OwnQueuePred, execVars, threadVars
<1>1. ASSUME e = 0, AddTasks PROVE QuietEffect(e)
  BY <1>1, ZeroInExecutors DEF AddTasks
<1>2. ASSUME e = 0, Shutdown PROVE QuietEffect(e)
  BY <1>2, ZeroInExecutors DEF Shutdown
<1>3. ASSUME e = 0, Join PROVE QuietEffect(e)
  BY <1>3, ZeroInExecutors DEF Join
<1>4. ASSUME e = 0, Destroyed PROVE QuietEffect(e)
  BY <1>4, ZeroInExecutors DEF Destroyed
<1>5. ASSUME e = 0, SyncEpoch PROVE QuietEffect(e)
  BY <1>5, ZeroInExecutors DEF SyncEpoch
<1>6. ASSUME e = 0, SyncDecide PROVE QuietEffect(e)
  BY <1>6, ZeroInExecutors DEF SyncDecide
<1>7. ASSUME e = 0, SyncWait PROVE QuietEffect(e)
  BY <1>7, ZeroInExecutors DEF SyncWait
<1>8. ASSUME Enter(e) PROVE QuietEffect(e)
  BY <1>8 DEF Enter
<1>9. ASSUME LeaveCycle(e) PROVE QuietEffect(e)
  BY <1>9 DEF LeaveCycle
<1>10. ASSUME BeginStealing(e) PROVE QuietEffect(e)
  BY <1>10 DEF BeginStealing
<1>11. ASSUME ContinueStealing(e) PROVE QuietEffect(e)
  BY <1>11 DEF ContinueStealing
<1>12. ASSUME StealBlocked(e) PROVE QuietEffect(e)
  BY <1>12 DEF StealBlocked
<1>13. ASSUME StealNothing(e) PROVE QuietEffect(e)
  BY <1>13 DEF StealNothing
<1>14. ASSUME Halt(e) PROVE QuietEffect(e)
  BY <1>14 DEF Halt
<1>15. ASSUME Announce(e) PROVE QuietEffect(e)
  BY <1>15 DEF Announce
<1>16. ASSUME Parked(e) PROVE QuietEffect(e)
  BY <1>16 DEF Parked
<1>17. ASSUME Stop(e) PROVE QuietEffect(e)
  BY <1>17 DEF Stop
<1>18. ASSUME Bye(e) PROVE QuietEffect(e)
  BY <1>18 DEF Bye
<1> HIDE DEF QuietEffect
<1>19. QED
  BY <1>1, <1>2, <1>3, <1>4, <1>5, <1>6, <1>7, <1>8, <1>9,
     <1>10, <1>11, <1>12, <1>13, <1>14, <1>15, <1>16, <1>17, <1>18 DEF Quiet

\* The control part of a step inside schedule().
InnerMove(e, l) ==
    /\ pc' = [pc EXCEPT ![e] = l]
    /\ pc[e] \in SchedLabels \ {"unlock"}
    /\ l \in SchedLabels \cup {"steal"}
    /\ l = "unlock" => pc[e] \in LastLabels
    /\ l = "steal" => schedTargets' # <<>>
    /\ UNCHANGED <<mx, origin, hand, stealing, targets, clientVars, history>>

\* Every action of schedule() after its try_lock is such a move.
LEMMA InnerSteps ==
  ASSUME TypeOK, LockOK, NEW e \in Executors, Inner(e)
  PROVE  \E l : InnerMove(e, l)
<1> USE DEF InnerMove, LockOK, TypeOK, SchedLabels, LastLabels, Goto, At, execVars,
            threadVars, schedVars, clientVars
<1>1. ASSUME TakeGlobal(e) PROVE InnerMove(e, "count") \/ InnerMove(e, "s_pred")
  BY <1>1 DEF TakeGlobal
<1>2. ASSUME SchedulePred(e)
      PROVE  InnerMove(e, "take") \/ InnerMove(e, "collect") \/ InnerMove(e, "steal")
  BY <1>2 DEF SchedulePred
<1>3. ASSUME CollectBusy(e) PROVE InnerMove(e, "collect") \/ InnerMove(e, "scan")
  BY <1>3 DEF CollectBusy
<1>4. ASSUME ScanBusy(e)
      PROVE  InnerMove(e, "scan") \/ InnerMove(e, "decide") \/ InnerMove(e, "await")
  BY <1>4 DEF ScanBusy
<1>5. ASSUME AwaitStateChange(e) PROVE InnerMove(e, "scan") \/ InnerMove(e, "decide")
  BY <1>5 DEF AwaitStateChange
<1>6. ASSUME DecideExhausted(e) PROVE InnerMove(e, "tick") \/ InnerMove(e, "count")
  BY <1>6 DEF DecideExhausted
<1>7. ASSUME CountEnqueued(e) PROVE InnerMove(e, "count") \/ InnerMove(e, "deal")
  BY <1>7 DEF CountEnqueued
<1>8. ASSUME DealShare(e) PROVE InnerMove(e, "wake")
  BY <1>8 DEF DealShare
<1>9. ASSUME WakeUp(e) PROVE InnerMove(e, "more") \/ InnerMove(e, "deal")
  BY <1>9 DEF WakeUp
<1>10. ASSUME NextBatch(e) PROVE InnerMove(e, "repost") \/ InnerMove(e, "deal")
  BY <1>10 DEF NextBatch
<1>11. ASSUME Repost(e) PROVE InnerMove(e, "tick")
  BY <1>11 DEF Repost
<1>12. ASSUME TickEpoch(e) PROVE InnerMove(e, "flip") \/ InnerMove(e, "unlock")
  BY <1>12 DEF TickEpoch
<1>13. ASSUME FlipEpoch(e) PROVE InnerMove(e, "unlock")
  BY <1>13 DEF FlipEpoch
<1>14. QED
  BY <1>1, <1>2, <1>3, <1>4, <1>5, <1>6, <1>7, <1>8, <1>9, <1>10, <1>11, <1>12, <1>13 DEF Inner

\* A user task has ended: back to schedule()'s steal_cycle, or to the executor's cycle.
AfterTaskMove(e, l) ==
    /\ pc' = [pc EXCEPT ![e] = l]
    /\ pc[e] = "run"
    /\ \/ mx = e /\ l = "s_pred" /\ UNCHANGED origin
       \/ mx # e /\ l \in {"loop", "pred"} /\ origin' = [origin EXCEPT ![e] = "own"]
    /\ UNCHANGED <<state, queue, stealing, mx, epoch, counter, idx, visits, old, ended,
                   clientVars>>

\* EndTask is such a move.
LEMMA EndTaskStep ==
  ASSUME TypeOK, OriginOK, NEW e \in Executors, EndTask(e)
  PROVE  \E l : AfterTaskMove(e, l)
<1>1. CASE mx = e
  <2>1. pc' = [pc EXCEPT ![e] = "s_pred"] /\ UNCHANGED origin
    BY <1>1 DEF EndTask, AfterTask, Scheduling, Goto
  <2>2. AfterTaskMove(e, "s_pred")
    BY <1>1, <2>1 DEF EndTask, AfterTaskMove, At, execVars, clientVars
  <2>3. QED BY <2>2
<1>2. CASE mx # e
  <2>1. Resume(e) \in {"loop", "pred"}
    BY <1>2, ResumeLabel DEF EndTask, At, OriginOK, TypeOK
  <2>2. AfterTaskMove(e, Resume(e))
    BY <1>2, <2>1
       DEF EndTask, AfterTask, AfterTaskMove, Scheduling, Return, Goto, At, execVars, clientVars
  <2>3. QED BY <2>2
<1>3. QED BY <1>1, <1>2

\* A thief's victim is an executor.
LEMMA TargetTypes ==
  ASSUME TypeOK, TargetsOK, NEW e \in Executors
  PROVE  /\ CurrentTargets(e) \in Seq(Executors)
         /\ pc[e] = "steal" => CurrentTargets(e) # <<>> /\ Head(CurrentTargets(e)) \in Executors
<1>1. CurrentTargets(e) \in Seq(Executors)
  BY DEF TypeOK, CurrentTargets
<1>2. QED BY <1>1, CutTypes DEF TargetsOK

\* What StealTask takes is the last item of its victim.
LEMMA StolenItem ==
  ASSUME TypeOK, TargetsOK, NEW e \in Executors, StealTask(e)
  PROVE  LET v == Head(CurrentTargets(e)) IN
         /\ v \in Executors
         /\ Len(queue[v]) \in 1 .. Len(queue[v])
         /\ hand'[e] = queue[v][Len(queue[v])]
<1> DEFINE v == Head(CurrentTargets(e))
<1>1. v \in Executors
  BY TargetTypes DEF StealTask, At
<1>2. queue[v] \in Seq(Items) /\ queue[v] # <<>>
  BY <1>1, EmptySeq DEF TypeOK, StealTask, Stealable
<1>3. Len(queue[v]) \in 1 .. Len(queue[v])
  BY <1>2, EmptySeq
<1>4. hand'[e] = queue[v][Len(queue[v])]
  BY DEF StealTask, TypeOK
<1>5. QED BY <1>1, <1>3, <1>4

\* What a step of schedule() does to the queues and the states.
InnerEffect(e) ==
    /\ \A o \in Executors :
          /\ state'[o] # state[o] => state[o] = "halted" /\ state'[o] = "busy"
          /\ queue[o] # <<>> => queue'[o] # <<>>
    /\ At(e, "repost") \/ \A o \in Executors : /\ Clear(queue[o]) <=> Clear(queue'[o])
                                               /\ Once(queue[o]) => Once(queue'[o])

\* Every action of schedule() has this effect.
LEMMA InnerEffects ==
  ASSUME TypeOK, LocalsOK, NEW e \in Executors, Inner(e)
  PROVE  InnerEffect(e)
<1>1. CASE UNCHANGED execVars
  BY <1>1 DEF InnerEffect, execVars
<1>2. CASE DealShare(e)
  <2>1. idx \in Executors /\ queue[idx] \in Seq(Items)
    BY <1>2 DEF DealShare, At, LocalsOK, TypeOK
  <2>2. PICK s \in Seq(Tasks) : queue' = [queue EXCEPT ![idx] = queue[idx] \o s]
    <3>1. SubSeq(batch, 1, Smaller(amounts[idx], Len(batch))) \in Seq(Tasks)
      BY <2>1, ShareSeq
    <3>2. QED BY <1>2, <3>1 DEF DealShare
  <2>3. queue' = [queue EXCEPT ![idx] = queue'[idx]] /\ queue'[idx] = queue[idx] \o s
    BY <2>1, <2>2 DEF TypeOK
  <2>4. UNCHANGED state
    BY <1>2 DEF DealShare
  <2>5. /\ queue[idx] # <<>> => queue'[idx] # <<>>
        /\ Clear(queue[idx]) <=> Clear(queue'[idx])
        /\ Once(queue[idx]) => Once(queue'[idx])
    BY <2>1, <2>2, <2>3, DealtSeq
  <2>6. \A o \in Executors \ {idx} : queue'[o] = queue[o]
    BY <2>3 DEF TypeOK
  <2>7. QED BY <2>4, <2>5, <2>6 DEF InnerEffect
<1>3. CASE WakeUp(e)
  BY <1>3 DEF WakeUp, InnerEffect, TypeOK
<1>4. CASE Repost(e)
  <2>1. idx \in Executors /\ queue[idx] \in Seq(Items)
    BY <1>4 DEF Repost, At, LocalsOK, TypeOK
  <2>2. queue'[idx] # <<>> /\ \A o \in Executors \ {idx} : queue'[o] = queue[o]
    BY <1>4, <2>1, RepostedSeq DEF Repost, TypeOK
  <2>3. QED BY <1>4, <2>2 DEF Repost, InnerEffect
<1>5. QED
  BY <1>1, <1>2, <1>3, <1>4 DEF Inner, TakeGlobal, SchedulePred, CollectBusy, ScanBusy,
     AwaitStateChange, DecideExhausted, CountEnqueued, NextBatch, TickEpoch, FlipEpoch

\* What Pop and StealTask do: one item leaves the queue of v and is in e's hand.
Taken(e, v) ==
    /\ v \in Executors /\ queue[v] # <<>>
    /\ queue' = [queue EXCEPT ![v] = queue'[v]]
    /\ hand' = [hand EXCEPT ![e] = hand'[e]]
    /\ LeftOf(queue'[v], queue[v], hand'[e])
    /\ pc' = [pc EXCEPT ![e] = Execute(hand'[e])]
    /\ UNCHANGED <<state, mx, epoch, batch, idx, visits, old, ended, counter, clientVars>>

\* Pop takes an item of the executor's own queue.
LEMMA PopTakes ==
  ASSUME TypeOK, OriginOK, CycleOK, NEW e \in Executors, Pop(e)
  PROVE  Taken(e, e)
<1>1. queue[e] \in Seq(Items) /\ queue[e] # <<>>
  BY DEF Pop, At, OriginOK, CycleOK, InCycle, OutLabels, TaskLabels, SchedLabels, TypeOK
<1>2. /\ hand' = [hand EXCEPT ![e] = Head(queue[e])] /\ hand'[e] = Head(queue[e])
      /\ queue' = [queue EXCEPT ![e] = Tail(queue[e])] /\ queue'[e] = Tail(queue[e])
  BY DEF Pop, TypeOK
<1>3. LeftOf(queue'[e], queue[e], hand'[e])
  BY <1>1, <1>2, PoppedSeq
<1>4. QED BY <1>1, <1>2, <1>3 DEF Pop, Taken, Goto, clientVars, schedVars

\* StealTask takes an item of the victim, which keeps a task if it had two.
LEMMA StealTakes ==
  ASSUME TypeOK, TargetsOK, NEW e \in Executors, StealTask(e)
  PROVE  /\ Taken(e, Head(CurrentTargets(e)))
         /\ Stealable(Head(CurrentTargets(e)))
         /\ Len(queue[Head(CurrentTargets(e))]) > 1 => queue'[Head(CurrentTargets(e))] # <<>>
<1> DEFINE v == Head(CurrentTargets(e))
<1>1. v \in Executors /\ Stealable(v)
  BY TargetTypes DEF StealTask, At
<1>2. queue[v] \in Seq(Items) /\ queue[v] # <<>>
  BY <1>1, EmptySeq DEF TypeOK, Stealable
<1> HIDE DEF v
<1>3. /\ hand' = [hand EXCEPT ![e] = queue[v][Len(queue[v])]]
      /\ queue' = [queue EXCEPT ![v] = WithoutLast(queue[v])]
  BY DEF StealTask, v
<1>4. /\ hand'[e] = queue[v][Len(queue[v])]
      /\ queue'[v] = WithoutLast(queue[v])
  BY <1>1, <1>3 DEF TypeOK
<1>5. /\ LeftOf(queue'[v], queue[v], hand'[e])
      /\ Len(queue[v]) > 1 => queue'[v] # <<>>
  BY <1>2, <1>4, StolenSeq
<1>6. UNCHANGED <<state, mx, epoch, batch, idx, visits, old, ended, counter, clientVars>>
      /\ pc' = [pc EXCEPT ![e] = Execute(hand'[e])]
  BY DEF StealTask, Goto
<1>7. QED BY <1>1, <1>2, <1>3, <1>4, <1>5, <1>6 DEF Taken, v

\* The control part of the remaining steps.
OtherMove(e, l) ==
    /\ pc' = [pc EXCEPT ![e] = l]
    /\ pc[e] \in {"loop", "steal", "run", "try", "unlock"}
    /\ l \in {"try", "run", "s_pred", "loop", "pred", "spawn", "enter", "take"}
    /\ l = "spawn" => pc[e] \in {"try", "unlock"} /\ origin[e] = "start"
    /\ origin' = [origin EXCEPT ![e] = origin'[e]]
    /\ origin'[e] \in {origin[e], "own", "steal"}
    /\ UNCHANGED <<state, epoch, counter, clientVars>>

\* Taking a task, ending it, entering and leaving schedule() are such moves.
LEMMA OtherSteps ==
  ASSUME TypeOK, OriginOK, CycleOK, TargetsOK, NEW e \in Executors, Other(e)
  PROVE  \E l : OtherMove(e, l)
<1>1. CASE Pop(e)
  <2>1. OtherMove(e, Execute(hand'[e]))
    BY <1>1 DEF Pop, Execute, OtherMove, Goto, At, TypeOK, clientVars
  <2>2. QED BY <2>1
<1>2. CASE StealTask(e)
  <2>1. OtherMove(e, Execute(hand'[e]))
    BY <1>2 DEF StealTask, Execute, OtherMove, Goto, At, Scheduling, TypeOK, clientVars
  <2>2. QED BY <2>1
<1>3. CASE EndTask(e)
  <2>1. PICK l : AfterTaskMove(e, l)
    BY <1>3, EndTaskStep
  <2>2. OtherMove(e, l)
    BY <2>1 DEF AfterTaskMove, OtherMove, TypeOK
  <2>3. QED BY <2>2
<1>4. CASE TryScheduling(e)
  <2>1. CASE mx = -1
    <3>1. OtherMove(e, "take")
      BY <1>4, <2>1 DEF TryScheduling, OtherMove, Goto, At, TypeOK, execVars, clientVars
    <3>2. QED BY <3>1
  <2>2. CASE mx # -1
    <3>1. OtherMove(e, Resume(e))
      BY <1>4, <2>2, ResumeLabel
         DEF TryScheduling, Return, OtherMove, Goto, At, Origins, TypeOK, execVars, clientVars
    <3>2. QED BY <3>1
  <2>3. QED BY <2>1, <2>2
<1>5. CASE Unlock(e)
  <2>1. OtherMove(e, Resume(e))
    BY <1>5, ResumeLabel
       DEF Unlock, Return, OtherMove, Goto, At, Origins, TypeOK, execVars, clientVars
  <2>2. QED BY <2>1
<1>6. QED BY <1>1, <1>2, <1>3, <1>4, <1>5 DEF Other

-----------------------------------------------------------------------------
(* The type invariant is preserved by every step, given the control invariant.  The
   variables are taken in five groups. *)


\* The conjuncts of TypeOK, by the variables they are about.
PcType     == pc \in [Executors -> Labels]
ExecType   == /\ state \in [Executors -> States] /\ queue \in [Executors -> Seq(Items)]
              /\ weak \in [Executors -> Nat]
ThreadType == /\ hand \in [Executors -> Items \cup {NoTask}]
              /\ origin \in [Executors -> Origins]
              /\ targets \in [Executors -> Seq(Executors)]
              /\ stealing \in [Executors -> BOOLEAN]
              /\ schedTargets \in Seq(Executors)
SchedType  == /\ batch \in Seq(Tasks) /\ global \in Seq(Tasks)
              /\ amounts \in [Executors -> Nat] /\ total \in Nat
              /\ idx \in 0 .. N /\ visits \in 0 .. N
              /\ busy \subseteq Executors /\ ended \in BOOLEAN
PoolType   == /\ mx \in Executors \cup {-1}
              /\ epoch \in Int /\ counter \in Nat /\ old \in Nat
              /\ seen \in Int /\ flow \in 1 .. Len(Flows) + 1 /\ joining \in 1 .. N
              /\ done \subseteq Tasks /\ failed \subseteq done /\ early \subseteq Executors

\* Program counters keep their type.
LEMMA PcTypeStep ==
  ASSUME TypeOK, Control, [Next]_vars
  PROVE  PcType'
<1> USE DEF Control
<1>1. CASE UNCHANGED vars
  BY <1>1 DEF vars, TypeOK, PcType
<1>2. CASE ExecuteFlow
  <2>1. PICK l \in {"try", "spawn", "enter"} : pc' = [pc EXCEPT ![0] = l]
    BY <1>2 DEF ExecuteFlow, Goto
  <2>2. l \in Labels
    BY DEF Labels
  <2>3. QED BY <2>1, <2>2 DEF TypeOK, PcType
<1>3. CASE SpawnThreads
  BY <1>3 DEF SpawnThreads, PcType, Labels
<1>4. ASSUME NEW e \in Executors, Quiet(e) PROVE PcType'
  <2>1. PICK l : QuietMove(e, l)
    BY <1>4, QuietSteps
  <2>2. QED BY <2>1 DEF QuietMove, TypeOK, PcType
<1>5. ASSUME NEW e \in Executors, Inner(e) PROVE PcType'
  <2>1. PICK l : InnerMove(e, l)
    BY <1>5, InnerSteps
  <2>2. l \in Labels
    BY <2>1 DEF InnerMove, SchedLabels, Labels
  <2>3. QED BY <2>1, <2>2 DEF InnerMove, TypeOK, PcType
<1>6. ASSUME NEW e \in Executors, Other(e) PROVE PcType'
  <2>1. PICK l : OtherMove(e, l)
    BY <1>6, OtherSteps
  <2>2. l \in Labels
    BY <2>1 DEF OtherMove, Labels
  <2>3. QED BY <2>1, <2>2 DEF OtherMove, TypeOK, PcType
<1>7. QED BY <1>1, <1>2, <1>3, <1>4, <1>5, <1>6, Steps

\* States, queues and weak sizes keep their type.
LEMMA ExecTypeStep ==
  ASSUME TypeOK, Control, [Next]_vars
  PROVE  ExecType'
<1> USE DEF Control
<1>1. CASE UNCHANGED execVars
  BY <1>1 DEF execVars, TypeOK, ExecType
<1>2. CASE Shutdown
  BY <1>2 DEF Shutdown, TypeOK, ExecType, States
<1>3. CASE SyncDecide
  BY <1>3 DEF SyncDecide, TypeOK, ExecType, States
<1>4. ASSUME NEW e \in Executors, Enter(e) \/ Halt(e) \/ Stop(e) PROVE ExecType'
  BY <1>4 DEF Enter, Halt, Stop, TypeOK, ExecType, States
<1>5. ASSUME NEW e \in Executors, WakeUp(e) PROVE ExecType'
  BY <1>5 DEF WakeUp, TypeOK, ExecType, States
<1>6. ASSUME NEW e \in Executors, Pop(e) \/ StealTask(e) PROVE ExecType'
  <2>1. PICK v : Taken(e, v) /\ weak' = [weak EXCEPT ![v] = Len(queue'[v])]
    <3>1. CASE Pop(e)
      BY <3>1, PopTakes DEF Pop
    <3>2. CASE StealTask(e)
      BY <3>2, StealTakes DEF StealTask
    <3>3. QED BY <1>6, <3>1, <3>2
  <2>2. queue'[v] \in Seq(Items) /\ Len(queue'[v]) \in Nat
    BY <2>1, LenProperties DEF Taken, LeftOf
  <2>3. QED BY <2>1, <2>2 DEF Taken, TypeOK, ExecType
<1>7. ASSUME NEW e \in Executors, DealShare(e) PROVE ExecType'
  <2>1. idx \in Executors /\ queue[idx] \in Seq(Items)
    BY <1>7 DEF DealShare, At, LocalsOK, TypeOK
  <2>2. PICK s \in Seq(Tasks) : queue' = [queue EXCEPT ![idx] = queue[idx] \o s]
    <3>1. SubSeq(batch, 1, Smaller(amounts[idx], Len(batch))) \in Seq(Tasks)
      BY <2>1, ShareSeq
    <3>2. QED BY <1>7, <3>1 DEF DealShare
  <2>3. queue'[idx] \in Seq(Items) /\ queue' = [queue EXCEPT ![idx] = queue'[idx]]
    BY <2>1, <2>2, DealtSeq DEF TypeOK
  <2>4. Len(queue'[idx]) \in Nat
    BY <2>3, LenProperties
  <2>5. QED BY <1>7, <2>3, <2>4 DEF DealShare, TypeOK, ExecType
<1>8. ASSUME NEW e \in Executors, Repost(e) PROVE ExecType'
  <2>1. idx \in Executors /\ queue[idx] \in Seq(Items)
    BY <1>8 DEF Repost, At, LocalsOK, TypeOK
  <2>2. Append(queue[idx], SchedulingTask) \in Seq(Items)
    BY <2>1, RepostedSeq
  <2>3. QED BY <1>8, <2>2 DEF Repost, TypeOK, ExecType
<1>9. QED
  <2>1. CASE UNCHANGED vars \/ ExecuteFlow \/ SpawnThreads
    BY <1>1, <2>1 DEF vars, ExecuteFlow, SpawnThreads
  <2>2. ASSUME NEW e \in Executors, Quiet(e) PROVE ExecType'
    BY <1>1, <1>2, <1>3, <1>4, <2>2 DEF Quiet, AddTasks, Join, Destroyed, SyncEpoch, SyncWait,
       LeaveCycle, BeginStealing, ContinueStealing, OwnQueuePred, StealBlocked, StealNothing,
       Announce, Parked, Bye
  <2>3. ASSUME NEW e \in Executors, Inner(e) PROVE ExecType'
    BY <1>1, <1>5, <1>7, <1>8, <2>3 DEF Inner, TakeGlobal, SchedulePred, CollectBusy, ScanBusy,
       AwaitStateChange, DecideExhausted, CountEnqueued, NextBatch, TickEpoch, FlipEpoch
  <2>4. ASSUME NEW e \in Executors, Other(e) PROVE ExecType'
    BY <1>1, <1>6, <2>4 DEF Other, EndTask, TryScheduling, Unlock
  <2>5. QED BY <2>1, <2>2, <2>3, <2>4, Steps

\* The threads' private variables keep their type.
LEMMA ThreadTypeStep ==
  ASSUME TypeOK, Control, [Next]_vars
  PROVE  ThreadType'
<1> USE DEF Control
<1>1. CASE UNCHANGED <<threadVars, schedTargets>>
  BY <1>1 DEF threadVars, TypeOK, ThreadType
<1>2. CASE ExecuteFlow
  BY <1>2 DEF ExecuteFlow, TypeOK, ThreadType, Origins, schedVars
<1>3. ASSUME NEW e \in Executors, Enter(e) PROVE ThreadType'
  BY <1>3 DEF Enter, TypeOK, ThreadType, schedVars
<1>4. ASSUME NEW e \in Executors, BeginStealing(e) \/ ContinueStealing(e) PROVE ThreadType'
  <2>1. PICK c \in Seq(Executors) : OwnQueuePred(e, c)
    BY <1>4, NeighbourSequence DEF BeginStealing, ContinueStealing, TypeOK
  <2>2. QED BY <2>1, EmptySeq DEF OwnQueuePred, TypeOK, ThreadType, schedVars
<1>5. ASSUME NEW e \in Executors, NEW s \in Seq(Executors), SetTargets(e, s)
      PROVE  targets' \in [Executors -> Seq(Executors)] /\ schedTargets' \in Seq(Executors)
  BY <1>5 DEF SetTargets, TypeOK
<1>6. ASSUME NEW e \in Executors, StealBlocked(e) \/ StealNothing(e) PROVE ThreadType'
  <2>1. CurrentTargets(e) \in Seq(Executors) /\ CurrentTargets(e) # <<>>
    BY <1>6, TargetTypes DEF StealBlocked, StealNothing, At
  <2>2. PICK s \in Seq(Executors) : SetTargets(e, s)
    BY <1>6, <2>1, CutTypes DEF StealBlocked, StealNothing
  <2>3. QED BY <1>5, <1>6, <2>2 DEF StealBlocked, StealNothing, TypeOK, ThreadType
<1>7. ASSUME NEW e \in Executors, StealTask(e) PROVE ThreadType'
  <2>1. CurrentTargets(e) \in Seq(Executors) /\ CurrentTargets(e) # <<>>
    BY <1>7, TargetTypes DEF StealTask, At
  <2>2. PICK s \in Seq(Executors) : SetTargets(e, s)
    BY <1>7, <2>1, CutTypes DEF StealTask
  <2>3. hand' \in [Executors -> Items \cup {NoTask}]
    <3>1. PICK v : Taken(e, v)
      BY <1>7, StealTakes
    <3>2. QED BY <3>1 DEF Taken, LeftOf, TypeOK
  <2>4. origin' \in [Executors -> Origins] /\ stealing' = stealing
    BY <1>7 DEF StealTask, TypeOK, Origins
  <2>5. QED BY <1>5, <2>2, <2>3, <2>4 DEF TypeOK, ThreadType
<1>8. ASSUME NEW e \in Executors, Pop(e) PROVE ThreadType'
  <2>1. hand' \in [Executors -> Items \cup {NoTask}]
    BY <1>8, PopTakes DEF Taken, LeftOf, TypeOK
  <2>2. QED BY <1>8, <2>1 DEF Pop, TypeOK, ThreadType, Origins, schedVars
<1>9. ASSUME NEW e \in Executors, EndTask(e) PROVE ThreadType'
  <2>1. CurrentTargets(e) \in Seq(Executors)
    BY TargetTypes
  <2>2. WithoutLast(CurrentTargets(e)) \in Seq(Executors)
    BY <2>1, CutTypes
  <2>3. targets' \in [Executors -> Seq(Executors)] /\ schedTargets' \in Seq(Executors)
    <3>1. UNCHANGED <<targets, schedTargets>> \/ SetTargets(e, WithoutLast(CurrentTargets(e)))
      BY <1>9 DEF EndTask
    <3>2. QED BY <1>5, <2>2, <3>1 DEF TypeOK
  <2>4. origin' \in [Executors -> Origins]
    BY <1>9 DEF EndTask, AfterTask, Return, TypeOK, Origins
  <2>5. hand' \in [Executors -> Items \cup {NoTask}] /\ stealing' = stealing
    BY <1>9 DEF EndTask, TypeOK
  <2>6. QED BY <2>3, <2>4, <2>5 DEF TypeOK, ThreadType
<1>10. ASSUME NEW e \in Executors, TryScheduling(e) PROVE ThreadType'
  <2>1. origin' \in [Executors -> Origins]
    BY <1>10 DEF TryScheduling, Return, TypeOK, Origins
  <2>2. QED BY <1>10, <2>1 DEF TryScheduling, TypeOK, ThreadType, schedVars
<1>11. ASSUME NEW e \in Executors, TakeGlobal(e) PROVE ThreadType'
  <2>1. schedTargets' = schedTargets \/ schedTargets' = get_stealing_target_sequence(e)
    BY <1>11 DEF TakeGlobal
  <2>2. schedTargets' \in Seq(Executors)
    BY <2>1, NeighbourSequence DEF TypeOK
  <2>3. QED BY <1>11, <2>2 DEF TakeGlobal, TypeOK, ThreadType, threadVars
<1>12. ASSUME NEW e \in Executors, Unlock(e) PROVE ThreadType'
  <2>1. origin' \in [Executors -> Origins]
    BY <1>12 DEF Unlock, Return, TypeOK, Origins
  <2>2. QED BY <1>12, <2>1, EmptySeq DEF Unlock, TypeOK, ThreadType
<1>13. QED
  <2>1. CASE UNCHANGED vars \/ SpawnThreads
    BY <1>1, <2>1 DEF vars, SpawnThreads, schedVars
  <2>2. ASSUME NEW e \in Executors, Quiet(e) PROVE ThreadType'
    BY <1>1, <1>3, <1>4, <1>6, <2>2 DEF Quiet, AddTasks, Shutdown, Join, Destroyed, SyncEpoch,
       SyncDecide, SyncWait, LeaveCycle, Halt, Announce, Parked, Stop, Bye, schedVars
  <2>3. ASSUME NEW e \in Executors, Inner(e) PROVE ThreadType'
    BY <1>1, <1>11, <2>3 DEF Inner, SchedulePred, CollectBusy, ScanBusy, AwaitStateChange,
       DecideExhausted, CountEnqueued, DealShare, WakeUp, NextBatch, Repost, TickEpoch,
       FlipEpoch, schedVars
  <2>4. ASSUME NEW e \in Executors, Other(e) PROVE ThreadType'
    BY <1>7, <1>8, <1>9, <1>10, <1>12, <2>4 DEF Other
  <2>5. QED BY <1>2, <2>1, <2>2, <2>3, <2>4, Steps

\* The buffers, shares and indices of schedule() keep their type.
LEMMA SchedTypeStep ==
  ASSUME TypeOK, Control, [Next]_vars
  PROVE  SchedType'
<1> USE DEF Control
<1>1. CASE UNCHANGED <<schedVars, global>>
  BY <1>1 DEF schedVars, TypeOK, SchedType
<1>2. /\ \A s, r \in Seq(Tasks) : s \o r \in Seq(Tasks) /\ Len(s) \in Nat
      /\ <<>> \in Seq(Tasks) /\ 0 \in 0 .. N /\ 0 \in Nat
  BY ConcatProperties, LenProperties, EmptySeq, NAssumption
<1>3. CASE AddTasks
  <2>1. Flows[flow] \in Seq(Tasks)
    <3>1. flow \in 1 .. Len(Flows)
      BY <1>3, GraphAssumption, LenProperties DEF AddTasks, At, ClientOK, TypeOK
    <3>2. QED BY <3>1, GraphAssumption, ElementOfSeq
  <2>2. global' \in Seq(Tasks)
    BY <1>2, <1>3, <2>1 DEF AddTasks, TypeOK
  <2>3. QED BY <1>3, <2>2 DEF AddTasks, TypeOK, SchedType, schedVars
<1>4. ASSUME NEW e \in Executors, EndTask(e) PROVE SchedType'
  <2>1. Children[hand[e]] \in Seq(Tasks)
    BY <1>4, GraphAssumption DEF EndTask, At, LocalsOK
  <2>2. global' \in Seq(Tasks)
    BY <1>2, <1>4, <2>1 DEF EndTask, TypeOK
  <2>3. QED BY <1>4, <2>2 DEF EndTask, TypeOK, SchedType
<1>5. ASSUME NEW e \in Executors,
             TakeGlobal(e) \/ DecideExhausted(e) \/ AwaitStateChange(e)
      PROVE  SchedType'
  <2>1. /\ batch' \in {batch, global} /\ global' \in {global, <<>>} /\ idx' \in {idx, 0}
        /\ ended' \in {ended, global = <<>>} /\ UNCHANGED <<amounts, total, visits, busy>>
    BY <1>5 DEF TakeGlobal, DecideExhausted, AwaitStateChange
  <2>2. batch' \in Seq(Tasks) /\ global' \in Seq(Tasks) /\ idx' \in 0 .. N
    BY <1>2, <2>1 DEF TypeOK
  <2>3. ended' \in BOOLEAN
    BY <2>1 DEF TypeOK
  <2>4. QED BY <2>1, <2>2, <2>3 DEF TypeOK, SchedType
<1>6. ASSUME NEW e \in Executors, SchedulePred(e) PROVE SchedType'
  <2>1. /\ idx' \in {idx, 0} /\ busy' \in {busy, {}}
        /\ UNCHANGED <<batch, global, amounts, total, visits, ended>>
    BY <1>6 DEF SchedulePred
  <2>2. idx' \in 0 .. N /\ busy' \subseteq Executors
    BY <1>2, <2>1 DEF TypeOK
  <2>3. QED BY <2>1, <2>2 DEF TypeOK, SchedType
<1>7. ASSUME NEW e \in Executors, CollectBusy(e) PROVE SchedType'
  <2>1. CASE idx < N
    <3>1. idx \in Executors /\ idx + 1 \in 0 .. N
      BY <2>1, NAssumption DEF TypeOK, Executors
    <3>2. idx' = idx + 1 /\ (busy' = busy \cup {idx} \/ busy' = busy)
      BY <1>7, <2>1, NAssumption DEF CollectBusy, TypeOK
    <3>3. busy' \subseteq Executors
      BY <3>1, <3>2 DEF TypeOK
    <3>4. QED BY <1>7, <3>1, <3>2, <3>3 DEF CollectBusy, TypeOK, SchedType
  <2>2. CASE idx = N
    <3>1. idx' = 0 /\ busy' = busy /\ UNCHANGED <<batch, global, amounts, total, visits, ended>>
      BY <1>7, <2>2, NAssumption DEF CollectBusy
    <3>2. QED BY <1>2, <3>1 DEF TypeOK, SchedType
  <2>3. QED BY <1>7, <2>1, <2>2 DEF CollectBusy
<1>8. ASSUME NEW e \in Executors, ScanBusy(e) PROVE SchedType'
  <2>1. \/ UNCHANGED <<busy, idx>>
        \/ \E i \in busy : idx' = i + 1 /\ (busy' = busy \/ busy' = busy \ {i})
    BY <1>8 DEF ScanBusy
  <2>2. \A i \in busy : i + 1 \in 0 .. N
    BY NAssumption DEF TypeOK, Executors
  <2>3. busy' \subseteq Executors /\ idx' \in 0 .. N
    BY <2>1, <2>2 DEF TypeOK
  <2>4. QED BY <1>8, <2>3 DEF ScanBusy, TypeOK, SchedType
<1>9. ASSUME NEW e \in Executors, CountEnqueued(e) PROVE SchedType'
  <2>1. CASE visits < N - 1
    <3>1. visits \in Executors /\ visits + 1 \in 0 .. N /\ weak[visits] \in Nat
      BY <2>1, NAssumption, SMTT(20) DEF TypeOK, Executors
    <3>2. /\ amounts' = [amounts EXCEPT ![visits] = weak[visits]]
          /\ total' = total + weak[visits] /\ visits' = visits + 1 /\ idx' = idx
      BY <1>9, <2>1, <3>1, NAssumption DEF CountEnqueued
    <3>3. amounts' \in [Executors -> Nat] /\ total' \in Nat
      <4>1. amounts' \in [Executors -> Nat]
        BY <3>1, <3>2 DEF TypeOK
      <4>2. total \in Nat
        BY DEF TypeOK
      <4>3. QED BY <3>1, <3>2, <4>1, <4>2
    <3>4. QED BY <1>9, <3>1, <3>2, <3>3 DEF CountEnqueued, TypeOK, SchedType
  <2>2. CASE visits = N - 1
    <3> DEFINE counts == [amounts EXCEPT ![visits] = weak[visits]]
               sum    == total + weak[visits]
               need   == CeilDiv(sum + Len(batch), N)
    <3>1. visits \in Executors /\ weak[visits] \in Nat /\ Len(batch) \in Nat
      BY <2>2, NAssumption, LenProperties DEF TypeOK, Executors
    <3>2. counts \in [Executors -> Nat] /\ need \in Nat
      <4>1. counts \in [Executors -> Nat]
        BY <3>1 DEF TypeOK
      <4>2. total \in Nat
        BY DEF TypeOK
      <4>3. sum + Len(batch) \in Nat
        BY <3>1, <4>2
      <4>4. QED BY <4>1, <4>3, SharesNat
    <3>3. /\ amounts' = [i \in Executors |-> relu(need - counts[i] + IF counts[i] = 0 THEN 1 ELSE 0)]
          /\ total' = 0 /\ visits' = 0 /\ idx' = e
      BY <1>9, <2>2, NAssumption DEF CountEnqueued
    <3> HIDE DEF need, counts
    <3>4. \A i \in Executors : relu(need - counts[i] + IF counts[i] = 0 THEN 1 ELSE 0) \in Nat
      BY <3>2, SharesNat
    <3>5. amounts' \in [Executors -> Nat]
      BY <3>3, <3>4
    <3>6. e \in 0 .. N
      BY NAssumption DEF Executors
    <3>7. UNCHANGED <<batch, global, busy, ended>>
      BY <1>9 DEF CountEnqueued
    <3>8. QED BY <1>2, <3>3, <3>5, <3>6, <3>7 DEF TypeOK, SchedType
  <2>3. QED BY <1>9, <2>1, <2>2 DEF CountEnqueued
<1>10. ASSUME NEW e \in Executors, DealShare(e) PROVE SchedType'
  <2>1. idx \in Executors /\ visits + 1 \in 0 .. N
    BY <1>10, NAssumption DEF DealShare, At, LocalsOK, TypeOK
  <2>2. batch' \in Seq(Tasks)
    BY <1>10, <2>1, ShareSeq DEF DealShare
  <2>3. QED BY <1>10, <2>1, <2>2 DEF DealShare, TypeOK, SchedType
<1>11. ASSUME NEW e \in Executors, WakeUp(e) PROVE SchedType'
  <2>1. idx \in Executors
    BY <1>11 DEF WakeUp, At, LocalsOK
  <2>2. idx' \in 0 .. N
    BY <1>11, <2>1, NAssumption DEF WakeUp, Executors
  <2>3. QED BY <1>11, <2>2 DEF WakeUp, TypeOK, SchedType
<1>12. ASSUME NEW e \in Executors, NextBatch(e) PROVE SchedType'
  <2>1. CeilDiv(Len(global), N) \in Nat
    BY <1>2, SharesNat, LenProperties DEF TypeOK
  <2>2. QED BY <1>12, <2>1, EmptySeq, NAssumption DEF NextBatch, TypeOK, SchedType
<1>13. ASSUME NEW e \in Executors, Unlock(e) PROVE SchedType'
  <2>1. amounts' \in [Executors -> Nat]
    BY <1>13 DEF Unlock, ZeroPerExecutor
  <2>2. QED BY <1>2, <1>13, <2>1 DEF Unlock, TypeOK, SchedType
<1>14. QED
  <2>1. CASE UNCHANGED vars \/ ExecuteFlow \/ SpawnThreads
    BY <1>1, <2>1 DEF vars, ExecuteFlow, SpawnThreads
  <2>2. ASSUME NEW e \in Executors, Quiet(e) PROVE SchedType'
    <3>1. CASE StealBlocked(e) \/ StealNothing(e)
      BY <3>1 DEF StealBlocked, StealNothing, TypeOK, SchedType
    <3>2. QED
      BY <1>1, <1>3, <2>2, <3>1 DEF Quiet, Shutdown, Join, Destroyed, SyncEpoch, SyncDecide,
         SyncWait, Enter, LeaveCycle, BeginStealing, ContinueStealing, OwnQueuePred,
         Halt, Announce, Parked, Stop, Bye
  <2>3. ASSUME NEW e \in Executors, Inner(e) PROVE SchedType'
    BY <1>1, <1>5, <1>6, <1>7, <1>8, <1>9, <1>10, <1>11, <1>12, <2>3
       DEF Inner, Repost, TickEpoch, FlipEpoch
  <2>4. ASSUME NEW e \in Executors, Other(e) PROVE SchedType'
    <3>1. CASE StealTask(e)
      BY <3>1 DEF StealTask, TypeOK, SchedType
    <3>2. QED BY <1>1, <1>4, <1>13, <2>4, <3>1 DEF Other, Pop, TryScheduling
  <2>5. QED BY <2>1, <2>2, <2>3, <2>4, Steps

\* Lock, epoch, counters and client variables keep their type.
LEMMA PoolTypeStep ==
  ASSUME TypeOK, Control, [Next]_vars
  PROVE  PoolType'
<1> USE DEF Control, history
<1>1. CASE UNCHANGED <<clientVars, mx, epoch, counter, old, history>>
  BY <1>1 DEF clientVars, TypeOK, PoolType
<1>2. CASE ExecuteFlow
  BY <1>2 DEF ExecuteFlow, TypeOK, PoolType, schedVars, clientVars
<1>3. CASE SyncEpoch
  BY <1>3 DEF SyncEpoch, TypeOK, PoolType, schedVars
<1>4. CASE SyncDecide
  BY <1>4 DEF SyncDecide, TypeOK, PoolType, schedVars
<1>5. CASE Join
  <2>1. joining + 1 \in 1 .. N
    BY <1>5, NAssumption DEF Join, At, ClientOK, TypeOK
  <2>2. QED BY <1>5, <2>1 DEF Join, TypeOK, PoolType, schedVars
<1>6. ASSUME NEW e \in Executors, Announce(e) PROVE PoolType'
  BY <1>6 DEF Announce, TypeOK, PoolType, schedVars, clientVars
<1>7. ASSUME NEW e \in Executors, Bye(e) PROVE PoolType'
  <2>1. flow' \in 1 .. Len(Flows) + 1
    <3>1. CASE e = 0
      <4>1. flow <= Len(Flows) /\ flow' = flow + 1
        BY <1>7, <3>1 DEF Bye, At, ClientOK
      <4>2. QED BY <4>1, GraphAssumption, LenProperties DEF TypeOK
    <3>2. CASE e # 0
      BY <1>7, <3>2 DEF Bye, TypeOK
    <3>3. QED BY <3>1, <3>2
  <2>2. QED BY <1>7, <2>1, SMTT(20) DEF Bye, TypeOK, PoolType, schedVars
<1>8. ASSUME NEW e \in Executors, EndTask(e) PROVE PoolType'
  <2>1. done' \subseteq Tasks /\ failed' \subseteq done'
    BY <1>8 DEF EndTask, At, LocalsOK, TypeOK
  <2>2. QED BY <1>8, <2>1 DEF EndTask, TypeOK, PoolType, clientVars
<1>9. ASSUME NEW e \in Executors, TryScheduling(e) \/ Unlock(e) PROVE PoolType'
  <2>1. /\ mx' \in {mx, e, -1} /\ old' \in {old, 0}
        /\ UNCHANGED <<clientVars, epoch, counter, history>>
    BY <1>9 DEF TryScheduling, Unlock, schedVars
  <2>2. mx' \in Executors \cup {-1}
    BY <2>1 DEF TypeOK
  <2>3. old' \in Nat
    BY <2>1 DEF TypeOK
  <2>4. QED BY <2>1, <2>2, <2>3 DEF TypeOK, PoolType, clientVars
<1>10. ASSUME NEW e \in Executors, CollectBusy(e) PROVE PoolType'
  <2>1. /\ counter' \in {counter, 0} /\ old' \in {old, 0}
        /\ UNCHANGED <<clientVars, mx, epoch, history>>
    BY <1>10 DEF CollectBusy
  <2>2. counter' \in Nat /\ old' \in Nat
    BY <2>1, SMTT(20) DEF TypeOK
  <2>3. QED BY <2>1, <2>2 DEF TypeOK, PoolType, clientVars
<1>11. ASSUME NEW e \in Executors, ScanBusy(e) PROVE PoolType'
  <2>1. old <= counter
    BY <1>11 DEF ScanBusy, At, LocalsOK
  <2>2. \/ old' = old /\ counter' = counter
        \/ old' = counter - old /\ counter' = counter - old
    BY <1>11 DEF ScanBusy, Accounted
  <2>3. old \in Nat /\ counter \in Nat
    BY DEF TypeOK
  <2>4. old' \in Nat /\ counter' \in Nat
    BY <2>1, <2>2, <2>3
  <2>5. QED BY <1>11, <2>4 DEF ScanBusy, TypeOK, PoolType, clientVars
<1>12. ASSUME NEW e \in Executors, TickEpoch(e) \/ FlipEpoch(e) PROVE PoolType'
  <2>1. epoch \in Int
    BY DEF TypeOK
  <2>2. epoch' \in Int /\ UNCHANGED <<clientVars, mx, counter, old, history>>
    BY <1>12, <2>1 DEF TickEpoch, FlipEpoch, schedVars
  <2>3. QED BY <2>2 DEF TypeOK, PoolType, clientVars
<1>13. CASE Shutdown
  <2>1. joining \in Executors
    BY <1>13, NAssumption DEF Shutdown, TypeOK, Executors
  <2>2. early' \subseteq Executors
    BY <1>13, <2>1 DEF Shutdown, TypeOK
  <2>3. QED BY <1>13, <2>2 DEF Shutdown, TypeOK, PoolType, schedVars, clientVars
<1>14. QED
  <2>1. CASE UNCHANGED vars \/ SpawnThreads
    BY <1>1, <2>1 DEF vars, SpawnThreads, schedVars
  <2>2. ASSUME NEW e \in Executors, Quiet(e) PROVE PoolType'
    BY <1>1, <1>3, <1>4, <1>5, <1>6, <1>7, <1>13, <2>2 DEF Quiet, AddTasks, Destroyed,
       SyncWait, Enter, LeaveCycle, BeginStealing, ContinueStealing, OwnQueuePred,
       StealBlocked, StealNothing, Halt, Parked, Stop, schedVars
  <2>3. ASSUME NEW e \in Executors, Inner(e) PROVE PoolType'
    BY <1>1, <1>10, <1>11, <1>12, <2>3 DEF Inner, TakeGlobal, SchedulePred, AwaitStateChange,
       DecideExhausted, CountEnqueued, DealShare, WakeUp, NextBatch, Repost, schedVars
  <2>4. ASSUME NEW e \in Executors, Other(e) PROVE PoolType'
    BY <1>1, <1>8, <1>9, <2>4 DEF Other, Pop, StealTask, schedVars
  <2>5. QED BY <1>2, <2>1, <2>2, <2>3, <2>4, Steps

\* A scheduler steals no scheduling task (TokenOK), so scheduling_mx keeps its one owner.
LEMMA LockStep ==
  ASSUME TypeOK, LockOK, OriginOK, ThreadsOK, TargetsOK, TokenOK, [Next]_vars
  PROVE  LockOK'
<1>1. CASE UNCHANGED vars
  BY <1>1 DEF LockOK, vars
<1>2. CASE ExecuteFlow
  <2>1. PICK l \in {"try", "spawn", "enter"} : pc' = [pc EXCEPT ![0] = l]
    BY <1>2 DEF ExecuteFlow, Goto
  <2>2. QED BY <1>2, <2>1, ZeroInExecutors DEF ExecuteFlow, LockOK, TypeOK, At, SchedLabels
<1>3. CASE SpawnThreads
  BY <1>3, ZeroInExecutors DEF SpawnThreads, LockOK, ThreadsOK, TypeOK, At, SchedLabels
<1>4. ASSUME NEW e \in Executors, Quiet(e) PROVE LockOK'
  <2>1. PICK l : QuietMove(e, l)
    BY <1>4, QuietSteps
  <2>2. QED BY <2>1 DEF QuietMove, LockOK, TypeOK, SchedLabels
<1>5. ASSUME NEW e \in Executors, Inner(e) PROVE LockOK'
  <2>1. PICK l : InnerMove(e, l)
    BY <1>5, InnerSteps
  <2>2. QED BY <2>1 DEF InnerMove, LockOK, TypeOK, SchedLabels
<1>6. ASSUME NEW e \in Executors, Pop(e) PROVE LockOK'
  BY <1>6 DEF Pop, Goto, At, Execute, LockOK, TypeOK, SchedLabels
<1>7. ASSUME NEW e \in Executors, StealTask(e) PROVE LockOK'
  <2>1. CASE mx = e
    <3>1. Duty(e)
      BY <1>7, <2>1 DEF Duty, StealTask, At, LastLabels
    <3>2. hand'[e] # SchedulingTask
      BY <1>7, <3>1, StolenItem DEF TokenOK, Clear
    <3>3. QED BY <1>7, <3>2 DEF StealTask, Goto, At, Execute, LockOK, TypeOK, SchedLabels
  <2>2. CASE mx # e
    BY <1>7, <2>2 DEF StealTask, Goto, At, Execute, LockOK, TypeOK, SchedLabels
  <2>3. QED BY <2>1, <2>2
<1>8. ASSUME NEW e \in Executors, EndTask(e) PROVE LockOK'
  <2>1. PICK l : AfterTaskMove(e, l)
    BY <1>8, EndTaskStep
  <2>2. QED BY <2>1 DEF AfterTaskMove, LockOK, TypeOK, SchedLabels
<1>9. ASSUME NEW e \in Executors, TryScheduling(e) PROVE LockOK'
  <2>1. CASE mx = -1
    <3>1. \A o \in Executors : pc[o] \notin SchedLabels
      BY <2>1, ZeroInExecutors DEF LockOK
    <3>2. mx' = e /\ pc' = [pc EXCEPT ![e] = "take"]
      BY <1>9, <2>1 DEF TryScheduling, Goto
    <3>3. QED BY <3>1, <3>2 DEF LockOK, TypeOK, SchedLabels
  <2>2. CASE mx # -1
    BY <1>9, <2>2, ResumeLabel DEF TryScheduling, Return, Goto, At, LockOK, TypeOK, SchedLabels
  <2>3. QED BY <2>1, <2>2
<1>10. ASSUME NEW e \in Executors, Unlock(e) PROVE LockOK'
  BY <1>10, ResumeLabel, ZeroInExecutors DEF Unlock, Return, Goto, At, LockOK, TypeOK, SchedLabels
<1>11. QED
  BY <1>1, <1>2, <1>3, <1>4, <1>5, <1>6, <1>7, <1>8, <1>9, <1>10, Steps DEF Other

\* A task is taken outside schedule() with the origin to return to.
LEMMA OriginStep ==
  ASSUME TypeOK, LockOK, OriginOK, ThreadsOK, TokenOK, [Next]_vars
  PROVE  OriginOK'
<1>1. CASE UNCHANGED vars
  BY <1>1 DEF OriginOK, vars, threadVars
<1>2. CASE ExecuteFlow
  <2>1. CASE epoch < 0
    BY <1>2, <2>1, ZeroInExecutors DEF ExecuteFlow, Goto, OriginOK, TypeOK, At, TaskLabels,
       SchedLabels
  <2>2. CASE ~(epoch < 0)
    <3>1. PICK l \in {"spawn", "enter"} : pc' = [pc EXCEPT ![0] = l]
      BY <1>2, <2>2 DEF ExecuteFlow, Goto
    <3>2. QED BY <1>2, <2>2, <3>1, ZeroInExecutors
              DEF ExecuteFlow, OriginOK, TypeOK, At, TaskLabels, SchedLabels
  <2>3. QED BY <2>1, <2>2
<1>3. CASE SpawnThreads
  BY <1>3, ZeroInExecutors
     DEF SpawnThreads, OriginOK, ThreadsOK, TypeOK, At, TaskLabels, SchedLabels, threadVars
<1>4. ASSUME NEW e \in Executors, Quiet(e) PROVE OriginOK'
  <2>1. PICK l : QuietMove(e, l)
    BY <1>4, QuietSteps
  <2>2. QED BY <2>1 DEF QuietMove, OriginOK, TypeOK, TaskLabels, SchedLabels
<1>5. ASSUME NEW e \in Executors, Inner(e) PROVE OriginOK'
  <2>1. PICK l : InnerMove(e, l)
    BY <1>5, InnerSteps
  <2>2. QED BY <2>1 DEF InnerMove, OriginOK, LockOK, TypeOK, TaskLabels, SchedLabels
<1>6. ASSUME NEW e \in Executors, Pop(e) PROVE OriginOK'
  BY <1>6 DEF Pop, Goto, At, Execute, OriginOK, TypeOK, TaskLabels, SchedLabels
<1>7. ASSUME NEW e \in Executors, StealTask(e) PROVE OriginOK'
  BY <1>7 DEF StealTask, Scheduling, Goto, At, Execute, OriginOK, TypeOK, TaskLabels, SchedLabels
<1>8. ASSUME NEW e \in Executors, EndTask(e) PROVE OriginOK'
  <2>1. PICK l : AfterTaskMove(e, l)
    BY <1>8, EndTaskStep
  <2>2. QED BY <2>1 DEF AfterTaskMove, OriginOK, LockOK, TypeOK, TaskLabels, SchedLabels
<1>9. ASSUME NEW e \in Executors, TryScheduling(e) PROVE OriginOK'
  <2>1. CASE mx = -1
    BY <1>9, <2>1, ZeroInExecutors
       DEF TryScheduling, Goto, At, OriginOK, TypeOK, TaskLabels, SchedLabels
  <2>2. CASE mx # -1
    BY <1>9, <2>2, ResumeLabel
       DEF TryScheduling, Return, Goto, At, OriginOK, TypeOK, TaskLabels, SchedLabels
  <2>3. QED BY <2>1, <2>2
<1>10. ASSUME NEW e \in Executors, Unlock(e) PROVE OriginOK'
  BY <1>10, ResumeLabel, ZeroInExecutors
     DEF Unlock, Return, Goto, At, OriginOK, LockOK, TypeOK, TaskLabels, SchedLabels
<1>11. QED
  BY <1>1, <1>2, <1>3, <1>4, <1>5, <1>6, <1>7, <1>8, <1>9, <1>10, Steps DEF Other

\* Thieves leave the last task to an executor in its cycle, so a queue once seen to hold
\* a task still holds one.
LEMMA CycleStep ==
  ASSUME TypeOK, LockOK, OriginOK, CycleOK, ClientOK, TargetsOK, LocalsOK, [Next]_vars
  PROVE  CycleOK'
<1>1. CASE UNCHANGED vars
  BY <1>1 DEF CycleOK, InCycle, vars, execVars, threadVars
<1>2. CASE ExecuteFlow
  <2>1. ~InCycle(0)'
    <3>1. CASE epoch < 0
      <4>1. origin'[0] \in {"start", "restart"}
        BY <1>2, <3>1, ZeroInExecutors DEF ExecuteFlow, TypeOK
      <4>2. QED BY <4>1 DEF InCycle
    <3>2. CASE ~(epoch < 0)
      BY <1>2, <3>2, ZeroInExecutors DEF ExecuteFlow, Goto, TypeOK, InCycle, OutLabels
    <3>3. QED BY <3>1, <3>2
  <2>2. \A o \in Executors \ {0} : pc'[o] = pc[o] /\ origin'[o] = origin[o]
    BY <1>2, ZeroInExecutors DEF ExecuteFlow, Goto, TypeOK
  <2>3. QED BY <1>2, <2>1, <2>2 DEF ExecuteFlow, CycleOK, InCycle, execVars
<1>3. CASE SpawnThreads
  BY <1>3 DEF SpawnThreads, CycleOK, InCycle, OutLabels
<1>4. ASSUME NEW e \in Executors, Quiet(e) PROVE CycleOK'
  <2>1. PICK l : QuietMove(e, l)
    BY <1>4, QuietSteps
  <2>2. QuietEffect(e)
    BY <1>4, QuietEffects
  <2>3. ASSUME NEW o \in Executors \ {e}, InCycle(o)'
        PROVE  state'[o] \notin {"init", "shutdown"} /\ (~stealing'[o] => queue'[o] # <<>>)
    <3>1. InCycle(o)
      BY <2>1, <2>3 DEF QuietMove, InCycle, TypeOK
    <3>2. QED BY <2>1, <2>2, <3>1 DEF QuietMove, QuietEffect, CycleOK
  <2>4. ASSUME InCycle(e)'
        PROVE  state'[e] \notin {"init", "shutdown"} /\ (~stealing'[e] => queue'[e] # <<>>)
    <3>1. l \notin OutLabels
      BY <2>1, <2>4 DEF QuietMove, InCycle, TypeOK
    <3>2. pc[e] = "enter" \/ InCycle(e)
      BY <2>1, <2>4, <3>1 DEF QuietMove, InCycle
    <3>3. pc[e] # "stop"
      BY <1>4, <2>1, <3>1 DEF Quiet, QuietMove, OutLabels, Goto, At, Stop, TypeOK, AddTasks,
         Shutdown,
         Join, Destroyed, SyncEpoch, SyncDecide, SyncWait, Enter, LeaveCycle, BeginStealing,
         ContinueStealing, StealBlocked, StealNothing, Halt, Announce, Parked, Bye
    <3>4. QED BY <2>1, <2>2, <3>2, <3>3 DEF QuietMove, QuietEffect, CycleOK
  <2>5. QED BY <2>3, <2>4 DEF CycleOK
<1>5. ASSUME NEW e \in Executors, Inner(e) PROVE CycleOK'
  <2>1. PICK l : InnerMove(e, l)
    BY <1>5, InnerSteps
  <2>2. InnerEffect(e)
    BY <1>5, InnerEffects
  <2>3. \A o \in Executors : InCycle(o)' => InCycle(o)
    BY <2>1 DEF InnerMove, InCycle, OutLabels, SchedLabels, TypeOK
  <2>4. QED BY <2>1, <2>2, <2>3 DEF InnerMove, InnerEffect, CycleOK
<1>6. ASSUME NEW e \in Executors, Pop(e) PROVE CycleOK'
  <2>1. Taken(e, e) /\ At(e, "loop") /\ InCycle(e)
    BY <1>6, PopTakes DEF Pop, At, InCycle, OutLabels, OriginOK, TaskLabels, SchedLabels
  <2>2. \A o \in Executors : o # e => pc'[o] = pc[o] /\ queue'[o] = queue[o]
    BY <2>1 DEF Taken, TypeOK
  <2>3. \A o \in Executors : InCycle(o)' => InCycle(o)
    BY <1>6, <2>1, <2>2 DEF Pop, InCycle, TypeOK
  <2>4. stealing' = [stealing EXCEPT ![e] = queue'[e] = <<>>]
    BY <1>6 DEF Pop
  <2>5. QED BY <2>1, <2>2, <2>3, <2>4 DEF Taken, CycleOK, TypeOK
<1>7. ASSUME NEW e \in Executors, StealTask(e) PROVE CycleOK'
  <2> DEFINE v == Head(CurrentTargets(e))
  <2>1. /\ Taken(e, v) /\ Stealable(v)
        /\ Len(queue[v]) > 1 => queue'[v] # <<>>
    BY <1>7, StealTakes
  <2> HIDE DEF v
  <2>2. \A o \in Executors : o # v => queue'[o] = queue[o]
    BY <2>1 DEF Taken, TypeOK
  <2>3. \A o \in Executors : InCycle(o)' => InCycle(o)
    <3>1. TAKE o \in Executors
    <3>2. CASE o = e
      BY <1>7, <3>2 DEF StealTask, At, Scheduling, InCycle, OriginOK, OutLabels, TypeOK
    <3>3. CASE o # e
      BY <1>7, <2>1, <3>3 DEF StealTask, Taken, Scheduling, InCycle, TypeOK
    <3>4. QED BY <3>2, <3>3
  <2>4. \A o \in Executors : InCycle(o) => state[o] \notin {"init", "shutdown"}
    BY DEF CycleOK
  <2>5. InCycle(v) => queue'[v] # <<>>
    BY <2>1, <2>4 DEF Stealable, Taken
  <2>6. UNCHANGED <<state, stealing>>
    BY <1>7 DEF StealTask
  <2>7. QED BY <2>2, <2>3, <2>4, <2>5, <2>6 DEF CycleOK
<1>8. ASSUME NEW e \in Executors, EndTask(e) PROVE CycleOK'
  <2>1. PICK l : AfterTaskMove(e, l)
    BY <1>8, EndTaskStep
  <2>2. \A o \in Executors : InCycle(o)' => InCycle(o)
    BY <2>1 DEF AfterTaskMove, InCycle, OutLabels, OriginOK, TypeOK
  <2>3. QED BY <2>1, <2>2 DEF AfterTaskMove, CycleOK
<1>9. ASSUME NEW e \in Executors, TryScheduling(e) PROVE CycleOK'
  <2>1. \A o \in Executors : InCycle(o)' => InCycle(o)
    <3>1. TAKE o \in Executors
    <3>2. CASE mx = -1
      BY <1>9, <3>2 DEF TryScheduling, Goto, At, InCycle, OutLabels, TypeOK
    <3>3. CASE mx # -1
      BY <1>9, <3>3, ResumeLabel
         DEF TryScheduling, Return, Goto, At, InCycle, OutLabels, Origins, TypeOK
    <3>4. QED BY <3>2, <3>3
  <2>2. QED BY <1>9, <2>1 DEF TryScheduling, CycleOK, execVars
<1>10. ASSUME NEW e \in Executors, Unlock(e) PROVE CycleOK'
  <2>1. \A o \in Executors : InCycle(o)' => InCycle(o)
    BY <1>10, ResumeLabel DEF Unlock, Return, Goto, At, InCycle, OutLabels, Origins, TypeOK
  <2>2. QED BY <1>10, <2>1 DEF Unlock, CycleOK, execVars
<1>11. QED
  BY <1>1, <1>2, <1>3, <1>4, <1>5, <1>6, <1>7, <1>8, <1>9, <1>10, Steps DEF Other

\* Threads start at SpawnThreads only.
LEMMA ThreadsStep ==
  ASSUME TypeOK, LockOK, OriginOK, ThreadsOK, ClientOK, TargetsOK, LocalsOK, CycleOK, [Next]_vars
  PROVE  ThreadsOK'
<1>1. CASE UNCHANGED vars
  BY <1>1 DEF ThreadsOK, vars, execVars, threadVars
<1>2. CASE ExecuteFlow
  <2>1. pc[0] = "flow" /\ origin[0] = "own"
    BY <1>2, ZeroInExecutors DEF ExecuteFlow, At, OriginOK, TaskLabels, SchedLabels
  <2>2. state[0] = "init" => \A o \in Executors \ {0} : pc[o] = "off"
    BY <2>1 DEF ThreadsOK
  <2>3. \A o \in Executors \ {0} : pc'[o] = pc[o] /\ origin'[o] = origin[o]
    BY <1>2, ZeroInExecutors DEF ExecuteFlow, Goto, TypeOK
  <2>4. pc'[0] = "spawn" \/ origin'[0] = "start" => state[0] = "init"
    BY <1>2, <2>1, ZeroInExecutors DEF ExecuteFlow, Goto, TypeOK
  <2>5. QED BY <1>2, <2>2, <2>3, <2>4 DEF ExecuteFlow, ThreadsOK, execVars
<1>3. CASE SpawnThreads
  BY <1>3, ZeroInExecutors
     DEF SpawnThreads, At, OriginOK, ThreadsOK, ClientLabels, TaskLabels, SchedLabels,
     execVars, threadVars
<1>4. ASSUME NEW e \in Executors, Quiet(e) PROVE ThreadsOK'
  <2>1. PICK l : QuietMove(e, l)
    BY <1>4, QuietSteps
  <2>2. QuietEffect(e)
    BY <1>4, QuietEffects
  <2>3. \A o \in Executors \ {0} : pc'[o] \notin ClientLabels /\ pc[o] = "off" => pc'[o] = "off"
    BY <2>1 DEF QuietMove, ThreadsOK, TypeOK
  <2>4. pc'[0] # "spawn" \/ pc[0] = "spawn"
    BY <2>1, ZeroInExecutors DEF QuietMove, TypeOK
  <2>5. pc[0] = "enter" => state'[0] # "init" \/ pc'[0] = "enter"
    BY <2>1, <2>2, ZeroInExecutors DEF QuietMove, QuietEffect, TypeOK
  <2>6. state'[0] = "init" => state[0] = "init"
    BY <2>2, ZeroInExecutors DEF QuietEffect
  <2>7. \A o \in Executors \ {0} : pc'[o] # "off" => pc[o] # "off"
    BY <2>1 DEF QuietMove, TypeOK
  <2>8. QED BY <2>1, <2>3, <2>4, <2>5, <2>6, <2>7 DEF QuietMove, ThreadsOK
<1>5. ASSUME NEW e \in Executors, Inner(e) PROVE ThreadsOK'
  <2>1. PICK l : InnerMove(e, l)
    BY <1>5, InnerSteps
  <2>2. InnerEffect(e)
    BY <1>5, InnerEffects
  <2>3. state'[0] = "init" => state[0] = "init"
    BY <2>2, ZeroInExecutors DEF InnerEffect
  <2>4. /\ origin' = origin
        /\ \A o \in Executors : /\ pc'[o] = "off" <=> pc[o] = "off"
                                /\ pc'[o] \in ClientLabels \cup {"enter"} => pc'[o] = pc[o]
                                /\ pc[o] = "enter" => pc'[o] = "enter"
    BY <2>1 DEF InnerMove, ClientLabels, SchedLabels, TypeOK
  <2>5. pc'[0] = "spawn" => pc[0] = "spawn"
    BY <2>4, ZeroInExecutors DEF ClientLabels
  <2>6. QED BY <2>3, <2>4, <2>5, ZeroInExecutors DEF ThreadsOK
<1>6. ASSUME NEW e \in Executors, Other(e) PROVE ThreadsOK'
  <2>1. PICK l : OtherMove(e, l)
    BY <1>6, OtherSteps
  <2>2. \A o \in Executors \ {0} :
           /\ origin'[o] \notin {"start", "restart"}
           /\ pc'[o] = "off" <=> pc[o] = "off"
           /\ pc'[o] \in ClientLabels => (pc'[o] = "spawn" /\ origin[o] = "start") \/ pc'[o] = pc[o]
    BY <2>1 DEF OtherMove, ThreadsOK, ClientLabels, TypeOK
  <2>3. pc'[0] = "spawn" \/ origin'[0] = "start" => pc[0] = "spawn" \/ origin[0] = "start"
    BY <2>1, ZeroInExecutors DEF OtherMove, TypeOK
  <2>4. state'[0] = "init" /\ pc'[0] # "enter" => state[0] = "init" /\ pc[0] # "enter"
    BY <2>1, ZeroInExecutors DEF OtherMove, TypeOK
  <2>5. QED BY <2>2, <2>3, <2>4 DEF ThreadsOK
<1>7. QED BY <1>1, <1>2, <1>3, <1>4, <1>5, <1>6, Steps

\* The client stops after the last flow, the destructor after the last thread.
LEMMA ClientStep ==
  ASSUME TypeOK, LockOK, OriginOK, ThreadsOK, ClientOK, TargetsOK, LocalsOK, CycleOK, [Next]_vars
  PROVE  ClientOK'
<1>1. CASE UNCHANGED vars
  BY <1>1 DEF ClientOK, vars, clientVars
<1>2. CASE ExecuteFlow
  BY <1>2, ZeroInExecutors DEF ExecuteFlow, Goto, At, ClientOK, TypeOK, clientVars
<1>3. CASE SpawnThreads
  BY <1>3, ZeroInExecutors DEF SpawnThreads, At, ClientOK, clientVars
<1>4. ASSUME NEW e \in Executors, Quiet(e) PROVE ClientOK'
  <2>1. CASE e = 0 /\ Join
    BY <2>1, ZeroInExecutors DEF Join, Goto, At, ClientOK, TypeOK
  <2>2. CASE Bye(e)
    <3>1. CASE e = 0
      <4>1. flow \in Int /\ Len(Flows) \in Int
        BY GraphAssumption, LenProperties DEF TypeOK
      <4>2. PICK l \in {"add", "destroy"} :
              /\ pc' = [pc EXCEPT ![0] = l]
              /\ l = "add" => flow < Len(Flows)
        BY <2>2, <3>1 DEF Bye, Goto
      <4>3. QED BY <2>2, <3>1, <4>1, <4>2, ZeroInExecutors DEF Bye, ClientOK, TypeOK
    <3>2. CASE e # 0
      BY <2>2, <3>2, ZeroInExecutors DEF Bye, Goto, ClientOK, TypeOK
    <3>3. QED BY <3>1, <3>2
  <2>3. CASE ~(e = 0 /\ Join) /\ ~Bye(e)
    <3>1. PICK l : QuietMove(e, l)
      BY <1>4, QuietSteps
    <3>2. UNCHANGED <<flow, joining>>
      BY <1>4, <2>3 DEF Quiet, AddTasks, Shutdown, Destroyed, SyncEpoch, SyncDecide, SyncWait,
         Enter, LeaveCycle, BeginStealing, ContinueStealing, OwnQueuePred, StealBlocked,
         StealNothing, Halt, Announce, Parked, Stop, clientVars
    <3>3. QED BY <3>1, <3>2, ZeroInExecutors DEF QuietMove, ClientOK, TypeOK
  <2>4. QED BY <2>1, <2>2, <2>3
<1>5. ASSUME NEW e \in Executors, Inner(e) PROVE ClientOK'
  <2>1. PICK l : InnerMove(e, l)
    BY <1>5, InnerSteps
  <2>2. QED BY <2>1, ZeroInExecutors DEF InnerMove, ClientOK, SchedLabels, TypeOK, clientVars
<1>6. ASSUME NEW e \in Executors, Other(e) PROVE ClientOK'
  <2>1. PICK l : OtherMove(e, l)
    BY <1>6, OtherSteps
  <2>2. QED BY <2>1, ZeroInExecutors DEF OtherMove, ClientOK, SchedLabels, TypeOK, clientVars
<1>7. QED BY <1>1, <1>2, <1>3, <1>4, <1>5, <1>6, Steps

\* A steal_cycle goes on only with a sequence that is not empty.
LEMMA TargetsStep ==
  ASSUME TypeOK, LockOK, OriginOK, CycleOK, ThreadsOK, TargetsOK, LocalsOK, [Next]_vars
  PROVE  TargetsOK'
<1>1. CASE UNCHANGED vars
  BY <1>1 DEF TargetsOK, CurrentTargets, Scheduling, vars, threadVars, schedVars
<1>2. CASE ExecuteFlow
  <2>1. UNCHANGED <<mx, targets, schedTargets>>
    BY <1>2 DEF ExecuteFlow, schedVars
  <2>2. \A o \in Executors : pc'[o] = "steal" => pc[o] = "steal"
    BY <1>2, ZeroInExecutors DEF ExecuteFlow, Goto, TypeOK
  <2>3. QED BY <2>1, <2>2 DEF TargetsOK, CurrentTargets, Scheduling
<1>3. CASE SpawnThreads
  BY <1>3 DEF SpawnThreads, TargetsOK
<1>4. ASSUME NEW e \in Executors, Quiet(e) PROVE TargetsOK'
  <2>1. PICK l : QuietMove(e, l)
    BY <1>4, QuietSteps
  <2>2. CASE BeginStealing(e) \/ ContinueStealing(e)
    <3>1. mx # e
      BY <2>2 DEF BeginStealing, ContinueStealing, At, LockOK, SchedLabels
    <3>2. PICK c : OwnQueuePred(e, c)
      BY <2>2 DEF BeginStealing, ContinueStealing
    <3>3. pc'[e] = "steal" => targets'[e] # <<>>
      BY <3>2 DEF OwnQueuePred, Goto, TypeOK
    <3>4. \A o \in Executors \ {e} : pc'[o] = pc[o] /\ targets'[o] = targets[o]
      BY <3>2 DEF OwnQueuePred, Goto, TypeOK
    <3>5. UNCHANGED <<mx, schedTargets>>
      BY <3>2 DEF OwnQueuePred, schedVars
    <3>6. QED BY <3>1, <3>3, <3>4, <3>5 DEF TargetsOK, CurrentTargets, Scheduling
  <2>3. CASE StealBlocked(e) \/ StealNothing(e)
    <3>1. PICK s : SetTargets(e, s)
      BY <2>3 DEF StealBlocked, StealNothing
    <3>2. \A o \in Executors \ {e} : CurrentTargets(o)' = CurrentTargets(o)
      BY <2>1, <3>1 DEF SetTargets, QuietMove, CurrentTargets, Scheduling, TypeOK
    <3>3. pc'[e] # "steal" /\ \A o \in Executors \ {e} : pc'[o] = pc[o]
      BY <2>1, <2>3 DEF QuietMove, StealBlocked, StealNothing, At, TypeOK
    <3>4. QED BY <3>2, <3>3 DEF TargetsOK
  <2>4. CASE ~(BeginStealing(e) \/ ContinueStealing(e)) /\ ~(StealBlocked(e) \/ StealNothing(e))
    <3>1. UNCHANGED <<mx, targets, schedTargets>>
      BY <1>4, <2>1, <2>4 DEF Quiet, QuietMove, AddTasks, Shutdown, Join, Destroyed, SyncEpoch,
         SyncDecide, SyncWait, Enter, LeaveCycle, Halt, Announce, Parked, Stop, Bye,
         threadVars, schedVars
    <3>2. pc'[e] # "steal"
      BY <1>4, <2>4 DEF Quiet, Goto, TypeOK, AddTasks, Shutdown, Join, Destroyed, SyncEpoch,
         SyncDecide, SyncWait, Enter, LeaveCycle, Halt, Announce, Parked, Stop, Bye
    <3>3. \A o \in Executors \ {e} : pc'[o] = pc[o]
      BY <2>1 DEF QuietMove, TypeOK
    <3>4. QED BY <3>1, <3>2, <3>3 DEF TargetsOK, CurrentTargets, Scheduling
  <2>5. QED BY <2>2, <2>3, <2>4
<1>5. ASSUME NEW e \in Executors, Inner(e) PROVE TargetsOK'
  <2>1. PICK l : InnerMove(e, l)
    BY <1>5, InnerSteps
  <2>2. mx = e
    BY <2>1 DEF InnerMove, LockOK
  <2>3. QED BY <2>1, <2>2 DEF InnerMove, TargetsOK, CurrentTargets, Scheduling, TypeOK
<1>6. ASSUME NEW e \in Executors, Other(e) PROVE TargetsOK'
  <2>1. PICK l : OtherMove(e, l)
    BY <1>6, OtherSteps
  <2>2. pc'[e] # "steal" /\ \A o \in Executors \ {e} : pc'[o] = pc[o]
    BY <2>1 DEF OtherMove, TypeOK
  <2>3. \A o \in Executors \ {e} : CurrentTargets(o)' = CurrentTargets(o)
    <3>1. TAKE o \in Executors \ {e}
    <3>2. CASE Pop(e)
      BY <3>2 DEF Pop, CurrentTargets, Scheduling, schedVars
    <3>3. CASE StealTask(e)
      <4>1. PICK s : SetTargets(e, s)
        BY <3>3 DEF StealTask
      <4>2. QED BY <3>3, <4>1 DEF StealTask, SetTargets, CurrentTargets, Scheduling, TypeOK
    <3>4. CASE EndTask(e)
      <4>1. UNCHANGED <<targets, schedTargets>> \/ \E s : SetTargets(e, s)
        BY <3>4 DEF EndTask
      <4>2. QED BY <3>4, <4>1 DEF EndTask, SetTargets, CurrentTargets, Scheduling, TypeOK
    <3>5. CASE TryScheduling(e)
      BY <3>5, ZeroInExecutors DEF TryScheduling, CurrentTargets, Scheduling, schedVars
    <3>6. CASE Unlock(e)
      BY <3>6, ZeroInExecutors DEF Unlock, At, LockOK, SchedLabels, CurrentTargets, Scheduling
    <3>7. QED BY <1>6, <3>2, <3>3, <3>4, <3>5, <3>6 DEF Other
  <2>4. QED BY <2>2, <2>3 DEF TargetsOK
<1>7. QED BY <1>1, <1>2, <1>3, <1>4, <1>5, <1>6, Steps

\* Only DecideExhausted sets epoch_ended, and Unlock clears it.
LEMMA EndedStep ==
  ASSUME TypeOK, LockOK, OriginOK, CycleOK, ThreadsOK, TargetsOK, LocalsOK, EndedOK, [Next]_vars
  PROVE  EndedOK'
<1>1. CASE UNCHANGED vars
  BY <1>1 DEF EndedOK, vars, schedVars
<1>2. CASE ExecuteFlow
  <2>1. PICK l \in {"try", "spawn", "enter"} : pc' = [pc EXCEPT ![0] = l]
    BY <1>2 DEF ExecuteFlow, Goto
  <2>2. QED BY <1>2, <2>1, ZeroInExecutors
            DEF ExecuteFlow, EndedOK, LockOK, TypeOK, At, SchedLabels, LastLabels, schedVars
<1>3. CASE SpawnThreads
  BY <1>3, ZeroInExecutors
     DEF SpawnThreads, EndedOK, LockOK, ThreadsOK, At, SchedLabels, LastLabels, schedVars
<1>4. ASSUME NEW e \in Executors, Quiet(e) PROVE EndedOK'
  <2>1. PICK l : QuietMove(e, l)
    BY <1>4, QuietSteps
  <2>2. QED BY <2>1 DEF QuietMove, EndedOK, LockOK, SchedLabels, LastLabels, TypeOK
<1>5. ASSUME NEW e \in Executors, Inner(e) PROVE EndedOK'
  <2>1. PICK l : InnerMove(e, l)
    BY <1>5, InnerSteps
  <2>2. mx = e /\ mx' = e /\ e # -1 /\ \A o \in Executors \ {e} : pc'[o] # "flip"
    BY <2>1, ZeroInExecutors DEF InnerMove, LockOK, SchedLabels, TypeOK
  <2>3. CASE DecideExhausted(e)
    BY <2>2, <2>3 DEF DecideExhausted, Goto, EndedOK, LastLabels, TypeOK
  <2>4. CASE TickEpoch(e)
    BY <2>2, <2>4 DEF TickEpoch, Goto, EndedOK, LastLabels, TypeOK, schedVars
  <2>5. CASE FlipEpoch(e)
    BY <2>2, <2>5 DEF FlipEpoch, Goto, EndedOK, LastLabels, TypeOK, schedVars
  <2>6. CASE ~DecideExhausted(e) /\ ~TickEpoch(e) /\ ~FlipEpoch(e)
    <3>1. ended' = ended /\ pc[e] \notin LastLabels /\ pc'[e] # "flip"
      BY <1>5, <2>6 DEF Inner, TakeGlobal, SchedulePred, CollectBusy, ScanBusy, AwaitStateChange,
         CountEnqueued, DealShare, WakeUp, NextBatch, Repost, At, Goto, LastLabels, TypeOK, schedVars
    <3>2. QED BY <2>2, <3>1 DEF EndedOK
  <2>7. QED BY <2>3, <2>4, <2>5, <2>6
<1>6. ASSUME NEW e \in Executors, Other(e) PROVE EndedOK'
  <2>1. PICK l : OtherMove(e, l)
    BY <1>6, OtherSteps
  <2>2. \A o \in Executors : pc'[o] = "flip" => pc[o] = "flip"
    BY <2>1 DEF OtherMove, TypeOK
  <2>3. CASE Unlock(e)
    <3>1. \A o \in Executors : pc'[o] # "flip"
      BY <2>2, <2>3 DEF Unlock, At, LockOK, SchedLabels
    <3>2. QED BY <2>3, <3>1 DEF Unlock, EndedOK
  <2>4. CASE TryScheduling(e)
    <3>1. ended' = ended
      BY <2>4 DEF TryScheduling, schedVars
    <3>2. CASE mx = -1
      BY <2>2, <2>4, <3>1, <3>2, ZeroInExecutors DEF TryScheduling, EndedOK
    <3>3. CASE mx # -1
      BY <2>1, <2>2, <2>4, <3>1, <3>3 DEF TryScheduling, OtherMove, At, LockOK, SchedLabels,
         EndedOK, TypeOK
    <3>4. QED BY <3>2, <3>3
  <2>5. CASE Pop(e) \/ StealTask(e) \/ EndTask(e)
    <3>1. ended' = ended /\ mx' = mx /\ pc[e] \notin LastLabels
      BY <2>5 DEF Pop, StealTask, EndTask, At, LastLabels, schedVars
    <3>2. QED BY <2>1, <2>2, <3>1 DEF OtherMove, EndedOK, TypeOK
  <2>6. QED BY <1>6, <2>3, <2>4, <2>5 DEF Other
<1>7. QED BY <1>1, <1>2, <1>3, <1>4, <1>5, <1>6, Steps

\* old never exceeds the counter it is subtracted from (tasking.cpp:107): between the
\* reset and the subtraction, notifications only add.
LEMMA LocalsStep ==
  ASSUME TypeOK, LockOK, OriginOK, CycleOK, ThreadsOK, ClientOK, TargetsOK, LocalsOK, [Next]_vars
  PROVE  LocalsOK'
<1>1. CASE UNCHANGED vars
  BY <1>1 DEF LocalsOK, vars, threadVars, schedVars
<1>2. CASE ExecuteFlow
  <2>1. PICK l \in {"try", "spawn", "enter"} : pc' = [pc EXCEPT ![0] = l]
    BY <1>2 DEF ExecuteFlow, Goto
  <2>2. QED BY <1>2, <2>1, ZeroInExecutors DEF ExecuteFlow, LocalsOK, TypeOK, schedVars
<1>3. CASE SpawnThreads
  BY <1>3 DEF SpawnThreads, LocalsOK
<1>4. ASSUME NEW e \in Executors, Quiet(e) PROVE LocalsOK'
  <2>1. PICK l : QuietMove(e, l)
    BY <1>4, QuietSteps
  <2>2. counter' >= counter /\ counter \in Int /\ counter' \in Int /\ old \in Int
    <3>1. counter' = counter \/ counter' = counter + 1
      BY <1>4 DEF Quiet, AddTasks, Shutdown, Join, Destroyed, SyncEpoch, SyncDecide, SyncWait,
         Enter, LeaveCycle, BeginStealing, ContinueStealing, OwnQueuePred, StealBlocked,
         StealNothing, Halt, Announce, Parked, Stop, Bye
    <3>2. QED BY <3>1, SMTT(20) DEF TypeOK
  <2>3. \A o \in Executors : pc'[o] \in {"run", "deal", "wake", "more", "repost", "scan", "await"}
                                => pc'[o] = pc[o]
    BY <2>1 DEF QuietMove, SchedLabels, TypeOK
  <2>4. QED BY <2>1, <2>2, <2>3 DEF QuietMove, LocalsOK
<1>5. ASSUME NEW e \in Executors, Inner(e) PROVE LocalsOK'
  <2>1. PICK l : InnerMove(e, l)
    BY <1>5, InnerSteps
  <2>2. \A o \in Executors \ {e} : pc'[o] = pc[o] /\ pc[o] \notin SchedLabels
    BY <2>1 DEF InnerMove, LockOK, TypeOK
  <2>3. pc'[e] # "run" /\ hand' = hand
    BY <2>1 DEF InnerMove, SchedLabels, TypeOK
  <2>4. SUFFICES /\ pc'[e] \in {"deal", "wake", "more", "repost"} => idx' \in Executors
                 /\ pc'[e] = "deal" => visits' < N
                 /\ pc'[e] \in {"scan", "await"} => old' <= counter'
    BY <2>2, <2>3 DEF LocalsOK, SchedLabels
  <2>5. CASE CollectBusy(e)
    <3>1. CASE idx < N
      <4>1. pc'[e] = "collect"
        BY <2>5, <3>1 DEF CollectBusy, At, TypeOK
      <4>2. QED BY <4>1
    <3>2. CASE idx = N
      <4>1. pc'[e] = "scan" /\ counter' = 0 /\ old' = 0
        BY <2>5, <3>2, NAssumption DEF CollectBusy, Goto, TypeOK
      <4>2. QED BY <4>1
    <3>3. QED BY <2>5, <3>1, <3>2 DEF CollectBusy
  <2>6. CASE ScanBusy(e)
    <3>1. pc'[e] \in {"scan", "decide", "await"}
      BY <2>6 DEF ScanBusy, Goto, At, TypeOK
    <3>2. old \in Int /\ counter \in Int /\ old >= 0 /\ old <= counter
      BY <2>6 DEF ScanBusy, At, LocalsOK, TypeOK
    <3>3. \/ old' = old /\ counter' = counter
          \/ old' = counter - old /\ counter' = counter - old
      BY <2>6 DEF ScanBusy, Accounted
    <3>4. QED BY <3>1, <3>2, <3>3
  <2>7. CASE AwaitStateChange(e)
    <3>1. pc'[e] \in {"scan", "decide"}
      BY <2>7 DEF AwaitStateChange, Goto, TypeOK
    <3>2. QED BY <2>7, <3>1 DEF AwaitStateChange, At, LocalsOK
  <2>8. CASE CountEnqueued(e)
    <3>1. pc'[e] \in {"count", "deal"} /\ (pc'[e] = "deal" => visits' = 0 /\ idx' = e)
      BY <2>8 DEF CountEnqueued, Goto, At, TypeOK
    <3>2. QED BY <3>1, NAssumption
  <2>9. CASE DealShare(e)
    <3>1. pc'[e] = "wake" /\ idx' = idx
      BY <2>9 DEF DealShare, Goto, TypeOK
    <3>2. QED BY <2>9, <3>1 DEF DealShare, At, LocalsOK
  <2>10. CASE WakeUp(e)
    <3>1. pc[e] = "wake" /\ idx \in Executors /\ visits \in 0 .. N
      BY <2>10 DEF WakeUp, At, LocalsOK, TypeOK
    <3>2. idx' \in Executors
      BY <2>10, <3>1, NAssumption DEF WakeUp, Executors
    <3>3. visits' = visits /\ pc'[e] \in {"more", "deal"} /\ (pc'[e] = "deal" => visits # N)
      BY <2>10 DEF WakeUp, Goto, TypeOK
    <3>4. QED BY <3>1, <3>2, <3>3, NAssumption
  <2>11. CASE NextBatch(e)
    <3>1. pc'[e] \in {"repost", "deal"} /\ visits' = 0 /\ idx' = idx
      BY <2>11 DEF NextBatch, Goto, TypeOK
    <3>2. QED BY <2>11, <3>1, NAssumption DEF NextBatch, At, LocalsOK
  <2>12. CASE \/ TakeGlobal(e) \/ SchedulePred(e) \/ DecideExhausted(e) \/ Repost(e)
              \/ TickEpoch(e) \/ FlipEpoch(e)
    <3>1. pc'[e] \notin {"deal", "wake", "more", "repost", "scan", "await"}
      <4>1. CASE TakeGlobal(e) BY <4>1 DEF TakeGlobal, Goto, TypeOK
      <4>2. CASE SchedulePred(e) BY <4>2 DEF SchedulePred, Goto, TypeOK
      <4>3. CASE DecideExhausted(e) BY <4>3 DEF DecideExhausted, Goto, TypeOK
      <4>4. CASE Repost(e) BY <4>4 DEF Repost, Goto, TypeOK
      <4>5. CASE TickEpoch(e) BY <4>5 DEF TickEpoch, Goto, TypeOK
      <4>6. CASE FlipEpoch(e) BY <4>6 DEF FlipEpoch, Goto, TypeOK
      <4>7. QED BY <2>12, <4>1, <4>2, <4>3, <4>4, <4>5, <4>6
    <3>2. QED BY <3>1
  <2>13. QED BY <1>5, <2>5, <2>6, <2>7, <2>8, <2>9, <2>10, <2>11, <2>12 DEF Inner
<1>6. ASSUME NEW e \in Executors, Other(e) PROVE LocalsOK'
  <2>1. PICK l : OtherMove(e, l)
    BY <1>6, OtherSteps
  <2>2. \A o \in Executors :
          pc'[o] \in {"deal", "wake", "more", "repost", "scan", "await"} => pc'[o] = pc[o]
    BY <2>1 DEF OtherMove, TypeOK
  <2>3. \A o \in Executors : pc'[o] = "run" => hand'[o] \in Tasks
    <3>1. CASE Pop(e) \/ StealTask(e)
      <4>1. PICK v : Taken(e, v)
        BY <3>1, PopTakes, StealTakes
      <4>2. pc'[e] = "run" => hand'[e] \in Tasks
        BY <4>1 DEF Taken, LeftOf, Execute, Items, TypeOK
      <4>3. \A o \in Executors \ {e} : pc'[o] = pc[o] /\ hand'[o] = hand[o]
        BY <4>1 DEF Taken, TypeOK
      <4>4. QED BY <4>2, <4>3 DEF LocalsOK
    <3>2. CASE EndTask(e) \/ TryScheduling(e) \/ Unlock(e)
      <4>1. pc'[e] # "run"
        <5>1. CASE EndTask(e)
          <6>1. PICK k : AfterTaskMove(e, k) BY <5>1, EndTaskStep
          <6>2. QED BY <6>1 DEF AfterTaskMove, TypeOK
        <5>2. CASE TryScheduling(e)
          BY <5>2, ResumeLabel DEF TryScheduling, Return, Goto, TypeOK
        <5>3. CASE Unlock(e)
          BY <5>3, ResumeLabel DEF Unlock, Return, Goto, TypeOK
        <5>4. QED BY <3>2, <5>1, <5>2, <5>3
      <4>2. \A o \in Executors \ {e} : pc'[o] = pc[o] /\ hand'[o] = hand[o]
        BY <2>1, <3>2 DEF OtherMove, EndTask, TryScheduling, Unlock, TypeOK
      <4>3. QED BY <4>1, <4>2 DEF LocalsOK
    <3>3. QED BY <1>6, <3>1, <3>2 DEF Other
  <2>4. CASE Unlock(e)
    <3>1. \A o \in Executors : pc'[o] \notin {"deal", "wake", "more", "repost", "scan", "await"}
      BY <2>1, <2>2, <2>4 DEF Unlock, At, OtherMove, LockOK, SchedLabels, TypeOK
    <3>2. QED BY <2>3, <3>1 DEF LocalsOK
  <2>5. CASE ~Unlock(e)
    <3>1. UNCHANGED <<idx, visits, old, counter>>
      BY <1>6, <2>5 DEF Other, Pop, StealTask, EndTask, TryScheduling, schedVars
    <3>2. QED BY <2>2, <2>3, <3>1 DEF LocalsOK
  <2>6. QED BY <2>4, <2>5
<1>7. QED BY <1>1, <1>2, <1>3, <1>4, <1>5, <1>6, Steps

\* Only a scheduler that ended the epoch makes it negative, and then nobody is bound to
\* schedule any more.
LEMMA EpochStep ==
  ASSUME TypeOK, Control, [Next]_vars
  PROVE  EpochOK'
<1> USE DEF Control
<1>1. CASE UNCHANGED vars
  BY <1>1 DEF EpochOK, Duty, At, vars, execVars
<1>2. CASE ExecuteFlow
  <2>1. CASE epoch < 0
    BY <1>2, <2>1 DEF ExecuteFlow, EpochOK
  <2>2. CASE ~(epoch < 0)
    <3>1. epoch' = epoch /\ epoch >= 0
      BY <1>2, <2>2 DEF ExecuteFlow, TypeOK
    <3>2. QED BY <3>1 DEF EpochOK
  <2>3. QED BY <2>1, <2>2
<1>3. CASE SpawnThreads
  BY <1>3, ZeroInExecutors
     DEF SpawnThreads, EpochOK, LockOK, ThreadsOK, Duty, At, SchedLabels, LastLabels, execVars
<1>4. ASSUME NEW e \in Executors, Quiet(e) PROVE EpochOK'
  <2>1. PICK l : QuietMove(e, l)
    BY <1>4, QuietSteps
  <2>2. \A o \in Executors : /\ Duty(o)' => Duty(o)
                             /\ mx' = o /\ pc'[o] # "unlock" => mx = o /\ pc[o] # "unlock"
    BY <2>1 DEF QuietMove, LockOK, Duty, At, SchedLabels, LastLabels, TypeOK
  <2>3. QED BY <2>1, <2>2 DEF QuietMove, EpochOK
<1>5. ASSUME NEW e \in Executors, Inner(e) PROVE EpochOK'
  <2>1. PICK l : InnerMove(e, l)
    BY <1>5, InnerSteps
  <2>2. InnerEffect(e)
    BY <1>5, InnerEffects
  <2>3. mx = e /\ mx' = e /\ epoch >= 0
    BY <2>1 DEF InnerMove, LockOK, EpochOK
  <2>4. CASE FlipEpoch(e)
    <3>1. NoToken
      BY <2>4 DEF FlipEpoch, At, EndedOK, TokenOK
    <3>2. pc' = [pc EXCEPT ![e] = "unlock"] /\ queue' = queue
      BY <2>4 DEF FlipEpoch, Goto, execVars
    <3>3. \A o \in Executors : ~Duty(o)' /\ Clear(queue'[o])
      BY <2>3, <3>1, <3>2 DEF NoToken, Duty, At, LastLabels, TypeOK
    <3>4. QED BY <2>3, <3>2, <3>3 DEF EpochOK, TypeOK
  <2>5. CASE ~FlipEpoch(e)
    <3>1. epoch' \in {epoch, epoch + 1}
      BY <1>5, <2>5 DEF Inner, TakeGlobal, SchedulePred, CollectBusy, ScanBusy, AwaitStateChange,
         DecideExhausted, CountEnqueued, DealShare, WakeUp, NextBatch, Repost, TickEpoch
    <3>2. epoch' >= 0
      BY <2>3, <3>1 DEF TypeOK
    <3>3. QED BY <3>2 DEF EpochOK
  <2>6. QED BY <2>4, <2>5
<1>6. ASSUME NEW e \in Executors, Other(e) PROVE EpochOK'
  <2>1. PICK l : OtherMove(e, l)
    BY <1>6, OtherSteps
  <2>2. epoch' = epoch
    BY <2>1 DEF OtherMove
  <2>3. CASE Pop(e) \/ StealTask(e)
    <3>1. PICK v : Taken(e, v)
      BY <2>3, PopTakes, StealTakes
    <3>2. ASSUME NEW o \in Executors, ~Clear(queue'[o]) PROVE epoch >= 0
      <4>1. ~Clear(queue[o])
        BY <3>1, <3>2 DEF Taken, LeftOf, TypeOK
      <4>2. QED BY <4>1 DEF EpochOK
    <3>3. ASSUME NEW o \in Executors, Duty(o)' PROVE epoch >= 0
      <4>1. CASE Duty(o)
        BY <4>1 DEF EpochOK
      <4>2. CASE ~Duty(o)
        <5>1. o = e /\ hand'[e] = SchedulingTask
          BY <2>3, <3>1, <3>3, <4>2
             DEF Taken, Pop, StealTask, Duty, At, Execute, LastLabels, LockOK, SchedLabels, TypeOK
        <5>2. ~Clear(queue[v])
          BY <3>1, <5>1 DEF Taken, LeftOf
        <5>3. QED BY <3>1, <5>2 DEF EpochOK, Taken
      <4>3. QED BY <4>1, <4>2
    <3>4. \A o \in Executors : mx' = o /\ pc'[o] # "unlock" => mx = o /\ pc[o] # "unlock"
      BY <2>3, <3>1 DEF Taken, Pop, StealTask, At, TypeOK
    <3>5. QED BY <2>2, <3>2, <3>3, <3>4 DEF EpochOK
  <2>4. CASE EndTask(e)
    <3>1. PICK k : AfterTaskMove(e, k)
      BY <2>4, EndTaskStep
    <3>2. \A o \in Executors : /\ Duty(o)' => Duty(o)
                               /\ mx' = o /\ pc'[o] # "unlock" => mx = o /\ pc[o] # "unlock"
      BY <3>1 DEF AfterTaskMove, Duty, At, LastLabels, TypeOK
    <3>3. QED BY <3>1, <3>2 DEF AfterTaskMove, EpochOK
  <2>5. CASE TryScheduling(e)
    <3>1. Duty(e) /\ epoch >= 0
      BY <2>5 DEF TryScheduling, Duty, At, EpochOK
    <3>2. QED BY <2>2, <3>1 DEF EpochOK
  <2>6. CASE Unlock(e)
    <3>1. \A o \in Executors : Duty(o)' => Duty(o)
      BY <2>6, ResumeLabel, ZeroInExecutors DEF Unlock, Return, Goto, Duty, At, TypeOK
    <3>2. \A o \in Executors : mx' # o
      BY <2>6, ZeroInExecutors DEF Unlock
    <3>3. QED BY <2>2, <2>6, <3>1, <3>2 DEF Unlock, EpochOK, execVars
  <2>7. QED BY <1>6, <2>3, <2>4, <2>5, <2>6 DEF Other
<1>7. QED BY <1>1, <1>2, <1>3, <1>4, <1>5, <1>6, Steps

\* A step that moves no duty to a new thread and puts no scheduling task in a new queue
\* keeps TokenOK.
LEMMA FewerTokens ==
  ASSUME TokenOK,
         \A o \in Executors : /\ Duty(o)' => Duty(o)
                              /\ Clear(queue[o]) => Clear(queue'[o])
                              /\ Once(queue[o]) => Once(queue'[o])
                              /\ ended' /\ pc'[o] \in {"tick", "flip"}
                                    => ended /\ pc[o] \in {"tick", "flip"}
  PROVE  TokenOK'
<1>1. NoToken => NoToken'
  BY DEF NoToken
<1>2. \A o \in Executors : ended' /\ pc'[o] \in {"tick", "flip"} => NoToken'
  BY <1>1 DEF TokenOK
<1>3. QED BY <1>2 DEF TokenOK

\* Taking the scheduling task moves the duty from a queue to a thread, reposting moves it
\* back, execute_flow creates it only after it is gone.
LEMMA TokenStep ==
  ASSUME TypeOK, Control, [Next]_vars
  PROVE  TokenOK'
<1> USE DEF Control
<1>1. CASE UNCHANGED vars
  <2>1. UNCHANGED <<pc, mx, queue, ended>>
    BY <1>1 DEF vars, execVars, schedVars
  <2>2. QED BY <2>1, FewerTokens DEF Duty, At
<1>2. CASE ExecuteFlow
  <2>1. UNCHANGED <<mx, queue, ended>> /\ pc[0] = "flow"
    BY <1>2 DEF ExecuteFlow, execVars, schedVars, At
  <2>2. \A o \in Executors \ {0} : pc'[o] = pc[o]
    BY <1>2, ZeroInExecutors DEF ExecuteFlow, Goto, TypeOK
  <2>3. mx # 0
    BY <2>1, ZeroInExecutors DEF LockOK, SchedLabels
  <2>4. CASE epoch < 0
    <3>1. NoToken
      BY <2>4 DEF EpochOK, NoToken, TypeOK
    <3>2. \A o \in Executors : pc[o] \notin {"tick", "flip"}
      BY <2>4 DEF EpochOK, LockOK, SchedLabels, TypeOK
    <3>3. pc'[0] = "try"
      BY <1>2, <2>4, ZeroInExecutors DEF ExecuteFlow, Goto, TypeOK
    <3>4. \A o \in Executors \ {0} : ~Duty(o)'
      BY <2>1, <2>2, <3>1 DEF NoToken, Duty, At
    <3>5. \A o \in Executors : pc'[o] \notin {"tick", "flip"}
      BY <2>2, <3>2, <3>3
    <3>6. \A o \in Executors : Clear(queue'[o]) /\ Once(queue'[o])
      BY <2>1, <3>1 DEF NoToken, TokenOK
    <3>7. QED BY <3>4, <3>5, <3>6 DEF TokenOK
  <2>5. CASE ~(epoch < 0)
    <3>1. PICK l \in {"spawn", "enter"} : pc' = [pc EXCEPT ![0] = l]
      BY <1>2, <2>5 DEF ExecuteFlow, Goto
    <3>2. \A o \in Executors : /\ Duty(o)' => Duty(o)
                               /\ pc'[o] \in {"tick", "flip"} => pc'[o] = pc[o]
      BY <2>1, <2>3, <3>1 DEF Duty, At, TypeOK
    <3>3. QED BY <2>1, <3>2, FewerTokens
  <2>6. QED BY <2>4, <2>5
<1>3. CASE SpawnThreads
  <2>1. \A o \in Executors : ~Duty(o)' /\ pc'[o] = "enter"
    BY <1>3, ZeroInExecutors DEF SpawnThreads, LockOK, ThreadsOK, Duty, At, SchedLabels
  <2>2. queue' = queue
    BY <1>3 DEF SpawnThreads, execVars
  <2>3. QED BY <2>1, <2>2, FewerTokens
<1>4. ASSUME NEW e \in Executors, Quiet(e) PROVE TokenOK'
  <2>1. PICK l : QuietMove(e, l)
    BY <1>4, QuietSteps
  <2>2. \A o \in Executors : /\ Duty(o)' => Duty(o)
                             /\ pc'[o] \in {"tick", "flip"} => pc'[o] = pc[o]
    BY <2>1 DEF QuietMove, LockOK, Duty, At, SchedLabels, LastLabels, TypeOK
  <2>3. UNCHANGED <<queue, ended>>
    BY <2>1 DEF QuietMove
  <2>4. QED BY <2>2, <2>3, FewerTokens
<1>5. ASSUME NEW e \in Executors, Inner(e) PROVE TokenOK'
  <2>1. PICK l : InnerMove(e, l)
    BY <1>5, InnerSteps
  <2>2. InnerEffect(e)
    BY <1>5, InnerEffects
  <2>3. mx = e /\ mx' = e
    BY <2>1 DEF InnerMove, LockOK
  <2>4. \A o \in Executors \ {e} : /\ Duty(o)' <=> Duty(o)
                                   /\ pc'[o] = pc[o]
                                   /\ pc[o] \notin {"tick", "flip"}
    BY <2>1, <2>3 DEF InnerMove, LockOK, Duty, At, SchedLabels, TypeOK
  <2>5. CASE DecideExhausted(e)
    <3>1. Duty(e) /\ (~Duty(e)' \/ ended' = FALSE)
      BY <2>3, <2>5 DEF DecideExhausted, Duty, At, Goto, LastLabels, TypeOK
    <3>2. queue' = queue /\ Duty(e)
      BY <2>3, <2>5 DEF DecideExhausted, Duty, At, LastLabels, execVars
    <3>3. \A o \in Executors \ {e} : ~Duty(o)' 
      BY <2>4, <3>2 DEF TokenOK
    <3>4. \A o \in Executors : Clear(queue'[o]) /\ Once(queue'[o])
      BY <3>2 DEF TokenOK
    <3>5. ended' /\ pc'[e] \in {"tick", "flip"} => NoToken'
      BY <3>1, <3>3, <3>4 DEF NoToken
    <3>6. QED BY <2>4, <3>3, <3>4, <3>5 DEF TokenOK
  <2>6. CASE Repost(e)
    <3>1. Duty(e) /\ ~Duty(e)' /\ ~ended'
      BY <2>3, <2>6 DEF Repost, Duty, At, Goto, LastLabels, EndedOK, TypeOK, schedVars
    <3>2. \A o \in Executors : ~Duty(o)'
      BY <2>4, <3>1 DEF TokenOK
    <3>3. idx \in Executors /\ queue[idx] \in Seq(Items)
      BY <2>6 DEF Repost, At, LocalsOK, TypeOK
    <3>4. \A o \in Executors : Clear(queue[o]) /\ Once(queue[o])
      BY <3>1 DEF TokenOK
    <3>5. Once(queue'[idx]) /\ \A o \in Executors \ {idx} : queue'[o] = queue[o]
      BY <2>6, <3>3, <3>4, RepostedSeq DEF Repost, TypeOK
    <3>6. QED BY <3>1, <3>2, <3>4, <3>5 DEF TokenOK
  <2>7. CASE ~DecideExhausted(e) /\ ~Repost(e)
    <3>1. Duty(e)' => Duty(e)
      BY <1>5, <2>1, <2>3, <2>7 DEF InnerMove, Inner, Duty, At, LastLabels, SchedLabels,
         TypeOK, Goto, TakeGlobal, SchedulePred,
         CollectBusy, ScanBusy, AwaitStateChange, CountEnqueued, DealShare, WakeUp, NextBatch,
         TickEpoch, FlipEpoch
    <3>2. ended' = ended /\ pc[e] # "repost"
      BY <1>5, <2>7 DEF Inner, TakeGlobal, SchedulePred, CollectBusy, ScanBusy, AwaitStateChange,
         CountEnqueued, DealShare, WakeUp, NextBatch, TickEpoch, FlipEpoch, At, schedVars
    <3>3. ended' /\ pc'[e] \in {"tick", "flip"} => pc[e] \in {"tick", "flip"}
      BY <2>1, <2>3, <3>2 DEF EndedOK, LastLabels, InnerMove
    <3>4. \A o \in Executors : /\ Duty(o)' => Duty(o)
                               /\ Clear(queue[o]) => Clear(queue'[o])
                               /\ Once(queue[o]) => Once(queue'[o])
                               /\ ended' /\ pc'[o] \in {"tick", "flip"}
                                     => ended /\ pc[o] \in {"tick", "flip"}
      BY <2>2, <2>4, <3>1, <3>2, <3>3 DEF InnerEffect, At
    <3>5. QED BY <3>4, FewerTokens
  <2>8. QED BY <2>5, <2>6, <2>7
<1>6. ASSUME NEW e \in Executors, Other(e) PROVE TokenOK'
  <2>1. CASE Pop(e) \/ StealTask(e)
    <3>1. PICK v : Taken(e, v)
      BY <2>1, PopTakes, StealTakes
    <3>2. pc[e] \in {"loop", "steal"} /\ v \in Executors
      BY <2>1, <3>1 DEF Pop, StealTask, At, Taken
    <3>3. \A o \in Executors : /\ Clear(queue[o]) => Clear(queue'[o])
                               /\ Once(queue[o]) => Once(queue'[o])
                               /\ pc'[o] \in {"tick", "flip"} => pc'[o] = pc[o]
                               /\ o # e => (Duty(o)' <=> Duty(o))
      BY <3>1 DEF Taken, LeftOf, Execute, Duty, At, TypeOK
    <3>4. ended' = ended /\ mx' = mx
      BY <3>1 DEF Taken
    <3>5. CASE hand'[e] = SchedulingTask
      <4>1. ~Clear(queue[v])
        BY <3>1, <3>5 DEF Taken, LeftOf
      <4>2. \A o \in Executors : ~Duty(o) /\ (o # v => Clear(queue[o]))
        BY <3>2, <4>1 DEF TokenOK
      <4>3. Clear(queue'[v])
        BY <3>1, <3>2, <3>5 DEF Taken, LeftOf, TokenOK
      <4>4. \A o \in Executors : Clear(queue'[o]) /\ Once(queue'[o]) /\ (o # e => ~Duty(o)')
        BY <3>3, <4>2, <4>3 DEF TokenOK
      <4>5. \A o \in Executors : ~(ended /\ pc[o] \in {"tick", "flip"})
        BY <3>2, <4>1 DEF TokenOK, NoToken
      <4>6. QED BY <3>3, <3>4, <4>4, <4>5 DEF TokenOK
    <3>6. CASE hand'[e] # SchedulingTask
      <4>1. Duty(e)' => Duty(e)
        BY <3>1, <3>2, <3>4, <3>6 DEF Taken, Execute, Duty, At, LastLabels, LockOK,
           SchedLabels, TypeOK
      <4>2. QED BY <3>3, <3>4, <4>1, FewerTokens
    <3>7. QED BY <3>5, <3>6
  <2>2. CASE EndTask(e)
    <3>1. PICK l : AfterTaskMove(e, l)
      BY <2>2, EndTaskStep
    <3>2. \A o \in Executors : /\ Duty(o)' => Duty(o)
                               /\ pc'[o] \in {"tick", "flip"} => pc'[o] = pc[o]
      BY <3>1 DEF AfterTaskMove, Duty, At, LastLabels, TypeOK
    <3>3. UNCHANGED <<queue, ended>>
      BY <3>1 DEF AfterTaskMove
    <3>4. QED BY <3>2, <3>3, FewerTokens
  <2>3. CASE TryScheduling(e)
    <3>1. \A o \in Executors : /\ Duty(o)' => Duty(o)
                               /\ pc'[o] \in {"tick", "flip"} => pc'[o] = pc[o]
      <4>1. CASE mx = -1
        BY <2>3, <4>1 DEF TryScheduling, Goto, Duty, At, TypeOK
      <4>2. CASE mx # -1
        BY <2>3, <4>2, ResumeLabel DEF TryScheduling, Return, Goto, Duty, At, TypeOK
      <4>3. QED BY <4>1, <4>2
    <3>2. UNCHANGED <<queue, ended>>
      BY <2>3 DEF TryScheduling, execVars, schedVars
    <3>3. QED BY <3>1, <3>2, FewerTokens
  <2>4. CASE Unlock(e)
    <3>1. \A o \in Executors : Duty(o)' => Duty(o)
      BY <2>4, ResumeLabel, ZeroInExecutors DEF Unlock, Return, Goto, Duty, At, TypeOK
    <3>2. queue' = queue /\ ended' = FALSE
      BY <2>4 DEF Unlock, execVars
    <3>3. QED BY <3>1, <3>2, FewerTokens
  <2>5. QED BY <1>6, <2>1, <2>2, <2>3, <2>4 DEF Other
<1>7. QED BY <1>1, <1>2, <1>3, <1>4, <1>5, <1>6, Steps
-----------------------------------------------------------------------------
(* The invariant, and what follows from it *)


\* A pool that was just constructed satisfies the invariant.
LEMMA InitInvariant == Init => IInv
<1> SUFFICES ASSUME Init PROVE IInv
  OBVIOUS
<1>1. TypeOK
  <2>1. 0 \in Nat /\ 0 \in 0 .. N /\ 1 \in 1 .. N
    BY NAssumption
  <2>2. 1 \in 1 .. Len(Flows) + 1
    BY GraphAssumption, LenProperties
  <2>3. /\ <<>> \in Seq(Items) /\ <<>> \in Seq(Executors) /\ <<>> \in Seq(Tasks)
    BY EmptySeq
  <2>4. /\ state \in [Executors -> States] /\ queue \in [Executors -> Seq(Items)]
        /\ weak \in [Executors -> Nat] /\ targets \in [Executors -> Seq(Executors)]
        /\ amounts \in [Executors -> Nat]
    BY <2>1, <2>3 DEF Init, States, ZeroPerExecutor
  <2>5. /\ pc \in [Executors -> Labels] /\ hand \in [Executors -> Items \cup {NoTask}]
        /\ origin \in [Executors -> Origins] /\ stealing \in [Executors -> BOOLEAN]
    BY DEF Init, Labels, Origins
  <2>6. /\ global \in Seq(Tasks) /\ batch \in Seq(Tasks) /\ schedTargets \in Seq(Executors)
        /\ busy \subseteq Executors /\ ended \in BOOLEAN
        /\ done \subseteq Tasks /\ failed \subseteq done /\ early \subseteq Executors
    BY <2>3 DEF Init
  <2>7. /\ mx = -1 /\ epoch = -1 /\ counter = 0 /\ old = 0 /\ total = 0 /\ idx = 0
        /\ visits = 0 /\ seen = 0 /\ flow = 1 /\ joining = 1
    BY DEF Init
  <2>8. QED BY <2>1, <2>2, <2>4, <2>5, <2>6, <2>7 DEF TypeOK
<1>2. \A e \in Executors : /\ pc[e] \in {"add", "off"} /\ (e # 0 => pc[e] = "off")
                           /\ origin[e] = "own" /\ queue[e] = <<>>
  BY DEF Init
<1>3. mx = -1 /\ ~ended /\ flow = 1 /\ pc[0] = "add"
  BY ZeroInExecutors DEF Init
<1>4. \A e \in Executors : ~Duty(e) /\ Clear(queue[e]) /\ Once(queue[e])
  <2>1. \A e \in Executors : ~Duty(e)
    BY <1>2, <1>3, ZeroInExecutors DEF Duty, At
  <2>2. Clear(<<>>) /\ Once(<<>>)
    BY DEF Clear, Once
  <2>3. QED BY <1>2, <2>1, <2>2
<1>5. LockOK /\ OriginOK /\ CycleOK /\ TargetsOK /\ LocalsOK /\ EndedOK
  BY <1>2, <1>3, ZeroInExecutors DEF LockOK, OriginOK, CycleOK, InCycle, OutLabels, TargetsOK,
     LocalsOK, EndedOK, SchedLabels
<1>6. ThreadsOK /\ ClientOK
  BY <1>2, <1>3, GraphAssumption, LenProperties DEF ThreadsOK, ClientOK, ClientLabels
<1>7. EpochOK /\ TokenOK
  BY <1>2, <1>3, <1>4, ZeroInExecutors DEF EpochOK, TokenOK
<1>8. QED BY <1>1, <1>5, <1>6, <1>7 DEF IInv, Control

\* Every step keeps the invariant.
LEMMA StepInvariant == IInv /\ [Next]_vars => IInv'
<1> SUFFICES ASSUME IInv, [Next]_vars PROVE IInv'
  OBVIOUS
<1>1. TypeOK /\ Control
  BY DEF IInv
<1>2. TypeOK'
  <2>1. PcType' /\ ExecType' /\ ThreadType' /\ SchedType' /\ PoolType'
    BY <1>1, PcTypeStep, ExecTypeStep, ThreadTypeStep, SchedTypeStep, PoolTypeStep
  <2>2. QED
    BY <2>1 DEF TypeOK, PcType, ExecType, ThreadType, SchedType, PoolType
<1>3. Control'
  <2>1. /\ LockOK /\ OriginOK /\ CycleOK /\ ThreadsOK /\ ClientOK /\ TargetsOK
        /\ LocalsOK /\ EndedOK /\ EpochOK /\ TokenOK
    BY <1>1 DEF Control
  <2>2. LockOK' /\ OriginOK' /\ CycleOK'
    BY <1>1, <2>1, LockStep, OriginStep, CycleStep
  <2>3. ThreadsOK' /\ ClientOK' /\ TargetsOK'
    BY <1>1, <2>1, ThreadsStep, ClientStep, TargetsStep
  <2>4. LocalsOK' /\ EndedOK' /\ EpochOK' /\ TokenOK'
    BY <1>1, <2>1, LocalsStep, EndedStep, EpochStep, TokenStep
  <2>5. QED BY <2>2, <2>3, <2>4 DEF Control
<1>4. QED BY <1>2, <1>3 DEF IInv

\* The inductive invariant holds in every state of the pool.
THEOREM InductiveInvariant == Spec => []IInv
<1>1. Init => IInv
  BY InitInvariant
<1>2. IInv /\ [Next]_vars => IInv'
  BY StepInvariant
<1>3. QED BY <1>1, <1>2, PTL DEF Spec

\* Every variable keeps its type; in particular indices stay in range and the
\* subscription counter, a ptrdiff_t that is subtracted from, is never negative.
THEOREM TypeCorrect == Spec => []TypeOK
<1>1. IInv => TypeOK
  BY DEF IInv
<1>2. QED BY <1>1, InductiveInvariant, PTL

\* acquire_task never calls front() on an empty queue, with any number of thieves.
THEOREM PopNeverFails == Spec => []PopFindsTask
<1>1. IInv => PopFindsTask
  BY DEF IInv, Control, OriginOK, CycleOK, InCycle, OutLabels, TaskLabels, SchedLabels,
     PopFindsTask, At
<1>2. QED BY <1>1, InductiveInvariant, PTL

\* No thread calls try_lock on a scheduling_mx it owns.
THEOREM NoRelock == Spec => []SchedulerNeverRelocks
<1>1. IInv => SchedulerNeverRelocks
  BY DEF IInv, Control, LockOK, SchedLabels, SchedulerNeverRelocks, At
<1>2. QED BY <1>1, InductiveInvariant, PTL

\* A set without two different elements has at most one.
LEMMA AtMostOne ==
  ASSUME NEW S, \A x, y \in S : x = y
  PROVE  Cardinality(S) <= 1
<1>1. CASE S = {}
  BY <1>1, FS_EmptySet
<1>2. ASSUME NEW x \in S
      PROVE  Cardinality(S) <= 1
  <2>1. S = {x}
    OBVIOUS
  <2>2. QED BY <2>1, FS_Singleton
<1>3. QED BY <1>1, <1>2

\* There are never two scheduling tasks, nor one beside a running schedule().
THEOREM OneDuty == Spec => []OneToken
<1>1. IInv => OneToken
  <2> SUFFICES ASSUME IInv PROVE OneToken
    OBVIOUS
  <2>1. TokenOK
    BY DEF IInv, Control
  <2>2. \A t \in Tokens :
          \/ \E e \in Executors : t = <<e, 0>> /\ Duty(e)
          \/ \E e \in Executors : \E i \in 1 .. Len(queue[e]) :
                t = <<e, i>> /\ queue[e][i] = SchedulingTask
    <3> DEFINE onDuty   == {<<e, 0>> : e \in {o \in Executors : Duty(o)}}
               inQueues == UNION {{<<e, i>> : i \in Positions(queue[e], SchedulingTask)} :
                                  e \in Executors}
    <3>1. Tokens = inQueues \cup onDuty
      BY DEF Tokens
    <3>2. \A t \in onDuty : \E e \in Executors : t = <<e, 0>> /\ Duty(e)
      OBVIOUS
    <3>3. \A t \in inQueues : \E e \in Executors : \E i \in 1 .. Len(queue[e]) :
                                  t = <<e, i>> /\ queue[e][i] = SchedulingTask
      <4>1. TAKE t \in inQueues
      <4>2. PICK e \in Executors : t \in {<<e, i>> : i \in Positions(queue[e], SchedulingTask)}
        BY <4>1
      <4>3. QED BY <4>2 DEF Positions
    <3> HIDE DEF inQueues, onDuty
    <3>4. QED BY <3>1, <3>2, <3>3
  <2>3. \A t, u \in Tokens : t = u
    BY <2>1, <2>2 DEF TokenOK, Clear, Once
  <2>4. QED BY <2>3, AtMostOne DEF OneToken
<1>2. QED BY <1>1, InductiveInvariant, PTL

-----------------------------------------------------------------------------
(* The batch: schedule() deals out every task it takes from the global queue, *)
(* because the shares it works out from the counts cover the batch.           *)
(*                                                                            *)
(* The counts are read one by one while executors run and steal, so they are  *)
(* no snapshot of anything.  The proof needs none: with any counts the shares *)
(* sum up to the batch at least, since the average is rounded up before each  *)
(* count is taken off.  Covered has a bound p[v] on what is left after v      *)
(* visits, with p[N] <= 0; Bound computes such a p from the partial sums of   *)
(* the counts, rotated to where the round starts.                             *)

\* Where schedule() has no batch yet.
SeekLabels == {"take", "s_pred", "steal", "run", "collect", "scan", "await", "decide"}

\* p has the partial sums of the first n values of c.
Sums(p, c, n) == p[0] = 0 /\ \A i \in Executors : i < n => p[i + 1] = p[i] + c[i]

\* total is the sum of the counts read so far.
Counted(p) == p \in [0 .. N -> Nat] /\ Sums(p, amounts, visits) /\ p[visits] = total

\* The executor k places after s, round the circle.
After(s, k) == IF s + k < N THEN s + k ELSE s + k - N

\* A round that starts at the executor s deals the batch out: p bounds what is left after
\* each visit.
Covered(s, p) ==
    /\ s \in Executors /\ p \in [0 .. N -> Int]
    /\ \A k \in Executors : p[k] - p[k + 1] <= amounts[After(s, k)]
    /\ p[N] <= 0
    /\ Len(batch) <= relu(p[visits])

\* The buffers of schedule() while its owner is at l, or while scheduling_mx is free.
Buffered(l) ==
    /\ l \in SeekLabels \cup {"free"} => total = 0 /\ visits = 0
    /\ l \notin {"count", "deal", "wake"} => batch = <<>>
    /\ l = "count" => visits < N /\ \E p : Counted(p)
    /\ l = "deal" => \E s, p : Covered(s, p) /\ idx = After(s, visits)
    /\ l = "wake" => visits > 0 /\ \E s, p : Covered(s, p) /\ idx = After(s, visits - 1)

BatchOK == /\ mx = -1 => Buffered("free")
           /\ \A e \in Executors : mx = e => Buffered(pc[e])

\* The average is rounded up: N shares of it are enough.
LEMMA CeilCovers ==
  ASSUME NEW k \in Nat
  PROVE  CeilDiv(k, N) * N >= k
<1> DEFINE x == k + N - 1  q == x \div N
<1>1. x \in Nat /\ N \in Nat /\ N > 0
  BY NAssumption
<1> HIDE DEF x
<1>2. q \in Nat /\ x = N * q + (x % N) /\ x % N \in 0 .. N - 1
  BY <1>1
<1> HIDE DEF q
<1>3. N * q = q * N
  BY <1>1, <1>2
<1>4. q * N >= k
  BY <1>1, <1>2, <1>3 DEF x
<1>5. QED BY <1>4 DEF CeilDiv, q, x

\* The next executor (tasking.cpp:170).
LEMMA NextExecutor ==
  ASSUME NEW i \in Executors
  PROVE  (i + 1) % N = After(i, 1)
<1>1. N \in Nat /\ N >= 3 /\ i \in 0 .. N - 1
  BY NAssumption DEF Executors
<1>2. CASE i + 1 < N
  BY <1>1, <1>2 DEF After
<1>3. CASE i + 1 = N
  BY <1>1, <1>3 DEF After
<1>4. QED BY <1>1, <1>2, <1>3

\* Multiplication by one more.
LEMMA TimesSuccessor == \A a, b \in Int : a * b = a * (b - 1) + a
  OBVIOUS

\* r bounds what is left of len tasks when each executor i after s gets A - c[i] of them.
Bound(r, s, c, A, len) ==
    /\ \A k \in Executors : r[k] - r[k + 1] = A - c[After(s, k)]
    /\ r[N] <= 0 /\ len <= r[0]

\* When the counts of all executors are known, shares of at least the average less the
\* count cover the batch, from whatever executor the round starts.
LEMMA SharesCover ==
  ASSUME NEW c \in [Executors -> Nat], NEW p \in [0 .. N -> Nat], Sums(p, c, N),
         NEW len \in Nat, NEW s \in Executors, NEW A \in Nat, A * N >= p[N] + len
  PROVE  \E r \in [0 .. N -> Int] : Bound(r, s, c, A, len)
<1> DEFINE taken == [k \in 0 .. N |-> IF s + k <= N THEN p[s + k] - p[s]
                                       ELSE p[N] - p[s] + p[s + k - N]]
           r == [k \in 0 .. N |-> A * (N - k) - (p[N] - taken[k])]
<1>1. N \in Nat /\ N >= 3 /\ s \in 0 .. N - 1
  BY NAssumption DEF Executors
<1>2. \A k \in 0 .. N : p[k] \in Nat
  OBVIOUS
<1>3. \A k \in 0 .. N : taken[k] \in Int
  BY <1>1, <1>2
<1>4. /\ \A k \in 0 .. N : s + k <= N => taken[k] = p[s + k] - p[s]
      /\ \A k \in 0 .. N : s + k > N => taken[k] = p[N] - p[s] + p[s + k - N]
  BY <1>1
<1>5. taken[N] = p[N] /\ taken[0] = 0
  <2>1. p[0] = 0 /\ p[s] \in Nat /\ p[N] \in Nat
    BY <1>1, <1>2 DEF Sums
  <2>2. taken[0] = p[s + 0] - p[s]
    BY <1>1, <1>4
  <2>3. CASE s = 0
    <3>1. taken[N] = p[s + N] - p[s]
      BY <1>1, <1>4, <2>3
    <3>2. QED BY <1>1, <2>1, <2>2, <2>3, <3>1
  <2>4. CASE s > 0
    <3>1. taken[N] = p[N] - p[s] + p[s + N - N]
      BY <1>1, <1>4, <2>4
    <3>2. QED BY <1>1, <2>1, <2>2, <3>1
  <2>5. QED BY <1>1, <2>3, <2>4
<1> HIDE DEF taken
<1>10. ASSUME NEW k \in Executors
      PROVE  After(s, k) \in Executors /\ taken[k + 1] = taken[k] + c[After(s, k)]
  <2>1. k \in 0 .. N - 1 /\ k \in 0 .. N /\ k + 1 \in 0 .. N
    BY <1>1 DEF Executors
  <2>2. CASE s + k < N
    <3> DEFINE i == s + k
    <3>1. After(s, k) = i /\ i \in Executors /\ i \in 0 .. N /\ s + (k + 1) = i + 1
      BY <1>1, <2>1, <2>2 DEF Executors, After
    <3>2. p[i + 1] = p[i] + c[i] /\ c[i] \in Nat
      <4>1. i < N
        BY <1>1, <3>1 DEF Executors
      <4> HIDE DEF i
      <4>2. QED BY <3>1, <4>1 DEF Sums
    <3>3. taken[k] = p[i] - p[s]
      BY <1>1, <1>4, <2>1, <2>2
    <3>4. taken[k + 1] = p[s + (k + 1)] - p[s]
      BY <1>1, <1>4, <2>1, <2>2
    <3>5. p[s] \in Nat /\ p[i] \in Nat
      BY <1>1, <1>2, <3>1
    <3> HIDE DEF i
    <3>6. taken[k + 1] = taken[k] + c[i]
      <4>1. k \in Int /\ i \in Int
        BY <1>1, <2>1, <3>1
      <4>2. taken[k + 1] = p[i + 1] - p[s]
        BY <3>1, <3>4
      <4>3. QED BY <3>2, <3>3, <3>5, <4>1, <4>2
    <3>7. QED BY <3>1, <3>6
  <2>3. CASE s + k >= N
    <3> DEFINE i == s + k - N
    <3>1. /\ After(s, k) = i /\ i \in Executors /\ i \in 0 .. N
          /\ s + (k + 1) - N = i + 1 /\ s + (k + 1) > N
      BY <1>1, <2>1, <2>3 DEF Executors, After
    <3>2. p[i + 1] = p[i] + c[i] /\ c[i] \in Nat
      <4>1. i < N
        BY <1>1, <3>1 DEF Executors
      <4> HIDE DEF i
      <4>2. QED BY <3>1, <4>1 DEF Sums
    <3>3. taken[k] = p[N] - p[s] + p[i]
      <4>1. CASE s + k = N
        <5>1. taken[k] = p[s + k] - p[s]
          BY <1>1, <1>4, <2>1, <4>1
        <5>2. i = 0
          BY <1>1, <2>1, <4>1
        <5> HIDE DEF i
        <5>3. p[N] \in Nat /\ p[s] \in Nat /\ p[i] = 0
          BY <1>1, <1>2, <5>2 DEF Sums
        <5>4. QED BY <4>1, <5>1, <5>3
      <4>2. CASE s + k > N
        BY <1>4, <2>1, <4>2
      <4>3. QED BY <1>1, <2>1, <2>3, <4>1, <4>2
    <3>4. taken[k + 1] = p[N] - p[s] + p[s + (k + 1) - N]
      BY <1>4, <2>1, <3>1
    <3>5. p[s] \in Nat /\ p[N] \in Nat /\ p[i] \in Nat
      BY <1>1, <1>2, <3>1
    <3> HIDE DEF i
    <3>6. taken[k + 1] = taken[k] + c[i]
      <4>1. k \in Int /\ i \in Int
        BY <1>1, <2>1, <3>1
      <4>2. taken[k + 1] = p[N] - p[s] + p[i + 1]
        BY <3>1, <3>4
      <4>3. QED BY <3>2, <3>3, <3>5, <4>1, <4>2, SMTT(20)
    <3>7. QED BY <3>1, <3>6
  <2>4. s + k < N \/ s + k >= N
    BY <1>1, <2>1
  <2>5. QED BY <2>2, <2>3, <2>4
<1>6. r \in [0 .. N -> Int]
  BY <1>1, <1>2, <1>3
<1>7. r[N] <= 0 /\ len <= r[0]
  <2>1. r[N] = A * (N - N) - (p[N] - taken[N]) /\ r[0] = A * (N - 0) - (p[N] - taken[0])
    BY <1>1
  <2>2. p[N] \in Nat
    BY <1>1, <1>2
  <2>3. QED BY <1>1, <1>5, <2>1, <2>2
<1>8. ASSUME NEW k \in Executors
      PROVE  r[k] - r[k + 1] = A - c[After(s, k)]
  <2>1. k \in 0 .. N - 1
    BY DEF Executors
  <2>2. r[k] = A * (N - k) - (p[N] - taken[k]) /\ r[k + 1] = A * (N - (k + 1)) - (p[N] - taken[k + 1])
    BY <1>1, <2>1
  <2>3. A * (N - k) = A * (N - (k + 1)) + A
    <3>1. N - k \in Int /\ N - (k + 1) = (N - k) - 1
      BY <1>1, <2>1
    <3>2. A * (N - k) = A * ((N - k) - 1) + A
      BY <3>1, TimesSuccessor
    <3>3. QED BY <3>1, <3>2
  <2>4. taken[k + 1] = taken[k] + c[After(s, k)] /\ c[After(s, k)] \in Nat
    BY <1>10
  <2>5. taken[k] \in Int /\ p[N] \in Nat /\ A * (N - (k + 1)) \in Int
    BY <1>1, <1>2, <1>3, <2>1
  <2>6. QED BY <2>2, <2>3, <2>4, <2>5, SMTT(20)
<1>9. QED BY <1>6, <1>7, <1>8 DEF Bound

\* A variable of schedule() is touched by nobody but the owner of scheduling_mx.
schedBuffer == <<batch, amounts, total, visits, idx>>

\* Buffered looks at the label only to find out which phase schedule() is in.
LEMMA BufferedKept ==
  ASSUME NEW k, NEW l, Buffered(k), UNCHANGED schedBuffer,
         k = l \/ (k \in SeekLabels \cup {"free"} /\ l \in SeekLabels)
  PROVE  Buffered(l)'
<1>1. Buffered(l)
  <2>1. CASE k = l
    BY <2>1
  <2>2. CASE k \in SeekLabels \cup {"free"} /\ l \in SeekLabels
    BY <2>2 DEF Buffered, SeekLabels
  <2>3. QED BY <2>1, <2>2
<1>2. \A s, p : Covered(s, p)' <=> Covered(s, p)
  BY DEF Covered, schedBuffer
<1>3. \A p : Counted(p)' <=> Counted(p)
  BY DEF Counted, schedBuffer
<1>4. QED BY <1>1, <1>2, <1>3 DEF Buffered, schedBuffer

\* One more count and one more partial sum.
LEMMA SumsExtended ==
  ASSUME NEW c \in [Executors -> Nat], NEW n \in Executors, NEW p \in [0 .. N -> Nat],
         Sums(p, c, n), NEW w \in Nat
  PROVE  \E q \in [0 .. N -> Nat] :
            q[n + 1] = p[n] + w /\ Sums(q, [c EXCEPT ![n] = w], n + 1)
<1> DEFINE q == [k \in 0 .. N |-> IF k <= n THEN p[k] ELSE p[n] + w]
           d == [c EXCEPT ![n] = w]
<1>1. N \in Nat /\ n \in 0 .. N - 1 /\ n \in Int
  BY NAssumption DEF Executors
<1>2. \A k \in 0 .. N : p[k] \in Nat
  OBVIOUS
<1>3. q \in [0 .. N -> Nat]
  BY <1>1, <1>2
<1>4. q[n + 1] = p[n] + w
  BY <1>1
<1>5. q[0] = 0
  BY <1>1 DEF Sums
<1>6. ASSUME NEW i \in Executors, i < n + 1
      PROVE  q[i + 1] = q[i] + d[i]
  <2>1. i \in 0 .. N - 1 /\ i \in 0 .. N /\ i + 1 \in 0 .. N /\ i \in Int
    BY <1>1 DEF Executors
  <2>2. CASE i < n
    <3>1. p[i + 1] = p[i] + c[i]
      BY <2>2 DEF Sums
    <3>2. d[i] = c[i]
      BY <1>1, <2>1, <2>2
    <3>3. q[i + 1] = p[i + 1] /\ q[i] = p[i]
      BY <1>1, <2>1, <2>2
    <3>4. QED BY <3>1, <3>2, <3>3
  <2>3. CASE i = n
    <3>1. d[i] = w /\ q[i] = p[n]
      BY <1>1, <2>3
    <3>2. QED BY <1>4, <2>3, <3>1
  <2>4. QED BY <1>1, <1>6, <2>1, <2>2, <2>3
<1>7. Sums(q, d, n + 1)
  BY <1>5, <1>6 DEF Sums
<1>8. QED BY <1>3, <1>4, <1>7

\* The first round starts after the counts have been read.
LEMMA CountStep ==
  ASSUME TypeOK, NEW e \in Executors, Buffered("count"), CountEnqueued(e)
  PROVE  Buffered(pc[e])'
<1>1. visits < N /\ visits \in Executors /\ N \in Nat
  BY NAssumption DEF Buffered, TypeOK, Executors
<1>2. PICK p : Counted(p)
  BY DEF Buffered
<1>3. weak[visits] \in Nat /\ amounts \in [Executors -> Nat] /\ total = p[visits]
  BY <1>1, <1>2 DEF TypeOK, Counted
<1>4. PICK c : c = [amounts EXCEPT ![visits] = weak[visits]]
  OBVIOUS
<1>5. PICK q \in [0 .. N -> Nat] : q[visits + 1] = total + weak[visits] /\ Sums(q, c, visits + 1)
  <2>1. p \in [0 .. N -> Nat] /\ Sums(p, amounts, visits)
    BY <1>2 DEF Counted
  <2>2. \E q \in [0 .. N -> Nat] :
           /\ q[visits + 1] = p[visits] + weak[visits]
           /\ Sums(q, [amounts EXCEPT ![visits] = weak[visits]], visits + 1)
    BY <1>1, <1>3, <2>1, SumsExtended, Zenon
  <2>3. QED BY <1>3, <1>4, <2>2
<1>6. CASE visits < N - 1
  <2>1. /\ amounts' = c /\ total' = total + weak[visits] /\ visits' = visits + 1 /\ pc' = pc
    BY <1>1, <1>4, <1>6 DEF CountEnqueued
  <2>2. Counted(q)'
    BY <1>5, <2>1 DEF Counted
  <2>3. pc'[e] = "count"
    BY <2>1 DEF CountEnqueued, At
  <2>4. visits' < N
    BY <1>1, <1>6, <2>1 DEF Executors
  <2>5. QED BY <2>2, <2>3, <2>4 DEF Buffered, SeekLabels
<1>7. CASE visits = N - 1
  <2>1. c \in [Executors -> Nat]
    BY <1>1, <1>3, <1>4
  <2>2. visits + 1 = N
    BY <1>1, <1>7
  <2>3. q[N] = total + weak[visits] /\ Sums(q, c, N) /\ q[N] \in Nat
    BY <1>1, <1>5, <2>2
  <2>4. Len(batch) \in Nat
    BY LenProperties DEF TypeOK
  <2>5. PICK A : A = CeilDiv(q[N] + Len(batch), N)
    OBVIOUS
  <2>6. A \in Nat /\ A * N >= q[N] + Len(batch)
    <3>1. q[N] + Len(batch) \in Nat
      BY <2>3, <2>4
    <3>2. QED BY <2>5, <3>1, SharesNat, CeilCovers
  <2>7. /\ amounts' = [i \in Executors |-> relu(A - c[i] + IF c[i] = 0 THEN 1 ELSE 0)]
        /\ total' = 0 /\ visits' = 0 /\ idx' = e /\ pc'[e] = "deal" /\ batch' = batch
    BY <1>1, <1>4, <1>7, <2>3, <2>5 DEF CountEnqueued, Goto, TypeOK
  <2>8. PICK r \in [0 .. N -> Int] : Bound(r, e, c, A, Len(batch))
    <3>1. Sums(q, c, N)
      BY <2>3
    <3>2. A \in Nat
      BY <2>6
    <3>3. A * N >= q[N] + Len(batch)
      BY <2>6
    <3>4. QED BY <2>1, <2>4, <3>1, <3>2, <3>3, SharesCover, ZenonT(30)
  <2>9. \A i \in Executors : amounts'[i] >= A - c[i] /\ amounts'[i] \in Int /\ c[i] \in Nat
    BY <2>1, <2>6, <2>7 DEF relu
  <2>10. \A k \in Executors : After(e, k) \in Executors
    BY <1>1 DEF After, Executors
  <2>11. \A k \in Executors : r[k] - r[k + 1] <= amounts'[After(e, k)]
    BY <2>6, <2>8, <2>9, <2>10 DEF Bound
  <2>12. r[0] \in Int /\ Len(batch) <= relu(r[0])
    BY <1>1, <2>4, <2>8 DEF relu, Bound
  <2>13. Covered(e, r)'
    BY <2>7, <2>8, <2>11, <2>12 DEF Covered, Bound
  <2>14. idx' = After(e, visits')
    BY <1>1, <2>7 DEF After, Executors
  <2>15. pc'[e] = "deal"
    BY <2>7
  <2>16. QED BY <2>13, <2>14, <2>15 DEF Buffered, SeekLabels
<1>8. QED
  <2>1. visits < N - 1 \/ visits = N - 1
    BY DEF CountEnqueued
  <2>2. QED BY <1>6, <1>7, <2>1

\* A prefix of the batch goes to the executor visited.
LEMMA DealStep ==
  ASSUME TypeOK, NEW e \in Executors, visits < N, idx \in Executors, Buffered("deal"),
         DealShare(e)
  PROVE  Buffered("wake")'
<1>1. PICK s, p : Covered(s, p) /\ idx = After(s, visits)
  BY DEF Buffered
<1>2. PICK n : n = Smaller(amounts[idx], Len(batch))
  OBVIOUS
<1>3. /\ batch' = SubSeq(batch, n + 1, Len(batch)) /\ visits' = visits + 1
      /\ idx' = idx /\ amounts' = amounts
  BY <1>2 DEF DealShare
<1>4. n \in 0 .. Len(batch) /\ Len(batch) \in Nat /\ amounts[idx] \in Nat
  BY <1>2, ShareSeq, LenProperties DEF TypeOK
<1>5. Len(batch') = Len(batch) - n
  <2>1. \A j \in n + 1 .. Len(batch) : batch[j] \in Tasks
    BY <1>4, ElementOfSeq DEF TypeOK
  <2>2. Len(batch') = IF n + 1 <= Len(batch) THEN Len(batch) - (n + 1) + 1 ELSE 0
    BY <1>3, <1>4, <2>1, SubSeqProperties
  <2>3. QED BY <1>4, <2>2
<1>6. visits \in Executors /\ N \in Nat /\ visits + 1 \in 0 .. N /\ visits \in 0 .. N
  BY NAssumption DEF TypeOK, Executors
<1>7. p[visits] \in Int /\ p[visits + 1] \in Int /\ p[visits] - p[visits + 1] <= amounts[idx]
  BY <1>1, <1>6 DEF Covered
<1>8. Len(batch) <= relu(p[visits])
  BY <1>1 DEF Covered
<1>9. Len(batch') <= relu(p[visits + 1])
  BY <1>2, <1>4, <1>5, <1>7, <1>8 DEF relu, Smaller
<1>10. Covered(s, p)'
  BY <1>1, <1>3, <1>9 DEF Covered
<1>11. visits' > 0 /\ visits' - 1 = visits
  BY <1>3, <1>6
<1>12. idx' = After(s, visits' - 1)
  BY <1>1, <1>3, <1>11
<1>13. QED BY <1>10, <1>11, <1>12 DEF Buffered, SeekLabels

\* After the last visit, or as soon as the batch is empty, the buffer is done with.
LEMMA WakeStep ==
  ASSUME TypeOK, NEW e \in Executors, Buffered("wake"), WakeUp(e), idx \in Executors
  PROVE  Buffered(pc[e])'
<1>1. PICK s, p : Covered(s, p) /\ idx = After(s, visits - 1)
  BY DEF Buffered
<1>2. visits > 0 /\ visits \in 0 .. N /\ N \in Nat /\ s \in 0 .. N - 1
  BY <1>1, NAssumption DEF Buffered, TypeOK, Covered, Executors
<1>3. UNCHANGED <<batch, amounts, total, visits>>
  BY DEF WakeUp
<1>4. CASE batch = <<>> \/ visits = N
  <2>1. pc'[e] = "more"
    BY <1>4 DEF WakeUp, Goto, TypeOK
  <2>2. batch = <<>>
    <3>1. CASE visits = N
      <4>1. Len(batch) <= relu(p[N]) /\ p[N] <= 0 /\ p[N] \in Int
        BY <1>1, <1>2, <3>1 DEF Covered
      <4>2. Len(batch) \in Nat /\ Len(batch) <= 0
        BY <4>1, LenProperties, SMTT(20) DEF relu, TypeOK
      <4>3. QED BY <4>2, EmptySeq DEF TypeOK
    <3>2. QED BY <1>4, <3>1
  <2>3. QED BY <1>3, <2>1, <2>2 DEF Buffered, SeekLabels
<1>5. CASE batch # <<>> /\ visits # N
  <2>1. pc'[e] = "deal" /\ idx' = (idx + 1) % N
    BY <1>5 DEF WakeUp, Goto, TypeOK
  <2>2. idx' = After(idx, 1)
    BY <2>1, NextExecutor
  <2>3. idx' = After(s, visits')
    BY <1>1, <1>2, <1>3, <1>5, <2>2, NAssumption DEF After
  <2>4. Covered(s, p)'
    BY <1>1, <1>3 DEF Covered
  <2>5. QED BY <2>1, <2>3, <2>4 DEF Buffered, SeekLabels
<1>6. QED BY <1>4, <1>5

\* Later rounds deal evenly, and go on from the executor visited last.
LEMMA NextStep ==
  ASSUME TypeOK, NEW e \in Executors, NextBatch(e), idx \in Executors
  PROVE  Buffered(pc[e])'
<1>1. N \in Nat /\ idx \in 0 .. N - 1
  BY NAssumption DEF Executors
<1>2. batch' = global /\ visits' = 0 /\ idx' = idx
  BY DEF NextBatch
<1>3. CASE global = <<>>
  <2>1. pc'[e] = "repost"
    BY <1>3 DEF NextBatch, Goto, TypeOK
  <2>2. QED BY <1>2, <1>3, <2>1 DEF Buffered, SeekLabels
<1>4. CASE global # <<>>
  <2>1. pc'[e] = "deal"
    BY <1>4 DEF NextBatch, Goto, TypeOK
  <2>2. PICK A : A = CeilDiv(Len(global), N)
    OBVIOUS
  <2>3. Len(global) \in Nat
    BY LenProperties DEF TypeOK
  <2>4. A \in Nat /\ A * N >= Len(global)
    BY <2>2, <2>3, SharesNat, CeilCovers
  <2>5. amounts' = [i \in Executors |-> A]
    BY <2>2 DEF NextBatch
  <2>6. \A k \in Executors : After(idx, k) \in Executors
    BY <1>1 DEF After, Executors
  <2>7. PICK p : p = [k \in 0 .. N |-> A * (N - k)]
    OBVIOUS
  <2>8. p \in [0 .. N -> Int]
    BY <1>1, <2>4, <2>7
  <2>9. p[0] = A * N /\ p[N] = 0
    BY <1>1, <2>4, <2>7
  <2>10. ASSUME NEW k \in Executors PROVE p[k] - p[k + 1] <= amounts'[After(idx, k)]
    <3>1. k \in 0 .. N - 1 /\ k \in 0 .. N /\ k + 1 \in 0 .. N
      BY <1>1 DEF Executors
    <3>2. p[k] = A * (N - k) /\ p[k + 1] = A * (N - (k + 1))
      BY <2>7, <3>1
    <3>3. N - k \in Int /\ N - (k + 1) = (N - k) - 1
      BY <1>1, <3>1
    <3>4. A * (N - k) = A * ((N - k) - 1) + A
      BY <2>4, <3>3, TimesSuccessor
    <3>5. amounts'[After(idx, k)] = A
      BY <2>5, <2>6
    <3>6. QED BY <2>4, <3>2, <3>3, <3>4, <3>5
  <2>11. Len(global) <= relu(p[0])
    <3>1. p[0] \in Int /\ p[0] >= Len(global)
      BY <1>1, <2>4, <2>8, <2>9
    <3>2. QED BY <2>3, <3>1 DEF relu
  <2>12. Covered(idx, p)'
    BY <1>2, <2>8, <2>9, <2>10, <2>11 DEF Covered
  <2>13. idx' = After(idx', visits')
    BY <1>1, <1>2 DEF After
  <2>14. QED BY <2>1, <2>12, <2>13 DEF Buffered, SeekLabels
<1>5. QED BY <1>3, <1>4

\* The batch keeps being covered.
LEMMA BatchStep ==
  ASSUME TypeOK, Control, LockOK', BatchOK, [Next]_vars
  PROVE  BatchOK'
<1> USE DEF Control
<1>1. CASE UNCHANGED vars
  <2>1. UNCHANGED <<schedBuffer, pc, mx>>
    BY <1>1 DEF vars, schedVars, schedBuffer
  <2>2. QED BY <2>1, BufferedKept DEF BatchOK
<1>2. ASSUME UNCHANGED <<schedBuffer, mx>>,
             \A o \in Executors : mx = o => \/ pc'[o] = pc[o]
                                            \/ pc[o] \in SeekLabels /\ pc'[o] \in SeekLabels
      PROVE  BatchOK'
  <2>1. mx = -1 => Buffered("free")'
    BY <1>2, BufferedKept DEF BatchOK
  <2>2. ASSUME NEW o \in Executors, mx = o
        PROVE  Buffered(pc[o])'
    <3>1. PICK k, l : k = pc[o] /\ l = pc'[o]
      OBVIOUS
    <3>2. Buffered(k) /\ (k = l \/ (k \in SeekLabels \cup {"free"} /\ l \in SeekLabels))
      BY <1>2, <2>2, <3>1 DEF BatchOK
    <3>3. Buffered(l)'
      BY <1>2, <3>2, BufferedKept
    <3>4. QED BY <3>1, <3>3
  <2>3. QED BY <1>2, <2>1, <2>2 DEF BatchOK
<1>3. CASE ExecuteFlow
  <2>1. UNCHANGED <<schedBuffer, mx>>
    BY <1>3 DEF ExecuteFlow, schedVars, schedBuffer
  <2>2. pc[0] = "flow" /\ \A o \in Executors \ {0} : pc'[o] = pc[o]
    BY <1>3, ZeroInExecutors DEF ExecuteFlow, Goto, At, TypeOK
  <2>3. QED BY <1>2, <2>1, <2>2 DEF LockOK, SchedLabels
<1>4. CASE SpawnThreads
  <2>1. UNCHANGED <<schedBuffer, mx>>
    BY <1>4 DEF SpawnThreads, schedVars, schedBuffer
  <2>2. pc[0] = "spawn" /\ \A o \in Executors \ {0} : pc[o] = "off"
    BY <1>4 DEF SpawnThreads, At, ThreadsOK
  <2>3. QED BY <1>2, <2>1, <2>2 DEF LockOK, SchedLabels
<1>5. ASSUME NEW e \in Executors, Quiet(e) PROVE BatchOK'
  <2>1. PICK l : QuietMove(e, l)
    BY <1>5, QuietSteps
  <2>2. mx = e => pc[e] = "steal" /\ l = "s_pred"
    BY <2>1 DEF QuietMove, LockOK
  <2>3. QED BY <1>2, <2>1, <2>2 DEF QuietMove, schedBuffer, SeekLabels, TypeOK
<1>6. ASSUME NEW e \in Executors, Other(e) PROVE BatchOK'
  <2>1. CASE Pop(e) \/ StealTask(e) \/ EndTask(e)
    <3>1. UNCHANGED <<schedBuffer, mx>> /\ pc[e] \in {"loop", "steal", "run"}
      BY <2>1 DEF Pop, StealTask, EndTask, At, schedVars, schedBuffer
    <3>2. PICK l : OtherMove(e, l)
      BY <1>6, OtherSteps
    <3>3. mx = e => l \in SeekLabels
      BY <3>1, <3>2 DEF OtherMove, LockOK, SchedLabels, SeekLabels, TypeOK
    <3>4. QED BY <1>2, <3>1, <3>2, <3>3 DEF OtherMove, LockOK, SchedLabels, SeekLabels, TypeOK
  <2>2. CASE TryScheduling(e)
    <3>1. UNCHANGED schedBuffer /\ pc[e] = "try"
      BY <2>2 DEF TryScheduling, At, schedVars, schedBuffer
    <3>2. CASE mx = -1
      <4>1. mx' = e /\ pc'[e] = "take"
        BY <2>2, <3>2, ZeroInExecutors DEF TryScheduling, Goto, TypeOK
      <4>2. Buffered("free")
        BY <3>2 DEF BatchOK
      <4>3. Buffered("take")'
        BY <3>1, <4>2, BufferedKept DEF SeekLabels
      <4>4. QED BY <4>1, <4>3, ZeroInExecutors DEF BatchOK
    <3>3. CASE mx # -1
      <4>1. mx' = mx /\ mx # e /\ \A o \in Executors \ {e} : pc'[o] = pc[o]
        BY <2>2, <3>1, <3>3 DEF TryScheduling, Return, Goto, LockOK, SchedLabels, TypeOK
      <4>2. QED BY <1>2, <3>1, <4>1
    <3>4. QED BY <3>2, <3>3
  <2>3. CASE Unlock(e)
    <3>1. mx' = -1 /\ batch' = <<>> /\ total' = 0 /\ visits' = 0
      BY <2>3 DEF Unlock
    <3>2. QED BY <3>1, ZeroInExecutors DEF BatchOK, Buffered, SeekLabels
  <2>4. QED BY <1>6, <2>1, <2>2, <2>3 DEF Other
<1>7. ASSUME NEW e \in Executors, Inner(e) PROVE BatchOK'
  <2>1. PICK l : InnerMove(e, l)
    BY <1>7, InnerSteps
  <2>2. mx = e /\ mx' = e /\ Buffered(pc[e])
    BY <2>1 DEF InnerMove, LockOK, BatchOK
  <2>3. SUFFICES Buffered(pc[e])'
    BY <2>2, ZeroInExecutors DEF BatchOK
  <2>4. pc'[e] = l
    BY <2>1 DEF InnerMove, TypeOK
  <2>5. CASE TakeGlobal(e) \/ DecideExhausted(e)
    <3>1. UNCHANGED <<total, visits, amounts>> /\ pc[e] \in SeekLabels /\ batch' = global
      BY <2>5 DEF TakeGlobal, DecideExhausted, At, SeekLabels
    <3>2. total = 0 /\ visits = 0
      BY <2>2, <3>1 DEF Buffered
    <3>3. CASE global = <<>>
      <4>1. pc'[e] \in {"s_pred", "tick"}
        BY <2>5, <3>3 DEF TakeGlobal, DecideExhausted, Goto, TypeOK
      <4>2. QED BY <3>1, <3>2, <3>3, <4>1 DEF Buffered, SeekLabels
    <3>4. CASE global # <<>>
      <4>1. pc'[e] = "count"
        BY <2>5, <3>4 DEF TakeGlobal, DecideExhausted, Goto, TypeOK
      <4>2. PICK p : p = [k \in 0 .. N |-> 0]
        OBVIOUS
      <4>3. Counted(p)'
        BY <3>1, <3>2, <4>2, NAssumption DEF Counted, Sums, Executors
      <4>4. visits' < N
        BY <3>1, <3>2, NAssumption
      <4>5. QED BY <4>1, <4>3, <4>4 DEF Buffered, SeekLabels
    <3>5. QED BY <3>3, <3>4
  <2>6. CASE SchedulePred(e) \/ CollectBusy(e) \/ ScanBusy(e) \/ AwaitStateChange(e)
    <3>1. pc[e] \in SeekLabels /\ UNCHANGED <<batch, total, visits>>
      BY <2>6 DEF SchedulePred, CollectBusy, ScanBusy, AwaitStateChange, At, SeekLabels
    <3>2. l \in SeekLabels
      <4>1. CASE SchedulePred(e)
        BY <2>4, <4>1 DEF SchedulePred, Goto, SeekLabels, TypeOK
      <4>2. CASE CollectBusy(e)
        BY <2>4, <4>2 DEF CollectBusy, At, Goto, SeekLabels, TypeOK
      <4>3. CASE ScanBusy(e)
        BY <2>4, <4>3 DEF ScanBusy, At, Goto, SeekLabels, TypeOK
      <4>4. CASE AwaitStateChange(e)
        BY <2>4, <4>4 DEF AwaitStateChange, Goto, SeekLabels, TypeOK
      <4>5. QED BY <2>6, <4>1, <4>2, <4>3, <4>4
    <3>3. batch = <<>> /\ total = 0 /\ visits = 0
      BY <2>2, <3>1 DEF Buffered, SeekLabels
    <3>4. QED BY <2>4, <3>1, <3>2, <3>3 DEF Buffered, SeekLabels
  <2>7. CASE CountEnqueued(e)
    BY <2>2, <2>7, CountStep DEF CountEnqueued, At
  <2>8. CASE DealShare(e)
    <3>1. pc[e] = "deal" /\ pc'[e] = "wake" /\ visits < N /\ idx \in Executors
      BY <2>8 DEF DealShare, At, Goto, LocalsOK, TypeOK
    <3>2. QED BY <2>2, <2>8, <3>1, DealStep
  <2>9. CASE WakeUp(e)
    BY <2>2, <2>9, WakeStep DEF WakeUp, At, LocalsOK
  <2>10. CASE NextBatch(e)
    BY <2>10, NextStep DEF NextBatch, At, LocalsOK
  <2>11. CASE Repost(e) \/ TickEpoch(e) \/ FlipEpoch(e)
    <3>1. /\ pc[e] \in {"repost", "tick", "flip"} /\ l \in {"tick", "flip", "unlock"}
          /\ batch' = batch
      BY <2>4, <2>11 DEF Repost, TickEpoch, FlipEpoch, At, Goto, TypeOK, schedVars
    <3>2. batch = <<>>
      BY <2>2, <3>1 DEF Buffered
    <3>3. QED BY <2>4, <3>1, <3>2 DEF Buffered, SeekLabels
  <2>12. QED BY <1>7, <2>5, <2>6, <2>7, <2>8, <2>9, <2>10, <2>11 DEF Inner
<1>8. QED BY <1>1, <1>3, <1>4, <1>5, <1>6, <1>7, Steps

\* The invariant about the batch holds in every state.
LEMMA BatchInvariant == Spec => []BatchOK
<1>1. Init => BatchOK
  BY ZeroInExecutors DEF Init, BatchOK, Buffered, SeekLabels
<1>2. IInv /\ IInv' /\ BatchOK /\ [Next]_vars => BatchOK'
  BY BatchStep DEF IInv, Control
<1>3. QED BY <1>1, <1>2, InductiveInvariant, PTL DEF Spec

\* schedule() clears no buffer that still has tasks (tasking.cpp:174): the shares it
\* works out from counts read one by one cover the batch, whatever the counts.
THEOREM EveryTaskDealt == Spec => []BatchDealt
<1>1. IInv /\ BatchOK => BatchDealt
  BY DEF IInv, Control, LockOK, SchedLabels, BatchOK, Buffered, BatchDealt, At
<1>2. QED BY <1>1, InductiveInvariant, BatchInvariant, PTL
=============================================================================
