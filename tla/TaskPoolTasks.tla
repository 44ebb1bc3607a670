---------------------------- MODULE TaskPoolTasks ----------------------------
(***************************************************************************)
(* What happens to the tasks: none is lost or duplicated between queues,   *)
(* buffers and thieves, and the pool keeps the promise of TaskFlow.        *)
(***************************************************************************)
EXTENDS TaskPoolProofs

-----------------------------------------------------------------------------
(* Where a task is, and sequences cut in two *)

\* t occurs at most once in the sequence s.
Solo(s, t) == \A i, j \in 1 .. Len(s) : s[i] = t /\ s[j] = t => i = j

\* s is a followed by b.
Split(s, a, b) ==
    /\ Len(a) \in Nat /\ Len(b) \in Nat /\ Len(s) = Len(a) + Len(b)
    /\ \A i \in 1 .. Len(a) : s[i] = a[i]
    /\ \A i \in 1 .. Len(b) : s[Len(a) + i] = b[i]

\* What is in a sequence that is cut in two is in one of the parts.
LEMMA SplitElements ==
  ASSUME NEW s, NEW a, NEW b, Split(s, a, b), NEW t
  PROVE  /\ t \in Elements(s) <=> t \in Elements(a) \/ t \in Elements(b)
         /\ Solo(s, t) <=> Solo(a, t) /\ Solo(b, t) /\ ~(t \in Elements(a) /\ t \in Elements(b))
<1> DEFINE n == Len(a)  m == Len(b)
<1>1. n \in Nat /\ m \in Nat /\ Len(s) = n + m
  BY DEF Split
<1>2. \A i \in 1 .. n : i \in 1 .. n + m /\ s[i] = a[i]
  BY <1>1 DEF Split
<1>3. \A i \in 1 .. m : n + i \in 1 .. n + m /\ s[n + i] = b[i]
  BY <1>1 DEF Split
<1>4. \A i \in 1 .. n + m : \/ i \in 1 .. n /\ s[i] = a[i]
                            \/ i - n \in 1 .. m /\ s[i] = b[i - n] /\ n + (i - n) = i
  <2>1. TAKE i \in 1 .. n + m
  <2>2. CASE i <= n
    BY <1>1, <1>2, <2>2
  <2>3. CASE i > n
    <3>1. i - n \in 1 .. m /\ n + (i - n) = i
      BY <1>1, <2>3
    <3>2. s[n + (i - n)] = b[i - n]
      BY <1>3, <3>1
    <3>3. QED BY <3>1, <3>2
  <2>4. QED BY <1>1, <2>2, <2>3
<1> HIDE DEF n, m
<1>5. t \in Elements(s) <=> t \in Elements(a) \/ t \in Elements(b)
  <2>1. t \in Elements(s) <=> \E i \in 1 .. n + m : s[i] = t
    BY <1>1 DEF Elements
  <2>2. t \in Elements(a) <=> \E i \in 1 .. n : a[i] = t
    BY DEF Elements, n
  <2>3. t \in Elements(b) <=> \E i \in 1 .. m : b[i] = t
    BY DEF Elements, m
  <2>4. ASSUME NEW i \in 1 .. n + m, s[i] = t PROVE t \in Elements(a) \/ t \in Elements(b)
    BY <1>4, <2>2, <2>3, <2>4
  <2>5. ASSUME NEW i \in 1 .. n, a[i] = t PROVE t \in Elements(s)
    BY <1>2, <2>1, <2>5
  <2>6. ASSUME NEW i \in 1 .. m, b[i] = t PROVE t \in Elements(s)
    BY <1>3, <2>1, <2>6
  <2>7. QED BY <2>1, <2>2, <2>3, <2>4, <2>5, <2>6
<1>6. ASSUME Solo(s, t)
      PROVE  Solo(a, t) /\ Solo(b, t) /\ ~(t \in Elements(a) /\ t \in Elements(b))
  <2>1. \A i, j \in 1 .. n + m : s[i] = t /\ s[j] = t => i = j
    BY <1>1, <1>6 DEF Solo
  <2>2. Solo(a, t)
    BY <1>2, <2>1 DEF Solo, n
  <2>3. \A i, j \in 1 .. m : b[i] = t /\ b[j] = t => n + i = n + j
    BY <1>3, <2>1
  <2>4. Solo(b, t)
    BY <1>1, <2>3 DEF Solo, m
  <2>5. ASSUME NEW i \in 1 .. n, NEW j \in 1 .. m, a[i] = t, b[j] = t PROVE FALSE
    <3>1. i = n + j
      BY <1>2, <1>3, <2>1, <2>5
    <3>2. QED BY <1>1, <3>1
  <2>6. QED BY <2>2, <2>4, <2>5 DEF Elements, n, m
<1>7. ASSUME Solo(a, t), Solo(b, t), ~(t \in Elements(a) /\ t \in Elements(b))
      PROVE  Solo(s, t)
  <2>1. ASSUME NEW i \in 1 .. n + m, NEW j \in 1 .. n + m, s[i] = t, s[j] = t
        PROVE  i = j
    <3>1. CASE i \in 1 .. n /\ j \in 1 .. n
      BY <1>2, <1>7, <2>1, <3>1 DEF Solo, n
    <3>2. CASE i - n \in 1 .. m /\ j - n \in 1 .. m /\ s[i] = b[i - n] /\ s[j] = b[j - n]
      <4>1. i - n = j - n
        BY <1>7, <2>1, <3>2 DEF Solo, m
      <4>2. QED BY <1>1, <4>1
    <3>3. ASSUME NEW x \in 1 .. n, NEW y \in 1 .. m, a[x] = t, b[y] = t PROVE FALSE
      BY <1>7, <3>3 DEF Elements, n, m
    <3>4. QED BY <1>2, <1>4, <2>1, <3>1, <3>2, <3>3
  <2>2. QED BY <1>1, <2>1 DEF Solo
<1>8. QED BY <1>5, <1>6, <1>7

\* The empty sequence and those of one element.
LEMMA ShortSeqs ==
  /\ Elements(<<>>) = {} /\ \A t : Solo(<<>>, t)
  /\ \A x : Elements(<<x>>) = {x} /\ \A t : Solo(<<x>>, t)
<1>1. Len(<<>>) = 0 /\ 1 .. 0 = {}
  OBVIOUS
<1>2. \A x : Len(<<x>>) = 1 /\ <<x>>[1] = x /\ 1 .. 1 = {1}
  OBVIOUS
<1>3. QED BY <1>1, <1>2 DEF Elements, Solo

\* The queue operations of the pool cut a sequence or join two.
LEMMA Splits ==
  ASSUME NEW S, NEW q \in Seq(S)
  PROVE  /\ \A r \in Seq(S) : Split(q \o r, q, r)
         /\ \A x \in S : Split(Append(q, x), q, <<x>>)
         /\ q # <<>> => Split(q, <<Head(q)>>, Tail(q)) /\ Split(q, WithoutLast(q), <<q[Len(q)]>>)
         /\ \A n \in 0 .. Len(q) : Split(q, SubSeq(q, 1, n), SubSeq(q, n + 1, Len(q)))
<1>1. Len(q) \in Nat /\ \A i \in 1 .. Len(q) : q[i] \in S
  BY LenProperties, ElementOfSeq
<1>2. ASSUME NEW r \in Seq(S) PROVE Split(q \o r, q, r)
  <2> DEFINE s == q \o r
  <2>1. Len(r) \in Nat /\ Len(s) = Len(q) + Len(r)
    BY LenProperties, ConcatProperties
  <2>2. \A i \in 1 .. Len(q) + Len(r) : s[i] = IF i <= Len(q) THEN q[i] ELSE r[i - Len(q)]
    BY ConcatProperties
  <2> HIDE DEF s
  <2>3. \A i \in 1 .. Len(q) : s[i] = q[i]
    BY <1>1, <2>1, <2>2
  <2>4. ASSUME NEW i \in 1 .. Len(r) PROVE s[Len(q) + i] = r[i]
    <3>1. /\ Len(q) + i \in 1 .. Len(q) + Len(r) /\ ~(Len(q) + i <= Len(q))
          /\ Len(q) + i - Len(q) = i
      BY <1>1, <2>1
    <3>2. s[Len(q) + i] = r[Len(q) + i - Len(q)]
      BY <2>2, <3>1
    <3>3. QED BY <3>1, <3>2
  <2>5. QED BY <1>1, <2>1, <2>3, <2>4 DEF Split, s
<1>3. ASSUME NEW x \in S PROVE Split(Append(q, x), q, <<x>>)
  <2> DEFINE s == Append(q, x)  b == <<x>>
  <2>1. /\ Len(s) = Len(q) + 1 /\ s[Len(q) + 1] = x
        /\ \A i \in 1 .. Len(q) : s[i] = q[i]
    BY <1>1, AppendProperties
  <2>2. Len(b) = 1 /\ b[1] = x
    OBVIOUS
  <2> HIDE DEF s, b
  <2>3. \A i \in 1 .. 1 : i = 1
    OBVIOUS
  <2>4. Split(s, q, b)
    BY <1>1, <2>1, <2>2, <2>3 DEF Split
  <2>5. QED BY <2>4 DEF s, b
<1>4. ASSUME q # <<>>
      PROVE  Split(q, <<Head(q)>>, Tail(q)) /\ Split(q, WithoutLast(q), <<q[Len(q)]>>)
  <2>1. Len(q) >= 1
    BY <1>1, <1>4, EmptySeq
  <2>2. Split(q, <<Head(q)>>, Tail(q))
    <3> DEFINE a == <<Head(q)>>  b == Tail(q)
    <3>1. Len(a) = 1 /\ a[1] = q[1]
      OBVIOUS
    <3>2. Len(b) = Len(q) - 1 /\ \A i \in 1 .. Len(q) - 1 : b[i] = q[i + 1]
      BY <1>4, HeadTailProperties
    <3> HIDE DEF a, b
    <3>3. \A i \in 1 .. 1 : i = 1
      OBVIOUS
    <3>4. Len(b) \in Nat /\ Len(q) = 1 + Len(b) /\ \A i \in 1 .. Len(b) : q[1 + i] = b[i]
      BY <1>1, <2>1, <3>2
    <3>5. Split(q, a, b)
      BY <3>1, <3>3, <3>4 DEF Split
    <3>6. QED BY <3>5 DEF a, b
  <2>3. Split(q, WithoutLast(q), <<q[Len(q)]>>)
    <3> DEFINE a == WithoutLast(q)  b == <<q[Len(q)]>>  n == Len(q) - 1
    <3>1. Len(b) = 1 /\ b[1] = q[Len(q)]
      OBVIOUS
    <3>2. /\ Len(a) = IF 1 <= n THEN n - 1 + 1 ELSE 0
          /\ \A i \in 1 .. n - 1 + 1 : a[i] = q[1 + i - 1]
      BY <1>1, <2>1, SubSeqProperties DEF WithoutLast
    <3>3. n \in Nat
      BY <1>1, <2>1
    <3> HIDE DEF a, b
    <3>4. Len(a) = n /\ \A i \in 1 .. n : a[i] = q[i]
      <4>1. 1 <= n \/ n = 0
        BY <3>3
      <4>2. \A i \in 1 .. n : i \in 1 .. n - 1 + 1 /\ 1 + i - 1 = i
        BY <3>3
      <4> HIDE DEF n
      <4>3. Len(a) = n
        BY <3>2, <3>3, <4>1
      <4>4. QED BY <3>2, <4>2, <4>3
    <3>5. \A i \in 1 .. 1 : i = 1
      OBVIOUS
    <3>6. Len(q) = n + 1
      BY <1>1, <2>1
    <3>7. Split(q, a, b)
      <4>1. q[n + 1] = b[1]
        BY <3>1, <3>6
      <4> HIDE DEF n
      <4>2. QED BY <3>1, <3>3, <3>4, <3>5, <3>6, <4>1 DEF Split
    <3>8. QED BY <3>7 DEF a, b
  <2>4. QED BY <2>2, <2>3
<1>5. ASSUME NEW n \in 0 .. Len(q)
      PROVE  Split(q, SubSeq(q, 1, n), SubSeq(q, n + 1, Len(q)))
  <2> DEFINE a == SubSeq(q, 1, n)  b == SubSeq(q, n + 1, Len(q))
  <2>1. n \in Nat /\ n <= Len(q)
    BY <1>1
  <2>2. /\ Len(a) = IF 1 <= n THEN n - 1 + 1 ELSE 0
        /\ \A i \in 1 .. n - 1 + 1 : a[i] = q[1 + i - 1]
    BY <1>1, <2>1, SubSeqProperties
  <2>3. /\ Len(b) = IF n + 1 <= Len(q) THEN Len(q) - (n + 1) + 1 ELSE 0
        /\ \A i \in 1 .. Len(q) - (n + 1) + 1 : b[i] = q[n + 1 + i - 1]
    BY <1>1, <2>1, SubSeqProperties
  <2> HIDE DEF a, b
  <2>4. Len(a) = n /\ \A i \in 1 .. n : a[i] = q[i]
    BY <2>1, <2>2
  <2>5. Len(b) = Len(q) - n
    BY <1>1, <2>1, <2>3
  <2>6. ASSUME NEW i \in 1 .. Len(q) - n PROVE q[n + i] = b[i]
    <3>1. i \in 1 .. Len(q) - (n + 1) + 1 /\ n + 1 + i - 1 = n + i
      BY <1>1, <2>1
    <3>2. QED BY <2>3, <3>1
  <2>7. Len(b) \in Nat /\ Len(q) = n + Len(b)
    BY <1>1, <2>1, <2>5
  <2>8. Split(q, a, b)
    BY <2>1, <2>4, <2>5, <2>6, <2>7 DEF Split
  <2>9. QED BY <2>8 DEF a, b
<1>6. QED BY <1>2, <1>3, <1>4, <1>5

-----------------------------------------------------------------------------
(* Every task is in the place k of the executor o, or in no place as long as it does not
   exist *)

\* A task in hand is being executed, a scheduling task in hand is about to be.
HandOK == \A e \in Executors : /\ hand[e] \in Tasks => pc[e] = "run"
                               /\ hand[e] = SchedulingTask => pc[e] = "try"

\* The task t is in the place k (of the executor o) only, and there once.
Settled(t, k, o) ==
    /\ Solo(global, t) /\ (t \in Elements(global) <=> k = "global")
    /\ Solo(batch, t) /\ (t \in Elements(batch) <=> k = "batch")
    /\ \A e \in Executors :
          /\ Solo(queue[e], t) /\ (t \in Elements(queue[e]) <=> k = "queue" /\ o = e)
          /\ hand[e] = t <=> k = "hand" /\ o = e
    /\ k \in {"queue", "hand"} => o \in Executors
    /\ t \in done <=> k = "done"
    /\ Created(t) <=> k \in {"global", "batch", "queue", "hand", "done"}

PlacesOK == \A t \in Tasks : \E k, o : Settled(t, k, o)

\* An item is created once: a task has one parent or one flow, and one position there.
LEMMA Forest ==
  /\ \A k, l \in 1 .. Len(Flows) : \A t : t \in Roots(k) /\ t \in Roots(l) => k = l
  /\ \A k \in 1 .. Len(Flows) : \A t : Solo(Flows[k], t)
  /\ \A p, q \in Tasks : \A t : t \in Elements(Children[p]) /\ t \in Elements(Children[q]) => p = q
  /\ \A p \in Tasks : \A t : Solo(Children[p], t)
  /\ \A k \in 1 .. Len(Flows), p \in Tasks : \A t : ~(t \in Roots(k) /\ t \in Elements(Children[p]))
<1>1. DOMAIN Flows = 1 .. Len(Flows)
  BY GraphAssumption, LenProperties
<1>2. \A k \in 1 .. Len(Flows) : Flows[k] \in Seq(Tasks) /\ DOMAIN Flows[k] = 1 .. Len(Flows[k])
  BY GraphAssumption, ElementOfSeq, LenProperties
<1>3. \A p \in Tasks : Children[p] \in Seq(Tasks) /\ DOMAIN Children[p] = 1 .. Len(Children[p])
  BY GraphAssumption, LenProperties
<1>4. /\ \A k, l \in 1 .. Len(Flows) : \A i \in 1 .. Len(Flows[k]), j \in 1 .. Len(Flows[l]) :
              Flows[k][i] = Flows[l][j] => k = l /\ i = j
      /\ \A p, q \in Tasks : \A i \in 1 .. Len(Children[p]), j \in 1 .. Len(Children[q]) :
              Children[p][i] = Children[q][j] => p = q /\ i = j
      /\ \A k \in 1 .. Len(Flows), p \in Tasks :
              \A i \in 1 .. Len(Flows[k]), j \in 1 .. Len(Children[p]) :
                  Flows[k][i] # Children[p][j]
  <2>1. ASSUME NEW k \in 1 .. Len(Flows), NEW l \in 1 .. Len(Flows),
               NEW i \in 1 .. Len(Flows[k]), NEW j \in 1 .. Len(Flows[l]),
               Flows[k][i] = Flows[l][j]
        PROVE  k = l /\ i = j
    <3>1. k \in DOMAIN Flows /\ l \in DOMAIN Flows /\ i \in DOMAIN Flows[k] /\ j \in DOMAIN Flows[l]
      BY <1>1, <1>2
    <3>2. QED BY <2>1, <3>1, ForestAssumption
  <2>2. ASSUME NEW p \in Tasks, NEW q \in Tasks,
               NEW i \in 1 .. Len(Children[p]), NEW j \in 1 .. Len(Children[q]),
               Children[p][i] = Children[q][j]
        PROVE  p = q /\ i = j
    <3>1. i \in DOMAIN Children[p] /\ j \in DOMAIN Children[q]
      BY <1>3
    <3>2. QED BY <2>2, <3>1, ForestAssumption
  <2>3. ASSUME NEW k \in 1 .. Len(Flows), NEW p \in Tasks,
               NEW i \in 1 .. Len(Flows[k]), NEW j \in 1 .. Len(Children[p])
        PROVE  Flows[k][i] # Children[p][j]
    <3>1. k \in DOMAIN Flows /\ i \in DOMAIN Flows[k] /\ j \in DOMAIN Children[p]
      BY <1>1, <1>2, <1>3
    <3>2. QED BY <3>1, ForestAssumption
  <2>4. QED BY <2>1, <2>2, <2>3
<1>5. QED BY <1>4 DEF Roots, Elements, Solo

\* A child is what its parent has a position for.
LEMMA ChildPositions == \A p, t : Positions(Children[p], t) # {} <=> t \in Elements(Children[p])
  BY DEF Positions, Elements

\* No task comes into being where neither a flow is added nor a task ends.
LEMMA CreatedKept ==
  ASSUME UNCHANGED <<flow, done, failed>>, pc[0] = "add" <=> pc'[0] = "add", NEW t
  PROVE  Created(t)' <=> Created(t)
  BY DEF Created, Submitted, At

\* The steps that bring no task into being: all but AddTasks and EndTask.
Barren == \/ UNCHANGED vars \/ ExecuteFlow \/ SpawnThreads
          \/ \E e \in Executors : \/ Quiet(e) /\ ~(e = 0 /\ AddTasks)
                                  \/ Inner(e)
                                  \/ Other(e) /\ ~EndTask(e)

\* They bring no task into being.
LEMMA CreatedSame ==
  ASSUME TypeOK, Control, Barren
  PROVE  \A t : Created(t)' <=> Created(t)
<1> TAKE t
<1> USE DEF Control
<1>1. CASE UNCHANGED vars \/ ExecuteFlow \/ SpawnThreads
  <2>1. UNCHANGED <<flow, done, failed>>
    BY <1>1 DEF vars, ExecuteFlow, SpawnThreads, clientVars, history
  <2>2. pc[0] = "add" <=> pc'[0] = "add"
    <3>1. CASE UNCHANGED vars
      BY <3>1 DEF vars
    <3>2. CASE ExecuteFlow
      BY <3>2, ZeroInExecutors DEF ExecuteFlow, Goto, At, TypeOK
    <3>3. CASE SpawnThreads
      BY <3>3, ZeroInExecutors DEF SpawnThreads, At
    <3>4. QED BY <1>1, <3>1, <3>2, <3>3
  <2>3. QED BY <2>1, <2>2, CreatedKept
<1>2. ASSUME NEW e \in Executors, Quiet(e), ~(e = 0 /\ AddTasks) PROVE Created(t)' <=> Created(t)
  <2>1. CASE e = 0 /\ Bye(e)
    <3>1. /\ UNCHANGED <<done, failed>> /\ flow' = flow + 1 /\ pc[0] = "bye"
          /\ IF flow < Len(Flows) THEN pc'[0] = "add" ELSE pc'[0] = "destroy"
      BY <2>1, ZeroInExecutors DEF Bye, At, Goto, TypeOK, history
    <3>2. flow \in Nat /\ Len(Flows) \in Nat /\ flow <= Len(Flows)
      BY <3>1, GraphAssumption, LenProperties DEF TypeOK, ClientOK
    <3>3. \A k \in 1 .. Len(Flows) : Submitted(k)' <=> Submitted(k)
      BY <3>1, <3>2 DEF Submitted, At
    <3>4. QED BY <3>1, <3>3 DEF Created, Roots, Elements, Positions
  <2>2. CASE ~(e = 0 /\ Bye(e))
    <3>1. UNCHANGED <<flow, done, failed>>
      BY <1>2, <2>2 DEF Quiet, Shutdown, Join, Destroyed, SyncEpoch, SyncDecide, SyncWait,
         Enter, LeaveCycle, BeginStealing, ContinueStealing, OwnQueuePred, StealBlocked,
         StealNothing, Halt, Announce, Parked, Stop, Bye, clientVars, history
    <3>2. pc[0] = "add" <=> pc'[0] = "add"
      <4>1. CASE e # 0
        <5>1. PICK l : QuietMove(e, l)
          BY <1>2, QuietSteps
        <5>2. QED BY <4>1, <5>1 DEF QuietMove, TypeOK
      <4>2. CASE e = 0
        BY <1>2, <2>2, <4>2, ZeroInExecutors DEF Quiet, Shutdown, Join, Destroyed, SyncEpoch,
           SyncDecide, SyncWait, Enter, LeaveCycle, BeginStealing, ContinueStealing, OwnQueuePred,
           StealBlocked, StealNothing, Halt, Announce, Parked, Stop, Goto, At, TypeOK
      <4>3. QED BY <4>1, <4>2
    <3>3. QED BY <3>1, <3>2, CreatedKept
  <2>3. QED BY <2>1, <2>2
<1>3. ASSUME NEW e \in Executors, Inner(e) PROVE Created(t)' <=> Created(t)
  <2>1. PICK l : InnerMove(e, l)
    BY <1>3, InnerSteps
  <2>2. UNCHANGED <<flow, done, failed>> /\ (pc[0] = "add" <=> pc'[0] = "add")
    BY <2>1 DEF InnerMove, TypeOK, SchedLabels, clientVars, history
  <2>3. QED BY <2>2, CreatedKept
<1>4. ASSUME NEW e \in Executors, Other(e), ~EndTask(e) PROVE Created(t)' <=> Created(t)
  <2>1. PICK l : OtherMove(e, l)
    BY <1>4, OtherSteps
  <2>2. UNCHANGED <<flow, done, failed>> /\ (pc[0] = "add" <=> pc'[0] = "add")
    <3>1. UNCHANGED <<done, failed>>
      BY <1>4 DEF Other, Pop, StealTask, TryScheduling, Unlock, history
    <3>2. QED BY <2>1, <3>1 DEF OtherMove, TypeOK, clientVars
  <2>3. QED BY <2>2, CreatedKept
<1>5. QED BY <1>1, <1>2, <1>3, <1>4 DEF Barren

\* AddTasks brings the tasks of one flow into being, none of which existed.
LEMMA FlowCreates ==
  ASSUME TypeOK, ClientOK, AddTasks
  PROVE  /\ flow \in 1 .. Len(Flows) /\ Flows[flow] \in Seq(Tasks)
         /\ \A t \in Tasks : /\ Created(t)' <=> Created(t) \/ t \in Elements(Flows[flow])
                             /\ t \in Elements(Flows[flow]) => ~Created(t)
                             /\ Solo(Flows[flow], t)
<1> DEFINE s == Flows[flow]
<1>1. flow \in 1 .. Len(Flows) /\ s \in Seq(Tasks)
  <2>1. flow \in 1 .. Len(Flows)
    BY GraphAssumption, LenProperties DEF TypeOK, ClientOK, AddTasks, At
  <2>2. QED BY <2>1, GraphAssumption, ElementOfSeq
<1>2. pc[0] = "add" /\ pc'[0] = "flow" /\ UNCHANGED <<done, failed, flow>>
  BY ZeroInExecutors DEF AddTasks, At, Goto, TypeOK, clientVars, history
<1>3. \A k \in 1 .. Len(Flows) : Submitted(k)' <=> Submitted(k) \/ k = flow
  BY <1>2 DEF Submitted, At
<1>4. ~Submitted(flow)
  BY <1>1, <1>2 DEF Submitted, At
<1>5. ASSUME NEW t \in Tasks
      PROVE  /\ Created(t)' <=> Created(t) \/ t \in Elements(s)
             /\ t \in Elements(s) => ~Created(t)
             /\ Solo(s, t)
  <2>1. Created(t)' <=> \/ \E k \in 1 .. Len(Flows) : Submitted(k)' /\ t \in Roots(k)
                        \/ \E p \in done \ failed : Positions(Children[p], t) # {}
    BY <1>2 DEF Created, Roots, Elements, Positions
  <2>2. t \in Elements(s) => ~Created(t)
    BY <1>1, <1>4, Forest, ChildPositions DEF Created, Roots, TypeOK
  <2>3. Solo(s, t)
    BY <1>1, Forest
  <2>4. QED BY <1>1, <1>3, <2>1, <2>2, <2>3 DEF Created, Roots
<1>6. QED BY <1>1, <1>5

\* Steps that move no task.
LEMMA NoTaskMoved ==
  ASSUME PlacesOK, UNCHANGED <<global, batch, queue, done>>,
         \A e \in Executors, t \in Tasks : hand'[e] = t <=> hand[e] = t,
         \A t \in Tasks : Created(t)' <=> Created(t)
  PROVE  PlacesOK'
<1>1. ASSUME NEW t \in Tasks, NEW k, NEW o, Settled(t, k, o) PROVE Settled(t, k, o)'
  BY <1>1 DEF Settled
<1>2. QED BY <1>1 DEF PlacesOK

\* schedule() takes the global queue into its empty buffer.
LEMMA GlobalTaken ==
  ASSUME PlacesOK, batch = <<>>, batch' = global, global' = <<>>, UNCHANGED <<queue, hand, done>>,
         \A t \in Tasks : Created(t)' <=> Created(t)
  PROVE  PlacesOK'
<1>1. ASSUME NEW t \in Tasks, NEW k, NEW o, Settled(t, k, o)
      PROVE  \E l : Settled(t, l, o)'
  <2>1. t \notin Elements(batch) /\ t \notin Elements(global)' /\ Solo(global, t)'
    BY ShortSeqs
  <2>2. Solo(batch, t)' /\ (t \in Elements(batch)' <=> k = "global") /\ k # "batch"
    BY <1>1, <2>1 DEF Settled
  <2>3. CASE k = "global"
    <3>1. Settled(t, "batch", o)'
      BY <1>1, <2>1, <2>2, <2>3 DEF Settled
    <3>2. QED BY <3>1
  <2>4. CASE k # "global"
    <3>1. Settled(t, k, o)'
      BY <1>1, <2>1, <2>2, <2>4 DEF Settled
    <3>2. QED BY <3>1
  <2>5. QED BY <2>3, <2>4
<1>2. QED BY <1>1 DEF PlacesOK

\* schedule() splices the front s of its buffer to the queue of i.
LEMMA ShareSpliced ==
  ASSUME PlacesOK, queue \in [Executors -> Seq(Items)], NEW i \in Executors, NEW s,
         Split(batch, s, batch'), Split(queue'[i], queue[i], s),
         queue' = [queue EXCEPT ![i] = queue'[i]],
         UNCHANGED <<global, hand, done>>,
         \A t \in Tasks : Created(t)' <=> Created(t)
  PROVE  PlacesOK'
<1>1. ASSUME NEW t \in Tasks, NEW k, NEW o, Settled(t, k, o)
      PROVE  \E l, p : Settled(t, l, p)'
  <2>1. \A e \in Executors \ {i} : queue'[e] = queue[e]
    OBVIOUS
  <2>2. /\ t \in Elements(batch) <=> t \in Elements(s) \/ t \in Elements(batch')
        /\ Solo(batch, t) <=> /\ Solo(s, t) /\ Solo(batch', t)
                              /\ ~(t \in Elements(s) /\ t \in Elements(batch'))
    BY SplitElements
  <2>3. /\ t \in Elements(queue'[i]) <=> t \in Elements(queue[i]) \/ t \in Elements(s)
        /\ Solo(queue'[i], t) <=> /\ Solo(queue[i], t) /\ Solo(s, t)
                                  /\ ~(t \in Elements(queue[i]) /\ t \in Elements(s))
    BY SplitElements
  <2>4. CASE t \in Elements(s)
    <3>1. k = "batch"
      BY <1>1, <2>2, <2>4 DEF Settled
    <3>2. Settled(t, "queue", i)'
      BY <1>1, <2>1, <2>2, <2>3, <2>4, <3>1 DEF Settled
    <3>3. QED BY <3>2
  <2>5. CASE t \notin Elements(s)
    <3>1. Settled(t, k, o)'
      BY <1>1, <2>1, <2>2, <2>3, <2>5 DEF Settled
    <3>2. QED BY <3>1
  <2>6. QED BY <2>4, <2>5
<1>2. QED BY <1>1 DEF PlacesOK

\* e, which has no task in hand, takes the item x from an end of the queue of v.
LEMMA ItemTaken ==
  ASSUME PlacesOK, queue \in [Executors -> Seq(Items)],
         hand \in [Executors -> Items \cup {NoTask}],
         NEW e \in Executors, NEW v \in Executors, NEW x, hand[e] \notin Tasks,
         Split(queue[v], <<x>>, queue'[v]) \/ Split(queue[v], queue'[v], <<x>>),
         queue' = [queue EXCEPT ![v] = queue'[v]], hand' = [hand EXCEPT ![e] = x],
         UNCHANGED <<global, batch, done>>,
         \A t \in Tasks : Created(t)' <=> Created(t)
  PROVE  PlacesOK'
<1>1. /\ \A o \in Executors \ {v} : queue'[o] = queue[o]
      /\ hand'[e] = x /\ \A o \in Executors \ {e} : hand'[o] = hand[o]
  OBVIOUS
<1>2. ASSUME NEW t \in Tasks, NEW k, NEW o, Settled(t, k, o)
      PROVE  \E l, p : Settled(t, l, p)'
  <2>1. /\ t \in Elements(queue[v]) <=> t \in Elements(queue'[v]) \/ t = x
        /\ Solo(queue[v], t) <=> /\ Solo(queue'[v], t)
                                 /\ ~(t \in Elements(queue'[v]) /\ t = x)
    BY SplitElements, ShortSeqs
  <2>2. CASE t = x
    <3>1. k = "queue" /\ o = v
      BY <1>2, <2>1, <2>2 DEF Settled
    <3>2. Settled(t, "hand", e)'
      <4>1. /\ Solo(global, t)' /\ ~(t \in Elements(global))'
            /\ Solo(batch, t)' /\ ~(t \in Elements(batch))'
            /\ t \notin done' /\ Created(t)'
        BY <1>2, <3>1 DEF Settled
      <4>2. \A u \in Executors : Solo(queue[u], t)' /\ ~(t \in Elements(queue[u]))'
        BY <1>1, <1>2, <2>1, <2>2, <3>1 DEF Settled
      <4>3. \A u \in Executors : hand'[u] = t <=> u = e
        BY <1>1, <1>2, <2>2, <3>1 DEF Settled
      <4>4. QED BY <4>1, <4>2, <4>3 DEF Settled
    <3>3. QED BY <3>2
  <2>3. CASE t # x
    <3>1. \A u \in Executors : Solo(queue'[u], t) /\ (t \in Elements(queue'[u]) <=> k = "queue" /\ o = u)
      BY <1>1, <1>2, <2>1, <2>3 DEF Settled
    <3>2. \A u \in Executors : hand'[u] = t <=> hand[u] = t
      BY <1>1, <2>3
    <3>3. Settled(t, k, o)'
      BY <1>2, <3>1, <3>2 DEF Settled
    <3>4. QED BY <3>3
  <2>4. QED BY <2>2, <2>3
<1>3. QED BY <1>2 DEF PlacesOK

\* The tasks of the sequence s come into being at the end of the global queue.
LEMMA TasksAdded ==
  ASSUME PlacesOK, global \in Seq(Tasks), NEW s \in Seq(Tasks), NEW t \in Tasks,
         global' = global \o s, UNCHANGED <<batch, queue>>,
         \A e \in Executors : hand'[e] = t <=> hand[e] = t, t \in done' <=> t \in done,
         Solo(s, t), Created(t)' <=> Created(t) \/ t \in Elements(s),
         t \in Elements(s) => ~Created(t)
  PROVE  \E k, o : Settled(t, k, o)'
<1>1. PICK k, o : Settled(t, k, o)
  BY DEF PlacesOK
<1>2. /\ t \in Elements(global') <=> t \in Elements(global) \/ t \in Elements(s)
      /\ Solo(global', t) <=> /\ Solo(global, t) /\ Solo(s, t)
                              /\ ~(t \in Elements(global) /\ t \in Elements(s))
  <2>1. Split(global', global, s)
    BY Splits
  <2>2. QED BY <2>1, SplitElements
<1>3. CASE t \in Elements(s)
  <2>1. k \notin {"global", "batch", "queue", "hand", "done"}
    BY <1>1, <1>3 DEF Settled
  <2>2. Settled(t, "global", o)'
    BY <1>1, <1>2, <1>3, <2>1 DEF Settled
  <2>3. QED BY <2>2
<1>4. CASE t \notin Elements(s)
  <2>1. Settled(t, k, o)'
    BY <1>1, <1>2, <1>4 DEF Settled
  <2>2. QED BY <2>1
<1>5. QED BY <1>3, <1>4

\* EndTask brings the children of the task into being, unless it has thrown; none existed.
LEMMA EndCreates ==
  ASSUME TypeOK, PlacesOK, LocalsOK, OriginOK, NEW e \in Executors, EndTask(e)
  PROVE  /\ hand[e] \in Tasks \ done /\ Children[hand[e]] \in Seq(Tasks)
         /\ \A t \in Tasks : t \in Elements(Children[hand[e]]) => ~Created(t)
         /\ \/ /\ global' = global \o Children[hand[e]]
               /\ \A t \in Tasks : Created(t)' <=> Created(t) \/ t \in Elements(Children[hand[e]])
            \/ /\ global' = global /\ hand[e] \in Throws
               /\ \A t \in Tasks : Created(t)' <=> Created(t)
<1> DEFINE p == hand[e]
<1>1. p \in Tasks /\ Children[p] \in Seq(Tasks)
  BY GraphAssumption DEF EndTask, At, LocalsOK
<1>2. p \notin done /\ p \notin failed
  BY <1>1 DEF PlacesOK, Settled, TypeOK
<1>3. done' = done \cup {p} /\ flow' = flow
  BY DEF EndTask, clientVars
<1>4. \/ global' = global \o Children[p] /\ failed' = failed
      \/ global' = global /\ failed' = failed \cup {p} /\ p \in Throws
  BY DEF EndTask
<1>5. pc[0] = "add" <=> pc'[0] = "add"
  <2>1. PICK l : AfterTaskMove(e, l)
    BY EndTaskStep
  <2>2. QED BY <2>1, ZeroInExecutors DEF AfterTaskMove, TypeOK
<1>6. \A k : Submitted(k)' <=> Submitted(k)
  BY <1>3, <1>5 DEF Submitted, At
<1> HIDE DEF p
<1>7. ASSUME NEW t \in Tasks
      PROVE  /\ Created(t) <=> \/ \E k \in 1 .. Len(Flows) : Submitted(k) /\ t \in Roots(k)
                               \/ \E q \in done \ failed : t \in Elements(Children[q])
             /\ Created(t)' <=> \/ \E k \in 1 .. Len(Flows) : Submitted(k) /\ t \in Roots(k)
                                \/ \E q \in done' \ failed' : t \in Elements(Children[q])
             /\ t \in Elements(Children[p]) => ~Created(t)
  <2>1. Created(t) <=> \/ \E k \in 1 .. Len(Flows) : Submitted(k) /\ t \in Roots(k)
                       \/ \E q \in done \ failed : t \in Elements(Children[q])
    BY ChildPositions DEF Created
  <2>2. Created(t)' <=> \/ \E k \in 1 .. Len(Flows) : Submitted(k) /\ t \in Roots(k)
                        \/ \E q \in done' \ failed' : t \in Elements(Children[q])
    BY ChildPositions, <1>6 DEF Created, Roots, Elements
  <2>3. \A q \in done \ failed : t \in Elements(Children[q]) => t \notin Elements(Children[p])
    BY <1>1, <1>2, Forest DEF TypeOK
  <2>4. t \in Elements(Children[p]) => ~Created(t)
    BY <1>1, <2>1, <2>3, Forest
  <2>5. QED BY <2>1, <2>2, <2>4
<1>8. CASE global' = global \o Children[p] /\ failed' = failed
  <2>1. done' \ failed' = (done \ failed) \cup {p}
    BY <1>2, <1>3, <1>8
  <2>2. \A t \in Tasks : Created(t)' <=> Created(t) \/ t \in Elements(Children[p])
    BY <1>7, <2>1
  <2>3. QED BY <1>1, <1>2, <1>7, <1>8, <2>2 DEF p
<1>9. CASE global' = global /\ failed' = failed \cup {p} /\ p \in Throws
  <2>1. done' \ failed' = done \ failed
    BY <1>2, <1>3, <1>9
  <2>2. \A t \in Tasks : Created(t)' <=> Created(t)
    BY <1>7, <2>1
  <2>3. QED BY <1>1, <1>2, <1>7, <1>9, <2>2 DEF p
<1>10. QED BY <1>4, <1>8, <1>9

\* A task ends: it is done, and its children, unless it has thrown, are in the global queue.
LEMMA TaskEnded ==
  ASSUME TypeOK, PlacesOK, LocalsOK, OriginOK, NEW e \in Executors, EndTask(e)
  PROVE  PlacesOK'
<1> DEFINE p == hand[e]
<1>1. /\ p \in Tasks \ done /\ Children[p] \in Seq(Tasks)
      /\ \A t \in Tasks : t \in Elements(Children[p]) => ~Created(t)
      /\ \/ /\ global' = global \o Children[p]
            /\ \A t \in Tasks : Created(t)' <=> Created(t) \/ t \in Elements(Children[p])
         \/ global' = global /\ \A t \in Tasks : Created(t)' <=> Created(t)
  BY EndCreates
<1>2. /\ hand' = [hand EXCEPT ![e] = NoTask] /\ done' = done \cup {p}
      /\ UNCHANGED <<batch, queue>>
  BY DEF EndTask, execVars
<1>3. \A t \in Tasks, o \in Executors : t # p => (hand'[o] = t <=> hand[o] = t)
  BY <1>2, ItemAssumption DEF TypeOK, Items
<1> HIDE DEF p
<1>4. ASSUME NEW t \in Tasks PROVE \E k, o : Settled(t, k, o)'
  <2>1. Solo(Children[p], t)
    BY <1>1, Forest
  <2>2. CASE t # p
    <3>1. (t \in done' <=> t \in done) /\ \A o \in Executors : hand'[o] = t <=> hand[o] = t
      BY <1>2, <1>3, <2>2
    <3>2. CASE global' = global \o Children[p] /\ (Created(t)' <=> Created(t) \/ t \in Elements(Children[p]))
      BY <1>1, <1>2, <2>1, <3>1, <3>2, TasksAdded DEF TypeOK
    <3>3. CASE global' = global /\ (Created(t)' <=> Created(t))
      <4>1. PICK k, o : Settled(t, k, o)
        BY DEF PlacesOK
      <4>2. Settled(t, k, o)'
        BY <1>2, <3>1, <3>3, <4>1 DEF Settled
      <4>3. QED BY <4>2
    <3>4. QED BY <1>1, <3>2, <3>3
  <2>3. CASE t = p
    <3>1. PICK k, o : Settled(t, k, o)
      BY DEF PlacesOK
    <3>2. k = "hand" /\ o = e
      BY <2>3, <3>1 DEF Settled, p
    <3>3. Created(t)' /\ t \notin Elements(Children[p])
      BY <1>1, <3>1, <3>2 DEF Settled
    <3>4. Solo(global', t) /\ t \notin Elements(global')
      <4>1. CASE global' = global
        BY <3>1, <3>2, <4>1 DEF Settled
      <4>2. CASE global' = global \o Children[p]
        <5>1. Split(global', global, Children[p])
          BY <1>1, <4>2, Splits DEF TypeOK
        <5>2. QED BY <2>1, <3>1, <3>2, <3>3, <5>1, SplitElements DEF Settled
      <4>3. QED BY <1>1, <4>1, <4>2
    <3>5. \A u \in Executors : hand'[u] # t
      BY <1>1, <1>2, <3>1, <3>2, ItemAssumption DEF Settled, TypeOK, Items
    <3>6. t \in done'
      BY <1>2, <2>3
    <3>7. Settled(t, "done", e)'
      BY <1>2, <3>1, <3>2, <3>3, <3>4, <3>5, <3>6 DEF Settled
    <3>8. QED BY <3>7
  <2>4. QED BY <2>2, <2>3
<1>5. QED BY <1>4 DEF PlacesOK

\* The client adds the tasks of a flow.
LEMMA FlowAdded ==
  ASSUME TypeOK, ClientOK, PlacesOK, AddTasks
  PROVE  PlacesOK'
<1>1. global' = global \o Flows[flow] /\ UNCHANGED <<batch, queue, hand, done>>
  BY DEF AddTasks, execVars, threadVars, schedVars, history
<1>2. ASSUME NEW t \in Tasks PROVE \E k, o : Settled(t, k, o)'
  BY <1>1, FlowCreates, TasksAdded DEF TypeOK
<1>3. QED BY <1>2 DEF PlacesOK

-----------------------------------------------------------------------------
(* Every step moves tasks from one place to another *)

\* A task comes into a hand with the step to execute it, and leaves it when it ends.
LEMMA HandStep ==
  ASSUME TypeOK, Control, HandOK, [Next]_vars
  PROVE  HandOK'
<1> USE DEF Control
<1> USE ItemAssumption
<1>1. CASE UNCHANGED vars
  BY <1>1 DEF HandOK, vars, threadVars
<1>2. CASE ExecuteFlow
  <2>1. PICK l \in {"try", "spawn", "enter"} : pc' = [pc EXCEPT ![0] = l]
    BY <1>2 DEF ExecuteFlow, Goto
  <2>2. QED BY <1>2, <2>1, ZeroInExecutors DEF ExecuteFlow, HandOK, TypeOK, At
<1>3. CASE SpawnThreads
  <2>1. \A o \in Executors : pc[o] \in {"spawn", "off"}
    BY <1>3 DEF SpawnThreads, ThreadsOK, At
  <2>2. QED BY <1>3, <2>1 DEF SpawnThreads, HandOK, threadVars
<1>4. ASSUME NEW e \in Executors, Quiet(e) PROVE HandOK'
  <2>1. PICK l : QuietMove(e, l)
    BY <1>4, QuietSteps
  <2>2. QED BY <2>1 DEF QuietMove, HandOK, TypeOK
<1>5. ASSUME NEW e \in Executors, Inner(e) PROVE HandOK'
  <2>1. PICK l : InnerMove(e, l)
    BY <1>5, InnerSteps
  <2>2. QED BY <2>1 DEF InnerMove, HandOK, TypeOK, SchedLabels
<1>6. ASSUME NEW e \in Executors, Pop(e) \/ StealTask(e) PROVE HandOK'
  <2>1. /\ hand' = [hand EXCEPT ![e] = hand'[e]]
        /\ pc' = [pc EXCEPT ![e] = Execute(hand'[e])]
    BY <1>6, PopTakes, StealTakes DEF Taken
  <2>2. QED BY <2>1 DEF HandOK, Execute, TypeOK
<1>7. ASSUME NEW e \in Executors, EndTask(e) \/ TryScheduling(e) \/ Unlock(e) PROVE HandOK'
  <2>1. PICK l : OtherMove(e, l)
    BY <1>7, OtherSteps DEF Other
  <2>2. \A o \in Executors \ {e} : pc'[o] = pc[o] /\ hand'[o] = hand[o]
    BY <1>7, <2>1 DEF EndTask, TryScheduling, Unlock, OtherMove, TypeOK
  <2>3. hand'[e] = NoTask
    <3>1. CASE EndTask(e) \/ TryScheduling(e)
      BY <3>1 DEF EndTask, TryScheduling, TypeOK
    <3>2. CASE Unlock(e)
      <4>1. pc[e] = "unlock" /\ hand'[e] = hand[e]
        BY <3>2 DEF Unlock, At
      <4>2. QED BY <4>1 DEF HandOK, TypeOK, Items
    <3>3. QED BY <1>7, <3>1, <3>2
  <2>4. QED BY <2>2, <2>3 DEF HandOK, Items
<1>8. QED BY <1>1, <1>2, <1>3, <1>4, <1>5, <1>6, <1>7, Steps DEF Other

\* A quiet step other than AddTasks moves no task.
LEMMA QuietPlaces ==
  ASSUME TypeOK, Control, PlacesOK, NEW e \in Executors, Quiet(e)
  PROVE  PlacesOK'
<1>1. CASE e = 0 /\ AddTasks
  BY <1>1, FlowAdded DEF Control
<1>2. CASE ~(e = 0 /\ AddTasks)
  <2>1. UNCHANGED <<global, done>>
    BY <1>2 DEF Quiet, Shutdown, Join, Destroyed, SyncEpoch, SyncDecide, SyncWait,
       Enter, LeaveCycle, BeginStealing, ContinueStealing, OwnQueuePred, StealBlocked, StealNothing,
       Halt, Announce, Parked, Stop, Bye, history
  <2>2. UNCHANGED <<hand, queue, batch>>
    BY QuietSteps DEF QuietMove, Control
  <2>3. QED BY <1>2, <2>1, <2>2, CreatedSame, NoTaskMoved DEF Barren
<1>3. QED BY <1>1, <1>2

\* A step inside schedule() moves tasks from the global queue to the buffer, from there
\* to a queue, or none.
LEMMA InnerPlaces ==
  ASSUME TypeOK, Control, BatchOK, PlacesOK, NEW e \in Executors, Inner(e)
  PROVE  PlacesOK'
<1> USE DEF Control
<1>1. PICK l : InnerMove(e, l)
  BY InnerSteps
<1>2. UNCHANGED <<hand, done>>
  BY <1>1 DEF InnerMove, history
<1>3. \A t : Created(t)' <=> Created(t)
  BY CreatedSame DEF Barren
<1>4. Buffered(pc[e])
  BY <1>1 DEF InnerMove, LockOK, BatchOK
<1>5. CASE TakeGlobal(e) \/ DecideExhausted(e) \/ NextBatch(e)
  <2>1. pc[e] \in {"take", "decide", "more"} /\ UNCHANGED queue /\ batch' = global /\ global' = <<>>
    BY <1>5 DEF TakeGlobal, DecideExhausted, NextBatch, At, execVars
  <2>2. batch = <<>>
    BY <1>4, <2>1 DEF Buffered
  <2>3. QED BY <1>2, <1>3, <2>1, <2>2, GlobalTaken
<1>6. CASE DealShare(e)
  <2>1. idx \in Executors
    BY <1>6 DEF DealShare, At, LocalsOK
  <2>2. PICK n : n = Smaller(amounts[idx], Len(batch))
    OBVIOUS
  <2>3. n \in 0 .. Len(batch) /\ SubSeq(batch, 1, n) \in Seq(Tasks)
    BY <2>1, <2>2, ShareSeq
  <2>4. PICK s \in Seq(Tasks) : s = SubSeq(batch, 1, n)
    BY <2>3
  <2>5. /\ queue' = [queue EXCEPT ![idx] = queue[idx] \o s]
        /\ batch' = SubSeq(batch, n + 1, Len(batch)) /\ UNCHANGED global
    BY <1>6, <2>2, <2>4 DEF DealShare
  <2>6. Split(batch, s, batch')
    BY <2>3, <2>4, <2>5, Splits DEF TypeOK
  <2>7. queue[idx] \in Seq(Items) /\ s \in Seq(Items) /\ queue'[idx] = queue[idx] \o s
    BY <2>1, <2>5, TaskSeqs DEF TypeOK
  <2>8. Split(queue'[idx], queue[idx], s)
    BY <2>7, Splits
  <2>9. queue' = [queue EXCEPT ![idx] = queue'[idx]]
    BY <2>5, <2>7
  <2>10. QED BY <1>2, <1>3, <2>1, <2>5, <2>6, <2>8, <2>9, ShareSpliced DEF TypeOK
<1>7. CASE Repost(e)
  <2>1. idx \in Executors
    BY <1>7 DEF Repost, At, LocalsOK
  <2>2. queue[idx] \in Seq(Items) /\ SchedulingTask \in Items
    BY <2>1 DEF TypeOK, Items
  <2>3. /\ queue' = [queue EXCEPT ![idx] = queue'[idx]]
        /\ queue'[idx] = Append(queue[idx], SchedulingTask)
    BY <1>7, <2>1 DEF Repost, TypeOK
  <2>4. Split(queue'[idx], queue[idx], <<SchedulingTask>>)
    <3>1. Split(Append(queue[idx], SchedulingTask), queue[idx], <<SchedulingTask>>)
      BY <2>2, Splits
    <3>2. QED BY <2>3, <3>1
  <2>5. UNCHANGED <<global, batch>>
    BY <1>7 DEF Repost, schedVars
  <2>6. ASSUME NEW t \in Tasks, NEW k, NEW o, Settled(t, k, o) PROVE Settled(t, k, o)'
    <3>1. /\ t \in Elements(queue'[idx]) <=> t \in Elements(queue[idx])
          /\ Solo(queue'[idx], t) <=> Solo(queue[idx], t)
      BY <2>4, SplitElements, ShortSeqs, ItemAssumption
    <3>2. \A u \in Executors : /\ t \in Elements(queue'[u]) <=> t \in Elements(queue[u])
                               /\ Solo(queue'[u], t) <=> Solo(queue[u], t)
      BY <2>3, <3>1 DEF TypeOK
    <3>3. QED BY <1>2, <1>3, <2>5, <2>6, <3>2 DEF Settled
  <2>7. QED BY <2>6 DEF PlacesOK
<1>8. CASE UNCHANGED <<global, batch, queue>>
  BY <1>2, <1>3, <1>8, NoTaskMoved
<1>9. QED
  BY <1>5, <1>6, <1>7, <1>8 DEF Inner, SchedulePred, CollectBusy, ScanBusy, AwaitStateChange,
     CountEnqueued, WakeUp, TickEpoch, FlipEpoch, execVars, schedVars

\* Taking an item, ending it, entering and leaving schedule() move at most that item.
LEMMA OtherPlaces ==
  ASSUME TypeOK, Control, BatchOK, HandOK, PlacesOK, NEW e \in Executors, Other(e)
  PROVE  PlacesOK'
<1> USE DEF Control
<1>1. CASE EndTask(e)
  BY <1>1, TaskEnded
<1>2. ~EndTask(e) => \A t : Created(t)' <=> Created(t)
  BY CreatedSame DEF Barren
<1>3. pc[e] # "run" => ~EndTask(e)
  BY DEF EndTask, At
<1>4. CASE Pop(e) \/ StealTask(e)
  <2>1. \A t \in Tasks : Created(t)' <=> Created(t)
    BY <1>2, <1>3, <1>4 DEF Pop, StealTask, At
  <2>2. UNCHANGED <<global, batch, done>> /\ hand[e] \notin Tasks
    BY <1>4 DEF Pop, StealTask, At, HandOK, schedVars, history
  <2>3. PICK x : x = hand'[e]
    OBVIOUS
  <2>4. \E v \in Executors :
          /\ Split(queue[v], <<x>>, queue'[v]) \/ Split(queue[v], queue'[v], <<x>>)
          /\ queue' = [queue EXCEPT ![v] = queue'[v]]
    <3>1. CASE Pop(e)
      <4>1. queue[e] \in Seq(Items) /\ queue[e] # <<>>
        BY <3>1, PopTakes DEF Taken, TypeOK
      <4>2. x = Head(queue[e]) /\ queue'[e] = Tail(queue[e])
        BY <2>3, <3>1 DEF Pop, TypeOK
      <4>3. Split(queue[e], <<x>>, queue'[e])
        BY <4>1, <4>2, Splits
      <4>4. QED BY <3>1, <4>3, PopTakes DEF Taken
    <3>2. CASE StealTask(e)
      <4>1. PICK v \in Executors : v = Head(CurrentTargets(e)) /\ Taken(e, v)
        BY <3>2, StealTakes DEF Taken
      <4>2. queue[v] \in Seq(Items) /\ queue[v] # <<>>
        BY <4>1 DEF Taken, TypeOK
      <4>3. x = queue[v][Len(queue[v])] /\ queue'[v] = WithoutLast(queue[v])
        BY <2>3, <3>2, <4>1 DEF StealTask, TypeOK
      <4>4. Split(queue[v], queue'[v], <<x>>)
        BY <4>2, <4>3, Splits
      <4>5. QED BY <4>1, <4>4 DEF Taken
    <3>3. QED BY <1>4, <3>1, <3>2
  <2>5. hand' = [hand EXCEPT ![e] = x]
    BY <1>4, <2>3, PopTakes, StealTakes DEF Taken
  <2>6. QED BY <2>1, <2>2, <2>4, <2>5, ItemTaken DEF TypeOK
<1>5. CASE TryScheduling(e) \/ Unlock(e)
  <2>1. UNCHANGED <<global, queue, flow, history>>
    BY <1>5 DEF TryScheduling, Unlock, execVars, clientVars
  <2>2. batch' = batch
    <3>1. CASE TryScheduling(e)
      BY <3>1 DEF TryScheduling, schedVars
    <3>2. CASE Unlock(e)
      <4>1. mx = e /\ pc[e] = "unlock" /\ batch' = <<>>
        BY <3>2 DEF Unlock, At, LockOK, SchedLabels
      <4>2. Buffered(pc[e])
        BY <4>1 DEF BatchOK
      <4>3. QED BY <4>1, <4>2 DEF Buffered
    <3>3. QED BY <1>5, <3>1, <3>2
  <2>3. \A t \in Tasks : Created(t)' <=> Created(t)
    BY <1>2, <1>3, <1>5 DEF TryScheduling, Unlock, At
  <2>4. \A o \in Executors, t \in Tasks : hand'[o] = t <=> hand[o] = t
    <3>1. pc[e] # "run"
      BY <1>5 DEF TryScheduling, Unlock, At
    <3>2. hand' = hand \/ hand' = [hand EXCEPT ![e] = NoTask]
      BY <1>5 DEF TryScheduling, Unlock
    <3>3. QED BY <3>1, <3>2, ItemAssumption DEF HandOK, TypeOK, Items
  <2>5. QED BY <2>1, <2>2, <2>3, <2>4, NoTaskMoved DEF history
<1>6. QED BY <1>1, <1>4, <1>5 DEF Other

\* Every step keeps each task in one place.
LEMMA PlacesStep ==
  ASSUME TypeOK, Control, BatchOK, HandOK, PlacesOK, [Next]_vars
  PROVE  PlacesOK'
<1>1. CASE UNCHANGED vars \/ ExecuteFlow \/ SpawnThreads
  <2>1. UNCHANGED <<global, batch, queue, hand, done>>
    BY <1>1 DEF vars, ExecuteFlow, SpawnThreads, execVars, threadVars, schedVars, history
  <2>2. \A t : Created(t)' <=> Created(t)
    BY <1>1, CreatedSame DEF Barren
  <2>3. QED BY <2>1, <2>2, NoTaskMoved
<1>2. QED BY <1>1, QuietPlaces, InnerPlaces, OtherPlaces, Steps

\* Nothing has been created at first.
LEMMA InitPlaces == Init => HandOK /\ PlacesOK
<1> SUFFICES ASSUME Init PROVE HandOK /\ PlacesOK
  OBVIOUS
<1>1. /\ global = <<>> /\ batch = <<>> /\ done = {} /\ flow = 1 /\ pc[0] = "add"
      /\ \A e \in Executors : queue[e] = <<>> /\ hand[e] = NoTask
  BY ZeroInExecutors DEF Init
<1>2. ASSUME NEW t \in Tasks PROVE Settled(t, "none", 0)
  <2>1. ~Created(t)
    BY <1>1 DEF Created, Submitted, At
  <2>2. QED BY <1>1, <2>1, ShortSeqs, ItemAssumption DEF Settled, Items
<1>3. QED BY <1>1, <1>2, ItemAssumption DEF PlacesOK, HandOK, Items

\* The invariant about the tasks holds in every state.
LEMMA PlacesInvariant == Spec => [](HandOK /\ PlacesOK)
<1>1. Init => HandOK /\ PlacesOK
  BY InitPlaces
<1>2. IInv /\ BatchOK /\ HandOK /\ PlacesOK /\ [Next]_vars => (HandOK /\ PlacesOK)'
  BY HandStep, PlacesStep DEF IInv
<1>3. QED BY <1>1, <1>2, InductiveInvariant, BatchInvariant, PTL DEF Spec

\* A task that is settled has one place, or none if it has not been created.
LEMMA OnePlace ==
  ASSUME NEW t \in Tasks, NEW k, NEW o, Settled(t, k, o)
  PROVE  Cardinality(Places(t)) <= 1 /\ (Places(t) = {} => ~Created(t))
<1> DEFINE inGlobal == {<<"global", 0, i>> : i \in Positions(global, t)}
           inBatch  == {<<"batch", 0, i>> : i \in Positions(batch, t)}
           inQueues == UNION {{<<"queue", e, i>> : i \in Positions(queue[e], t)} : e \in Executors}
           inHands  == {<<"hand", e, 0>> : e \in {u \in Executors : hand[u] = t}}
           inDone   == IF t \in done THEN {<<"done", 0, 0>>} ELSE {}
<1>1. Places(t) = inGlobal \cup inBatch \cup inQueues \cup inHands \cup inDone
  BY DEF Places
<1>2. /\ \A x \in inGlobal : k = "global" /\ \A y \in inGlobal : x = y
      /\ k = "global" => inGlobal # {}
  BY ZenonT(30) DEF Settled, Elements, Solo, Positions
<1>3. /\ \A x \in inBatch : k = "batch" /\ \A y \in inBatch : x = y
      /\ k = "batch" => inBatch # {}
  BY DEF Settled, Elements, Solo, Positions
<1>4. /\ \A x \in inHands : k = "hand" /\ \A y \in inHands : x = y
      /\ k = "hand" => inHands # {}
  BY DEF Settled
<1>5. /\ \A x \in inDone : k = "done" /\ \A y \in inDone : x = y
      /\ k = "done" => inDone # {}
  BY DEF Settled
<1>6. /\ \A x \in inQueues : k = "queue" /\ \A y \in inQueues : x = y
      /\ k = "queue" => inQueues # {}
  <2>1. \A x \in inQueues : \E e \in Executors : \E i \in 1 .. Len(queue[e]) :
            x = <<"queue", e, i>> /\ queue[e][i] = t
    <3>1. TAKE x \in inQueues
    <3>2. PICK e \in Executors : x \in {<<"queue", e, i>> : i \in Positions(queue[e], t)}
      BY <3>1
    <3>3. QED BY <3>2 DEF Positions
  <2>2. \A e \in Executors : \A i \in 1 .. Len(queue[e]) : queue[e][i] = t => k = "queue" /\ o = e
    BY DEF Settled, Elements
  <2>3. \A e \in Executors : Solo(queue[e], t)
    BY DEF Settled
  <2>4. k = "queue" => inQueues # {}
    <3>1. k = "queue" => o \in Executors /\ t \in Elements(queue[o])
      BY DEF Settled
    <3>2. k = "queue" => \E i : i \in Positions(queue[o], t)
      BY <3>1 DEF Elements, Positions
    <3>3. \A i : o \in Executors /\ i \in Positions(queue[o], t) => <<"queue", o, i>> \in inQueues
      OBVIOUS
    <3>4. QED BY <3>1, <3>2, <3>3
  <2> HIDE DEF inQueues
  <2>5. QED BY <2>1, <2>2, <2>3, <2>4 DEF Solo
<1> HIDE DEF inGlobal, inBatch, inQueues, inHands, inDone
<1>7. \A x, y \in Places(t) : x = y
  BY <1>1, <1>2, <1>3, <1>4, <1>5, <1>6
<1>8. Places(t) = {} => ~Created(t)
  <2>1. SUFFICES ASSUME Created(t) PROVE Places(t) # {}
    OBVIOUS
  <2>2. k \in {"global", "batch", "queue", "hand", "done"}
    BY <2>1 DEF Settled
  <2>3. QED BY <1>1, <1>2, <1>3, <1>4, <1>5, <1>6, <2>2
<1>9. QED BY <1>7, <1>8, AtMostOne

\* No task is lost, duplicated or executed twice, whatever the number of executors and
\* however often thieves, the scheduler and owners take turns at the queues.
THEOREM TasksConserved == Spec => []TaskConservation
<1>1. PlacesOK => TaskConservation
  BY OnePlace DEF PlacesOK, TaskConservation
<1>2. QED BY <1>1, PlacesInvariant, PTL

-----------------------------------------------------------------------------
(* The pool implements TaskFlow *)

\* An executor 0 that was told to stop, which its on_halt_handler does, leaves its cycle.
PendingOK == state[0] = "pending_shutdown" => pc[0] \in {"loop", "stop"}

\* What stands for the variables of TaskFlow.
InQueues  == UNION {Elements(queue[e]) : e \in Executors}
Waiting   == Tasks \cap (Elements(global) \cup Elements(batch) \cup InQueues)
Executing == {hand[e] : e \in Executors} \cap Tasks
FlowNow   == IF FlowOver THEN flow + 1 ELSE flow
FlowOpen  == pc[0] \notin {"add", "destroy", "join", "end"} /\ ~FlowOver

\* Only LeaveCycle and Stop are enabled once executor 0 was told to stop.
LEMMA PendingStep ==
  ASSUME TypeOK, Control, PendingOK, [Next]_vars
  PROVE  PendingOK'
<1> USE DEF Control
<1>1. CASE UNCHANGED vars \/ ExecuteFlow \/ SpawnThreads
  BY <1>1 DEF vars, ExecuteFlow, SpawnThreads, At, PendingOK, execVars
<1>2. ASSUME NEW e \in Executors, Quiet(e) PROVE PendingOK'
  <2>1. PICK l : QuietMove(e, l)
    BY <1>2, QuietSteps
  <2>2. CASE e = 0
    <3>1. CASE AddTasks \/ Shutdown \/ Join \/ Destroyed \/ SyncEpoch \/ SyncWait \/ Bye(e)
      <4>1. pc[0] \notin {"loop", "stop"} /\ state'[0] = state[0]
        <5>1. CASE Shutdown
          <6>1. joining # 0
            BY DEF TypeOK
          <6>2. QED BY <5>1, <6>1, ZeroInExecutors DEF Shutdown, At, TypeOK
        <5>2. CASE ~Shutdown
          BY <2>2, <3>1, <5>2 DEF AddTasks, Join, Destroyed, SyncEpoch, SyncWait, Bye, At, execVars
        <5>3. QED BY <5>1, <5>2
      <4>2. QED BY <4>1 DEF PendingOK
    <3>2. CASE SyncDecide
      BY <3>2, ZeroInExecutors DEF SyncDecide, Goto, At, PendingOK, TypeOK
    <3>3. CASE Enter(e) \/ Halt(e) \/ Stop(e)
      <4>1. state'[0] # "pending_shutdown"
        BY <2>2, <3>3 DEF Enter, Halt, Stop, At, PendingOK, TypeOK
      <4>2. QED BY <4>1 DEF PendingOK
    <3>4. CASE LeaveCycle(e)
      BY <2>2, <3>4 DEF LeaveCycle, Goto, PendingOK, TypeOK
    <3>5. CASE \/ BeginStealing(e) \/ ContinueStealing(e) \/ StealBlocked(e) \/ StealNothing(e)
               \/ Announce(e) \/ Parked(e)
      <4>1. state'[0] = state[0] /\ state[0] # "pending_shutdown"
        BY <2>2, <3>5 DEF BeginStealing, ContinueStealing, OwnQueuePred, StealBlocked, StealNothing,
           Announce, Parked, At, PendingOK, execVars
      <4>2. QED BY <4>1 DEF PendingOK
    <3>6. QED BY <1>2, <2>2, <3>1, <3>2, <3>3, <3>4, <3>5 DEF Quiet
  <2>3. CASE e # 0
    <3>1. pc'[0] = pc[0]
      BY <2>1, <2>3 DEF QuietMove, TypeOK
    <3>2. state'[0] = state[0]
      BY <1>2, <2>3, ZeroInExecutors DEF Quiet, Enter, LeaveCycle, BeginStealing, ContinueStealing,
         OwnQueuePred, StealBlocked, StealNothing, Halt, Announce, Parked, Stop, Bye, TypeOK, execVars
    <3>3. QED BY <3>1, <3>2 DEF PendingOK
  <2>4. QED BY <2>2, <2>3
<1>3. ASSUME NEW e \in Executors, Inner(e) PROVE PendingOK'
  <2>1. PICK l : InnerMove(e, l)
    BY <1>3, InnerSteps
  <2>2. state'[0] = "pending_shutdown" => state[0] = "pending_shutdown"
    BY <1>3, InnerEffects, ZeroInExecutors DEF InnerEffect
  <2>3. CASE e = 0
    <3>1. pc[0] \notin {"loop", "stop"}
      BY <2>1, <2>3 DEF InnerMove, SchedLabels
    <3>2. QED BY <2>2, <3>1 DEF PendingOK
  <2>4. CASE e # 0
    <3>1. pc'[0] = pc[0]
      BY <2>1, <2>4 DEF InnerMove, TypeOK
    <3>2. QED BY <2>2, <3>1 DEF PendingOK
  <2>5. QED BY <2>3, <2>4
<1>4. ASSUME NEW e \in Executors, Other(e) PROVE PendingOK'
  <2>1. PICK l : OtherMove(e, l)
    BY <1>4, OtherSteps
  <2>2. CASE e = 0 /\ Pop(e)
    BY <2>1, <2>2 DEF Pop, OtherMove, PendingOK
  <2>3. CASE e = 0 /\ ~Pop(e)
    <3>1. pc[e] \in {"steal", "run", "try", "unlock"}
      BY <1>4, <2>3 DEF Other, StealTask, EndTask, TryScheduling, Unlock, At
    <3>2. QED BY <2>1, <2>3, <3>1 DEF OtherMove, PendingOK
  <2>4. CASE e # 0
    BY <2>1, <2>4 DEF OtherMove, PendingOK, TypeOK
  <2>5. QED BY <2>2, <2>3, <2>4
<1>5. QED BY <1>1, <1>2, <1>3, <1>4, Steps

\* Only AddTasks opens a flow and only SyncDecide ends it.
LEMMA FlowKept ==
  ASSUME TypeOK, Control, PendingOK, PendingOK', [Next]_vars,
         ~AddTasks, ~(SyncDecide /\ seen < 0)
  PROVE  UNCHANGED <<FlowNow, FlowOpen>>
<1> USE DEF Control
<1> USE DEF FlowNow, FlowOpen, FlowOver, At, PendingOK
<1>1. CASE UNCHANGED vars \/ ExecuteFlow \/ SpawnThreads
  <2>1. UNCHANGED <<flow, state>>
    BY <1>1 DEF vars, ExecuteFlow, SpawnThreads, execVars, clientVars
  <2>2. CASE UNCHANGED vars
    BY <2>1, <2>2 DEF vars
  <2>3. CASE ExecuteFlow
    <3>1. pc[0] = "flow" /\ pc'[0] \in {"try", "spawn", "enter"}
      BY <2>3, ZeroInExecutors DEF ExecuteFlow, Goto, TypeOK
    <3>2. QED BY <2>1, <3>1
  <2>4. CASE SpawnThreads
    <3>1. pc[0] = "spawn" /\ pc'[0] = "enter"
      BY <2>4, ZeroInExecutors DEF SpawnThreads
    <3>2. QED BY <2>1, <3>1
  <2>5. QED BY <1>1, <2>2, <2>3, <2>4
<1>2. ASSUME NEW e \in Executors, Quiet(e) PROVE UNCHANGED <<FlowNow, FlowOpen>>
  <2>1. PICK l : QuietMove(e, l)
    BY <1>2, QuietSteps
  <2>2. CASE e = 0
    <3>1. CASE Bye(e)
      <4>1. pc[0] = "bye" /\ pc'[0] \in {"add", "destroy"} /\ flow' = flow + 1
        BY <2>2, <3>1, ZeroInExecutors DEF Bye, Goto, TypeOK
      <4>2. QED BY <4>1
    <3>2. CASE SyncDecide /\ seen >= 0
      <4>1. pc[0] = "sync_decide" /\ pc'[0] \in {"sync_wait", "loop"} /\ UNCHANGED <<flow, state>>
        BY <3>2, ZeroInExecutors DEF SyncDecide, Goto, TypeOK, clientVars
      <4>2. QED BY <4>1
    <3>3. CASE Shutdown \/ Join \/ Destroyed
      <4>1. /\ pc[0] \in {"destroy", "join"} /\ pc'[0] \in {"destroy", "join", "end"}
            /\ flow' = flow
        BY <3>3, ZeroInExecutors DEF Shutdown, Join, Destroyed, Goto, TypeOK, clientVars
      <4>2. QED BY <4>1
    <3>4. CASE Enter(e) \/ Halt(e) \/ Announce(e) \/ Parked(e) \/ SyncEpoch \/ SyncWait
      <4>1. /\ pc[0] \in {"enter", "halt", "announce", "parked", "sync_epoch", "sync_wait"}
            /\ pc'[0] \in {"loop", "announce", "sync_epoch", "sync_decide", "parked"}
            /\ flow' = flow
        BY <2>2, <3>4, ZeroInExecutors DEF Enter, Halt, Announce, Parked, SyncEpoch, SyncWait,
           Goto, TypeOK, clientVars
      <4>2. state'[0] # "pending_shutdown"
        BY <2>2, <3>4, <4>1, ZeroInExecutors DEF Enter, Halt, Announce, Parked, SyncEpoch, SyncWait,
           TypeOK, execVars
      <4>3. QED BY <4>1, <4>2
    <3>5. CASE BeginStealing(e) \/ ContinueStealing(e) \/ StealBlocked(e) \/ StealNothing(e)
      <4>1. /\ pc[0] \in {"loop", "pred", "steal"} /\ state[0] # "pending_shutdown"
            /\ pc'[0] \in {"loop", "halt", "steal", "pred", "s_pred"}
            /\ UNCHANGED <<flow, state>>
        BY <2>2, <3>5, ZeroInExecutors, ZenonT(30) DEF BeginStealing, ContinueStealing, OwnQueuePred,
           StealBlocked, StealNothing, Goto, TypeOK, clientVars, execVars
      <4>2. QED BY <4>1
    <3>6. CASE LeaveCycle(e) \/ Stop(e)
      <4>1. /\ pc'[0] \in {"stop", "bye"} /\ flow' = flow
            /\ pc[0] = "stop" \/ (pc[0] = "loop" /\ state[0] = "pending_shutdown")
        BY <2>2, <3>6, ZeroInExecutors DEF LeaveCycle, Stop, Goto, TypeOK, clientVars
      <4>2. QED BY <4>1
    <3>7. seen < 0 \/ seen >= 0
      BY DEF TypeOK
    <3>8. QED BY <1>2, <2>2, <3>1, <3>2, <3>3, <3>4, <3>5, <3>6, <3>7 DEF Quiet
  <2>3. CASE e # 0
    <3>1. pc'[0] = pc[0]
      BY <2>1, <2>3 DEF QuietMove, TypeOK
    <3>2. state'[0] = state[0] /\ flow' = flow
      BY <1>2, <2>3, ZeroInExecutors DEF Quiet, Enter, LeaveCycle, BeginStealing, ContinueStealing,
         OwnQueuePred, StealBlocked, StealNothing, Halt, Announce, Parked, Stop, Bye, TypeOK,
         execVars, clientVars
    <3>3. QED BY <3>1, <3>2
  <2>4. QED BY <2>2, <2>3
<1>3. ASSUME NEW e \in Executors, Inner(e) \/ Other(e) PROVE UNCHANGED <<FlowNow, FlowOpen>>
  <2>1. flow' = flow /\ (state'[0] = "pending_shutdown" <=> state[0] = "pending_shutdown")
    <3>1. CASE Inner(e)
      <4>1. flow' = flow
        BY <3>1, InnerSteps DEF InnerMove, clientVars
      <4>2. QED BY <3>1, <4>1, InnerEffects, ZeroInExecutors DEF InnerEffect
    <3>2. CASE Other(e)
      BY <3>2, OtherSteps DEF OtherMove, clientVars
    <3>3. QED BY <1>3, <3>1, <3>2
  <2>2. CASE e # 0
    <3>1. pc'[0] = pc[0]
      <4>1. \E l : pc' = [pc EXCEPT ![e] = l]
        BY <1>3, InnerSteps, OtherSteps DEF InnerMove, OtherMove
      <4>2. QED BY <2>2, <4>1 DEF TypeOK
    <3>2. QED BY <2>1, <3>1
  <2>3. CASE e = 0
    <3>1. /\ pc[0] \in SchedLabels \cup {"loop", "steal", "run", "try"}
          /\ pc'[0] \in SchedLabels \cup {"loop", "steal", "run", "try", "pred", "spawn", "enter"}
          /\ pc[0] = "loop" => state[0] # "pending_shutdown"
      <4>1. CASE Inner(e)
        <5>1. PICK k : InnerMove(e, k)
          BY <4>1, InnerSteps
        <5>2. QED BY <2>3, <5>1, ZeroInExecutors DEF InnerMove, SchedLabels, TypeOK
      <4>2. CASE Other(e)
        <5>1. pc[e] = "loop" => Pop(e)
          BY <4>2 DEF Other, StealTask, EndTask, TryScheduling, Unlock
        <5>2. PICK k : OtherMove(e, k)
          BY <4>2, OtherSteps
        <5>3. pc[e] = "loop" => state[0] # "pending_shutdown"
          BY <2>3, <5>1 DEF Pop
        <5>4. QED BY <2>3, <5>2, <5>3, ZeroInExecutors DEF OtherMove, SchedLabels, TypeOK
      <4>3. QED BY <1>3, <4>1, <4>2
    <3>2. state[0] # "pending_shutdown"
      BY <3>1 DEF SchedLabels
    <3>3. QED BY <2>1, <3>1, <3>2 DEF SchedLabels
  <2>4. QED BY <2>2, <2>3
<1>4. QED BY <1>1, <1>2, <1>3, Steps

\* Where every task is in one place, those waiting are the created ones that are neither in
\* a hand nor done.
WaitingOK == /\ \A t \in Tasks : /\ t \in Waiting <=> Created(t) /\ t \notin Executing \cup done
                                 /\ t \in Executing \cup done => Created(t)
             /\ Executing \cap done = {}

LEMMA WaitingTasks == PlacesOK => WaitingOK
<1> SUFFICES ASSUME PlacesOK PROVE WaitingOK
  OBVIOUS
<1>1. \A t : t \in InQueues <=> \E e \in Executors : t \in Elements(queue[e])
  BY DEF InQueues
<1>2. \A t : t \in Executing <=> t \in Tasks /\ \E e \in Executors : hand[e] = t
  BY DEF Executing
<1>3. ASSUME NEW t \in Tasks
      PROVE  /\ t \in Waiting <=> Created(t) /\ t \notin Executing /\ t \notin done
             /\ ~(t \in Executing /\ t \in done)
             /\ t \in Executing \/ t \in done => Created(t)
  <2>1. PICK k, o : Settled(t, k, o)
    BY DEF PlacesOK
  <2>2. t \in Executing <=> k = "hand"
    BY <1>2, <2>1 DEF Settled
  <2>3. t \in InQueues <=> k = "queue"
    BY <1>1, <2>1 DEF Settled
  <2>4. t \in Waiting <=> k \in {"global", "batch", "queue"}
    BY <2>1, <2>3 DEF Waiting, Settled
  <2>5. QED BY <2>1, <2>2, <2>4 DEF Settled
<1>4. QED BY <1>2, <1>3 DEF WaitingOK

\* The initial states are initial states of TaskFlow.
LEMMA PromiseInit == Init => Promise!Init
<1> SUFFICES ASSUME Init PROVE Promise!Init
  OBVIOUS
<1>1. /\ global = <<>> /\ batch = <<>> /\ done = {} /\ flow = 1 /\ pc[0] = "add"
      /\ \A e \in Executors : queue[e] = <<>> /\ hand[e] = NoTask
  BY ZeroInExecutors DEF Init
<1>2. Waiting = {} /\ Executing = {}
  <2>1. \A e \in Executors : Elements(queue[e]) = {}
    BY <1>1, ShortSeqs
  <2>2. InQueues = {}
    BY <2>1 DEF InQueues
  <2>3. QED BY <1>1, <2>2, ShortSeqs, ItemAssumption DEF Waiting, Executing, Items
<1>3. FlowNow = 1 /\ FlowOpen = FALSE
  BY <1>1 DEF FlowNow, FlowOpen, FlowOver, At
<1>4. QED
  BY <1>1, <1>2, <1>3 DEF Promise!Init, Waiting, InQueues, Executing, FlowNow, FlowOpen

\* Every step of the pool is a step of TaskFlow or changes nothing there.
LEMMA PromiseStep ==
  ASSUME TypeOK, TypeOK', Control, BatchOK, HandOK, PlacesOK, PlacesOK', PendingOK, PendingOK',
         [Next]_vars
  PROVE  [Promise!Next]_(Promise!vars)
<1> USE DEF Control
<1>1. /\ \A t \in Tasks : /\ t \in Waiting <=> Created(t) /\ t \notin Executing \cup done
                          /\ t \in Executing \cup done => Created(t)
      /\ Executing \cap done = {} /\ Waiting \subseteq Tasks /\ Executing \subseteq Tasks
  BY WaitingTasks DEF WaitingOK, Waiting, Executing
<1>2. /\ \A t \in Tasks : t \in Waiting' <=> Created(t)' /\ t \notin Executing' \cup done'
      /\ Waiting' \subseteq Tasks /\ Executing' \subseteq Tasks
  <2>1. (PlacesOK => WaitingOK)'
    BY WaitingTasks, PTL
  <2>2. QED BY <2>1 DEF WaitingOK, Waiting, Executing
<1>3. CASE AddTasks
  <2>1. UNCHANGED <<Executing, done, flow>>
    BY <1>3 DEF AddTasks, Executing, threadVars, clientVars, history
  <2>2. \A t \in Tasks : Created(t)' <=> Created(t) \/ t \in Elements(Flows[flow])
    BY <1>3, FlowCreates
  <2>3. \A t \in Tasks : t \in Elements(Flows[flow]) => ~Created(t)
    BY <1>3, FlowCreates
  <2>4. Elements(Flows[flow]) \subseteq Tasks
    <3>1. Flows[flow] \in Seq(Tasks)
      BY <1>3, FlowCreates
    <3>2. QED BY <3>1, ElementOfSeq DEF Elements
  <2>5. Waiting' = Waiting \cup Elements(Flows[flow])
    <3>1. \A t \in Elements(Flows[flow]) : t \notin Executing /\ t \notin done
      BY <1>1, <2>3, <2>4
    <3>2. \A t \in Tasks : t \in Waiting' <=> t \in Waiting \/ t \in Elements(Flows[flow])
      BY <1>1, <1>2, <2>1, <2>2, <3>1
    <3>3. QED BY <1>1, <1>2, <2>4, <3>2
  <2>6. pc[0] = "add" /\ pc'[0] = "flow" /\ flow <= Len(Flows)
    <3>1. flow \in 1 .. Len(Flows)
      BY <1>3, FlowCreates
    <3>2. QED BY <1>3, <3>1, ZeroInExecutors DEF AddTasks, At, Goto, TypeOK
  <2>7. FlowOpen = FALSE /\ FlowOpen' = TRUE /\ FlowNow = flow /\ FlowNow' = FlowNow
    BY <2>1, <2>6 DEF FlowOpen, FlowNow, FlowOver, At
  <2>8. Promise!Submit
    BY <2>1, <2>5, <2>6, <2>7
       DEF Promise!Submit, Promise!Elements, Elements, Waiting, InQueues, Executing, FlowNow, FlowOpen
  <2>9. QED BY <2>8 DEF Promise!Next
<1>4. CASE SyncDecide /\ seen < 0
  <2>1. UNCHANGED <<Executing, Waiting, done, flow>>
    BY <1>4 DEF SyncDecide, Executing, Waiting, InQueues, threadVars, schedVars, history
  <2>2. /\ pc[0] = "sync_decide" /\ pc'[0] = "loop" /\ state'[0] = "pending_shutdown"
    BY <1>4, ZeroInExecutors DEF SyncDecide, At, Goto, TypeOK
  <2>3. FlowOpen = TRUE /\ FlowOpen' = FALSE /\ FlowNow = flow /\ FlowNow' = flow + 1
    BY <2>1, <2>2 DEF FlowOpen, FlowNow, FlowOver, At
  <2>4. Promise!Return
    BY <2>1, <2>3
       DEF Promise!Return, Waiting, InQueues, Executing, FlowNow, FlowOpen
  <2>5. QED BY <2>4 DEF Promise!Next
<1>5. ASSUME ~AddTasks, ~(SyncDecide /\ seen < 0)
      PROVE  UNCHANGED <<FlowNow, FlowOpen>>
  BY <1>5, FlowKept
<1>6. ASSUME NEW e \in Executors, EndTask(e) PROVE \E t \in Tasks : Promise!End(t)
  <2>1. PICK p : p = hand[e]
    OBVIOUS
  <2>2. /\ p \in Tasks \ done
        /\ \A t \in Tasks : t \in Elements(Children[p]) => ~Created(t)
        /\ \/ \A t \in Tasks : Created(t)' <=> Created(t) \/ t \in Elements(Children[p])
           \/ p \in Throws /\ \A t \in Tasks : Created(t)' <=> Created(t)
    BY <1>6, <2>1, EndCreates
  <2>3. p \in Executing /\ done' = done \cup {p} /\ pc[e] = "run"
    BY <1>6, <2>1, <2>2 DEF EndTask, At, Executing
  <2>4. Executing' = Executing \ {p}
    <3>1. \A o \in Executors : o # e => hand[o] # p /\ hand'[o] = hand[o]
      BY <1>6, <2>1, <2>2 DEF PlacesOK, Settled, EndTask, TypeOK
    <3>2. hand'[e] = NoTask
      BY <1>6 DEF EndTask, TypeOK
    <3>3. \A t \in Tasks : t \in Executing' <=> t \in Executing /\ t # p
      <4>1. \A t \in Tasks : (\E o \in Executors : hand'[o] = t)
                               <=> (\E o \in Executors : o # e /\ hand[o] = t)
        BY <3>1, <3>2, ItemAssumption DEF Items
      <4>2. \A t \in Tasks : (\E o \in Executors : o # e /\ hand[o] = t)
                               <=> (\E o \in Executors : hand[o] = t) /\ t # p
        BY <2>1, <3>1
      <4>3. QED BY <4>1, <4>2 DEF Executing
    <3>4. QED BY <1>1, <1>2, <3>3
  <2>5. UNCHANGED <<FlowNow, FlowOpen>>
    <3>1. ~AddTasks /\ ~(SyncDecide /\ seen < 0)
      <4>1. CASE e = 0
        BY <2>3, <4>1 DEF AddTasks, SyncDecide, At
      <4>2. CASE e # 0
        BY <2>2, <2>3 DEF AddTasks, SyncDecide, history
      <4>3. QED BY <4>1, <4>2
    <3>2. QED BY <1>5, <3>1
  <2>6. ASSUME \A t \in Tasks : Created(t)' <=> Created(t) \/ t \in Elements(Children[p])
        PROVE  Waiting' = Waiting \cup Elements(Children[p])
    <3>1. Elements(Children[p]) \subseteq Tasks
      BY <2>2, GraphAssumption, ElementOfSeq DEF Elements
    <3>2. \A t \in Tasks : t \in Elements(Children[p]) => t \notin Executing /\ t \notin done
      BY <1>1, <2>2
    <3>3. \A t \in Tasks : t \in Waiting' <=> t \in Waiting \/ t \in Elements(Children[p])
      BY <1>1, <1>2, <2>2, <2>3, <2>4, <2>6, <3>2
    <3>4. QED BY <1>1, <1>2, <3>1, <3>3
  <2>7. ASSUME \A t \in Tasks : Created(t)' <=> Created(t)
        PROVE  Waiting' = Waiting
    <3>1. \A t \in Tasks : t \in Waiting' <=> t \in Waiting
      BY <1>1, <1>2, <2>2, <2>3, <2>4, <2>7
    <3>2. QED BY <1>1, <1>2, <3>1
  <2>8. \/ Waiting' = Waiting \cup Elements(Children[p])
        \/ p \in Throws /\ Waiting' = Waiting
    BY <2>2, <2>6, <2>7
  <2>9. Promise!End(p)
    BY <2>3, <2>4, <2>5, <2>8
       DEF Promise!End, Promise!Elements, Elements, Waiting, InQueues, Executing, FlowNow, FlowOpen
  <2>10. QED BY <2>2, <2>9
<1>7. ASSUME NEW e \in Executors, Pop(e) \/ StealTask(e), hand'[e] \in Tasks
      PROVE  \E t \in Tasks : Promise!Begin(t)
  <2>1. PICK x \in Tasks : x = hand'[e]
    BY <1>7
  <2>2. pc[e] \in {"loop", "steal"} /\ ~EndTask(e) /\ done' = done
    BY <1>7 DEF Pop, StealTask, EndTask, At, history
  <2>3. \A t \in Tasks : Created(t)' <=> Created(t)
    BY <1>7, <2>2, CreatedSame DEF Barren, Other
  <2>4. hand[e] \notin Tasks /\ \A o \in Executors : o # e => hand'[o] = hand[o]
    BY <1>7, <2>2 DEF Pop, StealTask, HandOK, TypeOK
  <2>5. Created(x) /\ x \notin done /\ Executing' = Executing \cup {x} /\ x \notin Executing
    <3>1. PICK k, o : Settled(x, k, o)'
      BY DEF PlacesOK
    <3>2. k = "hand" /\ o = e
      BY <2>1, <3>1 DEF Settled
    <3>3. Created(x) /\ x \notin done
      BY <2>2, <2>3, <3>1, <3>2 DEF Settled
    <3>4. \A u \in Executors : hand[u] # x
      BY <2>1, <2>4, <3>1, <3>2 DEF Settled
    <3>5. \A t \in Tasks : (\E u \in Executors : hand'[u] = t) <=> t = x \/ \E u \in Executors : hand[u] = t
      BY <2>1, <2>4
    <3>6. QED BY <3>3, <3>4, <3>5 DEF Executing
  <2>6. Waiting' = Waiting \ {x} /\ x \in Waiting
    <3>1. \A t \in Tasks : t \in Waiting' <=> t \in Waiting /\ t # x
      BY <1>1, <1>2, <2>2, <2>3, <2>5
    <3>2. QED BY <1>1, <1>2, <2>5, <3>1
  <2>7. UNCHANGED <<FlowNow, FlowOpen>>
    <3>1. hand' # hand
      BY <2>1, <2>4
    <3>2. QED BY <1>5, <3>1 DEF AddTasks, SyncDecide, threadVars
  <2>8. Promise!Begin(x)
    BY <2>2, <2>5, <2>6, <2>7
       DEF Promise!Begin, Waiting, InQueues, Executing, FlowNow, FlowOpen
  <2>9. QED BY <2>8
<1>8. ASSUME Barren, \A t \in Tasks, e \in Executors : hand'[e] = t <=> hand[e] = t,
             ~AddTasks, ~(SyncDecide /\ seen < 0), done' = done
      PROVE  UNCHANGED Promise!vars
  <2>1. \A t : Created(t)' <=> Created(t)
    BY <1>8, CreatedSame
  <2>2. Executing' = Executing
    BY <1>8 DEF Executing
  <2>3. Waiting' = Waiting
    BY <1>1, <1>2, <1>8, <2>1, <2>2
  <2>4. UNCHANGED <<FlowNow, FlowOpen>>
    BY <1>5, <1>8
  <2>5. QED
    BY <1>8, <2>2, <2>3, <2>4 DEF Promise!vars, Waiting, InQueues, Executing, FlowNow, FlowOpen
<1>9. ASSUME ~AddTasks, ~(SyncDecide /\ seen < 0)
      PROVE  [Promise!Next]_(Promise!vars)
  <2>1. CASE UNCHANGED vars \/ ExecuteFlow \/ SpawnThreads
    <3>1. UNCHANGED <<hand, done>>
      BY <2>1 DEF vars, ExecuteFlow, SpawnThreads, threadVars, history
    <3>2. QED BY <1>8, <1>9, <2>1, <3>1 DEF Barren
  <2>2. ASSUME NEW e \in Executors, Quiet(e) PROVE UNCHANGED Promise!vars
    <3>1. UNCHANGED hand
      BY <2>2, QuietSteps DEF QuietMove
    <3>2. done' = done
      BY <2>2 DEF Quiet, AddTasks, Shutdown, Join, Destroyed, SyncEpoch, SyncDecide, SyncWait,
         Enter, LeaveCycle, BeginStealing, ContinueStealing, OwnQueuePred, StealBlocked,
         StealNothing, Halt, Announce, Parked, Stop, Bye, history
    <3>3. QED BY <1>8, <1>9, <2>2, <3>1, <3>2 DEF Barren
  <2>3. ASSUME NEW e \in Executors, Inner(e) PROVE UNCHANGED Promise!vars
    <3>1. UNCHANGED <<hand, done>>
      BY <2>3, InnerSteps DEF InnerMove, history
    <3>2. QED BY <1>8, <1>9, <2>3, <3>1 DEF Barren
  <2>4. ASSUME NEW e \in Executors, Pop(e) \/ StealTask(e), hand'[e] \notin Tasks
        PROVE  UNCHANGED Promise!vars
    <3>1. pc[e] \in {"loop", "steal"} /\ ~EndTask(e) /\ done' = done
      BY <2>4 DEF Pop, StealTask, EndTask, At, history
    <3>2. hand[e] \notin Tasks /\ \A o \in Executors : o # e => hand'[o] = hand[o]
      BY <2>4, <3>1 DEF Pop, StealTask, HandOK, TypeOK
    <3>3. QED BY <1>8, <1>9, <2>4, <3>1, <3>2 DEF Barren, Other
  <2>5. ASSUME NEW e \in Executors, TryScheduling(e) \/ Unlock(e)
        PROVE  UNCHANGED Promise!vars
    <3>1. pc[e] \in {"try", "unlock"} /\ ~EndTask(e) /\ done' = done
      BY <2>5 DEF TryScheduling, Unlock, EndTask, At, history
    <3>2. hand' = hand \/ hand' = [hand EXCEPT ![e] = NoTask]
      BY <2>5 DEF TryScheduling, Unlock
    <3>3. \A t \in Tasks, o \in Executors : hand'[o] = t <=> hand[o] = t
      BY <3>1, <3>2, ItemAssumption DEF HandOK, TypeOK, Items
    <3>4. QED BY <1>8, <1>9, <2>5, <3>1, <3>3 DEF Barren, Other
  <2>6. CASE \E t \in Tasks : Promise!Begin(t) \/ Promise!End(t)
    BY <2>6 DEF Promise!Next
  <2>7. QED BY <1>6, <1>7, <2>1, <2>2, <2>3, <2>4, <2>5, <2>6, Steps DEF Other
<1>10. QED BY <1>3, <1>4, <1>9

\* The invariant about executor 0's stop.
LEMMA PendingInvariant == Spec => []PendingOK
<1>1. Init => PendingOK
  BY ZeroInExecutors DEF Init, PendingOK
<1>2. IInv /\ PendingOK /\ [Next]_vars => PendingOK'
  BY PendingStep DEF IInv
<1>3. QED BY <1>1, <1>2, InductiveInvariant, PTL DEF Spec

\* The pool keeps what TaskFlow promises: a task is executed at most once, and only after
\* the client has added it in a flow or its predecessor has ended without an exception,
\* whatever schedulers, owners and thieves do.
THEOREM PromiseKept == Spec => KeepsPromise
<1>1. /\ IInv /\ BatchOK /\ HandOK /\ PlacesOK /\ PendingOK
      /\ IInv' /\ PlacesOK' /\ PendingOK' /\ [Next]_vars
      => [Promise!Next]_(Promise!vars)
  BY PromiseStep DEF IInv
<1>2. QED
  BY <1>1, PromiseInit, InductiveInvariant, BatchInvariant, PlacesInvariant, PendingInvariant, PTL
     DEF Spec, KeepsPromise, Promise!Spec
=============================================================================
