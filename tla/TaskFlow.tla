------------------------------ MODULE TaskFlow ------------------------------
(***************************************************************************)
(* What task_pool promises the client that adds tasks and calls            *)
(* execute_flow, without executors, queues and scheduling: every task is   *)
(* executed at most once, and only after the client has added it or the    *)
(* task it follows in the flow graph has ended.  That no task is being     *)
(* executed when a flow returns, and none left waiting, is *not* promised: *)
(* the pool does not keep it (TaskPool!QuietAfterEpoch, FlowDrained).      *)
(***************************************************************************)
EXTENDS Naturals, Sequences

CONSTANTS Tasks, Children, Throws, Flows

VARIABLES
    waiting,    \* tasks that may be executed
    executing,  \* tasks being executed
    done,       \* tasks that have been executed
    flow,       \* the current flow
    open        \* the client is inside the current flow

vars == <<waiting, executing, done, flow, open>>

Elements(s) == {s[i] : i \in 1 .. Len(s)}

Init == /\ waiting = {} /\ executing = {} /\ done = {}
        /\ flow = 1 /\ open = FALSE

\* add_tasks and the call of execute_flow
Submit ==
    /\ ~open /\ flow <= Len(Flows)
    /\ waiting' = waiting \cup Elements(Flows[flow])
    /\ open' = TRUE
    /\ UNCHANGED <<executing, done, flow>>

Begin(t) ==
    /\ t \in waiting \ (executing \cup done)
    /\ waiting' = waiting \ {t}
    /\ executing' = executing \cup {t}
    /\ UNCHANGED <<done, flow, open>>

\* A task that throws has no successors.
End(t) ==
    /\ t \in executing
    /\ executing' = executing \ {t}
    /\ done' = done \cup {t}
    /\ waiting' \in {waiting \cup Elements(Children[t])}
                    \cup (IF t \in Throws THEN {waiting} ELSE {})
    /\ UNCHANGED <<flow, open>>

\* execute_flow is over
Return ==
    /\ open
    /\ open' = FALSE
    /\ flow' = flow + 1
    /\ UNCHANGED <<waiting, executing, done>>

Next == Submit \/ Return \/ \E t \in Tasks : Begin(t) \/ End(t)

Spec == Init /\ [][Next]_vars
=============================================================================
