----------------------------- MODULE MCTaskPool -----------------------------
(* Small instances of TaskPool for TLC. *)
EXTENDS TaskPool, TLC

CONSTANTS a, b, c, d, z

MCTasks == {a, b, c, d, z}

\* a is followed by d.  One flow for z alone, in which threads may start late; then one
\* in which the first schedule() deals to two executors and a second one follows.
MCFollow == a :> <<d>> @@ b :> <<>> @@ c :> <<>> @@ d :> <<>> @@ z :> <<>>
MCPhases == <<<<z>>, <<a, b, c>>>>

\* A splitter: a gives rise to b, c and d.
MCSplit   == a :> <<b, c, d>> @@ b :> <<>> @@ c :> <<>> @@ d :> <<>> @@ z :> <<>>
MCOneRoot == <<<<a>>>>

\* A chain: a is followed by b.
MCChain == a :> <<b>> @@ b :> <<>> @@ c :> <<>> @@ d :> <<>> @@ z :> <<>>

\* One task that gives rise to nothing.
MCOneTask == <<<<z>>>>
=============================================================================
