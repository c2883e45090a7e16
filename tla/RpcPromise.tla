----------------------------- MODULE RpcPromise -----------------------------
(***************************************************************************)
(* What the dispatcher promises the client, with no context, no scopes and *)
(* no registration table: contents are taken up one at a time, each one    *)
(* is owed the answer AnswerTo gives (none, or one reply that carries the  *)
(* content's own id), and the next content is not taken up before the      *)
(* answer is delivered.  A content that makes the process abort, or one    *)
(* that may and does, is the last one, and nothing is delivered for it.    *)
(***************************************************************************)
EXTENDS Protocol, Sequences

CONSTANT Messages  \* the contents that can be dispatched

VARIABLES
    current,  \* the content being served: a set with at most one element
    owed,     \* its answer, while it is not delivered yet
    output,   \* what was delivered so far
    alive     \* FALSE once the process aborted

promiseVars == <<current, owed, output, alive>>

PromiseInit ==
    /\ current = {} /\ owed = {}
    /\ output = <<>> /\ alive = TRUE

Begin(m) ==
    /\ alive /\ current = {}
    /\ current' = {m} /\ owed' = AnswerTo(m)
    /\ UNCHANGED <<output, alive>>

Deliver(r) ==
    /\ alive /\ owed = {r}
    /\ owed' = {} /\ output' = Append(output, r)
    /\ UNCHANGED <<current, alive>>

Finish(m) ==
    /\ alive /\ current = {m} /\ owed = {} /\ ~Aborts(m)
    /\ current' = {}
    /\ UNCHANGED <<owed, output, alive>>

Die(m) ==
    /\ alive /\ current = {m} /\ (Aborts(m) \/ MayAbort(m))
    /\ alive' = FALSE
    /\ UNCHANGED <<current, owed, output>>

PromiseNext ==
    \/ \E m \in Messages : Begin(m) \/ Finish(m) \/ Die(m)
    \/ \E r \in Reply : Deliver(r)

PromiseSpec == PromiseInit /\ [][PromiseNext]_promiseVars

=============================================================================
