-------------------------- MODULE IdempotentService -------------------------
(***************************************************************************)
(* What the signaling service promises to the callers of its unary RPCs,   *)
(* without caches, locks, channels and time-outs: each call is applied at  *)
(* most once, and an answer that is no error is what the latest            *)
(* application under the caller's key gave, for the very operation the     *)
(* caller asked for, so that what a retry is told still holds.             *)
(***************************************************************************)
EXTENDS Integers, Sequences, FiniteSets, SequencesExt

CONSTANTS Callers, Keys, Ops

VARIABLES
    key, op,  \* what each caller asks for, under which request key
    history,  \* the calls that were applied, in order
    answer    \* per caller: an index into history, or one of the two below

vars == <<key, op, history, answer>>

Waiting == 0
Failed == -1

Init ==
    /\ key \in [Callers -> Keys] /\ op \in [Callers -> Ops]
    /\ history = <<>>
    /\ answer = [c \in Callers |-> Waiting]

\* Calls are applied, several at once when the service closes down.
Apply ==
    /\ history' \in Seq(Callers)
    /\ IsStrictPrefix(history, history')
    /\ IsInjective(history')
    /\ UNCHANGED <<key, op, answer>>

\* The r-th application is the latest under the caller's key, and of its
\* operation.
Current(c, r) ==
    /\ key[history[r]] = key[c] /\ op[history[r]] = op[c]
    /\ \A q \in DOMAIN history : key[history[q]] = key[c] => q <= r

\* A caller gets its answer, or an error that says nothing about its operation.
Answer(c) ==
    /\ answer[c] = Waiting
    /\ \/ \E r \in DOMAIN history : Current(c, r) /\ answer' = [answer EXCEPT ![c] = r]
       \/ answer' = [answer EXCEPT ![c] = Failed]
    /\ UNCHANGED <<key, op, history>>

Next == Apply \/ \E c \in Callers : Answer(c)

Spec == Init /\ [][Next]_vars
=============================================================================
