----------------------------- MODULE SfuWorker ------------------------------
(***************************************************************************)
(* What an SFU worker promises to signaling, without its sessions, shards, *)
(* channels and processes: every event it has numbered is accepted by      *)
(* signaling, every command gets its result, and an interrupt takes the    *)
(* process down.  The promise ends at one state of the worker, the jam     *)
(* that SfuSession calls CircularWait, which it never leaves.              *)
(***************************************************************************)
CONSTANTS Events, Commands

VARIABLES
    phase,     \* "starting", "up", "stopping", "jammed" or "down"
    produced,  \* events with a number
    accepted,  \* events signaling has
    issued,    \* commands signaling has issued
    answered   \* commands it has a result for

vars == <<phase, produced, accepted, issued, answered>>

Init ==
    /\ phase = "starting"
    /\ produced = {} /\ accepted = {}
    /\ issued = {} /\ answered = {}

\* Service starts as a whole or not at all, runs until it is told to stop, and
\* nothing but a stop takes it down again.
ChangePhase ==
    /\ \/ phase = "starting" /\ phase' \in {"up", "stopping", "down"}
       \/ phase = "up" /\ phase' \in {"stopping", "jammed"}
       \/ phase = "stopping" /\ phase' \in {"down", "jammed"}
    /\ UNCHANGED <<produced, accepted, issued, answered>>

Produce(e) ==
    /\ phase \in {"up", "stopping", "jammed"}
    /\ e \notin produced
    /\ produced' = produced \cup {e}
    /\ UNCHANGED <<phase, accepted, issued, answered>>

Accept(e) ==
    /\ phase \in {"up", "stopping", "jammed"}
    /\ e \in produced \ accepted
    /\ accepted' = accepted \cup {e}
    /\ UNCHANGED <<phase, produced, issued, answered>>

Issue(c) ==
    /\ c \notin issued
    /\ issued' = issued \cup {c}
    /\ UNCHANGED <<phase, produced, accepted, answered>>

Answer(c) ==
    /\ phase \in {"up", "stopping", "jammed"}
    /\ c \in issued \ answered
    /\ answered' = answered \cup {c}
    /\ UNCHANGED <<phase, produced, accepted, issued>>

Next ==
    \/ ChangePhase
    \/ \E e \in Events : Produce(e) \/ Accept(e)
    \/ \E c \in Commands : Issue(c) \/ Answer(c)

\* Nothing that is promised is put off for ever.
Kept ==
    /\ phase = "starting" ~> phase # "starting"
    /\ \A e \in Events : e \in produced ~> (e \in accepted \/ phase # "up")
    /\ \A c \in Commands : (c \in issued /\ phase = "up") ~> (c \in answered \/ phase # "up")
    /\ phase = "stopping" ~> phase \in {"down", "jammed"}

Spec == Init /\ [][Next]_vars /\ Kept
=============================================================================
