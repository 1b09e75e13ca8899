--------------------------- MODULE MCRequestCache ---------------------------
(***************************************************************************)
(* Small instances of RequestCache for TLC.  Handlers, keys and operations *)
(* are numbered.  They are interchangeable, so it is enough to start from  *)
(* one of the inputs that renaming makes equal: the handlers in the order  *)
(* of their inputs, the first with the first key and operation.            *)
(***************************************************************************)
EXTENDS RequestCache

CanonicalInit ==
    /\ Init
    /\ key[1] = 1 /\ op[1] = 1
    /\ \A g, h \in Rpcs : g < h =>
          key[g] < key[h] \/ (key[g] = key[h] /\ op[g] <= op[h])

CanonicalSpec == CanonicalInit /\ [][Next]_vars /\ Fairness
=============================================================================
