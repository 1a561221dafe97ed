-------------------------------- MODULE Api --------------------------------
(***************************************************************************)
(* The API process: the requests it serves at once.  A handler reads,      *)
(* decides, awaits and writes; req[w] is what worker w carries from one    *)
(* await to the next, and may be stale when it is used.                    *)
(***************************************************************************)
EXTENDS Integers, Sequences, FiniteSets, FiniteSetsExt

CONSTANT Workers    \* concurrent requests

ASSUME WorkersAssumption == IsFiniteSet(Workers)

VARIABLE req        \* what each worker is executing

\* in place of the status of a row that does not exist
NoRow == "NO_ROW"

Idle == [op |-> "idle"]

Begin(w, request) ==
    /\ req[w] = Idle
    /\ req' = [req EXCEPT ![w] = request]

Continue(w, request) == req' = [req EXCEPT ![w] = request]

Done(w) == req' = [req EXCEPT ![w] = Idle]

\* a handler whose reads and writes are one transaction, or one statement
AtOnce(w) == req[w] = Idle /\ UNCHANGED req

============================================================================
