------------------------------- MODULE KvStore -------------------------------
(***************************************************************************)
(* What apue.2e/db promises its callers: a dictionary on which db_fetch,   *)
(* db_store and db_delete of any number of processes take effect one at a  *)
(* time.  ret holds the outcome of a call that has taken effect and has    *)
(* not returned yet.                                                       *)
(***************************************************************************)
EXTENDS Integers

CONSTANTS Procs, Keys, Vals, None

VARIABLES dict, ret

vars == <<dict, ret>>

Init ==
    /\ dict = [k \in Keys |-> None]
    /\ ret = [p \in Procs |-> None]

Outcome(p, op, k, rc) ==
    /\ ret[p] = None
    /\ ret' = [ret EXCEPT ![p] = [op |-> op, key |-> k, rc |-> rc]]

\* The data stored under the key, None for the null pointer.
Fetch(p, k) == Outcome(p, "fetch", k, dict[k]) /\ UNCHANGED dict

Delete(p, k) ==
    /\ Outcome(p, "delete", k, IF dict[k] = None THEN -1 ELSE 0)
    /\ dict' = [dict EXCEPT ![k] = None]

\* "Return 0 if OK, 1 if record exists and DB_INSERT specified, -1 on error."
Refused(op, k) == (op = "insert" /\ dict[k] # None) \/ (op = "replace" /\ dict[k] = None)

Store(p, k, v, op) ==
    /\ Outcome(p, op, k, IF ~Refused(op, k) THEN 0 ELSE IF op = "insert" THEN 1 ELSE -1)
    /\ dict' = IF Refused(op, k) THEN dict ELSE [dict EXCEPT ![k] = v]

\* A process that finds the index file full ends; a replaced record is lost.
Quit(k) == dict' = [dict EXCEPT ![k] = None] /\ UNCHANGED ret

Return(p) == ret[p] # None /\ ret' = [ret EXCEPT ![p] = None] /\ UNCHANGED dict

\* db_open with O_TRUNC.
Truncate == dict' = [k \in Keys |-> None] /\ UNCHANGED ret

\* A call of p takes effect, and its result is there.
Effect(p) ==
    /\ ret'[p] # None
    /\ \E k \in Keys :
          \/ Fetch(p, k) \/ Delete(p, k)
          \/ \E v \in Vals, op \in {"insert", "replace", "store"} : Store(p, k, v, op)

Next ==
    \/ \E p \in Procs : Effect(p) \/ Return(p)
    \/ \E k \in Keys : Quit(k)
    \/ Truncate

Spec == Init /\ [][Next]_vars
=============================================================================
