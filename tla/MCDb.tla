--------------------------------- MODULE MCDb ---------------------------------
(***************************************************************************)
(* Two processes on one database, one of which also scans.  k1 and k2 have *)
(* equal lengths, share a chain and can reuse each other's records; k3 is  *)
(* in a chain of its own.                                                  *)
(***************************************************************************)
EXTENDS Db

CONSTANTS p1, p2, k1, k2, k3, short, long

MCHash == [k \in Keys |-> IF k = k3 THEN "h2" ELSE "h1"]
MCCalls == [p \in Procs |->
    IF p = p1 THEN {"delete", "insert"} \X {k1, k2} \cup {<<"replace", k2>>}
    ELSE {<<"fetch", k1>>, <<"store", k1>>, <<"store", k3>>}]
MCKeyLen == [k \in Keys |-> 1]
MCDatLen == [x \in Vals |-> IF x = short THEN 2 ELSE 3]
=============================================================================
