--------------------------- MODULE MCVunmoServer ---------------------------
(* Instances of VunmoServer for TLC: who connects with which id, in which  *)
(* order, and how many requests to whom each process makes.                *)
EXTENDS VunmoServer, TLC

CONSTANTS a, b, c

\* Two clients, one process each, that start when they like.
TwoClients == (1 :> a) @@ (2 :> b)

\* Client a comes back as process 2; process 3 is client b.
Return == (1 :> a) @@ (2 :> a) @@ (3 :> b)

AnyTime == [s \in Sessions |-> {}]
InTurn == [s \in Sessions |-> IF s = 2 THEN {1} ELSE {}]

OneRequest == [s \in Sessions |-> 1]
RequestsOfReturn == (1 :> 1) @@ (2 :> 0) @@ (3 :> 2)
FirstAsksTwice == (1 :> 2) @@ (2 :> 1)

AnyTarget == [s \in Sessions |-> Ids \cup {NoTarget}]
PayOther == [s \in Sessions |-> IF IdOf[s] = a THEN {b} ELSE {a}]
PayA == [s \in Sessions |-> IF IdOf[s] = a THEN {NoTarget} ELSE {a}]
=============================================================================
