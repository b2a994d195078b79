------------------------------ MODULE Finality ------------------------------
(***************************************************************************)
(* What the consensus nodes promise to those who broadcast transactions    *)
(* and to the stores that execution writes to, whatever votes it takes:    *)
(* what happens at a node at a time concerns one transaction; a node       *)
(* decides on a transaction it has received; and it executes a copy of it  *)
(* once at most, and only when some node, itself maybe, has decided.       *)
(* Nothing is promised about when, nor about the order of transactions.    *)
(***************************************************************************)
EXTENDS Naturals

CONSTANTS
  Node,           \* consensus nodes
  Tx              \* transactions

VARIABLES
  received,       \* received[n][t]: copies of t that n has received
  final,          \* final[n]: what n has ever decided on
  done            \* done[n][t]: how often n has executed t

promises == <<received, final, done>>

None == [n \in Node |-> [t \in Tx |-> 0]]

Init == received = None /\ final = [n \in Node |-> {}] /\ done = None

Receive(n, t) == received' = [received EXCEPT ![n][t] = @ + 1]

Decide(n, t) ==
  /\ received'[n][t] > 0
  /\ final' = [final EXCEPT ![n] = @ \cup {t}]

Execute(n, t) ==
  /\ \E p \in Node : t \in final'[p]
  /\ done[n][t] < received'[n][t]
  /\ done' = [done EXCEPT ![n][t] = @ + 1]

\* A node may do several of these at once, but for one transaction.
Next ==
  \E n \in Node, t \in Tx :
    /\ Receive(n, t) \/ UNCHANGED received
    /\ Decide(n, t) \/ UNCHANGED final
    /\ Execute(n, t) \/ UNCHANGED done

Spec == Init /\ [][Next]_promises
=============================================================================
