------------------------------ MODULE MCSwarm ------------------------------
(***************************************************************************)
(* Small networks for TLC.                                                 *)
(***************************************************************************)
EXTENDS Swarm, TLC

CONSTANTS n1, n2, n3, n4, t1, g

\* The one transaction of the model, on the topic a run picks.
OneName == t1 :> "name"
OneCid == t1 :> "cid"
OneLedger == t1 :> "ledger"

\* A deterministic draw that differs from node to node and moves the seats
\* with the seed (CommitteeSize below the number of nodes).
Index(n) == CASE n = n1 -> 0 [] n = n2 -> 1 [] n = n3 -> 2 [] OTHER -> 3
MCScore(n, r, seed) ==
  4 * (((Index(n) + (IF seed[1] = g THEN 0 ELSE 1) + seed[2]) % 4) + 1) * r + Index(n)
=============================================================================
