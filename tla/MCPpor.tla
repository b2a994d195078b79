------------------------------- MODULE MCPpor -------------------------------
(***************************************************************************)
(* A small instance of Ppor for TLC.                                       *)
(***************************************************************************)
EXTENDS Ppor, TLC

CONSTANTS n1, n2, n3, n4, t1, t2, g

ThreeNodes == {n1, n2, n3}
FourNodes == {n1, n2, n3, n4}

\* A deterministic draw that depends on every argument and differs from node
\* to node; with CommitteeSize below the number of nodes it rotates the seats.
Index(n) == CASE n = n1 -> 0 [] n = n2 -> 1 [] n = n3 -> 2 [] OTHER -> 3
Offset(h) == CASE h = t1 -> 1 [] h = t2 -> 2 [] OTHER -> 0
MCScore(n, r, seed) ==
  4 * (((Index(n) + Offset(seed[1]) + seed[2]) % 4) + 1) * r + Index(n)
=============================================================================
