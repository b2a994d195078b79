---------------------------- MODULE MCShardFetch ----------------------------
(* Three nodes; 2 of 3 shards are enough, so that shards can fail before,   *)
(* between and after the others.                                           *)
EXTENDS ShardFetch, TLC

CONSTANTS a, b, p, up, first, second

MCNode == {a, b, p}
MCClient == {up, first, second}

\* An upload at one node, and two requests to another: overlapping downloads, or a
\* second upload, a deletion or both.
MCAt == (up :> a) @@ (first :> b) @@ (second :> b)
MCPlan == (up :> {"upload"}) @@ (first :> {"download", "upload"}) @@ (second :> {"download", "delete"})

\* Two peers, of which one is asked for the file and asks itself; or that one alone,
\* which for its own uploads is itself.
MCLists == {<<b, p>>, <<b>>}
=============================================================================
