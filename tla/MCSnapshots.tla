---------------------------- MODULE MCSnapshots ----------------------------
(***************************************************************************)
(* A short list of sites and a few visits for TLC.                         *)
(***************************************************************************)
EXTENDS Snapshots, TLC

CONSTANTS d1, d2, n1, v1, v2, index, style

\* The list names d1 twice, and has an entry without a URL; d1 and d2 differ
\* in their last label only, so that their snapshots have one name.
MCProtocols == <<d1, NoDomain, d1, d2>>
MCNameOf == d1 :> n1 @@ d2 :> n1

\* The zip of d1 begins with index.html, that of d2 ends with it.
MCArchive ==
  [s \in Snapshot |-> IF s.domain = d1 THEN <<index, style>> ELSE <<style, index>>]
=============================================================================
