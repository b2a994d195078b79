--------------------------- MODULE MCStorageQuota ---------------------------
(***************************************************************************)
(* A small storage node for TLC.                                           *)
(***************************************************************************)
EXTENDS StorageQuota, TLC

CONSTANTS h1, h2, h3, d1, d2, f1, f2

\* A small file and one that is twice as long.
Sizes == f1 :> 1 @@ f2 :> 2
=============================================================================
