------------------------------- MODULE MCSdk -------------------------------
(***************************************************************************)
(* A small network and a short session of one user for TLC.                *)
(***************************************************************************)
EXTENDS Sdk, TLC

CONSTANTS na, nb, nc, o1, o2, f1, f2, f3

MCLane == Op \X (0..Pool)
MCService == {"search", "consensus", "storage"}
MCDirectory == {<<na, nb>>}
MCFallback == <<nc>>
MCOpenProbe == {"search", "consensus"}

\* A first operation that stores, and one after it that does anything else.
MCPlan == o1 :> {"upload", "private"} @@ o2 :> {"download", "read"} \cup Service

\* A small file, one of two parts, and one of three, which is more than a
\* manifest can list before it grows to 1 MiB.
MCLength == f1 :> 1 @@ f2 :> 2 @@ f3 :> 3

\* Other clients have stored f2 in clear and sealed, and f3 in clear; the key
\* of the sealed one has been granted to this user.
MCHeld ==
  LET seal == Parts(f2, OtherKey)
      open == {Parts(f2, NoKey), Parts(f3, NoKey)}
  IN  Range(seal) \cup {Manifest(seal, TRUE)}
      \cup UNION {Range(p) : p \in open} \cup {Manifest(p, FALSE) : p \in open}
MCGranted == {[name |-> Manifest(Parts(f2, OtherKey), TRUE), key |-> OtherKey]}
=============================================================================
