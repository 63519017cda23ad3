---------------------------- MODULE MCAsyncDelete -----------------------------
(***************************************************************************)
(* Instances of AsyncDelete for TLC: one bucket with two files and a URL   *)
(* that names none, and a URL no storage is configured for.                *)
(***************************************************************************)
EXTENDS AsyncDelete, TLC
CONSTANTS u1, u2, u3, u4, s1, s2, b1

TwoStorages == [u \in Urls |-> IF u = u4 THEN s2 ELSE s1]
OneBucket == [u \in Urls |-> IF u = u4 THEN None ELSE b1]
===============================================================================
