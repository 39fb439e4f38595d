------------------------------ MODULE MC_Caches ------------------------------
(***************************************************************************)
(* Two caches that come and go, and a key each of them may hold.           *)
(***************************************************************************)
EXTENDS Caches
=============================================================================
