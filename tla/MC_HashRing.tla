---------------------------- MODULE MC_HashRing -----------------------------
(***************************************************************************)
(* Model checking of HashRing: three servers with two virtual nodes each.  *)
(* They are interleaved, two of them meet at one position, and there is a  *)
(* gap at the end so that walks wrap around.                               *)
(***************************************************************************)
EXTENDS HashRing

CONSTANTS s1, s2, s3

MeetAt4 == [s \in Server |-> [v \in Virtual |->
              IF s = s3 THEN (IF v = 0 THEN 3 ELSE 5) ELSE IF v = 1 THEN 4 ELSE IF s = s1 THEN 0 ELSE 1]]
=============================================================================
