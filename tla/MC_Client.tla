------------------------------ MODULE MC_Client -----------------------------
(***************************************************************************)
(* Model checking of Client and Routing: one key, a memory server w1 that  *)
(* may join and depart, a disk server w2 that may join, and a monitor that *)
(* raises the memory replicas from one to two.  The routing thread knows   *)
(* no server at first.                                                     *)
(***************************************************************************)
EXTENDS Client

CONSTANTS k1, w1, w2

OnK1 == [c \in Call |-> k1]
W1Memory == [w \in Worker |-> IF w = w1 THEN "MEMORY" ELSE "DISK"]
W1First == [k \in Key |-> <<w1, w2>>]
OwnHost == [w \in Worker |-> w]
Nobody == [r \in RThread |-> {}]
MemoryOnly(n) == [t \in Tier |-> IF t = "MEMORY" THEN n ELSE 0]
OneThenTwo == <<MemoryOnly(1), MemoryOnly(2)>>
=============================================================================
