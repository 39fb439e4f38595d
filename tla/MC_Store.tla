------------------------------ MODULE MC_Store ------------------------------
(***************************************************************************)
(* Model checking of Store.  Client x writes two versions of a key one     *)
(* after the other, client y writes one without having seen them, at the   *)
(* same time as the second, and then one more, having seen all.            *)
(***************************************************************************)
EXTENDS Store

CONSTANTS x, y, d1, d2

At(i, j) == [c \in Client |-> IF c = x THEN i ELSE j]
Version(v, i, clock, dep) == [stamp |-> i, clock |-> clock, dep |-> dep, val |-> {v}]

Concurrent == {Version(1, 1, At(1, 0), At(0, 1)), Version(2, 2, At(0, 1), At(2, 0)),
               Version(3, 2, At(2, 0), At(1, 1))}
ThenOneMore == Concurrent \cup {Version(4, 3, At(2, 2), At(2, 2))}

\* where the copies are
SomeOnDisk == [k \in Kind |-> {d1, d2}]
=============================================================================
