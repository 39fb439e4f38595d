-------------------------------- MODULE Calls --------------------------------
(***************************************************************************)
(* What the client library, with its asynchronous calls, promises its      *)
(* user: a call that was reported is never open again; a PUT that was      *)
(* answered stays answered, also when it had been reported to have failed  *)
(* before; and, once there are servers, a call that was made is reported   *)
(* at last, with an answer or an error, or lost.                           *)
(***************************************************************************)
CONSTANTS Call, Put

VARIABLES
    status,  \* [Call -> "idle", "open", "lost", "reported" or "answered"]
    dead,    \* the client has come to an undefined state
    served   \* the environment: those that are asked for servers know some

vars == <<status, dead>>

Init == status = [c \in Call |-> "idle"] /\ dead = FALSE

Make(c) ==
    /\ ~ dead /\ status[c] = "idle"
    /\ status' = [status EXCEPT ![c] = "open"] /\ UNCHANGED dead

\* The calls of F are reported, PUTs among them as failed, the PUTs of A
\* are reported as answered, and the calls of L are lost.
Report(F, A, L) ==
    /\ ~ dead
    /\ \A c \in F : status[c] \in {"open", "lost"}
    /\ \A c \in A : status[c] \in {"open", "reported"}
    /\ \A c \in L : status[c] = "open"
    /\ status' = [c \in Call |-> IF c \in A THEN "answered" ELSE IF c \in F THEN "reported"
                                 ELSE IF c \in L THEN "lost" ELSE status[c]]
    /\ UNCHANGED dead

Die == dead' = TRUE /\ UNCHANGED status

Next ==
    \/ \E c \in Call : Make(c)
    \/ \E F, L \in SUBSET Call, A \in SUBSET Put : Report(F, A, L)
    \/ Die

(* When there are servers from some time on, every call that is open is    *)
(* reported or lost at last.                                               *)
Progress == <>[]served => \A c \in Call : status[c] = "open" ~> (status[c] # "open" \/ dead)

Spec == Init /\ [][Next]_vars /\ Progress
=============================================================================
