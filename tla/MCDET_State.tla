------------------------------ MODULE MCDET_State ------------------------------
(* Instances of DET_State for TLC. *)
EXTENDS DET_State, TLC

ObjectsAndWorkersAlike == Permutations(Objects) \cup Permutations(Workers)
AllAlike == Permutations(Objects) \cup Permutations(Conns) \cup Permutations(Threads)
                \cup Permutations(Numbers)

(* A bound on the environment: no client leaves. *)
ClientsStay == \A c \in Conns : peer[c] \in {"away", "up"}

(* No client resets its connection: a read fails only on a stale handle. *)
NoReset == \A c \in Conns : peer[c] # "reset"

(* Without WORK commands nobody reads is_client_closed: one of its two      *)
(* initial values is enough.                                               *)
ClientsStayIdle == ClientsStay /\ is_client_closed
===============================================================================
