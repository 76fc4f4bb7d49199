-------------------------- MODULE MCMgard300_Handler --------------------------
(* Instances of Mgard300_Handler for TLC. *)
EXTENDS Mgard300_Handler, TLC

AllAlike == Permutations(Conns) \cup Permutations(Threads) \cup Permutations(Numbers)

(* A bound on the environment: no client leaves.  A read still fails on a   *)
(* handle that was closed meanwhile.                                        *)
ClientsStay == \A c \in Conns : peer[c] \in {"away", "up"}
===============================================================================
