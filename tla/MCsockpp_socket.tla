---------------------------- MODULE MCsockpp_socket ----------------------------
(* sockpp_socket for TLC: objects and descriptor numbers are alike. *)
EXTENDS sockpp_socket, TLC

ObjectsAndHandles == Permutations(Objects) \cup Permutations(Handles)

===============================================================================
