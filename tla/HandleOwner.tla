----------------------------- MODULE HandleOwner -----------------------------
(***************************************************************************)
(* What the classes of sockpp promise about descriptors: each open one is  *)
(* owned by one socket object or by the caller, is handed on as a whole,   *)
(* and is closed by its owner.  A descriptor may also get lost: nobody     *)
(* owns it any more, and it stays open for ever.                           *)
(***************************************************************************)
CONSTANTS Objects, Handles, Closed, Caller, Lost

VARIABLE owner

Init == owner = [h \in Handles |-> Closed]

Holds(o, h) == owner[h] = o

(* How the owner of one descriptor may change in a step. *)
Transition(old, new) ==
    \/ old = new
    \/ old = Closed /\ new \in Objects           \* socket(), accept(), dup() ...
    \/ old \in Objects /\ new \in Objects        \* move
    \/ old \in Objects /\ new = Closed           \* close, destruction, reset
    \/ old \in Objects /\ new = Caller           \* release
    \/ old = Caller /\ new \in Objects           \* reset(h), socket(h)
    \/ old = Caller /\ new = Closed
    \/ old \in Objects /\ new = Lost

Next ==
    /\ owner' \in [Handles -> Objects \cup {Closed, Caller, Lost}]
    /\ \A h \in Handles : Transition(owner[h], owner'[h])
    /\ \A o \in Objects : \A g, h \in Handles :
          Holds(o, g)' /\ Holds(o, h)' => g = h

Spec == Init /\ [][Next]_owner

===============================================================================
