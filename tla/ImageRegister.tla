---------------------------- MODULE ImageRegister ----------------------------
(***************************************************************************)
(* What PRB_IMG promises the work threads: each instance holds an image,   *)
(* an acquisition puts one frame over it at once, and who asks for the     *)
(* image gets a copy as it was at one moment.  A frame that is as long as  *)
(* the image replaces it; a shorter one leaves the rest of the old image.  *)
(***************************************************************************)
EXTENDS Naturals

CONSTANTS
    Readers,     \* those who ask for an image
    Instances,   \* the objects that hold one
    Frames,      \* what a camera sends
    Size,        \* parts of an image
    None         \* nothing received yet

VARIABLES image, got

Parts == 1..Size

Init ==
    /\ image \in [Instances -> [Parts -> Frames]]
    /\ got = [r \in Readers |-> None]

Acquire(i) ==
    /\ \E frame \in Frames, length \in Parts :
          image' = [image EXCEPT ![i] =
                       [k \in Parts |-> IF k <= length THEN frame ELSE @[k]]]
    /\ UNCHANGED got

Get(r) ==
    /\ got[r] = None
    /\ \E i \in Instances : got' = [got EXCEPT ![r] = image[i]]
    /\ UNCHANGED image

Next ==
    \/ \E i \in Instances : Acquire(i)
    \/ \E r \in Readers : Get(r)

Spec == Init /\ [][Next]_<<image, got>>

===============================================================================
