------------------------- MODULE sockpp_socket_proofs -------------------------
(* Proofs about the objects of sockpp_socket and the descriptors they own. *)
EXTENDS sockpp_socket, TLAPS

OpenStates == {"new", "listening", "connected", "refused", "pending"}

(* Ownership as one inductive invariant: every open descriptor has exactly   *)
(* one owner, and every owner an open descriptor.                            *)
Owned ==
    /\ handle_ \in [Objects -> Handles \cup {INVALID_SOCKET}]
    /\ kernel \in [Handles -> {"closed"} \cup OpenStates]
    /\ loose \subseteq Handles
    /\ lost \subseteq Handles
    /\ loose \cap lost = {}
    /\ OneOwner
    /\ Accounted

(* What a step may do to the owners: a descriptor is released or lost by an  *)
(* object only, and one that is lost stays so.                               *)
Handed ==
    /\ lost \subseteq lost'
    /\ \A h \in lost' \ lost : \E o \in Objects : handle_[o] = h
    /\ \A h \in loose' \ loose : \E o \in Objects : handle_[o] = h

Kept == Owned' /\ Handed

---------------------------------------------------------------------------
(* One lemma for each way in which a method handles descriptors. *)

LEMMA NothingKeeps ==
  ASSUME Owned, UNCHANGED <<handle_, kernel, loose, lost>>
  PROVE  Kept
  BY DEF Owned, Kept, Handed, OneOwner, Accounted, is_open

(* An object takes a fresh descriptor, or none, and closes what it held. *)
LEMMA ReceiveKeeps ==
  ASSUME Owned, NEW o \in Objects, NEW h, Fresh(h) \/ h = INVALID_SOCKET,
         NEW state \in OpenStates,
         handle_' = [handle_ EXCEPT ![o] = h],
         kernel' = With(Without(kernel, handle_[o]), h, state),
         UNCHANGED <<loose, lost>>
  PROVE  Kept
<1>1. /\ INVALID_SOCKET \notin Handles /\ handle_'[o] = h
      /\ \A p \in Objects : p # o => handle_'[p] = handle_[p]
      /\ handle_' \in [Objects -> Handles \cup {INVALID_SOCKET}]
  BY SocketAssumption DEF Owned, Fresh
<1>2. kernel' \in [Handles -> {"closed"} \cup OpenStates]
  BY DEF Owned, With, Without
<1>3. \A g \in Handles : kernel'[g] = IF g = h THEN state
                                      ELSE IF g = handle_[o] THEN "closed" ELSE kernel[g]
  BY DEF With, Without
<1>4. OneOwner'
  BY <1>1, <1>3 DEF Owned, OneOwner, Accounted, is_open, Fresh, OpenStates
<1>5. Accounted'
  BY <1>1, <1>3 DEF Owned, OneOwner, Accounted, is_open, Fresh, OpenStates
<1>. QED
  BY <1>1, <1>2, <1>4, <1>5 DEF Owned, Kept, Handed

(* An object closes what it holds. *)
LEMMA DropKeeps ==
  ASSUME Owned, NEW o \in Objects,
         handle_' = [handle_ EXCEPT ![o] = INVALID_SOCKET],
         kernel' = Without(kernel, handle_[o]),
         UNCHANGED <<loose, lost>>
  PROVE  Kept
<1>1. kernel' = With(Without(kernel, handle_[o]), INVALID_SOCKET, "new")
  BY SocketAssumption DEF With, Without
<1>. QED
  BY <1>1, ReceiveKeeps DEF OpenStates

LEMMA MoveKeeps ==
  ASSUME Owned, NEW o \in Objects, NEW p \in Objects,
         MoveConstruct(o, p) \/ MoveAssign(o, p)
  PROVE  Kept
<1>1. /\ o # p /\ handle_' = [handle_ EXCEPT ![o] = handle_[p], ![p] = handle_[o]]
      /\ UNCHANGED <<kernel, loose, lost>>
  BY DEF MoveConstruct, MoveAssign, is_open, Owned
<1>2. /\ handle_'[o] = handle_[p] /\ handle_'[p] = handle_[o]
      /\ \A q \in Objects : q \notin {o, p} => handle_'[q] = handle_[q]
      /\ handle_' \in [Objects -> Handles \cup {INVALID_SOCKET}]
  BY <1>1 DEF Owned
<1>3. OneOwner'
  BY <1>1, <1>2 DEF Owned, OneOwner, is_open
<1>4. \A h : h \in {handle_[q] : q \in Objects} <=> h \in {handle_'[q] : q \in Objects}
  BY <1>1, <1>2
<1>5. Accounted'
  BY <1>1, <1>4 DEF Owned, Accounted
<1>. QED
  BY <1>1, <1>2, <1>3, <1>5 DEF Owned, Kept, Handed

LEMMA ReleaseKeeps ==
  ASSUME Owned, NEW o \in Objects, release(o) \/ shutdown(o)
  PROVE  Kept
<1>. DEFINE h == handle_[o]
<1>1. /\ is_open(o) /\ UNCHANGED kernel
      /\ handle_' = [handle_ EXCEPT ![o] = INVALID_SOCKET]
      /\ loose' \cup lost' = loose \cup lost \cup {h}
      /\ loose' \in {loose, loose \cup {h}} /\ lost' \in {lost, lost \cup {h}}
      /\ loose' = loose \/ lost' = lost
  BY DEF release, shutdown
<1>2. /\ h \in Handles /\ INVALID_SOCKET \notin Handles /\ handle_'[o] = INVALID_SOCKET
      /\ h \notin loose \cup lost
      /\ \A p \in Objects : p # o => handle_'[p] = handle_[p] /\ handle_[p] # h
      /\ handle_' \in [Objects -> Handles \cup {INVALID_SOCKET}]
  BY <1>1, SocketAssumption DEF Owned, OneOwner, is_open
<1>3. loose' \subseteq Handles /\ lost' \subseteq Handles /\ loose' \cap lost' = {}
  BY <1>1, <1>2 DEF Owned
<1>4. OneOwner'
  BY <1>1, <1>2 DEF Owned, OneOwner, is_open
<1>5. Accounted'
  BY <1>1, <1>2 DEF Owned, Accounted
<1>. QED
  BY <1>1, <1>2, <1>3, <1>4, <1>5 DEF Owned, Kept, Handed

LEMMA ResetKeeps ==
  ASSUME Owned, NEW o \in Objects, NEW h \in loose \cup {INVALID_SOCKET}, reset(o, h)
  PROVE  Kept
<1>1. /\ handle_' = [handle_ EXCEPT ![o] = h] /\ loose' = loose \ {h} /\ lost' = lost
      /\ kernel' = Without(kernel, handle_[o])
  BY DEF reset
<1>2. /\ INVALID_SOCKET \notin Handles /\ handle_'[o] = h /\ loose \subseteq Handles
      /\ \A p \in Objects : p # o => handle_'[p] = handle_[p]
      /\ handle_' \in [Objects -> Handles \cup {INVALID_SOCKET}]
  BY <1>1, SocketAssumption DEF Owned
<1>3. /\ \A g \in Handles : kernel'[g] = IF g = handle_[o] THEN "closed" ELSE kernel[g]
      /\ kernel' \in [Handles -> {"closed"} \cup OpenStates]
  BY <1>1 DEF Without, Owned
<1>4. h # INVALID_SOCKET => h \in Handles /\ h # handle_[o] /\ kernel[h] # "closed" /\ h \notin lost
  BY <1>2 DEF Owned, OneOwner, Accounted, is_open
<1>5. OneOwner'
  BY <1>1, <1>2, <1>3, <1>4 DEF Owned, OneOwner, is_open
<1>6. Accounted'
  BY <1>1, <1>2, <1>3, <1>4 DEF Owned, OneOwner, Accounted, is_open
<1>. QED
  BY <1>1, <1>2, <1>3, <1>5, <1>6 DEF Owned, Kept, Handed

LEMMA CallerClosesKeeps ==
  ASSUME Owned, NEW h \in Handles, CallerCloses(h)
  PROVE  Kept
<1>1. h \in loose /\ loose' = loose \ {h} /\ kernel' = Without(kernel, h) /\ UNCHANGED <<handle_, lost>>
  BY DEF CallerCloses
<1>2. /\ \A g \in Handles : kernel'[g] = IF g = h THEN "closed" ELSE kernel[g]
      /\ kernel' \in [Handles -> {"closed"} \cup OpenStates]
  BY <1>1 DEF Without, Owned
<1>3. h \notin lost /\ \A o \in Objects : handle_[o] # h
  BY <1>1, SocketAssumption DEF Owned, OneOwner, is_open
<1>. QED
  BY <1>1, <1>2, <1>3 DEF Owned, OneOwner, Accounted, is_open, Kept, Handed

LEMMA DatagramConnectKeeps ==
  ASSUME Owned, NEW o \in Objects, is_open(o), kernel[handle_[o]] = "new",
         kernel' = With(kernel, handle_[o], "connected"),
         UNCHANGED <<handle_, loose, lost>>
  PROVE  Kept
<1>1. /\ \A g \in Handles : kernel'[g] = IF g = handle_[o] THEN "connected" ELSE kernel[g]
      /\ kernel' \in [Handles -> {"closed"} \cup OpenStates]
  BY DEF With, Owned, OpenStates
<1>2. \A g \in Handles : kernel'[g] # "closed" <=> kernel[g] # "closed"
  BY <1>1
<1>. QED
  BY <1>1, <1>2 DEF Owned, OneOwner, Accounted, is_open, Kept, Handed

LEMMA PairKeeps ==
  ASSUME Owned, NEW o \in Objects, NEW p \in Objects, NEW err, PairWith(o, p, err)
  PROVE  Kept
<1>1. o # p /\ UNCHANGED <<loose, lost>>
  BY DEF PairWith
<1>2. ASSUME NEW g \in Handles, NEW h \in Handles, g # h, Fresh(g), Fresh(h),
             handle_' = [handle_ EXCEPT ![o] = g, ![p] = h],
             kernel' = With(With(Without(Without(kernel, handle_[o]), handle_[p]),
                                 g, "connected"), h, "connected")
      PROVE  Kept
  <2>1. /\ INVALID_SOCKET \notin Handles /\ handle_'[o] = g /\ handle_'[p] = h
        /\ \A q \in Objects : q \notin {o, p} => handle_'[q] = handle_[q]
        /\ handle_' \in [Objects -> Handles \cup {INVALID_SOCKET}]
    BY <1>1, <1>2, SocketAssumption DEF Owned
  <2>2. /\ \A f \in Handles : kernel'[f] =
             IF f \in {g, h} THEN "connected"
             ELSE IF f \in {handle_[o], handle_[p]} THEN "closed" ELSE kernel[f]
        /\ kernel' \in [Handles -> {"closed"} \cup OpenStates]
    BY <1>2 DEF With, Without, Owned, OpenStates
  <2>3. /\ kernel[g] = "closed" /\ kernel[h] = "closed" /\ g \notin loose \cup lost
        /\ h \notin loose \cup lost /\ \A q \in Objects : handle_[q] \notin {g, h}
    BY <1>2, <2>1 DEF Fresh, Owned, Accounted
  <2>4. OneOwner'
    BY <1>1, <1>2, <2>1, <2>2, <2>3 DEF Owned, OneOwner, is_open
  <2>5. Accounted'
    BY <1>1, <1>2, <2>1, <2>2, <2>3 DEF Owned, OneOwner, Accounted, is_open
  <2>. QED
    BY <1>1, <2>1, <2>2, <2>4, <2>5 DEF Owned, Kept, Handed
<1>3. ASSUME handle_' = [handle_ EXCEPT ![o] = INVALID_SOCKET, ![p] = INVALID_SOCKET],
             kernel' = Without(Without(kernel, handle_[o]), handle_[p])
      PROVE  Kept
  <2>1. /\ INVALID_SOCKET \notin Handles
        /\ handle_'[o] = INVALID_SOCKET /\ handle_'[p] = INVALID_SOCKET
        /\ \A q \in Objects : q \notin {o, p} => handle_'[q] = handle_[q]
        /\ handle_' \in [Objects -> Handles \cup {INVALID_SOCKET}]
    BY <1>1, <1>3, SocketAssumption DEF Owned
  <2>2. /\ \A f \in Handles : kernel'[f] =
             IF f \in {handle_[o], handle_[p]} THEN "closed" ELSE kernel[f]
        /\ kernel' \in [Handles -> {"closed"} \cup OpenStates]
    BY <1>3 DEF Without, Owned
  <2>3. OneOwner'
    BY <1>1, <2>1, <2>2 DEF Owned, OneOwner, is_open
  <2>4. Accounted'
    BY <1>1, <2>1, <2>2 DEF Owned, OneOwner, Accounted, is_open
  <2>. QED
    BY <1>1, <2>1, <2>2, <2>3, <2>4 DEF Owned, Kept, Handed
<1>. QED
  BY <1>2, <1>3 DEF PairWith, Both

---------------------------------------------------------------------------
(* Every method is one of these. *)

LEMMA SocketKeeps ==
  ASSUME Owned, NEW o \in Objects, socket(o) \/ datagram_socket(o)
  PROVE  Kept
<1>1. ASSUME NEW p \in Objects, NEW h, NEW err, NEW state \in OpenStates,
             Fresh(h) \/ h = INVALID_SOCKET, Receive(p, h, err, state)
      PROVE  Kept
  BY <1>1, ReceiveKeeps DEF Receive
<1>2. ASSUME NEW p \in Objects, clone(o, p) PROVE Kept
  <2>1. is_open(o) /\ kernel[handle_[o]] \in OpenStates
    BY <1>2 DEF clone, Owned, OneOwner, is_open
  <2>. QED
    BY <1>1, <1>2, <2>1 DEF clone, OpenStates
<1>3. CASE create(o)
  BY <1>1, <1>3 DEF create, OpenStates
<1>4. CASE close(o)
  BY <1>4, DropKeeps DEF close
<1>5. CASE CheckedCall(o) \/ clear(o) \/ \E err \in {"none", "error"} : set_non_blocking(o, err)
  BY <1>5, NothingKeeps DEF CheckedCall, clear, set_non_blocking
<1>6. CASE datagram_socket(o)
  BY <1>1, <1>5, <1>6, DatagramConnectKeeps
     DEF datagram_socket, DatagramSocket, DatagramConnect, DatagramIO, OpenStates
<1>7. CASE socket(o)
  BY <1>2, <1>3, <1>4, <1>5, <1>7, ReleaseKeeps, ResetKeeps, MoveKeeps DEF socket
<1>. QED
  BY <1>6, <1>7

LEMMA AcceptorKeeps ==
  ASSUME Owned, NEW o \in Objects, acceptor(o)
  PROVE  Kept
<1>1. ASSUME NEW p \in Objects, accept(o, p) PROVE Kept
  <2>1. UNCHANGED <<loose, lost>>
    BY <1>1 DEF accept
  <2>2. ASSUME NEW h \in Handles, Fresh(h), handle_' = [handle_ EXCEPT ![p] = h],
               kernel' = With(Without(kernel, handle_[p]), h, "connected")
        PROVE  Kept
    BY <2>1, <2>2, ReceiveKeeps DEF OpenStates
  <2>. QED
    BY <1>1, <2>1, <2>2, DropKeeps DEF accept
<1>2. CASE open(o)
  <2>1. ASSUME NEW h \in Handles, Fresh(h), Receive(o, h, "none", "listening") PROVE Kept
    BY <2>1, ReceiveKeeps DEF Receive, OpenStates
  <2>2. ASSUME NEW h \in Handles, ~is_open(o), Fresh(h), close_on_err(o, "error"),
               kernel' = Without(kernel, h), UNCHANGED <<loose, lost>>
        PROVE  Kept
    <3>1. kernel' = kernel
      BY <2>2 DEF Without, Fresh, Owned
    <3>2. handle_' = handle_
      BY <2>2 DEF close_on_err, is_open, Owned
    <3>. QED
      BY <2>2, <3>1, <3>2, NothingKeeps
  <2>. QED
    BY <1>2, <2>1, <2>2, NothingKeeps DEF open
<1>. QED
  BY <1>1, <1>2 DEF acceptor

LEMMA ConnectorKeeps ==
  ASSUME Owned, NEW o \in Objects, connector(o)
  PROVE  Kept
<1>1. ASSUME RecreateFails(o) PROVE Kept
  BY <1>1, NothingKeeps DEF RecreateFails
<1>2. ASSUME NEW err, ConnectFails(o, err) PROVE Kept
  BY <1>2, DropKeeps DEF ConnectFails, close_on_err
<1>3. CASE connect(o)
  <2>1. ASSUME NEW h \in Handles, Fresh(h), Receive(o, h, "none", "connected") PROVE Kept
    BY <2>1, ReceiveKeeps DEF Receive, OpenStates
  <2>. QED
    BY <1>1, <1>2, <1>3, <2>1 DEF connect
<1>4. CASE connect_timeout(o)
  <2>1. ASSUME NEW h \in Handles, NEW outcome \in {"connected", "refused", "pending"}, Fresh(h),
               handle_' = [handle_ EXCEPT ![o] = h],
               kernel' = With(Without(kernel, handle_[o]), h, outcome),
               UNCHANGED <<loose, lost>>
        PROVE  Kept
    BY <2>1, ReceiveKeeps DEF OpenStates
  <2>. QED
    BY <1>1, <1>2, <1>4, <2>1 DEF connect_timeout
<1>. QED
  BY <1>3, <1>4 DEF connector

LEMMA StepKeeps == ASSUME Owned, [Next]_vars PROVE Kept
<1>1. CASE UNCHANGED vars
  BY <1>1, NothingKeeps DEF vars
<1>2. CASE Next
  BY <1>2, SocketKeeps, AcceptorKeeps, ConnectorKeeps, PairKeeps, CallerClosesKeeps
     DEF Next, pair, stream_pair
<1>. QED
  BY <1>1, <1>2

LEMMA OwnedInit == Init => Owned
  BY SocketAssumption DEF Init, Owned, OneOwner, Accounted, is_open, OpenStates

(* Owned is an invariant of all methods, with all their failures. *)
THEOREM AlwaysOwned == Spec => []Owned
<1>1. Owned /\ [Next]_vars => Owned'
  BY StepKeeps DEF Kept
<1>. QED
  BY <1>1, OwnedInit, PTL DEF Spec

(* "Strict ownership": the descriptor of an open object is open and nobody   *)
(* else's, for any number of objects and descriptors, although the kernel    *)
(* uses numbers again.                                                       *)
THEOREM StrictOwnership == Spec => []OneOwner
<1>1. Owned => OneOwner
  BY DEF Owned
<1>. QED
  BY <1>1, AlwaysOwned, PTL

(* Every open descriptor has an owner, or was released to the caller, or was *)
(* lost by shutdown(): there is no other leak.                               *)
THEOREM NoOtherLeak == Spec => []Accounted
<1>1. Owned => Accounted
  BY DEF Owned
<1>. QED
  BY <1>1, AlwaysOwned, PTL

---------------------------------------------------------------------------
(* The refinement: the owner of each descriptor, step by step *)

OwnerFacts ==
    \A h \in Handles :
        /\ kernel[h] = "closed" => OwnerOf(h) = "closed"
        /\ h \in loose => OwnerOf(h) = "caller"
        /\ h \in lost => OwnerOf(h) = "lost"
        /\ \A o \in Objects : handle_[o] = h <=> OwnerOf(h) = o
        /\ kernel[h] = "closed" \/ h \in loose \cup lost \/ \E o \in Objects : handle_[o] = h

LEMMA OwnerIs == Owned => OwnerFacts
<1>. SUFFICES ASSUME Owned, NEW h \in Handles
              PROVE  /\ kernel[h] = "closed" => OwnerOf(h) = "closed"
                     /\ h \in loose => OwnerOf(h) = "caller"
                     /\ h \in lost => OwnerOf(h) = "lost"
                     /\ \A o \in Objects : handle_[o] = h <=> OwnerOf(h) = o
                     /\ \/ kernel[h] = "closed" \/ h \in loose \cup lost
                        \/ \E o \in Objects : handle_[o] = h
  BY DEF OwnerFacts
<1>1. /\ h \in loose \cup lost => kernel[h] # "closed"
      /\ h \in loose => h \notin lost
  BY DEF Owned, Accounted
<1>2. ASSUME NEW o \in Objects, handle_[o] = h PROVE OwnerOf(h) = o
  <2>1. kernel[h] # "closed" /\ h \notin loose \cup lost
    BY <1>2, SocketAssumption DEF Owned, OneOwner, is_open
  <2>2. \A p \in Objects : handle_[p] = h => p = o
    BY <1>2, SocketAssumption DEF Owned, OneOwner, is_open
  <2>3. (CHOOSE p \in Objects : handle_[p] = h) = o
    BY <1>2, <2>2
  <2>. QED
    BY <2>1, <2>3 DEF OwnerOf
<1>3. ASSUME \A o \in Objects : handle_[o] # h
      PROVE  /\ OwnerOf(h) \in {"closed", "caller", "lost"}
             /\ kernel[h] = "closed" \/ h \in loose \cup lost
  BY <1>3 DEF Owned, Accounted, OwnerOf
<1>. QED
  BY <1>1, <1>2, <1>3, SocketAssumption DEF OwnerOf

LEMMA OwnerWillBe == Owned' => OwnerFacts'
  BY OwnerIs, PTL

(* An owner changes only as HandleOwner allows. *)
LEMMA OwnerStep ==
  ASSUME Owned, Kept, NEW h \in Handles
  PROVE  Ownership!Transition(OwnerOf(h), OwnerOf(h)')
<1>1. OwnerFacts /\ OwnerFacts'
  BY OwnerIs, OwnerWillBe DEF Kept
<1>2. /\ h \in lost => h \in lost'
      /\ h \in lost' \ lost => \E o \in Objects : handle_[o] = h
      /\ h \in loose' \ loose => \E o \in Objects : handle_[o] = h
  BY DEF Kept, Handed
<1>3. h \in loose => h \notin lost'
  BY <1>2, SocketAssumption DEF Owned, OneOwner, is_open
<1>4. CASE h \in lost
  BY <1>1, <1>2, <1>4 DEF OwnerFacts, Ownership!Transition
<1>5. CASE \E o \in Objects : handle_[o] = h
  BY <1>1, <1>5 DEF OwnerFacts, Ownership!Transition
<1>6. CASE h \in loose
  BY <1>1, <1>3, <1>6 DEF OwnerFacts, Ownership!Transition
<1>7. CASE kernel[h] = "closed" /\ h \notin loose \cup lost /\ ~\E o \in Objects : handle_[o] = h
  BY <1>1, <1>2, <1>7 DEF OwnerFacts, Ownership!Transition
<1>. QED
  BY <1>1, <1>4, <1>5, <1>6, <1>7 DEF OwnerFacts

(* The classes of sockpp implement ownership of descriptors, for any number  *)
(* of objects and descriptors: a descriptor is handed on as a whole, closed  *)
(* by its owner, or lost by an object, and nothing else happens to it.       *)
THEOREM Implements == Spec => ImplementsOwnership
<1>. DEFINE owner == [h \in Handles |-> OwnerOf(h)]
<1>1. Init => Ownership!Init
  BY DEF Init, Ownership!Init, OwnerOf
<1>2. ASSUME Owned, [Next]_vars PROVE [Ownership!Next]_owner
  <2>1. Kept /\ OwnerFacts'
    BY <1>2, StepKeeps, OwnerWillBe DEF Kept
  <2>2. \A h \in Handles : Ownership!Transition(OwnerOf(h), OwnerOf(h)')
    BY <1>2, <2>1, OwnerStep
  <2>3. \A h \in Handles : OwnerOf(h)' \in Objects \cup {"closed", "caller", "lost"}
    BY <2>1 DEF OwnerFacts
  <2>4. \A o \in Objects : \A g, h \in Handles : OwnerOf(g)' = o /\ OwnerOf(h)' = o => g = h
    BY <2>1 DEF OwnerFacts
  <2>. QED
    BY <2>2, <2>3, <2>4 DEF Ownership!Next, Ownership!Holds
<1>. QED
  BY <1>1, <1>2, AlwaysOwned, PTL DEF Spec, ImplementsOwnership, Ownership!Spec

---------------------------------------------------------------------------
(* What open() and connect() leave behind *)

Reported == ConnectedIfTrue /\ FailureReported

LEMMA OtherCallsReport == ASSUME last' = NoCall PROVE Reported'
  BY DEF Reported, ConnectedIfTrue, FailureReported, NoCall

LEMMA OpenReports ==
  ASSUME Owned, NEW o \in Objects, lastErr_ \in [Objects -> Errors], open(o)
  PROVE  Reported'
<1>1. /\ last'.op = "open" /\ last'.obj = o
      /\ ~last'.ok => ~is_open(o)' /\ lastErr_'[o] = "error"
  BY DEF open, Called, Receive, SetError, close_on_err, is_open, Owned
<1>. QED
  BY <1>1 DEF Reported, ConnectedIfTrue, FailureReported, Errors

LEMMA ConnectReports ==
  ASSUME Owned, NEW o \in Objects, lastErr_ \in [Objects -> Errors], connector(o)
  PROVE  Reported'
<1>1. ASSUME RecreateFails(o) PROVE Reported'
  <2>1. /\ last'.op = "connect" /\ last'.obj = o /\ last'.ok = FALSE
        /\ last'.before = handle_[o]
        /\ lastErr_'[o] = "error" /\ handle_'[o] = handle_[o]
    BY <1>1 DEF RecreateFails, Called, SetError
  <2>. QED
    BY <2>1 DEF Reported, ConnectedIfTrue, FailureReported
<1>2. ASSUME NEW err, err # "none", ConnectFails(o, err) PROVE Reported'
  <2>1. /\ last'.op = "connect" /\ last'.obj = o /\ last'.ok = FALSE
        /\ lastErr_'[o] = err /\ handle_'[o] = INVALID_SOCKET
    BY <1>2 DEF ConnectFails, Called, SetError, close_on_err, Owned
  <2>. QED
    BY <1>2, <2>1 DEF Reported, ConnectedIfTrue, FailureReported, is_open
<1>3. ASSUME NEW h \in Handles, handle_' = [handle_ EXCEPT ![o] = h],
             kernel' = With(Without(kernel, handle_[o]), h, "connected"),
             NEW restored \in BOOLEAN, Connected(o, restored),
             ~restored => lastErr_'[o] # "none"
      PROVE  Reported'
  <2>1. /\ last'.op = "connect" /\ last'.obj = o /\ last'.ok = TRUE /\ last'.blocking = restored
        /\ handle_'[o] = h /\ kernel'[h] = "connected"
    BY <1>3 DEF Connected, With, Owned
  <2>. QED
    BY <1>3, <2>1 DEF Reported, ConnectedIfTrue, FailureReported
<1>4. CASE connect(o)
  BY <1>1, <1>2, <1>3, <1>4 DEF connect, Receive
<1>5. CASE connect_timeout(o)
  <2>1. SUFFICES ASSUME NEW h \in Handles, NEW outcome \in {"connected", "refused", "pending"},
                        NEW err \in {ConnectError(outcome), "error"},
                        IF err # "none" THEN ConnectFails(o, err)
                        ELSE /\ handle_' = [handle_ EXCEPT ![o] = h]
                             /\ kernel' = With(Without(kernel, handle_[o]), h, outcome)
                             /\ \E restored \in BOOLEAN :
                                  /\ SetError(o, IF restored THEN "none" ELSE "error")
                                  /\ Connected(o, restored)
                 PROVE  Reported'
    BY <1>1, <1>5 DEF connect_timeout
  <2>2. CASE err # "none"
    BY <1>2, <2>1, <2>2
  <2>3. CASE err = "none"
    <3>1. outcome = "connected"
      BY <2>3 DEF ConnectError
    <3>2. PICK restored \in BOOLEAN : /\ SetError(o, IF restored THEN "none" ELSE "error")
                                      /\ Connected(o, restored)
      BY <2>1, <2>3
    <3>3. ~restored => lastErr_'[o] # "none"
      BY <3>2 DEF SetError
    <3>. QED
      BY <1>3, <2>1, <2>3, <3>1, <3>2, <3>3
  <2>. QED
    BY <2>2, <2>3
<1>. QED
  BY <1>4, <1>5 DEF connector

(* The cached error and the record of the last call stay in their ranges. *)
Noted == lastErr_ \in [Objects -> Errors] /\ last \in Calls \cup {NoCall}

LEMMA CalledNoted ==
  ASSUME Owned, NEW o \in Objects, NEW op \in {"open", "connect", "pair"}, NEW ok \in BOOLEAN,
         Called(op, o, ok) \/ (\E mode \in BOOLEAN : Connected(o, mode))
  PROVE  last' \in Calls \cup {NoCall}
<1>1. handle_[o] \in Handles \cup {INVALID_SOCKET}
  BY DEF Owned
<1>2. PICK n \in {"open", "connect", "pair"}, r, mode \in BOOLEAN :
         last' = [op |-> n, obj |-> o, ok |-> r, blocking |-> mode, before |-> handle_[o]]
  BY DEF Called, Connected
<1>3. [op |-> n, obj |-> o, ok |-> r, blocking |-> mode, before |-> handle_[o]] \in Calls
  BY <1>1 DEF Calls
<1>. QED
  BY <1>2, <1>3

LEMMA SocketNoted ==
  ASSUME Noted, NEW o \in Objects,
         \/ socket(o) \/ datagram_socket(o)
         \/ \E p \in Objects : accept(o, p)
  PROVE  lastErr_' \in [Objects -> Errors]
<1>. lastErr_ \in [Objects -> Errors] /\ {"none", "error"} \subseteq Errors
  BY DEF Noted, Errors
<1>1. ASSUME CheckedCall(o) PROVE lastErr_' \in [Objects -> Errors]
  BY <1>1 DEF CheckedCall, SetError
<1>2. CASE socket(o)
  <2>1. CASE create(o) \/ (\E p \in Objects : clone(o, p))
    BY <2>1 DEF create, clone, Receive, SetError
  <2>2. CASE \E p \in Objects : MoveConstruct(o, p) \/ MoveAssign(o, p)
    BY <2>2 DEF MoveConstruct, MoveAssign, SetError
  <2>3. CASE release(o) \/ close(o) \/ shutdown(o) \/ clear(o)
    BY <2>3 DEF release, close, shutdown, clear, SetError
  <2>4. CASE \/ \E h \in loose \cup {INVALID_SOCKET} : reset(o, h)
             \/ \E err \in {"none", "error"} : set_non_blocking(o, err)
    BY <2>4 DEF reset, set_non_blocking, SetError
  <2>. QED
    BY <1>1, <1>2, <2>1, <2>2, <2>3, <2>4 DEF socket
<1>3. CASE datagram_socket(o)
  BY <1>1, <1>3
     DEF datagram_socket, DatagramSocket, DatagramConnect, DatagramIO, Receive, SetError
<1>4. CASE \E p \in Objects : accept(o, p)
  BY <1>4 DEF accept, Both
<1>. QED
  BY <1>2, <1>3, <1>4

LEMMA OpenNoted ==
  ASSUME Owned, Noted, NEW o \in Objects, open(o) \/ connector(o)
  PROVE  Noted'
<1>. lastErr_ \in [Objects -> Errors] /\ {"none", "error", "ETIMEDOUT"} \subseteq Errors
  BY DEF Noted, Errors
<1>1. CASE open(o)
  BY <1>1, CalledNoted DEF open, Receive, SetError, close_on_err, Noted
<1>2. ASSUME RecreateFails(o) PROVE Noted'
  BY <1>2, CalledNoted DEF RecreateFails, SetError, Noted
<1>3. ASSUME NEW err \in Errors, ConnectFails(o, err) PROVE Noted'
  BY <1>3, CalledNoted DEF ConnectFails, SetError, close_on_err, Noted
<1>4. ASSUME NEW e \in {"none", "error"}, SetError(o, e), NEW mode \in BOOLEAN, Connected(o, mode)
      PROVE  Noted'
  BY <1>4, CalledNoted DEF SetError, Noted
<1>5. CASE connect(o)
  BY <1>2, <1>3, <1>4, <1>5 DEF connect, Receive
<1>6. CASE connect_timeout(o)
  <2>1. \A outcome \in {"connected", "refused", "pending"} : ConnectError(outcome) \in Errors
    BY DEF ConnectError, Errors
  <2>. QED
    BY <1>2, <1>3, <1>4, <1>6, <2>1 DEF connect_timeout
<1>. QED
  BY <1>1, <1>5, <1>6 DEF connector

LEMMA PairNoted ==
  ASSUME Owned, Noted, NEW o \in Objects, NEW p \in Objects, NEW err \in {"none", "error"},
         PairWith(o, p, err)
  PROVE  Noted' /\ Reported'
<1>1. PICK ok \in BOOLEAN : Called("pair", o, ok)
  BY DEF PairWith
<1>2. Reported'
  BY <1>1 DEF Called, Reported, ConnectedIfTrue, FailureReported
<1>3. lastErr_' \in [Objects -> Errors]
  BY DEF PairWith, Both, Noted, Errors
<1>. QED
  BY <1>1, <1>2, <1>3, CalledNoted DEF Noted

LEMMA NotedNext ==
  ASSUME Owned, Noted, Reported, [Next]_vars
  PROVE  Noted' /\ Reported'
<1>1. CASE UNCHANGED vars
  BY <1>1 DEF vars, Noted, Reported, ConnectedIfTrue, FailureReported, is_open
<1>2. ASSUME NEW o \in Objects, socket(o) \/ datagram_socket(o), last' = NoCall
      PROVE  Noted' /\ Reported'
  BY <1>2, SocketNoted, OtherCallsReport DEF Noted
<1>3. ASSUME NEW h \in Handles, CallerCloses(h), last' = NoCall PROVE Noted' /\ Reported'
  BY <1>3, OtherCallsReport DEF CallerCloses, Noted
<1>4. ASSUME NEW o \in Objects, acceptor(o) PROVE Noted' /\ Reported'
  <2>1. CASE open(o)
    BY <2>1, OpenNoted, OpenReports DEF Noted
  <2>2. CASE \E p \in Objects : accept(o, p) /\ last' = NoCall
    BY <2>2, SocketNoted, OtherCallsReport DEF Noted
  <2>. QED
    BY <1>4, <2>1, <2>2 DEF acceptor
<1>5. ASSUME NEW o \in Objects, connector(o) PROVE Noted' /\ Reported'
  BY <1>5, OpenNoted, ConnectReports DEF Noted
<1>. QED
  BY <1>1, <1>2, <1>3, <1>4, <1>5, PairNoted DEF Next, pair, stream_pair

LEMMA NotedAlways == Spec => [](Noted /\ Reported)
<1>1. Init => Noted /\ Reported
  BY DEF Init, Noted, Errors, Reported, ConnectedIfTrue, FailureReported, NoCall
<1>. QED
  BY <1>1, NotedNext, AlwaysOwned, PTL DEF Spec

(* Every variable stays in its range. *)
THEOREM Typing == Spec => []TypeOK
<1>1. Owned /\ Noted => TypeOK
  BY DEF Owned, Noted, TypeOK, OpenStates
<1>. QED
  BY <1>1, AlwaysOwned, NotedAlways, PTL

(* A connect() that returned true, with a timeout or without, has left a     *)
(* connected socket.                                                         *)
THEOREM Connects == Spec => []ConnectedIfTrue
<1>1. Reported => ConnectedIfTrue
  BY DEF Reported
<1>. QED
  BY <1>1, NotedAlways, PTL

(* An open() or connect() that returned false has left an error, and nothing *)
(* open of its own attempt.                                                  *)
THEOREM Fails == Spec => []FailureReported
<1>1. Reported => FailureReported
  BY DEF Reported
<1>. QED
  BY <1>1, NotedAlways, PTL

===============================================================================
