---------------------------- MODULE sockpp_socket ----------------------------
(***************************************************************************)
(* The objects of sockpp: socket and the classes derived from it that hold *)
(* nothing more (stream_socket, datagram_socket, acceptor, connector).  An *)
(* object keeps a handle and the error of its last call; the kernel gives  *)
(* out any handle that is not open, so that numbers are used again.        *)
(*                                                                         *)
(* A method is one step: an object is used by one thread at a time here.   *)
(* (Mgard300_Handler is about what happens otherwise.)                     *)
(***************************************************************************)
EXTENDS Naturals

CONSTANTS
    Objects,          \* socket objects of the program
    Handles,          \* descriptor numbers
    INVALID_SOCKET

ASSUME SocketAssumption ==
    /\ INVALID_SOCKET \notin Handles
    /\ Objects \cap {"closed", "caller", "lost"} = {}

VARIABLES
    handle_,      \* per object
    lastErr_,     \* per object: "none", or the cached errno
    kernel,       \* per descriptor: its state in the kernel
    loose,        \* descriptors that release() gave to the caller
    lost,         \* history: descriptors that nobody owns
    last          \* history: the last call, if open(), connect() or pair()

vars == <<handle_, lastErr_, kernel, loose, lost, last>>

Errors == {"none", "error", "ETIMEDOUT"}
NoCall == [op |-> "other"]
Calls  == [op : {"open", "connect", "pair"}, obj : Objects, ok : BOOLEAN, blocking : BOOLEAN,
           before : Handles \cup {INVALID_SOCKET}]

(* socket() : handle_(INVALID_SOCKET), lastErr_(0) *)
Init ==
    /\ handle_ = [o \in Objects |-> INVALID_SOCKET]
    /\ lastErr_ = [o \in Objects |-> "none"]
    /\ kernel = [h \in Handles |-> "closed"]
    /\ loose = {} /\ lost = {}
    /\ last = NoCall

Fresh(h)      == h \in Handles /\ kernel[h] = "closed"
is_open(o)    == handle_[o] # INVALID_SOCKET
Called(op, o, ok) ==
    last' = [op |-> op, obj |-> o, ok |-> ok, blocking |-> TRUE, before |-> handle_[o]]
Connected(o, inBlockingMode) ==
    last' = [op |-> "connect", obj |-> o, ok |-> TRUE, blocking |-> inBlockingMode,
             before |-> handle_[o]]

(* check_ret() and its kin keep the error of every call, or clear it. *)
SetError(o, e) == lastErr_' = [lastErr_ EXCEPT ![o] = e]

(* The kernel after close() of a descriptor, if any, and after a change. *)
Without(k, h)    == [g \in Handles |-> IF g = h THEN "closed" ELSE k[g]]
With(k, h, new)  == [g \in Handles |-> IF g = h THEN new ELSE k[g]]

---------------------------------------------------------------------------
(* Mistakes that the properties must catch. *)

OldHandleKept(o, h, err, state) ==
    /\ handle_' = [handle_ EXCEPT ![o] = h]
    /\ SetError(o, err)
    /\ kernel' = With(kernel, h, state)
    /\ UNCHANGED <<loose, lost>>
HandleCopied(o, p) ==
    /\ o # p /\ ~is_open(o)
    /\ handle_' = [handle_ EXCEPT ![o] = handle_[p]]
    /\ SetError(o, lastErr_[p])
    /\ UNCHANGED <<kernel, loose, lost>>
ReadyIsConnected(outcome) == IF outcome = "pending" THEN "ETIMEDOUT" ELSE "none"
ErrorCleared(o, err) ==
    /\ handle_' = [handle_ EXCEPT ![o] = INVALID_SOCKET]
    /\ SetError(o, "none")

---------------------------------------------------------------------------
(* Construction, moves, and the end of an object *)

(* create_handle() and the constructor: the object takes a fresh descriptor; *)
(* what it held before is closed (reset() and move assignment swap first     *)
(* and close the old handle after).                                          *)
Receive(o, h, err, state) ==
    /\ handle_' = [handle_ EXCEPT ![o] = h]
    /\ SetError(o, err)
    /\ kernel' = With(Without(kernel, handle_[o]), h, state)
    /\ UNCHANGED <<loose, lost>>

(* create(): an object whose socket() failed gets the error. *)
create(o) ==
    /\ \/ \E h \in Handles : Fresh(h) /\ Receive(o, h, "none", "new")
       \/ Receive(o, INVALID_SOCKET, "error", "new")

(* p = o.clone(): a dup() that failed leaves no error in the new object. *)
clone(o, p) ==
    /\ is_open(o) /\ o # p
    /\ \/ \E h \in Handles : Fresh(h) /\ Receive(p, h, "none", kernel[handle_[o]])
       \/ Receive(p, INVALID_SOCKET, "none", "new")

(* socketpair() gives two descriptors or none.  socket::pair() keeps its     *)
(* error in both sockets; stream_socket_tmpl::pair() takes the handles out   *)
(* of them, and leaves the error behind, as does datagram_socket_tmpl's.     *)
Both(f, o, p, a, b) == [f EXCEPT ![o] = a, ![p] = b]
PairWith(o, p, err) ==
    /\ o # p
    /\ \/ \E g, h \in Handles :
            /\ g # h /\ Fresh(g) /\ Fresh(h)
            /\ handle_' = Both(handle_, o, p, g, h)
            /\ lastErr_' = Both(lastErr_, o, p, "none", "none")
            /\ kernel' = With(With(Without(Without(kernel, handle_[o]), handle_[p]),
                                   g, "connected"), h, "connected")
            /\ Called("pair", o, TRUE)
       \/ /\ handle_' = Both(handle_, o, p, INVALID_SOCKET, INVALID_SOCKET)
          /\ lastErr_' = Both(lastErr_, o, p, err, err)
          /\ kernel' = Without(Without(kernel, handle_[o]), handle_[p])
          /\ Called("pair", o, FALSE)
    /\ UNCHANGED <<loose, lost>>
pair(o, p)        == PairWith(o, p, "error")
stream_pair(o, p) == PairWith(o, p, "none")

(* socket(socket&&): for a new object o; both keep the error. *)
MoveConstruct(o, p) ==
    /\ o # p /\ ~is_open(o)
    /\ handle_' = [handle_ EXCEPT ![o] = handle_[p], ![p] = INVALID_SOCKET]
    /\ SetError(o, lastErr_[p])
    /\ UNCHANGED <<kernel, loose, lost>>

(* operator=(socket&&): the handles are swapped. *)
MoveAssign(o, p) ==
    /\ o # p
    /\ handle_' = [handle_ EXCEPT ![o] = handle_[p], ![p] = handle_[o]]
    /\ SetError(o, lastErr_[p])
    /\ UNCHANGED <<kernel, loose, lost>>

release(o) ==
    /\ is_open(o)
    /\ loose' = loose \cup {handle_[o]}
    /\ handle_' = [handle_ EXCEPT ![o] = INVALID_SOCKET]
    /\ UNCHANGED <<lastErr_, kernel, lost>>

(* reset(h) and socket(h): the caller gives away a handle it holds, or none. *)
reset(o, h) ==
    /\ handle_' = [handle_ EXCEPT ![o] = h]
    /\ SetError(o, "none")
    /\ kernel' = Without(kernel, handle_[o])
    /\ loose' = loose \ {h}
    /\ UNCHANGED <<lost>>

(* close(h) by a caller that holds the handle itself *)
CallerCloses(h) ==
    /\ h \in loose
    /\ loose' = loose \ {h}
    /\ kernel' = Without(kernel, h)
    /\ UNCHANGED <<handle_, lastErr_, lost>>

(* close() and ~socket(): the descriptor is gone even when close(2) reports  *)
(* an error, which is kept then.                                             *)
close(o) ==
    /\ \E err \in {lastErr_[o], "error"} :
          SetError(o, IF is_open(o) THEN err ELSE lastErr_[o])
    /\ handle_' = [handle_ EXCEPT ![o] = INVALID_SOCKET]
    /\ kernel' = Without(kernel, handle_[o])
    /\ UNCHANGED <<loose, lost>>

(* shutdown(): the handle is released, but nobody takes it. *)
shutdown(o) ==
    /\ is_open(o)
    /\ \E err \in {"none", "error"} : SetError(o, err)
    /\ lost' = lost \cup {handle_[o]}
    /\ handle_' = [handle_ EXCEPT ![o] = INVALID_SOCKET]
    /\ UNCHANGED <<kernel, loose>>

---------------------------------------------------------------------------
(* Calls on the handle that only leave an error: bind(), address(),        *)
(* peer_address(), get_option(), set_option(); and clear().                *)
CheckedCall(o) ==
    /\ \E err \in IF is_open(o) THEN {"none", "error"} ELSE {"error"} : SetError(o, err)
    /\ UNCHANGED <<handle_, kernel, loose, lost>>

clear(o) ==
    /\ \E err \in Errors : SetError(o, err)
    /\ UNCHANGED <<handle_, kernel, loose, lost>>

(* set_non_blocking(): two fcntl() calls.  The mode itself matters to        *)
(* connect() only, which notes in what mode it leaves a new connection.      *)
set_non_blocking(o, err) ==
    /\ is_open(o) \/ err = "error"
    /\ SetError(o, err)
    /\ UNCHANGED <<handle_, kernel, loose, lost>>

---------------------------------------------------------------------------
(* acceptor *)

(* close_on_err(): the handle goes, the error of the failed call stays. *)
close_on_err(o, err) ==
    /\ handle_' = [handle_ EXCEPT ![o] = INVALID_SOCKET]
    /\ SetError(o, err)

(* open() of an object that is open succeeds, whatever it is open for.      *)
(* Else socket() may fail; or set_option(), bind() or listen() may, and the *)
(* new handle is closed again.                                              *)
open(o) ==
    \/ is_open(o) /\ Called("open", o, TRUE)
       /\ UNCHANGED <<handle_, lastErr_, kernel, loose, lost>>
    \/ /\ ~is_open(o)
       /\ \/ \E h \in Handles :
               Fresh(h) /\ Receive(o, h, "none", "listening") /\ Called("open", o, TRUE)
          \/ /\ Called("open", o, FALSE)
             /\ SetError(o, "error")
             /\ UNCHANGED <<handle_, kernel, loose, lost>>
          \/ \E h \in Handles :
               /\ Fresh(h)
               /\ close_on_err(o, "error")
               /\ kernel' = Without(kernel, h)
               /\ Called("open", o, FALSE)
               /\ UNCHANGED <<loose, lost>>

(* p = o.accept(): the acceptor keeps the error, or loses the one it had.    *)
accept(o, p) ==
    /\ o # p
    /\ \/ /\ is_open(o) /\ kernel[handle_[o]] = "listening"
          /\ lastErr_' = Both(lastErr_, o, p, "none", "none")
          /\ \E h \in Handles :
               /\ Fresh(h)
               /\ handle_' = [handle_ EXCEPT ![p] = h]
               /\ kernel' = With(Without(kernel, handle_[p]), h, "connected")
       \/ /\ lastErr_' = Both(lastErr_, o, p, "error", "none")
          /\ handle_' = [handle_ EXCEPT ![p] = INVALID_SOCKET]
          /\ kernel' = Without(kernel, handle_[p])
    /\ UNCHANGED <<loose, lost>>

---------------------------------------------------------------------------
(* connector *)

(* recreate() that fails leaves the old connection in place. *)
RecreateFails(o) ==
    /\ SetError(o, "error")
    /\ Called("connect", o, FALSE)
    /\ UNCHANGED <<handle_, kernel, loose, lost>>

(* recreate() has closed the old handle; connect() fails, the new one goes. *)
ConnectFails(o, err) ==
    /\ close_on_err(o, err)
    /\ kernel' = Without(kernel, handle_[o])
    /\ Called("connect", o, FALSE)
    /\ UNCHANGED <<loose, lost>>

connect(o) ==
    \/ RecreateFails(o)
    \/ \E h \in Handles :
         /\ Fresh(h)
         /\ \/ Receive(o, h, "none", "connected") /\ Connected(o, TRUE)
            \/ ConnectFails(o, "error")

(* connect() with a timeout.  The attempt ends, is refused or is still       *)
(* under way when select() returns; SO_ERROR tells the first two apart.      *)
ConnectError(outcome) ==
    CASE outcome = "connected" -> "none"
      [] outcome = "refused"   -> "error"
      [] outcome = "pending"   -> "ETIMEDOUT"

(* Any call on the way may fail.  The return to blocking mode may fail too,  *)
(* but the result does not say so.                                           *)
connect_timeout(o) ==
    \/ RecreateFails(o)
    \/ \E h \in Handles, outcome \in {"connected", "refused", "pending"} :
        /\ Fresh(h)
        /\ \E err \in {ConnectError(outcome), "error"} :
            IF err # "none" THEN ConnectFails(o, err)
            ELSE /\ handle_' = [handle_ EXCEPT ![o] = h]
                 /\ kernel' = With(Without(kernel, handle_[o]), h, outcome)
                 /\ \E restored \in BOOLEAN :
                      /\ SetError(o, IF restored THEN "none" ELSE "error")
                      /\ Connected(o, restored)
                 /\ UNCHANGED <<loose, lost>>

---------------------------------------------------------------------------
socket(o) ==
    \/ create(o)
    \/ release(o)
    \/ \E h \in loose \cup {INVALID_SOCKET} : reset(o, h)
    \/ close(o)
    \/ shutdown(o)
    \/ CheckedCall(o)
    \/ clear(o)
    \/ \E err \in {"none", "error"} : set_non_blocking(o, err)
    \/ \E p \in Objects :
         clone(o, p) \/ MoveConstruct(o, p) \/ MoveAssign(o, p)

acceptor(o) ==
    \/ open(o)
    \/ \E p \in Objects : accept(o, p) /\ last' = NoCall

(* datagram_socket.  The constructor keeps no error of its socket().         *)
(* connect() fixes the peer; send(), send_to() and recv() leave only an      *)
(* error.  (The constructor that binds and recv_from() have no definition.)  *)
DatagramSocket(o) ==
    \/ \E h \in Handles : Fresh(h) /\ Receive(o, h, "none", "new")
    \/ Receive(o, INVALID_SOCKET, "none", "new")
DatagramConnect(o) ==
    \/ /\ is_open(o) /\ kernel[handle_[o]] = "new"
       /\ kernel' = With(kernel, handle_[o], "connected")
       /\ SetError(o, "none")
       /\ UNCHANGED <<handle_, loose, lost>>
    \/ CheckedCall(o)
DatagramIO(o) == CheckedCall(o)
datagram_socket(o) == DatagramSocket(o) \/ DatagramConnect(o) \/ DatagramIO(o)

connector(o) == connect(o) \/ connect_timeout(o)

Next ==
    \/ \E o \in Objects : (socket(o) \/ datagram_socket(o)) /\ last' = NoCall
    \/ \E o \in Objects : acceptor(o) \/ connector(o)
    \/ \E o, p \in Objects : pair(o, p) \/ stream_pair(o, p)
    \/ \E h \in Handles : CallerCloses(h) /\ last' = NoCall

Spec == Init /\ [][Next]_vars

---------------------------------------------------------------------------
(* Properties *)

(* Every variable stays in its range. *)
TypeOK ==
    /\ handle_ \in [Objects -> Handles \cup {INVALID_SOCKET}]
    /\ lastErr_ \in [Objects -> Errors]
    /\ kernel \in [Handles -> {"closed", "new", "listening", "connected", "refused", "pending"}]
    /\ loose \subseteq Handles
    /\ lost \subseteq Handles
    /\ last \in Calls \cup {NoCall}

(* "Strict ownership": an open object's descriptor is open, and is held by   *)
(* no other object and by no caller, so that no close hits what another owns *)
(* even though the kernel gives out its numbers again.                       *)
OneOwner ==
    \A o \in Objects : is_open(o) =>
        /\ kernel[handle_[o]] # "closed"
        /\ handle_[o] \notin loose \cup lost
        /\ \A p \in Objects : handle_[p] = handle_[o] => p = o

(* Nothing else keeps a descriptor open: it is owned by an object, was       *)
(* released to the caller, or was lost by shutdown().                        *)
Accounted ==
    \A h \in Handles : kernel[h] # "closed" <=>
        h \in loose \cup lost \cup {handle_[o] : o \in Objects}

(* A connect() that returns true has left a connected socket, in blocking    *)
(* mode unless the object holds an error.                                    *)
ConnectedIfTrue ==
    (last.op = "connect" /\ last.ok) =>
        /\ kernel[handle_[last.obj]] = "connected"
        /\ ~last.blocking => lastErr_[last.obj] # "none"

(* "On any error it will be sure to leave the underlying socket in an        *)
(* unopened/invalid state": an open() or connect() that returns false leaves *)
(* an error, and no descriptor of its own attempt.  open() leaves none at    *)
(* all; connect() may leave the connection there was before.                 *)
FailureReported ==
    (last.op \in {"open", "connect"} /\ ~last.ok) =>
        /\ lastErr_[last.obj] # "none"
        /\ \/ ~is_open(last.obj)
           \/ last.op = "connect" /\ handle_[last.obj] = last.before

(* The objects implement ownership of descriptors. *)
OwnerOf(h) ==
    IF kernel[h] = "closed" THEN "closed"
    ELSE IF h \in loose THEN "caller"
    ELSE IF h \in lost THEN "lost"
    ELSE CHOOSE o \in Objects : handle_[o] = h
Ownership == INSTANCE HandleOwner WITH
    Closed <- "closed", Caller <- "caller", Lost <- "lost",
    owner <- [h \in Handles |-> OwnerOf(h)]
ImplementsOwnership == Ownership!Spec

===============================================================================
