---------------------------- MODULE stream_socket ----------------------------
(***************************************************************************)
(* The read and write loops of sockpp on one connection that two threads   *)
(* share: a reader (as the packet analysis thread) and a writer (as the    *)
(* work thread).  read_n() and write_n() look at the error that the object *)
(* keeps, which the other thread may have changed meanwhile; read_n_r()    *)
(* and write_n_r() carry the error in an ioresult of their own.            *)
(*                                                                         *)
(* Only numbers of bytes are kept.  A system call and the test of its      *)
(* outcome are two steps.                                                  *)
(***************************************************************************)
EXTENDS Integers

CONSTANTS
    Length,       \* bytes asked for in a call
    Capacity,     \* bound: bytes the kernel holds in each direction
    MaxSignals    \* bound: system calls interrupted by a signal

ASSUME StreamAssumption ==
    /\ Length \in Nat \ {0}
    /\ Capacity \in Nat \ {0}
    /\ MaxSignals \in Nat

VARIABLES
    op,        \* per thread: the call it is in
    pc,        \* per thread: "idle", "call", "test", "returned"
    done,      \* per thread: nr, nw or res.count()
    nx,        \* per thread: what the last system call returned
    err_,      \* per thread: the error of that system call
    lastErr_,  \* the error kept by the socket object
    inbox,     \* bytes that arrived and were not read
    outbox,    \* bytes written that the peer has not read
    fin,       \* the peer has finished sending
    reset,     \* the connection is broken
    signals,   \* bound: interruptions so far
    moved,     \* history, per thread: bytes the kernel moved in this call
    crossed    \* history, per thread: the other thread used the object
               \* between a system call of this call and its test

threadVars == <<op, pc, done, nx, err_, lastErr_, moved, crossed>>
peerVars   == <<inbox, outbox, fin, reset>>
vars       == <<threadVars, peerVars, signals>>

reader  == "reader"
writer  == "writer"
Threads == {reader, writer}
Caching == {"read", "read_n", "write", "write_n"}   \* calls that use lastErr_
Single  == {"read", "write"}                       \* one system call, any buffers
Calls(t) == IF t = reader THEN {"read", "read_n", "read_n_r"} ELSE {"write", "write_n", "write_n_r"}

Init ==
    /\ op = [t \in Threads |-> "none"]
    /\ pc = [t \in Threads |-> "idle"]
    /\ done = [t \in Threads |-> 0]
    /\ nx = [t \in Threads |-> 0]
    /\ err_ = [t \in Threads |-> "none"]
    /\ lastErr_ = "none"
    /\ inbox = 0 /\ outbox = 0 /\ fin = FALSE /\ reset = FALSE
    /\ signals = 0
    /\ moved = [t \in Threads |-> 0]
    /\ crossed = [t \in Threads |-> FALSE]

---------------------------------------------------------------------------
(* Mistakes that the properties must catch. *)

CountIfWhole(t)   == IF nx[t] < Length THEN 0 ELSE nx[t]
KeptErrorUsed(t)  == lastErr_
FinIgnored(t)     == FALSE
ZeroEnds(t)       == nx[t] = 0
ErrorAdded(t)     == nx[t]

---------------------------------------------------------------------------
(* The peer sends, reads, ends its side, or breaks the connection. *)

Push == /\ ~fin /\ ~reset /\ inbox < Capacity
        /\ inbox' = inbox + 1
        /\ UNCHANGED <<threadVars, outbox, fin, reset, signals>>
Pull == /\ ~reset /\ outbox > 0
        /\ outbox' = outbox - 1
        /\ UNCHANGED <<threadVars, inbox, fin, reset, signals>>
Finish == /\ ~fin /\ ~reset /\ fin' = TRUE
          /\ UNCHANGED <<threadVars, inbox, outbox, reset, signals>>
Break == /\ ~reset /\ reset' = TRUE
         /\ inbox' = 0 /\ outbox' = 0
         /\ UNCHANGED <<threadVars, fin, signals>>
Peer == Push \/ Pull \/ Finish \/ Break

---------------------------------------------------------------------------
Call(t, name) ==
    /\ pc[t] \in {"idle", "returned"}
    /\ op' = [op EXCEPT ![t] = name]
    /\ pc' = [pc EXCEPT ![t] = "call"]
    /\ done' = [done EXCEPT ![t] = 0]
    /\ nx' = [nx EXCEPT ![t] = 0]
    /\ err_' = [err_ EXCEPT ![t] = "none"]
    /\ moved' = [moved EXCEPT ![t] = 0]
    /\ crossed' = [crossed EXCEPT ![t] = FALSE]
    /\ UNCHANGED <<lastErr_, peerVars, signals>>

(* check_ret() of the caching calls, the constructor of ioresult of the     *)
(* others: the error of a call that failed, or none.                        *)
check_ret(t, ret, e) ==
    /\ nx' = [nx EXCEPT ![t] = ret]
    /\ err_' = [err_ EXCEPT ![t] = e]
    /\ lastErr_' = IF op[t] \in Caching THEN e ELSE lastErr_
    /\ crossed' = [u \in Threads |->
          IF u # t /\ pc[u] = "test" /\ op[t] \in Caching THEN TRUE ELSE crossed[u]]

(* recv() with what is there, at the end of the stream, or failing. *)
Recv ==
    \/ \E k \in 1..inbox :
        /\ k <= Length - done[reader]
        /\ inbox' = inbox - k
        /\ moved' = [moved EXCEPT ![reader] = @ + k]
        /\ check_ret(reader, k, "none")
        /\ UNCHANGED <<outbox, fin, reset, signals>>
    \/ /\ fin /\ inbox = 0 /\ ~reset
       /\ check_ret(reader, 0, "none")
       /\ UNCHANGED <<peerVars, signals, moved>>

Send ==
    \E k \in 1..(Capacity - outbox) :
        /\ ~reset
        /\ k <= Length - done[writer]
        /\ outbox' = outbox + k
        /\ moved' = [moved EXCEPT ![writer] = @ + k]
        /\ check_ret(writer, k, "none")
        /\ UNCHANGED <<inbox, fin, reset, signals>>

(* A broken connection, a timeout of read_timeout() or write_timeout() while *)
(* the call waits, or a signal.                                              *)
Waits(t) == IF t = reader THEN inbox = 0 /\ ~fin ELSE outbox = Capacity
Fails(t) ==
    /\ \/ reset /\ check_ret(t, -1, "ECONNRESET") /\ UNCHANGED signals
       \/ ~reset /\ Waits(t) /\ check_ret(t, -1, "EAGAIN") /\ UNCHANGED signals
       \/ /\ ~reset /\ Waits(t) /\ signals < MaxSignals
          /\ check_ret(t, -1, "EINTR") /\ signals' = signals + 1
    /\ UNCHANGED <<peerVars, moved>>

SystemCall(t) ==
    /\ pc[t] = "call"
    /\ (t = reader /\ Recv) \/ (t = writer /\ Send) \/ Fails(t)
    /\ pc' = [pc EXCEPT ![t] = "test"]
    /\ UNCHANGED <<op, done>>

(* What the test after a system call sees of its error. *)
ErrorSeen(t)   == IF op[t] \in Caching THEN lastErr_ ELSE err_[t]
Counted(t)     == IF nx[t] > 0 THEN nx[t] ELSE 0
Interrupted(t) == nx[t] < 0 /\ ErrorSeen(t) = "EINTR"

(* read_n() and write_n() leave their loop on an error and at the end of the *)
(* stream, read_n_r() and write_n_r() on an error only.                      *)
EndOfFile(t) == nx[t] = 0 /\ op[t] \in Caching
Stops(t) ==
    \/ op[t] \in Single
    \/ nx[t] < 0 /\ ~Interrupted(t)
    \/ EndOfFile(t)
    \/ done[t] + Counted(t) = Length
Test(t) ==
    /\ pc[t] = "test"
    /\ done' = [done EXCEPT ![t] = @ + Counted(t)]
    /\ pc' = [pc EXCEPT ![t] = IF Stops(t) THEN "returned" ELSE "call"]
    /\ UNCHANGED <<op, nx, err_, lastErr_, moved, crossed, peerVars, signals>>

Run(t) == SystemCall(t) \/ Test(t)

Next ==
    \/ Peer
    \/ \E t \in Threads : Run(t) \/ \E name \in Calls(t) : Call(t, name)

Spec == Init /\ [][Next]_vars

(* A thread that can go on goes on.  The peer need do nothing, and nobody   *)
(* need make a call.                                                        *)
FairSpec == Spec /\ \A t \in Threads : WF_vars(Run(t))

---------------------------------------------------------------------------
(* Properties *)

Errno == {"none", "EINTR", "EAGAIN", "ECONNRESET"}

(* Every variable stays in its range; no loop counts past its buffer. *)
TypeOK ==
    /\ op \in [Threads -> {"none"} \cup UNION {Calls(t) : t \in Threads}]
    /\ pc \in [Threads -> {"idle", "call", "test", "returned"}]
    /\ done \in [Threads -> 0..Length]
    /\ nx \in [Threads -> -1..Length]
    /\ err_ \in [Threads -> Errno]
    /\ lastErr_ \in Errno
    /\ inbox \in 0..Capacity /\ outbox \in 0..Capacity
    /\ fin \in BOOLEAN /\ reset \in BOOLEAN
    /\ signals \in 0..MaxSignals
    /\ moved \in [Threads -> 0..Length]
    /\ crossed \in [Threads -> BOOLEAN]

(* What a call returns: "-1 on error" only if nothing was moved. *)
Result(t) == IF op[t] \in Caching /\ done[t] = 0 /\ nx[t] < 0 THEN -1 ELSE done[t]

(* The number returned is the number of bytes the kernel moved, after any    *)
(* interruptions, partial transfers and errors: no byte is lost or counted   *)
(* twice, so that a caller knows where it is in the stream.                  *)
NoByteLost ==
    \A t \in Threads : pc[t] = "returned" =>
        /\ Result(t) = moved[t] \/ (Result(t) = -1 /\ moved[t] = 0)
        /\ moved[t] <= Length

(* A call that comes back short was stopped by an error other than a signal  *)
(* or by the end of the stream.  read_n() and write_n() promise it only if   *)
(* the other thread did not use the object in between; the variants with a   *)
(* result promise it always.                                                 *)
ShortForAReason ==
    \A t \in Threads :
        (pc[t] = "returned" /\ op[t] \notin Single /\ done[t] < Length) =>
            \/ err_[t] \in {"EAGAIN", "ECONNRESET"}
            \/ nx[t] = 0 /\ fin /\ op[t] = "read_n"
            \/ crossed[t] /\ op[t] \in {"read_n", "write_n"}

(* Once the peer is gone, every call ends, but for one: read_n_r() at the    *)
(* end of the stream counts nothing, sees no error, and goes on for ever.    *)
InCall(t) == pc[t] \in {"call", "test"}
Spins     == InCall(reader) /\ op[reader] = "read_n_r" /\ fin
CallsEnd ==
    /\ (InCall(reader) /\ fin) ~> (~InCall(reader) \/ Spins)
    /\ \A t \in Threads : (InCall(t) /\ reset) ~> ~InCall(t)

(* The end of the stream never lets read_n_r() return: once it is there with *)
(* all bytes read, nothing but a broken connection ends the call.            *)
AtEnd == Spins /\ inbox = 0 /\ ~reset /\ (pc[reader] = "call" \/ nx[reader] = 0)
SpinsAtEnd == [][AtEnd => InCall(reader)']_vars

===============================================================================
