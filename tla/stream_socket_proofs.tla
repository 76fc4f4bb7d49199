------------------------- MODULE stream_socket_proofs -------------------------
(* Proofs about the read and write loops of stream_socket. *)
EXTENDS stream_socket, TLAPS

USE StreamAssumption DEF StreamAssumption, Threads, reader, writer

(* A step of another thread or of the peer leaves the call of t alone. *)
callVars(t) == <<op[t], pc[t], done[t], nx[t], err_[t], moved[t]>>

(* The loop counter follows the bytes moved, one system call behind. *)
Accounted(t) ==
    IF pc[t] = "test" THEN done[t] + Counted(t) = moved[t] ELSE done[t] = moved[t]

(* Every loop stays inside its buffer, and the kernel inside its own. *)
InRange ==
    /\ TypeOK
    /\ \A t \in Threads : /\ pc[t] \in {"call", "test"} => done[t] < Length
                          /\ Accounted(t)

(* What a test sees: an error of the system call before it, which is the one *)
(* kept by the object unless the other thread came between.                 *)
Tested(t) ==
    /\ pc[t] # "idle" => op[t] \in Calls(t)
    /\ nx[t] < 0 <=> err_[t] # "none"
    /\ pc[t] = "test" /\ nx[t] = 0 => t = reader /\ fin
    /\ pc[t] = "test" /\ op[t] \in Caching /\ ~crossed[t] => lastErr_ = err_[t]

(* Why a call may return short. *)
Reason(t) ==
    (pc[t] = "returned" /\ op[t] \notin Single /\ done[t] < Length) =>
        \/ err_[t] \in {"EAGAIN", "ECONNRESET"}
        \/ nx[t] = 0 /\ fin /\ op[t] = "read_n"
        \/ crossed[t] /\ op[t] \in {"read_n", "write_n"}

Explained == \A t \in Threads : Tested(t) /\ Reason(t)

(* Every variable stays in its range, in every reachable state. *)
LEMMA InRangeInit == Init => InRange
<1>. SUFFICES ASSUME Init PROVE InRange
  OBVIOUS
<1>1. op \in [Threads -> {"none"} \cup UNION {Calls(u) : u \in Threads}]
  BY Zenon DEF Init
<1>2. /\ pc \in [Threads -> {"idle", "call", "test", "returned"}]
      /\ done \in [Threads -> 0..Length] /\ nx \in [Threads -> -1..Length]
      /\ err_ \in [Threads -> Errno] /\ moved \in [Threads -> 0..Length]
      /\ crossed \in [Threads -> BOOLEAN]
  BY DEF Init, Errno
<1>3. /\ lastErr_ \in Errno /\ inbox \in 0..Capacity /\ outbox \in 0..Capacity
      /\ signals \in 0..MaxSignals /\ fin = FALSE /\ reset = FALSE
  BY DEF Init, Errno
<1>4. TypeOK
  BY <1>1, <1>2, <1>3 DEF TypeOK
<1>5. \A t \in Threads : pc[t] = "idle" /\ done[t] = 0 /\ moved[t] = 0
  BY DEF Init
<1>. QED
  BY <1>4, <1>5 DEF InRange, Accounted

LEMMA PeerInRange == ASSUME InRange, Peer PROVE InRange'
<1>1. inbox \in 0..Capacity /\ outbox \in 0..Capacity /\ fin \in BOOLEAN /\ reset \in BOOLEAN
  BY DEF InRange, TypeOK
<1>. DEFINE Kept == UNCHANGED threadVars /\ UNCHANGED signals
            Stays == /\ inbox' \in 0..Capacity /\ outbox' \in 0..Capacity
                     /\ fin' \in BOOLEAN /\ reset' \in BOOLEAN
<1>2. ASSUME Push PROVE Kept /\ Stays
  <2>1. Kept
    BY <1>2, Zenon DEF Push
  <2>. QED
    BY <1>1, <1>2, <2>1 DEF Push
<1>3. ASSUME Pull PROVE Kept /\ Stays
  <2>1. Kept
    BY <1>3, Zenon DEF Pull
  <2>. QED
    BY <1>1, <1>3, <2>1 DEF Pull
<1>4. ASSUME Finish PROVE Kept /\ Stays
  <2>1. Kept
    BY <1>4, Zenon DEF Finish
  <2>. QED
    BY <1>1, <1>4, <2>1 DEF Finish
<1>5. ASSUME Break PROVE Kept /\ Stays
  <2>1. Kept
    BY <1>5, Zenon DEF Break
  <2>. QED
    BY <1>1, <1>5, <2>1 DEF Break
<1>6. Kept /\ Stays
  BY <1>2, <1>3, <1>4, <1>5 DEF Peer
<1>. QED
  BY <1>6 DEF InRange, Accounted, TypeOK, threadVars, Counted

LEMMA CallInRange ==
  ASSUME InRange, NEW t \in Threads, NEW name \in Calls(t), Call(t, name)
  PROVE  InRange'
<1>. name \in UNION {Calls(u) : u \in Threads}
  OBVIOUS
<1>1. TypeOK'
  <2>1. op' \in [Threads -> {"none"} \cup UNION {Calls(u) : u \in Threads}]
    BY Zenon DEF InRange, TypeOK, Call
  <2>2. /\ pc' \in [Threads -> {"idle", "call", "test", "returned"}]
        /\ done' \in [Threads -> 0..Length] /\ nx' \in [Threads -> -1..Length]
        /\ err_' \in [Threads -> Errno] /\ moved' \in [Threads -> 0..Length]
        /\ crossed' \in [Threads -> BOOLEAN]
    BY DEF InRange, TypeOK, Call, Errno
  <2>. QED
    BY <2>1, <2>2 DEF InRange, TypeOK, Call, peerVars
<1>2. \A u \in Threads : u # t => callVars(u)' = callVars(u)
  BY DEF InRange, TypeOK, Call, callVars
<1>3. pc'[t] = "call" /\ done'[t] = 0 /\ moved'[t] = 0
  BY DEF InRange, TypeOK, Call
<1>. QED
  BY <1>1, <1>2, <1>3 DEF InRange, Accounted, callVars, Counted

(* One system call: what it returns is what the kernel moved, and fits. *)
Returned(t, ret, e) ==
    /\ ret \in -1..Length /\ e \in Errno
    /\ check_ret(t, ret, e)
    /\ ret < 0 <=> e # "none"
    /\ ret = 0 => t = reader /\ fin
    /\ ret <= Length - done[t]
    /\ moved' = IF ret > 0 THEN [moved EXCEPT ![t] = @ + ret] ELSE moved

LEMMA SystemCallFacts ==
  ASSUME InRange, NEW t \in Threads, SystemCall(t)
  PROVE  /\ \E ret, e : Returned(t, ret, e)
         /\ UNCHANGED <<fin, reset>>
         /\ inbox' \in 0..Capacity /\ outbox' \in 0..Capacity
         /\ signals' \in 0..MaxSignals
<1>1. done[t] \in 0..Length /\ done[t] < Length /\ inbox \in 0..Capacity
        /\ outbox \in 0..Capacity /\ signals \in 0..MaxSignals
  BY DEF SystemCall, InRange, TypeOK
<1>2. CASE t = reader /\ Recv
  <2>1. CASE \E k \in 1..inbox :
                /\ k <= Length - done[reader]
                /\ inbox' = inbox - k
                /\ moved' = [moved EXCEPT ![reader] = @ + k]
                /\ check_ret(reader, k, "none")
                /\ UNCHANGED <<outbox, fin, reset, signals>>
    <3>. PICK k \in 1..inbox :
                /\ k <= Length - done[reader]
                /\ inbox' = inbox - k
                /\ moved' = [moved EXCEPT ![reader] = @ + k]
                /\ check_ret(reader, k, "none")
                /\ UNCHANGED <<outbox, fin, reset, signals>>
      BY <2>1
    <3>1. Returned(t, k, "none")
      BY <1>1, <1>2 DEF Returned, Errno
    <3>. QED
      BY <1>1, <3>1
  <2>2. CASE /\ fin /\ inbox = 0 /\ ~reset
             /\ check_ret(reader, 0, "none")
             /\ UNCHANGED <<peerVars, signals, moved>>
    <3>1. Returned(t, 0, "none")
      BY <1>1, <1>2, <2>2 DEF Returned, Errno
    <3>. QED
      BY <1>1, <2>2, <3>1 DEF peerVars
  <2>. QED
    BY <1>2, <2>1, <2>2 DEF Recv
<1>3. CASE t = writer /\ Send
  <2>. PICK k \in 1..(Capacity - outbox) :
        /\ ~reset
        /\ k <= Length - done[writer]
        /\ outbox' = outbox + k
        /\ moved' = [moved EXCEPT ![writer] = @ + k]
        /\ check_ret(writer, k, "none")
        /\ UNCHANGED <<inbox, fin, reset, signals>>
    BY <1>3 DEF Send
  <2>1. Returned(t, k, "none")
    BY <1>1, <1>3 DEF Returned, Errno
  <2>. QED
    BY <1>1, <2>1
<1>4. CASE Fails(t)
  <2>1. UNCHANGED <<peerVars, moved>>
    BY <1>4 DEF Fails
  <2>2. PICK e \in Errno \ {"none"} : check_ret(t, -1, e)
    BY <1>4 DEF Fails, Errno
  <2>3. signals' \in 0..MaxSignals
    BY <1>1, <1>4 DEF Fails
  <2>4. Returned(t, -1, e)
    BY <1>1, <2>1, <2>2 DEF Returned
  <2>. QED
    BY <1>1, <2>1, <2>3, <2>4 DEF peerVars
<1>. QED
  BY <1>2, <1>3, <1>4 DEF SystemCall

LEMMA SystemCallInRange ==
  ASSUME InRange, NEW t \in Threads, SystemCall(t)
  PROVE  InRange'
<1>1. PICK ret, e : Returned(t, ret, e)
  BY SystemCallFacts
<1>2. pc[t] = "call" /\ pc' = [pc EXCEPT ![t] = "test"] /\ UNCHANGED <<op, done>>
  BY DEF SystemCall
<1>3. done[t] < Length /\ done[t] \in 0..Length /\ moved[t] = done[t]
  BY <1>2 DEF InRange, TypeOK, Accounted
<1>4. nx' = [nx EXCEPT ![t] = ret] /\ err_' = [err_ EXCEPT ![t] = e] /\ lastErr_' \in {e, lastErr_}
  BY <1>1 DEF Returned, check_ret
<1>5. crossed' \in [Threads -> BOOLEAN]
  BY <1>1 DEF Returned, check_ret, InRange, TypeOK
<1>6. moved' \in [Threads -> 0..Length]
  BY <1>1, <1>3 DEF Returned, InRange, TypeOK
<1>7. TypeOK'
  <2>1. /\ ret \in -1..Length /\ e \in Errno
        /\ inbox' \in 0..Capacity /\ outbox' \in 0..Capacity
        /\ signals' \in 0..MaxSignals /\ UNCHANGED <<fin, reset>>
    BY <1>1, SystemCallFacts DEF Returned
  <2>. QED
    BY <2>1, <1>2, <1>4, <1>5, <1>6 DEF InRange, TypeOK
<1>8. \A u \in Threads : u # t => callVars(u)' = callVars(u)
  BY <1>1, <1>2, <1>4 DEF InRange, TypeOK, callVars, Returned
<1>9. Accounted(t)' /\ done'[t] < Length
  BY <1>1, <1>2, <1>3, <1>4 DEF Accounted, Counted, Returned, InRange, TypeOK
<1>. QED
  BY <1>7, <1>8, <1>9 DEF InRange, Accounted, Counted, callVars

(* The test after it counts what was moved. *)
LEMMA TestInRange ==
  ASSUME InRange, NEW t \in Threads, Test(t)
  PROVE  InRange'
<1>1. /\ pc[t] = "test" /\ done[t] \in 0..Length /\ moved[t] \in 0..Length
      /\ done[t] + Counted(t) = moved[t] /\ Counted(t) \in Nat
  BY DEF Test, InRange, TypeOK, Accounted, Counted
<1>2. /\ done' = [done EXCEPT ![t] = @ + Counted(t)]
      /\ pc' = [pc EXCEPT ![t] = IF Stops(t) THEN "returned" ELSE "call"]
      /\ UNCHANGED <<op, nx, err_, lastErr_, moved, crossed, peerVars, signals>>
  BY DEF Test
<1>3. /\ pc'[t] \in {"returned", "call"} /\ done'[t] = moved[t]
      /\ pc'[t] = "call" => done'[t] # Length
  BY <1>1, <1>2 DEF Stops, InRange, TypeOK
<1>4. TypeOK'
  BY <1>1, <1>2 DEF InRange, TypeOK, peerVars
<1>5. \A u \in Threads : u # t => callVars(u)' = callVars(u)
  BY <1>2 DEF InRange, TypeOK, callVars
<1>. QED
  BY <1>1, <1>2, <1>3, <1>4, <1>5 DEF InRange, Accounted, Counted, callVars, TypeOK

LEMMA InRangeNext == InRange /\ [Next]_vars => InRange'
<1>. SUFFICES ASSUME InRange, [Next]_vars PROVE InRange'
  OBVIOUS
<1>1. CASE Peer
  BY <1>1, PeerInRange
<1>2. ASSUME NEW t \in Threads, Run(t) PROVE InRange'
  BY <1>2, SystemCallInRange, TestInRange DEF Run
<1>3. ASSUME NEW t \in Threads, NEW name \in Calls(t), Call(t, name) PROVE InRange'
  BY <1>3, CallInRange
<1>4. CASE UNCHANGED vars
  BY <1>4 DEF vars, threadVars, peerVars, InRange, Accounted, TypeOK, Counted
<1>. QED
  BY <1>1, <1>2, <1>3, <1>4 DEF Next

(* InRange is an invariant of the read and write loops. *)
THEOREM AlwaysInRange == Spec => []InRange
  BY InRangeInit, InRangeNext, PTL DEF Spec

(* Every variable stays in its range: no loop counts past its buffer, for   *)
(* every length, capacity and number of signals.                            *)
THEOREM Typing == Spec => []TypeOK
<1>1. InRange => TypeOK
  BY DEF InRange
<1>. QED
  BY <1>1, AlwaysInRange, PTL

(* What a call returns is what the kernel moved: no byte is lost or counted *)
(* twice, through partial transfers, interruptions and errors.              *)
THEOREM Counting == Spec => []NoByteLost
<1>1. InRange => NoByteLost
  BY DEF InRange, Accounted, TypeOK, NoByteLost, Result
<1>. QED
  BY <1>1, AlwaysInRange, PTL

---------------------------------------------------------------------------
(* Why a call returns short *)

LEMMA PeerExplains == ASSUME Explained, Peer PROVE Explained'
<1>1. UNCHANGED threadVars
  BY Zenon DEF Peer, Push, Pull, Finish, Break
<1>2. fin => fin'
  BY DEF Peer, Push, Pull, Finish, Break
<1>. QED
  BY <1>1, <1>2 DEF Explained, Tested, Reason, threadVars

LEMMA CallExplains ==
  ASSUME InRange, Explained, NEW t \in Threads, NEW name \in Calls(t), Call(t, name)
  PROVE  Explained'
<1>1. /\ pc' = [pc EXCEPT ![t] = "call"] /\ op' = [op EXCEPT ![t] = name]
      /\ nx' = [nx EXCEPT ![t] = 0] /\ err_' = [err_ EXCEPT ![t] = "none"]
      /\ done' = [done EXCEPT ![t] = 0] /\ crossed' = [crossed EXCEPT ![t] = FALSE]
      /\ UNCHANGED <<lastErr_, fin>>
  BY DEF Call, peerVars
<1>2. Tested(t)' /\ Reason(t)'
  BY <1>1 DEF Tested, Reason, InRange, TypeOK
<1>3. ASSUME NEW u \in Threads, u # t PROVE Tested(u)' /\ Reason(u)'
  BY <1>1, <1>3 DEF Explained, Tested, Reason, InRange, TypeOK
<1>. QED
  BY <1>2, <1>3 DEF Explained

(* A system call of one thread may overwrite the error the other will test,  *)
(* and then marks the other as crossed.                                      *)
LEMMA SystemCallExplains ==
  ASSUME InRange, Explained, NEW t \in Threads, SystemCall(t)
  PROVE  Explained'
<1>1. PICK ret, e : Returned(t, ret, e)
  BY SystemCallFacts
<1>2. pc[t] = "call" /\ pc' = [pc EXCEPT ![t] = "test"] /\ UNCHANGED <<op, done>>
  BY DEF SystemCall
<1>3. fin' = fin
  BY SystemCallFacts
<1>4. /\ nx' = [nx EXCEPT ![t] = ret] /\ err_' = [err_ EXCEPT ![t] = e]
      /\ lastErr_' = IF op[t] \in Caching THEN e ELSE lastErr_
      /\ crossed' = [u \in Threads |->
            IF u # t /\ pc[u] = "test" /\ op[t] \in Caching THEN TRUE ELSE crossed[u]]
      /\ ret < 0 <=> e # "none"
      /\ ret = 0 => t = reader /\ fin
  BY <1>1 DEF Returned, check_ret
<1>5. Tested(t)' /\ Reason(t)'
  BY <1>2, <1>3, <1>4 DEF Explained, Tested, Reason, InRange, TypeOK
<1>6. ASSUME NEW u \in Threads, u # t PROVE Tested(u)' /\ Reason(u)'
  <2>1. /\ pc'[u] = pc[u] /\ op'[u] = op[u] /\ nx'[u] = nx[u] /\ err_'[u] = err_[u]
        /\ done'[u] = done[u]
    BY <1>2, <1>4, <1>6 DEF InRange, TypeOK
  <2>2. Tested(u)'
    BY <2>1, <1>3, <1>4, <1>6 DEF Explained, Tested
  <2>3. pc[u] = "returned" => crossed'[u] = crossed[u]
    BY <1>4, <1>6
  <2>. QED
    BY <2>1, <2>2, <2>3, <1>3 DEF Explained, Reason
<1>. QED
  BY <1>5, <1>6 DEF Explained

LEMMA TestExplains ==
  ASSUME InRange, Explained, NEW t \in Threads, Test(t)
  PROVE  Explained'
<1>1. /\ pc[t] = "test"
      /\ done' = [done EXCEPT ![t] = @ + Counted(t)]
      /\ pc' = [pc EXCEPT ![t] = IF Stops(t) THEN "returned" ELSE "call"]
      /\ UNCHANGED <<op, nx, err_, lastErr_, crossed, fin>>
  BY DEF Test, peerVars
<1>2. Tested(t)'
  BY <1>1 DEF Explained, Tested, InRange, TypeOK
<1>3. Reason(t)'
  <2>. SUFFICES ASSUME Stops(t), op[t] \notin Single, done[t] + Counted(t) < Length
                PROVE  \/ err_[t] \in {"EAGAIN", "ECONNRESET"}
                       \/ nx[t] = 0 /\ fin /\ op[t] = "read_n"
                       \/ crossed[t] /\ op[t] \in {"read_n", "write_n"}
    BY <1>1 DEF Reason, InRange, TypeOK
  <2>1. op[t] \in Calls(t) /\ err_[t] \in Errno /\ (op[t] \in Caching => op[t] \in {"read_n", "write_n"})
    BY <1>1 DEF Explained, Tested, InRange, TypeOK, Caching, Single
  <2>2. CASE nx[t] < 0 /\ ~Interrupted(t)
    <3>1. err_[t] # "none" /\ ErrorSeen(t) # "EINTR"
      BY <1>1, <2>2 DEF Interrupted, Explained, Tested
    <3>2. ErrorSeen(t) = err_[t] \/ (op[t] \in Caching /\ crossed[t])
      BY <1>1 DEF ErrorSeen, Explained, Tested
    <3>. QED
      BY <2>1, <3>1, <3>2 DEF Errno
  <2>3. CASE EndOfFile(t)
    <3>1. nx[t] = 0 /\ t = reader /\ fin /\ op[t] \in Caching
      BY <1>1, <2>3 DEF EndOfFile, Explained, Tested
    <3>. QED
      BY <2>1, <3>1 DEF Calls
  <2>4. done[t] + Counted(t) # Length
    BY DEF Counted, InRange, TypeOK
  <2>. QED
    BY <2>2, <2>3, <2>4 DEF Stops
<1>4. ASSUME NEW u \in Threads, u # t PROVE Tested(u)' /\ Reason(u)'
  BY <1>1, <1>4 DEF Explained, Tested, Reason, InRange, TypeOK
<1>. QED
  BY <1>2, <1>3, <1>4 DEF Explained

LEMMA ExplainedNext == InRange /\ Explained /\ [Next]_vars => Explained'
<1>. SUFFICES ASSUME InRange, Explained, [Next]_vars PROVE Explained'
  OBVIOUS
<1>1. CASE Peer
  BY <1>1, PeerExplains
<1>2. ASSUME NEW t \in Threads, Run(t) PROVE Explained'
  BY <1>2, SystemCallExplains, TestExplains DEF Run
<1>3. ASSUME NEW t \in Threads, NEW name \in Calls(t), Call(t, name) PROVE Explained'
  BY <1>3, CallExplains
<1>4. CASE UNCHANGED vars
  BY <1>4 DEF vars, threadVars, peerVars, Explained, Tested, Reason
<1>. QED
  BY <1>1, <1>2, <1>3, <1>4 DEF Next

(* A call that came back short was stopped by an error or by the end of the  *)
(* stream, and a call that keeps its error to itself always can say which.   *)
THEOREM Reasons == Spec => []ShortForAReason
<1>1. Init => Explained
  BY DEF Init, Explained, Tested, Reason
<1>2. Explained => ShortForAReason
  BY DEF Explained, Reason, ShortForAReason
<1>. QED
  BY <1>1, <1>2, AlwaysInRange, ExplainedNext, PTL DEF Spec

(* At the end of the stream read_n_r() goes on: no step of anybody but a     *)
(* broken connection ever lets it return.                                    *)
THEOREM Spinning == Spec => SpinsAtEnd
<1>1. ASSUME InRange, [Next]_vars, AtEnd PROVE InCall(reader)'
  <2>. DEFINE r == reader
  <2>1. pc[r] \in {"call", "test"} /\ op[r] = "read_n_r" /\ (pc[r] = "call" \/ nx[r] = 0)
    BY <1>1 DEF AtEnd, Spins, InCall
  <2>2. CASE Peer
    <3>1. UNCHANGED threadVars
      BY <2>2, Zenon DEF Peer, Push, Pull, Finish, Break
    <3>. QED
      BY <2>1, <3>1 DEF threadVars, InCall
  <2>3. ASSUME NEW t \in Threads, SystemCall(t) PROVE InCall(reader)'
    BY <1>1, <2>1, <2>3 DEF SystemCall, InCall, InRange, TypeOK
  <2>4. ASSUME NEW t \in Threads, Test(t) PROVE InCall(reader)'
    <3>1. CASE t = reader
      <4>1. done[r] < Length /\ done[r] \in Nat /\ nx[r] = 0
        BY <1>1, <2>1, <2>4, <3>1 DEF InRange, TypeOK, Test
      <4>2. ~Stops(r)
        BY <2>1, <4>1 DEF Stops, EndOfFile, Counted, Caching, Single, Interrupted
      <4>. QED
        BY <1>1, <2>4, <3>1, <4>2 DEF Test, InCall, InRange, TypeOK
    <3>2. CASE t # reader
      BY <1>1, <2>1, <2>4, <3>2 DEF Test, InCall, InRange, TypeOK
    <3>. QED
      BY <3>1, <3>2
  <2>5. ASSUME NEW t \in Threads, NEW name \in Calls(t), Call(t, name) PROVE InCall(reader)'
    BY <1>1, <2>1, <2>5 DEF Call, InCall, InRange, TypeOK
  <2>6. CASE UNCHANGED vars
    BY <2>1, <2>6 DEF vars, threadVars, InCall
  <2>. QED
    BY <1>1, <2>2, <2>3, <2>4, <2>5, <2>6 DEF Next, Run
<1>. QED
  BY <1>1, AlwaysInRange, PTL DEF Spec, SpinsAtEnd

===============================================================================
