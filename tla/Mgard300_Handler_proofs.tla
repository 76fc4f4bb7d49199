------------------------- MODULE Mgard300_Handler_proofs -------------------------
(***************************************************************************)
(* Theorems about Mgard300_Handler for every set of connections, threads   *)
(* and accept loops and every bound.                                       *)
(***************************************************************************)
EXTENDS Mgard300_Handler, FiniteSetTheorems, TLAPS

---------------------------------------------------------------------------
(* Typing *)

LEMMA InitTypeOK == Init => TypeOK
<1>1. ASSUME Init
      PROVE  /\ parser \in [Threads -> ParserPC] /\ source \in [Threads -> Handles]
             /\ \A t \in Threads : parser[t] # "recv"
             /\ loop \in [Loops -> LoopPC]
             /\ accepted \in [Loops -> Handles] /\ replaced \in [Loops -> Handles]
  BY <1>1 DEF Init, Handles, ParserPC, LoopPC
<1>2. ASSUME Init
      PROVE  /\ fd \in [Conns -> {"none", "open", "closed"}]
             /\ number \in [Conns -> Numbers \cup {none}]
             /\ peer \in [Conns -> {"away", "up", "closed", "reset"}]
             /\ inbox \in [Conns -> Seq(Commands)]
  BY <1>2 DEF Init
<1>3. ASSUME Init
      PROVE  /\ current_socket \in [handle_ : Handles, lastErr_ : BOOLEAN]
             /\ q_execute_cmd \in Seq(StateCommands)
             /\ closing \in ClosePC /\ releasing \in Handles
             /\ victims \subseteq Conns
  BY <1>3 DEF Init, Handles, ClosePC
<1>4. ASSUME Init
      PROVE  /\ number_connection \in Nat /\ n_read_bytes \in {5, 0, -1}
             /\ buf \in Commands /\ handlerAlive \in BOOLEAN
             /\ accept_failures \in Nat /\ phantoms \in Nat
             /\ stale_closes \in Nat /\ overlapped \in BOOLEAN
  BY <1>4 DEF Init
<1> QED BY <1>1, <1>2, <1>3, <1>4 DEF TypeOK

(* Clients, accept loops, packet analysis threads and callers one by one. *)
LEMMA ClientTypeOK ==
  ASSUME TypeOK, ClientNext
  PROVE  TypeOK'
<1>1. ASSUME NEW c \in Conns, Connect(c) PROVE TypeOK'
  BY <1>1 DEF TypeOK, Connect, loopVars, parserVars, closeVars, clientVars, fdVars, historyVars
<1>2. ASSUME NEW c \in Conns, NEW cmd \in Commands, Send(c, cmd) PROVE TypeOK'
  BY <1>2 DEF TypeOK, Send, loopVars, parserVars, closeVars, clientVars, fdVars, historyVars
<1>3. ASSUME NEW c \in Conns, NEW how \in {"closed", "reset"}, Leave(c, how)
      PROVE  TypeOK'
  BY <1>3 DEF TypeOK, Leave, loopVars, parserVars, closeVars, clientVars, fdVars, historyVars
<1> QED BY <1>1, <1>2, <1>3 DEF ClientNext

LEMMA CloseNumberType ==
  ASSUME TypeOK, NEW h, CloseNumber(h)
  PROVE  /\ fd' \in [Conns -> {"none", "open", "closed"}]
         /\ stale_closes' \in Nat
         /\ victims' \subseteq Conns
<1>1. Refers(h) \subseteq Conns
  BY DEF Refers
<1> QED BY <1>1 DEF CloseNumber, TypeOK

LEMMA LoopTypeOK ==
  ASSUME TypeOK, NEW l \in Loops, handle_connections(l)
  PROVE  TypeOK'
<1> USE DEF TypeOK, Handles, LoopPC, loopVars, parserVars, closeVars, clientVars, fdVars, historyVars
<1>1. ASSUME NEW c \in Conns, AcceptConnection(l, c) PROVE TypeOK'
  BY <1>1 DEF AcceptConnection, AcceptReturns
<1>2. CASE AcceptFails(l)
  BY <1>2 DEF AcceptFails, AcceptReturns
<1>2a. CASE LoadOld(l)
  BY <1>2a DEF LoadOld, OldHandle, Overlap
<1>3. CASE MoveAssign(l)
  BY <1>3 DEF MoveAssign
<1>3a. CASE DisposeOld(l)
  <2>1. /\ fd' \in [Conns -> {"none", "open", "closed"}]
        /\ stale_closes' \in Nat /\ victims' \subseteq Conns
    BY <1>3a, CloseNumberType DEF DisposeOld
  <2> QED BY <1>3a, <2>1 DEF DisposeOld
<1>4. CASE increment_number_connection(l)
  BY <1>4 DEF increment_number_connection
<1>5. CASE TestAccepted(l)
  <2>1. CASE Bad(current_socket)
    <3>1. loop' = [loop EXCEPT ![l] = "accept"] /\ phantoms' = phantoms + 1
      BY <1>5, <2>1 DEF TestAccepted
    <3> QED BY <1>5, <3>1 DEF TestAccepted
  <2>2. CASE ~Bad(current_socket)
    BY <1>5, <2>2 DEF TestAccepted
  <2> QED BY <2>1, <2>2
<1>6. ASSUME NEW t \in Threads, start_threads(l, t) PROVE TypeOK'
  BY <1>6 DEF start_threads, ParserPC
<1>7. CASE CheckSocket(l)
  BY <1>7 DEF CheckSocket
<1> QED
  BY <1>1, <1>2, <1>2a, <1>3, <1>3a, <1>4, <1>5, <1>6, <1>7 DEF handle_connections

SocketType == [handle_ : Handles, lastErr_ : BOOLEAN]

LEMMA SetLastErrType ==
  ASSUME current_socket \in SocketType, NEW b \in BOOLEAN, SetLastErr(b)
  PROVE  current_socket' \in SocketType
  BY DEF SetLastErr, SocketType

(* What every return of a read keeps in range. *)
LEMMA ReadReturnsType ==
  ASSUME TypeOK, NEW t \in Threads, NEW n \in {5, 0, -1}, ReadReturns(t, n)
  PROVE  /\ current_socket' \in SocketType
         /\ n_read_bytes' \in {5, 0, -1}
         /\ parser' \in [Threads -> ParserPC]
<1>1. current_socket' \in SocketType
  BY (n < 0) \in BOOLEAN, SetLastErrType DEF ReadReturns, TypeOK, SocketType
<1> QED BY <1>1 DEF ReadReturns, TypeOK, ParserPC

LEMMA ParserTypeOK ==
  ASSUME TypeOK, NEW t \in Threads, handler_parse_msg_thread(t)
  PROVE  TypeOK'
<1> USE DEF TypeOK, Handles, ParserPC, loopVars, parserVars, closeVars, clientVars, fdVars, historyVars
<1>1. CASE LoadHandle(t)
  BY <1>1 DEF LoadHandle
<1>2. CASE CallRecv(t)
  BY <1>2 DEF CallRecv, Refers
<1>3. CASE ReadBadDescriptor(t)
  BY <1>3, ReadReturnsType, -1 \in {5, 0, -1} DEF ReadBadDescriptor, ReadReturns, SocketType
<1>4. CASE ReadMessage(t)
  <2>1. /\ Head(inbox[source[t]]) \in Commands
        /\ Tail(inbox[source[t]]) \in Seq(Commands)
    BY <1>4 DEF ReadMessage
  <2> QED BY <1>4, <2>1, ReadReturnsType DEF ReadMessage, ReadReturns, SocketType
<1>5. CASE ReadEndOfFile(t)
  BY <1>5, ReadReturnsType DEF ReadEndOfFile, ReadReturns, SocketType
<1>6. CASE ReadReset(t)
  BY <1>6, ReadReturnsType DEF ReadReset, ReadReturns, SocketType
<1>7. CASE Dispatch(t)
  <2>1. CASE NotEnoughBytes(n_read_bytes)
    BY <1>7, <2>1 DEF Dispatch
  <2>2. CASE ~NotEnoughBytes(n_read_bytes) /\ buf \in StateCommands
    <3>1. /\ parser' = [parser EXCEPT ![t] = "reply"]
          /\ q_execute_cmd' = Append(q_execute_cmd, buf)
          /\ UNCHANGED source
      BY <1>7, <2>2 DEF Dispatch, MovesState
    <3>2. q_execute_cmd' \in Seq(StateCommands)
      BY <2>2, <3>1
    <3> QED BY <1>7, <3>1, <3>2 DEF Dispatch, MovesState
  <2>3. CASE ~NotEnoughBytes(n_read_bytes) /\ buf \notin StateCommands
    BY <1>7, <2>3 DEF Dispatch, MovesState
  <2> QED BY <2>1, <2>2, <2>3
<1>7a. CASE LoadReply(t)
  BY <1>7a DEF LoadReply
<1>8. CASE Reply(t)
  <2>1. PICK ok \in BOOLEAN : SetLastErr(~ok)
    BY <1>8 DEF Reply, WriteResults
  <2> QED BY <1>8, <2>1 DEF Reply, SetLastErr
<1>9. CASE CountTest(t)
  BY <1>9 DEF CountTest
<1>10. CASE decrement_number_connection(t)
  BY <1>10 DEF decrement_number_connection, Decremented
<1> QED
  BY <1>1, <1>2, <1>3, <1>4, <1>5, <1>6, <1>7, <1>7a, <1>8, <1>9, <1>10
  DEF handler_parse_msg_thread

LEMMA CallerTypeOK ==
  ASSUME TypeOK, CallerNext
  PROVE  TypeOK'
<1> USE DEF TypeOK, Handles, loopVars, parserVars, closeVars, clientVars, fdVars, historyVars
<1>1. CASE get_state
  BY <1>1 DEF get_state
<1>2. CASE CloseTest \/ CloseLoad
  BY <1>2 DEF CloseTest, CloseLoad, Overlap, ClosePC
<1>2a. CASE CloseStore
  BY <1>2a DEF CloseStore, Released, ClosePC
<1>3. CASE CloseKernel
  <2>1. /\ fd' \in [Conns -> {"none", "open", "closed"}]
        /\ stale_closes' \in Nat /\ victims' \subseteq Conns
    BY <1>3, CloseNumberType DEF CloseKernel
  <2>2. current_socket' \in [handle_ : Handles, lastErr_ : BOOLEAN]
    BY <1>3 DEF CloseKernel, CloseFails
  <2> QED BY <1>3, <2>1, <2>2 DEF CloseKernel, ClosePC
<1>4. ASSUME NEW h \in Handles, NEW ok \in BOOLEAN, SocketWrite(h, ok) PROVE TypeOK'
  BY <1>4 DEF SocketWrite, SetLastErr
<1>5. ASSUME NEW l \in Loops, EnterLoop(l) PROVE TypeOK'
  BY <1>5 DEF EnterLoop, LoopPC
<1> QED BY <1>1, <1>2, <1>2a, <1>3, <1>4, <1>5 DEF CallerNext

LEMMA NextTypeOK == TypeOK /\ [Next]_vars => TypeOK'
<1> SUFFICES ASSUME TypeOK, [Next]_vars PROVE TypeOK'
  OBVIOUS
<1>1. CASE ClientNext
  BY <1>1, ClientTypeOK
<1>2. ASSUME NEW l \in Loops, handle_connections(l) PROVE TypeOK'
  BY <1>2, LoopTypeOK
<1>3. ASSUME NEW t \in Threads, handler_parse_msg_thread(t) PROVE TypeOK'
  BY <1>3, ParserTypeOK
<1>4. CASE CallerNext
  BY <1>4, CallerTypeOK
<1>5. CASE UNCHANGED vars
  BY <1>5 DEF vars, TypeOK, loopVars, parserVars, closeVars, clientVars, fdVars, historyVars
<1> QED BY <1>1, <1>2, <1>3, <1>4, <1>5 DEF Next

(* Every variable of the server stays in its range, whatever the callers do. *)
THEOREM Typing == Spec => []TypeOK
<1>1. Init => TypeOK
  BY InitTypeOK
<1>2. TypeOK /\ [Next]_vars => TypeOK'
  BY NextTypeOK
<1> QED BY <1>1, <1>2, PTL DEF Spec
---------------------------------------------------------------------------
(* The count of connections *)

(* Cardinalities when one element joins or leaves a finite set. *)
LEMMA CardinalityJoin ==
  ASSUME NEW S, IsFiniteSet(S), NEW x, x \notin S
  PROVE  /\ IsFiniteSet(S \cup {x})
         /\ Cardinality(S \cup {x}) = Cardinality(S) + 1
         /\ Cardinality(S) \in Nat
  BY FS_AddElement, FS_CardinalityType

LEMMA CardinalityLeave ==
  ASSUME NEW S, IsFiniteSet(S), NEW x \in S
  PROVE  /\ Cardinality(S) = Cardinality(S \ {x}) + 1
         /\ Cardinality(S \ {x}) \in Nat
<1>1. IsFiniteSet(S \ {x}) /\ Cardinality(S \ {x}) = Cardinality(S) - 1
  BY FS_RemoveElement
<1>2. Cardinality(S) \in Nat /\ Cardinality(S \ {x}) \in Nat
  BY <1>1, FS_CardinalityType
<1> QED BY <1>1, <1>2

LEMMA FiniteCounted ==
  /\ IsFiniteSet(LiveParsers) /\ IsFiniteSet(LiveParsers')
  /\ IsFiniteSet(CountedLoops) /\ IsFiniteSet(CountedLoops')
<1>1. /\ LiveParsers \subseteq Threads /\ LiveParsers' \subseteq Threads
      /\ CountedLoops \subseteq Loops /\ CountedLoops' \subseteq Loops
  BY DEF LiveParsers, CountedLoops
<1> QED BY <1>1, ConstantsAssumption, FS_Subset

LEMMA CountTypes ==
  /\ Cardinality(LiveParsers) \in Nat /\ Cardinality(LiveParsers') \in Nat
  /\ Cardinality(CountedLoops) \in Nat /\ Cardinality(CountedLoops') \in Nat
  BY FiniteCounted, FS_CardinalityType

(* A step that moves no thread into or out of the counted places. *)
SameCount == /\ LiveParsers' = LiveParsers
             /\ CountedLoops' = CountedLoops
             /\ UNCHANGED <<number_connection, phantoms>>

LEMMA SameCountConserves == NumberConserved /\ SameCount => NumberConserved'
  BY DEF NumberConserved, SameCount

LEMMA ClientConserves ==
  ASSUME ClientNext PROVE SameCount
<1>1. UNCHANGED <<parser, loop, number_connection, phantoms>>
  BY DEF ClientNext, Connect, Send, Leave, loopVars, parserVars
<1> QED BY <1>1 DEF SameCount, LiveParsers, CountedLoops, Live

LEMMA CallerConserves ==
  ASSUME TypeOK, CallerNext PROVE SameCount
<1> USE DEF SameCount, LiveParsers, CountedLoops, Live, loopVars, parserVars
<1>1. ASSUME NEW l \in Loops, EnterLoop(l) PROVE SameCount
  BY <1>1 DEF EnterLoop, TypeOK
<1>2. CASE ~\E l \in Loops : EnterLoop(l)
  BY <1>2 DEF CallerNext, get_state, CloseTest, CloseLoad, CloseStore, CloseKernel,
     SocketWrite
<1> QED BY <1>1, <1>2

LEMMA ParserConserves ==
  ASSUME TypeOK, NumberConserved, NEW t \in Threads, handler_parse_msg_thread(t)
  PROVE  NumberConserved'
<1>1. CASE decrement_number_connection(t)
  <2>1. t \in LiveParsers /\ LiveParsers' = LiveParsers \ {t}
    BY <1>1 DEF decrement_number_connection, LiveParsers, Live, TypeOK
  <2>2. CountedLoops' = CountedLoops /\ phantoms' = phantoms
    BY <1>1 DEF decrement_number_connection, CountedLoops, loopVars
  <2>3. Cardinality(LiveParsers) = Cardinality(LiveParsers') + 1
    BY <2>1, FiniteCounted, CardinalityLeave
  <2>4. number_connection > 0
    BY <2>3, CountTypes DEF NumberConserved, TypeOK
  <2>5. number_connection' = number_connection - 1
    BY <1>1, <2>4 DEF decrement_number_connection, Decremented
  <2> QED BY <2>2, <2>3, <2>5, CountTypes DEF NumberConserved, TypeOK
<1>2. CASE ~decrement_number_connection(t)
  <2>1. /\ UNCHANGED <<loop, phantoms, number_connection>>
        /\ \E pc \in ParserPC \ {"none", "exited"} : parser' = [parser EXCEPT ![t] = pc]
        /\ Live(t)
    BY <1>2 DEF handler_parse_msg_thread, LoadHandle, CallRecv, ReadBadDescriptor,
       ReadMessage, ReadEndOfFile, ReadReset, ReadReturns, Dispatch, LoadReply, Reply,
       CountTest,
       loopVars, ParserPC, Live
  <2>2. SameCount
    BY <2>1 DEF SameCount, LiveParsers, CountedLoops, Live, TypeOK
  <2> QED BY <2>2, SameCountConserves
<1> QED BY <1>1, <1>2

LEMMA LoopConserves ==
  ASSUME TypeOK, NumberConserved, NEW l \in Loops, handle_connections(l)
  PROVE  NumberConserved'
<1>1. ASSUME \/ \E c \in Conns : AcceptConnection(l, c)
             \/ AcceptFails(l) \/ LoadOld(l) \/ MoveAssign(l) \/ DisposeOld(l)
             \/ CheckSocket(l)
      PROVE  NumberConserved'
  <2>1. /\ UNCHANGED <<parser, phantoms, number_connection>>
        /\ loop[l] \notin {"test", "spawn"}
        /\ \E pc \in LoopPC \ {"test", "spawn"} : loop' = [loop EXCEPT ![l] = pc]
    BY <1>1 DEF AcceptConnection, AcceptFails, AcceptReturns, LoadOld, MoveAssign,
       DisposeOld, CheckSocket,
       LoopPC, parserVars, loopVars
  <2>2. SameCount
    BY <2>1 DEF SameCount, LiveParsers, CountedLoops, Live, TypeOK
  <2> QED BY <2>2, SameCountConserves
<1>2. CASE increment_number_connection(l)
  <2>1. l \notin CountedLoops /\ CountedLoops' = CountedLoops \cup {l}
    BY <1>2 DEF increment_number_connection, CountedLoops, TypeOK
  <2>2. Cardinality(CountedLoops') = Cardinality(CountedLoops) + 1
    BY <2>1, FiniteCounted, CardinalityJoin
  <2>3. /\ LiveParsers' = LiveParsers /\ phantoms' = phantoms
        /\ number_connection' = number_connection + 1
    BY <1>2 DEF increment_number_connection, LiveParsers, Live, parserVars
  <2> QED BY <2>2, <2>3, CountTypes DEF NumberConserved, TypeOK
<1>3. CASE TestAccepted(l)
  <2>1. LiveParsers' = LiveParsers /\ number_connection' = number_connection
    BY <1>3 DEF TestAccepted, LiveParsers, Live, parserVars
  <2>2. CASE Bad(current_socket)
    <3>1. l \in CountedLoops /\ CountedLoops' = CountedLoops \ {l}
      BY <1>3, <2>2 DEF TestAccepted, CountedLoops, TypeOK
    <3>2. Cardinality(CountedLoops) = Cardinality(CountedLoops') + 1
      BY <3>1, FiniteCounted, CardinalityLeave
    <3>3. phantoms' = phantoms + 1
      BY <1>3, <2>2 DEF TestAccepted
    <3> QED BY <2>1, <3>2, <3>3, CountTypes DEF NumberConserved, TypeOK
  <2>3. CASE ~Bad(current_socket)
    <3>1. loop[l] = "test" /\ loop' = [loop EXCEPT ![l] = "spawn"] /\ phantoms' = phantoms
      BY <1>3, <2>3 DEF TestAccepted
    <3>2. CountedLoops' = CountedLoops
      BY <3>1 DEF CountedLoops, TypeOK
    <3> QED BY <2>1, <3>1, <3>2, SameCountConserves DEF SameCount
  <2> QED BY <2>2, <2>3
<1>4. ASSUME NEW t \in Threads, start_threads(l, t) PROVE NumberConserved'
  <2>1. l \in CountedLoops /\ CountedLoops' = CountedLoops \ {l}
    BY <1>4 DEF start_threads, CountedLoops, TypeOK
  <2>2. t \notin LiveParsers /\ LiveParsers' = LiveParsers \cup {t}
    BY <1>4 DEF start_threads, LiveParsers, Live, TypeOK
  <2>3. Cardinality(CountedLoops) = Cardinality(CountedLoops') + 1
    BY <2>1, FiniteCounted, CardinalityLeave
  <2>4. Cardinality(LiveParsers') = Cardinality(LiveParsers) + 1
    BY <2>2, FiniteCounted, CardinalityJoin
  <2>5. phantoms' = phantoms /\ number_connection' = number_connection
    BY <1>4 DEF start_threads
  <2> QED BY <2>3, <2>4, <2>5, CountTypes DEF NumberConserved, TypeOK
<1> QED BY <1>1, <1>2, <1>3, <1>4 DEF handle_connections

LEMMA InitConserves == Init => NumberConserved
<1> SUFFICES ASSUME Init PROVE NumberConserved
  OBVIOUS
<1>1. LiveParsers = {} /\ CountedLoops = {}
  BY DEF Init, LiveParsers, Live, CountedLoops
<1> QED BY <1>1, FS_EmptySet DEF Init, NumberConserved

LEMMA NextConserves == TypeOK /\ NumberConserved /\ [Next]_vars => NumberConserved'
<1> SUFFICES ASSUME TypeOK, NumberConserved, [Next]_vars PROVE NumberConserved'
  OBVIOUS
<1>1. CASE ClientNext
  BY <1>1, ClientConserves, SameCountConserves
<1>2. ASSUME NEW l \in Loops, handle_connections(l) PROVE NumberConserved'
  BY <1>2, LoopConserves
<1>3. ASSUME NEW t \in Threads, handler_parse_msg_thread(t) PROVE NumberConserved'
  BY <1>3, ParserConserves
<1>4. CASE CallerNext
  BY <1>4, CallerConserves, SameCountConserves
<1>5. CASE UNCHANGED vars
  <2>1. SameCount
    BY <1>5 DEF vars, loopVars, parserVars, SameCount, LiveParsers, Live, CountedLoops
  <2> QED BY <2>1, SameCountConserves
<1> QED BY <1>1, <1>2, <1>3, <1>4, <1>5 DEF Next

(* number_connection counts the live packet analysis threads, the pairs     *)
(* about to start and the passes that took "continue", however many threads *)
(* and loops race on it: no decrement is lost to its own guard.             *)
THEOREM CountConserved == Spec => []NumberConserved
<1>1. Init => NumberConserved
  BY InitConserves
<1>2. TypeOK /\ NumberConserved /\ [Next]_vars => NumberConserved'
  BY NextConserves
<1> QED BY <1>1, <1>2, Typing, PTL DEF Spec

---------------------------------------------------------------------------
(* Threads that never leave *)

LEMMA CrowdStep ==
  ASSUME TypeOK, [Next]_vars, Crowded
  PROVE  Crowded'
<1>1. ASSUME NEW t \in Threads, handler_parse_msg_thread(t)
      PROVE  Crowded'
  <2>1. UNCHANGED number_connection
    BY <1>1 DEF Crowded, handler_parse_msg_thread, LoadHandle, CallRecv, ReadBadDescriptor,
       ReadMessage, ReadEndOfFile, ReadReset, ReadReturns, Dispatch, LoadReply, Reply,
       CountTest,
       decrement_number_connection
  <2>2. \E pc \in ParserPC \ {"decrement"} : parser' = [parser EXCEPT ![t] = pc]
    BY <1>1 DEF Crowded, handler_parse_msg_thread, LoadHandle, CallRecv, ReadBadDescriptor,
       ReadMessage, ReadEndOfFile, ReadReset, ReadReturns, Dispatch, LoadReply, Reply,
       CountTest,
       SeesSecondConnection, decrement_number_connection, ParserPC
  <2> QED BY <2>1, <2>2 DEF Crowded, TypeOK
<1>2. ASSUME NEW l \in Loops, handle_connections(l)
      PROVE  Crowded'
  <2>1. number_connection' \in Nat /\ number_connection' >= number_connection
    BY <1>2 DEF TypeOK, handle_connections, AcceptConnection, AcceptFails, AcceptReturns,
       LoadOld, MoveAssign, DisposeOld, increment_number_connection, TestAccepted, start_threads, CheckSocket
  <2>2. \/ UNCHANGED parser
        \/ \E t \in Threads : parser' = [parser EXCEPT ![t] = "sleep"]
    BY <1>2 DEF handle_connections, AcceptConnection, AcceptFails, AcceptReturns,
       LoadOld, MoveAssign, DisposeOld, increment_number_connection, TestAccepted, start_threads, CheckSocket,
       parserVars
  <2> QED BY <2>1, <2>2 DEF Crowded, TypeOK
<1>3. CASE ClientNext \/ CallerNext
  <2>1. UNCHANGED <<number_connection, parser>>
    BY <1>3 DEF ClientNext, Connect, Send, Leave, CallerNext, get_state, CloseTest,
       CloseLoad, CloseStore, CloseKernel, SocketWrite, EnterLoop, parserVars
  <2> QED BY <2>1 DEF Crowded
<1>4. CASE UNCHANGED vars
  BY <1>4 DEF vars, parserVars, Crowded
<1> QED BY <1>1, <1>2, <1>3, <1>4 DEF Next

(* Once three connections are counted and no thread is on its way out, no   *)
(* thread ever finds its way out again.                                     *)
THEOREM CrowdNeverShrinks == Spec => CrowdStays
<1>1. TypeOK /\ [Next]_vars => [Crowded => Crowded']_vars
  BY CrowdStep
<1> QED BY <1>1, Typing, PTL DEF Spec, CrowdStays

---------------------------------------------------------------------------
(* The shared socket *)

(* The steps that move no handle, and neither begin nor end a swap. *)
SameSwaps ==
  /\ UNCHANGED <<fd, number, accepted, replaced, closing, releasing, stale_closes,
                 victims, overlapped>>
  /\ current_socket'.handle_ = current_socket.handle_
  /\ \A k \in Loops : \A pc \in {"load", "assign", "dispose"} :
        (loop'[k] = pc) <=> (loop[k] = pc)

(* The steps that do. *)
HandleStep ==
  \/ CloseTest \/ CloseLoad \/ CloseStore \/ CloseKernel
  \/ \E l \in Loops : \/ \E c \in Conns : AcceptConnection(l, c)
                      \/ AcceptFails(l) \/ LoadOld(l) \/ MoveAssign(l) \/ DisposeOld(l)

LEMMA TwoKinds ==
  ASSUME TypeOK, [Next]_vars
  PROVE  SameSwaps \/ HandleStep
<1> USE DEF SameSwaps, loopVars, closeVars, fdVars, historyVars
<1>1. CASE ClientNext
  BY <1>1 DEF ClientNext, Connect, Send, Leave
<1>2. ASSUME NEW l \in Loops, handle_connections(l) PROVE SameSwaps \/ HandleStep
  <2>1. CASE \/ increment_number_connection(l) \/ TestAccepted(l) \/ CheckSocket(l)
             \/ \E t \in Threads : start_threads(l, t)
    BY <2>1 DEF increment_number_connection, TestAccepted, CheckSocket, start_threads, TypeOK
  <2> QED BY <1>2, <2>1 DEF handle_connections, HandleStep
<1>3. ASSUME NEW t \in Threads, handler_parse_msg_thread(t) PROVE SameSwaps
  <2>1. ASSUME NEW b, SetLastErr(b) PROVE current_socket'.handle_ = current_socket.handle_
    BY <2>1 DEF SetLastErr, TypeOK
  <2> QED BY <1>3, <2>1 DEF handler_parse_msg_thread, LoadHandle, CallRecv,
    ReadBadDescriptor, ReadMessage, ReadEndOfFile, ReadReset, ReadReturns, Dispatch,
    LoadReply, Reply, CountTest, decrement_number_connection
<1>4. CASE CallerNext
  <2>1. CASE get_state
    BY <2>1 DEF get_state
  <2>2. ASSUME NEW h \in Handles, NEW ok \in BOOLEAN, SocketWrite(h, ok) PROVE SameSwaps
    BY <2>2 DEF SocketWrite, SetLastErr, TypeOK
  <2>3. ASSUME NEW l \in Loops, EnterLoop(l) PROVE SameSwaps
    BY <2>3 DEF EnterLoop, TypeOK
  <2> QED BY <1>4, <2>1, <2>2, <2>3 DEF CallerNext, HandleStep
<1>5. CASE UNCHANGED vars
  BY <1>5 DEF vars
<1> QED BY <1>1, <1>2, <1>3, <1>4, <1>5 DEF Next

(* A connection once accepted; what is accepted and not yet installed is    *)
(* known to nobody else; what is due to be closed is not current any more.  *)
Was(h) == h \in Conns => fd[h] # "none"
Sound(h) == h \in Conns => fd[h] = "open" \/ h \in victims
Apart(l) ==
  accepted[l] \in Conns =>
      /\ accepted[l] \notin {current_socket.handle_, releasing}
      /\ \A k \in Loops : /\ accepted[l] # replaced[k]
                          /\ k # l => accepted[l] # accepted[k]
NumbersApart ==
  \A c, d \in Conns : fd[c] = "open" /\ fd[d] = "open" /\ number[c] = number[d] => c = d

SocketInv ==
  /\ Sound(current_socket.handle_) /\ Was(current_socket.handle_)
  /\ Was(releasing)
  /\ closing \in {"no", "tested"} => releasing = INVALID_SOCKET
  /\ \A l \in Loops : /\ Sound(accepted[l]) /\ Was(accepted[l]) /\ Was(replaced[l])
                      /\ Apart(l)
                      /\ loop[l] \notin {"load", "assign"} => accepted[l] = INVALID_SOCKET
                      /\ loop[l] \notin {"assign", "dispose"} => replaced[l] = INVALID_SOCKET
                      /\ loop[l] = "dispose" /\ replaced[l] \in Conns
                            => current_socket.handle_ # replaced[l]
  /\ closing = "released" /\ releasing \in Conns => current_socket.handle_ # releasing
  /\ NumbersApart

(* A close() of handle h leaves everything open or a victim but h. *)
LEMMA CloseNumberKeeps ==
  ASSUME TypeOK, NumbersApart, NEW h \in Handles, CloseNumber(h)
  PROVE  /\ \A c \in Conns : (fd'[c] = "none") <=> (fd[c] = "none")
         /\ \A c \in Conns : fd'[c] = "open" => fd[c] = "open"
         /\ \A c \in Conns \ {h} : Sound(c) =>
                fd'[c] = "open" \/ c \in victims'
         /\ h \in Conns => fd'[h] # "open"
         /\ h \in Conns /\ fd[h] = "open" =>
                /\ fd' = [fd EXCEPT ![h] = "closed"]
                /\ UNCHANGED <<stale_closes, victims>>
         /\ ~(h \in Conns /\ fd[h] = "open") => stale_closes' = stale_closes + 1
         /\ victims \subseteq victims'
<1> USE DEF CloseNumber, TypeOK
<1>1. /\ Refers(h) \subseteq Conns
      /\ \A c \in Refers(h) : fd[c] = "open"
  BY DEF Refers
<1>2. \A c \in Conns : fd'[c] = IF c \in Refers(h) THEN "closed" ELSE fd[c]
  OBVIOUS
<1>3. victims' = victims \cup (Refers(h) \ {h})
  OBVIOUS
<1>4. \A c \in Conns : /\ (fd'[c] = "none") <=> (fd[c] = "none")
                       /\ fd'[c] = "open" => fd[c] = "open"
  BY <1>1, <1>2
<1>5. \A c \in Conns \ {h} : Sound(c) => fd'[c] = "open" \/ c \in victims'
  BY <1>2, <1>3 DEF Sound
<1>6. h \in Conns => fd'[h] # "open"
  BY <1>2, ConstantsAssumption DEF Refers, Handles
<1>7. ASSUME h \in Conns, fd[h] = "open"
      PROVE  fd' = [fd EXCEPT ![h] = "closed"] /\ UNCHANGED <<stale_closes, victims>>
  <2>1. Refers(h) = {h}
    BY <1>7, ConstantsAssumption DEF Refers, NumbersApart
  <2>2. fd' = [fd EXCEPT ![h] = "closed"]
    BY <1>2, <2>1, <1>7
  <2>3. stale_closes' = stale_closes
    BY <2>1
  <2>4. victims' = victims
    BY <1>3, <2>1
  <2> HIDE DEF CloseNumber, TypeOK
  <2> QED BY <2>2, <2>3, <2>4
<1>8. ~(h \in Conns /\ fd[h] = "open") => stale_closes' = stale_closes + 1
  BY DEF Refers
<1> QED BY <1>3, <1>4, <1>5, <1>6, <1>7, <1>8

LEMMA SameSwapsKeep ==
  ASSUME SocketInv, SameSwaps
  PROVE  SocketInv'
  BY DEF SocketInv, SameSwaps, Sound, Was, Apart, NumbersApart

LEMMA AcceptKeeps ==
  ASSUME TypeOK, SocketInv, NEW l \in Loops,
         AcceptFails(l) \/ \E c \in Conns : AcceptConnection(l, c)
  PROVE  SocketInv'
<1> USE DEF TypeOK, closeVars, fdVars, historyVars
<1>1. CASE AcceptFails(l)
  BY <1>1, ConstantsAssumption
  DEF AcceptFails, AcceptReturns, SocketInv, Sound, Was, Apart, NumbersApart
<1>2. ASSUME NEW c \in Conns, AcceptConnection(l, c) PROVE SocketInv'
  <2>1. /\ fd[c] = "none" /\ loop[l] = "accept" /\ fd' = [fd EXCEPT ![c] = "open"]
        /\ loop' = [loop EXCEPT ![l] = "load"] /\ accepted' = [accepted EXCEPT ![l] = c]
        /\ UNCHANGED <<current_socket, replaced, closing, releasing, victims>>
    BY <1>2 DEF AcceptConnection, AcceptReturns
  <2>2. /\ c # current_socket.handle_ /\ c # releasing
        /\ \A k \in Loops : c # accepted[k] /\ c # replaced[k]
    BY <2>1 DEF SocketInv, Was
  <2>3. NumbersApart'
    BY <1>2 DEF AcceptConnection, SocketInv, NumbersApart
  <2>4. \A h : /\ Sound(h) => Sound(h)'
               /\ Was(h) => Was(h)'
    BY <2>1 DEF Sound, Was
  <2>5. Sound(c)' /\ Was(c)'
    BY <2>1 DEF Sound, Was
  <2>6. \A k \in Loops \ {l} : accepted'[k] = accepted[k] /\ loop'[k] = loop[k]
    BY <2>1
  <2>7. accepted'[l] = c /\ loop'[l] = "load"
    BY <2>1
  <2>8. \A k \in Loops : Sound(accepted[k])' /\ Was(accepted[k])' /\ Was(replaced[k])'
    BY <2>1, <2>4, <2>5, <2>6, <2>7 DEF SocketInv, Sound, Was
  <2>9. \A k \in Loops : Apart(k)'
    BY <2>1, <2>2, <2>6, <2>7 DEF SocketInv, Apart
  <2>10. \A k \in Loops :
      /\ loop'[k] \notin {"load", "assign"} => accepted'[k] = INVALID_SOCKET
      /\ loop'[k] \notin {"assign", "dispose"} => replaced'[k] = INVALID_SOCKET
      /\ loop'[k] = "dispose" /\ replaced'[k] \in Conns
            => current_socket'.handle_ # replaced'[k]
    BY <2>1, <2>6, <2>7 DEF SocketInv
  <2>11. /\ Sound(current_socket.handle_)' /\ Was(current_socket.handle_)' /\ Was(releasing)'
    BY <2>1 DEF SocketInv, Sound, Was
  <2> QED BY <2>1, <2>3, <2>8, <2>9, <2>10, <2>11 DEF SocketInv
<1> QED BY <1>1, <1>2

LEMMA SwapKeeps ==
  ASSUME TypeOK, SocketInv, NEW l \in Loops, LoadOld(l) \/ MoveAssign(l)
  PROVE  SocketInv'
<1> USE DEF TypeOK, closeVars, fdVars, historyVars, Handles
<1>1. CASE LoadOld(l)
  BY <1>1, ConstantsAssumption
  DEF LoadOld, OldHandle, SocketInv, Sound, Was, Apart, NumbersApart
<1>2. CASE MoveAssign(l)
  <2>1. /\ loop[l] = "assign" /\ loop' = [loop EXCEPT ![l] = "dispose"]
        /\ current_socket'.handle_ = accepted[l]
        /\ accepted' = [accepted EXCEPT ![l] = INVALID_SOCKET]
        /\ UNCHANGED <<fd, number, replaced, closing, releasing, victims>>
    BY <1>2 DEF MoveAssign
  <2>2. \A k \in Loops : accepted'[k] \in Conns => accepted'[k] = accepted[k] /\ k # l
    BY <2>1, ConstantsAssumption
  <2>3. \A k \in Loops : Sound(accepted[k])' /\ Was(accepted[k])' /\ Was(replaced[k])'
    BY <2>1, <2>2 DEF SocketInv, Sound, Was
  <2>4. \A k \in Loops : Apart(k)'
    BY <2>1, <2>2 DEF SocketInv, Apart
  <2>5. \A k \in Loops :
      /\ loop'[k] \notin {"load", "assign"} => accepted'[k] = INVALID_SOCKET
      /\ loop'[k] \notin {"assign", "dispose"} => replaced'[k] = INVALID_SOCKET
    BY <2>1 DEF SocketInv
  <2>6. \A k \in Loops : replaced'[k] \in Conns => current_socket'.handle_ # replaced'[k]
    BY <2>1 DEF SocketInv, Apart
  <2>7. releasing \in Conns => current_socket'.handle_ # releasing
    BY <2>1 DEF SocketInv, Apart
  <2>8. /\ Sound(current_socket.handle_)' /\ Was(current_socket.handle_)' /\ Was(releasing)'
    BY <2>1 DEF SocketInv, Sound, Was
  <2> QED BY <2>1, <2>3, <2>4, <2>5, <2>6, <2>7, <2>8 DEF SocketInv, NumbersApart
<1> QED BY <1>1, <1>2

(* What a close() of a handle that is not current and was not just accepted *)
(* keeps.                                                                   *)
LEMMA ClosingKeeps ==
  ASSUME TypeOK, SocketInv, NEW h \in Handles, CloseNumber(h), UNCHANGED <<number, accepted>>,
         current_socket'.handle_ = current_socket.handle_,
         h \in Conns => h # current_socket.handle_ /\ \A l \in Loops : h # accepted[l]
  PROVE  /\ NumbersApart'
         /\ \A g : Was(g) => Was(g)'
         /\ Sound(current_socket.handle_)' /\ Was(current_socket.handle_)'
         /\ \A l \in Loops : Sound(accepted[l])' /\ Was(accepted[l])'
<1>1. /\ \A c \in Conns : fd'[c] = "none" <=> fd[c] = "none"
      /\ \A c \in Conns : fd'[c] = "open" => fd[c] = "open"
      /\ \A c \in Conns \ {h} : Sound(c) => fd'[c] = "open" \/ c \in victims'
  BY CloseNumberKeeps DEF SocketInv
<1>2. NumbersApart'
  BY <1>1 DEF SocketInv, NumbersApart
<1>3. \A g : Was(g) => Was(g)'
  BY <1>1 DEF Was
<1>4. Sound(current_socket.handle_)' /\ Was(current_socket.handle_)'
  BY <1>1 DEF SocketInv, Sound, Was
<1>5. \A l \in Loops : Sound(accepted[l])' /\ Was(accepted[l])'
  BY <1>1 DEF SocketInv, Sound, Was
<1> QED BY <1>2, <1>3, <1>4, <1>5

LEMMA DisposeKeeps ==
  ASSUME TypeOK, SocketInv, NEW l \in Loops, DisposeOld(l)
  PROVE  SocketInv'
<1> USE DEF TypeOK, closeVars
<1>1. /\ loop[l] = "dispose" /\ loop' = [loop EXCEPT ![l] = "increment"]
      /\ replaced' = [replaced EXCEPT ![l] = INVALID_SOCKET]
      /\ UNCHANGED <<current_socket, number, accepted, closing, releasing>>
  BY DEF DisposeOld
<1>2. \A k \in Loops : replaced'[k] \in Conns => replaced'[k] = replaced[k] /\ k # l
  BY <1>1, ConstantsAssumption
<1>3. \A k \in Loops :
      /\ loop'[k] \notin {"load", "assign"} => accepted'[k] = INVALID_SOCKET
      /\ loop'[k] \notin {"assign", "dispose"} => replaced'[k] = INVALID_SOCKET
      /\ loop'[k] = "dispose" /\ replaced'[k] \in Conns
            => current_socket'.handle_ # replaced'[k]
  BY <1>1 DEF SocketInv
<1>4. \A k \in Loops : Apart(k)'
  <2> SUFFICES ASSUME NEW k \in Loops PROVE Apart(k)'
    OBVIOUS
  <2>1. \A i \in Loops : replaced'[i] \in {replaced[i], INVALID_SOCKET}
    BY <1>1
  <2> QED BY <1>1, <2>1, ConstantsAssumption DEF SocketInv, Apart
<1>5. CASE replaced[l] = INVALID_SOCKET
  <2>1. UNCHANGED <<fd, victims>>
    BY <1>5 DEF DisposeOld
  <2> QED BY <1>1, <1>2, <1>3, <1>4, <2>1 DEF SocketInv, Sound, Was, NumbersApart
<1>6. CASE replaced[l] # INVALID_SOCKET
  <2>1. CloseNumber(replaced[l]) /\ replaced[l] \in Handles
    BY <1>6 DEF DisposeOld
  <2>2. replaced[l] \in Conns => /\ replaced[l] # current_socket.handle_
                                /\ \A k \in Loops : replaced[l] # accepted[k]
    BY <1>1 DEF SocketInv, Apart
  <2>3. /\ NumbersApart'
        /\ \A g : Was(g) => Was(g)'
        /\ Sound(current_socket.handle_)' /\ Was(current_socket.handle_)'
        /\ \A k \in Loops : Sound(accepted[k])' /\ Was(accepted[k])'
    BY <1>1, <2>1, <2>2, ClosingKeeps
  <2>4. Was(releasing)' /\ \A k \in Loops : Was(replaced[k])'
    BY <1>1, <1>2, <2>3 DEF SocketInv, Was
  <2> QED BY <1>1, <1>3, <1>4, <2>3, <2>4 DEF SocketInv
<1> QED BY <1>5, <1>6

LEMMA CloseKeeps ==
  ASSUME TypeOK, SocketInv, CloseTest \/ CloseLoad \/ CloseStore \/ CloseKernel
  PROVE  SocketInv'
<1> USE DEF TypeOK, loopVars, fdVars, historyVars
<1>1. CASE CloseTest
  BY <1>1 DEF CloseTest, MutexFree, SocketInv, Sound, Was, Apart, NumbersApart
<1>2. CASE CloseLoad
  BY <1>2 DEF CloseLoad, SocketInv, Sound, Was, Apart, NumbersApart
<1>3. CASE CloseStore
  <2>1. /\ closing = "loaded" /\ closing' = "released"
        /\ current_socket'.handle_ = INVALID_SOCKET
        /\ UNCHANGED <<fd, number, loop, accepted, replaced, releasing, victims>>
    BY <1>3 DEF CloseStore, Released
  <2> QED BY <2>1, ConstantsAssumption DEF SocketInv, Sound, Was, Apart, NumbersApart
<1>4. CASE CloseKernel
  <2>1. /\ closing = "released" /\ closing' = "no" /\ releasing' = INVALID_SOCKET
        /\ current_socket'.handle_ = current_socket.handle_
        /\ CloseNumber(releasing)
        /\ UNCHANGED <<number, loop, accepted, replaced>>
    BY <1>4 DEF CloseKernel
  <2>2. releasing \in Conns => /\ releasing # current_socket.handle_
                              /\ \A k \in Loops : releasing # accepted[k]
    BY <2>1 DEF SocketInv, Apart
  <2>3. /\ NumbersApart'
        /\ \A g : Was(g) => Was(g)'
        /\ Sound(current_socket.handle_)' /\ Was(current_socket.handle_)'
        /\ \A k \in Loops : Sound(accepted[k])' /\ Was(accepted[k])'
    BY <2>1, <2>2, ClosingKeeps
  <2>4. Was(releasing)' /\ \A k \in Loops : Was(replaced[k])'
    BY <2>1, <2>3, ConstantsAssumption DEF SocketInv, Was
  <2>5. \A k \in Loops : Apart(k)'
    BY <2>1, ConstantsAssumption DEF SocketInv, Apart
  <2> QED BY <2>1, <2>3, <2>4, <2>5 DEF SocketInv
<1> QED BY <1>1, <1>2, <1>3, <1>4

LEMMA NextSocketInv == TypeOK /\ SocketInv /\ [Next]_vars => SocketInv'
  BY TwoKinds, SameSwapsKeep, AcceptKeeps, SwapKeeps, DisposeKeeps, CloseKeeps
  DEF HandleStep

LEMMA InitSocketInv == Init => SocketInv
  BY ConstantsAssumption DEF Init, SocketInv, Sound, Was, Apart, NumbersApart

LEMMA SocketAlways == Spec => []SocketInv
<1>1. TypeOK /\ SocketInv /\ [Next]_vars => SocketInv'
  BY NextSocketInv
<1> QED BY <1>1, InitSocketInv, Typing, PTL DEF Spec

(* The descriptor that the shared socket holds is only ever closed under it *)
(* by a close() meant for another connection of the same number, for any    *)
(* number of connections, accept loops and calls of close_socket().         *)
THEOREM SharedSocketOpen == Spec => []CurrentIsOpen
<1>1. TypeOK /\ SocketInv => CurrentIsOpen
  BY DEF SocketInv, CurrentIsOpen, Sound, TypeOK, Handles
<1> QED BY <1>1, Typing, SocketAlways, PTL

---------------------------------------------------------------------------
(* Strict ownership *)

(* Until something overlaps, there is one swap at a time, what it or        *)
(* close_socket() has loaded is still current, and every connection is      *)
(* owned exactly while it is open.                                          *)
InSwap(l) == loop[l] \in {"assign", "dispose"}
OneAtATime ==
  /\ \A k, l \in Loops : InSwap(k) /\ InSwap(l) => k = l
  /\ closing # "no" => \A l \in Loops : ~InSwap(l)
LoadedIsCurrent ==
  /\ \A l \in Loops : loop[l] = "assign" => replaced[l] = current_socket.handle_
  /\ closing = "tested" => current_socket.handle_ # INVALID_SOCKET
  /\ closing = "loaded" => /\ releasing = current_socket.handle_
                           /\ releasing # INVALID_SOCKET
  /\ closing = "released" => releasing \in Conns
StrictlyOwned ==
  /\ stale_closes = 0 /\ victims = {}
  /\ \A c \in Conns : fd[c] = "open" <=> c \in Owned
OwnInv == ~overlapped => OneAtATime /\ LoadedIsCurrent /\ StrictlyOwned

LEMMA OwnedBy ==
  ASSUME NEW c
  PROVE  c \in Owned <=>
            \/ c = current_socket.handle_
            \/ \E l \in Loops : loop[l] \in {"load", "assign"} /\ c = accepted[l]
            \/ \E l \in Loops : loop[l] = "dispose" /\ c = replaced[l]
            \/ closing = "released" /\ c = releasing
  BY DEF Owned

LEMMA SameSwapsOwn ==
  ASSUME TypeOK, OwnInv, SameSwaps
  PROVE  OwnInv'
<1>1. \A c : (c \in Owned)' <=> c \in Owned
  BY OwnedBy DEF SameSwaps, Owned
<1>2. \A l \in Loops : InSwap(l)' <=> InSwap(l)
  BY DEF InSwap, SameSwaps
<1>3. \A l \in Loops : (loop'[l] = "assign") <=> (loop[l] = "assign")
  BY DEF SameSwaps
<1> QED BY <1>1, <1>2, <1>3
  DEF OwnInv, OneAtATime, LoadedIsCurrent, StrictlyOwned, SameSwaps

LEMMA AcceptOwns ==
  ASSUME TypeOK, SocketInv, OwnInv, NEW l \in Loops,
         AcceptFails(l) \/ \E c \in Conns : AcceptConnection(l, c)
  PROVE  OwnInv'
<1> SUFFICES ASSUME ~overlapped' PROVE OneAtATime' /\ LoadedIsCurrent' /\ StrictlyOwned'
  BY DEF OwnInv
<1> PICK h \in Handles :
      /\ loop[l] = "accept" /\ loop' = [loop EXCEPT ![l] = "load"]
      /\ accepted' = [accepted EXCEPT ![l] = h]
      /\ \A c \in Conns : fd'[c] = IF c = h THEN "open" ELSE fd[c]
      /\ UNCHANGED <<current_socket, replaced, closing, releasing, stale_closes,
                     victims, overlapped>>
  BY ConstantsAssumption DEF AcceptFails, AcceptConnection, AcceptReturns, Handles,
     TypeOK, closeVars, historyVars, fdVars
<1>1. ~overlapped
  OBVIOUS
<1>2. \A k \in Loops : /\ InSwap(k)' <=> InSwap(k)
                       /\ (loop'[k] = "assign") <=> (loop[k] = "assign")
  BY DEF InSwap, TypeOK
<1>3. OneAtATime' /\ LoadedIsCurrent'
  BY <1>1, <1>2 DEF OwnInv, OneAtATime, LoadedIsCurrent
<1>4. \A c \in Conns : (c \in Owned)' <=> c \in Owned \/ c = h
  BY DEF Owned, TypeOK
<1> QED BY <1>1, <1>3, <1>4 DEF OwnInv, StrictlyOwned

LEMMA SwapOwns ==
  ASSUME TypeOK, SocketInv, OwnInv, NEW l \in Loops, LoadOld(l) \/ MoveAssign(l)
  PROVE  OwnInv'
<1> SUFFICES ASSUME ~overlapped' PROVE OneAtATime' /\ LoadedIsCurrent' /\ StrictlyOwned'
  BY DEF OwnInv
<1>1. CASE LoadOld(l)
  <2>1. /\ ~overlapped /\ closing = "no" /\ \A k \in Loops : ~InSwap(k)
        /\ loop[l] = "load" /\ loop' = [loop EXCEPT ![l] = "assign"]
        /\ replaced' = [replaced EXCEPT ![l] = current_socket.handle_]
        /\ UNCHANGED <<current_socket, accepted, closing, releasing, fd, stale_closes,
                       victims>>
    BY <1>1 DEF LoadOld, OldHandle, Overlap, InSwap, TypeOK, closeVars, fdVars
  <2>2. OneAtATime' /\ LoadedIsCurrent'
    BY <2>1 DEF OneAtATime, LoadedIsCurrent, InSwap, TypeOK
  <2>3. \A c : (c \in Owned)' <=> c \in Owned
    BY <2>1 DEF Owned, TypeOK, InSwap
  <2> QED BY <2>1, <2>2, <2>3 DEF OwnInv, StrictlyOwned
<1>2. CASE MoveAssign(l)
  <2>1. /\ ~overlapped
        /\ loop[l] = "assign" /\ loop' = [loop EXCEPT ![l] = "dispose"]
        /\ current_socket'.handle_ = accepted[l]
        /\ accepted' = [accepted EXCEPT ![l] = INVALID_SOCKET]
        /\ UNCHANGED <<replaced, closing, releasing, fd, stale_closes, victims>>
    BY <1>2 DEF MoveAssign, TypeOK, closeVars, fdVars, historyVars
  <2>2. /\ closing = "no" /\ replaced[l] = current_socket.handle_
        /\ \A k \in Loops : InSwap(k) => k = l
    BY <2>1 DEF OwnInv, OneAtATime, LoadedIsCurrent, InSwap
  <2>3. OneAtATime' /\ LoadedIsCurrent'
    BY <2>1, <2>2 DEF OneAtATime, LoadedIsCurrent, InSwap, TypeOK
  <2>4. \A c \in Conns : (c \in Owned)' <=> c \in Owned
    BY <2>1, <2>2, ConstantsAssumption DEF Owned, TypeOK, InSwap
  <2> QED BY <2>1, <2>3, <2>4 DEF OwnInv, StrictlyOwned
<1> QED BY <1>1, <1>2

LEMMA DisposeOwns ==
  ASSUME TypeOK, SocketInv, OwnInv, NEW l \in Loops, DisposeOld(l)
  PROVE  OwnInv'
<1> SUFFICES ASSUME ~overlapped' PROVE OneAtATime' /\ LoadedIsCurrent' /\ StrictlyOwned'
  BY DEF OwnInv
<1>1. /\ ~overlapped
      /\ loop[l] = "dispose" /\ loop' = [loop EXCEPT ![l] = "increment"]
      /\ replaced' = [replaced EXCEPT ![l] = INVALID_SOCKET]
      /\ UNCHANGED <<current_socket, accepted, closing, releasing>>
  BY DEF DisposeOld, TypeOK, closeVars
<1>2. closing = "no" /\ \A k \in Loops : InSwap(k) => k = l
  BY <1>1 DEF OwnInv, OneAtATime, InSwap
<1>3. OneAtATime' /\ LoadedIsCurrent'
  BY <1>1, <1>2 DEF OneAtATime, LoadedIsCurrent, InSwap, TypeOK
<1>4. /\ replaced[l] \in Conns => /\ replaced[l] # current_socket.handle_
                                  /\ \A k \in Loops : accepted[k] # replaced[l]
  BY <1>1 DEF SocketInv, Apart
<1>5. \A c \in Conns : (c \in Owned)' <=> c \in Owned /\ c # replaced[l]
  BY <1>1, <1>2, <1>4, ConstantsAssumption DEF Owned, TypeOK, InSwap
<1>6. CASE replaced[l] = INVALID_SOCKET
  <2>1. UNCHANGED <<fd, stale_closes, victims>>
    BY <1>6 DEF DisposeOld
  <2> QED BY <1>1, <1>3, <1>5, <1>6, <2>1, ConstantsAssumption DEF OwnInv, StrictlyOwned
<1>7. CASE replaced[l] # INVALID_SOCKET
  <2>1. replaced[l] \in Conns /\ replaced[l] \in Owned
    BY <1>1, <1>7 DEF Owned, TypeOK, Handles
  <2>2. fd[replaced[l]] = "open"
    BY <1>1, <2>1 DEF OwnInv, StrictlyOwned
  <2>3. /\ fd' = [fd EXCEPT ![replaced[l]] = "closed"]
        /\ stale_closes' = stale_closes /\ victims' = victims
    <3>1. CloseNumber(replaced[l]) /\ replaced[l] \in Handles
      BY <1>7, <2>1 DEF DisposeOld, Handles
    <3> QED BY <2>1, <2>2, <3>1, CloseNumberKeeps DEF SocketInv
  <2>4. \A c \in Conns : fd'[c] = "open" <=> fd[c] = "open" /\ c # replaced[l]
    BY <2>3 DEF TypeOK
  <2> QED BY <1>1, <1>3, <1>5, <2>3, <2>4 DEF OwnInv, StrictlyOwned
<1> QED BY <1>6, <1>7

LEMMA CloseOwns ==
  ASSUME TypeOK, SocketInv, OwnInv, CloseTest \/ CloseLoad \/ CloseStore \/ CloseKernel
  PROVE  OwnInv'
<1> SUFFICES ASSUME ~overlapped' PROVE OneAtATime' /\ LoadedIsCurrent' /\ StrictlyOwned'
  BY DEF OwnInv
<1>1. CASE CloseTest
  <2>1. /\ ~overlapped /\ closing = "no" /\ \A k \in Loops : ~InSwap(k)
        /\ closing' = "tested" /\ current_socket.handle_ # INVALID_SOCKET
        /\ UNCHANGED <<loop, current_socket, accepted, replaced, releasing, fd,
                       stale_closes, victims>>
    BY <1>1 DEF CloseTest, MutexFree, Overlap, InSwap, TypeOK, loopVars, fdVars
  <2>2. OneAtATime' /\ LoadedIsCurrent'
    BY <2>1 DEF OneAtATime, LoadedIsCurrent, InSwap
  <2>3. \A c : (c \in Owned)' <=> c \in Owned
    BY <2>1 DEF Owned
  <2> QED BY <2>1, <2>2, <2>3 DEF OwnInv, StrictlyOwned
<1>2. CASE CloseLoad
  <2>1. /\ ~overlapped /\ closing = "tested" /\ closing' = "loaded"
        /\ releasing' = current_socket.handle_
        /\ UNCHANGED <<loop, current_socket, accepted, replaced, fd, stale_closes, victims>>
    BY <1>2 DEF CloseLoad, loopVars, fdVars, historyVars
  <2>2. OneAtATime' /\ LoadedIsCurrent'
    BY <2>1 DEF OwnInv, OneAtATime, LoadedIsCurrent, InSwap
  <2>3. \A c : (c \in Owned)' <=> c \in Owned
    BY <2>1 DEF Owned
  <2> QED BY <2>1, <2>2, <2>3 DEF OwnInv, StrictlyOwned
<1>3. CASE CloseStore
  <2>1. /\ ~overlapped /\ closing = "loaded" /\ closing' = "released"
        /\ current_socket'.handle_ = INVALID_SOCKET
        /\ UNCHANGED <<loop, accepted, replaced, releasing, fd, stale_closes, victims>>
    BY <1>3 DEF CloseStore, Released, TypeOK, loopVars, fdVars, historyVars
  <2>2. releasing = current_socket.handle_ /\ releasing \in Conns
    BY <2>1 DEF OwnInv, LoadedIsCurrent, TypeOK, Handles
  <2>3. OneAtATime' /\ LoadedIsCurrent'
    BY <2>1, <2>2 DEF OwnInv, OneAtATime, LoadedIsCurrent, InSwap
  <2>4. \A c \in Conns : (c \in Owned)' <=> c \in Owned
    BY <2>1, <2>2, ConstantsAssumption DEF Owned
  <2> QED BY <2>1, <2>3, <2>4 DEF OwnInv, StrictlyOwned
<1>4. CASE CloseKernel
  <2>1. /\ ~overlapped /\ closing = "released" /\ closing' = "no"
        /\ current_socket'.handle_ = current_socket.handle_
        /\ CloseNumber(releasing)
        /\ UNCHANGED <<loop, accepted, replaced>>
    BY <1>4 DEF CloseKernel, TypeOK, loopVars
  <2>2. /\ releasing \in Conns /\ releasing \in Handles /\ releasing \in Owned
        /\ \A k \in Loops : ~InSwap(k)
    BY <2>1 DEF OwnInv, OneAtATime, LoadedIsCurrent, Owned, Handles
  <2>3. fd[releasing] = "open"
    BY <2>1, <2>2 DEF OwnInv, StrictlyOwned
  <2>4. /\ fd' = [fd EXCEPT ![releasing] = "closed"]
        /\ stale_closes' = stale_closes /\ victims' = victims
    BY <2>1, <2>2, <2>3, CloseNumberKeeps DEF SocketInv
  <2>5. OneAtATime' /\ LoadedIsCurrent'
    BY <2>1, <2>2 DEF OneAtATime, LoadedIsCurrent, InSwap
  <2>6. /\ releasing # current_socket.handle_
        /\ \A k \in Loops : accepted[k] # releasing
    BY <2>1, <2>2 DEF SocketInv, Apart
  <2>7. \A c \in Conns : (c \in Owned)' <=> c \in Owned /\ c # releasing
    BY <2>1, <2>2, <2>6 DEF Owned, InSwap
  <2>8. \A c \in Conns : fd'[c] = "open" <=> fd[c] = "open" /\ c # releasing
    BY <2>4 DEF TypeOK
  <2> QED BY <2>1, <2>4, <2>5, <2>7, <2>8 DEF OwnInv, StrictlyOwned
<1> QED BY <1>1, <1>2, <1>3, <1>4

LEMMA NextOwnInv == TypeOK /\ SocketInv /\ OwnInv /\ [Next]_vars => OwnInv'
  BY TwoKinds, SameSwapsOwn, AcceptOwns, SwapOwns, DisposeOwns, CloseOwns
  DEF HandleStep

LEMMA InitOwnInv == Init => OwnInv
  BY ConstantsAssumption
  DEF Init, OwnInv, OneAtATime, LoadedIsCurrent, StrictlyOwned, InSwap, Owned

(* The socket class keeps strict ownership of the connections until swaps   *)
(* overlap each other or close_socket(), for any number of connections,     *)
(* descriptor numbers and accept loops.                                     *)
THEOREM OwnershipStrict == Spec => []OwnershipUnlessOverlap
<1>1. TypeOK /\ SocketInv /\ OwnInv /\ [Next]_vars => OwnInv'
  BY NextOwnInv
<1>2. TypeOK /\ OwnInv => OwnershipUnlessOverlap
  <2> SUFFICES ASSUME TypeOK, OwnInv, ~overlapped
               PROVE  /\ stale_closes = 0 /\ victims = {} /\ Lost = {}
                      /\ \A h \in Owned \ {INVALID_SOCKET} : fd[h] = "open"
    BY DEF OwnershipUnlessOverlap
  <2>1. Lost = {}
    BY DEF OwnInv, StrictlyOwned, Lost
  <2>2. \A h \in Owned : h \in Conns \cup {INVALID_SOCKET}
    BY DEF Owned, TypeOK, Handles
  <2> QED BY <2>1, <2>2 DEF OwnInv, StrictlyOwned
<1> QED BY <1>1, <1>2, InitOwnInv, Typing, SocketAlways, PTL DEF Spec

---------------------------------------------------------------------------
(* Lost descriptors *)

(* While one loop swaps, the socket still holds what it loaded, or nothing. *)
Swapped ==
  \A l \in Loops : loop[l] = "assign" =>
      current_socket.handle_ \in {replaced[l], INVALID_SOCKET}

(* A handle for which a close() is due that will find it closed, or will    *)
(* close it before another one that is due finds it closed.                 *)
Doomed(h) == \/ h = INVALID_SOCKET \/ fd[h] # "open"
             \/ \E l \in Loops : loop[l] = "dispose" /\ replaced[l] = h
Due == {l \in Loops : /\ loop[l] = "dispose" /\ replaced[l] # INVALID_SOCKET
                      /\ fd[replaced[l]] # "open"}
DueRelease == IF closing = "released" /\ Doomed(releasing) THEN 1 ELSE 0

(* The stale closes that happened and those that are due pay for what is    *)
(* lost.                                                                    *)
Price == stale_closes + DueRelease + Cardinality(Due)
Paid == IsFiniteSet(Lost) /\ Cardinality(Lost) <= Price

LostInv == /\ Swapped
           /\ closing = "loaded" =>
                 releasing = current_socket.handle_ \/ Doomed(releasing)
           /\ Paid

LEMMA AddOne ==
  ASSUME NEW S, IsFiniteSet(S), NEW x
  PROVE  /\ IsFiniteSet(S \cup {x})
         /\ Cardinality(S \cup {x}) <= Cardinality(S) + 1
<1>1. Cardinality(S) \in Nat
  BY FS_CardinalityType
<1>2. /\ IsFiniteSet(S \cup {x})
      /\ Cardinality(S \cup {x}) \in {Cardinality(S), Cardinality(S) + 1}
  BY FS_AddElement
<1> QED BY <1>1, <1>2

LEMMA DueFinite == IsFiniteSet(Due) /\ Cardinality(Due) \in Nat
<1>1. IsFiniteSet(Due)
  BY FS_Subset, ConstantsAssumption DEF Due
<1> QED BY <1>1, FS_CardinalityType

LEMMA DueFinite2 == IsFiniteSet(Due') /\ Cardinality(Due') \in Nat
<1>1. IsFiniteSet(Due')
  BY FS_Subset, ConstantsAssumption DEF Due
<1> QED BY <1>1, FS_CardinalityType

LEMMA DueGrows ==
  ASSUME Due \subseteq Due'
  PROVE  Cardinality(Due) <= Cardinality(Due')
  BY DueFinite2, FS_Subset

LEMMA DueJoins ==
  ASSUME NEW l, l \notin Due, l \in Due', Due \subseteq Due'
  PROVE  Cardinality(Due) + 1 <= Cardinality(Due')
<1>1. IsFiniteSet(Due' \ {l}) /\ Cardinality(Due' \ {l}) = Cardinality(Due') - 1
  BY DueFinite2, FS_RemoveElement
<1>2. Due \subseteq Due' \ {l}
  OBVIOUS
<1>3. Cardinality(Due) <= Cardinality(Due' \ {l})
  BY <1>1, <1>2, FS_Subset
<1> QED BY <1>1, <1>3, DueFinite, DueFinite2

LEMMA DueLeaves ==
  ASSUME NEW l, Due \ {l} \subseteq Due'
  PROVE  Cardinality(Due) <= Cardinality(Due') + 1
<1>1. /\ IsFiniteSet(Due' \cup {l})
      /\ Cardinality(Due' \cup {l}) <= Cardinality(Due') + 1
  BY DueFinite2, AddOne
<1>2. Due \subseteq Due' \cup {l}
  OBVIOUS
<1>3. Cardinality(Due) <= Cardinality(Due' \cup {l})
  BY <1>1, <1>2, FS_Subset
<1>4. Cardinality(Due' \cup {l}) \in Nat
  BY <1>1, FS_CardinalityType
<1> QED BY <1>1, <1>3, <1>4, DueFinite, DueFinite2

LEMMA PriceIsNat ==
  ASSUME TypeOK, TypeOK'
  PROVE  Price \in Nat /\ Price' \in Nat
<1>1. stale_closes \in Nat /\ stale_closes' \in Nat
  BY DEF TypeOK
<1>2. DueRelease \in {0, 1} /\ DueRelease' \in {0, 1}
  BY DEF DueRelease
<1>3. Cardinality(Due) \in Nat /\ Cardinality(Due') \in Nat
  BY DueFinite, DueFinite2
<1>4. Price \in Nat
  BY <1>1, <1>2, <1>3 DEF Price
<1>5. Price' \in Nat
  BY <1>1, <1>2, <1>3 DEF Price
<1> QED BY <1>4, <1>5

(* The two ways in which a step may change what is lost. *)
LEMMA LostNoMore ==
  ASSUME TypeOK, TypeOK', Paid, Lost' \subseteq Lost, Price <= Price'
  PROVE  Paid'
<1>1. IsFiniteSet(Lost') /\ Cardinality(Lost') <= Cardinality(Lost)
  BY FS_Subset DEF Paid
<1>2. Cardinality(Lost) \in Nat /\ Cardinality(Lost') \in Nat
  BY <1>1, FS_CardinalityType DEF Paid
<1>3. Price \in Nat /\ Price' \in Nat
  BY PriceIsNat
<1> QED BY <1>1, <1>2, <1>3 DEF Paid

LEMMA LostOneMore ==
  ASSUME TypeOK, TypeOK', Paid, NEW h, Lost' \subseteq Lost \cup {h},
         Price + 1 <= Price'
  PROVE  Paid'
<1>1. /\ IsFiniteSet(Lost \cup {h})
      /\ Cardinality(Lost \cup {h}) <= Cardinality(Lost) + 1
  BY AddOne DEF Paid
<1>2. IsFiniteSet(Lost') /\ Cardinality(Lost') <= Cardinality(Lost \cup {h})
  BY <1>1, FS_Subset
<1>3. /\ Cardinality(Lost) \in Nat /\ Cardinality(Lost') \in Nat
      /\ Cardinality(Lost \cup {h}) \in Nat
  BY <1>1, <1>2, FS_CardinalityType DEF Paid
<1>4. Price \in Nat /\ Price' \in Nat
  BY PriceIsNat
<1> QED BY <1>1, <1>2, <1>3, <1>4 DEF Paid

LEMMA SameSwapsLose ==
  ASSUME TypeOK, LostInv, SameSwaps
  PROVE  LostInv'
<1>1. Owned' = Owned
  BY DEF SameSwaps, Owned
<1>2. Lost' = Lost
  BY <1>1 DEF SameSwaps, Lost
<1>3. Due' = Due
  BY DEF SameSwaps, Due
<1>4. \A h : Doomed(h)' <=> Doomed(h)
  BY DEF SameSwaps, Doomed
<1>5. DueRelease' = DueRelease
  BY <1>4 DEF SameSwaps, DueRelease
<1>6. Paid'
  BY <1>2, <1>3, <1>5 DEF LostInv, Paid, Price, SameSwaps
<1> QED BY <1>4, <1>6 DEF LostInv, SameSwaps, Swapped

LEMMA AcceptLoses ==
  ASSUME TypeOK, TypeOK', SocketInv, LostInv, NEW l \in Loops,
         AcceptFails(l) \/ \E c \in Conns : AcceptConnection(l, c)
  PROVE  LostInv'
<1> PICK h \in Handles :
      /\ loop[l] = "accept" /\ loop' = [loop EXCEPT ![l] = "load"]
      /\ accepted' = [accepted EXCEPT ![l] = h]
      /\ \A c \in Conns : c = h => fd[c] = "none"
      /\ \A c \in Conns : c # h => fd'[c] = fd[c]
      /\ UNCHANGED <<current_socket, replaced, closing, releasing, stale_closes>>
  BY ConstantsAssumption DEF AcceptFails, AcceptConnection, AcceptReturns, Handles,
     TypeOK, closeVars, historyVars, fdVars
<1>1. \A k \in Loops \ {l} : loop'[k] = loop[k] /\ accepted'[k] = accepted[k]
  BY DEF TypeOK
<1>2. loop'[l] = "load" /\ accepted'[l] = h
  BY DEF TypeOK
<1>3. Swapped'
  BY <1>1, <1>2 DEF LostInv, Swapped
<1>4. Lost' \subseteq Lost
  <2>1. \A c \in Conns : c \in Owned \/ c = h => (c \in Owned)'
    BY <1>1, <1>2 DEF Owned
  <2> QED BY <2>1 DEF Lost
<1>5. \A g \in Conns : Was(g) => fd'[g] = fd[g]
  BY DEF Was
<1>6. Doomed(releasing) => Doomed(releasing)'
  BY <1>1, <1>2, <1>5 DEF Doomed, SocketInv, TypeOK, Handles
<1>7. Due \subseteq Due'
  BY <1>1, <1>2, <1>5 DEF Due, SocketInv, TypeOK, Handles
<1>8. Price <= Price'
  BY <1>6, <1>7, DueGrows, DueFinite, DueFinite2 DEF Price, DueRelease, TypeOK
<1>9. Paid'
  BY <1>4, <1>8, LostNoMore DEF LostInv
<1> QED BY <1>3, <1>6, <1>9 DEF LostInv

LEMMA SwapLoses ==
  ASSUME TypeOK, TypeOK', SocketInv, OneSwap, LostInv, NEW l \in Loops,
         LoadOld(l) \/ MoveAssign(l)
  PROVE  LostInv'
<1>1. CASE LoadOld(l)
  <2>1. /\ loop[l] = "load" /\ loop' = [loop EXCEPT ![l] = "assign"]
        /\ replaced' = [replaced EXCEPT ![l] = current_socket.handle_]
        /\ UNCHANGED <<current_socket, accepted, closing, releasing, fd, stale_closes>>
    BY <1>1 DEF LoadOld, OldHandle, closeVars, fdVars
  <2>2. Swapped'
    BY <2>1 DEF LostInv, Swapped, TypeOK
  <2>3. Lost' \subseteq Lost
    BY <2>1 DEF Lost, Owned, TypeOK
  <2>4. \A h : Doomed(h) => Doomed(h)'
    BY <2>1 DEF Doomed, TypeOK
  <2>5. Due \subseteq Due'
    BY <2>1 DEF Due, TypeOK
  <2>6. Price <= Price'
    BY <2>1, <2>4, <2>5, DueGrows, DueFinite, DueFinite2 DEF Price, DueRelease, TypeOK
  <2>7. Paid'
    BY <2>3, <2>6, LostNoMore DEF LostInv
  <2> QED BY <2>1, <2>2, <2>4, <2>7 DEF LostInv
<1>2. CASE MoveAssign(l)
  <2>1. /\ loop[l] = "assign" /\ loop' = [loop EXCEPT ![l] = "dispose"]
        /\ current_socket'.handle_ = accepted[l]
        /\ accepted' = [accepted EXCEPT ![l] = INVALID_SOCKET]
        /\ UNCHANGED <<replaced, closing, releasing, fd, stale_closes>>
    BY <1>2 DEF MoveAssign, closeVars, fdVars, historyVars
  <2>2. Swapped'
    BY <2>1 DEF OneSwap, Swapped, TypeOK
  <2>3. current_socket.handle_ \in {replaced[l], INVALID_SOCKET}
    BY <2>1 DEF LostInv, Swapped
  <2>4. \A c \in Conns : c \in Owned => (c \in Owned)'
    BY <2>1, <2>3, ConstantsAssumption DEF Owned, TypeOK
  <2>5. Lost' \subseteq Lost
    BY <2>1, <2>4 DEF Lost
  <2>6. \A h : Doomed(h) => Doomed(h)'
    BY <2>1 DEF Doomed, TypeOK
  <2>7. Due \subseteq Due'
    BY <2>1 DEF Due, TypeOK
  <2>8. Price <= Price'
    BY <2>1, <2>6, <2>7, DueGrows, DueFinite, DueFinite2 DEF Price, DueRelease, TypeOK
  <2>9. Paid'
    BY <2>5, <2>8, LostNoMore DEF LostInv
  <2>10. closing' = "loaded" => Doomed(releasing)'
    <3>1. CASE releasing = current_socket.handle_
      <4>1. current_socket.handle_ = replaced[l] \/ current_socket.handle_ = INVALID_SOCKET
        BY <2>3
      <4>2. loop'[l] = "dispose" /\ replaced'[l] = replaced[l] /\ releasing' = releasing
        BY <2>1 DEF TypeOK
      <4> QED BY <3>1, <4>1, <4>2 DEF Doomed
    <3>2. CASE releasing # current_socket.handle_
      BY <2>1, <2>6, <3>2 DEF LostInv
    <3> QED BY <3>1, <3>2
  <2> QED BY <2>2, <2>9, <2>10 DEF LostInv
<1> QED BY <1>1, <1>2

LEMMA DisposeLoses ==
  ASSUME TypeOK, TypeOK', SocketInv, LostInv, NEW l \in Loops, DisposeOld(l)
  PROVE  LostInv'
<1>1. /\ loop[l] = "dispose" /\ loop' = [loop EXCEPT ![l] = "increment"]
      /\ replaced' = [replaced EXCEPT ![l] = INVALID_SOCKET]
      /\ UNCHANGED <<current_socket, accepted, closing, releasing>>
  BY DEF DisposeOld, closeVars
<1>2. \A k \in Loops \ {l} : loop'[k] = loop[k] /\ replaced'[k] = replaced[k]
  BY <1>1 DEF TypeOK
<1>3. loop'[l] = "increment"
  BY <1>1 DEF TypeOK
<1>4. Swapped'
  BY <1>1, <1>2, <1>3 DEF LostInv, Swapped
<1>5. \A c : c \in Owned /\ c # replaced[l] => (c \in Owned)'
  BY <1>1 DEF Owned, TypeOK
<1>6. CASE replaced[l] = INVALID_SOCKET
  <2>1. UNCHANGED <<fd, stale_closes>>
    BY <1>6 DEF DisposeOld
  <2>2. Lost' \subseteq Lost
    BY <1>5, <1>6, <2>1, ConstantsAssumption DEF Lost
  <2>3. Doomed(releasing) => Doomed(releasing)'
    BY <1>1, <1>2, <1>6, <2>1 DEF Doomed
  <2>4. Due \subseteq Due'
    BY <1>2, <1>6, <2>1 DEF Due
  <2>5. Price <= Price'
    BY <1>1, <2>1, <2>3, <2>4, DueGrows, DueFinite, DueFinite2
    DEF Price, DueRelease, TypeOK
  <2>6. Paid'
    BY <2>2, <2>5, LostNoMore DEF LostInv
  <2> QED BY <1>1, <1>4, <2>3, <2>6 DEF LostInv
<1>7. CASE replaced[l] # INVALID_SOCKET
  <2>1. replaced[l] \in Conns /\ replaced[l] \in Handles
    BY <1>7 DEF TypeOK, Handles
  <2>2. CloseNumber(replaced[l])
    BY <1>7 DEF DisposeOld
  <2>3. /\ \A c \in Conns : fd'[c] = "open" => fd[c] = "open"
        /\ fd'[replaced[l]] # "open"
        /\ fd[replaced[l]] = "open" => stale_closes' = stale_closes
        /\ fd[replaced[l]] # "open" => stale_closes' = stale_closes + 1
    BY <2>1, <2>2, CloseNumberKeeps DEF SocketInv
  <2>4. Lost' \subseteq Lost
    BY <1>5, <2>3 DEF Lost
  <2>5. Doomed(releasing) => Doomed(releasing)'
    BY <1>1, <1>2, <2>1, <2>3 DEF Doomed, TypeOK, Handles
  <2>6. Due \ {l} \subseteq Due'
    BY <1>2, <2>3 DEF Due, TypeOK, Handles
  <2>7. DueRelease' >= DueRelease /\ DueRelease \in Nat /\ DueRelease' \in Nat
    BY <1>1, <2>5 DEF DueRelease
  <2>8. Price <= Price'
    <3>1. CASE fd[replaced[l]] = "open"
      <4>1. Due \subseteq Due'
        BY <2>6, <3>1 DEF Due
      <4> QED BY <2>3, <2>7, <3>1, <4>1, DueGrows, DueFinite, DueFinite2 DEF Price, TypeOK
    <3>2. CASE fd[replaced[l]] # "open"
      <4>1. Cardinality(Due) <= Cardinality(Due') + 1
        BY <2>6, DueLeaves
      <4>2. stale_closes \in Nat /\ stale_closes' = stale_closes + 1
        BY <2>3, <3>2 DEF TypeOK
      <4> QED BY <2>7, <4>1, <4>2, DueFinite, DueFinite2 DEF Price
    <3> QED BY <3>1, <3>2
  <2>9. Paid'
    BY <2>4, <2>8, LostNoMore DEF LostInv
  <2> QED BY <1>1, <1>4, <2>5, <2>9 DEF LostInv
<1> QED BY <1>6, <1>7

LEMMA CloseStoreLoses ==
  ASSUME TypeOK, TypeOK', LostInv, CloseStore
  PROVE  LostInv'
<1>1. /\ closing = "loaded" /\ closing' = "released"
      /\ current_socket'.handle_ = INVALID_SOCKET
      /\ UNCHANGED <<loop, accepted, replaced, releasing, fd, stale_closes>>
  BY DEF CloseStore, Released, TypeOK, loopVars, fdVars, historyVars
<1>2. Swapped'
  BY <1>1 DEF Swapped
<1>3. \A c : c \in Owned /\ c # current_socket.handle_ => (c \in Owned)'
  BY <1>1 DEF Owned
<1>4. (releasing \in Owned)'
  BY <1>1 DEF Owned
<1>5. Due' = Due /\ (Doomed(releasing)' <=> Doomed(releasing))
  BY <1>1 DEF Due, Doomed
<1>6. CASE releasing = current_socket.handle_
  <2>1. Lost' \subseteq Lost
    BY <1>1, <1>3, <1>4, <1>6 DEF Lost
  <2>2. Price <= Price'
    BY <1>1, <1>5, DueFinite DEF Price, DueRelease, TypeOK
  <2> QED BY <1>1, <1>2, <2>1, <2>2, LostNoMore DEF LostInv
<1>7. CASE releasing # current_socket.handle_
  <2>1. Doomed(releasing)
    BY <1>1, <1>7 DEF LostInv
  <2>2. Lost' \subseteq Lost \cup {current_socket.handle_}
    BY <1>1, <1>3 DEF Lost
  <2>3. Price + 1 <= Price'
    BY <1>1, <1>5, <2>1, DueFinite DEF Price, DueRelease, TypeOK
  <2> QED BY <1>1, <1>2, <2>2, <2>3, LostOneMore DEF LostInv
<1> QED BY <1>6, <1>7

LEMMA CloseKernelLoses ==
  ASSUME TypeOK, TypeOK', SocketInv, LostInv, CloseKernel
  PROVE  LostInv'
<1>1. /\ closing = "released" /\ closing' = "no"
      /\ current_socket'.handle_ = current_socket.handle_
      /\ CloseNumber(releasing) /\ releasing \in Handles
      /\ UNCHANGED <<loop, accepted, replaced>>
  BY DEF CloseKernel, TypeOK, loopVars
<1>2. Swapped'
  BY <1>1 DEF LostInv, Swapped
<1>3. /\ \A c \in Conns : fd'[c] = "open" => fd[c] = "open"
      /\ releasing \in Conns => fd'[releasing] # "open"
      /\ releasing \in Conns /\ fd[releasing] = "open" => stale_closes' = stale_closes
      /\ ~(releasing \in Conns /\ fd[releasing] = "open") => stale_closes' = stale_closes + 1
  BY <1>1, CloseNumberKeeps DEF SocketInv
<1>4. \A c : c \in Owned /\ c # releasing => (c \in Owned)'
  BY <1>1 DEF Owned
<1>5. Lost' \subseteq Lost
  BY <1>3, <1>4 DEF Lost
<1>6. Due \subseteq Due'
  BY <1>1, <1>3 DEF Due, TypeOK, Handles
<1>7. DueRelease' = 0 /\ DueRelease \in {0, 1}
  BY <1>1 DEF DueRelease
<1>8. Price <= Price'
  <2>1. CASE ~(releasing \in Conns /\ fd[releasing] = "open")
    BY <1>3, <1>6, <1>7, <2>1, DueGrows, DueFinite, DueFinite2 DEF Price, TypeOK
  <2>2. CASE releasing \in Conns /\ fd[releasing] = "open" /\ ~Doomed(releasing)
    <3>1. DueRelease = 0
      BY <2>2 DEF DueRelease
    <3> QED BY <1>3, <1>6, <1>7, <2>2, <3>1, DueGrows, DueFinite, DueFinite2
        DEF Price, TypeOK
  <2>3. CASE releasing \in Conns /\ fd[releasing] = "open" /\ Doomed(releasing)
    <3>1. PICK l \in Loops : loop[l] = "dispose" /\ replaced[l] = releasing
      BY <2>3, ConstantsAssumption DEF Doomed
    <3>2. l \notin Due /\ l \in Due'
      BY <1>1, <1>3, <2>3, <3>1, ConstantsAssumption DEF Due
    <3>3. Cardinality(Due) + 1 <= Cardinality(Due')
      BY <1>6, <3>2, DueJoins
    <3> QED BY <1>3, <1>7, <2>3, <3>3, DueFinite, DueFinite2 DEF Price, TypeOK
  <2> QED BY <2>1, <2>2, <2>3
<1>9. Paid'
  BY <1>5, <1>8, LostNoMore DEF LostInv
<1> QED BY <1>1, <1>2, <1>9 DEF LostInv

LEMMA CloseBeginLoses ==
  ASSUME TypeOK, TypeOK', LostInv, CloseTest \/ CloseLoad
  PROVE  LostInv'
<1>1. /\ closing # "released" /\ closing' # "released"
      /\ closing' = "loaded" => releasing' = current_socket'.handle_
      /\ UNCHANGED <<current_socket, loop, accepted, replaced, fd, stale_closes>>
  BY DEF CloseTest, CloseLoad, MutexFree, loopVars, fdVars, historyVars
<1>2. Swapped'
  BY <1>1 DEF LostInv, Swapped
<1>3. Lost' = Lost /\ Due' = Due /\ DueRelease' = DueRelease
  BY <1>1 DEF Lost, Owned, Due, DueRelease
<1> QED BY <1>1, <1>2, <1>3 DEF LostInv, Paid, Price

LEMMA NextLostInv ==
  ASSUME TypeOK, TypeOK', SocketInv, OneSwap, LostInv, [Next]_vars
  PROVE  LostInv'
  BY TwoKinds, SameSwapsLose, AcceptLoses, SwapLoses, DisposeLoses, CloseStoreLoses,
     CloseKernelLoses, CloseBeginLoses
  DEF HandleStep

(* Until two accept loops swap at the same time, a descriptor is lost only   *)
(* where close_socket() raced with a swap and a close() found its handle     *)
(* closed before, for any number of loops, connections and numbers.          *)
THEOREM LostByStaleClose == Spec /\ []OneSwap => []LostOnlyByStaleClose
<1>1. Init => LostInv
  <2>1. ASSUME Init
        PROVE  /\ Lost = {} /\ Swapped /\ stale_closes = 0 /\ DueRelease = 0
               /\ Due = {} /\ closing # "loaded"
    BY <2>1 DEF Init, Lost, Swapped, Due, DueRelease
  <2> QED BY <2>1, FS_EmptySet DEF LostInv, Paid, Price
<1>2. TypeOK /\ TypeOK' /\ SocketInv /\ OneSwap /\ LostInv /\ [Next]_vars => LostInv'
  BY NextLostInv
<1>3. TypeOK /\ LostInv => LostOnlyByStaleClose
  <2> SUFFICES ASSUME TypeOK, LostInv, closing = "no", \A l \in Loops : loop[l] # "dispose"
               PROVE  Cardinality(Lost) <= stale_closes
    BY DEF LostOnlyByStaleClose
  <2>1. Due = {} /\ DueRelease = 0
    BY DEF Due, DueRelease
  <2> QED BY <2>1, FS_EmptySet DEF LostInv, Paid, Price, TypeOK
<1> QED BY <1>1, <1>2, <1>3, Typing, SocketAlways, PTL DEF Spec

===============================================================================
