--------------------------- MODULE DET_State_proofs ---------------------------
(***************************************************************************)
(* The state machine and the work threads use the handler only as          *)
(* Mgard300_Handler allows, so that its theorems hold of the whole server; *)
(* and what the work flag and the state objects are for holds until a      *)
(* second executor is started.                                             *)
(***************************************************************************)
EXTENDS DET_State, Mgard300_Handler_proofs

---------------------------------------------------------------------------
(* Refinement *)

LEMMA ExecutorStep ==
  ASSUME NEW t \in Threads, execute_cmd_thread(t)
  PROVE  CallerNext \/ UNCHANGED vars
<1>1. CASE TakeCommand(t)
  BY <1>1 DEF TakeCommand, CallerNext
<1>2. CASE CloseSocket(t)
  BY <1>2 DEF CloseSocket, CallerNext
<1>3. CASE \/ DeleteState(t) \/ AssignState(t) \/ Dispatched(t) \/ WaitForWork(t)
           \/ SetWorking(t) \/ DetachWork(t) \/ \E w \in Workers : StartWork(t, w)
  BY <1>3 DEF DeleteState, AssignState, Dispatched, WaitForWork, SetWorking, DetachWork,
     StartWork
<1> QED BY <1>1, <1>2, <1>3 DEF execute_cmd_thread

LEMMA WorkStep ==
  ASSUME DetTypeOK, NEW w \in Workers, work_thread(w)
  PROVE  CallerNext \/ UNCHANGED vars
<1>1. CASE SendPiece(w) \/ SendFails(w)
  <2>1. using[w] \in Handles
    BY DEF DetTypeOK
  <2> QED BY <1>1, <2>1 DEF SendPiece, SendFails, WriteFails, CallerNext
<1>2. CASE Reconnect(w)
  <2>1. w \in Loops
    BY DetAssumption
  <2> QED BY <1>2, <2>1 DEF Reconnect, CallerNext
<1>3. CASE \/ AcquireImage(w) \/ BeginSend(w) \/ BeginChunk(w) \/ LoadSocket(w)
           \/ MarkClosed(w) \/ SendLoopEnds(w) \/ AfterSend(w) \/ LoopReturns(w)
           \/ FinishWork(w) \/ LeaveWork(w)
  BY <1>3 DEF AcquireImage, BeginSend, BeginChunk, LoadSocket, MarkClosed, SendLoopEnds,
     AfterSend, LoopReturns, FinishWork, LeaveWork
<1> QED BY <1>1, <1>2, <1>3 DEF work_thread

LEMMA DetStep == DetTypeOK /\ [DetNext]_detVars => [Next]_vars
<1> SUFFICES ASSUME DetTypeOK, [DetNext]_detVars PROVE [Next]_vars
  OBVIOUS
<1>1. CASE UNCHANGED detVars
  BY <1>1 DEF detVars
<1>2. CASE Running /\ HandlerNext
  BY <1>2 DEF Running, HandlerNext, Next
<1>3. ASSUME Running, NEW t \in Threads, execute_cmd_thread(t) PROVE [Next]_vars
  BY <1>3, ExecutorStep DEF Running, Next
<1>4. ASSUME Running, NEW w \in Workers, work_thread(w) PROVE [Next]_vars
  BY <1>4, WorkStep DEF Running, Next
<1> QED BY <1>1, <1>2, <1>3, <1>4 DEF DetNext

---------------------------------------------------------------------------
(* Typing of the state machine *)

(* What write_n() has sent of a chunk is less than the chunk while it runs. *)
WritesWithin ==
  \A w \in Workers : work[w] \in {"write", "send"} => wrote[w] < CurrentChunk(w)

LEMMA ExecutorTyping ==
  ASSUME TypeOK, DetTypeOK, WritesWithin, NEW t \in Threads, execute_cmd_thread(t)
  PROVE  DetTypeOK' /\ WritesWithin'
<1> USE DEF DetTypeOK, WritesWithin, CurrentChunk, ExecPC, workVars, transferVars
<1>1. CASE TakeCommand(t)
  <2>1. Head(q_execute_cmd) \in StateCommands
    BY <1>1 DEF TakeCommand, get_state, TypeOK
  <2> QED BY <1>1, <2>1 DEF TakeCommand
<1>2. CASE DeleteState(t)
  BY <1>2 DEF DeleteState, Used
<1>3. CASE AssignState(t)
  BY <1>3 DEF AssignState, NewState
<1>4. CASE Dispatched(t)
  BY <1>4 DEF Dispatched, HandlerPC, Used
<1>5. CASE CloseSocket(t)
  BY <1>5 DEF CloseSocket
<1>6. CASE WaitForWork(t) \/ SetWorking(t) \/ DetachWork(t)
  BY <1>6 DEF WaitForWork, SetWorking, DetachWork, Used
<1>7. ASSUME NEW w \in Workers, StartWork(t, w) PROVE DetTypeOK' /\ WritesWithin'
  BY <1>7 DEF StartWork, WorkPC, Used
<1> QED
  BY <1>1, <1>2, <1>3, <1>4, <1>5, <1>6, <1>7 DEF execute_cmd_thread

LEMMA WorkTyping ==
  ASSUME TypeOK, DetTypeOK, WritesWithin, NEW w \in Workers, work_thread(w)
  PROVE  DetTypeOK' /\ WritesWithin'
<1> USE DEF DetTypeOK, WorkPC, executorVars, transferVars
<1>1. CASE SendPiece(w)
  <2>1. /\ wrote[w] \in Nat /\ CurrentChunk(w) \in Nat /\ wrote[w] < CurrentChunk(w)
        /\ remaining[w] \in 0..ImageSize /\ CurrentChunk(w) <= remaining[w]
        /\ CurrentChunk(w) <= ChunkSize
    BY <1>1, DetAssumption DEF SendPiece, WritesWithin, CurrentChunk
  <2>2. PICK k \in 1..(CurrentChunk(w) - wrote[w]) :
          IF wrote[w] + k < CurrentChunk(w)
          THEN /\ wrote' = [wrote EXCEPT ![w] = @ + k]
               /\ work' = [work EXCEPT ![w] = "write"]
               /\ UNCHANGED remaining
          ELSE /\ wrote' = [wrote EXCEPT ![w] = 0]
               /\ work' = [work EXCEPT ![w] = "test"]
               /\ remaining' = [remaining EXCEPT ![w] = @ - CurrentChunk(w)]
    BY <1>1 DEF SendPiece
  <2>3. /\ receivers' \in [Workers -> SUBSET Conns] /\ using' \in [Workers -> Handles]
        /\ UNCHANGED <<executorVars, wself, prbLocked, is_client_closed, is_working,
                       corrupted>>
    BY <1>1 DEF SendPiece, Refers, Handles
  <2>4. CASE wrote[w] + k < CurrentChunk(w)
    <3>1. /\ wrote' = [wrote EXCEPT ![w] = wrote[w] + k]
          /\ work' = [work EXCEPT ![w] = "write"] /\ remaining' = remaining
      BY <2>2, <2>4
    <3>2. wrote[w] + k \in 0..ChunkSize
      BY <2>1, <2>4, DetAssumption
    <3>3. DetTypeOK'
      BY <2>3, <3>1, <3>2
    <3>4. WritesWithin'
      BY <2>4, <3>1 DEF WritesWithin, CurrentChunk
    <3> QED BY <3>3, <3>4
  <2>5. CASE ~(wrote[w] + k < CurrentChunk(w))
    <3>1. /\ wrote' = [wrote EXCEPT ![w] = 0]
          /\ work' = [work EXCEPT ![w] = "test"]
          /\ remaining' = [remaining EXCEPT ![w] = remaining[w] - CurrentChunk(w)]
      BY <2>2, <2>5
    <3>2. remaining[w] - CurrentChunk(w) \in 0..ImageSize /\ 0 \in 0..ChunkSize
      BY <2>1, DetAssumption
    <3>3. DetTypeOK'
      BY <2>3, <3>1, <3>2
    <3>4. WritesWithin'
      BY <3>1 DEF WritesWithin, CurrentChunk
    <3> QED BY <3>3, <3>4
  <2> QED BY <2>4, <2>5
<1>2. CASE SendFails(w)
  <2>1. /\ wrote[w] \in Nat /\ remaining[w] \in 0..ImageSize
        /\ wrote[w] <= remaining[w]
    BY <1>2, DetAssumption DEF SendFails, WritesWithin, CurrentChunk
  <2>2. remaining[w] - wrote[w] \in 0..ImageSize /\ 0 \in 0..ChunkSize
    BY <2>1, DetAssumption
  <2>3. /\ remaining' = [remaining EXCEPT ![w] = remaining[w] - wrote[w]]
        /\ wrote' = [wrote EXCEPT ![w] = 0]
        /\ \E pc \in {"mark", "test"} : work' = [work EXCEPT ![w] = pc]
        /\ using' = [using EXCEPT ![w] = INVALID_SOCKET]
        /\ UNCHANGED <<executorVars, wself, receivers, prbLocked, is_client_closed,
                       is_working, corrupted>>
    BY <1>2 DEF SendFails
  <2>4. DetTypeOK'
    BY <2>2, <2>3 DEF Handles
  <2>5. WritesWithin'
    BY <2>3 DEF WritesWithin, CurrentChunk
  <2> QED BY <2>4, <2>5
<1>3. CASE BeginSend(w)
  BY <1>3, DetAssumption DEF BeginSend, WritesWithin, CurrentChunk
<1>4. CASE BeginChunk(w)
  BY <1>4, DetAssumption DEF BeginChunk, MoreToSend, WritesWithin, CurrentChunk
<1>5. CASE LoadSocket(w)
  BY <1>5 DEF LoadSocket, WritesWithin, CurrentChunk, TypeOK
<1>6. CASE AcquireImage(w) \/ MarkClosed(w) \/ SendLoopEnds(w) \/ LoopReturns(w)
  BY <1>6 DEF AcquireImage, MarkClosed, SendLoopEnds, LoopReturns, FlagOfClosedClient,
     WritesWithin, CurrentChunk
<1>7. CASE AfterSend(w) \/ Reconnect(w)
  BY <1>7 DEF AfterSend, Reconnect, WritesWithin, CurrentChunk
<1>8. CASE FinishWork(w) \/ LeaveWork(w)
  BY <1>8 DEF FinishWork, LeaveWork, FlagAfterWork, WritesWithin, CurrentChunk
<1> QED BY <1>1, <1>2, <1>3, <1>4, <1>5, <1>6, <1>7, <1>8 DEF work_thread

LEMMA DetTypingNext ==
  ASSUME TypeOK, DetTypeOK, WritesWithin, [DetNext]_detVars
  PROVE  TypeOK' /\ DetTypeOK' /\ WritesWithin'
<1>1. CASE UNCHANGED detVars \/ HandlerNext
  BY <1>1, DetStep, NextTypeOK
  DEF detVars, HandlerNext, executorVars, workVars, transferVars, DetTypeOK, WritesWithin,
      CurrentChunk
<1>2. ASSUME NEW t \in Threads, execute_cmd_thread(t) PROVE DetTypeOK' /\ WritesWithin'
  BY <1>2, ExecutorTyping
<1>3. ASSUME NEW w \in Workers, work_thread(w) PROVE DetTypeOK' /\ WritesWithin'
  BY <1>3, WorkTyping
<1>4. TypeOK'
  BY DetStep, NextTypeOK
<1> QED BY <1>1, <1>2, <1>3, <1>4 DEF DetNext

(* Every variable of the state machine stays in its range, for any number   *)
(* of executors, work threads and pieces: only pieces that are left are     *)
(* sent, only to a connection, and a handle is used that was loaded.        *)
THEOREM DetTyping == DetSpec => []DetTypeOK
<1>1. DetInit => TypeOK /\ DetTypeOK /\ WritesWithin
  <2> SUFFICES ASSUME DetInit PROVE TypeOK /\ DetTypeOK /\ WritesWithin
    OBVIOUS
  <2>1. /\ remaining \in [Workers -> 0..ImageSize] /\ wrote \in [Workers -> 0..ChunkSize]
        /\ receivers \in [Workers -> SUBSET Conns] /\ using \in [Workers -> Handles]
    BY DetAssumption DEF DetInit, Handles
  <2>2. /\ exec \in [Threads -> ExecPC] /\ work \in [Workers -> WorkPC]
        /\ fresh \in [Threads -> Objects \cup {null}]
        /\ self \in [Threads -> Objects \cup {null}]
        /\ objects \in [Objects -> StateCommands \cup {"free"}]
        /\ wself \in [Workers -> Objects \cup {null}]
    BY DEF DetInit, ExecPC, WorkPC
  <2>3. DetTypeOK
    BY <2>1, <2>2 DEF DetInit, DetTypeOK
  <2>4. WritesWithin
    BY DEF DetInit, WritesWithin
  <2> QED BY <2>3, <2>4, InitTypeOK DEF DetInit
<1>2. TypeOK /\ DetTypeOK /\ WritesWithin /\ [DetNext]_detVars
        => (TypeOK /\ DetTypeOK /\ WritesWithin)'
  BY DetTypingNext
<1> QED BY <1>1, <1>2, PTL DEF DetSpec

(* The composed server implements the specification of the handler.         *)
THEOREM Implements == DetSpec => HandlerSpec
<1>1. DetInit => Init
  BY DEF DetInit
<1>2. DetTypeOK /\ [DetNext]_detVars => [Next]_vars
  BY DetStep
<1> QED BY <1>1, <1>2, DetTyping, PTL DEF DetSpec, HandlerSpec, Spec

(* Hence the count, the current socket that only a close() meant for        *)
(* another connection closes, strict ownership while no swaps overlap, and  *)
(* the crowd of threads that never leaves are facts of the whole server.    *)
THEOREM ServerInvariants ==
  DetSpec => /\ [](TypeOK /\ NumberConserved /\ CurrentIsOpen /\ OwnershipUnlessOverlap)
             /\ CrowdStays
  BY Implements, Typing, CountConserved, SharedSocketOpen, OwnershipStrict,
     CrowdNeverShrinks, PTL
  DEF HandlerSpec

---------------------------------------------------------------------------
(* Until a second executor is started *)

(* Where an executor is and what it holds. *)
Holding(t) ==
  /\ exec[t] # "poll" => Started(t)
  /\ exec[t] \in {"delete", "assign"} => fresh[t] \in Objects /\ objects[fresh[t]] # "free"
  /\ exec[t] = "delete" => fresh[t] # current_state
  /\ exec[t] \in {"dispatch", "wait", "set", "start", "detach"} => current_state # null
  /\ exec[t] \in {"wait", "set", "start", "detach"} => self[t] = current_state

(* current_state dangles only between the delete and the assignment. *)
Dangles == current_state # null /\ objects[current_state] = "free"

Intact ==
  /\ TransitionsIntact
  /\ \A t \in Threads : Holding(t)
  /\ Dangles => \E t \in Threads : exec[t] = "assign"

(* The flag, the executor that is about to start work, the work thread and  *)
(* the failed acquisition exclude each other.                               *)
WorkAlone ==
  /\ WorkFlagAccounted
  /\ \A v, w \in Workers : InProgress(v) /\ InProgress(w) => v = w
  /\ \A w \in Workers : InProgress(w) => ~prbLocked
  /\ \A t \in Threads :
       /\ exec[t] = "set" => ~is_working
       /\ AboutToStart(t) => ~prbLocked /\ \A w \in Workers : ~InProgress(w)

(* The end of the transfer, when nobody else writes is_client_closed. *)
SendsAll ==
  \A w \in Workers : /\ work[w] \in {"test", "write", "send", "mark"} => is_client_closed
                     /\ work[w] = "after" /\ is_client_closed => remaining[w] = 0

SoleInv == OneExecutor => Intact /\ WorkAlone /\ SendsAll

(* A thread pair that was started stays so. *)
LEMMA StartedStays ==
  ASSUME TypeOK, DetTypeOK, [DetNext]_detVars
  PROVE  \A t \in Threads : Started(t) => Started(t)'
<1>1. [Next]_vars
  BY DetStep
<1>2. ASSUME NEW l \in Loops, handle_connections(l)
      PROVE  \A t \in Threads : Started(t) => Started(t)'
  BY <1>2 DEF handle_connections, AcceptConnection, AcceptFails, AcceptReturns,
     LoadOld, MoveAssign, DisposeOld, increment_number_connection, TestAccepted, start_threads, CheckSocket,
     parserVars, Started, TypeOK
<1>3. ASSUME NEW t \in Threads, handler_parse_msg_thread(t)
      PROVE  \A u \in Threads : Started(u) => Started(u)'
  BY <1>3 DEF handler_parse_msg_thread, LoadHandle, CallRecv, ReadBadDescriptor,
     ReadMessage, ReadEndOfFile, ReadReset, ReadReturns, Dispatch, LoadReply, Reply,
     CountTest,
     decrement_number_connection, Started, TypeOK
<1>4. CASE ClientNext \/ CallerNext \/ UNCHANGED vars
  BY <1>4 DEF ClientNext, Connect, Send, Leave, CallerNext, get_state, CloseTest,
     CloseLoad, CloseStore, CloseKernel, SocketWrite, EnterLoop, vars, parserVars, Started
<1> QED BY <1>1, <1>2, <1>3, <1>4 DEF Next

(* What a step of the handler, its clients and its threads leaves alone. *)
LEMMA HandlerSole ==
  ASSUME Intact, WorkAlone, SendsAll, TypeOK,
         UNCHANGED <<executorVars, workVars, is_working, corrupted>>,
         \A t \in Threads : Started(t) => Started(t)'
  PROVE  Intact' /\ WorkAlone' /\ SendsAll'
<1> USE DEF executorVars, workVars, transferVars
<1>1. Intact'
  BY DEF Intact, Holding, Dangles, TransitionsIntact
<1>2. WorkAlone'
  BY DEF WorkAlone, WorkFlagAccounted, InProgress, AboutToStart
<1>3. SendsAll'
  BY DEF SendsAll
<1> QED BY <1>1, <1>2, <1>3

(* The other executors have not been started. *)
LEMMA OthersPoll ==
  ASSUME OneExecutor, Intact, NEW t \in Threads, execute_cmd_thread(t),
         NEW u \in Threads, u # t
  PROVE  exec[u] = "poll"
<1>1. Started(t)
  <2>1. exec[t] = "poll" => Started(t)
    BY DEF execute_cmd_thread, TakeCommand, DeleteState, AssignState, Dispatched,
       CloseSocket, WaitForWork, SetWorking, StartWork, DetachWork
  <2> QED BY <2>1 DEF Intact, Holding
<1> QED BY <1>1 DEF OneExecutor, Intact, Holding

(* A step of the only executor: it deletes an object that nobody else has   *)
(* deleted, dispatches on the one it has just stored, and starts work in it *)
(* before it takes the next command.                                        *)
LEMMA ExecutorSole ==
  ASSUME OneExecutor, Intact, WorkAlone, SendsAll, TypeOK, DetTypeOK,
         NEW t \in Threads, execute_cmd_thread(t),
         \A u \in Threads : Started(u) => Started(u)'
  PROVE  Intact' /\ WorkAlone' /\ SendsAll'
<1>o. \A u \in Threads : u # t => exec[u] = "poll"
  BY OthersPoll
<1>s. Started(t)'
  <2>1. exec[t] = "poll" => Started(t)
    BY DEF execute_cmd_thread, TakeCommand, DeleteState, AssignState, Dispatched,
       CloseSocket, WaitForWork, SetWorking, StartWork, DetachWork
  <2> QED BY <2>1 DEF Intact, Holding
<1> USE DEF workVars, transferVars
<1>1. CASE TakeCommand(t)
  <2>1. Head(q_execute_cmd) \in StateCommands /\ "free" \notin StateCommands
    BY <1>1, DetAssumption DEF TakeCommand, get_state, TypeOK
  <2>2. Intact'
    BY <1>1, <2>1, <1>o, <1>s, DetAssumption
       DEF TakeCommand, Intact, Holding, Dangles, TransitionsIntact, DetTypeOK
  <2>3. WorkAlone'
    BY <1>1, <1>o DEF TakeCommand, WorkAlone, WorkFlagAccounted, InProgress, AboutToStart,
       DetTypeOK
  <2> QED BY <1>1, <2>2, <2>3 DEF TakeCommand, SendsAll
<1>2. CASE DeleteState(t)
  <2>1. Intact'
    BY <1>2, <1>o, <1>s, DetAssumption
       DEF DeleteState, Used, Intact, Holding, Dangles, TransitionsIntact, DetTypeOK
  <2>2. WorkAlone'
    BY <1>2, <1>o DEF DeleteState, WorkAlone, WorkFlagAccounted, InProgress, AboutToStart,
       DetTypeOK
  <2> QED BY <1>2, <2>1, <2>2 DEF DeleteState, SendsAll
<1>3. CASE AssignState(t)
  <2>1. Intact'
    BY <1>3, <1>o, <1>s, DetAssumption
       DEF AssignState, NewState, Intact, Holding, Dangles, TransitionsIntact, DetTypeOK
  <2>2. WorkAlone'
    BY <1>3, <1>o DEF AssignState, WorkAlone, WorkFlagAccounted, InProgress, AboutToStart,
       DetTypeOK
  <2> QED BY <1>3, <2>1, <2>2 DEF AssignState, SendsAll
<1>4. CASE Dispatched(t)
  <2>1. exec'[t] \in {"wait", "close", "poll"}
    BY <1>4 DEF Dispatched, HandlerPC, DetTypeOK
  <2>2. exec'[t] = "wait" => objects[current_state] = "WORK"
    BY <1>4 DEF Dispatched, HandlerPC, DetTypeOK
  <2>3. Intact'
    BY <1>4, <2>1, <2>2, <1>o, <1>s, DetAssumption
       DEF Dispatched, Used, Intact, Holding, Dangles, TransitionsIntact, DetTypeOK
  <2>4. WorkAlone'
    BY <1>4, <2>1, <1>o DEF Dispatched, WorkAlone, WorkFlagAccounted, InProgress,
       AboutToStart, DetTypeOK
  <2> QED BY <1>4, <2>3, <2>4 DEF Dispatched, SendsAll
<1>5. CASE CloseSocket(t)
  <2>1. exec'[t] \in {"closing", "poll"} /\ exec[t] \in {"close", "closing"}
        /\ exec' = [exec EXCEPT ![t] = exec'[t]]
        /\ UNCHANGED <<fresh, self, objects, current_state, workVars, is_working, corrupted>>
    BY <1>5 DEF CloseSocket, DetTypeOK
  <2>2. Intact'
    BY <2>1, <1>o, <1>s DEF Intact, Holding, Dangles, TransitionsIntact, DetTypeOK
  <2>3. WorkAlone'
    BY <2>1, <1>o DEF WorkAlone, WorkFlagAccounted, InProgress, AboutToStart, DetTypeOK
  <2> QED BY <2>1, <2>2, <2>3 DEF SendsAll
<1>6. CASE WaitForWork(t)
  <2>1. Intact'
    BY <1>6, <1>o, <1>s DEF WaitForWork, Intact, Holding, Dangles, TransitionsIntact, DetTypeOK
  <2>2. WorkAlone'
    BY <1>6, <1>o DEF WaitForWork, WorkMayStart, WorkAlone, WorkFlagAccounted, InProgress,
       AboutToStart, DetTypeOK
  <2> QED BY <1>6, <2>1, <2>2 DEF WaitForWork, SendsAll
<1>7. CASE SetWorking(t)
  <2>1. Intact'
    BY <1>7, <1>o, <1>s DEF SetWorking, Intact, Holding, Dangles, TransitionsIntact, DetTypeOK
  <2>2. WorkAlone'
    BY <1>7, <1>o DEF SetWorking, WorkAlone, WorkFlagAccounted, InProgress, AboutToStart,
       DetTypeOK
  <2> QED BY <1>7, <2>1, <2>2 DEF SetWorking, SendsAll
<1>8. ASSUME NEW w \in Workers, StartWork(t, w)
      PROVE  Intact' /\ WorkAlone' /\ SendsAll'
  <2>1. Intact'
    BY <1>8, <1>o, <1>s DEF StartWork, Used, Intact, Holding, Dangles, TransitionsIntact, DetTypeOK
  <2>2. WorkAlone'
    BY <1>8, <1>o DEF StartWork, WorkAlone, WorkFlagAccounted, InProgress, AboutToStart,
       DetTypeOK
  <2>3. SendsAll'
    BY <1>8 DEF StartWork, SendsAll, DetTypeOK
  <2> QED BY <2>1, <2>2, <2>3
<1>9. CASE DetachWork(t)
  <2>1. Intact'
    BY <1>9, <1>o, <1>s DEF DetachWork, Used, Intact, Holding, Dangles, TransitionsIntact, DetTypeOK
  <2>2. WorkAlone'
    BY <1>9, <1>o DEF DetachWork, WorkAlone, WorkFlagAccounted, InProgress, AboutToStart,
       DetTypeOK
  <2> QED BY <1>9, <2>1, <2>2 DEF DetachWork, SendsAll
<1> QED
  BY <1>1, <1>2, <1>3, <1>4, <1>5, <1>6, <1>7, <1>8, <1>9 DEF execute_cmd_thread

(* A step of the only work thread: the others have left or have not been    *)
(* started, and while it runs nobody is about to start one.                 *)
LEMMA WorkSole ==
  ASSUME Intact, WorkAlone, SendsAll, DetTypeOK, Running, NEW w \in Workers,
         work_thread(w), \A u \in Threads : Started(u) => Started(u)'
  PROVE  Intact' /\ WorkAlone' /\ SendsAll'
<1>1. Intact'
  <2>1. UNCHANGED executorVars /\ corrupted' # "transition"
    BY DEF work_thread, AcquireImage, BeginSend, BeginChunk, LoadSocket, SendPiece,
       SendFails, MarkClosed, SendLoopEnds, AfterSend, Reconnect, LoopReturns, FinishWork,
       LeaveWork, Running
  <2> QED BY <2>1 DEF executorVars, Intact, Holding, Dangles, TransitionsIntact
<1>2. CASE LeaveWork(w)
  <2>1. \A v \in Workers : InProgress(v)' <=> InProgress(v)
    BY <1>2 DEF LeaveWork, InProgress, DetTypeOK
  <2>2. WorkAlone'
    BY <1>2, <2>1 DEF LeaveWork, WorkAlone, WorkFlagAccounted, AboutToStart, executorVars
  <2>3. SendsAll'
    BY <1>2 DEF LeaveWork, SendsAll, DetTypeOK, transferVars
  <2> QED BY <1>1, <2>2, <2>3
<1>3. CASE ~LeaveWork(w)
  <2>a. InProgress(w)
    BY <1>3 DEF work_thread, AcquireImage, BeginSend, BeginChunk, LoadSocket, SendPiece,
       SendFails, MarkClosed, SendLoopEnds, AfterSend, Reconnect, LoopReturns, FinishWork,
       InProgress
  <2>b. /\ is_working /\ ~prbLocked
        /\ \A v \in Workers : v # w => ~InProgress(v)
        /\ \A t \in Threads : exec[t] \notin {"set", "start"}
    BY <2>a DEF WorkAlone, WorkFlagAccounted, InProgress, AboutToStart
  <2> USE <2>b DEF WorkAlone, WorkFlagAccounted, InProgress, AboutToStart, SendsAll,
                   DetTypeOK, executorVars, transferVars
  <2>1. CASE AcquireImage(w)
    BY <1>1, <2>1 DEF AcquireImage
  <2>2. CASE BeginSend(w)
    BY <1>1, <2>2 DEF BeginSend
  <2>2a. CASE BeginChunk(w)
    BY <1>1, <2>2a DEF BeginChunk
  <2>2b. CASE LoadSocket(w)
    BY <1>1, <2>2b DEF LoadSocket
  <2>3. CASE SendPiece(w) \/ SendFails(w)
    <3>1. /\ work[w] = "send"
          /\ \E pc \in {"write", "test", "mark"} : work' = [work EXCEPT ![w] = pc]
          /\ UNCHANGED <<executorVars, prbLocked, is_client_closed, is_working>>
          /\ \A v \in Workers : v # w => remaining'[v] = remaining[v]
      BY <2>3 DEF SendPiece, SendFails
    <3> QED BY <1>1, <3>1
  <2>4. CASE MarkClosed(w)
    BY <1>1, <2>4 DEF MarkClosed, FlagOfClosedClient
  <2>5. CASE SendLoopEnds(w)
    BY <1>1, <2>5 DEF SendLoopEnds, MoreToSend
  <2>6. CASE AfterSend(w)
    BY <1>1, <2>6 DEF AfterSend
  <2>6a. CASE Reconnect(w)
    BY <1>1, <2>6a DEF Reconnect
  <2>7. CASE LoopReturns(w)
    BY <1>1, <2>7 DEF LoopReturns
  <2>8. CASE FinishWork(w)
    BY <1>1, <2>8 DEF FinishWork, FlagAfterWork
  <2> QED
    BY <1>3, <2>1, <2>2, <2>2a, <2>2b, <2>3, <2>4, <2>5, <2>6, <2>6a, <2>7, <2>8 DEF work_thread
<1> QED BY <1>2, <1>3

LEMMA SoleNext == TypeOK /\ DetTypeOK /\ SoleInv /\ [DetNext]_detVars => SoleInv'
<1> SUFFICES ASSUME TypeOK, DetTypeOK, SoleInv, [DetNext]_detVars, OneExecutor'
             PROVE  (Intact /\ WorkAlone /\ SendsAll)'
  BY DEF SoleInv
<1>1. \A t \in Threads : Started(t) => Started(t)'
  BY StartedStays
<1>2. OneExecutor /\ Intact /\ WorkAlone /\ SendsAll
  BY <1>1 DEF OneExecutor, SoleInv
<1>3. CASE UNCHANGED detVars \/ HandlerNext
  BY <1>1, <1>2, <1>3, HandlerSole DEF detVars, HandlerNext
<1>4. ASSUME NEW t \in Threads, execute_cmd_thread(t)
      PROVE  (Intact /\ WorkAlone /\ SendsAll)'
  BY <1>1, <1>2, <1>4, ExecutorSole
<1>5. ASSUME Running, NEW w \in Workers, work_thread(w)
      PROVE  (Intact /\ WorkAlone /\ SendsAll)'
  BY <1>1, <1>2, <1>5, WorkSole
<1> QED BY <1>3, <1>4, <1>5 DEF DetNext

LEMMA Sole == DetSpec => []SoleInv
<1>1. DetInit => SoleInv
  BY DEF DetInit, SoleInv, Intact, Holding, Dangles, TransitionsIntact, WorkAlone,
     WorkFlagAccounted, InProgress, AboutToStart, SendsAll
<1> QED BY <1>1, SoleNext, DetTyping, ServerInvariants, PTL DEF DetSpec

(* As long as one client has been served, no transition deletes, dispatches *)
(* on or starts a thread in a state object that was freed: one executor     *)
(* handles a command before it takes the next.  The second executor breaks  *)
(* it; the last write of a work thread to its own object is not in it.      *)
THEOREM OneExecutorIntact == DetSpec => [](OneExecutor => TransitionsIntact)
<1>1. SoleInv => (OneExecutor => TransitionsIntact)
  BY DEF SoleInv, Intact
<1> QED BY <1>1, Sole, PTL

(* So long, is_working is set exactly while a work thread runs, is about to *)
(* be started, or has died in a failed acquisition: the test and the set of *)
(* WorkState::handle() need no lock against a work thread.                  *)
THEOREM OneExecutorFlag == DetSpec => [](OneExecutor => WorkFlagAccounted)
<1>1. SoleInv => (OneExecutor => WorkFlagAccounted)
  BY DEF SoleInv, WorkAlone
<1> QED BY <1>1, Sole, PTL

(* And one image at a time is acquired and sent, however many work threads  *)
(* there could be.                                                          *)
THEOREM OneExecutorOneWork == DetSpec => [](OneExecutor => OneWorkAtATime)
<1>1. SoleInv => (OneExecutor => OneWorkAtATime)
  <2> SUFFICES ASSUME WorkAlone PROVE OneWorkAtATime
    BY DEF SoleInv
  <2> DEFINE W == {w \in Workers : InProgress(w)}
  <2>1. CASE W = {}
    BY <2>1, FS_EmptySet DEF OneWorkAtATime
  <2>2. CASE W # {}
    <3>1. PICK w : w \in W
      BY <2>2
    <3>2. W = {w}
      BY <3>1 DEF WorkAlone
    <3>3. Cardinality({w}) = 1
      BY FS_Singleton
    <3> QED BY <3>2, <3>3 DEF OneWorkAtATime
  <2> QED BY <2>1, <2>2
<1> QED BY <1>1, Sole, PTL

(* And a transfer that was not marked as failed has sent every piece of the *)
(* image when it leaves its loop.                                           *)
THEOREM OneExecutorComplete == DetSpec => [](OneExecutor => CompleteUnlessFailed)
<1>1. SoleInv => (OneExecutor => CompleteUnlessFailed)
  BY DEF SoleInv, SendsAll, CompleteUnlessFailed
<1> QED BY <1>1, Sole, PTL

(* What is proved of the handler with its swaps one at a time holds of the  *)
(* server with its work threads, each of which may run a swap of its own.   *)
THEOREM ServerLosesByStaleClose == DetSpec /\ []OneSwap => []LostOnlyByStaleClose
BY Implements, LostByStaleClose, PTL DEF HandlerSpec
===============================================================================
