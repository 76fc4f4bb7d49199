------------------------------- MODULE DET_State -------------------------------
(***************************************************************************)
(* The state machine of the detector on top of Mgard300_Handler: the       *)
(* execute_cmd_thread of every thread pair takes commands from the queue   *)
(* and moves the handler to a new state object; WorkState::handle() starts *)
(* a detached work thread that acquires an image and sends it.             *)
(*                                                                         *)
(* Executor t is the second thread of pair t: it exists once its packet    *)
(* analysis thread was started, and never ends.  Work thread w is also the *)
(* accept loop w of Mgard300_Handler, for when its transfer fails.         *)
(*                                                                         *)
(* A freed state object that is used may do anything: the model stops      *)
(* there, with the culprit in corrupted.                                   *)
(***************************************************************************)
EXTENDS Mgard300_Handler

CONSTANTS
    Workers,      \* ids of work threads
    Objects,      \* addresses that hold state objects
    null,         \* nullptr
    IMX8_SOM,     \* TRUE: the build with the PRB driver; FALSE: the simulator
    ImageSize,    \* bound: pieces of an image; a piece is the least send() takes
    ChunkSize     \* pieces of a chunk

ASSUME DetAssumption ==
    /\ StateCommands \subseteq {"SLEEP", "WORK", "CLOSE", "TRIGGER"}
    /\ Loops = Workers \cup {main} /\ main \notin Workers
    /\ null \notin Objects
    /\ IMX8_SOM \in BOOLEAN
    /\ ImageSize \in Nat \ {0} /\ ChunkSize \in Nat \ {0}

VARIABLES
    exec,              \* program counters of the executors
    fresh,             \* state object each of them has just allocated
    self,              \* "this" of the handle() each of them is in
    objects,           \* "free", or the class of the object at an address
    current_state,
    is_working,
    is_client_closed,  \* TRUE while the client is NOT known to be closed
    work,              \* program counters of the work threads
    wself,             \* state object each of them was started from
    remaining,         \* pieces of the image each of them has still to send
    wrote,             \* pieces of a chunk its write_n() has sent
    using,             \* handle that write_n() has loaded
    prbLocked,         \* the mutex of PRB_IMG was left locked
    corrupted,         \* "transition" or "work": who used a freed state object
    receivers          \* history: the connections the image of w went to

executorVars == <<exec, fresh, self, objects, current_state>>
transferVars == <<remaining, wrote, using, receivers>>
workVars     == <<work, wself, prbLocked, is_client_closed, transferVars>>
detVars      == <<vars, executorVars, workVars, is_working, corrupted>>

Running == handlerAlive /\ corrupted = "no"
Started(t) == parser[t] # "none"

DetInit ==
    /\ Init
    /\ exec = [t \in Threads |-> "poll"]
    /\ fresh = [t \in Threads |-> null]
    /\ self = [t \in Threads |-> null]
    /\ objects = [o \in Objects |-> "free"]
    /\ current_state = null
    /\ is_working = FALSE
    /\ is_client_closed \in BOOLEAN            \* the member is never initialised
    /\ work = [w \in Workers |-> "none"]
    /\ wself = [w \in Workers |-> null]
    /\ remaining = [w \in Workers |-> 0]
    /\ wrote = [w \in Workers |-> 0]
    /\ using = [w \in Workers |-> INVALID_SOCKET]
    /\ prbLocked = FALSE
    /\ corrupted = "no"
    /\ receivers = [w \in Workers |-> {}]

---------------------------------------------------------------------------
(* Mistakes that the properties must catch, as in Mgard300_Handler. *)

WaitForgotten       == TRUE
FlagNeverCleared    == is_working
PointerKept(t)      == IF current_state = null THEN fresh[t] ELSE current_state
WholeChunk(w)       == ChunkSize
FlagInverted        == TRUE
SocketDropped(w)    ==
    /\ FALSE \in WriteResults(using[w])
    /\ current_socket' = [handle_ |-> INVALID_SOCKET, lastErr_ |-> TRUE]
    /\ UNCHANGED <<number_connection, q_execute_cmd, handlerAlive, loopVars,
                   parserVars, clientVars, closeVars, fdVars, historyVars>>

---------------------------------------------------------------------------
(* execute_cmd_thread() and transition_to_state(), executor t *)

(* get_state() returns a command, and an object of its class is allocated. *)
TakeCommand(t) ==
    /\ exec[t] = "poll"
    /\ Started(t)
    /\ get_state
    /\ \E o \in Objects :
        /\ objects[o] = "free"
        /\ objects' = [objects EXCEPT ![o] = Head(q_execute_cmd)]
        /\ fresh' = [fresh EXCEPT ![t] = o]
    /\ exec' = [exec EXCEPT ![t] = "delete"]
    /\ UNCHANGED <<self, current_state, workVars, is_working, corrupted>>

Used(o) == IF objects[o] = "free" THEN "transition" ELSE corrupted

(* "if (current_state != nullptr) delete current_state", without a lock *)
DeleteState(t) ==
    /\ exec[t] = "delete"
    /\ exec' = [exec EXCEPT ![t] = "assign"]
    /\ IF current_state = null
       THEN UNCHANGED <<objects, corrupted>>
       ELSE /\ corrupted' = Used(current_state)
            /\ objects' = [objects EXCEPT ![current_state] = "free"]
    /\ UNCHANGED <<vars, fresh, self, current_state, workVars, is_working>>

NewState(t) == fresh[t]
AssignState(t) ==
    /\ exec[t] = "assign"
    /\ exec' = [exec EXCEPT ![t] = "dispatch"]
    /\ current_state' = NewState(t)
    /\ fresh' = [fresh EXCEPT ![t] = null]
    /\ UNCHANGED <<vars, self, objects, workVars, is_working, corrupted>>

(* current_state->handle(): the pointer is read again.  SleepState and     *)
(* TriggerState only log.                                                  *)
HandlerPC(class) == CASE class = "WORK"  -> "wait"
                      [] class = "CLOSE" -> "close"
                      [] OTHER           -> "poll"
Dispatched(t) ==
    /\ exec[t] = "dispatch"
    /\ corrupted' = Used(current_state)
    /\ exec' = [exec EXCEPT ![t] = HandlerPC(objects[current_state])]
    /\ self' = [self EXCEPT ![t] = IF objects[current_state] = "WORK"
                                   THEN current_state ELSE null]
    /\ UNCHANGED <<vars, fresh, objects, current_state, workVars, is_working>>

(* CloseState::handle() *)
CloseSocket(t) ==
    /\ \/ exec[t] = "close" /\ CloseTest /\ exec' = [exec EXCEPT ![t] = "closing"]
       \/ /\ exec[t] = "close"
          /\ MutexFree /\ current_socket.handle_ = INVALID_SOCKET
          /\ exec' = [exec EXCEPT ![t] = "poll"]
          /\ UNCHANGED vars
       \/ exec[t] = "closing" /\ (CloseLoad \/ CloseStore) /\ UNCHANGED exec
       \/ exec[t] = "closing" /\ CloseKernel /\ exec' = [exec EXCEPT ![t] = "poll"]
    /\ UNCHANGED <<fresh, self, objects, current_state, workVars, is_working,
                   corrupted>>

(* WorkState::handle(): waits until no work is under way, then sets the    *)
(* flag: a test and a set that another executor may come between.          *)
WorkMayStart == ~is_working
WaitForWork(t) ==
    /\ exec[t] = "wait" /\ MutexFree
    /\ WorkMayStart
    /\ exec' = [exec EXCEPT ![t] = "set"]
    /\ UNCHANGED <<vars, fresh, self, objects, current_state, workVars,
                   is_working, corrupted>>

SetWorking(t) ==
    /\ exec[t] = "set" /\ MutexFree
    /\ exec' = [exec EXCEPT ![t] = "start"]
    /\ is_working' = TRUE
    /\ UNCHANGED <<vars, fresh, self, objects, current_state, workVars,
                   corrupted>>

(* The new thread is moved into a member of the object: freed memory if    *)
(* another transition deleted it, std::terminate() if the member still     *)
(* holds a thread that was not detached yet.                               *)
StartWork(t, w) ==
    /\ exec[t] = "start"
    /\ work[w] = "none"
    /\ exec' = [exec EXCEPT ![t] = "detach"]
    /\ work' = [work EXCEPT ![w] = "acquire"]
    /\ wself' = [wself EXCEPT ![w] = self[t]]
    /\ corrupted' = IF \E u \in Threads : exec[u] = "detach" /\ self[u] = self[t]
                    THEN "transition" ELSE Used(self[t])
    /\ UNCHANGED <<vars, fresh, self, objects, current_state, prbLocked,
                   is_client_closed, transferVars, is_working>>

DetachWork(t) ==
    /\ exec[t] = "detach"
    /\ exec' = [exec EXCEPT ![t] = "poll"]
    /\ self' = [self EXCEPT ![t] = null]
    /\ corrupted' = Used(self[t])
    /\ UNCHANGED <<vars, fresh, objects, current_state, workVars, is_working>>

execute_cmd_thread(t) ==
    \/ TakeCommand(t)
    \/ DeleteState(t)
    \/ AssignState(t)
    \/ Dispatched(t)
    \/ CloseSocket(t)
    \/ WaitForWork(t)
    \/ SetWorking(t)
    \/ \E w \in Workers : StartWork(t, w)
    \/ DetachWork(t)

---------------------------------------------------------------------------
(* The work thread w: acquire an image, send it, clear the flag *)

(* IMG_acquire(): a failed VIDIOC_DQBUF returns with the mutex locked, and *)
(* the work thread then returns with is_working set.  The simulator fills  *)
(* the buffer and cannot fail.                                             *)
AcquireImage(w) ==
    /\ work[w] = "acquire"
    /\ ~prbLocked
    /\ \/ work' = [work EXCEPT ![w] = "begin"] /\ UNCHANGED prbLocked
       \/ IMX8_SOM /\ work' = [work EXCEPT ![w] = "none"] /\ prbLocked' = TRUE
    /\ UNCHANGED <<vars, executorVars, wself, is_client_closed, transferVars,
                   is_working, corrupted>>

(* send_data_to_client() *)
BeginSend(w) ==
    /\ work[w] = "begin" /\ MutexFree
    /\ work' = [work EXCEPT ![w] = "test"]
    /\ remaining' = [remaining EXCEPT ![w] = ImageSize]
    /\ receivers' = [receivers EXCEPT ![w] = {}]
    /\ is_client_closed' = TRUE
    /\ UNCHANGED <<vars, executorVars, wself, wrote, using, prbLocked,
                   is_working, corrupted>>

MoreToSend(w) == remaining[w] > 0 /\ is_client_closed
BeginChunk(w) ==
    /\ work[w] = "test" /\ MutexFree
    /\ MoreToSend(w)
    /\ work' = [work EXCEPT ![w] = "write"]
    /\ wrote' = [wrote EXCEPT ![w] = 0]
    /\ UNCHANGED <<vars, executorVars, wself, remaining, using, receivers,
                   prbLocked, is_client_closed, is_working, corrupted>>

(* write_n() loads the handle of the shared socket for every send(). *)
LoadSocket(w) ==
    /\ work[w] = "write"
    /\ work' = [work EXCEPT ![w] = "send"]
    /\ using' = [using EXCEPT ![w] = current_socket.handle_]
    /\ UNCHANGED <<vars, executorVars, wself, remaining, wrote, receivers,
                   prbLocked, is_client_closed, is_working, corrupted>>

(* send() takes k pieces; write_n() returns when it has sent the chunk. *)
CurrentChunk(w) == IF ChunkSize < remaining[w] THEN ChunkSize ELSE remaining[w]
SendPiece(w) ==
    /\ work[w] = "send"
    /\ SocketWrite(using[w], TRUE)
    /\ receivers' = [receivers EXCEPT ![w] = @ \cup Refers(using[w])]
    /\ using' = [using EXCEPT ![w] = INVALID_SOCKET]
    /\ \E k \in 1..(CurrentChunk(w) - wrote[w]) :
        IF wrote[w] + k < CurrentChunk(w)
        THEN /\ wrote' = [wrote EXCEPT ![w] = @ + k]
             /\ work' = [work EXCEPT ![w] = "write"]
             /\ UNCHANGED remaining
        ELSE /\ wrote' = [wrote EXCEPT ![w] = 0]
             /\ work' = [work EXCEPT ![w] = "test"]
             /\ remaining' = [remaining EXCEPT ![w] = @ - CurrentChunk(w)]
    /\ UNCHANGED <<executorVars, wself, prbLocked, is_client_closed, is_working,
                   corrupted>>

(* send() fails: write_n() returns what it has sent before, and the loop    *)
(* goes on with the rest on whatever is current; it returns -1 if that is   *)
(* nothing.                                                                 *)
WriteFails(w) == SocketWrite(using[w], FALSE)
SendFails(w) ==
    /\ work[w] = "send"
    /\ WriteFails(w)
    /\ using' = [using EXCEPT ![w] = INVALID_SOCKET]
    /\ remaining' = [remaining EXCEPT ![w] = @ - wrote[w]]
    /\ wrote' = [wrote EXCEPT ![w] = 0]
    /\ work' = [work EXCEPT ![w] = IF wrote[w] = 0 THEN "mark" ELSE "test"]
    /\ UNCHANGED <<executorVars, wself, receivers, prbLocked, is_client_closed,
                   is_working, corrupted>>

FlagOfClosedClient == FALSE
MarkClosed(w) ==
    /\ work[w] = "mark" /\ MutexFree
    /\ work' = [work EXCEPT ![w] = "after"]
    /\ is_client_closed' = FlagOfClosedClient
    /\ UNCHANGED <<vars, executorVars, wself, prbLocked, transferVars,
                   is_working, corrupted>>

SendLoopEnds(w) ==
    /\ work[w] = "test"
    /\ remaining[w] > 0 => MutexFree
    /\ ~MoreToSend(w)
    /\ work' = [work EXCEPT ![w] = "after"]
    /\ UNCHANGED <<vars, executorVars, wself, prbLocked, is_client_closed,
                   transferVars, is_working, corrupted>>

(* After a failed write the work thread becomes an accept loop; the rest   *)
(* of the image is not sent.                                               *)
AfterSend(w) ==
    /\ work[w] = "after" /\ MutexFree
    /\ work' = [work EXCEPT ![w] = IF is_client_closed THEN "finish" ELSE "reconnect"]
    /\ UNCHANGED <<vars, executorVars, wself, prbLocked, is_client_closed,
                   transferVars, is_working, corrupted>>

Reconnect(w) ==
    /\ work[w] = "reconnect" /\ MutexFree
    /\ work' = [work EXCEPT ![w] = "looping"]
    /\ is_client_closed' = TRUE
    /\ EnterLoop(w)
    /\ UNCHANGED <<executorVars, wself, prbLocked, transferVars, is_working,
                   corrupted>>

LoopReturns(w) ==
    /\ work[w] = "looping"
    /\ loop[w] = "off"
    /\ work' = [work EXCEPT ![w] = "finish"]
    /\ UNCHANGED <<vars, executorVars, wself, prbLocked, is_client_closed,
                   transferVars, is_working, corrupted>>

FlagAfterWork == FALSE
FinishWork(w) ==
    /\ work[w] = "finish" /\ MutexFree
    /\ work' = [work EXCEPT ![w] = "leave"]
    /\ is_working' = FlagAfterWork
    /\ UNCHANGED <<vars, executorVars, wself, prbLocked, is_client_closed,
                   transferVars, corrupted>>

(* Then it locks a mutex of its state object and writes two of its members, *)
(* which nobody reads.  A later transition may have deleted the object; its *)
(* address may be that of another one by now, which is harmless if that is  *)
(* a WorkState as well.                                                     *)
LeaveWork(w) ==
    /\ work[w] = "leave"
    /\ work' = [work EXCEPT ![w] = "none"]
    /\ wself' = [wself EXCEPT ![w] = null]
    /\ corrupted' = IF objects[wself[w]] = "WORK" THEN corrupted ELSE "work"
    /\ UNCHANGED <<vars, executorVars, prbLocked, is_client_closed,
                   transferVars, is_working>>

work_thread(w) ==
    \/ AcquireImage(w)
    \/ BeginSend(w)
    \/ BeginChunk(w)
    \/ LoadSocket(w)
    \/ SendPiece(w)
    \/ SendFails(w)
    \/ MarkClosed(w)
    \/ SendLoopEnds(w)
    \/ AfterSend(w)
    \/ Reconnect(w)
    \/ LoopReturns(w)
    \/ FinishWork(w)
    \/ LeaveWork(w)

---------------------------------------------------------------------------
HandlerNext ==
    /\ \/ ClientNext
       \/ \E l \in Loops : handle_connections(l)
       \/ \E t \in Threads : handler_parse_msg_thread(t)
    /\ UNCHANGED <<executorVars, workVars, is_working, corrupted>>

DetNext ==
    /\ Running
    /\ \/ HandlerNext
       \/ \E t \in Threads : execute_cmd_thread(t)
       \/ \E w \in Workers : work_thread(w)

DetSpec == DetInit /\ [][DetNext]_detVars

(* Every thread is scheduled; a client that stays reads what it is sent, so *)
(* that a write to it returns.                                              *)
HandlerStep(A) == Running /\ A /\ UNCHANGED <<executorVars, workVars, is_working, corrupted>>
DetFairness ==
    /\ \A l \in Loops : WF_detVars(HandlerStep(handle_connections(l)))
    /\ \A t \in Threads : WF_detVars(HandlerStep(handler_parse_msg_thread(t)))
    /\ \A t \in Threads : WF_detVars(Running /\ execute_cmd_thread(t))
    /\ \A w \in Workers : WF_detVars(Running /\ work_thread(w))

DetFairSpec == DetSpec /\ DetFairness

---------------------------------------------------------------------------
(* Properties *)

ExecPC == {"poll", "delete", "assign", "dispatch", "close", "closing", "wait", "set",
           "start", "detach"}
WorkPC == {"none", "acquire", "begin", "test", "write", "send", "mark", "after",
           "reconnect", "looping", "finish", "leave"}

(* Every variable of the state machine stays in its range. *)
DetTypeOK ==
    /\ exec \in [Threads -> ExecPC]
    /\ fresh \in [Threads -> Objects \cup {null}]
    /\ self \in [Threads -> Objects \cup {null}]
    /\ objects \in [Objects -> StateCommands \cup {"free"}]
    /\ current_state \in Objects \cup {null}
    /\ is_working \in BOOLEAN
    /\ is_client_closed \in BOOLEAN
    /\ work \in [Workers -> WorkPC]
    /\ wself \in [Workers -> Objects \cup {null}]
    /\ remaining \in [Workers -> 0..ImageSize]
    /\ wrote \in [Workers -> 0..ChunkSize]
    /\ using \in [Workers -> Handles]
    /\ prbLocked \in BOOLEAN
    /\ corrupted \in {"no", "transition", "work"}
    /\ receivers \in [Workers -> SUBSET Conns]

InProgress(w) == work[w] \notin {"none", "leave"}
AboutToStart(t) == exec[t] = "start"

(* "Set the flag to indicate that work is in progress": is_working is set   *)
(* exactly while a work thread runs or is about to be started.  Refuted by  *)
(* the code.                                                                *)
WorkFlagMeaning ==
    is_working <=> \/ \E w \in Workers : InProgress(w)
                   \/ \E t \in Threads : AboutToStart(t)

(* What holds until a second executor is started, that is, while one client *)
(* has been served.                                                         *)
OneExecutor == \A t, u \in Threads : Started(t) /\ Started(u) => t = u

(* The flag is then also set, and for ever, after an acquisition that       *)
(* failed and left the mutex of PRB_IMG locked.                             *)
WorkFlagAccounted ==
    is_working <=> \/ \E w \in Workers : InProgress(w)
                   \/ \E t \in Threads : AboutToStart(t)
                   \/ prbLocked

(* One image is acquired and sent at a time: two work threads would share   *)
(* is_client_closed, the socket and the image buffer.                       *)
OneWorkAtATime == Cardinality({w \in Workers : InProgress(w)}) <= 1

(* transition_to_state() never deletes, dispatches on or starts a thread in *)
(* a state object that was freed before.  (A work thread may write to its   *)
(* own after a later transition has deleted it.)                            *)
TransitionsIntact == corrupted # "transition"

(* Unless a write failed, the transfer leaves its loop only with nothing    *)
(* left to send: no other thread may end it through is_client_closed.       *)
CompleteUnlessFailed ==
    \A w \in Workers : (work[w] = "after" /\ is_client_closed) => remaining[w] = 0

(* The handler with the real state machine and work threads does only what  *)
(* Mgard300_Handler allows its callers.                                     *)
HandlerSpec == Spec

(* In the simulator a WORK command of a client that stays connected, and    *)
(* that no other client replaces, ends in the whole image sent to it, if no *)
(* work thread writes to a deleted state object meanwhile.                  *)
Undisturbed == \A c \in Conns : peer[c] \in {"away", "up"}
ImageDelivered ==
    [](Undisturbed /\ corrupted = "no") =>
        \A t \in Threads :
            (exec[t] = "wait") ~> (\E w \in Workers :
                                      /\ work[w] = "finish"
                                      /\ remaining[w] = 0
                                      /\ receivers[w] = {current_socket.handle_})

===============================================================================
