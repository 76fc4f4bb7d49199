---------------------------- MODULE Mgard300_Handler ----------------------------
(***************************************************************************)
(* The detector server on port 1024: class Mgard300_Handler, one object    *)
(* shared without a common lock by                                         *)
(*                                                                         *)
(*   - the accept loop handle_connections(), run by the main thread and,   *)
(*     recursively, by a work thread whose image transfer failed;          *)
(*   - one packet analysis thread (handler_parse_msg_thread) for each      *)
(*     accepted connection: a detached thread that nobody can stop;        *)
(*   - the callers of get_state(), close_socket() and of the writes to     *)
(*     current_socket (module DET_State says who they are; here anybody    *)
(*     may call them at any time).                                         *)
(*                                                                         *)
(* A system call or an access to a shared member is one step.  Logging and *)
(* the sleeps between steps only let time pass and are left out.           *)
(*                                                                         *)
(* The program knows a connection by the number of its descriptor, and the *)
(* kernel gives a number out again once it is closed.  A handle is written *)
(* here as the connection it was loaded for, and number is the descriptor  *)
(* number of each: every use of a handle goes to the connection that has   *)
(* its number by then (Refers), which may be another or none.              *)
(*                                                                         *)
(* After the handler object is destroyed under its running threads nothing *)
(* more is said.                                                           *)
(***************************************************************************)
EXTENDS Integers, Sequences, FiniteSets

CONSTANTS
    Conns,            \* connections clients may open to port 1024
    Numbers,          \* descriptor numbers the kernel may give them
    none,             \* the number of a connection not accepted yet
    Threads,          \* ids of the thread pairs the accept loops start
    Loops,            \* threads that may run handle_connections()
    main,             \* the one that main.cpp starts
    INVALID_SOCKET,   \* the handle -1
    StateCommands,    \* command bytes that parse_msg_client() queues
    OtherCommands,    \* other values of buf[1], read and acknowledged only
    InboxBound,       \* bound: messages under way on one connection
    QueueBound,       \* bound: commands in q_execute_cmd
    MaxAcceptFailures \* bound: calls of accept() that fail

ASSUME ConstantsAssumption ==
    /\ INVALID_SOCKET \notin Conns
    /\ none \notin Numbers
    /\ main \in Loops
    /\ IsFiniteSet(Threads) /\ IsFiniteSet(Loops)
    /\ StateCommands \cap OtherCommands = {}
    /\ InboxBound \in Nat /\ QueueBound \in Nat /\ MaxAcceptFailures \in Nat

Commands == StateCommands \cup OtherCommands
Handles  == Conns \cup {INVALID_SOCKET}

VARIABLES
    (* members of the handler *)
    current_socket,    \* [handle_, lastErr_]; lastErr_ is TRUE for an errno # 0
    number_connection,
    n_read_bytes,      \* result of the last read: 5, 0 (end of file) or -1
    buf,               \* command byte of the last message read
    q_execute_cmd,
    (* threads *)
    parser,            \* program counters of the packet analysis threads
    source,            \* handle each of them reads from or replies to
    loop,              \* program counters of handle_connections()
    accepted,          \* handle of the temporary that accept() returned to a loop
    replaced,          \* current handle a loop has loaded to swap it out
    closing,           \* program counter of close_socket(), which one caller at
                       \* a time is in: it holds connection_mutex
    releasing,         \* handle it has loaded
    handlerAlive,      \* FALSE once main has returned from handle_connections()
    (* kernel and clients *)
    fd,                \* "none", "open" or "closed" for each connection
    number,            \* the number of its descriptor, kept after it is closed
    peer,              \* "away", "up", "closed" (FIN sent) or "reset"
    inbox,             \* messages sent and not yet read
    accept_failures,
    (* history, read by no action *)
    phantoms,          \* increments that no parser was started for
    stale_closes,      \* calls of close() with a handle closed before, or -1
    victims,           \* connections that a close() meant for another one closed
    overlapped         \* two swaps, or a swap and close_socket(), have overlapped

loopVars   == <<loop, accepted, replaced, accept_failures, phantoms>>
parserVars == <<parser, source, n_read_bytes, buf>>
clientVars == <<peer, inbox>>
closeVars  == <<closing, releasing>>
fdVars     == <<fd, number>>
historyVars == <<stale_closes, victims, overlapped>>
vars == <<current_socket, number_connection, q_execute_cmd, handlerAlive,
          loopVars, parserVars, clientVars, closeVars, fdVars, historyVars>>

Live(t) == parser[t] \notin {"none", "exited"}
LiveParsers == {t \in Threads : Live(t)}

---------------------------------------------------------------------------
(* Mistakes that the properties must catch: each stands for a definition    *)
(* below, in the form a plausible bug would give it.                        *)

OldHandleNeverClosed(h)    == UNCHANGED <<fd, stale_closes, victims>>
EveryCommandQueued(cmd)    == TRUE
HandleNotReleased(s)       == s
AcceptedHandle(l)          == accepted[l]
TwoOrMore(n)               == n >= 2
OneOrMore(n)               == n >= 1
DecrementOffByOne(n)       == IF n > 1 THEN n - 1 ELSE n

---------------------------------------------------------------------------
(* Sockets *)

(* socket::operator!: what the loop takes for a connection that is gone. *)
Bad(s) == s.handle_ = INVALID_SOCKET \/ s.lastErr_

(* The connection that has the number of handle h by now, if any. *)
Refers(h) ==
    {c \in Conns : h # INVALID_SOCKET /\ fd[c] = "open" /\ number[c] = number[h]}

(* ::close(h): fails with EBADF if the number is closed or -1; closes       *)
(* another connection if the number was given out again.                   *)
CloseNumber(h) ==
    /\ fd' = [c \in Conns |-> IF c \in Refers(h) THEN "closed" ELSE fd[c]]
    /\ stale_closes' = stale_closes + (IF h \in Refers(h) THEN 0 ELSE 1)
    /\ victims' = victims \cup (Refers(h) \ {h})
CloseFails(h) == Refers(h) = {}

(* send() of a handle that was loaded before: whether it may succeed or     *)
(* fail, and the errno it leaves in the object whichever thread called it.  *)
WriteResults(h) ==
    {ok \in BOOLEAN :
        \/ ok /\ Refers(h) # {}
        \/ ~ok /\ \/ Refers(h) = {}
                  \/ \E c \in Refers(h) : peer[c] \in {"closed", "reset"}}
SetLastErr(failed) == current_socket' = [current_socket EXCEPT !.lastErr_ = failed]

---------------------------------------------------------------------------
Init ==
    /\ current_socket = [handle_ |-> INVALID_SOCKET, lastErr_ |-> FALSE]
    /\ number_connection = 0
    /\ n_read_bytes = 0
    /\ buf \in Commands                      \* the member is never initialised
    /\ q_execute_cmd = <<>>
    /\ parser = [t \in Threads |-> "none"]
    /\ source = [t \in Threads |-> INVALID_SOCKET]
    /\ loop = [l \in Loops |-> IF l = main THEN "accept" ELSE "off"]
    /\ accepted = [l \in Loops |-> INVALID_SOCKET]
    /\ replaced = [l \in Loops |-> INVALID_SOCKET]
    /\ closing = "no"
    /\ releasing = INVALID_SOCKET
    /\ handlerAlive = TRUE
    /\ fd = [c \in Conns |-> "none"]
    /\ number = [c \in Conns |-> none]
    /\ peer = [c \in Conns |-> "away"]
    /\ inbox = [c \in Conns |-> <<>>]
    /\ accept_failures = 0
    /\ phantoms = 0
    /\ stale_closes = 0
    /\ victims = {}
    /\ overlapped = FALSE

---------------------------------------------------------------------------
(* Clients *)

Connect(c) ==
    /\ peer[c] = "away"
    /\ peer' = [peer EXCEPT ![c] = "up"]
    /\ UNCHANGED <<current_socket, number_connection, q_execute_cmd,
                   handlerAlive, inbox, loopVars, parserVars, closeVars, fdVars,
                   historyVars>>

Send(c, cmd) ==
    /\ peer[c] = "up"
    /\ Len(inbox[c]) < InboxBound
    /\ inbox' = [inbox EXCEPT ![c] = Append(@, cmd)]
    /\ UNCHANGED <<current_socket, number_connection, q_execute_cmd,
                   handlerAlive, peer, loopVars, parserVars, closeVars, fdVars,
                   historyVars>>

Leave(c, how) ==
    /\ peer[c] = "up"
    /\ peer' = [peer EXCEPT ![c] = how]
    /\ UNCHANGED <<current_socket, number_connection, q_execute_cmd,
                   handlerAlive, inbox, loopVars, parserVars, closeVars, fdVars,
                   historyVars>>

ClientNext ==
    \E c \in Conns :
        \/ Connect(c)
        \/ \E cmd \in Commands : Send(c, cmd)
        \/ \E how \in {"closed", "reset"} : Leave(c, how)

---------------------------------------------------------------------------
(* handle_connections(), run by thread l.  close_all_threads() at its head *)
(* finds only detached threads, which are not joinable: it stops none.     *)

(* accept() returned h in a temporary socket. *)
AcceptReturns(l, h) ==
    /\ loop' = [loop EXCEPT ![l] = "load"]
    /\ accepted' = [accepted EXCEPT ![l] = h]
    /\ UNCHANGED <<current_socket, number_connection, q_execute_cmd,
                   handlerAlive, replaced, phantoms, parserVars, clientVars,
                   closeVars, historyVars>>

(* The kernel gives a number that nothing open has.  It need not be the     *)
(* lowest of Numbers: the rest of the process takes and returns numbers too. *)
AcceptConnection(l, c) ==
    /\ loop[l] = "accept"
    /\ peer[c] # "away" /\ fd[c] = "none"
    /\ fd' = [fd EXCEPT ![c] = "open"]
    /\ \E n \in Numbers :
        /\ \A d \in Conns : fd[d] = "open" => number[d] # n
        /\ number' = [number EXCEPT ![c] = n]
    /\ AcceptReturns(l, c)
    /\ UNCHANGED accept_failures

AcceptFails(l) ==
    /\ loop[l] = "accept"
    /\ accept_failures < MaxAcceptFailures
    /\ accept_failures' = accept_failures + 1
    /\ AcceptReturns(l, INVALID_SOCKET)
    /\ UNCHANGED fdVars

(* The move assignment swaps the handles without the mutex: it loads the    *)
(* old one, ...                                                            *)
Overlap == closing # "no" \/ \E k \in Loops : loop[k] \in {"assign", "dispose"}
OldHandle(l) == current_socket.handle_
LoadOld(l) ==
    /\ loop[l] = "load"
    /\ loop' = [loop EXCEPT ![l] = "assign"]
    /\ replaced' = [replaced EXCEPT ![l] = OldHandle(l)]
    /\ overlapped' = (overlapped \/ Overlap)
    /\ UNCHANGED <<current_socket, number_connection, q_execute_cmd,
                   handlerAlive, accepted, accept_failures, phantoms,
                   stale_closes, victims, parserVars, clientVars, closeVars,
                   fdVars>>

(* ... stores the new one and clears the error; ... *)
MoveAssign(l) ==
    /\ loop[l] = "assign"
    /\ loop' = [loop EXCEPT ![l] = "dispose"]
    /\ current_socket' = [handle_ |-> accepted[l], lastErr_ |-> FALSE]
    /\ accepted' = [accepted EXCEPT ![l] = INVALID_SOCKET]
    /\ UNCHANGED <<number_connection, q_execute_cmd, handlerAlive, replaced,
                   accept_failures, phantoms, parserVars, clientVars, closeVars,
                   fdVars, historyVars>>

(* ... and the temporary, which has the old one now, closes it. *)
DisposeOld(l) ==
    /\ loop[l] = "dispose"
    /\ loop' = [loop EXCEPT ![l] = "increment"]
    /\ replaced' = [replaced EXCEPT ![l] = INVALID_SOCKET]
    /\ IF replaced[l] = INVALID_SOCKET
       THEN UNCHANGED <<fd, stale_closes, victims>>
       ELSE CloseNumber(replaced[l])
    /\ UNCHANGED <<current_socket, number_connection, q_execute_cmd,
                   handlerAlive, number, overlapped, accepted, accept_failures,
                   phantoms, parserVars, clientVars, closeVars>>

(* The accessors of the handler wait for connection_mutex, which only       *)
(* close_socket() holds for more than a step.                               *)
MutexFree == closing = "no"

increment_number_connection(l) ==
    /\ loop[l] = "increment" /\ MutexFree
    /\ loop' = [loop EXCEPT ![l] = "test"]
    /\ number_connection' = number_connection + 1
    /\ UNCHANGED <<current_socket, q_execute_cmd, handlerAlive, accepted,
                   replaced, accept_failures, phantoms, parserVars, clientVars,
                   closeVars, fdVars, historyVars>>

(* "if (!current_socket) continue": the increment is not taken back. *)
TestAccepted(l) ==
    /\ loop[l] = "test"
    /\ IF Bad(current_socket)
       THEN /\ loop' = [loop EXCEPT ![l] = "accept"]
            /\ phantoms' = phantoms + 1
       ELSE /\ loop' = [loop EXCEPT ![l] = "spawn"]
            /\ UNCHANGED phantoms
    /\ UNCHANGED <<current_socket, number_connection, q_execute_cmd,
                   handlerAlive, accepted, replaced, accept_failures,
                   parserVars, clientVars, closeVars, fdVars, historyVars>>

(* Both threads of the pair start; each of them first sleeps for a second. *)
start_threads(l, t) ==
    /\ loop[l] = "spawn"
    /\ parser[t] = "none"
    /\ loop' = [loop EXCEPT ![l] = "check"]
    /\ parser' = [parser EXCEPT ![t] = "sleep"]
    /\ UNCHANGED <<current_socket, number_connection, q_execute_cmd,
                   handlerAlive, accepted, replaced, accept_failures, phantoms,
                   source, n_read_bytes, buf, clientVars, closeVars, fdVars,
                   historyVars>>

(* "if (!get_current_socket()) break": main then destroys the handler while *)
(* the detached threads go on; a work thread returns to its caller.         *)
CheckSocket(l) ==
    /\ loop[l] = "check"
    /\ loop' = [loop EXCEPT ![l] = IF Bad(current_socket) THEN "off" ELSE "accept"]
    /\ handlerAlive' = ~(l = main /\ Bad(current_socket))
    /\ UNCHANGED <<current_socket, number_connection, q_execute_cmd, accepted,
                   replaced, accept_failures, phantoms, parserVars, clientVars,
                   closeVars, fdVars, historyVars>>

handle_connections(l) ==
    \/ \E c \in Conns : AcceptConnection(l, c)
    \/ AcceptFails(l)
    \/ LoadOld(l)
    \/ MoveAssign(l)
    \/ DisposeOld(l)
    \/ increment_number_connection(l)
    \/ TestAccepted(l)
    \/ \E t \in Threads : start_threads(l, t)
    \/ CheckSocket(l)

---------------------------------------------------------------------------
(* handler_parse_msg_thread, thread t *)

(* socket.read() loads the handle of current_socket without the mutex ... *)
LoadHandle(t) ==
    /\ parser[t] = "sleep"
    /\ parser' = [parser EXCEPT ![t] = "call"]
    /\ source' = [source EXCEPT ![t] = current_socket.handle_]
    /\ UNCHANGED <<current_socket, number_connection, q_execute_cmd,
                   handlerAlive, n_read_bytes, buf, loopVars, clientVars,
                   closeVars, fdVars, historyVars>>

(* ... and calls recv() with its number, which blocks: it stays with the    *)
(* connection it found there, whatever is swapped or closed meanwhile.      *)
CallRecv(t) ==
    /\ parser[t] = "call"
    /\ \E c \in Refers(source[t]) : source' = [source EXCEPT ![t] = c]
    /\ parser' = [parser EXCEPT ![t] = "recv"]
    /\ UNCHANGED <<current_socket, number_connection, q_execute_cmd,
                   handlerAlive, n_read_bytes, buf, loopVars, clientVars,
                   closeVars, fdVars, historyVars>>

(* recv() returned n; check_ret() writes the error of this descriptor into *)
(* the shared object, which may hold another one by now.                   *)
ReadReturns(t, n) ==
    /\ parser' = [parser EXCEPT ![t] = "check"]
    /\ n_read_bytes' = n
    /\ SetLastErr(n < 0)
    /\ UNCHANGED <<number_connection, q_execute_cmd, handlerAlive, source,
                   loopVars, closeVars, fdVars, historyVars>>

ReadBadDescriptor(t) ==
    /\ parser[t] = "call"
    /\ Refers(source[t]) = {}
    /\ ReadReturns(t, -1)
    /\ UNCHANGED <<buf, clientVars>>

ReadMessage(t) ==
    /\ parser[t] = "recv"
    /\ inbox[source[t]] # <<>>
    /\ buf' = Head(inbox[source[t]])
    /\ inbox' = [inbox EXCEPT ![source[t]] = Tail(@)]
    /\ ReadReturns(t, 5)
    /\ UNCHANGED peer

ReadEndOfFile(t) ==
    /\ parser[t] = "recv"
    /\ inbox[source[t]] = <<>> /\ peer[source[t]] = "closed"
    /\ ReadReturns(t, 0)
    /\ UNCHANGED <<buf, clientVars>>

(* A reset is reported once; the reads after it return 0. *)
ReadReset(t) ==
    /\ parser[t] = "recv"
    /\ inbox[source[t]] = <<>> /\ peer[source[t]] = "reset"
    /\ peer' = [peer EXCEPT ![source[t]] = "closed"]
    /\ ReadReturns(t, -1)
    /\ UNCHANGED <<buf, inbox>>

(* n_read_bytes is a ssize_t compared with a size_t: -1 becomes the largest *)
(* size_t, and a failed read counts as a complete one.                      *)
NotEnoughBytes(n) == n >= 0 /\ n < 5

(* The cases of its switch that call set_state() *)
MovesState(cmd) == cmd \in StateCommands

(* The rest of parse_msg_client() up to the reply, with whatever              *)
(* n_read_bytes and buf hold by now.  set_state() takes the mutex and queues. *)
Dispatch(t) ==
    /\ parser[t] = "check"
    /\ IF NotEnoughBytes(n_read_bytes)
       THEN /\ parser' = [parser EXCEPT ![t] = "count"]      \* exception: -1
            /\ source' = [source EXCEPT ![t] = INVALID_SOCKET]
            /\ UNCHANGED q_execute_cmd
       ELSE /\ parser' = [parser EXCEPT ![t] = "reply"]
            /\ UNCHANGED source
            /\ IF MovesState(buf)
               THEN /\ MutexFree
                    /\ Len(q_execute_cmd) < QueueBound
                    /\ q_execute_cmd' = Append(q_execute_cmd, buf)
               ELSE UNCHANGED q_execute_cmd
    /\ UNCHANGED <<current_socket, number_connection, handlerAlive,
                   n_read_bytes, buf, loopVars, clientVars, closeVars, fdVars,
                   historyVars>>

(* send_msg() loads the handle of current_socket and sends its five bytes   *)
(* in one send(); its result is ignored.                                    *)
LoadReply(t) ==
    /\ parser[t] = "reply"
    /\ parser' = [parser EXCEPT ![t] = "send"]
    /\ source' = [source EXCEPT ![t] = current_socket.handle_]
    /\ UNCHANGED <<current_socket, number_connection, q_execute_cmd,
                   handlerAlive, n_read_bytes, buf, loopVars, clientVars,
                   closeVars, fdVars, historyVars>>

Reply(t) ==
    /\ parser[t] = "send"
    /\ parser' = [parser EXCEPT ![t] = "count"]
    /\ \E ok \in WriteResults(source[t]) : SetLastErr(~ok)
    /\ source' = [source EXCEPT ![t] = INVALID_SOCKET]
    /\ UNCHANGED <<number_connection, q_execute_cmd, handlerAlive, n_read_bytes,
                   buf, loopVars, clientVars, closeVars, fdVars, historyVars>>

(* get_number_connection() == 2: exactly two, read under the mutex but not *)
(* together with the decrement that follows.                               *)
SeesSecondConnection(n) == n = 2
CountTest(t) ==
    /\ parser[t] = "count" /\ MutexFree
    /\ parser' = [parser EXCEPT ![t] =
                    IF SeesSecondConnection(number_connection)
                    THEN "decrement" ELSE "sleep"]
    /\ UNCHANGED <<current_socket, number_connection, q_execute_cmd,
                   handlerAlive, source, n_read_bytes, buf, loopVars,
                   clientVars, closeVars, fdVars, historyVars>>

Decremented(n) == IF n > 0 THEN n - 1 ELSE n
decrement_number_connection(t) ==
    /\ parser[t] = "decrement" /\ MutexFree
    /\ parser' = [parser EXCEPT ![t] = "exited"]
    /\ number_connection' = Decremented(number_connection)
    /\ UNCHANGED <<current_socket, q_execute_cmd, handlerAlive, source,
                   n_read_bytes, buf, loopVars, clientVars, closeVars, fdVars,
                   historyVars>>

handler_parse_msg_thread(t) ==
    \/ LoadHandle(t)
    \/ CallRecv(t)
    \/ ReadBadDescriptor(t)
    \/ ReadMessage(t)
    \/ ReadEndOfFile(t)
    \/ ReadReset(t)
    \/ Dispatch(t)
    \/ LoadReply(t)
    \/ Reply(t)
    \/ CountTest(t)
    \/ decrement_number_connection(t)

---------------------------------------------------------------------------
(* What the state machine and the work threads call *)

(* get_state() on a queue that is not empty; on an empty one it returns -1 *)
(* and changes nothing.                                                    *)
get_state ==
    /\ MutexFree
    /\ q_execute_cmd # <<>>
    /\ q_execute_cmd' = Tail(q_execute_cmd)
    /\ UNCHANGED <<current_socket, number_connection, handlerAlive, loopVars,
                   parserVars, clientVars, closeVars, fdVars, historyVars>>

(* close_socket(): its mutex keeps out other calls of it and the accessors, *)
(* but not the swap of an accept loop.  It tests the handle, ...            *)
CloseTest ==
    /\ MutexFree
    /\ current_socket.handle_ # INVALID_SOCKET
    /\ closing' = "tested"
    /\ overlapped' = (overlapped \/ Overlap)
    /\ UNCHANGED <<current_socket, number_connection, q_execute_cmd,
                   handlerAlive, releasing, stale_closes, victims, loopVars,
                   parserVars, clientVars, fdVars>>

(* ... loads it in release(), where it may be another one by now, ... *)
CloseLoad ==
    /\ closing = "tested"
    /\ closing' = "loaded"
    /\ releasing' = current_socket.handle_
    /\ UNCHANGED <<current_socket, number_connection, q_execute_cmd,
                   handlerAlive, loopVars, parserVars, clientVars, fdVars,
                   historyVars>>

(* ... stores INVALID_SOCKET over whatever is there now, ... *)
Released(s) == [s EXCEPT !.handle_ = INVALID_SOCKET]
CloseStore ==
    /\ closing = "loaded"
    /\ closing' = "released"
    /\ current_socket' = Released(current_socket)
    /\ UNCHANGED <<number_connection, q_execute_cmd, handlerAlive, releasing,
                   loopVars, parserVars, clientVars, fdVars, historyVars>>

(* ... and closes the number it loaded, recording an error of close().      *)
CloseKernel ==
    /\ closing = "released"
    /\ closing' = "no"
    /\ releasing' = INVALID_SOCKET
    /\ CloseNumber(releasing)
    /\ current_socket' = [current_socket EXCEPT !.lastErr_ = @ \/ CloseFails(releasing)]
    /\ UNCHANGED <<number_connection, q_execute_cmd, handlerAlive, number,
                   overlapped, loopVars, parserVars, clientVars>>

(* One send() of an image on a handle loaded from the shared socket before *)
SocketWrite(h, ok) ==
    /\ ok \in WriteResults(h)
    /\ SetLastErr(~ok)
    /\ UNCHANGED <<number_connection, q_execute_cmd, handlerAlive, loopVars,
                   parserVars, clientVars, closeVars, fdVars, historyVars>>

(* send_data_to_client() found the client gone: the work thread becomes an *)
(* accept loop of its own.                                                 *)
EnterLoop(l) ==
    /\ l # main
    /\ loop[l] = "off"
    /\ loop' = [loop EXCEPT ![l] = "accept"]
    /\ UNCHANGED <<current_socket, number_connection, q_execute_cmd,
                   handlerAlive, accepted, replaced, accept_failures, phantoms,
                   parserVars, clientVars, closeVars, fdVars, historyVars>>

CallerNext ==
    \/ get_state
    \/ CloseTest
    \/ CloseLoad
    \/ CloseStore
    \/ CloseKernel
    \/ \E h \in Handles, ok \in BOOLEAN : SocketWrite(h, ok)
    \/ \E l \in Loops : EnterLoop(l)

---------------------------------------------------------------------------
Next ==
    /\ handlerAlive
    /\ \/ ClientNext
       \/ \E l \in Loops : handle_connections(l)
       \/ \E t \in Threads : handler_parse_msg_thread(t)
       \/ CallerNext

Spec == Init /\ [][Next]_vars

(* Clients that send neither WORK nor CLOSE: what the state machine does    *)
(* with SLEEP and TRIGGER is to take them from the queue and log them.      *)
IdleNext ==
    /\ handlerAlive
    /\ \/ ClientNext
       \/ \E l \in Loops : handle_connections(l)
       \/ \E t \in Threads : handler_parse_msg_thread(t)
       \/ get_state

(* Each thread is scheduled, and what a blocked system call waits for ends  *)
(* the call; clients owe nothing.                                           *)
Fairness ==
    /\ \A l \in Loops : WF_vars(handlerAlive /\ handle_connections(l))
    /\ \A t \in Threads : WF_vars(handlerAlive /\ handler_parse_msg_thread(t))
    /\ WF_vars(handlerAlive /\ get_state)

IdleSpec == Init /\ [][IdleNext]_vars /\ Fairness

---------------------------------------------------------------------------
(* Properties *)

ParserPC == {"none", "sleep", "call", "recv", "check",
             "reply", "send", "count", "decrement", "exited"}
LoopPC   == {"off", "accept", "load", "assign", "dispose", "increment", "test",
             "spawn", "check"}
ClosePC  == {"no", "tested", "loaded", "released"}

(* Every variable stays in its range; in particular only the four state     *)
(* commands of parse_msg_client() are ever queued, and recv() blocks only   *)
(* on a connection.                                                         *)
TypeOK ==
    /\ current_socket \in [handle_ : Handles, lastErr_ : BOOLEAN]
    /\ number_connection \in Nat
    /\ n_read_bytes \in {5, 0, -1}
    /\ buf \in Commands
    /\ q_execute_cmd \in Seq(StateCommands)
    /\ parser \in [Threads -> ParserPC]
    /\ source \in [Threads -> Handles]
    /\ \A t \in Threads : parser[t] = "recv" => source[t] \in Conns
    /\ loop \in [Loops -> LoopPC]
    /\ accepted \in [Loops -> Handles]
    /\ replaced \in [Loops -> Handles]
    /\ closing \in ClosePC
    /\ releasing \in Handles
    /\ handlerAlive \in BOOLEAN
    /\ fd \in [Conns -> {"none", "open", "closed"}]
    /\ number \in [Conns -> Numbers \cup {none}]
    /\ peer \in [Conns -> {"away", "up", "closed", "reset"}]
    /\ inbox \in [Conns -> Seq(Commands)]
    /\ accept_failures \in Nat
    /\ phantoms \in Nat
    /\ stale_closes \in Nat
    /\ victims \subseteq Conns
    /\ overlapped \in BOOLEAN

(* number_connection counts the live packet analysis threads, the           *)
(* connections whose pair is about to start, and every pass of the loop     *)
(* that took "continue" after the increment: no decrement is ever lost to   *)
(* its own guard, whatever the threads that race on the count.              *)
CountedLoops == {l \in Loops : loop[l] \in {"test", "spawn"}}
NumberConserved ==
    number_connection = Cardinality(LiveParsers) + Cardinality(CountedLoops) + phantoms

(* A descriptor that the shared socket holds is only ever closed under it   *)
(* by a close() that was meant for another connection of the same number:   *)
(* however the swaps of several accept loops and close_socket() interleave, *)
(* no step closes the handle that is current by then.                       *)
CurrentIsOpen ==
    current_socket.handle_ # INVALID_SOCKET =>
        \/ fd[current_socket.handle_] = "open"
        \/ current_socket.handle_ \in victims

(* Who will close a connection: an object, or a local that close() is due for. *)
Owned ==
    {current_socket.handle_}
        \cup {accepted[l] : l \in {k \in Loops : loop[k] \in {"load", "assign"}}}
        \cup {replaced[l] : l \in {k \in Loops : loop[k] = "dispose"}}
        \cup (IF closing = "released" THEN {releasing} ELSE {})
Lost == {c \in Conns : fd[c] = "open"} \ Owned

(* "Maintains strict ownership semantics" is true of the shared socket as   *)
(* long as no two swaps overlap, and no swap overlaps close_socket(): every *)
(* connection is closed once, by its owner, and none is lost, also across   *)
(* failed calls of accept() and numbers that are used again.                *)
OwnershipUnlessOverlap ==
    ~overlapped =>
        /\ stale_closes = 0 /\ victims = {} /\ Lost = {}
        /\ \A h \in Owned \ {INVALID_SOCKET} : fd[h] = "open"

(* As long as no two accept loops are in their swap at the same time, a     *)
(* descriptor is lost (open, but owned by no socket object) only when       *)
(* close_socket() raced with the swap of a loop, and then a handle is       *)
(* closed that was closed before.                                           *)
OneSwap == \A k, l \in Loops : loop[k] = "assign" /\ loop[l] = "assign" => k = l
LostOnlyByStaleClose ==
    (closing = "no" /\ \A l \in Loops : loop[l] # "dispose")
        => Cardinality(Lost) <= stale_closes

(* Once three connections are counted and no thread has decided to leave,   *)
(* no thread ever decides to leave again: the test for exactly two is never *)
(* met, and the packet analysis threads stay for good.                      *)
Crowded == /\ number_connection > 2
           /\ \A t \in Threads : parser[t] # "decrement"
CrowdStays == [][Crowded => Crowded']_vars

(* The client on the current connection is served: as long as messages of   *)
(* it wait, they are read.                                                  *)
Waiting(c) == handlerAlive /\ current_socket.handle_ = c /\ inbox[c] # <<>>
MessagesRead ==
    \A c \in Conns : \/ []<>~Waiting(c)
                    \/ []<><<Len(inbox'[c]) < Len(inbox[c])>>_vars

---------------------------------------------------------------------------
(* What the comments and messages of the code say, refuted by the code *)

(* handle_connections(): "Error accepting incoming connection" is what the  *)
(* loop meets when it drops the connection it has just accepted.            *)
OnlyFailedAcceptsDropped ==
    [][\A l \in Loops :
        (loop[l] = "test" /\ loop'[l] = "accept")
            => current_socket.handle_ = INVALID_SOCKET]_vars

===============================================================================
