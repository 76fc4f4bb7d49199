----------------------------- MODULE PowerMonitor -----------------------------
(***************************************************************************)
(* The class PowerMonitor: one caller that asks the power board for its    *)
(* registers over a UART.  A read waits one second for the first byte and  *)
(* takes what is there, so that an answer may come in parts, or after the  *)
(* wait is over, when the next call finds it.                              *)
(*                                                                         *)
(* A byte is a triple: what it is, of which register, and its place.       *)
(***************************************************************************)
EXTENDS Integers, Sequences

CONSTANTS
    Registers,    \* what the caller asks for, by number (PowerMonitor.h:15-24)
    Displayed,    \* what it sets: identifiers of the display (PowerMonitor.h:26-29)
    AnyByte,      \* bound: values of a byte that may be anything
    TtyBound,     \* bound: bytes that the UART holds
    MaxPorts,     \* bound: descriptors of the UART
    MaxLate       \* bound: requests without an answer so far

ASSUME PowerAssumption ==
    /\ Registers \subseteq 1..10 /\ Displayed \subseteq 16..19
    /\ AnyByte \subseteq 0..255
    /\ TtyBound \in Nat /\ MaxPorts \in Nat /\ MaxLate \in Nat

VARIABLES
    serial_port,  \* "open" or "bad": not opened, closed, or failed to open
    ports,        \* open descriptors of the UART: serial_port and lost ones
    raw,          \* the UART has the settings of uart_init()
    pc,           \* "idle", "wait" in read(), "crashed"
    call,         \* the register asked for or set
    ret,          \* what the last call returned
    data,         \* the four bytes that the last get call stored
    board,        \* requests that the board may still answer
    tty,          \* bytes received and not read
    oldest,       \* history: whose answer was next when the call was made
    aligned       \* history: the line was empty once, and since then answers
                  \* came unaltered and were read whole, one by one

port == <<serial_port, ports, raw>>
vars == <<port, pc, call, ret, data, board, tty, oldest, aligned>>

BAT_CYCLE_COUNT    == 9
BAT_SERIAL_NUMBER  == 10
RECV_HEADER_MARKER == 35
TAIL_MARKER        == 170
READ_BUF           == 16
data_length        == 4

Ids      == 1..19
Byte(what, id, k) == <<what, id, k>>
Unknown  == Byte("unknown", 0, 0)
Zero     == Byte("zero", 0, 0)
Data(id) == [k \in 1..data_length |-> Byte("data", id, k)]

(* The board's answer.  Its last byte but one is the checksum. *)
Answer(id) ==
    <<Byte("header", 0, 0), Byte("id", id, 0), Byte("length", 0, 0)>>
        \o Data(id) \o <<Byte("crc", 0, 0), Byte("tail", 0, 0)>>

Values(b) ==
    CASE b[1] = "header" -> {RECV_HEADER_MARKER}
      [] b[1] = "tail"   -> {TAIL_MARKER}
      [] b[1] = "id"     -> {b[2]}
      [] b[1] = "length" -> {data_length}
      [] b[1] = "zero"   -> {0}
      [] OTHER           -> AnyByte

(* The constructor clears the values, and leaves serial_port alone.  A UART  *)
(* keeps its settings when it is closed.                                    *)
Init ==
    /\ serial_port = "bad" /\ ports = 0 /\ raw \in BOOLEAN
    /\ pc = "idle" /\ call = 0 /\ ret = 0
    /\ data = [k \in 1..data_length |-> Zero]
    /\ board = <<>> /\ tty = <<>>
    /\ oldest = 0 /\ aligned = TRUE

---------------------------------------------------------------------------
(* Mistakes that the properties must catch. *)

AnyLengthFits(n)  == TRUE
LengthIsData(buf, n) == [k \in 1..data_length |-> IF k <= n THEN buf[2 + k] ELSE Unknown]

---------------------------------------------------------------------------
(* What serial_port held is not closed first.  When the settings cannot be   *)
(* read or made, the port stays open with the old ones.                     *)
uart_init ==
    /\ pc = "idle"
    /\ \/ serial_port' = "bad" /\ ret' = -1 /\ UNCHANGED <<ports, raw>>
       \/ /\ ports < MaxPorts
          /\ serial_port' = "open" /\ ports' = ports + 1
          /\ \/ raw' = TRUE /\ ret' = 0
             \/ ret' = -1 /\ UNCHANGED raw
    /\ UNCHANGED <<pc, call, data, board, tty, oldest, aligned>>

(* What was received is dropped with the last descriptor.  A bad one is      *)
(* refused, which is not noticed.                                           *)
uart_close ==
    /\ pc = "idle" /\ ret' = 0
    /\ \/ /\ serial_port = "open"
          /\ serial_port' = "bad" /\ ports' = ports - 1
          /\ tty' = IF ports = 1 THEN <<>> ELSE tty
       \/ serial_port = "bad" /\ UNCHANGED <<serial_port, ports, tty>>
    /\ UNCHANGED <<raw, pc, call, data, board, oldest, aligned>>

(* BAT_get_serial_number() asks for the cycle count. *)
IdOf(r) == IF r = BAT_SERIAL_NUMBER THEN BAT_CYCLE_COUNT ELSE r

(* The request is written, and read() waits.  What was received before is   *)
(* not thrown away.                                                         *)
NextAnswer(id) ==
    IF tty # <<>> THEN (IF Len(tty) >= 2 THEN tty[2][2] ELSE 0)
    ELSE IF board # <<>> THEN Head(board) ELSE id
Request(r) ==
    /\ pc = "idle" /\ serial_port = "open" /\ Len(board) < MaxLate
    /\ pc' = "wait" /\ call' = r
    /\ board' = Append(board, IdOf(r))
    /\ oldest' = NextAnswer(IdOf(r))
    /\ aligned' = (aligned \/ (tty = <<>> /\ board = <<>>))
    /\ UNCHANGED <<port, ret, data, tty>>

(* Without a port, write() and read() fail; the -1 is taken for a number of *)
(* bytes, and the checksum runs over all of memory.                         *)
RequestWithoutPort(r) ==
    /\ pc = "idle" /\ serial_port = "bad"
    /\ pc' = "crashed" /\ call' = r
    /\ UNCHANGED <<port, ret, data, board, tty, oldest, aligned>>

(* The board answers in order, at any time, or drops a request.  Without the *)
(* settings of uart_init() the bytes of an answer may be altered.           *)
Altered(id) == [k \in 1..Len(Answer(id)) |-> Unknown]
BoardAnswers ==
    /\ pc # "crashed" /\ board # <<>> /\ Len(tty) + Len(Answer(Head(board))) <= TtyBound
    /\ tty' = IF ports = 0 THEN tty
              ELSE tty \o (IF raw THEN Answer(Head(board)) ELSE Altered(Head(board)))
    /\ aligned' = (aligned /\ (ports = 0 \/ raw))
    /\ board' = Tail(board)
    /\ UNCHANGED <<port, pc, call, ret, data, oldest>>
BoardDrops ==
    /\ pc # "crashed" /\ board # <<>>
    /\ board' = Tail(board)
    /\ oldest' = IF pc = "wait" /\ tty = <<>> /\ Len(board) > 1 THEN board[2] ELSE oldest
    /\ UNCHANGED <<port, pc, call, ret, data, tty, aligned>>

---------------------------------------------------------------------------
(* uart_get_data() and uart_set_data() after read() *)

read_buf(k) == [i \in 1..READ_BUF |-> IF i <= k THEN tty[i] ELSE Zero]

(* All four tests must fail for an answer to be refused.  The checksum is   *)
(* compared with the tail: whether they are equal is a matter of chance.    *)
MayBeRefused(buf, k) ==
    /\ buf[1] # Byte("header", 0, 0)
    /\ buf[k] # Byte("tail", 0, 0)
    /\ buf[2] # Byte("id", IdOf(call), 0)

Fits(n) == n <= data_length
Copied(buf, n) ==
    [k \in 1..(IF n > data_length THEN n ELSE data_length) |->
        IF k > n THEN Unknown ELSE IF 3 + k <= READ_BUF THEN buf[3 + k] ELSE Unknown]

Return(n) == pc' = "idle" /\ ret' = n

Take(k) ==
    /\ tty' = SubSeq(tty, k + 1, Len(tty))
    /\ aligned' = (aligned /\ k = Len(Answer(call)))
    /\ UNCHANGED <<port, call, board, oldest>>

(* A single byte gives the checksum a negative length. *)
ReadOneByte ==
    /\ pc = "wait" /\ tty # <<>>
    /\ Take(1)
    /\ pc' = "crashed"
    /\ UNCHANGED <<ret, data>>

Refuse(k) ==
    /\ pc = "wait"
    /\ MayBeRefused(read_buf(k), k)
    /\ Take(k)
    /\ Return(-1)
    /\ UNCHANGED data

(* uart_get_...(): the register gets four bytes, however few were received. *)
GetData(k) ==
    /\ pc = "wait" /\ call \in Registers
    /\ Take(k)
    /\ \E n \in Values(read_buf(k)[3]) :
        IF Fits(n) THEN /\ Return(n)
                        /\ data' = Copied(read_buf(k), n)
        ELSE Return(-2) /\ UNCHANGED data

SetData(k) ==
    /\ pc = "wait" /\ call \in Displayed
    /\ Take(k)
    /\ Return(0)
    /\ UNCHANGED data

(* Nothing came within a second.  Without the settings of uart_init() a read *)
(* has no such limit, and a byte may be taken for the end of the file.      *)
Timeout ==
    /\ pc = "wait" /\ raw /\ tty = <<>>
    /\ Return(-1)
    /\ UNCHANGED <<port, call, data, board, tty, oldest, aligned>>
EndOfFile ==
    /\ pc = "wait" /\ ~raw /\ tty # <<>>
    /\ Take(1)
    /\ Return(-1)
    /\ UNCHANGED data

Next ==
    \/ uart_init \/ uart_close
    \/ \E r \in Registers \cup Displayed : Request(r) \/ RequestWithoutPort(r)
    \/ BoardAnswers \/ BoardDrops
    \/ ReadOneByte \/ Timeout \/ EndOfFile
    \/ \E k \in 2..READ_BUF : k <= Len(tty) /\ (Refuse(k) \/ GetData(k) \/ SetData(k))

Spec == Init /\ [][Next]_vars

(* Bound of the runs: one answer at a time is under way while a descriptor   *)
(* is lost or the settings are not made.                                    *)
Lost == ports > (IF serial_port = "open" THEN 1 ELSE 0)
OneAnswerAtATime == (raw /\ ~Lost) \/ Len(board) + Len(tty) \div Len(Answer(1)) <= 1

---------------------------------------------------------------------------
(* Properties *)

Bytes == {"header", "id", "length", "data", "crc", "tail", "zero", "unknown"} \X (0..19) \X (0..4)

(* Every variable stays in its range: what is copied from an answer stays    *)
(* within the four bytes of the register.                                   *)
TypeOK ==
    /\ serial_port \in {"open", "bad"} /\ ports \in 0..MaxPorts /\ raw \in BOOLEAN
    /\ serial_port = "open" => ports > 0
    /\ pc \in {"idle", "wait", "crashed"}
    /\ call \in Registers \cup Displayed \cup {0}
    /\ ret \in -2..data_length
    /\ data \in [1..data_length -> Bytes]
    /\ board \in Seq(Ids)
    /\ tty \in Seq(Bytes) /\ Len(tty) <= TtyBound
    /\ oldest \in Ids \cup {0}
    /\ aligned \in BOOLEAN

(* While whole answers are read, a call gets the answer that was the next    *)
(* one due when it was made: its own if nothing was outstanding, and that of *)
(* an earlier call after a timeout, again and again until the line runs dry. *)
AnswersInOrder ==
    (pc = "idle" /\ aligned /\ ret > 0) => (call \in Registers /\ data = Data(oldest))

===============================================================================
