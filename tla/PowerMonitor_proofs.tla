------------------------- MODULE PowerMonitor_proofs -------------------------
(***************************************************************************)
(* What the caller of PowerMonitor gets, for any number of registers,      *)
(* requests under way and bytes on the line: a copy stays within the four  *)
(* bytes of a register, and as long as whole answers are read each call    *)
(* gets the one that is due.                                               *)
(***************************************************************************)
EXTENDS PowerMonitor, SequenceTheorems, TLAPS

---------------------------------------------------------------------------
(* Bytes and answers *)

LEMMA BytesAre ==
  /\ Zero \in Bytes /\ Unknown \in Bytes
  /\ \A id \in Ids : \A k \in 1..4 : Byte("data", id, k) \in Bytes
  /\ \A id \in Ids : Byte("id", id, 0) \in Bytes
  /\ \A what \in {"header", "length", "crc", "tail"} : Byte(what, 0, 0) \in Bytes
  BY DEF Bytes, Byte, Zero, Unknown, Ids

(* An answer has nine bytes: who it is of comes second, how long it is      *)
(* third, and then what it says.                                            *)
LEMMA AnswerIs ==
  ASSUME NEW id \in Ids
  PROVE  /\ Answer(id) \in Seq(Bytes) /\ Len(Answer(id)) = 9
         /\ Answer(id)[2] = Byte("id", id, 0)
         /\ Answer(id)[3] = Byte("length", 0, 0)
         /\ \A k \in 1..4 : Answer(id)[3 + k] = Byte("data", id, k)
<1> DEFINE front == <<Byte("header", 0, 0), Byte("id", id, 0), Byte("length", 0, 0)>>
           rear  == <<Byte("crc", 0, 0), Byte("tail", 0, 0)>>
<1>1. front \in Seq(Bytes) /\ Len(front) = 3 /\ rear \in Seq(Bytes) /\ Len(rear) = 2
  BY BytesAre
<1>2. Data(id) \in Seq(Bytes) /\ Len(Data(id)) = 4
  <2>1. Data(id) \in [1..4 -> Bytes]
    BY BytesAre DEF Data, data_length
  <2>2. [1..4 -> Bytes] \in {[1..n -> Bytes] : n \in Nat}
    OBVIOUS
  <2>3. Data(id) \in Seq(Bytes)
    BY <2>1, <2>2, SeqDef
  <2> QED BY <2>1, <2>3
<1>3. front[2] = Byte("id", id, 0) /\ front[3] = Byte("length", 0, 0)
  OBVIOUS
<1>4. \A k \in 1..4 : Data(id)[k] = Byte("data", id, k)
  BY DEF Data, data_length
<1>5. Answer(id) = (front \o Data(id)) \o rear
  BY DEF Answer
<1> HIDE DEF front, rear
<1> DEFINE most == front \o Data(id)
<1>6. /\ most \in Seq(Bytes) /\ Len(most) = Len(front) + Len(Data(id))
      /\ \A i \in 1..(Len(front) + Len(Data(id))) :
            most[i] = IF i <= Len(front) THEN front[i] ELSE Data(id)[i - Len(front)]
  BY <1>1, <1>2, ConcatProperties, Zenon
<1> HIDE DEF most
<1>7. /\ most \o rear \in Seq(Bytes) /\ Len(most \o rear) = Len(most) + Len(rear)
      /\ \A i \in 1..(Len(most) + Len(rear)) :
            (most \o rear)[i] = IF i <= Len(most) THEN most[i] ELSE rear[i - Len(most)]
  <2>1. most \in Seq(Bytes)
    BY <1>6
  <2>2. rear \in Seq(Bytes)
    BY <1>1
  <2> QED BY <2>1, <2>2, ConcatProperties, Zenon
<1>8. /\ Answer(id) \in Seq(Bytes) /\ Len(Answer(id)) = 9
      /\ \A i \in 1..7 : Answer(id)[i] = IF i <= 3 THEN front[i] ELSE Data(id)[i - 3]
  <2>1. Answer(id) = most \o rear
    BY <1>5 DEF most
  <2>2. Len(most) = 7 /\ Len(rear) = 2 /\ Len(front) = 3 /\ Len(Data(id)) = 4
    BY <1>1, <1>2, <1>6
  <2>3. \A i \in 1..7 : (most \o rear)[i] = most[i]
    BY <1>7, <2>2
  <2>4. \A i \in 1..7 : most[i] = IF i <= 3 THEN front[i] ELSE Data(id)[i - 3]
    BY <1>6, <2>2
  <2> QED BY <1>7, <2>1, <2>2, <2>3, <2>4
<1>9. \A k \in 1..4 : Answer(id)[3 + k] = Data(id)[k]
  <2>1. ASSUME NEW k \in 1..4 PROVE Answer(id)[3 + k] = Data(id)[k]
    <3>1. 3 + k \in 1..7 /\ ~(3 + k <= 3) /\ (3 + k) - 3 = k
      OBVIOUS
    <3> QED BY <1>8, <3>1
  <2> QED BY <2>1
<1>10. Answer(id)[2] = front[2] /\ Answer(id)[3] = front[3]
  BY <1>8
<1> QED BY <1>3, <1>4, <1>8, <1>9, <1>10

LEMMA AlteredIs ==
  ASSUME NEW id \in Ids
  PROVE  Altered(id) \in Seq(Bytes) /\ Len(Altered(id)) = Len(Answer(id))
<1>1. Len(Answer(id)) = 9
  BY AnswerIs
<1>2. Altered(id) = [k \in 1..9 |-> Unknown]
  BY <1>1 DEF Altered
<1>3. Altered(id) \in [1..9 -> Bytes]
  BY <1>2, BytesAre
<1>4. [1..9 -> Bytes] \in {[1..n -> Bytes] : n \in Nat}
  OBVIOUS
<1>5. Altered(id) \in Seq(Bytes)
  BY <1>3, <1>4, SeqDef
<1> QED BY <1>1, <1>3, <1>5

---------------------------------------------------------------------------
(* A line that holds whole answers *)

Whole(s) ==
  \E n \in Nat : /\ Len(s) = 9 * n
                 /\ \A j \in 0..(n - 1) : \E id \in Ids :
                       \A k \in 1..9 : s[9 * j + k] = Answer(id)[k]

LEMMA WholeEmpty == Whole(<<>>)
<1>1. Len(<<>>) = 9 * 0 /\ 0 \in Nat /\ 0..(0 - 1) = {}
  OBVIOUS
<1> QED BY <1>1 DEF Whole

LEMMA WholeFirst ==
  ASSUME NEW s \in Seq(Bytes), Whole(s), s # <<>>
  PROVE  /\ Len(s) >= 9
         /\ \E id \in Ids : \A k \in 1..9 : s[k] = Answer(id)[k]
<1>1. PICK n \in Nat : /\ Len(s) = 9 * n
                       /\ \A j \in 0..(n - 1) : \E id \in Ids :
                             \A k \in 1..9 : s[9 * j + k] = Answer(id)[k]
  BY DEF Whole
<1>2. n >= 1
  BY <1>1, EmptySeq
<1>3. \E id \in Ids : \A k \in 1..9 : s[9 * 0 + k] = Answer(id)[k]
  BY <1>1, <1>2
<1> QED BY <1>1, <1>2, <1>3

LEMMA WholeAppend ==
  ASSUME NEW s \in Seq(Bytes), Whole(s), NEW id \in Ids
  PROVE  Whole(s \o Answer(id))
<1>1. PICK n \in Nat : /\ Len(s) = 9 * n
                       /\ \A j \in 0..(n - 1) : \E i \in Ids :
                             \A k \in 1..9 : s[9 * j + k] = Answer(i)[k]
  BY DEF Whole
<1> DEFINE t == s \o Answer(id)
<1>2. /\ Len(t) = 9 * (n + 1)
      /\ \A i \in 1..(9 * n + 9) : t[i] = IF i <= 9 * n THEN s[i] ELSE Answer(id)[i - 9 * n]
  <2>1. Answer(id) \in Seq(Bytes)
    BY AnswerIs
  <2>2. Len(Answer(id)) = 9
    BY AnswerIs
  <2>3. /\ Len(t) = Len(s) + Len(Answer(id))
        /\ \A i \in 1..(Len(s) + Len(Answer(id))) :
              t[i] = IF i <= Len(s) THEN s[i] ELSE Answer(id)[i - Len(s)]
    BY <2>1, ConcatProperties, Zenon
  <2> QED BY <1>1, <2>2, <2>3
<1> HIDE DEF t
<1>3. ASSUME NEW j \in 0..((n + 1) - 1)
      PROVE  \E i \in Ids : \A k \in 1..9 : t[9 * j + k] = Answer(i)[k]
  <2>1. CASE j < n
    <3>1. PICK i \in Ids : \A k \in 1..9 : s[9 * j + k] = Answer(i)[k]
      BY <1>1, <2>1
    <3>2. \A k \in 1..9 : 9 * j + k \in 1..(9 * n + 9) /\ 9 * j + k <= 9 * n
      BY <2>1
    <3>3. \A k \in 1..9 : t[9 * j + k] = s[9 * j + k]
      BY <1>2, <3>2
    <3> QED BY <3>1, <3>3
  <2>2. CASE j = n
    <3>1. \A k \in 1..9 : t[9 * n + k] = Answer(id)[k]
      BY <1>2
    <3> QED BY <2>2, <3>1
  <2> QED BY <2>1, <2>2
<1>4. n + 1 \in Nat
  OBVIOUS
<1>5. Len(t) = 9 * (n + 1)
  BY <1>2
<1>6. Whole(t)
  BY <1>3, <1>4, <1>5, Zenon DEF Whole
<1> QED BY <1>6 DEF t

LEMMA WholeTake ==
  ASSUME NEW s \in Seq(Bytes), Whole(s), Len(s) >= 9
  PROVE  Whole(SubSeq(s, 10, Len(s)))
<1>1. PICK n \in Nat : /\ Len(s) = 9 * n
                       /\ \A j \in 0..(n - 1) : \E id \in Ids :
                             \A k \in 1..9 : s[9 * j + k] = Answer(id)[k]
  BY DEF Whole
<1> DEFINE t == SubSeq(s, 10, Len(s))
<1>2. n - 1 \in Nat
  BY <1>1
<1>3. Len(t) = 9 * (n - 1) /\ \A i \in 1..(9 * n - 9) : t[i] = s[9 + i]
  <2>1. \A i \in 10..Len(s) : s[i] \in Bytes
    BY ElementOfSeq
  <2> QED BY <1>1, <1>2, <2>1, SubSeqProperties
<1> HIDE DEF t
<1>4. ASSUME NEW j \in 0..((n - 1) - 1)
      PROVE  \E id \in Ids : \A k \in 1..9 : t[9 * j + k] = Answer(id)[k]
  <2>1. j + 1 \in 0..(n - 1)
    OBVIOUS
  <2>2. PICK id \in Ids : \A k \in 1..9 : s[9 * (j + 1) + k] = Answer(id)[k]
    BY <1>1, <2>1, Zenon
  <2>3. ASSUME NEW k \in 1..9 PROVE t[9 * j + k] = Answer(id)[k]
    <3>1. 9 * j + k \in 1..(9 * n - 9) /\ 9 + (9 * j + k) = 9 * (j + 1) + k
      OBVIOUS
    <3>2. t[9 * j + k] = s[9 * (j + 1) + k]
      BY <1>3, <3>1
    <3> QED BY <2>2, <3>2
  <2> QED BY <2>3
<1>5. Len(t) = 9 * (n - 1)
  BY <1>3
<1>6. Whole(t)
  BY <1>2, <1>4, <1>5, Zenon DEF Whole
<1> QED BY <1>6 DEF t

---------------------------------------------------------------------------
(* Typing *)

LEMMA Identifiers ==
  /\ \A r \in Registers \cup Displayed : r \in Ids /\ IdOf(r) \in Ids
  /\ \A b \in Bytes : b[2] \in Ids \cup {0} /\ Values(b) \subseteq Nat
<1>1. \A r \in Registers \cup Displayed : r \in Ids /\ IdOf(r) \in Ids
  BY PowerAssumption DEF Ids, IdOf, BAT_CYCLE_COUNT
<1>2. ASSUME NEW b \in Bytes PROVE b[2] \in Ids \cup {0} /\ Values(b) \subseteq Nat
  <2>1. b[2] \in 0..19
    BY DEF Bytes
  <2>2. b[2] \in Ids \cup {0}
    BY <2>1 DEF Ids
  <2>3. Values(b) \subseteq Nat
    BY <2>1, PowerAssumption
       DEF Values, RECV_HEADER_MARKER, TAIL_MARKER, data_length
  <2> QED BY <2>2, <2>3
<1> QED BY <1>1, <1>2

(* What read() takes from the line is a part of it, and so is what stays. *)
LEMMA TakeType ==
  ASSUME TypeOK, NEW k \in 1..READ_BUF, k <= Len(tty), Take(k)
  PROVE  /\ tty' \in Seq(Bytes) /\ Len(tty') <= TtyBound
         /\ aligned' \in BOOLEAN
         /\ UNCHANGED <<port, call, board, oldest>>
         /\ \A i \in 1..READ_BUF : read_buf(k)[i] \in Bytes
<1>1. tty \in Seq(Bytes) /\ Len(tty) \in Nat /\ Len(tty) <= TtyBound /\ k \in Nat
  BY LenProperties DEF TypeOK, READ_BUF
<1>2. tty' \in Seq(Bytes) /\ Len(tty') <= TtyBound
  <2>1. \A i \in (k + 1)..Len(tty) : tty[i] \in Bytes
    BY <1>1, ElementOfSeq
  <2>2. k + 1 \in Int /\ Len(tty) \in Int
    BY <1>1
  <2>3. tty' = SubSeq(tty, k + 1, Len(tty))
    BY DEF Take
  <2>4. /\ tty' \in Seq(Bytes)
        /\ Len(tty') = IF k + 1 <= Len(tty) THEN Len(tty) - (k + 1) + 1 ELSE 0
    BY <2>1, <2>2, <2>3, SubSeqProperties
  <2> QED BY <1>1, <2>4, PowerAssumption
<1>3. \A i \in 1..READ_BUF : read_buf(k)[i] \in Bytes
  <2>1. ASSUME NEW i \in 1..READ_BUF, i <= k PROVE tty[i] \in Bytes
    BY <1>1, <2>1, ElementOfSeq DEF READ_BUF
  <2> QED BY <2>1, BytesAre DEF read_buf
<1>4. aligned' \in BOOLEAN
  BY DEF Take
<1> QED BY <1>2, <1>3, <1>4 DEF Take

LEMMA NextTyping == TypeOK /\ [Next]_vars => TypeOK'
<1> SUFFICES ASSUME TypeOK, [Next]_vars PROVE TypeOK'
  OBVIOUS
<1> USE DEF port
<1>1. CASE UNCHANGED vars
  BY <1>1 DEF vars, TypeOK
<1>2. CASE uart_init \/ uart_close
  <2>1. <<>> \in Seq(Bytes) /\ Len(<<>>) <= TtyBound
    BY PowerAssumption
  <2>2. CASE uart_init
    <3>1. ports' \in 0..MaxPorts /\ (serial_port' = "open" => ports' > 0)
      BY <2>2, PowerAssumption DEF uart_init, TypeOK
    <3>2. /\ serial_port' \in {"open", "bad"} /\ raw' \in BOOLEAN /\ ret' \in {-1, 0}
          /\ UNCHANGED <<pc, call, data, board, tty, oldest, aligned>>
      BY <2>2 DEF uart_init, TypeOK
    <3> QED BY <3>1, <3>2 DEF TypeOK, data_length
  <2>3. CASE uart_close
    <3>1. ports' \in 0..MaxPorts /\ (serial_port' = "open" => ports' > 0)
      BY <2>3, PowerAssumption DEF uart_close, TypeOK
    <3>2. tty' \in Seq(Bytes) /\ Len(tty') <= TtyBound
      BY <2>1, <2>3 DEF uart_close, TypeOK
    <3>3. serial_port' \in {"open", "bad"} /\ ret' = 0
          /\ UNCHANGED <<raw, pc, call, data, board, oldest, aligned>>
      BY <2>3 DEF uart_close
    <3> QED BY <3>1, <3>2, <3>3 DEF TypeOK, data_length
  <2> QED BY <1>2, <2>2, <2>3
<1>3. ASSUME NEW r \in Registers \cup Displayed, Request(r) PROVE TypeOK'
  <2>1. IdOf(r) \in Ids /\ board \in Seq(Ids) /\ tty \in Seq(Bytes)
    BY Identifiers DEF TypeOK
  <2>2. board' \in Seq(Ids)
    BY <1>3, <2>1 DEF Request
  <2>3. NextAnswer(IdOf(r)) \in Ids \cup {0}
    <3>1. Len(tty) >= 2 => tty[2] \in Bytes
      BY <2>1, ElementOfSeq
    <3>2. Len(tty) >= 2 => tty[2][2] \in Ids \cup {0}
      BY <3>1, Identifiers
    <3>3. board # <<>> => Head(board) \in Ids
      BY <2>1, HeadTailProperties
    <3> QED BY <2>1, <3>2, <3>3 DEF NextAnswer
  <2> QED BY <1>3, <2>2, <2>3 DEF Request, TypeOK
<1>4. ASSUME NEW r \in Registers \cup Displayed, RequestWithoutPort(r) PROVE TypeOK'
  BY <1>4 DEF RequestWithoutPort, TypeOK
<1>5. CASE BoardAnswers
  <2>1. board \in Seq(Ids) /\ board # <<>> /\ tty \in Seq(Bytes)
    BY <1>5 DEF BoardAnswers, TypeOK
  <2>2. Head(board) \in Ids /\ Tail(board) \in Seq(Ids)
    BY <2>1, HeadTailProperties
  <2>3. Answer(Head(board)) \in Seq(Bytes)
    BY <2>2, AnswerIs
  <2>4. /\ tty \o Answer(Head(board)) \in Seq(Bytes)
        /\ Len(tty \o Answer(Head(board))) = Len(tty) + Len(Answer(Head(board)))
    BY <2>1, <2>3, ConcatProperties, Zenon
  <2>5. Altered(Head(board)) \in Seq(Bytes) /\ Len(Altered(Head(board))) = Len(Answer(Head(board)))
    BY <2>2, AlteredIs
  <2>6. /\ tty \o Altered(Head(board)) \in Seq(Bytes)
        /\ Len(tty \o Altered(Head(board))) = Len(tty) + Len(Altered(Head(board)))
    BY <2>1, <2>5, ConcatProperties, Zenon
  <2>7. tty' \in Seq(Bytes) /\ Len(tty') <= TtyBound
    BY <1>5, <2>4, <2>5, <2>6 DEF BoardAnswers, TypeOK
  <2>8. aligned' \in BOOLEAN
    BY <1>5 DEF BoardAnswers
  <2> QED BY <1>5, <2>2, <2>7, <2>8 DEF BoardAnswers, TypeOK
<1>6. CASE BoardDrops
  <2>1. board \in Seq(Ids) /\ board # <<>>
    BY <1>6 DEF BoardDrops, TypeOK
  <2>2. Tail(board) \in Seq(Ids)
    BY <2>1, HeadTailProperties
  <2>3. Len(board) > 1 => board[2] \in Ids
    BY <2>1, ElementOfSeq
  <2> QED BY <1>6, <2>2, <2>3 DEF BoardDrops, TypeOK
<1>7. CASE ReadOneByte
  <2>1. 1 \in 1..READ_BUF /\ 1 <= Len(tty)
    BY <1>7, EmptySeq DEF READ_BUF, ReadOneByte, TypeOK
  <2> QED BY <1>7, <2>1, TakeType DEF ReadOneByte, TypeOK
<1>8. CASE Timeout
  BY <1>8 DEF Timeout, Return, TypeOK, data_length
<1>10. CASE EndOfFile
  <2>1. 1 \in 1..READ_BUF /\ 1 <= Len(tty)
    BY <1>10, EmptySeq DEF READ_BUF, EndOfFile, TypeOK
  <2> QED BY <1>10, <2>1, TakeType DEF EndOfFile, Return, TypeOK, data_length
<1>9. ASSUME NEW k \in 2..READ_BUF, k <= Len(tty), Refuse(k) \/ GetData(k) \/ SetData(k)
      PROVE  TypeOK'
  <2>1. k \in 1..READ_BUF /\ Take(k)
    BY <1>9 DEF READ_BUF, Refuse, GetData, SetData
  <2>2. /\ tty' \in Seq(Bytes) /\ Len(tty') <= TtyBound /\ aligned' \in BOOLEAN
        /\ UNCHANGED <<port, call, board, oldest>>
        /\ \A i \in 1..READ_BUF : read_buf(k)[i] \in Bytes
    BY <1>9, <2>1, TakeType
  <2>3. pc' = "idle" /\ ret' \in -2..data_length /\ data' \in [1..data_length -> Bytes]
    <3>1. CASE Refuse(k) \/ SetData(k)
      BY <3>1 DEF Refuse, SetData, Return, TypeOK, data_length
    <3>2. CASE GetData(k)
      <4>1. PICK n \in Values(read_buf(k)[3]) :
               IF Fits(n) THEN Return(n) /\ data' = Copied(read_buf(k), n)
               ELSE Return(-2) /\ UNCHANGED data
        BY <3>2 DEF GetData
      <4>2. n \in Nat
        BY <2>2, <4>1, Identifiers DEF READ_BUF
      <4>3. ASSUME Fits(n) PROVE Copied(read_buf(k), n) \in [1..data_length -> Bytes]
        BY <2>2, <4>2, <4>3, BytesAre DEF Copied, Fits, data_length, READ_BUF
      <4> QED BY <4>1, <4>2, <4>3 DEF Return, Fits, TypeOK, data_length
    <3> QED BY <1>9, <3>1, <3>2
  <2> QED BY <2>2, <2>3 DEF TypeOK
<1> QED
  BY <1>1, <1>2, <1>3, <1>4, <1>5, <1>6, <1>7, <1>8, <1>9, <1>10 DEF Next

(* Every variable stays in its range for any identifiers, bytes and bounds:  *)
(* what a call copies from an answer stays within the four bytes of the      *)
(* register, whatever length the answer states.                              *)
THEOREM Typing == Spec => []TypeOK
<1>1. Init => TypeOK
  <2>1. <<>> \in Seq(Bytes) /\ Len(<<>>) <= TtyBound
    BY PowerAssumption
  <2>2. 0 \in 0..MaxPorts /\ <<>> \in Seq(Ids)
    BY PowerAssumption
  <2> QED BY <2>1, <2>2, BytesAre DEF Init, TypeOK, data_length
<1> QED BY <1>1, NextTyping, PTL DEF Spec

---------------------------------------------------------------------------
(* Which answer is due *)

(* While the line holds whole answers, the first of them, or else the first *)
(* that the board will give, is the one that the waiting call will get.     *)
Due ==
  /\ tty # <<>> => oldest = tty[2][2]
  /\ tty = <<>> /\ board # <<>> => oldest = Head(board)

Line ==
  /\ pc = "wait" => serial_port = "open"
  /\ aligned => Whole(tty)
  /\ pc = "wait" /\ aligned => Due
  /\ AnswersInOrder

LEMMA FirstIs ==
  ASSUME NEW s \in Seq(Bytes), Whole(s), s # <<>>
  PROVE  /\ Len(s) >= 9
         /\ \E id \in Ids : /\ s[2] = Byte("id", id, 0) /\ s[3] = Byte("length", 0, 0)
                            /\ \A k \in 1..4 : s[3 + k] = Byte("data", id, k)
<1>1. PICK id \in Ids : \A k \in 1..9 : s[k] = Answer(id)[k]
  BY WholeFirst
<1>2. s[2] = Byte("id", id, 0) /\ s[3] = Byte("length", 0, 0)
  BY <1>1, AnswerIs
<1>3. ASSUME NEW k \in 1..4 PROVE s[3 + k] = Byte("data", id, k)
  <2>1. 3 + k \in 1..9
    OBVIOUS
  <2> QED BY <1>1, <2>1, AnswerIs
<1> QED BY <1>2, <1>3, WholeFirst

(* A read of nine bytes from such a line takes one answer, and the register *)
(* gets the four bytes of it.                                               *)
LEMMA ReadsDue ==
  ASSUME TypeOK, Line, NEW k \in 1..READ_BUF, k <= Len(tty), Take(k), pc = "wait", aligned'
  PROVE  /\ Whole(tty')
         /\ read_buf(k)[3] = Byte("length", 0, 0)
         /\ Copied(read_buf(k), 4) = Data(oldest)
<1>1. tty \in Seq(Bytes) /\ Len(tty) \in Nat
  BY LenProperties DEF TypeOK
<1>2. aligned /\ k = 9
  <2>1. aligned /\ k = Len(Answer(call))
    BY DEF Take
  <2>2. Len(Answer(call)) = 9
    BY DEF Answer, Data, data_length
  <2> QED BY <2>1, <2>2
<1>3. Whole(tty) /\ tty # <<>> /\ oldest = tty[2][2]
  BY <1>1, <1>2 DEF Line, Due
<1>4. Whole(tty')
  BY <1>1, <1>2, <1>3, WholeTake DEF Take
<1>5. PICK id \in Ids : /\ tty[2] = Byte("id", id, 0) /\ tty[3] = Byte("length", 0, 0)
                        /\ \A i \in 1..4 : tty[3 + i] = Byte("data", id, i)
  BY <1>1, <1>3, FirstIs
<1>6. oldest = id
  BY <1>3, <1>5 DEF Byte
<1>7. ASSUME NEW i \in 1..9 PROVE read_buf(k)[i] = tty[i]
  <2>1. i \in 1..16 /\ i <= k
    BY <1>2
  <2> QED BY <2>1 DEF read_buf, READ_BUF
<1>8. read_buf(k)[3] = Byte("length", 0, 0)
  BY <1>5, <1>7
<1>9. ASSUME NEW i \in 1..4 PROVE read_buf(k)[3 + i] = Byte("data", id, i)
  <2>1. 3 + i \in 1..9
    OBVIOUS
  <2> QED BY <1>5, <1>7, <2>1
<1>10. Copied(read_buf(k), 4) = Data(oldest)
  BY <1>6, <1>9 DEF Copied, Data, data_length, READ_BUF
<1> QED BY <1>4, <1>8, <1>10

LEMMA LineNext == TypeOK /\ Line /\ [Next]_vars => Line'
<1> SUFFICES ASSUME TypeOK, Line, [Next]_vars PROVE Line'
  OBVIOUS
<1> USE DEF port
<1>0. tty \in Seq(Bytes) /\ board \in Seq(Ids) /\ Len(tty) \in Nat
  BY LenProperties DEF TypeOK
<1>1. CASE UNCHANGED vars
  BY <1>1 DEF vars, Line, Due, AnswersInOrder
<1>2. CASE uart_init
  BY <1>2 DEF uart_init, Line, Due, AnswersInOrder
<1>3. CASE uart_close
  BY <1>3, WholeEmpty DEF uart_close, Line, Due, AnswersInOrder
<1>4. ASSUME NEW r \in Registers \cup Displayed, Request(r) PROVE Line'
  <2>1. /\ pc' = "wait" /\ serial_port' = "open" /\ tty' = tty
        /\ board' = Append(board, IdOf(r)) /\ oldest' = NextAnswer(IdOf(r))
        /\ aligned' = (aligned \/ (tty = <<>> /\ board = <<>>))
    BY <1>4 DEF Request
  <2>2. aligned' => Whole(tty')
    BY <2>1, WholeEmpty DEF Line
  <2>3. aligned' => Due'
    <3>1. CASE tty # <<>>
      <4>1. aligned' => Len(tty) >= 9
        BY <1>0, <2>1, <2>2, <3>1, WholeFirst
      <4> QED BY <2>1, <3>1, <4>1 DEF NextAnswer, Due
    <3>2. CASE tty = <<>>
      <4>1. Head(board') = IF board # <<>> THEN Head(board) ELSE IdOf(r)
        <5>1. IdOf(r) \in Ids
          BY Identifiers
        <5> QED BY <1>0, <2>1, <5>1
      <4> QED BY <2>1, <3>2, <4>1 DEF NextAnswer, Due
    <3> QED BY <3>1, <3>2
  <2> QED BY <2>1, <2>2, <2>3 DEF Line, AnswersInOrder
<1>5. ASSUME NEW r \in Registers \cup Displayed, RequestWithoutPort(r) PROVE Line'
  BY <1>5 DEF RequestWithoutPort, Line, AnswersInOrder
<1>6. CASE BoardAnswers
  <2>1. Head(board) \in Ids /\ board # <<>>
    BY <1>0, <1>6, HeadTailProperties DEF BoardAnswers
  <2>2. /\ tty' = IF ports = 0 THEN tty
                 ELSE tty \o (IF raw THEN Answer(Head(board)) ELSE Altered(Head(board)))
        /\ aligned' = (aligned /\ (ports = 0 \/ raw))
        /\ UNCHANGED <<port, pc, call, ret, data, oldest>>
    BY <1>6 DEF BoardAnswers
  <2>3. aligned' => Whole(tty')
    <3>1. aligned' => aligned /\ (tty' = tty \/ tty' = tty \o Answer(Head(board)))
      BY <2>2
    <3> QED BY <1>0, <2>1, <3>1, WholeAppend DEF Line
  <2>4. ASSUME pc' = "wait", aligned' PROVE Due'
    <3>1. /\ Due /\ Whole(tty)
          /\ tty' = tty \o Answer(Head(board))
      BY <2>2, <2>4 DEF Line, TypeOK
    <3>2. /\ Answer(Head(board)) \in Seq(Bytes) /\ Len(Answer(Head(board))) = 9
          /\ Answer(Head(board))[2] = Byte("id", Head(board), 0)
      BY <2>1, AnswerIs
    <3>3. /\ Len(tty') = Len(tty) + Len(Answer(Head(board)))
          /\ \A i \in 1..(Len(tty) + Len(Answer(Head(board)))) :
                tty'[i] = IF i <= Len(tty) THEN tty[i] ELSE Answer(Head(board))[i - Len(tty)]
      <4>1. Answer(Head(board)) \in Seq(Bytes)
        BY <3>2
      <4>2. tty \in Seq(Bytes)
        BY <1>0
      <4>3. tty' = tty \o Answer(Head(board))
        BY <3>1
      <4> QED BY <4>1, <4>2, <4>3, ConcatProperties, Zenon
    <3>4. tty' # <<>>
      BY <1>0, <3>2, <3>3
    <3>5. oldest = tty'[2][2]
      <4>1. CASE tty = <<>>
        <5>1. Len(tty) = 0
          BY <4>1
        <5>2. tty'[2] = Answer(Head(board))[2]
          BY <3>2, <3>3, <5>1
        <5> QED BY <2>1, <3>1, <3>2, <4>1, <5>2 DEF Due, Byte
      <4>2. CASE tty # <<>>
        <5>1. Len(tty) >= 9
          BY <1>0, <3>1, <4>2, WholeFirst
        <5>2. tty'[2] = tty[2]
          BY <1>0, <3>2, <3>3, <5>1
        <5> QED BY <3>1, <4>2, <5>2 DEF Due
      <4> QED BY <4>1, <4>2
    <3> QED BY <2>2, <3>4, <3>5 DEF Due
  <2>5. AnswersInOrder'
    BY <2>2 DEF Line, AnswersInOrder
  <2> QED BY <2>2, <2>3, <2>4, <2>5 DEF Line
<1>7. CASE BoardDrops
  <2>1. /\ board # <<>> /\ board' = Tail(board)
        /\ oldest' = IF pc = "wait" /\ tty = <<>> /\ Len(board) > 1 THEN board[2] ELSE oldest
        /\ UNCHANGED <<port, pc, call, ret, data, tty, aligned>>
    BY <1>7 DEF BoardDrops
  <2>2. ASSUME pc' = "wait", aligned' PROVE Due'
    <3>1. CASE tty # <<>>
      BY <2>1, <2>2, <3>1 DEF Line, Due
    <3>2. CASE tty = <<>> /\ Len(board) > 1
      <4>1. Head(board') = board[2]
        BY <1>0, <2>1, <3>2
      <4> QED BY <2>1, <2>2, <3>2, <4>1 DEF Due
    <3>3. CASE tty = <<>> /\ ~(Len(board) > 1)
      <4>1. board' = <<>>
        <5>1. Len(board) = 1
          <6>1. Len(board) \in Nat \ {0}
            BY <1>0, <2>1, EmptySeq, Zenon
          <6> QED BY <3>3, <6>1
        <5>2. Tail(board) \in Seq(Ids) /\ Len(Tail(board)) = 0
          BY <1>0, <2>1, <5>1, HeadTailProperties
        <5> QED BY <2>1, <5>2, EmptySeq
      <4> QED BY <2>1, <3>3, <4>1 DEF Due
    <3> QED BY <3>1, <3>2, <3>3
  <2>3. AnswersInOrder'
    BY <2>1 DEF Line, AnswersInOrder
  <2> QED BY <2>1, <2>2, <2>3 DEF Line
<1>8. CASE Timeout
  BY <1>8 DEF Timeout, Return, Line, AnswersInOrder
<1>9. CASE ReadOneByte \/ EndOfFile
  <2>1. ~aligned'
    <3>1. Len(Answer(call)) = 9
      BY DEF Answer, Data, data_length
    <3>2. aligned' = (aligned /\ 1 = Len(Answer(call)))
      BY <1>9 DEF ReadOneByte, EndOfFile, Take
    <3>3. 1 # Len(Answer(call))
      BY <3>1
    <3> QED BY <3>2, <3>3, Zenon
  <2>2. pc' # "wait"
    BY <1>9 DEF ReadOneByte, EndOfFile, Return
  <2> QED BY <2>1, <2>2 DEF Line, AnswersInOrder
<1>10. ASSUME NEW k \in 2..READ_BUF, k <= Len(tty), Refuse(k) \/ GetData(k) \/ SetData(k)
       PROVE  Line'
  <2>1. k \in 1..READ_BUF /\ Take(k) /\ pc = "wait"
    BY <1>10 DEF READ_BUF, Refuse, GetData, SetData
  <2>2. aligned' => /\ Whole(tty')
                    /\ read_buf(k)[3] = Byte("length", 0, 0)
                    /\ Copied(read_buf(k), 4) = Data(oldest)
    BY <1>10, <2>1, ReadsDue
  <2>3. CASE Refuse(k) \/ SetData(k)
    BY <2>2, <2>3 DEF Refuse, SetData, Return, Line, AnswersInOrder
  <2>4. CASE GetData(k)
    <3>1. PICK n \in Values(read_buf(k)[3]) :
             IF Fits(n) THEN Return(n) /\ data' = Copied(read_buf(k), n)
             ELSE Return(-2) /\ UNCHANGED data
      BY <2>4 DEF GetData
    <3>2. aligned' => n = 4
      BY <2>2, <3>1 DEF Values, Byte, data_length
    <3>3. pc' = "idle" /\ UNCHANGED <<call, oldest>> /\ call \in Registers
      BY <2>1, <2>4, <3>1 DEF GetData, Return, Take
    <3>4. aligned' => data' = Data(oldest)
      BY <2>2, <3>1, <3>2 DEF Fits, data_length
    <3> QED BY <2>2, <3>3, <3>4 DEF Line, AnswersInOrder
  <2> QED BY <1>10, <2>3, <2>4
<1> QED
  BY <1>1, <1>2, <1>3, <1>4, <1>5, <1>6, <1>7, <1>8, <1>9, <1>10 DEF Next

(* While whole answers are read, a call gets the answer that was the next    *)
(* due when it was made, for any number of requests under way, answers on    *)
(* the line and requests that the board drops: after a timeout that is the   *)
(* answer of an earlier call, and the driver has no means to tell.           *)
THEOREM AnswersAreInOrder == Spec => []AnswersInOrder
<1>1. Init => Line
  BY WholeEmpty DEF Init, Line, AnswersInOrder
<1>2. Line => AnswersInOrder
  BY DEF Line
<1> QED BY <1>1, <1>2, LineNext, Typing, PTL DEF Spec
==============================================================================
