---------------------------- MODULE PRB_IMG_proofs ----------------------------
(***************************************************************************)
(* What PRB_IMG does for any number of work threads, buffers and parts of  *)
(* an image: its mutex does exclude, so that a frame is put over the image *)
(* at once, and an image received as it was at one moment; a dequeue       *)
(* that fails does close it for ever; and, while no two threads meet, what *)
(* one of them leaves open, mapped or crashed over for every call that     *)
(* fails, and that no other finishes after a failed dequeue.               *)
(***************************************************************************)
EXTENDS PRB_IMG, TLAPS

(***************************************************************************)
(* Typing.  A counter is 1 outside of the loops, and a thread that works   *)
(* with an instance has one.                                               *)
(***************************************************************************)

Choosing == {"none", "new", "return"}
Loops    == {"map", "qbuf", "fill", "refill", "copy"}

(* What the counter of a thread can be, that was granted g buffers and a    *)
(* frame of b parts.                                                        *)
CountOK(label, n, g, b) ==
    /\ label \in {"map", "qbuf"} => n \in 1..g
    /\ label \in {"fill", "refill"} => n \in 1..b
    /\ label = "copy" => n \in Chunks
    /\ label \notin Loops => n = 1

Control ==
    /\ uniqueInstance \in Workers \cup {null}
    /\ pPRB_IMG \in [Workers -> Workers \cup {null}]
    /\ pc \in [Workers -> Labels]
    /\ count \in [Workers -> Nat]
    /\ granted \in [Workers -> 0..MaxGranted]
    /\ bytes \in [Workers -> 0..ImageChunks + 1]
    /\ \A w \in Workers :
          /\ CountOK(pc[w], count[w], granted[w], bytes[w])
          /\ pc[w] = "return" => uniqueInstance \in Workers
          /\ pc[w] \notin Choosing => This(w) \in Workers

Data ==
    /\ IMX8_SOM \in BOOLEAN
    /\ fd \in [Workers -> [Devices -> Workers \cup {null}]]
    /\ p_dma_buffers \in [Workers -> Workers \cup {null}]
    /\ connection_mutex \in [Workers -> Workers \cup {null}]
    /\ img_buf \in [Workers -> [Chunks -> Frames]]
    /\ buffer \in [Workers -> [Chunks -> Frames]]
    /\ opened \in [Devices -> SUBSET Workers]
    /\ queued \subseteq Workers \X Buffers /\ streaming \subseteq Workers
    /\ mapped \subseteq (Workers \cup {null}) \X Buffers
    /\ crashed \in BOOLEAN
    /\ initFailed \subseteq Workers /\ stopFailed \subseteq Workers
    /\ overlapped \in BOOLEAN

Typed == Control /\ Data

LEMMA NumbersInRange ==
  /\ 1 \in Nat /\ 1 \in Buffers /\ 1 \in Chunks /\ 0 \in 0..MaxGranted
  /\ 0 \in 0..ImageChunks + 1 /\ ImageChunks \in 0..ImageChunks + 1
  /\ \A n \in Buffers : n \in 0..MaxGranted /\ 1 \in 1..n /\ n \in Nat
  /\ \A n \in Chunks : n \in Nat /\ (n # ImageChunks => n + 1 \in Chunks /\ n < ImageChunks)
  /\ ImageChunks \in Chunks /\ null \notin Workers
  BY PrbAssumption DEF Buffers, Chunks

(* One turn of a loop over 1..last *)
LEMMA Turn ==
  ASSUME NEW last \in Nat, NEW n \in 1..last
  PROVE  /\ n \in Nat /\ 1 \in 1..last
         /\ n # last => n + 1 \in 1..last /\ n < last
         /\ n = last => ~(n < last)
  OBVIOUS

LEMMA GrantedBuffers ==
  ASSUME NEW g \in 0..MaxGranted, NEW n \in 1..g
  PROVE  n \in Buffers /\ g \in Nat
  BY PrbAssumption DEF Buffers

LEMMA AllLabels ==
  Labels = {"none", "new", "return", "mxc", "csi", "prb", "csi_fmt", "mxc_fmt", "reqbufs", "map",
            "qbuf", "streamon", "streamoff", "unmap", "close", "lock", "relock", "dequeue",
            "again", "fill", "refill", "unlock", "release", "get", "copy", "copied", "done",
            "failed"}
  BY DEF Labels, Finished, Setup, Devices

(* A step of one thread that has its instance. *)
LEMMA StepControl ==
  ASSUME Control, NEW w \in Workers, pc[w] \notin Choosing,
         NEW label \in Labels \ Choosing, NEW n \in Nat,
         NEW g \in 0..MaxGranted, NEW b \in 0..ImageChunks + 1, CountOK(label, n, g, b),
         pc' = [pc EXCEPT ![w] = label], count' = [count EXCEPT ![w] = n],
         granted' = [granted EXCEPT ![w] = g], bytes' = [bytes EXCEPT ![w] = b],
         UNCHANGED <<pPRB_IMG, uniqueInstance>>
  PROVE  Control'
<1>. /\ pc \in [Workers -> Labels] /\ count \in [Workers -> Nat]
     /\ granted \in [Workers -> 0..MaxGranted] /\ bytes \in [Workers -> 0..ImageChunks + 1]
  BY DEF Control
<1>1. ASSUME NEW v \in Workers
      PROVE  /\ CountOK(pc'[v], count'[v], granted'[v], bytes'[v])
             /\ pc'[v] = "return" => uniqueInstance' \in Workers
             /\ pc'[v] \notin Choosing => This(v)' \in Workers
  <2>1. CASE v = w
    BY <2>1 DEF Control, This, Choosing
  <2>2. CASE v # w
    BY <2>2 DEF Control, This
  <2>. QED
    BY <2>1, <2>2
<1>2. /\ pc' \in [Workers -> Labels] /\ count' \in [Workers -> Nat]
      /\ granted' \in [Workers -> 0..MaxGranted] /\ bytes' \in [Workers -> 0..ImageChunks + 1]
  OBVIOUS
<1>. QED
  BY <1>1, <1>2 DEF Control

(* The same, where the lengths stay what they are. *)
LEMMA StepCounts ==
  ASSUME Control, NEW w \in Workers, pc[w] \notin Choosing,
         NEW label \in Labels \ Choosing, NEW n \in Nat,
         CountOK(label, n, granted[w], bytes[w]),
         pc' = [pc EXCEPT ![w] = label], count' = [count EXCEPT ![w] = n],
         UNCHANGED <<pPRB_IMG, uniqueInstance, granted, bytes>>
  PROVE  Control'
<1>1. PICK g \in 0..MaxGranted : g = granted[w]
  BY DEF Control
<1>2. PICK b \in 0..ImageChunks + 1 : b = bytes[w]
  BY DEF Control
<1>3. granted' = [granted EXCEPT ![w] = g] /\ bytes' = [bytes EXCEPT ![w] = b]
      /\ CountOK(label, n, g, b)
  BY <1>1, <1>2 DEF Control
<1>. QED
  BY <1>3, StepControl

(* The same, outside of the loops. *)
LEMMA StepFromStraight ==
  ASSUME Control, NEW w \in Workers, pc[w] \notin Choosing, count[w] = 1,
         NEW label \in Labels \ (Choosing \cup Loops),
         pc' = [pc EXCEPT ![w] = label],
         UNCHANGED <<pPRB_IMG, uniqueInstance, count, granted, bytes>>
  PROVE  Control'
<1>1. CountOK(label, 1, granted[w], bytes[w]) /\ count' = [count EXCEPT ![w] = 1] /\ 1 \in Nat
  BY NumbersInRange DEF CountOK, Control, Loops
<1>. QED
  BY <1>1, StepCounts

LEMMA InstanceTyping ==
  ASSUME Typed, NEW w \in Workers, getInstance(w)
  PROVE  Typed'
<1>. USE NumbersInRange, AllLabels DEF Goto, Typed, Control, Data, This, Choosing, Loops, CountOK
<1>1. CASE TestInstance(w)
  BY <1>1 DEF TestInstance, Busy, memberVars, kernelVars
<1>2. CASE NewInstance(w)
  BY <1>2 DEF NewInstance, kernelVars, history
<1>3. CASE ReturnInstance(w)
  BY <1>3 DEF ReturnInstance, memberVars, kernelVars, history
<1>. QED
  BY <1>1, <1>2, <1>3 DEF getInstance

LEMMA StreamControl ==
  ASSUME Control, NEW w \in Workers, intialize_stream(w) \/ open_stream(w) \/ close_stream(w)
  PROVE  Control'
<1>. USE AllLabels DEF Goto, Choosing, Loops, memberVars
<1>. DEFINE straight == pc[w] \notin Choosing \cup Loops
<1>. granted[w] \in 0..MaxGranted /\ bytes[w] \in 0..ImageChunks + 1 /\ granted[w] \in Nat
  BY PrbAssumption DEF Control
<1>1. straight => count[w] = 1
  BY DEF Control, CountOK
<1>2. ASSUME straight, NEW label \in Labels \ (Choosing \cup Loops), pc' = [pc EXCEPT ![w] = label],
             UNCHANGED <<pPRB_IMG, uniqueInstance, count, granted, bytes>>
      PROVE  Control'
  BY <1>1, <1>2, StepFromStraight
<1>3. ASSUME pc[w] \in {"map", "qbuf"}, NEW label \in {"map", "qbuf", "streamon"},
             count[w] = granted[w] \/ label = pc[w],
             Advance(w, granted[w]), pc' = [pc EXCEPT ![w] = label],
             UNCHANGED <<pPRB_IMG, uniqueInstance, granted, bytes>>
      PROVE  Control'
  <2>. DEFINE n == IF count[w] = granted[w] THEN 1 ELSE count[w] + 1
  <2>1. count[w] \in 1..granted[w]
    BY <1>3 DEF Control, CountOK
  <2>2. n \in 1..granted[w] /\ n \in Nat /\ (label = "streamon" => n = 1)
    BY <1>3, <2>1, Turn
  <2>3. CountOK(label, n, granted[w], bytes[w])
    BY <2>2 DEF CountOK
  <2>4. count' = [count EXCEPT ![w] = n]
    BY <1>3 DEF Advance
  <2>. HIDE DEF n
  <2>. QED
    BY <1>3, <2>2, <2>3, <2>4, StepCounts
<1>. HIDE DEF straight
<1>4. CASE \E d \in Devices : OpenDevice(w, d)
  <2>1. PICK d \in {"mxc", "csi", "prb"} : OpenDevice(w, d)
    BY <1>4 DEF Devices
  <2>2. AfterOpen[d] \in {"csi", "prb", "csi_fmt"}
    BY DEF AfterOpen
  <2>. QED
    BY <1>2, <2>1, <2>2 DEF OpenDevice, straight
<1>5. CASE SetFormat(w, "csi", "csi_fmt", "mxc_fmt") \/ SetFormat(w, "mxc", "mxc_fmt", "reqbufs")
  BY <1>2, <1>5 DEF SetFormat, straight
<1>6. CASE RequestBuffers(w)
  <2>1. PICK n \in Buffers : granted' = [granted EXCEPT ![w] = n]
    BY <1>6 DEF RequestBuffers
  <2>2. n \in 0..MaxGranted /\ 1 \in 1..n /\ 1 \in Nat
    BY NumbersInRange
  <2>3. CountOK("map", 1, n, bytes[w]) /\ bytes' = [bytes EXCEPT ![w] = bytes[w]]
    BY <1>6, <2>2 DEF CountOK, RequestBuffers, Control
  <2>. QED
    BY <1>6, <2>1, <2>2, <2>3, StepControl DEF RequestBuffers
<1>7. CASE MapBuffer(w)
  BY <1>3, <1>7 DEF MapBuffer
<1>8. CASE QueueBuffer(w)
  BY <1>3, <1>8 DEF QueueBuffer
<1>9. CASE InitFails(w, {"csi_fmt", "mxc_fmt", "reqbufs", "map", "qbuf"})
  <2>1. CountOK("streamon", 1, granted[w], bytes[w]) /\ 1 \in Nat
    BY NumbersInRange DEF CountOK
  <2>. QED
    BY <1>9, <2>1, StepCounts DEF InitFails
<1>10. CASE open_stream(w)
  BY <1>2, <1>10 DEF open_stream, straight
<1>11. CASE close_stream(w)
  BY <1>2, <1>11 DEF close_stream, StreamOff, UnmapBuffers, CloseDevices, straight
<1>. QED
  BY <1>4, <1>5, <1>6, <1>7, <1>8, <1>9, <1>10, <1>11 DEF intialize_stream

LEMMA StreamData ==
  ASSUME Typed, NEW w \in Workers, intialize_stream(w) \/ open_stream(w) \/ close_stream(w)
  PROVE  Data'
<1>. USE DEF Typed, Data, This, Device, memberVars, kernelVars, history
<1>. pc[w] \notin Choosing => This(w) \in Workers
  BY DEF Control
<1>1. CASE \E d \in Devices : OpenDevice(w, d)
  <2>1. PICK d \in Devices : OpenDevice(w, d)
    BY <1>1
  <2>2. This(w) \in Workers
    BY <2>1 DEF OpenDevice, Choosing, Devices
  <2>3. fd[This(w)] \in [Devices -> Workers \cup {null}]
        /\ fd' = [fd EXCEPT ![This(w)] = [fd[This(w)] EXCEPT ![d] = w]]
    BY <2>1, <2>2 DEF OpenDevice
  <2>4. fd' \in [Workers -> [Devices -> Workers \cup {null}]]
    BY <2>2, <2>3
  <2>5. opened' \in [Devices -> SUBSET Workers]
    BY <2>1 DEF OpenDevice
  <2>. QED
    BY <2>1, <2>4, <2>5 DEF OpenDevice
<1>2. CASE \/ SetFormat(w, "csi", "csi_fmt", "mxc_fmt") \/ SetFormat(w, "mxc", "mxc_fmt", "reqbufs")
           \/ InitFails(w, {"csi_fmt", "mxc_fmt", "reqbufs", "map", "qbuf"})
  BY <1>2 DEF SetFormat, InitFails
<1>3. CASE RequestBuffers(w)
  BY <1>3 DEF RequestBuffers
<1>4. CASE MapBuffer(w) \/ QueueBuffer(w)
  <2>1. /\ granted[w] \in 0..MaxGranted /\ count[w] \in 1..granted[w]
        /\ This(w) \in Workers
    BY <1>4 DEF MapBuffer, QueueBuffer, Control, CountOK, Choosing
  <2>4. count[w] \in Buffers
    BY <2>1, GrantedBuffers
  <2>2. CASE MapBuffer(w)
    <3>1. crashed' \in BOOLEAN
      BY <2>2, Zenon DEF MapBuffer, Outcomes
    <3>. QED
      BY <2>1, <2>2, <2>4, <3>1 DEF MapBuffer
  <2>3. CASE QueueBuffer(w)
    <3>1. Device(w, "mxc") \in Workers
      BY <2>3 DEF QueueBuffer, IsOpen, Devices
    <3>. QED
      BY <2>1, <2>3, <2>4, <3>1 DEF QueueBuffer
  <2>. QED
    BY <1>4, <2>2, <2>3
<1>5. CASE open_stream(w)
  <2>1. IsOpen(w, "mxc") => Device(w, "mxc") \in Workers
    BY DEF IsOpen, Devices
  <2>. QED
    BY <1>5, <2>1 DEF open_stream
<1>6. CASE StreamOff(w)
  BY <1>6 DEF StreamOff
<1>7. CASE UnmapBuffers(w)
  <2>1. crashed' \in BOOLEAN
    BY <1>7, Zenon DEF UnmapBuffers, Outcomes
  <2>. QED
    BY <1>7, <2>1 DEF UnmapBuffers
<1>8. CASE CloseDevices(w)
  BY <1>8 DEF CloseDevices
<1>. QED
  BY <1>1, <1>2, <1>3, <1>4, <1>5, <1>6, <1>7, <1>8 DEF intialize_stream, close_stream

LEMMA ImageControl ==
  ASSUME Control, NEW w \in Workers, IMG_acquire(w) \/ get_IMG(w)
  PROVE  Control'
<1>. USE AllLabels DEF Goto, Choosing, Loops
<1>. DEFINE straight == pc[w] \notin Choosing \cup Loops
<1>. granted[w] \in 0..MaxGranted /\ bytes[w] \in 0..ImageChunks + 1 /\ bytes[w] \in Nat
  BY PrbAssumption DEF Control
<1>1. straight => count[w] = 1
  BY DEF Control, CountOK
<1>2. ASSUME straight, NEW label \in Labels \ (Choosing \cup Loops), pc' = [pc EXCEPT ![w] = label],
             UNCHANGED <<pPRB_IMG, uniqueInstance, count, granted, bytes>>
      PROVE  Control'
  BY <1>1, <1>2, StepFromStraight
<1>. HIDE DEF straight
<1>4. CASE Lock(w, "lock", "dequeue") \/ Lock(w, "relock", "again") \/ Lock(w, "get", "copy")
  <2>1. count' = [count EXCEPT ![w] = 1] /\ 1 \in Nat
        /\ CountOK("copy", 1, granted[w], bytes[w])
        /\ CountOK("dequeue", 1, granted[w], bytes[w])
        /\ CountOK("again", 1, granted[w], bytes[w])
    BY <1>1, <1>4, NumbersInRange DEF Lock, CountOK, straight, Control
  <2>. QED
    BY <1>4, <2>1, StepCounts DEF Lock
<1>5. CASE Unlock(w, "unlock", "relock") \/ Unlock(w, "release", "get")
           \/ Unlock(w, "copied", "done")
  BY <1>2, <1>5 DEF Unlock, straight
<1>6. CASE Dequeue(w)
  <2>1. PICK b \in 0..ImageChunks + 1 : bytes' = [bytes EXCEPT ![w] = b]
    BY <1>6, NumbersInRange DEF Dequeue
  <2>2. bytes'[w] = b
    BY <2>1 DEF Control
  <2>. DEFINE label == IF b = 0 THEN "release" ELSE IF pc[w] = "dequeue" THEN "fill" ELSE "refill"
  <2>3. pc' = [pc EXCEPT ![w] = label] /\ count' = [count EXCEPT ![w] = 1]
        /\ granted' = [granted EXCEPT ![w] = granted[w]]
        /\ UNCHANGED <<pPRB_IMG, uniqueInstance>> /\ pc[w] \notin Choosing
    BY <1>1, <1>6, <2>2 DEF Dequeue, straight, memberVars, Control
  <2>4. b # 0 => 1 \in 1..b
    BY PrbAssumption
  <2>5. CountOK(label, 1, granted[w], b) /\ label \in Labels \ Choosing /\ 1 \in Nat
    BY <2>4 DEF CountOK
  <2>. HIDE DEF label
  <2>. QED
    BY <2>1, <2>3, <2>5, StepControl
<1>7. CASE DequeueFails(w)
  BY <1>2, <1>7 DEF DequeueFails, straight, memberVars
<1>8. CASE Fill(w)
  <2>. DEFINE n == IF count[w] = bytes[w] THEN 1 ELSE count[w] + 1
              label == IF count[w] < bytes[w] THEN pc[w]
                       ELSE IF pc[w] = "fill" /\ ~IMX8_SOM THEN "unlock" ELSE "release"
  <2>1. pc[w] \in {"fill", "refill"} /\ count[w] \in 1..bytes[w]
    BY <1>8 DEF Fill, Control, CountOK
  <2>2. n \in Nat /\ n \in 1..bytes[w] /\ (label # pc[w] => n = 1)
    BY <2>1, Turn
  <2>3. label \in {"fill", "refill", "unlock", "release"}
        /\ CountOK(label, n, granted[w], bytes[w])
    BY <2>1, <2>2 DEF CountOK
  <2>4. pc' = [pc EXCEPT ![w] = label] /\ count' = [count EXCEPT ![w] = n]
        /\ UNCHANGED <<pPRB_IMG, uniqueInstance, granted, bytes>>
    BY <1>8 DEF Fill, Advance
  <2>. HIDE DEF n, label
  <2>. QED
    BY <2>1, <2>2, <2>3, <2>4, StepCounts
<1>9. CASE CopyChunk(w)
  <2>. DEFINE n == IF count[w] = ImageChunks THEN 1 ELSE count[w] + 1
              label == IF count[w] = ImageChunks THEN "copied" ELSE "copy"
  <2>1. pc[w] = "copy" /\ count[w] \in Chunks
    BY <1>9 DEF CopyChunk, Control, CountOK
  <2>2. n \in Nat /\ n \in Chunks /\ (label = "copied" => n = 1)
    BY <2>1, NumbersInRange
  <2>3. CountOK(label, n, granted[w], bytes[w])
    BY <2>2 DEF CountOK
  <2>4. pc' = [pc EXCEPT ![w] = label] /\ count' = [count EXCEPT ![w] = n]
        /\ UNCHANGED <<pPRB_IMG, uniqueInstance, granted, bytes>>
    BY <1>9 DEF CopyChunk, Advance, memberVars
  <2>. HIDE DEF n
  <2>. QED
    BY <2>1, <2>2, <2>3, <2>4, StepCounts
<1>. QED
  BY <1>4, <1>5, <1>6, <1>7, <1>8, <1>9 DEF IMG_acquire, get_IMG

LEMMA ImageData ==
  ASSUME Typed, NEW w \in Workers, IMG_acquire(w) \/ get_IMG(w)
  PROVE  Data'
<1>. USE DEF Typed, Data, memberVars, kernelVars, history
<1>1. ASSUME NEW label, NEW next, Lock(w, label, next) \/ Unlock(w, label, next) PROVE Data'
  <2>1. \/ connection_mutex' = [connection_mutex EXCEPT ![This(w)] = w]
        \/ connection_mutex' = [connection_mutex EXCEPT ![This(w)] = null]
    BY <1>1 DEF Lock, Unlock
  <2>2. connection_mutex' \in [Workers -> Workers \cup {null}]
    BY <2>1
  <2>. QED
    BY <1>1, <2>2 DEF Lock, Unlock
<1>2. CASE Dequeue(w)
  <2>1. crashed' \in BOOLEAN
    <3>1. CASE UNCHANGED crashed
      BY <3>1
    <3>2. ASSUME ~UNCHANGED crashed PROVE crashed' \in BOOLEAN
      <4>1. PICK index \in Buffers, length \in 0..ImageChunks + 1 :
               crashed' = (\/ length > ImageChunks
                           \/ /\ length > 0
                              /\ <<p_dma_buffers[This(w)], index>> \notin mapped)
        BY <1>2, <3>2 DEF Dequeue
      <4>. QED
        BY <4>1, Zenon
    <3>. QED
      BY <3>1, <3>2
  <2>2. queued' \subseteq queued
        /\ UNCHANGED <<IMX8_SOM, fd, p_dma_buffers, connection_mutex, img_buf, buffer, opened,
                       streaming, mapped, initFailed, stopFailed, overlapped>>
    BY <1>2 DEF Dequeue
  <2>. QED
    BY <2>1, <2>2
<1>5. CASE DequeueFails(w)
  BY <1>5 DEF DequeueFails
<1>3. CASE Fill(w)
  <2>1. FrameOf(w) \in Frames
    BY DEF FrameOf, Frames
  <2>. QED
    BY <1>3, <2>1 DEF Fill
<1>4. CASE CopyChunk(w)
  <2>1. img_buf[This(w)][count[w]] \in Frames
    BY <1>4 DEF CopyChunk, Control, CountOK, Choosing
  <2>. QED
    BY <1>4, <2>1 DEF CopyChunk
<1>. QED
  BY <1>1, <1>2, <1>3, <1>4, <1>5 DEF IMG_acquire, get_IMG

LEMMA AlwaysTyped == Spec => []Typed
<1>1. Init => Typed
  <2>1. blank \in Frames
    BY DEF Frames
  <2>2. Init => Control
    BY NumbersInRange, AllLabels DEF Init, Control, CountOK, Choosing
  <2>3. ASSUME Init PROVE Data
    <3>1. [k \in Chunks |-> blank] \in [Chunks -> Frames]
      BY <2>1
    <3>2. img_buf \in [Workers -> [Chunks -> Frames]] /\ buffer \in [Workers -> [Chunks -> Frames]]
      BY <2>3, <3>1 DEF Init
    <3>3. fd \in [Workers -> [Devices -> Workers \cup {null}]]
      BY <2>3 DEF Init
    <3>4. opened \in [Devices -> SUBSET Workers]
      BY <2>3 DEF Init
    <3>5. crashed \in BOOLEAN /\ overlapped \in BOOLEAN
      BY <2>3 DEF Init
    <3>. QED
      BY <2>3, <3>2, <3>3, <3>4, <3>5 DEF Init, Data
  <2>. QED
    BY <2>2, <2>3 DEF Typed
<1>2. Typed /\ [Next]_vars => Typed'
  <2>1. ASSUME Typed, UNCHANGED vars PROVE Typed'
    BY <2>1 DEF vars, Typed, Control, Data, This, memberVars, threadVars, kernelVars, history
  <2>. QED
    BY <2>1, InstanceTyping, StreamControl, StreamData, ImageControl, ImageData
       DEF Next, work, Typed
<1>. QED
  BY <1>1, <1>2, PTL DEF Spec

(* Every variable stays in its range, and no loop of a thread goes beyond    *)
(* the buffers that were granted to it, the frame it dequeued, or the image, *)
(* whatever call fails and wherever the threads overlap.                     *)
THEOREM Typing == Spec => []TypeOK
<1>1. Typed => TypeOK
  BY DEF Typed, Control, Data, CountOK, TypeOK
<1>. QED
  BY <1>1, AlwaysTyped, PTL

(***************************************************************************)
(* The mutex.  Who is inside of it, or gave up inside of it, holds it.     *)
(***************************************************************************)

Inside == {"dequeue", "again", "fill", "refill", "unlock", "release", "copy", "copied", "failed"}
Held   == \A w \in Workers : pc[w] \in Inside => connection_mutex[This(w)] = w

LEMMA OneInside ==
  ASSUME Held, NEW v \in Workers, NEW w \in Workers, This(v) = This(w),
         pc[v] \in Inside, pc[w] \in Inside
  PROVE  v = w
  BY DEF Held

(* Outside of the mutex nothing that it protects changes. *)
LEMMA StepsOutside ==
  ASSUME Typed, NEW w \in Workers,
         getInstance(w) \/ intialize_stream(w) \/ open_stream(w) \/ close_stream(w)
  PROVE  /\ UNCHANGED <<IMX8_SOM, connection_mutex, img_buf, buffer>>
         /\ pc[w] \notin Inside \cup {"done"}
         /\ \E label \in Labels \ (Inside \cup {"done"}) : pc' = [pc EXCEPT ![w] = label]
         /\ \/ UNCHANGED pPRB_IMG
            \/ \E i \in Workers : pc[w] = "return" /\ pPRB_IMG' = [pPRB_IMG EXCEPT ![w] = i]
<1>. USE AllLabels DEF Goto, Inside
<1>1. CASE getInstance(w)
  BY <1>1 DEF getInstance, TestInstance, NewInstance, ReturnInstance, memberVars, Typed, Control
<1>2. CASE \E d \in Devices : OpenDevice(w, d)
  <2>1. PICK d \in {"mxc", "csi", "prb"} : OpenDevice(w, d)
    BY <1>2 DEF Devices
  <2>2. AfterOpen[d] \in {"csi", "prb", "csi_fmt"}
    BY DEF AfterOpen
  <2>. QED
    BY <2>1, <2>2 DEF OpenDevice
<1>3. CASE intialize_stream(w) /\ ~(\E d \in Devices : OpenDevice(w, d))
  BY <1>3 DEF intialize_stream, SetFormat, RequestBuffers, MapBuffer, QueueBuffer, InitFails,
     memberVars
<1>4. CASE open_stream(w) \/ close_stream(w)
  BY <1>4 DEF open_stream, close_stream, StreamOff, UnmapBuffers, CloseDevices, memberVars
<1>. QED
  BY <1>1, <1>2, <1>3, <1>4

LEMMA HeldNext ==
  ASSUME Typed, Held, [Next]_vars
  PROVE  Held'
<1>1. CASE UNCHANGED vars
  BY <1>1 DEF vars, Held, This, memberVars, threadVars
<1>2. ASSUME NEW w \in Workers, work(w) PROVE Held'
  <2>1. SUFFICES ASSUME NEW v \in Workers, pc'[v] \in Inside
                 PROVE  connection_mutex'[This(v)'] = v
    BY DEF Held
  <2>. pc \in [Workers -> Labels] /\ null \notin Workers
    BY PrbAssumption DEF Typed, Control
  <2>. connection_mutex \in [Workers -> Workers \cup {null}]
       /\ (pc[v] \in Inside => This(v) \in Workers) /\ pPRB_IMG \in [Workers -> Workers \cup {null}]
    BY DEF Typed, Control, Data, Inside, Choosing
  <2>2. CASE getInstance(w) \/ intialize_stream(w) \/ open_stream(w) \/ close_stream(w)
    BY <2>1, <2>2, StepsOutside DEF Held, This
  <2>3. ASSUME NEW label, NEW next, Lock(w, label, next), pc[w] \in {"lock", "relock", "get"}
        PROVE  connection_mutex'[This(v)'] = v
    <3>1. This(w) \in Workers /\ UNCHANGED pPRB_IMG
      BY <2>3 DEF Lock, Typed, Control, Choosing
    <3>. QED
      BY <2>1, <2>3, <3>1 DEF Lock, Goto, MutexFree, Held, This
  <2>4. ASSUME NEW label, NEW next, next \notin Inside, Unlock(w, label, next),
               pc[w] \in Inside
        PROVE  connection_mutex'[This(v)'] = v
    <3>1. v # w /\ pc[v] \in Inside /\ UNCHANGED pPRB_IMG
      BY <2>1, <2>4 DEF Unlock, Goto
    <3>2. This(v) # This(w)
      BY <2>4, <3>1, OneInside
    <3>. QED
      BY <2>4, <3>1, <3>2 DEF Unlock, Held, This
  <2>5. CASE Dequeue(w) \/ DequeueFails(w) \/ Fill(w) \/ CopyChunk(w)
    <3>1. pc[v] \in Inside /\ UNCHANGED <<pPRB_IMG, connection_mutex>>
      BY <2>1, <2>5 DEF Dequeue, DequeueFails, Fill, CopyChunk, Goto, Inside, memberVars
    <3>. QED
      BY <3>1 DEF Held, This
  <2>6. CASE IMG_acquire(w) \/ get_IMG(w)
    BY <2>3, <2>4, <2>5, <2>6 DEF IMG_acquire, get_IMG, Lock, Unlock, Inside
  <2>. QED
    BY <1>2, <2>2, <2>6 DEF work
<1>. QED
  BY <1>1, <1>2 DEF Next

LEMMA AlwaysHeld == Spec => []Held
<1>1. Init => Held
  BY DEF Init, Held, Inside
<1>. QED
  BY <1>1, HeldNext, AlwaysTyped, PTL DEF Spec

(* A dequeue that failed keeps the mutex of its instance for ever, and the   *)
(* image there stays what it is.                                             *)
THEOREM AbandonedForEver == Spec => StaysAbandoned
<1>1. ASSUME Typed, Held, [Next]_vars
      PROVE  [\A i \in Workers : Abandoned(i) => Abandoned(i)' /\ img_buf'[i] = img_buf[i]]_vars
  <2>1. SUFFICES ASSUME NEW w \in Workers, work(w), NEW i \in Workers, NEW v \in Workers,
                        pc[v] = "failed", connection_mutex[i] = v
                 PROVE  pc'[v] = "failed" /\ connection_mutex'[i] = v /\ img_buf'[i] = img_buf[i]
    BY <1>1 DEF Next, Abandoned
  <2>. /\ pc \in [Workers -> Labels] /\ null \notin Workers
       /\ connection_mutex \in [Workers -> Workers \cup {null}]
       /\ img_buf \in [Workers -> [Chunks -> Frames]]
    BY <1>1, PrbAssumption DEF Typed, Control, Data
  <2>2. CASE getInstance(w) \/ intialize_stream(w) \/ open_stream(w) \/ close_stream(w)
    BY <1>1, <2>1, <2>2, StepsOutside DEF Inside
  <2>3. pc[w] \in Inside => (w # v => connection_mutex[This(w)] = w)
    BY <1>1 DEF Held
  <2>4. ASSUME NEW label, NEW next, Lock(w, label, next), label \in {"lock", "relock", "get"}
        PROVE  pc'[v] = "failed" /\ connection_mutex'[i] = v /\ img_buf'[i] = img_buf[i]
    BY <2>1, <2>4 DEF Lock, Goto, MutexFree
  <2>5. ASSUME NEW label, NEW next, Unlock(w, label, next),
               label \in {"unlock", "release", "copied"}
        PROVE  pc'[v] = "failed" /\ connection_mutex'[i] = v /\ img_buf'[i] = img_buf[i]
    <3>1. w # v /\ This(w) # i
      BY <2>1, <2>3, <2>5 DEF Unlock, Inside
    <3>. QED
      BY <2>1, <2>5, <3>1 DEF Unlock, Goto
  <2>6. CASE Fill(w)
    <3>1. w # v /\ This(w) # i
      BY <2>1, <2>3, <2>6 DEF Fill, Inside
    <3>. QED
      BY <2>1, <2>6, <3>1 DEF Fill
  <2>7. CASE Dequeue(w) \/ DequeueFails(w) \/ CopyChunk(w)
    BY <2>1, <2>7 DEF Dequeue, DequeueFails, CopyChunk, Goto, memberVars
  <2>. QED
    BY <2>1, <2>2, <2>4, <2>5, <2>6, <2>7 DEF work, IMG_acquire, get_IMG
<1>. QED
  BY <1>1, AlwaysTyped, AlwaysHeld, PTL DEF Spec, StaysAbandoned

(***************************************************************************)
(* The register.  Its image of an instance is what the image will be when  *)
(* the frame that is being written is written; who copies it has what is   *)
(* there up to its counter, for nobody writes meanwhile.                   *)
(***************************************************************************)

Writing(w) == pc[w] \in {"fill", "refill"}
Copied == \A w \in Workers : pc[w] = "copy" =>
             \A k \in Chunks : k < count[w] => buffer[w][k] = img_buf[This(w)][k]

Images == [i \in Workers |-> Image(i)]
Got    == [w \in Workers |-> Received(w)]

(* Where the thread at work neither writes before its step nor after it, and *)
(* a mutex changes hands only between such threads, no image changes.        *)
LEMMA ImagesKept ==
  ASSUME Typed, NEW w \in Workers, ~Writing(w), ~Writing(w)',
         UNCHANGED <<img_buf, bytes>>,
         \A v \in Workers \ {w} : UNCHANGED <<pc[v], count[v], pPRB_IMG[v]>>,
         \A i \in Workers : \/ UNCHANGED connection_mutex[i]
                            \/ /\ connection_mutex[i] \in {null, w}
                               /\ connection_mutex'[i] \in {null, w}
  PROVE  UNCHANGED Images
<1>1. SUFFICES ASSUME NEW i \in Workers, NEW k \in Chunks
               PROVE  /\ Pending(i, k)' <=> Pending(i, k)
                      /\ Pending(i, k) => FrameOf(connection_mutex[i])' = FrameOf(connection_mutex[i])
                                          /\ UNCHANGED connection_mutex[i]
  BY DEF Images, Image, FrameOf
<1>. DEFINE h == connection_mutex[i]
<1>2. h \in Workers \cup {null}
  BY DEF Typed, Data
<1>3. CASE h = w \/ h = null
  <2>1. connection_mutex'[i] \in {null, w}
    BY <1>3
  <2>. QED
    BY <1>3, <2>1 DEF Pending, Writing
<1>4. CASE h # w /\ h # null
  <2>1. UNCHANGED connection_mutex[i] /\ h \in Workers \ {w}
    BY <1>2, <1>4
  <2>2. UNCHANGED <<pc[h], count[h], pPRB_IMG[h], bytes[h]>>
    BY <2>1
  <2>. QED
    BY <2>1, <2>2 DEF Pending, FrameOf, This
<1>. QED
  BY <1>3, <1>4

(* A step that neither dequeues a frame, nor writes or copies a part. *)
LEMMA StepsBetween ==
  ASSUME Typed, Held, Copied, NEW w \in Workers, work(w), ~Dequeue(w), ~Fill(w), ~CopyChunk(w)
  PROVE  Copied' /\ UNCHANGED <<Images, Got>>
<1>. pc \in [Workers -> Labels] /\ count \in [Workers -> Nat]
     /\ pPRB_IMG \in [Workers -> Workers \cup {null}]
     /\ connection_mutex \in [Workers -> Workers \cup {null}]
  BY DEF Typed, Control, Data
<1>. \A k \in Chunks : ~(k < 1)
  BY DEF Chunks
<1>1. ASSUME NEW label \in Labels \ {"fill", "refill"}, pc' = [pc EXCEPT ![w] = label],
             UNCHANGED <<img_buf, buffer, bytes>>, ~Writing(w), pc[w] # "copy",
             \A v \in Workers \ {w} : UNCHANGED <<count[v], pPRB_IMG[v]>>,
             label = "copy" => count'[w] = 1,
             pc[w] \in {"copied", "done"} <=> label \in {"copied", "done"},
             \A i \in Workers : \/ UNCHANGED connection_mutex[i]
                                \/ /\ connection_mutex[i] \in {null, w}
                                   /\ connection_mutex'[i] \in {null, w}
      PROVE  Copied' /\ UNCHANGED <<Images, Got>>
  <2>1. ~Writing(w)' /\ \A v \in Workers \ {w} : UNCHANGED pc[v]
    BY <1>1 DEF Writing
  <2>2. UNCHANGED Images
    BY <1>1, <2>1, ImagesKept
  <2>3. UNCHANGED Got
    BY <1>1 DEF Got, Received
  <2>4. ASSUME NEW v \in Workers, pc'[v] = "copy", NEW k \in Chunks, k < count'[v]
        PROVE  buffer'[v][k] = img_buf'[This(v)'][k]
    BY <1>1, <2>4 DEF Copied, This
  <2>. QED
    BY <2>2, <2>3, <2>4 DEF Copied
<1>2. CASE getInstance(w) \/ intialize_stream(w) \/ open_stream(w) \/ close_stream(w)
  <2>1. PICK label \in Labels \ (Inside \cup {"done"}) : pc' = [pc EXCEPT ![w] = label]
    BY <1>2, StepsOutside
  <2>2. UNCHANGED <<img_buf, buffer, connection_mutex>> /\ pc[w] \notin Inside \cup {"done"}
        /\ \A v \in Workers \ {w} : UNCHANGED pPRB_IMG[v]
    BY <1>2, StepsOutside
  <2>3. UNCHANGED bytes /\ \A v \in Workers \ {w} : UNCHANGED count[v]
    BY <1>2 DEF getInstance, TestInstance, NewInstance, ReturnInstance, intialize_stream,
       OpenDevice, SetFormat, RequestBuffers, MapBuffer, QueueBuffer, InitFails, Advance,
       open_stream, close_stream, StreamOff, UnmapBuffers, CloseDevices
  <2>. QED
    BY <1>1, <2>1, <2>2, <2>3 DEF Inside, Writing
<1>3. CASE Lock(w, "lock", "dequeue") \/ Lock(w, "relock", "again") \/ Lock(w, "get", "copy")
  <2>1. PICK label \in {"dequeue", "again", "copy"} : pc' = [pc EXCEPT ![w] = label]
    BY <1>3 DEF Lock, Goto
  <2>2. /\ UNCHANGED <<img_buf, buffer, pPRB_IMG, count, bytes>>
        /\ pc[w] \in {"lock", "relock", "get"}
        /\ connection_mutex[This(w)] = null
        /\ connection_mutex' = [connection_mutex EXCEPT ![This(w)] = w]
    BY <1>3 DEF Lock, MutexFree
  <2>3. count[w] = 1
    BY <2>2 DEF Typed, Control, CountOK, Loops
  <2>4. \A i \in Workers : \/ UNCHANGED connection_mutex[i]
                           \/ connection_mutex[i] = null /\ connection_mutex'[i] = w
    BY <2>2
  <2>5. label \in Labels
    BY <2>1, AllLabels
  <2>. QED
    BY <1>1, <2>1, <2>2, <2>3, <2>4, <2>5 DEF Writing
<1>4. CASE \/ Unlock(w, "unlock", "relock") \/ Unlock(w, "release", "get")
           \/ Unlock(w, "copied", "done")
  <2>1. PICK label \in {"relock", "get", "done"} :
          pc' = [pc EXCEPT ![w] = label] /\ (pc[w] = "copied" <=> label = "done")
    BY <1>4 DEF Unlock, Goto
  <2>2. /\ UNCHANGED <<img_buf, buffer, pPRB_IMG, count, bytes>>
        /\ pc[w] \in {"unlock", "release", "copied"}
        /\ connection_mutex' = [connection_mutex EXCEPT ![This(w)] = null]
    BY <1>4 DEF Unlock
  <2>3. connection_mutex[This(w)] = w
    BY <2>2 DEF Held, Inside
  <2>4. \A i \in Workers : \/ UNCHANGED connection_mutex[i]
                           \/ connection_mutex[i] = w /\ connection_mutex'[i] = null
    BY <2>2, <2>3
  <2>5. label \in Labels
    BY <2>1, AllLabels
  <2>. QED
    BY <1>1, <2>1, <2>2, <2>4, <2>5 DEF Writing
<1>5. CASE DequeueFails(w)
  <2>1. pc' = [pc EXCEPT ![w] = "failed"] /\ pc[w] = "dequeue" /\ "failed" \in Labels
        /\ UNCHANGED <<img_buf, buffer, pPRB_IMG, count, bytes, connection_mutex>>
    BY <1>5, AllLabels DEF DequeueFails, Goto, memberVars
  <2>. QED
    BY <1>1, <2>1 DEF Writing
<1>. QED
  BY <1>2, <1>3, <1>4, <1>5 DEF work, IMG_acquire, get_IMG

(* With the dequeue of a frame the image becomes, at once, what it will be. *)
LEMMA StepDequeues ==
  ASSUME Typed, Held, Copied, NEW w \in Workers, Dequeue(w)
  PROVE  Copied' /\ [Register!Next]_<<Images, Got>>
<1>. /\ pc \in [Workers -> Labels] /\ count \in [Workers -> Nat]
     /\ bytes \in [Workers -> 0..ImageChunks + 1]
     /\ connection_mutex \in [Workers -> Workers \cup {null}] /\ null \notin Workers
     /\ This(w) \in Workers
  BY PrbAssumption DEF Typed, Control, Data, Dequeue, Choosing
<1>1. /\ UNCHANGED <<img_buf, buffer, pPRB_IMG, count, connection_mutex>>
      /\ pc[w] \in {"dequeue", "again"} /\ count[w] = 1 /\ connection_mutex[This(w)] = w
      /\ \A v \in Workers \ {w} : UNCHANGED pc[v]
      /\ pc'[w] = IF bytes'[w] = 0 THEN "release"
                  ELSE IF pc[w] = "dequeue" THEN "fill" ELSE "refill"
  <2>1. pc[w] \in {"dequeue", "again"} /\ pc[w] \notin Loops /\ pc[w] \in Inside
    BY DEF Dequeue, Loops, Inside
  <2>. QED
    BY <2>1 DEF Dequeue, Goto, memberVars, Held, Typed, Control, CountOK
<1>2. PICK b \in 0..ImageChunks + 1 : bytes' = [bytes EXCEPT ![w] = b]
  BY NumbersInRange DEF Dequeue
<1>3. bytes'[w] = b /\ \A v \in Workers \ {w} : UNCHANGED bytes[v]
  BY <1>2
<1>4. UNCHANGED Got
  <2>1. \A v \in Workers : pc'[v] \in {"copied", "done"} <=> pc[v] \in {"copied", "done"}
    BY <1>1
  <2>. QED
    BY <1>1, <2>1 DEF Got, Received
<1>5. Copied'
  <2>1. ASSUME NEW v \in Workers, pc'[v] = "copy", NEW k \in Chunks, k < count'[v]
        PROVE  buffer'[v][k] = img_buf'[This(v)'][k]
    BY <1>1, <2>1 DEF Copied, This
  <2>. QED
    BY <2>1 DEF Copied
<1>6. \A k \in Chunks : ~Pending(This(w), k)
  BY <1>1 DEF Pending
<1>7. \A i \in Workers \ {This(w)}, k \in Chunks :
         /\ Pending(i, k)' <=> Pending(i, k)
         /\ Pending(i, k) => FrameOf(connection_mutex[i])' = FrameOf(connection_mutex[i])
  <2>1. SUFFICES ASSUME NEW i \in Workers \ {This(w)}, NEW k \in Chunks
                 PROVE  /\ Pending(i, k)' <=> Pending(i, k)
                        /\ Pending(i, k) => FrameOf(connection_mutex[i])' = FrameOf(connection_mutex[i])
    OBVIOUS
  <2>. DEFINE h == connection_mutex[i]
  <2>2. CASE h = w \/ h = null
    BY <1>1, <2>1, <2>2 DEF Pending, This
  <2>3. CASE h \in Workers \ {w}
    <3>1. UNCHANGED <<pc[h], count[h], pPRB_IMG[h], bytes[h]>>
      BY <1>1, <1>3, <2>3
    <3>. QED
      BY <1>1, <2>3, <3>1 DEF Pending, FrameOf, This
  <2>. QED
    BY <2>2, <2>3
<1>8. CASE b = 0
  <2>1. \A k \in Chunks : ~Pending(This(w), k)'
    BY <1>1, <1>3, <1>8 DEF Pending, This
  <2>2. \A i \in Workers, k \in Chunks : Image(i)'[k] = Image(i)[k]
    <3>1. SUFFICES ASSUME NEW i \in Workers, NEW k \in Chunks PROVE Image(i)'[k] = Image(i)[k]
      OBVIOUS
    <3>2. CASE i = This(w)
      BY <1>1, <1>6, <2>1, <3>2 DEF Image, This
    <3>3. CASE i # This(w)
      BY <1>1, <1>7, <3>3 DEF Image
    <3>. QED
      BY <3>2, <3>3
  <2>3. UNCHANGED Images
    BY <2>2 DEF Images, Image
  <2>. QED
    BY <1>4, <1>5, <2>3
<1>9. CASE b # 0
  <2>. DEFINE frame  == FrameOf(w)'
              length == IF b > ImageChunks THEN ImageChunks ELSE b
  <2>1. \A k \in Chunks : k \in 1..b <=> k <= length
    BY PrbAssumption DEF Chunks
  <2>2. \A k \in Chunks : Pending(This(w), k)' <=> k <= length
    BY <1>1, <1>3, <1>9, <2>1 DEF Pending, This
  <2>3. ASSUME NEW i \in Workers, i = This(w)
        PROVE  Image(i)' = [k \in Chunks |-> IF k <= length THEN frame ELSE Image(i)[k]]
    <3>1. ASSUME NEW k \in Chunks
          PROVE  /\ Pending(i, k)' <=> k <= length
                 /\ ~Pending(i, k)
      BY <1>1, <1>6, <2>2, <2>3 DEF This
    <3>2. connection_mutex'[i] = w
      BY <1>1, <2>3
    <3>3. Image(i)' = [k \in Chunks |-> IF Pending(i, k)' THEN frame ELSE img_buf[i][k]]
      BY <1>1, <3>2 DEF Image
    <3>4. Image(i) = [k \in Chunks |-> img_buf[i][k]]
      BY <3>1 DEF Image
    <3>. QED
      BY <3>1, <3>3, <3>4
  <2>4. \A i \in Workers : i # This(w) => Image(i)' = Image(i)
    <3>1. SUFFICES ASSUME NEW i \in Workers, i # This(w) PROVE Image(i)' = Image(i)
      OBVIOUS
    <3>. QED
      BY <1>1, <1>7, <3>1 DEF Image
  <2>5. Images' = [Images EXCEPT ![This(w)] =
                      [k \in Chunks |-> IF k <= length THEN frame ELSE Images[This(w)][k]]]
    <3>1. \A i \in Workers : Images[i] = Image(i) /\ Images'[i] = Image(i)'
      BY DEF Images
    <3>2. \A i \in Workers : Images'[i] =
             IF i = This(w) THEN [k \in Chunks |-> IF k <= length THEN frame ELSE Images[This(w)][k]]
             ELSE Images[i]
      BY <2>3, <2>4, <3>1
    <3>3. Images = [i \in Workers |-> Images[i]] /\ Images' = [i \in Workers |-> Images'[i]]
      BY DEF Images
    <3>. HIDE DEF Images
    <3>. QED
      BY <3>2, <3>3
  <2>6. frame \in Frames /\ length \in Chunks
    BY <1>9, PrbAssumption DEF FrameOf, Frames, Chunks
  <2>. HIDE DEF frame, length
  <2>7. Register!Acquire(This(w))
    BY <1>4, <2>5, <2>6 DEF Register!Acquire, Register!Parts, Images, Got, Chunks
  <2>. QED
    BY <1>5, <2>7 DEF Register!Next
<1>. QED
  BY <1>8, <1>9

(* Each part that is written has been counted as written. *)
LEMMA StepFills ==
  ASSUME Typed, Held, Copied, NEW w \in Workers, Fill(w)
  PROVE  Copied' /\ UNCHANGED <<Images, Got>>
<1>. /\ pc \in [Workers -> Labels] /\ count \in [Workers -> Nat]
     /\ bytes \in [Workers -> 0..ImageChunks + 1]
     /\ connection_mutex \in [Workers -> Workers \cup {null}] /\ null \notin Workers
     /\ img_buf \in [Workers -> [Chunks -> Frames]]
     /\ This(w) \in Workers /\ count[w] \in 1..bytes[w]
  BY PrbAssumption DEF Typed, Control, Data, CountOK, Fill, Choosing
<1>. bytes[w] \in Nat
  BY PrbAssumption
<1>1. /\ UNCHANGED <<buffer, pPRB_IMG, bytes, connection_mutex>>
      /\ pc[w] \in {"fill", "refill"}
      /\ \A v \in Workers \ {w} : UNCHANGED <<pc[v], count[v]>>
      /\ \A i \in Workers, k \in Chunks : img_buf'[i][k] =
            IF i = This(w) /\ k = count[w] THEN FrameOf(w) ELSE img_buf[i][k]
  BY DEF Fill, Advance
<1>2. \/ count[w] < bytes[w] /\ pc'[w] = pc[w] /\ count'[w] = count[w] + 1
      \/ count[w] = bytes[w] /\ pc'[w] \in {"unlock", "release"}
  <2>1. /\ count' = [count EXCEPT ![w] = IF @ = bytes[w] THEN 1 ELSE @ + 1]
        /\ pc' = [pc EXCEPT ![w] = IF count[w] < bytes[w] THEN @
                                   ELSE IF @ = "fill" /\ ~IMX8_SOM THEN "unlock" ELSE "release"]
    BY DEF Fill, Advance
  <2>3. \A last \in Nat : \A n \in 1..last : (n # last => n < last) /\ (n = last => ~(n < last))
    BY Turn
  <2>2. \/ count[w] < bytes[w] /\ count[w] # bytes[w]
        \/ count[w] = bytes[w] /\ ~(count[w] < bytes[w])
    BY <2>3
  <2>. QED
    BY <2>1, <2>2
<1>3. connection_mutex[This(w)] = w /\ \A v \in Workers \ {w} : pc[v] \in Inside => This(v) # This(w)
  BY <1>1, OneInside DEF Held, Inside
<1>4. UNCHANGED Got
  <2>1. \A v \in Workers : pc'[v] \in {"copied", "done"} <=> pc[v] \in {"copied", "done"}
    BY <1>1, <1>2
  <2>. QED
    BY <1>1, <2>1 DEF Got, Received
<1>5. Copied'
  <2>1. ASSUME NEW v \in Workers, pc'[v] = "copy", NEW k \in Chunks, k < count'[v]
        PROVE  buffer'[v][k] = img_buf'[This(v)'][k]
    <3>1. v # w /\ pc[v] = "copy" /\ UNCHANGED count[v] /\ This(v)' = This(v)
      BY <1>1, <1>2, <2>1 DEF This
    <3>2. This(v) # This(w) /\ This(v) \in Workers
      BY <1>3, <3>1 DEF Inside, Typed, Control, Choosing
    <3>. QED
      BY <1>1, <2>1, <3>1, <3>2 DEF Copied
  <2>. QED
    BY <2>1 DEF Copied
<1>6. ASSUME NEW i \in Workers, NEW k \in Chunks
      PROVE  Image(i)'[k] = Image(i)[k]
  <2>. DEFINE h == connection_mutex[i]
  <2>1. CASE i = This(w)
    <3>1. Pending(i, k) <=> k \in count[w]..bytes[w]
      BY <1>1, <1>3, <2>1 DEF Pending
    <3>2. Pending(i, k)' <=> k # count[w] /\ k \in count[w]..bytes[w]
      <4>1. Pending(i, k)' <=> pc'[w] \in {"fill", "refill"} /\ k \in count'[w]..bytes[w]
        BY <1>1, <1>3, <2>1 DEF Pending, This
      <4>2. k \in Nat
        BY DEF Chunks
      <4>3. CASE count[w] < bytes[w] /\ pc'[w] = pc[w] /\ count'[w] = count[w] + 1
        <5>1. Pending(i, k)' <=> k \in count[w] + 1 .. bytes[w]
          BY <1>1, <4>1, <4>3
        <5>. QED
          BY <4>2, <5>1
      <4>4. CASE count[w] = bytes[w] /\ pc'[w] \in {"unlock", "release"}
        BY <4>1, <4>2, <4>4
      <4>. QED
        BY <1>2, <4>3, <4>4
    <3>3. Pending(i, k)' => FrameOf(w)' = FrameOf(w)
      BY <1>2, <3>2 DEF FrameOf, Chunks
    <3>4. Image(i)[k] = IF Pending(i, k) THEN FrameOf(w) ELSE img_buf[i][k]
      BY <1>3, <2>1 DEF Image
    <3>5. Image(i)'[k] = IF Pending(i, k)' THEN FrameOf(w)' ELSE img_buf'[i][k]
      BY <1>1, <1>3, <2>1 DEF Image
    <3>6. img_buf'[i][k] = IF k = count[w] THEN FrameOf(w) ELSE img_buf[i][k]
      BY <1>1, <2>1
    <3>7. k = count[w] => k \in count[w]..bytes[w]
      OBVIOUS
    <3>. QED
      BY <3>1, <3>2, <3>3, <3>4, <3>5, <3>6, <3>7
  <2>2. CASE i # This(w)
    <3>1. img_buf'[i][k] = img_buf[i][k]
      BY <1>1, <2>2
    <3>2. Pending(i, k)' <=> Pending(i, k)
      BY <1>1, <2>2 DEF Pending, This
    <3>3. Pending(i, k) => h # w /\ h \in Workers
      BY <2>2 DEF Pending
    <3>4. Pending(i, k) => FrameOf(h)' = FrameOf(h)
      BY <1>1, <3>3 DEF FrameOf
    <3>. QED
      BY <1>1, <3>1, <3>2, <3>4 DEF Image
  <2>. QED
    BY <2>1, <2>2
<1>7. UNCHANGED Images
  BY <1>6 DEF Images, Image
<1>. QED
  BY <1>4, <1>5, <1>7

(* The last part that is copied completes a copy of the image. *)
LEMMA StepCopies ==
  ASSUME Typed, Held, Copied, NEW w \in Workers, CopyChunk(w)
  PROVE  Copied' /\ [Register!Next]_<<Images, Got>>
<1>. /\ pc \in [Workers -> Labels] /\ count \in [Workers -> Nat] /\ null \notin Workers
     /\ buffer \in [Workers -> [Chunks -> Frames]]
     /\ This(w) \in Workers /\ count[w] \in Chunks
  BY PrbAssumption DEF Typed, Control, Data, CountOK, CopyChunk, Choosing
<1>. \A k, n \in Chunks : k \in Nat /\ n \in Nat
          /\ (k < n + 1 => k < n \/ k = n) /\ (n = ImageChunks => k < n \/ k = n)
  BY PrbAssumption DEF Chunks
<1>1. /\ UNCHANGED <<pPRB_IMG, img_buf, bytes, connection_mutex>>
      /\ \A v \in Workers, k \in Chunks : buffer'[v][k] =
            IF v = w /\ k = count[w] THEN img_buf[This(w)][k] ELSE buffer[v][k]
      /\ count' = [count EXCEPT ![w] = IF @ = ImageChunks THEN 1 ELSE @ + 1]
      /\ pc' = [pc EXCEPT ![w] = IF count[w] = ImageChunks THEN "copied" ELSE "copy"]
      /\ pc[w] = "copy"
      /\ \A v \in Workers \ {w} : UNCHANGED <<pc[v], buffer[v], count[v]>>
      /\ buffer' \in [Workers -> [Chunks -> Frames]]
  <2>1. buffer' \in [Workers -> [Chunks -> Frames]]
    BY ImageData DEF get_IMG, Data
  <2>. QED
    BY <2>1 DEF CopyChunk, Advance, Goto, memberVars
<1>2. ASSUME NEW k \in Chunks, count[w] = ImageChunks \/ k < count'[w]
      PROVE  buffer'[w][k] = img_buf[This(w)][k]
  BY <1>1, <1>2 DEF Copied
<1>3. Copied'
  <2>1. ASSUME NEW v \in Workers, pc'[v] = "copy", NEW k \in Chunks, k < count'[v]
        PROVE  buffer'[v][k] = img_buf'[This(v)'][k]
    BY <1>1, <1>2, <2>1 DEF Copied, This
  <2>. QED
    BY <2>1 DEF Copied
<1>4. UNCHANGED Images
  BY <1>1, ImagesKept DEF Writing
<1>5. CASE pc'[w] = "copy"
  <2>1. UNCHANGED Got
    BY <1>1, <1>5 DEF Got, Received
  <2>. QED
    BY <1>3, <1>4, <2>1
<1>6. CASE pc'[w] = "copied"
  <2>1. count[w] = ImageChunks /\ \A k \in Chunks : ~Pending(This(w), k)
    <3>1. connection_mutex[This(w)] = w
      BY <1>1 DEF Held, Inside
    <3>. QED
      BY <1>1, <1>6, <3>1 DEF Pending
  <2>2. buffer'[w] = Images[This(w)]
    <3>1. \A k \in Chunks : buffer'[w][k] = img_buf[This(w)][k]
      BY <1>2, <2>1
    <3>2. Images[This(w)] = [k \in Chunks |-> img_buf[This(w)][k]]
      BY <2>1 DEF Images, Image
    <3>3. buffer'[w] = [k \in Chunks |-> buffer'[w][k]]
      BY <1>1
    <3>. QED
      BY <3>1, <3>2, <3>3
  <2>3. Got[w] = null /\ Got' = [Got EXCEPT ![w] = Images[This(w)]]
    <3>1. Got[w] = null /\ Got'[w] = buffer'[w]
      BY <1>1, <1>6 DEF Got, Received
    <3>2. \A v \in Workers \ {w} : Got'[v] = Got[v]
      BY <1>1 DEF Got, Received
    <3>. QED
      BY <2>2, <3>1, <3>2 DEF Got
  <2>4. Register!Get(w)
    BY <1>4, <2>3 DEF Register!Get, Images, Got
  <2>. QED
    BY <1>3, <2>4 DEF Register!Next
<1>. QED
  BY <1>1, <1>5, <1>6

LEMMA RegisterStep ==
  ASSUME Typed, Held, Copied, [Next]_vars
  PROVE  Copied' /\ [Register!Next]_<<Images, Got>>
<1>1. CASE UNCHANGED vars
  <2>1. Copied'
    BY <1>1 DEF vars, Copied, This, memberVars, threadVars
  <2>2. UNCHANGED Images
    BY <1>1 DEF vars, Images, Image, Pending, FrameOf, This, memberVars, threadVars
  <2>3. UNCHANGED Got
    BY <1>1 DEF vars, Got, Received, memberVars, threadVars
  <2>. QED
    BY <2>1, <2>2, <2>3
<1>. QED
  BY <1>1, StepsBetween, StepDequeues, StepFills, StepCopies DEF Next

(* PRB_IMG implements a register of images: in every interleaving of any     *)
(* number of threads, even on two instances of the singleton, a frame of any *)
(* length is put over the image at once, and who asks for the image receives *)
(* it as it was at one moment.                                               *)
THEOREM AcquiredAtOnce == Spec => ImplementsRegister
<1>1. Init => Register!Init /\ Copied
  <2>1. SUFFICES ASSUME Init PROVE Register!Init /\ Copied
    OBVIOUS
  <2>2. Images = [i \in Workers |-> [k \in Chunks |-> blank]]
    BY <2>1, PrbAssumption DEF Init, Images, Image, Pending
  <2>3. Images \in [Workers -> [Register!Parts -> Frames]]
    BY <2>2 DEF Frames, Register!Parts, Chunks
  <2>4. Got = [w \in Workers |-> null]
    BY <2>1 DEF Init, Got, Received
  <2>5. Copied
    BY <2>1 DEF Init, Copied
  <2>. QED
    BY <2>3, <2>4, <2>5 DEF Register!Init, Images, Got
<1>2. Typed /\ Held /\ Copied /\ [Next]_vars =>
        /\ Copied'
        /\ [Register!Next]_<<[i \in Workers |-> Image(i)], [w \in Workers |-> Received(w)]>>
  BY RegisterStep DEF Images, Got
<1>. QED
  BY <1>1, <1>2, AlwaysTyped, AlwaysHeld, PTL DEF Spec, ImplementsRegister, Register!Spec

(***************************************************************************)
(* The order of the driver's calls.  While no two threads overlap, the     *)
(* descriptors of an instance are those of the thread at work, and what it *)
(* has closed no longer streams.                                           *)
(***************************************************************************)

OneBusy   == \A v, w \in Workers : Busy(v) /\ Busy(w) => v = w
OwnDevice == \A w \in Workers :
                Busy(w) /\ pc[w] \notin Choosing \cup {"mxc"} => Device(w, "mxc") = w
ClosedBefore ==
    \A w \in Workers :
        /\ pc[w] \in {"unmap", "close", "lock", "dequeue"} => w \in stopFailed \/ w \notin streaming
        /\ pc[w] \in HasImage => w \in stopFailed
        /\ pc[w] \notin {"unlock", "relock", "again", "refill"}

Alone == (IMX8_SOM /\ ~overlapped) => OneBusy /\ OwnDevice /\ ClosedBefore

(* While no two threads overlap, the others have finished or not begun. *)
Idle(v) == pc[v] \in {"none", "done", "failed"} /\ pc'[v] = pc[v]

LEMMA OthersIdle ==
  ASSUME Typed, Alone, NEW w \in Workers, work(w), IMX8_SOM', ~overlapped'
  PROVE  /\ IMX8_SOM /\ ~overlapped
         /\ \A v \in Workers : v # w => Idle(v)
<1>. USE DEF Finished, Goto
<1>. pc \in [Workers -> Labels]
  BY DEF Typed, Control
<1>1. /\ IMX8_SOM' = IMX8_SOM
      /\ overlapped => overlapped'
      /\ TestInstance(w) /\ (\E v \in Workers : Busy(v)) => overlapped'
  <2>1. CASE TestInstance(w)
    BY <2>1 DEF TestInstance
  <2>2. CASE ~TestInstance(w)
    <3>1. UNCHANGED <<IMX8_SOM, overlapped>>
      BY <2>2 DEF work, getInstance, NewInstance, ReturnInstance, intialize_stream, OpenDevice,
         SetFormat, RequestBuffers, MapBuffer, QueueBuffer, InitFails, open_stream,
         close_stream, StreamOff, UnmapBuffers, CloseDevices, IMG_acquire, get_IMG, Lock,
         Unlock, Dequeue, DequeueFails, Fill, CopyChunk, history
    <3>2. IMX8_SOM' = IMX8_SOM /\ overlapped' = overlapped
      BY <3>1
    <3>. QED
      BY <2>2, <3>2, Zenon
  <2>. QED
    BY <2>1, <2>2
<1>2. IMX8_SOM /\ ~overlapped /\ ~(TestInstance(w) /\ \E v \in Workers : Busy(v))
  BY <1>1, Zenon
<1>3. OneBusy
  BY <1>2 DEF Alone
<1>4. \A v \in Workers : v # w => ~Busy(v)
  <2>1. ASSUME ~TestInstance(w) PROVE Busy(w)
    BY <2>1 DEF work, getInstance, NewInstance, ReturnInstance, intialize_stream, OpenDevice,
       SetFormat, RequestBuffers, MapBuffer, QueueBuffer, InitFails, open_stream, close_stream,
       StreamOff, UnmapBuffers, CloseDevices, IMG_acquire, get_IMG, Lock, Unlock, Dequeue,
       DequeueFails, Fill, CopyChunk, Devices, Busy
  <2>. QED
    BY <1>2, <1>3, <2>1 DEF OneBusy
<1>5. \A v \in Workers : v # w => pc'[v] = pc[v]
  BY DEF work, getInstance, TestInstance, NewInstance, ReturnInstance, intialize_stream,
     OpenDevice, SetFormat, RequestBuffers, MapBuffer, QueueBuffer, InitFails, open_stream,
     close_stream, StreamOff, UnmapBuffers, CloseDevices, IMG_acquire, get_IMG, Lock, Unlock,
     Dequeue, DequeueFails, Fill, CopyChunk
<1>. QED
  BY <1>2, <1>4, <1>5 DEF Busy, Idle

LEMMA AloneNext ==
  ASSUME Typed, Alone, [Next]_vars
  PROVE  Alone'
<1>. USE DEF Finished, Device, Goto
<1>. /\ pc \in [Workers -> Labels] /\ pPRB_IMG \in [Workers -> Workers \cup {null}]
     /\ fd \in [Workers -> [Devices -> Workers \cup {null}]]
     /\ \A w \in Workers : pc[w] \notin Choosing => This(w) \in Workers
  BY DEF Typed, Control, Data
<1>1. CASE UNCHANGED vars
  BY <1>1 DEF vars, Alone, OneBusy, OwnDevice, ClosedBefore, Busy, This, memberVars, threadVars,
     kernelVars, history
<1>2. SUFFICES ASSUME NEW w \in Workers, work(w), IMX8_SOM', ~overlapped'
               PROVE  OneBusy' /\ OwnDevice' /\ ClosedBefore'
  BY <1>1 DEF Next, Alone
<1>3. IMX8_SOM /\ ~overlapped /\ OneBusy /\ OwnDevice /\ ClosedBefore
  BY <1>2, OthersIdle DEF Alone
<1>. DEFINE Rest == \A v \in Workers : v # w => ~Busy(v) /\ pc'[v] = pc[v] /\ ~Busy(v)'
<1>4. Rest
  BY <1>2, OthersIdle DEF Busy, Idle
<1>5. CASE TestInstance(w)
  <2>1. pc'[w] \in {"new", "return"} /\ UNCHANGED <<fd, streaming, stopFailed, pPRB_IMG>>
    BY <1>5 DEF TestInstance, memberVars, kernelVars
  <2>. QED
    BY <1>3, <1>4, <2>1 DEF OneBusy, OwnDevice, ClosedBefore, Busy, Choosing, HasImage
(* What is left to show of a step by the only thread at work. *)
<1>7. ASSUME Rest,
             pc'[w] \notin Choosing \cup {"mxc"} \cup Finished => Device(w, "mxc")' = w,
             pc'[w] \in {"unmap", "close", "lock", "dequeue"} => w \in stopFailed' \/ w \notin streaming',
             pc'[w] \in HasImage => w \in stopFailed',
             pc'[w] \notin {"unlock", "relock", "again", "refill"},
             stopFailed \subseteq stopFailed'
      PROVE  OneBusy' /\ OwnDevice' /\ ClosedBefore'
  <2>1. \A v \in Workers : v # w => pc'[v] \in {"none", "done", "failed"}
    BY <1>7 DEF Busy
  <2>2. OneBusy' /\ OwnDevice'
    BY <1>7, <2>1 DEF OneBusy, OwnDevice, Busy, Choosing
  <2>3. ClosedBefore'
    BY <1>3, <1>7, <2>1 DEF ClosedBefore, HasImage
  <2>. QED
    BY <2>2, <2>3
<1>. HIDE DEF Rest
<1>8. pc[w] \notin Choosing \cup {"mxc", "none", "done", "failed"} => Device(w, "mxc") = w
  BY <1>3 DEF OwnDevice, Busy
<1>. USE DEF Choosing, HasImage
<1>9. CASE NewInstance(w) \/ ReturnInstance(w)
  <2>1. pc'[w] \in {"return", "mxc"} /\ ~TestInstance(w) /\ UNCHANGED stopFailed
    BY <1>3, <1>9 DEF NewInstance, ReturnInstance, TestInstance, history
  <2>. QED
    BY <1>4, <1>7, <2>1
<1>10. CASE intialize_stream(w)
  <2>1. pc'[w] \in {"csi", "prb", "csi_fmt", "mxc_fmt", "reqbufs", "map", "qbuf", "streamon"}
        /\ ~TestInstance(w) /\ UNCHANGED <<stopFailed, pPRB_IMG>> /\ pc[w] \notin Choosing
    BY <1>10 DEF intialize_stream, OpenDevice, SetFormat, RequestBuffers, MapBuffer, QueueBuffer,
       InitFails, TestInstance, history, Devices, AfterOpen
  <2>2. Device(w, "mxc")' = w
    <3>1. CASE \E d \in Devices : OpenDevice(w, d)
      <4>1. PICK d \in Devices : OpenDevice(w, d)
        BY <3>1
      <4>2. This(w) \in Workers /\ This(w)' = This(w) /\ "mxc" \in Devices
        BY <2>1 DEF This, Devices
      <4>3. fd'[This(w)]["mxc"] = IF d = "mxc" THEN w ELSE fd[This(w)]["mxc"]
        BY <4>1, <4>2 DEF OpenDevice
      <4>4. d # "mxc" => fd[This(w)]["mxc"] = w
        BY <1>8, <4>1 DEF OpenDevice, Devices
      <4>. QED
        BY <4>2, <4>3, <4>4
    <3>2. CASE ~(\E d \in Devices : OpenDevice(w, d))
      BY <1>8, <1>10, <2>1, <3>2 DEF intialize_stream, SetFormat, RequestBuffers, MapBuffer,
         QueueBuffer, InitFails, memberVars, This
    <3>. QED
      BY <3>1, <3>2
  <2>. QED
    BY <1>4, <1>7, <2>1, <2>2
<1>11. CASE open_stream(w) \/ close_stream(w)
  <2>1. ~TestInstance(w) /\ UNCHANGED <<fd, pPRB_IMG>> /\ stopFailed \subseteq stopFailed'
        /\ pc'[w] \in {"streamoff", "unmap", "close", "lock"}
    BY <1>11 DEF open_stream, close_stream, StreamOff, UnmapBuffers, CloseDevices, TestInstance,
       memberVars, history
  <2>2. Device(w, "mxc") = w /\ Device(w, "mxc")' = w
    BY <1>8, <1>11, <2>1 DEF open_stream, close_stream, StreamOff, UnmapBuffers, CloseDevices, This
  <2>3. pc'[w] \in {"unmap", "close", "lock"} => w \in stopFailed' \/ w \notin streaming'
    <3>1. pc[w] \in {"unmap", "close"} => w \in stopFailed \/ w \notin streaming
      BY <1>3 DEF ClosedBefore
    <3>2. CASE open_stream(w)
      BY <3>2 DEF open_stream
    <3>3. CASE StreamOff(w)
      BY <2>2, <3>3 DEF StreamOff
    <3>4. CASE UnmapBuffers(w) \/ CloseDevices(w)
      BY <2>2, <3>1, <3>4 DEF UnmapBuffers, CloseDevices, history
    <3>. QED
      BY <1>11, <3>2, <3>3, <3>4 DEF close_stream
  <2>. QED
    BY <1>4, <1>7, <2>1, <2>2, <2>3
<1>12. CASE IMG_acquire(w) \/ get_IMG(w)
  <2>1. ~TestInstance(w) /\ UNCHANGED <<fd, pPRB_IMG, streaming, stopFailed>>
    BY <1>12 DEF IMG_acquire, get_IMG, Lock, Unlock, Dequeue, DequeueFails, Fill, CopyChunk,
       TestInstance, memberVars, kernelVars, history
  <2>2. pc'[w] \notin Finished => Device(w, "mxc")' = w
    BY <1>8, <1>12, <2>1 DEF IMG_acquire, get_IMG, Lock, Unlock, Dequeue, DequeueFails, Fill,
       CopyChunk, This
  <2>3. \/ pc[w] = "lock" /\ pc'[w] = "dequeue"
        \/ pc[w] = "dequeue" /\ pc'[w] \in {"fill", "release"} /\ Device(w, "mxc") \in streaming
        \/ pc[w] = "dequeue" /\ pc'[w] = "failed"
        \/ pc[w] \in HasImage /\ pc'[w] \in HasImage
    <3>1. pc[w] \notin {"unlock", "relock", "again", "refill"}
      BY <1>3 DEF ClosedBefore
    <3>2. CASE Fill(w)
      BY <1>3, <3>1, <3>2 DEF Fill
    <3>3. CASE get_IMG(w)
      BY <3>3 DEF get_IMG, Lock, Unlock, CopyChunk
    <3>4. CASE Dequeue(w) \/ DequeueFails(w)
      BY <1>3, <3>1, <3>4 DEF Dequeue, DequeueFails
    <3>5. CASE \/ Lock(w, "lock", "dequeue") \/ Lock(w, "relock", "again")
               \/ Unlock(w, "unlock", "relock") \/ Unlock(w, "release", "get")
      BY <3>1, <3>5 DEF Lock, Unlock
    <3>. QED
      BY <1>12, <3>2, <3>3, <3>4, <3>5 DEF IMG_acquire
  <2>4. pc[w] = "dequeue" => Device(w, "mxc") = w
    BY <1>8
  <2>. QED
    BY <1>3, <1>4, <1>7, <2>1, <2>2, <2>3, <2>4 DEF ClosedBefore
<1>. QED
  BY <1>2, <1>5, <1>9, <1>10, <1>11, <1>12 DEF work, getInstance

(* With the driver, the stream is closed before an image is taken from it:   *)
(* a thread that meets no other gets one only if VIDIOC_STREAMOFF failed.    *)
THEOREM NoImageAfterStop == Spec => []ImageOnlyIfStopFailed
<1>1. Init => Alone
  BY DEF Init, Alone, OneBusy, OwnDevice, ClosedBefore, Busy, HasImage
<1>2. Alone => ImageOnlyIfStopFailed
  BY DEF Alone, ClosedBefore, ImageOnlyIfStopFailed
<1>. QED
  BY <1>1, <1>2, AloneNext, AlwaysTyped, PTL DEF Spec

(***************************************************************************)
(* What a thread leaves behind.  While no two threads overlap, a thread    *)
(* has open what it has opened and not closed yet, a buffer that it mapped *)
(* can be found through the array of its instance, and if no set-up failed *)
(* every buffer is mapped when it is unmapped or read.                     *)
(***************************************************************************)

Early == Choosing \cup {"mxc"}
OpenAt(label) == CASE label \in Early -> {}
                   [] label = "csi"   -> {"mxc"}
                   [] label = "prb"   -> {"mxc", "csi"}
                   [] OTHER           -> Devices

DevicesHeld(w) ==
    IF pc[w] \in Stopped
    THEN \A d \in Devices : w \in opened[d] <=> w \in stopFailed
    ELSE /\ w \notin stopFailed
         /\ \A d \in Devices : /\ w \in opened[d] <=> d \in OpenAt(pc[w])
                               /\ d \in OpenAt(pc[w]) => Device(w, d) = w

HasMapped(w)   == \E k \in 1..N_BUF : <<w, k>> \in mapped
ArrayStored(w) == p_dma_buffers[This(w)] = w
BuffersHeld(w) ==
    /\ pc[w] \in {"map", "qbuf"} => ArrayStored(w)
    /\ HasMapped(w) =>
         \/ pc[w] \in {"map", "qbuf", "streamon", "streamoff", "unmap"} /\ ArrayStored(w)
         \/ pc[w] \in Stopped /\ w \in stopFailed

Needed(w) == \/ pc[w] \in {"qbuf", "streamon", "streamoff", "unmap"}
             \/ pc[w] \in {"lock", "dequeue"} /\ w \in stopFailed
AllMapped(w) ==
    /\ Needed(w) => /\ ArrayStored(w) /\ granted[w] \in Buffers
                    /\ \A k \in 1..granted[w] : <<w, k>> \in mapped
    /\ pc[w] = "map" => \A k \in Buffers : k < count[w] => <<w, k>> \in mapped

Ungranted     == Early \cup {"csi", "prb", "csi_fmt", "mxc_fmt", "reqbufs"}
QueuedHeld(w) == \A k \in Buffers : <<w, k>> \in queued =>
                    pc[w] \notin Ungranted /\ k \in 1..granted[w]

DriverToBlame == \E w \in Workers : GrantedFewer(w) \/ FrameTooLong(w)
Ledger ==
    /\ \A w \in Workers : DevicesHeld(w) /\ BuffersHeld(w) /\ QueuedHeld(w)
    /\ initFailed = {} => (crashed => DriverToBlame) /\ \A w \in Workers : AllMapped(w)

LedgerInv == (IMX8_SOM /\ ~overlapped) => Ledger

(* What a step of another thread leaves of one. *)
Untouched(v) == /\ v \in stopFailed' <=> v \in stopFailed
                /\ \A d \in Devices : v \in opened'[d] <=> v \in opened[d]
                /\ HasMapped(v)' => HasMapped(v)
                /\ granted'[v] = granted[v]
                /\ \A k \in Buffers : <<v, k>> \in queued' => <<v, k>> \in queued

(* A step of one thread changes nothing that is another's, or forgets its   *)
(* buffers.                                                                *)
LEMMA LedgerOfOne ==
  ASSUME Typed, Ledger, NEW w \in Workers,
         \A v \in Workers : v # w => Idle(v) /\ Untouched(v),
         initFailed \subseteq initFailed',
         DevicesHeld(w)', BuffersHeld(w)', QueuedHeld(w)',
         initFailed' = {} => (crashed' => DriverToBlame') /\ AllMapped(w)'
  PROVE  Ledger'
<1>1. \A v \in Workers : v # w => DevicesHeld(v)'
  <2>1. SUFFICES ASSUME NEW v \in Workers, v # w PROVE DevicesHeld(v)'
    OBVIOUS
  <2>2. DevicesHeld(v) /\ Idle(v) /\ Untouched(v)
    BY <2>1 DEF Ledger
  <2>3. CASE pc[v] = "none"
    <3>1. pc[v] \notin Stopped /\ OpenAt(pc[v]) = {}
      BY <2>3 DEF OpenAt, Early, Choosing, Stopped, HasImage, Finished
    <3>. QED
      BY <2>2, <3>1 DEF DevicesHeld, Idle, Untouched
  <2>4. CASE pc[v] \in Stopped
    BY <2>2, <2>4 DEF DevicesHeld, Idle, Untouched
  <2>. QED
    BY <2>2, <2>3, <2>4 DEF Idle, Stopped, Finished
<1>2. \A v \in Workers : v # w => BuffersHeld(v)'
  BY DEF Ledger, BuffersHeld, Idle, Untouched
<1>3. \A v \in Workers : v # w => AllMapped(v)'
  BY DEF AllMapped, Needed, Idle
<1>4. \A v \in Workers : v # w => QueuedHeld(v)'
  BY DEF Ledger, QueuedHeld, Idle, Untouched
<1>. QED
  BY <1>1, <1>2, <1>3, <1>4 DEF Ledger

(* getInstance() and the opening of the devices *)
LEMMA LedgerOpens ==
  ASSUME Typed, Ledger, NEW w \in Workers, IMX8_SOM,
         \A v \in Workers : v # w => Idle(v),
         getInstance(w) \/ \E d \in Devices : OpenDevice(w, d), ~crashed
  PROVE  Ledger'
<1>. USE DEF Goto, Device
<1>. /\ pc \in [Workers -> Labels]
     /\ opened \in [Devices -> SUBSET Workers]
     /\ fd \in [Workers -> [Devices -> Workers \cup {null}]]
     /\ pc[w] \notin Choosing => This(w) \in Workers
  BY DEF Typed, Control, Data
<1>1. DevicesHeld(w) /\ BuffersHeld(w) /\ QueuedHeld(w) /\ (initFailed = {} => AllMapped(w))
  BY DEF Ledger
<1>2. CASE getInstance(w)
  <2>1. /\ pc[w] \in Choosing /\ pc'[w] \in Early
        /\ UNCHANGED <<opened, mapped, queued, granted, stopFailed, initFailed, crashed>>
    <3>1. CASE TestInstance(w)
      BY <3>1 DEF TestInstance, Choosing, Early, kernelVars
    <3>2. CASE NewInstance(w)
      BY <3>2 DEF NewInstance, Choosing, Early, kernelVars, history
    <3>3. CASE ReturnInstance(w)
      BY <3>3 DEF ReturnInstance, Choosing, Early, kernelVars, history
    <3>. QED
      BY <1>2, <3>1, <3>2, <3>3 DEF getInstance
  <2>2. DevicesHeld(w)' /\ BuffersHeld(w)' /\ AllMapped(w)'
    BY <1>1, <2>1 DEF DevicesHeld, BuffersHeld, HasMapped, AllMapped, Needed, OpenAt, Early,
       Choosing, Stopped, HasImage, Finished
  <2>3. QueuedHeld(w)'
    BY <1>1, <2>1 DEF QueuedHeld, Ungranted, Early
  <2>. QED
    BY <2>1, <2>2, <2>3, LedgerOfOne DEF Untouched, HasMapped
<1>3. ASSUME NEW d \in Devices, OpenDevice(w, d) PROVE Ledger'
  <2>1. /\ pc[w] = d /\ pc'[w] = AfterOpen[d]
        /\ This(w) \in Workers /\ This(w)' = This(w)
        /\ UNCHANGED <<mapped, queued, granted, stopFailed, initFailed, crashed>>
    <3>1. pc[w] = d /\ d \notin Choosing /\ UNCHANGED pPRB_IMG
      BY <1>3 DEF OpenDevice, Devices, Choosing
    <3>2. UNCHANGED <<mapped, queued, granted, stopFailed, initFailed, crashed>>
      BY <1>3 DEF OpenDevice, history
    <3>3. pc' = [pc EXCEPT ![w] = AfterOpen[d]]
      BY <1>3 DEF OpenDevice
    <3>. QED
      BY <3>1, <3>2, <3>3 DEF This
  <2>0. \A e \in Devices :
          /\ fd'[This(w)][e] = IF e = d THEN w ELSE fd[This(w)][e]
          /\ opened'[e] = IF e = d THEN opened[e] \cup {w} ELSE opened[e]
    BY <1>3, <2>1 DEF OpenDevice
  <2>2. DevicesHeld(w)'
    BY <1>1, <2>0, <2>1 DEF DevicesHeld, OpenAt, Early, Choosing, Stopped, HasImage, Finished,
       Devices, AfterOpen
  <2>3. BuffersHeld(w)' /\ AllMapped(w)'
    BY <1>1, <2>1 DEF BuffersHeld, HasMapped, AllMapped, Needed, Stopped, HasImage, Finished,
       Devices, AfterOpen
  <2>5. QueuedHeld(w)'
    <3>1. pc[w] \in Ungranted
      BY <2>1 DEF Ungranted, Devices, Early
    <3>. QED
      BY <1>1, <2>1, <3>1 DEF QueuedHeld
  <2>4. ASSUME NEW v \in Workers, v # w PROVE Untouched(v)
    <3>1. ASSUME NEW e \in Devices PROVE v \in opened'[e] <=> v \in opened[e]
      <4>1. CASE e = d
        <5>1. opened'[e] = opened[e] \cup {w}
          BY <2>0, <4>1
        <5>. QED
          BY <2>4, <5>1
      <4>2. CASE e # d
        BY <2>0, <4>2
      <4>. QED
        BY <4>1, <4>2
    <3>2. /\ v \in stopFailed' <=> v \in stopFailed
          /\ HasMapped(v)' => HasMapped(v)
          /\ UNCHANGED <<granted, queued>>
      BY <2>1 DEF HasMapped
    <3>. QED
      BY <3>1, <3>2 DEF Untouched
  <2>. QED
    BY <2>1, <2>2, <2>3, <2>4, <2>5, LedgerOfOne
<1>. QED
  BY <1>2, <1>3

(* The rest of the set-up: the devices stay open, and a buffer that is      *)
(* mapped is this thread's.                                                *)
LEMMA LedgerSetsUp ==
  ASSUME Typed, Ledger, NEW w \in Workers, \A v \in Workers : v # w => Idle(v), ~crashed,
         \/ SetFormat(w, "csi", "csi_fmt", "mxc_fmt") \/ SetFormat(w, "mxc", "mxc_fmt", "reqbufs")
         \/ RequestBuffers(w) \/ MapBuffer(w) \/ QueueBuffer(w) \/ InitFails(w, Setup)
  PROVE  Ledger'
<1>. USE DEF Goto
<1>. /\ pc \in [Workers -> Labels]
     /\ pPRB_IMG \in [Workers -> Workers \cup {null}]
     /\ p_dma_buffers \in [Workers -> Workers \cup {null}]
     /\ count \in [Workers -> Nat]
     /\ pc[w] \notin Choosing => This(w) \in Workers
     /\ granted \in [Workers -> 0..MaxGranted]
     /\ CountOK(pc[w], count[w], granted[w], bytes[w])
  BY DEF Typed, Control, Data
<1>1. DevicesHeld(w) /\ BuffersHeld(w) /\ QueuedHeld(w) /\ (initFailed = {} => AllMapped(w))
  BY DEF Ledger
<1>2. /\ pc[w] \in Setup /\ pc'[w] \in Setup \cup {"streamon"}
      /\ UNCHANGED <<pPRB_IMG, fd, opened, stopFailed>>
      /\ ~crashed' /\ \A v \in Workers : v # w => granted'[v] = granted[v]
  <2>1. CASE SetFormat(w, "csi", "csi_fmt", "mxc_fmt") \/ SetFormat(w, "mxc", "mxc_fmt", "reqbufs")
    BY <2>1 DEF SetFormat, Setup, memberVars, kernelVars, history
  <2>2. CASE RequestBuffers(w)
    BY <2>2 DEF RequestBuffers, Setup, kernelVars, history
  <2>3. CASE MapBuffer(w)
    <3>1. count[w] \in 1..granted[w] /\ ArrayStored(w) /\ granted[w] \in Nat
      BY <1>1, <2>3 DEF MapBuffer, CountOK, BuffersHeld
    <3>2. ~(count[w] > granted[w]) /\ w # null
      BY <3>1, PrbAssumption
    <3>3. Outcomes(p_dma_buffers[This(w)], count[w]) = {FALSE}
      BY <3>1, <3>2 DEF ArrayStored, Outcomes
    <3>4. ~crashed'
      BY <2>3, <3>3, Zenon DEF MapBuffer
    <3>. QED
      BY <2>3, <3>4 DEF MapBuffer, Setup, memberVars, history
  <2>4. CASE QueueBuffer(w)
    BY <2>4 DEF QueueBuffer, Setup, memberVars, history
  <2>5. CASE InitFails(w, Setup)
    BY <2>5 DEF InitFails, Setup, memberVars, kernelVars
  <2>. QED
    BY <2>1, <2>2, <2>3, <2>4, <2>5
<1>3. DevicesHeld(w)'
  <2>1. /\ pc[w] \notin Stopped /\ pc'[w] \notin Stopped
        /\ OpenAt(pc[w]) = Devices /\ OpenAt(pc'[w]) = Devices
    BY <1>2 DEF OpenAt, Early, Choosing, Stopped, HasImage, Finished, Setup
  <2>. QED
    BY <1>1, <1>2, <2>1 DEF DevicesHeld, Device, This
<1>4. CASE SetFormat(w, "csi", "csi_fmt", "mxc_fmt") \/ SetFormat(w, "mxc", "mxc_fmt", "reqbufs")
  <2>1. pc[w] \in {"csi_fmt", "mxc_fmt"} /\ pc'[w] \in {"mxc_fmt", "reqbufs"}
        /\ UNCHANGED <<mapped, queued, initFailed>>
    BY <1>4 DEF SetFormat, kernelVars, history
  <2>2. BuffersHeld(w)' /\ AllMapped(w)'
    BY <1>1, <2>1 DEF BuffersHeld, HasMapped, AllMapped, Needed, Stopped, HasImage, Finished
  <2>3. QueuedHeld(w)'
    BY <1>1, <2>1 DEF QueuedHeld, Ungranted
  <2>. QED
    BY <1>2, <1>3, <2>1, <2>2, <2>3, LedgerOfOne DEF Untouched, HasMapped
<1>5. CASE RequestBuffers(w)
  <2>1. pc[w] = "reqbufs" /\ pc'[w] = "map" /\ count'[w] = 1
        /\ UNCHANGED <<mapped, queued, initFailed>>
    BY <1>5 DEF RequestBuffers, kernelVars, history
  <2>2. ArrayStored(w)'
    BY <1>5, <2>1 DEF RequestBuffers, ArrayStored, This, Choosing
  <2>3. \A k \in Buffers : ~(k < 1)
    BY DEF Buffers
  <2>4. BuffersHeld(w)' /\ AllMapped(w)'
    BY <1>1, <2>1, <2>2, <2>3 DEF BuffersHeld, HasMapped, AllMapped, Needed, Stopped, HasImage,
       Finished
  <2>5. QueuedHeld(w)'
    BY <1>1, <2>1 DEF QueuedHeld, Ungranted
  <2>. QED
    BY <1>2, <1>3, <2>1, <2>4, <2>5, LedgerOfOne DEF Untouched, HasMapped
<1>6. CASE MapBuffer(w)
  <2>1. /\ pc[w] = "map" /\ count[w] \in 1..granted[w] /\ ArrayStored(w) /\ ArrayStored(w)'
        /\ mapped' = mapped \cup {<<w, count[w]>>} /\ UNCHANGED <<initFailed, granted, queued>>
    BY <1>1, <1>6 DEF MapBuffer, CountOK, BuffersHeld, ArrayStored, This, memberVars, history
  <2>2. IF count[w] = granted[w] THEN pc'[w] = "qbuf"
                                 ELSE pc'[w] = "map" /\ count'[w] = count[w] + 1
    BY <1>6 DEF MapBuffer, Advance
  <2>3. BuffersHeld(w)'
    BY <2>1, <2>2 DEF BuffersHeld
  <2>4. ASSUME initFailed = {} PROVE AllMapped(w)'
    <3>1. \A k \in Buffers : k < count[w] => <<w, k>> \in mapped
      BY <1>1, <2>1, <2>4 DEF AllMapped
    <3>2. \A k \in Buffers : k < count[w] + 1 => <<w, k>> \in mapped'
      BY <2>1, <3>1 DEF Buffers
    <3>3. CASE count[w] = granted[w]
      <4>1. granted[w] \in Buffers /\ \A k \in 1..granted[w] : k \in Buffers /\ k < count[w] + 1
        BY <2>1, <3>3, PrbAssumption DEF Buffers
      <4>. QED
        BY <2>1, <2>2, <3>2, <3>3, <4>1 DEF AllMapped
    <3>4. CASE count[w] # granted[w]
      BY <2>2, <3>2, <3>4 DEF AllMapped, Needed
    <3>. QED
      BY <3>3, <3>4
  <2>5. \A v \in Workers : v # w => Untouched(v)
    BY <1>2, <2>1 DEF Untouched, HasMapped
  <2>6. QueuedHeld(w)'
    <3>1. pc'[w] \in {"map", "qbuf"}
      BY <2>2
    <3>. QED
      BY <1>1, <2>1, <3>1 DEF QueuedHeld, Ungranted, Early, Choosing
  <2>. QED
    BY <1>2, <1>3, <2>1, <2>3, <2>4, <2>5, <2>6, LedgerOfOne
<1>7. CASE QueueBuffer(w)
  <2>1. pc[w] = "qbuf" /\ pc'[w] \in {"qbuf", "streamon"}
        /\ UNCHANGED <<mapped, granted, initFailed, p_dma_buffers>>
    BY <1>7 DEF QueueBuffer, memberVars, history
  <2>2. BuffersHeld(w)' /\ (initFailed = {} => AllMapped(w)')
    BY <1>1, <1>2, <2>1 DEF BuffersHeld, HasMapped, AllMapped, Needed, ArrayStored, This
  <2>3. queued' = queued \cup {<<w, count[w]>>} /\ count[w] \in 1..granted[w]
    <3>1. pc[w] \notin Stopped /\ OpenAt(pc[w]) = Devices /\ "mxc" \in Devices
      BY <2>1 DEF OpenAt, Early, Choosing, Stopped, HasImage, Finished, Devices
    <3>2. Device(w, "mxc") = w
      BY <1>1, <3>1 DEF DevicesHeld
    <3>. QED
      BY <1>7, <2>1, <3>2 DEF QueueBuffer, CountOK
  <2>4. QueuedHeld(w)'
    BY <1>1, <2>1, <2>3 DEF QueuedHeld, Ungranted, Early, Choosing, Devices
  <2>5. \A v \in Workers : v # w => Untouched(v)
    BY <1>2, <2>1, <2>3 DEF Untouched, HasMapped
  <2>. QED
    BY <1>2, <1>3, <2>1, <2>2, <2>4, <2>5, LedgerOfOne
<1>8. CASE InitFails(w, Setup)
  <2>1. pc[w] \in Setup /\ pc'[w] = "streamon" /\ UNCHANGED <<mapped, queued, granted, p_dma_buffers>>
        /\ initFailed' = initFailed \cup {w}
    BY <1>8 DEF InitFails, memberVars, kernelVars
  <2>2. BuffersHeld(w)'
    BY <1>1, <1>2, <2>1 DEF BuffersHeld, HasMapped, ArrayStored, This, Setup, Stopped, HasImage,
       Finished
  <2>3. QueuedHeld(w)'
    BY <1>1, <2>1 DEF QueuedHeld, Ungranted, Early, Choosing
  <2>4. \A v \in Workers : v # w => Untouched(v)
    BY <1>2, <2>1 DEF Untouched, HasMapped
  <2>5. initFailed \subseteq initFailed' /\ initFailed' # {}
    BY <2>1
  <2>. QED
    BY <1>3, <2>2, <2>3, <2>4, <2>5, LedgerOfOne
<1>. QED
  BY <1>4, <1>5, <1>6, <1>7, <1>8

(* The stream is started and stopped; unless VIDIOC_STREAMOFF fails, the    *)
(* buffers are unmapped and the devices closed.                            *)
LEMMA LedgerStops ==
  ASSUME Typed, Ledger, NEW w \in Workers, \A v \in Workers : v # w => Idle(v), ~crashed,
         open_stream(w) \/ close_stream(w)
  PROVE  Ledger'
<1>. USE DEF Goto
<1>. /\ pc \in [Workers -> Labels]
     /\ opened \in [Devices -> SUBSET Workers]
     /\ stopFailed \subseteq Workers
     /\ mapped \subseteq (Workers \cup {null}) \X Buffers
  BY DEF Typed, Control, Data
<1>1. DevicesHeld(w) /\ BuffersHeld(w) /\ QueuedHeld(w) /\ (initFailed = {} => AllMapped(w))
  BY DEF Ledger
<1>2. UNCHANGED <<pPRB_IMG, fd, p_dma_buffers, granted, initFailed>> /\ queued' \subseteq queued
  BY DEF open_stream, close_stream, StreamOff, UnmapBuffers, CloseDevices, memberVars, history
<1>3. /\ pc[w] \in {"streamon", "streamoff", "unmap", "close"}
      /\ pc[w] \notin Stopped /\ OpenAt(pc[w]) = Devices
  BY DEF open_stream, close_stream, StreamOff, UnmapBuffers, CloseDevices, OpenAt, Early, Choosing,
     Stopped, HasImage, Finished
<1>4. /\ w \notin stopFailed
      /\ \A d \in Devices : w \in opened[d] /\ Device(w, d) = w
  BY <1>1, <1>3 DEF DevicesHeld
<1>9. QueuedHeld(w)'
  <2>1. pc'[w] \in {"streamoff", "unmap", "close", "lock"}
    BY DEF open_stream, close_stream, StreamOff, UnmapBuffers, CloseDevices
  <2>. QED
    BY <1>1, <1>2, <2>1 DEF QueuedHeld, Ungranted, Early, Choosing
<1>5. CASE open_stream(w)
  <2>1. pc[w] = "streamon" /\ pc'[w] = "streamoff"
        /\ UNCHANGED <<opened, mapped, stopFailed, crashed>>
    BY <1>5 DEF open_stream, history
  <2>2. pc'[w] \notin Stopped /\ OpenAt(pc'[w]) = Devices
    BY <2>1 DEF OpenAt, Early, Choosing, Stopped, HasImage, Finished
  <2>3. DevicesHeld(w)'
    BY <1>2, <1>4, <2>1, <2>2 DEF DevicesHeld, Device, This
  <2>4. BuffersHeld(w)' /\ (initFailed = {} => AllMapped(w)')
    BY <1>1, <1>2, <1>3, <2>1 DEF BuffersHeld, HasMapped, AllMapped, Needed, ArrayStored, This
  <2>. QED
    BY <1>2, <2>1, <2>3, <2>4, <1>9, LedgerOfOne DEF Untouched, HasMapped
<1>6. CASE StreamOff(w)
  <2>1. pc[w] = "streamoff" /\ UNCHANGED <<opened, mapped, crashed>>
    BY <1>6 DEF StreamOff
  <2>2. \/ pc'[w] = "unmap" /\ stopFailed' = stopFailed
        \/ pc'[w] = "lock" /\ stopFailed' = stopFailed \cup {w}
    BY <1>6, <2>1 DEF StreamOff
  <2>3. "unmap" \notin Stopped /\ OpenAt("unmap") = Devices /\ "lock" \in Stopped
    BY DEF OpenAt, Early, Choosing, Stopped, HasImage, Finished
  <2>4. DevicesHeld(w)'
    BY <1>2, <1>4, <2>1, <2>2, <2>3 DEF DevicesHeld, Device, This
  <2>5. BuffersHeld(w)' /\ (initFailed = {} => AllMapped(w)')
    BY <1>1, <1>2, <1>3, <2>1, <2>2, <2>3
       DEF BuffersHeld, HasMapped, AllMapped, Needed, ArrayStored, This
  <2>. QED
    BY <1>2, <2>1, <2>2, <2>4, <2>5, <1>9, LedgerOfOne DEF Untouched, HasMapped
<1>7. CASE UnmapBuffers(w)
  <2>1. pc[w] = "unmap" /\ pc'[w] = "close" /\ UNCHANGED <<opened, stopFailed>>
        /\ mapped' = mapped \ ({p_dma_buffers[This(w)]} \X (1..N_BUF))
    BY <1>7 DEF UnmapBuffers, history
  <2>2. pc'[w] \notin Stopped /\ OpenAt(pc'[w]) = Devices
    BY <2>1 DEF OpenAt, Early, Choosing, Stopped, HasImage, Finished
  <2>3. DevicesHeld(w)'
    BY <1>2, <1>4, <2>1, <2>2 DEF DevicesHeld, Device, This
  <2>4. ~HasMapped(w)'
    BY <1>1, <1>4, <2>1 DEF HasMapped, BuffersHeld, ArrayStored
  <2>5. BuffersHeld(w)' /\ AllMapped(w)'
    BY <2>1, <2>4 DEF BuffersHeld, AllMapped, Needed
  <2>6. ASSUME initFailed = {}, crashed' PROVE DriverToBlame'
    <3>1. ArrayStored(w) /\ granted[w] \in Buffers
      BY <1>1, <2>1, <2>6 DEF AllMapped, Needed
    <3>2. p_dma_buffers[This(w)] = w /\ w # null
      BY <3>1, PrbAssumption DEF ArrayStored
    <3>3. N_BUF > granted[w]
      <4>1. ~(N_BUF > granted[w]) => Outcomes(w, N_BUF) = {FALSE}
        BY <3>2 DEF Outcomes
      <4>2. crashed' \in Outcomes(w, N_BUF)
        BY <1>7, <3>2 DEF UnmapBuffers
      <4>. QED
        BY <2>6, <4>1, <4>2, Zenon
    <3>4. GrantedFewer(w)
      BY <3>1, <3>3, PrbAssumption DEF GrantedFewer, Buffers
    <3>5. GrantedFewer(w)'
      BY <1>2, <3>4 DEF GrantedFewer
    <3>. QED
      BY <3>5 DEF DriverToBlame
  <2>. QED
    BY <1>2, <2>1, <2>3, <2>5, <2>6, <1>9, LedgerOfOne DEF Untouched, HasMapped
<1>8. CASE CloseDevices(w)
  <2>1. pc[w] = "close" /\ pc'[w] = "lock" /\ UNCHANGED <<mapped, stopFailed, crashed>>
    BY <1>8 DEF CloseDevices, history
  <2>2. \A d \in Devices : opened'[d] = opened[d] \ {w}
    BY <1>4, <1>8 DEF CloseDevices
  <2>3. DevicesHeld(w)'
    BY <1>4, <2>1, <2>2 DEF DevicesHeld, Stopped
  <2>4. ~HasMapped(w) /\ ~HasMapped(w)'
    BY <1>1, <1>3, <2>1 DEF HasMapped, BuffersHeld
  <2>5. BuffersHeld(w)' /\ AllMapped(w)'
    BY <1>4, <2>1, <2>4 DEF BuffersHeld, AllMapped, Needed
  <2>. QED
    BY <1>2, <2>1, <2>2, <2>3, <2>5, <1>9, LedgerOfOne DEF Untouched, HasMapped
<1>. QED
  BY <1>5, <1>6, <1>7, <1>8 DEF close_stream

(* The acquisition takes no descriptor and no mapping; with the driver it   *)
(* reads a buffer only of a stream that could not be stopped.               *)
LEMMA LedgerAcquires ==
  ASSUME Typed, Ledger, OwnDevice, ClosedBefore, IMX8_SOM, NEW w \in Workers,
         \A v \in Workers : v # w => Idle(v), ~crashed, IMG_acquire(w) \/ get_IMG(w)
  PROVE  Ledger'
<1>. USE DEF Goto
<1>. pc \in [Workers -> Labels]
  BY DEF Typed, Control
<1>1. DevicesHeld(w) /\ BuffersHeld(w) /\ QueuedHeld(w) /\ (initFailed = {} => AllMapped(w))
  BY DEF Ledger
<1>2. UNCHANGED <<pPRB_IMG, fd, p_dma_buffers, granted, opened, mapped, initFailed, stopFailed>>
      /\ queued' \subseteq queued
  BY DEF IMG_acquire, get_IMG, Lock, Unlock, Dequeue, DequeueFails, Fill, CopyChunk, memberVars,
     kernelVars, history
<1>3. pc[w] \notin {"unlock", "relock", "again", "refill"}
  BY DEF ClosedBefore
<1>4. /\ pc[w] \in Stopped /\ pc'[w] \in Stopped /\ pc'[w] # "lock"
      /\ pc'[w] = "dequeue" => pc[w] = "lock"
  <2>1. CASE get_IMG(w)
    BY <2>1 DEF get_IMG, Lock, Unlock, CopyChunk, Stopped, HasImage
  <2>2. CASE Dequeue(w) \/ DequeueFails(w) \/ Fill(w)
    BY <1>3, <2>2 DEF Dequeue, DequeueFails, Fill, Stopped, HasImage, Finished
  <2>3. CASE \/ Lock(w, "lock", "dequeue") \/ Lock(w, "relock", "again")
             \/ Unlock(w, "unlock", "relock") \/ Unlock(w, "release", "get")
    BY <1>3, <2>3 DEF Lock, Unlock, Stopped, HasImage
  <2>. QED
    BY <2>1, <2>2, <2>3 DEF IMG_acquire
<1>5. DevicesHeld(w)'
  BY <1>1, <1>2, <1>4 DEF DevicesHeld
<1>6. BuffersHeld(w)' /\ (initFailed = {} => AllMapped(w)')
  BY <1>1, <1>2, <1>4 DEF BuffersHeld, HasMapped, AllMapped, Needed, ArrayStored, This, Stopped,
     HasImage, Finished
<1>8. QueuedHeld(w)'
  <2>1. pc'[w] \notin Ungranted
    BY <1>4 DEF Ungranted, Early, Choosing, Stopped, HasImage, Finished
  <2>. QED
    BY <1>1, <1>2, <2>1 DEF QueuedHeld
<1>7. ASSUME initFailed = {}, crashed' PROVE DriverToBlame'
  <2>1. CASE Dequeue(w)
    <3>1. pc[w] = "dequeue" /\ Device(w, "mxc") \in streaming
      BY <1>3, <2>1 DEF Dequeue
    <3>2. Device(w, "mxc") = w
      BY <3>1 DEF OwnDevice, Busy, Choosing, Finished
    <3>3. w \in stopFailed
      BY <3>1, <3>2 DEF ClosedBefore
    <3>4. ArrayStored(w) /\ \A k \in 1..granted[w] : <<w, k>> \in mapped
      BY <1>1, <1>7, <3>1, <3>3 DEF AllMapped, Needed
    <3>5. PICK index \in Buffers, length \in 0..ImageChunks + 1 :
             /\ <<w, index>> \in queued /\ bytes' = [bytes EXCEPT ![w] = length]
             /\ crashed' = (\/ length > ImageChunks
                            \/ /\ length > 0
                               /\ <<p_dma_buffers[This(w)], index>> \notin mapped)
      BY <2>1, <3>2 DEF Dequeue
    <3>6. <<p_dma_buffers[This(w)], index>> \in mapped
      BY <1>1, <3>4, <3>5 DEF ArrayStored, QueuedHeld
    <3>7. length > ImageChunks
      BY <1>7, <3>5, <3>6, Zenon
    <3>8. FrameTooLong(w)'
      BY <3>5, <3>7 DEF FrameTooLong, Typed, Control
    <3>. QED
      BY <3>8 DEF DriverToBlame
  <2>2. CASE ~Dequeue(w)
    BY <1>7, <2>2 DEF IMG_acquire, get_IMG, Lock, Unlock, DequeueFails, Fill, CopyChunk
  <2>. QED
    BY <2>1, <2>2
<1>. QED
  BY <1>2, <1>5, <1>6, <1>7, <1>8, LedgerOfOne DEF Untouched, HasMapped

LEMMA LedgerNext == Typed /\ Alone /\ LedgerInv /\ [Next]_vars => LedgerInv'
<1>1. SUFFICES ASSUME Typed, Alone, LedgerInv, [Next]_vars, IMX8_SOM', ~overlapped'
               PROVE  Ledger'
  BY DEF LedgerInv
<1>2. CASE UNCHANGED vars
  <2>1. Ledger
    BY <1>1, <1>2 DEF LedgerInv, vars, history
  <2>. QED
    BY <1>2, <2>1 DEF vars, memberVars, threadVars, kernelVars, history, Ledger, DevicesHeld,
       BuffersHeld, HasMapped, AllMapped, Needed, ArrayStored, Device, This, QueuedHeld,
       DriverToBlame, GrantedFewer, FrameTooLong
<1>3. ASSUME NEW w \in Workers, work(w) PROVE Ledger'
  <2>1. IMX8_SOM /\ ~overlapped /\ \A v \in Workers : v # w => Idle(v)
    BY <1>1, <1>3, OthersIdle
  <2>2. Ledger /\ OwnDevice /\ ClosedBefore
    BY <1>1, <2>1 DEF LedgerInv, Alone
  <2>3. ~crashed
    BY <1>3 DEF work
  <2>4. CASE getInstance(w) \/ \E d \in Devices : OpenDevice(w, d)
    BY <1>1, <2>1, <2>2, <2>3, <2>4, LedgerOpens
  <2>5. CASE intialize_stream(w) /\ ~(\E d \in Devices : OpenDevice(w, d))
    BY <1>1, <2>1, <2>2, <2>3, <2>5, LedgerSetsUp DEF intialize_stream, Setup
  <2>6. CASE open_stream(w) \/ close_stream(w)
    BY <1>1, <2>1, <2>2, <2>3, <2>6, LedgerStops
  <2>7. CASE IMG_acquire(w) \/ get_IMG(w)
    BY <1>1, <2>1, <2>2, <2>3, <2>7, LedgerAcquires
  <2>. QED
    BY <1>3, <2>4, <2>5, <2>6, <2>7 DEF work
<1>. QED
  BY <1>1, <1>2, <1>3 DEF Next

LEMMA AlwaysInLedger == Spec => []LedgerInv
<1>1. Init => LedgerInv
  <2>1. SUFFICES ASSUME Init, NEW w \in Workers
                 PROVE  DevicesHeld(w) /\ BuffersHeld(w) /\ QueuedHeld(w) /\ AllMapped(w)
    BY DEF LedgerInv, Ledger, Init
  <2>2. pc[w] = "none" /\ mapped = {} /\ stopFailed = {} /\ \A d \in Devices : opened[d] = {}
    BY <2>1 DEF Init
  <2>3. pc[w] \notin Stopped /\ OpenAt(pc[w]) = {}
    BY <2>2 DEF OpenAt, Early, Choosing, Stopped, HasImage, Finished
  <2>. QED
    BY <2>1, <2>2, <2>3 DEF Init, DevicesHeld, BuffersHeld, QueuedHeld, HasMapped, AllMapped, Needed
<1>2. Init => Alone
  BY DEF Init, Alone, OneBusy, OwnDevice, ClosedBefore, Busy, HasImage
<1>. QED
  BY <1>1, <1>2, AloneNext, LedgerNext, AlwaysTyped, PTL DEF Spec

(* Whatever else failed, and in whatever order: a thread that meets no other *)
(* leaves its three devices open exactly if its VIDIOC_STREAMOFF failed, and *)
(* the first N_BUF buffers mapped only then, however far the set-up had got. *)
THEOREM LeftOpenByStopOnly == Spec => []LeftOpenIffStopFailed
<1>1. LedgerInv => LeftOpenIffStopFailed
  <2>1. SUFFICES ASSUME Ledger, NEW w \in Workers, pc[w] \in Stopped
                 PROVE  /\ \A d \in Devices : w \in opened[d] <=> w \in stopFailed
                        /\ \A k \in Buffers :
                              <<w, k>> \in mapped => w \in stopFailed \/ k > N_BUF
    BY DEF LedgerInv, LeftOpenIffStopFailed
  <2>2. \A d \in Devices : w \in opened[d] <=> w \in stopFailed
    BY <2>1 DEF Ledger, DevicesHeld
  <2>3. HasMapped(w) => w \in stopFailed
    BY <2>1 DEF Ledger, BuffersHeld, Stopped, HasImage, Finished
  <2>4. \A k \in Buffers : k > N_BUF \/ k \in 1..N_BUF
    BY PrbAssumption DEF Buffers
  <2>. QED
    BY <2>2, <2>3, <2>4 DEF HasMapped
<1>. QED
  BY <1>1, AlwaysInLedger, PTL

(* The simulator has no driver to call, so that none of its calls can fail. *)
DriverLabels == Devices \cup Setup \cup {"streamon", "streamoff", "unmap", "close", "failed"}
Simulated == ~IMX8_SOM => ~crashed /\ \A w \in Workers : pc[w] \notin DriverLabels

LEMMA SimulatedNext == Typed /\ Simulated /\ [Next]_vars => Simulated'
<1>. USE DEF Goto, DriverLabels, Devices, Setup
<1>1. SUFFICES ASSUME Typed, Simulated, [Next]_vars, ~IMX8_SOM'
               PROVE  ~crashed' /\ \A w \in Workers : pc'[w] \notin DriverLabels
  BY DEF Simulated
<1>2. CASE UNCHANGED vars
  <2>1. ~crashed /\ \A w \in Workers : pc[w] \notin DriverLabels
    BY <1>1, <1>2 DEF Simulated, vars
  <2>. QED
    BY <1>2, <2>1 DEF vars, threadVars
<1>3. ASSUME NEW w \in Workers, work(w)
      PROVE  ~crashed' /\ \A v \in Workers : pc'[v] \notin DriverLabels
  <2>1. UNCHANGED IMX8_SOM
    BY <1>3 DEF work, getInstance, TestInstance, NewInstance, ReturnInstance, intialize_stream,
       OpenDevice, SetFormat, RequestBuffers, MapBuffer, QueueBuffer, InitFails, open_stream,
       close_stream, StreamOff, UnmapBuffers, CloseDevices, IMG_acquire, get_IMG, Lock, Unlock,
       Dequeue, DequeueFails, Fill, CopyChunk
  <2>2. ~IMX8_SOM /\ ~crashed /\ \A v \in Workers : pc[v] \notin DriverLabels
    BY <1>1, <2>1 DEF Simulated
  <2>3. pc \in [Workers -> Labels]
    BY <1>1 DEF Typed, Control
  <2>4. CASE getInstance(w)
    BY <2>2, <2>3, <2>4 DEF getInstance, TestInstance, NewInstance, ReturnInstance
  <2>5. CASE IMG_acquire(w) \/ get_IMG(w)
    <3>1. UNCHANGED crashed
      BY <2>2, <2>5 DEF IMG_acquire, get_IMG, Lock, Unlock, Dequeue, DequeueFails, Fill, CopyChunk
    <3>2. \A v \in Workers : pc'[v] \notin DriverLabels
      BY <2>2, <2>3, <2>5 DEF IMG_acquire, get_IMG, Lock, Unlock, Dequeue, DequeueFails, Fill,
         CopyChunk
    <3>. QED
      BY <2>2, <3>1, <3>2
  <2>6. ~(intialize_stream(w) \/ open_stream(w) \/ close_stream(w))
    BY <2>2 DEF intialize_stream, OpenDevice, SetFormat, RequestBuffers, MapBuffer, QueueBuffer,
       InitFails, open_stream, close_stream, StreamOff, UnmapBuffers, CloseDevices
  <2>. QED
    BY <1>3, <2>4, <2>5, <2>6 DEF work
<1>. QED
  BY <1>1, <1>2, <1>3 DEF Next

(* No thread that works alone uses an array that is not there, goes beyond   *)
(* its end or reads a buffer that is not mapped, unless some set-up failed   *)
(* half-way, the driver granted fewer buffers than it was asked for, or a    *)
(* frame was longer than the image.                                          *)
THEOREM CrashOnlyAfterFailure == Spec => []CrashNeedsFailure
<1>1. Init => Simulated
  BY DEF Init, Simulated, DriverLabels, Devices, Setup
<1>2. LedgerInv /\ Simulated => CrashNeedsFailure
  BY DEF LedgerInv, Ledger, DriverToBlame, Simulated, CrashNeedsFailure
<1>. QED
  BY <1>1, <1>2, SimulatedNext, AlwaysInLedger, AlwaysTyped, PTL DEF Spec

(***************************************************************************)
(* One failure ends it all.  While no two threads overlap there is one     *)
(* instance, so that the mutex a failed dequeue has kept is everybody's.   *)
(***************************************************************************)

OneInstance ==
    (IMX8_SOM /\ ~overlapped) =>
        \A w \in Workers : /\ pc[w] \notin Choosing => This(w) = uniqueInstance
                           /\ pc[w] = "new" => uniqueInstance = null

LEMMA OneInstanceNext == Typed /\ Alone /\ OneInstance /\ [Next]_vars => OneInstance'
<1>. USE DEF Goto, Choosing
<1>1. SUFFICES ASSUME Typed, Alone, OneInstance, [Next]_vars, IMX8_SOM', ~overlapped',
                      NEW v \in Workers
               PROVE  /\ pc'[v] \notin Choosing => This(v)' = uniqueInstance'
                      /\ pc'[v] = "new" => uniqueInstance' = null
  BY DEF OneInstance
<1>2. CASE UNCHANGED vars
  BY <1>1, <1>2 DEF vars, OneInstance, This, memberVars, threadVars, history
<1>3. ASSUME NEW w \in Workers, work(w)
      PROVE  /\ pc'[v] \notin Choosing => This(v)' = uniqueInstance'
             /\ pc'[v] = "new" => uniqueInstance' = null
  <2>. /\ pc \in [Workers -> Labels] /\ pPRB_IMG \in [Workers -> Workers \cup {null}]
       /\ null \notin Workers
       /\ pc[v] \notin Choosing => This(v) \in Workers
    BY <1>1, PrbAssumption DEF Typed, Control
  <2>1. v # w => Idle(v)
    BY <1>1, <1>3, OthersIdle
  <2>2. /\ pc[v] \notin Choosing => This(v) = uniqueInstance
        /\ pc[w] = "new" => uniqueInstance = null
    <3>1. IMX8_SOM /\ ~overlapped
      BY <1>1, <1>3, OthersIdle
    <3>. QED
      BY <1>1, <3>1 DEF OneInstance
  <2>3. CASE TestInstance(w)
    BY <2>1, <2>2, <2>3 DEF TestInstance, Idle, This, memberVars
  <2>4. CASE NewInstance(w)
    BY <2>1, <2>2, <2>4 DEF NewInstance, Idle, This
  <2>5. CASE ReturnInstance(w)
    BY <2>1, <2>2, <2>5 DEF ReturnInstance, Idle, This, memberVars
  <2>6. CASE ~getInstance(w)
    <3>1. UNCHANGED <<pPRB_IMG, uniqueInstance>> /\ pc[w] \notin Choosing /\ pc'[w] # "new"
      <4>1. CASE intialize_stream(w)
        BY <4>1 DEF intialize_stream, OpenDevice, SetFormat, RequestBuffers, MapBuffer,
           QueueBuffer, InitFails, memberVars, AfterOpen, Devices
      <4>2. CASE open_stream(w) \/ close_stream(w)
        BY <4>2 DEF open_stream, close_stream, StreamOff, UnmapBuffers, CloseDevices, memberVars
      <4>3. CASE get_IMG(w)
        BY <4>3 DEF get_IMG, Lock, Unlock, CopyChunk, memberVars
      <4>4. CASE IMG_acquire(w)
        BY <4>4 DEF IMG_acquire, Lock, Unlock, Dequeue, DequeueFails, Fill, memberVars
      <4>. QED
        BY <1>3, <2>6, <4>1, <4>2, <4>3, <4>4 DEF work
    <3>. QED
      BY <2>1, <2>2, <3>1 DEF Idle, This
  <2>. QED
    BY <2>3, <2>4, <2>5, <2>6 DEF getInstance
<1>. QED
  BY <1>1, <1>2, <1>3 DEF Next

(* While no two threads meet, no thread gets an image, or gives up its own,  *)
(* after one dequeue has failed: its predecessor has left the mutex locked.  *)
THEOREM FailureIsFinal == Spec => NoneAfterFailure
<1>1. Init => Simulated /\ OneInstance /\ Alone
  BY DEF Init, Simulated, DriverLabels, Devices, Setup, OneInstance, Choosing, Alone, OneBusy,
     OwnDevice, ClosedBefore, Busy, HasImage
<1>2. ASSUME Typed, Held, Alone, Simulated, OneInstance, [Next]_vars
      PROVE  [SomeFailed /\ ~overlapped' =>
                 \A w \in Workers : pc'[w] \in Finished => pc'[w] = pc[w]]_vars
  <2>1. SUFFICES ASSUME NEW v \in Workers, pc[v] = "failed", ~overlapped',
                        NEW u \in Workers, work(u), NEW w \in Workers,
                        pc'[w] \in Finished, pc'[w] # pc[w]
                 PROVE  FALSE
    BY <1>2 DEF SomeFailed, Next
  <2>. pc \in [Workers -> Labels]
    BY <1>2 DEF Typed, Control
  <2>2. IMX8_SOM
    BY <1>2, <2>1 DEF Simulated, DriverLabels
  <2>3. UNCHANGED IMX8_SOM
    BY <2>1 DEF work, getInstance, TestInstance, NewInstance, ReturnInstance, intialize_stream,
       OpenDevice, SetFormat, RequestBuffers, MapBuffer, QueueBuffer, InitFails, open_stream,
       close_stream, StreamOff, UnmapBuffers, CloseDevices, IMG_acquire, get_IMG, Lock, Unlock,
       Dequeue, DequeueFails, Fill, CopyChunk
  <2>4. ~overlapped /\ w = u
    BY <1>2, <2>1, <2>2, <2>3, OthersIdle DEF Idle
  <2>5. pc[w] \in {"copied", "dequeue"}
    <3>1. ~(getInstance(w) \/ intialize_stream(w) \/ open_stream(w) \/ close_stream(w))
      BY <2>1 DEF getInstance, TestInstance, NewInstance, ReturnInstance, intialize_stream,
         OpenDevice, SetFormat, RequestBuffers, MapBuffer, QueueBuffer, InitFails, open_stream,
         close_stream, StreamOff, UnmapBuffers, CloseDevices, Goto, Finished, AfterOpen, Devices
    <3>. QED
      BY <2>1, <2>4, <3>1 DEF work, IMG_acquire, get_IMG, Lock, Unlock, Dequeue, DequeueFails,
         Fill, CopyChunk, Goto, Finished
  <2>6. This(v) = uniqueInstance /\ This(w) = uniqueInstance
    BY <1>2, <2>1, <2>2, <2>4, <2>5 DEF OneInstance, Choosing
  <2>7. v = w
    BY <1>2, <2>1, <2>5, <2>6, OneInside DEF Inside
  <2>. QED
    BY <2>1, <2>5, <2>7
<1>. QED
  BY <1>1, <1>2, OneInstanceNext, AloneNext, SimulatedNext, AlwaysTyped, AlwaysHeld, PTL
     DEF Spec, NoneAfterFailure

===============================================================================
