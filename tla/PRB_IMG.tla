------------------------------- MODULE PRB_IMG -------------------------------
(***************************************************************************)
(* Image acquisition: work threads (DET_State.cpp:76-96) that share the    *)
(* singleton PRB_IMG, its three descriptors, its mapped buffers and its    *)
(* image buffer, in front of a V4L2 driver any of whose calls may fail.    *)
(*                                                                         *)
(* A work thread lives for one image, so that its name also names what it  *)
(* creates: the instance, the descriptors and the buffer array.  A call    *)
(* that fails ten times in xioctl() is one failing step.  How many buffers *)
(* it grants, and how long a frame is, the driver decides.                 *)
(***************************************************************************)
EXTENDS Naturals, FiniteSets

CONSTANTS
    Workers,      \* work threads
    null,         \* nullptr, and no thread
    N_BUF,        \* buffers requested from the driver
    MaxGranted,   \* bound: buffers that the driver may grant
    ImageChunks   \* bound: parts in which an image is copied

ASSUME PrbAssumption ==
    /\ null \notin Workers
    /\ MaxGranted \in Nat /\ N_BUF \in 1..MaxGranted
    /\ ImageChunks \in Nat \ {0}

VARIABLES
    IMX8_SOM,        \* the build: with the driver, or a simulator
    uniqueInstance,  \* the static pointer
    pPRB_IMG,        \* the instance each thread works with
    pc,              \* where each thread is
    count,           \* its loop counter
    fd,              \* per instance and device: whose descriptor is stored
    p_dma_buffers,   \* per instance: whose array is stored
    connection_mutex,\* per instance: the holder, or null
    img_buf,         \* per instance: the parts of the image
    buffer,          \* per thread: what get_IMG() copied
    granted,         \* per thread: entries of the array it allocated
    bytes,           \* per thread: length of the frame it dequeued, in parts
    opened,          \* kernel: descriptors open, per device
    queued,          \* kernel: buffers queued on a descriptor
    streaming,       \* kernel: descriptors that stream
    mapped,          \* kernel: mapped entries of the arrays
    crashed,         \* memory was used that is not there or not the code's
    initFailed,      \* history: threads one of whose set-up calls failed
    stopFailed,      \* history: threads whose VIDIOC_STREAMOFF failed
    overlapped       \* history: two threads were at work at the same time

memberVars == <<uniqueInstance, fd, p_dma_buffers, connection_mutex, img_buf>>
threadVars == <<pPRB_IMG, pc, count, buffer, granted, bytes>>
kernelVars == <<opened, queued, streaming, mapped>>
history    == <<initFailed, stopFailed, overlapped>>
vars       == <<IMX8_SOM, memberVars, threadVars, kernelVars, crashed, history>>

Devices == {"mxc", "csi", "prb"}
Buffers == 1..MaxGranted
Chunks  == 1..ImageChunks
blank   == <<null, 0>>
Frames  == (Workers \X {1, 2}) \cup {blank}

Finished == {"done", "failed"}
Busy(w)  == pc[w] \notin Finished \cup {"none"}

(* The constructor sets nothing.  The object is so large that malloc() maps *)
(* fresh pages for it, all zero: a null pointer, an unlocked mutex.  The    *)
(* descriptors are not used before intialize_stream() has set them.         *)
Init ==
    /\ IMX8_SOM \in BOOLEAN
    /\ uniqueInstance = null
    /\ pPRB_IMG = [w \in Workers |-> null]
    /\ pc = [w \in Workers |-> "none"]
    /\ count = [w \in Workers |-> 1]
    /\ fd = [i \in Workers |-> [d \in Devices |-> null]]
    /\ p_dma_buffers = [i \in Workers |-> null]
    /\ connection_mutex = [i \in Workers |-> null]
    /\ img_buf = [i \in Workers |-> [k \in Chunks |-> blank]]
    /\ buffer = [w \in Workers |-> [k \in Chunks |-> blank]]
    /\ granted = [w \in Workers |-> 0]
    /\ bytes = [w \in Workers |-> 0]
    /\ opened = [d \in Devices |-> {}]
    /\ queued = {} /\ streaming = {} /\ mapped = {}
    /\ crashed = FALSE
    /\ initFailed = {} /\ stopFailed = {} /\ overlapped = FALSE

Goto(w, label) == pc' = [pc EXCEPT ![w] = label]
This(w) == pPRB_IMG[w]
Device(w, d) == fd[This(w)][d]
IsOpen(w, d) == Device(w, d) \in opened[d]

---------------------------------------------------------------------------
(* Mistakes that the properties must catch: each takes the place of the    *)
(* definition of the same shape below.                                     *)

Overrun(w, last)     == count' = [count EXCEPT ![w] = @ + 1]
ArrayNotStored(w)    ==
    /\ pc[w] = "reqbufs"
    /\ IsOpen(w, "mxc")
    /\ Goto(w, "map")
    /\ UNCHANGED <<IMX8_SOM, memberVars, pPRB_IMG, count, buffer, granted,
                   bytes, kernelVars, crashed, history>>
StreamNotStopped(w)  ==
    /\ pc[w] = "streamoff"
    /\ Goto(w, "lock")
    /\ UNCHANGED <<IMX8_SOM, memberVars, pPRB_IMG, count, buffer, granted,
                   bytes, kernelVars, crashed, history>>
OneDeviceClosed(w)   ==
    /\ pc[w] = "close"
    /\ opened' = [opened EXCEPT !["mxc"] = @ \ {Device(w, "mxc")}]
    /\ Goto(w, "lock")
    /\ UNCHANGED <<IMX8_SOM, memberVars, pPRB_IMG, count, buffer, granted,
                   bytes, queued, streaming, mapped, crashed, history>>
MutexIgnored(w)      == TRUE
UnlockForgotten(w, label, next) ==
    /\ pc[w] = label
    /\ Goto(w, next)
    /\ UNCHANGED <<IMX8_SOM, memberVars, pPRB_IMG, count, buffer, granted,
                   bytes, kernelVars, crashed, history>>

---------------------------------------------------------------------------
(* getInstance(): test and construction are not synchronised. *)

TestInstance(w) ==
    /\ pc[w] = "none"
    /\ Goto(w, IF uniqueInstance = null THEN "new" ELSE "return")
    /\ overlapped' = (overlapped \/ \E v \in Workers : Busy(v))
    /\ UNCHANGED <<IMX8_SOM, memberVars, pPRB_IMG, count, buffer, granted,
                   bytes, kernelVars, crashed, initFailed, stopFailed>>

NewInstance(w) ==
    /\ pc[w] = "new"
    /\ Goto(w, "return")
    /\ uniqueInstance' = w
    /\ UNCHANGED <<IMX8_SOM, fd, p_dma_buffers, connection_mutex, img_buf,
                   pPRB_IMG, count, buffer, granted, bytes, kernelVars, crashed,
                   history>>

ReturnInstance(w) ==
    /\ pc[w] = "return"
    /\ pPRB_IMG' = [pPRB_IMG EXCEPT ![w] = uniqueInstance]
    /\ Goto(w, IF IMX8_SOM THEN "mxc" ELSE "lock")
    /\ UNCHANGED <<IMX8_SOM, memberVars, count, buffer, granted, bytes,
                   kernelVars, crashed, history>>

---------------------------------------------------------------------------
(* intialize_stream().  A device that cannot be opened ends the process,   *)
(* which every behaviour may do.  Any later failure returns at once, with  *)
(* all that was done so far left as it is, and the caller goes on.         *)

AfterOpen == [mxc |-> "csi", csi |-> "prb", prb |-> "csi_fmt"]
OpenDevice(w, d) ==
    /\ pc[w] = d
    /\ fd' = [fd EXCEPT ![This(w)][d] = w]
    /\ opened' = [opened EXCEPT ![d] = @ \cup {w}]
    /\ Goto(w, AfterOpen[d])
    /\ UNCHANGED <<IMX8_SOM, uniqueInstance, p_dma_buffers, connection_mutex,
                   img_buf, pPRB_IMG, count, buffer, granted, bytes, queued,
                   streaming, mapped, crashed, history>>

InitFails(w, labels) ==
    /\ pc[w] \in labels
    /\ Goto(w, "streamon")
    /\ initFailed' = initFailed \cup {w}
    /\ count' = [count EXCEPT ![w] = 1]
    /\ UNCHANGED <<IMX8_SOM, memberVars, pPRB_IMG, buffer, granted, bytes,
                   kernelVars, crashed, stopFailed, overlapped>>

SetFormat(w, d, label, next) ==
    /\ pc[w] = label
    /\ IsOpen(w, d)
    /\ Goto(w, next)
    /\ UNCHANGED <<IMX8_SOM, memberVars, pPRB_IMG, count, buffer, granted,
                   bytes, kernelVars, crashed, history>>

(* A loop over 1..last *)
Advance(w, last) == count' = [count EXCEPT ![w] = IF @ = last THEN 1 ELSE @ + 1]

(* VIDIOC_REQBUFS grants fewer buffers than N_BUF or more; calloc() makes   *)
(* an array of as many entries, and the previous array is lost.             *)
RequestBuffers(w) ==
    /\ pc[w] = "reqbufs"
    /\ IsOpen(w, "mxc")
    /\ \E n \in Buffers : granted' = [granted EXCEPT ![w] = n]
    /\ p_dma_buffers' = [p_dma_buffers EXCEPT ![This(w)] = w]
    /\ count' = [count EXCEPT ![w] = 1]
    /\ Goto(w, "map")
    /\ UNCHANGED <<IMX8_SOM, uniqueInstance, fd, connection_mutex, img_buf,
                   pPRB_IMG, buffer, bytes, kernelVars, crashed, history>>

(* What a use of entry k of an array can do: a null array is a crash, and   *)
(* behind the last entry anything may lie.                                  *)
Outcomes(array, k) == IF array = null THEN {TRUE}
                      ELSE IF k > granted[array] THEN BOOLEAN ELSE {FALSE}

(* The array is looked up anew for every entry: another thread may have put *)
(* a shorter one in its place.                                              *)
MapBuffer(w) ==
    /\ pc[w] = "map"
    /\ IsOpen(w, "mxc")
    /\ crashed' \in Outcomes(p_dma_buffers[This(w)], count[w])
    /\ mapped' = mapped \cup {<<p_dma_buffers[This(w)], count[w]>>}
    /\ Advance(w, granted[w])
    /\ Goto(w, IF count[w] = granted[w] THEN "qbuf" ELSE "map")
    /\ UNCHANGED <<IMX8_SOM, memberVars, pPRB_IMG, buffer, granted, bytes,
                   opened, queued, streaming, history>>

QueueBuffer(w) ==
    /\ pc[w] = "qbuf"
    /\ IsOpen(w, "mxc")
    /\ queued' = queued \cup {<<Device(w, "mxc"), count[w]>>}
    /\ Advance(w, granted[w])
    /\ Goto(w, IF count[w] = granted[w] THEN "streamon" ELSE "qbuf")
    /\ UNCHANGED <<IMX8_SOM, memberVars, pPRB_IMG, buffer, granted, bytes,
                   opened, streaming, mapped, crashed, history>>

intialize_stream(w) ==
    \/ \E d \in Devices : OpenDevice(w, d)
    \/ SetFormat(w, "csi", "csi_fmt", "mxc_fmt")
    \/ SetFormat(w, "mxc", "mxc_fmt", "reqbufs")
    \/ RequestBuffers(w)
    \/ MapBuffer(w)
    \/ QueueBuffer(w)
    \/ InitFails(w, {"csi_fmt", "mxc_fmt", "reqbufs", "map", "qbuf"})

---------------------------------------------------------------------------
(* open_stream(): the wait of five seconds changes nothing, whatever       *)
(* select() returns, because the caller overwrites the result.             *)
open_stream(w) ==
    /\ pc[w] = "streamon"
    /\ \/ /\ IsOpen(w, "mxc")
          /\ streaming' = streaming \cup {Device(w, "mxc")}
       \/ UNCHANGED streaming
    /\ Goto(w, "streamoff")
    /\ UNCHANGED <<IMX8_SOM, memberVars, pPRB_IMG, count, buffer, granted,
                   bytes, opened, queued, mapped, crashed, history>>

(* close_stream(): STREAMOFF of a stream that is off succeeds as well,     *)
(* and takes the queued buffers back.  When it fails, everything stays.    *)
StreamOff(w) ==
    /\ pc[w] = "streamoff"
    /\ \/ /\ IsOpen(w, "mxc")
          /\ streaming' = streaming \ {Device(w, "mxc")}
          /\ queued' = queued \ ({Device(w, "mxc")} \X Buffers)
          /\ Goto(w, "unmap")
          /\ UNCHANGED stopFailed
       \/ /\ stopFailed' = stopFailed \cup {w}
          /\ Goto(w, "lock")
          /\ UNCHANGED <<queued, streaming>>
    /\ UNCHANGED <<IMX8_SOM, memberVars, pPRB_IMG, count, buffer, granted,
                   bytes, opened, mapped, crashed, initFailed, overlapped>>

(* N_BUF entries, however many were granted *)
UnmapBuffers(w) ==
    /\ pc[w] = "unmap"
    /\ crashed' \in Outcomes(p_dma_buffers[This(w)], N_BUF)
    /\ mapped' = mapped \ ({p_dma_buffers[This(w)]} \X (1..N_BUF))
    /\ Goto(w, "close")
    /\ UNCHANGED <<IMX8_SOM, memberVars, pPRB_IMG, count, buffer, granted,
                   bytes, opened, queued, streaming, history>>

CloseDevices(w) ==
    /\ pc[w] = "close"
    /\ opened' = [d \in Devices |-> opened[d] \ {Device(w, d)}]
    /\ queued' = queued \ ({Device(w, "mxc")} \X Buffers)
    /\ streaming' = streaming \ {Device(w, "mxc")}
    /\ Goto(w, "lock")
    /\ UNCHANGED <<IMX8_SOM, memberVars, pPRB_IMG, count, buffer, granted,
                   bytes, mapped, crashed, history>>

close_stream(w) == StreamOff(w) \/ UnmapBuffers(w) \/ CloseDevices(w)

---------------------------------------------------------------------------
(* IMG_acquire() and get_IMG(), each under the mutex of the instance *)

MutexFree(w) == connection_mutex[This(w)] = null
Lock(w, label, next) ==
    /\ pc[w] = label
    /\ MutexFree(w)
    /\ connection_mutex' = [connection_mutex EXCEPT ![This(w)] = w]
    /\ Goto(w, next)
    /\ UNCHANGED <<IMX8_SOM, uniqueInstance, fd, p_dma_buffers, img_buf,
                   pPRB_IMG, count, buffer, granted, bytes, kernelVars, crashed,
                   history>>

Unlock(w, label, next) ==
    /\ pc[w] = label
    /\ connection_mutex' = [connection_mutex EXCEPT ![This(w)] = null]
    /\ Goto(w, next)
    /\ UNCHANGED <<IMX8_SOM, uniqueInstance, fd, p_dma_buffers, img_buf,
                   pPRB_IMG, count, buffer, granted, bytes, kernelVars, crashed,
                   history>>

(* VIDIOC_DQBUF gives the index of a filled buffer and the length of the   *)
(* frame; memcpy() then reads the mapping of that buffer, and a frame that  *)
(* is longer than the image runs over the mutex behind it.  The simulator   *)
(* makes a whole image up.                                                  *)
Dequeue(w) ==
    /\ pc[w] \in {"dequeue", "again"}
    /\ \/ /\ ~IMX8_SOM
          /\ bytes' = [bytes EXCEPT ![w] = ImageChunks]
          /\ UNCHANGED <<queued, crashed>>
       \/ /\ IMX8_SOM
          /\ IsOpen(w, "mxc") /\ Device(w, "mxc") \in streaming
          /\ \E index \in Buffers, length \in 0..ImageChunks + 1 :
                /\ <<Device(w, "mxc"), index>> \in queued
                /\ queued' = queued \ {<<Device(w, "mxc"), index>>}
                /\ bytes' = [bytes EXCEPT ![w] = length]
                /\ crashed' = (\/ length > ImageChunks
                               \/ /\ length > 0
                                  /\ <<p_dma_buffers[This(w)], index>> \notin mapped)
    /\ Goto(w, IF bytes'[w] = 0 THEN "release"
               ELSE IF pc[w] = "dequeue" THEN "fill" ELSE "refill")
    /\ UNCHANGED <<IMX8_SOM, memberVars, pPRB_IMG, count, buffer, granted,
                   opened, streaming, mapped, history>>

(* The failing call returns before the mutex is unlocked, and the thread   *)
(* gives up its image.                                                     *)
DequeueFails(w) ==
    /\ pc[w] = "dequeue"
    /\ IMX8_SOM
    /\ Goto(w, "failed")
    /\ UNCHANGED <<IMX8_SOM, memberVars, pPRB_IMG, count, buffer, granted,
                   bytes, kernelVars, crashed, history>>

(* The frame replaces as much of the image as it is long. *)
FrameOf(w) == <<w, IF pc[w] = "fill" THEN 1 ELSE 2>>
Fill(w) ==
    /\ pc[w] \in {"fill", "refill"}
    /\ img_buf' = [img_buf EXCEPT ![This(w)][count[w]] = FrameOf(w)]
    /\ Advance(w, bytes[w])
    /\ pc' = [pc EXCEPT ![w] = IF count[w] < bytes[w] THEN @
                               ELSE IF @ = "fill" /\ ~IMX8_SOM THEN "unlock" ELSE "release"]
    /\ UNCHANGED <<IMX8_SOM, uniqueInstance, fd, p_dma_buffers,
                   connection_mutex, pPRB_IMG, buffer, granted, bytes,
                   kernelVars, crashed, history>>

(* The simulator build calls it twice. *)
IMG_acquire(w) ==
    \/ Lock(w, "lock", "dequeue")
    \/ Lock(w, "relock", "again")
    \/ Dequeue(w)
    \/ DequeueFails(w)
    \/ Fill(w)
    \/ Unlock(w, "unlock", "relock")
    \/ Unlock(w, "release", "get")

CopyChunk(w) ==
    /\ pc[w] = "copy"
    /\ buffer' = [buffer EXCEPT ![w][count[w]] = img_buf[This(w)][count[w]]]
    /\ Advance(w, ImageChunks)
    /\ Goto(w, IF count[w] = ImageChunks THEN "copied" ELSE "copy")
    /\ UNCHANGED <<IMX8_SOM, memberVars, pPRB_IMG, granted, bytes, kernelVars,
                   crashed, history>>

get_IMG(w) ==
    \/ Lock(w, "get", "copy")
    \/ CopyChunk(w)
    \/ Unlock(w, "copied", "done")

---------------------------------------------------------------------------
getInstance(w) == TestInstance(w) \/ NewInstance(w) \/ ReturnInstance(w)

work(w) ==
    /\ ~crashed
    /\ \/ getInstance(w)
       \/ intialize_stream(w)
       \/ open_stream(w)
       \/ close_stream(w)
       \/ IMG_acquire(w)
       \/ get_IMG(w)

Next == \E w \in Workers : work(w)

Spec == Init /\ [][Next]_vars

(* Every thread is scheduled, and a free mutex is taken sooner or later: a *)
(* thread takes it three times at most, so that weak fairness is enough.   *)
FairSpec == Spec /\ \A w \in Workers : WF_vars(work(w))

---------------------------------------------------------------------------
(* Properties *)

Setup  == {"csi_fmt", "mxc_fmt", "reqbufs", "map", "qbuf"}
Labels == {"none", "new", "return", "streamon", "streamoff", "unmap", "close", "lock",
           "relock", "dequeue", "again", "fill", "refill", "unlock", "release", "get",
           "copy", "copied"} \cup Devices \cup Setup \cup Finished

(* Every variable stays in its range, and no loop of a thread goes beyond   *)
(* what its bound stands for: the buffers granted to it, the frame it       *)
(* dequeued, the image.  (That the array or the mapping under it is still   *)
(* there is CrashNeedsFailure.)                                             *)
TypeOK ==
    /\ IMX8_SOM \in BOOLEAN
    /\ uniqueInstance \in Workers \cup {null}
    /\ pPRB_IMG \in [Workers -> Workers \cup {null}]
    /\ pc \in [Workers -> Labels]
    /\ count \in [Workers -> Nat]
    /\ granted \in [Workers -> 0..MaxGranted]
    /\ bytes \in [Workers -> 0..ImageChunks + 1]
    /\ \A w \in Workers :
          /\ pc[w] \in {"map", "qbuf"} => count[w] \in 1..granted[w]
          /\ pc[w] \in {"fill", "refill"} => count[w] \in 1..bytes[w]
          /\ pc[w] = "copy" => count[w] \in Chunks
    /\ fd \in [Workers -> [Devices -> Workers \cup {null}]]
    /\ p_dma_buffers \in [Workers -> Workers \cup {null}]
    /\ connection_mutex \in [Workers -> Workers \cup {null}]
    /\ img_buf \in [Workers -> [Chunks -> Frames]]
    /\ buffer \in [Workers -> [Chunks -> Frames]]
    /\ opened \in [Devices -> SUBSET Workers]
    /\ queued \subseteq Workers \X Buffers /\ streaming \subseteq Workers
    /\ mapped \subseteq (Workers \cup {null}) \X Buffers
    /\ crashed \in BOOLEAN
    /\ initFailed \subseteq Workers /\ stopFailed \subseteq Workers
    /\ overlapped \in BOOLEAN

HasImage == {"fill", "release", "get", "copy", "copied", "done"}
Stopped  == {"lock", "dequeue"} \cup HasImage \cup Finished

(* The stream is closed before the image is dequeued from it: with the     *)
(* driver, a thread that is not disturbed by another gets an image only if *)
(* VIDIOC_STREAMOFF failed, and no image when every call succeeds.         *)
ImageOnlyIfStopFailed ==
    (IMX8_SOM /\ ~overlapped) =>
        \A w \in Workers : pc[w] \in HasImage => w \in stopFailed

(* Descriptors are left open by exactly the threads whose STREAMOFF failed, *)
(* whatever failed before it; buffers stay mapped only then, or when the    *)
(* driver granted more of them than close_stream() counts.                  *)
LeftOpenIffStopFailed ==
    (IMX8_SOM /\ ~overlapped /\ ~crashed) =>
        \A w \in Workers : pc[w] \in Stopped =>
            /\ \A d \in Devices : w \in opened[d] <=> w \in stopFailed
            /\ \A k \in Buffers : <<w, k>> \in mapped => w \in stopFailed \/ k > N_BUF

(* munmap() of a null array, an access behind the end of an array and a     *)
(* copy from an unmapped buffer need a set-up that failed, two threads at   *)
(* once, or a driver that grants fewer buffers than requested or hands over *)
(* a frame longer than the image.                                           *)
GrantedFewer(w) == granted[w] \in 1..N_BUF - 1
FrameTooLong(w) == bytes[w] > ImageChunks
CrashNeedsFailure ==
    crashed => \/ overlapped \/ initFailed # {}
               \/ \E w \in Workers : GrantedFewer(w) \/ FrameTooLong(w)

(* Bound for model checking: the driver gives at most one odd answer; once   *)
(* two threads have met, that is no number of buffers, and comes only if no  *)
(* set-up failed.                                                           *)
OddGrants == {w \in Workers : granted[w] \notin {0, N_BUF}}
OddFrames == {w \in Workers : bytes[w] \notin {0, ImageChunks}}
OddAnswersAreRare ==
    /\ Cardinality(OddGrants) + Cardinality(OddFrames) <= 1
    /\ overlapped => OddGrants = {} /\ Cardinality(OddFrames) + Cardinality(initFailed) <= 1

(* A dequeue that failed has left the mutex locked: from then on nobody     *)
(* gets into that instance, and its image stays what it is.                 *)
Abandoned(i) ==
    \E w \in Workers : pc[w] = "failed" /\ connection_mutex[i] = w
StaysAbandoned ==
    [][\A i \in Workers : Abandoned(i) =>
            Abandoned(i)' /\ img_buf'[i] = img_buf[i]]_vars

(* While no two threads meet, one failed dequeue is the end of it: no later *)
(* thread gets an image, or even an error.  (Two threads that meet may      *)
(* construct two instances, and then two mutexes.)                         *)
SomeFailed == \E v \in Workers : pc[v] = "failed"
NoneAfterFailure ==
    [][SomeFailed /\ ~overlapped' =>
            \A w \in Workers : pc'[w] \in Finished => pc'[w] = pc[w]]_vars

(* Unless some dequeue fails so or the process crashes, every thread that  *)
(* waits for the mutex gets through its acquisition.                       *)
AcquisitionEnds ==
    [](~crashed /\ \A w \in Workers : pc[w] # "failed") =>
        \A w \in Workers : (pc[w] \in {"lock", "relock", "get"}) ~> (pc[w] = "done")

(* PRB_IMG implements a register of images, for all interleavings of        *)
(* threads and even when the singleton was constructed twice: an image is   *)
(* replaced, as far as the frame goes, when the frame is dequeued, and      *)
(* received when its last part is copied; nothing comes between.            *)
Pending(i, k) ==
    LET w == connection_mutex[i]
    IN  /\ w # null /\ This(w) = i
        /\ pc[w] \in {"fill", "refill"} /\ k \in count[w]..bytes[w]
Image(i) == [k \in Chunks |-> IF Pending(i, k) THEN FrameOf(connection_mutex[i])
                              ELSE img_buf[i][k]]
Received(w) == IF pc[w] \in {"copied", "done"} THEN buffer[w] ELSE null
Register == INSTANCE ImageRegister WITH
    Readers <- Workers, Instances <- Workers, Size <- ImageChunks, None <- null,
    image <- [i \in Workers |-> Image(i)],
    got <- [w \in Workers |-> Received(w)]
ImplementsRegister == Register!Spec

===============================================================================
