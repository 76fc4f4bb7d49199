# A model of the detector server of the i.MX8 board

The program under `src/` runs on the i.MX8 board of an X-ray detector. It
listens on port 1024 for commands of a control program (sleep, work, close,
trigger), acquires images through the PRB driver and sends them, and on port
12345 for the network configuration. This directory holds TLA+ modules for the
parts of it whose correctness depends on the order of events, the TLC runs that
check them on small instances, and TLAPS proofs of their main properties for
every instance.

`PROJECT.json` lists components, runs, findings, hazards and theorems, and
gives for every definition the source lines it stands for.

## The system

| Component | Code | State it keeps | Operations |
| --- | --- | --- | --- |
| Detector port 1024 | `Mgard300_Handler.*` | `current_socket`, `number_connection`, `q_execute_cmd`, `buf`, `n_read_bytes`, `tm_`, two flags | accept loop, one packet analysis thread and one executor per connection, `close_socket()`, `send_data_to_client()` |
| State machine | `DET_State.*`, `transition_to_state()` | `current_state` (a heap object), `is_working`, work threads | `handle()` of the four states; WORK starts a detached thread that acquires and sends an image |
| Image acquisition | `PRB_IMG.*` | a singleton: descriptors, mapped buffer, a mutex | initialise, open and close the stream, acquire |
| Configuration port 12345 | `main.cpp` | one connection at a time, a stack buffer | accept, read a message, scan Wi-Fi or read again and process JSON |
| Network settings | `Settings.*` | the mode flag `check`, configuration, retry counter, GLib main loop; outside of the process a file and two services | Wi-Fi scan with retries, access point and station mode, JSON file |
| Power monitor | `PowerMonitor.*`, `checksum.h` | a UART descriptor | framed requests and replies with a CRC (used by nobody in `main.cpp`) |
| Sockets | `sockpp` (`socket`, `stream_socket`, `acceptor`, `connector`) | a handle and a cached `errno` per object | move, close, read and write loops, connect with a timeout |
| Counter test | `test.cc` | none: every line is commented out | none |

**How they interact.** `main()` starts one thread per port. The thread of port
1024 runs `handle_connections()`: it moves what `accept()` returns into the
single shared `current_socket`, increments `number_connection`, and starts two
detached threads. The packet analysis thread reads five-byte messages from
`current_socket`, queues the four state commands and acknowledges; the executor
takes commands from the queue and calls `transition_to_state()`, which deletes
the old state object, installs a new one and runs its `handle()`. `WorkState`
starts a detached work thread; `send_data_to_client()` writes the image to
`current_socket` chunk by chunk, and when a write fails the work thread itself
calls `handle_connections()`, which makes a second accept loop on the same
members. `CloseState` closes `current_socket` under everybody's hands. The work
threads share the singleton `PRB_IMG`, its descriptors, its buffers and its
mutex. The thread of port 12345 shares nothing with the other but sockpp's code:
it serves one connection after another, and drives NetworkManager, `hostapd` and
a configuration file by shell commands and a GLib loop.

**What is hard here.** There are four kinds of threads, none of which is ever joined,
and no common lock: single accessors take a mutex, sequences of them do not. A thread
blocked in `recv()` on a replaced connection wakes up late and acts on the new one. The
socket object caches the error of whoever used it last. A counter decides which thread
exits. A failed acquisition takes an early return past the statement that clears a flag,
and another with a mutex held. On port 12345 the steps of a mode switch fail silently,
and the process may be started again in another mode than it thinks. An answer of the
power board may come too late. `PROJECT.json` lists these hazards at their lines.

**What should be true**, component by component:

- *Detector port*: the count is what the threads make it; a connection has one
  owner, which closes it once, and none is lost or closed in the place of
  another; a client's messages are read, its own and complete.
- *State machine*: one image at a time; the flag says so; no freed object is
  used; an image that was asked for arrives whole.
- *Image acquisition*: a failure at any step releases the mutex, the buffer and
  the descriptors; nothing is dequeued from a stopped stream.
- *Configuration port and settings*: the next client is served; the flag knows
  the mode; a request takes effect if it was read and only then.
- *Power monitor*: a reply is accepted only if it answers the request; a
  request carries its data unchanged.
- *Sockets*: a handle has one owner; a failure is reported and leaves nothing
  behind; read and write loops count right, and end.

Not all of it is true. Where the code falls short, the properties below say
exactly how far it goes.

## Modules

| Module | What it is |
| --- | --- |
| `Mgard300_Handler` | accept loops, packet analysis threads, shared socket, count, queue; its callers are left free to call at any time |
| `DET_State` | extends it with the executors, the state objects and the work threads; these replace the free callers |
| `PRB_IMG` | the image singleton between work threads and a driver that may fail |
| `ImageRegister` | abstract: an object that holds an image, over which a frame is put at once, and which is received at once |
| `sockpp_socket` | the objects of sockpp, their descriptors and errors; every method with its failures |
| `HandleOwner` | abstract: each open descriptor has one owner, or is lost |
| `stream_socket` | the read and write loops, system call by system call |
| `Settings` | port 12345: its two reads, the mode switch, the Wi-Fi scan, restarts |
| `PowerMonitor` | requests and answers on the UART |
| `MCMgard300_Handler`, `MCDET_State`, `MCsockpp_socket` | symmetry sets and the constraints of some runs |
| `..._proofs` | theorems about `Mgard300_Handler`, `DET_State`, `PRB_IMG`, `sockpp_socket`, `stream_socket`, `Settings`, `PowerMonitor` |

### `Mgard300_Handler`

The granularity is a system call or an access to a shared member: where the
code releases a mutex between two steps, so does the model.

- **Handles**. The program knows a connection by a descriptor number, which the
  kernel gives out again once it is closed. A handle of the model is the connection
  it was loaded for, and `number` the number of each; a call with a handle reaches
  whatever has that number by then (`Refers`). So a `close()` with a handle that
  was closed before is EBADF, or closes another connection (`CloseNumber`).
- **Accept loop** (`loop[l]`): `AcceptConnection` / `AcceptFails` return from
  `accept()`; the move assignment is three steps, since it takes no mutex:
  `LoadOld` loads the old handle, `MoveAssign` stores the new one and clears the
  error, `DisposeOld` closes the old one through the temporary;
  `increment_number_connection`; `TestAccepted` is `if (!current_socket)
  continue`, which also looks at the cached error; `start_threads`; and
  `CheckSocket`, the `break` after which `main` destroys the handler.
  `loop` has an entry for `main` and one for each work thread that may call
  `handle_connections()` recursively.
- **Packet analysis thread** (`parser[t]`): `LoadHandle` and `CallRecv` are the
  unlocked read of the shared handle and the call that uses it; the four
  `Read...` actions are the results of `recv()`, each of which writes the
  shared `n_read_bytes`, `buf` and cached error; `Dispatch` is the byte count
  check with its signed-to-unsigned comparison and the queueing; `LoadReply` and
  `Reply` load whatever `current_socket` is by then and send five bytes to it;
  `CountTest` and `decrement_number_connection` are two critical sections.
- **Callers**: `get_state`; `close_socket()` in four steps, the test of the handle
  (`CloseTest`), its load and the store of -1 in `release()` (`CloseLoad`,
  `CloseStore`), and `close()` (`CloseKernel`); `SocketWrite`, one `send()` with a
  handle loaded before; and `EnterLoop`. `close_socket()` holds
  `connection_mutex` throughout, which keeps out itself and every accessor
  (`MutexFree`), but not a swap.
- **Clients** connect, send, and leave with FIN or RST at any time.
- `phantoms`, `stale_closes`, `victims` and `overlapped` are history: no action reads
  them.

### `DET_State`

- **Executor** (`exec[t]`): `TakeCommand`, then `transition_to_state()` as
  `DeleteState`, `AssignState`, `Dispatched` (the pointer is read again), then
  `handle()`: the steps of `close_socket()` in `CloseSocket`, or `WaitForWork`,
  `SetWorking`, `StartWork`, `DetachWork`.
- **Work thread** (`work[w]`): `AcquireImage` (which may fail in the build with
  the driver); `BeginSend`, and `BeginChunk` for each chunk; `write_n()` loads the
  shared handle for every `send()` (`LoadSocket`), and each sends one or more
  pieces of the chunk (`SendPiece`) or fails (`SendFails`), so that a chunk may go
  to two connections; `MarkClosed`, `SendLoopEnds`; `AfterSend` and `Reconnect`, the
  test and the store before the thread becomes accept loop `w`; `LoopReturns`;
  `FinishWork` clears the flag, and `LeaveWork` locks and writes to the thread's own
  state object (`DET_State.cpp:125-126`).
- `corrupted` says who used a state object after it was freed: a transition (which also
  stands for a joinable `std::thread` that is overwritten), or a work thread as it
  leaves. The model then stops, since nothing can be said of the program.
- `objects` are addresses that may be allocated again, so that a stale pointer
  may also meet a new object.

`DetSpec` implements `Spec` of the handler: `HandlerSpec`, checked by TLC and
proved. This justifies the free callers of the first module and carries its
theorems over to the composition. `AcquireImage` is one step here; what it stands
for is `PRB_IMG`.

### `PRB_IMG`

A step of the work thread (`DET_State.cpp:76-96`) is a call of the driver or an
access to the singleton. `pc[w]` runs through `getInstance()` (`TestInstance`,
`NewInstance`, `ReturnInstance`: nothing synchronises them, so that two threads may
construct two instances with two mutexes), `intialize_stream()` (`OpenDevice`
for the three devices, `SetFormat` twice, `RequestBuffers`, `MapBuffer`,
`QueueBuffer`; `InitFails` returns from any of them with all that was done left
as it is), `open_stream()`, `close_stream()` (`StreamOff`, `UnmapBuffers`,
`CloseDevices`), `IMG_acquire()` (`Lock`, `Dequeue` or `DequeueFails`, `Fill` for
each part of the frame, `Unlock`) and `get_IMG()` (`CopyChunk`). The simulator
build has no stream and acquires twice. `IMX8_SOM`, the build, is chosen in
`Init`, so that a run covers both.

The driver decides how many buffers it grants (`granted`, from 1 to `MaxGranted`;
drivers answer a request that they cannot meet at all with ENOMEM) and how
long a frame is (`bytes`, from nothing to a part more than the image has). The
set-up loops run to the first, the copy to the second, and `UnmapBuffers` to
`N_BUF` whatever was granted. An entry behind the end of an array may be anything
(`Outcomes`), a frame that is too long overwrites the mutex behind the image, and
`crashed` says that the process has used such memory.

The kernel's side is `opened`, `queued`, `streaming` and `mapped`. `fd` and
`p_dma_buffers` are what the instance remembers of it; each new set-up
overwrites them. `initFailed`, `stopFailed` and `overlapped` are history.

The constructor sets no member. `Init` nevertheless starts with a null array and a
free mutex: the object contains the image of some megabytes, for which `malloc()` maps
fresh pages, and those are zero; the descriptors are used only after `intialize_stream()`
has set them.

`ImplementsRegister`: each step is a step of `ImageRegister` or changes nothing
there. The image of an instance is `img_buf` with the parts that the holder of its
mutex has still to write of its frame as if they were written (`Image`): so a frame
replaces the image, as far as it goes, when it is dequeued. A thread receives
its image with the last part it copies.

### `sockpp_socket`

A method of `socket` and of the classes derived from it is one step. `handle_` and
`lastErr_` are the members; `kernel` is the state of every descriptor number, which is
given out again once it is closed; `loose` are the handles that `release()` returned and
the caller holds. Moves swap or take over handles as the code does; `create`, `clone`,
`accept`, `pair`, `open`, `connect` and `connect_timeout` each have their failures, with
what the object's error is afterwards: a failed `accept()` leaves it in the acceptor, a
failed `dup()` and a failed datagram constructor leave it nowhere, `close_on_err()`
keeps that of the failed call; a successful `accept()` clears that of the acceptor. Of
`datagram_socket` there are the constructor (`DatagramSocket`), `connect()` and the
calls that leave only an error (`DatagramIO`); the constructor that binds and
`recv_from()` are declared (`datagram_socket.h:98`) and defined nowhere in the
repository. `lost` (what `shutdown()` forgets) and `last` are history.

`ImplementsOwnership` maps a descriptor to its owner (`OwnerOf`), and shows that
it changes hands only as `HandleOwner` allows.

### `stream_socket`

One object, a reader and a writer thread. `SystemCall` is `recv()` or `send()`
with a part of what was asked for, the end of the stream, a timeout, a signal or
a reset; `Test` is the rest of the loop's body. Between the two the
other thread may overwrite the error kept by the object, which `read_n()` and
`write_n()` look at and `read_n_r()` and `write_n_r()` do not (`ErrorSeen`).
`EndOfFile` is the test that `read_n_r()` has not. `moved` and `crossed` are history.

### `Settings`

`thread_12345` is the body of the thread in `main.cpp` with what it calls:
`Accept`, `FirstRead` (the message compared with `cmd_scan_wifi` and then
forgotten), `receive` (the second read, into a stack buffer that is not cleared),
`processJson`, `switchToStationMode` and `switchToAPMode` one command at a time,
`add_wifi`, `set_IP` (which never closes its socket), and the scan with its
retries. `conf`, `managed`, `hostapd` and `joined` are the file, the two services and the
interface: they survive a `Restart`, after which `check` is FALSE again.

A read returns one or more of the messages that have arrived, or a part of one,
or the end of the stream, or an error. The rest of a message that was read in parts
(`Rests`) may parse by itself: what follows the cut may begin with a quoted key, a
number or an inner object, which `json_tokener_parse()` takes for JSON without
settings, and any JSON without the mode "station" switches to access point mode. A
message begins with its value and holds no second request inside: its rest is
never a request with settings.

The process ends ("crashed") on a field that is null or settings that are no object
(`processJson`), and may end in a scan without a Wi-Fi device: the pointer to it was
never set, so that `StartScan` does nothing, or waits for a request that was never made
("no_request"), or crashes. A write to the configuration file may fail without notice
(`WriteConf`), as may every command. `stale`, `failed` and `inherited` are history.

### `PowerMonitor`

`Request` writes a request and waits; `BoardAnswers` and `BoardDrops` are the
power board, at any time; `GetData`, `SetData`, `Refuse` and `ReadOneByte` are
what the code does with the bytes that `read()` took, and `Timeout` is the second that
passed without any. A byte is a triple (what it is, of which register, at which
place), so that a part of an answer and the end of another remain what they are.
`MayBeRefused` is the acceptance test with its four conditions joined by `and`,
`Fits` and `Copied` the copy whose length is a byte of the answer. The
checksum is not computed: whether it agrees is left open, since the code compares it
with the tail.

`uart_init()` does not close what `serial_port` held, so that a second call leaves a
descriptor open behind it (`ports`, at most `MaxPorts`). When the settings cannot be
read or made, it returns -1 with the port open and the settings as they were: without
`raw` an answer may come altered (`Altered`), a read has no time limit, and a byte may
end it (`EndOfFile`). `uart_close()` drops what was received only with the last
descriptor.

### Abstractions

- The kernel gives `accept()` any number that nothing open has, and not the
  lowest: the rest of the process takes and returns numbers too.
- A write to a connection that is gone returns an error: SIGPIPE is ignored
  (`sockpp::initialize()`, `main.cpp`).
- Messages are whole frames of five bytes, and only the command byte `buf[1]`
  is kept. The check of the frame's two markers, compiled with `DEBUG` only, passes
  for them, and for a stale frame in `buf` as well; only the uninitialised `buf`
  before the first message would fail it. A frame split over two reads is left out:
  nothing in the code would bring the reads back to the beginning of a frame.
- Both threads of a pair start in one step: each first sleeps for a second.
- `std::map tm_` is not a variable: its threads are detached, so that
  `close_all_threads()` does nothing to them. Races on the map itself are out.
- A write to a client that is up succeeds: a client that never reads and so
  blocks the writer is left out.
- `LeaveWork` of a state object whose address holds another `WorkState` by then is
  harmless: it writes what nobody reads.
- `PRB_IMG` calls `exit()` when a device cannot be opened: the process ends,
  which every behaviour of the model may do as well.
- A work thread of `PRB_IMG` lives for one image, so that its name also names the
  descriptors and buffers it creates. The ten attempts of `xioctl()` are one call
  that succeeds or fails. A mapping that was undone is not there any more: that the
  kernel may use its addresses again is left out.
- In `DET_State` an acquisition is one step and the mutex that a failed one keeps is
  one flag (`prbLocked`). `NoneAfterFailure` says this of `PRB_IMG` while no two
  threads meet; what two first acquisitions at the same time do, with their two
  instances and mutexes, is said by `PRB_IMG` alone.
- An object of `sockpp_socket` is used by one thread at a time: what happens
  otherwise is the subject of `Mgard300_Handler`. Addresses and options are left out.
- `stream_socket` keeps numbers of bytes only.
- `Settings` keeps the kind of a request and not its contents, and of the replies
  nothing. Shell commands succeed or fail; `nmcli` connects only a managed interface.
- In `PowerMonitor` no value is unpacked from its four bytes.
- Logging, sleeps, the copy of the image to `data.bin` and its MD5 are left out.

## Runs

| Run | Instance | What it shows |
| --- | --- | --- |
| `handler_two_loops` | 2 connections, 2 descriptor numbers, 2 thread pairs, 2 accept loops, 1 failing `accept()`, no messages, clients stay | `CurrentIsOpen`: the current descriptor is closed under the socket only by a `close()` meant for an earlier owner of its number; `OwnershipUnlessOverlap`: one owner each, as long as no two swaps, nor a swap and `close_socket()`, have overlapped; `NumberConserved`: the count equals live packet analysis threads, pairs about to start and abandoned passes, so the guard of the decrement never swallows one; `CrowdStays`: past two no thread leaves any more |
| `handler_one_client` | 1 connection, 3 messages under way, 2 queued commands, fair | `TypeOK`; `MessagesRead`: a client that is alone is served |
| `handler_dropped` | 2 connections, 1 accept loop, commands without effect | `OnlyFailedAcceptsDropped` **fails**: a stale error drops a good connection |
| `det_one_client` | 1 pair, 2 work threads, 2 objects, an image that is one chunk of 2 pieces, driver build, no resets | `WorkFlagAccounted`, `OneWorkAtATime`, `TransitionsIntact`, `CompleteUnlessFailed`, `DetTypeOK`, and the refinement `HandlerSpec` |
| `det_two_clients` | 2 pairs, 2 objects, CLOSE only, clients stay | `LostOnlyByStaleClose` with the real callers |
| `det_delivery` | 1 pair, WORK and TRIGGER, simulator, clients stay, fair | `ImageDelivered`: a WORK command ends in the whole image |
| `det_work_flag` | 1 pair, driver build | `WorkFlagMeaning` **fails**: a failed acquisition leaves the flag set |
| `prb_two_workers` | 2 work threads, both builds, `N_BUF` 2, 1 to 3 buffers granted, images of 2 parts, frames of 0 to 3, fair | `ImplementsRegister`: images mix only as far as a frame is short; `ImageOnlyIfStopFailed`, `LeftOpenIffStopFailed`, `CrashNeedsFailure`: what one thread's acquisition gets and leaves behind, and whose fault a crash is; `StaysAbandoned`, `NoneAfterFailure`: a failed dequeue blocks the instance for good, and with it every later thread that meets no other; `AcquisitionEnds` otherwise; `TypeOK` |
| `sockpp_objects` | 3 objects, 3 descriptor numbers | `OneOwner`, `Accounted`, `ImplementsOwnership`: who owns what; `ConnectedIfTrue`, `FailureReported`: what `open()` and `connect()` leave |
| `stream_loops` | calls for 2 bytes, 2 bytes in the kernel each way, 1 signal, fair | `NoByteLost`, `ShortForAReason`: counts and short returns; `CallsEnd`, `SpinsAtEnd`: which calls end once the peer is gone, and which never does; `TypeOK` |
| `settings_port` | 2 clients, 2 messages on a connection, 1 retry, 2 spare descriptors, 1 restart, fair | `FlagKnowsMode`, `OnlyApUnsticks`: what the flag is worth; `FirstMessageLost`: what may act of a first message; `ClientAccepted`: when the next client is served; `TypeOK` |
| `power_late` | registers 1 and 10, one display value, 18 bytes on the line, 2 requests unanswered, 2 descriptors | `AnswersInOrder`: whose value a call stores; `TypeOK`: no copy leaves the register's four bytes |

`sockpp_objects` and `stream_loops` check for deadlock. All other runs set
`CHECK_DEADLOCK FALSE`, because the system may really stop: the clients
are finitely many, and when they are done the server blocks in `accept()` and
`recv()`, or `main` leaves the accept loop; a process that `PRB_IMG` or `PowerMonitor`
has crashed does nothing more; work threads finish, or wait for ever for a
mutex; a failed `accept()` ends the thread of port 12345.

**Bounds.** Two connections with two thread pairs are the smallest instance in
which a connection is replaced while a thread still reads from it, and two
decrements may race on a count of two. The count reaches three by a failed
`accept()`, whose increment is never taken back. Two accept loops are what one
failed transfer makes. Two descriptor numbers for two connections let the second get
either a number of its own or that of the first, if it was closed: in
`handler_two_loops` a late `close()` does hit the connection that is current, which
`CurrentIsOpen` names and `victims` records. One message under way is enough for a
late message; the liveness run takes three, more than the queue of two holds, so
that the parser meets a full queue. Two pieces allow a transfer to be interrupted in its
middle. `InboxBound`, `QueueBound` and `MaxAcceptFailures` bound the handler;
the code has no limit on the queue, so `Dispatch` waits on `QueueBound` only to
keep the instance finite.

Four runs have a constraint on what the clients do, since each has many states without
it. `handler_two_loops` and `det_delivery` look only at clients that stay
(`ClientsStay`): a read still fails there on a handle that was closed meanwhile.
`det_one_client` leaves out resets (`NoReset`); a client may still close its side.
`det_two_clients` has clients that stay, and only one of the two values of
`is_client_closed`, which nobody reads without WORK commands (`ClientsStayIdle`). The
invariants of these runs are proved without the constraints; `ImageDelivered` has its
own premise that no client leaves.

In `PRB_IMG` two threads make every overlap of two; `N_BUF` 2 and `ImageChunks` 2 are
the least with a loop that is left in its middle, and `MaxGranted` 3 has a driver that
grants fewer buffers, as many, and more. `OddAnswersAreRare`
keeps to one odd answer of the driver in a behaviour: a number of buffers, as long as
no two threads have met, or the length of a frame. Once two have met, that and a failed
set-up exclude each other, and only one set-up fails. The proofs do without it. Three objects and three descriptors allow a move chain and a number used
again while two others are open. `Length` and `Capacity` 2 make partial transfers and a
full kernel buffer, `MaxSignals` 1 an interrupted call. In `Settings` two messages are
what a request needs (`MaxMessages`), `MaxAttempts` is 1 instead of 10 (one retry and
one refusal after it), `MaxFiles` 2 lets `set_IP()` exhaust the descriptors,
`MaxRestarts` 1 makes one restart from every state. In `PowerMonitor` `TtyBound` 18 is
two whole answers, `MaxLate` 2 two requests that wait for theirs, and `AnyByte` (0, 4,
255) a length below, at and beyond the four bytes of data; `Registers` has 10, which the
code asks for as 9. `MaxPorts` 2 is one lost descriptor, and `OneAnswerAtATime` keeps to
one request at a time while one is lost or the settings are not made.

Connections, thread ids, object addresses, socket objects and descriptor numbers
are symmetric, and symmetry is used in no run with a liveness property.

**Fairness.** Weak fairness of each thread (accept loop, packet analysis thread,
executor, work thread): the operating system schedules a thread that can go on, and a
blocked call returns once it has something to return. Clients get none: they need not
send, nor leave. `WaitForWork` polls, so weak fairness is enough for it as long as the
flag stays down; in the liveness run nobody raises it meanwhile, with one executor. A
thread of `PRB_IMG` takes the mutex three times at most, so that no thread can be kept
out of it for ever, and weak fairness is enough there too. In `stream_socket` the two
threads are fair, the peer is not, and nobody need make a call. In `Settings` the thread
is fair, which includes that NetworkManager answers a scan request, with an error at the
latest: that is what its asynchronous calls do. `ClientAccepted` is not a promise that a
client is accepted. Its premise excludes six things, each of which the code allows and
each of which keeps all later clients waiting: a client that stays and sends nothing, a
scan that is refused once too often, a scan without a Wi-Fi device, a crash of the
process (a null field, settings that are no object, the missing device), an `accept()`
that meets an aborted connection, and the descriptors that `set_IP()` uses up. The
property says that there is no seventh in what is modelled.

## Theorems

Everything is proved from the assumptions named in the modules. They say only that names
which must differ differ, that sets which are counted are finite, and that bounds are
natural numbers, some of them positive: `ConstantsAssumption`, `DetAssumption` (which
adds that the work threads are the accept loops other than main), `PrbAssumption`,
`SocketAssumption`, `StreamAssumption`, `SettingsAssumption`, `PowerAssumption`. Numbers
of clients, threads, loops, objects, descriptors, bytes and chunks, and all bounds, are
arbitrary.

*Handler and state machine*

- `Typing`: `TypeOK`, action by action.
- `CountConserved`: `NumberConserved` is inductive together with `TypeOK`. The
  work is in the cardinalities: each action adds or removes at most one element of
  `LiveParsers` and `CountedLoops` (lemmas on finite sets), and the guarded
  decrement is exact because the thread that runs it is itself counted.
- `SharedSocketOpen`: `CurrentIsOpen` is not inductive: a move assignment installs what
  the loop accepted earlier. The strengthening `SocketInv` says of each handle that an
  object holds, or a loop is about to install, that its connection is open or a victim
  (`Sound`); that whatever a loop or `close_socket()` has loaded was once accepted
  (`Was`); that what a loop has accepted is known to nobody else (`Apart`), so that no
  `close()` is meant for it; and that open connections have different numbers
  (`NumbersApart`), so that one which is hit all the same is hit by number. `TwoKinds`
  splits the steps into those that move no handle (`SameSwaps`) and those that do
  (`HandleStep`), for this theorem and the next two.
- `OwnershipStrict`: `OwnershipUnlessOverlap`. `OwnInv` says that until something has
  overlapped there is one swap at a time and none during `close_socket()`
  (`OneAtATime`), that what either has loaded is still current (`LoadedIsCurrent`), and
  that a connection is owned exactly while it is open (`StrictlyOwned`).
- `CrowdNeverShrinks`: the action property `CrowdStays`; a count above two
  misses the test for exactly two in every thread, and only a thread past that test
  decrements.
- `LostByStaleClose`: `LostOnlyByStaleClose` holds as long as no two loops are between
  load and store of a swap at the same time (`OneSwap`). `LostInv` adds `Swapped`:
  during a swap the socket still holds what the loop loaded, or `close_socket()` has
  emptied it. The rest is an account (`Paid`): the lost descriptors are no more than the
  stale closes that happened, and those that a loop (`Due`) or `close_socket()`
  (`DueRelease`) is still to make.
- `Implements`: `DetSpec => HandlerSpec`; each step of an executor or work thread
  is a step of `CallerNext` or leaves the handler alone.
- `ServerInvariants`: `TypeOK`, `NumberConserved`, `CurrentIsOpen`,
  `OwnershipUnlessOverlap` and `CrowdStays` for the composed server.
- `ServerLosesByStaleClose`: `LostByStaleClose` for the composed server, where
  every work thread may become an accept loop, again under `OneSwap`.
- `DetTyping`: `DetTypeOK`, with `WritesWithin`: `write_n()` goes on only while it has
  sent less than the chunk.
- `OneExecutorIntact`, `OneExecutorFlag`, `OneExecutorOneWork`, `OneExecutorComplete`:
  as long as no second executor was started (`OneExecutor`), `TransitionsIntact`,
  `WorkFlagAccounted`, `OneWorkAtATime` and `CompleteUnlessFailed`, for any number of
  work threads, state objects and pieces. They are proved together (`SoleInv`), because
  each rests on the others: what the executor holds keeps `current_state` from dangling
  but between delete and assignment (`Intact`); the flag, the executor about to start
  work, a work thread and a failed acquisition exclude each other (`WorkAlone`); and
  only then is nobody there to raise `is_client_closed` in the middle of a transfer
  (`SendsAll`). That the premise held in the state before follows from `StartedStays`.
  `TransitionsIntact` says nothing of a work thread's own last write, which may go to a
  deleted object with one executor as well.

*Image acquisition*

- `Typing`: the loops stay within what the driver granted, the frame it gave and the
  image; a loop counter is 1 outside of the loops (`CountOK`), and a thread that works
  with an instance has one; without these `TypeOK` is not inductive. That what the loops
  index is still there is another matter (`CrashOnlyAfterFailure`).
- `AbandonedForEver`: by `Held`, whoever is inside of the mutex or gave up there
  holds it, so that nobody else unlocks it or writes the image.
- `AcquiredAtOnce`: the refinement of `ImageRegister`. A step that fills a part changes
  `img_buf` and not `Image`, in which the part was written already; only the holder of the
  mutex writes (`Held`), so that a thread that copies has what is there up to its counter
  (`Copied`).
- `NoImageAfterStop`: `Alone` follows a thread that meets no other: the instance's
  descriptor is its own, and after `close_stream()` it streams only if STREAMOFF
  failed.
- `LeftOpenByStopOnly`: `Ledger` says for each thread what it has open at each label
  (`DevicesHeld`, with `OpenAt`) and that any buffer it has mapped can be found
  through the array of its instance, or lies beyond the `N_BUF` that are unmapped
  (`BuffersHeld`); the property looks only at the end of this.
- `CrashOnlyAfterFailure`: the same ledger says that if no set-up failed, each granted
  buffer is mapped when it is unmapped or read (`AllMapped`), and that what is queued
  was granted (`QueuedHeld`), so that a crash takes a driver that grants fewer than
  `N_BUF` or gives a frame that is too long (`DriverToBlame`); in the simulator build
  the labels of the driver are never reached (`Simulated`).
- `FailureIsFinal`: the action property `NoneAfterFailure`. While no two threads meet
  they all work with one instance (`OneInstance`); with `Held`, a thread that
  finishes would hold the mutex that the failed one has kept.

*Sockets*

- `StrictOwnership`, `NoOtherLeak`: `Owned` is one inductive invariant, that every
  open descriptor has exactly one owner and every owner an open descriptor.
- `Implements`: from `Owned` before and after a step and `Handed` (what a step may
  release or lose), the owner of each descriptor changes as `HandleOwner` allows.
- `Connects`, `Fails`: what a call leaves is a fact of the step that made it;
  `Noted` keeps the record of the call in range.
- `Counting`: `InRange` says of each thread that what it counted, together with
  what its last system call returned and is not counted yet, is what the
  kernel moved.
- `Reasons`: `Explained` adds why a thread that has been told to stop was.
- `Spinning`: at the end of the stream `read_n_r()` goes on whatever anybody does.
- `Typing`, once for each of the two modules; that of `sockpp_socket` is
  proved and in no run, since nothing in that module counts or loops.

*Settings*

- `Typing`.
- `FirstIsLost`: `OneConsumed` says that after the first read fewer messages
  wait than were sent, or what waits is the rest of one, which is no JSON or JSON without
  settings, or nothing comes any more.
- `FlagIsRight`: `ModeKnown`, which says how much of the new mode each step of an
  unfailed switch has already built.
- `StuckUntilAp`: only the steps of an access point request set the flag.

*Power monitor*

- `Typing`: whatever length an answer claims, no copy leaves the four bytes of the
  register. That no call reads beyond its buffers is not true: an answer of one byte
  crashes the checksum, which the theorem allows.
- `AnswersAreInOrder`: `Line` says that while whole answers are read, the line holds
  whole answers (`Whole`), and that the first of them, or if the line is dry the first
  that the board owes, is what the waiting call was due (`Due`). The lemmas before it
  are about sequences: an answer put behind whole ones, or taken off their front,
  leaves whole ones.

**Model-checked only.** The liveness properties (fairness and ENABLED are out of
the prover's reach): `MessagesRead`, `ImageDelivered`, `AcquisitionEnds`,
`CallsEnd`, `ClientAccepted`. Every invariant and every action property that a
passing run checks is stated by a theorem, five of them (`LostOnlyByStaleClose`,
and the four facts of one executor) under the premise named there. No module has
RECURSIVE operators, and what the checksums compute is not modelled.

## Findings

The two violating runs. In each, a comment or message of the code is refuted
by the code itself; `PROJECT.json` quotes the lines.

- `handler_dropped`: `operator!` of the shared socket also tests its cached error. The
  packet analysis thread of the first connection has loaded its handle for a read; the
  loop accepts a second connection, swaps and closes the first; `recv()` fails on the
  closed descriptor, and stores its error between the move assignment and the test. The
  second connection, accepted without error, is dropped as a failed `accept()`.
- `det_work_flag`: `is_working` stays set after a failed acquisition.

Observations made while modelling, which have no run of their own. Most
are visible in an action or in the premise of a property.

- A failed read passes the byte count check: -1 is compared as an unsigned number
  (`NotEnoughBytes`).
- With two clients both may starve: the thread that leaves may be the one of the
  current client. `MessagesRead` is therefore claimed of one client.
- When two swaps of the shared socket, or a swap and `close_socket()`, overlap, a handle
  is closed twice. If its number was given out meanwhile, the second `close()` closes
  another connection, the current one among others (`victims`).
- Two accept loops whose swaps overlap may lose a descriptor
  though nothing is closed twice; `LostOnlyByStaleClose` is therefore claimed of
  swaps one at a time (`OneSwap`).
- With two executors two work threads may run together, since the test of `is_working`
  and its setting are two critical sections, and the state object may be deleted under a
  caller. `OneWorkAtATime` and `TransitionsIntact` are claimed of one executor. Even
  with one, two WORK commands are enough for a work thread to lock and write to its
  state object after the second has deleted it (`LeaveWork`).
- The acknowledgement goes to `current_socket` and not to the sender of the message
  (the comment says "back to the client"), and a client that connects during a
  transfer gets the rest of an image that began on another connection.
- A driver that grants fewer buffers than `N_BUF` has entries behind the end of the
  array unmapped; one that grants more leaves the rest mapped for ever; a frame longer
  than the image overwrites the mutex of the instance, and a shorter one leaves the end
  of the last image.
- In the driver build `close_stream()` comes before the dequeue: if every call of
  the driver succeeds, there is no image (`ImageOnlyIfStopFailed`).
- `read_n_r()` never returns at the end of the stream; `shutdown()` forgets the
  descriptor and closes nothing; a failed pair of stream sockets has no error in
  either of them, though the comment at `stream_socket.h:339` promises one (it
  stays in the sockets the handles were taken from, see `stream_pair`).
- The first message of a connection to port 12345 is lost unless it is `cmd_scan_wifi`,
  or is read in two parts: then the second may be taken for JSON without settings, and
  switches the board to access point mode. What the second read leaves unread of the
  stack buffer is parsed as well. A null field, or settings that are no object, end the
  process. When a scan is refused once too often nothing quits the main loop. The test
  for a scan without any Wi-Fi device reads an uninitialised variable
  (`WifiStatus::wifi_device`).
- A second `uart_init()` loses a descriptor, and one that fails at the settings leaves
  the port open and usable.
- `BAT_get_serial_number()` asks for the cycle count (`IdOf`); a request to the
  display has its last data byte overwritten by its checksum; a read of a
  single byte, or without a port, runs the checksum over all of memory.

## Not modelled

- `trigger_event()` of `PRB_IMG`: nobody calls it.
- `test.cc`: all of it is commented out. `get_connection.hpp`: included by
  nothing that is compiled, and without state.
- sockpp's address classes, exceptions and templates (conversions without state),
  its CAN and UNIX sockets, and the branches for Windows.
- In `Settings`: `fromJson()`, `Read_Json_Configuration()` and the activation
  callback, which nobody calls; the setters of fields nobody reads; the replies.
- In `PowerMonitor`: the unpacking of values; `checksum.h`, used by nobody.
- spdlog, and the makefiles under `Debug/`.

## Left to do

A composition of `DET_State` with `PRB_IMG` in place of its single step
`AcquireImage`, which would carry the two instances of the singleton to the clients.
What holds with two executors: how long the flag may be wrong, and which state object a
stale pointer can meet. The unread bytes of an answer that came in parts, which
`AnswersInOrder` leaves out by its premise.
