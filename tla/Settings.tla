------------------------------- MODULE Settings -------------------------------
(***************************************************************************)
(* The configuration port 12345 (main.cpp:99-123) and the network settings *)
(* behind it (Settings.cpp): one thread that serves one connection after   *)
(* another, reads twice from each, switches wlan0 between access point and *)
(* station mode by a sequence of commands, and scans under a GLib loop.    *)
(*                                                                         *)
(* Of a request only its kind is kept.  The other fields of Settings, the  *)
(* addresses and the texts of the replies are left out.                    *)
(***************************************************************************)
EXTENDS Naturals, Sequences

CONSTANTS
    Clients,
    Messages,      \* kinds of message the clients send
    none,          \* no client
    MaxMessages,   \* bound: messages of a connection
    MaxAttempts,   \* a refused scan is repeated so often (10 in the code)
    MaxFiles,      \* descriptors the process may have besides its own
    MaxRestarts    \* bound: restarts of the process

(* "station0" has no SSID or pass phrase, "other" is JSON without settings  *)
(* (a number, say), "malformed" has a field that is null or settings that   *)
(* are no object, "garbage" is no JSON at all, or only the start of some.   *)
ASSUME SettingsAssumption ==
    /\ none \notin Clients
    /\ Messages \subseteq {"cmd_scan_wifi", "station", "station0", "access-point",
                           "other", "malformed", "garbage"}
    /\ MaxMessages \in Nat /\ MaxAttempts \in Nat /\ MaxRestarts \in Nat
    /\ MaxFiles \in Nat \ {0}

VARIABLES
    pc,         \* thread_12345
    current,    \* the client of socket_php
    buffer,     \* the stack buffer of receive_processJson()
    request,    \* what was parsed
    check,      \* Settings::check
    attempts,   \* wifi_status.attempts
    pending,    \* an answer to a scan request is to come
    leaked,     \* sockets that set_IP() left open
    conf,       \* 99-unmanaged-devices.conf
    managed,    \* NetworkManager manages wlan0
    hostapd,    \* hostapd runs
    joined,     \* wlan0 is connected to a network
    backlog,    \* connections not accepted yet
    inbox,      \* messages of the current client that were not read
    sent,       \* number of messages it sent on this connection
    left,       \* it has closed or reset its side
    stale,      \* history: the parser went on behind what this read returned
    failed,     \* history: a step of the last switch failed
    inherited,  \* history: the process started in another mode than station
    restarts    \* bound: restarts so far

threadVars == <<current, buffer, request>>
scanVars   == <<attempts, pending>>
system     == <<conf, managed, hostapd, joined>>
peers      == <<backlog, inbox, sent, left>>
history    == <<stale, failed, inherited>>
vars       == <<pc, threadVars, check, scanVars, leaked, system, peers, history, restarts>>

StationMode == conf # "unmanaged" /\ managed /\ ~hostapd
AccessPoint == conf = "unmanaged" /\ ~managed /\ hostapd

NoConnections ==
    /\ backlog = <<>>
    /\ inbox = <<>> /\ sent = 0 /\ left = FALSE

(* The mode is whatever an earlier run of the program left. *)
Init ==
    /\ pc = "accept" /\ current = none
    /\ buffer = "garbage" /\ request = "garbage"
    /\ check = FALSE
    /\ attempts = 0 /\ pending = FALSE /\ leaked = 0
    /\ \/ conf = "managed" /\ managed = TRUE /\ hostapd = FALSE /\ joined \in BOOLEAN
       \/ conf = "unmanaged" /\ managed = FALSE /\ hostapd = TRUE /\ joined = FALSE
    /\ NoConnections
    /\ stale = FALSE /\ failed = FALSE
    /\ inherited = ~StationMode
    /\ restarts = 0

---------------------------------------------------------------------------
(* Mistakes that the properties must catch. *)

EverySwitches          == TRUE
CheckKept(value)       == UNCHANGED check
NotConsumed(box, k)    == box
NoQuitOnError(answer)  == pc' = IF answer = "done" THEN "close" ELSE "scanning"
RetriesOnceMore        == attempts <= MaxAttempts

---------------------------------------------------------------------------
(* Clients.  What a connection sends before it is accepted is read no       *)
(* earlier than what it sends at once afterwards.                           *)

Alive == pc # "crashed"

Waits(c) == \E i \in 1..Len(backlog) : backlog[i] = c

Connect(c) ==
    /\ Alive /\ c # current /\ ~Waits(c)
    /\ backlog' = Append(backlog, c)
    /\ UNCHANGED <<pc, threadVars, check, scanVars, leaked, system, inbox, sent, left, history,
                   restarts>>

Send ==
    /\ Alive /\ current # none /\ ~left /\ sent < MaxMessages
    /\ \E m \in Messages : inbox' = Append(inbox, m)
    /\ sent' = sent + 1
    /\ UNCHANGED <<pc, threadVars, check, scanVars, leaked, system, backlog, left, history,
                   restarts>>

Leave ==
    /\ Alive /\ current # none /\ ~left
    /\ left' = TRUE
    /\ UNCHANGED <<pc, threadVars, check, scanVars, leaked, system, backlog, inbox, sent, history,
                   restarts>>

ClientNext == Send \/ Leave \/ \E c \in Clients : Connect(c)

---------------------------------------------------------------------------
(* main(): accept, read, compare *)

Accept ==
    /\ pc = "accept" /\ backlog # <<>> /\ leaked < MaxFiles
    /\ current' = Head(backlog)
    /\ backlog' = Tail(backlog)
    /\ pc' = "read"
    /\ UNCHANGED <<buffer, request, check, scanVars, leaked, system, inbox, sent, left, history,
                   restarts>>

(* A failed accept ends the thread: a connection that was aborted, or no    *)
(* descriptor for it.                                                       *)
AcceptFails ==
    /\ pc = "accept" /\ backlog # <<>>
    /\ pc' = IF leaked = MaxFiles THEN "exhausted" ELSE "aborted"
    /\ backlog' = Tail(backlog)
    /\ UNCHANGED <<threadVars, check, scanVars, leaked, system, inbox, sent, left, history,
                   restarts>>

(* What read() may return: one or more of the messages that have arrived,   *)
(* the start of one, the end of the stream, or an error.  Of several        *)
(* messages a JSON parser sees the first.  The rest of a message that is    *)
(* JSON may begin with a value: a quoted key, a number, an inner object.    *)
(* (A message begins with its value and holds no second request inside, so  *)
(* that its rest is never a request with settings.)                         *)
Consumed(box, k) == SubSeq(box, k + 1, Len(box))
Rests(m) == IF m \in {"cmd_scan_wifi", "garbage"} THEN {"garbage"} ELSE {"garbage", "other"}

WholeReads ==
    {[outcome |-> "whole", text |-> Head(inbox), alone |-> k = 1, rest |-> Consumed(inbox, k)] :
        k \in 1..Len(inbox)}
PartReads ==
    {[outcome |-> "part", text |-> Head(inbox), alone |-> TRUE, rest |-> <<m>> \o Tail(inbox)] :
        m \in IF inbox = <<>> THEN {} ELSE Rests(Head(inbox))}
LastReads ==
    {[outcome |-> o, text |-> "garbage", alone |-> TRUE, rest |-> <<>>] :
        o \in {e \in {"end", "error"} : left /\ (e = "error" \/ inbox = <<>>)}}
ReadResults == WholeReads \cup PartReads \cup LastReads

(* The first message only tells a scan command from anything else, which is *)
(* lost, as is any failure.                                                 *)
FirstRead ==
    /\ pc = "read"
    /\ \E r \in ReadResults :
         /\ inbox' = r.rest
         /\ pc' = IF r.outcome = "whole" /\ r.text = "cmd_scan_wifi" /\ r.alone
                  THEN "scan" ELSE "receive"
    /\ UNCHANGED <<current, buffer, request, check, scanVars, leaked, system, backlog, sent,
                   left, history, restarts>>

---------------------------------------------------------------------------
(* receive_processJson() *)

(* After anything but a whole JSON value the parser goes on into what the   *)
(* buffer on the stack holds: an earlier request, if nothing has used the   *)
(* place since, the missing end of a message, or anything.  An error is the *)
(* only outcome that is tested.                                             *)
Parses(text) == text \notin {"garbage", "cmd_scan_wifi"}
Complete(r) == r.outcome = "whole" /\ Parses(r.text)
Seen(r) == IF Complete(r) THEN {r.text} ELSE {r.text, buffer, "garbage"}

receive ==
    /\ pc = "receive"
    /\ \E r \in ReadResults : \E text \in Seen(r) :
         /\ inbox' = r.rest
         /\ buffer' = text
         /\ request' = text
         /\ stale' = ~Complete(r)
         /\ pc' = IF r.outcome # "error" /\ Parses(text) THEN "confirm" ELSE "close"
    /\ UNCHANGED <<current, check, scanVars, leaked, system, backlog, sent, left, failed,
                   inherited, restarts>>

(* The JSON is saved, the fields are set and the client gets its answer     *)
(* before anything is done; any mode but "station" is access point mode.    *)
(* A field that is null ends the process (a string made from NULL), as do   *)
(* settings that are no object.                                             *)
ForStation == request \in {"station", "station0"}
Switches == check
processJson ==
    /\ pc = "confirm"
    /\ \/ request = "malformed" /\ pc' = "crashed"
       \/ request # "malformed" /\ ~ForStation /\ pc' = "ap_conf"
       \/ ForStation /\ pc' = IF Switches THEN "stop_hostapd" ELSE "add_wifi"
    /\ UNCHANGED <<threadVars, check, scanVars, leaked, system, peers, history, restarts>>

---------------------------------------------------------------------------
(* switchToStationMode(), switchToAPMode().  A command that fails is not    *)
(* noticed, nor is a write; a file that cannot be opened ends the switch.   *)

Step(label, next) ==
    /\ pc = label /\ pc' = next
    /\ UNCHANGED <<threadVars, check, scanVars, leaked, peers, stale, restarts>>

OpenConf(label, next, next_on_error) ==
    \/ /\ Step(label, next)
       /\ conf' = "empty"
       /\ failed' = (failed /\ label # "ap_conf")
       /\ UNCHANGED <<managed, hostapd, joined, inherited>>
    \/ /\ Step(label, next_on_error)
       /\ failed' = TRUE
       /\ UNCHANGED <<system, inherited>>

WriteConf(label, text, next) ==
    /\ Step(label, next)
    /\ \/ conf' = text /\ UNCHANGED failed
       \/ failed' = TRUE /\ UNCHANGED conf
    /\ UNCHANGED <<managed, hostapd, joined, inherited>>

(* NetworkManager, once it manages wlan0, may connect it by itself. *)
Reload(label, next) ==
    /\ Step(label, next)
    /\ UNCHANGED <<conf, hostapd, inherited>>
    /\ \/ /\ managed' = (conf # "unmanaged")
          /\ joined' \in IF conf = "unmanaged" THEN {FALSE} ELSE BOOLEAN
          /\ UNCHANGED failed
       \/ failed' = TRUE /\ UNCHANGED <<managed, joined>>

(* systemctl stop or restart; the first and the last step of a switch.      *)
Hostapd(label, up, next) ==
    /\ Step(label, next)
    /\ UNCHANGED <<conf, managed, joined, inherited>>
    /\ \/ hostapd' = up /\ failed' = (failed /\ up)
       \/ hostapd' = (hostapd /\ ~up) /\ failed' = TRUE

(* set_check() comes whatever became of the switch, which now is the last   *)
(* that the mode depends on.                                                *)
Store(value) == check' = value
set_check(label, value, next) ==
    /\ pc = label /\ pc' = next
    /\ Store(value)
    /\ inherited' = FALSE
    /\ UNCHANGED <<threadVars, scanVars, leaked, system, peers, stale, failed, restarts>>

switchToStationMode ==
    \/ Hostapd("stop_hostapd", FALSE, "station_conf")
    \/ OpenConf("station_conf", "station_write", "station_check")
    \/ WriteConf("station_write", "managed", "station_reload")
    \/ Reload("station_reload", "station_check")
    \/ set_check("station_check", FALSE, "add_wifi")

switchToAPMode ==
    \/ OpenConf("ap_conf", "ap_write", "ap_check")
    \/ WriteConf("ap_write", "unmanaged", "ap_reload")
    \/ Reload("ap_reload", "ap_restart")
    \/ Hostapd("ap_restart", TRUE, "ap_check")
    \/ set_check("ap_check", TRUE, "close")

---------------------------------------------------------------------------
(* The rest of a station request, and the scan *)

(* nmcli connects only an interface that NetworkManager manages. *)
add_wifi ==
    /\ pc = "add_wifi" /\ pc' = "set_IP"
    /\ joined' \in IF request = "station" /\ managed THEN {joined, TRUE} ELSE {joined}
    /\ UNCHANGED <<threadVars, check, scanVars, leaked, conf, managed, hostapd, peers, history,
                   restarts>>

(* set_IP() never closes its socket, unless there was none to be had. *)
set_IP ==
    /\ pc = "set_IP" /\ pc' = "scan"
    /\ leaked' = IF leaked < MaxFiles THEN leaked + 1 ELSE leaked
    /\ UNCHANGED <<threadVars, check, scanVars, system, peers, history, restarts>>

(* scan_info_wifi() does nothing without NetworkManager.  Without a Wi-Fi    *)
(* device the pointer to it was never set: by luck it is NULL (nothing is    *)
(* done) or that of an earlier scan; else GLib refuses it, and the loop runs *)
(* without a request, or the process ends.                                   *)
StartScan ==
    /\ pc = "scan"
    /\ attempts' = 0
    /\ \/ pc' = "scanning" /\ pending' = TRUE
       \/ pc' \in {"close", "no_request", "crashed"} /\ UNCHANGED pending
    /\ UNCHANGED <<threadVars, check, leaked, system, peers, history, restarts>>

Retries == attempts < MaxAttempts

(* on_wifi_scan_finished().  After the last attempt nothing quits the loop. *)
ScanRefused ==
    /\ pc = "scanning" /\ pending
    /\ IF Retries
       THEN attempts' = attempts + 1 /\ UNCHANGED pending
       ELSE pending' = FALSE /\ UNCHANGED attempts
    /\ UNCHANGED <<pc, threadVars, check, leaked, system, peers, history, restarts>>

Quit(answer) == pc' = "close"
ScanFinished ==
    /\ pc = "scanning" /\ pending
    /\ \E answer \in {"done", "error"} : Quit(answer)
    /\ pending' = FALSE
    /\ UNCHANGED <<threadVars, check, attempts, leaked, system, peers, history, restarts>>

(* The socket of the connection is destroyed at the end of each pass, as    *)
(* are all variables but the stack buffer.                                  *)
CloseConnection ==
    /\ pc = "close" /\ pc' = "accept"
    /\ current' = none
    /\ request' = "garbage" /\ stale' = FALSE /\ attempts' = 0
    /\ inbox' = <<>> /\ sent' = 0 /\ left' = FALSE
    /\ UNCHANGED <<buffer, check, pending, leaked, system, backlog, failed, inherited, restarts>>

thread_12345 ==
    \/ Accept \/ AcceptFails
    \/ FirstRead
    \/ receive \/ processJson
    \/ switchToStationMode \/ switchToAPMode
    \/ add_wifi \/ set_IP
    \/ StartScan \/ ScanRefused \/ ScanFinished
    \/ CloseConnection

(* The process is stopped or crashes, and is started again.  The file, the  *)
(* services and NetworkManager keep their state; the saved JSON is not read *)
(* (the call is commented out).                                             *)
Restart ==
    /\ restarts < MaxRestarts
    /\ restarts' = restarts + 1
    /\ pc' = "accept" /\ current' = none
    /\ buffer' = "garbage" /\ request' = "garbage"
    /\ check' = FALSE
    /\ attempts' = 0 /\ pending' = FALSE /\ leaked' = 0
    /\ backlog' = <<>>
    /\ inbox' = <<>> /\ sent' = 0 /\ left' = FALSE
    /\ stale' = FALSE /\ failed' = FALSE
    /\ inherited' = ~StationMode
    /\ UNCHANGED system

Next == ClientNext \/ thread_12345 \/ Restart

Spec == Init /\ [][Next]_vars

(* The thread is scheduled, and NetworkManager answers a scan request: its   *)
(* calls over D-Bus end with an error at the latest.                         *)
FairSpec == Spec /\ WF_vars(thread_12345)

---------------------------------------------------------------------------
(* Properties *)

Texts == Messages \cup {"garbage", "other"}
Labels == {"accept", "exhausted", "aborted", "read", "receive", "confirm", "stop_hostapd",
           "station_conf", "station_write", "station_reload", "station_check", "ap_conf",
           "ap_write", "ap_reload", "ap_restart", "ap_check", "add_wifi", "set_IP", "scan",
           "scanning", "no_request", "close", "crashed"}

(* Every variable stays in its range; scans and descriptors are bounded. *)
TypeOK ==
    /\ pc \in Labels
    /\ current \in Clients \cup {none}
    /\ current = none <=> pc \in {"accept", "exhausted", "aborted"}
    /\ buffer \in Texts /\ request \in Texts
    /\ check \in BOOLEAN
    /\ attempts \in 0..MaxAttempts /\ pending \in BOOLEAN
    /\ leaked \in 0..MaxFiles
    /\ conf \in {"managed", "unmanaged", "empty"}
    /\ managed \in BOOLEAN /\ hostapd \in BOOLEAN /\ joined \in BOOLEAN
    /\ backlog \in Seq(Clients)
    /\ inbox \in Seq(Texts)
    /\ sent \in 0..MaxMessages /\ left \in BOOLEAN
    /\ stale \in BOOLEAN /\ failed \in BOOLEAN /\ inherited \in BOOLEAN
    /\ restarts \in 0..MaxRestarts

(* The flag is all that the program knows of the mode of wlan0.  Between     *)
(* requests it tells the mode, unless a step of the last switch failed or    *)
(* the process started in another mode than station and has not switched.    *)
FlagKnowsMode ==
    (pc = "accept" /\ ~failed /\ ~inherited) =>
        IF check THEN AccessPoint /\ ~joined ELSE StationMode

(* When the flag says station while the file says access point (after a      *)
(* restart, or a switch whose file could not be opened), no station request  *)
(* helps any more: only a request for access point mode touches the file.    *)
Stuck == ~check /\ conf = "unmanaged"
OnlyApUnsticks == [][Stuck /\ ~Stuck' => request \notin {"station", "station0"}]_vars

(* The first message of a connection is consumed before the JSON is read,    *)
(* so a request for station or access point mode that takes effect was sent  *)
(* after another message.  At most the rest of a first message that was read *)
(* in parts takes effect, as JSON without settings: it switches to access    *)
(* point mode.  (The parser may also go on into an earlier request, or run   *)
(* over the end of a message that is not there: stale.)                      *)
Applying == pc \notin {"accept", "exhausted", "aborted", "read", "receive", "scan", "scanning",
                      "no_request", "close", "crashed"}
FirstMessageLost == Applying /\ ~stale /\ sent < 2 => request = "other"

(* A connection is accepted in its turn, if no client before it stays and    *)
(* sends nothing for ever, no scan is refused once too often or has no       *)
(* device, the process does not crash, no accept meets an aborted            *)
(* connection, and descriptors are left.                                     *)
Silent    == pc \in {"read", "receive"} /\ inbox = <<>> /\ ~left
Exhausted == pc = "scanning" /\ ~pending /\ attempts = MaxAttempts
ClientAccepted ==
    ([]<>~Silent /\ []~Exhausted /\ [](pc \notin {"aborted", "no_request", "crashed"})
        /\ [](leaked < MaxFiles)) =>
            \A c \in Clients : Waits(c) ~> ~Waits(c)

===============================================================================
