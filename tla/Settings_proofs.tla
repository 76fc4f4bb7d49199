---------------------------- MODULE Settings_proofs ----------------------------
(***************************************************************************)
(* What the configuration port does for any number of clients, messages,   *)
(* descriptors and restarts: which messages count, what the mode flag      *)
(* knows of wlan0, and when it can no longer be put right.                 *)
(***************************************************************************)
EXTENDS Settings, SequenceTheorems, TLAPS

Idle == {"accept", "exhausted", "aborted"}

ToStation == {"stop_hostapd", "station_conf", "station_write", "station_reload", "station_check"}
ToAP      == {"ap_conf", "ap_write", "ap_reload", "ap_restart", "ap_check"}
Joining   == {"add_wifi", "set_IP"}

(***************************************************************************)
(* Typing.  Both lemmas are about what a read may return.                  *)
(***************************************************************************)

LEMMA AReadLeavesMessages ==
  ASSUME TypeOK, NEW r \in ReadResults
  PROVE  /\ r.rest \in Seq(Texts)
         /\ r.text \in Texts
         /\ r.outcome = "whole" => inbox # <<>> /\ r.text = Head(inbox)
         /\ r.outcome \in {"whole", "part", "end", "error"}
         /\ Len(r.rest) <= Len(inbox)
<1>. inbox \in Seq(Texts) /\ Len(inbox) \in Nat
  BY DEF TypeOK, Texts
<1>1. CASE r \in WholeReads
  <2>1. PICK k \in 1..Len(inbox) :
             r = [outcome |-> "whole", text |-> Head(inbox), alone |-> k = 1,
                  rest |-> Consumed(inbox, k)]
    BY <1>1 DEF WholeReads
  <2>2. inbox # <<>> /\ Head(inbox) \in Texts
    BY <2>1
  <2>3. Consumed(inbox, k) \in Seq(Texts) /\ Len(Consumed(inbox, k)) <= Len(inbox)
    BY <2>1 DEF Consumed
  <2>. QED
    BY <2>1, <2>2, <2>3
<1>2. CASE r \in PartReads
  <2>1. PICK m \in Texts :
          inbox # <<>> /\ r = [outcome |-> "part", text |-> Head(inbox), alone |-> TRUE,
                              rest |-> <<m>> \o Tail(inbox)]
    BY <1>2 DEF PartReads, Rests, Texts
  <2>2. Tail(inbox) \in Seq(Texts) /\ Len(Tail(inbox)) = Len(inbox) - 1 /\ Head(inbox) \in Texts
    BY <2>1
  <2>3. <<m>> \in Seq(Texts) /\ Len(<<m>>) = 1
    OBVIOUS
  <2>4. <<m>> \o Tail(inbox) \in Seq(Texts) /\ Len(<<m>> \o Tail(inbox)) = Len(inbox)
    BY <2>2, <2>3
  <2>. QED
    BY <2>1, <2>2, <2>4
<1>3. CASE r \in LastReads
  <2>1. PICK o \in {"end", "error"} :
          r = [outcome |-> o, text |-> "garbage", alone |-> TRUE, rest |-> <<>>]
    BY <1>3 DEF LastReads
  <2>2. r.rest = <<>> /\ r.text = "garbage" /\ r.outcome = o
    BY <2>1
  <2>3. <<>> \in Seq(Texts) /\ Len(<<>>) = 0 /\ "garbage" \in Texts
    BY DEF Texts
  <2>. QED
    BY <2>2, <2>3
<1>. QED
  BY <1>1, <1>2, <1>3 DEF ReadResults

LEMMA ClientTyping ==
  ASSUME TypeOK, ClientNext
  PROVE  TypeOK'
<1>. USE SettingsAssumption
<1>1. CASE Send
  <2>1. \A m \in Messages : Append(inbox, m) \in Seq(Texts)
    BY DEF TypeOK, Texts
  <2>. QED
    BY <1>1, <2>1 DEF Send, TypeOK, system, scanVars, threadVars, history
<1>2. CASE Leave
  BY <1>2 DEF Leave, TypeOK, system, scanVars, threadVars, history
<1>3. CASE \E c \in Clients : Connect(c)
  <2>1. \A c \in Clients : Append(backlog, c) \in Seq(Clients)
    BY DEF TypeOK
  <2>. QED
    BY <1>3, <2>1 DEF Connect, TypeOK, system, scanVars, threadVars, history
<1>. QED
  BY <1>1, <1>2, <1>3 DEF ClientNext

LEMMA SwitchTyping ==
  ASSUME TypeOK, switchToStationMode \/ switchToAPMode
  PROVE  TypeOK'
<1>1. ASSUME NEW label \in Labels \ Idle, NEW next \in Labels \ Idle, Step(label, next),
             conf' \in {"managed", "unmanaged", "empty"}, managed' \in BOOLEAN,
             hostapd' \in BOOLEAN, joined' \in BOOLEAN, failed' \in BOOLEAN,
             inherited' \in BOOLEAN
      PROVE  TypeOK'
  BY <1>1 DEF Step, TypeOK, threadVars, scanVars, peers, Idle
<1>2. ASSUME NEW label \in Labels \ Idle, NEW value \in BOOLEAN, NEW next \in Labels \ Idle,
             set_check(label, value, next)
      PROVE  TypeOK'
  BY <1>2 DEF set_check, Store, TypeOK, threadVars, scanVars, system, peers, Idle
<1>3. ASSUME NEW label \in Labels \ Idle, NEW up \in BOOLEAN, NEW next \in Labels \ Idle,
             Hostapd(label, up, next)
      PROVE  TypeOK'
  BY <1>1, <1>3 DEF Hostapd, TypeOK
<1>4. ASSUME NEW label \in Labels \ Idle, NEW next \in Labels \ Idle, Reload(label, next)
      PROVE  TypeOK'
  <2>1. joined' \in BOOLEAN /\ managed' \in BOOLEAN /\ failed' \in BOOLEAN
    BY <1>4 DEF Reload, TypeOK
  <2>. QED
    BY <1>1, <1>4, <2>1 DEF Reload, TypeOK
<1>5. ASSUME NEW label \in Labels \ Idle, NEW n \in Labels \ Idle, NEW e \in Labels \ Idle,
             OpenConf(label, n, e)
      PROVE  TypeOK'
  BY <1>1, <1>5 DEF OpenConf, TypeOK, system
<1>6. ASSUME NEW label \in Labels \ Idle, NEW text \in {"managed", "unmanaged"},
             NEW next \in Labels \ Idle, WriteConf(label, text, next)
      PROVE  TypeOK'
  BY <1>1, <1>6 DEF WriteConf, TypeOK
<1>. ToStation \cup ToAP \cup {"add_wifi", "close"} \subseteq Labels \ Idle
  BY DEF ToStation, ToAP, Labels, Idle
<1>7. CASE switchToStationMode
  BY <1>2, <1>3, <1>4, <1>5, <1>6, <1>7 DEF switchToStationMode, ToStation
<1>8. CASE switchToAPMode
  BY <1>2, <1>3, <1>4, <1>5, <1>6, <1>8 DEF switchToAPMode, ToAP
<1>. QED
  BY <1>7, <1>8

LEMMA ThreadTyping ==
  ASSUME TypeOK, thread_12345
  PROVE  TypeOK'
<1>. 0 \in 0..MaxAttempts /\ 0 \in 0..MaxMessages /\ MaxFiles \in Nat
     /\ <<>> \in Seq(Texts) /\ "garbage" \in Texts
  BY SettingsAssumption DEF Texts
<1>1. CASE Accept \/ AcceptFails
  <2>1. ASSUME backlog # <<>>
        PROVE  Head(backlog) \in Clients /\ Tail(backlog) \in Seq(Clients)
    BY <2>1 DEF TypeOK
  <2>2. /\ current' \in Clients \cup {none} /\ backlog' \in Seq(Clients)
        /\ pc' \in {"read", "exhausted", "aborted"}
        /\ current' = none <=> pc' # "read"
    BY <1>1, <2>1, SettingsAssumption DEF Accept, AcceptFails, threadVars, TypeOK
  <2>. QED
    BY <1>1, <2>2 DEF Accept, AcceptFails, TypeOK, Labels, threadVars, scanVars, system, history
<1>2. CASE FirstRead
  <2>1. PICK r \in ReadResults :
          /\ inbox' = r.rest
          /\ pc' = IF r.outcome = "whole" /\ r.text = "cmd_scan_wifi" /\ r.alone
                   THEN "scan" ELSE "receive"
    BY <1>2 DEF FirstRead
  <2>2. inbox' \in Seq(Texts) /\ pc' \in {"scan", "receive"}
    BY <2>1, AReadLeavesMessages DEF Texts
  <2>. QED
    BY <1>2, <2>2 DEF FirstRead, TypeOK, Labels, threadVars, scanVars, system, history
<1>3. CASE receive
  <2>1. PICK r \in ReadResults : \E text \in Seen(r) :
          /\ inbox' = r.rest /\ buffer' = text /\ request' = text
          /\ stale' = ~Complete(r)
          /\ pc' = IF r.outcome # "error" /\ Parses(text) THEN "confirm" ELSE "close"
    BY <1>3 DEF receive
  <2>2. inbox' \in Seq(Texts) /\ pc' \in {"confirm", "close"}
    BY <2>1, AReadLeavesMessages DEF Texts
  <2>3. buffer' \in Texts /\ request' = buffer' /\ stale' \in BOOLEAN
    BY <2>1, AReadLeavesMessages DEF Texts, Seen, Complete, TypeOK
  <2>. QED
    BY <1>3, <2>2, <2>3 DEF receive, TypeOK, Labels, scanVars, system
<1>4. CASE processJson
  BY <1>4 DEF processJson, TypeOK, Labels, threadVars, scanVars, system, peers, history
<1>5. CASE add_wifi
  <2>1. joined' \in BOOLEAN
    BY <1>5 DEF add_wifi, TypeOK
  <2>. QED
    BY <1>5, <2>1 DEF add_wifi, TypeOK, Labels, threadVars, scanVars, peers, history
<1>6. CASE set_IP
  BY <1>6 DEF set_IP, TypeOK, Labels, threadVars, scanVars, system, peers, history
<1>7. CASE StartScan
  <2>1. pc' \in {"scanning", "no_request", "close", "crashed"} /\ pending' \in BOOLEAN
    BY <1>7 DEF StartScan, TypeOK
  <2>. QED
    BY <1>7, <2>1 DEF StartScan, TypeOK, Labels, threadVars, system, peers, history
<1>8. CASE ScanRefused
  <2>1. attempts' \in 0..MaxAttempts /\ pending' \in BOOLEAN
    <3>1. attempts \in 0..MaxAttempts /\ MaxAttempts \in Nat
      BY SettingsAssumption DEF TypeOK
    <3>2. CASE Retries
      BY <1>8, <3>1, <3>2 DEF ScanRefused, Retries
    <3>3. CASE ~Retries
      BY <1>8, <3>1, <3>3 DEF ScanRefused
    <3>. QED
      BY <3>2, <3>3
  <2>2. UNCHANGED <<pc, threadVars, check, leaked, system, peers, history, restarts>>
    BY <1>8 DEF ScanRefused
  <2>. QED
    BY <2>1, <2>2 DEF TypeOK, threadVars, system, peers, history
<1>9. CASE ScanFinished
  <2>1. pc' \in {"close"} /\ pending' \in BOOLEAN
    BY <1>9 DEF ScanFinished, Quit
  <2>2. /\ pc = "scanning"
        /\ UNCHANGED <<threadVars, check, attempts, leaked, system, peers, history, restarts>>
    BY <1>9 DEF ScanFinished
  <2>. QED
    BY <2>1, <2>2 DEF TypeOK, Labels, threadVars, system, peers, history
<1>10. CASE CloseConnection
  BY <1>10 DEF CloseConnection, TypeOK, Labels, system
<1>. QED
  BY <1>1, <1>2, <1>3, <1>4, <1>5, <1>6, <1>7, <1>8, <1>9, <1>10, SwitchTyping DEF thread_12345

(* Every variable stays in its range: no connection is served that is not    *)
(* there, and attempts, descriptors and messages stay within their bounds.   *)
THEOREM Typing == Spec => []TypeOK
<1>. 0 \in 0..MaxAttempts /\ 0 \in 0..MaxMessages /\ 0 \in 0..MaxFiles /\ 0 \in 0..MaxRestarts
     /\ <<>> \in Seq(Texts) /\ <<>> \in Seq(Clients) /\ "garbage" \in Texts
  BY SettingsAssumption DEF Texts
<1>1. Init => TypeOK
  BY DEF Init, NoConnections, StationMode, TypeOK, Labels
<1>2. TypeOK /\ [Next]_vars => TypeOK'
  <2>1. ASSUME TypeOK, Restart PROVE TypeOK'
    <3>1. restarts' \in 0..MaxRestarts /\ inherited' \in BOOLEAN
      BY <2>1, SettingsAssumption DEF Restart, StationMode, TypeOK
    <3>. QED
      BY <2>1, <3>1 DEF Restart, TypeOK, Labels, system
  <2>2. ASSUME TypeOK, UNCHANGED vars PROVE TypeOK'
    BY <2>2 DEF vars, TypeOK, threadVars, scanVars, system, peers, history
  <2>. QED
    BY <2>1, <2>2, ClientTyping, ThreadTyping DEF Next
<1>. QED
  BY <1>1, <1>2, PTL DEF Spec

(***************************************************************************)
(* The first message.  When receive_processJson() reads, one message less  *)
(* is waiting than was sent, or what waits is the rest of a message, or    *)
(* nothing will come any more.                                             *)
(***************************************************************************)

OneConsumed ==
    /\ Len(inbox) <= sent
    /\ pc = "receive" => \/ Len(inbox) < sent
                         \/ inbox # <<>> /\ Head(inbox) \in {"garbage", "other"}
                         \/ left /\ inbox = <<>>
    /\ FirstMessageLost

LEMMA WhatTheFirstReadLeaves ==
  ASSUME TypeOK, NEW r \in ReadResults
  PROVE  \/ Len(r.rest) < Len(inbox)
         \/ r.rest # <<>> /\ Head(r.rest) \in {"garbage", "other"}
         \/ left /\ r.rest = <<>>
<1>. inbox \in Seq(Texts) /\ Len(inbox) \in Nat
  BY DEF TypeOK, Texts
<1>1. CASE r \in WholeReads
  <2>1. PICK k \in 1..Len(inbox) : r.rest = Consumed(inbox, k)
    BY <1>1 DEF WholeReads
  <2>. QED
    BY <2>1 DEF Consumed
<1>2. CASE r \in PartReads
  <2>0. inbox # <<>>
    BY <1>2 DEF PartReads
  <2>1. PICK m \in {"garbage", "other"} : r.rest = <<m>> \o Tail(inbox)
    <3>1. PICK m \in Rests(Head(inbox)) :
            r = [outcome |-> "part", text |-> Head(inbox), alone |-> TRUE,
                 rest |-> <<m>> \o Tail(inbox)]
      BY <1>2, <2>0 DEF PartReads
    <3>. QED
      BY <3>1 DEF Rests
  <2>2. Tail(inbox) \in Seq(Texts) /\ <<m>> \in Seq(Texts) /\ Len(<<m>>) = 1
    BY <2>0 DEF Texts
  <2>3. Len(r.rest) = 1 + Len(Tail(inbox)) /\ r.rest[1] = m /\ r.rest \in Seq(Texts)
    BY <2>1, <2>2
  <2>. QED
    BY <2>2, <2>3
<1>3. CASE r \in LastReads
  BY <1>3 DEF LastReads
<1>. QED
  BY <1>1, <1>2, <1>3 DEF ReadResults

LEMMA OneConsumedNext ==
  ASSUME TypeOK, OneConsumed, [Next]_vars
  PROVE  OneConsumed'
<1>. /\ inbox \in Seq(Texts) /\ Len(inbox) \in Nat /\ sent \in Nat
     /\ Len(<<>>) = 0
  BY DEF TypeOK, Texts
<1>1. ASSUME Send PROVE OneConsumed'
  <2>1. PICK m \in Messages : inbox' = Append(inbox, m)
    BY <1>1 DEF Send
  <2>2. Len(inbox') = Len(inbox) + 1 /\ (inbox # <<>> => Head(inbox') = Head(inbox))
        /\ inbox' # <<>>
    BY <2>1 DEF Texts
  <2>. QED
    BY <1>1, <2>2 DEF Send, OneConsumed, FirstMessageLost, Applying, threadVars, history
<1>2. ASSUME Leave \/ (\E c \in Clients : Connect(c)) \/ (UNCHANGED vars) PROVE OneConsumed'
  BY <1>2 DEF Leave, Connect, vars, threadVars, peers, history, OneConsumed, FirstMessageLost,
     Applying
<1>3. ASSUME FirstRead PROVE OneConsumed'
  <2>1. PICK r \in ReadResults :
          /\ inbox' = r.rest
          /\ pc' = IF r.outcome = "whole" /\ r.text = "cmd_scan_wifi" /\ r.alone
                   THEN "scan" ELSE "receive"
    BY <1>3 DEF FirstRead
  <2>2. Len(inbox') <= Len(inbox) /\ Len(inbox') \in Nat
    BY <2>1, AReadLeavesMessages
  <2>3. \/ Len(inbox') < Len(inbox)
        \/ inbox' # <<>> /\ Head(inbox') \in {"garbage", "other"}
        \/ left /\ inbox' = <<>>
    BY <2>1, WhatTheFirstReadLeaves
  <2>. QED
    BY <1>3, <2>1, <2>2, <2>3 DEF FirstRead, OneConsumed, FirstMessageLost, Applying
<1>4. ASSUME receive PROVE OneConsumed'
  <2>1. PICK r \in ReadResults : \E text \in Seen(r) :
          /\ inbox' = r.rest
          /\ request' = text
          /\ stale' = ~Complete(r)
          /\ pc' = IF r.outcome # "error" /\ Parses(text) THEN "confirm" ELSE "close"
    BY <1>4 DEF receive
  <2>2. Len(inbox') <= Len(inbox) /\ Len(inbox') \in Nat
    BY <2>1, AReadLeavesMessages
  <2>3. ASSUME pc' = "confirm", ~stale' PROVE sent >= 2 \/ request' = "other"
    <3>1. inbox # <<>> /\ Parses(Head(inbox)) /\ request' = Head(inbox)
      BY <2>1, <2>3, AReadLeavesMessages DEF Seen, Complete
    <3>2. Len(inbox) >= 1 /\ Head(inbox) # "garbage"
      BY <3>1 DEF Parses
    <3>. QED
      BY <1>4, <3>1, <3>2 DEF receive, OneConsumed
  <2>. QED
    BY <1>4, <2>1, <2>2, <2>3 DEF receive, OneConsumed, FirstMessageLost, Applying
<1>5. ASSUME processJson \/ switchToStationMode \/ switchToAPMode \/ add_wifi \/ set_IP
      PROVE  OneConsumed'
  <2>1. UNCHANGED <<inbox, sent, left, request, stale>> /\ Applying /\ pc' # "receive"
    BY <1>5 DEF threadVars, processJson, switchToStationMode, switchToAPMode, add_wifi, set_IP, Step,
       Hostapd, OpenConf, WriteConf, Reload, set_check, peers, history, Applying
  <2>. QED
    BY <2>1 DEF OneConsumed, FirstMessageLost
<1>6. ASSUME Accept \/ AcceptFails \/ StartScan \/ ScanRefused \/ ScanFinished \/ CloseConnection
             \/ Restart
      PROVE  OneConsumed'
  <2>1. /\ ~Applying' /\ pc' # "receive"
        /\ \/ UNCHANGED <<inbox, sent>>
           \/ inbox' = <<>> /\ sent' = 0
    BY <1>6 DEF Accept, AcceptFails, StartScan, ScanRefused, ScanFinished, Quit, CloseConnection,
       Restart, peers, Applying
  <2>. QED
    BY <2>1 DEF OneConsumed, FirstMessageLost
<1>. QED
  BY <1>1, <1>2, <1>3, <1>4, <1>5, <1>6 DEF Next, ClientNext, thread_12345

(* A request that the parser found whole in what this connection sent, and   *)
(* that takes effect, was sent after another message, unless it is JSON      *)
(* without settings, which the rest of a split first message may be: the     *)
(* first message never does what it asks for.                                *)
THEOREM FirstIsLost == Spec => []FirstMessageLost
<1>1. Init => OneConsumed
  BY DEF Init, NoConnections, OneConsumed, FirstMessageLost, Applying
<1>2. OneConsumed => FirstMessageLost
  BY DEF OneConsumed
<1>. QED
  BY <1>1, <1>2, OneConsumedNext, Typing, PTL DEF Spec

(***************************************************************************)
(* The mode of wlan0.  A switch that has not failed so far has built up a  *)
(* part of the new mode; outside of a switch the flag tells the mode.      *)
(***************************************************************************)

FlagTells == IF check THEN AccessPoint /\ ~joined ELSE StationMode

RightRequest ==
    /\ pc \in ToStation => check /\ request \in {"station", "station0"}
    /\ pc \in ToAP => request \notin {"station", "station0"}
    /\ pc \in Joining => ~check

Progress ==
    /\ pc \in {"station_conf", "station_write", "station_reload"} => ~hostapd
    /\ pc = "station_reload" => conf = "managed"
    /\ pc = "station_check" => StationMode
    /\ pc \in {"ap_reload", "ap_restart"} => conf = "unmanaged"
    /\ pc = "ap_restart" => ~managed /\ ~joined
    /\ pc = "ap_check" => AccessPoint /\ ~joined
    /\ pc \notin ToStation \cup ToAP /\ ~inherited => FlagTells

ModeKnown == RightRequest /\ (~failed => Progress)

LEMMA SwitchKnows ==
  ASSUME TypeOK, ModeKnown, switchToStationMode \/ switchToAPMode
  PROVE  ModeKnown'
<1>. USE DEF ModeKnown, RightRequest, Progress, FlagTells, StationMode, AccessPoint,
             ToStation, ToAP, Joining, Step
<1>. {failed, managed, hostapd, joined, check} \subseteq BOOLEAN
  BY DEF TypeOK
<1>1. CASE Hostapd("stop_hostapd", FALSE, "station_conf")
  BY <1>1 DEF Hostapd, threadVars
<1>2. CASE OpenConf("station_conf", "station_write", "station_check")
  BY <1>2 DEF OpenConf, threadVars, system
<1>3. CASE WriteConf("station_write", "managed", "station_reload")
  BY <1>3 DEF WriteConf, threadVars
<1>4. CASE Reload("station_reload", "station_check")
  BY <1>4 DEF Reload, threadVars
<1>5. CASE set_check("station_check", FALSE, "add_wifi")
  BY <1>5 DEF set_check, Store, threadVars, system
<1>6. CASE OpenConf("ap_conf", "ap_write", "ap_check")
  BY <1>6 DEF OpenConf, threadVars, system
<1>7. CASE WriteConf("ap_write", "unmanaged", "ap_reload")
  BY <1>7 DEF WriteConf, threadVars
<1>8. CASE Reload("ap_reload", "ap_restart")
  BY <1>8 DEF Reload, threadVars
<1>9. CASE Hostapd("ap_restart", TRUE, "ap_check")
  BY <1>9 DEF Hostapd, threadVars
<1>10. CASE set_check("ap_check", TRUE, "close")
  BY <1>10 DEF set_check, Store, threadVars, system
<1>. QED
  BY <1>1, <1>2, <1>3, <1>4, <1>5, <1>6, <1>7, <1>8, <1>9, <1>10
     DEF switchToStationMode, switchToAPMode

LEMMA ModeKnownNext ==
  ASSUME TypeOK, ModeKnown, [Next]_vars
  PROVE  ModeKnown'
<1>1. ASSUME UNCHANGED <<check, system, failed, inherited>>,
             pc' \notin ToStation \cup ToAP \cup Joining, pc \notin ToStation \cup ToAP
      PROVE  ModeKnown'
  BY <1>1 DEF ModeKnown, RightRequest, Progress, FlagTells, StationMode, AccessPoint,
     ToStation, ToAP, Joining, system
<1>2. ASSUME UNCHANGED <<pc, request, check, system, failed, inherited>> PROVE ModeKnown'
  BY <1>2 DEF ModeKnown, RightRequest, Progress, FlagTells, StationMode, AccessPoint, system
<1>3. ASSUME ClientNext PROVE ModeKnown'
  <2>1. UNCHANGED <<pc, request, check, system, failed, inherited>>
    BY <1>3 DEF ClientNext, Send, Leave, Connect, threadVars, history
  <2>. QED
    BY <1>2, <2>1
<1>4. ASSUME UNCHANGED vars PROVE ModeKnown'
  BY <1>2, <1>4 DEF vars, threadVars, history
<1>5. ASSUME \/ Accept \/ AcceptFails \/ FirstRead \/ receive
             \/ StartScan \/ ScanRefused \/ ScanFinished \/ CloseConnection
      PROVE  ModeKnown'
  <2>1. pc' \notin ToStation \cup ToAP \cup Joining /\ pc \notin ToStation \cup ToAP
    BY <1>5 DEF Accept, AcceptFails, FirstRead, receive, StartScan, ScanRefused, ScanFinished,
       Quit, CloseConnection, ToStation, ToAP, Joining
  <2>2. UNCHANGED <<check, system, failed, inherited>>
    BY <1>5 DEF Accept, AcceptFails, FirstRead, receive, StartScan, ScanRefused, ScanFinished,
       CloseConnection, history
  <2>. QED
    BY <1>1, <2>1, <2>2
<1>6. ASSUME processJson PROVE ModeKnown'
  BY <1>6 DEF processJson, ForStation, Switches, threadVars, system, history, ModeKnown, RightRequest,
     Progress, FlagTells, StationMode, AccessPoint, ToStation, ToAP, Joining
<1>7. ASSUME add_wifi \/ set_IP PROVE ModeKnown'
  <2>1. /\ pc \in Joining /\ pc' \notin ToStation \cup ToAP
        /\ UNCHANGED <<check, conf, managed, hostapd, failed, inherited>>
    BY <1>7 DEF add_wifi, set_IP, system, history, ToStation, ToAP, Joining
  <2>2. ~check
    BY <2>1 DEF ModeKnown, RightRequest
  <2>. QED
    BY <2>1, <2>2 DEF ModeKnown, RightRequest, Progress, FlagTells, StationMode, ToStation, ToAP,
       Joining
<1>8. ASSUME Restart PROVE ModeKnown'
  BY <1>8 DEF Restart, system, ModeKnown, RightRequest, Progress, FlagTells, StationMode,
     AccessPoint, ToStation, ToAP, Joining
<1>. QED
  BY <1>3, <1>4, <1>5, <1>6, <1>7, <1>8, SwitchKnows DEF Next, thread_12345

LEMMA ModeAlwaysKnown == Spec => []ModeKnown
<1>1. Init => ModeKnown
  BY DEF Init, ModeKnown, RightRequest, Progress, FlagTells, StationMode, AccessPoint,
     ToStation, ToAP, Joining
<1>. QED
  BY <1>1, ModeKnownNext, Typing, PTL DEF Spec

(* Between requests Settings::check tells the mode of wlan0, if no step of   *)
(* the last switch failed and the process did not inherit another mode.      *)
THEOREM FlagIsRight == Spec => []FlagKnowsMode
<1>1. ModeKnown => FlagKnowsMode
  BY DEF ModeKnown, Progress, FlagTells, FlagKnowsMode, ToStation, ToAP
<1>. QED
  BY <1>1, ModeAlwaysKnown, PTL

(* Where the flag says station and the file access point, only a request for *)
(* access point mode changes either.                                         *)
THEOREM StuckUntilAp == Spec => OnlyApUnsticks
<1>1. ASSUME TypeOK, ModeKnown, [Next]_vars
      PROVE  [Stuck /\ ~Stuck' => request \notin {"station", "station0"}]_vars
  <2>1. SUFFICES ASSUME Next, Stuck, ~Stuck' PROVE request \notin {"station", "station0"}
    BY <1>1
  <2>2. check' # check \/ conf' # conf
    BY <2>1 DEF Stuck
  <2>3. ~(ClientNext \/ Restart)
    BY <2>1 DEF ClientNext, Send, Leave, Connect, Restart, Stuck, system
  <2>4. ~(Accept \/ AcceptFails \/ FirstRead \/ receive \/ processJson \/ add_wifi \/ set_IP
          \/ StartScan \/ ScanRefused \/ ScanFinished \/ CloseConnection)
    BY <2>2 DEF Accept, AcceptFails, FirstRead, receive, processJson, add_wifi, set_IP, StartScan,
       ScanRefused, ScanFinished, CloseConnection, system
  <2>5. CASE switchToAPMode
    BY <1>1, <2>5 DEF switchToAPMode, OpenConf, WriteConf, Reload, Hostapd, set_check, Step,
       ModeKnown, RightRequest, ToAP
  <2>6. ~switchToStationMode
    <3>1. pc \in ToStation => check
      BY <1>1 DEF ModeKnown, RightRequest
    <3>. QED
      BY <2>1, <3>1 DEF switchToStationMode, OpenConf, WriteConf, Reload, Hostapd, set_check,
         Step, ToStation, Stuck
  <2>. QED
    BY <2>1, <2>3, <2>4, <2>5, <2>6 DEF Next, thread_12345
<1>. QED
  BY <1>1, ModeAlwaysKnown, Typing, PTL DEF Spec, OnlyApUnsticks

===============================================================================
