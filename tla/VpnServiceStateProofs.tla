----------------------- MODULE VpnServiceStateProofs -----------------------
(***************************************************************************)
(* Proofs that the state VpnService announces is true: what CONNECTED and  *)
(* STOPPED say of the interface, the daemons, the protect server and the   *)
(* notification, for any number of calls, revocations and faults.          *)
(***************************************************************************)
EXTENDS VpnServiceProofs

USE ClientOpsAssumption, MaxCallsAssumption, MaxRevokesAssumption, MaxFaultsAssumption

-----------------------------------------------------------------------------
(* Where a call is in its course.                                          *)

\* startRunner before handleConnection.
Opening == {"begin", "connecting", "show_connecting", "resolve"}

\* startVpn from its second CONNECTING to getFd.
Building == {"show_vpn", "establish", "show_refused", "conn_refused", "if_conn", "get_fd"}

\* Setting a daemon's reference and starting it.
Making == {"create", "if_set", "launch"}

\* stopRunner before and after its first change of state, and after killProcesses.
PreStop  == {"thread_check", "thread_use", "thread_null", "stopping"}
Cleaning == {"conn_check", "conn_use", "conn_null", "stop_self", "stopped", "show_stopped"}

\* The kill index is in use only during killProcesses.
KillKnown == \A t \in Threads : pc[t] \notin KillPcs => kill[t] = 1

\* Which daemon comes next where.
NextKnown ==
  /\ pc["B"] \in {"idle"} \cup Opening \/ resetting => next = "sslocal"
  /\ pc["B"] \in Building \cup {"start_vpn", "send_fd", "connected"} => next = "tun2socks"

\* The last word is the CONNECTING of startVpn while startVpn and sendFd succeed.
AfterStartVpn ==
  \/ pc["B"] \in {"show_vpn", "establish", "get_fd", "send_fd", "connected"}
  \/ pc["B"] \in Making /\ next = "tun2socks"
  \/ pc["B"] = "if_conn" /\ conn # 0

Word == ~overlap /\ AfterStartVpn => Latest = "CONNECTING"

\* CONNECTED is posted right after CONNECTING.
Before(i) == IF i = 1 THEN state ELSE posts[i - 1]
Paired ==
  ~overlap => \A i \in 1..Len(posts) : posts[i] = "CONNECTED" => Before(i) = "CONNECTING"

WordInv == KillKnown /\ NextKnown /\ Word /\ Paired

-----------------------------------------------------------------------------
(* What holds where, as long as no revocation overlapped a start and no    *)
(* exception ended a call.                                                 *)

Undisturbed == ~overlap /\ aborted = {}

\* The daemons handleConnection has set before it comes to d.
Done(d) ==
  CASE d = "sslocal"   -> {}
    [] d = "pdnsd"     -> {"sslocal"}
    [] d = "sstunnel"  -> {"sslocal", "pdnsd"}
    [] d = "tun2socks" -> {"sslocal", "pdnsd", "sstunnel"}

\* startRunner has a protect server of its own from its first step until it fails.
ServerSet ==
  pc["B"] \in StartPcs \ {"begin", "failed", "show_failed"} \/ resetting =>
    vpnThread = runs /\ runs \in serving

\* The references are those that were set so far.
RefsSet ==
  /\ pc["B"] \in {"resolve", "create"} => ref = Done(next)
  /\ pc["B"] \in {"if_set", "launch"} => ref = Done(next) \cup {next}
  /\ pc["B"] \in Building \cup {"start_vpn"} => ref = Done("tun2socks")
  /\ pc["B"] \in {"send_fd", "connected"} => ref = Daemons \ {"kcptun"}

\* Past its check, conn is the interface of this start, and open.
ConnSet ==
  /\ pc["B"] = "if_conn" => conn = 0 \/ (conn = runs /\ runs \in open)
  /\ pc["B"] \in {"get_fd", "send_fd", "connected"} => conn = runs /\ runs \in open
  /\ pc["B"] \in Making /\ next = "tun2socks" => conn = runs /\ runs \in open

\* sendFd succeeds only with a tun2socks that runs.
TunUp == pc["B"] = "connected" => "tun2socks" \in up

\* The daemons t has dealt with in killProcesses.
Killed(t) == {KillOrder[i] : i \in 1..(kill[t] - 1)}

\* What stopRunner has cleaned up stays clean, on either thread.
Gone(t) ==
  /\ pc[t] \in {"stopping", "show_stopping"} \cup Cleaning => vpnThread = 0
  /\ pc[t] \in KillPcs =>
       /\ ref \cap Killed(t) = {}
       /\ (t = "B" /\ resetting) \/ vpnThread = 0
  /\ pc[t] \in Cleaning => ref = {}
  /\ pc[t] \in {"stop_self", "stopped", "show_stopped"} => conn = 0 \/ nFaults > 0

\* STOPPED as the last word, outside of a start.
Clean ==
  Latest = "STOPPED" /\ op # "start" =>
    ref = {} /\ vpnThread = 0 /\ (conn = 0 \/ nFaults > 0)

\* CONNECTED as the last word: nobody has got far enough to change anything but the
\* protect server.
Whole ==
  Latest = "CONNECTED" =>
    /\ pc["R"] \in PreStop \cup {"idle"}
    /\ pc["B"] \in PreStop \cup {"idle", "begin", "connecting", "show_connected"}
    /\ pc["B"] # "connecting" => conn = runs
    /\ conn \in open
    /\ ref = Daemons \ {"kcptun"}
    /\ "tun2socks" \in up
    /\ pc["R"] = "idle" /\ pc["B"] \notin PreStop => vpnThread \in serving
    /\ pc["B"] # "show_connected" => notif = "CONNECTED"

\* A start that is about to return has said CONNECTED.
Said == pc["B"] = "show_connected" => Latest = "CONNECTED"

\* Whoever leaves last leaves no notification, except for CONNECTED.
Shown == (\A t \in Threads : pc[t] = "idle") => notif = "none" \/ Latest = "CONNECTED"

StartTrue == ServerSet /\ RefsSet /\ ConnSet /\ TunUp
StateTrue == (\A t \in Threads : Gone(t)) /\ Clean /\ Whole /\ Said /\ Shown

TruthInv == Undisturbed => StartTrue /\ StateTrue

-----------------------------------------------------------------------------
(* Threads and posts.                                                      *)

\* Where B is in startRunner, R is idle, unless a revocation overlapped.
LEMMA Alone ==
  ASSUME TypeInv, ReachInv, ~overlap, pc["B"] \in StartPcs \/ resetting \/ op = "start"
  PROVE  op = "start" /\ pc["R"] = "idle"
BY DEF TypeInv, Control, OpKnown, ReachInv

\* A step of t leaves the other thread where it is and only takes things away.
LEMMA Shrinks ==
  ASSUME TypeInv, NEW t \in Threads, StopStep(t)
  PROVE  /\ \A u \in Threads : u # t => pc'[u] = pc[u] /\ kill'[u] = kill[u]
         /\ pc[t] \in KillPcs \cup StopPcs
         /\ pc'[t] \in KillPcs \cup StopPcs \cup {"idle", "resolve", "failed"}
         /\ t = "R" => UNCHANGED bVars
         /\ resetting' => resetting
         /\ ref' \subseteq ref /\ up' \subseteq up
         /\ vpnThread' \in {0, vpnThread} /\ conn' \in {0, conn}
         /\ nFaults' >= nFaults
         /\ aborted \subseteq aborted'
         /\ UNCHANGED <<runs, state, overlap, calls>>
<1>0. LocalOK /\ nFaults \in Nat
  BY TypeParts DEF TypeInv, SharedOK
<1> USE <1>0 DEF LocalOK, Threads, KillPcs, StopPcs, Goto, Proceed, Leave, Abort, KillAdvance, Outside, Fault,
            lookVars, protVars, connVars, daemVars, bVars
<1>1. CASE KillCheck(t) BY <1>1 DEF KillCheck
<1>2. CASE KillUse(t) BY <1>2 DEF KillUse
<1>3. CASE KillNull(t) BY <1>3 DEF KillNull
<1>4. CASE ThreadCheck(t) BY <1>4 DEF ThreadCheck
<1>5. CASE ThreadUse(t) BY <1>5 DEF ThreadUse
<1>6. CASE ThreadNull(t) BY <1>6 DEF ThreadNull
<1>7. CASE Stopping(t) BY <1>7 DEF Stopping
<1>8. CASE ShowStopping(t) BY <1>8 DEF ShowStopping
<1>9. CASE ConnCheck(t) BY <1>9 DEF ConnCheck
<1>10. CASE ConnUse(t) BY <1>10 DEF ConnUse
<1>11. CASE ConnNull(t) BY <1>11 DEF ConnNull
<1>12. CASE StopSelf(t) BY <1>12 DEF StopSelf
<1>13. CASE Stopped(t) BY <1>13 DEF Stopped
<1>14. CASE ShowStopped(t) BY <1>14 DEF ShowStopped
<1> QED BY <1>1, <1>2, <1>3, <1>4, <1>5, <1>6, <1>7, <1>8, <1>9, <1>10, <1>11, <1>12,
          <1>13, <1>14 DEF StopStep

\* startRunner runs on B.
LEMMA Starts ==
  ASSUME TypeInv, StartStep
  PROVE  /\ pc["B"] \in StartPcs /\ op = "start"
         /\ pc'["R"] = pc["R"] /\ kill'["R"] = kill["R"]
         /\ aborted \subseteq aborted'
         /\ UNCHANGED <<state, overlap, calls>>
<1>0. LocalOK /\ OpKnown
  BY TypeParts DEF TypeInv, Control
<1>a. pc["B"] \in StartPcs
  BY DEF StartStep, StartPcs, Begin, Connecting, ShowConnecting, Resolve, Create, IfSet, Launch,
         StartVpn, ShowVpn, Establish, ShowRefused, ConnRefused, IfConn, GetFd, SendFd,
         Connected, ShowConnected, Failed, ShowFailed
<1>b. op = "start"
  BY <1>0, <1>a DEF OpKnown
<1> USE <1>0, <1>a, <1>b DEF LocalOK, Threads, Goto, Proceed, Leave, Abort, Outside
<1>1. CASE Begin BY <1>1 DEF Begin
<1>2. CASE Connecting BY <1>2 DEF Connecting
<1>3. CASE ShowConnecting BY <1>3 DEF ShowConnecting
<1>4. CASE Resolve BY <1>4 DEF Resolve
<1>5. CASE Create BY <1>5 DEF Create
<1>6. CASE IfSet
  BY <1>6, StartedMoves DEF IfSet
<1>7. CASE Launch
  BY <1>7, StartedMoves DEF Launch
<1>8. CASE StartVpn BY <1>8 DEF StartVpn
<1>9. CASE ShowVpn BY <1>9 DEF ShowVpn
<1>10. CASE Establish BY <1>10 DEF Establish
<1>11. CASE ShowRefused BY <1>11 DEF ShowRefused
<1>12. CASE ConnRefused BY <1>12 DEF ConnRefused
<1>13. CASE IfConn BY <1>13 DEF IfConn
<1>14. CASE GetFd BY <1>14 DEF GetFd
<1>15. CASE SendFd BY <1>15 DEF SendFd
<1>16. CASE Connected BY <1>16 DEF Connected
<1>17. CASE ShowConnected BY <1>17 DEF ShowConnected
<1>18. CASE Failed BY <1>18 DEF Failed
<1>19. CASE ShowFailed BY <1>19 DEF ShowFailed
<1> QED BY <1>1, <1>2, <1>3, <1>4, <1>5, <1>6, <1>7, <1>8, <1>9, <1>10, <1>11, <1>12,
          <1>13, <1>14, <1>15, <1>16, <1>17, <1>18, <1>19 DEF StartStep

\* What a step may do to the looper's queue.
Posts ==
  \/ UNCHANGED <<posts, state>>
  \/ RunPosted
  \/ UNCHANGED state /\ \E s \in States : ChangeState(s) /\ (s = "CONNECTED" => pc["B"] = "connected")

LEMMA PostStep ==
  ASSUME Next
  PROVE  Posts
<1> USE DEF Posts, Outside, ShowNotification, lookVars, States
<1>1. ASSUME NEW c \in ClientOps, ClientCalls(c) PROVE Posts
  BY <1>1 DEF ClientCalls
<1>2. CASE BinderStep \/ RunPosted \/ OnRevoke
  BY <1>2 DEF BinderStep, Start, Stop, IgnoreCall, RegisterCallback, TakeCall, OnRevoke
<1>3. ASSUME NEW t \in Threads, StopStep(t) PROVE Posts
  BY <1>3 DEF StopStep, KillCheck, KillUse, KillNull, ThreadCheck, ThreadUse, ThreadNull,
              Stopping, ShowStopping, ConnCheck, ConnUse, ConnNull, StopSelf, Stopped,
              ShowStopped
<1>4. CASE StartStep
  BY <1>4 DEF StartStep, Begin, Connecting, ShowConnecting, Resolve, Create, IfSet, Launch,
              StartVpn, ShowVpn, Establish, ShowRefused, ConnRefused, IfConn, GetFd, SendFd,
              Connected, ShowConnected, Failed, ShowFailed
<1> QED BY <1>1, <1>2, <1>3, <1>4 DEF Next

\* An overlap and an exception are not forgotten.
LEMMA Remembered ==
  ASSUME TypeInv, [Next]_vars
  PROVE  (overlap => overlap') /\ aborted \subseteq aborted'
<1>1. ASSUME NEW c \in ClientOps, ClientCalls(c)
      PROVE  (overlap => overlap') /\ aborted \subseteq aborted'
  BY <1>1 DEF ClientCalls
<1>2. CASE BinderStep \/ RunPosted \/ OnRevoke
  <2> USE <1>2 DEF BinderStep, Start, Stop, IgnoreCall, RegisterCallback, TakeCall, RunPosted,
                OnRevoke
  <2>1. overlap => overlap'
    OBVIOUS
  <2>2. aborted' = aborted
    OBVIOUS
  <2> QED BY <2>1, <2>2, Zenon
<1>3. CASE UNCHANGED vars
  BY <1>3 DEF vars
<1> QED BY <1>1, <1>2, <1>3, Shrinks, Starts DEF Next

\* CONNECTED is posted where the last word is CONNECTING.
LEMMA PairedNext ==
  ASSUME TypeInv, Word, Paired, Next
  PROVE  Paired'
<1>0. posts \in Seq(States) /\ state \in States
  BY TypeParts DEF TypeInv, SharedOK
<1> SUFFICES ASSUME ~overlap', NEW i \in 1..Len(posts'), posts'[i] = "CONNECTED"
             PROVE  Before(i)' = "CONNECTING"
  BY DEF Paired
<1>1. ~overlap
  BY Remembered
<1>2. \A j \in 1..Len(posts) : posts[j] = "CONNECTED" => Before(j) = "CONNECTING"
  BY <1>1 DEF Paired
<1>3. CASE UNCHANGED <<posts, state>>
  BY <1>2, <1>3 DEF Before
<1>4. CASE RunPosted
  <2>1. posts # <<>> /\ posts' = Tail(posts) /\ state' = Head(posts)
    BY <1>4 DEF RunPosted
  <2>2. i + 1 \in 1..Len(posts) /\ posts'[i] = posts[i + 1] /\ i + 1 # 1
    BY <1>0, <2>1
  <2>3. posts[(i + 1) - 1] = "CONNECTING"
    BY <1>2, <2>2 DEF Before
  <2>4. posts[i] = "CONNECTING"
    BY <2>2, <2>3
  <2>5. CASE i = 1
    BY <1>0, <2>1, <2>4, <2>5 DEF Before
  <2>6. CASE i # 1
    <3>1. posts'[i - 1] = posts[i]
      BY <1>0, <2>1, <2>2, <2>6
    <3> QED BY <2>4, <2>6, <3>1 DEF Before
  <2> QED BY <2>5, <2>6
<1>5. ASSUME UNCHANGED state, NEW s \in States, ChangeState(s), s = "CONNECTED" => pc["B"] = "connected"
      PROVE  Before(i)' = "CONNECTING"
  <2>1. /\ posts' = Append(posts, s) /\ Len(posts) \in Nat
        /\ Len(posts') = Len(posts) + 1 /\ posts'[Len(posts) + 1] = s
        /\ \A j \in 1..Len(posts) : posts'[j] = posts[j]
    BY <1>0, <1>5 DEF ChangeState
  <2>2. CASE i \in 1..Len(posts)
    <3>1. i # 1 => i - 1 \in 1..Len(posts)
      BY <2>2
    <3> QED BY <1>2, <1>5, <2>1, <2>2, <3>1 DEF Before
  <2>3. CASE i = Len(posts) + 1
    <3>1. Latest = "CONNECTING"
      BY <1>1, <1>5, <2>1, <2>3 DEF Word, AfterStartVpn
    <3>2. CASE posts = <<>>
      <4>1. i = 1 /\ state = "CONNECTING"
        BY <2>3, <3>1, <3>2 DEF Latest
      <4> QED BY <1>5, <4>1 DEF Before
    <3>3. CASE posts # <<>>
      <4>1. i # 1 /\ i - 1 = Len(posts) /\ i - 1 \in 1..Len(posts)
        BY <1>0, <2>1, <2>3, <3>3
      <4>2. posts'[i - 1] = posts[Len(posts)]
        BY <2>1, <4>1
      <4>3. posts[Len(posts)] = "CONNECTING"
        BY <3>1, <3>3 DEF Latest
      <4> QED BY <4>1, <4>2, <4>3 DEF Before
    <3> QED BY <3>2, <3>3
  <2> QED BY <2>1, <2>2, <2>3
<1> QED BY <1>3, <1>4, <1>5, PostStep DEF Posts

-----------------------------------------------------------------------------
(* The words of the service.                                               *)

LEMMA KnownStop ==
  ASSUME TypeInv, KillKnown, NextKnown, NEW t \in Threads, StopStep(t)
  PROVE  KillKnown' /\ NextKnown'
<1>0. LocalOK /\ OpKnown
  BY TypeParts DEF TypeInv, Control
<1> USE <1>0 DEF LocalOK, OpKnown, KillKnown, NextKnown, Opening, Building, Threads, KillPcs,
            Goto, Proceed, Leave, Abort, KillAdvance, bVars
<1>1. CASE KillCheck(t) BY <1>1 DEF KillCheck
<1>2. CASE KillUse(t) BY <1>2 DEF KillUse
<1>3. CASE KillNull(t) BY <1>3 DEF KillNull
<1>4. CASE ThreadCheck(t) BY <1>4 DEF ThreadCheck
<1>5. CASE ThreadUse(t) BY <1>5 DEF ThreadUse
<1>6. CASE ThreadNull(t) BY <1>6 DEF ThreadNull
<1>7. CASE Stopping(t) BY <1>7 DEF Stopping
<1>8. CASE ShowStopping(t) BY <1>8 DEF ShowStopping
<1>9. CASE ConnCheck(t) BY <1>9 DEF ConnCheck
<1>10. CASE ConnUse(t) BY <1>10 DEF ConnUse
<1>11. CASE ConnNull(t) BY <1>11 DEF ConnNull
<1>12. CASE StopSelf(t) BY <1>12 DEF StopSelf
<1>13. CASE Stopped(t) BY <1>13 DEF Stopped
<1>14. CASE ShowStopped(t) BY <1>14 DEF ShowStopped
<1> QED BY <1>1, <1>2, <1>3, <1>4, <1>5, <1>6, <1>7, <1>8, <1>9, <1>10, <1>11, <1>12,
          <1>13, <1>14 DEF StopStep

\* What Started does, daemon by daemon.
LEMMA StartedNext ==
  ASSUME LocalOK, Started
  PROVE  \/ next = "sslocal" /\ pc'["B"] = "create" /\ next' = "pdnsd"
         \/ next = "pdnsd" /\ pc'["B"] = "create" /\ next' = "sstunnel"
         \/ next = "sstunnel" /\ pc'["B"] = "start_vpn" /\ next' = "tun2socks"
         \/ next = "tun2socks" /\ pc'["B"] = "send_fd" /\ next' = "tun2socks"
<1>1. next \in {"sslocal", "pdnsd", "sstunnel", "tun2socks"} /\ "B" \in Threads
  BY DEF LocalOK, Daemons, Threads
<1>2. CASE next = "sslocal"
  BY <1>1, <1>2 DEF Started, Goto, LocalOK
<1>3. CASE next = "pdnsd"
  BY <1>1, <1>3 DEF Started, Goto, LocalOK
<1>4. CASE next = "sstunnel"
  BY <1>1, <1>4 DEF Started, Goto, LocalOK
<1>5. CASE next = "tun2socks"
  BY <1>1, <1>5 DEF Started, Goto, LocalOK
<1> QED BY <1>1, <1>2, <1>3, <1>4, <1>5

LEMMA KnownStart ==
  ASSUME TypeInv, KillKnown, NextKnown, StartStep
  PROVE  KillKnown' /\ NextKnown'
<1>0. LocalOK /\ OpKnown
  BY TypeParts DEF TypeInv, Control
<1> USE <1>0 DEF LocalOK, OpKnown, KillKnown, NextKnown, Opening, Building, Threads, KillPcs,
            Goto, Proceed, Leave, Abort, bVars
<1>1. CASE Begin BY <1>1 DEF Begin
<1>2. CASE Connecting BY <1>2 DEF Connecting
<1>3. CASE ShowConnecting BY <1>3 DEF ShowConnecting
<1>4. CASE Resolve BY <1>4 DEF Resolve
<1>5. CASE Create BY <1>5 DEF Create
<1>6. CASE IfSet
  BY <1>6, StartedMoves, StartedNext DEF IfSet
<1>7. CASE Launch
  BY <1>7, StartedMoves, StartedNext DEF Launch
<1>8. CASE StartVpn BY <1>8 DEF StartVpn
<1>9. CASE ShowVpn BY <1>9 DEF ShowVpn
<1>10. CASE Establish BY <1>10 DEF Establish
<1>11. CASE ShowRefused BY <1>11 DEF ShowRefused
<1>12. CASE ConnRefused BY <1>12 DEF ConnRefused
<1>13. CASE IfConn BY <1>13 DEF IfConn
<1>14. CASE GetFd BY <1>14 DEF GetFd
<1>15. CASE SendFd BY <1>15 DEF SendFd
<1>16. CASE Connected BY <1>16 DEF Connected
<1>17. CASE ShowConnected BY <1>17 DEF ShowConnected
<1>18. CASE Failed BY <1>18 DEF Failed
<1>19. CASE ShowFailed BY <1>19 DEF ShowFailed
<1> QED BY <1>1, <1>2, <1>3, <1>4, <1>5, <1>6, <1>7, <1>8, <1>9, <1>10, <1>11, <1>12,
          <1>13, <1>14, <1>15, <1>16, <1>17, <1>18, <1>19 DEF StartStep

LEMMA KnownNext ==
  ASSUME TypeInv, KillKnown, NextKnown, [Next]_vars
  PROVE  KillKnown' /\ NextKnown'
<1>0. LocalOK
  BY TypeParts DEF TypeInv
<1>1. CASE (\E c \in ClientOps : ClientCalls(c)) \/ RunPosted \/ UNCHANGED vars
  BY <1>1 DEF ClientCalls, RunPosted, vars, bVars, KillKnown, NextKnown
<1>2. CASE BinderStep \/ OnRevoke
  BY <1>0, <1>2 DEF BinderStep, Start, Stop, IgnoreCall, RegisterCallback, TakeCall, OnRevoke,
                    KillKnown, NextKnown, Opening, Building, KillPcs, Threads, LocalOK, Goto, bVars
<1> QED BY <1>1, <1>2, KnownStop, KnownStart DEF Next

\* The last word is CONNECTING from startVpn on.
LEMMA WordStarts ==
  ASSUME TypeInv, KillKnown, NextKnown, Word, StartStep
  PROVE  Word'
<1>0. LocalOK /\ posts \in Seq(States) /\ overlap' = overlap
  BY TypeParts, Starts DEF TypeInv, SharedOK
<1> USE <1>0 DEF Word, AfterStartVpn, NextKnown, Opening, Building, Making, LocalOK, Threads,
            Goto, Proceed, Leave, Abort, Outside, ShowNotification, lookVars, connVars, bVars
<1>1. CASE Begin
  BY <1>1, LatestKept DEF Begin
<1>2. CASE Connecting BY <1>2 DEF Connecting
<1>3. CASE ShowConnecting
  BY <1>3, LatestKept DEF ShowConnecting
<1>4. CASE Resolve
  BY <1>4, LatestKept DEF Resolve
<1>5. CASE Create
  BY <1>5, LatestKept DEF Create
<1>6. CASE IfSet
  BY <1>6, StartedNext, LatestKept DEF IfSet
<1>7. CASE Launch
  BY <1>7, StartedNext, LatestKept DEF Launch
<1>8. CASE StartVpn
  BY <1>8, LatestAnnounced DEF StartVpn
<1>9. CASE ShowVpn
  BY <1>9, LatestKept DEF ShowVpn
<1>10. CASE Establish
  <2>1. CASE UNCHANGED lookVars
    BY <1>10, <2>1, LatestKept DEF Establish
  <2>2. CASE Proceed("B", "show_refused")
    BY <2>2
  <2> QED BY <1>10, <2>1, <2>2 DEF Establish
<1>11. CASE ShowRefused
  BY <1>11, LatestKept DEF ShowRefused
<1>12. CASE ConnRefused
  BY <1>12, LatestKept DEF ConnRefused
<1>13. CASE IfConn
  BY <1>13, LatestKept DEF IfConn
<1>14. CASE GetFd
  BY <1>14, LatestKept DEF GetFd
<1>15. CASE SendFd
  BY <1>15, LatestKept DEF SendFd
<1>16. CASE Connected BY <1>16 DEF Connected
<1>17. CASE ShowConnected
  BY <1>17, LatestKept DEF ShowConnected
<1>18. CASE Failed BY <1>18 DEF Failed
<1>19. CASE ShowFailed
  BY <1>19, LatestKept DEF ShowFailed
<1> QED BY <1>1, <1>2, <1>3, <1>4, <1>5, <1>6, <1>7, <1>8, <1>9, <1>10, <1>11, <1>12,
          <1>13, <1>14, <1>15, <1>16, <1>17, <1>18, <1>19 DEF StartStep

LEMMA WordNext ==
  ASSUME TypeInv, ReachInv, KillKnown, NextKnown, Word, [Next]_vars
  PROVE  Word'
<1>0. LocalOK /\ posts \in Seq(States)
  BY TypeParts DEF TypeInv, SharedOK
<1>1. CASE (\E c \in ClientOps : ClientCalls(c)) \/ UNCHANGED vars
  BY <1>1, LatestKept DEF ClientCalls, vars, bVars, lookVars, connVars, Word, AfterStartVpn
<1>2. CASE RunPosted
  BY <1>0, <1>2, LatestRun DEF RunPosted, Word, AfterStartVpn, bVars, connVars
<1>3. CASE OnRevoke
  <2>1. pc'["B"] = pc["B"] /\ (overlap => overlap') /\ UNCHANGED <<posts, state, next, conn>>
    BY <1>0, <1>3 DEF OnRevoke, Goto, LocalOK, Threads, lookVars, connVars, bVars
  <2> QED BY <2>1, LatestKept DEF Word, AfterStartVpn
<1>4. CASE BinderStep
  <2>1. pc'["B"] \in {"idle", "begin", "thread_check"}
    BY <1>0, <1>4 DEF BinderStep, Start, Stop, IgnoreCall, RegisterCallback, TakeCall, Goto,
                      LocalOK, Threads
  <2> QED BY <2>1 DEF Word, AfterStartVpn, Making
<1>5. ASSUME NEW t \in Threads, StopStep(t)
      PROVE  Word'
  <2>1. CASE t = "B"
    BY <1>5, <2>1, Shrinks DEF Word, AfterStartVpn, Making, KillPcs, StopPcs
  <2>2. CASE t = "R"
    <3>1. pc'["B"] = pc["B"] /\ pc["R"] # "idle" /\ UNCHANGED <<overlap, resetting>>
      BY <1>5, <2>2, Shrinks DEF Threads, KillPcs, StopPcs, bVars
    <3>2. ~overlap => pc["B"] \notin StartPcs
      BY <3>1, Alone
    <3> QED BY <3>1, <3>2 DEF Word, AfterStartVpn, Making, StartPcs
  <2> QED BY <2>1, <2>2 DEF Threads
<1>6. CASE StartStep
  BY <1>6, WordStarts
<1> QED BY <1>1, <1>2, <1>3, <1>4, <1>5, <1>6 DEF Next

LEMMA WordInvInit == Init => WordInv
<1> SUFFICES ASSUME Init
             PROVE  WordInv
  OBVIOUS
<1>1. pc["B"] = "idle" /\ pc["R"] = "idle"
  BY DEF Init, Threads
<1>2. KillKnown /\ NextKnown /\ Word
  BY <1>1 DEF Init, KillKnown, NextKnown, Word, AfterStartVpn, Making, Building, Threads
<1>3. Paired
  BY DEF Init, Paired
<1> QED BY <1>2, <1>3 DEF WordInv

LEMMA WordInvNext == IInv /\ WordInv /\ [Next]_vars => WordInv'
<1> SUFFICES ASSUME IInv, WordInv, [Next]_vars
             PROVE  WordInv'
  OBVIOUS
<1>1. TypeInv /\ ReachInv /\ KillKnown /\ NextKnown /\ Word /\ Paired
  BY DEF IInv, WordInv
<1>2. KillKnown' /\ NextKnown' /\ Word'
  BY <1>1, KnownNext, WordNext
<1>3. Paired'
  <2>1. CASE Next
    BY <1>1, <2>1, PairedNext
  <2>2. CASE UNCHANGED vars
    BY <1>1, <2>2 DEF vars, lookVars, Paired, Before
  <2> QED BY <2>1, <2>2
<1> QED BY <1>2, <1>3 DEF WordInv

LEMMA WordsHold == Spec => []WordInv
BY WordInvInit, WordInvNext, Invariant, PTL DEF Spec

\* Clients see CONNECTED only after CONNECTING: startVpn posts CONNECTING, nothing is
\* posted between that and the CONNECTED of the same start, and the looper keeps the
\* order, also when calls before have ended with an exception
\* (BaseService.java:68-85, ShadowsocksVpnService.java:117,294-296).
THEOREM ConnectedFollowsConnecting == Spec => ConnectedAfterConnecting
<1>1. ASSUME IInv, WordInv, Next, ~overlap, state # "CONNECTED", state' = "CONNECTED"
      PROVE  state = "CONNECTING"
  <2>1. RunPosted
    BY <1>1, PostStep DEF Posts
  <2>2. posts \in Seq(States) /\ posts # <<>> /\ Head(posts) = "CONNECTED"
    BY <1>1, <2>1, TypeParts DEF RunPosted, IInv, TypeInv, SharedOK
  <2>3. 1 \in 1..Len(posts) /\ posts[1] = "CONNECTED"
    BY <2>2
  <2> QED BY <1>1, <2>3 DEF WordInv, Paired, Before
<1>2. IInv /\ WordInv /\ [Next]_vars =>
        [~overlap /\ state # "CONNECTED" /\ state' = "CONNECTED" => state = "CONNECTING"]_vars
  BY <1>1
<1> QED BY <1>2, Invariant, WordsHold, PTL DEF Spec, ConnectedAfterConnecting

-----------------------------------------------------------------------------
(* A start sets up what it announces.                                      *)

\* A disturbance lasts.
LEMMA StaysUndisturbed ==
  ASSUME TypeInv, [Next]_vars, Undisturbed'
  PROVE  Undisturbed
BY Remembered DEF Undisturbed

\* killProcesses leaves no reference.
LEMMA KilledAll ==
  ASSUME TypeInv, NEW t \in Threads, NEW S \in SUBSET Daemons, S \cap Killed(t) = {},
         ~(kill[t] < 5), Target(t) \notin S
  PROVE  S = {}
<1>1. kill[t] = 5 /\ kill[t] - 1 = 4
  BY TypeParts DEF TypeInv, LocalOK
<1>2. \A i \in 1..4 : KillOrder[i] \in Killed(t)
  BY <1>1 DEF Killed
<1>3. /\ "sslocal" = KillOrder[1] /\ "sstunnel" = KillOrder[2]
      /\ "tun2socks" = KillOrder[3] /\ "pdnsd" = KillOrder[4] /\ "kcptun" = Target(t)
  BY <1>1 DEF KillOrder, Target
<1>4. {"sslocal", "sstunnel", "tun2socks", "pdnsd"} \subseteq Killed(t)
  BY <1>2, <1>3
<1> QED BY <1>3, <1>4 DEF Daemons

\* The next daemon of killProcesses is one more that is gone.
LEMMA KilledNext ==
  ASSUME TypeInv, NEW t \in Threads, kill[t] < 5, kill' = [kill EXCEPT ![t] = @ + 1],
         ref \cap Killed(t) = {}, ref' \subseteq ref, Target(t) \notin ref'
  PROVE  ref' \cap Killed(t)' = {}
<1>1. kill[t] \in 1..5 /\ kill'[t] = kill[t] + 1
  BY TypeParts DEF TypeInv, LocalOK
<1>2. \A i \in 1..(kill'[t] - 1) : i \in 1..(kill[t] - 1) \/ i = kill[t]
  BY <1>1
<1>3. Killed(t)' \subseteq Killed(t) \cup {Target(t)}
  BY <1>2 DEF Killed, Target
<1> QED BY <1>3

\* What Done adds up to.
LEMMA DoneFacts ==
  /\ Done("sslocal") = {} /\ Done("pdnsd") = {"sslocal"}
  /\ Done("sstunnel") = {"sslocal", "pdnsd"}
  /\ Done("tun2socks") = {"sslocal", "pdnsd", "sstunnel"}
  /\ Done("sslocal") \cup {"sslocal"} = Done("pdnsd")
  /\ Done("pdnsd") \cup {"pdnsd"} = Done("sstunnel")
  /\ Done("sstunnel") \cup {"sstunnel"} = Done("tun2socks")
  /\ Done("tun2socks") \cup {"tun2socks"} = Daemons \ {"kcptun"}
<1>1. /\ Done("sslocal") = {} /\ Done("pdnsd") = {"sslocal"}
      /\ Done("sstunnel") = {"sslocal", "pdnsd"}
      /\ Done("tun2socks") = {"sslocal", "pdnsd", "sstunnel"}
  BY DEF Done
<1> QED BY <1>1 DEF Daemons

LEMMA StartTrueStart ==
  ASSUME TypeInv, KillKnown, NextKnown, StartTrue, StartStep, Undisturbed'
  PROVE  StartTrue'
<1>0. /\ LocalOK /\ OpKnown /\ runs \in Nat /\ serving \subseteq 1..runs
      /\ pc["B"] # "begin" => runs > 0
  BY TypeParts, Starts DEF TypeInv, Control, SharedOK, RunsBegun
<1> USE <1>0, DoneFacts DEF StartTrue, ServerSet, RefsSet, ConnSet, TunUp, NextKnown, LocalOK,
            OpKnown, Undisturbed, Opening, Building, Making, StartPcs, KillPcs, Threads, Goto,
            Proceed, Leave, Abort, Outside, Fault, protVars, connVars, daemVars, bVars
<1>1. CASE Begin BY <1>1 DEF Begin
<1>2. CASE Connecting BY <1>2 DEF Connecting
<1>3. CASE ShowConnecting BY <1>3 DEF ShowConnecting
<1>4. CASE Resolve BY <1>4 DEF Resolve
<1>5. CASE Create BY <1>5 DEF Create
<1>6. CASE IfSet
  BY <1>6, StartedMoves, StartedNext DEF IfSet
<1>7. CASE Launch
  BY <1>7, StartedMoves, StartedNext DEF Launch
<1>8. CASE StartVpn BY <1>8 DEF StartVpn
<1>9. CASE ShowVpn BY <1>9 DEF ShowVpn
<1>10. CASE Establish BY <1>10 DEF Establish
<1>11. CASE ShowRefused BY <1>11 DEF ShowRefused
<1>12. CASE ConnRefused BY <1>12 DEF ConnRefused
<1>13. CASE IfConn BY <1>13 DEF IfConn
<1>14. CASE GetFd BY <1>14 DEF GetFd
<1>15. CASE SendFd BY <1>15 DEF SendFd
<1>16. CASE Connected BY <1>16 DEF Connected
<1>17. CASE ShowConnected BY <1>17 DEF ShowConnected
<1>18. CASE Failed BY <1>18 DEF Failed
<1>19. CASE ShowFailed BY <1>19 DEF ShowFailed
<1> QED BY <1>1, <1>2, <1>3, <1>4, <1>5, <1>6, <1>7, <1>8, <1>9, <1>10, <1>11, <1>12,
          <1>13, <1>14, <1>15, <1>16, <1>17, <1>18, <1>19 DEF StartStep

LEMMA StartTrueStop ==
  ASSUME TypeInv, ReachInv, KillKnown, NextKnown, StartTrue, NEW t \in Threads, Gone(t),
         StopStep(t), Undisturbed, Undisturbed'
  PROVE  StartTrue'
<1>0. LocalOK /\ OpKnown /\ ref \in SUBSET Daemons
  BY TypeParts DEF TypeInv, Control, SharedOK
\* R is idle during a start.
<1>1. CASE t = "R"
  <2>1. pc'["B"] = pc["B"] /\ pc["R"] # "idle" /\ UNCHANGED bVars
    BY <1>1, Shrinks DEF Threads, KillPcs, StopPcs
  <2>2. pc["B"] \notin StartPcs /\ ~resetting
    BY <2>1, Alone DEF Undisturbed
  <2> QED BY <2>1, <2>2 DEF StartTrue, ServerSet, RefsSet, ConnSet, TunUp, StartPcs, Building,
                            Making, bVars
\* B is in stopRunner, or in the killProcesses of startRunner.
<1>2. CASE t = "B" /\ ~resetting
  <2>1. pc'["B"] \in KillPcs \cup StopPcs \cup {"idle", "failed"} /\ ~resetting'
    <3>1. /\ pc'["B"] \in KillPcs \cup StopPcs \cup {"idle", "resolve", "failed"}
          /\ resetting' => resetting
      BY <1>2, Shrinks
    <3>2. pc'["B"] # "resolve"
      BY <1>0, <1>2 DEF LocalOK, Threads, StopStep, KillCheck, KillUse, KillNull, ThreadCheck,
         ThreadUse, ThreadNull, Stopping, ShowStopping, ConnCheck, ConnUse, ConnNull, StopSelf,
         Stopped, ShowStopped, Goto, Proceed, Leave, Abort, KillAdvance
    <3> QED BY <1>2, <3>1, <3>2
  <2> QED BY <2>1 DEF StartTrue, ServerSet, RefsSet, ConnSet, TunUp, StartPcs, StopPcs, KillPcs,
                      Building, Making
<1>3. CASE t = "B" /\ resetting
  <2>1. pc["B"] \in KillPcs /\ next = "sslocal" /\ vpnThread = runs /\ runs \in serving
    BY <1>0, <1>3 DEF OpKnown, NextKnown, StartTrue, ServerSet
  <2>2. KillCheck("B") \/ KillUse("B") \/ KillNull("B")
    BY <1>3, <2>1 DEF KillPcs, StopStep, ThreadCheck, ThreadUse, ThreadNull, Stopping,
       ShowStopping, ConnCheck, ConnUse, ConnNull, StopSelf, Stopped, ShowStopped
  <2>3. UNCHANGED protVars /\ aborted' = aborted
    BY <2>2 DEF KillCheck, KillUse, KillNull, Undisturbed
  <2>4. CASE pc'["B"] \in KillPcs
    BY <2>1, <2>3, <2>4 DEF StartTrue, ServerSet, RefsSet, ConnSet, TunUp, StartPcs, KillPcs,
                            Building, Making, protVars
  <2>5. CASE pc'["B"] \notin KillPcs
    <3>1. ~Abort("B")
      BY DEF Abort, Undisturbed
    <3>2. KillAdvance("B") /\ Target("B") \notin ref' /\ ref' \subseteq ref
      BY <1>0, <2>2, <2>5, <3>1 DEF KillCheck, KillUse, KillNull, KillPcs, Proceed, Goto,
         LocalOK, Threads, daemVars
    <3>3. ~(kill["B"] < 5) /\ pc'["B"] = "resolve" /\ next' = next
      BY <1>0, <1>3, <2>5, <3>2 DEF KillAdvance, Goto, LocalOK, Threads, KillPcs
    <3>4. ref' \cap Killed("B") = {}
      BY <1>3, <2>1, <3>2 DEF Gone
    <3>5. ref' = {}
      BY <1>0, <1>3, <3>2, <3>3, <3>4, KilledAll
    <3> QED BY <2>1, <2>3, <3>3, <3>5, DoneFacts
            DEF StartTrue, ServerSet, RefsSet, ConnSet, TunUp, StartPcs, Building, Making, protVars
  <2> QED BY <2>4, <2>5
<1> QED BY <1>1, <1>2, <1>3 DEF Threads

LEMMA StartTrueNext ==
  ASSUME TypeInv, ReachInv, KillKnown, NextKnown, StartTrue, \A t \in Threads : Gone(t),
         [Next]_vars, Undisturbed, Undisturbed'
  PROVE  StartTrue'
<1>0. LocalOK /\ OpKnown
  BY TypeParts DEF TypeInv, Control
<1> USE DEF StartTrue, ServerSet, RefsSet, ConnSet, TunUp, protVars, connVars, daemVars, bVars
<1>1. CASE (\E c \in ClientOps : ClientCalls(c)) \/ RunPosted \/ UNCHANGED vars
  BY <1>1 DEF ClientCalls, RunPosted, vars
<1>2. CASE OnRevoke
  BY <1>0, <1>2 DEF OnRevoke, Goto, LocalOK, Threads
<1>3. CASE BinderStep
  <2>1. pc'["B"] \in {"idle", "begin", "thread_check"} /\ ~resetting'
    BY <1>0, <1>3 DEF BinderStep, Start, Stop, IgnoreCall, RegisterCallback, TakeCall, Goto,
                      LocalOK, OpKnown, KillPcs, Threads
  <2> QED BY <2>1 DEF StartPcs, Building, Making
<1>4. ASSUME NEW t \in Threads, StopStep(t)
      PROVE  StartTrue'
  BY <1>4, StartTrueStop
<1>5. CASE StartStep
  BY <1>5, StartTrueStart
<1> QED BY <1>1, <1>2, <1>3, <1>4, <1>5 DEF Next

-----------------------------------------------------------------------------
(* What stopRunner has cleaned up.                                         *)

\* The thread that takes the step.
LEMMA GoneSelf ==
  ASSUME TypeInv, KillKnown, NEW t \in Threads, Gone(t), StopStep(t), Undisturbed'
  PROVE  Gone(t)'
<1>0. LocalOK /\ OpKnown /\ ref \in SUBSET Daemons /\ nFaults \in Nat
  BY TypeParts DEF TypeInv, Control, SharedOK
<1>a. kill[t] \in 1..5 /\ (pc[t] \notin KillPcs => Killed(t) = {})
  BY <1>0 DEF LocalOK, KillKnown, Killed
\* Out of killProcesses, or on to the next daemon.
<1>k. ASSUME KillAdvance(t), ref' \subseteq ref, Target(t) \notin ref', pc[t] \in KillPcs,
             UNCHANGED <<vpnThread, conn, nFaults>>
      PROVE  Gone(t)'
  <2>1. ref \cap Killed(t) = {} /\ ((t = "B" /\ resetting) \/ vpnThread = 0)
    BY <1>k DEF Gone
  <2>2. CASE kill[t] < 5
    <3>1. kill' = [kill EXCEPT ![t] = @ + 1] /\ pc'[t] = "kill_check" /\ resetting' = resetting
      BY <1>0, <1>k, <2>2 DEF KillAdvance, Goto, LocalOK, bVars
    <3>2. ref' \cap Killed(t)' = {}
      BY <1>k, <2>1, <2>2, <3>1, KilledNext
    <3> QED BY <1>k, <2>1, <3>1, <3>2 DEF Gone, KillPcs, Cleaning
  <2>3. CASE ~(kill[t] < 5)
    <3>1. ref' = {}
      BY <1>0, <1>k, <2>1, <2>3, KilledAll
    <3>2. pc'[t] \in {"resolve", "conn_check"} /\ (pc'[t] = "conn_check" => ~(t = "B" /\ resetting))
      BY <1>0, <1>k, <2>3 DEF KillAdvance, Goto, LocalOK
    <3> QED BY <1>k, <2>1, <3>1, <3>2 DEF Gone, KillPcs, Cleaning
  <2> QED BY <2>2, <2>3
<1>1. CASE KillCheck(t)
  <2>1. CASE Target(t) \in ref
    BY <1>0, <1>1, <2>1 DEF KillCheck, Gone, Killed, Cleaning, KillPcs, Proceed, Goto, LocalOK, protVars,
                       connVars, daemVars, bVars
  <2>2. CASE Target(t) \notin ref
    BY <1>1, <1>k, <2>2 DEF KillCheck, KillPcs, protVars, connVars, daemVars
  <2> QED BY <2>1, <2>2
<1>2. CASE KillUse(t)
  BY <1>0, <1>2 DEF KillUse, Gone, Killed, Cleaning, KillPcs, Proceed, Abort, Leave, Goto, LocalOK, protVars,
                    connVars, bVars
<1>3. CASE KillNull(t)
  BY <1>3, <1>k DEF KillNull, KillPcs, protVars, connVars
<1> USE <1>0, <1>a DEF Gone, Cleaning, KillPcs, LocalOK, Undisturbed, Goto, Proceed, Leave, Abort,
            Outside, Fault, protVars, connVars, daemVars, bVars
<1>4. CASE ThreadCheck(t) BY <1>4 DEF ThreadCheck
<1>5. CASE ThreadUse(t) BY <1>5 DEF ThreadUse
<1>6. CASE ThreadNull(t) BY <1>6 DEF ThreadNull
<1>7. CASE Stopping(t) BY <1>7 DEF Stopping
<1>8. CASE ShowStopping(t)
  <2>1. kill' = kill /\ Killed(t)' = {}
    BY <1>8 DEF ShowStopping, Killed
  <2> QED BY <1>8, <2>1 DEF ShowStopping
<1>9. CASE ConnCheck(t) BY <1>9 DEF ConnCheck
<1>10. CASE ConnUse(t) BY <1>10 DEF ConnUse
<1>11. CASE ConnNull(t) BY <1>11 DEF ConnNull
<1>12. CASE StopSelf(t) BY <1>12 DEF StopSelf
<1>13. CASE Stopped(t) BY <1>13 DEF Stopped
<1>14. CASE ShowStopped(t) BY <1>14 DEF ShowStopped
<1> QED BY <1>1, <1>2, <1>3, <1>4, <1>5, <1>6, <1>7, <1>8, <1>9, <1>10, <1>11, <1>12, <1>13, <1>14 DEF StopStep

\* The other thread.
LEMMA GoneOther ==
  ASSUME TypeInv, NEW t \in Threads, NEW u \in Threads, u # t, Gone(u), StopStep(t)
  PROVE  Gone(u)'
<1>1. /\ pc'[u] = pc[u] /\ kill'[u] = kill[u] /\ ref' \subseteq ref
      /\ vpnThread' \in {0, vpnThread} /\ conn' \in {0, conn} /\ nFaults' >= nFaults
      /\ nFaults \in Nat /\ nFaults' \in Nat
  BY Shrinks, TypeStop, TypeParts DEF TypeInv, SharedOK
<1>2. u = "B" => resetting' = resetting
  BY Shrinks DEF Threads, bVars
<1>3. Killed(u)' = Killed(u)
  BY <1>1 DEF Killed
<1> QED BY <1>1, <1>2, <1>3 DEF Gone

LEMMA GoneStart ==
  ASSUME TypeInv, ReachInv, KillKnown, StartStep, Undisturbed, Undisturbed', NEW u \in Threads
  PROVE  Gone(u)'
<1>0. LocalOK /\ pc["R"] = "idle" /\ pc'["R"] = "idle" /\ pc["B"] \notin KillPcs
  BY TypeParts, Starts, Alone DEF TypeInv, Undisturbed, KillPcs, StartPcs
<1>1. CASE u = "R"
  BY <1>0, <1>1 DEF Gone, KillPcs, Cleaning
<1>2. CASE u = "B" /\ ShowConnecting
  <2>1. kill'["B"] = 1 /\ resetting' = TRUE /\ pc'["B"] = "kill_check"
    BY <1>0, <1>2 DEF ShowConnecting, KillKnown, Threads, Goto, LocalOK
  <2>2. Killed("B")' = {}
    BY <2>1 DEF Killed
  <2> QED BY <1>2, <2>1, <2>2 DEF Gone, KillPcs, Cleaning
<1>3. CASE u = "B" /\ ~ShowConnecting
  <2>1. pc'["B"] \in StartPcs \cup {"idle", "thread_check"}
    <3> USE <1>0 DEF StartPcs, LocalOK, Threads, Goto, Proceed, Leave, Abort
    <3>1. CASE IfSet \/ Launch
      BY <3>1, StartedMoves DEF IfSet, Launch
    <3>2. CASE Begin \/ Connecting \/ Resolve \/ Create \/ StartVpn \/ ShowVpn \/ Establish
      BY <3>2 DEF Begin, Connecting, Resolve, Create, StartVpn, ShowVpn, Establish
    <3>3. CASE ShowRefused \/ ConnRefused \/ IfConn \/ GetFd \/ SendFd
      BY <3>3 DEF ShowRefused, ConnRefused, IfConn, GetFd, SendFd
    <3>4. CASE Connected \/ ShowConnected \/ Failed \/ ShowFailed
      BY <3>4 DEF Connected, ShowConnected, Failed, ShowFailed
    <3> QED BY <1>3, <3>1, <3>2, <3>3, <3>4 DEF StartStep
  <2> QED BY <1>3, <2>1 DEF Gone, KillPcs, Cleaning, StartPcs
<1> QED BY <1>1, <1>2, <1>3 DEF Threads

LEMMA GoneNext ==
  ASSUME TypeInv, ReachInv, KillKnown, \A t \in Threads : Gone(t), [Next]_vars,
         Undisturbed, Undisturbed', NEW u \in Threads
  PROVE  Gone(u)'
<1>0. LocalOK
  BY TypeParts DEF TypeInv
<1>1. CASE (\E c \in ClientOps : ClientCalls(c)) \/ RunPosted \/ UNCHANGED vars
  BY <1>1 DEF ClientCalls, RunPosted, vars, Gone, Killed, protVars, connVars, daemVars, bVars,
              countVars
<1>2. CASE BinderStep \/ OnRevoke
  <2>1. /\ pc'[u] = pc[u] \/ pc'[u] \in {"begin", "thread_check"}
        /\ UNCHANGED <<kill, ref, vpnThread, conn, nFaults, resetting>>
    BY <1>0, <1>2 DEF BinderStep, Start, Stop, IgnoreCall, RegisterCallback, TakeCall, OnRevoke,
       Goto, LocalOK, Threads, protVars, connVars, daemVars, bVars, countVars
  <2> QED BY <2>1 DEF Gone, Killed, KillPcs, Cleaning
<1>3. ASSUME NEW t \in Threads, StopStep(t)
      PROVE  Gone(u)'
  BY <1>3, GoneSelf, GoneOther
<1>4. CASE StartStep
  BY <1>4, GoneStart
<1> QED BY <1>1, <1>2, <1>3, <1>4 DEF Next

-----------------------------------------------------------------------------
(* The last word and what is there.                                        *)

\* The words after a step of stopRunner.
LEMMA StopWords ==
  ASSUME TypeInv, NEW t \in Threads, StopStep(t)
  PROVE  \/ Stopping(t) /\ Latest' = "STOPPING"
         \/ Stopped(t) /\ Latest' = "STOPPED"
         \/ ~Stopping(t) /\ ~Stopped(t) /\ Latest' = Latest
<1>0. posts \in Seq(States)
  BY TypeParts DEF TypeInv, SharedOK
<1>1. CASE Stopping(t)
  BY <1>0, <1>1, LatestAnnounced DEF Stopping
<1>2. CASE Stopped(t)
  BY <1>0, <1>2, LatestAnnounced DEF Stopped
<1>3. CASE ~Stopping(t) /\ ~Stopped(t)
  <2>1. UNCHANGED <<posts, state>>
    BY <1>3 DEF StopStep, KillCheck, KillUse, KillNull, ThreadCheck, ThreadUse, ThreadNull,
       ShowStopping, ConnCheck, ConnUse, ConnNull, StopSelf, ShowStopped, ShowNotification, Outside,
       lookVars
  <2> QED BY <1>3, <2>1, LatestKept
<1> QED BY <1>1, <1>2, <1>3

\* The words after a step of startRunner.
LEMMA StartWords ==
  ASSUME TypeInv, StartStep
  PROVE  \/ (Connecting \/ StartVpn) /\ Latest' = "CONNECTING"
         \/ Connected /\ Latest' = "CONNECTED"
         \/ Failed /\ Latest' = "STOPPED"
         \/ Establish /\ (Latest' = Latest \/ Latest' = "STOPPED")
         \/ Latest' = Latest /\ ~Connected
<1>0. posts \in Seq(States)
  BY TypeParts DEF TypeInv, SharedOK
<1>1. CASE Connecting
  BY <1>0, <1>1, LatestAnnounced DEF Connecting
<1>2. CASE StartVpn
  BY <1>0, <1>2, LatestAnnounced DEF StartVpn
<1>3. CASE Connected
  BY <1>0, <1>3, LatestAnnounced DEF Connected
<1>4. CASE Failed
  BY <1>0, <1>4, LatestAnnounced DEF Failed
<1>5. CASE Establish
  <2>1. ChangeState("STOPPED") \/ UNCHANGED <<posts, state>>
    BY <1>5 DEF Establish, Outside, lookVars
  <2> QED BY <1>0, <1>5, <2>1, LatestAnnounced, LatestKept
<1>6. CASE ~(Connecting \/ StartVpn \/ Connected \/ Failed \/ Establish)
  <2>1. UNCHANGED <<posts, state>>
    BY <1>6 DEF StartStep, Begin, ShowConnecting, Resolve, Create, IfSet, Launch, ShowVpn,
       ShowRefused, ConnRefused, IfConn, GetFd, SendFd, ShowConnected, ShowFailed,
       ShowNotification, Outside, lookVars
  <2> QED BY <1>6, <2>1, LatestKept
<1> QED BY <1>1, <1>2, <1>3, <1>4, <1>5, <1>6

LEMMA TrueStop ==
  ASSUME TypeInv, ReachInv, StateTrue, NEW t \in Threads, StopStep(t), Undisturbed, Undisturbed'
  PROVE  Clean' /\ Whole' /\ Said' /\ Shown'
<1>0. LocalOK /\ OpKnown /\ nFaults \in Nat /\ nFaults' \in Nat
  BY TypeParts, TypeStop DEF TypeInv, Control, SharedOK
<1>1. /\ \A u \in Threads : u # t => pc'[u] = pc[u]
      /\ pc[t] \in KillPcs \cup StopPcs
      /\ pc'[t] \in KillPcs \cup StopPcs \cup {"idle", "resolve", "failed"}
      /\ ref' \subseteq ref /\ vpnThread' \in {0, vpnThread} /\ conn' \in {0, conn}
      /\ nFaults' >= nFaults /\ UNCHANGED runs
      /\ t = "R" => UNCHANGED bVars
  BY Shrinks
<1>2. Gone(t) /\ Clean /\ Whole /\ Said /\ Shown
  BY DEF StateTrue
\* A call ends in ShowStopped, or with an exception.
<1>3. pc'[t] = "idle" => ShowStopped(t)
  BY <1>0 DEF StopStep, KillCheck, KillUse, KillNull, ThreadCheck, ThreadUse, ThreadNull,
     Stopping, ShowStopping, ConnCheck, ConnUse, ConnNull, StopSelf, Stopped, KillAdvance,
     Proceed, Abort, Goto, LocalOK, Undisturbed
<1>4. op' = op \/ ShowStopped(t)
  BY DEF StopStep, KillCheck, KillUse, KillNull, ThreadCheck, ThreadUse, ThreadNull, Stopping,
     ShowStopping, ConnCheck, ConnUse, ConnNull, StopSelf, Stopped, KillAdvance, Proceed, Abort,
     Undisturbed, bVars
<1>5. Clean'
  <2>1. CASE Stopped(t) \/ ShowStopped(t)
    <3>1. pc[t] \in {"stopped", "show_stopped"}
      BY <2>1 DEF Stopped, ShowStopped
    <3>2. ref = {} /\ vpnThread = 0 /\ (conn = 0 \/ nFaults > 0)
      BY <1>2, <3>1 DEF Gone, Cleaning
    <3> QED BY <1>0, <1>1, <3>2 DEF Clean
  <2>2. CASE ~Stopped(t) /\ ~ShowStopped(t)
    <3>1. Latest' = "STOPPED" => Latest = "STOPPED"
      BY <2>2, StopWords
    <3> QED BY <1>0, <1>1, <1>2, <1>4, <2>2, <3>1 DEF Clean
  <2> QED BY <2>1, <2>2
<1>6. Whole'
  <2> SUFFICES ASSUME Latest' = "CONNECTED"
               PROVE  Whole'
    BY DEF Whole
  <2>1. Latest = "CONNECTED" /\ ~Stopping(t)
    BY StopWords
  <2>2. pc[t] \in PreStop
    BY <1>1, <1>2, <2>1 DEF Whole, Threads, KillPcs, StopPcs, PreStop
  <2>3. ThreadCheck(t) \/ ThreadUse(t) \/ ThreadNull(t)
    BY <2>1, <2>2 DEF PreStop, StopStep, KillCheck, KillUse, KillNull, ShowStopping, ConnCheck,
       ConnUse, ConnNull, StopSelf, Stopped, ShowStopped
  <2>4. pc'[t] \in PreStop /\ UNCHANGED <<notif, conn, open, ref, up>>
    BY <1>0, <2>3 DEF ThreadCheck, ThreadUse, ThreadNull, Proceed, Abort, Goto, PreStop, LocalOK,
       Undisturbed, lookVars, connVars, daemVars
  <2> QED BY <1>1, <1>2, <2>1, <2>2, <2>4 DEF Whole, Threads, PreStop
<1>7. Said'
  <2>1. pc'["B"] = "show_connected" => pc["B"] = "show_connected" /\ t = "R"
    BY <1>1 DEF Threads, KillPcs, StopPcs
  <2>2. pc["B"] = "show_connected" => pc["R"] = "idle"
    BY Alone DEF Undisturbed, StartPcs
  <2> QED BY <1>1, <2>1, <2>2 DEF Said, KillPcs, StopPcs
<1>8. Shown'
  BY <1>3 DEF Shown, ShowStopped, ShowNotification
<1> QED BY <1>5, <1>6, <1>7, <1>8

LEMMA TrueStart ==
  ASSUME TypeInv, ReachInv, StartTrue, StateTrue, StartStep, Undisturbed, Undisturbed'
  PROVE  Clean' /\ Whole' /\ Said' /\ Shown'
<1>0. LocalOK /\ posts \in Seq(States) /\ runs \in Nat
  BY TypeParts DEF TypeInv, SharedOK
<1>1. /\ pc["B"] \in StartPcs /\ op = "start"
      /\ pc["R"] = "idle" /\ pc'["R"] = "idle"
  BY Starts, Alone DEF Undisturbed
<1>2. Clean /\ Whole /\ Said /\ Shown
  BY DEF StateTrue
\* A start ends in ShowConnected, or with an exception.
<1>3. ShowConnected \/ (op' = op /\ pc'["B"] # "idle")
  <2> USE <1>0 DEF LocalOK, Threads, Goto, Proceed, Abort, bVars, Undisturbed
  <2>1. CASE IfSet \/ Launch
    BY <2>1, StartedMoves DEF IfSet, Launch
  <2>2. CASE Begin \/ Connecting \/ ShowConnecting \/ Resolve \/ Create \/ StartVpn \/ ShowVpn
    BY <2>2 DEF Begin, Connecting, ShowConnecting, Resolve, Create, StartVpn, ShowVpn
  <2>3. CASE Establish \/ ShowRefused \/ ConnRefused \/ IfConn \/ GetFd \/ SendFd
    BY <2>3 DEF Establish, ShowRefused, ConnRefused, IfConn, GetFd, SendFd
  <2>4. CASE Connected \/ Failed \/ ShowFailed
    BY <2>4 DEF Connected, Failed, ShowFailed
  <2> QED BY <2>1, <2>2, <2>3, <2>4 DEF StartStep
<1>4. CASE ShowConnected
  <2>1. /\ pc["B"] = "show_connected" /\ pc'["B"] = "idle" /\ notif' = "CONNECTED"
        /\ UNCHANGED <<posts, state, vpnThread, serving, runs, conn, open, ref, up>>
    BY <1>0, <1>4 DEF ShowConnected, ShowNotification, Leave, Goto, LocalOK, Threads, Outside, protVars,
                      connVars, daemVars
  <2>2. Latest = "CONNECTED" /\ Latest' = "CONNECTED"
    BY <1>2, <2>1, LatestKept DEF Said
  <2> QED BY <1>1, <1>2, <2>1, <2>2 DEF Clean, Whole, Said, Shown, PreStop
<1>5. CASE Connected
  <2>1. /\ pc["B"] = "connected" /\ pc'["B"] = "show_connected" /\ op' = "start"
        /\ UNCHANGED <<vpnThread, serving, runs, conn, open, ref, up>>
    BY <1>0, <1>1, <1>5 DEF Connected, Proceed, Goto, LocalOK, Threads, bVars, protVars, connVars, daemVars
  <2>2. Latest' = "CONNECTED"
    BY <1>0, <1>5, LatestAnnounced DEF Connected
  <2>3. /\ vpnThread = runs /\ runs \in serving /\ conn = runs /\ runs \in open
        /\ ref = Daemons \ {"kcptun"} /\ "tun2socks" \in up
    BY <2>1 DEF StartTrue, ServerSet, RefsSet, ConnSet, TunUp, StartPcs
  <2> QED BY <1>1, <2>1, <2>2, <2>3 DEF Clean, Whole, Said, Shown, PreStop, Threads
<1>6. CASE ~ShowConnected /\ ~Connected
  <2>1. op' = "start" /\ pc'["B"] # "idle"
    BY <1>1, <1>3, <1>6
  <2>2. Clean' /\ Shown'
    BY <2>1 DEF Clean, Shown, Threads
  <2>3. pc'["B"] # "show_connected"
    <3> USE <1>0 DEF LocalOK, Threads, Goto, Proceed, Abort, Undisturbed
    <3>1. CASE IfSet \/ Launch
      BY <3>1, StartedMoves DEF IfSet, Launch
    <3>2. CASE Begin \/ Connecting \/ ShowConnecting \/ Resolve \/ Create \/ StartVpn \/ ShowVpn
      BY <3>2 DEF Begin, Connecting, ShowConnecting, Resolve, Create, StartVpn, ShowVpn
    <3>3. CASE Establish \/ ShowRefused \/ ConnRefused \/ IfConn \/ GetFd \/ SendFd
      BY <3>3 DEF Establish, ShowRefused, ConnRefused, IfConn, GetFd, SendFd
    <3>4. CASE Failed \/ ShowFailed
      BY <3>4 DEF Failed, ShowFailed
    <3> QED BY <1>6, <3>1, <3>2, <3>3, <3>4 DEF StartStep
  <2>4. Whole'
    <3> SUFFICES ASSUME Latest' = "CONNECTED"
                 PROVE  Whole'
      BY DEF Whole
    <3>1. Latest = "CONNECTED" /\ ~Connecting
      BY <1>0, <1>6, StartWords, LatestAnnounced DEF Connecting
    <3>2. pc["B"] \in {"begin", "connecting", "show_connected"}
      BY <1>1, <1>2, <3>1 DEF Whole, PreStop, StartPcs
    <3>3. Begin
      BY <1>6, <3>1, <3>2 DEF StartStep, ShowConnecting, Resolve, Create, IfSet, Launch, StartVpn,
         ShowVpn, Establish, ShowRefused, ConnRefused, IfConn, GetFd, SendFd, Failed, ShowFailed
    <3>4. /\ pc'["B"] = "connecting" /\ vpnThread' \in serving'
          /\ UNCHANGED <<notif, conn, open, ref, up>> /\ pc["B"] = "begin"
      BY <1>0, <3>3 DEF Begin, Proceed, Goto, LocalOK, Threads, lookVars, connVars, daemVars
    <3> QED BY <1>1, <1>2, <3>1, <3>4 DEF Whole
  <2> QED BY <2>2, <2>3, <2>4 DEF Said
<1> QED BY <1>4, <1>5, <1>6

LEMMA TrueOutside ==
  ASSUME TypeInv, ReachInv, StateTrue, Undisturbed, Undisturbed',
         \/ (\E c \in ClientOps : ClientCalls(c)) \/ UNCHANGED vars
         \/ BinderStep \/ RunPosted \/ OnRevoke
  PROVE  Clean' /\ Whole' /\ Said' /\ Shown'
<1>0. LocalOK /\ OpKnown /\ posts \in Seq(States)
  BY TypeParts DEF TypeInv, Control, SharedOK
<1>1. Clean /\ Whole /\ Said /\ Shown
  BY DEF StateTrue
<1>2. UNCHANGED <<notif, runs, vpnThread, serving, conn, open, ref, up, nFaults>>
  BY DEF ClientCalls, BinderStep, Start, Stop, IgnoreCall, RegisterCallback, TakeCall, RunPosted,
     OnRevoke, vars, lookVars, protVars, connVars, daemVars, countVars
<1>3. Latest' = Latest
  <2>1. CASE RunPosted
    BY <1>0, <2>1, LatestRun
  <2>2. CASE ~RunPosted
    BY <2>2, LatestKept DEF ClientCalls, BinderStep, Start, Stop, IgnoreCall, RegisterCallback,
       TakeCall, OnRevoke, vars, lookVars
  <2> QED BY <2>1, <2>2
<1>4. \/ UNCHANGED <<pc, op>>
      \/ pc["B"] = "idle" /\ pc'["B"] = "begin" /\ pc'["R"] = pc["R"] /\ op' = "start" /\ pc["R"] = "idle"
      \/ pc["B"] = "idle" /\ pc'["B"] = "thread_check" /\ pc'["R"] = pc["R"] /\ op' = "stop"
      \/ pc["R"] = "idle" /\ pc'["R"] = "thread_check" /\ pc'["B"] = pc["B"] /\ op' = op /\ op # "start"
  BY <1>0 DEF ClientCalls, BinderStep, Start, Stop, IgnoreCall, RegisterCallback, TakeCall, RunPosted,
     OnRevoke, vars, bVars, Goto, LocalOK, Threads, Undisturbed
<1>5. pc["B"] = "idle" => op # "start"
  BY <1>0 DEF OpKnown
<1> QED BY <1>1, <1>2, <1>3, <1>4, <1>5 DEF Clean, Whole, Said, Shown, PreStop, Threads

-----------------------------------------------------------------------------

LEMMA TruthInit == Init => TruthInv
<1> SUFFICES ASSUME Init
             PROVE  StartTrue /\ StateTrue
  BY DEF TruthInv
<1>1. pc["B"] = "idle" /\ pc["R"] = "idle" /\ ~resetting
  BY DEF Init, Threads
<1>2. Latest = "INIT"
  BY DEF Init, Latest
<1>3. StartTrue
  BY <1>1 DEF StartTrue, ServerSet, RefsSet, ConnSet, TunUp, StartPcs, Building, Making
<1>4. \A t \in Threads : Gone(t)
  BY <1>1 DEF Gone, Threads, KillPcs, Cleaning
<1>5. Clean /\ Whole /\ Said /\ Shown
  BY <1>1, <1>2 DEF Init, Clean, Whole, Said, Shown
<1> QED BY <1>3, <1>4, <1>5 DEF StateTrue

LEMMA TruthNext == IInv /\ WordInv /\ TruthInv /\ [Next]_vars => TruthInv'
<1> SUFFICES ASSUME IInv, WordInv, TruthInv, [Next]_vars, Undisturbed'
             PROVE  StartTrue' /\ StateTrue'
  BY DEF TruthInv
<1>1. TypeInv /\ ReachInv /\ KillKnown /\ NextKnown
  BY DEF IInv, WordInv
<1>2. Undisturbed /\ StartTrue /\ StateTrue
  BY <1>1, StaysUndisturbed DEF TruthInv
<1>3. StartTrue'
  BY <1>1, <1>2, StartTrueNext DEF StateTrue
<1>4. \A u \in Threads : Gone(u)'
  BY <1>1, <1>2, GoneNext DEF StateTrue
<1>5. Clean' /\ Whole' /\ Said' /\ Shown'
  BY <1>1, <1>2, TrueStop, TrueStart, TrueOutside DEF Next
<1> QED BY <1>3, <1>4, <1>5 DEF StateTrue

LEMMA TruthHolds == Spec => []TruthInv
BY TruthInit, TruthNext, Invariant, WordsHold, PTL DEF Spec

\* CONNECTED is the truth: a service that rests in CONNECTED holds the interface of its
\* latest start, which is open, its protect server and the four daemons; tun2socks was
\* handed the interface, and the notification says so
\* (ShadowsocksVpnService.java:262-303).
THEOREM ConnectedAlwaysWhole == Spec => []ConnectedIsWhole
<1>1. TruthInv => ConnectedIsWhole
  <2> SUFFICES ASSUME TruthInv, Settled, ~overlap, aborted = {}, state = "CONNECTED"
               PROVE  /\ conn = runs /\ conn \in open /\ vpnThread \in serving
                      /\ ref = Daemons \ {"kcptun"} /\ "tun2socks" \in up /\ notif = "CONNECTED"
    BY DEF ConnectedIsWhole
  <2>1. Latest = "CONNECTED" /\ pc["B"] = "idle" /\ pc["R"] = "idle"
    BY DEF Settled, Latest, Threads
  <2> QED BY <2>1 DEF TruthInv, Undisturbed, StateTrue, Whole, PreStop
<1> QED BY <1>1, TruthHolds, PTL

\* STOPPED is the truth: a service that rests in STOPPED runs no daemon and holds
\* nothing, whichever of stop, onRevoke and a failed start stopped it, and also when
\* stop and onRevoke ran stopRunner together (ShadowsocksVpnService.java:297-300,325-355).
THEOREM StoppedAlwaysClean == Spec => []StoppedIsClean
<1>1. IInv /\ TruthInv => StoppedIsClean
  <2> SUFFICES ASSUME IInv, TruthInv, Settled, ~overlap, aborted = {}, state = "STOPPED"
               PROVE  /\ up = {} /\ ref = {} /\ vpnThread = 0
                      /\ (conn = 0 \/ nFaults > 0) /\ notif = "none"
    BY DEF StoppedIsClean
  <2>1. Latest = "STOPPED" /\ \A t \in Threads : pc[t] = "idle"
    BY DEF Settled, Latest
  <2>2. op # "start"
    BY <2>1 DEF IInv, TypeInv, Control, OpKnown, Threads
  <2>3. ref = {} /\ vpnThread = 0 /\ (conn = 0 \/ nFaults > 0) /\ notif = "none"
    BY <2>1, <2>2 DEF TruthInv, Undisturbed, StateTrue, Clean, Shown
  <2>4. up = {}
    BY <2>3 DEF IInv, ReachInv
  <2> QED BY <2>3, <2>4
<1> QED BY <1>1, Invariant, TruthHolds, PTL

-----------------------------------------------------------------------------
(* What is dropped has been stopped.                                       *)

\* A thread about to set a field to null has stopped what the field refers to.
StoppedFirst(t) ==
  /\ pc[t] = "thread_null" => vpnThread \notin serving
  /\ pc[t] = "conn_null" => conn \notin open

DropInv == ~overlap => \A t \in Threads : StoppedFirst(t)

\* What a step may do to the servers, the interfaces and the fields.
Handled ==
  /\ \/ UNCHANGED <<vpnThread, serving>>
     \/ vpnThread' = vpnThread /\ serving' = serving \ {vpnThread}
     \/ vpnThread' = 0 /\ serving' = serving /\ \E t \in Threads : pc[t] = "thread_null"
     \/ pc["B"] = "begin" /\ StartStep
  /\ \/ UNCHANGED <<conn, open>>
     \/ conn' = conn /\ open' = open \ {conn}
     \/ conn' = 0 /\ open' = open /\ \E t \in Threads : pc[t] = "conn_null"
     \/ pc["B"] \in {"establish", "conn_refused"} /\ StartStep

\* Where a thread comes to a null from.
Arrives(t) ==
  /\ pc'[t] = "thread_null" /\ pc[t] # "thread_null" => serving' = serving \ {vpnThread}
  /\ pc'[t] = "conn_null" /\ pc[t] # "conn_null" => open' = open \ {conn}

\* stopRunner stops first and drops then.
LEMMA HandledStop ==
  ASSUME TypeInv, NEW t \in Threads, StopStep(t)
  PROVE  Handled /\ Arrives(t) /\ serving' \subseteq serving /\ open' \subseteq open
<1>0. LocalOK
  BY TypeParts DEF TypeInv
<1> USE <1>0 DEF LocalOK, Handled, Arrives, Goto, Proceed, Leave, Abort, KillAdvance, protVars, connVars
<1>1. CASE KillCheck(t) BY <1>1 DEF KillCheck
<1>2. CASE KillUse(t) BY <1>2 DEF KillUse
<1>3. CASE KillNull(t) BY <1>3 DEF KillNull
<1>4. CASE ThreadCheck(t) BY <1>4 DEF ThreadCheck
<1>5. CASE ThreadUse(t) BY <1>5 DEF ThreadUse
<1>6. CASE ThreadNull(t) BY <1>6 DEF ThreadNull
<1>7. CASE Stopping(t) BY <1>7 DEF Stopping
<1>8. CASE ShowStopping(t) BY <1>8 DEF ShowStopping
<1>9. CASE ConnCheck(t) BY <1>9 DEF ConnCheck
<1>10. CASE ConnUse(t) BY <1>10 DEF ConnUse
<1>11. CASE ConnNull(t) BY <1>11 DEF ConnNull
<1>12. CASE StopSelf(t) BY <1>12 DEF StopSelf
<1>13. CASE Stopped(t) BY <1>13 DEF Stopped
<1>14. CASE ShowStopped(t) BY <1>14 DEF ShowStopped
<1> QED BY <1>1, <1>2, <1>3, <1>4, <1>5, <1>6, <1>7, <1>8, <1>9, <1>10, <1>11, <1>12,
          <1>13, <1>14 DEF StopStep

\* startRunner touches them in three places.
LEMMA HandledStart ==
  ASSUME TypeInv, StartStep
  PROVE  Handled /\ pc'["B"] \notin {"thread_null", "conn_null"}
<1>0. LocalOK
  BY TypeParts DEF TypeInv
<1>1. Handled
  BY DEF Handled, StartStep, Begin, Connecting, ShowConnecting, Resolve, Create, IfSet, Launch,
         StartVpn, ShowVpn, Establish, ShowRefused, ConnRefused, IfConn, GetFd, SendFd,
         Connected, ShowConnected, Failed, ShowFailed, protVars, connVars
<1>2. pc'["B"] \notin {"thread_null", "conn_null"}
  <2> USE <1>0 DEF LocalOK, Threads, Goto, Proceed, Leave, Abort
  <2>1. CASE IfSet
    BY <2>1, StartedMoves DEF IfSet
  <2>2. CASE Launch
    BY <2>2, StartedMoves DEF Launch
  <2> QED
    BY <2>1, <2>2
       DEF StartStep, Begin, Connecting, ShowConnecting, Resolve, Create, StartVpn, ShowVpn,
           Establish, ShowRefused, ConnRefused, IfConn, GetFd, SendFd, Connected,
           ShowConnected, Failed, ShowFailed
<1> QED BY <1>1, <1>2

\* Calls, posts and stuttering leave them alone.
LEMMA HandledOutside ==
  ASSUME TypeInv,
         (\E c \in ClientOps : ClientCalls(c)) \/ BinderStep \/ RunPosted \/ OnRevoke \/ UNCHANGED vars
  PROVE  /\ UNCHANGED <<vpnThread, serving, conn, open>>
         /\ \A t \in Threads : pc'[t] = pc[t] \/ pc'[t] \in {"begin", "thread_check"}
<1>0. LocalOK
  BY TypeParts DEF TypeInv
<1> QED
  BY <1>0 DEF LocalOK, Threads, ClientCalls, BinderStep, Start, Stop, IgnoreCall, RegisterCallback,
     TakeCall, RunPosted, OnRevoke, Goto, vars, protVars, connVars

\* Every step keeps the order of stopping and dropping.
LEMMA DropNext == TypeInv /\ ReachInv /\ DropInv /\ [Next]_vars => DropInv'
<1> SUFFICES ASSUME TypeInv, ReachInv, DropInv, [Next]_vars, ~overlap', NEW u \in Threads
             PROVE  StoppedFirst(u)'
  BY DEF DropInv
<1>0. ~overlap /\ \A t \in Threads : StoppedFirst(t)
  BY Remembered DEF DropInv
<1>1. 0 \notin serving /\ 0 \notin open /\ pc["R"] \notin StartPcs
  BY TypeParts DEF TypeInv, SharedOK, Control, RevokeKnown
<1>2. ASSUME NEW t \in Threads, StopStep(t)
      PROVE  StoppedFirst(u)'
  <2>1. Handled /\ Arrives(t) /\ (u # t => pc'[u] = pc[u])
    BY <1>2, HandledStop, Shrinks
  <2>2. vpnThread' \in {0, vpnThread} /\ conn' \in {0, conn}
    BY <1>2, Shrinks
  <2>3. serving' \subseteq serving /\ open' \subseteq open
    BY <1>2, HandledStop
  <2>4. pc'[u] = "thread_null" => vpnThread' \notin serving'
    BY <1>0, <1>1, <2>1, <2>2, <2>3 DEF Arrives, StoppedFirst
  <2>5. pc'[u] = "conn_null" => conn' \notin open'
    BY <1>0, <1>1, <2>1, <2>2, <2>3 DEF Arrives, StoppedFirst
  <2> QED BY <2>4, <2>5 DEF StoppedFirst
<1>3. CASE StartStep
  <2>1. pc["R"] = "idle" /\ pc'["R"] = pc["R"]
    BY <1>0, <1>3, Starts, Alone
  <2> QED BY <1>3, <2>1, HandledStart DEF StoppedFirst, Threads
<1>4. CASE (\E c \in ClientOps : ClientCalls(c)) \/ BinderStep \/ RunPosted \/ OnRevoke \/ UNCHANGED vars
  BY <1>0, <1>4, HandledOutside DEF StoppedFirst
<1> QED BY <1>2, <1>3, <1>4 DEF Next

\* Nothing that runs is dropped except by a start that replaces it, for any number of
\* calls, revocations and faults and with stop and onRevoke running stopRunner together
\* (ShadowsocksVpnService.java:326-329,336-343).
THEOREM DropsOnlyWhatIsStopped == Spec => StopsBeforeDropping
<1>1. Init => DropInv
  BY DEF Init, DropInv, StoppedFirst, Threads
<1>2. IInv /\ DropInv /\ [Next]_vars => DropInv'
  BY DropNext DEF IInv
<1>3. IInv /\ DropInv /\ [Next]_vars =>
        [~overlap' =>
           /\ pc["B"] # "begin" => Adrift(serving', vpnThread') \subseteq Adrift(serving, vpnThread)
           /\ pc["B"] \notin {"establish", "conn_refused"} =>
                Adrift(open', conn') \subseteq Adrift(open, conn)]_vars
  <2> SUFFICES ASSUME IInv, DropInv, [Next]_vars, ~overlap'
               PROVE  /\ pc["B"] # "begin" => Adrift(serving', vpnThread') \subseteq Adrift(serving, vpnThread)
                      /\ pc["B"] \notin {"establish", "conn_refused"} =>
                           Adrift(open', conn') \subseteq Adrift(open, conn)
    OBVIOUS
  <2>1. TypeInv /\ \A t \in Threads : StoppedFirst(t)
    BY Remembered DEF IInv, DropInv
  <2>2. Handled
    <3>1. UNCHANGED <<vpnThread, serving, conn, open>> => Handled
      BY DEF Handled
    <3> QED BY <2>1, <3>1, HandledStop, HandledStart, HandledOutside DEF Next
  <2> QED BY <2>1, <2>2 DEF Handled, StoppedFirst, Adrift
<1> QED BY <1>1, <1>2, <1>3, Invariant, PTL DEF Spec, StopsBeforeDropping
=============================================================================
