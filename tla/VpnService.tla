----------------------------- MODULE VpnService -----------------------------
(***************************************************************************)
(* The VPN service: BaseService (the binder interface and the state) and   *)
(* ShadowsocksVpnService (startRunner, stopRunner and what they drive).    *)
(*                                                                         *)
(* Three threads run its code and take no lock.  "B" executes the oneway   *)
(* binder calls (start, stop, registerCallback, unregisterCallback), one   *)
(* at a time in the order they arrive.  "R" executes onRevoke, which runs  *)
(* stopRunner whatever B is doing.  The main looper executes the Runnables *)
(* that changeState posts: the field "state", which guards start and stop, *)
(* is written there and nowhere else, so it lags behind what B and R do.   *)
(*                                                                         *)
(* A daemon is here a reference the service holds and a flag for the child *)
(* it started; DaemonGuard is the detailed account of start() and          *)
(* destroy().  An exception that leaves startRunner or stopRunner ends the *)
(* call and nothing else: the binder drops it.                             *)
(***************************************************************************)
EXTENDS Integers, Sequences

CONSTANTS ClientOps,   \* the binder calls clients make
          MaxCalls,    \* bound: how many of them
          MaxRevokes,  \* bound: how many times the system revokes the VPN
          MaxFaults    \* bound: how many calls into the system fail

ASSUME ClientOpsAssumption ==
  ClientOps \subseteq {"start", "stop", "register", "unregister"}
ASSUME MaxCallsAssumption == MaxCalls \in Nat
ASSUME MaxRevokesAssumption == MaxRevokes \in Nat
ASSUME MaxFaultsAssumption == MaxFaults \in Nat

States == {"INIT", "CONNECTING", "CONNECTED", "STOPPING", "STOPPED"}
Threads == {"B", "R"}

\* The order of killProcesses.  No caller of startKcpTunnel is left, so the
\* reference to kcptun is always null.
KillOrder == <<"sslocal", "sstunnel", "tun2socks", "pdnsd", "kcptun">>
Daemons   == {"sslocal", "sstunnel", "tun2socks", "pdnsd", "kcptun"}

\* sendFd tries while tries < SendTries.
SendTries == 5

VARIABLES
  calls,      \* binder calls that have not been executed
  posts,      \* states posted to the main looper
  state,      \* the field state
  callback,   \* the field callback is not null
  notif,      \* the notification: the state it shows, or "none"
  runs,       \* calls of startRunner so far; the current one numbers its resources
  vpnThread,  \* the protect server the service refers to, 0 for null
  serving,    \* protect servers that were started and not stopped
  conn,       \* the VPN interface the service refers to, 0 for null
  open,       \* VPN interfaces that were established and not closed
  ref,        \* daemons the service holds a reference to
  up,         \* daemons whose child was started and not destroyed
  pc,         \* where B and R are
  op,         \* the call B executes
  resetting,  \* B is in the killProcesses of startRunner
  kill,       \* kill[t]: position of t in KillOrder
  ret,        \* where B goes on when stopRunner returns
  next,       \* the daemon B is about to start
  stopSelf,   \* stopSelf() was called
  tries,      \* the local variable of sendFd
  nCalls, nRevokes, nFaults,  \* what the bounds count
  aborted,    \* history: threads that an exception has stopped in a call
  overlap     \* history: onRevoke ran while B was in startRunner

lookVars  == <<posts, notif>>
connVars  == <<conn, open>>
protVars  == <<runs, vpnThread, serving>>
daemVars  == <<ref, up>>
bVars     == <<op, resetting, ret, next, tries>>
countVars == <<nCalls, nRevokes, nFaults>>
vars == <<calls, state, callback, lookVars, protVars, connVars, daemVars, pc, kill,
          bVars, stopSelf, countVars, aborted, overlap>>

KillPcs  == {"kill_check", "kill_use", "kill_null"}
StopPcs  == {"thread_check", "thread_use", "thread_null", "stopping", "show_stopping",
             "conn_check", "conn_use", "conn_null", "stop_self", "stopped", "show_stopped"}
StartPcs == {"begin", "connecting", "show_connecting", "resolve", "create", "if_set",
             "launch", "start_vpn", "show_vpn", "establish", "show_refused",
             "conn_refused", "if_conn", "get_fd", "send_fd", "connected",
             "show_connected", "failed", "show_failed"}
Pcs == {"idle"} \cup KillPcs \cup StopPcs \cup StartPcs

TypeOK ==
  /\ calls \in Seq(ClientOps)
  /\ posts \in Seq(States)
  /\ state \in States
  /\ callback \in BOOLEAN
  /\ notif \in States \cup {"none"}
  /\ runs \in 0..MaxCalls
  /\ vpnThread \in 0..runs
  /\ serving \subseteq 1..runs
  /\ conn \in 0..runs
  /\ open \subseteq 1..runs
  /\ ref \subseteq Daemons
  /\ up \subseteq Daemons
  /\ pc \in [Threads -> Pcs]
  /\ op \in {"none", "start", "stop"}
  /\ resetting \in BOOLEAN
  /\ kill \in [Threads -> 1..5]
  /\ ret \in {"idle", "failed"}
  /\ next \in Daemons \ {"kcptun"}
  /\ tries \in 1..SendTries
  /\ stopSelf \in BOOLEAN
  /\ nCalls \in 0..MaxCalls
  /\ nRevokes \in 0..MaxRevokes
  /\ nFaults \in 0..MaxFaults
  /\ aborted \subseteq Threads
  /\ overlap \in BOOLEAN

Init ==
  /\ calls = <<>>
  /\ posts = <<>>
  /\ state = "INIT"
  /\ callback = FALSE
  /\ notif = "none"
  /\ runs = 0
  /\ vpnThread = 0
  /\ serving = {}
  /\ conn = 0
  /\ open = {}
  /\ ref = {}
  /\ up = {}
  /\ pc = [t \in Threads |-> "idle"]
  /\ op = "none"
  /\ resetting = FALSE
  /\ kill = [t \in Threads |-> 1]
  /\ ret = "idle"
  /\ next = "sslocal"
  /\ tries = 1
  /\ stopSelf = FALSE
  /\ nCalls = 0
  /\ nRevokes = 0
  /\ nFaults = 0
  /\ aborted = {}
  /\ overlap = FALSE

-----------------------------------------------------------------------------
(* Building blocks.                                                        *)

Goto(t, l) == pc' = [pc EXCEPT ![t] = l]

\* The post goes to the front of the looper's queue.
ChangeStateMutant(s) == posts' = <<s>> \o posts /\ UNCHANGED notif

\* changeState(s) only posts.
ChangeState(s) == posts' = Append(posts, s) /\ UNCHANGED notif

\* showNotification(s) cancels the notification for STOPPED and shows one for every
\* other state.
ShowNotification(s) ==
  /\ notif' = IF s = "STOPPED" THEN "none" ELSE s
  /\ UNCHANGED posts

\* A call into the system fails, within the bound.
Fault ==
  /\ nFaults < MaxFaults
  /\ nFaults' = nFaults + 1

\* The call t executes is over: it returned, or an exception left it.
Leave(t) ==
  /\ Goto(t, "idle")
  /\ kill' = [kill EXCEPT ![t] = 1]
  /\ IF t = "B"
     THEN /\ op' = "none" /\ resetting' = FALSE /\ ret' = "idle"
          /\ next' = "sslocal" /\ tries' = 1
     ELSE UNCHANGED bVars

Abort(t) ==
  /\ Leave(t)
  /\ aborted' = aborted \cup {t}

\* A step of t that only moves on.
Proceed(t, l) == Goto(t, l) /\ UNCHANGED <<kill, bVars, aborted>>

\* What no step of startRunner and stopRunner touches.
Outside == UNCHANGED <<calls, state, callback, nCalls, nRevokes, overlap>>

-----------------------------------------------------------------------------
(* The binder interface, the looper and the system.                        *)

\* A client makes a oneway call: it is queued and the client goes on.
ClientCalls(c) ==
  /\ nCalls < MaxCalls
  /\ nCalls' = nCalls + 1
  /\ calls' = Append(calls, c)
  /\ UNCHANGED <<state, callback, lookVars, protVars, connVars, daemVars, pc, kill,
                 bVars, stopSelf, nRevokes, nFaults, aborted, overlap>>

\* start and stop test the field state, as the looper last wrote it.
Accepting == state \notin {"CONNECTING", "STOPPING"}

TakeCall(c) ==
  /\ pc["B"] = "idle"
  /\ calls # <<>> /\ Head(calls) = c
  /\ calls' = Tail(calls)
  /\ UNCHANGED <<state, lookVars, protVars, connVars, daemVars, kill, resetting, ret,
                 next, tries, stopSelf, countVars, aborted>>

Start ==
  /\ TakeCall("start")
  /\ Accepting
  /\ op' = "start"
  /\ Goto("B", "begin")
  /\ overlap' = (overlap \/ pc["R"] # "idle")
  /\ UNCHANGED callback

Stop ==
  /\ TakeCall("stop")
  /\ Accepting
  /\ op' = "stop"
  /\ Goto("B", "thread_check")
  /\ UNCHANGED <<callback, overlap>>

\* The call is dropped and the client is not told.
IgnoreCall ==
  /\ TakeCall("start") \/ TakeCall("stop")
  /\ ~Accepting
  /\ UNCHANGED <<callback, op, pc, overlap>>

RegisterCallback ==
  /\ \/ TakeCall("register") /\ callback' = TRUE
     \/ TakeCall("unregister") /\ callback' = FALSE
  /\ UNCHANGED <<op, pc, overlap>>

\* The looper runs the Runnable of changeState.
RunPosted ==
  /\ posts # <<>>
  /\ state' = Head(posts)
  /\ posts' = Tail(posts)
  /\ UNCHANGED <<calls, callback, notif, protVars, connVars, daemVars, pc, kill, bVars,
                 stopSelf, countVars, aborted, overlap>>

\* onRevoke(): another VPN takes over, or the user withdraws the permission.
OnRevoke ==
  /\ pc["R"] = "idle"
  /\ nRevokes < MaxRevokes
  /\ nRevokes' = nRevokes + 1
  /\ Goto("R", "thread_check")
  /\ overlap' = (overlap \/ op = "start")
  /\ UNCHANGED <<calls, state, callback, lookVars, protVars, connVars, daemVars, kill,
                 bVars, stopSelf, nCalls, nFaults, aborted>>

-----------------------------------------------------------------------------
(* killProcesses.                                                          *)

Target(t) == KillOrder[kill[t]]

\* On to the next daemon, or out of killProcesses.
KillAdvance(t) ==
  IF kill[t] < 5
  THEN /\ kill' = [kill EXCEPT ![t] = @ + 1]
       /\ Goto(t, "kill_check")
       /\ UNCHANGED <<bVars, aborted>>
  ELSE /\ kill' = [kill EXCEPT ![t] = 1]
       /\ IF t = "B" /\ resetting
          THEN Goto(t, "resolve") /\ resetting' = FALSE
          ELSE Goto(t, "conn_check") /\ UNCHANGED resetting
       /\ UNCHANGED <<op, ret, next, tries, aborted>>

KillCheck(t) ==
  /\ pc[t] = "kill_check"
  /\ IF Target(t) \in ref THEN Proceed(t, "kill_use") ELSE KillAdvance(t)
  /\ Outside /\ UNCHANGED <<lookVars, protVars, connVars, daemVars, stopSelf, nFaults>>

\* The reference is dropped without destroy().
KillUseMutant(t) ==
  /\ pc[t] = "kill_use"
  /\ IF Target(t) \in ref THEN Proceed(t, "kill_null") ELSE Abort(t)
  /\ Outside /\ UNCHANGED <<lookVars, protVars, connVars, daemVars, stopSelf, nFaults>>

\* The reference is read again: it throws if the other thread has dropped it.
KillUse(t) ==
  /\ pc[t] = "kill_use"
  /\ IF Target(t) \in ref
     THEN up' = up \ {Target(t)} /\ Proceed(t, "kill_null")
     ELSE UNCHANGED up /\ Abort(t)
  /\ Outside /\ UNCHANGED <<lookVars, protVars, connVars, ref, stopSelf, nFaults>>

KillNull(t) ==
  /\ pc[t] = "kill_null"
  /\ ref' = ref \ {Target(t)}
  /\ KillAdvance(t)
  /\ Outside /\ UNCHANGED <<lookVars, protVars, connVars, up, stopSelf, nFaults>>

-----------------------------------------------------------------------------
(* stopRunner, on either thread.                                           *)

ThreadCheck(t) ==
  /\ pc[t] = "thread_check"
  /\ Proceed(t, IF vpnThread # 0 THEN "thread_use" ELSE "stopping")
  /\ Outside /\ UNCHANGED <<lookVars, protVars, connVars, daemVars, stopSelf, nFaults>>

\* The server is dropped without stopThread().
ThreadUseMutant(t) ==
  /\ pc[t] = "thread_use"
  /\ IF vpnThread # 0 THEN Proceed(t, "thread_null") ELSE Abort(t)
  /\ Outside
  /\ UNCHANGED <<lookVars, protVars, connVars, daemVars, stopSelf, nFaults>>

ThreadUse(t) ==
  /\ pc[t] = "thread_use"
  /\ IF vpnThread # 0
     THEN serving' = serving \ {vpnThread} /\ Proceed(t, "thread_null")
     ELSE UNCHANGED serving /\ Abort(t)
  /\ Outside
  /\ UNCHANGED <<lookVars, runs, vpnThread, connVars, daemVars, stopSelf, nFaults>>

ThreadNull(t) ==
  /\ pc[t] = "thread_null"
  /\ vpnThread' = 0
  /\ Proceed(t, "stopping")
  /\ Outside
  /\ UNCHANGED <<lookVars, runs, serving, connVars, daemVars, stopSelf, nFaults>>

Stopping(t) ==
  /\ pc[t] = "stopping"
  /\ ChangeState("STOPPING")
  /\ Proceed(t, "show_stopping")
  /\ Outside /\ UNCHANGED <<protVars, connVars, daemVars, stopSelf, nFaults>>

ShowStopping(t) ==
  /\ pc[t] = "show_stopping"
  /\ ShowNotification("STOPPING")
  /\ Proceed(t, "kill_check")
  /\ Outside /\ UNCHANGED <<protVars, connVars, daemVars, stopSelf, nFaults>>

ConnCheck(t) ==
  /\ pc[t] = "conn_check"
  /\ Proceed(t, IF conn # 0 THEN "conn_use" ELSE "stop_self")
  /\ Outside /\ UNCHANGED <<lookVars, protVars, connVars, daemVars, stopSelf, nFaults>>

\* conn.close(): an IOException is printed and conn keeps its value.
ConnUse(t) ==
  /\ pc[t] = "conn_use"
  /\ \/ /\ conn # 0
        /\ open' = open \ {conn}
        /\ Proceed(t, "conn_null")
        /\ UNCHANGED nFaults
     \/ conn = 0 /\ Abort(t) /\ UNCHANGED <<open, nFaults>>
     \/ conn # 0 /\ Fault /\ Proceed(t, "stop_self") /\ UNCHANGED open
  /\ Outside /\ UNCHANGED <<lookVars, protVars, conn, daemVars, stopSelf>>

ConnNull(t) ==
  /\ pc[t] = "conn_null"
  /\ conn' = 0
  /\ Proceed(t, "stop_self")
  /\ Outside /\ UNCHANGED <<lookVars, protVars, open, daemVars, stopSelf, nFaults>>

\* BaseService counts no callbacks.
GetCallbackCount == -1

StopSelf(t) ==
  /\ pc[t] = "stop_self"
  /\ stopSelf' = (stopSelf \/ GetCallbackCount = 0)
  /\ Proceed(t, "stopped")
  /\ Outside /\ UNCHANGED <<lookVars, protVars, connVars, daemVars, nFaults>>

\* The last change of state is forgotten.
StoppedMutant(t) ==
  /\ pc[t] = "stopped"
  /\ Proceed(t, "show_stopped")
  /\ Outside /\ UNCHANGED <<lookVars, protVars, connVars, daemVars, stopSelf, nFaults>>

Stopped(t) ==
  /\ pc[t] = "stopped"
  /\ ChangeState("STOPPED")
  /\ Proceed(t, "show_stopped")
  /\ Outside /\ UNCHANGED <<protVars, connVars, daemVars, stopSelf, nFaults>>

\* stopRunner returns to its caller: the binder, onRevoke, or startVpn, which
\* returns -1, so that sendFd and handleConnection return false.
ShowStopped(t) ==
  /\ pc[t] = "show_stopped"
  /\ ShowNotification("STOPPED")
  /\ IF t = "B" /\ ret = "failed"
     THEN Proceed(t, "failed")
     ELSE Leave(t) /\ UNCHANGED aborted
  /\ Outside /\ UNCHANGED <<protVars, connVars, daemVars, stopSelf, nFaults>>

-----------------------------------------------------------------------------
(* startRunner, on B.                                                      *)

\* A new protect server thread; the one of an earlier start is not stopped.  The
\* assignment and start() are one step: only an onRevoke that overlaps this start
\* could come between them (stop the thread before it runs, or set the field to null,
\* so that start() throws), and no property speaks of such a run.
Begin ==
  /\ pc["B"] = "begin"
  /\ runs' = runs + 1
  /\ vpnThread' = runs + 1
  /\ serving' = serving \cup {runs + 1}
  /\ Proceed("B", "connecting")
  /\ Outside /\ UNCHANGED <<lookVars, connVars, daemVars, stopSelf, nFaults>>

Connecting ==
  /\ pc["B"] = "connecting"
  /\ ChangeState("CONNECTING")
  /\ Proceed("B", "show_connecting")
  /\ Outside /\ UNCHANGED <<protVars, connVars, daemVars, stopSelf, nFaults>>

ShowConnecting ==
  /\ pc["B"] = "show_connecting"
  /\ ShowNotification("CONNECTING")
  /\ resetting' = TRUE
  /\ Goto("B", "kill_check")
  /\ Outside /\ UNCHANGED <<protVars, connVars, daemVars, kill, op, ret, next, tries,
                            stopSelf, nFaults, aborted>>

\* resolve() returns null when the lookup finds nothing, and isEmpty() on it
\* throws; it never returns an empty string, so "resolved" is never FALSE.
Resolve ==
  /\ pc["B"] = "resolve"
  /\ \/ Proceed("B", "create") /\ UNCHANGED nFaults
     \/ Fault /\ Abort("B")
  /\ Outside /\ UNCHANGED <<lookVars, protVars, connVars, daemVars, stopSelf>>

\* startShadowsocksDaemon, startDnsDaemon, startDnsTunnel and the end of startVpn:
\* write the configuration (printToFile returns null when it cannot, and println
\* on it throws) and set the reference.
Create ==
  /\ pc["B"] = "create"
  /\ \/ ref' = ref \cup {next} /\ Proceed("B", "if_set") /\ UNCHANGED nFaults
     \/ next \in {"sslocal", "sstunnel"} /\ Fault /\ Abort("B") /\ UNCHANGED ref
  /\ Outside /\ UNCHANGED <<lookVars, protVars, connVars, up, stopSelf>>

\* What handleConnection and startVpn do after starting daemon "next".
Started ==
  /\ CASE next = "sslocal"   -> Goto("B", "create") /\ next' = "pdnsd"
       [] next = "pdnsd"     -> Goto("B", "create") /\ next' = "sstunnel"
       [] next = "sstunnel"  -> Goto("B", "start_vpn") /\ next' = "tun2socks"
       [] next = "tun2socks" -> Goto("B", "send_fd") /\ UNCHANGED next
  /\ UNCHANGED <<kill, op, resetting, ret, tries, aborted>>

IfSet ==
  /\ pc["B"] = "if_set"
  /\ IF next \in ref THEN Proceed("B", "launch") ELSE Started
  /\ Outside /\ UNCHANGED <<lookVars, protVars, connVars, daemVars, stopSelf, nFaults>>

\* start(): the guard thread runs the executable, or fails to, which nobody notices.
Launch ==
  /\ pc["B"] = "launch"
  /\ \/ next \in ref /\ up' = up \cup {next} /\ Started /\ UNCHANGED nFaults
     \/ next \in ref /\ Fault /\ Started /\ UNCHANGED up
     \/ next \notin ref /\ Abort("B") /\ UNCHANGED <<up, nFaults>>
  /\ Outside /\ UNCHANGED <<lookVars, protVars, connVars, ref, stopSelf>>

StartVpn ==
  /\ pc["B"] = "start_vpn"
  /\ ChangeState("CONNECTING")
  /\ Proceed("B", "show_vpn")
  /\ Outside /\ UNCHANGED <<protVars, connVars, daemVars, stopSelf, nFaults>>

ShowVpn ==
  /\ pc["B"] = "show_vpn"
  /\ ShowNotification("CONNECTING")
  /\ Proceed("B", "establish")
  /\ Outside /\ UNCHANGED <<protVars, connVars, daemVars, stopSelf, nFaults>>

\* establish() gives an interface, gives null (not prepared), or throws
\* IllegalStateException.  An earlier interface is not closed.
Establish ==
  /\ pc["B"] = "establish"
  /\ \/ /\ conn' = runs /\ open' = open \cup {runs}
        /\ Proceed("B", "if_conn")
        /\ UNCHANGED <<lookVars, nFaults>>
     \/ conn' = 0 /\ Fault /\ Proceed("B", "if_conn") /\ UNCHANGED <<open, lookVars>>
     \/ Fault /\ ChangeState("STOPPED") /\ Proceed("B", "show_refused") /\ UNCHANGED connVars
  /\ Outside /\ UNCHANGED <<protVars, daemVars, stopSelf>>

\* The handler of the exception goes on.
ShowRefused ==
  /\ pc["B"] = "show_refused"
  /\ ShowNotification("STOPPED")
  /\ Proceed("B", "conn_refused")
  /\ Outside /\ UNCHANGED <<protVars, connVars, daemVars, stopSelf, nFaults>>

ConnRefused ==
  /\ pc["B"] = "conn_refused"
  /\ conn' = 0
  /\ Proceed("B", "if_conn")
  /\ Outside /\ UNCHANGED <<lookVars, protVars, open, daemVars, stopSelf, nFaults>>

IfConn ==
  /\ pc["B"] = "if_conn"
  /\ IF conn = 0
     THEN Goto("B", "thread_check") /\ ret' = "failed"
     ELSE Goto("B", "get_fd") /\ UNCHANGED ret
  /\ Outside /\ UNCHANGED <<lookVars, protVars, connVars, daemVars, kill, op, resetting,
                            next, tries, stopSelf, nFaults, aborted>>

\* conn.getFd() throws when onRevoke has set conn to null or closed it.
GetFd ==
  /\ pc["B"] = "get_fd"
  /\ IF conn \in open THEN Proceed("B", "create") ELSE Abort("B")
  /\ Outside /\ UNCHANGED <<lookVars, protVars, connVars, daemVars, stopSelf, nFaults>>

\* One try too many.
SendFdBoundMutant ==
  /\ pc["B"] = "send_fd"
  /\ \/ "tun2socks" \in up /\ Goto("B", "connected") /\ UNCHANGED tries
     \/ tries' = tries + 1 /\ Goto("B", IF tries' <= SendTries THEN "send_fd" ELSE "failed")
  /\ Outside /\ UNCHANGED <<lookVars, protVars, connVars, daemVars, kill, op, resetting,
                            ret, next, stopSelf, nFaults, aborted>>

\* The result of the last try is ignored.
SendFdResultMutant ==
  /\ pc["B"] = "send_fd"
  /\ \/ "tun2socks" \in up /\ Goto("B", "connected") /\ UNCHANGED tries
     \/ tries' = tries + 1 /\ Goto("B", IF tries' < SendTries THEN "send_fd" ELSE "connected")
  /\ Outside /\ UNCHANGED <<lookVars, protVars, connVars, daemVars, kill, op, resetting,
                            ret, next, stopSelf, nFaults, aborted>>

\* The tries are not counted.
SendFdForeverMutant ==
  /\ pc["B"] = "send_fd"
  /\ \/ "tun2socks" \in up /\ Goto("B", "connected") /\ UNCHANGED tries
     \/ UNCHANGED <<tries, pc>>
  /\ Outside /\ UNCHANGED <<lookVars, protVars, connVars, daemVars, kill, op, resetting,
                            ret, next, stopSelf, nFaults, aborted>>

\* sendFd: the hand-over needs a tun2socks that listens by now.
SendFd ==
  /\ pc["B"] = "send_fd"
  /\ \/ "tun2socks" \in up /\ Goto("B", "connected") /\ UNCHANGED tries
     \/ tries' = tries + 1 /\ Goto("B", IF tries' < SendTries THEN "send_fd" ELSE "failed")
  /\ Outside /\ UNCHANGED <<lookVars, protVars, connVars, daemVars, kill, op, resetting,
                            ret, next, stopSelf, nFaults, aborted>>

Connected ==
  /\ pc["B"] = "connected"
  /\ ChangeState("CONNECTED")
  /\ Proceed("B", "show_connected")
  /\ Outside /\ UNCHANGED <<protVars, connVars, daemVars, stopSelf, nFaults>>

ShowConnected ==
  /\ pc["B"] = "show_connected"
  /\ ShowNotification("CONNECTED")
  /\ Leave("B")
  /\ Outside /\ UNCHANGED <<protVars, connVars, daemVars, stopSelf, nFaults, aborted>>

Failed ==
  /\ pc["B"] = "failed"
  /\ ChangeState("STOPPED")
  /\ Proceed("B", "show_failed")
  /\ Outside /\ UNCHANGED <<protVars, connVars, daemVars, stopSelf, nFaults>>

\* A start that fails does not call stopRunner.
ShowFailedMutant ==
  /\ pc["B"] = "show_failed"
  /\ ShowNotification("STOPPED")
  /\ Leave("B")
  /\ Outside /\ UNCHANGED <<protVars, connVars, daemVars, stopSelf, nFaults, aborted>>

\* stopRunner, also when startVpn has called it already.
ShowFailed ==
  /\ pc["B"] = "show_failed"
  /\ ShowNotification("STOPPED")
  /\ Goto("B", "thread_check")
  /\ ret' = "idle"
  /\ Outside /\ UNCHANGED <<protVars, connVars, daemVars, kill, op, resetting, next,
                            tries, stopSelf, nFaults, aborted>>

-----------------------------------------------------------------------------

StopStep(t) ==
  \/ KillCheck(t) \/ KillUse(t) \/ KillNull(t)
  \/ ThreadCheck(t) \/ ThreadUse(t) \/ ThreadNull(t)
  \/ Stopping(t) \/ ShowStopping(t)
  \/ ConnCheck(t) \/ ConnUse(t) \/ ConnNull(t) \/ StopSelf(t)
  \/ Stopped(t) \/ ShowStopped(t)

StartStep ==
  \/ Begin \/ Connecting \/ ShowConnecting \/ Resolve \/ Create \/ IfSet \/ Launch
  \/ StartVpn \/ ShowVpn \/ Establish \/ ShowRefused \/ ConnRefused \/ IfConn \/ GetFd
  \/ SendFd \/ Connected \/ ShowConnected \/ Failed \/ ShowFailed

BinderStep == Start \/ Stop \/ IgnoreCall \/ RegisterCallback

Next ==
  \/ \E c \in ClientOps : ClientCalls(c)
  \/ BinderStep
  \/ RunPosted
  \/ OnRevoke
  \/ \E t \in Threads : StopStep(t)
  \/ StartStep

\* B, R and the main looper run when they can.  Clients and the system are not
\* obliged to call.
Fairness ==
  /\ WF_vars(BinderStep) /\ WF_vars(StartStep)
  /\ \A t \in Threads : WF_vars(StopStep(t))
  /\ WF_vars(RunPosted)

Spec == Init /\ [][Next]_vars /\ Fairness

-----------------------------------------------------------------------------

\* Bound: a history in which a revocation ran into a start is followed for one
\* call and one revocation; the number of states grows with every interleaving.
ShortOverlap == overlap => nCalls <= 1 /\ nRevokes <= 1

\* No thread is in the service's code and the looper has run everything.
Settled == (\A t \in Threads : pc[t] = "idle") /\ posts = <<>>

\* The guard of start and stop never shuts the service off: whenever it is settled
\* and no exception has ended a call, the next call is accepted.  Every CONNECTING
\* and STOPPING that B or R posts is followed by a CONNECTED or STOPPED of the same
\* thread, in whatever order the two threads post (BaseService.java:33,39,70).
CallsAccepted == Settled /\ aborted = {} => Accepting

\* A daemon that runs can be reached through the service's reference, and so be
\* killed: also when B and R run killProcesses together and when a call ends with
\* an exception (ShadowsocksVpnService.java:78-80,235-256).
DaemonsReachable == ~overlap => up \subseteq ref

\* CONNECTED is the truth: the interface of the latest start and a protect server
\* are there, all four daemons are held, tun2socks was handed the interface, and the
\* notification says the same (ShadowsocksVpnService.java:294-296).
ConnectedIsWhole ==
  Settled /\ ~overlap /\ aborted = {} /\ state = "CONNECTED" =>
    /\ conn = runs /\ conn \in open
    /\ vpnThread \in serving
    /\ ref = Daemons \ {"kcptun"}
    /\ "tun2socks" \in up
    /\ notif = "CONNECTED"

\* STOPPED is the truth: no daemon runs, nothing is held, and the notification is
\* gone, whichever of stop, onRevoke and a failed start stopped the service, and
\* when two of them did (ShadowsocksVpnService.java:297-300,325-355).
StoppedIsClean ==
  Settled /\ ~overlap /\ aborted = {} /\ state = "STOPPED" =>
    /\ up = {} /\ ref = {}
    /\ vpnThread = 0
    /\ conn = 0 \/ nFaults > 0
    /\ notif = "none"

\* Clients see CONNECTED only after CONNECTING, although the two are posted by a
\* thread that does not wait for the looper (BaseService.java:72-80).
ConnectedAfterConnecting ==
  [][~overlap /\ state # "CONNECTED" /\ state' = "CONNECTED" => state = "CONNECTING"]_vars

\* What runs and the service does not refer to.
Adrift(running, held) == running \ {held}

\* The service gives up a reference only to what it has stopped: stopThread() and
\* close() are tested, called and followed by null without a lock, on two threads,
\* and an exception or a failed close() may come between.  Only a start that
\* replaces a server or an interface leaves one adrift
\* (ShadowsocksVpnService.java:267,148,326-329,336-343).
StopsBeforeDropping ==
  [][~overlap' =>
       /\ pc["B"] # "begin" => Adrift(serving', vpnThread') \subseteq Adrift(serving, vpnThread)
       /\ pc["B"] \notin {"establish", "conn_refused"} =>
            Adrift(open', conn') \subseteq Adrift(open, conn)]_vars

\* The service uses its daemons as they may be used: a child is started only through
\* a reference that is held, no kill drops the reference to a child that runs, and a
\* start never meets a child that was out of reach, whichever threads kill and
\* wherever an exception ends a call (ShadowsocksVpnService.java:78-81,235-256).
D == INSTANCE Daemon
UsesDaemons == D!Spec

\* Once the calls end, the service comes to rest in a state that accepts calls,
\* unless an exception ended one: sendFd gives up, stopRunner returns, and the
\* looper catches up (ShadowsocksVpnService.java:189-205).
ComesToRest == <>[](Settled /\ calls = <<>> /\ (Accepting \/ aborted # {}))

\* "Disconnect the connected VPN or cancel the connection attempt?" (strings.xml:4):
\* a stop made while the service is connecting takes it out of CONNECTING.
StopCancels ==
  (calls # <<>> /\ Head(calls) = "stop" /\ state = "CONNECTING") ~> state # "CONNECTING"
=============================================================================
