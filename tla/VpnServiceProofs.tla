-------------------------- MODULE VpnServiceProofs --------------------------
(***************************************************************************)
(* Proofs about VpnService, for any number of calls, revocations and       *)
(* faults.                                                                 *)
(***************************************************************************)
EXTENDS VpnService, SequenceTheorems, TLAPS

\* Every start that was made, is queued or is about to begin came from a client.
RunsCounted ==
  runs + Len(calls) + (IF pc["B"] = "begin" THEN 1 ELSE 0) <= nCalls

\* Past its first step, startRunner has numbered its resources.
RunsBegun == op = "start" /\ pc["B"] # "begin" => runs > 0

\* sendFd begins with its first try and never makes a fifth.
TriesCounted ==
  /\ resetting => tries = 1
  /\ pc["B"] \in ({"idle"} \cup StartPcs)
                    \ {"send_fd", "connected", "failed", "show_connected", "show_failed"}
       => tries = 1
  /\ pc["B"] = "send_fd" => tries < SendTries

\* Where B can be in startRunner.
OpKnown ==
  /\ pc["B"] \in StartPcs \/ resetting \/ ret = "failed" => op = "start"
  /\ op = "start" => pc["B"] # "idle"
  /\ resetting => pc["B"] \in KillPcs

\* onRevoke runs only in onRevoke.
RevokeKnown == pc["R"] \notin StartPcs

Control == RunsCounted /\ RunsBegun /\ TriesCounted /\ OpKnown /\ RevokeKnown

TypeInv == TypeOK /\ Control

\* What state will be once the looper has run everything.
Latest == IF posts = <<>> THEN state ELSE posts[Len(posts)]

Transitional == {"CONNECTING", "STOPPING"}

\* A thread that will post nothing more in the call it executes.
Final == {"idle", "show_stopped", "show_connected"}

\* A transitional state is the last word only while some thread has more to say.
LastWord == Latest \in Transitional => aborted # {} \/ \E t \in Threads : pc[t] \notin Final

\* A kill has destroyed what it is about to drop.
DestroyedFirst == \A t \in Threads : pc[t] = "kill_null" => Target(t) \notin up

ReachInv ==
  ~overlap =>
    /\ op = "start" => pc["R"] = "idle"
    /\ DestroyedFirst
    /\ up \subseteq ref

IInv == TypeInv /\ LastWord /\ ReachInv
-----------------------------------------------------------------------------

USE ClientOpsAssumption, MaxCallsAssumption, MaxRevokesAssumption, MaxFaultsAssumption

\* TypeOK in two parts: what the threads keep for themselves, and the rest.
LocalOK ==
  /\ pc \in [Threads -> Pcs]
  /\ op \in {"none", "start", "stop"}
  /\ resetting \in BOOLEAN
  /\ kill \in [Threads -> 1..5]
  /\ ret \in {"idle", "failed"}
  /\ next \in Daemons \ {"kcptun"}
  /\ tries \in 1..SendTries
  /\ aborted \subseteq Threads

SharedOK ==
  /\ calls \in Seq(ClientOps)
  /\ posts \in Seq(States)
  /\ state \in States
  /\ callback \in BOOLEAN
  /\ notif \in States \cup {"none"}
  /\ runs \in 0..MaxCalls
  /\ vpnThread \in 0..runs
  /\ serving \subseteq 1..runs
  /\ conn \in 0..runs
  /\ open \subseteq 1..runs
  /\ ref \subseteq Daemons
  /\ up \subseteq Daemons
  /\ stopSelf \in BOOLEAN
  /\ nCalls \in 0..MaxCalls
  /\ nRevokes \in 0..MaxRevokes
  /\ nFaults \in 0..MaxFaults
  /\ overlap \in BOOLEAN

LEMMA TypeParts == (TypeOK <=> LocalOK /\ SharedOK) /\ (TypeOK' <=> LocalOK' /\ SharedOK')
BY DEF TypeOK, LocalOK, SharedOK

LEMMA PcsFacts ==
  /\ \A l \in KillPcs \cup StopPcs \cup StartPcs \cup {"idle"} : l \in Pcs
  /\ "kill_check" \in Pcs /\ "kill_use" \in Pcs /\ "kill_null" \in Pcs
  /\ "thread_check" \in Pcs /\ "thread_use" \in Pcs /\ "thread_null" \in Pcs
  /\ "stopping" \in Pcs /\ "conn_check" \in Pcs /\ "conn_use" \in Pcs
  /\ "conn_null" \in Pcs /\ "stop_self" \in Pcs /\ "stopped" \in Pcs
  /\ "begin" \in Pcs /\ "connecting" \in Pcs /\ "resolve" \in Pcs
  /\ "create" \in Pcs /\ "if_set" \in Pcs /\ "launch" \in Pcs
  /\ "start_vpn" \in Pcs /\ "establish" \in Pcs /\ "show_stopping" \in Pcs
  /\ "show_stopped" \in Pcs /\ "show_connecting" \in Pcs /\ "show_vpn" \in Pcs
  /\ "show_refused" \in Pcs /\ "conn_refused" \in Pcs /\ "show_connected" \in Pcs
  /\ "show_failed" \in Pcs /\ "if_conn" \in Pcs
  /\ "get_fd" \in Pcs /\ "send_fd" \in Pcs /\ "connected" \in Pcs
  /\ "failed" \in Pcs /\ "idle" \in Pcs
BY DEF Pcs, KillPcs, StopPcs, StartPcs

LEMMA TypeInit == Init => TypeInv
<1> SUFFICES ASSUME Init PROVE TypeInv
  OBVIOUS
<1>1. calls \in Seq(ClientOps) /\ posts \in Seq(States) /\ Len(calls) = 0
  BY DEF Init
<1>2. pc \in [Threads -> Pcs] /\ kill \in [Threads -> 1..5]
  BY PcsFacts DEF Init
<1>3. pc["B"] = "idle" /\ pc["R"] = "idle"
  BY DEF Init, Threads
<1>4. /\ runs \in 0..MaxCalls /\ vpnThread \in 0..runs /\ conn \in 0..runs
      /\ nCalls \in 0..MaxCalls /\ nRevokes \in 0..MaxRevokes /\ nFaults \in 0..MaxFaults
      /\ serving \subseteq 1..runs /\ open \subseteq 1..runs /\ tries \in 1..SendTries
  BY DEF Init, SendTries
<1>5. /\ state \in States /\ notif \in States \cup {"none"}
      /\ op \in {"none", "start", "stop"} /\ ret \in {"idle", "failed"}
      /\ next \in Daemons \ {"kcptun"}
  BY DEF Init, States, Daemons
<1>6. TypeOK
  BY <1>1, <1>2, <1>4, <1>5 DEF Init, TypeOK
<1>7. RunsCounted
  BY <1>1, <1>3 DEF Init, RunsCounted
<1>8. RunsBegun /\ TriesCounted /\ OpKnown /\ RevokeKnown
  BY <1>3 DEF Init, RunsBegun, TriesCounted, OpKnown, RevokeKnown, StartPcs
<1> QED BY <1>6, <1>7, <1>8 DEF TypeInv, Control

LEMMA LocalProceed ==
  ASSUME LocalOK, NEW t \in Threads, NEW l \in Pcs, Proceed(t, l)
  PROVE  LocalOK'
BY DEF LocalOK, Proceed, Goto, bVars

LEMMA LocalLeave ==
  ASSUME LocalOK, NEW t \in Threads, Leave(t), aborted' \subseteq Threads
  PROVE  LocalOK'
<1>1. pc' \in [Threads -> Pcs] /\ kill' \in [Threads -> 1..5]
  BY PcsFacts DEF LocalOK, Leave, Goto
<1>2. CASE t = "B"
  BY <1>1, <1>2 DEF LocalOK, Leave, Daemons, SendTries
<1>3. CASE t # "B"
  BY <1>1, <1>3 DEF LocalOK, Leave, bVars
<1> QED BY <1>2, <1>3

LEMMA LocalAbort ==
  ASSUME LocalOK, NEW t \in Threads, Abort(t)
  PROVE  LocalOK'
<1>1. aborted' \subseteq Threads
  BY DEF Abort, LocalOK
<1> QED BY <1>1, LocalLeave DEF Abort

LEMMA LocalKill ==
  ASSUME LocalOK, NEW t \in Threads, KillAdvance(t)
  PROVE  LocalOK'
<1>1. CASE kill[t] < 5
  BY <1>1, PcsFacts DEF KillAdvance, LocalOK, Goto, bVars
<1>2. CASE ~(kill[t] < 5) /\ t = "B" /\ resetting
  <2>1. /\ pc' = [pc EXCEPT ![t] = "resolve"] /\ kill' = [kill EXCEPT ![t] = 1]
        /\ resetting' = FALSE /\ UNCHANGED <<op, ret, next, tries, aborted>>
    BY <1>2 DEF KillAdvance, Goto
  <2>2. pc' \in [Threads -> Pcs]
    BY <2>1, PcsFacts DEF LocalOK
  <2>3. kill' \in [Threads -> 1..5]
    BY <2>1 DEF LocalOK
  <2>4. resetting' \in BOOLEAN
    BY <2>1
  <2> QED BY <2>1, <2>2, <2>3, <2>4 DEF LocalOK
<1>3. CASE ~(kill[t] < 5) /\ ~(t = "B" /\ resetting)
  BY <1>3, PcsFacts DEF KillAdvance, LocalOK, Goto
<1> QED BY <1>1, <1>2, <1>3

LEMMA LocalStarted ==
  ASSUME LocalOK, Started
  PROVE  LocalOK'
<1>1. next \in {"sslocal", "pdnsd", "sstunnel", "tun2socks"} /\ "B" \in Threads
  BY DEF LocalOK, Daemons, Threads
<1>2. next' \in Daemons \ {"kcptun"}
  BY <1>1 DEF Started, Daemons
<1>3. pc' \in [Threads -> Pcs]
  BY <1>1, PcsFacts, ZenonT(30) DEF Started, LocalOK, Goto
<1> QED BY <1>2, <1>3 DEF Started, LocalOK

LEMMA TypeClient ==
  ASSUME TypeInv, NEW c \in ClientOps, ClientCalls(c)
  PROVE  TypeOK'
<1> USE DEF TypeInv, TypeOK, Threads, Goto,
            lookVars, protVars, connVars, daemVars, bVars, countVars
<1>1. CASE ClientCalls(c) BY <1>1 DEF ClientCalls
<1> QED BY <1>1 DEF BinderStep

LEMMA TypeBinder ==
  ASSUME TypeInv, BinderStep \/ RunPosted \/ OnRevoke
  PROVE  TypeOK'
<1> USE DEF TypeInv, TypeOK, Threads, Goto, TakeCall,
            lookVars, protVars, connVars, daemVars, bVars, countVars
<1>1. CASE Start
  <2>1. /\ calls' \in Seq(ClientOps) /\ callback' \in BOOLEAN /\ pc' \in [Threads -> Pcs]
        /\ op' \in {"none", "start", "stop"} /\ overlap' \in BOOLEAN
    BY <1>1, PcsFacts DEF Start
  <2>2. UNCHANGED <<state, lookVars, protVars, connVars, daemVars, kill, resetting, ret,
                    next, tries, stopSelf, countVars, aborted>>
    BY <1>1 DEF Start
  <2> QED BY <2>1, <2>2
<1>2. CASE Stop
  <2>1. /\ calls' \in Seq(ClientOps) /\ callback' \in BOOLEAN /\ pc' \in [Threads -> Pcs]
        /\ op' \in {"none", "start", "stop"} /\ overlap' \in BOOLEAN
    BY <1>2, PcsFacts DEF Stop
  <2>2. UNCHANGED <<state, lookVars, protVars, connVars, daemVars, kill, resetting, ret,
                    next, tries, stopSelf, countVars, aborted>>
    BY <1>2 DEF Stop
  <2> QED BY <2>1, <2>2
<1>3. CASE IgnoreCall
  <2>1. TakeCall("start") \/ TakeCall("stop")
    BY <1>3 DEF IgnoreCall
  <2>2. UNCHANGED <<callback, op, pc, overlap>>
    BY <1>3 DEF IgnoreCall
  <2>3. calls' = Tail(calls) /\ calls # <<>>
    BY <2>1
  <2>4. UNCHANGED <<state, lookVars, protVars, connVars, daemVars, kill, resetting, ret,
                    next, tries, stopSelf, countVars, aborted>>
    BY <2>1
  <2> QED BY <2>2, <2>3, <2>4
<1>4. CASE RegisterCallback
  <2>1. TakeCall("register") \/ TakeCall("unregister")
    BY <1>4 DEF RegisterCallback
  <2>2. UNCHANGED <<op, pc, overlap>> /\ callback' \in BOOLEAN
    BY <1>4 DEF RegisterCallback
  <2>3. calls' = Tail(calls) /\ calls # <<>>
    BY <2>1
  <2>4. UNCHANGED <<state, lookVars, protVars, connVars, daemVars, kill, resetting, ret,
                    next, tries, stopSelf, countVars, aborted>>
    BY <2>1
  <2> QED BY <2>2, <2>3, <2>4
<1>5. CASE RunPosted BY <1>5 DEF RunPosted
<1>6. CASE OnRevoke
  BY <1>6, PcsFacts DEF OnRevoke
<1> QED BY <1>1, <1>2, <1>3, <1>4, <1>5, <1>6 DEF BinderStep

LEMMA TypeStop ==
  ASSUME TypeInv, NEW t \in Threads, StopStep(t)
  PROVE  TypeOK'
<1>0. LocalOK /\ SharedOK /\ "B" \in Threads
  BY TypeParts DEF TypeInv, Threads
<1> USE <1>0 DEF Outside, ChangeState, ShowNotification, Fault, States, lookVars, protVars,
            connVars, daemVars, bVars, countVars
<1>1. CASE KillCheck(t)
  <2>1. LocalOK'
    <3>1. CASE Target(t) \in ref
      BY <3>1, <1>1, PcsFacts, LocalProceed DEF KillCheck
    <3>2. CASE Target(t) \notin ref
      BY <3>2, <1>1, LocalKill DEF KillCheck
    <3> QED BY <3>1, <3>2
  <2>2. SharedOK'
    BY <1>1 DEF KillCheck, SharedOK
  <2> QED BY <2>1, <2>2, TypeParts
<1>2. CASE KillUse(t)
  <2>1. LocalOK'
    BY <1>2, PcsFacts, LocalProceed, LocalAbort DEF KillUse
  <2>2. SharedOK'
    BY <1>2 DEF KillUse, SharedOK
  <2> QED BY <2>1, <2>2, TypeParts
<1>3. CASE KillNull(t)
  <2>1. LocalOK'
    BY <1>3, LocalKill DEF KillNull
  <2>2. SharedOK'
    BY <1>3 DEF KillNull, SharedOK
  <2> QED BY <2>1, <2>2, TypeParts
<1>4. CASE ThreadCheck(t)
  <2>1. LocalOK'
    BY <1>4, PcsFacts, LocalProceed DEF ThreadCheck
  <2>2. SharedOK'
    BY <1>4 DEF ThreadCheck, SharedOK
  <2> QED BY <2>1, <2>2, TypeParts
<1>5. CASE ThreadUse(t)
  <2>1. LocalOK'
    BY <1>5, PcsFacts, LocalProceed, LocalAbort DEF ThreadUse
  <2>2. SharedOK'
    BY <1>5 DEF ThreadUse, SharedOK
  <2> QED BY <2>1, <2>2, TypeParts
<1>6. CASE ThreadNull(t)
  <2>1. LocalOK'
    BY <1>6, PcsFacts, LocalProceed DEF ThreadNull
  <2>2. SharedOK'
    BY <1>6 DEF ThreadNull, SharedOK
  <2> QED BY <2>1, <2>2, TypeParts
<1>7. CASE Stopping(t)
  <2>1. LocalOK'
    BY <1>7, PcsFacts, LocalProceed DEF Stopping
  <2>2. SharedOK'
    BY <1>7 DEF Stopping, SharedOK
  <2> QED BY <2>1, <2>2, TypeParts
<1>8. CASE ConnCheck(t)
  <2>1. LocalOK'
    BY <1>8, PcsFacts, LocalProceed DEF ConnCheck
  <2>2. SharedOK'
    BY <1>8 DEF ConnCheck, SharedOK
  <2> QED BY <2>1, <2>2, TypeParts
<1>9. CASE ConnUse(t)
  <2>1. LocalOK'
    BY <1>9, PcsFacts, LocalProceed, LocalAbort DEF ConnUse
  <2>0. open \subseteq 1..runs /\ nFaults \in 0..MaxFaults
    BY DEF SharedOK
  <2>a. /\ open' = open \/ open' = open \ {conn}
        /\ nFaults' = nFaults \/ (nFaults < MaxFaults /\ nFaults' = nFaults + 1)
    BY <1>9 DEF ConnUse
  <2>b. open' \subseteq 1..runs
    BY <2>0, <2>a
  <2>2. nFaults' \in 0..MaxFaults
    BY <2>0, <2>a
  <2>3. /\ UNCHANGED <<lookVars, protVars, conn, daemVars, stopSelf>>
        /\ UNCHANGED <<calls, state, callback, nCalls, nRevokes, overlap>>
    BY <1>9 DEF ConnUse
  <2>4. SharedOK'
    BY <2>b, <2>2, <2>3 DEF SharedOK
  <2> QED BY <2>1, <2>4, TypeParts
<1>10. CASE ConnNull(t)
  <2>1. LocalOK'
    BY <1>10, PcsFacts, LocalProceed DEF ConnNull
  <2>2. SharedOK'
    BY <1>10 DEF ConnNull, SharedOK
  <2> QED BY <2>1, <2>2, TypeParts
<1>11. CASE StopSelf(t)
  <2>1. LocalOK'
    BY <1>11, PcsFacts, LocalProceed DEF StopSelf
  <2>2. SharedOK'
    BY <1>11 DEF StopSelf, SharedOK
  <2> QED BY <2>1, <2>2, TypeParts
<1>12. CASE Stopped(t)
  <2>1. LocalOK'
    BY <1>12, PcsFacts, LocalProceed DEF Stopped
  <2>2. SharedOK'
    BY <1>12 DEF Stopped, SharedOK
  <2> QED BY <2>1, <2>2, TypeParts
<1>13. CASE ShowStopping(t)
  <2>1. LocalOK'
    BY <1>13, PcsFacts, LocalProceed DEF ShowStopping
  <2>2. SharedOK'
    BY <1>13 DEF ShowStopping, SharedOK
  <2> QED BY <2>1, <2>2, TypeParts
<1>14. CASE ShowStopped(t)
  <2>1. LocalOK'
    <3>1. CASE t = "B" /\ ret = "failed"
      BY <3>1, <1>14, PcsFacts, LocalProceed DEF ShowStopped
    <3>2. CASE ~(t = "B" /\ ret = "failed")
      <4>1. aborted' \subseteq Threads
        BY <3>2, <1>14 DEF ShowStopped, LocalOK
      <4> QED BY <3>2, <4>1, <1>14, LocalLeave DEF ShowStopped
    <3> QED BY <3>1, <3>2
  <2>2. SharedOK'
    BY <1>14 DEF ShowStopped, SharedOK
  <2> QED BY <2>1, <2>2, TypeParts
<1> QED BY <1>1, <1>2, <1>3, <1>4, <1>5, <1>6, <1>7, <1>8, <1>9, <1>10, <1>11,
          <1>12, <1>13, <1>14 DEF StopStep

LEMMA TypeStart ==
  ASSUME TypeInv, StartStep
  PROVE  TypeOK'
<1>0. LocalOK /\ SharedOK /\ "B" \in Threads
  BY TypeParts DEF TypeInv, Threads
<1> USE <1>0 DEF Outside, ChangeState, ShowNotification, Fault, States, lookVars, protVars,
            connVars, daemVars, bVars, countVars
<1>1. CASE Begin
  <2>1. LocalOK'
    BY <1>1, PcsFacts, LocalProceed DEF Begin
  <2>2. SharedOK'
    BY <1>1 DEF Begin, SharedOK, TypeInv, Control, RunsCounted
  <2> QED BY <2>1, <2>2, TypeParts
<1>2. CASE Connecting
  <2>1. LocalOK'
    BY <1>2, PcsFacts, LocalProceed DEF Connecting
  <2>2. SharedOK'
    BY <1>2 DEF Connecting, SharedOK
  <2> QED BY <2>1, <2>2, TypeParts
<1>3. CASE Resolve
  <2>1. LocalOK'
    BY <1>3, PcsFacts, LocalProceed, LocalAbort DEF Resolve
  <2>2. SharedOK'
    BY <1>3 DEF Resolve, SharedOK
  <2> QED BY <2>1, <2>2, TypeParts
<1>4. CASE Create
  <2>1. LocalOK'
    BY <1>4, PcsFacts, LocalProceed, LocalAbort DEF Create
  <2>2. SharedOK'
    BY <1>4 DEF Create, SharedOK, LocalOK
  <2> QED BY <2>1, <2>2, TypeParts
<1>5. CASE IfSet
  <2>1. LocalOK'
    BY <1>5, PcsFacts, LocalProceed, LocalStarted DEF IfSet
  <2>2. SharedOK'
    BY <1>5 DEF IfSet, SharedOK
  <2> QED BY <2>1, <2>2, TypeParts
<1>6. CASE Launch
  <2>1. LocalOK'
    BY <1>6, LocalStarted, LocalAbort DEF Launch
  <2>2. SharedOK'
    BY <1>6 DEF Launch, SharedOK, LocalOK
  <2> QED BY <2>1, <2>2, TypeParts
<1>7. CASE StartVpn
  <2>1. LocalOK'
    BY <1>7, PcsFacts, LocalProceed DEF StartVpn
  <2>2. SharedOK'
    BY <1>7 DEF StartVpn, SharedOK
  <2> QED BY <2>1, <2>2, TypeParts
<1>8. CASE Establish
  <2>1. LocalOK'
    BY <1>8, PcsFacts, LocalProceed DEF Establish
  <2>0. /\ open \subseteq 1..runs /\ conn \in 0..runs /\ nFaults \in 0..MaxFaults
        /\ runs \in Nat
    BY DEF SharedOK
  <2>a. runs > 0
    BY <2>0, <1>8 DEF Establish, TypeInv, Control, RunsBegun, OpKnown, StartPcs
  <2>b. /\ open' = open \/ open' = open \cup {runs}
        /\ conn' = 0 \/ conn' = runs \/ conn' = conn
        /\ nFaults' = nFaults \/ (nFaults < MaxFaults /\ nFaults' = nFaults + 1)
    BY <1>8 DEF Establish
  <2>c. conn' \in 0..runs
    BY <2>0, <2>a, <2>b
  <2>d. open' \subseteq 1..runs
    <3>1. runs \in 1..runs
      BY <2>0, <2>a
    <3> QED BY <3>1, <2>0, <2>b
  <2>2. nFaults' \in 0..MaxFaults
    BY <2>0, <2>b
  <2>3. posts' \in Seq(States) /\ notif' \in States \cup {"none"}
    BY <1>8, SMTT(20) DEF Establish, SharedOK
  <2>4. /\ UNCHANGED <<protVars, daemVars, stopSelf>>
        /\ UNCHANGED <<calls, state, callback, nCalls, nRevokes, overlap>>
    BY <1>8 DEF Establish
  <2>5. SharedOK'
    BY <2>c, <2>d, <2>2, <2>3, <2>4 DEF SharedOK
  <2> QED BY <2>1, <2>5, TypeParts
<1>9. CASE IfConn
  <2>1. LocalOK'
    BY <1>9, PcsFacts DEF IfConn, LocalOK, Goto
  <2>2. SharedOK'
    BY <1>9 DEF IfConn, SharedOK
  <2> QED BY <2>1, <2>2, TypeParts
<1>10. CASE GetFd
  <2>1. LocalOK'
    BY <1>10, PcsFacts, LocalProceed, LocalAbort DEF GetFd
  <2>2. SharedOK'
    BY <1>10 DEF GetFd, SharedOK
  <2> QED BY <2>1, <2>2, TypeParts
<1>11. CASE SendFd
  <2>1. LocalOK'
    BY <1>11, PcsFacts DEF SendFd, LocalOK, Goto, TypeInv, Control, TriesCounted, SendTries
  <2>2. SharedOK'
    BY <1>11 DEF SendFd, SharedOK
  <2> QED BY <2>1, <2>2, TypeParts
<1>12. CASE Connected
  <2>1. LocalOK'
    BY <1>12, PcsFacts, LocalProceed DEF Connected
  <2>2. SharedOK'
    BY <1>12 DEF Connected, SharedOK
  <2> QED BY <2>1, <2>2, TypeParts
<1>13. CASE Failed
  <2>1. LocalOK'
    BY <1>13, PcsFacts, LocalProceed DEF Failed
  <2>2. SharedOK'
    BY <1>13 DEF Failed, SharedOK
  <2> QED BY <2>1, <2>2, TypeParts
<1>14. CASE ShowConnecting
  <2>1. LocalOK'
    BY <1>14, PcsFacts DEF ShowConnecting, LocalOK, Goto
  <2>2. SharedOK'
    BY <1>14 DEF ShowConnecting, SharedOK
  <2> QED BY <2>1, <2>2, TypeParts
<1>15. CASE ShowVpn
  <2>1. LocalOK'
    BY <1>15, PcsFacts, LocalProceed DEF ShowVpn
  <2>2. SharedOK'
    BY <1>15 DEF ShowVpn, SharedOK
  <2> QED BY <2>1, <2>2, TypeParts
<1>16. CASE ShowRefused
  <2>1. LocalOK'
    BY <1>16, PcsFacts, LocalProceed DEF ShowRefused
  <2>2. SharedOK'
    BY <1>16 DEF ShowRefused, SharedOK
  <2> QED BY <2>1, <2>2, TypeParts
<1>17. CASE ConnRefused
  <2>1. LocalOK'
    BY <1>17, PcsFacts, LocalProceed DEF ConnRefused
  <2>2. SharedOK'
    BY <1>17 DEF ConnRefused, SharedOK
  <2> QED BY <2>1, <2>2, TypeParts
<1>18. CASE ShowConnected
  <2>1. LocalOK'
    BY <1>18, LocalLeave DEF ShowConnected, LocalOK
  <2>2. SharedOK'
    BY <1>18 DEF ShowConnected, SharedOK
  <2> QED BY <2>1, <2>2, TypeParts
<1>19. CASE ShowFailed
  <2>1. LocalOK'
    BY <1>19, PcsFacts DEF ShowFailed, LocalOK, Goto
  <2>2. SharedOK'
    BY <1>19 DEF ShowFailed, SharedOK
  <2> QED BY <2>1, <2>2, TypeParts
<1> QED BY <1>1, <1>2, <1>3, <1>4, <1>5, <1>6, <1>7, <1>8, <1>9, <1>10, <1>11,
          <1>12, <1>13, <1>14, <1>15, <1>16, <1>17, <1>18, <1>19 DEF StartStep

LEMMA StartedMoves ==
  ASSUME LocalOK, Started
  PROVE  /\ pc'["B"] \in {"create", "start_vpn", "send_fd"}
         /\ pc'["R"] = pc["R"]
         /\ UNCHANGED <<kill, op, resetting, ret, tries, aborted>>
<1>1. next \in {"sslocal", "pdnsd", "sstunnel", "tun2socks"} /\ "B" \in Threads
  BY DEF LocalOK, Daemons, Threads
<1>2. \E l \in {"create", "start_vpn", "send_fd"} : pc' = [pc EXCEPT !["B"] = l]
  BY <1>1 DEF Started, Goto
<1>3. pc'["B"] \in {"create", "start_vpn", "send_fd"} /\ pc'["R"] = pc["R"]
  BY <1>2 DEF LocalOK, Threads
<1> QED BY <1>3 DEF Started

LEMMA CtrlClient ==
  ASSUME TypeInv, NEW c \in ClientOps, ClientCalls(c)
  PROVE  Control'
<1>0. LocalOK /\ Control /\ runs \in Nat /\ nCalls \in Nat /\ Len(calls) \in Nat
  BY TypeParts DEF TypeInv, Control, SharedOK
<1> USE <1>0 DEF Control, LocalOK, RunsCounted, RunsBegun, TriesCounted, OpKnown,
            RevokeKnown, Threads, KillPcs, StopPcs, StartPcs, SendTries,
            lookVars, protVars, connVars, daemVars, bVars, countVars
<1>1. CASE ClientCalls(c)
  <2>1. Len(calls') = Len(calls) + 1
    BY <1>1, TypeParts DEF ClientCalls, TypeInv, SharedOK
  <2> QED BY <1>1, <2>1 DEF ClientCalls
<1> QED BY <1>1 DEF BinderStep

LEMMA CtrlBinder ==
  ASSUME TypeInv, BinderStep \/ RunPosted \/ OnRevoke
  PROVE  Control'
<1>0. LocalOK /\ Control /\ runs \in Nat /\ nCalls \in Nat /\ Len(calls) \in Nat
  BY TypeParts DEF TypeInv, Control, SharedOK
<1> USE <1>0 DEF Control, LocalOK, RunsCounted, RunsBegun, TriesCounted, OpKnown,
            RevokeKnown, Threads, KillPcs, StopPcs, StartPcs, SendTries,
            Goto, TakeCall, lookVars, protVars, connVars, daemVars, bVars, countVars
<1>1. CASE Start
  <2>1. Len(calls') < Len(calls)
    BY <1>1, TypeParts DEF Start, TypeInv, SharedOK
  <2> QED BY <1>1, <2>1 DEF Start
<1>2. CASE Stop
  <2>1. Len(calls') < Len(calls)
    BY <1>2, TypeParts DEF Stop, TypeInv, SharedOK
  <2> QED BY <1>2, <2>1 DEF Stop
<1>3. CASE IgnoreCall
  <2>1. Len(calls') < Len(calls)
    BY <1>3, TypeParts DEF IgnoreCall, TypeInv, SharedOK
  <2> QED BY <1>3, <2>1 DEF IgnoreCall
<1>4. CASE RegisterCallback
  <2>1. Len(calls') < Len(calls)
    BY <1>4, TypeParts DEF RegisterCallback, TypeInv, SharedOK
  <2> QED BY <1>4, <2>1 DEF RegisterCallback
<1>5. CASE RunPosted BY <1>5 DEF RunPosted
<1>6. CASE OnRevoke BY <1>6 DEF OnRevoke
<1> QED BY <1>1, <1>2, <1>3, <1>4, <1>5, <1>6 DEF BinderStep

LEMMA CtrlStop ==
  ASSUME TypeInv, NEW t \in Threads, StopStep(t)
  PROVE  Control'
<1>0. LocalOK /\ Control /\ runs \in Nat /\ nCalls \in Nat /\ Len(calls) \in Nat
  BY TypeParts DEF TypeInv, Control, SharedOK
<1> USE <1>0 DEF Control, LocalOK, RunsCounted, RunsBegun, TriesCounted, OpKnown,
            RevokeKnown, Threads, KillPcs, StopPcs, StartPcs, SendTries,
            Goto, Proceed, Leave, Abort, KillAdvance, Outside, ChangeState, ShowNotification,
            Fault, lookVars, protVars, connVars, daemVars, bVars, countVars
<1>1. CASE KillCheck(t) BY <1>1 DEF KillCheck
<1>2. CASE KillUse(t) BY <1>2 DEF KillUse
<1>3. CASE KillNull(t) BY <1>3 DEF KillNull
<1>4. CASE ThreadCheck(t) BY <1>4 DEF ThreadCheck
<1>5. CASE ThreadUse(t) BY <1>5 DEF ThreadUse
<1>6. CASE ThreadNull(t) BY <1>6 DEF ThreadNull
<1>7. CASE Stopping(t) BY <1>7 DEF Stopping
<1>8. CASE ConnCheck(t) BY <1>8 DEF ConnCheck
<1>9. CASE ConnUse(t) BY <1>9 DEF ConnUse
<1>10. CASE ConnNull(t) BY <1>10 DEF ConnNull
<1>11. CASE StopSelf(t) BY <1>11 DEF StopSelf
<1>12. CASE Stopped(t) BY <1>12 DEF Stopped
<1>13. CASE ShowStopping(t) BY <1>13 DEF ShowStopping
<1>14. CASE ShowStopped(t) BY <1>14 DEF ShowStopped
<1> QED BY <1>1, <1>2, <1>3, <1>4, <1>5, <1>6, <1>7, <1>8, <1>9, <1>10, <1>11,
          <1>12, <1>13, <1>14 DEF StopStep

LEMMA CtrlStart ==
  ASSUME TypeInv, StartStep
  PROVE  Control'
<1>0. LocalOK /\ Control /\ runs \in Nat /\ nCalls \in Nat /\ Len(calls) \in Nat
  BY TypeParts DEF TypeInv, Control, SharedOK
<1> USE <1>0 DEF Control, LocalOK, RunsCounted, RunsBegun, TriesCounted, OpKnown,
            RevokeKnown, Threads, KillPcs, StopPcs, StartPcs, SendTries,
            Goto, Proceed, Leave, Abort, Outside, ChangeState, ShowNotification, Fault,
            lookVars, protVars, connVars, daemVars, bVars, countVars
<1>1. CASE Begin BY <1>1 DEF Begin
<1>2. CASE Connecting BY <1>2 DEF Connecting
<1>3. CASE Resolve BY <1>3 DEF Resolve
<1>4. CASE Create BY <1>4 DEF Create
<1>5. CASE IfSet
  <2>1. CASE next \in ref
    BY <2>1, <1>5 DEF IfSet
  <2>2. CASE Started
    BY <2>2, <1>5, StartedMoves DEF IfSet
  <2> QED BY <2>1, <2>2, <1>5 DEF IfSet
<1>6. CASE Launch
  <2>1. CASE Started
    BY <2>1, <1>6, StartedMoves DEF Launch
  <2>2. CASE Abort("B")
    BY <2>2, <1>6 DEF Launch
  <2> QED BY <2>1, <2>2, <1>6 DEF Launch
<1>7. CASE StartVpn BY <1>7 DEF StartVpn
<1>8. CASE Establish BY <1>8 DEF Establish
<1>9. CASE IfConn BY <1>9 DEF IfConn
<1>10. CASE GetFd BY <1>10 DEF GetFd
<1>11. CASE SendFd BY <1>11 DEF SendFd
<1>12. CASE Connected BY <1>12 DEF Connected
<1>13. CASE Failed BY <1>13 DEF Failed
<1>14. CASE ShowConnecting BY <1>14 DEF ShowConnecting
<1>15. CASE ShowVpn BY <1>15 DEF ShowVpn
<1>16. CASE ShowRefused BY <1>16 DEF ShowRefused
<1>17. CASE ConnRefused BY <1>17 DEF ConnRefused
<1>18. CASE ShowConnected BY <1>18 DEF ShowConnected
<1>19. CASE ShowFailed BY <1>19 DEF ShowFailed
<1> QED BY <1>1, <1>2, <1>3, <1>4, <1>5, <1>6, <1>7, <1>8, <1>9, <1>10, <1>11,
          <1>12, <1>13, <1>14, <1>15, <1>16, <1>17, <1>18, <1>19 DEF StartStep

LEMMA TypeNext == TypeInv /\ [Next]_vars => TypeInv'
<1> SUFFICES ASSUME TypeInv, [Next]_vars PROVE TypeOK' /\ Control'
  BY DEF TypeInv
<1>1. ASSUME NEW c \in ClientOps, ClientCalls(c) PROVE TypeOK' /\ Control'
  BY <1>1, TypeClient, CtrlClient
<1>2. CASE BinderStep \/ RunPosted \/ OnRevoke
  BY <1>2, TypeBinder, CtrlBinder
<1>3. ASSUME NEW t \in Threads, StopStep(t) PROVE TypeOK' /\ Control'
  BY <1>3, TypeStop, CtrlStop
<1>4. CASE StartStep
  BY <1>4, TypeStart, CtrlStart
<1>5. CASE UNCHANGED vars
  BY <1>5 DEF vars, lookVars, protVars, connVars, daemVars, bVars, countVars, TypeInv,
              TypeOK, Control, RunsCounted, RunsBegun, TriesCounted, OpKnown, RevokeKnown
<1> QED BY <1>1, <1>2, <1>3, <1>4, <1>5 DEF Next

\* Every variable keeps its type: in particular no start numbers a resource beyond
\* the calls clients made and sendFd keeps to its four tries
\* (ShadowsocksVpnService.java:191-202,265-268).
THEOREM TypeCorrect == Spec => []TypeOK
<1>1. TypeInv => TypeOK BY DEF TypeInv
<1> QED BY <1>1, TypeInit, TypeNext, PTL DEF Spec

-----------------------------------------------------------------------------

LEMMA LatestAnnounced ==
  ASSUME posts \in Seq(States), NEW s, ChangeState(s)
  PROVE  Latest' = s
<1>1. posts' # <<>> /\ posts'[Len(posts')] = s
  BY DEF ChangeState
<1> QED BY <1>1 DEF Latest

LEMMA LatestRun ==
  ASSUME posts \in Seq(States), RunPosted
  PROVE  Latest' = Latest
<1>1. posts # <<>> /\ posts' = Tail(posts) /\ state' = Head(posts)
  BY DEF RunPosted
<1>2. CASE Len(posts) = 1
  <2>1. posts' = <<>> BY <1>1, <1>2
  <2>2. Head(posts) = posts[Len(posts)] BY <1>1, <1>2
  <2> QED BY <1>1, <2>1, <2>2 DEF Latest
<1>3. CASE Len(posts) > 1
  <2>1. posts' # <<>> /\ posts'[Len(posts')] = posts[Len(posts)] BY <1>1, <1>3
  <2> QED BY <1>1, <2>1 DEF Latest
<1>4. \A n \in Nat \ {0} : n = 1 \/ n > 1 OBVIOUS
<1>5. Len(posts) \in Nat \ {0} BY <1>1, EmptySeq
<1> QED BY <1>2, <1>3, <1>4, <1>5

\* A step that posts nothing leaves the last word as it is.
LEMMA LatestKept == UNCHANGED <<posts, state>> => Latest' = Latest
BY DEF Latest

LEMMA WordBinder ==
  ASSUME TypeInv, LastWord, BinderStep \/ RunPosted \/ OnRevoke
  PROVE  LastWord'
<1>0. posts \in Seq(States) /\ LocalOK
  BY TypeParts DEF TypeInv, SharedOK
<1> USE <1>0 DEF LastWord, Transitional, Final, LocalOK, Threads, Goto, TakeCall, lookVars
<1>1. CASE Start
  BY <1>1, LatestKept DEF Start
<1>2. CASE Stop
  BY <1>2, LatestKept DEF Stop
<1>3. CASE IgnoreCall
  BY <1>3, LatestKept DEF IgnoreCall
<1>4. CASE RegisterCallback
  BY <1>4, LatestKept DEF RegisterCallback
<1>5. CASE RunPosted
  <2>1. Latest' = Latest
    BY <1>5, LatestRun
  <2> QED BY <1>5, <2>1 DEF RunPosted
<1>6. CASE OnRevoke
  BY <1>6, LatestKept DEF OnRevoke
<1> QED BY <1>1, <1>2, <1>3, <1>4, <1>5, <1>6 DEF BinderStep

LEMMA WordStop ==
  ASSUME TypeInv, LastWord, NEW t \in Threads, StopStep(t)
  PROVE  LastWord'
<1>0. posts \in Seq(States) /\ LocalOK
  BY TypeParts DEF TypeInv, SharedOK
<1> USE <1>0 DEF LastWord, Transitional, Final, LocalOK, Threads, Goto, Outside, lookVars
<1>1. CASE KillCheck(t)
  BY <1>1, LatestKept DEF KillCheck, Proceed, KillAdvance
<1>2. CASE KillUse(t)
  BY <1>2, LatestKept DEF KillUse, Proceed, Abort
<1>3. CASE KillNull(t)
  BY <1>3, LatestKept DEF KillNull, KillAdvance
<1>4. CASE ThreadCheck(t)
  BY <1>4, LatestKept DEF ThreadCheck, Proceed
<1>5. CASE ThreadUse(t)
  BY <1>5, LatestKept DEF ThreadUse, Proceed, Abort
<1>6. CASE ThreadNull(t)
  BY <1>6, LatestKept DEF ThreadNull, Proceed
<1>7. CASE Stopping(t)
  <2>1. Latest' = "STOPPING"
    BY <1>7, LatestAnnounced DEF Stopping
  <2> QED BY <1>7, <2>1 DEF Stopping, Proceed
<1>8. CASE ConnCheck(t)
  BY <1>8, LatestKept DEF ConnCheck, Proceed
<1>9. CASE ConnUse(t)
  BY <1>9, LatestKept DEF ConnUse, Proceed, Abort
<1>10. CASE ConnNull(t)
  BY <1>10, LatestKept DEF ConnNull, Proceed
<1>11. CASE StopSelf(t)
  BY <1>11, LatestKept DEF StopSelf, Proceed
<1>12. CASE Stopped(t)
  <2>1. Latest' = "STOPPED"
    BY <1>12, LatestAnnounced DEF Stopped
  <2> QED BY <1>12, <2>1 DEF Stopped, Proceed
<1>13. CASE ShowStopping(t)
  BY <1>13, LatestKept DEF ShowStopping, ShowNotification, Proceed
<1>14. CASE ShowStopped(t)
  BY <1>14, LatestKept DEF ShowStopped, ShowNotification, Proceed, Leave
<1> QED BY <1>1, <1>2, <1>3, <1>4, <1>5, <1>6, <1>7, <1>8, <1>9, <1>10, <1>11,
          <1>12, <1>13, <1>14 DEF StopStep

LEMMA WordStart ==
  ASSUME TypeInv, LastWord, StartStep
  PROVE  LastWord'
<1>0. posts \in Seq(States) /\ LocalOK
  BY TypeParts DEF TypeInv, SharedOK
<1> USE <1>0 DEF LastWord, Transitional, Final, LocalOK, Threads, Goto, Outside, lookVars
<1>1. CASE Begin
  BY <1>1, LatestKept DEF Begin, Proceed
<1>2. CASE Connecting
  <2>1. Latest' = "CONNECTING"
    BY <1>2, LatestAnnounced DEF Connecting
  <2> QED BY <1>2, <2>1 DEF Connecting, Proceed
<1>3. CASE Resolve
  BY <1>3, LatestKept DEF Resolve, Proceed, Abort
<1>4. CASE Create
  BY <1>4, LatestKept DEF Create, Proceed, Abort
<1>5. CASE IfSet
  <2>1. UNCHANGED <<posts, state>> /\ aborted \subseteq aborted'
    BY <1>5, StartedMoves DEF IfSet, Proceed, Abort
  <2>2. pc'["B"] \notin Final \/ aborted' # {}
    BY <1>5, StartedMoves DEF IfSet, Proceed, Abort, Goto
  <2> QED BY <2>1, <2>2, LatestKept
<1>6. CASE Launch
  <2>1. UNCHANGED <<posts, state>> /\ aborted \subseteq aborted'
    BY <1>6, StartedMoves DEF Launch, Proceed, Abort
  <2>2. pc'["B"] \notin Final \/ aborted' # {}
    BY <1>6, StartedMoves DEF Launch, Proceed, Abort, Goto
  <2> QED BY <2>1, <2>2, LatestKept
<1>7. CASE StartVpn
  <2>1. Latest' = "CONNECTING"
    BY <1>7, LatestAnnounced DEF StartVpn
  <2> QED BY <1>7, <2>1 DEF StartVpn, Proceed
<1>8. CASE Establish
  <2>1. pc'["B"] \notin Final
    BY <1>8 DEF Establish, Proceed
  <2> QED BY <2>1
<1>9. CASE IfConn
  BY <1>9, LatestKept DEF IfConn
<1>10. CASE GetFd
  BY <1>10, LatestKept DEF GetFd, Proceed, Abort
<1>11. CASE SendFd
  BY <1>11, LatestKept DEF SendFd
<1>12. CASE Connected
  <2>1. Latest' = "CONNECTED"
    BY <1>12, LatestAnnounced DEF Connected
  <2> QED BY <1>12, <2>1 DEF Connected, Proceed
<1>13. CASE Failed
  <2>1. Latest' = "STOPPED"
    BY <1>13, LatestAnnounced DEF Failed
  <2> QED BY <1>13, <2>1 DEF Failed, Proceed
<1>14. CASE ShowConnecting
  BY <1>14, LatestKept DEF ShowConnecting, ShowNotification, Proceed
<1>15. CASE ShowVpn
  BY <1>15, LatestKept DEF ShowVpn, ShowNotification, Proceed
<1>16. CASE ShowRefused
  BY <1>16, LatestKept DEF ShowRefused, ShowNotification, Proceed
<1>17. CASE ConnRefused
  BY <1>17, LatestKept DEF ConnRefused, Proceed
<1>18. CASE ShowConnected
  BY <1>18, LatestKept DEF ShowConnected, ShowNotification, Leave
<1>19. CASE ShowFailed
  BY <1>19, LatestKept DEF ShowFailed, ShowNotification, Proceed
<1> QED BY <1>1, <1>2, <1>3, <1>4, <1>5, <1>6, <1>7, <1>8, <1>9, <1>10, <1>11,
          <1>12, <1>13, <1>14, <1>15, <1>16, <1>17, <1>18, <1>19 DEF StartStep

LEMMA ReachBinder ==
  ASSUME TypeInv, ReachInv, BinderStep \/ RunPosted \/ OnRevoke
  PROVE  ReachInv'
BY TypeParts DEF ReachInv, DestroyedFirst, Target, TypeInv, Control, OpKnown, RevokeKnown,
   LocalOK, Threads, BinderStep, Start, Stop, IgnoreCall, RegisterCallback, TakeCall,
   RunPosted, OnRevoke, Goto, daemVars, bVars

LEMMA ReachStop ==
  ASSUME TypeInv, ReachInv, NEW t \in Threads, StopStep(t)
  PROVE  ReachInv'
<1>0. LocalOK /\ Control
  BY TypeParts DEF TypeInv
<1> USE <1>0 DEF ReachInv, DestroyedFirst, Target, LocalOK, Control, OpKnown, Threads,
            KillPcs, StartPcs, Goto, Proceed, Leave, Abort, Outside, KillAdvance, daemVars,
            bVars
<1>1. CASE KillCheck(t) BY <1>1 DEF KillCheck
<1>2. CASE KillUse(t) BY <1>2 DEF KillUse
<1>3. CASE KillNull(t) BY <1>3 DEF KillNull
<1>4. CASE ThreadCheck(t) BY <1>4 DEF ThreadCheck
<1>5. CASE ThreadUse(t) BY <1>5 DEF ThreadUse
<1>6. CASE ThreadNull(t) BY <1>6 DEF ThreadNull
<1>7. CASE Stopping(t) BY <1>7 DEF Stopping
<1>8. CASE ConnCheck(t) BY <1>8 DEF ConnCheck
<1>9. CASE ConnUse(t) BY <1>9 DEF ConnUse
<1>10. CASE ConnNull(t) BY <1>10 DEF ConnNull
<1>11. CASE StopSelf(t) BY <1>11 DEF StopSelf
<1>12. CASE Stopped(t) BY <1>12 DEF Stopped
<1>13. CASE ShowStopping(t) BY <1>13 DEF ShowStopping
<1>14. CASE ShowStopped(t) BY <1>14 DEF ShowStopped
<1> QED BY <1>1, <1>2, <1>3, <1>4, <1>5, <1>6, <1>7, <1>8, <1>9, <1>10, <1>11,
          <1>12, <1>13, <1>14 DEF StopStep

LEMMA ReachStart ==
  ASSUME TypeInv, ReachInv, StartStep
  PROVE  ReachInv'
<1>0. LocalOK /\ Control
  BY TypeParts DEF TypeInv
<1> USE <1>0 DEF ReachInv, DestroyedFirst, Target, LocalOK, Control, OpKnown, Threads,
            KillPcs, StartPcs, Goto, Proceed, Leave, Abort, Outside, daemVars, bVars
<1>1. CASE Begin BY <1>1 DEF Begin
<1>2. CASE Connecting BY <1>2 DEF Connecting
<1>3. CASE Resolve BY <1>3 DEF Resolve
<1>4. CASE Create BY <1>4 DEF Create
<1>5. CASE IfSet
  BY <1>5, StartedMoves DEF IfSet
<1>6. CASE Launch
  BY <1>6, StartedMoves DEF Launch
<1>7. CASE StartVpn BY <1>7 DEF StartVpn
<1>8. CASE Establish BY <1>8 DEF Establish
<1>9. CASE IfConn BY <1>9 DEF IfConn
<1>10. CASE GetFd BY <1>10 DEF GetFd
<1>11. CASE SendFd BY <1>11 DEF SendFd
<1>12. CASE Connected BY <1>12 DEF Connected
<1>13. CASE Failed BY <1>13 DEF Failed
<1>14. CASE ShowConnecting BY <1>14 DEF ShowConnecting
<1>15. CASE ShowVpn BY <1>15 DEF ShowVpn
<1>16. CASE ShowRefused BY <1>16 DEF ShowRefused
<1>17. CASE ConnRefused BY <1>17 DEF ConnRefused
<1>18. CASE ShowConnected BY <1>18 DEF ShowConnected
<1>19. CASE ShowFailed BY <1>19 DEF ShowFailed
<1> QED BY <1>1, <1>2, <1>3, <1>4, <1>5, <1>6, <1>7, <1>8, <1>9, <1>10, <1>11,
          <1>12, <1>13, <1>14, <1>15, <1>16, <1>17, <1>18, <1>19 DEF StartStep

-----------------------------------------------------------------------------

LEMMA InvInit == Init => IInv
<1> SUFFICES ASSUME Init PROVE LastWord /\ ReachInv
  BY TypeInit DEF IInv
<1>1. Latest = "INIT"
  BY DEF Init, Latest
<1>2. LastWord
  BY <1>1 DEF LastWord, Transitional
<1>3. \A t \in Threads : pc[t] = "idle"
  BY DEF Init
<1>4. ReachInv
  BY <1>3 DEF Init, ReachInv, DestroyedFirst, Threads
<1> QED BY <1>2, <1>4

LEMMA InvNext == IInv /\ [Next]_vars => IInv'
<1> SUFFICES ASSUME IInv, [Next]_vars PROVE LastWord' /\ ReachInv'
  BY TypeNext DEF IInv
<1>0. TypeInv /\ LastWord /\ ReachInv
  BY DEF IInv
\* A client's call and a stuttering step touch neither the daemons nor the threads.
<1>1. ASSUME UNCHANGED <<posts, state, aborted, pc, overlap, op, kill, ref, up>>
      PROVE  LastWord' /\ ReachInv'
  <2>1. LastWord'
    BY <1>0, <1>1, LatestKept DEF LastWord
  <2>2. ReachInv'
    BY <1>0, <1>1 DEF ReachInv, DestroyedFirst, Target
  <2> QED BY <2>1, <2>2
<1>2. ASSUME NEW c \in ClientOps, ClientCalls(c) PROVE LastWord' /\ ReachInv'
  BY <1>1, <1>2 DEF ClientCalls, lookVars, bVars, daemVars
<1>3. CASE BinderStep \/ RunPosted \/ OnRevoke
  BY <1>0, <1>3, WordBinder, ReachBinder
<1>4. ASSUME NEW t \in Threads, StopStep(t) PROVE LastWord' /\ ReachInv'
  BY <1>0, <1>4, WordStop, ReachStop
<1>5. CASE StartStep
  BY <1>0, <1>5, WordStart, ReachStart
<1>6. CASE UNCHANGED vars
  BY <1>1, <1>6 DEF vars, lookVars, bVars, daemVars
<1> QED BY <1>2, <1>3, <1>4, <1>5, <1>6 DEF Next

LEMMA Invariant == Spec => []IInv
BY InvInit, InvNext, PTL DEF Spec

\* The guard of start and stop never shuts a settled service off
\* (BaseService.java:33,39): what B and R post last is final, in every interleaving.
THEOREM CallsAlwaysAccepted == Spec => []CallsAccepted
<1>1. IInv => CallsAccepted
  <2> SUFFICES ASSUME LastWord, Settled, aborted = {} PROVE Accepting
    BY DEF IInv, CallsAccepted
  <2>1. Latest = state
    BY DEF Settled, Latest
  <2>2. state \notin Transitional
    BY <2>1 DEF LastWord, Settled, Final
  <2> QED BY <2>2 DEF Transitional, Accepting
<1> QED BY <1>1, Invariant, PTL

\* As long as no onRevoke runs into a startRunner, a child that runs can be killed
\* through the service's reference, whichever threads run killProcesses and
\* wherever an exception ends them (ShadowsocksVpnService.java:235-256).
THEOREM DaemonsStayReachable == Spec => []DaemonsReachable
<1>1. IInv => DaemonsReachable
  BY DEF IInv, ReachInv, DaemonsReachable
<1> QED BY <1>1, Invariant, PTL

-----------------------------------------------------------------------------

\* What a step may do to the references and to the children.
LEMMA DaemonStep ==
  ASSUME IInv, [Next]_vars
  PROVE  \/ UNCHANGED <<ref, up>> /\ (overlap => overlap')
         \/ UNCHANGED overlap /\ \E d \in Daemons :
              \/ ref' = ref \cup {d} /\ up' = up
              \/ up' = up \cup {d} /\ ref' = ref /\ d \in ref
              \/ up' = up \ {d} /\ ref' = ref
              \/ ref' = ref \ {d} /\ up' = up /\ (overlap \/ d \notin up)
<1> DEFINE Quiet == UNCHANGED <<ref, up>> /\ (overlap => overlap')
<1> DEFINE One(d) ==
      \/ ref' = ref \cup {d} /\ up' = up
      \/ up' = up \cup {d} /\ ref' = ref /\ d \in ref
      \/ up' = up \ {d} /\ ref' = ref
      \/ ref' = ref \ {d} /\ up' = up /\ (overlap \/ d \notin up)
<1> DEFINE Some == UNCHANGED overlap /\ \E d \in Daemons : One(d)
<1>0. LocalOK /\ ReachInv
  BY TypeParts DEF IInv, TypeInv
<1>a. next \in Daemons /\ \A t \in Threads : Target(t) \in Daemons
  BY <1>0 DEF LocalOK, Target, KillOrder, Daemons
<1> SUFFICES Some \/ Quiet
  OBVIOUS
<1> HIDE DEF Quiet, Some
<1>1. ASSUME NEW c \in ClientOps, ClientCalls(c) PROVE Quiet
  BY <1>1 DEF ClientCalls, daemVars, Quiet
<1>2. CASE BinderStep \/ RunPosted \/ OnRevoke
  BY <1>2 DEF BinderStep, Start, Stop, IgnoreCall, RegisterCallback, TakeCall, RunPosted,
              OnRevoke, daemVars, Quiet
<1>3. ASSUME NEW t \in Threads, KillUse(t) PROVE Some \/ Quiet
  <2>1. UNCHANGED <<ref, overlap>> /\ (up' = up \ {Target(t)} \/ up' = up)
    BY <1>3 DEF KillUse, Outside
  <2> QED BY <2>1, <1>a DEF Quiet, Some
<1>4. ASSUME NEW t \in Threads, KillNull(t) PROVE Some
  <2>1. UNCHANGED <<up, overlap>> /\ ref' = ref \ {Target(t)} /\ pc[t] = "kill_null"
    BY <1>4 DEF KillNull, Outside
  <2>2. overlap \/ Target(t) \notin up
    BY <1>0, <2>1 DEF ReachInv, DestroyedFirst
  <2> QED BY <2>1, <2>2, <1>a DEF Some
<1>5. ASSUME NEW t \in Threads, StopStep(t), ~KillUse(t), ~KillNull(t) PROVE Quiet
  BY <1>5 DEF StopStep, KillCheck, ThreadCheck, ThreadUse, ThreadNull, Stopping, ShowStopping,
              ConnCheck, ConnUse, ConnNull, StopSelf, Stopped, ShowStopped, Outside,
              daemVars, Quiet
<1>6. CASE Create
  <2>1. UNCHANGED <<up, overlap>> /\ (ref' = ref \cup {next} \/ ref' = ref)
    BY <1>6 DEF Create, Outside
  <2> QED BY <2>1, <1>a DEF Quiet, Some
<1>7. CASE Launch
  <2>1. UNCHANGED <<ref, overlap>> /\ ((up' = up \cup {next} /\ next \in ref) \/ up' = up)
    BY <1>7 DEF Launch, Outside
  <2> QED BY <2>1, <1>a DEF Quiet, Some
<1>8. CASE StartStep /\ ~Create /\ ~Launch
  BY <1>8 DEF StartStep, Begin, Connecting, ShowConnecting, Resolve, IfSet, StartVpn,
              ShowVpn, Establish, ShowRefused, ConnRefused, IfConn, GetFd, SendFd, Connected,
              ShowConnected, Failed, ShowFailed, Outside, daemVars, Quiet
<1>9. CASE UNCHANGED vars
  BY <1>9 DEF vars, daemVars, Quiet
<1>10. ASSUME NEW t \in Threads, StopStep(t) PROVE Some \/ Quiet
  BY <1>3, <1>4, <1>5, <1>10
<1> QED BY <1>1, <1>2, <1>6, <1>7, <1>8, <1>9, <1>10 DEF Next

\* Every daemon is used as Daemon allows, for any number of calls, revocations and
\* faults: with GuardImplementsDaemon, what VpnService assumes of start() and
\* destroy() is what the guards provide (ShadowsocksVpnService.java:78-81,235-256).
THEOREM ServiceUsesDaemons == Spec => UsesDaemons
<1>1. Init => D!Init
  BY DEF Init, D!Init
<1>2. IInv /\ [Next]_vars => [D!Next]_(D!vars)
  <2> SUFFICES ASSUME IInv, [Next]_vars PROVE D!Next \/ UNCHANGED D!vars
    OBVIOUS
  <2>0. overlap \in BOOLEAN /\ overlap' \in BOOLEAN /\ (overlap \/ up \subseteq ref)
    BY TypeNext DEF IInv, TypeInv, TypeOK, ReachInv
  <2> USE DEF D!Next, D!Create, D!Run, D!End, D!Drop, D!Overlap, D!vars
  <2>1. CASE UNCHANGED <<ref, up>> /\ (overlap => overlap')
    BY <2>0, <2>1
  <2>2. ASSUME NEW d \in Daemons, UNCHANGED overlap, ref' = ref \cup {d}, up' = up
        PROVE  D!Next \/ UNCHANGED D!vars
    <3>1. CASE d \in ref
      <4>1. ref' = ref BY <2>2, <3>1
      <4> QED BY <2>2, <4>1
    <3>2. CASE d \notin ref
      BY <2>0, <2>2, <3>2
    <3> QED BY <3>1, <3>2
  <2>3. ASSUME NEW d \in Daemons, UNCHANGED overlap,
               \/ up' = up \cup {d} /\ ref' = ref /\ d \in ref
               \/ up' = up \ {d} /\ ref' = ref
               \/ ref' = ref \ {d} /\ up' = up /\ (overlap \/ d \notin up)
        PROVE  D!Next
    BY <2>0, <2>3
  <2> QED BY <2>1, <2>2, <2>3, DaemonStep
<1> QED BY <1>1, <1>2, Invariant, PTL DEF Spec, UsesDaemons, D!Spec
=============================================================================
