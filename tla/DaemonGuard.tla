---------------------------- MODULE DaemonGuard ----------------------------
(***************************************************************************)
(* The guard that keeps one native daemon alive.  SsLocalProcess,          *)
(* SsTunnelProcess, Tun2socksProcess, PdnsdProcess and KcptunProcess hold  *)
(* the same code: start() makes a guard thread that runs the executable,   *)
(* waits for it and runs it again; destroy() sets a flag, interrupts the   *)
(* thread, signals the child and joins.  Each class is a singleton, so     *)
(* successive starts share the fields ssThread, ssProcess and isDestroyed. *)
(*                                                                         *)
(* Two threads of the service call in.  "B" is the binder thread that      *)
(* serialises the oneway calls start and stop: every start first kills     *)
(* (killProcesses), then creates and starts.  "R" runs onRevoke, which     *)
(* only kills.  Nothing synchronises B, R and the guard threads.           *)
(*                                                                         *)
(* isDestroyed and ssProcess are plain fields written by one thread and    *)
(* read by another: a read may return an older value.  The other fields    *)
(* are read long after they are written, or by the thread that wrote them, *)
(* and are read as they are.                                               *)
(***************************************************************************)
EXTENDS Naturals, Sequences, FiniteSets

CONSTANTS MaxStarts,   \* bound: how many guard threads are made
          MaxRevokes,  \* bound: how many times onRevoke is called
          MaxCrashes,  \* bound: how many children exit by themselves
          MaxExecFails \* bound: how many times the executable cannot be run

ASSUME MaxStartsAssumption == MaxStarts \in Nat \ {0}
ASSUME MaxRevokesAssumption == MaxRevokes \in Nat
ASSUME MaxCrashesAssumption == MaxCrashes \in Nat
ASSUME MaxExecFailsAssumption == MaxExecFails \in Nat

Callers == {"B", "R"}
Guards  == 1..MaxStarts    \* guard threads, in the order they are made

VARIABLES
  field,        \* the service's reference to the daemon is not null
  ssThread,     \* the newest guard thread, 0 for null
  ssProcess,    \* the newest child, 0 for null
  isDestroyed,  \* the flag the guard loop tests
  gpc,          \* where each guard thread is
  waitOn,       \* the child a guard thread waits for
  interrupted,  \* guard threads whose interrupt status is set
  spawner,      \* spawner[p]: the guard thread that ran child p
  running,      \* children that run
  dying,        \* children that were signalled and have not exited yet
  revokes,      \* calls of onRevoke so far
  crashes,      \* children that exited by themselves so far
  execFails,    \* failed attempts to run the executable so far
  pc,           \* where B and R are
  then,         \* what B does when the kill it is in is over
  joinOn,       \* the guard thread B and R join
  overlap       \* history: some kill of R overlapped a start of B

callVars  == <<pc, then, joinOn>>
guardVars == <<gpc, waitOn>>
limitVars == <<revokes, crashes, execFails>>
childVars == <<spawner, running, dying>>
vars == <<field, ssThread, ssProcess, isDestroyed, guardVars, interrupted,
          childVars, limitVars, callVars, overlap>>

Killing  == {"check", "call", "flag", "interrupt", "signal", "join", "joining", "null"}
Starting == {"create", "thread", "launch", "acquire"}
Live     == {"run", "test", "spawn", "spawned", "wait", "gaveup", "catch"}

TypeOK ==
  /\ field \in BOOLEAN
  /\ ssThread \in 0..MaxStarts
  /\ ssProcess \in 0..Len(spawner)
  /\ isDestroyed \in BOOLEAN
  /\ gpc \in [Guards -> Live \cup {"none", "new", "end"}]
  /\ waitOn \in [Guards -> 0..Len(spawner)]
  /\ interrupted \subseteq Guards
  /\ spawner \in Seq(Guards)
  /\ running \subseteq 1..Len(spawner)
  /\ dying \subseteq 1..Len(spawner)
  /\ revokes \in 0..MaxRevokes
  /\ crashes \in 0..MaxCrashes
  /\ execFails \in 0..MaxExecFails
  /\ pc \in [Callers -> {"idle"} \cup Killing \cup Starting]
  /\ then \in {"idle", "create"}
  /\ joinOn \in [Callers -> 0..MaxStarts]
  /\ overlap \in BOOLEAN

Init ==
  /\ field = FALSE
  /\ ssThread = 0
  /\ ssProcess = 0
  /\ isDestroyed = FALSE
  /\ gpc = [g \in Guards |-> "none"]
  /\ waitOn = [g \in Guards |-> 0]
  /\ interrupted = {}
  /\ spawner = <<>>
  /\ running = {}
  /\ dying = {}
  /\ revokes = 0
  /\ crashes = 0
  /\ execFails = 0
  /\ pc = [t \in Callers |-> "idle"]
  /\ then = "idle"
  /\ joinOn = [t \in Callers |-> 0]
  /\ overlap = FALSE

Goto(t, l)  == pc' = [pc EXCEPT ![t] = l]
GGoto(g, l) == gpc' = [gpc EXCEPT ![g] = l]

\* Process.destroy(): a signal to a child that still runs; it exits later.
Signal(p) ==
  /\ running' = running \ {p}
  /\ dying' = dying \cup ({p} \cap running)

\* A thread that was not started, or has ended: interrupt() does nothing to it
\* and join() does not wait for it.
NotAlive(g) == gpc[g] \in {"new", "end"}

\* run() returns; an interrupt status that is still set goes with the thread.
GuardEnds(g) ==
  /\ GGoto(g, "end")
  /\ interrupted' = interrupted \ {g}

-----------------------------------------------------------------------------
(* The callers: killProcesses for one daemon, and destroy() inside it.     *)

\* What a thread does when its kill is over.
After(t) == IF t = "B" THEN then ELSE "idle"

\* startRunner does not kill first.
CallKillMutant(t) ==
  /\ pc[t] = "idle"
  /\ \/ t = "B" /\ ssThread < MaxStarts /\ then' = "create" /\ UNCHANGED revokes
     \/ t = "B" /\ then' = "idle" /\ UNCHANGED revokes
     \/ t = "R" /\ revokes < MaxRevokes /\ revokes' = revokes + 1 /\ UNCHANGED then
  /\ Goto(t, IF t = "B" /\ then' = "create" THEN "create" ELSE "check")
  /\ overlap' = (overlap \/ (t = "R" /\ pc["B"] \in Starting))
  /\ UNCHANGED <<field, ssThread, ssProcess, isDestroyed, guardVars, interrupted,
                 childVars, crashes, execFails, joinOn>>

\* B runs startRunner or stopRunner, R runs onRevoke; all begin with the kill.
CallKill(t) ==
  /\ pc[t] = "idle"
  /\ Goto(t, "check")
  /\ \/ t = "B" /\ ssThread < MaxStarts /\ then' = "create" /\ UNCHANGED revokes
     \/ t = "B" /\ then' = "idle" /\ UNCHANGED revokes
     \/ t = "R" /\ revokes < MaxRevokes /\ revokes' = revokes + 1 /\ UNCHANGED then
  /\ overlap' = (overlap \/ (t = "R" /\ pc["B"] \in Starting))
  /\ UNCHANGED <<field, ssThread, ssProcess, isDestroyed, guardVars, interrupted,
                 childVars, crashes, execFails, joinOn>>

\* if (sslocalProcess != null)
KillCheck(t) ==
  /\ pc[t] = "check"
  /\ Goto(t, IF field THEN "call" ELSE After(t))
  /\ overlap' = (overlap \/ (pc[t]' = "create" /\ pc["R"] # "idle"))
  /\ UNCHANGED <<field, ssThread, ssProcess, isDestroyed, guardVars, interrupted,
                 childVars, limitVars, then, joinOn>>

\* sslocalProcess.destroy(): the reference is read a second time, and the call
\* throws when the other thread has set it to null; the binder drops the call.
KillCall(t) ==
  /\ pc[t] = "call"
  /\ Goto(t, IF field THEN "flag" ELSE "idle")
  /\ UNCHANGED <<field, ssThread, ssProcess, isDestroyed, guardVars, interrupted,
                 childVars, limitVars, then, joinOn, overlap>>

DestroyFlag(t) ==
  /\ pc[t] = "flag"
  /\ isDestroyed' = TRUE
  /\ Goto(t, "interrupt")
  /\ UNCHANGED <<field, ssThread, ssProcess, guardVars, interrupted, childVars,
                 limitVars, then, joinOn, overlap>>

\* ssThread.interrupt() is forgotten.
DestroyInterruptMutant(t) ==
  /\ pc[t] = "interrupt"
  /\ Goto(t, IF ssThread = 0 THEN "idle" ELSE "signal")
  /\ UNCHANGED <<field, ssThread, ssProcess, isDestroyed, guardVars, interrupted,
                 childVars, limitVars, then, joinOn, overlap>>

\* ssThread.interrupt() throws when ssThread is null.
DestroyInterrupt(t) ==
  /\ pc[t] = "interrupt"
  /\ Goto(t, IF ssThread = 0 THEN "idle" ELSE "signal")
  /\ interrupted' = interrupted \cup {g \in Guards : g = ssThread /\ ~NotAlive(g)}
  /\ UNCHANGED <<field, ssThread, ssProcess, isDestroyed, guardVars, childVars,
                 limitVars, then, joinOn, overlap>>

\* ssProcess is signalled without the null test.
DestroySignalMutant(t) ==
  /\ pc[t] = "signal"
  /\ \E p \in 0..ssProcess : running' = running \ {p} /\ dying' = dying \cup {p}
  /\ Goto(t, "join")
  /\ UNCHANGED <<field, ssThread, ssProcess, isDestroyed, guardVars, interrupted,
                 spawner, limitVars, then, joinOn, overlap>>

\* if (ssProcess != null) ssProcess.destroy(), on whichever child it reads.
DestroySignal(t) ==
  /\ pc[t] = "signal"
  /\ \E p \in 0..ssProcess : Signal(p)
  /\ Goto(t, "join")
  /\ UNCHANGED <<field, ssThread, ssProcess, isDestroyed, guardVars, interrupted,
                 spawner, limitVars, then, joinOn, overlap>>

\* ssThread.join() reads the field again ...
DestroyJoin(t) ==
  /\ pc[t] = "join"
  /\ joinOn' = [joinOn EXCEPT ![t] = ssThread]
  /\ Goto(t, "joining")
  /\ UNCHANGED <<field, ssThread, ssProcess, isDestroyed, guardVars, interrupted,
                 childVars, limitVars, then, overlap>>

\* destroy() does not join.
JoinReturnsMutant(t) ==
  /\ pc[t] = "joining"
  /\ joinOn' = [joinOn EXCEPT ![t] = 0]
  /\ Goto(t, "null")
  /\ UNCHANGED <<field, ssThread, ssProcess, isDestroyed, guardVars, interrupted,
                 childVars, limitVars, then, overlap>>

\* ... and waits for the thread it found.
JoinReturns(t) ==
  /\ pc[t] = "joining"
  /\ NotAlive(joinOn[t])
  /\ joinOn' = [joinOn EXCEPT ![t] = 0]
  /\ Goto(t, "null")
  /\ UNCHANGED <<field, ssThread, ssProcess, isDestroyed, guardVars, interrupted,
                 childVars, limitVars, then, overlap>>

\* sslocalProcess = null, whatever it refers to by now.
KillNull(t) ==
  /\ pc[t] = "null"
  /\ field' = FALSE
  /\ Goto(t, After(t))
  /\ overlap' = (overlap \/ (pc[t]' = "create" /\ pc["R"] # "idle"))
  /\ UNCHANGED <<ssThread, ssProcess, isDestroyed, guardVars, interrupted,
                 childVars, limitVars, then, joinOn>>

-----------------------------------------------------------------------------
(* B goes on to start the daemon.                                          *)

Create ==
  /\ pc["B"] = "create"
  /\ field' = TRUE
  /\ Goto("B", "thread")
  /\ then' = "idle"
  /\ UNCHANGED <<ssThread, ssProcess, isDestroyed, guardVars, interrupted,
                 childVars, limitVars, joinOn, overlap>>

\* ssThread = new Thread()
NewThread ==
  /\ pc["B"] = "thread"
  /\ ssThread' = ssThread + 1
  /\ GGoto(ssThread + 1, "new")
  /\ Goto("B", "launch")
  /\ UNCHANGED <<field, ssProcess, isDestroyed, waitOn, interrupted, childVars,
                 limitVars, then, joinOn, overlap>>

\* ssThread.start()
Launch ==
  /\ pc["B"] = "launch"
  /\ GGoto(ssThread, "run")
  /\ Goto("B", "acquire")
  /\ UNCHANGED <<field, ssThread, ssProcess, isDestroyed, waitOn, interrupted,
                 childVars, limitVars, then, joinOn, overlap>>

\* The finally clause does not release.
ReleasedMutant(g) == \E p \in 1..Len(spawner) : spawner[p] = g

\* The guard releases the semaphore after every spawn and when it ends.
Released(g) == gpc[g] = "end" \/ \E p \in 1..Len(spawner) : spawner[p] = g

Acquire ==
  /\ pc["B"] = "acquire"
  /\ Released(ssThread)
  /\ Goto("B", "idle")
  /\ UNCHANGED <<field, ssThread, ssProcess, isDestroyed, guardVars, interrupted,
                 childVars, limitVars, then, joinOn, overlap>>

-----------------------------------------------------------------------------
(* The guard thread.                                                       *)

GuardBegin(g) ==
  /\ gpc[g] = "run"
  /\ isDestroyed' = FALSE
  /\ GGoto(g, "test")
  /\ UNCHANGED <<field, ssThread, ssProcess, waitOn, interrupted, childVars,
                 limitVars, callVars, overlap>>

\* while (!isDestroyed): a guard that has not written the flag since it cleared
\* it may still read its own FALSE; one that gave up reads what it wrote or later.
GuardTest(g) ==
  /\ gpc[g] \in {"test", "gaveup"}
  /\ \E seen \in {isDestroyed} \cup (IF gpc[g] = "test" THEN {FALSE} ELSE {}) :
       IF seen THEN GuardEnds(g)
               ELSE GGoto(g, "spawn") /\ UNCHANGED interrupted
  /\ UNCHANGED <<field, ssThread, ssProcess, isDestroyed, waitOn, childVars,
                 limitVars, callVars, overlap>>

\* ssProcess = new ProcessBuilder(cmd).start(), then semaphore.release().
GuardSpawn(g) ==
  /\ gpc[g] = "spawn"
  /\ spawner' = Append(spawner, g)
  /\ ssProcess' = Len(spawner) + 1
  /\ running' = running \cup {Len(spawner) + 1}
  /\ GGoto(g, "spawned")
  /\ UNCHANGED <<field, ssThread, isDestroyed, waitOn, interrupted, dying,
                 limitVars, callVars, overlap>>

\* start() throws IOException (no executable yet): the guard ends.
GuardSpawnFails(g) ==
  /\ gpc[g] = "spawn"
  /\ execFails < MaxExecFails
  /\ execFails' = execFails + 1
  /\ GuardEnds(g)
  /\ UNCHANGED <<field, ssThread, ssProcess, isDestroyed, waitOn, childVars,
                 revokes, crashes, callVars, overlap>>

\* ssProcess.waitFor() is called on what the field holds now.
GuardWait(g) ==
  /\ gpc[g] = "spawned"
  /\ waitOn' = [waitOn EXCEPT ![g] = ssProcess]
  /\ GGoto(g, "wait")
  /\ UNCHANGED <<field, ssThread, ssProcess, isDestroyed, interrupted, childVars,
                 limitVars, callVars, overlap>>

\* The guard waits once, without the loop.
WaitReturnsMutant(g) ==
  /\ gpc[g] = "wait"
  /\ waitOn[g] \notin running \cup dying
  /\ GGoto(g, "end")
  /\ UNCHANGED <<field, ssThread, ssProcess, isDestroyed, waitOn, interrupted,
                 childVars, limitVars, callVars, overlap>>

\* waitFor() returns: the guard gives up when less than a second has passed,
\* and goes round the loop otherwise.
WaitReturns(g) ==
  /\ gpc[g] = "wait"
  /\ waitOn[g] \notin running \cup dying
  /\ waitOn' = [waitOn EXCEPT ![g] = 0]
  /\ \/ GGoto(g, "gaveup") /\ isDestroyed' = TRUE
     \/ GGoto(g, "test") /\ UNCHANGED isDestroyed
  /\ UNCHANGED <<field, ssThread, ssProcess, interrupted, childVars, limitVars,
                 callVars, overlap>>

\* waitFor() throws InterruptedException, which clears the interrupt status.
WaitInterrupted(g) ==
  /\ gpc[g] = "wait"
  /\ g \in interrupted
  /\ interrupted' = interrupted \ {g}
  /\ waitOn' = [waitOn EXCEPT ![g] = 0]
  /\ GGoto(g, "catch")
  /\ UNCHANGED <<field, ssThread, ssProcess, isDestroyed, childVars, limitVars,
                 callVars, overlap>>

\* The handler forgets ssProcess.destroy().
GuardCatchMutant(g) ==
  /\ gpc[g] = "catch"
  /\ GuardEnds(g)
  /\ UNCHANGED <<field, ssThread, ssProcess, isDestroyed, waitOn, childVars,
                 limitVars, callVars, overlap>>

\* catch (InterruptedException e) { ssProcess.destroy(); }
GuardCatch(g) ==
  /\ gpc[g] = "catch"
  /\ Signal(ssProcess)
  /\ GuardEnds(g)
  /\ UNCHANGED <<field, ssThread, ssProcess, isDestroyed, waitOn, spawner,
                 limitVars, callVars, overlap>>

-----------------------------------------------------------------------------
(* The children, seen from outside.                                        *)

\* A daemon exits by itself: a bind that fails, a crash, the low-memory killer.
ChildCrashes(p) ==
  /\ p \in running
  /\ crashes < MaxCrashes
  /\ crashes' = crashes + 1
  /\ running' = running \ {p}
  /\ UNCHANGED <<field, ssThread, ssProcess, isDestroyed, guardVars, interrupted,
                 spawner, dying, revokes, execFails, callVars, overlap>>

ChildExits(p) ==
  /\ p \in dying
  /\ dying' = dying \ {p}
  /\ UNCHANGED <<field, ssThread, ssProcess, isDestroyed, guardVars, interrupted,
                 spawner, running, limitVars, callVars, overlap>>

-----------------------------------------------------------------------------

CallerStep(t) ==
  \/ KillCheck(t) \/ KillCall(t)
  \/ DestroyFlag(t) \/ DestroyInterrupt(t) \/ DestroySignal(t)
  \/ DestroyJoin(t) \/ JoinReturns(t) \/ KillNull(t)

StartStep == Create \/ NewThread \/ Launch \/ Acquire

GuardStep(g) ==
  \/ GuardBegin(g) \/ GuardTest(g) \/ GuardSpawn(g) \/ GuardSpawnFails(g)
  \/ GuardWait(g) \/ WaitReturns(g) \/ WaitInterrupted(g) \/ GuardCatch(g)

Next ==
  \/ \E t \in Callers : CallKill(t) \/ CallerStep(t)
  \/ StartStep
  \/ \E g \in Guards : GuardStep(g)
  \/ \E p \in running : ChildCrashes(p)
  \/ \E p \in dying : ChildExits(p)

\* Threads that can run do run, and a signalled child exits.  Nobody is obliged
\* to call start, stop or onRevoke, and no child is obliged to crash.
Fairness ==
  /\ \A t \in Callers : WF_vars(CallerStep(t))
  /\ WF_vars(StartStep)
  /\ \A g \in Guards : WF_vars(GuardStep(g))
  /\ WF_vars(\E p \in dying : ChildExits(p))

Spec == Init /\ [][Next]_vars /\ Fairness

-----------------------------------------------------------------------------

\* A daemon that runs has a guard that will wait for it: no thread that has
\* ended leaves its child behind, whatever the reads of isDestroyed and
\* ssProcess returned (SsLocalProcess.java:85-107 against 121-127).
NoOrphanedDaemon ==
  ~overlap => \A p \in running :
                /\ p = ssProcess
                /\ gpc[spawner[p]] \in {"spawned", "wait", "catch"}

\* killProcesses does what it is for: once the service has dropped its reference
\* nothing of the daemon runs and nothing will run it again
\* (ShadowsocksVpnService.java:236-239), also when B and R kill together.
DroppedMeansDead ==
  ~overlap /\ ~field => running = {} /\ \A g \in Guards : gpc[g] \notin Live

\* Guards do not pile up: at most the newest is alive, so a restart never has
\* two guards fighting over ssProcess and isDestroyed.
OneGuard ==
  ~overlap => \A g \in Guards : gpc[g] \in Live => g = ssThread

\* start() always comes back to the service, also when the executable cannot be
\* run: the semaphore is released on every path (SsLocalProcess.java:92,106).
StartReturns == pc["B"] = "acquire" ~> pc["B"] # "acquire"

\* destroy() called from B always comes back; R's can wait for a thread that B
\* made after R's interrupt, and only then (SsLocalProcess.java:122,127).
DestroyReturns ==
  /\ pc["B"] = "joining" ~> pc["B"] # "joining"
  /\ pc["R"] = "joining" ~> (pc["R"] # "joining" \/ overlap)

\* A daemon nobody destroyed comes back after it dies: only an exit in its first
\* second (which sets isDestroyed) or a failure to run the executable stops the
\* guard (SsLocalProcess.java:86-104).
KeptAlive ==
  \A g \in Guards, n \in 0..MaxExecFails :
    (gpc[g] = "wait" /\ waitOn[g] \notin running \cup dying /\ ~isDestroyed /\ execFails = n)
      ~> (isDestroyed \/ running # {} \/ execFails > n \/ overlap)

\* The guard implements the daemon the service relies on: a child is run only while
\* the service holds the reference, and the reference is taken and dropped only when
\* no child runs, across every crash and restart (SsLocalProcess.java:85-107,121-127).
D == INSTANCE Daemon WITH Daemons <- {"d"}, ref <- IF field THEN {"d"} ELSE {},
                          up <- IF running # {} THEN {"d"} ELSE {}
ImplementsDaemon == D!Spec

\* "reset the context" (ShadowsocksVpnService.java:275): when a start reaches
\* createSsLocal, no daemon of an earlier start is left.
ContextReset ==
  pc["B"] = "create" => running = {}
=============================================================================
