------------------------- MODULE DaemonGuardProofs -------------------------
(***************************************************************************)
(* Proofs about DaemonGuard, for any number of starts, revocations,        *)
(* crashes and failed executions.                                          *)
(***************************************************************************)
EXTENDS DaemonGuard, TLAPS

\* B makes a new guard thread only after it has seen that the bound allows one.
ThreadsBounded ==
  /\ pc["B"] \in Killing /\ then = "create" => ssThread < MaxStarts
  /\ pc["B"] \in {"create", "thread"} => ssThread < MaxStarts

\* Past its interrupt, a kill has a guard thread to signal and to join.
ThreadKnown ==
  \A t \in Callers : pc[t] \in {"signal", "join", "joining", "null"} => ssThread > 0

\* Overlap records every overlap of R's kill with B's start.
OverlapSeen == pc["B"] \in Starting => pc["R"] = "idle"

\* The guard threads exist in the order they are made, and one that was not
\* started yet is the one B is about to start.
ThreadOrder ==
  /\ \A g \in Guards : gpc[g] = "new" => g = ssThread /\ pc["B"] = "launch"
  /\ pc["B"] = "launch" => ssThread > 0 /\ gpc[ssThread] = "new"

\* Where no guard thread is alive: without a reference, when a kill is about to
\* drop it, and when a start is about to make a new thread.
Quiet ==
  ~field \/ pc["B"] \in {"null", "create", "thread", "launch"} \/ pc["R"] = "null"
    => \A g \in Guards : gpc[g] \notin Live

\* While B starts the daemon the service holds the reference.
FieldHeld == pc["B"] \in {"thread", "launch"} => field

\* A join waits for the thread that was interrupted.
JoinsNewest == \A t \in Callers : pc[t] = "joining" => joinOn[t] = ssThread

\* The newest child is the only one that may run, and only while its guard is
\* between spawning it and the end of its wait.
ChildGuarded ==
  \A p \in running :
    /\ p = ssProcess
    /\ ssThread \in Guards /\ spawner[p] = ssThread
    /\ gpc[ssThread] \in {"spawned", "wait", "catch"}

WaitsForNewest == \A g \in Guards : gpc[g] = "wait" => waitOn[g] = ssProcess

NewestOnly == \A g \in Guards : gpc[g] \in Live => g = ssThread

TypeInv == TypeOK /\ ThreadsBounded

GuardInv ==
  /\ OverlapSeen
  /\ ThreadOrder
  /\ Quiet
  /\ FieldHeld
  /\ JoinsNewest
  /\ ChildGuarded
  /\ WaitsForNewest
  /\ NewestOnly

IInv == TypeInv /\ ThreadKnown /\ (~overlap => GuardInv)

-----------------------------------------------------------------------------

USE MaxStartsAssumption, MaxRevokesAssumption, MaxCrashesAssumption,
    MaxExecFailsAssumption

LEMMA TypeInit == Init => TypeInv
<1> SUFFICES ASSUME Init PROVE TypeInv
  OBVIOUS
<1>1. spawner \in Seq(Guards) /\ Len(spawner) = 0
  BY DEF Init
<1>2. gpc \in [Guards -> Live \cup {"none", "new", "end"}]
  BY DEF Init
<1>3. waitOn \in [Guards -> 0..Len(spawner)] /\ joinOn \in [Callers -> 0..MaxStarts]
  BY <1>1 DEF Init
<1>4. pc \in [Callers -> {"idle"} \cup Killing \cup Starting] /\ pc["B"] = "idle"
  BY DEF Init, Callers
<1>5. ThreadsBounded
  BY <1>4 DEF ThreadsBounded, Killing
<1>6. ssProcess \in 0..Len(spawner) /\ ssThread \in 0..MaxStarts
  BY <1>1 DEF Init
<1>7. /\ running \subseteq 1..Len(spawner) /\ dying \subseteq 1..Len(spawner)
      /\ interrupted \subseteq Guards
  BY DEF Init
<1>8. revokes \in 0..MaxRevokes /\ crashes \in 0..MaxCrashes /\ execFails \in 0..MaxExecFails
  BY DEF Init
<1>9. /\ field \in BOOLEAN /\ isDestroyed \in BOOLEAN /\ overlap \in BOOLEAN
      /\ then \in {"idle", "create"}
  BY DEF Init
<1> QED BY <1>1, <1>2, <1>3, <1>4, <1>5, <1>6, <1>7, <1>8, <1>9 DEF TypeInv, TypeOK

LEMMA TypeCallers ==
  ASSUME TypeInv, NEW t \in Callers, CallKill(t) \/ CallerStep(t)
  PROVE  TypeInv'
<1> USE DEF TypeInv, TypeOK, ThreadsBounded, Callers, Killing, Starting, Goto, After,
            guardVars, childVars, limitVars, callVars
<1>1. CASE CallKill(t) BY <1>1 DEF CallKill
<1>2. CASE KillCheck(t) BY <1>2 DEF KillCheck
<1>3. CASE KillCall(t) BY <1>3 DEF KillCall
<1>4. CASE DestroyFlag(t) BY <1>4 DEF DestroyFlag
<1>5. CASE DestroyInterrupt(t) BY <1>5 DEF DestroyInterrupt
<1>6. CASE DestroySignal(t) BY <1>6 DEF DestroySignal, Signal
<1>7. CASE DestroyJoin(t) BY <1>7 DEF DestroyJoin
<1>8. CASE JoinReturns(t) BY <1>8 DEF JoinReturns
<1>9. CASE KillNull(t) BY <1>9 DEF KillNull
<1> QED BY <1>1, <1>2, <1>3, <1>4, <1>5, <1>6, <1>7, <1>8, <1>9 DEF CallerStep

LEMMA TypeStart ==
  ASSUME TypeInv, StartStep
  PROVE  TypeInv'
<1> USE DEF TypeInv, TypeOK, ThreadsBounded, Guards, Callers, Killing, Starting, Goto,
            GGoto, guardVars, childVars, limitVars, callVars
<1>1. CASE Create BY <1>1 DEF Create
<1>2. CASE NewThread BY <1>2, SMTT(20) DEF NewThread
<1>3. CASE Launch BY <1>3 DEF Launch, Live
<1>4. CASE Acquire BY <1>4 DEF Acquire
<1> QED BY <1>1, <1>2, <1>3, <1>4 DEF StartStep

LEMMA TypeGuard ==
  ASSUME TypeInv, NEW g \in Guards, GuardStep(g)
  PROVE  TypeInv'
<1> USE DEF TypeInv, TypeOK, ThreadsBounded, Callers, Killing, Starting, Live, GGoto,
            GuardEnds, guardVars, childVars, limitVars, callVars
<1>0. Len(spawner) \in Nat OBVIOUS
<1>1. CASE GuardBegin(g) BY <1>1 DEF GuardBegin
<1>2. CASE GuardTest(g) BY <1>2 DEF GuardTest
<1>3. CASE GuardSpawn(g)
  <2>1. spawner' \in Seq(Guards) /\ Len(spawner') = Len(spawner) + 1
    BY <1>3 DEF GuardSpawn
  <2> DEFINE n == Len(spawner)
  <2>2. running' \subseteq 1..n + 1 /\ dying' \subseteq 1..n + 1
    <3>1. running \subseteq 1..n /\ dying \subseteq 1..n /\ n \in Nat
      BY <1>0
    <3>2. running' = running \cup {n + 1} /\ dying' = dying
      BY <1>3 DEF GuardSpawn
    <3> HIDE DEF n
    <3> QED BY <3>1, <3>2
  <2>3. waitOn' \in [Guards -> 0..Len(spawner')] /\ ssProcess' \in 0..Len(spawner')
    BY <1>0, <1>3, <2>1 DEF GuardSpawn
  <2>4. gpc' \in [Guards -> Live \cup {"none", "new", "end"}]
    BY <1>3 DEF GuardSpawn
  <2> QED BY <1>3, <2>1, <2>2, <2>3, <2>4 DEF GuardSpawn
<1>4. CASE GuardSpawnFails(g) BY <1>4 DEF GuardSpawnFails
<1>5. CASE GuardWait(g) BY <1>5 DEF GuardWait
<1>6. CASE WaitReturns(g)
  <2>1. isDestroyed' \in BOOLEAN /\ gpc' \in [Guards -> Live \cup {"none", "new", "end"}]
    BY <1>6 DEF WaitReturns
  <2>2. waitOn' \in [Guards -> 0..Len(spawner')]
    BY <1>0, <1>6 DEF WaitReturns
  <2> QED BY <1>6, <2>1, <2>2 DEF WaitReturns
<1>7. CASE WaitInterrupted(g) BY <1>0, <1>7 DEF WaitInterrupted
<1>8. CASE GuardCatch(g) BY <1>8 DEF GuardCatch, Signal
<1> QED BY <1>1, <1>2, <1>3, <1>4, <1>5, <1>6, <1>7, <1>8 DEF GuardStep

LEMMA TypeNext == TypeInv /\ [Next]_vars => TypeInv'
<1> SUFFICES ASSUME TypeInv, [Next]_vars PROVE TypeInv'
  OBVIOUS
<1>1. ASSUME NEW t \in Callers, CallKill(t) \/ CallerStep(t) PROVE TypeInv'
  BY <1>1, TypeCallers
<1>2. CASE StartStep
  BY <1>2, TypeStart
<1>3. ASSUME NEW g \in Guards, GuardStep(g) PROVE TypeInv'
  BY <1>3, TypeGuard
<1>4. ASSUME NEW p \in running, ChildCrashes(p) PROVE TypeInv'
  BY <1>4 DEF ChildCrashes, TypeInv, TypeOK, ThreadsBounded, guardVars, callVars
<1>5. ASSUME NEW p \in dying, ChildExits(p) PROVE TypeInv'
  BY <1>5 DEF ChildExits, TypeInv, TypeOK, ThreadsBounded, guardVars, callVars, limitVars
<1>6. CASE UNCHANGED vars
  BY <1>6 DEF vars, guardVars, childVars, callVars, limitVars, TypeInv, TypeOK, ThreadsBounded
<1> QED BY <1>1, <1>2, <1>3, <1>4, <1>5, <1>6 DEF Next

\* Every variable keeps its type: in particular the children named by ssProcess,
\* waitOn, running and dying were all spawned, and no guard thread is made
\* beyond the bound (ssThread, SsLocalProcess.java:61,90).
THEOREM TypeCorrect == Spec => []TypeOK
<1>1. TypeInv => TypeOK BY DEF TypeInv
<1> QED BY <1>1, TypeInit, TypeNext, PTL DEF Spec
-----------------------------------------------------------------------------

LEMMA KnownNext == TypeInv /\ ThreadKnown /\ [Next]_vars => ThreadKnown'
<1> SUFFICES ASSUME TypeInv, ThreadKnown, [Next]_vars PROVE ThreadKnown'
  OBVIOUS
<1> USE DEF TypeInv, TypeOK, ThreadKnown, Callers, Goto, After
<1>1. ASSUME NEW t \in Callers, CallKill(t) \/ CallerStep(t) PROVE ThreadKnown'
  BY <1>1 DEF CallerStep, CallKill, KillCheck, KillCall, DestroyFlag, DestroyInterrupt,
              DestroySignal, DestroyJoin, JoinReturns, KillNull
<1>2. CASE StartStep
  BY <1>2 DEF StartStep, Create, NewThread, Launch, Acquire
<1>3. ASSUME NEW g \in Guards, GuardStep(g) PROVE ThreadKnown'
  BY <1>3 DEF GuardStep, GuardBegin, GuardTest, GuardSpawn, GuardSpawnFails, GuardWait,
              WaitReturns, WaitInterrupted, GuardCatch, callVars
<1>4. ASSUME NEW p \in running, ChildCrashes(p) PROVE ThreadKnown'
  BY <1>4 DEF ChildCrashes, callVars
<1>5. ASSUME NEW p \in dying, ChildExits(p) PROVE ThreadKnown'
  BY <1>5 DEF ChildExits, callVars
<1>6. CASE UNCHANGED vars
  BY <1>6 DEF vars, callVars
<1> QED BY <1>1, <1>2, <1>3, <1>4, <1>5, <1>6 DEF Next

LEMMA InvCallers ==
  ASSUME TypeInv, ThreadKnown, GuardInv, NEW t \in Callers, CallKill(t) \/ CallerStep(t),
         ~overlap'
  PROVE  GuardInv'
<1> USE DEF TypeInv, TypeOK, GuardInv, OverlapSeen, ThreadOrder, Quiet, FieldHeld,
            JoinsNewest, ChildGuarded, WaitsForNewest, NewestOnly, ThreadKnown, Callers,
            Guards, Killing, Starting, Live, Goto, After, NotAlive, guardVars, childVars,
            Signal
<1>1. CASE CallKill(t) BY <1>1 DEF CallKill
<1>2. CASE KillCheck(t) BY <1>2 DEF KillCheck
<1>3. CASE KillCall(t) BY <1>3 DEF KillCall
<1>4. CASE DestroyFlag(t) BY <1>4 DEF DestroyFlag
<1>5. CASE DestroyInterrupt(t) BY <1>5 DEF DestroyInterrupt
<1>6. CASE DestroySignal(t) BY <1>6 DEF DestroySignal
<1>7. CASE DestroyJoin(t) BY <1>7 DEF DestroyJoin
<1>8. CASE JoinReturns(t) BY <1>8 DEF JoinReturns
<1>9. CASE KillNull(t) BY <1>9 DEF KillNull
<1> QED BY <1>1, <1>2, <1>3, <1>4, <1>5, <1>6, <1>7, <1>8, <1>9 DEF CallerStep

LEMMA InvStart ==
  ASSUME TypeInv, ThreadKnown, GuardInv, StartStep, ~overlap'
  PROVE  GuardInv'
<1> USE DEF TypeInv, TypeOK, GuardInv, OverlapSeen, ThreadOrder, Quiet, FieldHeld,
            JoinsNewest, ChildGuarded, WaitsForNewest, NewestOnly, Callers, Guards,
            Starting, Live, Goto, GGoto, guardVars, childVars
<1>1. CASE Create BY <1>1 DEF Create
<1>2. CASE NewThread
  <2>1. \A h \in Guards : gpc[h] \notin Live /\ gpc[h] # "new"
    BY <1>2 DEF NewThread
  <2>2. running = {}
    BY <2>1
  <2>3. ssThread + 1 \in Guards
    BY <1>2 DEF NewThread, ThreadsBounded
  <2>4. /\ ssThread' = ssThread + 1 /\ running' = {}
        /\ \A h \in Guards : gpc'[h] = IF h = ssThread + 1 THEN "new" ELSE gpc[h]
        /\ pc["R"] = "idle" /\ pc'["R"] = "idle" /\ pc'["B"] = "launch"
    BY <1>2, <2>2 DEF NewThread
  <2> QED BY <1>2, <2>1, <2>2, <2>3, <2>4 DEF NewThread
<1>3. CASE Launch BY <1>3 DEF Launch
<1>4. CASE Acquire BY <1>4 DEF Acquire
<1> QED BY <1>1, <1>2, <1>3, <1>4 DEF StartStep

LEMMA InvGuard ==
  ASSUME TypeInv, ThreadKnown, GuardInv, NEW g \in Guards, GuardStep(g), ~overlap'
  PROVE  GuardInv'
<1> USE DEF TypeInv, TypeOK, GuardInv, OverlapSeen, ThreadOrder, Quiet, FieldHeld,
            JoinsNewest, ChildGuarded, WaitsForNewest, NewestOnly, Callers,
            Guards, Live, GGoto, GuardEnds, Signal, childVars, callVars
<1>1. CASE GuardBegin(g) BY <1>1 DEF GuardBegin
<1>2. CASE GuardTest(g) BY <1>2 DEF GuardTest
<1>3. CASE GuardSpawn(g)
  <2> DEFINE n == Len(spawner)
  <2>0. n \in Nat /\ gpc[g] = "spawn" /\ g = ssThread
    BY <1>3 DEF GuardSpawn
  <2>1. g = ssThread /\ running = {} /\ n \in Nat
    BY <2>0
  <2>2. running' = {n + 1} /\ ssProcess' = n + 1 /\ spawner'[n + 1] = g
    BY <1>3, <2>1 DEF GuardSpawn
  <2>3. /\ \A h \in Guards : gpc'[h] = IF h = g THEN "spawned" ELSE gpc[h]
        /\ ssThread' = ssThread /\ waitOn' = waitOn /\ joinOn' = joinOn
        /\ pc' = pc /\ field' = field
    BY <1>3 DEF GuardSpawn
  <2>4. ChildGuarded'
    BY <2>1, <2>2, <2>3
  <2>5. WaitsForNewest' /\ NewestOnly' /\ Quiet' /\ ThreadOrder'
    BY <1>3, <2>1, <2>3 DEF GuardSpawn
  <2> QED BY <2>3, <2>4, <2>5
<1>4. CASE GuardSpawnFails(g) BY <1>4 DEF GuardSpawnFails
<1>5. CASE GuardWait(g) BY <1>5 DEF GuardWait
<1>6. CASE WaitReturns(g) BY <1>6, SMTT(20) DEF WaitReturns
<1>7. CASE WaitInterrupted(g) BY <1>7 DEF WaitInterrupted
<1>8. CASE GuardCatch(g) BY <1>8 DEF GuardCatch
<1> QED BY <1>1, <1>2, <1>3, <1>4, <1>5, <1>6, <1>7, <1>8 DEF GuardStep

LEMMA OverlapStays == [Next]_vars => (overlap => overlap')
BY DEF Next, StartStep, Create, NewThread, Launch, Acquire, CallerStep, CallKill,
       KillCheck, KillCall, DestroyFlag, DestroyInterrupt, DestroySignal,
       DestroyJoin, JoinReturns, KillNull, GuardStep, GuardBegin, GuardTest,
       GuardSpawn, GuardSpawnFails, GuardWait, WaitReturns, WaitInterrupted,
       GuardCatch, ChildCrashes, ChildExits, vars

LEMMA InvNext == IInv /\ [Next]_vars => IInv'
<1> SUFFICES ASSUME IInv, [Next]_vars, ~overlap' PROVE GuardInv'
  BY TypeNext, KnownNext DEF IInv
<1>0. TypeInv /\ ThreadKnown /\ GuardInv
  <2>1. overlap => overlap'
    BY OverlapStays
  <2> QED BY <2>1 DEF IInv
<1>1. ASSUME NEW t \in Callers, CallKill(t) \/ CallerStep(t) PROVE GuardInv'
  BY <1>0, <1>1, InvCallers
<1>2. CASE StartStep
  BY <1>0, <1>2, InvStart
<1>3. ASSUME NEW g \in Guards, GuardStep(g) PROVE GuardInv'
  BY <1>0, <1>3, InvGuard
<1> USE DEF GuardInv, OverlapSeen, ThreadOrder, Quiet, FieldHeld, JoinsNewest,
            ChildGuarded, WaitsForNewest, NewestOnly, guardVars, childVars, callVars
<1>4. ASSUME NEW p \in running, ChildCrashes(p) PROVE GuardInv'
  BY <1>0, <1>4 DEF ChildCrashes
<1>5. ASSUME NEW p \in dying, ChildExits(p) PROVE GuardInv'
  BY <1>0, <1>5 DEF ChildExits
<1>6. CASE UNCHANGED vars
  BY <1>0, <1>6 DEF vars
<1> QED BY <1>1, <1>2, <1>3, <1>4, <1>5, <1>6 DEF Next

LEMMA InvInit == Init => IInv
<1> SUFFICES ASSUME Init PROVE ThreadKnown /\ GuardInv
  BY TypeInit DEF IInv
<1> QED BY DEF Init, ThreadKnown, GuardInv, OverlapSeen, ThreadOrder, Quiet, FieldHeld,
               JoinsNewest, ChildGuarded, WaitsForNewest, NewestOnly, Callers, Starting,
               Live

LEMMA Invariant == Spec => []IInv
BY InvInit, InvNext, PTL DEF Spec

\* No daemon is left without a guard thread that waits for it, whatever the racy
\* reads of isDestroyed and ssProcess return (SsLocalProcess.java:85-107).
THEOREM NoOrphan == Spec => []NoOrphanedDaemon
<1>1. IInv => NoOrphanedDaemon
  BY DEF IInv, GuardInv, ChildGuarded, NoOrphanedDaemon
<1> QED BY <1>1, Invariant, PTL

\* When killProcesses has dropped the reference, the daemon does not run and
\* nothing will run it again, also when onRevoke and a binder call kill at the
\* same time (ShadowsocksVpnService.java:236-239).
THEOREM DroppedIsDead == Spec => []DroppedMeansDead
<1>1. IInv => DroppedMeansDead
  BY DEF IInv, TypeInv, TypeOK, GuardInv, ChildGuarded, Quiet, DroppedMeansDead, Guards, Live
<1> QED BY <1>1, Invariant, PTL

\* At most the newest guard thread is alive: restarts do not pile up guards that
\* share ssProcess and isDestroyed (SsLocalProcess.java:61,127).
THEOREM GuardsDoNotPileUp == Spec => []OneGuard
<1>1. IInv => OneGuard
  BY DEF IInv, GuardInv, NewestOnly, OneGuard
<1> QED BY <1>1, Invariant, PTL

-----------------------------------------------------------------------------

\* What a step may do to the reference and to the children.
LEMMA DaemonStep ==
  ASSUME IInv, [Next]_vars
  PROVE  \/ field' = field /\ running' \subseteq running
         \/ field' /\ running' = running /\ (running = {} \/ overlap')
         \/ ~field' /\ running' = running /\ (running = {} \/ overlap')
         \/ field' = field /\ running \subseteq running' /\ (field \/ overlap')
<1> DEFINE Goal ==
      \/ field' = field /\ running' \subseteq running
      \/ field' /\ running' = running /\ (running = {} \/ overlap')
      \/ ~field' /\ running' = running /\ (running = {} \/ overlap')
      \/ field' = field /\ running \subseteq running' /\ (field \/ overlap')
<1>0. /\ TypeInv /\ field \in BOOLEAN /\ overlap \in BOOLEAN
      /\ ~overlap => GuardInv
  BY DEF IInv, TypeInv, TypeOK
<1>1. ASSUME NEW t \in Callers, KillNull(t) PROVE Goal
  <2>1. ~field' /\ running' = running /\ pc[t] = "null" /\ (overlap => overlap')
    BY <1>1, <1>0 DEF KillNull, childVars
  <2>2. ~overlap => running = {}
    BY <1>0, <2>1 DEF GuardInv, Quiet, ChildGuarded, Callers, Live
  <2> QED BY <2>1, <2>2, <1>0
<1>2. ASSUME NEW t \in Callers, CallKill(t) \/ CallerStep(t), ~KillNull(t) PROVE Goal
  BY <1>2 DEF CallerStep, CallKill, KillCheck, KillCall, DestroyFlag, DestroyInterrupt,
              DestroySignal, DestroyJoin, JoinReturns, Signal, childVars
<1>3. CASE Create
  <2>1. field' /\ running' = running /\ pc["B"] = "create" /\ overlap' = overlap
    BY <1>3 DEF Create, childVars
  <2>2. ~overlap => running = {}
    BY <1>0, <2>1 DEF GuardInv, Quiet, ChildGuarded, Live
  <2> QED BY <2>1, <2>2, <1>0
<1>4. CASE NewThread \/ Launch \/ Acquire
  BY <1>4 DEF NewThread, Launch, Acquire, childVars
<1>5. ASSUME NEW g \in Guards, GuardSpawn(g) PROVE Goal
  <2>1. field' = field /\ running \subseteq running' /\ gpc[g] = "spawn" /\ overlap' = overlap
    BY <1>5 DEF GuardSpawn
  <2>2. ~overlap => field
    BY <1>0, <2>1 DEF GuardInv, Quiet, Live
  <2> QED BY <2>1, <2>2, <1>0
<1>6. ASSUME NEW g \in Guards, GuardStep(g), ~GuardSpawn(g) PROVE Goal
  BY <1>6 DEF GuardStep, GuardBegin, GuardTest, GuardSpawnFails, GuardWait, WaitReturns,
              WaitInterrupted, GuardCatch, Signal, childVars
<1>7. ASSUME NEW p \in running, ChildCrashes(p) PROVE Goal
  BY <1>7 DEF ChildCrashes
<1>8. ASSUME NEW p \in dying, ChildExits(p) PROVE Goal
  BY <1>8 DEF ChildExits
<1>9. CASE UNCHANGED vars
  BY <1>9 DEF vars, childVars
<1> QED
  BY <1>1, <1>2, <1>3, <1>4, <1>5, <1>6, <1>7, <1>8, <1>9 DEF Next, StartStep

\* The guard implements the daemon the service relies on, with the reference and the
\* children of the singleton mapped to ref and up (SsLocalProcess.java:52-131).
THEOREM GuardImplementsDaemon == Spec => ImplementsDaemon
<1>1. Init => D!Init
  BY DEF Init, D!Init
<1>2. IInv /\ [Next]_vars => [D!Next]_(D!vars)
  <2> SUFFICES ASSUME IInv, [Next]_vars PROVE D!Next \/ UNCHANGED D!vars
    OBVIOUS
  <2>0. /\ field \in BOOLEAN /\ field' \in BOOLEAN
        /\ overlap \in BOOLEAN /\ overlap' \in BOOLEAN /\ (overlap => overlap')
    BY OverlapStays, TypeNext DEF IInv, TypeInv, TypeOK
  <2> USE <2>0 DEF D!Next, D!Create, D!Run, D!End, D!Drop, D!Overlap, D!vars
  <2>1. CASE field' = field /\ running' \subseteq running
    <3>1. CASE running' = {} BY <2>1, <3>1
    <3>2. CASE running' # {} BY <2>1, <3>2
    <3> QED BY <3>1, <3>2
  <2>2. CASE field' /\ running' = running /\ (running = {} \/ overlap')
    BY <2>2
  <2>3. CASE ~field' /\ running' = running /\ (running = {} \/ overlap')
    BY <2>3
  <2>4. CASE field' = field /\ running \subseteq running' /\ (field \/ overlap')
    BY <2>4
  <2> QED BY <2>1, <2>2, <2>3, <2>4, DaemonStep
<1> QED BY <1>1, <1>2, Invariant, PTL DEF Spec, ImplementsDaemon, D!Spec
=============================================================================
