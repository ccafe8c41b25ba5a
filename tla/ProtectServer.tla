--------------------------- MODULE ProtectServer ---------------------------
(***************************************************************************)
(* The protect server (ShadowsocksVpnThread.java) and its callers.  Before *)
(* ss-local and ss-tunnel connect a socket they hand it to the service     *)
(* (protect_socket in android.c), which excludes it from the VPN.  The     *)
(* path of the server's socket is the same for every start of the service, *)
(* each start has a thread of its own, and nothing waits for the thread of *)
(* an earlier one.                                                         *)
(*                                                                         *)
(* The kernel's part is external: the path names the socket that was bound *)
(* to it last, a connection waits in the backlog of a listening socket     *)
(* until it is accepted.  Whether close() closes the descriptor that a     *)
(* LocalServerSocket wraps, and whether it wakes a blocked accept(),       *)
(* differs between Android versions: both are choices.                     *)
(***************************************************************************)
EXTENDS Naturals, FiniteSets

CONSTANTS
  MaxServers,  \* bound: starts of the service
  Calls,       \* calls of protect_socket
  PoolSize     \* threads of a server's pool

ASSUME MaxServersAssumption == MaxServers \in Nat \ {0}
ASSUME PoolSizeAssumption == PoolSize \in Nat \ {0}

Servers == 1..MaxServers

VARIABLES
  started,    \* servers started so far; the newest is the service's vpnThread
  pc,         \* where each server thread is
  isRunning,  \* the flag the accept loop tests
  field,      \* serverSocket is not null
  open,       \* the socket listens
  path,       \* the server whose socket the path names, 0 for none
  stop,       \* where stopThread of each server is
  call,       \* where each call of protect_socket is
  result,     \* what it returned
  server,     \* the server it is connected to, 0 for none
  task,       \* where the connection of the call is in that server
  protected,  \* calls whose descriptor has been excluded from the VPN
  threw,      \* history: calls whose task ended by an exception
  late,       \* history: how many calls each server accepted after its stop
  raced,      \* history: the newest server was started before an older one had bound
  faulted     \* history: servers whose bind, listen or accept failed by itself

srvVars  == <<pc, isRunning, field, open, path>>
callVars == <<call, result, server>>
vars == <<started, srvVars, stop, callVars, task, protected, threw, late, raced, faulted>>

\* Where a thread has still to delete or bind the path.
Claiming == {"delete", "bind"}
Bound    == {"listen", "assign", "test", "accept", "blocked"}

\* The range of every variable.
TypeOK ==
  /\ started \in 0..MaxServers
  /\ pc \in [Servers -> {"none", "end"} \cup Claiming \cup Bound]
  /\ isRunning \in [Servers -> BOOLEAN]
  /\ field \in [Servers -> BOOLEAN]
  /\ open \in [Servers -> BOOLEAN]
  /\ path \in 0..MaxServers
  /\ stop \in [Servers -> {"none", "close", "null", "done"}]
  /\ call \in [Calls -> {"new", "connected", "sent", "unsent", "done"}]
  /\ result \in [Calls -> {"none", "0", "1", "-1"}]
  /\ server \in [Calls -> 0..MaxServers]
  /\ task \in [Calls -> {"none", "backlog", "pool", "read", "0", "1", "closed"}]
  /\ protected \subseteq Calls /\ threw \subseteq Calls
  /\ late \in [Servers -> Nat]
  /\ raced \in BOOLEAN /\ faulted \subseteq Servers

Init ==
  /\ started = 0
  /\ pc = [s \in Servers |-> "none"]
  /\ isRunning = [s \in Servers |-> TRUE]
  /\ field = [s \in Servers |-> FALSE]
  /\ open = [s \in Servers |-> FALSE]
  /\ path = 0 /\ stop = [s \in Servers |-> "none"]
  /\ call = [c \in Calls |-> "new"]
  /\ result = [c \in Calls |-> "none"]
  /\ server = [c \in Calls |-> 0]
  /\ task = [c \in Calls |-> "none"]
  /\ protected = {} /\ threw = {}
  /\ late = [s \in Servers |-> 0]
  /\ raced = FALSE /\ faulted = {}

-----------------------------------------------------------------------------
(* The service: startRunner and stopRunner.                                *)

\* vpnThread is assigned and started, whether or not an earlier server has been
\* stopped; a stopThread of onRevoke may still be under way.
Start ==
  /\ started < MaxServers
  /\ started' = started + 1
  /\ pc' = [pc EXCEPT ![started + 1] = "delete"]
  /\ raced' = (\E s \in Servers : pc[s] \in Claiming)
  /\ UNCHANGED <<isRunning, field, open, path, stop, callVars, task, protected, threw, late, faulted>>

Stop(s, l) == stop' = [stop EXCEPT ![s] = l]

\* stopThread clears the flag, then closes the socket if it finds one ...
StopFlag ==
  /\ started > 0 /\ stop[started] = "none"
  /\ isRunning' = [isRunning EXCEPT ![started] = FALSE]
  /\ Stop(started, "close")
  /\ UNCHANGED <<started, pc, field, open, path, callVars, task, protected, threw, late, raced, faulted>>

\* ... which wakes a blocked accept or does not, and closes the descriptor or
\* does not; a blocked accept keeps the socket.
StopClose(s) ==
  /\ stop[s] = "close"
  /\ IF ~field[s]
     THEN Stop(s, "done") /\ UNCHANGED <<pc, open>>
     ELSE /\ Stop(s, "null")
          /\ \/ UNCHANGED <<pc, open>>
             \/ /\ open' = [open EXCEPT ![s] = FALSE]
                /\ pc' = [pc EXCEPT ![s] = IF @ = "blocked" THEN "end" ELSE @]
  /\ UNCHANGED <<started, isRunning, field, path, callVars, task, protected, threw, late, raced, faulted>>

StopNull(s) ==
  /\ stop[s] = "null"
  /\ field' = [field EXCEPT ![s] = FALSE]
  /\ Stop(s, "done")
  /\ UNCHANGED <<started, pc, isRunning, open, path, callVars, task, protected, threw, late, raced, faulted>>

-----------------------------------------------------------------------------
(* A server thread.                                                        *)

Goto(s, l) == pc' = [pc EXCEPT ![s] = l]

\* Mutant: the path of an earlier server is not deleted.
DeleteMutant(s) ==
  /\ pc[s] = "delete" /\ Goto(s, "bind")
  /\ UNCHANGED <<started, isRunning, field, open, path, stop, callVars, task, protected, threw, late, raced, faulted>>

\* The file is in the app's own directory: delete() removes it where it exists.
Delete(s) ==
  /\ pc[s] = "delete" /\ Goto(s, "bind")
  /\ path' = 0
  /\ UNCHANGED <<started, isRunning, field, open, stop, callVars, task, protected, threw, late, raced, faulted>>

\* A system call of the thread fails by itself: the thread is over.
Fails(s) == Goto(s, "end") /\ faulted' = faulted \cup {s}

\* bind fails when the path exists, or by itself: the thread is over.
Bind(s) ==
  /\ pc[s] = "bind"
  /\ \/ path = 0 /\ path' = s /\ Goto(s, "listen") /\ UNCHANGED faulted
     \/ path # 0 /\ Goto(s, "end") /\ UNCHANGED <<path, faulted>>
     \/ Fails(s) /\ UNCHANGED path
  /\ UNCHANGED <<started, isRunning, field, open, stop, callVars, task, protected, threw, late, raced>>

\* new LocalServerSocket listens or throws; the path is left behind.
Listen(s) ==
  /\ pc[s] = "listen"
  /\ \/ open' = [open EXCEPT ![s] = TRUE] /\ Goto(s, "assign") /\ UNCHANGED faulted
     \/ Fails(s) /\ UNCHANGED open
  /\ UNCHANGED <<started, isRunning, field, path, stop, callVars, task, protected, threw, late, raced>>

\* serverSocket is assigned; a stopThread before this has found it null.
Assign(s) ==
  /\ pc[s] = "assign" /\ Goto(s, "test")
  /\ field' = [field EXCEPT ![s] = TRUE]
  /\ UNCHANGED <<started, isRunning, open, path, stop, callVars, task, protected, threw, late, raced, faulted>>

\* Mutant: the loop does not test the flag.
TestMutant(s) ==
  /\ pc[s] = "test"
  /\ Goto(s, "accept")
  /\ UNCHANGED <<started, isRunning, field, open, path, stop, callVars, task, protected, threw, late, raced, faulted>>

Test(s) ==
  /\ pc[s] = "test"
  /\ Goto(s, IF isRunning[s] THEN "accept" ELSE "end")
  /\ UNCHANGED <<started, isRunning, field, open, path, stop, callVars, task, protected, threw, late, raced, faulted>>

\* serverSocket.accept(): the field is null by now, or its socket is closed, and
\* the exception ends the loop; or the call blocks.
AcceptCall(s) ==
  /\ pc[s] = "accept"
  /\ Goto(s, IF field[s] /\ open[s] THEN "blocked" ELSE "end")
  /\ UNCHANGED <<started, isRunning, field, open, path, stop, callVars, task, protected, threw, late, raced, faulted>>

\* A connection is accepted and given to the pool.
Accept(s, c) ==
  /\ pc[s] = "blocked" /\ server[c] = s /\ task[c] = "backlog"
  /\ Goto(s, "test")
  /\ task' = [task EXCEPT ![c] = "pool"]
  /\ late' = IF isRunning[s] THEN late ELSE [late EXCEPT ![s] = @ + 1]
  /\ UNCHANGED <<started, isRunning, field, open, path, stop, callVars, protected, threw, raced, faulted>>

\* accept throws by itself, also while the service runs: the thread is over, and
\* its socket goes on listening.
AcceptFails(s) ==
  /\ pc[s] = "blocked"
  /\ Fails(s)
  /\ UNCHANGED <<started, isRunning, field, open, path, stop, callVars, task, protected, threw, late, raced>>

\* A thread of the pool takes the connection and reads.
TaskBegins(c) ==
  /\ task[c] = "pool"
  /\ Cardinality({d \in Calls : server[d] = server[c] /\ task[d] = "read"}) < PoolSize
  /\ task' = [task EXCEPT ![c] = "read"]
  /\ UNCHANGED <<started, srvVars, stop, callVars, protected, threw, late, raced, faulted>>

\* output.write.
Answer(ret) == IF ret THEN "0" ELSE "1"

\* The descriptor is protected, or not, and the answer written.
TaskAnswers(c) ==
  /\ task[c] = "read" /\ call[c] \in {"sent", "done"}
  /\ \E ret \in BOOLEAN :
       /\ protected' = IF ret THEN protected \cup {c} ELSE protected
       /\ task' = [task EXCEPT ![c] = Answer(ret)]
  /\ UNCHANGED <<started, srvVars, stop, callVars, threw, late, raced, faulted>>

\* There was an exception, before or after protect(), or the caller had closed
\* without sending a descriptor: the connection is closed with no answer.
TaskThrows(c) ==
  /\ task[c] = "read" /\ call[c] \in {"sent", "unsent", "done"}
  /\ task' = [task EXCEPT ![c] = "closed"]
  /\ threw' = threw \cup {c}
  /\ \/ UNCHANGED protected
     \/ call[c] # "unsent" /\ protected' = protected \cup {c}
  /\ UNCHANGED <<started, srvVars, stop, callVars, late, raced, faulted>>

-----------------------------------------------------------------------------
(* protect_socket.                                                         *)

Return(c, ret) ==
  call' = [call EXCEPT ![c] = "done"] /\ result' = [result EXCEPT ![c] = ret]

\* socket() or connect() fails, or the connection waits to be accepted.
Connect(c) ==
  /\ call[c] = "new"
  /\ \/ /\ path # 0 /\ open[path]
        /\ call' = [call EXCEPT ![c] = "connected"]
        /\ server' = [server EXCEPT ![c] = path]
        /\ task' = [task EXCEPT ![c] = "backlog"]
        /\ UNCHANGED result
     \/ Return(c, "-1") /\ UNCHANGED <<server, task>>
  /\ UNCHANGED <<started, srvVars, stop, protected, threw, late, raced, faulted>>

ancil_send_fd(c) ==
  /\ call[c] = "connected"
  /\ \/ call' = [call EXCEPT ![c] = "sent"] /\ UNCHANGED result
     \/ call' = [call EXCEPT ![c] = "unsent"] /\ result' = [result EXCEPT ![c] = "-1"]
  /\ UNCHANGED <<started, srvVars, stop, server, task, protected, threw, late, raced, faulted>>

\* Mutant: a timeout leaves ret as it is, 0.
RecvMutant(c) ==
  /\ call[c] = "sent"
  /\ \/ task[c] \in {"0", "1"} /\ Return(c, task[c])
     \/ task[c] \notin {"0", "1"} /\ Return(c, "0")
  /\ UNCHANGED <<started, srvVars, stop, server, task, protected, threw, late, raced, faulted>>

\* recv: the answer; 0, the initial value of ret, at the end of the stream; or
\* -1 after a second, or when the listening socket was closed.
Recv(c) ==
  /\ call[c] = "sent"
  /\ \/ task[c] \in {"0", "1"} /\ Return(c, task[c])
     \/ task[c] = "closed" /\ Return(c, "0")
     \/ task[c] \notin {"0", "1", "closed"} /\ Return(c, "-1")
  /\ UNCHANGED <<started, srvVars, stop, server, task, protected, threw, late, raced, faulted>>

-----------------------------------------------------------------------------
Thread(s) ==
  \/ Delete(s) \/ Bind(s) \/ Listen(s) \/ Assign(s) \/ Test(s)
  \/ AcceptCall(s) \/ AcceptFails(s)
  \/ \E c \in Calls : Accept(s, c)

protect_socket(c) == Connect(c) \/ ancil_send_fd(c) \/ Recv(c)

Next ==
  \/ Start \/ StopFlag
  \/ \E s \in Servers : StopClose(s) \/ StopNull(s) \/ Thread(s)
  \/ \E c \in Calls : TaskBegins(c) \/ TaskAnswers(c) \/ TaskThrows(c)
  \/ \E c \in Calls : protect_socket(c)

Spec == Init /\ [][Next]_vars

-----------------------------------------------------------------------------
(* Properties.                                                             *)

\* A caller that was told 0 has a socket outside the VPN, and one that was told
\* 1 has not; except where the task died without an answer, which protect_socket
\* takes for 0.
AnswerIsTrue ==
  \A c \in Calls :
    /\ result[c] = "0" => c \in protected \cup threw
    /\ result[c] = "1" => c \notin protected

\* A server that has been stopped takes one more connection at most: the one for
\* which its accept was already called.
StoppedTakesOne == \A s \in Servers : late[s] <= 1

\* The path belongs to the server of the latest start: from its delete on the path
\* names it or nothing, and once it has bound the path it keeps it, whether it is
\* stopped, its listen or accept fails or older threads are still being stopped.  So
\* every new call of protect_socket reaches the server the service would stop or
\* fails; and while that server is not stopped its thread ends only when a system
\* call of its own fails.  Unless an older thread had yet to bind when it was started.
NewestKeepsPath ==
  started > 0 /\ ~raced /\ pc[started] # "delete" =>
    /\ path \in {0, started}
    /\ pc[started] \in Bound \/ open[started] => path = started
    /\ isRunning[started] /\ pc[started] = "end" => started \in faulted
=============================================================================
