------------------------ MODULE ProtectServerProofs ------------------------
(***************************************************************************)
(* Proofs about ProtectServer, for every number of starts, any set of      *)
(* calls and any size of the pool.                                         *)
(***************************************************************************)
EXTENDS ProtectServer, TLAPS

USE DEF srvVars, callVars, Servers

\* Initially.
LEMMA InitTypes == Init => TypeOK
<1> SUFFICES ASSUME Init PROVE TypeOK
  OBVIOUS
<1>1. raced \in BOOLEAN
  BY DEF Init
<1>2. /\ isRunning \in [Servers -> BOOLEAN] /\ field \in [Servers -> BOOLEAN]
      /\ open \in [Servers -> BOOLEAN]
  BY DEF Init
<1> QED BY <1>1, <1>2, MaxServersAssumption DEF Init, TypeOK, Claiming, Bound

\* Every step keeps the types.
LEMMA NextTypes == TypeOK /\ [Next]_vars => TypeOK'
<1> SUFFICES ASSUME TypeOK, [Next]_vars PROVE TypeOK'
  OBVIOUS
<1> USE MaxServersAssumption DEF TypeOK
<1>1. CASE Start
  <2>1. raced' \in BOOLEAN
    BY <1>1 DEF Start
  <2> QED BY <1>1, <2>1 DEF Start, Claiming, Bound
<1>2. CASE StopFlag
  BY <1>2 DEF StopFlag, Stop
<1>3. ASSUME NEW s \in Servers, StopClose(s)
      PROVE  TypeOK'
  <2>1. stop' \in [Servers -> {"none", "close", "null", "done"}]
    BY <1>3 DEF StopClose, Stop
  <2>2. pc' = pc \/ \E l \in {"end", pc[s]} : pc' = [pc EXCEPT ![s] = l]
    BY <1>3 DEF StopClose
  <2>3. open' = open \/ open' = [open EXCEPT ![s] = FALSE]
    BY <1>3 DEF StopClose
  <2>4. open' \in [Servers -> BOOLEAN]
    BY <2>3
  <2> QED BY <1>3, <2>1, <2>2, <2>4 DEF StopClose
<1>4. ASSUME NEW s \in Servers, StopNull(s)
      PROVE  TypeOK'
  BY <1>4 DEF StopNull, Stop
<1>5. ASSUME NEW s \in Servers, Thread(s)
      PROVE  TypeOK'
  <2> USE DEF Goto, Claiming, Bound, Fails
  <2>1. CASE Delete(s)
    BY <2>1 DEF Delete
  <2>2. CASE Bind(s)
    <3>1. faulted' = faulted \/ faulted' = faulted \cup {s}
      BY <2>2 DEF Bind
    <3>2. path' = path \/ path' = s
      BY <2>2 DEF Bind
    <3>3. \E l \in {"listen", "end"} : pc' = [pc EXCEPT ![s] = l]
      BY <2>2 DEF Bind
    <3>4. path' \in 0..MaxServers
      BY <3>2
    <3>5. faulted' \subseteq Servers
      BY <3>1
    <3> QED BY <2>2, <3>3, <3>4, <3>5 DEF Bind
  <2>3. CASE Listen(s) \/ Assign(s)
    <3>1. faulted' = faulted \/ faulted' = faulted \cup {s}
      BY <2>3 DEF Listen, Assign
    <3>2. \E l \in {"assign", "test", "end"} : pc' = [pc EXCEPT ![s] = l]
      BY <2>3 DEF Listen, Assign
    <3>3. open' = open \/ open' = [open EXCEPT ![s] = TRUE]
      BY <2>3 DEF Listen, Assign
    <3>4. field' = field \/ field' = [field EXCEPT ![s] = TRUE]
      BY <2>3 DEF Listen, Assign
    <3>5. open' \in [Servers -> BOOLEAN] /\ field' \in [Servers -> BOOLEAN]
      BY <3>3, <3>4
    <3> QED BY <2>3, <3>1, <3>2, <3>5 DEF Listen, Assign
  <2>4. CASE Test(s)
    BY <2>4 DEF Test
  <2>5. CASE AcceptCall(s)
    BY <2>5 DEF AcceptCall
  <2>6. ASSUME NEW c \in Calls, Accept(s, c)
        PROVE  TypeOK'
    <3>1. late' \in [Servers -> Nat]
      BY <2>6 DEF Accept
    <3> QED BY <2>6, <3>1 DEF Accept
  <2>7. CASE AcceptFails(s)
    BY <2>7 DEF AcceptFails
  <2> QED BY <1>5, <2>1, <2>2, <2>3, <2>4, <2>5, <2>6, <2>7 DEF Thread
<1>6. ASSUME NEW c \in Calls, TaskBegins(c) \/ TaskAnswers(c) \/ TaskThrows(c)
      PROVE  TypeOK'
  BY <1>6 DEF TaskBegins, TaskAnswers, TaskThrows, Answer
<1>7. ASSUME NEW c \in Calls, protect_socket(c)
      PROVE  TypeOK'
  <2>1. CASE Connect(c)
    BY <2>1, ZenonT(30) DEF Connect, Return
  <2>2. CASE ancil_send_fd(c)
    BY <2>2 DEF ancil_send_fd
  <2>3. CASE Recv(c)
    <3>1. \E ret \in {"0", "1", "-1"} : Return(c, ret)
      BY <2>3 DEF Recv
    <3>2. call' \in [Calls -> {"new", "connected", "sent", "unsent", "done"}]
          /\ result' \in [Calls -> {"none", "0", "1", "-1"}]
      BY <3>1 DEF Return
    <3> QED BY <2>3, <3>2 DEF Recv
  <2> QED BY <1>7, <2>1, <2>2, <2>3 DEF protect_socket
<1>8. CASE UNCHANGED vars
  BY <1>8 DEF vars
<1> QED BY <1>1, <1>2, <1>3, <1>4, <1>5, <1>6, <1>7, <1>8 DEF Next

\* Every variable keeps its type: the path and a caller's connection refer to a
\* server or to none (ShadowsocksVpnThread.java:39, android.c:74).
THEOREM TypeCorrect == Spec => []TypeOK
BY InitTypes, NextTypes, PTL DEF Spec

-----------------------------------------------------------------------------
(* A stopped server takes one connection more at most.                     *)

\* While a server is not stopped, or its accept was called before it was, it has
\* taken no connection after its stop.
LateInv ==
  \A s \in Servers :
    /\ late[s] <= 1
    /\ isRunning[s] \/ pc[s] \in {"accept", "blocked"} => late[s] = 0

\* Every step keeps LateInv.
LEMMA NextLate == TypeOK /\ LateInv /\ [Next]_vars => LateInv'
<1> SUFFICES ASSUME TypeOK, LateInv, [Next]_vars PROVE LateInv'
  OBVIOUS
<1> USE MaxServersAssumption DEF TypeOK, LateInv
<1>1. CASE Start
  BY <1>1 DEF Start
<1>2. CASE StopFlag
  BY <1>2 DEF StopFlag
<1>3. ASSUME NEW s \in Servers, StopClose(s) \/ StopNull(s)
      PROVE  LateInv'
  BY <1>3 DEF StopClose, StopNull
<1>4. ASSUME NEW s \in Servers, Thread(s)
      PROVE  LateInv'
  <2> USE DEF Goto, Fails
  <2>1. CASE Delete(s) \/ Bind(s) \/ Listen(s) \/ Assign(s) \/ AcceptFails(s)
    BY <2>1 DEF Delete, Bind, Listen, Assign, AcceptFails
  <2>2. CASE Test(s)
    BY <2>2 DEF Test
  <2>3. CASE AcceptCall(s)
    BY <2>3 DEF AcceptCall
  <2>4. ASSUME NEW c \in Calls, Accept(s, c)
        PROVE  LateInv'
    BY <2>4 DEF Accept
  <2> QED BY <1>4, <2>1, <2>2, <2>3, <2>4 DEF Thread
<1>5. ASSUME NEW c \in Calls, TaskBegins(c) \/ TaskAnswers(c) \/ TaskThrows(c)
      PROVE  LateInv'
  BY <1>5 DEF TaskBegins, TaskAnswers, TaskThrows
<1>6. ASSUME NEW c \in Calls, protect_socket(c)
      PROVE  LateInv'
  BY <1>6 DEF protect_socket, Connect, ancil_send_fd, Recv
<1>7. CASE UNCHANGED vars
  BY <1>7 DEF vars
<1> QED BY <1>1, <1>2, <1>3, <1>4, <1>5, <1>6, <1>7 DEF Next

\* After stopThread has cleared the flag the accept loop takes one connection at
\* most, for every interleaving of the two (ShadowsocksVpnThread.java:48-50,113-116).
THEOREM StoppedServersTakeOne == Spec => []StoppedTakesOne
<1>1. Init => LateInv
  BY DEF Init, LateInv
<1>2. LateInv => StoppedTakesOne
  BY DEF LateInv, StoppedTakesOne
<1> QED BY <1>1, <1>2, InitTypes, NextTypes, NextLate, PTL DEF Spec

-----------------------------------------------------------------------------
(* What protect_socket returns is true.                                    *)

\* The answer that was written says what protect() did, and nothing is protected
\* before there is an answer or an exception.
AnswerInv ==
  \A c \in Calls :
    /\ task[c] \in {"none", "backlog", "pool", "read", "1"} => c \notin protected
    /\ task[c] = "0" => c \in protected
    /\ task[c] = "closed" => c \in threw
    /\ call[c] = "new" => task[c] = "none"
    /\ call[c] \in {"new", "connected", "sent"} => result[c] = "none"
    /\ result[c] = "0" => task[c] \in {"0", "closed"}
    /\ result[c] = "1" => task[c] = "1"

\* Every step keeps AnswerInv.
LEMMA NextAnswer == TypeOK /\ AnswerInv /\ [Next]_vars => AnswerInv'
<1> SUFFICES ASSUME TypeOK, AnswerInv, [Next]_vars PROVE AnswerInv'
  OBVIOUS
<1> USE DEF AnswerInv
<1>1. CASE Start \/ StopFlag \/ \E s \in Servers : StopClose(s) \/ StopNull(s)
  BY <1>1 DEF Start, StopFlag, StopClose, StopNull
<1>2. ASSUME NEW s \in Servers, Thread(s)
      PROVE  AnswerInv'
  <2>1. CASE Delete(s) \/ Bind(s) \/ Listen(s) \/ Assign(s) \/ Test(s) \/ AcceptCall(s) \/ AcceptFails(s)
    BY <2>1 DEF Delete, Bind, Listen, Assign, Test, AcceptCall, AcceptFails
  <2>2. ASSUME NEW c \in Calls, Accept(s, c)
        PROVE  AnswerInv'
    BY <2>2 DEF Accept, TypeOK
  <2> QED BY <1>2, <2>1, <2>2 DEF Thread
<1>3. ASSUME NEW c \in Calls, TaskBegins(c)
      PROVE  AnswerInv'
  BY <1>3 DEF TaskBegins, TypeOK
<1>4. ASSUME NEW c \in Calls, TaskAnswers(c)
      PROVE  AnswerInv'
  BY <1>4 DEF TaskAnswers, Answer, TypeOK
<1>5. ASSUME NEW c \in Calls, TaskThrows(c)
      PROVE  AnswerInv'
  BY <1>5 DEF TaskThrows, TypeOK
<1>6. ASSUME NEW c \in Calls, protect_socket(c)
      PROVE  AnswerInv'
  <2>1. CASE Connect(c)
    BY <2>1 DEF Connect, Return, TypeOK
  <2>2. CASE ancil_send_fd(c)
    BY <2>2 DEF ancil_send_fd, TypeOK
  <2>3. CASE Recv(c)
    BY <2>3 DEF Recv, Return, TypeOK
  <2> QED BY <1>6, <2>1, <2>2, <2>3 DEF protect_socket
<1>7. CASE UNCHANGED vars
  BY <1>7 DEF vars
<1> QED BY <1>1, <1>2, <1>3, <1>4, <1>5, <1>6, <1>7 DEF Next

\* protect_socket returns 0 for a socket outside the VPN only, or when the task
\* died, and 1 for one inside only, however late the answer is (android.c:87-96).
THEOREM AnswersAreTrue == Spec => []AnswerIsTrue
<1>1. Init => AnswerInv
  BY DEF Init, AnswerInv
<1>2. AnswerInv => AnswerIsTrue
  BY DEF AnswerInv, AnswerIsTrue
<1> QED BY <1>1, <1>2, InitTypes, NextTypes, NextAnswer, PTL DEF Spec

-----------------------------------------------------------------------------
(* The newest server keeps the path.                                       *)

\* Servers that are not started yet, and what a stop under way means.
OrderInv ==
  /\ \A s \in Servers :
       /\ pc[s] = "none" <=> s > started
       /\ s > started => isRunning[s] = TRUE /\ open[s] = FALSE /\ stop[s] = "none"
       /\ stop[s] # "none" => isRunning[s] = FALSE

\* Without a race only the newest thread deletes and binds the path, so it finds
\* none when it binds, and no older thread touches the path afterwards.  What it has
\* set up is left alone until it is stopped.
PathInv ==
  ~raced /\ started > 0 =>
    /\ \A s \in Servers : s # started => pc[s] \notin Claiming
    /\ pc[started] \in Claiming => ~open[started]
    /\ pc[started] = "bind" => path = 0
    /\ pc[started] # "delete" => path \in {0, started}
    /\ pc[started] \in Bound \/ open[started] => path = started
    /\ isRunning[started] /\ pc[started] \in {"assign", "test", "accept", "blocked"} => open[started]
    /\ isRunning[started] /\ pc[started] \in {"test", "accept", "blocked"} => field[started]
    /\ isRunning[started] /\ pc[started] = "end" => started \in faulted

\* Every step keeps OrderInv.
LEMMA NextOrder == TypeOK /\ OrderInv /\ [Next]_vars => OrderInv'
<1> SUFFICES ASSUME TypeOK, OrderInv, [Next]_vars PROVE OrderInv'
  OBVIOUS
<1> USE MaxServersAssumption DEF OrderInv, TypeOK
<1>1. CASE Start
  BY <1>1 DEF Start
<1>2. CASE StopFlag
  BY <1>2 DEF StopFlag, Stop
<1>3. ASSUME NEW s \in Servers, StopClose(s)
      PROVE  OrderInv'
  BY <1>3 DEF StopClose, Stop
<1>4. ASSUME NEW s \in Servers, StopNull(s)
      PROVE  OrderInv'
  BY <1>4 DEF StopNull, Stop
<1>5. ASSUME NEW s \in Servers, Thread(s)
      PROVE  OrderInv'
  <2>1. /\ pc[s] # "none" /\ UNCHANGED <<started, stop, isRunning>>
        /\ \E l \in {"bind", "listen", "assign", "test", "accept", "blocked", "end"} : Goto(s, l)
        /\ open' = open \/ open' = [open EXCEPT ![s] = TRUE]
    BY <1>5 DEF Thread, Delete, Bind, Listen, Assign, Test, AcceptCall, AcceptFails, Accept, Fails
  <2> QED BY <2>1 DEF Goto
<1>6. ASSUME NEW c \in Calls, TaskBegins(c) \/ TaskAnswers(c) \/ TaskThrows(c)
      PROVE  OrderInv'
  BY <1>6 DEF TaskBegins, TaskAnswers, TaskThrows
<1>7. ASSUME NEW c \in Calls, protect_socket(c)
      PROVE  OrderInv'
  BY <1>7 DEF protect_socket, Connect, ancil_send_fd, Recv
<1>8. CASE UNCHANGED vars
  BY <1>8 DEF vars
<1> QED BY <1>1, <1>2, <1>3, <1>4, <1>5, <1>6, <1>7, <1>8 DEF Next

\* Every step keeps PathInv.
LEMMA NextPath == TypeOK /\ OrderInv /\ PathInv /\ [Next]_vars => PathInv'
<1> SUFFICES ASSUME TypeOK, OrderInv, PathInv, [Next]_vars PROVE PathInv'
  OBVIOUS
<1> USE MaxServersAssumption DEF PathInv, Claiming, Bound
<1>1. CASE Start
  <2>1. started + 1 \in Servers /\ started' = started + 1 /\ UNCHANGED <<isRunning, open>>
    BY <1>1 DEF Start, TypeOK
  <2>2. pc' = [pc EXCEPT ![started + 1] = "delete"]
    BY <1>1 DEF Start
  <2>3. ~raced' => \A s \in Servers : pc[s] \notin Claiming
    BY <1>1 DEF Start
  <2>4. ~open[started + 1]
    BY <2>1 DEF OrderInv, TypeOK
  <2> QED BY <2>1, <2>2, <2>3, <2>4 DEF TypeOK
<1>2. CASE StopFlag
  BY <1>2 DEF StopFlag, TypeOK
<1>3. ASSUME NEW s \in Servers, StopClose(s)
      PROVE  PathInv'
  BY <1>3 DEF StopClose, Stop, TypeOK, OrderInv
<1>4. ASSUME NEW s \in Servers, StopNull(s)
      PROVE  PathInv'
  BY <1>4 DEF StopNull, TypeOK, OrderInv
<1>5. ASSUME NEW s \in Servers, Thread(s)
      PROVE  PathInv'
  <2> USE DEF Goto, Fails, TypeOK, OrderInv
  <2>1. CASE Delete(s)
    BY <2>1 DEF Delete
  <2>2. CASE Bind(s)
    BY <2>2 DEF Bind
  <2>3. CASE Listen(s)
    BY <2>3 DEF Listen
  <2>4. CASE Assign(s)
    BY <2>4 DEF Assign
  <2>5. CASE Test(s)
    BY <2>5 DEF Test
  <2>6. CASE AcceptCall(s)
    BY <2>6 DEF AcceptCall
  <2>7. CASE AcceptFails(s)
    BY <2>7 DEF AcceptFails
  <2>8. ASSUME NEW c \in Calls, Accept(s, c)
        PROVE  PathInv'
    BY <2>8 DEF Accept
  <2> QED BY <1>5, <2>1, <2>2, <2>3, <2>4, <2>5, <2>6, <2>7, <2>8 DEF Thread
<1>6. ASSUME NEW c \in Calls, TaskBegins(c) \/ TaskAnswers(c) \/ TaskThrows(c)
      PROVE  PathInv'
  BY <1>6 DEF TaskBegins, TaskAnswers, TaskThrows
<1>7. ASSUME NEW c \in Calls, protect_socket(c)
      PROVE  PathInv'
  BY <1>7 DEF protect_socket, Connect, ancil_send_fd, Recv
<1>8. CASE UNCHANGED vars
  BY <1>8 DEF vars
<1> QED BY <1>1, <1>2, <1>3, <1>4, <1>5, <1>6, <1>7, <1>8 DEF Next

\* The path stays with the server of the latest start, whatever became of the
\* earlier ones and whichever system call fails, unless one of them had yet to bind
\* when it was started; and its thread ends only by a stop or by a failing bind,
\* listen or accept of its own (ShadowsocksVpnThread.java:30-50,95-98).
THEOREM NewestAlwaysKeepsPath == Spec => []NewestKeepsPath
<1>1. Init => OrderInv /\ PathInv
  BY MaxServersAssumption DEF Init, OrderInv, PathInv
<1>2. PathInv => NewestKeepsPath
  BY DEF PathInv, NewestKeepsPath
<1> QED
  BY <1>1, <1>2, InitTypes, NextTypes, NextOrder, NextPath, PTL DEF Spec
=============================================================================
