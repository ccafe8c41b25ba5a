--------------------------- MODULE SsLocalProofs ---------------------------
(***************************************************************************)
(* Proofs about SsLocal, for every chunk size and every total.  The        *)
(* properties of the watchers hold whatever a fresh socket takes; that     *)
(* nothing is lost or sent out of its turn, and that SsLocal implements    *)
(* Relay, is proved for a fresh socket that takes the whole first chunk.   *)
(***************************************************************************)
EXTENDS SsLocal, TLAPS

\* What the watchers and the buffers are before the relay and after it.
Shape ==
  /\ conn # "open" => watch = {}
  /\ conn = "none" => stage = 0 /\ up = Empty /\ down = Empty
  /\ conn = "open" /\ stage # 5 => watch = {"srecv"} /\ up = Empty /\ down = Empty
  /\ conn = "open" /\ stage = 5 => remote # "null"

\* PumpsAlternate, TimerRuns and SendersHaveData are inductive only together:
\* a callback that hands over from one watcher to the other relies on the other
\* being off and on the buffer not being empty.
Inv == TypeOK /\ Shape /\ PumpsAlternate /\ TimerRuns /\ SendersHaveData

\* The outcomes of send are numbers of units.
LEMMA TakenNat == ASSUME NEW n \in Nat, NEW k \in Taken(n) PROVE k \in Nat /\ k <= n
BY DEF Taken

\* Likewise on a fresh socket.
LEMMA FreshNat == ASSUME NEW n \in Nat, NEW k \in FreshTaken(n) PROVE k \in Nat /\ k <= n
BY DEF FreshTaken

\* Refill makes a buffer of a buffer.
LEMMA RefillFlow ==
  ASSUME NEW f \in Flow, NEW n \in Nat, NEW k \in 0..n
  PROVE  /\ Refill(f, n, k) \in Flow
         /\ Refill(f, n, k).in = f.in + n
         /\ Refill(f, n, k).out = f.out + k
         /\ Refill(f, n, k).len = IF k < n THEN n - k ELSE n
BY DEF Refill, Flow

\* Drain makes a buffer of a buffer.
LEMMA DrainFlow ==
  ASSUME NEW f \in Flow, NEW k \in 0..f.len
  PROVE  /\ Drain(f, k) \in Flow
         /\ Drain(f, k).in = f.in
         /\ Drain(f, k).out = f.out + k
         /\ Drain(f, k).len = f.len - k
<1>1. f.len \in Nat /\ f.idx \in Nat /\ f.base \in Nat /\ f.in \in Nat /\ f.out \in Nat
  BY DEF Flow
<1>2. f.len - k \in Nat /\ f.idx + k \in Nat /\ f.out + k \in Nat
  BY <1>1
<1> QED BY <1>1, <1>2 DEF Drain, Flow

\* Closing keeps the invariant.
LEMMA CloseInv == Inv /\ CloseBoth => Inv'
BY DEF Inv, TypeOK, Shape, PumpsAlternate, TimerRuns, SendersHaveData, CloseBoth, Watchers

\* Initially.
LEMMA InitInv == Init => Inv
BY DEF Init, Inv, TypeOK, Shape, PumpsAlternate, TimerRuns, SendersHaveData, Empty, Flow, Watchers

\* A chunk from the client and what is sent of it at once.
LEMMA ServerRecvDataInv ==
  ASSUME Inv, NEW n \in 1..MaxUnits, NEW k \in Taken(n), ServerRecvData(n, k)
  PROVE  Inv'
<1>1. n \in Nat /\ n > 0 /\ k \in 0..n
  BY MaxUnitsAssumption, TakenNat DEF Taken
<1>2. up' \in Flow /\ (k < n => up'.len > 0)
  <2>1. up \in Flow /\ up' = Refill(up, n, k)
    BY DEF ServerRecvData, Inv, TypeOK
  <2>2. up' \in Flow /\ up'.len = IF k < n THEN n - k ELSE n
    BY <1>1, <2>1, RefillFlow
  <2> QED BY <1>1, <2>2
<1>3. TypeOK'
  BY <1>2 DEF Inv, TypeOK, ServerRecvData, Watchers
<1>4. Shape'
  BY DEF Inv, Shape, TypeOK, ServerRecvData
<1>5. PumpsAlternate' /\ TimerRuns'
  BY DEF Inv, Shape, PumpsAlternate, TimerRuns, ServerRecvData
<1>6. SendersHaveData'
  BY <1>2 DEF Inv, Shape, SendersHaveData, PumpsAlternate, ServerRecvData
<1> QED BY <1>3, <1>4, <1>5, <1>6 DEF Inv

\* What is left of a chunk goes to the client.
LEMMA ServerSendInv ==
  ASSUME Inv, server_send_cb
  PROVE  Inv'
<1>1. CASE CloseBoth
  BY <1>1, CloseInv
<1>2. ASSUME NEW k \in Taken(down.len), down.len > 0, "ssend" \in watch,
             down' = Drain(down, k),
             watch' = IF k = down.len THEN (watch \ {"ssend"}) \cup {"rrecv"} ELSE watch,
             UNCHANGED <<conn, stage, remote, up>>
      PROVE  Inv'
  <2>1. down.len \in Nat /\ k \in 0..down.len
    BY <1>2 DEF Inv, TypeOK, Flow, Taken
  <2>2. down' \in Flow /\ down'.len = down.len - k
    BY <1>2, <2>1, DrainFlow DEF Inv, TypeOK
  <2>3. TypeOK'
    BY <1>2, <2>2 DEF Inv, TypeOK, Watchers
  <2>4. conn = "open" /\ stage = 5
    BY <1>2 DEF Inv, Shape
  <2>5. Shape'
    BY <1>2, <2>4 DEF Inv, Shape
  <2>6. PumpsAlternate' /\ TimerRuns'
    BY <1>2, <2>4 DEF Inv, Shape, TypeOK, PumpsAlternate, TimerRuns
  <2>7. SendersHaveData'
    BY <1>2, <2>1, <2>2 DEF Inv, SendersHaveData
  <2> QED BY <2>3, <2>5, <2>6, <2>7 DEF Inv
<1> QED BY <1>1, <1>2 DEF server_send_cb

\* A chunk from the remote side and what is sent of it at once.
LEMMA RemoteRecvInv ==
  ASSUME Inv, remote_recv_cb
  PROVE  Inv'
<1>1. CASE CloseBoth
  BY <1>1, CloseInv
<1>2. ASSUME NEW n \in 0..MaxUnits, NEW k \in Taken(n), "rrecv" \in watch, RemoteRecvData(n, k)
      PROVE  Inv'
  <2>1. n \in Nat /\ k \in 0..n
    BY <1>2, MaxUnitsAssumption DEF Taken
  <2>2. down' \in Flow /\ (k < n => down'.len > 0)
    <3>1. down \in Flow /\ down' = Refill(down, n, k)
      BY <1>2 DEF RemoteRecvData, Inv, TypeOK
    <3>2. down' \in Flow /\ down'.len = IF k < n THEN n - k ELSE n
      BY <2>1, <3>1, RefillFlow
    <3> QED BY <2>1, <3>2
  <2>3. TypeOK'
    BY <1>2, <2>2 DEF Inv, TypeOK, RemoteRecvData, Watchers
  <2>4. conn = "open" /\ stage = 5 /\ remote = "connected"
    BY <1>2 DEF Inv, Shape, TypeOK, PumpsAlternate
  <2>5. Shape'
    BY <1>2, <2>4 DEF Inv, Shape, RemoteRecvData
  <2>6. PumpsAlternate' /\ TimerRuns'
    BY <1>2, <2>4 DEF Inv, PumpsAlternate, TimerRuns, RemoteRecvData
  <2>7. SendersHaveData'
    BY <1>2, <2>2, <2>4 DEF Inv, PumpsAlternate, SendersHaveData, RemoteRecvData
  <2> QED BY <2>3, <2>5, <2>6, <2>7 DEF Inv
<1> QED BY <1>1, <1>2 DEF remote_recv_cb

\* The remote side is connected, or takes more.
LEMMA RemoteSendInv ==
  ASSUME Inv, remote_send_cb
  PROVE  Inv'
<1>1. CASE CloseBoth
  BY <1>1, CloseInv
<1>2. "rsend" \in watch /\ conn = "open" /\ stage = 5 /\ "srecv" \notin watch
  BY DEF remote_send_cb, Inv, Shape, PumpsAlternate
<1>3. CASE RemoteSendNothing /\ remote' = "connected" /\ UNCHANGED <<conn, stage, down>>
  BY <1>2, <1>3
     DEF RemoteSendNothing, NowConnected, Inv, TypeOK, Watchers, Shape, PumpsAlternate,
         TimerRuns, SendersHaveData
<1>4. ASSUME NEW k \in Taken(up.len), RemoteSendData(k), remote' = "connected",
             UNCHANGED <<conn, stage, down>>
      PROVE  Inv'
  <2>1. up.len \in Nat /\ k \in 0..up.len
    BY <1>4 DEF Inv, TypeOK, Flow, Taken
  <2>2. up' \in Flow /\ up'.len = up.len - k
    BY <1>4, <2>1, DrainFlow DEF Inv, TypeOK, RemoteSendData
  <2>3. TypeOK'
    BY <1>4, <2>2 DEF Inv, TypeOK, RemoteSendData, NowConnected, Watchers
  <2>4. Shape'
    BY <1>2, <1>4 DEF Inv, Shape
  <2>5. remote = "connecting" \/ remote = "connected"
    BY <1>2 DEF Inv, Shape, TypeOK
  <2>6. PumpsAlternate' /\ TimerRuns'
    BY <1>2, <1>4, <2>5 DEF Inv, PumpsAlternate, TimerRuns, RemoteSendData, NowConnected
  <2>7. SendersHaveData'
    BY <1>2, <1>4, <2>1, <2>2, <2>5
       DEF Inv, PumpsAlternate, SendersHaveData, RemoteSendData, NowConnected
  <2> QED BY <2>3, <2>4, <2>6, <2>7 DEF Inv
<1> QED BY <1>1, <1>3, <1>4 DEF remote_send_cb

\* The request: a connection is begun, or made at once.
LEMMA RequestInv ==
  ASSUME Inv, Request
  PROVE  Inv'
<1> PICK n \in 0..MaxUnits :
      Connecting(n) \/ \E k \in FreshTaken(n) : ConnectedAtOnce(n, k)
  BY DEF Request
<1>1. n \in Nat
  BY MaxUnitsAssumption
<1>2. CASE Connecting(n)
  <2>1. watch = {"srecv"} /\ conn = "open" /\ up = Empty /\ down = Empty
    BY <1>2 DEF Connecting, Inv, Shape
  <2>2. up' = [len |-> n, idx |-> 0, base |-> 0, in |-> n, out |-> 0]
    BY <1>1, <1>2, <2>1 DEF Connecting, Empty
  <2>3. up' \in Flow
    BY <1>1, <2>2 DEF Flow
  <2> QED
    BY <1>2, <2>1, <2>3
       DEF Connecting, Inv, TypeOK, Shape, PumpsAlternate, TimerRuns, SendersHaveData, Watchers
<1>3. ASSUME NEW k \in FreshTaken(n), ConnectedAtOnce(n, k)
      PROVE  Inv'
  <2>1. watch = {"srecv"} /\ conn = "open" /\ up = Empty /\ down = Empty
    BY <1>3 DEF ConnectedAtOnce, Inv, Shape
  <2>2. up' \in Flow
    BY <1>1, <1>3, <2>1, FreshNat DEF ConnectedAtOnce, Empty, Flow
  <2> QED
    BY <1>3, <2>1, <2>2
       DEF ConnectedAtOnce, Inv, TypeOK, Shape, PumpsAlternate, TimerRuns, SendersHaveData, Watchers
<1> QED BY <1>2, <1>3

\* Every step keeps the invariant.
LEMMA NextInv == Inv /\ [Next]_vars => Inv'
<1> SUFFICES ASSUME Inv, [Next]_vars PROVE Inv'
  OBVIOUS
<1> USE DEF Inv, TypeOK, Shape, PumpsAlternate, TimerRuns, SendersHaveData
<1>1. CASE accept_cb
  BY <1>1 DEF accept_cb, Watchers
<1>2. CASE server_recv_cb
  <2>1. CASE Greeting
    BY <2>1 DEF Greeting
  <2>2. CASE RequestCrash
    BY <2>2 DEF RequestCrash
  <2>3. CASE ServerRecvEnds
    BY <2>3, CloseInv DEF ServerRecvEnds
  <2> HIDE DEF Inv
  <2> QED BY <1>2, <2>1, <2>2, <2>3, RequestInv, ServerRecvDataInv DEF server_recv_cb
<1> HIDE DEF Inv
<1>3. CASE remote_timeout_cb \/ free_connections
  BY <1>3, CloseInv DEF remote_timeout_cb, free_connections
<1>4. CASE UNCHANGED vars
  BY <1>4 DEF vars, Inv
<1> QED BY <1>1, <1>2, <1>3, <1>4, ServerSendInv, RemoteRecvInv, RemoteSendInv DEF Next

\* The invariant holds in every state.
LEMMA Invariant == Spec => []Inv
BY InitInv, NextInv, PTL DEF Spec

\* Every variable keeps its type; in particular no buffer is drained below zero.
THEOREM TypeCorrect == Spec => []TypeOK
BY Invariant, PTL DEF Inv

\* Each direction of a relay has exactly one of its two watchers started, for
\* every way the kernel may cut the data into chunks (local.c:351-371, 762-768).
THEOREM OneWatcherPerPump == Spec => []PumpsAlternate
BY Invariant, PTL DEF Inv

\* A relay is never without a timer (local.c:293-295, 720-723).
THEOREM TimerAlwaysRuns == Spec => []TimerRuns
BY Invariant, PTL DEF Inv

\* The branches of the send callbacks for an empty buffer are not reached
\* (local.c:579-583, 740-744).
THEOREM SendersAlwaysHaveData == Spec => []SendersHaveData
BY Invariant, PTL DEF Inv

-----------------------------------------------------------------------------
(* Nothing is lost.                                                        *)

\* A fresh socket that takes all takes all.
LEMMA FreshAll ==
  ASSUME FreshTakes \subseteq {"all"}, NEW n \in Nat, NEW k \in FreshTaken(n)
  PROVE  k = n
BY DEF FreshTaken

\* A step of one buffer, n units in and k out at once, keeps its account.
LEMMA RefillKeeps ==
  ASSUME NEW f \in Flow, NEW n \in Nat, NEW k \in 0..n, f.in = f.out
  PROVE  Refill(f, n, k).in = Refill(f, n, k).out + IF k < n THEN Refill(f, n, k).len ELSE 0
<1>1. f.in \in Nat /\ f.out \in Nat
  BY DEF Flow
<1>2. Refill(f, n, k).in = f.in + n /\ Refill(f, n, k).out = f.out + k
  BY DEF Refill
<1>3. k < n => Refill(f, n, k).len = n - k
  BY DEF Refill
<1>4. ~(k < n) => k = n
  OBVIOUS
<1> QED BY <1>1, <1>2, <1>3, <1>4

\* Every step keeps the accounts of both directions.
LEMMA NextNothingLost ==
  ASSUME FreshTakes \subseteq {"all"}, Inv, NothingLost, [Next]_vars
  PROVE  NothingLost'
<1>1. CASE conn' # "open" \/ UNCHANGED vars
  BY <1>1 DEF NothingLost, Waiting, vars
<1>2. CASE accept_cb
  BY <1>2 DEF accept_cb, NothingLost, Waiting, Inv, Shape, Empty
<1>3. CASE Greeting
  BY <1>3 DEF Greeting, NothingLost, Waiting
<1>4. ASSUME Request, conn = "open"
      PROVE  NothingLost'
  <2> PICK n \in 0..MaxUnits :
        Connecting(n) \/ \E k \in FreshTaken(n) : ConnectedAtOnce(n, k)
    BY <1>4 DEF Request
  <2>1. n \in Nat
    BY MaxUnitsAssumption
  <2>2. "srecv" \in watch /\ stage \in {0, 1}
    BY DEF Connecting, ConnectedAtOnce
  <2>3. watch = {"srecv"} /\ up = Empty /\ down = Empty
    BY <1>4, <2>2 DEF Inv, Shape
  <2>4. CASE Connecting(n)
    <3>1. up' = [len |-> n, idx |-> 0, base |-> 0, in |-> 0 + n, out |-> 0] /\ down' = Empty
      BY <2>3, <2>4 DEF Connecting, Empty
    <3>2. "rsend" \in watch' /\ "ssend" \notin watch'
      BY <2>3, <2>4 DEF Connecting
    <3> QED BY <2>1, <3>1, <3>2 DEF NothingLost, Waiting, Empty
  <2>5. ASSUME NEW k \in FreshTaken(n), ConnectedAtOnce(n, k)
        PROVE  NothingLost'
    <3>1. up'.in = 0 + n /\ up'.out = 0 + n /\ down' = Empty
      BY <2>1, <2>3, <2>5, FreshAll DEF ConnectedAtOnce, Empty
    <3>2. "rsend" \notin watch' /\ "ssend" \notin watch'
      BY <2>3, <2>5 DEF ConnectedAtOnce
    <3> QED BY <2>1, <3>1, <3>2 DEF NothingLost, Waiting, Empty
  <2> QED BY <2>4, <2>5
<1>5. ASSUME NEW n \in 1..MaxUnits, NEW k \in Taken(n), ServerRecvData(n, k)
      PROVE  NothingLost'
  <2>1. n \in Nat /\ k \in 0..n
    BY MaxUnitsAssumption DEF Taken
  <2>2. conn = "open" /\ "rsend" \notin watch /\ up \in Flow
    BY <1>5 DEF ServerRecvData, Inv, Shape, PumpsAlternate, TypeOK
  <2>3. up.in \in Nat /\ up.out \in Nat /\ up.in = up.out
    BY <2>2 DEF NothingLost, Waiting, Flow
  <2>4. up' = Refill(up, n, k) /\ ("rsend" \in watch' <=> k < n) /\ UNCHANGED down
    BY <1>5, <2>2 DEF ServerRecvData
  <2>5. up'.in = up'.out + IF k < n THEN up'.len ELSE 0
    BY <2>1, <2>2, <2>3, <2>4, RefillKeeps
  <2>6. "ssend" \in watch' <=> "ssend" \in watch
    BY <1>5 DEF ServerRecvData
  <2> QED BY <2>2, <2>4, <2>5, <2>6 DEF NothingLost, Waiting
<1>6. CASE server_send_cb /\ conn' = "open"
  <2>1. conn = "open" /\ "ssend" \in watch /\ down \in Flow /\ UNCHANGED up
    BY <1>6 DEF server_send_cb, CloseBoth, Inv, Shape, TypeOK
  <2> PICK k \in Taken(down.len) :
        /\ down' = Drain(down, k)
        /\ watch' = IF k = down.len THEN (watch \ {"ssend"}) \cup {"rrecv"} ELSE watch
    BY <1>6 DEF server_send_cb, CloseBoth
  <2>2. down.len \in Nat /\ down.in \in Nat /\ down.out \in Nat /\ k \in 0..down.len
    BY <2>1 DEF Flow, Taken
  <2>3. down'.in = down.in /\ down'.out = down.out + k /\ down'.len = down.len - k
    BY DEF Drain
  <2>4. down.in = down.out + down.len
    BY <2>1 DEF NothingLost, Waiting
  <2>5. down'.in = down'.out + IF "ssend" \in watch' THEN down'.len ELSE 0
    BY <2>1, <2>2, <2>3, <2>4
  <2>6. "rsend" \in watch' <=> "rsend" \in watch
    OBVIOUS
  <2> QED BY <2>1, <2>5, <2>6 DEF NothingLost, Waiting
<1>7. CASE remote_recv_cb /\ conn' = "open"
  <2> PICK n \in 0..MaxUnits : \E k \in Taken(n) : RemoteRecvData(n, k)
    BY <1>7 DEF remote_recv_cb, CloseBoth
  <2> PICK k \in Taken(n) : RemoteRecvData(n, k)
    OBVIOUS
  <2>1. n \in Nat /\ k \in 0..n
    BY MaxUnitsAssumption DEF Taken
  <2>2. conn = "open" /\ "ssend" \notin watch /\ down \in Flow /\ UNCHANGED up
    BY <1>7 DEF remote_recv_cb, RemoteRecvData, Inv, Shape, PumpsAlternate, TypeOK
  <2>3. down.in \in Nat /\ down.out \in Nat /\ down.in = down.out
    BY <2>2 DEF NothingLost, Waiting, Flow
  <2>4. down' = Refill(down, n, k) /\ ("ssend" \in watch' <=> k < n)
    BY <2>2 DEF RemoteRecvData
  <2>5. down'.in = down'.out + IF k < n THEN down'.len ELSE 0
    BY <2>1, <2>2, <2>3, <2>4, RefillKeeps
  <2>6. "rsend" \in watch' <=> "rsend" \in watch
    BY DEF RemoteRecvData
  <2> QED BY <2>2, <2>4, <2>5, <2>6 DEF NothingLost, Waiting
<1>8. CASE remote_send_cb /\ conn' = "open"
  <2>1. conn = "open" /\ "rsend" \in watch /\ up \in Flow /\ UNCHANGED down
    BY <1>8 DEF remote_send_cb, CloseBoth, Inv, Shape, TypeOK
  <2>2. up.len \in Nat /\ up.in \in Nat /\ up.out \in Nat
    BY <2>1 DEF Flow
  <2>3. up.in = up.out + up.len
    BY <2>1 DEF NothingLost, Waiting
  <2>4. "ssend" \in watch' <=> "ssend" \in watch
    BY <1>8 DEF remote_send_cb, CloseBoth, RemoteSendNothing, RemoteSendData, NowConnected
  <2>5. up'.in = up'.out + IF "rsend" \in watch' THEN up'.len ELSE 0
    <3>1. CASE RemoteSendNothing
      BY <3>1, <2>2, <2>3 DEF RemoteSendNothing
    <3>2. ASSUME NEW k \in Taken(up.len), RemoteSendData(k)
          PROVE  up'.in = up'.out + IF "rsend" \in watch' THEN up'.len ELSE 0
      <4>1. k \in 0..up.len /\ up'.in = up.in /\ up'.out = up.out + k /\ up'.len = up.len - k
        BY <3>2 DEF Taken, RemoteSendData, Drain
      <4>2. "rsend" \in watch' <=> k # up.len
        BY <3>2, <2>1 DEF RemoteSendData, NowConnected
      <4> QED BY <4>1, <4>2, <2>2, <2>3
    <3> QED BY <1>8, <3>1, <3>2 DEF remote_send_cb, CloseBoth
  <2> QED BY <2>1, <2>4, <2>5 DEF NothingLost, Waiting
<1>9. CASE RequestCrash \/ ServerRecvEnds \/ remote_timeout_cb \/ free_connections
  BY <1>1, <1>9
     DEF RequestCrash, ServerRecvEnds, remote_timeout_cb, free_connections, CloseBoth
<1>10. CASE Request /\ conn # "open"
  BY <1>10 DEF Request, Connecting, ConnectedAtOnce, Inv, Shape
<1> QED
  BY <1>1, <1>2, <1>3, <1>4, <1>5, <1>6, <1>7, <1>8, <1>9, <1>10 DEF Next, server_recv_cb

\* Every unit read has been sent or waits with its watcher started, as long as a
\* socket that connects at once takes the first chunk whole (local.c:288-290).
THEOREM NothingIsLost ==
  ASSUME FreshTakes \subseteq {"all"}
  PROVE  Spec => []NothingLost
<1>1. Init => NothingLost
  BY DEF Init, NothingLost
<1>2. Inv /\ NothingLost /\ [Next]_vars => NothingLost'
  BY NextNothingLost
<1> QED BY <1>1, <1>2, Invariant, PTL DEF Spec

-----------------------------------------------------------------------------
(* Nothing is sent twice or left out.                                      *)

\* A buffer whose next unit is the one after the last sent.
AtNext(f) == f.base + f.idx = f.out

\* A new chunk in a buffer in which nothing waited begins there, ...
LEMMA RefillAtNext ==
  ASSUME NEW f \in Flow, NEW n \in Nat, NEW k \in 0..n, f.in = f.out, k < n
  PROVE  AtNext(Refill(f, n, k))
<1>1. Refill(f, n, k).base = f.in /\ Refill(f, n, k).idx = k /\ Refill(f, n, k).out = f.out + k
  BY DEF Refill
<1> QED BY <1>1 DEF AtNext

\* ... and a short send moves idx by what it took.
LEMMA DrainAtNext ==
  ASSUME NEW f \in Flow, NEW k \in 0..f.len, AtNext(f), k # f.len
  PROVE  AtNext(Drain(f, k))
<1>1. f.base \in Nat /\ f.idx \in Nat /\ f.out \in Nat /\ f.len \in Nat
  BY DEF Flow
<1>2. Drain(f, k).base = f.base /\ Drain(f, k).idx = f.idx + k /\ Drain(f, k).out = f.out + k
  BY DEF Drain
<1> QED BY <1>1, <1>2 DEF AtNext

\* Every step keeps both directions in order.  A chunk is read only when nothing
\* waits, which is where NothingLost comes in.
LEMMA NextInOrder ==
  ASSUME FreshTakes \subseteq {"all"}, Inv, NothingLost, InOrder, [Next]_vars
  PROVE  InOrder'
<1> SUFFICES /\ "rsend" \in watch' => AtNext(up')
             /\ "ssend" \in watch' => AtNext(down')
  BY DEF InOrder, AtNext
<1>1. /\ "rsend" \in watch => AtNext(up)
      /\ "ssend" \in watch => AtNext(down)
  BY DEF InOrder, AtNext
<1>2. up \in Flow /\ down \in Flow
  BY DEF Inv, TypeOK
<1>3. CASE CloseBoth \/ RequestCrash
  BY <1>3 DEF CloseBoth, RequestCrash
<1>4. CASE UNCHANGED vars \/ Greeting
  BY <1>1, <1>4 DEF vars, Greeting
<1>5. CASE accept_cb
  BY <1>5 DEF accept_cb
<1>6. CASE Request
  <2> PICK n \in 0..MaxUnits :
        Connecting(n) \/ \E k \in FreshTaken(n) : ConnectedAtOnce(n, k)
    BY <1>6 DEF Request
  <2>1. "srecv" \in watch /\ stage \in {0, 1}
    BY DEF Connecting, ConnectedAtOnce
  <2>2. watch = {"srecv"} /\ up = Empty
    BY <2>1 DEF Inv, Shape
  <2>3. CASE Connecting(n)
    <3>1. up'.base = 0 /\ up'.idx = 0 /\ up'.out = 0 /\ "ssend" \notin watch'
      BY <2>2, <2>3 DEF Connecting, Empty
    <3> QED BY <3>1 DEF AtNext
  <2>4. ASSUME NEW k \in FreshTaken(n), ConnectedAtOnce(n, k)
        PROVE  "rsend" \notin watch' /\ "ssend" \notin watch'
    BY <2>2, <2>4 DEF ConnectedAtOnce
  <2> QED BY <2>3, <2>4
<1>7. ASSUME NEW n \in 1..MaxUnits, NEW k \in Taken(n), ServerRecvData(n, k)
      PROVE  /\ "rsend" \in watch' => AtNext(up')
             /\ "ssend" \in watch' => AtNext(down')
  <2>1. n \in Nat /\ k \in 0..n
    BY MaxUnitsAssumption DEF Taken
  <2>2. conn = "open" /\ "rsend" \notin watch
    BY <1>7 DEF ServerRecvData, Inv, Shape, PumpsAlternate
  <2>3. up.in = up.out
    BY <1>2, <2>2 DEF NothingLost, Waiting, Flow
  <2>4. up' = Refill(up, n, k) /\ ("rsend" \in watch' => k < n)
        /\ ("ssend" \in watch' => "ssend" \in watch) /\ UNCHANGED down
    BY <1>7, <2>2 DEF ServerRecvData
  <2> QED BY <1>1, <1>2, <2>1, <2>3, <2>4, RefillAtNext
<1>8. CASE server_send_cb /\ ~CloseBoth
  <2> PICK k \in Taken(down.len) :
        /\ down' = Drain(down, k)
        /\ watch' = IF k = down.len THEN (watch \ {"ssend"}) \cup {"rrecv"} ELSE watch
        /\ UNCHANGED up
    BY <1>8 DEF server_send_cb
  <2>1. "ssend" \in watch /\ k \in 0..down.len
    BY <1>8 DEF server_send_cb, Taken
  <2> QED BY <1>1, <1>2, <2>1, DrainAtNext
<1>9. CASE remote_recv_cb /\ ~CloseBoth
  <2> PICK n \in 0..MaxUnits : \E k \in Taken(n) : RemoteRecvData(n, k)
    BY <1>9 DEF remote_recv_cb
  <2> PICK k \in Taken(n) : RemoteRecvData(n, k)
    OBVIOUS
  <2>1. n \in Nat /\ k \in 0..n
    BY MaxUnitsAssumption DEF Taken
  <2>2. conn = "open" /\ "ssend" \notin watch
    BY <1>9 DEF remote_recv_cb, Inv, Shape, PumpsAlternate, TypeOK
  <2>3. down.in = down.out
    BY <1>2, <2>2 DEF NothingLost, Waiting, Flow
  <2>4. down' = Refill(down, n, k) /\ ("ssend" \in watch' => k < n)
        /\ ("rsend" \in watch' => "rsend" \in watch) /\ UNCHANGED up
    BY <2>2 DEF RemoteRecvData
  <2> QED BY <1>1, <1>2, <2>1, <2>3, <2>4, RefillAtNext
<1>10. CASE remote_send_cb /\ ~CloseBoth
  <2>1. "rsend" \in watch /\ UNCHANGED down /\ ("ssend" \in watch' => "ssend" \in watch)
    BY <1>10 DEF remote_send_cb, RemoteSendNothing, RemoteSendData, NowConnected
  <2>2. CASE RemoteSendNothing
    BY <1>1, <2>1, <2>2 DEF RemoteSendNothing
  <2>3. ASSUME NEW k \in Taken(up.len), RemoteSendData(k)
        PROVE  "rsend" \in watch' => AtNext(up')
    <3>1. k \in 0..up.len /\ up' = Drain(up, k) /\ ("rsend" \in watch' => k # up.len)
      BY <2>3 DEF Taken, RemoteSendData, NowConnected
    <3> QED BY <1>1, <1>2, <2>1, <3>1, DrainAtNext
  <2> QED BY <1>1, <1>10, <2>1, <2>2, <2>3 DEF remote_send_cb
<1>11. CASE ServerRecvEnds \/ remote_timeout_cb \/ free_connections
  BY <1>3, <1>11 DEF ServerRecvEnds, remote_timeout_cb, free_connections
<1> QED
  BY <1>3, <1>4, <1>5, <1>6, <1>7, <1>8, <1>9, <1>10, <1>11 DEF Next, server_recv_cb

\* Over any run of short sends each unit is sent once and in its turn
\* (local.c:355, 367, 598, 690, 702, 760), with the condition NothingIsLost has.
THEOREM SentInOrder ==
  ASSUME FreshTakes \subseteq {"all"}
  PROVE  Spec => []InOrder
<1>1. Init => InOrder
  BY DEF Init, InOrder
<1>2. Inv /\ NothingLost /\ InOrder /\ [Next]_vars => InOrder'
  BY NextInOrder
<1> QED BY <1>1, <1>2, Invariant, NothingIsLost, PTL DEF Spec

-----------------------------------------------------------------------------
(* SsLocal implements Relay.                                               *)

\* Every step of a callback is a step of Relay or leaves its variables alone.
LEMMA StepRefines ==
  ASSUME FreshTakes \subseteq {"all"}, Inv, NothingLost, [Next]_vars
  PROVE  [Abstract!Next]_(Abstract!vars)
<1> USE DEF Abstract!Next, Abstract!vars, Abstract!Carry
<1>1. CloseBoth /\ conn = "open" => Abstract!Close
  BY DEF CloseBoth, Abstract!Close
<1>2. watch # {} => conn = "open"
  BY DEF Inv, Shape
<1>3. up.len \in Nat /\ up.in \in Nat /\ up.out \in Nat /\ down.len \in Nat /\ down.in \in Nat /\ down.out \in Nat
  BY DEF Inv, TypeOK, Flow
<1>4. CASE UNCHANGED vars
  BY <1>4 DEF vars
<1>5. CASE accept_cb
  BY <1>3, <1>5 DEF accept_cb, Abstract!Open, Inv, Shape, Empty
<1>6. CASE Greeting
  BY <1>6 DEF Greeting
<1>7. CASE Request
  <2> PICK n \in 0..MaxUnits :
        Connecting(n) \/ \E k \in FreshTaken(n) : ConnectedAtOnce(n, k)
    BY <1>7 DEF Request
  <2>1. n \in Nat
    BY MaxUnitsAssumption
  <2>2. "srecv" \in watch /\ stage \in {0, 1}
    BY DEF Connecting, ConnectedAtOnce
  <2>3. conn = "open" /\ up = Empty
    BY <1>2, <2>2 DEF Inv, Shape
  <2>4. CASE Connecting(n)
    <3>1. up' = [len |-> n, idx |-> 0, base |-> 0, in |-> 0 + n, out |-> 0] /\ UNCHANGED <<conn, down>>
      BY <2>3, <2>4 DEF Connecting, Empty
    <3>2. Abstract!Up
      BY <2>1, <2>3, <3>1 DEF Abstract!Up, Empty
    <3> QED BY <3>2
  <2>5. ASSUME NEW k \in FreshTaken(n), ConnectedAtOnce(n, k)
        PROVE  Abstract!Up
    <3>1. up'.in = 0 + n /\ up'.out = 0 + n /\ UNCHANGED <<conn, down>>
      BY <2>1, <2>3, <2>5, FreshAll DEF ConnectedAtOnce, Empty
    <3> QED BY <2>1, <2>3, <3>1 DEF Abstract!Up, Empty
  <2> QED BY <2>4, <2>5
<1>8. ASSUME NEW n \in 1..MaxUnits, NEW k \in Taken(n), ServerRecvData(n, k)
      PROVE  Abstract!Up
  <2>1. n \in Nat /\ k \in Nat /\ k <= n
    BY MaxUnitsAssumption, TakenNat
  <2>2. conn = "open" /\ "rsend" \notin watch
    BY <1>8 DEF ServerRecvData, Inv, Shape, PumpsAlternate
  <2>3. up.in = up.out
    BY <1>3, <2>2 DEF NothingLost, Waiting
  <2>4. up'.in = up.in + n /\ up'.out = up.out + k /\ UNCHANGED <<conn, down>>
    BY <1>8 DEF ServerRecvData, Refill
  <2> QED BY <1>3, <2>1, <2>2, <2>3, <2>4 DEF Abstract!Up
<1>9. CASE server_send_cb
  <2>1. conn = "open" /\ "ssend" \in watch
    BY <1>2, <1>9 DEF server_send_cb
  <2>2. ASSUME NEW k \in Taken(down.len), down' = Drain(down, k), UNCHANGED <<conn, up>>
        PROVE  Abstract!Down
    <3>1. k \in Nat /\ k <= down.len
      BY <1>3, TakenNat
    <3>2. down.in = down.out + down.len
      BY <2>1 DEF NothingLost, Waiting
    <3>3. down'.in = down.in /\ down'.out = down.out + k
      BY <2>2 DEF Drain
    <3> QED BY <1>3, <2>1, <2>2, <3>1, <3>2, <3>3 DEF Abstract!Down
  <2> QED BY <1>1, <1>9, <2>1, <2>2 DEF server_send_cb
<1>10. CASE remote_recv_cb
  <2>1. conn = "open" /\ "ssend" \notin watch
    BY <1>2, <1>10 DEF remote_recv_cb, Inv, Shape, TypeOK, PumpsAlternate
  <2>2. down.in = down.out
    BY <1>3, <2>1 DEF NothingLost, Waiting
  <2>3. ASSUME NEW n \in 0..MaxUnits, NEW k \in Taken(n), RemoteRecvData(n, k)
        PROVE  Abstract!Down
    <3>1. n \in Nat /\ k \in Nat /\ k <= n
      BY MaxUnitsAssumption, TakenNat
    <3>2. down'.in = down.in + n /\ down'.out = down.out + k /\ UNCHANGED <<conn, up>>
      BY <2>3 DEF RemoteRecvData, Refill
    <3> QED BY <1>3, <2>1, <2>2, <3>1, <3>2 DEF Abstract!Down
  <2> QED BY <1>1, <1>10, <2>1, <2>3 DEF remote_recv_cb
<1>11. CASE remote_send_cb
  <2>1. conn = "open" /\ "rsend" \in watch
    BY <1>2, <1>11 DEF remote_send_cb
  <2>2. CASE RemoteSendNothing /\ UNCHANGED <<conn, down>>
    BY <2>2 DEF RemoteSendNothing
  <2>3. ASSUME NEW k \in Taken(up.len), RemoteSendData(k), UNCHANGED <<conn, down>>
        PROVE  Abstract!Up
    <3>1. k \in Nat /\ k <= up.len
      BY <1>3, TakenNat
    <3>2. up.in = up.out + up.len
      BY <2>1 DEF NothingLost, Waiting
    <3>3. up'.in = up.in /\ up'.out = up.out + k
      BY <2>3 DEF RemoteSendData, Drain
    <3> QED BY <1>3, <2>1, <2>3, <3>1, <3>2, <3>3 DEF Abstract!Up
  <2> QED BY <1>1, <1>11, <2>1, <2>2, <2>3 DEF remote_send_cb
<1>12. CASE RequestCrash
  BY <1>2, <1>12 DEF RequestCrash, Abstract!Close
<1>13. CASE ServerRecvEnds \/ remote_timeout_cb \/ free_connections
  BY <1>1, <1>2, <1>13 DEF ServerRecvEnds, remote_timeout_cb, free_connections
<1> QED
  BY <1>4, <1>5, <1>6, <1>7, <1>8, <1>9, <1>10, <1>11, <1>12, <1>13 DEF Next, server_recv_cb

\* ss-local's callbacks implement the two pipes of Relay, with the same condition
\* on a socket that connects at once.
THEOREM ImplementsRelay ==
  ASSUME FreshTakes \subseteq {"all"}
  PROVE  Spec => RelaySpec
<1>1. Init => Abstract!Init
  BY DEF Init, Empty, Abstract!Init
<1>2. Inv /\ NothingLost /\ [Next]_vars => [Abstract!Next]_(Abstract!vars)
  BY StepRefines
<1> QED BY <1>1, <1>2, Invariant, NothingIsLost, PTL DEF Spec, RelaySpec, Abstract!Spec
=============================================================================
