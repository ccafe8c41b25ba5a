--------------------------- MODULE SsTunnelProofs ---------------------------
(***************************************************************************)
(* Proofs about SsTunnel, for every chunk size, total and header size.     *)
(* That nothing is lost or sent out of its turn, and that SsTunnel         *)
(* implements Relay, is proved for a new connection that takes the whole   *)
(* header.                                                                 *)
(***************************************************************************)
EXTENDS SsTunnel, TLAPS

\* What the watchers and the buffers are outside a relay, and while connecting.
Shape ==
  /\ conn # "open" => watch = {}
  /\ conn = "none" \/ (conn = "open" /\ remote = "connecting") => up = Empty /\ down = Empty
  /\ conn = "open" => remote # "null"
  /\ conn # "open" => remote = "null"

\* PumpsAlternate is inductive with Shape: no callback runs for a connection that
\* is not open, and the header finds both buffers empty.
Inv == TypeOK /\ Shape /\ PumpsAlternate

\* A buffer holds natural numbers.
LEMMA FlowNat ==
  ASSUME NEW f \in Flow
  PROVE  f.len \in Nat /\ f.idx \in Nat /\ f.base \in Nat /\ f.in \in Nat /\ f.out \in Nat
BY DEF Flow

\* The outcomes of a first send are numbers of units.
LEMMA FreshNat == ASSUME NEW n \in Nat, NEW k \in FreshTaken(n) PROVE k \in Nat /\ k <= n
BY DEF FreshTaken

\* Refill makes a buffer of a buffer.
LEMMA RefillFlow ==
  ASSUME NEW f \in Flow, NEW n \in Nat, NEW k \in 0..n
  PROVE  Refill(f, n, k) \in Flow
BY DEF Refill, Flow

\* Drain makes a buffer of a buffer.
LEMMA DrainFlow ==
  ASSUME NEW f \in Flow, NEW k \in 0..f.len
  PROVE  Drain(f, k) \in Flow
<1>1. f.len - k \in Nat /\ f.out + k \in Nat /\ f.in \in Nat /\ f.idx + k \in Nat /\ f.base \in Nat
  BY FlowNat
<1> QED BY <1>1 DEF Drain, Flow

\* Initially.
LEMMA InitInv == Init => Inv
BY DEF Init, Inv, TypeOK, Shape, PumpsAlternate, Empty, Flow, Watchers

\* Closing keeps the invariant.
LEMMA CloseInv == Inv /\ CloseBoth => Inv'
BY DEF Inv, TypeOK, Shape, PumpsAlternate, CloseBoth, Watchers

\* The destination goes out.
LEMMA SendAddrFlow ==
  ASSUME Inv, NEW k \in FreshTaken(HeaderUnits), SendAddr(k)
  PROVE  up' \in Flow
<1>1. k \in Nat
  BY FreshNat, HeaderUnitsAssumption
<1>2. up \in Flow /\ up.in + HeaderUnits \in Nat /\ up.out + k \in Nat
  BY <1>1, FlowNat, HeaderUnitsAssumption DEF Inv, TypeOK
<1> QED BY <1>2 DEF SendAddr, Flow

\* Every step keeps the invariant.
LEMMA NextInv == Inv /\ [Next]_vars => Inv'
<1> SUFFICES ASSUME Inv, [Next]_vars PROVE Inv'
  OBVIOUS
<1>1. CASE accept_cb
  <2> USE DEF Inv, TypeOK, Shape, PumpsAlternate
  <2>1. CASE AcceptDropped
    BY <1>1, <2>1 DEF accept_cb, AcceptDropped
  <2>2. CASE AcceptConnecting
    BY <1>1, <2>2 DEF accept_cb, AcceptConnecting, Watchers
  <2>3. CASE AcceptAtOnce
    <3> PICK k \in FreshTaken(HeaderUnits) : SendAddr(k)
      BY <2>3 DEF AcceptAtOnce
    <3>1. up' \in Flow
      BY SendAddrFlow
    <3> QED BY <1>1, <2>3, <3>1 DEF accept_cb, AcceptAtOnce, SendAddr, Watchers
  <2>4. CASE AcceptFails
    BY <2>4, CloseInv DEF AcceptFails
  <2> QED BY <1>1, <2>1, <2>2, <2>3, <2>4 DEF accept_cb
<1>2. ASSUME NEW n \in 1..MaxUnits, NEW k \in Taken(n), "srecv" \in watch, ServerRecvData(n, k)
      PROVE  Inv'
  <2>1. up' \in Flow
    BY <1>2, RefillFlow, MaxUnitsAssumption DEF ServerRecvData, Taken, Inv, TypeOK
  <2>2. conn = "open" /\ remote = "connected"
    BY <1>2 DEF Inv, Shape, TypeOK, PumpsAlternate
  <2> QED
    BY <1>2, <2>1, <2>2
       DEF ServerRecvData, Inv, TypeOK, Shape, PumpsAlternate, Watchers
<1>3. ASSUME NEW k \in Taken(down.len), "ssend" \in watch, down' = Drain(down, k),
             watch' = IF k = down.len THEN (watch \ {"ssend"}) \cup {"rrecv"} ELSE watch,
             UNCHANGED <<conn, remote, up>>
      PROVE  Inv'
  <2>1. down' \in Flow
    BY <1>3, DrainFlow DEF Taken, Inv, TypeOK
  <2>2. conn = "open" /\ remote = "connected"
    BY <1>3 DEF Inv, Shape, TypeOK, PumpsAlternate
  <2> QED
    BY <1>3, <2>1, <2>2 DEF Inv, TypeOK, Shape, PumpsAlternate, Watchers
<1>4. ASSUME NEW n \in 0..MaxUnits, NEW k \in Taken(n), "rrecv" \in watch, RemoteRecvData(n, k)
      PROVE  Inv'
  <2>1. down' \in Flow
    BY <1>4, RefillFlow, MaxUnitsAssumption DEF RemoteRecvData, Taken, Inv, TypeOK
  <2>2. conn = "open" /\ remote = "connected"
    BY <1>4 DEF Inv, Shape, TypeOK, PumpsAlternate
  <2> QED
    BY <1>4, <2>1, <2>2
       DEF RemoteRecvData, Inv, TypeOK, Shape, PumpsAlternate, Watchers
<1>5. ASSUME NEW k \in FreshTaken(HeaderUnits), "rsend" \in watch, remote = "connecting",
             SendAddr(k), UNCHANGED conn
      PROVE  Inv'
  <2>1. up' \in Flow
    BY <1>5, SendAddrFlow
  <2> QED
    BY <1>5, <2>1 DEF SendAddr, Inv, TypeOK, Shape, PumpsAlternate, Watchers
<1>6. ASSUME NEW k \in Taken(up.len), "rsend" \in watch, remote # "connecting",
             RemoteSendData(k), UNCHANGED conn
      PROVE  Inv'
  <2>1. up' \in Flow
    BY <1>6, DrainFlow DEF RemoteSendData, Taken, Inv, TypeOK
  <2> QED
    BY <1>6, <2>1
       DEF RemoteSendData, Inv, TypeOK, Shape, PumpsAlternate, Watchers
<1>7. CASE CloseBoth
  BY <1>7, CloseInv
<1>8. CASE UNCHANGED vars
  BY <1>8 DEF vars, Inv, TypeOK, Shape, PumpsAlternate
<1>9. CASE server_recv_cb
  BY <1>2, <1>7, <1>9 DEF server_recv_cb
<1>10. CASE server_send_cb
  BY <1>3, <1>7, <1>10 DEF server_send_cb
<1>11. CASE remote_recv_cb
  BY <1>4, <1>7, <1>11 DEF remote_recv_cb
<1>12. CASE remote_send_cb
  BY <1>5, <1>6, <1>7, <1>12 DEF remote_send_cb
<1>13. CASE remote_timeout_cb
  BY <1>7, <1>13 DEF remote_timeout_cb
<1> QED BY <1>1, <1>8, <1>9, <1>10, <1>11, <1>12, <1>13 DEF Next

\* The invariant holds in every state.
LEMMA Invariant == Spec => []Inv
BY InitInv, NextInv, PTL DEF Spec

\* Every variable keeps its type.
THEOREM TypeCorrect == Spec => []TypeOK
BY Invariant, PTL DEF Inv

\* Each direction has exactly one of its two watchers started, and neither side
\* is read while the connection is being made (tunnel.c:443-444, 675-676).
THEOREM OneWatcherPerPump == Spec => []PumpsAlternate
BY Invariant, PTL DEF Inv

-----------------------------------------------------------------------------
(* Nothing is lost.                                                        *)

\* The numbers of both buffers.
LEMMA Numbers ==
  ASSUME Inv
  PROVE  /\ up.len \in Nat /\ up.in \in Nat /\ up.out \in Nat
         /\ down.len \in Nat /\ down.in \in Nat /\ down.out \in Nat
BY FlowNat DEF Inv, TypeOK

\* A new connection that takes all of the header leaves nothing of it.
LEMMA HeaderTaken ==
  ASSUME FreshTakes \subseteq {"all"}, NEW k \in FreshTaken(HeaderUnits)
  PROVE  k = HeaderUnits
BY HeaderUnitsAssumption DEF FreshTaken

\* A chunk of n units, k of them sent at once, keeps the account of a buffer in
\* which nothing waited.
LEMMA RefillKeeps ==
  ASSUME NEW f \in Flow, NEW n \in Nat, NEW k \in 0..n, f.in = f.out
  PROVE  /\ Refill(f, n, k).in = f.in + n
         /\ Refill(f, n, k).out = f.out + k
         /\ Refill(f, n, k).in = Refill(f, n, k).out + IF k < n THEN Refill(f, n, k).len ELSE 0
<1>1. f.in \in Nat /\ f.out \in Nat
  BY FlowNat
<1>2. Refill(f, n, k).in = f.in + n /\ Refill(f, n, k).out = f.out + k
  BY DEF Refill
<1>3. k < n => Refill(f, n, k).len = n - k
  BY DEF Refill
<1>4. ~(k < n) => k = n
  OBVIOUS
<1> QED BY <1>1, <1>2, <1>3, <1>4

\* The header on a connection that was being made.
LEMMA SendAddrKeeps ==
  ASSUME FreshTakes \subseteq {"all"}, up = Empty, down = Empty,
         NEW k \in FreshTaken(HeaderUnits), SendAddr(k)
  PROVE  /\ up'.in = HeaderUnits /\ up'.out = HeaderUnits
         /\ down' = Empty /\ down'.in = 0 /\ down'.out = 0
<1>1. k = HeaderUnits /\ HeaderUnits \in Nat
  BY HeaderTaken, HeaderUnitsAssumption
<1> QED BY <1>1 DEF SendAddr, Empty

\* Every step keeps the accounts of both directions.
LEMMA NextNothingLost ==
  ASSUME FreshTakes \subseteq {"all"}, Inv, NothingLost, [Next]_vars
  PROVE  NothingLost'
<1>1. CASE conn' # "open" \/ remote' # "connected" \/ UNCHANGED vars
  BY <1>1 DEF NothingLost, Waiting, vars
<1>2. ASSUME NEW k \in FreshTaken(HeaderUnits), SendAddr(k), up = Empty, down = Empty,
             watch \cap {"ssend"} = {}
      PROVE  NothingLost'
  <2>1. "rsend" \notin watch' /\ "ssend" \notin watch'
    BY <1>2 DEF SendAddr
  <2>2. up'.in = HeaderUnits /\ up'.out = HeaderUnits /\ down'.in = 0 /\ down'.out = 0
    BY <1>2, SendAddrKeeps
  <2> QED BY <2>1, <2>2, HeaderUnitsAssumption DEF NothingLost, Waiting
<1>3. CASE accept_cb
  <2>1. CASE AcceptAtOnce
    BY <1>2, <1>3, <2>1 DEF accept_cb, AcceptAtOnce, Inv, Shape
  <2> QED
    BY <1>1, <1>3, <2>1 DEF accept_cb, AcceptDropped, AcceptConnecting, AcceptFails, CloseBoth
<1>4. ASSUME NEW n \in 1..MaxUnits, NEW k \in Taken(n), "srecv" \in watch, ServerRecvData(n, k)
      PROVE  NothingLost'
  <2>1. n \in Nat /\ k \in 0..n /\ up \in Flow
    BY MaxUnitsAssumption DEF Taken, Inv, TypeOK
  <2>2. conn = "open" /\ remote = "connected" /\ "rsend" \notin watch
    BY <1>4 DEF Inv, Shape, TypeOK, PumpsAlternate
  <2>3. up.in = up.out
    BY <2>2, Numbers DEF NothingLost, Waiting
  <2>4. up' = Refill(up, n, k) /\ ("rsend" \in watch' <=> k < n)
        /\ ("ssend" \in watch' <=> "ssend" \in watch) /\ UNCHANGED <<conn, remote, down>>
    BY <1>4, <2>2 DEF ServerRecvData
  <2>5. up'.in = up'.out + IF k < n THEN up'.len ELSE 0
    BY <2>1, <2>3, <2>4, RefillKeeps
  <2> QED BY <2>2, <2>4, <2>5 DEF NothingLost, Waiting
<1>5. ASSUME NEW k \in Taken(down.len), "ssend" \in watch, down' = Drain(down, k),
             watch' = IF k = down.len THEN (watch \ {"ssend"}) \cup {"rrecv"} ELSE watch,
             UNCHANGED <<conn, remote, up>>
      PROVE  NothingLost'
  <2>1. conn = "open" /\ remote = "connected" /\ k \in 0..down.len
    BY <1>5 DEF Inv, Shape, TypeOK, PumpsAlternate, Taken
  <2>2. down.in = down.out + down.len
    BY <1>5, <2>1 DEF NothingLost, Waiting
  <2>3. down'.in = down.in /\ down'.out = down.out + k /\ down'.len = down.len - k
    BY <1>5 DEF Drain
  <2>4. ("ssend" \in watch' <=> k # down.len) /\ ("rsend" \in watch' <=> "rsend" \in watch)
    BY <1>5
  <2>5. down'.in = down'.out + IF "ssend" \in watch' THEN down'.len ELSE 0
    BY <2>1, <2>2, <2>3, <2>4, Numbers
  <2> QED BY <1>5, <2>1, <2>4, <2>5 DEF NothingLost, Waiting
<1>6. ASSUME NEW n \in 0..MaxUnits, NEW k \in Taken(n), "rrecv" \in watch, RemoteRecvData(n, k)
      PROVE  NothingLost'
  <2>1. n \in Nat /\ k \in 0..n /\ down \in Flow
    BY MaxUnitsAssumption DEF Taken, Inv, TypeOK
  <2>2. conn = "open" /\ remote = "connected" /\ "ssend" \notin watch
    BY <1>6 DEF Inv, Shape, TypeOK, PumpsAlternate
  <2>3. down.in = down.out
    BY <2>2, Numbers DEF NothingLost, Waiting
  <2>4. down' = Refill(down, n, k) /\ ("ssend" \in watch' <=> k < n)
        /\ ("rsend" \in watch' <=> "rsend" \in watch) /\ UNCHANGED <<conn, remote, up>>
    BY <1>6, <2>2 DEF RemoteRecvData
  <2>5. down'.in = down'.out + IF k < n THEN down'.len ELSE 0
    BY <2>1, <2>3, <2>4, RefillKeeps
  <2> QED BY <2>2, <2>4, <2>5 DEF NothingLost, Waiting
<1>7. ASSUME NEW k \in Taken(up.len), "rsend" \in watch, remote # "connecting",
             RemoteSendData(k), UNCHANGED conn
      PROVE  NothingLost'
  <2>1. conn = "open" /\ remote = "connected" /\ k \in 0..up.len
    BY <1>7 DEF Inv, Shape, TypeOK, Taken
  <2>2. up.in = up.out + up.len
    BY <1>7, <2>1 DEF NothingLost, Waiting
  <2>3. up'.in = up.in /\ up'.out = up.out + k /\ up'.len = up.len - k
    BY <1>7 DEF RemoteSendData, Drain
  <2>4. ("rsend" \in watch' <=> k # up.len) /\ ("ssend" \in watch' <=> "ssend" \in watch)
    BY <1>7 DEF RemoteSendData
  <2>5. up'.in = up'.out + IF "rsend" \in watch' THEN up'.len ELSE 0
    BY <2>1, <2>2, <2>3, <2>4, Numbers
  <2> QED BY <1>7, <2>1, <2>4, <2>5 DEF NothingLost, Waiting, RemoteSendData
<1>8. CASE CloseBoth
  BY <1>1, <1>8 DEF CloseBoth
<1>9. CASE server_recv_cb
  BY <1>4, <1>8, <1>9 DEF server_recv_cb
<1>10. CASE server_send_cb
  BY <1>5, <1>8, <1>10 DEF server_send_cb
<1>11. CASE remote_recv_cb
  BY <1>6, <1>8, <1>11 DEF remote_recv_cb
<1>12. CASE remote_send_cb
  <2>1. "rsend" \in watch /\ conn = "open"
    BY <1>12 DEF remote_send_cb, Inv, Shape
  <2>2. remote = "connecting" => up = Empty /\ down = Empty /\ watch \cap {"ssend"} = {}
    BY <2>1 DEF Inv, Shape, PumpsAlternate
  <2> QED BY <1>2, <1>7, <1>8, <1>12, <2>1, <2>2 DEF remote_send_cb
<1>13. CASE remote_timeout_cb
  BY <1>8, <1>13 DEF remote_timeout_cb
<1> QED BY <1>1, <1>3, <1>9, <1>10, <1>11, <1>12, <1>13 DEF Next

\* Every unit read has been sent or waits with its watcher started, as long as a
\* new connection takes the header whole (tunnel.c:432-436).
THEOREM NothingIsLost ==
  ASSUME FreshTakes \subseteq {"all"}
  PROVE  Spec => []NothingLost
<1>1. Init => NothingLost
  BY DEF Init, NothingLost
<1>2. Inv /\ NothingLost /\ [Next]_vars => NothingLost'
  BY NextNothingLost
<1> QED BY <1>1, <1>2, Invariant, PTL DEF Spec

-----------------------------------------------------------------------------
(* Nothing is sent twice or left out.                                      *)

\* A buffer whose next unit is the one after the last sent.
AtNext(f) == f.base + f.idx = f.out

\* A new chunk in a buffer in which nothing waited begins there, ...
LEMMA RefillAtNext ==
  ASSUME NEW f \in Flow, NEW n \in Nat, NEW k \in 0..n, f.in = f.out, k < n
  PROVE  AtNext(Refill(f, n, k))
<1>1. Refill(f, n, k).base = f.in /\ Refill(f, n, k).idx = k /\ Refill(f, n, k).out = f.out + k
  BY DEF Refill
<1> QED BY <1>1 DEF AtNext

\* ... and a short send moves idx by what it took.
LEMMA DrainAtNext ==
  ASSUME NEW f \in Flow, NEW k \in 0..f.len, AtNext(f), k # f.len
  PROVE  AtNext(Drain(f, k))
<1>1. f.base \in Nat /\ f.idx \in Nat /\ f.out \in Nat /\ f.len \in Nat
  BY FlowNat
<1>2. Drain(f, k).base = f.base /\ Drain(f, k).idx = f.idx + k /\ Drain(f, k).out = f.out + k
  BY DEF Drain
<1> QED BY <1>1, <1>2 DEF AtNext

\* Every step keeps both directions in order; a chunk is read only when nothing
\* waits.
LEMMA NextInOrder ==
  ASSUME FreshTakes \subseteq {"all"}, Inv, NothingLost, InOrder, [Next]_vars
  PROVE  InOrder'
<1> SUFFICES /\ "rsend" \in watch' => AtNext(up')
             /\ "ssend" \in watch' => AtNext(down')
  BY DEF InOrder, AtNext
<1>1. /\ "rsend" \in watch => AtNext(up)
      /\ "ssend" \in watch => AtNext(down)
  BY DEF InOrder, AtNext
<1>2. up \in Flow /\ down \in Flow
  BY DEF Inv, TypeOK
<1>3. CASE CloseBoth
  BY <1>3 DEF CloseBoth
<1>4. CASE UNCHANGED vars
  BY <1>1, <1>4 DEF vars
<1>5. ASSUME NEW k, SendAddr(k), "ssend" \notin watch
      PROVE  "rsend" \notin watch' /\ "ssend" \notin watch'
  BY <1>5 DEF SendAddr
<1>6. CASE accept_cb
  <2>1. watch = {} /\ up = Empty
    BY <1>6 DEF accept_cb, Inv, Shape
  <2>2. CASE AcceptConnecting
    BY <2>1, <2>2 DEF AcceptConnecting, AtNext, Empty
  <2>3. CASE AcceptDropped
    BY <2>1, <2>3 DEF AcceptDropped
  <2>4. CASE AcceptAtOnce
    BY <1>5, <2>1, <2>4 DEF AcceptAtOnce
  <2> QED BY <1>3, <1>6, <2>2, <2>3, <2>4 DEF accept_cb, AcceptFails
<1>7. CASE server_recv_cb /\ ~CloseBoth
  <2> PICK n \in 1..MaxUnits : \E k \in Taken(n) : ServerRecvData(n, k)
    BY <1>7 DEF server_recv_cb
  <2> PICK k \in Taken(n) : ServerRecvData(n, k)
    OBVIOUS
  <2>1. n \in Nat /\ k \in 0..n
    BY MaxUnitsAssumption DEF Taken
  <2>2. conn = "open" /\ remote = "connected" /\ "rsend" \notin watch
    BY <1>7 DEF server_recv_cb, Inv, Shape, TypeOK, PumpsAlternate
  <2>3. up.in = up.out
    BY <2>2, Numbers DEF NothingLost, Waiting
  <2>4. up' = Refill(up, n, k) /\ ("rsend" \in watch' => k < n)
        /\ ("ssend" \in watch' => "ssend" \in watch) /\ UNCHANGED down
    BY <2>2 DEF ServerRecvData
  <2> QED BY <1>1, <1>2, <2>1, <2>3, <2>4, RefillAtNext
<1>8. CASE server_send_cb /\ ~CloseBoth
  <2> PICK k \in Taken(down.len) :
        /\ down' = Drain(down, k)
        /\ watch' = IF k = down.len THEN (watch \ {"ssend"}) \cup {"rrecv"} ELSE watch
        /\ UNCHANGED up
    BY <1>8 DEF server_send_cb
  <2>1. "ssend" \in watch /\ k \in 0..down.len
    BY <1>8 DEF server_send_cb, Taken
  <2> QED BY <1>1, <1>2, <2>1, DrainAtNext
<1>9. CASE remote_recv_cb /\ ~CloseBoth
  <2> PICK n \in 0..MaxUnits : \E k \in Taken(n) : RemoteRecvData(n, k)
    BY <1>9 DEF remote_recv_cb
  <2> PICK k \in Taken(n) : RemoteRecvData(n, k)
    OBVIOUS
  <2>1. n \in Nat /\ k \in 0..n
    BY MaxUnitsAssumption DEF Taken
  <2>2. conn = "open" /\ remote = "connected" /\ "ssend" \notin watch
    BY <1>9 DEF remote_recv_cb, Inv, Shape, TypeOK, PumpsAlternate
  <2>3. down.in = down.out
    BY <2>2, Numbers DEF NothingLost, Waiting
  <2>4. down' = Refill(down, n, k) /\ ("ssend" \in watch' => k < n)
        /\ ("rsend" \in watch' => "rsend" \in watch) /\ UNCHANGED up
    BY <2>2 DEF RemoteRecvData
  <2> QED BY <1>1, <1>2, <2>1, <2>3, <2>4, RefillAtNext
<1>10. CASE remote_send_cb /\ ~CloseBoth
  <2>1. "rsend" \in watch /\ conn = "open"
    BY <1>10 DEF remote_send_cb, Inv, Shape
  <2>2. CASE remote = "connecting"
    <3>1. "ssend" \notin watch
      BY <2>1, <2>2 DEF Inv, PumpsAlternate
    <3> QED BY <1>5, <1>10, <2>2, <3>1 DEF remote_send_cb
  <2>3. CASE remote # "connecting"
    <3> PICK k \in Taken(up.len) : RemoteSendData(k)
      BY <1>10, <2>3 DEF remote_send_cb
    <3>1. k \in 0..up.len /\ up' = Drain(up, k) /\ ("rsend" \in watch' => k # up.len)
          /\ ("ssend" \in watch' => "ssend" \in watch) /\ UNCHANGED down
      BY DEF Taken, RemoteSendData
    <3> QED BY <1>1, <1>2, <2>1, <3>1, DrainAtNext
  <2> QED BY <2>2, <2>3
<1> QED
  BY <1>3, <1>4, <1>6, <1>7, <1>8, <1>9, <1>10
     DEF Next, server_recv_cb, server_send_cb, remote_recv_cb, remote_send_cb, remote_timeout_cb

\* Over any run of short sends each unit is sent once and in its turn
\* (tunnel.c:217, 229, 260, 337, 349, 475), with the condition NothingIsLost has.
THEOREM SentInOrder ==
  ASSUME FreshTakes \subseteq {"all"}
  PROVE  Spec => []InOrder
<1>1. Init => InOrder
  BY DEF Init, InOrder
<1>2. Inv /\ NothingLost /\ InOrder /\ [Next]_vars => InOrder'
  BY NextInOrder
<1> QED BY <1>1, <1>2, Invariant, NothingIsLost, PTL DEF Spec

-----------------------------------------------------------------------------
(* SsTunnel implements Relay.                                              *)

\* Every step of a callback is a step of Relay or leaves its variables alone.
LEMMA StepRefines ==
  ASSUME FreshTakes \subseteq {"all"}, Inv, NothingLost, [Next]_vars
  PROVE  [Abstract!Next]_(Abstract!vars)
<1> USE DEF Abstract!Next, Abstract!vars, Abstract!Carry
<1>1. CloseBoth /\ conn \in {"none", "open"} => Abstract!Close
  BY DEF CloseBoth, Abstract!Close
<1>2. watch # {} => conn = "open"
  BY DEF Inv, Shape
<1>3. CASE UNCHANGED vars
  BY <1>3 DEF vars
<1>4. CASE accept_cb
  <2>1. CASE AcceptDropped
    BY <1>4, <2>1 DEF accept_cb, AcceptDropped, Abstract!Close
  <2>2. CASE AcceptConnecting
    BY <1>4, <2>2, Numbers DEF accept_cb, AcceptConnecting, Abstract!Open, Inv, Shape, Empty
  <2>3. CASE AcceptAtOnce
    <3>1. up = Empty /\ down = Empty
      BY <1>4 DEF accept_cb, Inv, Shape
    <3>2. up'.in = HeaderUnits /\ up'.out = HeaderUnits /\ down' = Empty
      BY <2>3, <3>1, SendAddrKeeps DEF AcceptAtOnce
    <3> QED
      BY <1>4, <2>3, <3>1, <3>2, HeaderUnitsAssumption
         DEF accept_cb, AcceptAtOnce, Abstract!Open, Empty
  <2>4. CASE AcceptFails
    BY <1>1, <1>4, <2>4 DEF accept_cb, AcceptFails
  <2> QED BY <1>4, <2>1, <2>2, <2>3, <2>4 DEF accept_cb
<1>5. ASSUME NEW n \in 1..MaxUnits, NEW k \in Taken(n), "srecv" \in watch, ServerRecvData(n, k)
      PROVE  Abstract!Up
  <2>1. n \in Nat /\ k \in 0..n /\ up \in Flow
    BY MaxUnitsAssumption DEF Taken, Inv, TypeOK
  <2>2. conn = "open" /\ remote = "connected" /\ "rsend" \notin watch
    BY <1>5 DEF Inv, Shape, TypeOK, PumpsAlternate
  <2>3. up.in = up.out
    BY <2>2, Numbers DEF NothingLost, Waiting
  <2>4. up'.in = up.in + n /\ up'.out = up.out + k /\ UNCHANGED <<conn, down>>
    BY <1>5 DEF ServerRecvData, Refill
  <2> QED BY <2>1, <2>2, <2>3, <2>4, Numbers DEF Abstract!Up
<1>6. ASSUME NEW k \in Taken(down.len), "ssend" \in watch, down' = Drain(down, k),
             UNCHANGED <<conn, up>>
      PROVE  Abstract!Down
  <2>1. conn = "open" /\ remote = "connected" /\ k \in 0..down.len
    BY <1>6 DEF Inv, Shape, TypeOK, PumpsAlternate, Taken
  <2>2. down.in = down.out + down.len
    BY <1>6, <2>1 DEF NothingLost, Waiting
  <2>3. down'.in = down.in /\ down'.out = down.out + k
    BY <1>6 DEF Drain
  <2> QED BY <1>6, <2>1, <2>2, <2>3, Numbers DEF Abstract!Down
<1>7. ASSUME NEW n \in 0..MaxUnits, NEW k \in Taken(n), "rrecv" \in watch, RemoteRecvData(n, k)
      PROVE  Abstract!Down
  <2>1. n \in Nat /\ k \in 0..n /\ down \in Flow
    BY MaxUnitsAssumption DEF Taken, Inv, TypeOK
  <2>2. conn = "open" /\ remote = "connected" /\ "ssend" \notin watch
    BY <1>7 DEF Inv, Shape, TypeOK, PumpsAlternate
  <2>3. down.in = down.out
    BY <2>2, Numbers DEF NothingLost, Waiting
  <2>4. down'.in = down.in + n /\ down'.out = down.out + k /\ UNCHANGED <<conn, up>>
    BY <1>7 DEF RemoteRecvData, Refill
  <2> QED BY <2>1, <2>2, <2>3, <2>4, Numbers DEF Abstract!Down
<1>8. ASSUME NEW k \in FreshTaken(HeaderUnits), remote = "connecting", conn = "open",
             SendAddr(k), UNCHANGED conn
      PROVE  Abstract!Up
  <2>1. up = Empty /\ down = Empty
    BY <1>8 DEF Inv, Shape
  <2>2. up'.in = HeaderUnits /\ up'.out = HeaderUnits /\ down' = Empty
    BY <1>8, <2>1, SendAddrKeeps
  <2> QED BY <1>8, <2>1, <2>2, HeaderUnitsAssumption DEF Abstract!Up, Empty
<1>9. ASSUME NEW k \in Taken(up.len), "rsend" \in watch, remote # "connecting",
             RemoteSendData(k), UNCHANGED conn
      PROVE  Abstract!Up
  <2>1. conn = "open" /\ remote = "connected" /\ k \in 0..up.len
    BY <1>9 DEF Inv, Shape, TypeOK, Taken
  <2>2. up.in = up.out + up.len
    BY <1>9, <2>1 DEF NothingLost, Waiting
  <2>3. up'.in = up.in /\ up'.out = up.out + k /\ UNCHANGED down
    BY <1>9 DEF RemoteSendData, Drain
  <2> QED BY <1>9, <2>1, <2>2, <2>3, Numbers DEF Abstract!Up
<1>10. CASE server_recv_cb
  BY <1>1, <1>2, <1>5, <1>10 DEF server_recv_cb
<1>11. CASE server_send_cb
  BY <1>1, <1>2, <1>6, <1>11 DEF server_send_cb
<1>12. CASE remote_recv_cb
  BY <1>1, <1>2, <1>7, <1>12 DEF remote_recv_cb
<1>13. CASE remote_send_cb
  BY <1>1, <1>2, <1>8, <1>9, <1>13 DEF remote_send_cb
<1>14. CASE remote_timeout_cb
  BY <1>1, <1>2, <1>14 DEF remote_timeout_cb
<1> QED BY <1>3, <1>4, <1>10, <1>11, <1>12, <1>13, <1>14 DEF Next

\* ss-tunnel's callbacks implement the two pipes of Relay, with the same condition
\* on the header.
THEOREM ImplementsRelay ==
  ASSUME FreshTakes \subseteq {"all"}
  PROVE  Spec => RelaySpec
<1>1. Init => Abstract!Init
  BY DEF Init, Empty, Abstract!Init
<1>2. Inv /\ NothingLost /\ [Next]_vars => [Abstract!Next]_(Abstract!vars)
  BY StepRefines
<1> QED BY <1>1, <1>2, Invariant, NothingIsLost, PTL DEF Spec, RelaySpec, Abstract!Spec
=============================================================================
