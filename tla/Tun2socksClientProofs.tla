----------------------- MODULE Tun2socksClientProofs -----------------------
(***************************************************************************)
(* Proofs about Tun2socksClient, for every size of the window and of the   *)
(* buffers.                                                                *)
(***************************************************************************)
EXTENDS Tun2socksClient, TLAPS

\* Which callbacks are set on an allocated client, and what its fields are before
\* the SOCKS side is up.
Wired ==
  /\ state = "none" =>
       /\ ~client_closed /\ ~socks_closed /\ ~socks_up
       /\ buf_used = 0 /\ wnd = Wnd /\ upIn = upOut /\ dnIn = dnOut
  /\ state = "alloc" /\ ~client_closed =>
       /\ "err" \in cb
       /\ ~socks_closed => "recv" \in cb
       /\ socks_up => "sent" \in cb
  /\ ~socks_up => used = -1 /\ tcp_pending = 0

\* The properties support each other: the window is right because nothing of buf
\* is lost, a half-closed client has work because a buffer that is not done always
\* has data to be confirmed.
Inv ==
  /\ ClientOK /\ Wired /\ CallbacksSafe /\ NeverRefused /\ UpKept /\ DownKept /\ NeverStuck

USE DEF flags, upVars, dnVars

\* Initially.
LEMMA InitInv == Init => Inv
<1> SUFFICES ASSUME Init PROVE Inv
  OBVIOUS
<1>1. ClientOK
  <2>1. /\ client_closed \in BOOLEAN /\ socks_up \in BOOLEAN /\ socks_closed \in BOOLEAN
        /\ refused \in BOOLEAN /\ waiting \in BOOLEAN /\ receiving \in BOOLEAN
    BY DEF Init
  <2>2. /\ buf_used \in 0..Wnd /\ wnd \in 0..Wnd /\ sending \in 0..Wnd
        /\ used \in {-1} \cup 1..RecvBuf /\ sent \in 0..RecvBuf /\ tcp_pending \in 0..SndBuf
    BY WndAssumption, SndBufAssumption, RecvBufAssumption DEF Init
  <2> QED BY <2>1, <2>2 DEF Init, ClientOK
<1>2. Wired /\ UpKept /\ DownKept /\ NeverStuck
  BY DEF Init, Wired, UpKept, DownKept, NeverStuck
<1>3. CallbacksSafe /\ NeverRefused
  BY DEF Init, CallbacksSafe, NeverRefused
<1> QED BY <1>1, <1>2, <1>3 DEF Inv

\* A connection is taken.
LEMMA AcceptInv == Inv /\ listener_accept_func => Inv'
BY WndAssumption
   DEF listener_accept_func, Inv, ClientOK, Wired, CallbacksSafe, NeverRefused, UpKept,
       DownKept, NeverStuck

\* A freed client satisfies the invariant as long as its counters have their types.
LEMMA DeallocInv ==
  ASSUME ClientOK, NeverRefused, Dealloc, UNCHANGED <<buf_used, wnd, refused, upIn, upOut>>,
         socks_up' \in BOOLEAN, waiting' \in BOOLEAN,
         used' \in {-1} \cup 1..RecvBuf, sent' \in 0..RecvBuf, tcp_pending' \in 0..SndBuf,
         dnIn' \in Nat, dnOut' \in Nat, ~socks_up' => used' = -1 /\ tcp_pending' = 0
  PROVE  Inv'
<1>1. ClientOK'
  <2>1. client_closed' \in BOOLEAN /\ socks_closed' \in BOOLEAN /\ receiving' \in BOOLEAN
    BY DEF Dealloc
  <2>2. sending' \in 0..Wnd
    BY WndAssumption DEF Dealloc
  <2> QED BY <2>1, <2>2 DEF Dealloc, ClientOK
<1>2. Wired' /\ UpKept' /\ DownKept' /\ NeverStuck'
  BY DEF Dealloc, Wired, UpKept, DownKept, NeverStuck
<1>3. CallbacksSafe' /\ NeverRefused'
  BY DEF Dealloc, CallbacksSafe, NeverRefused
<1> QED BY <1>1, <1>2, <1>3 DEF Inv

\* The application's side goes.
LEMMA FreedInv ==
  ASSUME Inv, state = "alloc", ~client_closed, FreedClient(receiving),
         UNCHANGED <<socks_up, upVars, dnVars>>
  PROVE  Inv'
<1>1. CASE Dealloc
  BY <1>1, DeallocInv DEF Inv, ClientOK, Wired
<1>2. CASE ~Dealloc
  BY <1>2
     DEF FreedClient, Inv, ClientOK, Wired, CallbacksSafe, NeverRefused, UpKept, DownKept, NeverStuck
<1> QED BY <1>1, <1>2

\* The SOCKS side goes.
LEMMA FreeSocksInv ==
  ASSUME Inv, state = "alloc", ~socks_closed, FreeSocks, UNCHANGED <<socks_up, upVars, dnVars>>
  PROVE  Inv'
<1>1. CASE Dealloc
  BY <1>1, DeallocInv DEF Inv, ClientOK, Wired
<1>2. CASE ~Dealloc
  <2>1. /\ socks_up /\ (used >= 0 \/ tcp_pending > 0) /\ ~client_closed
        /\ socks_closed' = TRUE
        /\ cb' = cb \ {"recv"} /\ sending' = 0 /\ receiving' = FALSE
        /\ UNCHANGED <<state, client_closed>>
    BY <1>2 DEF FreeSocks
  <2>2. "sent" \in cb /\ (used > 0 => tcp_pending > 0) /\ used # 0
    BY <2>1 DEF Inv, ClientOK, Wired, CallbacksSafe
  <2>3. tcp_pending > 0
    BY <2>1, <2>2 DEF Inv, ClientOK
  <2>4. ClientOK'
    <3>1. socks_closed' \in BOOLEAN /\ receiving' \in BOOLEAN
      BY <2>1
    <3>2. sending' \in 0..Wnd
      BY <2>1, WndAssumption
    <3> QED BY <2>1, <3>1, <3>2 DEF Inv, ClientOK
  <2>5. Wired' /\ UpKept' /\ DownKept' /\ NeverStuck'
    BY <2>1, <2>2, <2>3 DEF Inv, Wired, UpKept, DownKept, NeverStuck
  <2>6. CallbacksSafe' /\ NeverRefused'
    BY <2>1 DEF Inv, CallbacksSafe, NeverRefused
  <2> QED BY <2>4, <2>5, <2>6 DEF Inv
<1> QED BY <1>1, <1>2

\* Data of the application.
LEMMA ClientRecvDataInv ==
  ASSUME Inv, NEW n \in 1..Wnd, ClientRecvData(n)
  PROVE  Inv'
<1>1. n \in Nat /\ n > 0 /\ buf_used \in Nat /\ wnd \in Nat /\ upIn \in Nat /\ upOut \in Nat
  BY WndAssumption DEF Inv, ClientOK
<1>2. "recv" \in cb /\ state = "alloc" /\ ~client_closed /\ ~socks_closed
  BY DEF ClientRecvData, Inv, CallbacksSafe
<1>3. wnd = Wnd - buf_used /\ n <= wnd
  BY <1>2 DEF Inv, NeverRefused, ClientRecvData
<1>4. /\ buf_used' = buf_used + n /\ upIn' = upIn + n /\ wnd' = wnd - n
      /\ sending' = IF buf_used = 0 /\ socks_up THEN n ELSE sending
      /\ UNCHANGED <<refused, flags, upOut, dnVars, cb, receiving>>
  BY <1>1, <1>3, WndAssumption DEF ClientRecvData
<1>5. ClientOK' /\ NeverRefused'
  BY <1>1, <1>3, <1>4, WndAssumption DEF Inv, ClientOK, NeverRefused
<1>6. Wired'
  BY <1>2, <1>4 DEF Inv, Wired
<1>7. CallbacksSafe' /\ NeverStuck'
  BY <1>1, <1>2, <1>4 DEF Inv, ClientOK, CallbacksSafe, NeverStuck
<1>8. UpKept' /\ DownKept'
  BY <1>1, <1>2, <1>4 DEF Inv, UpKept, DownKept
<1> QED BY <1>5, <1>6, <1>7, <1>8 DEF Inv

\* The SOCKS side comes up.
LEMMA SocksUpInv == ASSUME Inv, SocksUp PROVE Inv'
<1>1. state = "alloc" /\ ~socks_closed /\ ~socks_up /\ used = -1 /\ tcp_pending = 0
  BY DEF SocksUp, Inv, Wired
<1>2. ClientOK' /\ NeverRefused' /\ UpKept'
  BY <1>1, SndBufAssumption DEF SocksUp, Inv, ClientOK, NeverRefused, UpKept
<1>3. Wired'
  BY <1>1 DEF SocksUp, Inv, Wired
<1>4. CallbacksSafe'
  BY <1>1 DEF SocksUp, Inv, ClientOK, Wired, CallbacksSafe
<1>5. DownKept' /\ NeverStuck'
  BY <1>1 DEF SocksUp, Inv, ClientOK, Wired, DownKept, NeverStuck
<1> QED BY <1>2, <1>3, <1>4, <1>5 DEF Inv

\* Units went out to SOCKS.
LEMMA SendDoneInv ==
  ASSUME Inv, NEW n \in 1..Wnd, client_socks_send_handler_done(n)
  PROVE  Inv'
<1>1. n \in Nat /\ n > 0 /\ buf_used \in Nat /\ wnd \in Nat /\ upIn \in Nat /\ upOut \in Nat
  BY WndAssumption DEF Inv, ClientOK
<1>2. /\ sending > 0 /\ n <= sending /\ sending <= buf_used
      /\ state = "alloc" /\ ~socks_closed /\ socks_up
  BY <1>1 DEF client_socks_send_handler_done, Inv, ClientOK, CallbacksSafe
<1>3. buf_used' = buf_used - n /\ buf_used' \in 0..Wnd /\ upOut' = upOut + n
  <2>1. buf_used' = buf_used - n /\ upOut' = upOut + n
    BY DEF client_socks_send_handler_done
  <2>2. buf_used \in 0..Wnd /\ sending \in 0..Wnd
    BY DEF Inv, ClientOK
  <2> QED BY <1>1, <1>2, <2>1, <2>2, WndAssumption
<1>4. UNCHANGED <<socks_up, refused, upIn, dnVars>>
  BY DEF client_socks_send_handler_done
<1>5. wnd' = (IF client_closed THEN wnd ELSE wnd + n) /\ wnd' \in 0..Wnd
  <2>1. ~client_closed => wnd = Wnd - buf_used
    BY <1>2 DEF Inv, Wired, NeverRefused
  <2>2. wnd' = IF client_closed THEN wnd ELSE wnd + n
    BY DEF client_socks_send_handler_done
  <2>3. wnd \in 0..Wnd /\ buf_used \in 0..Wnd /\ sending \in 0..Wnd
    BY DEF Inv, ClientOK
  <2>4. client_closed => wnd' = wnd
    BY <2>2
  <2>5. ~client_closed => wnd' = wnd + n
    BY <2>2
  <2>6. ~client_closed => wnd' \in 0..Wnd
    BY <1>1, <1>2, <2>1, <2>3, <2>5, WndAssumption
  <2> QED BY <2>2, <2>3, <2>4, <2>6
<1>6. CASE buf_used' = 0 /\ client_closed
  <2>1. Dealloc
    BY <1>6 DEF client_socks_send_handler_done, FreeSocks
  <2>2. ClientOK'
    <3>1. client_closed' \in BOOLEAN /\ socks_closed' \in BOOLEAN /\ receiving' \in BOOLEAN
      BY <2>1 DEF Dealloc
    <3>2. sending' \in 0..Wnd
      BY <2>1, WndAssumption DEF Dealloc
    <3>3. upOut' \in Nat
      BY <1>1, <1>3
    <3> QED BY <1>3, <1>4, <1>5, <2>1, <3>1, <3>2, <3>3 DEF Dealloc, Inv, ClientOK
  <2>3. Wired' /\ UpKept' /\ DownKept' /\ NeverStuck'
    BY <1>4, <2>1 DEF Dealloc, Inv, Wired, UpKept, DownKept, NeverStuck
  <2>4. CallbacksSafe' /\ NeverRefused'
    BY <1>4, <2>1 DEF Dealloc, Inv, CallbacksSafe, NeverRefused
  <2> QED BY <2>2, <2>3, <2>4 DEF Inv
<1>7. CASE ~(buf_used' = 0 /\ client_closed)
  <2>1. sending' = buf_used' /\ UNCHANGED <<state, client_closed, socks_closed, cb, receiving>>
    BY <1>7 DEF client_socks_send_handler_done
  <2>2. ClientOK'
    BY <1>1, <1>3, <1>4, <1>5, <2>1 DEF Inv, ClientOK
  <2>3. Wired'
    BY <1>2, <1>4, <2>1 DEF Inv, Wired
  <2>4. UpKept' /\ DownKept'
    BY <1>1, <1>2, <1>3, <1>4, <2>1 DEF Inv, UpKept, DownKept
  <2>5. NeverStuck'
    BY <1>2, <1>3, <1>4, <1>7, <2>1 DEF Inv, NeverStuck
  <2>6. CallbacksSafe'
    BY <1>2, <1>3, <1>4, <2>1 DEF Inv, CallbacksSafe
  <2>7. NeverRefused'
    <3>1. ~refused'
      BY <1>4 DEF Inv, NeverRefused
    <3>2. ASSUME "recv" \in cb' PROVE wnd' = Wnd - buf_used'
      <4>1. "recv" \in cb /\ ~client_closed
        BY <2>1, <3>2 DEF Inv, CallbacksSafe
      <4>2. wnd = Wnd - buf_used /\ wnd' = wnd + n
        BY <1>5, <4>1 DEF Inv, NeverRefused
      <4> QED BY <1>1, <1>3, <4>2, WndAssumption
    <3> QED BY <3>1, <3>2 DEF NeverRefused
  <2> QED BY <2>2, <2>3, <2>4, <2>5, <2>6, <2>7 DEF Inv
<1> QED BY <1>6, <1>7

\* What client_socks_recv_send_out leaves when it does not fail.
LEMMA SendOutLeaves ==
  ASSUME NEW len \in 1..RecvBuf, NEW from \in 0..RecvBuf, from < len,
         NEW pending \in 0..SndBuf, NEW w \in 0..SndBuf, SendOut(len, from, pending, w)
  PROVE  /\ tcp_pending' = pending + w /\ tcp_pending' \in 0..SndBuf /\ tcp_pending' > 0
         /\ sent' = from + w /\ sent' \in 0..RecvBuf
         /\ \/ used' = len /\ sent' < len /\ waiting' = TRUE
            \/ used' = -1 /\ sent' = len /\ waiting' = FALSE
<1>1. len \in Nat /\ from \in Nat /\ pending \in Nat /\ w \in Nat
  BY RecvBufAssumption, SndBufAssumption
<1>2. w = 0 \/ w = MinOf(len - from, SndBuf - pending)
  BY DEF SendOut
<1>3. MinOf(len - from, SndBuf - pending) <= len - from
      /\ MinOf(len - from, SndBuf - pending) <= SndBuf - pending
  BY <1>1, SndBufAssumption DEF MinOf
<1>4. from + w <= len /\ pending + w <= SndBuf
  BY <1>1, <1>2, <1>3, SndBufAssumption
<1>5. pending + w > 0
  BY <1>1, <1>4 DEF SendOut
<1>6. from + w < len => used' = len /\ waiting' = TRUE
  <2>1. from + w < len => used' = len
    BY DEF SendOut
  <2>2. from + w < len => waiting' = TRUE
    BY Zenon DEF SendOut
  <2> QED BY <2>1, <2>2
<1>7. ~(from + w < len) => used' = -1 /\ waiting' = FALSE
  <2>1. ~(from + w < len) => used' = -1
    BY DEF SendOut
  <2>2. ~(from + w < len) => waiting' = FALSE
    <3>1. waiting' = (from + w < len)
      BY DEF SendOut
    <3>2. (from + w < len) \in BOOLEAN
      OBVIOUS
    <3>3. ~waiting' /\ waiting' \in BOOLEAN => waiting' = FALSE
      OBVIOUS
    <3> QED BY <3>1, <3>2, <3>3, Zenon
  <2> QED BY <2>1, <2>2
<1> QED
  BY <1>1, <1>4, <1>5, <1>6, <1>7, RecvBufAssumption, SndBufAssumption DEF SendOut

\* client_socks_recv_send_out fails: the application's side goes, with a receive
\* buffer that will not be looked at again.
LEMMA AbortsInv ==
  ASSUME Inv, state = "alloc", ~client_closed, socks_up, UNCHANGED <<socks_up, upVars>>,
         dnIn' \in Nat, dnOut' \in Nat,
         NEW len \in 1..RecvBuf, NEW from \in 0..RecvBuf, NEW pending \in 0..SndBuf,
         SendOutAborts(len, from, pending)
  PROVE  Inv'
<1>1. used' = len /\ sent' = from /\ tcp_pending' = pending /\ waiting' = FALSE /\ FreedClient(FALSE)
  BY DEF SendOutAborts
<1>2. used' \in {-1} \cup 1..RecvBuf /\ sent' \in 0..RecvBuf /\ tcp_pending' \in 0..SndBuf
  BY <1>1
<1>3. waiting' \in BOOLEAN
  BY <1>1
<1>4. CASE Dealloc
  <2>1. ClientOK /\ NeverRefused /\ socks_up' \in BOOLEAN
    BY DEF Inv, ClientOK
  <2> QED BY <1>2, <1>3, <1>4, <2>1, DeallocInv
<1>5. CASE ~Dealloc
  <2>1. /\ buf_used > 0 /\ ~socks_closed /\ client_closed' = TRUE /\ cb' = {}
        /\ receiving' = FALSE /\ UNCHANGED <<state, socks_closed, sending>>
    BY <1>1, <1>5 DEF FreedClient
  <2>2. client_closed' \in BOOLEAN /\ receiving' \in BOOLEAN
    BY <2>1
  <2>3. ClientOK'
    BY <1>2, <1>3, <2>1, <2>2 DEF Inv, ClientOK
  <2>4. Wired' /\ UpKept' /\ DownKept'
    BY <2>1 DEF Inv, Wired, UpKept, DownKept
  <2>5. NeverStuck' /\ CallbacksSafe' /\ NeverRefused'
    BY <2>1 DEF Inv, NeverStuck, CallbacksSafe, NeverRefused
  <2> QED BY <2>3, <2>4, <2>5 DEF Inv
<1> QED BY <1>4, <1>5

\* Units came from SOCKS.
LEMMA RecvDoneInv ==
  ASSUME Inv, NEW n \in 1..RecvBuf, client_socks_recv_handler_done(n)
  PROVE  Inv'
<1>1. state = "alloc" /\ ~socks_closed /\ socks_up /\ used = -1 /\ receiving
  BY DEF client_socks_recv_handler_done, Inv, CallbacksSafe
<1>2. n \in Nat /\ dnIn \in Nat /\ dnOut \in Nat /\ tcp_pending \in 0..SndBuf /\ 0 < n
  BY RecvBufAssumption DEF Inv, ClientOK
<1>3. UNCHANGED upVars
  BY DEF client_socks_recv_handler_done
<1>4. CASE client_closed
  <2>1. receiving' = FALSE /\ UNCHANGED <<flags, cb, sending, dnVars>>
    BY <1>4 DEF client_socks_recv_handler_done
  <2>2. receiving' \in BOOLEAN
    BY <2>1
  <2>3. ClientOK'
    BY <1>3, <2>1, <2>2 DEF Inv, ClientOK
  <2>4. Wired' /\ UpKept' /\ DownKept' /\ NeverStuck'
    BY <1>3, <1>4, <2>1 DEF Inv, Wired, UpKept, DownKept, NeverStuck
  <2>5. CallbacksSafe' /\ NeverRefused'
    BY <1>3, <2>1 DEF Inv, CallbacksSafe, NeverRefused
  <2> QED BY <2>3, <2>4, <2>5 DEF Inv
<1>5. CASE ~client_closed
  <2>1. dnIn' = dnIn + n /\ dnOut' = dnOut
    BY <1>5 DEF client_socks_recv_handler_done
  <2>2. dnIn' \in Nat /\ dnOut' \in Nat
    BY <1>2, <2>1
  <2>3. dnIn = dnOut + tcp_pending
    BY <1>1, <1>2, <1>5 DEF Inv, ClientOK, DownKept
  <2>4. CASE SendOutAborts(n, 0, tcp_pending) /\ UNCHANGED socks_up
    BY <1>1, <1>2, <1>3, <1>5, <2>2, <2>4, AbortsInv, RecvBufAssumption
  <2>5. ASSUME NEW w \in 0..SndBuf, SendOut(n, 0, tcp_pending, w),
               receiving' = (used' = -1), UNCHANGED <<flags, cb, sending>>
        PROVE  Inv'
    <3>1. /\ tcp_pending' = tcp_pending + w /\ tcp_pending' \in 0..SndBuf /\ tcp_pending' > 0
          /\ sent' = 0 + w /\ sent' \in 0..RecvBuf
          /\ \/ used' = n /\ sent' < n /\ waiting' = TRUE
             \/ used' = -1 /\ sent' = n /\ waiting' = FALSE
      <4>1. 0 \in 0..RecvBuf /\ 0 < n
        BY <1>2, RecvBufAssumption
      <4> QED BY <1>2, <2>5, <4>1, SendOutLeaves
    <3>2. waiting' \in BOOLEAN /\ receiving' \in BOOLEAN
      BY <2>5, <3>1
    <3>3. used' \in {-1} \cup 1..RecvBuf
      BY <3>1
    <3>4. ClientOK'
      BY <1>3, <2>2, <2>5, <3>1, <3>2, <3>3 DEF Inv, ClientOK
    <3>5. Wired' /\ UpKept'
      BY <1>1, <1>3, <2>5 DEF Inv, Wired, UpKept
    <3>6. DownKept'
      BY <1>2, <2>1, <2>3, <3>1, SndBufAssumption DEF DownKept
    <3>7. receiving' <=> used' = -1
      BY <2>5
    <3>8. NeverStuck'
      BY <1>1, <1>3, <1>5, <2>5, <3>7 DEF Inv, NeverStuck
    <3>9. CallbacksSafe' /\ NeverRefused'
      BY <1>1, <1>2, <1>3, <2>5, <3>1, <3>7 DEF Inv, CallbacksSafe, NeverRefused
    <3> QED BY <3>4, <3>5, <3>6, <3>8, <3>9 DEF Inv
  <2> QED BY <1>5, <2>4, <2>5 DEF client_socks_recv_handler_done
<1> QED BY <1>4, <1>5

\* The application has confirmed units.
LEMMA SentInv ==
  ASSUME Inv, NEW n \in 1..SndBuf, Sent(n)
  PROVE  Inv'
<1>1. "sent" \in cb /\ n <= tcp_pending /\ dnOut' = dnOut + n /\ UNCHANGED <<upVars, dnIn>>
  BY DEF Sent
<1>2. state = "alloc" /\ ~client_closed /\ socks_up
  BY <1>1 DEF Inv, CallbacksSafe
<1>3. n \in Nat /\ 0 < n /\ dnIn \in Nat /\ dnOut \in Nat /\ tcp_pending \in 0..SndBuf
  BY SndBufAssumption DEF Inv, ClientOK
<1>4. dnOut' \in Nat /\ dnIn' \in Nat /\ tcp_pending - n \in 0..SndBuf
  BY <1>1, <1>3, SndBufAssumption
<1>5. used \in {-1} \cup 1..RecvBuf /\ sent \in 0..RecvBuf
  BY DEF Inv, ClientOK
<1>6. CASE used > 0
  <2>1. used \in 1..RecvBuf /\ sent < used /\ dnIn = dnOut + tcp_pending + (used - sent)
    BY <1>1, <1>2, <1>5, <1>6 DEF Inv, CallbacksSafe, DownKept
  <2>2. CASE SendOutAborts(used, sent, tcp_pending - n) /\ UNCHANGED socks_up
    BY <1>1, <1>2, <1>4, <1>5, <2>1, <2>2, AbortsInv
  <2>3. ASSUME NEW w \in 0..SndBuf, SendOut(used, sent, tcp_pending - n, w),
               receiving' = (receiving \/ (used' = -1 /\ ~socks_closed)),
               UNCHANGED <<flags, cb, sending>>
        PROVE  Inv'
    <3>1. /\ tcp_pending' = tcp_pending - n + w /\ tcp_pending' \in 0..SndBuf /\ tcp_pending' > 0
          /\ sent' = sent + w /\ sent' \in 0..RecvBuf
          /\ \/ used' = used /\ sent' < used /\ waiting' = TRUE
             \/ used' = -1 /\ sent' = used /\ waiting' = FALSE
      BY <1>4, <1>5, <2>1, <2>3, SendOutLeaves
    <3>2. waiting' \in BOOLEAN /\ receiving' \in BOOLEAN
      BY <2>3, <3>1
    <3>3. used' \in {-1} \cup 1..RecvBuf
      BY <1>5, <3>1
    <3>4. ClientOK'
      BY <1>1, <1>4, <2>3, <3>1, <3>2, <3>3 DEF Inv, ClientOK
    <3>5. Wired' /\ UpKept'
      BY <1>1, <1>2, <2>3 DEF Inv, Wired, UpKept
    <3>6. DownKept'
      BY <1>1, <1>3, <1>5, <2>1, <3>1, SndBufAssumption, RecvBufAssumption DEF DownKept
    <3>7. ~receiving
      BY <1>6 DEF Inv, CallbacksSafe
    <3>8. receiving' <=> used' = -1 /\ ~socks_closed
      BY <2>3, <3>7
    <3>9. NeverStuck'
      BY <1>1, <1>2, <2>3, <3>1, <3>8 DEF Inv, NeverStuck
    <3>10. CallbacksSafe' /\ NeverRefused'
      BY <1>1, <1>2, <2>3, <3>1, <3>8 DEF Inv, CallbacksSafe, NeverRefused
    <3> QED BY <3>4, <3>5, <3>6, <3>9, <3>10 DEF Inv
  <2> QED BY <1>6, <2>2, <2>3 DEF Sent
<1>7. CASE used = -1
  <2>1. /\ tcp_pending' = tcp_pending - n /\ UNCHANGED <<used, sent, waiting, socks_up>>
        /\ IF socks_closed /\ tcp_pending' = 0
           THEN FreedClient(receiving)
           ELSE UNCHANGED <<state, client_closed, socks_closed, cb, sending, receiving>>
    BY <1>7 DEF Sent
  <2>2. CASE socks_closed /\ tcp_pending' = 0
    <3>1. Dealloc
      BY <2>1, <2>2 DEF FreedClient
    <3>2. socks_up' \in BOOLEAN /\ waiting' \in BOOLEAN /\ ClientOK /\ NeverRefused
      BY <2>1 DEF Inv, ClientOK
    <3>3. ~socks_up' => used' = -1 /\ tcp_pending' = 0
      BY <1>2, <2>1
    <3> QED BY <1>1, <1>4, <1>5, <2>1, <3>1, <3>2, <3>3, DeallocInv
  <2>3. CASE ~(socks_closed /\ tcp_pending' = 0)
    <3>1. UNCHANGED <<state, client_closed, socks_closed, cb, sending, receiving>>
      BY <2>1, <2>3
    <3>2. ClientOK'
      BY <1>1, <1>4, <2>1, <3>1 DEF Inv, ClientOK
    <3>3. Wired' /\ UpKept'
      BY <1>1, <1>2, <2>1, <3>1 DEF Inv, Wired, UpKept
    <3>4. DownKept'
      BY <1>1, <1>2, <1>3, <1>7, <2>1, <3>1 DEF Inv, DownKept
    <3>5. socks_closed => tcp_pending' > 0
      BY <1>4, <2>1, <2>3
    <3>6. NeverStuck'
      BY <1>1, <1>2, <2>1, <3>1, <3>5 DEF Inv, NeverStuck
    <3>7. CallbacksSafe' /\ NeverRefused'
      BY <1>1, <1>2, <1>7, <2>1, <3>1 DEF Inv, CallbacksSafe, NeverRefused
    <3> QED BY <3>2, <3>3, <3>4, <3>6, <3>7 DEF Inv
  <2> QED BY <2>2, <2>3
<1> QED BY <1>5, <1>6, <1>7

\* Every step keeps the invariant.
LEMMA NextInv == Inv /\ [Next]_vars => Inv'
<1> SUFFICES ASSUME Inv, [Next]_vars PROVE Inv'
  OBVIOUS
<1>1. CASE client_err_func \/ ClientRecvFin
  <2>1. cb # {} /\ FreedClient(receiving) /\ UNCHANGED <<socks_up, upVars, dnVars>>
    BY <1>1 DEF client_err_func, ClientRecvFin
  <2>2. state = "alloc" /\ ~client_closed
    BY <2>1 DEF Inv, CallbacksSafe
  <2> QED BY <2>1, <2>2, FreedInv
<1>2. CASE SocksError
  BY <1>2, FreeSocksInv DEF SocksError
<1>3. CASE client_murder
  <2>1. Dealloc /\ UNCHANGED <<socks_up, upVars, dnVars>>
    BY <1>3 DEF client_murder
  <2>2. ClientOK /\ NeverRefused /\ socks_up' \in BOOLEAN /\ waiting' \in BOOLEAN
    BY <2>1 DEF Inv, ClientOK
  <2>3. /\ used' \in {-1} \cup 1..RecvBuf /\ sent' \in 0..RecvBuf /\ tcp_pending' \in 0..SndBuf
        /\ dnIn' \in Nat /\ dnOut' \in Nat /\ (~socks_up' => used' = -1 /\ tcp_pending' = 0)
    BY <2>1 DEF Inv, ClientOK, Wired
  <2> QED BY <2>1, <2>2, <2>3, DeallocInv
<1>4. CASE WindowUpdate \/ UNCHANGED vars
  <2>1. UNCHANGED <<flags, upVars, dnVars, cb, sending, receiving>>
    BY <1>4 DEF WindowUpdate, vars
  <2> QED BY <2>1
     DEF Inv, ClientOK, Wired, CallbacksSafe, NeverRefused, UpKept, DownKept, NeverStuck
<1> QED
  BY <1>1, <1>2, <1>3, <1>4, AcceptInv, ClientRecvDataInv, SentInv, SocksUpInv, SendDoneInv,
     RecvDoneInv
     DEF Next, Callback, client_sent_func, SocksDone

\* The invariant holds in every state.
LEMMA Invariant == Spec => []Inv
BY InitInv, NextInv, PTL DEF Spec

\* The assertions of the callbacks hold when lwIP or the SOCKS client calls them
\* (tun2socks.c:1968, 2003, 2024, 2090-2094, 2131-2133, 2222-2233).
THEOREM CallbacksAlwaysSafe == Spec => []CallbacksSafe
BY Invariant, PTL DEF Inv

\* The buffer for the application's data never overflows (tun2socks.c:1991-1995).
THEOREM DataNeverRefused == Spec => []NeverRefused
BY Invariant, PTL DEF Inv

\* No byte of the application is lost while the SOCKS side lasts
\* (tun2socks.c:1997-2014, 2096-2114).
THEOREM UpAlwaysKept == Spec => []UpKept
BY Invariant, PTL DEF Inv

\* No byte from SOCKS is lost while the application's side lasts
\* (tun2socks.c:2127-2216, 2227-2260).
THEOREM DownAlwaysKept == Spec => []DownKept
BY Invariant, PTL DEF Inv

\* A client that is allocated has something under way (tun2socks.c:1825-1911).
THEOREM ClientNeverStuck == Spec => []NeverStuck
BY Invariant, PTL DEF Inv

\* The indices of tcp_client stay within its buffers.
THEOREM TypeCorrect == Spec => []TypeOK
<1>1. Init => persist \in BOOLEAN
  BY DEF Init
<1>2. persist \in BOOLEAN /\ [Next]_vars => (persist \in BOOLEAN)'
  BY DEF Next, WindowUpdate, vars
<1>3. Inv /\ persist \in BOOLEAN => TypeOK
  BY DEF Inv, TypeOK
<1> QED BY <1>1, <1>2, <1>3, Invariant, PTL DEF Spec
=============================================================================
