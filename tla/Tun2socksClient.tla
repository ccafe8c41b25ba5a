-------------------------- MODULE Tun2socksClient --------------------------
(***************************************************************************)
(* One TCP connection of tun2socks (struct tcp_client in tun2socks.c).     *)
(* lwIP ends the TCP connection of an application, a SOCKS client connects *)
(* to ss-local, and tcp_client carries bytes between the two.  Each side   *)
(* may go first: then the other is kept until what is buffered for it has  *)
(* been sent.  One thread; every action is a callback, of lwIP on the one  *)
(* side and of the SOCKS client on the other, and both are external: they  *)
(* are modelled by what tun2socks.c registers with them and asks of them.  *)
(*                                                                         *)
(* SYNC_COMMIT runs the jobs a callback has started before it returns.     *)
(* Those jobs end in callbacks of the SOCKS client, which are actions of   *)
(* their own here and may come at once or later.                           *)
(***************************************************************************)
EXTENDS Integers

CONSTANTS
  Wnd,      \* TCP_WND: the receive window, and the size of buf
  SndBuf,   \* TCP_SND_BUF: what lwIP holds until the application confirms it
  RecvBuf,  \* CLIENT_SOCKS_RECV_BUF_SIZE
  MaxTotal  \* bound: units carried in one direction

ASSUME WndAssumption == Wnd \in Nat \ {0}
ASSUME SndBufAssumption == SndBuf \in Nat \ {0}
ASSUME RecvBufAssumption == RecvBuf \in Nat \ {0}
ASSUME MaxTotalAssumption == MaxTotal \in Nat

VARIABLES
  state,           \* the tcp_client: "none", "alloc" or "freed"
  client_closed,
  socks_up,
  socks_closed,
  buf_used,        \* units of buf, from the application, for SOCKS
  used,            \* socks_recv_buf_used, -1 for none
  sent,            \* socks_recv_buf_sent
  waiting,         \* socks_recv_waiting
  tcp_pending,     \* socks_recv_tcp_pending
  cb,              \* the callbacks that are set on the pcb
  persist,         \* the pcb's persist timer runs: the application's window is zero
  wnd,             \* the window lwIP offers to the application
  refused,         \* client_recv_func has refused data
  sending,         \* units given to StreamPassInterface_Sender_Send, 0 for none
  receiving,       \* a StreamRecvInterface_Receiver_Recv is under way
  upIn, upOut,     \* history: units from the application, and sent to SOCKS
  dnIn, dnOut      \* history: units from SOCKS, and confirmed by the application

flags   == <<state, client_closed, socks_up, socks_closed>>
upVars  == <<buf_used, wnd, refused, upIn, upOut>>
dnVars  == <<used, sent, waiting, tcp_pending, dnIn, dnOut>>
vars    == <<flags, upVars, dnVars, cb, sending, receiving, persist>>

\* The range of the client's variables, and of all of them.
ClientOK ==
  /\ state \in {"none", "alloc", "freed"}
  /\ client_closed \in BOOLEAN /\ socks_up \in BOOLEAN /\ socks_closed \in BOOLEAN
  /\ buf_used \in 0..Wnd /\ wnd \in 0..Wnd /\ refused \in BOOLEAN
  /\ used \in {-1} \cup 1..RecvBuf /\ sent \in 0..RecvBuf /\ waiting \in BOOLEAN
  /\ tcp_pending \in 0..SndBuf
  /\ cb \subseteq {"err", "recv", "sent"}
  /\ sending \in 0..Wnd /\ receiving \in BOOLEAN
  /\ upIn \in Nat /\ upOut \in Nat /\ dnIn \in Nat /\ dnOut \in Nat

TypeOK == ClientOK /\ persist \in BOOLEAN

\* The fields of tcp_client that accept and EVENT_UP have not set yet mean
\* nothing.
Init ==
  /\ state = "none"
  /\ client_closed = FALSE /\ socks_up = FALSE /\ socks_closed = FALSE
  /\ buf_used = 0 /\ wnd = Wnd /\ refused = FALSE
  /\ used = -1 /\ sent = 0 /\ waiting = FALSE /\ tcp_pending = 0
  /\ cb = {} /\ sending = 0 /\ receiving = FALSE /\ persist = FALSE
  /\ upIn = 0 /\ upOut = 0 /\ dnIn = 0 /\ dnOut = 0

MinOf(a, b) == IF a < b THEN a ELSE b

-----------------------------------------------------------------------------
(* How a tcp_client ends.                                                  *)

\* client_dealloc, with both sides closed.
Dealloc ==
  /\ state' = "freed" /\ client_closed' = TRUE /\ socks_closed' = TRUE
  /\ cb' = {} /\ sending' = 0 /\ receiving' = FALSE

\* client_handle_freed_client: the pcb is gone, closed or aborted, with its
\* callbacks.  rec: a receive from SOCKS stays under way.
FreedClient(rec) ==
  IF buf_used > 0 /\ ~socks_closed
  THEN /\ client_closed' = TRUE /\ cb' = {} /\ receiving' = rec
       /\ UNCHANGED <<state, socks_closed, sending>>
  ELSE Dealloc

\* Mutant: the application is still read.
FreeSocksMutant ==
  IF socks_up /\ (used >= 0 \/ tcp_pending > 0) /\ ~client_closed
  THEN /\ socks_closed' = TRUE
       /\ sending' = 0 /\ receiving' = FALSE
       /\ UNCHANGED <<state, client_closed, cb>>
  ELSE Dealloc

\* Mutant: the application's side is kept with nothing left for it.
FreeSocksKeepMutant ==
  IF socks_up /\ (used >= 0 \/ tcp_pending >= 0) /\ ~client_closed
  THEN /\ socks_closed' = TRUE
       /\ cb' = cb \ {"recv"} /\ sending' = 0 /\ receiving' = FALSE
       /\ UNCHANGED <<state, client_closed>>
  ELSE Dealloc

\* client_free_socks: when something is left for the application, its side stays,
\* and is no longer read.
FreeSocks ==
  IF socks_up /\ (used >= 0 \/ tcp_pending > 0) /\ ~client_closed
  THEN /\ socks_closed' = TRUE
       /\ cb' = cb \ {"recv"} /\ sending' = 0 /\ receiving' = FALSE
       /\ UNCHANGED <<state, client_closed>>
  ELSE Dealloc

-----------------------------------------------------------------------------
(* The application's side, through lwIP.                                   *)

\* The connection is taken and the SOCKS client starts.  When that fails lwIP
\* aborts the connection and nothing is left.
listener_accept_func ==
  /\ state = "none"
  /\ state' = "alloc" /\ cb' = {"err", "recv"}
  /\ UNCHANGED <<client_closed, socks_up, socks_closed, upVars, dnVars, sending, receiving>>

\* The application's TCP was reset, closed or given up.
client_err_func ==
  /\ "err" \in cb
  /\ FreedClient(receiving)
  /\ UNCHANGED <<socks_up, upVars, dnVars>>

\* Mutant: data is confirmed when it is buffered.
ClientRecvDataMutant(n) ==
  /\ "recv" \in cb /\ n <= wnd /\ ~refused
  /\ upIn + n <= MaxTotal
  /\ IF n > Wnd - buf_used
     THEN refused' = TRUE /\ UNCHANGED <<buf_used, upIn, sending>>
     ELSE /\ buf_used' = buf_used + n /\ upIn' = upIn + n
          /\ sending' = IF buf_used = 0 /\ socks_up THEN n ELSE sending
          /\ UNCHANGED refused
  /\ UNCHANGED <<flags, wnd, upOut, dnVars, cb, receiving>>

\* client_recv_func with data.  lwIP has taken n off the window before.
ClientRecvData(n) ==
  /\ "recv" \in cb /\ n <= wnd /\ ~refused
  /\ upIn + n <= MaxTotal
  /\ wnd' = wnd - n
  /\ IF n > Wnd - buf_used
     THEN refused' = TRUE /\ UNCHANGED <<buf_used, upIn, sending>>
     ELSE /\ buf_used' = buf_used + n /\ upIn' = upIn + n
          /\ sending' = IF buf_used = 0 /\ socks_up THEN n ELSE sending
          /\ UNCHANGED refused
  /\ UNCHANGED <<flags, upOut, dnVars, cb, receiving>>

\* client_recv_func without: the application has closed its half.
ClientRecvFin ==
  /\ "recv" \in cb
  /\ FreedClient(receiving)
  /\ UNCHANGED <<socks_up, upVars, dnVars>>

\* Mutant: a buffer that is queued in part is taken for done.
SendOutMutant(len, from, pending, w) ==
  /\ w \in {0, MinOf(len - from, SndBuf - pending)}
  /\ from + w < len => pending + w > 0
  /\ tcp_pending' = pending + w
  /\ sent' = from + w
  /\ used' = IF w = 0 THEN len ELSE -1
  /\ waiting' = (w = 0)

\* client_socks_recv_send_out on len units of which from are queued, with
\* pending to be confirmed: w more are queued, none for want of memory.
SendOut(len, from, pending, w) ==
  /\ w \in {0, MinOf(len - from, SndBuf - pending)}
  /\ from + w < len => pending + w > 0
  /\ tcp_pending' = pending + w
  /\ sent' = from + w
  /\ used' = IF from + w < len THEN len ELSE -1
  /\ waiting' = (from + w < len)

\* It fails in tcp_write or tcp_output; or cannot queue, though all data was
\* confirmed: the application's side is aborted, what was queued is dropped.
SendOutAborts(len, from, pending) ==
  /\ used' = len /\ sent' = from /\ tcp_pending' = pending /\ waiting' = FALSE
  /\ FreedClient(FALSE)


\* client_sent_func: n units were confirmed.
Sent(n) ==
  /\ "sent" \in cb /\ n <= tcp_pending
  /\ dnOut' = dnOut + n
  /\ \/ /\ used > 0   \* continue queueing
        /\ \/ /\ \E w \in 0..SndBuf : SendOut(used, sent, tcp_pending - n, w)
              /\ receiving' = (receiving \/ (used' = -1 /\ ~socks_closed))
              /\ UNCHANGED <<flags, cb, sending>>
           \/ SendOutAborts(used, sent, tcp_pending - n) /\ UNCHANGED socks_up
     \/ /\ used = -1 /\ tcp_pending' = tcp_pending - n
        /\ UNCHANGED <<used, sent, waiting, socks_up>>
        /\ IF socks_closed /\ tcp_pending' = 0
           THEN FreedClient(receiving)
           ELSE UNCHANGED <<state, client_closed, socks_closed, cb, sending, receiving>>
  /\ UNCHANGED <<upVars, dnIn>>

client_sent_func == \E n \in 1..SndBuf : Sent(n)

-----------------------------------------------------------------------------
(* The SOCKS side.                                                         *)

\* client_socks_handler, BSOCKSCLIENT_EVENT_UP.
SocksUp ==
  /\ state = "alloc" /\ ~socks_closed /\ ~socks_up
  /\ socks_up' = TRUE
  /\ used' = -1 /\ tcp_pending' = 0
  /\ cb' = IF client_closed THEN cb ELSE cb \cup {"sent"}
  /\ sending' = buf_used
  /\ receiving' = ~client_closed
  /\ UNCHANGED <<state, client_closed, socks_closed, upVars, sent, waiting, dnIn, dnOut>>

\* client_socks_handler, BSOCKSCLIENT_EVENT_ERROR and _ERROR_CLOSED.
SocksError ==
  /\ state = "alloc" /\ ~socks_closed
  /\ FreeSocks
  /\ UNCHANGED <<socks_up, upVars, dnVars>>

\* Mutant: all that was given to the SOCKS client is taken for sent.
client_socks_send_handler_doneMutant(n) ==
  /\ n <= sending
  /\ buf_used' = buf_used - sending /\ upOut' = upOut + n
  /\ wnd' = IF client_closed THEN wnd ELSE wnd + sending
  /\ IF buf_used' = 0 /\ client_closed
     THEN FreeSocks
     ELSE /\ sending' = buf_used'
          /\ UNCHANGED <<state, client_closed, socks_closed, cb, receiving>>
  /\ UNCHANGED <<socks_up, refused, upIn, dnVars>>

\* n units went out to SOCKS.
client_socks_send_handler_done(n) ==
  /\ n <= sending
  /\ buf_used' = buf_used - n /\ upOut' = upOut + n
  /\ wnd' = IF client_closed THEN wnd ELSE wnd + n
  /\ IF buf_used' = 0 /\ client_closed
     THEN FreeSocks
     ELSE /\ sending' = buf_used'
          /\ UNCHANGED <<state, client_closed, socks_closed, cb, receiving>>
  /\ UNCHANGED <<socks_up, refused, upIn, dnVars>>

\* n units came from SOCKS.
client_socks_recv_handler_done(n) ==
  /\ receiving
  /\ IF client_closed
     THEN receiving' = FALSE /\ UNCHANGED <<flags, cb, sending, dnVars>>
     ELSE /\ dnIn + n <= MaxTotal /\ dnIn' = dnIn + n
          /\ \/ /\ \E w \in 0..SndBuf : SendOut(n, 0, tcp_pending, w)
                /\ receiving' = (used' = -1)
                /\ UNCHANGED <<flags, cb, sending>>
             \/ SendOutAborts(n, 0, tcp_pending) /\ UNCHANGED socks_up
          /\ UNCHANGED dnOut
  /\ UNCHANGED upVars

\* terminate: tun2socks ends.
client_murder ==
  /\ state = "alloc"
  /\ Dealloc
  /\ UNCHANGED <<socks_up, upVars, dnVars>>

-----------------------------------------------------------------------------
(* The environment.                                                        *)

\* tcp_receive of lwIP: a window of zero starts the persist timer, a larger one
\* stops it.
WindowUpdate ==
  /\ cb # {}
  /\ persist' = ~persist
  /\ UNCHANGED <<flags, upVars, dnVars, cb, sending, receiving>>

SocksDone == \E n \in 1..Wnd : client_socks_send_handler_done(n)

Callback ==
  \/ listener_accept_func \/ client_err_func \/ ClientRecvFin
  \/ \E n \in 1..Wnd : ClientRecvData(n)
  \/ client_sent_func
  \/ SocksUp \/ SocksError \/ SocksDone
  \/ \E n \in 1..RecvBuf : client_socks_recv_handler_done(n)
  \/ client_murder

Next == (Callback /\ UNCHANGED persist) \/ WindowUpdate

\* lwIP confirms what the application acknowledges, and gives up a connection
\* with unconfirmed data after its retransmissions.  It counts none while the
\* persist timer runs: then it probes for as long as the window stays zero, and
\* nothing need happen.  ss-local takes what it is sent or, when its own timer
\* ends the relay, closes the SOCKS connection.
Confirms == client_sent_func \/ (tcp_pending > 0 /\ client_err_func)

Fairness ==
  /\ WF_vars(~persist /\ Confirms /\ UNCHANGED persist)
  /\ WF_vars((SocksUp \/ SocksDone \/ SocksError) /\ UNCHANGED persist)

Spec == Init /\ [][Next]_vars /\ Fairness

-----------------------------------------------------------------------------
(* Properties.                                                             *)

\* Whatever may call back finds the client as the callback's assertions say: a
\* callback that is still set, or a transfer under way, belongs to a tcp_client
\* that is allocated and a side of it that is open.
CallbacksSafe ==
  /\ cb # {} => state = "alloc" /\ ~client_closed
  /\ "recv" \in cb => ~socks_closed
  /\ "sent" \in cb => socks_up
  /\ sending > 0 => state = "alloc" /\ ~socks_closed /\ socks_up /\ sending <= buf_used
  /\ receiving => state = "alloc" /\ ~socks_closed /\ socks_up /\ used = -1
  /\ used > 0 /\ "sent" \in cb => waiting /\ sent < used /\ tcp_pending > 0

\* "no buffer for data !?!": the window is what buf has left, so no data that
\* lwIP lets in is refused.
NeverRefused == ~refused /\ ("recv" \in cb => wnd = Wnd - buf_used)

\* Nothing of what the application has sent is lost while the SOCKS side lasts,
\* even after the application has gone.
UpKept == state = "alloc" /\ ~socks_closed => upIn = upOut + buf_used

\* Nothing that came from SOCKS is lost while the application's side lasts, even
\* after the SOCKS side has gone.
DownKept ==
  state = "alloc" /\ ~client_closed =>
    dnIn = dnOut + tcp_pending + (IF used > 0 THEN used - sent ELSE 0)

\* A client always has something under way.  With both sides open, buffered data
\* is being sent, and SOCKS is read unless data waits for the application.  With
\* one side closed there is something left to do: it is not an entry of
\* tcp_clients that nothing will ever remove.
NeverStuck ==
  state = "alloc" =>
    /\ socks_up /\ ~socks_closed => (buf_used > 0 <=> sending > 0)
    /\ socks_up /\ ~socks_closed /\ ~client_closed => (receiving <=> used = -1)
    /\ ~(client_closed /\ socks_closed)
    /\ client_closed => buf_used > 0
    /\ socks_closed  => "sent" \in cb /\ tcp_pending > 0

=============================================================================
