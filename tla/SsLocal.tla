------------------------------ MODULE SsLocal ------------------------------
(***************************************************************************)
(* One TCP connection of ss-local (local.c): a SOCKS5 client on one side   *)
(* (server_t), the shadowsocks server, or the target itself when the ACL   *)
(* says so, on the other (remote_t).  The process has one thread, libev's  *)
(* loop: every action is a whole callback, and a callback runs only while  *)
(* its watcher is started.  Connections share nothing but the listener.    *)
(*                                                                         *)
(* A buffer is the number of units in it and the place of the next one to  *)
(* send.  recv, ss_gen_hash, ss_encrypt and ss_decrypt decide how many     *)
(* units a chunk has; send takes some of them, none for EAGAIN.  A recv    *)
(* that returns EAGAIN changes nothing and is left out.  TCP fast open is  *)
(* off: the app never passes --fast-open.                                  *)
(***************************************************************************)
EXTENDS Naturals

CONSTANTS
  MaxUnits,   \* bound: units of one chunk (BUF_SIZE)
  MaxTotal,   \* bound: units carried in one direction
  Acl,        \* ss-local was started with --acl
  FreshTakes  \* what a socket that connect() has connected at once may take
              \* of the first chunk: "all", or "some" and "none" as well

ASSUME MaxUnitsAssumption == MaxUnits \in Nat \ {0}
ASSUME MaxTotalAssumption == MaxTotal \in Nat
ASSUME AclAssumption == Acl \in BOOLEAN
ASSUME FreshTakesAssumption == FreshTakes \subseteq {"all", "some", "none"}

VARIABLES
  conn,    \* the connection: "none", "open", "closed", "crashed"
  stage,   \* server->stage
  remote,  \* server->remote: "null", "connecting" or "connected"
  watch,   \* the watchers that are started
  up,      \* remote->buf and what it has carried
  down     \* server->buf, likewise

vars == <<conn, stage, remote, watch, up, down>>

Watchers ==
  {"srecv", "ssend",   \* server->recv_ctx->io, server->send_ctx->io
   "rrecv", "rsend",   \* remote->recv_ctx->io, remote->send_ctx->io
   "ctimer", "rtimer"} \* send_ctx->watcher (connect), recv_ctx->watcher (idle)

\* buf->len and buf->idx; and, counted over the whole connection, the units that
\* came before the chunk in array, those put into it and those sent from it.
Flow == [len : Nat, idx : Nat, base : Nat, in : Nat, out : Nat]

Empty == [len |-> 0, idx |-> 0, base |-> 0, in |-> 0, out |-> 0]

\* The range of every variable.
TypeOK ==
  /\ conn \in {"none", "open", "closed", "crashed"}
  /\ stage \in {0, 1, 5}
  /\ remote \in {"null", "connecting", "connected"}
  /\ watch \subseteq Watchers
  /\ up \in Flow /\ down \in Flow

Init ==
  /\ conn = "none" /\ stage = 0 /\ remote = "null"
  /\ watch = {}
  /\ up = Empty /\ down = Empty

-----------------------------------------------------------------------------
(* Buffers and sockets.                                                    *)

\* What the kernel may take of n units: all, some, or none (EAGAIN).
Taken(n) == 0..n

\* What it may take of n units on a connection that was made just now.
FreshTaken(n) ==
  {k \in 0..n : \/ k = n /\ "all" \in FreshTakes
                \/ 0 < k /\ k < n /\ "some" \in FreshTakes
                \/ k = 0 /\ "none" \in FreshTakes}

\* A chunk of n units replaces what the buffer holds, and k are sent at once.
\* len is not cleared when all of them are.
Refill(f, n, k) ==
  [len  |-> IF k < n THEN n - k ELSE n,
   idx  |-> IF k < n THEN k ELSE f.idx,
   base |-> f.in,
   in   |-> f.in + n,
   out  |-> f.out + k]

\* Mutant: a second short send sets idx instead of adding to it.
DrainMutant(f, k) ==
  [len  |-> f.len - k,
   idx  |-> IF k = f.len THEN 0 ELSE k,
   base |-> f.base,
   in   |-> f.in,
   out  |-> f.out + k]

\* k units are sent from what is left in the buffer.
Drain(f, k) ==
  [len  |-> f.len - k,
   idx  |-> IF k = f.len THEN 0 ELSE f.idx + k,
   base |-> f.base,
   in   |-> f.in,
   out  |-> f.out + k]

\* close_and_free_remote and close_and_free_server: every watcher is stopped,
\* both sockets are closed, whatever the buffers hold is dropped.
CloseBoth ==
  /\ conn' = "closed" /\ remote' = "null" /\ watch' = {}
  /\ UNCHANGED <<stage, up, down>>

-----------------------------------------------------------------------------
(* The client's side.                                                      *)

accept_cb ==
  /\ conn = "none"
  /\ conn' = "open" /\ watch' = {"srecv"}
  /\ UNCHANGED <<stage, remote, up, down>>

\* server_recv_cb in stage 0: the method is chosen; nothing follows it yet.
Greeting ==
  /\ "srecv" \in watch /\ stage = 0
  /\ stage' = 1
  /\ UNCHANGED <<conn, remote, watch, up, down>>

\* Mutant: the client is read while the connection is being made.
ConnectingMutant(n) ==
  /\ "srecv" \in watch /\ stage \in {0, 1}
  /\ stage' = 5 /\ remote' = "connecting"
  /\ up' = [len |-> n, idx |-> 0, base |-> up.in, in |-> up.in + n, out |-> up.out]
  /\ watch' = watch \cup {"rsend", "ctimer"}
  /\ UNCHANGED <<conn, down>>

\* Mutant: the connect timer is not started.
ConnectingTimerMutant(n) ==
  /\ "srecv" \in watch /\ stage \in {0, 1}
  /\ stage' = 5 /\ remote' = "connecting"
  /\ up' = [len |-> n, idx |-> 0, base |-> up.in, in |-> up.in + n, out |-> up.out]
  /\ watch' = (watch \ {"srecv"}) \cup {"rsend"}
  /\ UNCHANGED <<conn, down>>

\* Stage 1 makes the remote and falls through to stage 5, which calls connect.
\* In stage 0 the request came in one chunk with the greeting.
Connecting(n) ==
  /\ "srecv" \in watch /\ stage \in {0, 1}
  /\ stage' = 5 /\ remote' = "connecting"
  /\ up' = [len |-> n, idx |-> 0, base |-> up.in, in |-> up.in + n, out |-> up.out]
  /\ watch' = (watch \ {"srecv"}) \cup {"rsend", "ctimer"}
  /\ UNCHANGED <<conn, down>>

\* connect() returns 0 and remote_send_cb is called from here: the send watcher
\* is not started, whatever the send leaves, and the receive watcher stays on.
ConnectedAtOnce(n, k) ==
  /\ "srecv" \in watch /\ stage \in {0, 1}
  /\ stage' = 5 /\ remote' = "connected"
  /\ up' = [len |-> n - k, idx |-> IF k = n THEN 0 ELSE k,
            base |-> up.in, in |-> up.in + n, out |-> up.out + k]
  /\ watch' = watch \cup {"rrecv", "rtimer"}
  /\ UNCHANGED <<conn, down>>

\* The address header makes the first chunk non-empty, unless the connection is
\* direct: then there may be nothing to send yet.
Request ==
  \E n \in 0..MaxUnits :
    /\ n = 0 => Acl
    /\ up.in + n <= MaxTotal
    /\ Connecting(n) \/ \E k \in FreshTaken(n) : ConnectedAtOnce(n, k)

\* A direct connection whose socket cannot be made: create_remote returns NULL
\* and remote->direct is set through it.
RequestCrash ==
  /\ "srecv" \in watch /\ stage \in {0, 1} /\ Acl
  /\ conn' = "crashed" /\ watch' = {}
  /\ UNCHANGED <<stage, remote, up, down>>

\* Mutant: EAGAIN is taken for success.
ServerRecvDataMutant(n, k) ==
  /\ "srecv" \in watch /\ stage = 5 /\ remote = "connected"
  /\ up.in + n <= MaxTotal
  /\ up' = Refill(up, n, k)
  /\ watch' = IF 0 < k /\ k < n THEN (watch \ {"srecv"}) \cup {"rsend"} ELSE watch
  /\ UNCHANGED <<conn, stage, remote, down>>

\* Mutant: the client is read on while a part of its data waits to be sent.
ServerRecvDataStopMutant(n, k) ==
  /\ "srecv" \in watch /\ stage = 5 /\ remote = "connected"
  /\ up.in + n <= MaxTotal
  /\ up' = Refill(up, n, k)
  /\ watch' = IF k < n THEN watch \cup {"rsend"} ELSE watch
  /\ UNCHANGED <<conn, stage, remote, down>>

\* server_recv_cb in stage 5.
ServerRecvData(n, k) ==
  /\ "srecv" \in watch /\ stage = 5 /\ remote = "connected"
  /\ up.in + n <= MaxTotal
  /\ up' = Refill(up, n, k)
  /\ watch' = IF k < n THEN (watch \ {"srecv"}) \cup {"rsend"} ELSE watch
  /\ UNCHANGED <<conn, stage, remote, down>>

\* The client closed or failed; or, in a later stage, the request was refused
\* (or was for UDP), the reply was not sent whole, or ss_encrypt, protect_socket,
\* connect, getpeername or send failed.
ServerRecvEnds == "srecv" \in watch /\ CloseBoth

server_recv_cb ==
  \/ Greeting \/ Request \/ RequestCrash \/ ServerRecvEnds
  \/ \E n \in 1..MaxUnits : \E k \in Taken(n) : ServerRecvData(n, k)

server_send_cb ==
  /\ "ssend" \in watch
  /\ \/ CloseBoth   \* nothing to send, or send failed
     \/ \E k \in Taken(down.len) :
          /\ down.len > 0
          /\ down' = Drain(down, k)
          /\ watch' = IF k = down.len THEN (watch \ {"ssend"}) \cup {"rrecv"} ELSE watch
          /\ UNCHANGED <<conn, stage, remote, up>>

-----------------------------------------------------------------------------
(* The remote side.                                                        *)

\* The first n units of a chunk may all be the cipher's IV: none are left.
RemoteRecvData(n, k) ==
  /\ down.in + n <= MaxTotal
  /\ down' = Refill(down, n, k)
  /\ watch' = (IF k < n THEN (watch \ {"rrecv"}) \cup {"ssend"} ELSE watch) \cup {"rtimer"}
  /\ UNCHANGED <<conn, stage, remote, up>>

remote_recv_cb ==
  /\ "rrecv" \in watch
  /\ \/ CloseBoth   \* closed by the remote, or recv, ss_decrypt or send failed
     \/ \E n \in 0..MaxUnits : \E k \in Taken(n) : RemoteRecvData(n, k)

\* Mutant: the idle timer is not started (ss-tunnel has none).
NowConnectedMutant ==
  IF remote = "connecting" THEN (watch \ {"ctimer"}) \cup {"rrecv"} ELSE watch

\* The watchers after getpeername has found the socket connected.
NowConnected ==
  IF remote = "connecting" THEN (watch \ {"ctimer"}) \cup {"rtimer", "rrecv"} ELSE watch

\* Connected, with nothing to send.
RemoteSendNothing ==
  /\ remote = "connecting" /\ up.len = 0
  /\ watch' = (NowConnected \ {"rsend"}) \cup {"srecv"}
  /\ UNCHANGED up

RemoteSendData(k) ==
  /\ up.len > 0
  /\ up' = Drain(up, k)
  /\ watch' = IF k = up.len THEN (NowConnected \ {"rsend"}) \cup {"srecv"} ELSE NowConnected

remote_send_cb ==
  /\ "rsend" \in watch
  /\ \/ CloseBoth   \* not connected, nothing to send, or send failed
     \/ /\ RemoteSendNothing \/ \E k \in Taken(up.len) : RemoteSendData(k)
        /\ remote' = "connected"
        /\ UNCHANGED <<conn, stage, down>>

\* The connect timer, or the idle timer.
remote_timeout_cb == watch \cap {"ctimer", "rtimer"} # {} /\ CloseBoth

\* SIGTERM ends the loop and main frees the connections.
free_connections == conn = "open" /\ CloseBoth

-----------------------------------------------------------------------------
Next ==
  \/ accept_cb \/ server_recv_cb \/ server_send_cb
  \/ remote_recv_cb \/ remote_send_cb \/ remote_timeout_cb
  \/ free_connections

\* libev calls a timer that is due.  What an end of the connection sends is
\* bounded here, so the idle timer is not put off for ever.
Fairness == WF_vars(remote_timeout_cb)

Spec == Init /\ [][Next]_vars /\ Fairness

-----------------------------------------------------------------------------
(* Properties.                                                             *)

\* Each direction of an open relay has one watcher started, never both and
\* never none: it either waits for data or waits to send what it has.  With
\* both, new data would overwrite the buffer; with none, it would stand still.
PumpsAlternate ==
  conn = "open" /\ stage = 5 =>
    /\ "srecv" \in watch <=> "rsend" \notin watch
    /\ remote = "connecting" => "rsend" \in watch /\ watch \cap {"rrecv", "ssend"} = {}
    /\ remote = "connected"  => ("rrecv" \in watch <=> "ssend" \notin watch)

\* What waits in a buffer: the units its send watcher will send.
Waiting(f, w) == IF w \in watch THEN f.len ELSE 0

\* Every unit read from one side has been sent to the other, or waits in the
\* buffer with the watcher that will send it started.
NothingLost ==
  conn = "open" =>
    /\ up.in = up.out + Waiting(up, "rsend")
    /\ down.in = down.out + Waiting(down, "ssend")

\* A send callback goes on where the last send stopped: what array + idx points
\* at is the unit after the last one sent, so that over any run of short sends
\* none is sent twice and none is left out.
InOrder ==
  /\ "rsend" \in watch => up.base + up.idx = up.out
  /\ "ssend" \in watch => down.base + down.idx = down.out

\* The comment in remote_send_cb says of a chunk that was partly sent: "wait for
\* the next time to send".  Whatever was not sent has the watcher that does.
PartlySentWaits ==
  conn = "open" /\ remote = "connected" /\ up.out < up.in => "rsend" \in watch

\* From the request on some timer runs, so a peer that neither answers, reads
\* nor closes cannot keep the two sockets for good.
TimerRuns ==
  conn = "open" /\ stage = 5 =>
    IF remote = "connecting" THEN "ctimer" \in watch ELSE "rtimer" \in watch

\* A send watcher runs only when there is something to send, or to connect: the
\* branches that close the connection on an empty buffer are never taken.
SendersHaveData ==
  /\ "ssend" \in watch => down.len > 0
  /\ "rsend" \in watch /\ remote = "connected" => up.len > 0

Abstract == INSTANCE Relay WITH
  state <- IF conn = "crashed" THEN "closed" ELSE conn,
  upIn <- up.in, upOut <- up.out, dnIn <- down.in, dnOut <- down.out

\* The callbacks together are what Relay describes: two ordered pipes that hold
\* a reader back, opened once and closed together.
RelaySpec == Abstract!Spec

\* A relay whose peers have gone quiet does not last: it is closed.
RelayEnds == conn = "open" /\ stage = 5 ~> conn # "open"
=============================================================================
