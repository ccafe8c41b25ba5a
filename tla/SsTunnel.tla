------------------------------ MODULE SsTunnel ------------------------------
(***************************************************************************)
(* One TCP connection of ss-tunnel (tunnel.c), which carries the DNS       *)
(* queries of pdnsd to a fixed destination behind the shadowsocks server.  *)
(* The loop and the buffers are those of ss-local (see SsLocal), with      *)
(* three differences: the remote side is made and connected in accept_cb,  *)
(* before the client is read; the destination goes out by itself when the  *)
(* connection is made, from a buffer of its own; and only connecting has a *)
(* timer.                                                                  *)
(***************************************************************************)
EXTENDS Naturals

CONSTANTS
  MaxUnits,    \* bound: units of one chunk (BUF_SIZE)
  MaxTotal,    \* bound: units carried in one direction
  HeaderUnits, \* units of the encrypted destination
  FreshTakes   \* what a new connection may take of them: "all", or "some"
               \* and "none" as well

ASSUME MaxUnitsAssumption == MaxUnits \in Nat \ {0}
ASSUME MaxTotalAssumption == MaxTotal \in Nat
ASSUME HeaderUnitsAssumption == HeaderUnits \in Nat \ {0}
ASSUME FreshTakesAssumption == FreshTakes \subseteq {"all", "some", "none"}

VARIABLES
  conn,    \* the connection: "none", "open", "closed", "dropped"
  remote,  \* server->remote: "null", "connecting" or "connected"
  watch,   \* the watchers that are started
  up,      \* remote->buf and what it has carried
  down     \* server->buf, likewise

vars == <<conn, remote, watch, up, down>>

\* As in SsLocal; ctimer is send_ctx->watcher.
Watchers == {"srecv", "ssend", "rrecv", "rsend", "ctimer"}

\* As in SsLocal.
Flow == [len : Nat, idx : Nat, base : Nat, in : Nat, out : Nat]

Empty == [len |-> 0, idx |-> 0, base |-> 0, in |-> 0, out |-> 0]

\* The range of every variable.
TypeOK ==
  /\ conn \in {"none", "open", "closed", "dropped"}
  /\ remote \in {"null", "connecting", "connected"}
  /\ watch \subseteq Watchers
  /\ up \in Flow /\ down \in Flow

Init ==
  /\ conn = "none" /\ remote = "null"
  /\ watch = {}
  /\ up = Empty /\ down = Empty

-----------------------------------------------------------------------------
\* What the kernel may take of n units: all, some, or none (EAGAIN).
Taken(n) == 0..n

\* What it may take of the first n units sent on a connection.  The test of
\* the result comes after bfree has set len to 0 and never fails, so a send that
\* fails for good is "none" as well: the connection goes on without them.
FreshTaken(n) ==
  {k \in 0..n : \/ k = n /\ "all" \in FreshTakes
                \/ 0 < k /\ k < n /\ "some" \in FreshTakes
                \/ k = 0 /\ "none" \in FreshTakes}

\* Mutant: a short send does not say where it stopped.
RefillMutant(f, n, k) ==
  [len  |-> IF k < n THEN n - k ELSE n,
   idx  |-> f.idx,
   base |-> f.in,
   in   |-> f.in + n,
   out  |-> f.out + k]

\* A chunk of n units replaces what the buffer holds, and k are sent at once.
Refill(f, n, k) ==
  [len  |-> IF k < n THEN n - k ELSE n,
   idx  |-> IF k < n THEN k ELSE f.idx,
   base |-> f.in,
   in   |-> f.in + n,
   out  |-> f.out + k]

\* k units are sent from what is left in the buffer.
Drain(f, k) ==
  [len  |-> f.len - k,
   idx  |-> IF k = f.len THEN 0 ELSE f.idx + k,
   base |-> f.base,
   in   |-> f.in,
   out  |-> f.out + k]

\* close_and_free_remote and close_and_free_server.
CloseBoth ==
  /\ conn' = "closed" /\ remote' = "null" /\ watch' = {}
  /\ UNCHANGED <<up, down>>

-----------------------------------------------------------------------------
\* The remote socket cannot be made, or not be protected: accept_cb returns and
\* leaves the client's socket open, with no server_t that would close it.
AcceptDropped ==
  /\ conn' = "dropped"
  /\ UNCHANGED <<remote, watch, up, down>>

\* Mutant: the connect timer is not started.
AcceptConnectingMutant ==
  /\ conn' = "open" /\ remote' = "connecting"
  /\ watch' = {"rsend"}
  /\ UNCHANGED <<up, down>>

AcceptConnecting ==
  /\ conn' = "open" /\ remote' = "connecting"
  /\ watch' = {"rsend", "ctimer"}
  /\ UNCHANGED <<up, down>>

\* remote_send_cb when getpeername finds the socket connected: the destination
\* is sent, and from here on both sides are read.
SendAddr(k) ==
  /\ remote' = "connected"
  /\ up' = [up EXCEPT !.in = @ + HeaderUnits, !.out = @ + k]
  /\ watch' = (watch \ {"rsend", "ctimer"}) \cup {"rrecv", "srecv"}
  /\ UNCHANGED down

\* connect() returns 0 and remote_send_cb is called from accept_cb.
AcceptAtOnce ==
  /\ conn' = "open"
  /\ \E k \in FreshTaken(HeaderUnits) : SendAddr(k)

\* connect fails, or at once what remote_send_cb does.
AcceptFails == CloseBoth

accept_cb ==
  /\ conn = "none"
  /\ AcceptDropped \/ AcceptConnecting \/ AcceptAtOnce \/ AcceptFails

\* Mutant: a short send does not stop the client's watcher.
ServerRecvDataMutant(n, k) ==
  /\ up.in + n <= MaxTotal
  /\ up' = Refill(up, n, k)
  /\ watch' = IF k < n THEN watch \cup {"rsend"} ELSE watch
  /\ UNCHANGED <<conn, remote, down>>

ServerRecvData(n, k) ==
  /\ up.in + n <= MaxTotal
  /\ up' = Refill(up, n, k)
  /\ watch' = IF k < n THEN (watch \ {"srecv"}) \cup {"rsend"} ELSE watch
  /\ UNCHANGED <<conn, remote, down>>

server_recv_cb ==
  /\ "srecv" \in watch
  /\ \/ CloseBoth   \* closed by the client, or recv, ss_encrypt or send failed
     \/ \E n \in 1..MaxUnits : \E k \in Taken(n) : ServerRecvData(n, k)

server_send_cb ==
  /\ "ssend" \in watch
  /\ \/ CloseBoth   \* nothing to send, or send failed
     \/ \E k \in Taken(down.len) :
          /\ down.len > 0
          /\ down' = Drain(down, k)
          /\ watch' = IF k = down.len THEN (watch \ {"ssend"}) \cup {"rrecv"} ELSE watch
          /\ UNCHANGED <<conn, remote, up>>

\* Mutant: the send watcher is not started when a chunk is sent in part.
RemoteRecvDataMutant(n, k) ==
  /\ down.in + n <= MaxTotal
  /\ down' = Refill(down, n, k)
  /\ watch' = IF k < n THEN watch \ {"rrecv"} ELSE watch
  /\ UNCHANGED <<conn, remote, up>>

\* The first n units of a chunk may all be the cipher's IV: none are left.
RemoteRecvData(n, k) ==
  /\ down.in + n <= MaxTotal
  /\ down' = Refill(down, n, k)
  /\ watch' = IF k < n THEN (watch \ {"rrecv"}) \cup {"ssend"} ELSE watch
  /\ UNCHANGED <<conn, remote, up>>

remote_recv_cb ==
  /\ "rrecv" \in watch
  /\ \/ CloseBoth   \* closed by the remote, or recv, ss_decrypt or send failed
     \/ \E n \in 0..MaxUnits : \E k \in Taken(n) : RemoteRecvData(n, k)

RemoteSendData(k) ==
  /\ up.len > 0
  /\ up' = Drain(up, k)
  /\ watch' = IF k = up.len THEN (watch \ {"rsend"}) \cup {"srecv"} ELSE watch
  /\ UNCHANGED <<remote, down>>

remote_send_cb ==
  /\ "rsend" \in watch
  /\ \/ CloseBoth   \* not connected, nothing to send, or ss_encrypt or send failed
     \/ /\ IF remote = "connecting" THEN \E k \in FreshTaken(HeaderUnits) : SendAddr(k)
                                    ELSE \E k \in Taken(up.len) : RemoteSendData(k)
        /\ UNCHANGED conn

\* The connect timer.
remote_timeout_cb == "ctimer" \in watch /\ CloseBoth

-----------------------------------------------------------------------------
Next ==
  \/ accept_cb \/ server_recv_cb \/ server_send_cb
  \/ remote_recv_cb \/ remote_send_cb \/ remote_timeout_cb

\* libev calls a timer that is due.
Fairness == WF_vars(remote_timeout_cb)

Spec == Init /\ [][Next]_vars /\ Fairness

-----------------------------------------------------------------------------
(* Properties.                                                             *)

\* Each direction has one watcher started, never both and never none; nothing
\* is read from either side before the destination has been sent.
PumpsAlternate ==
  conn = "open" =>
    /\ "srecv" \in watch <=> "rsend" \notin watch
    /\ remote = "connecting" => "rsend" \in watch /\ watch \cap {"rrecv", "ssend"} = {}
    /\ remote = "connected"  => ("rrecv" \in watch <=> "ssend" \notin watch)

\* What waits in a buffer: the units its send watcher will send.
Waiting(f, w) == IF w \in watch THEN f.len ELSE 0

\* Every unit read from one side has been sent to the other, or waits in the
\* buffer with the watcher that will send it started.
NothingLost ==
  conn = "open" /\ remote = "connected" =>
    /\ up.in = up.out + Waiting(up, "rsend")
    /\ down.in = down.out + Waiting(down, "ssend")

\* A send callback goes on where the last send stopped: what array + idx points
\* at is the unit after the last one sent, so that over any run of short sends
\* none is sent twice and none is left out.
InOrder ==
  /\ "rsend" \in watch => up.base + up.idx = up.out
  /\ "ssend" \in watch => down.base + down.idx = down.out

Abstract == INSTANCE Relay WITH
  state <- IF conn = "dropped" THEN "closed" ELSE conn,
  upIn <- up.in, upOut <- up.out, dnIn <- down.in, dnOut <- down.out

\* The callbacks together are what Relay describes: two ordered pipes that hold
\* a reader back, opened once and closed together.
RelaySpec == Abstract!Spec

\* Connecting ends, one way or the other.
ConnectEnds == remote = "connecting" ~> remote # "connecting"
=============================================================================
