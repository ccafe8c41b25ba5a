------------------------------ MODULE UdpRelay ------------------------------
(***************************************************************************)
(* The UDP relay of ss-local and ss-tunnel (udprelay.c, MODULE_LOCAL).     *)
(* Each source address has an association: a socket towards the server     *)
(* and an idle timer (remote_ctx_t), found through the cache conn_cache.   *)
(* The cache owns the associations: it frees one when it is removed or     *)
(* pushed out.  One thread runs the callbacks, each of them an action.     *)
(*                                                                         *)
(* Datagrams are not modelled beyond their source: one that cannot be      *)
(* received, parsed, decrypted, encrypted or sent is dropped, and what the *)
(* relay has changed until then stays changed.                             *)
(***************************************************************************)
EXTENDS ConnCache, FiniteSets

CONSTANTS
  Sources,     \* source addresses; with one address family, the cache's keys
  MaxConn,     \* MAX_UDP_CONN_NUM
  Timeout,     \* server_ctx->timeout, in ticks
  MaxPackets   \* bound: datagrams from the sources

ASSUME SourcesAssumption == Sources # {}
ASSUME MaxConnAssumption == MaxConn \in Nat /\ MaxConn >= 2
ASSUME TimeoutAssumption == Timeout \in Nat \ {0}
ASSUME MaxPacketsAssumption == MaxPackets \in Nat

Ctx == 1..MaxConn   \* addresses of remote_ctx_t; a freed one is used again

VARIABLES
  running,  \* the loop runs
  cache,    \* server_ctx->conn_cache
  live,     \* the remote_ctx_t that are allocated, with their socket open
  started,  \* those whose io and timer are started
  src,      \* remote_ctx->src_addr
  age,      \* ticks since the timer of a remote_ctx was started
  packets,  \* datagrams from the sources so far
  last      \* history: last[s] is the number of the last datagram of s, 0 for none

vars == <<running, cache, live, started, src, age, packets, last>>

\* The range of every variable.
TypeOK ==
  /\ running \in BOOLEAN
  /\ cache \in Seq([key : Sources, data : Ctx])
  /\ live \subseteq Ctx /\ started \subseteq Ctx
  /\ src \in [Ctx -> Sources]
  /\ age \in [Ctx -> 0..Timeout]
  /\ packets \in 0..MaxPackets
  /\ last \in [Sources -> 0..packets]

\* init_udprelay.  src and age mean nothing before new_remote.
Init ==
  /\ running = TRUE
  /\ cache = <<>> /\ live = {} /\ started = {}
  /\ src = [c \in Ctx |-> CHOOSE s \in Sources : TRUE]
  /\ age = [c \in Ctx |-> 0]
  /\ packets = 0 /\ last = [s \in Sources |-> 0]

\* Mutant: the association is forgotten but its socket and watchers stay.
FreeMutant(ctxs) == UNCHANGED <<live, started>>

\* free_cb, through close_and_free_remote: the watchers are stopped, the socket
\* is closed.
Free(ctxs) == live' = live \ ctxs /\ started' = started \ ctxs

\* History: s has sent the latest datagram.
Sent(s) == last' = [last EXCEPT ![s] = packets']

\* server_recv_cb with an association: the entry is touched and the timer starts
\* again, even if the datagram is then dropped as a fragment.  The source of the
\* association is compared once more; the key is made of it, so it is the same.
Hit(s) ==
  /\ Has(cache, s)
  /\ cache' = Lookup(cache, s)
  /\ age' = [age EXCEPT ![Data(cache, s)] = 0]
  /\ UNCHANGED <<live, started, src>>

\* Mutant: the watchers are not started.
MissTimerMutant(s) ==
  /\ ~Has(cache, s)
  /\ \E c \in Ctx \ live :
       /\ cache' = Insert(cache, s, c, MaxConn)
       /\ live' = (live \cup {c}) \ InsertFrees(cache, s, c, MaxConn)
       /\ started' = started \ InsertFrees(cache, s, c, MaxConn)
       /\ src' = [src EXCEPT ![c] = s]
       /\ age' = [age EXCEPT ![c] = 0]

\* server_recv_cb without one: new_remote, cache_insert, which may free the
\* oldest association, and only then are the watchers started.
Miss(s) ==
  /\ ~Has(cache, s)
  /\ \E c \in Ctx \ live :
       /\ cache' = Insert(cache, s, c, MaxConn)
       /\ live' = (live \cup {c}) \ InsertFrees(cache, s, c, MaxConn)
       /\ started' = (started \ InsertFrees(cache, s, c, MaxConn)) \cup {c}
       /\ src' = [src EXCEPT ![c] = s]
       /\ age' = [age EXCEPT ![c] = 0]

\* Without an association the datagram is dropped, and nothing is changed, when
\* it is a fragment or the socket cannot be made or protected.
server_recv_cb(s) ==
  /\ running
  /\ packets < MaxPackets /\ packets' = packets + 1
  /\ Hit(s) \/ Miss(s)
  /\ Sent(s)
  /\ UNCHANGED running

\* A datagram of the server: only one that was sent on to the source starts the
\* timer again.
remote_recv_cb(c) ==
  /\ running /\ c \in started
  /\ age' = [age EXCEPT ![c] = 0]
  /\ UNCHANGED <<running, cache, live, started, src, packets, last>>

\* Mutant: the oldest entry is removed, whatever timer it was.
TimedOutMutant(c) == cache[1].key

\* The key is made from the association, and the cache searched for it.
TimedOut(c) == src[c]

remote_timeout_cb(c) ==
  /\ running /\ c \in started /\ age[c] = Timeout
  /\ cache' = Remove1(cache, TimedOut(c))
  /\ Free(Remove1Frees(cache, TimedOut(c)))
  /\ UNCHANGED <<running, src, age, packets, last>>

\* The loop calls the timers that are due before time goes on.
Tick ==
  /\ running /\ started # {}
  /\ \A c \in started : age[c] < Timeout
  /\ age' = [c \in Ctx |-> IF c \in started THEN age[c] + 1 ELSE age[c]]
  /\ UNCHANGED <<running, cache, live, started, src, packets, last>>

\* main after the loop, with cache_delete.
free_udprelay ==
  /\ running /\ running' = FALSE
  /\ cache' = <<>>
  /\ Free(DeleteFrees(cache))
  /\ UNCHANGED <<src, age, packets, last>>

\* create_remote_socket calls exit when bind fails: the kernel closes the rest.
BindFails ==
  /\ running /\ running' = FALSE
  /\ \E s \in Sources : ~Has(cache, s)
  /\ cache' = <<>> /\ live' = {} /\ started' = {}
  /\ UNCHANGED <<src, age, packets, last>>

Next ==
  \/ \E s \in Sources : server_recv_cb(s)
  \/ \E c \in Ctx : remote_recv_cb(c) \/ remote_timeout_cb(c)
  \/ Tick \/ free_udprelay \/ BindFails

\* Time passes, and the loop calls the timers that are due.
Fairness ==
  /\ WF_vars(Tick)
  /\ \A c \in Ctx : WF_vars(remote_timeout_cb(c))

Spec == Init /\ [][Next]_vars /\ Fairness

-----------------------------------------------------------------------------
(* Properties.                                                             *)

\* The cache owns the associations: each is in it exactly once, under the source
\* it answers to, with its watchers started; and there are no others.  So no
\* callback is given a freed remote_ctx_t, and none is lost with its socket.  One
\* slot is free between two callbacks: the association that server_recv_cb has
\* inserted is never the one cache_insert pushes out.
CacheOwns ==
  /\ live = started
  /\ live = {cache[i].data : i \in DOMAIN cache}
  /\ \A i \in DOMAIN cache : src[cache[i].data] = cache[i].key
  /\ \A i, j \in DOMAIN cache : cache[i].key = cache[j].key \/ cache[i].data = cache[j].data => i = j
  /\ Len(cache) < MaxConn

\* The cache is in the order of the sources' last datagrams.
OldestFirst ==
  \A i, j \in DOMAIN cache : i < j => last[cache[i].key] < last[cache[j].key]

\* An association ends when its timer is due, when a new source needs the room
\* and no other has been silent for longer, or when the relay ends.
EndsForAReason ==
  [][\A i \in DOMAIN cache : ~Has(cache', cache[i].key) =>
       \/ age[cache[i].data] = Timeout
       \/ i = 1 /\ Len(cache) = MaxConn - 1 /\ packets' # packets
       \/ ~running']_vars

\* A datagram never ends the association of its own source, nor makes a second
\* one: it goes out through the socket of the one before, with the whole timeout
\* ahead.
FreshStays ==
  [][\A i \in DOMAIN cache : packets' # packets /\ last'[cache[i].key] = packets' =>
       /\ Has(cache', cache[i].key)
       /\ Data(cache', cache[i].key) = cache[i].data
       /\ age'[cache[i].data] = 0]_vars

\* Sources that have gone silent leave no socket behind, unless the server
\* keeps sending to it.
SilentAreFreed ==
  (\A c \in Ctx : <>[][~remote_recv_cb(c)]_vars) => <>[](live = {})
=============================================================================
