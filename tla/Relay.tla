------------------------------- MODULE Relay -------------------------------
(***************************************************************************)
(* What a TCP relay promises its two ends: bytes leave in the order they   *)
(* came in and none is lost or sent twice; one side is read again only     *)
(* when everything read before has been sent on, so a slow reader holds    *)
(* the writer back; and a closed connection moves nothing.  SsLocal and    *)
(* SsTunnel implement this.                                                *)
(*                                                                         *)
(* Bytes are counted, not named: those that came in and are still to be    *)
(* sent are the last upIn - upOut ones.                                    *)
(***************************************************************************)
EXTENDS Naturals

VARIABLES
  state,        \* "none", "open" or "closed"
  upIn, upOut,  \* bytes taken for the remote side, and sent to it
  dnIn, dnOut   \* bytes taken for the client, and sent to it

vars == <<state, upIn, upOut, dnIn, dnOut>>

Init ==
  /\ state = "none"
  /\ upIn = 0 /\ upOut = 0
  /\ dnIn = 0 /\ dnOut = 0

\* A step of one direction: take more when nothing is left, send some.
Carry(in, out) ==
  /\ in' \in Nat /\ in' >= in
  /\ in' > in => in = out
  /\ out' \in Nat /\ out' >= out /\ out' <= in'

Open == state = "none" /\ state' = "open" /\ UNCHANGED <<dnIn, dnOut>> /\ Carry(upIn, upOut)

Up   == state = "open" /\ Carry(upIn, upOut) /\ UNCHANGED <<state, dnIn, dnOut>>

Down == state = "open" /\ Carry(dnIn, dnOut) /\ UNCHANGED <<state, upIn, upOut>>

\* The bytes on their way are dropped.
Close == state # "closed" /\ state' = "closed" /\ UNCHANGED <<upIn, upOut, dnIn, dnOut>>

Next == Open \/ Up \/ Down \/ Close

Spec == Init /\ [][Next]_vars
=============================================================================
