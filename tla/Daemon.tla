------------------------------- MODULE Daemon -------------------------------
(***************************************************************************)
(* What the service relies on in its daemons: references it holds, and     *)
(* children that run.  DaemonGuard implements this for one daemon with a   *)
(* guard thread, a flag and an interrupt; VpnService uses all of its       *)
(* daemons in this way.                                                    *)
(*                                                                         *)
(* The promise holds as long as no onRevoke overlaps a start.  overlap     *)
(* becomes TRUE, for good, when one does.                                  *)
(***************************************************************************)
CONSTANT Daemons

VARIABLES ref,     \* daemons the service holds a reference to
          up,      \* daemons of which a child runs
          overlap

vars == <<ref, up, overlap>>

Init == ref = {} /\ up = {} /\ overlap = FALSE

\* A start takes a reference, and never finds a child that was out of reach.
Create(d) ==
  /\ ref' = ref \cup {d} /\ UNCHANGED up
  /\ d \in up => overlap'

\* A daemon is run, for the first time or again, only while it can be killed.
Run(d) ==
  /\ up' = up \cup {d} /\ UNCHANGED ref
  /\ d \in ref \/ overlap'

\* The child ends: it was killed, or died.
End(d) == up' = up \ {d} /\ UNCHANGED ref

\* The reference is dropped, and never one to a child that runs.
Drop(d) ==
  /\ ref' = ref \ {d} /\ UNCHANGED up
  /\ d \in up => overlap'

\* overlap becomes TRUE in a step of its own or together with another one.
Overlap == overlap' = TRUE /\ UNCHANGED <<ref, up>>

Next ==
  \/ \E d \in Daemons : (Create(d) \/ Run(d) \/ End(d) \/ Drop(d)) /\ (overlap => overlap')
  \/ Overlap

Spec == Init /\ [][Next]_vars
=============================================================================
