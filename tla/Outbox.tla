------------------------------- MODULE Outbox -------------------------------
(***************************************************************************)
(* What the offline queue promises: a durable outbox of location choices.  *)
(* An accepted choice is in the outbox; it is owed until the server has    *)
(* acknowledged it, and only what is no longer owed is cleared.  A power   *)
(* loss is not an event here: an outbox that survives one does not change. *)
(***************************************************************************)
CONSTANTS Spools, Locations, None

VARIABLES
  outbox,  \* the pending location of each spool, None when nothing is pending
  owed     \* the location promised and not yet acknowledged

vars == <<outbox, owed>>

Init ==
  /\ outbox = [s \in Spools |-> None]
  /\ owed = [s \in Spools |-> None]

\* A choice creates or replaces the one pending entry of its spool.
Accept(s, l) ==
  /\ outbox' = [outbox EXCEPT ![s] = l]
  /\ owed' = [owed EXCEPT ![s] = l]

\* The server has the spool where it was wanted.
Acknowledge(s) ==
  /\ owed' = [owed EXCEPT ![s] = None]
  /\ UNCHANGED outbox

\* Acknowledged entries leave in one update.
Clear(D) ==
  /\ \A s \in D : owed[s] = None
  /\ outbox' = [s \in Spools |-> IF s \in D THEN None ELSE outbox[s]]
  /\ UNCHANGED owed

Next ==
  \/ \E s \in Spools, l \in Locations : Accept(s, l)
  \/ \E s \in Spools : Acknowledge(s)
  \/ \E D \in SUBSET Spools : Clear(D)

Spec == Init /\ [][Next]_vars
=============================================================================
