----------------------------- MODULE FencedLease -----------------------------
(***************************************************************************)
(* What the persistent schedulers of this application promise about their  *)
(* leases: the columns lease_owner, lease_until and lease_generation of a  *)
(* row, and the audit of completed executions.  A claim needs a lease that *)
(* is free or expired and advances the generation; only the holder of the  *)
(* current generation renews, or completes and releases.  Expiry alone     *)
(* takes nothing from a holder that nobody has replaced; a failure or a    *)
(* requeue may give leases up without a completion.                        *)
(***************************************************************************)
EXTENDS Integers, Sequences

CONSTANTS
  Resource,    \* rows with lease columns
  Worker,
  NoWorker,    \* lease_owner IS NULL
  LeaseTicks,  \* lease_seconds
  MaxClock,    \* bound: the clock
  MaxClaims    \* bound: the lease generation of one row

VARIABLES now, owner, until, gen, audit

vars == <<now, owner, until, gen, audit>>

Init ==
  /\ now = 0
  /\ owner = [r \in Resource |-> NoWorker]
  /\ until = [r \in Resource |-> 0]
  /\ gen = [r \in Resource |-> 0]
  /\ audit = [r \in Resource |-> <<>>]

\* BEGIN IMMEDIATE claim of a free or expired lease; the clock was read before it.
Acquire(r, w) ==
  /\ gen[r] < MaxClaims
  /\ owner' = [owner EXCEPT ![r] = w]
  /\ \E at \in 0..now : until[r] <= at /\ until' = [until EXCEPT ![r] = at + LeaseTicks]
  /\ gen' = [gen EXCEPT ![r] = @ + 1]
  /\ UNCHANGED <<now, audit>>

\* The heartbeat of the holder puts the expiry off.
Renew(r) ==
  /\ owner[r] # NoWorker
  /\ \E later \in until[r]..(now + LeaseTicks) : until' = [until EXCEPT ![r] = later]
  /\ UNCHANGED <<now, owner, gen, audit>>

\* The holder completes: the audit row and the release are one transaction.
Complete(r) ==
  /\ owner[r] # NoWorker
  /\ audit' = [audit EXCEPT ![r] = Append(@, gen[r])]
  /\ owner' = [owner EXCEPT ![r] = NoWorker]
  /\ until' = [until EXCEPT ![r] = 0]
  /\ UNCHANGED <<now, gen>>

\* Leases are given up or taken away without a completion.
Revoke(set) ==
  /\ owner' = [r \in Resource |-> IF r \in set THEN NoWorker ELSE owner[r]]
  /\ until' = [r \in Resource |-> IF r \in set THEN 0 ELSE until[r]]
  /\ UNCHANGED <<now, gen, audit>>

Elapse ==
  /\ now' \in (now + 1)..MaxClock
  /\ UNCHANGED <<owner, until, gen, audit>>

Next ==
  \/ \E r \in Resource :
       \/ \E w \in Worker : Acquire(r, w)
       \/ Renew(r)
       \/ Complete(r)
  \/ \E set \in SUBSET Resource : Revoke(set)
  \/ Elapse

Spec == Init /\ [][Next]_vars

-----------------------------------------------------------------------------
\* The types that the order of the audit rests on.
AuditTypes ==
  /\ owner = [r \in Resource |-> owner[r]]
  /\ gen \in [Resource -> Nat]
  /\ audit \in [Resource -> Seq(Nat)]

\* A held generation is not in the audit yet, and the audit knows no
\* generation that was never granted.
HolderUnaudited ==
  \A r \in Resource : \A i \in DOMAIN audit[r] :
    /\ audit[r][i] <= gen[r]
    /\ owner[r] # NoWorker => audit[r][i] < gen[r]

\* Completions are audited in the order of their claims, each at most once.
Ordered ==
  \A r \in Resource : \A i, j \in DOMAIN audit[r] :
    i < j => audit[r][i] < audit[r][j]

=============================================================================
