-------------------------- MODULE FencedLeaseProofs --------------------------
(* The promise of FencedLease, for every set of resources and workers. *)
EXTENDS FencedLease, TLAPS

\* The audit grows by the held generation only, which is above all the others.
LEMMA AuditStep ==
  ASSUME AuditTypes, HolderUnaudited, Ordered, NEW r \in Resource, Complete(r)
  PROVE  HolderUnaudited' /\ Ordered'
<1> USE DEF AuditTypes
<1>1. audit' = [audit EXCEPT ![r] = Append(@, gen[r])]
  BY DEF Complete
<1>2. \A q \in Resource : q # r => audit'[q] = audit[q]
  BY <1>1
<1>3. /\ DOMAIN audit'[r] = DOMAIN audit[r] \cup {Len(audit[r]) + 1}
      /\ \A i \in DOMAIN audit[r] : audit'[r][i] = audit[r][i]
      /\ audit'[r][Len(audit[r]) + 1] = gen[r]
      /\ DOMAIN audit[r] = 1..Len(audit[r])
  BY <1>1
<1>4. \A i \in DOMAIN audit[r] : audit[r][i] < gen[r] /\ audit[r][i] \in Nat
  BY DEF Complete, HolderUnaudited
<1>5. HolderUnaudited'
  BY <1>2, <1>3, <1>4 DEF Complete, HolderUnaudited
<1>6. ASSUME NEW q \in Resource, NEW i \in DOMAIN audit'[q],
             NEW j \in DOMAIN audit'[q], i < j
      PROVE  audit'[q][i] < audit'[q][j]
  <2>1. CASE q # r
    BY <1>2, <1>6, <2>1 DEF Ordered
  <2>2. CASE q = r /\ j \in DOMAIN audit[r]
    <3>1. i \in DOMAIN audit[r]
      BY <1>3, <1>6, <2>2
    <3> QED
      BY <1>3, <1>6, <2>2, <3>1 DEF Ordered
  <2>3. CASE q = r /\ j = Len(audit[r]) + 1
    <3>1. i \in DOMAIN audit[r]
      BY <1>3, <1>6, <2>3
    <3> QED
      BY <1>3, <1>4, <2>3, <3>1
  <2> QED
    BY <1>3, <2>1, <2>2, <2>3
<1> QED
  BY <1>5, <1>6 DEF Ordered

\* Completions are audited in the order of their claims, whatever the number
\* of workers, the lease time and the pauses of a worker between two steps.
THEOREM AuditOrder == Spec => [](Ordered /\ HolderUnaudited)
<1>1. Init => AuditTypes /\ Ordered /\ HolderUnaudited
  BY DEF Init, AuditTypes, Ordered, HolderUnaudited
<1>2. AuditTypes /\ Ordered /\ HolderUnaudited /\ [Next]_vars
        => (Ordered /\ HolderUnaudited)'
  <2> SUFFICES ASSUME AuditTypes, Ordered, HolderUnaudited, [Next]_vars
               PROVE  Ordered' /\ HolderUnaudited'
    OBVIOUS
  <2>1. ASSUME NEW r \in Resource, NEW w \in Worker, Acquire(r, w)
        PROVE  Ordered' /\ HolderUnaudited'
    <3>1. audit' = audit
      BY <2>1 DEF Acquire
    <3>2. \A q \in Resource, i \in Nat :
            i \in DOMAIN audit[q] => audit[q][i] \in Nat
      BY DEF AuditTypes
    <3>3. \A q \in Resource : gen'[q] = (IF q = r THEN gen[q] + 1 ELSE gen[q])
      BY <2>1 DEF Acquire, AuditTypes
    <3>4. \A q \in Resource : DOMAIN audit[q] \subseteq Nat /\ gen[q] \in Nat
      BY DEF AuditTypes
    <3>5. \A q \in Resource : q # r => owner'[q] = owner[q]
      BY <2>1 DEF Acquire, AuditTypes
    <3> QED
      BY <3>1, <3>2, <3>3, <3>4, <3>5 DEF Ordered, HolderUnaudited
  <2>2. ASSUME NEW r \in Resource, Renew(r) PROVE Ordered' /\ HolderUnaudited'
    BY <2>2 DEF Renew, Ordered, HolderUnaudited
  <2>3. ASSUME NEW r \in Resource, Complete(r) PROVE Ordered' /\ HolderUnaudited'
    BY <2>3, AuditStep
  <2>4. ASSUME NEW set \in SUBSET Resource, Revoke(set)
        PROVE  Ordered' /\ HolderUnaudited'
    BY <2>4 DEF Revoke, Ordered, HolderUnaudited
  <2>5. CASE Elapse
    BY <2>5 DEF Elapse, Ordered, HolderUnaudited
  <2>6. CASE UNCHANGED vars
    BY <2>6 DEF vars, Ordered, HolderUnaudited
  <2> QED
    BY <2>1, <2>2, <2>3, <2>4, <2>5, <2>6 DEF Next
<1>3. AuditTypes /\ [Next]_vars => AuditTypes'
  <2> SUFFICES ASSUME AuditTypes, [Next]_vars PROVE AuditTypes'
    OBVIOUS
  <2> USE DEF AuditTypes
  <2>1. ASSUME NEW r \in Resource, NEW w \in Worker, Acquire(r, w)
        PROVE  AuditTypes'
    <3>1. owner' = [q \in Resource |-> owner'[q]]
      BY <2>1 DEF Acquire
    <3>2. gen' \in [Resource -> Nat] /\ audit' = audit
      BY <2>1 DEF Acquire
    <3> QED
      BY <3>1, <3>2
  <2>2. ASSUME NEW r \in Resource, Complete(r) PROVE AuditTypes'
    <3>1. owner' = [q \in Resource |-> owner'[q]]
      BY <2>2 DEF Complete
    <3>2. audit' \in [Resource -> Seq(Nat)] /\ gen' = gen
      BY <2>2 DEF Complete
    <3> QED
      BY <3>1, <3>2
  <2>3. ASSUME NEW set \in SUBSET Resource, Revoke(set) PROVE AuditTypes'
    BY <2>3 DEF Revoke
  <2>4. ASSUME UNCHANGED <<owner, gen, audit>> PROVE AuditTypes'
    <3>1. owner' = owner /\ gen' = gen /\ audit' = audit
      BY <2>4
    <3> QED
      BY <3>1, Zenon
  <2>5. ASSUME NEW r \in Resource, Renew(r) PROVE AuditTypes'
    BY <2>4, <2>5 DEF Renew
  <2>6. CASE Elapse
    BY <2>4, <2>6 DEF Elapse
  <2>7. CASE UNCHANGED vars
    BY <2>4, <2>7 DEF vars
  <2> QED
    BY <2>1, <2>2, <2>3, <2>5, <2>6, <2>7 DEF Next
<1> QED
  BY <1>1, <1>2, <1>3, PTL DEF Spec

=============================================================================
