---------------------------- MODULE LeasePromise ----------------------------
(***************************************************************************)
(* What scripts/slice_lease.py promises its caller, the launcher: a set of *)
(* named leases in which a free key is granted to one run, a key is taken  *)
(* away from a run only by that run's own release or because its lease is  *)
(* stale (its holder is gone or its TTL has passed), and a run that finds  *)
(* its lease gone leaves the successor's alone.  Every operation is one    *)
(* atomic step here; module SliceLease has the code's own steps.           *)
(***************************************************************************)
EXTENDS Naturals

CONSTANTS
  Run,        \* launcher processes, each with a run id of its own
  Key,        \* lease names: slice ids and "_workspace"
  TTL,        \* the --ttl of every acquire, in clock units
  MaxClock,   \* bound: the clock stops here
  Free,       \* no file at <key>.lock
  Untried,    \* the run has not asked for the key yet
  Done        \* the run was refused the key, or has let it go

ASSUME LeaseAssumption ==
  /\ TTL \in Nat \ {0}
  /\ MaxClock \in Nat
  /\ Free \notin [run : Run, at : Nat]
  /\ Untried \notin [run : Run, at : Nat]
  /\ Done \notin [run : Run, at : Nat]
  /\ Untried # Done

VARIABLES
  clock,      \* time.time(), shared by every process of the host
  alive,      \* which launcher processes exist
  locks,      \* the record behind <key>.lock, or Free
  lease       \* the record a run was granted, or Untried, or Done

promiseVars == <<clock, alive, locks, lease>>

\* A lease record: who holds it, and when the attempt that took it began.
Record == [run : Run, at : 0 .. MaxClock]

ExpiresAt(rec) == rec.at + TTL

\* The two grounds on which a lease may be taken from its holder.
Stale(rec) == ~alive[rec.run] \/ clock >= ExpiresAt(rec)

PromiseInit ==
  /\ clock = 0
  /\ alive = [r \in Run |-> TRUE]
  /\ locks = [k \in Key |-> Free]
  /\ lease = [r \in Run |-> [k \in Key |-> Untried]]

\* A free key is granted to one run, dated no later than the grant.
Grant(r, k) ==
  /\ lease[r][k] = Untried
  /\ locks[k] = Free
  /\ \E at \in 0 .. clock :
       /\ locks' = [locks EXCEPT ![k] = [run |-> r, at |-> at]]
       /\ lease' = [lease EXCEPT ![r][k] = [run |-> r, at |-> at]]
  /\ UNCHANGED <<clock, alive>>

Refuse(r, k) ==
  /\ lease[r][k] = Untried
  /\ lease' = [lease EXCEPT ![r][k] = Done]
  /\ UNCHANGED <<clock, alive, locks>>

\* A release removes the lock only if it is the releaser's own.
GiveBack(r, k) ==
  /\ lease[r][k] \in Record
  /\ locks' = IF locks[k] = lease[r][k]
                THEN [locks EXCEPT ![k] = Free] ELSE locks
  /\ lease' = [lease EXCEPT ![r][k] = Done]
  /\ UNCHANGED <<clock, alive>>

\* Only a stale lease is broken; its holder is not told.
Reclaim(k) ==
  /\ locks[k] \in Record
  /\ Stale(locks[k])
  /\ locks' = [locks EXCEPT ![k] = Free]
  /\ UNCHANGED <<clock, alive, lease>>

Pass ==
  /\ clock < MaxClock
  /\ clock' = clock + 1
  /\ UNCHANGED <<alive, locks, lease>>

Perish(r) ==
  /\ alive[r]
  /\ alive' = [alive EXCEPT ![r] = FALSE]
  /\ UNCHANGED <<clock, locks, lease>>

PromiseNext ==
  \/ \E r \in Run, k \in Key : Grant(r, k) \/ Refuse(r, k) \/ GiveBack(r, k)
  \/ \E k \in Key : Reclaim(k)
  \/ \E r \in Run : Perish(r)
  \/ Pass

PromiseSpec == PromiseInit /\ [][PromiseNext]_promiseVars

-----------------------------------------------------------------------------
\* A run may act on its lease: granted, not yet released, holder running,
\* TTL not spent.
Entitled(r, k) ==
  /\ alive[r]
  /\ lease[r][k] \in Record
  /\ clock < ExpiresAt(lease[r][k])

\* An entitled run's own record is what stands under the lock name: nobody
\* has broken, released or replaced it behind the run's back.
HolderKeepsLock ==
  \A r \in Run, k \in Key : Entitled(r, k) => locks[k] = lease[r][k]

\* Two sessions never both may act on one key (docstring lines 30-31).
MutualExclusion ==
  \A k \in Key, r1, r2 \in Run :
    Entitled(r1, k) /\ Entitled(r2, k) => r1 = r2
=============================================================================
