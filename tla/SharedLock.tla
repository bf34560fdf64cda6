----------------------------- MODULE SharedLock -----------------------------
(***************************************************************************)
(* The lock of src/tarpon/src/utils/lock.ts: one item per lock key in the  *)
(* transient DynamoDB table.  acquireLockInternal is a conditional Put that *)
(* succeeds when there is no item or the item's ttl has passed; acquireLock *)
(* retries it with a backoff; releaseLock is a Delete without a condition.  *)
(*                                                                         *)
(* The item does not name its owner, so "owner" is a ghost variable: it     *)
(* says whose live item it is, and no guard reads it.  The clock is        *)
(* abstracted to whether the ttl of the item has passed.                   *)
(***************************************************************************)
CONSTANTS
  Proc,   \* the processes (lambda invocations, rule runs) that take locks
  Key     \* the lock keys

VARIABLES
  item,   \* the SHARED_LOCKS item of each key
  owner   \* ghost: the process that put the item, while its ttl runs

lockVars == <<item, owner>>

LockTypeOK ==
  /\ item \in [Key -> {"absent", "live", "expired"}]
  /\ owner \in [Key -> SUBSET Proc]

LockInit ==
  /\ item = [k \in Key |-> "absent"]
  /\ owner = [k \in Key |-> {}]

(* Mutant: the condition only asks for the absence of the item.            *)
AvailableIfAbsent(k) == item[k] = "absent"

(* ConditionExpression: attribute_not_exists(PartitionKeyID) OR ttl < now  *)
Available(k) == item[k] # "live"

AcquireLock(p, k) ==
  /\ Available(k)
  /\ item' = [item EXCEPT ![k] = "live"]
  /\ owner' = [owner EXCEPT ![k] = {p}]

(* A Delete of the key: whoever calls it, and whoever's item it is.        *)
ReleaseLock(k) ==
  /\ item' = [item EXCEPT ![k] = "absent"]
  /\ owner' = [owner EXCEPT ![k] = {}]

(* The ttl of the item passes.                                             *)
ExpireLock(k) ==
  /\ item[k] = "live"
  /\ item' = [item EXCEPT ![k] = "expired"]
  /\ owner' = [owner EXCEPT ![k] = {}]

=============================================================================
