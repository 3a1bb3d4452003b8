------------------------------ MODULE Footprint -----------------------------
(***************************************************************************)
(* The storage footprint agent-tx declares for a call through the guard    *)
(* (src/tools/agent-tx/src/main.rs, "Footprint helpers"): which of the     *)
(* guard's ledger keys a transaction may read and which it may write.  The *)
(* host refuses any access outside the declaration, so a key that is       *)
(* missing, or declared read-only and then written, fails the transaction. *)
(***************************************************************************)

CallKind == {"Transfer", "Heartbeat", "ReadOnly"}

(* WriteCondition::is_written *)
is_written(written_on, kind) ==
    \/ written_on = "Always"
    \/ written_on = "OnTransfer" /\ kind = "Transfer"
    \/ written_on = "OnHeartbeat" /\ kind = "Heartbeat"

(* Each key and when it is written.  The code keeps a list; its order is   *)
(* the order of the footprint and nothing depends on it.                   *)
GUARD_STORAGE_TOUCHES ==
    [Policy        |-> "Never",
     AdminFrozen   |-> "Never",
     Window        |-> "OnTransfer",
     LastHeartbeat |-> "OnHeartbeat",
     Instance      |-> "Always"]

GuardKeys == DOMAIN GUARD_STORAGE_TOUCHES
WrittenKeys(kind) == {k \in GuardKeys : is_written(GUARD_STORAGE_TOUCHES[k], kind)}

guard_footprint(kind) ==
    [read_only |-> GuardKeys \ WrittenKeys(kind), read_write |-> WrittenKeys(kind)]

(* Seeded fault: a key the simulation saw read stays read-only. *)
merge_keeps_read_only(fp, kind) ==
    [read_only  |-> fp.read_only \union ((GuardKeys \ WrittenKeys(kind)) \ fp.read_write),
     read_write |-> fp.read_write \union (WrittenKeys(kind) \ fp.read_only)]

(* A key the call writes moves to read_write; one it only reads is added   *)
(* to read_only unless it is there already, in either part.                *)
merge_guard_footprint(fp, kind) ==
    [read_only  |-> (fp.read_only \ WrittenKeys(kind))
                        \union ((GuardKeys \ WrittenKeys(kind)) \ fp.read_write),
     read_write |-> fp.read_write \union WrittenKeys(kind)]
=============================================================================
