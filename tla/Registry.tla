------------------------------ MODULE Registry ------------------------------
(***************************************************************************)
(* Processes that edit the guard registry file (main.rs, load_registry and *)
(* save_registry).  An edit loads the file, computes the new registry and  *)
(* saves it with fs::write, which truncates the file and then writes it;   *)
(* nothing locks it, and a process may be killed at any point.  A file     *)
(* that cannot be read or parsed loads as the empty registry.              *)
(***************************************************************************)
EXTENDS Guards

CONSTANTS Process, Alias, GuardAddress

ASSUME RegistryConstants == NoAlias \notin Alias \union GuardAddress

VARIABLES
    file,     \* what guards.json holds: its length and the registry it
              \* parses to, Unreadable when it does not
    proc,     \* proc[p]: where an edit stands and the registry it will save
    serial,   \* history: the registry the finished edits amount to
    clean     \* history: no two edits overlapped and none was cut short

rvars == <<file, proc, serial, clean>>

Unreadable == [guards |-> <<>>, default |-> "unreadable"]
Empty == [length |-> 0, holds |-> Unreadable]

(* Command lines of guards add, remove and set-default.  guards list only  *)
(* loads; an add that the network does not confirm (verify_guard) or any   *)
(* edit the loaded registry refuses ends without touching the file.        *)
Edit == [sub : {"add"}, alias : Alias, address : GuardAddress]
          \union [sub : {"remove", "set-default"}, alias : Alias]

Resting == [pc |-> "idle"]

RInit ==
    /\ file = Empty
    /\ proc = [p \in Process |-> Resting]
    /\ serial = Registry_default
    /\ clean = TRUE

(* Entries are of about one size, so the longer text has more of them. *)
TextLength(reg) == 1 + Len(reg.guards)

load_registry == IF file.holds = Unreadable THEN Registry_default ELSE file.holds

Load(p, cmd) ==
    /\ proc[p].pc = "idle"
    /\ Accepts(load_registry, cmd)
    /\ proc' = [proc EXCEPT ![p] = [pc |-> "save", cmd |-> cmd,
                                    reg |-> Edited(load_registry, cmd)]]
    /\ clean' = (clean /\ \A q \in Process : proc[q].pc = "idle")
    /\ UNCHANGED <<file, serial>>

(* Seeded fault: the file is opened without truncating it. *)
OpenForWriting == file

(* fs::write opens the file empty; it is created when it was not there. *)
Truncated == Empty

Truncate(p) ==
    /\ proc[p].pc = "save"
    /\ file' = Truncated
    /\ proc' = [proc EXCEPT ![p].pc = "write"]
    /\ UNCHANGED <<serial, clean>>

(* The text goes to the start of the file: what another process has        *)
(* written since stays behind it when it was longer.                       *)
Overwritten(reg) ==
    IF TextLength(reg) < file.length THEN [file EXCEPT !.holds = Unreadable]
    ELSE [length |-> TextLength(reg), holds |-> reg]

Write(p) ==
    /\ proc[p].pc = "write"
    /\ file' = Overwritten(proc[p].reg)
    /\ serial' = IF clean THEN Edited(serial, proc[p].cmd) ELSE serial
    /\ proc' = [proc EXCEPT ![p] = Resting]
    /\ UNCHANGED clean

(* The process is killed, or its write fails and it panics. *)
Crash(p) ==
    /\ proc[p].pc # "idle"
    /\ proc' = [proc EXCEPT ![p] = Resting]
    /\ clean' = (clean /\ proc[p].pc = "save")
    /\ UNCHANGED <<file, serial>>

RNext ==
    \E p \in Process :
        \/ \E cmd \in Edit : Load(p, cmd)
        \/ Truncate(p)
        \/ Write(p)
        \/ Crash(p)

RSpec == RInit /\ [][RNext]_rvars

-----------------------------------------------------------------------------
(* Whatever overlaps or is cut short, a registry that loads gives every    *)
(* alias one address and every address one alias, so that no lookup        *)
(* depends on the order of the list.                                       *)
RegistryUnambiguous ==
    LET guards == load_registry.guards
    IN  \A i, j \in DOMAIN guards :
            (guards[i].alias = guards[j].alias \/ guards[i].address = guards[j].address) => i = j

(* A run without --guard finds the default whenever a guard is registered: *)
(* the third answer of resolve_guard, guards but no default, never comes   *)
(* up, neither after the default was removed nor while or after a save was *)
(* overtaken or cut short.                                                 *)
DefaultResolves ==
    resolve_default(load_registry) = NoAlias => load_registry.guards = <<>>

(* Edits that do not overlap and are not cut short are all in the file:    *)
(* none is lost, undone by a stale copy or left behind a longer text.      *)
SerialEditsKept ==
    (clean /\ \A p \in Process : proc[p].pc # "write") => load_registry = serial
=============================================================================
