------------------------------- MODULE Guards -------------------------------
(***************************************************************************)
(* The guard registry of agent-tx (src/tools/agent-tx/src/main.rs, "Guard  *)
(* registry"): a list of guards, each an alias for a contract address, and *)
(* the alias that stands when no --guard is given.  Admin and time of an   *)
(* entry are only listed and are left out.                                 *)
(***************************************************************************)
EXTENDS Integers, SequencesExt

CONSTANT NoAlias   \* Option::None

(* Registry::default *)
Registry_default == [guards |-> <<>>, default |-> NoAlias]

HasAlias(reg, alias) == \E i \in DOMAIN reg.guards : reg.guards[i].alias = alias
HasAddress(reg, address) == \E i \in DOMAIN reg.guards : reg.guards[i].address = address

(* Seeded faults: an address may be registered twice; a removed default is *)
(* not replaced.                                                           *)
AcceptsNewAlias(reg, cmd) == (cmd.sub = "add") # HasAlias(reg, cmd.alias)
RemovedKeepsDefault(reg, alias) ==
    [reg EXCEPT !.guards = SelectSeq(@, LAMBDA g : g.alias # alias)]

(* The conditions on the loaded registry under which a command goes on.    *)
Accepts(reg, cmd) ==
    CASE cmd.sub = "add" -> ~ HasAlias(reg, cmd.alias) /\ ~ HasAddress(reg, cmd.address)
      [] cmd.sub \in {"remove", "set-default"} -> HasAlias(reg, cmd.alias)

Added(reg, alias, address) ==
    [guards  |-> Append(reg.guards, [alias |-> alias, address |-> address]),
     default |-> IF reg.default = NoAlias THEN alias ELSE reg.default]

(* The first entry with the alias, which must be there. *)
FirstOf(reg, alias) ==
    CHOOSE i \in DOMAIN reg.guards :
        /\ reg.guards[i].alias = alias
        /\ \A j \in 1 .. i - 1 : reg.guards[j].alias # alias

(* The first entry with the alias goes; a removed default passes to the    *)
(* first guard left.                                                       *)
Removed(reg, alias) ==
    LET left == RemoveAt(reg.guards, FirstOf(reg, alias))
    IN  [guards  |-> left,
         default |-> IF reg.default # alias THEN reg.default
                     ELSE IF left = <<>> THEN NoAlias ELSE left[1].alias]

(* cmd_guards_add, cmd_guards_remove, cmd_guards_set_default *)
Edited(reg, cmd) ==
    CASE cmd.sub = "add"         -> Added(reg, cmd.alias, cmd.address)
      [] cmd.sub = "remove"      -> Removed(reg, cmd.alias)
      [] cmd.sub = "set-default" -> [reg EXCEPT !.default = cmd.alias]

(* resolve_guard without --guard: the address of the default; NoAlias, an  *)
(* error, when no guard is registered under it.                            *)
resolve_default(reg) ==
    IF HasAlias(reg, reg.default) THEN reg.guards[FirstOf(reg, reg.default)].address
    ELSE NoAlias
=============================================================================
