------------------------------- MODULE Account ------------------------------
(***************************************************************************)
(* The custom account contract PolicyEngine of src/src/lib.rs: its storage *)
(* as variables and one action per entry point that can change it.         *)
(*                                                                         *)
(* The host runs one transaction at a time and rolls a failed one back     *)
(* completely, events included, so a call that panics or is refused is no  *)
(* step at all: an action's guard is the conjunction of everything the     *)
(* entry point requires.  Several transactions may share a ledger second.  *)
(*                                                                         *)
(* External to the contract and modelled from its use: the host supplies   *)
(* the ledger time (Tick), checks require_auth (the `who` of an action     *)
(* must be the address asked for) and verifies signatures (the `key` of an *)
(* authorization must be the registered key).                              *)
(***************************************************************************)
EXTENDS Engine

CONSTANTS
    Signer,        \* the addresses that may sign a call
    Key,           \* agent public keys
    Config,        \* the policy configs an admin may submit, valid or not
    Batch,         \* the context lists the host may hand to __check_auth
    MaxTime,       \* bound on ledger time
    MaxRevision    \* bound on the revision counter (a u64 in the code)

ASSUME AccountConstants ==
    /\ Signer \subseteq Address
    /\ None \notin Key
    /\ Config \subseteq PolicyConfig
    /\ MaxTime \in Nat \ {0}
    /\ MaxRevision \in Nat
    /\ <<>> \notin Batch
    /\ Batch \subseteq Seq([contract : Address \union {None}, fn : STRING,
                            args : Seq(Address \union Int)])

VARIABLES
    now,             \* ledger timestamp
    admin,           \* Admin, None until initialize (the Initialized flag is set with it)
    pendingAdmin,    \* PendingAdmin
    agentKey,        \* AgentPubkey
    policy,          \* Policy, None when no policy is stored
    window,          \* Window, None when the key is absent
    lastHeartbeat,   \* LastHeartbeat, 0 = never
    adminFrozen,     \* AdminFrozen
    autoFrozenAt,    \* AutoFrozenAt, 0 = not recorded
    revision         \* PolicyRevision

instanceVars == <<admin, pendingAdmin, agentKey>>
dmsVars      == <<lastHeartbeat, adminFrozen, autoFrozenAt>>
policyVars   == <<policy, revision>>
vars         == <<now, instanceVars, policyVars, window, dmsVars>>

Init ==
    /\ now = 1
    /\ admin = None /\ pendingAdmin = None /\ agentKey = None
    /\ policy = None /\ revision = 0
    /\ window = None
    /\ lastHeartbeat = 0 /\ adminFrozen = FALSE /\ autoFrozenAt = 0

(* A ledger closes with a later timestamp. *)
Tick ==
    /\ now < MaxTime
    /\ now' = now + 1
    /\ UNCHANGED <<instanceVars, policyVars, window, dmsVars>>

-----------------------------------------------------------------------------
(* Authorization *)

(* load_window *)
LoadedFrom(stored) == IF stored = None THEN Ledger_empty ELSE from_state(stored)
LoadedLedger == LoadedFrom(window)

(* The decision of __check_auth over the storage snapshot. *)
Decision(ctxs) == decide(policy, adminFrozen, lastHeartbeat, LoadedLedger, now, ctxs)

HasEntries(ledger) ==
    \/ ledger.global.entries # <<>>
    \/ \E r \in DOMAIN ledger.recipients : ledger.recipients[r].entries # <<>>

(* The window is written back when the key was there or when the ledger    *)
(* has spend entries.                                                      *)
SavedOver(stored, ledger) ==
    IF stored # None \/ HasEntries(ledger) THEN to_state(ledger) ELSE stored
SavedWindow(ledger) == SavedOver(window, ledger)

(* The signature verifies, a policy is stored and every context passes. *)
Authorized(key, ctxs) ==
    /\ agentKey # None
    /\ key = agentKey
    /\ policy # None
    /\ AllAllowed(Decision(ctxs).verdicts)

check_auth(key, ctxs) ==
    /\ Authorized(key, ctxs)
    /\ window' = SavedWindow(Decision(ctxs).ledger)
    /\ UNCHANGED <<now, instanceVars, policyVars, dmsVars>>

SelfCall(fn) == [contract |-> Self, fn |-> fn, args |-> <<>>]

(* require_auth on an address: its holder signs, except that the account's *)
(* own authorization is again a run of __check_auth on the self-call.      *)
require_auth(who, fn) == who # Self \/ (\E key \in Key : Authorized(key, <<SelfCall(fn)>>))

-----------------------------------------------------------------------------
(* Lifecycle and policy management *)

initialize(who, key) ==
    /\ admin = None
    /\ require_auth(who, "initialize")
    /\ admin' = who
    /\ agentKey' = key
    /\ adminFrozen' = FALSE
    /\ lastHeartbeat' = 0
    /\ UNCHANGED <<now, pendingAdmin, policyVars, window, autoFrozenAt>>

(* admin_or_panic: the contract is initialized and its admin signed. *)
admin_or_panic(who, fn) == admin # None /\ who = admin /\ require_auth(who, fn)

increment_revision ==
    /\ revision < MaxRevision
    /\ revision' = revision + 1

(* Seeded faults: an edit seeds a fresh window too; a first install leaves *)
(* the dead-man clock alone.                                               *)
set_policy_reseeds(who, config) ==
    /\ admin_or_panic(who, "set_policy")
    /\ validate_config(config)
    /\ policy' = config
    /\ increment_revision
    /\ window' = to_state(Ledger_empty)
    /\ lastHeartbeat' = now
    /\ UNCHANGED <<now, instanceVars, adminFrozen, autoFrozenAt>>
set_policy_unarmed(who, config) ==
    /\ admin_or_panic(who, "set_policy")
    /\ validate_config(config)
    /\ policy' = config
    /\ increment_revision
    /\ window' = IF policy = None THEN to_state(Ledger_empty) ELSE window
    /\ UNCHANGED <<now, instanceVars, dmsVars>>

(* A first install seeds an empty window and arms the dead-man clock; an   *)
(* edit leaves both alone.                                                 *)
set_policy(who, config) ==
    /\ admin_or_panic(who, "set_policy")
    /\ validate_config(config)
    /\ policy' = config
    /\ increment_revision
    /\ IF policy = None
       THEN window' = to_state(Ledger_empty) /\ lastHeartbeat' = now
       ELSE UNCHANGED <<window, lastHeartbeat>>
    /\ UNCHANGED <<now, instanceVars, adminFrozen, autoFrozenAt>>

reset_window(who) ==
    /\ admin_or_panic(who, "reset_window")
    /\ window' = None
    /\ UNCHANGED <<now, instanceVars, policyVars, dmsVars>>

(* Seeded fault: the revision stays. *)
set_paused_silently(who, paused) ==
    /\ admin_or_panic(who, IF paused THEN "pause" ELSE "resume")
    /\ policy # None
    /\ policy' = [policy EXCEPT !.paused = paused]
    /\ UNCHANGED <<now, instanceVars, revision, window, dmsVars>>

(* pause and resume: the flag of the stored policy, and nothing else. *)
set_paused(who, paused) ==
    /\ admin_or_panic(who, IF paused THEN "pause" ELSE "resume")
    /\ policy # None
    /\ IF policy.paused # paused
       THEN policy' = [policy EXCEPT !.paused = paused] /\ increment_revision
       ELSE UNCHANGED policyVars
    /\ UNCHANGED <<now, instanceVars, window, dmsVars>>

revoke_policy(who) ==
    /\ admin_or_panic(who, "revoke_policy")
    /\ policy' = None
    /\ window' = None
    /\ increment_revision
    /\ UNCHANGED <<now, instanceVars, dmsVars>>

rotate_agent_key(who, key) ==
    /\ admin_or_panic(who, "rotate_agent_key")
    /\ agentKey # None
    /\ agentKey' = key
    /\ UNCHANGED <<now, admin, pendingAdmin, policyVars, window, dmsVars>>

-----------------------------------------------------------------------------
(* Two-step admin rotation *)

(* Seeded fault: the admin in office may be proposed. *)
propose_anyone(who, new) ==
    /\ admin_or_panic(who, "propose_admin_rotation")
    /\ pendingAdmin' = new
    /\ UNCHANGED <<now, admin, agentKey, policyVars, window, dmsVars>>

propose_admin_rotation(who, new) ==
    /\ admin_or_panic(who, "propose_admin_rotation")
    /\ new # admin
    /\ pendingAdmin' = new
    /\ UNCHANGED <<now, admin, agentKey, policyVars, window, dmsVars>>

(* Seeded fault: the confirmed proposal stays pending. *)
confirm_keeps_pending(who) ==
    /\ admin # None
    /\ pendingAdmin # None
    /\ who = pendingAdmin
    /\ require_auth(who, "confirm_admin_rotation")
    /\ admin' = pendingAdmin
    /\ UNCHANGED <<now, pendingAdmin, agentKey, policyVars, window, dmsVars>>

confirm_admin_rotation(who) ==
    /\ admin # None
    /\ pendingAdmin # None
    /\ who = pendingAdmin
    /\ require_auth(who, "confirm_admin_rotation")
    /\ admin' = pendingAdmin
    /\ pendingAdmin' = None
    /\ UNCHANGED <<now, agentKey, policyVars, window, dmsVars>>

cancel_admin_rotation(who) ==
    /\ admin_or_panic(who, "cancel_admin_rotation")
    /\ pendingAdmin # None
    /\ pendingAdmin' = None
    /\ UNCHANGED <<now, admin, agentKey, policyVars, window, dmsVars>>

-----------------------------------------------------------------------------
(* Dead-man switch and freeze *)

(* heartbeat() asks for the account's own authorization, so it runs        *)
(* __check_auth on the self-call first.                                    *)
heartbeat(key) ==
    /\ Authorized(key, <<SelfCall("heartbeat")>>)
    /\ window' = SavedWindow(Decision(<<SelfCall("heartbeat")>>).ledger)
    /\ lastHeartbeat' = now
    /\ UNCHANGED <<now, instanceVars, policyVars, adminFrozen, autoFrozenAt>>

freeze(who) ==
    /\ admin_or_panic(who, "freeze")
    /\ adminFrozen' = TRUE
    /\ UNCHANGED <<now, instanceVars, policyVars, window, lastHeartbeat, autoFrozenAt>>

unfreeze(who) ==
    /\ admin_or_panic(who, "unfreeze")
    /\ adminFrozen' = FALSE
    /\ lastHeartbeat' = now
    /\ UNCHANGED <<now, instanceVars, policyVars, window, autoFrozenAt>>

Grace == IF policy = None THEN 0 ELSE policy.dms_grace_secs

(* The dead-man switch has tripped. *)
Expired == HeartbeatExpired(Grace, lastHeartbeat, now)

(* Anyone may record an expiry that has happened, once. *)
refresh_deadman ==
    /\ Expired
    /\ autoFrozenAt = 0
    /\ autoFrozenAt' = now
    /\ UNCHANGED <<now, instanceVars, policyVars, window, lastHeartbeat, adminFrozen>>

-----------------------------------------------------------------------------
(* Reads *)

transfer_context(asset, to, amount) ==
    [contract |-> asset, fn |-> "transfer", args |-> <<asset, to, amount>>]

PrunesForRead(cfg) == cfg.window_cap > 0 \/ cfg.recipient_window_caps # <<>>

(* Seeded fault: the preflight forgets a payment one second early. *)
ReadLedgerEarly == prune(LoadedLedger, now, policy.window_secs - 1)

ReadLedger ==
    IF PrunesForRead(policy) THEN prune(LoadedLedger, now, policy.window_secs)
    ELSE LoadedLedger

(* check_detailed: prune, report the headroom, decide the one transfer. *)
check_detailed(asset, to, amount) ==
    IF policy = None
    THEN [result |-> "NoPolicy", remaining_window |-> None, per_tx_cap |-> None,
          effective_per_tx_cap |-> None, effective_window_cap |-> None]
    ELSE LET metrics == cap_metrics(policy, ReadLedger, to)
         IN  [result               |-> decide(policy, adminFrozen, lastHeartbeat, ReadLedger, now,
                                           <<transfer_context(asset, to, amount)>>).verdicts[1],
              remaining_window     |-> metrics.remaining,
              per_tx_cap           |-> metrics.per_tx_cap,
              effective_per_tx_cap |-> effective_per_tx_cap(policy, asset),
              effective_window_cap |-> metrics.window_cap]

(* check_batch over a sequence of [to, amount]. *)
check_batch(asset, transfers) ==
    LET ctxs == [i \in DOMAIN transfers |->
                    transfer_context(asset, transfers[i].to, transfers[i].amount)]
    IN  IF policy = None
        THEN [verdicts |-> [i \in DOMAIN ctxs |-> "NoPolicy"], admissible |-> FALSE]
        ELSE [verdicts |-> Decision(ctxs).verdicts,
              admissible |-> AllAllowed(Decision(ctxs).verdicts)]

status ==
    [has_policy            |-> policy # None,
     policy_revision       |-> revision,
     last_heartbeat        |-> lastHeartbeat,
     now                   |-> now,
     admin_frozen          |-> adminFrozen,
     heartbeat_expired     |-> Expired,
     paused                |-> policy # None /\ policy.paused,
     window_remaining      |-> IF policy = None THEN None
                               ELSE global_window_remaining(policy, ReadLedger),
     outside_active_window |-> policy # None /\ OutsideActiveWindow(policy, now)]

DmsHealth == IF policy = None THEN "Ok" ELSE dms_health(now, lastHeartbeat, policy)

-----------------------------------------------------------------------------
(* What the admin, the pending admin, the agent and anyone may do *)
AdminStep ==
    \E who \in Signer :
        \/ \E c \in Config : set_policy(who, c)
        \/ reset_window(who)
        \/ \E p \in BOOLEAN : set_paused(who, p)
        \/ revoke_policy(who)
        \/ \E k \in Key : rotate_agent_key(who, k)
        \/ \E a \in Signer : propose_admin_rotation(who, a)
        \/ cancel_admin_rotation(who)
        \/ freeze(who)
        \/ unfreeze(who)

AgentStep ==
    \E key \in Key : heartbeat(key) \/ (\E b \in Batch : check_auth(key, b))

Next ==
    \/ Tick
    \/ \E who \in Signer, key \in Key : initialize(who, key)
    \/ AdminStep
    \/ \E who \in Signer : confirm_admin_rotation(who)
    \/ AgentStep
    \/ refresh_deadman

Spec == Init /\ [][Next]_vars

-----------------------------------------------------------------------------
(* Properties *)

EntrySeq == Seq([ts : 1..MaxTime, amount : Nat \ {0}])

ControlTypeOK ==
    /\ now \in 1..MaxTime
    /\ admin \in Address \union {None}
    /\ pendingAdmin \in Address \union {None}
    /\ agentKey \in Key \union {None}
    /\ policy \in PolicyConfig \union {None}
    /\ revision \in 0..MaxRevision
    /\ lastHeartbeat \in 0..MaxTime
    /\ adminFrozen \in BOOLEAN
    /\ autoFrozenAt \in 0..MaxTime

WindowTypeOK ==
    window # None =>
        /\ window.entries \in EntrySeq
        /\ \A r \in DOMAIN window.recipients : r \in Address /\ window.recipients[r] \in EntrySeq
        /\ window.protocol_call_entries \in EntrySeq

TypeOK == ControlTypeOK /\ WindowTypeOK

(* The gate of __check_auth lets a clock of 0 pass and dms_health calls it *)
(* expired; they always agree because the clock is armed before any policy *)
(* can be stored, and neither clock nor record is ever in the future.      *)
HealthMatchesGate ==
    /\ DmsHealth = "Expired" <=> Expired
    /\ lastHeartbeat <= now /\ autoFrozenAt <= now
    /\ status.heartbeat_expired => AccountGate(policy, adminFrozen, lastHeartbeat, now) # Allowed

(* Once the grace has run out neither the agent, nor a pending admin, nor  *)
(* anyone else, nor time itself revives the account: only a step of the    *)
(* admin can (SPEC 5: it "can never be unfrozen by time passing").  A      *)
(* heartbeat changes the same state as unfreeze, so the step must also be  *)
(* one the agent could not have taken.                                     *)
OnlyAdminRevives == [][Expired => Expired' \/ (AdminStep /\ ~ AgentStep)]_vars

(* While the account is frozen, expired, paused, without a policy or       *)
(* outside its active hours the agent key changes nothing in storage, not  *)
(* even by a heartbeat or an authorization with only allowed contexts.     *)
BlockedAgentIsPowerless ==
    [][AccountGate(policy, adminFrozen, lastHeartbeat, now) # Allowed => ~ AgentStep]_vars

(* PolicyRevision is a join key: it never goes back, and no two different  *)
(* policies are ever in force under the same value.                        *)
RevisionIsJoinKey ==
    [][revision' >= revision /\ (policy' # policy => revision' > revision)]_vars

(* A handover is clean: what is pending is a change to somebody else, on   *)
(* an account that has an admin; a confirmed proposal is gone with it.     *)
ProposalIsToAnother == pendingAdmin # None => admin # None /\ pendingAdmin # admin

(* The account never becomes its own admin: its own authorization runs     *)
(* __check_auth, which refuses every self-call but heartbeat, so that the  *)
(* agent key can never hold admin power, whatever is proposed.             *)
AccountNeverItsOwnAdmin == admin # Self

(* The lists of an installed policy are unambiguous, so that the first     *)
(* match of every lookup (protocol, asset cap, recipient cap) is the only  *)
(* one; every window cap that is on has a window to roll over, and no      *)
(* address is both allowed and denied.                                     *)
InstalledPolicyUnambiguous ==
    policy # None =>
        /\ \A i, j \in DOMAIN policy.protocols :
               policy.protocols[i].contract = policy.protocols[j].contract => i = j
        /\ \A i, j \in DOMAIN policy.asset_caps :
               policy.asset_caps[i].asset = policy.asset_caps[j].asset => i = j
        /\ \A i, j \in DOMAIN policy.recipient_window_caps :
               policy.recipient_window_caps[i].recipient = policy.recipient_window_caps[j].recipient
               => i = j
        /\ \A to \in Address : effective_window_cap(policy, to) # None => policy.window_secs > 0
        /\ ToSet(policy.recipients) \intersect ToSet(policy.blocked_recipients) = {}

(* The budget status() reports under a policy with a window cap. *)
BudgetLeft == global_window_remaining(policy, ReadLedger)

(* No free budget: within one second and under the same window_cap and     *)
(* window_secs, nothing but reset_window (which removes the Window key)    *)
(* makes the remaining budget grow: not a heartbeat that stores the pruned *)
(* ledger, an authorization of other contexts, an edit of other fields, a  *)
(* pause and resume, a freeze, or a rotation.                              *)
NoFreeBudget ==
    [][ (/\ policy # None /\ policy' # None
         /\ policy.window_cap > 0 /\ policy'.window_cap = policy.window_cap
         /\ policy'.window_secs = policy.window_secs
         /\ now' = now /\ window' # None /\ window' # window)
        => BudgetLeft' <= BudgetLeft ]_vars

(* What a request of two contexts decides, `both`, compared with its first *)
(* context alone and then `next`, with the write-back and the load of      *)
(* __check_auth in between.                                                *)
SameInSequence(both, first, next) ==
    LET between == SavedWindow(first.ledger)
        second  == decide(policy, adminFrozen, lastHeartbeat, LoadedFrom(between), now, <<next>>)
        Dropped == between = None /\ first.ledger.calls.entries # <<>>
    IN  ~ Dropped =>
            /\ AllAllowed(both.verdicts) <=> AllAllowed(first.verdicts) /\ AllAllowed(second.verdicts)
            /\ AllAllowed(both.verdicts) =>
                   SavedWindow(both.ledger) = SavedOver(between, second.ledger)

(* Evaluating a request of two contexts is the same as authorizing its     *)
(* contexts one after the other in the same second, each with the load and *)
(* the write-back of __check_auth: same answer and same stored window, so  *)
(* that splitting a payment run neither gains nor loses anything (SPEC 6:  *)
(* staged admission).  It excepts the first context that is counted but    *)
(* not written back, a protocol call when no window is stored: there a     *)
(* split does gain calls, which is what CallCeiling shows.  Stated for     *)
(* requests of a length __check_auth looks at, and while the counter of    *)
(* protocol calls is below the maximum of its type: at the maximum it has  *)
(* lost count, and loading the window again between the two contexts may   *)
(* count anew.                                                             *)
SplitBatchSame ==
    (policy # None /\ LoadedLedger.calls.total < U32_MAX) =>
        \A b \in Batch : Len(b) = 2 /\ Len(b) <= MAX_AUTH_CONTEXTS =>
            SameInSequence(Decision(b), Decision(<<b[1]>>), b[2])

(* The permissionless preflights answer what __check_auth would answer for *)
(* the same transfers now, although they rebuild the contexts and          *)
(* check_detailed prunes under a different condition.                      *)
PreflightAgrees ==
    policy # None =>
        \A b \in Batch :
            LET call(i) == parse_call(b[i], policy)
                transfers == [i \in DOMAIN b |-> [to |-> call(i).to, amount |-> call(i).amount]]
            IN  /\ call(1).kind = "AssetTransfer" =>
                       check_detailed(call(1).asset, call(1).to, call(1).amount).result
                           = Decision(<<b[1]>>).verdicts[1]
                /\ (\A i \in DOMAIN b : call(i).kind = "AssetTransfer"
                                        /\ call(i).asset = call(1).asset) =>
                       check_batch(call(1).asset, transfers).verdicts = Decision(b).verdicts
=============================================================================
