--------------------------- MODULE AccountHistory ---------------------------
(***************************************************************************)
(* The account with history variables that remember what its storage       *)
(* forgets: what was really authorized, second by second, since the window *)
(* was last zeroed on purpose, and who made the pending proposal.  Each    *)
(* step is a step of Account; the history never restricts it.              *)
(***************************************************************************)
EXTENDS Account

(* There are finitely many addresses, and the value that stands for an     *)
(* absent key is not a stored window.                                      *)
ASSUME AddressesAreFinite == IsFiniteSet(Address)
ASSUME NoneIsNoWindow ==
    None \notin [entries : EntrySeq,
                 recipients : UNION {[D -> EntrySeq] : D \in SUBSET Address},
                 protocol_call_entries : EntrySeq]

VARIABLES
    spent,      \* amount authorized to each address in each second
    called,     \* protocol calls authorized in each second
    steady,     \* no edit has changed what the windows track
    metered,    \* every protocol call was authorized where the window keeps count
    proposer    \* the admin who made the latest proposal

history == <<spent, called, steady, metered, proposer>>
hvars   == <<vars, history>>

NothingSpent == [a \in Address |-> [t \in 1..MaxTime |-> 0]]
NothingCalled == [t \in 1..MaxTime |-> 0]

HInit ==
    /\ Init
    /\ spent = NothingSpent /\ called = NothingCalled
    /\ steady = TRUE /\ metered = TRUE /\ proposer = None

-----------------------------------------------------------------------------
Calls(ctxs, kind) ==
    LET call(i) == parse_call(ctxs[i], policy)
    IN  {i \in DOMAIN ctxs : call(i).kind = kind}

(* The amount a list of contexts pays to `a`. *)
PaidTo(ctxs, a) ==
    LET call(i) == parse_call(ctxs[i], policy)
        transfers == Calls(ctxs, "AssetTransfer")
    IN  SumFunctionOnSet([i \in transfers |-> call(i).amount], {i \in transfers : call(i).to = a})

(* The history of a second stops counting one above every cap, so that     *)
(* what no cap limits does not make it infinite.                           *)
Count(n, more, max) == Min({n + more, max + 1})

(* Calls are on record when the window is stored, and exactly so when the  *)
(* limit ends below the maximum of the counter, which saturates there.     *)
KeepsCount == window' # None /\ policy.protocol_calls_per_window < U32_MAX

Authorize(key, ctxs) ==
    /\ check_auth(key, ctxs)
    /\ spent' = [a \in Address |->
                    [spent[a] EXCEPT ![now] = Count(@, PaidTo(ctxs, a), I128_MAX)]]
    /\ called' = [called EXCEPT
                    ![now] = Count(@, Cardinality(Calls(ctxs, "Protocol")), U32_MAX)]
    /\ metered' = (metered /\ (KeepsCount \/ Calls(ctxs, "Protocol") = {}))
    /\ UNCHANGED <<steady, proposer>>

(* reset_window and revoke_policy are the two documented ways to zero the  *)
(* window.                                                                 *)
ZeroWindow(who) ==
    /\ reset_window(who) \/ revoke_policy(who)
    /\ spent' = NothingSpent /\ called' = NothingCalled
    /\ steady' = TRUE /\ metered' = TRUE
    /\ UNCHANGED proposer

(* What the windows of a policy track, and over which span. *)
Tracking(cfg) ==
    <<cfg.window_secs, cfg.window_cap > 0, cfg.protocol_calls_per_window > 0,
      {a \in Address : recipient_override_cap(cfg, a) # None}>>

InstallPolicy(who, cfg) ==
    /\ set_policy(who, cfg)
    /\ steady' = (steady /\ (policy = None \/ Tracking(cfg) = Tracking(policy)))
    /\ UNCHANGED <<spent, called, metered, proposer>>

Propose(who, new) ==
    /\ propose_admin_rotation(who, new)
    /\ proposer' = who
    /\ UNCHANGED <<spent, called, steady, metered>>

OtherAdminStep(who) ==
    \/ \E p \in BOOLEAN : set_paused(who, p)
    \/ \E k \in Key : rotate_agent_key(who, k)
    \/ cancel_admin_rotation(who)
    \/ freeze(who)
    \/ unfreeze(who)

HNext ==
    \/ \E key \in Key, b \in Batch : Authorize(key, b)
    \/ \E who \in Signer :
          \/ ZeroWindow(who)
          \/ \E c \in Config : InstallPolicy(who, c)
          \/ \E new \in Signer : Propose(who, new)
    \/ /\ \/ Tick
          \/ \E who \in Signer, key \in Key : initialize(who, key)
          \/ \E who \in Signer : OtherAdminStep(who) \/ confirm_admin_rotation(who)
          \/ \E key \in Key : heartbeat(key)
          \/ refresh_deadman
       /\ UNCHANGED history

HSpec == HInit /\ [][HNext]_hvars

-----------------------------------------------------------------------------
InWindow(t, window_secs) == t <= now /\ (window_secs = 0 \/ t + window_secs > now)

Rolling(perSecond, window_secs) ==
    SumFunctionOnSet(perSecond, {t \in 1..MaxTime : InWindow(t, window_secs)})

RollingTo(a) == Rolling(spent[a], policy.window_secs)
RollingAll   == SumFunctionOnSet([a \in Address |-> RollingTo(a)], Address)
RollingCalls == Rolling(called, policy.window_secs)

GlobalCeilingKept ==
    (spent' # spent /\ policy # None /\ policy' = policy /\ policy.window_cap > 0)
        => RollingAll' <= policy.window_cap

CallCeilingKept ==
    (/\ called' # called
     /\ policy # None /\ policy' = policy
     /\ policy.protocol_calls_per_window > 0 /\ policy.protocol_calls_per_window < U32_MAX)
        => RollingCalls' <= policy.protocol_calls_per_window

(* window_cap is a hard ceiling over any window_secs span: whatever mix of *)
(* authorizations, edits that keep the width, pauses, heartbeats and       *)
(* rotations came before, a payment leaves what was really paid in the     *)
(* span at or below the cap in force (window.rs: "a hard ceiling over any  *)
(* window_secs span").                                                     *)
WindowCeiling == [][steady => GlobalCeilingKept]_hvars

(* The protocol-call limit holds over any span as long as the window was   *)
(* stored when the calls were counted, for limits that the counter can     *)
(* exceed: at U32_MAX it saturates, and a limit of U32_MAX is none.        *)
CallCeilingWhileStored == [][(steady /\ metered) => CallCeilingKept]_hvars

(* The stored ledger accounts for every payment that is still inside the   *)
(* window: a reload and a prune never lose one.                            *)
LedgerCoversSpend ==
    (policy # None /\ policy.window_cap > 0 /\ steady /\ window # None) =>
        prune(LoadedLedger, now, policy.window_secs).global.total >= RollingAll

(* Only the admin in office has a proposal pending: no proposal survives   *)
(* the handover to the next admin.                                         *)
ProposalIsCurrentAdmins == pendingAdmin # None => proposer = admin

(* The account implements the abstract guard: while no edit has changed    *)
(* what the windows track, the limits of the stored policy are limits on   *)
(* what was really paid.                                                   *)
Limits ==
    IF policy = None \/ ~ steady THEN None
    ELSE [width |-> policy.window_secs, cap |-> policy.window_cap,
          own   |-> [a \in {b \in Address : recipient_override_cap(policy, b) # None} |->
                        recipient_override_cap(policy, a)]]

Guard == INSTANCE SpendGuard WITH
             Payee <- Address, Unlimited <- None, LastSecond <- MaxTime,
             clock <- now, paid <- spent, limits <- Limits,
             gate <- policy # None /\ AccountGate(policy, adminFrozen, lastHeartbeat, now) = Allowed

(* Every step of the account is a step of the guard or none: a payment is  *)
(* made by the agent through an open gate, in the current second, within   *)
(* the limits, and in one step with nothing else.                          *)
ImplementsGuard == Guard!GuardSpec

-----------------------------------------------------------------------------
(* Statements of the repository that the code does not meet. *)

(* SPEC 6.3: the cumulative count of protocol calls within window_secs     *)
(* never exceeds the limit.                                                *)
CallCeiling == [][steady => CallCeilingKept]_hvars

(* set-policy.md: pausing, tightening or widening a policy does not hand   *)
(* the agent a fresh budget, so the ceiling holds across edits.            *)
CeilingAcrossEdits == [][GlobalCeilingKept]_hvars

(* lib.rs: a DMS-expired account stays expired across an edit; the         *)
(* reversal path is unfreeze.  (A revocation ends the policy and its       *)
(* grace.)                                                                 *)
OnlyUnfreezeRevives ==
    [][(Expired /\ policy' # None) => (Expired' \/ \E who \in Signer : unfreeze(who))]_hvars
=============================================================================
