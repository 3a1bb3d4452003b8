---------------------------- MODULE AccountProofs ---------------------------
(***************************************************************************)
(* Theorems about the account, for every value of the constants.           *)
(*                                                                         *)
(* The control state first: clocks, freeze flags, revision, admin and      *)
(* keys, and the policy that is installed; then the shape of the stored    *)
(* window, which every request passes through load, prune, stage, commit   *)
(* and save.                                                               *)
(***************************************************************************)
EXTENDS Account, EngineProofs

-----------------------------------------------------------------------------
(* A closed gate blocks: decide answers a non-empty list of contexts with  *)
(* at least one verdict that is not Allowed.                               *)
LEMMA ClosedGateBlocks ==
    ASSUME NEW p, NEW frozen, NEW last, NEW ledger, NEW t, NEW ctxs,
           1 \in DOMAIN ctxs,
           AccountGate(p, frozen, last, t) # Allowed
    PROVE  ~ AllAllowed(decide(p, frozen, last, ledger, t, ctxs).verdicts)
<1>1. CASE Len(ctxs) > MAX_AUTH_CONTEXTS
    <2>1. decide(p, frozen, last, ledger, t, ctxs).verdicts = <<"TooManyAuthContexts">>
        BY <1>1 DEF decide
    <2> QED  BY <2>1 DEF AllAllowed, Allowed
<1>2. CASE ~ (Len(ctxs) > MAX_AUTH_CONTEXTS)
    <2>1. decide(p, frozen, last, ledger, t, ctxs).verdicts
              = [i \in DOMAIN ctxs |-> AccountGate(p, frozen, last, t)]
        BY <1>2 DEF decide
    <2> QED  BY <2>1 DEF AllAllowed
<1> QED  BY <1>1, <1>2

(* An authorized request finds the account gate open. *)
LEMMA AuthorizedGateOpen ==
    ASSUME NEW key, NEW ctxs, 1 \in DOMAIN ctxs, Authorized(key, ctxs)
    PROVE  AccountGate(policy, adminFrozen, lastHeartbeat, now) = Allowed
BY ClosedGateBlocks DEF Authorized, Decision

(* The lists the host hands to __check_auth are not empty. *)
LEMMA BatchNonEmpty == ASSUME NEW b \in Batch PROVE 1 \in DOMAIN b
BY AccountConstants

(* Every step of the agent key is taken with the gate open. *)
LEMMA AgentStepGateOpen ==
    AgentStep => AccountGate(policy, adminFrozen, lastHeartbeat, now) = Allowed
<1> SUFFICES ASSUME AgentStep
             PROVE  AccountGate(policy, adminFrozen, lastHeartbeat, now) = Allowed
    OBVIOUS
<1>1. PICK key \in Key : heartbeat(key) \/ (\E b \in Batch : check_auth(key, b))
    BY DEF AgentStep
<1>2. CASE heartbeat(key)
    <2>1. 1 \in DOMAIN <<SelfCall("heartbeat")>>
        OBVIOUS
    <2> QED  BY <1>2, <2>1, AuthorizedGateOpen DEF heartbeat
<1>3. CASE \E b \in Batch : check_auth(key, b)
    BY <1>3, BatchNonEmpty, AuthorizedGateOpen DEF check_auth
<1> QED  BY <1>1, <1>2, <1>3

(* An expired dead-man switch closes the gate. *)
LEMMA ExpiredGateClosed ==
    Expired => AccountGate(policy, adminFrozen, lastHeartbeat, now) # Allowed
BY DEF Expired, Grace, HeartbeatExpired, AccountGate, Allowed

-----------------------------------------------------------------------------
(* The account's own authorization of an admin call. *)

(* A self-call other than heartbeat is refused. *)
LEMMA SelfCallVerdict ==
    ASSUME NEW cfg, NEW ledger, NEW fn, fn # "heartbeat"
    PROVE  EvalContexts(cfg, ledger, <<SelfCall(fn)>>).verdicts = <<"SelfFunctionNotAllowed">>
<1> DEFINE call == [kind |-> "SelfCall", fn |-> fn]
<1>1. parse_call(SelfCall(fn), cfg) = call
    BY PolicyConstants DEF parse_call, SelfCall
<1>2. ContextVerdict(cfg, ledger, NothingStaged, call) = "SelfFunctionNotAllowed"
    <2>1. call.kind = "SelfCall" /\ call.fn = fn
        OBVIOUS
    <2>2. SelfVerdict(call.fn) = "SelfFunctionNotAllowed"
        BY <2>1 DEF SelfVerdict
    <2> HIDE DEF call
    <2> QED  BY <2>1, <2>2 DEF ContextVerdict
<1>3. EvalContext(cfg, ledger, NothingStaged, SelfCall(fn))
          = [NothingStaged EXCEPT !.verdicts = Append(@, "SelfFunctionNotAllowed")]
    BY <1>1, <1>2 DEF EvalContext, Allowed
<1>4. EvalContext(cfg, ledger, NothingStaged, SelfCall(fn)).verdicts = <<"SelfFunctionNotAllowed">>
    BY <1>3 DEF NothingStaged
<1> QED  BY <1>4, SingleContext

(* The agent key cannot sign a call of the account to itself, except for   *)
(* heartbeat (decide).                                                     *)
LEMMA SelfCallRefused ==
    ASSUME NEW key, NEW fn, fn # "heartbeat"
    PROVE  ~ Authorized(key, <<SelfCall(fn)>>)
<1> DEFINE ctxs == <<SelfCall(fn)>>
           live == IF PrunesWindow(policy) THEN prune(LoadedLedger, now, policy.window_secs)
                   ELSE LoadedLedger
<1>1. 1 \in DOMAIN ctxs
    OBVIOUS
<1> SUFFICES ASSUME Authorized(key, ctxs) PROVE FALSE
    OBVIOUS
<1>2. AccountGate(policy, adminFrozen, lastHeartbeat, now) = Allowed
    BY <1>1, AuthorizedGateOpen
<1>3. AllAllowed(Decision(ctxs).verdicts)
    BY DEF Authorized
<1>4. EvalContexts(policy, live, ctxs).verdicts = <<"SelfFunctionNotAllowed">>
    BY SelfCallVerdict
<1> HIDE DEF ctxs, live
<1>5. \/ Decision(ctxs).verdicts = <<"TooManyAuthContexts">>
      \/ Decision(ctxs).verdicts = EvalContexts(policy, live, ctxs).verdicts
    BY <1>2 DEF Decision, decide, live
<1> QED  BY <1>3, <1>4, <1>5 DEF AllAllowed, Allowed

(* What needs the authorization of the admin needs somebody else's. *)
LEMMA AuthIsByAnother ==
    ASSUME NEW who, NEW fn, fn # "heartbeat", require_auth(who, fn)
    PROVE  who # Self
BY SelfCallRefused DEF require_auth

-----------------------------------------------------------------------------
(* The inductive invariant.  HealthMatchesGate needs the clock to be armed *)
(* whenever a policy is stored, which in turn needs ledger time to be      *)
(* positive; the other parts are preserved together with it.               *)
ClockArmed ==
    /\ policy # None => lastHeartbeat # 0 /\ admin # None
    /\ lastHeartbeat <= now
    /\ autoFrozenAt <= now

IInv == ControlTypeOK /\ ClockArmed /\ ProposalIsToAnother

(* Initially nothing is stored, and the invariant holds. *)
LEMMA InitIInv == Init => IInv
<1> SUFFICES ASSUME Init PROVE IInv
    OBVIOUS
<1>1. adminFrozen \in BOOLEAN
    BY Zenon DEF Init
<1>2. 1 \in 1..MaxTime /\ 0 \in 0..MaxTime /\ 0 \in 0..MaxRevision
    BY AccountConstants
<1>3. ControlTypeOK
    BY <1>1, <1>2 DEF Init, ControlTypeOK
<1>4. ClockArmed /\ ProposalIsToAnother
    BY DEF Init, ClockArmed, ProposalIsToAnother
<1> QED  BY <1>3, <1>4 DEF IInv

(* The invariant speaks of the variables only. *)
LEMMA StutterIInv == IInv /\ UNCHANGED vars => IInv'
BY DEF IInv, ControlTypeOK, ClockArmed, ProposalIsToAnother, vars, instanceVars,
       policyVars, dmsVars

(* Every step of the admin preserves the invariant. *)
LEMMA AdminStepIInv == IInv /\ AdminStep => IInv'
<1> SUFFICES ASSUME IInv, AdminStep PROVE IInv'
    OBVIOUS
<1> USE AccountConstants, PolicyConstants
    DEF IInv, ControlTypeOK, ClockArmed, ProposalIsToAnother, instanceVars, policyVars, dmsVars,
        admin_or_panic
<1>0. PICK who \in Signer :
        \/ \E c \in Config : set_policy(who, c)
        \/ reset_window(who)
        \/ \E p \in BOOLEAN : set_paused(who, p)
        \/ revoke_policy(who)
        \/ \E k \in Key : rotate_agent_key(who, k)
        \/ \E a \in Signer : propose_admin_rotation(who, a)
        \/ cancel_admin_rotation(who)
        \/ freeze(who)
        \/ unfreeze(who)
    BY DEF AdminStep
<1>1. ASSUME NEW c \in Config, set_policy(who, c) PROVE IInv'
    BY <1>1 DEF set_policy, increment_revision
<1>2. CASE reset_window(who)
    BY <1>2 DEF reset_window
<1>3. ASSUME NEW p \in BOOLEAN, set_paused(who, p) PROVE IInv'
    <2>1. policy # None /\ policy \in PolicyConfig
        BY <1>3 DEF set_paused
    <2>2. [policy EXCEPT !.paused = p] \in PolicyConfig
        BY <2>1 DEF PolicyConfig
    <2>3. policy' \in PolicyConfig /\ revision' \in 0..MaxRevision
        BY <1>3, <2>1, <2>2, SMTT(30) DEF set_paused, increment_revision
    <2> QED  BY <1>3, <2>1, <2>3 DEF set_paused
<1>4. CASE revoke_policy(who)
    BY <1>4 DEF revoke_policy, increment_revision
<1>5. ASSUME NEW k \in Key, rotate_agent_key(who, k) PROVE IInv'
    BY <1>5 DEF rotate_agent_key
<1>6. ASSUME NEW a \in Signer, propose_admin_rotation(who, a) PROVE IInv'
    BY <1>6 DEF propose_admin_rotation
<1>7. CASE cancel_admin_rotation(who)
    BY <1>7 DEF cancel_admin_rotation
<1>8. CASE freeze(who)
    BY <1>8 DEF freeze
<1>9. CASE unfreeze(who)
    <2>1. adminFrozen' \in BOOLEAN
        BY <1>9, Zenon DEF unfreeze
    <2> QED  BY <1>9, <2>1 DEF unfreeze
<1> QED  BY <1>0, <1>1, <1>2, <1>3, <1>4, <1>5, <1>6, <1>7, <1>8, <1>9

(* So does every authorized call of the agent, whatever its contexts. *)
LEMMA AgentCallIInv ==
    ASSUME IInv, NEW key, NEW ctxs, heartbeat(key) \/ check_auth(key, ctxs)
    PROVE  IInv'
<1> USE AccountConstants DEF instanceVars, policyVars, dmsVars, IInv, ControlTypeOK, ClockArmed,
        ProposalIsToAnother
<1>1. CASE heartbeat(key)
    BY <1>1 DEF heartbeat
<1>2. CASE check_auth(key, ctxs)
    BY <1>2 DEF check_auth
<1> QED  BY <1>1, <1>2

(* Every step preserves the invariant. *)
LEMMA NextIInv == IInv /\ Next => IInv'
<1> SUFFICES ASSUME IInv, Next PROVE IInv'
    OBVIOUS
<1> USE AccountConstants, PolicyConstants
    DEF instanceVars, policyVars, dmsVars
<1>1. CASE Tick
    BY <1>1 DEF Tick, IInv, ControlTypeOK, ClockArmed, ProposalIsToAnother
<1>2. ASSUME NEW who \in Signer, NEW key \in Key, initialize(who, key) PROVE IInv'
    <2>1. adminFrozen' \in BOOLEAN
        BY <1>2, Zenon DEF initialize
    <2> QED
        BY <1>2, <2>1 DEF initialize, IInv, ControlTypeOK, ClockArmed, ProposalIsToAnother
<1>3. CASE AdminStep
    BY <1>3, AdminStepIInv
<1>4. ASSUME NEW who \in Signer, confirm_admin_rotation(who) PROVE IInv'
    BY <1>4 DEF confirm_admin_rotation, IInv, ControlTypeOK, ClockArmed, ProposalIsToAnother
<1>5. ASSUME NEW key \in Key, heartbeat(key) PROVE IInv'
    BY <1>5, AgentCallIInv
<1>6. ASSUME NEW key \in Key, NEW b \in Batch, check_auth(key, b) PROVE IInv'
    BY <1>6, AgentCallIInv
<1>7. CASE refresh_deadman
    BY <1>7 DEF refresh_deadman, IInv, ControlTypeOK, ClockArmed, ProposalIsToAnother
<1> QED  BY <1>1, <1>2, <1>3, <1>4, <1>5, <1>6, <1>7 DEF Next, AgentStep

(* IInv is an invariant of the account. *)
THEOREM Invariance == Spec => []IInv
<1>1. IInv /\ [Next]_vars => IInv'
    BY NextIInv, StutterIInv
<1> QED  BY <1>1, InitIInv, PTL DEF Spec

(* The control part of the type invariant: every stored value stays in its *)
(* type under every entry point.                                           *)
THEOREM ControlTypeCorrect == Spec => []ControlTypeOK
<1>1. IInv => ControlTypeOK
    BY DEF IInv
<1> QED  BY <1>1, Invariance, PTL

(* The health read and the authorization gate agree, and no clock runs     *)
(* ahead of the ledger (dms_health and decide).                            *)
THEOREM HealthAgreesWithGate == Spec => []HealthMatchesGate
<1>1. IInv => HealthMatchesGate
    <2> SUFFICES ASSUME IInv PROVE HealthMatchesGate
        OBVIOUS
    <2>1. (DmsHealth = "Expired") <=> Expired
        <3>1. CASE policy = None
            BY <3>1 DEF DmsHealth, Expired, Grace, HeartbeatExpired
        <3>2. CASE policy # None
            <4>1. policy.dms_grace_secs \in Nat /\ lastHeartbeat \in Nat /\ now \in Nat
                  /\ lastHeartbeat # 0 /\ lastHeartbeat <= now
                BY <3>2, AccountConstants DEF IInv, ControlTypeOK, ClockArmed, PolicyConfig
            <4> QED
                BY <3>2, <4>1 DEF DmsHealth, dms_health, Expired, Grace, HeartbeatExpired
        <3> QED  BY <3>1, <3>2
    <2>2. status.heartbeat_expired = Expired
        BY DEF status
    <2> QED  BY <2>1, <2>2, ExpiredGateClosed DEF HealthMatchesGate, IInv, ClockArmed
<1> QED  BY <1>1, Invariance, PTL

(* A pending proposal is always to somebody other than the admin in office *)
(* (propose_admin_rotation, confirm_admin_rotation).                       *)
THEOREM ProposalsAreToAnother == Spec => []ProposalIsToAnother
<1>1. IInv => ProposalIsToAnother
    BY DEF IInv
<1> QED  BY <1>1, Invariance, PTL

-----------------------------------------------------------------------------
(* Time does not revive an expired account, and neither does anyone who is *)
(* not the admin.                                                          *)
LEMMA OnlyAdminRevivesStep ==
    IInv /\ [Next]_vars /\ Expired => Expired' \/ (AdminStep /\ ~ AgentStep)
<1> SUFFICES ASSUME IInv, [Next]_vars, Expired PROVE Expired' \/ (AdminStep /\ ~ AgentStep)
    OBVIOUS
<1>0. policy # None /\ policy \in PolicyConfig /\ now \in Nat /\ lastHeartbeat \in Nat
      /\ policy.dms_grace_secs \in Nat /\ admin # None
    BY AccountConstants DEF IInv, ControlTypeOK, ClockArmed, PolicyConfig, Expired, Grace,
                            HeartbeatExpired
<1>1. ~ AgentStep
    BY AgentStepGateOpen, ExpiredGateClosed
<1>2. CASE Tick
    BY <1>0, <1>2 DEF Tick, Expired, Grace, HeartbeatExpired, policyVars, dmsVars
<1>3. CASE UNCHANGED <<now, policy, lastHeartbeat>>
    BY <1>3 DEF Expired, Grace, HeartbeatExpired
<1>4. ASSUME NEW who \in Signer, NEW key \in Key, initialize(who, key) PROVE FALSE
    BY <1>0, <1>4 DEF initialize
<1>5. ASSUME NEW who \in Signer, confirm_admin_rotation(who)
      PROVE  UNCHANGED <<now, policy, lastHeartbeat>>
    BY <1>5 DEF confirm_admin_rotation, policyVars, dmsVars
<1>6. CASE refresh_deadman
    BY <1>3, <1>6 DEF refresh_deadman, policyVars
<1>7. CASE UNCHANGED vars
    BY <1>3, <1>7 DEF vars, policyVars, dmsVars
<1> QED  BY <1>1, <1>2, <1>3, <1>4, <1>5, <1>6, <1>7 DEF Next

(* Once the grace has run out, only a step of the admin revives the        *)
(* account (decide, heartbeat, unfreeze).                                  *)
THEOREM ExpiryIsFinalForOthers == Spec => OnlyAdminRevives
<1>1. IInv /\ [Next]_vars => [Expired => Expired' \/ (AdminStep /\ ~ AgentStep)]_vars
    BY OnlyAdminRevivesStep
<1> QED  BY <1>1, Invariance, PTL DEF Spec, OnlyAdminRevives

(* With any account gate closed the agent key can change nothing           *)
(* (__check_auth, decide).                                                 *)
THEOREM AgentPowerlessWhenBlocked == Spec => BlockedAgentIsPowerless
<1>1. [Next]_vars =>
          [AccountGate(policy, adminFrozen, lastHeartbeat, now) # Allowed => ~ AgentStep]_vars
    BY AgentStepGateOpen
<1> QED  BY <1>1, PTL DEF Spec, BlockedAgentIsPowerless

(* The revision counter never goes back and separates every two policies   *)
(* that follow each other (increment_revision in set_policy, set_paused    *)
(* and revoke_policy).                                                     *)
LEMMA RevisionStep ==
    IInv /\ Next => revision' >= revision /\ (policy' # policy => revision' > revision)
<1> SUFFICES ASSUME IInv, Next
             PROVE  revision' >= revision /\ (policy' # policy => revision' > revision)
    OBVIOUS
<1>0. revision \in Nat
    BY AccountConstants DEF IInv, ControlTypeOK
<1>1. UNCHANGED policyVars \/ revision' = revision + 1
    BY DEF Next, Tick, initialize, AdminStep, set_policy, reset_window, set_paused, revoke_policy,
           rotate_agent_key, propose_admin_rotation, cancel_admin_rotation, freeze, unfreeze,
           confirm_admin_rotation, AgentStep, heartbeat, check_auth, refresh_deadman,
           increment_revision
<1> QED  BY <1>0, <1>1 DEF policyVars

(* PolicyRevision identifies the policy in force. *)
THEOREM RevisionIdentifiesPolicy == Spec => RevisionIsJoinKey
<1>1. IInv /\ [Next]_vars =>
          [revision' >= revision /\ (policy' # policy => revision' > revision)]_vars
    BY RevisionStep
<1> QED  BY <1>1, Invariance, PTL DEF Spec, RevisionIsJoinKey

-----------------------------------------------------------------------------
(* The admin changes only by initialize and confirm_admin_rotation, and    *)
(* the new one has signed for it: the account itself cannot.               *)
LEMMA NewAdminSigned ==
    ASSUME Next, admin' # admin
    PROVE  admin' # Self
<1>1. ASSUME NEW who \in Signer, NEW key \in Key, initialize(who, key) PROVE admin' # Self
    BY <1>1, AuthIsByAnother DEF initialize
<1>2. ASSUME NEW who \in Signer, confirm_admin_rotation(who) PROVE admin' # Self
    BY <1>2, AuthIsByAnother DEF confirm_admin_rotation
<1>3. Tick \/ AdminStep \/ AgentStep \/ refresh_deadman => admin' = admin
    BY DEF Tick, AdminStep, set_policy, reset_window, set_paused, revoke_policy,
           rotate_agent_key, propose_admin_rotation, cancel_admin_rotation, freeze, unfreeze,
           AgentStep, heartbeat, check_auth, refresh_deadman, instanceVars
<1> QED  BY <1>1, <1>2, <1>3 DEF Next

(* Whatever is proposed, the account is never its own admin                *)
(* (initialize, confirm_admin_rotation, and SelfFunctionNotAllowed in      *)
(* decide): the agent key can never hold admin power.                      *)
THEOREM NeverItsOwnAdmin == Spec => []AccountNeverItsOwnAdmin
<1>1. Init => AccountNeverItsOwnAdmin
    BY PolicyConstants DEF Init, AccountNeverItsOwnAdmin
<1>2. AccountNeverItsOwnAdmin /\ [Next]_vars => AccountNeverItsOwnAdmin'
    <2> SUFFICES ASSUME AccountNeverItsOwnAdmin, [Next]_vars PROVE admin' # Self
        BY DEF AccountNeverItsOwnAdmin
    <2>1. CASE admin' = admin
        BY <2>1 DEF AccountNeverItsOwnAdmin
    <2>2. CASE admin' # admin /\ Next
        BY <2>2, NewAdminSigned
    <2>3. CASE UNCHANGED vars
        BY <2>1, <2>3 DEF vars, instanceVars
    <2> QED  BY <2>1, <2>2, <2>3
<1> QED  BY <1>1, <1>2, PTL DEF Spec

(* A stored policy passed the validation when it was stored, and the only  *)
(* change it may have seen since is of its pause flag.                     *)
PolicySound == policy # None => Unambiguous(policy)

(* Every step leaves a policy in force that was validated. *)
LEMMA PolicySoundStep == IInv /\ PolicySound /\ [Next]_vars => PolicySound'
<1> SUFFICES ASSUME IInv, PolicySound, [Next]_vars PROVE PolicySound'
    OBVIOUS
<1>1. ASSUME NEW who \in Signer, NEW c \in Config, set_policy(who, c) PROVE PolicySound'
    <2>1. c \in PolicyConfig /\ validate_config(c) /\ policy' = c
        BY <1>1, AccountConstants DEF set_policy
    <2> QED  BY <2>1, ValidatedIsUnambiguous DEF PolicySound
<1>2. ASSUME NEW who \in Signer, NEW p \in BOOLEAN, set_paused(who, p) PROVE PolicySound'
    <2>1. policy \in PolicyConfig /\ Unambiguous(policy)
        BY <1>2 DEF set_paused, IInv, ControlTypeOK, PolicySound
    <2>2. policy' = policy \/ policy' = [policy EXCEPT !.paused = p]
        BY <1>2 DEF set_paused, policyVars
    <2> QED  BY <2>1, <2>2, PauseKeepsUnambiguous DEF PolicySound
<1>3. ASSUME NEW who \in Signer, revoke_policy(who) PROVE PolicySound'
    BY <1>3 DEF revoke_policy, PolicySound
<1>4. CASE UNCHANGED policy
    BY <1>4 DEF PolicySound
<1>5. \/ \E who \in Signer : \/ \E c \in Config : set_policy(who, c)
                             \/ \E p \in BOOLEAN : set_paused(who, p)
                             \/ revoke_policy(who)
      \/ UNCHANGED policy
    BY DEF Next, vars, policyVars, Tick, initialize, AdminStep, reset_window, rotate_agent_key,
           propose_admin_rotation, cancel_admin_rotation, freeze, unfreeze,
           confirm_admin_rotation, AgentStep, heartbeat, check_auth, refresh_deadman
<1> QED  BY <1>1, <1>2, <1>3, <1>4, <1>5

(* The lists of an installed policy that are looked up name nothing twice, *)
(* no address is both allowed and denied, and every window cap that is on  *)
(* has a window to roll over (first_failing_rule, set_policy, set_paused). *)
THEOREM PolicyUnambiguous == Spec => []InstalledPolicyUnambiguous
<1>1. Init => PolicySound
    BY DEF Init, PolicySound
<1>2. IInv /\ PolicySound => InstalledPolicyUnambiguous
    <2> SUFFICES ASSUME IInv, PolicySound, policy # None PROVE InstalledPolicyUnambiguous
        BY DEF InstalledPolicyUnambiguous
    <2>1. policy \in PolicyConfig /\ Unambiguous(policy)
        BY DEF IInv, ControlTypeOK, PolicySound
    <2>2. \A to \in Address : effective_window_cap(policy, to) # None => policy.window_secs > 0
        BY <2>1, CapHasWindow
    <2> QED  BY <2>1, <2>2 DEF Unambiguous, InstalledPolicyUnambiguous
<1> QED  BY <1>1, <1>2, Invariance, PolicySoundStep, PTL DEF Spec

-----------------------------------------------------------------------------
(* What is stored of the window: entries with positive amounts, one per    *)
(* second, oldest first and none from the future.                          *)
WindowSound == window = None \/ window \in StoredUpTo(now)

(* An authorization stores such a window, whatever its contexts.           *)
LEMMA SavedSound ==
    ASSUME IInv, WindowSound, NEW X, NEW ctxs \in Seq(X)
    PROVE  LET w == SavedWindow(Decision(ctxs).ledger)
           IN  w = None \/ w \in StoredUpTo(now)
<1>1. now \in Nat \ {0} /\ now \in Nat /\ policy \in PolicyConfig \union {None}
    BY AccountConstants DEF IInv, ControlTypeOK
<1>2. LoadedLedger \in LedgersUpTo(now)
    BY <1>1, EmptyUpTo, FromStateUpTo DEF LoadedLedger, LoadedFrom, WindowSound
<1>3. Decision(ctxs).ledger \in LedgersUpTo(now)
    BY <1>1, <1>2, DecideType DEF Decision
<1>4. to_state(Decision(ctxs).ledger) \in StoredUpTo(now)
    BY <1>1, <1>3, ToStateUpTo
<1> QED  BY <1>4 DEF SavedWindow, SavedOver, WindowSound

(* Time passing leaves it sound. *)
LEMMA StoredLater ==
    ASSUME NEW t \in Nat, NEW u \in Nat, t <= u, NEW w \in StoredUpTo(t)
    PROVE  w \in StoredUpTo(u)
<1>1. \A es \in EntriesUpTo(t) : es \in EntriesUpTo(u)
    BY UpToLater
<1>2. /\ w.recipients \in PerRecipient(EntriesUpTo(t))
      /\ w.entries \in EntriesUpTo(u) /\ w.protocol_call_entries \in EntriesUpTo(u)
    BY <1>1 DEF StoredUpTo
<1>3. w.recipients \in PerRecipient(EntriesUpTo(u))
    BY <1>1, <1>2, PerRecipientIs
<1> QED  BY <1>2, <1>3 DEF StoredUpTo

(* A request of the agent keeps the window sound. *)
LEMMA AgentCallWindow ==
    ASSUME IInv, WindowSound, NEW key, NEW X, NEW ctxs \in Seq(X),
           heartbeat(key) \/ check_auth(key, ctxs)
    PROVE  WindowSound'
<1>1. CASE check_auth(key, ctxs)
    BY <1>1, SavedSound DEF check_auth, WindowSound
<1>2. CASE heartbeat(key)
    <2> DEFINE c == SelfCall("heartbeat")
    <2>1. <<c>> \in Seq({c})
        OBVIOUS
    <2> HIDE DEF c
    <2>2. LET w == SavedWindow(Decision(<<c>>).ledger) IN w = None \/ w \in StoredUpTo(now)
        BY <2>1, SavedSound
    <2>3. window' = SavedWindow(Decision(<<c>>).ledger) /\ now' = now
        BY <1>2 DEF heartbeat, c
    <2> QED  BY <2>2, <2>3 DEF WindowSound
<1> QED  BY <1>1, <1>2

(* So does every other step: it leaves the window alone, empties it or     *)
(* removes it.                                                             *)
LEMMA WindowSoundStep == IInv /\ WindowSound /\ [Next]_vars => WindowSound'
<1> SUFFICES ASSUME IInv, WindowSound, [Next]_vars PROVE WindowSound'
    OBVIOUS
<1>0. now \in Nat /\ MaxTime \in Nat
    BY AccountConstants DEF IInv, ControlTypeOK
<1>1. CASE Tick
    <2>1. now' = now + 1 /\ window' = window
        BY <1>1 DEF Tick
    <2>2. window \in StoredUpTo(now) => window \in StoredUpTo(now + 1)
        BY <1>0, StoredLater
    <2> QED  BY <2>1, <2>2 DEF WindowSound
<1>2. ASSUME NEW who \in Signer, NEW c \in Config, set_policy(who, c) PROVE WindowSound'
    <2>1. now' = now /\ (window' = window \/ window' = to_state(Ledger_empty))
        BY <1>2 DEF set_policy
    <2>2. to_state(Ledger_empty) \in StoredUpTo(now)
        BY <1>0, EmptyUpTo, ToStateUpTo
    <2> QED  BY <2>1, <2>2 DEF WindowSound
<1>3. CASE UNCHANGED now /\ (UNCHANGED window \/ window' = None)
    BY <1>3 DEF WindowSound
<1>4. ASSUME NEW key \in Key, heartbeat(key) PROVE WindowSound'
    <2>1. <<>> \in Seq({})
        BY EmptySeq
    <2> QED  BY <1>4, <2>1, AgentCallWindow
<1>5. ASSUME NEW key \in Key, NEW b \in Batch, check_auth(key, b) PROVE WindowSound'
    <2>1. \E X : b \in Seq(X)
        BY AccountConstants
    <2> QED  BY <1>5, <2>1, AgentCallWindow
<1>6. \/ Tick
      \/ \E who \in Signer : \E c \in Config : set_policy(who, c)
      \/ UNCHANGED now /\ (UNCHANGED window \/ window' = None)
      \/ AgentStep
    BY DEF Next, vars, initialize, AdminStep, reset_window, set_paused, revoke_policy,
           rotate_agent_key, propose_admin_rotation, cancel_admin_rotation, freeze, unfreeze,
           confirm_admin_rotation, refresh_deadman
<1> QED  BY <1>1, <1>2, <1>3, <1>4, <1>5, <1>6 DEF AgentStep

(* A sound window has the types of the stored one. *)
LEMMA SoundIsTyped == IInv /\ WindowSound => WindowTypeOK
<1> SUFFICES ASSUME IInv, WindowSound, window # None PROVE WindowTypeOK
    BY DEF WindowTypeOK
<1>1. now \in Nat /\ MaxTime \in Nat /\ now <= MaxTime
    BY AccountConstants DEF IInv, ControlTypeOK
<1>2. window \in StoredUpTo(MaxTime)
    BY <1>1, StoredLater DEF WindowSound
<1>3. \A es \in EntriesUpTo(MaxTime) : es \in EntrySeq
    BY DEF EntriesUpTo, EntryUpTo, EntrySeq
<1>4. /\ window.recipients \in PerRecipient(EntriesUpTo(MaxTime))
      /\ window.entries \in EntrySeq /\ window.protocol_call_entries \in EntrySeq
    BY <1>2, <1>3 DEF StoredUpTo
<1>5. \A r \in DOMAIN window.recipients : r \in Address /\ window.recipients[r] \in EntrySeq
    BY <1>3, <1>4, PerRecipientIs
<1> QED  BY <1>4, <1>5 DEF WindowTypeOK

(* The stored window is sound, for every policy and every request: loading *)
(* drops nothing and a prune or a merge leaves the entries in order        *)
(* (from_state, prune, admit, to_state).                                   *)
THEOREM WindowStaysSound == Spec => []WindowSound
<1>1. Init => WindowSound
    BY DEF Init, WindowSound
<1> QED  BY <1>1, Invariance, WindowSoundStep, PTL DEF Spec

(* Type correctness of the whole storage: no entry point, no policy and no *)
(* list of contexts stores a value outside its type; in particular every   *)
(* entry of every ledger has a positive amount (AmountSign in decide).     *)
THEOREM TypeCorrect == Spec => []TypeOK
<1>1. IInv /\ WindowSound => TypeOK
    BY SoundIsTyped DEF IInv, TypeOK
<1> QED  BY <1>1, Invariance, WindowStaysSound, PTL

-----------------------------------------------------------------------------
(* The preflights *)

(* What the storage holds, in memory. *)
LEMMA LoadedIsSound ==
    ASSUME IInv, WindowSound
    PROVE  now \in Nat \ {0} /\ now \in Nat /\ LoadedLedger \in LedgersUpTo(now)
<1>1. now \in Nat \ {0} /\ now \in Nat
    BY AccountConstants DEF IInv, ControlTypeOK
<1> QED  BY <1>1, EmptyUpTo, FromStateUpTo DEF LoadedLedger, LoadedFrom, WindowSound

(* check_detailed decides on the ledger that an authorization decides on,  *)
(* although it prunes under another condition and a second time.           *)
LEMMA ReadIsLive ==
    ASSUME IInv, WindowSound, policy # None
    PROVE  DecidedOn(policy, ReadLedger, now) = DecidedOn(policy, LoadedLedger, now)
<1> DEFINE w == policy.window_secs
           P == prune(LoadedLedger, now, w)
<1>1. now \in Nat /\ LoadedLedger \in LedgersUpTo(now) /\ w \in Nat
    BY LoadedIsSound DEF IInv, ControlTypeOK, PolicyConfig
<1>2. P \in LedgersUpTo(now) /\ AllLedgersLive(P, now, w)
    BY <1>1, PruneLedgersUpTo, PruneLeavesAllLive
<1>3. prune(P, now, w) = P
    BY <1>1, <1>2, LiveLedgersStay
<1>4. PrunesForRead(policy) => PrunesWindow(policy)
    BY DEF PrunesForRead, PrunesWindow
<1>5. ReadLedger = IF PrunesForRead(policy) THEN P ELSE LoadedLedger
    BY DEF ReadLedger
<1> HIDE DEF P
<1>6. CASE PrunesForRead(policy)
    <2>1. ReadLedger = P /\ PrunesWindow(policy)
        BY <1>4, <1>5, <1>6
    <2> QED  BY <1>3, <2>1, Zenon DEF P, DecidedOn
<1>7. CASE ~ PrunesForRead(policy)
    <2>1. ReadLedger = LoadedLedger
        BY <1>5, <1>7
    <2> QED  BY <2>1, Zenon
<1> QED  BY <1>6, <1>7

(* The contexts that check_detailed and check_batch build. *)
Rebuilt(b) ==
    [i \in DOMAIN b |-> transfer_context(parse_call(b[1], policy).asset,
                                         parse_call(b[i], policy).to,
                                         parse_call(b[i], policy).amount)]

LEMMA RebuiltCalls ==
    ASSUME NEW X, NEW b \in Seq(X), Len(b) # 0,
           \A i \in DOMAIN b : /\ parse_call(b[i], policy).kind = "AssetTransfer"
                              /\ parse_call(b[i], policy).asset = parse_call(b[1], policy).asset
    PROVE  \E Y : /\ Rebuilt(b) \in Seq(Y) /\ Len(Rebuilt(b)) = Len(b)
                  /\ \A i \in 1..Len(b) : parse_call(Rebuilt(b)[i], policy) = parse_call(b[i], policy)
<1> DEFINE n == Len(b)
           Y == {Rebuilt(b)[i] : i \in 1..n}
<1>1. n \in Nat /\ DOMAIN b = 1..n
    BY LenProperties
<1>2. Rebuilt(b) = [i \in 1..n |-> Rebuilt(b)[i]]
    BY <1>1 DEF Rebuilt
<1>3. Rebuilt(b) \in [1..n -> Y]
    BY <1>2
<1>4. Rebuilt(b) \in Seq(Y) /\ Len(Rebuilt(b)) = n
    <2> HIDE DEF Y, n
    <2> QED  BY <1>1, <1>3
<1>5. ASSUME NEW i \in 1..n PROVE parse_call(Rebuilt(b)[i], policy) = parse_call(b[i], policy)
    <2> DEFINE call == parse_call(b[i], policy)
    <2>1. call.kind = "AssetTransfer" /\ call.asset = parse_call(b[1], policy).asset
        BY <1>1
    <2>2. Rebuilt(b)[i] = transfer_context(parse_call(b[1], policy).asset, call.to, call.amount)
        BY <1>1 DEF Rebuilt
    <2>3. Rebuilt(b)[i] = [contract |-> call.asset, fn |-> "transfer",
                           args |-> <<call.asset, call.to, call.amount>>]
        BY <2>1, <2>2, Zenon DEF transfer_context
    <2> QED  BY <2>1, <2>3, RebuiltTransfer
<1> QED  BY <1>4, <1>5

(* The permissionless preflights answer what __check_auth would answer     *)
(* now (check_detailed, check_batch, decide).                              *)
THEOREM PreflightsAgree == Spec => []PreflightAgrees
<1>1. IInv /\ WindowSound => PreflightAgrees
    <2> SUFFICES ASSUME IInv, WindowSound, policy # None, NEW b \in Batch
                 PROVE  LET call(i) == parse_call(b[i], policy)
                            transfers == [i \in DOMAIN b |->
                                             [to |-> call(i).to, amount |-> call(i).amount]]
                        IN  /\ call(1).kind = "AssetTransfer" =>
                                   check_detailed(call(1).asset, call(1).to, call(1).amount).result
                                       = Decision(<<b[1]>>).verdicts[1]
                            /\ (\A i \in DOMAIN b : call(i).kind = "AssetTransfer"
                                                    /\ call(i).asset = call(1).asset) =>
                                   check_batch(call(1).asset, transfers).verdicts
                                       = Decision(b).verdicts
        BY DEF PreflightAgrees
    <2> DEFINE call(i) == parse_call(b[i], policy)
               transfers == [i \in DOMAIN b |-> [to |-> call(i).to, amount |-> call(i).amount]]
               X == [contract : Address \union {None}, fn : STRING, args : Seq(Address \union Int)]
    <2>0. b \in Seq(X) /\ 1 \in DOMAIN b
        BY BatchNonEmpty, AccountConstants
    <2> HIDE DEF X
    <2>1. b \in Seq(X) /\ Len(b) # 0
        BY <2>0, LenProperties
    <2>2. ASSUME call(1).kind = "AssetTransfer"
          PROVE  check_detailed(call(1).asset, call(1).to, call(1).amount).result
                     = Decision(<<b[1]>>).verdicts[1]
        <3> DEFINE again == transfer_context(call(1).asset, call(1).to, call(1).amount)
        <3>1. parse_call(again, policy) = call(1)
            BY <2>2, RebuiltTransfer DEF transfer_context
        <3> HIDE DEF again
        <3> DEFINE one == <<again>>
                   two == <<b[1]>>
        <3>2. /\ one \in Seq({again}) /\ two \in Seq({b[1]}) /\ Len(one) = Len(two)
              /\ \A i \in 1..Len(one) : one[i] = again /\ two[i] = b[1]
            OBVIOUS
        <3> HIDE DEF one, two
        <3>3. \A i \in 1..Len(one) : parse_call(one[i], policy) = parse_call(two[i], policy)
            BY <3>1, <3>2, Zenon
        <3>4. decide(policy, adminFrozen, lastHeartbeat, ReadLedger, now, one).verdicts
                  = decide(policy, adminFrozen, lastHeartbeat, LoadedLedger, now, two).verdicts
            <4> DEFINE A == {again}
                       B == {b[1]}
            <4>1. one \in Seq(A) /\ two \in Seq(B) /\ Len(one) = Len(two)
                BY <3>2
            <4>2. DecidedOn(policy, ReadLedger, now) = DecidedOn(policy, LoadedLedger, now)
                BY ReadIsLive
            <4> HIDE DEF A, B
            <4> QED  BY ONLY <3>3, <4>1, <4>2, SameDecision
        <3>5. check_detailed(call(1).asset, call(1).to, call(1).amount).result
                  = decide(policy, adminFrozen, lastHeartbeat, ReadLedger, now, one).verdicts[1]
            BY DEF check_detailed, again, one
        <3> QED  BY <3>4, <3>5, Zenon DEF Decision, two
    <2>3. ASSUME \A i \in DOMAIN b : call(i).kind = "AssetTransfer" /\ call(i).asset = call(1).asset
          PROVE  check_batch(call(1).asset, transfers).verdicts = Decision(b).verdicts
        <3>1. PICK Y : /\ Rebuilt(b) \in Seq(Y) /\ Len(Rebuilt(b)) = Len(b)
                       /\ \A i \in 1..Len(b) :
                              parse_call(Rebuilt(b)[i], policy) = parse_call(b[i], policy)
            BY <2>1, <2>3, RebuiltCalls
        <3>2. decide(policy, adminFrozen, lastHeartbeat, LoadedLedger, now, Rebuilt(b)).verdicts
                  = decide(policy, adminFrozen, lastHeartbeat, LoadedLedger, now, b).verdicts
            BY <2>1, <3>1, SameDecision
        <3>3. [i \in DOMAIN transfers |->
                  transfer_context(call(1).asset, transfers[i].to, transfers[i].amount)] = Rebuilt(b)
            BY DEF Rebuilt
        <3>4. check_batch(call(1).asset, transfers).verdicts = Decision(Rebuilt(b)).verdicts
            <4> HIDE DEF transfers, call
            <4> QED  BY <3>3 DEF check_batch
        <3> QED  BY <3>2, <3>4, Zenon DEF Decision
    <2> QED  BY <2>2, <2>3
<1> QED  BY <1>1, Invariance, WindowStaysSound, PTL
=============================================================================
