------------------------------- MODULE Engine -------------------------------
(***************************************************************************)
(* The decision engine of src/src/engine.rs: what one authorization with a *)
(* list of contexts is answered, and what it does to the ledger.  Pure     *)
(* functions of the policy, the account state, the ledger, the time and    *)
(* the contexts.                                                           *)
(*                                                                         *)
(* A context is a record [contract, fn, args]; contract = None stands for  *)
(* the two contract-creation host functions.  args is a sequence of        *)
(* addresses and integers.  A verdict is "Allowed" or the name of an error.*)
(***************************************************************************)
EXTENDS Policy

CONSTANT MAX_AUTH_CONTEXTS

ASSUME EngineBounds == MAX_AUTH_CONTEXTS \in Nat \ {0}

Allowed == "Allowed"

(* Seeded fault: the first verdict is not looked at. *)
AllAllowedButFirst(verdicts) == \A i \in DOMAIN verdicts \ {1} : verdicts[i] = Allowed

AllAllowed(verdicts) == \A i \in DOMAIN verdicts : verdicts[i] = Allowed

(* The reason of the first rule of an ordered decision table that applies: *)
(* a row is <<condition, error>>.                                          *)
FirstApplicable(table) ==
    LET i == SelectInSeq(table, LAMBDA row : row[1])
    IN  IF i = 0 THEN Allowed ELSE table[i][2]

-----------------------------------------------------------------------------
(* Account gates *)

(* now.saturating_sub(last) > grace, with 0 meaning no heartbeat yet. *)
HeartbeatExpired(grace, last_heartbeat, now) ==
    grace > 0 /\ last_heartbeat # 0 /\ now - last_heartbeat > grace

OutsideActiveWindow(cfg, now) ==
    \/ cfg.active_from # 0 /\ now < cfg.active_from
    \/ cfg.active_until # 0 /\ now > cfg.active_until

(* Seeded fault: the dead-man switch is not consulted. *)
AccountGateNoExpiry(policy, admin_frozen, last_heartbeat, now) ==
    IF admin_frozen THEN "AdminFrozen"
    ELSE IF policy = None THEN "NoPolicy"
    ELSE IF policy.paused THEN "Paused"
    ELSE IF OutsideActiveWindow(policy, now) THEN "OutsideActiveWindow"
    ELSE Allowed

AccountGate(policy, admin_frozen, last_heartbeat, now) ==
    IF admin_frozen THEN "AdminFrozen"
    ELSE IF policy = None THEN "NoPolicy"
    ELSE IF HeartbeatExpired(policy.dms_grace_secs, last_heartbeat, now) THEN "HeartbeatExpired"
    ELSE IF policy.paused THEN "Paused"
    ELSE IF OutsideActiveWindow(policy, now) THEN "OutsideActiveWindow"
    ELSE Allowed

(* The health read: unlike the gate it treats a clock of 0 as expired. *)
dms_health(now, last_heartbeat, cfg) ==
    LET elapsed == IF now > last_heartbeat THEN now - last_heartbeat ELSE 0
    IN  IF cfg.dms_grace_secs = 0 THEN "Ok"
        ELSE IF last_heartbeat = 0 \/ elapsed > cfg.dms_grace_secs THEN "Expired"
        ELSE IF elapsed >= (cfg.dms_grace_secs * 80) \div 100 THEN "Warn"
        ELSE "Ok"

-----------------------------------------------------------------------------
(* Caps *)

(* The first override of `to` that is switched on, or None. *)
recipient_override_cap(cfg, to) ==
    LET caps == cfg.recipient_window_caps
        i == SelectInSeq(caps, LAMBDA rc : rc.recipient = to /\ rc.cap > 0)
    IN  IF i = 0 THEN None ELSE caps[i].cap

CapOrNone(cap) == IF cap > 0 THEN cap ELSE None

effective_window_cap(cfg, to) ==
    LET cap == recipient_override_cap(cfg, to)
    IN  IF cap # None THEN cap ELSE CapOrNone(cfg.window_cap)

(* A per-asset entry replaces the global cap, also when it is 0. *)
effective_per_tx_cap(cfg, asset) ==
    LET i == SelectInSeq(cfg.asset_caps, LAMBDA ac : ac.asset = asset)
    IN  CapOrNone(IF i = 0 THEN cfg.per_tx_cap ELSE cfg.asset_caps[i].per_tx_cap)

AssetPaused(cfg, asset) ==
    LET i == SelectInSeq(cfg.asset_caps, LAMBDA ac : ac.asset = asset)
    IN  i # 0 /\ cfg.asset_caps[i].paused

(* Seeded fault: what the same request has staged is not counted. *)
ExceedsCapUnstaged(base, staged, amount, cap) ==
    base + amount > I128_MAX \/ base + amount > cap

(* Seeded fault: the sum of the projection wraps around. *)
ExceedsCapWraps(base, staged, amount, cap) ==
    LET half == I128_MAX + 1
    IN  ((base + staged + amount + half) % (2 * half)) - half > cap

(* An overflowing projection exceeds every cap. *)
ExceedsCap(base, staged, amount, cap) ==
    \/ base + staged > I128_MAX
    \/ base + staged + amount > I128_MAX
    \/ base + staged + amount > cap

global_window_remaining(cfg, ledger) ==
    IF cfg.window_cap = 0 THEN None
    ELSE Max({cfg.window_cap - ledger.global.total, 0})

(* The advisory headroom of check_detailed for a transfer to `to`. *)
cap_metrics(cfg, ledger, to) ==
    LET cap   == effective_window_cap(cfg, to)
        total == IF recipient_override_cap(cfg, to) # None
                 THEN recipient_total(ledger, to) ELSE ledger.global.total
    IN  [remaining  |-> IF cap = None THEN None ELSE Max({cap - total, 0}),
         per_tx_cap |-> CapOrNone(cfg.per_tx_cap),
         window_cap |-> cap]

-----------------------------------------------------------------------------
(* Context parsing *)

Unknown == [kind |-> "Unknown"]

(* transfer(from, to, amount) and transfer_from(spender, from, to, amount) *)
(* with exactly their arity and argument types; anything else is Unknown.  *)
ParseTransfer(ctx) ==
    LET to_idx == IF ctx.fn = "transfer" THEN 2 ELSE 3
    IN  IF /\ Len(ctx.args) = to_idx + 1
           /\ ctx.args[to_idx] \in Address
           /\ ctx.args[to_idx + 1] \in I128
        THEN [kind |-> "AssetTransfer", asset |-> ctx.contract,
              to |-> ctx.args[to_idx], amount |-> ctx.args[to_idx + 1]]
        ELSE Unknown

parse_call(ctx, cfg) ==
    IF ctx.contract = None THEN [kind |-> "CreateContract"]
    ELSE IF ctx.contract = Self THEN [kind |-> "SelfCall", fn |-> ctx.fn]
    ELSE IF ctx.contract \in ToSet(cfg.assets)
         THEN IF ctx.fn \in {"transfer", "transfer_from"} THEN ParseTransfer(ctx)
              ELSE [kind |-> "AssetOther", asset |-> ctx.contract]
    ELSE IF \E r \in ToSet(cfg.protocols) : r.contract = ctx.contract
         THEN [kind |-> "Protocol", contract |-> ctx.contract, fn |-> ctx.fn]
    ELSE Unknown

-----------------------------------------------------------------------------
(* Per-context rules.  `s` is what earlier contexts of the same request    *)
(* have staged: admission is the sequence of global spends and pending     *)
(* their sum, recipients maps each tracked recipient to its staged amount, *)
(* calls counts the metered protocol calls.                                *)

NothingStaged ==
    [verdicts |-> <<>>, admission |-> <<>>, pending |-> 0, recipients |-> <<>>, calls |-> 0]

(* Seeded fault: what is staged for a recipient is forgotten. *)
StagedForNobody(s, to) == 0

StagedFor(s, to) == IF to \in DOMAIN s.recipients THEN s.recipients[to] ELSE 0

(* Seeded fault: a payment of nothing is a payment. *)
InvalidAmountNegative(amount) == amount < 0

InvalidAmount(amount) == amount <= 0

TransferVerdict(cfg, ledger, s, call) ==
    LET perTx == effective_per_tx_cap(cfg, call.asset)
        recip == recipient_override_cap(cfg, call.to)
    IN  FirstApplicable(<<
          <<AssetPaused(cfg, call.asset), "AssetNotAllowed">>,
          <<InvalidAmount(call.amount), "InvalidAmount">>,
          <<call.to \in ToSet(cfg.blocked_recipients), "RecipientBlocked">>,
          <<~ cfg.allow_any_recipient /\ call.to \notin ToSet(cfg.recipients),
            "RecipientNotAllowed">>,
          <<perTx # None /\ call.amount > perTx, "PerTxCapExceeded">>,
          <<\/ cfg.window_cap > 0
               /\ ExceedsCap(ledger.global.total, s.pending, call.amount, cfg.window_cap)
            \/ recip # None
               /\ ExceedsCap(recipient_total(ledger, call.to), StagedFor(s, call.to),
                             call.amount, recip),
            "WindowCapExceeded">>>>)

(* Seeded fault: the calls of the same request are not counted. *)
ProjectedCallsUnstaged(ledger, s) == saturating_add(ledger.calls.total, 1, U32_MAX)

ProjectedCalls(ledger, s) ==
    saturating_add(saturating_add(ledger.calls.total, s.calls, U32_MAX), 1, U32_MAX)

ProtocolVerdict(cfg, ledger, s, call) ==
    LET rule == cfg.protocols[SelectInSeq(cfg.protocols,
                                  LAMBDA r : r.contract = call.contract)]
    IN  FirstApplicable(<<
          <<rule.paused, "ProtocolNotAllowed">>,
          <<rule.fns # None /\ call.fn \notin ToSet(rule.fns), "FunctionNotAllowed">>,
          <</\ cfg.protocol_calls_per_window > 0
            /\ ProjectedCalls(ledger, s) > cfg.protocol_calls_per_window,
            "ProtocolCallRateExceeded">>>>)

(* Seeded fault: the agent may call every function of the account. *)
SelfVerdictAny(fn) == Allowed

SelfVerdict(fn) == IF fn = "heartbeat" THEN Allowed ELSE "SelfFunctionNotAllowed"

ContextVerdict(cfg, ledger, s, call) ==
    CASE call.kind = "SelfCall"       -> SelfVerdict(call.fn)
      [] call.kind = "CreateContract" -> "CreateContractNotAllowed"
      [] call.kind = "Unknown"        -> "UnknownContract"
      [] call.kind = "AssetOther"     -> IF AssetPaused(cfg, call.asset) THEN "AssetNotAllowed"
                                         ELSE "AssetFnNotAllowed"
      [] call.kind = "AssetTransfer"  -> TransferVerdict(cfg, ledger, s, call)
      [] call.kind = "Protocol"       -> ProtocolVerdict(cfg, ledger, s, call)

(* What an allowed call adds to the stage: transfers to the global window  *)
(* when it is on and to the recipient's window when it has an override,    *)
(* protocol calls to the counter when the rate limit is on.                *)
StageCall(cfg, s, call) ==
    LET isTransfer == call.kind = "AssetTransfer"
        global == isTransfer /\ cfg.window_cap > 0
        recip  == isTransfer /\ recipient_override_cap(cfg, call.to) # None
        metered == call.kind = "Protocol" /\ cfg.protocol_calls_per_window > 0
    IN  [s EXCEPT
          !.admission  = IF global THEN Append(@, call.amount) ELSE @,
          !.pending    = IF global THEN saturating_add(@, call.amount, I128_MAX) ELSE @,
          !.recipients = IF recip
                         THEN [r \in DOMAIN @ \union {call.to} |->
                                 IF r = call.to
                                 THEN saturating_add(StagedFor(s, r), call.amount, I128_MAX)
                                 ELSE s.recipients[r]]
                         ELSE @,
          !.calls      = IF metered THEN saturating_add(@, 1, U32_MAX) ELSE @]

EvalContext(cfg, ledger, s, ctx) ==
    LET call == parse_call(ctx, cfg)
        verdict == ContextVerdict(cfg, ledger, s, call)
        staged == IF verdict = Allowed THEN StageCall(cfg, s, call) ELSE s
    IN  [staged EXCEPT !.verdicts = Append(@, verdict)]

(* Every context is evaluated, also after one that is blocked. *)
EvalContexts(cfg, ledger, ctxs) ==
    FoldLeft(LAMBDA s, ctx : EvalContext(cfg, ledger, s, ctx), NothingStaged, ctxs)

(* Seeded fault: a request counts as one protocol call. *)
CommitOneCall(ledger, s, now) ==
    LET spends == FoldLeft(LAMBDA l, amount : admit(l, now, amount), ledger, s.admission)
        recips == FoldSet(LAMBDA r, l : admit_for_recipient(l, now, r, s.recipients[r]),
                          spends, DOMAIN s.recipients)
    IN  IF s.calls = 0 THEN recips ELSE admit_protocol_call(recips, now)

(* Admit what was staged: spends in request order, then the recipients,    *)
(* then the protocol calls one by one.                                     *)
CommitStaged(ledger, s, now) ==
    LET spends == FoldLeft(LAMBDA l, amount : admit(l, now, amount), ledger, s.admission)
        recips == FoldSet(LAMBDA r, l : admit_for_recipient(l, now, r, s.recipients[r]),
                          spends, DOMAIN s.recipients)
    IN  FoldLeft(LAMBDA l, i : admit_protocol_call(l, now), recips, [i \in 1..s.calls |-> i])

PrunesWindow(cfg) ==
    cfg.window_cap > 0 \/ cfg.recipient_window_caps # <<>> \/ cfg.protocol_calls_per_window > 0

(* The answer of one authorization: a verdict per context, and the ledger  *)
(* with the staged admissions iff every context is allowed.                *)
decide(policy, admin_frozen, last_heartbeat, ledger, now, ctxs) ==
    LET gate == AccountGate(policy, admin_frozen, last_heartbeat, now)
    IN  IF Len(ctxs) > MAX_AUTH_CONTEXTS
        THEN [verdicts |-> <<"TooManyAuthContexts">>, ledger |-> ledger]
        ELSE IF gate # Allowed
        THEN [verdicts |-> [i \in DOMAIN ctxs |-> gate], ledger |-> ledger]
        ELSE LET live == IF PrunesWindow(policy) THEN prune(ledger, now, policy.window_secs)
                         ELSE ledger
                 s == EvalContexts(policy, live, ctxs)
             IN  [verdicts |-> s.verdicts,
                  ledger   |-> IF AllAllowed(s.verdicts) THEN CommitStaged(live, s, now)
                               ELSE live]
=============================================================================
