---------------------------- MODULE EngineProofs ----------------------------
(***************************************************************************)
(* What the policy validation and the decision engine guarantee, for every *)
(* policy and every request: lemmas about the operators of Policy and      *)
(* Engine that the proofs about the account cite.                          *)
(***************************************************************************)
EXTENDS Engine, WindowProofs

-----------------------------------------------------------------------------
(* The first index of a search is one of the matches. *)
LEMMA MinIn ==
    ASSUME NEW I, I \subseteq Nat, I # {}
    PROVE  Min(I) \in I /\ \A y \in I : Min(I) <= y
BY LeastElement DEF Min

(* A list of rules is valid only when every rule of it is (FirstFailing).  *)
LEMMA AllRulesHold ==
    ASSUME NEW rules, NEW n \in Nat, Len(rules) = n, FirstFailing(rules) = Valid
    PROVE  \A i \in 1..n : rules[i] = Valid
<1> DEFINE I == {i \in 1..Len(rules) : rules[i] # Valid}
<1>1. SelectInSeq(rules, LAMBDA r : r # Valid) = IF I # {} THEN Min(I) ELSE 0
    BY DEF SelectInSeq
<1> SUFFICES ASSUME I # {} PROVE FALSE
    OBVIOUS
<1>0. I \subseteq Nat
    OBVIOUS
<1> HIDE DEF I
<1>2. Min(I) \in I
    BY <1>0, MinIn
<1>3. Min(I) # 0 /\ rules[Min(I)] # Valid
    BY <1>2 DEF I
<1> QED  BY <1>1, <1>3 DEF FirstFailing

(* The same for the short lists of rules on one entry. *)
LEMMA TwoRulesHold ==
    ASSUME NEW a, NEW b, FirstFailing(<<a, b>>) = Valid
    PROVE  a = Valid /\ b = Valid
<1> DEFINE s == <<a, b>>
<1>1. Len(s) = 2 /\ s[1] = a /\ s[2] = b
    OBVIOUS
<1> HIDE DEF s
<1>2. \A i \in 1..2 : s[i] = Valid
    BY <1>1, AllRulesHold DEF s
<1> QED  BY <1>1, <1>2

(* The same for three rules. *)
LEMMA ThreeRulesHold ==
    ASSUME NEW a, NEW b, NEW c, FirstFailing(<<a, b, c>>) = Valid
    PROVE  a = Valid /\ b = Valid /\ c = Valid
<1> DEFINE s == <<a, b, c>>
<1>1. Len(s) = 3 /\ s[1] = a /\ s[2] = b /\ s[3] = c
    OBVIOUS
<1> HIDE DEF s
<1>2. \A i \in 1..3 : s[i] = Valid
    BY <1>1, AllRulesHold DEF s
<1> QED  BY <1>1, <1>2

(* A single rule holds when its condition does not. *)
LEMMA RuleHolds ==
    ASSUME NEW fails, NEW id, id # Valid, Rule(fails, id) = Valid
    PROVE  ~ fails
BY DEF Rule

(* A family of rules, one for each entry of a list, is as long as it. *)
LEMMA PerEntry ==
    ASSUME NEW n \in Nat, NEW rest, DOMAIN rest = 1..n, rest = [i \in 1..n |-> rest[i]], NEW x
    PROVE  /\ Len(rest) = n
           /\ Len(<<x>> \o rest) = n + 1
           /\ (<<x>> \o rest)[1] = x
           /\ \A i \in 1..n : (<<x>> \o rest)[i + 1] = rest[i]
           /\ Len(rest \o <<x>>) = n + 1
           /\ \A i \in 1..n : (rest \o <<x>>)[i] = rest[i]
           /\ (rest \o <<x>>)[n + 1] = x
<1> DEFINE S == {x} \union {rest[i] : i \in 1..n}
<1>1. rest \in [1..n -> S]
    OBVIOUS
<1>2. rest \in Seq(S) /\ <<x>> \in Seq(S)
    BY <1>1, SeqDef
<1> HIDE DEF S
<1>3. Len(rest) = n
    BY <1>1, <1>2, LenProperties
<1>4. Len(<<x>>) = 1 /\ <<x>>[1] = x
    OBVIOUS
<1> QED  BY <1>2, <1>3, <1>4, ConcatProperties

-----------------------------------------------------------------------------
(* What first_failing_rule leaves standing. *)

(* An override that is on has a window to roll over, and no recipient has  *)
(* two.                                                                    *)
LEMMA RecipientCapRules ==
    ASSUME NEW cfg \in PolicyConfig, first_failing_recipient_cap_rule(cfg) = Valid
    PROVE  /\ \A i \in DOMAIN cfg.recipient_window_caps :
                  cfg.recipient_window_caps[i].cap > 0 => cfg.window_secs # 0
           /\ \A i, j \in DOMAIN cfg.recipient_window_caps :
                  cfg.recipient_window_caps[i].recipient = cfg.recipient_window_caps[j].recipient
                  => i = j
<1> DEFINE caps == cfg.recipient_window_caps
           n == Len(caps)
           names == [i \in DOMAIN caps |-> caps[i].recipient]
           x == Rule(has_dup(names), "DuplicateRecipientCap")
           each(i) == FirstFailing(<<
                Rule(caps[i].cap < 0, "RecipientCapSign"),
                Rule(caps[i].cap > 0 /\ cfg.window_secs = 0, "WindowRequiresWidth"),
                Rule(caps[i].recipient = Self, "SelfAddressInList")>>)
           rest == [i \in DOMAIN caps |-> each(i)]
<1>1. n \in Nat /\ DOMAIN caps = 1..n
    BY DEF PolicyConfig
<1>2. FirstFailing(<<x>> \o rest) = Valid
    BY DEF first_failing_recipient_cap_rule
<1>3. DOMAIN rest = 1..n /\ rest = [i \in 1..n |-> rest[i]]
    BY <1>1
<1> HIDE DEF n, x, rest
<1>4. /\ Len(<<x>> \o rest) = n + 1 /\ \A i \in 1..n : (<<x>> \o rest)[i + 1] = rest[i]
      /\ (<<x>> \o rest)[1] = x
    BY <1>1, <1>3, PerEntry
<1>5. \A i \in 1..(n + 1) : (<<x>> \o rest)[i] = Valid
    <2> DEFINE all == <<x>> \o rest
    <2>1. n + 1 \in Nat /\ Len(all) = n + 1 /\ FirstFailing(all) = Valid
        BY <1>1, <1>2, <1>4
    <2> HIDE DEF all
    <2>2. \A i \in 1..(n + 1) : all[i] = Valid
        BY <2>1, AllRulesHold
    <2> QED  BY <2>2 DEF all
<1>6. ASSUME NEW i \in 1..n PROVE rest[i] = Valid
    <2>1. i + 1 \in 1..(n + 1)
        BY <1>1
    <2>2. (<<x>> \o rest)[i + 1] = Valid
        BY <1>5, <2>1, Zenon
    <2> QED  BY <1>4, <2>2
<1>7. ASSUME NEW i \in DOMAIN caps
      PROVE  Rule(caps[i].cap > 0 /\ cfg.window_secs = 0, "WindowRequiresWidth") = Valid
    <2>1. each(i) = Valid
        BY <1>1, <1>6 DEF rest
    <2> QED  BY <2>1, ThreeRulesHold
<1>8. ASSUME NEW i \in DOMAIN caps
      PROVE  ~ (caps[i].cap > 0 /\ cfg.window_secs = 0)
    BY <1>7, RuleHolds DEF Valid
<1>9. ~ has_dup(names)
    <2>1. x = Valid
        BY <1>1, <1>4, <1>5
    <2> QED  BY <2>1, RuleHolds DEF Valid, x
<1> QED  BY <1>8, <1>9 DEF has_dup, IsInjective

(* A per-asset cap has no sign, and no asset has two. *)
LEMMA AssetCapRules ==
    ASSUME NEW cfg \in PolicyConfig, first_failing_asset_cap_rule(cfg) = Valid
    PROVE  /\ \A i \in DOMAIN cfg.asset_caps : cfg.asset_caps[i].per_tx_cap >= 0
           /\ \A i, j \in DOMAIN cfg.asset_caps :
                  cfg.asset_caps[i].asset = cfg.asset_caps[j].asset => i = j
<1> DEFINE caps == cfg.asset_caps
           n == Len(caps)
           names == [i \in DOMAIN caps |-> caps[i].asset]
           x == Rule(has_dup(names), "DuplicateAssetCap")
           each(i) == FirstFailing(<<
                Rule(caps[i].per_tx_cap < 0, "AmountSign"),
                Rule(caps[i].asset = Self, "SelfAddressInList"),
                Rule(caps[i].asset \notin ToSet(cfg.assets), "AssetCapUnknownAsset")>>)
           rest == [i \in DOMAIN caps |-> each(i)]
<1>1. /\ caps \in Seq([asset : Address, per_tx_cap : Int, paused : BOOLEAN])
      /\ n \in Nat /\ DOMAIN caps = 1..n
    BY DEF PolicyConfig
<1>2. FirstFailing(rest \o <<x>>) = Valid
    BY DEF first_failing_asset_cap_rule
<1>3. DOMAIN rest = 1..n /\ rest = [i \in 1..n |-> rest[i]]
    BY <1>1
<1>0. ASSUME NEW i \in DOMAIN caps PROVE caps[i].per_tx_cap \in Int
    <2>1. caps[i] \in [asset : Address, per_tx_cap : Int, paused : BOOLEAN]
        BY <1>1, ElementOfSeq
    <2> QED  BY <2>1
<1> HIDE DEF n, x, rest
<1>4. /\ Len(rest \o <<x>>) = n + 1
      /\ \A i \in 1..n : (rest \o <<x>>)[i] = rest[i]
      /\ (rest \o <<x>>)[n + 1] = x
    BY <1>1, <1>3, PerEntry
<1>5. \A i \in 1..(n + 1) : (rest \o <<x>>)[i] = Valid
    <2> DEFINE all == rest \o <<x>>
    <2>1. n + 1 \in Nat /\ Len(all) = n + 1 /\ FirstFailing(all) = Valid
        BY <1>1, <1>2, <1>4
    <2> HIDE DEF all
    <2>2. \A i \in 1..(n + 1) : all[i] = Valid
        BY <2>1, AllRulesHold
    <2> QED  BY <2>2 DEF all
<1>6. x = Valid /\ \A i \in 1..n : rest[i] = Valid
    BY <1>1, <1>4, <1>5
<1>7. ASSUME NEW i \in DOMAIN caps
      PROVE  Rule(caps[i].per_tx_cap < 0, "AmountSign") = Valid
    <2>1. each(i) = Valid
        BY <1>1, <1>6 DEF rest
    <2> QED  BY <2>1, ThreeRulesHold
<1>8. ASSUME NEW i \in DOMAIN caps PROVE caps[i].per_tx_cap >= 0
    <2>1. ~ (caps[i].per_tx_cap < 0)
        BY <1>7, RuleHolds DEF Valid
    <2> QED  BY <1>0, <2>1
<1>9. ~ has_dup(names)
    BY <1>6, RuleHolds DEF Valid, x
<1> QED  BY <1>8, <1>9 DEF has_dup, IsInjective

(* No two protocol rules are about the same contract. *)
LEMMA ProtocolRules ==
    ASSUME NEW cfg \in PolicyConfig, FirstFailingProtocolRule(cfg) = Valid
    PROVE  \A i, j \in DOMAIN cfg.protocols :
               cfg.protocols[i].contract = cfg.protocols[j].contract => i = j
<1> DEFINE rules == cfg.protocols
           n == Len(rules)
           taken(i) == \E j \in 1..(i - 1) : rules[j].contract = rules[i].contract
           each(i) == FirstFailing(<<
              Rule(\E j \in 1..(i - 1) : rules[j].contract = rules[i].contract,
                   "ProtocolContractDuplicate"),
              Rule(rules[i].fns # None /\ (rules[i].fns = <<>> \/ has_dup(rules[i].fns)),
                   "ProtocolFnListInvalid")>>)
           rest == [i \in DOMAIN rules |-> each(i)]
<1>1. n \in Nat /\ DOMAIN rules = 1..n
    BY DEF PolicyConfig
<1>2. FirstFailing(rest) = Valid
    BY DEF FirstFailingProtocolRule
<1>3. DOMAIN rest = 1..n /\ rest = [i \in 1..n |-> rest[i]]
    BY <1>1
<1> HIDE DEF n, rest
<1>4. Len(rest) = n
    BY <1>1, <1>3, PerEntry
<1>5. \A i \in 1..n : rest[i] = Valid
    BY <1>1, <1>2, <1>4, AllRulesHold
<1>6. ASSUME NEW i \in DOMAIN rules PROVE Rule(taken(i), "ProtocolContractDuplicate") = Valid
    <2>1. each(i) = Valid
        BY <1>1, <1>5 DEF rest
    <2> QED  BY <2>1, TwoRulesHold
<1>7. ASSUME NEW i \in DOMAIN rules PROVE ~ taken(i)
    BY <1>6, RuleHolds DEF Valid
<1> QED  BY <1>1, <1>7

(* A policy whose lookups are unambiguous: the lists name nothing twice    *)
(* and contradict each other nowhere, and what rolls has a width.          *)
Unambiguous(cfg) ==
    /\ \A i, j \in DOMAIN cfg.protocols :
           cfg.protocols[i].contract = cfg.protocols[j].contract => i = j
    /\ \A i, j \in DOMAIN cfg.asset_caps :
           cfg.asset_caps[i].asset = cfg.asset_caps[j].asset => i = j
    /\ \A i \in DOMAIN cfg.recipient_window_caps :
           cfg.recipient_window_caps[i].cap > 0 => cfg.window_secs # 0
    /\ \A i, j \in DOMAIN cfg.recipient_window_caps :
           cfg.recipient_window_caps[i].recipient = cfg.recipient_window_caps[j].recipient => i = j
    /\ cfg.window_cap > 0 => cfg.window_secs # 0
    /\ ToSet(cfg.recipients) \intersect ToSet(cfg.blocked_recipients) = {}

(* A policy that set_policy accepts is unambiguous (first_failing_rule). *)
LEMMA ValidatedIsUnambiguous ==
    ASSUME NEW cfg \in PolicyConfig, validate_config(cfg)
    PROVE  Unambiguous(cfg)
<1> DEFINE protocolContracts == {r.contract : r \in ToSet(cfg.protocols)}
           recipients == ToSet(cfg.recipients)
           blocked == ToSet(cfg.blocked_recipients)
           rules == <<
          Rule(Len(cfg.assets) > MAX_POLICY_ASSETS, "AssetListTooLong"),
          Rule(Len(cfg.protocols) > MAX_POLICY_PROTOCOLS, "ProtocolListTooLong"),
          Rule(\E l \in {cfg.recipients, cfg.recipient_window_caps, cfg.blocked_recipients} :
                   Len(l) > MAX_RECIPIENT_ENTRIES, "RecipientListTooLong"),
          Rule(Len(cfg.asset_caps) > MAX_ASSET_CAP_ENTRIES, "AssetCapListTooLong"),
          Rule(cfg.per_tx_cap < 0 \/ cfg.window_cap < 0, "AmountSign"),
          Rule(cfg.window_cap > 0 /\ cfg.window_secs = 0, "WindowRequiresWidth"),
          Rule(cfg.per_tx_cap > 0 /\ cfg.window_cap > 0 /\ cfg.per_tx_cap > cfg.window_cap,
               "PerTxCapExceedsWindowCap"),
          Rule(cfg.active_until # 0 /\ cfg.active_until <= cfg.active_from, "ActiveWindowOrder"),
          Rule(Self \in ToSet(cfg.assets) \union protocolContracts \union recipients \union blocked,
               "SelfAddressInList"),
          Rule(\E l \in {cfg.assets, cfg.recipients, cfg.blocked_recipients} : has_dup(l),
               "DuplicateAddressInList"),
          first_failing_recipient_cap_rule(cfg),
          first_failing_asset_cap_rule(cfg),
          Rule(recipients \intersect blocked # {}, "RecipientAllowAndBlocked"),
          FirstFailingProtocolRule(cfg),
          Rule(cfg.window_secs > MAX_WINDOW_SECS \/ cfg.dms_grace_secs > MAX_DMS_GRACE_SECS,
               "DurationExceedsBound")>>
<1>1. FirstFailing(rules) = Valid
    BY DEF validate_config, first_failing_rule
<1>2. /\ Len(rules) = 15
      /\ rules[6] = Rule(cfg.window_cap > 0 /\ cfg.window_secs = 0, "WindowRequiresWidth")
      /\ rules[11] = first_failing_recipient_cap_rule(cfg)
      /\ rules[12] = first_failing_asset_cap_rule(cfg)
      /\ rules[13] = Rule(recipients \intersect blocked # {}, "RecipientAllowAndBlocked")
      /\ rules[14] = FirstFailingProtocolRule(cfg)
    OBVIOUS
<1> HIDE DEF rules
<1>3. \A i \in 1..15 : rules[i] = Valid
    BY <1>1, <1>2, AllRulesHold
<1>4. ~ (cfg.window_cap > 0 /\ cfg.window_secs = 0)
    <2>1. Rule(cfg.window_cap > 0 /\ cfg.window_secs = 0, "WindowRequiresWidth") = Valid
        BY <1>2, <1>3
    <2> QED  BY <2>1, RuleHolds DEF Valid
<1>5. ~ (recipients \intersect blocked # {})
    <2>1. Rule(recipients \intersect blocked # {}, "RecipientAllowAndBlocked") = Valid
        BY <1>2, <1>3
    <2> QED  BY <2>1, RuleHolds DEF Valid
<1>6. /\ first_failing_recipient_cap_rule(cfg) = Valid
      /\ first_failing_asset_cap_rule(cfg) = Valid
      /\ FirstFailingProtocolRule(cfg) = Valid
    BY <1>2, <1>3
<1> QED  BY <1>4, <1>5, <1>6, RecipientCapRules, AssetCapRules, ProtocolRules DEF Unambiguous

(* pause and resume change nothing a lookup reads. *)
LEMMA PauseKeepsUnambiguous ==
    ASSUME NEW cfg \in PolicyConfig, Unambiguous(cfg), NEW b \in BOOLEAN
    PROVE  Unambiguous([cfg EXCEPT !.paused = b])
<1> DEFINE q == [cfg EXCEPT !.paused = b]
<1>1. /\ q.protocols = cfg.protocols /\ q.asset_caps = cfg.asset_caps
      /\ q.recipient_window_caps = cfg.recipient_window_caps
      /\ q.window_secs = cfg.window_secs /\ q.window_cap = cfg.window_cap
      /\ q.recipients = cfg.recipients /\ q.blocked_recipients = cfg.blocked_recipients
    BY DEF PolicyConfig
<1> HIDE DEF q
<1>2. Unambiguous(q)
    BY <1>1 DEF Unambiguous
<1> QED  BY <1>2 DEF q

(* A cap that is on is positive. *)
LEMMA CapIsPositive ==
    ASSUME NEW cap, CapOrNone(cap) # None
    PROVE  cap > 0 /\ CapOrNone(cap) > 0
BY DEF CapOrNone

(* The override of a recipient comes from an entry of the policy. *)
LEMMA OverrideIsOn ==
    ASSUME NEW cfg \in PolicyConfig, NEW to, recipient_override_cap(cfg, to) # None
    PROVE  \E i \in DOMAIN cfg.recipient_window_caps :
               /\ cfg.recipient_window_caps[i].recipient = to
               /\ cfg.recipient_window_caps[i].cap > 0
               /\ recipient_override_cap(cfg, to) = cfg.recipient_window_caps[i].cap
<1> DEFINE caps == cfg.recipient_window_caps
           I == {i \in 1..Len(caps) : caps[i].recipient = to /\ caps[i].cap > 0}
           k == IF I # {} THEN Min(I) ELSE 0
<1>0. Len(caps) \in Nat /\ DOMAIN caps = 1..Len(caps)
    BY DEF PolicyConfig
<1>1. recipient_override_cap(cfg, to) = IF k = 0 THEN None ELSE caps[k].cap
    BY DEF recipient_override_cap, SelectInSeq
<1>2. I \subseteq Nat /\ I \subseteq DOMAIN caps
    BY <1>0
<1>3. \A i \in I : caps[i].recipient = to /\ caps[i].cap > 0
    OBVIOUS
<1> HIDE DEF I
<1>4. I # {} /\ k = Min(I)
    BY <1>1
<1>5. Min(I) \in I
    BY <1>2, <1>4, MinIn
<1> QED  BY <1>1, <1>2, <1>3, <1>4, <1>5

(* In an unambiguous policy every cap on a window has a window. *)
LEMMA CapHasWindow ==
    ASSUME NEW cfg \in PolicyConfig, Unambiguous(cfg), NEW to, effective_window_cap(cfg, to) # None
    PROVE  cfg.window_secs > 0
<1>0. cfg.window_secs \in Nat
    BY DEF PolicyConfig
<1>1. CASE recipient_override_cap(cfg, to) # None
    <2>1. PICK i \in DOMAIN cfg.recipient_window_caps : cfg.recipient_window_caps[i].cap > 0
        BY <1>1, OverrideIsOn
    <2> QED  BY <1>0, <2>1 DEF Unambiguous
<1>2. CASE recipient_override_cap(cfg, to) = None
    <2>1. CapOrNone(cfg.window_cap) # None
        BY <1>2 DEF effective_window_cap
    <2> QED  BY <1>0, <2>1, CapIsPositive DEF Unambiguous
<1> QED  BY <1>1, <1>2

-----------------------------------------------------------------------------
(* A request of one context. *)

(* The stages of a request, by the set of its contexts evaluated so far. *)
OneStage(cfg, ledger, ctxs) ==
    CHOOSE f : f = [T \in SUBSET (DOMAIN ctxs) |->
                      IF T = {} THEN NothingStaged
                      ELSE EvalContext(cfg, ledger, f[T \ {Max(T)}], ctxs[Max(T)])]

(* EvalContexts is the last of the stages OneStage passes through. *)
LEMMA EvalContextsIsStage ==
    ASSUME NEW cfg, NEW ledger, NEW ctxs
    PROVE  EvalContexts(cfg, ledger, ctxs) = OneStage(cfg, ledger, ctxs)[DOMAIN ctxs]
BY DEF EvalContexts, FoldLeft, MapThenFoldSet, OneStage

(* It is evaluated with nothing staged. *)
LEMMA SingleContext ==
    ASSUME NEW cfg, NEW ledger, NEW ctx
    PROVE  EvalContexts(cfg, ledger, <<ctx>>) = EvalContext(cfg, ledger, NothingStaged, ctx)
<1> DEFINE ctxs == <<ctx>>
           P(f) == f = [T \in SUBSET (DOMAIN ctxs) |->
                          IF T = {} THEN NothingStaged
                          ELSE EvalContext(cfg, ledger, f[T \ {Max(T)}], ctxs[Max(T)])]
           g == [T \in SUBSET (DOMAIN ctxs) |->
                   IF T = {} THEN NothingStaged ELSE EvalContext(cfg, ledger, NothingStaged, ctx)]
           h == OneStage(cfg, ledger, ctxs)
<1>1. DOMAIN ctxs = {1} /\ ctxs[1] = ctx
    OBVIOUS
<1>2. Max({1}) = 1
    BY DEF Max
<1>3. \A T \in SUBSET (DOMAIN ctxs) : T = {} \/ T = {1}
    BY <1>1
<1> HIDE DEF ctxs
<1>4. {} \in SUBSET (DOMAIN ctxs) /\ {1} \in SUBSET (DOMAIN ctxs) /\ {1} \ {1} = {} /\ {1} # {}
    BY <1>1
<1>5. P(g)
    <2>1. g[{}] = NothingStaged
        BY <1>4
    <2>2. \A T \in SUBSET (DOMAIN ctxs) : T # {} => g[T \ {Max(T)}] = NothingStaged /\ ctxs[Max(T)] = ctx
        BY <1>1, <1>2, <1>3, <1>4, <2>1
    <2> QED  BY <2>2
<1>6. P(h)
    BY <1>5 DEF OneStage
<1> HIDE DEF h
<1>7. h[{}] = NothingStaged
    BY <1>4, <1>6
<1>8. h[{1}] = EvalContext(cfg, ledger, h[{1} \ {Max({1})}], ctxs[Max({1})])
    BY <1>4, <1>6
<1>9. h[{1}] = EvalContext(cfg, ledger, NothingStaged, ctx)
    BY <1>1, <1>2, <1>4, <1>7, <1>8
<1> QED  BY <1>1, <1>9, EvalContextsIsStage DEF h, ctxs

-----------------------------------------------------------------------------
(* The whole ledger of an account, in memory and in storage. *)
PerRecipient(X) == UNION {[D -> X] : D \in SUBSET Address}
LedgersUpTo(t) ==
    [global : LedgerUpTo(t), recipients : PerRecipient(LedgerUpTo(t)), calls : LedgerUpTo(t)]
StoredUpTo(t) ==
    [entries : EntriesUpTo(t), recipients : PerRecipient(EntriesUpTo(t)),
     protocol_call_entries : EntriesUpTo(t)]

(* What belongs to each recipient of a map, and to no other address. *)
LEMMA PerRecipientIs ==
    ASSUME NEW X, NEW f
    PROVE  f \in PerRecipient(X) <=>
               /\ DOMAIN f \subseteq Address
               /\ f \in [DOMAIN f -> X]
BY DEF PerRecipient

(* An empty ledger. *)
LEMMA EmptyUpTo ==
    ASSUME NEW t \in Nat
    PROVE  EmptyLedger \in LedgerUpTo(t) /\ Ledger_empty \in LedgersUpTo(t)
<1>1. EmptyLedger \in LedgerUpTo(t)
    BY EmptySeq DEF EmptyLedger, LedgerUpTo, EntriesUpTo, Chronological
<1>2. <<>> \in PerRecipient(LedgerUpTo(t))
    <2>1. DOMAIN <<>> = {} /\ <<>> = [x \in {} |-> x]
        OBVIOUS
    <2> QED  BY <2>1 DEF PerRecipient
<1> QED  BY <1>1, <1>2 DEF Ledger_empty, LedgersUpTo

(* Loading from storage. *)
LEMMA FromStateUpTo ==
    ASSUME NEW t \in Nat, NEW state \in StoredUpTo(t)
    PROVE  from_state(state) \in LedgersUpTo(t)
<1>1. I128_MAX \in Nat /\ U32_MAX \in Nat
    BY WindowBounds
<1>2. /\ state.entries \in EntriesUpTo(t) /\ state.protocol_call_entries \in EntriesUpTo(t)
      /\ state.recipients \in PerRecipient(EntriesUpTo(t))
    BY DEF StoredUpTo
<1>3. /\ ledger_from_entries(state.entries, I128_MAX) \in LedgerUpTo(t)
      /\ ledger_from_entries(state.protocol_call_entries, U32_MAX) \in LedgerUpTo(t)
    BY <1>1, <1>2, LoadUpTo
<1> DEFINE R == [r \in DOMAIN state.recipients |->
                    ledger_from_entries(state.recipients[r], I128_MAX)]
<1>4. /\ DOMAIN state.recipients \subseteq Address
      /\ \A r \in DOMAIN state.recipients : state.recipients[r] \in EntriesUpTo(t)
    BY <1>2, PerRecipientIs
<1>5. R \in PerRecipient(LedgerUpTo(t))
    <2>1. R \in [DOMAIN state.recipients -> LedgerUpTo(t)]
        BY <1>1, <1>4, LoadUpTo
    <2> QED  BY <1>4, <2>1 DEF PerRecipient
<1> HIDE DEF R
<1> QED  BY <1>3, <1>5 DEF from_state, LedgersUpTo, R

(* Writing to storage. *)
LEMMA ToStateUpTo ==
    ASSUME NEW t \in Nat, NEW L \in LedgersUpTo(t)
    PROVE  to_state(L) \in StoredUpTo(t)
<1>1. /\ L.global.entries \in EntriesUpTo(t) /\ L.calls.entries \in EntriesUpTo(t)
      /\ L.recipients \in PerRecipient(LedgerUpTo(t))
    BY DEF LedgersUpTo, LedgerUpTo
<1> DEFINE R == [r \in DOMAIN L.recipients |-> L.recipients[r].entries]
<1>2. /\ DOMAIN L.recipients \subseteq Address
      /\ \A r \in DOMAIN L.recipients : L.recipients[r] \in LedgerUpTo(t)
    BY <1>1, PerRecipientIs
<1>3. R \in PerRecipient(EntriesUpTo(t))
    <2>1. R \in [DOMAIN L.recipients -> EntriesUpTo(t)]
        BY <1>2 DEF LedgerUpTo
    <2> QED  BY <1>2, <2>1 DEF PerRecipient
<1> HIDE DEF R
<1> QED  BY <1>1, <1>3 DEF to_state, StoredUpTo, R

(* Pruning. *)
LEMMA PruneLedgersUpTo ==
    ASSUME NEW t \in Nat, NEW L \in LedgersUpTo(t), NEW w \in Nat
    PROVE  prune(L, t, w) \in LedgersUpTo(t)
<1>1. /\ L.global \in LedgerUpTo(t) /\ L.calls \in LedgerUpTo(t)
      /\ L.recipients \in PerRecipient(LedgerUpTo(t))
    BY DEF LedgersUpTo
<1>2. /\ DOMAIN L.recipients \subseteq Address
      /\ \A r \in DOMAIN L.recipients : L.recipients[r] \in LedgerUpTo(t)
    BY <1>1, PerRecipientIs
<1> DEFINE R == [r \in DOMAIN L.recipients |-> prune_entries(L.recipients[r], t, w)]
<1>3. R \in PerRecipient(LedgerUpTo(t))
    <2>1. R \in [DOMAIN L.recipients -> LedgerUpTo(t)]
        BY <1>2, PruneUpTo
    <2> QED  BY <1>2, <2>1 DEF PerRecipient
<1>4. /\ prune_entries(L.global, t, w) \in LedgerUpTo(t)
      /\ prune_protocol_call_entries(L.calls, t, w) \in LedgerUpTo(t)
    BY <1>1, PruneUpTo
<1> HIDE DEF R
<1> QED  BY <1>3, <1>4 DEF prune, LedgersUpTo, R

(* Admission of a spend, of a spend to a recipient, of a protocol call. *)
LEMMA AdmitLedgersUpTo ==
    ASSUME NEW t \in Nat \ {0}, NEW L \in LedgersUpTo(t), NEW amount \in Nat \ {0},
           NEW to \in Address
    PROVE  /\ admit(L, t, amount) \in LedgersUpTo(t)
           /\ admit_for_recipient(L, t, to, amount) \in LedgersUpTo(t)
           /\ admit_protocol_call(L, t) \in LedgersUpTo(t)
<1>0. I128_MAX \in Nat \ {0} /\ U32_MAX \in Nat \ {0} /\ t \in Nat /\ 1 \in Nat \ {0}
    BY WindowBounds
<1>1. /\ L.global \in LedgerUpTo(t) /\ L.calls \in LedgerUpTo(t)
      /\ L.recipients \in PerRecipient(LedgerUpTo(t))
    BY DEF LedgersUpTo
<1>2. /\ DOMAIN L.recipients \subseteq Address
      /\ \A r \in DOMAIN L.recipients : L.recipients[r] \in LedgerUpTo(t)
    BY <1>1, PerRecipientIs
<1>3. admit_to_ledger(L.global, t, amount, I128_MAX) \in LedgerUpTo(t)
    BY <1>0, <1>1, AdmitLedgerUpTo
<1>4. admit_to_ledger(L.calls, t, 1, U32_MAX) \in LedgerUpTo(t)
    BY <1>0, <1>1, AdmitLedgerUpTo
<1>5. RecipientLedger(L, to) \in LedgerUpTo(t)
    BY <1>0, <1>2, EmptyUpTo DEF RecipientLedger
<1>6. admit_to_ledger(RecipientLedger(L, to), t, amount, I128_MAX) \in LedgerUpTo(t)
    BY <1>0, <1>5, AdmitLedgerUpTo
<1> DEFINE R == [r \in DOMAIN L.recipients \union {to} |->
                    IF r = to THEN admit_to_ledger(RecipientLedger(L, to), t, amount, I128_MAX)
                    ELSE L.recipients[r]]
<1>7. R \in PerRecipient(LedgerUpTo(t))
    <2>1. R \in [DOMAIN L.recipients \union {to} -> LedgerUpTo(t)]
        BY <1>2, <1>6
    <2>2. DOMAIN L.recipients \union {to} \in SUBSET Address
        BY <1>2
    <2> HIDE DEF R
    <2> QED  BY <2>1, <2>2 DEF PerRecipient
<1> HIDE DEF R
<1>8. admit_for_recipient(L, t, to, amount) = [L EXCEPT !.recipients = R]
    BY DEF admit_for_recipient, R
<1>9. admit_for_recipient(L, t, to, amount) \in LedgersUpTo(t)
    BY <1>7, <1>8 DEF LedgersUpTo
<1>10. admit(L, t, amount) \in LedgersUpTo(t)
    BY <1>3 DEF admit, LedgersUpTo
<1>11. admit_protocol_call(L, t) \in LedgersUpTo(t)
    BY <1>4 DEF admit_protocol_call, LedgersUpTo
<1> QED  BY <1>9, <1>10, <1>11

-----------------------------------------------------------------------------
(* Verdicts *)

(* The answer of a decision table is Allowed or the reason of one of its   *)
(* rows, and Allowed only when no row applies.                             *)
LEMMA TableAnswer ==
    ASSUME NEW table, NEW n \in Nat, Len(table) = n,
           \A i \in 1..n : table[i][2] # Allowed
    PROVE  /\ FirstApplicable(table) = Allowed => \A i \in 1..n : ~ table[i][1]
           /\ \/ FirstApplicable(table) = Allowed
              \/ \E i \in 1..n : FirstApplicable(table) = table[i][2]
<1> DEFINE I == {i \in 1..Len(table) : table[i][1]}
           k == SelectInSeq(table, LAMBDA row : row[1])
<1>1. k = IF I # {} THEN Min(I) ELSE 0
    BY DEF SelectInSeq
<1>2. FirstApplicable(table) = IF k = 0 THEN Allowed ELSE table[k][2]
    BY DEF FirstApplicable
<1>3. I \subseteq Nat /\ I \subseteq 1..n
    OBVIOUS
<1>4. I # {} => Min(I) \in I
    <2> HIDE DEF I
    <2> QED  BY <1>3, MinIn
<1>5. I # {} => k \in 1..n /\ k # 0
    <2> HIDE DEF I, k
    <2> SUFFICES ASSUME I # {} PROVE k \in 1..n /\ k # 0
        OBVIOUS
    <2>1. k = Min(I)
        BY <1>1, Zenon
    <2>2. Min(I) \in 1..n
        BY <1>3, <1>4
    <2> QED  BY <2>1, <2>2
<1>6. (\A i \in 1..n : ~ table[i][1]) <=> I = {}
    OBVIOUS
<1> HIDE DEF I, k
<1> QED  BY <1>1, <1>2, <1>5, <1>6

(* A transfer is allowed only when no row of its table applies. *)
LEMMA TransferAnswer ==
    ASSUME NEW cfg, NEW ledger, NEW s, NEW call
    PROVE  /\ TransferVerdict(cfg, ledger, s, call) = Allowed =>
                  /\ ~ InvalidAmount(call.amount)
                  /\ cfg.window_cap > 0 =>
                        ~ ExceedsCap(ledger.global.total, s.pending, call.amount, cfg.window_cap)
                  /\ recipient_override_cap(cfg, call.to) # None =>
                        ~ ExceedsCap(recipient_total(ledger, call.to), StagedFor(s, call.to),
                                     call.amount, recipient_override_cap(cfg, call.to))
           /\ TransferVerdict(cfg, ledger, s, call) \in
                  {Allowed, "AssetNotAllowed", "InvalidAmount", "RecipientBlocked",
                   "RecipientNotAllowed", "PerTxCapExceeded", "WindowCapExceeded"}
<1> DEFINE perTx == effective_per_tx_cap(cfg, call.asset)
           recip == recipient_override_cap(cfg, call.to)
           over == \/ cfg.window_cap > 0
                      /\ ExceedsCap(ledger.global.total, s.pending, call.amount, cfg.window_cap)
                   \/ recip # None
                      /\ ExceedsCap(recipient_total(ledger, call.to), StagedFor(s, call.to),
                                    call.amount, recip)
           paused == AssetPaused(cfg, call.asset)
           invalid == InvalidAmount(call.amount)
           blocked == call.to \in ToSet(cfg.blocked_recipients)
           unknown == ~ cfg.allow_any_recipient /\ call.to \notin ToSet(cfg.recipients)
           large == perTx # None /\ call.amount > perTx
           table == <<<<paused, "AssetNotAllowed">>, <<invalid, "InvalidAmount">>,
                      <<blocked, "RecipientBlocked">>, <<unknown, "RecipientNotAllowed">>,
                      <<large, "PerTxCapExceeded">>, <<over, "WindowCapExceeded">>>>
<1>1. TransferVerdict(cfg, ledger, s, call) = FirstApplicable(table)
    BY DEF TransferVerdict
<1> HIDE DEF over, paused, invalid, blocked, unknown, large
<1>2. /\ Len(table) = 6
      /\ table[1][2] = "AssetNotAllowed" /\ table[2][2] = "InvalidAmount"
      /\ table[3][2] = "RecipientBlocked" /\ table[4][2] = "RecipientNotAllowed"
      /\ table[5][2] = "PerTxCapExceeded" /\ table[6][2] = "WindowCapExceeded"
    OBVIOUS
<1>3. (table[2][1] <=> invalid) /\ (table[6][1] <=> over)
    OBVIOUS
<1> HIDE DEF table
<1>4. \A i \in 1..6 : table[i][2] \in
          {"AssetNotAllowed", "InvalidAmount", "RecipientBlocked",
           "RecipientNotAllowed", "PerTxCapExceeded", "WindowCapExceeded"}
    BY <1>2
<1>5. \A i \in 1..6 : table[i][2] # Allowed
    BY <1>4 DEF Allowed
<1>6. /\ FirstApplicable(table) = Allowed => \A i \in 1..6 : ~ table[i][1]
      /\ FirstApplicable(table) = Allowed \/ \E i \in 1..6 : FirstApplicable(table) = table[i][2]
    BY <1>2, <1>5, TableAnswer
<1>7. FirstApplicable(table) = Allowed => ~ invalid /\ ~ over
    <2>1. 2 \in 1..6 /\ 6 \in 1..6
        OBVIOUS
    <2> QED  BY <1>3, <1>6, <2>1, Zenon
<1>8. FirstApplicable(table) \in
          {Allowed, "AssetNotAllowed", "InvalidAmount", "RecipientBlocked",
           "RecipientNotAllowed", "PerTxCapExceeded", "WindowCapExceeded"}
    BY <1>4, <1>6
<1> QED  BY <1>1, <1>7, <1>8, Zenon DEF invalid, over

(* A protocol call is allowed only within the rate limit, if there is one. *)
LEMMA ProtocolAnswer ==
    ASSUME NEW cfg, NEW ledger, NEW s, NEW call
    PROVE  /\ ProtocolVerdict(cfg, ledger, s, call) = Allowed =>
                  ~ (/\ cfg.protocol_calls_per_window > 0
                     /\ ProjectedCalls(ledger, s) > cfg.protocol_calls_per_window)
           /\ ProtocolVerdict(cfg, ledger, s, call) \in
                  {Allowed, "ProtocolNotAllowed", "FunctionNotAllowed", "ProtocolCallRateExceeded"}
<1> DEFINE rule == cfg.protocols[SelectInSeq(cfg.protocols, LAMBDA r : r.contract = call.contract)]
           paused == rule.paused
           unlisted == rule.fns # None /\ call.fn \notin ToSet(rule.fns)
           over == /\ cfg.protocol_calls_per_window > 0
                   /\ ProjectedCalls(ledger, s) > cfg.protocol_calls_per_window
           table == <<<<paused, "ProtocolNotAllowed">>, <<unlisted, "FunctionNotAllowed">>,
                      <<over, "ProtocolCallRateExceeded">>>>
<1>1. ProtocolVerdict(cfg, ledger, s, call) = FirstApplicable(table)
    BY DEF ProtocolVerdict
<1> HIDE DEF over, paused, unlisted
<1>2. /\ Len(table) = 3
      /\ table[1][2] = "ProtocolNotAllowed" /\ table[2][2] = "FunctionNotAllowed"
      /\ table[3][2] = "ProtocolCallRateExceeded"
    OBVIOUS
<1>3. table[3][1] <=> over
    OBVIOUS
<1> HIDE DEF table
<1>4. \A i \in 1..3 : table[i][2] \in
          {"ProtocolNotAllowed", "FunctionNotAllowed", "ProtocolCallRateExceeded"}
    BY <1>2
<1>5. \A i \in 1..3 : table[i][2] # Allowed
    BY <1>4 DEF Allowed
<1>6. /\ FirstApplicable(table) = Allowed => \A i \in 1..3 : ~ table[i][1]
      /\ FirstApplicable(table) = Allowed \/ \E i \in 1..3 : FirstApplicable(table) = table[i][2]
    BY <1>2, <1>5, TableAnswer
<1>7. FirstApplicable(table) = Allowed => ~ over
    <2>1. 3 \in 1..3
        OBVIOUS
    <2> QED  BY <1>3, <1>6, <2>1, Zenon
<1>8. FirstApplicable(table) \in
          {Allowed, "ProtocolNotAllowed", "FunctionNotAllowed", "ProtocolCallRateExceeded"}
    BY <1>4, <1>6
<1> QED  BY <1>1, <1>7, <1>8, Zenon DEF over

-----------------------------------------------------------------------------
(* Staging *)

Verdict ==
    {Allowed, "AssetNotAllowed", "InvalidAmount", "RecipientBlocked", "RecipientNotAllowed",
     "PerTxCapExceeded", "WindowCapExceeded", "ProtocolNotAllowed", "FunctionNotAllowed",
     "ProtocolCallRateExceeded", "SelfFunctionNotAllowed", "CreateContractNotAllowed",
     "UnknownContract", "AssetFnNotAllowed"}

(* What a request has staged: positive amounts, for finitely many          *)
(* recipients, and a number of calls.                                      *)
StagedAmounts == UNION {[D -> Nat \ {0}] : D \in {E \in SUBSET Address : IsFiniteSet(E)}}
Stage ==
    [verdicts : Seq(Verdict), admission : Seq(Nat \ {0}), pending : Nat,
     recipients : StagedAmounts, calls : Nat]

(* A context is parsed as one of six kinds; a transfer goes to an address  *)
(* and has an amount.                                                      *)
LEMMA ParsedCall ==
    ASSUME NEW ctx, NEW cfg
    PROVE  LET call == parse_call(ctx, cfg)
           IN  /\ call.kind \in {"CreateContract", "SelfCall", "AssetTransfer", "AssetOther",
                                 "Protocol", "Unknown"}
               /\ call.kind = "AssetTransfer" => call.to \in Address /\ call.amount \in I128
<1> DEFINE call == parse_call(ctx, cfg)
           idx == IF ctx.fn = "transfer" THEN 2 ELSE 3
           Good(c) == /\ c.kind \in {"CreateContract", "SelfCall", "AssetTransfer", "AssetOther",
                                     "Protocol", "Unknown"}
                      /\ c.kind = "AssetTransfer" => c.to \in Address /\ c.amount \in I128
<1>1. Good([kind |-> "CreateContract"]) /\ Good([kind |-> "SelfCall", fn |-> ctx.fn])
    OBVIOUS
<1>2. Good([kind |-> "AssetOther", asset |-> ctx.contract]) /\ Good(Unknown)
    BY DEF Unknown
<1>3. Good([kind |-> "Protocol", contract |-> ctx.contract, fn |-> ctx.fn])
    OBVIOUS
<1>4. ctx.args[idx] \in Address /\ ctx.args[idx + 1] \in I128 =>
          Good([kind |-> "AssetTransfer", asset |-> ctx.contract,
                to |-> ctx.args[idx], amount |-> ctx.args[idx + 1]])
    OBVIOUS
<1>5. ParseTransfer(ctx) = IF /\ Len(ctx.args) = idx + 1
                              /\ ctx.args[idx] \in Address
                              /\ ctx.args[idx + 1] \in I128
                           THEN [kind |-> "AssetTransfer", asset |-> ctx.contract,
                                 to |-> ctx.args[idx], amount |-> ctx.args[idx + 1]]
                           ELSE Unknown
    BY DEF ParseTransfer
<1> HIDE DEF Good, idx
<1>6. Good(ParseTransfer(ctx))
    BY <1>2, <1>4, <1>5, Zenon
<1>7. Good(call)
    BY <1>1, <1>2, <1>3, <1>6, Zenon DEF parse_call
<1> QED  BY <1>7 DEF Good

(* The answer to one context; what is allowed is a positive transfer, a    *)
(* heartbeat or a protocol call.                                           *)
LEMMA ContextAnswer ==
    ASSUME NEW cfg, NEW ledger, NEW s, NEW ctx
    PROVE  LET call == parse_call(ctx, cfg)
           IN  /\ ContextVerdict(cfg, ledger, s, call) \in Verdict
               /\ ContextVerdict(cfg, ledger, s, call) = Allowed /\ call.kind = "AssetTransfer"
                      => /\ call.to \in Address /\ call.amount \in Nat \ {0}
                         /\ TransferVerdict(cfg, ledger, s, call) = Allowed
               /\ ContextVerdict(cfg, ledger, s, call) = Allowed /\ call.kind = "Protocol"
                      => ProtocolVerdict(cfg, ledger, s, call) = Allowed
<1> DEFINE call == parse_call(ctx, cfg)
           v == ContextVerdict(cfg, ledger, s, call)
<1>1. /\ call.kind \in {"CreateContract", "SelfCall", "AssetTransfer", "AssetOther",
                        "Protocol", "Unknown"}
      /\ call.kind = "AssetTransfer" => call.to \in Address /\ call.amount \in I128
    BY ParsedCall
<1> HIDE DEF call
<1>2. CASE call.kind = "AssetTransfer"
    <2>1. v = TransferVerdict(cfg, ledger, s, call)
        BY <1>2 DEF ContextVerdict
    <2>2. v \in Verdict
        BY <2>1, TransferAnswer DEF Verdict
    <2>3. v = Allowed => call.amount \in Nat \ {0}
        <3>1. v = Allowed => ~ InvalidAmount(call.amount)
            BY <2>1, TransferAnswer
        <3>2. call.amount \in Int
            BY <1>1, <1>2, WindowBounds DEF I128
        <3> QED  BY <3>1, <3>2 DEF InvalidAmount
    <2> QED  BY <1>1, <1>2, <2>1, <2>2, <2>3 DEF call
<1>3. CASE call.kind = "Protocol"
    <2>1. v = ProtocolVerdict(cfg, ledger, s, call)
        BY <1>3 DEF ContextVerdict
    <2>2. v \in Verdict
        BY <2>1, ProtocolAnswer DEF Verdict
    <2> QED  BY <1>3, <2>1, <2>2 DEF call
<1>4. CASE call.kind = "SelfCall"
    <2>1. v = SelfVerdict(call.fn)
        BY <1>4 DEF ContextVerdict
    <2> QED  BY <1>4, <2>1 DEF call, SelfVerdict, Verdict
<1>5. CASE call.kind = "AssetOther"
    <2>1. v = IF AssetPaused(cfg, call.asset) THEN "AssetNotAllowed" ELSE "AssetFnNotAllowed"
        BY <1>5 DEF ContextVerdict
    <2> QED  BY <1>5, <2>1 DEF call, Verdict
<1>6. CASE call.kind = "CreateContract"
    <2>1. v = "CreateContractNotAllowed"
        BY <1>6 DEF ContextVerdict
    <2> QED  BY <1>6, <2>1 DEF call, Verdict
<1>7. CASE call.kind = "Unknown"
    <2>1. v = "UnknownContract"
        BY <1>7 DEF ContextVerdict
    <2> QED  BY <1>7, <2>1 DEF call, Verdict
<1> QED  BY <1>1, <1>2, <1>3, <1>4, <1>5, <1>6, <1>7 DEF call

(* Nothing is a stage. *)
LEMMA NothingIsStage == NothingStaged \in Stage
<1>1. <<>> \in StagedAmounts
    <2>1. DOMAIN <<>> = {} /\ <<>> = [x \in {} |-> x]
        OBVIOUS
    <2>2. IsFiniteSet({}) /\ {} \in SUBSET Address
        BY FS_EmptySet
    <2>3. <<>> \in [{} -> Nat \ {0}]
        BY <2>1
    <2> QED  BY <2>2, <2>3 DEF StagedAmounts
<1> QED  BY <1>1, EmptySeq DEF NothingStaged, Stage

(* One context more. *)
LEMMA EvalContextType ==
    ASSUME NEW cfg, NEW ledger, NEW s \in Stage, NEW ctx
    PROVE  EvalContext(cfg, ledger, s, ctx) \in Stage
<1> DEFINE call == parse_call(ctx, cfg)
           v == ContextVerdict(cfg, ledger, s, call)
           staged == IF v = Allowed THEN StageCall(cfg, s, call) ELSE s
<1>1. /\ v \in Verdict
      /\ v = Allowed /\ call.kind = "AssetTransfer"
             => call.to \in Address /\ call.amount \in Nat \ {0}
    BY ContextAnswer
<1>2. EvalContext(cfg, ledger, s, ctx) = [staged EXCEPT !.verdicts = Append(@, v)]
    BY DEF EvalContext
<1> HIDE DEF call
<1>3. v = Allowed => StageCall(cfg, s, call) \in Stage
    <2> HIDE DEF v
    <2> SUFFICES ASSUME v = Allowed PROVE StageCall(cfg, s, call) \in Stage
        OBVIOUS
    <2> DEFINE transfer == call.kind = "AssetTransfer"
               global == transfer /\ cfg.window_cap > 0
               recip == transfer /\ recipient_override_cap(cfg, call.to) # None
               metered == call.kind = "Protocol" /\ cfg.protocol_calls_per_window > 0
               adm == IF global THEN Append(s.admission, call.amount) ELSE s.admission
               pend == IF global THEN saturating_add(s.pending, call.amount, I128_MAX)
                       ELSE s.pending
               more == [r \in DOMAIN s.recipients \union {call.to} |->
                           IF r = call.to
                           THEN saturating_add(StagedFor(s, r), call.amount, I128_MAX)
                           ELSE s.recipients[r]]
               rec == IF recip THEN more ELSE s.recipients
               cal == IF metered THEN saturating_add(s.calls, 1, U32_MAX) ELSE s.calls
    <2>1. StageCall(cfg, s, call)
              = [s EXCEPT !.admission = adm, !.pending = pend, !.recipients = rec, !.calls = cal]
        BY DEF StageCall
    <2>2. /\ s.admission \in Seq(Nat \ {0}) /\ s.pending \in Nat /\ s.recipients \in StagedAmounts
          /\ s.calls \in Nat
        BY DEF Stage
    <2>3. transfer => call.to \in Address /\ call.amount \in Nat \ {0}
        BY <1>1
    <2> HIDE DEF transfer
    <2>4. global => transfer
        OBVIOUS
    <2>5. recip => transfer
        OBVIOUS
    <2> HIDE DEF global, recip, metered
    <2>6. adm \in Seq(Nat \ {0})
        BY <2>2, <2>3, <2>4, AppendProperties
    <2>7. pend \in Nat
        BY <2>2, <2>3, <2>4, WindowBounds DEF saturating_add
    <2>8. cal \in Nat
        BY <2>2, WindowBounds DEF saturating_add
    <2>9. rec \in StagedAmounts
        <3>1. CASE ~ recip
            BY <2>2, <3>1
        <3>2. CASE recip
            <4>1. PICK D \in SUBSET Address : IsFiniteSet(D) /\ s.recipients \in [D -> Nat \ {0}]
                BY <2>2 DEF StagedAmounts
            <4>2. DOMAIN s.recipients = D
                BY <4>1
            <4>3. call.to \in Address /\ call.amount \in Nat \ {0}
                BY <2>3, <2>5, <3>2
            <4>4. IsFiniteSet(D \union {call.to}) /\ D \union {call.to} \in SUBSET Address
                BY <4>1, <4>3, FS_AddElement
            <4>5. \A r \in D \union {call.to} : StagedFor(s, r) \in Nat
                BY <4>1, <4>2 DEF StagedFor
            <4>6. saturating_add(StagedFor(s, call.to), call.amount, I128_MAX) \in Nat \ {0}
                BY <4>3, <4>5, WindowBounds DEF saturating_add
            <4>7. more \in [D \union {call.to} -> Nat \ {0}]
                BY <4>1, <4>2, <4>6
            <4> HIDE DEF more
            <4> QED  BY <3>2, <4>4, <4>7 DEF StagedAmounts
        <3> QED  BY <3>1, <3>2
    <2> HIDE DEF adm, pend, rec, cal
    <2> QED  BY <2>1, <2>6, <2>7, <2>8, <2>9 DEF Stage
<1>4. staged \in Stage
    BY <1>3
<1> HIDE DEF staged, v
<1>5. Append(staged.verdicts, v) \in Seq(Verdict)
    BY <1>1, <1>4, AppendProperties DEF Stage
<1> QED  BY <1>2, <1>4, <1>5 DEF Stage

(* Every request builds up a stage context by context, whatever the        *)
(* contexts and the ledger.                                                *)
LEMMA OneStageDef ==
    ASSUME NEW cfg, NEW ledger, NEW X, NEW ctxs \in Seq(X)
    PROVE  LET F == OneStage(cfg, ledger, ctxs)
           IN  /\ F[{}] = NothingStaged
               /\ \A T \in SUBSET (1..Len(ctxs)) : T # {} =>
                      F[T] = EvalContext(cfg, ledger, F[T \ {Max(T)}], ctxs[Max(T)])
               /\ \A T \in SUBSET (1..Len(ctxs)) : F[T] \in Stage
<1> DEFINE n == Len(ctxs)
           step == [k \in 1..n |-> [s \in Stage |-> EvalContext(cfg, ledger, s, ctxs[k])]]
           Eq(f) == f = [T \in SUBSET (1..n) |->
                            IF T = {} THEN NothingStaged
                            ELSE EvalContext(cfg, ledger, f[T \ {Max(T)}], ctxs[Max(T)])]
           F == OneStage(cfg, ledger, ctxs)
<1>1. n \in Nat /\ DOMAIN ctxs = 1..n
    BY LenProperties
<1>2. step \in [1..n -> [Stage -> Stage]]
    BY EvalContextType
<1>3. \A k \in 1..n : \A s \in Stage : step[k][s] = EvalContext(cfg, ledger, s, ctxs[k])
    OBVIOUS
<1> HIDE DEF n, step
<1>4. FoldOf(1..n, Stage, NothingStaged, LastOf(n), step)
    <2>1. IsFiniteSet(1..n)
        BY <1>1, FS_Interval
    <2>2. \A T \in SUBSET (1..n) : T # {} => LastOf(n)[T] \in T
        BY <1>1, MaxIn DEF LastOf
    <2> QED  BY <1>2, <2>1, <2>2, NothingIsStage DEF FoldOf
<1>5. PICK g : IsIter(g, 1..n, Stage, NothingStaged, LastOf(n), step)
    BY <1>4, IterExists
<1>6. \A T \in SUBSET (1..n) : T # {} =>
          /\ LastOf(n)[T] = Max(T) /\ Max(T) \in 1..n /\ T \ {Max(T)} \in SUBSET (1..n)
    BY <1>1, MaxIn DEF LastOf
<1>7. \A T \in SUBSET (1..n) : T # {} =>
          g[T] = EvalContext(cfg, ledger, g[T \ {Max(T)}], ctxs[Max(T)])
    <2> SUFFICES ASSUME NEW T \in SUBSET (1..n), T # {}
                 PROVE  g[T] = EvalContext(cfg, ledger, g[T \ {Max(T)}], ctxs[Max(T)])
        OBVIOUS
    <2>1. g[T] = step[Max(T)][g[T \ {Max(T)}]] /\ g[T \ {Max(T)}] \in Stage
        BY <1>5, <1>6 DEF IsIter
    <2> QED  BY <1>3, <1>6, <2>1
<1>8. Eq(g)
    BY <1>5, <1>7 DEF IsIter
<1>9. Eq(F)
    BY <1>1, <1>8 DEF OneStage
<1> HIDE DEF F
<1>10. F[{}] = NothingStaged
       /\ \A T \in SUBSET (1..n) : T # {} =>
              F[T] = EvalContext(cfg, ledger, F[T \ {Max(T)}], ctxs[Max(T)])
    BY <1>9
<1>11. ASSUME NEW T \in SUBSET (1..n), T # {}, F[T \ {LastOf(n)[T]}] \in Stage
       PROVE  F[T] = step[LastOf(n)[T]][F[T \ {LastOf(n)[T]}]]
    <2>1. LastOf(n)[T] = Max(T) /\ Max(T) \in 1..n
        BY <1>6, <1>11
    <2>2. F[T] = EvalContext(cfg, ledger, F[T \ {Max(T)}], ctxs[Max(T)])
        BY <1>10, <1>11
    <2>3. F[T \ {Max(T)}] \in Stage
        BY <1>11, <2>1, Zenon
    <2>4. step[Max(T)][F[T \ {Max(T)}]] = EvalContext(cfg, ledger, F[T \ {Max(T)}], ctxs[Max(T)])
        BY <1>3, <2>1, <2>3
    <2> QED  BY <2>1, <2>2, <2>4, Zenon
<1>12. \A T \in SUBSET (1..n) : F[T] \in Stage
    <2>1. Follows(F, 1..n, Stage, NothingStaged, LastOf(n), step)
        BY <1>10, <1>11, Zenon DEF Follows
    <2> QED  BY <1>4, <2>1, IterTyped, Zenon
<1> QED  BY <1>10, <1>12 DEF F, n

(* The stages after each context, the last one being the answer. *)
LEMMA EvalRun ==
    ASSUME NEW cfg, NEW ledger, NEW X, NEW ctxs \in Seq(X)
    PROVE  \E r : /\ r[0] = NothingStaged
                  /\ \A k \in 0..Len(ctxs) : r[k] \in Stage
                  /\ \A k \in 1..Len(ctxs) : r[k] = EvalContext(cfg, ledger, r[k - 1], ctxs[k])
                  /\ EvalContexts(cfg, ledger, ctxs) = r[Len(ctxs)]
<1> DEFINE n == Len(ctxs)
           F == OneStage(cfg, ledger, ctxs)
<1>1. n \in Nat /\ DOMAIN ctxs = 1..n
    BY LenProperties
<1>2. /\ F[{}] = NothingStaged
      /\ \A T \in SUBSET (1..n) : T # {} =>
             F[T] = EvalContext(cfg, ledger, F[T \ {Max(T)}], ctxs[Max(T)])
      /\ \A T \in SUBSET (1..n) : F[T] \in Stage
    BY OneStageDef
<1>3. EvalContexts(cfg, ledger, ctxs) = F[1..n]
    BY <1>1, EvalContextsIsStage
<1> HIDE DEF F, n
<1> DEFINE r == [k \in 0..n |-> F[1..k]]
<1>4. r[0] = NothingStaged /\ r[n] = F[1..n]
    <2>1. 1..0 = {}
        OBVIOUS
    <2> QED  BY <1>1, <1>2, <2>1
<1>5. ASSUME NEW k \in 0..n PROVE r[k] \in Stage
    <2>1. 1..k \in SUBSET (1..n)
        BY <1>1
    <2> QED  BY <1>2, <2>1
<1>6. ASSUME NEW k \in 1..n PROVE r[k] = EvalContext(cfg, ledger, r[k - 1], ctxs[k])
    <2>1. /\ 1..k \in SUBSET (1..n) /\ 1..k # {} /\ Max(1..k) = k
          /\ (1..k) \ {Max(1..k)} = 1..(k - 1)
        <3>1. k \in Nat \ {0} /\ 1..k \in SUBSET (1..n) /\ 1..k # {}
            BY <1>1
        <3> QED  BY <3>1, MaxPrefix
    <2>2. F[1..k] = EvalContext(cfg, ledger, F[(1..k) \ {Max(1..k)}], ctxs[Max(1..k)])
        BY <1>2, <2>1
    <2>3. F[1..k] = EvalContext(cfg, ledger, F[1..(k - 1)], ctxs[k])
        BY <2>1, <2>2, Zenon
    <2>4. k \in 0..n /\ k - 1 \in 0..n
        BY <1>1
    <2>5. r[k] = F[1..k] /\ r[k - 1] = F[1..(k - 1)]
        BY <2>4
    <2> QED  BY <2>3, <2>5, Zenon
<1> HIDE DEF r
<1> QED  BY <1>3, <1>4, <1>5, <1>6 DEF n

(* So the answer is a stage. *)
LEMMA EvalContextsType ==
    ASSUME NEW cfg, NEW ledger, NEW X, NEW ctxs \in Seq(X)
    PROVE  EvalContexts(cfg, ledger, ctxs) \in Stage
<1>1. Len(ctxs) \in 0..Len(ctxs)
    BY LenProperties
<1> QED  BY <1>1, EvalRun

-----------------------------------------------------------------------------
(* Committing *)

(* The three folds of CommitStaged. *)
Spends(ledger, admission, t) ==
    FoldLeft(LAMBDA l, amount : admit(l, t, amount), ledger, admission)
Recips(ledger, staged, t) ==
    FoldSet(LAMBDA r, l : admit_for_recipient(l, t, r, staged[r]), ledger, DOMAIN staged)
Metered(ledger, n, t) ==
    FoldLeft(LAMBDA l, i : admit_protocol_call(l, t), ledger, [i \in 1..n |-> i])

(* What they compute on the way. *)
SpendsIter(ledger, admission, t) ==
    CHOOSE f : f = [T \in SUBSET (DOMAIN admission) |->
                       IF T = {} THEN ledger
                       ELSE admit(f[T \ {Max(T)}], t, admission[Max(T)])]
RecipsIter(ledger, staged, t) ==
    CHOOSE f : f = [T \in SUBSET (DOMAIN staged) |->
                       IF T = {} THEN ledger
                       ELSE admit_for_recipient(f[T \ {Choice(T)}], t, Choice(T),
                                                staged[Choice(T)])]
MeteredIter(ledger, n, t) ==
    CHOOSE f : f = [T \in SUBSET (1..n) |->
                       IF T = {} THEN ledger ELSE admit_protocol_call(f[T \ {Max(T)}], t)]

(* Each is the last of the ledgers it passes through. *)
LEMMA CommitIsIter ==
    ASSUME NEW ledger, NEW t
    PROVE  /\ \A admission : Spends(ledger, admission, t)
                                 = SpendsIter(ledger, admission, t)[DOMAIN admission]
           /\ \A staged : Recips(ledger, staged, t) = RecipsIter(ledger, staged, t)[DOMAIN staged]
           /\ \A n : Metered(ledger, n, t) = MeteredIter(ledger, n, t)[1..n]
<1>1. ASSUME NEW admission
      PROVE  Spends(ledger, admission, t) = SpendsIter(ledger, admission, t)[DOMAIN admission]
    BY DEF Spends, FoldLeft, MapThenFoldSet, SpendsIter
<1>2. ASSUME NEW staged
      PROVE  Recips(ledger, staged, t) = RecipsIter(ledger, staged, t)[DOMAIN staged]
    BY DEF Recips, FoldSet, MapThenFoldSet, RecipsIter, Choice
<1>3. ASSUME NEW n PROVE Metered(ledger, n, t) = MeteredIter(ledger, n, t)[1..n]
    <2> DEFINE s == [i \in 1..n |-> i]
    <2>1. DOMAIN s = 1..n
        OBVIOUS
    <2> HIDE DEF s
    <2>2. Metered(ledger, n, t) = FoldLeft(LAMBDA l, i : admit_protocol_call(l, t), ledger, s)
        BY DEF Metered, s
    <2>3. FoldLeft(LAMBDA l, i : admit_protocol_call(l, t), ledger, s)
              = (CHOOSE f : f = [T \in SUBSET (DOMAIN s) |->
                      IF T = {} THEN ledger ELSE admit_protocol_call(f[T \ {Max(T)}], t)])[DOMAIN s]
        BY DEF FoldLeft, MapThenFoldSet
    <2> QED  BY <2>1, <2>2, <2>3 DEF MeteredIter
<1> QED  BY <1>1, <1>2, <1>3

(* Spends, in request order. *)
LEMMA SpendsIterDef ==
    ASSUME NEW t \in Nat \ {0}, NEW ledger \in LedgersUpTo(t), NEW admission \in Seq(Nat \ {0})
    PROVE  LET F == SpendsIter(ledger, admission, t)
           IN  /\ F[{}] = ledger
               /\ \A T \in SUBSET (1..Len(admission)) : T # {} =>
                      F[T] = admit(F[T \ {Max(T)}], t, admission[Max(T)])
               /\ \A T \in SUBSET (1..Len(admission)) : F[T] \in LedgersUpTo(t)
<1> DEFINE A == LedgersUpTo(t)
           S == 1..Len(admission)
           pick == LastOf(Len(admission))
           step == [k \in S |-> [l \in A |-> admit(l, t, admission[k])]]
           Eq(f) == f = [T \in SUBSET S |->
                            IF T = {} THEN ledger
                            ELSE admit(f[T \ {Max(T)}], t, admission[Max(T)])]
           F == SpendsIter(ledger, admission, t)
<1>1. IsFiniteSet(S) /\ DOMAIN admission = S /\ Len(admission) \in Nat
    BY LenProperties, FS_Interval
<1>2. \A T \in SUBSET S : T # {} => pick[T] \in T /\ pick[T] = Max(T)
    BY <1>1, MaxIn DEF LastOf
<1>3. \A k \in S, l \in A : admit(l, t, admission[k]) \in A
    <2> SUFFICES ASSUME NEW k \in S, NEW l \in A PROVE admit(l, t, admission[k]) \in A
        OBVIOUS
    <2>1. admission[k] \in Nat \ {0}
        BY ElementOfSeq
    <2>2. Self \in Address
        BY PolicyConstants
    <2> QED  BY <2>1, <2>2, AdmitLedgersUpTo
<1>4. step \in [S -> [A -> A]]
    BY <1>3
<1>5. \A k \in S : \A l \in A : step[k][l] = admit(l, t, admission[k])
    OBVIOUS
<1> HIDE DEF S, A, step, pick
<1>6. ledger \in A
    BY DEF A
<1>7. FoldOf(S, A, ledger, pick, step)
    BY <1>1, <1>2, <1>4, <1>6 DEF FoldOf
<1>8. PICK g : IsIter(g, S, A, ledger, pick, step)
    BY <1>7, IterExists
<1>9. ASSUME NEW T \in SUBSET S, T # {}
      PROVE  g[T] = admit(g[T \ {Max(T)}], t, admission[Max(T)])
    <2>1. pick[T] \in T /\ pick[T] = Max(T) /\ Max(T) \in S /\ T \ {Max(T)} \in SUBSET S
        BY <1>2, <1>9
    <2>2. g[T] = step[pick[T]][g[T \ {pick[T]}]]
        BY <1>8, <1>9 DEF IsIter
    <2>3. g[T] = step[Max(T)][g[T \ {Max(T)}]] /\ g[T \ {Max(T)}] \in A
        BY <1>8, <2>1, <2>2 DEF IsIter
    <2> QED  BY <1>5, <2>1, <2>3
<1>10. Eq(g)
    BY <1>8, <1>9 DEF IsIter
<1>11. Eq(F)
    BY <1>1, <1>10 DEF SpendsIter
<1> HIDE DEF F
<1>12. /\ F[{}] = ledger
       /\ \A T \in SUBSET S : T # {} => F[T] = admit(F[T \ {Max(T)}], t, admission[Max(T)])
    BY <1>11
<1>13. ASSUME NEW T \in SUBSET S, T # {}, F[T \ {pick[T]}] \in A
       PROVE  F[T] = step[pick[T]][F[T \ {pick[T]}]]
    <2>1. pick[T] = Max(T) /\ Max(T) \in S
        BY <1>2, <1>13
    <2>2. F[T] = admit(F[T \ {Max(T)}], t, admission[Max(T)])
        BY <1>12, <1>13
    <2>3. F[T \ {Max(T)}] \in A
        BY <1>13, <2>1, Zenon
    <2>4. step[Max(T)][F[T \ {Max(T)}]] = admit(F[T \ {Max(T)}], t, admission[Max(T)])
        BY <1>5, <2>1, <2>3
    <2> QED  BY <2>1, <2>2, <2>4, Zenon
<1>14. Follows(F, S, A, ledger, pick, step)
    BY <1>12, <1>13, Zenon DEF Follows
<1>15. \A T \in SUBSET S : F[T] \in A
    BY <1>7, <1>14, IterTyped, Zenon
<1> QED  BY <1>12, <1>15 DEF F, A, S

(* What the spends make of a ledger is one. *)
LEMMA SpendsType ==
    ASSUME NEW t \in Nat \ {0}, NEW ledger \in LedgersUpTo(t), NEW admission \in Seq(Nat \ {0})
    PROVE  Spends(ledger, admission, t) \in LedgersUpTo(t)
<1>1. DOMAIN admission = 1..Len(admission)
    BY LenProperties
<1>2. SpendsIter(ledger, admission, t)[1..Len(admission)] \in LedgersUpTo(t)
    BY SpendsIterDef
<1> QED  BY <1>1, <1>2, CommitIsIter

(* Then the recipients, in any order. *)
LEMMA RecipsIterDef ==
    ASSUME NEW t \in Nat \ {0}, NEW ledger \in LedgersUpTo(t), NEW staged \in StagedAmounts
    PROVE  LET F == RecipsIter(ledger, staged, t)
           IN  /\ F[{}] = ledger
               /\ \A T \in SUBSET (DOMAIN staged) : T # {} =>
                      F[T] = admit_for_recipient(F[T \ {Choice(T)}], t, Choice(T),
                                                 staged[Choice(T)])
               /\ \A T \in SUBSET (DOMAIN staged) : F[T] \in LedgersUpTo(t)
<1> DEFINE A == LedgersUpTo(t)
           S == DOMAIN staged
           pick == [T \in SUBSET S |-> Choice(T)]
           step == [k \in S |-> [l \in A |-> admit_for_recipient(l, t, k, staged[k])]]
           Eq(f) == f = [T \in SUBSET S |->
                            IF T = {} THEN ledger
                            ELSE admit_for_recipient(f[T \ {Choice(T)}], t, Choice(T),
                                                staged[Choice(T)])]
           F == RecipsIter(ledger, staged, t)
<1>1. /\ IsFiniteSet(S) /\ DOMAIN staged = S /\ S \subseteq Address
      /\ \A k \in S : staged[k] \in Nat \ {0}
    BY DEF StagedAmounts
<1>2. \A T \in SUBSET S : T # {} => pick[T] \in T /\ pick[T] = Choice(T)
    BY DEF Choice
<1>3. \A k \in S, l \in A : admit_for_recipient(l, t, k, staged[k]) \in A
    BY <1>1, AdmitLedgersUpTo
<1>4. step \in [S -> [A -> A]]
    BY <1>3
<1>5. \A k \in S : \A l \in A : step[k][l] = admit_for_recipient(l, t, k, staged[k])
    OBVIOUS
<1> HIDE DEF S, A, step, pick
<1>6. ledger \in A
    BY DEF A
<1>7. FoldOf(S, A, ledger, pick, step)
    BY <1>1, <1>2, <1>4, <1>6 DEF FoldOf
<1>8. PICK g : IsIter(g, S, A, ledger, pick, step)
    BY <1>7, IterExists
<1>9. ASSUME NEW T \in SUBSET S, T # {}
      PROVE  g[T] = admit_for_recipient(g[T \ {Choice(T)}], t, Choice(T), staged[Choice(T)])
    <2>1. pick[T] \in T /\ pick[T] = Choice(T) /\ Choice(T) \in S /\ T \ {Choice(T)} \in SUBSET S
        BY <1>2, <1>9
    <2>2. g[T] = step[pick[T]][g[T \ {pick[T]}]]
        BY <1>8, <1>9 DEF IsIter
    <2>3. g[T] = step[Choice(T)][g[T \ {Choice(T)}]] /\ g[T \ {Choice(T)}] \in A
        BY <1>8, <2>1, <2>2 DEF IsIter
    <2> QED  BY <1>5, <2>1, <2>3
<1>10. Eq(g)
    BY <1>8, <1>9 DEF IsIter
<1>11. Eq(F)
    BY <1>1, <1>10 DEF RecipsIter
<1> HIDE DEF F
<1>12. /\ F[{}] = ledger
       /\ \A T \in SUBSET S : T # {} =>
              F[T] = admit_for_recipient(F[T \ {Choice(T)}], t, Choice(T), staged[Choice(T)])
    BY <1>11
<1>13. ASSUME NEW T \in SUBSET S, T # {}, F[T \ {pick[T]}] \in A
       PROVE  F[T] = step[pick[T]][F[T \ {pick[T]}]]
    <2>1. pick[T] = Choice(T) /\ Choice(T) \in S
        BY <1>2, <1>13
    <2>2. F[T] = admit_for_recipient(F[T \ {Choice(T)}], t, Choice(T), staged[Choice(T)])
        BY <1>12, <1>13
    <2>3. F[T \ {Choice(T)}] \in A
        BY <1>13, <2>1, Zenon
    <2>4. step[Choice(T)][F[T \ {Choice(T)}]]
              = admit_for_recipient(F[T \ {Choice(T)}], t, Choice(T), staged[Choice(T)])
        BY <1>5, <2>1, <2>3
    <2> QED  BY <2>1, <2>2, <2>4, Zenon
<1>14. Follows(F, S, A, ledger, pick, step)
    BY <1>12, <1>13, Zenon DEF Follows
<1>15. \A T \in SUBSET S : F[T] \in A
    BY <1>7, <1>14, IterTyped, Zenon
<1> QED  BY <1>12, <1>15 DEF F, A, S

(* What the recipients make of it is one. *)
LEMMA RecipsType ==
    ASSUME NEW t \in Nat \ {0}, NEW ledger \in LedgersUpTo(t), NEW staged \in StagedAmounts
    PROVE  Recips(ledger, staged, t) \in LedgersUpTo(t)
<1>1. RecipsIter(ledger, staged, t)[DOMAIN staged] \in LedgersUpTo(t)
    BY RecipsIterDef
<1> QED  BY <1>1, CommitIsIter

(* Then the protocol calls, one by one. *)
LEMMA MeteredIterDef ==
    ASSUME NEW t \in Nat \ {0}, NEW ledger \in LedgersUpTo(t), NEW n \in Nat
    PROVE  LET F == MeteredIter(ledger, n, t)
           IN  /\ F[{}] = ledger
               /\ \A T \in SUBSET (1..n) : T # {} =>
                      F[T] = admit_protocol_call(F[T \ {Max(T)}], t)
               /\ \A T \in SUBSET (1..n) : F[T] \in LedgersUpTo(t)
<1> DEFINE A == LedgersUpTo(t)
           S == 1..n
           pick == LastOf(n)
           step == [k \in S |-> [l \in A |-> admit_protocol_call(l, t)]]
           Eq(f) == f = [T \in SUBSET S |->
                            IF T = {} THEN ledger
                            ELSE admit_protocol_call(f[T \ {Max(T)}], t)]
           F == MeteredIter(ledger, n, t)
<1>1. IsFiniteSet(S) /\ S = 1..n
    BY FS_Interval
<1>2. \A T \in SUBSET S : T # {} => pick[T] \in T /\ pick[T] = Max(T)
    BY MaxIn DEF LastOf
<1>3. \A k \in S, l \in A : admit_protocol_call(l, t) \in A
    <2> SUFFICES ASSUME NEW l \in A PROVE admit_protocol_call(l, t) \in A
        OBVIOUS
    <2>1. Self \in Address /\ 1 \in Nat \ {0}
        BY PolicyConstants
    <2> QED  BY <2>1, AdmitLedgersUpTo
<1>4. step \in [S -> [A -> A]]
    BY <1>3
<1>5. \A k \in S : \A l \in A : step[k][l] = admit_protocol_call(l, t)
    OBVIOUS
<1> HIDE DEF S, A, step, pick
<1>6. ledger \in A
    BY DEF A
<1>7. FoldOf(S, A, ledger, pick, step)
    BY <1>1, <1>2, <1>4, <1>6 DEF FoldOf
<1>8. PICK g : IsIter(g, S, A, ledger, pick, step)
    BY <1>7, IterExists
<1>9. ASSUME NEW T \in SUBSET S, T # {}
      PROVE  g[T] = admit_protocol_call(g[T \ {Max(T)}], t)
    <2>1. pick[T] \in T /\ pick[T] = Max(T) /\ Max(T) \in S /\ T \ {Max(T)} \in SUBSET S
        BY <1>2, <1>9
    <2>2. g[T] = step[pick[T]][g[T \ {pick[T]}]]
        BY <1>8, <1>9 DEF IsIter
    <2>3. g[T] = step[Max(T)][g[T \ {Max(T)}]] /\ g[T \ {Max(T)}] \in A
        BY <1>8, <2>1, <2>2 DEF IsIter
    <2> QED  BY <1>5, <2>1, <2>3
<1>10. Eq(g)
    BY <1>8, <1>9 DEF IsIter
<1>11. Eq(F)
    BY <1>1, <1>10 DEF MeteredIter
<1> HIDE DEF F
<1>12. /\ F[{}] = ledger
       /\ \A T \in SUBSET S : T # {} => F[T] = admit_protocol_call(F[T \ {Max(T)}], t)
    BY <1>11
<1>13. ASSUME NEW T \in SUBSET S, T # {}, F[T \ {pick[T]}] \in A
       PROVE  F[T] = step[pick[T]][F[T \ {pick[T]}]]
    <2>1. pick[T] = Max(T) /\ Max(T) \in S
        BY <1>2, <1>13
    <2>2. F[T] = admit_protocol_call(F[T \ {Max(T)}], t)
        BY <1>12, <1>13
    <2>3. F[T \ {Max(T)}] \in A
        BY <1>13, <2>1, Zenon
    <2>4. step[Max(T)][F[T \ {Max(T)}]] = admit_protocol_call(F[T \ {Max(T)}], t)
        BY <1>5, <2>1, <2>3
    <2> QED  BY <2>1, <2>2, <2>4, Zenon
<1>14. Follows(F, S, A, ledger, pick, step)
    BY <1>12, <1>13, Zenon DEF Follows
<1>15. \A T \in SUBSET S : F[T] \in A
    BY <1>7, <1>14, IterTyped, Zenon
<1> QED  BY <1>12, <1>15 DEF F, A, S

(* And so is what the calls make of it. *)
LEMMA MeteredType ==
    ASSUME NEW t \in Nat \ {0}, NEW ledger \in LedgersUpTo(t), NEW n \in Nat
    PROVE  Metered(ledger, n, t) \in LedgersUpTo(t)
<1>1. MeteredIter(ledger, n, t)[1..n] \in LedgersUpTo(t)
    BY MeteredIterDef
<1> QED  BY <1>1, CommitIsIter

(* Committing a stage makes a ledger of a ledger. *)
LEMMA CommitType ==
    ASSUME NEW t \in Nat \ {0}, NEW ledger \in LedgersUpTo(t), NEW s \in Stage
    PROVE  CommitStaged(ledger, s, t) \in LedgersUpTo(t)
<1>1. s.admission \in Seq(Nat \ {0}) /\ s.recipients \in StagedAmounts /\ s.calls \in Nat
    BY DEF Stage
<1> DEFINE spends == Spends(ledger, s.admission, t)
           recips == Recips(spends, s.recipients, t)
<1>2. CommitStaged(ledger, s, t) = Metered(recips, s.calls, t)
    BY DEF CommitStaged, Spends, Recips, Metered
<1>3. spends \in LedgersUpTo(t)
    BY <1>1, SpendsType
<1> HIDE DEF spends
<1>4. recips \in LedgersUpTo(t)
    BY <1>1, <1>3, RecipsType
<1> HIDE DEF recips
<1> QED  BY <1>1, <1>2, <1>4, MeteredType

(* What decide leaves of a ledger is one, whatever is asked of it. *)
LEMMA DecideType ==
    ASSUME NEW policy \in PolicyConfig \union {None}, NEW frozen, NEW last,
           NEW t \in Nat \ {0}, NEW ledger \in LedgersUpTo(t), NEW X, NEW ctxs \in Seq(X)
    PROVE  decide(policy, frozen, last, ledger, t, ctxs).ledger \in LedgersUpTo(t)
<1> DEFINE gate == AccountGate(policy, frozen, last, t)
           live == IF PrunesWindow(policy) THEN prune(ledger, t, policy.window_secs) ELSE ledger
           s == EvalContexts(policy, live, ctxs)
           D == decide(policy, frozen, last, ledger, t, ctxs)
<1>1. CASE Len(ctxs) > MAX_AUTH_CONTEXTS \/ gate # Allowed
    <2>1. D.ledger = ledger
        BY <1>1 DEF decide
    <2> QED  BY <2>1
<1>2. CASE ~ (Len(ctxs) > MAX_AUTH_CONTEXTS) /\ gate = Allowed
    <2>1. D.ledger = IF AllAllowed(s.verdicts) THEN CommitStaged(live, s, t) ELSE live
        BY <1>2 DEF decide
    <2>2. policy # None
        BY <1>2 DEF AccountGate, Allowed
    <2>3. policy.window_secs \in Nat
        BY <2>2 DEF PolicyConfig
    <2>4. live \in LedgersUpTo(t)
        BY <2>3, PruneLedgersUpTo
    <2> HIDE DEF live
    <2>5. s \in Stage
        BY EvalContextsType
    <2> HIDE DEF s
    <2> QED  BY <2>1, <2>4, <2>5, CommitType
<1> QED  BY <1>1, <1>2

-----------------------------------------------------------------------------
(* What committing does to the global ledger *)

(* One spend more is admitted after the others. *)
LEMMA SpendsAppend ==
    ASSUME NEW t \in Nat \ {0}, NEW ledger \in LedgersUpTo(t), NEW admission \in Seq(Nat \ {0}),
           NEW a \in Nat \ {0}
    PROVE  /\ Spends(ledger, <<>>, t) = ledger
           /\ Spends(ledger, Append(admission, a), t) = admit(Spends(ledger, admission, t), t, a)
<1> DEFINE n == Len(admission)
           more == Append(admission, a)
           F == SpendsIter(ledger, admission, t)
           H == SpendsIter(ledger, more, t)
           S == 1..n
           G == {T \in SUBSET S : H[T] = F[T]}
<1>0. n \in Nat
    BY LenProperties
<1>1. /\ n \in Nat /\ DOMAIN admission = 1..n
      /\ more \in Seq(Nat \ {0}) /\ Len(more) = n + 1 /\ DOMAIN more = 1..(n + 1)
      /\ more[n + 1] = a /\ \A i \in 1..n : more[i] = admission[i]
    BY LenProperties, AppendProperties
<1>2. Spends(ledger, <<>>, t) = ledger
    <2>1. <<>> \in Seq(Nat \ {0}) /\ DOMAIN <<>> = {}
        BY EmptySeq
    <2>2. SpendsIter(ledger, <<>>, t)[{}] = ledger
        BY <2>1, SpendsIterDef
    <2> QED  BY <2>1, <2>2, CommitIsIter
<1>3. /\ F[{}] = ledger
      /\ \A T \in SUBSET (1..n) : T # {} => F[T] = admit(F[T \ {Max(T)}], t, admission[Max(T)])
    BY SpendsIterDef
<1>4. /\ H[{}] = ledger
      /\ \A T \in SUBSET (1..(n + 1)) : T # {} => H[T] = admit(H[T \ {Max(T)}], t, more[Max(T)])
    <2> HIDE DEF more, n
    <2>1. /\ H[{}] = ledger
          /\ \A T \in SUBSET (1..Len(more)) : T # {} =>
                 H[T] = admit(H[T \ {Max(T)}], t, more[Max(T)])
        BY <1>1, SpendsIterDef, ZenonT(60)
    <2> QED  BY <1>1, <2>1, Zenon
<1> HIDE DEF more, n
<1>5. Spends(ledger, admission, t) = F[1..n] /\ Spends(ledger, more, t) = H[1..(n + 1)]
    <2>1. Spends(ledger, admission, t) = F[DOMAIN admission]
        BY CommitIsIter
    <2>2. Spends(ledger, more, t) = H[DOMAIN more]
        BY CommitIsIter
    <2> HIDE DEF F, H
    <2> QED  BY <1>1, <2>1, <2>2
<1> HIDE DEF F, H
<1> HIDE DEF S
<1>6. {} \in G
    BY <1>3, <1>4
<1>7. ASSUME NEW T \in SUBSET S, T # {}, \A x \in T : T \ {x} \in G PROVE T \in G
    <2>1. Max(T) \in T
        BY <1>0, <1>7, MaxIn DEF S
    <2>2. T \in SUBSET (1..(n + 1)) /\ more[Max(T)] = admission[Max(T)]
        <3>1. S \subseteq 1..(n + 1)
            BY <1>0, PrefixGrows DEF S
        <3>2. \A i \in S : more[i] = admission[i]
            BY <1>1 DEF S
        <3> QED  BY <2>1, <3>1, <3>2
    <2>3. H[T] = admit(H[T \ {Max(T)}], t, more[Max(T)])
        BY <1>4, <1>7, <2>2
    <2>4. F[T] = admit(F[T \ {Max(T)}], t, admission[Max(T)])
        BY <1>3, <1>7 DEF S
    <2>5. H[T \ {Max(T)}] = F[T \ {Max(T)}]
        BY <1>7, <2>1
    <2>6. H[T] = F[T]
        BY <2>2, <2>3, <2>4, <2>5, Zenon
    <2> QED  BY <2>6
<1>8. S \in G
    <2>1. IsFiniteSet(S)
        BY <1>0, FS_Interval DEF S
    <2> HIDE DEF G
    <2> QED  BY <1>6, <1>7, <2>1, SubsetInduction
<1>9. /\ 1..(n + 1) # {} /\ Max(1..(n + 1)) = n + 1 /\ (1..(n + 1)) \ {Max(1..(n + 1))} = 1..n
    BY <1>0, PrefixGrows
<1>10. H[1..(n + 1)] = admit(H[(1..(n + 1)) \ {Max(1..(n + 1))}], t, more[Max(1..(n + 1))])
    BY <1>4, <1>9
<1>11. H[1..(n + 1)] = admit(H[1..n], t, a)
    BY <1>1, <1>9, <1>10, Zenon
<1>12. H[1..n] = F[1..n]
    BY <1>8 DEF S
<1>13. Spends(ledger, more, t) = admit(Spends(ledger, admission, t), t, a)
    BY <1>5, <1>11, <1>12, Zenon
<1> QED  BY <1>2, <1>13 DEF more

(* Neither the recipients nor the calls touch it. *)
LEMMA OnlySpendsAreGlobal ==
    ASSUME NEW t \in Nat \ {0}, NEW ledger \in LedgersUpTo(t), NEW staged \in StagedAmounts,
           NEW n \in Nat
    PROVE  /\ Recips(ledger, staged, t).global = ledger.global
           /\ Metered(ledger, n, t).global = ledger.global
<1>1. ASSUME NEW L \in LedgersUpTo(t), NEW to, NEW a
      PROVE  /\ admit_for_recipient(L, t, to, a).global = L.global
             /\ admit_protocol_call(L, t).global = L.global
    BY DEF LedgersUpTo, admit_for_recipient, admit_protocol_call
<1>2. Recips(ledger, staged, t).global = ledger.global
    <2> DEFINE S == DOMAIN staged
               F == RecipsIter(ledger, staged, t)
               G == {T \in SUBSET S : F[T].global = ledger.global}
    <2>1. /\ F[{}] = ledger
          /\ \A T \in SUBSET S : T # {} =>
                 F[T] = admit_for_recipient(F[T \ {Choice(T)}], t, Choice(T), staged[Choice(T)])
          /\ \A T \in SUBSET S : F[T] \in LedgersUpTo(t)
        BY RecipsIterDef
    <2>2. Recips(ledger, staged, t) = F[S]
        BY CommitIsIter
    <2>3. IsFiniteSet(S)
        BY DEF StagedAmounts
    <2> HIDE DEF S, F
    <2>4. {} \in G
        BY <2>1
    <2>5. ASSUME NEW T \in SUBSET S, T # {}, \A x \in T : T \ {x} \in G PROVE T \in G
        <3>1. Choice(T) \in T
            BY <2>5 DEF Choice
        <3>2. F[T \ {Choice(T)}] \in LedgersUpTo(t) /\ F[T \ {Choice(T)}].global = ledger.global
            BY <2>1, <2>5, <3>1
        <3>3. F[T] = admit_for_recipient(F[T \ {Choice(T)}], t, Choice(T), staged[Choice(T)])
            BY <2>1, <2>5
        <3>4. F[T].global = ledger.global
            BY <1>1, <3>2, <3>3
        <3> QED  BY <3>4
    <2>6. S \in G
        <3> HIDE DEF G
        <3> QED  BY <2>3, <2>4, <2>5, SubsetInduction
    <2> QED  BY <2>2, <2>6
<1>3. Metered(ledger, n, t).global = ledger.global
    <2> DEFINE S == 1..n
               F == MeteredIter(ledger, n, t)
               G == {T \in SUBSET S : F[T].global = ledger.global}
    <2>1. /\ F[{}] = ledger
          /\ \A T \in SUBSET S : T # {} => F[T] = admit_protocol_call(F[T \ {Max(T)}], t)
          /\ \A T \in SUBSET S : F[T] \in LedgersUpTo(t)
        BY MeteredIterDef
    <2>2. Metered(ledger, n, t) = F[S]
        BY CommitIsIter
    <2>3. IsFiniteSet(S) /\ \A T \in SUBSET S : T # {} => Max(T) \in T
        <3>1. IsFiniteSet(S)
            BY FS_Interval
        <3>2. \A T \in SUBSET S : T # {} => Max(T) \in T
            BY MaxIn
        <3> QED  BY <3>1, <3>2
    <2> HIDE DEF S, F
    <2>4. {} \in G
        BY <2>1
    <2>5. ASSUME NEW T \in SUBSET S, T # {}, \A x \in T : T \ {x} \in G PROVE T \in G
        <3>1. Max(T) \in T
            BY <2>3, <2>5
        <3>2. F[T \ {Max(T)}] \in LedgersUpTo(t) /\ F[T \ {Max(T)}].global = ledger.global
            BY <2>1, <2>5, <3>1
        <3>3. F[T] = admit_protocol_call(F[T \ {Max(T)}], t)
            BY <2>1, <2>5
        <3>4. F[T].global = ledger.global
            BY <1>1, <3>2, <3>3
        <3> QED  BY <3>4
    <2>6. S \in G
        <3> HIDE DEF G
        <3> QED  BY <2>3, <2>4, <2>5, SubsetInduction
    <2> QED  BY <2>2, <2>6
<1> QED  BY <1>2, <1>3

-----------------------------------------------------------------------------
(* What a request pays *)

(* What is staged for the recipients when `to` is paid `amount` more. *)
MoreFor(s, to, amount) ==
    [r \in DOMAIN s.recipients \union {to} |->
        IF r = to THEN saturating_add(StagedFor(s, r), amount, I128_MAX) ELSE s.recipients[r]]

(* One context more is allowed only when all before it were, and then this *)
(* is what it adds to the stage.                                           *)
LEMMA OneMoreAllowed ==
    ASSUME NEW cfg, NEW ledger, NEW s \in Stage, NEW ctx,
           AllAllowed(EvalContext(cfg, ledger, s, ctx).verdicts)
    PROVE  LET call == parse_call(ctx, cfg)
               e == EvalContext(cfg, ledger, s, ctx)
               global == call.kind = "AssetTransfer" /\ cfg.window_cap > 0
               own == call.kind = "AssetTransfer" /\ recipient_override_cap(cfg, call.to) # None
           IN  /\ AllAllowed(s.verdicts)
               /\ ContextVerdict(cfg, ledger, s, call) = Allowed
               /\ e.admission = IF global THEN Append(s.admission, call.amount) ELSE s.admission
               /\ e.pending = IF global THEN saturating_add(s.pending, call.amount, I128_MAX)
                              ELSE s.pending
               /\ e.recipients = IF own THEN MoreFor(s, call.to, call.amount) ELSE s.recipients
<1> DEFINE call == parse_call(ctx, cfg)
           v == ContextVerdict(cfg, ledger, s, call)
           staged == IF v = Allowed THEN StageCall(cfg, s, call) ELSE s
           e == EvalContext(cfg, ledger, s, ctx)
           n == Len(s.verdicts)
           more == Append(s.verdicts, v)
<1>1. e = [staged EXCEPT !.verdicts = Append(@, v)]
    BY DEF EvalContext
<1>2. v \in Verdict
    BY ContextAnswer
<1>3. /\ s \in [verdicts : Seq(Verdict), admission : Seq(Nat \ {0}), pending : Nat,
               recipients : StagedAmounts, calls : Nat]
      /\ s.verdicts \in Seq(Verdict)
    BY DEF Stage
<1>4. /\ n \in Nat /\ DOMAIN s.verdicts = 1..n
      /\ DOMAIN more = 1..(n + 1) /\ more[n + 1] = v
      /\ \A i \in 1..n : more[i] = s.verdicts[i]
    <2> HIDE DEF v
    <2> QED  BY <1>2, <1>3, LenProperties, AppendProperties
<1> HIDE DEF v, call, n
<1>5. /\ "verdicts" \in DOMAIN StageCall(cfg, s, call)
      /\ StageCall(cfg, s, call).verdicts = s.verdicts
      /\ DOMAIN StageCall(cfg, s, call) = DOMAIN s
    BY <1>3 DEF StageCall
<1>6. /\ e.verdicts = more /\ e.admission = staged.admission /\ e.pending = staged.pending
      /\ e.recipients = staged.recipients
    <2> HIDE DEF e
    <2>1. CASE v = Allowed
        BY <1>1, <1>3, <1>5, <2>1
    <2>2. CASE v # Allowed
        BY <1>1, <1>3, <2>2
    <2> QED  BY <2>1, <2>2
<1> HIDE DEF more
<1>7. n \in Nat => n + 1 \in 1..(n + 1) /\ 1..n \subseteq 1..(n + 1)
    BY PrefixGrows
<1>8. v = Allowed /\ AllAllowed(s.verdicts)
    BY <1>4, <1>6, <1>7 DEF AllAllowed
<1>9. staged = StageCall(cfg, s, call)
    BY <1>8
<1>10. /\ StageCall(cfg, s, call).admission
              = IF call.kind = "AssetTransfer" /\ cfg.window_cap > 0
                THEN Append(s.admission, call.amount) ELSE s.admission
       /\ StageCall(cfg, s, call).pending
              = IF call.kind = "AssetTransfer" /\ cfg.window_cap > 0
                THEN saturating_add(s.pending, call.amount, I128_MAX) ELSE s.pending
       /\ StageCall(cfg, s, call).recipients
              = IF call.kind = "AssetTransfer" /\ recipient_override_cap(cfg, call.to) # None
                THEN MoreFor(s, call.to, call.amount) ELSE s.recipients
    BY <1>3 DEF StageCall, MoreFor
<1> QED  BY <1>6, <1>8, <1>9, <1>10 DEF e, v, call

(* The transfers among the first k contexts, and what they add up to.      *)
Transfers(cfg, ctxs, k) == {i \in 1..k : parse_call(ctxs[i], cfg).kind = "AssetTransfer"}
Amounts(cfg, ctxs) == [i \in DOMAIN ctxs |-> parse_call(ctxs[i], cfg).amount]
Paying(cfg, ctxs, k) == SumFunctionOnSet(Amounts(cfg, ctxs), Transfers(cfg, ctxs, k))

(* The spends up to each second when `a` more is spent in second t. *)
Plus(c, t, a) == [u \in 0..t |-> IF u = t THEN c[t] + a ELSE c[u]]

(* The stage after k allowed contexts: what is pending is what they pay,   *)
(* it fits under the cap, and admitting it covers it.                      *)
StageCovers(cfg, live, c, t, ctxs, k, s) ==
    LET paying == Paying(cfg, ctxs, k)
        global == Spends(live, s.admission, t).global
    IN  /\ \A i \in Transfers(cfg, ctxs, k) : Amounts(cfg, ctxs)[i] \in Nat \ {0}
        /\ paying \in Nat
        /\ s.pending = paying
        /\ live.global.total + paying <= I128_MAX
        /\ Transfers(cfg, ctxs, k) # {} => live.global.total + paying <= cfg.window_cap
        /\ Covered(global, Plus(c, t, paying), t, cfg.window_secs, I128_MAX)
        /\ global.total = live.global.total + paying

(* The sum over one context more. *)
LEMMA PayingStep ==
    ASSUME NEW cfg, NEW X, NEW ctxs \in Seq(X), NEW k \in Nat, k + 1 \in 1..Len(ctxs),
           \A i \in Transfers(cfg, ctxs, k) : Amounts(cfg, ctxs)[i] \in Nat \ {0}
    PROVE  LET call == parse_call(ctxs[k + 1], cfg)
           IN  /\ call.kind # "AssetTransfer" =>
                      Transfers(cfg, ctxs, k + 1) = Transfers(cfg, ctxs, k)
               /\ call.kind = "AssetTransfer" /\ call.amount \in Nat \ {0} =>
                      /\ Paying(cfg, ctxs, k + 1) = Paying(cfg, ctxs, k) + call.amount
                      /\ \A i \in Transfers(cfg, ctxs, k + 1) :
                             Amounts(cfg, ctxs)[i] \in Nat \ {0}
<1> DEFINE call == parse_call(ctxs[k + 1], cfg)
           f == Amounts(cfg, ctxs)
           J == Transfers(cfg, ctxs, k)
           J2 == Transfers(cfg, ctxs, k + 1)
           S == 1..k
           S2 == 1..(k + 1)
<1>1. S2 = S \union {k + 1} /\ k + 1 \notin S
    BY PrefixGrows
<1>2. f[k + 1] = call.amount
    <2>1. k + 1 \in DOMAIN ctxs
        BY LenProperties
    <2> QED  BY <2>1 DEF Amounts
<1>3. /\ J = {i \in S : parse_call(ctxs[i], cfg).kind = "AssetTransfer"}
      /\ J2 = {i \in S2 : parse_call(ctxs[i], cfg).kind = "AssetTransfer"}
    BY DEF Transfers
<1>4. IsFiniteSet(J) /\ IsFiniteSet(J2)
    <2>1. IsFiniteSet(S) /\ IsFiniteSet(S2)
        BY FS_Interval
    <2> QED  BY <1>3, <2>1, FS_Subset
<1>5. /\ Paying(cfg, ctxs, k) = SumFunctionOnSet(f, J)
      /\ Paying(cfg, ctxs, k + 1) = SumFunctionOnSet(f, J2)
    BY DEF Paying
<1> HIDE DEF S, S2, f, J, J2
<1>6. call.kind # "AssetTransfer" => J2 = J
    BY <1>1, <1>3
<1>7. ASSUME call.kind = "AssetTransfer", call.amount \in Nat \ {0}
      PROVE  /\ Paying(cfg, ctxs, k + 1) = Paying(cfg, ctxs, k) + call.amount
             /\ \A i \in J2 : f[i] \in Nat \ {0}
    <2>1. k + 1 \in J2 /\ J2 \ {k + 1} = J /\ J2 = J \union {k + 1}
        BY <1>1, <1>3, <1>7
    <2>2. \A i \in J : f[i] \in Nat \ {0}
        BY DEF f, J
    <2>3. \A i \in J2 : f[i] \in Nat \ {0}
        BY <1>2, <1>7, <2>1, <2>2
    <2>4. /\ SumFunctionOnSet(f, J2) = f[k + 1] + SumFunctionOnSet(f, J2 \ {k + 1})
          /\ SumFunctionOnSet(f, J) \in Nat
        BY <1>4, <2>1, <2>2, <2>3, SumRemove
    <2>5. SumFunctionOnSet(f, J2) = f[k + 1] + SumFunctionOnSet(f, J)
        BY <2>1, <2>4, Zenon
    <2> QED  BY <1>2, <1>5, <1>7, <2>3, <2>4, <2>5
<1> QED  BY <1>6, <1>7 DEF J, J2, f

(* One allowed context more keeps it so. *)
LEMMA StageStep ==
    ASSUME NEW cfg \in PolicyConfig, cfg.window_cap > 0, NEW t \in Nat \ {0},
           NEW live \in LedgersUpTo(t), NEW c,
           Covered(live.global, c, t, cfg.window_secs, I128_MAX),
           NEW X, NEW ctxs \in Seq(X), NEW k \in Nat, k + 1 \in 1..Len(ctxs),
           NEW s \in Stage, StageCovers(cfg, live, c, t, ctxs, k, s),
           AllAllowed(EvalContext(cfg, live, s, ctxs[k + 1]).verdicts)
    PROVE  StageCovers(cfg, live, c, t, ctxs, k + 1, EvalContext(cfg, live, s, ctxs[k + 1]))
<1> DEFINE call == parse_call(ctxs[k + 1], cfg)
           e == EvalContext(cfg, live, s, ctxs[k + 1])
           a == call.amount
           w == cfg.window_secs
           base == live.global.total
           P == Paying(cfg, ctxs, k)
           P2 == Paying(cfg, ctxs, k + 1)
           g == Spends(live, s.admission, t).global
           g2 == Spends(live, e.admission, t).global
<1>1. /\ ContextVerdict(cfg, live, s, call) = Allowed
      /\ e.admission = IF call.kind = "AssetTransfer" THEN Append(s.admission, a) ELSE s.admission
      /\ e.pending = IF call.kind = "AssetTransfer" THEN saturating_add(s.pending, a, I128_MAX)
                     ELSE s.pending
    BY OneMoreAllowed
<1>2. /\ \A i \in Transfers(cfg, ctxs, k) : Amounts(cfg, ctxs)[i] \in Nat \ {0}
      /\ P \in Nat /\ s.pending = P /\ base + P <= I128_MAX
      /\ Transfers(cfg, ctxs, k) # {} => base + P <= cfg.window_cap
      /\ Covered(g, Plus(c, t, P), t, w, I128_MAX) /\ g.total = base + P
    BY DEF StageCovers
<1>3. /\ call.kind # "AssetTransfer" => Transfers(cfg, ctxs, k + 1) = Transfers(cfg, ctxs, k)
      /\ call.kind = "AssetTransfer" /\ a \in Nat \ {0} =>
             /\ P2 = P + a
             /\ \A i \in Transfers(cfg, ctxs, k + 1) : Amounts(cfg, ctxs)[i] \in Nat \ {0}
    BY <1>2, PayingStep
<1>4. CASE call.kind # "AssetTransfer"
    <2>1. P2 = P
        BY <1>3, <1>4, Zenon DEF Paying
    <2>2. e.admission = s.admission /\ e.pending = s.pending
        BY <1>1, <1>4
    <2>3. g2 = g /\ Transfers(cfg, ctxs, k + 1) = Transfers(cfg, ctxs, k)
        BY <1>3, <1>4, <2>2, Zenon
    <2> HIDE DEF P, P2, g, g2, e
    <2>4. /\ \A i \in Transfers(cfg, ctxs, k + 1) : Amounts(cfg, ctxs)[i] \in Nat \ {0}
          /\ P2 \in Nat /\ e.pending = P2 /\ base + P2 <= I128_MAX
          /\ Transfers(cfg, ctxs, k + 1) # {} => base + P2 <= cfg.window_cap
          /\ Covered(g2, Plus(c, t, P2), t, w, I128_MAX) /\ g2.total = base + P2
        BY <1>2, <2>1, <2>2, <2>3, Zenon
    <2> QED  BY <2>4, Zenon DEF StageCovers, P2, g2, e
<1>5. CASE call.kind = "AssetTransfer"
    <2>1. a \in Nat \ {0} /\ ~ ExceedsCap(base, s.pending, a, cfg.window_cap)
        BY <1>1, <1>5, ContextAnswer, TransferAnswer
    <2>2. /\ I128_MAX \in Nat \ {0} /\ base \in Nat /\ cfg.window_cap \in Int
          /\ \A u \in 0..t : c[u] \in Nat
        <3>1. base \in 0..I128_MAX
            BY CoveredTotal
        <3>2. \A u \in 0..t : c[u] \in Nat
            BY DEF Covered, Accounts
        <3> QED  BY <3>1, <3>2, WindowBounds, SMTT(30) DEF PolicyConfig
    <2>3. P2 = P + a
        BY <1>3, <1>5, <2>1
    <2> HIDE DEF P, P2, g, g2, e, a, base, w, call
    <2>4. base + P2 <= I128_MAX /\ base + P2 <= cfg.window_cap /\ P2 \in Nat
        BY <1>2, <2>1, <2>2, <2>3 DEF ExceedsCap
    <2>5. e.pending = P2
        <3>1. e.pending = saturating_add(P, a, I128_MAX)
            BY <1>1, <1>2, <1>5
        <3> QED  BY <1>2, <2>1, <2>2, <2>3, <2>4, <3>1 DEF saturating_add
    <2>6. e.admission = Append(s.admission, a) /\ s.admission \in Seq(Nat \ {0})
        BY <1>1, <1>5 DEF Stage
    <2>7. g2 = admit_to_ledger(g, t, a, I128_MAX)
        <3> DEFINE L == Spends(live, s.admission, t)
        <3>1. Spends(live, e.admission, t) = admit(L, t, a)
            <4>1. Spends(live, Append(s.admission, a), t) = admit(L, t, a)
                BY <2>1, <2>6, SpendsAppend
            <4> QED  BY <2>6, <4>1, Zenon
        <3>2. L \in LedgersUpTo(t)
            BY <2>6, SpendsType
        <3> HIDE DEF L
        <3>3. admit(L, t, a).global = admit_to_ledger(L.global, t, a, I128_MAX)
            BY <3>2 DEF admit, LedgersUpTo
        <3> QED  BY <3>1, <3>3, Zenon DEF g, g2, L
    <2>8. Adds(Plus(c, t, P), Plus(c, t, P2), t, a)
        BY <1>2, <2>1, <2>2, <2>3, <2>4, SMTT(30) DEF Adds, Plus
    <2>9. g.total + a <= I128_MAX /\ g.total + a = base + P2
        BY <1>2, <2>1, <2>2, <2>3, <2>4, SMTT(30)
    <2>10. /\ Covered(admit_to_ledger(g, t, a, I128_MAX), Plus(c, t, P2), t, w, I128_MAX)
           /\ admit_to_ledger(g, t, a, I128_MAX).total = g.total + a
        BY <1>2, <2>1, <2>8, <2>9, AdmitCovers
    <2>11. Covered(g2, Plus(c, t, P2), t, w, I128_MAX) /\ g2.total = base + P2
        BY <2>7, <2>9, <2>10, Zenon
    <2>12. \A i \in Transfers(cfg, ctxs, k + 1) : Amounts(cfg, ctxs)[i] \in Nat \ {0}
        BY <1>3, <1>5, <2>1
    <2> QED  BY <2>4, <2>5, <2>11, <2>12, Zenon DEF StageCovers, P2, g2, e, base, w
<1> QED  BY <1>4, <1>5

(* So a request that is allowed leaves such a stage. *)
LEMMA StageRun ==
    ASSUME NEW cfg \in PolicyConfig, cfg.window_cap > 0, NEW t \in Nat \ {0},
           NEW live \in LedgersUpTo(t), NEW c,
           Covered(live.global, c, t, cfg.window_secs, I128_MAX),
           NEW X, NEW ctxs \in Seq(X), AllAllowed(EvalContexts(cfg, live, ctxs).verdicts)
    PROVE  StageCovers(cfg, live, c, t, ctxs, Len(ctxs), EvalContexts(cfg, live, ctxs))
<1> DEFINE n == Len(ctxs)
<1>1. n \in Nat
    BY LenProperties
<1>2. PICK r : /\ r[0] = NothingStaged
               /\ \A k \in 0..n : r[k] \in Stage
               /\ \A k \in 1..n : r[k] = EvalContext(cfg, live, r[k - 1], ctxs[k])
               /\ EvalContexts(cfg, live, ctxs) = r[n]
    BY EvalRun
<1> DEFINE Good(k) == AllAllowed(r[k].verdicts) => StageCovers(cfg, live, c, t, ctxs, k, r[k])
           N == {k \in Nat : k <= n => Good(k)}
<1>3. \A u \in 0..t : c[u] \in Nat
    BY DEF Covered, Accounts
<1>4. Good(0)
    <2>1. Transfers(cfg, ctxs, 0) = {}
        <3>1. 1..0 = {}
            OBVIOUS
        <3> QED  BY <3>1 DEF Transfers
    <2>2. Paying(cfg, ctxs, 0) = 0
        BY <2>1, FS_EmptySet, SumRemove DEF Paying
    <2>3. r[0].pending = 0 /\ r[0].admission = <<>>
        BY <1>2 DEF NothingStaged
    <2>4. Spends(live, r[0].admission, t) = live
        <3>1. <<>> \in Seq(Nat \ {0}) /\ 1 \in Nat \ {0}
            BY EmptySeq
        <3>2. Spends(live, <<>>, t) = live
            BY <3>1, SpendsAppend
        <3> QED  BY <2>3, <3>2, Zenon
    <2>5. Adds(c, Plus(c, t, 0), t, 0)
        BY <1>3 DEF Adds, Plus
    <2>6. Covered(live.global, Plus(c, t, 0), t, cfg.window_secs, I128_MAX)
        BY <2>5, CoversLess
    <2>7. live.global.total \in 0..I128_MAX
        BY CoveredTotal
    <2>8. live.global.total + 0 <= I128_MAX /\ live.global.total = live.global.total + 0 /\ 0 \in Nat
        BY <2>7, WindowBounds
    <2> QED  BY <2>1, <2>2, <2>3, <2>4, <2>6, <2>8, Zenon DEF StageCovers
<1>5. ASSUME NEW k \in Nat, k \in N PROVE k + 1 \in N
    <2> SUFFICES ASSUME k + 1 <= n, AllAllowed(r[k + 1].verdicts)
                 PROVE  StageCovers(cfg, live, c, t, ctxs, k + 1, r[k + 1])
        OBVIOUS
    <2>1. k + 1 \in 1..n /\ k \in 0..n /\ (k + 1) - 1 = k
        BY <1>1
    <2>2. r[k + 1] = EvalContext(cfg, live, r[k], ctxs[k + 1]) /\ r[k] \in Stage
        BY <1>2, <2>1
    <2>3. AllAllowed(r[k].verdicts)
        <3> DEFINE s == r[k]
                   ctx == ctxs[k + 1]
        <3>1. s \in Stage /\ AllAllowed(EvalContext(cfg, live, s, ctx).verdicts)
            BY <2>2, Zenon
        <3> HIDE DEF s, ctx
        <3>2. AllAllowed(s.verdicts)
            BY <3>1, OneMoreAllowed
        <3> QED  BY <3>2 DEF s
    <2>4. StageCovers(cfg, live, c, t, ctxs, k, r[k])
        BY <1>1, <1>5, <2>1, <2>3
    <2>5. AllAllowed(EvalContext(cfg, live, r[k], ctxs[k + 1]).verdicts)
        BY <2>2, Zenon
    <2> HIDE DEF Good
    <2>6. StageCovers(cfg, live, c, t, ctxs, k + 1, EvalContext(cfg, live, r[k], ctxs[k + 1]))
        BY <2>1, <2>2, <2>4, <2>5, StageStep
    <2> QED  BY <2>2, <2>6, Zenon
<1> HIDE DEF Good
<1>6. 0 \in N
    BY <1>4
<1>7. Nat \subseteq N
    <2> HIDE DEF N
    <2> QED  BY <1>5, <1>6, SetInduction
<1>8. Good(n)
    BY <1>1, <1>7
<1> QED  BY <1>2, <1>8, Zenon DEF Good

(* What an allowed request pays are positive amounts, whatever the caps.   *)
LEMMA AllowedAmounts ==
    ASSUME NEW cfg, NEW live, NEW X, NEW ctxs \in Seq(X),
           AllAllowed(EvalContexts(cfg, live, ctxs).verdicts)
    PROVE  \A i \in Transfers(cfg, ctxs, Len(ctxs)) : Amounts(cfg, ctxs)[i] \in Nat \ {0}
<1> DEFINE n == Len(ctxs)
           Positive(k) == \A i \in Transfers(cfg, ctxs, k) : Amounts(cfg, ctxs)[i] \in Nat \ {0}
<1>1. n \in Nat
    BY LenProperties
<1>2. PICK r : /\ r[0] = NothingStaged
               /\ \A k \in 0..n : r[k] \in Stage
               /\ \A k \in 1..n : r[k] = EvalContext(cfg, live, r[k - 1], ctxs[k])
               /\ EvalContexts(cfg, live, ctxs) = r[n]
    BY EvalRun
<1> DEFINE Good(k) == AllAllowed(r[k].verdicts) => Positive(k)
           N == {k \in Nat : k <= n => Good(k)}
<1>3. Good(0)
    <2>1. 1..0 = {}
        OBVIOUS
    <2> QED  BY <2>1 DEF Transfers
<1>4. ASSUME NEW k \in Nat, k \in N PROVE k + 1 \in N
    <2> SUFFICES ASSUME k + 1 <= n, AllAllowed(r[k + 1].verdicts)
                 PROVE  Positive(k + 1)
        OBVIOUS
    <2> DEFINE s == r[k]
               ctx == ctxs[k + 1]
               call == parse_call(ctx, cfg)
    <2>1. k + 1 \in 1..n /\ k \in 0..n /\ (k + 1) - 1 = k
        BY <1>1
    <2>2. r[k + 1] = EvalContext(cfg, live, r[k], ctxs[k + 1]) /\ s \in Stage
        BY <1>2, <2>1
    <2>3. AllAllowed(EvalContext(cfg, live, s, ctx).verdicts)
        BY <2>2, Zenon
    <2>4. AllAllowed(s.verdicts) /\ ContextVerdict(cfg, live, s, call) = Allowed
        <3> HIDE DEF s, ctx
        <3> QED  BY <2>2, <2>3, OneMoreAllowed
    <2>5. Positive(k)
        BY <1>1, <1>4, <2>1, <2>4
    <2>6. call.kind = "AssetTransfer" => call.amount \in Nat \ {0}
        <3> HIDE DEF s, ctx
        <3> QED  BY <2>4, ContextAnswer
    <2>7. CASE call.kind # "AssetTransfer"
        <3>1. Transfers(cfg, ctxs, k + 1) = Transfers(cfg, ctxs, k)
            BY <2>1, <2>5, <2>7, PayingStep
        <3> QED  BY <2>5, <3>1, Zenon
    <2>8. CASE call.kind = "AssetTransfer"
        BY <2>1, <2>5, <2>6, <2>8, PayingStep
    <2> QED  BY <2>7, <2>8
<1> HIDE DEF Good
<1>5. 0 \in N
    BY <1>3
<1>6. Nat \subseteq N
    <2> HIDE DEF N
    <2> QED  BY <1>4, <1>5, SetInduction
<1>7. Good(n)
    BY <1>1, <1>6
<1> QED  BY <1>2, <1>7, Zenon DEF Good

(* A request that is allowed passed the bound and the gate, and what it    *)
(* staged is committed to the pruned ledger.                               *)
LEMMA DecideAllowed ==
    ASSUME NEW cfg, NEW frozen, NEW last, NEW t, NEW ledger, NEW ctxs, 1 \in DOMAIN ctxs,
           AllAllowed(decide(cfg, frozen, last, ledger, t, ctxs).verdicts)
    PROVE  LET live == IF PrunesWindow(cfg) THEN prune(ledger, t, cfg.window_secs) ELSE ledger
               s == EvalContexts(cfg, live, ctxs)
           IN  /\ AllAllowed(s.verdicts)
               /\ decide(cfg, frozen, last, ledger, t, ctxs).ledger = CommitStaged(live, s, t)
<1> DEFINE gate == AccountGate(cfg, frozen, last, t)
           live == IF PrunesWindow(cfg) THEN prune(ledger, t, cfg.window_secs) ELSE ledger
           s == EvalContexts(cfg, live, ctxs)
           D == decide(cfg, frozen, last, ledger, t, ctxs)
<1>1. ~ (Len(ctxs) > MAX_AUTH_CONTEXTS)
    <2> SUFFICES ASSUME Len(ctxs) > MAX_AUTH_CONTEXTS PROVE FALSE
        OBVIOUS
    <2>1. D.verdicts = <<"TooManyAuthContexts">>
        BY DEF decide
    <2> HIDE DEF D
    <2>2. 1 \in DOMAIN D.verdicts /\ D.verdicts[1] = "TooManyAuthContexts"
        BY <2>1
    <2>3. AllAllowed(D.verdicts)
        BY DEF D
    <2> QED  BY <2>2, <2>3 DEF AllAllowed, Allowed
<1>2. gate = Allowed
    <2> SUFFICES ASSUME gate # Allowed PROVE FALSE
        OBVIOUS
    <2>1. D.verdicts = [i \in DOMAIN ctxs |-> gate]
        BY <1>1 DEF decide
    <2>2. AllAllowed([i \in DOMAIN ctxs |-> gate])
        BY <2>1, Zenon
    <2> HIDE DEF D, gate
    <2> QED  BY <2>2 DEF AllAllowed
<1>3. D = [verdicts |-> s.verdicts,
           ledger |-> IF AllAllowed(s.verdicts) THEN CommitStaged(live, s, t) ELSE live]
    BY <1>1, <1>2 DEF decide
<1>4. AllAllowed(s.verdicts) /\ D.ledger = CommitStaged(live, s, t)
    <2>1. AllAllowed(D.verdicts)
        OBVIOUS
    <2> HIDE DEF D, s, live
    <2> QED  BY <1>3, <2>1
<1> QED  BY <1>4

(* Committing does to the global ledger what its spends do. *)
LEMMA CommitGlobal ==
    ASSUME NEW t \in Nat \ {0}, NEW live \in LedgersUpTo(t), NEW s \in Stage
    PROVE  CommitStaged(live, s, t).global = Spends(live, s.admission, t).global
<1>1. s.admission \in Seq(Nat \ {0}) /\ s.recipients \in StagedAmounts /\ s.calls \in Nat
    BY DEF Stage
<1> DEFINE spends == Spends(live, s.admission, t)
           recips == Recips(spends, s.recipients, t)
<1>2. CommitStaged(live, s, t) = Metered(recips, s.calls, t)
    BY DEF CommitStaged, Spends, Recips, Metered
<1>3. spends \in LedgersUpTo(t)
    BY <1>1, SpendsType
<1> HIDE DEF spends
<1>4. recips \in LedgersUpTo(t) /\ recips.global = spends.global
    BY <1>1, <1>3, RecipsType, OnlySpendsAreGlobal
<1> HIDE DEF recips
<1>5. Metered(recips, s.calls, t).global = recips.global
    BY <1>1, <1>4, OnlySpendsAreGlobal
<1> QED  BY <1>2, <1>4, <1>5, Zenon DEF spends

(* An allowed request: the ledger it leaves covers what it pays, together  *)
(* with what the pruned ledger covered, and is within the cap if it pays   *)
(* anything.                                                               *)
LEMMA DecideCoversLive ==
    ASSUME NEW cfg \in PolicyConfig, cfg.window_cap > 0, NEW frozen, NEW last,
           NEW t \in Nat \ {0}, NEW ledger \in LedgersUpTo(t), NEW c,
           Covered(prune_entries(ledger.global, t, cfg.window_secs), c, t, cfg.window_secs, I128_MAX),
           NEW X, NEW ctxs \in Seq(X), 1 \in DOMAIN ctxs,
           AllAllowed(decide(cfg, frozen, last, ledger, t, ctxs).verdicts)
    PROVE  LET paying == Paying(cfg, ctxs, Len(ctxs))
               global == decide(cfg, frozen, last, ledger, t, ctxs).ledger.global
           IN  /\ \A i \in Transfers(cfg, ctxs, Len(ctxs)) : Amounts(cfg, ctxs)[i] \in Nat \ {0}
               /\ paying \in Nat
               /\ Covered(global, Plus(c, t, paying), t, cfg.window_secs, I128_MAX)
               /\ Transfers(cfg, ctxs, Len(ctxs)) # {} => global.total <= cfg.window_cap
<1> DEFINE live == prune(ledger, t, cfg.window_secs)
           s == EvalContexts(cfg, live, ctxs)
           D == decide(cfg, frozen, last, ledger, t, ctxs)
<1>1. PrunesWindow(cfg)
    BY DEF PrunesWindow
<1>2. AllAllowed(s.verdicts) /\ D.ledger = CommitStaged(live, s, t)
    BY <1>1, DecideAllowed
<1>3. cfg.window_secs \in Nat
    BY DEF PolicyConfig
<1>4. live \in LedgersUpTo(t)
    BY <1>3, PruneLedgersUpTo
<1>5. Covered(live.global, c, t, cfg.window_secs, I128_MAX)
    <2>1. live.global = prune_entries(ledger.global, t, cfg.window_secs)
        BY DEF prune
    <2> QED  BY <2>1, Zenon
<1> HIDE DEF live, D
<1>6. StageCovers(cfg, live, c, t, ctxs, Len(ctxs), s)
    BY <1>2, <1>4, <1>5, StageRun
<1>7. s \in Stage
    BY EvalContextsType
<1> HIDE DEF s
<1>8. D.ledger.global = Spends(live, s.admission, t).global
    <2>1. CommitStaged(live, s, t).global = Spends(live, s.admission, t).global
        BY <1>4, <1>7, CommitGlobal
    <2> QED  BY <1>2, <2>1, Zenon
<1> DEFINE P == Paying(cfg, ctxs, Len(ctxs))
           g == D.ledger.global
<1>9. /\ \A i \in Transfers(cfg, ctxs, Len(ctxs)) : Amounts(cfg, ctxs)[i] \in Nat \ {0}
      /\ P \in Nat
      /\ Covered(g, Plus(c, t, P), t, cfg.window_secs, I128_MAX)
      /\ g.total = live.global.total + P
      /\ Transfers(cfg, ctxs, Len(ctxs)) # {} => live.global.total + P <= cfg.window_cap
    <2> HIDE DEF P
    <2> QED  BY <1>6, <1>8, Zenon DEF StageCovers, P
<1>10. Transfers(cfg, ctxs, Len(ctxs)) # {} => g.total <= cfg.window_cap
    <2> HIDE DEF P, g
    <2> QED  BY <1>9
<1> QED  BY <1>9, <1>10, Zenon DEF D

(* Pruning loses no cover, so the same holds of what the loaded ledger     *)
(* covered.                                                                *)
LEMMA DecideCovers ==
    ASSUME NEW cfg \in PolicyConfig, cfg.window_cap > 0, NEW frozen, NEW last,
           NEW t \in Nat \ {0}, NEW ledger \in LedgersUpTo(t), NEW c,
           Covered(ledger.global, c, t, cfg.window_secs, I128_MAX),
           NEW X, NEW ctxs \in Seq(X), 1 \in DOMAIN ctxs,
           AllAllowed(decide(cfg, frozen, last, ledger, t, ctxs).verdicts)
    PROVE  LET paying == Paying(cfg, ctxs, Len(ctxs))
               global == decide(cfg, frozen, last, ledger, t, ctxs).ledger.global
           IN  /\ \A i \in Transfers(cfg, ctxs, Len(ctxs)) : Amounts(cfg, ctxs)[i] \in Nat \ {0}
               /\ paying \in Nat
               /\ Covered(global, Plus(c, t, paying), t, cfg.window_secs, I128_MAX)
               /\ Transfers(cfg, ctxs, Len(ctxs)) # {} => global.total <= cfg.window_cap
<1>1. Covered(prune_entries(ledger.global, t, cfg.window_secs), c, t, cfg.window_secs, I128_MAX)
    BY PruneCovers
<1> QED  BY <1>1, DecideCoversLive

-----------------------------------------------------------------------------
(* The budget that is left *)

(* A request never leaves less in the window than was there, and a reload  *)
(* or a prune of what it leaves loses nothing.                             *)
LEMMA DecideKeepsTotal ==
    ASSUME NEW cfg \in PolicyConfig, cfg.window_cap > 0, NEW frozen, NEW last,
           NEW t \in Nat \ {0}, NEW ledger \in LedgersUpTo(t),
           Tallied(ledger.global, t, I128_MAX),
           NEW X, NEW ctxs \in Seq(X), 1 \in DOMAIN ctxs,
           AllAllowed(decide(cfg, frozen, last, ledger, t, ctxs).verdicts)
    PROVE  LET w == cfg.window_secs
               global == decide(cfg, frozen, last, ledger, t, ctxs).ledger.global
           IN  /\ prune_entries(ledger.global, t, w).total \in Nat
               /\ prune_entries(global, t, w).total \in Nat
               /\ prune_entries(ledger.global, t, w).total <= prune_entries(global, t, w).total
<1> DEFINE w == cfg.window_secs
           live == prune_entries(ledger.global, t, w)
           g == decide(cfg, frozen, last, ledger, t, ctxs).ledger.global
           P == Paying(cfg, ctxs, Len(ctxs))
<1>1. w \in Nat
    BY DEF PolicyConfig
<1>2. Covered(ledger.global, Silence, t, w, I128_MAX)
    BY <1>1, TalliedCovers
<1>3. Covered(live, Silence, t, w, I128_MAX)
    BY <1>2, PruneCovers
<1>4. w # 0 => \A i \in 1..Len(live.entries) : live.entries[i].ts + w > t
    BY <1>2, PrunedIsLive
<1>5. PICK c : \E u \in 0..(t - 1) : /\ Covered(live, c, t, w, I128_MAX) /\ Starts(u, t, w)
                                     /\ c[u] = 0 /\ c[t] = live.total
    <2> HIDE DEF live, w
    <2> QED  BY <1>3, <1>4, OwnSpends
<1>6. PICK u \in 0..(t - 1) : /\ Covered(live, c, t, w, I128_MAX) /\ Starts(u, t, w)
                              /\ c[u] = 0 /\ c[t] = live.total
    BY <1>5
<1>7. P \in Nat /\ Covered(g, Plus(c, t, P), t, w, I128_MAX)
    BY <1>6, DecideCoversLive
<1> HIDE DEF P, g, live, w
<1>8. Covered(prune_entries(g, t, w), Plus(c, t, P), t, w, I128_MAX)
    BY <1>7, PruneCovers
<1>9. /\ live.total \in 0..I128_MAX /\ prune_entries(g, t, w).total \in 0..I128_MAX
      /\ Plus(c, t, P)[t] - Plus(c, t, P)[u] <= prune_entries(g, t, w).total
    <2>1. u \in 0..t
        OBVIOUS
    <2> QED  BY <1>6, <1>8, <2>1, CoveredTotal
<1>10. Plus(c, t, P)[t] = live.total + P /\ Plus(c, t, P)[u] = 0
    <2>1. t \in 0..t /\ u \in 0..t /\ u # t
        OBVIOUS
    <2> QED  BY <1>6, <2>1 DEF Plus
<1> QED  BY <1>7, <1>9, <1>10, WindowBounds DEF g, live, w

(* Without a window cap nothing is admitted to the global ledger. *)
LEMMA NothingAdmitted ==
    ASSUME NEW cfg, ~ (cfg.window_cap > 0), NEW live, NEW X, NEW ctxs \in Seq(X),
           AllAllowed(EvalContexts(cfg, live, ctxs).verdicts)
    PROVE  EvalContexts(cfg, live, ctxs).admission = <<>>
<1> DEFINE n == Len(ctxs)
<1>1. n \in Nat
    BY LenProperties
<1>2. PICK q : /\ q[0] = NothingStaged
               /\ \A k \in 0..n : q[k] \in Stage
               /\ \A k \in 1..n : q[k] = EvalContext(cfg, live, q[k - 1], ctxs[k])
               /\ EvalContexts(cfg, live, ctxs) = q[n]
    BY EvalRun
<1> DEFINE N == {k \in Nat : k <= n => (AllAllowed(q[k].verdicts) => q[k].admission = <<>>)}
<1>3. 0 \in N
    BY <1>2 DEF NothingStaged
<1>4. ASSUME NEW k \in Nat, k \in N PROVE k + 1 \in N
    <2> SUFFICES ASSUME k + 1 <= n, AllAllowed(q[k + 1].verdicts)
                 PROVE  q[k + 1].admission = <<>>
        OBVIOUS
    <2>1. k + 1 \in 1..n /\ k \in 0..n /\ (k + 1) - 1 = k /\ k <= n
        BY <1>1
    <2> DEFINE s == q[k]
               ctx == ctxs[k + 1]
               e == EvalContext(cfg, live, s, ctx)
    <2>2. q[k + 1] = e /\ s \in Stage
        BY <1>2, <2>1
    <2>3. AllAllowed(s.verdicts) => s.admission = <<>>
        BY <1>4, <2>1
    <2>4. AllAllowed(e.verdicts)
        BY <2>2, Zenon
    <2> HIDE DEF s, ctx
    <2>5. AllAllowed(s.verdicts) /\ e.admission = s.admission
        BY <2>2, <2>4, OneMoreAllowed
    <2> QED  BY <2>2, <2>3, <2>5, Zenon
<1>5. Nat \subseteq N
    <2> HIDE DEF N
    <2> QED  BY <1>3, <1>4, SetInduction
<1>6. n \in N
    BY <1>1, <1>5
<1> QED  BY <1>1, <1>2, <1>6

(* With or without a cap, an allowed request leaves a global ledger whose  *)
(* total is right.                                                         *)
LEMMA DecideTallies ==
    ASSUME NEW cfg \in PolicyConfig, NEW frozen, NEW last,
           NEW t \in Nat \ {0}, NEW ledger \in LedgersUpTo(t),
           Tallied(ledger.global, t, I128_MAX),
           NEW X, NEW ctxs \in Seq(X), 1 \in DOMAIN ctxs,
           AllAllowed(decide(cfg, frozen, last, ledger, t, ctxs).verdicts)
    PROVE  Tallied(decide(cfg, frozen, last, ledger, t, ctxs).ledger.global, t, I128_MAX)
<1> DEFINE w == cfg.window_secs
           D == decide(cfg, frozen, last, ledger, t, ctxs)
           live == IF PrunesWindow(cfg) THEN prune(ledger, t, w) ELSE ledger
           s == EvalContexts(cfg, live, ctxs)
<1>1. w \in Nat
    BY DEF PolicyConfig
<1>2. Covered(ledger.global, Silence, t, w, I128_MAX)
    BY <1>1, TalliedCovers
<1>3. CASE cfg.window_cap > 0
    <2>1. Covered(D.ledger.global, Plus(Silence, t, Paying(cfg, ctxs, Len(ctxs))), t, w, I128_MAX)
        BY <1>2, <1>3, DecideCovers
    <2> HIDE DEF D
    <2>2. Tallied(D.ledger.global, t, I128_MAX)
        BY <2>1 DEF Tallied
    <2> QED  BY <2>2 DEF D
<1>4. CASE ~ (cfg.window_cap > 0)
    <2>1. AllAllowed(s.verdicts) /\ D.ledger = CommitStaged(live, s, t)
        BY DecideAllowed
    <2>2. live \in LedgersUpTo(t)
        BY <1>1, PruneLedgersUpTo
    <2>3. Tallied(live.global, t, I128_MAX)
        <3>1. CASE PrunesWindow(cfg)
            <4>1. live.global = prune_entries(ledger.global, t, w)
                BY <3>1 DEF prune
            <4>2. Covered(prune_entries(ledger.global, t, w), Silence, t, w, I128_MAX)
                BY <1>2, PruneCovers
            <4> HIDE DEF live
            <4>3. Covered(live.global, Silence, t, w, I128_MAX)
                BY <4>1, <4>2, Zenon
            <4> QED  BY <4>3 DEF Tallied
        <3>2. CASE ~ PrunesWindow(cfg)
            BY <3>2
        <3> QED  BY <3>1, <3>2
    <2> HIDE DEF live, D
    <2>4. s.admission = <<>>
        BY <1>4, <2>1, NothingAdmitted
    <2>5. s \in Stage
        BY EvalContextsType
    <2> HIDE DEF s
    <2>6. D.ledger.global = live.global
        <3>1. CommitStaged(live, s, t).global = Spends(live, s.admission, t).global
            BY <2>2, <2>5, CommitGlobal
        <3>2. Spends(live, <<>>, t) = live
            <4>1. <<>> \in Seq(Nat \ {0}) /\ 1 \in Nat \ {0}
                BY EmptySeq
            <4> QED  BY <2>2, <4>1, SpendsAppend
        <3> QED  BY <2>1, <2>4, <3>1, <3>2, Zenon
    <2> QED  BY <2>3, <2>6, Zenon DEF D
<1> QED  BY <1>3, <1>4

-----------------------------------------------------------------------------
(* What a request pays to one recipient *)

(* The transfers to r among the first k contexts, and their sum. *)
TransfersTo(cfg, ctxs, k, r) == {i \in Transfers(cfg, ctxs, k) : parse_call(ctxs[i], cfg).to = r}
PayingTo(cfg, ctxs, k, r) == SumFunctionOnSet(Amounts(cfg, ctxs), TransfersTo(cfg, ctxs, k, r))

(* The sum over one context more. *)
LEMMA PayingToStep ==
    ASSUME NEW cfg, NEW r, NEW X, NEW ctxs \in Seq(X), NEW k \in Nat, k + 1 \in 1..Len(ctxs),
           \A i \in TransfersTo(cfg, ctxs, k, r) : Amounts(cfg, ctxs)[i] \in Nat \ {0}
    PROVE  LET call == parse_call(ctxs[k + 1], cfg)
               more == call.kind = "AssetTransfer" /\ call.to = r
           IN  /\ ~ more => TransfersTo(cfg, ctxs, k + 1, r) = TransfersTo(cfg, ctxs, k, r)
               /\ more /\ call.amount \in Nat \ {0} =>
                      /\ PayingTo(cfg, ctxs, k + 1, r) = PayingTo(cfg, ctxs, k, r) + call.amount
                      /\ TransfersTo(cfg, ctxs, k + 1, r) # {}
                      /\ \A i \in TransfersTo(cfg, ctxs, k + 1, r) :
                             Amounts(cfg, ctxs)[i] \in Nat \ {0}
<1> DEFINE call == parse_call(ctxs[k + 1], cfg)
           more == call.kind = "AssetTransfer" /\ call.to = r
           f == Amounts(cfg, ctxs)
           J == TransfersTo(cfg, ctxs, k, r)
           J2 == TransfersTo(cfg, ctxs, k + 1, r)
           S == 1..k
           S2 == 1..(k + 1)
           Is(i) == parse_call(ctxs[i], cfg).kind = "AssetTransfer" /\ parse_call(ctxs[i], cfg).to = r
<1>1. S2 = S \union {k + 1} /\ k + 1 \notin S
    BY PrefixGrows
<1>2. f[k + 1] = call.amount
    <2>1. k + 1 \in DOMAIN ctxs
        BY LenProperties
    <2> QED  BY <2>1 DEF Amounts
<1>3. J = {i \in S : Is(i)} /\ J2 = {i \in S2 : Is(i)}
    BY DEF Transfers, TransfersTo
<1>4. IsFiniteSet(J) /\ IsFiniteSet(J2)
    <2>1. IsFiniteSet(S) /\ IsFiniteSet(S2)
        BY FS_Interval
    <2> QED  BY <1>3, <2>1, FS_Subset
<1>5. /\ PayingTo(cfg, ctxs, k, r) = SumFunctionOnSet(f, J)
      /\ PayingTo(cfg, ctxs, k + 1, r) = SumFunctionOnSet(f, J2)
    BY DEF PayingTo
<1>a. more <=> Is(k + 1)
    OBVIOUS
<1> HIDE DEF S, S2, f, J, J2, Is, more
<1>6. ~ more => J2 = J
    BY <1>1, <1>3, <1>a
<1>7. ASSUME more, call.amount \in Nat \ {0}
      PROVE  /\ PayingTo(cfg, ctxs, k + 1, r) = PayingTo(cfg, ctxs, k, r) + call.amount
             /\ J2 # {} /\ \A i \in J2 : f[i] \in Nat \ {0}
    <2>1. k + 1 \in J2 /\ J2 \ {k + 1} = J /\ J2 = J \union {k + 1}
        BY <1>1, <1>3, <1>a, <1>7
    <2>2. \A i \in J : f[i] \in Nat \ {0}
        BY DEF f, J
    <2>3. \A i \in J2 : f[i] \in Nat \ {0}
        BY <1>2, <1>7, <2>1, <2>2
    <2>4. /\ SumFunctionOnSet(f, J2) = f[k + 1] + SumFunctionOnSet(f, J2 \ {k + 1})
          /\ SumFunctionOnSet(f, J) \in Nat
        BY <1>4, <2>1, <2>2, <2>3, SumRemove
    <2>5. SumFunctionOnSet(f, J2) = f[k + 1] + SumFunctionOnSet(f, J)
        BY <2>1, <2>4, Zenon
    <2> QED  BY <1>2, <1>5, <1>7, <2>1, <2>3, <2>4, <2>5
<1> QED  BY <1>6, <1>7 DEF J, J2, f, more

(* The stage after k allowed contexts: what is staged for a recipient with *)
(* a cap of its own is what they pay it, and it fits under that cap.       *)
StagesFor(cfg, live, ctxs, k, s, r) ==
    LET paying == PayingTo(cfg, ctxs, k, r)
        to == TransfersTo(cfg, ctxs, k, r)
    IN  /\ \A i \in to : Amounts(cfg, ctxs)[i] \in Nat \ {0}
        /\ paying \in Nat
        /\ StagedFor(s, r) = paying
        /\ r \in DOMAIN s.recipients <=> to # {}
        /\ to # {} => /\ recipient_total(live, r) + paying <= I128_MAX
                      /\ recipient_total(live, r) + paying <= recipient_override_cap(cfg, r)

(* One allowed context more keeps it so. *)
LEMMA StagesForStep ==
    ASSUME NEW cfg, NEW live, NEW r, recipient_override_cap(cfg, r) \in Int \ {None},
           recipient_total(live, r) \in Nat,
           NEW X, NEW ctxs \in Seq(X), NEW k \in Nat, k + 1 \in 1..Len(ctxs),
           NEW s \in Stage, StagesFor(cfg, live, ctxs, k, s, r),
           AllAllowed(EvalContext(cfg, live, s, ctxs[k + 1]).verdicts)
    PROVE  StagesFor(cfg, live, ctxs, k + 1, EvalContext(cfg, live, s, ctxs[k + 1]), r)
<1> DEFINE call == parse_call(ctxs[k + 1], cfg)
           e == EvalContext(cfg, live, s, ctxs[k + 1])
           a == call.amount
           base == recipient_total(live, r)
           cap == recipient_override_cap(cfg, r)
           P == PayingTo(cfg, ctxs, k, r)
           P2 == PayingTo(cfg, ctxs, k + 1, r)
           J == TransfersTo(cfg, ctxs, k, r)
           J2 == TransfersTo(cfg, ctxs, k + 1, r)
           own == call.kind = "AssetTransfer" /\ recipient_override_cap(cfg, call.to) # None
           more == call.kind = "AssetTransfer" /\ call.to = r
<1>1. /\ ContextVerdict(cfg, live, s, call) = Allowed
      /\ e.recipients = IF own THEN MoreFor(s, call.to, a) ELSE s.recipients
    BY OneMoreAllowed
<1>2. /\ \A i \in J : Amounts(cfg, ctxs)[i] \in Nat \ {0}
      /\ P \in Nat /\ StagedFor(s, r) = P /\ (r \in DOMAIN s.recipients <=> J # {})
      /\ J # {} => base + P <= I128_MAX /\ base + P <= cap
    BY DEF StagesFor
<1>3. /\ ~ more => J2 = J
      /\ more /\ a \in Nat \ {0} =>
             /\ P2 = P + a /\ J2 # {}
             /\ \A i \in J2 : Amounts(cfg, ctxs)[i] \in Nat \ {0}
    <2>1. \A i \in TransfersTo(cfg, ctxs, k, r) : Amounts(cfg, ctxs)[i] \in Nat \ {0}
        BY <1>2
    <2> QED  BY <2>1, PayingToStep, ZenonT(60)
<1>4. CASE ~ more
    <2>1. P2 = P /\ J2 = J
        BY <1>3, <1>4, Zenon DEF PayingTo
    <2>2. /\ r \in DOMAIN e.recipients <=> r \in DOMAIN s.recipients
          /\ StagedFor(e, r) = StagedFor(s, r)
        <3>1. own => call.to # r
            BY <1>4
        <3> HIDE DEF own, e, call
        <3>2. CASE own
            BY <1>1, <3>1, <3>2 DEF MoreFor, StagedFor
        <3>3. CASE ~ own
            BY <1>1, <3>3 DEF StagedFor
        <3> QED  BY <3>2, <3>3
    <2> HIDE DEF P, P2, J, J2, e
    <2>3. /\ \A i \in J2 : Amounts(cfg, ctxs)[i] \in Nat \ {0}
          /\ P2 \in Nat /\ StagedFor(e, r) = P2 /\ (r \in DOMAIN e.recipients <=> J2 # {})
          /\ J2 # {} => base + P2 <= I128_MAX /\ base + P2 <= cap
        BY <1>2, <2>1, <2>2, Zenon
    <2> QED  BY <2>3, Zenon DEF StagesFor, P2, J2, e
<1>5. CASE more
    <2>1. TransferVerdict(cfg, live, s, call) = Allowed /\ a \in Nat \ {0}
        BY <1>1, <1>5, ContextAnswer
    <2>2. ~ ExceedsCap(base, StagedFor(s, r), a, cap)
        <3>1. call.to = r
            BY <1>5
        <3> HIDE DEF call
        <3>2. ~ ExceedsCap(recipient_total(live, call.to), StagedFor(s, call.to), call.amount,
                           recipient_override_cap(cfg, call.to))
            BY <2>1, <3>1, TransferAnswer
        <3> QED  BY <3>1, <3>2, Zenon
    <2>3. P2 = P + a /\ J2 # {} /\ \A i \in J2 : Amounts(cfg, ctxs)[i] \in Nat \ {0}
        BY <1>3, <1>5, <2>1
    <2>4. own /\ call.to = r
        BY <1>5
    <2>5. e.recipients = MoreFor(s, r, a)
        BY <1>1, <2>4, Zenon
    <2> HIDE DEF P, P2, J, J2, e, a, base, cap, call
    <2>6. I128_MAX \in Nat /\ base \in Nat /\ cap \in Int
        BY WindowBounds DEF base, cap
    <2>7. base + P2 <= I128_MAX /\ base + P2 <= cap /\ P2 \in Nat
        BY <1>2, <2>1, <2>2, <2>3, <2>6 DEF ExceedsCap
    <2>8. r \in DOMAIN e.recipients /\ StagedFor(e, r) = saturating_add(StagedFor(s, r), a, I128_MAX)
        BY <2>5 DEF MoreFor, StagedFor
    <2>9. saturating_add(P, a, I128_MAX) = P2
        BY <1>2, <2>1, <2>3, <2>6, <2>7 DEF saturating_add
    <2>10. StagedFor(e, r) = P2
        BY <1>2, <2>8, <2>9, Zenon
    <2> QED  BY <2>3, <2>7, <2>8, <2>10, Zenon DEF StagesFor, P2, J2, e, base, cap
<1> QED  BY <1>4, <1>5

(* So a request that is allowed leaves such a stage. *)
LEMMA StagesForRun ==
    ASSUME NEW cfg, NEW live, NEW r, recipient_override_cap(cfg, r) \in Int \ {None},
           recipient_total(live, r) \in Nat,
           NEW X, NEW ctxs \in Seq(X), AllAllowed(EvalContexts(cfg, live, ctxs).verdicts)
    PROVE  StagesFor(cfg, live, ctxs, Len(ctxs), EvalContexts(cfg, live, ctxs), r)
<1> DEFINE n == Len(ctxs)
<1>1. n \in Nat
    BY LenProperties
<1>2. PICK q : /\ q[0] = NothingStaged
               /\ \A k \in 0..n : q[k] \in Stage
               /\ \A k \in 1..n : q[k] = EvalContext(cfg, live, q[k - 1], ctxs[k])
               /\ EvalContexts(cfg, live, ctxs) = q[n]
    BY EvalRun
<1> DEFINE Good(k) == AllAllowed(q[k].verdicts) => StagesFor(cfg, live, ctxs, k, q[k], r)
           N == {k \in Nat : k <= n => Good(k)}
<1>3. Good(0)
    <2>1. TransfersTo(cfg, ctxs, 0, r) = {}
        <3>1. 1..0 = {}
            OBVIOUS
        <3> QED  BY <3>1 DEF Transfers, TransfersTo
    <2>2. PayingTo(cfg, ctxs, 0, r) = 0
        BY <2>1, FS_EmptySet, SumRemove DEF PayingTo
    <2>3. q[0].recipients = <<>> /\ DOMAIN <<>> = {}
        BY <1>2 DEF NothingStaged
    <2>4. r \notin DOMAIN q[0].recipients /\ StagedFor(q[0], r) = 0 /\ 0 \in Nat
        BY <2>3 DEF StagedFor
    <2> QED  BY <2>1, <2>2, <2>4, Zenon DEF StagesFor
<1>4. ASSUME NEW k \in Nat, k \in N PROVE k + 1 \in N
    <2> SUFFICES ASSUME k + 1 <= n, AllAllowed(q[k + 1].verdicts)
                 PROVE  StagesFor(cfg, live, ctxs, k + 1, q[k + 1], r)
        OBVIOUS
    <2>1. k + 1 \in 1..n /\ k \in 0..n /\ (k + 1) - 1 = k
        BY <1>1
    <2>2. q[k + 1] = EvalContext(cfg, live, q[k], ctxs[k + 1]) /\ q[k] \in Stage
        BY <1>2, <2>1
    <2>3. AllAllowed(q[k].verdicts)
        <3> DEFINE s == q[k]
                   ctx == ctxs[k + 1]
        <3>1. s \in Stage /\ AllAllowed(EvalContext(cfg, live, s, ctx).verdicts)
            BY <2>2, Zenon
        <3> HIDE DEF s, ctx
        <3>2. AllAllowed(s.verdicts)
            BY <3>1, OneMoreAllowed
        <3> QED  BY <3>2 DEF s
    <2>4. StagesFor(cfg, live, ctxs, k, q[k], r)
        BY <1>1, <1>4, <2>1, <2>3
    <2>5. AllAllowed(EvalContext(cfg, live, q[k], ctxs[k + 1]).verdicts)
        BY <2>2, Zenon
    <2> HIDE DEF Good
    <2>6. StagesFor(cfg, live, ctxs, k + 1, EvalContext(cfg, live, q[k], ctxs[k + 1]), r)
        BY <2>1, <2>2, <2>4, <2>5, StagesForStep
    <2> QED  BY <2>2, <2>6, Zenon
<1> HIDE DEF Good
<1>5. 0 \in N
    BY <1>3
<1>6. Nat \subseteq N
    <2> HIDE DEF N
    <2> QED  BY <1>4, <1>5, SetInduction
<1>7. Good(n)
    BY <1>1, <1>6
<1> QED  BY <1>2, <1>7, Zenon DEF Good

-----------------------------------------------------------------------------
(* What committing does to the ledger of a recipient *)

(* The spends and the calls touch none. *)
LEMMA OnlyRecipsAreOwn ==
    ASSUME NEW t \in Nat \ {0}, NEW ledger \in LedgersUpTo(t), NEW admission \in Seq(Nat \ {0}),
           NEW n \in Nat
    PROVE  /\ Spends(ledger, admission, t).recipients = ledger.recipients
           /\ Metered(ledger, n, t).recipients = ledger.recipients
<1>1. ASSUME NEW L \in LedgersUpTo(t), NEW a
      PROVE  /\ admit(L, t, a).recipients = L.recipients
             /\ admit_protocol_call(L, t).recipients = L.recipients
    BY DEF LedgersUpTo, admit, admit_protocol_call
<1>2. Spends(ledger, admission, t).recipients = ledger.recipients
    <2> DEFINE m == Len(admission)
               S == 1..m
               F == SpendsIter(ledger, admission, t)
               G == {T \in SUBSET S : F[T].recipients = ledger.recipients}
    <2>0. m \in Nat /\ DOMAIN admission = S
        BY LenProperties
    <2>1. /\ F[{}] = ledger
          /\ \A T \in SUBSET S : T # {} => F[T] = admit(F[T \ {Max(T)}], t, admission[Max(T)])
          /\ \A T \in SUBSET S : F[T] \in LedgersUpTo(t)
        BY SpendsIterDef
    <2>2. Spends(ledger, admission, t) = F[S]
        <3>1. Spends(ledger, admission, t) = F[DOMAIN admission]
            BY CommitIsIter
        <3> HIDE DEF F, S
        <3> QED  BY <2>0, <3>1, Zenon
    <2>3. IsFiniteSet(S) /\ \A T \in SUBSET S : T # {} => Max(T) \in T
        <3> HIDE DEF m
        <3>1. IsFiniteSet(S)
            BY <2>0, FS_Interval
        <3>2. \A T \in SUBSET S : T # {} => Max(T) \in T
            BY <2>0, MaxIn
        <3> QED  BY <3>1, <3>2
    <2> HIDE DEF S, F
    <2>4. {} \in G
        BY <2>1
    <2>5. ASSUME NEW T \in SUBSET S, T # {}, \A x \in T : T \ {x} \in G PROVE T \in G
        <3>1. Max(T) \in T
            BY <2>3, <2>5
        <3>2. F[T \ {Max(T)}] \in LedgersUpTo(t) /\ F[T \ {Max(T)}].recipients = ledger.recipients
            BY <2>1, <2>5, <3>1
        <3>3. F[T] = admit(F[T \ {Max(T)}], t, admission[Max(T)])
            BY <2>1, <2>5
        <3>4. F[T].recipients = ledger.recipients
            BY <1>1, <3>2, <3>3
        <3> QED  BY <3>4
    <2>6. S \in G
        <3> HIDE DEF G
        <3> QED  BY <2>3, <2>4, <2>5, SubsetInduction
    <2> QED  BY <2>2, <2>6
<1>3. Metered(ledger, n, t).recipients = ledger.recipients
    <2> DEFINE S == 1..n
               F == MeteredIter(ledger, n, t)
               G == {T \in SUBSET S : F[T].recipients = ledger.recipients}
    <2>1. /\ F[{}] = ledger
          /\ \A T \in SUBSET S : T # {} => F[T] = admit_protocol_call(F[T \ {Max(T)}], t)
          /\ \A T \in SUBSET S : F[T] \in LedgersUpTo(t)
        BY MeteredIterDef
    <2>2. Metered(ledger, n, t) = F[S]
        BY CommitIsIter
    <2>3. IsFiniteSet(S) /\ \A T \in SUBSET S : T # {} => Max(T) \in T
        <3>1. IsFiniteSet(S)
            BY FS_Interval
        <3>2. \A T \in SUBSET S : T # {} => Max(T) \in T
            BY MaxIn
        <3> QED  BY <3>1, <3>2
    <2> HIDE DEF S, F
    <2>4. {} \in G
        BY <2>1
    <2>5. ASSUME NEW T \in SUBSET S, T # {}, \A x \in T : T \ {x} \in G PROVE T \in G
        <3>1. Max(T) \in T
            BY <2>3, <2>5
        <3>2. F[T \ {Max(T)}] \in LedgersUpTo(t) /\ F[T \ {Max(T)}].recipients = ledger.recipients
            BY <2>1, <2>5, <3>1
        <3>3. F[T] = admit_protocol_call(F[T \ {Max(T)}], t)
            BY <2>1, <2>5
        <3>4. F[T].recipients = ledger.recipients
            BY <1>1, <3>2, <3>3
        <3> QED  BY <3>4
    <2>6. S \in G
        <3> HIDE DEF G
        <3> QED  BY <2>3, <2>4, <2>5, SubsetInduction
    <2> QED  BY <2>2, <2>6
<1> QED  BY <1>2, <1>3

(* Each staged recipient is admitted once, in whatever order. *)
LEMMA RecipsAdmitOnce ==
    ASSUME NEW t \in Nat \ {0}, NEW ledger \in LedgersUpTo(t), NEW staged \in StagedAmounts, NEW r
    PROVE  RecipientLedger(Recips(ledger, staged, t), r)
               = IF r \in DOMAIN staged
                 THEN admit_to_ledger(RecipientLedger(ledger, r), t, staged[r], I128_MAX)
                 ELSE RecipientLedger(ledger, r)
<1> DEFINE S == DOMAIN staged
           F == RecipsIter(ledger, staged, t)
           own == RecipientLedger(ledger, r)
           new == admit_to_ledger(own, t, staged[r], I128_MAX)
           G == {T \in SUBSET S : RecipientLedger(F[T], r) = IF r \in T THEN new ELSE own}
<1>1. ASSUME NEW L \in LedgersUpTo(t), NEW to, NEW a
      PROVE  RecipientLedger(admit_for_recipient(L, t, to, a), r)
                 = IF r = to THEN admit_to_ledger(RecipientLedger(L, r), t, a, I128_MAX)
                   ELSE RecipientLedger(L, r)
    <2> DEFINE R == [x \in DOMAIN L.recipients \union {to} |->
                        IF x = to THEN admit_to_ledger(RecipientLedger(L, to), t, a, I128_MAX)
                        ELSE L.recipients[x]]
               M == admit_for_recipient(L, t, to, a)
    <2>1. M.recipients = R
        BY DEF LedgersUpTo, admit_for_recipient
    <2> HIDE DEF M
    <2>2. /\ DOMAIN M.recipients = DOMAIN L.recipients \union {to}
          /\ \A x \in DOMAIN M.recipients :
                 M.recipients[x] = IF x = to
                                   THEN admit_to_ledger(RecipientLedger(L, to), t, a, I128_MAX)
                                   ELSE L.recipients[x]
        BY <2>1
    <2>3. CASE r = to
        <3>1. RecipientLedger(M, r) = M.recipients[r]
            BY <2>2, <2>3 DEF RecipientLedger
        <3>2. M.recipients[r] = admit_to_ledger(RecipientLedger(L, to), t, a, I128_MAX)
            BY <2>2, <2>3
        <3> QED  BY <2>3, <3>1, <3>2, Zenon DEF M
    <2>4. CASE r # to
        <3>1. RecipientLedger(M, r) = RecipientLedger(L, r)
            BY <2>2, <2>4, Zenon DEF RecipientLedger
        <3> QED  BY <2>4, <3>1, Zenon DEF M
    <2> QED  BY <2>3, <2>4
<1>2. /\ F[{}] = ledger
      /\ \A T \in SUBSET S : T # {} =>
             F[T] = admit_for_recipient(F[T \ {Choice(T)}], t, Choice(T), staged[Choice(T)])
      /\ \A T \in SUBSET S : F[T] \in LedgersUpTo(t)
    BY RecipsIterDef
<1>3. Recips(ledger, staged, t) = F[S]
    BY CommitIsIter
<1>4. IsFiniteSet(S)
    BY DEF StagedAmounts
<1> HIDE DEF S, F, own, new
<1>5. {} \in G
    BY <1>2 DEF own
<1>6. ASSUME NEW T \in SUBSET S, T # {}, \A x \in T : T \ {x} \in G PROVE T \in G
    <2> DEFINE x == Choice(T)
               L == F[T \ {x}]
    <2>1. x \in T
        BY <1>6 DEF Choice
    <2>2. L \in LedgersUpTo(t) /\ RecipientLedger(L, r) = IF r \in T \ {x} THEN new ELSE own
        BY <1>2, <1>6, <2>1
    <2>3. F[T] = admit_for_recipient(L, t, x, staged[x])
        BY <1>2, <1>6
    <2> HIDE DEF x, L
    <2>4. RecipientLedger(F[T], r)
              = IF r = x THEN admit_to_ledger(RecipientLedger(L, r), t, staged[x], I128_MAX)
                ELSE RecipientLedger(L, r)
        <3> DEFINE a == staged[x]
        <3> HIDE DEF a
        <3>1. RecipientLedger(admit_for_recipient(L, t, x, a), r)
                  = IF r = x THEN admit_to_ledger(RecipientLedger(L, r), t, a, I128_MAX)
                    ELSE RecipientLedger(L, r)
            BY <1>1, <2>2
        <3> QED  BY <2>3, <3>1, Zenon DEF a
    <2>5. CASE r = x
        <3>1. RecipientLedger(L, r) = own
            BY <2>2, <2>5
        <3>2. RecipientLedger(F[T], r) = admit_to_ledger(own, t, staged[r], I128_MAX)
            BY <2>4, <2>5, <3>1, Zenon
        <3> QED  BY <2>1, <2>5, <3>2 DEF new
    <2>6. CASE r # x
        BY <2>1, <2>2, <2>4, <2>6
    <2> QED  BY <2>5, <2>6
<1>7. S \in G
    <2> HIDE DEF G
    <2> QED  BY <1>4, <1>5, <1>6, SubsetInduction
<1> QED  BY <1>3, <1>7 DEF S, own, new

(* An allowed request: the ledger of a recipient with a cap of its own     *)
(* covers what the request pays it, and is within the cap if it pays.      *)
LEMMA DecideCoversTo ==
    ASSUME NEW cfg \in PolicyConfig, NEW r, recipient_override_cap(cfg, r) # None,
           NEW frozen, NEW last, NEW t \in Nat \ {0}, NEW ledger \in LedgersUpTo(t), NEW c,
           Covered(RecipientLedger(ledger, r), c, t, cfg.window_secs, I128_MAX),
           NEW X, NEW ctxs \in Seq(X), 1 \in DOMAIN ctxs,
           AllAllowed(decide(cfg, frozen, last, ledger, t, ctxs).verdicts)
    PROVE  LET paying == PayingTo(cfg, ctxs, Len(ctxs), r)
               own == RecipientLedger(decide(cfg, frozen, last, ledger, t, ctxs).ledger, r)
           IN  /\ paying \in Nat
               /\ Covered(own, Plus(c, t, paying), t, cfg.window_secs, I128_MAX)
               /\ TransfersTo(cfg, ctxs, Len(ctxs), r) # {} =>
                      own.total <= recipient_override_cap(cfg, r)
<1> DEFINE live == prune(ledger, t, cfg.window_secs)
           s == EvalContexts(cfg, live, ctxs)
           D == decide(cfg, frozen, last, ledger, t, ctxs)
           w == cfg.window_secs
           cap == recipient_override_cap(cfg, r)
           P == PayingTo(cfg, ctxs, Len(ctxs), r)
           J == TransfersTo(cfg, ctxs, Len(ctxs), r)
           own == RecipientLedger(live, r)
           new == RecipientLedger(D.ledger, r)
<1>1. PrunesWindow(cfg) /\ cap \in Int \ {None}
    <2> DEFINE caps == cfg.recipient_window_caps
               Cap == [recipient : Address, cap : Int]
    <2>1. PICK i \in DOMAIN caps : cap = caps[i].cap
        BY OverrideIsOn
    <2>2. caps \in Seq(Cap)
        BY DEF PolicyConfig
    <2> HIDE DEF caps, Cap
    <2>3. DOMAIN caps # {} /\ caps[i] \in Cap
        BY <2>1, <2>2
    <2>4. cap \in Int
        BY <2>1, <2>3 DEF Cap
    <2>5. caps # <<>>
        BY <2>3
    <2> QED  BY <2>4, <2>5 DEF PrunesWindow, caps
<1>2. AllAllowed(s.verdicts) /\ D.ledger = CommitStaged(live, s, t)
    BY <1>1, DecideAllowed
<1>3. w \in Nat
    BY DEF PolicyConfig
<1>4. live \in LedgersUpTo(t)
    BY <1>3, PruneLedgersUpTo
<1>5. Covered(own, c, t, w, I128_MAX)
    <2> DEFINE l == RecipientLedger(ledger, r)
    <2>1. Covered(prune_entries(l, t, w), c, t, w, I128_MAX)
        BY PruneCovers
    <2>2. own = IF r \in DOMAIN ledger.recipients THEN prune_entries(l, t, w) ELSE l
        BY DEF prune, RecipientLedger
    <2>3. Covered(l, c, t, w, I128_MAX)
        OBVIOUS
    <2> HIDE DEF l, own
    <2> QED  BY <2>1, <2>2, <2>3, Zenon
<1>6. own.total \in 0..I128_MAX /\ own.total \in Nat /\ I128_MAX \in Nat
    <2> HIDE DEF own
    <2> QED  BY <1>5, CoveredTotal, WindowBounds
<1> HIDE DEF live, D
<1>7. StagesFor(cfg, live, ctxs, Len(ctxs), s, r)
    <2>1. recipient_total(live, r) \in Nat
        BY <1>6 DEF recipient_total
    <2> QED  BY <1>1, <1>2, <2>1, StagesForRun
<1>8. s \in Stage
    BY EvalContextsType
<1> HIDE DEF s
<1>9. /\ P \in Nat /\ StagedFor(s, r) = P /\ (r \in DOMAIN s.recipients <=> J # {})
      /\ J # {} => own.total + P <= I128_MAX /\ own.total + P <= cap
      /\ \A i \in J : Amounts(cfg, ctxs)[i] \in Nat \ {0}
    BY <1>7 DEF StagesFor, recipient_total
<1>10. new = IF r \in DOMAIN s.recipients THEN admit_to_ledger(own, t, P, I128_MAX) ELSE own
    <2>1. s.admission \in Seq(Nat \ {0}) /\ s.recipients \in StagedAmounts /\ s.calls \in Nat
        BY <1>8 DEF Stage
    <2> DEFINE spends == Spends(live, s.admission, t)
               recips == Recips(spends, s.recipients, t)
               metered == Metered(recips, s.calls, t)
    <2>2. D.ledger = metered
        BY <1>2 DEF CommitStaged, Spends, Recips, Metered
    <2>3. spends \in LedgersUpTo(t) /\ spends.recipients = live.recipients
        BY <1>4, <2>1, SpendsType, OnlyRecipsAreOwn
    <2> HIDE DEF spends
    <2>4. recips \in LedgersUpTo(t)
        BY <2>1, <2>3, RecipsType
    <2>5. RecipientLedger(recips, r)
              = IF r \in DOMAIN s.recipients
                THEN admit_to_ledger(RecipientLedger(spends, r), t, s.recipients[r], I128_MAX)
                ELSE RecipientLedger(spends, r)
        BY <2>1, <2>3, RecipsAdmitOnce
    <2> HIDE DEF recips
    <2>6. metered.recipients = recips.recipients
        BY <2>1, <2>4, OnlyRecipsAreOwn
    <2> HIDE DEF metered
    <2>7. RecipientLedger(spends, r) = own /\ new = RecipientLedger(recips, r)
        BY <2>2, <2>3, <2>6, Zenon DEF RecipientLedger
    <2>8. r \in DOMAIN s.recipients => s.recipients[r] = P
        BY <1>9 DEF StagedFor
    <2> HIDE DEF own, new, P
    <2> QED  BY <2>5, <2>7, <2>8, Zenon
<1>11. \A u \in 0..t : c[u] \in Nat
    BY DEF Covered, Accounts
<1> HIDE DEF own, new, w, cap
<1>12. CASE J # {}
    <2>1. P \in Nat \ {0}
        <3> HIDE DEF J
        <3>1. PICK i \in J : TRUE
            BY <1>12
        <3>2. StagedFor(s, r) = s.recipients[r] /\ s.recipients[r] \in Nat \ {0}
            BY <1>8, <1>9, <1>12 DEF StagedFor, Stage, StagedAmounts
        <3> QED  BY <1>9, <3>2
    <2> HIDE DEF P, J
    <2>2. Adds(c, Plus(c, t, P), t, P)
        BY <1>11, <2>1 DEF Adds, Plus
    <2>3. own.total + P <= I128_MAX /\ own.total + P <= cap
        BY <1>9, <1>12
    <2>4. /\ Covered(admit_to_ledger(own, t, P, I128_MAX), Plus(c, t, P), t, w, I128_MAX)
          /\ admit_to_ledger(own, t, P, I128_MAX).total = own.total + P
        BY <1>5, <2>1, <2>2, <2>3, AdmitCovers
    <2>5. new = admit_to_ledger(own, t, P, I128_MAX)
        BY <1>9, <1>10, <1>12
    <2>6. Covered(new, Plus(c, t, P), t, w, I128_MAX) /\ new.total = own.total + P
        BY <2>4, <2>5, Zenon
    <2>7. new.total <= cap
        BY <2>3, <2>6
    <2> QED  BY <1>9, <2>6, <2>7 DEF P, new, w, cap, D
<1>13. CASE J = {}
    <2>1. P = 0 /\ new = own
        <3>1. P = 0
            BY <1>9, <1>13 DEF StagedFor
        <3> QED  BY <1>9, <1>10, <1>13, <3>1
    <2> HIDE DEF P, J
    <2>2. Adds(c, Plus(c, t, 0), t, 0)
        BY <1>11 DEF Adds, Plus
    <2>3. Covered(own, Plus(c, t, 0), t, w, I128_MAX)
        BY <1>5, <2>2, CoversLess
    <2>4. Covered(new, Plus(c, t, P), t, w, I128_MAX) /\ P \in Nat
        BY <2>1, <2>3, Zenon
    <2> QED  BY <1>13, <2>4 DEF P, J, new, w, D
<1> QED  BY <1>12, <1>13

-----------------------------------------------------------------------------
(* What a decision depends on *)

(* The ledger of a whole account in which nothing has expired. *)
AllLedgersLive(L, t, w) ==
    /\ AllLive(L.global.entries, t, w) /\ AllLive(L.calls.entries, t, w)
    /\ \A r \in DOMAIN L.recipients : AllLive(L.recipients[r].entries, t, w)

(* Pruning makes it so, *)
LEMMA PruneLeavesAllLive ==
    ASSUME NEW t \in Nat, NEW L \in LedgersUpTo(t), NEW w \in Nat
    PROVE  AllLedgersLive(prune(L, t, w), t, w)
<1>1. /\ L.global \in LedgerUpTo(t) /\ L.calls \in LedgerUpTo(t)
      /\ L.recipients \in PerRecipient(LedgerUpTo(t))
    BY DEF LedgersUpTo
<1>2. \A r \in DOMAIN L.recipients : L.recipients[r] \in LedgerUpTo(t)
    BY <1>1, PerRecipientIs
<1>3. /\ AllLive(prune_entries(L.global, t, w).entries, t, w)
      /\ AllLive(prune_protocol_call_entries(L.calls, t, w).entries, t, w)
      /\ \A r \in DOMAIN L.recipients : AllLive(prune_entries(L.recipients[r], t, w).entries, t, w)
    BY <1>1, <1>2, PruneLeavesLive
<1> QED  BY <1>3 DEF prune, AllLedgersLive

(* and leaves it alone then. *)
LEMMA LiveLedgersStay ==
    ASSUME NEW t \in Nat, NEW L \in LedgersUpTo(t), NEW w \in Nat, AllLedgersLive(L, t, w)
    PROVE  prune(L, t, w) = L
<1>1. /\ L.global \in LedgerUpTo(t) /\ L.calls \in LedgerUpTo(t)
      /\ L.recipients \in PerRecipient(LedgerUpTo(t))
      /\ L = [global |-> L.global, recipients |-> L.recipients, calls |-> L.calls]
    BY DEF LedgersUpTo
<1>2. /\ \A r \in DOMAIN L.recipients : L.recipients[r] \in LedgerUpTo(t)
      /\ L.recipients = [r \in DOMAIN L.recipients |-> L.recipients[r]]
    BY <1>1, PerRecipientIs
<1>3. /\ prune_entries(L.global, t, w) = L.global
      /\ prune_protocol_call_entries(L.calls, t, w) = L.calls
      /\ \A r \in DOMAIN L.recipients : prune_entries(L.recipients[r], t, w) = L.recipients[r]
    BY <1>1, <1>2, LiveStays DEF AllLedgersLive
<1>4. [r \in DOMAIN L.recipients |-> prune_entries(L.recipients[r], t, w)] = L.recipients
    BY <1>2, <1>3
<1>5. prune(L, t, w) = [global     |-> prune_entries(L.global, t, w),
                        recipients |-> [r \in DOMAIN L.recipients |->
                                           prune_entries(L.recipients[r], t, w)],
                        calls      |-> prune_protocol_call_entries(L.calls, t, w)]
    BY DEF prune
<1> QED  BY <1>1, <1>3, <1>4, <1>5, Zenon

(* A request is judged by the calls its contexts are parsed into, and by   *)
(* nothing else of them.                                                   *)
LEMMA SameCalls ==
    ASSUME NEW cfg, NEW live, NEW X, NEW a \in Seq(X), NEW Y, NEW b \in Seq(Y), Len(a) = Len(b),
           \A i \in 1..Len(a) : parse_call(a[i], cfg) = parse_call(b[i], cfg)
    PROVE  EvalContexts(cfg, live, a) = EvalContexts(cfg, live, b)
<1> DEFINE n == Len(a)
<1>1. n \in Nat
    BY LenProperties
<1>2. PICK p : /\ p[0] = NothingStaged
               /\ \A k \in 1..n : p[k] = EvalContext(cfg, live, p[k - 1], a[k])
               /\ EvalContexts(cfg, live, a) = p[n]
    BY EvalRun
<1>3. PICK q : /\ q[0] = NothingStaged
               /\ \A k \in 1..n : q[k] = EvalContext(cfg, live, q[k - 1], b[k])
               /\ EvalContexts(cfg, live, b) = q[n]
    BY EvalRun
<1> HIDE DEF n
<1> DEFINE N == {k \in Nat : k <= n => p[k] = q[k]}
<1>4. 0 \in N
    BY <1>2, <1>3
<1>5. ASSUME NEW k \in Nat, k \in N PROVE k + 1 \in N
    <2> SUFFICES ASSUME k + 1 <= n PROVE p[k + 1] = q[k + 1]
        OBVIOUS
    <2>1. k + 1 \in 1..n /\ (k + 1) - 1 = k /\ p[k] = q[k]
        BY <1>1, <1>5
    <2>2. /\ p[k + 1] = EvalContext(cfg, live, p[k], a[k + 1])
          /\ q[k + 1] = EvalContext(cfg, live, q[k], b[k + 1])
        BY <1>2, <1>3, <2>1, Zenon
    <2>3. parse_call(a[k + 1], cfg) = parse_call(b[k + 1], cfg)
        BY <2>1 DEF n
    <2>4. EvalContext(cfg, live, p[k], a[k + 1]) = EvalContext(cfg, live, p[k], b[k + 1])
        BY <2>3, Zenon DEF EvalContext
    <2> QED  BY <2>1, <2>2, <2>4, Zenon
<1>6. n \in N
    <2> HIDE DEF N
    <2> QED  BY <1>1, <1>4, <1>5, SetInduction
<1> QED  BY <1>1, <1>2, <1>3, <1>6

(* The ledger that decide evaluates the contexts on. *)
DecidedOn(cfg, L, t) == IF PrunesWindow(cfg) THEN prune(L, t, cfg.window_secs) ELSE L

(* The same calls before the same live ledger get the same answer. *)
LEMMA SameDecision ==
    ASSUME NEW cfg, NEW frozen, NEW last, NEW t, NEW L, NEW M,
           DecidedOn(cfg, L, t) = DecidedOn(cfg, M, t),
           NEW X, NEW a \in Seq(X), NEW Y, NEW b \in Seq(Y), Len(a) = Len(b),
           \A i \in 1..Len(a) : parse_call(a[i], cfg) = parse_call(b[i], cfg)
    PROVE  decide(cfg, frozen, last, L, t, a).verdicts = decide(cfg, frozen, last, M, t, b).verdicts
<1> DEFINE gate == AccountGate(cfg, frozen, last, t)
           live == IF PrunesWindow(cfg) THEN prune(L, t, cfg.window_secs) ELSE L
           other == IF PrunesWindow(cfg) THEN prune(M, t, cfg.window_secs) ELSE M
<1>0. live = other
    BY DEF DecidedOn
<1>1. DOMAIN a = DOMAIN b
    BY LenProperties
<1>2. EvalContexts(cfg, live, a) = EvalContexts(cfg, live, b)
    BY SameCalls
<1>3. decide(cfg, frozen, last, L, t, a).verdicts
          = IF Len(a) > MAX_AUTH_CONTEXTS THEN <<"TooManyAuthContexts">>
            ELSE IF gate # Allowed THEN [i \in DOMAIN a |-> gate]
            ELSE EvalContexts(cfg, live, a).verdicts
    BY DEF decide
<1>4. decide(cfg, frozen, last, M, t, b).verdicts
          = IF Len(b) > MAX_AUTH_CONTEXTS THEN <<"TooManyAuthContexts">>
            ELSE IF gate # Allowed THEN [i \in DOMAIN b |-> gate]
            ELSE EvalContexts(cfg, other, b).verdicts
    BY DEF decide
<1> HIDE DEF gate, live, other
<1>5. [i \in DOMAIN a |-> gate] = [i \in DOMAIN b |-> gate]
    BY <1>1
<1>6. EvalContexts(cfg, live, a) = EvalContexts(cfg, other, b)
    BY <1>0, <1>2, Zenon
<1> QED  BY <1>3, <1>4, <1>5, <1>6

(* A transfer that is rebuilt from its parts is parsed into the same call. *)
LEMMA RebuiltTransfer ==
    ASSUME NEW ctx, NEW cfg, NEW call, call = parse_call(ctx, cfg), call.kind = "AssetTransfer",
           NEW again, again = [contract |-> call.asset, fn |-> "transfer",
                               args |-> <<call.asset, call.to, call.amount>>]
    PROVE  parse_call(again, cfg) = call
<1> DEFINE idx == IF ctx.fn = "transfer" THEN 2 ELSE 3
           whole == [kind |-> "AssetTransfer", asset |-> ctx.contract,
                     to |-> ctx.args[idx], amount |-> ctx.args[idx + 1]]
<1>1. /\ ctx.contract # None /\ ctx.contract # Self /\ ctx.contract \in ToSet(cfg.assets)
      /\ ctx.fn \in {"transfer", "transfer_from"} /\ call = ParseTransfer(ctx)
    BY DEF parse_call, Unknown
<1>2. call = IF /\ Len(ctx.args) = idx + 1
                /\ ctx.args[idx] \in Address
                /\ ctx.args[idx + 1] \in I128
             THEN whole ELSE Unknown
    BY <1>1 DEF ParseTransfer
<1>3. call = whole
    <2> HIDE DEF whole, idx
    <2> QED  BY <1>2 DEF Unknown
<1>4. call.to \in Address /\ call.amount \in I128
    BY ParsedCall
<1>5. call.asset = ctx.contract
      /\ call = [kind |-> "AssetTransfer", asset |-> call.asset, to |-> call.to, amount |-> call.amount]
    BY <1>3
<1>6. again.contract = call.asset /\ again.fn = "transfer"
      /\ again.args = <<call.asset, call.to, call.amount>>
    OBVIOUS
<1>7. /\ Len(again.args) = 2 + 1 /\ again.args[2] = call.to /\ again.args[2 + 1] = call.amount
    BY <1>6
<1> HIDE DEF whole, idx
<1>8. ParseTransfer(again) = call
    BY <1>4, <1>5, <1>6, <1>7 DEF ParseTransfer
<1>9. parse_call(again, cfg) = ParseTransfer(again)
    BY <1>1, <1>5, <1>6 DEF parse_call
<1> QED  BY <1>8, <1>9

-----------------------------------------------------------------------------
(* Splitting a request *)

(* Spends touch no calls and no recipients' map. *)
LEMMA OnlyMeteredAreCalls ==
    ASSUME NEW t \in Nat \ {0}, NEW ledger \in LedgersUpTo(t), NEW admission \in Seq(Nat \ {0}),
           NEW staged \in StagedAmounts
    PROVE  /\ Spends(ledger, admission, t).calls = ledger.calls
           /\ Recips(ledger, staged, t).calls = ledger.calls
           /\ DOMAIN Recips(ledger, staged, t).recipients
                  = DOMAIN ledger.recipients \union DOMAIN staged
<1>1. ASSUME NEW L \in LedgersUpTo(t), NEW to, NEW a
      PROVE  /\ admit(L, t, a).calls = L.calls
             /\ admit_for_recipient(L, t, to, a).calls = L.calls
             /\ DOMAIN admit_for_recipient(L, t, to, a).recipients
                    = DOMAIN L.recipients \union {to}
    BY DEF LedgersUpTo, admit, admit_for_recipient
<1>2. Spends(ledger, admission, t).calls = ledger.calls
    <2> DEFINE m == Len(admission)
               S == 1..m
               F == SpendsIter(ledger, admission, t)
               G == {T \in SUBSET S : F[T].calls = ledger.calls}
    <2>0. m \in Nat /\ DOMAIN admission = S
        BY LenProperties
    <2>1. /\ F[{}] = ledger
          /\ \A T \in SUBSET S : T # {} => F[T] = admit(F[T \ {Max(T)}], t, admission[Max(T)])
          /\ \A T \in SUBSET S : F[T] \in LedgersUpTo(t)
        BY SpendsIterDef
    <2>2. Spends(ledger, admission, t) = F[S]
        <3>1. Spends(ledger, admission, t) = F[DOMAIN admission]
            BY CommitIsIter
        <3> HIDE DEF F, S
        <3> QED  BY <2>0, <3>1, Zenon
    <2>3. IsFiniteSet(S) /\ \A T \in SUBSET S : T # {} => Max(T) \in T
        <3> HIDE DEF m
        <3>1. IsFiniteSet(S)
            BY <2>0, FS_Interval
        <3>2. \A T \in SUBSET S : T # {} => Max(T) \in T
            BY <2>0, MaxIn
        <3> QED  BY <3>1, <3>2
    <2> HIDE DEF S, F
    <2>4. {} \in G
        BY <2>1
    <2>5. ASSUME NEW T \in SUBSET S, T # {}, \A x \in T : T \ {x} \in G PROVE T \in G
        <3>1. Max(T) \in T
            BY <2>3, <2>5
        <3>2. F[T \ {Max(T)}] \in LedgersUpTo(t) /\ F[T \ {Max(T)}].calls = ledger.calls
            BY <2>1, <2>5, <3>1
        <3>3. F[T] = admit(F[T \ {Max(T)}], t, admission[Max(T)])
            BY <2>1, <2>5
        <3> DEFINE a == admission[Max(T)]
        <3> HIDE DEF a
        <3>4. admit(F[T \ {Max(T)}], t, a).calls = ledger.calls
            BY <1>1, <3>2
        <3> QED  BY <3>3, <3>4 DEF a
    <2>6. S \in G
        <3> HIDE DEF G
        <3> QED  BY <2>3, <2>4, <2>5, SubsetInduction
    <2> QED  BY <2>2, <2>6
<1>3. /\ Recips(ledger, staged, t).calls = ledger.calls
      /\ DOMAIN Recips(ledger, staged, t).recipients = DOMAIN ledger.recipients \union DOMAIN staged
    <2> DEFINE S == DOMAIN staged
               F == RecipsIter(ledger, staged, t)
               D == DOMAIN ledger.recipients
               G == {T \in SUBSET S : /\ F[T].calls = ledger.calls
                                      /\ DOMAIN F[T].recipients = D \union T}
    <2>1. /\ F[{}] = ledger
          /\ \A T \in SUBSET S : T # {} =>
                 F[T] = admit_for_recipient(F[T \ {Choice(T)}], t, Choice(T), staged[Choice(T)])
          /\ \A T \in SUBSET S : F[T] \in LedgersUpTo(t)
        BY RecipsIterDef
    <2>2. Recips(ledger, staged, t) = F[S]
        BY CommitIsIter
    <2>3. IsFiniteSet(S)
        BY DEF StagedAmounts
    <2> HIDE DEF S, F
    <2>4. {} \in G
        BY <2>1
    <2>5. ASSUME NEW T \in SUBSET S, T # {}, \A x \in T : T \ {x} \in G PROVE T \in G
        <3> DEFINE x == Choice(T)
                   L == F[T \ {x}]
        <3>1. x \in T
            BY <2>5 DEF Choice
        <3>2. L \in LedgersUpTo(t) /\ L.calls = ledger.calls
              /\ DOMAIN L.recipients = D \union (T \ {x})
            BY <2>1, <2>5, <3>1
        <3>3. F[T] = admit_for_recipient(L, t, x, staged[x])
            BY <2>1, <2>5
        <3> HIDE DEF x, L, D
        <3>4. F[T].calls = ledger.calls /\ DOMAIN F[T].recipients = (D \union (T \ {x})) \union {x}
            BY <1>1, <3>2, <3>3
        <3>5. (D \union (T \ {x})) \union {x} = D \union T
            BY <3>1
        <3> QED  BY <3>4, <3>5
    <2>6. S \in G
        <3> HIDE DEF G
        <3> QED  BY <2>3, <2>4, <2>5, SubsetInduction
    <2> QED  BY <2>2, <2>6 DEF S, D
<1> QED  BY <1>2, <1>3

(* Metering one call more admits one call more. *)
LEMMA MeteredOneMore ==
    ASSUME NEW t \in Nat \ {0}, NEW ledger \in LedgersUpTo(t), NEW n \in Nat
    PROVE  /\ Metered(ledger, 0, t) = ledger
           /\ Metered(ledger, n + 1, t) = admit_protocol_call(Metered(ledger, n, t), t)
<1> DEFINE F == MeteredIter(ledger, n, t)
           H == MeteredIter(ledger, n + 1, t)
           S == 1..n
           G == {T \in SUBSET S : H[T] = F[T]}
<1>1. Metered(ledger, 0, t) = ledger
    <2>1. MeteredIter(ledger, 0, t)[{}] = ledger
        BY MeteredIterDef
    <2>2. 1..0 = {}
        OBVIOUS
    <2>3. Metered(ledger, 0, t) = MeteredIter(ledger, 0, t)[1..0]
        BY CommitIsIter
    <2> QED  BY <2>1, <2>2, <2>3
<1>2. /\ F[{}] = ledger
      /\ \A T \in SUBSET (1..n) : T # {} => F[T] = admit_protocol_call(F[T \ {Max(T)}], t)
    BY MeteredIterDef
<1>3. /\ H[{}] = ledger
      /\ \A T \in SUBSET (1..(n + 1)) : T # {} => H[T] = admit_protocol_call(H[T \ {Max(T)}], t)
    <2>1. n + 1 \in Nat
        OBVIOUS
    <2> QED  BY <2>1, MeteredIterDef
<1>4. Metered(ledger, n, t) = F[1..n] /\ Metered(ledger, n + 1, t) = H[1..(n + 1)]
    BY CommitIsIter
<1> HIDE DEF F, H, S
<1>5. {} \in G
    BY <1>2, <1>3
<1>6. ASSUME NEW T \in SUBSET S, T # {}, \A x \in T : T \ {x} \in G PROVE T \in G
    <2>1. Max(T) \in T
        BY <1>6, MaxIn DEF S
    <2>2. T \in SUBSET (1..(n + 1))
        BY PrefixGrows DEF S
    <2>3. H[T] = admit_protocol_call(H[T \ {Max(T)}], t)
        BY <1>3, <1>6, <2>2
    <2>4. F[T] = admit_protocol_call(F[T \ {Max(T)}], t)
        BY <1>2, <1>6 DEF S
    <2>5. H[T \ {Max(T)}] = F[T \ {Max(T)}]
        BY <1>6, <2>1
    <2>6. H[T] = F[T]
        BY <2>3, <2>4, <2>5, Zenon
    <2> QED  BY <2>6
<1>7. S \in G
    <2>1. IsFiniteSet(S)
        BY FS_Interval DEF S
    <2> HIDE DEF G
    <2> QED  BY <1>5, <1>6, <2>1, SubsetInduction
<1>8. /\ 1..(n + 1) # {} /\ (1..(n + 1)) \ {Max(1..(n + 1))} = 1..n
    BY PrefixGrows
<1>9. H[1..(n + 1)] = admit_protocol_call(H[(1..(n + 1)) \ {Max(1..(n + 1))}], t)
    BY <1>3, <1>8
<1>10. H[1..n] = F[1..n]
    BY <1>7 DEF S
<1>11. Metered(ledger, n + 1, t) = admit_protocol_call(Metered(ledger, n, t), t)
    BY <1>4, <1>8, <1>9, <1>10, Zenon
<1> QED  BY <1>1, <1>11

(* One or two calls more, on the counter. *)
CallsMore(l, n, t) ==
    IF n = 0 THEN l
    ELSE IF n = 1 THEN admit_to_ledger(l, t, 1, U32_MAX)
    ELSE admit_to_ledger(admit_to_ledger(l, t, 1, U32_MAX), t, 1, U32_MAX)

(* A commit, part by part. *)
LEMMA CommitParts ==
    ASSUME NEW t \in Nat \ {0}, NEW live \in LedgersUpTo(t), NEW s \in Stage
    PROVE  LET C == CommitStaged(live, s, t)
           IN  /\ C \in LedgersUpTo(t)
               /\ C.global = Spends(live, s.admission, t).global
               /\ DOMAIN C.recipients = DOMAIN live.recipients \union DOMAIN s.recipients
               /\ \A r : RecipientLedger(C, r)
                             = IF r \in DOMAIN s.recipients
                               THEN admit_to_ledger(RecipientLedger(live, r), t, s.recipients[r],
                                                    I128_MAX)
                               ELSE RecipientLedger(live, r)
               /\ s.calls \in 0..2 => C.calls = CallsMore(live.calls, s.calls, t)
<1>1. s.admission \in Seq(Nat \ {0}) /\ s.recipients \in StagedAmounts /\ s.calls \in Nat
    BY DEF Stage
<1> DEFINE spends == Spends(live, s.admission, t)
           recips == Recips(spends, s.recipients, t)
           C == CommitStaged(live, s, t)
<1>2. C = Metered(recips, s.calls, t)
    BY DEF CommitStaged, Spends, Recips, Metered
<1>3. /\ spends \in LedgersUpTo(t) /\ spends.recipients = live.recipients
      /\ spends.calls = live.calls
    BY <1>1, SpendsType, OnlyRecipsAreOwn, OnlyMeteredAreCalls
<1>4. C \in LedgersUpTo(t) /\ C.global = spends.global
    BY CommitType, CommitGlobal
<1> HIDE DEF spends, C
<1>5. /\ recips \in LedgersUpTo(t) /\ recips.calls = live.calls
      /\ DOMAIN recips.recipients = DOMAIN live.recipients \union DOMAIN s.recipients
    BY <1>1, <1>3, RecipsType, OnlyMeteredAreCalls
<1>6. \A r : RecipientLedger(recips, r)
                 = IF r \in DOMAIN s.recipients
                   THEN admit_to_ledger(RecipientLedger(spends, r), t, s.recipients[r], I128_MAX)
                   ELSE RecipientLedger(spends, r)
    BY <1>1, <1>3, RecipsAdmitOnce
<1>7. \A r : RecipientLedger(spends, r) = RecipientLedger(live, r)
    BY <1>3, Zenon DEF RecipientLedger
<1> HIDE DEF recips
<1>8. C.recipients = recips.recipients
    BY <1>1, <1>2, <1>5, OnlyRecipsAreOwn
<1>9. \A r : RecipientLedger(C, r) = RecipientLedger(recips, r)
    BY <1>8, Zenon DEF RecipientLedger
<1>10. \A r : RecipientLedger(C, r)
                  = IF r \in DOMAIN s.recipients
                    THEN admit_to_ledger(RecipientLedger(live, r), t, s.recipients[r], I128_MAX)
                    ELSE RecipientLedger(live, r)
    BY <1>6, <1>7, <1>9, Zenon
<1>11. ASSUME s.calls \in 0..2 PROVE C.calls = CallsMore(live.calls, s.calls, t)
    <2> DEFINE one == admit_protocol_call(recips, t)
    <2>1. /\ one \in LedgersUpTo(t)
          /\ one.calls = admit_to_ledger(live.calls, t, 1, U32_MAX)
        <3>1. one \in LedgersUpTo(t)
            <4>1. 0 \in Nat /\ 0 + 1 \in Nat
                OBVIOUS
            <4>2. /\ Metered(recips, 0, t) = recips
                  /\ Metered(recips, 0 + 1, t) = admit_protocol_call(Metered(recips, 0, t), t)
                BY <1>5, <4>1, MeteredOneMore, Zenon
            <4>3. Metered(recips, 0 + 1, t) \in LedgersUpTo(t)
                BY <1>5, <4>1, MeteredType, Zenon
            <4> QED  BY <4>2, <4>3, Zenon
        <3>2. one.calls = admit_to_ledger(recips.calls, t, 1, U32_MAX)
            BY <1>5 DEF LedgersUpTo, admit_protocol_call
        <3> QED  BY <1>5, <3>1, <3>2, Zenon
    <2> HIDE DEF one
    <2>2. admit_protocol_call(one, t).calls = admit_to_ledger(one.calls, t, 1, U32_MAX)
        BY <2>1 DEF LedgersUpTo, admit_protocol_call
    <2>3. /\ Metered(recips, 0, t) = recips
          /\ Metered(recips, 1, t) = one
          /\ Metered(recips, 2, t) = admit_protocol_call(one, t)
        <3>1. /\ Metered(recips, 0, t) = recips
              /\ Metered(recips, 0 + 1, t) = admit_protocol_call(Metered(recips, 0, t), t)
              /\ Metered(recips, 1 + 1, t) = admit_protocol_call(Metered(recips, 1, t), t)
            <4>1. 0 \in Nat /\ 1 \in Nat
                OBVIOUS
            <4> QED  BY <1>5, <4>1, MeteredOneMore, Zenon
        <3>2. 0 + 1 = 1 /\ 1 + 1 = 2
            OBVIOUS
        <3> QED  BY <3>1, <3>2, Zenon DEF one
    <2>4. CASE s.calls = 0
        BY <1>2, <1>5, <2>3, <2>4, Zenon DEF CallsMore
    <2>5. CASE s.calls = 1
        <3>1. 1 # 0
            OBVIOUS
        <3> QED  BY <1>2, <2>1, <2>3, <2>5, <3>1, Zenon DEF CallsMore
    <2>6. CASE s.calls = 2
        <3>1. 2 # 0 /\ 2 # 1
            OBVIOUS
        <3> QED  BY <1>2, <2>1, <2>2, <2>3, <2>6, <3>1, Zenon DEF CallsMore
    <2> QED  BY <1>11, <2>4, <2>5, <2>6
<1> QED  BY <1>4, <1>5, <1>8, <1>10, <1>11 DEF spends, C

(* What one call adds to a ledger once it is allowed. *)
PaysGlobal(cfg, call) == call.kind = "AssetTransfer" /\ cfg.window_cap > 0
PaysOwn(cfg, call, r) ==
    /\ call.kind = "AssetTransfer" /\ recipient_override_cap(cfg, call.to) # None
    /\ r = call.to
CountsCall(cfg, call) == call.kind = "Protocol" /\ cfg.protocol_calls_per_window > 0

Extended(C, E, cfg, call, t) ==
    /\ E.global = IF PaysGlobal(cfg, call)
                  THEN admit_to_ledger(C.global, t, call.amount, I128_MAX) ELSE C.global
    /\ DOMAIN E.recipients = DOMAIN C.recipients \union {r \in Address : PaysOwn(cfg, call, r)}
    /\ \A r \in Address :
           RecipientLedger(E, r)
               = IF PaysOwn(cfg, call, r)
                 THEN admit_to_ledger(RecipientLedger(C, r), t, call.amount, I128_MAX)
                 ELSE RecipientLedger(C, r)
    /\ E.calls = IF CountsCall(cfg, call) THEN admit_to_ledger(C.calls, t, 1, U32_MAX) ELSE C.calls

(* One context more is allowed iff the ones before it and itself are, and  *)
(* it is counted when the rate limit is on.                                *)
LEMMA OneMoreCounted ==
    ASSUME NEW cfg, NEW ledger, NEW s \in Stage, NEW ctx
    PROVE  LET call == parse_call(ctx, cfg)
               e == EvalContext(cfg, ledger, s, ctx)
           IN  /\ AllAllowed(e.verdicts) <=>
                      AllAllowed(s.verdicts) /\ ContextVerdict(cfg, ledger, s, call) = Allowed
               /\ ContextVerdict(cfg, ledger, s, call) = Allowed =>
                      e.calls = IF CountsCall(cfg, call) THEN saturating_add(s.calls, 1, U32_MAX)
                                ELSE s.calls
<1> DEFINE call == parse_call(ctx, cfg)
           v == ContextVerdict(cfg, ledger, s, call)
           staged == IF v = Allowed THEN StageCall(cfg, s, call) ELSE s
           e == EvalContext(cfg, ledger, s, ctx)
           n == Len(s.verdicts)
           more == Append(s.verdicts, v)
<1>1. e = [staged EXCEPT !.verdicts = Append(@, v)]
    BY DEF EvalContext
<1>2. v \in Verdict
    BY ContextAnswer
<1>3. /\ s \in [verdicts : Seq(Verdict), admission : Seq(Nat \ {0}), pending : Nat,
               recipients : StagedAmounts, calls : Nat]
      /\ s.verdicts \in Seq(Verdict)
    BY DEF Stage
<1>4. /\ n \in Nat /\ DOMAIN s.verdicts = 1..n
      /\ DOMAIN more = 1..(n + 1) /\ more[n + 1] = v
      /\ \A i \in 1..n : more[i] = s.verdicts[i]
    <2> HIDE DEF v
    <2> QED  BY <1>2, <1>3, LenProperties, AppendProperties
<1> HIDE DEF v, call, n
<1>5. /\ "verdicts" \in DOMAIN StageCall(cfg, s, call)
      /\ StageCall(cfg, s, call).verdicts = s.verdicts
      /\ DOMAIN StageCall(cfg, s, call) = DOMAIN s
    BY <1>3 DEF StageCall
<1>6. e.verdicts = more /\ e.calls = staged.calls
    <2> HIDE DEF e
    <2>1. CASE v = Allowed
        BY <1>1, <1>3, <1>5, <2>1
    <2>2. CASE v # Allowed
        BY <1>1, <1>3, <2>2
    <2> QED  BY <2>1, <2>2
<1> HIDE DEF more
<1>7. \A i \in 1..(n + 1) : i = n + 1 \/ i \in 1..n
    BY <1>4
<1>8. n + 1 \in 1..(n + 1) /\ 1..n \subseteq 1..(n + 1)
    BY <1>4, PrefixGrows
<1>9. AllAllowed(more) <=> AllAllowed(s.verdicts) /\ v = Allowed
    BY <1>4, <1>7, <1>8, Zenon DEF AllAllowed
<1>10. StageCall(cfg, s, call).calls
           = IF CountsCall(cfg, call) THEN saturating_add(s.calls, 1, U32_MAX) ELSE s.calls
    BY <1>3 DEF StageCall, CountsCall
<1> QED  BY <1>6, <1>9, <1>10, Zenon DEF e, v, call

(* A ledger is its parts. *)
LEMMA SameLedgers ==
    ASSUME NEW t \in Nat, NEW C \in LedgersUpTo(t), NEW E \in LedgersUpTo(t),
           C.global = E.global, C.calls = E.calls, DOMAIN C.recipients = DOMAIN E.recipients,
           \A r \in Address : RecipientLedger(C, r) = RecipientLedger(E, r)
    PROVE  C = E
<1>1. /\ C.recipients \in PerRecipient(LedgerUpTo(t)) /\ E.recipients \in PerRecipient(LedgerUpTo(t))
      /\ C = [global |-> C.global, recipients |-> C.recipients, calls |-> C.calls]
      /\ E = [global |-> E.global, recipients |-> E.recipients, calls |-> E.calls]
    BY DEF LedgersUpTo
<1> DEFINE f == C.recipients
           g == E.recipients
<1>2. /\ DOMAIN f \subseteq Address /\ f \in [DOMAIN f -> LedgerUpTo(t)]
      /\ g \in [DOMAIN g -> LedgerUpTo(t)] /\ DOMAIN f = DOMAIN g
    BY <1>1, PerRecipientIs
<1>3. \A r \in DOMAIN f : f[r] = g[r]
    <2> SUFFICES ASSUME NEW r \in DOMAIN f PROVE f[r] = g[r]
        OBVIOUS
    <2>1. r \in Address /\ r \in DOMAIN C.recipients /\ r \in DOMAIN E.recipients
        BY <1>2
    <2>2. RecipientLedger(C, r) = C.recipients[r] /\ RecipientLedger(E, r) = E.recipients[r]
        BY <2>1, Zenon DEF RecipientLedger
    <2> QED  BY <2>1, <2>2
<1> HIDE DEF f, g
<1>4. f = g
    BY <1>2, <1>3
<1> QED  BY <1>1, <1>4, Zenon DEF f, g

(* What extends a ledger by a call is determined by both. *)
LEMMA ExtendedOnce ==
    ASSUME NEW t \in Nat, NEW C, NEW E \in LedgersUpTo(t), NEW F \in LedgersUpTo(t),
           NEW cfg, NEW call, Extended(C, E, cfg, call, t), Extended(C, F, cfg, call, t)
    PROVE  E = F
<1>1. /\ E.global = F.global /\ E.calls = F.calls /\ DOMAIN E.recipients = DOMAIN F.recipients
      /\ \A r \in Address : RecipientLedger(E, r) = RecipientLedger(F, r)
    <2>1. E.global = F.global /\ E.calls = F.calls /\ DOMAIN E.recipients = DOMAIN F.recipients
        BY DEF Extended
    <2>2. ASSUME NEW r \in Address PROVE RecipientLedger(E, r) = RecipientLedger(F, r)
        BY DEF Extended
    <2> QED  BY <2>1, <2>2
<1> QED  BY <1>1, SameLedgers

(* A stage of nothing commits to nothing. *)
LEMMA CommitNothing ==
    ASSUME NEW t \in Nat \ {0}, NEW live \in LedgersUpTo(t)
    PROVE  CommitStaged(live, NothingStaged, t) = live
<1> DEFINE C == CommitStaged(live, NothingStaged, t)
<1>1. /\ NothingStaged \in Stage /\ NothingStaged.calls = 0 /\ NothingStaged.admission = <<>>
      /\ DOMAIN NothingStaged.recipients = {}
    BY NothingIsStage DEF NothingStaged
<1>2. /\ C \in LedgersUpTo(t)
      /\ C.global = Spends(live, NothingStaged.admission, t).global
      /\ DOMAIN C.recipients = DOMAIN live.recipients \union DOMAIN NothingStaged.recipients
      /\ \A r : RecipientLedger(C, r)
                    = IF r \in DOMAIN NothingStaged.recipients
                      THEN admit_to_ledger(RecipientLedger(live, r), t, NothingStaged.recipients[r],
                                           I128_MAX)
                      ELSE RecipientLedger(live, r)
      /\ NothingStaged.calls \in 0..2 => C.calls = CallsMore(live.calls, NothingStaged.calls, t)
    BY <1>1, CommitParts, Zenon
<1> HIDE DEF C
<1>3. C.calls = live.calls
    <2>1. 0 \in 0..2
        OBVIOUS
    <2> QED  BY <1>1, <1>2, <2>1, Zenon DEF CallsMore
<1>4. \A r \in Address : RecipientLedger(C, r) = RecipientLedger(live, r)
    BY <1>1, <1>2, Zenon
<1>5. DOMAIN C.recipients = DOMAIN live.recipients
    BY <1>1, <1>2
<1>6. C.global = live.global
    <2>1. <<>> \in Seq(Nat \ {0}) /\ 1 \in Nat \ {0}
        BY EmptySeq
    <2>2. Spends(live, <<>>, t) = live
        BY <2>1, SpendsAppend
    <2> QED  BY <1>1, <1>2, <2>2, Zenon
<1>7. C = live
    BY <1>2, <1>3, <1>4, <1>5, <1>6, SameLedgers
<1> QED  BY <1>7 DEF C

(* Two admissions in one second are one admission of the staged sum. *)
LEMMA AdmitLedgerTwice ==
    ASSUME NEW t \in Nat \ {0}, NEW l \in LedgerUpTo(t), l.total \in Nat,
           NEW a \in Nat \ {0}, NEW b \in Nat \ {0}, NEW max \in Nat \ {0}
    PROVE  admit_to_ledger(admit_to_ledger(l, t, a, max), t, b, max)
               = admit_to_ledger(l, t, saturating_add(a, b, max), max)
<1> DEFINE one == admit_to_ledger(l, t, a, max)
<1>1. l.entries \in Seq(Entry)
    BY UpToIsEntry DEF LedgerUpTo
<1>2. /\ one.total = saturating_add(l.total, a, max)
      /\ one.entries = AdmitEntry(l.entries, t, a, max)
    BY DEF admit_to_ledger
<1> HIDE DEF one
<1>3. saturating_add(one.total, b, max) = saturating_add(l.total, saturating_add(a, b, max), max)
    BY <1>2, SaturatesTwice
<1>4. AdmitEntry(one.entries, t, b, max) = AdmitEntry(l.entries, t, saturating_add(a, b, max), max)
    BY <1>1, <1>2, AdmitTwice
<1>5. admit_to_ledger(one, t, b, max) = admit_to_ledger(l, t, saturating_add(a, b, max), max)
    BY <1>3, <1>4, Zenon DEF admit_to_ledger
<1> QED  BY <1>5 DEF one

(* Staging one context more and committing the stage adds its call to what *)
(* the stage committed before.                                             *)
LEMMA CommitOneMore ==
    ASSUME NEW t \in Nat \ {0}, NEW live \in LedgersUpTo(t), NEW s \in Stage, s.calls \in 0..1,
           live.calls.total \in Nat, \A r \in Address : RecipientLedger(live, r).total \in Nat,
           NEW cfg, NEW ledger, NEW ctx, AllAllowed(EvalContext(cfg, ledger, s, ctx).verdicts)
    PROVE  Extended(CommitStaged(live, s, t),
                    CommitStaged(live, EvalContext(cfg, ledger, s, ctx), t),
                    cfg, parse_call(ctx, cfg), t)
<1> DEFINE call == parse_call(ctx, cfg)
           e == EvalContext(cfg, ledger, s, ctx)
           C == CommitStaged(live, s, t)
           E == CommitStaged(live, e, t)
           glob == call.kind = "AssetTransfer" /\ cfg.window_cap > 0
           own == call.kind = "AssetTransfer" /\ recipient_override_cap(cfg, call.to) # None
<1>1. /\ e \in Stage
      /\ ContextVerdict(cfg, ledger, s, call) = Allowed
      /\ e.admission = IF glob THEN Append(s.admission, call.amount) ELSE s.admission
      /\ e.recipients = IF own THEN MoreFor(s, call.to, call.amount) ELSE s.recipients
    BY EvalContextType, OneMoreAllowed
<1>2. e.calls = IF CountsCall(cfg, call) THEN saturating_add(s.calls, 1, U32_MAX) ELSE s.calls
    BY <1>1, OneMoreCounted
<1>3. call.kind = "AssetTransfer" =>
          /\ call.to \in Address /\ call.amount \in Nat \ {0} /\ call.amount <= I128_MAX
    <2>1. call.kind = "AssetTransfer" => call.to \in Address /\ call.amount \in Nat \ {0}
        BY <1>1, ContextAnswer
    <2>2. call.kind = "AssetTransfer" => call.amount \in I128
        BY ParsedCall
    <2>3. call.amount \in I128 => call.amount <= I128_MAX
        BY WindowBounds DEF I128
    <2> QED  BY <2>1, <2>2, <2>3
<1> HIDE DEF call
<1>4. s.admission \in Seq(Nat \ {0}) /\ s.recipients \in StagedAmounts
    BY DEF Stage
<1>5. /\ C \in LedgersUpTo(t) /\ E \in LedgersUpTo(t)
      /\ C.global = Spends(live, s.admission, t).global
      /\ E.global = Spends(live, e.admission, t).global
      /\ DOMAIN C.recipients = DOMAIN live.recipients \union DOMAIN s.recipients
      /\ DOMAIN E.recipients = DOMAIN live.recipients \union DOMAIN e.recipients
    BY <1>1, CommitParts
<1>6. \A r : RecipientLedger(C, r)
                 = IF r \in DOMAIN s.recipients
                   THEN admit_to_ledger(RecipientLedger(live, r), t, s.recipients[r], I128_MAX)
                   ELSE RecipientLedger(live, r)
    BY CommitParts
<1>7. \A r : RecipientLedger(E, r)
                 = IF r \in DOMAIN e.recipients
                   THEN admit_to_ledger(RecipientLedger(live, r), t, e.recipients[r], I128_MAX)
                   ELSE RecipientLedger(live, r)
    BY <1>1, CommitParts
<1>8. /\ s.calls \in 0..2 => C.calls = CallsMore(live.calls, s.calls, t)
      /\ e.calls \in 0..2 => E.calls = CallsMore(live.calls, e.calls, t)
    BY <1>1, CommitParts
<1> HIDE DEF e, C, E
<1>9. E.global = IF PaysGlobal(cfg, call)
                 THEN admit_to_ledger(C.global, t, call.amount, I128_MAX) ELSE C.global
    <2>1. CASE ~ glob
        BY <1>1, <1>5, <2>1 DEF PaysGlobal
    <2>2. CASE glob
        <3> DEFINE S == Spends(live, s.admission, t)
        <3>1. Spends(live, e.admission, t) = admit(S, t, call.amount)
            <4>1. call.amount \in Nat \ {0} /\ e.admission = Append(s.admission, call.amount)
                BY <1>1, <1>3, <2>2
            <4> QED  BY <1>4, <4>1, SpendsAppend
        <3>2. S \in LedgersUpTo(t)
            BY <1>4, SpendsType
        <3> HIDE DEF S
        <3>3. admit(S, t, call.amount).global = admit_to_ledger(S.global, t, call.amount, I128_MAX)
            BY <3>2 DEF LedgersUpTo, admit
        <3>4. S.global = C.global
            BY <1>5 DEF S
        <3>5. E.global = admit_to_ledger(C.global, t, call.amount, I128_MAX)
            BY <1>5, <3>1, <3>3, <3>4, Zenon
        <3> QED  BY <2>2, <3>5 DEF PaysGlobal
    <2> QED  BY <2>1, <2>2
<1>10. /\ DOMAIN E.recipients = DOMAIN C.recipients \union {r \in Address : PaysOwn(cfg, call, r)}
       /\ \A r \in Address :
              RecipientLedger(E, r)
                  = IF PaysOwn(cfg, call, r)
                    THEN admit_to_ledger(RecipientLedger(C, r), t, call.amount, I128_MAX)
                    ELSE RecipientLedger(C, r)
    <2>1. CASE ~ own
        <3>1. \A r : ~ PaysOwn(cfg, call, r)
            BY <2>1, Zenon DEF PaysOwn
        <3>2. e.recipients = s.recipients
            BY <1>1, <2>1
        <3>3. {r \in Address : PaysOwn(cfg, call, r)} = {}
            BY <3>1
        <3>4. DOMAIN E.recipients = DOMAIN C.recipients
            BY <1>5, <3>2
        <3>5. \A r \in Address : RecipientLedger(E, r) = RecipientLedger(C, r)
            BY <1>6, <1>7, <3>2, Zenon
        <3> QED  BY <3>1, <3>3, <3>4, <3>5
    <2>2. CASE own
        <3> DEFINE to == call.to
                   a == call.amount
        <3>1. to \in Address /\ a \in Nat \ {0} /\ a <= I128_MAX
            BY <1>3, <2>2
        <3>2. e.recipients = MoreFor(s, to, a)
            BY <1>1, <2>2
        <3>3. \A r : PaysOwn(cfg, call, r) <=> r = to
            BY <2>2, Zenon DEF PaysOwn
        <3> HIDE DEF to, a
        <3>4. {r \in Address : PaysOwn(cfg, call, r)} = {to}
            BY <3>1, <3>3
        <3>5. /\ DOMAIN e.recipients = DOMAIN s.recipients \union {to}
              /\ e.recipients[to] = saturating_add(StagedFor(s, to), a, I128_MAX)
              /\ \A r \in DOMAIN s.recipients : r # to => e.recipients[r] = s.recipients[r]
            BY <3>2 DEF MoreFor
        <3>6. DOMAIN E.recipients = DOMAIN C.recipients \union {to}
            BY <1>5, <3>5
        <3>7. ASSUME NEW r \in Address, r # to PROVE RecipientLedger(E, r) = RecipientLedger(C, r)
            <4>1. r \in DOMAIN e.recipients <=> r \in DOMAIN s.recipients
                BY <3>5, <3>7
            <4>2. CASE r \in DOMAIN s.recipients
                <5>1. e.recipients[r] = s.recipients[r]
                    BY <3>5, <3>7, <4>2
                <5> QED  BY <1>6, <1>7, <4>1, <4>2, <5>1, Zenon
            <4>3. CASE r \notin DOMAIN s.recipients
                BY <1>6, <1>7, <4>1, <4>3, Zenon
            <4> QED  BY <4>2, <4>3
        <3>8. RecipientLedger(E, to) = admit_to_ledger(RecipientLedger(C, to), t, a, I128_MAX)
            <4> DEFINE l == RecipientLedger(live, to)
            <4>1. RecipientLedger(E, to) = admit_to_ledger(l, t, e.recipients[to], I128_MAX)
                <5>1. to \in DOMAIN e.recipients
                    BY <3>5
                <5> QED  BY <1>7, <5>1, Zenon
            <4>2. CASE to \notin DOMAIN s.recipients
                <5>1. e.recipients[to] = a
                    <6>1. StagedFor(s, to) = 0
                        BY <4>2 DEF StagedFor
                    <6> QED  BY <3>1, <3>5, <6>1, WindowBounds DEF saturating_add
                <5>2. RecipientLedger(C, to) = l
                    BY <1>6, <4>2, Zenon
                <5> QED  BY <4>1, <5>1, <5>2, Zenon
            <4>3. CASE to \in DOMAIN s.recipients
                <5> DEFINE b == s.recipients[to]
                <5>1. b \in Nat \ {0}
                    BY <1>4, <4>3 DEF StagedAmounts
                <5>2. e.recipients[to] = saturating_add(b, a, I128_MAX)
                    BY <3>5, <4>3 DEF StagedFor
                <5>3. RecipientLedger(C, to) = admit_to_ledger(l, t, b, I128_MAX)
                    BY <1>6, <4>3, Zenon
                <5>4. l \in LedgerUpTo(t) /\ l.total \in Nat
                    <6>1. live.recipients \in PerRecipient(LedgerUpTo(t))
                        BY DEF LedgersUpTo
                    <6>2. live.recipients \in [DOMAIN live.recipients -> LedgerUpTo(t)]
                        BY <6>1, PerRecipientIs, Zenon
                    <6>3. l \in LedgerUpTo(t)
                        <7>1. EmptyLedger \in LedgerUpTo(t)
                            BY EmptyUpTo
                        <7> QED  BY <6>2, <7>1 DEF RecipientLedger
                    <6> QED  BY <3>1, <6>3
                <5> HIDE DEF b, l
                <5>5. admit_to_ledger(admit_to_ledger(l, t, b, I128_MAX), t, a, I128_MAX)
                          = admit_to_ledger(l, t, saturating_add(b, a, I128_MAX), I128_MAX)
                    BY <3>1, <5>1, <5>4, AdmitLedgerTwice, WindowBounds
                <5> QED  BY <4>1, <5>2, <5>3, <5>5, Zenon
            <4> QED  BY <4>2, <4>3
        <3>9. \A r \in Address :
                  RecipientLedger(E, r)
                      = IF PaysOwn(cfg, call, r)
                        THEN admit_to_ledger(RecipientLedger(C, r), t, a, I128_MAX)
                        ELSE RecipientLedger(C, r)
            <4> SUFFICES ASSUME NEW r \in Address
                         PROVE  RecipientLedger(E, r)
                                    = IF PaysOwn(cfg, call, r)
                                      THEN admit_to_ledger(RecipientLedger(C, r), t, a, I128_MAX)
                                      ELSE RecipientLedger(C, r)
                OBVIOUS
            <4>1. CASE r = to
                BY <3>3, <3>8, <4>1, Zenon
            <4>2. CASE r # to
                BY <3>3, <3>7, <4>2, Zenon
            <4> QED  BY <4>1, <4>2
        <3> QED  BY <3>4, <3>6, <3>9 DEF a
    <2> QED  BY <2>1, <2>2
<1>11. E.calls = IF CountsCall(cfg, call) THEN admit_to_ledger(C.calls, t, 1, U32_MAX) ELSE C.calls
    <2> DEFINE l == live.calls
               one == admit_to_ledger(l, t, 1, U32_MAX)
               two == admit_to_ledger(one, t, 1, U32_MAX)
    <2>1. s.calls = 0 \/ s.calls = 1
        OBVIOUS
    <2>2. s.calls \in 0..2 /\ C.calls = CallsMore(l, s.calls, t)
        BY <1>8
    <2>3. /\ CallsMore(l, 0, t) = l /\ CallsMore(l, 1, t) = one /\ CallsMore(l, 2, t) = two
        <3>1. 1 # 0 /\ 2 # 0 /\ 2 # 1
            OBVIOUS
        <3> QED  BY <3>1, Zenon DEF CallsMore
    <2>4. l \in LedgerUpTo(t) /\ l.total \in Nat
        BY DEF LedgersUpTo
    <2>5. two = admit_to_ledger(l, t, saturating_add(1, 1, U32_MAX), U32_MAX)
        <3> DEFINE k == 1
        <3>1. k \in Nat \ {0} /\ U32_MAX \in Nat \ {0}
            BY WindowBounds
        <3> HIDE DEF l, k
        <3>2. admit_to_ledger(admit_to_ledger(l, t, k, U32_MAX), t, k, U32_MAX)
                  = admit_to_ledger(l, t, saturating_add(k, k, U32_MAX), U32_MAX)
            BY <2>4, <3>1, AdmitLedgerTwice
        <3> QED  BY <3>2 DEF k
    <2> HIDE DEF l, one, two
    <2>6. CASE ~ CountsCall(cfg, call)
        <3>1. e.calls = s.calls
            BY <1>2, <2>6
        <3> QED  BY <1>8, <2>2, <2>6, <3>1 DEF l
    <2>7. CASE CountsCall(cfg, call)
        <3>1. e.calls = saturating_add(s.calls, 1, U32_MAX)
            BY <1>2, <2>7
        <3>2. E.calls = admit_to_ledger(C.calls, t, 1, U32_MAX)
            <4>1. CASE s.calls = 0
                <5>1. e.calls = 1 /\ e.calls \in 0..2
                    BY <3>1, <4>1, WindowBounds DEF saturating_add
                <5>2. E.calls = one /\ C.calls = l
                    BY <1>8, <2>2, <2>3, <4>1, <5>1, Zenon DEF l
                <5> QED  BY <5>2, Zenon DEF one
            <4>2. CASE s.calls = 1
                <5>1. C.calls = one
                    BY <2>2, <2>3, <4>2, Zenon
                <5>2. E.calls = two
                    <6>1. CASE U32_MAX = 1
                        <7>1. saturating_add(1, 1, U32_MAX) = 1 /\ e.calls = 1 /\ e.calls \in 0..2
                            BY <3>1, <4>2, <6>1 DEF saturating_add
                        <7>2. two = one
                            BY <2>5, <7>1, Zenon DEF one
                        <7>3. E.calls = CallsMore(l, 1, t)
                            BY <1>8, <7>1, Zenon DEF l
                        <7> QED  BY <2>3, <7>2, <7>3, Zenon
                    <6>2. CASE U32_MAX # 1
                        <7>1. e.calls = 2 /\ e.calls \in 0..2
                            BY <3>1, <4>2, <6>2, WindowBounds DEF saturating_add
                        <7>2. E.calls = CallsMore(l, 2, t)
                            BY <1>8, <7>1, Zenon DEF l
                        <7> QED  BY <2>3, <7>2, Zenon
                    <6> QED  BY <6>1, <6>2
                <5> QED  BY <5>1, <5>2, Zenon DEF two
            <4> QED  BY <2>1, <4>1, <4>2
        <3> QED  BY <2>7, <3>2
    <2> QED  BY <2>6, <2>7
<1>12. Extended(C, E, cfg, call, t)
    BY <1>9, <1>10, <1>11, Zenon DEF Extended
<1> QED  BY <1>12 DEF C, E, e, call

(* A tallied ledger survives storing and loading; admission and pruning    *)
(* keep it tallied.                                                        *)
LEMMA TalliedLedger ==
    ASSUME NEW l, NEW t, NEW max, Tallied(l, t, max)
    PROVE  /\ ledger_from_entries(l.entries, max) = l
           /\ l.total \in 0..max /\ l.total \in Nat
           /\ l.entries \in EntriesUpTo(t)
           /\ \A w \in Nat : /\ Tallied(prune_entries(l, t, w), t, max)
                             /\ prune_entries(l, t, w).total <= l.total
                             /\ prune_protocol_call_entries(l, t, w) = prune_entries(l, t, w)
           /\ \A a \in Nat \ {0} : l.total + a <= max =>
                  /\ Tallied(admit_to_ledger(l, t, a, max), t, max)
                  /\ admit_to_ledger(l, t, a, max).total = l.total + a
<1>1. PICK c, w : Covered(l, c, t, w, max)
    BY DEF Tallied
<1>2. /\ ledger_from_entries(l.entries, max) = l /\ l.total \in 0..max
      /\ l.entries \in EntriesUpTo(t)
    BY <1>1, CoveredTotal
<1>3. l.total \in Nat
    BY <1>2
<1>4. ASSUME NEW v \in Nat
      PROVE  /\ Tallied(prune_entries(l, t, v), t, max)
             /\ prune_entries(l, t, v).total <= l.total
             /\ prune_protocol_call_entries(l, t, v) = prune_entries(l, t, v)
    <2>1. Covered(l, Silence, t, v, max)
        BY TalliedCovers
    <2>2. /\ Covered(prune_entries(l, t, v), Silence, t, v, max)
          /\ prune_entries(l, t, v).total <= l.total
          /\ prune_protocol_call_entries(l, t, v) = prune_entries(l, t, v)
        BY <2>1, PruneCovers
    <2> QED  BY <2>2, Zenon DEF Tallied
<1>5. ASSUME NEW a \in Nat \ {0}, l.total + a <= max
      PROVE  /\ Tallied(admit_to_ledger(l, t, a, max), t, max)
             /\ admit_to_ledger(l, t, a, max).total = l.total + a
    <2>1. 0 \in Nat /\ Covered(l, Silence, t, 0, max)
        BY TalliedCovers
    <2>2. t \in Nat \ {0}
        BY <1>1 DEF Covered, Accounts
    <2>3. Adds(Silence, Silence, t, a)
        <3>1. \A u \in 0..t : Silence[u] = 0
            BY <2>2 DEF Silence
        <3>2. Silence[t] = 0 /\ \A u \in 0..(t - 1) : u \in 0..t
            BY <2>2 DEF Silence
        <3> QED  BY <3>1, <3>2 DEF Adds
    <2>4. /\ Covered(admit_to_ledger(l, t, a, max), Silence, t, 0, max)
          /\ admit_to_ledger(l, t, a, max).total = l.total + a
        BY <1>5, <2>1, <2>3, AdmitCovers
    <2> QED  BY <2>4, Zenon DEF Tallied
<1> QED  BY <1>2, <1>3, <1>4, <1>5

(* All ledgers of an account, each tallied. *)
Exact(L, t) ==
    /\ t \in Nat \ {0}
    /\ L \in LedgersUpTo(t)
    /\ Tallied(L.global, t, I128_MAX)
    /\ \A r \in Address : Tallied(RecipientLedger(L, r), t, I128_MAX)
    /\ Tallied(L.calls, t, U32_MAX)

(* Storing and loading them loses nothing, *)
LEMMA ExactReloads ==
    ASSUME NEW L, NEW t, Exact(L, t)
    PROVE  from_state(to_state(L)) = L
<1>1. /\ L \in LedgersUpTo(t) /\ L.recipients \in PerRecipient(LedgerUpTo(t))
      /\ L = [global |-> L.global, recipients |-> L.recipients, calls |-> L.calls]
    BY DEF Exact, LedgersUpTo
<1>2. /\ DOMAIN L.recipients \subseteq Address
      /\ L.recipients = [r \in DOMAIN L.recipients |-> L.recipients[r]]
    BY <1>1, PerRecipientIs
<1>3. /\ ledger_from_entries(L.global.entries, I128_MAX) = L.global
      /\ ledger_from_entries(L.calls.entries, U32_MAX) = L.calls
    BY TalliedLedger DEF Exact
<1>4. ASSUME NEW r \in DOMAIN L.recipients
      PROVE  ledger_from_entries(L.recipients[r].entries, I128_MAX) = L.recipients[r]
    <2>1. Tallied(RecipientLedger(L, r), t, I128_MAX) /\ RecipientLedger(L, r) = L.recipients[r]
        BY <1>2 DEF Exact, RecipientLedger
    <2> QED  BY <2>1, TalliedLedger
<1> DEFINE D == DOMAIN L.recipients
           es == [r \in D |-> L.recipients[r].entries]
<1>5. [r \in DOMAIN es |-> ledger_from_entries(es[r], I128_MAX)] = L.recipients
    <2>1. DOMAIN es = D /\ \A r \in D : es[r] = L.recipients[r].entries
        OBVIOUS
    <2> HIDE DEF es
    <2> QED  BY <1>2, <1>4, <2>1
<1>6. /\ to_state(L).entries = L.global.entries
      /\ to_state(L).recipients = es
      /\ to_state(L).protocol_call_entries = L.calls.entries
    BY DEF to_state
<1> HIDE DEF es, D
<1>7. from_state(to_state(L))
          = [global |-> ledger_from_entries(L.global.entries, I128_MAX),
             recipients |-> [r \in DOMAIN es |-> ledger_from_entries(es[r], I128_MAX)],
             calls |-> ledger_from_entries(L.calls.entries, U32_MAX)]
    BY <1>6 DEF from_state
<1> QED  BY <1>1, <1>3, <1>5, <1>7, Zenon

(* and pruning them leaves them so. *)
LEMMA ExactPruned ==
    ASSUME NEW L, NEW t, Exact(L, t), NEW w \in Nat
    PROVE  Exact(prune(L, t, w), t) /\ prune(L, t, w).calls.total <= L.calls.total
<1> DEFINE P == prune(L, t, w)
<1>1. t \in Nat \ {0} /\ L \in LedgersUpTo(t)
    BY DEF Exact
<1>2. P \in LedgersUpTo(t)
    BY <1>1, PruneLedgersUpTo
<1>3. P.global = prune_entries(L.global, t, w) /\ P.calls = prune_protocol_call_entries(L.calls, t, w)
    BY DEF prune
<1>4. Tallied(P.global, t, I128_MAX) /\ Tallied(P.calls, t, U32_MAX) /\ P.calls.total <= L.calls.total
    <2> HIDE DEF P
    <2>1. /\ Tallied(prune_entries(L.global, t, w), t, I128_MAX)
          /\ Tallied(prune_entries(L.calls, t, w), t, U32_MAX)
          /\ prune_entries(L.calls, t, w).total <= L.calls.total
          /\ prune_protocol_call_entries(L.calls, t, w) = prune_entries(L.calls, t, w)
        BY TalliedLedger DEF Exact
    <2> QED  BY <1>3, <2>1, Zenon
<1>5. ASSUME NEW r \in Address PROVE Tallied(RecipientLedger(P, r), t, I128_MAX)
    <2> DEFINE l == RecipientLedger(L, r)
    <2>1. Tallied(l, t, I128_MAX)
        BY DEF Exact
    <2>2. RecipientLedger(P, r) = IF r \in DOMAIN L.recipients THEN prune_entries(l, t, w) ELSE l
        BY DEF prune, RecipientLedger
    <2> HIDE DEF l, P
    <2>3. Tallied(prune_entries(l, t, w), t, I128_MAX)
        BY <2>1, TalliedLedger
    <2> QED  BY <2>1, <2>2, <2>3, Zenon
<1> HIDE DEF P
<1>6. Exact(P, t)
    BY <1>1, <1>2, <1>4, <1>5, Zenon DEF Exact
<1> QED  BY <1>4, <1>6 DEF P

(* What a call adds leaves every total below the maximum of its type. *)
Fits(C, cfg, call) ==
    /\ PaysGlobal(cfg, call) =>
           call.amount \in Nat \ {0} /\ C.global.total + call.amount <= I128_MAX
    /\ \A r \in Address : PaysOwn(cfg, call, r) =>
           call.amount \in Nat \ {0} /\ RecipientLedger(C, r).total + call.amount <= I128_MAX
    /\ CountsCall(cfg, call) => C.calls.total + 1 <= U32_MAX

(* Then the ledgers stay exact, and each total grows by what is added. *)
LEMMA ExtendedExact ==
    ASSUME NEW C, NEW t, Exact(C, t), NEW E \in LedgersUpTo(t), NEW cfg, NEW call,
           Extended(C, E, cfg, call, t), Fits(C, cfg, call)
    PROVE  /\ Exact(E, t)
           /\ E.global.total = C.global.total + IF PaysGlobal(cfg, call) THEN call.amount ELSE 0
           /\ \A r \in Address :
                  RecipientLedger(E, r).total
                      = RecipientLedger(C, r).total
                            + IF PaysOwn(cfg, call, r) THEN call.amount ELSE 0
           /\ E.calls.total = C.calls.total + IF CountsCall(cfg, call) THEN 1 ELSE 0
<1>1. ASSUME NEW l, NEW max, Tallied(l, t, max), NEW on \in BOOLEAN, NEW a,
             on => a \in Nat \ {0} /\ l.total + a <= max,
             NEW m, m = IF on THEN admit_to_ledger(l, t, a, max) ELSE l
      PROVE  Tallied(m, t, max) /\ m.total = l.total + IF on THEN a ELSE 0
    <2>1. CASE on
        <3>1. a \in Nat \ {0} /\ l.total + a <= max /\ m = admit_to_ledger(l, t, a, max)
            BY <1>1, <2>1
        <3>2. /\ Tallied(admit_to_ledger(l, t, a, max), t, max)
              /\ admit_to_ledger(l, t, a, max).total = l.total + a
            <4>1. \A x \in Nat \ {0} : l.total + x <= max =>
                      /\ Tallied(admit_to_ledger(l, t, x, max), t, max)
                      /\ admit_to_ledger(l, t, x, max).total = l.total + x
                BY <1>1, TalliedLedger
            <4> QED  BY <3>1, <4>1, Zenon
        <3>3. Tallied(m, t, max) /\ m.total = l.total + a
            BY <3>1, <3>2, Zenon
        <3> QED  BY <2>1, <3>3
    <2>2. CASE ~ on
        <3>1. m = l /\ l.total \in Nat
            BY <1>1, <2>2, TalliedLedger
        <3> QED  BY <1>1, <2>2, <3>1
    <2> QED  BY <1>1, <2>1, <2>2
<1>2. PaysGlobal(cfg, call) \in BOOLEAN /\ CountsCall(cfg, call) \in BOOLEAN
    BY Zenon DEF PaysGlobal, CountsCall
<1>3. /\ Tallied(E.global, t, I128_MAX)
      /\ E.global.total = C.global.total + IF PaysGlobal(cfg, call) THEN call.amount ELSE 0
    <2> DEFINE on == PaysGlobal(cfg, call)
               a == call.amount
               l == C.global
               m == E.global
    <2>1. /\ Tallied(l, t, I128_MAX) /\ on \in BOOLEAN
          /\ on => a \in Nat \ {0} /\ l.total + a <= I128_MAX
          /\ m = IF on THEN admit_to_ledger(l, t, a, I128_MAX) ELSE l
        BY <1>2 DEF Exact, Fits, Extended
    <2> HIDE DEF on, a, l, m
    <2>2. Tallied(m, t, I128_MAX) /\ m.total = l.total + IF on THEN a ELSE 0
        BY <1>1, <2>1
    <2> QED  BY <2>2 DEF on, a, l, m
<1>4. /\ Tallied(E.calls, t, U32_MAX)
      /\ E.calls.total = C.calls.total + IF CountsCall(cfg, call) THEN 1 ELSE 0
    <2> DEFINE on == CountsCall(cfg, call)
               a == 1
               l == C.calls
               m == E.calls
    <2>1. /\ Tallied(l, t, U32_MAX) /\ on \in BOOLEAN
          /\ on => a \in Nat \ {0} /\ l.total + a <= U32_MAX
          /\ m = IF on THEN admit_to_ledger(l, t, a, U32_MAX) ELSE l
        BY <1>2 DEF Exact, Fits, Extended
    <2> HIDE DEF on, a, l, m
    <2>2. Tallied(m, t, U32_MAX) /\ m.total = l.total + IF on THEN a ELSE 0
        BY <1>1, <2>1
    <2> QED  BY <2>2 DEF on, a, l, m
<1>5. ASSUME NEW r \in Address
      PROVE  /\ Tallied(RecipientLedger(E, r), t, I128_MAX)
             /\ RecipientLedger(E, r).total
                    = RecipientLedger(C, r).total + IF PaysOwn(cfg, call, r) THEN call.amount ELSE 0
    <2> DEFINE on == PaysOwn(cfg, call, r)
               a == call.amount
               l == RecipientLedger(C, r)
               m == RecipientLedger(E, r)
    <2>0. on \in BOOLEAN
        BY Zenon DEF PaysOwn
    <2>1. /\ Tallied(l, t, I128_MAX) /\ on \in BOOLEAN
          /\ on => a \in Nat \ {0} /\ l.total + a <= I128_MAX
          /\ m = IF on THEN admit_to_ledger(l, t, a, I128_MAX) ELSE l
        BY <2>0 DEF Exact, Fits, Extended
    <2> HIDE DEF on, a, l, m
    <2>2. Tallied(m, t, I128_MAX) /\ m.total = l.total + IF on THEN a ELSE 0
        BY <1>1, <2>1
    <2> QED  BY <2>2 DEF on, a, l, m
<1>6. Exact(E, t)
    BY <1>3, <1>4, <1>5 DEF Exact
<1> QED  BY <1>3, <1>4, <1>5, <1>6

(* Nothing that was admitted just now has expired. *)
LEMMA ExtendedLive ==
    ASSUME NEW C, NEW t, Exact(C, t), NEW E \in LedgersUpTo(t), NEW cfg, NEW call,
           Extended(C, E, cfg, call, t), Fits(C, cfg, call),
           NEW w \in Nat, AllLedgersLive(C, t, w)
    PROVE  AllLedgersLive(E, t, w)
<1>1. t \in Nat \ {0}
    BY DEF Exact
<1>2. ASSUME NEW l, NEW max, Tallied(l, t, max), AllLive(l.entries, t, w), NEW on \in BOOLEAN,
             NEW a, on => a \in Nat \ {0},
             NEW m, m = IF on THEN admit_to_ledger(l, t, a, max) ELSE l
      PROVE  AllLive(m.entries, t, w)
    <2>1. CASE on
        <3>1. a \in Nat \ {0} /\ m = admit_to_ledger(l, t, a, max) /\ l.entries \in EntriesUpTo(t)
            BY <1>2, <2>1, TalliedLedger
        <3>2. m.entries = AdmitEntry(l.entries, t, a, max)
            BY <3>1 DEF admit_to_ledger
        <3> QED  BY <1>1, <1>2, <3>1, <3>2, AdmitLive
    <2>2. CASE ~ on
        BY <1>2, <2>2
    <2> QED  BY <1>2, <2>1, <2>2
<1>3. AllLive(E.global.entries, t, w)
    <2> DEFINE on == PaysGlobal(cfg, call)
               a == call.amount
               l == C.global
               m == E.global
    <2>0. on \in BOOLEAN
        BY Zenon DEF PaysGlobal
    <2>1. /\ Tallied(l, t, I128_MAX) /\ AllLive(l.entries, t, w) /\ (on => a \in Nat \ {0})
          /\ m = IF on THEN admit_to_ledger(l, t, a, I128_MAX) ELSE l
        BY DEF Exact, Fits, Extended, AllLedgersLive
    <2> HIDE DEF on, a, l, m
    <2>2. AllLive(m.entries, t, w)
        BY <1>2, <2>0, <2>1
    <2> QED  BY <2>2 DEF m
<1>4. AllLive(E.calls.entries, t, w)
    <2> DEFINE on == CountsCall(cfg, call)
               a == 1
               l == C.calls
               m == E.calls
    <2>0. on \in BOOLEAN
        BY Zenon DEF CountsCall
    <2>1. /\ Tallied(l, t, U32_MAX) /\ AllLive(l.entries, t, w) /\ (on => a \in Nat \ {0})
          /\ m = IF on THEN admit_to_ledger(l, t, a, U32_MAX) ELSE l
        BY DEF Exact, Fits, Extended, AllLedgersLive
    <2> HIDE DEF on, a, l, m
    <2>2. AllLive(m.entries, t, w)
        BY <1>2, <2>0, <2>1
    <2> QED  BY <2>2 DEF m
<1>5. ASSUME NEW r \in DOMAIN E.recipients PROVE AllLive(E.recipients[r].entries, t, w)
    <2> DEFINE on == PaysOwn(cfg, call, r)
               a == call.amount
               l == RecipientLedger(C, r)
               m == RecipientLedger(E, r)
    <2>0. on \in BOOLEAN
        BY Zenon DEF PaysOwn
    <2>1. r \in Address
        <3>1. E.recipients \in PerRecipient(LedgerUpTo(t))
            BY DEF LedgersUpTo
        <3> QED  BY <1>5, <3>1, PerRecipientIs
    <2>2. /\ Tallied(l, t, I128_MAX) /\ (on => a \in Nat \ {0})
          /\ m = IF on THEN admit_to_ledger(l, t, a, I128_MAX) ELSE l
        BY <2>1 DEF Exact, Fits, Extended
    <2>3. AllLive(l.entries, t, w)
        <3>1. CASE r \in DOMAIN C.recipients
            <4>1. l = C.recipients[r] /\ AllLive(C.recipients[r].entries, t, w)
                BY <3>1 DEF RecipientLedger, AllLedgersLive
            <4> HIDE DEF l
            <4> QED  BY <4>1
        <3>2. CASE r \notin DOMAIN C.recipients
            <4>1. l.entries = <<>>
                BY <3>2 DEF RecipientLedger, EmptyLedger
            <4>2. Len(<<>>) = 0
                OBVIOUS
            <4> HIDE DEF l
            <4> QED  BY <4>1, <4>2 DEF AllLive
        <3> QED  BY <3>1, <3>2
    <2>4. m = E.recipients[r]
        BY <1>5 DEF RecipientLedger
    <2> HIDE DEF on, a, l, m
    <2>5. AllLive(m.entries, t, w)
        BY <1>2, <2>0, <2>2, <2>3
    <2> QED  BY <2>4, <2>5
<1> QED  BY <1>3, <1>4, <1>5 DEF AllLedgersLive

(* An allowed call fits the ledger it was judged on. *)
LEMMA AllowedFits ==
    ASSUME NEW cfg, NEW t, NEW live, Exact(live, t), live.calls.total < U32_MAX, NEW ctx,
           ContextVerdict(cfg, live, NothingStaged, parse_call(ctx, cfg)) = Allowed
    PROVE  Fits(live, cfg, parse_call(ctx, cfg))
<1> DEFINE call == parse_call(ctx, cfg)
<1>1. /\ live.global.total \in Nat /\ live.calls.total \in Nat
      /\ \A r \in Address : RecipientLedger(live, r).total \in Nat
    BY TalliedLedger DEF Exact
<1>2. CASE call.kind = "AssetTransfer"
    <2>1. /\ call.to \in Address /\ call.amount \in Nat \ {0}
          /\ TransferVerdict(cfg, live, NothingStaged, call) = Allowed
        BY <1>2, ContextAnswer
    <2> HIDE DEF call
    <2>2. NothingStaged.pending = 0 /\ StagedFor(NothingStaged, call.to) = 0
        BY DEF NothingStaged, StagedFor
    <2>3. cfg.window_cap > 0 =>
              ~ ExceedsCap(live.global.total, NothingStaged.pending, call.amount, cfg.window_cap)
        BY <2>1, TransferAnswer
    <2>4. recipient_override_cap(cfg, call.to) # None =>
              ~ ExceedsCap(recipient_total(live, call.to), StagedFor(NothingStaged, call.to),
                           call.amount, recipient_override_cap(cfg, call.to))
        BY <2>1, TransferAnswer
    <2>5. cfg.window_cap > 0 => live.global.total + call.amount <= I128_MAX
        BY <1>1, <2>1, <2>2, <2>3, WindowBounds DEF ExceedsCap
    <2>6. recipient_override_cap(cfg, call.to) # None =>
              RecipientLedger(live, call.to).total + call.amount <= I128_MAX
        <3>1. recipient_total(live, call.to) = RecipientLedger(live, call.to).total
            BY DEF recipient_total
        <3> QED  BY <1>1, <2>1, <2>2, <2>4, <3>1, WindowBounds DEF ExceedsCap
    <2>7. Fits(live, cfg, call)
        BY <1>2, <2>1, <2>5, <2>6 DEF Fits, PaysGlobal, PaysOwn, CountsCall
    <2> QED  BY <2>7 DEF call
<1>3. CASE call.kind # "AssetTransfer"
    <2> HIDE DEF call
    <2>1. Fits(live, cfg, call)
        BY <1>1, <1>3, WindowBounds DEF Fits, PaysGlobal, PaysOwn, CountsCall
    <2> QED  BY <2>1 DEF call
<1> QED  BY <1>2, <1>3

(* Two tables with the same conditions and reasons give the same answer. *)
LEMMA SameTable ==
    ASSUME NEW a, NEW b, Len(a) = Len(b),
           \A i \in 1..Len(a) : (a[i][1] <=> b[i][1]) /\ a[i][2] = b[i][2],
           Len(a) \in Nat
    PROVE  FirstApplicable(a) = FirstApplicable(b)
<1> DEFINE n == Len(a)
           I == {i \in 1..n : a[i][1]}
           J == {i \in 1..n : b[i][1]}
           k == SelectInSeq(a, LAMBDA row : row[1])
           m == SelectInSeq(b, LAMBDA row : row[1])
<1>1. I = J
    OBVIOUS
<1>2. /\ k = (IF I # {} THEN Min(I) ELSE 0)
      /\ m = (IF J # {} THEN Min(J) ELSE 0)
    BY DEF SelectInSeq
<1>3. k = m
    <2> HIDE DEF I, J, k, m
    <2> QED  BY <1>1, <1>2, Zenon
<1>4. I \subseteq Nat /\ I \subseteq 1..n
    OBVIOUS
<1>5. k = 0 \/ k \in 1..n
    <2> HIDE DEF I, k
    <2>1. CASE I = {}
        BY <1>2, <2>1
    <2>2. CASE I # {}
        <3>1. Min(I) \in I
            BY <1>4, <2>2, MinIn
        <3> QED  BY <1>2, <1>4, <2>2, <3>1
    <2> QED  BY <2>1, <2>2
<1>6. /\ FirstApplicable(a) = IF k = 0 THEN Allowed ELSE a[k][2]
      /\ FirstApplicable(b) = IF m = 0 THEN Allowed ELSE b[m][2]
    BY DEF FirstApplicable
<1> HIDE DEF k, m
<1> QED  BY <1>3, <1>5, <1>6

(* A transfer's window row, by the totals it looks at. *)
OverWindow(cfg, ledger, s, call) ==
    \/ cfg.window_cap > 0
       /\ ExceedsCap(ledger.global.total, s.pending, call.amount, cfg.window_cap)
    \/ recipient_override_cap(cfg, call.to) # None
       /\ ExceedsCap(recipient_total(ledger, call.to), StagedFor(s, call.to),
                     call.amount, recipient_override_cap(cfg, call.to))

(* A call is judged by what the ledger and the stage add up to. *)
LEMMA SameVerdict ==
    ASSUME NEW cfg, NEW L, NEW M, NEW s, NEW u, NEW ctx,
           LET call == parse_call(ctx, cfg)
           IN  /\ call.kind = "AssetTransfer" =>
                      (OverWindow(cfg, L, s, call) <=> OverWindow(cfg, M, u, call))
               /\ call.kind = "Protocol" /\ cfg.protocol_calls_per_window > 0 =>
                      ProjectedCalls(L, s) = ProjectedCalls(M, u)
    PROVE  ContextVerdict(cfg, L, s, parse_call(ctx, cfg))
               = ContextVerdict(cfg, M, u, parse_call(ctx, cfg))
<1> DEFINE call == parse_call(ctx, cfg)
           v == ContextVerdict(cfg, L, s, call)
           x == ContextVerdict(cfg, M, u, call)
<1>1. /\ call.kind \in {"CreateContract", "SelfCall", "AssetTransfer", "AssetOther",
                        "Protocol", "Unknown"}
    BY ParsedCall
<1>0. /\ call.kind = "AssetTransfer" =>
             (OverWindow(cfg, L, s, call) <=> OverWindow(cfg, M, u, call))
      /\ call.kind = "Protocol" /\ cfg.protocol_calls_per_window > 0 =>
             ProjectedCalls(L, s) = ProjectedCalls(M, u)
    OBVIOUS
<1> HIDE DEF call
<1>2. CASE call.kind = "AssetTransfer"
    <2>1. v = TransferVerdict(cfg, L, s, call) /\ x = TransferVerdict(cfg, M, u, call)
        BY <1>2 DEF ContextVerdict
    <2> DEFINE perTx == effective_per_tx_cap(cfg, call.asset)
               paused == AssetPaused(cfg, call.asset)
               invalid == InvalidAmount(call.amount)
               blocked == call.to \in ToSet(cfg.blocked_recipients)
               unknown == ~ cfg.allow_any_recipient /\ call.to \notin ToSet(cfg.recipients)
               large == perTx # None /\ call.amount > perTx
               over == OverWindow(cfg, L, s, call)
               more == OverWindow(cfg, M, u, call)
               a == <<<<paused, "AssetNotAllowed">>, <<invalid, "InvalidAmount">>,
                      <<blocked, "RecipientBlocked">>, <<unknown, "RecipientNotAllowed">>,
                      <<large, "PerTxCapExceeded">>, <<over, "WindowCapExceeded">>>>
               b == <<<<paused, "AssetNotAllowed">>, <<invalid, "InvalidAmount">>,
                      <<blocked, "RecipientBlocked">>, <<unknown, "RecipientNotAllowed">>,
                      <<large, "PerTxCapExceeded">>, <<more, "WindowCapExceeded">>>>
    <2>2. TransferVerdict(cfg, L, s, call) = FirstApplicable(a)
        BY DEF TransferVerdict, OverWindow
    <2>3. TransferVerdict(cfg, M, u, call) = FirstApplicable(b)
        BY DEF TransferVerdict, OverWindow
    <2>4. over <=> more
        BY <1>0, <1>2
    <2> HIDE DEF paused, invalid, blocked, unknown, large, over, more
    <2>5. Len(a) = 6 /\ Len(b) = 6
        OBVIOUS
    <2>6. /\ (a[1][1] <=> b[1][1]) /\ a[1][2] = b[1][2] /\ (a[2][1] <=> b[2][1]) /\ a[2][2] = b[2][2]
          /\ (a[3][1] <=> b[3][1]) /\ a[3][2] = b[3][2] /\ (a[4][1] <=> b[4][1]) /\ a[4][2] = b[4][2]
          /\ (a[5][1] <=> b[5][1]) /\ a[5][2] = b[5][2] /\ (a[6][1] <=> b[6][1]) /\ a[6][2] = b[6][2]
        BY <2>4
    <2> HIDE DEF a, b
    <2>7. \A i \in 1..6 : (a[i][1] <=> b[i][1]) /\ a[i][2] = b[i][2]
        BY <2>6
    <2>8. FirstApplicable(a) = FirstApplicable(b)
        BY <2>5, <2>7, SameTable
    <2> QED  BY <2>1, <2>2, <2>3, <2>8 DEF call
<1>3. CASE call.kind = "Protocol"
    <2>1. v = ProtocolVerdict(cfg, L, s, call) /\ x = ProtocolVerdict(cfg, M, u, call)
        BY <1>3 DEF ContextVerdict
    <2> DEFINE rule == cfg.protocols[SelectInSeq(cfg.protocols,
                                         LAMBDA r : r.contract = call.contract)]
               paused == rule.paused
               unlisted == rule.fns # None /\ call.fn \notin ToSet(rule.fns)
               over == /\ cfg.protocol_calls_per_window > 0
                       /\ ProjectedCalls(L, s) > cfg.protocol_calls_per_window
               more == /\ cfg.protocol_calls_per_window > 0
                       /\ ProjectedCalls(M, u) > cfg.protocol_calls_per_window
               a == <<<<paused, "ProtocolNotAllowed">>, <<unlisted, "FunctionNotAllowed">>,
                      <<over, "ProtocolCallRateExceeded">>>>
               b == <<<<paused, "ProtocolNotAllowed">>, <<unlisted, "FunctionNotAllowed">>,
                      <<more, "ProtocolCallRateExceeded">>>>
    <2>2. ProtocolVerdict(cfg, L, s, call) = FirstApplicable(a)
        BY DEF ProtocolVerdict
    <2>3. ProtocolVerdict(cfg, M, u, call) = FirstApplicable(b)
        BY DEF ProtocolVerdict
    <2>4. over <=> more
        BY <1>0, <1>3, Zenon
    <2> HIDE DEF paused, unlisted, over, more
    <2>5. Len(a) = 3 /\ Len(b) = 3
        OBVIOUS
    <2>6. /\ (a[1][1] <=> b[1][1]) /\ a[1][2] = b[1][2] /\ (a[2][1] <=> b[2][1]) /\ a[2][2] = b[2][2]
          /\ (a[3][1] <=> b[3][1]) /\ a[3][2] = b[3][2]
        BY <2>4
    <2> HIDE DEF a, b
    <2>7. \A i \in 1..3 : (a[i][1] <=> b[i][1]) /\ a[i][2] = b[i][2]
        BY <2>6
    <2>8. FirstApplicable(a) = FirstApplicable(b)
        BY <2>5, <2>7, SameTable
    <2> QED  BY <2>1, <2>2, <2>3, <2>8 DEF call
<1>4. CASE call.kind = "SelfCall"
    <2>1. v = SelfVerdict(call.fn) /\ x = SelfVerdict(call.fn)
        BY <1>4 DEF ContextVerdict
    <2> QED  BY <2>1 DEF call
<1>5. CASE call.kind = "AssetOther"
    <2> DEFINE other == IF AssetPaused(cfg, call.asset) THEN "AssetNotAllowed" ELSE "AssetFnNotAllowed"
    <2>1. v = other /\ x = other
        BY <1>5 DEF ContextVerdict
    <2> QED  BY <2>1 DEF call
<1>6. CASE call.kind = "CreateContract"
    <2>1. v = "CreateContractNotAllowed" /\ x = "CreateContractNotAllowed"
        BY <1>6 DEF ContextVerdict
    <2> QED  BY <2>1 DEF call
<1>7. CASE call.kind = "Unknown"
    <2>1. v = "UnknownContract" /\ x = "UnknownContract"
        BY <1>7 DEF ContextVerdict
    <2> QED  BY <2>1 DEF call
<1> QED  BY <1>1, <1>2, <1>3, <1>4, <1>5, <1>6, <1>7 DEF call

(* What one allowed context has staged. *)
LEMMA StagedByOne ==
    ASSUME NEW cfg, NEW ledger, NEW ctx,
           AllAllowed(EvalContext(cfg, ledger, NothingStaged, ctx).verdicts)
    PROVE  LET call == parse_call(ctx, cfg)
               s == EvalContext(cfg, ledger, NothingStaged, ctx)
           IN  /\ s \in Stage /\ ContextVerdict(cfg, ledger, NothingStaged, call) = Allowed
               /\ s.pending = IF PaysGlobal(cfg, call) THEN call.amount ELSE 0
               /\ \A r : StagedFor(s, r) = IF PaysOwn(cfg, call, r) THEN call.amount ELSE 0
               /\ s.calls = IF CountsCall(cfg, call) THEN 1 ELSE 0
<1> DEFINE call == parse_call(ctx, cfg)
           s == EvalContext(cfg, ledger, NothingStaged, ctx)
           glob == call.kind = "AssetTransfer" /\ cfg.window_cap > 0
           own == call.kind = "AssetTransfer" /\ recipient_override_cap(cfg, call.to) # None
<1>0. /\ NothingStaged \in Stage /\ NothingStaged.pending = 0 /\ NothingStaged.calls = 0
      /\ DOMAIN NothingStaged.recipients = {}
    BY NothingIsStage DEF NothingStaged
<1>1. /\ s \in Stage /\ ContextVerdict(cfg, ledger, NothingStaged, call) = Allowed
      /\ s.pending = IF glob THEN saturating_add(NothingStaged.pending, call.amount, I128_MAX)
                     ELSE NothingStaged.pending
      /\ s.recipients = IF own THEN MoreFor(NothingStaged, call.to, call.amount)
                        ELSE NothingStaged.recipients
    BY <1>0, EvalContextType, OneMoreAllowed
<1>2. s.calls = IF CountsCall(cfg, call) THEN saturating_add(NothingStaged.calls, 1, U32_MAX)
                ELSE NothingStaged.calls
    BY <1>0, <1>1, OneMoreCounted
<1>3. call.kind = "AssetTransfer" =>
          call.amount \in Nat \ {0} /\ saturating_add(0, call.amount, I128_MAX) = call.amount
    <2>1. call.kind = "AssetTransfer" => call.amount \in Nat \ {0} /\ call.amount \in I128
        BY <1>1, ContextAnswer, ParsedCall
    <2> HIDE DEF call
    <2>2. call.amount \in I128 => call.amount <= I128_MAX
        BY WindowBounds DEF I128
    <2> QED  BY <2>1, <2>2, WindowBounds DEF saturating_add
<1> HIDE DEF call, s
<1>4. s.pending = IF PaysGlobal(cfg, call) THEN call.amount ELSE 0
    BY <1>0, <1>1, <1>3 DEF PaysGlobal
<1>5. saturating_add(0, 1, U32_MAX) = 1
    BY WindowBounds DEF saturating_add
<1>6. s.calls = IF CountsCall(cfg, call) THEN 1 ELSE 0
    BY <1>0, <1>2, <1>5, Zenon
<1>7. ASSUME NEW r PROVE StagedFor(s, r) = IF PaysOwn(cfg, call, r) THEN call.amount ELSE 0
    <2>0. StagedFor(NothingStaged, call.to) = 0
        BY <1>0 DEF StagedFor
    <2>1. CASE own
        <3> DEFINE f == MoreFor(NothingStaged, call.to, call.amount)
        <3>1. DOMAIN f = {call.to}
              /\ f[call.to] = saturating_add(StagedFor(NothingStaged, call.to), call.amount, I128_MAX)
            BY <1>0 DEF MoreFor
        <3>2. s.recipients = f
            BY <1>1, <2>1
        <3> HIDE DEF f
        <3>3. s.recipients[call.to] = call.amount /\ DOMAIN s.recipients = {call.to}
            BY <1>3, <2>0, <2>1, <3>1, <3>2
        <3> QED  BY <2>1, <3>3 DEF StagedFor, PaysOwn
    <2>2. CASE ~ own
        BY <1>0, <1>1, <2>2 DEF StagedFor, PaysOwn
    <2> QED  BY <2>1, <2>2
<1> QED  BY <1>1, <1>4, <1>6, <1>7 DEF call, s

(* Nothing recorded is lost, and a recipient that is new has an entry. *)
Grown(C, E) ==
    /\ E.global.entries = <<>> => C.global.entries = <<>>
    /\ \A r \in Address : RecipientLedger(E, r).entries = <<>> =>
           RecipientLedger(C, r).entries = <<>> /\ (r \in DOMAIN E.recipients => r \in DOMAIN C.recipients)

(* A ledger that a call extends has grown. *)
LEMMA ExtendedGrown ==
    ASSUME NEW t \in Nat \ {0}, NEW C \in LedgersUpTo(t), NEW E, NEW cfg, NEW call,
           Extended(C, E, cfg, call, t), call.kind = "AssetTransfer" => call.amount \in Nat \ {0}
    PROVE  Grown(C, E)
<1>1. ASSUME NEW l \in LedgerUpTo(t), call.kind = "AssetTransfer"
      PROVE  admit_to_ledger(l, t, call.amount, I128_MAX).entries # <<>>
    <2>1. l.entries \in EntriesUpTo(t) /\ call.amount \in Nat \ {0} /\ I128_MAX \in Nat \ {0}
        BY <1>1, WindowBounds DEF LedgerUpTo
    <2>2. AdmitEntry(l.entries, t, call.amount, I128_MAX) # <<>>
        BY <2>1, AdmitLeavesEntry
    <2> QED  BY <2>2 DEF admit_to_ledger
<1>2. C.global \in LedgerUpTo(t) /\ \A r \in Address : RecipientLedger(C, r) \in LedgerUpTo(t)
    <2>1. C.global \in LedgerUpTo(t) /\ C.recipients \in PerRecipient(LedgerUpTo(t))
        BY DEF LedgersUpTo
    <2>2. EmptyLedger \in LedgerUpTo(t)
        BY EmptyUpTo DEF LedgersUpTo, Ledger_empty
    <2>3. C.recipients \in [DOMAIN C.recipients -> LedgerUpTo(t)]
        BY <2>1, PerRecipientIs
    <2>4. ASSUME NEW r \in Address PROVE RecipientLedger(C, r) \in LedgerUpTo(t)
        BY <2>2, <2>3 DEF RecipientLedger
    <2> QED  BY <2>1, <2>4
<1>3. E.global.entries = <<>> => C.global.entries = <<>>
    <2>1. CASE PaysGlobal(cfg, call)
        <3>1. E.global = admit_to_ledger(C.global, t, call.amount, I128_MAX)
              /\ call.kind = "AssetTransfer"
            BY <2>1 DEF Extended, PaysGlobal
        <3> QED  BY <1>1, <1>2, <3>1, Zenon
    <2>2. CASE ~ PaysGlobal(cfg, call)
        BY <2>2 DEF Extended
    <2> QED  BY <2>1, <2>2
<1>4. ASSUME NEW r \in Address, RecipientLedger(E, r).entries = <<>>
      PROVE  RecipientLedger(C, r).entries = <<>> /\ (r \in DOMAIN E.recipients => r \in DOMAIN C.recipients)
    <2>1. CASE PaysOwn(cfg, call, r)
        <3>1. RecipientLedger(E, r) = admit_to_ledger(RecipientLedger(C, r), t, call.amount, I128_MAX)
              /\ call.kind = "AssetTransfer"
            BY <2>1 DEF Extended, PaysOwn
        <3> QED  BY <1>1, <1>2, <1>4, <3>1, Zenon
    <2>2. CASE ~ PaysOwn(cfg, call, r)
        <3>1. RecipientLedger(E, r) = RecipientLedger(C, r)
              /\ DOMAIN E.recipients = DOMAIN C.recipients \union {x \in Address : PaysOwn(cfg, call, x)}
            BY <2>2 DEF Extended
        <3> QED  BY <1>4, <2>2, <3>1
    <2> QED  BY <2>1, <2>2
<1> QED  BY <1>3, <1>4, Zenon DEF Grown

(* A cap sees the sum of what is in the ledger and what is staged. *)
LEMMA ExceedsSum ==
    ASSUME NEW a \in Nat, NEW p \in Nat, NEW amount \in Int, NEW cap
    PROVE  ExceedsCap(a, p, amount, cap) <=> ExceedsCap(a + p, 0, amount, cap)
<1>1. (a + p) + 0 = a + p
    OBVIOUS
<1> QED  BY <1>1, Zenon DEF ExceedsCap

(* The stages of two contexts of one request, s and e; and what becomes of *)
(* the second alone, u, after the first was committed to M.                *)
TwoStages(cfg, live, t, x, y, s, e, M, u) ==
    /\ s = EvalContext(cfg, live, NothingStaged, x) /\ e = EvalContext(cfg, live, s, y)
    /\ M = CommitStaged(live, s, t) /\ u = EvalContext(cfg, M, NothingStaged, y)

(* If the first is allowed, the second is judged and committed alike. *)
LEMMA SplitStages ==
    ASSUME NEW cfg, NEW t, NEW live, Exact(live, t), live.calls.total < U32_MAX, NEW x, NEW y,
           NEW s, NEW e, NEW M, NEW u, TwoStages(cfg, live, t, x, y, s, e, M, u),
           AllAllowed(s.verdicts)
    PROVE  /\ Exact(M, t)
           /\ \A w \in Nat : AllLedgersLive(live, t, w) => AllLedgersLive(M, t, w)
           /\ AllAllowed(e.verdicts) <=> AllAllowed(u.verdicts)
           /\ AllAllowed(e.verdicts) => CommitStaged(live, e, t) = CommitStaged(M, u, t)
           /\ Grown(live, M)
           /\ AllAllowed(e.verdicts) => Grown(M, CommitStaged(live, e, t))
<1> /\ s = EvalContext(cfg, live, NothingStaged, x) /\ e = EvalContext(cfg, live, s, y)
    /\ M = CommitStaged(live, s, t) /\ u = EvalContext(cfg, M, NothingStaged, y)
    BY DEF TwoStages
<1> DEFINE cx == parse_call(x, cfg)
           cy == parse_call(y, cfg)
           none == NothingStaged
<1>1. /\ t \in Nat \ {0} /\ live \in LedgersUpTo(t) /\ live.calls.total \in Nat
      /\ live.global.total \in Nat
      /\ \A r \in Address : RecipientLedger(live, r).total \in Nat
    BY TalliedLedger DEF Exact
<1>2. /\ none \in Stage /\ none.pending = 0 /\ none.calls = 0 /\ none.calls \in 0..1
      /\ AllAllowed(none.verdicts) /\ \A r : StagedFor(none, r) = 0
    BY NothingIsStage DEF NothingStaged, AllAllowed, StagedFor
<1>3. /\ s \in Stage /\ ContextVerdict(cfg, live, none, cx) = Allowed
      /\ s.pending = IF PaysGlobal(cfg, cx) THEN cx.amount ELSE 0
      /\ \A r : StagedFor(s, r) = IF PaysOwn(cfg, cx, r) THEN cx.amount ELSE 0
      /\ s.calls = IF CountsCall(cfg, cx) THEN 1 ELSE 0
    BY StagedByOne
<1>4. Fits(live, cfg, cx)
    BY <1>3, AllowedFits
<1>5. M \in LedgersUpTo(t)
    BY <1>1, <1>3, CommitType
<1>6. Extended(live, M, cfg, cx, t)
    <2>1. Extended(CommitStaged(live, none, t), CommitStaged(live, s, t), cfg, cx, t)
        BY <1>1, <1>2, CommitOneMore
    <2>2. CommitStaged(live, none, t) = live
        BY <1>1, CommitNothing
    <2> HIDE DEF none, cx
    <2> QED  BY <2>1, <2>2, Zenon
<1>a. Grown(live, M)
    <2>1. cx.kind = "AssetTransfer" => cx.amount \in Nat \ {0}
        BY <1>3, ContextAnswer
    <2> HIDE DEF cx
    <2> QED  BY <1>1, <1>6, <2>1, ExtendedGrown
<1> HIDE DEF cx
<1>7. /\ Exact(M, t)
      /\ M.global.total = live.global.total + IF PaysGlobal(cfg, cx) THEN cx.amount ELSE 0
      /\ \A r \in Address :
             RecipientLedger(M, r).total
                 = RecipientLedger(live, r).total + IF PaysOwn(cfg, cx, r) THEN cx.amount ELSE 0
      /\ M.calls.total = live.calls.total + IF CountsCall(cfg, cx) THEN 1 ELSE 0
    BY <1>4, <1>5, <1>6, ExtendedExact
<1>8. \A w \in Nat : AllLedgersLive(live, t, w) => AllLedgersLive(M, t, w)
    BY <1>4, <1>5, <1>6, ExtendedLive
<1>9. /\ M.global.total = live.global.total + s.pending
      /\ \A r \in Address :
             RecipientLedger(M, r).total = RecipientLedger(live, r).total + StagedFor(s, r)
      /\ M.calls.total = live.calls.total + s.calls
    BY <1>3, <1>7, Zenon
<1>10. /\ s.pending \in Nat /\ s.calls \in 0..1 /\ \A r : StagedFor(s, r) \in Nat
    <2>1. PaysGlobal(cfg, cx) => cx.amount \in Nat
        BY <1>4 DEF Fits
    <2>2. ASSUME NEW r PROVE StagedFor(s, r) \in Nat
        <3>1. CASE PaysOwn(cfg, cx, r)
            <4>1. r \in Address
                <5>1. cx.kind = "AssetTransfer" /\ r = cx.to
                    BY <3>1 DEF PaysOwn
                <5>2. cx.kind = "AssetTransfer" => cx.to \in Address
                    BY ParsedCall DEF cx
                <5> QED  BY <5>1, <5>2
            <4> QED  BY <1>3, <1>4, <3>1, <4>1 DEF Fits
        <3>2. CASE ~ PaysOwn(cfg, cx, r)
            BY <1>3, <3>2
        <3> QED  BY <3>1, <3>2
    <2>3. s.calls \in 0..1
        BY <1>3
    <2> QED  BY <1>3, <2>1, <2>2, <2>3
<1>11. ContextVerdict(cfg, live, s, cy) = ContextVerdict(cfg, M, none, cy)
    <2>1. ASSUME cy.kind = "AssetTransfer"
          PROVE  OverWindow(cfg, live, s, cy) <=> OverWindow(cfg, M, none, cy)
        <3>1. cy.to \in Address /\ cy.amount \in Int
            <4>1. cy.to \in Address /\ cy.amount \in I128
                BY <2>1, ParsedCall
            <4> HIDE DEF cy
            <4> QED  BY <4>1, WindowBounds DEF I128
        <3> HIDE DEF cy
        <3> DEFINE g == live.global.total
                   o == RecipientLedger(live, cy.to).total
                   p == s.pending
                   q == StagedFor(s, cy.to)
                   a == cy.amount
                   capg == cfg.window_cap
                   capr == recipient_override_cap(cfg, cy.to)
        <3>2. /\ g \in Nat /\ o \in Nat /\ p \in Nat /\ q \in Nat
              /\ M.global.total = g + p /\ RecipientLedger(M, cy.to).total = o + q
              /\ none.pending = 0 /\ StagedFor(none, cy.to) = 0
            BY <1>1, <1>2, <1>9, <1>10, <3>1
        <3>3. /\ recipient_total(live, cy.to) = o
              /\ recipient_total(M, cy.to) = RecipientLedger(M, cy.to).total
            BY DEF recipient_total
        <3>4. /\ ExceedsCap(g, p, a, capg) <=> ExceedsCap(g + p, 0, a, capg)
              /\ ExceedsCap(o, q, a, capr) <=> ExceedsCap(o + q, 0, a, capr)
            <4> HIDE DEF g, o, p, q, capg, capr
            <4> QED  BY <3>1, <3>2, ExceedsSum
        <3> QED  BY <3>2, <3>3, <3>4, Zenon DEF OverWindow
    <2>2. ProjectedCalls(live, s) = ProjectedCalls(M, none)
        <3> DEFINE c == live.calls.total
                   k == s.calls
        <3>1. c \in Nat /\ k \in 0..1 /\ c < U32_MAX /\ M.calls.total = c + k /\ none.calls = 0
            BY <1>1, <1>2, <1>9, <1>10
        <3> HIDE DEF c, k
        <3>2. saturating_add(c, k, U32_MAX) = c + k /\ saturating_add(c + k, 0, U32_MAX) = c + k
            BY <3>1, WindowBounds DEF saturating_add
        <3> QED  BY <3>1, <3>2, Zenon DEF ProjectedCalls, c, k
    <2> HIDE DEF none
    <2> QED  BY <2>1, <2>2, SameVerdict
<1>12. AllAllowed(e.verdicts) <=> AllAllowed(u.verdicts)
    <2>1. AllAllowed(e.verdicts) <=>
              AllAllowed(s.verdicts) /\ ContextVerdict(cfg, live, s, cy) = Allowed
        BY <1>3, OneMoreCounted
    <2>2. AllAllowed(u.verdicts) <=>
              AllAllowed(none.verdicts) /\ ContextVerdict(cfg, M, none, cy) = Allowed
        BY <1>2, OneMoreCounted
    <2> QED  BY <1>2, <1>11, <2>1, <2>2
<1>13. ASSUME AllAllowed(e.verdicts)
       PROVE  CommitStaged(live, e, t) = CommitStaged(M, u, t)
    <2>1. Extended(M, CommitStaged(live, e, t), cfg, cy, t)
        BY <1>1, <1>3, <1>10, <1>13, CommitOneMore
    <2>2. M.calls.total \in Nat /\ \A r \in Address : RecipientLedger(M, r).total \in Nat
        BY <1>7, TalliedLedger DEF Exact
    <2>3. Extended(CommitStaged(M, none, t), CommitStaged(M, u, t), cfg, cy, t)
        BY <1>1, <1>2, <1>5, <1>12, <1>13, <2>2, CommitOneMore
    <2>4. CommitStaged(M, none, t) = M
        BY <1>1, <1>5, CommitNothing
    <2>5. e \in Stage /\ u \in Stage
        BY <1>2, <1>3, EvalContextType
    <2>6. CommitStaged(live, e, t) \in LedgersUpTo(t) /\ CommitStaged(M, u, t) \in LedgersUpTo(t)
        BY <1>1, <1>5, <2>5, CommitType
    <2> HIDE DEF none, cy
    <2>7. Extended(M, CommitStaged(M, u, t), cfg, cy, t)
        BY <2>3, <2>4, Zenon
    <2> QED  BY <1>1, <2>1, <2>6, <2>7, ExtendedOnce
<1>14. ASSUME AllAllowed(e.verdicts) PROVE Grown(M, CommitStaged(live, e, t))
    <2>1. Extended(M, CommitStaged(live, e, t), cfg, cy, t)
        BY <1>1, <1>3, <1>10, <1>14, CommitOneMore
    <2>2. cy.kind = "AssetTransfer" => cy.amount \in Nat \ {0}
        <3>1. ContextVerdict(cfg, live, s, cy) = Allowed
            BY <1>3, <1>14, OneMoreCounted
        <3> QED  BY <3>1, ContextAnswer
    <2> HIDE DEF cy
    <2> QED  BY <1>1, <1>5, <2>1, <2>2, ExtendedGrown
<1> QED  BY <1>7, <1>8, <1>12, <1>13, <1>14, <1>a

(* What an evaluation on a live ledger is answered with. *)
Answers(D, live, s, t) ==
    /\ D.verdicts = s.verdicts
    /\ D.ledger = IF AllAllowed(s.verdicts) THEN CommitStaged(live, s, t) ELSE live

(* Behind an open gate a request of at most the allowed length is answered *)
(* with its evaluation.                                                    *)
LEMMA OpenGateDecides ==
    ASSUME NEW cfg, NEW frozen, NEW last, NEW t, NEW L, NEW ctxs,
           AccountGate(cfg, frozen, last, t) = Allowed, ~ (Len(ctxs) > MAX_AUTH_CONTEXTS)
    PROVE  Answers(decide(cfg, frozen, last, L, t, ctxs), DecidedOn(cfg, L, t),
                   EvalContexts(cfg, DecidedOn(cfg, L, t), ctxs), t)
BY DEF decide, DecidedOn, Answers

(* A request of two contexts decided at once behind an open gate, and      *)
(* decided one after the other with the ledger stored and loaded in        *)
(* between.                                                                *)
SplitInTwo(cfg, frozen, last, L, t, b, both, first, second) ==
    /\ AccountGate(cfg, frozen, last, t) = Allowed
    /\ both = decide(cfg, frozen, last, L, t, b)
    /\ first = decide(cfg, frozen, last, L, t, <<b[1]>>)
    /\ second = decide(cfg, frozen, last, from_state(to_state(first.ledger)), t, <<b[2]>>)

(* The two ways come to the same. *)
SameInTheEnd(both, first, second) ==
    /\ AllAllowed(both.verdicts) <=> AllAllowed(first.verdicts) /\ AllAllowed(second.verdicts)
    /\ AllAllowed(both.verdicts) => both.ledger = second.ledger

(* What the first leaves is exact, and each adds to what was there. *)
GrowsTwice(live, t, both, first) ==
    /\ AllAllowed(first.verdicts) => Exact(first.ledger, t) /\ Grown(live, first.ledger)
    /\ AllAllowed(both.verdicts) => Grown(first.ledger, both.ledger)

LEMMA SplitDecision ==
    ASSUME NEW cfg \in PolicyConfig, NEW frozen, NEW last, NEW t, NEW L, Exact(L, t),
           L.calls.total < U32_MAX,
           NEW X, NEW b \in Seq(X), Len(b) = 2, Len(b) <= MAX_AUTH_CONTEXTS,
           NEW both, NEW first, NEW second,
           SplitInTwo(cfg, frozen, last, L, t, b, both, first, second)
    PROVE  SameInTheEnd(both, first, second) /\ GrowsTwice(DecidedOn(cfg, L, t), t, both, first)
<1> DEFINE live == DecidedOn(cfg, L, t)
           w == cfg.window_secs
           x == b[1]
           y == b[2]
           s == EvalContext(cfg, live, NothingStaged, x)
           e == EvalContext(cfg, live, s, y)
           M == CommitStaged(live, s, t)
           u == EvalContext(cfg, M, NothingStaged, y)
           one == <<x>>
           two == <<y>>
<1>1. w \in Nat
    BY DEF PolicyConfig
<1>2. Exact(live, t) /\ live.calls.total < U32_MAX
    <2>1. CASE PrunesWindow(cfg)
        <3>1. live = prune(L, t, w)
            BY <2>1 DEF DecidedOn
        <3>2. Exact(prune(L, t, w), t) /\ prune(L, t, w).calls.total <= L.calls.total
            BY <1>1, ExactPruned
        <3>3. L.calls.total \in Nat /\ Exact(live, t) /\ live.calls.total <= L.calls.total
            <4> HIDE DEF live, w
            <4>1. L.calls.total \in Nat
                BY TalliedLedger DEF Exact
            <4> QED  BY <3>1, <3>2, <4>1
        <3>4. live.calls.total \in Nat
            <4> HIDE DEF live
            <4> QED  BY <3>3, TalliedLedger DEF Exact
        <3> HIDE DEF live
        <3> QED  BY <3>3, <3>4, WindowBounds
    <2>2. CASE ~ PrunesWindow(cfg)
        <3>1. live = L
            BY <2>2 DEF DecidedOn
        <3> HIDE DEF live
        <3> QED  BY <3>1
    <2> QED  BY <2>1, <2>2
<1>3. /\ t \in Nat \ {0} /\ L \in LedgersUpTo(t)
    BY DEF Exact
<1>4. PrunesWindow(cfg) => AllLedgersLive(live, t, w)
    <2>1. PrunesWindow(cfg) => live = prune(L, t, w)
        BY DEF DecidedOn
    <2>2. AllLedgersLive(prune(L, t, w), t, w)
        BY <1>1, <1>3, PruneLeavesAllLive
    <2> HIDE DEF live, w
    <2> QED  BY <2>1, <2>2, Zenon
<1>5. /\ ~ (Len(b) > MAX_AUTH_CONTEXTS) /\ Len(one) = 1 /\ Len(two) = 1
      /\ ~ (Len(one) > MAX_AUTH_CONTEXTS) /\ ~ (Len(two) > MAX_AUTH_CONTEXTS)
    BY EngineBounds
<1>6. EvalContexts(cfg, live, one) = s /\ \A N : EvalContexts(cfg, N, two) = EvalContext(cfg, N, NothingStaged, y)
    BY SingleContext
<1>7. EvalContexts(cfg, live, b) = e
    <2>1. PICK r : /\ r[0] = NothingStaged
                   /\ \A k \in 1..Len(b) : r[k] = EvalContext(cfg, live, r[k - 1], b[k])
                   /\ EvalContexts(cfg, live, b) = r[Len(b)]
        BY EvalRun
    <2>2. 1 \in 1..Len(b) /\ 2 \in 1..Len(b) /\ 1 - 1 = 0 /\ 2 - 1 = 1
        OBVIOUS
    <2>3. r[1] = EvalContext(cfg, live, r[1 - 1], b[1]) /\ r[2] = EvalContext(cfg, live, r[2 - 1], b[2])
        BY <2>1, <2>2
    <2>4. r[1] = s /\ r[2] = EvalContext(cfg, live, r[1], b[2])
        BY <2>1, <2>2, <2>3
    <2> HIDE DEF live, s
    <2> QED  BY <2>1, <2>4
<1>8. /\ Answers(both, live, EvalContexts(cfg, live, b), t)
      /\ Answers(first, live, EvalContexts(cfg, live, one), t)
    <2>1. /\ both = decide(cfg, frozen, last, L, t, b)
          /\ first = decide(cfg, frozen, last, L, t, one)
        BY DEF SplitInTwo
    <2>2. AccountGate(cfg, frozen, last, t) = Allowed
        BY DEF SplitInTwo
    <2> HIDE DEF one
    <2> QED  BY <1>5, <2>1, <2>2, OpenGateDecides
<1>9. /\ both.verdicts = e.verdicts
      /\ both.ledger = IF AllAllowed(e.verdicts) THEN CommitStaged(live, e, t) ELSE live
      /\ first.verdicts = s.verdicts
      /\ first.ledger = IF AllAllowed(s.verdicts) THEN M ELSE live
    <2> HIDE DEF live, s, e, one
    <2> QED  BY <1>6, <1>7, <1>8, Zenon DEF Answers
<1>10. AllAllowed(e.verdicts) => AllAllowed(s.verdicts)
    <2>1. s \in Stage
        BY NothingIsStage, EvalContextType
    <2> HIDE DEF s, live
    <2> QED  BY <2>1, OneMoreCounted
<1>11. ASSUME AllAllowed(s.verdicts)
       PROVE  /\ AllAllowed(e.verdicts) <=> AllAllowed(second.verdicts)
              /\ AllAllowed(e.verdicts) => CommitStaged(live, e, t) = second.ledger
              /\ Exact(M, t) /\ Grown(live, M)
              /\ AllAllowed(e.verdicts) => Grown(M, CommitStaged(live, e, t))
    <2>1. /\ Exact(M, t)
          /\ \A v \in Nat : AllLedgersLive(live, t, v) => AllLedgersLive(M, t, v)
          /\ AllAllowed(e.verdicts) <=> AllAllowed(u.verdicts)
          /\ AllAllowed(e.verdicts) => CommitStaged(live, e, t) = CommitStaged(M, u, t)
          /\ Grown(live, M)
          /\ AllAllowed(e.verdicts) => Grown(M, CommitStaged(live, e, t))
        <3>1. TwoStages(cfg, live, t, x, y, s, e, M, u)
            BY Zenon DEF TwoStages
        <3> HIDE DEF live, s, e, M, u, x, y
        <3> QED  BY <1>2, <1>11, <3>1, SplitStages
    <2> HIDE DEF s, live, w
    <2>2. from_state(to_state(M)) = M
        BY <2>1, ExactReloads
    <2>3. first.ledger = M
        BY <1>9, <1>11
    <2>4. second = decide(cfg, frozen, last, M, t, two)
        <3>1. second = decide(cfg, frozen, last, from_state(to_state(first.ledger)), t, two)
            BY DEF SplitInTwo
        <3> HIDE DEF two
        <3> QED  BY <2>2, <2>3, <3>1, Zenon
    <2>5. M \in LedgersUpTo(t)
        BY <2>1 DEF Exact
    <2> HIDE DEF M
    <2>6. DecidedOn(cfg, M, t) = M
        <3>1. CASE PrunesWindow(cfg)
            <4>1. prune(M, t, w) = M
                BY <1>1, <1>3, <1>4, <2>1, <2>5, <3>1, LiveLedgersStay
            <4> QED  BY <3>1, <4>1 DEF DecidedOn, w
        <3>2. CASE ~ PrunesWindow(cfg)
            BY <3>2 DEF DecidedOn
        <3> QED  BY <3>1, <3>2
    <2>7. EvalContexts(cfg, M, two) = u
        BY <1>6
    <2>8. Answers(second, DecidedOn(cfg, M, t), EvalContexts(cfg, DecidedOn(cfg, M, t), two), t)
        <3>1. AccountGate(cfg, frozen, last, t) = Allowed
            BY DEF SplitInTwo
        <3> QED  BY <1>5, <2>4, <3>1, OpenGateDecides
    <2> HIDE DEF u, e, two
    <2>9. /\ second.verdicts = u.verdicts
          /\ second.ledger = IF AllAllowed(u.verdicts) THEN CommitStaged(M, u, t) ELSE M
        BY <2>6, <2>7, <2>8, Zenon DEF Answers
    <2> QED  BY <2>1, <2>9
<1> HIDE DEF s, e, M
<1>12. GrowsTwice(live, t, both, first)
    <2> HIDE DEF live
    <2>1. AllAllowed(first.verdicts) => Exact(first.ledger, t) /\ Grown(live, first.ledger)
        BY <1>9, <1>11, Zenon
    <2>2. AllAllowed(both.verdicts) => Grown(first.ledger, both.ledger)
        BY <1>9, <1>10, <1>11, Zenon
    <2> QED  BY <2>1, <2>2 DEF GrowsTwice
<1>13. SameInTheEnd(both, first, second)
    <2> HIDE DEF live
    <2> QED  BY <1>9, <1>10, <1>11 DEF SameInTheEnd
<1> QED  BY <1>12, <1>13

(* Nothing is staged for a recipient without a cap of its own. *)
LEMMA NothingStagedFor ==
    ASSUME NEW cfg, NEW r, recipient_override_cap(cfg, r) = None, NEW live,
           NEW X, NEW ctxs \in Seq(X), AllAllowed(EvalContexts(cfg, live, ctxs).verdicts)
    PROVE  r \notin DOMAIN EvalContexts(cfg, live, ctxs).recipients
<1> DEFINE n == Len(ctxs)
<1>1. n \in Nat
    BY LenProperties
<1>2. PICK q : /\ q[0] = NothingStaged
               /\ \A k \in 0..n : q[k] \in Stage
               /\ \A k \in 1..n : q[k] = EvalContext(cfg, live, q[k - 1], ctxs[k])
               /\ EvalContexts(cfg, live, ctxs) = q[n]
    BY EvalRun
<1> DEFINE N == {k \in Nat : k <= n => (AllAllowed(q[k].verdicts) => r \notin DOMAIN q[k].recipients)}
<1>3. 0 \in N
    BY <1>2 DEF NothingStaged
<1>4. ASSUME NEW k \in Nat, k \in N PROVE k + 1 \in N
    <2> SUFFICES ASSUME k + 1 <= n, AllAllowed(q[k + 1].verdicts)
                 PROVE  r \notin DOMAIN q[k + 1].recipients
        OBVIOUS
    <2>1. k + 1 \in 1..n /\ k \in 0..n /\ (k + 1) - 1 = k /\ k <= n
        BY <1>1
    <2> DEFINE s == q[k]
               ctx == ctxs[k + 1]
               call == parse_call(ctx, cfg)
               own == call.kind = "AssetTransfer" /\ recipient_override_cap(cfg, call.to) # None
               e == EvalContext(cfg, live, s, ctx)
    <2>2. q[k + 1] = e /\ s \in Stage
        BY <1>2, <2>1
    <2>3. AllAllowed(s.verdicts) => r \notin DOMAIN s.recipients
        BY <1>4, <2>1
    <2>4. AllAllowed(e.verdicts)
        BY <2>2, Zenon
    <2> HIDE DEF s, ctx
    <2>5. /\ AllAllowed(s.verdicts)
          /\ e.recipients = IF own THEN MoreFor(s, call.to, call.amount) ELSE s.recipients
        BY <2>2, <2>4, OneMoreAllowed
    <2> HIDE DEF call, e
    <2>6. own => call.to # r
        OBVIOUS
    <2>7. r \notin DOMAIN e.recipients
        BY <2>3, <2>5, <2>6 DEF MoreFor
    <2> QED  BY <2>2, <2>7, Zenon
<1>5. Nat \subseteq N
    <2> HIDE DEF N
    <2> QED  BY <1>3, <1>4, SetInduction
<1>6. n \in N
    BY <1>1, <1>5
<1> QED  BY <1>1, <1>2, <1>6

(* So an allowed request leaves every recipient's ledger with a total that *)
(* is right, whether or not the recipient has a cap of its own now.        *)
LEMMA DecideTalliesTo ==
    ASSUME NEW cfg \in PolicyConfig, NEW r, NEW frozen, NEW last,
           NEW t \in Nat \ {0}, NEW ledger \in LedgersUpTo(t),
           Tallied(RecipientLedger(ledger, r), t, I128_MAX),
           NEW X, NEW ctxs \in Seq(X), 1 \in DOMAIN ctxs,
           AllAllowed(decide(cfg, frozen, last, ledger, t, ctxs).verdicts)
    PROVE  Tallied(RecipientLedger(decide(cfg, frozen, last, ledger, t, ctxs).ledger, r), t, I128_MAX)
<1> DEFINE w == cfg.window_secs
           D == decide(cfg, frozen, last, ledger, t, ctxs)
           live == IF PrunesWindow(cfg) THEN prune(ledger, t, w) ELSE ledger
           s == EvalContexts(cfg, live, ctxs)
           l == RecipientLedger(ledger, r)
<1>1. w \in Nat
    BY DEF PolicyConfig
<1>2. CASE recipient_override_cap(cfg, r) # None
    <2>1. Covered(RecipientLedger(ledger, r), Silence, t, w, I128_MAX)
        BY <1>1, TalliedCovers
    <2> DEFINE m == RecipientLedger(D.ledger, r)
    <2>2. Covered(m, Plus(Silence, t, PayingTo(cfg, ctxs, Len(ctxs), r)), t, w, I128_MAX)
        BY <1>2, <2>1, DecideCoversTo
    <2> HIDE DEF m
    <2>3. Tallied(m, t, I128_MAX)
        BY <2>2 DEF Tallied
    <2> QED  BY <2>3 DEF m
<1>3. CASE recipient_override_cap(cfg, r) = None
    <2>1. AllAllowed(s.verdicts) /\ D.ledger = CommitStaged(live, s, t)
        BY DecideAllowed
    <2>2. live \in LedgersUpTo(t)
        BY <1>1, PruneLedgersUpTo
    <2>3. Tallied(RecipientLedger(live, r), t, I128_MAX)
        <3>1. CASE PrunesWindow(cfg)
            <4>1. RecipientLedger(live, r)
                      = IF r \in DOMAIN ledger.recipients THEN prune_entries(l, t, w) ELSE l
                BY <3>1 DEF prune, RecipientLedger
            <4> HIDE DEF l, live
            <4>2. Tallied(l, t, I128_MAX)
                BY DEF l
            <4>3. Tallied(prune_entries(l, t, w), t, I128_MAX)
                BY <1>1, <4>2, TalliedLedger
            <4> QED  BY <4>1, <4>2, <4>3, Zenon
        <3>2. CASE ~ PrunesWindow(cfg)
            BY <3>2
        <3> QED  BY <3>1, <3>2
    <2> HIDE DEF live, D
    <2>4. r \notin DOMAIN s.recipients /\ s \in Stage
        BY <1>3, <2>1, NothingStagedFor, EvalContextsType
    <2> HIDE DEF s
    <2>5. \A x : RecipientLedger(CommitStaged(live, s, t), x)
                     = IF x \in DOMAIN s.recipients
                       THEN admit_to_ledger(RecipientLedger(live, x), t, s.recipients[x], I128_MAX)
                       ELSE RecipientLedger(live, x)
        BY <2>2, <2>4, CommitParts
    <2> QED  BY <2>1, <2>3, <2>4, <2>5, Zenon DEF D
<1> QED  BY <1>2, <1>3
-----------------------------------------------------------------------------
(* The rate limit *)

(* The protocol calls among the first k contexts. *)
ProtocolCalls(cfg, ctxs, k) == {i \in 1..k : parse_call(ctxs[i], cfg).kind = "Protocol"}
CallCount(cfg, ctxs, k) == Cardinality(ProtocolCalls(cfg, ctxs, k))

(* The count over one context more. *)
LEMMA CallCountStep ==
    ASSUME NEW cfg, NEW ctxs, NEW k \in Nat
    PROVE  LET call == parse_call(ctxs[k + 1], cfg)
           IN  /\ CallCount(cfg, ctxs, k) \in Nat /\ CallCount(cfg, ctxs, 0) = 0
               /\ CallCount(cfg, ctxs, k) = 0 <=> ProtocolCalls(cfg, ctxs, k) = {}
               /\ CallCount(cfg, ctxs, k + 1)
                      = CallCount(cfg, ctxs, k) + IF call.kind = "Protocol" THEN 1 ELSE 0
<1> DEFINE call == parse_call(ctxs[k + 1], cfg)
           J == ProtocolCalls(cfg, ctxs, k)
           J2 == ProtocolCalls(cfg, ctxs, k + 1)
           S == 1..k
           S2 == 1..(k + 1)
<1>1. S2 = S \union {k + 1} /\ k + 1 \notin S /\ IsFiniteSet(S)
    <2>1. S2 = S \union {k + 1} /\ k + 1 \notin S
        BY PrefixGrows
    <2>2. IsFiniteSet(S)
        BY FS_Interval
    <2> QED  BY <2>1, <2>2
<1>2. /\ J = {i \in S : parse_call(ctxs[i], cfg).kind = "Protocol"}
      /\ J2 = {i \in S2 : parse_call(ctxs[i], cfg).kind = "Protocol"}
    BY DEF ProtocolCalls
<1>3. ProtocolCalls(cfg, ctxs, 0) = {}
    <2>1. 1..0 = {}
        OBVIOUS
    <2> QED  BY <2>1 DEF ProtocolCalls
<1> HIDE DEF J, J2, S, S2, call
<1>4. IsFiniteSet(J) /\ k + 1 \notin J
    BY <1>1, <1>2, FS_Subset
<1>5. J2 = IF call.kind = "Protocol" THEN J \union {k + 1} ELSE J
    BY <1>1, <1>2 DEF call
<1>6. Cardinality(J) \in Nat /\ (Cardinality(J) = 0 <=> J = {}) /\ Cardinality({}) = 0
    BY <1>4, FS_CardinalityType, FS_EmptySet
<1>7. Cardinality(J2) = Cardinality(J) + IF call.kind = "Protocol" THEN 1 ELSE 0
    <2>1. CASE call.kind = "Protocol"
        <3>1. J2 = J \union {k + 1}
            BY <1>5, <2>1
        <3>2. Cardinality(J \union {k + 1}) = Cardinality(J) + 1
            BY <1>4, FS_AddElement
        <3> QED  BY <2>1, <3>1, <3>2
    <2>2. CASE call.kind # "Protocol"
        <3>1. J2 = J /\ Cardinality(J) = Cardinality(J) + 0
            BY <1>5, <1>6, <2>2
        <3> QED  BY <2>2, <3>1
    <2> QED  BY <2>1, <2>2
<1> QED  BY <1>3, <1>6, <1>7, Zenon DEF CallCount, J, J2, call

(* The stage after k allowed contexts: every protocol call is counted, and *)
(* a limit that the counter can exceed is kept.                            *)
StageCounts(cfg, live, ctxs, k, s) ==
    LET n == CallCount(cfg, ctxs, k)
    IN  /\ s.calls = n
        /\ n > 0 => live.calls.total + n <= cfg.protocol_calls_per_window

LEMMA StageCountsStep ==
    ASSUME NEW cfg \in PolicyConfig, cfg.protocol_calls_per_window > 0, NEW live,
           live.calls.total \in Nat, NEW ctxs, NEW k \in Nat,
           parse_call(ctxs[k + 1], cfg).kind = "Protocol" =>
               cfg.protocol_calls_per_window < U32_MAX,
           NEW s \in Stage, StageCounts(cfg, live, ctxs, k, s),
           AllAllowed(EvalContext(cfg, live, s, ctxs[k + 1]).verdicts)
    PROVE  StageCounts(cfg, live, ctxs, k + 1, EvalContext(cfg, live, s, ctxs[k + 1]))
<1> DEFINE call == parse_call(ctxs[k + 1], cfg)
           e == EvalContext(cfg, live, s, ctxs[k + 1])
           n == CallCount(cfg, ctxs, k)
           m == CallCount(cfg, ctxs, k + 1)
           base == live.calls.total
           limit == cfg.protocol_calls_per_window
<1>1. /\ ContextVerdict(cfg, live, s, call) = Allowed
      /\ e.calls = IF CountsCall(cfg, call) THEN saturating_add(s.calls, 1, U32_MAX) ELSE s.calls
    BY OneMoreCounted
<1>2. n \in Nat /\ m = n + IF call.kind = "Protocol" THEN 1 ELSE 0
    BY CallCountStep
<1>3. s.calls = n /\ (n > 0 => base + n <= limit)
    BY DEF StageCounts
<1>4. limit \in Nat /\ limit > 0 /\ base \in Nat /\ U32_MAX \in Nat
    BY WindowBounds DEF PolicyConfig
<1>5. CASE call.kind = "Protocol"
    <2>1. ProtocolVerdict(cfg, live, s, call) = Allowed /\ limit < U32_MAX
        BY <1>1, <1>5, ContextAnswer
    <2>2. ~ (ProjectedCalls(live, s) > limit)
        BY <2>1, ProtocolAnswer
    <2>3. CountsCall(cfg, call)
        BY <1>5 DEF CountsCall
    <2> HIDE DEF call, e, n, m, base, limit
    <2>4. ~ (saturating_add(saturating_add(base, n, U32_MAX), 1, U32_MAX) > limit)
        BY <1>3, <2>2 DEF ProjectedCalls, base
    <2>5. base + n + 1 <= limit /\ saturating_add(n, 1, U32_MAX) = n + 1
        BY <1>2, <1>4, <2>1, <2>4 DEF saturating_add
    <2>6. e.calls = m /\ base + m <= limit
        BY <1>1, <1>2, <1>3, <1>4, <1>5, <2>3, <2>5
    <2> QED  BY <2>6 DEF StageCounts, e, m, base, limit
<1>6. CASE call.kind # "Protocol"
    <2>1. ~ CountsCall(cfg, call)
        BY <1>6 DEF CountsCall
    <2> HIDE DEF call, e, n, m, base, limit
    <2>2. e.calls = m /\ (m > 0 => base + m <= limit)
        BY <1>1, <1>2, <1>3, <1>6, <2>1
    <2> QED  BY <2>2 DEF StageCounts, e, m, base, limit
<1> QED  BY <1>5, <1>6

(* So a request that is allowed leaves such a stage. *)
LEMMA StageCountsRun ==
    ASSUME NEW cfg \in PolicyConfig, cfg.protocol_calls_per_window > 0, NEW live,
           live.calls.total \in Nat, NEW X, NEW ctxs \in Seq(X),
           ProtocolCalls(cfg, ctxs, Len(ctxs)) # {} => cfg.protocol_calls_per_window < U32_MAX,
           AllAllowed(EvalContexts(cfg, live, ctxs).verdicts)
    PROVE  StageCounts(cfg, live, ctxs, Len(ctxs), EvalContexts(cfg, live, ctxs))
<1> DEFINE n == Len(ctxs)
<1>1. n \in Nat
    BY LenProperties
<1>2. PICK r : /\ r[0] = NothingStaged
               /\ \A k \in 0..n : r[k] \in Stage
               /\ \A k \in 1..n : r[k] = EvalContext(cfg, live, r[k - 1], ctxs[k])
               /\ EvalContexts(cfg, live, ctxs) = r[n]
    BY EvalRun
<1> DEFINE Good(k) == AllAllowed(r[k].verdicts) => StageCounts(cfg, live, ctxs, k, r[k])
           N == {k \in Nat : k <= n => Good(k)}
<1>3. Good(0)
    <2>1. CallCount(cfg, ctxs, 0) = 0
        BY CallCountStep
    <2>2. r[0].calls = 0
        BY <1>2 DEF NothingStaged
    <2> QED  BY <2>1, <2>2 DEF StageCounts
<1>4. ASSUME NEW k \in Nat, k \in N PROVE k + 1 \in N
    <2> SUFFICES ASSUME k + 1 <= n, AllAllowed(r[k + 1].verdicts)
                 PROVE  StageCounts(cfg, live, ctxs, k + 1, r[k + 1])
        OBVIOUS
    <2> DEFINE s == r[k]
    <2>1. k + 1 \in 1..n /\ k \in 0..n /\ (k + 1) - 1 = k
        BY <1>1
    <2>2. r[k + 1] = EvalContext(cfg, live, s, ctxs[k + 1]) /\ s \in Stage
        BY <1>2, <2>1
    <2>3. AllAllowed(EvalContext(cfg, live, s, ctxs[k + 1]).verdicts)
        BY <2>2, Zenon
    <2>4. AllAllowed(s.verdicts)
        <3> HIDE DEF s
        <3> QED  BY <2>2, <2>3, OneMoreCounted
    <2>5. StageCounts(cfg, live, ctxs, k, s)
        BY <1>1, <1>4, <2>1, <2>4
    <2>6. parse_call(ctxs[k + 1], cfg).kind = "Protocol" => cfg.protocol_calls_per_window < U32_MAX
        BY <2>1 DEF ProtocolCalls
    <2> HIDE DEF s, Good
    <2>7. StageCounts(cfg, live, ctxs, k + 1, EvalContext(cfg, live, s, ctxs[k + 1]))
        BY <2>2, <2>3, <2>5, <2>6, StageCountsStep
    <2> QED  BY <2>2, <2>7, Zenon
<1> HIDE DEF Good
<1>5. 0 \in N
    BY <1>3
<1>6. Nat \subseteq N
    <2> HIDE DEF N
    <2> QED  BY <1>4, <1>5, SetInduction
<1>7. Good(n)
    BY <1>1, <1>6
<1> QED  BY <1>2, <1>7, Zenon DEF Good

(* What is spent in one second adds up. *)
LEMMA PlusMore ==
    ASSUME NEW t \in Nat \ {0}, NEW c, \A u \in 0..t : c[u] \in Nat, NEW k \in Nat
    PROVE  Adds(Plus(c, t, k), Plus(c, t, k + 1), t, 1)
<1>1. t \in 0..t /\ c[t] \in Nat /\ c[t] + (k + 1) \in Nat /\ c[t] + (k + 1) <= (c[t] + k) + 1
    OBVIOUS
<1>2. /\ Plus(c, t, k)[t] = c[t] + k /\ Plus(c, t, k + 1)[t] = c[t] + (k + 1)
      /\ \A u \in 0..t : u # t => Plus(c, t, k)[u] = c[u] /\ Plus(c, t, k + 1)[u] = c[u]
    BY <1>1 DEF Plus
<1>3. \A u \in 0..(t - 1) : u \in 0..t /\ u # t
    OBVIOUS
<1> QED  BY <1>1, <1>2, <1>3 DEF Adds

(* Metering calls that fit the counter covers them. *)
LEMMA MeteredCovers ==
    ASSUME NEW t \in Nat \ {0}, NEW ledger \in LedgersUpTo(t), NEW c, NEW w,
           Covered(ledger.calls, c, t, w, U32_MAX), NEW n \in Nat,
           ledger.calls.total + n <= U32_MAX
    PROVE  /\ Covered(Metered(ledger, n, t).calls, Plus(c, t, n), t, w, U32_MAX)
           /\ Metered(ledger, n, t).calls.total = ledger.calls.total + n
<1> DEFINE base == ledger.calls.total
           After(k) == Metered(ledger, k, t).calls
           Good(k) == /\ Covered(After(k), Plus(c, t, k), t, w, U32_MAX)
                      /\ After(k).total = base + k
           N == {k \in Nat : k <= n => Good(k)}
<1>1. base \in Nat /\ U32_MAX \in Nat /\ \A u \in 0..t : c[u] \in Nat
    <2>1. base \in 0..U32_MAX
        BY CoveredTotal
    <2>2. \A u \in 0..t : c[u] \in Nat
        BY DEF Covered, Accounts
    <2> QED  BY <2>1, <2>2, WindowBounds
<1>2. Good(0)
    <2>1. Metered(ledger, 0, t) = ledger
        BY MeteredOneMore
    <2>2. Adds(c, Plus(c, t, 0), t, 0)
        BY <1>1 DEF Adds, Plus
    <2>3. Covered(ledger.calls, Plus(c, t, 0), t, w, U32_MAX)
        BY <2>2, CoversLess
    <2>4. base = base + 0
        BY <1>1
    <2> QED  BY <2>1, <2>3, <2>4, Zenon
<1>3. ASSUME NEW k \in Nat, k \in N PROVE k + 1 \in N
    <2> SUFFICES ASSUME k + 1 <= n PROVE Good(k + 1)
        OBVIOUS
    <2> DEFINE l == After(k)
               c1 == Plus(c, t, k)
               c2 == Plus(c, t, k + 1)
    <2>1. Covered(l, c1, t, w, U32_MAX) /\ l.total = base + k
        BY <1>3
    <2>2. After(k + 1) = admit_to_ledger(l, t, 1, U32_MAX)
        <3> DEFINE M == Metered(ledger, k, t)
        <3>1. Metered(ledger, k + 1, t) = admit_protocol_call(M, t) /\ M \in LedgersUpTo(t)
            BY MeteredOneMore, MeteredType
        <3> HIDE DEF M
        <3>2. admit_protocol_call(M, t).calls = admit_to_ledger(M.calls, t, 1, U32_MAX)
            BY <3>1 DEF LedgersUpTo, admit_protocol_call
        <3> QED  BY <3>1, <3>2, Zenon DEF M
    <2> HIDE DEF After, base
    <2>3. Adds(c1, c2, t, 1)
        BY <1>1, PlusMore
    <2>4. l.total + 1 <= U32_MAX /\ l.total + 1 = base + (k + 1) /\ 1 \in Nat \ {0}
        BY <1>1, <2>1 DEF base
    <2> HIDE DEF l, c1, c2
    <2>5. /\ Covered(admit_to_ledger(l, t, 1, U32_MAX), c2, t, w, U32_MAX)
          /\ admit_to_ledger(l, t, 1, U32_MAX).total = l.total + 1
        BY <2>1, <2>3, <2>4, AdmitCovers
    <2> QED  BY <2>2, <2>4, <2>5, Zenon DEF c2
<1> HIDE DEF Good
<1>4. 0 \in N
    BY <1>2
<1>5. Nat \subseteq N
    <2> HIDE DEF N
    <2> QED  BY <1>3, <1>4, SetInduction
<1>6. Good(n)
    BY <1>5
<1> QED  BY <1>6 DEF Good

(* The counter was pruned and no more. *)
JustPruned(after, before, t, w) == after = prune_protocol_call_entries(before, t, w)

(* An allowed request: the counter it leaves covers its protocol calls,    *)
(* together with what the loaded counter covered, and is within the limit  *)
(* if it makes any; without any it is only pruned.                         *)
LEMMA DecideCoversCalls ==
    ASSUME NEW cfg \in PolicyConfig, cfg.protocol_calls_per_window > 0, NEW frozen, NEW last,
           NEW t \in Nat \ {0}, NEW ledger \in LedgersUpTo(t), NEW c,
           Covered(ledger.calls, c, t, cfg.window_secs, U32_MAX),
           NEW X, NEW ctxs \in Seq(X), 1 \in DOMAIN ctxs,
           ProtocolCalls(cfg, ctxs, Len(ctxs)) # {} => cfg.protocol_calls_per_window < U32_MAX,
           AllAllowed(decide(cfg, frozen, last, ledger, t, ctxs).verdicts)
    PROVE  LET n == CallCount(cfg, ctxs, Len(ctxs))
               calls == decide(cfg, frozen, last, ledger, t, ctxs).ledger.calls
           IN  /\ n \in Nat
               /\ Covered(calls, Plus(c, t, n), t, cfg.window_secs, U32_MAX)
               /\ n > 0 => calls.total <= cfg.protocol_calls_per_window
               /\ n = 0 => JustPruned(calls, ledger.calls, t, cfg.window_secs)
<1> DEFINE w == cfg.window_secs
           limit == cfg.protocol_calls_per_window
           live == prune(ledger, t, w)
           s == EvalContexts(cfg, live, ctxs)
           D == decide(cfg, frozen, last, ledger, t, ctxs)
           n == CallCount(cfg, ctxs, Len(ctxs))
<1>1. PrunesWindow(cfg)
    BY DEF PrunesWindow
<1>2. AllAllowed(s.verdicts) /\ D.ledger = CommitStaged(live, s, t)
    BY <1>1, DecideAllowed
<1>3. w \in Nat /\ limit \in Nat /\ U32_MAX \in Nat \ {0} /\ Len(ctxs) \in Nat
    BY WindowBounds, LenProperties DEF PolicyConfig
<1>4. live \in LedgersUpTo(t)
    BY <1>3, PruneLedgersUpTo
<1>5. live.calls = prune_protocol_call_entries(ledger.calls, t, w)
    BY DEF prune
<1>6. Covered(live.calls, c, t, w, U32_MAX)
    <2>1. /\ Covered(prune_entries(ledger.calls, t, w), c, t, w, U32_MAX)
          /\ prune_protocol_call_entries(ledger.calls, t, w) = prune_entries(ledger.calls, t, w)
        BY PruneCovers
    <2> QED  BY <1>5, <2>1, Zenon
<1> HIDE DEF live, D
<1>7. live.calls.total \in 0..U32_MAX
    BY <1>6, CoveredTotal
<1>8. StageCounts(cfg, live, ctxs, Len(ctxs), s)
    <2>1. live.calls.total \in Nat
        BY <1>3, <1>7
    <2> QED  BY <1>2, <2>1, StageCountsRun
<1>9. s \in Stage
    BY EvalContextsType
<1> HIDE DEF s
<1>10. n \in Nat /\ s.calls = n /\ (n > 0 => live.calls.total + n <= limit)
    BY <1>3, <1>8, CallCountStep DEF StageCounts
<1>11. live.calls.total + n <= U32_MAX
    <2>1. n = 0 \/ limit < U32_MAX
        BY <1>3, CallCountStep
    <2> DEFINE total == live.calls.total
    <2>2. total \in 0..U32_MAX /\ (n > 0 => total + n <= limit)
        BY <1>7, <1>10
    <2> HIDE DEF n, limit, total
    <2>3. CASE n = 0
        BY <1>3, <2>2, <2>3 DEF total
    <2>4. CASE n # 0
        <3>1. n > 0 /\ limit < U32_MAX
            BY <1>10, <2>1, <2>4
        <3> QED  BY <1>3, <1>10, <2>2, <3>1 DEF total
    <2> QED  BY <2>3, <2>4
<1> DEFINE spends == Spends(live, s.admission, t)
           recips == Recips(spends, s.recipients, t)
<1>12. s.admission \in Seq(Nat \ {0}) /\ s.recipients \in StagedAmounts
    BY <1>9 DEF Stage
<1>13. spends \in LedgersUpTo(t) /\ spends.calls = live.calls
    BY <1>4, <1>12, SpendsType, OnlyMeteredAreCalls
<1>14. D.ledger = Metered(recips, s.calls, t)
    <2>1. CommitStaged(live, s, t) = Metered(recips, s.calls, t)
        BY DEF CommitStaged, Spends, Recips, Metered
    <2> QED  BY <1>2, <2>1, Zenon
<1> HIDE DEF spends
<1>15. recips \in LedgersUpTo(t) /\ recips.calls = live.calls
    BY <1>12, <1>13, RecipsType, OnlyMeteredAreCalls
<1> HIDE DEF recips, n
<1>16. Covered(recips.calls, c, t, w, U32_MAX) /\ recips.calls.total + n <= U32_MAX
    BY <1>6, <1>11, <1>15, Zenon
<1>17. /\ Covered(Metered(recips, n, t).calls, Plus(c, t, n), t, w, U32_MAX)
       /\ Metered(recips, n, t).calls.total = recips.calls.total + n
    BY <1>10, <1>15, <1>16, MeteredCovers
<1>18. /\ Covered(D.ledger.calls, Plus(c, t, n), t, w, U32_MAX)
       /\ D.ledger.calls.total = live.calls.total + n
    BY <1>10, <1>14, <1>15, <1>17, Zenon
<1>19. n = 0 => JustPruned(D.ledger.calls, ledger.calls, t, w)
    <2>1. Metered(recips, 0, t) = recips
        BY <1>15, MeteredOneMore
    <2> QED  BY <1>5, <1>10, <1>14, <1>15, <2>1, Zenon DEF JustPruned
<1> QED  BY <1>10, <1>18, <1>19 DEF D, n
=============================================================================
