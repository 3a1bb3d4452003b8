------------------------------- MODULE Policy -------------------------------
(***************************************************************************)
(* The policy an admin installs (PolicyConfig of src/src/types.rs) and the *)
(* validation that set_policy and validate_policy run on it                *)
(* (first_failing_rule of src/src/lib.rs).                                 *)
(*                                                                         *)
(* A PolicyConfig is a record with the source's field names.  Lists are    *)
(* sequences, because duplicates and lengths are validated; `fns` of a     *)
(* protocol rule is None or a sequence of function names.                  *)
(***************************************************************************)
EXTENDS Window

CONSTANTS
    Address,                 \* accounts and contracts
    Self,                    \* the address of this account contract
    None,                    \* an absent Option or storage key
    MAX_POLICY_ASSETS,
    MAX_POLICY_PROTOCOLS,
    MAX_RECIPIENT_ENTRIES,
    MAX_ASSET_CAP_ENTRIES,
    MAX_WINDOW_SECS,
    MAX_DMS_GRACE_SECS

PolicyConfig ==
    [per_tx_cap : Int, window_secs : Nat, window_cap : Int,
     assets : Seq(Address),
     protocols : Seq([contract : Address, fns : Seq(STRING) \union {None}, paused : BOOLEAN]),
     recipients : Seq(Address),
     recipient_window_caps : Seq([recipient : Address, cap : Int]),
     blocked_recipients : Seq(Address),
     asset_caps : Seq([asset : Address, per_tx_cap : Int, paused : BOOLEAN]),
     allow_any_recipient : BOOLEAN, active_from : Nat, active_until : Nat,
     paused : BOOLEAN, dms_grace_secs : Nat, protocol_calls_per_window : Nat]

ASSUME PolicyConstants ==
    /\ Self \in Address
    /\ None \notin Address \union PolicyConfig \union Int
    /\ \A m \in {MAX_POLICY_ASSETS, MAX_POLICY_PROTOCOLS, MAX_RECIPIENT_ENTRIES,
                 MAX_ASSET_CAP_ENTRIES, MAX_WINDOW_SECS, MAX_DMS_GRACE_SECS} :
           m \in Nat

(* The result of a rule that does not fail. *)
Valid == "Valid"

Rule(fails, id) == IF fails THEN id ELSE Valid

(* The first rule of a list that fails, or Valid. *)
FirstFailing(rules) ==
    LET i == SelectInSeq(rules, LAMBDA r : r # Valid)
    IN  IF i = 0 THEN Valid ELSE rules[i]

has_dup(s) == ~ IsInjective(s)

(* Seeded fault: the entries are checked one by one, never against each    *)
(* other.                                                                  *)
recipient_caps_one_by_one(cfg) ==
    LET caps == cfg.recipient_window_caps
    IN  FirstFailing([i \in DOMAIN caps |-> FirstFailing(<<
          Rule(caps[i].cap < 0, "RecipientCapSign"),
          Rule(caps[i].cap > 0 /\ cfg.window_secs = 0, "WindowRequiresWidth"),
          Rule(caps[i].recipient = Self, "SelfAddressInList")>>)])

(* Duplicates first, then the entries in order. *)
first_failing_recipient_cap_rule(cfg) ==
    LET caps == cfg.recipient_window_caps
    IN  FirstFailing(
          <<Rule(has_dup([i \in DOMAIN caps |-> caps[i].recipient]), "DuplicateRecipientCap")>>
          \o [i \in DOMAIN caps |-> FirstFailing(<<
                Rule(caps[i].cap < 0, "RecipientCapSign"),
                Rule(caps[i].cap > 0 /\ cfg.window_secs = 0, "WindowRequiresWidth"),
                Rule(caps[i].recipient = Self, "SelfAddressInList")>>)])

(* The entries in order first, then duplicates. *)
first_failing_asset_cap_rule(cfg) ==
    LET caps == cfg.asset_caps
    IN  FirstFailing(
          [i \in DOMAIN caps |-> FirstFailing(<<
                Rule(caps[i].per_tx_cap < 0, "AmountSign"),
                Rule(caps[i].asset = Self, "SelfAddressInList"),
                Rule(caps[i].asset \notin ToSet(cfg.assets), "AssetCapUnknownAsset")>>)]
          \o <<Rule(has_dup([i \in DOMAIN caps |-> caps[i].asset]), "DuplicateAssetCap")>>)

(* Each protocol rule in order: its contract against the earlier ones,     *)
(* then its function list.                                                 *)
FirstFailingProtocolRule(cfg) ==
    LET rules == cfg.protocols
    IN  FirstFailing([i \in DOMAIN rules |-> FirstFailing(<<
          Rule(\E j \in 1..(i - 1) : rules[j].contract = rules[i].contract,
               "ProtocolContractDuplicate"),
          Rule(rules[i].fns # None /\ (rules[i].fns = <<>> \/ has_dup(rules[i].fns)),
               "ProtocolFnListInvalid")>>)])

first_failing_rule(cfg) ==
    LET protocolContracts == {r.contract : r \in ToSet(cfg.protocols)}
        recipients == ToSet(cfg.recipients)
        blocked == ToSet(cfg.blocked_recipients)
    IN  FirstFailing(<<
          Rule(Len(cfg.assets) > MAX_POLICY_ASSETS, "AssetListTooLong"),
          Rule(Len(cfg.protocols) > MAX_POLICY_PROTOCOLS, "ProtocolListTooLong"),
          Rule(\E l \in {cfg.recipients, cfg.recipient_window_caps, cfg.blocked_recipients} :
                   Len(l) > MAX_RECIPIENT_ENTRIES, "RecipientListTooLong"),
          Rule(Len(cfg.asset_caps) > MAX_ASSET_CAP_ENTRIES, "AssetCapListTooLong"),
          Rule(cfg.per_tx_cap < 0 \/ cfg.window_cap < 0, "AmountSign"),
          Rule(cfg.window_cap > 0 /\ cfg.window_secs = 0, "WindowRequiresWidth"),
          Rule(cfg.per_tx_cap > 0 /\ cfg.window_cap > 0 /\ cfg.per_tx_cap > cfg.window_cap,
               "PerTxCapExceedsWindowCap"),
          Rule(cfg.active_until # 0 /\ cfg.active_until <= cfg.active_from, "ActiveWindowOrder"),
          Rule(Self \in ToSet(cfg.assets) \union protocolContracts \union recipients \union blocked,
               "SelfAddressInList"),
          Rule(\E l \in {cfg.assets, cfg.recipients, cfg.blocked_recipients} : has_dup(l),
               "DuplicateAddressInList"),
          first_failing_recipient_cap_rule(cfg),
          first_failing_asset_cap_rule(cfg),
          Rule(recipients \intersect blocked # {}, "RecipientAllowAndBlocked"),
          FirstFailingProtocolRule(cfg),
          Rule(cfg.window_secs > MAX_WINDOW_SECS \/ cfg.dms_grace_secs > MAX_DMS_GRACE_SECS,
               "DurationExceedsBound")>>)

(* validate_config: set_policy accepts a config iff no rule fails. *)
validate_config(cfg) == first_failing_rule(cfg) = Valid
=============================================================================
