----------------------------- MODULE MCAccount ------------------------------
(***************************************************************************)
(* Instances of the account for TLC.  Addresses, keys and None are model   *)
(* values; each run picks the policies and the context lists that exercise *)
(* one part of the decision table, and bounds time and revisions.          *)
(***************************************************************************)
EXTENDS Account

CONSTANTS
    alice, bob, carol,   \* holders of accounts
    token, coin,         \* asset contracts
    dex                  \* a protocol contract

(* A policy with every limit off that allows payments to anyone. *)
OpenPolicy ==
    [per_tx_cap |-> 0, window_secs |-> 0, window_cap |-> 0,
     assets |-> <<token>>, protocols |-> <<>>, recipients |-> <<>>,
     recipient_window_caps |-> <<>>, blocked_recipients |-> <<>>, asset_caps |-> <<>>,
     allow_any_recipient |-> TRUE, active_from |-> 0, active_until |-> 0,
     paused |-> FALSE, dms_grace_secs |-> 0, protocol_calls_per_window |-> 0]

Pay(to, amount) == transfer_context(token, to, amount)
PayFrom(to, amount) ==
    [contract |-> token, fn |-> "transfer_from", args |-> <<bob, Self, to, amount>>]
Swap == [contract |-> dex, fn |-> "swap", args |-> <<>>]
Withdraw == [contract |-> dex, fn |-> "withdraw", args |-> <<>>]

-----------------------------------------------------------------------------
(* Spending: a global window with an override for bob, an edit that        *)
(* tightens the caps but not the width, and amounts whose sum with what is *)
(* spent leaves the type.                                                  *)
SpendPolicy ==
    [OpenPolicy EXCEPT !.window_secs = 3, !.window_cap = 3,
                       !.recipient_window_caps = <<[recipient |-> bob, cap |-> 2]>>]
SpendConfig == {SpendPolicy, [SpendPolicy EXCEPT !.window_cap = 2, !.per_tx_cap = 2]}
SpendBatch ==
    {<<Pay(alice, 0)>>, <<Pay(alice, 1)>>, <<PayFrom(bob, 1)>>, <<Pay(bob, 1), Pay(bob, 1)>>,
     <<Pay(alice, I128_MAX)>>, <<Pay(bob, I128_MAX)>>}

(* Protocol calls under a rate limit, beside a spend window; an edit that  *)
(* tightens the rate; and a limit without a width, which counts the calls  *)
(* of the policy's lifetime.                                               *)
CallPolicy ==
    [OpenPolicy EXCEPT !.window_secs = 2, !.window_cap = 1, !.protocol_calls_per_window = 2,
                       !.protocols = <<[contract |-> dex, fns |-> <<"swap">>, paused |-> FALSE]>>]
CallConfig ==
    {CallPolicy, [CallPolicy EXCEPT !.protocol_calls_per_window = 1],
     [CallPolicy EXCEPT !.window_secs = 0, !.window_cap = 0, !.assets = <<>>]}
CallBatch == {<<Swap>>, <<Swap, Swap>>, <<Swap, Pay(alice, 1)>>}

(* The decision table: every kind of context and every list of the policy. *)
TablePolicy ==
    [OpenPolicy EXCEPT
        !.per_tx_cap = 2, !.window_secs = 2, !.window_cap = 3,
        !.assets = <<token, coin>>,
        !.protocols = <<[contract |-> dex, fns |-> <<"swap">>, paused |-> FALSE]>>,
        !.recipients = <<alice, bob>>, !.blocked_recipients = <<carol>>,
        !.recipient_window_caps = <<[recipient |-> bob, cap |-> 1]>>,
        !.asset_caps = <<[asset |-> coin, per_tx_cap |-> 0, paused |-> FALSE]>>,
        !.allow_any_recipient = FALSE, !.protocol_calls_per_window = 2]
TableConfig ==
    {TablePolicy,
     [TablePolicy EXCEPT !.allow_any_recipient = TRUE, !.window_cap = 0,
                         !.asset_caps[1].paused = TRUE, !.active_from = 2, !.active_until = 4],
     [TablePolicy EXCEPT !.recipient_window_caps = <<>>, !.per_tx_cap = 0, !.window_cap = 4,
                         !.protocols[1].fns = None, !.protocol_calls_per_window = 1],
     [TablePolicy EXCEPT !.window_secs = 0, !.window_cap = 0],
     [TablePolicy EXCEPT !.window_secs = 0, !.recipient_window_caps = <<>>],
     [TablePolicy EXCEPT !.blocked_recipients = <<carol, alice>>],
     [TablePolicy EXCEPT !.asset_caps = @ \o @],
     [TablePolicy EXCEPT !.recipient_window_caps = @ \o <<[recipient |-> bob, cap |-> 2]>>],
     [TablePolicy EXCEPT !.protocols = @ \o <<[contract |-> dex, fns |-> None, paused |-> TRUE]>>]}
TableBatch ==
    {<<Pay(alice, 1)>>, <<Pay(bob, 1)>>, <<PayFrom(alice, 2), Swap>>, <<Swap, Withdraw>>,
     <<Swap, Pay(alice, 1)>>, <<Pay(alice, 1), Pay(bob, 1)>>, <<Pay(bob, 1), Pay(bob, 1)>>, <<Swap, Swap>>,
     <<transfer_context(coin, alice, 4), Swap>>, <<Pay(carol, 1), Swap>>,
     <<transfer_context(coin, alice, 4), transfer_context(coin, alice, 1)>>,
     <<Pay(alice, 0), Swap>>, <<SelfCall("heartbeat"), Pay(alice, 2)>>,
     <<SelfCall("set_policy"), Swap>>, <<[Pay(alice, 1) EXCEPT !.args = <<alice, 1>>], Swap>>,
     <<[Swap EXCEPT !.contract = None], Swap>>, <<[Pay(alice, 1) EXCEPT !.fn = "mint"], Swap>>,
     <<Swap, Swap, Swap>>}

(* Control: graces of two seconds, one and none, business hours, and the   *)
(* self-calls the agent may try; any signer, this account's own address    *)
(* included, may be proposed as admin.                                     *)
GracePolicy == [OpenPolicy EXCEPT !.dms_grace_secs = 2]
GraceConfig ==
    {GracePolicy, OpenPolicy,
     [GracePolicy EXCEPT !.dms_grace_secs = 1, !.active_from = 2, !.active_until = 4]}
SelfBatch ==
    {<<SelfCall("heartbeat")>>, <<SelfCall("confirm_admin_rotation")>>, <<SelfCall("unfreeze")>>}

-----------------------------------------------------------------------------
(* Policies of the runs that refute a statement of the repository. *)

WidthConfig == {[OpenPolicy EXCEPT !.window_cap = 1, !.window_secs = w] : w \in {1, 3}}
PayAlice == {<<Pay(alice, 1)>>}
=============================================================================
