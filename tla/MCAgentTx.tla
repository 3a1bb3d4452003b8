----------------------------- MODULE MCAgentTx ------------------------------
(***************************************************************************)
(* Instances of the tool for TLC: the account with a capped and an         *)
(* uncapped policy, and jobs of every command.                             *)
(***************************************************************************)
EXTENDS AgentTx

CONSTANTS alice, bob, token, k1, k2, c1, c2

AgentPolicy ==
    [per_tx_cap |-> 0, window_secs |-> 2, window_cap |-> 1,
     assets |-> <<token>>, protocols |-> <<>>, recipients |-> <<>>,
     recipient_window_caps |-> <<>>, blocked_recipients |-> <<>>, asset_caps |-> <<>>,
     allow_any_recipient |-> TRUE, active_from |-> 0, active_until |-> 0,
     paused |-> FALSE, dms_grace_secs |-> 0, protocol_calls_per_window |-> 0]
AgentConfig == {AgentPolicy}
UncappedPolicy == [AgentPolicy EXCEPT !.window_cap = 0]

PayBob == [fn |-> "Transfer", token |-> token, to |-> bob, amount |-> 1]
PullBob == [fn |-> "TransferFrom", token |-> token, from |-> alice, to |-> bob, amount |-> 1]
Beat == [fn |-> "Heartbeat"]

Run(cmd, call) == [cmd |-> cmd, call |-> call, key |-> k1, expect_blocked |-> FALSE]
(* One invocation of almost any command beside one that submits. *)
AnyJob ==
    {Run("transfer-from", PullBob), Run("preflight", PayBob),
     [Run("preflight", PayBob) EXCEPT !.key = None],
     [Run("check", PayBob) EXCEPT !.key = None],
     [Run("preflight", PayBob) EXCEPT !.expect_blocked = TRUE],
     [Run("transfer", PayBob) EXCEPT !.expect_blocked = TRUE]}
SubmitJob == {Run("transfer", PayBob), Run("heartbeat", Beat)}
TwoJobs == (c1 :> AnyJob) @@ (c2 :> SubmitJob)
=============================================================================
