------------------------------- MODULE AgentTx ------------------------------
(***************************************************************************)
(* The agent-tx tool (src/tools/agent-tx/src/main.rs) composed with the    *)
(* account.  A client is one invocation of the tool: it reads the agent's  *)
(* sequence number and the latest ledger, signs an authorization, asks the *)
(* RPC to simulate, and for the submitting commands sends the transaction  *)
(* and polls for its result.  Several invocations run at once: two agents, *)
(* or an operator who runs the command again.                              *)
(*                                                                         *)
(* External, modelled from how the tool uses them: the RPC (any request    *)
(* may fail, and may have been carried out all the same), the mempool and  *)
(* the ledger that includes a transaction.  Between any two requests of a  *)
(* client the owner, other clients and time move.  One ledger closes per   *)
(* second, so the ledger sequence is `now`.                                *)
(***************************************************************************)
EXTENDS Account, Footprint

CONSTANTS
    Client,         \* invocations of the tool
    Job,            \* Job[c]: the commands invocation c may be given
    FirstPolicy,    \* the policy in force when the runs start
    OperatorKey,    \* the keys operators sign with, registered or not
    NonceSpan,      \* 2^32 in the code: how many values the entropy has
    SigTtl,         \* 10000 in the code: ledgers a signature stays valid
    PollLimit       \* 20 in the code: getTransaction polls of one run

(* A call is a transfer, a transfer_from or a heartbeat; a job without a   *)
(* key is an unsigned preflight or a check.                                *)
Command == {"transfer", "transfer-from", "heartbeat", "preflight", "check"}
Call == [fn : {"Transfer"}, token : Address, to : Address, amount : Int]
          \union [fn : {"TransferFrom"}, token : Address, from : Address,
                  to : Address, amount : Int]
          \union [fn : {"Heartbeat"}]

(* The reasons a report gives for a failed run. *)
FailureReason ==
    {"unsigned_simulation", "expect_block_unmet", "submission_failed", "timeout", "tx_failed"}

ASSUME AgentTxConstants ==
    /\ DOMAIN Job = Client
    /\ \A c \in Client : Job[c] \subseteq
          [cmd : Command, call : Call, key : OperatorKey \union {None}, expect_blocked : BOOLEAN]
    /\ \A c \in Client : \A j \in Job[c] :
          IF j.key = None THEN j.cmd \in {"preflight", "check"} ELSE j.cmd # "check"
    /\ None \notin OperatorKey \union FailureReason
    /\ FirstPolicy \in PolicyConfig /\ validate_config(FirstPolicy) /\ MaxRevision > 0
    /\ NonceSpan \in Nat \ {0} /\ SigTtl \in Nat /\ PollLimit \in Nat \ {0}

VARIABLES
    run,          \* run[c]: the local state of invocation c
    accountSeq,   \* the last sequence number the agent's account used
    mempool,      \* transactions the network may still include
    results,      \* included transactions with why they failed, "none" if they did not
    usedNonces    \* nonces the host has on record for the guard

accountVars == vars
chainVars   == <<accountSeq, mempool, results, usedNonces>>
tvars       == <<accountVars, run, chainVars>>

-----------------------------------------------------------------------------
(* The RPC *)

(* What comes back for one request: whether it connected, how reading the  *)
(* body went, and what the JSON holds.                                     *)
Wire == [connect : {"ok", "timeout", "error"},
         body : {"json", "timeout", "unreadable", "not_json"},
         error : BOOLEAN, success_status : BOOLEAN, result : BOOLEAN]

(* Rpc::post: the failure it classifies a reply as, None when it returns   *)
(* the result.  A JSON-RPC error is looked for before the HTTP status.     *)
post(w) ==
    CASE w.connect = "timeout"                  -> "Timeout"
      [] w.connect = "error"                    -> "Transport"
      [] w.connect = "ok" /\ w.body = "timeout" -> "Timeout"
      [] w.connect = "ok" /\ w.body \in {"unreadable", "not_json"} -> "InvalidResponse"
      [] w.connect = "ok" /\ w.body = "json" ->
            IF w.error THEN "JsonRpc"
            ELSE IF ~ w.success_status THEN "Http"
            ELSE IF ~ w.result THEN "InvalidResponse"
            ELSE None

RpcFailureKind == {post(w) : w \in Wire} \ {None}

(* RpcError::exit_code *)
rpc_exit_code(kind) == IF kind \in {"Timeout", "Transport", "Http"} THEN 3 ELSE 4

-----------------------------------------------------------------------------
(* What a job asks for *)

Submits(j) == j.cmd \in {"transfer", "transfer-from", "heartbeat"}

(* Call::kind *)
kind_of(call) == IF call.fn = "Heartbeat" THEN "Heartbeat" ELSE "Transfer"

(* Call::invocation: the context the host hands to __check_auth. *)
invocation(call) ==
    CASE call.fn = "Transfer" ->
            [contract |-> call.token, fn |-> "transfer",
             args |-> <<Self, call.to, call.amount>>]
      [] call.fn = "TransferFrom" ->
            [contract |-> call.token, fn |-> "transfer_from",
             args |-> <<call.from, Self, call.to, call.amount>>]
      [] call.fn = "Heartbeat" -> SelfCall("heartbeat")

(* Seeded fault: the nonce is the entropy alone. *)
auth_nonce_low(latest, entropy) == entropy

auth_nonce(latest, entropy) == latest * NonceSpan + entropy

-----------------------------------------------------------------------------
(* What the account says to a signed call now: Allowed, the reason symbol  *)
(* of the guard's blocked event, or "trap" when the signature does not     *)
(* verify, which leaves no event.                                          *)
GuardVerdict(key, call) ==
    CASE agentKey # None /\ key # agentKey -> "trap"
      [] agentKey = None                   -> "NotInitialized"
      [] agentKey = key /\ policy = None   -> "NoPolicy"
      [] agentKey = key /\ policy # None   -> Decision(<<invocation(call)>>).verdicts[1]

PolicyBlock(verdict) == verdict \notin {Allowed, "trap", "none"}

(* The guard's keys the call touches when it is applied now.  Every event  *)
(* reads PolicyRevision; the window is written when it was stored or has   *)
(* entries to store.                                                       *)
KeysRead == {"Instance", "Policy", "AdminFrozen", "Window", "LastHeartbeat", "PolicyRevision"}
KeysWritten(call) ==
    {k \in {"Window", "LastHeartbeat"} :
        \/ k = "LastHeartbeat" /\ call.fn = "Heartbeat"
        \/ k = "Window" /\ (window # None \/ HasEntries(Decision(<<invocation(call)>>).ledger))}

(* The footprint simulateTransaction returns.  The request carries a       *)
(* signed entry, so the simulation runs __check_auth (the run reads the    *)
(* guard's verdict out of it) and records what it touches at that moment.  *)
SimFootprint(call) ==
    [read_only  |-> KeysRead \ KeysWritten(call),
     read_write |-> {"Token"} \union KeysWritten(call)]

Covers(fp, call) ==
    /\ KeysRead \subseteq fp.read_only \union fp.read_write
    /\ KeysWritten(call) \subseteq fp.read_write

-----------------------------------------------------------------------------
(* One invocation *)

Idle == [pc |-> "idle", job |-> None, seq |-> 0, latest |-> 0, nonce |-> None,
         refused |-> FALSE, tx |-> None, polls |-> 0,
         exit |-> None, report |-> None, named |-> FALSE, broke |-> FALSE]

(* RunReport: the outcome, the reason of a failed run (the reason symbol   *)
(* of a blocked one is left out), and whether tx_hash is present.          *)
RunReport(outcome, reason, tx_hash) ==
    [outcome |-> outcome, reason |-> reason, tx_hash |-> tx_hash]

(* The process ends; what it no longer needs is forgotten. *)
Ended(r, code) ==
    [r EXCEPT !.pc = "done", !.exit = code,
              !.seq = 0, !.latest = 0, !.nonce = None, !.polls = 0]

Exit(c, code, report) == run' = [run EXCEPT ![c] = Ended([@ EXCEPT !.report = report], code)]

(* rpc_exit: the failure is printed and no report is emitted. *)
rpc_exit(c, kind) == run' = [run EXCEPT ![c] = Ended(@, rpc_exit_code(kind))]

(* The operator starts the tool; a check asks for neither sequence nor     *)
(* ledger.                                                                 *)
Start(c, j) ==
    /\ run[c].pc = "idle"
    /\ run' = [run EXCEPT ![c] = [Idle EXCEPT !.job = j,
                                     !.pc = IF j.cmd = "check" THEN "simulate" ELSE "seq"]]
    /\ UNCHANGED <<accountVars, chainVars>>

(* rpc_or_exit: any failure of a read ends the run.  An unsigned preflight *)
(* has one read more, of the registered key, with the same effect.         *)
ReadFails(c) ==
    /\ run[c].pc \in {"seq", "ledger", "simulate"}
    /\ \E kind \in RpcFailureKind : rpc_exit(c, kind)
    /\ UNCHANGED <<accountVars, chainVars>>

account_seq(c) ==
    /\ run[c].pc = "seq"
    /\ run' = [run EXCEPT ![c] = [@ EXCEPT !.pc = "ledger", !.seq = accountSeq + 1]]
    /\ UNCHANGED <<accountVars, chainVars>>

(* The latest ledger, and the nonce of the authorization that is signed    *)
(* under it.                                                               *)
latest_ledger(c) ==
    /\ run[c].pc = "ledger"
    /\ \E entropy \in 0 .. NonceSpan - 1 :
          run' = [run EXCEPT ![c] =
                     [@ EXCEPT !.pc = "simulate", !.latest = now,
                               !.nonce = IF run[c].job.key = None THEN None
                                         ELSE auth_nonce(now, entropy)]]
    /\ UNCHANGED <<accountVars, chainVars>>

-----------------------------------------------------------------------------
(* Simulation *)

(* The shapes of a failed simulation: an error object with the events in   *)
(* its data, an error string beside the events, or no events at all.       *)
ErrorShape == {"object", "string", "bare"}

(* Seeded fault: any event of a failed simulation counts as the guard's. *)
any_event_is_a_block(shape, verdict) == shape # "bare"

(* is_guard_auth_checked_block over simulation_events. *)
is_guard_auth_checked_block(shape, verdict) == shape # "bare" /\ PolicyBlock(verdict)

(* RunOutcome::exit_code *)
exit_code(outcome, policy_block, expect_blocked) ==
    CASE outcome = "SimulationBlocked"  -> IF policy_block /\ expect_blocked THEN 0 ELSE 1
      [] outcome = "TransactionSuccess" -> 0
      [] outcome = "TransactionFailure" -> IF expect_blocked THEN 0 ELSE 1
      [] outcome \in {"SimulationSuccessUnexpectedBlock", "SendError",
                      "EmptyHash", "TransactionTimeout"} -> 1

(* What the host answers: __check_auth runs only when the envelope has a   *)
(* signed entry; the nonce must be unused and the token may refuse on its  *)
(* own (no balance, no allowance).                                         *)
SimVerdict(c) ==
    IF run[c].job.key = None THEN "none" ELSE GuardVerdict(run[c].job.key, run[c].job.call)
HostAccepts(c) ==
    /\ SimVerdict(c) \in {Allowed, "none"}
    /\ run[c].nonce \notin usedNonces

(* The simulation fails: nothing is broadcast.  A preflight without a key  *)
(* is inconclusive whatever the simulation said.                           *)
SimulationFails(c) ==
    LET j == run[c].job IN
    /\ run[c].pc = "simulate"
    /\ ~ HostAccepts(c) \/ j.call.fn # "Heartbeat"
    /\ \E shape \in ErrorShape :
          LET verdict == SimVerdict(c)
              block   == is_guard_auth_checked_block(shape, verdict)
              report  == IF j.cmd = "preflight" /\ j.key = None
                         THEN RunReport("failed", "unsigned_simulation", FALSE)
                         ELSE RunReport("blocked", None, FALSE)
              code    == CASE j.cmd = "check" -> 0
                           [] j.cmd = "preflight" /\ j.key = None ->
                                  IF block /\ j.expect_blocked THEN 0 ELSE 2
                           [] OTHER -> exit_code("SimulationBlocked", block, j.expect_blocked)
          IN  run' = [run EXCEPT ![c] =
                         Ended([@ EXCEPT !.report = report, !.refused = PolicyBlock(verdict)], code)]
    /\ UNCHANGED <<accountVars, chainVars>>

(* The transaction run() signs: its hash stands for all of it. *)
Transaction(c, fp) ==
    [call |-> run[c].job.call, key |-> run[c].job.key, seq |-> run[c].seq,
     nonce |-> run[c].nonce, expires |-> run[c].latest + SigTtl,
     footprint |-> merge_guard_footprint(fp, kind_of(run[c].job.call))]

(* run() stops when a block was expected and the simulation passed. *)
expect_block_unmet(j) == j.expect_blocked

(* The simulation passes: a check or a preflight reports, a submitting     *)
(* command goes on.                                                        *)
SimulationPasses(c) ==
    LET j == run[c].job IN
    /\ run[c].pc = "simulate"
    /\ HostAccepts(c)
    /\ CASE ~ Submits(j) /\ (j.cmd = "check" \/ j.key # None) ->
                Exit(c, 0, RunReport("allowed", None, FALSE))
         [] ~ Submits(j) /\ j.cmd = "preflight" /\ j.key = None ->
                Exit(c, 2, RunReport("failed", "unsigned_simulation", FALSE))
         [] Submits(j) /\ expect_block_unmet(j) ->
                Exit(c, exit_code("SimulationSuccessUnexpectedBlock", FALSE, TRUE),
                     RunReport("failed", "expect_block_unmet", FALSE))
         [] Submits(j) /\ ~ expect_block_unmet(j) ->
                run' = [run EXCEPT ![c] =
                           [@ EXCEPT !.pc = "send",
                                     !.tx = Transaction(c, SimFootprint(j.call)),
                                     !.seq = 0, !.latest = 0, !.nonce = None]]
    /\ UNCHANGED <<accountVars, chainVars>>

-----------------------------------------------------------------------------
(* Submission *)

(* The RPC took the request: it queued the transaction, or it names the    *)
(* hash of one it did not queue (the tool does not look at the status).    *)
SendAccepted(c) ==
    /\ run[c].pc = "send"
    /\ mempool' \in {mempool, mempool \union {run[c].tx}}
    /\ run' = [run EXCEPT ![c] = [@ EXCEPT !.pc = "poll", !.named = TRUE]]
    /\ UNCHANGED <<accountVars, accountSeq, results, usedNonces>>

(* The RPC answers with an error or without a hash; nothing was queued. *)
SendRefused(c) ==
    /\ run[c].pc = "send"
    /\ \E outcome \in {"SendError", "EmptyHash"} :
          Exit(c, exit_code(outcome, FALSE, run[c].job.expect_blocked),
               RunReport("failed", "submission_failed", FALSE))
    /\ UNCHANGED <<accountVars, chainVars>>

(* Seeded fault: a timed-out send gives no hint. *)
never_hint(kind) == FALSE

(* A timed-out send names the hash, another failure does not. *)
hints_hash(kind) == kind = "Timeout"

(* The request fails, and may have been carried out all the same. *)
SendFails(c) ==
    /\ run[c].pc = "send"
    /\ mempool' \in {mempool, mempool \union {run[c].tx}}
    /\ \E kind \in RpcFailureKind :
          run' = [run EXCEPT ![c] =
                     Ended([@ EXCEPT !.named = hints_hash(kind), !.broke = kind # "Timeout"],
                           rpc_exit_code(kind))]
    /\ UNCHANGED <<accountVars, accountSeq, results, usedNonces>>

-----------------------------------------------------------------------------
(* Polling *)

(* Seeded fault: a poll that timed out starts the count again. *)
next_poll_restarted(r, timed_out) ==
    IF timed_out THEN [r EXCEPT !.polls = 0]
    ELSE IF r.polls + 1 < PollLimit THEN [r EXCEPT !.polls = @ + 1]
    ELSE Ended([r EXCEPT !.report = RunReport("failed", "timeout", TRUE)],
               exit_code("TransactionTimeout", FALSE, r.job.expect_blocked))

(* Seeded fault: the loop turns once more than its bound. *)
next_poll_once_more(r, timed_out) ==
    IF r.polls < PollLimit THEN [r EXCEPT !.polls = @ + 1]
    ELSE Ended([r EXCEPT !.report = RunReport("failed", "timeout", TRUE)],
               exit_code("TransactionTimeout", FALSE, r.job.expect_blocked))

(* The next turn of the poll loop, or the timeout report after the last. *)
next_poll(r, timed_out) ==
    IF r.polls + 1 < PollLimit THEN [r EXCEPT !.polls = @ + 1]
    ELSE Ended([r EXCEPT !.report = RunReport("failed", "timeout", TRUE)],
               exit_code("TransactionTimeout", FALSE, r.job.expect_blocked))

(* No terminal status yet: the transaction is pending, was dropped, or the *)
(* RPC lags behind the ledger; or the request timed out.                   *)
PollAgain(c) ==
    /\ run[c].pc = "poll"
    /\ \E timed_out \in BOOLEAN : run' = [run EXCEPT ![c] = next_poll(@, timed_out)]
    /\ UNCHANGED <<accountVars, chainVars>>

(* Any other failure of a poll ends the run. *)
PollFails(c) ==
    /\ run[c].pc = "poll"
    /\ \E kind \in RpcFailureKind \ {"Timeout"} : rpc_exit(c, kind)
    /\ UNCHANGED <<accountVars, chainVars>>

(* Seeded fault: an included transaction is taken for a successful one. *)
inclusion_is_success(why) == "SUCCESS"

(* The status getTransaction gives for an included transaction. *)
tx_status(why) == IF why = "none" THEN "SUCCESS" ELSE "FAILED"

PollAnswered(c) ==
    /\ run[c].pc = "poll"
    /\ \E res \in results :
          /\ res.tx = run[c].tx
          /\ IF tx_status(res.why) = "SUCCESS"
             THEN Exit(c, exit_code("TransactionSuccess", FALSE, run[c].job.expect_blocked),
                       RunReport("allowed", None, TRUE))
             ELSE Exit(c, exit_code("TransactionFailure", FALSE, run[c].job.expect_blocked),
                       RunReport("failed", "tx_failed", TRUE))
    /\ UNCHANGED <<accountVars, chainVars>>

-----------------------------------------------------------------------------
(* The network *)

(* Why an included transaction fails when it is applied now. *)
Failures(tx) ==
    {why \in {"expired", "nonce", "auth", "footprint", "token"} :
        \/ why = "expired" /\ now > tx.expires
        \/ why = "nonce" /\ tx.nonce \in usedNonces
        \/ why = "auth" /\ GuardVerdict(tx.key, tx.call) # Allowed
        \/ why = "footprint" /\ GuardVerdict(tx.key, tx.call) = Allowed
                             /\ ~ Covers(tx.footprint, tx.call)
        \/ why = "token" /\ tx.call.fn # "Heartbeat"}

(* The account's part of a transaction that is applied. *)
Apply(tx) ==
    IF tx.call.fn = "Heartbeat" THEN heartbeat(tx.key)
    ELSE check_auth(tx.key, <<invocation(tx.call)>>)

(* A ledger includes the transaction that carries the next sequence        *)
(* number; a failed one uses the sequence and changes nothing else.  One   *)
(* that is never included is one the network dropped.                      *)
Include(tx) ==
    /\ tx.seq = accountSeq + 1
    /\ accountSeq' = tx.seq
    /\ mempool' = mempool \ {tx}
    /\ \/ /\ Failures(tx) \subseteq {"token"}
          /\ Apply(tx)
          /\ usedNonces' = usedNonces \union {tx.nonce}
          /\ results' = results \union {[tx |-> tx, why |-> "none"]}
       \/ /\ \E why \in Failures(tx) : results' = results \union {[tx |-> tx, why |-> why]}
          /\ UNCHANGED <<accountVars, usedNonces>>
    /\ UNCHANGED run

-----------------------------------------------------------------------------
(* An account in service: initialized, with a policy installed by its      *)
(* admin in the first second.                                              *)
TInit ==
    /\ now = 1
    /\ admin \in Signer /\ pendingAdmin = None
    /\ agentKey \in Key \intersect OperatorKey
    /\ policy = FirstPolicy /\ revision = 1
    /\ window = to_state(Ledger_empty)
    /\ lastHeartbeat = 1 /\ adminFrozen = FALSE /\ autoFrozenAt = 0
    /\ run = [c \in Client |-> Idle]
    /\ accountSeq = 0 /\ mempool = {} /\ results = {} /\ usedNonces = {}

(* Every step of an invocation once it is started. *)
ClientStep(c) ==
    \/ ReadFails(c)
    \/ account_seq(c)
    \/ latest_ledger(c)
    \/ SimulationFails(c)
    \/ SimulationPasses(c)
    \/ SendAccepted(c)
    \/ SendRefused(c)
    \/ SendFails(c)
    \/ PollAgain(c)
    \/ PollFails(c)
    \/ PollAnswered(c)

(* What the owner may do to the account meanwhile: change the verdict or   *)
(* which keys are stored.  (The admin's other operations do no more than   *)
(* one of these.)                                                          *)
OwnerStep ==
    /\ \E who \in Signer :
          \/ \E cfg \in Config : set_policy(who, cfg)
          \/ reset_window(who)
          \/ freeze(who)
    /\ UNCHANGED <<run, chainVars>>

TNext ==
    \/ \E c \in Client : ClientStep(c) \/ \E j \in Job[c] : Start(c, j)
    \/ \E tx \in mempool : Include(tx)
    \/ OwnerStep
    \/ Tick /\ UNCHANGED <<run, chainVars>>

(* Every request ends within --rpc-timeout, with an answer or a failure,   *)
(* so a started process always gets to take its next step.                 *)
Fairness == \A c \in Client : WF_tvars(ClientStep(c))

TSpec == TInit /\ [][TNext]_tvars /\ Fairness

-----------------------------------------------------------------------------
(* Properties *)

Done(c) == run[c].pc = "done"

(* The transaction of c is on the network: it may yet be applied, or was. *)
Broadcast(c) ==
    run[c].tx # None /\ (run[c].tx \in mempool \/ \E res \in results : res.tx = run[c].tx)

ResultsOf(c) == {res \in results : res.tx = run[c].tx}

TTypeOK ==
    /\ TypeOK
    /\ DOMAIN run = Client
    /\ \A c \in Client :
          /\ run[c].pc \in {"idle", "seq", "ledger", "simulate", "send", "poll", "done"}
          /\ run[c].polls \in 0 .. PollLimit - 1
          /\ run[c].exit \in 0 .. 4 \union {None}
          /\ Done(c) <=> run[c].exit # None
    /\ \A res \in results : res.tx.seq \in 1 .. accountSeq
    /\ \A r1, r2 \in results : r1.tx.seq = r2.tx.seq => r1 = r2

(* A verdict on a broadcast transaction is what the ledger did with it: an *)
(* `allowed` report with a hash stands for a call the account authorized   *)
(* and recorded, `tx_failed` for one that was included and changed         *)
(* nothing, whatever the owner and other runs did, and whichever signature *)
(* expired, in between.                                                    *)
VerdictMatchesLedger ==
    \A c \in Client :
        (Done(c) /\ run[c].report # None /\ run[c].report.tx_hash) =>
            /\ run[c].report.outcome = "allowed" =>
                   run[c].exit = 0 /\ \E res \in ResultsOf(c) : res.why = "none"
            /\ run[c].report.reason = "tx_failed" =>
                   run[c].exit = 1 /\ \E res \in ResultsOf(c) : res.why # "none"

(* README of the tool: --expect-blocked "returns success only when the     *)
(* simulation contains a guard auth_checked block; other transaction       *)
(* failures are not treated as policy denials", and such a run never       *)
(* broadcasts.  It excepts the signed preflight that was admitted: it      *)
(* reports so and exits 0, with the flag or without.                       *)
AdmittedPreflight(r) ==
    r.job.cmd = "preflight" /\ r.job.key # None /\ r.report.outcome = "allowed"
ExpectBlockedSound ==
    \A c \in Client :
        (run[c].job # None /\ run[c].job.cmd # "check" /\ run[c].job.expect_blocked) =>
            /\ run[c].tx = None
            /\ run[c].exit = 0 => run[c].refused \/ AdmittedPreflight(run[c])

(* A run that ended leaves no transaction behind that it did not name,     *)
(* unless the send itself broke: a refused submission, a failed            *)
(* simulation or an unmet expectation can be tried again without paying    *)
(* twice, and after a timed-out send or poll the hash is known.  (Two runs *)
(* that draw the same entropy in one ledger may sign the very same         *)
(* transaction; then it is the other's.)                                   *)
BroadcastIsNamed ==
    \A c \in Client :
        (Done(c) /\ Broadcast(c) /\ ~ run[c].named) =>
            run[c].broke \/ \E d \in Client \ {c} : run[d].tx = run[c].tx

(* Nonces signed under different ledgers never collide (the ledger is the  *)
(* high half, see auth_nonce), so a simulation finds its nonce used only   *)
(* by a run that signed under the very same ledger, whatever was broadcast *)
(* and included before.                                                    *)
ReplayOnlyWithinLedger ==
    \A c \in Client :
        (run[c].pc = "simulate" /\ run[c].nonce \in usedNonces) =>
            \E res \in results :
                /\ res.why = "none" /\ res.tx.nonce = run[c].nonce
                /\ res.tx.expires = run[c].latest + SigTtl

(* A transfer never fails because the guard touches a key outside the      *)
(* declared footprint, although the window may have been created or        *)
(* removed, and the policy edited, since the simulation that measured it.  *)
TransferFootprintCovers ==
    \A res \in results : res.why = "footprint" => res.tx.call.fn = "Heartbeat"

(* Every started run ends, whatever the RPC and the network do. *)
EveryRunEnds == \A c \in Client : run[c].pc # "idle" ~> Done(c)
=============================================================================
