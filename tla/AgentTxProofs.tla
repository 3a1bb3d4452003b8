---------------------------- MODULE AgentTxProofs ---------------------------
(***************************************************************************)
(* Theorems about the agent-tx tool beside the account, for any number of  *)
(* invocations.                                                            *)
(***************************************************************************)
EXTENDS AgentTx, AccountProofs

Fields == {"pc", "job", "seq", "latest", "nonce", "refused", "tx", "polls", "exit", "report",
           "named", "broke"}

JobSpace ==
    {j \in [cmd : Command, call : Call, key : OperatorKey \union {None}, expect_blocked : BOOLEAN] :
        IF j.key = None THEN j.cmd \in {"preflight", "check"} ELSE j.cmd # "check"}

(* A nonce drawn under ledger `latest`. *)
NonceOf(latest, nonce) == \E e \in 0 .. NonceSpan - 1 : nonce = auth_nonce(latest, e)

(* What every signed transaction carries: a nonce drawn under the ledger   *)
(* its signature was made in, and for a transfer a footprint that covers   *)
(* every key the guard may touch.                                          *)
GoodTx(tx) ==
    /\ tx.seq \in Nat
    /\ \E l \in Nat : tx.expires = l + SigTtl /\ (tx.key # None => NonceOf(l, tx.nonce))
    /\ tx.call.fn # "Heartbeat" =>
          /\ KeysRead \subseteq tx.footprint.read_only \union tx.footprint.read_write
          /\ "Window" \in tx.footprint.read_write

Early == {"idle", "seq", "ledger", "simulate"}

(* --expect-blocked, which check does not take. *)
Expecting(j) == j.cmd # "check" /\ j.expect_blocked

(* One invocation of the tool. *)
RunOK(r) ==
    /\ DOMAIN r = Fields
    /\ r.pc \in {"idle", "seq", "ledger", "simulate", "send", "poll", "done"}
    /\ r.polls \in 0 .. PollLimit - 1
    /\ r.exit \in 0 .. 4 \union {None}
    /\ r.pc = "done" <=> r.exit # None
    /\ r.seq \in Nat /\ r.latest \in Nat
    /\ r.pc # "idle" => r.job \in JobSpace
    /\ r.pc \in Early => r.tx = None
    /\ r.pc # "done" => r.report = None
    /\ r.pc \in {"send", "poll"} => ~ r.job.expect_blocked
    /\ r.pc = "simulate" /\ r.job.key # None => NonceOf(r.latest, r.nonce)
    /\ r.pc = "simulate" /\ r.job.key = None => r.nonce = None
    /\ r.pc \in {"send", "poll"} => GoodTx(r.tx)
    /\ r.job # None /\ Expecting(r.job) =>
          r.tx = None /\ (r.exit = 0 => r.refused \/ AdmittedPreflight(r))

-----------------------------------------------------------------------------
(* The steps of one invocation *)

(* Ending changes the program counter and the exit code and clears what is *)
(* no longer needed.                                                       *)
LEMMA EndedFields ==
    ASSUME NEW r, DOMAIN r = Fields, NEW code
    PROVE  /\ DOMAIN Ended(r, code) = Fields
           /\ Ended(r, code).pc = "done" /\ Ended(r, code).exit = code
           /\ Ended(r, code).polls = 0 /\ Ended(r, code).nonce = None
           /\ Ended(r, code).seq = 0 /\ Ended(r, code).latest = 0
           /\ Ended(r, code).job = r.job /\ Ended(r, code).tx = r.tx
           /\ Ended(r, code).refused = r.refused /\ Ended(r, code).report = r.report
           /\ Ended(r, code).named = r.named /\ Ended(r, code).broke = r.broke
BY DEF Ended, Fields

(* An invocation that ends with a code other than 0 is in order. *)
LEMMA EndedOK ==
    ASSUME NEW r, RunOK(r), r.pc # "idle", NEW code \in 1 .. 4
    PROVE  RunOK(Ended(r, code))
<1> DEFINE q == Ended(r, code)
<1>1. /\ DOMAIN q = Fields /\ q.pc = "done" /\ q.exit = code
      /\ q.polls = 0 /\ q.seq = 0 /\ q.latest = 0
      /\ q.job = r.job /\ q.tx = r.tx
    BY EndedFields DEF RunOK
<1>2. code # None /\ code \in 0 .. 4 \union {None} /\ code # 0
    BY PolicyConstants
<1>3. 0 \in 0 .. PollLimit - 1
    BY AgentTxConstants
<1> HIDE DEF q
<1>4. RunOK(q)
    BY <1>1, <1>2, <1>3 DEF RunOK, Early
<1> QED  BY <1>4 DEF q

(* The codes of RunOutcome::exit_code. *)
LEMMA ExitCodes ==
    ASSUME NEW block \in BOOLEAN, NEW expect \in BOOLEAN
    PROVE  /\ exit_code("SimulationBlocked", block, expect) = IF block /\ expect THEN 0 ELSE 1
           /\ exit_code("TransactionSuccess", block, expect) = 0
           /\ exit_code("TransactionFailure", block, expect) = IF expect THEN 0 ELSE 1
           /\ exit_code("SimulationSuccessUnexpectedBlock", block, expect) = 1
           /\ exit_code("SendError", block, expect) = 1
           /\ exit_code("EmptyHash", block, expect) = 1
           /\ exit_code("TransactionTimeout", block, expect) = 1
BY DEF exit_code

(* The local states of the invocations are in order. *)
RunsOK == DOMAIN run = Client /\ \A c \in Client : RunOK(run[c])

(* An invocation moves alone. *)
Moves(c) == DOMAIN run' = Client /\ \A d \in Client \ {c} : run'[d] = run[d]

(* Every write of the tool is to the local state of one invocation. *)
LEMMA WriteMoves ==
    ASSUME RunsOK, NEW c \in Client, NEW r, run' = [run EXCEPT ![c] = r]
    PROVE  Moves(c) /\ run'[c] = r
BY DEF RunsOK, Moves

(* A verdict with a transaction hash is what the ledger did with it. *)
VerdictOK(r, included) ==
    (r.pc = "done" /\ r.report # None /\ r.report.tx_hash) =>
        /\ r.report.outcome = "allowed" =>
               r.exit = 0 /\ \E res \in included : res.tx = r.tx /\ res.why = "none"
        /\ r.report.reason = "tx_failed" =>
               r.exit = 1 /\ \E res \in included : res.tx = r.tx /\ res.why # "none"

(* A signed transaction stays the invocation's, and stays named. *)
KeepsName(r, q) ==
    r.tx # None => q.tx = r.tx /\ (r.named \/ r.broke => q.named \/ q.broke)

(* What a step of an invocation does to it. *)
Steps(c) ==
    /\ Moves(c)
    /\ RunOK(run'[c])
    /\ VerdictOK(run'[c], results)
    /\ KeepsName(run[c], run'[c])

(* A started invocation has signed nothing. *)
LEMMA StartOK ==
    ASSUME RunsOK, NEW c \in Client, NEW j \in Job[c], Start(c, j)
    PROVE  Steps(c)
<1> DEFINE q == [Idle EXCEPT !.job = j, !.pc = IF j.cmd = "check" THEN "simulate" ELSE "seq"]
<1>1. Moves(c) /\ run'[c] = q
    BY WriteMoves DEF Start
<1>2. j \in JobSpace /\ (j.cmd = "check" => j.key = None)
    BY AgentTxConstants DEF JobSpace
<1>3. /\ DOMAIN q = Fields /\ q.pc \in {"seq", "simulate"} /\ q.job = j
      /\ q.seq = 0 /\ q.latest = 0 /\ q.nonce = None /\ q.tx = None /\ q.polls = 0
      /\ q.exit = None /\ q.report = None /\ (q.pc = "simulate" => j.cmd = "check")
    BY DEF Idle, Fields
<1>4. 0 \in 0 .. PollLimit - 1 /\ None # 0
    BY AgentTxConstants, PolicyConstants
<1> HIDE DEF q
<1>5. RunOK(q)
    BY <1>2, <1>3, <1>4 DEF RunOK, Early
<1>6. run[c].tx = None
    BY DEF RunsOK, RunOK, Early, Start
<1> QED  BY <1>1, <1>3, <1>5, <1>6 DEF Steps, VerdictOK, KeepsName

(* A failed request ends the run with code 3 or 4. *)
LEMMA RpcExitOK ==
    ASSUME RunsOK, NEW c \in Client, run[c].pc \notin {"idle", "done"}, NEW kind, rpc_exit(c, kind)
    PROVE  Steps(c)
<1>1. Moves(c) /\ run'[c] = Ended(run[c], rpc_exit_code(kind))
    BY WriteMoves DEF rpc_exit
<1>2. rpc_exit_code(kind) \in 1 .. 4
    BY DEF rpc_exit_code
<1>3. RunOK(run[c]) /\ run[c].report = None
    BY DEF RunsOK, RunOK
<1>4. RunOK(run'[c])
    BY <1>1, <1>2, <1>3, EndedOK
<1>5. /\ run'[c].tx = run[c].tx /\ run'[c].named = run[c].named /\ run'[c].broke = run[c].broke
      /\ run'[c].report = None
    BY <1>1, <1>3, EndedFields DEF RunOK
<1> QED  BY <1>1, <1>4, <1>5 DEF Steps, VerdictOK, KeepsName

(* The sequence number is read before anything is signed. *)
LEMMA SeqOK ==
    ASSUME RunsOK, accountSeq \in Nat, NEW c \in Client, account_seq(c)
    PROVE  Steps(c)
<1> DEFINE r == run[c]
           q == [r EXCEPT !.pc = "ledger", !.seq = accountSeq + 1]
<1>1. Moves(c) /\ run'[c] = q
    BY WriteMoves DEF account_seq
<1>2. RunOK(r) /\ r.pc = "seq"
    BY DEF RunsOK, account_seq
<1> HIDE DEF r
<1>3. /\ DOMAIN q = Fields /\ q.pc = "ledger" /\ q.seq \in Nat
      /\ q.job = r.job /\ q.latest = r.latest /\ q.tx = r.tx /\ q.polls = r.polls
      /\ q.exit = r.exit /\ q.report = r.report
    BY <1>2 DEF RunOK, Fields
<1> HIDE DEF q
<1>4. RunOK(q)
    BY <1>2, <1>3, PolicyConstants DEF RunOK, Early
<1>5. r.tx = None
    BY <1>2 DEF RunOK, Early
<1> QED  BY <1>1, <1>3, <1>4, <1>5 DEF Steps, VerdictOK, KeepsName, r

(* The nonce is drawn under the ledger that was read. *)
LEMMA LedgerOK ==
    ASSUME RunsOK, now \in Nat, NEW c \in Client, latest_ledger(c)
    PROVE  Steps(c)
<1> DEFINE r == run[c]
<1>0. PICK e \in 0 .. NonceSpan - 1 :
        run' = [run EXCEPT ![c] =
                   [r EXCEPT !.pc = "simulate", !.latest = now,
                             !.nonce = IF r.job.key = None THEN None ELSE auth_nonce(now, e)]]
    BY DEF latest_ledger
<1> DEFINE n == IF r.job.key = None THEN None ELSE auth_nonce(now, e)
           q == [r EXCEPT !.pc = "simulate", !.latest = now, !.nonce = n]
<1>1. Moves(c) /\ run'[c] = q
    BY <1>0, WriteMoves
<1>2. RunOK(r) /\ r.pc = "ledger"
    BY DEF RunsOK, latest_ledger
<1>a. (r.job.key = None => n = None) /\ (r.job.key # None => NonceOf(now, n))
    BY DEF NonceOf
<1> HIDE DEF r, n
<1>3. /\ DOMAIN q = Fields /\ q.pc = "simulate" /\ q.seq = r.seq /\ q.nonce = n
      /\ q.job = r.job /\ q.latest = now /\ q.tx = r.tx /\ q.polls = r.polls
      /\ q.exit = r.exit /\ q.report = r.report
    BY <1>2 DEF RunOK, Fields
<1> HIDE DEF q
<1>4. RunOK(q)
    BY <1>2, <1>3, <1>a, PolicyConstants DEF RunOK, Early
<1>5. r.tx = None
    BY <1>2 DEF RunOK, Early
<1> QED  BY <1>1, <1>3, <1>4, <1>5 DEF Steps, VerdictOK, KeepsName, r

(* Which code a failed simulation ends with. *)
FailedCode(j, block) ==
    CASE j.cmd = "check" -> 0
      [] j.cmd = "preflight" /\ j.key = None -> IF block /\ j.expect_blocked THEN 0 ELSE 2
      [] OTHER -> exit_code("SimulationBlocked", block, j.expect_blocked)

(* The exit code of a failed simulation: a run but check succeeds only on  *)
(* a block of the guard that was expected.                                 *)
LEMMA FailedCodes ==
    ASSUME NEW j \in JobSpace, NEW block \in BOOLEAN
    PROVE  /\ FailedCode(j, block) \in {0, 1, 2}
           /\ j.cmd # "check" /\ FailedCode(j, block) = 0 => block
<1>0. j.expect_blocked \in BOOLEAN /\ j.cmd \in Command
    BY DEF JobSpace
<1> DEFINE x == exit_code("SimulationBlocked", block, j.expect_blocked)
<1>1. x = IF block /\ j.expect_blocked THEN 0 ELSE 1
    BY <1>0, ExitCodes
<1>2. CASE j.cmd = "check"
    BY <1>2 DEF FailedCode
<1>3. CASE j.cmd = "preflight" /\ j.key = None
    BY <1>3 DEF FailedCode
<1>4. CASE j.cmd # "check" /\ ~ (j.cmd = "preflight" /\ j.key = None)
    <2>1. FailedCode(j, block) = x
        BY <1>4 DEF FailedCode
    <2> HIDE DEF x
    <2> QED  BY <1>1, <2>1
<1> QED  BY <1>2, <1>3, <1>4

(* A failed simulation ends the run, with success only when the guard      *)
(* refused and that was expected.                                          *)
LEMMA SimulationFailsOK ==
    ASSUME RunsOK, NEW c \in Client, SimulationFails(c)
    PROVE  Steps(c)
<1> DEFINE r == run[c]
           j == r.job
           verdict == SimVerdict(c)
           report == IF j.cmd = "preflight" /\ j.key = None
                     THEN RunReport("failed", "unsigned_simulation", FALSE)
                     ELSE RunReport("blocked", None, FALSE)
<1>0. PICK shape \in ErrorShape :
        run' = [run EXCEPT ![c] =
            Ended([r EXCEPT !.report = report, !.refused = PolicyBlock(verdict)],
                  FailedCode(j, is_guard_auth_checked_block(shape, verdict)))]
    BY DEF SimulationFails, FailedCode
<1> DEFINE block == is_guard_auth_checked_block(shape, verdict)
           code == FailedCode(j, block)
           s == [r EXCEPT !.report = report, !.refused = PolicyBlock(verdict)]
           q == Ended(s, code)
<1>1. Moves(c) /\ run'[c] = q
    BY <1>0, WriteMoves
<1>2. RunOK(r) /\ r.pc = "simulate"
    BY DEF RunsOK, SimulationFails
<1>3. block \in BOOLEAN /\ (block => PolicyBlock(verdict))
    BY DEF is_guard_auth_checked_block
<1>4. report.tx_hash = FALSE
    BY DEF RunReport
<1>5. j \in JobSpace
    BY <1>2 DEF RunOK
<1> HIDE DEF r, verdict, report, block
<1>6. /\ DOMAIN s = Fields /\ s.report = report /\ s.refused = PolicyBlock(verdict)
      /\ s.job = r.job /\ s.tx = r.tx
    BY <1>2 DEF RunOK, Fields
<1>7. /\ code \in {0, 1, 2}
      /\ j.cmd # "check" /\ code = 0 => block
    BY <1>3, <1>5, FailedCodes
<1> HIDE DEF s, code
<1>8. /\ DOMAIN q = Fields /\ q.pc = "done" /\ q.exit = code /\ q.polls = 0
      /\ q.seq = 0 /\ q.latest = 0
      /\ q.job = r.job /\ q.tx = r.tx /\ q.report = report /\ q.refused = PolicyBlock(verdict)
    BY <1>6, EndedFields
<1>9. 0 \in 0 .. PollLimit - 1 /\ code # None /\ code \in 0 .. 4 \union {None}
    BY <1>7, AgentTxConstants, PolicyConstants
<1>10. r.tx = None
    BY <1>2 DEF RunOK, Early
<1> HIDE DEF q
<1>11. RunOK(q)
    BY <1>3, <1>5, <1>7, <1>8, <1>9, <1>10 DEF RunOK, Early, Expecting
<1> QED  BY <1>1, <1>4, <1>8, <1>10, <1>11 DEF Steps, VerdictOK, KeepsName, r

(* The transaction of a run is signed under the ledger it read, and the    *)
(* footprint of a transfer covers every key of the guard.                  *)
LEMMA TransactionGood ==
    ASSUME RunsOK, NEW c \in Client, run[c].pc = "simulate"
    PROVE  GoodTx(Transaction(c, SimFootprint(run[c].job.call)))
<1> DEFINE r == run[c]
           call == r.job.call
           fp == SimFootprint(call)
           t == Transaction(c, fp)
<1>1. RunOK(r) /\ r.pc = "simulate"
    BY DEF RunsOK
<1>2. /\ t.seq = r.seq /\ t.expires = r.latest + SigTtl /\ t.key = r.job.key
      /\ t.nonce = r.nonce /\ t.call = call
      /\ t.footprint = merge_guard_footprint(fp, kind_of(call))
    BY DEF Transaction
<1>3. ASSUME call.fn # "Heartbeat"
      PROVE  /\ KeysRead \subseteq t.footprint.read_only \union t.footprint.read_write
             /\ "Window" \in t.footprint.read_write
    <2>1. kind_of(call) = "Transfer"
        BY <1>3 DEF kind_of
    <2>2. "Window" \in WrittenKeys("Transfer")
        BY DEF WrittenKeys, GuardKeys, is_written, GUARD_STORAGE_TOUCHES
    <2>3. KeysRead \subseteq fp.read_only \union fp.read_write
        BY DEF SimFootprint
    <2>4. /\ t.footprint.read_only
                = (fp.read_only \ WrittenKeys("Transfer"))
                     \union ((GuardKeys \ WrittenKeys("Transfer")) \ fp.read_write)
          /\ t.footprint.read_write = fp.read_write \union WrittenKeys("Transfer")
        BY <1>2, <2>1 DEF merge_guard_footprint
    <2> HIDE DEF fp, t
    <2> QED  BY <2>2, <2>3, <2>4
<1> HIDE DEF t, fp
<1>4. r.seq \in Nat /\ r.latest \in Nat /\ (r.job.key # None => NonceOf(r.latest, r.nonce))
    BY <1>1 DEF RunOK
<1>5. GoodTx(t)
    BY <1>2, <1>3, <1>4 DEF GoodTx
<1> QED  BY <1>5 DEF t, fp

(* A run that ends with a report without hash is in order. *)
LEMMA ExitOK ==
    ASSUME RunsOK, NEW c \in Client, run[c].pc # "idle", NEW code \in 0 .. 4, NEW report,
           Exit(c, code, report), ~ report.tx_hash,
           \/ ~ Expecting(run[c].job) \/ code # 0
           \/ run[c].job.cmd = "preflight" /\ run[c].job.key # None /\ report.outcome = "allowed"
    PROVE  Steps(c)
<1> DEFINE r == run[c]
           s == [r EXCEPT !.report = report]
           q == Ended(s, code)
<1>1. Moves(c) /\ run'[c] = q
    BY WriteMoves DEF Exit
<1>2. RunOK(r)
    BY DEF RunsOK
<1>3. /\ r.pc # "idle"
      /\ \/ ~ Expecting(r.job) \/ code # 0
         \/ r.job.cmd = "preflight" /\ r.job.key # None /\ report.outcome = "allowed"
    OBVIOUS
<1> HIDE DEF r
<1>4. /\ DOMAIN s = Fields /\ s.report = report /\ s.job = r.job /\ s.tx = r.tx
      /\ s.refused = r.refused /\ s.named = r.named /\ s.broke = r.broke
    BY <1>2 DEF RunOK, Fields
<1> HIDE DEF s
<1>5. /\ DOMAIN q = Fields /\ q.pc = "done" /\ q.exit = code /\ q.polls = 0
      /\ q.seq = 0 /\ q.latest = 0
      /\ q.job = r.job /\ q.tx = r.tx /\ q.report = report
      /\ q.refused = r.refused /\ q.named = r.named /\ q.broke = r.broke
    BY <1>4, EndedFields
<1>6. 0 \in 0 .. PollLimit - 1 /\ code # None /\ code \in 0 .. 4 \union {None}
    BY AgentTxConstants, PolicyConstants
<1> HIDE DEF q
<1>7. RunOK(q)
    BY <1>2, <1>3, <1>5, <1>6 DEF RunOK, Early, AdmittedPreflight
<1> QED  BY <1>1, <1>5, <1>7 DEF Steps, VerdictOK, KeepsName, r

(* What a passed simulation leads to. *)
LEMMA SimulationPassesCases ==
    ASSUME NEW c \in Client, SimulationPasses(c), run[c].job \in JobSpace
    PROVE  \/ /\ run[c].job.cmd = "check" \/ (run[c].job.cmd = "preflight" /\ run[c].job.key # None)
              /\ Exit(c, 0, RunReport("allowed", None, FALSE))
           \/ ~ Submits(run[c].job) /\ Exit(c, 2, RunReport("failed", "unsigned_simulation", FALSE))
           \/ Exit(c, exit_code("SimulationSuccessUnexpectedBlock", FALSE, TRUE),
                   RunReport("failed", "expect_block_unmet", FALSE))
           \/ /\ Submits(run[c].job) /\ ~ run[c].job.expect_blocked
              /\ run' = [run EXCEPT ![c] =
                           [@ EXCEPT !.pc = "send",
                                     !.tx = Transaction(c, SimFootprint(run[c].job.call)),
                                     !.seq = 0, !.latest = 0, !.nonce = None]]
<1> DEFINE j == run[c].job
<1>1. j.cmd \in Command /\ j.expect_blocked \in BOOLEAN
    BY DEF JobSpace
<1>2. CASE ~ Submits(j) /\ (j.cmd = "check" \/ j.key # None)
    <2>1. Exit(c, 0, RunReport("allowed", None, FALSE))
        BY <1>2, Zenon DEF SimulationPasses
    <2>2. j.cmd = "check" \/ (j.cmd = "preflight" /\ j.key # None)
        BY <1>1, <1>2 DEF Submits, Command
    <2> QED  BY <2>1, <2>2
<1>3. CASE ~ Submits(j) /\ j.cmd = "preflight" /\ j.key = None
    BY <1>3, Zenon DEF SimulationPasses
<1>4. CASE Submits(j) /\ expect_block_unmet(j)
    BY <1>4, Zenon DEF SimulationPasses
<1>5. CASE Submits(j) /\ ~ expect_block_unmet(j)
    BY <1>5, Zenon DEF SimulationPasses, expect_block_unmet
<1> QED  BY <1>1, <1>2, <1>3, <1>4, <1>5 DEF Submits, Command

(* A run that goes on to submit has signed a good transaction. *)
LEMMA SimulationPassesOK ==
    ASSUME RunsOK, NEW c \in Client, SimulationPasses(c)
    PROVE  Steps(c)
<1> DEFINE r == run[c]
           t == Transaction(c, SimFootprint(r.job.call))
           q == [r EXCEPT !.pc = "send", !.tx = t, !.seq = 0, !.latest = 0, !.nonce = None]
<1>0. 0 \in 0 .. 4 /\ 1 \in 0 .. 4 /\ 2 \in 0 .. 4 /\ 1 # 0 /\ 2 # 0
    OBVIOUS
<1>1. RunOK(r) /\ r.pc = "simulate" /\ r.pc # "idle" /\ r.job \in JobSpace
    BY DEF RunsOK, RunOK, SimulationPasses
<1>2. ~ RunReport("allowed", None, FALSE).tx_hash
      /\ ~ RunReport("failed", "unsigned_simulation", FALSE).tx_hash
      /\ ~ RunReport("failed", "expect_block_unmet", FALSE).tx_hash
    BY DEF RunReport
<1>3. CASE /\ r.job.cmd = "check" \/ (r.job.cmd = "preflight" /\ r.job.key # None)
           /\ Exit(c, 0, RunReport("allowed", None, FALSE))
    <2>1. RunReport("allowed", None, FALSE).outcome = "allowed"
        BY DEF RunReport
    <2>2. r.job.cmd = "check" => ~ Expecting(r.job)
        BY DEF Expecting
    <2> QED  BY <1>0, <1>1, <1>2, <1>3, <2>1, <2>2, ExitOK, Zenon
<1>4. CASE ~ Submits(r.job) /\ Exit(c, 2, RunReport("failed", "unsigned_simulation", FALSE))
    BY <1>0, <1>1, <1>2, <1>4, ExitOK, Zenon
<1>5. CASE Exit(c, exit_code("SimulationSuccessUnexpectedBlock", FALSE, TRUE),
                RunReport("failed", "expect_block_unmet", FALSE))
    <2>1. exit_code("SimulationSuccessUnexpectedBlock", FALSE, TRUE) = 1
        BY ExitCodes
    <2>2. Exit(c, 1, RunReport("failed", "expect_block_unmet", FALSE))
        BY <1>5, <2>1
    <2> QED  BY <1>0, <1>1, <1>2, <2>2, ExitOK, Zenon
<1>6. CASE Submits(r.job) /\ ~ r.job.expect_blocked /\ run' = [run EXCEPT ![c] = q]
    <2>1. Moves(c) /\ run'[c] = q
        BY <1>6, WriteMoves
    <2>2. GoodTx(t)
        BY <1>1, TransactionGood
    <2>3. ~ r.job.expect_blocked
        BY <1>6
    <2> HIDE DEF t, r
    <2>4. /\ DOMAIN q = Fields /\ q.pc = "send" /\ q.seq = 0 /\ q.latest = 0 /\ q.tx = t
          /\ q.job = r.job /\ q.polls = r.polls /\ q.exit = r.exit /\ q.report = r.report
        BY <1>1 DEF RunOK, Fields
    <2> HIDE DEF q
    <2>5. RunOK(q)
        BY <1>1, <2>2, <2>3, <2>4 DEF RunOK, Early, Expecting
    <2>6. r.tx = None
        BY <1>1 DEF RunOK, Early
    <2> QED  BY <2>1, <2>4, <2>5, <2>6 DEF Steps, VerdictOK, KeepsName, r
<1> QED  BY <1>1, <1>3, <1>4, <1>5, <1>6, SimulationPassesCases

(* Sending: the hash is known, or the run says that the send broke. *)
LEMMA SendAcceptedOK ==
    ASSUME RunsOK, NEW c \in Client, SendAccepted(c)
    PROVE  Steps(c) /\ run'[c].tx = run[c].tx /\ run'[c].named
<1> DEFINE r == run[c]
           q == [r EXCEPT !.pc = "poll", !.named = TRUE]
<1>1. Moves(c) /\ run'[c] = q
    BY WriteMoves DEF SendAccepted
<1>2. RunOK(r) /\ r.pc = "send"
    BY DEF RunsOK, SendAccepted
<1> HIDE DEF r
<1>3. /\ DOMAIN q = Fields /\ q.pc = "poll" /\ q.named /\ q.seq = r.seq /\ q.latest = r.latest
      /\ q.tx = r.tx /\ q.job = r.job /\ q.polls = r.polls /\ q.exit = r.exit
      /\ q.report = r.report /\ q.refused = r.refused
    BY <1>2 DEF RunOK, Fields
<1> HIDE DEF q
<1>4. RunOK(q)
    BY <1>2, <1>3 DEF RunOK, Early, Expecting
<1> QED  BY <1>1, <1>3, <1>4 DEF Steps, VerdictOK, KeepsName, r

(* A refused submission ends the run with nothing broadcast. *)
LEMMA SendRefusedOK ==
    ASSUME RunsOK, NEW c \in Client, SendRefused(c)
    PROVE  Steps(c)
<1>1. PICK outcome \in {"SendError", "EmptyHash"} :
        Exit(c, exit_code(outcome, FALSE, run[c].job.expect_blocked),
             RunReport("failed", "submission_failed", FALSE))
    BY DEF SendRefused
<1>2. run[c].pc = "send" /\ run[c].job.expect_blocked \in BOOLEAN
    BY DEF SendRefused, RunsOK, RunOK, JobSpace
<1>3. exit_code(outcome, FALSE, run[c].job.expect_blocked) = 1
    BY <1>2, ExitCodes
<1>4. ~ RunReport("failed", "submission_failed", FALSE).tx_hash
    BY DEF RunReport
<1>5. Exit(c, 1, RunReport("failed", "submission_failed", FALSE))
    BY <1>1, <1>3
<1>6. run[c].pc # "idle" /\ 1 \in 0 .. 4 /\ 1 # 0
    BY <1>2
<1> QED  BY <1>4, <1>5, <1>6, ExitOK, Zenon

(* A submission that fails may have been queued all the same. *)
LEMMA SendFailsOK ==
    ASSUME RunsOK, NEW c \in Client, SendFails(c)
    PROVE  Steps(c) /\ run'[c].tx = run[c].tx /\ (run'[c].named \/ run'[c].broke)
<1> DEFINE r == run[c]
<1>1. PICK kind \in RpcFailureKind :
        run' = [run EXCEPT ![c] =
                   Ended([r EXCEPT !.named = hints_hash(kind), !.broke = kind # "Timeout"],
                         rpc_exit_code(kind))]
    BY DEF SendFails
<1> DEFINE s == [r EXCEPT !.named = hints_hash(kind), !.broke = kind # "Timeout"]
           q == Ended(s, rpc_exit_code(kind))
<1>2. Moves(c) /\ run'[c] = q
    BY <1>1, WriteMoves
<1>3. RunOK(r) /\ r.pc = "send"
    BY DEF RunsOK, SendFails
<1> HIDE DEF r
<1>4. /\ DOMAIN s = Fields /\ s.pc = r.pc /\ s.seq = r.seq /\ s.latest = r.latest
      /\ s.tx = r.tx /\ s.job = r.job /\ s.polls = r.polls /\ s.exit = r.exit
      /\ s.report = r.report /\ s.refused = r.refused /\ s.nonce = r.nonce
      /\ s.named = hints_hash(kind) /\ s.broke = (kind # "Timeout")
    BY <1>3 DEF RunOK, Fields
<1>a. s.named \/ s.broke
    BY <1>4 DEF hints_hash
<1> HIDE DEF s
<1>5. RunOK(s) /\ s.pc # "idle"
    BY <1>3, <1>4 DEF RunOK, Early, Expecting
<1>6. rpc_exit_code(kind) \in 1 .. 4
    BY DEF rpc_exit_code
<1>7. RunOK(q)
    BY <1>5, <1>6, EndedOK
<1>8. q.tx = r.tx /\ (q.named \/ q.broke) /\ q.report = None
    BY <1>3, <1>4, <1>a, EndedFields DEF RunOK
<1> HIDE DEF q
<1> QED  BY <1>2, <1>7, <1>8 DEF Steps, VerdictOK, KeepsName, r

(* Polling: the loop goes on, or ends with a report that claims nothing. *)
LEMMA PollAgainOK ==
    ASSUME RunsOK, NEW c \in Client, PollAgain(c)
    PROVE  Steps(c)
<1> DEFINE r == run[c]
<1>1. PICK timed_out \in BOOLEAN : run' = [run EXCEPT ![c] = next_poll(r, timed_out)]
    BY DEF PollAgain
<1>2. Moves(c) /\ run'[c] = next_poll(r, timed_out)
    BY <1>1, WriteMoves
<1>3. RunOK(r) /\ r.pc = "poll" /\ r.job.expect_blocked \in BOOLEAN /\ ~ r.job.expect_blocked
    BY DEF RunsOK, PollAgain, RunOK, JobSpace
<1> HIDE DEF r
<1>4. CASE r.polls + 1 < PollLimit
    <2> DEFINE q == [r EXCEPT !.polls = r.polls + 1]
    <2>1. run'[c] = q
        BY <1>2, <1>4 DEF next_poll
    <2>2. /\ DOMAIN q = Fields /\ q.pc = r.pc /\ q.seq = r.seq /\ q.latest = r.latest
          /\ q.tx = r.tx /\ q.job = r.job /\ q.polls = r.polls + 1 /\ q.exit = r.exit
          /\ q.report = r.report /\ q.refused = r.refused
          /\ q.named = r.named /\ q.broke = r.broke
        BY <1>3 DEF RunOK, Fields
    <2>3. r.polls + 1 \in 0 .. PollLimit - 1
        BY <1>3, <1>4, AgentTxConstants DEF RunOK
    <2> HIDE DEF q
    <2>4. RunOK(q)
        BY <1>3, <2>2, <2>3 DEF RunOK, Early, Expecting
    <2> QED  BY <1>2, <1>3, <2>1, <2>2, <2>4 DEF Steps, VerdictOK, KeepsName, r
<1>5. CASE ~ (r.polls + 1 < PollLimit)
    <2> DEFINE report == RunReport("failed", "timeout", TRUE)
               s == [r EXCEPT !.report = report]
               q == Ended(s, 1)
    <2>0. exit_code("TransactionTimeout", FALSE, r.job.expect_blocked) = 1
        BY <1>3, ExitCodes
    <2>1. run'[c] = q
        BY <1>2, <1>5, <2>0 DEF next_poll
    <2>2. report.outcome = "failed" /\ report.reason = "timeout"
        BY DEF RunReport
    <2> HIDE DEF report
    <2>3. /\ DOMAIN s = Fields /\ s.report = report /\ s.job = r.job /\ s.tx = r.tx
          /\ s.refused = r.refused /\ s.named = r.named /\ s.broke = r.broke
        BY <1>3 DEF RunOK, Fields
    <2> HIDE DEF s
    <2>4. /\ DOMAIN q = Fields /\ q.pc = "done" /\ q.exit = 1 /\ q.polls = 0
          /\ q.seq = 0 /\ q.latest = 0
          /\ q.job = r.job /\ q.tx = r.tx /\ q.report = report
          /\ q.refused = r.refused /\ q.named = r.named /\ q.broke = r.broke
        BY <2>3, EndedFields
    <2>5. 0 \in 0 .. PollLimit - 1 /\ 1 # None /\ 1 \in 0 .. 4
        BY AgentTxConstants, PolicyConstants
    <2> HIDE DEF q
    <2>6. RunOK(q)
        BY <1>3, <2>4, <2>5 DEF RunOK, Early
    <2> QED  BY <1>2, <2>1, <2>2, <2>4, <2>6 DEF Steps, VerdictOK, KeepsName, r
<1> QED  BY <1>4, <1>5

(* A terminal status is the ledger's. *)
LEMMA PollAnsweredOK ==
    ASSUME RunsOK, NEW c \in Client, PollAnswered(c)
    PROVE  Steps(c)
<1> DEFINE r == run[c]
<1>1. PICK res \in results :
        /\ res.tx = r.tx
        /\ IF tx_status(res.why) = "SUCCESS"
           THEN Exit(c, exit_code("TransactionSuccess", FALSE, r.job.expect_blocked),
                     RunReport("allowed", None, TRUE))
           ELSE Exit(c, exit_code("TransactionFailure", FALSE, r.job.expect_blocked),
                     RunReport("failed", "tx_failed", TRUE))
    BY DEF PollAnswered
<1>2. RunOK(r) /\ r.pc = "poll" /\ r.job.expect_blocked \in BOOLEAN /\ ~ r.job.expect_blocked
    BY DEF RunsOK, PollAnswered, RunOK, JobSpace
<1> DEFINE ok == tx_status(res.why) = "SUCCESS"
           code == IF ok THEN 0 ELSE 1
           report == IF ok THEN RunReport("allowed", None, TRUE)
                     ELSE RunReport("failed", "tx_failed", TRUE)
           s == [r EXCEPT !.report = report]
           q == Ended(s, code)
<1>3. /\ exit_code("TransactionSuccess", FALSE, r.job.expect_blocked) = 0
      /\ exit_code("TransactionFailure", FALSE, r.job.expect_blocked) = 1
    BY <1>2, ExitCodes
<1>4. Exit(c, code, report)
    BY <1>1, <1>3
<1>5. Moves(c) /\ run'[c] = q
    BY <1>4, WriteMoves DEF Exit
<1>6. ok <=> res.why = "none"
    BY DEF tx_status
<1>7. /\ report.outcome = "allowed" => ok
      /\ report.reason = "tx_failed" => ~ ok
    <2>0. None # "tx_failed"
        BY AgentTxConstants DEF FailureReason
    <2>1. CASE ok
        <3>1. report = RunReport("allowed", None, TRUE)
            BY <2>1
        <3>2. report.reason = None
            BY <3>1 DEF RunReport
        <3> QED  BY <2>0, <2>1, <3>2
    <2>2. CASE ~ ok
        BY <2>2 DEF RunReport
    <2> QED  BY <2>1, <2>2
<1>8. code \in 0 .. 4 /\ code # None /\ (ok => code = 0) /\ (~ ok => code = 1)
    BY PolicyConstants
<1> HIDE DEF r, report, code, ok
<1>9. /\ DOMAIN s = Fields /\ s.report = report /\ s.job = r.job /\ s.tx = r.tx
      /\ s.refused = r.refused /\ s.named = r.named /\ s.broke = r.broke
    BY <1>2 DEF RunOK, Fields
<1> HIDE DEF s
<1>10. /\ DOMAIN q = Fields /\ q.pc = "done" /\ q.exit = code /\ q.polls = 0
       /\ q.seq = 0 /\ q.latest = 0
       /\ q.job = r.job /\ q.tx = r.tx /\ q.report = report
       /\ q.refused = r.refused /\ q.named = r.named /\ q.broke = r.broke
    BY <1>9, EndedFields
<1>11. 0 \in 0 .. PollLimit - 1
    BY AgentTxConstants
<1> HIDE DEF q
<1>12. RunOK(q)
    BY <1>2, <1>8, <1>10, <1>11 DEF RunOK, Early, Expecting
<1>13. VerdictOK(q, results)
    BY <1>1, <1>6, <1>7, <1>8, <1>10 DEF VerdictOK
<1> QED  BY <1>5, <1>10, <1>12, <1>13 DEF Steps, KeepsName, r

(* Every step of an invocation leaves it in order and answerable. *)
LEMMA ClientSteps ==
    ASSUME RunsOK, now \in Nat, accountSeq \in Nat, NEW c \in Client,
           ClientStep(c) \/ \E j \in Job[c] : Start(c, j)
    PROVE  Steps(c)
<1>1. CASE \E j \in Job[c] : Start(c, j)
    BY <1>1, StartOK
<1>2. CASE ReadFails(c)
    <2>1. PICK kind \in RpcFailureKind : rpc_exit(c, kind)
        BY <1>2 DEF ReadFails
    <2> QED  BY <1>2, <2>1, RpcExitOK DEF ReadFails
<1>3. CASE PollFails(c)
    <2>1. PICK kind \in RpcFailureKind : rpc_exit(c, kind)
        BY <1>3 DEF PollFails
    <2> QED  BY <1>3, <2>1, RpcExitOK DEF PollFails
<1> QED  BY <1>1, <1>2, <1>3, SeqOK, LedgerOK, SimulationFailsOK, SimulationPassesOK,
            SendAcceptedOK, SendRefusedOK, SendFailsOK, PollAgainOK, PollAnsweredOK
         DEF ClientStep

-----------------------------------------------------------------------------
(* The network and the invocations together *)

OnNetwork == mempool \union {res.tx : res \in results}

NetworkOK ==
    /\ accountSeq \in Nat
    /\ \A tx \in mempool : GoodTx(tx)
    /\ \A res \in results : GoodTx(res.tx) /\ res.tx.seq \in 1 .. accountSeq
    /\ \A r1, r2 \in results : r1.tx.seq = r2.tx.seq => r1 = r2

(* Every nonce on record was signed by the agent. *)
NoncesOK ==
    \A n \in usedNonces :
        \E res \in results : res.why = "none" /\ res.tx.nonce = n /\ res.tx.key # None

(* Whatever is on the network was sent by an invocation that named it or   *)
(* reports that its send broke.                                            *)
Posted ==
    \A t \in OnNetwork : t # None =>
        \E d \in Client : run[d].tx = t /\ (run[d].named \/ run[d].broke)

Verdicts == \A c \in Client : VerdictOK(run[c], results)

TInv ==
    IInv /\ RunsOK /\ NetworkOK /\ NoncesOK /\ TransferFootprintCovers /\ Posted /\ Verdicts

(* What an included transaction leaves. *)
LEMMA IncludeOK ==
    ASSUME TInv, NEW tx \in mempool, Include(tx)
    PROVE  TInv'
<1> USE DEF TInv
<1>0. PICK why : results' = results \union {[tx |-> tx, why |-> why]}
                 /\ (why = "none" \/ why \in Failures(tx))
                 /\ (usedNonces' = usedNonces \/
                        (why = "none" /\ tx.key # None /\ usedNonces' = usedNonces \union {tx.nonce}))
    <2>1. CASE Apply(tx) /\ usedNonces' = usedNonces \union {tx.nonce}
               /\ results' = results \union {[tx |-> tx, why |-> "none"]}
        BY <2>1 DEF Apply, heartbeat, check_auth, Authorized
    <2> QED  BY <2>1 DEF Include
<1> DEFINE new == [tx |-> tx, why |-> why]
<1>1. new.tx = tx /\ new.why = why
    OBVIOUS
<1>2. GoodTx(tx) /\ tx.seq \in Nat /\ tx.seq = accountSeq + 1 /\ accountSeq \in Nat
    BY DEF NetworkOK, GoodTx, Include
<1>3. accountSeq' = accountSeq + 1 /\ mempool' = mempool \ {tx} /\ run' = run
    BY <1>2 DEF Include
<1>a. results' = results \union {new}
    BY <1>0
<1> HIDE DEF new
<1>4. IInv'
    <2>1. CASE Apply(tx)
        BY <2>1, AgentCallIInv DEF Apply
    <2>2. CASE UNCHANGED accountVars
        BY <2>2, StutterIInv DEF accountVars
    <2> QED  BY <2>1, <2>2 DEF Include
<1>5. RunsOK'
    BY <1>3 DEF RunsOK
<1>6. NetworkOK'
    <2>1. \A res \in results : res.tx.seq \in 1 .. accountSeq' /\ res.tx.seq # accountSeq'
        BY <1>2, <1>3 DEF NetworkOK
    <2>2. tx.seq \in 1 .. accountSeq' /\ tx.seq = accountSeq'
        BY <1>2, <1>3
    <2> QED  BY <1>1, <1>2, <1>3, <1>a, <2>1, <2>2 DEF NetworkOK
<1>7. NoncesOK'
    <2>1. ASSUME NEW n \in usedNonces
          PROVE  \E res \in results' : res.why = "none" /\ res.tx.nonce = n /\ res.tx.key # None
        BY <1>a DEF NoncesOK
    <2>2. CASE usedNonces' = usedNonces
        BY <2>1, <2>2 DEF NoncesOK
    <2>3. CASE why = "none" /\ tx.key # None /\ usedNonces' = usedNonces \union {tx.nonce}
        BY <1>1, <1>a, <2>1, <2>3 DEF NoncesOK
    <2> QED  BY <1>0, <2>2, <2>3
<1>8. TransferFootprintCovers'
    <2> SUFFICES ASSUME why = "footprint", tx.call.fn # "Heartbeat" PROVE FALSE
        BY <1>1, <1>a DEF TransferFootprintCovers
    <2>1. ~ Covers(tx.footprint, tx.call)
        BY <1>0 DEF Failures
    <2>2. KeysWritten(tx.call) \subseteq {"Window"}
        BY DEF KeysWritten
    <2> QED  BY <1>2, <2>1, <2>2 DEF Covers, GoodTx
<1>9. Posted'
    <2>1. OnNetwork' \subseteq OnNetwork
        BY <1>1, <1>3, <1>a DEF OnNetwork
    <2> QED  BY <1>3, <2>1 DEF Posted
<1>10. Verdicts'
    <2>1. results \subseteq results'
        BY <1>a
    <2>2. ASSUME NEW c \in Client PROVE VerdictOK(run[c], results')
        <3>1. VerdictOK(run[c], results)
            BY DEF Verdicts
        <3> QED  BY <2>1, <3>1 DEF VerdictOK
    <2> QED  BY <1>3, <2>2 DEF Verdicts
<1> QED  BY <1>4, <1>5, <1>6, <1>7, <1>8, <1>9, <1>10

(* What a step of an invocation does to the network. *)
LEMMA ClientChain ==
    ASSUME RunsOK, NEW c \in Client, ClientStep(c) \/ \E j \in Job[c] : Start(c, j)
    PROVE  /\ UNCHANGED accountVars /\ UNCHANGED <<accountSeq, results, usedNonces>>
           /\ \/ mempool' = mempool
              \/ /\ run[c].pc = "send" /\ mempool' = mempool \union {run[c].tx}
                 /\ run'[c].tx = run[c].tx /\ (run'[c].named \/ run'[c].broke)
<1>1. CASE SendAccepted(c)
    <2>1. run'[c].tx = run[c].tx /\ (run'[c].named \/ run'[c].broke)
        BY <1>1, SendAcceptedOK
    <2> QED  BY <1>1, <2>1 DEF SendAccepted
<1>2. CASE SendFails(c)
    <2>1. run'[c].tx = run[c].tx /\ (run'[c].named \/ run'[c].broke)
        BY <1>2, SendFailsOK
    <2> QED  BY <1>2, <2>1 DEF SendFails
<1>3. CASE UNCHANGED <<accountVars, chainVars>>
    BY <1>3 DEF chainVars
<1> QED  BY <1>1, <1>2, <1>3 DEF ClientStep, Start, ReadFails, account_seq, latest_ledger,
            SimulationFails, SimulationPasses, SendRefused, PollAgain, PollFails, PollAnswered

(* A step of an invocation preserves the invariant. *)
LEMMA ClientOK ==
    ASSUME TInv, NEW c \in Client, ClientStep(c) \/ \E j \in Job[c] : Start(c, j)
    PROVE  TInv'
<1> USE DEF TInv
<1>1. now \in Nat /\ accountSeq \in Nat
    BY AccountConstants DEF IInv, ControlTypeOK, NetworkOK
<1>2. Steps(c)
    BY <1>1, ClientSteps
<1>3. /\ UNCHANGED accountVars /\ UNCHANGED <<accountSeq, results, usedNonces>>
      /\ \/ mempool' = mempool
         \/ /\ run[c].pc = "send" /\ mempool' = mempool \union {run[c].tx}
            /\ run'[c].tx = run[c].tx /\ (run'[c].named \/ run'[c].broke)
    BY ClientChain
<1>4. IInv'
    BY <1>3, StutterIInv DEF accountVars
<1>5. RunsOK'
    BY <1>2 DEF Steps, Moves, RunsOK
<1>6. run[c].pc = "send" => GoodTx(run[c].tx)
    BY DEF RunsOK, RunOK
<1>7. Posted'
    <2> SUFFICES ASSUME NEW t \in OnNetwork', t # None
                 PROVE  \E d \in Client : run'[d].tx = t /\ (run'[d].named \/ run'[d].broke)
        BY DEF Posted
    <2>1. CASE t \in OnNetwork
        <3>1. PICK d \in Client : run[d].tx = t /\ (run[d].named \/ run[d].broke)
            BY <2>1 DEF Posted
        <3>2. CASE d = c
            BY <1>2, <3>1, <3>2 DEF Steps, KeepsName
        <3>3. CASE d # c
            BY <1>2, <3>1, <3>3 DEF Steps, Moves
        <3> QED  BY <3>2, <3>3
    <2>2. CASE t \notin OnNetwork
        <3>1. /\ t = run[c].tx
              /\ run'[c].tx = run[c].tx /\ (run'[c].named \/ run'[c].broke)
            BY <1>3, <2>2 DEF OnNetwork
        <3> QED  BY <3>1
    <2> QED  BY <2>1, <2>2
<1>8. Verdicts'
    BY <1>2, <1>3 DEF Verdicts, Steps, Moves
<1>9. NoncesOK' /\ TransferFootprintCovers'
    BY <1>3 DEF NoncesOK, TransferFootprintCovers
<1>10. NetworkOK'
    BY <1>3, <1>6 DEF NetworkOK
<1> QED  BY <1>4, <1>5, <1>7, <1>8, <1>9, <1>10

(* The invariant speaks of the variables only. *)
LEMMA StutterTInv == TInv /\ UNCHANGED tvars => TInv'
BY StutterIInv DEF TInv, tvars, accountVars, chainVars, RunsOK, NetworkOK, NoncesOK,
       TransferFootprintCovers, Posted, OnNetwork, Verdicts

(* The owner and time leave the tool and the network alone. *)
LEMMA OwnerOK ==
    ASSUME TInv, IInv', UNCHANGED <<run, chainVars>>
    PROVE  TInv'
BY DEF TInv, chainVars, RunsOK, NetworkOK, NoncesOK, TransferFootprintCovers, Posted,
       OnNetwork, Verdicts

(* Initially the account is in service and nothing was sent. *)
LEMMA InitTInv == TInit => TInv
<1> SUFFICES ASSUME TInit PROVE TInv
    OBVIOUS
<1>1. IInv
    <2>1. adminFrozen \in BOOLEAN
        BY Zenon DEF TInit
    <2>2. 1 \in 1 .. MaxTime /\ 1 \in 0 .. MaxTime /\ 0 \in 0 .. MaxTime /\ 1 \in 0 .. MaxRevision
        BY AccountConstants, AgentTxConstants
    <2>3. admin \in Address /\ admin # None /\ agentKey \in Key
        BY AccountConstants, PolicyConstants DEF TInit
    <2>4. FirstPolicy \in PolicyConfig
        BY AgentTxConstants
    <2>5. ControlTypeOK
        BY <2>1, <2>2, <2>3, <2>4 DEF TInit, ControlTypeOK
    <2>6. ClockArmed /\ ProposalIsToAnother
        BY <2>3 DEF TInit, ClockArmed, ProposalIsToAnother
    <2> QED  BY <2>5, <2>6 DEF IInv
<1>2. RunsOK /\ Verdicts
    <2>1. /\ DOMAIN Idle = Fields /\ Idle.pc = "idle" /\ Idle.job = None /\ Idle.seq = 0
          /\ Idle.latest = 0 /\ Idle.tx = None /\ Idle.polls = 0 /\ Idle.exit = None
          /\ Idle.report = None
        BY DEF Idle, Fields
    <2>2. 0 \in 0 .. PollLimit - 1 /\ None # 0
        BY AgentTxConstants, PolicyConstants
    <2>3. RunOK(Idle) /\ VerdictOK(Idle, results)
        BY <2>1, <2>2 DEF RunOK, Early, VerdictOK
    <2> QED  BY <2>3 DEF TInit, RunsOK, Verdicts
<1>3. NetworkOK /\ NoncesOK /\ TransferFootprintCovers /\ Posted
    BY DEF TInit, NetworkOK, NoncesOK, TransferFootprintCovers, Posted, OnNetwork
<1> QED  BY <1>1, <1>2, <1>3 DEF TInv

(* Every step preserves the invariant. *)
LEMMA NextTInv == TInv /\ [TNext]_tvars => TInv'
<1> SUFFICES ASSUME TInv, [TNext]_tvars PROVE TInv'
    OBVIOUS
<1>1. ASSUME NEW c \in Client, ClientStep(c) \/ \E j \in Job[c] : Start(c, j) PROVE TInv'
    BY <1>1, ClientOK
<1>2. ASSUME NEW tx \in mempool, Include(tx) PROVE TInv'
    BY <1>2, IncludeOK
<1>3. CASE OwnerStep
    <2>1. AdminStep
        BY <1>3 DEF OwnerStep, AdminStep
    <2> QED  BY <1>3, <2>1, AdminStepIInv, OwnerOK DEF OwnerStep, TInv
<1>4. CASE Tick /\ UNCHANGED <<run, chainVars>>
    BY <1>4, NextIInv, OwnerOK DEF Next, TInv
<1>5. CASE UNCHANGED tvars
    BY <1>5, StutterTInv
<1> QED  BY <1>1, <1>2, <1>3, <1>4, <1>5 DEF TNext

(* TInv is an invariant of the tool, its peers, the network and the        *)
(* account together.                                                       *)
THEOREM ToolInvariance == TSpec => []TInv
BY InitTInv, NextTInv, PTL DEF TSpec

-----------------------------------------------------------------------------
(* A report with a transaction hash is what the ledger did with it, for    *)
(* any number of runs, owner steps and expiries in between (run,           *)
(* RunOutcome::exit_code).                                                 *)
THEOREM ReportsMatchLedger == TSpec => []VerdictMatchesLedger
<1>1. TInv => VerdictMatchesLedger
    BY DEF TInv, Verdicts, VerdictOK, VerdictMatchesLedger, Done, ResultsOf
<1> QED  BY <1>1, ToolInvariance, PTL

(* --expect-blocked never broadcasts and succeeds only on a block by the   *)
(* guard, but for a signed preflight that was admitted (run, preflight,    *)
(* is_guard_auth_checked_block).                                           *)
THEOREM ExpectBlockedIsSound == TSpec => []ExpectBlockedSound
<1>1. TInv => ExpectBlockedSound
    BY DEF TInv, RunsOK, RunOK, ExpectBlockedSound, Expecting
<1> QED  BY <1>1, ToolInvariance, PTL

(* A run that ended has named what it left on the network, or says that    *)
(* its send broke (run, hints_hash).                                       *)
THEOREM BroadcastsAreNamed == TSpec => []BroadcastIsNamed
<1>1. TInv => BroadcastIsNamed
    <2> SUFFICES ASSUME TInv, NEW c \in Client, Done(c), Broadcast(c), ~ run[c].named
                 PROVE  run[c].broke \/ \E d \in Client \ {c} : run[d].tx = run[c].tx
        BY DEF BroadcastIsNamed
    <2>1. run[c].tx \in OnNetwork /\ run[c].tx # None
        BY DEF Broadcast, OnNetwork
    <2>2. PICK d \in Client : run[d].tx = run[c].tx /\ (run[d].named \/ run[d].broke)
        BY <2>1 DEF TInv, Posted
    <2> QED  BY <2>2
<1> QED  BY <1>1, ToolInvariance, PTL

(* A transfer never fails for a key outside its footprint                  *)
(* (merge_guard_footprint, GUARD_STORAGE_TOUCHES).                         *)
THEOREM FootprintsCover == TSpec => []TransferFootprintCovers
<1>1. TInv => TransferFootprintCovers
    BY DEF TInv
<1> QED  BY <1>1, ToolInvariance, PTL

(* The high half of a nonce is the ledger. *)
LEMMA NonceLedger ==
    ASSUME NEW a \in Nat, NEW b \in Nat, NEW n, NonceOf(a, n), NonceOf(b, n)
    PROVE  a = b
<1>0. NonceSpan \in Nat \ {0}
    BY AgentTxConstants
<1>1. PICK e \in 0 .. NonceSpan - 1, f \in 0 .. NonceSpan - 1 :
        n = a * NonceSpan + e /\ n = b * NonceSpan + f
    BY DEF NonceOf, auth_nonce
<1>2. ASSUME NEW x \in Nat, NEW y \in Nat, x < y
      PROVE  x * NonceSpan + NonceSpan <= y * NonceSpan
    <2>1. y - x - 1 \in Nat
        BY <1>2
    <2>2. (y - x - 1) * NonceSpan >= 0
        BY <1>0, <2>1
    <2>3. y * NonceSpan = x * NonceSpan + NonceSpan + (y - x - 1) * NonceSpan
        BY <1>0
    <2>4. x * NonceSpan \in Int /\ y * NonceSpan \in Int /\ (y - x - 1) * NonceSpan \in Int
        BY <1>0, <2>1
    <2> QED  BY <1>0, <2>2, <2>3, <2>4
<1>3. a * NonceSpan \in Int /\ b * NonceSpan \in Int
    BY <1>0
<1>4. CASE a < b
    <2>1. a * NonceSpan + NonceSpan <= b * NonceSpan
        BY <1>2, <1>4
    <2> QED  BY <1>0, <1>1, <1>3, <2>1
<1>5. CASE b < a
    <2>1. b * NonceSpan + NonceSpan <= a * NonceSpan
        BY <1>2, <1>5
    <2> QED  BY <1>0, <1>1, <1>3, <2>1
<1> QED  BY <1>4, <1>5

(* A nonce is found used only by a run that signed under the same ledger   *)
(* (auth_nonce).                                                           *)
THEOREM ReplaysAreWithinLedger == TSpec => []ReplayOnlyWithinLedger
<1>1. TInv => ReplayOnlyWithinLedger
    <2> SUFFICES ASSUME TInv, NEW c \in Client, run[c].pc = "simulate", run[c].nonce \in usedNonces
                 PROVE  \E res \in results :
                            /\ res.why = "none" /\ res.tx.nonce = run[c].nonce
                            /\ res.tx.expires = run[c].latest + SigTtl
        BY DEF ReplayOnlyWithinLedger
    <2>1. PICK res \in results :
              res.why = "none" /\ res.tx.nonce = run[c].nonce /\ res.tx.key # None
        BY DEF TInv, NoncesOK
    <2>2. PICK l \in Nat : res.tx.expires = l + SigTtl /\ NonceOf(l, res.tx.nonce)
        BY <2>1 DEF TInv, NetworkOK, GoodTx
    <2>3. RunOK(run[c]) /\ run[c].latest \in Nat
        BY DEF TInv, RunsOK, RunOK
    <2>4. CASE run[c].job.key # None
        <3>1. NonceOf(run[c].latest, run[c].nonce)
            BY <2>3, <2>4 DEF RunOK
        <3>2. l = run[c].latest
            BY <2>1, <2>2, <2>3, <3>1, NonceLedger
        <3> QED  BY <2>1, <2>2, <3>2
    <2>5. CASE run[c].job.key = None
        <3>1. run[c].nonce = None
            BY <2>3, <2>5 DEF RunOK
        <3>2. PICK e \in 0 .. NonceSpan - 1 : None = l * NonceSpan + e
            BY <2>1, <2>2, <3>1 DEF NonceOf, auth_nonce
        <3>3. l * NonceSpan + e \in Int
            BY AgentTxConstants
        <3> QED  BY <3>2, <3>3, PolicyConstants
    <2> QED  BY <2>4, <2>5
<1> QED  BY <1>1, ToolInvariance, PTL

-----------------------------------------------------------------------------
(* The window of the account stays sound beside the tool: an included      *)
(* transaction is a request of the agent, and everything else is a step of *)
(* the owner, of time, or none.                                            *)
LEMMA WindowBesideTool == TInv /\ WindowSound /\ [TNext]_tvars => WindowSound'
<1> SUFFICES ASSUME TInv, WindowSound, [TNext]_tvars PROVE WindowSound'
    OBVIOUS
<1>0. IInv /\ RunsOK
    BY DEF TInv
<1>1. CASE UNCHANGED accountVars
    BY <1>1 DEF accountVars, WindowSound, vars
<1>2. ASSUME NEW c \in Client, ClientStep(c) \/ \E j \in Job[c] : Start(c, j) PROVE WindowSound'
    BY <1>0, <1>1, <1>2, ClientChain
<1>3. ASSUME NEW tx \in mempool, Include(tx) PROVE WindowSound'
    <2>1. CASE Apply(tx)
        <3> DEFINE i == invocation(tx.call)
        <3>1. heartbeat(tx.key) \/ check_auth(tx.key, <<i>>)
            BY <2>1, Zenon DEF Apply
        <3>2. <<i>> \in Seq({i})
            OBVIOUS
        <3> HIDE DEF i
        <3> QED  BY <1>0, <3>1, <3>2, AgentCallWindow
    <2>2. CASE UNCHANGED accountVars
        BY <1>1, <2>2
    <2> QED  BY <1>3, <2>1, <2>2 DEF Include
<1>4. CASE OwnerStep
    <2>1. AdminStep
        BY <1>4 DEF OwnerStep, AdminStep
    <2> QED  BY <1>0, <2>1, WindowSoundStep DEF Next
<1>5. CASE Tick
    BY <1>0, <1>5, WindowSoundStep DEF Next
<1>6. CASE UNCHANGED tvars
    BY <1>1, <1>6 DEF tvars
<1> QED  BY <1>2, <1>3, <1>4, <1>5, <1>6 DEF TNext

(* Types of the whole system; in particular a run has an exit code exactly *)
(* when it is done, it never polls beyond the limit, and a sequence number *)
(* is used at most once (cmd_run, Include).                                *)
THEOREM ToolTypeCorrect == TSpec => []TTypeOK
<1>1. TInit => WindowSound
    <2> SUFFICES ASSUME TInit PROVE window \in StoredUpTo(now)
        BY DEF WindowSound
    <2>1. now = 1 /\ 1 \in Nat /\ window = to_state(Ledger_empty)
        BY DEF TInit
    <2>2. to_state(Ledger_empty) \in StoredUpTo(1)
        BY <2>1, EmptyUpTo, ToStateUpTo
    <2> QED  BY <2>1, <2>2
<1>2. TInv /\ WindowSound => TTypeOK
    <2> SUFFICES ASSUME TInv, WindowSound PROVE TTypeOK
        OBVIOUS
    <2>1. TypeOK
        BY SoundIsTyped DEF TInv, IInv, TypeOK
    <2>2. DOMAIN run = Client /\ \A c \in Client : RunOK(run[c])
        BY DEF TInv, RunsOK
    <2>3. /\ \A res \in results : res.tx.seq \in 1 .. accountSeq
          /\ \A r1, r2 \in results : r1.tx.seq = r2.tx.seq => r1 = r2
        BY DEF TInv, NetworkOK
    <2>4. ASSUME NEW c \in Client
          PROVE  /\ run[c].pc \in {"idle", "seq", "ledger", "simulate", "send", "poll", "done"}
                 /\ run[c].polls \in 0 .. PollLimit - 1
                 /\ run[c].exit \in 0 .. 4 \union {None}
                 /\ Done(c) <=> run[c].exit # None
        BY <2>2, PolicyConstants DEF RunOK, Early, Done
    <2> QED  BY <2>1, <2>2, <2>3, <2>4 DEF TTypeOK
<1> QED  BY <1>1, <1>2, InitTInv, NextTInv, WindowBesideTool, PTL DEF TSpec
=============================================================================
