# A TLA+ model of the agent-guard account contract

The repository is a Soroban custom account: a contract that holds an AI agent's
funds, lets an agent key authorize calls, and enforces in `__check_auth` a policy
that an admin installs. This directory models the contract, checks it with TLC
and proves part of it with TLAPS. Paths below are relative to the repository.

## The system

| component | state | operations | interacts with |
|---|---|---|---|
| rolling-window ledger, `src/window.rs` | entries `(second, amount)` and a cached total, globally, per recipient with an override, and for protocol calls | `from_state`, `to_state`, `prune`, `admit`, `admit_for_recipient`, `admit_protocol_call` | called by the engine on an in-memory copy |
| policy and validation, `src/types.rs`, `src/lib.rs` | `PolicyConfig` | `first_failing_rule`, `validate_config` | run by `set_policy`, `validate_policy` |
| decision engine, `src/engine.rs` | none | `parse_call`, `decide`, `cap_metrics`, `dms_health` | reads policy, clocks and ledger; stages and commits admissions |
| account contract, `src/lib.rs` | `Admin`, `PendingAdmin`, `AgentPubkey`, `Policy`, `Window`, `LastHeartbeat`, `AdminFrozen`, `AutoFrozenAt`, `PolicyRevision` | lifecycle, policy edits, rotation, heartbeat and freeze, `__check_auth`, reads | the host calls `__check_auth` for each authorization; `heartbeat` asks for the account's own authorization and so runs it too |
| host (external) | ledger time | `require_auth`, signature verification, rollback | runs one transaction at a time |
| `tools/agent-tx`, run loop and footprint, `main.rs` | one process per invocation: sequence, ledger, nonce, signed transaction, polls | `preflight`, `check`, `run` (simulate, sign, send, poll), exit codes, `merge_guard_footprint` | calls the RPC; its transactions reach the account through mempool and ledger |
| `tools/agent-tx`, guard registry, `main.rs` | the file `guards.json` | `guards add`, `remove`, `set-default`, `resolve_guard` | shared by all invocations, no lock |
| `tools/agent-tx`, command line, `main.rs`, `network.rs`, `strkey.rs`, `base32.rs` | none | `parse_request`, `resolve_endpoint`, `validate_key`, the StrKey codec | produces the request the run loop executes; reads registry, environment, file, stdin |
| policy hash, events, TTL | derived or output only | | |

In the contract what is hard is not threads: a transaction is atomic. It is the long
sequences of transactions by an agent, an admin, a pending admin and strangers
against one storage, with time passing between them: a ledger that is pruned
lazily and merged at a bound, stored and reloaded; several contexts in one
request that must see each other's stage; edits of a policy while its ledger and
its dead-man clock live on; reads that must agree with enforcement. In the tool it
is everything between two requests: the verdict of a simulation, a measured
footprint or a sequence number is stale when it is used, a request may fail and
have been carried out all the same, two invocations share an agent, and two
edits share a file. `PROJECT.json` lists these hazards with the line where each bites.

Correctness, per component: the ledger never under-counts and over-counts only
at the bound and only for a window; an installed policy has one meaning; a
request is worth exactly its contexts in sequence, wherever these are written back; what was paid in any window is
within the cap; a blocked or expired account stays so until the admin acts; the
revision identifies the policy; an admin handover leaves nothing behind. For the
tool: a reported verdict is what the ledger did; an expected block is a block by
the guard; what may still be applied is named; every run ends; the registry is
never ambiguous; only what the operator meant becomes a request.

## Modules

* `Window` - the operators of `window.rs`. One record `[total, entries]` serves
  the three kinds of ledger; a call entry's `count` is called `amount`. Integer
  widths are constants, and `saturating_add`, `saturating_sub` and the checked
  projection behave at those widths as the Rust ones do. The binary search of
  `prune_entries` is a recursive function.
* `SpendWindow` - a state machine around one such ledger with the true spend of
  every second as history.
* `Policy` - `PolicyConfig` and every validation rule in the order of the code.
* `Engine` - `decide` and what it uses. Ordered if-else chains are tables of
  rows `<<condition, error>>`; the stage that a request builds up is a record
  folded over its contexts.
* `Account` - `lib.rs`: a variable per storage key and an action per entry point
  that writes storage. A call that panics is rolled back by the host and is no
  step, so every requirement is a conjunct of the guard. `pause` and `resume` are
  `set_paused`; `check` is the `result` of `check_detailed`. The reads are operators.
* `AccountHistory` - the same steps with history variables: what was authorized
  in each second, whether an edit changed what the windows track, whether calls
  were authorized without a stored window, and who made the pending proposal.
* `SpendGuard` - the abstract specification: payments per payee and second, limits,
  a gate. `AccountHistory` instantiates it (`Guard`) with the refinement mapping
  time, true spend, the caps of the stored policy (nothing is promised while an
  edit has changed what the windows track) and the gate of `__check_auth`, and
  `ImplementsGuard` is its specification. `Pay` is a step of the agent alone, in
  the current second, through the open gate and within the global cap and the
  cap of every payee that has one; nobody but the owner forgets a payment.
* `Footprint` - the guard keys a call declares for reading and writing, and the
  merge with what the simulation measured.
* `AgentTx` - composes invocations of the tool with `Account` (whose actions it
  uses unchanged), the RPC, the mempool and the ledger. `run[c].pc` is the line an
  invocation stands at: `seq`, `ledger`, `simulate`, `send`, `poll`, `done`. Every
  RPC request is a step that succeeds or fails with each `RpcFailureKind` that
  `post` can produce; `sendTransaction` may fail and have queued the transaction.
  Sequence numbers make the ledger include one transaction at a time. Whether the
  token itself refuses a transfer is free.
* `Guards`, `Registry` - edits of the registry as operators, and the processes
  that load, truncate and write the file and may be killed between any two steps.
  A text written over a longer one leaves the file unreadable.
* `StrKey` - CRC16-XModem, base 32 and the StrKey checks, bit by bit; characters
  are positions in the alphabet.
* `Cli` - a command line with its surroundings (environment, secret file, stdin,
  registry) becomes a request, a refusal or help. The operator may make one slip
  in one key first.
* `MCAccount`, `MCHistory`, `MCAgentTx`, `MCCli` - the policies, context lists,
  jobs and command lines of the TLC instances.
* `FoldLemmas`, `WindowProofs`, `EngineProofs` - lemmas about folds, about the
  operators of `Window`, and about those of `Policy` and `Engine`.
* `SpendWindowProofs`, `AccountProofs`, `HistoryProofs`, `AgentTxProofs`,
  `ToolProofs` - the theorems about the state machines; `ToolProofs` has those of
  `Registry` and of `Cli`.

Operators introduced by "Seeded fault" are deliberate errors; each is put in the
place of the definition that follows it to confirm that a property notices.

`Window` and `Engine` are reached from `Account` by EXTENDS; `AccountHistory`
composes the account with its history. Data is abstract: addresses and keys are
model values, function names are strings, arguments are addresses and integers.
`__check_auth`'s signature check is `key = agentKey`.

## Runs

Time is counted in seconds from 1 and several transactions may share a second.
All instances use small limits (two entries per ledger, `I128_MAX` of 4 or 6, two
contexts per request) so that merging, saturation, overflow refusal and every
"too many" case are reached. The contract has no process of its own, so its
specifications assume no fairness and claim only safety; the bounds `MaxTime` and
`MaxRevision` stop an instance, and deadlock is still checked there (an admin can
always act again). `MCAgentTx` and `MCCli` may stop: all invocations are done, or
the one line has been read.

Fairness is assumed in one place, `AgentTx!Fairness`: a started invocation
eventually takes its next step. The code justifies it: each request is bounded
as a whole by `--rpc-timeout` (30 seconds by default, never zero), after which
it returns `Timeout`, and between requests the process only computes or sleeps
three seconds. Nothing is assumed about mempool, ledger, owner or time.

| run | shows | bounds |
|---|---|---|
| `MCSpendWindow` | the ledger against the true spend: never under, exact below the bound, free after a quiet window, order and binary search, bound and total | width 3, 8 seconds: merging, expiry of a merged entry, recovery |
| `MCSpend` | the cap holds for what was really paid under any mix of payments, batches, cap edits, pauses, freezes, resets; nothing but `reset_window` gives budget back; the account implements `SpendGuard`, caps per recipient included | amounts up to `I128_MAX`, so that the sum of a projection would wrap; width 3, 5 seconds, 3 revisions: install, edit, revoke or reinstall while entries merge and expire |
| `MCCalls` | the protocol-call limit while the window is stored; no proposal survives a handover | width 2, and width 0, whose counter never expires; 3 seconds, two people who may be admin |
| `MCTable` | every kind of context and list of a policy, valid and invalid configs: unambiguous installed policies, batch equals sequence where the first context is written back, preflight equals enforcement | 9 configs, one for each list with a duplicate and one with a recipient both allowed and denied, 18 context lists |
| `MCControl` | health read and gate agree; only the admin revives; a blocked agent changes nothing; revision is a join key; rotation with four possible admins, the account itself among them | graces 0 to 2, 6 seconds, 3 revisions, two keys |
| `MCAgentTx` | verdicts are what the ledger did; `--expect-blocked` never broadcasts and succeeds only on a block of the guard (or for a signed preflight that was admitted); a transaction that may still be applied is named; nonces collide only within a ledger; a transfer never fails on its footprint; every run ends | two invocations (any command beside a transfer or heartbeat), 2 ledgers, one policy edit, reset and freeze at any time, 2 polls, signatures valid for their own ledger, so that late inclusion finds them expired |
| `MCRegistry` | no alias or address twice, the default resolves, serial edits kept | two processes, three aliases, two addresses, crashes anywhere |
| `MCCli` | no slip becomes a request; a request fits its command; endpoint, passphrase and notice agree; the secret is from the most deliberate source | 1513 lines: each subcommand complete, with a token missing, and with one or two added; five different seeds (two on the line, file, stdin, environment), so that every order of precedence shows; every one-character slip, swap and truncation in every key of the complete lines. Payloads have 2 bytes instead of 32: five bytes fill eight characters, as 35 fill 56 |

Properties about the caps are stated for spans in which no edit changed what the
windows track (`steady`); the run `BadWidthEdit` shows why.

### Statements of the repository the code does not meet

Each is a run whose property TLC refutes.

* `BadCallsAfterReset` - after `reset_window`, a request that makes only protocol
  calls is not written back (`has_entries` looks at spend entries only), so the
  calls are not counted, over and over, until a payment recreates the key.
* `BadWidthEdit` - widening `window_secs` after the ledger was pruned under the
  narrow one lets the agent exceed `window_cap` within the new span.
* `BadGraceEdit` - raising or clearing `dms_grace_secs` revives an expired
  account; comment and docs say only `unfreeze` does.
* `BadAlias` - `--guard` with a registered alias is refused: `resolve_guard`
  returns the argument as it is. Help text and comment say an alias is resolved.

Met while modelling, and not given a run:

* `AutoFrozenAt` is never cleared, so `refresh_deadman` records and announces only
  the first expiry (`src/lib.rs:984`; `SPEC.md:550` says it records each).
* Ledgers of removed overrides accumulate (`src/window.rs:230`), beyond the bound
  the comment at `src/window.rs:73` gives.
* `remaining_window` for a recipient with an override ignores the global window
  (`src/engine.rs:38`; `SPEC.md:1168`).
* `SPEC.md:175` says an asset cap of 0 falls back to the global cap, the comment
  on `AssetCap` that it disables the cap; the code does the latter.
* A signed `preflight --expect-blocked` exits 0 when the simulation admits the call
  (`main.rs:1253`): only the branch of a failed simulation looks at the flag. The help
  (`main.rs:4828`) says "exit 0 if simulation blocked, 1 if admitted".
  `ExpectBlockedSound` excepts exactly this case (`AdmittedPreflight`).
* A `sendTransaction` that fails otherwise than by a timeout ends the run without
  a hash (`main.rs:1732`), although the endpoint may have relayed the
  transaction; the tool's README (line 117) promises `tx_hash` from submission on.
  `BroadcastIsNamed` excepts exactly this case (`broke`).
* A process killed between the truncation and the write of `fs::write`
  (`main.rs:1875`) leaves an empty file, which loads as an empty registry: all guards
  are lost without a message. `RegistryUnambiguous` and `DefaultResolves` hold of an empty
  registry, so they say nothing against it, and `SerialEditsKept` speaks only of edits
  that were not cut short.
* A heartbeat declares the window read-only (`GUARD_STORAGE_TOUCHES`), and
  `__check_auth` writes it when it is stored. The simulation usually adds it; if
  the window is created in between, the heartbeat fails on its footprint.
  `TransferFootprintCovers` is therefore about transfers only. `PolicyRevision`,
  which events read, is in no declaration and always comes from the simulation.
  The comments at `main.rs:1638` and `main.rs:1109` say the simulation never runs
  `__check_auth`, the one at `main.rs:1521` that it does; the model follows the
  latter, since the run reads the guard's verdict out of the simulation.
* `parse_request` takes `AGENT_SECRET` for every command (`main.rs:4681`), so the
  requests of `check`, `status` and `policy`, which never sign, carry it too.
  `RequestFitsCommand` says that this is the only secret they can carry.
* Smaller ones: the usage line at `main.rs:26` offers `heartbeat --expect-blocked`,
  which is refused; a mainnet URL with a port is not recognised as mainnet (then
  a passphrase has to be given, and there is no warning); a reply that is not JSON
  is `InvalidResponse` whatever its HTTP status.

## Proofs

Every theorem holds for all values of the constants that satisfy the named
assumptions of the modules (`WindowBounds`, `PolicyConstants`, `EngineBounds`,
`AccountConstants`, `AgentTxConstants`, ...): any number of addresses, entries,
processes and invocations, any integer width, any policy and any request. TLC
evaluates the same assumptions on its instances. Apart from what is listed under
"Only model-checked", every invariant and action property of the passing runs is
the statement of a theorem.

### Induction

The installed provers cannot instantiate the library's induction theorems, which
take an operator. `FoldLemmas` states induction with *functions and sets* instead:
`SetInduction` and `SubsetInduction` speak of a set of naturals or of subsets,
`IterExists` gives the sequence of intermediate values of an iteration as a
function, and the lemmas about `MapThenFoldSet` and `FoldLeft` connect the folds of the
community modules, which are defined by choosing a recursive function on subsets,
with such an iteration. So loading a ledger, dropping a prefix, the binary search,
committing a stage and evaluating a list of contexts can all be reasoned about.

### The rolling ledger (`SpendWindowProofs`)

None of the properties is inductive: a total says nothing about which seconds it
covers. Let `c[t]` be what was spent up to second `t`. `Accounted` says that the
ledger accounts for exactly the spends after some second `base`, and each entry for
those between the previous entry's second (or `base`) and its own: its amount is a
difference of two values of `c`. Admitting in the current second lengthens the
last interval or opens a new one; merging the two oldest entries removes one cut
and keeps the newer second, so the interval stays whole; pruning moves `base` to the
last expired entry, which lies outside the window. Hence the total is at least the
spend in the window. Without a merge every cut is a second with a spend and no spend
lies strictly inside an interval, so it is exact. That the binary search and the
linear one find the same boundary is a lemma of `WindowProofs` about any sorted list.

### The account (`AccountProofs`, `EngineProofs`)

`IInv` consists of the control types, `ClockArmed` and `ProposalIsToAnother`.
`HealthMatchesGate` alone is not inductive. The health read calls a clock of 0
expired and the gate lets it pass; they agree because a stored policy implies an
armed clock, which holds because the only action that turns "no policy" into a
policy writes `now`, which is positive, and the only action that writes 0,
`initialize`, needs an account without an admin, which has no policy. Both facts are
in `ClockArmed`. The action properties rest on one lemma about the engine,
`ClosedGateBlocks`: if the gate is closed, `decide` answers a non-empty request with a
blocking verdict, whatever the contexts and the ledger. Hence no step of the agent
exists, and an expiry can end only by the admin.

`AccountNeverItsOwnAdmin`: to become admin the account would have to authorize a
call on itself, and `decide` refuses the single context of such a call unless it is
`heartbeat` (a fold over one context). `InstalledPolicyUnambiguous`: a stored policy
passed validation, and the rule that precedes a lookup (of a protocol, an asset cap, a
recipient cap) excludes a second match.
`WindowSound` follows the stored window through a request: `from_state`, `prune`, the
stage, the commit in the order global, recipients, calls, and `to_state` keep every
entry positive and not in the future (`...UpTo(t)` in `EngineProofs`); together with
the control types it gives `TypeOK`.

`PreflightsAgree` compares two decisions about different lists of contexts from
different ledgers. The verdicts depend on the contexts only through `parse_call`
(`SameCalls`: a transfer rebuilt by the preflight parses to the same call), and on the
ledger only through `DecidedOn`, the ledger after the pruning that `decide` may do
(`SameDecision`). `check_detailed` has pruned already, under a condition of its own; a
pruned ledger has only live entries, and pruning such a ledger again drops nothing
and keeps the cached total (`PruneLeavesAllLive`, `LiveLedgersStay`).

`HistoryProofs` shows that the history only watches (`HSpec => Spec`), so all of this
holds of the account with history too, and that a proposal is always the current
admin's: every step that changes the admin clears it.

### The cap on what was really paid (`HistoryProofs`)

`LedgerCoversSpend` and `WindowCeiling` compare the stored ledger with the payments that
were authorized. Let `UpTo(spent)[t]` be what all payees together got up to second
`t`. `Covering` says that, while `steady` and with a cap set, the ledger that would be
loaded is `Covered` for it: for every cut after an entry (or before the first one) and every
second `u` where a window may start that is not before the cut, what was paid after
`u` is at most the sum of the entries behind the cut. This is weaker than the exact
`Accounted` of one ledger, and it has to be: a request may pay several times in a
second, entries may be merged at the bound in the middle of it, and the history saturates one
above every cap. It survives pruning (the dropped entries lie before every possible start),
merging, appending, time (`QuietSecond`), and storing and reloading (the cached total
is the sum of the entries). `SpentSound` adds that nothing was paid in the future, and
nothing while no policy is stored: without it a first install, which seeds an empty
window, would not be covered.

The request itself is the longest part. `StageCovers` (`EngineProofs`) follows
`decide` over the contexts: what is staged plus the live ledger covers the amounts of the
transfers seen so far, and is within `window_cap` once one was allowed; the commit then
admits the staged sum in one piece. `PaymentSplits` shows that the amounts per
address, which the history records, add up to the amount staged in total.
Then every payment leaves `RollingAll <= total <= window_cap`.

### The budget that is reported (`HistoryProofs`)

`BudgetNeverGrows` proves `NoFreeBudget`: no request gives back, in its own second,
part of what `status()` says is left. The budget is read off the cached total after
pruning for the read, so two prunings of two different ledgers are compared.
`GlobalTallied` says that the total of the global ledger as it would be loaded is the
sum of its entries, also for every suffix of them; unlike `Covering` it needs neither
`steady` nor a cap. `OwnSpends` (`WindowProofs`) turns the entries of a pruned ledger
into a history of their own, which that ledger covers; `DecideKeepsTotal` then applies
`DecideCoversLive` to it, so what was live before the request still counts when the
stored result is pruned again. `DecideTallies` keeps the invariant without a cap too
(`NothingAdmitted`: then nothing is staged). The remaining steps leave the window alone, or
remove it, or seed an empty one for an account that had no policy.

### A request and its contexts (`HistoryProofs`)

`BatchIsItsContexts` proves `SplitBatchSame`: staging the second context on top of
the first is the same as authorizing the first, writing the window back under the
condition of `__check_auth` (`SavedOver`), loading it (`LoadedFrom`) and deciding the second
alone. One case is excepted, and has to be: with no window stored, a first context
that is a protocol call is counted and not written back, so that splitting two calls
does gain one; it is the behaviour `BadCallsAfterReset` shows, and without the exception
`MCTable` finds it. Three things could go wrong. The commit could build other entries: but two
admissions in one second are one admission of the saturated sum, also when the list is
at its bound (`AdmitTwice`), so committing the longer stage is one admission more on
what the shorter one committed (`CommitOneMore`), and `Extended` determines the result
(`ExtendedOnce`). The second decision could see other totals: but an allowed call fits
(`AllowedFits`), so each total has grown by exactly what was staged, and the rules look
only at the sum of total and stage (`SplitStages`). Storing, loading and pruning
in between could change the ledger: they do not while every total is the sum of its
entries and nothing has expired (`ExactReloads`, `ExtendedLive`). Where nothing is
written, nothing was on record (`NothingRecorded`, `LoadedBetween`), and since a ledger
that had entries still has some after the second context (`Grown`), the window is
written in the end on both ways or on neither (`SavedBetween`). That the totals are
right is the invariant: `GlobalTallied`, and `RecipientsTallied` for the ledger
of every recipient, with or without a cap of its own now. The counter of calls
has no such invariant, because a limit equal to the largest 32-bit value lets it
saturate; after that, pruning subtracts from a total that is too small and loading the
window again corrects it. `SplitBatchSame` is therefore stated while the counter is below
that value, where it is the sum of its entries (`LoadTallies`). It is also stated for lists
that `decide` evaluates: one of two contexts is refused as a whole if only one is permitted.

### The rate limit (`HistoryProofs`)

`CallLimitIsCeiling` proves `CallCeilingWhileStored`. The argument is that of the cap, with
calls counted as spends of one unit each to one address (`CallsUpTo`), so that the
lemmas about sums and about covering ledgers serve again, with `U32_MAX` for the largest
total. `CallCovering` says that the counter that would be loaded covers the calls
really made, and two things could break it. `decide` counts the calls of a
request before it knows whether the window will be stored: after `reset_window` a
request without spends leaves none, its calls are forgotten, and the run
`BadCallsAfterReset` shows the limit exceeded. `metered` (`KeepsCount`) excludes such
histories; a request without protocol calls, and a heartbeat, may still leave the window
absent, because its counter was empty and stays so (`RequestCoversCalls`). And the counter
saturates at `U32_MAX`: a limit of that value admits calls that are never counted, so the
ceiling is stated, and `KeepsCount` asked, for the limits below it; at that value the
statement would be false. `StageCounts` (`EngineProofs`) follows
the staged count through the contexts and `MeteredCovers` the commit, which admits
the calls one by one. The limit is read off the counter the request was decided on
(`CallsWithin`), not off the stored one: the first request that is not stored keeps the limit
as well.

### The refinement of the guard (`HistoryProofs`)

`AccountImplementsGuard` proves `HSpec => ImplementsGuard`. The guard's `Pay` also
promises the cap of every recipient that has one, so the invariant gets a second
half: `CoveringTo` says of each such recipient what `Covering` says of all payees, with
the recipient's own ledger and the payments to it alone (`OnlyTo`, which makes the
lemmas about sums serve both). It needs no `window_cap`. `StagesFor` follows the
amount staged for one recipient through the contexts, and `RecipsAdmitOnce` the
commit, which goes through the recipients in no particular order: exactly one of its
steps touches the ledger of a given recipient. A recipient may have no ledger yet, and one
whose window was never stored loads as empty (`SavedIsLoadedTo`).
Each step is then mapped: an authorization that changed what was paid is a `Pay` (the
gate is open because the verdicts are all allowed, payments go to the current second,
both caps hold of the true sums), one that paid nothing and every step of the owner, the
heartbeat and `refresh_deadman` is a `Govern`, and `Tick` is an `Elapse`.

### The tool (`AgentTxProofs`, `ToolProofs`)

`TInv` describes each invocation by the line it stands at (`RunOK`), the
transactions in mempool and ledger (`NetworkOK`), the used nonces (`NoncesOK`), that
whatever was sent is some run's transaction (`Posted`), and that a report agrees with
the result it was read from (`Verdicts`). `VerdictMatchesLedger` needs that the
sequence number makes the result of a transaction unique and that the ledger never
takes a result back. `ExpectBlockedSound` needs that a run with `--expect-blocked`
leaves `simulate` only for `done`, with code 0 only on a block of the guard or, for a
signed preflight, on an admission. `ReplayOnlyWithinLedger` needs that `auth_nonce`
determines the ledger it was drawn in, whatever the entropy, and that a used nonce
belongs to an included transaction. `TransferFootprintCovers` needs that the declared
keys of a transfer contain all that the guard touches, whatever the simulation adds,
except `PolicyRevision`, which is declared nowhere and is in every simulated footprint.

For the registry the invariant covers the file *and* the copies that processes hold
between load and write: each is a registry that some edits produce, so a stale copy
that overwrites a newer file may lose an edit but never make it ambiguous.

For the command line, `parse_request` folds over the tokens, and `Followed` is what holds
after each of them unless the loop has stopped: a flag that is set was given by one of
the tokens read, with that value, and is valid for the command, each token read has
set its flag, and of several tokens for a secret the last has. With the whole line read,
`parse_request` only adds what its own checks have just established; from there
`RequestsFit`, `EndpointsMatch` and `SecretsFromTheirSource` follow the choice of guard,
endpoint and secret for any command line, registry, environment and key, the
checksum included. `CliConstants` says only that a line has a command and a list of
tokens.

Five definitions were reshaped so that they can be reasoned about, with the same
meaning: the sums of `AccountHistory` and `SpendGuard` over addresses are
`SumFunctionOnSet`, `ledger_from_entries` is one fold as in the code (`LoadEntry`), the binary
search of `ExpiredPrefix` is a function on its own bounds, the first match in the
registry is the operator `FirstOf`, and the failure symbols of a report are the set
`FailureReason`. Assumptions that the instances had always met are now stated:
`None` is no address, policy, stored window, key or failure symbol; there are finitely
many addresses; a job without a key is `preflight` or
`check` and `check` has no key, as `parse_request` enforces; `MaxRevision` is positive.

### Only model-checked

* `EveryRunEnds`, the liveness property: fairness is out of the prover's reach.
* `SlipNeverRuns`: that CRC16 detects every one-character slip, swap and truncation
  is an argument about polynomials over bits, for every length of the payload.
* That seeded faults are noticed, and the four statements the code does not meet.

## Not modelled

* TTL extension and archival: they change no value the model reads.
* Events and `policy_hash`: output and a byte encoding.
* In the tool: fee figures (no decision of the tool depends on them; a fee
  statistics request that fails falls back to a constant), `status` and `policy`
  (they read and print), the wording of reports and help, the reason symbol of a
  blocked report, panics on replies that are well-formed JSON-RPC results of the
  wrong shape, and `now_ts`, admin and time of registry entries.
* Tests, fuzz targets, benches, scripts, examples.

Abstractions that limit what the runs say: the RPC answers from the latest ledger
(a lag is modelled only for `getTransaction`); one ledger closes per second; all
invocations of an instance use one agent account; a nonce, once used, is never
forgotten by the host.
