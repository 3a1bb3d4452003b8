---------------------------- MODULE SpendWindow -----------------------------
(***************************************************************************)
(* One rolling ledger driven the way src/src/engine.rs drives it: every    *)
(* evaluation prunes first, a spend is admitted after its projection was   *)
(* found not to overflow, and storage reloads the entries between          *)
(* transactions.  `spent` remembers what was really admitted in each       *)
(* second; it is history, the code does not keep it.                       *)
(***************************************************************************)
EXTENDS Window

CONSTANTS
    WindowSecs,   \* the policy's window_secs; 0 means entries never expire
    Amounts,      \* amounts of the spends tried
    MaxTime       \* bound on ledger time

ASSUME SpendWindowBounds ==
    /\ WindowSecs \in Nat
    /\ Amounts \subseteq 1..I128_MAX
    /\ MaxTime \in Nat \ {0}

VARIABLES
    now,      \* ledger time in seconds
    ledger,   \* [total, entries]
    spent,    \* history: amount admitted in each second
    merged    \* history: the boundedness backstop has been used

vars == <<now, ledger, spent, merged>>

Init ==
    /\ now = 1
    /\ ledger = EmptyLedger
    /\ spent = [t \in 1..MaxTime |-> 0]
    /\ merged = FALSE

Pruned == prune_entries(ledger, now, WindowSecs)

Tick ==
    /\ now < MaxTime
    /\ now' = now + 1
    /\ UNCHANGED <<ledger, spent, merged>>

(* An admitted spend: prune, check that the projection fits, admit. *)
Spend(amount) ==
    /\ Pruned.total + amount <= I128_MAX
    /\ ledger' = admit_to_ledger(Pruned, now, amount, I128_MAX)
    /\ spent' = [spent EXCEPT ![now] = @ + amount]
    /\ merged' = (merged \/ (spent[now] = 0 /\ Len(Pruned.entries) = MAX_WINDOW_ENTRIES))
    /\ UNCHANGED now

(* An authorization without a transfer, such as a heartbeat: the pruned    *)
(* ledger is stored.                                                       *)
Evaluate ==
    /\ ledger' = Pruned
    /\ UNCHANGED <<now, spent, merged>>

(* Storage round trip between two transactions. *)
Reload ==
    /\ ledger' = ledger_from_entries(ledger.entries, I128_MAX)
    /\ UNCHANGED <<now, spent, merged>>

Next == Tick \/ (\E a \in Amounts : Spend(a)) \/ Evaluate \/ Reload

Spec == Init /\ [][Next]_vars

-----------------------------------------------------------------------------
TypeOK ==
    /\ now \in 1..MaxTime
    /\ ledger.total \in 0..I128_MAX
    /\ ledger.entries \in Seq([ts : 1..MaxTime, amount : 1..I128_MAX])
    /\ spent \in [1..MaxTime -> Nat]
    /\ merged \in BOOLEAN

(* What was really spent in the rolling window that ends now. *)
RollingSpend ==
    SumFunctionOnSet(spent, {t \in 1..now : WindowSecs = 0 \/ t + WindowSecs > now})

(* The ledger the engine compares with a cap never under-counts: pruning,  *)
(* coalescing and the forward merge keep every live spend (window.rs:      *)
(* "can only over-count, never under-count").                              *)
NeverUnderCounts == Pruned.total >= RollingSpend

(* As long as the entry bound was never hit the ledger is exact, so no     *)
(* spend the policy allows is refused.                                     *)
ExactBelowBound == ~ merged => Pruned.total = RollingSpend

(* Over-counting is temporary: after window_secs without a spend the whole *)
(* budget is available again, whatever was merged before.                  *)
QuietWindowFreesBudget ==
    (WindowSecs > 0 /\ \A t \in 1..now : spent[t] > 0 => t + WindowSecs <= now)
        => Pruned = EmptyLedger

(* Entries stay chronological with one entry per second, so the binary     *)
(* search of prune_entries drops exactly the expired entries, and the      *)
(* linear pruning of the call counter would drop the same ones.            *)
PruneDropsExactlyExpired ==
    /\ \A i, j \in 1..Len(ledger.entries) :
           i < j => ledger.entries[i].ts < ledger.entries[j].ts
    /\ WindowSecs > 0 =>
           \E k \in 0..Len(ledger.entries) :
               /\ Pruned.entries = SubSeq(ledger.entries, k + 1, Len(ledger.entries))
               /\ \A i \in 1..Len(ledger.entries) :
                      IsExpired(ledger.entries[i], now, WindowSecs) <=> i <= k
    /\ prune_protocol_call_entries(ledger, now, WindowSecs) = Pruned

(* The storage bound holds after every admission, and the total that is    *)
(* updated step by step is the sum of the entries that remain.             *)
BoundedAndSummed ==
    /\ Len(ledger.entries) <= MAX_WINDOW_ENTRIES
    /\ ledger = ledger_from_entries(ledger.entries, I128_MAX)
=============================================================================
