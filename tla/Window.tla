------------------------------- MODULE Window -------------------------------
(***************************************************************************)
(* The rolling-window ledger of src/src/window.rs: pure functions on an    *)
(* in-memory ledger.  Every ledger is a record [total, entries] whose      *)
(* entries are in chronological order.  A protocol-call entry carries its  *)
(* count in the field `amount`, so that one shape serves the global spend  *)
(* ledger, the per-recipient ledgers and the call counter; the integer     *)
(* width of the total (i128 or u32) is the parameter `max`.                *)
(***************************************************************************)
EXTENDS Integers, SequencesExt

CONSTANTS
    MAX_WINDOW_ENTRIES,   \* hard bound on the entries of one ledger
    I128_MAX,             \* largest i128; small in the models
    U32_MAX               \* largest u32; small in the models

ASSUME WindowBounds ==
    /\ MAX_WINDOW_ENTRIES \in Nat \ {0}
    /\ I128_MAX \in Nat \ {0}
    /\ U32_MAX \in Nat \ {0}

I128 == (-I128_MAX - 1)..I128_MAX

(* saturating_add of an unsigned or non-negative value of width `max`. *)
saturating_add(a, b, max) == IF a + b > max THEN max ELSE a + b

(* saturating_sub, with the least value of the type. *)
saturating_sub(a, b, min) == IF a - b < min THEN min ELSE a - b

EmptyLedger == [total |-> 0, entries |-> <<>>]

(* Loading drops entries that carry nothing and recomputes the total: the  *)
(* stored total is never trusted.                                          *)
LoadEntry(l, e, max) ==
    IF e.amount > 0
    THEN [total |-> saturating_add(l.total, e.amount, max), entries |-> Append(l.entries, e)]
    ELSE l

ledger_from_entries(entries, max) ==
    FoldLeft(LAMBDA l, e : LoadEntry(l, e, max), EmptyLedger, entries)

(* Seeded faults: an entry that lives one second too long, or too short. *)
IsExpiredLate(e, now, window_secs) == e.ts + window_secs < now
IsExpiredEarly(e, now, window_secs) == e.ts + window_secs - 1 <= now

IsExpired(e, now, window_secs) == e.ts + window_secs <= now

(* The binary search of prune_entries for the first live entry: the number *)
(* of entries to drop.  Indices are the code's, counted from 0.            *)
ExpiredPrefix(entries, now, window_secs) ==
    LET n == Len(entries)
        search[r \in (0..n) \X (0..n)] ==
            LET low  == r[1]
                high == r[2]
                mid  == low + ((high - low) \div 2)
            IN  IF low >= high THEN low
                ELSE IF IsExpired(entries[mid + 1], now, window_secs)
                     THEN search[<<mid + 1, high>>]
                     ELSE search[<<low, mid>>]
    IN  search[<<0, n>>]

(* Pop the first k entries, subtracting each amount from the total. *)
DropFront(l, k, min) ==
    [total   |-> FoldLeft(LAMBDA t, e : saturating_sub(t, e.amount, min), l.total,
                          SubSeq(l.entries, 1, k)),
     entries |-> SubSeq(l.entries, k + 1, Len(l.entries))]

(* When nothing is left the total restarts at zero. *)
prune_entries(l, now, window_secs) ==
    LET k == ExpiredPrefix(l.entries, now, window_secs)
    IN  IF window_secs = 0 THEN l
        ELSE IF k = Len(l.entries) /\ k > 0 THEN EmptyLedger
        ELSE DropFront(l, k, -I128_MAX - 1)

(* The call counter is pruned by popping expired entries off the front. *)
prune_protocol_call_entries(l, now, window_secs) ==
    LET live == SelectInSeq(l.entries, LAMBDA e : ~ IsExpired(e, now, window_secs))
        k    == IF live = 0 THEN Len(l.entries) ELSE live - 1
    IN  IF window_secs = 0 THEN l ELSE DropFront(l, k, 0)

(* Seeded faults: the merged entry keeps the older timestamp; the second   *)
(* of the two entries is left in place.                                    *)
MergeKeepsOlder(entries, max) ==
    LET merged == [ts     |-> entries[1].ts,
                   amount |-> saturating_add(entries[1].amount, entries[2].amount, max)]
    IN  <<merged>> \o SubSeq(entries, 3, Len(entries))
MergePopsOne(entries, max) ==
    LET merged == [ts     |-> entries[2].ts,
                   amount |-> saturating_add(entries[1].amount, entries[2].amount, max)]
    IN  <<merged>> \o SubSeq(entries, 2, Len(entries))

(* The boundedness backstop: the two oldest entries become one that keeps  *)
(* the newer timestamp.                                                    *)
MergeOldest(entries, max) ==
    LET merged == [ts     |-> entries[2].ts,
                   amount |-> saturating_add(entries[1].amount, entries[2].amount, max)]
    IN  <<merged>> \o SubSeq(entries, 3, Len(entries))

(* Seeded faults: no coalescing within a second; no bound. *)
AdmitUncoalesced(entries, now, amount, max) ==
    LET grown == Append(entries, [ts |-> now, amount |-> amount])
    IN  IF Len(grown) > MAX_WINDOW_ENTRIES THEN MergeOldest(grown, max) ELSE grown
AdmitUnbounded(entries, now, amount, max) ==
    LET n == Len(entries)
    IN  IF n > 0 /\ entries[n].ts = now
        THEN [entries EXCEPT ![n].amount = saturating_add(@, amount, max)]
        ELSE Append(entries, [ts |-> now, amount |-> amount])

(* Record `amount` at second `now`: coalesce with the trailing entry of    *)
(* the same second, or append and, above the bound, merge.                 *)
AdmitEntry(entries, now, amount, max) ==
    LET n == Len(entries)
        grown == Append(entries, [ts |-> now, amount |-> amount])
    IN  IF n > 0 /\ entries[n].ts = now
        THEN [entries EXCEPT ![n].amount = saturating_add(@, amount, max)]
        ELSE IF Len(grown) > MAX_WINDOW_ENTRIES
             THEN MergeOldest(grown, max)
             ELSE grown

admit_to_ledger(l, now, amount, max) ==
    [total   |-> saturating_add(l.total, amount, max),
     entries |-> AdmitEntry(l.entries, now, amount, max)]

-----------------------------------------------------------------------------
(* The account's whole in-memory ledger: `global`, one ledger per tracked  *)
(* recipient, and the protocol-call counter.  Recipient ledgers are keyed  *)
(* by address; the order of the code's vector is never observed.           *)

Ledger_empty == [global |-> EmptyLedger, recipients |-> <<>>, calls |-> EmptyLedger]

(* Persistent state keeps the entries only: every total is recomputed.     *)
from_state(state) ==
    [global     |-> ledger_from_entries(state.entries, I128_MAX),
     recipients |-> [r \in DOMAIN state.recipients |->
                        ledger_from_entries(state.recipients[r], I128_MAX)],
     calls      |-> ledger_from_entries(state.protocol_call_entries, U32_MAX)]

to_state(ledger) ==
    [entries               |-> ledger.global.entries,
     recipients            |-> [r \in DOMAIN ledger.recipients |->
                                    ledger.recipients[r].entries],
     protocol_call_entries |-> ledger.calls.entries]

prune(ledger, now, window_secs) ==
    [global     |-> prune_entries(ledger.global, now, window_secs),
     recipients |-> [r \in DOMAIN ledger.recipients |->
                        prune_entries(ledger.recipients[r], now, window_secs)],
     calls      |-> prune_protocol_call_entries(ledger.calls, now, window_secs)]

RecipientLedger(ledger, to) ==
    IF to \in DOMAIN ledger.recipients THEN ledger.recipients[to] ELSE EmptyLedger

recipient_total(ledger, to) == RecipientLedger(ledger, to).total

admit(ledger, now, amount) ==
    [ledger EXCEPT !.global = admit_to_ledger(@, now, amount, I128_MAX)]

(* A first spend to a tracked recipient creates its ledger. *)
admit_for_recipient(ledger, now, to, amount) ==
    [ledger EXCEPT !.recipients =
        [r \in DOMAIN @ \union {to} |->
            IF r = to
            THEN admit_to_ledger(RecipientLedger(ledger, to), now, amount, I128_MAX)
            ELSE ledger.recipients[r]]]

admit_protocol_call(ledger, now) ==
    [ledger EXCEPT !.calls = admit_to_ledger(@, now, 1, U32_MAX)]
=============================================================================
