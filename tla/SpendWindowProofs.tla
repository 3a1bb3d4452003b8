-------------------------- MODULE SpendWindowProofs --------------------------
(***************************************************************************)
(* The safety of the rolling ledger, for every window, every bound on the  *)
(* entries and every sequence of spends.                                   *)
(*                                                                         *)
(* The argument: let c[t] be what was spent up to second t.  The ledger    *)
(* always accounts for the spends after some second `base`, and each of    *)
(* its entries for those between the previous entry's second, or `base`,   *)
(* and its own.  Pruning moves `base` to the last expired entry, merging   *)
(* the two oldest entries removes a cut, and neither loses an amount.      *)
(***************************************************************************)
EXTENDS SpendWindow, WindowProofs

(* What was spent in the seconds up to each one. *)
Cumulated(s) == [t \in 0..MaxTime |-> SumFunctionOnSet(s, 1..t)]

(* That is, c accumulates s. *)
IsCumulated(c, s) ==
    /\ s \in [1..MaxTime -> Nat]
    /\ c \in [0..MaxTime -> Nat]
    /\ \A t \in 1..MaxTime : c[t] = c[t - 1] + s[t]
    /\ \A a, b \in 0..MaxTime : a <= b => c[a] <= c[b]

(* The second up to which the first i entries account. *)
Cut(entries, base, i) == IF i = 0 THEN base ELSE entries[i].ts

(* How a ledger accounts at second t for the spends s, accumulated in c,   *)
(* and what is exact as long as entries were never merged.                 *)
Accounted(total, entries, c, s, t, m, base) ==
    /\ t \in 1..MaxTime
    /\ IsCumulated(c, s)
    /\ entries \in Seq(Entry)
    /\ base \in 0..t
    /\ base = 0 \/ (WindowSecs > 0 /\ base + WindowSecs <= t)
    /\ Chronological(entries)
    /\ \A i \in 1..Len(entries) :
           /\ base < entries[i].ts /\ entries[i].ts <= t
           /\ s[entries[i].ts] > 0
           /\ entries[i].amount = c[entries[i].ts] - c[Cut(entries, base, i - 1)]
    /\ c[t] = c[Cut(entries, base, Len(entries))]
    /\ total = c[t] - c[base]
    /\ total <= I128_MAX
    /\ ~ m => \A i \in 1..Len(entries) : c[entries[i].ts - 1] = c[Cut(entries, base, i - 1)]

IInv ==
    /\ now \in 1..MaxTime
    /\ spent \in [1..MaxTime -> Nat]
    /\ \A t \in 1..MaxTime : t > now => spent[t] = 0
    /\ merged \in BOOLEAN
    /\ ledger = [total |-> ledger.total, entries |-> ledger.entries]
    /\ Len(ledger.entries) <= MAX_WINDOW_ENTRIES
    /\ \E base \in 0..now :
           Accounted(ledger.total, ledger.entries, Cumulated(spent), spent, now, merged, base)

-----------------------------------------------------------------------------
(* Accumulated spends *)

(* Cumulated really accumulates the spends of each second. *)
LEMMA CumulatedSums ==
    ASSUME NEW s \in [1..MaxTime -> Nat]
    PROVE  IsCumulated(Cumulated(s), s)
<1> DEFINE c == Cumulated(s)
<1>0. MaxTime \in Nat
    BY SpendWindowBounds
<1>1. ASSUME NEW a \in Nat, NEW b \in 0..MaxTime
      PROVE  IsFiniteSet((a + 1)..b) /\ SumFunctionOnSet(s, (a + 1)..b) \in Nat
    <2>1. IsFiniteSet((a + 1)..b)
        BY <1>0, FS_Interval
    <2>2. \A x \in (a + 1)..b : s[x] \in Nat
        BY <1>0
    <2> QED  BY <2>1, <2>2, SumRemove
<1>2. \A t \in 0..MaxTime : c[t] = SumFunctionOnSet(s, 1..t)
    BY DEF Cumulated
<1>3. c \in [0..MaxTime -> Nat]
    <2>1. \A t \in 0..MaxTime : SumFunctionOnSet(s, (0 + 1)..t) \in Nat
        BY <1>1
    <2>2. \A t \in 0..MaxTime : SumFunctionOnSet(s, 1..t) \in Nat
        <3>1. 0 + 1 = 1
            OBVIOUS
        <3> QED  BY <2>1, <3>1, Zenon
    <2> QED  BY <2>2 DEF Cumulated
<1>4. ASSUME NEW t \in 1..MaxTime PROVE c[t] = c[t - 1] + s[t]
    <2>1. t \in Nat \ {0} /\ \A u \in 1..t : s[u] \in Nat
        BY <1>0
    <2>2. SumFunctionOnSet(s, 1..t) = SumFunctionOnSet(s, 1..(t - 1)) + s[t]
        BY <2>1, SumStep
    <2>3. t \in 0..MaxTime /\ t - 1 \in 0..MaxTime
        BY <1>0
    <2> HIDE DEF c
    <2> QED  BY <1>2, <2>2, <2>3
<1>5. ASSUME NEW a \in 0..MaxTime, NEW b \in 0..MaxTime, a <= b PROVE c[a] <= c[b]
    <2>1. a \in Nat /\ b \in Nat /\ \A u \in 1..b : s[u] \in Nat
        BY <1>0
    <2>2. SumFunctionOnSet(s, 1..b) = SumFunctionOnSet(s, 1..a) + SumFunctionOnSet(s, (a + 1)..b)
        BY <1>5, <2>1, SumInterval, ZenonT(60)
    <2>3. SumFunctionOnSet(s, (a + 1)..b) \in Nat
        BY <1>1, <2>1
    <2>4. c[a] \in Nat /\ c[b] \in Nat
        BY <1>3
    <2> HIDE DEF c
    <2> QED  BY <1>2, <2>2, <2>3, <2>4
<1> HIDE DEF c
<1>6. IsCumulated(c, s)
    BY <1>3, <1>4, <1>5 DEF IsCumulated
<1> QED  BY <1>6 DEF c

(* A spend at second t is added from t on. *)
After(s, t, a) == [s EXCEPT ![t] = @ + a]

(* A spend of the current second changes only what is accumulated from it  *)
(* on.                                                                     *)
LEMMA CumulatedAfter ==
    ASSUME NEW s \in [1..MaxTime -> Nat], NEW t \in 1..MaxTime, NEW a \in Nat
    PROVE  /\ After(s, t, a) \in [1..MaxTime -> Nat]
           /\ \A u \in 0..(t - 1) : Cumulated(After(s, t, a))[u] = Cumulated(s)[u]
           /\ Cumulated(After(s, t, a))[t] = Cumulated(s)[t] + a
<1> DEFINE s2 == After(s, t, a)
<1>0. MaxTime \in Nat
    BY SpendWindowBounds
<1>1. /\ s2 \in [1..MaxTime -> Nat] /\ s2[t] = s[t] + a
      /\ \A x \in 1..MaxTime : x # t => s2[x] = s[x]
    BY DEF After
<1> HIDE DEF s2
<1>2. ASSUME NEW u \in 0..(t - 1) PROVE Cumulated(s2)[u] = Cumulated(s)[u]
    <2>1. \A x \in 1..u : s[x] \in Nat /\ s2[x] = s[x]
        BY <1>0, <1>1
    <2>2. IsFiniteSet(1..u)
        BY FS_Interval
    <2>3. SumFunctionOnSet(s, 1..u) = SumFunctionOnSet(s2, 1..u)
        BY <2>1, <2>2, SumAgree
    <2> QED  BY <1>0, <2>3 DEF Cumulated
<1> DEFINE c == Cumulated(s)
           c2 == Cumulated(s2)
<1>3. IsCumulated(c, s) /\ IsCumulated(c2, s2)
    BY <1>1, CumulatedSums
<1> HIDE DEF c, c2
<1>4. c2[t] = c2[t - 1] + s2[t] /\ c[t] = c[t - 1] + s[t] /\ c[t - 1] \in Nat /\ s[t] \in Nat
    BY <1>0, <1>3 DEF IsCumulated
<1>5. c2[t - 1] = c[t - 1]
    <2>1. t - 1 \in 0..(t - 1)
        BY <1>0
    <2> QED  BY <1>2, <2>1 DEF c, c2
<1>6. c2[t] = c[t] + a
    BY <1>1, <1>4, <1>5
<1> QED  BY <1>1, <1>2, <1>6 DEF c, c2, s2

-----------------------------------------------------------------------------
(* Accounting *)

(* The totals of an accounted ledger's prefixes. *)
Sums(entries, c, base) == [i \in 0..Len(entries) |-> c[Cut(entries, base, i)] - c[base]]

(* Every cut is a second between the base and now. *)
LEMMA CutType ==
    ASSUME NEW total, NEW entries, NEW c, NEW s, NEW t, NEW m, NEW base,
           Accounted(total, entries, c, s, t, m, base)
    PROVE  /\ Len(entries) \in Nat
           /\ \A i \in 1..Len(entries) : entries[i] \in Entry
           /\ \A i \in 0..Len(entries) :
                  /\ Cut(entries, base, i) \in base..t /\ Cut(entries, base, i) \in 0..MaxTime
           /\ base \in 0..MaxTime /\ t \in 0..MaxTime /\ base < t
<1>1. MaxTime \in Nat /\ WindowSecs \in Nat /\ t \in 1..MaxTime
    BY SpendWindowBounds DEF Accounted
<1>2. Len(entries) \in Nat /\ \A i \in 1..Len(entries) : entries[i] \in Entry
    BY ElementOfSeq, LenProperties DEF Accounted
<1>3. base \in 0..t /\ base < t
    BY <1>1 DEF Accounted
<1>4. ASSUME NEW i \in 0..Len(entries) PROVE Cut(entries, base, i) \in base..t
    <2>1. CASE i = 0
        BY <1>1, <1>3, <2>1 DEF Cut
    <2>2. CASE i # 0
        <3>1. i \in 1..Len(entries)
            BY <1>2, <2>2
        <3>2. base < entries[i].ts /\ entries[i].ts <= t /\ entries[i].ts \in Nat
            BY <1>2, <3>1 DEF Accounted, Entry
        <3> QED  BY <1>1, <1>3, <2>2, <3>2 DEF Cut
    <2> QED  BY <2>1, <2>2
<1> QED  BY <1>1, <1>2, <1>3, <1>4

(* The entries of an accounted ledger have running totals that never       *)
(* overflow.                                                               *)
LEMMA AccountedSums ==
    ASSUME NEW total, NEW entries, NEW c, NEW s, NEW t, NEW m, NEW base,
           Accounted(total, entries, c, s, t, m, base)
    PROVE  /\ PartialSums(Sums(entries, c, base), entries, I128_MAX)
           /\ total = Sums(entries, c, base)[Len(entries)]
           /\ total \in 0..I128_MAX
<1> DEFINE n == Len(entries)
           p == Sums(entries, c, base)
           Q(i) == Cut(entries, base, i)
<1>0. I128_MAX \in Nat
    BY WindowBounds
<1>1. /\ n \in Nat /\ base \in 0..MaxTime /\ t \in 0..MaxTime
      /\ \A i \in 0..n : Q(i) \in base..t /\ Q(i) \in 0..MaxTime
    BY CutType
<1>2. /\ c[t] = c[Q(n)] /\ total = c[t] - c[base] /\ total <= I128_MAX
      /\ \A i \in 1..n : entries[i].ts = Q(i) /\ entries[i].amount = c[Q(i)] - c[Q(i - 1)]
    BY <1>1 DEF Accounted, Cut
<1>3. p = [i \in 0..n |-> c[Q(i)] - c[base]] /\ Q(0) = base
    BY DEF Sums, Cut
<1> HIDE DEF n, p, Q
<1>4. /\ c[base] \in Nat /\ c[t] \in Nat
      /\ \A i \in 0..n : c[Q(i)] \in Nat /\ c[base] <= c[Q(i)] /\ c[Q(i)] <= c[t]
    <2>1. IsCumulated(c, s)
        BY DEF Accounted
    <2> QED  BY <1>1, <2>1 DEF IsCumulated
<1>5. \A i \in 0..n : p[i] = c[Q(i)] - c[base]
    BY <1>3
<1>6. p[n] = total
    BY <1>1, <1>2, <1>5
<1>7. \A i \in 0..n : p[i] \in 0..I128_MAX /\ p[i] <= p[n]
    BY <1>0, <1>2, <1>4, <1>5, <1>6
<1>8. p \in [0..n -> 0..I128_MAX]
    BY <1>3, <1>7
<1>9. p[0] = 0
    BY <1>1, <1>3, <1>4, <1>5
<1>10. ASSUME NEW k \in 1..n PROVE p[k] = p[k - 1] + entries[k].amount
    <2>1. k \in 0..n /\ k - 1 \in 0..n
        BY <1>1
    <2> QED  BY <1>2, <1>4, <1>5, <2>1
<1>11. PartialSums(p, entries, I128_MAX)
    BY <1>7, <1>8, <1>9, <1>10 DEF PartialSums, n
<1> QED  BY <1>1, <1>6, <1>7, <1>11 DEF p, n

(* Storage gives back the ledger it was given. *)
LEMMA ReloadSame ==
    ASSUME NEW total, NEW entries, NEW c, NEW s, NEW t, NEW m, NEW base,
           Accounted(total, entries, c, s, t, m, base)
    PROVE  ledger_from_entries(entries, I128_MAX) = [total |-> total, entries |-> entries]
<1> DEFINE p == Sums(entries, c, base)
<1>1. PartialSums(p, entries, I128_MAX) /\ total = p[Len(entries)]
    BY AccountedSums
<1>2. I128_MAX \in Nat /\ entries \in Seq(Entry)
    BY WindowBounds DEF Accounted
<1> HIDE DEF p
<1> QED  BY <1>1, <1>2, LoadSums

-----------------------------------------------------------------------------
(* Pruning *)

(* The entries after the first K account from the K-th entry's second on. *)
LEMMA RestAccounted ==
    ASSUME NEW total, NEW entries, NEW c, NEW s, NEW t, NEW m, NEW base,
           Accounted(total, entries, c, s, t, m, base),
           WindowSecs > 0, NEW K, Boundary(entries, t, WindowSecs, K)
    PROVE  Accounted(c[t] - c[Cut(entries, base, K)], SubSeq(entries, K + 1, Len(entries)),
                     c, s, t, m, Cut(entries, base, K))
<1> DEFINE n == Len(entries)
           es == SubSeq(entries, K + 1, n)
           cut == Cut(entries, base, K)
<1>0. /\ WindowSecs \in Nat /\ MaxTime \in Nat /\ I128_MAX \in Nat
      /\ K \in 0..n /\ t \in 1..MaxTime /\ IsCumulated(c, s)
    BY SpendWindowBounds, WindowBounds DEF Boundary, Accounted
<1>1. /\ n \in Nat /\ base \in 0..MaxTime /\ t \in 0..MaxTime /\ base \in 0..t /\ base < t
      /\ \A i \in 1..n : entries[i] \in Entry /\ entries[i].ts \in Nat
      /\ \A i \in 0..n : /\ Cut(entries, base, i) \in base..t
                         /\ Cut(entries, base, i) \in 0..MaxTime
    BY CutType DEF Accounted, Entry
<1>2. /\ base = 0 \/ base + WindowSecs <= t
      /\ \A i, j \in 1..n : i < j => entries[i].ts < entries[j].ts
      /\ \A i \in 1..n : /\ base < entries[i].ts /\ entries[i].ts <= t
                         /\ s[entries[i].ts] > 0
                         /\ entries[i].amount = c[entries[i].ts] - c[Cut(entries, base, i - 1)]
      /\ c[t] = c[Cut(entries, base, n)]
      /\ total = c[t] - c[base] /\ total <= I128_MAX
      /\ ~ m => \A i \in 1..n : c[entries[i].ts - 1] = c[Cut(entries, base, i - 1)]
    BY DEF Accounted, Chronological
<1>3. /\ es \in Seq(Entry) /\ Len(es) = n - K
      /\ \A i \in 1..(n - K) : es[i] = entries[K + i]
    <2>1. entries \in Seq(Entry)
        BY DEF Accounted
    <2> QED  BY <1>0, <1>1, <2>1
<1> HIDE DEF es, n
<1>4. cut \in 0..t /\ cut \in 0..MaxTime /\ (K # 0 => cut = entries[K].ts) /\ (K = 0 => cut = base)
      /\ base <= cut
    BY <1>0, <1>1 DEF Cut
<1>5. cut = 0 \/ (WindowSecs > 0 /\ cut + WindowSecs <= t)
    <2>1. CASE K = 0
        BY <1>2, <1>4, <2>1
    <2>2. CASE K # 0
        <3>1. K \in 1..n /\ IsExpired(entries[K], t, WindowSecs)
            BY <1>0, <1>1, <2>2 DEF Boundary, n
        <3> QED  BY <1>4, <2>2, <3>1 DEF IsExpired
    <2> QED  BY <2>1, <2>2
<1>6. \A i \in 0..(n - K) : Cut(es, cut, i) = Cut(entries, base, K + i)
    <2> SUFFICES ASSUME NEW i \in 0..(n - K) PROVE Cut(es, cut, i) = Cut(entries, base, K + i)
        OBVIOUS
    <2>1. CASE i = 0
        <3>1. K + i = K
            BY <1>0, <2>1
        <3> QED  BY <2>1, <3>1 DEF Cut
    <2>2. CASE i # 0
        <3>1. i \in 1..(n - K) /\ K + i # 0
            BY <1>0, <1>1, <2>2
        <3> QED  BY <1>3, <2>2, <3>1 DEF Cut
    <2> QED  BY <2>1, <2>2
<1> HIDE DEF cut
<1>7. Chronological(es)
    <2> SUFFICES ASSUME NEW i \in 1..Len(es), NEW j \in 1..Len(es), i < j
                 PROVE  es[i].ts < es[j].ts
        BY DEF Chronological
    <2>1. /\ i \in 1..(n - K) /\ j \in 1..(n - K) /\ K + i \in 1..n /\ K + j \in 1..n
          /\ K + i < K + j
        BY <1>0, <1>1, <1>3
    <2> QED  BY <1>2, <1>3, <2>1
<1>8. ASSUME NEW i \in 1..Len(es)
      PROVE  /\ cut < es[i].ts /\ es[i].ts <= t
             /\ s[es[i].ts] > 0
             /\ es[i].amount = c[es[i].ts] - c[Cut(es, cut, i - 1)]
             /\ ~ m => c[es[i].ts - 1] = c[Cut(es, cut, i - 1)]
    <2>1. i \in 1..(n - K) /\ K + i \in 1..n /\ i - 1 \in 0..(n - K) /\ (K + i) - 1 = K + (i - 1)
        BY <1>0, <1>1, <1>3
    <2>2. es[i] = entries[K + i] /\ Cut(es, cut, i - 1) = Cut(entries, base, (K + i) - 1)
        BY <1>3, <1>6, <2>1
    <2>3. cut < entries[K + i].ts
        <3>1. CASE K = 0
            BY <1>2, <1>4, <2>1, <3>1
        <3>2. CASE K # 0
            <4>1. K \in 1..n /\ K < K + i
                BY <1>0, <1>1, <2>1, <3>2, SMTT(30)
            <4> QED  BY <1>2, <1>4, <2>1, <3>2, <4>1
        <3> QED  BY <3>1, <3>2
    <2> QED  BY <1>2, <2>1, <2>2, <2>3
<1>9. c[t] = c[Cut(es, cut, Len(es))]
    <2>1. n - K \in 0..(n - K) /\ K + (n - K) = n
        BY <1>0, <1>1
    <2> QED  BY <1>2, <1>3, <1>6, <2>1
<1>10. c[t] - c[cut] <= I128_MAX
    <2>1. c[base] <= c[cut] /\ c[cut] \in Nat /\ c[base] \in Nat /\ c[t] \in Nat
        BY <1>0, <1>1, <1>4 DEF IsCumulated
    <2>2. c[t] - c[cut] <= c[t] - c[base]
        BY <2>1
    <2> QED  BY <1>0, <1>2, <2>1, <2>2
<1>11. Accounted(c[t] - c[cut], es, c, s, t, m, cut)
    BY <1>0, <1>3, <1>4, <1>5, <1>7, <1>8, <1>9, <1>10 DEF Accounted
<1> QED  BY <1>11 DEF cut, es, n

(* What a pruned ledger is at second t: its entries are live. *)
PrunedTo(l, entries, c, s, t, m, base) ==
    /\ l = [total |-> c[t] - c[base], entries |-> entries]
    /\ Accounted(c[t] - c[base], entries, c, s, t, m, base)
    /\ WindowSecs > 0 => \A i \in 1..Len(entries) : ~ IsExpired(entries[i], t, WindowSecs)

(* Pruning keeps the account, from the last expired entry on. *)
LEMMA PruneAccounted ==
    ASSUME NEW total, NEW entries, NEW c, NEW s, NEW t, NEW m, NEW base,
           Accounted(total, entries, c, s, t, m, base),
           NEW l, l = [total |-> total, entries |-> entries]
    PROVE  /\ \E es, cut : /\ PrunedTo(prune_entries(l, t, WindowSecs), es, c, s, t, m, cut)
                           /\ Len(es) <= Len(entries)
           /\ prune_protocol_call_entries(l, t, WindowSecs) = prune_entries(l, t, WindowSecs)
           /\ WindowSecs > 0 =>
                  \E K \in 0..Len(entries) :
                      /\ prune_entries(l, t, WindowSecs).entries
                             = SubSeq(entries, K + 1, Len(entries))
                      /\ Boundary(entries, t, WindowSecs, K)
<1>0. WindowSecs \in Nat /\ I128_MAX \in Nat /\ t \in Nat /\ entries \in Seq(Entry)
      /\ Chronological(entries) /\ total = c[t] - c[base]
    BY SpendWindowBounds, WindowBounds DEF Accounted
<1>1. CASE WindowSecs = 0
    <2>1. prune_entries(l, t, WindowSecs) = l /\ prune_protocol_call_entries(l, t, WindowSecs) = l
        BY <1>1 DEF prune_entries, prune_protocol_call_entries
    <2>2. PrunedTo(l, entries, c, s, t, m, base)
        BY <1>0, <1>1 DEF PrunedTo
    <2>3. Len(entries) <= Len(entries)
        BY <1>0, LenProperties
    <2> QED  BY <1>1, <2>1, <2>2, <2>3
<1>2. CASE WindowSecs # 0
    <2>1. PICK K \in 0..Len(entries) : Boundary(entries, t, WindowSecs, K)
        BY <1>0, BoundaryExists
    <2> DEFINE p == Sums(entries, c, base)
               n == Len(entries)
               cut == Cut(entries, base, K)
               es == SubSeq(entries, K + 1, n)
               rest == [total |-> p[n] - p[K], entries |-> es]
    <2>2. PartialSums(p, entries, I128_MAX) /\ total = p[n]
        BY AccountedSums
    <2>3. /\ prune_entries(l, t, WindowSecs) = rest
          /\ prune_protocol_call_entries(l, t, WindowSecs) = rest
        <3>1. Summed(l, entries, p, I128_MAX)
            BY <1>0, <2>2 DEF Summed
        <3> HIDE DEF p
        <3>2. /\ prune_entries(l, t, WindowSecs) = Rest(entries, p, K)
              /\ prune_protocol_call_entries(l, t, WindowSecs) = Rest(entries, p, K)
            BY <1>2, <2>1, <3>1, PruneSums
        <3> QED  BY <3>2 DEF Rest
    <2>4. p[n] - p[K] = c[t] - c[cut]
        <3>1. /\ Len(entries) \in Nat /\ base \in 0..MaxTime /\ t \in 0..MaxTime
              /\ \A i \in 0..Len(entries) : Cut(entries, base, i) \in 0..MaxTime
            BY CutType
        <3>2. c[base] \in Nat /\ c[cut] \in Nat /\ c[Cut(entries, base, n)] \in Nat
            BY <2>1, <3>1 DEF Accounted, IsCumulated
        <3>3. p[n] = c[Cut(entries, base, n)] - c[base] /\ p[K] = c[cut] - c[base]
            BY <2>1, <3>1 DEF Sums
        <3>4. c[t] = c[Cut(entries, base, n)]
            BY DEF Accounted
        <3> HIDE DEF p, cut, n
        <3> QED  BY <3>2, <3>3, <3>4
    <2>5. Accounted(c[t] - c[cut], es, c, s, t, m, cut)
        BY <1>0, <1>2, <2>1, RestAccounted
    <2>6. \A i \in 1..Len(es) : ~ IsExpired(es[i], t, WindowSecs)
        <3>1. n \in Nat /\ Len(es) = n - K /\ \A i \in 1..(n - K) : es[i] = entries[K + i]
            BY <1>0, <2>1
        <3> HIDE DEF es
        <3>2. \A i \in 1..(n - K) : K + i \in 1..n /\ ~ (K + i <= K)
            BY <2>1, <3>1
        <3>3. \A i \in 1..n : IsExpired(entries[i], t, WindowSecs) <=> i <= K
            BY <2>1 DEF Boundary
        <3> HIDE DEF n
        <3> QED  BY <3>1, <3>2, <3>3
    <2>9. Len(es) <= n
        <3>1. n \in Nat /\ Len(es) = n - K
            BY <1>0, <2>1
        <3> HIDE DEF es, n
        <3> QED  BY <2>1, <3>1 DEF n
    <2> HIDE DEF es, cut
    <2>7. PrunedTo(rest, es, c, s, t, m, cut)
        BY <2>4, <2>5, <2>6 DEF PrunedTo
    <2>8. rest.entries = es
        OBVIOUS
    <2> HIDE DEF rest
    <2> QED  BY <2>1, <2>3, <2>7, <2>8, <2>9 DEF es
<1> QED  BY <1>1, <1>2

-----------------------------------------------------------------------------
(* Admitting *)

(* A spend of a at second t takes the accumulated spends c to c2. *)
Grows(c, s, c2, s2, t, a) ==
    /\ a \in 1..I128_MAX
    /\ s \in [1..MaxTime -> Nat]
    /\ s2 = [s EXCEPT ![t] = @ + a]
    /\ IsCumulated(c2, s2)
    /\ \A u \in 0..(t - 1) : c2[u] = c[u]
    /\ c2[t] = c[t] + a

(* The facts about an accounted ledger that every admission uses. *)
LEMMA BeforeAdmit ==
    ASSUME NEW total, NEW entries, NEW c, NEW s, NEW t, NEW m, NEW base,
           Accounted(total, entries, c, s, t, m, base),
           NEW c2, NEW s2, NEW a, Grows(c, s, c2, s2, t, a)
    PROVE  /\ MaxTime \in Nat /\ I128_MAX \in Nat /\ WindowSecs \in Nat /\ a \in 1..I128_MAX
           /\ t \in 1..MaxTime /\ entries \in Seq(Entry) /\ Len(entries) \in Nat
           /\ base \in 0..t /\ base < t
           /\ \A i \in 1..Len(entries) :
                  /\ entries[i] \in Entry
                  /\ entries[i].ts \in Nat /\ entries[i].amount \in Nat \ {0}
                  /\ base < entries[i].ts /\ entries[i].ts <= t
                  /\ s2[entries[i].ts] > 0
           /\ \A i \in 0..Len(entries) :
                  /\ Cut(entries, base, i) \in 0..t
                  /\ c[Cut(entries, base, i)] \in Nat
                  /\ Cut(entries, base, i) # t => c2[Cut(entries, base, i)] = c[Cut(entries, base, i)]
           /\ c2[base] = c[base] /\ c[base] \in Nat /\ c[t] \in Nat
           /\ c2[t] = c[t] + a /\ s2[t] > 0
<1>0. /\ MaxTime \in Nat /\ I128_MAX \in Nat /\ WindowSecs \in Nat /\ a \in 1..I128_MAX
      /\ t \in 1..MaxTime /\ entries \in Seq(Entry) /\ IsCumulated(c, s)
    BY SpendWindowBounds, WindowBounds DEF Accounted, Grows
<1>1. /\ Len(entries) \in Nat
      /\ base \in 0..MaxTime /\ base < t
      /\ \A i \in 1..Len(entries) : entries[i] \in Entry
      /\ \A i \in 0..Len(entries) : Cut(entries, base, i) \in base..t
    BY CutType
<1>2. \A i \in 1..Len(entries) : /\ entries[i].ts \in Nat /\ entries[i].amount \in Nat \ {0}
    BY <1>1 DEF Entry
<1>3. \A i \in 1..Len(entries) : /\ base < entries[i].ts /\ entries[i].ts <= t
                                 /\ s[entries[i].ts] > 0
    BY DEF Accounted
<1>4. s2[t] > 0 /\ \A u \in 1..MaxTime : s[u] > 0 => s2[u] > 0
    BY <1>0 DEF Grows
<1>5. \A u \in 0..t : c[u] \in Nat /\ (u # t => c2[u] = c[u])
    <2> TAKE u \in 0..t
    <2>1. u \in 0..MaxTime /\ (u # t => u \in 0..(t - 1))
        BY <1>0
    <2>2. c[u] \in Nat
        BY <1>0, <2>1 DEF IsCumulated
    <2>3. u # t => c2[u] = c[u]
        BY <2>1 DEF Grows
    <2> QED  BY <2>2, <2>3
<1>6. \A i \in 1..Len(entries) : s2[entries[i].ts] > 0
    BY <1>0, <1>1, <1>2, <1>3, <1>4, SMTT(30)
<1>7. c2[t] = c[t] + a
    BY DEF Grows
<1>8. \A i \in 0..Len(entries) : Cut(entries, base, i) \in 0..t
    BY <1>0, <1>1
<1>9. base \in 0..t /\ base # t /\ t \in 0..t
    BY <1>0, <1>1
<1> QED  BY <1>0, <1>1, <1>2, <1>3, <1>4, <1>5, <1>6, <1>7, <1>8, <1>9

(* A second spend in the same second grows the trailing entry. *)
LEMMA CoalesceAccounted ==
    ASSUME NEW total, NEW entries, NEW c, NEW s, NEW t, NEW m, NEW base,
           Accounted(total, entries, c, s, t, m, base),
           NEW c2, NEW s2, NEW a, Grows(c, s, c2, s2, t, a),
           total + a <= I128_MAX, Len(entries) > 0, entries[Len(entries)].ts = t
    PROVE  LET es == [entries EXCEPT ![Len(entries)].amount = saturating_add(@, a, I128_MAX)]
           IN  Accounted(total + a, es, c2, s2, t, m, base) /\ Len(es) = Len(entries)
<1> DEFINE n == Len(entries)
           sum == saturating_add(entries[n].amount, a, I128_MAX)
           last == [entries[n] EXCEPT !.amount = sum]
           es == [entries EXCEPT ![n].amount = saturating_add(@, a, I128_MAX)]
<1>1. /\ MaxTime \in Nat /\ I128_MAX \in Nat /\ WindowSecs \in Nat /\ a \in 1..I128_MAX
      /\ t \in 1..MaxTime /\ entries \in Seq(Entry) /\ n \in Nat
      /\ base \in 0..t /\ base < t
      /\ c2[base] = c[base] /\ c[base] \in Nat /\ c[t] \in Nat
      /\ c2[t] = c[t] + a /\ s2[t] > 0
    BY BeforeAdmit
<1>2. \A i \in 1..n : /\ entries[i] \in Entry
                     /\ entries[i].ts \in Nat /\ entries[i].amount \in Nat \ {0}
                     /\ base < entries[i].ts /\ entries[i].ts <= t
                     /\ s2[entries[i].ts] > 0
    BY BeforeAdmit
<1>3. \A i \in 0..n :
          /\ Cut(entries, base, i) \in 0..t
          /\ c[Cut(entries, base, i)] \in Nat
          /\ Cut(entries, base, i) # t => c2[Cut(entries, base, i)] = c[Cut(entries, base, i)]
    BY BeforeAdmit
<1>4. /\ base = 0 \/ (WindowSecs > 0 /\ base + WindowSecs <= t)
      /\ \A i, j \in 1..n : i < j => entries[i].ts < entries[j].ts
      /\ \A i \in 1..n : entries[i].amount = c[entries[i].ts] - c[Cut(entries, base, i - 1)]
      /\ total = c[t] - c[base]
      /\ ~ m => \A i \in 1..n : c[entries[i].ts - 1] = c[Cut(entries, base, i - 1)]
    BY DEF Accounted, Chronological
<1>5. n \in 1..n /\ n - 1 \in 0..n /\ n \in 0..n /\ n # 0 /\ entries[n].ts = t
    BY <1>1
<1>a. \A i \in 0..n : Cut(entries, base, i) \in base..t /\ Cut(entries, base, i) \in 0..MaxTime
    BY CutType
<1>b. Len(entries) = n
    OBVIOUS
<1>n. n \in Nat /\ t \in Nat
    BY <1>1
<1> HIDE DEF n
<1>6. es = [entries EXCEPT ![n] = last]
    BY <1>5
<1>7. sum = entries[n].amount + a /\ sum \in Nat \ {0}
    <2>1. c[base] <= c[Cut(entries, base, n - 1)]
        <3>1. base <= Cut(entries, base, n - 1) /\ base \in 0..MaxTime
              /\ Cut(entries, base, n - 1) \in 0..MaxTime
            BY <1>1, <1>5, <1>a
        <3>2. IsCumulated(c, s)
            BY DEF Accounted
        <3> QED  BY <3>1, <3>2 DEF IsCumulated
    <2>2. entries[n].amount = c[t] - c[Cut(entries, base, n - 1)]
        BY <1>4, <1>5
    <2>6. c[Cut(entries, base, n - 1)] \in Nat
        BY <1>3, <1>5, Zenon
    <2>3. entries[n].amount <= total
        BY <1>1, <1>4, <2>1, <2>2, <2>6, SMTT(30)
    <2>4. entries[n].amount \in Nat \ {0} /\ total \in Int
        BY <1>1, <1>2, <1>4, <1>5
    <2>5. entries[n].amount + a <= I128_MAX
        BY <1>1, <2>3, <2>4
    <2>7. a \in Nat \ {0} /\ I128_MAX \in Nat
        BY <1>1
    <2> QED  BY <2>4, <2>5, <2>7 DEF saturating_add
<1>8. last \in Entry /\ last.ts = t /\ last.amount = sum
    <2> HIDE DEF sum
    <2>1. entries[n] \in Entry
        BY <1>2, <1>5, <1>n
    <2> QED  BY <1>5, <1>7, <2>1 DEF Entry
<1> HIDE DEF last, sum, es
<1>9. /\ es \in Seq(Entry) /\ Len(es) = n
      /\ es[n] = last /\ \A i \in 1..n : i # n => es[i] = entries[i]
    BY <1>1, <1>5, <1>6, <1>8, <1>b, ExceptSeq
<1>10. \A i \in 1..n : es[i].ts = entries[i].ts
    BY <1>5, <1>8, <1>9
<1>11. \A i \in 0..n : Cut(es, base, i) = Cut(entries, base, i)
    <2> TAKE i \in 0..n
    <2>1. i # 0 => i \in 1..n
        BY <1>1
    <2> QED  BY <1>10, <2>1 DEF Cut
<1>12. ASSUME NEW i \in 1..n
       PROVE  /\ es[i].amount = c2[es[i].ts] - c2[Cut(es, base, i - 1)]
              /\ ~ m => c2[es[i].ts - 1] = c2[Cut(es, base, i - 1)]
    <2>1. i - 1 \in 0..n /\ i \in 0..n
        BY <1>1
    <2>2. Cut(es, base, i - 1) = Cut(entries, base, i - 1) /\ es[i].ts = entries[i].ts
        BY <1>10, <1>11, <2>1
    <2>3. Cut(entries, base, i - 1) # t
        <3>1. CASE i - 1 = 0
            BY <1>1, <3>1 DEF Cut
        <3>2. CASE i - 1 # 0
            <4>1. i - 1 \in 1..n /\ i - 1 < i
                BY <1>1, <3>2
            <4>2. entries[i - 1].ts < entries[i].ts /\ entries[i].ts <= t
                  /\ entries[i].ts \in Nat /\ entries[i - 1].ts \in Nat
                BY <1>2, <1>4, <4>1
            <4> QED  BY <1>1, <3>2, <4>2 DEF Cut
        <3> QED  BY <3>1, <3>2
    <2>4. c2[Cut(entries, base, i - 1)] = c[Cut(entries, base, i - 1)]
          /\ c[Cut(entries, base, i - 1)] \in Nat
        BY <1>3, <2>1, <2>3, Zenon
    <2>8. /\ entries[i].amount = c[entries[i].ts] - c[Cut(entries, base, i - 1)]
          /\ ~ m => c[entries[i].ts - 1] = c[Cut(entries, base, i - 1)]
        BY <1>4
    <2>5. c2[entries[i].ts - 1] = c[entries[i].ts - 1]
        <3>1. entries[i].ts - 1 \in 0..(t - 1)
            <4>1. /\ entries[i].ts \in Nat /\ base < entries[i].ts /\ entries[i].ts <= t
                  /\ base \in Nat
                BY <1>1, <1>2
            <4> QED  BY <1>n, <4>1
        <3> QED  BY <3>1 DEF Grows
    <2>6. CASE i = n
        <3>1. es[i].ts = t /\ es[i].amount = entries[i].amount + a
            BY <1>5, <1>7, <1>8, <1>9, <2>6
        <3>2. c2[t] = c[t] + a /\ c[t] \in Nat /\ a \in Nat
            BY <1>1
        <3>3. entries[i].ts = t
            BY <1>5, <2>6
        <3>4. entries[i].amount + a = c2[t] - c2[Cut(entries, base, i - 1)]
            BY <2>4, <2>8, <3>2, <3>3
        <3> QED  BY <2>2, <2>4, <2>5, <2>8, <3>1, <3>3, <3>4
    <2>7. CASE i # n
        <3>1. entries[i].ts < t
            <4>1. i < n
                BY <1>1, <2>7
            <4> QED  BY <1>4, <1>5, <4>1
        <3>2. entries[i].ts \in 0..(t - 1)
            BY <1>1, <1>2, <3>1
        <3>3. c2[entries[i].ts] = c[entries[i].ts]
            BY <3>2 DEF Grows
        <3> QED  BY <1>9, <2>2, <2>4, <2>5, <2>7, <2>8, <3>3
    <2> QED  BY <2>6, <2>7
<1>13. c2[t] = c2[Cut(es, base, n)] /\ total + a = c2[t] - c2[base]
    <2>1. Cut(es, base, n) = t
        BY <1>5, <1>8, <1>9 DEF Cut
    <2> QED  BY <1>1, <1>4, <2>1
<1>14. Chronological(es) /\ IsCumulated(c2, s2)
    BY <1>4, <1>9, <1>10 DEF Chronological, Grows
<1>15. Accounted(total + a, es, c2, s2, t, m, base)
    <2>1. \A i \in 1..n : base < es[i].ts /\ es[i].ts <= t /\ s2[es[i].ts] > 0
        BY <1>2, <1>10
    <2> QED  BY <1>1, <1>4, <1>9, <1>12, <1>13, <1>14, <2>1 DEF Accounted
<1> QED  BY <1>9, <1>15 DEF es, n

(* Nothing was spent in a second that has no entry yet. *)
LEMMA QuietSecond ==
    ASSUME NEW total, NEW entries, NEW c, NEW s, NEW t, NEW m, NEW base,
           Accounted(total, entries, c, s, t, m, base),
           Cut(entries, base, Len(entries)) # t
    PROVE  c[t - 1] = c[t] /\ s[t] = 0
<1> DEFINE q == Cut(entries, base, Len(entries))
<1>1. MaxTime \in Nat /\ t \in 1..MaxTime /\ IsCumulated(c, s) /\ c[t] = c[q]
    BY SpendWindowBounds DEF Accounted
<1>2. Len(entries) \in 0..Len(entries) /\ q \in base..t /\ q \in 0..MaxTime /\ base \in 0..MaxTime
    BY CutType
<1>3. q # t
    OBVIOUS
<1> HIDE DEF q
<1>4. t - 1 \in 0..MaxTime /\ t \in 0..MaxTime /\ q <= t - 1
    BY <1>1, <1>2, <1>3
<1>5. c[q] <= c[t - 1] /\ c[t] = c[t - 1] + s[t] /\ c[t - 1] \in Nat /\ c[q] \in Nat
    BY <1>1, <1>2, <1>4 DEF IsCumulated
<1>6. s[t] \in Nat
    BY <1>1 DEF IsCumulated
<1> QED  BY <1>1, <1>5, <1>6

(* The first spend of a second gets an entry of its own. *)
LEMMA AppendAccounted ==
    ASSUME NEW total, NEW entries, NEW c, NEW s, NEW t, NEW m, NEW base,
           Accounted(total, entries, c, s, t, m, base),
           NEW c2, NEW s2, NEW a, Grows(c, s, c2, s2, t, a),
           total + a <= I128_MAX, Cut(entries, base, Len(entries)) # t
    PROVE  LET es == Append(entries, [ts |-> t, amount |-> a])
           IN  /\ Accounted(total + a, es, c2, s2, t, m, base)
               /\ Len(es) = Len(entries) + 1
<1> DEFINE n == Len(entries)
           new == [ts |-> t, amount |-> a]
           es == Append(entries, new)
<1>1. /\ MaxTime \in Nat /\ I128_MAX \in Nat /\ WindowSecs \in Nat /\ a \in 1..I128_MAX
      /\ t \in 1..MaxTime /\ entries \in Seq(Entry) /\ n \in Nat
      /\ base \in 0..t /\ base < t
      /\ c2[base] = c[base] /\ c[base] \in Nat /\ c[t] \in Nat
      /\ c2[t] = c[t] + a /\ s2[t] > 0
    BY BeforeAdmit
<1>2. \A i \in 1..n :
          /\ entries[i] \in Entry
          /\ entries[i].ts \in Nat /\ entries[i].amount \in Nat \ {0}
          /\ base < entries[i].ts /\ entries[i].ts <= t
          /\ s2[entries[i].ts] > 0
    BY BeforeAdmit
<1>3. \A i \in 0..n :
          /\ Cut(entries, base, i) \in 0..t
          /\ c[Cut(entries, base, i)] \in Nat
          /\ Cut(entries, base, i) # t => c2[Cut(entries, base, i)] = c[Cut(entries, base, i)]
    BY BeforeAdmit
<1>4. /\ base = 0 \/ (WindowSecs > 0 /\ base + WindowSecs <= t)
      /\ \A i, j \in 1..n : i < j => entries[i].ts < entries[j].ts
      /\ \A i \in 1..n : entries[i].amount = c[entries[i].ts] - c[Cut(entries, base, i - 1)]
      /\ total = c[t] - c[base] /\ c[t] = c[Cut(entries, base, n)] /\ Cut(entries, base, n) # t
      /\ ~ m => \A i \in 1..n : c[entries[i].ts - 1] = c[Cut(entries, base, i - 1)]
    BY DEF Accounted, Chronological
<1>5. /\ new \in Entry /\ new.ts = t /\ new.amount = a
      /\ n \in Nat /\ t \in Nat \ {0} /\ a \in Nat \ {0}
    BY <1>1 DEF Entry
<1>6. /\ es \in Seq(Entry) /\ Len(es) = n + 1
      /\ es[n + 1] = new /\ \A i \in 1..n : es[i] = entries[i]
    <2> HIDE DEF new
    <2> QED  BY <1>1, <1>5, AppendProperties
<1> HIDE DEF n, new, es
<1>7. ASSUME NEW i \in 1..n PROVE entries[i].ts < t
    <2>1. Cut(entries, base, n) = entries[n].ts /\ n \in 1..n
        BY <1>5 DEF Cut
    <2>2. i = n \/ entries[i].ts < entries[n].ts
        BY <1>4, <1>5, <2>1
    <2>3. entries[n].ts \in Nat /\ entries[n].ts <= t /\ entries[n].ts # t /\ entries[i].ts \in Nat
        BY <1>2, <1>4, <2>1
    <2> QED  BY <1>5, <2>2, <2>3
<1>8. \A i \in 0..n : Cut(es, base, i) = Cut(entries, base, i)
    <2> TAKE i \in 0..n
    <2>1. i # 0 => i \in 1..n
        BY <1>5
    <2> QED  BY <1>6, <2>1 DEF Cut
<1>9. \A i \in 0..n : /\ Cut(entries, base, i) # t
                      /\ c2[Cut(es, base, i)] = c[Cut(entries, base, i)]
    <2> TAKE i \in 0..n
    <2>1. Cut(entries, base, i) # t
        <3>1. CASE i = 0
            BY <1>1, <3>1 DEF Cut
        <3>2. CASE i # 0
            <4>1. i \in 1..n /\ Cut(entries, base, i) = entries[i].ts
                BY <1>5, <3>2 DEF Cut
            <4>2. entries[i].ts < t /\ entries[i].ts \in Nat
                BY <1>2, <1>7, <4>1
            <4> QED  BY <1>5, <4>1, <4>2
        <3> QED  BY <3>1, <3>2
    <2> QED  BY <1>3, <1>8, <2>1
<1>10. \A u \in 0..(t - 1) : c2[u] = c[u]
    BY DEF Grows
<1>11. c[t - 1] = c[t]
    <2>1. Cut(entries, base, Len(entries)) # t
        BY <1>4 DEF n
    <2> QED  BY <2>1, QuietSecond
<1>12. ASSUME NEW i \in 1..(n + 1)
       PROVE  /\ base < es[i].ts /\ es[i].ts <= t /\ s2[es[i].ts] > 0
              /\ es[i].amount = c2[es[i].ts] - c2[Cut(es, base, i - 1)]
              /\ ~ m => c2[es[i].ts - 1] = c2[Cut(es, base, i - 1)]
    <2>1. i - 1 \in 0..n /\ i \in Nat
        BY <1>5
    <2>2. c2[Cut(es, base, i - 1)] = c[Cut(entries, base, i - 1)]
        BY <1>9, <2>1, Zenon
    <2>3. CASE i = n + 1
        <3>1. es[i].ts = t /\ es[i].amount = a /\ i - 1 = n
            BY <1>5, <1>6, <2>3
        <3>2. c[Cut(entries, base, i - 1)] = c[t]
            BY <1>4, <3>1, Zenon
        <3>3. c2[t - 1] = c[t]
            BY <1>5, <1>10, <1>11
        <3>4. a = (c[t] + a) - c[t]
            BY <1>1, <1>5
        <3> QED  BY <1>1, <2>2, <3>1, <3>2, <3>3, <3>4
    <2>4. CASE i # n + 1
        <3>1. i \in 1..n
            BY <1>5, <2>4
        <3>2. es[i] = entries[i] /\ entries[i].ts < t /\ entries[i].ts \in Nat
              /\ base < entries[i].ts /\ s2[entries[i].ts] > 0
            BY <1>2, <1>6, <1>7, <3>1
        <3>3. entries[i].ts \in 0..(t - 1) /\ entries[i].ts - 1 \in 0..(t - 1)
              /\ entries[i].ts <= t
            BY <1>1, <1>5, <3>2, SMTT(30)
        <3>4. c2[entries[i].ts] = c[entries[i].ts] /\ c2[entries[i].ts - 1] = c[entries[i].ts - 1]
            BY <1>10, <3>3
        <3>5. /\ entries[i].amount = c[entries[i].ts] - c[Cut(entries, base, i - 1)]
              /\ ~ m => c[entries[i].ts - 1] = c[Cut(entries, base, i - 1)]
            BY <1>4, <3>1
        <3> QED  BY <2>2, <3>2, <3>3, <3>4, <3>5
    <2> QED  BY <2>3, <2>4
<1>13. c2[t] = c2[Cut(es, base, n + 1)] /\ total + a = c2[t] - c2[base]
    <2>1. Cut(es, base, n + 1) = t
        BY <1>5, <1>6 DEF Cut
    <2> QED  BY <1>1, <1>4, <2>1
<1>14. Chronological(es)
    <2> SUFFICES ASSUME NEW i \in 1..(n + 1), NEW j \in 1..(n + 1), i < j
                 PROVE  es[i].ts < es[j].ts
        BY <1>6 DEF Chronological
    <2>1. i \in 1..n /\ es[i] = entries[i]
        BY <1>5, <1>6
    <2>2. CASE j = n + 1
        BY <1>5, <1>6, <1>7, <2>1, <2>2
    <2>3. CASE j # n + 1
        <3>1. j \in 1..n /\ es[j] = entries[j]
            BY <1>5, <1>6, <2>3
        <3> QED  BY <1>4, <2>1, <3>1
    <2> QED  BY <2>2, <2>3
<1>15. Accounted(total + a, es, c2, s2, t, m, base)
    <2>1. IsCumulated(c2, s2)
        BY DEF Grows
    <2> QED  BY <1>1, <1>4, <1>6, <1>12, <1>13, <1>14, <2>1 DEF Accounted
<1> QED  BY <1>6, <1>15 DEF es, n, new

(* Merging the two oldest entries takes away a cut and nothing else. *)
LEMMA MergeAccounted ==
    ASSUME NEW total, NEW entries, NEW c, NEW s, NEW t, NEW m, NEW base,
           Accounted(total, entries, c, s, t, m, base), Len(entries) > 1
    PROVE  /\ Accounted(total, MergeOldest(entries, I128_MAX), c, s, t, TRUE, base)
           /\ Len(MergeOldest(entries, I128_MAX)) = Len(entries) - 1
<1> DEFINE n == Len(entries)
           sum == saturating_add(entries[1].amount, entries[2].amount, I128_MAX)
           first == [ts |-> entries[2].ts, amount |-> sum]
           tail == SubSeq(entries, 3, n)
           es == <<first>> \o tail
<1>1. /\ MaxTime \in Nat /\ I128_MAX \in Nat /\ WindowSecs \in Nat
      /\ t \in 1..MaxTime /\ entries \in Seq(Entry) /\ IsCumulated(c, s)
      /\ base \in 0..t
    BY SpendWindowBounds, WindowBounds DEF Accounted
<1>2. /\ n \in Nat /\ n > 1 /\ base \in 0..MaxTime /\ t \in 0..MaxTime /\ base < t
      /\ \A i \in 1..n : entries[i] \in Entry
      /\ \A i \in 0..n : Cut(entries, base, i) \in base..t /\ Cut(entries, base, i) \in 0..MaxTime
    BY CutType
<1>3. \A i \in 1..n : entries[i].ts \in Nat /\ entries[i].amount \in Nat \ {0}
    BY <1>2 DEF Entry
<1>4. /\ base = 0 \/ (WindowSecs > 0 /\ base + WindowSecs <= t)
      /\ \A i, j \in 1..n : i < j => entries[i].ts < entries[j].ts
      /\ \A i \in 1..n :
             /\ base < entries[i].ts /\ entries[i].ts <= t
             /\ s[entries[i].ts] > 0
             /\ entries[i].amount = c[entries[i].ts] - c[Cut(entries, base, i - 1)]
      /\ total = c[t] - c[base] /\ c[t] = c[Cut(entries, base, n)] /\ total <= I128_MAX
    BY DEF Accounted, Chronological
<1>5. /\ tail \in Seq(Entry) /\ Len(tail) = n - 2
      /\ \A i \in 1..(n - 2) : tail[i] = entries[i + 2]
    <2>1. \A i \in 3..n : entries[i] \in Entry
        BY <1>2
    <2>2. /\ tail \in Seq(Entry)
          /\ Len(tail) = IF 3 <= n THEN n - 3 + 1 ELSE 0
          /\ \A i \in 1..(n - 3 + 1) : tail[i] = entries[3 + i - 1]
        BY <1>2, <2>1, SubSeqProperties
    <2> HIDE DEF tail, n
    <2>3. Len(tail) = n - 2 /\ n - 3 + 1 = n - 2
        BY <1>2, <2>2
    <2>4. \A i \in 1..(n - 2) : 3 + i - 1 = i + 2
        OBVIOUS
    <2> QED  BY <2>2, <2>3, <2>4
<1> HIDE DEF n, tail
<1>6. /\ 1 \in 1..n /\ 2 \in 1..n /\ 1 - 1 = 0 /\ 2 - 1 = 1 /\ 0 \in 0..n /\ 1 \in 0..n /\ 2 \in 0..n
    BY <1>2
<1>7. /\ entries[1].amount = c[entries[1].ts] - c[base]
      /\ entries[2].amount = c[entries[2].ts] - c[entries[1].ts]
    <2>1. Cut(entries, base, 1 - 1) = base /\ Cut(entries, base, 2 - 1) = entries[1].ts
        BY <1>6 DEF Cut
    <2>2. /\ entries[1].amount = c[entries[1].ts] - c[Cut(entries, base, 1 - 1)]
          /\ entries[2].amount = c[entries[2].ts] - c[Cut(entries, base, 2 - 1)]
        BY <1>4, <1>6, Zenon
    <2> QED  BY <2>1, <2>2, Zenon
<1>8. sum = c[entries[2].ts] - c[base] /\ sum \in Nat \ {0}
    <2>1. /\ entries[1].ts \in 0..MaxTime /\ entries[2].ts \in 0..MaxTime /\ entries[2].ts <= t
        BY <1>1, <1>3, <1>4, <1>6
    <2>2. /\ c[entries[1].ts] \in Nat /\ c[entries[2].ts] \in Nat /\ c[base] \in Nat
          /\ c[t] \in Nat /\ c[entries[2].ts] <= c[t]
        BY <1>1, <1>2, <2>1 DEF IsCumulated
    <2>3. entries[1].amount \in Nat \ {0} /\ entries[2].amount \in Nat \ {0}
        BY <1>3, <1>6
    <2>4. /\ entries[1].amount + entries[2].amount = c[entries[2].ts] - c[base]
          /\ entries[1].amount + entries[2].amount <= I128_MAX
        <3>1. entries[1].amount + entries[2].amount = c[entries[2].ts] - c[base]
            BY <1>7, <2>2
        <3>2. c[t] - c[base] <= I128_MAX
            BY <1>4
        <3> QED  BY <1>1, <2>2, <3>1, <3>2
    <2> QED  BY <1>1, <2>3, <2>4 DEF saturating_add
<1> HIDE DEF sum
<1>9. first \in Entry /\ first.ts = entries[2].ts /\ first.amount = sum
    BY <1>3, <1>6, <1>8 DEF Entry
<1> HIDE DEF first
<1>10. /\ es \in Seq(Entry) /\ Len(es) = n - 1
       /\ es[1] = first /\ \A i \in 2..(n - 1) : es[i] = entries[i + 1]
    <2>1. <<first>> \in Seq(Entry) /\ Len(<<first>>) = 1 /\ <<first>>[1] = first
        BY <1>9
    <2>2. es \in Seq(Entry) /\ Len(es) = 1 + Len(tail) /\ es[1] = first
        BY <1>5, <2>1, ConcatProperties
    <2>3. ASSUME NEW i \in 2..(n - 1) PROVE es[i] = entries[i + 1]
        <3>1. /\ i \in 1..(Len(<<first>>) + Len(tail)) /\ ~ (i <= Len(<<first>>))
              /\ i - 1 \in 1..(n - 2) /\ i - Len(<<first>>) = i - 1 /\ (i - 1) + 2 = i + 1
            BY <1>2, <1>5, <2>1
        <3>2. es[i] = tail[i - 1]
            BY <1>5, <2>1, <3>1, ConcatProperties
        <3>3. tail[i - 1] = entries[(i - 1) + 2]
            BY <1>5, <3>1, Zenon
        <3> QED  BY <3>1, <3>2, <3>3, Zenon
    <2> QED  BY <1>2, <1>5, <2>2, <2>3
<1>11. MergeOldest(entries, I128_MAX) = es
    BY DEF MergeOldest, es, first, tail, sum, n
<1> HIDE DEF es
<1>12. ASSUME NEW i \in 1..(n - 1)
       PROVE  i + 1 \in 1..n /\ es[i].ts = entries[i + 1].ts
              /\ (i # 1 => es[i] = entries[i + 1])
    <2>1. i + 1 \in 1..n /\ (i # 1 => i \in 2..(n - 1)) /\ (i = 1 => i + 1 = 2)
        BY <1>2
    <2> QED  BY <1>9, <1>10, <2>1
<1>13. ASSUME NEW i \in 1..(n - 1)
       PROVE  /\ base < es[i].ts /\ es[i].ts <= t /\ s[es[i].ts] > 0
              /\ es[i].amount = c[es[i].ts] - c[Cut(es, base, i - 1)]
    <2>1. i + 1 \in 1..n /\ es[i].ts = entries[i + 1].ts
        BY <1>12
    <2>2. base < es[i].ts /\ es[i].ts <= t /\ s[es[i].ts] > 0
        BY <1>4, <2>1
    <2>3. CASE i = 1
        <3>1. Cut(es, base, i - 1) = base
            BY <2>3 DEF Cut
        <3> QED  BY <1>8, <1>9, <1>10, <2>2, <2>3, <3>1
    <2>4. CASE i # 1
        <3>1. i - 1 \in 1..(n - 1) /\ i - 1 # 0 /\ (i - 1) + 1 = i /\ (i + 1) - 1 = i /\ i # 0
            BY <1>2, <2>4
        <3>2. es[i - 1].ts = entries[i].ts
            BY <1>12, <3>1
        <3>3. Cut(es, base, i - 1) = entries[i].ts /\ Cut(entries, base, (i + 1) - 1) = entries[i].ts
            BY <3>1, <3>2 DEF Cut
        <3>4. entries[i + 1].amount = c[entries[i + 1].ts] - c[Cut(entries, base, (i + 1) - 1)]
            BY <1>4, <2>1, Zenon
        <3>5. es[i] = entries[i + 1]
            BY <1>12, <2>4
        <3> QED  BY <2>2, <3>3, <3>4, <3>5
    <2> QED  BY <2>3, <2>4
<1>14. Chronological(es)
    <2> SUFFICES ASSUME NEW i \in 1..(n - 1), NEW j \in 1..(n - 1), i < j
                 PROVE  es[i].ts < es[j].ts
        BY <1>10 DEF Chronological
    <2>1. i + 1 \in 1..n /\ j + 1 \in 1..n /\ i + 1 < j + 1
        BY <1>2
    <2> QED  BY <1>4, <1>12, <2>1
<1>15. c[t] = c[Cut(es, base, n - 1)]
    <2>1. n - 1 \in 1..(n - 1) /\ (n - 1) + 1 = n /\ n - 1 # 0 /\ n # 0
        BY <1>2
    <2>2. es[n - 1].ts = entries[n].ts
        BY <1>12, <2>1
    <2>3. Cut(es, base, n - 1) = Cut(entries, base, n)
        BY <2>1, <2>2 DEF Cut
    <2> QED  BY <1>4, <2>3, Zenon
<1>16. Accounted(total, es, c, s, t, TRUE, base)
    BY <1>1, <1>4, <1>10, <1>13, <1>14, <1>15 DEF Accounted
<1> QED  BY <1>10, <1>11, <1>16 DEF n

(* However a spend is admitted, the ledger accounts for it and stays       *)
(* within its bound.                                                       *)
LEMMA AdmitAccounted ==
    ASSUME NEW total, NEW entries, NEW c, NEW s, NEW t, NEW m \in BOOLEAN, NEW base,
           Accounted(total, entries, c, s, t, m, base),
           NEW c2, NEW s2, NEW a, Grows(c, s, c2, s2, t, a),
           total + a <= I128_MAX, Len(entries) <= MAX_WINDOW_ENTRIES,
           NEW m2, m2 = (m \/ (s[t] = 0 /\ Len(entries) = MAX_WINDOW_ENTRIES))
    PROVE  LET es == AdmitEntry(entries, t, a, I128_MAX)
           IN  /\ Accounted(total + a, es, c2, s2, t, m2, base)
               /\ Len(es) <= MAX_WINDOW_ENTRIES
<1> DEFINE n == Len(entries)
           es == AdmitEntry(entries, t, a, I128_MAX)
           grown == Append(entries, [ts |-> t, amount |-> a])
           same == [entries EXCEPT ![n].amount = saturating_add(@, a, I128_MAX)]
<1>1. n \in Nat /\ base < t /\ n <= MAX_WINDOW_ENTRIES /\ MAX_WINDOW_ENTRIES \in Nat \ {0}
      /\ base \in 0..MaxTime
    BY CutType, WindowBounds
<1>2. \A l, x : Accounted(l, x, c2, s2, t, m, base) => Accounted(l, x, c2, s2, t, m2, base)
    BY DEF Accounted
<1>3. CASE n > 0 /\ entries[n].ts = t
    <2>1. es = same
        BY <1>3 DEF AdmitEntry
    <2>2. Accounted(total + a, same, c2, s2, t, m, base) /\ Len(same) = n
        BY <1>3, CoalesceAccounted
    <2> HIDE DEF es, same, n
    <2> QED  BY <1>1, <1>2, <2>1, <2>2 DEF es
<1>4. CASE ~ (n > 0 /\ entries[n].ts = t)
    <2>1. Cut(entries, base, n) # t
        BY <1>1, <1>4, SpendWindowBounds DEF Cut, Accounted
    <2>2. Accounted(total + a, grown, c2, s2, t, m, base) /\ Len(grown) = n + 1
        BY <2>1, AppendAccounted
    <2>3. es = IF Len(grown) > MAX_WINDOW_ENTRIES THEN MergeOldest(grown, I128_MAX) ELSE grown
        BY <1>4, Zenon DEF AdmitEntry
    <2>4. s[t] = 0
        BY <2>1, QuietSecond
    <2> HIDE DEF es, grown, n
    <2>5. CASE Len(grown) > MAX_WINDOW_ENTRIES
        <3>1. n = MAX_WINDOW_ENTRIES /\ Len(grown) > 1
            BY <1>1, <2>2, <2>5
        <3>2. /\ Accounted(total + a, MergeOldest(grown, I128_MAX), c2, s2, t, TRUE, base)
              /\ Len(MergeOldest(grown, I128_MAX)) = Len(grown) - 1
            BY <2>2, <3>1, MergeAccounted
        <3>3. m2 = TRUE
            BY <2>4, <3>1 DEF n
        <3>4. es = MergeOldest(grown, I128_MAX) /\ Len(es) <= MAX_WINDOW_ENTRIES
            BY <1>1, <2>2, <2>3, <2>5, <3>1, <3>2
        <3>5. Accounted(total + a, es, c2, s2, t, m2, base)
            BY <3>2, <3>3, <3>4, Zenon
        <3> QED  BY <3>4, <3>5 DEF es
    <2>6. CASE ~ (Len(grown) > MAX_WINDOW_ENTRIES)
        <3>1. es = grown /\ Len(grown) <= MAX_WINDOW_ENTRIES
            BY <1>1, <2>2, <2>3, <2>6
        <3> QED  BY <1>2, <2>2, <3>1 DEF es
    <2> QED  BY <2>5, <2>6
<1> QED  BY <1>3, <1>4

-----------------------------------------------------------------------------
(* The steps *)

(* An empty ledger accounts for no spends. *)
LEMMA InitIInv == Init => IInv
<1> SUFFICES ASSUME Init PROVE IInv
    OBVIOUS
<1> DEFINE c == Cumulated(spent)
<1>1. /\ MaxTime \in Nat \ {0} /\ WindowSecs \in Nat /\ MAX_WINDOW_ENTRIES \in Nat
      /\ I128_MAX \in Nat
    BY SpendWindowBounds, WindowBounds
<1>2. now = 1 /\ now \in 1..MaxTime /\ 0 \in 0..now
    BY <1>1 DEF Init
<1>3. spent \in [1..MaxTime -> Nat] /\ spent[1] = 0 /\ \A t \in 1..MaxTime : spent[t] = 0
    BY <1>1 DEF Init
<1>4. /\ ledger = EmptyLedger /\ ledger.total = 0 /\ ledger.entries = << >>
      /\ merged \in BOOLEAN /\ Len(ledger.entries) = 0
      /\ ledger = [total |-> ledger.total, entries |-> ledger.entries]
    BY DEF Init, EmptyLedger
<1>5. IsCumulated(c, spent)
    BY <1>3, CumulatedSums
<1> HIDE DEF c
<1>6. c[1] = c[0] /\ c[0] \in Nat
    <2>1. 1 \in 1..MaxTime /\ 1 - 1 = 0 /\ 0 \in 0..MaxTime
        BY <1>1
    <2>2. c[1] = c[1 - 1] + spent[1] /\ c[0] \in Nat
        BY <1>5, <2>1 DEF IsCumulated
    <2> QED  BY <1>3, <2>1, <2>2
<1>7. Accounted(0, << >>, c, spent, 1, merged, 0)
    <2>1. << >> \in Seq(Entry) /\ Len(<< >>) = 0 /\ Chronological(<< >>)
        BY EmptySeq DEF Chronological
    <2>2. Cut(<< >>, 0, Len(<< >>)) = 0
        BY <2>1 DEF Cut
    <2> QED  BY <1>1, <1>5, <1>6, <2>1, <2>2 DEF Accounted
<1> QED  BY <1>1, <1>2, <1>3, <1>4, <1>7 DEF IInv, c

(* Time alone changes nothing: no second after `now` has been accounted.   *)
LEMMA TickAccounted ==
    ASSUME NEW total, NEW entries, NEW c, NEW s, NEW t, NEW m, NEW base,
           Accounted(total, entries, c, s, t, m, base),
           t + 1 <= MaxTime, s[t + 1] = 0
    PROVE  Accounted(total, entries, c, s, t + 1, m, base)
<1>1. /\ MaxTime \in Nat /\ WindowSecs \in Nat /\ t \in 1..MaxTime /\ IsCumulated(c, s)
      /\ base \in 0..t
    BY SpendWindowBounds DEF Accounted
<1>2. t + 1 \in 1..MaxTime /\ (t + 1) - 1 = t /\ base \in 0..(t + 1) /\ t \in 0..MaxTime
    BY <1>1
<1>3. c[t + 1] = c[t]
    <2>1. c[t + 1] = c[(t + 1) - 1] + s[t + 1] /\ c[t] \in Nat
        BY <1>1, <1>2 DEF IsCumulated
    <2> QED  BY <1>2, <2>1
<1>4. /\ Len(entries) \in Nat /\ \A i \in 1..Len(entries) : entries[i] \in Entry
    BY CutType
<1>5. \A i \in 1..Len(entries) : entries[i].ts <= t + 1
    BY <1>1, <1>4 DEF Accounted, Entry
<1>6. base = 0 \/ (WindowSecs > 0 /\ base + WindowSecs <= t + 1)
    BY <1>1 DEF Accounted
<1> QED  BY <1>1, <1>2, <1>3, <1>5, <1>6 DEF Accounted

(* Time alone disturbs nothing. *)
LEMMA TickIInv == IInv /\ Tick => IInv'
<1> SUFFICES ASSUME IInv, Tick PROVE IInv'
    OBVIOUS
<1> DEFINE c == Cumulated(spent)
<1>1. /\ now < MaxTime /\ now' = now + 1 /\ ledger' = ledger /\ spent' = spent /\ merged' = merged
    BY DEF Tick
<1>2. MaxTime \in Nat /\ now \in 1..MaxTime /\ spent \in [1..MaxTime -> Nat]
    BY SpendWindowBounds DEF IInv
<1>3. PICK base \in 0..now :
          Accounted(ledger.total, ledger.entries, c, spent, now, merged, base)
    BY DEF IInv
<1>4. now + 1 <= MaxTime /\ now + 1 \in 1..MaxTime /\ spent[now + 1] = 0 /\ base \in 0..(now + 1)
    BY <1>1, <1>2 DEF IInv
<1> HIDE DEF c
<1>5. Accounted(ledger.total, ledger.entries, c, spent, now + 1, merged, base)
    BY <1>3, <1>4, TickAccounted
<1>6. \A t \in 1..MaxTime : t > now + 1 => spent[t] = 0
    BY <1>2 DEF IInv
<1>7. c = Cumulated(spent')
    BY <1>1 DEF c
<1> QED  BY <1>1, <1>2, <1>4, <1>5, <1>6, <1>7 DEF IInv, c

(* Every state's pruned ledger. *)
LEMMA IInvPruned ==
    ASSUME IInv
    PROVE  \E es, cut : /\ PrunedTo(Pruned, es, Cumulated(spent), spent, now, merged, cut)
                        /\ Len(es) <= MAX_WINDOW_ENTRIES
<1>1. PICK base \in 0..now : Accounted(ledger.total, ledger.entries, Cumulated(spent), spent,
                                       now, merged, base)
    BY DEF IInv
<1>2. PICK es, cut : /\ PrunedTo(Pruned, es, Cumulated(spent), spent, now, merged, cut)
                     /\ Len(es) <= Len(ledger.entries)
    BY <1>1, PruneAccounted DEF IInv, Pruned
<1>3. /\ Len(ledger.entries) \in Nat /\ Len(es) \in Nat
      /\ Len(ledger.entries) <= MAX_WINDOW_ENTRIES /\ MAX_WINDOW_ENTRIES \in Nat
    BY <1>1, <1>2, CutType, WindowBounds DEF IInv, PrunedTo
<1> QED  BY <1>2, <1>3

(* Storing the pruned ledger keeps the account. *)
LEMMA EvaluateIInv == IInv /\ Evaluate => IInv'
<1> SUFFICES ASSUME IInv, Evaluate PROVE IInv'
    OBVIOUS
<1> DEFINE c == Cumulated(spent)
<1>1. ledger' = Pruned /\ now' = now /\ spent' = spent /\ merged' = merged
    BY DEF Evaluate
<1>2. PICK es, cut : /\ PrunedTo(Pruned, es, c, spent, now, merged, cut)
                     /\ Len(es) <= MAX_WINDOW_ENTRIES
    BY IInvPruned
<1>3. /\ Pruned.total = c[now] - c[cut] /\ Pruned.entries = es
      /\ Pruned = [total |-> Pruned.total, entries |-> Pruned.entries]
      /\ Accounted(c[now] - c[cut], es, c, spent, now, merged, cut)
    BY <1>2 DEF PrunedTo
<1>4. cut \in 0..now
    BY <1>3 DEF Accounted
<1>5. c = Cumulated(spent')
    BY <1>1
<1> HIDE DEF c
<1> QED  BY <1>1, <1>2, <1>3, <1>4, <1>5 DEF IInv

(* A store and load keeps the account. *)
LEMMA ReloadIInv == IInv /\ Reload => IInv'
<1> SUFFICES ASSUME IInv, Reload PROVE IInv'
    OBVIOUS
<1>1. PICK base \in 0..now : Accounted(ledger.total, ledger.entries, Cumulated(spent), spent,
                                       now, merged, base)
    BY DEF IInv
<1>2. ledger' = [total |-> ledger.total, entries |-> ledger.entries]
    BY <1>1, ReloadSame DEF Reload
<1>3. ledger' = ledger /\ now' = now /\ spent' = spent /\ merged' = merged
    BY <1>2 DEF IInv, Reload
<1> QED  BY <1>3 DEF IInv

(* A spend is accounted for, coalesced, appended or with a merge. *)
LEMMA SpendIInv == ASSUME NEW a \in Amounts PROVE IInv /\ Spend(a) => IInv'
<1> SUFFICES ASSUME IInv, Spend(a) PROVE IInv'
    OBVIOUS
<1> DEFINE c == Cumulated(spent)
           c2 == Cumulated(spent')
<1>1. /\ Pruned.total + a <= I128_MAX
      /\ ledger' = admit_to_ledger(Pruned, now, a, I128_MAX)
      /\ spent' = [spent EXCEPT ![now] = @ + a]
      /\ merged' = (merged \/ (spent[now] = 0 /\ Len(Pruned.entries) = MAX_WINDOW_ENTRIES))
      /\ now' = now
    BY DEF Spend
<1>2. /\ now \in 1..MaxTime /\ spent \in [1..MaxTime -> Nat] /\ merged \in BOOLEAN
      /\ MaxTime \in Nat /\ I128_MAX \in Nat /\ a \in 1..I128_MAX /\ a \in Nat
      /\ \A t \in 1..MaxTime : t > now => spent[t] = 0
    BY SpendWindowBounds, WindowBounds DEF IInv
<1>3. /\ spent' \in [1..MaxTime -> Nat]
      /\ \A u \in 0..(now - 1) : c2[u] = c[u]
      /\ c2[now] = c[now] + a
    <2>1. spent' = After(spent, now, a)
        BY <1>1 DEF After
    <2>2. /\ After(spent, now, a) \in [1..MaxTime -> Nat]
          /\ \A u \in 0..(now - 1) : Cumulated(After(spent, now, a))[u] = Cumulated(spent)[u]
          /\ Cumulated(After(spent, now, a))[now] = Cumulated(spent)[now] + a
        BY <1>2, CumulatedAfter
    <2> QED  BY <2>1, <2>2
<1>4. IsCumulated(c2, spent')
    BY <1>3, CumulatedSums
<1>5. Grows(c, spent, c2, spent', now, a)
    BY <1>1, <1>2, <1>3, <1>4 DEF Grows
<1>6. PICK es, cut : /\ PrunedTo(Pruned, es, c, spent, now, merged, cut)
                     /\ Len(es) <= MAX_WINDOW_ENTRIES
    BY IInvPruned
<1> HIDE DEF c, c2
<1> DEFINE total == c[now] - c[cut]
           new == AdmitEntry(es, now, a, I128_MAX)
<1>7. /\ Pruned.total = total /\ Pruned.entries = es
      /\ Accounted(total, es, c, spent, now, merged, cut)
    BY <1>6 DEF PrunedTo
<1>8. total \in Int /\ cut \in 0..now
    <2>1. total \in 0..I128_MAX
        BY <1>7, AccountedSums
    <2> QED  BY <1>2, <1>7, <2>1 DEF Accounted
<1>9. Accounted(total + a, new, c2, spent', now, merged', cut) /\ Len(new) <= MAX_WINDOW_ENTRIES
    <2> HIDE DEF total
    <2>1. total + a <= I128_MAX
        BY <1>1, <1>7
    <2>2. merged' = (merged \/ (spent[now] = 0 /\ Len(es) = MAX_WINDOW_ENTRIES))
        BY <1>1, <1>7
    <2> QED  BY <1>2, <1>5, <1>6, <1>7, <2>1, <2>2, AdmitAccounted
<1> HIDE DEF new
<1>10. ledger' = [total |-> total + a, entries |-> new]
    <2>1. ledger' = [total   |-> saturating_add(Pruned.total, a, I128_MAX),
                     entries |-> AdmitEntry(Pruned.entries, now, a, I128_MAX)]
        BY <1>1 DEF admit_to_ledger
    <2>2. saturating_add(Pruned.total, a, I128_MAX) = total + a
        <3> HIDE DEF total
        <3> QED  BY <1>1, <1>2, <1>7, <1>8 DEF saturating_add
    <2> QED  BY <1>7, <2>1, <2>2 DEF new
<1> HIDE DEF total
<1>11. /\ ledger'.total = total + a /\ ledger'.entries = new
       /\ ledger' = [total |-> ledger'.total, entries |-> ledger'.entries]
    BY <1>10
<1>12. \A t \in 1..MaxTime : t > now => spent'[t] = 0
    BY <1>1, <1>2
<1>13. merged' \in BOOLEAN
    BY <1>1, <1>2, Zenon
<1>14. Accounted(ledger'.total, ledger'.entries, Cumulated(spent'), spent', now', merged', cut)
    BY <1>1, <1>9, <1>11 DEF c2
<1> QED  BY <1>1, <1>2, <1>3, <1>8, <1>9, <1>11, <1>12, <1>13, <1>14 DEF IInv

(* The rolling ledger always accounts for every spend after some second    *)
(* that has left the window.                                               *)
THEOREM LedgerInvariance == Spec => []IInv
<1>1. Init => IInv
    BY InitIInv
<1>2. IInv /\ [Next]_vars => IInv'
    <2> SUFFICES ASSUME IInv, [Next]_vars PROVE IInv'
        OBVIOUS
    <2>1. CASE Tick
        BY <2>1, TickIInv
    <2>2. ASSUME NEW a \in Amounts, Spend(a) PROVE IInv'
        BY <2>2, SpendIInv
    <2>3. CASE Evaluate
        BY <2>3, EvaluateIInv
    <2>4. CASE Reload
        BY <2>4, ReloadIInv
    <2>5. CASE UNCHANGED vars
        BY <2>5 DEF IInv, vars
    <2> QED  BY <2>1, <2>2, <2>3, <2>4, <2>5 DEF Next
<1> QED  BY <1>1, <1>2, PTL DEF Spec

-----------------------------------------------------------------------------
(* What the invariant says *)

(* The invariant gives the types. *)
LEMMA IInvTypeOK == IInv => TypeOK
<1> SUFFICES ASSUME IInv PROVE TypeOK
    OBVIOUS
<1> DEFINE c == Cumulated(spent)
           es == ledger.entries
           n == Len(es)
<1>1. PICK base \in 0..now : Accounted(ledger.total, es, c, spent, now, merged, base)
    BY DEF IInv
<1>2. MaxTime \in Nat /\ I128_MAX \in Nat /\ now \in 1..MaxTime
    BY SpendWindowBounds, WindowBounds DEF IInv
<1> DEFINE p == Sums(es, c, base)
<1>3. PartialSums(p, es, I128_MAX) /\ ledger.total \in 0..I128_MAX
    BY <1>1, AccountedSums
<1> HIDE DEF es, c, p
<1>4. n \in Nat /\ \A i \in 1..n : es[i] \in Entry
    BY <1>1, CutType
<1>5. ASSUME NEW i \in 1..n PROVE es[i] \in [ts : 1..MaxTime, amount : 1..I128_MAX]
    <2>1. es[i].ts \in 1..MaxTime
        <3>1. base < es[i].ts /\ es[i].ts <= now /\ es[i].ts \in Nat
            BY <1>1, <1>4 DEF Accounted, Entry
        <3> QED  BY <1>2, <3>1
    <2>2. es[i].amount \in 1..I128_MAX
        <3>1. i \in 0..n /\ i - 1 \in 0..n
            BY <1>4
        <3>2. p[i] \in 0..I128_MAX /\ p[i - 1] \in 0..I128_MAX /\ p[i] = p[i - 1] + es[i].amount
            BY <1>3, <3>1 DEF PartialSums
        <3>3. es[i].amount \in Nat \ {0}
            BY <1>4 DEF Entry
        <3> QED  BY <1>2, <3>2, <3>3
    <2>3. es[i] = [ts |-> es[i].ts, amount |-> es[i].amount]
        BY <1>4 DEF Entry
    <2> QED  BY <2>1, <2>2, <2>3
<1>6. es \in Seq([ts : 1..MaxTime, amount : 1..I128_MAX])
    <2>1. es \in [1..n -> [ts : 1..MaxTime, amount : 1..I128_MAX]]
        <3>1. es \in Seq(Entry)
            BY <1>1 DEF Accounted
        <3>2. es = [i \in 1..n |-> es[i]]
            BY <3>1, LenProperties
        <3> QED  BY <1>5, <3>2
    <2> DEFINE X == [ts : 1..MaxTime, amount : 1..I128_MAX]
    <2>2. n \in Nat /\ es \in [1..n -> X]
        BY <1>4, <2>1
    <2> HIDE DEF n, X
    <2>3. es \in Seq(X)
        BY <2>2, SeqDef
    <2> QED  BY <2>3 DEF X
<1> QED  BY <1>2, <1>3, <1>6 DEF TypeOK, IInv, es

(* The entry bound and the stored total: what storage gives back is the    *)
(* ledger.                                                                 *)
LEMMA IInvBounded == IInv => BoundedAndSummed
<1> SUFFICES ASSUME IInv PROVE BoundedAndSummed
    OBVIOUS
<1>1. PICK base \in 0..now : Accounted(ledger.total, ledger.entries, Cumulated(spent), spent,
                                       now, merged, base)
    BY DEF IInv
<1>2. ledger_from_entries(ledger.entries, I128_MAX)
          = [total |-> ledger.total, entries |-> ledger.entries]
    BY <1>1, ReloadSame
<1> QED  BY <1>2 DEF IInv, BoundedAndSummed

(* What pruning drops is what has expired. *)
LEMMA IInvExactPrune == IInv => PruneDropsExactlyExpired
<1> SUFFICES ASSUME IInv PROVE PruneDropsExactlyExpired
    OBVIOUS
<1>1. PICK base \in 0..now : Accounted(ledger.total, ledger.entries, Cumulated(spent), spent,
                                       now, merged, base)
    BY DEF IInv
<1>2. /\ prune_protocol_call_entries(ledger, now, WindowSecs) = Pruned
      /\ WindowSecs > 0 =>
             \E K \in 0..Len(ledger.entries) :
                 /\ Pruned.entries = SubSeq(ledger.entries, K + 1, Len(ledger.entries))
                 /\ Boundary(ledger.entries, now, WindowSecs, K)
    BY <1>1, PruneAccounted DEF IInv, Pruned
<1>3. Chronological(ledger.entries)
    BY <1>1 DEF Accounted
<1> QED  BY <1>2, <1>3 DEF PruneDropsExactlyExpired, Chronological, Boundary

(* The first second of the rolling window is the one after this. *)
Before == IF WindowSecs = 0 \/ now <= WindowSecs THEN 0 ELSE now - WindowSecs

(* The spend of a window is a difference of accumulated spends. *)
LEMMA RollingIsInterval ==
    ASSUME IInv
    PROVE  /\ Before \in 0..MaxTime /\ Before <= now
           /\ RollingSpend \in Nat
           /\ Cumulated(spent)[now] = Cumulated(spent)[Before] + RollingSpend
<1>1. /\ MaxTime \in Nat /\ WindowSecs \in Nat /\ now \in 1..MaxTime
      /\ spent \in [1..MaxTime -> Nat]
    BY SpendWindowBounds DEF IInv
<1>2. Before \in Nat /\ Before <= now /\ Before \in 0..MaxTime /\ now \in 0..MaxTime
    BY <1>1 DEF Before
<1>3. {t \in 1..now : WindowSecs = 0 \/ t + WindowSecs > now} = (Before + 1)..now
    BY <1>1 DEF Before
<1>4. RollingSpend = SumFunctionOnSet(spent, (Before + 1)..now)
    BY <1>3, Zenon DEF RollingSpend
<1> HIDE DEF Before
<1>5. \A u \in 1..now : spent[u] \in Nat
    BY <1>1
<1>6. SumFunctionOnSet(spent, 1..now)
          = SumFunctionOnSet(spent, 1..Before) + SumFunctionOnSet(spent, (Before + 1)..now)
    BY <1>1, <1>2, <1>5, SumInterval
<1>7. SumFunctionOnSet(spent, (Before + 1)..now) \in Nat
    <2>1. IsFiniteSet((Before + 1)..now)
        BY <1>1, <1>2, FS_Interval
    <2>2. \A u \in (Before + 1)..now : spent[u] \in Nat
        BY <1>1, <1>2
    <2> QED  BY <2>1, <2>2, SumRemove
<1> QED  BY <1>2, <1>4, <1>6, <1>7 DEF Cumulated

(* The cut of a pruned ledger is not inside the window, and below the      *)
(* entry bound nothing was spent between the cut and the window.           *)
LEMMA IInvCounts == IInv => NeverUnderCounts /\ ExactBelowBound
<1> SUFFICES ASSUME IInv PROVE NeverUnderCounts /\ ExactBelowBound
    OBVIOUS
<1> DEFINE c == Cumulated(spent)
<1>1. /\ MaxTime \in Nat /\ WindowSecs \in Nat /\ now \in 1..MaxTime
      /\ spent \in [1..MaxTime -> Nat]
    BY SpendWindowBounds DEF IInv
<1>2. PICK es, cut : PrunedTo(Pruned, es, c, spent, now, merged, cut)
    BY IInvPruned
<1>3. /\ Before \in 0..MaxTime /\ Before <= now
      /\ RollingSpend \in Nat /\ c[now] = c[Before] + RollingSpend
    BY RollingIsInterval
<1> HIDE DEF c
<1>4. /\ Pruned.total = c[now] - c[cut]
      /\ Accounted(c[now] - c[cut], es, c, spent, now, merged, cut)
      /\ IsCumulated(c, spent) /\ cut \in 0..now
      /\ cut = 0 \/ (WindowSecs > 0 /\ cut + WindowSecs <= now)
      /\ c[now] = c[Cut(es, cut, Len(es))]
    BY <1>2 DEF PrunedTo, Accounted
<1>5. cut \in 0..MaxTime /\ cut <= Before /\ now \in 0..MaxTime
    BY <1>1, <1>4 DEF Before
<1>6. c[cut] <= c[Before] /\ c[cut] \in Nat /\ c[Before] \in Nat /\ c[now] \in Nat
    BY <1>3, <1>4, <1>5 DEF IsCumulated
<1>7. NeverUnderCounts
    BY <1>3, <1>4, <1>6 DEF NeverUnderCounts
<1>8. ASSUME ~ merged PROVE c[Before] = c[cut]
    <2>1. Len(es) \in Nat /\ \A i \in 1..Len(es) : es[i] \in Entry
        BY <1>4, CutType
    <2>2. CASE Len(es) = 0
        <3>1. c[now] = c[cut]
            BY <1>4, <2>2 DEF Cut
        <3> QED  BY <1>3, <1>6, <3>1
    <2>3. CASE Len(es) # 0
        <3>1. 1 \in 1..Len(es) /\ es[1].ts \in Nat
            BY <2>1, <2>3 DEF Entry
        <3>2. Cut(es, cut, 1 - 1) = cut
            BY DEF Cut
        <3>3. /\ c[es[1].ts - 1] = c[Cut(es, cut, 1 - 1)]
              /\ cut < es[1].ts /\ es[1].ts <= now
            BY <1>4, <1>8, <3>1, Zenon DEF Accounted
        <3>4. WindowSecs > 0 => es[1].ts + WindowSecs > now
            BY <1>1, <1>2, <3>1 DEF PrunedTo, IsExpired
        <3>5. Before <= es[1].ts - 1 /\ es[1].ts - 1 \in 0..MaxTime
            BY <1>1, <1>4, <3>1, <3>3, <3>4, SMTT(30) DEF Before
        <3>6. c[Before] <= c[es[1].ts - 1]
            BY <1>3, <1>4, <3>5 DEF IsCumulated
        <3> QED  BY <1>6, <3>2, <3>3, <3>6
    <2> QED  BY <2>2, <2>3
<1>9. ExactBelowBound
    BY <1>3, <1>4, <1>6, <1>8 DEF ExactBelowBound
<1> QED  BY <1>7, <1>9

(* After a quiet window nothing is left to count. *)
LEMMA IInvQuiet == IInv => QuietWindowFreesBudget
<1> SUFFICES ASSUME IInv, WindowSecs > 0,
                    \A t \in 1..now : spent[t] > 0 => t + WindowSecs <= now
             PROVE  Pruned = EmptyLedger
    BY DEF QuietWindowFreesBudget
<1> DEFINE c == Cumulated(spent)
<1>1. MaxTime \in Nat /\ WindowSecs \in Nat /\ now \in 1..MaxTime
    BY SpendWindowBounds DEF IInv
<1>2. PICK es, cut : PrunedTo(Pruned, es, c, spent, now, merged, cut)
    BY IInvPruned
<1> HIDE DEF c
<1>3. /\ Pruned = [total |-> c[now] - c[cut], entries |-> es]
      /\ Accounted(c[now] - c[cut], es, c, spent, now, merged, cut)
    BY <1>2 DEF PrunedTo
<1>4. /\ es \in Seq(Entry) /\ IsCumulated(c, spent) /\ cut \in 0..now
      /\ c[now] = c[Cut(es, cut, Len(es))]
    BY <1>3 DEF Accounted
<1>5. Len(es) \in Nat /\ \A i \in 1..Len(es) : es[i] \in Entry
    BY <1>3, CutType
<1>6. Len(es) = 0
    <2> SUFFICES ASSUME Len(es) # 0 PROVE FALSE
        OBVIOUS
    <2>1. 1 \in 1..Len(es) /\ es[1].ts \in Nat
        BY <1>5 DEF Entry
    <2>2. cut < es[1].ts /\ es[1].ts <= now /\ spent[es[1].ts] > 0
        BY <1>3, <2>1 DEF Accounted
    <2>3. es[1].ts \in 1..now
        BY <1>1, <1>4, <2>1, <2>2
    <2>4. IsExpired(es[1], now, WindowSecs)
        BY <2>2, <2>3 DEF IsExpired
    <2> QED  BY <1>2, <2>1, <2>4 DEF PrunedTo
<1>7. es = << >>
    BY <1>4, <1>6, EmptySeq
<1>8. c[now] = c[cut] /\ c[cut] \in Nat
    <2>1. cut \in 0..MaxTime
        BY <1>1, <1>4
    <2> QED  BY <1>4, <1>6, <2>1 DEF Cut, IsCumulated
<1> QED  BY <1>3, <1>7, <1>8 DEF EmptyLedger

-----------------------------------------------------------------------------
(* The variables stay in their types; no total or entry overflows. *)
THEOREM LedgerTypeCorrect == Spec => []TypeOK
BY LedgerInvariance, IInvTypeOK, PTL

(* What a cap is compared with is never below what was really spent in the *)
(* window (window.rs: "can only over-count, never under-count").           *)
THEOREM LedgerNeverUnderCounts == Spec => []NeverUnderCounts
BY LedgerInvariance, IInvCounts, PTL

(* Until the entry bound is hit it is exactly what was spent. *)
THEOREM LedgerExactBelowBound == Spec => []ExactBelowBound
BY LedgerInvariance, IInvCounts, PTL

(* A window without spends frees the whole budget. *)
THEOREM QuietWindowFrees == Spec => []QuietWindowFreesBudget
BY LedgerInvariance, IInvQuiet, PTL

(* The binary search of prune_entries drops exactly the expired entries,   *)
(* as the call counter's linear search does.                               *)
THEOREM PruningIsExact == Spec => []PruneDropsExactlyExpired
BY LedgerInvariance, IInvExactPrune, PTL

(* Storage stays within MAX_WINDOW_ENTRIES and reloads to the same ledger. *)
THEOREM LedgerBoundedAndSummed == Spec => []BoundedAndSummed
BY LedgerInvariance, IInvBounded, PTL
=============================================================================
