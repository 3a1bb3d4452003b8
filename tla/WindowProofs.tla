---------------------------- MODULE WindowProofs ----------------------------
(***************************************************************************)
(* What the pure functions of Window compute, for ledgers of any length:   *)
(* loading adds the entries up, dropping a prefix takes its amounts off    *)
(* the total, and the binary and the linear search for the first live      *)
(* entry find the same boundary.                                           *)
(***************************************************************************)
EXTENDS Window, FoldLemmas

Entry == [ts : Nat, amount : Nat \ {0}]

LedgerOf(max) == [total : 0..max, entries : Seq(Entry)]

(* The running totals of a ledger's entries, none of which overflows. *)
PartialSums(p, entries, max) ==
    /\ p \in [0..Len(entries) -> 0..max]
    /\ p[0] = 0
    /\ \A k \in 1..Len(entries) : p[k] = p[k - 1] + entries[k].amount
    /\ \A k \in 0..Len(entries) : p[k] <= p[Len(entries)]

-----------------------------------------------------------------------------
(* Loading *)

(* What ledger_from_entries computes on the way. *)
LoadIter(entries, max) ==
    CHOOSE f : f = [T \in SUBSET (DOMAIN entries) |->
                       IF T = {} THEN EmptyLedger
                       ELSE LoadEntry(f[T \ {Max(T)}], entries[Max(T)], max)]

(* ledger_from_entries is the last of the ledgers LoadIter passes through. *)
LEMMA LoadIsIter ==
    ASSUME NEW entries, NEW max
    PROVE  ledger_from_entries(entries, max) = LoadIter(entries, max)[DOMAIN entries]
BY DEF ledger_from_entries, FoldLeft, MapThenFoldSet, LoadIter

(* Loading an entry makes a ledger of a ledger. *)
LEMMA LoadEntryType ==
    ASSUME NEW max \in Nat, NEW l \in LedgerOf(max), NEW e \in Entry
    PROVE  LoadEntry(l, e, max) \in LedgerOf(max)
<1>1. Append(l.entries, e) \in Seq(Entry)
    BY AppendProperties DEF LedgerOf
<1>2. saturating_add(l.total, e.amount, max) \in 0..max
    BY DEF saturating_add, LedgerOf, Entry
<1> QED  BY <1>1, <1>2 DEF LoadEntry, LedgerOf

(* Loading runs through the prefixes of the entries. *)
LEMMA LoadRun ==
    ASSUME NEW max \in Nat, NEW entries \in Seq(Entry)
    PROVE  \E r : /\ r[0] = EmptyLedger
                  /\ \A k \in 1..Len(entries) :
                         r[k] = LoadEntry(r[k - 1], entries[k], max)
                  /\ ledger_from_entries(entries, max) = r[Len(entries)]
<1> DEFINE n == Len(entries)
           A == LedgerOf(max)
           step == [k \in 1..n |-> [l \in A |-> LoadEntry(l, entries[k], max)]]
           Eq(f) == f = [T \in SUBSET (1..n) |->
                            IF T = {} THEN EmptyLedger
                            ELSE LoadEntry(f[T \ {Max(T)}], entries[Max(T)], max)]
           F == LoadIter(entries, max)
<1>1. n \in Nat /\ DOMAIN entries = 1..n /\ \A k \in 1..n : entries[k] \in Entry
    BY ElementOfSeq, LenProperties
<1>2. EmptyLedger \in A
    BY EmptySeq DEF EmptyLedger, LedgerOf
<1>3. step \in [1..n -> [A -> A]]
    BY <1>1, LoadEntryType
<1> HIDE DEF n, A
<1>4. PICK g : IsIter(g, 1..n, A, EmptyLedger, LastOf(n), step)
    <2> HIDE DEF step
    <2> QED  BY <1>1, <1>2, <1>3, LeftFold
<1>5. \A T \in SUBSET (1..n) : T # {} =>
          /\ LastOf(n)[T] = Max(T) /\ Max(T) \in 1..n /\ T \ {Max(T)} \in SUBSET (1..n)
    BY <1>1, MaxIn DEF LastOf
<1>6. \A T \in SUBSET (1..n) : T # {} => g[T] = LoadEntry(g[T \ {Max(T)}], entries[Max(T)], max)
    <2> SUFFICES ASSUME NEW T \in SUBSET (1..n), T # {}
                 PROVE  g[T] = LoadEntry(g[T \ {Max(T)}], entries[Max(T)], max)
        OBVIOUS
    <2>1. g[T] = step[Max(T)][g[T \ {Max(T)}]]
        <3> HIDE DEF step
        <3> QED  BY <1>4, <1>5 DEF IsIter
    <2>2. g[T \ {Max(T)}] \in A
        <3> HIDE DEF step
        <3> QED  BY <1>4, <1>5 DEF IsIter
    <2> QED  BY <1>5, <2>1, <2>2
<1> HIDE DEF step
<1>7. Eq(g)
    BY <1>4, <1>6 DEF IsIter
<1>8. Eq(F)
    BY <1>1, <1>7 DEF LoadIter
<1>9. F[{}] = EmptyLedger
      /\ \A T \in SUBSET (1..n) : T # {} => F[T] = LoadEntry(F[T \ {Max(T)}], entries[Max(T)], max)
    <2> HIDE DEF F
    <2> QED  BY <1>8
<1>10. ledger_from_entries(entries, max) = F[1..n]
    BY <1>1, LoadIsIter
<1> HIDE DEF F
<1> DEFINE r == [k \in 0..n |-> F[1..k]]
<1>11. r[0] = EmptyLedger /\ r[n] = F[1..n]
    <2>1. 1..0 = {}
        OBVIOUS
    <2> QED  BY <1>1, <1>9, <2>1
<1>12. ASSUME NEW k \in 1..n PROVE r[k] = LoadEntry(r[k - 1], entries[k], max)
    <2>1. /\ 1..k \in SUBSET (1..n) /\ 1..k # {} /\ Max(1..k) = k
          /\ (1..k) \ {Max(1..k)} = 1..(k - 1)
        <3>1. k \in Nat \ {0} /\ 1..k \in SUBSET (1..n) /\ 1..k # {}
            BY <1>1
        <3> QED  BY <3>1, MaxPrefix
    <2>2. F[1..k] = LoadEntry(F[(1..k) \ {Max(1..k)}], entries[Max(1..k)], max)
        BY <1>9, <2>1
    <2>3. F[1..k] = LoadEntry(F[1..(k - 1)], entries[k], max)
        BY <2>1, <2>2, Zenon
    <2> QED  BY <1>1, <2>3
<1> HIDE DEF r
<1> QED  BY <1>10, <1>11, <1>12 DEF n

(* Loaded entries stay as they are and their total is their sum. *)
LEMMA LoadSums ==
    ASSUME NEW max \in Nat, NEW entries \in Seq(Entry), NEW p, PartialSums(p, entries, max)
    PROVE  ledger_from_entries(entries, max) = [total |-> p[Len(entries)], entries |-> entries]
<1> DEFINE n == Len(entries)
<1>1. n \in Nat /\ \A k \in 1..n : entries[k] \in Entry
    BY ElementOfSeq, LenProperties
<1>2. PICK r : /\ r[0] = EmptyLedger
               /\ \A k \in 1..n : r[k] = LoadEntry(r[k - 1], entries[k], max)
               /\ ledger_from_entries(entries, max) = r[n]
    BY LoadRun
<1> DEFINE N == {k \in Nat : k <= n => r[k] = [total |-> p[k], entries |-> SubSeq(entries, 1, k)]}
<1>3. 0 \in N
    <2>1. SubSeq(entries, 1, 0) = << >>
        BY <1>1
    <2> QED  BY <1>2, <2>1 DEF EmptyLedger, PartialSums
<1>4. ASSUME NEW k \in Nat, k \in N PROVE k + 1 \in N
    <2> SUFFICES ASSUME k + 1 <= n
                 PROVE  r[k + 1] = [total |-> p[k + 1], entries |-> SubSeq(entries, 1, k + 1)]
        OBVIOUS
    <2>1. k + 1 \in 1..n /\ (k + 1) - 1 = k /\ k \in 0..n /\ k + 1 \in 0..n
        BY <1>1
    <2>2. r[k] = [total |-> p[k], entries |-> SubSeq(entries, 1, k)]
        BY <1>4, <1>1
    <2>3. r[k + 1] = LoadEntry(r[k], entries[k + 1], max)
        BY <1>2, <2>1
    <2>4. entries[k + 1] \in Entry /\ entries[k + 1].amount \in Nat \ {0}
        BY <1>1, <2>1 DEF Entry
    <2>5. p[k + 1] = p[k] + entries[k + 1].amount /\ p[k] \in 0..max /\ p[k + 1] \in 0..max
        BY <2>1 DEF PartialSums
    <2>6. saturating_add(p[k], entries[k + 1].amount, max) = p[k + 1]
        BY <2>4, <2>5 DEF saturating_add
    <2>7. Append(SubSeq(entries, 1, k), entries[k + 1]) = SubSeq(entries, 1, k + 1)
        BY <1>1, <2>1
    <2>8. r[k].total = p[k] /\ r[k].entries = SubSeq(entries, 1, k) /\ entries[k + 1].amount > 0
        BY <2>2, <2>4
    <2>9. LoadEntry(r[k], entries[k + 1], max)
              = [total   |-> saturating_add(r[k].total, entries[k + 1].amount, max),
                 entries |-> Append(r[k].entries, entries[k + 1])]
        BY <2>8, Zenon DEF LoadEntry
    <2> QED  BY <2>3, <2>6, <2>7, <2>8, <2>9, Zenon
<1>5. n \in N
    <2> HIDE DEF N, n
    <2> QED  BY <1>1, <1>3, <1>4, SetInduction
<1>6. SubSeq(entries, 1, n) = entries
    BY <1>1
<1> QED  BY <1>1, <1>2, <1>5, <1>6

-----------------------------------------------------------------------------
(* Dropping a prefix *)

(* What is left of a total when entries are taken off it one by one. *)
TotalAfter(total, es, min) ==
    FoldLeft(LAMBDA t, e : saturating_sub(t, e.amount, min), total, es)

(* What that fold computes on the way. *)
TakeIter(es, total, min) ==
    CHOOSE f : f = [T \in SUBSET (DOMAIN es) |->
                       IF T = {} THEN total
                       ELSE saturating_sub(f[T \ {Max(T)}], es[Max(T)].amount, min)]

(* The total left is the last of the totals TakeIter passes through. *)
LEMMA TakeIsIter ==
    ASSUME NEW es, NEW total, NEW min
    PROVE  TotalAfter(total, es, min) = TakeIter(es, total, min)[DOMAIN es]
BY DEF TotalAfter, FoldLeft, MapThenFoldSet, TakeIter

(* The total runs through the prefixes of what is dropped. *)
LEMMA TakeRun ==
    ASSUME NEW min \in Int, NEW total \in Int, NEW es \in Seq(Entry)
    PROVE  \E r : /\ r[0] = total
                  /\ \A k \in 1..Len(es) : r[k] = saturating_sub(r[k - 1], es[k].amount, min)
                  /\ TotalAfter(total, es, min) = r[Len(es)]
<1> DEFINE n == Len(es)
           step == [k \in 1..n |-> [t \in Int |-> saturating_sub(t, es[k].amount, min)]]
           Eq(f) == f = [T \in SUBSET (1..n) |->
                            IF T = {} THEN total
                            ELSE saturating_sub(f[T \ {Max(T)}], es[Max(T)].amount, min)]
           F == TakeIter(es, total, min)
<1>1. n \in Nat /\ DOMAIN es = 1..n /\ \A k \in 1..n : es[k] \in Entry
    BY ElementOfSeq, LenProperties
<1>3. step \in [1..n -> [Int -> Int]]
    BY <1>1 DEF saturating_sub, Entry
<1> HIDE DEF n
<1>4. PICK g : IsIter(g, 1..n, Int, total, LastOf(n), step)
    <2> HIDE DEF step
    <2> QED  BY <1>1, <1>3, LeftFold
<1>5. \A T \in SUBSET (1..n) : T # {} =>
          /\ LastOf(n)[T] = Max(T) /\ Max(T) \in 1..n /\ T \ {Max(T)} \in SUBSET (1..n)
    BY <1>1, MaxIn DEF LastOf
<1>6. \A T \in SUBSET (1..n) : T # {} =>
          g[T] = saturating_sub(g[T \ {Max(T)}], es[Max(T)].amount, min)
    <2> SUFFICES ASSUME NEW T \in SUBSET (1..n), T # {}
                 PROVE  g[T] = saturating_sub(g[T \ {Max(T)}], es[Max(T)].amount, min)
        OBVIOUS
    <2>1. g[T] = step[Max(T)][g[T \ {Max(T)}]]
        <3> HIDE DEF step
        <3> QED  BY <1>4, <1>5 DEF IsIter
    <2>2. g[T \ {Max(T)}] \in Int
        <3> HIDE DEF step
        <3> QED  BY <1>4, <1>5 DEF IsIter
    <2> QED  BY <1>5, <2>1, <2>2
<1> HIDE DEF step
<1>7. Eq(g)
    BY <1>4, <1>6 DEF IsIter
<1>8. Eq(F)
    BY <1>1, <1>7 DEF TakeIter
<1>9. F[{}] = total
      /\ \A T \in SUBSET (1..n) : T # {} =>
             F[T] = saturating_sub(F[T \ {Max(T)}], es[Max(T)].amount, min)
    <2> HIDE DEF F
    <2> QED  BY <1>8
<1>10. TotalAfter(total, es, min) = F[1..n]
    BY <1>1, TakeIsIter
<1> HIDE DEF F
<1> DEFINE r == [k \in 0..n |-> F[1..k]]
<1>11. r[0] = total /\ r[n] = F[1..n]
    <2>1. 1..0 = {}
        OBVIOUS
    <2> QED  BY <1>1, <1>9, <2>1
<1>12. ASSUME NEW k \in 1..n PROVE r[k] = saturating_sub(r[k - 1], es[k].amount, min)
    <2>0. k \in Nat \ {0} /\ 1..k \in SUBSET (1..n) /\ 1..k # {}
        BY <1>1
    <2>1. Max(1..k) = k /\ (1..k) \ {Max(1..k)} = 1..(k - 1)
        BY <2>0, MaxPrefix
    <2>2. F[1..k] = saturating_sub(F[(1..k) \ {Max(1..k)}], es[Max(1..k)].amount, min)
        BY <1>9, <2>0
    <2>3. F[1..k] = saturating_sub(F[1..(k - 1)], es[k].amount, min)
        BY <2>1, <2>2, Zenon
    <2> QED  BY <1>1, <2>3
<1> HIDE DEF r
<1> QED  BY <1>10, <1>11, <1>12 DEF n

(* What is left is the sum of the entries that were not taken. *)
LEMMA TakeSums ==
    ASSUME NEW max \in Nat, NEW entries \in Seq(Entry), NEW p, PartialSums(p, entries, max),
           NEW min \in Int, min <= 0, NEW k \in 0..Len(entries)
    PROVE  TotalAfter(p[Len(entries)], SubSeq(entries, 1, k), min) = p[Len(entries)] - p[k]
<1> DEFINE n == Len(entries)
           es == SubSeq(entries, 1, k)
           gone == TotalAfter(p[n], es, min)
<1>0. n \in Nat /\ k \in 0..n /\ \A j \in 1..n : entries[j] \in Entry
    BY ElementOfSeq, LenProperties
<1>1. es \in Seq(Entry) /\ Len(es) = k /\ \A j \in 1..k : es[j] = entries[j]
    BY <1>0
<1>a. /\ p \in [0..n -> 0..max] /\ p[0] = 0
      /\ \A j \in 1..n : p[j] = p[j - 1] + entries[j].amount
      /\ \A j \in 0..n : p[j] <= p[n]
    BY DEF PartialSums
<1> HIDE DEF n
<1>b. p[n] \in Int
    BY <1>0, <1>a
<1>2. PICK r : /\ r[0] = p[n]
               /\ \A j \in 1..k : r[j] = saturating_sub(r[j - 1], es[j].amount, min)
               /\ gone = r[k]
    <2> DEFINE total == p[n]
    <2>1. total \in Int
        BY <1>b
    <2> HIDE DEF es, total
    <2>2. \E r : /\ r[0] = total
                 /\ \A j \in 1..Len(es) : r[j] = saturating_sub(r[j - 1], es[j].amount, min)
                 /\ TotalAfter(total, es, min) = r[Len(es)]
        BY <1>1, <2>1, TakeRun
    <2> QED  BY <1>1, <2>2, Zenon DEF total
<1> HIDE DEF es, gone
<1> DEFINE N == {j \in Nat : j <= k => r[j] = p[n] - p[j]}
<1>3. 0 \in N
    BY <1>b, <1>2, <1>a
<1>4. ASSUME NEW j \in Nat, j \in N PROVE j + 1 \in N
    <2> SUFFICES ASSUME j + 1 <= k PROVE r[j + 1] = p[n] - p[j + 1]
        OBVIOUS
    <2>1. /\ j + 1 \in 1..k /\ j + 1 \in 1..n /\ (j + 1) - 1 = j
          /\ j \in 0..n /\ j + 1 \in 0..n /\ n \in 0..n
        BY <1>0
    <2>2. r[j] = p[n] - p[j]
        BY <1>0, <1>4
    <2>3. r[j + 1] = saturating_sub(r[j], entries[j + 1].amount, min)
        BY <1>1, <1>2, <2>1
    <2>4. /\ p[j + 1] = p[j] + entries[j + 1].amount /\ p[j + 1] <= p[n]
          /\ p[j] \in Int /\ p[j + 1] \in Int /\ p[n] \in Int
        <3>1. p[j] \in 0..max /\ p[j + 1] \in 0..max /\ p[n] \in 0..max /\ p[j + 1] <= p[n]
            BY <1>a, <2>1
        <3>2. p[j + 1] = p[(j + 1) - 1] + entries[j + 1].amount
            BY <1>a, <2>1
        <3> QED  BY <2>1, <3>1, <3>2
    <2>5. entries[j + 1].amount \in Int
        BY <1>0, <2>1 DEF Entry
    <2> QED  BY <2>2, <2>3, <2>4, <2>5, SMTT(30) DEF saturating_sub
<1>5. k \in N
    <2> HIDE DEF N
    <2> QED  BY <1>0, <1>3, <1>4, SetInduction
<1>6. gone = p[n] - p[k]
    BY <1>0, <1>2, <1>5
<1> QED  BY <1>6 DEF es, n, gone

-----------------------------------------------------------------------------
(* The search for the first live entry *)

(* The first K entries have expired and the others live. *)
Boundary(entries, now, window_secs, K) ==
    /\ K \in 0..Len(entries)
    /\ \A i \in 1..Len(entries) : IsExpired(entries[i], now, window_secs) <=> i <= K

(* A place between low and high, as close to K as can be. *)
Between(K, low, high) ==
    IF low >= high THEN low ELSE IF K < low THEN low ELSE IF K > high THEN high ELSE K

Halve(entries, now, window_secs, f, r) ==
    IF r[1] >= r[2] THEN r[1]
    ELSE IF IsExpired(entries[(r[1] + ((r[2] - r[1]) \div 2)) + 1], now, window_secs)
         THEN f[<<(r[1] + ((r[2] - r[1]) \div 2)) + 1, r[2]>>]
         ELSE f[<<r[1], r[1] + ((r[2] - r[1]) \div 2)>>]

Searching(entries, now, window_secs) ==
    CHOOSE f : f = [r \in (0..Len(entries)) \X (0..Len(entries)) |->
                        Halve(entries, now, window_secs, f, r)]

(* The search of ExpiredPrefix halves the range 0 .. Len(entries). *)
LEMMA SearchIsHalving ==
    ASSUME NEW entries, NEW now, NEW window_secs
    PROVE  ExpiredPrefix(entries, now, window_secs)
               = Searching(entries, now, window_secs)[<<0, Len(entries)>>]
BY DEF ExpiredPrefix, Searching, Halve

(* One halving step keeps the boundary within reach. *)
LEMMA HalvingStep ==
    ASSUME NEW entries, NEW now, NEW window_secs, NEW K, Len(entries) \in Nat,
           Boundary(entries, now, window_secs, K),
           NEW low \in 0..Len(entries), NEW high \in 0..Len(entries), low < high
    PROVE  LET mid == low + ((high - low) \div 2)
           IN  /\ low <= mid /\ mid < high /\ mid \in 0..Len(entries) /\ mid + 1 \in 1..Len(entries)
               /\ IsExpired(entries[mid + 1], now, window_secs) =>
                      Between(K, low, high) = Between(K, mid + 1, high)
               /\ ~ IsExpired(entries[mid + 1], now, window_secs) =>
                      Between(K, low, high) = Between(K, low, mid)
<1> DEFINE mid == low + ((high - low) \div 2)
           n == Len(entries)
<1>1. low <= mid /\ mid < high /\ mid \in 0..n /\ mid + 1 \in 1..n
    OBVIOUS
<1>2. K \in 0..n /\ (IsExpired(entries[mid + 1], now, window_secs) <=> mid + 1 <= K)
    <2> HIDE DEF mid
    <2> QED  BY <1>1 DEF Boundary
<1> HIDE DEF mid, n
<1>3. /\ mid + 1 <= K => Between(K, low, high) = Between(K, mid + 1, high)
      /\ ~ (mid + 1 <= K) => Between(K, low, high) = Between(K, low, mid)
    BY <1>1, <1>2 DEF Between, n
<1> QED  BY <1>1, <1>2, <1>3 DEF mid, n

(* The binary search of prune_entries finds the boundary. *)
LEMMA BinarySearch ==
    ASSUME NEW entries, NEW now, NEW window_secs, NEW K, Len(entries) \in Nat,
           Boundary(entries, now, window_secs, K)
    PROVE  ExpiredPrefix(entries, now, window_secs) = K
<1> DEFINE n == Len(entries)
           D == (0..n) \X (0..n)
           Eq(f) == f = [r \in D |-> Halve(entries, now, window_secs, f, r)]
           g == [r \in D |-> Between(K, r[1], r[2])]
           F == Searching(entries, now, window_secs)
<1>0. n \in Nat /\ K \in 0..n
    BY DEF Boundary
<1>1. ASSUME NEW f, NEW low \in 0..n, NEW high \in 0..n, low < high,
             \A a \in 0..n, b \in 0..n : b - a < high - low => f[<<a, b>>] = Between(K, a, b)
      PROVE  Halve(entries, now, window_secs, f, <<low, high>>) = Between(K, low, high)
    <2> DEFINE mid == low + ((high - low) \div 2)
    <2>1. /\ low <= mid /\ mid < high /\ mid \in 0..n /\ mid + 1 \in 1..n
          /\ IsExpired(entries[mid + 1], now, window_secs) =>
                 Between(K, low, high) = Between(K, mid + 1, high)
          /\ ~ IsExpired(entries[mid + 1], now, window_secs) =>
                 Between(K, low, high) = Between(K, low, mid)
        BY <1>1, HalvingStep
    <2>2. Halve(entries, now, window_secs, f, <<low, high>>)
              = IF IsExpired(entries[mid + 1], now, window_secs)
                THEN f[<<mid + 1, high>>] ELSE f[<<low, mid>>]
        BY <1>1, SMT DEF Halve
    <2> HIDE DEF mid, n
    <2>3. mid + 1 \in 0..n /\ high - (mid + 1) < high - low /\ mid - low < high - low
        BY <1>0, <2>1
    <2>4. f[<<mid + 1, high>>] = Between(K, mid + 1, high) /\ f[<<low, mid>>] = Between(K, low, mid)
        BY <1>1, <2>1, <2>3
    <2> QED  BY <2>1, <2>2, <2>4
<1>2. ASSUME NEW f, NEW low \in 0..n, NEW high \in 0..n, ~ (low < high)
      PROVE  Halve(entries, now, window_secs, f, <<low, high>>) = Between(K, low, high)
    BY <1>2 DEF Halve, Between
<1> HIDE DEF n
<1>3. Eq(g)
    <2>1. \A a \in 0..n, b \in 0..n : g[<<a, b>>] = Between(K, a, b)
        OBVIOUS
    <2>2. ASSUME NEW a \in 0..n, NEW b \in 0..n
          PROVE  Halve(entries, now, window_secs, g, <<a, b>>) = Between(K, a, b)
        <3> HIDE DEF g
        <3>1. CASE a < b
            BY <1>1, <2>1, <3>1
        <3> QED  BY <1>2, <3>1
    <2>3. \A r \in D : r = <<r[1], r[2]>> /\ r[1] \in 0..n /\ r[2] \in 0..n
        OBVIOUS
    <2>4. \A r \in D : Halve(entries, now, window_secs, g, r) = Between(K, r[1], r[2])
        <3> HIDE DEF g
        <3> QED  BY <2>2, <2>3
    <2> QED  BY <2>4
<1>4. Eq(F)
    <2> HIDE DEF g
    <2> QED  BY <1>3 DEF Searching, n
<1> HIDE DEF F
<1>5. \A a \in 0..n, b \in 0..n : F[<<a, b>>] = Halve(entries, now, window_secs, F, <<a, b>>)
    BY <1>4
<1> DEFINE N == {d \in Nat : \A a \in 0..n, b \in 0..n : b - a < d => F[<<a, b>>] = Between(K, a, b)}
<1>6. 0 \in N
    <2> SUFFICES ASSUME NEW a \in 0..n, NEW b \in 0..n, b - a < 0
                 PROVE  F[<<a, b>>] = Between(K, a, b)
        OBVIOUS
    <2>1. ~ (a < b)
        BY <1>0
    <2> QED  BY <1>2, <1>5, <2>1
<1>7. ASSUME NEW d \in Nat, d \in N PROVE d + 1 \in N
    <2> SUFFICES ASSUME NEW a \in 0..n, NEW b \in 0..n, b - a < d + 1
                 PROVE  F[<<a, b>>] = Between(K, a, b)
        OBVIOUS
    <2>1. CASE a < b
        <3>1. \A x \in 0..n, y \in 0..n : y - x < b - a => y - x < d
            BY <1>0
        <3>2. \A x \in 0..n, y \in 0..n : y - x < b - a => F[<<x, y>>] = Between(K, x, y)
            BY <1>7, <3>1
        <3> QED  BY <1>1, <1>5, <2>1, <3>2
    <2>2. CASE ~ (a < b)
        BY <1>2, <1>5, <2>2
    <2> QED  BY <2>1, <2>2
<1>8. n + 1 \in N
    <2> HIDE DEF N
    <2> QED  BY <1>0, <1>6, <1>7, SetInduction
<1>9. F[<<0, n>>] = Between(K, 0, n)
    BY <1>0, <1>8
<1>10. Between(K, 0, n) = K
    BY <1>0 DEF Between
<1> QED  BY <1>9, <1>10, SearchIsHalving DEF F, n

(* How many entries the call counter's pruning pops. *)
PoppedPrefix(entries, now, window_secs) ==
    LET live == SelectInSeq(entries, LAMBDA e : ~ IsExpired(e, now, window_secs))
    IN  IF live = 0 THEN Len(entries) ELSE live - 1

(* Popping expired entries off the front stops at the same place. *)
LEMMA LinearSearch ==
    ASSUME NEW entries, NEW now, NEW window_secs, NEW K, Len(entries) \in Nat,
           Boundary(entries, now, window_secs, K)
    PROVE  PoppedPrefix(entries, now, window_secs) = K
<1> DEFINE n == Len(entries)
           I == {i \in 1..n : ~ IsExpired(entries[i], now, window_secs)}
           live == SelectInSeq(entries, LAMBDA e : ~ IsExpired(e, now, window_secs))
<1>1. live = IF I # {} THEN Min(I) ELSE 0
    BY DEF SelectInSeq
<1>2. n \in Nat /\ K \in 0..n /\ I = (K + 1)..n
    BY DEF Boundary
<1> HIDE DEF n, I, live
<1>3. CASE K = n
    <2>1. I = {}
        BY <1>2, <1>3
    <2>2. live = 0
        BY <1>1, <2>1
    <2> QED  BY <1>3, <2>2 DEF n, live, PoppedPrefix
<1>4. CASE K < n
    <2>1. K + 1 \in (K + 1)..n /\ \A y \in (K + 1)..n : K + 1 <= y
        BY <1>2, <1>4
    <2>a. K + 1 \in I /\ I # {} /\ \A y \in I : K + 1 <= y
        BY <1>2, <2>1, Zenon
    <2>2. Min(I) = K + 1
        BY <1>2, <2>a DEF Min
    <2>3. live = K + 1 /\ live # 0 /\ live - 1 = K
        BY <1>1, <1>2, <2>a, <2>2
    <2> QED  BY <2>3 DEF live, PoppedPrefix
<1> QED  BY <1>2, <1>3, <1>4

(* One entry per second, oldest first. *)
Chronological(entries) ==
    \A i, j \in 1..Len(entries) : i < j => entries[i].ts < entries[j].ts

(* So the expired entries are a prefix. *)
LEMMA BoundaryExists ==
    ASSUME NEW entries \in Seq(Entry), Chronological(entries),
           NEW now \in Nat, NEW window_secs \in Nat
    PROVE  \E K \in 0..Len(entries) : Boundary(entries, now, window_secs, K)
<1> DEFINE n == Len(entries)
           I == {i \in 1..n : ~ IsExpired(entries[i], now, window_secs)}
<1>0. n \in Nat /\ \A i \in 1..n : entries[i] \in Entry
    BY ElementOfSeq, LenProperties
<1>1. n \in Nat /\ \A i \in 1..n : entries[i] \in Entry /\ entries[i].ts \in Nat
    BY <1>0 DEF Entry
<1>2. CASE I = {}
    <2>1. Boundary(entries, now, window_secs, n) /\ n \in 0..n
        BY <1>1, <1>2 DEF Boundary
    <2> QED  BY <2>1
<1>3. CASE I # {}
    <2>1. I \subseteq Nat
        BY <1>1
    <2>2. PICK x \in I : \A y \in I : x <= y
        <3> HIDE DEF I
        <3> QED  BY <1>3, <2>1, LeastElement
    <2>3. x \in 1..n /\ ~ IsExpired(entries[x], now, window_secs)
        BY <2>2
    <2>4. ASSUME NEW i \in 1..n PROVE IsExpired(entries[i], now, window_secs) <=> i <= x - 1
        <3>1. CASE i < x
            <4>1. i \notin I
                BY <1>1, <2>2, <2>3, <3>1
            <4> QED  BY <1>1, <2>3, <3>1, <4>1
        <3>2. CASE ~ (i < x)
            <4>1. i = x \/ entries[x].ts < entries[i].ts
                BY <1>1, <2>3, <3>2 DEF Chronological
            <4>2. ~ IsExpired(entries[i], now, window_secs)
                BY <1>1, <2>3, <4>1 DEF IsExpired
            <4> QED  BY <1>1, <2>3, <3>2, <4>2
        <3> QED  BY <3>1, <3>2
    <2>5. Boundary(entries, now, window_secs, x - 1) /\ x - 1 \in 0..n
        BY <1>1, <2>3, <2>4 DEF Boundary
    <2> QED  BY <2>5
<1> QED  BY <1>2, <1>3

-----------------------------------------------------------------------------
(* Pruning *)

(* A ledger whose total is the sum of its entries. *)
Summed(l, entries, p, max) ==
    /\ max \in Nat
    /\ entries \in Seq(Entry)
    /\ PartialSums(p, entries, max)
    /\ l = [total |-> p[Len(entries)], entries |-> entries]

(* What is left of it without its first K entries. *)
Rest(entries, p, K) ==
    [total |-> p[Len(entries)] - p[K], entries |-> SubSeq(entries, K + 1, Len(entries))]

(* Both pruning functions drop what has expired and keep the total right:  *)
(* neither the binary search nor the saturating arithmetic, nor the reset  *)
(* of an emptied ledger, makes a difference between them.                  *)
LEMMA PruneSums ==
    ASSUME NEW max, NEW entries, NEW p, NEW l, Summed(l, entries, p, max),
           NEW now, NEW window_secs, window_secs # 0, NEW K,
           Boundary(entries, now, window_secs, K)
    PROVE  /\ prune_entries(l, now, window_secs) = Rest(entries, p, K)
           /\ prune_protocol_call_entries(l, now, window_secs) = Rest(entries, p, K)
<1> DEFINE n == Len(entries)
           rest == [total |-> p[n] - p[K], entries |-> SubSeq(entries, K + 1, n)]
<1>0. /\ max \in Nat /\ entries \in Seq(Entry) /\ PartialSums(p, entries, max)
      /\ l = [total |-> p[n], entries |-> entries]
    BY DEF Summed
<1>1. n \in Nat /\ K \in 0..n /\ l.entries = entries /\ l.total = p[n]
    BY <1>0, LenProperties DEF Boundary
<1>2. ASSUME NEW min \in Int, min <= 0 PROVE DropFront(l, K, min) = rest
    <2>1. TotalAfter(p[n], SubSeq(entries, 1, K), min) = p[n] - p[K]
        BY <1>0, <1>1, <1>2, TakeSums
    <2>2. DropFront(l, K, min) = [total   |-> TotalAfter(l.total, SubSeq(l.entries, 1, K), min),
                                  entries |-> SubSeq(l.entries, K + 1, Len(l.entries))]
        BY DEF DropFront, TotalAfter
    <2> QED  BY <1>1, <2>1, <2>2, Zenon
<1>3. DropFront(l, K, 0) = rest /\ DropFront(l, K, -I128_MAX - 1) = rest
    <2>1. -I128_MAX - 1 \in Int /\ -I128_MAX - 1 <= 0 /\ 0 \in Int /\ 0 <= 0
        BY WindowBounds
    <2> QED  BY <1>2, <2>1
<1>4. ExpiredPrefix(l.entries, now, window_secs) = K
    BY <1>1, BinarySearch
<1>5. K = n => rest = EmptyLedger
    <2>1. p[n] \in Int /\ SubSeq(entries, n + 1, n) = << >>
        BY <1>0, <1>1 DEF PartialSums
    <2> QED  BY <2>1 DEF EmptyLedger
<1>6. prune_entries(l, now, window_secs) = rest
    <2> HIDE DEF rest, n
    <2>1. Len(l.entries) = n
        BY <1>1 DEF n
    <2> QED  BY <1>3, <1>4, <1>5, <2>1 DEF prune_entries
<1>7. prune_protocol_call_entries(l, now, window_secs) = rest
    <2>1. PoppedPrefix(l.entries, now, window_secs) = K
        BY <1>1, LinearSearch
    <2>2. prune_protocol_call_entries(l, now, window_secs)
              = DropFront(l, PoppedPrefix(l.entries, now, window_secs), 0)
        BY DEF prune_protocol_call_entries, PoppedPrefix
    <2> HIDE DEF rest
    <2> QED  BY <1>3, <2>1, <2>2
<1> QED  BY <1>6, <1>7 DEF Rest

-----------------------------------------------------------------------------
(* The entries of a ledger up to second t: positive amounts, one entry per *)
(* second, oldest first.                                                   *)
EntryUpTo(t) == [ts : 1..t, amount : Nat \ {0}]
EntriesUpTo(t) == {es \in Seq(EntryUpTo(t)) : Chronological(es)}
LedgerUpTo(t) == [total : Int, entries : EntriesUpTo(t)]

(* Such entries are entries. *)
LEMMA UpToIsEntry ==
    ASSUME NEW t \in Nat, NEW es \in EntriesUpTo(t)
    PROVE  /\ es \in Seq(Entry) /\ es \in Seq(EntryUpTo(t)) /\ Chronological(es)
           /\ Len(es) \in Nat /\ DOMAIN es = 1..Len(es)
           /\ \A i \in 1..Len(es) : es[i] \in EntryUpTo(t) /\ es[i] \in Entry
<1>1. es \in Seq(EntryUpTo(t)) /\ Chronological(es)
    BY DEF EntriesUpTo
<1>2. Len(es) \in Nat /\ DOMAIN es = 1..Len(es) /\ \A i \in 1..Len(es) : es[i] \in EntryUpTo(t)
    BY <1>1, ElementOfSeq, LenProperties
<1>3. \A e \in EntryUpTo(t) : e \in Entry
    BY DEF EntryUpTo, Entry
<1>4. es \in Seq(Entry)
    BY <1>1, <1>2, <1>3
<1> QED  BY <1>1, <1>2, <1>3, <1>4

(* They are still so a second later. *)
LEMMA UpToLater ==
    ASSUME NEW t \in Nat, NEW u \in Nat, t <= u, NEW es \in EntriesUpTo(t)
    PROVE  es \in EntriesUpTo(u)
<1>1. \A e \in EntryUpTo(t) : e \in EntryUpTo(u)
    BY DEF EntryUpTo
<1>2. es \in Seq(EntryUpTo(u))
    BY <1>1, UpToIsEntry
<1> QED  BY <1>2, UpToIsEntry DEF EntriesUpTo

(* Loading keeps the entries; the total, saturated or not, is a number.    *)
LEMMA LoadUpTo ==
    ASSUME NEW t \in Nat, NEW es \in EntriesUpTo(t), NEW max \in Nat
    PROVE  /\ ledger_from_entries(es, max) \in LedgerUpTo(t)
           /\ ledger_from_entries(es, max).entries = es
           /\ ledger_from_entries(es, max).total \in 0..max
<1> DEFINE n == Len(es)
<1>1. es \in Seq(Entry) /\ n \in Nat /\ \A i \in 1..n : es[i] \in Entry
    BY UpToIsEntry
<1>2. PICK r : /\ r[0] = EmptyLedger
               /\ \A k \in 1..n : r[k] = LoadEntry(r[k - 1], es[k], max)
               /\ ledger_from_entries(es, max) = r[n]
    BY <1>1, LoadRun
<1> HIDE DEF n
<1> DEFINE Loaded(k) ==
               /\ r[k] \in LedgerOf(max)
               /\ Len(r[k].entries) = k
               /\ \A i \in 1..k : r[k].entries[i] = es[i]
           N == {k \in Nat : k <= n => Loaded(k)}
<1>3. 0 \in N
    <2>1. EmptyLedger \in LedgerOf(max) /\ Len(EmptyLedger.entries) = 0
        BY EmptySeq DEF EmptyLedger, LedgerOf
    <2> QED  BY <1>2, <2>1
<1>4. ASSUME NEW k \in Nat, k \in N PROVE k + 1 \in N
    <2> SUFFICES ASSUME k + 1 <= n PROVE Loaded(k + 1)
        OBVIOUS
    <2>1. k + 1 \in 1..n /\ (k + 1) - 1 = k /\ es[k + 1] \in Entry /\ k <= n
        BY <1>1
    <2>2. Loaded(k)
        BY <1>4, <2>1
    <2>3. r[k + 1] = LoadEntry(r[k], es[k + 1], max)
        BY <1>2, <2>1, Zenon
    <2>4. r[k + 1] \in LedgerOf(max)
        BY <2>1, <2>2, <2>3, LoadEntryType
    <2>5. r[k + 1].entries = Append(r[k].entries, es[k + 1])
        BY <2>1, <2>3, SMTT(30) DEF LoadEntry, Entry
    <2>6. r[k].entries \in Seq(Entry)
        BY <2>2 DEF LedgerOf
    <2>7. /\ Len(Append(r[k].entries, es[k + 1])) = k + 1
          /\ \A i \in 1..k : Append(r[k].entries, es[k + 1])[i] = r[k].entries[i]
          /\ Append(r[k].entries, es[k + 1])[k + 1] = es[k + 1]
        BY <2>1, <2>2, <2>6
    <2>8. \A i \in 1..(k + 1) : r[k + 1].entries[i] = es[i]
        BY <2>2, <2>5, <2>7
    <2> QED  BY <2>4, <2>5, <2>7, <2>8
<1>5. Loaded(n)
    <2>1. n \in N
        <3> HIDE DEF N
        <3> QED  BY <1>1, <1>3, <1>4, SetInduction
    <2> QED  BY <1>1, <2>1
<1>6. r[n].entries = es
    <2>1. r[n].entries \in Seq(Entry)
        BY <1>5 DEF LedgerOf
    <2> HIDE DEF Loaded
    <2>2. Len(r[n].entries) = Len(es) /\ \A i \in 1..Len(es) : r[n].entries[i] = es[i]
        BY <1>5 DEF Loaded, n
    <2> QED  BY <1>1, <2>1, <2>2, SeqEqual
<1>7. r[n] \in LedgerOf(max)
    BY <1>5
<1> QED  BY <1>2, <1>6, <1>7 DEF LedgerOf, LedgerUpTo

(* A suffix of the entries of a ledger is one. *)
LEMMA SuffixUpTo ==
    ASSUME NEW t \in Nat, NEW es \in EntriesUpTo(t), NEW k \in 0..Len(es)
    PROVE  SubSeq(es, k + 1, Len(es)) \in EntriesUpTo(t)
<1> DEFINE n == Len(es)
           rest == SubSeq(es, k + 1, n)
<1>1. /\ es \in Seq(EntryUpTo(t)) /\ n \in Nat /\ k \in 0..n /\ Chronological(es)
      /\ \A i \in 1..n : es[i] \in EntryUpTo(t)
    BY UpToIsEntry
<1>2. /\ rest \in Seq(EntryUpTo(t)) /\ Len(rest) = n - k
      /\ \A i \in 1..(n - k) : rest[i] = es[k + i]
    BY <1>1
<1>3. Chronological(rest)
    <2> HIDE DEF rest
    <2> SUFFICES ASSUME NEW i \in 1..(n - k), NEW j \in 1..(n - k), i < j
                 PROVE  rest[i].ts < rest[j].ts
        BY <1>2 DEF Chronological
    <2>1. k + i \in 1..n /\ k + j \in 1..n /\ k + i < k + j
        BY <1>1
    <2>2. es[k + i].ts < es[k + j].ts
        BY <1>1, <2>1 DEF Chronological
    <2> QED  BY <1>2, <2>2
<1> QED  BY <1>2, <1>3 DEF EntriesUpTo

(* Taking entries off a total leaves a number. *)
LEMMA TakeIsInt ==
    ASSUME NEW min \in Int, NEW total \in Int, NEW es \in Seq(Entry)
    PROVE  TotalAfter(total, es, min) \in Int
<1> DEFINE n == Len(es)
<1>0. n \in Nat /\ \A k \in 1..n : es[k] \in Entry
    BY ElementOfSeq, LenProperties
<1>1. n \in Nat /\ \A k \in 1..n : es[k].amount \in Int
    BY <1>0 DEF Entry
<1>2. PICK r : /\ r[0] = total
               /\ \A k \in 1..n : r[k] = saturating_sub(r[k - 1], es[k].amount, min)
               /\ TotalAfter(total, es, min) = r[n]
    BY TakeRun
<1> HIDE DEF n
<1> DEFINE N == {k \in Nat : k <= n => r[k] \in Int}
<1>3. 0 \in N
    BY <1>2
<1>4. ASSUME NEW k \in Nat, k \in N PROVE k + 1 \in N
    <2> SUFFICES ASSUME k + 1 <= n PROVE r[k + 1] \in Int
        OBVIOUS
    <2>1. k + 1 \in 1..n /\ (k + 1) - 1 = k /\ r[k] \in Int
        BY <1>1, <1>4
    <2>2. r[k + 1] = saturating_sub(r[k], es[k + 1].amount, min)
        BY <1>2, <2>1, Zenon
    <2> QED  BY <1>1, <2>1, <2>2 DEF saturating_sub
<1>5. n \in N
    <2> HIDE DEF N
    <2> QED  BY <1>1, <1>3, <1>4, SetInduction
<1> QED  BY <1>1, <1>2, <1>5

(* Pruning keeps a ledger one, saturated or not. *)
LEMMA PruneUpTo ==
    ASSUME NEW t \in Nat, NEW l \in LedgerUpTo(t), NEW w \in Nat
    PROVE  /\ prune_entries(l, t, w) \in LedgerUpTo(t)
           /\ prune_protocol_call_entries(l, t, w) \in LedgerUpTo(t)
<1> DEFINE es == l.entries
           n == Len(es)
<1>1. es \in EntriesUpTo(t) /\ l.total \in Int
    BY DEF LedgerUpTo
<1>2. es \in Seq(Entry) /\ n \in Nat /\ Chronological(es)
    BY <1>1, UpToIsEntry
<1>3. PICK K \in 0..n : Boundary(es, t, w, K)
    BY <1>2, BoundaryExists
<1>4. ExpiredPrefix(es, t, w) = K
    BY <1>2, <1>3, BinarySearch
<1>5. PoppedPrefix(es, t, w) = K
    BY <1>2, <1>3, LinearSearch
<1>6. ASSUME NEW min \in Int PROVE DropFront(l, K, min) \in LedgerUpTo(t)
    <2>1. SubSeq(es, K + 1, n) \in EntriesUpTo(t)
        BY <1>1, SuffixUpTo
    <2>2. SubSeq(es, 1, K) \in Seq(Entry)
        BY <1>2
    <2>3. TotalAfter(l.total, SubSeq(es, 1, K), min) \in Int
        BY <1>1, <2>2, TakeIsInt
    <2>4. DropFront(l, K, min) = [total   |-> TotalAfter(l.total, SubSeq(es, 1, K), min),
                                  entries |-> SubSeq(es, K + 1, n)]
        BY DEF DropFront, TotalAfter
    <2> HIDE DEF es, n
    <2> QED  BY <2>1, <2>3, <2>4 DEF LedgerUpTo
<1>7. EmptyLedger \in LedgerUpTo(t)
    BY EmptySeq DEF EmptyLedger, LedgerUpTo, EntriesUpTo, Chronological
<1>8. -I128_MAX - 1 \in Int
    BY WindowBounds
<1>9. prune_entries(l, t, w) \in LedgerUpTo(t)
    BY <1>4, <1>6, <1>7, <1>8 DEF prune_entries
<1>10. prune_protocol_call_entries(l, t, w)
           = IF w = 0 THEN l ELSE DropFront(l, PoppedPrefix(es, t, w), 0)
    BY DEF prune_protocol_call_entries, PoppedPrefix
<1> QED  BY <1>5, <1>6, <1>9, <1>10

(* A sequence with one element put in front. *)
LEMMA Prepended ==
    ASSUME NEW S, NEW m \in S, NEW tail \in Seq(S)
    PROVE  /\ <<m>> \o tail \in Seq(S)
           /\ Len(<<m>> \o tail) = Len(tail) + 1
           /\ (<<m>> \o tail)[1] = m
           /\ \A i \in 2..(Len(tail) + 1) : (<<m>> \o tail)[i] = tail[i - 1]
<1> DEFINE first == <<m>>
<1>1. first \in Seq(S) /\ Len(first) = 1 /\ first[1] = m /\ Len(tail) \in Nat
    BY LenProperties
<1> HIDE DEF first
<1>2. /\ first \o tail \in Seq(S)
      /\ Len(first \o tail) = Len(first) + Len(tail)
      /\ \A i \in 1 .. Len(first) + Len(tail) :
             (first \o tail)[i] = IF i <= Len(first) THEN first[i] ELSE tail[i - Len(first)]
    BY <1>1, ConcatProperties
<1>3. /\ first \o tail \in Seq(S)
      /\ Len(first \o tail) = Len(tail) + 1
      /\ (first \o tail)[1] = m
      /\ \A i \in 2..(Len(tail) + 1) : (first \o tail)[i] = tail[i - 1]
    BY <1>1, <1>2
<1> QED  BY <1>3 DEF first

(* Admitting a positive amount now keeps the entries in order: it joins    *)
(* the entry of this second, or becomes the newest one, and a merge of the *)
(* two oldest keeps the later second of the two.                           *)
LEMMA AdmitUpTo ==
    ASSUME NEW t \in Nat \ {0}, NEW es \in EntriesUpTo(t), NEW amount \in Nat \ {0},
           NEW max \in Nat \ {0}
    PROVE  AdmitEntry(es, t, amount, max) \in EntriesUpTo(t)
<1> DEFINE n == Len(es)
           e == [ts |-> t, amount |-> amount]
           grown == Append(es, e)
<1>1. /\ es \in Seq(EntryUpTo(t)) /\ n \in Nat /\ Chronological(es) /\ DOMAIN es = 1..n
      /\ \A i \in 1..n : es[i] \in EntryUpTo(t)
    BY UpToIsEntry
<1>2. ASSUME NEW a \in Nat \ {0}, NEW b \in Nat \ {0} PROVE saturating_add(a, b, max) \in Nat \ {0}
    BY DEF saturating_add
<1>3. CASE n > 0 /\ es[n].ts = t
    <2> DEFINE x == [es[n] EXCEPT !.amount = saturating_add(es[n].amount, amount, max)]
               new == [es EXCEPT ![n] = x]
    <2>1. es[n] \in EntryUpTo(t) /\ n \in 1..n
        BY <1>1, <1>3
    <2>2. es[n].amount \in Nat \ {0}
        BY <2>1 DEF EntryUpTo
    <2>3. x \in EntryUpTo(t) /\ x.ts = es[n].ts
        BY <1>2, <2>1, <2>2 DEF EntryUpTo
    <2>4. AdmitEntry(es, t, amount, max) = new
        BY <1>3 DEF AdmitEntry
    <2> HIDE DEF x
    <2>5. new \in Seq(EntryUpTo(t)) /\ Len(new) = n /\ DOMAIN new = 1..n
        BY <1>1, <2>1, <2>3, ExceptSeq
    <2>6. \A i \in 1..n : new[i].ts = es[i].ts
        BY <1>1, <2>1, <2>3
    <2> HIDE DEF new
    <2>7. Chronological(new)
        BY <1>1, <2>5, <2>6 DEF Chronological
    <2> QED  BY <2>4, <2>5, <2>7 DEF EntriesUpTo
<1>4. CASE ~ (n > 0 /\ es[n].ts = t)
    <2>1. e \in EntryUpTo(t) /\ e.ts = t
        BY DEF EntryUpTo
    <2> HIDE DEF e
    <2>2. /\ grown \in Seq(EntryUpTo(t)) /\ Len(grown) = n + 1
          /\ \A i \in 1..n : grown[i] = es[i]
          /\ grown[n + 1] = e
        BY <1>1, <2>1, AppendProperties
    <2>3. \A i \in 1..n : es[i].ts \in 1..t
        BY <1>1 DEF EntryUpTo
    <2>4. \A i \in 1..n : es[i].ts < t
        <3> SUFFICES ASSUME NEW i \in 1..n PROVE es[i].ts < t
            OBVIOUS
        <3>1. n \in 1..n /\ n > 0
            BY <1>1
        <3>2. es[n].ts < t
            BY <1>4, <2>3, <3>1
        <3>3. i = n \/ es[i].ts < es[n].ts
            BY <1>1, <3>1 DEF Chronological
        <3> QED  BY <2>3, <3>1, <3>2, <3>3
    <2> HIDE DEF grown
    <2>5. Chronological(grown)
        <3> SUFFICES ASSUME NEW i \in 1..(n + 1), NEW j \in 1..(n + 1), i < j
                     PROVE  grown[i].ts < grown[j].ts
            BY <2>2 DEF Chronological
        <3>1. i \in 1..n
            BY <1>1
        <3>2. CASE j = n + 1
            BY <2>1, <2>2, <2>4, <3>1, <3>2
        <3>3. CASE j \in 1..n
            BY <1>1, <2>2, <3>1, <3>3 DEF Chronological
        <3> QED  BY <1>1, <3>2, <3>3
    <2>6. CASE ~ (n + 1 > MAX_WINDOW_ENTRIES)
        <3>1. AdmitEntry(es, t, amount, max) = grown
            BY <1>4, <2>2, <2>6 DEF AdmitEntry, grown, e
        <3> QED  BY <2>2, <2>5, <3>1 DEF EntriesUpTo
    <2>7. CASE n + 1 > MAX_WINDOW_ENTRIES
        <3> DEFINE m == [ts |-> grown[2].ts,
                         amount |-> saturating_add(grown[1].amount, grown[2].amount, max)]
                   tail == SubSeq(grown, 3, n + 1)
                   new == <<m>> \o tail
        <3>1. AdmitEntry(es, t, amount, max) = new
            BY <1>4, <2>2, <2>7 DEF AdmitEntry, MergeOldest, grown, e
        <3>2. n >= 1 /\ 1 \in 1..(n + 1) /\ 2 \in 1..(n + 1)
            BY <1>1, <2>7, WindowBounds
        <3>3. grown[1] \in EntryUpTo(t) /\ grown[2] \in EntryUpTo(t)
            BY <2>2, <3>2, ElementOfSeq
        <3>4. m \in EntryUpTo(t) /\ m.ts = grown[2].ts
            <4>1. grown[1].amount \in Nat \ {0} /\ grown[2].amount \in Nat \ {0}
                  /\ grown[2].ts \in 1..t
                BY <3>3 DEF EntryUpTo
            <4> QED  BY <1>2, <4>1 DEF EntryUpTo
        <3>5. tail \in Seq(EntryUpTo(t)) /\ Len(tail) = n - 1
              /\ \A i \in 1..(n - 1) : tail[i] = grown[i + 2]
            BY <1>1, <2>2, <3>2
        <3> HIDE DEF m, tail
        <3>6. new \in Seq(EntryUpTo(t)) /\ Len(new) = n
              /\ new[1] = m /\ \A i \in 2..n : new[i] = grown[i + 1]
            <4>a. /\ new \in Seq(EntryUpTo(t)) /\ Len(new) = Len(tail) + 1 /\ new[1] = m
                  /\ \A i \in 2..(Len(tail) + 1) : new[i] = tail[i - 1]
                BY <3>4, <3>5, Prepended
            <4> HIDE DEF new
            <4>1. new \in Seq(EntryUpTo(t)) /\ Len(new) = n /\ new[1] = m
                BY <1>1, <3>5, <4>a
            <4>2. \A i \in 2..n : new[i] = tail[i - 1]
                BY <1>1, <3>5, <4>a
            <4>3. \A i \in 2..n : i - 1 \in 1..(n - 1) /\ (i - 1) + 2 = i + 1
                BY <1>1
            <4> QED  BY <3>5, <4>1, <4>2, <4>3
        <3> HIDE DEF new
        <3>7. \A i \in 1..n : new[i].ts = grown[i + 1].ts
            BY <3>4, <3>6
        <3>8. Chronological(new)
            <4> SUFFICES ASSUME NEW i \in 1..n, NEW j \in 1..n, i < j
                         PROVE  new[i].ts < new[j].ts
                BY <3>6 DEF Chronological
            <4>1. i + 1 \in 1..(n + 1) /\ j + 1 \in 1..(n + 1) /\ i + 1 < j + 1
                BY <1>1
            <4>2. grown[i + 1].ts < grown[j + 1].ts
                BY <2>2, <2>5, <4>1 DEF Chronological
            <4> QED  BY <3>7, <4>2
        <3> QED  BY <3>1, <3>6, <3>8 DEF EntriesUpTo
    <2> QED  BY <2>6, <2>7
<1> QED  BY <1>3, <1>4

(* What was admitted leaves an entry, also when the oldest ones merge. *)
LEMMA AdmitLeavesEntry ==
    ASSUME NEW t \in Nat \ {0}, NEW es \in EntriesUpTo(t), NEW amount \in Nat \ {0},
           NEW max \in Nat \ {0}
    PROVE  AdmitEntry(es, t, amount, max) # <<>>
<1> DEFINE n == Len(es)
           e == [ts |-> t, amount |-> amount]
           grown == Append(es, e)
<1>1. es \in Seq(EntryUpTo(t)) /\ n \in Nat /\ DOMAIN es = 1..n
    BY UpToIsEntry
<1>2. DOMAIN <<>> = {}
    OBVIOUS
<1>3. CASE n > 0 /\ es[n].ts = t
    <2>1. DOMAIN AdmitEntry(es, t, amount, max) = 1..n /\ 1 \in 1..n
        BY <1>1, <1>3 DEF AdmitEntry
    <2> HIDE DEF n
    <2> QED  BY <1>2, <2>1, Zenon
<1>4. CASE ~ (n > 0 /\ es[n].ts = t)
    <2>1. e \in EntryUpTo(t)
        BY DEF EntryUpTo
    <2> HIDE DEF e
    <2>2. grown \in Seq(EntryUpTo(t)) /\ Len(grown) = n + 1
        BY <1>1, <2>1, AppendProperties
    <2> HIDE DEF grown
    <2>3. CASE ~ (n + 1 > MAX_WINDOW_ENTRIES)
        <3>1. AdmitEntry(es, t, amount, max) = grown
            BY <1>4, <2>2, <2>3 DEF AdmitEntry, grown, e
        <3> QED  BY <1>1, <2>2, <3>1
    <2>4. CASE n + 1 > MAX_WINDOW_ENTRIES
        <3> DEFINE m == [ts |-> grown[2].ts,
                         amount |-> saturating_add(grown[1].amount, grown[2].amount, max)]
                   tail == SubSeq(grown, 3, n + 1)
                   S == EntryUpTo(t) \union {m}
        <3>1. AdmitEntry(es, t, amount, max) = <<m>> \o tail
            BY <1>4, <2>2, <2>4 DEF AdmitEntry, MergeOldest, grown, e
        <3>2. tail \in Seq(EntryUpTo(t)) /\ EntryUpTo(t) \subseteq S
            BY <1>1, <2>2
        <3> HIDE DEF m, tail
        <3>3. m \in S /\ tail \in Seq(S) /\ Len(tail) \in Nat
            BY <3>2
        <3> HIDE DEF S
        <3>4. Len(<<m>> \o tail) = Len(tail) + 1
            BY <3>3, Prepended
        <3> QED  BY <3>1, <3>3, <3>4
    <2> QED  BY <2>3, <2>4
<1> QED  BY <1>3, <1>4

(* So admission makes a ledger of a ledger. *)
LEMMA AdmitLedgerUpTo ==
    ASSUME NEW t \in Nat \ {0}, NEW l \in LedgerUpTo(t), NEW amount \in Nat \ {0},
           NEW max \in Nat \ {0}
    PROVE  admit_to_ledger(l, t, amount, max) \in LedgerUpTo(t)
<1>1. l.total \in Int /\ l.entries \in EntriesUpTo(t)
    BY DEF LedgerUpTo
<1>2. saturating_add(l.total, amount, max) \in Int
    BY <1>1 DEF saturating_add
<1>3. AdmitEntry(l.entries, t, amount, max) \in EntriesUpTo(t)
    BY <1>1, AdmitUpTo
<1> QED  BY <1>2, <1>3 DEF admit_to_ledger, LedgerUpTo

-----------------------------------------------------------------------------
(* How a ledger covers what was spent.  c[u] is the amount spent up to     *)
(* second u.  After its first k entries a ledger holds at least what was   *)
(* spent in the window since the k-th of them: so an entry may be dropped  *)
(* when it has expired, and two may be merged at the later of their        *)
(* seconds.                                                                *)

(* The window of width w that ends in second t starts after u, or later.   *)
Starts(u, t, w) == u \in 0..t /\ (IF w = 0 THEN u = 0 ELSE u + w >= t)

Mark(entries, k) == IF k = 0 THEN 0 ELSE entries[k].ts

EntriesCover(entries, p, c, t, w) ==
    \A k \in 0..Len(entries), u \in 0..t :
        Starts(u, t, w) /\ Mark(entries, k) <= u => c[t] - c[u] <= p[Len(entries)] - p[k]

Accounts(l, entries, p, c, t, w, max) ==
    /\ t \in Nat \ {0} /\ w \in Nat
    /\ \A u \in 0..t : c[u] \in Nat
    /\ entries \in EntriesUpTo(t)
    /\ Summed(l, entries, p, max)
    /\ EntriesCover(entries, p, c, t, w)

Covered(l, c, t, w, max) == \E entries, p : Accounts(l, entries, p, c, t, w, max)

(* The types of what an accounting ledger is made of. *)
LEMMA AccountsType ==
    ASSUME NEW l, NEW es, NEW p, NEW c, NEW t, NEW w, NEW max, Accounts(l, es, p, c, t, w, max)
    PROVE  /\ t \in Nat \ {0} /\ t \in Nat /\ w \in Nat /\ max \in Nat
           /\ \A u \in 0..t : c[u] \in Nat
           /\ es \in EntriesUpTo(t) /\ es \in Seq(Entry) /\ es \in Seq(EntryUpTo(t))
           /\ Chronological(es)
           /\ Len(es) \in Nat /\ DOMAIN es = 1..Len(es)
           /\ \A i \in 1..Len(es) :
                  es[i] \in Entry /\ es[i].ts \in 1..t /\ es[i].amount \in Nat \ {0}
           /\ \A k \in 0..Len(es) : p[k] \in 0..max /\ p[k] \in Nat /\ p[k] <= p[Len(es)]
           /\ \A k \in 0..Len(es) : Mark(es, k) \in 0..t
           /\ PartialSums(p, es, max)
           /\ l = [total |-> p[Len(es)], entries |-> es]
           /\ l.total = p[Len(es)] /\ l.entries = es
<1>1. /\ t \in Nat \ {0} /\ t \in Nat /\ w \in Nat /\ max \in Nat
      /\ \A u \in 0..t : c[u] \in Nat
      /\ es \in EntriesUpTo(t) /\ PartialSums(p, es, max)
      /\ l = [total |-> p[Len(es)], entries |-> es]
    BY DEF Accounts, Summed
<1>2. /\ es \in Seq(Entry) /\ es \in Seq(EntryUpTo(t)) /\ Chronological(es)
      /\ Len(es) \in Nat /\ DOMAIN es = 1..Len(es)
      /\ \A i \in 1..Len(es) : es[i] \in EntryUpTo(t) /\ es[i] \in Entry
    BY <1>1, UpToIsEntry
<1>3. \A i \in 1..Len(es) : es[i].ts \in 1..t /\ es[i].amount \in Nat \ {0}
    BY <1>2 DEF EntryUpTo
<1>4. \A k \in 0..Len(es) : p[k] \in 0..max /\ p[k] \in Nat /\ p[k] <= p[Len(es)]
    BY <1>1, <1>2 DEF PartialSums
<1>5. \A k \in 0..Len(es) : Mark(es, k) \in 0..t
    BY <1>1, <1>2, <1>3 DEF Mark
<1> QED  BY <1>1, <1>2, <1>3, <1>4, <1>5

(* A ledger that covers is loaded as it was stored, and its total is at    *)
(* least what was spent in the window.                                     *)
LEMMA CoveredTotal ==
    ASSUME NEW l, NEW c, NEW t, NEW w, NEW max, Covered(l, c, t, w, max)
    PROVE  /\ l = [total |-> l.total, entries |-> l.entries]
           /\ l.total \in 0..max
           /\ l.entries \in EntriesUpTo(t)
           /\ ledger_from_entries(l.entries, max) = l
           /\ \A u \in 0..t : Starts(u, t, w) => c[t] - c[u] <= l.total
<1>1. PICK es, p : Accounts(l, es, p, c, t, w, max)
    BY DEF Covered
<1>2. /\ max \in Nat /\ es \in EntriesUpTo(t) /\ es \in Seq(Entry) /\ PartialSums(p, es, max)
      /\ l = [total |-> p[Len(es)], entries |-> es]
      /\ Len(es) \in Nat /\ p[Len(es)] \in 0..max /\ p[Len(es)] \in Nat /\ p[0] = 0
    BY <1>1, AccountsType DEF PartialSums
<1>3. ledger_from_entries(es, max) = l
    BY <1>2, LoadSums
<1>4. ASSUME NEW u \in 0..t, Starts(u, t, w) PROVE c[t] - c[u] <= p[Len(es)]
    <2>1. 0 \in 0..Len(es) /\ Mark(es, 0) <= u
        BY <1>2 DEF Mark
    <2>2. c[t] - c[u] <= p[Len(es)] - p[0]
        BY <1>1, <1>4, <2>1 DEF Accounts, EntriesCover
    <2> QED  BY <1>2, <2>2
<1> QED  BY <1>2, <1>3, <1>4

(* An empty ledger covers no spends. *)
LEMMA EmptyCovers ==
    ASSUME NEW t \in Nat \ {0}, NEW w \in Nat, NEW max \in Nat, NEW c,
           \A u \in 0..t : c[u] \in Nat /\ c[u] = c[t]
    PROVE  Covered(EmptyLedger, c, t, w, max)
<1> DEFINE p == [k \in {0} |-> 0]
           es == << >>
<1>1. Len(es) = 0 /\ 0..Len(es) = {0}
    OBVIOUS
<1>2. es \in Seq(Entry) /\ es \in EntriesUpTo(t)
    BY EmptySeq DEF EntriesUpTo, Chronological
<1> HIDE DEF es
<1>3. p \in [0..Len(es) -> 0..max] /\ p[0] = 0
    BY <1>1
<1>4. PartialSums(p, es, max)
    BY <1>1, <1>3 DEF PartialSums
<1>5. Summed(EmptyLedger, es, p, max)
    BY <1>1, <1>2, <1>3, <1>4 DEF Summed, EmptyLedger, es
<1>6. EntriesCover(es, p, c, t, w)
    <2> HIDE DEF p
    <2> QED  BY <1>1, <1>3 DEF EntriesCover
<1> HIDE DEF p
<1> QED  BY <1>2, <1>5, <1>6 DEF Covered, Accounts

(* A second without spends later it covers the window that ends then.      *)
LEMMA CoversLater ==
    ASSUME NEW l, NEW c, NEW t, NEW w, NEW max, Covered(l, c, t, w, max), c[t + 1] = c[t]
    PROVE  Covered(l, c, t + 1, w, max)
<1>1. PICK es, p : Accounts(l, es, p, c, t, w, max)
    BY DEF Covered
<1>2. /\ t \in Nat \ {0} /\ t \in Nat /\ t + 1 \in Nat /\ t + 1 \in Nat \ {0} /\ w \in Nat
      /\ \A u \in 0..t : c[u] \in Nat
      /\ es \in EntriesUpTo(t) /\ Summed(l, es, p, max) /\ EntriesCover(es, p, c, t, w)
    BY <1>1 DEF Accounts
<1>3. es \in EntriesUpTo(t + 1)
    BY <1>2, UpToLater
<1>4. \A u \in 0..(t + 1) : c[u] \in Nat
    BY <1>2
<1>5. EntriesCover(es, p, c, t + 1, w)
    <2> SUFFICES ASSUME NEW k \in 0..Len(es), NEW u \in 0..(t + 1), Starts(u, t + 1, w),
                        Mark(es, k) <= u
                 PROVE  c[t + 1] - c[u] <= p[Len(es)] - p[k]
        BY DEF EntriesCover
    <2>1. p[k] \in Nat /\ p[Len(es)] \in Nat /\ p[k] <= p[Len(es)]
        <3>1. Len(es) \in 0..Len(es)
            BY <1>1, AccountsType
        <3> QED  BY <1>1, <3>1, AccountsType
    <2>2. CASE u = t + 1
        BY <1>2, <1>4, <2>1, <2>2
    <2>3. CASE u # t + 1
        <3>1. u \in 0..t /\ Starts(u, t, w)
            BY <1>2, <2>3 DEF Starts
        <3>2. c[t] - c[u] <= p[Len(es)] - p[k]
            BY <1>2, <3>1 DEF EntriesCover
        <3> QED  BY <3>2
    <2> QED  BY <2>2, <2>3
<1> QED  BY <1>2, <1>3, <1>4, <1>5 DEF Covered, Accounts

(* Dropping expired entries leaves a ledger that covers. *)
LEMMA PruneCovers ==
    ASSUME NEW l, NEW c, NEW t, NEW w, NEW max, Covered(l, c, t, w, max)
    PROVE  /\ Covered(prune_entries(l, t, w), c, t, w, max)
           /\ prune_entries(l, t, w).total <= l.total
           /\ prune_protocol_call_entries(l, t, w) = prune_entries(l, t, w)
<1>0. l.total \in Nat
    <2>1. PICK es, p : Accounts(l, es, p, c, t, w, max)
        BY DEF Covered
    <2>2. Len(es) \in 0..Len(es)
        BY <2>1, AccountsType
    <2> QED  BY <2>1, <2>2, AccountsType, SMTT(30)
<1>1. CASE w = 0
    BY <1>0, <1>1 DEF prune_entries, prune_protocol_call_entries
<1>2. CASE w # 0
    <2>1. PICK es, p : Accounts(l, es, p, c, t, w, max)
        BY DEF Covered
    <2> DEFINE n == Len(es)
    <2>2. /\ t \in Nat \ {0} /\ t \in Nat /\ w \in Nat /\ max \in Nat
          /\ \A u \in 0..t : c[u] \in Nat
          /\ es \in EntriesUpTo(t) /\ es \in Seq(Entry) /\ Chronological(es) /\ n \in Nat
          /\ \A i \in 1..n : es[i] \in Entry /\ es[i].ts \in 1..t /\ es[i].amount \in Nat \ {0}
          /\ \A k \in 0..n : p[k] \in 0..max /\ p[k] \in Nat /\ p[k] <= p[n]
          /\ PartialSums(p, es, max) /\ l.total = p[n]
        BY <2>1, AccountsType
    <2>3. Summed(l, es, p, max) /\ EntriesCover(es, p, c, t, w)
        BY <2>1 DEF Accounts
    <2>4. PICK K \in 0..n : Boundary(es, t, w, K)
        BY <2>2, BoundaryExists
    <2> DEFINE rest == SubSeq(es, K + 1, n)
               q == [k \in 0..(n - K) |-> p[K + k] - p[K]]
    <2>5. /\ prune_entries(l, t, w) = Rest(es, p, K)
          /\ prune_protocol_call_entries(l, t, w) = Rest(es, p, K)
        BY <1>2, <2>3, <2>4, PruneSums
    <2>6. rest \in EntriesUpTo(t)
        BY <2>2, <2>4, SuffixUpTo
    <2>7. /\ rest \in Seq(Entry) /\ Len(rest) = n - K
          /\ \A i \in 1..(n - K) : rest[i] = es[K + i]
        BY <2>2, <2>4
    <2> HIDE DEF rest, n
    <2>8. \A k \in 0..(n - K) : K + k \in 0..n /\ q[k] = p[K + k] - p[K]
        BY <2>2, <2>4
    <2>9. K + (n - K) = n /\ n - K \in 0..(n - K) /\ K \in 0..n /\ n \in 0..n /\ n - K \in Nat
        BY <2>2, <2>4
    <2>10. \A k \in 1..n : p[k] = p[k - 1] + es[k].amount
        BY <2>2 DEF PartialSums, n
    <2>11. \A i, j \in 0..n : i <= j => p[i] <= p[j]
        <3> SUFFICES ASSUME NEW i \in 0..n PROVE \A j \in 0..n : i <= j => p[i] <= p[j]
            OBVIOUS
        <3> DEFINE N == {d \in Nat : i + d <= n => p[i] <= p[i + d]}
        <3>1. 0 \in N
            BY <2>2
        <3>2. ASSUME NEW d \in Nat, d \in N PROVE d + 1 \in N
            <4> SUFFICES ASSUME i + (d + 1) <= n PROVE p[i] <= p[i + (d + 1)]
                OBVIOUS
            <4>1. /\ i + (d + 1) \in 1..n /\ (i + (d + 1)) - 1 = i + d /\ i + d \in 0..n
                  /\ p[i] <= p[i + d]
                BY <2>2, <3>2
            <4>2. p[i + (d + 1)] = p[i + d] + es[i + (d + 1)].amount
                BY <2>10, <4>1, Zenon
            <4> QED  BY <2>2, <4>1, <4>2, SMTT(30)
        <3>3. Nat \subseteq N
            <4> HIDE DEF N
            <4> QED  BY <3>1, <3>2, SetInduction
        <3>4. ASSUME NEW j \in 0..n, i <= j PROVE p[i] <= p[j]
            <4>1. j - i \in Nat /\ i + (j - i) = j /\ j <= n
                BY <2>2, <3>4
            <4>2. j - i \in N
                BY <3>3, <4>1
            <4> QED  BY <4>1, <4>2
        <3> QED  BY <3>4
    <2>12. PartialSums(q, rest, max)
        <3>1. ASSUME NEW k \in 0..(n - K) PROVE q[k] \in 0..max /\ q[k] <= q[n - K]
            <4>1. K <= K + k /\ K + k <= n
                BY <2>2, <2>4
            <4>2. p[K] <= p[K + k] /\ p[K + k] <= p[n] /\ p[K] \in Nat /\ p[K + k] \in 0..max
                BY <2>2, <2>8, <2>9, <2>11, <4>1
            <4> QED  BY <2>2, <2>8, <2>9, <4>2, SMTT(30)
        <3>2. q \in [0..(n - K) -> 0..max]
            BY <3>1
        <3>3. q[0] = 0
            BY <2>2, <2>4, <2>9
        <3>4. ASSUME NEW k \in 1..(n - K) PROVE q[k] = q[k - 1] + rest[k].amount
            <4>1. /\ k \in 0..(n - K) /\ k - 1 \in 0..(n - K) /\ K + k \in 1..n
                  /\ (K + k) - 1 = K + (k - 1)
                BY <2>2, <2>4
            <4>2. p[K + k] = p[K + (k - 1)] + es[K + k].amount
                BY <2>10, <4>1, Zenon
            <4>3. q[k] = p[K + k] - p[K] /\ q[k - 1] = p[K + (k - 1)] - p[K]
                BY <2>8, <4>1, Zenon
            <4>4. p[K + (k - 1)] \in Nat /\ p[K] \in Nat /\ rest[k] = es[K + k]
                  /\ es[K + k].amount \in Nat
                BY <2>2, <2>7, <2>8, <2>9, <4>1
            <4> QED  BY <4>2, <4>3, <4>4
        <3> HIDE DEF q
        <3> QED  BY <2>7, <3>1, <3>2, <3>3, <3>4 DEF PartialSums
    <2>13. Summed(Rest(es, p, K), rest, q, max)
        <3>1. q[Len(rest)] = p[n] - p[K]
            BY <2>7, <2>8, <2>9
        <3> HIDE DEF q
        <3> QED  BY <2>2, <2>7, <2>12, <3>1 DEF Summed, Rest, rest, n
    <2>14. EntriesCover(rest, q, c, t, w)
        <3> SUFFICES ASSUME NEW k \in 0..(n - K), NEW u \in 0..t, Starts(u, t, w),
                            Mark(rest, k) <= u
                     PROVE  c[t] - c[u] <= q[n - K] - q[k]
            BY <2>7 DEF EntriesCover
        <3>1. Mark(es, K + k) <= u
            <4>1. CASE k = 0
                <5>1. CASE K = 0
                    BY <4>1, <5>1 DEF Mark
                <5>2. CASE K # 0
                    <6>1. K \in 1..n /\ IsExpired(es[K], t, w)
                        BY <2>4, <2>9, <5>2 DEF Boundary, n
                    <6>2. es[K].ts + w <= t /\ u + w >= t /\ es[K].ts \in Nat
                        BY <1>2, <2>2, <6>1 DEF IsExpired, Starts
                    <6>3. es[K].ts <= u
                        BY <2>2, <6>2
                    <6> QED  BY <2>4, <4>1, <5>2, <6>3 DEF Mark
                <5> QED  BY <5>1, <5>2
            <4>2. CASE k # 0
                <5>1. k \in 1..(n - K) /\ K + k # 0
                    BY <2>4, <2>9, <4>2
                <5> QED  BY <2>7, <4>2, <5>1 DEF Mark
            <4> QED  BY <4>1, <4>2
        <3>2. c[t] - c[u] <= p[n] - p[K + k]
            BY <2>3, <2>8, <3>1 DEF EntriesCover, n
        <3>3. q[n - K] = p[n] - p[K] /\ q[k] = p[K + k] - p[K]
            BY <2>8, <2>9
        <3>4. p[n] \in Nat /\ p[K] \in Nat /\ p[K + k] \in Nat
            BY <2>2, <2>8, <2>9
        <3> QED  BY <3>2, <3>3, <3>4
    <2> HIDE DEF q
    <2>15. Covered(Rest(es, p, K), c, t, w, max)
        BY <2>2, <2>6, <2>13, <2>14 DEF Covered, Accounts
    <2>16. Rest(es, p, K).total <= l.total
        <3>1. Rest(es, p, K).total = p[n] - p[K]
            BY DEF Rest, n
        <3> QED  BY <2>2, <2>9, <3>1
    <2> QED  BY <2>5, <2>15, <2>16
<1> QED  BY <1>1, <1>2

(* What a spend of `a` in second t adds to the amounts spent up to each    *)
(* second, or less.                                                        *)
Adds(c, c2, t, a) ==
    /\ \A u \in 0..t : c2[u] \in Nat
    /\ \A u \in 0..(t - 1) : c2[u] = c[u]
    /\ c2[t] <= c[t] + a

(* It is covered by as much more after every entry of an earlier second.   *)
LEMMA AddedIsCovered ==
    ASSUME NEW l, NEW es, NEW p, NEW c, NEW t, NEW w, NEW max, Accounts(l, es, p, c, t, w, max),
           NEW a \in Nat, NEW c2, Adds(c, c2, t, a), NEW k \in 0..Len(es),
           NEW u \in 0..t, Starts(u, t, w), Mark(es, k) <= u
    PROVE  c2[t] - c2[u] <= (p[Len(es)] + a) - p[k]
<1>1. /\ t \in Nat \ {0} /\ \A v \in 0..t : c[v] \in Nat
      /\ Len(es) \in Nat /\ \A i \in 0..Len(es) : p[i] \in Nat /\ p[i] <= p[Len(es)]
    BY AccountsType
<1>2. Len(es) \in 0..Len(es) /\ t \in 0..t
    BY <1>1
<1>3. p[k] \in Nat /\ p[Len(es)] \in Nat /\ p[k] <= p[Len(es)] /\ c2[t] \in Nat /\ c[t] \in Nat
    BY <1>1, <1>2 DEF Adds
<1>4. CASE u = t
    BY <1>3, <1>4
<1>5. CASE u # t
    <2>1. u \in 0..(t - 1)
        BY <1>1, <1>5
    <2>2. c2[u] = c[u] /\ c2[t] <= c[t] + a /\ c[u] \in Nat
        BY <1>1, <2>1 DEF Adds
    <2>3. c[t] - c[u] <= p[Len(es)] - p[k]
        BY DEF Accounts, EntriesCover
    <2> QED  BY <1>3, <2>2, <2>3, SMTT(30)
<1> QED  BY <1>4, <1>5

(* It joins the entry of the same second. *)
LEMMA CoalesceAccounts ==
    ASSUME NEW l, NEW es, NEW p, NEW c, NEW t, NEW w, NEW max, Accounts(l, es, p, c, t, w, max),
           NEW a \in Nat \ {0}, NEW c2, Adds(c, c2, t, a), l.total + a <= max,
           Len(es) > 0, es[Len(es)].ts = t
    PROVE  LET new == [es EXCEPT ![Len(es)].amount = saturating_add(@, a, max)]
           IN  \E q : Accounts([total |-> l.total + a, entries |-> new], new, q, c2, t, w, max)
<1> DEFINE n == Len(es)
           x == [es[n] EXCEPT !.amount = saturating_add(es[n].amount, a, max)]
           new == [es EXCEPT ![n] = x]
           q == [p EXCEPT ![n] = @ + a]
<1>1. /\ t \in Nat \ {0} /\ t \in Nat /\ w \in Nat /\ max \in Nat
      /\ es \in Seq(EntryUpTo(t)) /\ Chronological(es)
      /\ n \in Nat /\ DOMAIN es = 1..n
      /\ \A i \in 1..n : es[i] \in Entry /\ es[i].ts \in 1..t /\ es[i].amount \in Nat \ {0}
      /\ \A k \in 0..n : p[k] \in 0..max /\ p[k] \in Nat /\ p[k] <= p[n]
      /\ l.total = p[n]
    BY AccountsType
<1>2. /\ p \in [0..n -> 0..max] /\ p[0] = 0
      /\ \A k \in 1..n : p[k] = p[k - 1] + es[k].amount
    BY AccountsType DEF PartialSums
<1>3. n \in 1..n /\ n \in 0..n /\ n - 1 \in 0..n /\ 0 \in 0..n
    BY <1>1
<1>4. p[n] = p[n - 1] + es[n].amount /\ p[n - 1] \in Nat /\ es[n].amount \in Nat \ {0}
    BY <1>1, <1>2, <1>3
<1>5. saturating_add(es[n].amount, a, max) = es[n].amount + a
    BY <1>1, <1>3, <1>4 DEF saturating_add
<1>6. es[n] \in EntryUpTo(t)
    BY <1>1, <1>3, ElementOfSeq
<1>7. x \in EntryUpTo(t) /\ x.ts = es[n].ts /\ x.amount = es[n].amount + a
    <2> DEFINE y == [es[n] EXCEPT !.amount = es[n].amount + a]
    <2>1. x = y
        BY <1>5
    <2>2. y \in EntryUpTo(t) /\ y.ts = es[n].ts /\ y.amount = es[n].amount + a
        <3>1. es[n].amount + a \in Nat \ {0}
            BY <1>4
        <3> QED  BY <1>6, <3>1 DEF EntryUpTo
    <2> QED  BY <2>1, <2>2, Zenon
<1>8. [es EXCEPT ![Len(es)].amount = saturating_add(@, a, max)] = new
    OBVIOUS
<1> HIDE DEF x, n
<1>9. new \in Seq(EntryUpTo(t)) /\ Len(new) = n /\ DOMAIN new = 1..n
    BY <1>1, <1>3, <1>7, ExceptSeq DEF n
<1>10. /\ \A i \in 1..n : new[i].ts = es[i].ts
       /\ \A i \in 1..(n - 1) : new[i] = es[i]
       /\ new[n].amount = es[n].amount + a
    BY <1>1, <1>3, <1>7
<1> HIDE DEF new
<1>11. new \in EntriesUpTo(t)
    <2>1. Chronological(new)
        BY <1>1, <1>9, <1>10 DEF Chronological, n
    <2> QED  BY <1>9, <2>1 DEF EntriesUpTo
<1>12. /\ q \in [0..n -> 0..max] /\ q[n] = p[n] + a
       /\ \A k \in 0..(n - 1) : q[k] = p[k]
    BY <1>1, <1>2, <1>3
<1> HIDE DEF q
<1>13. PartialSums(q, new, max)
    <2>1. q[0] = 0
        BY <1>1, <1>2, <1>3, <1>12
    <2>2. ASSUME NEW k \in 1..n PROVE q[k] = q[k - 1] + new[k].amount
        <3>1. CASE k = n
            <4>1. n - 1 \in 0..(n - 1)
                BY <1>1, <1>3
            <4>2. q[n - 1] = p[n - 1]
                BY <1>12, <4>1
            <4> QED  BY <1>4, <1>10, <1>12, <3>1, <4>2
        <3>2. CASE k # n
            <4>1. k \in 1..(n - 1) /\ k \in 0..(n - 1) /\ k - 1 \in 0..(n - 1)
                BY <1>1, <3>2
            <4> QED  BY <1>2, <1>10, <1>12, <4>1
        <3> QED  BY <3>1, <3>2
    <2>3. ASSUME NEW k \in 0..n PROVE q[k] <= q[n]
        <3>1. p[k] \in Nat /\ p[k] <= p[n] /\ p[n] \in Nat
            BY <1>1, <1>3
        <3>2. k = n \/ k \in 0..(n - 1)
            BY <1>1
        <3> QED  BY <1>12, <3>1, <3>2
    <2> QED  BY <1>9, <1>12, <2>1, <2>2, <2>3 DEF PartialSums
<1>14. EntriesCover(new, q, c2, t, w)
    <2> SUFFICES ASSUME NEW k \in 0..n, NEW u \in 0..t, Starts(u, t, w), Mark(new, k) <= u
                 PROVE  c2[t] - c2[u] <= q[n] - q[k]
        BY <1>9 DEF EntriesCover
    <2>1. CASE k = n
        <3>1. u = t
            <4>1. Mark(new, n) = t
                BY <1>1, <1>3, <1>10 DEF Mark, n
            <4> QED  BY <1>1, <2>1, <4>1
        <3>2. c2[t] \in Nat /\ q[n] \in Nat
            BY <1>1, <1>3, <1>12 DEF Adds
        <3> QED  BY <2>1, <3>1, <3>2
    <2>2. CASE k # n
        <3>1. k \in 0..(n - 1)
            BY <1>1, <2>2
        <3>2. Mark(es, k) <= u
            <4>1. k = 0 \/ k \in 1..n
                BY <1>1
            <4> QED  BY <1>10, <4>1 DEF Mark
        <3>3. c2[t] - c2[u] <= (p[n] + a) - p[k]
            BY <3>2, AddedIsCovered DEF n
        <3> QED  BY <1>12, <3>1, <3>3
    <2> QED  BY <2>1, <2>2
<1>15. Summed([total |-> l.total + a, entries |-> new], new, q, max)
    <2>1. \A i \in 1..n : new[i] \in Entry
        <3>1. \A e \in EntryUpTo(t) : e \in Entry
            BY DEF EntryUpTo, Entry
        <3> QED  BY <1>9, <3>1, ElementOfSeq
    <2>2. new \in Seq(Entry)
        BY <1>1, <1>11, UpToIsEntry
    <2> QED  BY <1>1, <1>9, <1>12, <1>13, <2>2 DEF Summed
<1>16. Accounts([total |-> l.total + a, entries |-> new], new, q, c2, t, w, max)
    BY <1>1, <1>11, <1>14, <1>15 DEF Accounts, Adds
<1> QED  BY <1>8, <1>16

(* It becomes the newest entry. *)
LEMMA AppendAccounts ==
    ASSUME NEW l, NEW es, NEW p, NEW c, NEW t, NEW w, NEW max, Accounts(l, es, p, c, t, w, max),
           NEW a \in Nat \ {0}, NEW c2, Adds(c, c2, t, a), l.total + a <= max,
           ~ (Len(es) > 0 /\ es[Len(es)].ts = t)
    PROVE  LET new == Append(es, [ts |-> t, amount |-> a])
           IN  /\ \E q : Accounts([total |-> l.total + a, entries |-> new], new, q, c2, t, w, max)
               /\ Len(new) = Len(es) + 1
<1> DEFINE n == Len(es)
           e == [ts |-> t, amount |-> a]
           new == Append(es, e)
           q == [k \in 0..(n + 1) |-> IF k = n + 1 THEN p[n] + a ELSE p[k]]
<1>1. /\ t \in Nat \ {0} /\ t \in Nat /\ w \in Nat /\ max \in Nat
      /\ es \in Seq(EntryUpTo(t)) /\ Chronological(es)
      /\ n \in Nat /\ DOMAIN es = 1..n
      /\ \A i \in 1..n : es[i] \in Entry /\ es[i].ts \in 1..t /\ es[i].amount \in Nat \ {0}
      /\ \A k \in 0..n : p[k] \in 0..max /\ p[k] \in Nat /\ p[k] <= p[n]
      /\ l.total = p[n]
    BY AccountsType
<1>2. /\ p[0] = 0
      /\ \A k \in 1..n : p[k] = p[k - 1] + es[k].amount
    BY AccountsType DEF PartialSums
<1>3. e \in EntryUpTo(t) /\ e.ts = t /\ e.amount = a
    BY <1>1 DEF EntryUpTo
<1> HIDE DEF e
<1>4. /\ new \in Seq(EntryUpTo(t)) /\ Len(new) = n + 1
      /\ \A i \in 1..n : new[i] = es[i]
      /\ new[n + 1] = e
    BY <1>1, <1>3, AppendProperties
<1>5. \A i \in 1..n : es[i].ts < t
    <2>0. \A i, j \in 1..n : i < j => es[i].ts < es[j].ts
        BY <1>1 DEF Chronological
    <2>1. n > 0 => es[n].ts # t
        OBVIOUS
    <2> HIDE DEF n
    <2> SUFFICES ASSUME NEW i \in 1..n PROVE es[i].ts < t
        OBVIOUS
    <2>2. n \in 1..n /\ n > 0
        BY <1>1
    <2>3. es[n].ts < t
        BY <1>1, <2>1, <2>2
    <2>4. i = n \/ es[i].ts < es[n].ts
        BY <1>1, <2>0, <2>2
    <2> QED  BY <1>1, <2>2, <2>3, <2>4
<1>6. Chronological(es) /\ n = Len(es)
    BY <1>1
<1> HIDE DEF new, n
<1>7. new \in EntriesUpTo(t)
    <2> SUFFICES ASSUME NEW i \in 1..(n + 1), NEW j \in 1..(n + 1), i < j
                 PROVE  new[i].ts < new[j].ts
        BY <1>4 DEF Chronological, EntriesUpTo
    <2>1. i \in 1..n
        BY <1>1
    <2>2. CASE j = n + 1
        BY <1>3, <1>4, <1>5, <2>1, <2>2
    <2>3. CASE j \in 1..n
        BY <1>4, <1>6, <2>1, <2>3 DEF Chronological
    <2> QED  BY <1>1, <2>2, <2>3
<1>8. /\ q[n + 1] = p[n] + a /\ \A k \in 0..n : q[k] = p[k]
      /\ n \in 0..n /\ n + 1 \in 0..(n + 1) /\ 0 \in 0..n
    BY <1>1
<1>9. \A k \in 0..(n + 1) : q[k] \in 0..max /\ q[k] <= q[n + 1]
    <2> SUFFICES ASSUME NEW k \in 0..(n + 1) PROVE q[k] \in 0..max /\ q[k] <= q[n + 1]
        OBVIOUS
    <2>1. p[n] \in Nat /\ p[n] + a <= max
        BY <1>1, <1>8
    <2>2. CASE k = n + 1
        BY <1>1, <1>8, <2>1, <2>2
    <2>3. CASE k \in 0..n
        BY <1>1, <1>8, <2>1, <2>3
    <2> QED  BY <1>1, <2>2, <2>3
<1>10. q \in [0..(n + 1) -> 0..max]
    BY <1>9
<1> HIDE DEF q
<1>11. PartialSums(q, new, max)
    <2>1. ASSUME NEW k \in 1..(n + 1) PROVE q[k] = q[k - 1] + new[k].amount
        <3>1. CASE k = n + 1
            BY <1>1, <1>3, <1>4, <1>8, <3>1
        <3>2. CASE k # n + 1
            <4>1. k \in 1..n /\ k \in 0..n /\ k - 1 \in 0..n
                BY <1>1, <3>2
            <4> QED  BY <1>2, <1>4, <1>8, <4>1
        <3> QED  BY <3>1, <3>2
    <2> QED  BY <1>2, <1>4, <1>8, <1>9, <1>10, <2>1 DEF PartialSums
<1>12. EntriesCover(new, q, c2, t, w)
    <2> SUFFICES ASSUME NEW k \in 0..(n + 1), NEW u \in 0..t, Starts(u, t, w), Mark(new, k) <= u
                 PROVE  c2[t] - c2[u] <= q[n + 1] - q[k]
        BY <1>4 DEF EntriesCover
    <2>1. CASE k = n + 1
        <3>1. Mark(new, n + 1) = t
            BY <1>1, <1>3, <1>4 DEF Mark
        <3>2. u = t
            BY <1>1, <2>1, <3>1
        <3>3. c2[t] \in Nat /\ q[n + 1] \in Nat
            BY <1>1, <1>8, <1>9 DEF Adds
        <3> QED  BY <2>1, <3>2, <3>3
    <2>2. CASE k # n + 1
        <3>1. k \in 0..n
            BY <1>1, <2>2
        <3>2. Mark(es, k) <= u
            <4>1. k = 0 \/ k \in 1..n
                BY <1>1, <3>1
            <4> QED  BY <1>4, <4>1 DEF Mark
        <3>3. c2[t] - c2[u] <= (p[n] + a) - p[k]
            BY <3>1, <3>2, AddedIsCovered DEF n
        <3> QED  BY <1>8, <3>1, <3>3
    <2> QED  BY <2>1, <2>2
<1>13. Summed([total |-> l.total + a, entries |-> new], new, q, max)
    <2>1. new \in Seq(Entry)
        BY <1>1, <1>7, UpToIsEntry
    <2> QED  BY <1>1, <1>4, <1>8, <1>11, <2>1 DEF Summed
<1>14. Accounts([total |-> l.total + a, entries |-> new], new, q, c2, t, w, max)
    BY <1>1, <1>7, <1>12, <1>13 DEF Accounts, Adds
<1> QED  BY <1>4, <1>14 DEF new, e, n

(* The two oldest entries become one at the later of their seconds. *)
LEMMA MergeAccounts ==
    ASSUME NEW l, NEW es, NEW p, NEW c, NEW t, NEW w, NEW max, Accounts(l, es, p, c, t, w, max),
           Len(es) > 1
    PROVE  LET new == MergeOldest(es, max)
           IN  \E q : Accounts([total |-> l.total, entries |-> new], new, q, c, t, w, max)
<1> DEFINE n == Len(es)
           m == [ts |-> es[2].ts, amount |-> saturating_add(es[1].amount, es[2].amount, max)]
           tail == SubSeq(es, 3, n)
           new == <<m>> \o tail
           q == [k \in 0..(n - 1) |-> IF k = 0 THEN 0 ELSE p[k + 1]]
<1>1. /\ t \in Nat \ {0} /\ t \in Nat /\ w \in Nat /\ max \in Nat
      /\ es \in Seq(EntryUpTo(t)) /\ Chronological(es)
      /\ n \in Nat /\ DOMAIN es = 1..n
      /\ \A i \in 1..n : es[i] \in Entry /\ es[i].ts \in 1..t /\ es[i].amount \in Nat \ {0}
      /\ \A k \in 0..n : p[k] \in 0..max /\ p[k] \in Nat /\ p[k] <= p[n]
      /\ l.total = p[n]
      /\ \A u \in 0..t : c[u] \in Nat
    BY AccountsType
<1>2. /\ p[0] = 0
      /\ \A k \in 1..n : p[k] = p[k - 1] + es[k].amount
    BY AccountsType DEF PartialSums
<1>3. n > 1 /\ 1 \in 1..n /\ 2 \in 1..n /\ 1 \in 0..n /\ 2 \in 0..n
    BY <1>1
<1>4. p[2] = es[1].amount + es[2].amount /\ p[2] <= max
    <2>1. p[1] = p[1 - 1] + es[1].amount /\ p[2] = p[2 - 1] + es[2].amount
        BY <1>2, <1>3
    <2> QED  BY <1>1, <1>2, <1>3, <2>1
<1>5. /\ m \in EntryUpTo(t) /\ m.ts = es[2].ts /\ m.amount = p[2]
    <2>1. saturating_add(es[1].amount, es[2].amount, max) = p[2]
        BY <1>1, <1>3, <1>4 DEF saturating_add
    <2>2. es[2].ts \in 1..t /\ p[2] \in Nat \ {0}
        BY <1>1, <1>3, <1>4
    <2>3. m = [ts |-> es[2].ts, amount |-> p[2]]
        BY <2>1
    <2> HIDE DEF m
    <2> QED  BY <2>2, <2>3 DEF EntryUpTo
<1>6. MergeOldest(es, max) = new
    BY DEF MergeOldest
<1>7. tail \in Seq(EntryUpTo(t)) /\ Len(tail) = n - 2
      /\ \A i \in 1..(n - 2) : tail[i] = es[i + 2]
    BY <1>1, <1>3
<1> HIDE DEF m, tail
<1>8. /\ new \in Seq(EntryUpTo(t)) /\ Len(new) = n - 1
      /\ new[1] = m /\ \A i \in 2..(n - 1) : new[i] = es[i + 1]
    <2>1. /\ new \in Seq(EntryUpTo(t)) /\ Len(new) = Len(tail) + 1 /\ new[1] = m
          /\ \A i \in 2..(Len(tail) + 1) : new[i] = tail[i - 1]
        BY <1>5, <1>7, Prepended
    <2> HIDE DEF new, n
    <2>2. Len(new) = n - 1 /\ \A i \in 2..(n - 1) : new[i] = tail[i - 1]
        BY <1>1, <1>7, <2>1
    <2>3. \A i \in 2..(n - 1) : i - 1 \in 1..(n - 2) /\ (i - 1) + 2 = i + 1
        BY <1>1
    <2> QED  BY <1>7, <2>1, <2>2, <2>3
<1>9. n = Len(es)
    OBVIOUS
<1> HIDE DEF new, n
<1>10. \A i \in 1..(n - 1) : i + 1 \in 1..n /\ new[i].ts = es[i + 1].ts
    BY <1>1, <1>3, <1>5, <1>8
<1>11. new \in EntriesUpTo(t)
    <2> SUFFICES ASSUME NEW i \in 1..(n - 1), NEW j \in 1..(n - 1), i < j
                 PROVE  new[i].ts < new[j].ts
        BY <1>8 DEF Chronological, EntriesUpTo
    <2>1. i + 1 \in 1..n /\ j + 1 \in 1..n /\ i + 1 < j + 1
        BY <1>1
    <2> QED  BY <1>1, <1>9, <1>10, <2>1 DEF Chronological
<1>12. /\ q[0] = 0 /\ \A k \in 1..(n - 1) : q[k] = p[k + 1]
       /\ \A k \in 1..(n - 1) : k + 1 \in 1..n /\ k + 1 \in 0..n
       /\ n - 1 \in 1..(n - 1) /\ (n - 1) + 1 = n /\ q[n - 1] = p[n] /\ p[n] \in Nat /\ p[n] <= max
    BY <1>1, <1>3
<1>13. \A k \in 0..(n - 1) : q[k] \in 0..max /\ q[k] <= q[n - 1]
    <2> SUFFICES ASSUME NEW k \in 0..(n - 1) PROVE q[k] \in 0..max /\ q[k] <= q[n - 1]
        OBVIOUS
    <2>1. CASE k = 0
        BY <1>1, <1>12, <2>1
    <2>2. CASE k \in 1..(n - 1)
        BY <1>1, <1>12, <2>2
    <2> QED  BY <1>1, <2>1, <2>2
<1>14. q \in [0..(n - 1) -> 0..max]
    BY <1>13
<1> HIDE DEF q
<1>15. PartialSums(q, new, max)
    <2>1. ASSUME NEW k \in 1..(n - 1) PROVE q[k] = q[k - 1] + new[k].amount
        <3>1. CASE k = 1
            BY <1>1, <1>3, <1>5, <1>8, <1>12, <3>1
        <3>2. CASE k # 1
            <4>1. /\ k \in 2..(n - 1) /\ k + 1 \in 1..n /\ (k + 1) - 1 = k
                  /\ k - 1 \in 1..(n - 1) /\ (k - 1) + 1 = k
                BY <1>1, <3>2
            <4>2. p[k + 1] = p[k] + es[k + 1].amount
                BY <1>2, <4>1, Zenon
            <4>3. q[k] = p[k + 1] /\ q[k - 1] = p[k]
                BY <1>12, <4>1
            <4> QED  BY <1>8, <4>1, <4>2, <4>3
        <3> QED  BY <3>1, <3>2
    <2> QED  BY <1>8, <1>12, <1>13, <1>14, <2>1 DEF PartialSums
<1>16. EntriesCover(new, q, c, t, w)
    <2> SUFFICES ASSUME NEW k \in 0..(n - 1), NEW u \in 0..t, Starts(u, t, w), Mark(new, k) <= u
                 PROVE  c[t] - c[u] <= q[n - 1] - q[k]
        BY <1>8 DEF EntriesCover
    <2>0. EntriesCover(es, p, c, t, w)
        BY DEF Accounts
    <2>1. CASE k = 0
        <3>1. 0 \in 0..n /\ Mark(es, 0) <= u
            BY <1>1 DEF Mark
        <3>2. c[t] - c[u] <= p[n] - p[0]
            BY <1>9, <2>0, <3>1 DEF EntriesCover
        <3> QED  BY <1>2, <1>12, <2>1, <3>2
    <2>2. CASE k \in 1..(n - 1)
        <3>1. k + 1 \in 0..n /\ Mark(es, k + 1) <= u
            BY <1>1, <1>10, <2>2 DEF Mark
        <3>2. c[t] - c[u] <= p[n] - p[k + 1]
            BY <1>9, <2>0, <3>1 DEF EntriesCover
        <3> QED  BY <1>12, <2>2, <3>2
    <2> QED  BY <1>1, <2>1, <2>2
<1>17. Summed([total |-> l.total, entries |-> new], new, q, max)
    <2>1. new \in Seq(Entry)
        BY <1>1, <1>11, UpToIsEntry
    <2> QED  BY <1>1, <1>8, <1>12, <1>15, <2>1 DEF Summed
<1>18. Accounts([total |-> l.total, entries |-> new], new, q, c, t, w, max)
    BY <1>1, <1>11, <1>16, <1>17 DEF Accounts
<1> QED  BY <1>6, <1>18

(* So admission keeps a ledger covering, whichever of these it does.       *)
LEMMA AdmitCovers ==
    ASSUME NEW l, NEW c, NEW t, NEW w, NEW max, Covered(l, c, t, w, max),
           NEW a \in Nat \ {0}, NEW c2, Adds(c, c2, t, a), l.total + a <= max
    PROVE  /\ Covered(admit_to_ledger(l, t, a, max), c2, t, w, max)
           /\ admit_to_ledger(l, t, a, max).total = l.total + a
<1>1. PICK es, p : Accounts(l, es, p, c, t, w, max)
    BY DEF Covered
<1> DEFINE n == Len(es)
           entries == AdmitEntry(es, t, a, max)
           grown == Append(es, [ts |-> t, amount |-> a])
           sum == l.total + a
<1>2. l.entries = es /\ n \in Nat /\ l.total \in Nat
    <2>1. Len(es) \in 0..Len(es)
        BY <1>1, AccountsType
    <2> QED  BY <1>1, <2>1, AccountsType
<1>3. admit_to_ledger(l, t, a, max) = [total |-> sum, entries |-> entries]
    <2>1. max \in Nat
        BY <1>1, AccountsType
    <2>2. saturating_add(l.total, a, max) = sum
        BY <1>2, <2>1 DEF saturating_add
    <2> QED  BY <1>2, <2>2 DEF admit_to_ledger
<1> SUFFICES \E q : Accounts([total |-> sum, entries |-> entries], entries, q, c2, t, w, max)
    BY <1>3 DEF Covered
<1>4. CASE n > 0 /\ es[n].ts = t
    <2>1. entries = [es EXCEPT ![n].amount = saturating_add(@, a, max)]
        BY <1>4 DEF AdmitEntry
    <2> DEFINE new == [es EXCEPT ![Len(es)].amount = saturating_add(@, a, max)]
    <2>2. \E q : Accounts([total |-> l.total + a, entries |-> new], new, q, c2, t, w, max)
        BY <1>1, <1>4, CoalesceAccounts
    <2> QED  BY <2>1, <2>2
<1>5. CASE ~ (n > 0 /\ es[n].ts = t)
    <2>1. /\ \E q : Accounts([total |-> sum, entries |-> grown], grown, q, c2, t, w, max)
          /\ Len(grown) = n + 1
        BY <1>1, <1>5, AppendAccounts
    <2>2. CASE ~ (Len(grown) > MAX_WINDOW_ENTRIES)
        <3>1. entries = grown
            BY <1>5, <2>2 DEF AdmitEntry
        <3> QED  BY <2>1, <3>1, Zenon
    <2>3. CASE Len(grown) > MAX_WINDOW_ENTRIES
        <3>1. entries = MergeOldest(grown, max)
            BY <1>5, <2>3 DEF AdmitEntry
        <3>2. Len(grown) > 1
            BY <1>2, <2>1, <2>3, WindowBounds
        <3>3. PICK q : Accounts([total |-> sum, entries |-> grown], grown, q, c2, t, w, max)
            BY <2>1
        <3> DEFINE l2 == [total |-> sum, entries |-> grown]
        <3>4. l2.total = sum
            OBVIOUS
        <3> HIDE DEF grown, entries, sum, l2
        <3>5. Accounts(l2, grown, q, c2, t, w, max)
            BY <3>3 DEF l2
        <3>6. \E r : Accounts([total |-> l2.total, entries |-> MergeOldest(grown, max)],
                              MergeOldest(grown, max), r, c2, t, w, max)
            BY <3>2, <3>5, MergeAccounts
        <3> QED  BY <3>1, <3>4, <3>6
    <2> QED  BY <2>2, <2>3
<1> QED  BY <1>4, <1>5

(* What covers some spends covers fewer. *)
LEMMA CoversLess ==
    ASSUME NEW l, NEW c, NEW t, NEW w, NEW max, Covered(l, c, t, w, max), NEW c2, Adds(c, c2, t, 0)
    PROVE  Covered(l, c2, t, w, max)
<1>1. PICK es, p : Accounts(l, es, p, c, t, w, max)
    BY DEF Covered
<1>2. /\ t \in Nat \ {0} /\ \A u \in 0..t : c[u] \in Nat
      /\ Len(es) \in Nat /\ p[Len(es)] \in Nat
      /\ \A k \in 0..Len(es) : p[k] \in Nat /\ p[k] <= p[Len(es)]
    BY <1>1, AccountsType
<1>3. ASSUME NEW k \in 0..Len(es), NEW u \in 0..t, Starts(u, t, w), Mark(es, k) <= u
      PROVE  c2[t] - c2[u] <= p[Len(es)] - p[k]
    <2>1. c[t] - c[u] <= p[Len(es)] - p[k]
        BY <1>1, <1>3 DEF Accounts, EntriesCover
    <2>2. t \in 0..t /\ c2[t] \in Nat /\ c2[u] \in Nat /\ c2[t] <= c[t] /\ c[t] \in Nat /\ c[u] \in Nat
        BY <1>2 DEF Adds
    <2>3. p[k] \in Nat /\ p[k] <= p[Len(es)]
        BY <1>2
    <2>4. CASE u = t
        BY <1>2, <2>2, <2>3, <2>4
    <2>5. CASE u # t
        <3>1. c2[u] = c[u]
            BY <1>2, <2>5 DEF Adds
        <3> QED  BY <1>2, <2>1, <2>2, <2>3, <3>1
    <2> QED  BY <2>4, <2>5
<1>4. EntriesCover(es, p, c2, t, w)
    BY <1>3 DEF EntriesCover
<1> QED  BY <1>1, <1>4 DEF Covered, Accounts, Adds

-----------------------------------------------------------------------------
(* A ledger as a record of its own: whatever it was kept for, it covers at *)
(* least silence, and without its expired entries exactly what it holds.   *)
Silence == [u \in Nat |-> 0]

(* The cached total is the sum of the entries, for whatever was spent. *)
Tallied(l, t, max) == \E c, w : Covered(l, c, t, w, max)

LEMMA TalliedCovers ==
    ASSUME NEW l, NEW t, NEW max, Tallied(l, t, max), NEW w \in Nat
    PROVE  Covered(l, Silence, t, w, max)
<1>1. PICK es, p, c, v : Accounts(l, es, p, c, t, v, max)
    BY DEF Tallied, Covered
<1>2. /\ t \in Nat \ {0} /\ Len(es) \in Nat
      /\ \A k \in 0..Len(es) : p[k] \in Nat /\ p[k] <= p[Len(es)]
    BY <1>1, AccountsType
<1>3. \A u \in 0..t : Silence[u] = 0 /\ Silence[u] \in Nat
    BY <1>2 DEF Silence
<1>4. EntriesCover(es, p, Silence, t, w)
    <2>1. ASSUME NEW k \in 0..Len(es), NEW u \in 0..t
          PROVE  Silence[t] - Silence[u] <= p[Len(es)] - p[k]
        <3>1. Len(es) \in 0..Len(es) /\ t \in 0..t
            BY <1>2
        <3>2. Silence[t] = 0 /\ Silence[u] = 0
            BY <1>3, <3>1
        <3>3. p[k] \in Nat /\ p[Len(es)] \in Nat /\ p[k] <= p[Len(es)]
            BY <1>2, <3>1
        <3> QED  BY <3>2, <3>3
    <2> QED  BY <2>1 DEF EntriesCover
<1> QED  BY <1>1, <1>3, <1>4 DEF Covered, Accounts

(* It stays one as time passes. *)
LEMMA TalliedLater ==
    ASSUME NEW l, NEW t \in Nat \ {0}, NEW max, Tallied(l, t, max)
    PROVE  Tallied(l, t + 1, max)
<1>1. Covered(l, Silence, t, 0, max)
    BY TalliedCovers
<1>2. Silence[t + 1] = Silence[t]
    BY DEF Silence
<1>3. Covered(l, Silence, t + 1, 0, max)
    BY <1>1, <1>2, CoversLater
<1> QED  BY <1>3 DEF Tallied

(* Nothing that is left by pruning has expired. *)
LEMMA PrunedIsLive ==
    ASSUME NEW l, NEW c, NEW t, NEW w, NEW max, Covered(l, c, t, w, max), w # 0
    PROVE  \A i \in 1..Len(prune_entries(l, t, w).entries) :
               prune_entries(l, t, w).entries[i].ts + w > t
<1>1. PICK es, p : Accounts(l, es, p, c, t, w, max)
    BY DEF Covered
<1> DEFINE n == Len(es)
<1>2. /\ t \in Nat /\ w \in Nat /\ es \in Seq(Entry) /\ Chronological(es) /\ n \in Nat
      /\ \A i \in 1..n : es[i].ts \in 1..t
    BY <1>1, AccountsType
<1>3. PICK K \in 0..n : Boundary(es, t, w, K)
    BY <1>2, BoundaryExists
<1> DEFINE rest == SubSeq(es, K + 1, n)
<1>4. prune_entries(l, t, w).entries = rest
    <2>1. Summed(l, es, p, max)
        BY <1>1 DEF Accounts
    <2>2. prune_entries(l, t, w) = Rest(es, p, K)
        BY <1>3, <2>1, PruneSums
    <2> QED  BY <2>2 DEF Rest
<1>5. Len(rest) = n - K /\ \A i \in 1..(n - K) : rest[i] = es[K + i]
    BY <1>2, <1>3
<1> HIDE DEF rest
<1>6. ASSUME NEW i \in 1..(n - K) PROVE es[K + i].ts + w > t
    <2>1. K + i \in 1..n /\ K + i > K
        BY <1>2, <1>3
    <2>2. ~ IsExpired(es[K + i], t, w)
        BY <1>3, <2>1 DEF Boundary
    <2> QED  BY <1>2, <2>1, <2>2 DEF IsExpired
<1> QED  BY <1>4, <1>5, <1>6

(* So a pruned ledger covers spends that add up to its total within the    *)
(* window: those that its entries record.                                  *)
LEMMA OwnSpends ==
    ASSUME NEW l, NEW c0, NEW t, NEW w, NEW max, Covered(l, c0, t, w, max),
           w # 0 => \A i \in 1..Len(l.entries) : l.entries[i].ts + w > t
    PROVE  \E c : \E u \in 0..(t - 1) :
               /\ Covered(l, c, t, w, max) /\ Starts(u, t, w)
               /\ c[u] = 0 /\ c[t] = l.total
<1>1. PICK es, p : Accounts(l, es, p, c0, t, w, max)
    BY DEF Covered
<1> DEFINE n == Len(es)
           behind(u) == {p[n] - p[k] : k \in {j \in 0..n : Mark(es, j) <= u}}
           c == [u \in 0..t |-> p[n] - Min(behind(u))]
           u0 == IF w = 0 \/ w > t THEN 0 ELSE t - w
<1>2. /\ t \in Nat \ {0} /\ w \in Nat /\ n \in Nat /\ max \in Nat
      /\ \A i \in 1..n : es[i].ts \in 1..t
      /\ \A k \in 0..n : p[k] \in Nat /\ p[k] <= p[n] /\ Mark(es, k) \in 0..t
      /\ p[0] = 0 /\ l.total = p[n] /\ l.entries = es
    <2>1. PartialSums(p, es, max) /\ Summed(l, es, p, max)
        BY <1>1, AccountsType DEF Accounts
    <2>2. p[0] = 0 /\ l.total = p[n] /\ l.entries = es
        BY <2>1 DEF PartialSums, Summed
    <2> QED  BY <1>1, <2>2, AccountsType
<1>3. /\ u0 \in 0..(t - 1) /\ u0 \in 0..t /\ Starts(u0, t, w) /\ u0 \in Nat
      /\ w # 0 => u0 + w <= t \/ u0 = 0
    BY <1>2 DEF Starts
<1> HIDE DEF n
<1>4. \A k \in 0..n : p[n] - p[k] \in Nat /\ n \in 0..n /\ p[n] \in Nat
    BY <1>2
<1>5. ASSUME NEW u \in 0..t
      PROVE  /\ behind(u) \subseteq Nat /\ behind(u) # {} /\ Min(behind(u)) \in behind(u)
             /\ \A k \in 0..n : Mark(es, k) <= u => Min(behind(u)) <= p[n] - p[k]
             /\ Min(behind(u)) \in Nat /\ Min(behind(u)) <= p[n]
    <2>1. behind(u) \subseteq Nat
        BY <1>4
    <2>2. 0 \in 0..n /\ Mark(es, 0) <= u /\ p[n] - p[0] = p[n] /\ p[n] \in Nat
        BY <1>2, <1>4 DEF Mark
    <2>3. p[n] - p[0] \in behind(u)
        BY <2>2
    <2>4. Min(behind(u)) \in behind(u) /\ \A y \in behind(u) : Min(behind(u)) <= y
        <3> DEFINE I == behind(u)
        <3>1. I \subseteq Nat /\ I # {}
            BY <2>1, <2>3
        <3> HIDE DEF I
        <3>2. Min(I) \in I /\ \A y \in I : Min(I) <= y
            BY <3>1, LeastElement DEF Min
        <3> QED  BY <3>2 DEF I
    <2>5. \A k \in 0..n : Mark(es, k) <= u => p[n] - p[k] \in behind(u)
        OBVIOUS
    <2> HIDE DEF behind
    <2>6. Min(behind(u)) <= p[n]
        BY <2>2, <2>3, <2>4
    <2> QED  BY <2>1, <2>3, <2>4, <2>5, <2>6
<1>6. \A u \in 0..t : c[u] = p[n] - Min(behind(u))
    OBVIOUS
<1>7. c[u0] = 0
    <2>1. ASSUME NEW k \in 0..n, Mark(es, k) <= u0 PROVE k = 0
        <3> SUFFICES ASSUME k # 0 PROVE FALSE
            OBVIOUS
        <3>1. k \in 1..n /\ es[k].ts <= u0 /\ es[k].ts \in 1..t
            BY <1>2, <2>1 DEF Mark
        <3>2. u0 # 0 /\ w # 0 /\ u0 + w <= t
            BY <1>2, <1>3, <3>1
        <3>3. es[k].ts + w > t
            BY <1>2, <3>1, <3>2 DEF n
        <3> QED  BY <1>2, <1>3, <3>1, <3>2, <3>3
    <2>2. Min(behind(u0)) = p[n] - p[0]
        <3>1. PICK k \in 0..n : Mark(es, k) <= u0 /\ Min(behind(u0)) = p[n] - p[k]
            BY <1>3, <1>5
        <3> QED  BY <2>1, <3>1
    <2> QED  BY <1>2, <1>3, <1>4, <1>6, <2>2
<1>8. c[t] = p[n]
    <2>1. t \in 0..t /\ n \in 0..n /\ Mark(es, n) <= t /\ p[n] - p[n] = 0
        BY <1>2, <1>4
    <2>2. Min(behind(t)) = 0
        BY <1>5, <2>1
    <2> QED  BY <1>4, <1>6, <2>1, <2>2
<1>9. \A u \in 0..t : c[u] \in Nat
    BY <1>4, <1>5, <1>6
<1>10. EntriesCover(es, p, c, t, w)
    <2> SUFFICES ASSUME NEW k \in 0..n, NEW u \in 0..t, Mark(es, k) <= u
                 PROVE  c[t] - c[u] <= p[n] - p[k]
        BY DEF EntriesCover, n
    <2>1. c[u] = p[n] - Min(behind(u)) /\ Min(behind(u)) <= p[n] - p[k] /\ Min(behind(u)) \in Nat
        BY <1>5, <1>6
    <2> HIDE DEF behind, c
    <2> QED  BY <1>4, <1>8, <2>1
<1> HIDE DEF c, behind, u0
<1>11. Covered(l, c, t, w, max)
    BY <1>1, <1>9, <1>10 DEF Covered, Accounts
<1> QED  BY <1>2, <1>3, <1>7, <1>8, <1>11

-----------------------------------------------------------------------------
(* Pruning twice in one second *)

(* No entry has expired. *)
AllLive(entries, t, w) == w # 0 => \A i \in 1..Len(entries) : entries[i].ts + w > t

(* Pruning leaves live entries, saturated totals or not. *)
LEMMA PruneLeavesLive ==
    ASSUME NEW t \in Nat, NEW l \in LedgerUpTo(t), NEW w \in Nat
    PROVE  /\ AllLive(prune_entries(l, t, w).entries, t, w)
           /\ AllLive(prune_protocol_call_entries(l, t, w).entries, t, w)
<1> SUFFICES ASSUME w # 0
             PROVE  /\ AllLive(prune_entries(l, t, w).entries, t, w)
                    /\ AllLive(prune_protocol_call_entries(l, t, w).entries, t, w)
    BY DEF AllLive
<1> DEFINE es == l.entries
           n == Len(es)
<1>1. es \in EntriesUpTo(t)
    BY DEF LedgerUpTo
<1>2. es \in Seq(Entry) /\ n \in Nat /\ Chronological(es) /\ \A i \in 1..n : es[i] \in Entry
    BY <1>1, UpToIsEntry
<1>3. PICK K \in 0..n : Boundary(es, t, w, K)
    BY <1>2, BoundaryExists
<1> DEFINE rest == SubSeq(es, K + 1, n)
<1>4. AllLive(rest, t, w)
    <2>1. Len(rest) = n - K /\ \A i \in 1..(n - K) : rest[i] = es[K + i]
        BY <1>2, <1>3
    <2> HIDE DEF rest
    <2>2. ASSUME NEW i \in 1..(n - K) PROVE es[K + i].ts + w > t
        <3>1. K + i \in 1..n /\ K + i > K
            BY <1>2, <1>3
        <3>2. ~ IsExpired(es[K + i], t, w)
            BY <1>3, <3>1 DEF Boundary
        <3>3. es[K + i].ts \in Nat
            BY <1>2, <3>1 DEF Entry
        <3> QED  BY <3>2, <3>3, SMTT(30) DEF IsExpired
    <2> QED  BY <2>1, <2>2 DEF AllLive
<1>5. AllLive(<<>>, t, w)
    BY DEF AllLive
<1>6. prune_entries(l, t, w).entries = rest \/ prune_entries(l, t, w).entries = <<>>
    <2>1. ExpiredPrefix(es, t, w) = K
        BY <1>2, <1>3, BinarySearch
    <2> QED  BY <2>1 DEF prune_entries, DropFront, EmptyLedger
<1>7. prune_protocol_call_entries(l, t, w).entries = rest
    <2>1. PoppedPrefix(es, t, w) = K
        BY <1>2, <1>3, LinearSearch
    <2>2. prune_protocol_call_entries(l, t, w) = DropFront(l, PoppedPrefix(es, t, w), 0)
        BY DEF prune_protocol_call_entries, PoppedPrefix
    <2>3. DropFront(l, K, 0) = [total |-> TotalAfter(l.total, SubSeq(es, 1, K), 0), entries |-> rest]
        BY DEF DropFront, TotalAfter
    <2>4. prune_protocol_call_entries(l, t, w)
              = [total |-> TotalAfter(l.total, SubSeq(es, 1, K), 0), entries |-> rest]
        BY <2>1, <2>2, <2>3, Zenon
    <2> HIDE DEF rest
    <2> QED  BY <2>4
<1> HIDE DEF rest
<1> QED  BY <1>4, <1>5, <1>6, <1>7, Zenon

(* Taking off nothing. *)
LEMMA TakeNothing ==
    ASSUME NEW min \in Int, NEW total \in Int, NEW es \in Seq(Entry), Len(es) = 0
    PROVE  TotalAfter(total, es, min) = total
<1>1. PICK r : /\ r[0] = total
               /\ \A k \in 1..Len(es) : r[k] = saturating_sub(r[k - 1], es[k].amount, min)
               /\ TotalAfter(total, es, min) = r[Len(es)]
    BY TakeRun
<1> QED  BY <1>1

(* And a ledger of live entries is left as it is. *)
LEMMA LiveStays ==
    ASSUME NEW t \in Nat, NEW l \in LedgerUpTo(t), NEW w \in Nat, AllLive(l.entries, t, w)
    PROVE  /\ prune_entries(l, t, w) = l
           /\ prune_protocol_call_entries(l, t, w) = l
<1>1. CASE w = 0
    BY <1>1 DEF prune_entries, prune_protocol_call_entries
<1>2. CASE w # 0
    <2> DEFINE es == l.entries
               n == Len(es)
    <2>1. es \in EntriesUpTo(t) /\ l.total \in Int /\ l = [total |-> l.total, entries |-> es]
        BY DEF LedgerUpTo
    <2>2. es \in Seq(Entry) /\ n \in Nat /\ \A i \in 1..n : es[i] \in Entry
        BY <2>1, UpToIsEntry
    <2>3. Boundary(es, t, w, 0)
        <3>1. \A i \in 1..n : es[i].ts \in Nat /\ es[i].ts + w > t
            BY <1>2, <2>2 DEF AllLive, Entry
        <3>2. \A i \in 1..n : ~ IsExpired(es[i], t, w) /\ ~ (i <= 0)
            BY <2>2, <3>1 DEF IsExpired
        <3>3. 0 \in 0..n
            BY <2>2
        <3> QED  BY <3>2, <3>3, Zenon DEF Boundary
    <2>4. ExpiredPrefix(es, t, w) = 0 /\ PoppedPrefix(es, t, w) = 0
        BY <2>2, <2>3, BinarySearch, LinearSearch
    <2>5. ASSUME NEW min \in Int PROVE DropFront(l, 0, min) = l
        <3>1. SubSeq(es, 1, 0) = <<>> /\ SubSeq(es, 0 + 1, n) = es
            BY <2>2
        <3>2. <<>> \in Seq(Entry) /\ Len(<<>>) = 0
            BY EmptySeq
        <3>3. TotalAfter(l.total, <<>>, min) = l.total
            BY <2>1, <3>2, TakeNothing, Zenon
        <3>4. DropFront(l, 0, min) = [total   |-> TotalAfter(l.total, SubSeq(es, 1, 0), min),
                                      entries |-> SubSeq(es, 0 + 1, n)]
            BY DEF DropFront, TotalAfter
        <3> QED  BY <2>1, <3>1, <3>3, <3>4, Zenon
    <2>6. prune_entries(l, t, w) = DropFront(l, 0, -I128_MAX - 1) /\ -I128_MAX - 1 \in Int
        BY <1>2, <2>4, WindowBounds DEF prune_entries
    <2>7. prune_protocol_call_entries(l, t, w) = DropFront(l, PoppedPrefix(es, t, w), 0)
        BY <1>2 DEF prune_protocol_call_entries, PoppedPrefix
    <2>8. 0 \in Int
        OBVIOUS
    <2> QED  BY <2>4, <2>5, <2>6, <2>7, <2>8, Zenon
<1> QED  BY <1>1, <1>2

-----------------------------------------------------------------------------
(* Splitting an admission *)

(* Loading is exact as long as the total stays below the ceiling of its    *)
(* type: nothing was cut off on the way.                                   *)
LEMMA LoadTallies ==
    ASSUME NEW t \in Nat \ {0}, NEW es \in EntriesUpTo(t), NEW max \in Nat,
           ledger_from_entries(es, max).total < max
    PROVE  Tallied(ledger_from_entries(es, max), t, max)
<1> DEFINE n == Len(es)
           l == ledger_from_entries(es, max)
<1>1. es \in Seq(Entry) /\ n \in Nat /\ \A i \in 1..n : es[i] \in Entry
    BY UpToIsEntry
<1>2. PICK r : /\ r[0] = EmptyLedger
               /\ \A k \in 1..n : r[k] = LoadEntry(r[k - 1], es[k], max)
               /\ l = r[n]
    BY <1>1, LoadRun
<1>3. l.entries = es
    BY LoadUpTo
<1>4. l.total < max
    OBVIOUS
<1> HIDE DEF n, l
<1> DEFINE N == {k \in Nat : k <= n => /\ r[k] \in LedgerOf(max)
                                       /\ \A j \in 0..k : r[j].total \in Nat /\ r[j].total <= r[k].total}
<1>5. \A k \in 0..n : r[k] \in LedgerOf(max) /\ \A j \in 0..k : r[j].total \in Nat /\ r[j].total <= r[k].total
    <2>1. 0 \in N
        <3>1. EmptyLedger \in LedgerOf(max)
            BY EmptySeq DEF EmptyLedger, LedgerOf
        <3>2. r[0] \in LedgerOf(max) /\ r[0].total = 0
            BY <1>2, <3>1 DEF EmptyLedger
        <3>3. \A j \in 0..0 : j = 0
            OBVIOUS
        <3> QED  BY <3>2, <3>3
    <2>2. ASSUME NEW k \in Nat, k \in N PROVE k + 1 \in N
        <3> SUFFICES ASSUME k + 1 <= n
                     PROVE  /\ r[k + 1] \in LedgerOf(max)
                            /\ \A j \in 0..(k + 1) : r[j].total \in Nat /\ r[j].total <= r[k + 1].total
            OBVIOUS
        <3>1. k + 1 \in 1..n /\ (k + 1) - 1 = k /\ es[k + 1] \in Entry /\ k <= n
            BY <1>1
        <3>2. r[k] \in LedgerOf(max) /\ \A j \in 0..k : r[j].total \in Nat /\ r[j].total <= r[k].total
            BY <2>2, <3>1
        <3>3. r[k + 1] = LoadEntry(r[k], es[k + 1], max)
            BY <1>2, <3>1, Zenon
        <3>4. r[k + 1] \in LedgerOf(max)
            BY <3>1, <3>2, <3>3, LoadEntryType
        <3>5. r[k + 1].total = saturating_add(r[k].total, es[k + 1].amount, max)
            BY <3>1, <3>3 DEF LoadEntry, Entry
        <3>6. r[k].total \in 0..max /\ es[k + 1].amount \in Nat
            BY <3>1, <3>2 DEF LedgerOf, Entry
        <3>7. r[k].total <= r[k + 1].total
            BY <3>5, <3>6 DEF saturating_add
        <3>8. r[k + 1].total \in 0..max
            BY <3>4 DEF LedgerOf
        <3>9. ASSUME NEW j \in 0..(k + 1) PROVE r[j].total \in Nat /\ r[j].total <= r[k + 1].total
            <4>1. CASE j = k + 1
                BY <3>8, <4>1
            <4>2. CASE j \in 0..k
                <5>1. r[j].total \in Nat /\ r[j].total <= r[k].total
                    BY <3>2, <4>2
                <5> QED  BY <3>6, <3>7, <3>8, <5>1
            <4> QED  BY <4>1, <4>2
        <3> QED  BY <3>4, <3>9
    <2>3. \A k \in Nat : k \in N
        <3> HIDE DEF N
        <3> QED  BY <2>1, <2>2, SetInduction
    <2> QED  BY <1>1, <2>3
<1> DEFINE p == [k \in 0..n |-> r[k].total]
<1>6. \A k \in 0..n : r[k].total \in 0..max /\ r[k].total <= r[n].total
    <2>1. n \in 0..n
        BY <1>1
    <2> QED  BY <1>5, <2>1 DEF LedgerOf
<1>7. ASSUME NEW k \in 1..n PROVE r[k].total = r[k - 1].total + es[k].amount
    <2>1. k \in 0..n /\ k - 1 \in 0..n
        BY <1>1
    <2>2. r[k].total = saturating_add(r[k - 1].total, es[k].amount, max)
        <3>1. r[k] = LoadEntry(r[k - 1], es[k], max) /\ es[k] \in Entry
            BY <1>1, <1>2, Zenon
        <3> QED  BY <3>1 DEF LoadEntry, Entry
    <2>3. r[k].total < max
        <3>1. r[n].total < max /\ n \in 0..n
            BY <1>1, <1>2, <1>4
        <3>2. r[k].total \in 0..max /\ r[n].total \in 0..max /\ r[k].total <= r[n].total
            BY <1>6, <2>1, <3>1, Zenon
        <3> QED  BY <3>1, <3>2
    <2>4. es[k].amount \in Nat
        BY <1>1 DEF Entry
    <2> QED  BY <1>6, <2>1, <2>2, <2>3, <2>4 DEF saturating_add
<1>8. PartialSums(p, es, max)
    <2>1. p \in [0..n -> 0..max]
        BY <1>6
    <2>2. p[0] = 0
        BY <1>1, <1>2 DEF EmptyLedger
    <2>3. \A k \in 1..n : p[k] = p[k - 1] + es[k].amount
        <3> SUFFICES ASSUME NEW k \in 1..n PROVE p[k] = p[k - 1] + es[k].amount
            OBVIOUS
        <3>1. k \in 0..n /\ k - 1 \in 0..n
            BY <1>1
        <3> QED  BY <1>7, <3>1
    <2>4. n \in 0..n
        BY <1>1
    <2>5. \A k \in 0..n : p[k] <= p[n]
        BY <1>6, <2>4
    <2> HIDE DEF p
    <2> QED  BY <2>1, <2>2, <2>3, <2>5 DEF PartialSums, n
<1>9. l = [total |-> p[n], entries |-> es]
    <2>1. n \in 0..n /\ p[n] = r[n].total
        BY <1>1
    <2>2. l \in LedgerOf(max)
        BY <1>2, <1>5, <2>1
    <2> HIDE DEF p
    <2> QED  BY <1>2, <1>3, <2>1, <2>2 DEF LedgerOf
<1>10. Summed(l, es, p, max)
    <2> HIDE DEF p
    <2> QED  BY <1>1, <1>8, <1>9 DEF Summed, n
<1>11. EntriesCover(es, p, Silence, t, 0)
    <2> HIDE DEF p
    <2> SUFFICES ASSUME NEW k \in 0..n, NEW u \in 0..t
                 PROVE  Silence[t] - Silence[u] <= p[n] - p[k]
        BY DEF EntriesCover, n
    <2>1. Silence[t] = 0 /\ Silence[u] = 0
        BY DEF Silence
    <2>2. p[k] \in 0..max /\ p[n] \in 0..max /\ p[k] <= p[n]
        <3>1. n \in 0..n
            BY <1>1
        <3> QED  BY <1>6, <3>1 DEF p
    <2> QED  BY <2>1, <2>2
<1>12. Accounts(l, es, p, Silence, t, 0, max)
    <2> HIDE DEF p
    <2>1. \A u \in 0..t : Silence[u] \in Nat
        BY DEF Silence
    <2> QED  BY <1>10, <1>11, <2>1 DEF Accounts
<1>13. Covered(l, Silence, t, 0, max)
    <2> HIDE DEF p
    <2> QED  BY <1>12, Zenon DEF Covered
<1> QED  BY <1>13, Zenon DEF Tallied, l

(* Admission adds an entry of this second or moves amounts into a newer    *)
(* one: live entries stay live.                                            *)
LEMMA AdmitLive ==
    ASSUME NEW t \in Nat \ {0}, NEW es \in EntriesUpTo(t), NEW amount \in Nat \ {0},
           NEW max, NEW w \in Nat, AllLive(es, t, w)
    PROVE  AllLive(AdmitEntry(es, t, amount, max), t, w)
<1> SUFFICES ASSUME w # 0
             PROVE  \A i \in 1..Len(AdmitEntry(es, t, amount, max)) :
                        AdmitEntry(es, t, amount, max)[i].ts + w > t
    BY DEF AllLive
<1> DEFINE n == Len(es)
           e == [ts |-> t, amount |-> amount]
           grown == Append(es, e)
<1>1. /\ es \in Seq(Entry) /\ n \in Nat /\ DOMAIN es = 1..n
      /\ \A i \in 1..n : es[i] \in Entry /\ es[i].ts \in Nat /\ es[i].ts + w > t
    BY UpToIsEntry DEF AllLive, Entry
<1>2. CASE n > 0 /\ es[n].ts = t
    <2> DEFINE x == [es[n] EXCEPT !.amount = saturating_add(es[n].amount, amount, max)]
               new == [es EXCEPT ![n] = x]
    <2>1. n \in 1..n /\ x.ts = es[n].ts
        BY <1>1, <1>2 DEF Entry
    <2>2. AdmitEntry(es, t, amount, max) = new
        BY <1>2 DEF AdmitEntry
    <2> HIDE DEF x
    <2>3. DOMAIN new = 1..n /\ Len(new) = n
        BY <1>1, <2>1
    <2>4. \A i \in 1..n : new[i].ts = es[i].ts
        BY <1>1, <2>1
    <2> HIDE DEF new
    <2> QED  BY <1>1, <2>2, <2>3, <2>4
<1>3. CASE ~ (n > 0 /\ es[n].ts = t)
    <2>1. e.ts = t /\ e \in Entry
        BY DEF Entry
    <2> HIDE DEF e
    <2>2. /\ grown \in Seq(Entry) /\ Len(grown) = n + 1
          /\ \A i \in 1..n : grown[i] = es[i]
          /\ grown[n + 1] = e
        BY <1>1, <2>1, AppendProperties
    <2> HIDE DEF grown
    <2>3. \A i \in 1..(n + 1) : grown[i].ts + w > t
        BY <1>1, <2>1, <2>2
    <2>4. CASE ~ (n + 1 > MAX_WINDOW_ENTRIES)
        <3>1. AdmitEntry(es, t, amount, max) = grown
            BY <1>3, <2>2, <2>4 DEF AdmitEntry, grown, e
        <3> QED  BY <2>2, <2>3, <3>1
    <2>5. CASE n + 1 > MAX_WINDOW_ENTRIES
        <3> DEFINE m == [ts |-> grown[2].ts,
                         amount |-> saturating_add(grown[1].amount, grown[2].amount, max)]
                   tail == SubSeq(grown, 3, n + 1)
                   new == <<m>> \o tail
        <3>1. AdmitEntry(es, t, amount, max) = new
            BY <1>3, <2>2, <2>5 DEF AdmitEntry, MergeOldest, grown, e
        <3>2. n >= 1 /\ 2 \in 1..(n + 1)
            BY <1>1, <2>5, WindowBounds
        <3>3. m.ts = grown[2].ts
            OBVIOUS
        <3>4. tail \in Seq(Entry) /\ Len(tail) = n - 1
              /\ \A i \in 1..(n - 1) : tail[i] = grown[i + 2]
            BY <1>1, <2>2, <3>2
        <3> HIDE DEF m, tail
        <3>5. /\ Len(new) = Len(tail) + 1 /\ new[1] = m
              /\ \A i \in 2..(Len(tail) + 1) : new[i] = tail[i - 1]
            <4>1. m \in Entry \union {m} /\ tail \in Seq(Entry \union {m})
                BY <3>4
            <4> QED  BY <4>1, Prepended
        <3> HIDE DEF new
        <3>6. ASSUME NEW i \in 1..n PROVE new[i].ts + w > t
            <4>1. CASE i = 1
                BY <2>3, <3>2, <3>3, <3>5, <4>1
            <4>2. CASE i # 1
                <5>1. i \in 2..n /\ i - 1 \in 1..(n - 1) /\ (i - 1) + 2 = i + 1 /\ i + 1 \in 1..(n + 1)
                    BY <1>1, <4>2
                <5>2. new[i] = grown[i + 1]
                    BY <1>1, <3>4, <3>5, <5>1
                <5> QED  BY <2>3, <5>1, <5>2
            <4> QED  BY <4>1, <4>2
        <3> QED  BY <1>1, <3>1, <3>4, <3>5, <3>6
    <2> QED  BY <2>4, <2>5
<1> QED  BY <1>2, <1>3

(* Adding twice saturates like adding the saturated sum. *)
LEMMA SaturatesTwice ==
    ASSUME NEW x \in Nat, NEW a \in Nat \ {0}, NEW b \in Nat \ {0}, NEW max \in Nat
    PROVE  saturating_add(saturating_add(x, a, max), b, max)
               = saturating_add(x, saturating_add(a, b, max), max)
BY SMTT(30) DEF saturating_add

(* Coalescing with the last entry, whose amount is all that changes. *)
LEMMA Coalesced ==
    ASSUME NEW es \in Seq(Entry), Len(es) > 0, NEW t \in Nat, es[Len(es)].ts = t,
           NEW a, NEW max
    PROVE  AdmitEntry(es, t, a, max)
               = [es EXCEPT ![Len(es)] =
                     [ts |-> t, amount |-> saturating_add(es[Len(es)].amount, a, max)]]
<1> DEFINE n == Len(es)
           x == [es[n] EXCEPT !.amount = saturating_add(es[n].amount, a, max)]
<1>1. n \in Nat /\ n \in 1..n /\ es[n] \in Entry
    BY ElementOfSeq, LenProperties
<1>2. x = [ts |-> t, amount |-> saturating_add(es[n].amount, a, max)]
    BY <1>1 DEF Entry
<1>3. AdmitEntry(es, t, a, max) = [es EXCEPT ![n] = x]
    BY DEF AdmitEntry
<1> QED  BY <1>2, <1>3

(* Two admissions in one second leave the entries that one admission of    *)
(* their sum leaves, at the bound too.                                     *)
LEMMA AdmitTwice ==
    ASSUME NEW t \in Nat \ {0}, NEW es \in Seq(Entry), NEW a \in Nat \ {0}, NEW b \in Nat \ {0},
           NEW max \in Nat \ {0}
    PROVE  AdmitEntry(AdmitEntry(es, t, a, max), t, b, max)
               = AdmitEntry(es, t, saturating_add(a, b, max), max)
<1> DEFINE n == Len(es)
           ab == saturating_add(a, b, max)
           once == AdmitEntry(es, t, a, max)
           sum == AdmitEntry(es, t, ab, max)
<1>1. n \in Nat /\ DOMAIN es = 1..n /\ \A i \in 1..n : es[i] \in Entry
    BY ElementOfSeq, LenProperties
<1>2. ab \in Nat \ {0}
    BY DEF saturating_add
<1>a. \A x \in Nat : saturating_add(saturating_add(x, a, max), b, max) = saturating_add(x, ab, max)
    BY SaturatesTwice
<1> HIDE DEF ab
<1>3. CASE n > 0 /\ es[n].ts = t
    <2> DEFINE y == [ts |-> t, amount |-> saturating_add(es[n].amount, a, max)]
               z == [ts |-> t, amount |-> saturating_add(es[n].amount, ab, max)]
    <2>1. n \in 1..n /\ es[n].amount \in Nat /\ es[n].amount \in Nat \ {0}
        BY <1>1, <1>3 DEF Entry
    <2>2. once = [es EXCEPT ![n] = y] /\ sum = [es EXCEPT ![n] = z]
        BY <1>3, Coalesced
    <2>3. y \in Entry /\ y.ts = t /\ y.amount = saturating_add(es[n].amount, a, max)
        BY <2>1 DEF Entry, saturating_add
    <2>4. z = [ts |-> t, amount |-> saturating_add(y.amount, b, max)]
        BY <2>1, <2>3, SaturatesTwice DEF ab
    <2> HIDE DEF y, z, once, sum
    <2>5. once \in Seq(Entry) /\ Len(once) = n /\ DOMAIN once = 1..n /\ once[n] = y
        BY <1>1, <2>1, <2>2, <2>3, ExceptSeq
    <2>6. AdmitEntry(once, t, b, max)
              = [once EXCEPT ![n] = [ts |-> t, amount |-> saturating_add(once[n].amount, b, max)]]
        BY <1>3, <2>3, <2>5, Coalesced
    <2>7. AdmitEntry(once, t, b, max) = [once EXCEPT ![n] = z]
        BY <2>4, <2>5, <2>6
    <2>8. [once EXCEPT ![n] = z] = [es EXCEPT ![n] = z]
        BY <1>1, <2>1, <2>2
    <2> QED  BY <2>2, <2>7, <2>8 DEF once, sum, ab
<1>4. CASE ~ (n > 0 /\ es[n].ts = t)
    <2> DEFINE e == [ts |-> t, amount |-> a]
               f == [ts |-> t, amount |-> ab]
               ge == Append(es, e)
               gf == Append(es, f)
    <2>1. e \in Entry /\ f \in Entry /\ e.ts = t /\ f.ts = t /\ e.amount = a /\ f.amount = ab
        BY <1>2 DEF Entry
    <2>2. f = [ts |-> t, amount |-> saturating_add(e.amount, b, max)]
        BY <2>1 DEF ab
    <2> HIDE DEF e, f
    <2>3. /\ ge \in Seq(Entry) /\ Len(ge) = n + 1 /\ DOMAIN ge = 1..(n + 1)
          /\ \A i \in 1..n : ge[i] = es[i]
          /\ ge[n + 1] = e
        BY <1>1, <2>1, AppendProperties
    <2>4. /\ gf \in Seq(Entry) /\ Len(gf) = n + 1 /\ DOMAIN gf = 1..(n + 1)
          /\ \A i \in 1..n : gf[i] = es[i]
          /\ gf[n + 1] = f
        BY <1>1, <2>1, AppendProperties
    <2> HIDE DEF ge, gf
    <2>5. CASE ~ (n + 1 > MAX_WINDOW_ENTRIES)
        <3>1. once = ge /\ sum = gf
            BY <1>4, <2>3, <2>4, <2>5 DEF AdmitEntry, ge, gf, e, f
        <3> HIDE DEF once, sum
        <3>2. n + 1 > 0 /\ ge[n + 1].ts = t
            BY <1>1, <2>1, <2>3
        <3>3. AdmitEntry(ge, t, b, max)
                  = [ge EXCEPT ![n + 1] = [ts |-> t, amount |-> saturating_add(ge[n + 1].amount, b, max)]]
            BY <2>3, <3>2, Coalesced
        <3>4. AdmitEntry(ge, t, b, max) = [ge EXCEPT ![n + 1] = f]
            BY <2>2, <2>3, <3>3
        <3> DEFINE h == [ge EXCEPT ![n + 1] = f]
        <3>5. h \in Seq(Entry) /\ Len(h) = n + 1 /\ h[n + 1] = f /\ \A i \in 1..n : h[i] = ge[i]
            <4>1. n + 1 \in 1..(n + 1)
                BY <1>1
            <4>2. h \in Seq(Entry) /\ Len(h) = n + 1
                BY <2>1, <2>3, <4>1, ExceptSeq
            <4>3. \A i \in 1..n : i \in 1..(n + 1) /\ i # n + 1
                BY <1>1
            <4> QED  BY <2>3, <4>1, <4>2, <4>3
        <3> HIDE DEF h
        <3>6. \A i \in 1..(n + 1) : h[i] = gf[i]
            BY <1>1, <2>3, <2>4, <3>5
        <3>7. h = gf
            BY <2>4, <3>5, <3>6, SeqEqual
        <3> QED  BY <3>1, <3>4, <3>7 DEF once, sum, ab, h
    <2>6. CASE n + 1 > MAX_WINDOW_ENTRIES
        <3> DEFINE m == [ts |-> ge[2].ts, amount |-> saturating_add(ge[1].amount, ge[2].amount, max)]
                   k == [ts |-> gf[2].ts, amount |-> saturating_add(gf[1].amount, gf[2].amount, max)]
                   te == SubSeq(ge, 3, n + 1)
                   tf == SubSeq(gf, 3, n + 1)
        <3>1. once = <<m>> \o te /\ sum = <<k>> \o tf
            BY <1>4, <2>3, <2>4, <2>6 DEF AdmitEntry, MergeOldest, ge, gf, e, f
        <3>2. n >= 1 /\ 1 \in 1..n /\ 1 \in 1..(n + 1) /\ 2 \in 1..(n + 1)
            BY <1>1, <2>6, WindowBounds
        <3>3. /\ ge[1] = es[1] /\ gf[1] = es[1] /\ ge[1] \in Entry /\ ge[2] \in Entry /\ gf[2] \in Entry
              /\ es[1].amount \in Nat \ {0}
            <4>1. ge[1] = es[1] /\ gf[1] = es[1] /\ es[1] \in Entry
                BY <1>1, <2>3, <2>4, <3>2
            <4>2. ge[2] \in Entry /\ gf[2] \in Entry
                BY <2>3, <2>4, <3>2, ElementOfSeq
            <4> QED  BY <4>1, <4>2 DEF Entry
        <3>4. m \in Entry /\ k \in Entry
            <4>1. ASSUME NEW x \in Entry, NEW y \in Entry
                  PROVE  /\ saturating_add(x.amount, y.amount, max) \in Nat \ {0}
                         /\ y.ts \in Nat
                BY DEF Entry, saturating_add
            <4>2. /\ saturating_add(ge[1].amount, ge[2].amount, max) \in Nat \ {0}
                  /\ saturating_add(gf[1].amount, gf[2].amount, max) \in Nat \ {0}
                  /\ ge[2].ts \in Nat /\ gf[2].ts \in Nat
                BY <3>3, <4>1
            <4> QED  BY <4>2 DEF Entry
        <3>5. /\ te \in Seq(Entry) /\ Len(te) = n - 1
              /\ \A i \in 1..(n - 1) : te[i] = ge[i + 2]
            BY <1>1, <2>3, <3>2
        <3>6. /\ tf \in Seq(Entry) /\ Len(tf) = n - 1
              /\ \A i \in 1..(n - 1) : tf[i] = gf[i + 2]
            BY <1>1, <2>4, <3>2
        <3>7. n = 1 => k = [ts |-> t, amount |-> saturating_add(m.amount, b, max)] /\ m.ts = t
            <4> SUFFICES ASSUME n = 1
                         PROVE  k = [ts |-> t, amount |-> saturating_add(m.amount, b, max)] /\ m.ts = t
                OBVIOUS
            <4>1. ge[2] = e /\ gf[2] = f
                BY <2>3, <2>4
            <4>2. m.amount = saturating_add(es[1].amount, a, max) /\ m.ts = t
                BY <2>1, <3>3, <4>1
            <4>3. k = [ts |-> t, amount |-> saturating_add(es[1].amount, ab, max)]
                BY <2>1, <3>3, <4>1
            <4>4. saturating_add(saturating_add(es[1].amount, a, max), b, max)
                      = saturating_add(es[1].amount, ab, max)
                <5>1. es[1].amount \in Nat
                    BY <3>3
                <5> QED  BY <1>a, <5>1, Zenon
            <4> HIDE DEF m, k
            <4> QED  BY <4>2, <4>3, <4>4
        <3>8. n > 1 => k = m
            <4> SUFFICES ASSUME n > 1 PROVE k = m
                OBVIOUS
            <4>1. 2 \in 1..n
                BY <1>1
            <4>2. ge[2] = es[2] /\ gf[2] = es[2]
                BY <2>3, <2>4, <4>1
            <4> QED  BY <3>3, <4>2
        <3> HIDE DEF m, k, te, tf
        <3>9. /\ once \in Seq(Entry) /\ Len(once) = n /\ once[1] = m
              /\ \A i \in 2..n : once[i] = ge[i + 1]
            <4>1. /\ once \in Seq(Entry) /\ Len(once) = Len(te) + 1 /\ once[1] = m
                  /\ \A i \in 2..(Len(te) + 1) : once[i] = te[i - 1]
                BY <3>1, <3>4, <3>5, Prepended
            <4> HIDE DEF once
            <4>2. \A i \in 2..n : i - 1 \in 1..(n - 1) /\ (i - 1) + 2 = i + 1
                BY <1>1
            <4>3. Len(te) + 1 = n
                BY <1>1, <3>5
            <4> QED  BY <3>5, <4>1, <4>2, <4>3
        <3>10. /\ sum \in Seq(Entry) /\ Len(sum) = n /\ sum[1] = k
               /\ \A i \in 2..n : sum[i] = gf[i + 1]
            <4>1. /\ sum \in Seq(Entry) /\ Len(sum) = Len(tf) + 1 /\ sum[1] = k
                  /\ \A i \in 2..(Len(tf) + 1) : sum[i] = tf[i - 1]
                BY <3>1, <3>4, <3>6, Prepended
            <4> HIDE DEF sum
            <4>2. \A i \in 2..n : i - 1 \in 1..(n - 1) /\ (i - 1) + 2 = i + 1
                BY <1>1
            <4>3. Len(tf) + 1 = n
                BY <1>1, <3>6
            <4> QED  BY <3>6, <4>1, <4>2, <4>3
        <3> HIDE DEF once, sum
        <3> DEFINE x == [ts |-> t, amount |-> saturating_add(once[n].amount, b, max)]
        <3>11. n \in 1..n /\ n > 0 /\ once[n].ts = t /\ x = sum[n]
            <4>1. CASE n = 1
                BY <3>7, <3>9, <3>10, <4>1
            <4>2. CASE n > 1
                <5>1. n \in 2..n
                    BY <1>1, <4>2
                <5>2. once[n] = e /\ sum[n] = f
                    BY <2>3, <2>4, <3>9, <3>10, <5>1
                <5> QED  BY <1>1, <2>1, <2>2, <4>2, <5>2
            <4> QED  BY <1>1, <3>2, <4>1, <4>2
        <3>12. AdmitEntry(once, t, b, max) = [once EXCEPT ![n] = x]
            BY <3>9, <3>11, Coalesced
        <3>13. x \in Entry
            BY <1>1, <3>10, <3>11, ElementOfSeq
        <3> HIDE DEF x
        <3> DEFINE h == [once EXCEPT ![n] = x]
        <3>14. h \in Seq(Entry) /\ Len(h) = n /\ \A i \in 1..n : h[i] = IF i = n THEN x ELSE once[i]
            <4>1. h \in Seq(Entry) /\ Len(h) = n
                BY <3>9, <3>11, <3>13, ExceptSeq
            <4>2. DOMAIN once = 1..n
                BY <3>9, LenProperties
            <4> QED  BY <3>11, <4>1, <4>2
        <3> HIDE DEF h
        <3>15. ASSUME NEW i \in 1..n PROVE h[i] = sum[i]
            <4>1. CASE i = n
                BY <3>11, <3>14, <4>1
            <4>2. CASE i # n /\ i = 1
                <5>1. n > 1
                    BY <1>1, <4>2
                <5> QED  BY <3>8, <3>9, <3>10, <3>14, <4>2, <5>1
            <4>3. CASE i # n /\ i # 1
                <5>1. i \in 2..n /\ i + 1 \in 1..n
                    <6> HIDE DEF n
                    <6>1. n \in Nat /\ i \in 1..n /\ i # n /\ i # 1
                        BY <1>1, <4>3
                    <6> QED  BY ONLY <6>1
                <5>2. once[i] = es[i + 1] /\ sum[i] = es[i + 1]
                    BY <2>3, <2>4, <3>9, <3>10, <5>1
                <5> QED  BY <3>14, <4>3, <5>2
            <4> QED  BY <4>1, <4>2, <4>3
        <3>16. h = sum
            BY <3>10, <3>14, <3>15, SeqEqual
        <3> QED  BY <3>12, <3>16 DEF once, sum, ab, h
    <2> QED  BY <2>5, <2>6
<1> QED  BY <1>3, <1>4
=============================================================================
