---------------------------- MODULE HistoryProofs ---------------------------
(***************************************************************************)
(* Theorems about the account with its history, for every value of the     *)
(* constants.                                                              *)
(***************************************************************************)
EXTENDS AccountHistory, AccountProofs

(* The history only watches: every step is a step of the account. *)
LEMMA HistoryStep == [HNext]_hvars => [Next]_vars
<1> SUFFICES ASSUME [HNext]_hvars PROVE [Next]_vars
    OBVIOUS
<1>1. ASSUME NEW key \in Key, NEW b \in Batch, Authorize(key, b) PROVE Next
    BY <1>1 DEF Authorize, Next, AgentStep
<1>2. ASSUME NEW who \in Signer, ZeroWindow(who) PROVE Next
    BY <1>2 DEF ZeroWindow, Next, AdminStep
<1>3. ASSUME NEW who \in Signer, NEW c \in Config, InstallPolicy(who, c) PROVE Next
    BY <1>3 DEF InstallPolicy, Next, AdminStep
<1>4. ASSUME NEW who \in Signer, NEW new \in Signer, Propose(who, new) PROVE Next
    BY <1>4 DEF Propose, Next, AdminStep
<1>5. ASSUME NEW who \in Signer, OtherAdminStep(who) PROVE Next
    BY <1>5 DEF OtherAdminStep, Next, AdminStep
<1>6. ASSUME NEW key \in Key, heartbeat(key) PROVE Next
    BY <1>6 DEF Next, AgentStep
<1>7. UNCHANGED hvars => UNCHANGED vars
    BY DEF hvars
<1> QED  BY <1>1, <1>2, <1>3, <1>4, <1>5, <1>6, <1>7 DEF HNext, Next

(* The account with its history behaves like the account, so that every    *)
(* theorem about Spec is one about HSpec.                                  *)
THEOREM HistoryImplementsAccount == HSpec => Spec
<1>1. HInit => Init
    BY DEF HInit
<1> QED  BY <1>1, HistoryStep, PTL DEF HSpec, Spec

(* A proposal is made by the admin in office, and neither initialize nor   *)
(* confirm_admin_rotation leaves one pending under another admin.          *)
LEMMA ProposalStep ==
    IInv /\ ProposalIsCurrentAdmins /\ [HNext]_hvars => ProposalIsCurrentAdmins'
<1> SUFFICES ASSUME IInv, ProposalIsCurrentAdmins, [HNext]_hvars
             PROVE  ProposalIsCurrentAdmins'
    OBVIOUS
<1> USE DEF ProposalIsCurrentAdmins
<1>0. CASE UNCHANGED <<admin, pendingAdmin, proposer>>
    BY <1>0
<1>1. ASSUME NEW key \in Key, NEW b \in Batch, Authorize(key, b)
      PROVE  UNCHANGED <<admin, pendingAdmin, proposer>>
    BY <1>1 DEF Authorize, check_auth, instanceVars
<1>2. ASSUME NEW who \in Signer, ZeroWindow(who)
      PROVE  UNCHANGED <<admin, pendingAdmin, proposer>>
    BY <1>2 DEF ZeroWindow, reset_window, revoke_policy, instanceVars
<1>3. ASSUME NEW who \in Signer, NEW c \in Config, InstallPolicy(who, c)
      PROVE  UNCHANGED <<admin, pendingAdmin, proposer>>
    BY <1>3 DEF InstallPolicy, set_policy, instanceVars
<1>4. ASSUME NEW who \in Signer, NEW new \in Signer, Propose(who, new)
      PROVE  ProposalIsCurrentAdmins'
    BY <1>4 DEF Propose, propose_admin_rotation, admin_or_panic
<1>5. ASSUME NEW who \in Signer, OtherAdminStep(who), UNCHANGED history
      PROVE  ProposalIsCurrentAdmins'
    BY <1>5 DEF OtherAdminStep, set_paused, rotate_agent_key, cancel_admin_rotation, freeze,
                unfreeze, instanceVars, history
<1>6. ASSUME NEW who \in Signer, confirm_admin_rotation(who) PROVE ProposalIsCurrentAdmins'
    BY <1>6 DEF confirm_admin_rotation
<1>7. ASSUME NEW who \in Signer, NEW key \in Key, initialize(who, key)
      PROVE  ProposalIsCurrentAdmins'
    BY <1>7 DEF initialize, IInv, ProposalIsToAnother
<1>8. CASE UNCHANGED history /\ (Tick \/ refresh_deadman \/ \E key \in Key : heartbeat(key))
    BY <1>8 DEF Tick, refresh_deadman, heartbeat, instanceVars, history
<1>9. CASE UNCHANGED hvars
    BY <1>9 DEF hvars, vars, instanceVars, history
<1> QED  BY <1>0, <1>1, <1>2, <1>3, <1>4, <1>5, <1>6, <1>7, <1>8, <1>9 DEF HNext

(* Whatever proposal is pending was made by the admin in office: none      *)
(* survives a handover, and the new admin never inherits one               *)
(* (propose_admin_rotation, confirm_admin_rotation).                       *)
THEOREM ProposalsAreCurrent == HSpec => []ProposalIsCurrentAdmins
<1>1. HInit => ProposalIsCurrentAdmins
    BY DEF HInit, Init, ProposalIsCurrentAdmins
<1> QED  BY <1>1, ProposalStep, Invariance, HistoryImplementsAccount, PTL DEF HSpec

-----------------------------------------------------------------------------
(* What was spent up to each second, by all payees together.               *)
SpentType == [Address -> [1..MaxTime -> Nat]]
UpTo(sp) == [u \in 0..MaxTime |->
                SumFunctionOnSet([a \in Address |-> SumFunctionOnSet(sp[a], 1..u)], Address)]

(* The first u seconds are finitely many and are seconds of the clock. *)
LEMMA FirstSeconds ==
    ASSUME NEW sp \in SpentType, NEW a \in Address, NEW u \in 0..MaxTime
    PROVE  /\ IsFiniteSet(1..u) /\ u \in Nat
           /\ 1..u \subseteq 1..MaxTime
           /\ \A x \in 1..u : sp[a][x] \in Nat
           /\ SumFunctionOnSet(sp[a], 1..u) \in Nat
<1>1. MaxTime \in Nat /\ u \in Nat
    BY AccountConstants
<1>2. IsFiniteSet(1..u) /\ 1..u \subseteq 1..MaxTime
    BY <1>1, FS_Interval
<1>3. \A x \in 1..u : sp[a][x] \in Nat
    BY <1>2 DEF SpentType
<1>4. SumFunctionOnSet(sp[a], 1..u) \in Nat
    BY <1>2, <1>3, SumRemove
<1> QED  BY <1>1, <1>2, <1>3, <1>4

(* The sums up to a second are naturals. *)
LEMMA UpToType ==
    ASSUME NEW sp \in SpentType, NEW u \in 0..MaxTime
    PROVE  /\ UpTo(sp)[u] \in Nat
           /\ UpTo(sp)[u] = SumFunctionOnSet([a \in Address |-> SumFunctionOnSet(sp[a], 1..u)],
                                             Address)
<1> DEFINE f == [a \in Address |-> SumFunctionOnSet(sp[a], 1..u)]
<1>1. UpTo(sp)[u] = SumFunctionOnSet(f, Address)
    BY DEF UpTo
<1>2. \A a \in Address : f[a] \in Nat
    BY FirstSeconds
<1> HIDE DEF f
<1>3. SumFunctionOnSet(f, Address) \in Nat
    BY <1>2, AddressesAreFinite, SumRemove
<1> QED  BY <1>1, <1>3 DEF f

(* What was spent in the window is what was spent since the second before  *)
(* it starts.                                                              *)
LEMMA RollingIsUpTo ==
    ASSUME NEW sp \in SpentType, NEW t \in 1..MaxTime, NEW w \in Nat
    PROVE  LET in == {x \in 1..MaxTime : x <= t /\ (w = 0 \/ x + w > t)}
               all == SumFunctionOnSet([a \in Address |-> SumFunctionOnSet(sp[a], in)], Address)
           IN  \E u \in 0..t : Starts(u, t, w) /\ all = UpTo(sp)[t] - UpTo(sp)[u]
<1> DEFINE u == IF w = 0 \/ w > t THEN 0 ELSE t - w
           in == {x \in 1..MaxTime : x <= t /\ (w = 0 \/ x + w > t)}
           f == [a \in Address |-> SumFunctionOnSet(sp[a], 1..u)]
           g == [a \in Address |-> SumFunctionOnSet(sp[a], in)]
           h == [a \in Address |-> SumFunctionOnSet(sp[a], 1..t)]
<1>1. MaxTime \in Nat /\ t \in Nat /\ t <= MaxTime
    BY AccountConstants
<1>2. u \in 0..t /\ Starts(u, t, w) /\ u \in Nat /\ u <= t /\ u \in 0..MaxTime /\ t \in 0..MaxTime
    BY <1>1 DEF Starts
<1>3. in = (u + 1)..t
    BY <1>1
<1> HIDE DEF u, in
<1>4. ASSUME NEW a \in Address
      PROVE  /\ f[a] \in Nat /\ g[a] \in Nat /\ h[a] \in Nat /\ h[a] = f[a] + g[a]
    <2> DEFINE s == sp[a]
    <2>1. (\A x \in 1..t : s[x] \in Nat) /\ f[a] \in Nat /\ h[a] \in Nat
        BY <1>2, FirstSeconds
    <2> HIDE DEF s
    <2>2. SumFunctionOnSet(s, 1..t) = SumFunctionOnSet(s, 1..u) + SumFunctionOnSet(s, (u + 1)..t)
        BY <1>1, <1>2, <2>1, SumInterval
    <2>3. SumFunctionOnSet(s, (u + 1)..t) \in Nat
        <3>1. IsFiniteSet((u + 1)..t)
            BY <1>1, <1>2, FS_Interval
        <3>2. (u + 1)..t \subseteq 1..t
            BY <1>1, <1>2
        <3> QED  BY <2>1, <3>1, <3>2, SumRemove
    <2>4. SumFunctionOnSet(s, in) = SumFunctionOnSet(s, (u + 1)..t)
        BY <1>3, Zenon
    <2> QED  BY <2>1, <2>2, <2>3, <2>4 DEF s
<1>5. UpTo(sp)[t] = SumFunctionOnSet(h, Address) /\ UpTo(sp)[u] = SumFunctionOnSet(f, Address)
    BY <1>2, UpToType
<1> HIDE DEF f, g, h
<1>6. /\ SumFunctionOnSet(h, Address)
             = SumFunctionOnSet(f, Address) + SumFunctionOnSet(g, Address)
      /\ SumFunctionOnSet(f, Address) \in Nat /\ SumFunctionOnSet(g, Address) \in Nat
    BY <1>4, AddressesAreFinite, SumAdd, SumRemove
<1>7. SumFunctionOnSet(g, Address) = UpTo(sp)[t] - UpTo(sp)[u]
    BY <1>5, <1>6
<1> QED  BY <1>2, <1>7 DEF g, in

(* Nothing spent adds up to nothing. *)
LEMMA NothingUpTo ==
    /\ NothingSpent \in SpentType
    /\ \A u \in 0..MaxTime : UpTo(NothingSpent)[u] = 0
<1>1. NothingSpent \in SpentType
    BY DEF NothingSpent, SpentType
<1>2. ASSUME NEW u \in 0..MaxTime PROVE UpTo(NothingSpent)[u] = 0
    <2> DEFINE f == [a \in Address |-> SumFunctionOnSet(NothingSpent[a], 1..u)]
    <2>1. ASSUME NEW a \in Address PROVE f[a] = 0
        <3> DEFINE s == NothingSpent[a]
        <3>1. IsFiniteSet(1..u) /\ 1..u \subseteq 1..MaxTime
            BY <1>1, FirstSeconds
        <3>2. \A x \in 1..u : s[x] = 0
            BY <3>1 DEF NothingSpent
        <3> HIDE DEF s
        <3>3. SumFunctionOnSet(s, 1..u) = 0
            BY <3>1, <3>2, SumZero
        <3> QED  BY <3>3 DEF s
    <2>2. UpTo(NothingSpent)[u] = SumFunctionOnSet(f, Address)
        BY <1>1, UpToType
    <2> HIDE DEF f
    <2> QED  BY <2>1, <2>2, AddressesAreFinite, SumZero
<1> QED  BY <1>1, <1>2

(* A second without spends adds nothing. *)
LEMMA QuietSecond ==
    ASSUME NEW sp \in SpentType, NEW t \in Nat, t + 1 \in 1..MaxTime,
           \A a \in Address : sp[a][t + 1] = 0
    PROVE  UpTo(sp)[t + 1] = UpTo(sp)[t]
<1> DEFINE f == [a \in Address |-> SumFunctionOnSet(sp[a], 1..t)]
           h == [a \in Address |-> SumFunctionOnSet(sp[a], 1..(t + 1))]
<1>1. t + 1 \in 0..MaxTime /\ t \in 0..MaxTime /\ t + 1 \in Nat \ {0} /\ (t + 1) - 1 = t
    BY AccountConstants
<1>2. ASSUME NEW a \in Address PROVE f[a] \in Nat /\ h[a] = f[a]
    <2> DEFINE s == sp[a]
    <2>1. (\A x \in 1..(t + 1) : s[x] \in Nat) /\ s[t + 1] = 0 /\ SumFunctionOnSet(s, 1..t) \in Nat
        BY <1>1, FirstSeconds
    <2> HIDE DEF s
    <2>2. SumFunctionOnSet(s, 1..(t + 1)) = SumFunctionOnSet(s, 1..((t + 1) - 1)) + s[t + 1]
        BY <1>1, <2>1, SumStep
    <2>3. SumFunctionOnSet(s, 1..(t + 1)) = SumFunctionOnSet(s, 1..t) + 0
        BY <1>1, <2>1, <2>2, Zenon
    <2> QED  BY <2>1, <2>3 DEF s
<1>3. UpTo(sp)[t + 1] = SumFunctionOnSet(h, Address) /\ UpTo(sp)[t] = SumFunctionOnSet(f, Address)
    BY <1>1, UpToType
<1> HIDE DEF f, h
<1> QED  BY <1>2, <1>3, AddressesAreFinite, SumAgree

(* The history of a payment: each address has its part of it more in this  *)
(* second, or the second is full.                                          *)
LEMMA CountType ==
    ASSUME NEW n \in Nat, NEW m \in Nat, NEW max \in Nat, n <= max + 1
    PROVE  /\ Count(n, m, max) \in Nat /\ Count(n, m, max) <= n + m
           /\ Count(n, m, max) <= max + 1 /\ Count(n, m, max) >= n
           /\ Count(n, 0, max) = n
<1>1. \A i, j \in Nat : Min({i, j}) = IF i <= j THEN i ELSE j
    <2> SUFFICES ASSUME NEW i \in Nat, NEW j \in Nat PROVE Min({i, j}) = IF i <= j THEN i ELSE j
        OBVIOUS
    <2>1. {i, j} \subseteq Nat /\ {i, j} # {}
        OBVIOUS
    <2>2. Min({i, j}) \in {i, j} /\ \A y \in {i, j} : Min({i, j}) <= y
        BY <2>1, MinIn
    <2> QED  BY <2>2
<1>2. n + m \in Nat /\ max + 1 \in Nat /\ n + 0 \in Nat
    OBVIOUS
<1>3. Count(n, m, max) = (IF n + m <= max + 1 THEN n + m ELSE max + 1)
    BY <1>1, <1>2 DEF Count
<1>4. Count(n, 0, max) = (IF n + 0 <= max + 1 THEN n + 0 ELSE max + 1)
    BY <1>1, <1>2 DEF Count
<1> QED  BY <1>3, <1>4

(* So it adds at most the sum of the parts. *)
LEMMA PaymentAdds ==
    ASSUME NEW sp \in SpentType, NEW sp2 \in SpentType, NEW t \in 1..MaxTime, NEW paid,
           \A a \in Address :
               /\ paid[a] \in Nat /\ sp2[a][t] <= sp[a][t] + paid[a]
               /\ \A x \in 1..MaxTime : x # t => sp2[a][x] = sp[a][x]
    PROVE  Adds(UpTo(sp), UpTo(sp2), t, SumFunctionOnSet(paid, Address))
<1>1. MaxTime \in Nat /\ t \in Nat \ {0} /\ t \in 0..MaxTime /\ t - 1 \in 0..MaxTime /\ 0..t \subseteq 0..MaxTime
      /\ t <= MaxTime
    BY AccountConstants
<1>2. \A u \in 0..t : UpTo(sp2)[u] \in Nat
    BY <1>1, UpToType
<1>3. ASSUME NEW u \in 0..(t - 1), NEW a \in Address
      PROVE  /\ SumFunctionOnSet(sp2[a], 1..u) = SumFunctionOnSet(sp[a], 1..u)
             /\ SumFunctionOnSet(sp[a], 1..u) \in Nat
    <2>1. u \in 0..MaxTime /\ u < t /\ u \in Nat
        BY <1>1
    <2> DEFINE f == sp[a]
               g == sp2[a]
               S == 1..u
    <2>2. IsFiniteSet(S) /\ (\A x \in S : f[x] \in Nat) /\ SumFunctionOnSet(f, S) \in Nat
        BY <2>1, FirstSeconds
    <2>3. \A x \in S : g[x] = f[x]
        BY <1>1, <2>1
    <2> HIDE DEF f, g, S
    <2>4. SumFunctionOnSet(f, S) = SumFunctionOnSet(g, S)
        BY <2>2, <2>3, SumAgree
    <2> QED  BY <2>2, <2>4 DEF f, g, S
<1>4. ASSUME NEW u \in 0..(t - 1) PROVE UpTo(sp2)[u] = UpTo(sp)[u]
    <2> DEFINE f == [a \in Address |-> SumFunctionOnSet(sp[a], 1..u)]
               g == [a \in Address |-> SumFunctionOnSet(sp2[a], 1..u)]
    <2>1. u \in 0..MaxTime
        BY <1>1
    <2>2. UpTo(sp)[u] = SumFunctionOnSet(f, Address) /\ UpTo(sp2)[u] = SumFunctionOnSet(g, Address)
        BY <2>1, UpToType
    <2>3. \A a \in Address : f[a] \in Nat /\ g[a] = f[a]
        BY <1>3
    <2> HIDE DEF f, g
    <2> QED  BY <2>2, <2>3, AddressesAreFinite, SumAgree
<1>5. UpTo(sp2)[t] <= UpTo(sp)[t] + SumFunctionOnSet(paid, Address)
    <2> DEFINE f == [a \in Address |-> SumFunctionOnSet(sp[a], 1..t)]
               g == [a \in Address |-> SumFunctionOnSet(sp2[a], 1..t)]
    <2>1. UpTo(sp)[t] = SumFunctionOnSet(f, Address) /\ UpTo(sp2)[t] = SumFunctionOnSet(g, Address)
        BY <1>1, UpToType
    <2>2. ASSUME NEW a \in Address
          PROVE  f[a] \in Nat /\ g[a] \in Nat /\ paid[a] \in Nat /\ g[a] <= f[a] + paid[a]
        <3> DEFINE x == sp[a]
                   y == sp2[a]
        <3>1. (\A i \in 1..t : x[i] \in Nat) /\ (\A i \in 1..t : y[i] \in Nat)
              /\ SumFunctionOnSet(x, 1..t) \in Nat /\ SumFunctionOnSet(y, 1..t) \in Nat
            BY <1>1, FirstSeconds
        <3>2. t - 1 \in 0..(t - 1)
            BY <1>1
        <3>3. SumFunctionOnSet(y, 1..(t - 1)) = SumFunctionOnSet(x, 1..(t - 1))
              /\ SumFunctionOnSet(x, 1..(t - 1)) \in Nat
            BY <1>3, <3>2
        <3>4. y[t] <= x[t] + paid[a] /\ paid[a] \in Nat
            OBVIOUS
        <3>7. f[a] = SumFunctionOnSet(x, 1..t) /\ g[a] = SumFunctionOnSet(y, 1..t)
            OBVIOUS
        <3> HIDE DEF x, y, f, g
        <3>5. /\ SumFunctionOnSet(x, 1..t) = SumFunctionOnSet(x, 1..(t - 1)) + x[t]
              /\ SumFunctionOnSet(y, 1..t) = SumFunctionOnSet(y, 1..(t - 1)) + y[t]
            BY <1>1, <3>1, SumStep
        <3>6. x[t] \in Nat /\ y[t] \in Nat
            BY <1>1, <3>1
        <3> QED  BY <3>1, <3>3, <3>4, <3>5, <3>6, <3>7
    <2> HIDE DEF f, g
    <2>3. SumFunctionOnSet(g, Address) <= SumFunctionOnSet(f, Address) + SumFunctionOnSet(paid, Address)
        BY <2>2, AddressesAreFinite, SumAdd
    <2> QED  BY <2>1, <2>3
<1> QED  BY <1>2, <1>4, <1>5 DEF Adds

-----------------------------------------------------------------------------
(* What was spent to one address only, and the sum of what is about it     *)
(* alone.                                                                  *)
OnlyTo(sp, r) == [a \in Address |-> IF a = r THEN sp[r] ELSE NothingSpent[r]]

LEMMA OneCounts ==
    ASSUME NEW f, NEW r \in Address, f[r] \in Nat, \A a \in Address : a # r => f[a] = 0
    PROVE  SumFunctionOnSet(f, Address) = f[r]
<1>1. \A a \in Address : f[a] \in Nat
    OBVIOUS
<1>2. SumFunctionOnSet(f, Address) = f[r] + SumFunctionOnSet(f, Address \ {r})
    BY <1>1, AddressesAreFinite, SumRemove
<1>3. IsFiniteSet(Address \ {r}) /\ \A a \in Address \ {r} : f[a] = 0
    BY AddressesAreFinite, FS_Subset
<1>4. SumFunctionOnSet(f, Address \ {r}) = 0
    BY <1>3, SumZero
<1> QED  BY <1>2, <1>4

LEMMA OnlyToType ==
    ASSUME NEW sp \in SpentType, NEW r \in Address
    PROVE  /\ OnlyTo(sp, r) \in SpentType
           /\ OnlyTo(sp, r)[r] = sp[r]
           /\ \A a \in Address, t \in 1..MaxTime : a # r => OnlyTo(sp, r)[a][t] = 0
           /\ sp = NothingSpent => OnlyTo(sp, r) = NothingSpent
<1>1. NothingSpent \in SpentType /\ \A a \in Address, t \in 1..MaxTime : NothingSpent[a][t] = 0
    BY DEF NothingSpent, SpentType
<1>2. sp = NothingSpent => OnlyTo(sp, r) = NothingSpent
    BY DEF OnlyTo, NothingSpent
<1> QED  BY <1>1, <1>2 DEF OnlyTo, SpentType

(* A payment adds to what was spent to one address what it pays to it. *)
LEMMA PaymentAddsTo ==
    ASSUME NEW sp \in SpentType, NEW sp2 \in SpentType, NEW t \in 1..MaxTime, NEW r \in Address,
           NEW n \in Nat, sp2[r][t] <= sp[r][t] + n,
           \A x \in 1..MaxTime : x # t => sp2[r][x] = sp[r][x]
    PROVE  Adds(UpTo(OnlyTo(sp, r)), UpTo(OnlyTo(sp2, r)), t, n)
<1> DEFINE paid == [a \in Address |-> IF a = r THEN n ELSE 0]
           f == OnlyTo(sp, r)
           g == OnlyTo(sp2, r)
<1>1. /\ f \in SpentType /\ f[r] = sp[r]
      /\ \A a \in Address, x \in 1..MaxTime : a # r => f[a][x] = 0
    BY OnlyToType
<1>2. /\ g \in SpentType /\ g[r] = sp2[r]
      /\ \A a \in Address, x \in 1..MaxTime : a # r => g[a][x] = 0
    BY OnlyToType
<1>3. \A a \in Address : paid[a] = IF a = r THEN n ELSE 0
    OBVIOUS
<1> HIDE DEF paid, f, g
<1>4. \A a \in Address :
          /\ paid[a] \in Nat /\ g[a][t] <= f[a][t] + paid[a]
          /\ \A x \in 1..MaxTime : x # t => g[a][x] = f[a][x]
    BY <1>1, <1>2, <1>3
<1>5. Adds(UpTo(f), UpTo(g), t, SumFunctionOnSet(paid, Address))
    BY <1>1, <1>2, <1>4, PaymentAdds
<1>6. SumFunctionOnSet(paid, Address) = n
    <2>1. paid[r] = n /\ \A a \in Address : a # r => paid[a] = 0
        BY <1>3
    <2> QED  BY <2>1, OneCounts
<1> QED  BY <1>5, <1>6, Zenon DEF f, g

-----------------------------------------------------------------------------
(* What a request pays, in total and to each address. *)
LEMMA PaymentSplits ==
    ASSUME NEW X, NEW ctxs \in Seq(X),
           \A i \in Transfers(policy, ctxs, Len(ctxs)) : Amounts(policy, ctxs)[i] \in Nat \ {0}
    PROVE  /\ \A a \in Address : PaidTo(ctxs, a) \in Nat
           /\ SumFunctionOnSet([a \in Address |-> PaidTo(ctxs, a)], Address)
                  = Paying(policy, ctxs, Len(ctxs))
           /\ Transfers(policy, ctxs, Len(ctxs)) = {} => \A a \in Address : PaidTo(ctxs, a) = 0
           /\ \A a \in Address :
                  /\ PaidTo(ctxs, a) = PayingTo(policy, ctxs, Len(ctxs), a)
                  /\ TransfersTo(policy, ctxs, Len(ctxs), a) = {} => PaidTo(ctxs, a) = 0
<1> DEFINE J == Transfers(policy, ctxs, Len(ctxs))
           f == [i \in J |-> parse_call(ctxs[i], policy).amount]
           class == [i \in J |-> parse_call(ctxs[i], policy).to]
           g == Amounts(policy, ctxs)
<1>1. DOMAIN ctxs = 1..Len(ctxs) /\ Len(ctxs) \in Nat
    BY LenProperties
<1>2. J = Calls(ctxs, "AssetTransfer") /\ J \subseteq DOMAIN ctxs
    BY <1>1 DEF Transfers, Calls
<1>3. IsFiniteSet(J)
    <2>1. IsFiniteSet(1..Len(ctxs)) /\ J \subseteq 1..Len(ctxs)
        BY <1>1, <1>2, FS_Interval
    <2> HIDE DEF J
    <2> QED  BY <2>1, FS_Subset
<1>4. ASSUME NEW i \in J PROVE class[i] \in Address /\ f[i] \in Nat /\ g[i] = f[i]
    <2>1. parse_call(ctxs[i], policy).kind = "AssetTransfer"
        BY DEF Transfers
    <2>2. parse_call(ctxs[i], policy).to \in Address
        BY <2>1, ParsedCall
    <2>3. g[i] = f[i]
        BY <1>2 DEF Amounts
    <2>4. g[i] \in Nat \ {0}
        OBVIOUS
    <2> QED  BY <2>2, <2>3, <2>4
<1>5. ASSUME NEW a \in Address PROVE PaidTo(ctxs, a) = SumFunctionOnSet(f, ClassOf(J, class, a))
    <2>1. PaidTo(ctxs, a)
              = SumFunctionOnSet([i \in Calls(ctxs, "AssetTransfer") |-> parse_call(ctxs[i], policy).amount],
                    {i \in Calls(ctxs, "AssetTransfer") : parse_call(ctxs[i], policy).to = a})
        BY DEF PaidTo
    <2>2. PaidTo(ctxs, a) = SumFunctionOnSet(f, {i \in J : parse_call(ctxs[i], policy).to = a})
        BY <1>2, <2>1, Zenon
    <2>3. {i \in J : parse_call(ctxs[i], policy).to = a} = ClassOf(J, class, a)
        <3> HIDE DEF J
        <3> QED  BY DEF ClassOf
    <2> QED  BY <2>2, <2>3, Zenon
<1> HIDE DEF f, class, g
<1>6. ASSUME NEW a \in Address
      PROVE  /\ PaidTo(ctxs, a) \in Nat
             /\ J = {} => PaidTo(ctxs, a) = 0
             /\ PaidTo(ctxs, a) = PayingTo(policy, ctxs, Len(ctxs), a)
             /\ TransfersTo(policy, ctxs, Len(ctxs), a) = {} => PaidTo(ctxs, a) = 0
    <2> DEFINE K == ClassOf(J, class, a)
    <2>3. TransfersTo(policy, ctxs, Len(ctxs), a) = K
        BY DEF TransfersTo, ClassOf, class
    <2>4. PayingTo(policy, ctxs, Len(ctxs), a) = SumFunctionOnSet(g, K)
        BY <2>3 DEF PayingTo, g
    <2>5. \A i \in K : f[i] \in Nat /\ g[i] = f[i]
        <3> HIDE DEF J
        <3> QED  BY <1>4 DEF ClassOf
    <2>1. IsFiniteSet(K) /\ (\A i \in K : f[i] \in Nat) /\ (J = {} => K = {})
        <3> HIDE DEF J
        <3> QED  BY <1>3, <1>4, FS_Subset DEF ClassOf
    <2>2. PaidTo(ctxs, a) = SumFunctionOnSet(f, K)
        BY <1>5
    <2> HIDE DEF K, J
    <2>6. SumFunctionOnSet(f, K) = SumFunctionOnSet(g, K)
        BY <2>1, <2>5, SumAgree
    <2>7. SumFunctionOnSet(f, K) \in Nat /\ (K = {} => SumFunctionOnSet(f, K) = 0)
        BY <2>1, SumRemove
    <2> QED  BY <2>1, <2>2, <2>3, <2>4, <2>6, <2>7
<1>7. SumFunctionOnSet([a \in Address |-> PaidTo(ctxs, a)], Address) = Paying(policy, ctxs, Len(ctxs))
    <2> DEFINE p == [a \in Address |-> PaidTo(ctxs, a)]
    <2>1. \A a \in Address : p[a] = SumFunctionOnSet(f, ClassOf(J, class, a))
        <3> HIDE DEF J
        <3> QED  BY <1>5
    <2> HIDE DEF p
    <2>2. SumFunctionOnSet(p, Address) = SumFunctionOnSet(f, J)
        <3> HIDE DEF J
        <3> QED  BY <1>3, <1>4, <2>1, AddressesAreFinite, SumByClass
    <2>3. SumFunctionOnSet(f, J) = SumFunctionOnSet(g, J)
        <3> HIDE DEF J
        <3> QED  BY <1>3, <1>4, SumAgree
    <2>4. Paying(policy, ctxs, Len(ctxs)) = SumFunctionOnSet(g, J)
        BY DEF Paying, g
    <2>5. SumFunctionOnSet(p, Address) = Paying(policy, ctxs, Len(ctxs))
        BY <2>2, <2>3, <2>4, Zenon
    <2> QED  BY <2>5 DEF p
<1> QED  BY <1>6, <1>7

-----------------------------------------------------------------------------
(* The inductive invariant.  What was spent is on record up to now; and as *)
(* long as no edit has changed what the windows track, the stored ledger   *)
(* covers it.  An absent window covers nothing but silence.                *)
SpentSound ==
    /\ spent \in SpentType
    /\ \A a \in Address, t \in 1..MaxTime :
           spent[a][t] <= I128_MAX + 1 /\ (t > now => spent[a][t] = 0)
    /\ policy = None => spent = NothingSpent

Covering ==
    (steady /\ policy # None /\ policy.window_cap > 0) =>
        Covered(LoadedLedger.global, UpTo(spent), now, policy.window_secs, I128_MAX)

(* The same for what was paid to one recipient with a cap of its own. *)
CoversTo(r) ==
    Covered(RecipientLedger(LoadedLedger, r), UpTo(OnlyTo(spent, r)), now, policy.window_secs,
            I128_MAX)
CoveringTo ==
    (steady /\ policy # None) =>
        \A r \in Address : recipient_override_cap(policy, r) # None => CoversTo(r)

(* The types that the argument uses. *)
LEMMA CoverTypes ==
    ASSUME IInv, WindowSound
    PROVE  /\ now \in Nat \ {0} /\ now \in Nat /\ now \in 1..MaxTime /\ MaxTime \in Nat
           /\ now \in 0..MaxTime /\ 0..now \subseteq 0..MaxTime
           /\ I128_MAX \in Nat
           /\ policy # None => policy \in PolicyConfig /\ policy.window_secs \in Nat
                                 /\ policy.window_cap \in Int
           /\ LoadedLedger \in LedgersUpTo(now)
<1>1. now \in Nat \ {0} /\ now \in Nat /\ now \in 1..MaxTime /\ MaxTime \in Nat
    BY AccountConstants DEF IInv, ControlTypeOK
<1>2. policy # None => policy \in PolicyConfig /\ policy.window_secs \in Nat
                          /\ policy.window_cap \in Int
    BY DEF IInv, ControlTypeOK, PolicyConfig
<1>3. LoadedLedger \in LedgersUpTo(now)
    BY <1>1, EmptyUpTo, FromStateUpTo DEF LoadedLedger, LoadedFrom, WindowSound
<1>4. now \in 0..MaxTime /\ 0..now \subseteq 0..MaxTime
    BY <1>1
<1> QED  BY <1>1, <1>2, <1>3, <1>4, WindowBounds

(* Whatever window is stored when nothing was spent, nothing is lost. *)
LEMMA SilenceCovered ==
    ASSUME NEW t \in 1..MaxTime, NEW w \in Nat
    PROVE  Covered(EmptyLedger, UpTo(NothingSpent), t, w, I128_MAX)
<1>1. t \in Nat \ {0} /\ 0..t \subseteq 0..MaxTime /\ t \in 0..t
    BY AccountConstants
<1>2. \A u \in 0..t : UpTo(NothingSpent)[u] \in Nat /\ UpTo(NothingSpent)[u] = UpTo(NothingSpent)[t]
    BY <1>1, NothingUpTo
<1> QED  BY <1>1, <1>2, EmptyCovers, WindowBounds

(* No entries load as the empty ledger. *)
LEMMA EmptyLoads == ledger_from_entries(<<>>, I128_MAX) = EmptyLedger
<1>1. 1 \in 1..MaxTime
    BY AccountConstants
<1>2. Covered(EmptyLedger, UpTo(NothingSpent), 1, 0, I128_MAX)
    BY <1>1, SilenceCovered
<1>3. ledger_from_entries(EmptyLedger.entries, I128_MAX) = EmptyLedger
    BY <1>2, CoveredTotal
<1> QED  BY <1>3 DEF EmptyLedger

(* A stored window is a window. *)
LEMMA StoredIsSome ==
    ASSUME NEW t \in 1..MaxTime, NEW w \in StoredUpTo(t)
    PROVE  w # None
<1>1. t \in Nat /\ MaxTime \in Nat /\ t <= MaxTime
    BY AccountConstants
<1>2. w \in StoredUpTo(MaxTime)
    BY <1>1, StoredLater
<1>3. \A es \in EntriesUpTo(MaxTime) : es \in EntrySeq
    BY DEF EntriesUpTo, EntryUpTo, EntrySeq
<1>4. w.recipients \in UNION {[D -> EntrySeq] : D \in SUBSET Address}
    <2>1. w.recipients \in PerRecipient(EntriesUpTo(MaxTime))
        BY <1>2 DEF StoredUpTo
    <2>2. w.recipients \in PerRecipient(EntrySeq)
        BY <1>3, <2>1, PerRecipientIs
    <2> QED  BY <2>2 DEF PerRecipient
<1>5. w \in [entries : EntrySeq,
             recipients : UNION {[D -> EntrySeq] : D \in SUBSET Address},
             protocol_call_entries : EntrySeq]
    BY <1>2, <1>3, <1>4 DEF StoredUpTo
<1> QED  BY <1>5, NoneIsNoWindow

(* What is saved is what is loaded next, down to the total. *)
LEMMA SavedIsLoaded ==
    ASSUME now' = now, now \in 1..MaxTime, NEW L \in LedgersUpTo(now),
           window' = SavedWindow(L), NEW c, NEW w, Covered(L.global, c, now, w, I128_MAX)
    PROVE  LoadedLedger'.global = L.global
<1>1. /\ L.global = [total |-> L.global.total, entries |-> L.global.entries]
      /\ ledger_from_entries(L.global.entries, I128_MAX) = L.global
    BY CoveredTotal
<1>2. now \in Nat
    BY AccountConstants
<1>3. CASE window # None \/ HasEntries(L)
    <2>1. window' = to_state(L)
        BY <1>3 DEF SavedWindow, SavedOver
    <2>2. to_state(L) \in StoredUpTo(now)
        BY <1>2, ToStateUpTo
    <2>3. window' # None
        BY <2>1, <2>2, StoredIsSome
    <2>4. window'.entries = L.global.entries
        BY <2>1 DEF to_state
    <2>5. LoadedLedger' = from_state(window')
        BY <2>3 DEF LoadedLedger, LoadedFrom
    <2>6. from_state(window').global = ledger_from_entries(window'.entries, I128_MAX)
        BY DEF from_state
    <2> QED  BY <1>1, <2>4, <2>5, <2>6, Zenon
<1>4. CASE window = None /\ ~ HasEntries(L)
    <2>1. window' = None
        BY <1>4 DEF SavedWindow, SavedOver
    <2>2. L.global.entries = <<>>
        BY <1>4 DEF HasEntries
    <2>3. L.global = ledger_from_entries(<<>>, I128_MAX)
        BY <1>1, <2>2, Zenon
    <2>4. LoadedLedger'.global = EmptyLedger
        BY <2>1 DEF LoadedLedger, LoadedFrom, Ledger_empty
    <2>5. ledger_from_entries(<<>>, I128_MAX) = EmptyLedger
        BY EmptyLoads
    <2> QED  BY <2>3, <2>4, <2>5, Zenon
<1> QED  BY <1>3, <1>4

(* And so is the ledger of each recipient. *)
LEMMA SavedIsLoadedTo ==
    ASSUME now' = now, now \in 1..MaxTime, NEW L \in LedgersUpTo(now), NEW r,
           window' = SavedWindow(L), NEW c, NEW w,
           Covered(RecipientLedger(L, r), c, now, w, I128_MAX)
    PROVE  RecipientLedger(LoadedLedger', r) = RecipientLedger(L, r)
<1> DEFINE l == RecipientLedger(L, r)
<1>1. ledger_from_entries(l.entries, I128_MAX) = l
    BY CoveredTotal
<1>2. now \in Nat
    BY AccountConstants
<1>3. CASE window # None \/ HasEntries(L)
    <2>1. window' = to_state(L)
        BY <1>3 DEF SavedWindow, SavedOver
    <2>2. to_state(L) \in StoredUpTo(now)
        BY <1>2, ToStateUpTo
    <2>3. window' # None
        BY <2>1, <2>2, StoredIsSome
    <2>4. window'.recipients = [x \in DOMAIN L.recipients |-> L.recipients[x].entries]
        BY <2>1 DEF to_state
    <2>5. LoadedLedger'.recipients
              = [x \in DOMAIN window'.recipients |->
                    ledger_from_entries(window'.recipients[x], I128_MAX)]
        BY <2>3 DEF LoadedLedger, LoadedFrom, from_state
    <2>6. DOMAIN LoadedLedger'.recipients = DOMAIN L.recipients
        BY <2>4, <2>5
    <2>7. CASE r \in DOMAIN L.recipients
        <3>1. window'.recipients[r] = L.recipients[r].entries /\ r \in DOMAIN window'.recipients
            BY <2>4, <2>7
        <3>2. LoadedLedger'.recipients[r] = ledger_from_entries(window'.recipients[r], I128_MAX)
            BY <2>5, <3>1
        <3>3. l = L.recipients[r] /\ RecipientLedger(LoadedLedger', r) = LoadedLedger'.recipients[r]
            BY <2>6, <2>7 DEF RecipientLedger
        <3> QED  BY <1>1, <3>1, <3>2, <3>3, Zenon
    <2>8. CASE r \notin DOMAIN L.recipients
        BY <2>6, <2>8 DEF RecipientLedger
    <2> QED  BY <2>7, <2>8
<1>4. CASE window = None /\ ~ HasEntries(L)
    <2>1. window' = None
        BY <1>4 DEF SavedWindow, SavedOver
    <2>2. RecipientLedger(LoadedLedger', r) = EmptyLedger
        BY <2>1 DEF LoadedLedger, LoadedFrom, Ledger_empty, RecipientLedger
    <2>3. l = EmptyLedger \/ l.entries = <<>>
        BY <1>4 DEF HasEntries, RecipientLedger
    <2>4. l.entries = <<>> => l = EmptyLedger
        BY <1>1, EmptyLoads, Zenon
    <2> QED  BY <2>2, <2>3, <2>4
<1> QED  BY <1>3, <1>4

(* An allowed request leaves a window that covers what it pays as well,    *)
(* and within the cap if it pays.                                          *)
LEMMA RequestCovers ==
    ASSUME IInv, WindowSound, SpentSound, Covering, steady, policy # None, policy.window_cap > 0,
           NEW X, NEW ctxs \in Seq(X), 1 \in DOMAIN ctxs, AllAllowed(Decision(ctxs).verdicts),
           window' = SavedWindow(Decision(ctxs).ledger), now' = now
    PROVE  LET paying == Paying(policy, ctxs, Len(ctxs))
           IN  /\ paying \in Nat
               /\ Covered(LoadedLedger'.global, Plus(UpTo(spent), now, paying), now,
                          policy.window_secs, I128_MAX)
               /\ Transfers(policy, ctxs, Len(ctxs)) # {} =>
                      LoadedLedger'.global.total <= policy.window_cap
<1> DEFINE P == Paying(policy, ctxs, Len(ctxs))
           c == UpTo(spent)
           L == Decision(ctxs).ledger
           w == policy.window_secs
<1>1. /\ now \in Nat \ {0} /\ now \in 1..MaxTime /\ policy \in PolicyConfig
      /\ LoadedLedger \in LedgersUpTo(now)
    BY CoverTypes
<1>2. Covered(LoadedLedger.global, c, now, w, I128_MAX)
    BY DEF Covering
<1> HIDE DEF c
<1>3. Decision(ctxs) = decide(policy, adminFrozen, lastHeartbeat, LoadedLedger, now, ctxs)
    BY DEF Decision
<1>4. /\ P \in Nat /\ Covered(L.global, Plus(c, now, P), now, w, I128_MAX)
      /\ Transfers(policy, ctxs, Len(ctxs)) # {} => L.global.total <= policy.window_cap
    <2> DEFINE D == decide(policy, adminFrozen, lastHeartbeat, LoadedLedger, now, ctxs)
               J == Transfers(policy, ctxs, Len(ctxs))
    <2>1. AllAllowed(D.verdicts)
        BY <1>3, Zenon
    <2>2. /\ P \in Nat /\ Covered(D.ledger.global, Plus(c, now, P), now, w, I128_MAX)
          /\ J # {} => D.ledger.global.total <= policy.window_cap
        BY <1>1, <1>2, <2>1, DecideCovers
    <2> HIDE DEF D, J, P
    <2>3. L = D.ledger
        BY <1>3, Zenon DEF D
    <2> HIDE DEF L
    <2> QED  BY <2>2, <2>3, Zenon DEF J
<1>5. L \in LedgersUpTo(now)
    BY <1>1, <1>3, DecideType
<1> HIDE DEF L, P, w
<1>6. LoadedLedger'.global = L.global
    BY <1>1, <1>4, <1>5, SavedIsLoaded DEF L
<1> QED  BY <1>4, <1>6, Zenon DEF P, c, w

(* And one for each recipient, within its own cap if it is paid. *)
LEMMA RequestCoversTo ==
    ASSUME IInv, WindowSound, policy # None, NEW r, recipient_override_cap(policy, r) # None,
           CoversTo(r), NEW X, NEW ctxs \in Seq(X), 1 \in DOMAIN ctxs,
           AllAllowed(Decision(ctxs).verdicts),
           window' = SavedWindow(Decision(ctxs).ledger), now' = now
    PROVE  LET paying == PayingTo(policy, ctxs, Len(ctxs), r)
               own == RecipientLedger(LoadedLedger', r)
           IN  /\ paying \in Nat
               /\ Covered(own, Plus(UpTo(OnlyTo(spent, r)), now, paying), now,
                          policy.window_secs, I128_MAX)
               /\ TransfersTo(policy, ctxs, Len(ctxs), r) # {} =>
                      own.total <= recipient_override_cap(policy, r)
<1> DEFINE P == PayingTo(policy, ctxs, Len(ctxs), r)
           J == TransfersTo(policy, ctxs, Len(ctxs), r)
           c == UpTo(OnlyTo(spent, r))
           L == Decision(ctxs).ledger
           D == decide(policy, adminFrozen, lastHeartbeat, LoadedLedger, now, ctxs)
           w == policy.window_secs
           cap == recipient_override_cap(policy, r)
<1>1. /\ now \in Nat \ {0} /\ now \in 1..MaxTime /\ policy \in PolicyConfig
      /\ LoadedLedger \in LedgersUpTo(now)
    BY CoverTypes
<1>2. Covered(RecipientLedger(LoadedLedger, r), c, now, w, I128_MAX)
    BY DEF CoversTo
<1> HIDE DEF c
<1>3. Decision(ctxs) = D
    BY DEF Decision
<1>4. AllAllowed(D.verdicts)
    BY <1>3, Zenon
<1>5. /\ P \in Nat /\ Covered(RecipientLedger(D.ledger, r), Plus(c, now, P), now, w, I128_MAX)
      /\ J # {} => RecipientLedger(D.ledger, r).total <= cap
    BY <1>1, <1>2, <1>4, DecideCoversTo
<1>6. L \in LedgersUpTo(now)
    BY <1>1, <1>3, DecideType
<1>7. L = D.ledger
    BY <1>3, Zenon
<1> HIDE DEF D, J, P, L, w, cap
<1>8. /\ Covered(RecipientLedger(L, r), Plus(c, now, P), now, w, I128_MAX)
      /\ J # {} => RecipientLedger(L, r).total <= cap
    BY <1>5, <1>7, Zenon
<1>9. RecipientLedger(LoadedLedger', r) = RecipientLedger(L, r)
    BY <1>1, <1>6, <1>8, SavedIsLoadedTo DEF L
<1> QED  BY <1>5, <1>8, <1>9, Zenon DEF P, J, c, w, cap

(* The record of an authorization. *)
LEMMA AuthorizeRecords ==
    ASSUME IInv, WindowSound, SpentSound, NEW key, NEW b \in Batch, Authorize(key, b)
    PROVE  /\ SpentSound'
           /\ Adds(UpTo(spent), UpTo(spent'), now, Paying(policy, b, Len(b)))
           /\ Transfers(policy, b, Len(b)) = {} => spent' = spent
           /\ \A a \in Address :
                  LET paying == PayingTo(policy, b, Len(b), a)
                  IN  /\ paying \in Nat
                      /\ spent[a][now] <= spent'[a][now] /\ spent'[a][now] <= spent[a][now] + paying
                      /\ \A t \in 1..MaxTime : t # now => spent'[a][t] = spent[a][t]
                      /\ TransfersTo(policy, b, Len(b), a) = {} => spent'[a] = spent[a]
<1> DEFINE paid == [a \in Address |-> PaidTo(b, a)]
           J == Transfers(policy, b, Len(b))
<1>1. /\ now \in 1..MaxTime /\ MaxTime \in Nat /\ now \in Nat /\ I128_MAX \in Nat /\ policy # None
      /\ policy' = policy /\ now' = now
      /\ LoadedLedger \in LedgersUpTo(now) /\ policy \in PolicyConfig
    BY CoverTypes DEF Authorize, check_auth, Authorized, policyVars
<1>2. PICK X : b \in Seq(X)
    BY AccountConstants
<1>3. 1 \in DOMAIN b
    BY BatchNonEmpty
<1>4. \A i \in J : Amounts(policy, b)[i] \in Nat \ {0}
    <2> DEFINE live == IF PrunesWindow(policy) THEN prune(LoadedLedger, now, policy.window_secs)
                       ELSE LoadedLedger
    <2>1. AllAllowed(decide(policy, adminFrozen, lastHeartbeat, LoadedLedger, now, b).verdicts)
        BY DEF Authorize, check_auth, Authorized, Decision
    <2>2. AllAllowed(EvalContexts(policy, live, b).verdicts)
        BY <1>3, <2>1, DecideAllowed
    <2> HIDE DEF live
    <2> QED  BY <1>2, <2>2, AllowedAmounts
<1>5. /\ \A a \in Address : PaidTo(b, a) \in Nat
      /\ SumFunctionOnSet(paid, Address) = Paying(policy, b, Len(b))
      /\ J = {} => \A a \in Address : PaidTo(b, a) = 0
      /\ \A a \in Address : /\ PaidTo(b, a) = PayingTo(policy, b, Len(b), a)
                            /\ TransfersTo(policy, b, Len(b), a) = {} => PaidTo(b, a) = 0
    BY <1>2, <1>4, PaymentSplits
<1> HIDE DEF J
<1>6. spent' = [a \in Address |-> [spent[a] EXCEPT ![now] = Count(@, PaidTo(b, a), I128_MAX)]]
    BY DEF Authorize
<1>7. /\ spent \in [Address -> [1..MaxTime -> Nat]]
      /\ \A a \in Address, t \in 1..MaxTime :
             spent[a][t] <= I128_MAX + 1 /\ (t > now => spent[a][t] = 0)
    BY DEF SpentSound, SpentType
<1>8. ASSUME NEW a \in Address
      PROVE  LET n == spent[a][now]
                 m == Count(n, PaidTo(b, a), I128_MAX)
             IN  /\ m \in Nat /\ n <= m /\ m <= n + PaidTo(b, a) /\ m <= I128_MAX + 1
                 /\ PaidTo(b, a) = 0 => m = n
                 /\ spent'[a] = [spent[a] EXCEPT ![now] = m]
    <2> DEFINE n == spent[a][now]
    <2>1. n \in Nat /\ n <= I128_MAX + 1 /\ PaidTo(b, a) \in Nat
        BY <1>1, <1>5, <1>7
    <2>2. spent'[a] = [spent[a] EXCEPT ![now] = Count(n, PaidTo(b, a), I128_MAX)]
        BY <1>6
    <2> HIDE DEF n
    <2>3. /\ Count(n, PaidTo(b, a), I128_MAX) \in Nat
          /\ Count(n, PaidTo(b, a), I128_MAX) <= n + PaidTo(b, a)
          /\ Count(n, PaidTo(b, a), I128_MAX) <= I128_MAX + 1
          /\ Count(n, PaidTo(b, a), I128_MAX) >= n
          /\ Count(n, 0, I128_MAX) = n
        BY <1>1, <2>1, CountType
    <2> QED  BY <2>2, <2>3 DEF n
<1>9. ASSUME NEW a \in Address
      PROVE  /\ spent'[a] \in [1..MaxTime -> Nat]
             /\ spent[a][now] <= spent'[a][now]
             /\ spent'[a][now] <= spent[a][now] + PaidTo(b, a)
             /\ spent'[a][now] <= I128_MAX + 1
             /\ \A t \in 1..MaxTime : t # now => spent'[a][t] = spent[a][t]
             /\ PaidTo(b, a) = 0 => spent'[a] = spent[a]
    <2> DEFINE m == Count(spent[a][now], PaidTo(b, a), I128_MAX)
    <2>1. /\ m \in Nat /\ m <= spent[a][now] + PaidTo(b, a) /\ m <= I128_MAX + 1
          /\ spent[a][now] <= m
          /\ PaidTo(b, a) = 0 => m = spent[a][now]
          /\ spent'[a] = [spent[a] EXCEPT ![now] = m]
        BY <1>8
    <2> HIDE DEF m
    <2>2. spent[a] \in [1..MaxTime -> Nat]
        BY <1>7
    <2> QED  BY <1>1, <2>1, <2>2
<1>10. spent' \in SpentType /\ spent' = [a \in Address |-> spent'[a]]
    <2>1. DOMAIN spent' = Address /\ spent' = [a \in Address |-> spent'[a]]
        BY <1>6
    <2> QED  BY <1>9, <2>1 DEF SpentType
<1>11. SpentSound'
    <2>1. \A a \in Address, t \in 1..MaxTime :
              spent'[a][t] <= I128_MAX + 1 /\ (t > now => spent'[a][t] = 0)
        BY <1>1, <1>7, <1>9
    <2> QED  BY <1>1, <1>10, <2>1 DEF SpentSound
<1>12. Adds(UpTo(spent), UpTo(spent'), now, SumFunctionOnSet(paid, Address))
    <2>1. spent \in SpentType
        BY DEF SpentSound
    <2>2. \A a \in Address :
              /\ paid[a] \in Nat /\ spent'[a][now] <= spent[a][now] + paid[a]
              /\ \A t \in 1..MaxTime : t # now => spent'[a][t] = spent[a][t]
        BY <1>5, <1>9
    <2> HIDE DEF paid
    <2> QED  BY <1>1, <1>10, <2>1, <2>2, PaymentAdds
<1>13. J = {} => spent' = spent
    BY <1>5, <1>7, <1>9, <1>10
<1>14. ASSUME NEW a \in Address
       PROVE  LET paying == PayingTo(policy, b, Len(b), a)
              IN  /\ paying \in Nat
                  /\ spent[a][now] <= spent'[a][now] /\ spent'[a][now] <= spent[a][now] + paying
                  /\ \A t \in 1..MaxTime : t # now => spent'[a][t] = spent[a][t]
                  /\ TransfersTo(policy, b, Len(b), a) = {} => spent'[a] = spent[a]
    <2>1. PaidTo(b, a) = PayingTo(policy, b, Len(b), a)
        BY <1>5
    <2>2. PaidTo(b, a) \in Nat /\ (TransfersTo(policy, b, Len(b), a) = {} => PaidTo(b, a) = 0)
        BY <1>5
    <2> QED  BY <1>9, <2>1, <2>2, Zenon
<1> QED  BY <1>5, <1>11, <1>12, <1>13, <1>14, Zenon DEF J

(* So the window still covers, and what it covers is within the cap. *)
LEMMA AuthorizeCovers ==
    ASSUME IInv, WindowSound, SpentSound, Covering, NEW key, NEW b \in Batch, Authorize(key, b)
    PROVE  /\ Covering'
           /\ steady /\ policy.window_cap > 0 /\ spent' # spent =>
                  LoadedLedger'.global.total <= policy.window_cap
<1>1. /\ now' = now /\ policy' = policy /\ steady' = steady /\ policy # None
      /\ AllAllowed(Decision(b).verdicts) /\ window' = SavedWindow(Decision(b).ledger)
    BY DEF Authorize, check_auth, Authorized, policyVars
<1> SUFFICES ASSUME steady, policy.window_cap > 0
             PROVE  /\ Covered(LoadedLedger'.global, UpTo(spent'), now, policy.window_secs, I128_MAX)
                    /\ spent' # spent => LoadedLedger'.global.total <= policy.window_cap
    BY <1>1 DEF Covering
<1> DEFINE P == Paying(policy, b, Len(b))
           J == Transfers(policy, b, Len(b))
           c == UpTo(spent)
           c2 == UpTo(spent')
           g == LoadedLedger'.global
<1>2. PICK X : b \in Seq(X)
    BY AccountConstants
<1>3. 1 \in DOMAIN b
    BY BatchNonEmpty
<1>4. /\ P \in Nat /\ Covered(g, Plus(c, now, P), now, policy.window_secs, I128_MAX)
      /\ J # {} => g.total <= policy.window_cap
    BY <1>1, <1>2, <1>3, RequestCovers
<1>5. Adds(c, c2, now, P) /\ (J = {} => spent' = spent)
    BY AuthorizeRecords
<1>6. now \in Nat \ {0} /\ now \in 0..MaxTime /\ spent \in SpentType
    BY CoverTypes DEF SpentSound
<1>7. c[now] \in Nat
    BY <1>6, UpToType
<1> HIDE DEF P, J, c, c2, g
<1>8. Adds(Plus(c, now, P), c2, now, 0)
    BY <1>4, <1>5, <1>6, <1>7 DEF Adds, Plus
<1>9. Covered(g, c2, now, policy.window_secs, I128_MAX)
    BY <1>4, <1>8, CoversLess
<1> QED  BY <1>4, <1>5, <1>9 DEF g, c2

(* So the ledgers of the recipients still cover, and within their caps. *)
LEMMA AuthorizeCoversTo ==
    ASSUME IInv, WindowSound, SpentSound, CoveringTo, NEW key, NEW b \in Batch, Authorize(key, b)
    PROVE  /\ CoveringTo'
           /\ steady => \A r \in Address :
                  recipient_override_cap(policy, r) # None /\ spent'[r] # spent[r] =>
                      RecipientLedger(LoadedLedger', r).total <= recipient_override_cap(policy, r)
<1>1. /\ now' = now /\ policy' = policy /\ steady' = steady /\ policy # None
      /\ AllAllowed(Decision(b).verdicts) /\ window' = SavedWindow(Decision(b).ledger)
    BY DEF Authorize, check_auth, Authorized, policyVars
<1> SUFFICES ASSUME steady, NEW r \in Address, recipient_override_cap(policy, r) # None
             PROVE  /\ Covered(RecipientLedger(LoadedLedger', r), UpTo(OnlyTo(spent', r)), now,
                               policy.window_secs, I128_MAX)
                    /\ spent'[r] # spent[r] =>
                          RecipientLedger(LoadedLedger', r).total <= recipient_override_cap(policy, r)
    BY <1>1 DEF CoveringTo, CoversTo
<1> DEFINE P == PayingTo(policy, b, Len(b), r)
           J == TransfersTo(policy, b, Len(b), r)
           c == UpTo(OnlyTo(spent, r))
           c2 == UpTo(OnlyTo(spent', r))
           g == RecipientLedger(LoadedLedger', r)
           cap == recipient_override_cap(policy, r)
<1>2. PICK X : b \in Seq(X)
    BY AccountConstants
<1>3. 1 \in DOMAIN b
    BY BatchNonEmpty
<1>4. /\ P \in Nat /\ Covered(g, Plus(c, now, P), now, policy.window_secs, I128_MAX)
      /\ J # {} => g.total <= cap
    <2>1. CoversTo(r)
        BY <1>1 DEF CoveringTo
    <2> QED  BY <1>1, <1>2, <1>3, <2>1, RequestCoversTo
<1>5. /\ spent' \in SpentType /\ spent \in SpentType /\ now \in 1..MaxTime
      /\ now \in Nat \ {0} /\ now \in 0..MaxTime
    BY AuthorizeRecords, CoverTypes DEF SpentSound
<1>6. /\ P \in Nat /\ spent'[r][now] <= spent[r][now] + P
      /\ \A t \in 1..MaxTime : t # now => spent'[r][t] = spent[r][t]
      /\ J = {} => spent'[r] = spent[r]
    BY AuthorizeRecords
<1>7. c[now] \in Nat
    BY <1>5, UpToType, OnlyToType
<1> HIDE DEF P, J, g, cap
<1>8. Adds(c, c2, now, P)
    BY <1>5, <1>6, PaymentAddsTo
<1> HIDE DEF c, c2
<1>9. Adds(Plus(c, now, P), c2, now, 0)
    BY <1>4, <1>5, <1>7, <1>8 DEF Adds, Plus
<1>10. Covered(g, c2, now, policy.window_secs, I128_MAX)
    BY <1>4, <1>9, CoversLess
<1> QED  BY <1>4, <1>6, <1>10 DEF g, c2, cap

(* A heartbeat pays nothing and leaves a window that covers. *)
LEMMA HeartbeatCovers ==
    ASSUME IInv, WindowSound, SpentSound, Covering, NEW key, heartbeat(key), UNCHANGED history
    PROVE  Covering'
<1> DEFINE call == SelfCall("heartbeat")
           b == <<call>>
<1>1. /\ now' = now /\ policy' = policy /\ steady' = steady /\ policy # None /\ spent' = spent
      /\ AllAllowed(Decision(b).verdicts) /\ window' = SavedWindow(Decision(b).ledger)
    BY DEF heartbeat, Authorized, policyVars, history
<1>2. b \in Seq({call}) /\ 1 \in DOMAIN b
    OBVIOUS
<1> SUFFICES ASSUME steady, policy.window_cap > 0
             PROVE  Covered(LoadedLedger'.global, UpTo(spent), now, policy.window_secs, I128_MAX)
    BY <1>1 DEF Covering
<1> HIDE DEF b, call
<1> DEFINE P == Paying(policy, b, Len(b))
           c == UpTo(spent)
           g == LoadedLedger'.global
<1>3. P \in Nat /\ Covered(g, Plus(c, now, P), now, policy.window_secs, I128_MAX)
    BY <1>1, <1>2, RequestCovers
<1>4. now \in Nat \ {0} /\ \A u \in 0..now : c[u] \in Nat
    BY CoverTypes, UpToType DEF SpentSound
<1> HIDE DEF P, c, g
<1>5. Adds(Plus(c, now, P), c, now, 0)
    BY <1>3, <1>4 DEF Adds, Plus
<1> QED  BY <1>3, <1>5, CoversLess DEF g, c

(* The same for the ledgers of the recipients. *)
LEMMA HeartbeatCoversTo ==
    ASSUME IInv, WindowSound, SpentSound, CoveringTo, NEW key, heartbeat(key), UNCHANGED history
    PROVE  CoveringTo'
<1> DEFINE call == SelfCall("heartbeat")
           b == <<call>>
<1>1. /\ now' = now /\ policy' = policy /\ steady' = steady /\ policy # None /\ spent' = spent
      /\ AllAllowed(Decision(b).verdicts) /\ window' = SavedWindow(Decision(b).ledger)
    BY DEF heartbeat, Authorized, policyVars, history
<1>2. b \in Seq({call}) /\ 1 \in DOMAIN b
    OBVIOUS
<1> SUFFICES ASSUME steady, NEW r \in Address, recipient_override_cap(policy, r) # None
             PROVE  Covered(RecipientLedger(LoadedLedger', r), UpTo(OnlyTo(spent, r)), now,
                            policy.window_secs, I128_MAX)
    BY <1>1 DEF CoveringTo, CoversTo
<1> HIDE DEF b, call
<1> DEFINE P == PayingTo(policy, b, Len(b), r)
           c == UpTo(OnlyTo(spent, r))
           g == RecipientLedger(LoadedLedger', r)
<1>3. P \in Nat /\ Covered(g, Plus(c, now, P), now, policy.window_secs, I128_MAX)
    <2>1. CoversTo(r)
        BY <1>1 DEF CoveringTo
    <2> QED  BY <1>1, <1>2, <2>1, RequestCoversTo
<1>4. now \in Nat \ {0} /\ \A u \in 0..now : c[u] \in Nat
    <2>1. OnlyTo(spent, r) \in SpentType /\ now \in Nat \ {0} /\ 0..now \subseteq 0..MaxTime
        BY CoverTypes, OnlyToType DEF SpentSound
    <2> QED  BY <2>1, UpToType
<1> HIDE DEF P, c, g
<1>5. Adds(Plus(c, now, P), c, now, 0)
    BY <1>3, <1>4 DEF Adds, Plus
<1> QED  BY <1>3, <1>5, CoversLess DEF g, c

(* A window that was zeroed on purpose covers the silence since then. *)
LEMMA ZeroCovers ==
    ASSUME IInv', spent' = NothingSpent, LoadedLedger'.global = EmptyLedger,
           \A r \in Address : RecipientLedger(LoadedLedger', r) = EmptyLedger
    PROVE  SpentSound' /\ Covering' /\ CoveringTo'
<1>1. now' \in 1..MaxTime /\ (policy' # None => policy'.window_secs \in Nat)
    BY DEF IInv, ControlTypeOK, PolicyConfig
<1>2. spent' \in SpentType /\ I128_MAX \in Nat
    BY NothingUpTo, WindowBounds
<1>3. \A a \in Address, t \in 1..MaxTime : spent'[a][t] = 0
    BY DEF NothingSpent
<1>4. SpentSound'
    BY <1>2, <1>3 DEF SpentSound
<1>5. Covering'
    <2> SUFFICES ASSUME policy' # None
                 PROVE  Covered(LoadedLedger'.global, UpTo(spent'), now', policy'.window_secs,
                                I128_MAX)
        BY DEF Covering
    <2>1. Covered(EmptyLedger, UpTo(NothingSpent), now', policy'.window_secs, I128_MAX)
        BY <1>1, SilenceCovered
    <2> QED  BY <2>1, Zenon
<1>6. CoveringTo'
    <2> SUFFICES ASSUME policy' # None, NEW r \in Address PROVE CoversTo(r)'
        BY DEF CoveringTo
    <2>1. Covered(EmptyLedger, UpTo(NothingSpent), now', policy'.window_secs, I128_MAX)
        BY <1>1, SilenceCovered
    <2>2. OnlyTo(spent', r) = NothingSpent
        BY <1>2, OnlyToType
    <2>3. RecipientLedger(LoadedLedger', r) = EmptyLedger
        OBVIOUS
    <2> QED  BY <2>1, <2>2, <2>3, Zenon DEF CoversTo
<1> QED  BY <1>4, <1>5, <1>6

(* A step that leaves the window, the clock and the spends alone, and with *)
(* them what the windows track, keeps the accounts.                        *)
LEMMA SameCovers ==
    ASSUME SpentSound, Covering, CoveringTo, UNCHANGED <<now, window, spent>>,
           policy' = None => policy = None, policy = None => policy' = None,
           (steady' /\ policy' # None /\ policy'.window_cap > 0) =>
               /\ steady /\ policy.window_cap > 0
               /\ policy'.window_secs = policy.window_secs,
           (steady' /\ policy' # None) =>
               /\ steady /\ policy'.window_secs = policy.window_secs
               /\ \A r \in Address : recipient_override_cap(policy', r) # None =>
                                        recipient_override_cap(policy, r) # None
    PROVE  SpentSound' /\ Covering' /\ CoveringTo'
<1>1. SpentSound'
    BY DEF SpentSound
<1>2. LoadedLedger' = LoadedLedger
    BY DEF LoadedLedger, LoadedFrom
<1>3. Covering'
    <2> SUFFICES ASSUME steady', policy' # None, policy'.window_cap > 0
                 PROVE  Covered(LoadedLedger'.global, UpTo(spent'), now', policy'.window_secs,
                                I128_MAX)
        BY DEF Covering
    <2>1. Covered(LoadedLedger.global, UpTo(spent), now, policy.window_secs, I128_MAX)
        BY DEF Covering
    <2>2. policy'.window_secs = policy.window_secs
        OBVIOUS
    <2> QED  BY <1>2, <2>1, <2>2, Zenon
<1>4. CoveringTo'
    <2> SUFFICES ASSUME steady', policy' # None, NEW r \in Address,
                        recipient_override_cap(policy', r) # None
                 PROVE  CoversTo(r)'
        BY DEF CoveringTo
    <2>1. CoversTo(r)
        BY DEF CoveringTo
    <2>2. policy'.window_secs = policy.window_secs
        OBVIOUS
    <2> QED  BY <1>2, <2>1, <2>2, Zenon DEF CoversTo
<1> QED  BY <1>1, <1>3, <1>4

(* Every step keeps the accounts. *)
LEMMA CoverStep ==
    IInv /\ WindowSound /\ SpentSound /\ Covering /\ CoveringTo /\ [HNext]_hvars => SpentSound' /\ Covering' /\ CoveringTo'
<1> SUFFICES ASSUME IInv, WindowSound, SpentSound, Covering, CoveringTo, [HNext]_hvars
             PROVE  SpentSound' /\ Covering' /\ CoveringTo'
    OBVIOUS
<1>0. IInv'
    BY HistoryStep, NextIInv, StutterIInv
<1>1. ASSUME NEW key \in Key, NEW b \in Batch, Authorize(key, b) PROVE SpentSound' /\ Covering' /\ CoveringTo'
    BY <1>1, AuthorizeRecords, AuthorizeCovers, AuthorizeCoversTo
<1>2. ASSUME NEW who \in Signer, ZeroWindow(who) PROVE SpentSound' /\ Covering' /\ CoveringTo'
    <2>1. spent' = NothingSpent /\ window' = None
        BY <1>2 DEF ZeroWindow, reset_window, revoke_policy
    <2>2. LoadedLedger'.global = EmptyLedger
        BY <2>1 DEF LoadedLedger, LoadedFrom, Ledger_empty
    <2>3. \A r \in Address : RecipientLedger(LoadedLedger', r) = EmptyLedger
        BY <2>1 DEF LoadedLedger, LoadedFrom, Ledger_empty, RecipientLedger
    <2> QED  BY <1>0, <2>1, <2>2, <2>3, ZeroCovers
<1>3. ASSUME NEW who \in Signer, NEW c \in Config, InstallPolicy(who, c)
      PROVE  SpentSound' /\ Covering' /\ CoveringTo'
    <2>1. /\ policy' = c /\ c \in PolicyConfig /\ c # None /\ UNCHANGED <<now, spent>>
          /\ steady' = (steady /\ (policy = None \/ Tracking(c) = Tracking(policy)))
        BY <1>3, AccountConstants, PolicyConstants DEF InstallPolicy, set_policy
    <2>2. CASE policy = None
        <3>1. now \in 1..MaxTime /\ now \in Nat
            BY CoverTypes
        <3>2. window' = to_state(Ledger_empty)
            BY <1>3, <2>2 DEF InstallPolicy, set_policy
        <3>3. to_state(Ledger_empty) \in StoredUpTo(now)
            BY <3>1, EmptyUpTo, ToStateUpTo
        <3>4. window' # None
            BY <3>1, <3>2, <3>3, StoredIsSome
        <3>5. LoadedLedger'.global = EmptyLedger
            <4>1. window'.entries = <<>>
                BY <3>2 DEF to_state, Ledger_empty, EmptyLedger
            <4>2. LoadedLedger'.global = ledger_from_entries(window'.entries, I128_MAX)
                BY <3>4 DEF LoadedLedger, LoadedFrom, from_state
            <4> QED  BY <4>1, <4>2, EmptyLoads, Zenon
        <3>6. spent' = NothingSpent
            BY <2>1, <2>2 DEF SpentSound
        <3>7. \A r \in Address : RecipientLedger(LoadedLedger', r) = EmptyLedger
            <4>1. DOMAIN window'.recipients = {}
                BY <3>2 DEF to_state, Ledger_empty
            <4>2. DOMAIN LoadedLedger'.recipients = {}
                BY <3>4, <4>1 DEF LoadedLedger, LoadedFrom, from_state
            <4> QED  BY <4>2 DEF RecipientLedger
        <3> QED  BY <1>0, <3>5, <3>6, <3>7, ZeroCovers
    <2>3. CASE policy # None
        <3>1. window' = window
            BY <1>3, <2>3 DEF InstallPolicy, set_policy
        <3>2. steady' /\ policy'.window_cap > 0 =>
                  /\ steady /\ policy.window_cap > 0
                  /\ policy'.window_secs = policy.window_secs
            BY <2>1, <2>3 DEF Tracking
        <3>3. steady' =>
                  /\ steady /\ policy'.window_secs = policy.window_secs
                  /\ \A r \in Address : recipient_override_cap(policy', r) # None =>
                                           recipient_override_cap(policy, r) # None
            BY <2>1, <2>3 DEF Tracking
        <3> QED  BY <2>1, <2>3, <3>1, <3>2, <3>3, SameCovers
    <2> QED  BY <2>2, <2>3
<1>4. CASE Tick /\ UNCHANGED history
    <2>1. /\ now' = now + 1 /\ now < MaxTime /\ policy' = policy
          /\ UNCHANGED <<window, spent, steady>>
        BY <1>4 DEF Tick, policyVars, history
    <2>2. now \in Nat /\ MaxTime \in Nat /\ now \in 1..MaxTime
        BY CoverTypes
    <2>3. SpentSound'
        BY <2>1, <2>2 DEF SpentSound
    <2>4. UpTo(spent)[now + 1] = UpTo(spent)[now]
        <3>1. now + 1 \in 1..MaxTime /\ now + 1 > now
            BY <2>1, <2>2
        <3>2. spent \in SpentType /\ \A a \in Address : spent[a][now + 1] = 0
            BY <3>1 DEF SpentSound
        <3> QED  BY <2>2, <3>1, <3>2, QuietSecond
    <2>5. LoadedLedger' = LoadedLedger
        BY <2>1 DEF LoadedLedger, LoadedFrom
    <2>6. Covering'
        <3> SUFFICES ASSUME steady, policy # None, policy.window_cap > 0
                     PROVE  Covered(LoadedLedger.global, UpTo(spent), now + 1, policy.window_secs,
                                    I128_MAX)
            BY <2>1, <2>5 DEF Covering
        <3> DEFINE c == UpTo(spent)
        <3>1. Covered(LoadedLedger.global, c, now, policy.window_secs, I128_MAX)
            BY DEF Covering
        <3>2. c[now + 1] = c[now]
            BY <2>4
        <3> HIDE DEF c
        <3>3. Covered(LoadedLedger.global, c, now + 1, policy.window_secs, I128_MAX)
            BY <3>1, <3>2, CoversLater
        <3> QED  BY <3>3 DEF c
    <2>7. CoveringTo'
        <3> SUFFICES ASSUME steady, policy # None, NEW r \in Address,
                            recipient_override_cap(policy, r) # None
                     PROVE  Covered(RecipientLedger(LoadedLedger, r), UpTo(OnlyTo(spent, r)),
                                    now + 1, policy.window_secs, I128_MAX)
            BY <2>1, <2>5 DEF CoveringTo, CoversTo
        <3> DEFINE f == OnlyTo(spent, r)
                   c == UpTo(f)
        <3>1. Covered(RecipientLedger(LoadedLedger, r), c, now, policy.window_secs, I128_MAX)
            BY DEF CoveringTo, CoversTo
        <3>2. now + 1 \in 1..MaxTime /\ now + 1 > now
            BY <2>1, <2>2
        <3>3. /\ f \in SpentType /\ f[r] = spent[r] /\ spent[r][now + 1] = 0
              /\ \A a \in Address : a # r => f[a][now + 1] = 0
            BY <3>2, OnlyToType DEF SpentSound
        <3> HIDE DEF f
        <3>4. c[now + 1] = c[now]
            BY <2>2, <3>2, <3>3, QuietSecond
        <3> HIDE DEF c
        <3>5. Covered(RecipientLedger(LoadedLedger, r), c, now + 1, policy.window_secs, I128_MAX)
            BY <3>1, <3>4, CoversLater
        <3> QED  BY <3>5 DEF c, f
    <2> QED  BY <2>3, <2>6, <2>7
<1>5. ASSUME NEW key \in Key, heartbeat(key), UNCHANGED history
      PROVE  SpentSound' /\ Covering' /\ CoveringTo'
    <2>1. UNCHANGED <<now, policy, spent>>
        BY <1>5 DEF heartbeat, policyVars, history
    <2>2. SpentSound'
        BY <2>1 DEF SpentSound
    <2> QED  BY <1>5, <2>2, HeartbeatCovers, HeartbeatCoversTo
<1>6. ASSUME NEW who \in Signer, NEW p \in BOOLEAN, set_paused(who, p), UNCHANGED history
      PROVE  SpentSound' /\ Covering' /\ CoveringTo'
    <2>1. /\ UNCHANGED <<now, window, spent, steady>> /\ policy # None
          /\ policy' = policy \/ policy' = [policy EXCEPT !.paused = p]
        BY <1>6 DEF set_paused, policyVars, history
    <2>2. policy \in PolicyConfig
        BY <2>1, CoverTypes
    <2>3. policy' \in PolicyConfig
        BY <2>1, <2>2 DEF PolicyConfig
    <2>4. policy' # None
        BY <2>3, PolicyConstants
    <2>5. policy'.window_cap = policy.window_cap /\ policy'.window_secs = policy.window_secs
        BY <2>1, <2>2 DEF PolicyConfig
    <2>6. policy'.recipient_window_caps = policy.recipient_window_caps
        BY <2>1, <2>2 DEF PolicyConfig
    <2>7. \A r \in Address : recipient_override_cap(policy', r) = recipient_override_cap(policy, r)
        BY <2>6, Zenon DEF recipient_override_cap
    <2> QED  BY <2>1, <2>4, <2>5, <2>7, SameCovers
<1>7. CASE UNCHANGED <<now, policy, window, spent, steady>>
    <2>1. (steady' /\ policy' # None /\ policy'.window_cap > 0) =>
               /\ steady /\ policy.window_cap > 0
               /\ policy'.window_secs = policy.window_secs
        BY <1>7
    <2>2. (steady' /\ policy' # None) =>
               /\ steady /\ policy'.window_secs = policy.window_secs
               /\ \A r \in Address : recipient_override_cap(policy', r) # None =>
                                        recipient_override_cap(policy, r) # None
        BY <1>7
    <2> QED  BY <1>7, <2>1, <2>2, SameCovers
<1>8. ASSUME NEW who \in Signer, UNCHANGED history,
             OtherAdminStep(who) \/ confirm_admin_rotation(who)
      PROVE  SpentSound' /\ Covering' /\ CoveringTo'
    <2>1. \/ \E p \in BOOLEAN : set_paused(who, p)
          \/ UNCHANGED <<now, policy, window, spent, steady>>
        BY <1>8 DEF OtherAdminStep, rotate_agent_key, cancel_admin_rotation, freeze, unfreeze,
                    confirm_admin_rotation, policyVars, history
    <2> QED  BY <1>6, <1>7, <1>8, <2>1
<1>9. ASSUME NEW who \in Signer, NEW new \in Signer, Propose(who, new)
      PROVE  UNCHANGED <<now, policy, window, spent, steady>>
    BY <1>9 DEF Propose, propose_admin_rotation, policyVars
<1>10. ASSUME UNCHANGED history,
              refresh_deadman \/ \E who \in Signer, key \in Key : initialize(who, key)
       PROVE  UNCHANGED <<now, policy, window, spent, steady>>
    BY <1>10 DEF refresh_deadman, initialize, policyVars, history
<1>11. CASE UNCHANGED hvars
    <2>1. UNCHANGED <<now, policy, window, spent, steady>>
        BY <1>11 DEF hvars, vars, policyVars, history
    <2> QED  BY <1>7, <2>1
<1> QED  BY <1>1, <1>2, <1>3, <1>4, <1>5, <1>7, <1>8, <1>9, <1>10, <1>11 DEF HNext

(* The accounts are kept in every behaviour. *)
LEMMA AccountsKept == HSpec => [](IInv /\ WindowSound /\ SpentSound /\ Covering /\ CoveringTo)
<1>1. HInit => SpentSound /\ Covering /\ CoveringTo
    <2> SUFFICES ASSUME HInit PROVE SpentSound /\ Covering /\ CoveringTo
        OBVIOUS
    <2>1. policy = None /\ spent = NothingSpent
        BY DEF HInit, Init
    <2>2. \A a \in Address, t \in 1..MaxTime : spent[a][t] = 0
        BY <2>1 DEF NothingSpent
    <2> QED  BY <2>1, <2>2, NothingUpTo, WindowBounds DEF SpentSound, Covering, CoveringTo
<1> QED  BY <1>1, CoverStep, Invariance, WindowStaysSound, HistoryImplementsAccount, PTL DEF HSpec

(* What was spent in the window that ends at t is within the total of a    *)
(* ledger that covers it.                                                  *)
SpentWithin(sp, t, w) ==
    LET in == {x \in 1..MaxTime : x <= t /\ (w = 0 \/ x + w > t)}
    IN  SumFunctionOnSet([a \in Address |-> SumFunctionOnSet(sp[a], in)], Address)

LEMMA RollingCovered ==
    ASSUME NEW sp \in SpentType, NEW t \in 1..MaxTime, NEW w \in Nat, NEW l, NEW max,
           Covered(l, UpTo(sp), t, w, max)
    PROVE  SpentWithin(sp, t, w) <= l.total /\ SpentWithin(sp, t, w) \in Int /\ l.total \in Nat
<1> DEFINE c == UpTo(sp)
<1>1. t \in 0..MaxTime /\ 0..t \subseteq 0..MaxTime
    BY AccountConstants
<1>2. PICK u \in 0..t : Starts(u, t, w) /\ SpentWithin(sp, t, w) = c[t] - c[u]
    BY RollingIsUpTo DEF SpentWithin
<1>3. c[t] \in Nat /\ c[u] \in Nat
    BY <1>1, UpToType
<1> HIDE DEF c
<1>4. l.total \in 0..max /\ c[t] - c[u] <= l.total
    BY <1>2, CoveredTotal DEF c
<1>5. max \in Nat
    BY DEF Covered, Accounts, Summed, PartialSums
<1> QED  BY <1>2, <1>3, <1>4, <1>5

(* The stored ledger accounts for every payment still inside the window,   *)
(* after any number of loads, prunes, merges of entries at the bound of    *)
(* MAX_WINDOW_ENTRIES and edits that keep what the windows track           *)
(* (load_window, Ledger::prune, record_entries).                           *)
THEOREM LedgerCovers == HSpec => []LedgerCoversSpend
<1>1. IInv /\ WindowSound /\ SpentSound /\ Covering /\ CoveringTo => LedgerCoversSpend
    <2> SUFFICES ASSUME IInv, SpentSound, Covering, policy # None, policy.window_cap > 0, steady
                 PROVE  prune(LoadedLedger, now, policy.window_secs).global.total >= RollingAll
        BY DEF LedgerCoversSpend
    <2> DEFINE g == prune_entries(LoadedLedger.global, now, policy.window_secs)
               c == UpTo(spent)
    <2>1. Covered(LoadedLedger.global, c, now, policy.window_secs, I128_MAX)
        BY DEF Covering
    <2> HIDE DEF c
    <2>2. Covered(g, c, now, policy.window_secs, I128_MAX)
        BY <2>1, PruneCovers
    <2>3. prune(LoadedLedger, now, policy.window_secs).global = g
        BY DEF prune
    <2> HIDE DEF g
    <2>4. spent \in SpentType /\ now \in 1..MaxTime /\ policy.window_secs \in Nat
        BY DEF SpentSound, IInv, ControlTypeOK, PolicyConfig
    <2>5. RollingAll = SpentWithin(spent, now, policy.window_secs)
        BY DEF RollingAll, RollingTo, Rolling, InWindow, SpentWithin
    <2>6. RollingAll <= g.total /\ RollingAll \in Int /\ g.total \in Nat
        BY <2>2, <2>4, <2>5, RollingCovered DEF c
    <2> QED  BY <2>3, <2>6
<1> QED  BY <1>1, AccountsKept, PTL

(* window_cap is a hard ceiling over any window_secs span: whatever came   *)
(* before, as long as no edit has changed what the windows track, a        *)
(* payment leaves what was really paid in the span at or below the cap     *)
(* (engine::decide, Ledger::record, __check_auth).                         *)
THEOREM WindowIsCeiling == HSpec => WindowCeiling
<1>1. IInv /\ WindowSound /\ SpentSound /\ Covering /\ CoveringTo /\ [HNext]_hvars
          => [steady => GlobalCeilingKept]_hvars
    <2> SUFFICES ASSUME IInv, WindowSound, SpentSound, Covering, CoveringTo, [HNext]_hvars, steady,
                        spent' # spent, policy # None, policy' = policy, policy.window_cap > 0
                 PROVE  RollingAll' <= policy.window_cap
        BY DEF GlobalCeilingKept
    <2>0. IInv' /\ SpentSound' /\ Covering' /\ policy.window_cap \in Int
        BY HistoryStep, NextIInv, StutterIInv, CoverStep, CoverTypes
    <2>1. ASSUME NEW key \in Key, NEW b \in Batch, Authorize(key, b)
          PROVE  steady' /\ LoadedLedger'.global.total <= policy.window_cap
        <3>1. steady' = steady
            BY <2>1 DEF Authorize
        <3> QED  BY <2>1, <3>1, AuthorizeCovers
    <2>2. ASSUME NEW who \in Signer, ZeroWindow(who)
          PROVE  steady' /\ LoadedLedger'.global.total <= policy.window_cap
        <3>1. steady' /\ window' = None
            BY <2>2 DEF ZeroWindow, reset_window, revoke_policy
        <3>2. LoadedLedger'.global.total = 0
            BY <3>1 DEF LoadedLedger, LoadedFrom, Ledger_empty, EmptyLedger
        <3> QED  BY <2>0, <3>1, <3>2
    <2>3. steady' /\ LoadedLedger'.global.total <= policy.window_cap
        BY <2>1, <2>2 DEF HNext, InstallPolicy, Propose, hvars, history
    <2>4. Covered(LoadedLedger'.global, UpTo(spent'), now', policy'.window_secs, I128_MAX)
        BY <2>0, <2>3 DEF Covering
    <2>5. spent' \in SpentType /\ now' \in 1..MaxTime /\ policy'.window_secs \in Nat
        BY <2>0 DEF SpentSound, IInv, ControlTypeOK, PolicyConfig
    <2>6. RollingAll' = SpentWithin(spent', now', policy'.window_secs)
        BY DEF RollingAll, RollingTo, Rolling, InWindow, SpentWithin
    <2>7. /\ RollingAll' <= LoadedLedger'.global.total
          /\ RollingAll' \in Int /\ LoadedLedger'.global.total \in Nat
        BY <2>4, <2>5, <2>6, RollingCovered
    <2> QED  BY <2>0, <2>3, <2>7
<1> QED  BY <1>1, AccountsKept, PTL DEF HSpec, WindowCeiling

-----------------------------------------------------------------------------
(* The refinement of the abstract guard                                    *)

(* The seconds of the window that ends at t, and what was spent in them to *)
(* one address with a ledger of its own.                                   *)
WindowSeconds(t, w) == {x \in 1..MaxTime : x <= t /\ (w = 0 \/ x + w > t)}

LEMMA RollingCoveredTo ==
    ASSUME NEW sp \in SpentType, NEW r \in Address, NEW t \in 1..MaxTime, NEW w \in Nat, NEW l,
           NEW max, Covered(l, UpTo(OnlyTo(sp, r)), t, w, max)
    PROVE  /\ SumFunctionOnSet(sp[r], WindowSeconds(t, w)) <= l.total
           /\ SumFunctionOnSet(sp[r], WindowSeconds(t, w)) \in Int /\ l.total \in Nat
<1> DEFINE g == OnlyTo(sp, r)
           in == WindowSeconds(t, w)
           f == [a \in Address |-> SumFunctionOnSet(g[a], in)]
<1>1. /\ g \in SpentType /\ g[r] = sp[r]
      /\ \A a \in Address, x \in 1..MaxTime : a # r => g[a][x] = 0
    BY OnlyToType
<1>2. IsFiniteSet(in) /\ in \subseteq 1..MaxTime
    <2>1. IsFiniteSet(1..MaxTime) /\ in \subseteq 1..MaxTime
        BY AccountConstants, FS_Interval DEF WindowSeconds
    <2> QED  BY <2>1, FS_Subset
<1>3. SpentWithin(g, t, w) = SumFunctionOnSet(f, Address)
    BY DEF SpentWithin, WindowSeconds
<1>4. /\ SpentWithin(g, t, w) <= l.total /\ SpentWithin(g, t, w) \in Int /\ l.total \in Nat
    BY <1>1, RollingCovered
<1> HIDE DEF g, in
<1>5. f[r] = SumFunctionOnSet(sp[r], in)
    BY <1>1
<1>6. f[r] \in Nat
    <2> DEFINE h == sp[r]
    <2>1. \A x \in in : h[x] \in Nat
        BY <1>2 DEF SpentType
    <2> HIDE DEF h
    <2>2. SumFunctionOnSet(h, in) \in Nat
        BY <1>2, <2>1, SumRemove
    <2> QED  BY <1>5, <2>2 DEF h
<1>7. ASSUME NEW a \in Address, a # r PROVE f[a] = 0
    <2> DEFINE h == g[a]
    <2>1. \A x \in in : h[x] = 0
        BY <1>1, <1>2, <1>7
    <2> HIDE DEF h
    <2>2. SumFunctionOnSet(h, in) = 0
        BY <1>2, <2>1, SumZero
    <2> QED  BY <2>2 DEF h
<1> HIDE DEF f
<1>8. SumFunctionOnSet(f, Address) = f[r]
    BY <1>6, <1>7, OneCounts
<1> QED  BY <1>3, <1>4, <1>5, <1>8, Zenon DEF in

(* The guard adds up as the account does. *)
LEMMA GuardSum ==
    ASSUME NEW f, NEW S
    PROVE  Guard!SumFunctionOnSet(f, S) = SumFunctionOnSet(f, S)
<1>1. Guard!SumFunctionOnSet(f, S) = SumIter(f, S)[S]
    BY DEF Guard!SumFunctionOnSet, Guard!FoldFunctionOnSet, Guard!MapThenFoldSet, SumIter, Choice
<1> QED  BY <1>1, SumIsIter

(* The limits of the guard are those of the stored policy. *)
LEMMA LimitsInForce ==
    ASSUME IInv, Limits # None
    PROVE  /\ policy # None /\ steady /\ policy \in PolicyConfig /\ policy.window_secs \in Nat
           /\ Limits.width = policy.window_secs /\ Limits.cap = policy.window_cap
           /\ \A p \in DOMAIN Limits.own :
                  /\ p \in Address /\ recipient_override_cap(policy, p) # None
                  /\ Limits.own[p] = recipient_override_cap(policy, p)
           /\ Guard!Span(Limits.width) = WindowSeconds(now, policy.window_secs)
<1>1. policy # None /\ steady
    BY DEF Limits
<1>2. policy \in PolicyConfig /\ policy.window_secs \in Nat /\ now \in Nat /\ MaxTime \in Nat
    BY <1>1, AccountConstants DEF IInv, ControlTypeOK, PolicyConfig
<1>3. /\ Limits.width = policy.window_secs /\ Limits.cap = policy.window_cap
      /\ Limits.own = [a \in {b \in Address : recipient_override_cap(policy, b) # None} |->
                          recipient_override_cap(policy, a)]
    BY <1>1 DEF Limits
<1>4. Guard!Span(Limits.width) = WindowSeconds(now, policy.window_secs)
    <2> DEFINE w == policy.window_secs
    <2>1. Guard!Span(w) = WindowSeconds(now, w)
        BY <1>2 DEF Guard!Span, WindowSeconds
    <2> QED  BY <1>3, <2>1, Zenon
<1> QED  BY <1>1, <1>2, <1>3, <1>4

(* A payment of the account is one of the guard: through the open gate,    *)
(* now, and within the limits.                                             *)
LEMMA AuthorizePays ==
    ASSUME IInv, WindowSound, SpentSound, Covering, CoveringTo,
           NEW key \in Key, NEW b \in Batch, Authorize(key, b), spent' # spent
    PROVE  Guard!Pay
<1>0. /\ now' = now /\ policy' = policy /\ steady' = steady /\ UNCHANGED dmsVars
      /\ policy # None
    BY DEF Authorize, check_auth, Authorized, policyVars
<1>1. AccountGate(policy, adminFrozen, lastHeartbeat, now) = Allowed
    <2>1. AgentStep
        BY DEF Authorize, AgentStep
    <2> QED  BY <2>1, AgentStepGateOpen
<1>2. \A p \in Address, t \in 1..MaxTime :
          IF t = now THEN spent'[p][t] >= spent[p][t] ELSE spent'[p][t] = spent[p][t]
    <2>1. spent \in SpentType /\ spent' \in SpentType
        BY AuthorizeRecords DEF SpentSound
    <2>2. \A p \in Address : /\ spent[p][now] <= spent'[p][now]
                             /\ \A t \in 1..MaxTime : t # now => spent'[p][t] = spent[p][t]
        BY AuthorizeRecords
    <2> QED  BY <2>1, <2>2 DEF SpentType
<1>3. UNCHANGED <<now, Limits>>
      /\ (policy # None /\ AccountGate(policy, adminFrozen, lastHeartbeat, now) = Allowed)'
             = (policy # None /\ AccountGate(policy, adminFrozen, lastHeartbeat, now) = Allowed)
    BY <1>0 DEF Limits, dmsVars
<1>4. ASSUME Limits # None
      PROVE  /\ Limits.cap > 0 =>
                    Guard!SumFunctionOnSet([p \in Address |-> Guard!InSpan(spent'[p])], Address)
                        <= Limits.cap
             /\ \A p \in DOMAIN Limits.own :
                    spent'[p] # spent[p] => Guard!InSpan(spent'[p]) <= Limits.own[p]
    <2> DEFINE w == policy.window_secs
    <2>1. /\ policy # None /\ steady /\ policy \in PolicyConfig /\ policy.window_secs \in Nat
          /\ Limits.cap = policy.window_cap
          /\ \A p \in DOMAIN Limits.own :
                  /\ p \in Address /\ recipient_override_cap(policy, p) # None
                  /\ Limits.own[p] = recipient_override_cap(policy, p)
          /\ Guard!Span(Limits.width) = WindowSeconds(now, w)
        BY <1>4, LimitsInForce
    <2>2. spent' \in SpentType /\ now \in 1..MaxTime
        BY AuthorizeRecords, CoverTypes DEF SpentSound
    <2>3. \A p : Guard!InSpan(spent'[p]) = SumFunctionOnSet(spent'[p], WindowSeconds(now, w))
        <3> SUFFICES ASSUME NEW p
                     PROVE  Guard!InSpan(spent'[p])
                                = SumFunctionOnSet(spent'[p], WindowSeconds(now, w))
            OBVIOUS
        <3>1. Guard!InSpan(spent'[p])
                  = Guard!SumFunctionOnSet(spent'[p], Guard!Span(Limits.width))
            BY DEF Guard!InSpan
        <3>2. Guard!SumFunctionOnSet(spent'[p], Guard!Span(Limits.width))
                  = SumFunctionOnSet(spent'[p], Guard!Span(Limits.width))
            BY GuardSum
        <3> QED  BY <2>1, <3>1, <3>2, Zenon
    <2>4. ASSUME policy.window_cap > 0
          PROVE  Guard!SumFunctionOnSet([p \in Address |-> Guard!InSpan(spent'[p])], Address)
                     <= policy.window_cap
        <3> DEFINE l == LoadedLedger'.global
        <3>1. /\ Covered(l, UpTo(spent'), now, w, I128_MAX)
              /\ l.total <= policy.window_cap
            BY <1>0, <2>1, <2>4, AuthorizeCovers DEF Covering
        <3>2. SpentWithin(spent', now, w) <= l.total /\ SpentWithin(spent', now, w) \in Int
              /\ l.total \in Nat
            BY <2>1, <2>2, <3>1, RollingCovered
        <3>3. Guard!SumFunctionOnSet([p \in Address |-> Guard!InSpan(spent'[p])], Address)
                  = SpentWithin(spent', now, w)
            <4> DEFINE f == [p \in Address |-> Guard!InSpan(spent'[p])]
            <4>0. Guard!SumFunctionOnSet(f, Address) = SumFunctionOnSet(f, Address)
                BY GuardSum
            <4>1. [p \in Address |-> Guard!InSpan(spent'[p])]
                      = [p \in Address |-> SumFunctionOnSet(spent'[p], WindowSeconds(now, w))]
                BY <2>3
            <4>2. SpentWithin(spent', now, w)
                      = SumFunctionOnSet([p \in Address |->
                            SumFunctionOnSet(spent'[p], WindowSeconds(now, w))], Address)
                BY Zenon DEF SpentWithin, WindowSeconds
            <4> QED  BY <4>0, <4>1, <4>2, Zenon
        <3>4. policy.window_cap \in Int
            BY <2>1 DEF PolicyConfig
        <3> HIDE DEF l
        <3> QED  BY <3>1, <3>2, <3>3, <3>4
    <2>5. ASSUME NEW p \in DOMAIN Limits.own, spent'[p] # spent[p]
          PROVE  Guard!InSpan(spent'[p]) <= Limits.own[p]
        <3> DEFINE l == RecipientLedger(LoadedLedger', p)
                   cap == recipient_override_cap(policy, p)
                   n == SumFunctionOnSet(spent'[p], WindowSeconds(now, w))
        <3>1. p \in Address /\ cap # None /\ Limits.own[p] = cap
            BY <2>1
        <3>2. Covered(l, UpTo(OnlyTo(spent', p)), now, w, I128_MAX) /\ l.total <= cap
            BY <1>0, <2>1, <2>5, <3>1, AuthorizeCoversTo DEF CoveringTo, CoversTo
        <3>3. n <= l.total /\ n \in Int /\ l.total \in Nat
            BY <2>1, <2>2, <3>1, <3>2, RollingCoveredTo
        <3>4. cap \in Int
            <4>1. policy.recipient_window_caps \in Seq([recipient : Address, cap : Int])
                BY <2>1 DEF PolicyConfig
            <4>2. PICK i \in DOMAIN policy.recipient_window_caps :
                      cap = policy.recipient_window_caps[i].cap
                BY <2>1, <3>1, OverrideIsOn
            <4> DEFINE caps == policy.recipient_window_caps
            <4> HIDE DEF cap, caps
            <4>3. caps \in Seq([recipient : Address, cap : Int]) /\ i \in DOMAIN caps
                BY <4>1, <4>2 DEF caps
            <4>4. caps[i] \in [recipient : Address, cap : Int]
                <5> DEFINE X == [recipient : Address, cap : Int]
                <5>1. DOMAIN caps = 1..Len(caps)
                    BY <4>3, LenProperties
                <5> HIDE DEF X
                <5> QED  BY <4>3, <5>1, ElementOfSeq, Zenon DEF X
            <4> QED  BY <4>2, <4>4 DEF caps
        <3>5. Guard!InSpan(spent'[p]) = n
            BY <2>3
        <3> HIDE DEF l, cap, n
        <3> QED  BY <3>1, <3>2, <3>3, <3>4, <3>5
    <2> QED  BY <2>1, <2>4, <2>5
<1> QED  BY <1>0, <1>1, <1>2, <1>3, <1>4 DEF Guard!Pay

(* Every other step pays nothing: it is one of the owner's, or time.       *)
LEMMA GuardStep ==
    IInv /\ WindowSound /\ SpentSound /\ Covering /\ CoveringTo /\ [HNext]_hvars
        => [Guard!GuardNext]_(Guard!guardVars)
<1> SUFFICES ASSUME IInv, WindowSound, SpentSound, Covering, CoveringTo, [HNext]_hvars
             PROVE  [Guard!GuardNext]_(Guard!guardVars)
    OBVIOUS
<1>0. now' = now /\ spent' \in {spent, NothingSpent} => Guard!Govern
    BY DEF Guard!Govern, Guard!Nothing, NothingSpent
<1>1. ASSUME NEW key \in Key, NEW b \in Batch, Authorize(key, b) PROVE Guard!Pay \/ Guard!Govern
    <2>1. now' = now
        BY <1>1 DEF Authorize, check_auth
    <2> QED  BY <1>0, <1>1, <2>1, AuthorizePays
<1>2. ASSUME NEW who \in Signer, ZeroWindow(who) PROVE Guard!Govern
    BY <1>0, <1>2 DEF ZeroWindow, reset_window, revoke_policy
<1>3. ASSUME NEW who \in Signer, NEW c \in Config, InstallPolicy(who, c) PROVE Guard!Govern
    BY <1>0, <1>3 DEF InstallPolicy, set_policy
<1>4. ASSUME NEW who \in Signer, NEW new \in Signer, Propose(who, new) PROVE Guard!Govern
    BY <1>0, <1>4 DEF Propose, propose_admin_rotation
<1>5. CASE Tick /\ UNCHANGED history
    <2>1. now' = now + 1 /\ UNCHANGED <<policy, spent, steady>>
        BY <1>5 DEF Tick, policyVars, history
    <2>2. Limits' = Limits
        BY <2>1 DEF Limits
    <2> QED  BY <2>1, <2>2 DEF Guard!Elapse, Guard!GuardNext
<1>6. ASSUME UNCHANGED history,
             \/ \E who \in Signer, key \in Key : initialize(who, key)
             \/ \E who \in Signer : OtherAdminStep(who) \/ confirm_admin_rotation(who)
             \/ \E key \in Key : heartbeat(key)
             \/ refresh_deadman
      PROVE  Guard!Govern
    <2>1. now' = now
        BY <1>6 DEF initialize, OtherAdminStep, set_paused, rotate_agent_key,
                    cancel_admin_rotation, freeze, unfreeze, confirm_admin_rotation, heartbeat,
                    refresh_deadman
    <2>2. spent' = spent
        BY <1>6 DEF history
    <2> QED  BY <1>0, <2>1, <2>2
<1>7. CASE UNCHANGED hvars
    <2>1. now' = now /\ spent' = spent
        BY <1>7 DEF hvars, vars, history
    <2> QED  BY <1>0, <2>1 DEF Guard!GuardNext
<1> QED  BY <1>1, <1>2, <1>3, <1>4, <1>5, <1>6, <1>7 DEF HNext, Guard!GuardNext

(* The account implements the abstract guard: whatever ledgers, merges,    *)
(* staging and storage keys it uses, every step either pays in the current *)
(* second, through an open gate and within the limits of the stored policy *)
(* on what was really paid (in all, and to each recipient with a cap of    *)
(* its own), or pays nothing (__check_auth, engine::decide, lib.rs's entry *)
(* points).                                                                *)
THEOREM AccountImplementsGuard == HSpec => ImplementsGuard
<1>1. HInit => Guard!GuardInit
    <2> SUFFICES ASSUME HInit PROVE Guard!GuardInit
        OBVIOUS
    <2>1. policy = None /\ spent = NothingSpent /\ now = 1
        BY DEF HInit, Init
    <2>2. Limits = None
        BY <2>1 DEF Limits
    <2>3. (policy # None /\ AccountGate(policy, adminFrozen, lastHeartbeat, now) = Allowed) = FALSE
        BY <2>1
    <2> QED  BY <2>1, <2>2, <2>3 DEF Guard!GuardInit, Guard!Nothing, NothingSpent
<1> QED  BY <1>1, GuardStep, AccountsKept, PTL DEF HSpec, ImplementsGuard, Guard!GuardSpec

-----------------------------------------------------------------------------
(* The budget that status() reports                                        *)

(* The total of the loaded global ledger is the sum of its entries,        *)
(* whatever policies were in force when they were recorded.                *)
GlobalTallied == Tallied(LoadedLedger.global, now, I128_MAX)

(* What an allowed request saves is right again, and it has not grown the  *)
(* budget.                                                                 *)
LEMMA RequestTallies ==
    ASSUME IInv, WindowSound, GlobalTallied, policy # None,
           NEW X, NEW ctxs \in Seq(X), 1 \in DOMAIN ctxs, AllAllowed(Decision(ctxs).verdicts),
           window' = SavedWindow(Decision(ctxs).ledger), now' = now
    PROVE  /\ GlobalTallied'
           /\ policy.window_cap > 0 =>
                  LET before == prune_entries(LoadedLedger.global, now, policy.window_secs).total
                      after  == prune_entries(LoadedLedger'.global, now, policy.window_secs).total
                  IN  before \in Nat /\ after \in Nat /\ before <= after
<1> DEFINE D == decide(policy, adminFrozen, lastHeartbeat, LoadedLedger, now, ctxs)
           L == D.ledger
           w == policy.window_secs
<1>1. /\ now \in Nat \ {0} /\ now \in 1..MaxTime /\ policy \in PolicyConfig
      /\ LoadedLedger \in LedgersUpTo(now)
    BY CoverTypes
<1>2. Decision(ctxs) = D
    BY DEF Decision
<1>3. AllAllowed(D.verdicts) /\ window' = SavedWindow(L)
    BY <1>2, Zenon
<1>4. Tallied(LoadedLedger.global, now, I128_MAX)
    BY DEF GlobalTallied
<1>5. Tallied(L.global, now, I128_MAX)
    BY <1>1, <1>3, <1>4, DecideTallies
<1>6. L \in LedgersUpTo(now)
    BY <1>1, DecideType
<1>7. ASSUME policy.window_cap > 0
      PROVE  /\ prune_entries(LoadedLedger.global, now, w).total \in Nat
             /\ prune_entries(L.global, now, w).total \in Nat
             /\ prune_entries(LoadedLedger.global, now, w).total
                    <= prune_entries(L.global, now, w).total
    BY <1>1, <1>3, <1>4, <1>7, DecideKeepsTotal
<1> HIDE DEF D, L
<1>8. LoadedLedger'.global = L.global
    <2>1. Covered(L.global, Silence, now, 0, I128_MAX)
        BY <1>5, TalliedCovers
    <2> QED  BY <1>1, <1>3, <1>6, <2>1, SavedIsLoaded
<1>9. GlobalTallied'
    BY <1>5, <1>8, Zenon DEF GlobalTallied
<1> HIDE DEF w
<1> QED  BY <1>7, <1>8, <1>9, Zenon DEF w

(* What the agent key does is an allowed request whose ledger is saved. *)
LEMMA AgentCallRequest ==
    ASSUME AgentStep
    PROVE  \E X : \E ctxs \in Seq(X) :
               /\ 1 \in DOMAIN ctxs /\ AllAllowed(Decision(ctxs).verdicts) /\ policy # None
               /\ window' = SavedWindow(Decision(ctxs).ledger)
               /\ now' = now /\ policy' = policy
<1>1. ASSUME NEW key \in Key, NEW b \in Batch, check_auth(key, b)
      PROVE  \E X : \E ctxs \in Seq(X) :
                 /\ 1 \in DOMAIN ctxs /\ AllAllowed(Decision(ctxs).verdicts) /\ policy # None
                 /\ window' = SavedWindow(Decision(ctxs).ledger)
                 /\ now' = now /\ policy' = policy
    <2>1. PICK X : b \in Seq(X)
        BY AccountConstants
    <2>2. /\ 1 \in DOMAIN b /\ AllAllowed(Decision(b).verdicts) /\ policy # None
          /\ window' = SavedWindow(Decision(b).ledger) /\ now' = now /\ policy' = policy
        BY <1>1, BatchNonEmpty DEF check_auth, Authorized, policyVars
    <2> QED  BY <2>1, <2>2
<1>2. ASSUME NEW key \in Key, heartbeat(key)
      PROVE  \E X : \E ctxs \in Seq(X) :
                 /\ 1 \in DOMAIN ctxs /\ AllAllowed(Decision(ctxs).verdicts) /\ policy # None
                 /\ window' = SavedWindow(Decision(ctxs).ledger)
                 /\ now' = now /\ policy' = policy
    <2> DEFINE call == SelfCall("heartbeat")
               b == <<call>>
    <2>1. b \in Seq({call}) /\ 1 \in DOMAIN b
        OBVIOUS
    <2>2. /\ AllAllowed(Decision(b).verdicts) /\ policy # None
          /\ window' = SavedWindow(Decision(b).ledger) /\ now' = now /\ policy' = policy
        BY <1>2 DEF heartbeat, Authorized, policyVars
    <2> HIDE DEF b, call
    <2> QED  BY <2>1, <2>2
<1> QED  BY <1>1, <1>2 DEF AgentStep

(* A request of the agent is one of these. *)
LEMMA AgentCallTallies ==
    ASSUME IInv, WindowSound, GlobalTallied, AgentStep
    PROVE  /\ GlobalTallied' /\ policy' = policy /\ now' = now /\ policy # None
           /\ policy.window_cap > 0 =>
                  LET before == prune_entries(LoadedLedger.global, now, policy.window_secs).total
                      after  == prune_entries(LoadedLedger'.global, now, policy.window_secs).total
                  IN  before \in Nat /\ after \in Nat /\ before <= after
<1>1. PICK X : \E ctxs \in Seq(X) :
                 /\ 1 \in DOMAIN ctxs /\ AllAllowed(Decision(ctxs).verdicts) /\ policy # None
                 /\ window' = SavedWindow(Decision(ctxs).ledger)
                 /\ now' = now /\ policy' = policy
    BY AgentCallRequest
<1>2. PICK ctxs \in Seq(X) :
                 /\ 1 \in DOMAIN ctxs /\ AllAllowed(Decision(ctxs).verdicts) /\ policy # None
                 /\ window' = SavedWindow(Decision(ctxs).ledger)
                 /\ now' = now /\ policy' = policy
    BY <1>1
<1> QED  BY <1>2, RequestTallies

(* Every other step keeps the window, empties or removes it, or lets time  *)
(* pass; with the same window and in the same second the total is right as *)
(* before.                                                                 *)
LEMMA OtherStepWindow ==
    ASSUME IInv, [Next]_vars
    PROVE  \/ AgentStep
           \/ UNCHANGED <<now, window>>
           \/ now' = now /\ window' = None
           \/ now' = now /\ policy = None /\ window' = to_state(Ledger_empty)
           \/ now' = now + 1 /\ window' = window
<1>1. ASSUME AdminStep
      PROVE  \/ UNCHANGED <<now, window>>
             \/ now' = now /\ window' = None
             \/ now' = now /\ policy = None /\ window' = to_state(Ledger_empty)
    <2>1. ASSUME NEW who \in Signer, NEW c \in Config, set_policy(who, c)
          PROVE  \/ UNCHANGED <<now, window>>
                 \/ now' = now /\ policy = None /\ window' = to_state(Ledger_empty)
        BY <2>1 DEF set_policy
    <2>2. ASSUME NEW who \in Signer, reset_window(who) \/ revoke_policy(who)
          PROVE  now' = now /\ window' = None
        BY <2>2 DEF reset_window, revoke_policy
    <2>3. ASSUME NEW who \in Signer,
                 \/ \E p \in BOOLEAN : set_paused(who, p)
                 \/ \E k \in Key : rotate_agent_key(who, k)
                 \/ \E a \in Signer : propose_admin_rotation(who, a)
                 \/ cancel_admin_rotation(who)
                 \/ freeze(who)
                 \/ unfreeze(who)
          PROVE  UNCHANGED <<now, window>>
        BY <2>3 DEF set_paused, rotate_agent_key, propose_admin_rotation, cancel_admin_rotation,
                    freeze, unfreeze
    <2> QED  BY <1>1, <2>1, <2>2, <2>3 DEF AdminStep
<1>2. CASE Tick
    BY <1>2 DEF Tick
<1>3. CASE \/ \E who \in Signer, key \in Key : initialize(who, key)
           \/ \E who \in Signer : confirm_admin_rotation(who)
           \/ refresh_deadman
           \/ UNCHANGED vars
    BY <1>3 DEF initialize, confirm_admin_rotation, refresh_deadman, vars
<1> QED  BY <1>1, <1>2, <1>3 DEF Next

(* An absent or a fresh window loads as the empty ledger. *)
LEMMA EmptyTallied == ASSUME NEW t \in 1..MaxTime PROVE Tallied(EmptyLedger, t, I128_MAX)
<1>1. Covered(EmptyLedger, UpTo(NothingSpent), t, 0, I128_MAX)
    BY SilenceCovered
<1> QED  BY <1>1 DEF Tallied

LEMMA TalliedStep == IInv /\ WindowSound /\ GlobalTallied /\ [Next]_vars => GlobalTallied'
<1> SUFFICES ASSUME IInv, WindowSound, GlobalTallied, [Next]_vars PROVE GlobalTallied'
    OBVIOUS
<1>0. now \in Nat \ {0} /\ now \in 1..MaxTime /\ now \in Nat
    BY CoverTypes
<1>1. CASE AgentStep
    BY <1>1, AgentCallTallies
<1>2. CASE UNCHANGED <<now, window>>
    BY <1>2 DEF GlobalTallied, LoadedLedger, LoadedFrom
<1>3. CASE now' = now /\ window' = None
    <2>1. LoadedLedger'.global = EmptyLedger
        BY <1>3 DEF LoadedLedger, LoadedFrom, Ledger_empty
    <2>2. Tallied(EmptyLedger, now', I128_MAX)
        BY <1>0, <1>3, EmptyTallied
    <2> QED  BY <2>1, <2>2, Zenon DEF GlobalTallied
<1>4. CASE now' = now /\ window' = to_state(Ledger_empty)
    <2>1. to_state(Ledger_empty) \in StoredUpTo(now)
        BY <1>0, EmptyUpTo, ToStateUpTo
    <2>2. window' # None
        BY <1>0, <1>4, <2>1, StoredIsSome
    <2>3. window'.entries = <<>>
        BY <1>4 DEF to_state, Ledger_empty, EmptyLedger
    <2>4. LoadedLedger'.global = ledger_from_entries(window'.entries, I128_MAX)
        BY <2>2 DEF LoadedLedger, LoadedFrom, from_state
    <2>5. LoadedLedger'.global = EmptyLedger
        BY <2>3, <2>4, EmptyLoads, Zenon
    <2>6. Tallied(EmptyLedger, now', I128_MAX)
        BY <1>0, <1>4, EmptyTallied
    <2> QED  BY <2>5, <2>6, Zenon DEF GlobalTallied
<1>5. CASE now' = now + 1 /\ window' = window
    <2>1. LoadedLedger' = LoadedLedger
        BY <1>5 DEF LoadedLedger, LoadedFrom
    <2>2. Tallied(LoadedLedger.global, now + 1, I128_MAX)
        BY <1>0, TalliedLater DEF GlobalTallied
    <2> QED  BY <1>5, <2>1, <2>2, Zenon DEF GlobalTallied
<1> QED  BY <1>1, <1>2, <1>3, <1>4, <1>5, OtherStepWindow

(* The reported budget in terms of the pruned total. *)
LEMMA BudgetIs ==
    ASSUME NEW cfg, cfg.window_cap > 0, NEW ledger, NEW t,
           prune_entries(ledger.global, t, cfg.window_secs).total \in Nat, cfg.window_cap \in Int
    PROVE  LET total == prune_entries(ledger.global, t, cfg.window_secs).total
           IN  global_window_remaining(cfg, prune(ledger, t, cfg.window_secs))
                   = IF cfg.window_cap - total >= 0 THEN cfg.window_cap - total ELSE 0
<1> DEFINE pruned == prune(ledger, t, cfg.window_secs)
           total == prune_entries(ledger.global, t, cfg.window_secs).total
           S == {cfg.window_cap - total, 0}
           m == IF cfg.window_cap - total >= 0 THEN cfg.window_cap - total ELSE 0
<1>1. pruned.global.total = total
    BY DEF prune
<1> HIDE DEF pruned
<1>2. global_window_remaining(cfg, pruned) = Max({cfg.window_cap - pruned.global.total, 0})
    BY DEF global_window_remaining
<1> HIDE DEF total
<1>3. global_window_remaining(cfg, pruned) = Max(S)
    BY <1>1, <1>2, Zenon
<1>4. m \in S /\ m \in Int /\ S \subseteq Int /\ \A y \in S : m >= y
    BY DEF total
<1> HIDE DEF S, m
<1>5. Max(S) = m
    <2>1. Max(S) \in S /\ \A y \in S : Max(S) >= y
        BY <1>4 DEF Max
    <2> DEFINE x == Max(S)
    <2>2. x \in S /\ \A y \in S : x >= y
        BY <2>1, Zenon
    <2> HIDE DEF x
    <2>3. x \in Int /\ x >= m /\ m >= x
        BY <1>4, <2>2
    <2>4. x = m
        BY <1>4, <2>3
    <2> QED  BY <2>4, Zenon DEF x
<1> QED  BY <1>3, <1>5 DEF pruned, total, m

(* No free budget: within one second and under the same cap and width, the *)
(* budget left never grows while a window stays stored, whatever requests, *)
(* edits, pauses and rotations are made (__check_auth, set_policy,         *)
(* load_window, Ledger::prune).                                            *)
THEOREM BudgetNeverGrows == Spec => NoFreeBudget
<1>1. Init => GlobalTallied
    <2> SUFFICES ASSUME Init PROVE GlobalTallied
        OBVIOUS
    <2>1. LoadedLedger.global = EmptyLedger /\ now = 1 /\ 1 \in 1..MaxTime
        BY AccountConstants DEF Init, LoadedLedger, LoadedFrom, Ledger_empty
    <2> QED  BY <2>1, EmptyTallied DEF GlobalTallied
<1>2. IInv /\ WindowSound /\ GlobalTallied /\ [Next]_vars =>
          [ (/\ policy # None /\ policy' # None
             /\ policy.window_cap > 0 /\ policy'.window_cap = policy.window_cap
             /\ policy'.window_secs = policy.window_secs
             /\ now' = now /\ window' # None /\ window' # window)
            => BudgetLeft' <= BudgetLeft ]_vars
    <2> SUFFICES ASSUME IInv, WindowSound, GlobalTallied, [Next]_vars,
                        policy # None, policy' # None,
                        policy.window_cap > 0, policy'.window_cap = policy.window_cap,
                        policy'.window_secs = policy.window_secs,
                        now' = now, window' # None, window' # window
                 PROVE  BudgetLeft' <= BudgetLeft
        OBVIOUS
    <2> DEFINE w == policy.window_secs
               cap == policy.window_cap
               before == prune_entries(LoadedLedger.global, now, w).total
               after == prune_entries(LoadedLedger'.global, now, w).total
    <2>1. AgentStep
        <3>1. now \in Nat
            BY CoverTypes
        <3> QED  BY <3>1, OtherStepWindow
    <2>2. policy' = policy /\ before \in Nat /\ after \in Nat /\ before <= after /\ cap \in Int
        BY <2>1, AgentCallTallies, CoverTypes
    <2>3. /\ BudgetLeft = global_window_remaining(policy, prune(LoadedLedger, now, w))
          /\ BudgetLeft' = global_window_remaining(policy, prune(LoadedLedger', now, w))
        BY <2>2 DEF BudgetLeft, ReadLedger, PrunesForRead
    <2>4. /\ global_window_remaining(policy, prune(LoadedLedger, now, w))
                 = IF cap - before >= 0 THEN cap - before ELSE 0
          /\ global_window_remaining(policy, prune(LoadedLedger', now, w))
                 = IF cap - after >= 0 THEN cap - after ELSE 0
        BY <2>2, BudgetIs
    <2> HIDE DEF before, after, cap, w
    <2> QED  BY <2>2, <2>3, <2>4
<1> QED  BY <1>1, <1>2, TalliedStep, Invariance, WindowStaysSound, PTL DEF Spec, NoFreeBudget

-----------------------------------------------------------------------------
(* Splitting a request *)

(* The totals of the recipients' ledgers are right too, with or without a  *)
(* cap of their own in the policy in force.                                *)
RecipientsTallied == \A r \in Address : Tallied(RecipientLedger(LoadedLedger, r), now, I128_MAX)

(* What the agent key does keeps them so. *)
LEMMA AgentCallTalliesTo ==
    ASSUME IInv, WindowSound, RecipientsTallied, AgentStep
    PROVE  RecipientsTallied'
<1>1. PICK X : \E ctxs \in Seq(X) :
                 /\ 1 \in DOMAIN ctxs /\ AllAllowed(Decision(ctxs).verdicts) /\ policy # None
                 /\ window' = SavedWindow(Decision(ctxs).ledger)
                 /\ now' = now /\ policy' = policy
    BY AgentCallRequest
<1>2. PICK ctxs \in Seq(X) :
                 /\ 1 \in DOMAIN ctxs /\ AllAllowed(Decision(ctxs).verdicts) /\ policy # None
                 /\ window' = SavedWindow(Decision(ctxs).ledger)
                 /\ now' = now /\ policy' = policy
    BY <1>1
<1> DEFINE D == decide(policy, adminFrozen, lastHeartbeat, LoadedLedger, now, ctxs)
           L == D.ledger
<1>3. /\ now \in Nat \ {0} /\ now \in 1..MaxTime /\ policy \in PolicyConfig
      /\ LoadedLedger \in LedgersUpTo(now)
    BY <1>2, CoverTypes
<1>4. Decision(ctxs) = D
    BY DEF Decision
<1>5. AllAllowed(D.verdicts) /\ window' = SavedWindow(L)
    BY <1>2, <1>4, Zenon
<1>6. L \in LedgersUpTo(now)
    BY <1>3, DecideType
<1>7. \A r \in Address : Tallied(RecipientLedger(L, r), now, I128_MAX)
    BY <1>2, <1>3, <1>5, DecideTalliesTo DEF RecipientsTallied
<1> HIDE DEF D, L
<1>8. ASSUME NEW r \in Address PROVE RecipientLedger(LoadedLedger', r) = RecipientLedger(L, r)
    <2>1. 0 \in Nat /\ Covered(RecipientLedger(L, r), Silence, now, 0, I128_MAX)
        BY <1>7, TalliedCovers
    <2> QED  BY <1>2, <1>3, <1>5, <1>6, <2>1, SavedIsLoadedTo
<1> QED  BY <1>2, <1>7, <1>8, Zenon DEF RecipientsTallied

(* So does every other step. *)
LEMMA RecipientsTalliedStep ==
    IInv /\ WindowSound /\ RecipientsTallied /\ [Next]_vars => RecipientsTallied'
<1> SUFFICES ASSUME IInv, WindowSound, RecipientsTallied, [Next]_vars PROVE RecipientsTallied'
    OBVIOUS
<1>0. now \in Nat \ {0} /\ now \in 1..MaxTime /\ now \in Nat
    BY CoverTypes
<1>1. CASE AgentStep
    BY <1>1, AgentCallTalliesTo
<1>2. CASE UNCHANGED <<now, window>>
    BY <1>2 DEF RecipientsTallied, LoadedLedger, LoadedFrom
<1>3. ASSUME now' = now, \A r \in Address : RecipientLedger(LoadedLedger', r) = EmptyLedger
      PROVE  RecipientsTallied'
    <2>1. Tallied(EmptyLedger, now', I128_MAX)
        BY <1>0, <1>3, EmptyTallied
    <2> QED  BY <1>3, <2>1, Zenon DEF RecipientsTallied
<1>4. CASE now' = now /\ window' = None
    <2>1. \A r \in Address : RecipientLedger(LoadedLedger', r) = EmptyLedger
        BY <1>4 DEF LoadedLedger, LoadedFrom, Ledger_empty, RecipientLedger
    <2> QED  BY <1>3, <1>4, <2>1
<1>5. CASE now' = now /\ window' = to_state(Ledger_empty)
    <2>1. to_state(Ledger_empty) \in StoredUpTo(now)
        BY <1>0, EmptyUpTo, ToStateUpTo
    <2>2. window' # None
        BY <1>0, <1>5, <2>1, StoredIsSome
    <2>3. DOMAIN window'.recipients = {}
        BY <1>5 DEF to_state, Ledger_empty
    <2>4. DOMAIN LoadedLedger'.recipients = {}
        BY <2>2, <2>3 DEF LoadedLedger, LoadedFrom, from_state
    <2>5. \A r \in Address : RecipientLedger(LoadedLedger', r) = EmptyLedger
        BY <2>4 DEF RecipientLedger
    <2> QED  BY <1>3, <1>5, <2>5
<1>6. CASE now' = now + 1 /\ window' = window
    <2>1. LoadedLedger' = LoadedLedger
        BY <1>6 DEF LoadedLedger, LoadedFrom
    <2>2. ASSUME NEW r \in Address
          PROVE  Tallied(RecipientLedger(LoadedLedger, r), now + 1, I128_MAX)
        BY <1>0, TalliedLater DEF RecipientsTallied
    <2> QED  BY <1>6, <2>1, <2>2, Zenon DEF RecipientsTallied
<1> QED  BY <1>1, <1>2, <1>4, <1>5, <1>6, OtherStepWindow

(* Below the maximum of its type the counter of protocol calls is the sum  *)
(* of its entries, whatever was recorded under earlier policies.           *)
LEMMA LoadedIsExact ==
    ASSUME IInv, WindowSound, GlobalTallied, RecipientsTallied, LoadedLedger.calls.total < U32_MAX
    PROVE  Exact(LoadedLedger, now)
<1>1. now \in Nat \ {0} /\ now \in 1..MaxTime /\ LoadedLedger \in LedgersUpTo(now)
    BY CoverTypes
<1>2. Tallied(LoadedLedger.calls, now, U32_MAX)
    <2>1. CASE window = None
        <3>1. LoadedLedger.calls = EmptyLedger
            BY <2>1 DEF LoadedLedger, LoadedFrom, Ledger_empty
        <3>2. \A u \in 0..now : Silence[u] \in Nat /\ Silence[u] = Silence[now]
            BY <1>1 DEF Silence
        <3>3. Covered(EmptyLedger, Silence, now, 0, U32_MAX)
            BY <1>1, <3>2, EmptyCovers, WindowBounds
        <3> QED  BY <3>1, <3>3, Zenon DEF Tallied
    <2>2. CASE window # None
        <3> DEFINE es == window.protocol_call_entries
                   l == ledger_from_entries(es, U32_MAX)
        <3>1. es \in EntriesUpTo(now)
            BY <2>2 DEF WindowSound, StoredUpTo
        <3>2. LoadedLedger.calls = l
            BY <2>2 DEF LoadedLedger, LoadedFrom, from_state
        <3> HIDE DEF es
        <3>3. l.total < U32_MAX /\ U32_MAX \in Nat
            BY <3>2, WindowBounds
        <3>4. Tallied(l, now, U32_MAX)
            BY <1>1, <3>1, <3>3, LoadTallies
        <3> QED  BY <3>2, <3>4, Zenon
    <2> QED  BY <2>1, <2>2
<1> QED  BY <1>1, <1>2, Zenon DEF Exact, GlobalTallied, RecipientsTallied

(* A ledger has entries iff its window or that of a recipient has. *)
LEMMA EntriesOf ==
    ASSUME NEW t \in Nat, NEW L \in LedgersUpTo(t)
    PROVE  HasEntries(L) <=> \/ L.global.entries # <<>>
                             \/ \E r \in Address : RecipientLedger(L, r).entries # <<>>
<1>1. DOMAIN L.recipients \subseteq Address
    <2>1. L.recipients \in PerRecipient(LedgerUpTo(t))
        BY DEF LedgersUpTo
    <2> QED  BY <2>1, PerRecipientIs
<1>2. EmptyLedger.entries = <<>>
    BY DEF EmptyLedger
<1> QED  BY <1>1, <1>2, Zenon DEF HasEntries, RecipientLedger

(* What has no entries and no calls, and was nothing before, is nothing. *)
LEMMA NothingRecorded ==
    ASSUME NEW t, NEW C, NEW L, Exact(L, t), Grown(C, L), DOMAIN C.recipients = {},
           ~ HasEntries(L), L.calls.entries = <<>>
    PROVE  L = Ledger_empty
<1>1. t \in Nat \ {0} /\ L \in LedgersUpTo(t) /\ Ledger_empty \in LedgersUpTo(t)
    BY EmptyUpTo DEF Exact
<1>2. L.global.entries = <<>> /\ \A r \in Address : RecipientLedger(L, r).entries = <<>>
    BY <1>1, EntriesOf
<1>3. DOMAIN L.recipients = {}
    <2>1. DOMAIN L.recipients \subseteq Address
        <3>1. L.recipients \in PerRecipient(LedgerUpTo(t))
            BY <1>1 DEF LedgersUpTo
        <3> QED  BY <3>1, PerRecipientIs
    <2>2. \A r \in Address : r \in DOMAIN L.recipients => r \in DOMAIN C.recipients
        BY <1>2 DEF Grown
    <2> QED  BY <2>1, <2>2
<1>4. L.global = EmptyLedger
    <2>1. ledger_from_entries(L.global.entries, I128_MAX) = L.global
        BY TalliedLedger DEF Exact
    <2> QED  BY <1>2, <2>1, EmptyLoads, Zenon
<1>5. L.calls = EmptyLedger
    <2>1. ledger_from_entries(L.calls.entries, U32_MAX) = L.calls
        BY TalliedLedger DEF Exact
    <2>2. ledger_from_entries(<<>>, U32_MAX) = EmptyLedger
        <3>1. \A u \in 0..t : Silence[u] \in Nat /\ Silence[u] = Silence[t]
            BY <1>1 DEF Silence
        <3>2. Covered(EmptyLedger, Silence, t, 0, U32_MAX)
            BY <1>1, <3>1, EmptyCovers, WindowBounds
        <3>3. ledger_from_entries(EmptyLedger.entries, U32_MAX) = EmptyLedger
            BY <3>2, CoveredTotal
        <3> QED  BY <3>3 DEF EmptyLedger
    <2> QED  BY <2>1, <2>2, Zenon
<1>6. /\ Ledger_empty.global = EmptyLedger /\ Ledger_empty.calls = EmptyLedger
      /\ DOMAIN Ledger_empty.recipients = {}
    BY DEF Ledger_empty
<1>7. \A r \in Address : RecipientLedger(L, r) = EmptyLedger /\ RecipientLedger(Ledger_empty, r) = EmptyLedger
    BY <1>3, <1>6 DEF RecipientLedger
<1> QED  BY <1>1, <1>3, <1>4, <1>5, <1>6, <1>7, SameLedgers

(* What the first request writes back is loaded again as it was, even      *)
(* where nothing is written because nothing is on record.                  *)
LEMMA LoadedBetween ==
    ASSUME NEW F, NEW C, now \in 1..MaxTime, Exact(F, now), Grown(C, F),
           window = None => DOMAIN C.recipients = {},
           ~ (SavedWindow(F) = None /\ F.calls.entries # <<>>)
    PROVE  LoadedFrom(SavedWindow(F)) = from_state(to_state(F))
<1>0. now \in Nat \ {0} /\ F \in LedgersUpTo(now)
    BY DEF Exact
<1>1. CASE window # None \/ HasEntries(F)
    <2>1. to_state(F) # None
        BY <1>0, ToStateUpTo, StoredIsSome
    <2>2. SavedWindow(F) = to_state(F)
        BY <1>1 DEF SavedWindow, SavedOver
    <2> QED  BY <2>1, <2>2 DEF LoadedFrom
<1>2. CASE window = None /\ ~ HasEntries(F)
    <2>1. SavedWindow(F) = None
        BY <1>2 DEF SavedWindow, SavedOver
    <2>2. F = Ledger_empty
        BY <1>2, <2>1, NothingRecorded
    <2>3. LoadedFrom(SavedWindow(F)) = F
        BY <2>1, <2>2 DEF LoadedFrom
    <2>4. from_state(to_state(F)) = F
        BY ExactReloads
    <2> QED  BY <2>3, <2>4
<1> QED  BY <1>1, <1>2

(* A ledger B grown from F is written over what F left as it would be over *)
(* the window before F.                                                    *)
LEMMA SavedBetween ==
    ASSUME NEW F, NEW B, now \in 1..MaxTime, Exact(F, now), Grown(F, B), B \in LedgersUpTo(now)
    PROVE  SavedWindow(B) = SavedOver(SavedWindow(F), B)
<1>0. now \in Nat /\ F \in LedgersUpTo(now)
    BY DEF Exact
<1>1. CASE window # None \/ HasEntries(F)
    <2>1. to_state(F) # None
        BY <1>0, ToStateUpTo, StoredIsSome
    <2>2. SavedWindow(F) = to_state(F)
        BY <1>1 DEF SavedWindow, SavedOver
    <2>3. HasEntries(F) => HasEntries(B)
        BY <1>0, EntriesOf DEF Grown
    <2>4. SavedWindow(B) = to_state(B)
        BY <1>1, <2>3 DEF SavedWindow, SavedOver
    <2> QED  BY <2>1, <2>2, <2>4 DEF SavedOver
<1>2. CASE window = None /\ ~ HasEntries(F)
    BY <1>2 DEF SavedWindow, SavedOver
<1> QED  BY <1>1, <1>2

(* A request of two contexts is worth its contexts one by one: for every   *)
(* policy and every history of payments, edits, pauses and resets, it is   *)
(* allowed iff the two are allowed one after the other in the same second, *)
(* with the write-back and load of __check_auth in between, and leaves the *)
(* same stored window, unless the first is a protocol call counted while   *)
(* no window is stored (engine::decide, staged admission).                 *)
THEOREM BatchIsItsContexts == Spec => []SplitBatchSame
<1>1. Init => GlobalTallied /\ RecipientsTallied
    <2> SUFFICES ASSUME Init PROVE GlobalTallied /\ RecipientsTallied
        OBVIOUS
    <2>1. /\ LoadedLedger.global = EmptyLedger /\ now = 1 /\ 1 \in 1..MaxTime
          /\ \A r \in Address : RecipientLedger(LoadedLedger, r) = EmptyLedger
        BY AccountConstants DEF Init, LoadedLedger, LoadedFrom, Ledger_empty, RecipientLedger
    <2>2. Tallied(EmptyLedger, now, I128_MAX)
        BY <2>1, EmptyTallied
    <2> QED  BY <2>1, <2>2, Zenon DEF GlobalTallied, RecipientsTallied
<1>2. IInv /\ WindowSound /\ GlobalTallied /\ RecipientsTallied => SplitBatchSame
    <2> SUFFICES ASSUME IInv, WindowSound, GlobalTallied, RecipientsTallied,
                        policy # None, LoadedLedger.calls.total < U32_MAX,
                        NEW b \in Batch, Len(b) = 2, Len(b) <= MAX_AUTH_CONTEXTS
                 PROVE  LET first   == Decision(<<b[1]>>)
                            between == SavedWindow(first.ledger)
                            second  == decide(policy, adminFrozen, lastHeartbeat,
                                              LoadedFrom(between), now, <<b[2]>>)
                            both    == Decision(b)
                        IN  ~ (between = None /\ first.ledger.calls.entries # <<>>) =>
                            /\ AllAllowed(both.verdicts) <=>
                                   AllAllowed(first.verdicts) /\ AllAllowed(second.verdicts)
                            /\ AllAllowed(both.verdicts) =>
                                   SavedWindow(both.ledger) = SavedOver(between, second.ledger)
        BY DEF SplitBatchSame, SameInSequence
    <2> DEFINE one == <<b[1]>>
               two == <<b[2]>>
               gate == AccountGate(policy, adminFrozen, lastHeartbeat, now)
               first   == Decision(one)
               between == SavedWindow(first.ledger)
               second  == decide(policy, adminFrozen, lastHeartbeat, LoadedFrom(between), now, two)
               stored  == decide(policy, adminFrozen, lastHeartbeat,
                                 from_state(to_state(first.ledger)), now, two)
               both    == Decision(b)
               live    == DecidedOn(policy, LoadedLedger, now)
    <2>1. /\ policy \in PolicyConfig /\ Exact(LoadedLedger, now) /\ now \in 1..MaxTime
          /\ now \in Nat \ {0} /\ now \in Nat /\ LoadedLedger \in LedgersUpTo(now)
        BY CoverTypes, LoadedIsExact
    <2>2. PICK X : b \in Seq(X)
        BY AccountConstants
    <2>3. CASE gate = Allowed
        <3>1. SplitInTwo(policy, adminFrozen, lastHeartbeat, LoadedLedger, now, b,
                         both, first, stored)
            BY <2>3 DEF Decision, SplitInTwo
        <3>2. both.ledger \in LedgersUpTo(now)
            BY <2>1, <2>2, DecideType DEF Decision
        <3>3. window = None => DOMAIN live.recipients = {}
            BY DEF LoadedLedger, LoadedFrom, Ledger_empty, DecidedOn, prune
        <3> HIDE DEF first, stored, both, live
        <3>4. SameInTheEnd(both, first, stored) /\ GrowsTwice(live, now, both, first)
            BY <2>1, <2>2, <3>1, SplitDecision DEF live
        <3>5. ASSUME AllAllowed(first.verdicts),
                     ~ (between = None /\ first.ledger.calls.entries # <<>>)
              PROVE  second = stored
            <4>1. Exact(first.ledger, now) /\ Grown(live, first.ledger)
                BY <3>4, <3>5 DEF GrowsTwice
            <4>2. LoadedFrom(between) = from_state(to_state(first.ledger))
                BY <2>1, <3>3, <3>5, <4>1, LoadedBetween
            <4> HIDE DEF between, two
            <4> QED  BY <4>2, Zenon DEF stored
        <3>6. ASSUME AllAllowed(both.verdicts)
              PROVE  SavedWindow(both.ledger) = SavedOver(between, both.ledger)
            <4>1. Exact(first.ledger, now) /\ Grown(first.ledger, both.ledger)
                BY <3>4, <3>6 DEF GrowsTwice, SameInTheEnd
            <4> QED  BY <2>1, <3>2, <4>1, SavedBetween
        <3> HIDE DEF between, second
        <3>7. ~ (between = None /\ first.ledger.calls.entries # <<>>) =>
                  /\ AllAllowed(both.verdicts) <=>
                         AllAllowed(first.verdicts) /\ AllAllowed(second.verdicts)
                  /\ AllAllowed(both.verdicts) =>
                         SavedWindow(both.ledger) = SavedOver(between, second.ledger)
            BY <3>4, <3>5, <3>6, Zenon DEF SameInTheEnd
        <3> QED  BY <3>7 DEF between, second, first, both
    <2>4. CASE gate # Allowed
        <3>1. 1 \in DOMAIN b /\ 1 \in DOMAIN one
            BY BatchNonEmpty
        <3> HIDE DEF one, second, between
        <3>2. ~ AllAllowed(both.verdicts) /\ ~ AllAllowed(first.verdicts)
            BY <2>4, <3>1, ClosedGateBlocks DEF Decision
        <3> HIDE DEF first, both
        <3> QED  BY <3>2 DEF first, both, second, between, one
    <2> QED  BY <2>3, <2>4
<1> QED  BY <1>1, <1>2, TalliedStep, RecipientsTalliedStep, Invariance, WindowStaysSound, PTL DEF Spec

-----------------------------------------------------------------------------
(* The rate limit *)

(* Calls add up second by second as spends do: the calls of the account    *)
(* are counted as spends of one unit each to one address.                  *)
CalledType == [1..MaxTime -> Nat]
AsSpent(cd) == [a \in Address |-> cd]
CallsUpTo(cd) == UpTo(OnlyTo(AsSpent(cd), Self))

LEMMA CallsUpToType ==
    ASSUME NEW cd \in CalledType
    PROVE  /\ AsSpent(cd) \in SpentType /\ AsSpent(cd)[Self] = cd /\ Self \in Address
           /\ \A u \in 0..MaxTime : CallsUpTo(cd)[u] \in Nat
<1>1. AsSpent(cd) \in SpentType /\ AsSpent(cd)[Self] = cd /\ Self \in Address
    BY PolicyConstants DEF AsSpent, SpentType, CalledType
<1>2. OnlyTo(AsSpent(cd), Self) \in SpentType
    BY <1>1, OnlyToType
<1> QED  BY <1>1, <1>2, UpToType DEF CallsUpTo

(* The calls of a request add to the second they were made in. *)
LEMMA CallsAdd ==
    ASSUME NEW cd \in CalledType, NEW cd2 \in CalledType, NEW t \in 1..MaxTime, NEW n \in Nat,
           cd2[t] <= cd[t] + n, \A x \in 1..MaxTime : x # t => cd2[x] = cd[x]
    PROVE  Adds(CallsUpTo(cd), CallsUpTo(cd2), t, n)
<1> DEFINE f == AsSpent(cd)
           g == AsSpent(cd2)
<1>1. f \in SpentType /\ f[Self] = cd /\ Self \in Address
    BY CallsUpToType
<1>2. g \in SpentType /\ g[Self] = cd2
    BY CallsUpToType
<1> HIDE DEF f, g
<1>3. Adds(UpTo(OnlyTo(f, Self)), UpTo(OnlyTo(g, Self)), t, n)
    BY <1>1, <1>2, PaymentAddsTo
<1> QED  BY <1>3 DEF CallsUpTo, f, g

(* A second without calls adds none. *)
LEMMA QuietCalls ==
    ASSUME NEW cd \in CalledType, NEW t \in Nat, t + 1 \in 1..MaxTime, cd[t + 1] = 0
    PROVE  CallsUpTo(cd)[t + 1] = CallsUpTo(cd)[t]
<1> DEFINE f == OnlyTo(AsSpent(cd), Self)
<1>1. AsSpent(cd) \in SpentType /\ AsSpent(cd)[Self] = cd /\ Self \in Address
    BY CallsUpToType
<1>2. /\ f \in SpentType /\ f[Self] = cd
      /\ \A a \in Address, x \in 1..MaxTime : a # Self => f[a][x] = 0
    BY <1>1, OnlyToType
<1> HIDE DEF f
<1>3. \A a \in Address : f[a][t + 1] = 0
    BY <1>2
<1>4. UpTo(f)[t + 1] = UpTo(f)[t]
    BY <1>2, <1>3, QuietSecond
<1> QED  BY <1>4 DEF CallsUpTo, f

(* An empty counter covers the silence. *)
LEMMA NoCalls ==
    ASSUME NEW t \in 1..MaxTime, NEW w \in Nat
    PROVE  /\ NothingCalled \in CalledType
           /\ Covered(EmptyLedger, CallsUpTo(NothingCalled), t, w, U32_MAX)
<1>1. t \in Nat \ {0} /\ 0..t \subseteq 0..MaxTime /\ t \in 0..t /\ U32_MAX \in Nat
    BY AccountConstants, WindowBounds
<1>2. NothingCalled \in CalledType /\ AsSpent(NothingCalled) = NothingSpent
    BY DEF NothingCalled, CalledType, AsSpent, NothingSpent
<1>3. CallsUpTo(NothingCalled) = UpTo(NothingSpent)
    <2>1. OnlyTo(NothingSpent, Self) = NothingSpent
        BY NothingUpTo, OnlyToType, PolicyConstants
    <2> QED  BY <1>2, <2>1, Zenon DEF CallsUpTo
<1>4. \A u \in 0..t : UpTo(NothingSpent)[u] \in Nat /\ UpTo(NothingSpent)[u] = UpTo(NothingSpent)[t]
    BY <1>1, NothingUpTo
<1>5. Covered(EmptyLedger, UpTo(NothingSpent), t, w, U32_MAX)
    BY <1>1, <1>4, EmptyCovers
<1> QED  BY <1>2, <1>3, <1>5, Zenon

(* The calls in the window that ends at t are within the total of a        *)
(* counter that covers them.                                               *)
LEMMA RollingCallsCovered ==
    ASSUME NEW cd \in CalledType, NEW t \in 1..MaxTime, NEW w \in Nat, NEW l,
           Covered(l, CallsUpTo(cd), t, w, U32_MAX)
    PROVE  /\ SumFunctionOnSet(cd, WindowSeconds(t, w)) <= l.total
           /\ SumFunctionOnSet(cd, WindowSeconds(t, w)) \in Int /\ l.total \in Nat
<1> DEFINE f == AsSpent(cd)
<1>1. f \in SpentType /\ f[Self] = cd /\ Self \in Address
    BY CallsUpToType
<1>2. Covered(l, UpTo(OnlyTo(f, Self)), t, w, U32_MAX)
    BY DEF CallsUpTo
<1> HIDE DEF f
<1>3. /\ SumFunctionOnSet(f[Self], WindowSeconds(t, w)) <= l.total
      /\ SumFunctionOnSet(f[Self], WindowSeconds(t, w)) \in Int /\ l.total \in Nat
    BY <1>1, <1>2, RollingCoveredTo
<1> QED  BY <1>1, <1>3, Zenon

-----------------------------------------------------------------------------
(* The inductive invariant of the rate limit.  The calls are on record up  *)
(* to now; and as long as no edit has changed what the windows track, and  *)
(* every call was made where the window keeps count, the stored counter    *)
(* covers them.                                                            *)
CallsSound ==
    /\ called \in CalledType
    /\ \A t \in 1..MaxTime : called[t] <= U32_MAX + 1 /\ (t > now => called[t] = 0)
    /\ policy = None => called = NothingCalled

CallCovering ==
    (steady /\ metered /\ policy # None /\ policy.protocol_calls_per_window > 0) =>
        Covered(LoadedLedger.calls, CallsUpTo(called), now, policy.window_secs, U32_MAX)

(* The counter of a window that is saved is the one loaded next. *)
LEMMA SavedCallsLoaded ==
    ASSUME now' = now, now \in 1..MaxTime, NEW L \in LedgersUpTo(now), window' = SavedWindow(L),
           NEW c, NEW w, Covered(L.calls, c, now, w, U32_MAX), window' # None
    PROVE  LoadedLedger'.calls = L.calls
<1>1. ledger_from_entries(L.calls.entries, U32_MAX) = L.calls
    BY CoveredTotal
<1>2. window' = to_state(L)
    BY DEF SavedWindow, SavedOver
<1>3. window'.protocol_call_entries = L.calls.entries
    BY <1>2 DEF to_state
<1>4. LoadedLedger'.calls = ledger_from_entries(window'.protocol_call_entries, U32_MAX)
    BY DEF LoadedLedger, LoadedFrom, from_state
<1> QED  BY <1>1, <1>3, <1>4, Zenon

(* What an allowed request counts: the counter it leaves covers its calls, *)
(* and within the limit if it makes any.                                   *)
LEMMA RequestCountsCalls ==
    ASSUME IInv, WindowSound, CallCovering, steady, metered, policy # None,
           policy.protocol_calls_per_window > 0,
           NEW X, NEW ctxs \in Seq(X), 1 \in DOMAIN ctxs, AllAllowed(Decision(ctxs).verdicts),
           ProtocolCalls(policy, ctxs, Len(ctxs)) # {}
               => policy.protocol_calls_per_window < U32_MAX
    PROVE  LET n == CallCount(policy, ctxs, Len(ctxs))
               calls == Decision(ctxs).ledger.calls
           IN  /\ n \in Nat /\ Decision(ctxs).ledger \in LedgersUpTo(now)
               /\ Covered(calls, Plus(CallsUpTo(called), now, n), now, policy.window_secs, U32_MAX)
               /\ n > 0 => calls.total <= policy.protocol_calls_per_window
               /\ n = 0 => JustPruned(calls, LoadedLedger.calls, now, policy.window_secs)
<1> DEFINE n == CallCount(policy, ctxs, Len(ctxs))
           c == CallsUpTo(called)
           D == decide(policy, adminFrozen, lastHeartbeat, LoadedLedger, now, ctxs)
           w == policy.window_secs
<1>1. /\ now \in Nat \ {0} /\ now \in 1..MaxTime /\ policy \in PolicyConfig
      /\ LoadedLedger \in LedgersUpTo(now)
    BY CoverTypes
<1>2. Covered(LoadedLedger.calls, c, now, w, U32_MAX)
    BY DEF CallCovering
<1> HIDE DEF c
<1>3. Decision(ctxs) = D
    BY DEF Decision
<1>4. AllAllowed(D.verdicts)
    BY <1>3, Zenon
<1>5. /\ n \in Nat /\ Covered(D.ledger.calls, Plus(c, now, n), now, w, U32_MAX)
      /\ n > 0 => D.ledger.calls.total <= policy.protocol_calls_per_window
      /\ n = 0 => JustPruned(D.ledger.calls, LoadedLedger.calls, now, w)
    BY <1>1, <1>2, <1>4, DecideCoversCalls
<1>6. D.ledger \in LedgersUpTo(now)
    BY <1>1, DecideType
<1> HIDE DEF D, n, w
<1> QED  BY <1>3, <1>5, <1>6, Zenon DEF n, c, w

(* When the window is stored, or the request makes no call, the counter    *)
(* that is loaded next covers its calls.                                   *)
LEMMA RequestCoversCalls ==
    ASSUME IInv, WindowSound, CallCovering, steady, metered, policy # None,
           policy.protocol_calls_per_window > 0,
           NEW X, NEW ctxs \in Seq(X), 1 \in DOMAIN ctxs, AllAllowed(Decision(ctxs).verdicts),
           window' = SavedWindow(Decision(ctxs).ledger), now' = now,
           \/ ProtocolCalls(policy, ctxs, Len(ctxs)) = {}
           \/ window' # None /\ policy.protocol_calls_per_window < U32_MAX
    PROVE  LET n == CallCount(policy, ctxs, Len(ctxs))
           IN  /\ n \in Nat
               /\ Covered(LoadedLedger'.calls, Plus(CallsUpTo(called), now, n), now,
                          policy.window_secs, U32_MAX)
<1> DEFINE n == CallCount(policy, ctxs, Len(ctxs))
           c2 == Plus(CallsUpTo(called), now, n)
           L == Decision(ctxs).ledger
           w == policy.window_secs
<1>1. /\ n \in Nat /\ L \in LedgersUpTo(now) /\ Covered(L.calls, c2, now, w, U32_MAX)
      /\ n = 0 => JustPruned(L.calls, LoadedLedger.calls, now, w)
    BY RequestCountsCalls
<1>2. now \in 1..MaxTime /\ now \in Nat /\ w \in Nat
    BY CoverTypes
<1>3. n = 0 <=> ProtocolCalls(policy, ctxs, Len(ctxs)) = {}
    <2>1. Len(ctxs) \in Nat
        BY LenProperties
    <2> QED  BY <2>1, CallCountStep
<1> HIDE DEF n, c2, L, w
<1>4. CASE window' # None
    <2>1. LoadedLedger'.calls = L.calls
        BY <1>1, <1>2, <1>4, SavedCallsLoaded DEF L
    <2> QED  BY <1>1, <2>1, Zenon DEF n, c2, w
<1>5. CASE window' = None
    <2>1. to_state(L) # None
        BY <1>1, <1>2, ToStateUpTo, StoredIsSome
    <2>2. window = None
        BY <1>5, <2>1 DEF SavedWindow, SavedOver, L
    <2>3. LoadedLedger.calls = EmptyLedger /\ LoadedLedger'.calls = EmptyLedger
        BY <1>5, <2>2 DEF LoadedLedger, LoadedFrom, Ledger_empty
    <2>4. prune_protocol_call_entries(EmptyLedger, now, w) = EmptyLedger
        <3>1. EmptyLedger \in LedgerUpTo(now)
            BY <1>2, EmptyUpTo DEF LedgersUpTo, Ledger_empty
        <3>2. AllLive(EmptyLedger.entries, now, w)
            BY DEF AllLive, EmptyLedger
        <3> QED  BY <1>2, <3>1, <3>2, LiveStays
    <2>5. L.calls = LoadedLedger'.calls
        BY <1>1, <1>3, <1>5, <2>3, <2>4, Zenon DEF JustPruned
    <2> QED  BY <1>1, <2>5, Zenon DEF n, c2, w
<1> QED  BY <1>4, <1>5

(* The record of an authorization. *)
LEMMA AuthorizeCounts ==
    ASSUME IInv, WindowSound, CallsSound, NEW key, NEW b \in Batch, Authorize(key, b)
    PROVE  LET n == CallCount(policy, b, Len(b))
           IN  /\ CallsSound' /\ n \in Nat
               /\ Adds(CallsUpTo(called), CallsUpTo(called'), now, n)
               /\ Calls(b, "Protocol") = ProtocolCalls(policy, b, Len(b))
               /\ n = 0 <=> ProtocolCalls(policy, b, Len(b)) = {}
               /\ n = 0 => called' = called
<1> DEFINE n == CallCount(policy, b, Len(b))
           m == Count(called[now], n, U32_MAX)
<1>1. /\ now \in 1..MaxTime /\ MaxTime \in Nat /\ now \in Nat /\ policy # None
      /\ policy' = policy /\ now' = now
    BY CoverTypes DEF Authorize, check_auth, Authorized, policyVars
<1>2. PICK X : b \in Seq(X)
    BY AccountConstants
<1>3. Calls(b, "Protocol") = ProtocolCalls(policy, b, Len(b))
    <2>1. DOMAIN b = 1..Len(b)
        BY <1>2, LenProperties
    <2> QED  BY <2>1 DEF Calls, ProtocolCalls
<1>4. n \in Nat /\ (n = 0 <=> ProtocolCalls(policy, b, Len(b)) = {})
    <2>1. Len(b) \in Nat
        BY <1>2, LenProperties
    <2> QED  BY <2>1, CallCountStep
<1>5. called' = [called EXCEPT ![now] = m]
    <2>1. n = Cardinality(Calls(b, "Protocol"))
        BY <1>3 DEF CallCount
    <2>2. called' = [called EXCEPT ![now] = Count(called[now], Cardinality(Calls(b, "Protocol")),
                                                  U32_MAX)]
        BY DEF Authorize
    <2> QED  BY <2>1, <2>2, Zenon
<1>6. /\ called \in [1..MaxTime -> Nat] /\ U32_MAX \in Nat
      /\ \A t \in 1..MaxTime : called[t] <= U32_MAX + 1 /\ (t > now => called[t] = 0)
    BY WindowBounds DEF CallsSound, CalledType
<1> HIDE DEF n
<1>7. m \in Nat /\ m <= called[now] + n /\ m <= U32_MAX + 1 /\ (n = 0 => m = called[now])
    <2>1. called[now] \in Nat /\ called[now] <= U32_MAX + 1
        BY <1>1, <1>6
    <2> DEFINE k == called[now]
    <2> HIDE DEF k
    <2>2. /\ Count(k, n, U32_MAX) \in Nat /\ Count(k, n, U32_MAX) <= k + n
          /\ Count(k, n, U32_MAX) <= U32_MAX + 1 /\ Count(k, 0, U32_MAX) = k
        BY <1>4, <1>6, <2>1, CountType DEF k
    <2> QED  BY <2>2 DEF k
<1> HIDE DEF m
<1>8. /\ called' \in CalledType /\ called'[now] = m
      /\ \A t \in 1..MaxTime : t # now => called'[t] = called[t]
      /\ n = 0 => called' = called
    BY <1>1, <1>5, <1>6, <1>7 DEF CalledType
<1>9. CallsSound'
    <2>1. \A t \in 1..MaxTime : called'[t] <= U32_MAX + 1 /\ (t > now => called'[t] = 0)
        BY <1>1, <1>6, <1>7, <1>8
    <2> QED  BY <1>1, <1>8, <2>1 DEF CallsSound
<1>10. Adds(CallsUpTo(called), CallsUpTo(called'), now, n)
    <2>1. called \in CalledType
        BY DEF CallsSound
    <2>2. called'[now] <= called[now] + n
        BY <1>7, <1>8
    <2> QED  BY <1>1, <1>4, <1>8, <2>1, <2>2, CallsAdd
<1> QED  BY <1>3, <1>4, <1>8, <1>9, <1>10, Zenon DEF n

(* Calls within a limit: some counter covers them and is within it. *)
CallsWithin(cd, t, w, limit) ==
    \E l : Covered(l, CallsUpTo(cd), t, w, U32_MAX) /\ l.total <= limit

(* So the stored counter still covers, and a request that makes calls was  *)
(* within the limit by the counter it was decided on, even where that one  *)
(* is not stored.                                                          *)
LEMMA AuthorizeCoversCalls ==
    ASSUME IInv, WindowSound, CallsSound, CallCovering, NEW key, NEW b \in Batch, Authorize(key, b)
    PROVE  /\ CallCovering'
           /\ (/\ steady /\ metered /\ called' # called
               /\ policy.protocol_calls_per_window > 0
               /\ policy.protocol_calls_per_window < U32_MAX) =>
                  CallsWithin(called', now, policy.window_secs, policy.protocol_calls_per_window)
<1>1. /\ now' = now /\ policy' = policy /\ steady' = steady /\ policy # None
      /\ AllAllowed(Decision(b).verdicts) /\ window' = SavedWindow(Decision(b).ledger)
    BY DEF Authorize, check_auth, Authorized, policyVars
<1> DEFINE n == CallCount(policy, b, Len(b))
           J == ProtocolCalls(policy, b, Len(b))
           c == CallsUpTo(called)
           c2 == CallsUpTo(called')
           w == policy.window_secs
           limit == policy.protocol_calls_per_window
<1>2. PICK X : b \in Seq(X)
    BY AccountConstants
<1>3. 1 \in DOMAIN b
    BY BatchNonEmpty
<1>4. /\ n \in Nat /\ Adds(c, c2, now, n) /\ Calls(b, "Protocol") = J
      /\ (n = 0 <=> J = {}) /\ (n = 0 => called' = called)
    BY AuthorizeCounts
<1>5. now \in Nat \ {0} /\ c[now] \in Nat
    BY CoverTypes, CallsUpToType DEF CallsSound
<1> HIDE DEF c, c2, n
<1>6. Adds(Plus(c, now, n), c2, now, 0)
    BY <1>4, <1>5 DEF Adds, Plus
<1>7. CallCovering'
    <2> SUFFICES ASSUME steady, metered', limit > 0
                 PROVE  Covered(LoadedLedger'.calls, c2, now, w, U32_MAX)
        BY <1>1 DEF CallCovering, c2
    <2>1. metered /\ (J = {} \/ (window' # None /\ limit < U32_MAX))
        BY <1>4 DEF Authorize, KeepsCount
    <2>2. Covered(LoadedLedger'.calls, Plus(c, now, n), now, w, U32_MAX)
        BY <1>1, <1>2, <1>3, <2>1, RequestCoversCalls DEF n, c
    <2> DEFINE l == LoadedLedger'.calls
    <2> HIDE DEF l
    <2>3. Covered(l, c2, now, w, U32_MAX)
        BY <1>6, <2>2, CoversLess DEF l
    <2> QED  BY <2>3 DEF l
<1>8. ASSUME steady, metered, called' # called, limit > 0, limit < U32_MAX
      PROVE  CallsWithin(called', now, w, limit)
    <2> DEFINE l == Decision(b).ledger.calls
    <2>1. Covered(l, Plus(c, now, n), now, w, U32_MAX) /\ (n > 0 => l.total <= limit)
        BY <1>1, <1>2, <1>3, <1>8, RequestCountsCalls DEF n, c
    <2> HIDE DEF l
    <2>2. Covered(l, c2, now, w, U32_MAX)
        BY <1>6, <2>1, CoversLess
    <2>3. n > 0
        BY <1>4, <1>8
    <2> QED  BY <2>1, <2>2, <2>3 DEF CallsWithin, c2
<1> QED  BY <1>7, <1>8

(* A heartbeat is no protocol call and leaves a counter that covers. *)
LEMMA HeartbeatCoversCalls ==
    ASSUME IInv, WindowSound, CallsSound, CallCovering, NEW key, heartbeat(key), UNCHANGED history
    PROVE  CallCovering'
<1> DEFINE call == SelfCall("heartbeat")
           b == <<call>>
<1>1. /\ now' = now /\ policy' = policy /\ steady' = steady /\ metered' = metered
      /\ policy # None /\ called' = called
      /\ AllAllowed(Decision(b).verdicts) /\ window' = SavedWindow(Decision(b).ledger)
    BY DEF heartbeat, Authorized, policyVars, history
<1>2. b \in Seq({call}) /\ 1 \in DOMAIN b /\ Len(b) = 1 /\ b[1] = call
    OBVIOUS
<1>3. parse_call(call, policy).kind = "SelfCall"
    BY PolicyConstants DEF parse_call, SelfCall
<1> SUFFICES ASSUME steady, metered, policy.protocol_calls_per_window > 0
             PROVE  Covered(LoadedLedger'.calls, CallsUpTo(called), now, policy.window_secs,
                            U32_MAX)
    BY <1>1 DEF CallCovering
<1> HIDE DEF b, call
<1>4. ProtocolCalls(policy, b, Len(b)) = {}
    BY <1>2, <1>3 DEF ProtocolCalls
<1> DEFINE n == CallCount(policy, b, Len(b))
           c == CallsUpTo(called)
           l == LoadedLedger'.calls
<1>5. n \in Nat /\ Covered(l, Plus(c, now, n), now, policy.window_secs, U32_MAX)
    BY <1>1, <1>2, <1>4, RequestCoversCalls
<1>6. now \in Nat \ {0} /\ \A u \in 0..now : c[u] \in Nat
    BY CoverTypes, CallsUpToType DEF CallsSound
<1> HIDE DEF n, c, l
<1>7. Adds(Plus(c, now, n), c, now, 0)
    BY <1>5, <1>6 DEF Adds, Plus
<1> QED  BY <1>5, <1>7, CoversLess DEF l, c

(* A window that was zeroed on purpose, or is fresh, covers the silence    *)
(* since then.                                                             *)
LEMMA ZeroCoversCalls ==
    ASSUME IInv', called' = NothingCalled, LoadedLedger'.calls = EmptyLedger
    PROVE  CallsSound' /\ CallCovering'
<1>1. now' \in 1..MaxTime /\ (policy' # None => policy'.window_secs \in Nat)
    BY DEF IInv, ControlTypeOK, PolicyConfig
<1>2. called' \in CalledType /\ U32_MAX \in Nat
    BY WindowBounds DEF NothingCalled, CalledType
<1>3. \A t \in 1..MaxTime : called'[t] = 0
    BY DEF NothingCalled
<1>4. CallsSound'
    BY <1>2, <1>3 DEF CallsSound
<1>5. CallCovering'
    <2> SUFFICES ASSUME policy' # None
                 PROVE  Covered(LoadedLedger'.calls, CallsUpTo(called'), now', policy'.window_secs,
                                U32_MAX)
        BY DEF CallCovering
    <2>1. Covered(EmptyLedger, CallsUpTo(NothingCalled), now', policy'.window_secs, U32_MAX)
        BY <1>1, NoCalls
    <2> QED  BY <2>1, Zenon
<1> QED  BY <1>4, <1>5

(* A step that leaves the window, the clock and the calls alone, and with  *)
(* them what the windows track, keeps the count.                           *)
LEMMA SameCoversCalls ==
    ASSUME CallsSound, CallCovering, UNCHANGED <<now, window, called, metered>>,
           policy' = None => policy = None, policy = None => policy' = None,
           (steady' /\ policy' # None /\ policy'.protocol_calls_per_window > 0) =>
               /\ steady /\ policy.protocol_calls_per_window > 0
               /\ policy'.window_secs = policy.window_secs
    PROVE  CallsSound' /\ CallCovering'
<1>1. CallsSound'
    BY DEF CallsSound
<1>2. LoadedLedger' = LoadedLedger
    BY DEF LoadedLedger, LoadedFrom
<1>3. CallCovering'
    <2> SUFFICES ASSUME steady', metered', policy' # None, policy'.protocol_calls_per_window > 0
                 PROVE  Covered(LoadedLedger'.calls, CallsUpTo(called'), now', policy'.window_secs,
                                U32_MAX)
        BY DEF CallCovering
    <2>1. Covered(LoadedLedger.calls, CallsUpTo(called), now, policy.window_secs, U32_MAX)
        BY DEF CallCovering
    <2>2. policy'.window_secs = policy.window_secs
        OBVIOUS
    <2> QED  BY <1>2, <2>1, <2>2, Zenon
<1> QED  BY <1>1, <1>3

(* Every step keeps the count. *)
LEMMA CallStep ==
    IInv /\ WindowSound /\ CallsSound /\ CallCovering /\ [HNext]_hvars
        => CallsSound' /\ CallCovering'
<1> SUFFICES ASSUME IInv, WindowSound, CallsSound, CallCovering, [HNext]_hvars
             PROVE  CallsSound' /\ CallCovering'
    OBVIOUS
<1>0. IInv'
    BY HistoryStep, NextIInv, StutterIInv
<1>1. ASSUME NEW key \in Key, NEW b \in Batch, Authorize(key, b) PROVE CallsSound' /\ CallCovering'
    BY <1>1, AuthorizeCounts, AuthorizeCoversCalls
<1>2. ASSUME NEW who \in Signer, ZeroWindow(who) PROVE CallsSound' /\ CallCovering'
    <2>1. called' = NothingCalled /\ window' = None
        BY <1>2 DEF ZeroWindow, reset_window, revoke_policy
    <2>2. LoadedLedger'.calls = EmptyLedger
        BY <2>1 DEF LoadedLedger, LoadedFrom, Ledger_empty
    <2> QED  BY <1>0, <2>1, <2>2, ZeroCoversCalls
<1>3. ASSUME NEW who \in Signer, NEW c \in Config, InstallPolicy(who, c)
      PROVE  CallsSound' /\ CallCovering'
    <2>1. /\ policy' = c /\ c \in PolicyConfig /\ c # None /\ UNCHANGED <<now, called, metered>>
          /\ steady' = (steady /\ (policy = None \/ Tracking(c) = Tracking(policy)))
        BY <1>3, AccountConstants, PolicyConstants DEF InstallPolicy, set_policy
    <2>2. CASE policy = None
        <3>1. now \in 1..MaxTime /\ now \in Nat
            BY CoverTypes
        <3>2. window' = to_state(Ledger_empty)
            BY <1>3, <2>2 DEF InstallPolicy, set_policy
        <3>3. window' # None
            BY <3>1, <3>2, EmptyUpTo, ToStateUpTo, StoredIsSome
        <3>4. ledger_from_entries(EmptyLedger.entries, U32_MAX) = EmptyLedger
            <4>1. 0 \in Nat
                OBVIOUS
            <4>2. Covered(EmptyLedger, CallsUpTo(NothingCalled), now, 0, U32_MAX)
                BY <3>1, <4>1, NoCalls
            <4> QED  BY <4>2, CoveredTotal
        <3>5. window'.protocol_call_entries = EmptyLedger.entries
            BY <3>2 DEF to_state, Ledger_empty
        <3>6. LoadedLedger'.calls = ledger_from_entries(window'.protocol_call_entries, U32_MAX)
            BY <3>3 DEF LoadedLedger, LoadedFrom, from_state
        <3>7. LoadedLedger'.calls = EmptyLedger
            BY <3>4, <3>5, <3>6, Zenon
        <3>8. called' = NothingCalled
            BY <2>1, <2>2 DEF CallsSound
        <3> QED  BY <1>0, <3>7, <3>8, ZeroCoversCalls
    <2>3. CASE policy # None
        <3>1. window' = window
            BY <1>3, <2>3 DEF InstallPolicy, set_policy
        <3>2. steady' /\ policy'.protocol_calls_per_window > 0 =>
                  /\ steady /\ policy.protocol_calls_per_window > 0
                  /\ policy'.window_secs = policy.window_secs
            BY <2>1, <2>3 DEF Tracking
        <3> QED  BY <2>1, <2>3, <3>1, <3>2, SameCoversCalls
    <2> QED  BY <2>2, <2>3
<1>4. CASE Tick /\ UNCHANGED history
    <2>1. /\ now' = now + 1 /\ now < MaxTime /\ policy' = policy
          /\ UNCHANGED <<window, called, steady, metered>>
        BY <1>4 DEF Tick, policyVars, history
    <2>2. now \in Nat /\ MaxTime \in Nat /\ now \in 1..MaxTime
        BY CoverTypes
    <2>3. CallsSound'
        BY <2>1, <2>2 DEF CallsSound
    <2>4. CallsUpTo(called)[now + 1] = CallsUpTo(called)[now]
        <3>1. now + 1 \in 1..MaxTime /\ now + 1 > now
            BY <2>1, <2>2
        <3>2. called \in CalledType /\ called[now + 1] = 0
            BY <3>1 DEF CallsSound
        <3> QED  BY <2>2, <3>1, <3>2, QuietCalls
    <2>5. LoadedLedger' = LoadedLedger
        BY <2>1 DEF LoadedLedger, LoadedFrom
    <2>6. CallCovering'
        <3> SUFFICES ASSUME steady, metered, policy # None, policy.protocol_calls_per_window > 0
                     PROVE  Covered(LoadedLedger.calls, CallsUpTo(called), now + 1,
                                    policy.window_secs, U32_MAX)
            BY <2>1, <2>5 DEF CallCovering
        <3> DEFINE c == CallsUpTo(called)
        <3>1. Covered(LoadedLedger.calls, c, now, policy.window_secs, U32_MAX)
            BY DEF CallCovering
        <3>2. c[now + 1] = c[now]
            BY <2>4
        <3> HIDE DEF c
        <3>3. Covered(LoadedLedger.calls, c, now + 1, policy.window_secs, U32_MAX)
            BY <3>1, <3>2, CoversLater
        <3> QED  BY <3>3 DEF c
    <2> QED  BY <2>3, <2>6
<1>5. ASSUME NEW key \in Key, heartbeat(key), UNCHANGED history
      PROVE  CallsSound' /\ CallCovering'
    <2>1. UNCHANGED <<now, policy, called>>
        BY <1>5 DEF heartbeat, policyVars, history
    <2>2. CallsSound'
        BY <2>1 DEF CallsSound
    <2> QED  BY <1>5, <2>2, HeartbeatCoversCalls
<1>6. ASSUME NEW who \in Signer, NEW p \in BOOLEAN, set_paused(who, p), UNCHANGED history
      PROVE  CallsSound' /\ CallCovering'
    <2>1. /\ UNCHANGED <<now, window, called, steady, metered>> /\ policy # None
          /\ policy' = policy \/ policy' = [policy EXCEPT !.paused = p]
        BY <1>6 DEF set_paused, policyVars, history
    <2>2. policy \in PolicyConfig
        BY <2>1, CoverTypes
    <2>3. policy' \in PolicyConfig
        BY <2>1, <2>2 DEF PolicyConfig
    <2>4. policy' # None
        BY <2>3, PolicyConstants
    <2>5. /\ policy'.protocol_calls_per_window = policy.protocol_calls_per_window
          /\ policy'.window_secs = policy.window_secs
        BY <2>1, <2>2 DEF PolicyConfig
    <2> QED  BY <2>1, <2>4, <2>5, SameCoversCalls
<1>7. CASE UNCHANGED <<now, policy, window, called, steady, metered>>
    <2>1. (steady' /\ policy' # None /\ policy'.protocol_calls_per_window > 0) =>
               /\ steady /\ policy.protocol_calls_per_window > 0
               /\ policy'.window_secs = policy.window_secs
        BY <1>7
    <2> QED  BY <1>7, <2>1, SameCoversCalls
<1>8. ASSUME NEW who \in Signer, UNCHANGED history,
             OtherAdminStep(who) \/ confirm_admin_rotation(who)
      PROVE  CallsSound' /\ CallCovering'
    <2>1. \/ \E p \in BOOLEAN : set_paused(who, p)
          \/ UNCHANGED <<now, policy, window, called, steady, metered>>
        BY <1>8 DEF OtherAdminStep, rotate_agent_key, cancel_admin_rotation, freeze, unfreeze,
                    confirm_admin_rotation, policyVars, history
    <2> QED  BY <1>6, <1>7, <1>8, <2>1
<1>9. ASSUME NEW who \in Signer, NEW new \in Signer, Propose(who, new)
      PROVE  UNCHANGED <<now, policy, window, called, steady, metered>>
    BY <1>9 DEF Propose, propose_admin_rotation, policyVars
<1>10. ASSUME UNCHANGED history,
              refresh_deadman \/ \E who \in Signer, key \in Key : initialize(who, key)
       PROVE  UNCHANGED <<now, policy, window, called, steady, metered>>
    BY <1>10 DEF refresh_deadman, initialize, policyVars, history
<1>11. CASE UNCHANGED hvars
    <2>1. UNCHANGED <<now, policy, window, called, steady, metered>>
        BY <1>11 DEF hvars, vars, policyVars, history
    <2> QED  BY <1>7, <2>1
<1> QED  BY <1>1, <1>2, <1>3, <1>4, <1>5, <1>7, <1>8, <1>9, <1>10, <1>11 DEF HNext

(* protocol_calls_per_window is a ceiling over any window_secs span: while *)
(* no edit has changed what the windows track and every call was made      *)
(* where the window keeps count, a request leaves the calls really made in *)
(* the span at or below the limit (engine::decide,                         *)
(* Ledger::admit_protocol_call, __check_auth).                             *)
THEOREM CallLimitIsCeiling == HSpec => CallCeilingWhileStored
<1>1. HInit => CallsSound /\ CallCovering
    <2> SUFFICES ASSUME HInit PROVE CallsSound /\ CallCovering
        OBVIOUS
    <2>1. policy = None /\ called = NothingCalled
        BY DEF HInit, Init
    <2>2. called \in CalledType /\ \A t \in 1..MaxTime : called[t] = 0
        BY <2>1 DEF NothingCalled, CalledType
    <2> QED  BY <2>1, <2>2, WindowBounds DEF CallsSound, CallCovering
<1>2. IInv /\ WindowSound /\ CallsSound /\ CallCovering /\ [HNext]_hvars
          => [(steady /\ metered) => CallCeilingKept]_hvars
    <2> DEFINE limit == policy.protocol_calls_per_window
    <2> SUFFICES ASSUME IInv, WindowSound, CallsSound, CallCovering, [HNext]_hvars, steady, metered,
                        called' # called, policy # None, policy' = policy, limit > 0,
                        limit < U32_MAX
                 PROVE  RollingCalls' <= limit
        BY DEF CallCeilingKept
    <2>0. IInv' /\ CallsSound' /\ limit \in Int
        BY HistoryStep, NextIInv, StutterIInv, CallStep, CoverTypes DEF PolicyConfig
    <2>1. now' \in 1..MaxTime /\ policy'.window_secs \in Nat /\ called' \in CalledType
        BY <2>0 DEF CallsSound, IInv, ControlTypeOK, PolicyConfig
    <2>2. ASSUME NEW key \in Key, NEW b \in Batch, Authorize(key, b)
          PROVE  CallsWithin(called', now', policy'.window_secs, limit)
        <3>1. now' = now
            BY <2>2 DEF Authorize, check_auth
        <3>2. CallsWithin(called', now, policy.window_secs, limit)
            BY <2>2, AuthorizeCoversCalls
        <3> QED  BY <3>1, <3>2, Zenon
    <2>3. ASSUME NEW who \in Signer, ZeroWindow(who)
          PROVE  CallsWithin(called', now', policy'.window_secs, limit)
        <3>1. called' = NothingCalled
            BY <2>3 DEF ZeroWindow
        <3>2. Covered(EmptyLedger, CallsUpTo(called'), now', policy'.window_secs, U32_MAX)
            BY <2>1, <3>1, NoCalls
        <3>3. EmptyLedger.total <= limit
            BY <2>0 DEF EmptyLedger
        <3> QED  BY <3>2, <3>3 DEF CallsWithin
    <2>4. CallsWithin(called', now', policy'.window_secs, limit)
        BY <2>2, <2>3 DEF HNext, InstallPolicy, Propose, hvars, history
    <2>5. PICK l : /\ Covered(l, CallsUpTo(called'), now', policy'.window_secs, U32_MAX)
                   /\ l.total <= limit
        BY <2>4 DEF CallsWithin
    <2>6. RollingCalls' = SumFunctionOnSet(called', WindowSeconds(now', policy'.window_secs))
        BY DEF RollingCalls, Rolling, InWindow, WindowSeconds
    <2>7. RollingCalls' <= l.total /\ RollingCalls' \in Int /\ l.total \in Nat
        BY <2>1, <2>5, <2>6, RollingCallsCovered
    <2> QED  BY <2>0, <2>5, <2>7
<1> QED  BY <1>1, <1>2, CallStep, AccountsKept, PTL DEF HSpec, CallCeilingWhileStored
=============================================================================
