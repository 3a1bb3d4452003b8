----------------------------- MODULE SpendGuard -----------------------------
(***************************************************************************)
(* What the account promises its owner, without ledgers, merging, staging, *)
(* contexts or storage keys: an agent pays only while the gate is open, a  *)
(* payment keeps what was really paid within the limits in force, and only *)
(* the owner changes limits or forgets payments.                           *)
(***************************************************************************)
EXTENDS Integers, FiniteSetsExt, Functions

CONSTANTS
    Payee,      \* who may be paid
    Unlimited,  \* the value of limits when nothing is promised
    LastSecond  \* bound on the clock

VARIABLES
    clock,      \* the second it is
    paid,       \* paid[p][t]: what p was paid in second t, as far as remembered
    limits,     \* Unlimited, or a record: width in seconds (0 = for ever), cap
                \* over all payees (0 = none), own[p] for a payee with its own cap
    gate        \* the agent may act

guardVars == <<clock, paid, limits, gate>>

Nothing == [p \in Payee |-> [t \in 1 .. LastSecond |-> 0]]

GuardInit == clock = 1 /\ paid = Nothing /\ limits = Unlimited /\ gate = FALSE

(* The seconds of the span of the given width that ends now. *)
Span(width) == {t \in 1 .. LastSecond : t <= clock /\ (width = 0 \/ t > clock - width)}
InSpan(perSecond) == SumFunctionOnSet(perSecond, Span(limits.width))

(* The agent pays, several payees at once in a batch: only now, only       *)
(* through the open gate and only within the limits in force.              *)
Pay ==
    /\ gate
    /\ \A p \in Payee, t \in 1 .. LastSecond :
          IF t = clock THEN paid'[p][t] >= paid[p][t] ELSE paid'[p][t] = paid[p][t]
    /\ limits # Unlimited =>
          /\ limits.cap > 0 => SumFunctionOnSet([p \in Payee |-> InSpan(paid'[p])], Payee) <= limits.cap
          /\ \A p \in DOMAIN limits.own :
                paid'[p] # paid[p] => InSpan(paid'[p]) <= limits.own[p]
    /\ UNCHANGED <<clock, limits, gate>>

(* The owner changes the limits or the gate; what was paid stays on record *)
(* unless the owner zeroes it.                                             *)
Govern == paid' \in {paid, Nothing} /\ UNCHANGED clock

(* Time passes: it may open or close the gate, and nothing else. *)
Elapse == clock' = clock + 1 /\ UNCHANGED <<paid, limits>>

GuardNext == Pay \/ Govern \/ Elapse

GuardSpec == GuardInit /\ [][GuardNext]_guardVars
=============================================================================
