---------------------------- MODULE SpendPolicy ----------------------------
(***************************************************************************)
(* The decision an immutable policy version takes on one paid request:     *)
(* evaluatePolicy (dashboard/src/domain/policy.ts), the USD limits priced  *)
(* by the oracle and the way the two are combined                          *)
(* (dashboard/src/domain/catalyst-policy.ts).  These are pure functions of *)
(* the facts the serializable creation transaction read.                   *)
(*                                                                         *)
(* NoLimit stands for a nullable limit that is not set.  Reason codes are  *)
(* a set: the code reports the first denial or every breach in order, and  *)
(* only whether the set is empty decides the outcome.                      *)
(***************************************************************************)
EXTENDS Integers

CONSTANT NoLimit

PolicyOutcome == {"ALLOW", "REQUIRE_APPROVAL", "DENY"}
OverLimitActions == {"REQUIRE_APPROVAL", "DENY"}

When(code, condition) == IF condition THEN {code} ELSE {}

Exceeds(amount, limit) == limit # NoLimit /\ amount > limit

(***************************************************************************)
(* policyScheduleViolation: the policy's validity interval, then its daily *)
(* window of minutes, which wraps around midnight when it starts after it  *)
(* ends.  Weekdays are the set of allowed days, empty when every day is.   *)
(***************************************************************************)
InMinuteWindow(minute, first, last) ==
    IF first <= last
    THEN first <= minute /\ minute < last
    ELSE first <= minute \/ minute < last

ScheduleViolations(s) ==
    UNION { When("POLICY_NOT_ACTIVE", s.activeFrom # NoLimit /\ s.now < s.activeFrom),
            When("POLICY_EXPIRED", s.activeUntil # NoLimit /\ s.now >= s.activeUntil),
            When("OUTSIDE_POLICY_SCHEDULE",
                 \/ s.weekdays # {} /\ s.weekday \notin s.weekdays
                 \/ /\ s.startMinute # NoLimit
                    /\ s.endMinute # NoLimit
                    /\ ~InMinuteWindow(s.minute, s.startMinute, s.endMinute)) }

(***************************************************************************)
(* The denials of evaluatePolicy: a fact that no approval can override.    *)
(* f.merchantAllowed is the outcome of the host and category lists.        *)
(* Unsupported assets and expired challenges are refused before the call,  *)
(* which passes constants for both.                                        *)
(***************************************************************************)
Denials(f) ==
    UNION { When("KILL_SWITCH_ACTIVE", f.killSwitch),
            When("AGENT_INACTIVE", ~f.agentActive),
            f.scheduleViolations,
            When("MERCHANT_NOT_ALLOWED", ~f.merchantAllowed),
            When("INVALID_AMOUNT", f.amount <= 0),
            When("INSUFFICIENT_BALANCE", f.amount > f.balance) }

(***************************************************************************)
(* The breaches of evaluatePolicy: limits whose effect the policy chooses  *)
(* (overLimitAction).                                                      *)
(***************************************************************************)
Breaches(f, p) ==
    UNION { When("PER_TRANSACTION_LIMIT_EXCEEDED", f.amount > p.perTransactionLimit),
            When("DAILY_LIMIT_EXCEEDED", f.reservedToday + f.amount > p.dailyLimit),
            When("HOURLY_LIMIT_EXCEEDED", Exceeds(f.hourlySpend + f.amount, p.hourlyLimit)),
            When("MONTHLY_LIMIT_EXCEEDED", Exceeds(f.monthlySpend + f.amount, p.monthlyLimit)),
            When("HOURLY_VELOCITY_EXCEEDED",
                 p.maxTransactionsPerHour # NoLimit
                     /\ f.transactionsLastHour >= p.maxTransactionsPerHour),
            When("PAYMENT_COOLDOWN_ACTIVE",
                 /\ p.cooldown # NoLimit
                 /\ f.sinceLastTransaction # NoLimit
                 /\ f.sinceLastTransaction < p.cooldown) }

EvaluatePolicy(f, p) ==
    IF Denials(f) # {} THEN "DENY"
    ELSE IF Breaches(f, p) # {} THEN p.overLimitAction
    ELSE "ALLOW"

(***************************************************************************)
(* evaluateUsdPolicy and combinePolicyOutcomes: the stricter outcome wins. *)
(***************************************************************************)
UsdBreaches(usd, spend, p) ==
    UNION { When("USD_PER_TRANSACTION_LIMIT_EXCEEDED", Exceeds(usd, p.perTransactionUsd)),
            When("USD_DAILY_LIMIT_EXCEEDED", Exceeds(spend.daily + usd, p.dailyUsd)),
            When("USD_HOURLY_LIMIT_EXCEEDED", Exceeds(spend.hourly + usd, p.hourlyUsd)),
            When("USD_MONTHLY_LIMIT_EXCEEDED", Exceeds(spend.monthly + usd, p.monthlyUsd)) }

EvaluateUsdPolicy(usd, spend, p) ==
    IF UsdBreaches(usd, spend, p) # {} THEN p.overLimitAction ELSE "ALLOW"

CombinePolicyOutcomes(base, extra) ==
    IF "DENY" \in {base, extra} THEN "DENY"
    ELSE IF "REQUIRE_APPROVAL" \in {base, extra} THEN "REQUIRE_APPROVAL"
    ELSE "ALLOW"
=============================================================================
