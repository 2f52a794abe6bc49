-------------------------- MODULE MCPaymentIntent --------------------------
(* Instances of PaymentIntent for TLC. *)
EXTENDS PaymentIntent, TLC

CONSTANTS i1, i2, r1, r2, r3, u1, u2, u3

\* Limits of a policy that denies what it does not allow ...
DenyPolicy ==
    [perTransactionLimit |-> 5, dailyLimit |-> 5, hourlyLimit |-> NoLimit,
     monthlyLimit |-> NoLimit, maxTransactionsPerHour |-> NoLimit,
     cooldown |-> NoLimit, overLimitAction |-> "DENY"]

\* ... and of one that sends every payment to its approvers.
ApprovalPolicy ==
    [DenyPolicy EXCEPT !.perTransactionLimit = 0, !.overLimitAction = "REQUIRE_APPROVAL"]

\* Two payments that fit the limit alone and not together.
TwoPayments == [i \in Intents |-> IF i = i1 THEN 3 ELSE 4]
WidePolicy == [DenyPolicy EXCEPT !.dailyLimit = 9]
EqualPayments == [i \in Intents |-> 2]

RequestSymmetry == Permutations(Requests)
SweepSymmetry == Permutations(Requests) \cup Permutations(Jobs)
=============================================================================
