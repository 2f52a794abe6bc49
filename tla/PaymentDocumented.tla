------------------------- MODULE PaymentDocumented -------------------------
(***************************************************************************)
(* What the repository says of canceled payments and PaymentIntent shows   *)
(* the code not to do.                                                     *)
(***************************************************************************)
EXTENDS MCPaymentIntent

(***************************************************************************)
(* "Signing or settlement has already begun." (the cancel route's refusal, *)
(* cancel/route.ts:2): an intent whose signing began is not canceled.      *)
(***************************************************************************)
CanceledNeverClaimed ==
    \A r \in Requests : Claimed(r) => status[on[r]] # "CANCELED"

=============================================================================
