# AgentPay Control: a TLA+ verification of its money-moving protocols

AgentPay Control lets software agents pay for x402-protected resources, buy
with virtual cards and run automation rules, under a spending policy, with
people approving what the policy does not allow; it moves fiat and cross-chain
funds, and collects invoices through payment links. The repository holds a Next.js
dashboard (API routes, domain services, a Prisma/PostgreSQL schema, scheduled
jobs), a card executor that drives a browser, x402 facilitators and signers, a
demonstration resource server, and client packages. This directory holds TLA+
models of the parts that move money, TLC runs that check them on small
instances, and TLAPS proofs of the most important facts for every instance.

Paths below are relative to `src/`; `domain/` and `api/` stand for
`dashboard/src/domain/` and `dashboard/src/app/api/`, `docs/NN` for the numbered
documents under `docs/`. `PROJECT.json` maps every definition that models code to
its lines.

## 1. The system and its components

There is no in-process shared state between two requests: every request, job and
executor is a sequence of database transactions, and what happens between two of
them (an answer from a wallet, a chain, a resource or a card provider; a crash;
another request) is where the protocol can go wrong. A model here is therefore
one program counter per call plus the rows of the database, and its steps are
the transactions and single statements of the code.

### 1.1 Payment intents (`domain/payment-service.ts`, `domain/x402-client.ts`)

State: `PaymentIntent`, `SpendReservation`, `PolicyDecision`, `PaymentAttempt`,
`Settlement`, `ResourceFulfillment`. Operations: `createPaidRequest` (one
serializable transaction that re-reads the idempotency key, sums the
reservations, evaluates the policy and writes intent, reservation and approval),
`executeAuthorizedIntent` (revalidate, read, claim `AUTHORIZED -> SIGNING`,
create the attempt, sign, send, then record the result), and the self-custody
pair `prepareSelfCustodyPayment`/`submitSelfCustodyPayment`.
Hard: the claim is the only thing between a payment and its repetition; the
answer may be lost after the payload left; the settlement transaction is returned
without `await`; the process may stop between any two statements.
Correct when: no two payloads of one intent go out; money that may be out stays
counted; the intent and its reservation never contradict each other; `SETTLED`
rests on evidence.

### 1.2 Spend policy (`domain/policy.ts`, `domain/catalyst-policy.ts`)

State: none (pure functions). Hard: a limit met exactly, concurrent evaluations
over one budget, windows. Correct when: what it allows without approval never
exceeds its limits, in any interleaving of creations.

### 1.3 Approvals and cancellation (`api/v1/approvals/.../decision`, `api/v1/payment-intents/.../cancel`)

State: `ApprovalRequest`, `ApprovalDecision`. A decision is one transaction; the
vote that reaches the threshold executes the intent in the same request, after
the transaction. The cancel route reads, then writes in a transaction that does
not look at the status again. Hard: racing votes, votes against expiry, a crash
between approval and execution, a cancellation that overlaps the claim.

### 1.4 Sweeps (`domain/maintenance-service.ts`, the `*-payment-reconciliation-service.ts`, `api/v1/internal/maintenance/route.ts`)

`runPaymentMaintenance` expires intents, `openUnresolvedSubmissionIncidents`
turns doubt older than fifteen minutes into a support case, the three reconcilers
(Hedera, Arc, Cardano) read the chain and settle or fail unknown submissions under
an advisory lock and compare-and-set. Hard: overlapping sweeps with different
observations; a resource that names somebody else's transaction; a sweep nobody
selects the row for.

### 1.5 Card purchases (`domain/card-autonomy-*.ts`, `domain/card-executor-lease.ts`, `domain/card-authorization-service.ts`, `card-executor/src`)

State: `autonomous_card_purchase`, `card_autonomy_policy`, `CardAuthorization`,
`VirtualCard`, and the task an executor holds in memory. A purchase is evaluated,
created `READY` or `APPROVAL_PENDING`, leased by an executor with a fencing token,
materialized, driven to the checkout page, passed through a checkpoint
(`markCardPurchaseSubmitting`) before credentials enter the page, and completed;
the provider's webhooks bind an authorization to the purchase and decide the
outcome. Hard: leases that run out under a working executor, lost answers, events
late, twice and out of order, two purchases of one card at once.
Correct when: credentials go out under one lease only; after that only the
provider's word decides; an authorization is evidence for its own purchase; held
and captured amounts stay within the card's limit.

### 1.6 Automations (`domain/automation-service.ts`, `api/v1/automations/...`)

State: `AutomationRule`, `AutomationExecution`, `AutomationExecutionDecision`.
Triggers (manual, webhook, event, schedule) create an execution under an advisory
lock and a daily limit; members approve or reject; `executeAutomation` claims
`PENDING -> EXECUTING`, then calls a contract or creates a payment; deferred
payments are resumed and unknown contract calls reconciled by sweeps.
Hard: the contract call's answer may be lost, and its effect still happen; the
payment behind an execution lives on its own; a call may die anywhere.
Correct when: a contract call is sent at most once; nothing acts without its
approvals; a final status is true; nothing resolvable stays in doubt.

### 1.7 Masumi escrow and refunds (`domain/masumi-escrow-service.ts`, `domain/masumi-refund-mutation-service.ts`)

State: `MasumiEscrowPurchase`, `MasumiEscrowMutationClaim`, the intent with its
reservation and attempt, a database trigger that moves the reservation when the
escrow row changes, and the purchase at the provider. `executeAuthorizedMasumiIntent`
starts a job at the agent's API, claims the intent, binds the job to the row,
creates the attempt, asks the provider for the purchase and records what came
back; `reconcileMasumiEscrowPurchase` (a member's request, or the sweep) writes what
the provider lists; a refund is requested, then authorized, each through a claim that
is to be called once (`reserveMutation`, `executeMutation`) and, in doubt, only looked
up (`reconcileMasumiRefundMutation`).
Hard: the answer to a call may be lost and the call arrive afterwards; the claim is
read outside any lock and written over by id; two reconcilers record the same refund;
a stale observation is written whatever the row has become.
Correct when: the purchase made is the one the row names; the money the provider holds
stays counted; a refund returns the budget; a claim's final status is true; no mutation
is called again while the first call may still take effect.

### 1.8 Notification outbox (`domain/notification-service.ts`)

State: `OutboxEvent` (claim token and time, attempts, when it is due, processed or
dead), one `NotificationDelivery` per event and endpoint, the endpoints' status. Business
transactions insert events; every call of the notification route claims the oldest due ones
(`FOR UPDATE SKIP LOCKED`), delivers each to the endpoints that are active then, or to its
one address, records every answer, and closes or reschedules the event.
Hard: a claim is given up after five minutes, whether its worker is dead or slow; all
updates after the claim are by id; the answer to a delivery may be lost; endpoints are
paused with deliveries outstanding.
Correct when: nothing is delivered twice that is known to have arrived; processed means
delivered; an event is given up only for a reason; every event is settled.

### 1.9 Fiat transfers (`api/v1/fiat-transfers`, `domain/fiat-reconciliation-service.ts`, `api/v1/webhooks/stripe`)

State: `FiatTransfer` (its external id is `pending_...` until the provider's is
recorded), `FiatAccount.pendingMinor`, `ProviderWebhookEvent`. A request creates the row,
checks the emergency stop again, calls the provider under one idempotency key and records
the answer; requests with the same key and the sweep repeat the call for rows without
an id; webhook events read transfer and account at the provider and write both.
Hard: the same transfer is submitted by several at once, each records what it was told;
the catch block writes by id; events come before the id they name is recorded.
Correct when: the row says what the provider's movement came to, the account counts the
amount once, and doubt ends.

### 1.10 Moove payment links (`domain/moove-receive-service.ts`, `lib/moove.ts`)

State: `MoovePaymentLink`, the invoice it collects. A request inserts the row, calls the
provider once, stores the id; requests with the same key, refreshes and the scheduled
reconciliation find the link by its id or by the `AP:<id>` marker in its description
and store the provider's record in one transaction with the invoice and the announcement.
Hard: records are stored some time after they were read, by several readers; the create
call's answer may be lost, late, not readable or not stored.
Correct when: completed means paid at the provider, invoice paid, announced, once; failed
means not payable; a payment made arrives.

### 1.11 Cross-chain transfers (`domain/cross-chain-service.ts`)

State: `CrossChainTransfer` with its quote. A quote's transaction is exported to an
external wallet, its hash is reported, and passes of the maintenance route verify it on the
source chain (it must be the exported one), ask the route provider, and check the
destination chain before they believe it.
Hard: a pass works for long on rows it read at its start; reports arrive meanwhile; reads fail.
Correct when: a final status is what the chains say of the reported transaction, and a
transaction whose route ended gives its transfer an end.

### 1.12 How they interact

- `createPaidRequest` is called by API routes and by automations; it evaluates the
  policy and, when that allows, executes the intent in the same call.
- The decision route serves payments and card purchases: one approval row decides
  either, then the route executes the intent or resumes the purchase.
- The cancel route serves both too, and knows only the intent.
- An escrow purchase is the execution of an `AUTHORIZED` intent; cancellation and expiry
  reach it through the intent's status, the money through the row's trigger.
- Card purchases keep a `PaymentIntent` beside their own row, moved by webhooks; the
  same webhook route serves fiat transfers.
- An invoice is paid by a Moove link, by a payment through its collect route, or voided.
- The maintenance route runs every sweep over the same rows the calls write.
- The kill switch stops creation, signing, automations and fiat submissions and freezes
  cards; the deletion of an organization ends its rules and cancels what is open.
- Every final status writes an outbox event in its transaction; the outbox delivers it.

### 1.13 Not modelled

| Component | Code | Why |
|---|---|---|
| Invoices beside Moove links | `domain/invoice-service.ts`, `api/v1/invoices/.../collect` | status updates of one row without protocol of their own; the overdue sweep is in `MooveLink`, as a link's invoice meets it |
| Masumi escrow requests | `prepareMasumiEscrowPayment`, escrow incidents | the evaluation repeats `createPaidRequest`'s outside its transaction; hazard listed |
| Card status containment | `api/v1/cards/[cardId]/status`, kill-switch route | compensation of one failed provider call |
| USD windows, velocity, cooldown over time | `domain/catalyst-policy.ts`, `domain/policy.ts` | `SpendPolicy` has the functions; a model of passing time needs sums over windows, which make the instance explode before two windows meet |
| Retention, entitlements | `domain/maintenance-service.ts` | they delete closed records |

Left out for good: authentication, sessions and rate limits (guards without
protocol state; each action assumes its caller's role), the dashboard's pages, the
SDK, MCP and LangChain packages (pass-through clients), analytics and intelligence
(they move nothing), facilitators, signers and the resource server (external to
the models, which let them settle, fail, stay silent or misreport), and the generated
Prisma client, which is most of the repository's lines.

## 2. Modules

| Module | Models | Role |
|---|---|---|
| `SpendPolicy` | 1.2 | pure: the decision on one paid request |
| `PaymentIntent` | 1.1, 1.3, 1.4 | the payment protocol; extends `SpendPolicy` |
| `MCPaymentIntent` | | model values for TLC |
| `PaymentPromise` | 1.1 | the abstract specification of payments that `PaymentIntent` implements |
| `PaymentIntentProofs` | | theorems about payments, the refinement among them |
| `SumTheorems` | | lemmas about the sums in the limits of payments and cards |
| `PaymentDocumented` | | what the cancel route says and does not do |
| `CardPurchase`, `MCCardPurchase`, `CardPurchaseProofs` | 1.5 | the card protocol |
| `Automation`, `MCAutomation`, `AutomationProofs` | 1.6 | the automation engine |
| `MasumiEscrow`, `MCMasumiEscrow`, `MasumiEscrowProofs` | 1.7 | one escrow purchase, its reconciliation and refund |
| `Outbox`, `MCOutbox`, `OutboxProofs` | 1.8 | events, passes, deliveries |
| `FiatTransfer`, `MCFiatTransfer`, `FiatTransferProofs` | 1.9 | one transfer, its callers and its webhook events |
| `MooveLink`, `MCMooveLink` | 1.10 | one link and its invoice |
| `CrossChain`, `MCCrossChain` | 1.11 | transfers and the passes that follow them |
| `ProviderProofs` | 1.10, 1.11 | theorems about both, which take a provider's word for what became of money |

### 2.1 PaymentIntent

`Requests` are calls, each of which works on at most one intent; `pc[r]` says
where it is, `on[r]` on which intent, `report[r]` what the resource answered or
why the call refuses. Intents stand for idempotency keys: a call that finds its
key used only returns the row, so a used intent is not created again. Rows are
functions of the intent (`status`, `reservation`, `approval`, `votes`,
`fulfillment`, `incident`) or of the call whose attempt they belong to
(`attempt`, `candidate`, `settlement`): a call claims at most once, so its
attempt is named after it. `chain[r]` is the fate of the payload call `r` signed;
`job[k]` what a sweep observed and has not yet written; `overtaken` is a history
variable, the intents the cancel route wrote after they had left the statuses it
accepts.

| Action | Code |
|---|---|
| `CreatePaidRequest` | the transaction of `createPaidRequest` |
| `Decide` | the transaction of the decision route |
| `Revalidate`, `ReadAuthorized`, `FailBeforeSigning`, `Claim` | `executeAuthorizedIntent` up to the claim; refusals before signing release the reservation |
| `SubmitSelfCustody` | the checks of `submitSelfCustodyPayment`; it claims by the same statement |
| `CreateAttempt`, `Sign`, `Send` | the attempt row, the signature, the paid request |
| `Fulfilled`, `SubmissionUnknown`, `ResourceRefuses` | the three answers of `x402-client` |
| `RecordSubmitted`, `CommitSettlement`, `AbortSettlement` | candidate, and the settlement transaction that commits or is rejected after the `try` block was left |
| `MarkSubmissionUnknown`, `FailAttempt` | the catch block's two branches |
| `CancelRead`, `CancelWrite` | the cancel route's read and its transaction |
| `ExpireIntent`, `OpenIncident` | the maintenance sweeps |
| `Observe`, `Reconcile` | a reconciler's chain query and its transaction |
| `Crash` | the process stops between two steps |
| `Elapse`, `SetKillSwitch`, `PublishPolicy`, `ChainDecides` | time, operators, the chain |

Abstractions. All reservations fall into one day, hour and month and after the
last balance snapshot. The three reconcilers have one shape and are one action.
`Revalidate` (oracle price, policy context) may succeed or refuse. Hosts,
categories and schedules of the policy allow the request. A definite refusal by
the resource means it has given the payload up, and a 2xx answer that the payload it
was given succeeded on chain, as this repository's resource server and facilitator answer:
that is `Misreports = FALSE`, an assumption about the resource and nothing the code checks.
With `Misreports` a resource may answer anything at any time, name any transaction or none
that exists, and keep a payload that it refused. The incident sweep's fifteen-minute
wait is not modelled (it may come at any time after the doubt).

`PaymentPromise` is what all this promises of a payment, in four variables: its `phase`
(new, open, working, settled, refused), whether it is `counted` against the budget, which
payload `moved` its money, and whether a cancellation has `overtaken` it. Money moves once
and only of a payment that is counted; a payment is settled only out of `working`, and, if
resources are honest (`Honest`, which is `~Misreports`), only after its money moved; the budget
returns only if it did not and, with honest resources, will not; and a refused or settled payment stays so. `KeepsPromise` (in `PaymentIntent`) is the refinement
mapping: `SIGNING` and `SUBMISSION_UNKNOWN` are `working`, the reservation's status says
whether it is counted, and a payload has moved the money when the chain says so, known or
not. Of an overtaken payment only the single movement is left of the promise.

### 2.2 CardPurchase

`task[w]` is what executor `w` holds: a purchase and the attempt number that is
its fencing token; `live` holds the purchases whose lease has not run out,
`submitted` those past the checkpoint, `exposed` is history: under which tokens
credentials entered a page. `charge`, `provider` and `row` are a merchant's charge,
its state at the provider and the `CardAuthorization` row that follows it as
webhooks arrive (`RecordAuthorization`, `UpdateAuthorization`, then
`ReconcileAuthorization` as a second transaction). `Evaluate`/`Create` and
`Resume`/`ResumeWrite` are separate because the code evaluates outside the
transaction that writes. `Mark` is the checkpoint, `Enter` the credentials,
`Complete` the executor's report with its answer seen or lost, `Stop` an
executor that dies, `LeaseExpires` the clock.

Abstractions. One card, one spending window; all hosts are allowed; leases are
granted in any order (the code takes the oldest); a heartbeat is the absence of
`LeaseExpires`; a merchant charges once per exposed purchase. The window of
binding candidates is kept as two sets: `recent`, the purchases whose checkpoint
is at most thirty minutes old (`WindowCloses` drops the oldest), and `near`, those
with a checkpoint from thirty minutes before an authorization's `requestedAt` to
five minutes after it (`Mark` may add one to what was just requested). Executors
are not trusted in what they report, only to enter credentials after the
checkpoint.

### 2.3 Automation

`Executions` are idempotency keys: the scheduled runs of one rule and its other
triggers; one day. `Callers` are requests and sweep passes, with `pc`, the
execution they work on and the rule version they read; `payment[e]` abstracts
`PaymentIntent` for the key `automation:<execution>` (`CLOSED` stands for every
refusal) and moves on its own (`PaymentMoves`), so `createPaidRequest` may answer
any status it has; `chain[e]` is the contract transaction, which may also be
`lost`; `sends` counts hand-overs. `ReadSchedule`, `TakeSlot`, `TriggerSlot` are the
scheduled pass: read, compare-and-set of `nextRunAt` under the version, trigger
(or `LoseSlot`). `Stop` is a caller that dies. `PatchRule` does not ask the kill switch: the status route
reads it before its update, so it may have been set since.

Abstractions. One rule, one day. The ten-minute wait before a missing transaction
counts as lost exceeds the transaction's validity and the call (`Elapse`). The
facilitator answers success only on a receipt with `SUCCESS`
(`facilitator/src/app.ts:253-278`). The `CREATE_INVOICE` action is left out.

### 2.4 MasumiEscrow

`Workers` are requests and sweep passes; the record of one is its stack: `pc`, the
operation `op` it serves, `seen`, what an earlier step read or was told. `provider` is
the purchase at the provider; `calls` the operations on their way, `carried` those it carried
out; `misjudged` is history: carried-out operations the service recorded as failed because
it could not read the answer or its own transaction failed.

| Action | Code |
|---|---|
| `StartJob`, `ClaimIntent`, `BindJob`, `CreateAttempt` | `executeAuthorizedMasumiIntent` up to the provider's call |
| `Call`, `Reply` | a call leaves; its caller gets an answer, an error, or nothing |
| `RecordPurchase`, `PurchaseUnknown`, `PurchaseFailed`, `RecordEscrow` | the transaction after a good answer; the catch block's two branches, then its raw `UPDATE` |
| `StartReconcile`, `Found`, `NotFound`, `ApplyReconcile` | `reconcileMasumiEscrowPurchase`: the provider's list, then the transaction |
| `Reserve` | `reserveMutation` |
| `MutationAnswered`, `MarkMutation`, `RecordConfirmed` | `executeMutation` and its catch, `markMutation`, `recordConfirmed` |
| `SweepClaim`, `ReadClaim`, `FoundClaim`, `NotFoundClaim` | `reconcileMasumiRefundMutation` and the sweep that calls it |
| `Deliver`, `Progress` | the provider (external) |
| `Crash` | a worker stops between two steps |

`Trigger` is the database's trigger on the escrow row and part of every action that
changes the row's state.

Abstractions. One purchase. The provider's states advance as its adapter lists them and it
carries out an operation only from the state that allows it. Verification of the
agent's result against the purchase is whether `Found` happens. Any worker may play
buyer, seller or sweep; purging of inputs, audits and outbox events are left out. How the
intent became `AUTHORIZED`, its cancellation and its expiry are `PaymentIntent`'s.

### 2.5 Outbox

`pass[w]` is what worker `w` holds in memory: the events it claimed and has not looked at,
the event it works on, the endpoints or deliveries it has left, the attempt counters it read,
the last answer or verdict. `claim[e]` is the claim token (a pass's is its worker's; a dead
one's is `Lost`), `stale` the events whose claim is five minutes old. `row` and `tries` are the
deliveries. `received` (what arrived), `repeated`, `refused`, `doubtful`, `sent` (calls of `deliver`),
`unused` (claims that died before theirs), `overtaken` and `unsubscribed` are history.

| Action | Code |
|---|---|
| `Write` | `outboxEvent.create` of any business transaction (mapped to one of them) |
| `ClaimEvents`, `Load`, `Open` | `claimEvents`; the event read by id and token; `createMany` (`Opened`) and `findMany` (`Due`) of its deliveries |
| `Send`, `RecordDelivery` | one delivery (`Request`), then the update of its row (`Outcome`) |
| `Conclude`, `Close` | `findMany` over all rows; the update of the event by id |
| `CloseDirect` | the update after a delivery to one address |
| `ClaimExpires`, `PassTooSlow`, `FallsDue`, `BackoffEnds` | time: a claim, a row's `nextAttemptAt`, the event's `availableAt` |
| `SetStatus`, `Crash` | the endpoint routes; a worker that dies |

Abstractions. Every endpoint subscribes to every event. An event is due again once one of its rows
is, or none waits; a row may fall due at any time, also while its event is ready for another. The update after
an answer may fail, and the catch then records a failed attempt (`Recordable`); a catch whose own
update fails ends the pass, as a crash does. A definite refusal has not delivered.

### 2.6 FiatTransfer

One transfer: `status`, `recorded` (the provider's id is stored), `pending` (how often the
account counts it, up to two). `call[c]` is a request or sweep between its statements, with
the answer it holds; `fresh` says that it found the row `PENDING`. `hook[h]` is a webhook
delivery with what it read. `external` is the provider's one movement per idempotency key
(`first` its first state, `Mapped` what `mapMoneyMovement` makes of a state),
`events` the states it has still to notify. `total[t]` is the account's total as somebody else read it
before writing it. `calls`, `busy`, `ignored`, `reopened`, `foreseen` are history.

`Arrive`, `Create`, `Check`, `Answered` or `Fault`, `Record` or `RecordFails`, `Fail` are the request's
statements in order; `Select` lets a sweep enter at the call, as it looks neither at the kill switch
nor at the row again before it calls. `Receive`, `ReadTransfer`, `ReadAccount`, `WriteBoth`,
`HookFails` are a webhook delivery. `ReadTotal` and `WriteTotal` stand for whoever writes the provider's
total to the account without touching this transfer: events of the account, events of its other transfers,
repeated requests to open it. The provider's total holds the transfer while it is processed, and may
hold it while it is pending (`Counts`). Abstractions: the real provider (the sandbox settles at once);
of the account's pending amount only this transfer's share; the sweep's two-minute wait is not
modelled (a sweep may come at once); a row whose instrument was erased is never swept and is not modelled.

### 2.7 MooveLink

One link of one invoice. `create` is the creating request, `read[r]` the record a reader
holds between its read and `Apply`, the transaction of `applyProviderRecord`. `CallFails`
distinguishes what the code tells apart: a refusal, an answer lost or late (ambiguous), one
that cannot be parsed (not a `MooveProviderError`, hence `FAILED`). `announced` counts
the completion events; `regressed` and `unsaved` are history. Abstractions: the settlement token
and amount match; markers are unique; the payable statuses of an invoice are one; a reader
whose lookup fails has not read.
`FindOverdue` and `WriteOverdue` are the sweep of `markOverdueInvoices`, which reads the invoices past their
date and writes `OVERDUE`, one of the payable statuses, by id (`overdue` in between; of two sweeps that found
the invoice the later write is one that a new sweep could do as well). `reverted` is history: the invoice was
`PAID` when that was written, and has not been paid again since.

### 2.8 CrossChain

`pass[p]` is the set of rows a pass still has to do, as it read them, each with its `place` in the
order of the query; `Current(p)` is the one it is at. `mapped[p]` is what the pass made of
the provider's status until it writes it. `older` orders the rows by `updatedAt`, on which `Select` and
its limit depend; every update makes its row the youngest (`Touch`). `source[h]` and `route[h]` are what the chains and the provider say of a
transaction (`short`: the destination's receipt failed or paid too little). `RequestOf` says
which transfer's exported transaction a hash carries. A report is a read and a write
(`SubmitRead`, `SubmitWrite`), since its transaction locks nothing. `ReadFails` has the three
outcomes of a failed read: left for the next pass, the pass aborted, or taken for a verdict.
Abstractions: confirmations are part of what the chain says; the single refresh is a pass;
quotes are prepared in time or never.

## 3. What the runs check

| Run | Instance | Shows |
|---|---|---|
| `payment_spend` | 2 intents (one self-custody) over one budget, 2 calls, crashes, 2 policy versions | no double payment, no overspending, and every step keeps the abstract promise of a payment |
| `payment_approval` | 1 intent, 2 calls, 3 members, 2 of 3 to approve or to reject, sweeps fair | nothing is claimed unapproved; decided submissions resolve; doubt becomes an incident; lapsed budget returns |
| `payment_evidence` | 2 payments of different amounts, misreporting resources, 2 overlapping sweeps | a sweep settles only on success with the quoted amount, an executor only on the transaction its resource named; no transaction is credited twice |
| `card_lease` | 1 purchase, 2 executors, 2 attempts, 3 policy versions, fair executors | credentials under one lease; nothing undoes exposure; the provider decides; stale submissions surface |
| `card_binding` | 2 alike purchases, or 1 purchase and other charges; 2 executors, 2 authorizations | one live execution; each authorization goes to one purchase, its own while none is a stray; held and captured amounts never exceed the limit |
| `automation` | 1 rule, 1 scheduled and 1 event execution, 2 callers, 2 members, contract calls and payments, one approval or none, fair | sent once, approved independently, daily limit, truthful outcomes, doubt and deferral resolve |
| `escrow_refund` | 1 purchase, 2 workers that die at will, any number of retries and sweeps | held funds stay counted; refunds return the budget; failed mutations did fail; no second call |
| `outbox` | 1 event for 2 endpoints, one of which may be paused, then 1 direct event (`OneOpen`); 2 workers, 2 attempts, 2 mishaps | no second delivery of what is known to have arrived; processed means delivered; dead letters are refused or had their calls; events settle |
| `fiat` | 1 transfer, 2 requests, a sweep, a webhook delivery, a writer of the account, 2 faults or stops (`Apart`) | the row says what the provider's movement came to; counted once; doubt ends; the final state arrives |
| `moove` | 1 link, its creator and 3 readers, 3 faults | completion is whole, up to the overdue sweep, and announced once; failed is not payable; a payment arrives |
| `crosschain` | 2 transfers, the exported transaction of one and a foreign one, 2 reports, 2 passes of 1 transfer, 1 failed read | final statuses rest on the chains; routes that ended end their transfers |
| `documented_cancel` | 2 calls on one intent | a counterexample to what the cancel route says (section 5) |

Exceptions. The code leaves some races open; a property that they break says so in terms of
a history variable that records the race and nothing else: `overtaken` (payments: a late
cancellation; outbox: a claim taken over from a live pass), `misjudged`, `doubtful`, `unsubscribed`,
`reopened` (a stale write over a recorded fiat transfer), `foreseen`, `ignored`, `regressed`, `reverted`, `unsaved`,
`replaced`, `unheard`. Every exception is reachable in its run, and each is described in section 5.

Bounds. Two calls on one intent already meet every pair of concurrent steps of
executors, wallets, cancellations and decisions. Races of three and more are not
run; for what section 4 proves the theorems cover them, for the rest the two-call
instance is evidence only. Two intents
are the least that can share a budget, exchange evidence or compete for a card.
Three members (`payment_approval`) are the least that separate "two others approved" from "the
initiator and one other"; `automation` has two and a threshold of one, higher thresholds
are covered by the theorem. Two sweeps are the least that overlap. `Separately` keeps `card_binding` to either alike purchases or other
charges at a time; `Late` lets a window close on a merchant that has the credentials and asked for nothing yet, the case that
matters (the theorems have neither bound). Two workers of `escrow_refund` meet every pair of steps of executor, member,
reconciler and sweep; as workers die and restart without bound, more than two calls and
lookups of one operation follow each other. Two passes of `outbox` are the least that overlap, two
mishaps let one follow another, two attempts separate "try again" from "the last"; only the
direct event can be `Slow`; `OneOpen` writes the second event once the first is closed (the theorems have neither bound). Three callers of `fiat` let two hold answers while a third writes, and
two faults let the second follow the first one's retry; `Apart` lets a movement start as pending, be canceled,
or the account's total be written by others (one request and the sweep at work) only where nothing fails, and
a returned movement meet one fault (the theorems have no such bound). Three readers of `moove` hold old, newer and
newest records at once. In `crosschain` a pass takes one transfer, the least limit under which one
transfer can keep another waiting; that starvation is the exception in `TransferEnds`. The counters cut
by bounds are `MaxPolicyVersion` (how often the policy changes), `MaxAttempts` (the
code's own constant), `MaxSlot` and `MaxVersion` (scheduled runs and edits of the
rule), `MaxFaults`, `MaxMisreads`, `MaxMishaps` and `MaxStops` (failed calls and reads, dead
processes, switches of the kill switch); the guards that use them are in the actions named after what they
cut. Symmetry is used only in runs without liveness properties, over constants
that no configuration value distinguishes. The theorems of section 4 do not
depend on any bound.

Fairness. The maintenance route runs every sweep in each pass, and a scheduler
calls it forever, so sweeps are weakly fair (`Sweeps`; `Select` of `FiatTransfer`, `Work` of
`CrossChain`), as are an executor's poll
and work (a checkout has a deadline), the outbox's passes (`api/v1/internal/notifications`) and the
scheduled Moove reconciliation (`docs/moove-receive.md:197`). Handlers run to their end
unless they die; in `Automation` `Resume` and `Claim` are strongly fair because each pass takes every
execution it finds, and a pass does not die each time at the same place; the chain decides
and time passes; a provider settles what it accepted and repeats its events until they are
answered. No fairness is assumed of users, operators, payments, resources
or of requests that nothing repeats: an interrupted payment call stays where it
was. One caveat lies outside these modules: the route awaits all sweeps with
`Promise.all` before the incident sweeps, so a sweep that throws in every pass
(an event-driven rule at its daily limit does, until midnight; a fetch that fails in
`reconcileCrossChainTransfers` does once) keeps
`openUnresolvedSubmissionIncidents` from running; the fairness assumed for
`OpenIncident` is that such a state ends.

Deadlock is checked where the system cannot stop: the card and payment models
always have an operator's step. The others say `CHECK_DEADLOCK FALSE`: in `Automation` the
organization may be deleted, in `MasumiEscrow` an executor that dies between claim and call
leaves a `SIGNING` intent nothing takes up, and events, transfers and links come to an end
after which nothing is left to do.

## 4. What is proved

| Theorem | Module | Property |
|---|---|---|
| `TypeCorrectness` | `PaymentIntentProofs` | `TypeOK` |
| `PaidOnce` | `PaymentIntentProofs` | `NoDoublePayment` |
| `RefusalsPrecedeClaims` | `PaymentIntentProofs` | `RefusedNeverClaimed` |
| `LedgerAgreement` | `PaymentIntentProofs` | `LedgerAgrees` |
| `ApprovedFirst` | `PaymentIntentProofs` | `ApprovalBeforeClaim` |
| `PaidIsCommitted` | `PaymentIntentProofs` | `PaidStaysCommitted` |
| `PromiseKept` | `PaymentIntentProofs` | `KeepsPromise` |
| `EvidenceBehindSettlement`, `AmountsMatch` | `PaymentIntentProofs` | `SettledOnEvidence`, `ReconciledAmountMatches` |
| `LimitsHold` | `PaymentIntentProofs` | `SpendWithinLimits` |
| `DoubtsAreFound` | `PaymentIntentProofs` | `DoubtIsFound` (defined there) |
| `CardTypes` | `CardPurchaseProofs` | `TypeOK` |
| `CredentialsUnderOneLease`, `OneExecutionPerCard` | `CardPurchaseProofs` | `CredentialsOnce`, `OneLiveExecution` |
| `ExposedIsSettledOrOpen` | `CardPurchaseProofs` | `ExposedStaysOpen` |
| `CardOutcome`, `CardBinding` | `CardPurchaseProofs` | `OutcomeIsProviders`, `BindingFaithful` |
| `CardLimit` | `CardPurchaseProofs` | `CardSpendWithinLimit` |
| `TypeCorrectness` | `AutomationProofs` | `TypeOK` |
| `ContractSentOnce` | `AutomationProofs` | `SentOnce` |
| `FinishedIsFinal` | `AutomationProofs` | `FinishedStays` |
| `SubmittedWithApproval` | `AutomationProofs` | `ApprovedIndependently` |
| `DailyLimit` | `AutomationProofs` | `DailyLimitHolds` |
| `SlotsOfActiveRules` | `AutomationProofs` | `SlotsTakenWhileActive` |
| `OutcomesAreTrue` | `AutomationProofs` | `OutcomeIsTrue` |
| `TypeCorrectness` | `MasumiEscrowProofs` | `TypeOK` |
| `JobIsBound` | `MasumiEscrowProofs` | `JobBound` |
| `HeldFundsAreCounted`, `SettlementsAgree`, `RefundsReturnBudget` | `MasumiEscrowProofs` | `HeldFundsCounted`, `SettledTogether`, `RefundReturnsBudget` |
| `ConfirmationsAreTrue`, `FailuresAreDefinite` | `MasumiEscrowProofs` | `ConfirmedIsTrue`, `FailedIsDefinite` |
| `CalledOnce` | `MasumiEscrowProofs` | `NoSecondCall` |
| `TypeCorrect` | `FiatTransferProofs` | `TypeOK` |
| `OutcomeIsTheProviders`, `AmountCountedOnce` | `FiatTransferProofs` | `OutcomeIsProviders`, `CountedOnce` |
| `CanceledTransferUnsent` | `FiatTransferProofs` | `CanceledUnsent` |
| `TypeCorrect` | `ProviderProofs` | `TypeOK` |
| `CompletedWhole`, `OneAnnouncement`, `FailedUnpayable` | `ProviderProofs` | `CompletionIsWhole`, `AnnouncedOnce`, `FailedIsNotPayable` |
| `TransferTypes` | `ProviderProofs` | `TransferTypeOK` |
| `OutcomeHolds` | `ProviderProofs` | `OutcomeIsEvidence` |
| `TypeCorrect` | `OutboxProofs` | `TypeOK` |
| `OneDelivery`, `ProcessedIsReached`, `DeadLettersEarned` | `OutboxProofs` | `DeliveredOnce`, `ProcessedReached`, `DeadLetterEarned` |

Properties that no run lists (`RefusedNeverClaimed`, `LedgerAgrees`, `PaidStaysCommitted`,
`ReconciledAmountMatches`, `DoubtIsFound`, `FinishedStays`, `SlotsTakenWhileActive`, `JobBound`, `SettledTogether`,
`ConfirmedIsTrue`, `CanceledUnsent`, and the type invariants of all modules but the cards') were checked by
TLC on the same instances before they were proved, and so was every layer of the invariants below.

They hold for any sets of calls, intents, sweeps, workers and members, any amounts,
policies and thresholds that satisfy the modules' `ConstantsAssumption` (`CardConstants`,
`TransferConstants`): finite sets of members, intents, purchases, authorizations, transfers, events of a
rule and endpoints (the database is finite), a natural balance and daily limit, thresholds of at least
one where the schema's checks demand it, `None` not a row; without fairness. `MasumiEscrow` assumes nothing.

Payments: eight layers, each inductive given those below.
1. `TypeInv` is `TypeOK` with `CallsWellFormed` (what each program counter knows of
   `on` and `report`) and `AttemptsClaimed` (attempts, payloads and sweep
   observations belong to calls after their claim). Neither `TypeOK` nor any property below is
   inductive without them: a `Reconcile` of an attempt nobody made would break each.
2. `ClaimInv`: no two calls claimed one intent (`OneClaim`); a claimed intent has left
   the statuses a call may find it in (`ClaimedLeft`); while its call works, it is `SIGNING`
   unless a late cancellation wrote over it (`InFlight`). `PaidOnce` and
   `RefusalsPrecedeClaims` follow.
3. `LedgerAgrees` is inductive given `ClaimInv`: the unconditional writes after the
   claim find their intent `SIGNING`, hence its reservation `ACTIVE`. It excepts the
   intents in `overtaken`, which the code really leaves contradictory (section 5).
4. `ApprovalInv`: a consumed approval has its votes, the initiator's is not among them, an
   `AUTHORIZED` intent has a consumed approval or none, and so has a claimed one.
   Votes are frozen once the approval leaves `PENDING`, so what held at the decision
   holds at the claim (`ApprovedFirst`).
5. `PayloadInv`: a payload on its way or its effect belongs to an
   intent that has begun and, unless overtaken or failed on a misreport, is still counted; what a
   sweep carries as `FAILED` the chain did refuse, what it carries as confirmed it did not (of the
   attempt's own payload, if no resource misreports). That is what the
   unconditional release in the catch block and the sweep's compare-and-set rest on; with
   layers 2 and 3 each step is one of `PaymentPromise`'s or a stutter (`PromiseKept`, one lemma per
   kind of step, the cancellation's in the terms of `overtaken`).
6. `EvidenceInv`: a settlement row belongs to a call that is over and names a transaction
   (`RowsOver`); what a sweep carries as confirmed succeeded for the quoted amount (`Seen`), and
   stays so, because a call that is over changes nothing any more; hence an attempt that a sweep
   confirmed rests on a success on the chain, one that its executor confirmed on the resource's word
   (which is the chain's, if it does not misreport), and no transaction stands in two rows.
   `EvidenceBehindSettlement` and `AmountsMatch` follow. A sweep may write long after it looked: the
   layer is what keeps its observation true in between.
7. `SpendWithinLimits` itself. While no cancellation overtook a claim, only the creation of an intent adds
   to what is counted (`CountedByCreation`), which no action has to be opened for: it is read off the
   refinement, where `Promise` alone commits money. What a creation adds fits by the check it makes
   in the same transaction (`PolicyBounds`), and everything else can only lower the sum.
8. `DoubtIsFound`, given layers 1, 2 and 5: a payment `SUBMISSION_UNKNOWN` has an attempt `UNKNOWN`, and
   an attempt `UNKNOWN` a payment `SUBMISSION_UNKNOWN` or one in `overtaken`. The maintenance job finds
   doubts by the one status and the sweeps by both, so this is the safety half of `DoubtSurfaces` and
   `DecidedSubmissionsResolve`; `OneClaim` makes it inductive, since a sweep that resolves an attempt
   must not leave another attempt of the payment in doubt.

Cards: four layers.
1. `TypeInv`: types, and what an executor at work holds.
2. `LeaseInv`: a lease is named by its attempt, and nothing past the checkpoint is leased again;
   so the lease under which an executor enters credentials, or did, is the purchase's last one,
   whatever stale executors still do. `CredentialsUnderOneLease` and `OneExecutionPerCard` follow.
3. `ProviderInv`: a row never claims an outcome that the provider does not have, in whatever order its
   events came (`Recorded`); a purchase past its checkpoint without an authorization is still a candidate
   for its own (`Evidence`), as long as that is asked for in the window; so that, while all are, an
   authorization with one candidate is that candidate's.
   `ExposedIsSettledOrOpen`, `CardOutcome` and `CardBinding` follow.
4. `HeldOnRecord`: what the provider holds or captured is on record as approved, so the sum that the
   next approval reads under its lock leaves none of it out (`ApprovalFits`). The limit is not inductive
   without it: an approval could be given over a hold that nobody had written down. `CardLimit` follows.

Both limits rest on `SumTheorems`: the sum of a function over a finite set is a natural number, gains
exactly the value of an element that is added, and does not grow when the set shrinks. Sums are folds of the
library; as its induction theorems cannot be instantiated, each fact is proved from the recursion equation by
taking a smallest counterexample among the subsets of a finite set.

Automations: `TypeInv` (what each program counter knows), `ClaimInv` (one
caller works on an execution between its claim and its final write; who has sent
is past `PENDING`), from which `ContractSentOnce` and `FinishedIsFinal`; then
`ApprovalInv` (an execution that left `AWAITING_APPROVAL` other than by cancellation
has its approvals, and nothing was submitted before) and `SubmittedWithApproval`.
`LimitInv`: at most `MaxPerDay` executions are counted today or submitted; a cancellation frees a place
of one that was submitted only when the rule is archived and cannot trigger again (`DailyLimit`).
`SlotInv`: whoever holds the current version of a rule read it active, since its status never changes
without its version (`SlotsOfActiveRules`). `OutcomeInv`: what a call or a sweep is about to write is
true and stays true, because nothing is sent for an execution in doubt (`OutcomesAreTrue`, which is about
`SUCCEEDED` and the two codes of a failed or missing contract transaction; a `FAILED` of any other code is not
constrained, see section 5).

Escrow, five layers (each was checked by TLC on the instance of `escrow_refund` before it
was proved):
1. `TypeInv`: types, and what each step knows of its operation and of what it saw.
2. `BuyerInv`: one worker at most is between the claim and the record of the purchase; until
   then the row is `PREPARED`, and while it is, nothing reconciles or refunds
   (`Unrecorded`). That keeps the unconditional writes of the catch block from meeting a
   reconciler's. `JobIsBound` follows.
3. `EvidenceInv`: what workers carry as seen, and what rows and claims record as
   reached, the provider did reach, and it does not go back; a stale observation is
   therefore old but never false. `ConfirmationsAreTrue` follows.
4. `FundsInv`: intent, reservation and refund agree, with the trigger's release; a
   released reservation has one of three reasons (refund, no purchase and none on its way, a misjudged answer).
5. `OneShotInv`: while the purchase is neither completed nor disputed, one worker at most is
   between `reserveMutation` and the writing of its outcome, and a call on its way, or its
   effect, keeps the claim from being opened again. Completed and disputed purchases
   are left out because their claims may fail for good; there a second call is refused by
   the provider. `FailuresAreDefinite` and `CalledOnce` follow.

Fiat transfers: `TypeInv` (what a call or a delivery holds at each step), then what they
hold is true: an answer is a state the movement was in and cannot have left for the other
final one; a row with the provider's id has a movement behind it; a call that was refused while
no other was made has moved nothing; before the id is recorded the account counts the amount only
through a total of the provider's, so that a second count needs that or a failure written in between. Moove links: a single inductive invariant that relates
the row to the records in readers' hands (a `COMPLETED` record in hand means the payer has paid;
a record in hand means the link exists), what each failure status in the creator's hands
implies, and that only the overdue sweep's late write takes a completed link's invoice back (`reverted`).

Cross-chain transfers: one invariant. What a pass read of a row still holds when it comes to it, unless
the row's hash was replaced meanwhile (`SnapshotsHold`); a verified row's hash is the exported
transaction, and it succeeded (`VerifiedCarries`); a status on its way to be written is what became of
the transaction the pass read (`MappedIsTrue`). The last two are stable, because the chains do not take a
final answer back; so a pass that writes late writes something old and true, and `OutcomeIsEvidence` needs no
exception for overlapping passes. That `Current(p)` is one of the pass's rows needs the least of a set of places
(`HeadIsKept`), and those are natural numbers as the transfers are finitely many (`PlaceIsNatural`).

Outbox: one invariant of four groups. `PassWellFormed`: what a pass holds at each step. `Held`: who
works on an event has its claim and finds it open, unless it was taken over. Then what rows say of
what arrived: a recorded delivery arrived, and what arrived is recorded, or in the hands of a pass that
will record it, or left no record of its answer (`ArrivedRecorded`); what a pass is about to send is not
recorded yet (`InHand`), since no other pass works on the event; a verdict stays true of the rows it
was drawn from until it is written (`VerdictTrue`). Last, the code's attempt counters against the calls of
`deliver`: a row's counter never exceeds the calls (`TriesSent`, `SeenSent`), and a direct event's exceeds
calls and dead claims by at most the one claim whose call is still to come (`ClaimsUsed`); from that
follows that what the code compares with `MAX_ATTEMPTS` was really tried (`DeadLetterEarned`).

Only model-checked: the liveness properties (`DecidedSubmissionsResolve`, `DoubtSurfaces`,
`LapsedBudgetReturns`, `StaleSubmissionSurfaces`, `DoubtResolves`, `DeferredResumes`, `EventsSettle`,
`FinalArrives`, `PaymentArrives`, `TransferEnds`), which rest on fairness and `ENABLED`. Every safety property of
a passing run is a theorem.

## 5. Where the code does not do what the repository says

`documented_cancel` ends in a counterexample; the finding in `PROJECT.json` quotes the lines: the cancel
route reads the status outside its transaction and writes `CANCELED` whatever it is by then; a
payment being signed is canceled and its budget freed. The safety properties except such intents
(`overtaken`) and no others.

Other disagreements, met while modelling and visible in the modules, without a run of their own:

- The settlement transaction is returned without `await` (`domain/payment-service.ts:152`), so its
  rejection skips the catch block; the paid intent stays `SIGNING`, which no sweep selects
  (`AbortSettlement`; docs/01:253 promises recovery).
- The self-custody path never looks at the kill switch (`SubmitSelfCustody`; docs/04:358).
- The cancel route accepts the intent of a card purchase and leaves the purchase alone; its
  credentials go out all the same.
- An execution whose payment has an unknown outcome is recorded as failed for good
  (`AutomationPaymentOutcome`, `domain/automation-service.ts:28`; docs/01:214).
- `fiatSubmissionFailureStatus` says that its statuses "prove the provider could not have accepted the
  operation"; of a repeated submission they say nothing about the first one
  (the second part of `OutcomeIsProviders`).
- A Moove create call whose 2xx answer cannot be parsed, or whose id cannot be stored, becomes
  `FAILED` instead of `SUBMISSION_UNKNOWN`, and the reconciliation leaves `FAILED` rows out
  (`unsaved`; docs/moove-receive.md:213). A record read before the completion and stored after it
  takes the row back to `ACTIVE`, and the next one announces it again (`regressed`;
  docs/moove-receive.md:230).

Left open by the code and excepted by name: the executor settles a payment on whatever transaction
id a 2xx answer names (`x402-client.ts:184-209`, `payment-service.ts:146-160`) and gives one up on any
definite refusal; the chain is asked only about payments in doubt. Hence the second way to be `Backed`
in `SettledOnEvidence` and the exception in `PaidStaysCommitted`, both only with `Misreports`.

The overdue sweep writes `OVERDUE` by id over what it read before (`invoice-service.ts:85-89`): an invoice
that was paid or voided meanwhile is payable again. `CompletionIsWhole` excepts the paid one (`reverted`); without
the exception `moove` shows a completed link with an unpaid invoice.

A merchant may ask for its money outside the thirty minutes before to five minutes after in which the
search looks for a checkpoint (`card-authorization-service.ts:95-104`): its purchase is then no candidate,
and if another purchase of the card alone is, the request is bound to that one; so may a charge
made outside purchases. `BindingFaithful` claims whose authorization it is only while no request is such a stray
(`Timely`), and without the exception `card_binding` shows the wrong binding.

Known to be left open by the code, promised by no document, and covered by no property: a purchase
that stops before its checkpoint on its last attempt stays `EXECUTING`; a card
purchase whose resumption died, or whose approval lapsed, stays `APPROVAL_PENDING`; a
scheduled run whose pass died after `nextRunAt` moved is lost; an execution whose
caller died is found again only by the same trigger (`PENDING`) or not at all
(`EXECUTING`); `FAILED` of an automation may follow an effect whose success
transaction was rejected. Of the escrow: a good answer to the purchase that cannot be read, or
whose transaction fails, returns the budget although the provider holds the funds (the
exception in `HeldFundsCounted`), and likewise marks a refund `FAILED` that was made, so
that it may be asked for again; an executor that dies between claim and call leaves the
intent `SIGNING` and the row `PREPARED`, which no sweep selects; a refund call that never
arrived keeps its claim `SUBMISSION_UNKNOWN` for good, by design; all purchases not yet bound to a job
share the identifier `'pending'` of a column that is unique per network. Of the outbox: the dead letter
of one endpoint ends the retries of the others; an event that finds no active endpoint is processed
although deliveries of it are outstanding; one endpoint paused with a delivery outstanding keeps its event
due in every pass; two live passes may both deliver an event when the first outlives its claim
(`overtaken`); a good answer whose update fails is recorded as a failure and the delivery repeated
(`doubtful`); a direct event's attempt is counted at the claim (`notification-service.ts:58`), so a pass that
dies before the delivery uses one up (`unused` in `GivenUp`). Of the transfers: the final event of a fiat transfer that comes before its id is
recorded is ignored and not sent again; a provider's total that
holds a transfer already and reaches the account before the transfer's id is recorded has it counted twice
(`foreseen`; `webhooks/stripe/route.ts:102-121`, `fiat-transfers/route.ts:89`); a lost answer of a caller at work when the stop
canceled the transfer is written over `CANCELED` (`fiat-transfers/route.ts:97`), and a sweep may send it again; crossed webhook deliveries write the older state last; a
transfer whose chain could not be asked becomes `FAILED`; of two reports read together the later write
replaces the hash; a transfer of which the chain or the provider knows
nothing keeps its place at the head of every pass.

## 6. What is left

1. The maintenance pass with two rules (the caveat of section 3), invoices under several keys, and card
   status containment.
2. Proofs: the rules of `SpendPolicy` as lemmas of their own, apart from the limits they bound.
