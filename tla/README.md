# XGuard in TLA+

XGuard sells agent work for small on-chain payments. Almost all of its state is
money: who paid, what is owed for it, what was delivered, what was charged. It
runs as Cloudflare Workers (stateless requests, killed anywhere) over Durable
Objects (one storage each, one alarm each), and it calls services it cannot
trust to answer: payment facilitators, chains, sellers, targets of actions, a
billing provider. These modules model that part of the program, TLC checks them
on small instances, and TLAPS proves the central results for every instance.

Paths below are relative to `src/`.

## 1. The system

### Components, their state and what makes them correct

| Component | State it keeps | Operations | Must hold |
|---|---|---|---|
| Paid operation gateway `apps/relay/src/paid-agent-entry.js` | index object: `pid:` rows, request keys, credits; one operation object per authorization: the record with its financial status and lifecycle, an alarm | `handlePaidWebFetch`, the routes `/index/*` and `/operation/*`, `alarm`, `reconcileStoredOperation` | an authorization is settled once, an identifier and a key buy once, nothing is executed unpaid, no booked payment is forgotten |
| State graphs `core/payment-rail.js`, `core/payment-lifecycle.js` | none | `PAYMENT_TRANSITIONS`, `EXECUTION_STATES`, `advanceLifecycle` | status only moves along the graph |
| Execution credits (same file) | `credit:` rows, `credit_attempt`/`credit_redeemed` of the operation | create, consume, attempt, delivered, finalize | a credit is held by one run and fulfils once; a failed run loses nothing |
| Commerce books (same file, `outcome-metrics.js`, `live-paid-ledger.js`) | `commerce:v1` totals, `commerce:operation:` and wallet rows, the same per outcome and Live service | `syncCommerce`, its alarm, `/index/commerce` | totals, and each share in them, are the sums of the rows whatever order copies arrive in |
| Billing `apps/billing/src/index.js` | ledger per key, an index object per checkout and per order | `/purchase`, `/refund`, `/consume`, order webhook | credits are conserved; refunds are honoured; one order per checkout |
| Mandates `apps/relay/src/authority.js` | one record per mandate: revoked, uses, amount of the day | `/consume`, `/revoke` | every permit issued is covered |
| Action Rail `action-rail.js`, Settlement Rail `rail.js` | one permit object per permit, meters | create, execute, consume only, status | one side effect per permit; records and charges say what happened |
| Seller marketplace `seller-commerce.js` | seller ledger, outbox flag of the operation | `syncSellerCommerce`, payout alarm | a sale reaches the ledger once; a started sale is not sold again, failed or not |
| Gateway admission (same file, `core/unit-economics.js`, `core/payment-health.js`, `live-paid-entry.js`, `live-paid-ledger.js`) | quotes that are out; circuit of each facilitator and of the Live services; readiness cached by each isolate | `gatewayConfig`, `issueQuote`, the checks before `/operation/begin`, `/live/health`, `recordPaymentHealth`, `selectFacilitator` | a buyer pays what was quoted and no less than the cost floor; a failing rail is not chosen, a pause is kept |
| Seller ledger and payouts `seller-commerce.js`, `core/seller-payout.js` | rows and books per sale; one payout object per sale: nonce, signed transfer, attempts, alarm | `/seller/commerce`, `/payout/*`, payout alarm | one transfer per sale; the books follow the chain; a payout ends or is left to a person visibly |
| Settlement-truth gateway `apps/settlement-gateway/xguard-gateway.ts` | SQLite tables of a wallet: jobs with leases, journal, credit balance and grants, funding | `claim`, `release`, `startSettlement`, `deferSettlement`, `finishChain`, `finishCredits`, `bindFunding`, `addCredit`, `prune`; `paidRead`; the pending order of the checkout page (`buyer.ts`) | one settle attempt, one charge per key, credits conserved, the body that was paid for; an order that is forgotten is never paid |
| Egress vault `egress-vault.js` | capability (budget, executions), credential, operator registry | `egressFetch`, `/begin`, `/complete`, `/revoke`, `deleteCredential`, alarm | one request per key, billed truthfully, budget kept, withdrawal effective |
| Live catalogue `live/store.ts`, `live/refresh.ts`, `live/objects.ts` | facts, source and domain leases, cooldowns, snapshots of the catalogue | alarm, refresh, suppress, domain lease, catalogue flight | a verified fact was served, a suppressed one is hidden, a domain has one refresh at a time |
| Key authorities `egress-vault.js`, `product-entry.js`, `rail.js`, `action-rail.js` | a key pair, made at the first use; in memory the promise of it | `keys()`, `keyRecord()`, `/public`, `/sign`, `/encrypt` | what was signed or sealed once can be verified and opened for ever |
| Usage metering `agent-token-usage.js`, `core/agent-usage.js` | meter objects: rate of a source or tenant, event records by key, totals of a month | `handleAgentUsageRoute`, `admitUsage`, `recordUsage` | an event is counted once, and an answer stays true |
| Settlement relay `index.js`, `gateway.js`, `core/settlement-receipt.js` | receipt object per authorization, quota per merchant | `POST /settle`, retry, late recovery, failover, charge | an authorization pays once, a confirmed receipt was paid, a settlement is charged once |

The rest (the outcome engine, control plane, pages and discovery
documents, reconciliation reports, edge and client packages, deployment scripts)
moves no money or keeps no state between requests. `PROJECT.json` lists each with
its reason.

### How they interact

A Worker request calls the index object, the operation object, the facilitator,
the chain, the upstream service and again the objects, one await after another.
The operation object's alarm runs the same settlement code (chain query, commit,
execution) from the other side, with no Worker present. Operation objects send
copies of their state to the index (books) and to the seller ledger (outbox).
Permits consume a mandate when they are created and usage credits when they were
executed; the egress vault consumes the same credits before it sends, and the billing
webhook moves them from outside. A delivered sale of the gateway starts a payout object.
The settlement-truth gateway and the settlement relay are programs of their own: they
share the chain and the facilitators with the rest, and no storage.

### What the platform does, as modelled

* A handler of a Durable Object that awaits only its own storage runs alone (its
  input gate is closed): one action.
* An await of `fetch`, of a request body, of crypto in another object or of another
  object's stub lets other events of the same object in: the handler is split
  there, and what it read before is kept in a variable (`held`, `seen`,
  `work[w].read`).
* A Worker may be killed, or an exception may end it, between any two calls.
* A set alarm is run at least once; one that dies is run again.
* A call may fail after the callee has done what was asked (lost answer).

### Hard behaviours

`PROJECT.json` lists the hazards at their lines. The families: a record read
before an await and written back after it (alarm, seller outbox, permit `/begin`,
mandate); a Worker that dies between two calls (reserve/begin, book/settle,
claim/complete, consume/confirm of a credit, begin/finish of a permit); a
settlement or a charge whose answer is lost; replays that race the first run;
copies, refunds and order events that arrive late, twice or out of order; a cap on
retries that must end in a visible state; a lease that runs out under its holder; a
catalogue, a readiness or a quote that is older than what it speaks of.

## 2. Modules

| Module | Models | Actions and their code |
|---|---|---|
| `PaymentStates` | the two graphs as functions | `AdvanceLifecycle`, `FinancialLifecycle` |
| `PaidGateway` | a payment from its header to delivery: requests, index, operation objects, alarms, facilitator, chain | below |
| `PaidGatewayProperties` | its properties and the refinement mapping | |
| `PaymentPromise` | the abstract specification: per identifier one authorization and a charge that only moves forward (open, sent, void / paid, owed, delivered) | |
| `CreditRedemption` | `useExecutionCredit`, on top of a running `PaidGateway` | `Consume` `Attempt` `RunAgain` `Deliver` `Confirm` `Restore` `CrashRedemption` |
| `CommerceLedger` | the books | `Advance` (a state stored and sent), `Apply` (`/index/commerce`), `Acknowledge`, `Fail`, `Alarm`, `Evict` |
| `CreditLedger` | billing ledger and order webhook | `Purchase` `Refund` `Consume`; `ClaimCheckout` `CreditOrder` `BindOrder` `DropHook` `RefundOrder` |
| `AgentAuthority` | a mandate | `ReadRecord` `Authorize` `Deny` `Revoke` |
| `ActionRail` | permits of both rails; EXTENDS `CreditLedger` and `AgentAuthority`, whose operators take their step inside the permit's action | below |
| `UnitEconomics` | the price floor | operators only: `MinimumPrice`, `Available`, `LeavesMargin` |
| `GatewayCircuits` | facilitator health and the Live circuit | `Observe` (`recordPaymentHealth`), `Selectable`, `LiveFailure`, `Probe`, `ResetLive` |
| `PaidAdmission` | configuration, quotes and checks of a payment up to its verdict; takes the steps of `GatewayCircuits` inside its requests | `Issue` `AskReady` `Regate` `Present` `Refuse` `Reserve` `SelectFacilitator` `Begin` `Verify` `Settle` |
| `SellerPayout` | seller ledger and payout objects | `Advance` `Record` `CreatePayout` `CreateLost` `FireAlarm` `Handler` `Tell` `TellLost` `Crash` `Land` |
| `SettlementTruth` | the settlement-truth gateway | below |
| `BuyerCheckout` | a tab of the gateway's checkout page; EXTENDS `SettlementTruth`, whose Workers answer it | `MakeOrder` `PresentOrder` `GiveUp` `RefuseLicense` `RefuseRead` `Answer` `Work`; `Withdraw` and `Outside` |
| `EgressCapability` | the egress vault, over the operators of `CreditLedger` | below |
| `LiveRefresh` | the Live shards and their control object | below |
| `SettlementRelay` | `POST /settle` of the relay | below |
| `KeyAuthority` | the objects that keep a key pair | `Join` `Read` `Generate` (the first await of `keys()`), `Keep`, `Reject`, `Apply` (a request that uses the pair), `Restart` |
| `UsageMetering` | the ingest of usage reports | `PostReport` `Authenticate` `AdmitTenant` `Dismiss`, then `Duplicate` or `Count` (the two ends of `recordUsage`) |
| `PaidGatewayProofs` | theorems about `PaidGateway` and `CreditRedemption` | |
| `RelayProofs` | about `SettlementRelay` and `LiveRefresh` | |
| `SellerPayoutProofs` | about `SellerPayout` | |
| `SettlementTruthProofs` | theorems about `SettlementTruth` and `BuyerCheckout` | |
| `ActionRailProofs` | about `ActionRail`, `CreditLedger`, `AgentAuthority` | |
| `EgressProofs` | about `EgressCapability`, `KeyAuthority`, `UsageMetering` | |
| `GatewayIndexProofs` | about `CommerceLedger`, `UnitEconomics`, `PaidAdmission`, `GatewayCircuits` | |
| `SumLemmas` | sums over finite sets, for the books and balances of the others | |
| `MC*` | instances | |

`PaidGateway`. `pc[x]` is the next call of process `x`: a request, or the alarm of
an authorization, which is named by the authorization itself. In the order of the
code: `Reserve` (`/index/reserve`), `SelectFacilitator` or, on a replay, `Peek`
(`/operation/get`), `Release` (`/index/release`), `Begin` (`/operation/begin` and
the branches on what it returned), `Verify`, `ReserveKey`, `Book`
(`/operation/reserve-settlement`, which then sets the alarm, or dies before it could), `Submit` and `Reply`
(the facilitator's `/settle`, split so that a crash or a timeout can fall between),
`CheckEvidence` (chain evidence of Live quotes), `Commit`
(`/operation/transition`), `Sync` (seller outbox), `Finalize` (`/index/finalize`),
`Claim`, `Execute`, `RecordCredit`, `Complete`. The alarm is `FireAlarm` (what it
does before its chain query), `Query` (what it writes after it) and `Outbox`; it
continues with the shared steps `Sync`, `Finalize`, `Claim`, and so on. `Patched` is
`safeFinancialPatch`, `Transition` the route that refuses an illegal patch. Amounts,
quotes, signatures and expiries are data no property tells apart: a quote is its
identifier and an authorization is payer and nonce. A claim token and a credit
token are numbers from `started`, which is also the history of claims.

`ActionRail`. Creation is `Ask` (balance), `AskMandate` (`/consume` of the mandate),
`Store` (`/create`) or `Abandon` (signing or `/create` failed). An execution is
`BeginRead` and `Begin` (the two halves of `/begin`, around the signature check),
`CallTarget` or `ConsumeOnly`, `Charge`, `Finish` or `MarkAmbiguous`,
`RecordMeter`; `Die` ends it anywhere. `PassExpiry` lets time pass, `CheckStatus` is
`/status`. The Settlement Rail differs in what follows the answer: it meters a fee
instead of consuming credits, and an exception of its `/finish` means doubt
(`FinishThrows`).

`PaidAdmission`. Each Worker isolate runs one deployment, `EnvOf[isolate]`; two of them
serve side by side while a deployment rolls out, so a quote that one signed is
presented to the other. `Configured` is `config.configured`, `Terms` is
`paymentRequirements`, `SameTerms` the long comparison of quote and configuration.
What the facilitator verifies is whether the signed authorization pays the terms. A
request that is refused anywhere ends in `Refuse`. From `Reserve` on the steps are those of
`PaidGateway`, without its replays and crashes and with what that module leaves out: the
choice of a facilitator by its circuit and the observations that open and close it.

`SettlementTruth`. The tables are `job`, `journal`, `balance`, `bound` and `grants`; a claim is
one of `ClaimDone`, `ClaimExpired`, `ClaimReconcile`, `ClaimWork`, `ClaimRefused`, each with the
pruning that runs before it. A request goes through `Prepare`, `StartSettlement`, `Submit`,
`Truth`, `FinishChain` or `FinishCredits`, with `DeferSettlement` and `Fail` on the error paths,
and may die at any of them. Time is three events: `LeaseLapses`, `AuthorizationEnds`,
`RetentionEnds`, possible in the orders that the durations of the code allow.

`BuyerCheckout`. The tab's memory is `tab.order`, the Worker it listens to `tab.at`. `MakeOrder` is
`authorize` or a new key; `PresentOrder` is the request with its claim; `GiveUp` its timeout or a
reload, after which the Worker lives on in `Work`. `Refused` is the end of an answer that is not a
receipt, and `Clears` the condition at `buyer.ts:185` that makes the tab forget. The steps of the
Workers, leases and the chain are those of `SettlementTruth`, and every step of the checkout is
one of that module or leaves its state alone (`GatewayStep`).

`EgressCapability`. An agent's request is `Begin` (or `Replay`), `Resolve` of the host,
`UseCredential`, `ReadBalance`, `ConsumeCredits` (with `LostBilling` when its answer is lost),
`Decrypt`, `Send`, `Receive`, and `Complete` with the outcome; `Abandon` is a Worker that
dies. `Create`, `Index` and `IssueFailed` are the issue of the capability; `Withdraw` and
`RegisterRevoked` its revocation; `DeleteCredential`, `Expire` and `Alarm` the rest.

`LiveRefresh`. A shard's `Alarm` or an owner's `Refresh` leads through `SourceLease`, the
domain lease, `Fetch` or `FetchFails`, `SourceCooldown` and `SourceRelease`. The leases end by
events of their own, also under a running fetch. A catalogue flight is `StartFlight`,
one `ReadSummary` per shard, `LandFlight`; `CatalogInvalidate` is what a suppression calls.
`Suppress` is the owner's order, to hide an entity or to show it again: it stores what was ordered
if the entity has a row (`HasRow`), and is answered in any case.

`SettlementRelay`. `Arrive` finds a receipt (`RetryReconciles`, `RetryCharges`) or goes on
with `Verify`, `Reserve`, `Admit`, `Submit`, then by the class of the facilitator's error
`FailOver`, `Recover` or `FailClosed`; `Record` and `Account` end it, `LateReconciles` and
`LateRecords` are the background recovery. `Land` is a transfer that happens after its
answer was lost.

## 3. Runs

| Run | Instance | States | Shows |
|---|---|---|---|
| `paid` | 2 identifiers, 2 authorizations, 3 requests | 198 k | exactly-once settlement and binding through replays, conflicts, crashes, timeouts and alarms; the operation implements `PaymentPromise` |
| `live` | 2 Live quotes of one buyer key, a facilitator that lies, faulty object calls, 2 attempts | 53 k | a key buys once and nothing runs without chain evidence |
| `seller` | a Live and a marketplace quote, 2 attempts, fair | 72 k | sent and covered bookings resolve; only the write-back of `syncSellerCommerce` makes a started sale claimable again |
| `redemption` | a failed operation, 3 redemptions, lost answers | 1.2 k | one delivery per credit, no obligation without its credit |
| `books` | 2 operations of one wallet, for an outcome and a Live service, 2 failed syncs, fair; and two deployments with 1 quote; and a Live buyer beside a payment that is settling, over strained circuits | 160 k | totals, shares, liabilities and wallets under loss, repetition and reordering, every state recorded eventually; a buyer pays what was quoted, above the cost floor of either deployment; circuits stay open |
| `action` | an action and a rail permit, 2 Workers, 2 orders with partial refunds, a body that arrives late | 1.8 M | one side effect, truthful outcomes, a mandate that covers up to one overrun per late body, conserved credits |
| `truth` | 2 requests, 7 intents of 5 ids over 3 rails, 2 funding payments, edited source; and a tab with a Base and a Lemon order | 615 k | one settle attempt, one charge per key, conserved credits, the paid body; no forgotten order is paid |
| `egress` | 2 Workers, 4 requests under 3 keys, 2 credits, one refund; and 3 requests to 2 key authorities; and 2 Workers with 5 reports of 2 tenants | 2.1 M | one request per key, truthful bills, a budget and a withdrawal that hold; one pair per authority; each event counted once |
| `payout` | 2 sales, one of the treasury's own, 2 looks at the chain, fair | 14 k | one transfer per sale, books that follow the chain, every payout resolves |
| `refresh` | 2 shards with a source each in one domain, 3 bodies | 2.0 M | truthful facts, suppressions that are kept once stored, one lease per domain |
| `relay` | 3 payments (Base with a key, Base free, another network), 2 facilitators, up to 3 requests at once | 240 k | an authorization pays once and is charged once |
| `claim_lost` | one Live operation, 2 requests | violation | the alarm writes a claim away |

The violation is the entry under "findings", which quotes the sentence of the
repository it disagrees with.

### Known disagreements that no run repeats

The same instances, with one constant, specification or property changed, lead TLC to ten
more places where the code does not do what a comment, a document or its own
structure says. They are recorded here so that nobody takes the passing runs for more
than they show.

* *Released reservation.* `Plain.cfg` with `StubFaults = TRUE` violates `KeepsPromise`: a
  replay whose `/operation/get` throws releases the row of a running operation
  (`paid-agent-entry.js:2035`), and a second authorization can be booked for it.
* *Double delivery.* Two requests and one redemption violate `DeliveredOnce`: a replay that
  read `settled` may claim an operation that was credited meanwhile
  (`paid-agent-entry.js:1308`), while its credit is redeemed. `redemption` starts from an
  operation without such a replay.
* *Stranded credit.* One request and one redemption violate `OwedCreditUsable`: a redemption
  that dies leaves the credit reserved (`paid-agent-entry.js:1240`).
* *Lost receipt.* `Action.cfg` violates `ReceiptDurable`: a late second `/begin` stores the
  record it read over an executed permit (`action-rail.js:574`).
* *Overrun mandate.* `Action.cfg` violates the last conjunct of `MandateCovers` without its
  condition `slow = {}`: `authority.js:21` reads the record before the body arrives and stores it
  after, so a use that another request counted meanwhile is undone, or a revocation. `MandateCovers`
  bounds the cost: one mandate more per late request.
* *Repeated sale.* `Seller.cfg` violates `started[a] <= 1` for its marketplace sale.
  `syncSellerCommerce` (`seller-commerce.js:31-49`) reads the settled record, calls the seller
  ledger and stores what it read. An alarm that does so while a request claims and executes the
  sale leaves a settled record without a claim, over the claim or over the failed delivery that
  was held for review; the next replay executes the sale again. The comment at
  `paid-agent-entry.js:1771-1773` says that a failed delivery is never retried, since the seller
  may have acted. `OnlyWriteBackReopens` shows that this is the only way.
* *Lost suppression.* `Refresh.cfg` violates `SuppressedHidden` if `hidden` takes in every entity
  whose suppression was answered, and not only those it is stored for. `objects.ts:103-105` is an `UPDATE` without a look at what it changed; rows come
  from the first observation (`store.ts:94`), unsuppressed. The owner of an enqueued source is
  answered ok (`worker.ts:106-109`), and its first observation publishes it.
* *Unsent booking.* `Seller.cfg` violates `BookingResolves` if it asks this of bookings that nothing
  was sent for: an object that dies between its transaction (`paid-agent-entry.js:1281-1287`) and
  `setAlarm` (`:1288`) leaves a booked, verified record and no alarm. Nothing is charged, and every
  replay is refused as in progress.
* *Forgotten pair.* `Egress.cfg` violates `KeysStand` if it speaks of all `Authorities` instead of
  `Memoised`: two first uses of the authority of a rail generate a pair each
  (`rail.js:331`, `action-rail.js:445`), and a permit signed with the one that is overwritten
  is refused. It is lost, not misused.
* *Forgotten order.* `Truth.cfg` violates `AbandonedUnpaid` without its exception for licenses.
  The license is looked up before the claim (`xguard-gateway.ts:720`), so one that is found revoked
  after a debit whose answer was lost makes the page forget an order that is paid, although
  `buyer.ts:184` says "Only errors known to precede debit can clear a pending order."

### Bounds, and why they are enough

* Identifiers and authorizations: two of each is the least at which an identifier can
  meet a second authorization, an authorization a second identifier, and a key a
  second quote. Every safety property relates at most two of them.
* Requests: three let a first run, a replay of it and a competitor be under way
  together. A request runs once; there is nothing it can do later that another
  request cannot do.
* `MaxAttempts` is 1 or 2 (3 in the code) and `MaxSync` 2 (5): the counter is
  reset, incremented and compared, so the last attempt, one before it and none are
  the cases.
* Redemptions: three, for two that compete while a third holds what they lost.
* `action`: one permit of each rail, of amounts 1 and 2 against a daily limit of 3 and
  three uses; orders of 2 credits (refundable in halves) and 1 credit. Its initial
  states are of two kinds (`MCInit`): permits under a live mandate paid from one order,
  and two orders with one checkout or two. The live mandate is fresh (both limits are
  met exactly), has spent 1 today (the second amount no longer fits) or has one use
  left while one request's body is late, so that it may undo the use of the other. Orders and permits meet only in the balance, so the first kind has an order to
  fill and refund it and the second has an independent consumer (`Elsewhere`) to spend it.
* `books`: prices 3, 10 and 20 against costs of 2 and 7 and a margin of 30 % lie exactly on
  the floor, and one below it; the new deployment changes one price to below cost, one to
  another valid price, the seller fee, and adds the testnet. In the third scene a rail and
  the Live circuit are one failure from opening, a Live buyer comes beside a payment that is
  being settled, and time is long enough for a new failure window during the pause. A scene leaves the books at
  rest and the other way round, since the two share no state (`MCInit`).
* `truth`: two ids under one key and two keys on one id, for each way two intents can clash;
  the initial states are ids that already ran their course, so that what remains is one or
  two live rails at a time: three authorizations over a source at its last edition, or two
  of one key over a source that is still edited. One lease can lapse under a request and be claimed by the other. The
  tab has a scene of its own, with one order of each kind: a request that it gave up and the one
  it waits for are the two Workers. It hears of no body, so the source keeps its edition there.
  A request claims its job before the tab gives it up, since the tab waits 25 s and what precedes
  the claim has 8 s.
* `egress`: two credits for three keys, so that the budget is met exactly and missed;
  the operator has two, of which a refund or other use may take some. The three scenes of the
  run share no state. Three requests to an authority are one that generates, one that waits and
  one that comes after; three pairs let a pair be overwritten twice. Of the five reports three
  are alike but for their keys, and the third has the keys of both others, so that it is
  a duplicate, a new alias or a conflict by order; two of another tenant exceed together what a
  month may count. Two reports a minute and two minutes meet the rate and its reset.
* `payout`: `MaxAttempts` 2 of 12, again the last look, one before it and none.
* `refresh`: every bound counts events of the environment (edits, owner orders, faults, flights)
  and is named in `Bound`; the scenes spend the bound on one family of events at a time: two edits with one fault, an edit
  around an order and a fault, and an owner who acts twice without a fault or once with one. Two
  edits are the least at which a body can come back after another replaced it.
* `relay`: three identical requests are a run, its retry and the recovery; two facilitators
  let one fail over to the other.
* Counters that are histories (`settles`, `started`, `delivered`, `answer`) need no
  bound: the code's own guards keep them finite, and the properties say by how much.
  The failure counter of the books is stopped at `MaxSync + 1` by a guard named in
  `Fail`; what it is compared with never exceeds that.
* Symmetry: requests, authorizations and redemptions are interchangeable,
  identifiers only where none is singled out; the fair runs use none.
* `CHECK_DEADLOCK FALSE` everywhere: every request, permit and order ends, and the
  system is then at rest.

`SlowPids`: the alarm is set 30 s after the booking and leaves records younger than 25 s
alone, while a `/settle` call is cut off after 10 s. Only a Worker that waits for chain
evidence can still be settling then, so only such quotes let the alarm overtake their
Worker (`WorkerOverdue`). That is a timing assumption of the model, taken from the
constants of the code.

`HonestFacilitator`: whether the facilitator's verdict agrees with the chain. The code
checks chain evidence for Live quotes only; the others rely on the facilitator, and the
properties that need it say so. `StubFaults`: whether a call to an operation object
may throw; without it only a dead Worker ends a sequence of calls.

### Fairness

`PaidGateway!FairSpec` is weak fairness of the steps of each Worker and of each alarm:
a Worker that is not killed makes its next call, and the platform delivers a set alarm.
No request must arrive, nothing crashes by fairness, and the chain need never decide;
`BookingResolves` holds all the same since the attempts are counted. A request that
is not killed need not exist either: what resolves the booking is the alarm.
`SellerPayout!FairSpec` is weak fairness of set alarms and strong fairness of the run of a
handler and of its announcement: the platform runs an alarm again after it died, and not
every run dies or loses its answer. The chain need never decide. Without strong fairness
an object that dies at every run would never resolve, which no code could prevent.
`CommerceLedger!FairSpec` is weak fairness of alarms and of calls under way.
`EventuallyRecorded` speaks of `Serial` operations, whose next state comes after the
answer to the last copy and whose object is not evicted during a call. For overlapping
copies the code does not promise it: an answer to an older copy clears
`commerce_pending` for a newer one.

## 4. Proofs

`PaidGatewayProofs` is checked by TLAPS for any number of identifiers,
authorizations, requests, keys and attempts.

* `TypeCorrect`: `Spec => []TypeOK`. `TypeOK` is not inductive as it stands, since a step
  of `x` writes `op[job[x].auth]`: `JobOK` adds that a process under way knows its
  authorization. One step per action, and within it one per group of variables.
* `SettledOnce`: `Spec => []SettleOnce`. The number of `/settle` calls is not bounded by
  any guard at `Submit`; what bounds it is that only `Book` leads there, that `Book`
  needs a record that is not booked, and that **no write-back of a stale record can
  take a booking away**. `SettleInv` says that: `RecordsOK` (a record past the booking is
  marked as booked, and a booked one is not absent), `HeldOK` (the records that the alarm and the
  seller outbox hold across their awaits, and will store, are booked) and `SendOK` (a
  request at `submit` is alone on its authorization, which is booked and on which no
  call was made; an authorization with a call is booked).
* `PaidFirst`: `FacilitatorChecked => (Spec => []PaidBeforeExecution)`, where
  `FacilitatorChecked == HonestFacilitator \/ Pids \subseteq LivePids`. A record, or a held
  copy, that shows the payment settled is on a paid authorization; so is every process
  past its evidence. The assumption is the one the code makes: chain evidence, or
  trust in the facilitator.
* `OneBuyerPerKey` (`OneBookingPerKey`), `SaleNotGivenBack` (`OnlyWriteBackReopens`) and, under `HonestFacilitator`,
  `FailedNeverPaid` (`FailedIsUnpaid`) share `OrderInv`. One request at a time prepares an operation,
  until it is booked (`OwnerOK`); after `Begin` has answered, a process works on a record of its own
  identifier (`BoundOK`); the row of a key names the authorization that is booked, or about to be,
  under that key (`KeysOK`); an authorization that was never submitted has no verdict (`SentOK`), and
  a booked one that failed was refused by the chain (`FailedOK`). What is written back is of the same
  operation, and ambiguous only if the alarm that asked the chain writes it (`WriteOK`). The other
  parts say which fields of a record fit together (`ShapesOK`), whose authorization a process
  works on (`JobsOK`), and that a seller's operation has no credit (`CreditsOK`, `RefundsOK`).
  For `SaleNotGivenBack`, `SaleInv` adds that a started sale stays received (`SoldOK`), so that no alarm
  that asks the chain is about one (`AskedOK`) and every write of a held record over one is the write-back
  of `syncSellerCommerce` (`SyncedOK`).
* `NeverForgotten`: `Spec => []AlarmCovers`. `AlarmCovers` is not inductive: an alarm that has fired
  is no longer set, and until it sets itself again nothing but its own run remembers the record.
  `CoverInv` adds `CoverAt`, what each running alarm owes at its step, and `PastReconciling`,
  what it no longer has to look at.
* `OnlyOneExecutor` and `ClaimNeverTaken`: `Spec => []OneExecutor`, and a claim that is held
  is never taken over (`ClaimHeld`), both under `NothingWrittenBack == SlowPids = {} /\ SellerPids = {}`.
  Two calls store a record that they read before an await: a settlement slower than the
  alarm, and the seller outbox. The run `claim_lost` shows that the first takes a claim away,
  so the hypothesis is the boundary of what the code promises; `Plain.cfg` is an instance of it. The
  alarm stores what it read too, and the proof shows why that is harmless: `AloneOK` says that while
  an alarm asks the chain no request settles the operation, and that the record it holds is
  ambiguous and has no claim. `ClaimsOK` keeps a claim on a received payment, `HoldersOK` has
  the token of whoever executes be the claim in the record.
* `PromiseKept`: `Spec => KeepsPromise`, the refinement of `PaymentPromise`, under
  `NothingWrittenBack` and `~StubFaults`; with a failing stub the promise is broken, as section 3 says.
  The mapping chooses, for an identifier, the authorization that is booked under it. `RowsInv` makes
  that choice unique and stable: the row of an identifier names the authorization whose operation
  has begun (`RowsOK`), or that a request is about to begin (`EarlyOK`, one such request: `BeginnersOK`),
  and a request that would release a row has not begun its operation (`ReleaseOK`); hence `OneBooked`. Each step
  then books one authorization (`BookingSends`), advances the booked record (`ForwardKeeps`), or maps to a stutter
  (`UnbookedKeeps`).

* `CreditNeverLost`: `RedemptionSpec => []OwedCreditExists`, for any number of redemptions that run
  again, lose calls and crash on top of any number of requests. The credit of an owed operation is in the index
  before the operation owes it, and the row of a credit is dropped only by a `Confirm` of what the
  operation has recorded as delivered. `OwedInv` follows the token in between: a token names one
  execution (`TokensOK`, `NumberedOK`), so a record that owes is owed for the execution whose credit is
  looked for.
* `RedeemedUnpaid`: `RedemptionSpec => [](SettleOnce /\ OneBookingPerKey)`. Redeeming a credit runs
  an operation again, and neither settles nor books it: the invariants of `SettledOnce` and
  `OneBuyerPerKey` survive every step of a redemption.
* `DeliveredOncePerExecution`: `RedemptionSpec => []((\A a \in Auths : started[a] <= 1) => DeliveredOnce)`.
  `SpentOK` says that for such a payment nobody executes once it is delivered or owed, and that
  what is delivered is owed no longer. The hypothesis, that no payment was executed twice, is
  the boundary of the promise: after a lost claim, or a replay that claims what was credited
  meanwhile (section 3, *Double delivery*), a payment is executed again and may be delivered twice.

`SettlementTruthProofs` is about any number of requests, intents, ids and keys.

* `SettledOnceOnly`, `ChargedOncePerKey`, `PaidBodyDelivered` share one inductive invariant,
  `IInv`, of named parts: `TablesTyped`;
  `JournalTells` (a job that settles or is done has the row that says so, and a body);
  `KeysUnique` (two rows never share a key, which survives the forgetting of jobs because
  rows are never deleted); `Underway` (a request that may submit is the only one, and
  nobody submitted before it: `startSettlement` writes the row in the same transaction that
  lets it submit, so a second holder of a prepared job is refused even after its lease
  lapsed); `Covered` (what was sent or debited has a row); `Moved` (a completed row is completed
  by money that moved); `Handed` and `OneBody` (what was delivered is the body of the job,
  or the job is forgotten and its row is done). `OneSettleAttempt` alone is not inductive: a
  step of `Submit` needs `Underway`, and that needs the row.
* `CreditsAddUp`: `Spec => []CreditConserved`. What is held is the sum of the holds of the jobs,
  which a claim raises, a pruning lowers by what the expired jobs held, and `finishCredits`
  spends. It needs that a job which settles on a chain holds nothing, so that
  `finishCredits` is the only way from a hold to a charge.
* `ForgottenIsUnpaid`: `CheckoutSpec => []AbandonedUnpaid`, for any number of orders and Workers.
  That an order is unpaid when it is forgotten
  does not keep it unpaid: a request that was given up may still run. `Heard` says that the
  Worker the tab listens to made the latest claim, so nobody else can journal the order;
  `Unpayable` that after it refused nobody can any more; `TabFit` and `Presented` that a forgotten
  order is never presented again. It assumes that orders have ids of their own
  (`OrdersAssumption`): keys and nonces are random.

`GatewayIndexProofs`.

* `BooksAlwaysAgree`: `Spec => []BooksAgree` of `CommerceLedger`, for any operations, wallets and
  prices. A copy that arrives changes one row, and each book changes by the difference of that
  row, or not at all if the copy is older than the row: that is the agreement of sums
  (`ReplacedFits`, `BooksStay`), and wallets are sums of deliveries in the same way. Which
  of the copies were lost, repeated or overtaken does not enter.
* `MinimumIsExact`: a price leaves the margin asked for exactly when it is at least
  `MinimumPrice`, for every budget and margin: the rounded quotient of the code is the least
  such price. `QuoteKept` is checked for some prices; this is why the floor may be
  compared instead of the margin.
* `FirstAttemptPays`: an available offer does not lose money on a first delivery.
* `BuysTheQuote`: `AdmissionSpec => []QuoteKept`, for any number of deployments,
  prices, budgets, quotes, requests and inputs. `QuoteKept` speaks of the stored operation, which
  is written several calls after the checks that justify it, so the invariant follows the
  request in between: `QuotesPay` (a quote was issued above the floor, by
  `ConfiguredPays`, which is `MinimumIsExact` at the configured price), `ChoicesBound` (a
  request past the checks serves the terms and the input of its quote, above the floor of its
  own deployment, whatever the deployment that quoted was configured with), `BegunBound`
  (a request at the facilitator has its record, and reaches `/settle` only with a payment for
  the recorded terms) and `OpsQuoted`.
* `CircuitsHold`: `AdmissionSpec => CircuitsKept`, for any number of rails, observations and
  requests. That a failing rail's circuit is open relates the observations it keeps to a
  counter that is not computed from them: `Tells` says that the counter of failed settlements is never less than
  the failures kept since the last settled payment, whatever was verified between and
  whatever the hour and the size of the sample dropped (`RecentIsSuffix`: because observations
  are in order of time, what is dropped comes first), and that at the limit the circuit outlasts each of
  those failures. A pause never ends before the time it was set
  to, because it ends at most `PauseFor` from now and a later failure sets it to exactly that
  (`PauseBound`); and only `Regate`, which reads the circuit, lets a Live payment past.

`ActionRailProofs` is about any number of permits, Workers and orders.

* `ActionInvariant`, `OneSideEffectHolds`, `OutcomesAreTrue`. A permit leaves `issued` for good at
  `/begin`; the one Worker that took it so (`OneActs`) is the only one that may call the
  target, and while it is under way the record is not in a final state (`StepsFit`). A record
  that is final was made so by that Worker, after what it tells of (`RecordsTrue`), and the meters
  count only records that are final (`MetersBehind`).
* `LedgerIsSound`: `Spec => []LedgerSound` over any orders, refunds in any steps and any
  order of the webhooks. Per order the credits taken back are `Cumulative` of the largest amount
  refunded, and that share grows with the amount (`CumulativeGrows`), so a late smaller
  refund takes nothing; the totals are the sums over orders and keys. `ShopInv` says that an
  order on its way is the one its checkout is claimed for.
* `MandateCoversIssued`: `Spec => []MandateCovers`, for any set `slow` of requests whose bodies arrive
  after the record was read. `MandateInv` bounds what was issued twice: by a mandate, and one more per
  late request (`Within`); and, while the record is not revoked, by what it counts and one mandate per late
  request (`Remembered`). What a late request stores adds to a record read earlier, which may count
  none of what was issued since, so after it the second bound has to come from the first
  (`OverwrittenWithin`); it may also revive a revoked record, which counts nothing, and that is why the
  first must hold by itself. Requests in time keep both (`AddedWithin`). Without late ones the record
  counts every permit (`CountedAtOnce`).

`EgressProofs` is about any number of keys, Workers and credits.

* `ExecutesOnce`, `BillsTruthfully`: the invariant `EgressInv` is `WorkersFit` (a Worker past
  `/begin` carries a key that the object knows as begun), `OneWorker` (one Worker carries a key on),
  `KeysFit` and `AnswersFit` (what was sent, charged and recorded agree). The alarm
  erases the records that `OneWorker` rests on; after it nothing is begun, because a capability
  expires for good.
* `StaysInBudget`: `BudgetInv` tallies what `/begin` reserved per key while the records are kept
  (`Tallied`); a key is charged its price or nothing (`ChargedToPrice`), so what was charged is
  at most what was reserved.
* `WithdrawsAtOnce`: a withdrawn credential stays withdrawn, so who begins late
  never passes `/use` (`LateHeld`, `Registered`), and the meter of executions never runs ahead
  of the keys that were sent (`MeterBehind`).
* `OnePair`: `KeySpec => []KeysStand`, for any number of authorities, requests and pairs. What is
  stored could be overwritten by a second generation; the invariant says there is none:
  `OneGenerates` (one request of an authority generates, and only while the promise is pending),
  `PromiseStored` (a promise that is settled is the stored pair; while it is pending nothing is
  stored) and `HeldStored` (a request that holds a pair holds the stored one).
* `CountsOnce`: `UsageSpec => []CountedOnce`. Events that are stored have ids of their own
  (`EventsApart`, from `PostsApart`), the totals of a month are the sums over them (`Tally`), and
  what a reporter was told stands (`ToldStands`).

`RelayProofs` is about any number of payments, requests, facilitators and crashes.

* `OnePayment`, `ConfirmedWasPaid`: off Base the relay itself must keep an authorization from
  being sent to two facilitators. The invariant `SubmitInv` says why: `ReceiptHeld` (whoever has
  submitted holds the receipt, and nothing takes it back), `OneSubmitter`, `Traced` (what
  was paid or is in flight was submitted), `OneFlies` and `NothingFlies` (a request that may
  still submit has nothing in flight, so the failover to a second facilitator follows an
  answer). On Base the chain takes a nonce once, whoever submits.
* `OneCharge`: by `ChargeInv`, a charge carries the evidence of its payment
  (`Evidence`) and the quota that funds it is marked with the payment (`Funded`).

* `PublishedTrue`: `LiveSpec => []VerifiedTruthful`, for any number of sources, refreshes and bodies.
  A row carries the body it is evidenced by. `EvidenceOK` says, of a row whatever its mark, that this body has
  the value of the fact, or lacks it if the fact is removed; so a source that answers with that
  same body, or that it is unchanged, confirms only rows that are true of it.
* `SuppressionHeld`: `LiveSpec => []SuppressedHidden`. A catalogue is built from shards that are read
  one by one before it is served. `HiddenOK` extends the claim to what such a flight has read: the
  invalidation awaits the flight before the suppression is answered, so no flight that is
  under way when an entity is hidden has read it.
* `DomainHeldByOne`: `LiveSpec => []DomainShared`. `LeaseOK`: who works on a domain within its time holds the
  lease, or a cooldown that is not over keeps everybody else away; a lease that lapsed gives
  its holder nothing. `RefreshAssumption` has lease tokens differ from the two words that stand for no lease and
  for a cooldown.

`SellerPayoutProofs`.

* `OneTransfer`: `PaidOnce` for any number of sales and attempts. `PayoutInv` adds `StepsFit` (the status of
  a payout at each step of its handler) and `Decided` (a transfer that landed is no longer open at the
  facilitator): only a pending payout is prepared, and preparing ends that status for good
  before anything is sent, so a second handler re-sends the same signed transfer.
* `BooksAddUp`: `Spec => []SellerBooks`, for any prices and fees. Rows only go up (`RowsTyped`,
  `RowsAdd`: the books are sums over the rows), and what a row tells of a payout was true of it
  before it was told (`ToldAll`): `confirmed` is told only after the transfer was found.

`SumLemmas`. A sum over a finite set (`SumFunctionOnSet`) is a fold in an order that `CHOOSE`
picks, and the library's induction theorems cannot be instantiated. The lemmas argue
first-order, by the least set, or number, at which a fact fails (`LeastSubset`,
`LeastNumber`): the fold is independent of the order, a sum takes one element more
or less, changes by what one term changes, is monotone, and of ones is the cardinality.

The assumptions are the `ASSUME`s of these modules on their constants, which TLC
evaluates in each run. `StorageAssumption` and `DigestAssumption` say that keys of
storage are finitely many, since a key is a digest or a label of bounded length; sums
need it. `ReportAssumption` says that a report has a key, as `agent-usage.js` refuses one
without.

Only model-checked: liveness under fairness (`BookingResolves`, `PayoutResolves`,
`EventuallyRecorded`), which is out of the prover's reach. Every safety invariant and action property
of the passing runs is stated by a theorem, some under the hypotheses named above.

### Where the model is coarser than the code

* `SellerPayout!Reserve` stores the reservation and sets the alarm in one step
  (`seller-commerce.js:210`, `:212`). An object that dies between the two is run again by the
  platform; `Reserve` followed by `Crash` reaches the same state.
* Strong fairness of `Handler` is more than the platform promises, which gives up a failing alarm after
  some retries. `PayoutResolves` is about payouts whose object is not abandoned so.
* `LiveRefresh!Fetch` takes the awaits of one refresh together, and a source's ETag stands for its
  hash.
* `SettlementRelay` takes a facilitator's answer of success as true: the relay records it without asking the
  chain (`index.js:360-369`). `ConfirmedIsPaid` rests on that; failures may lie.
* In the relay a payment is made with a key or without, while in the code each request brings its key; and
  confirmed nonces of the free quota are never pruned. That the request and the late recovery charge under one key holds because
  `control-plane.js:45-52` forwards the canonical body, so both digest the same text.

### Hazards that no passing run would catch

Of the hazards in `PROJECT.json` five have their interleaving left out of a passing
run, or allowed by its property, because the code is exposed to it: the write-back of a held record
(`paid-agent-entry.js:1849`, run `claim_lost`), the replay whose read fails (`:2034`),
an outbox whose alarm is never set (`seller-commerce.js:35`), the retry of a failed sale
(`paid-agent-entry.js:1773`), and the mandate that a late body overwrites (`authority.js:21`). The last
two are in the runs, and the properties say what is left of the promise.

## 5. Not modelled, and why

* Components listed in `PROJECT.json` as not modelled: functions of one request, or counters for
  reporting that no decision depends on.
* In the gateway: records of the format before `lifecycle_version` 1, expiry of credits, the free
  allowance, admission by rate; normalisation of inputs. The status that `/index/finalize`
  writes is modelled, but it gates nothing but `/index/release` (`paid-agent-entry.js:1161`), so
  a late write of it has no property.
* In the books: the days of the Live books and the revenue of a wallet, which sum the same snapshots.
* In billing: formats of earlier versions, journal lines, creation and naming of
  checkouts.
* In mandates: expiry and rollover of the day; labels of merchants and actions.
* In the rails: signatures and request binding, which refuse and change nothing.
* In the settlement-truth gateway: the limit of eight rows per pruning (all that may be pruned are,
  or none), the memory of recent results beyond `HotSize`;
  on its checkout page the layout, and a second tab, which has a memory of its own.
* In the egress vault: the index of a tenant's credentials (`egress-vault.js:801`), host and path policies.
* In Live: parsing of sources, corrections and imported reports; signing of the catalogue.
* In the key authorities: the use of a pair is one step; importing, verifying and opening are
  functions of the pair.
* In usage metering: the shapes of a report, bindings of tenants to operators and the check that a
  store belongs to its tenant, which its name already decides; telemetry of executions.
* In the relay: other schemes than exact authorizations, and analytics.

## 6. Plan

1. Provider circuits of the outcome engine (`paid-agent-entry.js:1087-1102`,
   `outcome-engine.js:103-159`).
2. The normalisation of quotes and the preflight (`paid-agent-entry.js:536-804`) as operators
   with a reference definition.
Runs with one question share an instance where their state spaces add up rather than
multiply (as the initial states of `action`, `truth` and `books` do).
