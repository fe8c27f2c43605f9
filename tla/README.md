# Reinkey: a verification development

Reinkey meters HTTP calls and streams and lets a buyer pay for them with signed
vouchers on a payment channel (a Soroban contract on Stellar). A facilitator
verifies vouchers in memory, persists what it accepted in Postgres, follows the
contract's events and claims the vouchers on chain. Around it stand smart
accounts that let an agent spend within a policy, a credit pool that lends to
such accounts, an audit module that keeps events and signed receipts, clients
(SDK, MCP server) and a web console.

The modules here are written from the code in `src/`: each definition that
stands for code is listed with its lines in `PROJECT.json` (`map`). The
properties are aimed at the hazards listed there (`hazards`): orders of events
nobody wrote a test for, crashes, lost requests, stale values.

Contents: 1 the system, 2 the modules, 3 the runs, 4 the proofs, 5 what is not
modelled, 6 behaviour worth knowing, 7 the plan.

## 1. The system

| part | code | state | operations | what makes it hard |
|---|---|---|---|---|
| channel contract | `contracts/channel/src/lib.rs` | channels, `NextId`, one token balance for all | `open`, `top_up`, `claim`, `close` | one balance for all channels, vouchers bound to a channel and a deployment, expiry and grace |
| smart account | `contracts/reinkey-account/src/lib.rs` | policy, spent per day, freeze, controller | `__check_auth`, the setters, `recall` | caps over all calls of an authorisation, nested transfers and swaps, day boundary, hand-over |
| credit pool | `contracts/credit-pool/src/lib.rs` | shares, lines, totals | `deposit`, `withdraw`, `transfer`, `open_line`, `liquidate`, `close_line` | rounding, prices, totals kept apart from their parts |
| channel cache | `backend/src/channel/channel.cache.ts` | cached channels, dirty set, pending loads, claims in flight | `get`, `flush`, `applyChainEvent`, boot, shutdown | awaits between reading and writing, flushes in flight, restarts |
| verifier | `channel.verifier.ts` | rate windows | `accept` | compare-and-write without an await, after an await |
| chain watcher | `chain.watcher.ts`, `stellar.chain.ts` | ledger, cursor, events seen | `poll` every 5 s | failing polls, pages, events applied twice or late |
| claim scheduler | `claim.scheduler.ts` | the tick under way | `tick`, `manualClaim`, `claim` | claims racing vouchers, events, other claimers and the expiry |
| stream sessions | `stream.sessions.ts`, `streams.controller.ts` | sessions, waiters, timers | `open`, `waitForSlice`, `submit`, `abort`, `close`, idle timer | voucher and wait are requests of two parties in either order |
| seller kit | `packages/meter/src`, its twin `backend/src/x402/meter.ts` | `PaidStream`, meter | `next`, `end`, `rk.meter` | requests whose answers get lost |
| demo sellers | `backend/src/demo` | one loop per stream | ticker, chat | the buyer leaves while the loop waits |
| buyer SDK | `packages/sdk/src` | `ChannelSigner.cumulative`, transactions under way | `x402Fetch`, `streamPaid`, `invokeWithAuth` | several payments share one signer; transactions time out while nodes lag |
| MCP server | `packages/mcp/src` | one session per seller | `reinkey_call`, `reinkey_stream` | tools run concurrently and share a channel |
| x402 endpoints, catalogue, revenue | `backend/src/x402`, `discovery`, `sellers` | counters per resource | `verify`, `settle`, reports | counters written without being waited for |
| event ledger, statistics | `audit/events.service.ts`, `stats.service.ts` | next id, recent and pending events, the batch in flight, counters | `emit`, `flush`, start, shutdown | batches refused or unheard, ids after a restart |
| event stream, dashboard | `audit/events.controller.ts`, `app.mandate/lib/useFeed.ts`, `lib/store.ts` | open connections, ids seen, the reducer's lists | `stream`, `push`, snapshots, polls | reconnections replay, answers out of order |
| receipts | `audit/receipts.service.ts`, `receipt.ts` | pending receipts, writes in flight | `issue`, `flush`, `get`, `attest`, `verify` | flushes overlap, write-once across an await |
| chain reports, agents' panel | `audit/report.controller.ts`, `demo/controls.module.ts` | reported transactions, agent processes | `report`, start, exit | once, in a limited set; late output of an earlier run |
| readings of the chain | `price.service.ts`, `float.service.ts`, `frozen.registry.ts`, `dex.service.ts` | small caches | reads, preview | staleness |
| web console | `app.mandate` | account view, forms, wallet, workspaces | saves, connections, navigation | answers to requests of an earlier place or wallet |
| landing page | `landing-page/components/landing/Playground.tsx` | an imitation of the product | clicks and timers | keeping to the rules of what it imitates |

How they interact: a seller (an external server with `packages/meter`, or a
demo endpoint in the facilitator's process) passes a voucher to the verifier;
the verifier decides on the cached channel and marks it dirty; a timer flushes
dirty rows; the watcher changes cached channels by contract events; the claim
scheduler reads cached channels and sends transactions, whose events come back
through the watcher. A stream adds a session in which vouchers sent by the buyer
to the facilitator wake the seller's pending wait. What happens is emitted as
events, kept in the ledger and streamed to the console, which also polls
snapshots. Accounts that were handed over to the credit pool pay for channels
out of a line of credit.

What makes each part correct: the contract pays out exactly what was put in and
only what was signed; an agent gets no more out of an account than its policy
allows, and only where it allows; the pool's books balance, and rounding never
takes from the holders of shares; the facilitator accepts only what it can claim,
serves no voucher twice, keeps what it accepted over a restart and gets it paid
before the payer can close; a stream delivers no unpaid slice, charges no
undelivered slice but one, and ends for everybody; the audit trail skips and
repeats nothing; what a page shows ends up true, and a form does what its owner
saw.

## 2. Modules

| module | models | composed with |
|---|---|---|
| `EscrowChannel` | what a channel promises: two balances, and an end | |
| `ChannelContract` | the contract, the vouchers ever signed, its event | implements `EscrowChannel` (`ImplementsEscrow`) |
| `Facilitator` | cache, database, watcher, verifier, claim scheduler | `INSTANCE ChannelContract` as the chain |
| `PaidStreams` | sessions, the loops of sellers and buyer on one channel | a verdict of the verifier on a cached channel |
| `ReinkeyAccount` | smart accounts: owner, agent with its policy, controller | |
| `DexPreview` | the verdict of the DEX preview beside the account's own | extends `ReinkeyAccount` |
| `OrderBook` | the order book computed from a pair that is traded with | |
| `CreditPool` | the pool: shares, lines of credit, liquidation, prices | `INSTANCE ReinkeyAccount` as the accounts it lends to |
| `ChainReadings` | price, pool summary and freeze, read and remembered; the freeze panel | |
| `EventLedger` | ids, batches and counters of the events | |
| `EventFeed` | the event stream and one dashboard | extends `EventLedger` |
| `Receipts` | receipts in memory, in flight and in the table; their requests | |
| `Gateway` | one paid request at either meter, both ways to pay, the receipt | |
| `Sales` | the revenue report and the counters of the catalogue | |
| `Desk` | agent processes, and reports of transactions | |
| `Reports` | what both of them promise to those outside | extends `Sales`, `Desk` |
| `PaidCalls` | concurrent calls and streams of one assistant with one seller | |
| `Submission` | how operations get on chain: SDK, facilitator, console | |
| `Console` | snapshots, event stream, counters and account in the browser | |
| `Board` | the lists, steps and pages the console makes of the events | |
| `Wallet` | the wallet of the console | used by `Owner`, `Workspaces` |
| `Owner` | the forms that change, freeze and create accounts | extends `Wallet` |
| `Workspaces` | profiles, navigation, another tab | extends `Wallet` |
| `Playground` | the landing page's imitation of the product | |
| `Sums` | lemmas about sums over finite sets | |
| `ChannelContractProofs`, `ReinkeyAccountProofs`, `CreditPoolProofs`, `FacilitatorProofs`, `ClientProofs`, `AuditProofs`, `PaymentProofs` | theorems (section 4) | extend the modules they are about |
| `MCChannelContract`, `MCFacilitator`, `MCBackend`, `MCPaidStreams`, `MCReinkeyAccount`, `MCCreditPool`, `MCAudit`, `MCClients` | the sets TLC uses; those that extend several modules explore each with the others at rest, since they share no state | |

An operator named `X_what` before `X` is a plausible bug in `X`, used as a mutant.

**ChannelContract.** `channels`, `next_id` and the token balances are the
contract's storage and the token's. One action per function; a panic is a
disabled action, since it changes nothing. A voucher is the pair of the key and
`voucher_hash`, of which only what the hash tells apart is kept (deployment,
channel, total); the codec's bytes are not modelled. `signed` is a ghost: every
voucher that was ever signed. `event` is the event published by the last step.

**Facilitator.** `cache` is `ChannelStore.map`, `db` the Postgres rows,
`loading` the memoised loads, `flushes` the transactions in flight, `wledger`
and `cursor` the watcher's, `poll` the poll in progress with the events of its
page that are left, `claims` the claims in flight (one queue, as in
`StellarChain.claim`), `tick` the claim loop, `mempool` the transactions sent,
`own`, `suppressed` and `published` what decides who announces a claim. Every
`await` of the code separates two actions; what the code does between two awaits
is one action, because Node runs it alone. The chain (`ChannelContract`) moves in
between; `log` is the sequence of its events with their ledgers. `served` and
`highest` are ghosts: what was served for, the highest voucher accepted.

**PaidStreams.** `session` is a session, `seller` the loop of `PaidStream` or of
a demo endpoint, `buyer` the loop of `streamPaid`, `sse` the events under way,
`signer` the shared `ChannelSigner`, `call` a call by `x402Fetch` on the same
channel. `sold` and `called` are ghosts: value accepted. A request of an external
seller, its handling and its answer are separate steps, and each may be lost
(`Lossy`). The amounts are in slices: `SliceCost` and `CallPrice` are 1.

**ReinkeyAccount.** `policy`, `spent`, `frozen` and `controller` are the
contract's storage, per account; `balance` is what the tokens hold. An
authorisation is a sequence of calls, as `__check_auth` gets them: swaps, token
transfers, `open`, `top_up`, anything else. `AgentCalls` checks the whole
sequence and then carries out any of its transfers, since the contract that was
called decides which of them happen. `IsSwapInput` says of a transfer what the
two passes of `check_contexts` and the list of `matches_expected` compute: it is
covered unless the equal transfers before it have used up the swaps that expect
it. `left` (what left, counted where it leaves) and `by` (who authorised the
last step) are ghosts.

**CreditPool.** One action per function of the contract, each with the calls to
the account it makes (`EndLine`: freeze, recall). The accounts run on between
them (`AccountStep`). Amounts are integers and are rounded as in the code.
`quotes` are the converted prices of the two sources, `NoPrice` where a source
has none or is stale.

**EventLedger, EventFeed.** `nextId`, `recent`, `pending` are the fields of
`EventsService`, `batch` the rows of the `createMany` in flight (`flushing`),
`Event` the table, `vouchersAccepted` one counter of `StatsService`. A write ends
answered, refused, or unheard: committed, with the answer lost. The table's
primary key is what refuses a batch that is there already (`Insertable`). `wire`
is what the server wrote to the open connection, `seen` the dashboard's set of
ids. `emit`, the statistics and the connection are one step, because the Subject
calls its subscribers in it. `log` and `shown` are ghosts.

**Receipts.** `queue` is `pending`, `flights` the calls of `flush` at their await
with their batches (they do not wait for one another), `Receipt` the table,
`calls` the requests to get and to attest. `attest` is three steps: the flush
that `get` awaits, the read with the checks, the update. `now` is both the
process's and the database's clock: a receipt has the ts of its signature, a row
the time of its insert.

**The clients.** In `PaidCalls`, `Submission`, `Console`, `Owner` and
`Workspaces` a step is again what runs between two awaits, and an answer may come
late, or not at all, after the program has moved on. `Submission` has the
transactions of three accounts that pay for them, with sequence numbers, the time
that bounds a transaction and nodes that lag behind the ledger. `Console` takes
`EventFeed` and `Facilitator` reduced to a log with the state it tells of.
`Playground` is checked as an implementation of the rules of account, channel
and facilitator (`PlaygroundIsTheProduct`).

## 3. Runs

`pass` runs:

| run | question |
|---|---|
| `contract` | two channels over one balance: solvency, claims backed by vouchers, events that tell the state, the escrow implemented, the payer gets the rest back after expiry and grace |
| `account` | what an agent can get out of an account in a day, whom it can pay, who governs an account after the hand-over; whether the preview says what the contract will say; the order book of a moving pair |
| `pool` | books, share price, control over lines and who gets the credit, over trades, profits, losses and prices; beside it how old the backend's readings of the chain can be |
| `facilitator_race` | loads, vouchers, events, claims and other claimers interleaved, RPC calls failing: what was accepted stays claimable and is served once, the cursor means what it says, a claim is announced once, nothing is served after an observed close; beside it the gate before paid resources, revenue and agents' reports |
| `facilitator_persist` | what Postgres holds, and what claims ask for, over failed writes, two crashes or shutdowns, a claim by hand and claims by others |
| `facilitator_timed` | the payer's close takes back nothing that was accepted |
| `facilitator_live` | closes are noticed, accepted value is paid |
| `streams` | two shops and a demo stream on one channel with a call, over a lossy network: slices, vouchers, waits and totals stay together, and every session ends |
| `audit` | the event ledger skips and repeats nothing, the counters agree with it, the feed shows everything once, receipts get written and attestations stay: over refused and unheard writes, crashes, shutdowns and reconnections |
| `clients` | calls and streams of an assistant add up; no operation is applied twice or reported wrongly; what the console shows ends up true; the playground follows the product's rules; forms and workspaces do what their user saw; the live page tells each event once and in order |

`violation` runs, each one a disagreement of the code with what its documents or
comments say (quoted in `PROJECT.json`, `findings`):

| run | what happens |
|---|---|
| `receipts_verify` | the signed ts is not stored and `toReceipt` returns `createdAt` instead: a stored receipt does not verify unless it was written in the tick it was signed |
| `receipts_attest` | two attestations of a receipt read it before either writes: the second overwrites the first |

Several properties have parts that the modules name: `AcceptedIsClaimable` is
`AcceptedCanBeClaimed` and `NothingServedTwice`; `CacheFollowsChain` is
`NeverAheadOfChain` (with the module's type invariant) and `CursorMeansApplied`;
`AcceptedIsKept` is `QuietMeansSaved` and `ClaimsCoverAccepted`;
`AcceptedEventuallyPaid` contains `ClosedIsNoticed`; `ChargedIsSold` contains
`NobodyHangs`; `ReportsHold` joins `ToldOnce` and `SalesAddUp`; `ReportedIsTrue`
contains `QueueAvoidsCollisions`; `PagesShowWhatIs` joins `BoardIsTrue`,
`StepsStay` and those of `Workspaces`. The type invariants of `ChannelContract` and
`ReinkeyAccount` are parts of those of `Facilitator` and `CreditPool`. Each property
of a pass run has a mutant in `PROJECT.json`: the plausible bug that makes TLC
report that property.

### Bounds, and why they are enough

- `contract`: two channel ids, one token, one voucher key and one deployment,
  small deposits with a top-up, expiries of which one saturates with the grace.
  Two channels are what one balance needs to be mixed up; any number of them,
  other keys and other deployments are covered by the proofs.
- `account`: one account, two tokens, three policies (with and without a DEX, for
  different tokens and keys), two days of two ledgers. The trees of calls are
  every call alone, every call under a root, and two transfers under a swap, which
  is what it takes to use one swap twice. Orders of 0, 1 and 3 in the order book;
  reserves up to `MaxReserve`. Any number of accounts, policies and calls is
  covered by the proofs.
- `pool`: one account, a limit of two units, three units of USDC and two of XLM at
  prices of 0.5 and 1.0, at most four shares (`MaxShares`) for two holders. That
  is enough for shares to be worth more and less than a unit and for every
  division to round. The readings run for six ticks (`MaxClock`) with two readers
  and two changes of the chain (`MaxWorld`).
- `facilitator_*`: one channel (`MaxId = 1`): the facilitator's parts share nothing
  between channels but the claim queue, the rate window map and the flush batch.
  Totals 1 to 2, so that a voucher can be newer or older than a claim; ledgers
  as many as the expiry and margins of the run need. `MaxFlushes` transactions in
  flight, `MaxManual` manual claims, `MaxCrashes` restarts, `MaxEvents` contract
  events; `PageLimit` stands for the page of 500. `facilitator_persist` has one
  ledger, since nothing it asks depends on the expiry, and claims by hand (the
  threshold of the tick is out of reach). `facilitator_timed` has no manual claims:
  one that hangs makes every tick skip its channel, and the payer's close may then
  come first. In `facilitator_race` three payments, three reports and three
  requests of which two are made, are what the services beside it need to
  overlap.
- `streams`: slices of two units and a deposit that pays two slices, one call, one
  session per channel, one event the buyer has not read (`MaxUnread`). Two units
  in a slice tell the middle of a slice from its end.
- `audit`: three events of three types (counted, other, transient), of which one
  is kept as recent and two ids are remembered: one emission more than either
  holds. One stop, one unheard commit, two connections. Two receipts, one kept
  after a failure, so that one is dropped; two writes in flight and two requests,
  of which one may attest, so that a flush of a request and of the timer overlap.
  Refused writes are not bounded. The `receipts_*` runs need no stops and no
  failures, and `receipts_attest` lets both requests attest.
- `clients`: two calls and a stream over a deposit of two or three prices; six
  operations over three paying accounts, each with one competitor (`MaxOthers`)
  and three ticks; three events, a reload and a clear in the console; two saves, one
  change by somebody else and two polls of the owner's forms; two visits and one
  step of another tab. Each is one more than what a single actor does, so that every
  pair of them overlaps.
- `CHECK_DEADLOCK FALSE`: counters are capped, and when all are used up, all
  channels closed or all streams over, the systems stop.

### Time and fairness

Ledgers close when they like, except in `facilitator_timed`, which assumes that
a poll and a tick complete between two ledgers (5 s polls, claim ticks of 30 s
with margins of 120 and 60 ledgers of about 5 s) and that no RPC call fails.
There `CloseGrace`, `claimExpiryMarginLedgers` and `voucherExpirySafetyLedgers`
keep the order of the configured values. The property is about these assumptions,
not about the numbers.

`facilitator_live` assumes that what the process starts by timer is started
again and again, that a load or a poll which is asked again and again is
answered once, and that a claim sent again and again is applied once (strong
fairness of those steps, since failures interrupt them). `streams` assumes
only timers of the facilitator's process and its own demo loops: buyers, external
sellers and their requests may stop or get lost anywhere. Its `SessionsEnd` says
that a session ends unless its seller asks for the next slice again and again,
which a shop that retries a failing wait may do. `audit` assumes that the flush
timers keep firing, that a stopped process exits and is started again, and that a
write tried again and again is answered once (strong fairness, since refusals
interrupt it); nothing is assumed of requests and connections. `contract` assumes
that ledgers close and that a payer who may close does. The other runs assume no
fairness: nothing in them has to happen.

## 4. Proofs

TLAPS proves the following for every value of the constants that satisfies the
assumptions named in the modules, so for any number of channels, accounts, calls,
events and parties. The arguments are inductive invariants with one lemma per
action or group of actions; each theorem is listed in `PROJECT.json`.

**Sums.** Solvency, the caps of the accounts and the books of the pool are sums
over channels, calls and accounts, written with the sums of the community modules,
whose recursive function is a CHOOSE. The library's induction theorems take an
operator as a parameter, which the provers cannot instantiate, so each lemma of
`Sums` is an induction by a smallest exception: strict inclusion of the subsets of a
finite set is well founded (`FS_StrictSubsetOrderingWellFounded`), a smallest set for
which the formula fails exists, and taking out the element that the sum picks
first leads to a contradiction. First that a table of sums exists (`SumsExist`),
then that any element may be taken out first, and from there `SumChanges` (a change
of one value), `SumOfSame`, `SumOfPart`, `SumIsNat`, `SumInto`.

**ChannelContractProofs.**

- `TypeCorrect`: `Spec => []TypeOK`, and the ids of channels are those below
  `next_id`.
- `ClaimsBacked`: `Spec => []ClaimsAreBacked`. It needs that whatever verifies was
  signed (unforgeability is how `signed` is used) and that an unused id has no
  channel.
- `ClosedForGood`: `Spec => SettledIsFinal`.
- `AlwaysSolvent`: `Spec => []Solvency`. Inductive with the types: what the contract
  holds of an asset is at least the sum of what the open channels of that asset
  still owe; a step changes one channel and one balance, so `SumChanges` settles it.
- `IsAnEscrow`: `Spec => ImplementsEscrow`. The initial state maps to the initial
  state of `EscrowChannel`, and every step to a step of it or a stutter.
- `EventsSuffice`: `Spec => EventsTellTheState`.

**ReinkeyAccountProofs.**

- `TypeCorrect`, `AlwaysGoverned` (policy, freeze and controller are functions on
  the accounts), `HandedOverForGood`: `Spec => HandOverIsFinal`.
- `OutflowsAreAllowed`: `Spec => OutflowIsAllowed`. Who can lower a balance
  (`WhoSpends`), and whom an allowed transfer may pay (`AllowedReceivers`).
- `DailyCapHolds`: `Spec => DayCapHolds`, for every authorisation of finitely many
  calls. What really leaves is compared with what the check counts: a transfer of
  the capped asset that the check leaves out is the input of a swap, equal transfers
  use different swaps (`SwapsCoverOne`: the count of equal earlier transfers numbers
  the swaps that expect them), and each such swap is counted with the same amount
  (`SumInto`). The invariant that ties the ghost to the storage: what left today is
  at most what was spent today.
- `PreviewTellsTheTruth`: `Spec => []VerdictAgrees`. What the preview suggests is one
  swap and the transfer of its input, so `check_contexts` passes it when it passes the
  swap (`SuggestedChecks`), and it counts towards the caps as much as the preview
  counts (`SuggestedOutflow`). What remains is the day: the contract compares it only
  for an outflow, the preview always. Besides the types it needs that quoted amounts
  and ledgers are unsigned, and that the factory knows pairs of assets only.

**CreditPoolProofs.**

The pool composes `ReinkeyAccount`, so its proofs use those of the accounts:
`Proved == INSTANCE ReinkeyAccountProofs`, and the `Same...` lemmas show that a step of
an account inside the pool is a step of the instance. `AccountsAreSound` restates
what `ReinkeyAccount` assumes of its constants, for the same reason.

- `LinesStayControlled`: `Spec => []LinesAreControlled`, over the composition of the
  pool with any number of accounts. Inductive with the shapes of the variables: an
  account that its owner or another controller can still govern has no line
  (`OthersGovernNoLine`), a line is opened only after the account's controller was
  read, and the end of a line freezes the account. It needs that the pool is not
  itself an account (`PoolIsAController`).
- `BooksAlwaysBalance`: `Spec => []BooksBalance`. Inductive as it stands, since it
  includes the types: each operation changes one or two shares, or one debt, and
  `SumChanges` carries that to the total. `AfterMoves` says what a transfer of
  tokens does to each balance; the lines that end use it two and three times
  (`LiquidateMoves`, `CloseLineMoves`). That a debt never exceeds the total
  (`SumBoundsEach`) keeps `totalDebt` from going below zero.
- `HoldersLoseNothing`: `Spec => SharePriceHolds`, from the books before and after
  a step. One lemma per operation: shares minted and tokens redeemed are rounded
  down (`MintingIsFair`, `RedeemingIsFair`); a loan moves what it adds to the debt; the
  end of a line brings in the debt, or all the account is worth and writes off the
  rest. Rounding of the XLM held may only gain (`WorthAdds`: two amounts are worth
  no more apart than together).
- `CreditNeverEscapes`: `Spec => CreditStaysInside`, from the books and the control
  of lines. An account under the pool loses tokens between the pool's calls only by
  its own agent (`AgentPays`, from `StepIsAllowed` of the accounts), and by a call of
  the pool only when its own line ends; a transfer takes from one address and gives
  to one (`OneLosesOneGains`).

Assumptions of `CreditPool`: the pool is a controller and none of the payers, USDC
and XLM differ, rates and quoted prices are natural numbers, holders and accounts are
finitely many, and the pool does not invest in itself.

**FacilitatorProofs.** The facilitator and its chain, any number of channels,
vouchers, claims, loads and flushes. `Typed` are the types of all variables, with
what `up = FALSE` empties. `Fits` is the invariant that carries the rest: every copy
of a channel, wherever it is (cache, a load that was answered, a row of Postgres, a
batch in flight), was read from the chain at some time, so that deposit and claimed
total are no greater than the chain's, the voucher it keeps was signed and covers
what was accepted, and a closed copy means a closed channel; a transaction in the
mempool or in a claim asks for what its row had accepted; an event in the log is
no newer than the chain. It has one lemma per group of actions (`TypedStep`,
`FitsStep`), and uses `TypeStep`, `ClaimsBacked`'s lemma and the others of the
contract through `INSTANCE ChannelContractProofs`.

- `NeverLeads`: `Spec => []NeverAheadOfChain`.
- `CanBeClaimed`: `Spec => []AcceptedCanBeClaimed`.
- `ClaimsAreCovered`: `Spec => []ClaimsCoverAccepted`, from `CoveredByRow`: a claim
  asks for no more than its row had accepted last, and counts no more vouchers as
  covered than the row has since its claim before.
- `AlwaysPublishedOnce`: `Spec => []PublishedOnce`. `PublishTyped` and `OncePerTx`
  follow a transaction from `claim()` to the watcher: which of `own`, `suppressed`,
  `published` and `seen` may hold of it together.
- `KeptWithoutOverlap`, `ForwardWithoutOverlap`: `[]AcceptedIsKept` and
  `RowsMoveForward`, for `MaxFlushes <= 1`. With two flushes in flight both are false
  (section 6): the premise is the part of the hazard that the code leaves open, and
  holds as long as a transaction takes less than the 250 ms between two flushes.
- `ServedIsClaimable`: `[]AcceptedIsClaimable`, for `MaxCrashes = 0`: its second half
  counts what was served since the process started, and is false over a crash
  within the flush interval (section 6).
- `FollowsChain`, `ClosedIsNotServed`: `[]CacheFollowsChain` and
  `NotServedAfterClose`, for `MaxCrashes = 0` and behaviours with `[]OnePage`: what
  happened on the chain since the cursor never exceeds a page of `getEvents`. The
  invariant: the log is in the order of its ledgers and tops up in ascending order
  (`LogInOrder`); what the watcher has seen is a prefix of it, all of it below the
  cursor, but for the page in hand (`SeenInOrder`); and what it has dealt with shows
  in the row, in an answered load, and not in a load that found nothing
  (`PassedIsShown`). The last part is what makes the marking of an event before its
  load safe.

Assumptions of `Facilitator` (`FacilitatorAssumption`): the contract's own address
is no party, amounts are integers, and the bounds are natural numbers.

**ClientProofs.** Those who deal with the facilitator: streams, operations to submit
and the forms of an owner. Of streams any number on one channel, any price, slice and
deposit (`StreamsAssumption` is the only hypothesis). The invariant has the types
(`Typed`), which states of the buyer, the seller and the session of a stream go
together (`Control`), and `Slices`: what a session counts is paid (`Covered`), nobody
asks for more than a slice beyond what was accepted last (`Priced`), and the units
told, the units paid and the voucher in the request are in step (`InStep`). A step
is the step of one stream; the others keep what they have (`OthersKeep`) while
`lastAccepted` may grow under them, which `Slices` survives (`SameSlices`).

- `AlwaysChargedAsSold`: `Spec => []ChargedIsSold`.
- `AlwaysSliceBySlice`: `Spec => []PaidSliceBySlice`.
- `AlwaysReportedTruly`: `SubSpec => []ReportedIsTrue`, for any operations. Every step
  of a submission is one of five effects on one operation (`Begins`, `Prepares`, `Retries`, `Sending`,
  `Ending`), so the invariant is kept once per effect: operations wait in their
  account's line (`InLine`, `InTurn`), a transaction is in the network once and under
  the sequence number it was built for (`SentOnce`, `Counted`), one that is over can no
  longer be applied (`OverIsOver`), and who was told of success was applied
  (`AppliedRightly`).
- `OwnerAlwaysObeyed`: `OwnerSpec => OwnerIsObeyed`, that a form which is up to date
  changes what its owner edited and nothing else, and that no secret of an agent is lost
  but by an error. An account carries the forms that wrote to it, and whoever writes to
  it makes what was read shorter than what there is (`ReadsRight`). So a form says the
  truth about what its owner did not edit as long as nobody but itself has written since
  it appeared (`FormRight`): its own writes are what it says, and a write of an earlier
  form has another number (`OwnedTyped`, `RunRight`). What was edited is never forgotten
  (`EarlierForm`), so a run that is sent from a reading which is still the last one obeys
  (`RunsRight`), and the term it computes later only grows. An account that is not there
  yet has one creation (`CreationsRight`). `NothingAssumption` says that null is no
  account.

**AuditProofs.** Any events, any size of a batch and of the queue.

- `FeedTypeCorrect`: `FeedSpec => []FeedTypeOK`.
- `AlwaysWhole`: `FeedSpec => []LedgerIsWhole`, which `LedgerInv` makes inductive: ids
  ascend along table, batch and queue, the next id is above them all, and a process
  that is down keeps the table only (`InOrder`). Ids are what decides: the batch a
  flush inserts either has none of its rows in the table, or came back although it
  was committed, and is then the end of the table and the beginning of the queue.
- `AttestedForGood`: `ReceiptsSpec => AttestedOnce`, if no two attestations are ever in
  progress together (at most one element in `Attesters`). With two the property is
  false: that is the finding of run `attest`, and the theorem says that nothing else
  is needed for it.
- `ReportsAlwaysHold`: `DeskSpec /\ SalesSpec => []ReportsHold`. Of the transactions
  (`ToldInv`): what was told is remembered or was forgotten, and is told again only in
  the latter case; of the agents (`RunsInv`): a run that is over had its end told. Of
  the sales (`SalesInv`): rows, batch and queue together say what was accepted and
  claimed, every transaction of a claim counted once (`BooksKept`), so that what a
  query sums up over the rows is no more, and no less than when it was asked for if
  its flush wrote all there was (`ReportRight`); the row of an address counts its
  owner's payments but for those whose statement has not run or failed (`EntryRight`).
- `BookAlwaysFair`: `BookSpec /\ []Priced => BookIsFair`, for every fee, number and size
  of levels, reserves and swaps. From every first guess, one step of Newton's
  iteration is at the root or above, and further steps descend to it (`NewtonGoesDown`,
  `RootIsExact`), so less is held at a higher price and every level fits the curve.
  `Priced` says that the lowest price of the book is a unit at least: with so few USDC
  against the XLM that it rounds to 0, the division by the price in `xAt`
  (`price.service.ts`) has no result.

**PaymentProofs.** Any requests at the gate, any calls and streams of an assistant, any
events the console is told of; any prices, deposits, losses and expiry times.

- `AlwaysAsOffered`: `GatewaySpec => []PaidAsOffered`. `GatewayInv` has the types; of
  each request how far it is (`Stage`), what it has paid (`Paying`) and what was sent
  and attested (`Bodies`); and of the channel that the signed totals tile it: each total
  stands for the interval (total - price, total], no two of which overlap (`Tiled`), so
  what was accepted up to a total is the sum of the payments up to there
  (`SumsAreTotals`, `FromBounds`), and a refused total was overtaken or never enough
  (`ToldRightly`). There may be infinitely many requests, finitely many have signed.
- `CallsAlwaysAddUp`: `CallsSpec => []CallsAddUp`. A voucher on its way carries what its
  use had signed (`WiresRight`), what was sold and what was accepted and not served yet
  is within what was accepted (`Covered`), reports are sums of what was signed
  (`ReportsSigned`), and a use that no other overlapped stands alone on its channel
  with the latest total (`Alone`, `Unhindered`, `LatestKept`).
- `ShownAlwaysTrue`: `ConsoleSpec => []ShownIsTrue`. Each state of the server follows the
  events up to it (`Follows`), and of a batch of events what the reducer makes of it is
  known (`BatchApplied`, on `FoldLeft`, whose recursion is a CHOOSE too). The stream
  has delivered everything but a beginning (`Delivered`); a change that was delivered
  is in the buffer, asked for, shown by an answer, or counted as missed
  (`ChangesCovered`), and so is a payment, or it is shown (`PaymentsCovered`); and but
  for payments the view is that of the last answer, unless more is on its way
  (`ViewRight`). That holds although an event tells only a difference: what was opened
  comes first and with all that follows in one batch (`OpeningFirst`). For the counters,
  answer, stream and buffer add up to what was delivered (`CountRight`); a cut only
  moves forward (`CutRight`). `NoneAssumption` says that null is no record.

**What the backend reads** (`AlwaysFresh`, in `CreditPoolProofs`): `ReadingsSpec =>
[]ReadingsAreFresh`. A version is in force at a time if it was the latest one then or
later (`InForce`), which no change of the chain undoes. Every value kept was in force
when its reading began, and a reading under way began no longer ago than `Latency`;
who waits for a quote has asked since then. The registry is either read again or not
older than its interval and a tick (`RegistryInv`), and in the queue of freezes only
the first may be on the chain (`QueueInv`).

Only model-checked: everything about liveness (`PayerRecovers`,
`AcceptedEventuallyPaid`, `SessionsEnd`, `WrittenForGood`), which the prover's temporal
backend does not reach under fairness; `PayerCloseLosesNothing`, which depends on a
schedule; `ShownOnce`, which counts the ids pushed between two showings of an event;
and the properties of `Board`, `Workspaces` and `Playground` (section 7).

## 5. Not modelled

- Cryptography and encodings, beyond what a signature binds.
- Storage lifetimes (TTL) and `i128` overflow in the contracts; nonces and expiry of
  signatures of accounts, which are the host's; the admin's review of a policy
  before a loan. Prices move as they like; oracle and pair are external.
- Filters, limits per address and the cut of the event stream; the other counters
  of the statistics and their latency window; listings of the catalogue.
- `MAX_TOTAL` of stream sessions (the same check as the limit per channel), the
  rate windows of HTTP by address, wall-clock cooldowns of manual claims (bounded
  by `MaxManual`). What the demo sellers send, quotes and texts, is a piece.
- The read-only tools of the MCP server, what agents decide, scripts, views that
  only present the state of the other parts, parsing of settings.
- Several channels at once in the facilitator's runs; the proofs cover them.

## 6. Behaviour worth knowing

The models also have the following behaviour, outside the bounds or the properties
of the runs: each was met while modelling, and none is claimed to be wrong unless
section 3 lists it.

Facilitator:

- With a restart `NotServedAfterClose` fails: a channel closed while the process
  was down is restored from its row and served; the comment at
  `chain.watcher.ts:40` counts on the first voucher to read the chain, and
  `docs/BACKEND.md:737` admits that events are not recovered. Events between the
  last poll and a restart are lost (`stellar.chain.ts:468`), and an event of the
  last ledger may be published again.
- With a restart `NothingServedTwice` fails too: a crash within the 250 ms of the
  flush interval forgets an accepted voucher, which is then accepted again
  (`channel.cache.ts:209`; `backend/NOTES-FOR-HAT1.md:35` admits it).
- With two flushes in flight (`MaxFlushes = 2`) `QuietMeansSaved` fails: the timer
  does not wait for the flush before (`channel.cache.ts:72`), and an older row may
  be committed last.
- With more events than a page `CursorMeansApplied` fails: the cursor moves to the
  latest ledger whatever the page left out.
- A manual claim that hangs makes every tick skip its channel, so the payer's close
  may come before the claim.
- A claim seen while another claim of the channel is in flight, or whose own
  `claim()` ends without a result, stays suppressed and is never announced; one
  whose transaction failed is announced too.

Streams and payments:

- An external shop asks again for a total that another payment has made stale
  (`packages/meter/src/stream.ts:79`): the buyer refuses, the stream ends, no
  wrong amount is paid.
- The voucher of the last slice the deposit pays may overtake the wait for it:
  `wait` then answers "exhausted" before it looks at `prepaid`
  (`streams.controller.ts:194`), and the paid slice is kept back.
- For a stream that ends without a done event, `consume` sets `charged` to the
  channel's total (`packages/sdk/src/x402.ts:300`): after anything else was paid
  on the channel, `streamPaid()` reports more than the stream cost.
- A voucher whose request was refused, or whose answer was lost, is paid with the
  next one (`x402.ts:78`). `x402Fetch` on a resource that is sold by the token signs
  only the unit price.
- The MCP server keeps one channel per seller (`sessions`, `mcp/src/index.ts:104-128`):
  a use that needs more than the deposit has left, or two uses at once, open a second
  one, and what the first still holds is left behind until somebody closes it.
  `OnlyOverlapHurts` says so; an earlier form of it, which blamed overlaps only, held
  within the bounds of the run but not beyond.
- A 2xx answer of `/settle` without `success: false` counts as settled
  (`facilitator.ts:227`); `ExactVerifier` is disabled (`exact.verifier.ts:12`).
- `backend/src/x402/meter.ts:276` calls `next()` inside its try block, which a comment
  in `packages/meter/src/meter.ts:306` warns of. A bare `Uint8Array` that a handler
  writes is not part of the attested hash (`meter.ts:209-212`).

Audit:

- An event batch that was committed with its answer lost is inserted again
  without `skipDuplicates` (`events.service.ts:159`): it is refused, with whatever
  is queued behind it, until the process restarts (`Wedged`, which the liveness part
  of `WrittenForGood` leaves out). Receipts survive the same.
- A shutdown while a batch is in flight joins that flush and does not write what
  was queued behind it (`events.service.ts:155`).
- Ids of transient and of lost events are given again after a restart: an open
  dashboard drops the new event under an old id. `ShownOnce` needs room in `MAX_SEEN`
  for the events that are replayed and for all that never will be: transient ones,
  and those a crash lost, whether or not this dashboard was shown them, since the
  replay after the restart reaches further back by as many. Room for those it was
  shown is not enough: with RECENT = 2, MAX_SEEN = 2, five events, one crash and three
  connections the feed by itself shows an event twice. As stated the property was
  also explored on the feed by itself up to seven events, two stops and four
  connections. More than 200 events missed while disconnected are lost to the
  dashboard.
- `get` right after a flush took the receipt finds neither row nor queue
  (`receipts.service.ts:172`): the attestation that a seller sends once, without
  retry, is answered NOT_FOUND. Receipt batches that fail out of order are put back
  out of order, and the limit may then drop a newer receipt before an older one.
- A revenue report that flushes during another flush misses its events, and claims
  without a transaction are not counted. Only `POST /verify`, not the meter inside the
  backend, writes the counter of the catalogue.
- `ReportController` remembers what it told in memory only.

Contracts:

- A channel whose expiry is within the grace of `u32::MAX` can never be closed by
  its payer, since the sum saturates; `PayerRecovers` leaves it out.
- A deposit into a pool that has shares and no assets is minted one to one, and
  part of its value goes to the holders of the worthless shares
  (`SharePriceHolds` protects holders, not the newcomer).
- The XLM that a liquidation brings into the pool is counted in the share price,
  but no function of the contract pays it out or sells it.
- An account whose line was closed stays frozen, and neither the pool nor anyone
  else can unfreeze it or change its policy: a line opened on it again can only
  be closed again.
- The agent of an account may open channels but not close them, and after the
  hand-over nobody can authorise `close` for the account: only the payee's close
  brings a deposit back.

Readings and previews:

- `VerdictAgrees` leaves out a sale of another asset after the day's cap is spent, which
  only the preview refuses (`dex.service.ts:109`, `lib.rs:266`), policies whose cap per
  transaction is below zero, and accounts without a router, where there is nothing to
  call. `PriceService` dates a price from before its
  await (`price.service.ts:91`, `:109`; the comment at line 89 says otherwise), and the
  values of a pool summary are not of one moment.
- In `FrozenRegistry` a value set by the panel may be overwritten by an older reading
  in flight, the first call after a pause returns an arbitrarily old value, and an
  unknown account or a failed reading counts as not frozen.
- `accounts.controller.ts:34-46` answers a failed chain read as "not found", though
  `useFeed.ts:264` says the two are told apart. `packages/core/src/codes.ts` lacks
  some of the codes in use.

Console:

- `agent.log` after `agent.exited` sets an agent running until the next poll, and the
  end of an earlier run stops a later one, since nothing compares runs; a second
  run's log that arrives before the poll keeps the first run's lines
  (`store.ts:430`, `:482`).
- The comment at `pruneStreams` says that ended streams go first; the oldest by
  their start go, ended or not. Steps may become undone when many rejections push
  theirs out of the list. Loads of the ledger's pages are not cancelled: a late page
  of another account replaces the one shown, or is appended (`Timeline.tsx:150-160`).
- `PolicyEditor` keeps the values of its mount and overwrites later changes, and a
  save from a stale snapshot can revert an extension. `CreateAccount` loses the
  generated secret of the agent when the creation fails or the place of the form
  changes. A polling error is shown as a failure though the transaction may apply;
  TRY_AGAIN_LATER is polled for though it was never accepted.
- The silent restore of the wallet can set an address after a disconnect, and a
  failed connection drops a connected one (`wallet.ts:100`). A late connection opens
  the seller's page whatever was chosen meanwhile. `useWorkspaces` in two tabs
  overwrites the shared storage.

## 7. Plan

Done: the contracts with solvency, caps, refinement, books and the price of a share
proved; the facilitator's cache, watcher, claims and database, the paid streams, the
event ledger, the gate, calls and submissions, readings, previews and reports proved, and
what the console shows and what its forms do; its lists and places model-checked. Next:

1. `EventFeed`: `ShownOnce`, from the order of ids in `AuditProofs` and what is
   pushed between two showings.
2. `Workspaces`.
