------------------------------ MODULE Facilitator ------------------------------
(***************************************************************************)
(* The backend's channel module (backend/src/channel) in front of the      *)
(* channel contract: ChannelStore (channel.cache.ts), ChannelVerifier,     *)
(* ChainWatcher and ClaimService, with the chain, Postgres and the RPC     *)
(* node they talk to.  One Node.js process: code between two awaits is one *)
(* step; everything awaited is a step of its own and may interleave.       *)
(***************************************************************************)
EXTENDS Integers, Sequences, FiniteSets, SequencesExt

CONSTANTS  \* the contract's, see ChannelContract
    Parties, Self, Assets, Keys, Deployments, Here, Amounts, Cumulatives,
    Expiries, CloseGrace, MaxU32, Supply, MaxId, MaxLedger

CONSTANTS
    payTo,             \* ctx.payTo, the seller the vouchers are presented to
    usdcContractId,    \* cfg.usdcContractId
    Prices,            \* ctx.price of the metered routes
    voucherExpirySafetyLedgers,
    claimExpiryMarginLedgers,
    claimThreshold,
    manualClaimMin,
    rateLimitPerMinute,  \* 0 switches the limit off
    PageLimit,         \* events one getEvents answer holds (500 in the code)
    Freezable,         \* accounts the frozen registry may report
    RpcReliable,       \* TRUE: no RPC call fails and no transaction is lost
    Timely,            \* TRUE: polls and ticks keep pace with the ledgers
    MaxFlushes,        \* bound: overlapping flushes; 0 is a backend without Postgres
    MaxManual,         \* bound: manual claims
    MaxCrashes,        \* bound: crashes and restarts
    MaxEvents          \* bound: events up to which others use the contract

ASSUME FacilitatorAssumption ==
    /\ Self \notin Parties /\ Here \in Deployments
    /\ Amounts \subseteq Int /\ Cumulatives \subseteq Int
    /\ CloseGrace \in Nat /\ MaxU32 \in Nat /\ Supply \in Nat /\ MaxId \in Nat
    /\ Expiries \subseteq 0..MaxU32 /\ MaxLedger \in 0..MaxU32
    /\ PageLimit \in Nat /\ MaxFlushes \in Nat

VARIABLES ledger, channels, next_id, balance, signed, event   \* the chain
VARIABLES
    log,        \* all contract events; an index in log stands for a tx hash
    mempool     \* claim transactions sent and not yet applied; the process
                \* waits for the result of at most one

VARIABLES       \* the process
    up,         \* the process runs
    cache,      \* ChannelStore.channels
    loading,    \* ChannelStore.loading: getChannel calls in flight
    dirty,      \* ChannelStore.dirty
    flushes,    \* flush() calls whose transaction has not ended: their rows
    wledger,    \* ChainWatcher.ledger
    cursor,     \* ChainWatcher.cursor
    seen,       \* ChainWatcher.seen
    poll,       \* the poll in progress
    claims,     \* ClaimService.inFlight, with what claim() holds across its await
    tick,       \* the tick in progress
    tickDue,    \* the claim interval ran out and no tick has started since
    manual,     \* manual claims so far
    rate,       \* ChannelVerifier.rate: calls in the current minute
    frozen,     \* FrozenRegistry: accounts cached as frozen
    own,        \* ChannelStore.ownClaimTxs: claims published, not yet seen
    suppressed, \* ChannelStore.suppressedClaimTxs: seen, left to their claim()
    published   \* ghost: this process' channel.claimed events, by transaction and sender

VARIABLES
    db,         \* Postgres table channel
    crashes,    \* process starts so far
    served,     \* ghost: value of all deltas a receipt was returned for
    highest     \* ghost: highest cumulative ever accepted

chainVars == <<ledger, channels, next_id, balance, signed, event, log>>
storeVars == <<cache, loading, dirty>>
watchVars == <<wledger, cursor, seen, poll>>
claimVars == <<claims, tick, tickDue, manual>>
verifyVars == <<rate, frozen, served, highest>>
publishVars == <<own, suppressed, published>>
dbVars == <<flushes, db>>
facVars == <<mempool, up, storeVars, watchVars, claimVars, verifyVars, publishVars,
            dbVars, crashes>>
vars == <<chainVars, facVars>>

Chain == INSTANCE ChannelContract

Ids == 1..MaxId

Max2(a, b) == IF a > b THEN a ELSE b

(* lastSig = null                                                           *)
NoSig == [key |-> "none"]

(* The markers of loading, poll, claims and tick.                           *)
Idle == [at |-> "idle"]
Asked == [at |-> "asked"]

(* What getChannel reads from the contract.                                 *)
ChannelState(id) ==
    LET ch == channels[id] IN
    [payer |-> ch.payer, payee |-> ch.payee, asset |-> ch.asset,
     voucherKey |-> ch.voucher_key, expiryLedger |-> ch.expiry_ledger,
     deposit |-> ch.deposit, claimed |-> ch.claimed, open |-> ch.open]

Cached(id) == id \in DOMAIN cache

(* The row or cache of function f extended or overwritten at id.            *)
With(f, id, row) == [i \in DOMAIN f \cup {id} |-> IF i = id THEN row ELSE f[i]]

Empty == [i \in {} |-> 0]

(* ch.<field> = ... ; store.markDirty(id)                                   *)
Update(id, row) ==
    /\ cache' = With(cache, id, row)
    /\ dirty' = dirty \cup {id}

-----------------------------------------------------------------------------
(* ChannelStore                                                             *)

(* insert(): the first sight of a channel.                                  *)
insert(state) ==
    [payer |-> state.payer, payee |-> state.payee, asset |-> state.asset,
     voucherKey |-> state.voucherKey, expiryLedger |-> state.expiryLedger,
     deposit |-> state.deposit, claimed |-> state.claimed, open |-> state.open,
     lastAccepted |-> state.claimed, lastSig |-> NoSig, vouchersSinceClaim |-> 0]

(* get(id) of a channel that is not cached: one getChannel call, shared by
   all that ask meanwhile.  A request may name any id.                      *)
LoadAsks(id) ==
    /\ up /\ ~Cached(id)
    /\ loading[id] = Idle
    /\ loading' = [loading EXCEPT ![id] = Asked]
    /\ UNCHANGED <<chainVars, mempool, up, cache, dirty, watchVars, claimVars,
                   verifyVars, dbVars, crashes, publishVars>>

(* The loop over the events of a page, oldest first: what is left after one. *)
Others(events) == events \ {Min(events)}

(* The poll waits in applyChainEvent for this channel.                      *)
PollAwaits(id) == poll.at = "awaiting" /\ log[Min(poll.events)].id = id

(* applyChainEvent has returned: the poll turns to the next event.          *)
PollGoesOn ==
    /\ cursor' = Max2(cursor, log[Min(poll.events)].ledger)
    /\ poll' = [poll EXCEPT !.at = "applying", !.events = Others(@)]

(* The node answers from its current state: the channel or "not found".     *)
LoadAnswered(id) ==
    /\ loading[id] = Asked
    /\ loading' = [loading EXCEPT ![id] =
                      IF Chain!Found(id) THEN [at |-> "answered", state |-> ChannelState(id)]
                                         ELSE [at |-> "missing"]]
    /\ UNCHANGED <<chainVars, mempool, up, cache, dirty, watchVars, claimVars,
                   verifyVars, dbVars, crashes, publishVars>>

(* .then(insert): everybody who awaited the call now finds the channel.     *)
LoadInserts(id) ==
    /\ loading[id].at = "answered"
    /\ Update(id, insert(loading[id].state))
    /\ loading' = [loading EXCEPT ![id] = Idle]
    /\ UNCHANGED <<chainVars, mempool, up, watchVars, claimVars, verifyVars,
                   dbVars, crashes, publishVars>>

(* There was no such channel when the node answered: a watcher that awaits
   the call drops its event, even if the channel exists by now.             *)
LoadMisses(id) ==
    /\ loading[id].at = "missing"
    /\ loading' = [loading EXCEPT ![id] = Idle]
    /\ IF PollAwaits(id) THEN PollGoesOn ELSE UNCHANGED <<cursor, poll>>
    /\ UNCHANGED <<chainVars, mempool, up, cache, dirty, wledger, seen,
                   claimVars, verifyVars, dbVars, crashes, publishVars>>

(* The call fails.  A watcher that awaits it gives its poll up.             *)
LoadFails(id) ==
    /\ ~RpcReliable
    /\ loading[id] # Idle
    /\ loading' = [loading EXCEPT ![id] = Idle]
    /\ poll' = IF PollAwaits(id) THEN Idle ELSE poll
    /\ UNCHANGED <<chainVars, mempool, up, cache, dirty, wledger, cursor, seen,
                   claimVars, verifyVars, dbVars, crashes, publishVars>>

(* The upserts of flush().                                                  *)
Rows(ids) == [id \in ids |-> cache[id]]

(* flush(), every 250 ms and not serialised: the rows are built before the
   transaction is awaited.                                                  *)
FlushStarts ==
    /\ up
    /\ dirty # {}
    /\ Len(flushes) < MaxFlushes
    /\ flushes' = Append(flushes, Rows(dirty))
    /\ dirty' = {}
    /\ UNCHANGED <<chainVars, mempool, up, cache, loading, watchVars, claimVars,
                   verifyVars, db, crashes, publishVars>>

Written(rows) ==
    [id \in DOMAIN db \cup DOMAIN rows |->
        IF id \in DOMAIN rows THEN rows[id] ELSE db[id]]

(* Mutant: what a failed transaction held is forgotten.                     *)
PutBack_nothing(rows) == dirty

(* for (const id of ids) this.dirty.add(id)                                 *)
PutBack(rows) == dirty \cup DOMAIN rows

(* Postgres commits one of the transactions in flight, or $transaction throws
   (refused, or the answer is lost) and flush() puts the ids back.          *)
FlushCommits(i) ==
    /\ db' = Written(flushes[i])
    /\ flushes' = RemoveAt(flushes, i)
    /\ UNCHANGED <<chainVars, mempool, up, storeVars, watchVars, claimVars,
                   verifyVars, crashes, publishVars>>

FlushFails(i) ==
    /\ db' \in {db, Written(flushes[i])}
    /\ flushes' = RemoveAt(flushes, i)
    /\ dirty' = PutBack(flushes[i])
    /\ UNCHANGED <<chainVars, mempool, up, cache, loading, watchVars, claimVars,
                   verifyVars, crashes, publishVars>>

(* Mutants: a top-up is added to a deposit that may contain it already; a
   claimed event moves lastAccepted back, or leaves claimed behind; a closed
   event leaves the channel open.                                           *)
ToppedUp_adds(ch, e) == [ch EXCEPT !.deposit = @ + e.amount]
Claimed_lowers(ch, e) == [ch EXCEPT !.claimed = Max2(ch.claimed, e.total),
                                    !.lastAccepted = e.total]
Claimed_behind(ch, e) == [ch EXCEPT !.lastAccepted = Max2(ch.lastAccepted, e.total)]
Closed_stays(ch, e) == [ch EXCEPT !.claimed = Max2(ch.claimed, e.total)]

(* applyChainEvent(e) once the channel is cached: the new row, by event.    *)
ToppedUp(ch, e) == [ch EXCEPT !.deposit = e.total]

Claimed(ch, e) == [ch EXCEPT !.claimed = Max2(ch.claimed, e.total),
                             !.lastAccepted = Max2(ch.lastAccepted, e.total)]

Closed(ch, e) == [ch EXCEPT !.open = FALSE, !.claimed = Max2(ch.claimed, e.total)]

(* Mutant: whether a claim is in flight is not asked.                       *)
IsOurs_late(id) == FALSE

(* ownClaimsInFlight.has(id)                                                *)
IsOurs(id) == claims[id] # Idle

(* A claimed event is published by the watcher, unless it is of a claim that
   was published already, or may be of one in flight.                       *)
WatcherPublishes(i) ==
    LET id == log[i].id IN
    /\ own' = own \ {i}
    /\ suppressed' = IF i \notin own /\ IsOurs(id) THEN suppressed \cup {i} ELSE suppressed
    /\ published' = IF i \in own \/ IsOurs(id) THEN published
                    ELSE published \cup {[tx |-> i, by |-> "watcher"]}

applyChainEvent(id, e) ==
    LET ch == cache[id] IN
    IF e.type = "opened" \/ (e.type = "closed" /\ ~ch.open)
    THEN UNCHANGED <<cache, dirty>>
    ELSE Update(id, CASE e.type = "topped_up" -> ToppedUp(ch, e)
                      [] e.type = "claimed"   -> Claimed(ch, e)
                      [] e.type = "closed"    -> Closed(ch, e))

-----------------------------------------------------------------------------
(* ChainWatcher                                                             *)

(* The events getEvents returns for a start ledger: the first page of them. *)
pollEvents(from) ==
    LET Matching == {i \in DOMAIN log : log[i].ledger >= from} IN
    {i \in Matching : Cardinality({j \in Matching : j < i}) < PageLimit}

(* poll(): getEvents answers.  pollNow() merges concurrent calls.           *)
PollFetches ==
    /\ up
    /\ poll = Idle
    /\ poll' = [at |-> "applying", events |-> pollEvents(cursor), latest |-> ledger]
    /\ wledger' = Max2(wledger, ledger)
    /\ UNCHANGED <<chainVars, mempool, up, storeVars, cursor, seen, claimVars,
                   verifyVars, dbVars, crashes, publishVars>>

(* The loop over the events, up to the await of applyChainEvent: an event is
   marked as seen before it is applied.                                     *)
PollTakes ==
    /\ poll.at = "applying" /\ poll.events # {}
    /\ LET e == Min(poll.events) IN
       IF e \in seen
       THEN /\ poll' = [poll EXCEPT !.events = Others(@)]
            /\ UNCHANGED seen
       ELSE /\ poll' = [poll EXCEPT !.at = "awaiting"]
            /\ seen' = seen \cup {e}
    /\ UNCHANGED <<chainVars, mempool, up, storeVars, wledger, cursor, claimVars,
                   verifyVars, dbVars, crashes, publishVars>>

(* applyChainEvent: of a channel that is not cached it first awaits get().  *)
PollLoads ==
    /\ poll.at = "awaiting"
    /\ LoadAsks(log[Min(poll.events)].id)

PollApplies ==
    /\ poll.at = "awaiting"
    /\ LET e == log[Min(poll.events)] IN
       /\ Cached(e.id)
       /\ applyChainEvent(e.id, e)
       /\ IF e.type = "claimed" THEN WatcherPublishes(Min(poll.events))
                                ELSE UNCHANGED publishVars
       /\ PollGoesOn
    /\ UNCHANGED <<chainVars, mempool, up, loading, wledger, seen, claimVars,
                   verifyVars, dbVars, crashes>>

(* Mutant: the next poll starts after the newest ledger.                    *)
NextCursor_beyond(latest) == Max2(cursor, latest + 1)

(* After a complete poll: the events of the last ledger come again and are
   recognised by seen.                                                      *)
NextCursor(latest) == Max2(cursor, latest - 1)

PollEnds ==
    /\ poll.at = "applying" /\ poll.events = {}
    /\ cursor' = NextCursor(poll.latest)
    /\ poll' = Idle
    /\ UNCHANGED <<chainVars, mempool, up, storeVars, wledger, seen, claimVars,
                   verifyVars, dbVars, crashes, publishVars>>

-----------------------------------------------------------------------------
(* ChannelVerifier                                                          *)

verifyVoucher(id, cumulative, voucherKey, sig) ==
    /\ sig.key = voucherKey
    /\ sig.hash = Chain!voucher_hash(Here, id, cumulative)

(* Mutants: a closed channel is admitted, or one about to expire.           *)
Admitted_closed(ch) ==
    /\ ch.payee = payTo
    /\ ch.asset = usdcContractId
    /\ ch.payer \notin frozen
    /\ ch.expiryLedger - wledger >= voucherExpirySafetyLedgers
Admitted_late(ch) ==
    /\ ch.open
    /\ ch.payee = payTo
    /\ ch.asset = usdcContractId
    /\ ch.payer \notin frozen

(* accept(), steps 3 and 4: what is checked before a call is counted.       *)
Admitted(ch) ==
    /\ ch.open
    /\ ch.payee = payTo
    /\ ch.asset = usdcContractId
    /\ ch.payer \notin frozen
    /\ ch.expiryLedger - wledger >= voucherExpirySafetyLedgers

(* The per-minute window: the first call of a minute is never refused.      *)
WithinRate(id) ==
    rateLimitPerMinute > 0 /\ rate[id] > 0 => rate[id] < rateLimitPerMinute

Counted(id) ==
    rate' = IF rateLimitPerMinute > 0 /\ rate[id] <= rateLimitPerMinute
            THEN [rate EXCEPT ![id] = @ + 1] ELSE rate

(* Mutant: the deposit does not limit what is accepted.                     *)
Payable_beyond(id, cumulative, sig, price) ==
    LET ch == cache[id] IN
    /\ verifyVoucher(id, cumulative, ch.voucherKey, sig)
    /\ cumulative > ch.lastAccepted
    /\ cumulative - ch.lastAccepted >= price

(* Steps 5 to 8.                                                            *)
Payable(id, cumulative, sig, price) ==
    LET ch == cache[id] IN
    /\ verifyVoucher(id, cumulative, ch.voucherKey, sig)
    /\ cumulative > ch.lastAccepted
    /\ cumulative - ch.lastAccepted >= price
    /\ cumulative <= ch.deposit

(* accept(): from the resolved store.get to the receipt there is no await.  *)
Accept(id, cumulative, sig, price) ==
    /\ up /\ Cached(id)
    /\ Admitted(cache[id])
    /\ WithinRate(id)
    /\ Counted(id)
    /\ Payable(id, cumulative, sig, price)
    /\ Update(id, [cache[id] EXCEPT !.lastAccepted = cumulative, !.lastSig = sig,
                                    !.vouchersSinceClaim = @ + 1])
    /\ served' = [served EXCEPT ![id] = @ + (cumulative - cache[id].lastAccepted)]
    /\ highest' = [highest EXCEPT ![id] = Max2(@, cumulative)]
    /\ UNCHANGED <<chainVars, mempool, up, loading, watchVars, claimVars, frozen,
                   dbVars, crashes, publishVars>>

(* accept() refuses a call after having counted it: the rate is exceeded, or
   a later check fails (sig NoSig stands for every invalid signature).      *)
RejectCounted(id, cumulative, sig, price) ==
    /\ up /\ Cached(id)
    /\ rateLimitPerMinute > 0
    /\ Admitted(cache[id])
    /\ ~(WithinRate(id) /\ sig # NoSig /\ Payable(id, cumulative, sig, price))
    /\ Counted(id)
    /\ UNCHANGED <<chainVars, mempool, up, storeVars, watchVars, claimVars, frozen,
                   served, highest, dbVars, crashes, publishVars>>

(* Date.now() enters the next minute.                                       *)
MinutePasses ==
    /\ rate' = [id \in Ids |-> 0]
    /\ UNCHANGED <<chainVars, mempool, up, storeVars, watchVars, claimVars, frozen,
                   served, highest, dbVars, crashes, publishVars>>

(* FrozenRegistry learns an account's state, from a refresh or the console. *)
FrozenLearned(account, isFrozen) ==
    /\ up
    /\ frozen' = IF isFrozen THEN frozen \cup {account} ELSE frozen \ {account}
    /\ UNCHANGED <<chainVars, mempool, up, storeVars, watchVars, claimVars, rate,
                   served, highest, dbVars, crashes, publishVars>>

-----------------------------------------------------------------------------
(* ClaimService                                                             *)

(* Mutant: small amounts are not collected before the expiry.               *)
isDue_threshold(ch, now) ==
    /\ ch.open /\ ch.lastSig # NoSig
    /\ ch.lastAccepted > ch.claimed
    /\ ch.lastAccepted - ch.claimed >= claimThreshold

(* Worth a transaction, by amount or by expiry.                             *)
isDue(ch, now) ==
    /\ ch.open /\ ch.lastSig # NoSig
    /\ ch.lastAccepted > ch.claimed
    /\ \/ ch.lastAccepted - ch.claimed >= claimThreshold
       \/ ch.expiryLedger - now <= claimExpiryMarginLedgers

Claimable(id) ==
    /\ cache[id].open
    /\ cache[id].lastSig # NoSig
    /\ cache[id].lastAccepted > cache[id].claimed
    /\ claims[id] = Idle

(* claim(), up to the await of chain.claim: the snapshot.                   *)
claim(id, byTick) ==
    claims' = [claims EXCEPT ![id] =
                 [at |-> "queued", cumulative |-> cache[id].lastAccepted,
                  sig |-> cache[id].lastSig, covered |-> cache[id].vouchersSinceClaim,
                  tx |-> 0, byTick |-> byTick]]

(* tick(): one at a time, over the channels cached when it starts.          *)
TickStarts ==
    /\ up /\ tick = Idle
    /\ tick' = [at |-> "looking", now |-> wledger, todo |-> DOMAIN cache]
    /\ tickDue' = FALSE
    /\ UNCHANGED <<chainVars, mempool, up, storeVars, watchVars, claims, manual,
                   verifyVars, dbVars, crashes, publishVars>>

TickClaims(id) ==
    /\ tick.at = "looking" /\ id \in tick.todo
    /\ isDue(cache[id], tick.now)
    /\ Claimable(id)
    /\ claim(id, TRUE)
    /\ tick' = [tick EXCEPT !.at = "awaiting", !.todo = @ \ {id}]
    /\ UNCHANGED <<chainVars, mempool, up, storeVars, watchVars, manual, tickDue,
                   verifyVars, dbVars, crashes, publishVars>>

(* Not due, or claim() returns null because one is in flight.               *)
TickSkips(id) ==
    /\ tick.at = "looking" /\ id \in tick.todo
    /\ ~(isDue(cache[id], tick.now) /\ Claimable(id))
    /\ tick' = [tick EXCEPT !.todo = @ \ {id}]
    /\ UNCHANGED <<chainVars, mempool, up, storeVars, watchVars, claims, manual,
                   tickDue, verifyVars, dbVars, crashes, publishVars>>

TickEnds ==
    /\ tick.at = "looking" /\ tick.todo = {}
    /\ tick' = Idle
    /\ UNCHANGED <<chainVars, mempool, up, storeVars, watchVars, claims, tickDue, manual,
                   verifyVars, dbVars, crashes, publishVars>>

(* manualClaim(): POST /channels/:id/claim.  The cooldowns are wall-clock
   time and only bound how often it happens, as MaxManual does.             *)
ManualClaim(id) ==
    /\ up /\ Cached(id)
    /\ manual < MaxManual
    /\ \/ cache[id].lastAccepted - cache[id].claimed >= manualClaimMin
       \/ isDue(cache[id], wledger)
    /\ Claimable(id)
    /\ claim(id, FALSE)
    /\ manual' = manual + 1
    /\ UNCHANGED <<chainVars, mempool, up, storeVars, watchVars, tick, tickDue,
                   verifyVars, dbVars, crashes, publishVars>>

(* Transactions whose sender no longer waits for them.                      *)
Abandoned(txs) == (mempool \ txs) \cup {[tx EXCEPT !.awaited = FALSE] : tx \in txs}

(* The end of claim(): its finally block, and the tick that awaited it goes
   on.  byTick tells the two callers apart.                                 *)
Settled(id) ==
    /\ claims' = [claims EXCEPT ![id] = Idle]
    /\ tick' = IF claims[id].byTick THEN [tick EXCEPT !.at = "looking"] ELSE tick

(* StellarChain.claim: one doClaim at a time.  The simulation runs the
   contract's checks on the current state; a refusal is thrown.             *)
Simulates(id) ==
    /\ claims[id].at = "queued"
    /\ \A i \in Ids : claims[i].at \in {"idle", "queued"}
    /\ IF Chain!ClaimAccepted(id, claims[id].cumulative, claims[id].sig)
       THEN /\ claims' = [claims EXCEPT ![id].at = "sent"]
            /\ mempool' = mempool \cup {[id |-> id, cumulative |-> claims[id].cumulative,
                                         sig |-> claims[id].sig, awaited |-> TRUE]}
            /\ UNCHANGED tick
       ELSE /\ Settled(id)
            /\ UNCHANGED mempool
    /\ UNCHANGED <<chainVars, up, storeVars, watchVars, manual, tickDue,
                   verifyVars, dbVars, crashes, publishVars>>

(* The transaction reaches a ledger.  If the channel changed meanwhile the
   contract panics there and the transaction has status FAILED.             *)
ClaimApplied(tx) ==
    LET ok == Chain!ClaimAccepted(tx.id, tx.cumulative, tx.sig)
        Mine(id) == tx.awaited /\ tx.id = id IN
    /\ tx \in mempool
    /\ mempool' = mempool \ {tx}
    /\ IF ok THEN /\ Chain!Claim(tx.id, tx.cumulative, tx.sig)
                  /\ log' = Append(log, event')
             ELSE UNCHANGED chainVars
    /\ claims' = [id \in Ids |->
                    IF Mine(id) THEN [claims[id] EXCEPT !.at = IF ok THEN "landed" ELSE "failed",
                                                        !.tx = IF ok THEN Len(log) + 1 ELSE 0]
                                ELSE claims[id]]
    /\ UNCHANGED <<up, storeVars, watchVars, tick, manual, tickDue, verifyVars,
                   dbVars, crashes, publishVars>>

(* The transaction expires unapplied.                                       *)
ClaimDropped(tx) ==
    /\ ~RpcReliable
    /\ tx \in mempool
    /\ mempool' = mempool \ {tx}
    /\ UNCHANGED <<chainVars, up, storeVars, watchVars, claimVars, verifyVars,
                   dbVars, crashes, publishVars>>

(* rememberOwnClaim(tx) and the event: the watcher has seen it, or will.  A
   failed transaction leaves no event on chain to be told from.             *)
ClaimPublishes(tx) ==
    /\ suppressed' = suppressed \ {tx}
    /\ own' = IF tx = 0 \/ tx \in suppressed THEN own ELSE own \cup {tx}
    /\ published' = IF tx = 0 THEN published
                    ELSE published \cup {[tx |-> tx, by |-> "claim"]}

(* chain.claim resolves.  doClaim returns the hash without looking at the
   status: signAndSend (external) may resolve for a FAILED transaction too. *)
ClaimReturns(id) ==
    /\ claims[id].at \in {"landed", "failed"}
    /\ Update(id, [cache[id] EXCEPT
            !.claimed = Max2(@, claims[id].cumulative),
            !.vouchersSinceClaim = Max2(0, @ - claims[id].covered)])
    /\ ClaimPublishes(claims[id].tx)
    /\ Settled(id)
    /\ UNCHANGED <<chainVars, mempool, up, loading, watchVars, manual, tickDue,
                   verifyVars, dbVars, crashes>>

(* chain.claim throws: the node is unreachable, the answer is lost, the wait
   times out.  Whatever was sent may still be applied.                      *)
ClaimThrows(id) ==
    /\ ~RpcReliable \/ claims[id].at = "failed"
    /\ claims[id] # Idle
    /\ Settled(id)
    /\ mempool' = Abandoned({tx \in mempool : tx.id = id})
    /\ UNCHANGED <<chainVars, up, storeVars, watchVars, manual, tickDue,
                   verifyVars, dbVars, crashes, publishVars>>

-----------------------------------------------------------------------------
(* The process and the chain around it.                                     *)

(* What is gone when the process ends.                                      *)
MemoryLost ==
    /\ up' = FALSE
    /\ crashes' = crashes + 1
    /\ cache' = Empty
    /\ loading' = [id \in Ids |-> Idle]
    /\ dirty' = {}
    /\ flushes' = <<>>
    /\ wledger' = 0 /\ cursor' = 0 /\ seen' = {} /\ poll' = Idle
    /\ claims' = [id \in Ids |-> Idle]
    /\ tick' = Idle
    /\ rate' = [id \in Ids |-> 0]
    /\ frozen' = {}
    /\ mempool' = Abandoned(mempool)
    /\ tickDue' = FALSE
    /\ own' = {} /\ suppressed' = {} /\ published' = {}
    /\ UNCHANGED <<chainVars, manual, served, highest>>

(* A transaction in flight may still be committed.                          *)
Crash ==
    /\ up /\ crashes < MaxCrashes
    /\ MemoryLost
    /\ db' \in {db} \cup {Written(flushes[i]) : i \in DOMAIN flushes}

(* onApplicationShutdown flushes what is dirty before the process exits.    *)
Shutdown ==
    /\ up /\ crashes < MaxCrashes /\ flushes = <<>>
    /\ MaxFlushes > 0
    /\ MemoryLost
    /\ db' = Written(Rows(dirty))

(* onModuleInit of ChannelStore and ChainWatcher.  When the ledger cannot be
   read, ledger and cursor stay 0.                                          *)
Boot ==
    /\ ~up
    /\ up' = TRUE
    /\ cache' = db
    /\ \E l \in {ledger} \cup (IF RpcReliable THEN {} ELSE {0}) :
          wledger' = l /\ cursor' = l
    /\ UNCHANGED <<chainVars, mempool, loading, dirty, seen, poll, claimVars,
                   verifyVars, dbVars, crashes, publishVars>>

(* The other users of the contract: payer, payee, claimers.                 *)
ChainMoves ==
    /\ Len(log) < MaxEvents
    /\ \/ \E payer, payee \in Parties, a \in Assets, d \in Amounts,
             k \in Keys, x \in Expiries : Chain!Open(payer, payee, a, d, k, x)
       \/ \E id \in Ids, n \in Amounts : Chain!TopUp(id, n)
       \/ \E id \in Ids, c \in Cumulatives, s \in signed : Chain!Claim(id, c, s)
       \/ \E id \in Ids, p \in Parties : Chain!Close(id, p)
    /\ log' = Append(log, event')
    /\ UNCHANGED facVars

(* Ledgers close at their own pace; when Timely, not before the watcher has
   seen the current one and a tick has run in it (see the README).          *)
LedgerCloses ==
    /\ Timely => wledger = ledger /\ ~tickDue /\ tick = Idle
    /\ Chain!LedgerCloses
    /\ tickDue' = Timely
    /\ UNCHANGED <<log, mempool, up, storeVars, watchVars, claims, tick, manual,
                   verifyVars, dbVars, crashes, publishVars>>

Init ==
    /\ Chain!Deployed
    /\ signed = {Chain!Signature(k, Here, id, c) : k \in Keys, id \in Ids, c \in Cumulatives}
    /\ log = <<>>
    /\ mempool = {}
    /\ up = TRUE
    /\ cache = Empty /\ db = Empty
    /\ loading = [id \in Ids |-> Idle]
    /\ dirty = {} /\ flushes = <<>>
    /\ wledger = ledger /\ cursor = ledger /\ seen = {} /\ poll = Idle
    /\ claims = [id \in Ids |-> Idle]
    /\ tick = Idle /\ tickDue = FALSE /\ manual = 0
    /\ rate = [id \in Ids |-> 0] /\ frozen = {}
    /\ crashes = 0
    /\ own = {} /\ suppressed = {} /\ published = {}
    /\ served = [id \in Ids |-> 0] /\ highest = [id \in Ids |-> 0]

Next ==
    \/ ChainMoves \/ LedgerCloses
    \/ \E id \in Ids : LoadAsks(id) \/ LoadAnswered(id) \/ LoadInserts(id)
                        \/ LoadMisses(id) \/ LoadFails(id)
    \/ FlushStarts
    \/ \E i \in DOMAIN flushes : FlushCommits(i) \/ FlushFails(i)
    \/ PollFetches \/ PollTakes \/ PollLoads \/ PollApplies \/ PollEnds
    \/ \E id \in Ids, c \in Cumulatives, s \in signed, p \in Prices : Accept(id, c, s, p)
    \/ \E id \in Ids, c \in Cumulatives, s \in signed \cup {NoSig}, p \in Prices :
          RejectCounted(id, c, s, p)
    \/ MinutePasses
    \/ \E a \in Freezable, b \in BOOLEAN : FrozenLearned(a, b)
    \/ TickStarts \/ TickEnds
    \/ \E id \in Ids : TickClaims(id) \/ TickSkips(id) \/ ManualClaim(id)
    \/ \E id \in Ids : Simulates(id) \/ ClaimReturns(id) \/ ClaimThrows(id)
    \/ \E tx \in mempool : ClaimApplied(tx) \/ ClaimDropped(tx)
    \/ Crash \/ Shutdown \/ Boot

Spec == Init /\ [][Next]_vars

(* Fairness.  The process' own continuations run (Node's event loop), timers
   fire again and again (polls, ticks), an RPC node that may fail does not
   fail forever, and so do transactions get through (strong fairness).
   Nothing is assumed of payers, payees, claimers or callers.               *)
Fairness ==
    /\ WF_vars(PollFetches) /\ WF_vars(PollTakes) /\ WF_vars(PollLoads)
    /\ WF_vars(PollApplies) /\ WF_vars(PollEnds)
    /\ WF_vars(TickStarts) /\ WF_vars(TickEnds)
    /\ WF_vars(LedgerCloses)
    /\ \A id \in Ids :
          /\ WF_vars(LoadAnswered(id)) /\ SF_vars(LoadInserts(id)) /\ WF_vars(LoadMisses(id))
          /\ WF_vars(TickSkips(id)) /\ WF_vars(TickClaims(id))
          /\ SF_vars(Simulates(id) /\ claims'[id].at = "sent")
          /\ WF_vars(Simulates(id)) /\ WF_vars(ClaimReturns(id) \/ ClaimThrows(id))
          /\ SF_vars(\E tx \in mempool : tx.id = id /\ ClaimApplied(tx))

FairSpec == Spec /\ Fairness

-----------------------------------------------------------------------------
(* Properties.                                                              *)

Row == [payer: Parties, payee: Parties, asset: Assets, voucherKey: Keys,
        expiryLedger: Nat, deposit: Int, claimed: Int, open: BOOLEAN,
        lastAccepted: Int, lastSig: signed \cup {NoSig}, vouchersSinceClaim: Nat]

(* Every variable of the process and of the chain keeps its type.           *)
TypeOK ==
    /\ Chain!TypeOK
    /\ up \in BOOLEAN
    /\ DOMAIN cache \subseteq Ids /\ \A id \in DOMAIN cache : cache[id] \in Row
    /\ DOMAIN db \subseteq Ids /\ \A id \in DOMAIN db : db[id] \in Row
    /\ dirty \subseteq DOMAIN cache
    /\ wledger \in 0..ledger /\ cursor \in 0..ledger
    /\ seen \subseteq DOMAIN log
    /\ \A id \in Ids : claims[id].at \in {"idle", "queued", "sent", "landed", "failed"}
    /\ tick.at \in {"idle", "looking", "awaiting"}
    /\ poll.at \in {"idle", "applying", "awaiting"}

(* No value is served twice: what receipts were given out for never exceeds
   the highest voucher ever accepted (docs/spec/scheme_channel_stellar.md:
   a replayed or older voucher is simply not increasing).                   *)
NothingServedTwice == \A id \in Ids : served[id] <= highest[id]

(* Everything accepted and not yet paid can be collected: as long as the
   channel is open on chain, the signature the store keeps is accepted by the
   contract for exactly lastAccepted.  It relates accept(), the watcher's
   max() on lastAccepted, rows restored from Postgres and concurrent claims
   and top-ups on the chain.                                                *)
AcceptedCanBeClaimed ==
    \A id \in DOMAIN cache :
        LET ch == cache[id] IN
        ch.lastAccepted > Max2(ch.claimed, channels[id].claimed) /\ channels[id].open
            => Chain!ClaimAccepted(id, ch.lastAccepted, ch.lastSig)

(* What a seller serves for he can collect, once.                           *)
AcceptedIsClaimable == AcceptedCanBeClaimed /\ NothingServedTwice

(* The cache trails the chain and never leads it: a smaller or equal deposit,
   no closing the chain does not know of, and a claimed total the chain has
   reached, except after a transaction that failed because the channel had
   been closed; nor does its cursor.  Polls, stale loads, replies, restarts
   in any order, each variable keeping its type (TypeOK).                   *)
NeverAheadOfChain ==
    /\ TypeOK
    /\ \A id \in DOMAIN cache :
          LET ch == cache[id] IN
          /\ Chain!Found(id)
          /\ ch.deposit <= channels[id].deposit
          /\ ~ch.open => ~channels[id].open
          /\ ch.claimed > channels[id].claimed => ~channels[id].open

(* A claim in flight asks for a total that was accepted, with its signature,
   and covers no more vouchers than were accepted since the last claim.     *)
ClaimsCoverAccepted ==
    \A id \in Ids :
        claims[id] # Idle =>
            /\ claims[id].cumulative <= cache[id].lastAccepted
            /\ claims[id].sig.meant = <<Here, id, claims[id].cumulative>>
            /\ claims[id].covered <= cache[id].vouchersSinceClaim

(* What lies before the cursor has reached the cache, though an event is marked
   as seen before it is applied, applied events may be older than the row
   they meet, and loads and polls fail halfway: a stale deposit is set right
   again before the cursor passes.                                          *)
CursorMeansApplied ==
    \A i \in DOMAIN log :
        LET e == log[i]
            ch == cache[e.id] IN
        Cached(e.id) /\ e.ledger < cursor =>
            CASE e.type = "opened"    -> TRUE
              [] e.type = "topped_up" -> ch.deposit >= e.total
              [] e.type = "claimed"   -> ch.claimed >= e.total
              [] e.type = "closed"    -> ~ch.open

(* The cache is neither ahead of the chain nor behind its own cursor.        *)
CacheFollowsChain == NeverAheadOfChain /\ CursorMeansApplied

(* A process publishes a claim once, by the claim() that sent it or by the watcher
   that sees it on chain, whichever comes first and whatever else is claimed
   meanwhile (channel.cache.ts:141-145).  That it is published at all is not
   said: one seen while a claim is in flight is left to that claim, which may
   be another, or end without its result.                                   *)
PublishedOnce == \A p, q \in published : p.tx = q.tx => p = q

(* A voucher is accepted only while its channel is open on chain, or while the
   close is too recent for the watcher: an event of a ledger before cursor
   has taken effect on every accept().  Loads and polls that overlap, events
   taken before their channel is cached, failed calls.                      *)
NotServedAfterClose ==
    [][\A id \in Ids :
          served'[id] # served[id] =>
              \/ channels[id].open
              \/ \E i \in DOMAIN log : /\ log[i].id = id /\ log[i].type = "closed"
                                       /\ log[i].ledger >= cursor]_vars

(* When nothing is dirty and no flush is running, Postgres holds what the
   cache holds (channel.cache.ts: changes are written every 250 ms).        *)
QuietMeansSaved ==
    up /\ dirty = {} /\ flushes = <<>> =>
        \A id \in DOMAIN cache : id \in DOMAIN db /\ db[id] = cache[id]

(* What was accepted is kept, and claimed as it was accepted.               *)
AcceptedIsKept == QuietMeansSaved /\ ClaimsCoverAccepted

(* Postgres only moves forward: a later row never forgets an accepted voucher
   an earlier row had.                                                      *)
RowsMoveForward ==
    [][\A id \in DOMAIN db : db'[id].lastAccepted >= db[id].lastAccepted]_vars

(* A payer who closes after expiry and grace gets back nothing a receipt was
   given for: by then everything accepted has been claimed.  This is what
   voucherExpirySafetyLedgers, claimExpiryMarginLedgers and the contract's
   grace are for, given that polls and ticks come in time.  It says nothing
   of a payee that closes his own channel early.                            *)
PayerCloseLosesNothing ==
    \A id \in DOMAIN channels :
        ~channels[id].open /\ ledger > channels[id].expiry_ledger + CloseGrace
            => \/ highest[id] <= channels[id].claimed
               \/ \E i \in DOMAIN log :
                    /\ log[i].id = id /\ log[i].type = "closed"
                    /\ log[i].ledger <= channels[id].expiry_ledger + CloseGrace

(* The cached state is never stuck: a channel closed on chain is eventually
   no longer served.                                                        *)
ClosedIsNoticed ==
    \A id \in Ids :
        (Chain!Found(id) /\ ~channels[id].open)
            ~> (Cached(id) => ~cache[id].open)

(* Everything accepted is eventually paid on chain, or the channel is closed
   there first, and that is noticed.                                        *)
AcceptedEventuallyPaid ==
    /\ ClosedIsNoticed
    /\ \A id \in Ids, c \in Cumulatives :
          (highest[id] = c) ~>
              (Chain!Found(id) /\ (channels[id].claimed >= c \/ ~channels[id].open))
=============================================================================
