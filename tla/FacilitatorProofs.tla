-------------------------- MODULE FacilitatorProofs --------------------------
(***************************************************************************)
(* Proofs about Facilitator: for every set of parties, vouchers and        *)
(* prices, every page limit and any number of flushes, crashes and failing *)
(* calls, unless a theorem says otherwise.                                 *)
(***************************************************************************)
EXTENDS Facilitator, Sums, SequenceTheorems

Proved == INSTANCE ChannelContractProofs

-----------------------------------------------------------------------------
(* The types, sharper than TypeOK where a step needs it.                    *)

Table == UNION {[D -> Row] : D \in SUBSET Ids}

Answer == [payer : Parties, payee : Parties, asset : Assets, voucherKey : Keys,
           expiryLedger : Nat, deposit : Int, claimed : Int, open : BOOLEAN]

Load == {Idle, Asked, [at |-> "missing"]} \cup [at : {"answered"}, state : Answer]

Page == [at : {"applying", "awaiting"}, events : SUBSET (DOMAIN log), latest : 0..ledger]

InFlight == [at : {"queued", "sent", "landed", "failed"}, cumulative : Int, sig : signed,
             covered : Nat, tx : Nat, byTick : BOOLEAN]

Sent == [id : Ids, cumulative : Int, sig : signed, awaited : BOOLEAN]

Look == [at : {"looking", "awaiting"}, now : Nat, todo : SUBSET (DOMAIN cache)]

ChainTyped == Chain!TypeOK /\ log \in Seq(Chain!Event)

StoreTyped ==
    /\ cache \in Table /\ db \in Table /\ flushes \in Seq(Table)
    /\ dirty \subseteq DOMAIN cache
    /\ \A i \in DOMAIN flushes : DOMAIN flushes[i] \subseteq DOMAIN cache
    /\ loading \in [Ids -> Load]
    /\ \A id \in Ids : loading[id] # Idle => ~Cached(id)

WatchTyped ==
    /\ wledger \in 0..ledger /\ cursor \in 0..ledger
    /\ seen \subseteq DOMAIN log
    /\ poll \in {Idle} \cup Page
    /\ poll.at = "awaiting" => poll.events # {} /\ Min(poll.events) \in seen

(* The tick waits for this claim.                                           *)
ByTick(id) == claims[id] # Idle /\ claims[id].byTick

ClaimTyped ==
    /\ claims \in [Ids -> {Idle} \cup InFlight]
    /\ \A id \in Ids : claims[id] # Idle => Cached(id)
    /\ mempool \subseteq Sent
    /\ tick \in {Idle} \cup Look
    /\ \A id \in Ids : ByTick(id) => tick.at = "awaiting"
    /\ \A id, j \in Ids : ByTick(id) /\ ByTick(j) => id = j

(* A process that is down has no memory.                                    *)
DownIsEmpty ==
    /\ up \in BOOLEAN
    /\ ~up => /\ cache = Empty /\ dirty = {} /\ flushes = <<>> /\ poll = Idle /\ tick = Idle
              /\ \A id \in Ids : loading[id] = Idle /\ claims[id] = Idle
              /\ own = {} /\ suppressed = {} /\ published = {} /\ seen = {}
              /\ wledger = 0 /\ cursor = 0

Typed == ChainTyped /\ StoreTyped /\ WatchTyped /\ ClaimTyped /\ DownIsEmpty

-----------------------------------------------------------------------------
(* What everything the process holds owes to the chain, in the present state.
   s is a voucher the contract would pay c for, were the channel open.      *)
Backs(s, id, c) ==
    /\ s \in signed
    /\ s.key = channels[id].voucher_key
    /\ s.hash = Chain!voucher_hash(Here, id, c)
    /\ c <= channels[id].deposit

(* What holds of whatever was read of channel id, however long ago.         *)
WasRead(id, ch) ==
    /\ Chain!Found(id)
    /\ ch.voucherKey = channels[id].voucher_key
    /\ ch.deposit <= channels[id].deposit
    /\ ~ch.open => ~channels[id].open
    /\ ch.claimed > channels[id].claimed => ~channels[id].open

(* A row, cached, stored or on its way to Postgres.                         *)
RowFits(id, row) ==
    /\ WasRead(id, row)
    /\ row.lastAccepted <= row.claimed \/ Backs(row.lastSig, id, row.lastAccepted)

EventFits(e) ==
    /\ Chain!Found(e.id)
    /\ e.ledger <= ledger
    /\ e.type = "topped_up" => e.total <= channels[e.id].deposit
    /\ e.type = "claimed" => e.total <= channels[e.id].claimed
    /\ e.type = "closed" => e.total <= channels[e.id].claimed /\ ~channels[e.id].open

ClaimFits(id, c) ==
    /\ Backs(c.sig, id, c.cumulative)
    /\ c.at \in {"queued", "sent"} => c.tx = 0
    /\ c.at = "landed" => /\ c.cumulative <= channels[id].claimed
                          /\ c.tx \in DOMAIN log /\ log[c.tx].id = id /\ log[c.tx].type = "claimed"
    /\ c.at = "failed" => /\ c.cumulative <= channels[id].claimed \/ ~channels[id].open
                          /\ c.tx = 0

TxFits(tx) ==
    /\ Chain!Found(tx.id) /\ Backs(tx.sig, tx.id, tx.cumulative)
    /\ tx.awaited => /\ claims[tx.id].at = "sent"
                     /\ claims[tx.id].cumulative = tx.cumulative
                     /\ claims[tx.id].sig = tx.sig

Fits ==
    /\ \A i \in DOMAIN log : EventFits(log[i])
    /\ \A id \in DOMAIN cache : RowFits(id, cache[id])
    /\ \A id \in DOMAIN db : RowFits(id, db[id])
    /\ \A i \in DOMAIN flushes : \A id \in DOMAIN flushes[i] : RowFits(id, flushes[i][id])
    /\ \A id \in Ids : loading[id].at = "answered" => WasRead(id, loading[id].state)
    /\ \A id \in Ids : claims[id] # Idle => Chain!Found(id) /\ ClaimFits(id, claims[id])
    /\ \A tx \in mempool : TxFits(tx)

(* A claim in flight covers no more than the cached row has.                *)
CoveredByRow ==
    \A id \in Ids : claims[id] # Idle =>
        /\ claims[id].cumulative <= cache[id].lastAccepted
        /\ claims[id].covered <= cache[id].vouchersSinceClaim

-----------------------------------------------------------------------------
(* Publishing: what of a claim's event has been, or may be, published.      *)

(* The events the watcher has done with.                                    *)
Passed == IF poll.at = "awaiting" THEN seen \ {Min(poll.events)} ELSE seen

ByClaim(i) == [tx |-> i, by |-> "claim"]
ByWatcher(i) == [tx |-> i, by |-> "watcher"]

PublishTyped ==
    /\ published \subseteq {ByClaim(i) : i \in DOMAIN log} \cup {ByWatcher(i) : i \in DOMAIN log}
    /\ own \subseteq DOMAIN log /\ suppressed \subseteq Passed

(* Event i, once the watcher or the claim() that sent it has published it.   *)
OncePerTx ==
    /\ \A i \in DOMAIN log :
          /\ ByWatcher(i) \in published => i \in Passed /\ ByClaim(i) \notin published
          /\ ByClaim(i) \in published => i \in own \/ i \in Passed
          /\ i \in suppressed => ByWatcher(i) \notin published
    /\ \A id \in Ids : claims[id].at = "landed" =>
          /\ ByWatcher(claims[id].tx) \notin published
          /\ ByClaim(claims[id].tx) \notin published
          /\ claims[id].tx \notin own
          /\ claims[id].tx \in Passed => claims[id].tx \in suppressed

-----------------------------------------------------------------------------
(* One flush at a time: a cached row that is not to be written is on its way
   to Postgres or there.                                                    *)
OneFlush == Len(flushes) <= 1

Flushing(id) == flushes # <<>> /\ id \in DOMAIN flushes[1]

Kept ==
    /\ OneFlush
    /\ up => \A id \in DOMAIN cache \ dirty :
                IF Flushing(id) THEN flushes[1][id] = cache[id]
                                ELSE id \in DOMAIN db /\ db[id] = cache[id]

(* What was accepted only grows, from Postgres to the flush to the cache.   *)
Forward ==
    /\ up => \A id \in DOMAIN db :
                Cached(id) /\ db[id].lastAccepted <= cache[id].lastAccepted
    /\ \A id \in Ids : Flushing(id) =>
          /\ Cached(id) /\ flushes[1][id].lastAccepted <= cache[id].lastAccepted
          /\ id \in DOMAIN db => db[id].lastAccepted <= flushes[1][id].lastAccepted

-----------------------------------------------------------------------------
(* The order of events, for a process that never restarts.                  *)

(* The log follows the ledgers, a channel's deposit only grows.             *)
LogInOrder ==
    /\ \A i, j \in DOMAIN log : i < j =>
          /\ log[i].ledger <= log[j].ledger
          /\ log[i].id = log[j].id /\ log[i].type = "topped_up" /\ log[j].type = "topped_up"
                => log[i].total <= log[j].total
    /\ \A id \in DOMAIN channels : ~channels[id].open =>
          \E i \in DOMAIN log : log[i].id = id /\ log[i].type = "closed"

(* The watcher passes the events one after the other, and its cursor and page
   leave none behind.                                                       *)
SeenInOrder ==
    /\ \A i \in seen, j \in DOMAIN log : j < i => j \in seen
    /\ poll.at = "awaiting" => \A i \in seen : i <= Min(poll.events)
    /\ \A i \in DOMAIN log : log[i].ledger < cursor => i \in Passed
    /\ poll # Idle => \A i \in DOMAIN log :
          (log[i].ledger < poll.latest \/ \E j \in poll.events : i < j)
             => i \in Passed \/ i \in poll.events

(* ch shows what event e did.                                               *)
Shows(ch, e) ==
    /\ e.type = "topped_up" => ch.deposit >= e.total
    /\ e.type = "claimed" => ch.claimed >= e.total
    /\ e.type = "closed" => ~ch.open

PassedIsShown ==
    \A i \in Passed :
        LET id == log[i].id IN
        /\ Cached(id) => Shows(cache[id], log[i])
        /\ loading[id].at # "missing"
        /\ loading[id].at = "answered" => Shows(loading[id].state, log[i])

-----------------------------------------------------------------------------
(* What was served, for a process that never restarts.                      *)
ServedOnce ==
    /\ served \in [Ids -> Int] /\ highest \in [Ids -> Int]
    /\ \A id \in DOMAIN channels : channels[id].claimed >= 0
    /\ \A id \in Ids :
          /\ loading[id].at = "answered" => loading[id].state.claimed >= 0
          /\ served[id] <= highest[id]
          /\ IF Cached(id) THEN highest[id] <= cache[id].lastAccepted ELSE highest[id] <= 0

-----------------------------------------------------------------------------
(* The contract under the facilitator is the one ChannelContractProofs proves
   things about.                                                            *)
LEMMA SameType == (Chain!TypeOK <=> Proved!TypeOK) /\ (Chain!TypeOK <=> Proved!TypeOK)'
  BY DEF Chain!TypeOK, Chain!Channel, Chain!Holders, Chain!Vouchers, Chain!Signature,
         Chain!voucher_hash, Chain!Event, Chain!EventTypes, Chain!NoEvent, Chain!Ids,
         Proved!TypeOK, Proved!Channel, Proved!Holders, Proved!Vouchers, Proved!Signature,
         Proved!voucher_hash, Proved!Event, Proved!EventTypes, Proved!NoEvent, Proved!Ids

LEMMA SameOpen ==
    \A payer, payee, a, d, k, x :
        Chain!Open(payer, payee, a, d, k, x) => Proved!Open(payer, payee, a, d, k, x)
  BY DEF Chain!Open, Chain!CanPay, Chain!Transferred, Chain!Publish,
         Proved!Open, Proved!CanPay, Proved!Transferred, Proved!Publish

LEMMA SameTopUp == \A id, n : Chain!TopUp(id, n) => Proved!TopUp(id, n)
  BY DEF Chain!TopUp, Chain!OpenChannel, Chain!Found, Chain!CanPay, Chain!Transferred, Chain!Publish,
         Proved!TopUp, Proved!OpenChannel, Proved!Found, Proved!CanPay, Proved!Transferred,
         Proved!Publish

LEMMA SameClaim == \A id, c, s : Chain!Claim(id, c, s) => Proved!Claim(id, c, s)
  BY DEF Chain!Claim, Chain!ClaimAccepted, Chain!OpenChannel, Chain!Found, Chain!voucher_hash,
         Chain!CanPay, Chain!Transferred, Chain!Publish, Proved!Claim, Proved!ClaimAccepted,
         Proved!OpenChannel, Proved!Found, Proved!voucher_hash, Proved!CanPay,
         Proved!Transferred, Proved!Publish

LEMMA SameClose == \A id, p : Chain!Close(id, p) => Proved!Close(id, p)
  BY DEF Chain!Close, Chain!OpenChannel, Chain!Found, Chain!MayClose, Chain!SaturatingAdd,
         Chain!Refund, Chain!CanPay, Chain!Transferred, Chain!Publish,
         Proved!Close, Proved!OpenChannel, Proved!Found, Proved!MayClose, Proved!SaturatingAdd,
         Proved!Refund, Proved!CanPay, Proved!Transferred, Proved!Publish

(* What happens to the contract: an entry point, or a ledger closes.        *)
Invoked ==
    \/ \E payer, payee \in Parties, a \in Assets, d \in Amounts,
          k \in Keys, x \in Expiries : Chain!Open(payer, payee, a, d, k, x)
    \/ \E id \in Ids, n \in Amounts : Chain!TopUp(id, n)
    \/ \E id \in Ids, c \in Cumulatives, s \in signed : Chain!Claim(id, c, s)
    \/ \E id \in Ids, p \in Parties : Chain!Close(id, p)

LEMMA ContractStep == Invoked \/ Chain!LedgerCloses => Proved!Next
  <1>1. Chain!LedgerCloses => Proved!LedgerCloses
    BY DEF Chain!LedgerCloses, Proved!LedgerCloses
  <1> QED BY <1>1, SameOpen, SameTopUp, SameClaim, SameClose DEF Invoked, Proved!Next, Proved!Ids, Ids

LEMMA ContractTyped ==
    ASSUME Chain!TypeOK, Invoked \/ Chain!LedgerCloses \/ UNCHANGED chainVars
    PROVE  Chain!TypeOK'
  <1>1. [Proved!Next]_(Proved!contractVars) /\ Proved!TypeOK
    BY ContractStep, SameType DEF chainVars, Proved!contractVars
  <1>2. Proved!TypeOK'
    BY <1>1, Proved!TypeStep, FacilitatorAssumption
  <1> QED BY <1>2, SameType

(* Channels only grow, their terms stay, a closed one is final.             *)
Grew ==
    /\ signed' = signed /\ ledger <= ledger'
    /\ \A id \in DOMAIN channels :
          /\ id \in DOMAIN channels'
          /\ channels'[id].voucher_key = channels[id].voucher_key
          /\ channels[id].deposit <= channels'[id].deposit
          /\ channels[id].claimed <= channels'[id].claimed
          /\ ~channels[id].open => channels'[id] = channels[id]

LEMMA ChannelTyped ==
    ASSUME Chain!TypeOK, NEW id, id \in DOMAIN channels
    PROVE  /\ id \in Ids
           /\ channels[id].payer \in Parties /\ channels[id].payee \in Parties
           /\ channels[id].asset \in Assets /\ channels[id].voucher_key \in Keys
           /\ channels[id].expiry_ledger \in Nat
           /\ channels[id].deposit \in Int /\ channels[id].claimed \in Int
           /\ channels[id].open \in BOOLEAN
  BY FacilitatorAssumption DEF Chain!TypeOK, Chain!Channel, Ids

LEMMA OpenGrows ==
    ASSUME Chain!TypeOK,
           NEW payer \in Parties, NEW payee \in Parties, NEW a \in Assets, NEW d \in Amounts,
           NEW k \in Keys, NEW x \in Expiries, Chain!Open(payer, payee, a, d, k, x)
    PROVE  Grew /\ EventFits(event)' /\ event'.type = "opened"
  <1>1. next_id \notin DOMAIN channels /\ ledger \in Nat /\ next_id \in Int
    BY FacilitatorAssumption DEF Chain!TypeOK
  <1>2. ASSUME NEW id, id \in DOMAIN channels
        PROVE  id \in DOMAIN channels' /\ channels'[id] = channels[id]
    BY <1>1, <1>2 DEF Chain!Open
  <1>3. Grew
    BY <1>1, <1>2, ChannelTyped DEF Grew, Chain!Open
  <1>4. EventFits(event)' /\ event'.type = "opened"
    BY <1>1 DEF EventFits, Chain!Found, Chain!Open, Chain!Publish
  <1> QED BY <1>3, <1>4

LEMMA TopUpGrows ==
    ASSUME Chain!TypeOK, NEW id \in Ids, NEW n \in Amounts, Chain!TopUp(id, n)
    PROVE  Grew /\ EventFits(event)' /\ event'.type = "topped_up"
  <1>1. id \in DOMAIN channels /\ channels[id].open /\ n \in Int /\ n > 0 /\ ledger \in Nat
    BY FacilitatorAssumption DEF Chain!TypeOK, Chain!TopUp, Chain!OpenChannel, Chain!Found
  <1>2. /\ channels' = [channels EXCEPT ![id] = [channels[id] EXCEPT !.deposit = @ + n]]
        /\ ledger' = ledger /\ signed' = signed
        /\ event' = [type |-> "topped_up", id |-> id, ledger |-> ledger, amount |-> n,
                     total |-> channels[id].deposit + n]
    BY DEF Chain!TopUp, Chain!Publish
  <1>3. channels[id] \in Chain!Channel
    BY <1>1 DEF Chain!TypeOK
  <1>4. /\ channels'[id].voucher_key = channels[id].voucher_key
        /\ channels'[id].deposit = channels[id].deposit + n
        /\ channels'[id].claimed = channels[id].claimed
    BY <1>1, <1>2, <1>3 DEF Chain!Channel
  <1>5. \A i \in DOMAIN channels : i # id => channels'[i] = channels[i]
    BY <1>2
  <1>6. DOMAIN channels' = DOMAIN channels
    BY <1>2
  <1>7. Grew
    BY <1>1, <1>2, <1>4, <1>5, <1>6, ChannelTyped DEF Grew
  <1>8. EventFits(event)' /\ event'.type = "topped_up"
    BY <1>1, <1>2, <1>4, <1>6, ChannelTyped DEF EventFits, Chain!Found
  <1> QED BY <1>7, <1>8

LEMMA ClaimGrows ==
    ASSUME Chain!TypeOK, NEW id \in Ids, NEW c \in Int, NEW s \in signed, Chain!Claim(id, c, s)
    PROVE  /\ Grew /\ EventFits(event)' /\ event'.type = "claimed" /\ event'.id = id
           /\ channels'[id].claimed = c /\ channels[id].open
  <1>1. id \in DOMAIN channels /\ channels[id].open /\ c > channels[id].claimed /\ ledger \in Nat
    BY DEF Chain!TypeOK, Chain!Claim, Chain!ClaimAccepted, Chain!OpenChannel, Chain!Found
  <1>2. /\ channels' = [channels EXCEPT ![id] = [channels[id] EXCEPT !.claimed = c]]
        /\ ledger' = ledger /\ signed' = signed
        /\ event' = [type |-> "claimed", id |-> id, ledger |-> ledger,
                     amount |-> c - channels[id].claimed, total |-> c]
    BY DEF Chain!Claim, Chain!Publish
  <1>3. channels[id] \in Chain!Channel
    BY <1>1 DEF Chain!TypeOK
  <1>4. /\ channels'[id].voucher_key = channels[id].voucher_key
        /\ channels'[id].deposit = channels[id].deposit
        /\ channels'[id].claimed = c
    BY <1>1, <1>2, <1>3 DEF Chain!Channel
  <1>5. \A i \in DOMAIN channels : i # id => channels'[i] = channels[i]
    BY <1>2
  <1>6. DOMAIN channels' = DOMAIN channels
    BY <1>2
  <1>7. Grew
    BY <1>1, <1>2, <1>4, <1>5, <1>6, ChannelTyped DEF Grew
  <1>8. EventFits(event)' /\ event'.type = "claimed"
    BY <1>1, <1>2, <1>4, <1>6, ChannelTyped DEF EventFits, Chain!Found
  <1> QED BY <1>1, <1>2, <1>4, <1>7, <1>8

LEMMA CloseGrows ==
    ASSUME Chain!TypeOK, NEW id \in Ids, NEW p \in Parties, Chain!Close(id, p)
    PROVE  Grew /\ EventFits(event)' /\ event'.type = "closed" /\ event'.id = id
  <1>1. id \in DOMAIN channels /\ channels[id].open /\ ledger \in Nat
    BY DEF Chain!TypeOK, Chain!Close, Chain!OpenChannel, Chain!Found
  <1>2. /\ channels' = [channels EXCEPT ![id].open = FALSE]
        /\ ledger' = ledger /\ signed' = signed
        /\ event'.type = "closed" /\ event'.id = id /\ event'.ledger = ledger
        /\ event'.total = channels[id].claimed
    BY DEF Chain!Close, Chain!Publish
  <1>3. channels[id] \in Chain!Channel
    BY <1>1 DEF Chain!TypeOK
  <1>4. /\ channels'[id].voucher_key = channels[id].voucher_key
        /\ channels'[id].deposit = channels[id].deposit
        /\ channels'[id].claimed = channels[id].claimed
    BY <1>1, <1>2, <1>3 DEF Chain!Channel
  <1>5. \A i \in DOMAIN channels : i # id => channels'[i] = channels[i]
    BY <1>2
  <1>6. DOMAIN channels' = DOMAIN channels
    BY <1>2
  <1>7. Grew
    BY <1>1, <1>2, <1>4, <1>5, <1>6, ChannelTyped DEF Grew
  <1>8. ~channels'[id].open
    <2> PICK f \in BOOLEAN : f = FALSE
      OBVIOUS
    <2>1. channels' = [channels EXCEPT ![id] = [channels[id] EXCEPT !.open = f]]
      BY <1>2
    <2>2. channels'[id].open = f
      BY <1>1, <1>3, <2>1 DEF Chain!Channel
    <2> QED BY <2>2
  <1>9. EventFits(event)' /\ event'.type = "closed"
    BY <1>1, <1>2, <1>4, <1>6, <1>8, ChannelTyped DEF EventFits, Chain!Found
  <1> QED BY <1>2, <1>7, <1>9

-----------------------------------------------------------------------------
(* Who writes what: every other step leaves the variables alone.            *)
Step == [Next]_vars

LEMMA ChainWriters ==
    ASSUME Step
    PROVE  \/ UNCHANGED chainVars
           \/ (Invoked /\ log' = Append(log, event') /\ UNCHANGED facVars)
           \/ (Chain!LedgerCloses /\ LedgerCloses)
           \/ \E tx \in mempool : ClaimApplied(tx)
  BY DEF Step, Next, Invoked, vars, facVars, ChainMoves, LedgerCloses, LoadAsks, LoadAnswered, LoadInserts,
         LoadMisses, LoadFails, FlushStarts, FlushCommits, FlushFails, PollFetches, PollTakes,
         PollLoads, PollApplies, PollEnds, Accept, RejectCounted, MinutePasses, FrozenLearned,
         TickStarts, TickEnds, TickClaims, TickSkips, ManualClaim, Simulates, ClaimReturns,
         ClaimThrows, ClaimDropped, Crash, Shutdown, MemoryLost, Boot

LEMMA CacheWriters ==
    ASSUME Step
    PROVE  \/ UNCHANGED <<cache, dirty>>
           \/ UNCHANGED cache /\ (FlushStarts \/ \E i \in DOMAIN flushes : FlushFails(i))
           \/ \E id \in Ids : LoadInserts(id) \/ ClaimReturns(id)
           \/ PollApplies \/ Boot \/ Crash \/ Shutdown
           \/ \E id \in Ids, c \in Cumulatives, s \in signed, p \in Prices : Accept(id, c, s, p)
  BY DEF Step, Next, vars, facVars, ChainMoves, LedgerCloses, LoadAsks, LoadAnswered,
         LoadMisses, LoadFails, FlushStarts, FlushCommits, FlushFails, PollFetches, PollTakes,
         PollLoads, PollEnds, RejectCounted, MinutePasses, FrozenLearned,
         TickStarts, TickEnds, TickClaims, TickSkips, ManualClaim, Simulates,
         ClaimThrows, ClaimApplied, ClaimDropped, storeVars

LEMMA LoadWriters ==
    ASSUME Step
    PROVE  \/ UNCHANGED loading
           \/ \E id \in Ids : LoadAsks(id) \/ LoadAnswered(id) \/ LoadInserts(id)
                                \/ LoadMisses(id) \/ LoadFails(id)
           \/ PollLoads \/ Crash \/ Shutdown
  BY DEF Step, Next, vars, facVars, ChainMoves, LedgerCloses, FlushStarts, FlushCommits, FlushFails,
         PollFetches, PollTakes, PollApplies, PollEnds, Accept, RejectCounted, MinutePasses,
         FrozenLearned, TickStarts, TickEnds, TickClaims, TickSkips, ManualClaim, Simulates,
         ClaimReturns, ClaimThrows, ClaimApplied, ClaimDropped, Boot, storeVars

LEMMA DbWriters ==
    ASSUME Step
    PROVE  \/ UNCHANGED dbVars
           \/ FlushStarts \/ (\E i \in DOMAIN flushes : FlushCommits(i) \/ FlushFails(i))
           \/ Crash \/ Shutdown
  BY DEF Step, Next, vars, facVars, ChainMoves, LedgerCloses, LoadAsks, LoadAnswered, LoadInserts,
         LoadMisses, LoadFails, PollFetches, PollTakes, PollLoads, PollApplies, PollEnds, Accept,
         RejectCounted, MinutePasses, FrozenLearned, TickStarts, TickEnds, TickClaims, TickSkips,
         ManualClaim, Simulates, ClaimReturns, ClaimThrows, ClaimApplied, ClaimDropped, Boot

LEMMA WatchWriters ==
    ASSUME Step
    PROVE  \/ UNCHANGED watchVars
           \/ \E id \in Ids : LoadMisses(id) \/ LoadFails(id)
           \/ PollFetches \/ PollTakes \/ PollApplies \/ PollEnds \/ Boot \/ Crash \/ Shutdown
  BY DEF Step, Next, vars, facVars, ChainMoves, LedgerCloses, LoadAsks, LoadAnswered, LoadInserts,
         FlushStarts, FlushCommits, FlushFails, PollLoads, Accept, RejectCounted, MinutePasses,
         FrozenLearned, TickStarts, TickEnds, TickClaims, TickSkips, ManualClaim, Simulates,
         ClaimReturns, ClaimThrows, ClaimApplied, ClaimDropped

LEMMA ClaimWriters ==
    ASSUME Step
    PROVE  \/ UNCHANGED <<claims, mempool>>
           \/ \E id \in Ids : TickClaims(id) \/ ManualClaim(id) \/ Simulates(id)
                                \/ ClaimReturns(id) \/ ClaimThrows(id)
           \/ \E tx \in mempool : ClaimApplied(tx) \/ ClaimDropped(tx)
           \/ Crash \/ Shutdown
  BY DEF Step, Next, vars, facVars, ChainMoves, LedgerCloses, LoadAsks, LoadAnswered, LoadInserts,
         LoadMisses, LoadFails, FlushStarts, FlushCommits, FlushFails, PollFetches, PollTakes,
         PollLoads, PollApplies, PollEnds, Accept, RejectCounted, MinutePasses, FrozenLearned,
         TickStarts, TickEnds, TickSkips, Boot, claimVars

LEMMA TickWriters ==
    ASSUME Step
    PROVE  \/ UNCHANGED tick
           \/ TickStarts \/ TickEnds
           \/ \E id \in Ids : TickClaims(id) \/ TickSkips(id) \/ Simulates(id)
                                \/ ClaimReturns(id) \/ ClaimThrows(id)
           \/ Crash \/ Shutdown
  BY DEF Step, Next, vars, facVars, ChainMoves, LedgerCloses, LoadAsks, LoadAnswered, LoadInserts,
         LoadMisses, LoadFails, FlushStarts, FlushCommits, FlushFails, PollFetches, PollTakes,
         PollLoads, PollApplies, PollEnds, Accept, RejectCounted, MinutePasses, FrozenLearned,
         ManualClaim, ClaimApplied, ClaimDropped, Boot, claimVars

LEMMA PublishWriters ==
    ASSUME Step
    PROVE  \/ UNCHANGED publishVars
           \/ PollApplies \/ (\E id \in Ids : ClaimReturns(id)) \/ Crash \/ Shutdown
  BY DEF Step, Next, vars, facVars, ChainMoves, LedgerCloses, LoadAsks, LoadAnswered, LoadInserts,
         LoadMisses, LoadFails, FlushStarts, FlushCommits, FlushFails, PollFetches, PollTakes,
         PollLoads, PollEnds, Accept, RejectCounted, MinutePasses, FrozenLearned,
         TickStarts, TickEnds, TickClaims, TickSkips, ManualClaim, Simulates,
         ClaimThrows, ClaimApplied, ClaimDropped, Boot

LEMMA UpWriters ==
    ASSUME Step
    PROVE  UNCHANGED <<up, crashes>> \/ Boot \/ Crash \/ Shutdown
  BY DEF Step, Next, vars, facVars, ChainMoves, LedgerCloses, LoadAsks, LoadAnswered, LoadInserts,
         LoadMisses, LoadFails, FlushStarts, FlushCommits, FlushFails, PollFetches, PollTakes,
         PollLoads, PollApplies, PollEnds, Accept, RejectCounted, MinutePasses, FrozenLearned,
         TickStarts, TickEnds, TickClaims, TickSkips, ManualClaim, Simulates, ClaimReturns,
         ClaimThrows, ClaimApplied, ClaimDropped

LEMMA ServedWriters ==
    ASSUME Step
    PROVE  \/ UNCHANGED <<served, highest>>
           \/ \E id \in Ids, c \in Cumulatives, s \in signed, p \in Prices : Accept(id, c, s, p)
  BY DEF Step, Next, vars, facVars, ChainMoves, LedgerCloses, LoadAsks, LoadAnswered, LoadInserts,
         LoadMisses, LoadFails, FlushStarts, FlushCommits, FlushFails, PollFetches, PollTakes,
         PollLoads, PollApplies, PollEnds, RejectCounted, MinutePasses, FrozenLearned,
         TickStarts, TickEnds, TickClaims, TickSkips, ManualClaim, Simulates, ClaimReturns,
         ClaimThrows, ClaimApplied, ClaimDropped, Crash, Shutdown, MemoryLost, Boot, verifyVars

-----------------------------------------------------------------------------
(* The chain.                                                               *)

(* The log as it is, or with one more event that tells the new state.       *)
Logged ==
    \/ log' = log
    \/ log' = Append(log, event') /\ event' \in Chain!Event /\ EventFits(event)'

LEMMA InvokedGrows ==
    ASSUME Chain!TypeOK, Invoked
    PROVE  Grew /\ EventFits(event)' /\ event'.type \in Chain!EventTypes
  BY OpenGrows, TopUpGrows, ClaimGrows, CloseGrows, FacilitatorAssumption
  DEF Invoked, Chain!EventTypes

(* A voucher the contract takes is one of Cumulatives.                      *)
LEMMA ClaimInvokes ==
    ASSUME Chain!TypeOK, NEW tx \in Sent, Chain!Claim(tx.id, tx.cumulative, tx.sig)
    PROVE  Invoked
  <1>1. tx.id \in Ids /\ tx.sig \in signed
    BY DEF Sent
  <1>2. PICK k \in Keys, d \in Deployments, i \in Ids, c \in Cumulatives :
            tx.sig = Chain!Signature(k, d, i, c)
    BY <1>1 DEF Chain!TypeOK, Chain!Vouchers, Chain!Ids, Ids
  <1>3. tx.sig.hash = <<Here, tx.id, tx.cumulative>> /\ tx.sig.hash = <<d, i, c>>
    BY <1>2 DEF Chain!Claim, Chain!ClaimAccepted, Chain!voucher_hash, Chain!Signature
  <1>4. tx.cumulative \in Cumulatives
    BY <1>3
  <1> QED BY <1>1, <1>4 DEF Invoked

LEMMA ChainStep ==
    ASSUME ChainTyped, ClaimTyped, Step
    PROVE  ChainTyped' /\ Grew /\ Logged
  <1>1. CASE UNCHANGED chainVars
    <2>1. ChainTyped'
      BY <1>1, ContractTyped DEF chainVars, ChainTyped, Chain!Event
    <2>2. Grew /\ Logged
      BY <1>1, ChannelTyped DEF chainVars, Grew, Logged, ChainTyped, Chain!TypeOK
    <2> QED BY <2>1, <2>2
  <1>2. ASSUME Invoked, log' = Append(log, event')
        PROVE  ChainTyped' /\ Grew /\ Logged
    <2>1. Chain!TypeOK' /\ Grew /\ EventFits(event)' /\ event'.type \in Chain!EventTypes
      BY <1>2, ContractTyped, InvokedGrows DEF ChainTyped
    <2>2. event' \in Chain!Event
      BY <2>1 DEF Chain!TypeOK, Chain!NoEvent, Chain!EventTypes
    <2>3. log' \in Seq(Chain!Event)
      BY <1>2, <2>2, AppendProperties DEF ChainTyped
    <2>4. ChainTyped'
      BY <2>1, <2>3 DEF ChainTyped, Chain!Event
    <2> QED BY <1>2, <2>1, <2>2, <2>4 DEF Logged
  <1>3. CASE Chain!LedgerCloses /\ LedgerCloses
    <2>1. Chain!TypeOK'
      BY <1>3, ContractTyped DEF ChainTyped
    <2>2. log' = log
      BY <1>3 DEF LedgerCloses
    <2>3. Grew
      BY <1>3, ChannelTyped DEF Grew, Chain!LedgerCloses, ChainTyped, Chain!TypeOK
    <2> QED BY <2>1, <2>2, <2>3 DEF ChainTyped, Logged, Chain!Event
  <1>4. ASSUME NEW tx \in mempool, ClaimApplied(tx)
        PROVE  ChainTyped' /\ Grew /\ Logged
    <2>1. CASE UNCHANGED chainVars
      BY <1>1, <2>1
    <2>2. CASE Chain!Claim(tx.id, tx.cumulative, tx.sig) /\ log' = Append(log, event')
      <3>1. Invoked
        BY <2>2, ClaimInvokes DEF ChainTyped, ClaimTyped
      <3> QED BY <1>2, <2>2, <3>1
    <2> QED BY <1>4, <2>1, <2>2 DEF ClaimApplied
  <1> QED BY <1>1, <1>2, <1>3, <1>4, ChainWriters

-----------------------------------------------------------------------------
(* Data.                                                                    *)

(* The first of some positions of a sequence.                               *)
LEMMA MinIsFirst ==
    ASSUME NEW n \in Nat, NEW S, S \subseteq 1..n, S # {}
    PROVE  Min(S) \in S /\ \A y \in S : Min(S) <= y
  <1> DEFINE B == {1..k : k \in S}
  <1>1. B \subseteq SUBSET (1..n) /\ B # {}
    <2>1. PICK x \in S : TRUE
      OBVIOUS
    <2>2. 1..x \in B
      OBVIOUS
    <2>3. ASSUME NEW k \in S
          PROVE  1..k \subseteq 1..n
      OBVIOUS
    <2> QED BY <2>2, <2>3
  <1>2. IsFiniteSet(1..n)
    BY FS_Interval
  <1>3. \E T \in B : \A U \in SUBSET T : U # T => U \notin B
    <2> HIDE DEF B
    <2> QED BY <1>1, <1>2, SmallestSet
  <1>4. PICK k \in S : \A U \in SUBSET (1..k) : U # 1..k => U \notin B
    BY <1>3
  <1>5. \A j \in S : k <= j
    <2> SUFFICES ASSUME NEW j \in S, j < k PROVE FALSE
      BY <1>4
    <2>1. j \in 1..n /\ k \in 1..n
      OBVIOUS
    <2>2. 1..j \in SUBSET (1..k) /\ k \in 1..k /\ k \notin 1..j
      BY <2>1
    <2>3. 1..j \in B
      OBVIOUS
    <2> QED BY <1>4, <2>2, <2>3
  <1> QED BY <1>5 DEF Min

LEMMA Shifted ==
    ASSUME NEW n \in Nat, NEW i \in 1..n, NEW j \in 1..((i - 1) + (n - i)), j > i - 1
    PROVE  j - (i - 1) \in 1..(n - i) /\ i + (j - (i - 1)) \in 1..n
  OBVIOUS

LEMMA RemoveAtLeaves ==
    ASSUME NEW S, NEW s \in Seq(S), NEW i \in DOMAIN s
    PROVE  /\ RemoveAt(s, i) \in Seq(S)
           /\ Len(RemoveAt(s, i)) = Len(s) - 1
           /\ \A j \in DOMAIN RemoveAt(s, i) : \E k \in DOMAIN s : RemoveAt(s, i)[j] = s[k]
  <1> DEFINE a == SubSeq(s, 1, i - 1)
             b == SubSeq(s, i + 1, Len(s))
  <1>1. i \in 1..Len(s) /\ Len(s) \in Nat
    OBVIOUS
  <1>2. a \in Seq(S) /\ Len(a) = i - 1 /\ \A j \in 1..Len(a) : a[j] = s[j]
    BY <1>1, SubSeqProperties
  <1>3. b \in Seq(S) /\ Len(b) = Len(s) - i /\ \A j \in 1..Len(b) : b[j] = s[i + j]
    BY <1>1, SubSeqProperties
  <1>4. RemoveAt(s, i) = a \o b
    BY DEF RemoveAt
  <1> HIDE DEF a, b
  <1>5. /\ a \o b \in Seq(S) /\ Len(a \o b) = Len(a) + Len(b)
        /\ \A j \in 1..(Len(a) + Len(b)) :
              (a \o b)[j] = IF j <= Len(a) THEN a[j] ELSE b[j - Len(a)]
    <2>1. a \in Seq(S) /\ b \in Seq(S)
      BY <1>2, <1>3
    <2> QED BY ONLY <2>1, ConcatProperties
  <1>6. ASSUME NEW j \in 1..(Len(a) + Len(b))
        PROVE  \E h \in 1..Len(s) : (a \o b)[j] = s[h]
    <2>1. CASE j <= Len(a)
      <3>1. (a \o b)[j] = a[j]
        BY <1>5, <2>1
      <3>2. j \in 1..Len(a) /\ j \in 1..Len(s)
        BY <1>1, <1>2, <1>6, <2>1
      <3> QED BY <1>2, <3>1, <3>2
    <2>2. CASE j > Len(a)
      <3> DEFINE k == j - (i - 1)
      <3>1. j \in Int /\ Len(a) = i - 1 /\ Len(b) = Len(s) - i /\ i \in Int /\ Len(s) \in Int
        BY <1>1, <1>2, <1>3
      <3>2. j \in 1..((i - 1) + (Len(s) - i)) /\ j > i - 1
        BY <2>2, <3>1
      <3>3. k \in 1..(Len(s) - i) /\ i + k \in 1..Len(s)
        BY ONLY <1>1, <3>2, Shifted DEF k
      <3>4. (a \o b)[j] = b[k]
        <4>1. (a \o b)[j] = IF j <= Len(a) THEN a[j] ELSE b[j - Len(a)]
          BY <1>5
        <4> QED BY <2>2, <3>1, <4>1
      <3> QED BY <1>3, <3>1, <3>3, <3>4
    <2>3. j <= Len(a) \/ j > Len(a)
      BY <1>1, <1>2
    <2> QED BY <2>1, <2>2, <2>3
  <1>7. Len(a \o b) = Len(s) - 1 /\ Len(a) + Len(b) = Len(s) - 1
    BY <1>1, <1>2, <1>3, <1>5
  <1>8. DOMAIN (a \o b) = 1..Len(a \o b) /\ DOMAIN s = 1..Len(s)
    BY <1>5
  <1> QED BY <1>4, <1>5, <1>6, <1>7, <1>8

LEMMA WithTyped ==
    ASSUME NEW f \in Table, NEW id \in Ids, NEW row \in Row
    PROVE  /\ With(f, id, row) \in Table
           /\ DOMAIN With(f, id, row) = DOMAIN f \cup {id}
           /\ With(f, id, row)[id] = row
           /\ \A i \in DOMAIN f : i # id => With(f, id, row)[i] = f[i]
  <1>1. PICK D \in SUBSET Ids : f \in [D -> Row]
    BY DEF Table
  <1>2. D \cup {id} \in SUBSET Ids
    OBVIOUS
  <1>3. With(f, id, row) \in [D \cup {id} -> Row]
    BY <1>1 DEF With
  <1> QED BY <1>1, <1>2, <1>3 DEF Table, With

LEMMA RowTyped ==
    ASSUME NEW f \in Table, NEW id \in DOMAIN f
    PROVE  /\ id \in Ids /\ f[id] \in Row
           /\ f[id].voucherKey \in Keys /\ f[id].expiryLedger \in Nat /\ f[id].open \in BOOLEAN
           /\ f[id].deposit \in Int /\ f[id].claimed \in Int /\ f[id].lastAccepted \in Int
           /\ f[id].lastSig \in signed \cup {NoSig} /\ f[id].vouchersSinceClaim \in Nat
  BY DEF Table, Row

(* Types that mention the signed vouchers stay as they are.                 *)
LEMMA TypesStay ==
    ASSUME signed' = signed
    PROVE  Row' = Row /\ Table' = Table /\ InFlight' = InFlight /\ Sent' = Sent
  BY DEF Row, Table, InFlight, Sent

(* The page of a poll and the look of a tick.                               *)
LEMMA Awaiting ==
    ASSUME ChainTyped, WatchTyped, poll.at = "awaiting"
    PROVE  /\ poll \in Page /\ poll.events # {} /\ poll.events \subseteq DOMAIN log
           /\ Min(poll.events) \in poll.events /\ Min(poll.events) \in DOMAIN log
           /\ \A i \in poll.events : Min(poll.events) <= i
           /\ log[Min(poll.events)] \in Chain!Event /\ log[Min(poll.events)].id \in Ids
  <1>1. poll \in Page /\ poll.events # {}
    BY DEF WatchTyped, Idle
  <1>2. poll.events \subseteq DOMAIN log /\ DOMAIN log = 1..Len(log) /\ Len(log) \in Nat
    BY <1>1 DEF Page, ChainTyped
  <1>3. Min(poll.events) \in poll.events /\ \A i \in poll.events : Min(poll.events) <= i
    BY <1>1, <1>2, MinIsFirst
  <1>4. Min(poll.events) \in DOMAIN log /\ log[Min(poll.events)] \in Chain!Event
    BY <1>2, <1>3 DEF ChainTyped
  <1>5. log[Min(poll.events)].id \in Ids
    BY <1>4 DEF Chain!Event, Chain!Ids, Ids
  <1> QED BY <1>1, <1>2, <1>3, <1>4, <1>5

-----------------------------------------------------------------------------
(* The cache: the row a step writes is one.                                 *)
LEMMA InsertTyped ==
    ASSUME NEW state \in Answer
    PROVE  insert(state) \in Row
  BY DEF insert, Answer, Row

LEMMA AppliedTyped ==
    ASSUME NEW ch \in Row, NEW e \in Chain!Event
    PROVE  ToppedUp(ch, e) \in Row /\ Claimed(ch, e) \in Row /\ Closed(ch, e) \in Row
  <1>1. e.total \in Int
    BY DEF Chain!Event
  <1>2. \A x \in Int, y \in Int : Max2(x, y) \in Int
    BY DEF Max2
  <1>3. ch.claimed \in Int /\ ch.lastAccepted \in Int
    BY DEF Row
  <1>4. Max2(ch.claimed, e.total) \in Int /\ Max2(ch.lastAccepted, e.total) \in Int
    BY <1>1, <1>2, <1>3
  <1>5. ToppedUp(ch, e) \in Row
    BY <1>1 DEF ToppedUp, Row
  <1>6. Claimed(ch, e) \in Row
    BY <1>4 DEF Claimed, Row
  <1>7. Closed(ch, e) \in Row
    BY <1>4 DEF Closed, Row
  <1> QED BY <1>5, <1>6, <1>7

(* The claim in flight of a channel, and its row.                           *)
LEMMA InFlightTyped ==
    ASSUME StoreTyped, ClaimTyped, NEW id \in Ids, claims[id] # Idle
    PROVE  /\ id \in DOMAIN cache /\ cache[id] \in Row /\ claims[id] \in InFlight
           /\ claims[id].cumulative \in Int /\ claims[id].sig \in signed
           /\ claims[id].covered \in Nat /\ claims[id].tx \in Nat /\ claims[id].byTick \in BOOLEAN
  <1>1. id \in DOMAIN cache /\ claims[id] \in InFlight
    BY DEF ClaimTyped, Cached
  <1> QED BY <1>1, RowTyped DEF StoreTyped, InFlight

(* How a step may change the cache: not at all, at one channel, as a whole.
   ch is the new row.                                                       *)
Writes(id, ch) ==
    /\ Update(id, ch) /\ ch \in Row
    /\ \/ loading[id].at = "answered" /\ ch = insert(loading[id].state) /\ loading'[id] = Idle
       \/ Cached(id) /\ ch.voucherKey = cache[id].voucherKey

LEMMA LoadInsertsWrites ==
    ASSUME StoreTyped, NEW id \in Ids, LoadInserts(id)
    PROVE  Writes(id, insert(loading[id].state)) /\ loading[id].state \in Answer
  <1>1. loading[id] \in Load /\ loading[id].at = "answered"
    BY DEF StoreTyped, LoadInserts
  <1>2. loading[id].state \in Answer
    BY <1>1 DEF Load, Idle, Asked
  <1>3. loading'[id] = Idle
    BY DEF LoadInserts, StoreTyped
  <1> QED BY <1>1, <1>2, <1>3, InsertTyped DEF LoadInserts, Writes

LEMMA ClaimReturnsWrites ==
    ASSUME StoreTyped, ClaimTyped, NEW id \in Ids, ClaimReturns(id)
    PROVE  Writes(id, [cache[id] EXCEPT
                          !.claimed = Max2(@, claims[id].cumulative),
                          !.vouchersSinceClaim = Max2(0, @ - claims[id].covered)])
  <1>1. claims[id] # Idle
    BY DEF ClaimReturns, Idle
  <1>2. /\ id \in DOMAIN cache /\ cache[id] \in Row
        /\ claims[id].cumulative \in Int /\ claims[id].covered \in Nat
    BY <1>1, InFlightTyped
  <1>3. cache[id].claimed \in Int /\ cache[id].vouchersSinceClaim \in Nat
    BY <1>2 DEF Row
  <1>4. /\ Max2(cache[id].claimed, claims[id].cumulative) \in Int
        /\ Max2(0, cache[id].vouchersSinceClaim - claims[id].covered) \in Nat
    BY <1>2, <1>3 DEF Max2
  <1> DEFINE ch == [cache[id] EXCEPT
                          !.claimed = Max2(@, claims[id].cumulative),
                          !.vouchersSinceClaim = Max2(0, @ - claims[id].covered)]
  <1>5. ch \in Row /\ ch.voucherKey = cache[id].voucherKey
    BY <1>2, <1>4 DEF Row
  <1> QED BY <1>2, <1>5 DEF ClaimReturns, Writes, Cached

LEMMA AcceptWrites ==
    ASSUME StoreTyped, NEW id \in Ids, NEW c \in Cumulatives, NEW s \in signed, NEW p \in Prices,
           Accept(id, c, s, p)
    PROVE  Writes(id, [cache[id] EXCEPT !.lastAccepted = c, !.lastSig = s,
                                        !.vouchersSinceClaim = @ + 1])
  <1>1. id \in DOMAIN cache /\ cache[id] \in Row /\ c \in Int
    BY RowTyped, FacilitatorAssumption DEF StoreTyped, Accept, Cached
  <1>2. cache[id].vouchersSinceClaim + 1 \in Nat
    BY <1>1 DEF Row
  <1> DEFINE ch == [cache[id] EXCEPT !.lastAccepted = c, !.lastSig = s,
                                        !.vouchersSinceClaim = @ + 1]
  <1>3. ch \in Row /\ ch.voucherKey = cache[id].voucherKey
    BY <1>1, <1>2 DEF Row
  <1> QED BY <1>1, <1>3 DEF Accept, Writes, Cached

(* The rows the watcher makes of an event.                                  *)
Applying(ch, e) ==
    CASE e.type = "topped_up" -> ToppedUp(ch, e)
      [] e.type = "claimed"   -> Claimed(ch, e)
      [] e.type = "closed"    -> Closed(ch, e)

LEMMA PollAppliesWrites ==
    ASSUME ChainTyped, StoreTyped, WatchTyped, PollApplies
    PROVE  LET e == log[Min(poll.events)] IN
           /\ e \in Chain!Event /\ e.id \in Ids /\ e.id \in DOMAIN cache
           /\ \/ UNCHANGED <<cache, dirty>> /\ (e.type = "opened" \/ (e.type = "closed" /\ ~cache[e.id].open))
              \/ /\ e.type \in {"topped_up", "claimed", "closed"}
                 /\ Writes(e.id, Applying(cache[e.id], e))
  <1> DEFINE e == log[Min(poll.events)]
             ch == cache[e.id]
  <1>1. e \in Chain!Event /\ e.id \in Ids
    BY Awaiting DEF PollApplies
  <1>2. e.id \in DOMAIN cache /\ applyChainEvent(e.id, e)
    BY DEF PollApplies, Cached
  <1>3. ch \in Row
    BY <1>2, RowTyped DEF StoreTyped
  <1>4. e.type \in {"opened", "topped_up", "claimed", "closed"}
    BY <1>1 DEF Chain!Event, Chain!EventTypes
  <1> HIDE DEF e
  <1>5. CASE e.type = "opened" \/ (e.type = "closed" /\ ~ch.open)
    BY <1>1, <1>2, <1>5 DEF applyChainEvent, e
  <1>6. CASE ~(e.type = "opened" \/ (e.type = "closed" /\ ~ch.open))
    <2>1. Update(e.id, Applying(ch, e)) /\ e.type \in {"topped_up", "claimed", "closed"}
      BY <1>2, <1>4, <1>6 DEF applyChainEvent, Applying
    <2>2. /\ ToppedUp(ch, e).voucherKey = ch.voucherKey
          /\ Claimed(ch, e).voucherKey = ch.voucherKey
          /\ Closed(ch, e).voucherKey = ch.voucherKey
      BY <1>3 DEF ToppedUp, Claimed, Closed, Row
    <2>3. Applying(ch, e) \in Row /\ Applying(ch, e).voucherKey = ch.voucherKey
      BY <1>1, <1>3, <2>1, <2>2, AppliedTyped DEF Applying
    <2> QED BY <1>1, <1>2, <2>1, <2>3 DEF Writes, Cached, e
  <1> QED BY <1>5, <1>6

LEMMA CacheStep ==
    ASSUME Typed, Step
    PROVE  \/ UNCHANGED cache /\ (UNCHANGED dirty \/ FlushStarts \/ \E i \in DOMAIN flushes : FlushFails(i))
           \/ \E id \in Ids, ch \in Row : Writes(id, ch)
           \/ Boot \/ Crash \/ Shutdown
  <1> USE DEF Typed
  <1>1. ASSUME NEW id \in Ids, LoadInserts(id) PROVE \E i \in Ids, ch \in Row : Writes(i, ch)
    BY <1>1, LoadInsertsWrites DEF Writes
  <1>2. ASSUME NEW id \in Ids, ClaimReturns(id) PROVE \E i \in Ids, ch \in Row : Writes(i, ch)
    BY <1>2, ClaimReturnsWrites DEF Writes
  <1>3. ASSUME NEW id \in Ids, NEW c \in Cumulatives, NEW s \in signed, NEW p \in Prices,
               Accept(id, c, s, p)
        PROVE  \E i \in Ids, ch \in Row : Writes(i, ch)
    BY <1>3, AcceptWrites DEF Writes
  <1>4. ASSUME PollApplies
        PROVE  UNCHANGED <<cache, dirty>> \/ \E i \in Ids, ch \in Row : Writes(i, ch)
    BY <1>4, PollAppliesWrites DEF Writes
  <1> QED BY <1>1, <1>2, <1>3, <1>4, CacheWriters

LEMMA WritesEffect ==
    ASSUME StoreTyped, NEW id \in Ids, NEW ch, Writes(id, ch)
    PROVE  /\ cache' \in Table /\ DOMAIN cache' = DOMAIN cache \cup {id}
           /\ cache'[id] = ch
           /\ \A i \in DOMAIN cache : i # id => cache'[i] = cache[i]
           /\ dirty' = dirty \cup {id}
  BY WithTyped DEF Writes, Update, StoreTyped

LEMMA EmptyTyped == Empty \in Table /\ DOMAIN Empty = {}
  <1>1. Empty \in [{} -> Row] /\ {} \in SUBSET Ids
    BY DEF Empty
  <1> QED BY <1>1 DEF Table, Empty

LEMMA RowsTyped ==
    ASSUME StoreTyped
    PROVE  Rows(dirty) \in Table /\ DOMAIN Rows(dirty) = dirty
  <1>1. dirty \in SUBSET Ids
    BY RowTyped DEF StoreTyped
  <1>2. Rows(dirty) \in [dirty -> Row]
    BY RowTyped DEF Rows, StoreTyped
  <1> QED BY <1>1, <1>2 DEF Table

LEMMA WrittenTyped ==
    ASSUME db \in Table, NEW rows \in Table
    PROVE  /\ Written(rows) \in Table /\ DOMAIN Written(rows) = DOMAIN db \cup DOMAIN rows
           /\ \A id \in DOMAIN rows : Written(rows)[id] = rows[id]
           /\ \A id \in DOMAIN db \ DOMAIN rows : Written(rows)[id] = db[id]
  <1>1. DOMAIN db \cup DOMAIN rows \in SUBSET Ids
    BY RowTyped
  <1>2. Written(rows) \in [DOMAIN db \cup DOMAIN rows -> Row]
    BY RowTyped DEF Written
  <1> QED BY <1>1, <1>2 DEF Table, Written

(* What a step may do to Postgres and the transactions on their way.        *)
Stores ==
    \/ UNCHANGED dbVars
    \/ db' = db /\ flushes' = Append(flushes, Rows(dirty)) /\ FlushStarts
    \/ \E i \in DOMAIN flushes : /\ db' \in {db, Written(flushes[i])}
                                 /\ flushes' = RemoveAt(flushes, i)
                                 /\ FlushCommits(i) \/ FlushFails(i)
    \/ /\ flushes' = <<>> /\ MemoryLost
       /\ \/ db' = db
          \/ \E i \in DOMAIN flushes : db' = Written(flushes[i])
          \/ flushes = <<>> /\ db' = Written(Rows(dirty))

LEMMA DbStep == ASSUME Step PROVE Stores
  BY DbWriters DEF Stores, FlushStarts, FlushCommits, FlushFails, Crash, Shutdown, MemoryLost

LEMMA StoresTyped ==
    ASSUME StoreTyped, Stores
    PROVE  db' \in Table /\ flushes' \in Seq(Table)
  <1>1. flushes \in Seq(Table) /\ db \in Table
    BY DEF StoreTyped
  <1>2. CASE UNCHANGED dbVars
    BY <1>1, <1>2 DEF dbVars
  <1>3. CASE db' = db /\ flushes' = Append(flushes, Rows(dirty))
    BY <1>1, <1>3, RowsTyped, AppendProperties
  <1>4. ASSUME NEW i \in DOMAIN flushes, db' \in {db, Written(flushes[i])},
               flushes' = RemoveAt(flushes, i)
        PROVE  db' \in Table /\ flushes' \in Seq(Table)
    <2>1. flushes[i] \in Table
      BY <1>1
    <2> QED BY <1>1, <1>4, <2>1, WrittenTyped, RemoveAtLeaves
  <1>5. CASE /\ flushes' = <<>>
             /\ \/ db' = db
                \/ \E i \in DOMAIN flushes : db' = Written(flushes[i])
                \/ db' = Written(Rows(dirty))
    <2>1. \A i \in DOMAIN flushes : flushes[i] \in Table
      BY <1>1
    <2>2. <<>> \in Seq(Table)
      OBVIOUS
    <2> QED BY <1>1, <1>5, <2>1, <2>2, WrittenTyped, RowsTyped
  <1> QED BY <1>2, <1>3, <1>4, <1>5 DEF Stores

LEMMA LoadStep ==
    ASSUME ChainTyped, StoreTyped, Step
    PROVE  loading' \in [Ids -> Load]
  <1>1. loading \in [Ids -> Load]
    BY DEF StoreTyped
  <1>2. ASSUME NEW id \in DOMAIN channels PROVE ChannelState(id) \in Answer
    BY ChannelTyped DEF ChainTyped, ChannelState, Answer
  <1>3. ASSUME NEW id \in Ids, LoadAnswered(id) PROVE loading' \in [Ids -> Load]
    <2> DEFINE x == IF Chain!Found(id) THEN [at |-> "answered", state |-> ChannelState(id)]
                                       ELSE [at |-> "missing"]
    <2>1. x \in Load
      BY <1>2 DEF Load, Chain!Found
    <2>2. loading' = [loading EXCEPT ![id] = x]
      BY <1>3 DEF LoadAnswered
    <2> QED BY <1>1, <2>1, <2>2
  <1>4. Idle \in Load /\ Asked \in Load
    BY DEF Load
  <1>5. ASSUME NEW id, LoadAsks(id) PROVE loading' \in [Ids -> Load]
    BY <1>1, <1>4, <1>5 DEF LoadAsks
  <1>6. ASSUME NEW id, LoadInserts(id) \/ LoadMisses(id) \/ LoadFails(id)
        PROVE  loading' \in [Ids -> Load]
    BY <1>1, <1>4, <1>6 DEF LoadInserts, LoadMisses, LoadFails
  <1>7. ASSUME Crash \/ Shutdown PROVE loading' \in [Ids -> Load]
    BY <1>4, <1>7 DEF Crash, Shutdown, MemoryLost
  <1> QED BY <1>1, <1>3, <1>5, <1>6, <1>7, LoadWriters DEF PollLoads

(* Everybody who loads a channel does so because it is not cached.          *)
LEMMA LoadingMissing ==
    ASSUME Typed, Step
    PROVE  \A id \in Ids : loading'[id] # Idle => ~Cached(id)'
  <1> USE DEF Typed
  <1>0. loading \in [Ids -> Load] /\ \A id \in Ids : loading[id] # Idle => ~Cached(id)
    BY DEF StoreTyped
  <1>1. CASE Crash \/ Shutdown
    BY <1>1 DEF Crash, Shutdown, MemoryLost
  <1>2. CASE Boot
    <2>1. \A id \in Ids : loading'[id] = Idle
      BY <1>2 DEF Boot, DownIsEmpty
    <2> QED BY <2>1
  <1>3. ASSUME NEW id \in Ids, NEW ch \in Row, Writes(id, ch)
        PROVE  \A i \in Ids : loading'[i] # Idle => ~Cached(i)'
    <2>1. \A i \in Ids \ {id} : Cached(i)' <=> Cached(i)
      BY <1>3, WritesEffect DEF Cached
    <2>2. CASE UNCHANGED loading
      BY <1>0, <1>3, <2>1, <2>2 DEF Writes, Idle
    <2>3. CASE \E j \in Ids : LoadInserts(j)
      <3> PICK j \in Ids : LoadInserts(j)
        BY <2>3
      <3>1. cache' = With(cache, j, insert(loading[j].state)) /\ ~Cached(j)
        BY <1>0 DEF LoadInserts, Update, Idle
      <3>2. j \in DOMAIN cache'
        BY <3>1, WithTyped DEF With
      <3>3. j = id
        <4>1. DOMAIN cache' = DOMAIN cache \cup {id}
          BY <1>3, WritesEffect
        <4> QED BY <3>1, <3>2, <4>1 DEF Cached
      <3>4. loading' = [loading EXCEPT ![id] = Idle]
        BY <3>3 DEF LoadInserts
      <3> QED BY <1>0, <2>1, <3>4
    <2>4. CASE \E j \in Ids : LoadAsks(j) \/ LoadAnswered(j) \/ LoadMisses(j) \/ LoadFails(j)
      <3>1. DOMAIN cache' = DOMAIN cache
        BY <2>4 DEF LoadAsks, LoadAnswered, LoadMisses, LoadFails
      <3>2. \A i \in Ids : loading'[i] # Idle => loading[i] # Idle \/ ~Cached(i)
        BY <1>0, <2>4 DEF LoadAsks, LoadAnswered, LoadMisses, LoadFails, Idle, Asked
      <3> QED BY <1>0, <3>1, <3>2 DEF Cached
    <2>5. CASE PollLoads
      <3>1. DOMAIN cache' = DOMAIN cache
        BY <2>5 DEF PollLoads, LoadAsks
      <3>2. \A i \in Ids : loading'[i] # Idle => loading[i] # Idle \/ ~Cached(i)
        BY <1>0, <2>5 DEF PollLoads, LoadAsks
      <3> QED BY <1>0, <3>1, <3>2 DEF Cached
    <2> QED BY <1>1, <2>2, <2>3, <2>4, <2>5, LoadWriters
  <1>4. CASE UNCHANGED cache
    <2>1. \A i \in Ids : loading'[i] # Idle => loading[i] # Idle \/ ~Cached(i)
      <3>1. CASE \E j \in Ids : LoadAsks(j) \/ LoadAnswered(j) \/ LoadMisses(j) \/ LoadFails(j) \/ LoadInserts(j)
        BY <1>0, <3>1 DEF LoadAsks, LoadAnswered, LoadMisses, LoadFails, LoadInserts, Idle, Asked
      <3>2. CASE PollLoads
        BY <1>0, <3>2 DEF PollLoads, LoadAsks
      <3>3. CASE UNCHANGED loading
        BY <1>0, <3>3
      <3> QED BY <1>1, <3>1, <3>2, <3>3, LoadWriters DEF Crash, Shutdown, MemoryLost
    <2> QED BY <1>0, <1>4, <2>1 DEF Cached
  <1> QED BY <1>1, <1>2, <1>3, <1>4, CacheStep

LEMMA CacheTyped ==
    ASSUME Typed, Step
    PROVE  /\ cache' \in Table /\ dirty' \subseteq DOMAIN cache'
           /\ \/ Crash \/ Shutdown
              \/ DOMAIN cache \subseteq DOMAIN cache'
  <1>0. cache \in Table /\ db \in Table /\ flushes \in Seq(Table) /\ dirty \subseteq DOMAIN cache
    BY DEF Typed, StoreTyped
  <1>1. CASE UNCHANGED cache /\ (UNCHANGED dirty \/ FlushStarts \/ \E i \in DOMAIN flushes : FlushFails(i))
    <2>1. dirty' \subseteq DOMAIN cache
      BY <1>0, <1>1 DEF FlushStarts, FlushFails, PutBack, Typed, StoreTyped
    <2> QED BY <1>0, <1>1, <2>1
  <1>2. ASSUME NEW id \in Ids, NEW ch \in Row, Writes(id, ch)
        PROVE  /\ cache' \in Table /\ dirty' \subseteq DOMAIN cache'
               /\ DOMAIN cache \subseteq DOMAIN cache'
    BY <1>0, <1>2, WritesEffect DEF Typed
  <1>3. CASE Boot
    BY <1>0, <1>3, EmptyTyped DEF Boot, Typed, DownIsEmpty
  <1>4. CASE Crash \/ Shutdown
    BY <1>0, <1>4, EmptyTyped DEF Crash, Shutdown, MemoryLost
  <1> QED BY <1>1, <1>2, <1>3, <1>4, CacheStep

LEMMA StoreStep ==
    ASSUME Typed, Step
    PROVE  StoreTyped'
  <1>1. signed' = signed
    BY ChainStep DEF Typed, Grew
  <1>2. cache' \in Table /\ dirty' \subseteq DOMAIN cache'
    BY CacheTyped
  <1>3. Stores /\ db' \in Table /\ flushes' \in Seq(Table)
    BY DbStep, StoresTyped DEF Typed
  <1>4. \A i \in DOMAIN flushes' : DOMAIN flushes'[i] \subseteq DOMAIN cache'
    <2>0. /\ flushes \in Seq(Table) /\ \A i \in DOMAIN flushes : DOMAIN flushes[i] \subseteq DOMAIN cache
      BY DEF Typed, StoreTyped
    <2>1. CASE flushes' = <<>>
      BY <2>1
    <2>2. CASE flushes' = flushes
      <3>1. Crash \/ Shutdown => flushes' = <<>>
        BY DEF Crash, Shutdown, MemoryLost
      <3>2. CASE DOMAIN cache \subseteq DOMAIN cache'
        BY <2>0, <2>2, <3>2
      <3> QED BY <2>1, <3>1, <3>2, CacheTyped
    <2>3. CASE FlushStarts
      <3>1. flushes' = Append(flushes, Rows(dirty)) /\ cache' = cache
        BY <2>3 DEF FlushStarts
      <3>2. DOMAIN Rows(dirty) \subseteq DOMAIN cache /\ Rows(dirty) \in Table
        BY RowsTyped DEF Typed, StoreTyped
      <3>3. /\ DOMAIN flushes' = 1..(Len(flushes) + 1) /\ DOMAIN flushes = 1..Len(flushes)
            /\ flushes'[Len(flushes) + 1] = Rows(dirty)
            /\ \A i \in 1..Len(flushes) : flushes'[i] = flushes[i]
        BY <2>0, <3>1, <3>2, AppendProperties
      <3>4. \A i \in 1..(Len(flushes) + 1) : i \in 1..Len(flushes) \/ i = Len(flushes) + 1
        BY <2>0
      <3> QED BY <2>0, <3>1, <3>2, <3>3, <3>4
    <2>4. ASSUME NEW i \in DOMAIN flushes, flushes' = RemoveAt(flushes, i),
                 FlushCommits(i) \/ FlushFails(i)
          PROVE  \A j \in DOMAIN flushes' : DOMAIN flushes'[j] \subseteq DOMAIN cache'
      <3>1. \A j \in DOMAIN flushes' : \E k \in DOMAIN flushes : flushes'[j] = flushes[k]
        BY <2>0, <2>4, RemoveAtLeaves
      <3>2. cache' = cache
        BY <2>4 DEF FlushCommits, FlushFails, storeVars
      <3> QED BY <2>0, <3>1, <3>2
    <2> QED BY <1>3, <2>1, <2>2, <2>3, <2>4 DEF Stores, dbVars
  <1>5. loading' \in [Ids -> Load]
    BY LoadStep DEF Typed
  <1>6. Load' = Load
    BY DEF Load, Answer, Idle, Asked
  <1> QED BY <1>1, <1>2, <1>3, <1>4, <1>5, <1>6, LoadingMissing, TypesStay DEF StoreTyped

-----------------------------------------------------------------------------
(* The watcher.                                                             *)
LEMMA LogGrows ==
    ASSUME ChainTyped, Logged
    PROVE  /\ DOMAIN log \subseteq DOMAIN log'
           /\ \A i \in DOMAIN log : log'[i] = log[i]
           /\ \A i \in DOMAIN log' \ DOMAIN log :
                 /\ i = Len(log) + 1 /\ log' = Append(log, event')
                 /\ log'[i] = event' /\ event' \in Chain!Event /\ EventFits(event)'
  <1>1. log \in Seq(Chain!Event)
    BY DEF ChainTyped
  <1>2. CASE log' = log
    BY <1>2
  <1>3. CASE log' = Append(log, event') /\ event' \in Chain!Event /\ EventFits(event)'
    <2>1. /\ Len(log) \in Nat /\ DOMAIN log = 1..Len(log) /\ DOMAIN log' = 1..(Len(log) + 1)
          /\ log'[Len(log) + 1] = event' /\ \A i \in 1..Len(log) : log'[i] = log[i]
      BY <1>1, <1>3, AppendProperties
    <2>2. 1..Len(log) \subseteq 1..(Len(log) + 1)
      BY <2>1
    <2>3. \A i \in 1..(Len(log) + 1) : i \in 1..Len(log) \/ i = Len(log) + 1
      BY <2>1
    <2> QED BY <1>3, <2>1, <2>2, <2>3
  <1> QED BY <1>2, <1>3 DEF Logged

LEMMA PageStays ==
    ASSUME ChainTyped, Grew, Logged, ledger' \in Int
    PROVE  Page \subseteq Page'
  <1>1. ledger \in Nat /\ ledger <= ledger'
    BY DEF ChainTyped, Chain!TypeOK, Grew
  <1>2. 0..ledger \subseteq 0..(ledger') /\ DOMAIN log \subseteq DOMAIN log'
    BY <1>1, LogGrows
  <1> QED BY <1>2 DEF Page

(* The watcher drops an event or has applied it.                            *)
LEMMA GoesOn ==
    ASSUME ChainTyped, WatchTyped, Fits, poll.at = "awaiting", PollGoesOn
    PROVE  /\ cursor' \in 0..ledger
           /\ poll' \in Page /\ poll'.at = "applying"
           /\ poll'.events = poll.events \ {Min(poll.events)} /\ poll'.latest = poll.latest
           /\ cursor' = Max2(cursor, log[Min(poll.events)].ledger)
  <1>1. /\ poll \in Page /\ Min(poll.events) \in DOMAIN log
        /\ log[Min(poll.events)] \in Chain!Event
    BY Awaiting
  <1>2. log[Min(poll.events)].ledger \in Nat /\ log[Min(poll.events)].ledger <= ledger
    BY <1>1 DEF Fits, EventFits, Chain!Event
  <1>3. cursor' \in 0..ledger /\ cursor' = Max2(cursor, log[Min(poll.events)].ledger)
    BY <1>2 DEF PollGoesOn, Max2, WatchTyped, ChainTyped, Chain!TypeOK
  <1>4. /\ poll' = [poll EXCEPT !.at = "applying", !.events = poll.events \ {Min(poll.events)}]
    BY DEF PollGoesOn, Others
  <1>5. /\ poll' \in Page /\ poll'.at = "applying"
        /\ poll'.events = poll.events \ {Min(poll.events)} /\ poll'.latest = poll.latest
    BY <1>1, <1>4 DEF Page
  <1> QED BY <1>3, <1>5

LEMMA TakesTyped ==
    ASSUME ChainTyped, WatchTyped, PollTakes
    PROVE  /\ poll \in Page /\ poll.at = "applying" /\ poll.events # {}
           /\ Min(poll.events) \in poll.events /\ poll.events \subseteq DOMAIN log
           /\ \A i \in poll.events : Min(poll.events) <= i
           /\ \/ /\ Min(poll.events) \in seen /\ seen' = seen
                 /\ poll' \in Page /\ poll'.at = "applying" /\ poll'.latest = poll.latest
                 /\ poll'.events = poll.events \ {Min(poll.events)}
              \/ /\ Min(poll.events) \notin seen /\ seen' = seen \cup {Min(poll.events)}
                 /\ poll' \in Page /\ poll'.at = "awaiting" /\ poll'.latest = poll.latest
                 /\ poll'.events = poll.events
  <1>1. poll \in Page /\ poll.at = "applying" /\ poll.events # {}
    BY DEF PollTakes, WatchTyped, Idle
  <1>2. poll.events \subseteq DOMAIN log /\ DOMAIN log = 1..Len(log) /\ Len(log) \in Nat
    BY <1>1 DEF Page, ChainTyped
  <1>3. Min(poll.events) \in poll.events /\ \A i \in poll.events : Min(poll.events) <= i
    BY <1>1, <1>2, MinIsFirst
  <1>4. CASE Min(poll.events) \in seen
    <2>1. poll' = [poll EXCEPT !.events = poll.events \ {Min(poll.events)}] /\ seen' = seen
      BY <1>4 DEF PollTakes, Others
    <2> QED BY <1>1, <1>2, <1>3, <1>4, <2>1 DEF Page
  <1>5. CASE Min(poll.events) \notin seen
    <2>1. poll' = [poll EXCEPT !.at = "awaiting"] /\ seen' = seen \cup {Min(poll.events)}
      BY <1>5 DEF PollTakes
    <2> QED BY <1>1, <1>2, <1>3, <1>5, <2>1 DEF Page
  <1> QED BY <1>4, <1>5

LEMMA WatchStep ==
    ASSUME Typed, Fits, Step
    PROVE  WatchTyped'
  <1>0. /\ ChainTyped /\ WatchTyped /\ ledger \in Nat /\ ledger' \in Nat /\ ledger <= ledger'
        /\ Page \subseteq Page' /\ DOMAIN log \subseteq DOMAIN log'
    BY ChainStep, PageStays, LogGrows DEF Typed, ChainTyped, Chain!TypeOK, Grew
  <1> DEFINE Past == 0..ledger'
             Good(p, s) == /\ s \subseteq DOMAIN log /\ (p = Idle \/ p \in Page)
                           /\ p.at = "awaiting" => p.events # {} /\ Min(p.events) \in s
  <1> SUFFICES wledger' \in Past /\ cursor' \in Past /\ Good(poll', seen')
    BY <1>0 DEF WatchTyped
  <1>1. /\ wledger \in Past /\ cursor \in Past /\ 0 \in Past
        /\ 0..ledger \subseteq Past /\ ledger \in Past
    BY <1>0 DEF WatchTyped
  <1>2. Good(poll, seen) /\ Idle.at # "awaiting"
    BY <1>0 DEF WatchTyped, Idle
  <1> HIDE DEF Past
  <1>3. CASE UNCHANGED watchVars
    BY <1>1, <1>2, <1>3 DEF watchVars
  <1>4. CASE Crash \/ Shutdown
    BY <1>1, <1>2, <1>4 DEF Crash, Shutdown, MemoryLost
  <1>5. CASE Boot
    BY <1>1, <1>2, <1>5 DEF Boot
  <1>6. CASE PollEnds
    <2>1. poll \in Page /\ cursor' = Max2(cursor, poll.latest - 1)
      BY <1>2, <1>6 DEF PollEnds, NextCursor, Idle
    <2>2. poll.latest \in 0..ledger
      BY <2>1 DEF Page
    <2>3. cursor' \in Past
      BY <1>0, <1>1, <2>1, <2>2 DEF Max2, WatchTyped
    <2> QED BY <1>1, <1>2, <1>6, <2>3 DEF PollEnds
  <1>7. CASE PollTakes
    BY <1>0, <1>1, <1>2, <1>7, TakesTyped DEF PollTakes
  <1>8. CASE PollApplies
    BY <1>0, <1>1, <1>2, <1>8, GoesOn DEF PollApplies
  <1>9. CASE PollFetches
    <2>1. poll' = [at |-> "applying", events |-> pollEvents(cursor), latest |-> ledger]
      BY <1>9 DEF PollFetches
    <2>2. pollEvents(cursor) \subseteq DOMAIN log
      BY DEF pollEvents
    <2>3. poll' \in Page /\ poll'.at = "applying"
      BY <1>0, <2>1, <2>2 DEF Page
    <2>4. wledger' \in Past
      BY <1>0, <1>1, <1>9 DEF PollFetches, Max2
    <2> QED BY <1>1, <1>2, <1>9, <2>3, <2>4 DEF PollFetches
  <1>10. ASSUME NEW id \in Ids, LoadMisses(id)
         PROVE  wledger' \in Past /\ cursor' \in Past /\ Good(poll', seen')
    <2>1. CASE PollAwaits(id)
      BY <1>0, <1>1, <1>2, <1>10, <2>1, GoesOn DEF LoadMisses, PollAwaits
    <2>2. CASE ~PollAwaits(id)
      BY <1>1, <1>2, <1>10, <2>2 DEF LoadMisses
    <2> QED BY <2>1, <2>2
  <1>11. ASSUME NEW id \in Ids, LoadFails(id)
         PROVE  wledger' \in Past /\ cursor' \in Past /\ Good(poll', seen')
    BY <1>1, <1>2, <1>11 DEF LoadFails
  <1> QED BY <1>3, <1>4, <1>5, <1>6, <1>7, <1>8, <1>9, <1>10, <1>11, WatchWriters

-----------------------------------------------------------------------------
(* Claims and the tick.                                                     *)

(* A claim starts with what its row has.                                    *)
LEMMA ClaimStarts ==
    ASSUME Typed, NEW id \in Ids, Cached(id), Claimable(id), NEW b \in BOOLEAN, claim(id, b)
    PROVE  /\ claims' \in [Ids -> {Idle} \cup InFlight]
           /\ claims'[id] \in InFlight
           /\ claims'[id] = [at |-> "queued", cumulative |-> cache[id].lastAccepted,
                             sig |-> cache[id].lastSig, covered |-> cache[id].vouchersSinceClaim,
                             tx |-> 0, byTick |-> b]
           /\ \A i \in Ids \ {id} : claims'[i] = claims[i]
  <1> DEFINE c == [at |-> "queued", cumulative |-> cache[id].lastAccepted,
                   sig |-> cache[id].lastSig, covered |-> cache[id].vouchersSinceClaim,
                   tx |-> 0, byTick |-> b]
  <1>1. claims \in [Ids -> {Idle} \cup InFlight]
    BY DEF Typed, ClaimTyped
  <1>2. /\ cache[id].lastAccepted \in Int /\ cache[id].vouchersSinceClaim \in Nat
        /\ cache[id].lastSig \in signed
    BY RowTyped DEF Typed, StoreTyped, Cached, Claimable
  <1>3. c \in InFlight
    BY <1>2 DEF InFlight
  <1>4. claims' = [claims EXCEPT ![id] = c]
    BY DEF claim
  <1> QED BY <1>1, <1>3, <1>4

(* What a simulation leads to.                                              *)
LEMMA SimulatesTyped ==
    ASSUME Typed, NEW id \in Ids, Simulates(id)
    PROVE  /\ claims[id] \in InFlight /\ claims[id].at = "queued"
           /\ claims' \in [Ids -> {Idle} \cup InFlight] /\ mempool' \subseteq Sent
           /\ \A i \in Ids \ {id} : claims'[i] = claims[i]
           /\ \/ /\ claims'[id] = [claims[id] EXCEPT !.at = "sent"] /\ claims'[id] \in InFlight
                 /\ mempool' = mempool \cup {[id |-> id, cumulative |-> claims[id].cumulative,
                                              sig |-> claims[id].sig, awaited |-> TRUE]}
                 /\ tick' = tick
              \/ claims'[id] = Idle /\ mempool' = mempool /\ Settled(id)
  <1>1. claims \in [Ids -> {Idle} \cup InFlight] /\ mempool \subseteq Sent
    BY DEF Typed, ClaimTyped
  <1>2. claims[id] \in InFlight /\ claims[id].at = "queued"
    BY <1>1 DEF Simulates, Idle
  <1>3. CASE Chain!ClaimAccepted(id, claims[id].cumulative, claims[id].sig)
    <2> DEFINE c == [claims[id] EXCEPT !.at = "sent"]
               t == [id |-> id, cumulative |-> claims[id].cumulative,
                     sig |-> claims[id].sig, awaited |-> TRUE]
    <2>1. c \in InFlight
      BY <1>2 DEF InFlight
    <2>2. t \in Sent
      BY <1>2 DEF InFlight, Sent
    <2>3. claims' = [claims EXCEPT ![id] = c] /\ mempool' = mempool \cup {t} /\ tick' = tick
      BY <1>3 DEF Simulates
    <2> QED BY <1>1, <1>2, <2>1, <2>2, <2>3
  <1>4. CASE ~Chain!ClaimAccepted(id, claims[id].cumulative, claims[id].sig)
    <2>1. claims' = [claims EXCEPT ![id] = Idle] /\ mempool' = mempool /\ Settled(id)
      BY <1>4 DEF Simulates, Settled
    <2> QED BY <1>1, <1>2, <2>1
  <1> QED BY <1>3, <1>4

LEMMA AbandonedTyped ==
    ASSUME mempool \subseteq Sent, NEW txs, txs \subseteq mempool
    PROVE  /\ Abandoned(txs) \subseteq Sent
           /\ \A tx \in Abandoned(txs) :
                 \/ tx \in mempool /\ tx \notin txs
                 \/ /\ ~tx.awaited
                    /\ \E t \in mempool : tx.id = t.id /\ tx.cumulative = t.cumulative /\ tx.sig = t.sig
  <1>1. ASSUME NEW t \in txs
        PROVE  LET u == [t EXCEPT !.awaited = FALSE] IN
               u \in Sent /\ ~u.awaited /\ u.id = t.id /\ u.cumulative = t.cumulative /\ u.sig = t.sig
    <2> PICK f \in BOOLEAN : f = FALSE
      OBVIOUS
    <2> DEFINE u == [t EXCEPT !.awaited = f]
    <2>1. t \in Sent
      OBVIOUS
    <2>2. u \in Sent /\ u.awaited = f /\ u.id = t.id /\ u.cumulative = t.cumulative /\ u.sig = t.sig
      BY <2>1 DEF Sent
    <2> QED BY <2>2
  <1> QED BY <1>1 DEF Abandoned

(* An applied transaction ends the claim that awaits it, if any.            *)
LEMMA ClaimAppliedTyped ==
    ASSUME Typed, Fits, NEW tx \in mempool, ClaimApplied(tx)
    PROVE  /\ claims' \in [Ids -> {Idle} \cup InFlight] /\ mempool' = mempool \ {tx}
           /\ \A i \in Ids :
                 IF tx.awaited /\ tx.id = i
                 THEN /\ claims[i] \in InFlight /\ claims[i].at = "sent"
                      /\ claims'[i] \in InFlight /\ claims'[i].at \in {"landed", "failed"}
                      /\ claims'[i].at = "landed"
                            <=> Chain!ClaimAccepted(tx.id, tx.cumulative, tx.sig)
                      /\ claims'[i].tx = IF claims'[i].at = "landed" THEN Len(log) + 1 ELSE 0
                      /\ claims'[i].cumulative = claims[i].cumulative
                      /\ claims'[i].sig = claims[i].sig /\ claims'[i].covered = claims[i].covered
                      /\ claims'[i].byTick = claims[i].byTick
                 ELSE claims'[i] = claims[i]
  <1> DEFINE ok == Chain!ClaimAccepted(tx.id, tx.cumulative, tx.sig)
             Mine(i) == tx.awaited /\ tx.id = i
             New(i) == [claims[i] EXCEPT !.at = IF ok THEN "landed" ELSE "failed",
                                         !.tx = IF ok THEN Len(log) + 1 ELSE 0]
  <1>1. claims \in [Ids -> {Idle} \cup InFlight] /\ Len(log) + 1 \in Nat
    BY DEF Typed, ClaimTyped, ChainTyped
  <1>2. claims' = [i \in Ids |-> IF Mine(i) THEN New(i) ELSE claims[i]] /\ mempool' = mempool \ {tx}
    BY DEF ClaimApplied
  <1>3. ASSUME NEW i \in Ids, Mine(i)
        PROVE  claims[i] \in InFlight /\ claims[i].at = "sent"
    BY <1>1, <1>3 DEF Fits, TxFits, Idle
  <1> HIDE DEF ok
  <1>4. ASSUME NEW i \in Ids, Mine(i)
        PROVE  /\ New(i) \in InFlight /\ New(i).at \in {"landed", "failed"}
               /\ New(i).at = "landed" <=> ok
               /\ New(i).tx = IF New(i).at = "landed" THEN Len(log) + 1 ELSE 0
               /\ New(i).cumulative = claims[i].cumulative
               /\ New(i).sig = claims[i].sig /\ New(i).covered = claims[i].covered
               /\ New(i).byTick = claims[i].byTick
    <2>1. claims[i] \in InFlight
      BY <1>3, <1>4
    <2>2. CASE ok
      <3>1. New(i) = [claims[i] EXCEPT !.at = "landed", !.tx = Len(log) + 1]
        BY <2>2
      <3> QED BY <1>1, <2>1, <2>2, <3>1 DEF InFlight
    <2>3. CASE ~ok
      <3>1. New(i) = [claims[i] EXCEPT !.at = "failed", !.tx = 0]
        BY <2>3
      <3> QED BY <1>1, <2>1, <2>3, <3>1 DEF InFlight
    <2> QED BY <2>2, <2>3
  <1>5. claims' \in [Ids -> {Idle} \cup InFlight]
    <2> HIDE DEF New, Mine
    <2> QED BY <1>1, <1>2, <1>4
  <1>6. \A i \in Ids : claims'[i] = IF Mine(i) THEN New(i) ELSE claims[i]
    BY <1>2
  <1> HIDE DEF New
  <1> QED BY <1>2, <1>3, <1>4, <1>5, <1>6 DEF ok

LEMMA SettledTyped ==
    ASSUME Typed, NEW id \in Ids, claims[id] # Idle, Settled(id)
    PROVE  /\ claims' \in [Ids -> {Idle} \cup InFlight] /\ claims'[id] = Idle
           /\ \A i \in Ids \ {id} : claims'[i] = claims[i]
           /\ IF ByTick(id) THEN tick' = [tick EXCEPT !.at = "looking"] /\ tick.at = "awaiting"
                            ELSE tick' = tick
  BY DEF Typed, ClaimTyped, Settled, ByTick

(* Claims keep their type, channels with one stay cached.                   *)
LEMMA ClaimsTyped ==
    ASSUME Typed, Fits, Step
    PROVE  /\ claims' \in [Ids -> {Idle} \cup InFlight] /\ mempool' \subseteq Sent
           /\ \A id \in Ids : claims'[id] # Idle => Cached(id)'
  <1>0. /\ claims \in [Ids -> {Idle} \cup InFlight] /\ mempool \subseteq Sent
        /\ \A id \in Ids : claims[id] # Idle => Cached(id)
    BY DEF Typed, ClaimTyped
  <1>1. CASE Crash \/ Shutdown
    <2>1. claims' = [id \in Ids |-> Idle] /\ mempool' = Abandoned(mempool)
      BY <1>1 DEF Crash, Shutdown, MemoryLost
    <2> QED BY <1>0, <2>1, AbandonedTyped
  <1>2. ASSUME ~(Crash \/ Shutdown)
        PROVE  /\ claims' \in [Ids -> {Idle} \cup InFlight] /\ mempool' \subseteq Sent
               /\ \A id \in Ids : claims'[id] # Idle => claims[id] # Idle \/ Cached(id)
    <2>1. CASE UNCHANGED <<claims, mempool>>
      BY <1>0, <2>1
    <2>2. ASSUME NEW id \in Ids, TickClaims(id) \/ ManualClaim(id)
          PROVE  /\ claims' \in [Ids -> {Idle} \cup InFlight] /\ mempool' \subseteq Sent
                 /\ \A i \in Ids : claims'[i] # Idle => claims[i] # Idle \/ Cached(i)
      <3>1. mempool' = mempool /\ Claimable(id) /\ (claim(id, TRUE) \/ claim(id, FALSE))
        BY <2>2 DEF TickClaims, ManualClaim
      <3>2. Cached(id)
        <4>1. CASE TickClaims(id)
          <5>1. tick \in Look /\ id \in tick.todo
            BY <4>1 DEF TickClaims, Typed, ClaimTyped, Idle
          <5> QED BY <5>1 DEF Look, Cached
        <4>2. CASE ManualClaim(id)
          BY <4>2 DEF ManualClaim
        <4> QED BY <2>2, <4>1, <4>2
      <3> QED BY <1>0, <3>1, <3>2, ClaimStarts
    <2>3. ASSUME NEW id \in Ids, Simulates(id)
          PROVE  /\ claims' \in [Ids -> {Idle} \cup InFlight] /\ mempool' \subseteq Sent
                 /\ \A i \in Ids : claims'[i] # Idle => claims[i] # Idle \/ Cached(i)
      <3>1. claims[id].at = "queued" /\ claims' \in [Ids -> {Idle} \cup InFlight]
            /\ mempool' \subseteq Sent /\ \A i \in Ids \ {id} : claims'[i] = claims[i]
        BY <2>3, SimulatesTyped
      <3>2. claims[id] # Idle
        BY <3>1 DEF Idle
      <3> QED BY <3>1, <3>2
    <2>4. ASSUME NEW id \in Ids, ClaimReturns(id)
          PROVE  /\ claims' \in [Ids -> {Idle} \cup InFlight] /\ mempool' \subseteq Sent
                 /\ \A i \in Ids : claims'[i] # Idle => claims[i] # Idle \/ Cached(i)
      BY <1>0, <2>4, SettledTyped DEF ClaimReturns, Idle
    <2>5. ASSUME NEW id \in Ids, ClaimThrows(id)
          PROVE  /\ claims' \in [Ids -> {Idle} \cup InFlight] /\ mempool' \subseteq Sent
                 /\ \A i \in Ids : claims'[i] # Idle => claims[i] # Idle \/ Cached(i)
      BY <1>0, <2>5, SettledTyped, AbandonedTyped DEF ClaimThrows
    <2>6. ASSUME NEW tx \in mempool, ClaimApplied(tx)
          PROVE  /\ claims' \in [Ids -> {Idle} \cup InFlight] /\ mempool' \subseteq Sent
                 /\ \A i \in Ids : claims'[i] # Idle => claims[i] # Idle \/ Cached(i)
      <3>1. \A i \in Ids : claims'[i] # Idle => claims[i] # Idle
        BY <2>6, ClaimAppliedTyped DEF Idle
      <3> QED BY <1>0, <2>6, <3>1, ClaimAppliedTyped
    <2>7. ASSUME NEW tx \in mempool, ClaimDropped(tx)
          PROVE  UNCHANGED claims /\ mempool' \subseteq Sent
      BY <1>0, <2>7 DEF ClaimDropped, claimVars
    <2> QED BY <1>0, <1>2, <2>1, <2>2, <2>3, <2>4, <2>5, <2>6, <2>7, ClaimWriters
  <1>3. CASE DOMAIN cache \subseteq DOMAIN cache' /\ ~(Crash \/ Shutdown)
    BY <1>0, <1>2, <1>3 DEF Cached
  <1> QED BY <1>1, <1>3, CacheTyped

(* The tick waits for one claim or for none.                                *)
TickTyped ==
    /\ tick \in {Idle} \cup Look
    /\ \A id \in Ids : ByTick(id) => tick.at = "awaiting"
    /\ \A id, j \in Ids : ByTick(id) /\ ByTick(j) => id = j

LEMMA LookingAgain ==
    ASSUME Typed, NEW id \in Ids, claims[id] # Idle, Settled(id), DOMAIN cache \subseteq DOMAIN cache'
    PROVE  TickTyped'
  <1>1. /\ claims' \in [Ids -> {Idle} \cup InFlight] /\ claims'[id] = Idle
        /\ \A i \in Ids \ {id} : claims'[i] = claims[i]
        /\ IF ByTick(id) THEN tick' = [tick EXCEPT !.at = "looking"] /\ tick.at = "awaiting"
                         ELSE tick' = tick
    BY SettledTyped
  <1>2. \A i \in Ids : ByTick(i)' => i # id /\ ByTick(i)
    BY <1>1 DEF ByTick
  <1>3. tick \in {Idle} \cup Look /\ Look \subseteq Look'
    BY DEF Typed, ClaimTyped, Look
  <1>4. CASE ByTick(id)
    <2>1. tick \in Look /\ tick' = [tick EXCEPT !.at = "looking"]
      BY <1>1, <1>3, <1>4 DEF Idle
    <2>2. tick' \in Look
      BY <2>1 DEF Look
    <2>3. \A i \in Ids : ~ByTick(i)'
      BY <1>2, <1>4 DEF Typed, ClaimTyped
    <2> QED BY <1>3, <2>2, <2>3 DEF TickTyped
  <1>5. CASE ~ByTick(id)
    BY <1>1, <1>2, <1>3, <1>5 DEF TickTyped, Typed, ClaimTyped
  <1> QED BY <1>4, <1>5

LEMMA TickStep ==
    ASSUME Typed, Fits, Step
    PROVE  TickTyped'
  <1>0. /\ tick \in {Idle} \cup Look /\ \A id \in Ids : ByTick(id) => tick.at = "awaiting"
        /\ \A id, j \in Ids : ByTick(id) /\ ByTick(j) => id = j
    BY DEF Typed, ClaimTyped
  <1>1. CASE Crash \/ Shutdown
    <2>1. tick' = Idle /\ \A id \in Ids : claims'[id] = Idle
      BY <1>1 DEF Crash, Shutdown, MemoryLost
    <2> QED BY <2>1 DEF TickTyped, ByTick, Idle
  <1> SUFFICES ASSUME DOMAIN cache \subseteq DOMAIN cache', ~(Crash \/ Shutdown) PROVE TickTyped'
    BY <1>1, CacheTyped
  <1>2. Look \subseteq Look'
    BY DEF Look
  <1>3. ASSUME tick' = tick, \A id \in Ids : ByTick(id)' => ByTick(id)
        PROVE  TickTyped'
    BY <1>0, <1>2, <1>3 DEF TickTyped
  <1>4. CASE UNCHANGED <<claims, tick>>
    BY <1>3, <1>4 DEF ByTick
  <1>5. CASE TickStarts \/ TickEnds
    <2>1. UNCHANGED <<claims, cache>>
      BY <1>5 DEF TickStarts, TickEnds, storeVars
    <2>2. \A id \in Ids : ~ByTick(id)'
      BY <1>0, <1>5, <2>1 DEF TickStarts, TickEnds, ByTick, Idle
    <2>3. tick' \in {Idle} \cup Look
      <3>1. wledger \in Nat
        BY DEF Typed, ChainTyped, WatchTyped, Chain!TypeOK
      <3> QED BY <1>5, <3>1 DEF TickStarts, TickEnds, Look
    <2> QED BY <1>2, <2>2, <2>3 DEF TickTyped
  <1>6. ASSUME NEW id \in Ids, TickClaims(id)
        PROVE  TickTyped'
    <2>1. tick \in Look /\ tick.at = "looking" /\ id \in tick.todo
      BY <1>0, <1>6 DEF TickClaims, Idle
    <2>2. tick' = [tick EXCEPT !.at = "awaiting", !.todo = tick.todo \ {id}]
      BY <1>6 DEF TickClaims
    <2>3. tick' \in Look /\ tick'.at = "awaiting"
      BY <2>1, <2>2 DEF Look
    <2>4. \A i \in Ids : ~ByTick(i)
      BY <1>0, <2>1
    <2>5. Cached(id) /\ Claimable(id) /\ claim(id, TRUE)
      BY <1>6, <2>1 DEF TickClaims, Look, Cached
    <2>6. \A i \in Ids : ByTick(i)' => i = id
      BY <2>4, <2>5, ClaimStarts DEF ByTick
    <2> QED BY <1>2, <2>3, <2>6 DEF TickTyped
  <1>7. ASSUME NEW id \in Ids, TickSkips(id)
        PROVE  TickTyped'
    <2>1. tick \in Look /\ tick.at = "looking" /\ UNCHANGED claims
      BY <1>0, <1>7 DEF TickSkips, Idle
    <2>2. tick' = [tick EXCEPT !.todo = tick.todo \ {id}]
      BY <1>7 DEF TickSkips
    <2>3. tick' \in Look
      BY <2>1, <2>2 DEF Look
    <2>4. \A i \in Ids : ~ByTick(i)'
      BY <1>0, <2>1 DEF ByTick
    <2> QED BY <1>2, <2>3, <2>4 DEF TickTyped
  <1>8. ASSUME NEW id \in Ids, ManualClaim(id)
        PROVE  TickTyped'
    <2> PICK f \in BOOLEAN : f = FALSE
      OBVIOUS
    <2>1. Cached(id) /\ Claimable(id) /\ claim(id, f) /\ tick' = tick
      BY <1>8 DEF ManualClaim
    <2>2. /\ claims'[id] = [at |-> "queued", cumulative |-> cache[id].lastAccepted,
                             sig |-> cache[id].lastSig, covered |-> cache[id].vouchersSinceClaim,
                             tx |-> 0, byTick |-> f]
          /\ \A i \in Ids \ {id} : claims'[i] = claims[i]
      BY <2>1, ClaimStarts
    <2>3. claims'[id].byTick = f
      BY <2>2
    <2> QED BY <1>3, <2>1, <2>2, <2>3 DEF ByTick
  <1>9. ASSUME NEW id \in Ids, Simulates(id)
        PROVE  TickTyped'
    <2>1. CASE Settled(id)
      <3>1. claims[id].at = "queued"
        BY <1>9, SimulatesTyped
      <3>2. claims[id] # Idle
        BY <3>1 DEF Idle
      <3> QED BY <2>1, <3>2, LookingAgain
    <2>2. CASE claims'[id] = [claims[id] EXCEPT !.at = "sent"] /\ tick' = tick
      <3>1. claims[id] \in InFlight /\ \A i \in Ids \ {id} : claims'[i] = claims[i]
        BY <1>9, SimulatesTyped
      <3>2. claims'[id].byTick = claims[id].byTick /\ claims[id] # Idle
        BY <2>2, <3>1 DEF InFlight, Idle
      <3> QED BY <1>3, <2>2, <3>1, <3>2 DEF ByTick
    <2> QED BY <1>9, <2>1, <2>2, SimulatesTyped
  <1>10. ASSUME NEW id \in Ids, ClaimReturns(id) \/ ClaimThrows(id)
         PROVE  TickTyped'
    <2>1. claims[id] # Idle /\ Settled(id)
      BY <1>10 DEF ClaimReturns, ClaimThrows, Idle
    <2> QED BY <2>1, LookingAgain
  <1>11. ASSUME NEW tx \in mempool, ClaimApplied(tx)
         PROVE  TickTyped'
    <2>1. tick' = tick
      BY <1>11 DEF ClaimApplied
    <2>2. \A id \in Ids : ByTick(id)' => ByTick(id)
      BY <1>11, ClaimAppliedTyped DEF ByTick, Idle
    <2> QED BY <1>3, <2>1, <2>2
  <1>12. ASSUME NEW tx \in mempool, ClaimDropped(tx)
         PROVE  TickTyped'
    BY <1>4, <1>12 DEF ClaimDropped, claimVars
  <1> QED BY <1>4, <1>5, <1>6, <1>7, <1>8, <1>9, <1>10, <1>11, <1>12, ClaimWriters, TickWriters

LEMMA DownStep ==
    ASSUME Typed, Fits, Step
    PROVE  DownIsEmpty'
  <1>1. CASE Boot
    BY <1>1 DEF Boot, DownIsEmpty
  <1>2. CASE Crash \/ Shutdown
    BY <1>2 DEF Crash, Shutdown, MemoryLost, DownIsEmpty
  <1>3. ASSUME up' = up, ~up, ~(Boot \/ Crash \/ Shutdown)
        PROVE  DownIsEmpty'
    <2>1. /\ cache = Empty /\ dirty = {} /\ flushes = <<>> /\ poll = Idle /\ tick = Idle
          /\ \A id \in Ids : loading[id] = Idle /\ claims[id] = Idle
          /\ own = {} /\ suppressed = {} /\ published = {} /\ seen = {}
          /\ wledger = 0 /\ cursor = 0 /\ up \in BOOLEAN
      BY <1>3 DEF Typed, DownIsEmpty
    <2>2. \A id \in Ids : ~Cached(id)
      BY <2>1, EmptyTyped DEF Cached
    <2>3. DOMAIN flushes = {}
      BY <2>1
    <2>4. /\ tick.at = "idle" /\ poll.at = "idle"
          /\ \A id \in Ids : claims[id].at = "idle" /\ loading[id].at = "idle" /\ loading[id] # Asked
      BY <2>1 DEF Idle, Asked
    <2>5. \A id \in Ids : /\ ~TickClaims(id) /\ ~ManualClaim(id) /\ ~Simulates(id) /\ ~TickSkips(id)
                           /\ ~ClaimReturns(id) /\ ~ClaimThrows(id)
      BY <1>3, <2>1, <2>4
      DEF TickClaims, TickSkips, ManualClaim, Simulates, ClaimReturns, ClaimThrows
    <2>6. \A id \in Ids : /\ ~LoadAsks(id) /\ ~LoadAnswered(id) /\ ~LoadInserts(id)
                           /\ ~LoadMisses(id) /\ ~LoadFails(id)
      BY <1>3, <2>1, <2>4 DEF LoadAsks, LoadAnswered, LoadInserts, LoadMisses, LoadFails
    <2>7. /\ ~PollFetches /\ ~PollTakes /\ ~PollApplies /\ ~PollEnds /\ ~PollLoads
          /\ ~TickStarts /\ ~TickEnds
      BY <1>3, <2>4
      DEF PollFetches, PollTakes, PollApplies, PollEnds, PollLoads, TickStarts, TickEnds
    <2>8. cache' = Empty /\ dirty' = {}
      <3>1. \A id \in Ids, ch \in Row : ~Writes(id, ch)
        BY <2>1, <2>2 DEF Writes, Idle
      <3> QED BY <1>3, <2>1, <2>3, <3>1, CacheStep DEF FlushStarts
    <2>9. flushes' = <<>>
      BY <1>3, <2>1, <2>3, DbStep DEF Stores, FlushStarts, dbVars
    <2>10. poll' = Idle /\ seen' = {} /\ wledger' = 0 /\ cursor' = 0
      BY <1>3, <2>1, <2>6, <2>7, WatchWriters DEF watchVars
    <2>11. tick' = Idle
      BY <1>3, <2>1, <2>5, <2>7, TickWriters
    <2>12. \A id \in Ids : loading'[id] = Idle
      BY <1>3, <2>1, <2>6, <2>7, LoadWriters
    <2>13. \A id \in Ids : claims'[id] = Idle
      <3>1. ASSUME NEW tx \in mempool, ClaimApplied(tx), NEW id \in Ids
            PROVE  claims'[id] = Idle
        BY <2>1, <3>1, ClaimAppliedTyped DEF Idle
      <3>2. ASSUME NEW tx \in mempool, ClaimDropped(tx)
            PROVE  claims' = claims
        BY <3>2 DEF ClaimDropped, claimVars
      <3> QED BY <1>3, <2>1, <2>5, <3>1, <3>2, ClaimWriters
    <2>14. own' = {} /\ suppressed' = {} /\ published' = {}
      BY <1>3, <2>1, <2>5, <2>7, PublishWriters DEF publishVars
    <2> QED BY <1>3, <2>1, <2>8, <2>9, <2>10, <2>11, <2>12, <2>13, <2>14
       DEF DownIsEmpty, Empty, Idle
  <1>4. CASE up' = up /\ up
    BY <1>4 DEF DownIsEmpty, Typed
  <1> QED BY <1>1, <1>2, <1>3, <1>4, UpWriters DEF Typed, DownIsEmpty

LEMMA TypedStep ==
    ASSUME Typed, Fits, Step
    PROVE  Typed' /\ Grew /\ Logged
  <1>1. ChainTyped' /\ Grew /\ Logged
    BY ChainStep DEF Typed
  <1>2. Row' = Row /\ InFlight' = InFlight /\ Sent' = Sent
    BY <1>1, TypesStay DEF Grew
  <1>3. ClaimTyped'
    BY <1>2, ClaimsTyped, TickStep DEF ClaimTyped, TickTyped, Idle
  <1> QED BY <1>1, <1>3, StoreStep, WatchStep, DownStep DEF Typed

-----------------------------------------------------------------------------
(* What fits the chain goes on fitting it: channels only grow.              *)
LEMMA EventStays ==
    ASSUME ChainTyped, ChainTyped', Grew, NEW e \in Chain!Event, EventFits(e)
    PROVE  EventFits(e)'
  <1>1. e.id \in DOMAIN channels /\ e.ledger \in Nat /\ e.total \in Int
    BY DEF EventFits, Chain!Found, Chain!Event
  <1>2. e.id \in DOMAIN channels'
    BY <1>1 DEF Grew
  <1>3. /\ channels[e.id].deposit \in Int /\ channels[e.id].claimed \in Int /\ ledger \in Nat
        /\ channels[e.id].open \in BOOLEAN
    BY <1>1, ChannelTyped DEF ChainTyped, Chain!TypeOK
  <1>4. channels'[e.id].deposit \in Int /\ channels'[e.id].claimed \in Int /\ ledger' \in Nat
    BY <1>2, FacilitatorAssumption DEF ChainTyped, Chain!TypeOK, Chain!Channel
  <1> QED BY <1>1, <1>2, <1>3, <1>4 DEF EventFits, Chain!Found, Grew

LEMMA ReadStays ==
    ASSUME ChainTyped, ChainTyped', Grew, NEW id, NEW ch, ch.deposit \in Int, ch.claimed \in Int,
           WasRead(id, ch)
    PROVE  WasRead(id, ch)'
  <1>1. id \in DOMAIN channels /\ id \in DOMAIN channels'
    BY DEF WasRead, Chain!Found, Grew
  <1>2. /\ channels[id].deposit \in Int /\ channels[id].claimed \in Int
        /\ channels[id].open \in BOOLEAN
    BY <1>1, ChannelTyped DEF ChainTyped
  <1>3. channels'[id].deposit \in Int /\ channels'[id].claimed \in Int
    BY <1>1 DEF ChainTyped, Chain!TypeOK, Chain!Channel
  <1> QED BY <1>1, <1>2, <1>3 DEF WasRead, Chain!Found, Grew

LEMMA BacksStays ==
    ASSUME ChainTyped, ChainTyped', Grew, NEW id, id \in DOMAIN channels, NEW c \in Int, NEW s,
           Backs(s, id, c)
    PROVE  Backs(s, id, c)'
  <1>1. channels[id].deposit \in Int /\ id \in DOMAIN channels'
    BY ChannelTyped DEF ChainTyped, Grew
  <1>2. channels'[id].deposit \in Int
    BY <1>1 DEF ChainTyped, Chain!TypeOK, Chain!Channel
  <1> QED BY <1>1, <1>2 DEF Backs, Grew, Chain!voucher_hash

LEMMA RowStays ==
    ASSUME ChainTyped, ChainTyped', Grew, NEW id, NEW row \in Row, RowFits(id, row)
    PROVE  RowFits(id, row)'
  <1>1. /\ row.deposit \in Int /\ row.claimed \in Int /\ row.lastAccepted \in Int
    BY DEF Row
  <1>2. WasRead(id, row)'
    BY <1>1, ReadStays DEF RowFits
  <1>3. id \in DOMAIN channels
    BY DEF RowFits, WasRead, Chain!Found
  <1>4. row.lastAccepted <= row.claimed \/ Backs(row.lastSig, id, row.lastAccepted)'
    BY <1>1, <1>3, BacksStays DEF RowFits
  <1> QED BY <1>2, <1>4 DEF RowFits

(* The new rows fit.                                                        *)
LEMMA InsertFits ==
    ASSUME NEW id, NEW state \in Answer, WasRead(id, state)
    PROVE  RowFits(id, insert(state))
  <1>1. state.claimed \in Int
    BY DEF Answer
  <1> QED BY <1>1 DEF RowFits, WasRead, insert

LEMMA AppliedFits ==
    ASSUME ChainTyped, NEW e \in Chain!Event, EventFits(e), NEW ch \in Row, RowFits(e.id, ch),
           e.type \in {"topped_up", "claimed", "closed"}
    PROVE  RowFits(e.id, Applying(ch, e))
  <1> DEFINE now == channels[e.id]
  <1>1. /\ e.total \in Int /\ ch.deposit \in Int /\ ch.claimed \in Int /\ ch.lastAccepted \in Int
        /\ ch.open \in BOOLEAN
    BY DEF Chain!Event, Row
  <1>2. /\ e.id \in DOMAIN channels /\ now.deposit \in Int /\ now.claimed \in Int
        /\ now.open \in BOOLEAN
    BY ChannelTyped DEF ChainTyped, EventFits, Chain!Found
  <1>3. CASE e.type = "topped_up"
    <2> DEFINE new == [ch EXCEPT !.deposit = e.total]
    <2>1. /\ Applying(ch, e) = new /\ new.deposit = e.total /\ new.voucherKey = ch.voucherKey
          /\ new.claimed = ch.claimed /\ new.open = ch.open /\ new.lastAccepted = ch.lastAccepted
          /\ new.lastSig = ch.lastSig
      BY <1>3 DEF Applying, ToppedUp, Row
    <2> HIDE DEF new
    <2> QED BY <1>1, <1>2, <1>3, <2>1 DEF RowFits, WasRead, EventFits
  <1>4. CASE e.type = "claimed"
    <2> DEFINE c == Max2(ch.claimed, e.total)
               l == Max2(ch.lastAccepted, e.total)
               new == [ch EXCEPT !.claimed = c, !.lastAccepted = l]
    <2>1. /\ Applying(ch, e) = new /\ new.deposit = ch.deposit /\ new.voucherKey = ch.voucherKey
          /\ new.claimed = c /\ new.open = ch.open /\ new.lastAccepted = l
          /\ new.lastSig = ch.lastSig
      BY <1>4 DEF Applying, Claimed, Row
    <2>2. /\ c >= ch.claimed /\ c >= e.total /\ (c = ch.claimed \/ c = e.total)
          /\ (l = ch.lastAccepted \/ l = e.total) /\ c \in Int
      BY <1>1 DEF Max2
    <2> HIDE DEF new, c, l
    <2>3. WasRead(e.id, new)
      BY <1>1, <1>2, <1>4, <2>1, <2>2 DEF RowFits, WasRead, EventFits
    <2>4. new.lastAccepted <= new.claimed \/ Backs(new.lastSig, e.id, new.lastAccepted)
      BY <1>1, <2>1, <2>2 DEF RowFits
    <2> QED BY <2>1, <2>3, <2>4 DEF RowFits
  <1>5. CASE e.type = "closed"
    <2> DEFINE c == Max2(ch.claimed, e.total)
    <2> PICK f \in BOOLEAN : f = FALSE
      OBVIOUS
    <2> DEFINE new == [ch EXCEPT !.open = f, !.claimed = c]
    <2>1. Applying(ch, e) = new
      BY <1>5 DEF Applying, Closed
    <2>2. /\ new.deposit = ch.deposit /\ new.voucherKey = ch.voucherKey
          /\ new.claimed = c /\ new.lastAccepted = ch.lastAccepted
          /\ new.lastSig = ch.lastSig
      BY DEF Row
    <2>3. /\ c >= ch.claimed /\ (c = ch.claimed \/ c = e.total) /\ c \in Int
      BY <1>1 DEF Max2
    <2> HIDE DEF new, c
    <2>4. WasRead(e.id, new)
      BY <1>1, <1>2, <1>5, <2>2, <2>3 DEF RowFits, WasRead, EventFits
    <2>5. new.lastAccepted <= new.claimed \/ Backs(new.lastSig, e.id, new.lastAccepted)
      BY <1>1, <2>2, <2>3 DEF RowFits
    <2> QED BY <2>1, <2>4, <2>5 DEF RowFits
  <1> QED BY <1>3, <1>4, <1>5

LEMMA AcceptFits ==
    ASSUME Typed, Fits, NEW id \in Ids, NEW c \in Cumulatives, NEW s \in signed, NEW p \in Prices,
           Accept(id, c, s, p)
    PROVE  RowFits(id, [cache[id] EXCEPT !.lastAccepted = c, !.lastSig = s,
                                         !.vouchersSinceClaim = @ + 1])
  <1> DEFINE ch == cache[id]
             new == [ch EXCEPT !.lastAccepted = c, !.lastSig = s, !.vouchersSinceClaim = @ + 1]
  <1>1. id \in DOMAIN cache /\ c \in Int
    BY FacilitatorAssumption DEF Accept, Cached
  <1>2. ch \in Row /\ RowFits(id, ch)
    BY <1>1, RowTyped DEF Typed, StoreTyped, Fits
  <1>3. /\ new.deposit = ch.deposit /\ new.voucherKey = ch.voucherKey
        /\ new.claimed = ch.claimed /\ new.open = ch.open /\ new.lastAccepted = c
        /\ new.lastSig = s /\ ch.deposit \in Int
    BY <1>2 DEF Row
  <1>4. /\ s.key = ch.voucherKey /\ s.hash = Chain!voucher_hash(Here, id, c)
        /\ c <= ch.deposit
    BY DEF Accept, Payable, verifyVoucher
  <1>5. id \in DOMAIN channels /\ channels[id].deposit \in Int
    BY <1>2, ChannelTyped DEF RowFits, WasRead, Chain!Found, Typed, ChainTyped
  <1> HIDE DEF new, ch
  <1>6. Backs(s, id, c)
    BY <1>1, <1>2, <1>3, <1>4, <1>5 DEF Backs, RowFits, WasRead
  <1>7. RowFits(id, new)
    BY <1>2, <1>3, <1>6 DEF RowFits, WasRead
  <1> QED BY <1>7 DEF new, ch

LEMMA ReturnFits ==
    ASSUME Typed, Fits, NEW id \in Ids, ClaimReturns(id)
    PROVE  RowFits(id, [cache[id] EXCEPT
                          !.claimed = Max2(@, claims[id].cumulative),
                          !.vouchersSinceClaim = Max2(0, @ - claims[id].covered)])
  <1> DEFINE ch == cache[id]
             n == Max2(ch.claimed, claims[id].cumulative)
             new == [ch EXCEPT !.claimed = n,
                               !.vouchersSinceClaim = Max2(0, @ - claims[id].covered)]
  <1>1. claims[id] # Idle /\ claims[id].at \in {"landed", "failed"}
    BY DEF ClaimReturns, Idle
  <1>2. id \in DOMAIN cache /\ ch \in Row /\ claims[id].cumulative \in Int
    BY <1>1, InFlightTyped DEF Typed
  <1>3. RowFits(id, ch) /\ ClaimFits(id, claims[id])
    BY <1>1, <1>2 DEF Fits
  <1>4. /\ new.deposit = ch.deposit /\ new.voucherKey = ch.voucherKey
        /\ new.claimed = n /\ new.open = ch.open /\ new.lastAccepted = ch.lastAccepted
        /\ new.lastSig = ch.lastSig /\ ch.claimed \in Int /\ ch.lastAccepted \in Int
    BY <1>2 DEF Row
  <1>5. n \in Int /\ n >= ch.claimed /\ (n = ch.claimed \/ n = claims[id].cumulative)
    BY <1>2, <1>4 DEF Max2
  <1>6. id \in DOMAIN channels /\ channels[id].claimed \in Int
    BY <1>3, ChannelTyped DEF RowFits, WasRead, Chain!Found, Typed, ChainTyped
  <1>7. claims[id].cumulative <= channels[id].claimed \/ ~channels[id].open
    BY <1>1, <1>3 DEF ClaimFits
  <1> HIDE DEF new, n, ch
  <1>8. WasRead(id, new)
    BY <1>2, <1>3, <1>4, <1>5, <1>6, <1>7 DEF RowFits, WasRead
  <1>9. RowFits(id, new)
    BY <1>3, <1>4, <1>5, <1>8 DEF RowFits
  <1> QED BY <1>9 DEF new, n, ch

LEMMA CacheFits ==
    ASSUME Typed, Fits, Step
    PROVE  \A id \in DOMAIN cache' : RowFits(id, cache'[id])
  <1>1. \A id \in DOMAIN cache : RowFits(id, cache[id])
    BY DEF Fits
  <1>2. ASSUME NEW id \in Ids, NEW ch, Writes(id, ch), RowFits(id, ch)
        PROVE  \A i \in DOMAIN cache' : RowFits(i, cache'[i])
    <2>1. /\ DOMAIN cache' = DOMAIN cache \cup {id} /\ cache'[id] = ch
          /\ \A i \in DOMAIN cache : i # id => cache'[i] = cache[i]
      BY <1>2, WritesEffect DEF Typed
    <2> QED BY <1>1, <1>2, <2>1
  <1>3. CASE UNCHANGED cache
    BY <1>1, <1>3
  <1>4. ASSUME NEW id \in Ids, LoadInserts(id)
        PROVE  \A i \in DOMAIN cache' : RowFits(i, cache'[i])
    <2>1. Writes(id, insert(loading[id].state)) /\ loading[id].state \in Answer
      BY <1>4, LoadInsertsWrites DEF Typed
    <2>2. RowFits(id, insert(loading[id].state))
      BY <1>4, <2>1, InsertFits DEF LoadInserts, Fits
    <2> QED BY <1>2, <2>1, <2>2
  <1>5. ASSUME NEW id \in Ids, ClaimReturns(id)
        PROVE  \A i \in DOMAIN cache' : RowFits(i, cache'[i])
    BY <1>2, <1>5, ClaimReturnsWrites, ReturnFits DEF Typed
  <1>6. ASSUME NEW id \in Ids, NEW c \in Cumulatives, NEW s \in signed, NEW p \in Prices,
               Accept(id, c, s, p)
        PROVE  \A i \in DOMAIN cache' : RowFits(i, cache'[i])
    BY <1>2, <1>6, AcceptWrites, AcceptFits DEF Typed
  <1>7. CASE PollApplies
    <2> DEFINE e == log[Min(poll.events)]
    <2>1. /\ e \in Chain!Event /\ e.id \in Ids /\ e.id \in DOMAIN cache
          /\ \/ UNCHANGED cache
             \/ /\ e.type \in {"topped_up", "claimed", "closed"}
                /\ Writes(e.id, Applying(cache[e.id], e))
      BY <1>7, PollAppliesWrites DEF Typed
    <2>2. EventFits(e)
      BY <1>7, Awaiting DEF PollApplies, Fits, Typed
    <2>3. cache[e.id] \in Row /\ RowFits(e.id, cache[e.id])
      BY <1>1, <2>1, RowTyped DEF Typed, StoreTyped
    <2> HIDE DEF e
    <2> QED BY <1>2, <1>3, <2>1, <2>2, <2>3, AppliedFits DEF Typed
  <1>8. CASE Boot
    BY <1>8 DEF Boot, Fits
  <1>9. CASE Crash \/ Shutdown
    BY <1>9, EmptyTyped DEF Crash, Shutdown, MemoryLost
  <1> QED BY <1>3, <1>4, <1>5, <1>6, <1>7, <1>8, <1>9, CacheWriters

LEMMA StoresFit ==
    ASSUME Typed, Fits, Step
    PROVE  /\ \A id \in DOMAIN db' : RowFits(id, db'[id])
           /\ \A i \in DOMAIN flushes' : \A id \in DOMAIN flushes'[i] : RowFits(id, flushes'[i][id])
  <1> DEFINE FitRows(rows) == \A id \in DOMAIN rows : RowFits(id, rows[id])
  <1>1. /\ FitRows(db) /\ FitRows(cache) /\ \A i \in DOMAIN flushes : FitRows(flushes[i])
        /\ flushes \in Seq(Table) /\ db \in Table /\ dirty \subseteq DOMAIN cache
    BY DEF Fits, Typed, StoreTyped
  <1>2. FitRows(Rows(dirty))
    BY <1>1 DEF Rows
  <1>3. ASSUME NEW rows \in Table, FitRows(rows)
        PROVE  FitRows(Written(rows))
    <2>1. /\ DOMAIN Written(rows) = DOMAIN db \cup DOMAIN rows
          /\ \A id \in DOMAIN rows : Written(rows)[id] = rows[id]
          /\ \A id \in DOMAIN db \ DOMAIN rows : Written(rows)[id] = db[id]
      BY <1>1, WrittenTyped
    <2> QED BY <1>1, <1>3, <2>1
  <1>4. \A i \in DOMAIN flushes : flushes[i] \in Table
    BY <1>1
  <1>5. Rows(dirty) \in Table
    BY RowsTyped DEF Typed
  <1> SUFFICES FitRows(db') /\ \A i \in DOMAIN flushes' : FitRows(flushes'[i])
    OBVIOUS
  <1> HIDE DEF FitRows
  <1>6. CASE UNCHANGED dbVars
    BY <1>1, <1>6 DEF dbVars
  <1>7. CASE db' = db /\ flushes' = Append(flushes, Rows(dirty))
    <2>1. /\ DOMAIN flushes' = 1..(Len(flushes) + 1) /\ DOMAIN flushes = 1..Len(flushes)
          /\ flushes'[Len(flushes) + 1] = Rows(dirty) /\ Len(flushes) \in Nat
          /\ \A i \in 1..Len(flushes) : flushes'[i] = flushes[i]
      BY <1>1, <1>5, <1>7, AppendProperties
    <2>2. \A i \in 1..(Len(flushes) + 1) : i \in 1..Len(flushes) \/ i = Len(flushes) + 1
      BY <2>1
    <2> QED BY <1>1, <1>2, <1>7, <2>1, <2>2
  <1>8. ASSUME NEW i \in DOMAIN flushes, db' \in {db, Written(flushes[i])},
               flushes' = RemoveAt(flushes, i)
        PROVE  FitRows(db') /\ \A j \in DOMAIN flushes' : FitRows(flushes'[j])
    <2>1. \A j \in DOMAIN flushes' : \E k \in DOMAIN flushes : flushes'[j] = flushes[k]
      BY <1>1, <1>8, RemoveAtLeaves
    <2> QED BY <1>1, <1>3, <1>4, <1>8, <2>1
  <1>9. CASE /\ flushes' = <<>>
             /\ \/ db' = db
                \/ \E i \in DOMAIN flushes : db' = Written(flushes[i])
                \/ db' = Written(Rows(dirty))
    BY <1>1, <1>2, <1>3, <1>4, <1>5, <1>9
  <1> QED BY <1>6, <1>7, <1>8, <1>9, DbStep DEF Stores

LEMMA LoadsFit ==
    ASSUME Typed, Fits, Step
    PROVE  \A id \in Ids : loading'[id].at = "answered" => WasRead(id, loading'[id].state)
  <1>0. /\ \A id \in Ids : loading[id].at = "answered" => WasRead(id, loading[id].state)
        /\ loading \in [Ids -> Load]
    BY DEF Fits, Typed, StoreTyped
  <1>1. ASSUME NEW id \in Ids, Chain!Found(id)
        PROVE  WasRead(id, ChannelState(id))
    BY <1>1, ChannelTyped DEF WasRead, ChannelState, Chain!Found, Typed, ChainTyped
  <1>2. ASSUME NEW id \in Ids, LoadAnswered(id)
        PROVE  \A i \in Ids : loading'[i].at = "answered" => WasRead(i, loading'[i].state)
    <2>1. CASE Chain!Found(id)
      <3>1. loading' = [loading EXCEPT ![id] = [at |-> "answered", state |-> ChannelState(id)]]
        BY <1>2, <2>1 DEF LoadAnswered
      <3> QED BY <1>0, <1>1, <2>1, <3>1
    <2>2. CASE ~Chain!Found(id)
      <3>1. loading' = [loading EXCEPT ![id] = [at |-> "missing"]]
        BY <1>2, <2>2 DEF LoadAnswered
      <3> QED BY <1>0, <3>1
    <2> QED BY <2>1, <2>2
  <1>3. Idle.at # "answered" /\ Asked.at # "answered"
    BY DEF Idle, Asked
  <1>4. ASSUME NEW id, LoadAsks(id) \/ LoadInserts(id) \/ LoadMisses(id) \/ LoadFails(id)
        PROVE  \A i \in Ids : loading'[i].at = "answered" => WasRead(i, loading'[i].state)
    <2>1. loading' = [loading EXCEPT ![id] = Idle] \/ loading' = [loading EXCEPT ![id] = Asked]
      BY <1>4 DEF LoadAsks, LoadInserts, LoadMisses, LoadFails
    <2> QED BY <1>0, <1>3, <2>1
  <1>5. CASE Crash \/ Shutdown
    BY <1>3, <1>5 DEF Crash, Shutdown, MemoryLost
  <1> QED BY <1>0, <1>2, <1>4, <1>5, LoadWriters DEF PollLoads

LEMMA ClaimStays ==
    ASSUME Typed, Typed', Grew, Logged, NEW id \in Ids, NEW c \in InFlight,
           Chain!Found(id), ClaimFits(id, c)
    PROVE  Chain!Found(id)' /\ ClaimFits(id, c)'
  <1>1. id \in DOMAIN channels /\ id \in DOMAIN channels' /\ c.cumulative \in Int
    BY DEF Chain!Found, Grew, InFlight
  <1>2. /\ channels[id].claimed \in Int /\ channels'[id].claimed \in Int
        /\ channels[id].open \in BOOLEAN
    <2>1. channels'[id] \in Chain!Channel'
      BY <1>1 DEF Typed, ChainTyped, Chain!TypeOK
    <2> QED BY <1>1, <2>1, ChannelTyped DEF Typed, ChainTyped, Chain!Channel
  <1>3. Backs(c.sig, id, c.cumulative)'
    BY <1>1, BacksStays DEF ClaimFits, Typed
  <1>4. c.at = "landed" => c.cumulative <= channels'[id].claimed
    BY <1>1, <1>2 DEF ClaimFits, Grew
  <1>5. c.at = "failed" => c.cumulative <= channels'[id].claimed \/ ~channels'[id].open
    BY <1>1, <1>2 DEF ClaimFits, Grew
  <1>6. c.at = "landed" => c.tx \in DOMAIN log' /\ log'[c.tx].id = id /\ log'[c.tx].type = "claimed"
    BY LogGrows DEF ClaimFits, Typed
  <1> QED BY <1>1, <1>3, <1>4, <1>5, <1>6 DEF ClaimFits, Chain!Found

(* What a claim that starts asks for is backed.                             *)
LEMMA StartFits ==
    ASSUME Typed, Fits, NEW id \in Ids, Cached(id), Claimable(id), NEW b \in BOOLEAN, claim(id, b)
    PROVE  Chain!Found(id) /\ ClaimFits(id, claims'[id])
  <1>1. cache[id] \in Row /\ RowFits(id, cache[id])
    BY RowTyped DEF Cached, Fits, Typed, StoreTyped
  <1>2. cache[id].lastAccepted > cache[id].claimed /\ cache[id].claimed \in Int /\ cache[id].lastAccepted \in Int
    BY <1>1 DEF Claimable, Row
  <1>3. Backs(cache[id].lastSig, id, cache[id].lastAccepted) /\ Chain!Found(id)
    BY <1>1, <1>2 DEF RowFits, WasRead
  <1>4. claims'[id] = [at |-> "queued", cumulative |-> cache[id].lastAccepted,
                       sig |-> cache[id].lastSig, covered |-> cache[id].vouchersSinceClaim,
                       tx |-> 0, byTick |-> b]
    BY ClaimStarts
  <1> QED BY <1>3, <1>4 DEF ClaimFits

LEMMA ClaimsFit ==
    ASSUME Typed, Fits, Step, Typed', Grew, Logged
    PROVE  \A id \in Ids : (claims[id] # Idle => Chain!Found(id) /\ ClaimFits(id, claims[id]))'
  <1>0. /\ \A id \in Ids : claims[id] # Idle => Chain!Found(id) /\ ClaimFits(id, claims[id])
        /\ claims \in [Ids -> {Idle} \cup InFlight] /\ claims' \in [Ids -> {Idle} \cup InFlight]
    BY TypesStay DEF Fits, Typed, ClaimTyped, Grew, Idle
  <1>1. ASSUME \A id \in Ids : claims'[id] # Idle => Chain!Found(id) /\ ClaimFits(id, claims'[id])
        PROVE  \A id \in Ids : (claims[id] # Idle => Chain!Found(id) /\ ClaimFits(id, claims[id]))'
    <2> SUFFICES ASSUME NEW id \in Ids, claims'[id] # Idle
                 PROVE  Chain!Found(id)' /\ ClaimFits(id, claims[id])'
      OBVIOUS
    <2>1. PICK c \in InFlight : c = claims'[id]
      BY <1>0
    <2>2. Chain!Found(id) /\ ClaimFits(id, c)
      BY <1>1, <2>1
    <2>3. Chain!Found(id)' /\ ClaimFits(id, c)'
      BY <2>2, ClaimStays
    <2> QED BY <2>1, <2>3 DEF ClaimFits
  <1>2. ASSUME \A id \in Ids : claims'[id] = claims[id] \/ claims'[id] = Idle
        PROVE  \A id \in Ids : (claims[id] # Idle => Chain!Found(id) /\ ClaimFits(id, claims[id]))'
    BY <1>0, <1>1, <1>2
  <1>3. CASE Crash \/ Shutdown
    BY <1>2, <1>3 DEF Crash, Shutdown, MemoryLost
  <1>4. ASSUME NEW id \in Ids, TickClaims(id) \/ ManualClaim(id)
        PROVE  \A i \in Ids : (claims[i] # Idle => Chain!Found(i) /\ ClaimFits(i, claims[i]))'
    <2>1. Cached(id) /\ Claimable(id) /\ (claim(id, TRUE) \/ claim(id, FALSE))
      <3>1. CASE TickClaims(id)
        <4>1. tick \in Look /\ id \in tick.todo
          BY <3>1 DEF TickClaims, Typed, ClaimTyped, Idle
        <4> QED BY <3>1, <4>1 DEF TickClaims, Look, Cached
      <3>2. CASE ManualClaim(id)
        BY <3>2 DEF ManualClaim
      <3> QED BY <1>4, <3>1, <3>2
    <2>2. /\ \A i \in Ids \ {id} : claims'[i] = claims[i]
          /\ Chain!Found(id) /\ ClaimFits(id, claims'[id])
      BY <2>1, ClaimStarts, StartFits
    <2> QED BY <1>0, <1>1, <2>2
  <1>5. ASSUME NEW id \in Ids, Simulates(id)
        PROVE  \A i \in Ids : (claims[i] # Idle => Chain!Found(i) /\ ClaimFits(i, claims[i]))'
    <2>1. /\ \A i \in Ids \ {id} : claims'[i] = claims[i]
          /\ claims[id] \in InFlight /\ claims[id].at = "queued"
          /\ claims'[id] = [claims[id] EXCEPT !.at = "sent"] \/ claims'[id] = Idle
      BY <1>5, SimulatesTyped
    <2>2. Chain!Found(id) /\ ClaimFits(id, claims[id])
      BY <1>0, <2>1 DEF Idle
    <2>3. CASE claims'[id] = [claims[id] EXCEPT !.at = "sent"]
      <3>1. /\ claims'[id].at = "sent" /\ claims'[id].sig = claims[id].sig
            /\ claims'[id].cumulative = claims[id].cumulative /\ claims'[id].tx = claims[id].tx
        BY <2>1, <2>3 DEF InFlight
      <3>2. ClaimFits(id, claims'[id])
        BY <2>1, <2>2, <3>1 DEF ClaimFits
      <3> QED BY <1>0, <1>1, <2>1, <2>2, <3>2
    <2> QED BY <1>2, <2>1, <2>3
  <1>6. ASSUME NEW id \in Ids, ClaimReturns(id) \/ ClaimThrows(id)
        PROVE  \A i \in Ids : (claims[i] # Idle => Chain!Found(i) /\ ClaimFits(i, claims[i]))'
    BY <1>0, <1>2, <1>6 DEF ClaimReturns, ClaimThrows, Settled
  <1>7. ASSUME NEW tx \in mempool, ClaimDropped(tx)
        PROVE  claims' = claims
    BY <1>7 DEF ClaimDropped, claimVars
  <1>8. ASSUME NEW tx \in mempool, ClaimApplied(tx)
        PROVE  \A i \in Ids : (claims[i] # Idle => Chain!Found(i) /\ ClaimFits(i, claims[i]))'
    <2> SUFFICES ASSUME NEW i \in Ids, claims'[i] # Idle
                 PROVE  Chain!Found(i)' /\ ClaimFits(i, claims[i])'
      OBVIOUS
    <2>0. tx \in Sent /\ tx.id \in Ids /\ tx.cumulative \in Int /\ tx.sig \in signed /\ TxFits(tx)
      BY DEF Typed, ClaimTyped, Sent, Fits
    <2>1. CASE tx.awaited /\ tx.id = i
      <3> PICK c \in InFlight : c = claims'[i]
        BY <1>0
      <3>1. /\ claims[i] \in InFlight /\ c.at \in {"landed", "failed"}
            /\ c.at = "landed" <=> Chain!ClaimAccepted(tx.id, tx.cumulative, tx.sig)
            /\ c.tx = IF c.at = "landed" THEN Len(log) + 1 ELSE 0
            /\ c.cumulative = claims[i].cumulative /\ c.sig = claims[i].sig /\ claims[i].at = "sent"
        BY <1>8, <2>1, ClaimAppliedTyped
      <3>2. Chain!Found(i) /\ Backs(c.sig, i, c.cumulative) /\ c.cumulative = tx.cumulative /\ c.sig = tx.sig
        BY <1>0, <2>0, <2>1, <3>1 DEF ClaimFits, TxFits, Idle
      <3>3. i \in DOMAIN channels /\ i \in DOMAIN channels' /\ channels[i].claimed \in Int
        BY <3>2, ChannelTyped DEF Chain!Found, Grew, Typed, ChainTyped
      <3>4. Backs(c.sig, i, c.cumulative)'
        BY <2>0, <3>2, <3>3, BacksStays DEF Typed
      <3>5. CASE c.at = "landed"
        <4>1. Chain!Claim(i, c.cumulative, c.sig) /\ log' = Append(log, event')
          BY <1>8, <2>1, <3>1, <3>2, <3>5 DEF ClaimApplied
        <4>2. event'.type = "claimed" /\ event'.id = i /\ channels'[i].claimed = c.cumulative
          BY <2>0, <3>2, <4>1, ClaimGrows DEF Typed, ChainTyped
        <4>3. c.tx \in DOMAIN log' /\ log'[c.tx] = event'
          BY <3>1, <3>5, <4>1 DEF Typed, ChainTyped
        <4>4. ClaimFits(i, c)'
          BY <2>0, <3>2, <3>4, <3>5, <4>2, <4>3 DEF ClaimFits
        <4> QED BY <3>3, <4>4 DEF Chain!Found, ClaimFits
      <3>6. CASE c.at = "failed"
        <4>1. ~Chain!ClaimAccepted(i, c.cumulative, c.sig) /\ UNCHANGED chainVars
          BY <1>8, <2>1, <3>1, <3>2, <3>6 DEF ClaimApplied
        <4>2. c.cumulative <= channels[i].claimed \/ ~channels[i].open
          BY <2>0, <3>2, <3>3, <4>1 DEF Chain!ClaimAccepted, Chain!OpenChannel, Chain!Found, Backs
        <4>3. channels' = channels
          BY <4>1 DEF chainVars
        <4>4. ClaimFits(i, c)'
          BY <3>1, <3>4, <3>6, <4>2, <4>3 DEF ClaimFits
        <4> QED BY <3>3, <4>4 DEF Chain!Found, ClaimFits
      <3> QED BY <3>1, <3>5, <3>6
    <2>2. CASE ~(tx.awaited /\ tx.id = i)
      <3>1. claims'[i] = claims[i]
        BY <1>8, <2>2, ClaimAppliedTyped
      <3>2. PICK c \in InFlight : c = claims'[i]
        BY <1>0
      <3>3. Chain!Found(i)' /\ ClaimFits(i, c)'
        BY <1>0, <3>1, <3>2, ClaimStays
      <3> QED BY <3>2, <3>3 DEF ClaimFits
    <2> QED BY <2>1, <2>2
  <1> QED BY <1>2, <1>3, <1>4, <1>5, <1>6, <1>7, <1>8, ClaimWriters

LEMMA TxStays ==
    ASSUME Typed, Typed', Grew, NEW tx \in Sent, Chain!Found(tx.id), Backs(tx.sig, tx.id, tx.cumulative),
           tx.awaited => /\ claims'[tx.id].at = "sent" /\ claims'[tx.id].cumulative = tx.cumulative
                         /\ claims'[tx.id].sig = tx.sig
    PROVE  TxFits(tx)'
  <1>1. tx.id \in DOMAIN channels /\ tx.id \in DOMAIN channels' /\ tx.cumulative \in Int
    BY DEF Chain!Found, Grew, Sent
  <1>2. Backs(tx.sig, tx.id, tx.cumulative)'
    BY <1>1, BacksStays DEF Typed
  <1> QED BY <1>1, <1>2 DEF TxFits, Chain!Found

LEMMA MempoolFits ==
    ASSUME Typed, Fits, Step, Typed', Grew, Logged
    PROVE  \A tx \in mempool' : TxFits(tx)'
  <1>0. mempool \subseteq Sent /\ (\A tx \in mempool : TxFits(tx)) /\ claims \in [Ids -> {Idle} \cup InFlight]
    BY DEF Fits, Typed, ClaimTyped
  <1>1. ASSUME NEW tx \in mempool, tx.awaited => claims'[tx.id] = claims[tx.id]
        PROVE  TxFits(tx)'
    BY <1>0, <1>1, TxStays DEF TxFits
  <1>2. CASE UNCHANGED <<claims, mempool>>
    BY <1>1, <1>2
  <1>3. ASSUME NEW id \in Ids, TickClaims(id) \/ ManualClaim(id)
        PROVE  \A tx \in mempool' : TxFits(tx)'
    <2>1. claims[id] = Idle /\ mempool' = mempool
      BY <1>3 DEF TickClaims, ManualClaim, Claimable
    <2>2. \A i \in Ids \ {id} : claims'[i] = claims[i]
      BY <1>0, <1>3 DEF TickClaims, ManualClaim, claim
    <2>3. \A tx \in mempool : tx.awaited => tx.id \in Ids \ {id}
      BY <1>0, <2>1 DEF TxFits, Idle, Sent
    <2> QED BY <1>1, <2>1, <2>2, <2>3
  <1>4. ASSUME NEW id \in Ids, Simulates(id)
        PROVE  \A tx \in mempool' : TxFits(tx)'
    <2> DEFINE t == [id |-> id, cumulative |-> claims[id].cumulative,
                     sig |-> claims[id].sig, awaited |-> TRUE]
    <2>1. /\ claims[id] \in InFlight /\ claims[id].at = "queued"
          /\ \A i \in Ids \ {id} : claims'[i] = claims[i]
          /\ \/ claims'[id] = [claims[id] EXCEPT !.at = "sent"] /\ mempool' = mempool \cup {t}
             \/ mempool' = mempool
      BY <1>4, SimulatesTyped
    <2>2. \A tx \in mempool : tx.awaited => tx.id \in Ids \ {id}
      BY <1>0, <2>1 DEF TxFits, Sent
    <2>3. \A tx \in mempool : TxFits(tx)'
      BY <1>1, <2>1, <2>2
    <2>4. ASSUME NEW x, x = t, claims'[id] = [claims[id] EXCEPT !.at = "sent"]
          PROVE  TxFits(x)'
      <3>1. /\ claims'[id].at = "sent" /\ claims'[id].sig = claims[id].sig
            /\ claims'[id].cumulative = claims[id].cumulative
        BY <2>1, <2>4 DEF InFlight
      <3>2. Chain!Found(id) /\ ClaimFits(id, claims[id])
        BY <2>1 DEF Fits, Idle
      <3>3. t \in Sent
        BY <2>1 DEF InFlight, Sent
      <3> QED BY <2>4, <3>1, <3>2, <3>3, TxStays DEF ClaimFits
    <2> HIDE DEF t
    <2> QED BY <2>1, <2>3, <2>4
  <1>5. ASSUME NEW id \in Ids, ClaimReturns(id)
        PROVE  \A tx \in mempool' : TxFits(tx)'
    <2>1. \A tx \in mempool : tx.awaited => tx.id \in Ids \ {id}
      BY <1>0, <1>5 DEF ClaimReturns, TxFits, Sent
    <2>2. mempool' = mempool /\ \A i \in Ids \ {id} : claims'[i] = claims[i]
      BY <1>0, <1>5 DEF ClaimReturns, Settled
    <2> QED BY <1>1, <2>1, <2>2
  <1>6. ASSUME NEW txs, txs \subseteq mempool, mempool' = Abandoned(txs),
               \A tx \in mempool \ txs : tx.awaited => claims'[tx.id] = claims[tx.id]
        PROVE  \A tx \in mempool' : TxFits(tx)'
    <2> SUFFICES ASSUME NEW tx \in Abandoned(txs) PROVE TxFits(tx)'
      BY <1>6
    <2>1. tx \in Sent
      BY <1>0, <1>6, AbandonedTyped
    <2>2. CASE tx \in mempool /\ tx \notin txs
      BY <1>1, <1>6, <2>2
    <2>3. CASE ~tx.awaited /\ \E u \in mempool : tx.id = u.id /\ tx.cumulative = u.cumulative /\ tx.sig = u.sig
      <3> PICK u \in mempool : tx.id = u.id /\ tx.cumulative = u.cumulative /\ tx.sig = u.sig
        BY <2>3
      <3>1. Chain!Found(tx.id) /\ Backs(tx.sig, tx.id, tx.cumulative)
        BY <1>0 DEF TxFits
      <3> QED BY <2>1, <2>3, <3>1, TxStays
    <2> QED BY <1>0, <1>6, <2>2, <2>3, AbandonedTyped
  <1>7. ASSUME NEW id \in Ids, ClaimThrows(id)
        PROVE  \A tx \in mempool' : TxFits(tx)'
    <2> DEFINE txs == {tx \in mempool : tx.id = id}
    <2>1. txs \subseteq mempool /\ mempool' = Abandoned(txs)
      BY <1>7 DEF ClaimThrows
    <2>2. \A i \in Ids \ {id} : claims'[i] = claims[i]
      BY <1>0, <1>7 DEF ClaimThrows, Settled
    <2>3. \A tx \in mempool \ txs : tx.id \in Ids \ {id}
      BY <1>0 DEF Sent
    <2> HIDE DEF txs
    <2> QED BY <1>6, <2>1, <2>2, <2>3
  <1>8. CASE Crash \/ Shutdown
    <2>1. mempool' = Abandoned(mempool)
      BY <1>8 DEF Crash, Shutdown, MemoryLost
    <2> QED BY <1>6, <2>1
  <1>9. ASSUME NEW tx \in mempool, ClaimDropped(tx)
        PROVE  \A u \in mempool' : TxFits(u)'
    BY <1>1, <1>9 DEF ClaimDropped, claimVars
  <1>10. ASSUME NEW tx \in mempool, ClaimApplied(tx)
         PROVE  \A u \in mempool' : TxFits(u)'
    <2>1. /\ mempool' = mempool \ {tx}
          /\ \A i \in Ids : ~(tx.awaited /\ tx.id = i) => claims'[i] = claims[i]
      BY <1>10, ClaimAppliedTyped
    <2>2. ASSUME NEW u \in mempool, u # tx, u.awaited, tx.awaited, tx.id = u.id
          PROVE  FALSE
      <3>1. u.cumulative = tx.cumulative /\ u.sig = tx.sig
        BY <1>0, <2>2 DEF TxFits
      <3>2. u.awaited = tx.awaited
        BY <1>0, <2>2 DEF Sent
      <3> QED BY <1>0, <2>2, <3>1, <3>2 DEF Sent
    <2>3. \A u \in mempool : u.id \in Ids
      BY <1>0 DEF Sent
    <2> QED BY <1>1, <2>1, <2>2, <2>3
  <1> QED BY <1>2, <1>3, <1>4, <1>5, <1>7, <1>8, <1>9, <1>10, ClaimWriters

LEMMA FitsStep ==
    ASSUME Typed, Fits, Step
    PROVE  Fits'
  <1>1. Typed' /\ Grew /\ Logged
    BY TypedStep
  <1>2. /\ ChainTyped /\ ChainTyped' /\ Row' = Row
        /\ cache' \in Table /\ db' \in Table /\ flushes' \in Seq(Table) /\ loading' \in [Ids -> Load]
    BY <1>1, TypesStay, CacheTyped, DbStep, StoresTyped, LoadStep DEF Typed, Grew
  <1>3. ASSUME NEW rows \in Table, \A id \in DOMAIN rows : RowFits(id, rows[id])
        PROVE  \A id \in DOMAIN rows : RowFits(id, rows[id])'
    BY <1>1, <1>2, <1>3, RowTyped, RowStays
  <1>4. (\A i \in DOMAIN log : EventFits(log[i]))'
    <2> SUFFICES ASSUME NEW i \in DOMAIN log' PROVE EventFits(log[i])'
      OBVIOUS
    <2>1. CASE i \in DOMAIN log
      <3>1. log'[i] = log[i] /\ log[i] \in Chain!Event /\ EventFits(log[i])
        BY <1>1, <1>2, <2>1, LogGrows DEF Fits, ChainTyped
      <3>2. PICK e \in Chain!Event : e = log[i]
        BY <3>1
      <3>3. EventFits(e)'
        BY <1>1, <1>2, <3>1, <3>2, EventStays
      <3> QED BY <3>1, <3>2, <3>3 DEF EventFits
    <2>2. CASE i \notin DOMAIN log
      BY <1>1, <1>2, <2>2, LogGrows DEF EventFits
    <2> QED BY <2>1, <2>2
  <1>5. (\A id \in DOMAIN cache : RowFits(id, cache[id]))'
    <2>1. PICK rows \in Table : rows = cache'
      BY <1>2
    <2>2. \A id \in DOMAIN rows : RowFits(id, rows[id])'
      BY <1>3, <2>1, CacheFits
    <2> QED BY <2>1, <2>2 DEF RowFits, WasRead
  <1>6. (\A id \in DOMAIN db : RowFits(id, db[id]))'
    <2>1. PICK rows \in Table : rows = db'
      BY <1>2
    <2>2. \A id \in DOMAIN rows : RowFits(id, rows[id])'
      BY <1>3, <2>1, StoresFit
    <2> QED BY <2>1, <2>2 DEF RowFits, WasRead
  <1>7. (\A i \in DOMAIN flushes : \A id \in DOMAIN flushes[i] : RowFits(id, flushes[i][id]))'
    <2> SUFFICES ASSUME NEW i \in DOMAIN flushes'
                 PROVE  (\A id \in DOMAIN flushes[i] : RowFits(id, flushes[i][id]))'
      OBVIOUS
    <2>1. PICK rows \in Table : rows = flushes'[i]
      BY <1>2
    <2>2. \A id \in DOMAIN rows : RowFits(id, rows[id])'
      BY <1>3, <2>1, StoresFit
    <2> QED BY <2>1, <2>2 DEF RowFits, WasRead
  <1>8. (\A id \in Ids : loading[id].at = "answered" => WasRead(id, loading[id].state))'
    <2> SUFFICES ASSUME NEW id \in Ids, loading'[id].at = "answered"
                 PROVE  WasRead(id, loading[id].state)'
      OBVIOUS
    <2>1. loading'[id].state \in Answer
      BY <1>2 DEF Load, Idle, Asked
    <2>2. PICK ch \in Answer : ch = loading'[id].state
      BY <2>1
    <2>3. WasRead(id, ch) /\ ch.deposit \in Int /\ ch.claimed \in Int
      BY <2>2, LoadsFit DEF Answer
    <2>4. WasRead(id, ch)'
      BY <1>1, <1>2, <2>3, ReadStays
    <2> QED BY <2>2, <2>4 DEF WasRead
  <1>9. (\A id \in Ids : claims[id] # Idle => Chain!Found(id) /\ ClaimFits(id, claims[id]))'
    BY <1>1, ClaimsFit
  <1>10. (\A tx \in mempool : TxFits(tx))'
    BY <1>1, MempoolFits
  <1> QED BY <1>4, <1>5, <1>6, <1>7, <1>8, <1>9, <1>10 DEF Fits

-----------------------------------------------------------------------------
(* Everything the process holds has its type and fits the chain, always.    *)
LEMMA InitFits == Init => Typed /\ Fits
  <1> SUFFICES ASSUME Init PROVE Typed /\ Fits
    OBVIOUS
  <1>1. Chain!TypeOK
    <2>1. ledger \in Nat /\ next_id \in 1..(MaxId + 1)
      BY FacilitatorAssumption DEF Init, Chain!Deployed
    <2>2. DOMAIN channels = 1..(next_id - 1) /\ channels \in [1..(next_id - 1) -> Chain!Channel]
      BY DEF Init, Chain!Deployed
    <2>3. balance \in [Assets -> [Chain!Holders -> Int]]
      BY FacilitatorAssumption DEF Init, Chain!Deployed
    <2>4. event \in Chain!Event \cup {Chain!NoEvent}
      BY DEF Init, Chain!Deployed
    <2>5. signed \subseteq Chain!Vouchers
      BY FacilitatorAssumption DEF Init, Chain!Vouchers, Ids, Chain!Ids
    <2> QED BY <2>1, <2>2, <2>3, <2>4, <2>5 DEF Chain!TypeOK
  <1>2. log = <<>> /\ log \in Seq(Chain!Event) /\ flushes = <<>> /\ flushes \in Seq(Table)
    BY DEF Init
  <1>3. ChainTyped
    BY <1>1, <1>2 DEF ChainTyped
  <1>4. StoreTyped
    <2>1. cache \in Table /\ db \in Table /\ dirty = {}
      BY EmptyTyped DEF Init
    <2>2. loading \in [Ids -> Load] /\ \A id \in Ids : loading[id] = Idle
      BY DEF Init, Load
    <2> QED BY <1>2, <2>1, <2>2 DEF StoreTyped
  <1>5. WatchTyped
    <2>1. ledger \in 0..ledger /\ wledger = ledger /\ cursor = ledger /\ seen = {} /\ poll = Idle
      BY <1>1 DEF Init, Chain!TypeOK
    <2> QED BY <2>1 DEF WatchTyped, Idle
  <1>6. ClaimTyped
    BY DEF Init, ClaimTyped, ByTick
  <1>7. DownIsEmpty
    BY DEF Init, DownIsEmpty
  <1>8. Fits
    BY <1>2, EmptyTyped DEF Init, Fits, Idle
  <1> QED BY <1>3, <1>4, <1>5, <1>6, <1>7, <1>8 DEF Typed

LEMMA AlwaysFits == Spec => [](Typed /\ Fits)
  <1>1. Typed /\ Fits /\ [Next]_vars => Typed' /\ Fits'
    BY TypedStep, FitsStep DEF Step
  <1> QED BY <1>1, InitFits, PTL DEF Spec

(* The cache, the stored rows and the claims in flight never get ahead of the
   chain, whatever is loaded, polled, flushed, crashed and restarted in
   whatever order: deposits and claimed totals follow it, and every variable
   keeps its type.                                                          *)
THEOREM NeverLeads == Spec => []NeverAheadOfChain
  <1>1. Typed /\ Fits => TypeOK
    <2> SUFFICES ASSUME Typed, Fits PROVE TypeOK
      OBVIOUS
    <2>1. Chain!TypeOK /\ up \in BOOLEAN
      BY DEF Typed, ChainTyped, DownIsEmpty
    <2>2. /\ DOMAIN cache \subseteq Ids /\ \A id \in DOMAIN cache : cache[id] \in Row
          /\ DOMAIN db \subseteq Ids /\ \A id \in DOMAIN db : db[id] \in Row
          /\ dirty \subseteq DOMAIN cache
      BY RowTyped DEF Typed, StoreTyped
    <2>3. wledger \in 0..ledger /\ cursor \in 0..ledger /\ seen \subseteq DOMAIN log
      BY DEF Typed, WatchTyped
    <2>4. \A id \in Ids : claims[id].at \in {"idle", "queued", "sent", "landed", "failed"}
      BY DEF Typed, ClaimTyped, Idle, InFlight
    <2>5. tick.at \in {"idle", "looking", "awaiting"}
      BY DEF Typed, ClaimTyped, Idle, Look
    <2>6. poll.at \in {"idle", "applying", "awaiting"}
      BY DEF Typed, WatchTyped, Idle, Page
    <2> QED BY <2>1, <2>2, <2>3, <2>4, <2>5, <2>6 DEF TypeOK
  <1>2. Typed /\ Fits => NeverAheadOfChain
    BY <1>1 DEF NeverAheadOfChain, Fits, RowFits, WasRead
  <1> QED BY <1>2, AlwaysFits, PTL

(* Whatever was accepted and is not paid yet can be collected with the
   signature at hand, by a cache after any number of crashes too.           *)
THEOREM CanBeClaimed == Spec => []AcceptedCanBeClaimed
  <1>1. Typed /\ Fits => AcceptedCanBeClaimed
    <2> SUFFICES ASSUME Typed, Fits, NEW id \in DOMAIN cache,
                        cache[id].lastAccepted > Max2(cache[id].claimed, channels[id].claimed),
                        channels[id].open
                 PROVE  Chain!ClaimAccepted(id, cache[id].lastAccepted, cache[id].lastSig)
      BY DEF AcceptedCanBeClaimed
    <2>1. cache[id].claimed \in Int /\ cache[id].lastAccepted \in Int /\ RowFits(id, cache[id])
      BY RowTyped DEF Typed, StoreTyped, Fits
    <2>2. id \in DOMAIN channels /\ channels[id].claimed \in Int
      BY <2>1, ChannelTyped DEF Typed, ChainTyped, RowFits, WasRead, Chain!Found
    <2>3. cache[id].lastAccepted > cache[id].claimed /\ cache[id].lastAccepted > channels[id].claimed
      BY <2>1, <2>2 DEF Max2
    <2>4. Backs(cache[id].lastSig, id, cache[id].lastAccepted)
      BY <2>1, <2>3 DEF RowFits
    <2> QED BY <2>2, <2>3, <2>4 DEF Chain!ClaimAccepted, Chain!OpenChannel, Chain!Found, Backs
  <1> QED BY <1>1, AlwaysFits, PTL

-----------------------------------------------------------------------------
(* A cached row only moves on, while the process runs.                      *)
LEMMA AppliedGrows ==
    ASSUME NEW ch \in Row, NEW e \in Chain!Event, e.type \in {"topped_up", "claimed", "closed"}
    PROVE  LET new == Applying(ch, e) IN
           /\ new.lastAccepted >= ch.lastAccepted /\ new.claimed >= ch.claimed
           /\ new.vouchersSinceClaim = ch.vouchersSinceClaim
           /\ new.deposit = IF e.type = "topped_up" THEN e.total ELSE ch.deposit
           /\ ~ch.open => ~new.open
           /\ e.type = "claimed" => new.claimed >= e.total
           /\ e.type = "closed" => new.claimed >= e.total /\ ~new.open
  <1>1. /\ e.total \in Int /\ ch.deposit \in Int /\ ch.claimed \in Int /\ ch.lastAccepted \in Int
        /\ ch.open \in BOOLEAN
    BY DEF Chain!Event, Row
  <1>2. CASE e.type = "topped_up"
    <2> DEFINE new == [ch EXCEPT !.deposit = e.total]
    <2>1. /\ Applying(ch, e) = new /\ new.deposit = e.total
          /\ new.claimed = ch.claimed /\ new.open = ch.open /\ new.lastAccepted = ch.lastAccepted
          /\ new.vouchersSinceClaim = ch.vouchersSinceClaim
      BY <1>2 DEF Applying, ToppedUp, Row
    <2> HIDE DEF new
    <2> QED BY <1>1, <1>2, <2>1
  <1>3. CASE e.type = "claimed"
    <2> DEFINE c == Max2(ch.claimed, e.total)
               l == Max2(ch.lastAccepted, e.total)
               new == [ch EXCEPT !.claimed = c, !.lastAccepted = l]
    <2>1. /\ Applying(ch, e) = new /\ new.deposit = ch.deposit
          /\ new.claimed = c /\ new.open = ch.open /\ new.lastAccepted = l
          /\ new.vouchersSinceClaim = ch.vouchersSinceClaim
      BY <1>3 DEF Applying, Claimed, Row
    <2>2. c >= ch.claimed /\ c >= e.total /\ l >= ch.lastAccepted
      BY <1>1 DEF Max2
    <2> HIDE DEF new, c, l
    <2> QED BY <1>1, <1>3, <2>1, <2>2
  <1>4. CASE e.type = "closed"
    <2> DEFINE c == Max2(ch.claimed, e.total)
    <2> PICK f \in BOOLEAN : f = FALSE
      OBVIOUS
    <2> DEFINE new == [ch EXCEPT !.open = f, !.claimed = c]
    <2>1. Applying(ch, e) = new
      BY <1>4 DEF Applying, Closed
    <2>2. /\ new.deposit = ch.deposit /\ new.open = f
          /\ new.claimed = c /\ new.lastAccepted = ch.lastAccepted
          /\ new.vouchersSinceClaim = ch.vouchersSinceClaim
      BY DEF Row
    <2>3. c >= ch.claimed /\ c >= e.total
      BY <1>1 DEF Max2
    <2> HIDE DEF new, c
    <2> QED BY <1>1, <1>4, <2>1, <2>2, <2>3
  <1> QED BY <1>2, <1>3, <1>4

LEMMA RowMovesOn ==
    ASSUME Typed, Step, NEW id \in DOMAIN cache
    PROVE  \/ Crash \/ Shutdown \/ Boot
           \/ /\ id \in DOMAIN cache'
              /\ cache'[id].lastAccepted >= cache[id].lastAccepted
              /\ cache'[id].claimed >= cache[id].claimed
              /\ ~cache[id].open => ~cache'[id].open
              /\ \/ cache'[id].vouchersSinceClaim >= cache[id].vouchersSinceClaim
                 \/ ClaimReturns(id)
              /\ \/ cache'[id].deposit = cache[id].deposit
                 \/ LET e == log[Min(poll.events)] IN
                    /\ PollApplies /\ e.id = id /\ e.type = "topped_up"
                    /\ cache'[id].deposit = e.total
  <1> DEFINE Good == /\ id \in DOMAIN cache'
                     /\ cache'[id].lastAccepted >= cache[id].lastAccepted
                     /\ cache'[id].claimed >= cache[id].claimed
                     /\ ~cache[id].open => ~cache'[id].open
                     /\ \/ cache'[id].vouchersSinceClaim >= cache[id].vouchersSinceClaim
                        \/ ClaimReturns(id)
                     /\ \/ cache'[id].deposit = cache[id].deposit
                        \/ LET e == log[Min(poll.events)] IN
                           /\ PollApplies /\ e.id = id /\ e.type = "topped_up"
                           /\ cache'[id].deposit = e.total
  <1>0. /\ id \in Ids /\ cache[id] \in Row
        /\ cache[id].lastAccepted \in Int /\ cache[id].claimed \in Int
        /\ cache[id].vouchersSinceClaim \in Nat
    BY RowTyped DEF Typed, StoreTyped
  <1>1. CASE UNCHANGED cache
    BY <1>0, <1>1
  <1>2. ASSUME NEW j \in Ids, NEW ch, Writes(j, ch), j # id
        PROVE  Good
    <2>1. id \in DOMAIN cache' /\ cache'[id] = cache[id]
      BY <1>2, WritesEffect DEF Typed
    <2> QED BY <1>0, <2>1
  <1>3. ASSUME NEW ch, Writes(id, ch)
        PROVE  id \in DOMAIN cache' /\ cache'[id] = ch
    BY <1>0, <1>3, WritesEffect DEF Typed
  <1>4. ASSUME NEW j \in Ids, LoadInserts(j) PROVE Good
    <2>1. Writes(j, insert(loading[j].state))
      BY <1>4, LoadInsertsWrites DEF Typed
    <2>2. j # id
      BY <1>4 DEF LoadInserts, Typed, StoreTyped, Cached, Idle
    <2> QED BY <1>2, <2>1, <2>2
  <1>5. ASSUME NEW j \in Ids, ClaimReturns(j) PROVE Good
    <2> DEFINE n == Max2(cache[j].claimed, claims[j].cumulative)
               new == [cache[j] EXCEPT !.claimed = n,
                               !.vouchersSinceClaim = Max2(0, @ - claims[j].covered)]
    <2>1. Writes(j, new)
      BY <1>5, ClaimReturnsWrites DEF Typed
    <2>2. CASE j = id
      <3>1. cache'[id] = new /\ id \in DOMAIN cache'
        BY <1>3, <2>1, <2>2
      <3>2. /\ new.lastAccepted = cache[id].lastAccepted /\ new.claimed = n
            /\ new.open = cache[id].open /\ new.deposit = cache[id].deposit
        BY <1>0, <2>2 DEF Row
      <3>3. n >= cache[id].claimed
        BY <1>0, <1>5, <2>2, InFlightTyped DEF Max2, Typed, ClaimReturns, Idle
      <3> HIDE DEF new, n
      <3> QED BY <1>0, <1>5, <2>2, <3>1, <3>2, <3>3
    <2> HIDE DEF new
    <2> QED BY <1>2, <2>1, <2>2
  <1>6. ASSUME NEW j \in Ids, NEW c \in Cumulatives, NEW s \in signed, NEW p \in Prices,
               Accept(j, c, s, p)
        PROVE  Good
    <2> DEFINE new == [cache[j] EXCEPT !.lastAccepted = c, !.lastSig = s,
                                       !.vouchersSinceClaim = @ + 1]
    <2>1. Writes(j, new)
      BY <1>6, AcceptWrites DEF Typed
    <2>2. CASE j = id
      <3>1. cache'[id] = new /\ id \in DOMAIN cache'
        BY <1>3, <2>1, <2>2
      <3>2. /\ new.lastAccepted = c /\ new.claimed = cache[id].claimed
            /\ new.open = cache[id].open /\ new.deposit = cache[id].deposit
            /\ new.vouchersSinceClaim = cache[id].vouchersSinceClaim + 1
        BY <1>0, <2>2 DEF Row
      <3>3. c > cache[id].lastAccepted /\ c \in Int
        BY <1>6, <2>2, FacilitatorAssumption DEF Accept, Payable
      <3> HIDE DEF new
      <3> QED BY <1>0, <3>1, <3>2, <3>3
    <2> HIDE DEF new
    <2> QED BY <1>2, <2>1, <2>2
  <1>7. CASE PollApplies
    <2> DEFINE e == log[Min(poll.events)]
    <2>1. /\ e \in Chain!Event /\ e.id \in Ids /\ e.id \in DOMAIN cache
          /\ \/ UNCHANGED cache
             \/ /\ e.type \in {"topped_up", "claimed", "closed"}
                /\ Writes(e.id, Applying(cache[e.id], e))
      BY <1>7, PollAppliesWrites DEF Typed
    <2> DEFINE new == Applying(cache[e.id], e)
    <2>2. CASE e.id = id /\ Writes(e.id, new) /\ e.type \in {"topped_up", "claimed", "closed"}
      <3>1. cache'[id] = new /\ id \in DOMAIN cache'
        BY <1>3, <2>2
      <3> HIDE DEF e
      <3>2. /\ new.lastAccepted >= cache[id].lastAccepted /\ new.claimed >= cache[id].claimed
            /\ new.vouchersSinceClaim = cache[id].vouchersSinceClaim
            /\ new.deposit = IF e.type = "topped_up" THEN e.total ELSE cache[id].deposit
            /\ ~cache[id].open => ~new.open
        BY <1>0, <2>1, <2>2, AppliedGrows
      <3> HIDE DEF new
      <3> QED BY <1>0, <1>7, <2>2, <3>1, <3>2 DEF e
    <2> HIDE DEF new
    <2>3. CASE e.id # id /\ Writes(e.id, new)
      BY <1>2, <2>1, <2>3
    <2> QED BY <1>1, <2>1, <2>2, <2>3 DEF new
  <1> QED BY <1>1, <1>4, <1>5, <1>6, <1>7, CacheWriters

(* A claim in flight keeps what it asks for, and gets to no other state of
   its row than one that has as much.                                       *)
LEMMA InitCovered == Init => CoveredByRow
  BY DEF Init, CoveredByRow

LEMMA CoveredStep ==
    ASSUME Typed, Fits, Step, CoveredByRow
    PROVE  CoveredByRow'
  <1>0. /\ claims \in [Ids -> {Idle} \cup InFlight]
        /\ \A id \in Ids : claims[id] # Idle => id \in DOMAIN cache
    BY DEF Typed, ClaimTyped, Cached
  <1>1. CASE Crash \/ Shutdown
    BY <1>1 DEF Crash, Shutdown, MemoryLost, CoveredByRow
  <1>2. CASE Boot
    BY <1>2 DEF Boot, Typed, DownIsEmpty, claimVars, CoveredByRow
  <1>3. ASSUME NEW id \in Ids, ~(Crash \/ Shutdown \/ Boot), claims[id] # Idle,
               claims'[id].cumulative = claims[id].cumulative, claims'[id].covered = claims[id].covered,
               ~ClaimReturns(id)
        PROVE  /\ claims'[id].cumulative <= cache'[id].lastAccepted
               /\ claims'[id].covered <= cache'[id].vouchersSinceClaim
    <2>1. /\ id \in DOMAIN cache /\ cache[id] \in Row
          /\ claims[id].cumulative \in Int /\ claims[id].covered \in Nat
      BY <1>3, InFlightTyped DEF Typed
    <2>2. /\ id \in DOMAIN cache'
          /\ cache'[id].lastAccepted >= cache[id].lastAccepted
          /\ cache'[id].vouchersSinceClaim >= cache[id].vouchersSinceClaim
      BY <1>3, <2>1, RowMovesOn
    <2>3. cache' \in Table /\ Row' = Row
      BY CacheTyped, TypedStep, TypesStay DEF Grew
    <2>4. /\ cache[id].lastAccepted \in Int /\ cache[id].vouchersSinceClaim \in Nat
          /\ cache'[id].lastAccepted \in Int /\ cache'[id].vouchersSinceClaim \in Nat
      <3>1. cache'[id] \in Row
        BY <2>2, <2>3, RowTyped
      <3> QED BY <2>1, <3>1 DEF Row
    <2> QED BY <1>3, <2>1, <2>2, <2>4 DEF CoveredByRow
  <1>4. ASSUME NEW id \in Ids, claims'[id] # Idle, ~(Crash \/ Shutdown \/ Boot)
        PROVE  /\ claims'[id].cumulative <= cache'[id].lastAccepted
               /\ claims'[id].covered <= cache'[id].vouchersSinceClaim
    <2>1. CASE UNCHANGED <<claims, mempool>>
      <3>1. ~ClaimReturns(id)
        BY <1>0, <1>4, <2>1 DEF ClaimReturns, Settled
      <3> QED BY <1>3, <1>4, <2>1, <3>1
    <2>2. ASSUME NEW j \in Ids, TickClaims(j) \/ ManualClaim(j)
          PROVE  /\ claims'[id].cumulative <= cache'[id].lastAccepted
                 /\ claims'[id].covered <= cache'[id].vouchersSinceClaim
      <3>1. cache' = cache /\ Claimable(j) /\ (claim(j, TRUE) \/ claim(j, FALSE))
        BY <2>2 DEF TickClaims, ManualClaim, storeVars
      <3>2. Cached(j)
        <4>1. CASE TickClaims(j)
          BY <4>1 DEF TickClaims, Typed, ClaimTyped, Idle, Look, Cached
        <4> QED BY <2>2, <4>1 DEF ManualClaim
      <3>3. /\ claims'[j].cumulative = cache[j].lastAccepted
            /\ claims'[j].covered = cache[j].vouchersSinceClaim
            /\ \A i \in Ids \ {j} : claims'[i] = claims[i]
        <4>1. PICK b \in BOOLEAN : claim(j, b)
          BY <3>1
        <4>2. claims'[j] = [at |-> "queued", cumulative |-> cache[j].lastAccepted,
                            sig |-> cache[j].lastSig, covered |-> cache[j].vouchersSinceClaim,
                            tx |-> 0, byTick |-> b]
          BY <3>1, <3>2, <4>1, ClaimStarts
        <4>3. \A i \in Ids \ {j} : claims'[i] = claims[i]
          BY <3>1, <3>2, <4>1, ClaimStarts
        <4> QED BY <4>2, <4>3
      <3>4. cache[j].lastAccepted \in Int /\ cache[j].vouchersSinceClaim \in Nat
        BY <3>2, RowTyped DEF Typed, StoreTyped, Cached
      <3> QED BY <1>4, <3>1, <3>3, <3>4 DEF CoveredByRow
    <2>3. ASSUME NEW j \in Ids, Simulates(j)
          PROVE  /\ claims'[id].cumulative <= cache'[id].lastAccepted
                 /\ claims'[id].covered <= cache'[id].vouchersSinceClaim
      <3>1. ~ClaimReturns(id)
        <4> SUFFICES ASSUME ClaimReturns(id) PROVE FALSE
          OBVIOUS
        <4>1. claims'[id] = Idle
          BY <1>0 DEF ClaimReturns, Settled
        <4> QED BY <1>4, <4>1
      <3>2. /\ claims[id] # Idle /\ claims'[id].cumulative = claims[id].cumulative
            /\ claims'[id].covered = claims[id].covered
        <4>1. CASE id = j
          <5>1. claims[id] \in InFlight /\ claims'[id] = [claims[id] EXCEPT !.at = "sent"]
            BY <1>4, <2>3, <4>1, SimulatesTyped
          <5> QED BY <5>1 DEF Idle, InFlight
        <4>2. CASE id # j
          BY <1>4, <2>3, <4>2, SimulatesTyped
        <4> QED BY <4>1, <4>2
      <3> QED BY <1>3, <1>4, <3>1, <3>2
    <2>4. ASSUME NEW j \in Ids, ClaimReturns(j) \/ ClaimThrows(j)
          PROVE  /\ claims'[id].cumulative <= cache'[id].lastAccepted
                 /\ claims'[id].covered <= cache'[id].vouchersSinceClaim
      <3>1. claims' = [claims EXCEPT ![j] = Idle]
        BY <2>4 DEF ClaimReturns, ClaimThrows, Settled
      <3>2. j # id /\ claims'[id] = claims[id]
        BY <1>0, <1>4, <3>1
      <3>3. ~ClaimReturns(id)
        <4> SUFFICES ASSUME ClaimReturns(id) PROVE FALSE
          OBVIOUS
        <4>1. claims'[id] = Idle
          BY <1>0 DEF ClaimReturns, Settled
        <4> QED BY <1>4, <4>1
      <3> QED BY <1>3, <1>4, <3>2, <3>3
    <2>5. ASSUME NEW tx \in mempool, ClaimApplied(tx)
          PROVE  /\ claims'[id].cumulative <= cache'[id].lastAccepted
                 /\ claims'[id].covered <= cache'[id].vouchersSinceClaim
      <3>1. /\ claims[id] # Idle /\ claims'[id].cumulative = claims[id].cumulative
            /\ claims'[id].covered = claims[id].covered
        BY <1>4, <2>5, ClaimAppliedTyped DEF Idle
      <3>2. cache' = cache
        BY <2>5 DEF ClaimApplied, storeVars
      <3> QED BY <3>1, <3>2 DEF CoveredByRow
    <2>6. ASSUME NEW tx \in mempool, ClaimDropped(tx)
          PROVE  /\ claims'[id].cumulative <= cache'[id].lastAccepted
                 /\ claims'[id].covered <= cache'[id].vouchersSinceClaim
      BY <1>4, <2>6 DEF ClaimDropped, claimVars, storeVars, CoveredByRow
    <2> QED BY <1>4, <2>1, <2>2, <2>3, <2>4, <2>5, <2>6, ClaimWriters
  <1> QED BY <1>1, <1>2, <1>4 DEF CoveredByRow

LEMMA CoveredIsMeant == Typed /\ Fits /\ CoveredByRow => ClaimsCoverAccepted
  <1> SUFFICES ASSUME Typed, Fits, CoveredByRow, NEW id \in Ids, claims[id] # Idle
               PROVE  claims[id].sig.meant = <<Here, id, claims[id].cumulative>>
    BY DEF ClaimsCoverAccepted, CoveredByRow
  <1>1. claims[id].sig \in signed /\ claims[id].sig.hash = <<Here, id, claims[id].cumulative>>
    BY DEF Fits, ClaimFits, Backs, Chain!voucher_hash
  <1> QED BY <1>1 DEF Typed, ChainTyped, Chain!TypeOK, Chain!Vouchers, Chain!Signature,
                      Chain!voucher_hash

(* A claim in flight asks for a total its row has accepted, under a signature for
   that total, whatever else writes the row meanwhile: also with flushes that
   overlap.                                                                 *)
THEOREM ClaimsAreCovered == Spec => []ClaimsCoverAccepted
  <1> DEFINE Inv == Typed /\ Fits /\ CoveredByRow
  <1>1. Init => Inv
    BY InitFits, InitCovered
  <1>2. Inv /\ [Next]_vars => Inv'
    BY TypedStep, FitsStep, CoveredStep DEF Step
  <1>3. Inv => ClaimsCoverAccepted
    BY CoveredIsMeant
  <1> QED
    <2> HIDE DEF Inv
    <2> QED BY <1>1, <1>2, <1>3, PTL DEF Spec


-----------------------------------------------------------------------------
(* How the watcher gets on.                                                 *)
LEMMA Passes ==
    ASSUME Typed, Fits, Step
    PROVE  \/ Crash \/ Shutdown
           \/ Passed' = Passed
           \/ /\ poll.at = "awaiting" /\ Min(poll.events) \notin Passed
              /\ Passed' = Passed \cup {Min(poll.events)}
              /\ \/ PollApplies
                 \/ LET id == log[Min(poll.events)].id IN
                    /\ loading[id] # Idle /\ ~Cached(id)
                    /\ UNCHANGED <<cache, log>> /\ loading' = [loading EXCEPT ![id] = Idle]
  <1>0. ChainTyped /\ WatchTyped /\ (poll.at = "awaiting" => Min(poll.events) \in seen)
    BY DEF Typed, WatchTyped
  <1>1. CASE UNCHANGED watchVars
    BY <1>1 DEF watchVars, Passed
  <1>2. CASE PollFetches
    BY <1>2 DEF PollFetches, Passed, Idle
  <1>3. CASE PollTakes
    <2>1. poll.at = "applying"
      BY <1>3 DEF PollTakes
    <2> QED BY <1>0, <1>3, <2>1, TakesTyped DEF Passed
  <1>4. CASE PollEnds
    BY <1>4 DEF PollEnds, Passed, Idle
  <1>5. CASE PollApplies
    <2>1. poll.at = "awaiting" /\ seen' = seen /\ PollGoesOn
      BY <1>5 DEF PollApplies
    <2>2. poll'.at = "applying"
      BY <1>0, <2>1, GoesOn
    <2> QED BY <1>0, <1>5, <2>1, <2>2 DEF Passed
  <1>6. ASSUME NEW id \in Ids, LoadMisses(id) \/ LoadFails(id)
        PROVE  \/ Passed' = Passed
               \/ /\ poll.at = "awaiting" /\ Min(poll.events) \notin Passed
                  /\ Passed' = Passed \cup {Min(poll.events)}
                  /\ LET j == log[Min(poll.events)].id IN
                     /\ loading[j] # Idle /\ ~Cached(j)
                     /\ UNCHANGED <<cache, log>> /\ loading' = [loading EXCEPT ![j] = Idle]
    <2>1. seen' = seen /\ UNCHANGED <<cache, log>> /\ loading' = [loading EXCEPT ![id] = Idle]
      BY <1>6 DEF LoadMisses, LoadFails, chainVars
    <2>2. loading[id] # Idle /\ ~Cached(id)
      BY <1>6 DEF LoadMisses, LoadFails, Idle, Typed, StoreTyped
    <2>3. CASE PollAwaits(id)
      <3>1. poll.at = "awaiting" /\ log[Min(poll.events)].id = id
        BY <2>3 DEF PollAwaits
      <3>2. poll'.at # "awaiting"
        <4>1. CASE LoadMisses(id)
          <5>1. PollGoesOn
            BY <2>3, <4>1 DEF LoadMisses
          <5> QED BY <1>0, <3>1, <5>1, GoesOn
        <4>2. CASE LoadFails(id)
          BY <2>3, <4>2 DEF LoadFails, Idle
        <4> QED BY <1>6, <4>1, <4>2
      <3>3. Passed' = Passed \cup {Min(poll.events)} /\ Min(poll.events) \notin Passed
        BY <1>0, <2>1, <3>1, <3>2 DEF Passed
      <3> QED BY <2>1, <2>2, <3>1, <3>3
    <2>4. CASE ~PollAwaits(id)
      BY <1>6, <2>1, <2>4 DEF LoadMisses, LoadFails, Passed
    <2> QED BY <2>3, <2>4
  <1>7. CASE Boot
    BY <1>7 DEF Boot, Passed
  <1> QED BY <1>1, <1>2, <1>3, <1>4, <1>5, <1>6, <1>7, WatchWriters

(* A claim lands in a transaction of its own.                               *)
LEMMA LandsAnew ==
    ASSUME Typed, Fits, Step, NEW id \in Ids, claims'[id].at = "landed"
    PROVE  \/ claims[id].at = "landed" /\ claims'[id] = claims[id]
           \/ claims'[id].tx = Len(log) + 1
  <1>0. claims \in [Ids -> {Idle} \cup InFlight] /\ Idle.at # "landed"
    BY DEF Typed, ClaimTyped, Idle
  <1>1. CASE UNCHANGED <<claims, mempool>>
    BY <1>1
  <1>2. ASSUME NEW j \in Ids, TickClaims(j) \/ ManualClaim(j)
        PROVE  claims'[id] = claims[id]
    <2>1. PICK b \in BOOLEAN : claim(j, b)
      BY <1>2 DEF TickClaims, ManualClaim
    <2> DEFINE c == [at |-> "queued", cumulative |-> cache[j].lastAccepted,
                     sig |-> cache[j].lastSig, covered |-> cache[j].vouchersSinceClaim,
                     tx |-> 0, byTick |-> b]
    <2>2. claims' = [claims EXCEPT ![j] = c] /\ c.at = "queued"
      BY <2>1 DEF claim
    <2> HIDE DEF c
    <2> QED BY <1>0, <2>2
  <1>3. ASSUME NEW j \in Ids, Simulates(j)
        PROVE  claims'[id] = claims[id]
    <2>1. claims[j] \in InFlight
      BY <1>3, SimulatesTyped
    <2>2. claims'[j] = [claims[j] EXCEPT !.at = "sent"] => claims'[j].at = "sent"
      BY <2>1 DEF InFlight
    <2> QED BY <1>0, <1>3, <2>2, SimulatesTyped
  <1>4. ASSUME NEW j \in Ids, ClaimReturns(j) \/ ClaimThrows(j)
        PROVE  claims'[id] = claims[id]
    BY <1>0, <1>4 DEF ClaimReturns, ClaimThrows, Settled
  <1>5. ASSUME NEW tx \in mempool, ClaimApplied(tx)
        PROVE  claims'[id] = claims[id] \/ claims'[id].tx = Len(log) + 1
    BY <1>5, ClaimAppliedTyped
  <1>6. ASSUME NEW tx \in mempool, ClaimDropped(tx)
        PROVE  claims'[id] = claims[id]
    BY <1>6 DEF ClaimDropped, claimVars
  <1>7. CASE Crash \/ Shutdown
    BY <1>0, <1>7 DEF Crash, Shutdown, MemoryLost
  <1> QED BY <1>1, <1>2, <1>3, <1>4, <1>5, <1>6, <1>7, ClaimWriters

LEMMA Senders ==
    /\ \A i, j : ByClaim(i) # ByWatcher(j)
    /\ \A i, j : ByClaim(i) = ByClaim(j) => i = j
    /\ \A i, j : ByWatcher(i) = ByWatcher(j) => i = j
  BY DEF ByClaim, ByWatcher

LEMMA InitOnce == Init => PublishTyped /\ OncePerTx
  BY DEF Init, PublishTyped, OncePerTx, Idle

LEMMA OnceStep ==
    ASSUME Typed, Fits, Step, PublishTyped, OncePerTx
    PROVE  PublishTyped' /\ OncePerTx'
  <1> DEFINE Sent1(D) == {ByClaim(i) : i \in D} \cup {ByWatcher(i) : i \in D}
  <1>0. /\ Typed' /\ Grew /\ Logged /\ ChainTyped /\ Passed \subseteq seen /\ seen \subseteq DOMAIN log
        /\ DOMAIN log = 1..Len(log) /\ Len(log) \in Nat
    BY TypedStep DEF Typed, ChainTyped, WatchTyped, Passed
  <1>1. /\ DOMAIN log \subseteq DOMAIN log'
        /\ \A i \in DOMAIN log' \ DOMAIN log : i = Len(log) + 1
        /\ Len(log) + 1 \notin DOMAIN log
    BY <1>0, LogGrows
  <1>2. /\ published \subseteq Sent1(DOMAIN log) /\ own \subseteq DOMAIN log
        /\ suppressed \subseteq Passed
    BY DEF PublishTyped
  <1>3. \A i : i \notin DOMAIN log => ByClaim(i) \notin published /\ ByWatcher(i) \notin published
                                      /\ i \notin own /\ i \notin Passed /\ i \notin suppressed
    BY <1>0, <1>2, Senders
  <1>4. ASSUME NEW id \in Ids, claims[id].at = "landed"
        PROVE  /\ claims[id].tx \in DOMAIN log /\ log[claims[id].tx].id = id
               /\ log[claims[id].tx].type = "claimed" /\ Cached(id) /\ claims[id] # Idle
    <2>1. claims[id] # Idle
      BY <1>4 DEF Idle
    <2> QED BY <1>4, <2>1 DEF Fits, ClaimFits, Typed, ClaimTyped
  <1>5. CASE Crash \/ Shutdown
    <2>1. /\ own' = {} /\ suppressed' = {} /\ published' = {}
          /\ \A id \in Ids : claims'[id] = Idle
      BY <1>5 DEF Crash, Shutdown, MemoryLost
    <2> QED BY <2>1 DEF PublishTyped, OncePerTx, Idle
  <1>6. CASE UNCHANGED publishVars /\ Passed' = Passed
    <2>1. PublishTyped'
      BY <1>1, <1>2, <1>6 DEF PublishTyped, publishVars
    <2>2. OncePerTx'
      BY <1>1, <1>3, <1>6, LandsAnew DEF OncePerTx, publishVars
    <2> QED BY <2>1, <2>2
  <1>7. ASSUME NEW m, m = Min(poll.events), poll.at = "awaiting",
               UNCHANGED publishVars, Passed' = Passed \cup {m},
               \A id \in Ids : claims[id].at = "landed" => claims[id].tx # m
        PROVE  PublishTyped' /\ OncePerTx'
    <2>0. m \in DOMAIN log
      BY <1>0, <1>7, Awaiting DEF Typed
    <2>1. PublishTyped'
      BY <1>1, <1>2, <1>7 DEF PublishTyped, publishVars
    <2>2. (\A i \in DOMAIN log :
              /\ ByWatcher(i) \in published => i \in Passed /\ ByClaim(i) \notin published
              /\ ByClaim(i) \in published => i \in own \/ i \in Passed
              /\ i \in suppressed => ByWatcher(i) \notin published)'
      BY <1>1, <1>3, <1>7 DEF OncePerTx, publishVars
    <2>3. ASSUME NEW id \in Ids, claims'[id].at = "landed"
          PROVE  claims'[id].tx = Len(log) + 1 \/ (claims[id].at = "landed" /\ claims'[id] = claims[id])
      BY <2>3, LandsAnew
    <2>4. (\A id \in Ids : claims[id].at = "landed" =>
              /\ ByWatcher(claims[id].tx) \notin published
              /\ ByClaim(claims[id].tx) \notin published
              /\ claims[id].tx \notin own
              /\ claims[id].tx \in Passed => claims[id].tx \in suppressed)'
      BY <1>1, <1>3, <1>7, <2>0, <2>3 DEF OncePerTx, publishVars
    <2> QED BY <2>1, <2>2, <2>4 DEF OncePerTx
  <1>8. CASE PollApplies
    <2> DEFINE id == log[Min(poll.events)].id
    <2>0. /\ poll.at = "awaiting" /\ UNCHANGED <<claims, log>> /\ Cached(id)
      BY <1>8 DEF PollApplies, claimVars, chainVars
    <2>1. PICK m \in DOMAIN log : m = Min(poll.events)
      BY <1>0, <2>0, Awaiting DEF Typed
    <2>2. Passed' = Passed \cup {m} /\ m \notin Passed
      <3>1. seen' = seen /\ m \in seen /\ PollGoesOn
        BY <1>8, <2>0, <2>1 DEF PollApplies, Typed, WatchTyped
      <3>2. poll'.at = "applying"
        BY <1>0, <2>0, <3>1, GoesOn DEF Typed
      <3> QED BY <2>0, <2>1, <3>1, <3>2 DEF Passed
    <2>3. CASE log[m].type # "claimed"
      <3>1. UNCHANGED publishVars
        BY <1>8, <2>1, <2>3 DEF PollApplies
      <3> QED BY <1>4, <1>7, <2>0, <2>1, <2>2, <2>3, <3>1
    <2>4. CASE log[m].type = "claimed"
      <3>1. WatcherPublishes(m)
        BY <1>8, <2>1, <2>4 DEF PollApplies
      <3>2. /\ own' = own \ {m}
            /\ \/ m \in own /\ UNCHANGED <<suppressed, published>>
               \/ m \notin own /\ IsOurs(log[m].id) /\ published' = published
                  /\ suppressed' = suppressed \cup {m}
               \/ m \notin own /\ ~IsOurs(log[m].id) /\ suppressed' = suppressed
                  /\ published' = published \cup {ByWatcher(m)}
        BY <3>1 DEF WatcherPublishes, ByWatcher
      <3>3. PublishTyped'
        BY <1>2, <2>0, <2>2, <3>2 DEF PublishTyped
      <3>4. (\A i \in DOMAIN log :
              /\ ByWatcher(i) \in published => i \in Passed /\ ByClaim(i) \notin published
              /\ ByClaim(i) \in published => i \in own \/ i \in Passed
              /\ i \in suppressed => ByWatcher(i) \notin published)'
        BY <1>2, <2>0, <2>2, <3>2, Senders DEF OncePerTx
      <3>5. \A j \in Ids : claims[j].at = "landed" /\ claims[j].tx = m => IsOurs(log[m].id) /\ m \notin own
        BY <1>4 DEF IsOurs, OncePerTx
      <3>6. (\A j \in Ids : claims[j].at = "landed" =>
              /\ ByWatcher(claims[j].tx) \notin published
              /\ ByClaim(claims[j].tx) \notin published
              /\ claims[j].tx \notin own
              /\ claims[j].tx \in Passed => claims[j].tx \in suppressed)'
        BY <2>0, <2>2, <3>2, <3>5, Senders DEF OncePerTx
      <3> QED BY <3>3, <3>4, <3>6 DEF OncePerTx
    <2> QED BY <2>3, <2>4
  <1>9. ASSUME NEW id \in Ids, ClaimReturns(id)
        PROVE  PublishTyped' /\ OncePerTx'
    <2>0. /\ Passed' = Passed /\ log' = log
          /\ claims'[id] = Idle /\ \A j \in Ids \ {id} : claims'[j] = claims[j]
      BY <1>9, TypesStay DEF ClaimReturns, Settled, watchVars, chainVars, Passed, Typed, ClaimTyped
    <2>1. PICK t : t = claims[id].tx
      OBVIOUS
    <2>2. /\ suppressed' = suppressed \ {t}
          /\ own' = IF t = 0 \/ t \in suppressed THEN own ELSE own \cup {t}
          /\ published' = IF t = 0 THEN published ELSE published \cup {ByClaim(t)}
      BY <1>9, <2>1 DEF ClaimReturns, ClaimPublishes, ByClaim
    <2>3. CASE claims[id].at = "failed"
      <3>1. t = 0 /\ 0 \notin DOMAIN log
        BY <1>0, <2>1, <2>3 DEF Fits, ClaimFits, Idle
      <3>2. publishVars' = publishVars
        BY <1>3, <2>2, <3>1 DEF publishVars
      <3> QED BY <1>6, <2>0, <3>2
    <2>4. CASE claims[id].at = "landed"
      <3>1. /\ t \in DOMAIN log /\ log[t].id = id /\ t # 0
            /\ ByWatcher(t) \notin published /\ ByClaim(t) \notin published
            /\ t \notin own /\ (t \in Passed => t \in suppressed)
        BY <1>0, <1>4, <2>1, <2>4 DEF OncePerTx
      <3>2. PublishTyped'
        BY <1>2, <2>0, <2>2, <3>1 DEF PublishTyped
      <3>3. (\A i \in DOMAIN log :
              /\ ByWatcher(i) \in published => i \in Passed /\ ByClaim(i) \notin published
              /\ ByClaim(i) \in published => i \in own \/ i \in Passed
              /\ i \in suppressed => ByWatcher(i) \notin published)'
        BY <1>2, <2>0, <2>2, <3>1, Senders DEF OncePerTx
      <3>4. \A j \in Ids \ {id} : claims[j].at = "landed" => claims[j].tx # t
        BY <1>4, <3>1
      <3>5. (\A j \in Ids : claims[j].at = "landed" =>
              /\ ByWatcher(claims[j].tx) \notin published
              /\ ByClaim(claims[j].tx) \notin published
              /\ claims[j].tx \notin own
              /\ claims[j].tx \in Passed => claims[j].tx \in suppressed)'
        BY <2>0, <2>2, <3>1, <3>4, Senders DEF OncePerTx, Idle
      <3> QED BY <3>2, <3>3, <3>5 DEF OncePerTx
    <2> QED BY <1>9, <2>3, <2>4 DEF ClaimReturns
  <1>10. CASE UNCHANGED publishVars
    <2>1. ASSUME poll.at = "awaiting", Passed' = Passed \cup {Min(poll.events)},
                 ~Cached(log[Min(poll.events)].id)
          PROVE  PublishTyped' /\ OncePerTx'
      <3>1. \A j \in Ids : claims[j].at = "landed" => claims[j].tx # Min(poll.events)
        BY <1>4, <2>1
      <3> QED BY <1>7, <1>10, <2>1, <3>1
    <2> QED BY <1>5, <1>6, <1>8, <1>10, <2>1, Passes
  <1> QED BY <1>5, <1>8, <1>9, <1>10, PublishWriters

(* Each process publishes a claim once, whoever comes first: the claim() that
   sent it or the watcher that sees it (channel.cache.ts:136-152).          *)
THEOREM AlwaysPublishedOnce == Spec => []PublishedOnce
  <1> DEFINE Inv == Typed /\ Fits /\ PublishTyped /\ OncePerTx
  <1>1. Init => Inv
    BY InitFits, InitOnce
  <1>2. Inv /\ [Next]_vars => Inv'
    BY TypedStep, FitsStep, OnceStep DEF Step
  <1>3. Inv => PublishedOnce
    <2> SUFFICES ASSUME Inv, NEW p \in published, NEW q \in published, p.tx = q.tx
                 PROVE  p = q
      BY DEF PublishedOnce
    <2>1. PICK i \in DOMAIN log : p = ByClaim(i) \/ p = ByWatcher(i)
      BY DEF PublishTyped
    <2>2. PICK j \in DOMAIN log : q = ByClaim(j) \/ q = ByWatcher(j)
      BY DEF PublishTyped
    <2>3. i = j
      BY <2>1, <2>2 DEF ByClaim, ByWatcher
    <2> QED BY <2>1, <2>2, <2>3 DEF OncePerTx
  <1> QED
    <2> HIDE DEF Inv
    <2> QED BY <1>1, <1>2, <1>3, PTL DEF Spec

-----------------------------------------------------------------------------
(* One transaction with Postgres at a time.                                 *)
LEMMA KeepCases ==
    ASSUME Typed, Step
    PROVE  \/ UNCHANGED <<up, cache, dirty, flushes, db>>
           \/ UNCHANGED <<up, flushes, db>> /\ \E id \in Ids, ch \in Row : Writes(id, ch)
           \/ UNCHANGED up /\ FlushStarts
           \/ UNCHANGED up /\ \E i \in DOMAIN flushes : FlushCommits(i) \/ FlushFails(i)
           \/ Boot \/ Crash \/ Shutdown
  <1> USE DEF Typed, dbVars
  <1>1. ASSUME NEW id \in Ids, LoadInserts(id)
        PROVE  UNCHANGED <<up, flushes, db>> /\ \E i \in Ids, ch \in Row : Writes(i, ch)
    <2>1. Writes(id, insert(loading[id].state))
      BY <1>1, LoadInsertsWrites
    <2> QED BY <1>1, <2>1 DEF Writes, LoadInserts
  <1>2. ASSUME NEW id \in Ids, ClaimReturns(id)
        PROVE  UNCHANGED <<up, flushes, db>> /\ \E i \in Ids, ch \in Row : Writes(i, ch)
    <2>1. \E ch : Writes(id, ch)
      BY <1>2, ClaimReturnsWrites
    <2> QED BY <1>2, <2>1 DEF Writes, ClaimReturns
  <1>3. ASSUME NEW id \in Ids, NEW c \in Cumulatives, NEW s \in signed, NEW p \in Prices,
               Accept(id, c, s, p)
        PROVE  UNCHANGED <<up, flushes, db>> /\ \E i \in Ids, ch \in Row : Writes(i, ch)
    <2>1. \E ch : Writes(id, ch)
      BY <1>3, AcceptWrites
    <2> QED BY <1>3, <2>1 DEF Writes, Accept
  <1>4. ASSUME PollApplies
        PROVE  /\ UNCHANGED <<up, flushes, db>>
               /\ UNCHANGED <<cache, dirty>> \/ \E i \in Ids, ch \in Row : Writes(i, ch)
    <2>1. UNCHANGED <<cache, dirty>> \/ \E i \in Ids : \E ch : Writes(i, ch)
      BY <1>4, PollAppliesWrites
    <2> QED BY <1>4, <2>1 DEF Writes, PollApplies
  <1>5. CASE UNCHANGED <<cache, dirty>>
    <2>1. ASSUME NEW i \in DOMAIN flushes, FlushCommits(i) \/ FlushFails(i) PROVE UNCHANGED up
      BY <2>1 DEF FlushCommits, FlushFails
    <2>2. FlushStarts => UNCHANGED up
      BY DEF FlushStarts
    <2> QED BY <1>5, <2>1, <2>2, DbWriters, UpWriters
  <1>6. FlushStarts => UNCHANGED up
    BY DEF FlushStarts
  <1>7. ASSUME NEW i \in DOMAIN flushes, FlushFails(i) PROVE UNCHANGED up
    BY <1>7 DEF FlushFails
  <1> QED BY <1>1, <1>2, <1>3, <1>4, <1>5, <1>6, <1>7, CacheWriters

LEMMA InitKept == Init => Kept /\ Forward
  BY EmptyTyped DEF Init, Kept, OneFlush, Forward, Flushing

(* The only transaction ends.                                               *)
LEMMA LastFlush ==
    ASSUME flushes \in Seq(Table), OneFlush, NEW i \in DOMAIN flushes, flushes' = RemoveAt(flushes, i)
    PROVE  i = 1 /\ flushes # <<>> /\ flushes[1] \in Table /\ flushes' = <<>>
  <1>1. DOMAIN flushes = 1..Len(flushes) /\ Len(flushes) \in Nat
    OBVIOUS
  <1>2. i = 1 /\ Len(flushes) = 1
    BY <1>1 DEF OneFlush
  <1>3. flushes' \in Seq(Table) /\ Len(flushes') = 0
    BY <1>2, RemoveAtLeaves
  <1> QED BY <1>1, <1>2, <1>3, EmptySeq

LEMMA KeptStep ==
    ASSUME MaxFlushes <= 1, Typed, Step, Kept
    PROVE  Kept'
  <1>0. /\ flushes \in Seq(Table) /\ cache \in Table /\ db \in Table /\ OneFlush
        /\ dirty \subseteq DOMAIN cache /\ MaxFlushes \in Nat
    BY FacilitatorAssumption DEF Typed, StoreTyped, Kept
  <1>1. CASE UNCHANGED <<up, cache, dirty, flushes, db>>
    BY <1>1 DEF Kept, OneFlush, Flushing
  <1>2. ASSUME UNCHANGED <<up, flushes, db>>, NEW id \in Ids, NEW ch \in Row, Writes(id, ch)
        PROVE  Kept'
    <2>1. /\ DOMAIN cache' = DOMAIN cache \cup {id}
          /\ \A i \in DOMAIN cache : i # id => cache'[i] = cache[i]
          /\ dirty' = dirty \cup {id}
      BY <1>2, WritesEffect DEF Typed
    <2>2. \A i : Flushing(i)' <=> Flushing(i)
      BY <1>2 DEF Flushing
    <2> QED BY <1>2, <2>1, <2>2 DEF Kept, OneFlush
  <1>3. CASE UNCHANGED up /\ FlushStarts
    <2>1. Len(flushes) = 0 /\ dirty' = {} /\ cache' = cache /\ db' = db
      BY <1>0, <1>3 DEF FlushStarts
    <2>2. flushes = <<>>
      BY <1>0, <2>1, EmptySeq
    <2>3. flushes' = <<Rows(dirty)>>
      BY <1>3, <2>2 DEF FlushStarts
    <2>4. DOMAIN Rows(dirty) = dirty /\ \A i \in dirty : Rows(dirty)[i] = cache[i]
      BY DEF Rows
    <2> HIDE DEF Rows
    <2>5. flushes' # <<>> /\ flushes'[1] = Rows(dirty) /\ Len(flushes') <= 1
      BY <2>3
    <2>6. \A i : Flushing(i)' <=> i \in dirty
      BY <2>4, <2>5 DEF Flushing
    <2>7. \A i \in DOMAIN cache \ dirty : up => i \in DOMAIN db /\ db[i] = cache[i]
      BY <2>2 DEF Kept, Flushing
    <2> QED BY <1>3, <2>1, <2>4, <2>5, <2>6, <2>7 DEF Kept, OneFlush
  <1>4. ASSUME UNCHANGED up, NEW i \in DOMAIN flushes, FlushCommits(i) \/ FlushFails(i)
        PROVE  Kept'
    <2>1. flushes' = RemoveAt(flushes, i) /\ cache' = cache
      BY <1>4 DEF FlushCommits, FlushFails, storeVars
    <2>2. i = 1 /\ flushes # <<>> /\ flushes[1] \in Table /\ flushes' = <<>>
      BY <1>0, <2>1, LastFlush
    <2>3. \A j : ~Flushing(j)' /\ (Flushing(j) <=> j \in DOMAIN flushes[1])
      BY <2>2 DEF Flushing
    <2>4. Len(flushes') <= 1
      BY <2>2
    <2>5. /\ DOMAIN Written(flushes[1]) = DOMAIN db \cup DOMAIN flushes[1]
          /\ \A id \in DOMAIN flushes[1] : Written(flushes[1])[id] = flushes[1][id]
          /\ \A id \in DOMAIN db \ DOMAIN flushes[1] : Written(flushes[1])[id] = db[id]
      BY <1>0, <2>2, WrittenTyped
    <2>6. CASE FlushCommits(i)
      <3>1. dirty' = dirty /\ db' = Written(flushes[1])
        BY <2>2, <2>6 DEF FlushCommits, storeVars
      <3> QED BY <1>4, <2>1, <2>3, <2>4, <2>5, <3>1 DEF Kept, OneFlush
    <2>7. CASE FlushFails(i)
      <3>1. dirty' = dirty \cup DOMAIN flushes[1] /\ db' \in {db, Written(flushes[1])}
        BY <2>2, <2>7 DEF FlushFails, PutBack
      <3> QED BY <1>4, <2>1, <2>3, <2>4, <2>5, <3>1 DEF Kept, OneFlush
    <2> QED BY <1>4, <2>6, <2>7
  <1>5. CASE Boot
    <2>1. flushes = <<>> /\ flushes' = flushes /\ cache' = db /\ db' = db
      BY <1>5 DEF Boot, dbVars, Typed, DownIsEmpty
    <2> QED BY <1>0, <2>1 DEF Kept, OneFlush, Flushing
  <1>6. CASE Crash \/ Shutdown
    BY <1>6 DEF Crash, Shutdown, MemoryLost, Kept, OneFlush
  <1> QED BY <1>1, <1>2, <1>3, <1>4, <1>5, <1>6, KeepCases

(* While no two transactions with Postgres overlap, a quiet store is a saved
   one, and each claim in flight is for what its row has.                   *)
THEOREM KeptWithoutOverlap ==
    ASSUME MaxFlushes <= 1
    PROVE  Spec => []AcceptedIsKept
  <1> DEFINE Inv == Typed /\ Fits /\ CoveredByRow /\ Kept
  <1>1. Init => Inv
    BY InitFits, InitCovered, InitKept
  <1>2. Inv /\ [Next]_vars => Inv'
    BY TypedStep, FitsStep, CoveredStep, KeptStep DEF Step
  <1>3. Inv => AcceptedIsKept
    BY CoveredIsMeant DEF AcceptedIsKept, QuietMeansSaved, Kept, Flushing
  <1> QED
    <2> HIDE DEF Inv
    <2> QED BY <1>1, <1>2, <1>3, PTL DEF Spec

LEMMA Accepted ==
    ASSUME NEW rows \in Table, NEW id \in DOMAIN rows
    PROVE  rows[id].lastAccepted \in Int
  BY DEF Table, Row

LEMMA ForwardStep ==
    ASSUME MaxFlushes <= 1, Typed, Typed', Grew, Step, OneFlush, Forward
    PROVE  Forward' /\ \A id \in DOMAIN db : db'[id].lastAccepted >= db[id].lastAccepted
  <1>0. /\ flushes \in Seq(Table) /\ cache \in Table /\ db \in Table
        /\ dirty \subseteq DOMAIN cache /\ MaxFlushes \in Nat
        /\ cache' \in Table /\ (flushes # <<>> => up)
    BY FacilitatorAssumption, CacheTyped DEF Typed, StoreTyped, DownIsEmpty
  <1>1. \A id \in DOMAIN db : db[id].lastAccepted \in Int
    BY <1>0, Accepted
  <1>2. \A id \in DOMAIN cache : cache[id].lastAccepted \in Int
    BY <1>0, Accepted
  <1>3. \A i \in DOMAIN flushes, id \in Ids : id \in DOMAIN flushes[i] => flushes[i][id].lastAccepted \in Int
    <2> SUFFICES ASSUME NEW i \in DOMAIN flushes, NEW id \in DOMAIN flushes[i]
                 PROVE  flushes[i][id].lastAccepted \in Int
      OBVIOUS
    <2>1. flushes[i] \in Table
      BY <1>0
    <2> QED BY <2>1, Accepted
  <1>4. flushes # <<>> => 1 \in DOMAIN flushes /\ flushes[1] \in Table
    BY <1>0, EmptySeq
  <1>5. CASE UNCHANGED <<up, cache, dirty, flushes, db>>
    BY <1>1, <1>5 DEF Forward, Flushing, Cached
  <1>6. ASSUME UNCHANGED <<up, flushes, db>>, NEW id \in Ids, NEW ch \in Row, Writes(id, ch)
        PROVE  Forward' /\ \A i \in DOMAIN db : db'[i].lastAccepted >= db[i].lastAccepted
    <2>1. ASSUME NEW i \in DOMAIN cache
          PROVE  /\ i \in DOMAIN cache' /\ cache'[i].lastAccepted \in Int
                 /\ up => cache'[i].lastAccepted >= cache[i].lastAccepted
      <3>1. i \in DOMAIN cache'
        BY <1>6, WritesEffect DEF Typed
      <3>2. cache'[i].lastAccepted \in Int
        <4>1. cache'[i] \in Row
          BY <1>0, <3>1, RowTyped
        <4> QED BY <4>1 DEF Row
      <3>3. up => ~(Crash \/ Shutdown \/ Boot)
        BY <1>6 DEF Crash, Shutdown, MemoryLost, Boot
      <3> QED BY <3>1, <3>2, <3>3, RowMovesOn
    <2>2. \A i : Flushing(i)' <=> Flushing(i)
      BY <1>6 DEF Flushing
    <2>3. ASSUME NEW i \in DOMAIN db, up
          PROVE  Cached(i)' /\ db[i].lastAccepted <= cache'[i].lastAccepted
      <3>1. i \in DOMAIN cache /\ db[i].lastAccepted <= cache[i].lastAccepted
        BY <2>3 DEF Forward, Cached
      <3> QED BY <1>1, <1>2, <2>1, <2>3, <3>1 DEF Cached
    <2>4. ASSUME NEW i \in Ids, Flushing(i)
          PROVE  Cached(i)' /\ flushes[1][i].lastAccepted <= cache'[i].lastAccepted
      <3>1. /\ i \in DOMAIN cache /\ flushes[1][i].lastAccepted <= cache[i].lastAccepted /\ up
            /\ flushes[1][i].lastAccepted \in Int
        BY <1>0, <1>3, <1>4, <2>4 DEF Forward, Cached, Flushing
      <3> QED BY <1>2, <2>1, <3>1 DEF Cached
    <2> QED BY <1>1, <1>6, <2>2, <2>3, <2>4 DEF Forward
  <1>7. CASE UNCHANGED up /\ FlushStarts
    <2>1. Len(flushes) = 0 /\ dirty' = {} /\ cache' = cache /\ db' = db /\ up
      BY <1>0, <1>7 DEF FlushStarts
    <2>2. flushes = <<>>
      BY <1>0, <2>1, EmptySeq
    <2>3. flushes' = <<Rows(dirty)>>
      BY <1>7, <2>2 DEF FlushStarts
    <2>4. DOMAIN Rows(dirty) = dirty /\ \A i \in dirty : Rows(dirty)[i] = cache[i]
      BY DEF Rows
    <2> HIDE DEF Rows
    <2>5. flushes' # <<>> /\ flushes'[1] = Rows(dirty)
      BY <2>3
    <2>6. \A i : Flushing(i)' <=> i \in dirty
      BY <2>4, <2>5 DEF Flushing
    <2> QED BY <1>0, <1>1, <1>2, <1>7, <2>1, <2>4, <2>5, <2>6 DEF Forward, Cached
  <1>8. ASSUME NEW rows \in Table, db' \in {db, Written(rows)},
               \A id \in DOMAIN rows : id \in DOMAIN db => rows[id].lastAccepted >= db[id].lastAccepted
        PROVE  /\ \A id \in DOMAIN db : db'[id].lastAccepted >= db[id].lastAccepted
               /\ \A id \in DOMAIN db' : \/ id \in DOMAIN rows /\ db'[id] = rows[id]
                                         \/ id \in DOMAIN db /\ db'[id] = db[id]
    <2>1. /\ DOMAIN Written(rows) = DOMAIN db \cup DOMAIN rows
          /\ \A id \in DOMAIN rows : Written(rows)[id] = rows[id]
          /\ \A id \in DOMAIN db \ DOMAIN rows : Written(rows)[id] = db[id]
      BY <1>0, <1>8, WrittenTyped
    <2>2. CASE db' = db
      BY <1>1, <2>2
    <2>3. CASE db' = Written(rows)
      BY <1>1, <1>8, <2>1, <2>3
    <2> QED BY <1>8, <2>2, <2>3
  <1>9. ASSUME UNCHANGED up, NEW i \in DOMAIN flushes, FlushCommits(i) \/ FlushFails(i)
        PROVE  Forward' /\ \A id \in DOMAIN db : db'[id].lastAccepted >= db[id].lastAccepted
    <2>1. flushes' = RemoveAt(flushes, i) /\ cache' = cache
      BY <1>9 DEF FlushCommits, FlushFails, storeVars
    <2>2. i = 1 /\ flushes # <<>> /\ flushes[1] \in Table /\ flushes' = <<>>
      BY <1>0, <2>1, LastFlush
    <2>3. db' \in {db, Written(flushes[1])}
      BY <1>9, <2>2 DEF FlushCommits, FlushFails
    <2>4. \A id \in Ids : ~Flushing(id)' /\ (Flushing(id) <=> id \in DOMAIN flushes[1])
      BY <2>2 DEF Flushing
    <2>5. \A id \in DOMAIN flushes[1] : id \in Ids
      BY <2>2, RowTyped
    <2>6. \A id \in DOMAIN flushes[1] :
             /\ Cached(id) /\ flushes[1][id].lastAccepted <= cache[id].lastAccepted
             /\ id \in DOMAIN db => flushes[1][id].lastAccepted >= db[id].lastAccepted
      BY <1>1, <1>3, <2>2, <2>4, <2>5 DEF Forward
    <2>7. /\ \A id \in DOMAIN db : db'[id].lastAccepted >= db[id].lastAccepted
          /\ \A id \in DOMAIN db' : \/ id \in DOMAIN flushes[1] /\ db'[id] = flushes[1][id]
                                    \/ id \in DOMAIN db /\ db'[id] = db[id]
      BY <1>8, <2>2, <2>3, <2>6
    <2> QED BY <1>9, <2>1, <2>4, <2>6, <2>7 DEF Forward, Cached
  <1>10. CASE Boot
    <2>1. flushes = <<>> /\ flushes' = flushes /\ cache' = db /\ db' = db
      BY <1>10 DEF Boot, dbVars, Typed, DownIsEmpty
    <2> QED BY <1>1, <2>1 DEF Forward, Flushing, Cached
  <1>11. CASE Crash \/ Shutdown
    <2>1. up /\ ~up' /\ flushes' = <<>>
      BY <1>11 DEF Crash, Shutdown, MemoryLost
    <2>2. CASE db' = db
      BY <1>1, <2>1, <2>2 DEF Forward, Flushing
    <2>3. ASSUME NEW i \in DOMAIN flushes, db' = Written(flushes[i])
          PROVE  \A id \in DOMAIN db : db'[id].lastAccepted >= db[id].lastAccepted
      <3>1. i = 1 /\ flushes # <<>>
        BY <1>0 DEF OneFlush
      <3>2. flushes[1] \in Table /\ \A id \in DOMAIN flushes[1] : id \in Ids
        BY <1>4, <3>1, RowTyped
      <3>3. \A id \in DOMAIN flushes[1] :
               id \in DOMAIN db => flushes[1][id].lastAccepted >= db[id].lastAccepted
        BY <1>1, <1>3, <3>1, <3>2 DEF Forward, Flushing
      <3> QED BY <1>8, <2>3, <3>1, <3>2, <3>3
    <2>4. ASSUME db' = Written(Rows(dirty))
          PROVE  \A id \in DOMAIN db : db'[id].lastAccepted >= db[id].lastAccepted
      <3>1. Rows(dirty) \in Table /\ DOMAIN Rows(dirty) = dirty
        BY RowsTyped DEF Typed
      <3>2. \A id \in dirty : Rows(dirty)[id] = cache[id]
        BY DEF Rows
      <3> HIDE DEF Rows
      <3>3. \A id \in dirty : id \in DOMAIN db => Rows(dirty)[id].lastAccepted >= db[id].lastAccepted
        BY <1>0, <1>1, <1>2, <2>1, <3>2 DEF Forward
      <3> QED BY <1>8, <2>4, <3>1, <3>3
    <2>5. Forward'
      BY <2>1 DEF Forward, Flushing
    <2> QED BY <1>11, <2>2, <2>3, <2>4, <2>5 DEF Crash, Shutdown
  <1> QED BY <1>5, <1>6, <1>7, <1>9, <1>10, <1>11, KeepCases

(* While no two transactions with Postgres overlap, no row ever goes back to
   a smaller accepted total, through crashes and restarts too.              *)
THEOREM ForwardWithoutOverlap ==
    ASSUME MaxFlushes <= 1
    PROVE  Spec => RowsMoveForward
  <1> DEFINE Inv == Typed /\ Fits /\ Kept /\ Forward
  <1>1. Init => Inv
    BY InitFits, InitKept
  <1>2. Inv /\ [Next]_vars =>
           Inv' /\ \A id \in DOMAIN db : db'[id].lastAccepted >= db[id].lastAccepted
    BY TypedStep, FitsStep, KeptStep, ForwardStep DEF Step, Kept
  <1>3. Inv /\ [Next]_vars =>
           Inv' /\ [\A id \in DOMAIN db : db'[id].lastAccepted >= db[id].lastAccepted]_vars
    BY <1>2
  <1> QED
    <2> HIDE DEF Inv
    <2> QED BY <1>1, <1>3, PTL DEF Spec, RowsMoveForward

-----------------------------------------------------------------------------
(* A process that never restarts.                                           *)
AlwaysUp == up /\ crashes = 0

LEMMA StaysUp ==
    ASSUME MaxCrashes = 0, AlwaysUp, Step
    PROVE  AlwaysUp' /\ ~Crash /\ ~Shutdown /\ ~Boot
  <1>1. ~Crash /\ ~Shutdown /\ ~Boot
    BY DEF AlwaysUp, Crash, Shutdown, Boot
  <1> QED BY <1>1, UpWriters DEF AlwaysUp

(* How a load may get on.                                                   *)
LEMMA LoadCases ==
    ASSUME Typed, Step, NEW id \in Ids
    PROVE  \/ loading'[id] = loading[id]
           \/ loading'[id] = Idle
           \/ loading'[id] = Asked
           \/ /\ UNCHANGED <<channels, log, cache>> /\ UNCHANGED <<seen, poll>>
              /\ loading'[id] = IF Chain!Found(id)
                                THEN [at |-> "answered", state |-> ChannelState(id)]
                                ELSE [at |-> "missing"]
  <1>0. loading \in [Ids -> Load]
    BY DEF Typed, StoreTyped
  <1>1. ASSUME NEW j, LoadAsks(j) \/ LoadInserts(j) \/ LoadMisses(j) \/ LoadFails(j)
        PROVE  loading'[id] \in {loading[id], Idle, Asked}
    <2>1. loading' = [loading EXCEPT ![j] = Idle] \/ loading' = [loading EXCEPT ![j] = Asked]
      BY <1>1 DEF LoadAsks, LoadInserts, LoadMisses, LoadFails
    <2> QED BY <1>0, <2>1
  <1>2. ASSUME NEW j \in Ids, LoadAnswered(j), j # id
        PROVE  loading'[id] = loading[id]
    BY <1>0, <1>2 DEF LoadAnswered
  <1>3. ASSUME LoadAnswered(id)
        PROVE  /\ UNCHANGED <<channels, log, cache>> /\ UNCHANGED <<seen, poll>>
               /\ loading'[id] = IF Chain!Found(id)
                                 THEN [at |-> "answered", state |-> ChannelState(id)]
                                 ELSE [at |-> "missing"]
    <2> DEFINE x == IF Chain!Found(id) THEN [at |-> "answered", state |-> ChannelState(id)]
                                       ELSE [at |-> "missing"]
    <2>1. loading' = [loading EXCEPT ![id] = x] /\ UNCHANGED <<channels, log, cache, seen, poll>>
      BY <1>3 DEF LoadAnswered, chainVars, watchVars
    <2> HIDE DEF x
    <2>2. loading'[id] = x
      BY <1>0, <2>1
    <2> QED BY <2>1, <2>2 DEF x
  <1>4. CASE Crash \/ Shutdown
    BY <1>4 DEF Crash, Shutdown, MemoryLost
  <1> QED BY <1>1, <1>2, <1>3, <1>4, LoadWriters DEF PollLoads

(* A channel that is cached for the first time is cached as it was read.    *)
LEMMA NewRow ==
    ASSUME Typed, Step, ~Crash, ~Shutdown, ~Boot, NEW id \in DOMAIN cache', ~Cached(id)
    PROVE  id \in Ids /\ loading[id].at = "answered" /\ cache'[id] = insert(loading[id].state)
  <1>1. CASE UNCHANGED cache
    BY <1>1 DEF Cached
  <1>2. ASSUME NEW j \in Ids, NEW ch \in Row, Writes(j, ch)
        PROVE  id \in Ids /\ loading[id].at = "answered" /\ cache'[id] = insert(loading[id].state)
    <2>1. j = id /\ cache'[id] = ch
      BY <1>2, WritesEffect DEF Typed, Cached
    <2> QED BY <1>2, <2>1 DEF Writes
  <1> QED BY <1>1, <1>2, CacheStep

(* What the contract publishes tells its new state.                         *)
LEMMA InvokedTells ==
    ASSUME Chain!TypeOK, Invoked
    PROVE  /\ event'.ledger = ledger
           /\ event'.type = "topped_up" => event'.total = channels'[event'.id].deposit
           /\ \A id \in DOMAIN channels' :
                 \/ id \in DOMAIN channels /\ channels'[id].open = channels[id].open
                 \/ id \notin DOMAIN channels /\ channels'[id].claimed = 0 /\ channels'[id].open
                 \/ id \in DOMAIN channels /\ event'.type = "closed" /\ event'.id = id
  <1>1. ASSUME NEW payer \in Parties, NEW payee \in Parties, NEW a \in Assets, NEW d \in Amounts,
               NEW k \in Keys, NEW x \in Expiries, Chain!Open(payer, payee, a, d, k, x)
        PROVE  /\ event'.ledger = ledger /\ event'.type = "opened"
               /\ \A id \in DOMAIN channels' :
                     \/ id \in DOMAIN channels /\ channels'[id] = channels[id]
                     \/ id \notin DOMAIN channels /\ channels'[id].claimed = 0 /\ channels'[id].open
    <2>1. next_id \notin DOMAIN channels
      BY FacilitatorAssumption DEF Chain!TypeOK
    <2> QED BY <1>1, <2>1 DEF Chain!Open, Chain!Publish
  <1>2. ASSUME NEW id \in Ids, NEW n \in Amounts, Chain!TopUp(id, n)
        PROVE  /\ event'.ledger = ledger /\ event'.total = channels'[event'.id].deposit
               /\ event'.type = "topped_up"
               /\ \A i \in DOMAIN channels' :
                     i \in DOMAIN channels /\ channels'[i].open = channels[i].open
    <2>1. id \in DOMAIN channels /\ channels[id] \in Chain!Channel
      BY <1>2 DEF Chain!TopUp, Chain!OpenChannel, Chain!Found, Chain!TypeOK
    <2>2. /\ event' = [type |-> "topped_up", id |-> id, ledger |-> ledger, amount |-> n,
                       total |-> channels[id].deposit + n]
          /\ channels' = [channels EXCEPT ![id] = [channels[id] EXCEPT !.deposit = @ + n]]
      BY <1>2 DEF Chain!TopUp, Chain!Publish
    <2>3. channels'[id].deposit = channels[id].deposit + n /\ channels'[id].open = channels[id].open
      BY <2>1, <2>2 DEF Chain!Channel
    <2> QED BY <2>2, <2>3
  <1>3. ASSUME NEW id \in Ids, NEW c \in Cumulatives, NEW s \in signed, Chain!Claim(id, c, s)
        PROVE  /\ event'.ledger = ledger /\ event'.type = "claimed"
               /\ \A i \in DOMAIN channels' :
                     i \in DOMAIN channels /\ channels'[i].open = channels[i].open
    <2>1. id \in DOMAIN channels /\ channels[id] \in Chain!Channel
      BY <1>3 DEF Chain!Claim, Chain!ClaimAccepted, Chain!OpenChannel, Chain!Found, Chain!TypeOK
    <2>2. /\ event'.type = "claimed" /\ event'.ledger = ledger
          /\ channels' = [channels EXCEPT ![id] = [channels[id] EXCEPT !.claimed = c]]
      BY <1>3 DEF Chain!Claim, Chain!Publish
    <2>3. channels'[id].open = channels[id].open
      BY <2>1, <2>2 DEF Chain!Channel
    <2> QED BY <2>2, <2>3
  <1>4. ASSUME NEW id \in Ids, NEW p \in Parties, Chain!Close(id, p)
        PROVE  /\ event'.ledger = ledger /\ event'.type = "closed" /\ event'.id = id
               /\ id \in DOMAIN channels
               /\ \A i \in DOMAIN channels' :
                     i \in DOMAIN channels /\ (i = id \/ channels'[i] = channels[i])
    BY <1>4 DEF Chain!Close, Chain!Publish, Chain!OpenChannel, Chain!Found
  <1> QED BY <1>1, <1>2, <1>3, <1>4 DEF Invoked

(* The contract was invoked, and nothing but the mempool and the claim that
   waits for it knows; or its channels are as they were.                    *)
LEMMA ChainCases ==
    ASSUME Typed, Step
    PROVE  \/ UNCHANGED <<log, channels>>
           \/ /\ Invoked /\ log' = Append(log, event')
              /\ UNCHANGED <<watchVars, storeVars>>
  <1>1. CASE UNCHANGED chainVars
    BY <1>1 DEF chainVars
  <1>2. CASE Invoked /\ log' = Append(log, event') /\ UNCHANGED facVars
    BY <1>2 DEF facVars
  <1>3. CASE Chain!LedgerCloses /\ LedgerCloses
    BY <1>3 DEF Chain!LedgerCloses, LedgerCloses
  <1>4. ASSUME NEW tx \in mempool, ClaimApplied(tx)
        PROVE  \/ UNCHANGED chainVars
               \/ /\ Invoked /\ log' = Append(log, event')
                  /\ UNCHANGED <<watchVars, storeVars>>
    <2>1. tx \in Sent
      BY DEF Typed, ClaimTyped
    <2> QED BY <1>4, <2>1, ClaimInvokes DEF ClaimApplied, Typed, ChainTyped
  <1> QED BY <1>1, <1>2, <1>3, <1>4, ChainWriters

-----------------------------------------------------------------------------
(* No value is served twice.                                                *)
LEMMA InitServed == Init => ServedOnce /\ AlwaysUp
  BY EmptyTyped DEF Init, ServedOnce, AlwaysUp, Chain!Deployed, Idle, Cached

LEMMA ServedStep ==
    ASSUME MaxCrashes = 0, Typed, Fits, Step, AlwaysUp, ServedOnce
    PROVE  ServedOnce'
  <1>0. /\ ~Crash /\ ~Shutdown /\ ~Boot /\ Grew /\ Typed'
        /\ served \in [Ids -> Int] /\ highest \in [Ids -> Int]
        /\ cache \in Table /\ cache' \in Table /\ DOMAIN cache \subseteq DOMAIN cache'
        /\ loading \in [Ids -> Load]
    BY StaysUp, TypedStep, CacheTyped DEF ServedOnce, Typed, StoreTyped
  <1>1. ASSUME NEW id \in DOMAIN channels'
        PROVE  channels'[id].claimed >= 0
    <2>1. CASE id \in DOMAIN channels
      <3>1. channels'[id].claimed >= channels[id].claimed /\ channels[id].claimed >= 0
        BY <1>0, <2>1 DEF Grew, ServedOnce
      <3>2. channels[id].claimed \in Int
        BY <2>1, ChannelTyped DEF Typed, ChainTyped
      <3>3. channels'[id].claimed \in Int
        BY <1>0 DEF Typed, ChainTyped, Chain!TypeOK, Chain!Channel
      <3> QED BY <3>1, <3>2, <3>3
    <2>2. CASE id \notin DOMAIN channels
      BY <2>2, ChainCases, InvokedTells DEF Typed, ChainTyped
    <2> QED BY <2>1, <2>2
  <1>2. ASSUME NEW id \in Ids, loading'[id].at = "answered"
        PROVE  loading'[id].state.claimed >= 0
    <2>1. CASE loading'[id] = loading[id]
      BY <1>2, <2>1 DEF ServedOnce
    <2>2. CASE loading'[id] = IF Chain!Found(id)
                              THEN [at |-> "answered", state |-> ChannelState(id)]
                              ELSE [at |-> "missing"]
      <3>1. Chain!Found(id) /\ loading'[id] = [at |-> "answered", state |-> ChannelState(id)]
        BY <1>2, <2>2
      <3> QED BY <3>1 DEF Chain!Found, ChannelState, ServedOnce
    <2> QED BY <1>2, <2>1, <2>2, LoadCases DEF Idle, Asked
  <1>3. ASSUME NEW id \in Ids
        PROVE  IF Cached(id) THEN cache'[id].lastAccepted >= cache[id].lastAccepted
                                  /\ cache'[id].lastAccepted \in Int /\ cache[id].lastAccepted \in Int
                             ELSE Cached(id)' => cache'[id].lastAccepted >= 0
                                                 /\ cache'[id].lastAccepted \in Int
    <2>1. CASE Cached(id)
      BY <1>0, <2>1, RowMovesOn, Accepted, TypesStay DEF Cached, Grew
    <2>2. CASE ~Cached(id) /\ Cached(id)'
      <3>1. loading[id].at = "answered" /\ cache'[id] = insert(loading[id].state)
        BY <1>0, <2>2, NewRow DEF Cached
      <3>2. cache'[id].lastAccepted = loading[id].state.claimed /\ loading[id].state.claimed \in Int
        BY <1>0, <3>1 DEF insert, Load, Answer, Idle, Asked
      <3> QED BY <2>2, <3>1, <3>2 DEF ServedOnce
    <2> QED BY <2>1, <2>2
  <1>4. CASE UNCHANGED <<served, highest>>
    <2>1. ASSUME NEW id \in Ids
          PROVE  /\ served[id] <= highest[id]
                 /\ IF Cached(id)' THEN highest[id] <= cache'[id].lastAccepted ELSE highest[id] <= 0
      <3>1. highest[id] \in Int /\ served[id] \in Int
        BY <1>0
      <3>2. Cached(id) => Cached(id)'
        BY <1>0 DEF Cached
      <3> QED BY <1>3, <3>1, <3>2 DEF ServedOnce
    <2> QED BY <1>0, <1>1, <1>2, <1>4, <2>1 DEF ServedOnce
  <1>5. ASSUME NEW id \in Ids, NEW c \in Cumulatives, NEW s \in signed, NEW p \in Prices,
               Accept(id, c, s, p)
        PROVE  ServedOnce'
    <2>1. /\ id \in DOMAIN cache /\ c \in Int /\ cache[id].lastAccepted \in Int
          /\ c > cache[id].lastAccepted
      BY <1>0, <1>5, Accepted, FacilitatorAssumption DEF Accept, Cached, Payable
    <2>2. id \in DOMAIN cache' /\ cache'[id].lastAccepted = c
      <3> DEFINE new == [cache[id] EXCEPT !.lastAccepted = c, !.lastSig = s,
                                         !.vouchersSinceClaim = @ + 1]
      <3>1. Writes(id, new)
        BY <1>5, AcceptWrites DEF Typed
      <3>2. id \in DOMAIN cache' /\ cache'[id] = new
        BY <3>1, WritesEffect DEF Typed
      <3>3. cache[id] \in Row
        BY <1>0, <2>1, RowTyped
      <3> QED BY <3>2, <3>3 DEF Row
    <2>3. /\ served' = [served EXCEPT ![id] = @ + (c - cache[id].lastAccepted)]
          /\ highest' = [highest EXCEPT ![id] = Max2(@, c)]
      BY <1>5 DEF Accept
    <2>4. /\ served[id] \in Int /\ highest[id] \in Int /\ served[id] <= highest[id]
          /\ highest[id] <= cache[id].lastAccepted
      BY <1>0, <2>1 DEF ServedOnce, Cached
    <2>5. Max2(highest[id], c) = c
      BY <2>1, <2>4 DEF Max2
    <2>6. /\ served' \in [Ids -> Int] /\ highest' \in [Ids -> Int]
          /\ served'[id] = served[id] + (c - cache[id].lastAccepted) /\ highest'[id] = c
          /\ \A i \in Ids \ {id} : served'[i] = served[i] /\ highest'[i] = highest[i]
      BY <1>0, <2>1, <2>3, <2>4, <2>5
    <2>7. ASSUME NEW i \in Ids
          PROVE  /\ served'[i] <= highest'[i]
                 /\ IF Cached(i)' THEN highest'[i] <= cache'[i].lastAccepted ELSE highest'[i] <= 0
      <3>1. CASE i = id
        BY <2>1, <2>2, <2>4, <2>6, <3>1 DEF Cached
      <3>2. CASE i # id
        <4>1. highest[i] \in Int /\ served[i] \in Int /\ (Cached(i) => Cached(i)')
          BY <1>0 DEF Cached
        <4> QED BY <1>3, <2>6, <3>2, <4>1 DEF ServedOnce
      <3> QED BY <3>1, <3>2
    <2> QED BY <1>1, <1>2, <2>6, <2>7 DEF ServedOnce
  <1> QED BY <1>4, <1>5, ServedWriters

(* What a process that never restarts serves for it can collect, once.  (A
   restart forgets what was accepted after the last flush.)                 *)
THEOREM ServedIsClaimable ==
    ASSUME MaxCrashes = 0
    PROVE  Spec => []AcceptedIsClaimable
  <1> DEFINE Inv == Typed /\ Fits /\ AlwaysUp /\ ServedOnce
  <1>1. Init => Inv
    BY InitFits, InitServed
  <1>2. Inv /\ [Next]_vars => Inv'
    BY TypedStep, FitsStep, StaysUp, ServedStep DEF Step
  <1>3. Inv => NothingServedTwice
    BY DEF ServedOnce, NothingServedTwice
  <1>4. Spec => []NothingServedTwice
    <2> HIDE DEF Inv
    <2> QED BY <1>1, <1>2, <1>3, PTL DEF Spec
  <1> QED BY <1>4, CanBeClaimed, PTL DEF AcceptedIsClaimable

-----------------------------------------------------------------------------
(* The order of events.                                                     *)

(* What has happened since the cursor fits a page of getEvents.             *)
OnePage == Cardinality({i \in DOMAIN log : log[i].ledger >= cursor}) <= PageLimit

LEMMA InitOrder == Init => LogInOrder /\ SeenInOrder /\ PassedIsShown
  <1> SUFFICES ASSUME Init PROVE LogInOrder /\ SeenInOrder /\ PassedIsShown
    OBVIOUS
  <1>1. DOMAIN log = {} /\ DOMAIN channels = {} /\ seen = {} /\ poll = Idle
    BY DEF Init, Chain!Deployed
  <1> QED BY <1>1 DEF LogInOrder, SeenInOrder, PassedIsShown, Passed, Idle

LEMMA LogStep ==
    ASSUME Typed, Fits, Step, LogInOrder
    PROVE  LogInOrder'
  <1>0. Grew /\ Logged /\ ChainTyped /\ Typed'
    BY TypedStep DEF Typed
  <1>1. CASE UNCHANGED <<log, channels>>
    BY <1>1 DEF LogInOrder
  <1>2. CASE Invoked /\ log' = Append(log, event')
    <2> DEFINE n == Len(log) + 1
    <2>1. /\ Len(log) \in Nat /\ DOMAIN log = 1..Len(log) /\ DOMAIN log' = 1..n
          /\ log'[n] = event' /\ \A i \in DOMAIN log : log'[i] = log[i]
      BY <1>0, <1>2, AppendProperties DEF ChainTyped
    <2>2. /\ event'.ledger = ledger
          /\ event'.type = "topped_up" => event'.total = channels'[event'.id].deposit
      BY <1>0, <1>2, InvokedTells DEF ChainTyped
    <2>3. ASSUME NEW i \in DOMAIN log
          PROVE  /\ log[i].ledger <= ledger
                 /\ log[i].id = event'.id /\ log[i].type = "topped_up" /\ event'.type = "topped_up"
                        => log[i].total <= event'.total
      <3>0. log[i] \in Chain!Event /\ EventFits(log[i])
        BY <1>0 DEF Fits, ChainTyped
      <3>1. EventFits(log[i]) /\ log[i].id \in DOMAIN channels /\ log[i].total \in Int
        BY <3>0 DEF EventFits, Chain!Found, Chain!Event
      <3>2. channels[log[i].id].deposit \in Int /\ channels[log[i].id].deposit <= channels'[log[i].id].deposit
        BY <1>0, <3>1, ChannelTyped DEF Grew, ChainTyped
      <3>3. channels'[log[i].id].deposit \in Int
        BY <1>0, <3>1 DEF Grew, Typed, ChainTyped, Chain!TypeOK, Chain!Channel
      <3> QED BY <2>2, <3>1, <3>2, <3>3 DEF EventFits
    <2>4. ASSUME NEW i \in 1..n, NEW j \in 1..n, i < j
          PROVE  /\ log'[i].ledger <= log'[j].ledger
                 /\ log'[i].id = log'[j].id /\ log'[i].type = "topped_up" /\ log'[j].type = "topped_up"
                        => log'[i].total <= log'[j].total
      <3>1. i \in DOMAIN log /\ (j \in DOMAIN log \/ j = n)
        BY <2>1, <2>4
      <3>2. CASE j \in DOMAIN log
        BY <2>1, <2>4, <3>1, <3>2 DEF LogInOrder
      <3>3. CASE j = n
        BY <2>1, <2>2, <2>3, <3>1, <3>3
      <3> QED BY <3>1, <3>2, <3>3
    <2>5. ASSUME NEW id \in DOMAIN channels', ~channels'[id].open
          PROVE  \E i \in 1..n : log'[i].id = id /\ log'[i].type = "closed"
      <3>1. CASE event'.type = "closed" /\ event'.id = id
        BY <2>1, <3>1
      <3>2. CASE id \in DOMAIN channels /\ channels'[id].open = channels[id].open
        <4>1. PICK i \in DOMAIN log : log[i].id = id /\ log[i].type = "closed"
          BY <2>5, <3>2 DEF LogInOrder
        <4> QED BY <2>1, <4>1
      <3> QED BY <1>0, <1>2, <2>5, <3>1, <3>2, InvokedTells DEF ChainTyped
    <2> QED BY <2>1, <2>4, <2>5 DEF LogInOrder
  <1> QED BY <1>1, <1>2, ChainCases

(* A page holds all there is since the cursor.                              *)
LEMMA WholePage ==
    ASSUME Typed, OnePage, NEW i \in DOMAIN log, log[i].ledger >= cursor
    PROVE  i \in pollEvents(cursor)
  <1> DEFINE Matching == {j \in DOMAIN log : log[j].ledger >= cursor}
             Before == {j \in Matching : j < i}
  <1>1. DOMAIN log = 1..Len(log) /\ Len(log) \in Nat
    BY DEF Typed, ChainTyped
  <1>2. IsFiniteSet(1..Len(log)) /\ Matching \in SUBSET (1..Len(log))
    BY <1>1, FS_Interval
  <1>3. IsFiniteSet(Matching) /\ Before \in SUBSET Matching /\ Before # Matching
    <2>1. i \in Matching /\ i \notin Before
      BY <1>1
    <2> HIDE DEF Matching
    <2> QED BY <1>2, <2>1, FS_Subset
  <1> HIDE DEF Before, Matching
  <1>4. Cardinality(Before) <= Cardinality(Matching) /\ Cardinality(Before) # Cardinality(Matching)
    BY <1>3, FS_Subset
  <1>5. Cardinality(Matching) \in Nat /\ Cardinality(Before) \in Nat
    BY <1>3, FS_Subset, FS_CardinalityType
  <1>6. Cardinality(Matching) <= PageLimit
    BY DEF OnePage, Matching
  <1>7. Cardinality(Before) < PageLimit
    BY <1>4, <1>5, <1>6, FacilitatorAssumption
  <1> QED BY <1>7 DEF pollEvents, Before, Matching

LEMMA OrderStep ==
    ASSUME Typed, Fits, Step, ~Crash, ~Shutdown, ~Boot, LogInOrder, SeenInOrder, OnePage
    PROVE  SeenInOrder'
  <1>0. /\ Typed' /\ Grew /\ Logged /\ ChainTyped /\ WatchTyped /\ seen \subseteq DOMAIN log
        /\ DOMAIN log = 1..Len(log) /\ Len(log) \in Nat /\ ledger \in Nat
        /\ cursor \in 0..ledger /\ Passed \subseteq seen
    <2>1. Typed' /\ Grew /\ Logged
      BY TypedStep
    <2>2. ChainTyped /\ WatchTyped /\ ledger \in Nat
      BY DEF Typed, ChainTyped, Chain!TypeOK
    <2>3. seen \subseteq DOMAIN log /\ cursor \in 0..ledger
      BY <2>2 DEF WatchTyped
    <2>4. DOMAIN log = 1..Len(log) /\ Len(log) \in Nat
      BY <2>2 DEF ChainTyped
    <2>5. Passed \subseteq seen
      BY DEF Passed
    <2> QED BY <2>1, <2>2, <2>3, <2>4, <2>5
  <1>1. \A i \in DOMAIN log : log[i].ledger \in Nat /\ log[i].ledger <= ledger
    <2>1. \A i \in DOMAIN log : log[i] \in Chain!Event /\ EventFits(log[i])
      BY <1>0 DEF ChainTyped, Fits
    <2> QED BY <2>1 DEF Chain!Event, EventFits
  <1>2. poll # Idle => poll \in Page
    BY <1>0 DEF WatchTyped
  (* The log grows while the watcher sleeps.                                *)
  <1>3. CASE UNCHANGED watchVars
    <2>1. Passed' = Passed /\ seen' = seen /\ poll' = poll /\ cursor' = cursor
      BY <1>3 DEF watchVars, Passed
    <2>2. /\ \A i \in DOMAIN log : i \in DOMAIN log' /\ log'[i] = log[i]
          /\ \A i \in DOMAIN log' : i \in DOMAIN log \/ (i = Len(log) + 1 /\ log'[i].ledger = ledger)
      <3>1. CASE UNCHANGED log
        BY <3>1
      <3>2. CASE Invoked /\ log' = Append(log, event')
        <4>1. event'.ledger = ledger
          BY <1>0, <3>2, InvokedTells DEF ChainTyped
        <4> QED BY <1>0, <3>2, <4>1, LogGrows
      <3> QED BY <3>1, <3>2, ChainCases
    <2>3. poll # Idle => /\ poll.latest \in 0..ledger
                         /\ \A j \in poll.events : j \in 1..Len(log)
      BY <1>0, <1>2 DEF Page
    <2>4. (\A i \in seen, j \in DOMAIN log : j < i => j \in seen)'
      BY <1>0, <2>1, <2>2 DEF SeenInOrder
    <2>5. (\A i \in DOMAIN log : log[i].ledger < cursor => i \in Passed)'
      BY <1>0, <2>1, <2>2 DEF SeenInOrder
    <2>6. (poll # Idle => \A i \in DOMAIN log :
             (log[i].ledger < poll.latest \/ \E j \in poll.events : i < j)
                => i \in Passed \/ i \in poll.events)'
      <3> SUFFICES ASSUME poll # Idle, NEW i \in DOMAIN log',
                          log'[i].ledger < poll.latest \/ \E j \in poll.events : i < j
                   PROVE  i \in Passed \/ i \in poll.events
        BY <2>1, Zenon DEF Idle
      <3>1. i \in DOMAIN log
        BY <1>0, <2>2, <2>3
      <3> QED BY <2>2, <3>1 DEF SeenInOrder
    <2> QED BY <2>1, <2>4, <2>5, <2>6 DEF SeenInOrder
  <1>4. CASE PollFetches
    <2>1. /\ poll = Idle /\ poll' = [at |-> "applying", events |-> pollEvents(cursor), latest |-> ledger]
          /\ UNCHANGED <<log, seen, cursor>>
      BY <1>4 DEF PollFetches, chainVars
    <2>2. Passed' = seen /\ Passed = seen /\ poll'.events = pollEvents(cursor) /\ poll'.at = "applying"
      BY <2>1 DEF Passed, Idle
    <2>3. \A i \in DOMAIN log : i \in seen \/ i \in pollEvents(cursor)
      <3> SUFFICES ASSUME NEW i \in DOMAIN log, i \notin seen PROVE i \in pollEvents(cursor)
        OBVIOUS
      <3>1. log[i].ledger >= cursor
        BY <1>0, <1>1, <2>2 DEF SeenInOrder
      <3> QED BY <3>1, WholePage
    <2> QED BY <2>1, <2>2, <2>3 DEF SeenInOrder
  <1>5. CASE PollTakes
    <2>0. UNCHANGED <<log, cursor>>
      BY <1>5 DEF PollTakes, chainVars
    <2>1. PICK m : m = Min(poll.events)
      OBVIOUS
    <2>2. /\ poll # Idle /\ poll.at = "applying" /\ m \in poll.events /\ poll.events \subseteq DOMAIN log
          /\ \A i \in poll.events : m <= i
      BY <1>0, <1>5, <2>1, TakesTyped DEF Idle
    <2>3. Passed = seen
      BY <2>2 DEF Passed
    <2>4. CASE m \in seen
      <3>1. /\ seen' = seen /\ poll'.at = "applying" /\ poll'.latest = poll.latest
            /\ poll'.events = poll.events \ {m}
        BY <1>0, <1>5, <2>1, <2>4, TakesTyped
      <3>2. Passed' = seen
        BY <3>1 DEF Passed
      <3> QED BY <2>0, <2>2, <2>3, <2>4, <3>1, <3>2 DEF SeenInOrder
    <2>5. CASE m \notin seen
      <3>1. /\ seen' = seen \cup {m} /\ poll'.at = "awaiting" /\ poll'.latest = poll.latest
            /\ poll'.events = poll.events
        BY <1>0, <1>5, <2>1, <2>5, TakesTyped
      <3>2. Passed' = seen
        BY <2>1, <2>5, <3>1 DEF Passed
      <3>3. \A j \in DOMAIN log : j < m => j \in seen
        BY <1>0, <2>2, <2>3 DEF SeenInOrder
      <3>4. \A i \in seen : i <= m
        BY <1>0, <2>2, <2>5 DEF SeenInOrder
      <3>5. (\A i \in seen, j \in DOMAIN log : j < i => j \in seen)'
        BY <2>0, <3>1, <3>3 DEF SeenInOrder
      <3>6. (\A i \in seen : i <= Min(poll.events))'
        BY <1>0, <2>1, <2>2, <3>1, <3>4
      <3> QED BY <2>0, <2>2, <2>3, <3>1, <3>2, <3>5, <3>6 DEF SeenInOrder
    <2> QED BY <2>4, <2>5
  (* The watcher is done with an event, applied or dropped.                 *)
  <1>6. ASSUME poll.at = "awaiting", UNCHANGED <<log, seen>>,
               \/ PollGoesOn
               \/ poll' = Idle /\ cursor' = cursor
        PROVE  SeenInOrder'
    <2>1. PICK m : m = Min(poll.events)
      OBVIOUS
    <2>2. /\ m \in DOMAIN log /\ m \in seen /\ Passed = seen \ {m} /\ poll # Idle
          /\ \A i \in seen : i <= m
      BY <1>0, <1>6, <2>1, Awaiting DEF WatchTyped, Passed, SeenInOrder, Idle
    <2>3. CASE poll' = Idle /\ cursor' = cursor
      <3>1. Passed' = seen
        BY <1>6, <2>3 DEF Passed, Idle
      <3> QED BY <1>6, <2>2, <2>3, <3>1 DEF SeenInOrder, Idle
    <2>4. CASE PollGoesOn
      <3>1. /\ poll'.at = "applying" /\ poll'.latest = poll.latest
            /\ poll'.events = poll.events \ {m}
            /\ cursor' = Max2(cursor, log[m].ledger)
        BY <1>0, <1>6, <2>1, <2>4, GoesOn
      <3>2. Passed' = seen
        BY <1>6, <3>1 DEF Passed
      <3>3. \A i \in DOMAIN log : log[i].ledger < log[m].ledger => i \in seen
        <4> SUFFICES ASSUME NEW i \in DOMAIN log, log[i].ledger < log[m].ledger PROVE i \in seen
          OBVIOUS
        <4>1. ~(m < i) /\ i # m
          BY <1>1, <2>2 DEF LogInOrder
        <4>2. i < m
          BY <1>0, <2>2, <4>1
        <4> QED BY <2>2, <4>2 DEF SeenInOrder
      <3>4. \A i \in DOMAIN log : log[i].ledger < cursor' => i \in seen
        BY <1>0, <1>1, <2>2, <3>1, <3>3 DEF SeenInOrder, Max2
      <3> QED BY <1>6, <2>2, <3>1, <3>2, <3>4 DEF SeenInOrder
    <2> QED BY <1>6, <2>3, <2>4
  <1>7. CASE PollApplies
    BY <1>6, <1>7 DEF PollApplies, chainVars
  <1>8. ASSUME NEW id \in Ids, LoadMisses(id) \/ LoadFails(id)
        PROVE  SeenInOrder'
    <2>1. UNCHANGED <<log, seen>>
      BY <1>8 DEF LoadMisses, LoadFails, chainVars
    <2>2. CASE PollAwaits(id)
      BY <1>6, <1>8, <2>1, <2>2 DEF LoadMisses, LoadFails, PollAwaits
    <2>3. CASE ~PollAwaits(id)
      <3>1. UNCHANGED <<cursor, poll, log, seen>>
        BY <1>8, <2>1, <2>3 DEF LoadMisses, LoadFails
      <3> QED BY <3>1 DEF SeenInOrder, Passed
    <2> QED BY <2>2, <2>3
  <1>9. CASE PollEnds
    <2>1. /\ poll # Idle /\ poll.at = "applying" /\ poll.events = {} /\ poll' = Idle
          /\ UNCHANGED <<log, seen>> /\ cursor' = Max2(cursor, poll.latest - 1)
      BY <1>9 DEF PollEnds, chainVars, NextCursor, Idle
    <2>2. Passed = seen /\ Passed' = seen
      BY <2>1 DEF Passed, Idle
    <2>3. poll.latest \in 0..ledger
      BY <1>2, <2>1 DEF Page
    <2>4. \A i \in DOMAIN log : log[i].ledger < cursor' => i \in seen
      BY <1>0, <1>1, <2>1, <2>2, <2>3 DEF SeenInOrder, Max2
    <2> QED BY <2>1, <2>2, <2>4 DEF SeenInOrder, Idle
  <1> QED BY <1>3, <1>4, <1>5, <1>7, <1>8, <1>9, WatchWriters

LEMMA ShownStep ==
    ASSUME Typed, Fits, Step, ~Crash, ~Shutdown, ~Boot, LogInOrder, SeenInOrder, PassedIsShown
    PROVE  PassedIsShown'
  <1>0. /\ Typed' /\ Grew /\ Logged /\ ChainTyped /\ WatchTyped /\ seen \subseteq DOMAIN log
        /\ DOMAIN log = 1..Len(log) /\ Len(log) \in Nat /\ Passed \subseteq seen
        /\ cache \in Table /\ cache' \in Table
        /\ loading \in [Ids -> Load] /\ \A id \in Ids : loading[id] # Idle => ~Cached(id)
    BY TypedStep, CacheTyped DEF Typed, ChainTyped, WatchTyped, Passed, StoreTyped
  <1>1. ASSUME NEW i \in Passed
        PROVE  /\ log'[i] = log[i] /\ log[i] \in Chain!Event /\ EventFits(log[i])
               /\ log[i].id \in Ids /\ log[i].type \in Chain!EventTypes
    <2>1. i \in DOMAIN log /\ log[i] \in Chain!Event
      BY <1>0 DEF ChainTyped
    <2> QED BY <1>0, <2>1, LogGrows DEF Fits, Chain!Event, Chain!Ids, Ids
  <1>2. ASSUME NEW i \in Passed, NEW e, e = log[i], e.id \in DOMAIN cache'
        PROVE  Shows(cache'[e.id], e)
    <2> DEFINE id == e.id
    <2>0. id \in Ids /\ e.total \in Int /\ e.type \in {"opened", "topped_up", "claimed", "closed"}
      BY <1>1, <1>2 DEF Chain!Event, Chain!EventTypes
    <2>1. CASE Cached(id)
      <3>0. Shows(cache[id], e)
        BY <1>2, <2>1 DEF PassedIsShown
      <3>1. /\ cache'[id].claimed >= cache[id].claimed /\ (~cache[id].open => ~cache'[id].open)
            /\ \/ cache'[id].deposit = cache[id].deposit
               \/ LET x == log[Min(poll.events)] IN
                  /\ PollApplies /\ x.id = id /\ x.type = "topped_up"
                  /\ cache'[id].deposit = x.total
        BY <2>1, RowMovesOn DEF Cached
      <3>2. /\ cache[id].claimed \in Int /\ cache[id].deposit \in Int
            /\ cache'[id].claimed \in Int /\ cache'[id].deposit \in Int
        <4>1. Row' = Row /\ cache[id] \in Row /\ cache'[id] \in Row
          BY <1>0, <1>2, <2>1, RowTyped, TypesStay DEF Cached, Grew
        <4> QED BY <4>1 DEF Row
      <3>3. CASE cache'[id].deposit = cache[id].deposit
        BY <2>0, <3>0, <3>1, <3>2, <3>3 DEF Shows
      <3>4. ASSUME NEW m, m = Min(poll.events), PollApplies, log[m].id = id,
                   log[m].type = "topped_up", cache'[id].deposit = log[m].total
            PROVE  e.type = "topped_up" => cache'[id].deposit >= e.total
        <4>1. poll.at = "awaiting" /\ m \in DOMAIN log
          BY <1>0, <3>4, Awaiting DEF PollApplies
        <4>2. i \in seen /\ i # m /\ i <= m /\ i \in DOMAIN log
          BY <1>0, <3>4, <4>1 DEF Passed, SeenInOrder
        <4>3. i < m
          BY <1>0, <4>1, <4>2
        <4>4. log[m].total \in Int
          <5>1. log[m] \in Chain!Event
            BY <1>0, <4>1 DEF ChainTyped
          <5> QED BY <5>1 DEF Chain!Event
        <4> QED BY <1>2, <2>0, <3>4, <4>1, <4>2, <4>3, <4>4 DEF LogInOrder
      <3> QED BY <2>0, <3>0, <3>1, <3>2, <3>3, <3>4 DEF Shows
    <2>2. CASE ~Cached(id)
      <3>1. loading[id].at = "answered" /\ cache'[id] = insert(loading[id].state)
        BY <1>2, <2>2, NewRow
      <3>2. Shows(loading[id].state, e)
        BY <1>2, <3>1 DEF PassedIsShown
      <3> QED BY <3>1, <3>2 DEF Shows, insert
    <2> QED BY <2>1, <2>2
  <1>3. ASSUME NEW i \in Passed, NEW e, e = log[i]
        PROVE  /\ loading'[e.id].at # "missing"
               /\ loading'[e.id].at = "answered" => Shows(loading'[e.id].state, e)
    <2>0. /\ e.id \in Ids /\ EventFits(e) /\ e.type \in {"opened", "topped_up", "claimed", "closed"}
          /\ e.total \in Int
      BY <1>1, <1>3 DEF Chain!Event, Chain!EventTypes
    <2>1. CASE loading'[e.id] = loading[e.id]
      BY <1>3, <2>1 DEF PassedIsShown
    <2>2. CASE loading'[e.id] \in {Idle, Asked}
      BY <2>2 DEF Idle, Asked
    <2>3. CASE loading'[e.id] = IF Chain!Found(e.id)
                                THEN [at |-> "answered", state |-> ChannelState(e.id)]
                                ELSE [at |-> "missing"]
      <3>1. loading'[e.id] = [at |-> "answered", state |-> ChannelState(e.id)]
        BY <2>0, <2>3 DEF EventFits
      <3>2. e.id \in DOMAIN channels
        BY <2>0 DEF EventFits, Chain!Found
      <3>3. Shows(ChannelState(e.id), e)
        <4>1. /\ channels[e.id].deposit \in Int /\ channels[e.id].claimed \in Int
          BY <1>0, <3>2, ChannelTyped DEF ChainTyped
        <4> QED BY <2>0, <4>1 DEF EventFits, Shows, ChannelState
      <3> QED BY <3>1, <3>3
    <2> QED BY <2>0, <2>1, <2>2, <2>3, LoadCases
  <1>4. ASSUME NEW m, m = Min(poll.events), poll.at = "awaiting", NEW e, e = log[m],
               \/ PollApplies
               \/ LET id == log[Min(poll.events)].id IN
                  /\ loading[id] # Idle /\ ~Cached(id)
                  /\ UNCHANGED <<cache, log>> /\ loading' = [loading EXCEPT ![id] = Idle]
        PROVE  /\ e.id \in DOMAIN cache' => Shows(cache'[e.id], e)
               /\ loading'[e.id] = Idle
    <2>1. e \in Chain!Event /\ e.id \in Ids
      BY <1>0, <1>4, Awaiting
    <2>4. CASE PollApplies
      <3>1. Cached(e.id) /\ loading'[e.id] = Idle
        BY <1>0, <1>4, <2>1, <2>4 DEF PollApplies
      <3>2. \/ UNCHANGED cache /\ (e.type = "opened" \/ (e.type = "closed" /\ ~cache[e.id].open))
            \/ /\ e.type \in {"topped_up", "claimed", "closed"}
               /\ Writes(e.id, Applying(cache[e.id], e))
        BY <1>4, <2>4, PollAppliesWrites DEF Typed
      <3>3. CASE UNCHANGED cache /\ (e.type = "opened" \/ (e.type = "closed" /\ ~cache[e.id].open))
        BY <3>1, <3>3 DEF Shows
      <3>4. CASE /\ e.type \in {"topped_up", "claimed", "closed"}
                 /\ Writes(e.id, Applying(cache[e.id], e))
        <4>1. e.total \in Int /\ cache[e.id] \in Row
          BY <1>0, <2>1, <3>1, RowTyped DEF Chain!Event, Cached
        <4>2. PICK new : new = Applying(cache[e.id], e)
          OBVIOUS
        <4>3. cache'[e.id] = new
          BY <2>1, <3>4, <4>2, WritesEffect DEF Typed
        <4>4. /\ new.deposit = IF e.type = "topped_up" THEN e.total ELSE cache[e.id].deposit
              /\ e.type = "claimed" => new.claimed >= e.total
              /\ e.type = "closed" => ~new.open
          BY <2>1, <3>4, <4>1, <4>2, AppliedGrows
        <4>5. Shows(new, e)
          BY <3>4, <4>1, <4>4 DEF Shows
        <4> QED BY <3>1, <4>3, <4>5
      <3> QED BY <3>2, <3>3, <3>4
    <2>5. CASE /\ loading[e.id] # Idle /\ ~Cached(e.id)
               /\ UNCHANGED <<cache, log>> /\ loading' = [loading EXCEPT ![e.id] = Idle]
      BY <1>0, <2>1, <2>5 DEF Cached
    <2> QED BY <1>4, <2>4, <2>5
  <1>5. ASSUME NEW i \in Passed', NEW e, e = log'[i]
        PROVE  /\ e.id \in DOMAIN cache' => Shows(cache'[e.id], e)
               /\ loading'[e.id].at # "missing"
               /\ loading'[e.id].at = "answered" => Shows(loading'[e.id].state, e)
    <2>1. CASE i \in Passed
      <3>1. e = log[i]
        BY <1>1, <1>5, <2>1
      <3>2. e.id \in DOMAIN cache' => Shows(cache'[e.id], e)
        BY <1>2, <2>1, <3>1
      <3> QED BY <1>3, <2>1, <3>1, <3>2
    <2>2. CASE i \notin Passed
      <3>1. /\ i = Min(poll.events) /\ poll.at = "awaiting"
            /\ \/ PollApplies
               \/ LET id == log[Min(poll.events)].id IN
                  /\ loading[id] # Idle /\ ~Cached(id)
                  /\ UNCHANGED <<cache, log>> /\ loading' = [loading EXCEPT ![id] = Idle]
        BY <1>5, <2>2, Passes
      <3>2. e = log[i]
        BY <1>5, <3>1 DEF PollApplies, chainVars
      <3> QED BY <1>4, <3>1, <3>2 DEF Idle
    <2> QED BY <2>1, <2>2
  <1> QED BY <1>5 DEF PassedIsShown, Cached

(* What a process that does not restart relies on between its cursor and its
   cache.                                                                   *)
Ordered ==
    /\ Typed /\ Fits /\ AlwaysUp
    /\ LogInOrder /\ SeenInOrder /\ PassedIsShown

LEMMA AlwaysOrdered ==
    ASSUME MaxCrashes = 0
    PROVE  Spec /\ []OnePage => []Ordered
  <1>1. Init => Ordered
    BY InitFits, InitServed, InitOrder DEF Ordered
  <1>2. Ordered /\ OnePage /\ [Next]_vars => Ordered'
    BY TypedStep, FitsStep, StaysUp, LogStep, OrderStep, ShownStep DEF Step, Ordered
  <1> QED BY <1>1, <1>2, PTL DEF Spec

(* What lies before the cursor shows in the cache, however loads and polls
   overlap and fail, as long as the process does not restart and no more
   happens between two polls than a page of getEvents holds.                *)
THEOREM FollowsChain ==
    ASSUME MaxCrashes = 0
    PROVE  Spec /\ []OnePage => []CacheFollowsChain
  <1>1. Ordered => CursorMeansApplied
    <2> SUFFICES ASSUME Ordered, NEW i \in DOMAIN log, Cached(log[i].id), log[i].ledger < cursor
                 PROVE  CASE log[i].type = "opened"    -> TRUE
                          [] log[i].type = "topped_up" -> cache[log[i].id].deposit >= log[i].total
                          [] log[i].type = "claimed"   -> cache[log[i].id].claimed >= log[i].total
                          [] log[i].type = "closed"    -> ~cache[log[i].id].open
      BY DEF CursorMeansApplied
    <2>1. Shows(cache[log[i].id], log[i])
      BY DEF Ordered, SeenInOrder, PassedIsShown
    <2>2. log[i].type \in {"opened", "topped_up", "claimed", "closed"}
      <3>1. log[i] \in Chain!Event
        BY DEF Ordered, Typed, ChainTyped
      <3> QED BY <3>1 DEF Chain!Event, Chain!EventTypes
    <2> QED BY <2>1, <2>2 DEF Shows
  <1> QED BY <1>1, AlwaysOrdered, NeverLeads, PTL DEF CacheFollowsChain

(* Under the same conditions nothing is served on a channel whose close lies
   before the cursor.                                                       *)
THEOREM ClosedIsNotServed ==
    ASSUME MaxCrashes = 0
    PROVE  Spec /\ []OnePage => NotServedAfterClose
  <1> DEFINE Fair == \A id \in Ids :
          served'[id] # served[id] =>
              \/ channels[id].open
              \/ \E i \in DOMAIN log : /\ log[i].id = id /\ log[i].type = "closed"
                                       /\ log[i].ledger >= cursor
  <1>1. Ordered /\ [Next]_vars => [Fair]_vars
    <2> SUFFICES ASSUME Ordered, Step, NEW id \in Ids, served'[id] # served[id],
                        ~channels[id].open
                 PROVE  \E i \in DOMAIN log : /\ log[i].id = id /\ log[i].type = "closed"
                                              /\ log[i].ledger >= cursor
      BY DEF Step
    <2>1. PICK j \in Ids, c \in Cumulatives, s \in signed, p \in Prices : Accept(j, c, s, p)
      BY ServedWriters
    <2>2. j = id
      BY <2>1 DEF Accept
    <2>3. Cached(id) /\ cache[id].open
      BY <2>1, <2>2 DEF Accept, Admitted
    <2>4. id \in DOMAIN channels
      BY <2>3 DEF Ordered, Fits, RowFits, WasRead, Chain!Found, Cached
    <2>5. PICK i \in DOMAIN log : log[i].id = id /\ log[i].type = "closed"
      BY <2>4 DEF Ordered, LogInOrder
    <2>6. ~(log[i].ledger < cursor)
      <3> SUFFICES ASSUME log[i].ledger < cursor PROVE FALSE
        OBVIOUS
      <3>1. Shows(cache[id], log[i])
        BY <2>3, <2>5 DEF Ordered, SeenInOrder, PassedIsShown
      <3> QED BY <2>3, <2>5, <3>1 DEF Shows
    <2>7. log[i].ledger \in Int /\ cursor \in Int
      <3>1. log[i] \in Chain!Event /\ cursor \in 0..ledger /\ ledger \in Nat
        BY <2>5 DEF Ordered, Typed, ChainTyped, WatchTyped, Chain!TypeOK
      <3> QED BY <3>1 DEF Chain!Event
    <2> QED BY <2>5, <2>6, <2>7
  <1> QED
    <2> HIDE DEF Fair
    <2>1. [][Fair]_vars => NotServedAfterClose
      BY PTL DEF Fair, NotServedAfterClose
    <2> QED BY <1>1, <2>1, AlwaysOrdered, PTL DEF Spec
=============================================================================
