----------------------------- MODULE ChainReadings -----------------------------
(***************************************************************************)
(* What the backend knows of the chain without watching it: the price of a *)
(* DEX pool (price.service.ts), the summary of the credit pool             *)
(* (float.service.ts) and whether an account is frozen                     *)
(* (frozen.registry.ts), each kept for a while and read again when asked   *)
(* for; and the panel that freezes the demo account (controls.module.ts).  *)
(*                                                                         *)
(* The chain's state is a version number; an account is frozen in the odd  *)
(* ones.  Time passes in ticks, and an RPC call ends within Latency ticks, *)
(* with an answer or without.                                              *)
(***************************************************************************)
EXTENDS Integers, Sequences, FiniteSets

CONSTANTS
    Readers,        \* requests for the price or the pool
    REFRESH,        \* price.service.ts: REFRESH_MS
    STALE,          \* STALE_MS
    CACHE,          \* float.service.ts: CACHE_MS
    LEARN,          \* frozen.registry.ts: REFRESH_MS
    COOLDOWN,       \* controls.module.ts: FREEZE_COOLDOWN_MS
    Latency,        \* how long an RPC call takes at most
    MaxClock,       \* ticks explored
    MaxWorld,       \* changes of the chain explored
    Unknown

ASSUME ReadingsAssumption ==
    /\ {REFRESH, STALE, CACHE, LEARN, COOLDOWN, Latency} \subseteq Nat \ {0}
    /\ REFRESH < STALE /\ MaxClock \in Nat /\ MaxWorld \in Nat
    /\ Unknown \notin Nat
    /\ \A fields \in {{"reserves"}, {"account"}, {"summary", "lines"}} :
          Unknown \notin [since : Nat, got : [fields -> Nat \cup {Unknown}]]

VARIABLES
    clock, world,
    lasted,     \* ghost: when each version of the chain ended
    last,       \* PriceService.last: a quote
    fetching,   \* PriceService.inflight
    asking,     \* by reader: when it asked for the quote it waits for
    cache,      \* FloatService.cache
    loading,    \* FloatService.inflight: what its reads have got
    waiting,    \* by reader: when it asked for the summary it waits for
    state,      \* FrozenRegistry.state of the demo account
    refreshing, \* the reading of getAccount under way
    busy,       \* FrozenRegistry.loading
    freezes,    \* calls of chain.setFrozen in its queue
    lastFreeze, \* DemoControlsController.lastFreeze
    unread,     \* ghost: whether the registry's last reading failed
    ages        \* ghost: what was handed out in this step, how long out of date

worldVars == <<clock, world, lasted>>
priceVars == <<last, fetching, asking>>
summaryVars == <<cache, loading, waiting>>
registryVars == <<state, refreshing, busy, freezes, lastFreeze, unread>>
readingVars == <<worldVars, priceVars, summaryVars, registryVars, ages>>

(* How long ago a version stopped to be the chain's.                        *)
Age(version) == IF version = world THEN 0 ELSE clock - lasted[version]

Reading(fields) == [since |-> clock, got |-> [f \in fields |-> Unknown]]

Reads(r, f) == [r EXCEPT !.got[f] = world]

WhoWait(since) == {r \in Readers : since[r] # Unknown}

Released == [r \in Readers |-> Unknown]

Hands(what, failed, age) == [what |-> what, failed |-> failed, age |-> age]

-----------------------------------------------------------------------------
(* PriceService.quote.                                                      *)

Recent(quote) == quote # Unknown /\ clock - quote.at < REFRESH

QuoteAsked(r) ==
    /\ asking[r] = Unknown
    /\ IF Recent(last)
       THEN /\ ages' = {Hands("quote", FALSE, Age(last.version))}
            /\ UNCHANGED <<fetching, asking>>
       ELSE /\ fetching' = IF fetching = Unknown THEN Reading({"reserves"}) ELSE fetching
            /\ asking' = [asking EXCEPT ![r] = clock]
            /\ ages' = {}
    /\ UNCHANGED <<worldVars, last, summaryVars, registryVars>>

PairRead ==
    /\ fetching # Unknown /\ fetching.got.reserves = Unknown
    /\ fetching' = Reads(fetching, "reserves")
    /\ ages' = {}
    /\ UNCHANGED <<worldVars, last, asking, summaryVars, registryVars>>

(* All who wait share the answer.                                           *)
QuoteAnswered ==
    /\ fetching # Unknown /\ fetching.got.reserves # Unknown
    /\ last' = [version |-> fetching.got.reserves, at |-> clock]
    /\ fetching' = Unknown
    /\ asking' = Released
    /\ ages' = {Hands("quote", FALSE, Age(fetching.got.reserves)) : r \in WhoWait(asking)}
    /\ UNCHANGED <<worldVars, summaryVars, registryVars>>

(* Plausible bug: whatever there is will do.                                *)
StillGood_any(r) == last # Unknown

(* The age is taken at the time of the call, not at that of the failure.    *)
StillGood(r) == last # Unknown /\ asking[r] - last.at < STALE

QuoteFails ==
    /\ fetching # Unknown
    /\ fetching' = Unknown
    /\ asking' = Released
    /\ ages' = {Hands("quote", TRUE, Age(last.version)) : r \in {s \in WhoWait(asking) : StillGood(s)}}
    /\ UNCHANGED <<worldVars, last, summaryVars, registryVars>>

-----------------------------------------------------------------------------
(* FloatService.snapshot: the pool's values in parallel, then the lines of  *)
(* its accounts.                                                            *)

PoolFields == {"summary", "lines"}

SummaryAsked(r) ==
    /\ waiting[r] = Unknown
    /\ IF cache # Unknown /\ clock - cache.at < CACHE
       THEN /\ ages' = {Hands("pool", FALSE, Age(cache.got[f])) : f \in PoolFields}
            /\ UNCHANGED <<loading, waiting>>
       ELSE /\ loading' = IF loading = Unknown THEN Reading(PoolFields) ELSE loading
            /\ waiting' = [waiting EXCEPT ![r] = clock]
            /\ ages' = {}
    /\ UNCHANGED <<worldVars, priceVars, cache, registryVars>>

PoolRead(f) ==
    /\ loading # Unknown /\ loading.got[f] = Unknown
    /\ f = "lines" => loading.got.summary # Unknown
    /\ loading' = Reads(loading, f)
    /\ ages' = {}
    /\ UNCHANGED <<worldVars, priceVars, cache, waiting, registryVars>>

PoolLoaded ==
    /\ loading # Unknown /\ loading.got.lines # Unknown
    /\ cache' = [at |-> clock, got |-> loading.got]
    /\ loading' = Unknown
    /\ waiting' = Released
    /\ ages' = {Hands("pool", FALSE, Age(loading.got[f])) : f \in PoolFields}
    /\ UNCHANGED <<worldVars, priceVars, registryVars>>

(* One read fails: so does the load, for all who wait.                      *)
PoolFails ==
    /\ loading # Unknown
    /\ loading' = Unknown
    /\ waiting' = Released
    /\ ages' = {}
    /\ UNCHANGED <<worldVars, priceVars, cache, registryVars>>

-----------------------------------------------------------------------------
(* FrozenRegistry for each voucher.                                  *)

Frozen(version) == version % 2 = 1

StateOld == IF state = Unknown THEN TRUE ELSE clock - state.at > LEARN

IsFrozenAsked ==
    /\ IF StateOld /\ ~busy
       THEN busy' = TRUE /\ refreshing' = Reading({"account"})
       ELSE UNCHANGED <<busy, refreshing>>
    /\ ages' = IF state = Unknown THEN {}
               ELSE {Hands("frozen", unread, Age(state.version))}
    /\ UNCHANGED <<worldVars, priceVars, summaryVars, state, freezes, lastFreeze, unread>>

AccountRead ==
    /\ refreshing # Unknown /\ refreshing.got.account = Unknown
    /\ refreshing' = Reads(refreshing, "account")
    /\ ages' = {}
    /\ UNCHANGED <<worldVars, priceVars, summaryVars, state, busy, freezes, lastFreeze,
                   unread>>

(* set: whatever is there is overwritten, a newer value too.                *)
Learns(version, frozen) ==
    state' = [version |-> version, frozen |-> frozen, at |-> clock]

(* Where is_frozen alone cannot be read, getAccount says "not frozen".      *)
AccountAnswered ==
    /\ refreshing # Unknown /\ refreshing.got.account # Unknown
    /\ \E all \in BOOLEAN :
          /\ Learns(refreshing.got.account, all /\ Frozen(refreshing.got.account))
          /\ unread' = ~all
    /\ refreshing' = Unknown /\ busy' = FALSE
    /\ ages' = {}
    /\ UNCHANGED <<worldVars, priceVars, summaryVars, freezes, lastFreeze>>

AccountFails ==
    /\ refreshing # Unknown
    /\ refreshing' = Unknown /\ busy' = FALSE
    /\ unread' = TRUE
    /\ ages' = {}
    /\ UNCHANGED <<worldVars, priceVars, summaryVars, state, freezes, lastFreeze>>

(* POST /demo/owner/freeze: the cool-down counts from the request, so that
   another one waits although this one has not reached the chain.           *)
FreezeAsked(frozen) ==
    /\ lastFreeze # Unknown => clock >= lastFreeze + COOLDOWN
    /\ lastFreeze' = clock
    /\ freezes' = Append(freezes, [frozen |-> frozen, done |-> Unknown])
    /\ ages' = {}
    /\ UNCHANGED <<worldVars, priceVars, summaryVars, state, refreshing, busy,
                   unread>>

WorldMoves ==
    /\ world < MaxWorld
    /\ world' = world + 1
    /\ lasted' = [lasted EXCEPT ![world] = clock]

FreezeApplied ==
    /\ freezes # <<>> /\ Head(freezes).done = Unknown
    /\ IF Frozen(world) = Head(freezes).frozen THEN UNCHANGED <<world, lasted>> ELSE WorldMoves
    /\ freezes' = [freezes EXCEPT ![1].done = world']
    /\ ages' = {}
    /\ UNCHANGED <<clock, priceVars, summaryVars, state, refreshing, busy, lastFreeze,
                   unread>>

(* setFrozen returns: the registry is told, and then the dashboards.        *)
FreezeReturns ==
    /\ freezes # <<>> /\ Head(freezes).done # Unknown
    /\ Learns(Head(freezes).done, Head(freezes).frozen)
    /\ freezes' = Tail(freezes)
    /\ ages' = {}
    /\ UNCHANGED <<worldVars, priceVars, summaryVars, refreshing, busy, lastFreeze,
                   unread>>

(* It throws, whether or not the chain has applied it.                      *)
FreezeFails ==
    /\ freezes # <<>>
    /\ freezes' = Tail(freezes)
    /\ ages' = {}
    /\ UNCHANGED <<worldVars, priceVars, summaryVars, state, refreshing, busy, lastFreeze,
                   unread>>

-----------------------------------------------------------------------------
OthersMove ==
    /\ WorldMoves
    /\ ages' = {}
    /\ UNCHANGED <<clock, priceVars, summaryVars, registryVars>>

InTime(r) == r # Unknown => clock < r.since + Latency

(* The account keeps sending vouchers: the registry is asked in each tick.
   A freeze that is on the chain returns, or throws, in time too.           *)
ReadingTicks ==
    /\ clock < MaxClock
    /\ InTime(fetching) /\ InTime(loading) /\ InTime(refreshing)
    /\ StateOld => busy \/ unread \/ state = Unknown
    /\ freezes # <<>> => Head(freezes).done = Unknown
    /\ clock' = clock + 1
    /\ ages' = {}
    /\ UNCHANGED <<world, lasted, priceVars, summaryVars, state, refreshing, busy, freezes,
                   lastFreeze, unread>>

ReadingsInit ==
    /\ clock = 0 /\ world = 0 /\ lasted = [v \in 0..MaxWorld |-> 0]
    /\ last = Unknown /\ fetching = Unknown /\ asking = Released
    /\ cache = Unknown /\ loading = Unknown /\ waiting = Released
    /\ state = Unknown /\ refreshing = Unknown /\ busy = FALSE
    /\ freezes = <<>> /\ lastFreeze = Unknown
    /\ unread = FALSE
    /\ ages = {}

PriceNext == \E r \in Readers : QuoteAsked(r) \/ PairRead \/ QuoteAnswered \/ QuoteFails

PoolNext ==
    \/ \E r \in Readers : SummaryAsked(r)
    \/ \E f \in PoolFields : PoolRead(f)
    \/ PoolLoaded \/ PoolFails

RegistryNext ==
    \/ IsFrozenAsked \/ AccountRead \/ AccountAnswered \/ AccountFails
    \/ \E frozen \in BOOLEAN : FreezeAsked(frozen)
    \/ FreezeApplied \/ FreezeReturns \/ FreezeFails

ReadingsNext == PriceNext \/ PoolNext \/ RegistryNext \/ OthersMove \/ ReadingTicks

ReadingsSpec == ReadingsInit /\ [][ReadingsNext]_readingVars

-----------------------------------------------------------------------------
(* Properties.                                                              *)

(* What is handed out was so not long ago, however many ask and whatever
   fails: a quote within the refresh interval and a call's duration, or,
   when the pool cannot be read, within STALE_MS and two of them
   (price.service.ts:89); each value of the pool's summary within the cache
   time and a load's duration, although not all of one moment; and the
   registry's word on an account that keeps sending vouchers within the
   refresh interval and the duration of two readings - the one it is from
   and the one after it - as long as none fails in whole or in part; and no
   failure makes it call an account frozen that was not (stellar.chain.ts:216).
   Nobody waits for a reading that is not under way.                        *)
ReadingsAreFresh ==
    /\ \A h \in ages :
          /\ h.what = "quote" => \/ h.age <= REFRESH - 1 + Latency
                                 \/ h.failed /\ h.age <= STALE - 1 + 2 * Latency
          /\ h.what = "pool" => h.age <= CACHE - 1 + Latency
          /\ h.what = "frozen" => h.failed \/ h.age <= LEARN + 1 + 2 * Latency
    /\ state # Unknown => IF unread THEN state.frozen => Frozen(state.version)
                          ELSE state.frozen = Frozen(state.version)
    /\ busy <=> refreshing # Unknown
    /\ WhoWait(asking) # {} => fetching # Unknown
    /\ WhoWait(waiting) # {} => loading # Unknown
=============================================================================
