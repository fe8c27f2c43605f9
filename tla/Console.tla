-------------------------------- MODULE Console --------------------------------
(***************************************************************************)
(* The console in the browser: useFeed.ts, which reads the event stream,   *)
(* /stats, /channels and /accounts, and store.ts, whose reducer makes of   *)
(* them what is shown.  Answers arrive in any order, or never; the user    *)
(* clears the screen, shows all again, looks at another account, reloads.  *)
(*                                                                         *)
(* One channel: those of a dashboard do not touch each other.  Of the      *)
(* counters, the payments; of an event, its amounts and its time.  The     *)
(* server's half is EventFeed and Facilitator, here reduced to a log with  *)
(* the state it tells of.                                                  *)
(***************************************************************************)
EXTENDS Integers, Sequences, FiniteSets, FiniteSetsExt, SequencesExt

CONSTANTS
    RECENT,         \* events a new connection replays (200)
    None,           \* null
    Addresses,      \* accounts to look at
    Deposits,       \* deposits, of opening and after a top-up
    MaxLog,         \* bound: events
    MaxReloads,     \* bound: reconnections and reloads
    MaxClears,      \* bound: uses of clear and of showAll
    MaxAsked        \* bound: requests of a kind under way

ASSUME ConsoleAssumption ==
    /\ RECENT \in Nat \ {0} /\ Addresses # {} /\ Deposits \subseteq Nat \ {0}
    /\ {MaxLog, MaxReloads, MaxClears, MaxAsked} \subseteq Nat

(* null is no channel and no cut.                                           *)
ASSUME NoneAssumption ==
    None \notin [deposit : Nat, accepted : Nat, claimed : Nat, open : BOOLEAN]
                \cup [ts : Nat, base : Nat]

VARIABLES
    server,     \* the channel as GET /channels/:id returns it
    log         \* the events emitted

VARIABLES
    pos,        \* events the connection has delivered
    seen,       \* the ids in seen.current
    buffer,     \* buffer.current
    cut,        \* the cut of "clear": a time and the payments up to then
    requested,  \* whether requested.current has the channel
    view,       \* state.channels[id]
    local,      \* state.local.vouchersAccepted
    lastTs,     \* state.lastEventAt, kept over a reset
    stats,      \* the last answer of /stats applied, with local at that time
    requests,   \* GET /channels and /channels/:id under way
    polls,      \* GET /stats under way: of pollStats, of clear
    turns       \* reconnections and reloads, and clears, so far

VARIABLES       \* ghosts
    far,        \* the furthest event delivered since the page or epoch began
    upto,       \* the event up to which the last snapshot applied holds
    missed,     \* the last event the view may be without otherwise
    even        \* the last /stats applied counted what had been flushed

VARIABLES
    watched,    \* accountOverride, with the epoch: what the effect depends on
    account,    \* state.account: its address
    accountRead,
    reads       \* GET /accounts/:addr under way

feedVars == <<pos, seen, buffer, cut, requested, view, local, lastTs, stats, requests,
              polls, turns, far, upto, missed, even>>
accountVars == <<watched, account, accountRead, reads>>
consoleVars == <<server, log, feedVars, accountVars>>

-----------------------------------------------------------------------------
(* The server.                                                              *)

Time == IF log = <<>> THEN 1 ELSE Last(log).ts

(* Events are as many as MaxLog; two may carry the same millisecond.        *)
Emits(type, amount, state) ==
    /\ Len(log) < MaxLog
    /\ \E ts \in {Time, Time + 1} :
          log' = Append(log, [type |-> type, amount |-> amount, ts |-> ts])
    /\ server' = state
    /\ UNCHANGED <<feedVars, accountVars>>

ServerOpens ==
    /\ server = None
    /\ \E d \in Deposits :
          Emits("opened", d, [deposit |-> d, accepted |-> 0, claimed |-> 0, open |-> TRUE])

ServerTopsUp ==
    /\ server # None /\ server.open
    /\ \E d \in Deposits : d > server.deposit /\ Emits("topped_up", d, [server EXCEPT !.deposit = d])

ServerAccepts ==
    /\ server # None /\ server.open /\ server.accepted < server.deposit
    /\ Emits("accepted", server.accepted + 1, [server EXCEPT !.accepted = @ + 1])

ServerClaims ==
    /\ server # None /\ server.open /\ server.claimed < server.accepted
    /\ Emits("claimed", server.accepted - server.claimed,
             [server EXCEPT !.claimed = server.accepted])

ServerCloses ==
    /\ server # None /\ server.open
    /\ Emits("closed", 0, [server EXCEPT !.open = FALSE])

Payments(n) == Cardinality({i \in 1..n : log[i].type = "accepted"})

-----------------------------------------------------------------------------
(* The reducer.                                                             *)

emptyChannel == [deposit |-> 0, accepted |-> 0, claimed |-> 0, open |-> TRUE]

Known(ch) == IF ch = None THEN emptyChannel ELSE ch

Max2(a, b) == IF a > b THEN a ELSE b
Min2(a, b) == IF a < b THEN a ELSE b

(* What is claimed is not more than what was accepted, if that is known.    *)
ClaimedOf(ch, amount) ==
    IF ch.accepted > 0 THEN Min2(ch.claimed + amount, ch.accepted) ELSE ch.claimed + amount

apply(ch, e) ==
    CASE e.type = "opened"    -> [Known(ch) EXCEPT !.deposit = e.amount, !.open = TRUE]
      [] e.type = "topped_up" -> [Known(ch) EXCEPT !.deposit = e.amount]
      [] e.type = "accepted"  -> [Known(ch) EXCEPT !.accepted = Max2(@, e.amount)]
      [] e.type = "claimed"   -> [Known(ch) EXCEPT !.claimed = ClaimedOf(Known(ch), e.amount)]
      [] e.type = "closed"    -> [Known(ch) EXCEPT !.open = FALSE]

(* channel.snapshot: all is as the server says, but accepted never falls.   *)
Snapshot(ch, c) == [c EXCEPT !.accepted = Max2(@, Known(ch).accepted)]

-----------------------------------------------------------------------------
(* useFeed: the stream.                                                     *)

(* Ghosts: what is shown may be without event n; only a later answer than
   those applied makes up for it.                                           *)
Misses(n) == upto' = 0 /\ missed' = Max({missed, upto, n})

NothingMissed == UNCHANGED <<upto, missed>>

(* push: an event arrives.  What is seen, or not after the cut, is dropped. *)
Pushes ==
    LET i == pos + 1
        hidden == cut # None /\ log[i].ts <= cut.ts IN
    /\ pos < Len(log)
    /\ pos' = i /\ far' = Max2(far, i)
    /\ IF i \in seen \/ hidden
       THEN /\ UNCHANGED <<seen, buffer>>
            /\ IF i <= far THEN NothingMissed /\ UNCHANGED even ELSE Misses(i) /\ even' = FALSE
       ELSE /\ seen' = seen \cup {i}
            /\ buffer' = Append(buffer, i)
            /\ NothingMissed /\ UNCHANGED even
    /\ UNCHANGED <<server, log, cut, requested, view, local, lastTs, stats, requests,
                   polls, turns, accountVars>>

(* Mutant: only a first sight asks for the channel.                         *)
Refreshes_first(i) == ~requested /\ log[i].type # "opened"

(* The events after which the channel is read from the server.              *)
Refreshes(i) ==
    \/ ~requested /\ log[i].type # "opened" /\ i = Head(buffer)
    \/ log[i].type \in {"claimed", "closed", "topped_up"}

Batch == [n \in DOMAIN buffer |-> log[buffer[n]]]

(* The timer: the buffer goes to the reducer as one batch, with at most one
   request for the channel.                                                 *)
Flushes ==
    /\ buffer # <<>>
    /\ view' = FoldLeft(apply, view, Batch)
    /\ local' = local + Cardinality({n \in DOMAIN buffer : Batch[n].type = "accepted"})
    /\ lastTs' = Last(Batch).ts
    /\ requested' = TRUE
    /\ IF \E n \in DOMAIN buffer : Refreshes(buffer[n])
       THEN requests' = requests \cup {[kind |-> "refresh", asked |-> far, answer |-> None]}
       ELSE UNCHANGED requests
    /\ buffer' = <<>>
    /\ IF Head(buffer) < missed THEN Misses(missed) ELSE NothingMissed
    /\ UNCHANGED <<server, log, pos, seen, cut, stats, polls, turns, even, far, accountVars>>

Asked(kind) == {r \in requests : r.kind = kind}

(* A new connection, or page: the last RECENT events are delivered first.   *)
Replay == Max2(0, Len(log) - RECENT)

(* The EventSource reconnects by itself.                                    *)
Reconnects ==
    /\ turns.reloads < MaxReloads
    /\ turns' = [turns EXCEPT !.reloads = @ + 1]
    /\ pos' = Replay /\ far' = Max2(far, Replay)
    /\ IF Replay > far THEN Misses(Replay) /\ even' = FALSE ELSE NothingMissed /\ UNCHANGED even
    /\ UNCHANGED <<server, log, seen, buffer, cut, requested, view, local, lastTs, stats,
                   requests, polls, accountVars>>

-----------------------------------------------------------------------------
(* useFeed: requests.  The server answers with what it has, at any time.    *)

RequestAnswered(r) ==
    /\ r.answer = None /\ server # None
    /\ requests' = (requests \ {r}) \cup
                   {[r EXCEPT !.answer = [state |-> server, at |-> Len(log)]]}
    /\ UNCHANGED <<server, log, pos, seen, buffer, cut, requested, view, local, lastTs,
                   stats, polls, turns, upto, missed, even, far, accountVars>>

(* The answer is applied: of GET /channels/:id always, of the list unless the
   screen was cleared and the channel is closed.                            *)
AnswerApplied(r) ==
    /\ r.answer # None
    /\ requests' = requests \ {r}
    /\ IF r.kind = "list" /\ cut # None /\ ~r.answer.state.open
       THEN UNCHANGED <<requested, view, upto, missed>>
       ELSE /\ view' = Snapshot(view, r.answer.state)
            /\ requested' = IF r.kind = "list" THEN TRUE ELSE requested
            /\ upto' = r.answer.at
            /\ missed' = Max2(missed, upto)
    /\ UNCHANGED <<server, log, pos, seen, buffer, cut, local, lastTs, stats, polls,
                   turns, even, far, accountVars>>

(* getJson returns null: nothing asks again.                                *)
RequestLost(r) ==
    /\ requests' = requests \ {r}
    /\ Misses(r.asked)
    /\ UNCHANGED <<server, log, pos, seen, buffer, cut, requested, view, local, lastTs,
                   stats, polls, turns, even, far, accountVars>>

(* pollStats, every two seconds, and clear() ask for /stats.                *)
StatsAsked(by) ==
    /\ Cardinality({p \in polls : p.by = by}) < MaxAsked
    /\ by = "clear" => turns.clears < MaxClears
    /\ turns' = IF by = "clear" THEN [turns EXCEPT !.clears = @ + 1] ELSE turns
    /\ polls' = polls \cup {[by |-> by, answer |-> None]}
    /\ UNCHANGED <<server, log, pos, seen, buffer, cut, requested, view, local, lastTs,
                   stats, requests, upto, missed, even, far, accountVars>>

StatsAnswered(p) ==
    /\ p.answer = None
    /\ polls' = (polls \ {p}) \cup
                {[p EXCEPT !.answer = [payments |-> Payments(Len(log)), at |-> Len(log)]]}
    /\ UNCHANGED <<server, log, pos, seen, buffer, cut, requested, view, local, lastTs,
                   stats, requests, turns, upto, missed, even, far, accountVars>>

StatsLost(p) ==
    /\ polls' = polls \ {p}
    /\ UNCHANGED <<server, log, pos, seen, buffer, cut, requested, view, local, lastTs,
                   stats, requests, turns, upto, missed, even, far, accountVars>>

(* setStats({ data, at: localRef.current })                                 *)
StatsApplied(p) ==
    /\ p.by = "poll" /\ p.answer # None
    /\ polls' = polls \ {p}
    /\ stats' = [data |-> p.answer.payments, at |-> local]
    /\ even' = /\ p.answer.at = far /\ buffer = <<>>
               /\ cut # None => p.answer.payments >= cut.base
    /\ UNCHANGED <<server, log, pos, seen, buffer, cut, requested, view, local, lastTs,
                   requests, turns, upto, missed, far, accountVars>>

-----------------------------------------------------------------------------
(* The user.                                                                *)

(* Mutant: the counter of the stream goes on.                               *)
Reset_keeps(n) == n

(* The reducer's reset of local.                                            *)
Reset(n) == 0

(* clear() has its base: the cut is at the last event flushed (at the clock,
   if none was), and what is in the buffer is dropped.                      *)
Clears(p) ==
    /\ p.by = "clear" /\ p.answer # None
    /\ polls' = polls \ {p}
    /\ cut' = [ts |-> IF lastTs = 0 THEN Time ELSE lastTs, base |-> p.answer.payments]
    /\ buffer' = <<>> /\ requested' = FALSE /\ view' = None
    /\ local' = Reset(local)
    /\ stats' = [data |-> p.answer.payments, at |-> 0]
    /\ Misses(far)
    /\ even' = (p.answer.at = far)
    /\ UNCHANGED <<server, log, pos, seen, lastTs, requests, turns, far, accountVars>>

(* A fresh start of the stream and the requests; those of GET /channels/:id
   are not aborted by a new epoch.                                          *)
StartsOver(kept) ==
    /\ pos' = Replay /\ far' = Replay /\ seen' = {} /\ buffer' = <<>>
    /\ requested' = FALSE /\ view' = None /\ local' = 0 /\ stats' = None
    /\ requests' = kept \cup {[kind |-> "list", asked |-> Replay, answer |-> None]}
    /\ upto' = 0 /\ missed' = Replay /\ even' = FALSE
    /\ UNCHANGED <<server, log>>

ShowsAll ==
    /\ turns.clears < MaxClears
    /\ turns' = [turns EXCEPT !.clears = @ + 1]
    /\ cut' = None
    /\ StartsOver(Asked("refresh"))
    /\ polls' = {p \in polls : p.by = "clear"}
    /\ UNCHANGED <<lastTs, accountVars>>

(* The cut is in sessionStorage and survives.                               *)
Reloads ==
    /\ turns.reloads < MaxReloads
    /\ turns' = [turns EXCEPT !.reloads = @ + 1]
    /\ StartsOver({})
    /\ polls' = {}
    /\ lastTs' = 0
    /\ UNCHANGED <<cut, accountVars>>

-----------------------------------------------------------------------------
(* The account looked at.  An effect depends on it and on the epoch: when
   they change, what it had under way is aborted.                           *)

(* Looks at another account, or at the same one after "show all".           *)
Looks(addr) ==
    /\ watched.epoch < MaxReloads
    /\ watched' = [epoch |-> watched.epoch + 1, addr |-> addr]
    /\ account' = None
    /\ UNCHANGED <<accountRead, reads, server, log, feedVars>>

(* pollAccount, every three seconds.                                        *)
AccountAsked ==
    /\ Cardinality({r \in reads : r.key = watched}) < MaxAsked
    /\ reads' = reads \cup {[key |-> watched, at |-> "asked"]}
    /\ UNCHANGED <<watched, account, accountRead, server, log, feedVars>>

Stopped(r) == r.key # watched

ReadEnds(r, acc, read) ==
    /\ reads' = reads \ {r}
    /\ account' = acc /\ accountRead' = read
    /\ UNCHANGED <<watched, server, log, feedVars>>

Status(r, status) == [key |-> r.key, status |-> status]

(* A passing failure does not make a found account unreadable.              *)
Failure(r) ==
    IF accountRead = Status(r, "found") THEN accountRead ELSE Status(r, "error")

(* The headers arrive; `if (stopped) return`.                               *)
ReadStopped(r) == r.at = "asked" /\ Stopped(r) /\ ReadEnds(r, account, accountRead)

(* 404, or a body that says found: false.                                   *)
AccountMissing(r) == ~Stopped(r) /\ ReadEnds(r, None, Status(r, "missing"))

ReadFails(r) == r.at = "asked" /\ ~Stopped(r) /\ ReadEnds(r, account, Failure(r))

HeadersArrive(r) ==
    /\ r.at = "asked" /\ ~Stopped(r)
    /\ reads' = (reads \ {r}) \cup {[r EXCEPT !.at = "body"]}
    /\ UNCHANGED <<watched, account, accountRead, server, log, feedVars>>

(* Mutant: the body of an aborted request is still read.                    *)
BodyArrives_anyway(r) ==
    r.at = "body" /\ ReadEnds(r, r.key.addr, Status(r, "found"))

(* The body, which is not looked at `stopped` again.                        *)
BodyArrives(r) ==
    r.at = "body" /\ ~Stopped(r) /\ ReadEnds(r, r.key.addr, Status(r, "found"))

(* The body breaks off, or its request was aborted: null.                   *)
BodyBreaks(r) == r.at = "body" /\ ReadEnds(r, account, Failure(r))

-----------------------------------------------------------------------------
ConsoleInit ==
    /\ server = None /\ log = <<>>
    /\ pos = 0 /\ seen = {} /\ buffer = <<>> /\ cut = None
    /\ requested = FALSE /\ view = None /\ local = 0 /\ lastTs = 0 /\ stats = None
    /\ requests = {[kind |-> "list", asked |-> 0, answer |-> None]}
    /\ polls = {} /\ turns = [reloads |-> 0, clears |-> 0]
    /\ far = 0 /\ upto = 0 /\ missed = 0 /\ even = FALSE
    /\ watched \in [epoch : {0}, addr : Addresses]
    /\ account = None /\ accountRead = [key |-> None, status |-> "loading"]
    /\ reads = {}

FeedNext ==
    \/ ServerOpens \/ ServerTopsUp \/ ServerAccepts \/ ServerClaims \/ ServerCloses
    \/ Pushes \/ Flushes \/ Reconnects \/ Reloads \/ ShowsAll
    \/ \E r \in requests : RequestAnswered(r) \/ AnswerApplied(r) \/ RequestLost(r)
    \/ \E by \in {"poll", "clear"} : StatsAsked(by)
    \/ \E p \in polls : StatsAnswered(p) \/ StatsApplied(p) \/ StatsLost(p) \/ Clears(p)

AccountNext ==
    \/ \E addr \in Addresses : Looks(addr)
    \/ AccountAsked
    \/ \E r \in reads : \/ ReadStopped(r) \/ AccountMissing(r) \/ ReadFails(r)
                        \/ HeadersArrive(r) \/ BodyArrives(r) \/ BodyBreaks(r)

ConsoleNext == FeedNext \/ AccountNext

ConsoleSpec == ConsoleInit /\ [][ConsoleNext]_consoleVars

-----------------------------------------------------------------------------
(* Properties.                                                              *)

ConsoleTypeOK ==
    /\ pos \in 0..Len(log) /\ seen \subseteq 1..Len(log)
    /\ \A n \in DOMAIN buffer : buffer[n] \in seen
    /\ view # None => view.claimed \in Nat /\ view.accepted \in 0..Payments(Len(log))
    /\ stats # None => stats.data \in 0..Payments(Len(log))
    /\ local \in 0..Payments(Len(log))
    /\ upto \in 0..Len(log) /\ missed \in 0..Len(log)

Quiet == pos = Len(log) /\ buffer = <<>> /\ requests = {}

(* When all is delivered, what the console shows of a channel is what the
   server has, whatever was replayed, cleared and shown again, and though an
   event tells but a difference - provided no answer was lost or overtaken by
   an older one, and no event skipped, since the last answer (useFeed.ts:173:
   the true state is read after every event that changes it on chain).      *)
ViewAgrees == Quiet /\ view # None /\ upto >= missed => view = server

Total == Max2(0, stats.data - (IF cut = None THEN 0 ELSE cut.base)) + Max2(0, local - stats.at)

(* Between two polls the counter goes on from the stream: with an answer that
   counted what had been flushed, /stats and the stream add up to the
   payments flushed so far, less those before the cut - in every state after
   it, until the stream skips an event (useFeed.ts:361).                    *)
CountersAreRight ==
    stats # None /\ even /\ buffer = <<>> =>
        Total = Payments(far) - (IF cut = None THEN 0 ELSE cut.base)

(* The account shown is the one looked at, and so is its status, however the
   answers of the one before come in.                                       *)
AccountIsChosen ==
    /\ account \in {None, watched.addr}
    /\ accountRead = [key |-> watched, status |-> "found"] => account = watched.addr
    /\ accountRead = [key |-> watched, status |-> "missing"] => account = None

(* Nothing on the screen belongs to another time or another account, and the
   counters count what it shows.                                            *)
ShownIsTrue == ViewAgrees /\ CountersAreRight /\ AccountIsChosen
=============================================================================
