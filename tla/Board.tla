--------------------------------- MODULE Board ---------------------------------
(***************************************************************************)
(* What the live page of the console shows of the events (app.mandate):    *)
(* the lists the reducer makes of them (lib/store.ts), the steps of the    *)
(* example (Steps.tsx), its agent, which is polled too (lib/useFeed.ts),   *)
(* and the pages of the ledger (Timeline.tsx).  How events get there, and  *)
(* what a channel has, is in Console.                                      *)
(*                                                                         *)
(* An event has the time it was emitted at, in units of the time within    *)
(* which payments are put together; labels and wording are left out.       *)
(***************************************************************************)
EXTENDS Integers, Sequences, FiniteSets, FiniteSetsExt, SequencesExt

CONSTANTS
    BoardEvents,    \* what may be told, but for the times and the agent's
    Viewed,         \* accounts whose ledger is looked at
    NoTx,           \* null
    MAX_ROWS, MAX_REJECTIONS, MAX_CLAIMS, MAX_LOGS, MAX_TICKS,
    MAX_STREAMS,    \* six
    MaxBatch,       \* events within one flush
    MaxTold,        \* events
    MaxRuns,        \* of the agent
    MaxPages        \* pages of a ledger

ASSUME BoardAssumption ==
    {MAX_ROWS, MAX_REJECTIONS, MAX_CLAIMS, MAX_LOGS, MAX_TICKS, MAX_STREAMS,
     MaxBatch, MaxTold, MaxRuns, MaxPages} \subseteq Nat

VARIABLES
    board,      \* the reducer's state
    process,    \* AgentRunner: [run, running]
    outbox,     \* its events, not delivered
    inquiry     \* GET /demo/agent under way: what it answers, or NoTx

VARIABLES
    pages,      \* useLedger: [account, active, rows, cursor, status]
    loads       \* its load()s under way: [account, from], and a number

VARIABLES       \* ghosts
    told,       \* the events since the screen was cleared, in order
    sure,       \* the agent was read since it started, and nothing came late since
    alone       \* no two load()s overlapped since the first page was shown

boardVars == <<board, process, outbox, inquiry, told, sure>>
pageVars == <<pages, loads, alone>>
screenVars == <<boardVars, pageVars>>

-----------------------------------------------------------------------------
(* The reducer.                                                             *)

NoRun == 0

initialState ==
    [rows |-> <<>>, streams |-> <<>>, rejections |-> <<>>, claims |-> <<>>, swaps |-> 0, ticks |-> 0,
     since |-> <<>>, agent |-> [running |-> FALSE, run |-> NoRun], logs |-> <<>>,
     accepted |-> 0, rejected |-> 0, txs |-> 0, volume |-> 0, seconds |-> 0]

row(e) == [type |-> e.type, ch |-> e.ch, unit |-> e.unit, tx |-> e.tx, count |-> 1, amount |-> e.amount, ts |-> e.ts]

Shows(s, r) == [s EXCEPT !.rows = <<r>> \o @]

(* Mutant: whatever was paid for.                                           *)
Joins_any(top, e) == top.type = "accepted" /\ top.ch = e.ch /\ e.ts - top.ts < 1

(* A payment is put with the one shown last, if that was just before and for
   the same.                                                                *)
Joins(top, e) == top.type = "accepted" /\ top.ch = e.ch /\ top.unit = e.unit /\ e.ts - top.ts < 1

(* Every running stream of the channel and unit is taken to have earned it. *)
Accepts(s, e) ==
    LET paid == [s EXCEPT !.accepted = @ + 1, !.volume = @ + e.amount,
                          !.seconds = IF e.unit = "second" THEN @ + e.amount ELSE @,
                          !.since = Append(@, e.ch),
                          !.streams = [n \in DOMAIN @ |->
                              IF @[n].ch = e.ch /\ @[n].unit = e.unit /\ @[n].ended = NoTx
                              THEN [@[n] EXCEPT !.charged = @ + e.amount] ELSE @[n]]] IN
    IF s.rows # <<>> /\ Joins(Head(s.rows), e)
    THEN [paid EXCEPT !.rows[1] = [@ EXCEPT !.count = @ + 1, !.amount = @ + e.amount, !.ts = e.ts]]
    ELSE Shows(paid, row(e))

(* A claim may be told by the facilitator and by the watcher: shown once, with
   the vouchers of the one that knows them.                                 *)
Claims(s, e) ==
    IF \E n \in DOMAIN s.claims : s.claims[n].tx = e.tx
    THEN LET n == CHOOSE n \in DOMAIN s.claims : s.claims[n].tx = e.tx
             shown == {m \in DOMAIN s.rows : s.rows[m].type = "claimed" /\ s.rows[m].tx = e.tx} IN
         IF e.covered <= s.claims[n].covered THEN s
         ELSE [s EXCEPT !.claims[n].covered = e.covered,
                        !.rows = [m \in DOMAIN @ |->
                            IF shown # {} /\ m = Min(shown) THEN [@[m] EXCEPT !.count = e.covered] ELSE @[m]]]
    ELSE Shows([s EXCEPT !.txs = @ + 1, !.since = SelectSeq(@, LAMBDA c : c # e.ch),
                         !.claims = <<[tx |-> e.tx, ch |-> e.ch, covered |-> e.covered]>> \o @],
               [row(e) EXCEPT !.count = e.covered])

EndsStream(s, e) ==
    [s EXCEPT !.streams = [n \in DOMAIN @ |->
        IF @[n].stream = e.stream THEN [@[n] EXCEPT !.ended = e.why, !.charged = e.amount] ELSE @[n]]]

StartsStream(s, e) ==
    [s EXCEPT !.streams = Append(@, [stream |-> e.stream, ch |-> e.ch, unit |-> e.unit,
                                     charged |-> 0, ended |-> NoTx, started |-> e.ts])]

(* apply(): but for the channels.                                           *)
Applies(s, e) ==
    CASE e.type = "accepted" -> Accepts(s, e)
      [] e.type = "claimed"  -> Claims(s, e)
      [] e.type = "started"  -> Shows(StartsStream(s, e), row(e))
      [] e.type = "ended"    -> Shows(EndsStream(s, e), row(e))
      [] e.type = "swapped"  -> Shows([s EXCEPT !.txs = @ + 1, !.swaps = @ + 1], row(e))
      [] e.type = "chain"    -> Shows([s EXCEPT !.txs = @ + 1], row(e))
      [] e.type = "exact"    -> Shows([s EXCEPT !.txs = @ + 1, !.volume = @ + e.amount], row(e))
      [] e.type = "rejected" -> Shows([s EXCEPT !.rejections = <<e.why>> \o @,
                                                !.rejected = IF e.why = "chain" THEN @ ELSE @ + 1], row(e))
      [] e.type = "tick"     -> [s EXCEPT !.ticks = @ + 1]
      [] e.type = "log"      -> [s EXCEPT !.logs = Append(@, e.run),
                                          !.agent = IF @.running THEN @ ELSE [running |-> TRUE, run |-> e.run]]
      [] e.type = "exited"   -> Shows([s EXCEPT !.agent.running = FALSE], row(e))

First(seq, n) == SubSeq(seq, 1, IF Len(seq) < n THEN Len(seq) ELSE n)
LastOf(seq, n) == SubSeq(seq, IF Len(seq) > n THEN Len(seq) - n + 1 ELSE 1, Len(seq))
AtMost(x, n) == IF x < n THEN x ELSE n

(* The newest first, of the same time as they were.                         *)
ByStart(streams) ==
    LET times == SetToSortSeq({streams[n].started : n \in DOMAIN streams}, LAMBDA a, b : a > b) IN
    FlattenSeq([t \in DOMAIN times |-> SelectSeq(streams, LAMBDA st : st.started = times[t])])

pruneStreams(streams) == IF Len(streams) <= MAX_STREAMS THEN streams ELSE First(ByStart(streams), MAX_STREAMS)

(* events: one by one, and the lists are cut at the end.                    *)
Batched(s, batch) ==
    LET all == FoldLeft(Applies, s, batch) IN
    [all EXCEPT !.rows = First(@, MAX_ROWS), !.rejections = First(@, MAX_REJECTIONS),
                !.claims = First(@, MAX_CLAIMS), !.swaps = AtMost(@, MAX_CLAIMS),
                !.ticks = AtMost(@, MAX_TICKS), !.logs = LastOf(@, MAX_LOGS),
                !.streams = pruneStreams(@)]

-----------------------------------------------------------------------------
(* The page.                                                                *)

Now == IF told = <<>> THEN 1 ELSE Last(told).ts

(* A stream starts and ends once.                                           *)
MayFollow(before, e) ==
    /\ e.type = "started" => \A n \in DOMAIN before : before[n].type = "started" => before[n].stream # e.stream
    /\ e.type = "ended" =>
          /\ \A n \in DOMAIN before : before[n].type = "ended" => before[n].stream # e.stream
          /\ \E n \in DOMAIN before : before[n].type = "started" /\ before[n].stream = e.stream

Flushed(batch) ==
    /\ Len(told) + Len(batch) <= MaxTold
    /\ board' = Batched(board, batch)
    /\ told' = told \o batch

(* The buffer is flushed: events of a time, or one time apart.              *)
EventsShown ==
    /\ \E n \in 1..AtMost(MaxBatch, MaxTold - Len(told)) : \E es \in [1..n -> BoardEvents], later \in {0, 1} :
          LET batch == [i \in 1..n |-> [es[i] EXCEPT !.ts = Now + later]] IN
          /\ \A i \in 1..n : MayFollow(told \o SubSeq(batch, 1, i - 1), batch[i])
          /\ Flushed(batch)
    /\ UNCHANGED <<process, outbox, inquiry, sure, pageVars>>

(* The user clears the screen, or shows all again.                          *)
ScreenCleared ==
    /\ told # <<>>
    /\ board' = [initialState EXCEPT !.agent = board.agent]
    /\ told' = <<>>
    /\ UNCHANGED <<process, outbox, inquiry, sure, pageVars>>

-----------------------------------------------------------------------------
(* The agent of the example.                                                *)

AgentStarts ==
    /\ ~process.running /\ process.run < MaxRuns
    /\ process' = [run |-> process.run + 1, running |-> TRUE]
    /\ sure' = FALSE
    /\ UNCHANGED <<board, outbox, inquiry, told, pageVars>>

AgentEvent(type) == [type |-> type, run |-> process.run, ch |-> NoTx, unit |-> NoTx, tx |-> NoTx, amount |-> 0, ts |-> 0]

(* A line may still be read after the process has ended.                    *)
AgentWrites ==
    /\ process.run # NoRun /\ Len(outbox) < MaxBatch
    /\ outbox' = Append(outbox, AgentEvent("log"))
    /\ sure' = (sure /\ process.running)
    /\ UNCHANGED <<board, process, inquiry, told, pageVars>>

AgentEnds ==
    /\ process.running
    /\ process' = [process EXCEPT !.running = FALSE]
    /\ outbox' = Append(outbox, AgentEvent("exited"))
    /\ UNCHANGED <<board, inquiry, told, sure, pageVars>>

AgentShown ==
    /\ outbox # <<>>
    /\ Flushed([i \in DOMAIN outbox |-> [outbox[i] EXCEPT !.ts = Now]])
    /\ outbox' = <<>>
    /\ sure' = (sure /\ inquiry = NoTx /\ \A i \in DOMAIN outbox : outbox[i].run = process.run)
    /\ UNCHANGED <<process, inquiry, pageVars>>

AgentAsked ==
    /\ inquiry = NoTx
    /\ inquiry' = process
    /\ UNCHANGED <<board, process, outbox, told, sure, pageVars>>

(* The lines of the run before go when the poll is first to know of this one. *)
AgentRead ==
    /\ inquiry # NoTx
    /\ board' = [board EXCEPT !.agent = [running |-> inquiry.running, run |-> IF inquiry.running THEN inquiry.run ELSE NoRun],
                              !.logs = IF inquiry.running /\ inquiry.run # board.agent.run THEN <<>> ELSE @]
    /\ inquiry' = NoTx
    /\ sure' = (inquiry = process /\ outbox = <<>>)
    /\ UNCHANGED <<process, outbox, told, pageVars>>

-----------------------------------------------------------------------------
(* The ledger of the account that is looked at.                             *)

FirstPage == 0

NoMore == MaxPages

(* load(from): nothing gives it up.                                         *)
Loading(from) ==
    /\ Cardinality(loads) < 2
    /\ loads' = loads \cup {[account |-> pages'.account, from |-> from, no |-> IF \E l \in loads : l.no = 0 THEN 1 ELSE 0]}
    /\ alone' = (loads = {} /\ (from = FirstPage \/ alone))

(* Another account is looked at, or the tab is opened: the first page, if
   it is open then.                                                         *)
LedgerViewed(a, active) ==
    /\ <<a, active>> # <<pages.account, pages.active>>
    /\ pages' = [pages EXCEPT !.account = a, !.active = active, !.status = IF active THEN "loading" ELSE @]
    /\ IF active THEN Loading(FirstPage) ELSE UNCHANGED <<loads, alone>>
    /\ UNCHANGED boardVars

(* The buttons are off while a page is loading; the one for older pages is
   below those there are.                                                   *)
RefreshPressed ==
    /\ pages.active /\ pages.status # "loading"
    /\ pages' = [pages EXCEPT !.status = "loading"]
    /\ Loading(FirstPage)
    /\ UNCHANGED boardVars

MorePressed ==
    /\ pages.active /\ pages.status = "idle" /\ pages.cursor # NoMore
    /\ pages' = [pages EXCEPT !.status = "loading"]
    /\ Loading(pages.cursor)
    /\ UNCHANGED boardVars

(* The page comes: the first replaces what there is, another is put below.  *)
PageShown(l) ==
    /\ loads' = loads \ {l}
    /\ pages' = [pages EXCEPT !.rows = IF l.from = FirstPage THEN <<<<l.account, FirstPage>>>>
                                       ELSE Append(@, <<l.account, l.from>>),
                              !.cursor = l.from + 1, !.status = "idle"]
    /\ UNCHANGED <<alone, boardVars>>

PageFails(l) ==
    /\ loads' = loads \ {l}
    /\ pages' = [pages EXCEPT !.status = "error"]
    /\ UNCHANGED <<alone, boardVars>>

-----------------------------------------------------------------------------
(* The steps of the example that are done, of those told by these lists.    *)
Steps(s) ==
    LET seconds == {n \in DOMAIN s.streams : s.streams[n].unit = "second"} IN
    {st \in {"data", "trade", "reject", "cut", "claim"} :
        CASE st = "data"   -> seconds # {} \/ s.seconds > 0
          [] st = "trade"  -> s.swaps > 0
          [] st = "reject" -> Contains(s.rejections, "chain")
          [] st = "cut"    -> \/ Contains(s.rejections, "exhausted")
                              \/ \E n \in seconds : s.streams[n].ended = "exhausted"
          [] st = "claim"  -> s.claims # <<>>}

-----------------------------------------------------------------------------
PagesInit ==
    /\ pages \in [account : Viewed, active : {FALSE}, rows : {<<>>}, cursor : {NoMore}, status : {"idle"}]
    /\ loads = {} /\ alone = TRUE

BoardInit ==
    /\ board = initialState /\ told = <<>> /\ sure = TRUE
    /\ process = [run |-> NoRun, running |-> FALSE] /\ outbox = <<>> /\ inquiry = NoTx
    /\ PagesInit

EventStep == EventsShown \/ ScreenCleared

AgentStep == AgentStarts \/ AgentWrites \/ AgentEnds \/ AgentShown \/ AgentAsked \/ AgentRead

LedgerStep ==
    \/ \E a \in Viewed, active \in BOOLEAN : LedgerViewed(a, active)
    \/ RefreshPressed \/ MorePressed
    \/ \E l \in loads : PageShown(l) \/ PageFails(l)

BoardNext == EventStep \/ AgentStep \/ LedgerStep

BoardSpec == BoardInit /\ [][BoardNext]_screenVars

-----------------------------------------------------------------------------
(* Properties.  They are about what was told, however it came in batches.   *)

Told(type) == SelectSeq(told, LAMBDA e : e.type = type)

Sum(es) == FoldLeft(LAMBDA n, e : n + e.amount, 0, es)

(* Claims are shown once each, the last first, with the vouchers known of
   them, in their list and among the rows; and counted once (store.ts:318).
   (As far as the list goes: of one that fell off it nothing is known.)     *)
ClaimsOnce ==
    LET claimed == Told("claimed")
        txs == {claimed[n].tx : n \in DOMAIN claimed}
        FirstOf(tx) == Min({n \in DOMAIN claimed : claimed[n].tx = tx})
        covered(tx) == Max({claimed[n].covered : n \in {m \in DOMAIN claimed : claimed[m].tx = tx}}) IN
    Cardinality(txs) <= MAX_CLAIMS =>
        /\ {board.claims[n].tx : n \in DOMAIN board.claims} = txs /\ Len(board.claims) = Cardinality(txs)
        /\ \A n \in DOMAIN board.claims : board.claims[n].covered = covered(board.claims[n].tx)
        /\ \A m, n \in DOMAIN board.claims : m < n => FirstOf(board.claims[m].tx) > FirstOf(board.claims[n].tx)
        /\ \A n \in DOMAIN board.rows :
              board.rows[n].type = "claimed" => board.rows[n].count = covered(board.rows[n].tx)
        /\ board.txs = Cardinality(txs) + Len(Told("chain")) + Len(Told("exact")) + Len(Told("swapped"))

(* The rows tell the payments in their order, put together but never across
   channels, units or a pause, and none is lost while the list is not full. *)
PaymentsShown ==
    LET Of(r) == [n \in 1..r.count |-> <<r.ch, r.unit>>]
        rows == SelectSeq(Reverse(board.rows), LAMBDA r : r.type = "accepted")
        paid == Told("accepted") IN
    /\ board.accepted = Len(paid) /\ board.volume = Sum(paid) + Sum(Told("exact"))
    /\ Len(board.rows) < MAX_ROWS =>
          /\ FlattenSeq([n \in DOMAIN rows |-> Of(rows[n])]) = [n \in DOMAIN paid |-> <<paid[n].ch, paid[n].unit>>]
          /\ Sum(rows) = Sum(paid)

(* A stream is shown with what was paid on its channel for its unit since it
   began, until it ends; then with what it says itself.  None that is shown
   is older than one that is not.                                           *)
StreamsShown ==
    LET Begun(st) == CHOOSE n \in DOMAIN told : told[n].type = "started" /\ told[n].stream = st
        Ended(st) == {n \in DOMAIN told : told[n].type = "ended" /\ told[n].stream = st}
        earned(st) == Sum(SelectSeq(SubSeq(told, Begun(st), Len(told)),
                          LAMBDA e : e.type = "accepted" /\ e.ch = told[Begun(st)].ch /\ e.unit = told[Begun(st)].unit))
        shown == {board.streams[n].stream : n \in DOMAIN board.streams}
        started == {told[n].stream : n \in {m \in DOMAIN told : told[m].type = "started"}} IN
    /\ \A n \in DOMAIN board.streams :
          LET st == board.streams[n] IN
          st.charged = IF Ended(st.stream) = {} THEN earned(st.stream) ELSE told[Min(Ended(st.stream))].amount
    /\ Cardinality(shown) = AtMost(Cardinality(started), MAX_STREAMS)
    /\ \A st \in shown, other \in started \ shown : told[Begun(other)].ts <= told[Begun(st)].ts

(* Of each channel, the payments its last claim does not cover are counted. *)
SinceClaims ==
    LET claimed(ch) == {n \in DOMAIN told : /\ told[n].type = "claimed" /\ told[n].ch = ch
                                            /\ \A m \in 1..n-1 : told[m].type = "claimed" => told[m].tx # told[n].tx} IN
    Cardinality({told[n].tx : n \in {m \in DOMAIN told : told[m].type = "claimed"}}) <= MAX_CLAIMS =>
        \A ch \in {e.ch : e \in BoardEvents} :
            Len(SelectSeq(board.since, LAMBDA c : c = ch)) =
            Len(SelectSeq(SubSeq(told, Max({0} \cup claimed(ch)) + 1, Len(told)),
                          LAMBDA e : e.type = "accepted" /\ e.ch = ch))

(* The agent is shown to run while it does - once all it told is shown, and
   unless a line came after its end, an answer after what it was asked of, or
   the end of a run in the next: the reducer does not ask of which run it is. *)
AgentAgrees == sure /\ outbox = <<>> /\ inquiry = NoTx => board.agent.running = process.running

(* The pages shown are the first ones of the account, in order - as long as
   no two were loaded at once.                                              *)
PagesInOrder ==
    pages.active /\ pages.status = "idle" /\ alone =>
        pages.rows = [n \in 1..pages.cursor |-> <<pages.account, n - 1>>]

(* A step that is done stays done until the screen is cleared, unless the
   list that told of it is full.                                            *)
StepsStay ==
    told' # <<>> => \A st \in Steps(board) :
        \/ st \in Steps(board')
        \/ st \in {"reject", "cut"} /\ Len(board'.rejections) = MAX_REJECTIONS
        \/ st \in {"data", "cut"} /\ Len(board'.streams) = MAX_STREAMS

BoardIsTrue == ClaimsOnce /\ PaymentsShown /\ StreamsShown /\ SinceClaims /\ AgentAgrees /\ PagesInOrder
=============================================================================
