------------------------------ MODULE EventLedger ------------------------------
(***************************************************************************)
(* The event ledger (backend/src/audit/events.service.ts) with the         *)
(* counters kept from it (stats.service.ts): ids are given in the process, *)
(* the latest events are kept in memory, and batches are written to        *)
(* Postgres, one at a time.  An event is its id, its type and its ts; the  *)
(* ts is the number of the emission, so it tells two events with one id    *)
(* apart.                                                                  *)
(***************************************************************************)
EXTENDS Integers, Sequences, FiniteSets

CONSTANTS
    EventTypes,
    Accepted,      \* the type 'voucher.accepted', counted by the statistics
    Transient,     \* types emitted with meta.transient
    RECENT,        \* events kept in memory (200 in the code)
    MaxEmits,      \* bound: events emitted
    MaxStops,      \* bound: crashes and shutdowns
    MaxUnheard     \* bound: commits whose answer is lost

ASSUME LedgerAssumption ==
    /\ Accepted \in EventTypes \ Transient
    /\ Transient \subseteq EventTypes
    /\ RECENT \in Nat \ {0}
    /\ {MaxEmits, MaxStops, MaxUnheard} \subseteq Nat

VARIABLES
    state,      \* the process: "up", "stopping" in its shutdown hooks, "down"
    Event,      \* the table Event, in the order of the ids
    nextId,
    recent,
    pending,
    batch,      \* the rows of the createMany in flight (flushing), if any
    vouchersAccepted,  \* the counter of StatsService
    emitted,    \* emissions so far: the clock of ts
    stops, unheard,
    log         \* history: what the table should hold, the events emitted
                \* that are not transient and that no process took with it

memoryVars == <<nextId, recent, pending, vouchersAccepted>>
tableVars == <<Event, batch, log>>
countVars == <<emitted, stops, unheard>>
ledgerVars == <<state, tableVars, memoryVars, countVars>>

None == <<>>
Events == [id : Nat \ {0}, type : EventTypes, ts : Nat \ {0}]

Latest_over(s, n) == IF Len(s) > n + 1 THEN SubSeq(s, Len(s) - n, Len(s)) ELSE s

Latest(s, n) == IF Len(s) > n THEN SubSeq(s, Len(s) - n + 1, Len(s)) ELSE s

Running == state # "down"

LedgerTypeOK ==
    /\ state \in {"up", "stopping", "down"}
    /\ Event \in Seq(Events) /\ log \in Seq(Events)
    /\ recent \in Seq(Events) /\ Len(recent) =< RECENT
    /\ pending \in Seq(Events) /\ batch \in Seq(Events)
    /\ nextId \in Nat \ {0} /\ emitted \in 0..MaxEmits
    /\ stops \in 0..MaxStops /\ unheard \in 0..MaxUnheard
    /\ vouchersAccepted \in Nat

\* Mutants, see PROJECT.json.
Requeued_last == pending \o batch

Requeued_none == pending
-----------------------------------------------------------------------------
Counted(rows) == Cardinality({i \in DOMAIN rows : rows[i].type = Accepted})

Restored_recent == Counted(Latest(Event, RECENT))

(* What StatsService counts at its start. *)
Restored == Counted(Event)

LastId(rows) == IF rows = None THEN 0 ELSE rows[Len(rows)].id

LedgerInit ==
    /\ state = "up" /\ Event = None /\ log = None
    /\ nextId = 1 /\ recent = None /\ pending = None /\ batch = None
    /\ vouchersAccepted = 0
    /\ emitted = 0 /\ stops = 0 /\ unheard = 0

(* onModuleInit of both services. *)
LedgerBoots ==
    /\ state = "down"
    /\ state' = "up"
    /\ nextId' = LastId(Event) + 1
    /\ recent' = Latest(Event, RECENT)
    /\ vouchersAccepted' = Restored
    /\ UNCHANGED <<pending, tableVars, countVars>>

Remembered(e) == Latest(Append(recent, e), RECENT)

NewEvent(type) == [id |-> nextId, type |-> type, ts |-> emitted + 1]

(* emit; subscribers of stream$ (the statistics, the feed) see the event in *)
(* the same step.  A transient event takes an id and leaves no other trace. *)
(* What is under way when the process stops may still emit.                 *)
emit(type) ==
    /\ Running /\ emitted < MaxEmits
    /\ emitted' = emitted + 1
    /\ nextId' = nextId + 1
    /\ vouchersAccepted' = vouchersAccepted + (IF type = Accepted THEN 1 ELSE 0)
    /\ IF type \in Transient
       THEN UNCHANGED <<recent, pending, log>>
       ELSE /\ recent' = Remembered(NewEvent(type))
            /\ pending' = Append(pending, NewEvent(type))
            /\ log' = Append(log, NewEvent(type))
    /\ UNCHANGED <<state, Event, batch, stops, unheard>>

(* A flush starts nothing while another one is in flight. *)
FlushAllowed == batch = None /\ pending # None

flush == batch' = pending /\ pending' = None

LedgerTimer ==
    /\ state = "up" /\ FlushAllowed
    /\ flush
    /\ UNCHANGED <<state, Event, log, nextId, recent, vouchersAccepted, countVars>>

IsRow(e) == \E i \in DOMAIN Event : Event[i].id = e.id

(* createMany without skipDuplicates: one id that is there already, and it  *)
(* throws.                                                                  *)
Insertable == \A i \in DOMAIN batch : ~IsRow(batch[i])

Requeued == batch \o pending

(* How a write may end: answered, refused by the database or never reached  *)
(* it, or committed with the answer lost.                                   *)
Outcomes == {"answered", "refused", "unheard"}

LedgerWritten(outcome) ==
    /\ Running /\ batch # None
    /\ outcome # "refused" => Insertable
    /\ Event' = IF outcome = "refused" THEN Event ELSE Event \o batch
    /\ pending' = IF outcome = "answered" THEN pending ELSE Requeued
    /\ batch' = None
    /\ outcome = "unheard" => unheard < MaxUnheard
    /\ unheard' = IF outcome = "unheard" THEN unheard + 1 ELSE unheard
    /\ UNCHANGED <<state, log, nextId, recent, vouchersAccepted, emitted, stops>>

(* The process ends; a write in flight reaches the table or does not. *)
MemoryLost ==
    /\ Event' \in {Event} \cup {rows \in {Event \o batch} : Insertable}
    /\ log' = Event'
    /\ state' = "down"
    /\ nextId' = 1 /\ recent' = None /\ pending' = None /\ batch' = None
    /\ vouchersAccepted' = 0
    /\ UNCHANGED <<emitted, unheard>>

LedgerCrash == Running /\ stops < MaxStops /\ stops' = stops + 1 /\ MemoryLost

(* onApplicationShutdown up to its await: the timer is cleared, and the     *)
(* flush joins the one in flight, if there is one.                          *)
LedgerStops ==
    /\ state = "up" /\ stops < MaxStops
    /\ state' = "stopping" /\ stops' = stops + 1
    /\ IF FlushAllowed THEN flush ELSE UNCHANGED <<batch, pending>>
    /\ UNCHANGED <<Event, log, nextId, recent, vouchersAccepted, emitted, unheard>>

(* The await is over, and the process exits with whatever is queued. *)
LedgerExits ==
    /\ state = "stopping" /\ batch = None
    /\ MemoryLost
    /\ UNCHANGED stops
-----------------------------------------------------------------------------
Queue == batch \o pending

(* A batch came back although its rows are in the table: createMany will   *)
(* refuse it, and whatever is queued with it, until the next start.        *)
Wedged == \E i \in DOMAIN Queue : IsRow(Queue[i])

(* The table, the batch in flight and the queue are, in this order, the    *)
(* events emitted; what of the queue is in the table already comes first.  *)
(* Whatever fails, no event is skipped, written twice or written out of    *)
(* order (events.service.ts, flush and its put-back).                      *)
NothingSkipped ==
    \E k \in 0..Len(Queue) :
        /\ \A i \in DOMAIN Queue : IsRow(Queue[i]) <=> i =< k
        /\ log = Event \o SubSeq(Queue, k + 1, Len(Queue))

(* The counter of accepted vouchers, which starts from the rows and grows  *)
(* with the stream, is what the rows will say once all is written          *)
(* (stats.service.ts).                                                     *)
StatsAgree == Running => vouchersAccepted = Counted(log)

(* Table, queue and counters tell one story, whatever fails or restarts.    *)
LedgerIsWhole == NothingSkipped /\ StatsAgree

(* Every event that is not transient reaches the table unless its process   *)
(* ends, or a commit went unheard: then the batch is refused for ever       *)
(* (events.service.ts, flush).                                              *)
EventsAreWritten ==
    \A n \in 1..MaxEmits :
        Len(log) = n ~> (Len(Event) >= n \/ Len(log) < n \/ Wedged)

(* Timers keep firing, a restart comes, and a database that is asked again  *)
(* and again answers in the end.                                            *)
LedgerFairness ==
    /\ WF_ledgerVars(LedgerTimer) /\ SF_ledgerVars(LedgerWritten("answered"))
    /\ WF_ledgerVars(LedgerExits) /\ WF_ledgerVars(LedgerBoots)
=============================================================================
