------------------------------- MODULE Receipts -------------------------------
(***************************************************************************)
(* The receipts (backend/src/audit/receipts.service.ts): signed in memory, *)
(* queued, written by flushes that do not wait for one another, read back  *)
(* by id, and completed once by the seller's hash of the response.  A body *)
(* is the number of the payment (which stands for channel, cumulative,     *)
(* resource and the rest, no two payments agree on them) and its ts.       *)
(***************************************************************************)
EXTENDS Integers, Sequences, SequencesExt

CONSTANTS
    MAX_PENDING,       \* receipts kept after a failed write (5000 in the code)
    ATTEST_WINDOW,     \* ticks of the clock (60 s in the code)
    Calls,             \* requests that may be in progress at a time
    Attesters,         \* those that may attest; the others only read
    Hashes,            \* values of responseHash
    MaxIssued,         \* bound: receipts signed
    MaxNow,            \* bound: ticks of the clock
    MaxFlights,        \* bound: writes in flight
    MaxAsked,          \* bound: requests
    MaxEnds,           \* bound: crashes and shutdowns
    MaxLostAnswers     \* bound: commits whose answer is lost

CONSTANTS NoHash, Timer, Hook   \* model values

ASSUME ReceiptsAssumption ==
    /\ MAX_PENDING \in Nat \ {0}
    /\ {ATTEST_WINDOW, MaxIssued, MaxNow, MaxFlights, MaxAsked, MaxEnds, MaxLostAnswers}
         \subseteq Nat
    /\ NoHash \notin Hashes /\ Attesters \subseteq Calls
    /\ Timer # Hook /\ Timer \notin Calls /\ Hook \notin Calls

VARIABLES
    service,    \* the process: "up", "stopping" in its shutdown hooks, "down"
    now,        \* Date.now(), the database's clock included
    issued,     \* receipts signed so far
    queue,      \* pending
    flights,    \* flush() calls at their await: who called, and the batch
    Receipt,    \* the table Receipt, from id to row
    calls,      \* get and attest requests
    asked, ends, lostAnswers

waitVars == <<queue, flights>>
limitVars == <<now, issued, asked, ends, lostAnswers>>
receiptVars == <<service, waitVars, Receipt, calls, limitVars>>

Bodies == [no : 1..MaxIssued, ts : 0..MaxNow]

(* sha256 of the canonical form: no two bodies share it. *)
receiptId(b) == <<"sha256", b.no, b.ts>>

Ids == {receiptId(b) : b \in Bodies}

Rows == [no : 1..MaxIssued, createdAt : 0..MaxNow, responseHash : Hashes \cup {NoHash}]

Idle == [pc |-> "idle", id |-> <<>>, hash |-> NoHash]

ReceiptsTypeOK ==
    /\ service \in {"up", "stopping", "down"}
    /\ now \in 0..MaxNow /\ issued \in 0..MaxIssued /\ asked \in 0..MaxAsked
    /\ ends \in 0..MaxEnds /\ lostAnswers \in 0..MaxLostAnswers
    /\ queue \in Seq(Bodies)
    /\ \A f \in flights : /\ f.by \in Calls \cup {Timer, Hook}
                          /\ f.rows \in Seq(Bodies) /\ f.rows # <<>>
    /\ DOMAIN Receipt \subseteq Ids
    /\ \A id \in DOMAIN Receipt : Receipt[id] \in Rows
    /\ calls \in [Calls -> {Idle} \cup [pc : {"flushing", "reading", "writing"}, id : Ids,
                                        hash : Hashes \cup {NoHash}]]

LatestOf(s, n) == IF Len(s) > n THEN SubSeq(s, Len(s) - n + 1, Len(s)) ELSE s

IdsOf(rows) == {receiptId(rows[i]) : i \in DOMAIN rows}

\* Mutants, see PROJECT.json.
PutBack_none(rows) == queue

Fresh_all(ids) == ids
-----------------------------------------------------------------------------
ReceiptsInit ==
    /\ service = "up"
    /\ queue = <<>> /\ flights = {} /\ Receipt = <<>>
    /\ calls = [c \in Calls |-> Idle]
    /\ now = 0 /\ issued = 0 /\ asked = 0 /\ ends = 0 /\ lostAnswers = 0

TimePasses ==
    /\ now < MaxNow
    /\ now' = now + 1
    /\ UNCHANGED <<service, waitVars, Receipt, calls, issued, asked, ends, lostAnswers>>

(* issue, called by verify for each accepted voucher. *)
issue ==
    /\ service = "up" /\ issued < MaxIssued
    /\ issued' = issued + 1
    /\ queue' = Append(queue, [no |-> issued', ts |-> now])
    /\ UNCHANGED <<service, flights, Receipt, calls, now, asked, ends, lostAnswers>>

(* flush() up to its await. *)
StartFlush(caller) ==
    IF queue = <<>>
    THEN UNCHANGED waitVars
    ELSE /\ Cardinality(flights) < MaxFlights
         /\ flights' = flights \cup {[by |-> caller, rows |-> queue]}
         /\ queue' = <<>>

TimerFlush ==
    /\ service = "up" /\ queue # <<>>
    /\ StartFlush(Timer)
    /\ UNCHANGED <<service, Receipt, calls, limitVars>>

(* createMany with skipDuplicates. *)
Fresh(ids) == ids \ DOMAIN Receipt

(* The row gets the database's own createdAt; the ts that was signed is not *)
(* among its columns.                                                       *)
Inserted(ids) ==
    [id \in DOMAIN Receipt \cup ids |->
        IF id \in Fresh(ids)
        THEN [no |-> id[2], createdAt |-> now, responseHash |-> NoHash]
        ELSE Receipt[id]]

PutBack(rows) == LatestOf(rows \o queue, MAX_PENDING)

(* The write ends: answered, refused or never reached the database, or      *)
(* committed with the answer lost.  Whoever awaits it goes on, a failure is *)
(* only logged.                                                             *)
FlightEnds(f, outcome) ==
    /\ service # "down" /\ f \in flights
    /\ flights' = flights \ {f}
    /\ Receipt' = IF outcome = "refused" THEN Receipt ELSE Inserted(IdsOf(f.rows))
    /\ queue' = IF outcome = "answered" THEN queue ELSE PutBack(f.rows)
    /\ calls' = [c \in Calls |-> IF c = f.by THEN [calls[c] EXCEPT !.pc = "reading"]
                                 ELSE calls[c]]
    /\ outcome = "unheard" => lostAnswers < MaxLostAnswers
    /\ lostAnswers' = IF outcome = "unheard" THEN lostAnswers + 1 ELSE lostAnswers
    /\ UNCHANGED <<service, now, issued, asked, ends>>

WriteEnds(outcome) == \E f \in flights : FlightEnds(f, outcome)

(* get(id), and attest(id, hash), which begins with get(id); hash is NoHash  *)
(* for a get.  Both begin with a flush.                                      *)
CallArrives(c) ==
    /\ service = "up" /\ calls[c].pc = "idle" /\ asked < MaxAsked
    /\ asked' = asked + 1
    /\ StartFlush(c)
    /\ \E id \in Ids, hash \in {NoHash} \cup (IF c \in Attesters THEN Hashes ELSE {}) :
         /\ id[2] =< issued
         /\ calls' = [calls EXCEPT
                ![c] = [pc |-> IF queue = <<>> THEN "reading" ELSE "flushing",
                        id |-> id, hash |-> hash]]
    /\ UNCHANGED <<service, Receipt, now, issued, ends, lostAnswers>>

(* attest: the checks on what get() returned.  The window is measured from   *)
(* createdAt, which get() returns as the ts.                                 *)
MayAttest(row) == row.responseHash = NoHash /\ now - row.createdAt =< ATTEST_WINDOW

(* findUnique answers: nothing, a receipt for a get, an attestation that is  *)
(* refused or there already, or one to write.                                *)
CallReads(c) ==
    /\ service # "down" /\ calls[c].pc = "reading"
    /\ LET id == calls[c].id
           attests == /\ calls[c].hash # NoHash
                      /\ id \in DOMAIN Receipt /\ MayAttest(Receipt[id])
       IN  calls' = [calls EXCEPT ![c] = IF attests THEN [@ EXCEPT !.pc = "writing"] ELSE Idle]
    /\ UNCHANGED <<service, waitVars, Receipt, limitVars>>

(* The UPDATE, which does not look at the row again. *)
CallWrites(c) ==
    /\ service # "down" /\ calls[c].pc = "writing"
    /\ Receipt' = [Receipt EXCEPT ![calls[c].id].responseHash = calls[c].hash]
    /\ calls' = [calls EXCEPT ![c] = Idle]
    /\ UNCHANGED <<service, waitVars, limitVars>>

(* The process ends; each write in flight reaches the table or does not. *)
ProcessEnds ==
    /\ \E landed \in SUBSET flights :
         Receipt' = Inserted(UNION {IdsOf(f.rows) : f \in landed})
    /\ service' = "down"
    /\ queue' = <<>> /\ flights' = {} /\ calls' = [c \in Calls |-> Idle]
    /\ UNCHANGED <<now, issued, asked, lostAnswers>>

ReceiptsCrash == service # "down" /\ ends < MaxEnds /\ ends' = ends + 1 /\ ProcessEnds

(* onApplicationShutdown up to its await: a flush of its own, whatever else *)
(* is in flight.                                                            *)
ReceiptsStop ==
    /\ service = "up" /\ ends < MaxEnds
    /\ service' = "stopping" /\ ends' = ends + 1
    /\ StartFlush(Hook)
    /\ UNCHANGED <<Receipt, calls, now, issued, asked, lostAnswers>>

ReceiptsExit ==
    /\ service = "stopping" /\ \A f \in flights : f.by # Hook
    /\ ProcessEnds
    /\ UNCHANGED ends

ReceiptsBoot ==
    /\ service = "down"
    /\ service' = "up"
    /\ UNCHANGED <<waitVars, Receipt, calls, limitVars>>

ReceiptsNext ==
    \/ issue \/ TimerFlush \/ TimePasses
    \/ \E outcome \in {"answered", "refused", "unheard"} : WriteEnds(outcome)
    \/ \E c \in Calls : CallArrives(c) \/ CallReads(c) \/ CallWrites(c)
    \/ ReceiptsCrash \/ ReceiptsStop \/ ReceiptsExit \/ ReceiptsBoot

ReceiptsSpec == ReceiptsInit /\ [][ReceiptsNext]_receiptVars
-----------------------------------------------------------------------------
Waiting == IdsOf(queue) \cup UNION {IdsOf(f.rows) : f \in flights}

(* What a seller committed to stays: not even a batch that is written again *)
(* after a lost answer takes the hash back (receipts.service.ts, attest and *)
(* skipDuplicates).  With two attestations in progress at once this fails.  *)
AttestedOnce ==
    [][\A id \in DOMAIN Receipt :
         Receipt[id].responseHash # NoHash =>
           id \in DOMAIN Receipt' /\ Receipt'[id].responseHash = Receipt[id].responseHash]_receiptVars

(* Every receipt signed reaches the table, also after a commit that went    *)
(* unheard, unless its process ends or it is dropped while the queue is     *)
(* full (receipts.service.ts, flush and its put-back).                      *)
ReceiptsAreWritten ==
    \A id \in Ids :
        id \in Waiting ~> \/ id \in DOMAIN Receipt
                          \/ service = "down"
                          \/ id \notin Waiting /\ Len(queue) = MAX_PENDING

(* The timer keeps firing, a restart comes, and a database that is asked    *)
(* again and again answers in the end.                                      *)
ReceiptsFairness ==
    /\ WF_receiptVars(TimerFlush) /\ SF_receiptVars(WriteEnds("answered"))
    /\ WF_receiptVars(ReceiptsExit) /\ WF_receiptVars(ReceiptsBoot)

(* A stored receipt as GET /receipts/:id returns it. *)
toReceipt(id) == [id |-> id, body |-> [no |-> Receipt[id].no, ts |-> Receipt[id].createdAt]]

(* ReceiptsService.verify: the id and the signature are over the body. *)
verify(receipt) == receipt.id = receiptId(receipt.body)

(* Every stored receipt verifies as the endpoints return it (receipt.ts;    *)
(* receipts.controller.ts, GET /receipts/:id/verify).                       *)
StoredReceiptsVerify == \A id \in DOMAIN Receipt : verify(toReceipt(id))
=============================================================================
