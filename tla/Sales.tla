--------------------------------- MODULE Sales ---------------------------------
(***************************************************************************)
(* What a seller can read of his sales: the revenue report                 *)
(* (sellers/revenue.service.ts), made of the events in the database and of *)
(* the live channels, and the catalogue of resources                       *)
(* (discovery/catalog.service.ts), to which every payment verified at      *)
(* POST /verify is written without being waited for.                       *)
(*                                                                         *)
(* Each seller has one channel, and all ask the same price, 1, for a       *)
(* resource they list under one address.  The event ledger is reduced to   *)
(* its queue, its one write in flight and its table.                       *)
(***************************************************************************)
EXTENDS Integers, Sequences, FiniteSets, FiniteSetsExt, SequencesExt

CONSTANTS
    Sellers,        \* payTo addresses
    Reporter,       \* the one who asks for reports
    MaxPayments,    \* payments explored, of all
    MaxClaims,      \* claims explored
    MaxAgain,       \* claims announced a second time after a restart
    MaxFailures,    \* writes refused by the database
    NoPayTo

ASSUME SalesAssumption ==
    /\ Reporter \in Sellers /\ NoPayTo \notin Sellers
    /\ {MaxPayments, MaxClaims, MaxAgain, MaxFailures} \subseteq Nat

VARIABLES
    lastAccepted, claimed,  \* ChannelStore: by seller
    queued,     \* events not written
    inFlight,   \* those of the createMany in flight
    rows,       \* the table Event
    writes,     \* record() calls whose statement has not run: payment, seller
    resource,   \* the row of the address: payTo, payments
    report,     \* the report under way, as far as it is known
    failures    \* so far

VARIABLES       \* ghosts
    unlisted,   \* by seller: record() calls that failed
    wanted       \* when the report was asked for: the totals, and what was queued

ledgerPart == <<queued, inFlight, rows>>
salesVars == <<lastAccepted, claimed, ledgerPart, writes, resource, report, failures,
               unlisted, wanted>>

ClaimType == "channel.claimed"
AcceptedType == "voucher.accepted"

TotalAccepted == FoldFunction(+, 0, lastAccepted)

Claims == {e.tx : e \in {f \in ToSet(rows \o inFlight \o queued) : f.type = ClaimType}}

NoReport == [at |-> "none", earned |-> 0, settled |-> 0, receivable |-> 0]

-----------------------------------------------------------------------------
(* Payments, as POST /verify handles them.                                  *)

Pays(s) ==
    /\ TotalAccepted < MaxPayments
    /\ lastAccepted' = [lastAccepted EXCEPT ![s] = @ + 1]
    /\ queued' = Append(queued, [type |-> AcceptedType, payTo |-> s, amount |-> 1, tx |-> 0])
    /\ writes' = writes \cup {[n |-> lastAccepted[s] + 1, payTo |-> s]}
    /\ UNCHANGED <<claimed, inFlight, rows, resource, report, failures, unlisted, wanted>>

(* A claim pays out all that was accepted.                                  *)
ClaimPaid(s) ==
    /\ claimed[s] < lastAccepted[s] /\ Cardinality(Claims) < MaxClaims
    /\ claimed' = [claimed EXCEPT ![s] = lastAccepted[s]]
    /\ queued' = Append(queued, [type |-> ClaimType, payTo |-> s, tx |-> Cardinality(Claims) + 1,
                                 amount |-> lastAccepted[s] - claimed[s]])
    /\ UNCHANGED <<lastAccepted, inFlight, rows, writes, resource, report, failures, unlisted,
                   wanted>>

(* The watcher sees a claim of the last ledger again.                       *)
ClaimedAgain(e) ==
    /\ e.type = ClaimType
    /\ Cardinality({i \in DOMAIN (rows \o inFlight \o queued) :
                       (rows \o inFlight \o queued)[i].type = ClaimType})
         < Cardinality(Claims) + MaxAgain
    /\ queued' = Append(queued, e)
    /\ UNCHANGED <<lastAccepted, claimed, inFlight, rows, writes, resource, report, failures,
                   unlisted, wanted>>

-----------------------------------------------------------------------------
(* The event ledger.                                                        *)

EventsFlushed ==
    /\ inFlight = <<>> /\ queued # <<>>
    /\ inFlight' = queued /\ queued' = <<>>
    /\ UNCHANGED <<lastAccepted, claimed, rows, writes, resource, report, failures, unlisted,
                   wanted>>

(* Who waits for this write goes on, whether it succeeded or not.           *)
GoesOn == report' = IF report.at = "flushing" THEN [report EXCEPT !.at = "reading"] ELSE report

EventsWritten ==
    /\ inFlight # <<>>
    /\ rows' = rows \o inFlight /\ inFlight' = <<>>
    /\ GoesOn
    /\ UNCHANGED <<lastAccepted, claimed, queued, writes, resource, failures, unlisted, wanted>>

EventsRefused ==
    /\ inFlight # <<>> /\ failures < MaxFailures
    /\ failures' = failures + 1
    /\ queued' = inFlight \o queued /\ inFlight' = <<>>
    /\ wanted' = [wanted EXCEPT !.whole = FALSE]
    /\ GoesOn
    /\ UNCHANGED <<lastAccepted, claimed, rows, writes, resource, unlisted>>

-----------------------------------------------------------------------------
(* CatalogService.record, one statement.                                    *)

(* Mutant: the last to be paid has the address.                             *)
Upsert_last(row, s) == [payTo |-> s, payments |-> row.payments + 1]

(* INSERT ... ON CONFLICT DO UPDATE ... WHERE payTo is the same.            *)
Upsert(row, s) ==
    IF row.payTo \in {NoPayTo, s} THEN [payTo |-> s, payments |-> row.payments + 1] ELSE row

Recorded(w) ==
    /\ writes' = writes \ {w}
    /\ resource' = Upsert(resource, w.payTo)
    /\ UNCHANGED <<lastAccepted, claimed, ledgerPart, report, failures, unlisted, wanted>>

(* .catch(() => {})                                                         *)
RecordFails(w) ==
    /\ failures < MaxFailures
    /\ failures' = failures + 1
    /\ writes' = writes \ {w}
    /\ unlisted' = [unlisted EXCEPT ![w.payTo] = @ + 1]
    /\ UNCHANGED <<lastAccepted, claimed, ledgerPart, resource, report, wanted>>

-----------------------------------------------------------------------------
(* RevenueService.report.                                                   *)

(* flush(): joins the write in flight, which the queue is not part of, or
   starts one.                                                              *)
ReportAsked ==
    /\ report = NoReport
    /\ wanted' = [earned |-> lastAccepted[Reporter], settled |-> claimed[Reporter],
                 whole |-> inFlight = <<>>]
    /\ IF inFlight # <<>> \/ queued = <<>>
       THEN UNCHANGED <<queued, inFlight>>
       ELSE inFlight' = queued /\ queued' = <<>>
    /\ report' = [NoReport EXCEPT !.at = IF inFlight' # <<>> THEN "flushing" ELSE "reading"]
    /\ UNCHANGED <<lastAccepted, claimed, rows, writes, resource, failures, unlisted>>

(* The rows of a type that are about the seller.                            *)
Mine(type) == {i \in DOMAIN rows : rows[i].type = type /\ rows[i].payTo = Reporter}

Summed(events) == SumFunctionOnSet([i \in DOMAIN rows |-> rows[i].amount], events)

(* Mutant: without GROUP BY e.tx.                                           *)
OneEach_all(events) == events

(* GROUP BY e.tx: one settlement for each transaction.                      *)
OneEach(events) == {i \in events : \A j \in events : rows[j].tx = rows[i].tx => i <= j}

(* The queries run in parallel, each sees the table at its own time.        *)
EarnedRead ==
    /\ report.at \in {"reading", "settledRead"}
    /\ report' = [report EXCEPT !.earned = Summed(Mine(AcceptedType)),
                                !.at = IF @ = "reading" THEN "earnedRead" ELSE "bothRead"]
    /\ UNCHANGED <<lastAccepted, claimed, ledgerPart, writes, resource, failures, unlisted, wanted>>

SettledRead ==
    /\ report.at \in {"reading", "earnedRead"}
    /\ report' = [report EXCEPT !.settled = Summed(OneEach(Mine(ClaimType))),
                                !.at = IF @ = "reading" THEN "settledRead" ELSE "bothRead"]
    /\ UNCHANGED <<lastAccepted, claimed, ledgerPart, writes, resource, failures, unlisted, wanted>>

(* After one more query, what is receivable is read from the live channels. *)
Reported ==
    /\ report.at = "bothRead"
    /\ report' = [report EXCEPT !.at = "done",
                                !.receivable = lastAccepted[Reporter] - claimed[Reporter]]
    /\ UNCHANGED <<lastAccepted, claimed, ledgerPart, writes, resource, failures, unlisted, wanted>>

-----------------------------------------------------------------------------
SalesInit ==
    /\ lastAccepted = [s \in Sellers |-> 0] /\ claimed = lastAccepted
    /\ queued = <<>> /\ inFlight = <<>> /\ rows = <<>>
    /\ writes = {} /\ resource = [payTo |-> NoPayTo, payments |-> 0]
    /\ report = NoReport /\ failures = 0
    /\ unlisted = [s \in Sellers |-> 0]
    /\ wanted = [earned |-> 0, settled |-> 0, whole |-> FALSE]

SalesNext ==
    \/ \E s \in Sellers : Pays(s) \/ ClaimPaid(s)
    \/ \E e \in ToSet(rows) : ClaimedAgain(e)
    \/ EventsFlushed \/ EventsWritten \/ EventsRefused
    \/ \E w \in writes : Recorded(w) \/ RecordFails(w)
    \/ ReportAsked \/ EarnedRead \/ SettledRead \/ Reported

SalesSpec == SalesInit /\ [][SalesNext]_salesVars

-----------------------------------------------------------------------------
(* Properties.                                                              *)

(* A report never counts a sale twice nor one that has not been made, and
   has all there were when it was asked for, unless another write was in
   flight then (its flush waits for that one only) or its own was refused.
   What is receivable closes the account (revenue.service.ts:15) if nothing
   was sold or claimed meanwhile.                                           *)
ReportAddsUp ==
    /\ report.at \in {"earnedRead", "bothRead", "done"} =>
         /\ report.earned <= lastAccepted[Reporter]
         /\ wanted.whole => report.earned >= wanted.earned
    /\ report.at \in {"settledRead", "bothRead", "done"} =>
         /\ report.settled <= claimed[Reporter]
         /\ wanted.whole => report.settled >= wanted.settled
    /\ (/\ report.at = "done" /\ wanted.whole
        /\ wanted.earned = lastAccepted[Reporter] /\ wanted.settled = claimed[Reporter])
          => report.earned - report.settled = report.receivable

(* The row of an address counts the payments to its owner, the first whose
   payment was written, but for those under way and those whose write
   failed; the order of the writes and the payments to others do not matter
   (catalog.service.ts:99, 123).                                            *)
EntryCounts ==
    resource.payTo # NoPayTo =>
        LET s == resource.payTo IN
        resource.payments = lastAccepted[s] - unlisted[s]
                              - Cardinality({w \in writes : w.payTo = s})

(* What a seller and his buyers read of his sales is what was sold.         *)
SalesAddUp == ReportAddsUp /\ EntryCounts
=============================================================================
