------------------------------- MODULE EventFeed -------------------------------
(***************************************************************************)
(* One dashboard on the event stream: GET /events                          *)
(* (backend/src/audit/events.controller.ts) replays the recent events and  *)
(* then forwards each new one; the dashboard's push()                      *)
(* (app.mandate/lib/useFeed.ts) drops what it has seen, by id.  The        *)
(* browser reconnects by itself.                                           *)
(***************************************************************************)
EXTENDS EventLedger, SequencesExt

CONSTANTS
    MAX_SEEN,       \* ids the dashboard remembers (50000 in the code)
    MaxConnects     \* bound: connections

ASSUME FeedAssumption == MAX_SEEN \in Nat \ {0} /\ MaxConnects \in Nat

VARIABLES
    connected,   \* the SSE connection is open
    wire,        \* written by the server, not read by the dashboard
    seen,        \* ids pushed, in the order of the Set
    shown,       \* events pushed into the dashboard's buffer
    connects

feedVars == <<connected, wire, seen, shown, connects>>

FeedTypeOK ==
    /\ LedgerTypeOK
    /\ connected \in BOOLEAN /\ wire \in Seq(Events)
    /\ seen \in Seq(Nat) /\ Len(seen) =< MAX_SEEN
    /\ shown \in Seq(Events) /\ connects \in 0..MaxConnects

\* Mutants, see PROJECT.json.
SeenAfter_short(id) == Latest(Append(seen, id), MAX_SEEN - 1)

-----------------------------------------------------------------------------
FeedInit ==
    /\ LedgerInit
    /\ connected = FALSE /\ wire = None /\ seen = None /\ shown = None
    /\ connects = 0

(* stream: the replay and the subscription are one step. *)
FeedConnects ==
    /\ ~connected /\ state = "up" /\ connects < MaxConnects
    /\ connected' = TRUE /\ connects' = connects + 1
    /\ wire' = recent
    /\ UNCHANGED <<seen, shown, ledgerVars>>

(* emit, with the subscriber of an open connection. *)
EmitsToFeed(type) ==
    /\ emit(type)
    /\ wire' = IF connected THEN Append(wire, NewEvent(type)) ELSE wire
    /\ UNCHANGED <<connected, seen, shown, connects>>

(* The connection breaks, and what was under way is lost. *)
FeedLost ==
    /\ connected' = FALSE /\ wire' = None
    /\ UNCHANGED <<seen, shown, connects>>

FeedBreaks == connected /\ FeedLost /\ UNCHANGED ledgerVars

SeenAfter(id) == Latest(Append(seen, id), MAX_SEEN)

(* push *)
FeedReads ==
    /\ wire # None
    /\ wire' = Tail(wire)
    /\ IF Contains(seen, Head(wire).id)
       THEN UNCHANGED <<seen, shown>>
       ELSE /\ seen' = SeenAfter(Head(wire).id)
            /\ shown' = Append(shown, Head(wire))
    /\ UNCHANGED <<connected, connects, ledgerVars>>

FeedNext ==
    \/ \E type \in EventTypes : EmitsToFeed(type)
    \/ FeedConnects \/ FeedReads \/ FeedBreaks
    \/ /\ LedgerTimer \/ LedgerBoots \/ \E outcome \in Outcomes : LedgerWritten(outcome)
       /\ UNCHANGED feedVars
    \/ (LedgerCrash \/ LedgerStops \/ LedgerExits) /\ FeedLost

FeedSpec == FeedInit /\ [][FeedNext]_<<ledgerVars, feedVars>>
-----------------------------------------------------------------------------
(* Events that no replay will show again: transient, or lost with the *)
(* process that emitted them.                                         *)
NotReplayed == emitted - Len(log)

(* As long as what is never replayed leaves room for the replay among the  *)
(* ids remembered, no event is counted twice, however often the feed       *)
(* reconnects and however many events went by (useFeed.ts, MAX_SEEN).  An  *)
(* event that is lost before the dashboard read it counts too: without it  *)
(* the replay reaches further back than the one before.                    *)
ShownOnce ==
    NotReplayed + RECENT =< MAX_SEEN =>
        \A i, j \in DOMAIN shown : shown[i].ts = shown[j].ts => i = j
=============================================================================
