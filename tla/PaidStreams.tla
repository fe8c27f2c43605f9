------------------------------ MODULE PaidStreams ------------------------------
(***************************************************************************)
(* Streams that are paid slice by slice, all on one payment channel.       *)
(* Three parties: the buyer (packages/sdk/src/x402.ts: ChannelSigner,      *)
(* streamPaid, x402Fetch), the seller, who is an external server           *)
(* (packages/meter/src/stream.ts: PaidStream) or a demo endpoint in the    *)
(* facilitator's own process (backend/src/demo: ticker and chat), and the  *)
(* facilitator (backend/src/channel: StreamSessions, StreamsController).   *)
(* They talk over HTTP: a request, its handling and its answer are steps   *)
(* of their own.                                                           *)
(*                                                                         *)
(* The verifier is taken from Facilitator with all but the channel's       *)
(* counters left out; of a cached channel it decides without an await that *)
(* lets anything else run.                                                 *)
(***************************************************************************)
EXTENDS Integers, Sequences, FiniteSets, FiniteSetsExt

CONSTANTS
    Streams,        \* streams a buyer may start
    Demo,           \* those sold by the facilitator's own demo endpoints
    Deposit,        \* the channel's deposit, as signer and facilitator know it
    SliceCost,      \* price of a slice
    Slice,          \* units (tokens, seconds) in a slice
    CallPrice,      \* price of a metered call the buyer makes besides
    MaxCalls,       \* bound: such calls
    MaxPerChannel,  \* MAX_PER_CHANNEL
    Lossy,          \* TRUE: HTTP requests and answers may get lost
    MaxUnread       \* bound: events a stream holds that the buyer has not read

ASSUME StreamsAssumption ==
    /\ Demo \subseteq Streams
    /\ Deposit \in Nat
    /\ SliceCost \in Nat \ {0} /\ Slice \in Nat \ {0} /\ CallPrice \in Nat \ {0}
    /\ MaxCalls \in Nat /\ MaxPerChannel \in Nat /\ MaxUnread \in Nat
    /\ Lossy \in BOOLEAN

VARIABLES           \* the facilitator
    lastAccepted,   \* CachedChannel.lastAccepted
    status,         \* the channel: open, its payer frozen, or closed
    session,        \* StreamSessions.sessions (and StreamsController.open)
    ended           \* charged in each stream.ended event

VARIABLES           \* the sellers: loop state of PaidStream or of the demo loop
    seller

VARIABLES           \* the buyer
    signer,         \* ChannelSigner.cumulative
    buyer,          \* streamPaid, by stream
    sse,            \* server-sent events on their way to the buyer
    call            \* x402Fetch: the call in flight

VARIABLES           \* ghosts
    sold,           \* value accepted in vouchers of a stream
    called          \* value accepted for calls

facVars == <<lastAccepted, status, session, ended, sold, called>>
buyVars == <<signer, buyer, sse, call>>
vars == <<facVars, seller, buyVars>>

External == Streams \ Demo

None == [none |-> TRUE]

Live(s) == session[s] # None

Pay(required) == [type |-> "payment-required", required |-> required]
Error == [type |-> "error"]
Done(charged) == [type |-> "done", charged |-> charged]

(* send(): nothing is written any more once the connection is closed.       *)
Sent(s, events) ==
    sse' = IF seller[s].closed THEN sse ELSE [sse EXCEPT ![s] = @ \o events]

-----------------------------------------------------------------------------
(* The facilitator: ChannelVerifier.accept, reduced to the channel's state. *)
Verdict(cumulative, price) ==
    IF status # "open" THEN status
    ELSE IF cumulative <= lastAccepted THEN "not increasing"
    ELSE IF cumulative - lastAccepted < price THEN "underpaid"
    ELSE IF cumulative > Deposit THEN "exhausted"
    ELSE "ok"

(* The payer is frozen, or the channel is closed on chain.                  *)
StatusChanges ==
    /\ status = "open"
    /\ status' \in {"frozen", "closed"}
    /\ UNCHANGED <<lastAccepted, session, ended, sold, called, seller, buyVars>>

(* StreamSessions.open()                                                    *)
Opened(charged) == [charged |-> charged, vouchers |-> 1, prepaid |-> 0, waiter |-> FALSE]

(* Resolving the promise a wait returned: its request is answered, unless the
   seller has given the request up.                                         *)
Answered(s, kind, accepted) ==
    IF seller[s].at = "waiting"
    THEN [seller[s] EXCEPT !.at = "answered", !.kind = kind,
                           !.next = IF kind = "paid" THEN accepted + SliceCost ELSE @]
    ELSE seller[s]

(* waiter?.(outcome): no effect without a waiter.                           *)
Wakes(s, kind, accepted) ==
    seller' = IF session[s].waiter
              THEN [seller EXCEPT ![s] = Answered(s, kind, accepted)]
              ELSE seller

(* Mutant: the totals are read after the session is gone.                   *)
Total_late(s) == 0

(* totals(streamId).charged                                                 *)
Total(s) == session[s].charged

(* finish() of the controller and end() of the demo loops: the total goes
   into stream.ended, then the session is closed.                           *)
Finished(s) ==
    /\ ended' = [ended EXCEPT ![s] = Append(@, Total(s))]
    /\ session' = [session EXCEPT ![s] = None]

-----------------------------------------------------------------------------
(* The buyer starts.                                                        *)

(* Mutant: the deposit is left to the facilitator.                          *)
Signs_unlimited(cumulative) ==
    /\ cumulative >= signer
    /\ signer' = cumulative

(* signer.at(cumulative), and signer.next(amount) which calls it            *)
Signs(cumulative) ==
    /\ cumulative >= signer
    /\ cumulative <= Deposit
    /\ signer' = cumulative

(* streamPaid(): the first slice is paid with the request.                  *)
BuyerStarts(s) ==
    /\ buyer[s].at = "idle"
    /\ Signs(signer + SliceCost)
    /\ buyer' = [buyer EXCEPT ![s].at = "starting", ![s].voucher = signer']
    /\ UNCHANGED <<facVars, seller, sse, call>>

Accepted(s, cumulative) ==
    /\ lastAccepted' = cumulative
    /\ sold' = [sold EXCEPT ![s] = @ + (cumulative - lastAccepted)]

(* The meter has the first voucher verified, and the handler starts: a demo
   endpoint opens its session at once.                                      *)
FirstVoucher(s) ==
    LET c == buyer[s].voucher IN
    /\ buyer[s].at = "starting"
    /\ IF Verdict(c, SliceCost) = "ok"
       THEN /\ Accepted(s, c)
            /\ seller' = [seller EXCEPT ![s].at = IF s \in Demo THEN "ready" ELSE "opening"]
            /\ session' = IF s \in Demo
                          THEN [session EXCEPT ![s] = Opened(c - lastAccepted)] ELSE session
            /\ buyer' = [buyer EXCEPT ![s].at = IF s \in Demo THEN "reading" ELSE "awaiting",
                                      ![s].charged = SliceCost, ![s].vouchers = 1]
       ELSE /\ buyer' = [buyer EXCEPT ![s].at = "over"]
            /\ UNCHANGED <<lastAccepted, sold, seller, session>>
    /\ UNCHANGED <<status, ended, called, signer, sse, call>>

(* POST /streams from openPaidStream().  The limits are checked after the
   only await.  When the request fails the buyer has paid and gets nothing. *)
Created(s, answered) ==
    LET full == Cardinality({t \in External : Live(t)}) >= MaxPerChannel
        ok == answered /\ ~full IN
    /\ seller[s].at = "opening"
    /\ session' = IF full THEN session ELSE [session EXCEPT ![s] = Opened(sold[s])]
    /\ seller' = [seller EXCEPT ![s].at = IF ok THEN "ready" ELSE "failed",
                                ![s].required = lastAccepted + SliceCost]
    /\ buyer' = [buyer EXCEPT ![s].at = IF ok /\ @ = "awaiting" THEN "reading" ELSE "over"]
    /\ UNCHANGED <<lastAccepted, status, ended, sold, called, signer, sse, call>>

-----------------------------------------------------------------------------
(* The seller's loop.                                                       *)

(* Mutant: a slice has one unit more than was paid.                         *)
UsedUp_late(s) == seller[s].units > seller[s].paidThrough

(* this.units >= this.paidThrough                                           *)
UsedUp(s) == seller[s].units >= seller[s].paidThrough

(* next() is true within a slice, and the unit is sent.                     *)
Deliver(s) ==
    /\ seller[s].at = "ready" /\ ~seller[s].closed
    /\ ~UsedUp(s)
    /\ seller' = [seller EXCEPT ![s].units = @ + 1]
    /\ UNCHANGED <<facVars, buyVars>>

(* next() at the end of a slice: payment-required, then POST /wait.  After a
   failed request the handler may call next() again.                        *)
Ask(s) ==
    /\ s \in External
    /\ seller[s].at \in {"ready", "failed"} /\ ~seller[s].closed
    /\ UsedUp(s)
    /\ Len(sse[s]) < MaxUnread
    /\ Sent(s, <<Pay(seller[s].required)>>)
    /\ seller' = [seller EXCEPT ![s].at = "asking"]
    /\ UNCHANGED <<facVars, signer, buyer, call>>

(* The remaining deposit does not pay another slice.                        *)
Exhausted == Deposit - lastAccepted < SliceCost

(* s.prepaid.shift()                                                        *)
TakePrepaid(sess) == [sess EXCEPT !.prepaid = @ - 1]

(* waitForSlice(): a slice paid for early, or a waiter; the previous waiter,
   if there is one, is resolved as aborted (nobody listens to it any more). *)
WaitForSlice(s) ==
    IF session[s].prepaid > 0
    THEN /\ session' = [session EXCEPT ![s] = TakePrepaid(session[s])]
         /\ seller' = [seller EXCEPT ![s].at = "answered", ![s].kind = "paid",
                                     ![s].next = lastAccepted + SliceCost]
    ELSE /\ session' = [session EXCEPT ![s].waiter = TRUE]
         /\ seller' = [seller EXCEPT ![s].at = "waiting"]

(* POST /streams/:id/wait                                                   *)
WaitArrives(s) ==
    /\ seller[s].at = "asking"
    /\ \/ /\ ~Live(s)
          /\ seller' = [seller EXCEPT ![s].at = "failed"]
          /\ UNCHANGED session
       \/ /\ Live(s) /\ Exhausted
          /\ seller' = [seller EXCEPT ![s].at = "answered", ![s].kind = "exhausted"]
          /\ UNCHANGED session
       \/ /\ Live(s) /\ ~Exhausted
          /\ WaitForSlice(s)
    /\ UNCHANGED <<lastAccepted, status, ended, sold, called, buyVars>>

(* The demo loops: check, payment-required and wait without an await between. *)
DemoAsk(s) ==
    /\ s \in Demo
    /\ seller[s].at = "ready" /\ ~seller[s].closed
    /\ UsedUp(s)
    /\ IF Exhausted
       THEN /\ Sent(s, <<Error>>)
            /\ Finished(s)
            /\ seller' = [seller EXCEPT ![s].at = "ended"]
       ELSE /\ Sent(s, <<Pay(lastAccepted + SliceCost)>>)
            /\ WaitForSlice(s)
            /\ UNCHANGED ended
    /\ UNCHANGED <<lastAccepted, status, sold, called, signer, buyer, call>>

(* setTimeout of waitForSlice                                               *)
WaiterTimesOut(s) ==
    /\ Live(s) /\ session[s].waiter
    /\ Wakes(s, "timeout", lastAccepted)
    /\ session' = [session EXCEPT ![s].waiter = FALSE]
    /\ UNCHANGED <<lastAccepted, status, ended, sold, called, buyVars>>

(* The seller learns the outcome: the next slice, or the end of the stream. *)
Resume(s) ==
    LET goesOn == ~seller[s].closed /\ seller[s].kind = "paid" IN
    /\ seller[s].at = "answered"
    /\ Sent(s, IF goesOn THEN <<>> ELSE <<Error>>)
    /\ IF goesOn
       THEN /\ seller' = [seller EXCEPT ![s].at = "ready",
                                        ![s].paidThrough = @ + Slice,
                                        ![s].required = seller[s].next,
                                        ![s].next = 0, ![s].kind = "none",
                                        ![s].units = IF s \in Demo THEN @ ELSE @ + 1]
            /\ UNCHANGED <<session, ended>>
       ELSE IF s \in Demo
       THEN /\ seller' = [seller EXCEPT ![s].at = "ended"]
            /\ Finished(s)
       ELSE /\ seller' = [seller EXCEPT ![s].at = "ending"]
            /\ UNCHANGED <<session, ended>>
    /\ UNCHANGED <<lastAccepted, status, sold, called, signer, buyer, call>>

(* The loop is left: the connection is closed, the content is at its end, the
   handler gives up.  An external seller sends DELETE /streams/:id.         *)
Leave(s) ==
    /\ seller[s].at = "ready" \/ (s \in External /\ seller[s].at = "failed" /\ seller[s].units > 0)
    /\ IF s \in Demo
       THEN /\ Sent(s, <<Done(Total(s))>>)
            /\ Finished(s)
            /\ seller' = [seller EXCEPT ![s].at = "ended"]
       ELSE /\ seller' = [seller EXCEPT ![s].at = "ending", ![s].kind = "done"]
            /\ UNCHANGED <<session, ended, sse>>
    /\ UNCHANGED <<lastAccepted, status, sold, called, signer, buyer, call>>

(* DELETE /streams/:id                                                      *)
EndArrives(s) ==
    /\ seller[s].at = "ending"
    /\ seller' = [seller EXCEPT ![s].at = "ended"]
    /\ IF Live(s)
       THEN /\ Finished(s)
            /\ Sent(s, IF seller[s].kind = "done" THEN <<Done(Total(s))>> ELSE <<>>)
       ELSE UNCHANGED <<session, ended, sse>>
    /\ UNCHANGED <<lastAccepted, status, sold, called, signer, buyer, call>>

(* Mutant: the timer is armed by touch() alone, not when a session is created. *)
IdleFires_touched(s) ==
    /\ s \in External
    /\ Live(s) /\ ~session[s].waiter /\ seller[s].units > Slice
    /\ Finished(s)
    /\ UNCHANGED <<lastAccepted, status, sold, called, seller, buyVars>>

(* The idle timer: 90 s without a wait.  A wait lasts at most 30 s, so the
   timer never fires while one is pending.                                  *)
IdleFires(s) ==
    /\ s \in External
    /\ Live(s) /\ ~session[s].waiter
    /\ Finished(s)
    /\ UNCHANGED <<lastAccepted, status, sold, called, seller, buyVars>>

(* A request of an external seller fails, before or after it was handled.   *)
RequestLost(s) ==
    /\ Lossy /\ s \in External
    /\ \/ /\ seller[s].at \in {"asking", "waiting", "answered"}
          /\ seller' = [seller EXCEPT ![s].at = "failed", ![s].next = 0, ![s].kind = "none"]
       \/ /\ seller[s].at = "ending"
          /\ seller' = [seller EXCEPT ![s].at = "ended"]
    /\ UNCHANGED <<facVars, buyVars>>

-----------------------------------------------------------------------------
(* The buyer's loop, consume().                                             *)

Over(s) == buyer' = [buyer EXCEPT ![s].at = "over", ![s].voucher = 0]

(* The next event.  A required total the signer has passed is an exception, a
   total beyond the deposit ends the stream.                                *)
BuyerReads(s) ==
    LET e == Head(sse[s]) IN
    /\ buyer[s].at = "reading" /\ sse[s] # <<>>
    /\ sse' = [sse EXCEPT ![s] = Tail(@)]
    /\ IF e.type = "payment-required" /\ e.required \in signer..Deposit
       THEN /\ Signs(e.required)
            /\ buyer' = [buyer EXCEPT ![s].at = "paying", ![s].voucher = e.required]
       ELSE /\ buyer' = [buyer EXCEPT ![s].at = "over",
                                      ![s].charged = IF e.type = "done" THEN e.charged ELSE @]
            /\ UNCHANGED signer
    /\ UNCHANGED <<facVars, seller, call>>

(* charged = required                                                       *)
BuyerCharged(s) == buyer[s].voucher

(* The answer to the voucher is 200, or the stream is over for the buyer.   *)
BuyerGoesOn(s) ==
    buyer' = [buyer EXCEPT ![s].at = IF buyer[s].quit THEN "over" ELSE "reading",
                           ![s].charged = BuyerCharged(s), ![s].vouchers = @ + 1,
                           ![s].voucher = 0]

(* this.sessions.get(streamId)                                              *)
Submittable(s) == Live(s)

(* The session after an accepted voucher: a waiter gets it, or it is kept.  *)
Submitted(sess, delta) ==
    [sess EXCEPT !.charged = @ + delta, !.vouchers = @ + 1, !.waiter = FALSE,
                 !.prepaid = IF sess.waiter THEN @ ELSE @ + 1]

(* POST /channels/:id/voucher, StreamSessions.submit().                     *)
VoucherArrives(s, answered) ==
    LET c == buyer[s].voucher
        v == Verdict(c, SliceCost) IN
    /\ buyer[s].at = "paying"
    /\ IF Submittable(s) /\ v = "ok"
       THEN /\ Accepted(s, c)
            /\ session' = IF Live(s)
                          THEN [session EXCEPT ![s] = Submitted(session[s], c - lastAccepted)]
                          ELSE session
            /\ IF Live(s) THEN Wakes(s, "paid", c) ELSE UNCHANGED seller
            /\ IF answered THEN BuyerGoesOn(s) ELSE Over(s)
       ELSE /\ IF Live(s) /\ v \in {"exhausted", "frozen"}
               THEN /\ Wakes(s, v, lastAccepted)
                    /\ session' = [session EXCEPT ![s].waiter = FALSE]
               ELSE UNCHANGED <<seller, session>>
            /\ Over(s)
            /\ UNCHANGED <<lastAccepted, sold>>
    /\ UNCHANGED <<status, ended, called, signer, sse, call>>

(* The voucher never gets there.                                            *)
VoucherLost(s) ==
    /\ Lossy
    /\ buyer[s].at = "paying"
    /\ Over(s)
    /\ UNCHANGED <<facVars, seller, signer, sse, call>>

(* Mutant: abort() forgets the waiter and its timer.                        *)
Aborts_silently(s) ==
    /\ session' = [session EXCEPT ![s].waiter = FALSE]
    /\ seller' = [seller EXCEPT ![s].closed = TRUE]

(* abort(), which the demo endpoints call when the connection closes: the
   waiter is woken, the session stays.                                      *)
Aborts(s) ==
    /\ session' = [session EXCEPT ![s].waiter = FALSE]
    /\ seller' = [seller EXCEPT ![s] = [Answered(s, "aborted", lastAccepted) EXCEPT !.closed = TRUE]]

(* The connection closes: the buyer cuts it (signal), or has returned from
   streamPaid() and is gone.  A voucher in flight is still answered.        *)
BuyerQuits(s) ==
    /\ buyer[s].at \in {"reading", "paying", "over"} /\ ~buyer[s].quit
    /\ seller[s].at \notin {"none", "opening", "ended"}
    /\ buyer' = [buyer EXCEPT ![s].quit = TRUE,
                              ![s].at = IF @ = "reading" THEN "over" ELSE @]
    /\ sse' = [sse EXCEPT ![s] = <<>>]
    /\ IF s \in Demo /\ Live(s)
       THEN Aborts(s)
       ELSE /\ seller' = [seller EXCEPT ![s].closed = TRUE]
            /\ UNCHANGED session
    /\ UNCHANGED <<lastAccepted, status, ended, sold, called, signer, call>>

(* The buyer gives up before the response has begun: the PaidStream does not
   exist yet, and never learns of it.                                       *)
BuyerGivesUp(s) ==
    /\ buyer[s].at = "awaiting"
    /\ buyer' = [buyer EXCEPT ![s].at = "over", ![s].quit = TRUE]
    /\ UNCHANGED <<facVars, seller, signer, sse, call>>

(* The response has ended.                                                  *)
BuyerSeesEnd(s) ==
    /\ buyer[s].at = "reading" /\ sse[s] = <<>>
    /\ seller[s].at = "ended"
    /\ Over(s)
    /\ UNCHANGED <<facVars, seller, signer, sse, call>>

(* x402Fetch() on the same channel: the voucher is signed, then sent.       *)
CallSigned ==
    /\ call.voucher = 0 /\ call.made < MaxCalls
    /\ Signs(signer + CallPrice)
    /\ call' = [made |-> call.made + 1, voucher |-> signer']
    /\ UNCHANGED <<facVars, seller, buyer, sse>>

CallArrives ==
    /\ call.voucher > 0
    /\ IF Verdict(call.voucher, CallPrice) = "ok"
       THEN /\ lastAccepted' = call.voucher
            /\ called' = called + (call.voucher - lastAccepted)
       ELSE UNCHANGED <<lastAccepted, called>>
    /\ call' = [call EXCEPT !.voucher = 0]
    /\ UNCHANGED <<status, session, ended, sold, seller, signer, buyer, sse>>

-----------------------------------------------------------------------------
Init ==
    /\ lastAccepted = 0 /\ status = "open"
    /\ session = [s \in Streams |-> None]
    /\ ended = [s \in Streams |-> <<>>]
    /\ seller = [s \in Streams |-> [at |-> "none", units |-> 0, paidThrough |-> Slice,
                                    required |-> 0, next |-> 0, closed |-> FALSE,
                                    kind |-> "none"]]
    /\ signer = 0
    /\ buyer = [s \in Streams |-> [at |-> "idle", voucher |-> 0, charged |-> 0,
                                   vouchers |-> 0, quit |-> FALSE]]
    /\ sse = [s \in Streams |-> <<>>]
    /\ call = [made |-> 0, voucher |-> 0]
    /\ sold = [s \in Streams |-> 0] /\ called = 0

Answers == IF Lossy THEN BOOLEAN ELSE {TRUE}

Seller(s) ==
    \/ \E answered \in Answers : Created(s, answered)
    \/ Deliver(s) \/ Ask(s) \/ DemoAsk(s) \/ Resume(s) \/ Leave(s)
    \/ WaitArrives(s) \/ EndArrives(s) \/ RequestLost(s)

Buyer(s) ==
    \/ BuyerStarts(s) \/ FirstVoucher(s) \/ BuyerReads(s) \/ BuyerQuits(s)
    \/ BuyerGivesUp(s) \/ BuyerSeesEnd(s)
    \/ \E answered \in Answers : VoucherArrives(s, answered)
    \/ VoucherLost(s)

Next ==
    \/ StatusChanges
    \/ \E s \in Streams : Seller(s) \/ Buyer(s) \/ WaiterTimesOut(s) \/ IdleFires(s)
    \/ CallSigned \/ CallArrives

Spec == Init /\ [][Next]_vars

(* Fairness.  Timers of the facilitator's process fire, and its own demo
   loops run.  Nothing is assumed of buyers, external sellers or requests.  *)
Fairness ==
    \A s \in Streams :
        /\ WF_vars(WaiterTimesOut(s)) /\ WF_vars(IdleFires(s))
        /\ s \in Demo => /\ WF_vars(Deliver(s)) /\ WF_vars(DemoAsk(s))
                         /\ WF_vars(Resume(s)) /\ WF_vars(Leave(s) /\ seller[s].closed)

FairSpec == Spec /\ Fairness

-----------------------------------------------------------------------------
(* Properties.                                                              *)

SessionType == [charged : Nat, vouchers : Nat, prepaid : Nat, waiter : BOOLEAN]
SellerType ==
    [at : {"none", "opening", "ready", "asking", "waiting", "answered", "failed", "ending", "ended"},
     units : Nat, paidThrough : Nat, required : Nat, next : Nat, closed : BOOLEAN,
     kind : {"none", "paid", "timeout", "exhausted", "frozen", "aborted", "done"}]
BuyerType ==
    [at : {"idle", "starting", "awaiting", "reading", "paying", "over"},
     voucher : 0..Deposit, charged : Nat, vouchers : Nat, quit : BOOLEAN]
EventType == [type : {"payment-required"}, required : Nat]
                \cup [type : {"error"}] \cup [type : {"done"}, charged : Nat]

(* Types; and the signer is never behind what has been accepted, nothing is
   ever accepted beyond the deposit.                                        *)
TypeOK ==
    /\ lastAccepted \in 0..signer /\ signer \in 0..Deposit
    /\ status \in {"open", "frozen", "closed"}
    /\ session \in [Streams -> SessionType \cup {None}]
    /\ ended \in [Streams -> Seq(Nat)]
    /\ seller \in [Streams -> SellerType]
    /\ buyer \in [Streams -> BuyerType]
    /\ sse \in [Streams -> Seq(EventType)]
    /\ call \in [made : 0..MaxCalls, voucher : 0..Deposit]
    /\ sold \in [Streams -> Nat] /\ called \in Nat

(* No slice is handed out that its own stream has not paid: a seller never
   delivers units beyond the value of the vouchers accepted for the stream,
   whatever is lost, repeated or early.  And the buyer is never more than one
   slice ahead ("slices delivered up to then are paid, no more",
   packages/sdk/src/x402.ts, signal): while the session lives every voucher
   but the last has been delivered in full.                                 *)
PaidSliceBySlice ==
    \A s \in Streams :
        /\ seller[s].units * SliceCost <= sold[s] * Slice
        /\ Live(s) => (session[s].vouchers - 1) * Slice <= seller[s].units

(* Every pending wait has a session and a waiter, so that the voucher, the
   timer or the closed connection can still answer it.                      *)
NobodyHangs ==
    \A s \in Streams : seller[s].at = "waiting" => Live(s) /\ session[s].waiter

(* The session's total is the value its stream was accepted for, and so is the
   total in stream.ended, which is published at most once: nothing is accepted
   for a stream once it has ended, however it ended.  What is accepted was
   signed, what was signed is within the deposit (TypeOK), and nobody waits
   for what cannot come.                                                    *)
ChargedIsSold ==
    /\ TypeOK /\ NobodyHangs
    /\ \A s \in Streams :
          /\ Live(s) => session[s].charged = sold[s]
          /\ ended[s] \in {<<>>, <<sold[s]>>}

(* A session does not outlive its stream, whoever stops: it is closed by its
   seller, by a demo loop, or by a timer of the facilitator.  Only a seller
   who asks again and again keeps a session.                                *)
SessionsEnd ==
    \A s \in Streams :
        \/ Live(s) ~> ~Live(s)
        \/ []<><<Ask(s)>>_vars
=============================================================================
