----------------------------- MODULE ClientProofs -----------------------------
(***************************************************************************)
(* What holds of those who deal with the facilitator, for any number:      *)
(*  - of paid streams (PaidStreams), whatever is lost, repeated or early:  *)
(*    what a session has charged is what was accepted for its stream, it   *)
(*    is told once, and nobody waits for what cannot come; and the seller  *)
(*    is never ahead of the money, nor the buyer by more than a slice;     *)
(*  - of operations that are submitted (Submission): what is reported is   *)
(*    what became of them on chain;                                        *)
(*  - of the forms of an owner (Owner): what they do to his account is     *)
(*    what he edited in them.                                              *)
(*                                                                         *)
(* A step of streams is a step of one of them: the others keep what they   *)
(* have, and lastAccepted only grows.                                      *)
(***************************************************************************)
EXTENDS PaidStreams, Submission, Owner, Sums, TLAPS

(* What is on its way was signed.                                           *)
Typed ==
    /\ TypeOK
    /\ call.voucher <= signer
    /\ \A s \in Streams : buyer[s].voucher <= signer

(* A stream whose session was not asked for yet.                            *)
Unbegun(s) ==
    /\ ~Live(s) /\ ended[s] = <<>> /\ sse[s] = <<>>
    /\ buyer[s].at \notin {"reading", "paying"}
    /\ seller[s].units = 0 /\ seller[s].paidThrough = Slice /\ seller[s].kind = "none"

(* Which states of buyer, seller and session go together.                   *)
Control(s) ==
    /\ buyer[s].at \in {"idle", "starting"} => seller[s].at = "none"
    /\ seller[s].at = "none" => sold[s] = 0
    /\ seller[s].at \in {"none", "opening"} => Unbegun(s)
    /\ s \in Demo => /\ seller[s].at \in {"none", "ready", "waiting", "answered", "ended"}
                     /\ seller[s].at \in {"ready", "waiting", "answered"} => Live(s)
    /\ Live(s) => session[s].charged = sold[s] /\ ended[s] = <<>>
    /\ ended[s] \in {<<>>, <<sold[s]>>}
    /\ seller[s].at = "waiting" => Live(s) /\ session[s].waiter

-----------------------------------------------------------------------------
(* Types.                                                                   *)

LEMMA SessionIsSome == \A x \in SessionType : x # None
  BY DEF SessionType, None

LEMMA SessionTyped ==
    ASSUME TypeOK, NEW s \in Streams
    PROVE  Live(s) <=> session[s] \in SessionType
  BY SessionIsSome DEF TypeOK, Live

(* A verdict of ok is what the totals rest on.                              *)
LEMMA VerdictIsSound ==
    ASSUME TypeOK, NEW c \in Nat, NEW p \in Nat, Verdict(c, p) = "ok"
    PROVE  c > lastAccepted /\ c - lastAccepted >= p /\ c <= Deposit /\ status = "open"
<1>1. lastAccepted \in Nat /\ signer \in Nat /\ status \in {"open", "frozen", "closed"}
      BY StreamsAssumption DEF TypeOK
<1>2. QED
      BY <1>1, StreamsAssumption DEF Verdict

LEMMA SentIsTyped ==
    ASSUME sse \in [Streams -> Seq(EventType)], NEW s \in Streams, NEW e \in Seq(EventType),
           Sent(s, e)
    PROVE  sse' \in [Streams -> Seq(EventType)]
  BY DEF Sent
-----------------------------------------------------------------------------
(* What a step leaves alone.                                                *)

Same(t) ==
    /\ seller'[t] = seller[t] /\ buyer'[t] = buyer[t] /\ sse'[t] = sse[t]
    /\ session'[t] = session[t] /\ ended'[t] = ended[t] /\ sold'[t] = sold[t]

StreamStep(s) == Seller(s) \/ Buyer(s) \/ WaiterTimesOut(s) \/ IdleFires(s)

LEMMA OthersKeep ==
    ASSUME TypeOK, NEW s \in Streams, NEW t \in Streams \ {s}, StreamStep(s)
    PROVE  Same(t)
<1> USE DEF TypeOK, Same, facVars, buyVars
<1>1. CASE \E answered \in Answers : Created(s, answered)
      BY <1>1 DEF Created
<1>2. CASE Deliver(s) \/ Ask(s) \/ RequestLost(s)
      BY <1>2 DEF Deliver, Ask, Sent, RequestLost
<1>3. CASE DemoAsk(s)
      BY <1>3 DEF DemoAsk, Sent, Finished, WaitForSlice
<1>4. CASE Resume(s) \/ Leave(s)
      BY <1>4 DEF Resume, Leave, Sent, Finished
<1>5. CASE WaitArrives(s)
      BY <1>5 DEF WaitArrives, WaitForSlice
<1>6. CASE EndArrives(s)
      BY <1>6 DEF EndArrives, Sent, Finished
<1>7. CASE BuyerStarts(s) \/ BuyerReads(s) \/ BuyerGivesUp(s) \/ BuyerSeesEnd(s) \/ VoucherLost(s)
      BY <1>7 DEF BuyerStarts, BuyerReads, BuyerGivesUp, BuyerSeesEnd, VoucherLost, Over
<1>8. CASE FirstVoucher(s)
      BY <1>8 DEF FirstVoucher, Accepted
<1>9. CASE BuyerQuits(s)
      BY <1>9 DEF BuyerQuits, Aborts
<1>10. CASE \E answered \in Answers : VoucherArrives(s, answered)
  <2> PICK answered : VoucherArrives(s, answered)
      BY <1>10
  <2>1. /\ seller'[t] = seller[t]
        /\ session'[t] = session[t]
        BY DEF VoucherArrives, Wakes
  <2>2. sold'[t] = sold[t]
        BY DEF VoucherArrives, Accepted
  <2>3. buyer'[t] = buyer[t]
        BY DEF VoucherArrives, BuyerGoesOn, Over
  <2>4. QED
        BY <2>1, <2>2, <2>3 DEF VoucherArrives
<1>11. CASE WaiterTimesOut(s)
       BY <1>11 DEF WaiterTimesOut, Wakes
<1>12. CASE IdleFires(s)
       BY <1>12 DEF IdleFires, Finished
<1>13. QED
       BY <1>1, <1>2, <1>3, <1>4, <1>5, <1>6, <1>7, <1>8, <1>9, <1>10, <1>11, <1>12
       DEF StreamStep, Seller, Buyer

LEMMA InitTyped == Init => Typed
<1> SUFFICES ASSUME Init
             PROVE  Typed
    OBVIOUS
<1>1. 0 \in 0..Deposit /\ 0 \in 0..MaxCalls
      BY StreamsAssumption
<1>2. /\ seller \in [Streams -> SellerType] /\ buyer \in [Streams -> BuyerType]
      /\ \A s \in Streams : buyer[s].voucher = 0
      BY <1>1, StreamsAssumption DEF Init, SellerType, BuyerType
<1>3. call \in [made : 0..MaxCalls, voucher : 0..Deposit] /\ call.voucher = 0
      BY <1>1 DEF Init
<1>4. lastAccepted \in 0..signer /\ signer \in 0..Deposit /\ signer = 0
      BY <1>1 DEF Init
<1>5. /\ session \in [Streams -> SessionType \cup {None}] /\ ended \in [Streams -> Seq(Nat)]
      /\ sse \in [Streams -> Seq(EventType)] /\ sold \in [Streams -> Nat] /\ called \in Nat
      BY DEF Init
<1>6. status \in {"open", "frozen", "closed"}
      BY DEF Init
<1>7. TypeOK
      BY <1>2, <1>3, <1>4, <1>5, <1>6 DEF TypeOK
<1>8. QED
      BY <1>2, <1>3, <1>4, <1>7 DEF Typed

LEMMA FinishedIsTyped ==
    ASSUME TypeOK, NEW s \in Streams, Live(s), Finished(s)
    PROVE  /\ ended' \in [Streams -> Seq(Nat)]
           /\ session' \in [Streams -> SessionType \cup {None}]
<1>1. session[s].charged \in Nat
      BY SessionTyped DEF SessionType
<1>2. QED
      BY <1>1 DEF TypeOK, Finished, Total

(* The records of seller and buyer keep their types.                        *)
LEMMA Updated ==
    ASSUME NEW T, NEW f \in [Streams -> T], NEW s \in Streams, NEW r \in T
    PROVE  [f EXCEPT ![s] = r] \in [Streams -> T]
  OBVIOUS

LEMMA SellerAt ==
    ASSUME NEW f \in [Streams -> SellerType], NEW s \in Streams,
           NEW a \in {"none", "opening", "ready", "asking", "waiting", "answered",
                     "failed", "ending", "ended"}
    PROVE  [f EXCEPT ![s].at = a] \in [Streams -> SellerType]
  BY DEF SellerType

(* The types of the buyers and the sellers, action by action.              *)
(* The seller goes on to another place of its loop.                         *)
LEMMA SellerMoves ==
    ASSUME TypeOK, NEW s \in Streams, NEW a, seller' = [seller EXCEPT ![s].at = a]
    PROVE  /\ seller'[s].at = a /\ seller'[s].kind = seller[s].kind
           /\ seller'[s].units = seller[s].units /\ seller'[s].paidThrough = seller[s].paidThrough
           /\ seller'[s].required = seller[s].required /\ seller'[s].next = seller[s].next
  BY DEF TypeOK, SellerType

LEMMA SellerMovesWith ==
    ASSUME TypeOK, NEW s \in Streams, NEW a, NEW k,
           seller' = [seller EXCEPT ![s].at = a, ![s].kind = k]
    PROVE  /\ seller'[s].at = a /\ seller'[s].kind = k
           /\ seller'[s].units = seller[s].units /\ seller'[s].paidThrough = seller[s].paidThrough
           /\ seller'[s].required = seller[s].required /\ seller'[s].next = seller[s].next
  BY DEF TypeOK, SellerType

LEMMA CreatedTyped ==
    ASSUME TypeOK, NEW s \in Streams, NEW answered, Created(s, answered)
    PROVE  seller' \in [Streams -> SellerType] /\ buyer' \in [Streams -> BuyerType]
           /\ session' \in [Streams -> SessionType \cup {None}]
           /\ buyer'[s].voucher = buyer[s].voucher
<1>1. seller \in [Streams -> SellerType] /\ buyer \in [Streams -> BuyerType]
      BY DEF TypeOK
<1>2. lastAccepted + SliceCost \in Nat
      BY StreamsAssumption DEF TypeOK
<1>3. seller' \in [Streams -> SellerType]
  <2>1. PICK q \in Nat : q = lastAccepted + SliceCost
        BY <1>2
  <2>2. PICK a \in {"ready", "failed"} :
           seller' = [seller EXCEPT ![s].at = a, ![s].required = q]
        BY <2>1 DEF Created
  <2> DEFINE r == [seller[s] EXCEPT !.at = a, !.required = q]
  <2>3. r \in SellerType
        BY <1>1, Zenon DEF SellerType
  <2>4. seller' = [seller EXCEPT ![s] = r]
        BY <1>1, <2>2
  <2>5. QED
        BY <1>1, <2>3, <2>4, Updated
<1>4. buyer' \in [Streams -> BuyerType] /\ buyer'[s].voucher = buyer[s].voucher
      BY <1>1 DEF Created, BuyerType
<1>5. session' \in [Streams -> SessionType \cup {None}]
  <2>1. Opened(sold[s]) \in SessionType
        BY DEF TypeOK, Opened, SessionType
  <2>2. QED
        BY <2>1 DEF TypeOK, Created
<1>6. QED
      BY <1>3, <1>4, <1>5

LEMMA WaitForSliceTyped ==
    ASSUME TypeOK, NEW s \in Streams, Live(s), WaitForSlice(s)
    PROVE  /\ session' \in [Streams -> SessionType \cup {None}]
           /\ seller' \in [Streams -> SellerType]
<1>1. seller \in [Streams -> SellerType] /\ session[s] \in SessionType
      BY SessionTyped DEF TypeOK
<1>2. CASE session[s].prepaid > 0
  <2>1. TakePrepaid(session[s]) \in SessionType
        BY <1>1, <1>2 DEF TakePrepaid, SessionType
  <2>2. PICK q \in Nat : q = lastAccepted + SliceCost
        BY StreamsAssumption DEF TypeOK
  <2> DEFINE r == [seller[s] EXCEPT !.at = "answered", !.kind = "paid", !.next = q]
  <2>3. r \in SellerType
        BY <1>1, Zenon DEF SellerType
  <2>4. seller' = [seller EXCEPT ![s] = r]
        BY <1>1, <1>2, <2>2 DEF WaitForSlice
  <2>5. QED
    <3>1. seller' \in [Streams -> SellerType]
          BY <1>1, <2>3, <2>4, Updated
    <3>2. session' = [session EXCEPT ![s] = TakePrepaid(session[s])]
          BY <1>2 DEF WaitForSlice
    <3>3. QED
          BY <2>1, <3>1, <3>2 DEF TypeOK
<1>3. CASE ~(session[s].prepaid > 0)
  <2>1. [session[s] EXCEPT !.waiter = TRUE] \in SessionType
        BY <1>1 DEF SessionType
  <2>2. session' = [session EXCEPT ![s] = [session[s] EXCEPT !.waiter = TRUE]]
        BY <1>3 DEF WaitForSlice, TypeOK
  <2>3. seller' \in [Streams -> SellerType]
        BY <1>1, <1>3 DEF WaitForSlice, SellerType
  <2>4. QED
        BY <2>1, <2>2, <2>3 DEF TypeOK
<1>4. QED
      BY <1>2, <1>3

LEMMA AnsweredTyped ==
    ASSUME TypeOK, NEW s \in Streams, NEW accepted \in Nat,
           NEW kind \in {"paid", "timeout", "exhausted", "frozen", "aborted"}
    PROVE  Answered(s, kind, accepted) \in SellerType
<1>1. seller[s] \in SellerType
      BY DEF TypeOK
<1>2. CASE seller[s].at = "waiting"
  <2>1. PICK q \in Nat : q = IF kind = "paid" THEN accepted + SliceCost ELSE seller[s].next
        BY <1>1, StreamsAssumption DEF SellerType
  <2>2. [seller[s] EXCEPT !.at = "answered", !.kind = kind, !.next = q] \in SellerType
        BY <1>1, Zenon DEF SellerType
  <2>3. QED
        BY <1>2, <2>1, <2>2 DEF Answered
<1>3. CASE seller[s].at # "waiting"
      BY <1>1, <1>3 DEF Answered
<1>4. QED
      BY <1>2, <1>3

LEMMA WakesTyped ==
    ASSUME TypeOK, NEW s \in Streams, NEW accepted \in Nat,
           NEW kind \in {"paid", "timeout", "exhausted", "frozen", "aborted"}, Wakes(s, kind, accepted)
    PROVE  seller' \in [Streams -> SellerType]
  BY AnsweredTyped DEF Wakes, TypeOK

LEMMA EventsTyped ==
    /\ Error \in EventType
    /\ \A n \in Nat : Pay(n) \in EventType /\ Done(n) \in EventType
  BY DEF Error, Pay, Done, EventType

LEMMA SellerTyped ==
    ASSUME TypeOK, NEW s \in Streams, Control(s), Seller(s)
    PROVE  TypeOK' /\ buyer'[s].voucher = buyer[s].voucher /\ UNCHANGED <<signer, call>>
<1>1. /\ seller \in [Streams -> SellerType] /\ lastAccepted \in Nat /\ seller[s] \in SellerType
      /\ sse \in [Streams -> Seq(EventType)] /\ lastAccepted + SliceCost \in Nat
      BY StreamsAssumption DEF TypeOK
<1>2. ASSUME NEW answered \in Answers, Created(s, answered)
      PROVE  TypeOK' /\ buyer'[s].voucher = buyer[s].voucher /\ UNCHANGED <<signer, call>>
      BY <1>2, CreatedTyped DEF Created, TypeOK
<1>3. CASE Deliver(s)
  <2>1. seller' \in [Streams -> SellerType]
    <3>1. PICK u \in Nat : u = seller[s].units + 1
          BY <1>1 DEF SellerType
    <3> DEFINE r == [seller[s] EXCEPT !.units = u]
    <3>2. r \in SellerType
          BY <1>1, Zenon DEF SellerType
    <3>3. seller' = [seller EXCEPT ![s] = r]
          BY <1>1, <1>3, <3>1 DEF Deliver
    <3>4. QED
          BY <1>1, <3>2, <3>3, Updated
  <2>2. QED
        BY <1>3, <2>1 DEF Deliver, TypeOK, facVars, buyVars
<1>4. CASE Ask(s)
  <2>1. seller' \in [Streams -> SellerType]
        BY <1>1, <1>4, SellerAt DEF Ask
  <2>2. <<Pay(seller[s].required)>> \in Seq(EventType)
    <3>1. Pay(seller[s].required) \in EventType
          BY <1>1, EventsTyped DEF SellerType
    <3>2. QED
          BY <3>1
  <2>3. sse' \in [Streams -> Seq(EventType)]
        BY <1>1, <1>4, <2>2, SentIsTyped DEF Ask
  <2>4. QED
        BY <1>4, <2>1, <2>3 DEF Ask, TypeOK, facVars
<1>5. CASE DemoAsk(s)
  <2>1. Live(s)
        BY <1>5 DEF Control, DemoAsk
  <2>2. <<Error>> \in Seq(EventType) /\ <<Pay(lastAccepted + SliceCost)>> \in Seq(EventType)
    <3>1. Error \in EventType /\ Pay(lastAccepted + SliceCost) \in EventType
          BY <1>1, EventsTyped
    <3>2. QED
          BY <3>1
  <2>3. sse' \in [Streams -> Seq(EventType)]
        BY <1>1, <1>5, <2>2, SentIsTyped DEF DemoAsk
  <2>4. CASE Exhausted
    <3>1. seller' \in [Streams -> SellerType]
      <4>1. seller' = [seller EXCEPT ![s].at = "ended"]
            BY <1>5, <2>4 DEF DemoAsk
      <4>2. QED
            BY <1>1, <4>1, SellerAt
    <3>2. QED
          BY <1>5, <2>1, <2>3, <2>4, <3>1, FinishedIsTyped DEF DemoAsk, TypeOK
  <2>5. CASE ~Exhausted
        BY <1>5, <2>1, <2>3, <2>5, WaitForSliceTyped DEF DemoAsk, TypeOK
  <2>6. QED
        BY <2>4, <2>5
<1>6. CASE WaitArrives(s)
  <2>1. seller' \in [Streams -> SellerType] /\ session' \in [Streams -> SessionType \cup {None}]
    <3>1. CASE Live(s) /\ ~Exhausted
          BY <1>6, <3>1, WaitForSliceTyped DEF WaitArrives
    <3>2. CASE ~Live(s)
      <4>1. seller' = [seller EXCEPT ![s].at = "failed"] /\ session' = session
            BY <1>6, <3>2 DEF WaitArrives
      <4>2. QED
            BY <1>1, <4>1, SellerAt DEF TypeOK
    <3>3. CASE Live(s) /\ Exhausted
      <4> DEFINE r == [seller[s] EXCEPT !.at = "answered", !.kind = "exhausted"]
      <4>1. r \in SellerType
            BY <1>1, Zenon DEF SellerType
      <4>2. seller' = [seller EXCEPT ![s] = r] /\ session' = session
            BY <1>1, <1>6, <3>3 DEF WaitArrives
      <4>3. QED
            BY <1>1, <4>1, <4>2, Updated DEF TypeOK
    <3>4. QED
          BY <3>1, <3>2, <3>3
  <2>2. QED
        BY <1>6, <2>1 DEF WaitArrives, TypeOK, buyVars
<1>7. CASE Resume(s)
  <2> DEFINE goesOn == ~seller[s].closed /\ seller[s].kind = "paid"
  <2>1. Sent(s, IF goesOn THEN <<>> ELSE <<Error>>)
        BY <1>7 DEF Resume
  <2>2. (IF goesOn THEN <<>> ELSE <<Error>>) \in Seq(EventType)
    <3>1. Error \in EventType
          BY EventsTyped
    <3>2. <<>> \in Seq(EventType) /\ <<Error>> \in Seq(EventType)
          BY <3>1
    <3>3. QED
          BY <3>2
  <2>3. sse' \in [Streams -> Seq(EventType)]
        BY <1>1, <2>1, <2>2, SentIsTyped
  <2>4. CASE goesOn
    <3>1. PICK u \in Nat : u = IF s \in Demo THEN seller[s].units ELSE seller[s].units + 1
          BY <1>1 DEF SellerType
    <3>2. PICK p \in Nat : p = seller[s].paidThrough + Slice
          BY <1>1, StreamsAssumption DEF SellerType
    <3> DEFINE r == [seller[s] EXCEPT !.at = "ready", !.paidThrough = p, !.required = seller[s].next,
                                      !.next = 0, !.kind = "none", !.units = u]
    <3>3. r \in SellerType
      <4>1. seller[s].next \in Nat /\ 0 \in Nat
            BY <1>1 DEF SellerType
      <4>2. QED
            BY <1>1, <4>1, Zenon DEF SellerType
    <3>4. seller' = [seller EXCEPT ![s] = r]
          BY <1>1, <1>7, <2>4, <3>1, <3>2 DEF Resume
    <3>5. seller' \in [Streams -> SellerType]
          BY <1>1, <3>3, <3>4, Updated
    <3>6. QED
          BY <1>7, <2>3, <2>4, <3>5 DEF Resume, TypeOK
  <2>5. CASE ~goesOn /\ s \in Demo
    <3>1. seller' = [seller EXCEPT ![s].at = "ended"] /\ Finished(s)
          BY <1>7, <2>5 DEF Resume
    <3>2. seller' \in [Streams -> SellerType]
          BY <1>1, <3>1, SellerAt
    <3>3. Live(s)
          BY <1>7, <2>5 DEF Resume, Control
    <3>4. QED
          BY <1>7, <2>3, <3>1, <3>2, <3>3, FinishedIsTyped DEF Resume, TypeOK
  <2>6. CASE ~goesOn /\ s \notin Demo
    <3>1. seller' = [seller EXCEPT ![s].at = "ending"] /\ UNCHANGED <<session, ended>>
          BY <1>7, <2>6 DEF Resume
    <3>2. seller' \in [Streams -> SellerType]
          BY <1>1, <3>1, SellerAt
    <3>3. QED
          BY <1>7, <2>3, <3>1, <3>2 DEF Resume, TypeOK
  <2>7. QED
        BY <2>4, <2>5, <2>6
<1>8. CASE Leave(s)
  <2>1. CASE s \in Demo
    <3>1. Live(s)
          BY <1>8, <2>1 DEF Leave, Control, External
    <3>2. <<Done(Total(s))>> \in Seq(EventType)
      <4>1. Total(s) \in Nat
            BY <3>1, SessionTyped DEF Total, SessionType
      <4>2. Done(Total(s)) \in EventType
            BY <4>1, EventsTyped
      <4>3. QED
            BY <4>2
    <3>3. Sent(s, <<Done(Total(s))>>) /\ Finished(s) /\ seller' = [seller EXCEPT ![s].at = "ended"]
          BY <1>8, <2>1 DEF Leave
    <3>4. sse' \in [Streams -> Seq(EventType)] /\ seller' \in [Streams -> SellerType]
          BY <1>1, <3>2, <3>3, SentIsTyped, SellerAt
    <3>5. QED
          BY <1>8, <3>1, <3>3, <3>4, FinishedIsTyped DEF Leave, TypeOK
  <2>2. CASE s \notin Demo
    <3> DEFINE r == [seller[s] EXCEPT !.at = "ending", !.kind = "done"]
    <3>1. r \in SellerType
          BY <1>1, Zenon DEF SellerType
    <3>2. seller' = [seller EXCEPT ![s] = r] /\ UNCHANGED <<session, ended, sse>>
          BY <1>1, <1>8, <2>2 DEF Leave
    <3>3. seller' \in [Streams -> SellerType]
          BY <1>1, <3>1, <3>2, Updated
    <3>4. QED
          BY <1>8, <3>2, <3>3 DEF Leave, TypeOK
  <2>3. QED
        BY <2>1, <2>2
<1>9. CASE EndArrives(s)
  <2>1. seller' \in [Streams -> SellerType]
        BY <1>1, <1>9, SellerAt DEF EndArrives
  <2>2. CASE Live(s)
    <3> DEFINE e == IF seller[s].kind = "done" THEN <<Done(Total(s))>> ELSE <<>>
    <3>1. e \in Seq(EventType)
      <4>1. Total(s) \in Nat
            BY <2>2, SessionTyped DEF Total, SessionType
      <4>2. Done(Total(s)) \in EventType
            BY <4>1, EventsTyped
      <4>3. <<Done(Total(s))>> \in Seq(EventType) /\ <<>> \in Seq(EventType)
            BY <4>2
      <4>4. QED
            BY <4>3
    <3>2. Sent(s, e) /\ Finished(s)
          BY <1>9, <2>2 DEF EndArrives
    <3>3. sse' \in [Streams -> Seq(EventType)]
          BY <1>1, <3>1, <3>2, SentIsTyped
    <3>4. QED
          BY <1>9, <2>1, <2>2, <3>2, <3>3, FinishedIsTyped DEF EndArrives, TypeOK
  <2>3. CASE ~Live(s)
        BY <1>9, <2>1, <2>3 DEF EndArrives, TypeOK
  <2>4. QED
        BY <2>2, <2>3
<1>10. CASE RequestLost(s)
  <2>1. seller' \in [Streams -> SellerType]
    <3>1. CASE seller' = [seller EXCEPT ![s].at = "ended"]
          BY <1>1, <3>1, SellerAt
    <3>2. CASE seller' = [seller EXCEPT ![s].at = "failed", ![s].next = 0, ![s].kind = "none"]
      <4> DEFINE r == [seller[s] EXCEPT !.at = "failed", !.next = 0, !.kind = "none"]
      <4>1. 0 \in Nat
            OBVIOUS
      <4>2. r \in SellerType
            BY <1>1, <4>1, Zenon DEF SellerType
      <4>3. seller' = [seller EXCEPT ![s] = r]
            BY <1>1, <3>2
      <4>4. QED
            BY <1>1, <4>2, <4>3, Updated
    <3>3. QED
          BY <1>10, <3>1, <3>2 DEF RequestLost
  <2>2. QED
        BY <1>10, <2>1 DEF RequestLost, TypeOK, facVars, buyVars
<1>11. QED
       BY <1>2, <1>3, <1>4, <1>5, <1>6, <1>7, <1>8, <1>9, <1>10
       DEF Seller, Deliver, Ask, DemoAsk, Resume, Leave, WaitArrives, EndArrives, RequestLost, buyVars

LEMMA BuyerAt ==
    ASSUME NEW f \in [Streams -> BuyerType], NEW s \in Streams,
           NEW a \in {"idle", "starting", "awaiting", "reading", "paying", "over"}
    PROVE  [f EXCEPT ![s].at = a] \in [Streams -> BuyerType]
  BY DEF BuyerType

LEMMA OverTyped ==
    ASSUME TypeOK, NEW s \in Streams, Over(s)
    PROVE  buyer' \in [Streams -> BuyerType] /\ buyer'[s].voucher = 0
<1>1. buyer \in [Streams -> BuyerType] /\ buyer[s] \in BuyerType /\ 0 \in 0..Deposit
      BY StreamsAssumption DEF TypeOK
<1> DEFINE r == [buyer[s] EXCEPT !.at = "over", !.voucher = 0]
<1>2. r \in BuyerType
      BY <1>1, Zenon DEF BuyerType
<1>3. buyer' = [buyer EXCEPT ![s] = r]
      BY <1>1 DEF Over
<1>4. buyer' \in [Streams -> BuyerType]
      BY <1>1, <1>2, <1>3, Updated
<1>5. r.voucher = 0
      BY <1>1 DEF BuyerType
<1>6. QED
      BY <1>1, <1>3, <1>4, <1>5

(* Signing moves the signer to what is signed, within the deposit.          *)
LEMMA SignsTyped ==
    ASSUME TypeOK, NEW c \in Nat, Signs(c)
    PROVE  /\ c \in 0..Deposit /\ signer' = c /\ signer <= signer'
           /\ lastAccepted \in 0..signer' /\ signer' \in 0..Deposit
<1>1. lastAccepted \in Nat /\ signer \in Nat /\ lastAccepted <= signer /\ Deposit \in Nat
      BY StreamsAssumption DEF TypeOK
<1>2. QED
      BY <1>1 DEF Signs

(* What is accepted was signed.                                             *)
LEMMA AcceptedTyped ==
    ASSUME TypeOK, NEW s \in Streams, NEW c \in Nat, NEW p \in Nat,
           c <= signer, Verdict(c, p) = "ok", Accepted(s, c)
    PROVE  /\ lastAccepted' \in 0..signer /\ lastAccepted' = c /\ lastAccepted <= lastAccepted'
           /\ sold' \in [Streams -> Nat] /\ sold'[s] = sold[s] + (c - lastAccepted)
           /\ c - lastAccepted \in Nat /\ c - lastAccepted >= p /\ c >= lastAccepted + p
<1>1. c > lastAccepted /\ c - lastAccepted >= p
      BY VerdictIsSound
<1>2. lastAccepted \in Nat /\ signer \in Nat /\ sold \in [Streams -> Nat]
      BY StreamsAssumption DEF TypeOK
<1>3. c - lastAccepted \in Nat /\ sold[s] + (c - lastAccepted) \in Nat
      BY <1>1, <1>2
<1>4. QED
      BY <1>1, <1>2, <1>3 DEF Accepted

LEMMA BuyerGoesOnTyped ==
    ASSUME TypeOK, NEW s \in Streams, BuyerGoesOn(s)
    PROVE  buyer' \in [Streams -> BuyerType] /\ buyer'[s].voucher = 0
<1>1. buyer \in [Streams -> BuyerType] /\ buyer[s] \in BuyerType /\ 0 \in 0..Deposit
      BY StreamsAssumption DEF TypeOK
<1>2. PICK a \in {"over", "reading"} : a = IF buyer[s].quit THEN "over" ELSE "reading"
      OBVIOUS
<1>3. PICK c \in Nat : c = buyer[s].voucher
      BY <1>1, StreamsAssumption DEF BuyerType
<1>4. PICK n \in Nat : n = buyer[s].vouchers + 1
      BY <1>1 DEF BuyerType
<1> DEFINE r == [buyer[s] EXCEPT !.at = a, !.charged = c, !.vouchers = n, !.voucher = 0]
<1>5. r \in BuyerType
      BY <1>1, Zenon DEF BuyerType
<1>6. buyer' = [buyer EXCEPT ![s] = r]
      BY <1>1, <1>2, <1>3, <1>4 DEF BuyerGoesOn, BuyerCharged
<1>7. buyer' \in [Streams -> BuyerType]
      BY <1>1, <1>5, <1>6, Updated
<1>8. r.voucher = 0
      BY <1>1 DEF BuyerType
<1>9. QED
      BY <1>1, <1>6, <1>7, <1>8

LEMMA SubmittedTyped ==
    ASSUME NEW r \in SessionType, NEW d \in Nat
    PROVE  Submitted(r, d) \in SessionType
<1>1. PICK c \in Nat : c = r.charged + d
      BY DEF SessionType
<1>2. PICK v \in Nat : v = r.vouchers + 1
      BY DEF SessionType
<1>3. PICK p \in Nat : p = IF r.waiter THEN r.prepaid ELSE r.prepaid + 1
      BY DEF SessionType
<1>4. [r EXCEPT !.charged = c, !.vouchers = v, !.waiter = FALSE, !.prepaid = p] \in SessionType
  <2>1. FALSE \in BOOLEAN
        OBVIOUS
  <2>2. QED
        BY <2>1, Zenon DEF SessionType
<1>5. QED
      BY <1>1, <1>2, <1>3, <1>4 DEF Submitted

LEMMA NoWaiterTyped ==
    ASSUME TypeOK, NEW s \in Streams, Live(s), session' = [session EXCEPT ![s].waiter = FALSE]
    PROVE  session' \in [Streams -> SessionType \cup {None}] /\ session'[s] \in SessionType
<1>1. session[s] \in SessionType /\ session \in [Streams -> SessionType \cup {None}]
      BY SessionTyped DEF TypeOK
<1>2. [session[s] EXCEPT !.waiter = FALSE] \in SessionType
      BY <1>1 DEF SessionType
<1>3. session' = [session EXCEPT ![s] = [session[s] EXCEPT !.waiter = FALSE]]
      BY <1>1
<1>4. QED
      BY <1>1, <1>2, <1>3

LEMMA BuyerTyped ==
    ASSUME Typed, NEW s \in Streams, Buyer(s)
    PROVE  /\ TypeOK' /\ UNCHANGED call
           /\ signer <= signer' /\ buyer'[s].voucher <= signer'
<1> DEFINE Goal == /\ TypeOK' /\ UNCHANGED call
                   /\ signer <= signer' /\ buyer'[s].voucher <= signer'
<1>1. /\ buyer \in [Streams -> BuyerType] /\ buyer[s] \in BuyerType
      /\ buyer[s].voucher \in Nat /\ buyer[s].voucher <= signer
      /\ lastAccepted \in Nat /\ signer \in Nat /\ SliceCost \in Nat \ {0}
      /\ seller \in [Streams -> SellerType]
      /\ TypeOK
  <2>1. TypeOK /\ buyer[s].voucher <= signer
        BY DEF Typed
  <2>2. buyer \in [Streams -> BuyerType] /\ seller \in [Streams -> SellerType]
        BY <2>1 DEF TypeOK
  <2>3. buyer[s] \in BuyerType /\ buyer[s].voucher \in 0..Deposit
        BY <2>2 DEF BuyerType
  <2>4. lastAccepted \in 0..signer /\ signer \in 0..Deposit
        BY <2>1 DEF TypeOK
  <2>5. Deposit \in Nat /\ SliceCost \in Nat \ {0}
        BY StreamsAssumption
  <2>6. QED
        BY <2>1, <2>2, <2>3, <2>4, <2>5
<1>2. CASE BuyerStarts(s)
  <2>1. signer + SliceCost \in Nat /\ Signs(signer + SliceCost)
        BY <1>1, <1>2 DEF BuyerStarts
  <2>2. /\ signer' \in 0..Deposit /\ signer <= signer'
        /\ lastAccepted \in 0..signer'
        BY <1>1, <2>1, SignsTyped
  <2>3. PICK v \in 0..Deposit : v = signer'
        BY <2>2
  <2> DEFINE r == [buyer[s] EXCEPT !.at = "starting", !.voucher = v]
  <2>4. r \in BuyerType /\ r.voucher = v
    <3>1. r \in BuyerType
          BY <1>1, Zenon DEF BuyerType
    <3>2. r.voucher = v
          BY <1>1 DEF BuyerType
    <3>3. QED
          BY <3>1, <3>2
  <2>5. buyer' = [buyer EXCEPT ![s] = r]
        BY <1>1, <1>2, <2>3 DEF BuyerStarts
  <2>6. buyer' \in [Streams -> BuyerType] /\ buyer'[s].voucher = signer'
        BY <1>1, <2>3, <2>4, <2>5, Updated
  <2>7. QED
        BY <1>1, <1>2, <2>2, <2>6, SMTT(30) DEF BuyerStarts, TypeOK, facVars
<1>3. CASE FirstVoucher(s)
  <2> DEFINE c == buyer[s].voucher
  <2>1. CASE Verdict(c, SliceCost) = "ok"
    <3>1. Accepted(s, c)
          BY <1>3, <2>1 DEF FirstVoucher
    <3>2. /\ lastAccepted' \in 0..signer /\ sold' \in [Streams -> Nat] /\ c - lastAccepted \in Nat
          BY <1>1, <2>1, <3>1, AcceptedTyped
    <3>3. seller' \in [Streams -> SellerType]
      <4>1. seller' = [seller EXCEPT ![s].at = IF s \in Demo THEN "ready" ELSE "opening"]
            BY <1>3, <2>1 DEF FirstVoucher
      <4>2. (IF s \in Demo THEN "ready" ELSE "opening") \in
               {"none", "opening", "ready", "asking", "waiting", "answered", "failed", "ending", "ended"}
            OBVIOUS
      <4>3. QED
            BY <1>1, <4>1, <4>2, SellerAt
    <3>4. session' \in [Streams -> SessionType \cup {None}]
      <4>1. Opened(c - lastAccepted) \in SessionType
            BY <3>2 DEF Opened, SessionType
      <4>2. QED
            BY <1>1, <1>3, <2>1, <4>1, ZenonT(30) DEF FirstVoucher, TypeOK
    <3>5. buyer' \in [Streams -> BuyerType] /\ buyer'[s].voucher = c
      <4>1. PICK a \in {"reading", "awaiting"} : a = IF s \in Demo THEN "reading" ELSE "awaiting"
            OBVIOUS
      <4>2. PICK p \in Nat : p = SliceCost
            BY <1>1
      <4>3. PICK n \in Nat : n = 1
            OBVIOUS
      <4> DEFINE r == [buyer[s] EXCEPT !.at = a, !.charged = p, !.vouchers = n]
      <4>4. r \in BuyerType
            BY <1>1, Zenon DEF BuyerType
      <4>5. buyer' = [buyer EXCEPT ![s] = r]
            BY <1>1, <1>3, <2>1, <4>1, <4>2, <4>3 DEF FirstVoucher
      <4>6. r.voucher = c
            BY <1>1 DEF BuyerType
      <4>7. QED
            BY <1>1, <4>4, <4>5, <4>6, Updated
    <3>6. UNCHANGED <<status, ended, called, signer, sse, call>>
          BY <1>3 DEF FirstVoucher
    <3>7. QED
          BY <1>1, <3>2, <3>3, <3>4, <3>5, <3>6, SMTT(30) DEF TypeOK
  <2>2. CASE Verdict(c, SliceCost) # "ok"
    <3>1. buyer' = [buyer EXCEPT ![s].at = "over"]
          BY <1>3, <2>2 DEF FirstVoucher
    <3>2. buyer' \in [Streams -> BuyerType]
          BY <1>1, <3>1, BuyerAt
    <3>3. buyer'[s].voucher = c
          BY <1>1, <3>1 DEF BuyerType
    <3>4. UNCHANGED <<lastAccepted, sold, seller, session, status, ended, called, signer, sse, call>>
          BY <1>3, <2>2 DEF FirstVoucher
    <3>5. QED
          BY <1>1, <3>2, <3>3, <3>4 DEF TypeOK
  <2>3. QED
        BY <2>1, <2>2
<1>4. CASE BuyerReads(s)
  <2> DEFINE e == Head(sse[s])
  <2>1. /\ sse[s] \in Seq(EventType) /\ sse[s] # <<>> /\ e \in EventType /\ Tail(sse[s]) \in Seq(EventType)
        BY <1>1, <1>4 DEF TypeOK, BuyerReads
  <2>2. sse' \in [Streams -> Seq(EventType)] /\ UNCHANGED <<facVars, seller, call>>
        BY <1>1, <1>4, <2>1 DEF TypeOK, BuyerReads
  <2>3. CASE e.type = "payment-required" /\ e.required \in signer..Deposit
    <3>1. Signs(e.required) /\ e.required \in Nat
          BY <1>1, <1>4, <2>3, StreamsAssumption, SMTT(30) DEF BuyerReads
    <3>2. /\ e.required \in 0..Deposit /\ signer' = e.required /\ signer <= signer'
          /\ lastAccepted \in 0..signer' /\ signer' \in 0..Deposit
          BY <1>1, <3>1, SignsTyped
    <3>3. PICK v \in 0..Deposit : v = e.required
          BY <3>2
    <3> DEFINE r == [buyer[s] EXCEPT !.at = "paying", !.voucher = v]
    <3>4. r \in BuyerType
          BY <1>1, Zenon DEF BuyerType
    <3>5. r.voucher = v
          BY <1>1 DEF BuyerType
    <3>6. buyer' = [buyer EXCEPT ![s] = r]
          BY <1>1, <1>4, <2>3, <3>3 DEF BuyerReads
    <3>7. buyer' \in [Streams -> BuyerType] /\ buyer'[s].voucher = signer'
          BY <1>1, <3>2, <3>3, <3>4, <3>5, <3>6, Updated
    <3>8. signer' \in Nat
          BY <3>1, <3>2
    <3>9. QED
          BY <1>1, <2>2, <3>2, <3>7, <3>8, SMTT(30) DEF TypeOK, facVars
  <2>4. CASE ~(e.type = "payment-required" /\ e.required \in signer..Deposit)
    <3>1. PICK m \in Nat : m = IF e.type = "done" THEN e.charged ELSE buyer[s].charged
          BY <1>1, <2>1 DEF EventType, BuyerType
    <3> DEFINE r == [buyer[s] EXCEPT !.at = "over", !.charged = m]
    <3>2. r \in BuyerType
          BY <1>1, Zenon DEF BuyerType
    <3>3. r.voucher = buyer[s].voucher
          BY <1>1 DEF BuyerType
    <3>4. buyer' = [buyer EXCEPT ![s] = r] /\ signer' = signer
          BY <1>1, <1>4, <2>4, <3>1 DEF BuyerReads
    <3>5. buyer' \in [Streams -> BuyerType] /\ buyer'[s].voucher = buyer[s].voucher
          BY <1>1, <3>2, <3>3, <3>4, Updated
    <3>6. QED
          BY <1>1, <2>2, <3>4, <3>5, SMTT(30) DEF TypeOK, facVars
  <2>5. QED
        BY <2>3, <2>4
<1>5. ASSUME NEW answered \in Answers, VoucherArrives(s, answered)
      PROVE  Goal
  <2> DEFINE c == buyer[s].voucher
             v == Verdict(c, SliceCost)
  <2>1. UNCHANGED <<status, ended, called, signer, sse, call>>
        BY <1>5 DEF VoucherArrives
  <2>2. CASE Live(s) /\ v = "ok"
    <3>1. /\ Accepted(s, c) /\ Wakes(s, "paid", c)
          /\ session' = [session EXCEPT ![s] = Submitted(session[s], c - lastAccepted)]
          /\ BuyerGoesOn(s) \/ Over(s)
          BY <1>5, <2>2 DEF VoucherArrives, Submittable
    <3>2. /\ lastAccepted' \in 0..signer /\ sold' \in [Streams -> Nat] /\ c - lastAccepted \in Nat
          BY <1>1, <2>2, <3>1, AcceptedTyped
    <3>3. seller' \in [Streams -> SellerType]
          BY <1>1, <3>1, WakesTyped
    <3>4. session' \in [Streams -> SessionType \cup {None}]
      <4>1. session[s] \in SessionType
            BY <1>1, <2>2, SessionTyped
      <4>2. Submitted(session[s], c - lastAccepted) \in SessionType
            BY <3>2, <4>1, SubmittedTyped
      <4>3. QED
            BY <1>1, <3>1, <4>2 DEF TypeOK
    <3>5. buyer' \in [Streams -> BuyerType] /\ buyer'[s].voucher = 0
          BY <1>1, <3>1, BuyerGoesOnTyped, OverTyped
    <3>6. QED
          BY <1>1, <2>1, <3>2, <3>3, <3>4, <3>5, SMTT(30) DEF TypeOK
  <2>3. CASE ~(Live(s) /\ v = "ok")
    <3>1. Over(s) /\ UNCHANGED <<lastAccepted, sold>>
          BY <1>5, <2>3 DEF VoucherArrives, Submittable
    <3>2. buyer' \in [Streams -> BuyerType] /\ buyer'[s].voucher = 0
          BY <1>1, <3>1, OverTyped
    <3>3. /\ seller' \in [Streams -> SellerType]
          /\ session' \in [Streams -> SessionType \cup {None}]
      <4>1. CASE Live(s) /\ v \in {"exhausted", "frozen"}
        <5>1. Wakes(s, v, lastAccepted) /\ session' = [session EXCEPT ![s].waiter = FALSE]
          <6>1. ~(Submittable(s) /\ v = "ok")
                BY <2>3 DEF Submittable
          <6>2. QED
                BY <1>5, <4>1, <6>1 DEF VoucherArrives
        <5>2. QED
              BY <1>1, <4>1, <5>1, WakesTyped, NoWaiterTyped, ZenonT(30)
      <4>2. CASE ~(Live(s) /\ v \in {"exhausted", "frozen"})
            BY <1>1, <1>5, <2>3, <4>2 DEF VoucherArrives, Submittable, TypeOK
      <4>3. QED
            BY <4>1, <4>2
    <3>4. QED
          BY <1>1, <2>1, <3>1, <3>2, <3>3 DEF TypeOK
  <2>4. QED
        BY <2>2, <2>3
<1>6. CASE VoucherLost(s) \/ BuyerSeesEnd(s)
  <2>1. Over(s) /\ UNCHANGED <<facVars, seller, signer, sse, call>>
        BY <1>6 DEF VoucherLost, BuyerSeesEnd
  <2>2. buyer' \in [Streams -> BuyerType] /\ buyer'[s].voucher = 0
        BY <1>1, <2>1, OverTyped
  <2>3. QED
        BY <1>1, <2>1, <2>2 DEF TypeOK, facVars
<1>7. CASE BuyerGivesUp(s)
  <2> DEFINE r == [buyer[s] EXCEPT !.at = "over", !.quit = TRUE]
  <2>1. r \in BuyerType
        BY <1>1, Zenon DEF BuyerType
  <2>2. r.voucher = buyer[s].voucher
        BY <1>1 DEF BuyerType
  <2>3. buyer' = [buyer EXCEPT ![s] = r] /\ UNCHANGED <<facVars, seller, signer, sse, call>>
        BY <1>1, <1>7 DEF BuyerGivesUp
  <2>4. buyer' \in [Streams -> BuyerType] /\ buyer'[s].voucher = buyer[s].voucher
        BY <1>1, <2>1, <2>2, <2>3, Updated
  <2>5. QED
        BY <1>1, <2>3, <2>4 DEF TypeOK, facVars
<1>8. CASE BuyerQuits(s)
  <2>1. PICK a \in {"idle", "starting", "awaiting", "reading", "paying", "over"} :
           a = IF buyer[s].at = "reading" THEN "over" ELSE buyer[s].at
        BY <1>1 DEF BuyerType
  <2> DEFINE r == [buyer[s] EXCEPT !.quit = TRUE, !.at = a]
  <2>2. r \in BuyerType
        BY <1>1, Zenon DEF BuyerType
  <2>3. r.voucher = buyer[s].voucher
        BY <1>1 DEF BuyerType
  <2>4. buyer' = [buyer EXCEPT ![s] = r]
        BY <1>1, <1>8, <2>1 DEF BuyerQuits
  <2>5. buyer' \in [Streams -> BuyerType] /\ buyer'[s].voucher = buyer[s].voucher
        BY <1>1, <2>2, <2>3, <2>4, Updated
  <2>6. sse' \in [Streams -> Seq(EventType)]
    <3>1. <<>> \in Seq(EventType)
          OBVIOUS
    <3>2. QED
          BY <1>1, <1>8, <3>1 DEF BuyerQuits, TypeOK
  <2>7. CASE s \in Demo /\ Live(s)
    <3>1. session' = [session EXCEPT ![s].waiter = FALSE]
          BY <1>8, <2>7 DEF BuyerQuits, Aborts
    <3>2. PICK q \in SellerType : q = Answered(s, "aborted", lastAccepted)
          BY <1>1, AnsweredTyped
    <3>3. [q EXCEPT !.closed = TRUE] \in SellerType
          BY <3>2, Zenon DEF SellerType
    <3>4. seller' = [seller EXCEPT ![s] = [q EXCEPT !.closed = TRUE]]
          BY <1>8, <2>7, <3>2 DEF BuyerQuits, Aborts
    <3>5. seller' \in [Streams -> SellerType]
          BY <1>1, <3>3, <3>4, Updated
    <3>6. session' \in [Streams -> SessionType \cup {None}]
          BY <1>1, <2>7, <3>1, NoWaiterTyped
    <3>7. UNCHANGED <<lastAccepted, status, ended, sold, called, signer, call>>
          BY <1>8 DEF BuyerQuits
    <3>8. QED
          BY <1>1, <2>5, <2>6, <3>5, <3>6, <3>7 DEF TypeOK
  <2>8. CASE ~(s \in Demo /\ Live(s))
    <3>1. seller' = [seller EXCEPT ![s].closed = TRUE] /\ session' = session
          BY <1>8, <2>8 DEF BuyerQuits
    <3>2. seller' \in [Streams -> SellerType]
          BY <1>1, <3>1, ZenonT(30) DEF SellerType
    <3>3. UNCHANGED <<lastAccepted, status, ended, sold, called, signer, call>>
          BY <1>8 DEF BuyerQuits
    <3>4. QED
          BY <1>1, <2>5, <2>6, <3>1, <3>2, <3>3 DEF TypeOK
  <2>9. QED
        BY <2>7, <2>8
<1>9. QED
      BY <1>2, <1>3, <1>4, <1>5, <1>6, <1>7, <1>8 DEF Buyer

LEMMA TimersTyped ==
    ASSUME TypeOK, NEW s \in Streams, WaiterTimesOut(s) \/ IdleFires(s)
    PROVE  TypeOK' /\ UNCHANGED <<lastAccepted, signer, buyer, call>>
<1>1. CASE WaiterTimesOut(s)
  <2>1. /\ Live(s) /\ Wakes(s, "timeout", lastAccepted)
        /\ session' = [session EXCEPT ![s].waiter = FALSE]
        /\ UNCHANGED <<lastAccepted, status, ended, sold, called, buyVars>>
        BY <1>1 DEF WaiterTimesOut
  <2>2. lastAccepted \in Nat
        BY StreamsAssumption DEF TypeOK
  <2>3. seller' \in [Streams -> SellerType]
        BY <2>1, <2>2, WakesTyped
  <2>4. session' \in [Streams -> SessionType \cup {None}]
        BY <2>1, NoWaiterTyped
  <2>5. QED
        BY <2>1, <2>3, <2>4 DEF TypeOK, buyVars
<1>2. CASE IdleFires(s)
      BY <1>2, FinishedIsTyped DEF IdleFires, TypeOK, buyVars
<1>3. QED
      BY <1>1, <1>2

LEMMA CallsTyped ==
    ASSUME Typed, CallSigned \/ CallArrives
    PROVE  TypeOK' /\ call'.voucher <= signer' /\ signer <= signer' /\ UNCHANGED buyer
<1>1. /\ lastAccepted \in Nat /\ signer \in Nat /\ CallPrice \in Nat /\ called \in Nat
      /\ call \in [made : 0..MaxCalls, voucher : 0..Deposit] /\ MaxCalls \in Nat
      /\ call.voucher \in Nat /\ call.voucher <= signer /\ TypeOK
      BY StreamsAssumption DEF Typed, TypeOK
<1>2. CASE CallSigned
  <2>1. signer + CallPrice \in Nat /\ Signs(signer + CallPrice)
        BY <1>1, <1>2 DEF CallSigned
  <2>2. /\ signer' \in 0..Deposit /\ signer <= signer' /\ lastAccepted \in 0..signer'
        BY <1>1, <2>1, SignsTyped
  <2>3. call' \in [made : 0..MaxCalls, voucher : 0..Deposit] /\ call'.voucher = signer'
        BY <1>1, <1>2, <2>2 DEF CallSigned
  <2>4. signer' \in Nat /\ UNCHANGED <<facVars, seller, buyer, sse>>
        BY <1>1, <1>2, <2>1, SignsTyped DEF CallSigned
  <2>5. QED
        BY <1>1, <2>2, <2>3, <2>4 DEF TypeOK, facVars
<1>3. CASE CallArrives
  <2>1. lastAccepted' \in 0..signer /\ called' \in Nat
    <3>1. CASE Verdict(call.voucher, CallPrice) = "ok"
      <4>1. call.voucher > lastAccepted
            BY <1>1, <3>1, VerdictIsSound
      <4>2. lastAccepted' = call.voucher /\ called' = called + (call.voucher - lastAccepted)
            BY <1>3, <3>1 DEF CallArrives
      <4>3. QED
            BY <1>1, <4>1, <4>2
    <3>2. CASE Verdict(call.voucher, CallPrice) # "ok"
      <4>1. UNCHANGED <<lastAccepted, called>>
            BY <1>3, <3>2 DEF CallArrives
      <4>2. QED
            BY <1>1, <4>1 DEF TypeOK
    <3>3. QED
          BY <3>1, <3>2
  <2>2. call' \in [made : 0..MaxCalls, voucher : 0..Deposit] /\ call'.voucher = 0
    <3>1. 0 \in 0..Deposit
          BY StreamsAssumption
    <3>2. QED
          BY <1>1, <1>3, <3>1 DEF CallArrives
  <2>3. UNCHANGED <<status, session, ended, sold, seller, signer, buyer, sse>>
        BY <1>3 DEF CallArrives
  <2>4. QED
        BY <1>1, <2>1, <2>2, <2>3 DEF TypeOK
<1>4. QED
      BY <1>2, <1>3

(* Accepted totals only grow.                                               *)
LEMMA NeverBack ==
    ASSUME Typed, [Next]_vars
    PROVE  lastAccepted \in Nat /\ lastAccepted' >= lastAccepted
<1>1. lastAccepted \in Nat /\ signer \in Nat /\ TypeOK
      /\ SliceCost \in Nat /\ CallPrice \in Nat /\ call.voucher \in Nat
      /\ \A s \in Streams : buyer[s].voucher \in Nat
      BY StreamsAssumption DEF Typed, TypeOK, BuyerType
<1>2. ASSUME NEW s \in Streams, FirstVoucher(s) \/ \E answered \in Answers : VoucherArrives(s, answered)
      PROVE  lastAccepted' >= lastAccepted
  <2>1. Verdict(buyer[s].voucher, SliceCost) = "ok" => buyer[s].voucher > lastAccepted
        BY <1>1, VerdictIsSound
  <2>2. \/ lastAccepted' = lastAccepted
        \/ Verdict(buyer[s].voucher, SliceCost) = "ok" /\ lastAccepted' = buyer[s].voucher
        BY <1>2 DEF FirstVoucher, VoucherArrives, Accepted
  <2>3. QED
        BY <1>1, <2>1, <2>2
<1>3. CASE CallArrives
  <2>1. Verdict(call.voucher, CallPrice) = "ok" => call.voucher > lastAccepted
        BY <1>1, VerdictIsSound
  <2>2. QED
        BY <1>1, <1>3, <2>1 DEF CallArrives
<1>4. ASSUME lastAccepted' = lastAccepted
      PROVE  lastAccepted' >= lastAccepted
      BY <1>1, <1>4
<1>5. ASSUME NEW s \in Streams, Seller(s)
      PROVE  lastAccepted' = lastAccepted
      BY <1>5 DEF Seller, Created, Deliver, Ask, DemoAsk, Resume, Leave, WaitArrives, EndArrives,
                  RequestLost, facVars
<1>6. ASSUME NEW s \in Streams,
             \/ BuyerStarts(s) \/ BuyerReads(s) \/ BuyerQuits(s) \/ BuyerGivesUp(s)
             \/ BuyerSeesEnd(s) \/ VoucherLost(s) \/ WaiterTimesOut(s) \/ IdleFires(s)
      PROVE  lastAccepted' = lastAccepted
      BY <1>6 DEF BuyerStarts, BuyerReads, BuyerQuits, BuyerGivesUp, BuyerSeesEnd, VoucherLost,
                  WaiterTimesOut, IdleFires, facVars
<1>7. CASE StatusChanges \/ CallSigned \/ UNCHANGED vars
  <2>1. lastAccepted' = lastAccepted
        BY <1>7 DEF StatusChanges, CallSigned, facVars, vars
  <2>2. QED
        BY <1>1, <1>4, <2>1
<1>8. ASSUME NEW s \in Streams, Seller(s) \/ Buyer(s) \/ WaiterTimesOut(s) \/ IdleFires(s)
      PROVE  lastAccepted' >= lastAccepted
  <2>1. CASE Seller(s)
        BY <1>4, <1>5, <2>1
  <2>2. CASE Buyer(s)
    <3>1. CASE FirstVoucher(s) \/ \E answered \in Answers : VoucherArrives(s, answered)
          BY <1>2, <3>1
    <3>2. CASE ~(FirstVoucher(s) \/ \E answered \in Answers : VoucherArrives(s, answered))
          BY <1>4, <1>6, <2>2, <3>2 DEF Buyer
    <3>3. QED
          BY <3>1, <3>2
  <2>3. CASE WaiterTimesOut(s) \/ IdleFires(s)
        BY <1>4, <1>6, <2>3
  <2>4. QED
        BY <1>8, <2>1, <2>2, <2>3
<1>9. QED
      BY <1>1, <1>3, <1>7, <1>8 DEF Next

LEMMA TypedStep ==
    ASSUME Typed, \A s \in Streams : Control(s), [Next]_vars
    PROVE  Typed'
<1>1. /\ TypeOK /\ buyer \in [Streams -> BuyerType] /\ signer \in Nat
      /\ call.voucher \in Nat /\ call.voucher <= signer
      /\ \A s \in Streams : buyer[s].voucher \in Nat /\ buyer[s].voucher <= signer
      BY StreamsAssumption DEF Typed, TypeOK, BuyerType
<1>2. ASSUME TypeOK', UNCHANGED call, signer <= signer', NEW s \in Streams,
             \A t \in Streams \ {s} : Same(t), buyer'[s].voucher <= signer'
      PROVE  Typed'
  <2>1. signer' \in Nat
        BY <1>2, StreamsAssumption DEF TypeOK
  <2>2. \A t \in Streams \ {s} : buyer'[t].voucher <= signer'
        BY <1>1, <1>2, <2>1 DEF Same
  <2>3. QED
        BY <1>1, <1>2, <2>1, <2>2 DEF Typed
<1>3. ASSUME NEW s \in Streams, StreamStep(s)
      PROVE  Typed'
  <2>1. \A t \in Streams \ {s} : Same(t)
        BY <1>1, <1>3, OthersKeep
  <2>2. /\ TypeOK' /\ UNCHANGED call /\ signer <= signer' /\ buyer'[s].voucher <= signer'
    <3>1. CASE Seller(s)
          BY <1>1, <3>1, SellerTyped
    <3>2. CASE Buyer(s)
          BY <3>2, BuyerTyped
    <3>3. CASE WaiterTimesOut(s) \/ IdleFires(s)
          BY <1>1, <3>3, TimersTyped
    <3>4. QED
          BY <1>3, <3>1, <3>2, <3>3 DEF StreamStep
  <2>3. QED
        BY <1>2, <2>1, <2>2
<1>4. CASE CallSigned \/ CallArrives
  <2>1. TypeOK' /\ call'.voucher <= signer' /\ signer <= signer' /\ UNCHANGED buyer
        BY <1>4, CallsTyped
  <2>2. signer' \in Nat
        BY <2>1, StreamsAssumption DEF TypeOK
  <2>3. QED
        BY <1>1, <2>1, <2>2 DEF Typed
<1>5. CASE StatusChanges
      BY <1>5 DEF StatusChanges, Typed, TypeOK, buyVars
<1>6. CASE UNCHANGED vars
      BY <1>6 DEF vars, facVars, buyVars, Typed, TypeOK
<1>7. QED
      BY <1>3, <1>4, <1>5, <1>6 DEF Next, StreamStep
-----------------------------------------------------------------------------
(* Buyer, seller and session of a stream go together.                       *)

LEMMA SameControl ==
    ASSUME NEW t \in Streams, Same(t), Control(t)
    PROVE  Control(t)'
  BY DEF Same, Control, Unbegun, Live

LEMMA InitControl == Init => \A s \in Streams : Control(s)
  BY DEF Init, Control, Unbegun, Live

(* Nothing is told or charged after the end.                                *)
LEMMA FinishedOnce ==
    ASSUME TypeOK, NEW s \in Streams, Control(s), Live(s), Finished(s)
    PROVE  ended'[s] = <<sold[s]>> /\ session'[s] = None
<1>1. /\ session[s].charged = sold[s] /\ ended[s] = <<>>
      /\ ended \in [Streams -> Seq(Nat)] /\ session \in [Streams -> SessionType \cup {None}]
      BY DEF Control, TypeOK
<1>2. ended'[s] = Append(<<>>, sold[s])
      BY <1>1 DEF Finished, Total
<1>3. QED
      BY <1>1, <1>2 DEF Finished

(* A wait has a slice at once or a waiter.                                  *)
LEMMA WaitForSliceMoves ==
    ASSUME TypeOK, NEW s \in Streams, Live(s), WaitForSlice(s)
    PROVE  /\ session'[s] \in SessionType /\ session'[s] # None
           /\ session'[s].charged = session[s].charged /\ session'[s].vouchers = session[s].vouchers
           /\ seller'[s].units = seller[s].units /\ seller'[s].paidThrough = seller[s].paidThrough
           /\ seller'[s].required = seller[s].required
           /\ \/ /\ session[s].prepaid > 0 /\ session'[s].prepaid = session[s].prepaid - 1
                 /\ seller'[s].at = "answered" /\ seller'[s].kind = "paid"
                 /\ seller'[s].next = lastAccepted + SliceCost
              \/ /\ session[s].prepaid = 0 /\ session'[s].prepaid = 0 /\ session'[s].waiter
                 /\ seller'[s].at = "waiting" /\ seller'[s].kind = seller[s].kind
                 /\ seller'[s].next = seller[s].next
<1>1. seller \in [Streams -> SellerType] /\ seller[s] \in SellerType
      /\ session[s] \in SessionType /\ session \in [Streams -> SessionType \cup {None}]
      BY SessionTyped DEF TypeOK
<1>2. CASE session[s].prepaid > 0
  <2>1. session'[s] = TakePrepaid(session[s])
        BY <1>1, <1>2 DEF WaitForSlice
  <2>2. TakePrepaid(session[s]) \in SessionType
        BY <1>1, <1>2 DEF TakePrepaid, SessionType
  <2>3. /\ session'[s].charged = session[s].charged /\ session'[s].vouchers = session[s].vouchers
        /\ session'[s].prepaid = session[s].prepaid - 1
        BY <1>1, <2>1 DEF TakePrepaid, SessionType
  <2>4. /\ seller'[s].units = seller[s].units /\ seller'[s].paidThrough = seller[s].paidThrough
        /\ seller'[s].required = seller[s].required
        /\ seller'[s].at = "answered" /\ seller'[s].kind = "paid"
        /\ seller'[s].next = lastAccepted + SliceCost
        BY <1>1, <1>2 DEF WaitForSlice, SellerType
  <2>5. QED
        BY <1>2, <2>1, <2>2, <2>3, <2>4, SessionIsSome
<1>3. CASE ~(session[s].prepaid > 0)
  <2>1. session'[s] = [session[s] EXCEPT !.waiter = TRUE]
        BY <1>1, <1>3 DEF WaitForSlice
  <2>2. [session[s] EXCEPT !.waiter = TRUE] \in SessionType
        BY <1>1 DEF SessionType
  <2>3. /\ session'[s].charged = session[s].charged /\ session'[s].vouchers = session[s].vouchers
        /\ session'[s].prepaid = session[s].prepaid /\ session'[s].waiter = TRUE
        BY <1>1, <2>1 DEF SessionType
  <2>4. session[s].prepaid = 0
        BY <1>1, <1>3 DEF SessionType
  <2>5. /\ seller'[s].units = seller[s].units /\ seller'[s].paidThrough = seller[s].paidThrough
        /\ seller'[s].required = seller[s].required
        /\ seller'[s].at = "waiting" /\ seller'[s].kind = seller[s].kind
        /\ seller'[s].next = seller[s].next
        BY <1>1, <1>3 DEF WaitForSlice, SellerType
  <2>6. QED
        BY <2>1, <2>2, <2>3, <2>4, <2>5, SessionIsSome
<1>4. QED
      BY <1>2, <1>3

LEMMA SellerControl ==
    ASSUME TypeOK, NEW s \in Streams, Control(s), Seller(s)
    PROVE  Control(s)'
<1>1. /\ seller \in [Streams -> SellerType] /\ buyer \in [Streams -> BuyerType]
      /\ sse \in [Streams -> Seq(EventType)] /\ session \in [Streams -> SessionType \cup {None}]
      BY DEF TypeOK
<1>2. ASSUME NEW answered \in Answers, Created(s, answered)
      PROVE  Control(s)'
  <2>1. /\ seller[s].at = "opening" /\ ~Live(s) /\ ended[s] = <<>>
        BY <1>2 DEF Created, Control, Unbegun
  <2>2. /\ seller'[s].at \in {"ready", "failed"}
        /\ buyer'[s].at \notin {"idle", "starting"}
        BY <1>1, <1>2 DEF Created, SellerType, BuyerType
  <2>3. session'[s] = None \/ session'[s] = Opened(sold[s])
        BY <1>1, <1>2, <2>1 DEF Created, Live
  <2>4. UNCHANGED <<ended, sold>>
        BY <1>2 DEF Created
  <2>5. s \notin Demo
        BY <2>1 DEF Control
  <2>6. QED
        BY <2>1, <2>2, <2>3, <2>4, <2>5 DEF Control, Live, Opened
<1>3. CASE Deliver(s)
  <2>1. /\ seller'[s].at = seller[s].at /\ seller[s].at = "ready"
        /\ UNCHANGED <<buyer, session, ended, sold, sse>>
        BY <1>1, <1>3 DEF Deliver, SellerType, facVars, buyVars
  <2>2. QED
        BY <2>1 DEF Control, Live
<1>4. CASE Ask(s)
  <2>1. /\ seller'[s].at = "asking" /\ seller[s].at \in {"ready", "failed"} /\ s \notin Demo
        /\ UNCHANGED <<buyer, session, ended, sold>>
        BY <1>1, <1>4 DEF Ask, SellerType, facVars, External
  <2>2. QED
        BY <2>1 DEF Control, Live
<1>5. CASE DemoAsk(s)
  <2>1. /\ Live(s) /\ seller[s].at = "ready" /\ UNCHANGED <<buyer, sold>>
        BY <1>5 DEF Control, DemoAsk
  <2>2. CASE Exhausted
    <3>1. seller'[s].at = "ended" /\ ended'[s] = <<sold[s]>> /\ session'[s] = None
          BY <1>1, <1>5, <2>1, <2>2, FinishedOnce DEF DemoAsk, SellerType
    <3>2. QED
          BY <2>1, <3>1 DEF Control, Live
  <2>3. CASE ~Exhausted
    <3>1. ended' = ended /\ WaitForSlice(s)
          BY <1>5, <2>3 DEF DemoAsk
    <3>2. /\ seller'[s].at \in {"answered", "waiting"}
          /\ session'[s] # None /\ session'[s].charged = session[s].charged
          /\ seller'[s].at = "waiting" => session'[s].waiter
          BY <2>1, <3>1, WaitForSliceMoves
    <3>3. QED
          BY <2>1, <3>1, <3>2 DEF Control, Live
  <2>4. QED
        BY <2>2, <2>3
<1>6. CASE WaitArrives(s)
  <2>1. seller[s].at = "asking" /\ UNCHANGED <<ended, sold, buyer, sse>>
        BY <1>6 DEF WaitArrives, buyVars
  <2>2. CASE Live(s) /\ ~Exhausted
    <3>1. /\ seller'[s].at \in {"answered", "waiting"}
          /\ session'[s] # None /\ session'[s].charged = session[s].charged
          /\ seller'[s].at = "waiting" => session'[s].waiter
          BY <1>6, <2>2, WaitForSliceMoves DEF WaitArrives
    <3>2. QED
          BY <2>1, <2>2, <3>1 DEF Control, Live
  <2>3. CASE ~(Live(s) /\ ~Exhausted)
    <3>1. /\ session' = session
          /\ \/ seller' = [seller EXCEPT ![s].at = "failed"]
             \/ seller' = [seller EXCEPT ![s].at = "answered", ![s].kind = "exhausted"]
          BY <1>6, <2>3 DEF WaitArrives
    <3>2. seller'[s].at \in {"failed", "answered"}
          BY <3>1, SellerMoves, SellerMovesWith
    <3>3. QED
          BY <2>1, <3>1, <3>2 DEF Control, Live
  <2>4. QED
        BY <2>2, <2>3
<1>7. CASE Resume(s)
  <2>1. seller[s].at = "answered" /\ UNCHANGED <<sold, buyer>>
        BY <1>7 DEF Resume
  <2>2. CASE session' = session /\ ended' = ended
    <3>1. seller'[s].at = "ready" \/ (s \notin Demo /\ seller'[s].at = "ending")
          BY <1>1, <1>7, <2>2, FinishedOnce, SMTT(30) DEF Resume, SellerType, Finished, TypeOK, Control
    <3>2. QED
          BY <2>1, <2>2, <3>1 DEF Control, Live
  <2>3. CASE Finished(s) /\ seller' = [seller EXCEPT ![s].at = "ended"] /\ s \in Demo
    <3>1. seller'[s].at = "ended" /\ ended'[s] = <<sold[s]>> /\ session'[s] = None
          BY <1>1, <2>1, <2>3, FinishedOnce DEF Control, SellerType
    <3>2. QED
          BY <2>1, <3>1 DEF Control, Live
  <2>4. QED
        BY <1>7, <2>2, <2>3 DEF Resume
<1>8. CASE Leave(s)
  <2>1. seller[s].at \in {"ready", "failed"} /\ UNCHANGED <<sold, buyer>>
        BY <1>8 DEF Leave
  <2>2. CASE s \in Demo
    <3>1. Live(s) /\ Finished(s) /\ seller' = [seller EXCEPT ![s].at = "ended"]
          BY <1>8, <2>2 DEF Leave, Control, External
    <3>2. seller'[s].at = "ended" /\ ended'[s] = <<sold[s]>> /\ session'[s] = None
          BY <1>1, <3>1, FinishedOnce DEF SellerType
    <3>3. QED
          BY <2>1, <3>2 DEF Control, Live
  <2>3. CASE s \notin Demo
    <3>1. seller'[s].at = "ending" /\ UNCHANGED <<session, ended, sse>>
          BY <1>1, <1>8, <2>3 DEF Leave, SellerType
    <3>2. QED
          BY <2>1, <2>3, <3>1 DEF Control, Live
  <2>4. QED
        BY <2>2, <2>3
<1>9. CASE EndArrives(s)
  <2>1. seller[s].at = "ending" /\ seller'[s].at = "ended" /\ UNCHANGED <<sold, buyer>>
        BY <1>1, <1>9 DEF EndArrives, SellerType
  <2>2. CASE Live(s)
    <3>1. ended'[s] = <<sold[s]>> /\ session'[s] = None
          BY <1>9, <2>2, FinishedOnce DEF EndArrives
    <3>2. QED
          BY <2>1, <3>1 DEF Control, Live
  <2>3. CASE ~Live(s)
    <3>1. UNCHANGED <<session, ended>>
          BY <1>9, <2>3 DEF EndArrives
    <3>2. QED
          BY <2>1, <2>3, <3>1 DEF Control, Live
  <2>4. QED
        BY <2>2, <2>3
<1>10. CASE RequestLost(s)
  <2>1. /\ s \notin Demo /\ seller[s].at \in {"asking", "waiting", "answered", "ending"}
        /\ seller'[s].at \in {"failed", "ended"} /\ UNCHANGED <<session, ended, sold, buyer>>
        BY <1>1, <1>10 DEF RequestLost, External, SellerType, facVars, buyVars
  <2>2. QED
        BY <2>1 DEF Control, Live
<1>11. QED
       BY <1>2, <1>3, <1>4, <1>5, <1>6, <1>7, <1>8, <1>9, <1>10 DEF Seller
(* Whoever waits is answered, and nobody else is.                           *)
LEMMA AnsweredMoves ==
    ASSUME TypeOK, NEW s \in Streams, NEW accepted \in Nat,
           NEW kind \in {"paid", "timeout", "exhausted", "frozen", "aborted"},
           NEW r, r = Answered(s, kind, accepted)
    PROVE  /\ r.units = seller[s].units /\ r.paidThrough = seller[s].paidThrough
           /\ r.required = seller[s].required
           /\ \/ /\ seller[s].at = "waiting" /\ r.at = "answered" /\ r.kind = kind
                 /\ r.next = IF kind = "paid" THEN accepted + SliceCost ELSE seller[s].next
              \/ /\ seller[s].at # "waiting" /\ r.at = seller[s].at
                 /\ r.kind = seller[s].kind /\ r.next = seller[s].next
<1>1. seller[s] \in SellerType
      BY DEF TypeOK
<1>2. CASE seller[s].at = "waiting"
      BY <1>1, <1>2 DEF Answered, SellerType
<1>3. CASE seller[s].at # "waiting"
      BY <1>1, <1>3 DEF Answered
<1>4. QED
      BY <1>2, <1>3

LEMMA WakesMoves ==
    ASSUME TypeOK, NEW s \in Streams, Control(s), NEW accepted \in Nat,
           NEW kind \in {"paid", "timeout", "exhausted", "frozen", "aborted"},
           Wakes(s, kind, accepted)
    PROVE  /\ seller'[s].units = seller[s].units /\ seller'[s].paidThrough = seller[s].paidThrough
           /\ seller'[s].required = seller[s].required
           /\ \/ /\ seller[s].at = "waiting" /\ seller'[s].at = "answered" /\ seller'[s].kind = kind
                 /\ seller'[s].next = IF kind = "paid" THEN accepted + SliceCost ELSE seller[s].next
              \/ /\ seller[s].at # "waiting" /\ seller'[s].at = seller[s].at
                 /\ seller'[s].kind = seller[s].kind /\ seller'[s].next = seller[s].next
<1>1. seller \in [Streams -> SellerType]
      BY DEF TypeOK
<1>2. CASE session[s].waiter
  <2>1. seller'[s] = Answered(s, kind, accepted)
        BY <1>1, <1>2 DEF Wakes
  <2>2. PICK r : r = Answered(s, kind, accepted)
        OBVIOUS
  <2>3. QED
        BY <2>1, <2>2, AnsweredMoves
<1>3. CASE ~session[s].waiter
      BY <1>3 DEF Wakes, Control
<1>4. QED
      BY <1>2, <1>3

LEMMA TimersControl ==
    ASSUME TypeOK, NEW s \in Streams, Control(s), WaiterTimesOut(s) \/ IdleFires(s)
    PROVE  Control(s)'
<1>1. lastAccepted \in Nat /\ session \in [Streams -> SessionType \cup {None}]
      BY StreamsAssumption DEF TypeOK
<1>2. CASE WaiterTimesOut(s)
  <2>1. /\ Live(s) /\ Wakes(s, "timeout", lastAccepted)
        /\ session' = [session EXCEPT ![s].waiter = FALSE]
        /\ UNCHANGED <<ended, sold, buyer, sse>>
        BY <1>2 DEF WaiterTimesOut, buyVars
  <2>2. \/ seller[s].at = "waiting" /\ seller'[s].at = "answered"
        \/ seller[s].at # "waiting" /\ seller'[s].at = seller[s].at
        BY <1>1, <2>1, WakesMoves
  <2>3. session'[s] # None /\ session'[s].charged = session[s].charged
        BY <2>1, SessionTyped, SessionIsSome, NoWaiterTyped DEF SessionType, TypeOK
  <2>4. seller[s].at \notin {"none", "opening"}
        BY <2>1 DEF Control, Unbegun
  <2>5. QED
        BY <2>1, <2>2, <2>3, <2>4 DEF Control, Live
<1>3. CASE IdleFires(s)
  <2>1. /\ Live(s) /\ ~session[s].waiter /\ s \notin Demo
        /\ UNCHANGED <<sold, seller, buyer, sse>>
        BY <1>3 DEF IdleFires, External, buyVars
  <2>2. ended'[s] = <<sold[s]>> /\ session'[s] = None
        BY <1>3, <2>1, FinishedOnce DEF IdleFires
  <2>3. seller[s].at \notin {"none", "opening"}
        BY <2>1 DEF Control, Unbegun
  <2>4. QED
        BY <2>1, <2>2, <2>3 DEF Control, Live
<1>4. QED
      BY <1>2, <1>3

LEMMA OverMoves ==
    ASSUME TypeOK, NEW s \in Streams, Over(s)
    PROVE  buyer'[s].at = "over"
  BY DEF TypeOK, Over, BuyerType

LEMMA BuyerGoesOnMoves ==
    ASSUME TypeOK, NEW s \in Streams, BuyerGoesOn(s)
    PROVE  buyer'[s].at \in {"over", "reading"}
  BY DEF TypeOK, BuyerGoesOn, BuyerType

(* What is accepted for a live session is charged to it.                    *)
LEMMA SubmittedMoves ==
    ASSUME NEW r \in SessionType, NEW d \in Nat, NEW q, q = Submitted(r, d)
    PROVE  /\ q \in SessionType /\ q.charged = r.charged + d /\ q.vouchers = r.vouchers + 1
           /\ q.waiter = FALSE
           /\ q.prepaid = IF r.waiter THEN r.prepaid ELSE r.prepaid + 1
<1>1. q.charged = r.charged + d /\ q.vouchers = r.vouchers + 1
      BY DEF Submitted, SessionType
<1>2. q.waiter = FALSE
      BY DEF Submitted, SessionType
<1>3. q.prepaid = IF r.waiter THEN r.prepaid ELSE r.prepaid + 1
      BY DEF Submitted, SessionType
<1>4. QED
      BY <1>1, <1>2, <1>3, SubmittedTyped
(* The effect of a voucher at its arrival.                                  *)
LEMMA VoucherMoves ==
    ASSUME Typed, NEW s \in Streams, Control(s), NEW answered, VoucherArrives(s, answered)
    PROVE  /\ buyer[s].at = "paying" /\ buyer'[s].at \in {"over", "reading"}
           /\ UNCHANGED <<ended, sse>>
           /\ seller'[s].units = seller[s].units /\ seller'[s].paidThrough = seller[s].paidThrough
           /\ seller'[s].required = seller[s].required
           /\ \/ /\ Live(s) /\ Live(s)'
                 /\ buyer[s].voucher >= lastAccepted + SliceCost /\ lastAccepted' = buyer[s].voucher
                 /\ sold'[s] = sold[s] + (buyer[s].voucher - lastAccepted)
                 /\ session'[s] = Submitted(session[s], buyer[s].voucher - lastAccepted)
                 /\ Wakes(s, "paid", buyer[s].voucher)
              \/ /\ Live(s) /\ Live(s)' /\ UNCHANGED <<lastAccepted, sold>>
                 /\ session'[s].charged = session[s].charged
                 /\ session'[s].vouchers = session[s].vouchers
                 /\ session'[s].prepaid = session[s].prepaid
                 /\ Wakes(s, "exhausted", lastAccepted) \/ Wakes(s, "frozen", lastAccepted)
              \/ UNCHANGED <<lastAccepted, sold, session, seller>>
<1> DEFINE c == buyer[s].voucher
           v == Verdict(c, SliceCost)
<1>1. /\ TypeOK /\ buyer[s] \in BuyerType /\ c \in Nat /\ c <= signer /\ SliceCost \in Nat
      /\ lastAccepted \in Nat /\ session \in [Streams -> SessionType \cup {None}]
      BY StreamsAssumption, SMTT(30) DEF Typed, TypeOK, BuyerType
<1>2. buyer[s].at = "paying" /\ UNCHANGED <<ended, sse>>
      BY DEF VoucherArrives
<1>3. buyer'[s].at \in {"over", "reading"}
  <2>1. BuyerGoesOn(s) \/ Over(s)
        BY DEF VoucherArrives
  <2>2. QED
        BY <1>1, <2>1, BuyerGoesOnMoves, OverMoves
<1>4. CASE Live(s) /\ v = "ok"
  <2>1. /\ Accepted(s, c) /\ Wakes(s, "paid", c)
        /\ session' = [session EXCEPT ![s] = Submitted(session[s], c - lastAccepted)]
        BY <1>4 DEF VoucherArrives, Submittable
  <2>2. /\ lastAccepted' = c /\ sold'[s] = sold[s] + (c - lastAccepted)
        /\ c - lastAccepted \in Nat /\ c >= lastAccepted + SliceCost
        BY <1>1, <1>4, <2>1, AcceptedTyped
  <2>3. session'[s] = Submitted(session[s], c - lastAccepted) /\ session[s] \in SessionType
        BY <1>1, <1>4, <2>1, SessionTyped
  <2>4. session'[s] # None
        BY <2>2, <2>3, SubmittedTyped, SessionIsSome
  <2>5. QED
        BY <1>1, <1>2, <1>3, <1>4, <2>1, <2>2, <2>3, <2>4, WakesMoves DEF Live
<1>5. CASE Live(s) /\ v \in {"exhausted", "frozen"}
  <2>1. /\ Wakes(s, v, lastAccepted) /\ session' = [session EXCEPT ![s].waiter = FALSE]
        /\ UNCHANGED <<lastAccepted, sold>>
        BY <1>5 DEF VoucherArrives, Submittable
  <2>2. session[s] \in SessionType /\ session'[s] \in SessionType
        BY <1>1, <1>5, <2>1, SessionTyped, NoWaiterTyped
  <2>3. /\ session'[s].charged = session[s].charged /\ session'[s].vouchers = session[s].vouchers
        /\ session'[s].prepaid = session[s].prepaid
        BY <1>1, <2>1, <2>2 DEF SessionType
  <2>4. session'[s] # None
        BY <2>2, SessionIsSome
  <2>5. QED
        BY <1>1, <1>2, <1>3, <1>5, <2>1, <2>3, <2>4, WakesMoves DEF Live
<1>6. CASE ~(Live(s) /\ (v = "ok" \/ v \in {"exhausted", "frozen"}))
  <2>1. UNCHANGED <<lastAccepted, sold, session, seller>>
        BY <1>6 DEF VoucherArrives, Submittable
  <2>2. QED
        BY <1>2, <1>3, <2>1
<1>7. QED
      BY <1>4, <1>5, <1>6

(* The effect of the connection being closed.                               *)
LEMMA QuitMoves ==
    ASSUME TypeOK, NEW s \in Streams, Control(s), BuyerQuits(s)
    PROVE  /\ buyer[s].at \in {"reading", "paying", "over"}
           /\ buyer'[s].at \in {"paying", "over"} /\ (buyer'[s].at = "paying" => buyer[s].at = "paying")
           /\ buyer'[s].voucher = buyer[s].voucher /\ sse'[s] = <<>>
           /\ seller[s].at \notin {"none", "opening", "ended"}
           /\ UNCHANGED <<lastAccepted, sold, ended>>
           /\ seller'[s].units = seller[s].units /\ seller'[s].paidThrough = seller[s].paidThrough
           /\ seller'[s].required = seller[s].required /\ seller'[s].next = seller[s].next
           /\ \/ /\ s \in Demo /\ seller[s].at = "waiting" /\ seller'[s].at = "answered"
                 /\ seller'[s].kind = "aborted"
              \/ /\ s \notin Demo \/ seller[s].at # "waiting"
                 /\ seller'[s].at = seller[s].at /\ seller'[s].kind = seller[s].kind
           /\ Live(s)' <=> Live(s)
           /\ Live(s) => /\ session'[s].charged = session[s].charged
                         /\ session'[s].vouchers = session[s].vouchers
                         /\ session'[s].prepaid = session[s].prepaid
                         /\ s \notin Demo => session'[s].waiter = session[s].waiter
<1>1. /\ buyer \in [Streams -> BuyerType] /\ seller \in [Streams -> SellerType]
      /\ session \in [Streams -> SessionType \cup {None}] /\ lastAccepted \in Nat
      /\ sse \in [Streams -> Seq(EventType)]
      BY StreamsAssumption DEF TypeOK
<1>2. /\ buyer[s].at \in {"reading", "paying", "over"}
      /\ buyer'[s].at \in {"paying", "over"} /\ (buyer'[s].at = "paying" => buyer[s].at = "paying")
      /\ buyer'[s].voucher = buyer[s].voucher
      BY <1>1 DEF BuyerQuits, BuyerType
<1>3. /\ seller[s].at \notin {"none", "opening", "ended"} /\ sse'[s] = <<>>
      /\ UNCHANGED <<lastAccepted, sold, ended>>
      BY <1>1 DEF BuyerQuits
<1>4. CASE s \in Demo /\ Live(s)
  <2>1. /\ session' = [session EXCEPT ![s].waiter = FALSE]
        /\ seller' = [seller EXCEPT ![s] = [Answered(s, "aborted", lastAccepted) EXCEPT !.closed = TRUE]]
        BY <1>4 DEF BuyerQuits, Aborts
  <2>2. session[s] \in SessionType /\ session'[s] \in SessionType
        BY <1>4, <2>1, SessionTyped, NoWaiterTyped
  <2>3. /\ session'[s].charged = session[s].charged /\ session'[s].vouchers = session[s].vouchers
        /\ session'[s].prepaid = session[s].prepaid
        BY <1>1, <2>1, <2>2 DEF SessionType
  <2>4. PICK q \in SellerType : q = Answered(s, "aborted", lastAccepted)
        BY <1>1, AnsweredTyped
  <2>5. seller'[s] = [q EXCEPT !.closed = TRUE]
        BY <1>1, <2>1, <2>4
  <2>6. /\ seller'[s].units = q.units /\ seller'[s].paidThrough = q.paidThrough
        /\ seller'[s].required = q.required /\ seller'[s].next = q.next
        /\ seller'[s].at = q.at /\ seller'[s].kind = q.kind
        BY <2>5 DEF SellerType
  <2>7. /\ q.units = seller[s].units /\ q.paidThrough = seller[s].paidThrough
        /\ q.required = seller[s].required /\ q.next = seller[s].next
        /\ \/ seller[s].at = "waiting" /\ q.at = "answered" /\ q.kind = "aborted"
           \/ seller[s].at # "waiting" /\ q.at = seller[s].at /\ q.kind = seller[s].kind
        BY <1>1, <2>4, AnsweredMoves
  <2>8. Live(s)'
        BY <2>2, SessionIsSome DEF Live
  <2>9. QED
        BY <1>2, <1>3, <1>4, <2>3, <2>6, <2>7, <2>8
<1>5. CASE ~(s \in Demo /\ Live(s))
  <2>1. seller' = [seller EXCEPT ![s].closed = TRUE] /\ session' = session
        BY <1>5 DEF BuyerQuits
  <2>2. /\ seller'[s].units = seller[s].units /\ seller'[s].paidThrough = seller[s].paidThrough
        /\ seller'[s].required = seller[s].required /\ seller'[s].next = seller[s].next
        /\ seller'[s].at = seller[s].at /\ seller'[s].kind = seller[s].kind
        BY <1>1, <2>1 DEF SellerType
  <2>3. s \notin Demo \/ seller[s].at # "waiting"
        BY <1>5 DEF Control
  <2>4. QED
        BY <1>2, <1>3, <2>1, <2>2, <2>3 DEF Live
<1>6. QED
      BY <1>4, <1>5

LEMMA BuyerControl ==
    ASSUME Typed, NEW s \in Streams, Control(s), Buyer(s)
    PROVE  Control(s)'
<1>1. /\ buyer \in [Streams -> BuyerType] /\ seller \in [Streams -> SellerType]
      /\ session \in [Streams -> SessionType \cup {None}] /\ TypeOK
      /\ lastAccepted \in Nat /\ SliceCost \in Nat
      /\ buyer[s] \in BuyerType /\ buyer[s].voucher \in Nat /\ buyer[s].voucher <= signer
  <2>1. TypeOK /\ buyer[s].voucher <= signer
        BY DEF Typed
  <2>2. /\ buyer \in [Streams -> BuyerType] /\ seller \in [Streams -> SellerType]
        /\ session \in [Streams -> SessionType \cup {None}]
        BY <2>1 DEF TypeOK
  <2>3. lastAccepted \in Nat /\ SliceCost \in Nat
        BY <2>1, StreamsAssumption DEF TypeOK
  <2>4. buyer[s] \in BuyerType
        BY <2>2
  <2>5. buyer[s].voucher \in Nat
        BY <2>4, StreamsAssumption DEF BuyerType
  <2>6. QED
        BY <2>1, <2>2, <2>3, <2>4, <2>5
<1>2. CASE BuyerStarts(s)
  <2>1. buyer[s].at = "idle" /\ buyer'[s].at = "starting" /\ UNCHANGED <<facVars, seller, sse>>
        BY <1>1, <1>2 DEF BuyerStarts, BuyerType
  <2>2. QED
        BY <2>1 DEF Control, Unbegun, Live, facVars
<1>3. CASE FirstVoucher(s)
  <2> DEFINE c == buyer[s].voucher
  <2>1. /\ buyer[s].at = "starting" /\ seller[s].at = "none" /\ sold[s] = 0
        /\ Unbegun(s)
        BY <1>3 DEF FirstVoucher, Control
  <2>2. CASE Verdict(c, SliceCost) = "ok"
    <3>1. Accepted(s, c) /\ UNCHANGED <<ended, sse>>
          BY <1>3, <2>2 DEF FirstVoucher
    <3>2. sold'[s] = c - lastAccepted /\ c - lastAccepted \in Nat
          BY <1>1, <2>1, <2>2, <3>1, AcceptedTyped
    <3>3. /\ seller'[s].at = IF s \in Demo THEN "ready" ELSE "opening"
          /\ seller'[s].units = seller[s].units /\ seller'[s].paidThrough = seller[s].paidThrough
          /\ seller'[s].kind = seller[s].kind
          BY <1>1, <1>3, <2>2 DEF FirstVoucher, SellerType
    <3>4. buyer'[s].at = IF s \in Demo THEN "reading" ELSE "awaiting"
          BY <1>1, <1>3, <2>2 DEF FirstVoucher, BuyerType
    <3>5. CASE s \in Demo
      <4>1. session'[s] = Opened(c - lastAccepted)
            BY <1>1, <1>3, <2>2, <3>5 DEF FirstVoucher
      <4>2. session'[s] \in SessionType /\ session'[s].charged = sold'[s]
            BY <3>2, <4>1 DEF Opened, SessionType
      <4>3. session'[s] # None
            BY <4>2, SessionIsSome
      <4>4. QED
            BY <2>1, <3>1, <3>3, <3>4, <3>5, <4>2, <4>3 DEF Control, Unbegun, Live
    <3>6. CASE s \notin Demo
      <4>1. session' = session
            BY <1>3, <2>2, <3>6 DEF FirstVoucher
      <4>2. QED
            BY <2>1, <3>1, <3>3, <3>4, <3>6, <4>1 DEF Control, Unbegun, Live
    <3>7. QED
          BY <3>5, <3>6
  <2>3. CASE Verdict(c, SliceCost) # "ok"
    <3>1. buyer'[s].at = "over" /\ UNCHANGED <<sold, seller, session, ended, sse>>
          BY <1>1, <1>3, <2>3 DEF FirstVoucher, BuyerType
    <3>2. QED
          BY <2>1, <3>1 DEF Control, Unbegun, Live
  <2>4. QED
        BY <2>2, <2>3
<1>4. CASE BuyerReads(s)
  <2>1. /\ buyer[s].at = "reading" /\ buyer'[s].at \in {"paying", "over"}
        /\ UNCHANGED <<facVars, seller>>
        BY <1>1, <1>4 DEF BuyerReads, BuyerType
  <2>2. seller[s].at \notin {"none", "opening"}
        BY <2>1 DEF Control, Unbegun
  <2>3. QED
        BY <2>1, <2>2 DEF Control, Live, facVars
<1>5. ASSUME NEW answered \in Answers, VoucherArrives(s, answered)
      PROVE  Control(s)'
  <2> DEFINE c == buyer[s].voucher
  <2>1. buyer[s].at = "paying" /\ buyer'[s].at \in {"over", "reading"} /\ UNCHANGED ended
        BY <1>5, VoucherMoves
  <2>2. seller[s].at \notin {"none", "opening"}
        BY <2>1 DEF Control, Unbegun
  <2>3. CASE /\ Live(s) /\ Live(s)' /\ c >= lastAccepted + SliceCost
             /\ sold'[s] = sold[s] + (c - lastAccepted)
             /\ session'[s] = Submitted(session[s], c - lastAccepted)
             /\ Wakes(s, "paid", c)
    <3>1. session[s] \in SessionType /\ c - lastAccepted \in Nat
          BY <1>1, <2>3, SessionTyped
    <3>2. session'[s].charged = session[s].charged + (c - lastAccepted)
          BY <2>3, <3>1, SubmittedMoves
    <3>3. \/ seller[s].at = "waiting" /\ seller'[s].at = "answered"
          \/ seller[s].at # "waiting" /\ seller'[s].at = seller[s].at
          BY <1>1, <2>3, WakesMoves
    <3>4. session[s].charged = sold[s] /\ ended[s] = <<>>
          BY <2>3 DEF Control
    <3>5. QED
          BY <2>1, <2>2, <2>3, <3>2, <3>3, <3>4 DEF Control
  <2>4. CASE /\ Live(s) /\ Live(s)' /\ UNCHANGED <<lastAccepted, sold>>
             /\ session'[s].charged = session[s].charged
             /\ Wakes(s, "exhausted", lastAccepted) \/ Wakes(s, "frozen", lastAccepted)
    <3>1. \/ seller[s].at = "waiting" /\ seller'[s].at = "answered"
          \/ seller[s].at # "waiting" /\ seller'[s].at = seller[s].at
          BY <1>1, <2>4, WakesMoves
    <3>2. QED
          BY <2>1, <2>2, <2>4, <3>1 DEF Control
  <2>5. CASE UNCHANGED <<lastAccepted, sold, session, seller>>
        BY <2>1, <2>2, <2>5 DEF Control, Live
  <2>6. QED
        BY <1>5, <2>3, <2>4, <2>5, VoucherMoves
<1>6. CASE VoucherLost(s) \/ BuyerSeesEnd(s) \/ BuyerGivesUp(s)
  <2>1. /\ buyer[s].at \notin {"idle", "starting"} /\ buyer'[s].at = "over"
        /\ UNCHANGED <<facVars, seller, sse>>
        BY <1>1, <1>6, OverMoves DEF VoucherLost, BuyerSeesEnd, BuyerGivesUp, BuyerType
  <2>2. QED
        BY <2>1 DEF Control, Unbegun, Live, facVars
<1>7. CASE BuyerQuits(s)
      BY <1>1, <1>7, QuitMoves DEF Control
<1>8. QED
      BY <1>2, <1>3, <1>4, <1>5, <1>6, <1>7 DEF Buyer

LEMMA ControlStep ==
    ASSUME Typed, \A s \in Streams : Control(s), [Next]_vars, NEW t \in Streams
    PROVE  Control(t)'
<1>1. TypeOK
      BY DEF Typed
<1>2. ASSUME NEW s \in Streams, StreamStep(s)
      PROVE  Control(t)'
  <2>1. CASE t = s
    <3>1. CASE Seller(s)
          BY <1>1, <2>1, <3>1, SellerControl
    <3>2. CASE Buyer(s)
          BY <2>1, <3>2, BuyerControl
    <3>3. CASE WaiterTimesOut(s) \/ IdleFires(s)
          BY <1>1, <2>1, <3>3, TimersControl
    <3>4. QED
          BY <1>2, <3>1, <3>2, <3>3 DEF StreamStep
  <2>2. CASE t # s
        BY <1>1, <1>2, <2>2, OthersKeep, SameControl
  <2>3. QED
        BY <2>1, <2>2
<1>3. CASE StatusChanges \/ CallSigned \/ CallArrives \/ UNCHANGED vars
  <2>1. Same(t)
        BY <1>3 DEF StatusChanges, CallSigned, CallArrives, vars, facVars, buyVars, Same
  <2>2. QED
        BY <2>1, SameControl
<1>4. QED
      BY <1>2, <1>3 DEF Next, StreamStep

(* What a session has charged, and what is told at its end, is what the facilitator accepted
   for the stream; nothing is accepted after the end; and no seller waits for an answer that
   cannot come: for any number of streams, sold by anyone, over any network.            *)
THEOREM AlwaysChargedAsSold == Spec => []ChargedIsSold
<1> DEFINE Inv == Typed /\ \A s \in Streams : Control(s)
<1>1. Init => Inv
      BY InitTyped, InitControl
<1>2. Inv /\ [Next]_vars => Inv'
      BY TypedStep, ControlStep
<1>3. Inv => ChargedIsSold
      BY DEF Typed, Control, ChargedIsSold, NobodyHangs
<1>4. QED
      BY <1>1, <1>2, <1>3, PTL DEF Spec
-----------------------------------------------------------------------------
(* Slice by slice.                                                          *)

(* The total that pays the next slice.                                      *)
Newest == lastAccepted + SliceCost

(* The totals that events on their way ask for, and the one being paid.     *)
Bills(s) == {r \in Nat : \E i \in DOMAIN sse[s] : sse[s][i] = Pay(r)}
Asked(s) == Bills(s) \cup (IF buyer[s].at = "paying" THEN {buyer[s].voucher} ELSE {})

(* The buyer will yet pay a slice.                                          *)
Wanted(s) == \E r \in Asked(s) : r >= Newest

(* A slice was paid that the seller does not count yet: its wait is
   answered, or a voucher came while nobody waited.                         *)
Granted(s) == seller[s].at = "answered" /\ seller[s].kind = "paid"
InAdvance(s) == Live(s) /\ session[s].prepaid > 0

(* Nobody asks for more than one slice beyond what has been accepted.       *)
Priced(s) ==
    /\ seller[s].required <= Newest /\ seller[s].next <= Newest
    /\ \A r \in Asked(s) : r <= Newest

(* What the seller has counted is paid, and so is what it will count next.  *)
Covered(s) ==
    /\ seller[s].units <= seller[s].paidThrough
    /\ seller[s].at # "none" => seller[s].paidThrough * SliceCost <= sold[s] * Slice
    /\ Granted(s) \/ InAdvance(s) => (seller[s].paidThrough + Slice) * SliceCost <= sold[s] * Slice

(* The session's vouchers against the seller's units: while the buyer will
   yet pay, all that was paid has been delivered; while the seller can ask
   again, it has counted all that was paid.                                 *)
InStep(s) ==
    Live(s) =>
        /\ session[s].vouchers * Slice <= seller[s].units + Slice
        /\ session[s].prepaid <= 1 /\ ~(Granted(s) /\ InAdvance(s))
        /\ Wanted(s) => /\ session[s].vouchers * Slice <= seller[s].units
                        /\ ~InAdvance(s) /\ ~Granted(s)
                        /\ s \in Demo => seller[s].at \in {"waiting", "answered"}
        /\ s \notin Demo /\ seller[s].required >= Newest
              => /\ session[s].vouchers * Slice <= seller[s].paidThrough
                 /\ ~InAdvance(s) /\ ~Granted(s)
        /\ Granted(s) \/ InAdvance(s) => session[s].vouchers * Slice <= seller[s].paidThrough + Slice
        /\ s \in Demo /\ seller[s].at = "ready"
              => session[s].vouchers * Slice <= seller[s].paidThrough /\ ~InAdvance(s)

Slices(s) == Covered(s) /\ Priced(s) /\ InStep(s)

(* The numbers of a stream.                                                 *)
LEMMA Numbers ==
    ASSUME TypeOK, NEW s \in Streams
    PROVE  /\ seller[s].units \in Nat /\ seller[s].paidThrough \in Nat
           /\ seller[s].required \in Nat /\ seller[s].next \in Nat
           /\ buyer[s].voucher \in Nat /\ sold[s] \in Nat
           /\ lastAccepted \in Nat /\ Newest \in Nat /\ Newest > lastAccepted
           /\ Slice \in Nat \ {0} /\ SliceCost \in Nat \ {0}
           /\ Live(s) => session[s].vouchers \in Nat /\ session[s].prepaid \in Nat
           /\ \A r \in Asked(s) : r \in Nat
<1>1. /\ seller[s] \in SellerType /\ buyer[s] \in BuyerType /\ sold[s] \in Nat
      /\ Slice \in Nat \ {0} /\ SliceCost \in Nat \ {0} /\ Deposit \in Nat
      BY StreamsAssumption DEF TypeOK
<1>2. lastAccepted \in Nat
      BY StreamsAssumption DEF TypeOK
<1>3. Newest \in Nat /\ Newest > lastAccepted
      BY <1>1, <1>2 DEF Newest
<1>4. /\ seller[s].units \in Nat /\ seller[s].paidThrough \in Nat
      /\ seller[s].required \in Nat /\ seller[s].next \in Nat
      BY <1>1 DEF SellerType
<1>5. buyer[s].voucher \in Nat
      BY <1>1 DEF BuyerType
<1>6. Live(s) => session[s].vouchers \in Nat /\ session[s].prepaid \in Nat
      BY SessionTyped DEF SessionType
<1>7. \A r \in Asked(s) : r \in Nat
      BY <1>5 DEF Asked, Bills
<1>8. QED
      BY <1>1, <1>2, <1>3, <1>4, <1>5, <1>6, <1>7

LEMMA SameAsked ==
    ASSUME NEW t \in Streams, sse'[t] = sse[t], buyer'[t] = buyer[t]
    PROVE  Asked(t)' = Asked(t)
  BY DEF Asked, Bills

(* As more is accepted, what was asked for no longer pays a slice.          *)
LEMMA SameSlices ==
    ASSUME TypeOK, TypeOK', NEW t \in Streams, Same(t), Slices(t), lastAccepted' >= lastAccepted
    PROVE  Slices(t)'
<1>1. /\ Live(t)' <=> Live(t)
      /\ Granted(t)' <=> Granted(t)
      /\ InAdvance(t)' <=> InAdvance(t)
      BY DEF Same, Live, Granted, InAdvance
<1>2. Asked(t)' = Asked(t)
      BY SameAsked DEF Same
<1>3. Newest' >= Newest /\ Newest' \in Nat /\ Newest \in Nat
  <2>1. lastAccepted \in Nat /\ SliceCost \in Nat
        BY Numbers
  <2>2. lastAccepted' \in Nat
    <3>1. lastAccepted' \in 0..signer'
          BY DEF TypeOK
    <3>2. QED
          BY <3>1
  <2>3. PICK m \in Nat, n \in Nat, k \in Nat :
             m = lastAccepted /\ n = lastAccepted' /\ k = SliceCost
        BY <2>1, <2>2
  <2>4. Newest = m + k /\ Newest' = n + k /\ m <= n
        BY <2>3 DEF Newest
  <2>5. m + k \in Nat /\ n + k \in Nat /\ m + k <= n + k
        BY <2>4
  <2>6. QED
        BY <2>4, <2>5
<1>4. \A r \in Asked(t) : r \in Nat
      BY Numbers
<1>5. Wanted(t)' => Wanted(t)
      BY <1>2, <1>3, <1>4 DEF Wanted
<1>6. Covered(t)'
      BY <1>1 DEF Slices, Covered, Same
<1>7. Priced(t)'
  <2>1. seller[t].required \in Nat /\ seller[t].next \in Nat
        BY Numbers
  <2>2. QED
        BY <1>2, <1>3, <1>4, <2>1 DEF Slices, Priced, Same
<1>8. InStep(t)'
  <2>1. seller[t].required \in Nat /\ (seller'[t].required >= Newest' => seller[t].required >= Newest)
        BY <1>3, Numbers DEF Same
  <2>2. QED
        BY <1>1, <1>5, <2>1 DEF Slices, InStep, Same
<1>9. QED
      BY <1>6, <1>7, <1>8 DEF Slices

(* A step that neither pays nor delivers nor asks.                          *)
LEMMA QuietKeeps ==
    ASSUME TypeOK, TypeOK', NEW s \in Streams, Slices(s), lastAccepted' = lastAccepted,
           sold'[s] = sold[s], Asked(s)' \subseteq Asked(s),
           seller'[s].units = seller[s].units, seller'[s].paidThrough = seller[s].paidThrough,
           seller'[s].required = seller[s].required, seller'[s].next \in {seller[s].next, 0},
           seller'[s].at # "none" => seller[s].at # "none",
           Granted(s)' => Granted(s),
           Live(s)' => /\ Live(s)
                       /\ session'[s].vouchers = session[s].vouchers
                       /\ session'[s].prepaid = session[s].prepaid
                       /\ s \in Demo => \/ seller'[s].at = seller[s].at
                                        \/ seller[s].at = "waiting" /\ seller'[s].at = "answered"
    PROVE  Slices(s)'
<1>1. Newest' = Newest /\ Newest \in Nat
      BY Numbers DEF Newest
<1>2. Wanted(s)' => Wanted(s)
      BY <1>1 DEF Wanted
<1>3. InAdvance(s)' => InAdvance(s)
      BY DEF InAdvance
<1>4. Covered(s)'
      BY <1>3 DEF Slices, Covered
<1>5. Priced(s)'
      BY <1>1 DEF Slices, Priced
<1>6. ASSUME Live(s)'
      PROVE  InStep(s)'
  <2>1. /\ Live(s) /\ session'[s].vouchers = session[s].vouchers
        /\ session'[s].prepaid = session[s].prepaid
        BY <1>6
  <2>2. s \in Demo => \/ seller'[s].at = seller[s].at
                      \/ seller[s].at = "waiting" /\ seller'[s].at = "answered"
        BY <1>6
  <2>3. s \in Demo /\ Wanted(s)' => seller'[s].at \in {"waiting", "answered"}
        BY <1>2, <2>1, <2>2 DEF Slices, InStep
  <2>4. s \in Demo /\ seller'[s].at = "ready" => seller[s].at = "ready"
        BY <2>2
  <2>5. QED
        BY <1>1, <1>2, <1>3, <2>1, <2>3, <2>4 DEF Slices, InStep
<1>7. QED
      BY <1>4, <1>5, <1>6 DEF Slices, InStep

(* Multiplying.                                                             *)
LEMMA Distributes ==
    ASSUME NEW m \in Nat, NEW n \in Nat, NEW k \in Nat
    PROVE  (m + n) * k = m * k + n * k /\ m * k \in Nat
  OBVIOUS

LEMMA Grows ==
    ASSUME NEW m \in Nat, NEW n \in Nat, NEW k \in Nat, m <= n
    PROVE  m * k <= n * k
<1>1. PICK d \in Nat : n = m + d
      BY n - m \in Nat, n = m + (n - m)
<1>2. n * k = m * k + d * k /\ m * k \in Nat /\ d * k \in Nat
      BY <1>1, Distributes
<1>3. QED
      BY <1>2

(* What an event asks for.                                                  *)
LEMMA EventsAsk ==
    /\ \A r \in Nat : Pay(r) # Error
    /\ \A r, n \in Nat : Pay(r) # Done(n)
    /\ \A r, n \in Nat : Pay(r) = Pay(n) => r = n
<1>1. \A r \in Nat : Pay(r).type = "payment-required" /\ Pay(r).required = r
      BY DEF Pay
<1>2. Error.type = "error" /\ \A n \in Nat : Done(n).type = "done"
      BY DEF Error, Done
<1>3. QED
      BY <1>1, <1>2

(* An event on its way asks for what it says, and for nothing else.         *)
LEMMA SentAsks ==
    ASSUME TypeOK, NEW s \in Streams, NEW e \in EventType, Sent(s, <<e>>), buyer'[s] = buyer[s]
    PROVE  Asked(s)' \subseteq Asked(s) \cup {r \in Nat : e = Pay(r)}
<1>1. CASE seller[s].closed
      BY <1>1 DEF Sent, Asked, Bills
<1>2. CASE ~seller[s].closed
  <2>1. sse[s] \in Seq(EventType) /\ sse'[s] = sse[s] \o <<e>>
        BY <1>2 DEF TypeOK, Sent
  <2>2. PICK q \in Seq(EventType) : q = sse[s]
        BY <2>1
  <2>3. \A i \in DOMAIN (q \o <<e>>) : \/ i \in DOMAIN q /\ (q \o <<e>>)[i] = q[i]
                                       \/ (q \o <<e>>)[i] = e
        OBVIOUS
  <2>4. Bills(s)' \subseteq Bills(s) \cup {r \in Nat : e = Pay(r)}
        BY <2>1, <2>2, <2>3 DEF Bills
  <2>5. QED
        BY <2>4 DEF Asked
<1>3. QED
      BY <1>1, <1>2

LEMMA NothingSent ==
    ASSUME TypeOK, NEW s \in Streams, Sent(s, <<>>)
    PROVE  sse' = sse
<1>1. sse \in [Streams -> Seq(EventType)] /\ sse[s] \o <<>> = sse[s]
      BY DEF TypeOK
<1>2. [sse EXCEPT ![s] = sse[s]] = sse
      BY <1>1
<1>3. sse' = IF seller[s].closed THEN sse ELSE [sse EXCEPT ![s] = sse[s]]
      BY <1>1 DEF Sent
<1>4. QED
      BY <1>2, <1>3

LEMMA NothingAsked ==
    ASSUME NEW s \in Streams, sse[s] = <<>>, buyer[s].at # "paying"
    PROVE  Asked(s) = {}
  BY DEF Asked, Bills

(* The first event is read.                                                 *)
LEMMA HeadAsked ==
    ASSUME TypeOK, NEW s \in Streams, sse[s] # <<>>
    PROVE  /\ Head(sse[s]) \in EventType
           /\ \A r \in Nat : Head(sse[s]) = Pay(r) => r \in Bills(s)
           /\ sse' = [sse EXCEPT ![s] = Tail(@)] => Bills(s)' \subseteq Bills(s)
<1>1. PICK q \in Seq(EventType) : q = sse[s]
      BY DEF TypeOK
<1>2. q # <<>>
      BY <1>1
<1>3. Head(q) = q[1] /\ 1 \in DOMAIN q /\ Head(q) \in EventType
      BY <1>2
<1>4. \A i \in DOMAIN Tail(q) : i + 1 \in DOMAIN q /\ Tail(q)[i] = q[i + 1]
      BY <1>2
<1>5. ASSUME sse' = [sse EXCEPT ![s] = Tail(@)]
      PROVE  Bills(s)' \subseteq Bills(s)
  <2>1. sse'[s] = Tail(q)
        BY <1>1, <1>5 DEF TypeOK
  <2>2. QED
        BY <1>1, <1>4, <2>1 DEF Bills
<1>6. QED
      BY <1>1, <1>3, <1>5 DEF Bills

(* A unit within the slice.                                                 *)
LEMMA DeliverSlices ==
    ASSUME TypeOK, TypeOK', NEW s \in Streams, Slices(s), Deliver(s)
    PROVE  Slices(s)'
<1>1. /\ seller'[s].at = seller[s].at /\ seller'[s].units = seller[s].units + 1
      /\ seller'[s].paidThrough = seller[s].paidThrough /\ seller'[s].kind = seller[s].kind
      /\ seller'[s].required = seller[s].required /\ seller'[s].next = seller[s].next
  <2>1. seller' = [seller EXCEPT ![s].units = @ + 1]
        BY DEF Deliver
  <2>2. QED
        BY <2>1 DEF TypeOK, SellerType
<1>2. UNCHANGED <<facVars, buyVars>> /\ seller[s].units < seller[s].paidThrough
  <2>1. UNCHANGED <<facVars, buyVars>> /\ ~UsedUp(s)
        BY DEF Deliver
  <2>2. QED
        BY <2>1, Numbers DEF UsedUp
<1>3. /\ Live(s)' <=> Live(s)
      /\ Granted(s)' <=> Granted(s)
      /\ InAdvance(s)' <=> InAdvance(s)
      BY <1>1, <1>2 DEF Live, Granted, InAdvance, facVars
<1>4. Asked(s)' = Asked(s) /\ Newest' = Newest
      BY <1>2, SameAsked DEF facVars, buyVars, Newest
<1>5. Wanted(s)' <=> Wanted(s)
      BY <1>4 DEF Wanted
<1>6. Covered(s)'
  <2>1. seller'[s].units <= seller'[s].paidThrough
        BY <1>1, <1>2, Numbers
  <2>2. QED
        BY <1>1, <1>2, <1>3, <2>1 DEF Slices, Covered, facVars
<1>7. Priced(s)'
      BY <1>1, <1>4 DEF Slices, Priced
<1>8. InStep(s)'
  <2>1. /\ seller[s].units \in Nat /\ Slice \in Nat
        /\ Live(s) => session[s].vouchers * Slice \in Nat
        BY Numbers, Distributes
  <2>2. \A n \in Nat : /\ n <= seller[s].units + Slice => n <= seller[s].units + 1 + Slice
                       /\ n <= seller[s].units => n <= seller[s].units + 1
        BY <2>1
  <2>3. Live(s)' => /\ session'[s].vouchers * Slice <= seller'[s].units + Slice
                    /\ Wanted(s)' => session'[s].vouchers * Slice <= seller'[s].units
        BY <1>1, <1>2, <1>3, <1>5, <2>1, <2>2 DEF Slices, InStep, facVars
  <2>4. QED
        BY <1>1, <1>2, <1>3, <1>4, <1>5, <2>3 DEF Slices, InStep, facVars
<1>9. QED
      BY <1>6, <1>7, <1>8 DEF Slices

(* The session is created: its first voucher is its first slice.            *)
LEMMA CreatedSlices ==
    ASSUME TypeOK, TypeOK', NEW s \in Streams, Control(s), Slices(s),
           NEW answered, Created(s, answered)
    PROVE  Slices(s)'
<1>1. /\ seller[s].at = "opening" /\ UNCHANGED <<lastAccepted, sold, sse>>
      /\ seller'[s].at \in {"ready", "failed"} /\ seller'[s].required = Newest
      /\ seller'[s].units = seller[s].units /\ seller'[s].paidThrough = seller[s].paidThrough
      /\ seller'[s].kind = seller[s].kind /\ seller'[s].next = seller[s].next
      /\ buyer'[s].at \in {"reading", "over"}
  <2> DEFINE ok == answered /\ ~(Cardinality({t \in External : Live(t)}) >= MaxPerChannel)
  <2>1. PICK a \in {"ready", "failed"}, n \in Nat : a = (IF ok THEN "ready" ELSE "failed") /\ n = Newest
        BY Numbers
  <2>2. seller' = [seller EXCEPT ![s].at = a, ![s].required = n]
        BY <2>1 DEF Created, Newest
  <2>3. PICK b \in {"reading", "over"} :
             b = (IF ok /\ buyer[s].at = "awaiting" THEN "reading" ELSE "over")
        OBVIOUS
  <2>4. buyer' = [buyer EXCEPT ![s].at = b]
        BY <2>3 DEF Created, TypeOK
  <2>5. /\ seller'[s].at = a /\ seller'[s].required = n
        /\ seller'[s].units = seller[s].units /\ seller'[s].paidThrough = seller[s].paidThrough
        /\ seller'[s].kind = seller[s].kind /\ seller'[s].next = seller[s].next
        BY <2>2 DEF TypeOK, SellerType
  <2>6. buyer'[s].at = b
        BY <2>4 DEF TypeOK, BuyerType
  <2>7. seller[s].at = "opening" /\ UNCHANGED <<lastAccepted, sold, sse>>
        BY DEF Created
  <2>8. QED
        BY <2>1, <2>3, <2>5, <2>6, <2>7
<1>2. /\ seller[s].units = 0 /\ seller[s].paidThrough = Slice /\ seller[s].kind = "none"
      /\ sse'[s] = <<>> /\ ~Live(s)
      BY <1>1 DEF Control, Unbegun
<1>3. Live(s)' => session'[s].vouchers = 1 /\ session'[s].prepaid = 0
  <2>1. session' = session \/ session' = [session EXCEPT ![s] = Opened(sold[s])]
        BY DEF Created
  <2>2. Live(s)' => session'[s] = Opened(sold[s])
        BY <1>2, <2>1 DEF TypeOK, Live
  <2>3. QED
        BY <2>2 DEF Opened
<1>4. Asked(s)' = {}
      BY <1>1, <1>2 DEF Asked, Bills
<1>5. ~Wanted(s)' /\ ~Granted(s)' /\ ~InAdvance(s)' /\ Newest' = Newest
      BY <1>1, <1>3, <1>4 DEF Wanted, Granted, InAdvance, Newest
<1>6. Covered(s)'
      BY <1>1, <1>5 DEF Slices, Covered
<1>7. Priced(s)'
      BY <1>1, <1>4, <1>5, Numbers DEF Slices, Priced
<1>8. InStep(s)'
  <2>1. Live(s)' => session'[s].vouchers * Slice = Slice
        BY <1>3, Numbers
  <2>2. seller'[s].units = 0 /\ seller'[s].paidThrough = Slice /\ Slice \in Nat
        BY <1>1, <1>2, Numbers
  <2>3. Live(s)' => /\ session'[s].vouchers * Slice <= seller'[s].units + Slice
                    /\ session'[s].vouchers * Slice <= seller'[s].paidThrough
                    /\ session'[s].prepaid <= 1
        BY <1>3, <2>1, <2>2
  <2>4. QED
        BY <1>5, <2>3 DEF InStep
<1>9. QED
      BY <1>6, <1>7, <1>8 DEF Slices

(* The seller asks for the next slice, which it says the price of.          *)
LEMMA AskSlices ==
    ASSUME TypeOK, TypeOK', NEW s \in Streams, Slices(s), Ask(s)
    PROVE  Slices(s)'
<1>1. /\ UNCHANGED <<facVars, buyer>> /\ s \notin Demo
      /\ seller[s].at \in {"ready", "failed"} /\ seller'[s].at = "asking"
      /\ seller'[s].units = seller[s].units /\ seller'[s].paidThrough = seller[s].paidThrough
      /\ seller'[s].required = seller[s].required /\ seller'[s].next = seller[s].next
  <2>1. seller' = [seller EXCEPT ![s].at = "asking"]
        BY DEF Ask
  <2>2. /\ seller'[s].at = "asking"
        /\ seller'[s].units = seller[s].units /\ seller'[s].paidThrough = seller[s].paidThrough
        /\ seller'[s].required = seller[s].required /\ seller'[s].next = seller[s].next
        BY <2>1 DEF TypeOK, SellerType
  <2>3. UNCHANGED <<facVars, buyer>> /\ s \notin Demo /\ seller[s].at \in {"ready", "failed"}
        BY DEF Ask, External
  <2>4. QED
        BY <2>2, <2>3
<1>2. seller[s].units >= seller[s].paidThrough
      BY DEF Ask, UsedUp
<1>3. Asked(s)' \subseteq Asked(s) \cup {seller[s].required}
  <2>1. PICK n \in Nat : n = seller[s].required
        BY Numbers
  <2>2. Sent(s, <<Pay(n)>>) /\ Pay(n) \in EventType
        BY <2>1, EventsTyped DEF Ask
  <2>3. Asked(s)' \subseteq Asked(s) \cup {r \in Nat : Pay(n) = Pay(r)}
        BY <1>1, <2>2, SentAsks
  <2>4. QED
        BY <2>1, <2>3, EventsAsk
<1>4. /\ Newest' = Newest /\ Newest \in Nat
      /\ Live(s)' <=> Live(s)
      /\ ~Granted(s)'
      /\ InAdvance(s)' <=> InAdvance(s)
      BY <1>1, Numbers DEF facVars, Newest, Live, Granted, InAdvance
<1>5. Covered(s)'
      BY <1>1, <1>4 DEF Slices, Covered, facVars
<1>6. Priced(s)'
      BY <1>1, <1>3, <1>4 DEF Slices, Priced
<1>7. InStep(s)'
  <2>1. seller[s].units = seller[s].paidThrough
        BY <1>2, Numbers DEF Slices, Covered
  <2>2. Wanted(s)' => Wanted(s) \/ seller[s].required >= Newest
        BY <1>3, <1>4 DEF Wanted
  <2>3. QED
        BY <1>1, <1>4, <2>1, <2>2 DEF Slices, InStep, facVars
<1>8. QED
      BY <1>5, <1>6, <1>7 DEF Slices

(* A wait is refused, granted at once, or pending.                          *)
LEMMA WaitSlices ==
    ASSUME TypeOK, TypeOK', NEW s \in Streams, Control(s), Slices(s), WaitArrives(s)
    PROVE  Slices(s)'
<1>1. /\ UNCHANGED <<lastAccepted, status, ended, sold, called, buyVars>>
      /\ seller[s].at = "asking" /\ s \notin Demo
      BY DEF WaitArrives, Control
<1>2. Asked(s)' = Asked(s)
      BY <1>1, SameAsked DEF buyVars
<1>3. CASE UNCHANGED session /\ \/ seller' = [seller EXCEPT ![s].at = "failed"]
                                \/ seller' = [seller EXCEPT ![s].at = "answered", ![s].kind = "exhausted"]
  <2>1. /\ seller'[s].units = seller[s].units /\ seller'[s].paidThrough = seller[s].paidThrough
        /\ seller'[s].required = seller[s].required /\ seller'[s].next = seller[s].next
        /\ \/ seller'[s].at = "failed"
           \/ seller'[s].at = "answered" /\ seller'[s].kind = "exhausted"
        BY <1>3, SellerMoves, SellerMovesWith
  <2>2. ~Granted(s)'
        BY <2>1 DEF Granted
  <2>3. QED
        BY <1>1, <1>2, <1>3, <2>1, <2>2, QuietKeeps DEF Live
<1>4. CASE Live(s) /\ WaitForSlice(s)
  <2>1. /\ Live(s) /\ Live(s)' /\ session'[s].vouchers = session[s].vouchers
        /\ seller'[s].units = seller[s].units /\ seller'[s].paidThrough = seller[s].paidThrough
        /\ seller'[s].required = seller[s].required
        BY <1>4, WaitForSliceMoves DEF Live
  <2>2. CASE /\ session[s].prepaid > 0 /\ session'[s].prepaid = session[s].prepaid - 1
             /\ seller'[s].at = "answered" /\ seller'[s].kind = "paid"
             /\ seller'[s].next = lastAccepted + SliceCost
    <3>1. InAdvance(s) /\ session[s].prepaid = 1 /\ session'[s].prepaid = 0
          BY <2>1, <2>2, Numbers DEF InAdvance, Slices, InStep
    <3>2. /\ Granted(s)' /\ ~InAdvance(s)'
          /\ Newest' = Newest /\ seller'[s].next = Newest /\ Newest \in Nat
          BY <1>1, <2>2, <3>1, Numbers DEF Granted, InAdvance, Newest
    <3>3. ~Wanted(s)' /\ ~(seller'[s].required >= Newest')
          BY <1>1, <1>2, <2>1, <3>1, <3>2 DEF Slices, InStep, Wanted
    <3>4. Covered(s)'
          BY <1>1, <2>1, <3>1, <3>2 DEF Slices, Covered
    <3>5. Priced(s)'
          BY <1>2, <2>1, <3>2 DEF Slices, Priced
    <3>6. InStep(s)'
          BY <1>1, <2>1, <3>1, <3>2, <3>3 DEF Slices, InStep
    <3>7. QED
          BY <3>4, <3>5, <3>6 DEF Slices
  <2>3. CASE /\ session[s].prepaid = 0 /\ session'[s].prepaid = 0 /\ session'[s].waiter
             /\ seller'[s].at = "waiting" /\ seller'[s].kind = seller[s].kind
             /\ seller'[s].next = seller[s].next
    <3>1. ~Granted(s)'
          BY <2>3 DEF Granted
    <3>2. QED
          BY <1>1, <1>2, <2>1, <2>3, <3>1, QuietKeeps
  <2>4. QED
        BY <1>4, <2>2, <2>3, WaitForSliceMoves
<1>5. QED
      BY <1>3, <1>4 DEF WaitArrives

(* The end of a stream, by a loop, its seller or a timer.                   *)
LEMMA EndKeeps ==
    ASSUME TypeOK, TypeOK', NEW s \in Streams, Control(s), Slices(s), Live(s), Finished(s),
           lastAccepted' = lastAccepted, sold' = sold, Asked(s)' \subseteq Asked(s),
           \/ seller' = seller
           \/ seller' = [seller EXCEPT ![s].at = "ended"]
    PROVE  Slices(s)'
<1>1. ~Live(s)'
      BY FinishedOnce DEF Live
<1>2. /\ seller'[s].units = seller[s].units /\ seller'[s].paidThrough = seller[s].paidThrough
      /\ seller'[s].required = seller[s].required /\ seller'[s].next = seller[s].next
      /\ seller'[s].kind = seller[s].kind /\ seller'[s].at \in {seller[s].at, "ended"}
      BY SellerMoves
<1>3. (Granted(s)' => Granted(s)) /\ (seller'[s].at # "none" => seller[s].at # "none")
  <2>1. seller[s].at # "none"
        BY DEF Control, Unbegun
  <2>2. QED
        BY <1>2, <2>1 DEF Granted
<1>4. QED
      BY <1>1, <1>2, <1>3, QuietKeeps

(* A demo loop asks and waits in one go.                                    *)
LEMMA DemoAskSlices ==
    ASSUME TypeOK, TypeOK', NEW s \in Streams, Control(s), Slices(s), DemoAsk(s)
    PROVE  Slices(s)'
<1>1. /\ UNCHANGED <<lastAccepted, sold, buyer>>
      /\ s \in Demo /\ seller[s].at = "ready" /\ Live(s)
      BY DEF DemoAsk, Control
<1>2. CASE Exhausted
  <2>1. Sent(s, <<Error>>) /\ Finished(s) /\ seller' = [seller EXCEPT ![s].at = "ended"]
        BY <1>2 DEF DemoAsk
  <2>2. Asked(s)' \subseteq Asked(s) \cup {r \in Nat : Error = Pay(r)}
        BY <1>1, <2>1, SentAsks, EventsTyped
  <2>3. Asked(s)' \subseteq Asked(s)
        BY <2>2, EventsAsk
  <2>4. QED
        BY <1>1, <2>1, <2>3, EndKeeps
<1>3. CASE ~Exhausted
  <2>1. Sent(s, <<Pay(Newest)>>) /\ WaitForSlice(s)
        BY <1>3 DEF DemoAsk, Newest
  <2>2. Asked(s)' \subseteq Asked(s) \cup {Newest}
    <3>1. PICK n \in Nat : n = Newest
          BY Numbers
    <3>2. Sent(s, <<Pay(n)>>) /\ Pay(n) \in EventType
          BY <2>1, <3>1, EventsTyped
    <3>3. Asked(s)' \subseteq Asked(s) \cup {r \in Nat : Pay(n) = Pay(r)}
          BY <1>1, <3>2, SentAsks
    <3>4. QED
          BY <3>1, <3>3, EventsAsk
  <2>3. /\ session[s].vouchers * Slice <= seller[s].paidThrough
        /\ ~InAdvance(s) /\ session[s].prepaid = 0
        BY <1>1, Numbers DEF Slices, InStep, InAdvance
  <2>4. /\ Live(s)' /\ session'[s].vouchers = session[s].vouchers /\ session'[s].prepaid = 0
        /\ seller'[s].units = seller[s].units /\ seller'[s].paidThrough = seller[s].paidThrough
        /\ seller'[s].required = seller[s].required
        /\ seller'[s].at = "waiting" /\ seller'[s].next = seller[s].next
        BY <1>1, <2>1, <2>3, WaitForSliceMoves DEF Live
  <2>5. seller[s].units = seller[s].paidThrough
    <3>1. seller[s].units >= seller[s].paidThrough
          BY DEF DemoAsk, UsedUp
    <3>2. QED
          BY <3>1, Numbers DEF Slices, Covered
  <2>6. ~Granted(s)' /\ ~InAdvance(s)' /\ Newest' = Newest /\ Newest \in Nat
        BY <1>1, <2>4, Numbers DEF Granted, InAdvance, Newest
  <2>7. Covered(s)'
        BY <1>1, <2>4, <2>6 DEF Slices, Covered
  <2>8. Priced(s)'
        BY <2>2, <2>4, <2>6 DEF Slices, Priced
  <2>9. InStep(s)'
        BY <1>1, <2>3, <2>4, <2>5, <2>6 DEF Slices, InStep
  <2>10. QED
        BY <2>7, <2>8, <2>9 DEF Slices
<1>4. QED
      BY <1>2, <1>3

(* The seller learns the outcome; a paid slice is counted.                  *)
LEMMA ResumeSlices ==
    ASSUME TypeOK, TypeOK', NEW s \in Streams, Control(s), Slices(s), Resume(s)
    PROVE  Slices(s)'
<1> DEFINE goesOn == ~seller[s].closed /\ seller[s].kind = "paid"
<1>1. /\ UNCHANGED <<lastAccepted, sold, buyer>> /\ seller[s].at = "answered"
      /\ s \in Demo => Live(s)
      BY DEF Resume, Control
<1>2. CASE goesOn
  <2>1. /\ Sent(s, <<>>) /\ UNCHANGED <<session, ended>>
        /\ seller' = [seller EXCEPT ![s].at = "ready",
                                    ![s].paidThrough = @ + Slice,
                                    ![s].required = seller[s].next,
                                    ![s].next = 0, ![s].kind = "none",
                                    ![s].units = IF s \in Demo THEN @ ELSE @ + 1]
        BY <1>2 DEF Resume
  <2>2. /\ seller'[s].at = "ready" /\ seller'[s].kind = "none" /\ seller'[s].next = 0
        /\ seller'[s].paidThrough = seller[s].paidThrough + Slice
        /\ seller'[s].required = seller[s].next
        /\ seller'[s].units = IF s \in Demo THEN seller[s].units ELSE seller[s].units + 1
    <3>1. PICK p \in Nat, n \in Nat, u \in Nat :
               /\ p = seller[s].paidThrough + Slice /\ n = seller[s].next
               /\ u = IF s \in Demo THEN seller[s].units ELSE seller[s].units + 1
      <4>1. /\ seller[s].paidThrough + Slice \in Nat /\ seller[s].next \in Nat
            /\ seller[s].units \in Nat /\ seller[s].units + 1 \in Nat
            BY Numbers
      <4>2. QED
            BY <4>1
    <3>2. seller' = [seller EXCEPT ![s].at = "ready", ![s].paidThrough = p, ![s].required = n,
                                   ![s].next = 0, ![s].kind = "none", ![s].units = u]
          BY <2>1, <3>1 DEF TypeOK
    <3>3. /\ seller'[s].at = "ready" /\ seller'[s].kind = "none" /\ seller'[s].next = 0
          /\ seller'[s].paidThrough = p /\ seller'[s].required = n /\ seller'[s].units = u
          BY <3>2 DEF TypeOK, SellerType
    <3>4. QED
          BY <3>1, <3>3
  <2>3. Granted(s) /\ ~Granted(s)' /\ (Live(s)' <=> Live(s))
        /\ (InAdvance(s)' <=> InAdvance(s))
        BY <1>1, <1>2, <2>1, <2>2 DEF Granted, Live, InAdvance
  <2>4. ~InAdvance(s)
        BY <2>3 DEF Slices, InStep, InAdvance
  <2>5. Asked(s)' = Asked(s) /\ Newest' = Newest
        BY <1>1, <2>1, NothingSent DEF Asked, Bills, Newest
  <2>6. Covered(s)'
    <3>1. PICK u \in Nat, p \in Nat, k \in Nat :
               /\ u = seller[s].units /\ p = seller[s].paidThrough /\ k = Slice /\ k > 0
          BY Numbers
    <3>2. u <= p /\ seller'[s].paidThrough = p + k /\ seller'[s].units \in {u, u + 1}
          BY <2>2, <3>1 DEF Slices, Covered
    <3>3. seller'[s].units <= seller'[s].paidThrough
          BY <3>1, <3>2
    <3>4. seller'[s].paidThrough * SliceCost <= sold'[s] * Slice
          BY <1>1, <2>2, <2>3 DEF Slices, Covered
    <3>5. QED
          BY <2>3, <2>4, <3>3, <3>4 DEF Covered
  <2>7. Priced(s)'
        BY <2>2, <2>5, Numbers DEF Slices, Priced
  <2>8. ASSUME Live(s)'
        PROVE  InStep(s)'
    <3>1. /\ Live(s) /\ session'[s].vouchers = session[s].vouchers
          /\ session'[s].prepaid = session[s].prepaid
          BY <2>1, <2>3, <2>8
    <3>2. ~Wanted(s) /\ ~Wanted(s)'
          BY <2>3, <2>5, <3>1 DEF Slices, InStep, Wanted
    <3>3. PICK u \in Nat, p \in Nat, k \in Nat, v \in Nat :
               /\ u = seller[s].units /\ p = seller[s].paidThrough /\ k = Slice
               /\ v = session[s].vouchers * Slice
          BY <3>1, Numbers, Distributes
    <3>4. v <= u + k /\ v <= p + k /\ seller'[s].paidThrough = p + k
          /\ seller'[s].units \in {u, u + 1}
          BY <2>2, <2>3, <3>1, <3>3 DEF Slices, InStep
    <3>5. v <= seller'[s].units + Slice
          BY <3>3, <3>4
    <3>6. /\ session'[s].vouchers * Slice <= seller'[s].units + Slice
          /\ session'[s].vouchers * Slice <= seller'[s].paidThrough
          BY <3>1, <3>3, <3>4, <3>5
    <3>7. session'[s].prepaid <= 1
          BY <3>1 DEF Slices, InStep
    <3>8. QED
          BY <2>3, <2>4, <3>2, <3>6, <3>7 DEF InStep
  <2>9. QED
        BY <2>6, <2>7, <2>8 DEF Slices, InStep
<1>3. CASE ~goesOn
  <2>1. /\ Sent(s, <<Error>>)
        /\ \/ seller' = [seller EXCEPT ![s].at = "ended"] /\ Finished(s) /\ s \in Demo
           \/ /\ seller' = [seller EXCEPT ![s].at = "ending"] /\ UNCHANGED <<session, ended>>
              /\ s \notin Demo
    <3>1. Sent(s, IF goesOn THEN <<>> ELSE <<Error>>)
          BY DEF Resume
    <3>2. Sent(s, <<Error>>)
          BY <1>3, <3>1
    <3>3. /\ s \in Demo => seller' = [seller EXCEPT ![s].at = "ended"] /\ Finished(s)
          /\ s \notin Demo => /\ seller' = [seller EXCEPT ![s].at = "ending"]
                             /\ UNCHANGED <<session, ended>>
          BY <1>3 DEF Resume
    <3>4. QED
          BY <3>2, <3>3
  <2>2. Asked(s)' \subseteq Asked(s)
    <3>1. Asked(s)' \subseteq Asked(s) \cup {r \in Nat : Error = Pay(r)}
          BY <1>1, <2>1, SentAsks, EventsTyped
    <3>2. QED
          BY <3>1, EventsAsk
  <2>3. CASE seller' = [seller EXCEPT ![s].at = "ended"] /\ Finished(s) /\ s \in Demo
        BY <1>1, <2>2, <2>3, EndKeeps
  <2>4. CASE /\ seller' = [seller EXCEPT ![s].at = "ending"] /\ UNCHANGED <<session, ended>>
             /\ s \notin Demo
    <3>1. /\ seller'[s].at = "ending" /\ seller'[s].kind = seller[s].kind
          /\ seller'[s].units = seller[s].units /\ seller'[s].paidThrough = seller[s].paidThrough
          /\ seller'[s].required = seller[s].required /\ seller'[s].next = seller[s].next
          BY <2>4, SellerMoves
    <3>2. ~Granted(s)' /\ (Live(s)' <=> Live(s))
          BY <2>4, <3>1 DEF Granted, Live
    <3>3. QED
          BY <1>1, <2>2, <2>4, <3>1, <3>2, QuietKeeps
  <2>5. QED
        BY <2>1, <2>3, <2>4
<1>4. QED
      BY <1>2, <1>3

(* The loop is left, and the session closed.                                *)
LEMMA LeaveSlices ==
    ASSUME TypeOK, TypeOK', NEW s \in Streams, Control(s), Slices(s), Leave(s) \/ EndArrives(s)
    PROVE  Slices(s)'
<1>1. UNCHANGED <<lastAccepted, sold, buyer>>
      BY DEF Leave, EndArrives, buyVars
<1>2. ASSUME Sent(s, <<Done(Total(s))>>), Live(s)
      PROVE  Asked(s)' \subseteq Asked(s)
  <2>1. PICK n \in Nat : n = Total(s)
        BY <1>2, SessionTyped DEF Total, SessionType
  <2>2. Asked(s)' \subseteq Asked(s) \cup {r \in Nat : Done(n) = Pay(r)}
        BY <1>1, <1>2, <2>1, SentAsks, EventsTyped
  <2>3. QED
        BY <2>2, EventsAsk
<1>3. ASSUME sse' = sse
      PROVE  Asked(s)' \subseteq Asked(s)
      BY <1>1, <1>3 DEF Asked, Bills
<1>4. CASE Leave(s) /\ s \in Demo
  <2>1. Live(s)
        BY <1>4 DEF Leave, Control, External
  <2>2. Sent(s, <<Done(Total(s))>>) /\ Finished(s) /\ seller' = [seller EXCEPT ![s].at = "ended"]
        BY <1>4 DEF Leave
  <2>3. QED
        BY <1>1, <1>2, <2>1, <2>2, EndKeeps
<1>5. CASE Leave(s) /\ s \notin Demo
  <2>1. /\ seller' = [seller EXCEPT ![s].at = "ending", ![s].kind = "done"]
        /\ UNCHANGED <<session, ended, sse>> /\ seller[s].at \in {"ready", "failed"}
        BY <1>5 DEF Leave
  <2>2. /\ seller'[s].at = "ending"
        /\ seller'[s].units = seller[s].units /\ seller'[s].paidThrough = seller[s].paidThrough
        /\ seller'[s].required = seller[s].required /\ seller'[s].next = seller[s].next
        BY <2>1, SellerMovesWith
  <2>3. ~Granted(s)' /\ (Live(s)' <=> Live(s))
        BY <2>1, <2>2 DEF Granted, Live
  <2>4. QED
        BY <1>1, <1>3, <1>5, <2>1, <2>2, <2>3, QuietKeeps
<1>6. CASE EndArrives(s) /\ Live(s)
  <2>1. /\ Finished(s) /\ seller' = [seller EXCEPT ![s].at = "ended"]
        /\ Sent(s, <<Done(Total(s))>>) \/ Sent(s, <<>>)
        BY <1>6 DEF EndArrives
  <2>2. Asked(s)' \subseteq Asked(s)
        BY <1>2, <1>3, <1>6, <2>1, NothingSent
  <2>3. QED
        BY <1>1, <1>6, <2>1, <2>2, EndKeeps
<1>7. CASE EndArrives(s) /\ ~Live(s)
  <2>1. /\ seller' = [seller EXCEPT ![s].at = "ended"] /\ UNCHANGED <<session, ended, sse>>
        /\ seller[s].at = "ending"
        BY <1>7 DEF EndArrives
  <2>2. /\ seller'[s].at = "ended"
        /\ seller'[s].units = seller[s].units /\ seller'[s].paidThrough = seller[s].paidThrough
        /\ seller'[s].required = seller[s].required /\ seller'[s].next = seller[s].next
        BY <2>1, SellerMoves
  <2>3. ~Granted(s)' /\ ~Live(s)'
        BY <1>7, <2>1, <2>2 DEF Granted, Live
  <2>4. QED
        BY <1>1, <1>3, <2>1, <2>2, <2>3, QuietKeeps
<1>8. QED
      BY <1>4, <1>5, <1>6, <1>7

(* A seller's request gets lost.                                            *)
LEMMA LostSlices ==
    ASSUME TypeOK, TypeOK', NEW s \in Streams, Slices(s), RequestLost(s)
    PROVE  Slices(s)'
<1>1. UNCHANGED <<facVars, buyVars>> /\ s \notin Demo /\ seller[s].at # "none"
      BY DEF RequestLost, External
<1>2. /\ seller'[s].units = seller[s].units /\ seller'[s].paidThrough = seller[s].paidThrough
      /\ seller'[s].required = seller[s].required /\ seller'[s].next \in {seller[s].next, 0}
      /\ seller'[s].at \in {"failed", "ended"}
  <2>1. CASE seller' = [seller EXCEPT ![s].at = "failed", ![s].next = 0, ![s].kind = "none"]
        BY <2>1 DEF TypeOK, SellerType
  <2>2. CASE seller' = [seller EXCEPT ![s].at = "ended"]
        BY <2>2, SellerMoves
  <2>3. QED
        BY <2>1, <2>2 DEF RequestLost
<1>3. ~Granted(s)' /\ Asked(s)' = Asked(s) /\ (Live(s)' <=> Live(s))
      BY <1>1, <1>2, SameAsked DEF Granted, Live, facVars, buyVars
<1>4. QED
      BY <1>1, <1>2, <1>3, QuietKeeps DEF facVars

LEMMA SellerSlices ==
    ASSUME TypeOK, TypeOK', NEW s \in Streams, Control(s), Slices(s), Seller(s)
    PROVE  Slices(s)'
  BY CreatedSlices, DeliverSlices, AskSlices, DemoAskSlices, ResumeSlices, LeaveSlices,
     WaitSlices, LostSlices DEF Seller

(* The timers.                                                              *)
LEMMA TimersSlices ==
    ASSUME TypeOK, TypeOK', NEW s \in Streams, Control(s), Slices(s),
           WaiterTimesOut(s) \/ IdleFires(s)
    PROVE  Slices(s)'
<1>1. UNCHANGED <<lastAccepted, sold, buyer, sse>> /\ Live(s)
      BY DEF WaiterTimesOut, IdleFires, buyVars
<1>2. Asked(s)' = Asked(s)
      BY <1>1, SameAsked
<1>3. CASE WaiterTimesOut(s)
  <2>1. PICK n \in Nat : n = lastAccepted
        BY Numbers
  <2>2. Wakes(s, "timeout", n) /\ session' = [session EXCEPT ![s].waiter = FALSE]
        BY <1>3, <2>1 DEF WaiterTimesOut
  <2>3. /\ seller'[s].units = seller[s].units /\ seller'[s].paidThrough = seller[s].paidThrough
        /\ seller'[s].required = seller[s].required /\ seller'[s].next = seller[s].next
        /\ \/ /\ seller[s].at = "waiting" /\ seller'[s].at = "answered"
              /\ seller'[s].kind = "timeout"
           \/ /\ seller[s].at # "waiting" /\ seller'[s].at = seller[s].at
              /\ seller'[s].kind = seller[s].kind
        BY <2>2, WakesMoves
  <2>4. /\ session'[s].vouchers = session[s].vouchers
        /\ session'[s].prepaid = session[s].prepaid
    <3>1. session[s] \in SessionType
          BY <1>1, SessionTyped
    <3>2. session'[s] = [session[s] EXCEPT !.waiter = FALSE]
          BY <2>2 DEF TypeOK
    <3>3. QED
          BY <3>1, <3>2 DEF SessionType
  <2>5. Granted(s)' => Granted(s)
        BY <2>3 DEF Granted
  <2>6. QED
        BY <1>1, <1>2, <2>3, <2>4, <2>5, QuietKeeps
<1>4. CASE IdleFires(s)
  <2>1. Finished(s) /\ UNCHANGED seller
        BY <1>4 DEF IdleFires
  <2>2. QED
        BY <1>1, <1>2, <2>1, EndKeeps
<1>5. QED
      BY <1>3, <1>4

(* The first slice is paid with the request.                                *)
LEMMA FirstSlices ==
    ASSUME Typed, TypeOK', NEW s \in Streams, Control(s), Slices(s), FirstVoucher(s)
    PROVE  Slices(s)'
<1> DEFINE c == buyer[s].voucher
<1>1. TypeOK /\ buyer[s].at = "starting" /\ c \in Nat /\ c <= signer
      BY Numbers DEF Typed, FirstVoucher
<1>2. /\ seller[s].at = "none" /\ sold[s] = 0 /\ ~Live(s) /\ sse[s] = <<>>
      /\ seller[s].units = 0 /\ seller[s].paidThrough = Slice /\ seller[s].kind = "none"
      BY <1>1 DEF Control, Unbegun
<1>3. CASE Verdict(c, SliceCost) = "ok"
  <2>1. PICK a \in {"ready", "opening"}, b \in {"reading", "awaiting"} :
             /\ a = (IF s \in Demo THEN "ready" ELSE "opening")
             /\ b = (IF s \in Demo THEN "reading" ELSE "awaiting")
        OBVIOUS
  <2>2. /\ seller' = [seller EXCEPT ![s].at = a] /\ Accepted(s, c) /\ sse' = sse
        /\ buyer' = [buyer EXCEPT ![s].at = b, ![s].charged = SliceCost, ![s].vouchers = 1]
        /\ session' = IF s \in Demo
                      THEN [session EXCEPT ![s] = Opened(c - lastAccepted)] ELSE session
        BY <1>3, <2>1 DEF FirstVoucher
  <2>3. /\ seller'[s].at = a /\ seller'[s].kind = "none"
        /\ seller'[s].units = 0 /\ seller'[s].paidThrough = Slice
        /\ seller'[s].required = seller[s].required /\ seller'[s].next = seller[s].next
        BY <1>1, <1>2, <2>2, SellerMoves
  <2>4. buyer'[s].at = b
    <3>1. PICK k \in Nat : k = SliceCost
          BY <1>1, Numbers
    <3>2. buyer' = [buyer EXCEPT ![s].at = b, ![s].charged = k, ![s].vouchers = 1]
          BY <2>2, <3>1
    <3>3. buyer \in [Streams -> BuyerType]
          BY <1>1 DEF TypeOK
    <3>4. QED
          BY <3>2, <3>3 DEF BuyerType
  <2>5. lastAccepted' >= lastAccepted /\ sold'[s] \in Nat /\ sold'[s] >= SliceCost
    <3>1. SliceCost \in Nat /\ lastAccepted \in Nat
          BY <1>1, Numbers
    <3>2. /\ lastAccepted' >= lastAccepted /\ sold'[s] = sold[s] + (c - lastAccepted)
          /\ c - lastAccepted \in Nat /\ c - lastAccepted >= SliceCost
      <4>1. PICK n \in Nat : n = c
            BY <1>1
      <4>2. n <= signer /\ Verdict(n, SliceCost) = "ok" /\ Accepted(s, n)
            BY <1>1, <1>3, <2>2, <4>1
      <4>3. /\ lastAccepted <= lastAccepted' /\ sold'[s] = sold[s] + (n - lastAccepted)
            /\ n - lastAccepted \in Nat /\ n - lastAccepted >= SliceCost
            BY <1>1, <3>1, <4>2, AcceptedTyped
      <4>4. lastAccepted' \in Nat
            BY <4>2 DEF Accepted
      <4>5. QED
            BY <3>1, <4>1, <4>3, <4>4
    <3>3. QED
          BY <1>2, <3>2
  <2>6. Live(s)' => s \in Demo /\ session'[s].vouchers = 1 /\ session'[s].prepaid = 0
    <3>1. CASE s \in Demo
      <4>1. session'[s] = Opened(c - lastAccepted)
            BY <1>1, <2>2, <3>1 DEF TypeOK
      <4>2. QED
            BY <3>1, <4>1 DEF Opened
    <3>2. CASE s \notin Demo
          BY <1>2, <2>2, <3>2 DEF Live
    <3>3. QED
          BY <3>1, <3>2
  <2>7. Asked(s)' = {} /\ ~Wanted(s)' /\ ~Granted(s)' /\ ~InAdvance(s)'
    <3>1. Asked(s)' = {}
          BY <1>2, <2>2, <2>4 DEF Asked, Bills
    <3>2. ~Wanted(s)'
          BY <3>1 DEF Wanted
    <3>3. ~Granted(s)'
          BY <2>3 DEF Granted
    <3>4. ~InAdvance(s)'
          BY <2>6 DEF InAdvance
    <3>5. QED
          BY <3>1, <3>2, <3>3, <3>4
  <2>8. Covered(s)'
    <3>1. SliceCost * Slice <= sold'[s] * Slice /\ Slice * SliceCost = SliceCost * Slice
          BY <1>1, <2>5, Numbers, Grows
    <3>2. QED
          BY <1>1, <2>3, <2>7, <3>1, Numbers DEF Covered
  <2>9. Priced(s)'
    <3>1. Newest' >= Newest
      <4>1. PICK m \in Nat, n \in Nat, k \in Nat :
                 m = lastAccepted /\ n = lastAccepted' /\ k = SliceCost
            BY <1>1, <2>2, Numbers DEF Accepted
      <4>2. Newest = m + k /\ Newest' = n + k /\ m <= n
            BY <2>5, <4>1 DEF Newest
      <4>3. QED
            BY <4>2
    <3>2. Newest' \in Nat
          BY <1>1, Numbers, <2>2 DEF Newest, Accepted
    <3>3. QED
          BY <1>1, <2>3, <2>7, <3>1, <3>2, Numbers DEF Slices, Priced
  <2>10. InStep(s)'
    <3>1. Live(s)' => session'[s].vouchers * Slice = Slice
          BY <1>1, <2>6, Numbers
    <3>2. Slice \in Nat
          BY <1>1, Numbers
    <3>3. Live(s)' => /\ session'[s].vouchers * Slice <= seller'[s].units + Slice
                      /\ session'[s].vouchers * Slice <= seller'[s].paidThrough
                      /\ session'[s].prepaid <= 1
          BY <2>3, <2>6, <3>1, <3>2
    <3>4. QED
          BY <2>6, <2>7, <3>3 DEF InStep
  <2>11. QED
         BY <2>8, <2>9, <2>10 DEF Slices
<1>4. CASE Verdict(c, SliceCost) # "ok"
  <2>1. /\ buyer' = [buyer EXCEPT ![s].at = "over"]
        /\ UNCHANGED <<lastAccepted, sold, seller, session, sse>>
        BY <1>4 DEF FirstVoucher
  <2>2. buyer'[s].at = "over"
        BY <1>1, <2>1 DEF TypeOK, BuyerType
  <2>3. Asked(s)' \subseteq Asked(s)
        BY <2>1, <2>2 DEF Asked, Bills
  <2>4. (Granted(s)' <=> Granted(s)) /\ (Live(s)' <=> Live(s))
        BY <2>1 DEF Granted, Live
  <2>5. QED
        BY <1>1, <2>1, <2>3, <2>4, QuietKeeps
<1>5. QED
      BY <1>3, <1>4

(* The seller's and the session's side when only the buyer moves.           *)
LEMMA BuyerAloneSlices ==
    ASSUME TypeOK, TypeOK', NEW s \in Streams, Slices(s), UNCHANGED <<facVars, seller>>,
           Asked(s)' \subseteq Asked(s)
    PROVE  Slices(s)'
<1>1. UNCHANGED <<lastAccepted, sold, session>>
      BY DEF facVars
<1>2. (Granted(s)' <=> Granted(s)) /\ (Live(s)' <=> Live(s))
      BY <1>1 DEF Granted, Live
<1>3. QED
      BY <1>1, <1>2, QuietKeeps

(* A required total that is read becomes the one being paid.                *)
LEMMA ReadsSlices ==
    ASSUME TypeOK, TypeOK', NEW s \in Streams, Slices(s), BuyerReads(s)
    PROVE  Slices(s)'
<1> DEFINE e == Head(sse[s])
<1>1. /\ buyer[s].at = "reading" /\ sse[s] # <<>> /\ sse' = [sse EXCEPT ![s] = Tail(@)]
      /\ UNCHANGED <<facVars, seller>>
      BY DEF BuyerReads
<1>2. e \in EventType /\ Bills(s)' \subseteq Bills(s) /\ \A r \in Nat : e = Pay(r) => r \in Bills(s)
      BY <1>1, HeadAsked
<1>3. CASE e.type = "payment-required" /\ e.required \in signer..Deposit
  <2>1. e.required \in Nat /\ e = Pay(e.required)
    <3>1. PICK d \in EventType : d = e
          BY <1>2
    <3>2. d.type = "payment-required"
          BY <1>3, <3>1
    <3>3. d \in [type : {"payment-required"}, required : Nat]
          BY <3>2 DEF EventType
    <3>4. d.required \in Nat /\ d = [type |-> "payment-required", required |-> d.required]
          BY <3>3
    <3>5. QED
          BY <3>1, <3>4 DEF Pay
  <2>2. PICK n \in Nat : n = e.required /\ n \in Bills(s)
        BY <1>2, <2>1
  <2>3. buyer' = [buyer EXCEPT ![s].at = "paying", ![s].voucher = n]
        BY <1>3, <2>2 DEF BuyerReads
  <2>4. buyer'[s].voucher = n
        BY <2>3 DEF TypeOK, BuyerType
  <2>5. Asked(s)' \subseteq Asked(s)
        BY <1>2, <2>2, <2>4 DEF Asked
  <2>6. QED
        BY <1>1, <2>5, BuyerAloneSlices
<1>4. CASE ~(e.type = "payment-required" /\ e.required \in signer..Deposit)
  <2>1. buyer'[s].at = "over"
    <3>1. PICK x : x = IF e.type = "done" THEN e.charged ELSE buyer[s].charged
          OBVIOUS
    <3>2. buyer \in [Streams -> BuyerType]
          BY DEF TypeOK
    <3>3. buyer' = [buyer EXCEPT ![s].at = "over", ![s].charged = x]
          BY <1>4, <3>1, <3>2 DEF BuyerReads
    <3>4. QED
          BY <3>2, <3>3 DEF BuyerType
  <2>2. Asked(s)' \subseteq Asked(s)
        BY <1>2, <2>1 DEF Asked
  <2>3. QED
        BY <1>1, <2>2, BuyerAloneSlices
<1>5. QED
      BY <1>3, <1>4

(* A voucher of the stream is accepted: the one slice that was asked for is
   paid, by a buyer to whom everything else it paid was delivered.          *)
LEMMA VoucherSlices ==
    ASSUME Typed, TypeOK', NEW s \in Streams, Control(s), Slices(s),
           NEW answered, VoucherArrives(s, answered)
    PROVE  Slices(s)'
<1> DEFINE c == buyer[s].voucher
<1>1. /\ TypeOK /\ buyer[s].at = "paying" /\ buyer'[s].at \in {"over", "reading"}
      /\ UNCHANGED sse
      /\ seller'[s].units = seller[s].units /\ seller'[s].paidThrough = seller[s].paidThrough
      /\ seller'[s].required = seller[s].required
      BY VoucherMoves DEF Typed
<1>2. Asked(s)' = Bills(s) /\ c \in Asked(s) /\ Bills(s) \subseteq Asked(s)
      BY <1>1 DEF Asked, Bills
<1>3. CASE /\ Live(s) /\ Live(s)'
           /\ c >= lastAccepted + SliceCost /\ lastAccepted' = c
           /\ sold'[s] = sold[s] + (c - lastAccepted)
           /\ session'[s] = Submitted(session[s], c - lastAccepted)
           /\ Wakes(s, "paid", c)
  <2>1. c = Newest /\ c \in Nat /\ SliceCost \in Nat \ {0} /\ lastAccepted \in Nat
        BY <1>1, <1>2, <1>3, Numbers DEF Newest, Slices, Priced
  <2>2. /\ session[s].vouchers * Slice <= seller[s].units /\ session[s].prepaid = 0
        /\ ~InAdvance(s) /\ ~Granted(s)
        /\ s \in Demo => seller[s].at \in {"waiting", "answered"}
    <3>1. Wanted(s)
          BY <1>1, <1>2, <2>1, Numbers DEF Wanted
    <3>2. /\ session[s].vouchers * Slice <= seller[s].units /\ ~InAdvance(s) /\ ~Granted(s)
          /\ s \in Demo => seller[s].at \in {"waiting", "answered"}
          BY <1>3, <3>1 DEF Slices, InStep
    <3>3. QED
          BY <1>1, <1>3, <3>2, Numbers DEF InAdvance
  <2>3. /\ session'[s].vouchers = session[s].vouchers + 1
        /\ session'[s].prepaid = IF session[s].waiter THEN 0 ELSE 1
    <3>1. session[s] \in SessionType /\ c - lastAccepted \in Nat
          BY <1>1, <1>3, <2>1, SessionTyped
    <3>2. PICK q : q = session'[s]
          OBVIOUS
    <3>3. /\ q.vouchers = session[s].vouchers + 1
          /\ q.prepaid = IF session[s].waiter THEN session[s].prepaid ELSE session[s].prepaid + 1
          BY <1>3, <3>1, <3>2, SubmittedMoves
    <3>4. QED
          BY <2>2, <3>2, <3>3
  <2>4. /\ \/ /\ seller[s].at = "waiting" /\ seller'[s].at = "answered"
              /\ seller'[s].next = c + SliceCost
           \/ /\ seller[s].at # "waiting" /\ seller'[s].at = seller[s].at
              /\ seller'[s].kind = seller[s].kind /\ seller'[s].next = seller[s].next
        /\ session[s].waiter \/ seller' = seller
    <3>1. PICK n \in Nat : n = c
          BY <2>1
    <3>2. Wakes(s, "paid", n)
          BY <1>3, <3>1
    <3>3. \/ /\ seller[s].at = "waiting" /\ seller'[s].at = "answered"
             /\ seller'[s].next = n + SliceCost
          \/ /\ seller[s].at # "waiting" /\ seller'[s].at = seller[s].at
             /\ seller'[s].kind = seller[s].kind /\ seller'[s].next = seller[s].next
          BY <1>1, <3>2, WakesMoves
    <3>4. session[s].waiter \/ seller' = seller
          BY <1>3 DEF Wakes
    <3>5. QED
          BY <3>1, <3>3, <3>4
  <2>5. Newest' = c + SliceCost /\ Newest' > Newest /\ Newest' \in Nat /\ Newest \in Nat
    <3>1. PICK n \in Nat, k \in Nat \ {0} : n = c /\ k = SliceCost
          BY <2>1
    <3>2. Newest' = n + k /\ Newest = n
          BY <1>3, <2>1, <3>1 DEF Newest
    <3>3. n + k \in Nat /\ n + k > n
          BY <3>1
    <3>4. QED
          BY <3>1, <3>2, <3>3
  <2>6. Priced(s)' /\ ~Wanted(s)' /\ ~(seller'[s].required >= Newest')
    <3>1. /\ seller[s].required \in Nat /\ seller[s].required <= Newest
          /\ seller[s].next \in Nat /\ seller[s].next <= Newest
          /\ \A r \in Asked(s) : r \in Nat /\ r <= Newest
          BY <1>1, Numbers DEF Slices, Priced
    <3>2. seller'[s].required <= Newest' /\ ~(seller'[s].required >= Newest')
          BY <1>1, <2>5, <3>1
    <3>3. \A r \in Asked(s)' : r <= Newest' /\ ~(r >= Newest')
          BY <1>2, <2>5, <3>1
    <3>4. seller'[s].next <= Newest'
          BY <2>4, <2>5, <3>1
    <3>5. QED
          BY <3>2, <3>3, <3>4 DEF Priced, Wanted
  <2>7. Covered(s)'
    <3>1. PICK p \in Nat, v \in Nat, k \in Nat, w \in Nat :
               p = seller[s].paidThrough /\ v = sold[s] /\ k = SliceCost /\ w = Slice
          BY <1>1, Numbers
    <3>2. seller[s].at # "none"
          BY <1>1 DEF Control, Unbegun
    <3>3. p * k <= v * w
          BY <3>1, <3>2 DEF Slices, Covered
    <3>4. sold'[s] = v + k
      <4>1. c - lastAccepted = SliceCost
            BY <2>1 DEF Newest
      <4>2. QED
            BY <1>3, <3>1, <4>1
    <3>5. /\ (v + k) * w = v * w + k * w /\ (p + w) * k = p * k + w * k /\ w * k = k * w
          /\ v * w \in Nat /\ k * w \in Nat /\ p * k \in Nat
          BY <3>1, Distributes
    <3>6. p * k <= (v + k) * w /\ (p + w) * k <= (v + k) * w
          BY <3>3, <3>5
    <3>7. /\ seller'[s].paidThrough * SliceCost <= sold'[s] * Slice
          /\ (seller'[s].paidThrough + Slice) * SliceCost <= sold'[s] * Slice
          BY <1>1, <3>1, <3>4, <3>6
    <3>8. seller'[s].units <= seller'[s].paidThrough
          BY <1>1 DEF Slices, Covered
    <3>9. QED
          BY <3>7, <3>8 DEF Covered
  <2>8. InStep(s)'
    <3>1. PICK v \in Nat, w \in Nat, u \in Nat, p \in Nat :
               /\ v = session[s].vouchers /\ w = Slice
               /\ u = seller[s].units /\ p = seller[s].paidThrough
          BY <1>1, <1>3, Numbers
    <3>2. v * w <= u /\ u <= p
          BY <2>2, <3>1 DEF Slices, Covered
    <3>3. (v + 1) * w = v * w + w /\ v * w \in Nat
      <4>1. (v + 1) * w = v * w + 1 * w /\ v * w \in Nat
            BY <3>1, Distributes
      <4>2. QED
            BY <4>1
    <3>4. (v + 1) * w <= u + w /\ (v + 1) * w <= p + w
          BY <3>2, <3>3
    <3>5. /\ session'[s].vouchers * Slice <= seller'[s].units + Slice
          /\ session'[s].vouchers * Slice <= seller'[s].paidThrough + Slice
          BY <1>1, <2>3, <3>1, <3>4
    <3>6. session'[s].prepaid <= 1
          BY <2>3
    <3>7. ~(Granted(s)' /\ InAdvance(s)')
      <4>1. CASE session[s].waiter
        <5>1. session'[s].prepaid = 0
              BY <2>3, <4>1
        <5>2. QED
              BY <5>1 DEF InAdvance
      <4>2. CASE ~session[s].waiter
            BY <2>2, <2>4, <4>2 DEF Granted
      <4>3. QED
            BY <4>1, <4>2
    <3>8. ~(s \in Demo /\ seller'[s].at = "ready")
          BY <2>2, <2>4
    <3>9. QED
          BY <2>6, <3>5, <3>6, <3>7, <3>8 DEF InStep
  <2>9. QED
        BY <2>6, <2>7, <2>8 DEF Slices
<1>4. CASE /\ Live(s) /\ Live(s)' /\ UNCHANGED <<lastAccepted, sold>>
           /\ session'[s].vouchers = session[s].vouchers
           /\ session'[s].prepaid = session[s].prepaid
           /\ Wakes(s, "exhausted", lastAccepted) \/ Wakes(s, "frozen", lastAccepted)
  <2>1. PICK n \in Nat : n = lastAccepted
        BY <1>1, Numbers
  <2>2. PICK k \in {"exhausted", "frozen"} : Wakes(s, k, n)
        BY <1>4, <2>1
  <2>3. /\ seller'[s].next = seller[s].next
        /\ \/ seller[s].at = "waiting" /\ seller'[s].at = "answered" /\ seller'[s].kind = k
           \/ /\ seller[s].at # "waiting" /\ seller'[s].at = seller[s].at
              /\ seller'[s].kind = seller[s].kind
        BY <1>1, <2>2, WakesMoves
  <2>4. Granted(s)' => Granted(s)
        BY <2>3 DEF Granted
  <2>5. QED
        BY <1>1, <1>2, <1>4, <2>3, <2>4, QuietKeeps
<1>5. CASE UNCHANGED <<lastAccepted, sold, session, seller>>
  <2>1. (Granted(s)' <=> Granted(s)) /\ (Live(s)' <=> Live(s))
        BY <1>5 DEF Granted, Live
  <2>2. QED
        BY <1>1, <1>2, <1>5, <2>1, QuietKeeps
<1>6. QED
      BY <1>3, <1>4, <1>5, VoucherMoves

LEMMA BuyerSlices ==
    ASSUME Typed, TypeOK', NEW s \in Streams, Control(s), Slices(s), Buyer(s)
    PROVE  Slices(s)'
<1>1. TypeOK
      BY DEF Typed
<1>2. CASE BuyerStarts(s)
  <2>1. UNCHANGED <<facVars, seller, sse>> /\ buyer[s].at = "idle"
        BY <1>2 DEF BuyerStarts
  <2>2. buyer'[s].at = "starting"
    <3>1. PICK x : x = signer'
          OBVIOUS
    <3>2. buyer' = [buyer EXCEPT ![s].at = "starting", ![s].voucher = x]
          BY <1>2, <3>1 DEF BuyerStarts
    <3>3. buyer \in [Streams -> BuyerType]
          BY <1>1 DEF TypeOK
    <3>4. QED
          BY <3>2, <3>3 DEF BuyerType
  <2>3. Asked(s)' \subseteq Asked(s)
        BY <2>1, <2>2 DEF Asked, Bills
  <2>4. QED
        BY <1>1, <2>1, <2>3, BuyerAloneSlices
<1>3. CASE VoucherLost(s) \/ BuyerSeesEnd(s) \/ BuyerGivesUp(s)
  <2>1. buyer'[s].at = "over" /\ UNCHANGED <<facVars, seller, sse>>
    <3>1. CASE VoucherLost(s) \/ BuyerSeesEnd(s)
          BY <1>1, <3>1, OverMoves DEF VoucherLost, BuyerSeesEnd
    <3>2. CASE BuyerGivesUp(s)
          BY <1>1, <3>2 DEF BuyerGivesUp, TypeOK, BuyerType
    <3>3. QED
          BY <1>3, <3>1, <3>2
  <2>2. Asked(s)' \subseteq Asked(s)
        BY <2>1 DEF Asked, Bills
  <2>3. QED
        BY <1>1, <2>1, <2>2, BuyerAloneSlices
<1>4. CASE BuyerQuits(s)
  <2>2. /\ buyer'[s].at = "paying" => buyer[s].at = "paying"
        /\ buyer'[s].voucher = buyer[s].voucher /\ sse'[s] = <<>>
        /\ seller'[s].units = seller[s].units /\ seller'[s].paidThrough = seller[s].paidThrough
        /\ seller'[s].required = seller[s].required /\ seller'[s].next = seller[s].next
        /\ UNCHANGED <<lastAccepted, sold>> /\ seller[s].at # "none"
        BY <1>1, <1>4, QuitMoves
  <2>3. /\ \/ seller[s].at = "waiting" /\ seller'[s].at = "answered" /\ seller'[s].kind = "aborted"
           \/ seller'[s].at = seller[s].at /\ seller'[s].kind = seller[s].kind
        /\ Live(s)' <=> Live(s)
        /\ Live(s) => /\ session'[s].vouchers = session[s].vouchers
                      /\ session'[s].prepaid = session[s].prepaid
        BY <1>1, <1>4, QuitMoves
  <2>4. Asked(s)' \subseteq Asked(s)
        BY <2>2 DEF Asked, Bills
  <2>5. Granted(s)' => Granted(s)
        BY <2>3 DEF Granted
  <2>6. QED
        BY <1>1, <2>2, <2>3, <2>4, <2>5, QuietKeeps
<1>5. QED
      BY <1>1, <1>2, <1>3, <1>4, FirstSlices, ReadsSlices, VoucherSlices DEF Buyer

LEMMA SlicesStep ==
    ASSUME Typed, \A s \in Streams : Control(s) /\ Slices(s), [Next]_vars, NEW t \in Streams
    PROVE  Slices(t)'
<1>1. TypeOK /\ TypeOK' /\ lastAccepted' >= lastAccepted
      BY TypedStep, NeverBack DEF Typed
<1>2. ASSUME NEW s \in Streams, StreamStep(s)
      PROVE  Slices(t)'
  <2>1. CASE t = s
        BY <1>1, <1>2, <2>1, SellerSlices, BuyerSlices, TimersSlices DEF StreamStep
  <2>2. CASE t # s
        BY <1>1, <1>2, <2>2, OthersKeep, SameSlices
  <2>3. QED
        BY <2>1, <2>2
<1>3. CASE StatusChanges \/ CallSigned \/ CallArrives \/ UNCHANGED vars
  <2>1. Same(t)
        BY <1>3 DEF StatusChanges, CallSigned, CallArrives, vars, facVars, buyVars, Same
  <2>2. QED
        BY <1>1, <2>1, SameSlices
<1>4. QED
      BY <1>2, <1>3 DEF Next, StreamStep

LEMMA InitSlices == Init => \A s \in Streams : Slices(s)
<1> SUFFICES ASSUME Init, NEW s \in Streams
             PROVE  Slices(s)
    OBVIOUS
<1>1. TypeOK /\ Newest \in Nat /\ Slice \in Nat
      BY InitTyped, Numbers DEF Typed
<1>2. /\ ~Live(s) /\ ~Granted(s) /\ ~InAdvance(s) /\ Asked(s) = {}
      /\ seller[s].units = 0 /\ seller[s].paidThrough = Slice /\ seller[s].at = "none"
      /\ seller[s].required = 0 /\ seller[s].next = 0
      BY DEF Init, Live, Granted, InAdvance, Asked, Bills
<1>3. QED
      BY <1>1, <1>2 DEF Slices, Covered, Priced, InStep

(* A seller never hands out what its own stream has not paid, and a buyer is never more than
   one slice ahead: the two sides of PaidSliceBySlice, for slices of any size and price.  *)
THEOREM AlwaysSliceBySlice == Spec => []PaidSliceBySlice
<1> DEFINE Inv == Typed /\ \A s \in Streams : Control(s) /\ Slices(s)
<1>1. Init => Inv
      BY InitTyped, InitControl, InitSlices
<1>2. Inv /\ [Next]_vars => Inv'
      BY TypedStep, ControlStep, SlicesStep
<1>3. Inv => PaidSliceBySlice
  <2> SUFFICES ASSUME Inv, NEW s \in Streams
               PROVE  /\ seller[s].units * SliceCost <= sold[s] * Slice
                      /\ Live(s) => (session[s].vouchers - 1) * Slice <= seller[s].units
      BY DEF PaidSliceBySlice
  <2>1. TypeOK /\ Control(s) /\ Covered(s) /\ InStep(s)
        BY DEF Typed, Slices
  <2>2. PICK u \in Nat, p \in Nat, k \in Nat, w \in Nat, x \in Nat :
             /\ u = seller[s].units /\ p = seller[s].paidThrough /\ k = SliceCost /\ w = Slice
             /\ x = sold[s]
        BY <2>1, Numbers
  <2>3. u * k <= x * w
    <3>1. CASE seller[s].at = "none"
      <4>1. u = 0 /\ u * k = 0 /\ x * w \in Nat
            BY <2>1, <2>2, <3>1, Distributes DEF Control, Unbegun
      <4>2. QED
            BY <4>1
    <3>2. CASE seller[s].at # "none"
      <4>1. u <= p /\ p * k <= x * w
            BY <2>1, <2>2, <3>2 DEF Covered
      <4>2. u * k <= p * k /\ u * k \in Nat /\ p * k \in Nat /\ x * w \in Nat
            BY <2>2, <4>1, Grows, Distributes
      <4>3. QED
            BY <4>1, <4>2
    <3>3. QED
          BY <3>1, <3>2
  <2>4. ASSUME Live(s)
        PROVE  (session[s].vouchers - 1) * w <= u
    <3>1. PICK v \in Nat : v = session[s].vouchers
          BY <2>1, <2>4, Numbers
    <3>2. v * w <= u + w
          BY <2>1, <2>2, <2>4, <3>1 DEF InStep
    <3>3. (v - 1) * w = v * w - w /\ v * w \in Nat
          BY <2>2, <3>1, Distributes
    <3>4. QED
          BY <2>2, <3>1, <3>2, <3>3
  <2>5. QED
        BY <2>2, <2>3, <2>4
<1>4. QED
      BY <1>1, <1>2, <1>3, PTL DEF Spec

-----------------------------------------------------------------------------
(* The submission of operations. *)

Ended == {"ok", "failed", "lost", "diverged", "proven", "unconfirmed"}

Asking == {"polling", "watching"}

Steps == {"idle", "called", "ready", "proving", "read", "signing", "built", "proof"}
            \cup Asking \cup Ended

OpType == [at : Steps, try : Nat \ {0}, seq : Nat, until : Nat, auth : Nat, since : Nat]

Doing(o) == op[o].at \notin {"idle"} \cup Ended

SubTyped ==
    /\ now \in Nat /\ others \in Nat
    /\ sequence \in [Accounts -> Nat]
    /\ flying \subseteq [op : Ops, acct : Accounts, try : Nat \ {0}, seq : Nat, until : Nat,
                         auth : Nat]
    /\ results \subseteq [op : Ops \cup {"other"}, acct : Accounts, try : Nat \ {0},
                          ok : BOOLEAN]
    /\ visible \subseteq results /\ IsFiniteSet(results)
    /\ op \in [Ops -> OpType]
    /\ queue \in Seq(Own)
    /\ overlooked \subseteq Ops /\ collided \subseteq Ops

(* The own operations take turns.                                           *)
InLine ==
    /\ \A i, j \in DOMAIN queue : queue[i] = queue[j] => i = j
    /\ \A o \in Own : Doing(o) <=> \E i \in DOMAIN queue : queue[i] = o
    /\ \A o \in Own : Doing(o) /\ op[o].at # "called" => queue[1] = o
    /\ \A o \in Own : op[o].at \in {"idle", "called", "ready", "built", "polling", "ok", "failed",
                                    "lost"}
    /\ \A o \in Ops \ Invocations : op[o].try = 1

(* An attempt is sent once.                                                 *)
Gone(o, k) == \/ k < op[o].try
              \/ k = op[o].try /\ op[o].at \in Asking
              \/ op[o].at \in Ended

SentOnce ==
    /\ \A t \in flying : Gone(t.op, t.try) /\ t.acct = Payer(t.op)
                         /\ (t.op \notin Invocations => t.try = 1)
    /\ \A r \in results : IF r.op = "other" THEN r.acct = "relayer" /\ r.try <= others
                          ELSE Gone(r.op, r.try) /\ r.acct = Payer(r.op)
                               /\ (r.op \notin Invocations => r.try = 1)
    /\ \A s, t \in flying : s.op = t.op /\ s.try = t.try => s = t
    /\ \A r, s \in results : r.op = s.op /\ r.try = s.try => r = s
    /\ \A r \in results, t \in flying : r.op = t.op => r.try # t.try

Counted == \A a \in Accounts : sequence[a] = Cardinality({r \in results : r.acct = a})

(* An attempt that was given up is not included any more.                   *)
Past(o, k) == \/ op[o].at \notin Ended /\ k < op[o].try
              \/ op[o].at = "failed" /\ o \notin Freezes

OverIsOver ==
    /\ \A o \in Ops : op[o].at \in {"signing", "built", "proof"} => op[o].until <= now + Life(o)
    /\ \A t \in flying : op[t.op].at \in Asking /\ t.try = op[t.op].try =>
            t.until <= op[t.op].since + Life(t.op)
    /\ \A t \in flying : Past(t.op, t.try) => now > t.until
    /\ \A r \in results : r.op \in Ops /\ r.ok /\ Past(r.op, r.try) => r.op \in overlooked

AppliedRightly ==
    /\ \A r, s \in results : r.op \in Ops /\ r.op = s.op /\ r.ok /\ s.ok => r = s
    /\ \A o \in Ops : op[o].at = "ok" /\ o \notin ClaimCalls => AppliedBy(o) # {}

(* What the facilitator has under way is the operation whose turn it is, as
   long as none ended without its result.                                   *)
Unresolved == {"polling", "failed", "lost"}

Clean == \A p \in Own : op[p].at \notin {"failed", "lost"}

InTurn ==
    /\ \A t \in flying : t.acct = "facilitator" => op[t.op].at \in Unresolved
    /\ \A r \in results \ visible : r.acct = "facilitator" => op[r.op].at \in Unresolved
    /\ \A o \in Own : op[o].at = "built" /\ Clean => op[o].seq = sequence["facilitator"] + 1
    /\ QueueAvoidsCollisions

SubInv == SubTyped /\ InLine /\ SentOnce /\ Counted /\ OverIsOver /\ AppliedRightly /\ InTurn

-----------------------------------------------------------------------------
(* What the actions do to the operations.                                   *)

OthersStay(o) == op' \in [Ops -> OpType] /\ \A p \in Ops \ {o} : op'[p] = op[p]

NetworkStays == UNCHANGED <<now, sequence, results, visible, others>>

Begins(o) ==
    /\ op[o].at = "idle" /\ op'[o].at = "called" /\ op'[o].try = op[o].try
    /\ queue' = IF o \in Own THEN Append(queue, o) ELSE queue
    /\ UNCHANGED <<flying, overlooked, collided>>

Prepares(o) ==
    /\ op[o].at \in {"called", "ready", "proving", "read", "signing"}
    /\ op'[o].at \in {"ready", "proving", "read", "signing", "built", "proof"}
    /\ op'[o].try = op[o].try
    /\ op'[o].at \in {"signing", "built", "proof"} => op'[o].until <= now + Life(o)
    /\ o \in Own => /\ MayRun(o) \/ op[o].at # "called"
                    /\ op'[o].at \in {"ready", "built"}
                    /\ op'[o].at = "built" =>
                          op[o].at = "ready" /\ op'[o].seq = KnownSequence("facilitator") + 1
    /\ UNCHANGED <<flying, queue, overlooked, collided>>

(* The attempt is given up: what it sent is included no more, or was not seen. *)
Lapses(o) ==
    /\ \A t \in flying : t.op = o /\ t.try = op[o].try => now > t.until
    /\ \A r \in results : r.op = o /\ r.try = op[o].try /\ r.ok => o \in overlooked'

Retries(o) ==
    /\ o \in Invocations /\ op[o].at \in {"built", "polling"}
    /\ op'[o].at = "ready" /\ op'[o].try = op[o].try + 1
    /\ Lapses(o)
    /\ overlooked' = overlooked \/ overlooked' = overlooked \cup {o}
    /\ collided' = collided \/ collided' = collided \cup {o}
    /\ UNCHANGED <<flying, queue>>

Collides(o) == BadSequence(o) \/ Occupied(o)

Sending(o) ==
    /\ op[o].at \in {"built", "proof"} /\ op'[o].at \in Asking
    /\ op[o].at = "built" => op'[o].at = "polling"
    /\ op'[o].try = op[o].try /\ op'[o].since = now
    /\ flying' = flying \/ flying' = flying \cup {Tx(o)}
    /\ collided' = collided \/ (collided' = collided \cup {o} /\ Collides(o))
    /\ UNCHANGED <<queue, overlooked>>

Ending(o) ==
    /\ Doing(o) /\ op'[o].at \in Ended /\ op'[o].try = 1
    /\ o \in Own => MayRun(o) \/ op[o].at # "called"
    /\ Leaves(o)
    /\ flying' = flying
       \/ (/\ flying' = flying \cup {Tx(o)}
           /\ op[o].at \in {"built", "proof"} /\ op'[o].at = "lost")
    /\ op'[o].at = "failed" /\ o \notin Freezes => Lapses(o)
    /\ op'[o].at = "ok" =>
          /\ o \notin ClaimCalls => AppliedBy(o) # {}
          /\ \E r \in visible : r.op = o
    /\ o \in Own => op'[o].at \in {"ok", "failed", "lost"}
    /\ overlooked' = overlooked \/ overlooked' = overlooked \cup {o}
    /\ collided' = collided
       \/ (collided' = collided \cup {o} /\ op[o].at \in {"built", "proof"} /\ Collides(o))

LEMMA KindsOfOps ==
    /\ Own = Freezes \cup ClaimCalls /\ Ops = Invocations \cup Own \cup WalletOps
    /\ \A o \in Own : o \notin Invocations /\ o \notin WalletOps /\ o \notin Proofs
                      /\ Payer(o) = "facilitator"
    /\ \A o \in Ops \ Own : Payer(o) # "facilitator"
    /\ "other" \notin Ops
    /\ \A o : Payer(o) \in Accounts /\ Life(o) \in Nat
  <1>1. TxLife \in Nat /\ 2 * TxLife \in Nat
    BY SubmissionAssumption
  <1> QED BY <1>1, SubmissionAssumption DEF Own, Ops, Payer, Accounts, Life

(* One operation is another, the others are what they were.                 *)
LEMMA OneMoves ==
    ASSUME NEW f \in [Ops -> OpType], NEW o \in Ops, NEW x \in OpType,
           NEW g, g = [f EXCEPT ![o] = x]
    PROVE  g \in [Ops -> OpType] /\ g[o] = x /\ \A p \in Ops \ {o} : g[p] = f[p]
  OBVIOUS

LEMMA OpIsTyped ==
    ASSUME SubTyped, NEW o \in Ops
    PROVE  /\ op \in [Ops -> OpType] /\ op[o] \in OpType
           /\ op[o].at \in Steps /\ op[o].try \in Nat \ {0} /\ op[o].seq \in Nat
           /\ op[o].until \in Nat /\ op[o].auth \in Nat /\ op[o].since \in Nat
           /\ now \in Nat
  BY DEF SubTyped, OpType

LEMMA RequestedBegins ==
    ASSUME NEW o \in Ops, SubInv, Requested(o)
    PROVE  OthersStay(o) /\ NetworkStays /\ Begins(o)
  <1> DEFINE x == [op[o] EXCEPT !.at = "called"]
  <1>1. x \in OpType /\ x.at = "called" /\ x.try = op[o].try
    BY OpIsTyped DEF SubInv, OpType, Steps
  <1>2. op' = [op EXCEPT ![o] = x]
    BY DEF Requested, Moves
  <1> HIDE DEF x
  <1>3. op' \in [Ops -> OpType] /\ op'[o] = x /\ \A p \in Ops \ {o} : op'[p] = op[p]
    BY <1>1, <1>2, OneMoves, OpIsTyped DEF SubInv
  <1>4. op[o].at = "idle"
    BY DEF Requested, NoOp
  <1> QED BY <1>1, <1>3, <1>4 DEF Requested, OthersStay, NetworkStays, Begins

LEMMA EndsIs ==
    ASSUME NEW o \in Ops, SubInv, NEW outcome \in Ended, Ends(o, outcome)
    PROVE  OthersStay(o) /\ op'[o].at = outcome /\ op'[o].try = 1 /\ Leaves(o)
  <1> DEFINE x == [NoOp EXCEPT !.at = outcome]
  <1>1. x \in OpType /\ x.at = outcome /\ x.try = 1
    BY DEF NoOp, OpType, Steps, Ended
  <1>2. op' = [op EXCEPT ![o] = x]
    BY DEF Ends
  <1> HIDE DEF x
  <1>3. op' \in [Ops -> OpType] /\ op'[o] = x /\ \A p \in Ops \ {o} : op'[p] = op[p]
    BY <1>1, <1>2, OneMoves, OpIsTyped DEF SubInv
  <1> QED BY <1>1, <1>3 DEF OthersStay, Ends

LEMMA AuthorisesPrepares ==
    ASSUME NEW o \in Ops, SubInv, Authorises(o)
    PROVE  OthersStay(o) /\ NetworkStays /\ Prepares(o)
  <1> DEFINE auth == now + AuthLife
             x == [op[o] EXCEPT !.at = "ready", !.auth = auth]
  <1>0. auth \in Nat
    BY SubmissionAssumption, OpIsTyped DEF SubInv
  <1>2. op' = [op EXCEPT ![o] = x]
    BY DEF Authorises
  <1> HIDE DEF auth
  <1>1. x \in OpType /\ x.at = "ready" /\ x.try = op[o].try
    BY <1>0, OpIsTyped DEF SubInv, OpType, Steps
  <1> HIDE DEF x
  <1>3. op' \in [Ops -> OpType] /\ op'[o] = x /\ \A p \in Ops \ {o} : op'[p] = op[p]
    BY <1>1, <1>2, OneMoves, OpIsTyped DEF SubInv
  <1> QED BY <1>1, <1>3 DEF Authorises, OthersStay, NetworkStays, Prepares

(* A simulation refuses: the call is over, or its refusal is to be proven.  *)
LEMMA RefusedMoves ==
    ASSUME NEW o \in Ops, SubInv, Refused(o)
    PROVE  OthersStay(o) /\ NetworkStays /\ (Prepares(o) \/ Ending(o))
  <1>0. NetworkStays /\ UNCHANGED <<flying, overlooked, collided>> /\ op[o].at = "called"
    BY DEF Refused, NetworkStays
  <1>1. CASE Ends(o, "failed")
    <2>1. OthersStay(o) /\ op'[o].at = "failed" /\ op'[o].try = 1 /\ Leaves(o)
      BY <1>1, EndsIs DEF Ended
    <2>2. Doing(o) /\ MayRun(o)
      BY <1>0 DEF Doing, Refused, Ended
    <2>3. Lapses(o)
      <3>1. ~Gone(o, op[o].try)
        BY <1>0, OpIsTyped DEF Gone, Asking, Ended, SubInv
      <3> QED BY <3>1, KindsOfOps DEF SubInv, SentOnce, Lapses
    <2> QED BY <1>0, <2>1, <2>2, <2>3 DEF Ending, Ended
  <1>2. CASE /\ o \in Proofs
             /\ op' = [op EXCEPT ![o].at = "proving", ![o].auth = now + AuthLife]
             /\ UNCHANGED queue
    <2> DEFINE auth == now + AuthLife
               x == [op[o] EXCEPT !.at = "proving", !.auth = auth]
    <2>0. auth \in Nat
      BY SubmissionAssumption, OpIsTyped DEF SubInv
    <2>2. op' = [op EXCEPT ![o] = x]
      BY <1>2
    <2> HIDE DEF auth
    <2>1. x \in OpType /\ x.at = "proving" /\ x.try = op[o].try
      BY <2>0, OpIsTyped DEF SubInv, OpType, Steps
    <2> HIDE DEF x
    <2>3. op' \in [Ops -> OpType] /\ op'[o] = x /\ \A p \in Ops \ {o} : op'[p] = op[p]
      BY <2>1, <2>2, OneMoves, OpIsTyped DEF SubInv
    <2>4. o \notin Own
      BY <1>2, KindsOfOps
    <2> QED BY <1>0, <1>2, <2>1, <2>3, <2>4 DEF OthersStay, Prepares
  <1> QED BY <1>1, <1>2 DEF Refused

LEMMA KnownIsNat ==
    ASSUME SubTyped, NEW acct
    PROVE  KnownSequence(acct) \in Nat
  <1>1. IsFiniteSet(visible)
    BY FS_Subset DEF SubTyped
  <1>2. IsFiniteSet({t \in visible : t.acct = acct})
    BY <1>1, FS_Subset
  <1> QED BY <1>2, FS_CardinalityType DEF KnownSequence

LEMMA BuildsPrepares ==
    ASSUME NEW o \in Ops, SubInv, Builds(o)
    PROVE  OthersStay(o) /\ NetworkStays /\ Prepares(o)
  <1> DEFINE at == IF op[o].at = "ready" THEN "built" ELSE "proof"
             seq == KnownSequence(Payer(o)) + 1
             until == now + Life(o)
             x == [op[o] EXCEPT !.at = at, !.seq = seq, !.until = until]
  <1>0. /\ at \in {"built", "proof"} /\ seq \in Nat /\ until \in Nat
        /\ at = "built" => op[o].at = "ready"
    BY KnownIsNat, KindsOfOps, OpIsTyped DEF SubInv
  <1>2. op' = [op EXCEPT ![o] = x]
    BY OpIsTyped DEF Builds, SubInv
  <1>4. o \in Own => op[o].at = "ready" /\ seq = KnownSequence("facilitator") + 1
    BY KindsOfOps DEF Builds, SubInv, InLine
  <1>5. o \in Own => at = "built"
    BY <1>4
  <1> HIDE DEF at, seq
  <1>1. /\ x \in OpType /\ x.at = at /\ x.try = op[o].try /\ x.seq = seq
        /\ x.until = now + Life(o)
    BY <1>0, OpIsTyped DEF SubInv, OpType, Steps
  <1> HIDE DEF x
  <1>3. op' \in [Ops -> OpType] /\ op'[o] = x /\ \A p \in Ops \ {o} : op'[p] = op[p]
    BY <1>1, <1>2, OneMoves, OpIsTyped DEF SubInv
  <1>6. op'[o].until <= now + Life(o)
    BY <1>0, <1>1, <1>3 DEF Life
  <1>7. OthersStay(o) /\ NetworkStays /\ UNCHANGED <<flying, queue, overlooked, collided>>
    BY <1>3 DEF OthersStay, NetworkStays, Builds
  <1>8. op[o].at \in {"ready", "proving"}
    BY DEF Builds
  <1> QED BY <1>0, <1>1, <1>3, <1>4, <1>5, <1>6, <1>7, <1>8 DEF Prepares

LEMMA SourceReadPrepares ==
    ASSUME NEW o \in Ops, SubInv, SourceRead(o)
    PROVE  OthersStay(o) /\ NetworkStays /\ Prepares(o)
  <1> DEFINE seq == KnownSequence("wallet") + 1
             auth == now + AuthLife
             x == [op[o] EXCEPT !.at = "read", !.seq = seq, !.auth = auth]
  <1>0. auth \in Nat /\ seq \in Nat
    BY SubmissionAssumption, KnownIsNat, OpIsTyped DEF SubInv
  <1>2. op' = [op EXCEPT ![o] = x]
    BY DEF SourceRead
  <1> HIDE DEF seq, auth
  <1>1. x \in OpType /\ x.at = "read" /\ x.try = op[o].try
    BY <1>0, OpIsTyped DEF SubInv, OpType, Steps
  <1> HIDE DEF x
  <1>3. op' \in [Ops -> OpType] /\ op'[o] = x /\ \A p \in Ops \ {o} : op'[p] = op[p]
    BY <1>1, <1>2, OneMoves, OpIsTyped DEF SubInv
  <1>4. o \notin Own
    BY KindsOfOps DEF SourceRead
  <1> QED BY <1>1, <1>3, <1>4 DEF SourceRead, OthersStay, NetworkStays, Prepares

LEMMA PreparedPrepares ==
    ASSUME NEW o \in Ops, SubInv, Prepared(o)
    PROVE  OthersStay(o) /\ NetworkStays /\ Prepares(o)
  <1> DEFINE auth == IF o \in OwnerOps THEN op[o].auth ELSE now + Life(o)
             until == now + Life(o)
             x == [op[o] EXCEPT !.at = "signing", !.until = until, !.auth = auth]
  <1>0. until \in Nat /\ auth \in Nat
    BY KindsOfOps, OpIsTyped DEF SubInv
  <1>2. op' = [op EXCEPT ![o] = x]
    BY OpIsTyped DEF Prepared, SubInv
  <1> HIDE DEF auth
  <1>1. x \in OpType /\ x.at = "signing" /\ x.try = op[o].try /\ x.until = now + Life(o)
    BY <1>0, OpIsTyped DEF SubInv, OpType, Steps
  <1> HIDE DEF x
  <1>3. op' \in [Ops -> OpType] /\ op'[o] = x /\ \A p \in Ops \ {o} : op'[p] = op[p]
    BY <1>1, <1>2, OneMoves, OpIsTyped DEF SubInv
  <1>4. o \notin Own
    BY KindsOfOps DEF Prepared, SubInv, InLine
  <1>5. op'[o].until <= now + Life(o)
    BY <1>0, <1>1, <1>3
  <1> QED BY <1>1, <1>3, <1>4, <1>5 DEF Prepared, OthersStay, NetworkStays, Prepares

LEMMA WalletSignsPrepares ==
    ASSUME NEW o \in Ops, SubInv, WalletSigns(o)
    PROVE  OthersStay(o) /\ NetworkStays /\ Prepares(o)
  <1> DEFINE x == [op[o] EXCEPT !.at = "built"]
  <1>1. x \in OpType /\ x.at = "built" /\ x.try = op[o].try /\ x.until = op[o].until
    BY OpIsTyped DEF SubInv, OpType, Steps
  <1>2. op' = [op EXCEPT ![o] = x]
    BY DEF WalletSigns, Moves
  <1> HIDE DEF x
  <1>3. op' \in [Ops -> OpType] /\ op'[o] = x /\ \A p \in Ops \ {o} : op'[p] = op[p]
    BY <1>1, <1>2, OneMoves, OpIsTyped DEF SubInv
  <1>4. o \notin Own
    BY KindsOfOps DEF WalletSigns, SubInv, InLine
  <1>5. op[o].until <= now + Life(o)
    BY DEF WalletSigns, SubInv, OverIsOver
  <1> QED BY <1>1, <1>3, <1>4, <1>5 DEF WalletSigns, OthersStay, NetworkStays, Prepares

LEMMA WalletRefusesEnds ==
    ASSUME NEW o \in Ops, SubInv, WalletRefuses(o)
    PROVE  OthersStay(o) /\ NetworkStays /\ Ending(o)
  <1>0. op[o].at \in {"read", "signing"} /\ Ends(o, "failed")
    BY DEF WalletRefuses
  <1>1. OthersStay(o) /\ op'[o].at = "failed" /\ op'[o].try = 1 /\ Leaves(o)
    BY <1>0, EndsIs DEF Ended
  <1>2. Doing(o) /\ op[o].at # "called"
    BY <1>0 DEF Doing, Ended
  <1>3. Lapses(o)
    <2>1. ~Gone(o, op[o].try)
      BY <1>0, OpIsTyped DEF Gone, Asking, Ended, SubInv
    <2> QED BY <2>1, KindsOfOps DEF SubInv, SentOnce, Lapses
  <1>4. NetworkStays /\ UNCHANGED <<flying, overlooked, collided>>
    BY DEF WalletRefuses, NetworkStays
  <1> QED BY <1>1, <1>2, <1>3, <1>4 DEF Ending, Ended

(* A result of this try is not the result of another.                       *)
LEMMA NotSentYet ==
    ASSUME NEW o \in Ops, SubInv, op[o].at \in {"built", "proof"}
    PROVE  /\ ~Gone(o, op[o].try) /\ Lapses(o)
           /\ \A t \in flying : t.op = o => t.try # op[o].try
           /\ \A r \in results : r.op = o => r.try # op[o].try
  <1>1. ~Gone(o, op[o].try)
    BY OpIsTyped DEF Gone, Asking, Ended, SubInv
  <1> QED BY <1>1, KindsOfOps DEF SubInv, SentOnce, Lapses

LEMMA RetryIs ==
    ASSUME NEW o \in Ops, SubInv
    PROVE  op' = [op EXCEPT ![o].at = "ready", ![o].try = @ + 1]
              => OthersStay(o) /\ op'[o].at = "ready" /\ op'[o].try = op[o].try + 1
  <1> DEFINE try == op[o].try + 1
             x == [op[o] EXCEPT !.at = "ready", !.try = try]
  <1>0. try \in Nat \ {0}
    BY OpIsTyped DEF SubInv
  <1>2. [op EXCEPT ![o].at = "ready", ![o].try = @ + 1] = [op EXCEPT ![o] = x]
    BY OpIsTyped DEF SubInv
  <1> HIDE DEF try
  <1>1. x \in OpType /\ x.at = "ready" /\ x.try = try
    BY <1>0, OpIsTyped DEF SubInv, OpType, Steps
  <1> HIDE DEF x
  <1>3. op' = [op EXCEPT ![o] = x] =>
           op' \in [Ops -> OpType] /\ op'[o] = x /\ \A p \in Ops \ {o} : op'[p] = op[p]
    BY <1>1, OneMoves, OpIsTyped DEF SubInv
  <1> QED BY <1>1, <1>2, <1>3 DEF OthersStay, try

LEMMA SendRefusedMoves ==
    ASSUME NEW o \in Ops, SubInv, SendRefused(o)
    PROVE  OthersStay(o) /\ NetworkStays /\ (Retries(o) \/ Ending(o))
  <1>0. /\ NetworkStays /\ UNCHANGED <<flying, overlooked>>
        /\ op[o].at \in {"built", "proof"}
    BY DEF SendRefused, NetworkStays
  <1>1. collided' = collided \/ (collided' = collided \cup {o} /\ Collides(o))
    BY DEF SendRefused, Collides
  <1>2. Lapses(o)
    BY <1>0, NotSentYet
  <1>3. CASE /\ op[o].at = "built" /\ o \in Invocations
             /\ op' = [op EXCEPT ![o].at = "ready", ![o].try = @ + 1]
             /\ UNCHANGED queue
    BY <1>0, <1>1, <1>2, <1>3, RetryIs DEF Retries
  <1>4. CASE Ends(o, "failed")
    <2>1. OthersStay(o) /\ op'[o].at = "failed" /\ op'[o].try = 1 /\ Leaves(o)
      BY <1>4, EndsIs DEF Ended
    <2>2. Doing(o) /\ op[o].at # "called"
      BY <1>0 DEF Doing, Ended
    <2> QED BY <1>0, <1>1, <1>2, <2>1, <2>2 DEF Ending, Ended
  <1> QED BY <1>3, <1>4 DEF SendRefused

LEMMA SendsDoes ==
    ASSUME NEW o \in Ops, SubInv, Sends(o)
    PROVE  OthersStay(o) /\ NetworkStays /\ Sending(o)
  <1> DEFINE at == IF op[o].at = "built" THEN "polling" ELSE "watching"
             x == [op[o] EXCEPT !.at = at, !.since = now]
  <1>0. at \in Asking /\ (op[o].at = "built" => at = "polling")
    BY DEF Asking
  <1>2. op' = [op EXCEPT ![o] = x]
    BY OpIsTyped DEF Sends, SubInv
  <1> HIDE DEF at
  <1>1. x \in OpType /\ x.at = at /\ x.try = op[o].try /\ x.since = now
    BY <1>0, OpIsTyped DEF SubInv, OpType, Steps
  <1> HIDE DEF x
  <1>3. op' \in [Ops -> OpType] /\ op'[o] = x /\ \A p \in Ops \ {o} : op'[p] = op[p]
    BY <1>1, <1>2, OneMoves, OpIsTyped DEF SubInv
  <1>4. /\ NetworkStays /\ UNCHANGED <<queue, overlooked>> /\ op[o].at \in {"built", "proof"}
        /\ flying' = flying \/ flying' = flying \cup {Tx(o)}
        /\ collided' = collided \/ (collided' = collided \cup {o} /\ Collides(o))
    BY DEF Sends, NetworkStays, Collides
  <1> QED BY <1>0, <1>1, <1>3, <1>4 DEF OthersStay, Sending

LEMMA FoundEnds ==
    ASSUME NEW o \in Ops, SubInv, Found(o)
    PROVE  OthersStay(o) /\ NetworkStays /\ Ending(o)
  <1> DEFINE outcome(r) == IF op[o].at = "polling"
                           THEN IF r.ok \/ o \in ClaimCalls THEN "ok" ELSE "failed"
                           ELSE IF r.ok THEN "diverged" ELSE "proven"
  <1>0. /\ NetworkStays /\ UNCHANGED <<flying, overlooked, collided>>
        /\ op[o].at \in {"polling", "watching"}
    BY DEF Found, NetworkStays
  <1>1. PICK r \in OfThisTry(o) : Ends(o, outcome(r))
    BY DEF Found
  <1>2. r \in visible /\ r \in results /\ r.op = o /\ r.try = op[o].try
    BY <1>1 DEF OfThisTry, SubInv, SubTyped
  <1>3. outcome(r) \in Ended
    BY DEF Ended
  <1>4. OthersStay(o) /\ op'[o].at = outcome(r) /\ op'[o].try = 1 /\ Leaves(o)
    <2> HIDE DEF outcome
    <2> QED BY <1>1, <1>3, EndsIs
  <1>5. Doing(o) /\ op[o].at # "called"
    BY <1>0 DEF Doing, Ended
  <1>6. op'[o].at = "failed" => Lapses(o)
    <2> SUFFICES ASSUME op'[o].at = "failed" PROVE Lapses(o)
      OBVIOUS
    <2>1. ~r.ok
      BY <1>4
    <2>2. \A t \in flying : t.op = o => t.try # op[o].try
      BY <1>2 DEF SubInv, SentOnce
    <2>3. \A s \in results : s.op = o /\ s.try = op[o].try => s = r
      BY <1>2 DEF SubInv, SentOnce
    <2> QED BY <2>1, <2>2, <2>3 DEF Lapses
  <1>7. op'[o].at = "ok" =>
          (o \notin ClaimCalls => AppliedBy(o) # {}) /\ \E s \in visible : s.op = o
    BY <1>2, <1>4 DEF AppliedBy
  <1>8. o \in Own => op'[o].at \in {"ok", "failed", "lost"}
    BY <1>0, <1>4 DEF SubInv, InLine
  <1> HIDE DEF outcome
  <1> QED BY <1>0, <1>3, <1>4, <1>5, <1>6, <1>7, <1>8 DEF Ending

LEMMA NotFoundMoves ==
    ASSUME NEW o \in Ops, SubInv, NotFound(o)
    PROVE  OthersStay(o) /\ NetworkStays /\ (Retries(o) \/ Ending(o))
  <1>0. /\ NetworkStays /\ UNCHANGED <<flying, collided>>
        /\ op[o].at \in {"polling", "watching"} /\ OfThisTry(o) = {} /\ ~Patient(o)
        /\ overlooked' = IF \E r \in results \ visible : r.op = o
                         THEN overlooked \cup {o} ELSE overlooked
    BY DEF NotFound, NetworkStays
  <1>1. /\ overlooked' = overlooked \/ overlooked' = overlooked \cup {o}
        /\ (\E r \in results \ visible : r.op = o) => o \in overlooked'
    BY <1>0
  <1>2. Doing(o) /\ op[o].at # "called"
    BY <1>0 DEF Doing, Ended
  <1>3. op[o].at = "polling" /\ o \notin Freezes \cup WalletOps => Lapses(o)
    <2> SUFFICES ASSUME op[o].at = "polling", o \notin Freezes \cup WalletOps
                 PROVE  Lapses(o)
      OBVIOUS
    <2>1. now > op[o].since + Life(o)
      <3>1. ~(now <= op[o].since + Life(o))
        BY <1>0 DEF Patient
      <3> QED BY <3>1, KindsOfOps, OpIsTyped DEF SubInv
    <2>2. ASSUME NEW t \in flying, t.op = o, t.try = op[o].try
          PROVE  now > t.until
      <3>1. t.until <= op[o].since + Life(o)
        BY <2>2 DEF SubInv, OverIsOver, Asking
      <3>2. t.until \in Nat
        BY DEF SubInv, SubTyped
      <3> QED BY <2>1, <3>1, <3>2, KindsOfOps, OpIsTyped DEF SubInv
    <2>3. ASSUME NEW r \in results, r.op = o, r.try = op[o].try
          PROVE  o \in overlooked'
      BY <1>0, <1>1, <2>3 DEF OfThisTry
    <2> QED BY <2>2, <2>3 DEF Lapses
  <1>4. CASE /\ op[o].at = "polling" /\ o \in Invocations
             /\ op' = [op EXCEPT ![o].at = "ready", ![o].try = @ + 1]
             /\ UNCHANGED queue
    <2>1. o \notin Freezes \cup WalletOps
      BY <1>4, KindsOfOps, SubmissionAssumption
    <2> QED BY <1>0, <1>1, <1>3, <1>4, <2>1, RetryIs DEF Retries
  <1>5. CASE Ends(o, GivenUp(o))
    <2>1. /\ GivenUp(o) \in {"proven", "unconfirmed", "failed"}
          /\ GivenUp(o) = "failed" => op[o].at = "polling" /\ o \notin WalletOps
          /\ o \in Own => GivenUp(o) = "failed"
      BY <1>0, KindsOfOps DEF GivenUp, SubInv, InLine
    <2>2. OthersStay(o) /\ op'[o].at = GivenUp(o) /\ op'[o].try = 1 /\ Leaves(o)
      BY <1>5, <2>1, EndsIs DEF Ended
    <2>3. op'[o].at = "failed" /\ o \notin Freezes => Lapses(o)
      BY <1>3, <2>1, <2>2
    <2>4. op'[o].at \in Ended /\ op'[o].at # "ok"
      BY <2>1, <2>2 DEF Ended
    <2>5. o \in Own => op'[o].at \in {"ok", "failed", "lost"}
      BY <2>1, <2>2
    <2> QED BY <1>0, <1>1, <1>2, <2>2, <2>3, <2>4, <2>5 DEF Ending
  <1> QED BY <1>4, <1>5 DEF NotFound

LEMMA AnswerLostEnds ==
    ASSUME NEW o \in Ops, SubInv, AnswerLost(o)
    PROVE  OthersStay(o) /\ NetworkStays /\ Ending(o)
  <1>0. /\ NetworkStays /\ UNCHANGED <<overlooked, collided>> /\ Ends(o, "lost")
        /\ \/ flying' = flying
           \/ op[o].at \in {"built", "proof"} /\ flying' = flying \cup {Tx(o)}
    BY DEF AnswerLost, NetworkStays
  <1>1. OthersStay(o) /\ op'[o].at = "lost" /\ op'[o].try = 1 /\ Leaves(o)
    BY <1>0, EndsIs DEF Ended
  <1>2. Doing(o) /\ MayRun(o)
    BY DEF AnswerLost, Doing, Ended
  <1>3. op'[o].at \in Ended
    BY <1>1 DEF Ended
  <1> QED BY <1>0, <1>1, <1>2, <1>3 DEF Ending

(* So each step of an operation is one of five.                             *)
Effect(o) ==
    /\ OthersStay(o) /\ NetworkStays
    /\ Begins(o) \/ Prepares(o) \/ Retries(o) \/ Sending(o) \/ Ending(o)

LEMMA OpStepIs ==
    ASSUME NEW o \in Ops, SubInv, OpStep(o)
    PROVE  Effect(o)
  BY RequestedBegins, AuthorisesPrepares, RefusedMoves, BuildsPrepares, SourceReadPrepares,
     PreparedPrepares, WalletSignsPrepares, WalletRefusesEnds, SendRefusedMoves, SendsDoes,
     FoundEnds, NotFoundMoves, AnswerLostEnds DEF OpStep, Effect

-----------------------------------------------------------------------------
(* What such a step leaves true.                                            *)

LEMMA TxIsTyped ==
    ASSUME NEW o \in Ops, SubTyped
    PROVE  /\ Tx(o) \in [op : Ops, acct : Accounts, try : Nat \ {0}, seq : Nat, until : Nat,
                         auth : Nat]
           /\ Tx(o).op = o /\ Tx(o).try = op[o].try /\ Tx(o).acct = Payer(o)
           /\ Tx(o).until = op[o].until
  BY OpIsTyped, KindsOfOps DEF Tx

(* The line of the own operations.                                          *)
LEMMA LineIs ==
    ASSUME NEW o \in Own, SubInv, Doing(o), MayRun(o) \/ op[o].at # "called"
    PROVE  queue # <<>> /\ Head(queue) = o /\ queue[1] = o /\ queue \in Seq(Own)
  <1>1. queue \in Seq(Own) /\ \E i \in DOMAIN queue : queue[i] = o
    BY DEF SubInv, SubTyped, InLine
  <1>2. queue # <<>> /\ Head(queue) = queue[1]
    BY <1>1
  <1>3. Head(queue) = o
    BY <1>2 DEF MayRun, SubInv, InLine
  <1> QED BY <1>1, <1>2, <1>3

LEMMA QueueMoves ==
    ASSUME NEW o \in Ops, SubInv, Effect(o)
    PROVE  queue' \in Seq(Own)
  <1>1. queue \in Seq(Own)
    BY DEF SubInv, SubTyped
  <1>2. CASE Begins(o)
    BY <1>1, <1>2 DEF Begins
  <1>3. CASE Prepares(o) \/ Retries(o) \/ Sending(o)
    BY <1>1, <1>3 DEF Prepares, Retries, Sending
  <1>4. CASE Ending(o)
    <2>1. o \in Own => queue # <<>>
      BY <1>4, LineIs DEF Ending
    <2>2. queue' = IF o \in Own THEN Tail(queue) ELSE queue
      BY <1>4 DEF Ending, Leaves
    <2> QED BY <1>1, <2>1, <2>2
  <1> QED BY <1>2, <1>3, <1>4 DEF Effect

LEMMA FlyingMoves ==
    ASSUME NEW o \in Ops, SubInv, Effect(o)
    PROVE  /\ flying' = flying
              \/ (/\ flying' = flying \cup {Tx(o)} /\ op[o].at \in {"built", "proof"}
                  /\ op'[o].at \in Asking \cup {"lost"})
           /\ overlooked' = overlooked \/ overlooked' = overlooked \cup {o}
           /\ collided' = collided \/ collided' = collided \cup {o}
  BY DEF Effect, Begins, Prepares, Retries, Sending, Ending, Asking

LEMMA EffectTypes ==
    ASSUME NEW o \in Ops, SubInv, Effect(o)
    PROVE  SubTyped'
  <1>1. queue' \in Seq(Own)
    BY QueueMoves
  <1>2. flying' \subseteq [op : Ops, acct : Accounts, try : Nat \ {0}, seq : Nat, until : Nat,
                           auth : Nat]
    <2> DEFINE T == [op : Ops, acct : Accounts, try : Nat \ {0}, seq : Nat, until : Nat,
                     auth : Nat]
    <2>1. flying \subseteq T /\ Tx(o) \in T
      BY TxIsTyped DEF SubInv, SubTyped
    <2> HIDE DEF T
    <2>2. flying' \subseteq T
      BY <2>1, FlyingMoves
    <2> QED BY <2>2 DEF T
  <1>3. overlooked' \subseteq Ops /\ collided' \subseteq Ops
    BY FlyingMoves DEF SubInv, SubTyped
  <1>4. op' \in [Ops -> OpType]
    BY DEF Effect, OthersStay
  <1> QED BY <1>1, <1>2, <1>3, <1>4 DEF SubTyped, SubInv, Effect, NetworkStays

(* What was sent stays sent.                                                *)
LEMMA SentStays ==
    ASSUME NEW o \in Ops, SubInv, Effect(o)
    PROVE  \A p \in Ops, k \in Nat \ {0} : Gone(p, k) => Gone(p, k)'
  <1>1. ASSUME NEW k \in Nat \ {0}, Gone(o, k)
        PROVE  Gone(o, k)'
    <2>1. CASE Begins(o) \/ Prepares(o)
      BY <1>1, <2>1, OpIsTyped
      DEF Begins, Prepares, Gone, Asking, Ended, SubInv
    <2>2. CASE Retries(o)
      BY <1>1, <2>2, OpIsTyped
      DEF Retries, Gone, Asking, Ended, SubInv
    <2>3. CASE Sending(o)
      BY <1>1, <2>3, OpIsTyped
      DEF Sending, Gone, Asking, Ended, SubInv
    <2>4. CASE Ending(o)
      BY <2>4 DEF Ending, Gone
    <2> QED BY <2>1, <2>2, <2>3, <2>4 DEF Effect
  <1>2. ASSUME NEW p \in Ops \ {o}, NEW k \in Nat \ {0}, Gone(p, k)
        PROVE  Gone(p, k)'
    BY <1>2 DEF Effect, OthersStay, Gone
  <1> QED BY <1>1, <1>2

LEMMA EffectSentOnce ==
    ASSUME NEW o \in Ops, SubInv, Effect(o)
    PROVE  SentOnce'
  <1>0. /\ UNCHANGED <<results, others>>
        /\ \A t \in flying : t.op \in Ops /\ t.try \in Nat \ {0}
        /\ \A r \in results : r.op \in Ops \cup {"other"} /\ r.try \in Nat \ {0}
    BY DEF Effect, NetworkStays, SubInv, SubTyped
  <1>1. \A t \in flying : Gone(t.op, t.try)' /\ t.acct = Payer(t.op)
                          /\ (t.op \notin Invocations => t.try = 1)
    BY <1>0, SentStays DEF SubInv, SentOnce
  <1>2. \A r \in results' : IF r.op = "other" THEN r.acct = "relayer" /\ r.try <= others'
                            ELSE Gone(r.op, r.try)' /\ r.acct = Payer(r.op)
                                 /\ (r.op \notin Invocations => r.try = 1)
    <2> SUFFICES ASSUME NEW r \in results
                 PROVE  IF r.op = "other" THEN r.acct = "relayer" /\ r.try <= others
                        ELSE Gone(r.op, r.try)' /\ r.acct = Payer(r.op)
                             /\ (r.op \notin Invocations => r.try = 1)
      BY <1>0
    <2> QED BY <1>0, SentStays DEF SubInv, SentOnce
  <1>3. CASE flying' = flying
    BY <1>0, <1>1, <1>2, <1>3 DEF SubInv, SentOnce
  <1>4. CASE /\ flying' = flying \cup {Tx(o)} /\ op[o].at \in {"built", "proof"}
             /\ op'[o].at \in Asking \cup {"lost"}
    <2>1. Tx(o).op = o /\ Tx(o).try = op[o].try /\ Tx(o).acct = Payer(o)
      BY TxIsTyped DEF SubInv
    <2>2. /\ \A t \in flying : t.op = o => t.try # op[o].try
          /\ \A r \in results : r.op = o => r.try # op[o].try
      BY <1>4, NotSentYet
    <2>3. \A k : k = op[o].try => Gone(o, k)'
      <3>1. Sending(o) \/ Ending(o)
        BY <1>4 DEF Effect, Begins, Prepares, Retries, Asking
      <3> QED BY <3>1 DEF Sending, Ending, Gone
    <2>4. o \notin Invocations => op[o].try = 1
      BY DEF SubInv, InLine
    <2>5. \A t \in flying' : Gone(t.op, t.try)' /\ t.acct = Payer(t.op)
                             /\ (t.op \notin Invocations => t.try = 1)
      BY <1>1, <1>4, <2>1, <2>3, <2>4
    <2>6. \A s, t \in flying' : s.op = t.op /\ s.try = t.try => s = t
      BY <1>4, <2>1, <2>2 DEF SubInv, SentOnce
    <2>7. \A r \in results', t \in flying' : r.op = t.op => r.try # t.try
      BY <1>0, <1>4, <2>1, <2>2 DEF SubInv, SentOnce
    <2>8. \A r, s \in results' : r.op = s.op /\ r.try = s.try => r = s
      BY <1>0 DEF SubInv, SentOnce
    <2> QED BY <1>2, <2>5, <2>6, <2>7, <2>8 DEF SentOnce
  <1> QED BY <1>3, <1>4, FlyingMoves

LEMMA DoingStays ==
    ASSUME NEW o \in Ops, SubInv, Effect(o)
    PROVE  /\ \A p \in Ops \ {o} : (Doing(p)' <=> Doing(p)) /\ op'[p].at = op[p].at
           /\ Begins(o) => ~Doing(o) /\ Doing(o)' /\ op'[o].at = "called"
           /\ Prepares(o) \/ Retries(o) \/ Sending(o) =>
                 /\ Doing(o) /\ Doing(o)' /\ UNCHANGED queue
                 /\ o \in Own => MayRun(o) \/ op[o].at # "called"
           /\ Ending(o) => Doing(o) /\ ~Doing(o)'
           /\ o \in Own => op'[o].at \in {"called", "ready", "built", "polling", "ok", "failed",
                                          "lost"}
           /\ o \notin Invocations => op'[o].try = 1
  <1>1. \A p \in Ops \ {o} : op'[p] = op[p]
    BY DEF Effect, OthersStay
  <1>2. \A p \in Ops \ {o} : (Doing(p)' <=> Doing(p)) /\ op'[p].at = op[p].at
    BY <1>1 DEF Doing
  <1>3. Begins(o) => ~Doing(o) /\ Doing(o)' /\ op'[o].at = "called"
    BY DEF Begins, Doing, Ended
  <1>4. Prepares(o) \/ Retries(o) \/ Sending(o) =>
           /\ Doing(o) /\ Doing(o)' /\ UNCHANGED queue
           /\ o \in Own => MayRun(o) \/ op[o].at # "called"
    BY DEF Prepares, Retries, Sending, Doing, Ended, Asking
  <1>5. Ending(o) => Doing(o) /\ ~Doing(o)'
    BY DEF Ending, Doing
  <1>6. ASSUME o \in Own
        PROVE  op'[o].at \in {"called", "ready", "built", "polling", "ok", "failed", "lost"}
    <2>1. ~Retries(o) /\ op[o].at # "proof"
      BY <1>6, KindsOfOps DEF Retries, SubInv, InLine
    <2> QED BY <1>6, <2>1 DEF Effect, Begins, Prepares, Sending, Ending
  <1>7. ASSUME o \notin Invocations
        PROVE  op'[o].try = 1
    <2>1. op[o].try = 1
      BY <1>7 DEF SubInv, InLine
    <2> QED BY <1>7, <2>1 DEF Effect, Begins, Prepares, Retries, Sending, Ending
  <1> QED BY <1>2, <1>3, <1>4, <1>5, <1>6, <1>7

LEMMA EffectInLine ==
    ASSUME NEW o \in Ops, SubInv, Effect(o)
    PROVE  InLine'
  <1>0. Own \subseteq Ops
    BY DEF Ops
  <1>1. \A p \in Own : op'[p].at \in {"idle", "called", "ready", "built", "polling", "ok", "failed",
                                      "lost"}
    BY <1>0, DoingStays DEF SubInv, InLine
  <1>2. \A p \in Ops \ Invocations : op'[p].try = 1
    BY DoingStays DEF SubInv, InLine, Effect, OthersStay
  <1> DEFINE N == Len(queue)
  <1>3. /\ queue \in Seq(Own) /\ N \in Nat /\ DOMAIN queue = 1..N
        /\ \A i, j \in 1..N : queue[i] = queue[j] => i = j
        /\ \A p \in Own : Doing(p) <=> \E i \in 1..N : queue[i] = p
        /\ \A p \in Own : Doing(p) /\ op[p].at # "called" => queue[1] = p
    BY DEF SubInv, SubTyped, InLine
  <1>4. CASE o \notin Own \/ Prepares(o) \/ Retries(o) \/ Sending(o)
    <2>1. UNCHANGED queue
      BY <1>4, DoingStays DEF Effect, Begins, Ending, Leaves
    <2>2. \A p \in Own : Doing(p)' <=> Doing(p)
      BY <1>0, <1>4, DoingStays
    <2>3. \A p \in Own : Doing(p)' /\ op'[p].at # "called" => queue[1] = p
      <3> SUFFICES ASSUME NEW p \in Own, Doing(p)', op'[p].at # "called"
                   PROVE  queue[1] = p
        OBVIOUS
      <3>1. CASE p # o
        BY <1>0, <1>3, <3>1, DoingStays
      <3>2. CASE p = o
        <4>1. Doing(o) /\ (MayRun(o) \/ op[o].at # "called")
          BY <1>4, <3>2, DoingStays
        <4> QED BY <3>2, <4>1, LineIs
      <3> QED BY <3>1, <3>2
    <2> QED BY <1>1, <1>2, <1>3, <2>1, <2>2, <2>3 DEF InLine
  <1>5. CASE o \in Own /\ Begins(o)
    <2>1. /\ queue' = Append(queue, o) /\ Len(queue') = N + 1
          /\ \A i \in 1..N : queue'[i] = queue[i]
          /\ queue'[N + 1] = o /\ DOMAIN queue' = 1..(N + 1)
      BY <1>3, <1>5 DEF Begins
    <2>2. \A i \in 1..N : queue[i] # o
      BY <1>3, <1>5, DoingStays
    <2>3. \A i, j \in 1..(N + 1) : queue'[i] = queue'[j] => i = j
      <3> SUFFICES ASSUME NEW i \in 1..(N + 1), NEW j \in 1..(N + 1), queue'[i] = queue'[j]
                   PROVE  i = j
        OBVIOUS
      <3>1. (i \in 1..N \/ i = N + 1) /\ (j \in 1..N \/ j = N + 1)
        BY <1>3
      <3> QED BY <1>3, <2>1, <2>2, <3>1
    <2>4. \A p \in Own : Doing(p)' <=> \E i \in 1..(N + 1) : queue'[i] = p
      <3> TAKE p \in Own
      <3>1. CASE p = o
        <4>1. N + 1 \in 1..(N + 1)
          BY <1>3
        <4> QED BY <1>5, <2>1, <3>1, <4>1, DoingStays
      <3>2. CASE p # o
        <4>1. Doing(p)' <=> \E i \in 1..N : queue[i] = p
          BY <1>0, <1>3, <3>2, DoingStays
        <4>2. \A i \in 1..(N + 1) : i \in 1..N \/ i = N + 1
          BY <1>3
        <4>3. \A i \in 1..N : i \in 1..(N + 1)
          BY <1>3
        <4> QED BY <2>1, <3>2, <4>1, <4>2, <4>3
      <3> QED BY <3>1, <3>2
    <2>5. \A p \in Own : Doing(p)' /\ op'[p].at # "called" => queue'[1] = p
      <3> SUFFICES ASSUME NEW p \in Own, Doing(p)', op'[p].at # "called"
                   PROVE  queue'[1] = p
        OBVIOUS
      <3>1. p # o
        BY <1>5, DoingStays
      <3>2. Doing(p) /\ op[p].at # "called"
        BY <1>0, <3>1, DoingStays
      <3>3. queue[1] = p /\ N >= 1
        BY <1>3, <3>2
      <3>4. 1 \in 1..N
        BY <1>3, <3>3
      <3> QED BY <2>1, <3>3, <3>4
    <2> QED BY <1>1, <1>2, <2>1, <2>3, <2>4, <2>5 DEF InLine
  <1>6. CASE o \in Own /\ Ending(o)
    <2>1. queue # <<>> /\ queue[1] = o /\ queue' = Tail(queue)
      BY <1>6, LineIs DEF Ending, Leaves
    <2>2. /\ N >= 1 /\ Len(queue') = N - 1 /\ DOMAIN queue' = 1..(N - 1)
          /\ \A i \in 1..(N - 1) : queue'[i] = queue[i + 1]
      BY <1>3, <2>1
    <2>3. \A i, j \in 1..(N - 1) : queue'[i] = queue'[j] => i = j
      <3> SUFFICES ASSUME NEW i \in 1..(N - 1), NEW j \in 1..(N - 1), queue'[i] = queue'[j]
                   PROVE  i = j
        OBVIOUS
      <3>1. i + 1 \in 1..N /\ j + 1 \in 1..N /\ i \in Nat /\ j \in Nat
        BY <1>3
      <3>2. i + 1 = j + 1
        BY <1>3, <2>2, <3>1
      <3> QED BY <3>1, <3>2
    <2>4. \A p \in Own : Doing(p)' <=> \E i \in 1..(N - 1) : queue'[i] = p
      <3> TAKE p \in Own
      <3>1. CASE p = o
        <4>1. ASSUME NEW i \in 1..(N - 1), queue'[i] = o
              PROVE  FALSE
          <5>1. i + 1 \in 1..N /\ 1 \in 1..N /\ i + 1 # 1
            BY <1>3
          <5> QED BY <1>3, <2>1, <2>2, <4>1, <5>1
        <4> QED BY <1>6, <3>1, <4>1, DoingStays
      <3>2. CASE p # o
        <4>1. Doing(p)' <=> \E i \in 1..N : queue[i] = p
          BY <1>0, <1>3, <3>2, DoingStays
        <4>2. ASSUME NEW i \in 1..N, queue[i] = p
              PROVE  \E j \in 1..(N - 1) : queue'[j] = p
          <5>1. i # 1 /\ i - 1 \in 1..(N - 1) /\ (i - 1) + 1 = i
            BY <1>3, <2>1, <3>2, <4>2
          <5> QED BY <2>2, <4>2, <5>1
        <4>3. ASSUME NEW j \in 1..(N - 1), queue'[j] = p
              PROVE  \E i \in 1..N : queue[i] = p
          <5>1. j + 1 \in 1..N
            BY <1>3
          <5> QED BY <2>2, <4>3, <5>1
        <4> QED BY <4>1, <4>2, <4>3
      <3> QED BY <3>1, <3>2
    <2>5. \A p \in Own : Doing(p)' /\ op'[p].at # "called" => queue'[1] = p
      <3> SUFFICES ASSUME NEW p \in Own, Doing(p)', op'[p].at # "called"
                   PROVE  FALSE
        OBVIOUS
      <3>1. p # o
        BY <1>6, DoingStays
      <3>2. Doing(p) /\ op[p].at # "called"
        BY <1>0, <3>1, DoingStays
      <3> QED BY <1>3, <2>1, <3>1, <3>2
    <2> QED BY <1>1, <1>2, <2>2, <2>3, <2>4, <2>5 DEF InLine
  <1> QED BY <1>4, <1>5, <1>6 DEF Effect

(* What is over now was over, or has lapsed.                                *)
LEMMA OverNow ==
    ASSUME NEW o \in Ops, SubInv, Effect(o)
    PROVE  /\ \A p \in Ops \ {o}, k \in Nat \ {0} : Past(p, k)' => Past(p, k)
           /\ \A k \in Nat \ {0} : Past(o, k)' =>
                 Past(o, k) \/ (Lapses(o) /\ k = op[o].try)
                 \/ (op[o].at \notin Ended /\ ~Gone(o, k))
  <1>1. \A p \in Ops \ {o}, k \in Nat \ {0} : Past(p, k)' => Past(p, k)
    BY DEF Effect, OthersStay, Past
  <1>2. ASSUME NEW k \in Nat \ {0}, Past(o, k)'
        PROVE  \/ Past(o, k) \/ (Lapses(o) /\ k = op[o].try)
               \/ (op[o].at \notin Ended /\ ~Gone(o, k))
    <2>0. op[o].try \in Nat /\ op[o].at \notin Ended
      BY OpIsTyped
      DEF SubInv, Effect, Begins, Prepares, Retries, Sending, Ending, Asking, Ended, Doing
    <2>1. CASE Begins(o) \/ Prepares(o) \/ Sending(o)
      BY <1>2, <2>0, <2>1 DEF Past, Begins, Prepares, Sending, Ended, Asking
    <2>2. CASE Retries(o)
      <3>1. k < op[o].try + 1 /\ Lapses(o)
        BY <1>2, <2>2 DEF Past, Retries, Ended
      <3> QED BY <2>0, <3>1 DEF Past
    <2>3. CASE Ending(o)
      <3>1. op'[o].at = "failed" /\ o \notin Freezes /\ Lapses(o)
        BY <1>2, <2>3 DEF Past, Ending, Ended
      <3>2. k < op[o].try \/ k = op[o].try \/ k > op[o].try
        BY <2>0
      <3>3. CASE k < op[o].try
        BY <2>0, <3>3 DEF Past
      <3>4. CASE k = op[o].try
        BY <3>1, <3>4
      <3>5. CASE k > op[o].try
        BY <2>0, <3>5 DEF Gone
      <3> QED BY <3>2, <3>3, <3>4, <3>5
    <2> QED BY <2>1, <2>2, <2>3 DEF Effect
  <1> QED BY <1>1, <1>2

LEMMA EffectOver ==
    ASSUME NEW o \in Ops, SubInv, Effect(o)
    PROVE  OverIsOver'
  <1>0. /\ UNCHANGED <<now, results>> /\ now \in Nat
        /\ \A p \in Ops \ {o} : op'[p] = op[p]
        /\ \A t \in flying : t.op \in Ops /\ t.try \in Nat \ {0} /\ t.until \in Nat
        /\ \A r \in results : r.op \in Ops \cup {"other"} /\ r.try \in Nat \ {0}
        /\ overlooked \subseteq overlooked'
    BY FlyingMoves DEF Effect, OthersStay, NetworkStays, SubInv, SubTyped
  <1>1. \A p \in Ops : op'[p].at \in {"signing", "built", "proof"} =>
                          op'[p].until <= now' + Life(p)
    <2>1. op'[o].at \in {"signing", "built", "proof"} => op'[o].until <= now + Life(o)
      BY DEF Effect, Begins, Prepares, Retries, Sending, Ending, Asking, Ended
    <2> QED BY <1>0, <2>1 DEF SubInv, OverIsOver
  <1>2. ASSUME NEW t \in flying', op'[t.op].at \in Asking, t.try = op'[t.op].try
        PROVE  t.until <= op'[t.op].since + Life(t.op)
    <2>1. CASE t \in flying /\ t.op # o
      BY <1>0, <1>2, <2>1 DEF SubInv, OverIsOver
    <2>2. CASE t \in flying /\ t.op = o
      <3>1. Sending(o)
        BY <1>2, <2>2 DEF Effect, Begins, Prepares, Retries, Ending, Asking, Ended
      <3>2. op[o].at \in {"built", "proof"} /\ op'[o].try = op[o].try
        BY <3>1 DEF Sending
      <3> QED BY <1>2, <2>2, <3>2, NotSentYet
    <2>3. CASE t \notin flying
      <3>1. t = Tx(o) /\ op[o].at \in {"built", "proof"}
        BY <2>3, FlyingMoves
      <3>2. t.op = o /\ t.until = op[o].until /\ op[o].until <= now + Life(o)
        BY <3>1, TxIsTyped DEF SubInv, OverIsOver
      <3>3. Sending(o)
        BY <1>2, <3>2 DEF Effect, Begins, Prepares, Retries, Ending, Asking, Ended
      <3> QED BY <3>2, <3>3 DEF Sending
    <2> QED BY <2>1, <2>2, <2>3
  <1>3. ASSUME NEW t \in flying', Past(t.op, t.try)'
        PROVE  now > t.until
    <2>1. CASE t \in flying /\ t.op # o
      <3>1. Past(t.op, t.try)
        BY <1>0, <1>3, <2>1, OverNow
      <3> QED BY <2>1, <3>1 DEF SubInv, OverIsOver
    <2>2. CASE t \in flying /\ t.op = o
      <3>1. Past(o, t.try) \/ (Lapses(o) /\ t.try = op[o].try) \/ ~Gone(o, t.try)
        BY <1>0, <1>3, <2>2, OverNow
      <3>2. Gone(o, t.try)
        BY <2>2 DEF SubInv, SentOnce
      <3> QED BY <2>2, <3>1, <3>2 DEF SubInv, OverIsOver, Lapses
    <2>3. CASE t \notin flying
      <3>1. t = Tx(o) /\ op[o].at \in {"built", "proof"} /\ op'[o].at \in Asking \cup {"lost"}
        BY <2>3, FlyingMoves
      <3>2. t.op = o /\ t.try = op[o].try
        BY <3>1, TxIsTyped DEF SubInv
      <3>3. Sending(o) \/ Ending(o)
        BY <3>1 DEF Effect, Begins, Prepares, Retries, Asking
      <3>4. ~Past(t.op, t.try)'
        <4>1. CASE Sending(o)
          <5>1. op'[o].try = t.try /\ op'[o].at \notin Ended
            BY <3>2, <4>1 DEF Sending, Asking, Ended
          <5>2. t.try \in Nat
            BY <3>2, OpIsTyped DEF SubInv
          <5> QED BY <3>2, <5>1, <5>2 DEF Past, Ended
        <4>2. CASE Ending(o)
          <5>1. op'[o].at = "lost"
            BY <3>1, <4>2 DEF Ending, Asking, Ended
          <5> QED BY <3>2, <5>1 DEF Past, Ended
        <4> QED BY <3>3, <4>1, <4>2
      <3> QED BY <1>3, <3>4
    <2> QED BY <2>1, <2>2, <2>3
  <1>4. ASSUME NEW r \in results, r.op \in Ops, r.ok, Past(r.op, r.try)'
        PROVE  r.op \in overlooked'
    <2>0. r.op # "other"
      BY <1>4, KindsOfOps
    <2>1. CASE r.op # o
      <3>1. Past(r.op, r.try)
        BY <1>0, <1>4, <2>1, OverNow
      <3> QED BY <1>0, <1>4, <3>1 DEF SubInv, OverIsOver
    <2>2. CASE r.op = o
      <3>1. Past(o, r.try) \/ (Lapses(o) /\ r.try = op[o].try) \/ ~Gone(o, r.try)
        BY <1>0, <1>4, <2>2, OverNow
      <3>2. Gone(o, r.try)
        BY <2>0, <2>2 DEF SubInv, SentOnce
      <3> QED BY <1>0, <1>4, <2>2, <3>1, <3>2 DEF SubInv, OverIsOver, Lapses
    <2> QED BY <2>1, <2>2
  <1> QED BY <1>0, <1>1, <1>2, <1>3, <1>4 DEF OverIsOver

LEMMA EffectApplied ==
    ASSUME NEW o \in Ops, SubInv, Effect(o)
    PROVE  AppliedRightly'
  <1>0. results' = results /\ \A p \in Ops \ {o} : op'[p] = op[p]
    BY DEF Effect, OthersStay, NetworkStays
  <1>1. \A p \in Ops : AppliedBy(p)' = AppliedBy(p)
    BY <1>0 DEF AppliedBy
  <1>2. op'[o].at = "ok" /\ o \notin ClaimCalls => AppliedBy(o) # {}
    BY DEF Effect, Begins, Prepares, Retries, Sending, Ending, Asking
  <1>3. \A p \in Ops : op'[p].at = "ok" /\ p \notin ClaimCalls => AppliedBy(p)' # {}
    BY <1>0, <1>1, <1>2 DEF SubInv, AppliedRightly
  <1> QED BY <1>0, <1>3 DEF SubInv, AppliedRightly

LEMMA EffectCounted ==
    ASSUME NEW o \in Ops, SubInv, Effect(o)
    PROVE  Counted'
  BY DEF Effect, NetworkStays, SubInv, Counted

(* Whoever meets another's transaction meets one whose end is not known.    *)
LEMMA CollidesWithUnresolved ==
    ASSUME NEW o \in Own, SubInv, op[o].at \in {"built", "proof"}, Collides(o)
    PROVE  \E p \in Own \ {o} : op[p].at \in {"failed", "lost"}
  <1>0. o \in Ops /\ op[o].at = "built" /\ Payer(o) = "facilitator"
    BY KindsOfOps DEF SubInv, InLine
  <1>1. SUFFICES ASSUME Clean PROVE FALSE
    BY <1>0 DEF Clean
  <1>2. ~BadSequence(o)
    BY <1>0, <1>1 DEF SubInv, InTurn, BadSequence
  <1>3. PICK t \in flying : t.acct = "facilitator"
    BY <1>0, <1>2 DEF Collides, Occupied
  <1>4. t.op \in Own /\ op[t.op].at \in Unresolved
    <2>1. t.op \in Ops /\ t.acct = Payer(t.op)
      BY DEF SubInv, SubTyped, SentOnce
    <2> QED BY <1>3, <2>1, KindsOfOps DEF SubInv, InTurn
  <1>5. op[t.op].at = "polling"
    BY <1>1, <1>4 DEF Clean, Unresolved
  <1>6. queue[1] = t.op /\ queue[1] = o
    BY <1>0, <1>4, <1>5 DEF SubInv, InLine, Doing, Ended
  <1> QED BY <1>0, <1>5, <1>6

(* Where nothing ended without its result, the facilitator has no transaction
   but that of the operation whose turn it is, and the node knows them all.  *)
LEMMA AllIsKnown ==
    ASSUME NEW o \in Own, SubInv, op[o].at \in {"ready", "built"}, Clean
    PROVE  /\ \A t \in flying : t.acct # "facilitator"
           /\ KnownSequence("facilitator") = sequence["facilitator"]
  <1>0. queue[1] = o
    BY DEF SubInv, InLine, Doing, Ended
  <1>1. \A p \in Own : op[p].at \notin Unresolved
    <2> SUFFICES ASSUME NEW p \in Own, op[p].at = "polling" PROVE FALSE
      BY DEF Clean, Unresolved
    <2>1. queue[1] = p
      BY DEF SubInv, InLine, Doing, Ended
    <2> QED BY <1>0, <2>1
  <1>2. \A t \in flying : t.acct # "facilitator"
    <2> SUFFICES ASSUME NEW t \in flying, t.acct = "facilitator" PROVE FALSE
      OBVIOUS
    <2>1. t.op \in Own
      BY KindsOfOps DEF SubInv, SubTyped, SentOnce
    <2> QED BY <1>1, <2>1 DEF SubInv, InTurn
  <1>3. \A r \in results \ visible : r.acct # "facilitator"
    <2> SUFFICES ASSUME NEW r \in results \ visible, r.acct = "facilitator" PROVE FALSE
      OBVIOUS
    <2>1. r.op \in Ops \cup {"other"} /\ (r.op = "other" => r.acct = "relayer")
          /\ (r.op # "other" => r.acct = Payer(r.op))
      BY DEF SubInv, SubTyped, SentOnce
    <2>2. r.op \in Own
      BY <2>1, KindsOfOps
    <2> QED BY <1>1, <2>2 DEF SubInv, InTurn
  <1>4. {t \in visible : t.acct = "facilitator"} = {r \in results : r.acct = "facilitator"}
    BY <1>3 DEF SubInv, SubTyped
  <1>5. "facilitator" \in Accounts
    BY DEF Accounts
  <1> QED BY <1>2, <1>4, <1>5 DEF KnownSequence, SubInv, Counted

LEMMA EffectInTurn ==
    ASSUME NEW o \in Ops, SubInv, Effect(o)
    PROVE  InTurn'
  <1>0. /\ UNCHANGED <<results, visible, sequence>>
        /\ \A p \in Ops \ {o} : op'[p] = op[p]
        /\ Own \subseteq Ops
    BY DEF Effect, OthersStay, NetworkStays, Ops
  <1>1. op[o].at \notin {"failed", "lost"}
    BY DEF Effect, Begins, Prepares, Retries, Sending, Ending, Doing, Ended
  <1>2. Clean' => Clean
    BY <1>0, <1>1 DEF Clean
  (* What has been sent stays unresolved until its result is seen.          *)
  <1>3. o \in Own /\ op[o].at = "polling" =>
           op'[o].at \in Unresolved \/ \E r \in visible : r.op = o
    <2> SUFFICES ASSUME o \in Own, op[o].at = "polling"
                 PROVE  op'[o].at \in Unresolved \/ \E r \in visible : r.op = o
      OBVIOUS
    <2>1. Ending(o)
      BY KindsOfOps DEF Effect, Begins, Prepares, Retries, Sending
    <2> QED BY <2>1 DEF Ending, Unresolved
  <1>4. ASSUME NEW t \in flying', t.acct = "facilitator"
        PROVE  op'[t.op].at \in Unresolved
    <2>1. CASE t \in flying
      <3>1. t.op \in Own /\ op[t.op].at \in Unresolved
        BY <1>4, <2>1, KindsOfOps DEF SubInv, SubTyped, SentOnce, InTurn
      <3>2. CASE t.op # o
        BY <1>0, <3>1, <3>2
      <3>3. CASE t.op = o
        <4>1. \A r \in visible : r.op # o
          BY <2>1, <3>1, <3>3, KindsOfOps DEF SubInv, SubTyped, SentOnce
        <4> QED BY <1>1, <1>3, <3>1, <3>3, <4>1 DEF Unresolved
      <3> QED BY <3>2, <3>3
    <2>2. CASE t \notin flying
      <3>1. /\ t = Tx(o) /\ op[o].at \in {"built", "proof"}
            /\ op'[o].at \in Asking \cup {"lost"}
        BY <2>2, FlyingMoves
      <3>2. t.op = o /\ o \in Own
        BY <1>4, <3>1, TxIsTyped, KindsOfOps DEF SubInv
      <3>3. op'[o].at # "watching"
        BY <3>2, DoingStays
      <3> QED BY <3>1, <3>2, <3>3 DEF Asking, Unresolved
    <2> QED BY <2>1, <2>2
  <1>5. ASSUME NEW r \in results \ visible, r.acct = "facilitator"
        PROVE  op'[r.op].at \in Unresolved
    <2>1. r.op \in Ops \cup {"other"} /\ (r.op = "other" => r.acct = "relayer")
          /\ (r.op # "other" => r.acct = Payer(r.op))
      BY DEF SubInv, SubTyped, SentOnce
    <2>2. r.op \in Own /\ op[r.op].at \in Unresolved
      BY <1>5, <2>1, KindsOfOps DEF SubInv, InTurn
    <2>3. CASE r.op # o
      BY <1>0, <2>2, <2>3
    <2>4. CASE r.op = o
      <3>1. \A s \in visible : s.op # o
        <4> SUFFICES ASSUME NEW s \in visible, s.op = o PROVE FALSE
          OBVIOUS
        <4>1. s \in results /\ s.try = 1 /\ r.try = 1
          BY <2>2, <2>4, KindsOfOps DEF SubInv, SubTyped, SentOnce
        <4>2. s = r
          BY <2>4, <4>1 DEF SubInv, SentOnce
        <4> QED BY <1>5, <4>2
      <3> QED BY <1>1, <1>3, <2>2, <2>4, <3>1 DEF Unresolved
    <2> QED BY <2>3, <2>4
  <1>6. ASSUME NEW p \in Own, op'[p].at = "built", Clean'
        PROVE  op'[p].seq = sequence["facilitator"] + 1
    <2>1. CASE p # o
      BY <1>0, <1>2, <1>6, <2>1 DEF SubInv, InTurn
    <2>2. CASE p = o
      <3>1. Prepares(o)
        BY <1>6, <2>2 DEF Effect, Begins, Retries, Sending, Ending, Asking, Ended
      <3>2. op[o].at = "ready" /\ op'[o].seq = KnownSequence("facilitator") + 1
        BY <1>6, <2>2, <3>1 DEF Prepares
      <3> QED BY <1>2, <1>6, <2>2, <3>2, AllIsKnown
    <2> QED BY <2>1, <2>2
  <1>7. QueueAvoidsCollisions'
    <2> SUFFICES ASSUME NEW p \in collided' \cap Own
                 PROVE  \E q \in Own \ {p} : op'[q].at \in {"failed", "lost"}
      BY DEF QueueAvoidsCollisions
    <2>1. \E q \in Own \ {p} : op[q].at \in {"failed", "lost"}
      <3>1. CASE p \in collided
        BY <3>1 DEF SubInv, InTurn, QueueAvoidsCollisions
      <3>2. CASE p \notin collided
        <4>1. p = o
          BY <3>2, FlyingMoves
        <4>2. ~Retries(o)
          BY <4>1, KindsOfOps DEF Retries
        <4>3. op[o].at \in {"built", "proof"} /\ Collides(o)
          BY <3>2, <4>1, <4>2 DEF Effect, Begins, Prepares, Sending, Ending
        <4> QED BY <4>1, <4>3, CollidesWithUnresolved
      <3> QED BY <3>1, <3>2
    <2> QED BY <1>0, <1>1, <2>1
  <1> QED BY <1>0, <1>4, <1>5, <1>6, <1>7 DEF InTurn

-----------------------------------------------------------------------------
(* The network.                                                             *)

OpsStay == UNCHANGED <<op, queue, overlooked, collided>>

(* Where the operations stay as they are, so does what is said of them.     *)
LEMMA OpsStaySo ==
    ASSUME SubInv, OpsStay
    PROVE  /\ InLine' /\ QueueAvoidsCollisions' /\ (Clean' <=> Clean)
           /\ \A p, k : (Gone(p, k)' <=> Gone(p, k)) /\ (Past(p, k)' <=> Past(p, k))
  <1>1. InLine'
    <2>1. InLine
      BY DEF SubInv
    <2> QED BY <2>1 DEF OpsStay, InLine, Doing
  <1>2. QueueAvoidsCollisions' /\ (Clean' <=> Clean)
    BY DEF OpsStay, SubInv, InTurn, QueueAvoidsCollisions, Clean
  <1>3. \A p, k : (Gone(p, k)' <=> Gone(p, k)) /\ (Past(p, k)' <=> Past(p, k))
    BY DEF OpsStay, Gone, Past
  <1> QED BY <1>1, <1>2, <1>3

LEMMA FewerFly ==
    ASSUME SubInv, OpsStay, flying' \subseteq flying,
           UNCHANGED <<sequence, results, others>>,
           now' = now \/ now' = now + 1,
           visible' \in {visible, results}
    PROVE  SubInv'
  <1>0. now \in Nat /\ now' \in Nat /\ now <= now'
    BY DEF SubInv, SubTyped
  <1>1. SubTyped'
    BY <1>0 DEF SubInv, SubTyped, OpsStay
  <1>2. InLine' /\ QueueAvoidsCollisions'
    BY OpsStaySo
  <1>3. SentOnce'
    <2>1. \A t \in flying' : Gone(t.op, t.try)' /\ t.acct = Payer(t.op)
                             /\ (t.op \notin Invocations => t.try = 1)
      BY OpsStaySo DEF SubInv, SentOnce
    <2>2. \A r \in results' : IF r.op = "other" THEN r.acct = "relayer" /\ r.try <= others'
                              ELSE Gone(r.op, r.try)' /\ r.acct = Payer(r.op)
                                   /\ (r.op \notin Invocations => r.try = 1)
      BY OpsStaySo DEF SubInv, SentOnce
    <2> QED BY <2>1, <2>2 DEF SubInv, SentOnce
  <1>4. Counted'
    BY DEF SubInv, Counted
  <1>5. OverIsOver'
    <2>1. \A o \in Ops : op'[o].at \in {"signing", "built", "proof"} =>
                            op'[o].until <= now' + Life(o)
      <3> SUFFICES ASSUME NEW o \in Ops, op[o].at \in {"signing", "built", "proof"}
                   PROVE  op[o].until <= now' + Life(o)
        BY DEF OpsStay
      <3>1. op[o].until <= now + Life(o) /\ op[o].until \in Nat /\ Life(o) \in Nat
        BY OpIsTyped, KindsOfOps DEF SubInv, OverIsOver
      <3> QED BY <1>0, <3>1
    <2>2. \A t \in flying' : op'[t.op].at \in Asking /\ t.try = op'[t.op].try =>
                                t.until <= op'[t.op].since + Life(t.op)
      BY DEF OpsStay, SubInv, OverIsOver
    <2>3. \A t \in flying' : Past(t.op, t.try)' => now' > t.until
      <3> SUFFICES ASSUME NEW t \in flying, Past(t.op, t.try) PROVE now' > t.until
        BY OpsStaySo
      <3>1. now > t.until /\ t.until \in Nat
        BY DEF SubInv, SubTyped, OverIsOver
      <3> QED BY <1>0, <3>1
    <2>4. \A r \in results' : r.op \in Ops /\ r.ok /\ Past(r.op, r.try)' => r.op \in overlooked'
      BY OpsStaySo DEF OpsStay, SubInv, OverIsOver
    <2> QED BY <2>1, <2>2, <2>3, <2>4 DEF OverIsOver
  <1>6. AppliedRightly'
    BY DEF SubInv, OpsStay, AppliedRightly, AppliedBy
  <1>7. InTurn'
    <2>1. /\ \A t \in flying' : t.acct = "facilitator" => op'[t.op].at \in Unresolved
          /\ \A r \in results' \ visible' : r.acct = "facilitator" => op'[r.op].at \in Unresolved
      BY DEF SubInv, SubTyped, OpsStay, InTurn
    <2>2. \A o \in Own : op'[o].at = "built" /\ Clean' => op'[o].seq = sequence'["facilitator"] + 1
      BY OpsStaySo DEF SubInv, OpsStay, InTurn
    <2> QED BY <1>2, <2>1, <2>2 DEF InTurn
  <1> QED BY <1>1, <1>2, <1>3, <1>4, <1>5, <1>6, <1>7 DEF SubInv

(* One result more of an account is one number of its sequence.             *)
LEMMA OneMoreResult ==
    ASSUME SubInv, NEW x \in [op : Ops \cup {"other"}, acct : Accounts, try : Nat \ {0},
                              ok : BOOLEAN],
           x \notin results, results' = results \cup {x},
           sequence' = [sequence EXCEPT ![x.acct] = @ + 1]
    PROVE  Counted' /\ sequence' \in [Accounts -> Nat] /\ IsFiniteSet(results')
  <1>0. /\ sequence \in [Accounts -> Nat] /\ IsFiniteSet(results) /\ x.acct \in Accounts
    BY DEF SubInv, SubTyped
  <1>1. IsFiniteSet(results')
    BY <1>0, FS_AddElement
  <1>2. sequence' \in [Accounts -> Nat]
    BY <1>0
  <1>3. ASSUME NEW a \in Accounts
        PROVE  sequence'[a] = Cardinality({r \in results' : r.acct = a})
    <2> DEFINE S == {r \in results : r.acct = a}
    <2>1. IsFiniteSet(S) /\ x \notin S
      BY <1>0, FS_Subset
    <2>2. sequence[a] = Cardinality(S)
      BY DEF SubInv, Counted
    <2>3. CASE x.acct = a
      <3>1. {r \in results' : r.acct = a} = S \cup {x}
        BY <2>3
      <3>2. Cardinality(S \cup {x}) = Cardinality(S) + 1
        <4> HIDE DEF S
        <4> QED BY <2>1, FS_AddElement
      <3>3. sequence'[a] = sequence[a] + 1
        BY <1>0, <2>3
      <3> QED BY <2>2, <3>1, <3>2, <3>3
    <2>4. CASE x.acct # a
      <3>1. {r \in results' : r.acct = a} = S
        BY <2>4
      <3>2. sequence'[a] = sequence[a]
        BY <1>0, <2>4
      <3> QED BY <2>2, <3>1, <3>2
    <2> QED BY <2>3, <2>4
  <1> QED BY <1>1, <1>2, <1>3 DEF Counted

LEMMA OtherKeeps ==
    ASSUME SubInv, OtherIncluded
    PROVE  SubInv'
  <1> DEFINE x == [op |-> "other", acct |-> "relayer", try |-> others + 1, ok |-> TRUE]
  <1>0. /\ OpsStay /\ UNCHANGED <<now, flying, visible>> /\ others' = others + 1
        /\ results' = results \cup {x} /\ others \in Nat
        /\ sequence' = [sequence EXCEPT !["relayer"] = @ + 1]
    BY DEF OtherIncluded, OpsStay, SubInv, SubTyped
  <1>1. /\ x \in [op : Ops \cup {"other"}, acct : Accounts, try : Nat \ {0}, ok : BOOLEAN]
        /\ x.op = "other" /\ x.acct = "relayer" /\ x.try = others + 1 /\ x.try \in Nat \ {0}
    BY <1>0 DEF Accounts
  <1>2. \A r \in results : r.op = "other" => r.try <= others /\ r.try \in Nat
    BY DEF SubInv, SubTyped, SentOnce
  <1>3. x \notin results /\ \A r \in results : r.op = "other" => r.try # x.try
    BY <1>0, <1>1, <1>2
  <1> HIDE DEF x
  <1>4. Counted' /\ sequence' \in [Accounts -> Nat] /\ IsFiniteSet(results')
    BY <1>0, <1>1, <1>3, OneMoreResult
  <1>5. SubTyped'
    BY <1>0, <1>1, <1>4 DEF SubInv, SubTyped, OpsStay
  <1>6. InLine' /\ QueueAvoidsCollisions'
    BY <1>0, OpsStaySo
  <1>7. \A t \in flying : t.op \in Ops /\ t.op # "other"
    BY KindsOfOps DEF SubInv, SubTyped
  <1>8. SentOnce'
    <2>1. \A t \in flying' : Gone(t.op, t.try)' /\ t.acct = Payer(t.op)
                             /\ (t.op \notin Invocations => t.try = 1)
      BY <1>0, OpsStaySo DEF SubInv, SentOnce
    <2>2. ASSUME NEW r \in results'
          PROVE  IF r.op = "other" THEN r.acct = "relayer" /\ r.try <= others'
                 ELSE Gone(r.op, r.try)' /\ r.acct = Payer(r.op)
                      /\ (r.op \notin Invocations => r.try = 1)
      <3>1. CASE r = x
        BY <1>0, <1>1, <3>1
      <3>2. CASE r \in results
        <4>1. r.op = "other" => r.try <= others'
          BY <1>0, <1>2, <3>2
        <4> QED BY <1>0, <3>2, <4>1, OpsStaySo DEF SubInv, SentOnce
      <3> QED BY <1>0, <3>1, <3>2
    <2>3. \A r, s \in results' : r.op = s.op /\ r.try = s.try => r = s
      BY <1>0, <1>1, <1>3 DEF SubInv, SentOnce
    <2>4. \A r \in results', t \in flying' : r.op = t.op => r.try # t.try
      BY <1>0, <1>1, <1>7 DEF SubInv, SentOnce
    <2>5. \A s, t \in flying' : s.op = t.op /\ s.try = t.try => s = t
      BY <1>0 DEF SubInv, SentOnce
    <2> QED BY <2>1, <2>2, <2>3, <2>4, <2>5 DEF SentOnce
  <1>9. OverIsOver'
    <2>1. \A r \in results' : r.op \in Ops /\ r.ok /\ Past(r.op, r.try)' => r.op \in overlooked'
      BY <1>0, <1>1, OpsStaySo, KindsOfOps DEF OpsStay, SubInv, OverIsOver
    <2>2. \A t \in flying' : Past(t.op, t.try)' => now' > t.until
      BY <1>0, OpsStaySo DEF SubInv, OverIsOver
    <2> QED BY <1>0, <2>1, <2>2 DEF OpsStay, SubInv, OverIsOver
  <1>10. AppliedRightly'
    <2>1. \A p \in Ops : AppliedBy(p)' = AppliedBy(p)
      BY <1>0, <1>1, KindsOfOps DEF AppliedBy
    <2>2. \A r, s \in results' : r.op \in Ops /\ r.op = s.op /\ r.ok /\ s.ok => r = s
      BY <1>0, <1>1, KindsOfOps DEF SubInv, AppliedRightly
    <2> QED BY <1>0, <2>1, <2>2 DEF OpsStay, SubInv, AppliedRightly
  <1>11. InTurn'
    <2>1. \A r \in results' \ visible' : r.acct = "facilitator" => op'[r.op].at \in Unresolved
      BY <1>0, <1>1 DEF OpsStay, SubInv, InTurn
    <2>2. sequence'["facilitator"] = sequence["facilitator"]
      BY <1>0 DEF SubInv, SubTyped, Accounts
    <2>3. \A o \in Own : op'[o].at = "built" /\ Clean' => op'[o].seq = sequence'["facilitator"] + 1
      BY <1>0, <2>2, OpsStaySo DEF OpsStay, SubInv, InTurn
    <2> QED BY <1>0, <1>6, <2>1, <2>3 DEF OpsStay, SubInv, InTurn
  <1> QED BY <1>4, <1>5, <1>6, <1>8, <1>9, <1>10, <1>11 DEF SubInv

LEMMA IncludedKeeps ==
    ASSUME SubInv, NEW t \in flying, Included(t)
    PROVE  SubInv'
  <1>0. /\ OpsStay /\ UNCHANGED <<now, visible, others>>
        /\ flying' = flying \ {t} /\ now <= t.until
        /\ sequence' = [sequence EXCEPT ![t.acct] = @ + 1]
    BY DEF Included, OpsStay
  <1>1. PICK ok \in BOOLEAN :
           /\ ok => ~Spent(t)
           /\ results' = results \cup {[op |-> t.op, acct |-> t.acct, try |-> t.try, ok |-> ok]}
    BY DEF Included
  <1> DEFINE x == [op |-> t.op, acct |-> t.acct, try |-> t.try, ok |-> ok]
  <1>2. /\ t.op \in Ops /\ t.op # "other" /\ t.acct \in Accounts /\ t.try \in Nat \ {0}
        /\ t.until \in Nat /\ now \in Nat
    BY KindsOfOps DEF SubInv, SubTyped
  <1>3. /\ x \in [op : Ops \cup {"other"}, acct : Accounts, try : Nat \ {0}, ok : BOOLEAN]
        /\ x.op = t.op /\ x.acct = t.acct /\ x.try = t.try /\ x.ok = ok
    BY <1>2
  <1>4. \A r \in results : r.op = t.op => r.try # t.try
    BY DEF SubInv, SentOnce
  <1>5. x \notin results /\ results' = results \cup {x}
    BY <1>1, <1>3, <1>4
  <1>6. ok => \A r \in results : r.op = t.op => ~r.ok
    BY <1>1 DEF Spent
  <1> HIDE DEF x
  <1>7. Counted' /\ sequence' \in [Accounts -> Nat] /\ IsFiniteSet(results')
    BY <1>0, <1>3, <1>5, OneMoreResult
  <1>8. SubTyped'
    BY <1>0, <1>3, <1>5, <1>7 DEF SubInv, SubTyped, OpsStay
  <1>9. InLine' /\ QueueAvoidsCollisions'
    BY <1>0, OpsStaySo
  <1>10. SentOnce'
    <2>1. \A s \in flying' : Gone(s.op, s.try)' /\ s.acct = Payer(s.op)
                             /\ (s.op \notin Invocations => s.try = 1)
      BY <1>0, OpsStaySo DEF SubInv, SentOnce
    <2>2. ASSUME NEW r \in results'
          PROVE  IF r.op = "other" THEN r.acct = "relayer" /\ r.try <= others'
                 ELSE Gone(r.op, r.try)' /\ r.acct = Payer(r.op)
                      /\ (r.op \notin Invocations => r.try = 1)
      <3>1. CASE r = x
        <4>1. Gone(t.op, t.try) /\ t.acct = Payer(t.op) /\ (t.op \notin Invocations => t.try = 1)
          BY DEF SubInv, SentOnce
        <4> QED BY <1>0, <1>2, <1>3, <3>1, <4>1, OpsStaySo
      <3>2. CASE r \in results
        BY <1>0, <3>2, OpsStaySo DEF SubInv, SentOnce
      <3> QED BY <1>5, <3>1, <3>2
    <2>3. \A r, s \in results' : r.op = s.op /\ r.try = s.try => r = s
      BY <1>3, <1>4, <1>5 DEF SubInv, SentOnce
    <2>4. \A s \in flying' : s.op = t.op => s.try # t.try
      BY <1>0 DEF SubInv, SentOnce
    <2>5. \A r \in results', s \in flying' : r.op = s.op => r.try # s.try
      BY <1>0, <1>3, <1>5, <2>4 DEF SubInv, SentOnce
    <2>6. \A r, s \in flying' : r.op = s.op /\ r.try = s.try => r = s
      BY <1>0 DEF SubInv, SentOnce
    <2> QED BY <2>1, <2>2, <2>3, <2>5, <2>6 DEF SentOnce
  <1>11. OverIsOver'
    <2>1. ~Past(t.op, t.try)
      BY <1>0, <1>2 DEF SubInv, OverIsOver
    <2>2. \A r \in results' : r.op \in Ops /\ r.ok /\ Past(r.op, r.try)' => r.op \in overlooked'
      BY <1>0, <1>3, <1>5, <2>1, OpsStaySo DEF OpsStay, SubInv, OverIsOver
    <2>3. \A s \in flying' : Past(s.op, s.try)' => now' > s.until
      BY <1>0, OpsStaySo DEF SubInv, OverIsOver
    <2> QED BY <1>0, <2>2, <2>3 DEF OpsStay, SubInv, OverIsOver
  <1>12. AppliedRightly'
    <2>1. \A p \in Ops : AppliedBy(p) \subseteq AppliedBy(p)'
      BY <1>5 DEF AppliedBy
    <2>2. \A r, s \in results' : r.op \in Ops /\ r.op = s.op /\ r.ok /\ s.ok => r = s
      BY <1>3, <1>5, <1>6 DEF SubInv, AppliedRightly
    <2>3. \A p \in Ops : op'[p].at = "ok" /\ p \notin ClaimCalls => AppliedBy(p)' # {}
      BY <1>0, <2>1 DEF OpsStay, SubInv, AppliedRightly
    <2> QED BY <2>2, <2>3 DEF AppliedRightly
  <1>13. InTurn'
    <2>1. t.acct = "facilitator" => t.op \in Own /\ op[t.op].at \in Unresolved
      BY <1>2, KindsOfOps DEF SubInv, SentOnce, InTurn
    <2>2. \A r \in results' \ visible' : r.acct = "facilitator" => op'[r.op].at \in Unresolved
      BY <1>0, <1>3, <1>5, <2>1 DEF OpsStay, SubInv, InTurn
    <2>3. ASSUME NEW o \in Own, op[o].at = "built", Clean
          PROVE  op[o].seq = sequence'["facilitator"] + 1
      <3>1. t.acct # "facilitator"
        BY <2>3, AllIsKnown
      <3>2. sequence'["facilitator"] = sequence["facilitator"]
        BY <1>0, <3>1 DEF SubInv, SubTyped, Accounts
      <3> QED BY <2>3, <3>2 DEF SubInv, InTurn
    <2>4. \A o \in Own : op'[o].at = "built" /\ Clean' => op'[o].seq = sequence'["facilitator"] + 1
      BY <1>0, <2>3, OpsStaySo DEF OpsStay
    <2>5. \A s \in flying' : s.acct = "facilitator" => op'[s.op].at \in Unresolved
      BY <1>0 DEF OpsStay, SubInv, InTurn
    <2> QED BY <1>9, <2>2, <2>4, <2>5 DEF InTurn
  <1> QED BY <1>7, <1>8, <1>9, <1>10, <1>11, <1>12, <1>13 DEF SubInv

(* The invariant holds at the start,                                        *)
LEMMA SubStarts == SubInit => SubInv
  <1> SUFFICES ASSUME SubInit PROVE SubInv
    OBVIOUS
  <1>1. NoOp \in OpType /\ NoOp.at = "idle" /\ NoOp.try = 1
    BY DEF NoOp, OpType, Steps
  <1>2. \A o \in Ops : op[o] = NoOp
    BY DEF SubInit
  <1>3. SubTyped
    <2>1. op \in [Ops -> OpType]
      BY <1>1 DEF SubInit
    <2> QED BY <2>1, FS_EmptySet DEF SubInit, SubTyped
  <1>4. InLine
    BY <1>1, <1>2 DEF SubInit, InLine, Doing, Own, Ops
  <1>5. SentOnce /\ OverIsOver
    BY <1>1, <1>2 DEF SubInit, SentOnce, OverIsOver
  <1>6. Counted
    <2>1. \A a \in Accounts : {r \in results : r.acct = a} = {}
      BY DEF SubInit
    <2> QED BY <2>1, FS_EmptySet DEF SubInit, Counted
  <1>7. AppliedRightly /\ InTurn
    BY <1>1, <1>2
    DEF SubInit, AppliedRightly, InTurn, QueueAvoidsCollisions, Own, Ops
  <1> QED BY <1>3, <1>4, <1>5, <1>6, <1>7 DEF SubInv

(* every step keeps it,                                                     *)
LEMMA SubKept == SubInv /\ [SubNext]_subVars => SubInv'
  <1> SUFFICES ASSUME SubInv, [SubNext]_subVars PROVE SubInv'
    OBVIOUS
  <1>1. ASSUME NEW o \in Ops, OpStep(o)
        PROVE  SubInv'
    <2>1. Effect(o)
      BY <1>1, OpStepIs
    <2> QED BY <2>1, EffectTypes, EffectInLine, EffectSentOnce, EffectCounted, EffectOver,
               EffectApplied, EffectInTurn DEF SubInv
  <1>2. ASSUME NEW t \in flying, Included(t)
        PROVE  SubInv'
    BY <1>2, IncludedKeeps
  <1>3. CASE OtherIncluded
    BY <1>3, OtherKeeps
  <1>4. ASSUME NEW t \in flying, Dropped(t)
        PROVE  SubInv'
    BY <1>4, FewerFly DEF Dropped, OpsStay
  <1>5. CASE Ingested
    BY <1>5, FewerFly DEF Ingested, OpsStay
  <1>6. CASE Ticks
    BY <1>6, FewerFly DEF Ticks, OpsStay
  <1>7. CASE UNCHANGED subVars
    BY <1>7, FewerFly DEF subVars, OpsStay
  <1> QED BY <1>1, <1>2, <1>3, <1>4, <1>5, <1>6, <1>7 DEF SubNext

(* and it gives the property.                                               *)
LEMMA InvMeansReported == SubInv => ReportedIsTrue
  <1> SUFFICES ASSUME SubInv, NEW o \in Ops
               PROVE  /\ AppliedOnce(o)
                      /\ op[o].at = "ok" /\ o \notin ClaimCalls => AppliedBy(o) # {}
                      /\ op[o].at = "failed" /\ AppliedBy(o) # {} => o \in overlooked \cup Freezes
    BY DEF SubInv, InTurn, ReportedIsTrue
  <1>1. AppliedOnce(o)
    <2>1. \A r, s \in AppliedBy(o) : r = s
      BY DEF AppliedBy, SubInv, AppliedRightly
    <2>2. CASE AppliedBy(o) = {}
      BY <2>2, FS_EmptySet DEF AppliedOnce
    <2>3. CASE AppliedBy(o) # {}
      <3>1. PICK r \in AppliedBy(o) : TRUE
        BY <2>3
      <3>2. AppliedBy(o) = {r}
        BY <2>1, <3>1
      <3> QED BY <3>2, FS_Singleton DEF AppliedOnce
    <2> QED BY <2>2, <2>3
  <1>2. ASSUME op[o].at = "failed", AppliedBy(o) # {}, o \notin Freezes
        PROVE  o \in overlooked
    <2>1. PICK r \in results : r.op = o /\ r.ok
      BY <1>2 DEF AppliedBy
    <2>2. Past(o, r.try)
      BY <1>2 DEF Past
    <2> QED BY <2>1, <2>2 DEF SubInv, OverIsOver
  <1> QED BY <1>1, <1>2 DEF SubInv, AppliedRightly

(* A call that reports success was applied, one that throws was not and will
   not be, nothing is applied twice and the facilitator's transactions keep
   out of each other's way, for any calls, retries, losses and processes.   *)
THEOREM AlwaysReportedTruly == SubSpec => []ReportedIsTrue
  <1>1. SubSpec => []SubInv
    BY SubStarts, SubKept, PTL DEF SubSpec
  <1> QED BY <1>1, InvMeansReported, PTL

-----------------------------------------------------------------------------
(* The forms of the owner (AccountAdmin.tsx, ReinsView.tsx).                *)

PolicyRecord == [caps : Caps \cup {1}, pairs : {"none", "own", "default"}, expires : Nat,
                 rest : AllOwned \cup {"other"}]

AccountRecord == [of : AllOwned, frozen : BOOLEAN, delegated : BOOLEAN, writes : Seq(Nat),
                  policy : PolicyRecord]

Forms == [of : AllOwned, no : Nat \ {0}, busy : BOOLEAN, caps : Caps \cup {1}, dex : BOOLEAN,
          days : {0, 1}, edited : SUBSET {"caps", "pairs", "expires"}, mount : Nat]

OwnedTyped ==
    /\ owned \in [AllOwned -> {Nothing0} \cup AccountRecord]
    /\ ledger \in Nat /\ watching \in AllOwned /\ editor.no \in Nat
    /\ \A a \in AllOwned : owned[a] # Nothing0 =>
          /\ owned[a].of = a
          /\ \A i \in DOMAIN owned[a].writes : owned[a].writes[i] <= editor.no

(* What was read of an account is how it is, or it was written since.       *)
ReadRight(x) ==
    x # Nothing0 =>
        /\ x \in AccountRecord /\ owned[x.of] # Nothing0
        /\ Len(x.writes) <= Len(owned[x.of].writes)
        /\ Len(x.writes) = Len(owned[x.of].writes) => x = owned[x.of]

ReadsRight ==
    /\ ReadRight(shown.account)
    /\ \A p \in fetches : DOMAIN p = {"id", "at", "answer"} /\ ReadRight(p.answer)

(* After the form appeared nobody else wrote to the account.                *)
OnlyBy(e, x) == \A i \in (e.mount + 1)..Len(x.writes) : x.writes[i] = e.no

(* What its owner did not edit in the form is as in the account.            *)
Agrees(e, policy) ==
    /\ "caps" \notin e.edited => policy.caps = e.caps
    /\ "pairs" \notin e.edited => (e.dex <=> policy.pairs # "none")

FormRight(e) ==
    /\ e \in Forms
    /\ "expires" \notin e.edited => e.days = 0
    /\ LET x == owned[e.of] IN
       /\ x # Nothing0 /\ e.mount <= Len(x.writes)
       /\ OnlyBy(e, x) => Agrees(e, x.policy)

EditorRight ==
    IF editor.of = Nothing0 THEN shown.account = Nothing0
    ELSE /\ shown.account # Nothing0 /\ shown.account.of = editor.of
         /\ FormRight(editor)

(* The form as it was when a run of it began.                               *)
EarlierForm(f, e) ==
    /\ f.of = e.of /\ f.mount = e.mount /\ f.edited \subseteq e.edited
    /\ "caps" \notin e.edited => f.caps = e.caps
    /\ "pairs" \notin e.edited => f.dex = e.dex

(* What the run will do is what its owner edited.                           *)
Obeys(s) ==
    LET old == owned[s.on] IN
    IF s.method = "set_policy"
    THEN /\ \A f \in DOMAIN old.policy : f \notin s.form.edited => s.policy[f] = old.policy[f]
         /\ s.policy.expires >= old.policy.expires
    ELSE (s.method = "freeze") # old.frozen

Runs == [at : {"health", "send", "unconfirmed", "applied"},
         method : {"set_policy", "freeze", "unfreeze"}, on : AllOwned,
         by : Wallets \cup {NoWallet, OwnerOf}, policy : PolicyRecord, form : Forms, read : Nat]

RunRight(s) ==
    /\ s \in Runs
    /\ s.on = s.form.of /\ owned[s.on] # Nothing0 /\ s.read <= Len(owned[s.on].writes)
    /\ s.form.no <= editor.no
    /\ s.method = "set_policy" => /\ s.policy.caps = s.form.caps
                                  /\ s.form.dex <=> s.policy.pairs # "none"
    /\ s.at = "health" => s.method = "set_policy" /\ "expires" \in s.form.edited
    /\ s.form.no = editor.no /\ editor.of # Nothing0 => EarlierForm(s.form, editor)
    /\ UpToDate(s) => Obeys(s)

RunsRight == \A s \in sent : RunRight(s)

(* A key is made once; its account is there once its creation was applied.  *)
CreationRight(c) ==
    /\ DOMAIN c = {"at", "by", "form", "new"}
    /\ c.at \in {"connect", "health", "send", "unconfirmed", "applied"}
    /\ IF c.at \in {"connect", "health"} THEN c.new = Nothing0 ELSE c.new \in Fresh
    /\ c.at \in {"send", "unconfirmed"} => owned[c.new] = Nothing0
    /\ c.at = "unconfirmed" => c.new \in secrets \cup untold

CreationsRight ==
    /\ \A c \in creating : CreationRight(c)
    /\ \A c, d \in creating : c.new = d.new /\ c.new \in Fresh => c = d

OwnerInv ==
    OwnedTyped /\ ReadsRight /\ EditorRight /\ RunsRight /\ CreationsRight /\ SecretsAreShown

LEMMA RecordsAreAccounts == Nothing0 \notin AccountRecord
<1>1. AllOwned = Owned \cup Fresh /\ AllOwned \cup {"other"} = Owned \cup Fresh \cup {"other"}
      BY DEF AllOwned
<1>2. QED
      BY <1>1, NothingAssumption DEF AccountRecord, PolicyRecord

LEMMA OwnerBegins == OwnerInit => OwnerInv
<1> SUFFICES ASSUME OwnerInit PROVE OwnerInv
    OBVIOUS
<1>1. PICK caps \in [Owned -> Caps], pairs \in {"none", "own"}, expires \in {0, 2 * DAY} :
          owned = [a \in AllOwned |->
             IF a \in Fresh THEN Nothing0
             ELSE [of |-> a, frozen |-> FALSE, delegated |-> FALSE, writes |-> <<>>,
                   policy |-> [caps |-> caps[a], pairs |-> pairs, expires |-> expires, rest |-> a]]]
      BY DEF OwnerInit
<1>2. DAY \in Nat /\ expires \in Nat
      BY OwnerAssumption
<1>3. \A a \in AllOwned : a \in Fresh => owned[a] = Nothing0
      BY <1>1
<1>4. ASSUME NEW a \in AllOwned, a \notin Fresh
      PROVE  owned[a] \in AccountRecord /\ owned[a].of = a /\ DOMAIN owned[a].writes = {}
  <2>1. a \in Owned /\ caps[a] \in Caps
        BY <1>4 DEF AllOwned
  <2> DEFINE p == [caps |-> caps[a], pairs |-> pairs, expires |-> expires, rest |-> a]
             x == [of |-> a, frozen |-> FALSE, delegated |-> FALSE, writes |-> <<>>, policy |-> p]
  <2>2. p \in PolicyRecord
        BY <1>2, <2>1 DEF PolicyRecord
  <2>3. owned[a] = x
        BY <1>1, <1>4
  <2> HIDE DEF p
  <2>4. <<>> \in Seq(Nat) /\ DOMAIN <<>> = {}
        OBVIOUS
  <2>5. x \in AccountRecord /\ x.of = a /\ x.writes = <<>>
        BY <2>2, <2>4 DEF AccountRecord
  <2>6. QED
        BY <2>3, <2>4, <2>5
<1>5. /\ ledger = 0 /\ watching \in AllOwned /\ fetches = {} /\ shown.account = Nothing0
      /\ editor.of = Nothing0 /\ editor.no = 0 /\ sent = {} /\ creating = {}
      BY DEF OwnerInit, NoEditor
<1>6. owned \in [AllOwned -> {Nothing0} \cup AccountRecord]
  <2>1. owned = [a \in AllOwned |-> owned[a]]
        BY <1>1
  <2>2. QED
        BY <1>3, <1>4, <2>1
<1>7. OwnedTyped
      BY <1>3, <1>4, <1>5, <1>6 DEF OwnedTyped
<1>8. ReadsRight /\ EditorRight /\ RunsRight /\ CreationsRight
      BY <1>5 DEF ReadsRight, ReadRight, EditorRight, RunsRight, CreationsRight
<1>9. SecretsAreShown
  <2>1. Fresh \subseteq AllOwned
        BY DEF AllOwned
  <2>2. QED
        BY <1>3, <2>1 DEF SecretsAreShown
<1>10. QED
      BY <1>7, <1>8, <1>9 DEF OwnerInv

(* The form that is there now is a later one, or the one there was.         *)
Evolves ==
    /\ editor'.no \in Nat /\ editor'.no >= editor.no
    /\ editor'.no = editor.no /\ editor'.of # Nothing0 =>
          editor.of # Nothing0 /\ EarlierForm(editor, editor')

LEMMA RunsGoOn ==
    ASSUME OwnerInv, Evolves, owned' = owned, NEW s \in sent PROVE RunRight(s)'
<1>1. RunRight(s)
      BY DEF OwnerInv, RunsRight
<1>2. editor.no \in Nat /\ editor'.no \in Nat /\ editor'.no >= editor.no
      BY DEF OwnerInv, OwnedTyped, Evolves
<1>3. s \in Runs /\ s.form \in Forms /\ s.form.no \in Nat
      BY <1>1 DEF RunRight, Runs, Forms
<1>4. s.form.no <= editor'.no
      BY <1>1, <1>2, <1>3 DEF RunRight
<1>5. ASSUME s.form.no = editor'.no, editor'.of # Nothing0 PROVE EarlierForm(s.form, editor')
  <2>1. editor'.no = editor.no
        BY <1>1, <1>2, <1>3, <1>5 DEF RunRight
  <2>2. EarlierForm(s.form, editor) /\ EarlierForm(editor, editor')
        BY <1>1, <1>5, <2>1 DEF Evolves, RunRight
  <2>3. QED
        BY <2>2 DEF EarlierForm
<1>6. UpToDate(s)' => Obeys(s)'
      BY <1>1 DEF RunRight, UpToDate, Obeys
<1>7. s.on = s.form.of /\ owned'[s.on] # Nothing0 /\ s.read <= Len(owned'[s.on].writes)
      BY <1>1 DEF RunRight
<1>8. s.method = "set_policy" => /\ s.policy.caps = s.form.caps
                                 /\ s.form.dex <=> s.policy.pairs # "none"
      BY <1>1 DEF RunRight
<1>9. s.at = "health" => s.method = "set_policy" /\ "expires" \in s.form.edited
      BY <1>1 DEF RunRight
<1> DEFINE E(f) == EarlierForm(f, editor)
<1>10. E(s.form)' <=> EarlierForm(s.form, editor')
      BY DEF EarlierForm
<1>11. QED
      BY <1>3, <1>4, <1>5, <1>6, <1>7, <1>8, <1>9, <1>10 DEF RunRight

LEMMA AccountsStay ==
    ASSUME OwnerInv, Evolves, owned' = owned, ledger' \in Nat, watching' \in AllOwned
    PROVE  OwnedTyped'
<1>1. OwnedTyped
      BY DEF OwnerInv
<1>2. ASSUME NEW a \in AllOwned, owned[a] # Nothing0, NEW i \in DOMAIN owned[a].writes
      PROVE  owned[a].writes[i] <= editor'.no
  <2>1. owned[a] \in AccountRecord
        BY <1>1, <1>2 DEF OwnedTyped
  <2>2. owned[a].writes \in Seq(Nat)
        BY <2>1 DEF AccountRecord
  <2>3. owned[a].writes[i] \in Nat /\ owned[a].writes[i] <= editor.no
        BY <1>1, <1>2, <2>2 DEF OwnedTyped
  <2>4. editor.no \in Nat /\ editor'.no \in Nat /\ editor'.no >= editor.no
        BY <1>1 DEF Evolves, OwnedTyped
  <2>5. QED
        BY <2>3, <2>4
<1>3. QED
      BY <1>1, <1>2 DEF OwnedTyped, Evolves

LEMMA ReadRightStays ==
    ASSUME NEW x, ReadRight(x), owned' = owned PROVE ReadRight(x)'
BY DEF ReadRight

LEMMA FormRightStays ==
    ASSUME NEW e, FormRight(e), owned' = owned PROVE FormRight(e)'
BY DEF FormRight

(* What is rendered is right, and so is the form that goes with it.         *)
LEMMA FormAppears ==
    ASSUME OwnerInv, NEW x, x # Nothing0, ReadRight(x)
    PROVE  FormRight(NewEditor(x, editor.no + 1))
<1>1. x \in AccountRecord /\ owned[x.of] # Nothing0 /\ Len(x.writes) <= Len(owned[x.of].writes)
      /\ (Len(x.writes) = Len(owned[x.of].writes) => x = owned[x.of])
      BY DEF ReadRight
<1>2. x.of \in AllOwned /\ x.writes \in Seq(Nat) /\ x.policy \in PolicyRecord
      BY <1>1 DEF AccountRecord
<1>3. editor.no \in Nat
      BY DEF OwnerInv, OwnedTyped
<1>4. x.policy.caps \in Caps \cup {1} /\ Len(x.writes) \in Nat
      BY <1>2 DEF PolicyRecord
<1> DEFINE e == NewEditor(x, editor.no + 1)
<1>5. e.of = x.of /\ e.no = editor.no + 1 /\ e.busy = FALSE /\ e.caps = x.policy.caps
      /\ e.dex = (x.policy.pairs # "none") /\ e.days = 0 /\ e.edited = {} /\ e.mount = Len(x.writes)
      BY DEF NewEditor
<1>6. e \in Forms
      BY <1>2, <1>3, <1>4 DEF NewEditor, Forms
<1>7. ASSUME OnlyBy(e, owned[x.of]) PROVE Agrees(e, owned[x.of].policy)
  <2>1. owned[x.of] \in AccountRecord
        BY <1>1, <1>2 DEF OwnerInv, OwnedTyped
  <2>2. owned[x.of].writes \in Seq(Nat)
        BY <2>1 DEF AccountRecord
  <2> DEFINE w == owned[x.of].writes
  <2>3. CASE Len(x.writes) = Len(w)
    <3>1. x = owned[x.of]
          BY <1>1, <2>3
    <3>2. QED
          BY <1>5, <3>1 DEF Agrees
  <2>4. CASE Len(x.writes) # Len(w)
    <3>1. Len(w) \in Nat /\ Len(w) \in DOMAIN w /\ Len(w) \in (e.mount + 1)..Len(w)
          BY <1>1, <1>4, <1>5, <2>2, <2>4
    <3>2. w[Len(w)] = editor.no + 1
          BY <1>5, <1>7, <3>1 DEF OnlyBy
    <3>3. w[Len(w)] <= editor.no
          BY <1>1, <1>2, <3>1 DEF OwnerInv, OwnedTyped
    <3>4. QED
          BY <1>3, <3>2, <3>3
  <2>5. QED
        BY <2>3, <2>4
<1> HIDE DEF e
<1>8. FormRight(e)
      BY <1>1, <1>5, <1>6, <1>7 DEF FormRight
<1>9. QED
      BY <1>8 DEF e

LEMMA RenderedRight ==
    ASSUME OwnerInv, NEW x, ReadRight(x), NEW how, Renders(x, how), owned' = owned
    PROVE  Evolves /\ ReadRight(shown.account)' /\ EditorRight'
<1>1. shown'.account = x /\ editor.no \in Nat
      BY DEF Renders, OwnerInv, OwnedTyped
<1>2. ReadRight(shown.account)'
      BY <1>1 DEF ReadRight
<1>3. CASE x = Nothing0
  <2>1. editor' = [of |-> Nothing0, no |-> editor.no]
        BY <1>3 DEF Renders, NoEditor
  <2>2. QED
        BY <1>1, <1>2, <1>3, <2>1 DEF Evolves, EditorRight
<1>4. CASE x # Nothing0 /\ Keyed(editor, x.of)
  <2>1. editor' = editor /\ editor.of = x.of
        BY <1>4 DEF Renders, Keyed
  <2>2. x.of \in AllOwned
        BY <1>4 DEF ReadRight, AccountRecord
  <2>3. editor.of # Nothing0
        BY <2>1, <2>2, OwnerAssumption DEF AllOwned
  <2>4. EarlierForm(editor, editor)
        BY DEF EarlierForm
  <2>5. Evolves
        BY <1>1, <2>1, <2>3, <2>4 DEF Evolves
  <2>6. FormRight(editor)
        BY <2>3 DEF OwnerInv, EditorRight
  <2>7. FormRight(editor)'
        BY <2>1, <2>6 DEF FormRight
  <2>8. QED
        BY <1>1, <1>2, <1>4, <2>1, <2>3, <2>5, <2>7 DEF EditorRight
<1>5. CASE x # Nothing0 /\ ~Keyed(editor, x.of)
  <2>1. editor' = NewEditor(x, editor.no + 1)
        BY <1>5 DEF Renders
  <2>2. FormRight(NewEditor(x, editor.no + 1))
        BY <1>5, FormAppears
  <2>3. FormRight(editor)'
        BY <2>1, <2>2 DEF FormRight
  <2>4. editor'.of = x.of /\ editor'.no = editor.no + 1
        BY <2>1 DEF NewEditor
  <2>5. x.of # Nothing0
        BY <1>5, OwnerAssumption DEF ReadRight, AccountRecord, AllOwned
  <2>6. Evolves
        BY <1>1, <2>4 DEF Evolves
  <2>7. QED
        BY <1>1, <1>2, <1>5, <2>3, <2>4, <2>5, <2>6 DEF EditorRight
<1>6. QED
      BY <1>3, <1>4, <1>5

(* Who could be told of a secret was, and creations go on.                  *)
LEMMA CreationsGoOn ==
    ASSUME OwnerInv, creating' = creating, secrets' = secrets, untold' = untold,
           \A a \in AllOwned : owned'[a] = Nothing0 <=> owned[a] = Nothing0
    PROVE  CreationsRight' /\ SecretsAreShown'
<1>1. Fresh \subseteq AllOwned
      BY DEF AllOwned
<1>2. \A c \in creating : CreationRight(c) => CreationRight(c)'
      BY <1>1 DEF CreationRight
<1>3. CreationsRight'
      BY <1>2 DEF OwnerInv, CreationsRight
<1>4. SecretsAreShown'
      BY <1>1 DEF OwnerInv, SecretsAreShown
<1>5. QED
      BY <1>3, <1>4

(* A write makes what was read of the account old.                          *)
LEMMA WrittenIs ==
    ASSUME OwnerInv, NEW a \in AllOwned, owned[a] # Nothing0, NEW by \in Nat, by <= editor.no,
           NEW value \in AccountRecord, value.of = a, value.writes = owned[a].writes,
           Written(a, by, value)
    PROVE  /\ owned' \in [AllOwned -> {Nothing0} \cup AccountRecord]
           /\ owned'[a] # Nothing0 /\ owned'[a].of = a
           /\ owned'[a].policy = value.policy /\ owned'[a].frozen = value.frozen
           /\ owned'[a].writes = Append(owned[a].writes, by)
           /\ owned[a].writes \in Seq(Nat)
           /\ \A b \in AllOwned : b # a => owned'[b] = owned[b]
<1>1. owned \in [AllOwned -> {Nothing0} \cup AccountRecord]
      BY DEF OwnerInv, OwnedTyped
<1>2. owned[a] \in AccountRecord
      BY <1>1
<1>3. owned[a].writes \in Seq(Nat)
      BY <1>2 DEF AccountRecord
<1> DEFINE y == [value EXCEPT !.writes = Append(@, by)]
<1>4. owned' = [owned EXCEPT ![a] = y]
      BY DEF Written
<1>5. Append(owned[a].writes, by) \in Seq(Nat)
      BY <1>3
<1>6. y.writes = Append(owned[a].writes, by) /\ y.of = a /\ y.policy = value.policy
      /\ y.frozen = value.frozen /\ y \in AccountRecord
  <2> DEFINE w == Append(owned[a].writes, by)
  <2>1. w \in Seq(Nat) /\ y = [value EXCEPT !.writes = w]
        BY <1>5
  <2> HIDE DEF w, y
  <2>2. y.writes = w /\ y.of = a /\ y.policy = value.policy /\ y.frozen = value.frozen
        /\ y \in AccountRecord
        BY <2>1 DEF AccountRecord
  <2>3. QED
        BY <2>2 DEF w
<1> HIDE DEF y
<1>7. y # Nothing0
      BY <1>6, RecordsAreAccounts
<1>8. QED
      BY <1>1, <1>3, <1>4, <1>6, <1>7

LEMMA AccountWritten ==
    ASSUME OwnerInv, NEW a \in AllOwned, owned[a] # Nothing0, NEW by \in Nat, by <= editor.no,
           NEW value \in AccountRecord, value.of = a, value.writes = owned[a].writes,
           Written(a, by, value),
           by = editor.no /\ editor.of = a /\ OnlyBy(editor, owned[a])
              => Agrees(editor, value.policy),
           shown' = shown, fetches' = fetches, editor' = editor, ledger' = ledger,
           watching' = watching
    PROVE  OwnedTyped' /\ ReadsRight' /\ EditorRight' /\ \A s \in sent : RunRight(s)'
<1> DEFINE w == owned[a].writes
           v == owned'[a].writes
<1>1. /\ owned' \in [AllOwned -> {Nothing0} \cup AccountRecord]
      /\ owned'[a] # Nothing0 /\ owned'[a].of = a
      /\ owned'[a].policy = value.policy
      /\ v = Append(w, by) /\ w \in Seq(Nat)
      /\ \A b \in AllOwned : b # a => owned'[b] = owned[b]
      BY WrittenIs
<1>2. /\ Len(v) = Len(w) + 1 /\ Len(w) \in Nat /\ v[Len(w) + 1] = by
      /\ \A i \in 1..Len(w) : v[i] = w[i]
      /\ DOMAIN v = 1..(Len(w) + 1) /\ DOMAIN w = 1..Len(w)
  <2> HIDE DEF w, v
  <2>1. QED
        BY <1>1
<1> HIDE DEF w, v
<1>3. OwnedTyped'
  <2>1. ASSUME NEW b \in AllOwned, owned'[b] # Nothing0
        PROVE  /\ owned'[b].of = b
               /\ \A i \in DOMAIN owned'[b].writes : owned'[b].writes[i] <= editor.no
    <3>1. CASE b # a
          BY <1>1, <2>1, <3>1 DEF OwnerInv, OwnedTyped
    <3>2. CASE b = a
      <4>1. \A i \in DOMAIN w : w[i] <= editor.no
            BY DEF OwnerInv, OwnedTyped, w
      <4>2. \A i \in DOMAIN v : v[i] <= editor.no
            BY <1>2, <4>1
      <4>3. QED
            BY <1>1, <3>2, <4>2 DEF v
    <3>3. QED
          BY <3>1, <3>2
  <2>2. QED
        BY <1>1, <2>1 DEF OwnerInv, OwnedTyped
<1>4. ASSUME NEW x, ReadRight(x) PROVE ReadRight(x)'
  <2>1. CASE x = Nothing0
        BY <2>1 DEF ReadRight
  <2>2. CASE x # Nothing0 /\ x.of # a
    <3>1. x \in AccountRecord /\ x.of \in AllOwned
          BY <1>4, <2>2 DEF ReadRight, AccountRecord
    <3>2. owned'[x.of] = owned[x.of]
          BY <1>1, <2>2, <3>1
    <3>3. QED
          BY <1>4, <2>2, <3>2 DEF ReadRight
  <2>3. CASE x # Nothing0 /\ x.of = a
    <3>1. x \in AccountRecord /\ Len(x.writes) <= Len(w)
          BY <1>4, <2>3 DEF ReadRight, w
    <3>2. x.writes \in Seq(Nat)
          BY <3>1 DEF AccountRecord
    <3>3. Len(x.writes) \in Nat
          BY <3>2
    <3>4. Len(x.writes) < Len(v)
          BY <1>2, <3>1, <3>3
    <3>5. Len(x.writes) <= Len(v) /\ Len(x.writes) # Len(v)
          BY <1>2, <3>3, <3>4
    <3>6. QED
          BY <1>1, <2>3, <3>1, <3>5 DEF ReadRight, v
  <2>4. QED
        BY <2>1, <2>2, <2>3
<1>5. ReadsRight'
  <2>1. /\ ReadRight(shown.account)
        /\ \A p \in fetches : DOMAIN p = {"id", "at", "answer"} /\ ReadRight(p.answer)
        BY DEF OwnerInv, ReadsRight
  <2>2. ReadRight(shown.account)'
    <3> DEFINE x == shown.account
    <3>1. ReadRight(x) /\ x' = x
          BY <2>1
    <3> HIDE DEF x
    <3>2. QED
          BY <1>4, <3>1 DEF ReadRight, x
  <2>3. \A p \in fetches : ReadRight(p.answer)'
        BY <1>4, <2>1
  <2>4. QED
        BY <2>1, <2>2, <2>3 DEF ReadsRight
<1>6. EditorRight'
  <2>1. CASE editor.of = Nothing0
        BY <2>1 DEF OwnerInv, EditorRight
  <2>2. CASE editor.of # Nothing0
    <3>1. FormRight(editor) /\ shown.account # Nothing0 /\ shown.account.of = editor.of
          BY <2>2 DEF OwnerInv, EditorRight
    <3>2. editor \in Forms /\ editor.of \in AllOwned /\ editor.mount \in Nat
          BY <3>1 DEF FormRight, Forms
    <3>3. CASE editor.of # a
      <4>1. owned'[editor.of] = owned[editor.of]
            BY <1>1, <3>2, <3>3
      <4>2. QED
            BY <2>2, <3>1, <4>1 DEF EditorRight, FormRight
    <3>4. CASE editor.of = a
      <4>1. editor.mount <= Len(w)
            BY <3>1, <3>4 DEF FormRight, w
      <4>2. editor.mount <= Len(v)
            BY <1>2, <3>2, <4>1
      <4>3. ASSUME OnlyBy(editor, owned'[a]) PROVE Agrees(editor, owned'[a].policy)
        <5>1. Len(w) + 1 \in (editor.mount + 1)..Len(v)
              BY <1>2, <3>2, <4>1
        <5>2. by = editor.no
              BY <1>2, <4>3, <5>1 DEF OnlyBy, v
        <5>3. \A i \in (editor.mount + 1)..Len(w) : w[i] = editor.no
          <6>1. ASSUME NEW i \in (editor.mount + 1)..Len(w) PROVE w[i] = editor.no
            <7>1. i \in 1..Len(w) /\ i \in (editor.mount + 1)..Len(v)
                  BY <1>2, <3>2, <6>1
            <7>2. v[i] = editor.no
                  BY <4>3, <7>1 DEF OnlyBy, v
            <7>3. QED
                  BY <1>2, <7>1, <7>2
          <6>2. QED
                BY <6>1
        <5>4. OnlyBy(editor, owned[a])
              BY <5>3 DEF OnlyBy, w
        <5>5. QED
              BY <1>1, <3>4, <5>2, <5>4
      <4>4. FormRight(editor)'
        <5>1. /\ editor \in Forms /\ ("expires" \notin editor.edited => editor.days = 0)
              /\ owned'[editor.of] # Nothing0 /\ editor.mount <= Len(owned'[editor.of].writes)
              BY <1>1, <3>1, <3>4, <4>2 DEF FormRight, v
        <5>2. OnlyBy(editor, owned'[editor.of]) => Agrees(editor, owned'[editor.of].policy)
              BY <3>4, <4>3
        <5> DEFINE P == OnlyBy(editor, owned[editor.of]) => Agrees(editor, owned[editor.of].policy)
        <5>3. P'
              BY <5>2 DEF OnlyBy, Agrees
        <5> HIDE DEF P
        <5>4. QED
              BY <5>1, <5>3 DEF FormRight, P
      <4>5. QED
            BY <2>2, <3>1, <4>4 DEF EditorRight
    <3>5. QED
          BY <3>3, <3>4
  <2>3. QED
        BY <2>1, <2>2
<1>7. ASSUME NEW s \in sent PROVE RunRight(s)'
  <2>1. RunRight(s)
        BY DEF OwnerInv, RunsRight
  <2>2. s \in Runs /\ s.on \in AllOwned /\ s.read \in Nat
        BY <2>1 DEF RunRight, Runs
  <2>3. CASE s.on # a
    <3>1. owned'[s.on] = owned[s.on]
          BY <1>1, <2>2, <2>3
    <3>2. UpToDate(s)' => Obeys(s)'
          BY <2>1, <3>1 DEF RunRight, UpToDate, Obeys
    <3>3. QED
          BY <2>1, <3>1, <3>2 DEF RunRight, EarlierForm
  <2>4. CASE s.on = a
    <3>1. s.read <= Len(w)
          BY <2>1, <2>4 DEF RunRight, w
    <3>2. s.read <= Len(v) /\ s.read # Len(v)
          BY <1>2, <2>2, <3>1
    <3>3. ~UpToDate(s)'
          BY <2>4, <3>2 DEF UpToDate, v
    <3>4. QED
          BY <1>1, <2>1, <2>4, <3>2, <3>3 DEF RunRight, EarlierForm, v
  <2>5. QED
        BY <2>3, <2>4
<1>8. QED
      BY <1>3, <1>5, <1>6, <1>7

NewsOfKeys == <<creating, secrets, untold>>

LEMMA FormStays ==
    ASSUME OwnerInv, owned' = owned, shown' = shown, editor' = editor
    PROVE  Evolves /\ ReadRight(shown.account)' /\ EditorRight'
<1>1. ReadRight(shown.account)'
      BY DEF OwnerInv, ReadsRight, ReadRight
<1>2. Evolves
      BY DEF OwnerInv, OwnedTyped, Evolves, EarlierForm
<1>3. EditorRight'
      BY DEF OwnerInv, EditorRight, FormRight
<1>4. QED
      BY <1>1, <1>2, <1>3

LEMMA WatchesRight ==
    ASSUME OwnerInv, NEW a \in AllOwned, Watches(a) PROVE OwnerInv'
<1>1. Renders(Nothing0, "reading") /\ owned' = owned /\ sent' = sent /\ ledger' = ledger
      /\ watching' = a /\ fetches' = {} /\ UNCHANGED NewsOfKeys
      BY DEF Watches, ownedVars, NewsOfKeys
<1>2. ReadRight(Nothing0)
      BY DEF ReadRight
<1>3. Evolves /\ ReadRight(shown.account)' /\ EditorRight'
      BY <1>1, <1>2, RenderedRight
<1>4. OwnedTyped'
      BY <1>1, <1>3, AccountsStay DEF OwnerInv, OwnedTyped
<1>5. RunsRight'
      BY <1>1, <1>3, RunsGoOn DEF RunsRight
<1>6. ReadsRight'
      BY <1>1, <1>3 DEF ReadsRight
<1>7. CreationsRight' /\ SecretsAreShown'
      BY <1>1, CreationsGoOn DEF NewsOfKeys
<1>8. QED
      BY <1>3, <1>4, <1>5, <1>6, <1>7 DEF OwnerInv

LEMMA PollAskedRight ==
    ASSUME OwnerInv, PollAsked PROVE OwnerInv'
<1> DEFINE q == [id |-> count.polls, at |-> "sent", answer |-> Nothing0]
<1>1. owned' = owned /\ sent' = sent /\ ledger' = ledger /\ editor' = editor /\ shown' = shown
      /\ watching' = watching /\ fetches' = fetches \cup {q} /\ UNCHANGED NewsOfKeys
      BY DEF PollAsked, ownedVars, formVars, NewsOfKeys
<1>2. DOMAIN q = {"id", "at", "answer"} /\ q.answer = Nothing0
      OBVIOUS
<1> HIDE DEF q
<1>3. Evolves /\ ReadRight(shown.account)' /\ EditorRight'
      BY <1>1, FormStays
<1>4. OwnedTyped'
      BY <1>1, <1>3, AccountsStay DEF OwnerInv, OwnedTyped
<1>5. RunsRight'
      BY <1>1, <1>3, RunsGoOn DEF RunsRight
<1>6. ASSUME NEW p \in fetches' PROVE DOMAIN p = {"id", "at", "answer"} /\ ReadRight(p.answer)'
      BY <1>1, <1>2, <1>6 DEF OwnerInv, ReadsRight, ReadRight
<1>7. ReadsRight'
      BY <1>3, <1>6 DEF ReadsRight
<1>8. CreationsRight' /\ SecretsAreShown'
      BY <1>1, CreationsGoOn DEF NewsOfKeys
<1>9. QED
      BY <1>3, <1>4, <1>5, <1>7, <1>8 DEF OwnerInv

(* What is answered is how the account is.                                  *)
LEMMA AnsweredRight ==
    ASSUME OwnerInv, NEW p \in fetches, AccountAnswered(p) PROVE OwnerInv'
<1>1. PICK answer \in {owned[watching], Nothing0} :
          fetches' = (fetches \ {p}) \cup {[p EXCEPT !.at = "answered", !.answer = answer]}
      BY DEF AccountAnswered
<1> DEFINE q == [p EXCEPT !.at = "answered", !.answer = answer]
<1>2. owned' = owned /\ sent' = sent /\ ledger' = ledger /\ editor' = editor /\ shown' = shown
      /\ watching' = watching /\ fetches' = (fetches \ {p}) \cup {q} /\ UNCHANGED NewsOfKeys
      BY <1>1 DEF AccountAnswered, ownedVars, formVars, NewsOfKeys
<1>3. DOMAIN p = {"id", "at", "answer"}
      BY DEF OwnerInv, ReadsRight
<1>4. DOMAIN q = {"id", "at", "answer"} /\ q.answer = answer
      BY <1>3
<1> HIDE DEF q
<1>5. ReadRight(answer)
  <2>1. CASE answer = Nothing0
        BY <2>1 DEF ReadRight
  <2>2. CASE answer = owned[watching] /\ answer # Nothing0
    <3>1. watching \in AllOwned /\ owned[watching] \in AccountRecord
          /\ owned[watching].of = watching
          BY <2>2 DEF OwnerInv, OwnedTyped
    <3>2. answer.writes \in Seq(Nat)
          BY <2>2, <3>1 DEF AccountRecord
    <3>3. Len(answer.writes) \in Nat
          BY <3>2
    <3>4. QED
          BY <2>2, <3>1, <3>3 DEF ReadRight
  <2>3. QED
        BY <2>1, <2>2
<1>6. Evolves /\ ReadRight(shown.account)' /\ EditorRight'
      BY <1>2, FormStays
<1>7. OwnedTyped'
      BY <1>2, <1>6, AccountsStay DEF OwnerInv, OwnedTyped
<1>8. RunsRight'
      BY <1>2, <1>6, RunsGoOn DEF RunsRight
<1>9. ASSUME NEW r \in fetches' PROVE DOMAIN r = {"id", "at", "answer"} /\ ReadRight(r.answer)'
      BY <1>2, <1>4, <1>5, <1>9 DEF OwnerInv, ReadsRight, ReadRight
<1>10. ReadsRight'
      BY <1>6, <1>9 DEF ReadsRight
<1>11. CreationsRight' /\ SecretsAreShown'
      BY <1>2, CreationsGoOn DEF NewsOfKeys
<1>12. QED
      BY <1>6, <1>7, <1>8, <1>10, <1>11 DEF OwnerInv

LEMMA PollEndsRight ==
    ASSUME OwnerInv, NEW p \in fetches, PollEnds(p) PROVE OwnerInv'
<1>1. owned' = owned /\ sent' = sent /\ ledger' = ledger
      /\ watching' = watching /\ fetches' = fetches \ {p} /\ UNCHANGED NewsOfKeys
      BY DEF PollEnds, ownedVars, NewsOfKeys
<1>2. PICK x, how : Renders(x, how) /\ x \in {p.answer, shown.account}
      BY DEF PollEnds
<1>3. ReadRight(x)
      BY <1>2 DEF OwnerInv, ReadsRight
<1>4. Evolves /\ ReadRight(shown.account)' /\ EditorRight'
      BY <1>1, <1>2, <1>3, RenderedRight
<1>5. OwnedTyped'
      BY <1>1, <1>4, AccountsStay DEF OwnerInv, OwnedTyped
<1>6. RunsRight'
      BY <1>1, <1>4, RunsGoOn DEF RunsRight
<1>7. ASSUME NEW r \in fetches' PROVE DOMAIN r = {"id", "at", "answer"} /\ ReadRight(r.answer)'
      BY <1>1, <1>7 DEF OwnerInv, ReadsRight, ReadRight
<1>8. ReadsRight'
      BY <1>4, <1>7 DEF ReadsRight
<1>9. CreationsRight' /\ SecretsAreShown'
      BY <1>1, CreationsGoOn DEF NewsOfKeys
<1>10. QED
      BY <1>4, <1>5, <1>6, <1>8, <1>9 DEF OwnerInv

(* A form changes by the edits of its owner, and as its runs begin and end. *)
LEMMA FormChanges ==
    ASSUME OwnerInv, editor.of # Nothing0, owned' = owned, shown' = shown, fetches' = fetches,
           ledger' = ledger, watching' = watching, UNCHANGED NewsOfKeys,
           editor' \in Forms, editor'.no = editor.no, EarlierForm(editor, editor'),
           "expires" \notin editor'.edited => editor'.days = 0
    PROVE  /\ OwnedTyped' /\ ReadsRight' /\ EditorRight' /\ CreationsRight' /\ SecretsAreShown'
           /\ \A s \in sent : RunRight(s)'
<1>1. editor.no \in Nat
      BY DEF OwnerInv, OwnedTyped
<1>2. Evolves
      BY <1>1 DEF Evolves
<1>3. OwnedTyped'
      BY <1>2, AccountsStay DEF OwnerInv, OwnedTyped
<1>4. ReadsRight'
      BY DEF OwnerInv, ReadsRight, ReadRight
<1>5. FormRight(editor) /\ shown.account # Nothing0 /\ shown.account.of = editor.of
      BY DEF OwnerInv, EditorRight
<1>6. editor'.of = editor.of /\ editor'.mount = editor.mount
      BY DEF EarlierForm
<1> DEFINE x == owned[editor.of]
<1>7. x # Nothing0 /\ editor.mount <= Len(x.writes)
      BY <1>5 DEF FormRight
<1>8. ASSUME OnlyBy(editor', x) PROVE Agrees(editor', x.policy)
  <2>1. OnlyBy(editor, x)
        BY <1>6, <1>8 DEF OnlyBy
  <2>2. Agrees(editor, x.policy)
        BY <1>5, <2>1 DEF FormRight
  <2>3. QED
        BY <2>2 DEF Agrees, EarlierForm
<1> DEFINE P == OnlyBy(editor, owned[editor.of]) => Agrees(editor, owned[editor.of].policy)
<1>9. P'
      BY <1>6, <1>8 DEF OnlyBy, Agrees
<1> HIDE DEF P
<1>10. FormRight(editor)'
      BY <1>6, <1>7, <1>9 DEF FormRight, P
<1>11. EditorRight'
      BY <1>5, <1>6, <1>10 DEF EditorRight
<1>12. CreationsRight' /\ SecretsAreShown'
      BY CreationsGoOn DEF NewsOfKeys
<1>13. \A s \in sent : RunRight(s)'
      BY <1>2, RunsGoOn
<1>14. QED
      BY <1>3, <1>4, <1>11, <1>12, <1>13

LEMMA EditorIsForm ==
    ASSUME OwnerInv, editor.of # Nothing0
    PROVE  editor \in Forms /\ ("expires" \notin editor.edited => editor.days = 0)
BY DEF OwnerInv, EditorRight, FormRight

LEMMA EditsRight ==
    ASSUME OwnerInv, (\E c \in Caps : EditsCaps(c)) \/ EditsDex \/ EditsDays PROVE OwnerInv'
<1>1. editor.of # Nothing0 /\ owned' = owned /\ shown' = shown /\ fetches' = fetches
      /\ ledger' = ledger /\ watching' = watching /\ UNCHANGED NewsOfKeys /\ sent' = sent
      BY DEF EditsCaps, EditsDex, EditsDays, Editable, ownedVars, readVars, NewsOfKeys
<1>2. editor \in Forms /\ ("expires" \notin editor.edited => editor.days = 0)
      BY <1>1, EditorIsForm
<1>3. /\ editor' \in Forms /\ editor'.no = editor.no /\ EarlierForm(editor, editor')
      /\ "expires" \notin editor'.edited => editor'.days = 0
  <2>1. ASSUME NEW c \in Caps, EditsCaps(c)
        PROVE  /\ editor' \in Forms /\ editor'.no = editor.no /\ EarlierForm(editor, editor')
               /\ "expires" \notin editor'.edited => editor'.days = 0
    <3>1. editor' = [editor EXCEPT !.caps = c, !.edited = @ \cup {"caps"}]
          BY <2>1 DEF EditsCaps
    <3>2. QED
          BY <1>2, <3>1 DEF Forms, EarlierForm
  <2>2. ASSUME EditsDex
        PROVE  /\ editor' \in Forms /\ editor'.no = editor.no /\ EarlierForm(editor, editor')
               /\ "expires" \notin editor'.edited => editor'.days = 0
    <3> DEFINE dex == ~editor.dex
    <3>1. editor' = [editor EXCEPT !.dex = dex, !.edited = @ \cup {"pairs"}] /\ dex \in BOOLEAN
          BY <2>2 DEF EditsDex
    <3> HIDE DEF dex
    <3>2. /\ editor'.of = editor.of /\ editor'.no = editor.no /\ editor'.mount = editor.mount
          /\ editor'.caps = editor.caps /\ editor'.edited = editor.edited \cup {"pairs"}
          /\ editor'.days = editor.days
          BY <1>2, <3>1 DEF Forms
    <3>3. editor.edited \cup {"pairs"} \in SUBSET {"caps", "pairs", "expires"}
          BY <1>2 DEF Forms
    <3>4. editor' \in Forms
          BY <1>2, <3>1, <3>3 DEF Forms
    <3>5. EarlierForm(editor, editor')
          BY <3>2 DEF EarlierForm
    <3>6. QED
          BY <1>2, <3>2, <3>4, <3>5
  <2>3. ASSUME EditsDays
        PROVE  /\ editor' \in Forms /\ editor'.no = editor.no /\ EarlierForm(editor, editor')
               /\ "expires" \notin editor'.edited => editor'.days = 0
    <3>1. editor' = [editor EXCEPT !.days = 1 - @, !.edited = @ \cup {"expires"}]
          BY <2>3 DEF EditsDays
    <3>2. 1 - editor.days \in {0, 1}
          BY <1>2 DEF Forms
    <3>3. editor.edited \cup {"expires"} \in SUBSET {"caps", "pairs", "expires"}
          BY <1>2 DEF Forms
    <3>4. editor' \in Forms
          BY <1>2, <3>1, <3>2, <3>3 DEF Forms
    <3>5. /\ editor'.of = editor.of /\ editor'.no = editor.no /\ editor'.mount = editor.mount
          /\ editor'.caps = editor.caps /\ editor'.edited = editor.edited \cup {"expires"}
          /\ editor'.dex = editor.dex
          BY <1>2, <3>1 DEF Forms
    <3>6. EarlierForm(editor, editor')
          BY <3>5 DEF EarlierForm
    <3>7. QED
          BY <3>4, <3>5, <3>6
  <2>4. QED
        BY <2>1, <2>2, <2>3
<1>4. QED
      BY <1>1, <1>3, FormChanges DEF OwnerInv, RunsRight

(* What is sent is what was there at the click.                             *)
LEMMA RunBegins ==
    ASSUME OwnerInv, NEW method \in {"set_policy", "freeze", "unfreeze"},
           NEW at \in {"health", "send"}, NEW policy, policy \in PolicyRecord,
           RunStarts(method, at, policy),
           at = "health" => method = "set_policy" /\ "expires" \in editor.edited,
           method = "set_policy" =>
              /\ policy.caps = editor.caps
              /\ editor.dex <=> policy.pairs # "none"
              /\ policy.rest = shown.account.policy.rest
              /\ policy.expires = shown.account.policy.expires
              /\ editor.dex /\ shown.account.policy.pairs # "none"
                    => policy.pairs = shown.account.policy.pairs,
           method # "set_policy" => (method = "freeze") # shown.account.frozen
    PROVE  OwnerInv'
<1>0. PICK s : s = [at |-> at, method |-> method, on |-> shown.account.of, by |-> wallet.address,
                    policy |-> policy, form |-> editor, read |-> Len(shown.account.writes)]
      OBVIOUS
<1>1. editor.of # Nothing0 /\ owned' = owned /\ shown' = shown /\ fetches' = fetches
      /\ ledger' = ledger /\ watching' = watching /\ UNCHANGED NewsOfKeys /\ sent' = sent \cup {s}
      /\ editor' = [editor EXCEPT !.busy = TRUE] /\ wallet.address = OwnerOf
      BY <1>0 DEF RunStarts, Editable, ownedVars, readVars, NewsOfKeys
<1>2. editor \in Forms /\ ("expires" \notin editor.edited => editor.days = 0)
      BY <1>1, EditorIsForm
<1>3. /\ editor' \in Forms /\ editor'.no = editor.no /\ EarlierForm(editor, editor')
      /\ "expires" \notin editor'.edited => editor'.days = 0
      BY <1>1, <1>2 DEF Forms, EarlierForm
<1>4. /\ OwnedTyped' /\ ReadsRight' /\ EditorRight' /\ CreationsRight' /\ SecretsAreShown'
      /\ \A r \in sent : RunRight(r)'
      BY <1>1, <1>3, FormChanges
<1>5. /\ FormRight(editor) /\ shown.account # Nothing0 /\ shown.account.of = editor.of
      /\ ReadRight(shown.account)
      BY <1>1 DEF OwnerInv, EditorRight, ReadsRight
<1> DEFINE x == shown.account
           y == owned[editor.of]
<1>6. x \in AccountRecord /\ y # Nothing0 /\ Len(x.writes) <= Len(y.writes)
      /\ (Len(x.writes) = Len(y.writes) => x = y)
      BY <1>5 DEF ReadRight
<1>7. x.writes \in Seq(Nat) /\ x.policy \in PolicyRecord
      BY <1>6 DEF AccountRecord
<1>8. /\ s.at = at /\ s.method = method /\ s.on = editor.of /\ s.by = OwnerOf /\ s.policy = policy
      /\ s.form = editor /\ s.read = Len(x.writes)
      BY <1>0, <1>1, <1>5
<1>9. s \in Runs
  <2>1. Len(x.writes) \in Nat /\ editor.of \in AllOwned
        BY <1>2, <1>7 DEF Forms
  <2>2. QED
        BY <1>0, <1>1, <1>2, <1>5, <2>1 DEF Runs
<1>10. ASSUME UpToDate(s) PROVE Obeys(s)
  <2>1. Len(x.writes) = Len(y.writes) /\ OnlyBy(editor, y)
        BY <1>8, <1>10 DEF UpToDate, OnlyBy
  <2>2. x = y /\ Agrees(editor, y.policy)
        BY <1>5, <1>6, <2>1 DEF FormRight
  <2>3. CASE method = "set_policy"
    <3>1. DOMAIN y.policy = {"caps", "pairs", "expires", "rest"} /\ y.policy.expires \in Nat
          BY <1>7, <2>2 DEF PolicyRecord
    <3>2. "caps" \notin editor.edited => policy.caps = y.policy.caps
          BY <2>2, <2>3 DEF Agrees
    <3>3. "pairs" \notin editor.edited => policy.pairs = y.policy.pairs
          BY <2>2, <2>3 DEF Agrees
    <3>4. policy.expires = y.policy.expires /\ policy.rest = y.policy.rest
          BY <2>2, <2>3
    <3>5. policy.expires >= y.policy.expires
          BY <3>1, <3>4
    <3>6. QED
          BY <1>8, <2>3, <3>1, <3>2, <3>3, <3>4, <3>5 DEF Obeys
  <2>4. CASE method # "set_policy"
        BY <1>8, <2>2, <2>4 DEF Obeys
  <2>5. QED
        BY <2>3, <2>4
<1>11. editor.no \in Nat /\ EarlierForm(editor, editor)
      BY DEF OwnerInv, OwnedTyped, EarlierForm
<1>12. RunRight(s)'
  <2>1. s.on = s.form.of /\ owned'[s.on] # Nothing0 /\ s.read <= Len(owned'[s.on].writes)
        BY <1>1, <1>6, <1>8
  <2>2. s.form.no <= editor'.no
        BY <1>3, <1>8, <1>11
  <2>3. s.method = "set_policy" => /\ s.policy.caps = s.form.caps
                                   /\ s.form.dex <=> s.policy.pairs # "none"
        BY <1>8
  <2>4. s.at = "health" => s.method = "set_policy" /\ "expires" \in s.form.edited
        BY <1>8
  <2>5. EarlierForm(s.form, editor)'
        BY <1>3, <1>8 DEF EarlierForm
  <2>6. UpToDate(s)' => Obeys(s)'
        BY <1>1, <1>10 DEF UpToDate, Obeys
  <2>7. QED
        BY <1>9, <2>1, <2>2, <2>3, <2>4, <2>5, <2>6 DEF RunRight
<1>13. RunsRight'
      BY <1>1, <1>4, <1>12 DEF RunsRight
<1>14. QED
      BY <1>4, <1>13 DEF OwnerInv

LEMMA PressesRight ==
    ASSUME OwnerInv, SavePressed \/ FreezePressed PROVE OwnerInv'
<1>1. editor.of # Nothing0
      BY DEF SavePressed, FreezePressed, RunStarts, Editable
<1>2. editor \in Forms /\ ("expires" \notin editor.edited => editor.days = 0)
      BY <1>1, EditorIsForm
<1>3. shown.account \in AccountRecord
      BY <1>1 DEF OwnerInv, EditorRight, ReadsRight, ReadRight
<1>4. shown.account.policy \in PolicyRecord /\ shown.account.frozen \in BOOLEAN
      BY <1>3 DEF AccountRecord
<1>5. CASE SavePressed
  <2> DEFINE p == shown.account.policy
             pairs == IF ~editor.dex THEN "none"
                      ELSE IF p.pairs = "none" THEN "default" ELSE p.pairs
             at == IF editor.days > 0 THEN "health" ELSE "send"
  <2>1. NextPolicy = [p EXCEPT !.caps = editor.caps, !.pairs = pairs]
        BY DEF NextPolicy
  <2>2. p.pairs \in {"none", "own", "default"}
        BY <1>4 DEF PolicyRecord
  <2>3. /\ pairs \in {"none", "own", "default"} /\ (editor.dex <=> pairs # "none")
        /\ editor.dex /\ p.pairs # "none" => pairs = p.pairs
    <3>0. editor.dex \in BOOLEAN
          BY <1>2 DEF Forms
    <3>1. CASE ~editor.dex
          BY <3>0, <3>1
    <3>2. CASE editor.dex /\ p.pairs = "none"
          BY <3>2
    <3>3. CASE editor.dex /\ p.pairs # "none"
          BY <2>2, <3>3
    <3>4. QED
          BY <3>1, <3>2, <3>3
  <2>4. RunStarts("set_policy", at, NextPolicy)
        BY <1>5 DEF SavePressed
  <2>5. at \in {"health", "send"} /\ (at = "health" => "expires" \in editor.edited)
        BY <1>2
  <2> HIDE DEF at, pairs
  <2>6. editor.caps \in Caps \cup {1}
        BY <1>2 DEF Forms
  <2>7. /\ NextPolicy \in PolicyRecord /\ NextPolicy.caps = editor.caps /\ NextPolicy.pairs = pairs
        /\ NextPolicy.rest = p.rest /\ NextPolicy.expires = p.expires
        BY <1>4, <2>1, <2>3, <2>6 DEF PolicyRecord
  <2>8. PICK policy : policy = NextPolicy
        OBVIOUS
  <2>9. PICK when : when = at
        OBVIOUS
  <2>10. RunStarts("set_policy", when, policy)
        BY <2>4, <2>8, <2>9
  <2>11. QED
        BY <2>3, <2>5, <2>7, <2>8, <2>9, <2>10, RunBegins
<1>6. CASE FreezePressed
  <2>1. PICK method : method = (IF shown.account.frozen THEN "unfreeze" ELSE "freeze")
        OBVIOUS
  <2>2. PICK policy : policy = shown.account.policy
        OBVIOUS
  <2>3. RunStarts(method, "send", policy)
        BY <1>6, <2>1, <2>2 DEF FreezePressed
  <2>4. method \in {"set_policy", "freeze", "unfreeze"} /\ method # "set_policy"
        /\ (method = "freeze") # shown.account.frozen
        BY <1>4, <2>1
  <2>5. QED
        BY <1>4, <2>2, <2>3, <2>4, RunBegins
<1>7. QED
      BY <1>5, <1>6

LEMMA HealthRight ==
    ASSUME OwnerInv, NEW s \in sent, HealthComes(s) PROVE OwnerInv'
<1> DEFINE old == s.policy.expires
           expires == (IF ledger > old THEN ledger ELSE old) + s.form.days * DAY
<1>1. PICK r : r = [s EXCEPT !.at = "send", !.policy.expires = expires]
      OBVIOUS
<1>2. s.at = "health" /\ owned' = owned /\ shown' = shown /\ fetches' = fetches
      /\ ledger' = ledger /\ watching' = watching /\ UNCHANGED NewsOfKeys
      /\ sent' = (sent \ {s}) \cup {r} /\ editor' = editor
      BY <1>1 DEF HealthComes, ownedVars, readVars, NewsOfKeys
<1>3. Evolves /\ ReadRight(shown.account)' /\ EditorRight'
      BY <1>2, FormStays
<1>4. OwnedTyped' /\ CreationsRight' /\ SecretsAreShown'
      BY <1>2, <1>3, AccountsStay, CreationsGoOn DEF OwnerInv, OwnedTyped, NewsOfKeys
<1>5. ReadsRight'
      BY <1>2 DEF OwnerInv, ReadsRight, ReadRight
<1>6. RunRight(s) /\ RunRight(s)' /\ \A q \in sent : RunRight(q)'
      BY <1>2, <1>3, RunsGoOn DEF OwnerInv, RunsRight
<1>7. s \in Runs /\ s.policy \in PolicyRecord /\ old \in Nat /\ s.form.days \in {0, 1}
      /\ s.on \in AllOwned
      BY <1>6 DEF RunRight, Runs, PolicyRecord, Forms
<1>8. DAY \in Nat /\ ledger \in Nat
      BY OwnerAssumption DEF OwnerInv, OwnedTyped
<1>9. expires \in Nat /\ expires >= old
  <2>1. s.form.days * DAY \in Nat
        BY <1>7, <1>8
  <2> DEFINE more == s.form.days * DAY
  <2> HIDE DEF more
  <2>2. (IF ledger > old THEN ledger ELSE old) + more >= old
        /\ (IF ledger > old THEN ledger ELSE old) + more \in Nat
        BY <1>7, <1>8, <2>1 DEF more
  <2>3. QED
        BY <2>2 DEF more
<1>10. /\ r \in Runs /\ r.at = "send" /\ r.on = s.on /\ r.form = s.form /\ r.read = s.read
       /\ r.method = s.method /\ r.policy = [s.policy EXCEPT !.expires = expires]
  <2> DEFINE p == [s.policy EXCEPT !.expires = expires]
  <2>1. r = [s EXCEPT !.at = "send", !.policy = p]
        BY <1>1
  <2>2. p \in PolicyRecord
        BY <1>7, <1>9 DEF PolicyRecord
  <2> HIDE DEF p
  <2>3. QED
        BY <1>7, <2>1, <2>2 DEF Runs, p
<1> HIDE DEF expires
<1>11. r.policy.caps = s.policy.caps /\ r.policy.pairs = s.policy.pairs
       /\ r.policy.rest = s.policy.rest /\ r.policy.expires = expires
       BY <1>7, <1>10 DEF PolicyRecord
<1>12. s.method = "set_policy" /\ "expires" \in s.form.edited
       BY <1>2, <1>6 DEF RunRight
<1>13. ASSUME UpToDate(r) PROVE Obeys(r)
  <2>1. Obeys(s)
        BY <1>6, <1>10, <1>13 DEF RunRight, UpToDate
  <2>2. owned[s.on] \in AccountRecord
        BY <1>6, <1>7 DEF OwnerInv, OwnedTyped, RunRight
  <2> DEFINE q == owned[s.on].policy
  <2>3. q \in PolicyRecord
        BY <2>2 DEF AccountRecord
  <2>4. DOMAIN q = {"caps", "pairs", "expires", "rest"} /\ q.expires \in Nat
        BY <2>3 DEF PolicyRecord
  <2>5. old >= q.expires /\ \A f \in DOMAIN q : f \notin s.form.edited => s.policy[f] = q[f]
        BY <1>12, <2>1 DEF Obeys
  <2>6. expires >= q.expires
        BY <1>7, <1>9, <2>4, <2>5
  <2>7. \A f \in DOMAIN q : f \notin s.form.edited => r.policy[f] = q[f]
        BY <1>11, <1>12, <2>4, <2>5
  <2>8. QED
        BY <1>10, <1>11, <1>12, <2>6, <2>7 DEF Obeys
<1>14. RunRight(r)'
  <2>1. r.on = r.form.of /\ owned'[r.on] # Nothing0 /\ r.read <= Len(owned'[r.on].writes)
        BY <1>6, <1>10 DEF RunRight
  <2>2. r.form.no <= editor'.no /\ r.at # "health"
        BY <1>6, <1>10 DEF RunRight
  <2>3. r.method = "set_policy" => /\ r.policy.caps = r.form.caps
                                   /\ r.form.dex <=> r.policy.pairs # "none"
        BY <1>6, <1>10, <1>11 DEF RunRight
  <2>4. r.form.no = editor'.no /\ editor'.of # Nothing0 => EarlierForm(r.form, editor')
        BY <1>6, <1>10 DEF RunRight, EarlierForm
  <2>5. EarlierForm(r.form, editor)' <=> EarlierForm(r.form, editor')
        BY DEF EarlierForm
  <2>6. UpToDate(r)' => Obeys(r)'
        BY <1>2, <1>13 DEF UpToDate, Obeys
  <2>7. QED
        BY <1>10, <2>1, <2>2, <2>3, <2>4, <2>5, <2>6 DEF RunRight
<1>15. RunsRight'
       BY <1>2, <1>6, <1>14 DEF RunsRight
<1>16. QED
       BY <1>3, <1>4, <1>5, <1>15 DEF OwnerInv

(* A run that is elsewhere in its course has the right it had.              *)
LEMMA RunMoved ==
    ASSUME NEW s, NEW at \in {"unconfirmed", "applied"}, NEW r, r = [s EXCEPT !.at = at],
           RunRight(s)'
    PROVE  RunRight(r)'
<1>1. s \in Runs
      BY DEF RunRight
<1>2. /\ r \in Runs /\ r.at = at /\ r.on = s.on /\ r.form = s.form /\ r.read = s.read
      /\ r.method = s.method /\ r.policy = s.policy
      BY <1>1 DEF Runs
<1>3. UpToDate(r)' => Obeys(r)'
      BY <1>2 DEF RunRight, UpToDate, Obeys
<1>4. QED
      BY <1>2, <1>3 DEF RunRight, EarlierForm

LEMMA RunEndsRight ==
    ASSUME OwnerInv, NEW s \in sent, RunEnds(s) PROVE OwnerInv'
<1>1. PICK r : r = [s EXCEPT !.at = "unconfirmed"]
      OBVIOUS
<1>2. owned' = owned /\ shown' = shown /\ fetches' = fetches
      /\ ledger' = ledger /\ watching' = watching /\ UNCHANGED NewsOfKeys
      /\ sent' \subseteq sent \cup {r}
      BY <1>1 DEF RunEnds, NowAt, ownedVars, readVars, NewsOfKeys
<1>3. RunRight(s)
      BY DEF OwnerInv, RunsRight
<1>4. \/ editor.of # Nothing0 /\ editor' = [editor EXCEPT !.busy = FALSE]
      \/ editor' = editor
      BY DEF RunEnds
<1>5. /\ OwnedTyped' /\ ReadsRight' /\ EditorRight' /\ CreationsRight' /\ SecretsAreShown'
      /\ \A q \in sent : RunRight(q)'
  <2>1. CASE editor.of # Nothing0 /\ editor' = [editor EXCEPT !.busy = FALSE]
    <3>1. editor \in Forms /\ ("expires" \notin editor.edited => editor.days = 0)
          BY <2>1, EditorIsForm
    <3>2. /\ editor' \in Forms /\ editor'.no = editor.no /\ EarlierForm(editor, editor')
          /\ "expires" \notin editor'.edited => editor'.days = 0
          BY <2>1, <3>1 DEF Forms, EarlierForm
    <3>3. QED
          BY <1>2, <2>1, <3>2, FormChanges
  <2>2. CASE editor' = editor
    <3>1. Evolves /\ ReadRight(shown.account)' /\ EditorRight'
          BY <1>2, <2>2, FormStays
    <3>2. OwnedTyped' /\ CreationsRight' /\ SecretsAreShown'
          BY <1>2, <3>1, AccountsStay, CreationsGoOn DEF OwnerInv, OwnedTyped, NewsOfKeys
    <3>3. ReadsRight'
          BY <1>2 DEF OwnerInv, ReadsRight, ReadRight
    <3>4. QED
          BY <1>2, <3>1, <3>2, <3>3, RunsGoOn
  <2>3. QED
        BY <1>4, <2>1, <2>2
<1>6. RunRight(r)'
      BY <1>1, <1>5, RunMoved
<1>7. RunsRight'
      BY <1>2, <1>5, <1>6 DEF RunsRight
<1>8. QED
      BY <1>5, <1>7 DEF OwnerInv

LEMMA RunAppliedRight ==
    ASSUME OwnerInv, NEW s \in sent, RunApplied(s) PROVE OwnerInv'
<1> DEFINE a == s.on
           x == owned[a]
<1>1. PICK value : value = (IF s.method = "set_policy" THEN [x EXCEPT !.policy = s.policy]
                            ELSE [x EXCEPT !.frozen = (s.method = "freeze")])
      OBVIOUS
<1>2. PICK r : r = [s EXCEPT !.at = "applied"]
      OBVIOUS
<1>3. Written(a, s.form.no, value) /\ shown' = shown /\ fetches' = fetches /\ editor' = editor
      /\ ledger' = ledger /\ watching' = watching /\ UNCHANGED NewsOfKeys
      /\ sent' \subseteq sent \cup {r}
      BY <1>1, <1>2 DEF RunApplied, readVars, NewsOfKeys
<1>4. RunRight(s)
      BY DEF OwnerInv, RunsRight
<1>5. s \in Runs /\ a \in AllOwned /\ s.form.no \in Nat /\ s.form.no <= editor.no
      /\ s.policy \in PolicyRecord /\ x # Nothing0
      BY <1>4 DEF RunRight, Runs, Forms
<1>6. x \in AccountRecord /\ x.of = a
      BY <1>5 DEF OwnerInv, OwnedTyped
<1>7. value \in AccountRecord /\ value.of = a /\ value.writes = x.writes
      /\ value.policy = IF s.method = "set_policy" THEN s.policy ELSE x.policy
  <2> DEFINE b == s.method = "freeze"
  <2>1. b \in BOOLEAN
        OBVIOUS
  <2>2. value = (IF s.method = "set_policy" THEN [x EXCEPT !.policy = s.policy]
                 ELSE [x EXCEPT !.frozen = b])
        BY <1>1
  <2> HIDE DEF b, a, x
  <2>3. CASE s.method = "set_policy"
        BY <1>5, <1>6, <2>2, <2>3 DEF AccountRecord
  <2>4. CASE s.method # "set_policy"
        BY <1>6, <2>1, <2>2, <2>4 DEF AccountRecord
  <2>5. QED
        BY <2>3, <2>4
<1>8. ASSUME s.form.no = editor.no, editor.of = a, OnlyBy(editor, owned[a])
      PROVE  Agrees(editor, value.policy)
  <2>1. editor.of # Nothing0
        BY <1>5, <1>8, OwnerAssumption DEF AllOwned
  <2>2. EarlierForm(s.form, editor) /\ FormRight(editor)
        BY <1>4, <1>8, <2>1 DEF RunRight, OwnerInv, EditorRight
  <2>3. CASE s.method = "set_policy"
    <3>1. s.policy.caps = s.form.caps /\ (s.form.dex <=> s.policy.pairs # "none")
          BY <1>4, <2>3 DEF RunRight
    <3>2. value.policy = s.policy
          BY <1>7, <2>3
    <3>3. QED
          BY <2>2, <3>1, <3>2 DEF Agrees, EarlierForm
  <2>4. CASE s.method # "set_policy"
    <3>1. value.policy = owned[editor.of].policy
          BY <1>7, <1>8, <2>4
    <3>2. QED
          BY <1>8, <2>2, <3>1 DEF FormRight
  <2>5. QED
        BY <2>3, <2>4
<1> HIDE DEF a, x
<1>9. OwnedTyped' /\ ReadsRight' /\ EditorRight' /\ \A q \in sent : RunRight(q)'
      BY <1>3, <1>5, <1>6, <1>7, <1>8, AccountWritten DEF x
<1>10. \A b \in AllOwned : owned'[b] = Nothing0 <=> owned[b] = Nothing0
      BY <1>3, <1>5, <1>6, <1>7, WrittenIs DEF x
<1>11. CreationsRight' /\ SecretsAreShown'
      BY <1>3, <1>10, CreationsGoOn DEF NewsOfKeys
<1>12. RunRight(r)'
      BY <1>2, <1>9, RunMoved
<1>13. RunsRight'
      BY <1>3, <1>9, <1>12 DEF RunsRight
<1>14. QED
      BY <1>9, <1>11, <1>13 DEF OwnerInv

LEMMA OthersWriteRight ==
    ASSUME OwnerInv, NEW a \in AllOwned, OthersWrite(a) PROVE OwnerInv'
<1> DEFINE x == owned[a]
<1>1. PICK value : /\ Written(a, 0, value)
                   /\ value \in {[x EXCEPT !.policy.rest = "other"], [x EXCEPT !.policy.caps = 1],
                                  [x EXCEPT !.frozen = ~@], [x EXCEPT !.delegated = TRUE]}
      BY DEF OthersWrite
<1>2. shown' = shown /\ fetches' = fetches /\ editor' = editor /\ x # Nothing0 /\ sent' = sent
      /\ ledger' = ledger /\ watching' = watching /\ UNCHANGED NewsOfKeys
      BY DEF OthersWrite, readVars, formVars, NewsOfKeys
<1>3. x \in AccountRecord /\ x.of = a /\ editor.no \in Nat
      BY <1>2 DEF OwnerInv, OwnedTyped
<1>4. x.policy \in PolicyRecord /\ x.frozen \in BOOLEAN
      BY <1>3 DEF AccountRecord
<1>5. value \in AccountRecord /\ value.of = a /\ value.writes = x.writes
  <2> HIDE DEF x
  <2>1. CASE value = [x EXCEPT !.policy.rest = "other"]
        BY <1>3, <1>4, <2>1 DEF AccountRecord, PolicyRecord
  <2>2. CASE value = [x EXCEPT !.policy.caps = 1]
        BY <1>3, <1>4, <2>2 DEF AccountRecord, PolicyRecord
  <2>3. CASE value = [x EXCEPT !.frozen = ~@]
    <3> DEFINE b == ~x.frozen
    <3>1. b \in BOOLEAN /\ value = [x EXCEPT !.frozen = b]
          BY <2>3
    <3> HIDE DEF b
    <3>2. QED
          BY <1>3, <3>1 DEF AccountRecord
  <2>4. CASE value = [x EXCEPT !.delegated = TRUE]
        BY <1>3, <2>4 DEF AccountRecord
  <2>5. QED
        BY <1>1, <2>1, <2>2, <2>3, <2>4
<1> HIDE DEF x
<1>6. 0 \in Nat /\ 0 <= editor.no
      BY <1>3
<1>7. ~(0 = editor.no /\ editor.of = a)
  <2>1. ASSUME editor.of = a PROVE editor.no # 0
    <3>1. editor.of # Nothing0
          BY <2>1, OwnerAssumption DEF AllOwned
    <3>2. editor \in Forms
          BY <3>1, EditorIsForm
    <3>3. QED
          BY <3>2 DEF Forms
  <2>2. QED
        BY <2>1
<1>8. OwnedTyped' /\ ReadsRight' /\ EditorRight' /\ \A q \in sent : RunRight(q)'
      BY <1>1, <1>2, <1>5, <1>6, <1>7, AccountWritten DEF x
<1>9. \A b \in AllOwned : owned'[b] = Nothing0 <=> owned[b] = Nothing0
      BY <1>1, <1>2, <1>5, <1>6, WrittenIs DEF x
<1>10. CreationsRight' /\ SecretsAreShown'
      BY <1>2, <1>9, CreationsGoOn DEF NewsOfKeys
<1>11. RunsRight'
      BY <1>2, <1>8 DEF RunsRight
<1>12. QED
      BY <1>8, <1>10, <1>11 DEF OwnerInv

(* What does not concern the account and its form.                          *)
LEMMA ElseStays ==
    ASSUME OwnerInv, owned' = owned, ledger' \in Nat, watching' = watching, fetches' = fetches,
           shown' = shown, editor' = editor, sent' = sent
    PROVE  OwnedTyped' /\ ReadsRight' /\ EditorRight' /\ RunsRight'
<1>1. Evolves /\ EditorRight'
      BY FormStays
<1>2. OwnedTyped'
      BY <1>1, AccountsStay DEF OwnerInv, OwnedTyped
<1>3. ReadsRight'
      BY DEF OwnerInv, ReadsRight, ReadRight
<1>4. RunsRight'
      BY <1>1, RunsGoOn DEF RunsRight
<1>5. QED
      BY <1>1, <1>2, <1>3, <1>4

LEMMA AccountCreated ==
    ASSUME OwnerInv, NEW k \in Fresh, owned[k] = Nothing0, NEW y \in AccountRecord, y.of = k,
           y.writes = <<>>, owned' = [owned EXCEPT ![k] = y],
           ledger' = ledger, watching' = watching, fetches' = fetches, shown' = shown,
           editor' = editor, sent' = sent
    PROVE  /\ OwnedTyped' /\ ReadsRight' /\ EditorRight' /\ RunsRight'
           /\ owned'[k] # Nothing0 /\ \A b \in AllOwned : b # k => owned'[b] = owned[b]
<1>1. owned \in [AllOwned -> {Nothing0} \cup AccountRecord] /\ k \in AllOwned
      BY DEF OwnerInv, OwnedTyped, AllOwned
<1>2. /\ owned'[k] = y /\ y # Nothing0
      /\ \A b \in AllOwned : b # k => owned'[b] = owned[b]
      /\ owned' \in [AllOwned -> {Nothing0} \cup AccountRecord]
      BY <1>1, RecordsAreAccounts
<1>3. DOMAIN y.writes = {}
      OBVIOUS
<1>4. OwnedTyped'
  <2>1. ASSUME NEW b \in AllOwned, owned'[b] # Nothing0
        PROVE  /\ owned'[b].of = b
               /\ \A i \in DOMAIN owned'[b].writes : owned'[b].writes[i] <= editor.no
    <3>1. CASE b # k
          BY <1>2, <2>1, <3>1 DEF OwnerInv, OwnedTyped
    <3>2. CASE b = k
          BY <1>2, <1>3, <3>2
    <3>3. QED
          BY <3>1, <3>2
  <2>2. QED
        BY <1>2, <2>1 DEF OwnerInv, OwnedTyped
<1>5. ASSUME NEW x, ReadRight(x) PROVE ReadRight(x)'
  <2>1. CASE x # Nothing0
    <3>1. x \in AccountRecord /\ owned[x.of] # Nothing0
          BY <1>5, <2>1 DEF ReadRight
    <3>2. x.of \in AllOwned /\ x.of # k
          BY <3>1 DEF AccountRecord
    <3>3. owned'[x.of] = owned[x.of]
          BY <1>2, <3>2
    <3>4. QED
          BY <1>5, <3>3 DEF ReadRight
  <2>2. QED
        BY <2>1 DEF ReadRight
<1>6. ReadsRight'
  <2>1. PICK x : x = shown.account
        OBVIOUS
  <2>2. ReadRight(x)'
        BY <1>5, <2>1 DEF OwnerInv, ReadsRight
  <2>3. ReadRight(shown.account)'
        BY <2>1, <2>2 DEF ReadRight
  <2>4. \A p \in fetches : DOMAIN p = {"id", "at", "answer"} /\ ReadRight(p.answer)'
        BY <1>5 DEF OwnerInv, ReadsRight
  <2>5. QED
        BY <2>3, <2>4 DEF ReadsRight
<1>7. EditorRight'
  <2>1. CASE editor.of = Nothing0
        BY <2>1 DEF OwnerInv, EditorRight
  <2>2. CASE editor.of # Nothing0
    <3>1. FormRight(editor) /\ shown.account # Nothing0 /\ shown.account.of = editor.of
          BY <2>2 DEF OwnerInv, EditorRight
    <3>2. editor.of \in AllOwned /\ owned[editor.of] # Nothing0
          BY <3>1 DEF FormRight, Forms
    <3>3. owned'[editor.of] = owned[editor.of]
          BY <1>2, <3>2
    <3>4. FormRight(editor)'
          BY <3>1, <3>3 DEF FormRight
    <3>5. QED
          BY <2>2, <3>1, <3>4 DEF EditorRight
  <2>3. QED
        BY <2>1, <2>2
<1>8. ASSUME NEW s \in sent PROVE RunRight(s)'
  <2>1. RunRight(s)
        BY DEF OwnerInv, RunsRight
  <2>2. s.on \in AllOwned /\ owned[s.on] # Nothing0
        BY <2>1 DEF RunRight, Runs
  <2>3. owned'[s.on] = owned[s.on]
        BY <1>2, <2>2
  <2>4. UpToDate(s)' => Obeys(s)'
        BY <2>1, <2>3 DEF RunRight, UpToDate, Obeys
  <2>5. QED
        BY <2>1, <2>3, <2>4 DEF RunRight, EarlierForm
<1>9. RunsRight'
      BY <1>8 DEF RunsRight
<1>10. QED
      BY <1>2, <1>4, <1>6, <1>7, <1>9

LEMMA CreationsMove ==
    ASSUME OwnerInv, NEW c, NEW d, creating' \subseteq (creating \ {c}) \cup {d},
           secrets \subseteq secrets', untold \subseteq untold', CreationRight(d)',
           \A e \in creating \ {c} : e.new \in Fresh =>
              owned'[e.new] = owned[e.new] /\ e.new # d.new
    PROVE  CreationsRight'
<1>1. /\ \A e \in creating : CreationRight(e)
      /\ \A e, f \in creating : e.new = f.new /\ e.new \in Fresh => e = f
      BY DEF OwnerInv, CreationsRight
<1>2. ASSUME NEW e \in creating \ {c} PROVE CreationRight(e)'
      BY <1>1, <1>2 DEF CreationRight
<1>3. \A e \in creating' : CreationRight(e)'
      BY <1>2
<1>4. ASSUME NEW e \in creating', NEW f \in creating', e.new = f.new, e.new \in Fresh PROVE e = f
      BY <1>1, <1>4
<1>5. QED
      BY <1>3, <1>4 DEF CreationsRight

Elsewhere == <<owned, ledger, watching, fetches, shown, editor, sent>>

LEMMA ElsewhereStays ==
    ASSUME OwnerInv, UNCHANGED Elsewhere
    PROVE  OwnedTyped' /\ ReadsRight' /\ EditorRight' /\ RunsRight'
<1>1. ledger' \in Nat
      BY DEF OwnerInv, OwnedTyped, Elsewhere
<1>2. QED
      BY <1>1, ElseStays DEF Elsewhere

LEMMA CreatorRight ==
    ASSUME OwnerInv, CreateOpened \/ CreateCancelled \/ CreatePressed PROVE OwnerInv'
<1>1. UNCHANGED Elsewhere /\ secrets' = secrets /\ untold' = untold
      BY DEF CreateOpened, CreateCancelled, CreatePressed, ownedVars, readVars, Elsewhere
<1>2. OwnedTyped' /\ ReadsRight' /\ EditorRight' /\ RunsRight'
      BY <1>1, ElsewhereStays
<1>3. CASE CreateOpened \/ CreateCancelled
  <2>1. creating' = creating
        BY <1>3 DEF CreateOpened, CreateCancelled
  <2>2. CreationsRight' /\ SecretsAreShown'
        BY <1>1, <2>1, CreationsGoOn DEF Elsewhere
  <2>3. QED
        BY <1>2, <2>2 DEF OwnerInv
<1>4. CASE CreatePressed
  <2>1. PICK d : /\ creating' = creating \cup {d}
                 /\ DOMAIN d = {"at", "by", "form", "new"} /\ d.new = Nothing0
                 /\ d.at \in {"connect", "health"}
    <3>1. PICK at, by : /\ at \in {"connect", "health"}
                            /\ creating' = creating \cup {NewCreation(at, by)}
          BY <1>4 DEF CreatePressed
    <3>2. DOMAIN NewCreation(at, by) = {"at", "by", "form", "new"}
          /\ NewCreation(at, by).new = Nothing0 /\ NewCreation(at, by).at = at
          BY DEF NewCreation
    <3>3. QED
          BY <3>1, <3>2
  <2>2. CreationRight(d)'
        BY <2>1 DEF CreationRight
  <2>3. Nothing0 \notin Fresh
        BY OwnerAssumption
  <2>4. \A e \in creating \ {d} : e.new \in Fresh => owned'[e.new] = owned[e.new] /\ e.new # d.new
        BY <1>1, <2>1, <2>3 DEF Elsewhere
  <2>5. CreationsRight'
        BY <1>1, <2>1, <2>2, <2>4, CreationsMove
  <2>6. SecretsAreShown'
        BY <1>1, <2>1 DEF OwnerInv, SecretsAreShown, Elsewhere
  <2>7. QED
        BY <1>2, <2>5, <2>6 DEF OwnerInv
<1>5. QED
      BY <1>3, <1>4

(* A creation that goes on, or ends, and what is told of it.                *)
LEMMA CreationProceeds ==
    ASSUME OwnerInv, UNCHANGED Elsewhere, NEW c \in creating, NEW d,
           creating' \subseteq (creating \ {c}) \cup {d}, creating \ {c} \subseteq creating',
           secrets \subseteq secrets', untold \subseteq untold', CreationRight(d)',
           d.new = c.new \/ (c.new \notin Fresh /\ \A e \in creating : e.new # d.new),
           c.new \in Fresh /\ c.at # "unconfirmed" =>
              \/ c.new \in secrets' \cup untold'
              \/ d \in creating' /\ d.at # "unconfirmed" /\ d.new = c.new
    PROVE  OwnerInv'
<1>1. OwnedTyped' /\ ReadsRight' /\ EditorRight' /\ RunsRight'
      BY ElsewhereStays
<1>2. \A e, f \in creating : e.new = f.new /\ e.new \in Fresh => e = f
      BY DEF OwnerInv, CreationsRight
<1>3. \A e \in creating \ {c} : e.new \in Fresh => owned'[e.new] = owned[e.new] /\ e.new # d.new
      BY <1>2 DEF Elsewhere
<1>4. CreationsRight'
      BY <1>3, CreationsMove
<1>5. ASSUME NEW k \in Fresh, owned'[k] # Nothing0
      PROVE  \/ k \in secrets' \cup untold'
             \/ \E e \in creating' : e.new = k /\ e.at # "unconfirmed"
  <2>1. \/ k \in secrets \cup untold
        \/ \E e \in creating : e.new = k /\ e.at # "unconfirmed"
        BY <1>5 DEF OwnerInv, SecretsAreShown, Elsewhere
  <2>2. CASE k \in secrets \cup untold
        BY <2>2
  <2>3. ASSUME NEW e \in creating, e.new = k, e.at # "unconfirmed"
        PROVE  \/ k \in secrets' \cup untold'
               \/ \E f \in creating' : f.new = k /\ f.at # "unconfirmed"
    <3>1. CASE e = c
          BY <2>3, <3>1
    <3>2. CASE e # c
          BY <2>3, <3>2
    <3>3. QED
          BY <3>1, <3>2
  <2>4. QED
        BY <2>1, <2>2, <2>3
<1>6. SecretsAreShown'
      BY <1>5 DEF SecretsAreShown
<1>7. QED
      BY <1>1, <1>4, <1>6 DEF OwnerInv

LEMMA CreationRightAll ==
    ASSUME OwnerInv, NEW c \in creating PROVE CreationRight(c)
BY DEF OwnerInv, CreationsRight

LEMMA CreateConnectedRight ==
    ASSUME OwnerInv, NEW c \in creating, NEW w \in Wallets, CreateConnected(c, w) PROVE OwnerInv'
<1>1. PICK d : d = [c EXCEPT !.at = "health", !.by = w]
      OBVIOUS
<1>2. /\ UNCHANGED Elsewhere /\ secrets' = secrets /\ untold' = untold
      /\ creating' = (creating \ {c}) \cup {d} /\ c.at = "connect"
      BY <1>1 DEF CreateConnected, Proceeding, ownedVars, readVars, Elsewhere
<1>3. DOMAIN c = {"at", "by", "form", "new"} /\ c.new = Nothing0
      BY <1>2, CreationRightAll DEF CreationRight
<1>4. DOMAIN d = {"at", "by", "form", "new"} /\ d.new = Nothing0 /\ d.at = "health"
      BY <1>1, <1>3
<1>5. CreationRight(d)'
      BY <1>4 DEF CreationRight
<1>6. QED
      BY <1>2, <1>3, <1>4, <1>5, CreationProceeds, OwnerAssumption

LEMMA CreateNotConnectedRight ==
    ASSUME OwnerInv, NEW c \in creating, CreateNotConnected(c) PROVE OwnerInv'
<1>1. /\ UNCHANGED Elsewhere /\ secrets' = secrets /\ untold' = untold
      /\ creating' = creating \ {c} /\ c.at = "connect"
      BY DEF CreateNotConnected, ownedVars, readVars, Elsewhere
<1>2. CreationRight(c) /\ c.new = Nothing0
      BY <1>1, CreationRightAll DEF CreationRight
<1>3. CreationRight(c)'
      BY <1>1, <1>2 DEF CreationRight
<1>4. QED
      BY <1>1, <1>2, <1>3, CreationProceeds, OwnerAssumption

LEMMA KeyMadeRight ==
    ASSUME OwnerInv, NEW c \in creating, NEW k \in Fresh, KeyMade(c, k) PROVE OwnerInv'
<1>1. PICK d : d = [c EXCEPT !.at = "send", !.new = k]
      OBVIOUS
<1>2. /\ UNCHANGED Elsewhere /\ secrets' = secrets /\ untold' = untold /\ c.at = "health"
      /\ creating' = (creating \ {c}) \cup {d} /\ owned[k] = Nothing0
      /\ \A e \in creating : e.new # k
      BY <1>1 DEF KeyMade, Proceeding, ownedVars, readVars, Elsewhere
<1>3. DOMAIN c = {"at", "by", "form", "new"} /\ c.new = Nothing0 /\ c.new \notin Fresh
      BY <1>2, CreationRightAll, OwnerAssumption DEF CreationRight
<1>4. DOMAIN d = {"at", "by", "form", "new"} /\ d.new = k /\ d.at = "send"
      BY <1>1, <1>3
<1>5. CreationRight(d)'
      BY <1>2, <1>4 DEF CreationRight, Elsewhere
<1>6. QED
      BY <1>2, <1>3, <1>4, <1>5, CreationProceeds

LEMMA CreateEndsRight ==
    ASSUME OwnerInv, NEW c \in creating, CreateEnds(c) \/ CreateFails(c) PROVE OwnerInv'
<1>1. PICK d : d = [c EXCEPT !.at = "unconfirmed"]
      OBVIOUS
<1>2. /\ UNCHANGED Elsewhere
      /\ creating' = (creating \ {c}) \cup (IF c.at = "send" THEN {d} ELSE {})
      /\ c.at \in {"health", "send", "applied"}
      BY <1>1 DEF CreateEnds, CreateFails, ownedVars, readVars, Elsewhere
<1>3. secrets \subseteq secrets' /\ untold \subseteq untold' /\ c.new \in secrets' \cup untold'
  <2>1. CASE CreateEnds(c)
    <3>1. HasResult(c)
          BY <2>1 DEF CreateEnds, HasResult
    <3>2. CASE There(c)
          BY <2>1, <3>1, <3>2 DEF CreateEnds
    <3>3. CASE ~There(c)
          BY <2>1, <3>3 DEF CreateEnds
    <3>4. QED
          BY <3>2, <3>3
  <2>2. CASE CreateFails(c)
        BY <2>2 DEF CreateFails
  <2>3. QED
        BY <2>1, <2>2
<1>4. CreationRight(c)
      BY CreationRightAll
<1>5. CASE c.at = "send"
  <2>1. DOMAIN d = {"at", "by", "form", "new"} /\ d.new = c.new /\ d.at = "unconfirmed"
        BY <1>1, <1>4 DEF CreationRight
  <2>2. CreationRight(d)'
        BY <1>2, <1>3, <1>4, <1>5, <2>1 DEF CreationRight, Elsewhere
  <2>3. QED
        BY <1>2, <1>3, <1>5, <2>1, <2>2, CreationProceeds
<1>6. CASE c.at # "send"
  <2>1. CreationRight(c)'
        BY <1>2, <1>3, <1>4, <1>6 DEF CreationRight
  <2>2. QED
        BY <1>2, <1>3, <1>6, <2>1, CreationProceeds
<1>7. QED
      BY <1>5, <1>6

LEMMA CreateAppliedRight ==
    ASSUME OwnerInv, NEW c \in creating, CreateApplied(c) PROVE OwnerInv'
<1> DEFINE k == c.new
           p == [caps |-> 1, pairs |-> "none", expires |-> ledger + DAY, rest |-> k]
           y == [of |-> k, frozen |-> FALSE, delegated |-> FALSE, writes |-> <<>>, policy |-> p]
<1>1. PICK d : d = [c EXCEPT !.at = "applied"]
      OBVIOUS
<1>2. /\ owned' = [owned EXCEPT ![k] = y] /\ c.at \in {"send", "unconfirmed"}
      /\ creating' = (creating \ {c}) \cup (IF c.at = "send" THEN {d} ELSE {})
      /\ ledger' = ledger /\ watching' = watching /\ fetches' = fetches /\ shown' = shown
      /\ editor' = editor /\ sent' = sent /\ secrets' = secrets /\ untold' = untold
      BY <1>1 DEF CreateApplied, readVars
<1>3. CreationRight(c)
      BY CreationRightAll
<1>4. k \in Fresh /\ owned[k] = Nothing0 /\ (c.at = "unconfirmed" => k \in secrets \cup untold)
      BY <1>2, <1>3 DEF CreationRight
<1>5. ledger \in Nat /\ DAY \in Nat /\ k \in AllOwned
      BY <1>4, OwnerAssumption DEF OwnerInv, OwnedTyped, AllOwned
<1>6. p \in PolicyRecord
      BY <1>5 DEF PolicyRecord
<1> HIDE DEF p
<1>7. <<>> \in Seq(Nat)
      OBVIOUS
<1>8. y \in AccountRecord /\ y.of = k /\ y.writes = <<>>
      BY <1>5, <1>6, <1>7 DEF AccountRecord
<1> HIDE DEF k, y
<1>9. /\ OwnedTyped' /\ ReadsRight' /\ EditorRight' /\ RunsRight'
      /\ owned'[k] # Nothing0 /\ \A b \in AllOwned : b # k => owned'[b] = owned[b]
      BY <1>2, <1>4, <1>8, AccountCreated
<1>10. \A e, f \in creating : e.new = f.new /\ e.new \in Fresh => e = f
       BY DEF OwnerInv, CreationsRight
<1>11. DOMAIN d = {"at", "by", "form", "new"} /\ d.new = k /\ d.at = "applied"
       BY <1>1, <1>3 DEF CreationRight, k
<1>12. CreationRight(d)'
       BY <1>4, <1>11 DEF CreationRight
<1>13. Fresh \subseteq AllOwned
       BY DEF AllOwned
<1>14. \A e \in creating \ {c} : e.new \in Fresh => e.new # k
       BY <1>10 DEF k
<1>15. \A e \in creating \ {c} : e.new \in Fresh => owned'[e.new] = owned[e.new] /\ e.new # d.new
       BY <1>9, <1>11, <1>13, <1>14
<1>16. CreationsRight'
       BY <1>2, <1>12, <1>15, CreationsMove
<1>17. ASSUME NEW j \in Fresh, owned'[j] # Nothing0
       PROVE  \/ j \in secrets' \cup untold'
              \/ \E e \in creating' : e.new = j /\ e.at # "unconfirmed"
  <2>1. CASE j = k
        BY <1>2, <1>4, <1>11, <2>1
  <2>2. CASE j # k
    <3>1. owned[j] # Nothing0
          BY <1>9, <1>13, <1>17, <2>2
    <3>2. \/ j \in secrets \cup untold
          \/ \E e \in creating : e.new = j /\ e.at # "unconfirmed"
          BY <3>1 DEF OwnerInv, SecretsAreShown
    <3>3. QED
          BY <1>2, <2>2, <3>2 DEF k
  <2>3. QED
        BY <2>1, <2>2
<1>18. SecretsAreShown'
       BY <1>17 DEF SecretsAreShown
<1>19. QED
       BY <1>9, <1>16, <1>18 DEF OwnerInv

LEMMA OwnerKeeps == OwnerInv /\ [OwnerNext]_ownerVars => OwnerInv'
<1> SUFFICES ASSUME OwnerInv, [OwnerNext]_ownerVars PROVE OwnerInv'
    OBVIOUS
<1>1. CASE UNCHANGED ownerVars \/ LedgerPasses \/ WalletMoves
  <2>1. UNCHANGED <<owned, readVars, formVars, secrets, untold>>
        BY <1>1 DEF ownerVars, ownedVars, LedgerPasses, WalletMoves
  <2>2. ledger' \in Nat
        BY <1>1 DEF ownerVars, ownedVars, LedgerPasses, WalletMoves, OwnerInv, OwnedTyped
  <2>3. OwnedTyped' /\ ReadsRight' /\ EditorRight' /\ RunsRight'
        BY <2>1, <2>2, ElseStays DEF readVars, formVars
  <2>4. CreationsRight' /\ SecretsAreShown'
        BY <2>1, CreationsGoOn DEF formVars
  <2>5. QED
        BY <2>3, <2>4 DEF OwnerInv
<1>2. CASE \E a \in AllOwned : Watches(a) \/ OthersWrite(a)
      BY <1>2, WatchesRight, OthersWriteRight
<1>3. CASE PollAsked \/ \E p \in fetches : AccountAnswered(p) \/ PollEnds(p)
      BY <1>3, PollAskedRight, AnsweredRight, PollEndsRight
<1>4. CASE (\E c \in Caps : EditsCaps(c)) \/ EditsDex \/ EditsDays
      BY <1>4, EditsRight
<1>5. CASE SavePressed \/ FreezePressed
      BY <1>5, PressesRight
<1>6. CASE \E s \in sent : HealthComes(s) \/ RunApplied(s) \/ RunEnds(s)
      BY <1>6, HealthRight, RunAppliedRight, RunEndsRight
<1>7. CASE CreateOpened \/ CreateCancelled \/ CreatePressed
      BY <1>7, CreatorRight
<1>8. ASSUME NEW c \in creating,
             \/ \E w \in Wallets : CreateConnected(c, w)
             \/ CreateNotConnected(c)
             \/ \E k \in Fresh : KeyMade(c, k)
             \/ CreateApplied(c) \/ CreateEnds(c) \/ CreateFails(c)
      PROVE  OwnerInv'
      BY <1>8, CreateConnectedRight, CreateNotConnectedRight, KeyMadeRight, CreateAppliedRight,
         CreateEndsRight
<1>9. QED
      BY <1>1, <1>2, <1>3, <1>4, <1>5, <1>6, <1>7, <1>8 DEF OwnerNext

(* Of a run that is up to date, what it does is what its owner edited.      *)
LEMMA RunObeys ==
    ASSUME OwnerInv, NEW s \in sent, RunApplied(s), UpToDate(s) PROVE ChangesOnly(s)
<1>1. RunRight(s) /\ Obeys(s)
      BY DEF OwnerInv, RunsRight, RunRight
<1> DEFINE a == s.on
           x == owned[a]
<1>2. PICK value : value = (IF s.method = "set_policy" THEN [x EXCEPT !.policy = s.policy]
                            ELSE [x EXCEPT !.frozen = (s.method = "freeze")])
      OBVIOUS
<1>3. Written(a, s.form.no, value)
      BY <1>2 DEF RunApplied
<1>4. s \in Runs /\ a \in AllOwned /\ s.form.no \in Nat /\ s.form.no <= editor.no
      /\ s.policy \in PolicyRecord /\ x # Nothing0
      BY <1>1 DEF RunRight, Runs, Forms
<1>5. x \in AccountRecord /\ x.of = a
      BY <1>4 DEF OwnerInv, OwnedTyped
<1>6. x.frozen \in BOOLEAN
      BY <1>5 DEF AccountRecord
<1> DEFINE b == s.method = "freeze"
<1>7. b \in BOOLEAN
      OBVIOUS
<1>8. value = (IF s.method = "set_policy" THEN [x EXCEPT !.policy = s.policy]
               ELSE [x EXCEPT !.frozen = b])
      BY <1>2
<1> HIDE DEF a, x, b
<1>9. value \in AccountRecord /\ value.of = a /\ value.writes = x.writes
      /\ value.policy = (IF s.method = "set_policy" THEN s.policy ELSE x.policy)
      /\ value.frozen = (IF s.method = "set_policy" THEN x.frozen ELSE b)
  <2>1. CASE s.method = "set_policy"
        BY <1>4, <1>5, <1>8, <2>1 DEF AccountRecord
  <2>2. CASE s.method # "set_policy"
        BY <1>5, <1>7, <1>8, <2>2 DEF AccountRecord
  <2>3. QED
        BY <2>1, <2>2
<1>10. /\ owned'[a].policy = value.policy /\ owned'[a].frozen = value.frozen
       /\ \A c \in AllOwned : c # a => owned'[c] = owned[c]
       BY <1>3, <1>4, <1>5, <1>9, WrittenIs DEF x
<1>11. CASE s.method = "set_policy"
  <2>1. owned'[s.on].policy = s.policy /\ owned'[s.on].frozen = owned[s.on].frozen
        BY <1>9, <1>10, <1>11 DEF a, x
  <2>2. QED
        BY <1>1, <1>10, <1>11, <2>1 DEF ChangesOnly, Obeys, a
<1>12. CASE s.method # "set_policy"
  <2>1. owned'[s.on].policy = owned[s.on].policy /\ owned'[s.on].frozen = b
        BY <1>9, <1>10, <1>12 DEF a, x
  <2>2. b # owned[s.on].frozen
        BY <1>1, <1>6, <1>7, <1>12 DEF Obeys, a, x, b
  <2>3. QED
        BY <1>10, <1>12, <2>1, <2>2 DEF ChangesOnly, a
<1>13. QED
       BY <1>11, <1>12

(* Only what is applied changes an account as a run goes.                   *)
LEMMA OwnerObeyed ==
    ASSUME OwnerInv, [OwnerNext]_ownerVars
    PROVE  \A s \in sent : s \notin sent' /\ owned' # owned /\ UpToDate(s) => ChangesOnly(s)
<1> SUFFICES ASSUME NEW s \in sent, s \notin sent', owned' # owned, UpToDate(s)
             PROVE  ChangesOnly(s)
    OBVIOUS
<1>1. PICK r \in sent : RunApplied(r)
  <2>1. ~UNCHANGED ownerVars /\ ~LedgerPasses /\ ~WalletMoves /\ ~PollAsked
        BY DEF ownerVars, ownedVars, LedgerPasses, WalletMoves, PollAsked
  <2>2. ASSUME NEW a \in AllOwned PROVE ~Watches(a) /\ ~OthersWrite(a)
        BY DEF Watches, OthersWrite, ownedVars, formVars
  <2>3. ASSUME NEW p \in fetches PROVE ~AccountAnswered(p) /\ ~PollEnds(p)
        BY DEF AccountAnswered, PollEnds, ownedVars
  <2>4. ~(\E c \in Caps : EditsCaps(c)) /\ ~EditsDex /\ ~EditsDays
        BY DEF EditsCaps, EditsDex, EditsDays, ownedVars
  <2>5. ~SavePressed /\ ~FreezePressed
        BY DEF SavePressed, FreezePressed, RunStarts, ownedVars
  <2>6. ASSUME NEW r \in sent PROVE ~HealthComes(r) /\ ~RunEnds(r)
        BY DEF HealthComes, RunEnds, ownedVars
  <2>7. ~CreateOpened /\ ~CreateCancelled /\ ~CreatePressed
        BY DEF CreateOpened, CreateCancelled, CreatePressed, ownedVars
  <2>8. ASSUME NEW c \in creating
        PROVE  /\ \A w \in Wallets : ~CreateConnected(c, w)
               /\ ~CreateNotConnected(c)
               /\ \A k \in Fresh : ~KeyMade(c, k)
               /\ ~CreateApplied(c) /\ ~CreateEnds(c) /\ ~CreateFails(c)
        BY DEF CreateConnected, CreateNotConnected, KeyMade, CreateApplied, CreateEnds, CreateFails,
               ownedVars
  <2>9. QED
        BY <2>1, <2>2, <2>3, <2>4, <2>5, <2>6, <2>7, <2>8 DEF OwnerNext
<1>2. r = s
      BY <1>1 DEF RunApplied
<1>3. QED
      BY <1>1, <1>2, RunObeys

(* The forms do to the account what their owner sees and edits in them, and
   the secret of an agent whose account was created was shown but for an error
   (AccountAdmin.tsx).                                                      *)
THEOREM OwnerAlwaysObeyed == OwnerSpec => OwnerIsObeyed
<1>1. OwnerInit => OwnerInv
      BY OwnerBegins
<1>2. OwnerInv /\ [OwnerNext]_ownerVars => OwnerInv'
      BY OwnerKeeps
<1>3. OwnerInv /\ OwnerInv' /\ [OwnerNext]_ownerVars
        => [/\ \A s \in sent : s \notin sent' /\ owned' # owned /\ UpToDate(s) => ChangesOnly(s)
            /\ SecretsAreShown']_ownerVars
      BY OwnerObeyed DEF OwnerInv
<1>4. QED
      BY <1>1, <1>2, <1>3, PTL DEF OwnerSpec, OwnerIsObeyed
=============================================================================
