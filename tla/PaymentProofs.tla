----------------------------- MODULE PaymentProofs -----------------------------
(***************************************************************************)
(* Proofs about what is paid and what is seen of it: what is paid is what  *)
(* was offered, for any requests (Gateway); the three who keep count of    *)
(* the calls of an assistant agree, for any calls (PaidCalls); and what    *)
(* the console shows of it all is the truth, in whatever order it is told  *)
(* (Console).                                                              *)
(***************************************************************************)
EXTENDS Gateway, PaidCalls, Console, Sums

Ours == {"x402Fetch", "streamPaid"}

Places == {"new", "arrived", "verify", "verified", "settle", "settled", "paid", "serving",
           "served", "refused", "answered", "over"}

GatewayTyped ==
    /\ signedTotal \in Nat /\ accepted \in Nat
    /\ request \in [Requests -> [at : Places, client : Clients \cup {"none"},
                                 header : [scheme : {"none", "garbled", "channel", "exact"},
                                           total : Nat],
                                 code : Codes \cup {NoCode},
                                 pieces : Seq(Pieces), seen : Seq(Pieces)]]
    /\ payments \subseteq [by : Requests, amount : Nat]
    /\ attested \in [Requests -> SUBSET Seq(Pieces)]
    /\ lost \subseteq Requests

(* How far a request is tells what its header may be.                       *)
Stage(r) ==
    LET q == request[r] IN
    /\ q.header.scheme = "channel" <=> q.header.total > 0
    /\ q.header.scheme = "channel" => q.client \in Ours
    /\ q.at = "new" => q.header.scheme = "none" /\ q.code = NoCode
    /\ q.code = "PAYMENT_REQUIRED" => q.header.scheme = "none"
    /\ q.at \in {"verify", "verified", "settle", "settled", "paid", "serving", "served"}
          => q.header.scheme \in {"channel", "exact"}
    /\ q.at \in {"settle", "settled"} => q.header.scheme = "exact"

PaidOnce(r) == \E p \in payments : PaymentsOf(r) = {p} /\ p.amount >= chargeFor(r)

(* And whether it is paid.                                                  *)
Paying(r) ==
    LET q == request[r] IN
    /\ q.at \in {"new", "arrived", "verify", "settle", "refused"} => PaymentsOf(r) = {}
    /\ q.at = "verified" => IF q.header.scheme = "channel" THEN PaidOnce(r)
                            ELSE PaymentsOf(r) = {}
    /\ q.at \in {"settled", "paid", "serving", "served"} => PaidOnce(r)
    /\ q.at \in {"answered", "over"} => PaymentsOf(r) = {} \/ (r \in lost /\ PaidOnce(r))
    /\ q.header.scheme \in {"none", "garbled"} => PaymentsOf(r) = {}

AllText(pieces) == \A i \in DOMAIN pieces : pieces[i] # "bytes"

(* What was seen of the body, and what was attested.                        *)
Bodies(r) ==
    LET q == request[r] IN
    /\ q.at \notin {"serving", "served"} => q.pieces = <<>> /\ q.seen = <<>>
    /\ q.at # "served" => attested[r] = {}
    /\ AllText(q.pieces) => q.seen = q.pieces
    /\ q.at = "served" /\ r \notin Sliced /\ q.header.scheme = "channel"
          => attested[r] = {q.seen}

SignedOnes == {r \in Requests : request[r].header.scheme = "channel"}

TotalOf(r) == request[r].header.total

(* The totals that a voucher may start from: the intervals tile the channel. *)
Bounds == {0} \cup {TotalOf(r) : r \in SignedOnes}

Tiled ==
    /\ IsFiniteSet(SignedOnes)
    /\ signedTotal \in Bounds /\ \A b \in Bounds : b <= signedTotal
    /\ \A q, r \in SignedOnes : TotalOf(q) = TotalOf(r) => q = r
    /\ \A b \in Bounds, r \in SignedOnes : b < TotalOf(r) => b <= TotalOf(r) - Asks(r)

SumsAreTotals ==
    \A b, c \in Bounds : b <= c => SumFunctionOnSet(AskedBy, SignedBetween(b, c)) = c - b

(* What was accepted is the total of a paid request, and what a payment is
   worth reaches down to the one before.                                    *)
FromBounds ==
    /\ accepted = 0 \/ \E q \in SignedOnes : accepted = TotalOf(q) /\ PaymentsOf(q) # {}
    /\ \A r \in SignedOnes : \A p \in PaymentsOf(r) :
          p.amount <= TotalOf(r) /\ TotalOf(r) - p.amount \in Bounds

(* The first two parts of OfferIsEnough, with what makes them stay.         *)
ToldRightly ==
    \A r \in Requests :
        /\ request[r].code = "VOUCHER_UNDERPAID" => r \in Sliced /\ request[r].client = "x402Fetch"
        /\ request[r].code = "VOUCHER_NOT_INCREASING" =>
              \E q \in Requests \ {r} : TotalOf(q) > TotalOf(r) /\ PaymentsOf(q) # {}

GatewayInv ==
    /\ GatewayTyped
    /\ \A r \in Requests : Stage(r) /\ Paying(r) /\ Bodies(r)
    /\ Tiled /\ SumsAreTotals /\ FromBounds /\ ToldRightly

-----------------------------------------------------------------------------
(* Types.                                                                   *)

Headers == [scheme : {"none", "garbled", "channel", "exact"}, total : Nat]

RequestType ==
    [at : Places, client : Clients \cup {"none"}, header : Headers,
     code : Codes \cup {NoCode}, pieces : Seq(Pieces), seen : Seq(Pieces)]

(* The prices are positive, and a slice is worth a unit at least.           *)
LEMMA Prices ==
    /\ UnitPrice \in Nat \ {0} /\ SliceUnits \in Nat \ {0}
    /\ UnitPrice * SliceUnits \in Nat \ {0} /\ UnitPrice <= UnitPrice * SliceUnits
  <1>1. UnitPrice \in Nat \ {0} /\ SliceUnits \in Nat \ {0}
    BY GatewayAssumption
  <1> QED BY <1>1

LEMMA ChargeIs == \A r : chargeFor(r) \in Nat \ {0}
  BY Prices DEF chargeFor

(* Both kits offer the same: only a stream asks for a slice.                *)
LEMMA AsksIs ==
    \A r : Asks(r) = IF request[r].client = "streamPaid" /\ r \in Sliced
                     THEN UnitPrice * SliceUnits ELSE UnitPrice
  BY Prices DEF Asks, OfferOf, DemoOffer, Offer

LEMMA AsksType == \A r : Asks(r) \in Nat \ {0}
  BY AsksIs, Prices

(* What the actions do to a request, field by field.                        *)

OthersAsIn(f, g, r) ==
    g \in [Requests -> RequestType] /\ \A q \in Requests \ {r} : g[q] = f[q]

(* One request is another, the others are what they were.                   *)
LEMMA RequestChanged ==
    ASSUME NEW f \in [Requests -> RequestType], NEW r \in Requests, NEW x \in RequestType
    PROVE  OthersAsIn(f, [f EXCEPT ![r] = x], r) /\ [f EXCEPT ![r] = x][r] = x
  BY DEF OthersAsIn

(* Only its place changes.                                                  *)
PlaceSet(f, r, at) ==
    [f EXCEPT ![r].at = at]

LEMMA MovesTo ==
    ASSUME NEW f \in [Requests -> RequestType], NEW r \in Requests,
           NEW at \in Places,
           NEW g,
           g = PlaceSet(f, r, at)
    PROVE  /\ OthersAsIn(f, g, r)
           /\ g[r].at = at
           /\ g[r].client = f[r].client
           /\ g[r].header = f[r].header
           /\ g[r].code = f[r].code
           /\ g[r].pieces = f[r].pieces
           /\ g[r].seen = f[r].seen
  <1> DEFINE q == [f[r] EXCEPT !.at = at]
  <1>1. f[r] \in RequestType
    OBVIOUS
  <1>2. q \in RequestType
    BY <1>1 DEF RequestType, Places
  <1>3. /\ q.at = at
        /\ q.client = f[r].client
        /\ q.header = f[r].header
        /\ q.code = f[r].code
        /\ q.pieces = f[r].pieces
        /\ q.seen = f[r].seen
    BY <1>1 DEF RequestType
  <1>4. g = [f EXCEPT ![r] = q]
    BY DEF PlaceSet
  <1>5. OthersAsIn(f, [f EXCEPT ![r] = q], r) /\ [f EXCEPT ![r] = q][r] = q
    <2> HIDE DEF q
    <2> QED BY <1>2, RequestChanged
  <1>6. OthersAsIn(f, g, r) /\ g[r] = q
    <2> HIDE DEF q
    <2> QED BY <1>4, <1>5
  <1> HIDE DEF q
  <1> QED BY <1>3, <1>6

(* Its place and the answer change.                                         *)
AnswerSet(f, r, at, code) ==
    [f EXCEPT ![r].at = at, ![r].code = code]

LEMMA AnswersTo ==
    ASSUME NEW f \in [Requests -> RequestType], NEW r \in Requests,
           NEW at \in Places, NEW code \in Codes \cup {NoCode},
           NEW g,
           g = AnswerSet(f, r, at, code)
    PROVE  /\ OthersAsIn(f, g, r)
           /\ g[r].at = at
           /\ g[r].client = f[r].client
           /\ g[r].header = f[r].header
           /\ g[r].code = code
           /\ g[r].pieces = f[r].pieces
           /\ g[r].seen = f[r].seen
  <1> DEFINE q == [f[r] EXCEPT !.at = at, !.code = code]
  <1>1. f[r] \in RequestType
    OBVIOUS
  <1>2. q \in RequestType
    BY <1>1 DEF RequestType, Places
  <1>3. /\ q.at = at
        /\ q.client = f[r].client
        /\ q.header = f[r].header
        /\ q.code = code
        /\ q.pieces = f[r].pieces
        /\ q.seen = f[r].seen
    BY <1>1 DEF RequestType
  <1>4. g = [f EXCEPT ![r] = q]
    BY DEF AnswerSet
  <1>5. OthersAsIn(f, [f EXCEPT ![r] = q], r) /\ [f EXCEPT ![r] = q][r] = q
    <2> HIDE DEF q
    <2> QED BY <1>2, RequestChanged
  <1>6. OthersAsIn(f, g, r) /\ g[r] = q
    <2> HIDE DEF q
    <2> QED BY <1>4, <1>5
  <1> HIDE DEF q
  <1> QED BY <1>3, <1>6

(* Its client and the scheme are chosen.                                    *)
ProbeSet(f, r, client, scheme) ==
    [f EXCEPT ![r].client = client, ![r].at = "arrived", ![r].header.scheme = scheme]

LEMMA ProbesWith ==
    ASSUME NEW f \in [Requests -> RequestType], NEW r \in Requests,
           NEW client \in Clients, NEW scheme \in {"none", "garbled", "exact"},
           NEW g,
           g = ProbeSet(f, r, client, scheme)
    PROVE  /\ OthersAsIn(f, g, r)
           /\ g[r].at = "arrived"
           /\ g[r].client = client
           /\ g[r].header.scheme = scheme /\ g[r].header.total = f[r].header.total
           /\ g[r].code = f[r].code
           /\ g[r].pieces = f[r].pieces
           /\ g[r].seen = f[r].seen
  <1> DEFINE q == [f[r] EXCEPT !.client = client, !.at = "arrived", !.header.scheme = scheme]
  <1>1. f[r] \in RequestType
    OBVIOUS
  <1>2. q \in RequestType
    BY <1>1 DEF RequestType, Places, Headers
  <1>3. /\ q.at = "arrived"
        /\ q.client = client
        /\ q.header.scheme = scheme /\ q.header.total = f[r].header.total
        /\ q.code = f[r].code
        /\ q.pieces = f[r].pieces
        /\ q.seen = f[r].seen
    BY <1>1 DEF RequestType, Headers
  <1>4. g = [f EXCEPT ![r] = q]
    BY DEF ProbeSet
  <1>5. OthersAsIn(f, [f EXCEPT ![r] = q], r) /\ [f EXCEPT ![r] = q][r] = q
    <2> HIDE DEF q
    <2> QED BY <1>2, RequestChanged
  <1>6. OthersAsIn(f, g, r) /\ g[r] = q
    <2> HIDE DEF q
    <2> QED BY <1>4, <1>5
  <1> HIDE DEF q
  <1> QED BY <1>3, <1>6

(* It comes with a payment.                                                 *)
HeaderSet(f, r, h) ==
    [f EXCEPT ![r].at = "arrived", ![r].code = NoCode, ![r].header = h]

LEMMA PaysWith ==
    ASSUME NEW f \in [Requests -> RequestType], NEW r \in Requests,
           NEW h \in Headers,
           NEW g,
           g = HeaderSet(f, r, h)
    PROVE  /\ OthersAsIn(f, g, r)
           /\ g[r].at = "arrived"
           /\ g[r].client = f[r].client
           /\ g[r].header = h
           /\ g[r].code = NoCode
           /\ g[r].pieces = f[r].pieces
           /\ g[r].seen = f[r].seen
  <1> DEFINE q == [f[r] EXCEPT !.at = "arrived", !.code = NoCode, !.header = h]
  <1>1. f[r] \in RequestType
    OBVIOUS
  <1>2. q \in RequestType
    BY <1>1 DEF RequestType, Places
  <1>3. /\ q.at = "arrived"
        /\ q.client = f[r].client
        /\ q.header = h
        /\ q.code = NoCode
        /\ q.pieces = f[r].pieces
        /\ q.seen = f[r].seen
    BY <1>1 DEF RequestType
  <1>4. g = [f EXCEPT ![r] = q]
    BY DEF HeaderSet
  <1>5. OthersAsIn(f, [f EXCEPT ![r] = q], r) /\ [f EXCEPT ![r] = q][r] = q
    <2> HIDE DEF q
    <2> QED BY <1>2, RequestChanged
  <1>6. OthersAsIn(f, g, r) /\ g[r] = q
    <2> HIDE DEF q
    <2> QED BY <1>4, <1>5
  <1> HIDE DEF q
  <1> QED BY <1>3, <1>6

(* Its body grows.                                                          *)
BodySet(f, r, p, s) ==
    [f EXCEPT ![r].pieces = p, ![r].seen = s]

LEMMA WritesTo ==
    ASSUME NEW f \in [Requests -> RequestType], NEW r \in Requests,
           NEW p \in Seq(Pieces), NEW s \in Seq(Pieces),
           NEW g,
           g = BodySet(f, r, p, s)
    PROVE  /\ OthersAsIn(f, g, r)
           /\ g[r].at = f[r].at
           /\ g[r].client = f[r].client
           /\ g[r].header = f[r].header
           /\ g[r].code = f[r].code
           /\ g[r].pieces = p
           /\ g[r].seen = s
  <1> DEFINE q == [f[r] EXCEPT !.pieces = p, !.seen = s]
  <1>1. f[r] \in RequestType
    OBVIOUS
  <1>2. q \in RequestType
    BY <1>1 DEF RequestType
  <1>3. /\ q.at = f[r].at
        /\ q.client = f[r].client
        /\ q.header = f[r].header
        /\ q.code = f[r].code
        /\ q.pieces = p
        /\ q.seen = s
    BY <1>1 DEF RequestType
  <1>4. g = [f EXCEPT ![r] = q]
    BY DEF BodySet
  <1>5. OthersAsIn(f, [f EXCEPT ![r] = q], r) /\ [f EXCEPT ![r] = q][r] = q
    <2> HIDE DEF q
    <2> QED BY <1>2, RequestChanged
  <1>6. OthersAsIn(f, g, r) /\ g[r] = q
    <2> HIDE DEF q
    <2> QED BY <1>4, <1>5
  <1> HIDE DEF q
  <1> QED BY <1>3, <1>6

(* Its body is whole.                                                       *)
WholeSet(f, r, p, s) ==
    [f EXCEPT ![r].at = "served", ![r].pieces = p, ![r].seen = s]

LEMMA FinishesWith ==
    ASSUME NEW f \in [Requests -> RequestType], NEW r \in Requests,
           NEW p \in Seq(Pieces), NEW s \in Seq(Pieces),
           NEW g,
           g = WholeSet(f, r, p, s)
    PROVE  /\ OthersAsIn(f, g, r)
           /\ g[r].at = "served"
           /\ g[r].client = f[r].client
           /\ g[r].header = f[r].header
           /\ g[r].code = f[r].code
           /\ g[r].pieces = p
           /\ g[r].seen = s
  <1> DEFINE q == [f[r] EXCEPT !.at = "served", !.pieces = p, !.seen = s]
  <1>1. f[r] \in RequestType
    OBVIOUS
  <1>2. q \in RequestType
    BY <1>1 DEF RequestType, Places
  <1>3. /\ q.at = "served"
        /\ q.client = f[r].client
        /\ q.header = f[r].header
        /\ q.code = f[r].code
        /\ q.pieces = p
        /\ q.seen = s
    BY <1>1 DEF RequestType
  <1>4. g = [f EXCEPT ![r] = q]
    BY DEF WholeSet
  <1>5. OthersAsIn(f, [f EXCEPT ![r] = q], r) /\ [f EXCEPT ![r] = q][r] = q
    <2> HIDE DEF q
    <2> QED BY <1>2, RequestChanged
  <1>6. OthersAsIn(f, g, r) /\ g[r] = q
    <2> HIDE DEF q
    <2> QED BY <1>4, <1>5
  <1> HIDE DEF q
  <1> QED BY <1>3, <1>6

(* Its body is an error.                                                    *)
ThrownSet(f, r, p, s) ==
    [f EXCEPT ![r].at = "served", ![r].code = "INTERNAL", ![r].pieces = p, ![r].seen = s]

LEMMA ThrowsWith ==
    ASSUME NEW f \in [Requests -> RequestType], NEW r \in Requests,
           NEW p \in Seq(Pieces), NEW s \in Seq(Pieces),
           NEW g,
           g = ThrownSet(f, r, p, s)
    PROVE  /\ OthersAsIn(f, g, r)
           /\ g[r].at = "served"
           /\ g[r].client = f[r].client
           /\ g[r].header = f[r].header
           /\ g[r].code = "INTERNAL"
           /\ g[r].pieces = p
           /\ g[r].seen = s
  <1> DEFINE q == [f[r] EXCEPT !.at = "served", !.code = "INTERNAL", !.pieces = p, !.seen = s]
  <1>1. f[r] \in RequestType
    OBVIOUS
  <1>2. q \in RequestType
    BY <1>1 DEF RequestType, Places, Codes
  <1>3. /\ q.at = "served"
        /\ q.client = f[r].client
        /\ q.header = f[r].header
        /\ q.code = "INTERNAL"
        /\ q.pieces = p
        /\ q.seen = s
    BY <1>1 DEF RequestType
  <1>4. g = [f EXCEPT ![r] = q]
    BY DEF ThrownSet
  <1>5. OthersAsIn(f, [f EXCEPT ![r] = q], r) /\ [f EXCEPT ![r] = q][r] = q
    <2> HIDE DEF q
    <2> QED BY <1>2, RequestChanged
  <1>6. OthersAsIn(f, g, r) /\ g[r] = q
    <2> HIDE DEF q
    <2> QED BY <1>4, <1>5
  <1> HIDE DEF q
  <1> QED BY <1>3, <1>6

-----------------------------------------------------------------------------
(* A step is a step of one request, which keeps its part of the invariant.  *)

Local(r) == Stage(r) /\ Paying(r) /\ Bodies(r)

OthersKeep(r) ==
    /\ OthersAsIn(request, request', r)
    /\ \A q \in Requests \ {r} : /\ PaymentsOf(q)' = PaymentsOf(q)
                                 /\ attested'[q] = attested[q]
                                 /\ q \in lost' <=> q \in lost

Advances(r) == GatewayTyped' /\ OthersKeep(r) /\ Local(r)'

(* Verdicts on the total of a voucher.                                      *)
Disputes == {"VOUCHER_UNDERPAID", "VOUCHER_NOT_INCREASING"}

HeaderStays(r) ==
    request'[r].header = request[r].header /\ request'[r].client = request[r].client

SaysNothing(r) == request'[r].code # request[r].code => request'[r].code \notin Disputes

(* The verdict on a voucher that is refused.                                *)
Judged(r) ==
    /\ request[r].header.scheme = "channel" /\ UNCHANGED <<accepted, payments>>
    /\ PaymentsOf(r) = {}
    /\ TotalVerdict(r) # "ok" /\ request'[r].code = TotalVerdict(r)

(* What is paid in a step.                                                  *)
Money(r) ==
    \/ UNCHANGED <<accepted, payments>>
    \/ request[r].header.scheme = "channel" /\ TotalVerdict(r) = "ok" /\ Accepts(r)
    \/ /\ request[r].header.scheme # "channel" /\ UNCHANGED accepted
       /\ payments' = payments \cup {[by |-> r, amount |-> chargeFor(r)]}

(* The parts of a request, in a state of the types.                         *)
LEMMA RequestTypes ==
    ASSUME GatewayTyped
    PROVE  /\ request \in [Requests -> RequestType]
           /\ \A r \in Requests :
                 /\ request[r].at \in Places /\ request[r].client \in Clients \cup {"none"}
                 /\ request[r].header.scheme \in {"none", "garbled", "channel", "exact"}
                 /\ request[r].header.total \in Nat
                 /\ request[r].code \in Codes \cup {NoCode}
                 /\ request[r].pieces \in Seq(Pieces) /\ request[r].seen \in Seq(Pieces)
  BY DEF GatewayTyped, RequestType, Headers

(* The types, put together again.                                           *)
LEMMA TypedAgain ==
    ASSUME GatewayTyped, request' \in [Requests -> RequestType],
           signedTotal' \in Nat, accepted' \in Nat,
           payments' \subseteq [by : Requests, amount : Nat],
           attested' \in [Requests -> SUBSET Seq(Pieces)], lost' \subseteq Requests
    PROVE  GatewayTyped'
  BY DEF GatewayTyped, RequestType, Headers

(* Nothing but the request changes, and perhaps what was lost.              *)
LEMMA NothingPaid ==
    ASSUME NEW r \in Requests, GatewayTyped, OthersAsIn(request, request', r),
           UNCHANGED <<accepted, payments>>, signedTotal' \in Nat,
           attested' = attested \/ (\E b \in Seq(Pieces) : attested' = Attests(r, b)),
           lost' = lost \/ lost' = lost \cup {r}
    PROVE  /\ GatewayTyped' /\ OthersKeep(r)
           /\ PaymentsOf(r)' = PaymentsOf(r) /\ PaidOnce(r)' = PaidOnce(r)
           /\ r \in lost => r \in lost'
  <1>1. lost' \subseteq Requests /\ \A q \in Requests \ {r} : q \in lost' <=> q \in lost
    BY DEF GatewayTyped
  <1>2. /\ attested' \in [Requests -> SUBSET Seq(Pieces)]
        /\ \A q \in Requests \ {r} : attested'[q] = attested[q]
    <2>1. attested \in [Requests -> SUBSET Seq(Pieces)]
      BY DEF GatewayTyped
    <2>2. ASSUME NEW b \in Seq(Pieces), attested' = Attests(r, b)
          PROVE  /\ attested' \in [Requests -> SUBSET Seq(Pieces)]
                 /\ \A q \in Requests \ {r} : attested'[q] = attested[q]
      <3>1. attested[r] \cup {b} \in SUBSET Seq(Pieces)
        BY <2>1
      <3> DEFINE bodies == attested[r] \cup {b}
      <3>2. attested' = [attested EXCEPT ![r] = bodies]
        BY <2>2 DEF Attests
      <3> HIDE DEF bodies
      <3>3. bodies \in SUBSET Seq(Pieces)
        BY <3>1 DEF bodies
      <3> QED BY <2>1, <3>2, <3>3
    <2> QED BY <2>1, <2>2
  <1>3. GatewayTyped'
    <2>1. request' \in [Requests -> RequestType]
      BY DEF OthersAsIn
    <2>2. accepted' \in Nat /\ payments' \subseteq [by : Requests, amount : Nat]
      BY DEF GatewayTyped
    <2> QED BY <2>1, <2>2, <1>1, <1>2, TypedAgain
  <1>4. \A q \in Requests : PaymentsOf(q)' = PaymentsOf(q)
    BY DEF PaymentsOf
  <1>5. PaidOnce(r)' = PaidOnce(r)
    BY <1>4 DEF PaidOnce, chargeFor
  <1> QED BY <1>1, <1>2, <1>3, <1>4, <1>5 DEF OthersKeep

(* One payment more, worth the charge, of a request that was not paid.      *)
LEMMA IsPaid ==
    ASSUME NEW r \in Requests, GatewayTyped, OthersAsIn(request, request', r),
           PaymentsOf(r) = {}, NEW amount \in Nat, amount >= chargeFor(r),
           payments' = payments \cup {[by |-> r, amount |-> amount]},
           accepted' \in Nat, UNCHANGED <<signedTotal, attested, lost>>
    PROVE  /\ GatewayTyped' /\ OthersKeep(r) /\ PaidOnce(r)'
           /\ PaymentsOf(r)' = {[by |-> r, amount |-> amount]}
  <1> DEFINE p == [by |-> r, amount |-> amount]
  <1>1. p \in [by : Requests, amount : Nat] /\ p.by = r /\ p.amount = amount
    OBVIOUS
  <1> HIDE DEF p
  <1>2. payments' = payments \cup {p}
    BY DEF p
  <1>3. PaymentsOf(r)' = {p}
    BY <1>1, <1>2 DEF PaymentsOf
  <1>4. \A q \in Requests \ {r} : PaymentsOf(q)' = PaymentsOf(q)
    BY <1>1, <1>2 DEF PaymentsOf
  <1>5. PaidOnce(r)'
    BY <1>1, <1>2, <1>3 DEF PaidOnce, chargeFor
  <1>6. GatewayTyped'
    BY <1>1, <1>2, TypedAgain DEF OthersAsIn, GatewayTyped
  <1> QED BY <1>3, <1>4, <1>5, <1>6 DEF OthersKeep, p

(* The first request: not paid, or with nothing of ours.                    *)
LEMMA ProbesStep ==
    ASSUME NEW r \in Requests, GatewayTyped, Local(r), NEW client \in Clients, Probes(r, client)
    PROVE  /\ Advances(r) /\ request'[r].code \notin Disputes
           /\ request[r].header.scheme # "channel" /\ request'[r].header.scheme # "channel"
           /\ request'[r].header.total = request[r].header.total
  <1> DEFINE scheme == IF client \in {"x402Fetch", "streamPaid"} THEN "none" ELSE client
  <1>0. scheme \in {"none", "garbled", "exact"}
    BY DEF Clients
  <1>r. request' = ProbeSet(request, r, client, scheme)
    BY DEF Probes, ProbeSet
  <1>g. request[r].at = "new"
    BY DEF Probes
  <1>1. /\ OthersAsIn(request, request', r)
        /\ request'[r].at = "arrived" /\ request'[r].client = client
        /\ request'[r].header.scheme \in {"none", "garbled", "exact"}
        /\ request'[r].header.total = request[r].header.total
        /\ request'[r].code = request[r].code
        /\ request'[r].pieces = request[r].pieces /\ request'[r].seen = request[r].seen
    <2> HIDE DEF scheme
    <2> QED BY <1>0, <1>r, RequestTypes, ProbesWith
  <1> HIDE DEF scheme
  <1>2. /\ GatewayTyped' /\ OthersKeep(r)
        /\ PaymentsOf(r)' = PaymentsOf(r) /\ PaidOnce(r)' = PaidOnce(r)
        /\ attested'[r] = attested[r] /\ (r \in lost => r \in lost')
    BY <1>1, NothingPaid DEF Probes, GatewayTyped
  <1>3. Stage(r)'
    BY <1>g, <1>1, RequestTypes, GatewayAssumption DEF Local, Stage, Ours, Codes
  <1>4. Paying(r)'
    BY <1>g, <1>1, <1>2, RequestTypes DEF Local, Stage, Paying
  <1>5. Bodies(r)'
    BY <1>g, <1>1, <1>2, RequestTypes DEF Local, Bodies, AllText
  <1>6. /\ request[r].header.scheme # "channel" /\ request'[r].header.scheme # "channel"
        /\ request'[r].header.total = request[r].header.total /\ request'[r].code \notin Disputes
    BY <1>g, <1>1, GatewayAssumption DEF Local, Stage, Disputes, Codes
  <1> QED BY <1>2, <1>3, <1>4, <1>5, <1>6 DEF Advances, Local

(* A voucher of the next total.                                             *)
LEMMA PaysStep ==
    ASSUME NEW r \in Requests, GatewayTyped, Local(r), PaysNow(r)
    PROVE  /\ Advances(r) /\ request'[r].code \notin Disputes /\ PaymentsOf(r) = {}
           /\ request[r].header.scheme # "channel" /\ request'[r].header.scheme = "channel"
           /\ request'[r].header.total = signedTotal' /\ request'[r].client = request[r].client
  <1> DEFINE h == [scheme |-> "channel", total |-> signedTotal']
  <1>0. signedTotal' \in Nat /\ signedTotal' > 0 /\ h \in Headers
    BY AsksType DEF PaysNow, Signs, GatewayTyped, Headers
  <1>r. request' = HeaderSet(request, r, h)
    BY DEF PaysNow, HeaderSet
  <1>g. /\ request[r].at = "answered" /\ request[r].code = "PAYMENT_REQUIRED"
        /\ request[r].client \in Ours
    BY DEF PaysNow, Ours
  <1>1. /\ OthersAsIn(request, request', r)
        /\ request'[r].at = "arrived" /\ request'[r].client = request[r].client
        /\ request'[r].header.scheme = "channel" /\ request'[r].header.total > 0
        /\ request'[r].header.total = signedTotal'
        /\ request'[r].code = NoCode
        /\ request'[r].pieces = request[r].pieces /\ request'[r].seen = request[r].seen
    BY <1>0, <1>r, RequestTypes, PaysWith
  <1>2. /\ GatewayTyped' /\ OthersKeep(r)
        /\ PaymentsOf(r)' = PaymentsOf(r) /\ PaidOnce(r)' = PaidOnce(r)
        /\ attested'[r] = attested[r]
    BY <1>0, <1>1, NothingPaid DEF PaysNow
  <1>3. Stage(r)'
    BY <1>g, <1>1, RequestTypes, GatewayAssumption DEF Local, Stage, Ours, Codes
  <1>4. Paying(r)'
    BY <1>g, <1>1, <1>2, RequestTypes DEF Local, Stage, Paying
  <1>5. Bodies(r)'
    BY <1>g, <1>1, <1>2, RequestTypes DEF Local, Bodies, AllText
  <1>6. /\ request[r].header.scheme # "channel" /\ request'[r].header.scheme = "channel"
        /\ request'[r].header.total = signedTotal' /\ request'[r].client = request[r].client
        /\ request'[r].code \notin Disputes /\ PaymentsOf(r) = {}
    BY <1>g, <1>1, GatewayAssumption DEF Local, Stage, Paying, Disputes, Codes
  <1> QED BY <1>2, <1>3, <1>4, <1>5, <1>6 DEF Advances, Local

(* The deposit is used up.                                                  *)
LEMMA GivesUpStep ==
    ASSUME NEW r \in Requests, GatewayTyped, Local(r), GivesUp(r)
    PROVE  Advances(r) /\ HeaderStays(r) /\ SaysNothing(r)
  <1>r. request' = AnswerSet(request, r, "over", "CHANNEL_EXHAUSTED")
    BY DEF GivesUp, AnswerSet
  <1>g. request[r].at = "answered" /\ request[r].code = "PAYMENT_REQUIRED"
    BY DEF GivesUp
  <1>c. "over" \in Places /\ "CHANNEL_EXHAUSTED" \in Codes \cup {NoCode}
    BY DEF Places, Codes
  <1>1. /\ OthersAsIn(request, request', r)
        /\ request'[r].at = "over"
        /\ request'[r].code = "CHANNEL_EXHAUSTED"
        /\ request'[r].client = request[r].client /\ request'[r].header = request[r].header
        /\ request'[r].pieces = request[r].pieces /\ request'[r].seen = request[r].seen
    BY <1>c, <1>g, <1>r, RequestTypes, AnswersTo
  <1>2. /\ GatewayTyped' /\ OthersKeep(r)
        /\ PaymentsOf(r)' = PaymentsOf(r) /\ PaidOnce(r)' = PaidOnce(r)
        /\ attested'[r] = attested[r] /\ (r \in lost => r \in lost')
    BY <1>1, NothingPaid DEF GivesUp, GatewayTyped
  <1>3. Stage(r)'
    BY <1>g, <1>1, RequestTypes DEF Local, Stage, Ours, Codes
  <1>4. Paying(r)'
    BY <1>g, <1>1, <1>2, RequestTypes DEF Local, Stage, Paying
  <1>5. Bodies(r)'
    BY <1>g, <1>1, <1>2, RequestTypes DEF Local, Bodies, AllText
  <1>6. HeaderStays(r) /\ SaysNothing(r)
    BY <1>1 DEF HeaderStays, SaysNothing, Disputes
  <1> QED BY <1>2, <1>3, <1>4, <1>5, <1>6 DEF Advances, Local

(* The offers.                                                              *)
LEMMA UnpaidStep ==
    ASSUME NEW r \in Requests, GatewayTyped, Local(r), Unpaid(r)
    PROVE  Advances(r) /\ HeaderStays(r) /\ SaysNothing(r)
  <1> DEFINE code == IF request[r].header.scheme = "none" THEN "PAYMENT_REQUIRED"
                     ELSE "PAYMENT_MALFORMED"
  <1>0. code \in Codes
    BY DEF Codes
  <1>r. request' = AnswerSet(request, r, "answered", code)
    BY DEF Unpaid, AnswersWith, AnswerSet
  <1>g. request[r].at = "arrived" /\ request[r].header.scheme \in {"none", "garbled"}
    BY DEF Unpaid, AnswersWith
  <1>c. "answered" \in Places /\ code \in Codes \cup {NoCode}
    BY <1>0 DEF Places
  <1>1. /\ OthersAsIn(request, request', r)
        /\ request'[r].at = "answered"
        /\ request'[r].code = code
        /\ request'[r].client = request[r].client /\ request'[r].header = request[r].header
        /\ request'[r].pieces = request[r].pieces /\ request'[r].seen = request[r].seen
    BY <1>c, <1>g, <1>r, RequestTypes, AnswersTo
  <1>2. /\ GatewayTyped' /\ OthersKeep(r)
        /\ PaymentsOf(r)' = PaymentsOf(r) /\ PaidOnce(r)' = PaidOnce(r)
        /\ attested'[r] = attested[r] /\ (r \in lost => r \in lost')
    BY <1>1, NothingPaid DEF Unpaid, GatewayTyped
  <1>3. Stage(r)'
    BY <1>g, <1>1, RequestTypes DEF Local, Stage, Ours, Codes
  <1>4. Paying(r)'
    BY <1>g, <1>1, <1>2, RequestTypes DEF Local, Stage, Paying
  <1>5. Bodies(r)'
    BY <1>g, <1>1, <1>2, RequestTypes DEF Local, Bodies, AllText
  <1>6. HeaderStays(r) /\ SaysNothing(r)
    BY <1>1 DEF HeaderStays, SaysNothing, Disputes
  <1> QED BY <1>2, <1>3, <1>4, <1>5, <1>6 DEF Advances, Local

(* The payment is refused at once, or goes to the facilitator.              *)
LEMMA AsksStep ==
    ASSUME NEW r \in Requests, GatewayTyped, Local(r), AsksFacilitator(r)
    PROVE  Advances(r) /\ HeaderStays(r) /\ SaysNothing(r)
  <1>a. CASE request[r].header.scheme \notin Offer(r).schemes
    <2>r. request' = AnswerSet(request, r, "answered", "PAYMENT_MALFORMED")
      BY <1>a DEF AsksFacilitator, AnswersWith, AnswerSet
    <2>g. request[r].at = "arrived" /\ request[r].header.scheme \in {"channel", "exact"}
      BY DEF AsksFacilitator, AnswersWith
    <2>c. "answered" \in Places /\ "PAYMENT_MALFORMED" \in Codes \cup {NoCode}
      BY DEF Places, Codes
    <2>1. /\ OthersAsIn(request, request', r)
          /\ request'[r].at = "answered"
          /\ request'[r].code = "PAYMENT_MALFORMED"
          /\ request'[r].client = request[r].client /\ request'[r].header = request[r].header
          /\ request'[r].pieces = request[r].pieces /\ request'[r].seen = request[r].seen
      BY <2>c, <2>g, <2>r, RequestTypes, AnswersTo
    <2>2. /\ GatewayTyped' /\ OthersKeep(r)
          /\ PaymentsOf(r)' = PaymentsOf(r) /\ PaidOnce(r)' = PaidOnce(r)
          /\ attested'[r] = attested[r] /\ (r \in lost => r \in lost')
      BY <2>1, NothingPaid DEF AsksFacilitator, GatewayTyped
    <2>3. Stage(r)'
      BY <2>g, <2>1, RequestTypes DEF Local, Stage, Ours, Codes
    <2>4. Paying(r)'
      BY <2>g, <2>1, <2>2, RequestTypes DEF Local, Stage, Paying
    <2>5. Bodies(r)'
      BY <2>g, <2>1, <2>2, RequestTypes DEF Local, Bodies, AllText
    <2>6. HeaderStays(r) /\ SaysNothing(r)
      BY <2>1 DEF HeaderStays, SaysNothing, Disputes
    <2> QED BY <2>2, <2>3, <2>4, <2>5, <2>6 DEF Advances, Local
  <1>b. CASE request[r].header.scheme \in Offer(r).schemes
    <2>r. request' = PlaceSet(request, r, "verify")
      BY <1>b DEF AsksFacilitator, Proceeds, PlaceSet
    <2>g. request[r].at = "arrived" /\ request[r].header.scheme \in {"channel", "exact"}
      BY DEF AsksFacilitator
    <2>1. /\ OthersAsIn(request, request', r)
          /\ request'[r].at = "verify"
          /\ request'[r].client = request[r].client /\ request'[r].header = request[r].header
          /\ request'[r].code = request[r].code
          /\ request'[r].pieces = request[r].pieces /\ request'[r].seen = request[r].seen
      BY <2>g, <2>r, RequestTypes, MovesTo DEF Places
    <2>2. /\ GatewayTyped' /\ OthersKeep(r)
          /\ PaymentsOf(r)' = PaymentsOf(r) /\ PaidOnce(r)' = PaidOnce(r)
          /\ attested'[r] = attested[r] /\ (r \in lost => r \in lost')
      BY <2>1, NothingPaid DEF AsksFacilitator, GatewayTyped
    <2>3. Stage(r)'
      BY <2>g, <2>1, RequestTypes DEF Local, Stage, Ours, Codes
    <2>4. Paying(r)'
      BY <2>g, <2>1, <2>2, RequestTypes DEF Local, Stage, Paying
    <2>5. Bodies(r)'
      BY <2>g, <2>1, <2>2, RequestTypes DEF Local, Bodies, AllText
    <2>6. HeaderStays(r) /\ SaysNothing(r)
      BY <2>1 DEF HeaderStays, SaysNothing, Disputes
    <2> QED BY <2>2, <2>3, <2>4, <2>5, <2>6 DEF Advances, Local
  <1> QED BY <1>a, <1>b

(* A call that gets no answer.                                              *)
LEMMA CallFailsStep ==
    ASSUME NEW r \in Requests, GatewayTyped, Local(r), CallFails(r)
    PROVE  Advances(r) /\ HeaderStays(r) /\ SaysNothing(r)
  <1>r. request' = AnswerSet(request, r, "answered", "FACILITATOR_UNAVAILABLE")
    BY DEF CallFails, AnswersWith, AnswerSet
  <1>g. request[r].at \in {"verify", "verified", "settle", "settled"}
    BY DEF CallFails, AnswersWith
  <1>c. "answered" \in Places /\ "FACILITATOR_UNAVAILABLE" \in Codes \cup {NoCode}
    BY DEF Places, Codes
  <1>1. /\ OthersAsIn(request, request', r)
        /\ request'[r].at = "answered"
        /\ request'[r].code = "FACILITATOR_UNAVAILABLE"
        /\ request'[r].client = request[r].client /\ request'[r].header = request[r].header
        /\ request'[r].pieces = request[r].pieces /\ request'[r].seen = request[r].seen
    BY <1>c, <1>g, <1>r, RequestTypes, AnswersTo
  <1>2. /\ GatewayTyped' /\ OthersKeep(r)
        /\ PaymentsOf(r)' = PaymentsOf(r) /\ PaidOnce(r)' = PaidOnce(r)
        /\ attested'[r] = attested[r] /\ r \in lost'
    BY <1>1, NothingPaid DEF CallFails, GatewayTyped
  <1>3. Stage(r)'
    BY <1>g, <1>1, RequestTypes DEF Local, Stage, Ours, Codes
  <1>4. Paying(r)'
    BY <1>g, <1>1, <1>2, RequestTypes DEF Local, Stage, Paying
  <1>5. Bodies(r)'
    BY <1>g, <1>1, <1>2, RequestTypes DEF Local, Bodies, AllText
  <1>6. HeaderStays(r) /\ SaysNothing(r)
    BY <1>1 DEF HeaderStays, SaysNothing, Disputes
  <1> QED BY <1>2, <1>3, <1>4, <1>5, <1>6 DEF Advances, Local

(* The receipt.                                                             *)
LEMMA ReceiptStep ==
    ASSUME NEW r \in Requests, GatewayTyped, Local(r), ReceiptComes(r)
    PROVE  Advances(r) /\ HeaderStays(r) /\ SaysNothing(r)
  <1>r. request' = PlaceSet(request, r,
                            IF request[r].header.scheme = "exact" THEN "settle" ELSE "paid")
    BY DEF ReceiptComes, Proceeds, PlaceSet
  <1>g. request[r].at = "verified"
    BY DEF ReceiptComes
  <1>1. /\ OthersAsIn(request, request', r)
        /\ request'[r].at = (IF request[r].header.scheme = "exact" THEN "settle" ELSE "paid")
        /\ request'[r].client = request[r].client /\ request'[r].header = request[r].header
        /\ request'[r].code = request[r].code
        /\ request'[r].pieces = request[r].pieces /\ request'[r].seen = request[r].seen
    BY <1>g, <1>r, RequestTypes, MovesTo DEF Places
  <1>2. /\ GatewayTyped' /\ OthersKeep(r)
        /\ PaymentsOf(r)' = PaymentsOf(r) /\ PaidOnce(r)' = PaidOnce(r)
        /\ attested'[r] = attested[r] /\ (r \in lost => r \in lost')
    BY <1>1, NothingPaid DEF ReceiptComes, GatewayTyped
  <1>3. Stage(r)'
    BY <1>g, <1>1, RequestTypes DEF Local, Stage, Ours, Codes
  <1>4. Paying(r)'
    BY <1>g, <1>1, <1>2, RequestTypes DEF Local, Stage, Paying
  <1>5. Bodies(r)'
    BY <1>g, <1>1, <1>2, RequestTypes DEF Local, Bodies, AllText
  <1>6. HeaderStays(r) /\ SaysNothing(r)
    BY <1>1 DEF HeaderStays, SaysNothing, Disputes
  <1> QED BY <1>2, <1>3, <1>4, <1>5, <1>6 DEF Advances, Local

(* The settlement.                                                          *)
LEMMA SettlementStep ==
    ASSUME NEW r \in Requests, GatewayTyped, Local(r), SettlementComes(r)
    PROVE  Advances(r) /\ HeaderStays(r) /\ SaysNothing(r)
  <1>r. request' = PlaceSet(request, r, "paid")
    BY DEF SettlementComes, Proceeds, PlaceSet
  <1>g. request[r].at = "settled"
    BY DEF SettlementComes
  <1>1. /\ OthersAsIn(request, request', r)
        /\ request'[r].at = "paid"
        /\ request'[r].client = request[r].client /\ request'[r].header = request[r].header
        /\ request'[r].code = request[r].code
        /\ request'[r].pieces = request[r].pieces /\ request'[r].seen = request[r].seen
    BY <1>g, <1>r, RequestTypes, MovesTo DEF Places
  <1>2. /\ GatewayTyped' /\ OthersKeep(r)
        /\ PaymentsOf(r)' = PaymentsOf(r) /\ PaidOnce(r)' = PaidOnce(r)
        /\ attested'[r] = attested[r] /\ (r \in lost => r \in lost')
    BY <1>1, NothingPaid DEF SettlementComes, GatewayTyped
  <1>3. Stage(r)'
    BY <1>g, <1>1, RequestTypes DEF Local, Stage, Ours, Codes
  <1>4. Paying(r)'
    BY <1>g, <1>1, <1>2, RequestTypes DEF Local, Stage, Paying
  <1>5. Bodies(r)'
    BY <1>g, <1>1, <1>2, RequestTypes DEF Local, Bodies, AllText
  <1>6. HeaderStays(r) /\ SaysNothing(r)
    BY <1>1 DEF HeaderStays, SaysNothing, Disputes
  <1> QED BY <1>2, <1>3, <1>4, <1>5, <1>6 DEF Advances, Local

(* The refusal.                                                             *)
LEMMA RefusalStep ==
    ASSUME NEW r \in Requests, GatewayTyped, Local(r), RefusalComes(r)
    PROVE  Advances(r) /\ HeaderStays(r) /\ SaysNothing(r)
  <1>r. request' = PlaceSet(request, r, "answered")
    BY DEF RefusalComes, Proceeds, PlaceSet
  <1>g. request[r].at = "refused"
    BY DEF RefusalComes
  <1>1. /\ OthersAsIn(request, request', r)
        /\ request'[r].at = "answered"
        /\ request'[r].client = request[r].client /\ request'[r].header = request[r].header
        /\ request'[r].code = request[r].code
        /\ request'[r].pieces = request[r].pieces /\ request'[r].seen = request[r].seen
    BY <1>g, <1>r, RequestTypes, MovesTo DEF Places
  <1>2. /\ GatewayTyped' /\ OthersKeep(r)
        /\ PaymentsOf(r)' = PaymentsOf(r) /\ PaidOnce(r)' = PaidOnce(r)
        /\ attested'[r] = attested[r] /\ (r \in lost => r \in lost')
    BY <1>1, NothingPaid DEF RefusalComes, GatewayTyped
  <1>3. Stage(r)'
    BY <1>g, <1>1, RequestTypes DEF Local, Stage, Ours, Codes
  <1>4. Paying(r)'
    BY <1>g, <1>1, <1>2, RequestTypes DEF Local, Stage, Paying
  <1>5. Bodies(r)'
    BY <1>g, <1>1, <1>2, RequestTypes DEF Local, Bodies, AllText
  <1>6. HeaderStays(r) /\ SaysNothing(r)
    BY <1>1 DEF HeaderStays, SaysNothing, Disputes
  <1> QED BY <1>2, <1>3, <1>4, <1>5, <1>6 DEF Advances, Local

(* The handler starts.                                                      *)
LEMMA HandlesStep ==
    ASSUME NEW r \in Requests, GatewayTyped, Local(r), Handles(r)
    PROVE  Advances(r) /\ HeaderStays(r) /\ SaysNothing(r)
  <1>r. request' = PlaceSet(request, r, "serving")
    BY DEF Handles, Proceeds, PlaceSet
  <1>g. request[r].at = "paid"
    BY DEF Handles
  <1>1. /\ OthersAsIn(request, request', r)
        /\ request'[r].at = "serving"
        /\ request'[r].client = request[r].client /\ request'[r].header = request[r].header
        /\ request'[r].code = request[r].code
        /\ request'[r].pieces = request[r].pieces /\ request'[r].seen = request[r].seen
    BY <1>g, <1>r, RequestTypes, MovesTo DEF Places
  <1>2. /\ GatewayTyped' /\ OthersKeep(r)
        /\ PaymentsOf(r)' = PaymentsOf(r) /\ PaidOnce(r)' = PaidOnce(r)
        /\ attested'[r] = attested[r] /\ (r \in lost => r \in lost')
    BY <1>1, NothingPaid DEF Handles, GatewayTyped
  <1>3. Stage(r)'
    BY <1>g, <1>1, RequestTypes DEF Local, Stage, Ours, Codes
  <1>4. Paying(r)'
    BY <1>g, <1>1, <1>2, RequestTypes DEF Local, Stage, Paying
  <1>5. Bodies(r)'
    BY <1>g, <1>1, <1>2, RequestTypes DEF Local, Bodies, AllText
  <1>6. HeaderStays(r) /\ SaysNothing(r)
    BY <1>1 DEF HeaderStays, SaysNothing, Disputes
  <1> QED BY <1>2, <1>3, <1>4, <1>5, <1>6 DEF Advances, Local

(* Text is seen as it is written.                                           *)
LEMMA SeenAsWritten ==
    ASSUME NEW r \in Requests, NEW p \in Seq(Pieces), NEW s \in Seq(Pieces), NEW piece \in Pieces,
           AllText(p) => s = p, AllText(Append(p, piece))
    PROVE  Captured(s, piece) = Append(p, piece)
  <1>1. /\ Len(Append(p, piece)) = Len(p) + 1 /\ Append(p, piece)[Len(p) + 1] = piece
        /\ \A i \in 1..Len(p) : Append(p, piece)[i] = p[i]
        /\ Len(p) + 1 \in 1..Len(p) + 1
    OBVIOUS
  <1>2. AllText(p) /\ piece # "bytes"
    <2>1. DOMAIN p = 1..Len(p) /\ DOMAIN Append(p, piece) = 1..Len(p) + 1 /\ Len(p) \in Nat
      OBVIOUS
    <2>2. \A i \in 1..Len(p) : i \in 1..Len(p) + 1
      BY <2>1
    <2> QED BY <1>1, <2>1, <2>2 DEF AllText
  <1> QED BY <1>2 DEF Captured

(* A piece of the body.                                                     *)
LEMMA WritesStep ==
    ASSUME NEW r \in Requests, GatewayTyped, Local(r), NEW piece \in Pieces, Writes(r, piece)
    PROVE  Advances(r) /\ HeaderStays(r) /\ SaysNothing(r)
  <1>0. /\ Append(request[r].pieces, piece) \in Seq(Pieces)
        /\ Captured(request[r].seen, piece) \in Seq(Pieces)
    BY RequestTypes DEF Pieces, Captured
  <1>p. PICK p \in Seq(Pieces), s \in Seq(Pieces) :
            p = Append(request[r].pieces, piece) /\ s = Captured(request[r].seen, piece)
    BY <1>0
  <1>q. p \in Seq(Pieces) /\ s \in Seq(Pieces)
    BY <1>p
  <1>r. request' = BodySet(request, r, p, s)
    BY <1>p DEF Writes, BodySet
  <1>g. request[r].at = "serving"
    BY DEF Writes
  <1>1. /\ OthersAsIn(request, request', r)
        /\ request'[r].at = request[r].at
        /\ request'[r].client = request[r].client /\ request'[r].header = request[r].header
        /\ request'[r].code = request[r].code
        /\ request'[r].pieces = p /\ request'[r].seen = s
    BY <1>q, <1>r, RequestTypes, WritesTo
  <1>2. /\ GatewayTyped' /\ OthersKeep(r)
        /\ PaymentsOf(r)' = PaymentsOf(r) /\ PaidOnce(r)' = PaidOnce(r)
        /\ attested'[r] = attested[r] /\ (r \in lost => r \in lost')
    BY <1>1, NothingPaid DEF Writes, GatewayTyped
  <1>3. Stage(r)'
    BY <1>g, <1>1, RequestTypes, GatewayAssumption DEF Local, Stage, Ours, Codes
  <1>4. Paying(r)'
    BY <1>g, <1>1, <1>2, RequestTypes DEF Local, Stage, Paying
  <1>5. Bodies(r)'
    <2>1. attested'[r] = {} /\ request'[r].at = "serving"
      BY <1>g, <1>1, <1>2 DEF Local, Bodies
    <2>2. AllText(request'[r].pieces) => request'[r].seen = request'[r].pieces
      BY <1>1, <1>p, RequestTypes, SeenAsWritten DEF Local, Bodies
    <2> QED BY <2>1, <2>2 DEF Bodies, AllText
  <1>6. HeaderStays(r) /\ SaysNothing(r)
    BY <1>1 DEF HeaderStays, SaysNothing, Disputes
  <1> QED BY <1>2, <1>3, <1>4, <1>5, <1>6 DEF Advances, Local

(* The end of the body.                                                     *)
LEMMA FinishesStep ==
    ASSUME NEW r \in Requests, GatewayTyped, Local(r), NEW piece \in Pieces, Finishes(r, piece)
    PROVE  Advances(r) /\ HeaderStays(r) /\ SaysNothing(r)
  <1>0. /\ Append(request[r].pieces, piece) \in Seq(Pieces)
        /\ Captured(request[r].seen, piece) \in Seq(Pieces)
    BY RequestTypes DEF Pieces, Captured
  <1>p. PICK p \in Seq(Pieces), s \in Seq(Pieces) :
            p = Append(request[r].pieces, piece) /\ s = Captured(request[r].seen, piece)
    BY <1>0
  <1>q. p \in Seq(Pieces) /\ s \in Seq(Pieces)
    BY <1>p
  <1>r. request' = WholeSet(request, r, p, s)
    BY <1>p DEF Finishes, WholeSet
  <1>g. request[r].at = "serving"
    BY DEF Finishes
  <1>1. /\ OthersAsIn(request, request', r)
        /\ request'[r].at = "served"
        /\ request'[r].client = request[r].client /\ request'[r].header = request[r].header
        /\ request'[r].code = request[r].code
        /\ request'[r].pieces = p /\ request'[r].seen = s
    BY <1>q, <1>r, RequestTypes, FinishesWith
  <1>a. attested' = attested \/ \E b \in Seq(Pieces) : attested' = Attests(r, b)
    BY <1>1, <1>p DEF Finishes
  <1>b. lost' = lost /\ signedTotal' \in Nat /\ UNCHANGED <<accepted, payments>>
    BY DEF Finishes, GatewayTyped
  <1>2. /\ GatewayTyped' /\ OthersKeep(r)
        /\ PaymentsOf(r)' = PaymentsOf(r) /\ PaidOnce(r)' = PaidOnce(r)
        /\ (r \in lost => r \in lost')
    BY <1>1, <1>a, <1>b, NothingPaid
  <1>3. Stage(r)'
    BY <1>g, <1>1, RequestTypes, GatewayAssumption DEF Local, Stage, Ours, Codes
  <1>4. Paying(r)'
    BY <1>g, <1>1, <1>2, RequestTypes DEF Local, Stage, Paying
  <1>5. Bodies(r)'
    <2>1. request'[r].at = "served"
      BY <1>1
    <2>2. AllText(request'[r].pieces) => request'[r].seen = request'[r].pieces
      BY <1>1, <1>p, RequestTypes, SeenAsWritten DEF Local, Bodies
    <2>3. r \notin Sliced /\ request'[r].header.scheme = "channel"
             => attested'[r] = {request'[r].seen}
      <3>1. attested[r] = {} /\ attested \in [Requests -> SUBSET Seq(Pieces)]
        BY <1>g DEF Local, Bodies, GatewayTyped
      <3> QED BY <1>1, <3>1 DEF Finishes, Attests
    <2> QED BY <2>1, <2>2, <2>3 DEF Bodies, AllText
  <1>6. HeaderStays(r) /\ SaysNothing(r)
    BY <1>1 DEF HeaderStays, SaysNothing, Disputes
  <1> QED BY <1>2, <1>3, <1>4, <1>5, <1>6 DEF Advances, Local

(* The handler throws at once, and the twin answers.                        *)
LEMMA ThrowsStep ==
    ASSUME NEW r \in Requests, GatewayTyped, Local(r), DemoThrows(r)
    PROVE  Advances(r) /\ HeaderStays(r) /\ SaysNothing(r)
  <1>0. <<"text">> \in Seq(Pieces) /\ <<"text">> \in Seq(Pieces)
    BY DEF Pieces
  <1>p. PICK p \in Seq(Pieces), s \in Seq(Pieces) : p = <<"text">> /\ s = <<"text">>
    BY <1>0
  <1>q. p \in Seq(Pieces) /\ s \in Seq(Pieces)
    BY <1>p
  <1>r. request' = ThrownSet(request, r, p, s)
    BY <1>p DEF DemoThrows, ThrownSet
  <1>g. request[r].at = "serving"
    BY DEF DemoThrows
  <1>1. /\ OthersAsIn(request, request', r)
        /\ request'[r].at = "served"
        /\ request'[r].client = request[r].client /\ request'[r].header = request[r].header
        /\ request'[r].code = "INTERNAL"
        /\ request'[r].pieces = p /\ request'[r].seen = s
    BY <1>q, <1>r, RequestTypes, ThrowsWith
  <1>a. attested' = attested \/ \E b \in Seq(Pieces) : attested' = Attests(r, b)
    BY <1>p DEF DemoThrows
  <1>b. lost' = lost /\ signedTotal' \in Nat /\ UNCHANGED <<accepted, payments>>
    BY DEF DemoThrows, GatewayTyped
  <1>2. /\ GatewayTyped' /\ OthersKeep(r)
        /\ PaymentsOf(r)' = PaymentsOf(r) /\ PaidOnce(r)' = PaidOnce(r)
        /\ (r \in lost => r \in lost')
    BY <1>1, <1>a, <1>b, NothingPaid
  <1>3. Stage(r)'
    BY <1>g, <1>1, RequestTypes, GatewayAssumption DEF Local, Stage, Ours, Codes
  <1>4. Paying(r)'
    BY <1>g, <1>1, <1>2, RequestTypes DEF Local, Stage, Paying
  <1>5. Bodies(r)'
    <2>1. request'[r].at = "served" /\ request'[r].seen = request'[r].pieces
      BY <1>1, <1>p
    <2>2. r \notin Sliced => attested'[r] = {request'[r].seen}
      <3>1. attested[r] = {} /\ attested \in [Requests -> SUBSET Seq(Pieces)]
        BY <1>g DEF Local, Bodies, GatewayTyped
      <3> QED BY <1>1, <1>p, <3>1 DEF DemoThrows, Attests
    <2> QED BY <2>1, <2>2 DEF Bodies, AllText
  <1>6. HeaderStays(r) /\ SaysNothing(r)
    BY <1>1 DEF HeaderStays, SaysNothing, Disputes
  <1> QED BY <1>2, <1>3, <1>4, <1>5, <1>6 DEF Advances, Local

(* A refusal: nothing is paid.                                              *)
LEMMA RefusesStep ==
    ASSUME NEW r \in Requests, GatewayTyped, Local(r),
           NEW code \in Codes, code # "PAYMENT_REQUIRED", PaymentsOf(r) = {},
           request[r].at \in {"arrived", "verify", "settle"},
           request[r].header.scheme \in {"channel", "exact"},
           UNCHANGED <<signedTotal, attested, lost>>, Refuses(r, code)
    PROVE  Advances(r) /\ HeaderStays(r) /\ request'[r].code = code
  <1>r. request' = AnswerSet(request, r, "refused", code)
    BY DEF Refuses, AnswerSet
  <1>c. "refused" \in Places
    BY DEF Places
  <1>1. /\ OthersAsIn(request, request', r)
        /\ request'[r].at = "refused" /\ request'[r].code = code
        /\ request'[r].client = request[r].client /\ request'[r].header = request[r].header
        /\ request'[r].pieces = request[r].pieces /\ request'[r].seen = request[r].seen
    BY <1>c, <1>r, RequestTypes, AnswersTo
  <1>2. /\ GatewayTyped' /\ OthersKeep(r)
        /\ PaymentsOf(r)' = PaymentsOf(r) /\ PaidOnce(r)' = PaidOnce(r)
        /\ attested'[r] = attested[r] /\ (r \in lost => r \in lost')
    BY <1>1, NothingPaid DEF Refuses, GatewayTyped
  <1>3. Stage(r)'
    BY <1>1, RequestTypes DEF Local, Stage, Ours, Codes
  <1>4. Paying(r)'
    BY <1>1, <1>2, RequestTypes DEF Local, Stage, Paying
  <1>5. Bodies(r)'
    BY <1>1, <1>2, RequestTypes DEF Local, Bodies, AllText
  <1>6. HeaderStays(r) /\ request'[r].code = code
    BY <1>1 DEF HeaderStays
  <1> QED BY <1>2, <1>3, <1>4, <1>5, <1>6 DEF Advances, Local

(* The voucher is accepted.                                                 *)
LEMMA AcceptsStep ==
    ASSUME NEW r \in Requests, GatewayTyped, Local(r),
           NEW at \in {"verified", "paid"}, PaymentsOf(r) = {},
           request[r].at \in {"arrived", "verify"}, request[r].header.scheme = "channel",
           TotalVerdict(r) = "ok", Accepts(r),
           UNCHANGED <<signedTotal, attested, lost>>, Proceeds(r, at)
    PROVE  Advances(r) /\ HeaderStays(r) /\ SaysNothing(r)
  <1>r. request' = PlaceSet(request, r, at)
    BY DEF Proceeds, PlaceSet
  <1>c. at \in Places
    BY DEF Places
  <1>1. /\ OthersAsIn(request, request', r)
        /\ request'[r].at = at /\ request'[r].code = request[r].code
        /\ request'[r].client = request[r].client /\ request'[r].header = request[r].header
        /\ request'[r].pieces = request[r].pieces /\ request'[r].seen = request[r].seen
    BY <1>c, <1>r, RequestTypes, MovesTo
  <1>a. /\ TotalOf(r) \in Nat /\ accepted \in Nat /\ accepted < TotalOf(r)
        /\ TotalOf(r) - accepted >= chargeFor(r)
    BY RequestTypes, ChargeIs DEF TotalVerdict, TotalOf, GatewayTyped
  <1>2. /\ GatewayTyped' /\ OthersKeep(r) /\ PaidOnce(r)' /\ attested'[r] = attested[r]
    <2>1. TotalOf(r) - accepted \in Nat
      BY <1>a
    <2>2. /\ payments' = payments \cup {[by |-> r, amount |-> TotalOf(r) - accepted]}
          /\ accepted' \in Nat
      BY <1>a DEF Accepts, TotalOf
    <2> QED BY <1>1, <1>a, <2>1, <2>2, IsPaid
  <1>3. Stage(r)'
    BY <1>1, RequestTypes DEF Local, Stage, Ours, Codes
  <1>4. Paying(r)'
    BY <1>1, <1>2, RequestTypes DEF Local, Stage, Paying
  <1>5. Bodies(r)'
    BY <1>1, <1>2, RequestTypes DEF Local, Bodies, AllText
  <1>6. HeaderStays(r) /\ SaysNothing(r)
    BY <1>1 DEF HeaderStays, SaysNothing, Disputes
  <1> QED BY <1>2, <1>3, <1>4, <1>5, <1>6 DEF Advances, Local

(* POST /verify.                                                            *)
LEMMA VerifiesStep ==
    ASSUME NEW r \in Requests, GatewayTyped, Local(r), FacilitatorVerifies(r)
    PROVE  Advances(r) /\ HeaderStays(r) /\ (SaysNothing(r) \/ Judged(r))
  <1>g. /\ request[r].at = "verify" /\ request[r].header.scheme \in {"channel", "exact"}
        /\ PaymentsOf(r) = {} /\ UNCHANGED <<signedTotal, attested, lost>>
    BY DEF FacilitatorVerifies, Local, Stage, Paying
  <1>a. CASE request[r].header.scheme = "exact" /\ Proceeds(r, "verified")
                /\ UNCHANGED <<accepted, payments>>
    <2>r. request' = PlaceSet(request, r, "verified")
      BY <1>a DEF Proceeds, PlaceSet
    <2>1. /\ OthersAsIn(request, request', r)
          /\ request'[r].at = "verified"
          /\ request'[r].client = request[r].client /\ request'[r].header = request[r].header
          /\ request'[r].code = request[r].code
          /\ request'[r].pieces = request[r].pieces /\ request'[r].seen = request[r].seen
      BY <2>r, RequestTypes, MovesTo DEF Places
    <2>2. /\ GatewayTyped' /\ OthersKeep(r)
          /\ PaymentsOf(r)' = PaymentsOf(r) /\ PaidOnce(r)' = PaidOnce(r)
          /\ attested'[r] = attested[r] /\ (r \in lost => r \in lost')
      BY <1>a, <1>g, <2>1, NothingPaid DEF GatewayTyped
    <2>3. Stage(r)'
      BY <1>a, <1>g, <2>1, RequestTypes DEF Local, Stage, Ours, Codes
    <2>4. Paying(r)'
      BY <1>a, <1>g, <2>1, <2>2, RequestTypes DEF Local, Stage, Paying
    <2>5. Bodies(r)'
      BY <1>g, <2>1, <2>2, RequestTypes DEF Local, Bodies, AllText
    <2>6. HeaderStays(r) /\ SaysNothing(r)
      BY <2>1 DEF HeaderStays, SaysNothing, Disputes
    <2> QED BY <2>2, <2>3, <2>4, <2>5, <2>6 DEF Advances, Local
  <1>b. CASE TotalVerdict(r) = "ok" /\ Accepts(r) /\ Proceeds(r, "verified")
             /\ request[r].header.scheme = "channel"
    BY <1>b, <1>g, AcceptsStep
  <1>c. CASE /\ request[r].header.scheme = "channel"
             /\ TotalVerdict(r) # "ok" /\ Refuses(r, TotalVerdict(r))
    <2>1. TotalVerdict(r) \in Codes /\ TotalVerdict(r) # "PAYMENT_REQUIRED"
      BY <1>c DEF TotalVerdict, Codes
    <2>2. UNCHANGED <<accepted, payments>>
      BY <1>c DEF Refuses
    <2> QED BY <1>c, <1>g, <2>1, <2>2, RefusesStep DEF Judged
  <1>d. CASE \E code \in OtherReasons \cup {"PAYMENT_MALFORMED"} : Refuses(r, code)
    <2>1. PICK code \in OtherReasons \cup {"PAYMENT_MALFORMED"} : Refuses(r, code)
      BY <1>d
    <2>2. code \in Codes /\ code # "PAYMENT_REQUIRED" /\ code \notin Disputes
      BY DEF OtherReasons, Codes, Disputes
    <2> QED BY <1>g, <2>1, <2>2, RefusesStep DEF SaysNothing
  <1> QED BY <1>a, <1>b, <1>c, <1>d, <1>g DEF FacilitatorVerifies

(* The twin asks the verifier.                                              *)
LEMMA DemoVerifiesStep ==
    ASSUME NEW r \in Requests, GatewayTyped, Local(r), DemoVerifies(r)
    PROVE  Advances(r) /\ HeaderStays(r) /\ (SaysNothing(r) \/ Judged(r))
  <1>g. /\ request[r].at = "arrived" /\ request[r].header.scheme \in {"channel", "exact"}
        /\ PaymentsOf(r) = {} /\ UNCHANGED <<signedTotal, attested, lost>>
    BY DEF DemoVerifies, Local, Stage, Paying
  <1>b. CASE TotalVerdict(r) = "ok" /\ Accepts(r) /\ Proceeds(r, "paid")
             /\ request[r].header.scheme = "channel"
    BY <1>b, <1>g, AcceptsStep
  <1>c. CASE /\ request[r].header.scheme = "channel"
             /\ TotalVerdict(r) # "ok" /\ Refuses(r, TotalVerdict(r))
    <2>1. TotalVerdict(r) \in Codes /\ TotalVerdict(r) # "PAYMENT_REQUIRED"
      BY <1>c DEF TotalVerdict, Codes
    <2>2. UNCHANGED <<accepted, payments>>
      BY <1>c DEF Refuses
    <2> QED BY <1>c, <1>g, <2>1, <2>2, RefusesStep DEF Judged
  <1>d. CASE \E code \in OtherReasons \cup {"PAYMENT_MALFORMED"} : Refuses(r, code)
    <2>1. PICK code \in OtherReasons \cup {"PAYMENT_MALFORMED"} : Refuses(r, code)
      BY <1>d
    <2>2. code \in Codes /\ code # "PAYMENT_REQUIRED" /\ code \notin Disputes
      BY DEF OtherReasons, Codes, Disputes
    <2> QED BY <1>g, <2>1, <2>2, RefusesStep DEF SaysNothing
  <1>f. DemoOffer(r).schemes = {"channel"}
    BY DEF DemoOffer, Offer
  <1> QED BY <1>b, <1>c, <1>d, <1>f, <1>g DEF DemoVerifies

(* POST /settle.                                                            *)
LEMMA SettlesStep ==
    ASSUME NEW r \in Requests, GatewayTyped, Local(r), FacilitatorSettles(r)
    PROVE  Advances(r) /\ HeaderStays(r) /\ SaysNothing(r)
  <1>g. /\ request[r].at = "settle" /\ request[r].header.scheme = "exact"
        /\ PaymentsOf(r) = {} /\ UNCHANGED <<signedTotal, attested, lost>>
    BY DEF FacilitatorSettles, Local, Stage, Paying
  <1>a. CASE /\ payments' = payments \cup {[by |-> r, amount |-> chargeFor(r)]}
             /\ Proceeds(r, "settled") /\ UNCHANGED accepted
    <2>r. request' = PlaceSet(request, r, "settled")
      BY <1>a DEF Proceeds, PlaceSet
    <2>1. /\ OthersAsIn(request, request', r)
          /\ request'[r].at = "settled"
          /\ request'[r].client = request[r].client /\ request'[r].header = request[r].header
          /\ request'[r].code = request[r].code
          /\ request'[r].pieces = request[r].pieces /\ request'[r].seen = request[r].seen
      BY <2>r, RequestTypes, MovesTo DEF Places
    <2>2. /\ GatewayTyped' /\ OthersKeep(r) /\ PaidOnce(r)' /\ attested'[r] = attested[r]
      <3>1. accepted' \in Nat /\ chargeFor(r) \in Nat /\ chargeFor(r) >= chargeFor(r)
        BY <1>a, ChargeIs DEF GatewayTyped
      <3> QED BY <1>a, <1>g, <2>1, <3>1, IsPaid
    <2>3. Stage(r)'
      BY <1>g, <2>1, RequestTypes DEF Local, Stage, Ours, Codes
    <2>4. Paying(r)'
      BY <1>g, <2>1, <2>2, RequestTypes DEF Local, Stage, Paying
    <2>5. Bodies(r)'
      BY <1>g, <2>1, <2>2, RequestTypes DEF Local, Bodies, AllText
    <2>6. HeaderStays(r) /\ SaysNothing(r)
      BY <2>1 DEF HeaderStays, SaysNothing, Disputes
    <2> QED BY <2>2, <2>3, <2>4, <2>5, <2>6 DEF Advances, Local
  <1>b. CASE Refuses(r, "PAYMENT_MALFORMED")
    <2>1. "PAYMENT_MALFORMED" \in Codes \ Disputes
      BY DEF Codes, Disputes
    <2> QED BY <1>b, <1>g, <2>1, RefusesStep DEF SaysNothing
  <1> QED BY <1>a, <1>b DEF FacilitatorSettles

-----------------------------------------------------------------------------
(* The totals that were signed.                                             *)

(* Sums over vouchers do not depend on what is not signed.                  *)
ChannelStays ==
    /\ signedTotal' = signedTotal /\ SignedOnes' = SignedOnes
    /\ \A q \in SignedOnes : TotalOf(q)' = TotalOf(q) /\ Asks(q)' = Asks(q)

(* A request has a total exactly when it has a voucher.                     *)
LEMMA SignedHaveTotals ==
    ASSUME GatewayTyped, \A r \in Requests : Stage(r)
    PROVE  /\ SignedOnes \subseteq Requests
           /\ \A r \in Requests : TotalOf(r) \in Nat /\ (r \in SignedOnes <=> TotalOf(r) > 0)
           /\ Bounds \subseteq Nat
  <1>1. \A r \in Requests : TotalOf(r) \in Nat /\ (r \in SignedOnes <=> TotalOf(r) > 0)
    BY RequestTypes DEF Stage, TotalOf, SignedOnes
  <1>2. SignedOnes \subseteq Requests
    BY DEF SignedOnes
  <1> QED BY <1>1, <1>2 DEF Bounds

(* The same of the next state.                                              *)
LEMMA SignedAfter ==
    ASSUME GatewayTyped', \A r \in Requests : Stage(r)'
    PROVE  \A r \in Requests : TotalOf(r)' \in Nat /\ (r \in SignedOnes' <=> TotalOf(r)' > 0)
  <1>1. \A r \in Requests : request'[r].header.total \in Nat
    BY DEF GatewayTyped
  <1> QED BY <1>1 DEF Stage, TotalOf, SignedOnes

(* Who signed between two totals.                                           *)
LEMMA BetweenIs ==
    ASSUME GatewayTyped, \A r \in Requests : Stage(r), NEW b \in Nat, NEW c \in Nat
    PROVE  SignedBetween(b, c) = {r \in SignedOnes : TotalOf(r) > b /\ TotalOf(r) <= c}
  <1>1. \A r \in Requests : TotalOf(r) > b => r \in SignedOnes
    BY SignedHaveTotals
  <1>2. SignedOnes \subseteq Requests
    BY SignedHaveTotals
  <1> QED BY <1>1, <1>2 DEF SignedBetween, TotalOf

(* Where no voucher is signed, the totals tile as before.                   *)
LEMMA TilesStay ==
    ASSUME GatewayTyped, GatewayTyped', \A r \in Requests : Stage(r) /\ Stage(r)',
           Tiled, SumsAreTotals, ChannelStays
    PROVE  Tiled' /\ SumsAreTotals' /\ Bounds' = Bounds
  <1>1. Bounds' = Bounds
    BY DEF ChannelStays, Bounds
  <1>2. Tiled'
    BY <1>1 DEF Tiled, ChannelStays
  <1>3. SumsAreTotals'
    <2>1. SUFFICES ASSUME NEW b \in Bounds, NEW c \in Bounds, b <= c
                   PROVE  SumFunctionOnSet(AskedBy', SignedBetween(b, c)') = c - b
      BY <1>1 DEF SumsAreTotals
    <2>2. b \in Nat /\ c \in Nat
      BY SignedHaveTotals
    <2>3. SignedBetween(b, c)' = {r \in SignedOnes' : TotalOf(r)' > b /\ TotalOf(r)' <= c}
      <3>1. \A r \in Requests : TotalOf(r)' > b => r \in SignedOnes'
        BY <2>2, SignedAfter
      <3>2. SignedOnes' \subseteq Requests
        BY DEF SignedOnes
      <3> QED BY <3>1, <3>2 DEF SignedBetween, TotalOf
    <2>4. SignedBetween(b, c)' = SignedBetween(b, c)
      BY <2>2, <2>3, BetweenIs DEF ChannelStays
    <2> DEFINE S == SignedBetween(b, c)
    <2>5. IsFiniteSet(S) /\ S \subseteq SignedOnes
      BY <2>2, BetweenIs, FS_Subset DEF Tiled
    <2>6. \A r \in S : AskedBy[r] = AskedBy'[r]
      BY <2>5, SignedHaveTotals DEF ChannelStays, AskedBy
    <2> HIDE DEF S
    <2>7. SumFunctionOnSet(AskedBy, S) = SumFunctionOnSet(AskedBy', S)
      BY <2>5, <2>6, SumOfSame
    <2>8. SumFunctionOnSet(AskedBy, S) = c - b
      BY <2>1 DEF SumsAreTotals, S
    <2> QED BY <2>4, <2>7, <2>8 DEF S
  <1> QED BY <1>1, <1>2, <1>3

(* A new voucher: a new interval at the end.                                *)
LEMMA TileAdded ==
    ASSUME GatewayTyped, GatewayTyped', \A r \in Requests : Stage(r) /\ Stage(r)',
           Tiled, SumsAreTotals, NEW r \in Requests, r \notin SignedOnes,
           SignedOnes' = SignedOnes \cup {r},
           \A q \in SignedOnes : TotalOf(q)' = TotalOf(q),
           \A q \in Requests : Asks(q)' = Asks(q),
           signedTotal' = signedTotal + Asks(r), TotalOf(r)' = signedTotal'
    PROVE  Tiled' /\ SumsAreTotals' /\ Bounds' = Bounds \cup {signedTotal'}
  <1>0. /\ signedTotal \in Nat /\ signedTotal' \in Nat /\ signedTotal < signedTotal'
        /\ Asks(r) \in Nat /\ Asks(r) > 0 /\ \A q \in Requests : Asks(q) \in Nat
    BY AsksType DEF GatewayTyped
  <1>1. Bounds' = Bounds \cup {signedTotal'}
    BY DEF Bounds
  <1>2. /\ Bounds \subseteq Nat /\ SignedOnes \subseteq Requests /\ signedTotal \in Bounds
        /\ \A b \in Bounds : b <= signedTotal
        /\ \A q \in SignedOnes : TotalOf(q) \in Bounds
    BY SignedHaveTotals DEF Tiled, Bounds
  <1>3. Tiled'
    <2>1. IsFiniteSet(SignedOnes')
      BY FS_AddElement DEF Tiled
    <2>2. ASSUME NEW q \in SignedOnes
          PROVE  TotalOf(q)' < signedTotal'
      <3>1. TotalOf(q) \in Nat /\ TotalOf(q) <= signedTotal /\ TotalOf(q)' = TotalOf(q)
        BY <1>2
      <3> QED BY <3>1, <1>0
    <2>3. \A p, q \in SignedOnes' : TotalOf(p)' = TotalOf(q)' => p = q
      BY <1>0, <2>2, <1>2 DEF Tiled
    <2>4. signedTotal' \in Bounds' /\ \A b \in Bounds' : b <= signedTotal'
      BY <1>0, <1>1, <1>2
    <2>5. ASSUME NEW b \in Bounds', NEW q \in SignedOnes', b < TotalOf(q)'
          PROVE  b <= TotalOf(q)' - Asks(q)'
      <3>1. CASE q = r
        BY <3>1, <2>5, <1>0, <1>1, <1>2
      <3>2. CASE q # r
        <4>1. q \in SignedOnes /\ TotalOf(q)' = TotalOf(q) /\ Asks(q)' = Asks(q)
          BY <3>2, <1>2
        <4>2. TotalOf(q) \in Nat /\ TotalOf(q) <= signedTotal
          BY <4>1, <1>2
        <4>3. b # signedTotal'
          BY <4>1, <4>2, <2>5, <1>0
        <4>4. b \in Bounds
          BY <4>3, <1>1
        <4> QED BY <4>1, <4>4, <2>5 DEF Tiled
      <3> QED BY <3>1, <3>2
    <2> QED BY <2>1, <2>3, <2>4, <2>5 DEF Tiled
  <1>4. SumsAreTotals'
    <2>1. SUFFICES ASSUME NEW b \in Bounds', NEW c \in Bounds', b <= c
                   PROVE  SumFunctionOnSet(AskedBy', SignedBetween(b, c)') = c - b
      BY DEF SumsAreTotals
    <2>2. b \in Nat /\ c \in Nat
      BY <1>0, <1>1, <1>2
    <2>3. SignedBetween(b, c)' = {q \in SignedOnes' : TotalOf(q)' > b /\ TotalOf(q)' <= c}
      <3>1. \A q \in Requests : TotalOf(q)' > b => q \in SignedOnes'
        BY <2>2, SignedAfter
      <3>2. SignedOnes' \subseteq Requests
        BY DEF SignedOnes
      <3> QED BY <3>1, <3>2 DEF SignedBetween, TotalOf
    <2>4. AskedBy' = AskedBy
      BY DEF AskedBy
    <2>5. CASE b \in Bounds /\ c \in Bounds
      <3>1. r \notin SignedBetween(b, c)'
        BY <2>3, <2>5, <1>0, <1>2
      <3>2. SignedBetween(b, c)' = SignedBetween(b, c)
        BY <2>2, <2>3, <3>1, BetweenIs
      <3> QED BY <2>1, <2>4, <2>5, <3>2 DEF SumsAreTotals
    <2>6. CASE b \in Bounds /\ c = signedTotal'
      <3> DEFINE S == SignedBetween(b, signedTotal)
      <3>1. S = {q \in SignedOnes : TotalOf(q) > b /\ TotalOf(q) <= signedTotal}
        BY <2>2, <1>0, BetweenIs
      <3>2. IsFiniteSet(S) /\ r \notin S /\ S \subseteq SignedOnes
        BY <3>1, FS_Subset DEF Tiled
      <3>3. SignedBetween(b, c)' = S \cup {r}
        <4>1. \A q \in SignedOnes : TotalOf(q) \in Nat /\ TotalOf(q) <= signedTotal
          BY <1>2
        <4>2. TotalOf(r)' > b /\ TotalOf(r)' <= c
          BY <2>6, <1>0, <1>2
        <4>3. \A q \in SignedOnes : TotalOf(q)' <= c
          BY <4>1, <2>6, <1>0
        <4> HIDE DEF S
        <4> QED BY <2>3, <3>1, <4>1, <4>2, <4>3
      <3> DEFINE T == S \cup {r}
      <3>4. SumFunctionOnSet(AskedBy, S) = signedTotal - b
        BY <2>6, <1>2 DEF SumsAreTotals
      <3> HIDE DEF S
      <3>5. IsFiniteSet(T) /\ r \in T /\ T \ {r} = S
        BY <3>2, FS_AddElement
      <3>6. \A q \in T : AskedBy[q] \in Int
        BY <1>0, <1>2, <3>2 DEF AskedBy
      <3> HIDE DEF T
      <3>7. SumFunctionOnSet(AskedBy, T) = AskedBy[r] + SumFunctionOnSet(AskedBy, T \ {r})
        BY <3>5, <3>6, SumWithout
      <3>8. AskedBy[r] = Asks(r)
        BY DEF AskedBy
      <3>9. SumFunctionOnSet(AskedBy, T) = Asks(r) + (signedTotal - b)
        BY <3>4, <3>5, <3>7, <3>8
      <3>10. Asks(r) + (signedTotal - b) = c - b
        BY <2>2, <2>6, <1>0
      <3> QED BY <2>4, <3>3, <3>9, <3>10 DEF T
    <2>7. CASE b = signedTotal' /\ c = signedTotal'
      <3>1. \A q \in SignedOnes' : TotalOf(q)' \in Nat
        BY SignedAfter DEF SignedOnes
      <3>2. SignedBetween(b, c)' = {}
        BY <2>2, <2>3, <2>7, <3>1
      <3>3. c - b = 0
        BY <2>2, <2>7
      <3> QED BY <3>2, <3>3, SumOfNone
    <2> QED BY <2>1, <2>5, <2>6, <2>7, <1>0, <1>1, <1>2
  <1> QED BY <1>1, <1>3, <1>4

-----------------------------------------------------------------------------
(* Every step keeps the invariant.                                          *)

(* The steps of a request whose header is settled.                          *)
Works(r) ==
    \/ GivesUp(r)
    \/ Offered(r) \/ DemoOffered(r) \/ AsksFacilitator(r) \/ DemoVerifies(r)
    \/ ReceiptComes(r) \/ SettlementComes(r) \/ RefusalComes(r) \/ CallFails(r)
    \/ Handles(r) \/ DemoThrows(r)
    \/ \E piece \in Pieces : Writes(r, piece) \/ Finishes(r, piece)
    \/ FacilitatorVerifies(r) \/ FacilitatorSettles(r)

(* A step of the middleware or of the facilitator, put together:            *)
LEMMA WorksStep ==
    ASSUME NEW r \in Requests, GatewayTyped, Local(r), Works(r)
    PROVE  Advances(r) /\ HeaderStays(r) /\ (SaysNothing(r) \/ Judged(r))
  BY GivesUpStep, UnpaidStep, AsksStep, DemoVerifiesStep, ReceiptStep, SettlementStep,
     RefusalStep, CallFailsStep, HandlesStep, ThrowsStep, WritesStep, FinishesStep,
     VerifiesStep, SettlesStep
     DEF Works, Offered, DemoOffered

(* and what it does to the money.                                           *)
LEMMA MoneyStep ==
    ASSUME NEW r \in Requests, GatewayTyped, Local(r), Works(r)
    PROVE  Money(r) /\ signedTotal' = signedTotal
  <1>1. CASE FacilitatorVerifies(r)
    BY <1>1 DEF FacilitatorVerifies, Money, Refuses, Local, Stage
  <1>2. CASE DemoVerifies(r)
    BY <1>2 DEF DemoVerifies, Money, Refuses, DemoOffer, Offer
  <1>3. CASE FacilitatorSettles(r)
    BY <1>3 DEF FacilitatorSettles, Money, Refuses, Local, Stage
  <1>4. CASE GivesUp(r) \/ Unpaid(r) \/ AsksFacilitator(r) \/ ReceiptComes(r)
             \/ SettlementComes(r) \/ RefusalComes(r) \/ CallFails(r) \/ Handles(r)
             \/ DemoThrows(r) \/ \E piece \in Pieces : Writes(r, piece) \/ Finishes(r, piece)
    BY <1>4 DEF GivesUp, Unpaid, AsksFacilitator, ReceiptComes, SettlementComes, RefusalComes,
                CallFails, Handles, DemoThrows, Writes, Finishes, Money
  <1> QED BY <1>1, <1>2, <1>3, <1>4 DEF Works, Offered, DemoOffered

(* What holds of each request alone needs a proof of one.                   *)
LEMMA AllLocal ==
    ASSUME NEW r \in Requests, OthersKeep(r), Local(r)', \A q \in Requests : Local(q)
    PROVE  \A q \in Requests : Local(q)'
  <1>1. SUFFICES ASSUME NEW q \in Requests \ {r} PROVE Local(q)'
    OBVIOUS
  <1>2. /\ request'[q] = request[q] /\ PaymentsOf(q)' = PaymentsOf(q)
        /\ attested'[q] = attested[q] /\ (q \in lost' <=> q \in lost)
    BY DEF OthersKeep, OthersAsIn
  <1>3. Stage(q)'
    BY <1>2 DEF Local, Stage
  <1>4. PaidOnce(q) => PaidOnce(q)'
    BY <1>2 DEF PaidOnce, PaymentsOf, chargeFor
  <1>5. Paying(q)'
    BY <1>2, <1>4 DEF Local, Paying
  <1>6. Bodies(q)'
    BY <1>2 DEF Local, Bodies
  <1> QED BY <1>3, <1>5, <1>6 DEF Local

(* What a request asks depends on its client only.                          *)
LEMMA AsksKeep ==
    ASSUME NEW q \in Requests, request'[q].client = request[q].client
    PROVE  Asks(q)' = Asks(q)
  <1>1. Asks(q)' = IF request'[q].client = "streamPaid" /\ q \in Sliced
                   THEN UnitPrice * SliceUnits ELSE UnitPrice
    BY Prices DEF Asks, OfferOf, DemoOffer, Offer
  <1> QED BY <1>1, AsksIs

(* A reason that was right stays right.                                     *)
LEMMA ToldStays ==
    ASSUME NEW r \in Requests, OthersKeep(r), ToldRightly, payments \subseteq payments',
           \A q \in Requests : TotalOf(q) \in Nat /\ TotalOf(q)' \in Nat,
           TotalOf(r) = 0 \/ TotalOf(r)' = TotalOf(r),
           \/ request'[r].code \notin Disputes
           \/ /\ request'[r].code = request[r].code /\ request'[r].client = request[r].client
              /\ TotalOf(r)' = TotalOf(r)
    PROVE  ToldRightly'
  <1>1. \A q \in Requests \ {r} : request'[q] = request[q] /\ TotalOf(q)' = TotalOf(q)
    BY DEF OthersKeep, OthersAsIn, TotalOf
  <1>2. SUFFICES ASSUME NEW q \in Requests
                 PROVE  /\ request'[q].code = "VOUCHER_UNDERPAID"
                             => q \in Sliced /\ request'[q].client = "x402Fetch"
                        /\ request'[q].code = "VOUCHER_NOT_INCREASING" =>
                             \E p \in Requests \ {q} :
                                TotalOf(p)' > TotalOf(q)' /\ PaymentsOf(p)' # {}
    BY DEF ToldRightly
  <1>3. \A p \in Requests : PaymentsOf(p) # {} => PaymentsOf(p)' # {}
    BY DEF PaymentsOf
  <1>4. CASE q = r /\ request'[r].code \notin Disputes
    BY <1>4 DEF Disputes
  <1>5. CASE q # r \/ request'[r].code \in Disputes
    <2>1. /\ request'[q].code = request[q].code /\ request'[q].client = request[q].client
          /\ TotalOf(q)' = TotalOf(q)
      BY <1>1, <1>5
    <2>2. ASSUME request[q].code = "VOUCHER_NOT_INCREASING"
          PROVE  \E p \in Requests \ {q} : TotalOf(p)' > TotalOf(q)' /\ PaymentsOf(p)' # {}
      <3>1. PICK p \in Requests \ {q} : TotalOf(p) > TotalOf(q) /\ PaymentsOf(p) # {}
        BY <2>2 DEF ToldRightly
      <3>2. TotalOf(p)' = TotalOf(p)
        BY <3>1, <1>1
      <3> QED BY <3>1, <3>2, <2>1, <1>3
    <2> QED BY <2>1, <2>2 DEF ToldRightly
  <1> QED BY <1>4, <1>5

(* A refused voucher was not worth the price, or came too late.             *)
LEMMA JudgedRightly ==
    ASSUME NEW r \in Requests, GatewayInv, Judged(r), OthersKeep(r), HeaderStays(r)
    PROVE  ToldRightly'
  <1>0. /\ GatewayTyped /\ FromBounds /\ Tiled /\ ToldRightly
        /\ \A q \in Requests : Stage(q)
    BY DEF GatewayInv
  <1>1. /\ r \in SignedOnes /\ TotalOf(r) \in Nat /\ accepted \in Nat /\ accepted \in Bounds
        /\ \A q \in Requests : TotalOf(q) \in Nat /\ TotalOf(q)' = TotalOf(q)
        /\ Asks(r) \in Nat /\ chargeFor(r) \in Nat /\ SignedOnes \subseteq Requests
        /\ payments' = payments
    <2>1. r \in SignedOnes /\ payments' = payments
      BY DEF Judged, SignedOnes
    <2>2. accepted \in Bounds /\ accepted \in Nat
      BY <1>0 DEF FromBounds, Bounds, GatewayTyped
    <2>3. \A q \in Requests : TotalOf(q)' = TotalOf(q)
      BY DEF OthersKeep, OthersAsIn, HeaderStays, TotalOf
    <2> QED BY <1>0, <2>1, <2>2, <2>3, SignedHaveTotals, AsksType, ChargeIs
  <1>2. SUFFICES ASSUME NEW q \in Requests
                 PROVE  /\ request'[q].code = "VOUCHER_UNDERPAID"
                             => q \in Sliced /\ request'[q].client = "x402Fetch"
                        /\ request'[q].code = "VOUCHER_NOT_INCREASING" =>
                             \E p \in Requests \ {q} :
                                TotalOf(p)' > TotalOf(q)' /\ PaymentsOf(p)' # {}
    BY DEF ToldRightly
  <1>3. \A p \in Requests : PaymentsOf(p)' = PaymentsOf(p)
    BY <1>1 DEF PaymentsOf
  <1>4. CASE q # r
    <2>1. request'[q] = request[q]
      BY <1>4 DEF OthersKeep, OthersAsIn
    <2> QED BY <1>0, <1>1, <1>3, <2>1 DEF ToldRightly
  <1>5. CASE q = r
    <2>1. /\ request'[r].code = TotalVerdict(r) /\ request'[r].client = request[r].client
          /\ PaymentsOf(r) = {}
      BY DEF Judged, HeaderStays
    <2>2. ASSUME TotalVerdict(r) = "VOUCHER_UNDERPAID"
          PROVE  r \in Sliced /\ request[r].client = "x402Fetch"
      <3>1. accepted < TotalOf(r) /\ TotalOf(r) - accepted < chargeFor(r)
        BY <2>2, <1>1 DEF TotalVerdict, TotalOf
      <3>2. accepted <= TotalOf(r) - Asks(r)
        BY <3>1, <1>0, <1>1 DEF Tiled
      <3>3. Asks(r) < chargeFor(r)
        BY <3>1, <3>2, <1>1
      <3>4. request[r].client \in Ours
        BY <1>0, <1>1 DEF Stage, SignedOnes
      <3> QED BY <3>3, <3>4, AsksIs, Prices DEF chargeFor, Ours
    <2>3. ASSUME TotalVerdict(r) = "VOUCHER_NOT_INCREASING"
          PROVE  \E p \in Requests \ {r} : TotalOf(p) > TotalOf(r) /\ PaymentsOf(p) # {}
      <3>1. TotalOf(r) <= accepted
        BY <2>3, <1>1 DEF TotalVerdict, TotalOf
      <3>2. TotalOf(r) > 0
        BY <1>0, <1>1, SignedHaveTotals
      <3>3. PICK p \in SignedOnes : accepted = TotalOf(p) /\ PaymentsOf(p) # {}
        BY <3>1, <3>2, <1>0, <1>1 DEF FromBounds
      <3>4. p # r /\ TotalOf(p) # TotalOf(r)
        BY <3>3, <2>1, <1>0, <1>1 DEF Tiled
      <3> QED BY <3>1, <3>3, <3>4, <1>1
    <2> QED BY <1>1, <1>3, <1>5, <2>1, <2>2, <2>3
  <1> QED BY <1>4, <1>5

(* Where no voucher is signed, payments reach down to a bound.              *)
LEMMA FromBoundsStay ==
    ASSUME NEW r \in Requests, GatewayInv, GatewayTyped', Money(r), HeaderStays(r),
           OthersKeep(r), Bounds' = Bounds, SignedOnes' = SignedOnes
    PROVE  FromBounds'
  <1>0. GatewayTyped /\ FromBounds /\ \A q \in Requests : Stage(q)
    BY DEF GatewayInv
  <1>1. \A q \in Requests : TotalOf(q)' = TotalOf(q)
    BY DEF OthersKeep, OthersAsIn, HeaderStays, TotalOf
  <1>2. SignedOnes \subseteq Requests /\ \A q \in Requests : TotalOf(q) \in Nat
    BY <1>0, SignedHaveTotals
  <1>3. CASE UNCHANGED <<accepted, payments>>
    <2>1. \A q \in Requests : PaymentsOf(q)' = PaymentsOf(q)
      BY <1>3 DEF PaymentsOf
    <2> QED BY <1>0, <1>1, <1>2, <1>3, <2>1 DEF FromBounds
  <1>4. CASE request[r].header.scheme = "channel" /\ TotalVerdict(r) = "ok" /\ Accepts(r)
    <2>1. r \in SignedOnes /\ accepted \in Nat /\ accepted \in Bounds
      BY <1>0, <1>4 DEF SignedOnes, FromBounds, Bounds, GatewayTyped
    <2> DEFINE new == [by |-> r, amount |-> TotalOf(r) - accepted]
    <2>2. /\ accepted' = TotalOf(r) /\ payments' = payments \cup {new}
          /\ accepted < TotalOf(r)
      BY <1>2, <1>4, <2>1 DEF Accepts, TotalVerdict, TotalOf
    <2>3. new.by = r /\ new.amount = TotalOf(r) - accepted
      OBVIOUS
    <2> HIDE DEF new
    <2>4. PaymentsOf(r)' = PaymentsOf(r) \cup {new}
      BY <2>2, <2>3 DEF PaymentsOf
    <2>5. \A q \in Requests \ {r} : PaymentsOf(q)' = PaymentsOf(q)
      BY DEF OthersKeep
    <2>6. new.amount <= TotalOf(r) /\ TotalOf(r) - new.amount = accepted
      BY <1>2, <2>1, <2>2, <2>3
    <2>7. \A q \in SignedOnes : \A p \in PaymentsOf(q)' :
             p.amount <= TotalOf(q) /\ TotalOf(q) - p.amount \in Bounds
      <3>1. SUFFICES ASSUME NEW q \in SignedOnes, NEW p \in PaymentsOf(q)'
                     PROVE  p.amount <= TotalOf(q) /\ TotalOf(q) - p.amount \in Bounds
        OBVIOUS
      <3>2. CASE p \in PaymentsOf(q)
        BY <3>2, <1>0 DEF FromBounds
      <3>3. CASE p \notin PaymentsOf(q)
        <4>1. q = r /\ p = new
          BY <3>1, <3>3, <2>4, <2>5, <1>2
        <4> QED BY <4>1, <2>1, <2>6
      <3> QED BY <3>2, <3>3
    <2>8. accepted' = TotalOf(r)' /\ PaymentsOf(r)' # {}
      BY <1>1, <2>2, <2>4
    <2> QED BY <1>1, <1>2, <2>1, <2>7, <2>8 DEF FromBounds
  <1>5. CASE /\ request[r].header.scheme # "channel" /\ UNCHANGED accepted
             /\ payments' = payments \cup {[by |-> r, amount |-> chargeFor(r)]}
    <2>1. \A q \in Requests : PaymentsOf(q) # {} => PaymentsOf(q)' # {}
      BY <1>5 DEF PaymentsOf
    <2>2. r \notin SignedOnes
      BY <1>5 DEF SignedOnes
    <2>3. \A q \in SignedOnes : PaymentsOf(q)' = PaymentsOf(q)
      BY <1>2, <2>2 DEF OthersKeep
    <2> QED BY <1>0, <1>1, <1>2, <1>5, <2>1, <2>3 DEF FromBounds
  <1> QED BY <1>3, <1>4, <1>5 DEF Money

(* Middleware and facilitator keep the invariant,                           *)
LEMMA WorksKeeps ==
    ASSUME NEW r \in Requests, GatewayInv, Works(r)
    PROVE  GatewayInv'
  <1>0. /\ GatewayTyped /\ Tiled /\ SumsAreTotals /\ FromBounds /\ ToldRightly
        /\ \A q \in Requests : Stage(q) /\ Local(q)
    BY DEF GatewayInv, Local
  <1>1. /\ GatewayTyped' /\ OthersKeep(r) /\ Local(r)' /\ HeaderStays(r)
        /\ (SaysNothing(r) \/ Judged(r)) /\ Money(r) /\ signedTotal' = signedTotal
    BY <1>0, WorksStep, MoneyStep DEF Advances
  <1>2. \A q \in Requests : Local(q)'
    BY <1>0, <1>1, AllLocal
  <1>3. \A q \in Requests : Stage(q)'
    BY <1>2 DEF Local
  <1>4. \A q \in Requests : /\ request'[q].header = request[q].header
                            /\ request'[q].client = request[q].client
    BY <1>1 DEF OthersKeep, OthersAsIn, HeaderStays
  <1>5. ChannelStays
    <2>1. \A q \in Requests : TotalOf(q)' = TotalOf(q) /\ Asks(q)' = Asks(q)
      BY <1>4, AsksKeep DEF TotalOf
    <2>2. SignedOnes' = SignedOnes /\ SignedOnes \subseteq Requests
      BY <1>4 DEF SignedOnes
    <2> QED BY <1>1, <2>1, <2>2 DEF ChannelStays
  <1>6. Tiled' /\ SumsAreTotals' /\ Bounds' = Bounds
    BY <1>0, <1>1, <1>3, <1>5, TilesStay
  <1>7. FromBounds'
    BY <1>1, <1>5, <1>6, FromBoundsStay DEF ChannelStays
  <1>8. ToldRightly'
    <2>1. CASE Judged(r)
      BY <1>1, <2>1, JudgedRightly
    <2>2. CASE SaysNothing(r)
      <3>1. payments \subseteq payments'
        BY <1>1 DEF Money, Accepts
      <3>2. \A q \in Requests : TotalOf(q) \in Nat /\ TotalOf(q)' = TotalOf(q)
        BY <1>0, <1>4, SignedHaveTotals DEF TotalOf
      <3>3. request'[r].client = request[r].client
        BY <1>4
      <3>4. request'[r].code \notin Disputes \/ request'[r].code = request[r].code
        BY <2>2 DEF SaysNothing
      <3> QED BY <1>0, <1>1, <3>1, <3>2, <3>3, <3>4, ToldStays
    <2> QED BY <1>1, <2>1, <2>2
  <1> QED BY <1>1, <1>2, <1>6, <1>7, <1>8 DEF GatewayInv, Local

(* a first request does,                                                    *)
LEMMA ProbesKeeps ==
    ASSUME NEW r \in Requests, NEW client \in Clients, GatewayInv, Probes(r, client)
    PROVE  GatewayInv'
  <1>0. /\ GatewayTyped /\ Tiled /\ SumsAreTotals /\ FromBounds /\ ToldRightly
        /\ \A q \in Requests : Stage(q) /\ Local(q)
    BY DEF GatewayInv, Local
  <1>1. /\ GatewayTyped' /\ OthersKeep(r) /\ Local(r)' /\ request'[r].code \notin Disputes
        /\ request[r].header.scheme # "channel" /\ request'[r].header.scheme # "channel"
        /\ request'[r].header.total = request[r].header.total
    BY <1>0, ProbesStep DEF Advances
  <1>2. \A q \in Requests : Local(q)'
    BY <1>0, <1>1, AllLocal
  <1>3. \A q \in Requests : Stage(q)'
    BY <1>2 DEF Local
  <1>4. UNCHANGED <<signedTotal, accepted, payments>>
    BY DEF Probes
  <1>5. \A q \in Requests : TotalOf(q) \in Nat /\ TotalOf(q)' = TotalOf(q)
    BY <1>0, <1>1, SignedHaveTotals DEF OthersKeep, OthersAsIn, TotalOf
  <1>6. \A q \in Requests \ {r} : request'[q] = request[q]
    BY <1>1 DEF OthersKeep, OthersAsIn
  <1>7. ChannelStays
    <2>1. SignedOnes' = SignedOnes /\ SignedOnes \subseteq Requests \ {r}
      BY <1>1, <1>6 DEF SignedOnes
    <2>2. \A q \in SignedOnes : Asks(q)' = Asks(q)
      BY <1>6, <2>1, AsksKeep
    <2> QED BY <1>4, <1>5, <2>1, <2>2 DEF ChannelStays
  <1>8. Tiled' /\ SumsAreTotals' /\ Bounds' = Bounds
    BY <1>0, <1>1, <1>3, <1>7, TilesStay
  <1>9. FromBounds'
    <2>1. \A q \in Requests : PaymentsOf(q)' = PaymentsOf(q)
      BY <1>4 DEF PaymentsOf
    <2>2. SignedOnes' = SignedOnes /\ SignedOnes \subseteq Requests
      BY <1>7 DEF ChannelStays, SignedOnes
    <2> QED BY <1>0, <1>4, <1>5, <1>8, <2>1, <2>2 DEF FromBounds
  <1>10. ToldRightly'
    BY <1>0, <1>1, <1>4, <1>5, ToldStays
  <1> QED BY <1>1, <1>2, <1>8, <1>9, <1>10 DEF GatewayInv, Local

(* and a payment does.                                                      *)
LEMMA PaysKeeps ==
    ASSUME NEW r \in Requests, GatewayInv, PaysNow(r)
    PROVE  GatewayInv'
  <1>0. /\ GatewayTyped /\ Tiled /\ SumsAreTotals /\ FromBounds /\ ToldRightly
        /\ \A q \in Requests : Stage(q) /\ Local(q)
    BY DEF GatewayInv, Local
  <1>1. /\ GatewayTyped' /\ OthersKeep(r) /\ Local(r)' /\ request'[r].code \notin Disputes
        /\ PaymentsOf(r) = {} /\ request[r].header.scheme # "channel"
        /\ request'[r].header.scheme = "channel" /\ request'[r].header.total = signedTotal'
        /\ request'[r].client = request[r].client
    BY <1>0, PaysStep DEF Advances
  <1>2. \A q \in Requests : Local(q)'
    BY <1>0, <1>1, AllLocal
  <1>3. \A q \in Requests : Stage(q)'
    BY <1>2 DEF Local
  <1>4. UNCHANGED <<accepted, payments>> /\ signedTotal' = signedTotal + Asks(r)
    BY DEF PaysNow, Signs
  <1>5. \A q \in Requests \ {r} : request'[q] = request[q] /\ TotalOf(q)' = TotalOf(q)
    BY <1>1 DEF OthersKeep, OthersAsIn, TotalOf
  <1>6. /\ r \notin SignedOnes /\ SignedOnes' = SignedOnes \cup {r}
        /\ SignedOnes \subseteq Requests \ {r}
    BY <1>1, <1>5 DEF SignedOnes
  <1>7. \A q \in Requests : Asks(q)' = Asks(q)
    BY <1>1, <1>5, AsksKeep
  <1>8. Tiled' /\ SumsAreTotals' /\ Bounds' = Bounds \cup {signedTotal'}
    <2>1. \A q \in SignedOnes : TotalOf(q)' = TotalOf(q)
      BY <1>5, <1>6
    <2>2. TotalOf(r)' = signedTotal'
      BY <1>1 DEF TotalOf
    <2> QED BY <1>0, <1>1, <1>3, <1>4, <1>6, <1>7, <2>1, <2>2, TileAdded
  <1>9. FromBounds'
    <2>1. \A q \in Requests : PaymentsOf(q)' = PaymentsOf(q)
      BY <1>4 DEF PaymentsOf
    <2>2. \A q \in SignedOnes : TotalOf(q)' = TotalOf(q)
      BY <1>5, <1>6
    <2>3. SignedOnes \subseteq Requests
      BY <1>6
    <2>4. accepted' = 0 \/ \E q \in SignedOnes' : accepted' = TotalOf(q)' /\ PaymentsOf(q)' # {}
      BY <1>0, <1>4, <1>6, <2>1, <2>2, <2>3 DEF FromBounds
    <2>5. \A q \in SignedOnes' : \A p \in PaymentsOf(q)' :
             p.amount <= TotalOf(q)' /\ TotalOf(q)' - p.amount \in Bounds'
      BY <1>0, <1>1, <1>6, <1>8, <2>1, <2>2, <2>3 DEF FromBounds
    <2> QED BY <2>4, <2>5 DEF FromBounds
  <1>10. ToldRightly'
    <2>1. \A q \in Requests : TotalOf(q) \in Nat
      BY <1>0, SignedHaveTotals
    <2>2. \A q \in Requests : TotalOf(q)' \in Nat
      BY <1>1, <1>3, SignedAfter
    <2>3. TotalOf(r) = 0
      BY <1>0, <1>6, <2>1, SignedHaveTotals
    <2> QED BY <1>0, <1>1, <1>4, <2>1, <2>2, <2>3, ToldStays
  <1> QED BY <1>1, <1>2, <1>8, <1>9, <1>10 DEF GatewayInv, Local

(* Nothing of a request or of the channel changes.                          *)
LEMMA OthersKeepInv ==
    ASSUME GatewayInv, UNCHANGED <<signedTotal, accepted, request, payments, attested, lost>>
    PROVE  GatewayInv'
  <1>0. /\ GatewayTyped /\ Tiled /\ SumsAreTotals /\ FromBounds /\ ToldRightly
        /\ \A q \in Requests : Stage(q) /\ Paying(q) /\ Bodies(q)
    BY DEF GatewayInv
  <1>1. GatewayTyped'
    BY <1>0 DEF GatewayTyped
  <1>2. \A q \in Requests : /\ PaymentsOf(q)' = PaymentsOf(q) /\ TotalOf(q)' = TotalOf(q)
                            /\ Asks(q)' = Asks(q)
    BY AsksKeep DEF PaymentsOf, TotalOf
  <1>3. \A q \in Requests : Stage(q)' /\ Paying(q)' /\ Bodies(q)'
    BY <1>0, <1>2 DEF Stage, Paying, Bodies, PaidOnce, chargeFor
  <1>4. SignedOnes' = SignedOnes /\ SignedOnes \subseteq Requests
    BY DEF SignedOnes
  <1>5. ChannelStays
    BY <1>2, <1>4 DEF ChannelStays
  <1>6. Tiled' /\ SumsAreTotals' /\ Bounds' = Bounds
    BY <1>0, <1>1, <1>3, <1>5, TilesStay
  <1>7. FromBounds'
    BY <1>0, <1>2, <1>4, <1>6 DEF FromBounds
  <1>8. ToldRightly'
    BY <1>0, <1>2 DEF ToldRightly
  <1> QED BY <1>1, <1>3, <1>6, <1>7, <1>8 DEF GatewayInv

(* The invariant holds at the start,                                        *)
LEMMA GatewayStarts == GatewayInit => GatewayInv
  <1> SUFFICES ASSUME GatewayInit PROVE GatewayInv
    OBVIOUS
  <1>1. GatewayTyped
    <2>1. NewRequest \in RequestType
      BY DEF NewRequest, NoHeader, RequestType, Headers, Places
    <2>2. request \in [Requests -> RequestType]
      BY <2>1 DEF GatewayInit
    <2> QED BY <2>2 DEF GatewayInit, GatewayTyped, RequestType, Headers
  <1>2. \A r \in Requests :
           /\ request[r].at = "new" /\ request[r].client = "none" /\ request[r].code = NoCode
           /\ request[r].header.scheme = "none" /\ request[r].header.total = 0
           /\ request[r].pieces = <<>> /\ request[r].seen = <<>>
           /\ PaymentsOf(r) = {} /\ attested[r] = {}
    BY DEF GatewayInit, NewRequest, NoHeader, PaymentsOf
  <1>3. \A r \in Requests : Stage(r)
    BY <1>2, GatewayAssumption DEF Stage, Codes
  <1>4. \A r \in Requests : Paying(r) /\ Bodies(r)
    BY <1>2 DEF Paying, Bodies
  <1>5. SignedOnes = {} /\ Bounds = {0} /\ signedTotal = 0 /\ accepted = 0
    <2>1. SignedOnes = {}
      BY <1>2 DEF SignedOnes
    <2> QED BY <2>1 DEF Bounds, GatewayInit
  <1>6. Tiled
    BY <1>5, FS_EmptySet DEF Tiled
  <1>7. SumsAreTotals
    <2>1. SignedBetween(0, 0) = {}
      BY <1>1, <1>3, <1>5, BetweenIs
    <2> QED BY <1>5, <2>1, SumOfNone DEF SumsAreTotals
  <1>8. FromBounds
    BY <1>5 DEF FromBounds
  <1>9. ToldRightly
    BY <1>2, GatewayAssumption DEF ToldRightly, Codes
  <1> QED BY <1>1, <1>3, <1>4, <1>6, <1>7, <1>8, <1>9 DEF GatewayInv

(* every step keeps it,                                                     *)
LEMMA GatewayKept == GatewayInv /\ [GatewayNext]_gatewayVars => GatewayInv'
  <1> SUFFICES ASSUME GatewayInv, [GatewayNext]_gatewayVars PROVE GatewayInv'
    OBVIOUS
  <1>1. CASE Supported \/ DemoInfo \/ UNCHANGED gatewayVars
    BY <1>1, OthersKeepInv DEF Supported, DemoInfo, gatewayVars
  <1>2. CASE \E r \in Requests : \E client \in Clients : Probes(r, client)
    BY <1>2, ProbesKeeps
  <1>3. CASE \E r \in Requests : PaysNow(r)
    BY <1>3, PaysKeeps
  <1>4. CASE \E r \in Requests : Works(r)
    BY <1>4, WorksKeeps
  <1> QED BY <1>1, <1>2, <1>3, <1>4 DEF GatewayNext, Works

(* and it gives the property.                                               *)
LEMMA InvMeansPaidAsOffered == GatewayInv => PaidAsOffered
  <1> SUFFICES ASSUME GatewayInv PROVE PaidAsOffered
    OBVIOUS
  <1>0. /\ GatewayTyped /\ SumsAreTotals /\ FromBounds /\ ToldRightly
        /\ \A q \in Requests : Stage(q) /\ Paying(q) /\ Bodies(q)
    BY DEF GatewayInv
  <1>1. ASSUME NEW r \in Requests, PaidOnce(r)
        PROVE  /\ Cardinality(PaymentsOf(r)) = 1 /\ PaymentsOf(r) # {}
               /\ \E p \in PaymentsOf(r) : p.amount >= chargeFor(r)
    <2>1. PICK p \in payments : PaymentsOf(r) = {p} /\ p.amount >= chargeFor(r)
      BY <1>1 DEF PaidOnce
    <2> QED BY <2>1, FS_Singleton
  <1>2. ServedForPayment
    <2>1. SUFFICES ASSUME NEW r \in Requests
                   PROVE  /\ Cardinality(PaymentsOf(r)) <= 1
                          /\ request[r].at \in {"paid", "serving", "served"} =>
                                \E p \in PaymentsOf(r) : p.amount >= chargeFor(r)
                          /\ request[r].at \in {"refused", "answered", "over"}
                             /\ PaymentsOf(r) # {} => r \in lost
      BY DEF ServedForPayment
    <2>2. PaymentsOf(r) = {} \/ PaidOnce(r)
      BY <1>0, RequestTypes DEF Paying, Places
    <2>3. Cardinality(PaymentsOf(r)) <= 1
      BY <1>1, <2>2, FS_EmptySet
    <2> QED BY <1>0, <1>1, <2>2, <2>3 DEF Paying
  <1>3. OfferIsEnough
    <2>1. SUFFICES ASSUME NEW r \in Requests, request[r].header.scheme = "channel",
                          NEW p \in PaymentsOf(r)
                   PROVE  p.amount = SumFunctionOnSet(AskedBy,
                                        SignedBetween(TotalOf(r) - p.amount, TotalOf(r)))
      BY <1>0 DEF OfferIsEnough, ToldRightly, TotalOf
    <2>2. /\ r \in SignedOnes /\ TotalOf(r) \in Nat /\ TotalOf(r) \in Bounds
      BY <1>0, <2>1, SignedHaveTotals DEF SignedOnes, Bounds
    <2>3. p.amount <= TotalOf(r) /\ TotalOf(r) - p.amount \in Bounds /\ p.amount \in Nat
      BY <1>0, <2>2 DEF FromBounds, PaymentsOf, GatewayTyped
    <2>4. PICK b \in Bounds : b = TotalOf(r) - p.amount
      BY <2>3
    <2>5. SumFunctionOnSet(AskedBy, SignedBetween(b, TotalOf(r))) = TotalOf(r) - b
      BY <1>0, <2>2, <2>3, <2>4 DEF SumsAreTotals
    <2> QED BY <2>2, <2>3, <2>4, <2>5
  <1>4. BodyIsAttested
    <2>1. SUFFICES ASSUME NEW r \in Requests
                   PROVE  /\ attested[r] # {} => request[r].at = "served" /\ PaymentsOf(r) # {}
                          /\ request[r].at = "served" /\ r \notin Sliced
                             /\ request[r].header.scheme = "channel"
                             => /\ Cardinality(attested[r]) = 1
                                /\ AllText(request[r].pieces)
                                      => attested[r] = {request[r].pieces}
      BY DEF BodyIsAttested, AllText
    <2>2. request[r].at = "served" => PaymentsOf(r) # {}
      BY <1>0, <1>1 DEF Paying
    <2> QED BY <1>0, <2>2, FS_Singleton DEF Bodies
  <1> QED BY <1>2, <1>3, <1>4 DEF PaidAsOffered

(* For any requests of any clients, in any order and with any answers lost: a
   handler runs after one payment that is worth the charge, a payment is the
   sum of the vouchers since the one before, and what is attested is the body. *)
THEOREM AlwaysAsOffered == GatewaySpec => []PaidAsOffered
  <1>1. GatewaySpec => []GatewayInv
    BY GatewayStarts, GatewayKept, PTL DEF GatewaySpec
  <1> QED BY <1>1, InvMeansPaidAsOffered, PTL

-----------------------------------------------------------------------------
(* The paid calls of an assistant. *)

CallSteps == Outcomes \cup {"idle", "probing", "opening", "opened", "asking", "paying",
                            "accepted", "answered", "streaming"}

CallType == [at : CallSteps, ch : Nat, voucher : Nat, before : Nat, slices : Nat]

ChannelType == [deposit : Nat, current : Nat, accepted : Nat, open : BOOLEAN]

Started == {u \in Uses : call[u].at # "idle"}

CallsTyped ==
    /\ channels \in Seq(ChannelType) /\ sold \in Seq(Nat) /\ Len(sold) = Len(channels)
    /\ \A i \in DOMAIN channels : /\ channels[i].accepted <= channels[i].current
                                  /\ channels[i].current <= channels[i].deposit
    /\ session \in 0..Len(channels) /\ budget \in Nat
    /\ call \in [Uses -> CallType] /\ IsFiniteSet(Started)
    /\ wire \subseteq [use : Uses, ch : DOMAIN channels, cumulative : Nat]
    /\ totals \in [paid : Nat, payments : Nat]
    /\ overlapped \subseteq Uses

Early == {"idle", "probing", "opening"}

Holding == {"opened", "asking", "paying", "accepted", "answered", "streaming", "refused", "limit"}

(* How far a use is tells what it has got.                                  *)
Placed(u) ==
    LET c == call[u] IN
    /\ c.at \in Early => c.ch = 0
    /\ c.at \in Holding => c.ch \in DOMAIN channels
    /\ c.at = "streaming" => u \in StreamCalls
    /\ c.at = "answered" => u \in Calls
    /\ c.at \in {"paying", "accepted", "streaming"} => c.before <= channels[c.ch].current
    /\ c.at = "paying" => c.voucher = c.before + Price

Unsent == Early \cup {"opened", "asking"}

WireRight(w) ==
    /\ w.cumulative <= channels[w.ch].current
    /\ call[w.use].at \notin Unsent
    /\ call[w.use].at = "paying" =>
          w.ch = call[w.use].ch /\ w.cumulative = call[w.use].voucher

WiresRight == \A w \in wire : WireRight(w)

Alone == \A u, v \in Uses : Running(u) /\ Running(v) /\ u # v => u \in overlapped

(* What is accepted and not yet served.                                     *)
Owed(i) == [u \in Uses |-> IF call[u].at = "accepted" /\ call[u].ch = i THEN Price ELSE 0]

Covered ==
    \A i \in DOMAIN channels :
        sold[i] + SumFunctionOnSet(Owed(i), Started) <= channels[i].accepted

(* What is signed and not yet reported.                                     *)
UnreportedBy(u) ==
    LET c == call[u] IN
    IF u \in StreamCalls
    THEN IF c.at \in {"paying", "accepted", "streaming"}
         THEN channels[c.ch].current - c.before ELSE 0
    ELSE IF c.at \in {"paying", "accepted", "answered"} THEN Price ELSE 0

Unreported == [u \in Uses |-> UnreportedBy(u)]

NoneFailed == \A u \in Uses : call[u].at \notin {"refused", "failed"}

ReportsSigned ==
    overlapped \cap StreamCalls = {} =>
        /\ totals.paid + SumFunctionOnSet(Unreported, Started) <= SignedInAll
        /\ NoneFailed => totals.paid + SumFunctionOnSet(Unreported, Started) = SignedInAll

(* What a use that no other overlaps can rely on.                           *)
Unhindered(u) ==
    LET c == call[u] IN
    /\ c.at = "opening" => session = 0 \/ ~HasRoom(u, session)
    /\ c.at \in {"opened", "asking"} =>
          channels[c.ch].current + Price <= channels[c.ch].deposit
    /\ c.at = "paying" =>
          /\ c.voucher <= channels[c.ch].deposit
          /\ \A w \in wire : w.ch = c.ch /\ w.use # u => w.cumulative <= c.before
          /\ \A w \in wire : w.use = u => channels[c.ch].accepted <= c.before
    /\ c.at \in {"refused", "limit"} => ~channels[c.ch].open

(* The session is the latest channel, and what is left of an earlier one did
   not suffice for some use.                                                *)
LatestKept ==
    overlapped = {} /\ (\A u \in Uses : call[u].at # "failed") =>
        /\ (\A u \in Uses : call[u].at # "opened") => session = Len(channels)
        /\ \A u \in Uses : call[u].at = "opened" =>
              call[u].ch = Len(channels) /\ session = Len(channels) - 1
        /\ \A i \in DOMAIN channels \ {Len(channels)} :
              \E v \in Uses : /\ call[v].ch = i + 1
                              /\ Needed(v) > channels[i].deposit - channels[i].current

CallsInv ==
    /\ CallsTyped /\ (\A u \in Uses : Placed(u)) /\ WiresRight /\ Alone /\ Covered
    /\ ReportsSigned /\ (\A u \in Uses \ overlapped : Unhindered(u)) /\ LatestKept

(* One value changes, and may be new to the sum.                            *)
LEMMA SumMoves ==
    ASSUME NEW f, NEW g, NEW S, IsFiniteSet(S), NEW x,
           \A y \in S \cup {x} : f[y] \in Int /\ g[y] \in Int,
           \A y \in S \ {x} : g[y] = f[y],
           x \notin S => f[x] = 0
    PROVE  SumFunctionOnSet(g, S \cup {x}) = SumFunctionOnSet(f, S) + g[x] - f[x]
  <1> DEFINE T == S \cup {x}
  <1>1. IsFiniteSet(T) /\ x \in T
    BY FS_AddElement
  <1>2. SumFunctionOnSet(g, T) = SumFunctionOnSet(f, T) + g[x] - f[x]
    <2>1. \A y \in T : f[y] \in Int /\ g[y] \in Int
      OBVIOUS
    <2>2. \A y \in T \ {x} : g[y] = f[y]
      OBVIOUS
    <2> HIDE DEF T
    <2> QED BY <1>1, <2>1, <2>2, SumChanges
  <1>3. SumFunctionOnSet(f, T) = SumFunctionOnSet(f, S)
    <2>1. CASE x \in S
      <3>1. T = S
        BY <2>1
      <3> QED BY <3>1
    <2>2. CASE x \notin S
      <3>1. SumFunctionOnSet(f, T) = f[x] + SumFunctionOnSet(f, T \ {x})
        <4>1. \A y \in T : f[y] \in Int
          OBVIOUS
        <4> HIDE DEF T
        <4> QED BY <1>1, <4>1, SumWithout
      <3>2. T \ {x} = S
        BY <2>2
      <3>3. SumFunctionOnSet(f, S) \in Int
        BY SumIsInt
      <3> QED BY <3>1, <3>2, <3>3, <2>2
    <2> QED BY <2>1, <2>2
  <1> QED BY <1>2, <1>3

-----------------------------------------------------------------------------
(* What the actions do to the uses.                                         *)

OtherUsesStay(u) == call' \in [Uses -> CallType] /\ \A v \in Uses \ {u} : call'[v] = call[v]

(* Deposits stay, totals only rise, and what is closed stays closed.        *)
ChannelsGrow ==
    \A i \in DOMAIN channels :
        /\ i \in DOMAIN channels'
        /\ channels'[i].deposit = channels[i].deposit
        /\ channels[i].current <= channels'[i].current
        /\ channels[i].accepted <= channels'[i].accepted
        /\ channels'[i].open => channels[i].open

LEMMA Product == \A m, n \in Nat \ {0} : m * n \in Nat /\ m * n >= m /\ m * n >= n
  OBVIOUS

LEMMA Amounts ==
    /\ Price \in Nat \ {0}
    /\ \A u : Needed(u) \in Nat /\ Needed(u) >= Price
    /\ \A u : Deposit(u) \in Nat /\ Deposit(u) >= Price
  <1>1. Price \in Nat \ {0} /\ Seconds \in Nat \ {0} /\ DEPOSIT \in Nat \ {0}
        /\ SessionCalls \in Nat \ {0}
    BY CallsAssumption
  <1>2. \A u : Needed(u) \in Nat \ {0} /\ Needed(u) >= Price
    BY <1>1, Product DEF Needed
  <1>3. \A u : Needed(u) * SessionCalls \in Nat /\ Needed(u) * SessionCalls >= Needed(u)
    BY <1>1, <1>2, Product
  <1>4. ASSUME NEW u PROVE Deposit(u) \in Nat /\ Deposit(u) >= Price
    <2> DEFINE n == Needed(u)  m == Needed(u) * SessionCalls
    <2>1. n \in Nat /\ n >= Price /\ m \in Nat /\ m >= n
      BY <1>2, <1>3
    <2>2. Deposit(u) = IF m > DEPOSIT THEN m ELSE DEPOSIT
      BY DEF Deposit
    <2> HIDE DEF n, m
    <2>3. m >= Price
      BY <1>1, <2>1
    <2> QED BY <1>1, <2>1, <2>2, <2>3
  <1> QED BY <1>1, <1>2, <1>4

LEMMA UseMoves ==
    ASSUME NEW f \in [Uses -> CallType], NEW u \in Uses, NEW x \in CallType,
           NEW g, g = [f EXCEPT ![u] = x]
    PROVE  g \in [Uses -> CallType] /\ g[u] = x /\ \A v \in Uses \ {u} : g[v] = f[v]
  OBVIOUS

LEMMA CallIsTyped ==
    ASSUME CallsTyped, NEW u \in Uses
    PROVE  /\ call[u] \in CallType
           /\ call[u].at \in CallSteps /\ call[u].ch \in Nat /\ call[u].voucher \in Nat
           /\ call[u].before \in Nat /\ call[u].slices \in Nat
  BY DEF CallsTyped, CallType

LEMMA ChannelIsTyped ==
    ASSUME CallsTyped, NEW i \in DOMAIN channels
    PROVE  /\ channels[i] \in ChannelType
           /\ channels[i].deposit \in Nat /\ channels[i].current \in Nat
           /\ channels[i].accepted \in Nat /\ channels[i].open \in BOOLEAN
           /\ i \in Nat \ {0} /\ i <= Len(channels) /\ sold[i] \in Nat
           /\ i \in DOMAIN sold
  <1>1. channels \in Seq(ChannelType) /\ sold \in Seq(Nat) /\ Len(sold) = Len(channels)
    BY DEF CallsTyped
  <1>2. DOMAIN channels = 1..Len(channels) /\ DOMAIN sold = 1..Len(channels)
        /\ Len(channels) \in Nat
    BY <1>1
  <1>3. channels[i] \in ChannelType /\ sold[i] \in Nat
    BY <1>1, <1>2
  <1> QED BY <1>2, <1>3 DEF ChannelType

LEMMA ChannelIsTypedThen ==
    ASSUME CallsTyped', NEW i, i \in DOMAIN channels'
    PROVE  /\ channels'[i] \in ChannelType
           /\ channels'[i].deposit \in Nat /\ channels'[i].current \in Nat
           /\ channels'[i].accepted \in Nat
  <1>1. channels' \in Seq(ChannelType)
    BY DEF CallsTyped
  <1>2. channels'[i] \in ChannelType
    BY <1>1
  <1> QED BY <1>2 DEF ChannelType

(* A use goes on to another place, and nothing else of it changes.          *)
LEMMA GoesIs ==
    ASSUME CallsTyped, NEW u \in Uses, NEW at \in CallSteps, Goes(u, at)
    PROVE  /\ OtherUsesStay(u) /\ call'[u].at = at /\ call'[u].ch = call[u].ch
           /\ call'[u].voucher = call[u].voucher /\ call'[u].before = call[u].before
  <1> DEFINE x == [call[u] EXCEPT !.at = at]
  <1>1. x \in CallType /\ x.at = at /\ x.ch = call[u].ch /\ x.voucher = call[u].voucher
        /\ x.before = call[u].before
    BY CallIsTyped DEF CallType
  <1>2. call' = [call EXCEPT ![u] = x]
    BY DEF Goes
  <1>3. call \in [Uses -> CallType]
    BY DEF CallsTyped
  <1> HIDE DEF x
  <1>4. call' \in [Uses -> CallType] /\ call'[u] = x /\ \A v \in Uses \ {u} : call'[v] = call[v]
    BY <1>1, <1>2, <1>3, UseMoves
  <1> QED BY <1>1, <1>4 DEF OtherUsesStay

LEMMA StartedStays ==
    ASSUME CallsTyped, NEW u \in Uses, OtherUsesStay(u), call'[u].at # "idle"
    PROVE  Started' = Started \cup {u} /\ IsFiniteSet(Started')
  <1>1. Started' = Started \cup {u}
    BY DEF OtherUsesStay, Started
  <1> QED BY <1>1, FS_AddElement DEF CallsTyped

OwedBy(u, i) == IF call[u].at = "accepted" /\ call[u].ch = i THEN Price ELSE 0

OwedIn(i) == SumFunctionOnSet(Owed(i), Started)

LEMMA OwedIsNat ==
    ASSUME CallsTyped, NEW i
    PROVE  OwedIn(i) \in Nat /\ \A u : OwedBy(u, i) \in Nat
  <1>1. \A u \in Started : Owed(i)[u] \in Nat
    BY Amounts DEF Owed, Started
  <1>2. OwedIn(i) \in Nat
    BY <1>1, SumIsNat DEF OwedIn, CallsTyped
  <1> QED BY <1>2, Amounts DEF OwedBy

LEMMA OwedMoves ==
    ASSUME CallsTyped, NEW u \in Uses, OtherUsesStay(u), call'[u].at # "idle", NEW i
    PROVE  OwedIn(i)' = OwedIn(i) + OwedBy(u, i)' - OwedBy(u, i)
  <1> DEFINE f == Owed(i)
             g == [v \in Uses |-> IF call'[v].at = "accepted" /\ call'[v].ch = i THEN Price ELSE 0]
  <1>1. g = Owed(i)'
    BY DEF Owed
  <1>2. Started' = Started \cup {u} /\ IsFiniteSet(Started)
    BY StartedStays DEF CallsTyped
  <1>3. \A y \in Started \cup {u} : f[y] \in Int /\ g[y] \in Int
    BY Amounts DEF Owed, Started
  <1>4. \A y \in Started \ {u} : g[y] = f[y]
    BY DEF Owed, Started, OtherUsesStay
  <1>5. u \notin Started => f[u] = 0
    BY DEF Owed, Started
  <1>6. f[u] = OwedBy(u, i) /\ g[u] = OwedBy(u, i)'
    BY DEF Owed, OwedBy
  <1> HIDE DEF f, g
  <1>7. SumFunctionOnSet(g, Started \cup {u}) = SumFunctionOnSet(f, Started) + g[u] - f[u]
    BY <1>2, <1>3, <1>4, <1>5, SumMoves
  <1>8. OwedIn(i) = SumFunctionOnSet(f, Started)
    BY DEF OwedIn, f
  <1>9. OwedIn(i)' = SumFunctionOnSet(g, Started \cup {u})
    BY <1>1, <1>2 DEF OwedIn
  <1> QED BY <1>6, <1>7, <1>8, <1>9

LEMMA UnreportedIsNat ==
    ASSUME CallsTyped, \A u \in Uses : Placed(u)
    PROVE  /\ \A u \in Uses : UnreportedBy(u) \in Nat
           /\ SumFunctionOnSet(Unreported, Started) \in Nat
  <1>1. ASSUME NEW u \in Uses PROVE UnreportedBy(u) \in Nat
    <2>1. Price \in Nat
      BY Amounts
    <2>2. CASE u \notin StreamCalls
      BY <2>1, <2>2 DEF UnreportedBy
    <2>3. CASE u \in StreamCalls /\ call[u].at \in {"paying", "accepted", "streaming"}
      <3>1. call[u].ch \in DOMAIN channels /\ call[u].before <= channels[call[u].ch].current
        BY <2>3 DEF Placed, Holding
      <3>2. channels[call[u].ch].current \in Nat /\ call[u].before \in Nat
        BY <3>1, ChannelIsTyped, CallIsTyped
      <3>3. channels[call[u].ch].current - call[u].before \in Nat
        BY <3>1, <3>2
      <3> QED BY <3>3, <2>3 DEF UnreportedBy
    <2>4. CASE u \in StreamCalls /\ call[u].at \notin {"paying", "accepted", "streaming"}
      BY <2>4 DEF UnreportedBy
    <2> QED BY <2>2, <2>3, <2>4
  <1>2. \A u \in Started : Unreported[u] \in Nat
    BY <1>1 DEF Unreported, Started
  <1> QED BY <1>1, <1>2, SumIsNat DEF CallsTyped

LEMMA UnreportedIsNatThen ==
    ASSUME CallsTyped', (\A u \in Uses : Placed(u))'
    PROVE  \A u \in Uses : UnreportedBy(u)' \in Nat
  <1>1. call' \in [Uses -> CallType] /\ channels' \in Seq(ChannelType)
    BY DEF CallsTyped
  <1> SUFFICES ASSUME NEW u \in Uses PROVE UnreportedBy(u)' \in Nat
    OBVIOUS
  <1>2. Price \in Nat
    BY Amounts
  <1>3. CASE u \notin StreamCalls
    BY <1>2, <1>3 DEF UnreportedBy
  <1>4. CASE u \in StreamCalls /\ call'[u].at \in {"paying", "accepted", "streaming"}
    <2>1. call'[u].ch \in DOMAIN channels' /\ call'[u].before <= channels'[call'[u].ch].current
      BY <1>4 DEF Placed, Holding
    <2>2. channels'[call'[u].ch] \in ChannelType /\ call'[u] \in CallType
      BY <1>1, <2>1
    <2>3. channels'[call'[u].ch].current \in Nat /\ call'[u].before \in Nat
      BY <2>2 DEF CallType, ChannelType
    <2>4. channels'[call'[u].ch].current - call'[u].before \in Nat
      BY <2>1, <2>3
    <2> QED BY <2>4, <1>4 DEF UnreportedBy
  <1>5. CASE u \in StreamCalls /\ call'[u].at \notin {"paying", "accepted", "streaming"}
    BY <1>5 DEF UnreportedBy
  <1> QED BY <1>3, <1>4, <1>5

UnreportedIn == SumFunctionOnSet(Unreported, Started)

LEMMA UnreportedMoves ==
    ASSUME CallsTyped, \A u \in Uses : Placed(u), CallsTyped', (\A u \in Uses : Placed(u))',
           NEW u \in Uses, OtherUsesStay(u), call'[u].at # "idle",
           \A v \in Uses \ {u} : UnreportedBy(v)' = UnreportedBy(v)
    PROVE  UnreportedIn' = UnreportedIn + UnreportedBy(u)' - UnreportedBy(u)
  <1> DEFINE f == Unreported
             g == Unreported'
  <1>1. \A v \in Uses : f[v] = UnreportedBy(v) /\ g[v] = UnreportedBy(v)'
    BY DEF Unreported
  <1>2. Started' = Started \cup {u} /\ IsFiniteSet(Started) /\ Started \subseteq Uses
    BY StartedStays DEF CallsTyped, Started
  <1>3. \A y \in Started \cup {u} : f[y] \in Int /\ g[y] \in Int
    BY <1>1, <1>2, UnreportedIsNat, UnreportedIsNatThen
  <1>4. \A y \in Started \ {u} : g[y] = f[y]
    BY <1>1, <1>2
  <1>5. u \notin Started => f[u] = 0
    BY <1>1 DEF UnreportedBy, Started
  <1>6. UnreportedIn = SumFunctionOnSet(f, Started)
    BY DEF UnreportedIn
  <1>7. UnreportedIn' = SumFunctionOnSet(g, Started \cup {u})
    BY <1>2 DEF UnreportedIn
  <1> HIDE DEF f, g
  <1>8. SumFunctionOnSet(g, Started \cup {u}) = SumFunctionOnSet(f, Started) + g[u] - f[u]
    BY <1>2, <1>3, <1>4, <1>5, SumMoves
  <1> QED BY <1>1, <1>6, <1>7, <1>8

-----------------------------------------------------------------------------
(* The channels.                                                            *)

LEMMA SignedIsNat ==
    ASSUME CallsTyped
    PROVE  SignedInAll \in Nat /\ IsFiniteSet(DOMAIN channels)
  <1>1. DOMAIN channels = 1..Len(channels) /\ Len(channels) \in Nat
    BY DEF CallsTyped
  <1>2. IsFiniteSet(DOMAIN channels)
    BY <1>1, FS_Interval
  <1>3. \A i \in DOMAIN channels : SignerTotals[i] \in Nat
    BY ChannelIsTyped DEF SignerTotals
  <1> QED BY <1>2, <1>3, SumIsNat DEF SignedInAll

LEMMA SignedIsNatThen ==
    ASSUME CallsTyped'
    PROVE  SignedInAll' \in Nat
  <1>1. channels' \in Seq(ChannelType)
    BY DEF CallsTyped
  <1> DEFINE f == [i \in DOMAIN channels' |-> channels'[i].current]
             S == DOMAIN channels'
  <1>2. S = 1..Len(channels') /\ Len(channels') \in Nat
    BY <1>1
  <1>3. IsFiniteSet(S)
    BY <1>2, FS_Interval
  <1>4. \A i \in S : f[i] \in Nat
    BY ChannelIsTypedThen
  <1>5. SignedInAll' = SumFunctionOnSet(f, S)
    BY DEF SignedInAll, SignerTotals
  <1> HIDE DEF f, S
  <1> QED BY <1>3, <1>4, <1>5, SumIsNat

(* One signer goes on.                                                      *)
LEMMA SignedMoves ==
    ASSUME CallsTyped, NEW i \in DOMAIN channels, DOMAIN channels' = DOMAIN channels,
           channels'[i].current \in Nat,
           \A j \in DOMAIN channels \ {i} : channels'[j].current = channels[j].current
    PROVE  SignedInAll' = SignedInAll + channels'[i].current - channels[i].current
  <1> DEFINE f == SignerTotals
             g == [j \in DOMAIN channels |-> channels'[j].current]
             S == DOMAIN channels
  <1>1. g = SignerTotals'
    BY DEF SignerTotals
  <1>2. IsFiniteSet(S)
    BY SignedIsNat
  <1>3. \A j \in S : f[j] \in Int /\ g[j] \in Int
    BY ChannelIsTyped DEF SignerTotals
  <1>4. \A j \in S \ {i} : g[j] = f[j]
    BY DEF SignerTotals
  <1>5. f[i] = channels[i].current /\ g[i] = channels'[i].current
    BY DEF SignerTotals
  <1>6. SignedInAll = SumFunctionOnSet(f, S) /\ SignedInAll' = SumFunctionOnSet(g, S)
    BY <1>1 DEF SignedInAll
  <1> HIDE DEF f, g, S
  <1>7. SumFunctionOnSet(g, S) = SumFunctionOnSet(f, S) + g[i] - f[i]
    BY <1>2, <1>3, <1>4, SumChanges DEF S
  <1> QED BY <1>5, <1>6, <1>7

(* One is added, with nothing signed.                                       *)
LEMMA SignedAdded ==
    ASSUME CallsTyped, NEW x, x.current = 0, channels' = Append(channels, x)
    PROVE  SignedInAll' = SignedInAll
  <1> DEFINE n == Len(channels) + 1
             S == DOMAIN channels
             f == [j \in S \cup {n} |-> IF j = n THEN 0 ELSE channels[j].current]
  <1>1. channels \in Seq(ChannelType) /\ Len(channels) \in Nat /\ S = 1..Len(channels)
    BY DEF CallsTyped
  <1>2. DOMAIN channels' = S \cup {n} /\ n \notin S
    BY <1>1
  <1>3. SignerTotals' = f
    <2>1. SignerTotals' = [j \in DOMAIN channels' |-> channels'[j].current]
      BY DEF SignerTotals
    <2>2. channels'[n] = x /\ \A j \in S : channels'[j] = channels[j]
      BY <1>1
    <2> QED BY <2>1, <2>2, <1>2
  <1>4. SignedInAll' = SumFunctionOnSet(f, S \cup {n})
    BY <1>2, <1>3 DEF SignedInAll
  <1>5. SignedInAll = SumFunctionOnSet(SignerTotals, S)
    BY DEF SignedInAll
  <1>6. \A y \in S \cup {n} : f[y] \in Int
    BY ChannelIsTyped
  <1>7. IsFiniteSet(S \cup {n}) /\ IsFiniteSet(S)
    BY SignedIsNat, FS_AddElement
  <1>8. \A y \in S : f[y] = SignerTotals[y]
    BY <1>2 DEF SignerTotals
  <1>9. f[n] = 0 /\ n \in S \cup {n} /\ (S \cup {n}) \ {n} = S
    BY <1>2
  <1> HIDE DEF f, S, n
  <1>10. SumFunctionOnSet(f, S \cup {n}) = 0 + SumFunctionOnSet(f, S)
    <2>1. SumFunctionOnSet(f, S \cup {n}) = f[n] + SumFunctionOnSet(f, (S \cup {n}) \ {n})
      BY <1>6, <1>7, <1>9, SumWithout
    <2> QED BY <2>1, <1>9
  <1>11. SumFunctionOnSet(f, S) = SumFunctionOnSet(SignerTotals, S)
    BY <1>7, <1>8, SumOfSame
  <1>12. SignedInAll \in Nat
    BY SignedIsNat
  <1> QED BY <1>4, <1>5, <1>10, <1>11, <1>12

(* One of the channels becomes another.                                     *)
LEMMA ChannelMoves ==
    ASSUME CallsTyped, NEW i \in DOMAIN channels, NEW x \in ChannelType,
           channels' = [channels EXCEPT ![i] = x]
    PROVE  /\ channels' \in Seq(ChannelType) /\ Len(channels') = Len(channels)
           /\ DOMAIN channels' = DOMAIN channels
           /\ channels'[i] = x /\ \A j \in DOMAIN channels \ {i} : channels'[j] = channels[j]
  BY DEF CallsTyped

-----------------------------------------------------------------------------
(* What a step of one use leaves true of the others.                        *)

LEMMA PlacedStays ==
    ASSUME CallsTyped, CallsTyped', NEW v \in Uses, Placed(v), call'[v] = call[v], ChannelsGrow
    PROVE  Placed(v)'
  <1>1. ASSUME call[v].at \in {"paying", "accepted", "streaming"}
        PROVE  call[v].before <= channels'[call[v].ch].current
    <2> DEFINE i == call[v].ch
    <2>1. i \in DOMAIN channels /\ call[v].before <= channels[i].current
      BY <1>1 DEF Placed, Holding
    <2> HIDE DEF i
    <2>2. i \in DOMAIN channels' /\ channels[i].current <= channels'[i].current
      BY <2>1 DEF ChannelsGrow
    <2>4. channels'[i].current \in Nat
      BY <2>2, ChannelIsTypedThen
    <2>5. channels[i].current \in Nat /\ call[v].before \in Nat
      BY <2>1, ChannelIsTyped, CallIsTyped
    <2>6. call[v].before <= channels'[i].current
      BY <2>1, <2>2, <2>4, <2>5
    <2> QED BY <2>6 DEF i
  <1>2. call[v].at \in Holding => call[v].ch \in DOMAIN channels'
    BY DEF Placed, ChannelsGrow
  <1> QED BY <1>1, <1>2 DEF Placed

LEMMA OldWires ==
    ASSUME CallsTyped, CallsTyped', WiresRight, NEW u \in Uses, OtherUsesStay(u), ChannelsGrow,
           call[u].at \in Unsent \/ call'[u].at \notin Unsent \cup {"paying"},
           NEW w \in wire
    PROVE  WireRight(w)'
  <1>1. w.use \in Uses /\ w.ch \in DOMAIN channels /\ w.cumulative \in Nat
    BY DEF CallsTyped
  <1>2. w.ch \in DOMAIN channels' /\ channels[w.ch].current <= channels'[w.ch].current
    BY <1>1 DEF ChannelsGrow
  <1>3. channels[w.ch].current \in Nat /\ channels'[w.ch].current \in Nat
    BY <1>1, <1>2, ChannelIsTyped, ChannelIsTypedThen
  <1>4. w.cumulative <= channels[w.ch].current /\ call[w.use].at \notin Unsent
    BY <1>1 DEF WiresRight, WireRight
  <1>5. call'[w.use].at \notin Unsent
        /\ (call'[w.use].at = "paying" => call'[w.use] = call[w.use])
    BY <1>1, <1>4 DEF OtherUsesStay
  <1>6. w.cumulative <= channels'[w.ch].current
    BY <1>1, <1>2, <1>3, <1>4
  <1> QED BY <1>1, <1>5, <1>6 DEF WiresRight, WireRight

LEMMA WiresStay ==
    ASSUME CallsTyped, CallsTyped', WiresRight, NEW u \in Uses, OtherUsesStay(u), ChannelsGrow,
           wire' \subseteq wire,
           call[u].at \in Unsent \/ call'[u].at \notin Unsent \cup {"paying"}
    PROVE  WiresRight'
  <1>1. \A w \in wire : WireRight(w)'
    BY OldWires
  <1> QED BY <1>1 DEF WiresRight

LEMMA AloneStays ==
    ASSUME Alone, NEW u \in Uses, OtherUsesStay(u), Running(u), overlapped' = overlapped
    PROVE  Alone'
  BY DEF Alone, OtherUsesStay, Running

LEMMA OthersUnhindered ==
    ASSUME \A v \in Uses : Placed(v), \A v \in Uses \ overlapped : Unhindered(v), Alone,
           NEW u \in Uses, OtherUsesStay(u), Running(u), ChannelsGrow, overlapped' = overlapped
    PROVE  \A v \in Uses \ (overlapped' \cup {u}) : Unhindered(v)'
  <1> SUFFICES ASSUME NEW v \in Uses \ (overlapped' \cup {u}) PROVE Unhindered(v)'
    OBVIOUS
  <1>1. ~Running(v) /\ call'[v] = call[v] /\ v \notin overlapped
    BY DEF Alone, OtherUsesStay
  <1>2. call[v].at \notin {"opening", "opened", "asking", "paying"}
    BY <1>1 DEF Running
  <1>3. call[v].at \in {"refused", "limit"} => ~channels'[call[v].ch].open
    BY <1>1 DEF Unhindered, Placed, Holding, ChannelsGrow
  <1> QED BY <1>1, <1>2, <1>3 DEF Unhindered

LEMMA CoveredStays ==
    ASSUME CallsTyped, Covered, NEW u \in Uses, OtherUsesStay(u), call'[u].at # "idle",
           DOMAIN channels' = DOMAIN channels,
           \A i \in DOMAIN channels :
              /\ sold'[i] \in Nat /\ channels'[i].accepted \in Nat
              /\ sold'[i] + OwedBy(u, i)' + channels[i].accepted
                    <= sold[i] + OwedBy(u, i) + channels'[i].accepted
    PROVE  Covered'
  <1> SUFFICES ASSUME NEW i \in DOMAIN channels
               PROVE  sold'[i] + OwedIn(i)' <= channels'[i].accepted
    BY DEF Covered, OwedIn
  <1>1. OwedIn(i)' = OwedIn(i) + OwedBy(u, i)' - OwedBy(u, i)
    BY OwedMoves
  <1>2. OwedIn(i) \in Nat /\ OwedBy(u, i) \in Nat
    BY OwedIsNat
  <1>3. OwedBy(u, i)' \in Nat
    BY Amounts DEF OwedBy
  <1>4. sold[i] + OwedIn(i) <= channels[i].accepted
    BY DEF Covered, OwedIn
  <1>5. sold[i] \in Nat /\ channels[i].accepted \in Nat
    BY ChannelIsTyped
  <1>6. sold'[i] \in Nat /\ channels'[i].accepted \in Nat
        /\ sold'[i] + OwedBy(u, i)' + channels[i].accepted
              <= sold[i] + OwedBy(u, i) + channels'[i].accepted
    OBVIOUS
  <1> QED BY <1>1, <1>2, <1>3, <1>4, <1>5, <1>6

LEMMA SignedStays ==
    ASSUME CallsTyped, \A v \in Uses : Placed(v), CallsTyped', (\A v \in Uses : Placed(v))',
           ReportsSigned, NEW u \in Uses, OtherUsesStay(u), call'[u].at # "idle",
           call[u].at \notin {"refused", "failed"}, overlapped \subseteq overlapped',
           overlapped' \cap StreamCalls = {} =>
              /\ \A v \in Uses \ {u} : UnreportedBy(v)' = UnreportedBy(v)
              /\ totals'.paid + UnreportedBy(u)' + SignedInAll
                    <= totals.paid + UnreportedBy(u) + SignedInAll'
              /\ call'[u].at \notin {"refused", "failed"} =>
                    totals'.paid + UnreportedBy(u)' + SignedInAll
                       = totals.paid + UnreportedBy(u) + SignedInAll'
    PROVE  ReportsSigned'
  <1> SUFFICES ASSUME overlapped' \cap StreamCalls = {}
               PROVE  /\ totals'.paid + UnreportedIn' <= SignedInAll'
                      /\ NoneFailed' => totals'.paid + UnreportedIn' = SignedInAll'
    BY DEF ReportsSigned, UnreportedIn
  <1>1. UnreportedIn' = UnreportedIn + UnreportedBy(u)' - UnreportedBy(u)
    BY UnreportedMoves
  <1>2. UnreportedIn \in Nat /\ UnreportedBy(u) \in Nat /\ UnreportedBy(u)' \in Nat
    BY UnreportedIsNat, UnreportedIsNatThen DEF UnreportedIn
  <1>3. SignedInAll \in Nat /\ SignedInAll' \in Nat
    <2>1. SignedInAll \in Nat
      BY SignedIsNat
    <2>2. SignedInAll' \in Nat
      BY SignedIsNatThen
    <2> QED BY <2>1, <2>2
  <1>4. totals.paid \in Nat /\ totals'.paid \in Nat
    BY DEF CallsTyped
  <1>5. totals.paid + UnreportedIn <= SignedInAll
        /\ (NoneFailed => totals.paid + UnreportedIn = SignedInAll)
    BY DEF ReportsSigned, UnreportedIn
  <1>6. NoneFailed' => NoneFailed /\ call'[u].at \notin {"refused", "failed"}
    BY DEF NoneFailed, OtherUsesStay
  <1>7. totals'.paid + UnreportedBy(u)' + SignedInAll
           <= totals.paid + UnreportedBy(u) + SignedInAll'
        /\ (call'[u].at \notin {"refused", "failed"} =>
              totals'.paid + UnreportedBy(u)' + SignedInAll
                 = totals.paid + UnreportedBy(u) + SignedInAll')
    OBVIOUS
  <1> DEFINE p == totals.paid  q == totals'.paid  s == SignedInAll  t == SignedInAll'
             a == UnreportedIn  b == UnreportedIn'  x == UnreportedBy(u)  y == UnreportedBy(u)'
  <1> HIDE DEF p, q, s, t, a, b, x, y
  <1>8. /\ b = a + y - x /\ a \in Nat /\ x \in Nat /\ y \in Nat /\ s \in Nat /\ t \in Nat
        /\ p \in Nat /\ q \in Nat /\ p + a <= s /\ q + y + s <= p + x + t
    BY <1>1, <1>2, <1>3, <1>4, <1>5, <1>7 DEF p, q, s, t, a, b, x, y
  <1>9. NoneFailed' => p + a = s /\ q + y + s = p + x + t
    BY <1>5, <1>6, <1>7 DEF p, q, s, t, a, b, x, y
  <1>10. q + b <= t
    BY <1>8
  <1>11. ASSUME p + a = s, q + y + s = p + x + t PROVE q + b = t
    BY <1>8, <1>11
  <1> QED BY <1>9, <1>10, <1>11 DEF p, q, s, t, a, b, x, y

LEMMA LatestStays ==
    ASSUME CallsTyped, CallsTyped', \A v \in Uses : Placed(v), LatestKept,
           NEW u \in Uses, OtherUsesStay(u), ChannelsGrow,
           call[u].at # "failed", overlapped \subseteq overlapped',
           DOMAIN channels' = DOMAIN channels, Len(channels') = Len(channels),
           session' = session,
           call'[u].at # "opened", call[u].at = "opened" => call'[u].at = "failed",
           call[u].ch # 0 => call'[u].ch = call[u].ch
    PROVE  LatestKept'
  <1> SUFFICES ASSUME overlapped' = {}, \A v \in Uses : call'[v].at # "failed"
               PROVE  /\ (\A v \in Uses : call'[v].at # "opened") => session = Len(channels)
                      /\ \A v \in Uses : call'[v].at = "opened" =>
                            call'[v].ch = Len(channels) /\ session = Len(channels) - 1
                      /\ \A i \in DOMAIN channels \ {Len(channels)} :
                            \E v \in Uses : /\ call'[v].ch = i + 1
                                            /\ Needed(v) > channels'[i].deposit
                                                             - channels'[i].current
    BY DEF LatestKept
  <1>1. overlapped = {} /\ \A v \in Uses : call[v].at # "failed"
    BY DEF OtherUsesStay
  <1>2. call[u].at # "opened"
    OBVIOUS
  <1>3. (\A v \in Uses : call'[v].at # "opened") => \A v \in Uses : call[v].at # "opened"
    BY <1>2 DEF OtherUsesStay
  <1>4. (\A v \in Uses : call'[v].at # "opened") => session = Len(channels)
    BY <1>1, <1>3 DEF LatestKept
  <1>5. \A v \in Uses : call'[v].at = "opened" =>
           call'[v].ch = Len(channels) /\ session = Len(channels) - 1
    BY <1>1 DEF LatestKept, OtherUsesStay
  <1>6. ASSUME NEW i \in DOMAIN channels \ {Len(channels)}
        PROVE  \E v \in Uses : /\ call'[v].ch = i + 1
                               /\ Needed(v) > channels'[i].deposit - channels'[i].current
    <2>1. PICK v \in Uses : /\ call[v].ch = i + 1
                            /\ Needed(v) > channels[i].deposit - channels[i].current
      BY <1>1 DEF LatestKept
    <2>2. call'[v].ch = i + 1
      BY <2>1, ChannelIsTyped DEF OtherUsesStay
    <2>3. channels'[i].deposit = channels[i].deposit
          /\ channels[i].current <= channels'[i].current
      BY DEF ChannelsGrow
    <2>4. channels'[i].current \in Nat
      BY ChannelIsTypedThen
    <2>5. channels[i].current \in Nat /\ channels[i].deposit \in Nat /\ Needed(v) \in Nat
      BY ChannelIsTyped, Amounts
    <2>6. Needed(v) > channels'[i].deposit - channels'[i].current
      BY <2>1, <2>3, <2>4, <2>5
    <2> QED BY <2>2, <2>6
  <1> QED BY <1>4, <1>5, <1>6

-----------------------------------------------------------------------------
(* The steps that sign and verify nothing.                                  *)

LEMMA NothingGrows ==
    ASSUME CallsTyped, channels' = channels
    PROVE  ChannelsGrow
  BY ChannelIsTyped DEF ChannelsGrow

LEMMA QuietKeeps ==
    ASSUME CallsInv, NEW u \in Uses, Running(u), OtherUsesStay(u),
           UNCHANGED <<channels, sold, budget, overlapped>>, wire' \subseteq wire,
           session' \in 0..Len(channels), totals' \in [paid : Nat, payments : Nat],
           call'[u].at # "idle", Placed(u)',
           call[u].at \in Unsent \/ call'[u].at \notin Unsent \cup {"paying"},
           call'[u].at = "accepted" => call'[u] = call[u]
    PROVE  /\ CallsTyped' /\ (\A v \in Uses : Placed(v))' /\ WiresRight' /\ Alone' /\ Covered'
           /\ \A v \in Uses \ (overlapped' \cup {u}) : Unhindered(v)'
           /\ \A v \in Uses \ {u} : UnreportedBy(v)' = UnreportedBy(v)
           /\ SignedInAll' = SignedInAll /\ ChannelsGrow
  <1>0. CallsTyped /\ (\A v \in Uses : Placed(v)) /\ WiresRight /\ Alone /\ Covered
        /\ \A v \in Uses \ overlapped : Unhindered(v)
    BY DEF CallsInv
  <1>1. CallsTyped'
    <2>1. IsFiniteSet(Started') /\ call' \in [Uses -> CallType]
      BY <1>0, StartedStays DEF OtherUsesStay
    <2> QED BY <1>0, <2>1 DEF CallsTyped
  <1>2. ChannelsGrow
    BY <1>0, NothingGrows
  <1>3. ASSUME NEW v \in Uses PROVE Placed(v)'
    <2>1. CASE v = u
      BY <2>1
    <2>2. CASE v # u
      BY <1>0, <1>1, <1>2, <2>2, PlacedStays DEF OtherUsesStay
    <2> QED BY <2>1, <2>2
  <1>4. WiresRight'
    BY <1>0, <1>1, <1>2, WiresStay
  <1>5. Alone'
    BY <1>0, AloneStays
  <1>6. Covered'
    <2>1. ASSUME NEW i \in DOMAIN channels
          PROVE  /\ sold'[i] \in Nat /\ channels'[i].accepted \in Nat
                 /\ sold'[i] + OwedBy(u, i)' + channels[i].accepted
                       <= sold[i] + OwedBy(u, i) + channels'[i].accepted
      <3>1. sold[i] \in Nat /\ channels[i].accepted \in Nat
        BY <1>0, ChannelIsTyped
      <3>2. OwedBy(u, i)' = OwedBy(u, i) \/ OwedBy(u, i)' = 0
        BY DEF OwedBy
      <3>3. OwedBy(u, i) \in Nat
        BY <1>0, OwedIsNat
      <3>4. OwedBy(u, i)' <= OwedBy(u, i) /\ OwedBy(u, i)' \in Nat
        BY <3>2, <3>3
      <3> QED BY <3>1, <3>3, <3>4
    <2> QED BY <1>0, <2>1, CoveredStays
  <1>7. \A v \in Uses \ (overlapped' \cup {u}) : Unhindered(v)'
    BY <1>0, <1>2, OthersUnhindered
  <1>8. \A v \in Uses \ {u} : UnreportedBy(v)' = UnreportedBy(v)
    BY DEF UnreportedBy, OtherUsesStay
  <1>9. SignedInAll' = SignedInAll
    BY DEF SignedInAll, SignerTotals
  <1> QED BY <1>1, <1>2, <1>3, <1>4, <1>5, <1>6, <1>7, <1>8, <1>9

(* A use ends with nothing: a refusal, the limit, an error.                 *)
LEMMA GivesUpKeeps ==
    ASSUME CallsInv, NEW u \in Uses, Running(u), NEW at \in {"policy", "limit", "failed"},
           Goes(u, at), UNCHANGED <<channels, session, budget, wire, totals, sold, overlapped>>,
           at = "failed" \/ call[u].at \in {"opening", "asking"},
           at = "limit" => call[u].at = "asking" /\ u \in overlapped
    PROVE  CallsInv'
  <1>0. CallsTyped /\ (\A v \in Uses : Placed(v)) /\ ReportsSigned /\ LatestKept
    BY DEF CallsInv
  <1>1. /\ OtherUsesStay(u) /\ call'[u].at = at /\ call'[u].ch = call[u].ch
        /\ call'[u].voucher = call[u].voucher /\ call'[u].before = call[u].before
    BY <1>0, GoesIs DEF CallSteps, Outcomes
  <1>2. Placed(u)'
    BY <1>0, <1>1 DEF Placed, Early, Holding
  <1>3. /\ CallsTyped' /\ (\A v \in Uses : Placed(v))' /\ WiresRight' /\ Alone' /\ Covered'
        /\ \A v \in Uses \ (overlapped' \cup {u}) : Unhindered(v)'
        /\ \A v \in Uses \ {u} : UnreportedBy(v)' = UnreportedBy(v)
        /\ SignedInAll' = SignedInAll /\ ChannelsGrow
    <2>1. session' \in 0..Len(channels) /\ totals' \in [paid : Nat, payments : Nat]
      BY <1>0 DEF CallsTyped
    <2>2. call'[u].at # "idle" /\ call'[u].at \notin Unsent \cup {"paying"}
          /\ call'[u].at # "accepted"
      BY <1>1 DEF Unsent, Early
    <2> QED BY <1>1, <1>2, <2>1, <2>2, QuietKeeps
  <1>4. Unhindered(u)' \/ u \in overlapped'
    BY <1>1 DEF Unhindered
  <1>5. ReportsSigned'
    <2>1. UnreportedBy(u)' = 0 /\ UnreportedBy(u) \in Nat /\ SignedInAll \in Nat
          /\ totals.paid \in Nat
      BY <1>0, <1>1, UnreportedIsNat, SignedIsNat DEF UnreportedBy, CallsTyped
    <2>2. at # "failed" => UnreportedBy(u) = 0
      BY DEF UnreportedBy
    <2>3. /\ totals'.paid + UnreportedBy(u)' + SignedInAll
                <= totals.paid + UnreportedBy(u) + SignedInAll'
          /\ call'[u].at \notin {"refused", "failed"} =>
                totals'.paid + UnreportedBy(u)' + SignedInAll
                   = totals.paid + UnreportedBy(u) + SignedInAll'
      BY <1>1, <1>3, <2>1, <2>2
    <2>4. call[u].at \notin {"refused", "failed"} /\ call'[u].at # "idle"
      BY <1>1 DEF Running
    <2> QED BY <1>0, <1>1, <1>3, <2>3, <2>4, SignedStays
  <1>6. LatestKept'
    <2>1. call[u].at # "failed" /\ call'[u].at # "opened"
          /\ (call[u].at = "opened" => call'[u].at = "failed")
      BY <1>1 DEF Running
    <2> QED BY <1>0, <1>1, <1>3, <2>1, LatestStays
  <1> QED BY <1>3, <1>4, <1>5, <1>6 DEF CallsInv

LEMMA RefusalsKeep ==
    ASSUME CallsInv, NEW u \in Uses,
           OpenRefused(u) \/ LimitReached(u) \/ StreamThrows(u) \/ MeterTimesOut(u) \/ BuyerFails(u)
    PROVE  CallsInv'
  <1>1. CASE OpenRefused(u)
    BY <1>1, GivesUpKeeps DEF OpenRefused, Running
  <1>2. CASE LimitReached(u)
    <2>1. u \in overlapped
      <3>1. SUFFICES ASSUME u \notin overlapped PROVE FALSE
        OBVIOUS
      <3>2. channels[call[u].ch].current + Price <= channels[call[u].ch].deposit
        BY <1>2, <3>1 DEF LimitReached, CallsInv, Unhindered
      <3>3. call[u].ch \in DOMAIN channels
        BY <1>2 DEF LimitReached, CallsInv, Placed, Holding
      <3>4. channels[call[u].ch].current \in Nat /\ channels[call[u].ch].deposit \in Nat
            /\ Price \in Nat
        BY <3>3, ChannelIsTyped, Amounts DEF CallsInv
      <3> QED BY <1>2, <3>2, <3>4 DEF LimitReached
    <2> QED BY <1>2, <2>1, GivesUpKeeps DEF LimitReached, Running
  <1>3. CASE StreamThrows(u)
    BY <1>3, GivesUpKeeps DEF StreamThrows, Running
  <1>4. CASE MeterTimesOut(u)
    BY <1>4, GivesUpKeeps DEF MeterTimesOut, Running
  <1>5. CASE BuyerFails(u)
    BY <1>5, GivesUpKeeps DEF BuyerFails, Running
  <1> QED BY <1>1, <1>2, <1>3, <1>4, <1>5

LEMMA ProbedKeeps ==
    ASSUME CallsInv, NEW u \in Uses, Probed(u)
    PROVE  CallsInv'
  <1>0. CallsTyped /\ (\A v \in Uses : Placed(v)) /\ ReportsSigned /\ LatestKept
        /\ call[u].at = "probing" /\ call[u].ch = 0 /\ Running(u)
        /\ session \in Nat /\ session <= Len(channels) /\ Len(channels) \in Nat
        /\ DOMAIN channels = 1..Len(channels)
        /\ UNCHANGED <<channels, session, budget, wire, totals, sold, overlapped>>
    BY DEF CallsInv, Probed, Placed, Early, CallsTyped, Running
  <1> DEFINE ready == session # 0 /\ HasRoom(u, session)
             x == [call[u] EXCEPT !.at = "asking", !.ch = session]
             y == [call[u] EXCEPT !.at = "opening"]
  <1>1. /\ OtherUsesStay(u)
        /\ IF ready THEN call'[u].at = "asking" /\ call'[u].ch = session
           ELSE call'[u].at = "opening" /\ call'[u].ch = 0
    <2>1. x \in CallType /\ x.at = "asking" /\ x.ch = session
          /\ y \in CallType /\ y.at = "opening" /\ y.ch = 0
      BY <1>0, CallIsTyped DEF CallType, CallSteps
    <2>2. call' = IF ready THEN [call EXCEPT ![u] = x] ELSE [call EXCEPT ![u] = y]
      BY <1>0 DEF Probed, CallsTyped
    <2>3. call \in [Uses -> CallType]
      BY <1>0 DEF CallsTyped
    <2> HIDE DEF x, y, ready
    <2>4. CASE ready
      <3>1. call' = [call EXCEPT ![u] = x]
        BY <2>2, <2>4
      <3>2. call' \in [Uses -> CallType] /\ call'[u] = x
            /\ \A v \in Uses \ {u} : call'[v] = call[v]
        BY <2>1, <2>3, <3>1, UseMoves
      <3> QED BY <2>1, <2>4, <3>2 DEF OtherUsesStay
    <2>5. CASE ~ready
      <3>1. call' = [call EXCEPT ![u] = y]
        BY <2>2, <2>5
      <3>2. call' \in [Uses -> CallType] /\ call'[u] = y
            /\ \A v \in Uses \ {u} : call'[v] = call[v]
        BY <2>1, <2>3, <3>1, UseMoves
      <3> QED BY <2>1, <2>5, <3>2 DEF OtherUsesStay
    <2> QED BY <2>4, <2>5
  <1>2. Placed(u)'
    BY <1>0, <1>1 DEF Placed, Early, Holding
  <1>3. /\ CallsTyped' /\ (\A v \in Uses : Placed(v))' /\ WiresRight' /\ Alone' /\ Covered'
        /\ \A v \in Uses \ (overlapped' \cup {u}) : Unhindered(v)'
        /\ \A v \in Uses \ {u} : UnreportedBy(v)' = UnreportedBy(v)
        /\ SignedInAll' = SignedInAll /\ ChannelsGrow
    <2>1. session' \in 0..Len(channels) /\ totals' \in [paid : Nat, payments : Nat]
      BY <1>0 DEF CallsTyped
    <2>2. call'[u].at # "idle" /\ call[u].at \in Unsent /\ call'[u].at # "accepted"
      BY <1>0, <1>1 DEF Unsent, Early
    <2> QED BY <1>0, <1>1, <1>2, <2>1, <2>2, QuietKeeps
  <1>4. Unhindered(u)'
    <2>1. CASE ready
      <3>1. session \in DOMAIN channels
        BY <1>0, <2>1
      <3>2. /\ channels[session].current \in Nat /\ channels[session].deposit \in Nat
            /\ Price \in Nat /\ Needed(u) \in Nat /\ Needed(u) >= Price
        BY <1>0, <3>1, ChannelIsTyped, Amounts
      <3>3. channels[session].deposit - channels[session].current >= Needed(u)
        BY <2>1 DEF HasRoom
      <3>4. channels[session].current + Price <= channels[session].deposit
        BY <3>2, <3>3
      <3> QED BY <1>0, <1>1, <2>1, <3>4 DEF Unhindered
    <2>2. CASE ~ready
      <3>1. session = 0 \/ ~HasRoom(u, session)
        BY <2>2
      <3>2. session' = 0 \/ ~HasRoom(u, session)'
        BY <1>0, <3>1 DEF HasRoom
      <3>3. call'[u].at = "opening"
        BY <1>1, <2>2
      <3> QED BY <3>2, <3>3 DEF Unhindered
    <2> QED BY <2>1, <2>2
  <1>5. ReportsSigned'
    <2>1. UnreportedBy(u)' = 0 /\ UnreportedBy(u) = 0
      BY <1>0, <1>1 DEF UnreportedBy
    <2>2. SignedInAll \in Nat /\ totals.paid \in Nat /\ totals'.paid = totals.paid
      BY <1>0, SignedIsNat DEF CallsTyped
    <2>3. totals'.paid + UnreportedBy(u)' + SignedInAll
             = totals.paid + UnreportedBy(u) + SignedInAll'
          /\ totals'.paid + UnreportedBy(u)' + SignedInAll
                <= totals.paid + UnreportedBy(u) + SignedInAll'
      BY <1>3, <2>1, <2>2
    <2>4. call'[u].at # "idle"
      BY <1>1
    <2> QED BY <1>0, <1>1, <1>3, <2>3, <2>4, SignedStays
  <1>6. LatestKept'
    <2>1. call'[u].at # "opened"
      BY <1>1
    <2> QED BY <1>0, <1>1, <1>3, <2>1, LatestStays
  <1> QED BY <1>3, <1>4, <1>5, <1>6 DEF CallsInv

LEMMA SessionSetKeeps ==
    ASSUME CallsInv, NEW u \in Uses, SessionSet(u)
    PROVE  CallsInv'
  <1>0. CallsTyped /\ (\A v \in Uses : Placed(v)) /\ ReportsSigned /\ LatestKept /\ Alone
        /\ call[u].at = "opened" /\ call[u].ch \in DOMAIN channels /\ Running(u)
        /\ session' = call[u].ch /\ Goes(u, "asking")
        /\ UNCHANGED <<channels, budget, wire, totals, sold, overlapped>>
    BY DEF CallsInv, SessionSet, Placed, Holding, Running
  <1>1. /\ OtherUsesStay(u) /\ call'[u].at = "asking" /\ call'[u].ch = call[u].ch
        /\ call'[u].voucher = call[u].voucher /\ call'[u].before = call[u].before
    BY <1>0, GoesIs DEF CallSteps
  <1>2. Placed(u)'
    BY <1>0, <1>1 DEF Placed, Early, Holding
  <1>3. /\ CallsTyped' /\ (\A v \in Uses : Placed(v))' /\ WiresRight' /\ Alone' /\ Covered'
        /\ \A v \in Uses \ (overlapped' \cup {u}) : Unhindered(v)'
        /\ \A v \in Uses \ {u} : UnreportedBy(v)' = UnreportedBy(v)
        /\ SignedInAll' = SignedInAll /\ ChannelsGrow
    <2>1. session' \in 0..Len(channels) /\ totals' \in [paid : Nat, payments : Nat]
      BY <1>0 DEF CallsTyped
    <2>2. call'[u].at # "idle" /\ call[u].at \in Unsent /\ call'[u].at # "accepted"
      BY <1>0, <1>1 DEF Unsent, Early
    <2> QED BY <1>0, <1>1, <1>2, <2>1, <2>2, QuietKeeps
  <1>4. u \notin overlapped => Unhindered(u)'
    <2>1. u \notin overlapped =>
             channels[call[u].ch].current + Price <= channels[call[u].ch].deposit
      BY <1>0 DEF CallsInv, Unhindered
    <2> QED BY <1>0, <1>1, <2>1 DEF Unhindered
  <1>5. ReportsSigned'
    <2>1. UnreportedBy(u)' = 0 /\ UnreportedBy(u) = 0
      BY <1>0, <1>1 DEF UnreportedBy
    <2>2. SignedInAll \in Nat /\ totals.paid \in Nat /\ totals'.paid = totals.paid
      BY <1>0, SignedIsNat DEF CallsTyped
    <2>3. totals'.paid + UnreportedBy(u)' + SignedInAll
             = totals.paid + UnreportedBy(u) + SignedInAll'
          /\ totals'.paid + UnreportedBy(u)' + SignedInAll
                <= totals.paid + UnreportedBy(u) + SignedInAll'
      BY <1>3, <2>1, <2>2
    <2>4. call'[u].at # "idle"
      BY <1>1
    <2> QED BY <1>0, <1>1, <1>3, <2>3, <2>4, SignedStays
  <1>6. LatestKept'
    <2> SUFFICES ASSUME overlapped = {}, \A v \in Uses : call'[v].at # "failed"
                 PROVE  /\ session' = Len(channels)
                        /\ \A v \in Uses : call'[v].at # "opened"
                        /\ \A i \in DOMAIN channels \ {Len(channels)} :
                              \E v \in Uses : /\ call'[v].ch = i + 1
                                              /\ Needed(v) > channels[i].deposit
                                                               - channels[i].current
      BY <1>0 DEF LatestKept
    <2>1. \A v \in Uses : call[v].at # "failed"
      BY <1>0, <1>1 DEF OtherUsesStay
    <2>2. session' = Len(channels)
      BY <1>0, <2>1 DEF LatestKept
    <2>3. \A v \in Uses \ {u} : call[v].at # "opened"
      BY <1>0 DEF Alone, Running
    <2>4. \A v \in Uses : call'[v].at # "opened"
      BY <1>1, <2>3 DEF OtherUsesStay
    <2>5. \A v \in Uses : call'[v].ch = call[v].ch
      BY <1>1 DEF OtherUsesStay
    <2> QED BY <1>0, <2>1, <2>2, <2>4, <2>5 DEF LatestKept
  <1> QED BY <1>0, <1>3, <1>4, <1>5, <1>6 DEF CallsInv

(* What was signed is reported.                                             *)
LEMMA ReportsKeep ==
    ASSUME CallsInv, NEW u \in Uses, Returns(u) \/ StreamEnds(u)
    PROVE  CallsInv'
  <1>0. CallsTyped /\ (\A v \in Uses : Placed(v)) /\ ReportsSigned /\ LatestKept
        /\ call[u].at \in {"answered", "streaming"} /\ call[u].ch \in DOMAIN channels
        /\ Running(u) /\ Goes(u, "served")
        /\ UNCHANGED <<channels, session, budget, wire, sold, overlapped>>
    BY DEF CallsInv, Returns, StreamEnds, Placed, Holding, Running
  <1>1. /\ OtherUsesStay(u) /\ call'[u].at = "served" /\ call'[u].ch = call[u].ch
        /\ call'[u].voucher = call[u].voucher /\ call'[u].before = call[u].before
    BY <1>0, GoesIs DEF CallSteps, Outcomes
  <1>2. Placed(u)'
    BY <1>0, <1>1 DEF Placed, Early, Holding
  <1>a. /\ totals' \in [paid : Nat, payments : Nat]
        /\ totals'.paid = totals.paid + UnreportedBy(u)
    <2>1. totals.paid \in Nat /\ totals.payments \in Nat /\ call[u].slices \in Nat
          /\ Price \in Nat /\ UnreportedBy(u) \in Nat
      BY <1>0, CallIsTyped, Amounts, UnreportedIsNat DEF CallsTyped
    <2>2. CASE Returns(u)
      <3>1. u \notin StreamCalls /\ call[u].at = "answered"
        BY <1>0, <2>2, CallsAssumption DEF Returns, Placed
      <3>2. UnreportedBy(u) = Price
        BY <3>1 DEF UnreportedBy
      <3> QED BY <2>1, <2>2, <3>2 DEF Returns
    <2>3. CASE StreamEnds(u)
      <3>1. u \in StreamCalls /\ call[u].at = "streaming"
        BY <1>0, <2>3 DEF StreamEnds, Placed
      <3>2. UnreportedBy(u) = channels[call[u].ch].current - call[u].before
        BY <3>1 DEF UnreportedBy
      <3>3. channels[call[u].ch].current \in Nat /\ call[u].before \in Nat
        BY <1>0, ChannelIsTyped, CallIsTyped
      <3>4. totals' = [paid |-> totals.paid + channels[call[u].ch].current - call[u].before,
                       payments |-> totals.payments + call[u].slices]
        BY <2>3 DEF StreamEnds
      <3>5. totals.paid + channels[call[u].ch].current - call[u].before
               = totals.paid + UnreportedBy(u)
        BY <2>1, <3>2, <3>3
      <3> QED BY <2>1, <3>4, <3>5
    <2> QED BY <2>2, <2>3
  <1>3. /\ CallsTyped' /\ (\A v \in Uses : Placed(v))' /\ WiresRight' /\ Alone' /\ Covered'
        /\ \A v \in Uses \ (overlapped' \cup {u}) : Unhindered(v)'
        /\ \A v \in Uses \ {u} : UnreportedBy(v)' = UnreportedBy(v)
        /\ SignedInAll' = SignedInAll /\ ChannelsGrow
    <2>1. session' \in 0..Len(channels)
      BY <1>0 DEF CallsTyped
    <2>2. call'[u].at # "idle" /\ call'[u].at \notin Unsent \cup {"paying"}
          /\ call'[u].at # "accepted"
      BY <1>0, <1>1 DEF Unsent, Early
    <2> QED BY <1>0, <1>1, <1>2, <1>a, <2>1, <2>2, QuietKeeps
  <1>4. Unhindered(u)'
    BY <1>1 DEF Unhindered
  <1>5. ReportsSigned'
    <2>1. UnreportedBy(u)' = 0
      BY <1>1 DEF UnreportedBy
    <2>2. SignedInAll \in Nat /\ totals.paid \in Nat /\ UnreportedBy(u) \in Nat
      BY <1>0, SignedIsNat, UnreportedIsNat DEF CallsTyped
    <2>3. totals'.paid + UnreportedBy(u)' + SignedInAll
             = totals.paid + UnreportedBy(u) + SignedInAll'
          /\ totals'.paid + UnreportedBy(u)' + SignedInAll
                <= totals.paid + UnreportedBy(u) + SignedInAll'
      BY <1>3, <1>a, <2>1, <2>2
    <2>4. call'[u].at # "idle" /\ call[u].at \notin {"refused", "failed"}
      BY <1>0, <1>1
    <2> QED BY <1>0, <1>1, <1>3, <2>3, <2>4, SignedStays
  <1>6. LatestKept'
    <2>1. call'[u].at # "opened" /\ call[u].at # "opened" /\ call[u].at # "failed"
      BY <1>0, <1>1
    <2> QED BY <1>0, <1>1, <1>3, <2>1, LatestStays
  <1> QED BY <1>3, <1>4, <1>5, <1>6 DEF CallsInv

-----------------------------------------------------------------------------
(* The steps that serve, sign and open.                                     *)

LEMMA ServesKeeps ==
    ASSUME CallsInv, NEW u \in Uses, Serves(u)
    PROVE  CallsInv'
  <1> DEFINE n == call[u].ch
             x == IF u \in StreamCalls THEN [call[u] EXCEPT !.at = "streaming", !.slices = 1]
                  ELSE [call[u] EXCEPT !.at = "answered"]
  <1>0. CallsTyped /\ (\A v \in Uses : Placed(v)) /\ WiresRight /\ Alone /\ Covered
        /\ ReportsSigned /\ LatestKept /\ (\A v \in Uses \ overlapped : Unhindered(v))
        /\ call[u].at = "accepted" /\ n \in DOMAIN channels /\ Running(u)
        /\ sold' = [sold EXCEPT ![n] = @ + Price]
        /\ UNCHANGED <<channels, session, budget, wire, totals, overlapped>>
        /\ call[u].before <= channels[n].current
    BY DEF CallsInv, Serves, Placed, Holding, Running
  <1>1. /\ OtherUsesStay(u) /\ call'[u].ch = n /\ call'[u].before = call[u].before
        /\ call'[u].at = IF u \in StreamCalls THEN "streaming" ELSE "answered"
    <2>1. x \in CallType /\ x.ch = n /\ x.before = call[u].before
          /\ x.at = IF u \in StreamCalls THEN "streaming" ELSE "answered"
      BY <1>0, CallIsTyped DEF CallType, CallSteps
    <2>2. call \in [Uses -> CallType]
      BY <1>0 DEF CallsTyped
    <2>3. call' = [call EXCEPT ![u] = x]
      BY <2>2 DEF Serves
    <2> HIDE DEF x
    <2>4. call' \in [Uses -> CallType] /\ call'[u] = x
          /\ \A v \in Uses \ {u} : call'[v] = call[v]
      BY <2>1, <2>2, <2>3, UseMoves
    <2> QED BY <2>1, <2>4 DEF OtherUsesStay
  <1>2. Placed(u)'
    BY <1>0, <1>1 DEF Placed, Early, Holding, Uses
  <1>3. /\ sold' \in Seq(Nat) /\ Len(sold') = Len(sold)
        /\ \A i \in DOMAIN channels : sold[i] \in Nat
               /\ sold'[i] = IF i = n THEN sold[i] + Price ELSE sold[i]
    <2>1. sold \in Seq(Nat) /\ n \in DOMAIN sold /\ Price \in Nat /\ sold[n] \in Nat
      BY <1>0, ChannelIsTyped, Amounts DEF CallsTyped
    <2>2. \A i \in DOMAIN channels : i \in DOMAIN sold /\ sold[i] \in Nat
      BY <1>0, ChannelIsTyped
    <2>3. sold' \in Seq(Nat) /\ Len(sold') = Len(sold)
      BY <1>0, <2>1
    <2> QED BY <1>0, <2>1, <2>2, <2>3
  <1>4. CallsTyped'
    <2>1. IsFiniteSet(Started') /\ call' \in [Uses -> CallType]
      BY <1>0, <1>1, StartedStays DEF OtherUsesStay
    <2> QED BY <1>0, <1>3, <2>1 DEF CallsTyped
  <1>5. ChannelsGrow
    BY <1>0, NothingGrows
  <1>6. (\A v \in Uses : Placed(v))'
    <2>1. ASSUME NEW v \in Uses \ {u} PROVE Placed(v)'
      BY <1>0, <1>1, <1>4, <1>5, PlacedStays DEF OtherUsesStay
    <2> QED BY <1>2, <2>1
  <1>7. WiresRight' /\ Alone' /\ \A v \in Uses \ (overlapped' \cup {u}) : Unhindered(v)'
    <2>1. call'[u].at \notin Unsent \cup {"paying"}
      BY <1>1 DEF Unsent, Early
    <2> QED BY <1>0, <1>1, <1>4, <1>5, <2>1, WiresStay, AloneStays, OthersUnhindered
  <1>8. Unhindered(u)'
    BY <1>1 DEF Unhindered
  <1>9. Covered'
    <2>1. ASSUME NEW i \in DOMAIN channels
          PROVE  /\ sold'[i] \in Nat /\ channels'[i].accepted \in Nat
                 /\ sold'[i] + OwedBy(u, i)' + channels[i].accepted
                       <= sold[i] + OwedBy(u, i) + channels'[i].accepted
      <3>1. sold[i] \in Nat /\ channels[i].accepted \in Nat /\ Price \in Nat
        BY <1>0, ChannelIsTyped, Amounts
      <3>2. OwedBy(u, i)' = 0
        BY <1>1 DEF OwedBy
      <3>3. OwedBy(u, i) = IF i = n THEN Price ELSE 0
        BY <1>0 DEF OwedBy
      <3>4. channels'[i].accepted = channels[i].accepted
        BY <1>0
      <3>5. sold'[i] = IF i = n THEN sold[i] + Price ELSE sold[i]
        BY <1>3
      <3> HIDE DEF n
      <3> QED BY <3>1, <3>2, <3>3, <3>4, <3>5
    <2>2. call'[u].at # "idle" /\ DOMAIN channels' = DOMAIN channels
      BY <1>0, <1>1
    <2> QED BY <1>0, <1>1, <2>1, <2>2, CoveredStays
  <1>10. ReportsSigned'
    <2>1. UnreportedBy(u)' = UnreportedBy(u)
      BY <1>0, <1>1 DEF UnreportedBy
    <2>2. SignedInAll \in Nat /\ totals.paid \in Nat /\ UnreportedBy(u) \in Nat
      BY <1>0, SignedIsNat, UnreportedIsNat DEF CallsTyped
    <2>3. SignedInAll' = SignedInAll /\ totals' = totals
      BY <1>0 DEF SignedInAll, SignerTotals
    <2>4. totals'.paid + UnreportedBy(u)' + SignedInAll
             = totals.paid + UnreportedBy(u) + SignedInAll'
          /\ totals'.paid + UnreportedBy(u)' + SignedInAll
                <= totals.paid + UnreportedBy(u) + SignedInAll'
      BY <2>1, <2>2, <2>3
    <2>5. \A v \in Uses \ {u} : UnreportedBy(v)' = UnreportedBy(v)
      BY <1>0, <1>1 DEF UnreportedBy, OtherUsesStay
    <2>6. call'[u].at # "idle" /\ call[u].at \notin {"refused", "failed"}
      BY <1>0, <1>1
    <2> QED BY <1>0, <1>1, <1>4, <1>6, <2>4, <2>5, <2>6, SignedStays
  <1>11. LatestKept'
    <2>1. call'[u].at # "opened" /\ call[u].at # "opened" /\ call[u].at # "failed"
      BY <1>0, <1>1
    <2> QED BY <1>0, <1>1, <1>4, <1>5, <2>1, LatestStays
  <1> QED BY <1>4, <1>6, <1>7, <1>8, <1>9, <1>10, <1>11 DEF CallsInv

(* One channel goes on.                                                     *)
LEMMA ChannelGoesOn ==
    ASSUME CallsTyped, NEW i \in DOMAIN channels, NEW x \in ChannelType,
           channels' = [channels EXCEPT ![i] = x],
           x.deposit = channels[i].deposit, channels[i].current <= x.current,
           channels[i].accepted <= x.accepted, x.open => channels[i].open,
           x.accepted <= x.current, x.current <= x.deposit
    PROVE  /\ channels' \in Seq(ChannelType) /\ Len(channels') = Len(channels)
           /\ DOMAIN channels' = DOMAIN channels
           /\ channels'[i] = x /\ (\A j \in DOMAIN channels \ {i} : channels'[j] = channels[j])
           /\ ChannelsGrow
           /\ \A j \in DOMAIN channels' : /\ channels'[j].accepted <= channels'[j].current
                                          /\ channels'[j].current <= channels'[j].deposit
  <1>1. /\ channels' \in Seq(ChannelType) /\ Len(channels') = Len(channels)
        /\ DOMAIN channels' = DOMAIN channels
        /\ channels'[i] = x /\ (\A j \in DOMAIN channels \ {i} : channels'[j] = channels[j])
    BY ChannelMoves
  <1>2. ASSUME NEW j \in DOMAIN channels
        PROVE  /\ channels'[j].accepted <= channels'[j].current
               /\ channels'[j].current <= channels'[j].deposit
               /\ channels'[j].deposit = channels[j].deposit
               /\ channels[j].current <= channels'[j].current
               /\ channels[j].accepted <= channels'[j].accepted
               /\ channels'[j].open => channels[j].open
    <2>1. CASE j = i
      BY <1>1, <2>1
    <2>2. CASE j # i
      <3>1. channels'[j] = channels[j]
        BY <1>1, <2>2
      <3>2. channels[j].current \in Nat /\ channels[j].accepted \in Nat
        BY ChannelIsTyped
      <3>3. channels[j].accepted <= channels[j].current
            /\ channels[j].current <= channels[j].deposit
        BY DEF CallsTyped
      <3> QED BY <3>1, <3>2, <3>3
    <2> QED BY <2>1, <2>2
  <1> QED BY <1>1, <1>2 DEF ChannelsGrow

(* Where no stream was overlapped, a step signs for one use.                *)
LEMMA OthersSignNothing ==
    ASSUME Alone, NEW u \in Uses, Running(u), OtherUsesStay(u), overlapped \cap StreamCalls = {}
    PROVE  \A v \in Uses \ {u} : UnreportedBy(v)' = UnreportedBy(v)
  <1> SUFFICES ASSUME NEW v \in Uses \ {u} PROVE UnreportedBy(v)' = UnreportedBy(v)
    OBVIOUS
  <1>1. call'[v] = call[v]
    BY DEF OtherUsesStay
  <1>2. CASE v \notin StreamCalls
    BY <1>1, <1>2 DEF UnreportedBy
  <1>3. CASE v \in StreamCalls
    <2>1. ~Running(v)
      BY <1>3 DEF Alone
    <2>2. call[v].at \notin {"paying", "accepted", "streaming"}
      BY <2>1 DEF Running
    <2> QED BY <1>1, <1>3, <2>2 DEF UnreportedBy
  <1> QED BY <1>2, <1>3

LEMMA SignsCallKeeps ==
    ASSUME CallsInv, NEW u \in Uses, SignsCall(u)
    PROVE  CallsInv'
  <1> DEFINE n == call[u].ch
             b == channels[n].current
             c == b + Price
             m == [use |-> u, ch |-> n, cumulative |-> c]
             y == [channels[n] EXCEPT !.current = c]
             x == [call[u] EXCEPT !.at = "paying", !.voucher = c, !.before = b]
  <1>0. CallsTyped /\ (\A v \in Uses : Placed(v)) /\ WiresRight /\ Alone /\ Covered
        /\ ReportsSigned /\ LatestKept /\ (\A v \in Uses \ overlapped : Unhindered(v))
        /\ call[u].at = "asking" /\ n \in DOMAIN channels /\ Running(u)
        /\ UNCHANGED <<session, budget, totals, sold, overlapped>>
        /\ c <= channels[n].deposit /\ wire' = wire \cup {m}
    BY DEF CallsInv, SignsCall, Placed, Holding, Running
  <1>n. b \in Nat /\ Price \in Nat /\ c \in Nat /\ channels[n].deposit \in Nat
        /\ channels[n].accepted \in Nat /\ channels[n].accepted <= b /\ n \in Nat
    <2>1. b \in Nat /\ channels[n].deposit \in Nat /\ channels[n].accepted \in Nat /\ n \in Nat
      BY <1>0, ChannelIsTyped
    <2>2. Price \in Nat
      BY Amounts
    <2>3. channels[n].accepted <= b
      BY <1>0 DEF CallsTyped
    <2> QED BY <2>1, <2>2, <2>3
  <1>1. /\ OtherUsesStay(u) /\ call'[u].ch = n /\ call'[u].before = b /\ call'[u].voucher = c
        /\ call'[u].at = "paying"
    <2>1. x \in CallType /\ x.ch = n /\ x.before = b /\ x.voucher = c /\ x.at = "paying"
      BY <1>0, <1>n, CallIsTyped DEF CallType, CallSteps
    <2>2. call \in [Uses -> CallType]
      BY <1>0 DEF CallsTyped
    <2>3. call' = [call EXCEPT ![u] = x]
      BY <2>2 DEF SignsCall
    <2> HIDE DEF x, c, b, n
    <2>4. call' \in [Uses -> CallType] /\ call'[u] = x
          /\ \A v \in Uses \ {u} : call'[v] = call[v]
      BY <2>1, <2>2, <2>3, UseMoves
    <2> QED BY <2>1, <2>4 DEF OtherUsesStay
  <1>2. /\ channels' \in Seq(ChannelType) /\ Len(channels') = Len(channels)
        /\ DOMAIN channels' = DOMAIN channels
        /\ channels'[n] = y /\ (\A j \in DOMAIN channels \ {n} : channels'[j] = channels[j])
        /\ ChannelsGrow
        /\ \A j \in DOMAIN channels' : /\ channels'[j].accepted <= channels'[j].current
                                       /\ channels'[j].current <= channels'[j].deposit
    <2>1. y \in ChannelType /\ y.deposit = channels[n].deposit /\ y.current = c
          /\ y.accepted = channels[n].accepted /\ y.open = channels[n].open
      BY <1>0, <1>n, ChannelIsTyped DEF ChannelType
    <2>2. channels' = [channels EXCEPT ![n] = y]
      BY <1>0 DEF SignsCall, Signed, CallsTyped
    <2>3. b <= y.current /\ y.accepted <= y.current /\ y.current <= y.deposit
          /\ channels[n].accepted <= y.accepted
      BY <1>0, <1>n, <2>1
    <2> HIDE DEF y, c
    <2> QED BY <1>0, <2>1, <2>2, <2>3, ChannelGoesOn
  <1>3. channels'[n].current = c /\ channels'[n].accepted = channels[n].accepted
        /\ channels'[n].deposit = channels[n].deposit /\ channels'[n].open = channels[n].open
    BY <1>0, <1>2, ChannelIsTyped DEF ChannelType
  <1> HIDE DEF y, x
  <1>4. CallsTyped'
    <2>1. IsFiniteSet(Started') /\ call' \in [Uses -> CallType]
      BY <1>0, <1>1, StartedStays DEF OtherUsesStay
    <2>2. m \in [use : Uses, ch : DOMAIN channels, cumulative : Nat]
      BY <1>0, <1>n
    <2> HIDE DEF m, n, c, b
    <2>3. wire' \subseteq [use : Uses, ch : DOMAIN channels, cumulative : Nat]
      BY <1>0, <2>2 DEF CallsTyped
    <2> QED BY <1>0, <1>2, <2>1, <2>3 DEF CallsTyped
  <1>5. ChannelsGrow
    BY <1>2
  <1>6. (\A v \in Uses : Placed(v))'
    <2>1. ASSUME NEW v \in Uses \ {u} PROVE Placed(v)'
      BY <1>0, <1>1, <1>4, <1>5, PlacedStays DEF OtherUsesStay
    <2>2. b <= c
      BY <1>n
    <2>3. Placed(u)'
      BY <1>0, <1>1, <1>2, <1>3, <2>2 DEF Placed, Early, Holding
    <2> QED BY <2>1, <2>3
  <1>7. WiresRight'
    <2>1. call[u].at \in Unsent
      BY <1>0 DEF Unsent
    <2>2. \A w \in wire : WireRight(w)'
      BY <1>0, <1>1, <1>4, <1>5, <2>1, OldWires
    <2>3. ASSUME NEW w, w = m PROVE WireRight(w)'
      <3>1. w.use = u /\ w.ch = n /\ w.cumulative = c /\ c <= c
        BY <1>n, <2>3
      <3> HIDE DEF m, n, c, b
      <3> QED BY <1>1, <1>3, <3>1 DEF WireRight, Unsent, Early
    <2> HIDE DEF m
    <2> QED BY <1>0, <2>2, <2>3 DEF WiresRight
  <1>8. Alone' /\ \A v \in Uses \ (overlapped' \cup {u}) : Unhindered(v)'
    BY <1>0, <1>1, <1>5, AloneStays, OthersUnhindered
  <1>9. Unhindered(u)'
    <2>1. ASSUME NEW w \in wire', w.ch = n, w.use # u PROVE w.cumulative <= b
      BY <1>0, <2>1 DEF WiresRight, WireRight
    <2>2. \A w \in wire' : w.use = u => channels'[n].accepted <= b
      BY <1>3, <1>n
    <2>3. c <= channels'[n].deposit
      BY <1>0, <1>3
    <2> HIDE DEF m, n, c, b
    <2> QED BY <1>1, <2>1, <2>2, <2>3 DEF Unhindered
  <1>10. Covered'
    <2>1. ASSUME NEW i \in DOMAIN channels
          PROVE  /\ sold'[i] \in Nat /\ channels'[i].accepted \in Nat
                 /\ sold'[i] + OwedBy(u, i)' + channels[i].accepted
                       <= sold[i] + OwedBy(u, i) + channels'[i].accepted
      <3>1. sold[i] \in Nat /\ channels[i].accepted \in Nat
        BY <1>0, ChannelIsTyped
      <3>2. OwedBy(u, i)' = 0 /\ OwedBy(u, i) = 0
        BY <1>0, <1>1 DEF OwedBy
      <3>3. channels'[i].accepted = channels[i].accepted /\ sold' = sold
        BY <1>0, <1>2, <1>3
      <3> QED BY <3>1, <3>2, <3>3
    <2>2. call'[u].at # "idle" /\ DOMAIN channels' = DOMAIN channels
      BY <1>1, <1>2
    <2> QED BY <1>0, <1>1, <2>1, <2>2, CoveredStays
  <1>11. ReportsSigned'
    <2>1. UnreportedBy(u) = 0
      BY <1>0 DEF UnreportedBy
    <2>2. UnreportedBy(u)' = Price
      <3>1. c - b = Price
        BY <1>n
      <3> HIDE DEF n, c, b
      <3> QED BY <1>1, <1>3, <3>1 DEF UnreportedBy
    <2>3. SignedInAll \in Nat /\ totals.paid \in Nat /\ totals' = totals
      BY <1>0, SignedIsNat DEF CallsTyped
    <2>4. SignedInAll' = SignedInAll + c - b
      <3>1. channels'[n].current \in Nat
            /\ \A j \in DOMAIN channels \ {n} : channels'[j].current = channels[j].current
        BY <1>n, <1>2, <1>3
      <3>2. SignedInAll' = SignedInAll + channels'[n].current - channels[n].current
        <4> HIDE DEF n
        <4> QED BY <1>0, <1>2, <3>1, SignedMoves
      <3> QED BY <1>3, <3>2
    <2>5. totals'.paid + UnreportedBy(u)' + SignedInAll
             = totals.paid + UnreportedBy(u) + SignedInAll'
          /\ totals'.paid + UnreportedBy(u)' + SignedInAll
                <= totals.paid + UnreportedBy(u) + SignedInAll'
      <3> HIDE DEF b
      <3> QED BY <1>n, <2>1, <2>2, <2>3, <2>4
    <2>6. overlapped' \cap StreamCalls = {} =>
             \A v \in Uses \ {u} : UnreportedBy(v)' = UnreportedBy(v)
      BY <1>0, <1>1, OthersSignNothing
    <2>7. call'[u].at # "idle" /\ call[u].at \notin {"refused", "failed"}
          /\ overlapped \subseteq overlapped'
      BY <1>0, <1>1
    <2> QED BY <1>0, <1>1, <1>4, <1>6, <2>5, <2>6, <2>7, SignedStays
  <1>12. LatestKept'
    <2>1. call'[u].at # "opened" /\ call[u].at # "opened" /\ call[u].at # "failed"
          /\ overlapped \subseteq overlapped' /\ session' = session
      BY <1>0, <1>1
    <2> QED BY <1>0, <1>1, <1>2, <1>4, <1>5, <2>1, LatestStays
  <1> QED BY <1>4, <1>6, <1>7, <1>8, <1>9, <1>10, <1>11, <1>12 DEF CallsInv

LEMMA SignsSliceKeeps ==
    ASSUME CallsInv, NEW u \in Uses, SignsSlice(u)
    PROVE  CallsInv'
  <1> DEFINE n == call[u].ch
             b == channels[n].current
             c == channels[n].accepted + Price
             k == call[u].slices + 1
             y == [channels[n] EXCEPT !.current = c, !.accepted = c]
             x == [call[u] EXCEPT !.slices = k]
  <1>0. CallsTyped /\ (\A v \in Uses : Placed(v)) /\ WiresRight /\ Alone /\ Covered
        /\ ReportsSigned /\ LatestKept /\ (\A v \in Uses \ overlapped : Unhindered(v))
        /\ call[u].at = "streaming" /\ n \in DOMAIN channels /\ Running(u) /\ u \in StreamCalls
        /\ UNCHANGED <<session, budget, totals, wire, overlapped>>
        /\ c \in b..channels[n].deposit /\ call[u].before <= b
        /\ sold' = [sold EXCEPT ![n] = @ + Price]
    BY DEF CallsInv, SignsSlice, Placed, Holding, Running
  <1>n. b \in Nat /\ Price \in Nat /\ c \in Nat /\ channels[n].deposit \in Nat
        /\ channels[n].accepted \in Nat /\ n \in Nat /\ b <= c /\ c <= channels[n].deposit
        /\ channels[n].accepted <= c /\ call[u].before \in Nat
    <2>1. b \in Nat /\ channels[n].deposit \in Nat /\ channels[n].accepted \in Nat /\ n \in Nat
      BY <1>0, ChannelIsTyped
    <2>2. Price \in Nat /\ call[u].before \in Nat
      BY <1>0, Amounts, CallIsTyped
    <2> HIDE DEF n, b
    <2> QED BY <1>0, <2>1, <2>2
  <1>1. /\ OtherUsesStay(u) /\ call'[u].ch = n /\ call'[u].before = call[u].before
        /\ call'[u].at = "streaming"
    <2>1. call[u].slices \in Nat
      BY <1>0, CallIsTyped
    <2>2. x \in CallType /\ x.ch = n /\ x.before = call[u].before /\ x.at = "streaming"
      BY <1>0, <2>1, CallIsTyped DEF CallType, CallSteps
    <2>3. call \in [Uses -> CallType]
      BY <1>0 DEF CallsTyped
    <2>4. call' = [call EXCEPT ![u] = x]
      BY <2>3 DEF SignsSlice
    <2> HIDE DEF x, c, b, n, k
    <2>5. call' \in [Uses -> CallType] /\ call'[u] = x
          /\ \A v \in Uses \ {u} : call'[v] = call[v]
      BY <2>2, <2>3, <2>4, UseMoves
    <2> QED BY <2>2, <2>5 DEF OtherUsesStay
  <1>2. /\ channels' \in Seq(ChannelType) /\ Len(channels') = Len(channels)
        /\ DOMAIN channels' = DOMAIN channels
        /\ channels'[n] = y /\ (\A j \in DOMAIN channels \ {n} : channels'[j] = channels[j])
        /\ ChannelsGrow
        /\ \A j \in DOMAIN channels' : /\ channels'[j].accepted <= channels'[j].current
                                       /\ channels'[j].current <= channels'[j].deposit
    <2>1. y \in ChannelType /\ y.deposit = channels[n].deposit /\ y.current = c
          /\ y.accepted = c /\ y.open = channels[n].open
      BY <1>0, <1>n, ChannelIsTyped DEF ChannelType
    <2>2. channels' = [channels EXCEPT ![n] = y]
      BY <1>0 DEF SignsSlice, CallsTyped
    <2>3. b <= y.current /\ y.accepted <= y.current /\ y.current <= y.deposit
          /\ channels[n].accepted <= y.accepted
      BY <1>n, <2>1
    <2> HIDE DEF y, c
    <2> QED BY <1>0, <2>1, <2>2, <2>3, ChannelGoesOn
  <1>3. channels'[n].current = c /\ channels'[n].accepted = c
    BY <1>0, <1>2, ChannelIsTyped DEF ChannelType
  <1> HIDE DEF y, x
  <1>a. /\ sold' \in Seq(Nat) /\ Len(sold') = Len(sold)
        /\ \A i \in DOMAIN channels : sold[i] \in Nat
               /\ sold'[i] = IF i = n THEN sold[i] + Price ELSE sold[i]
    <2>1. sold \in Seq(Nat) /\ n \in DOMAIN sold /\ Price \in Nat /\ sold[n] \in Nat
      BY <1>0, ChannelIsTyped, Amounts DEF CallsTyped
    <2>2. \A i \in DOMAIN channels : i \in DOMAIN sold /\ sold[i] \in Nat
      BY <1>0, ChannelIsTyped
    <2> HIDE DEF n, c, b
    <2> DEFINE z == sold[n] + Price
    <2>3. z \in Nat
      BY <2>1
    <2>4. sold' = [sold EXCEPT ![n] = z]
      BY <1>0
    <2> HIDE DEF z
    <2>5. sold' \in Seq(Nat) /\ Len(sold') = Len(sold)
      BY <2>1, <2>3, <2>4
    <2>6. \A i \in DOMAIN sold : sold'[i] = IF i = n THEN z ELSE sold[i]
      BY <2>4
    <2> QED BY <2>2, <2>5, <2>6 DEF z
  <1>4. CallsTyped'
    <2>1. IsFiniteSet(Started') /\ call' \in [Uses -> CallType]
      BY <1>0, <1>1, StartedStays DEF OtherUsesStay
    <2> HIDE DEF n, c, b
    <2> QED BY <1>0, <1>2, <1>a, <2>1 DEF CallsTyped
  <1>5. ChannelsGrow
    BY <1>2
  <1>6. (\A v \in Uses : Placed(v))'
    <2>1. ASSUME NEW v \in Uses \ {u} PROVE Placed(v)'
      BY <1>0, <1>1, <1>4, <1>5, PlacedStays DEF OtherUsesStay
    <2>2. call[u].before <= c
      BY <1>0, <1>n
    <2> HIDE DEF n, c, b
    <2>3. Placed(u)'
      BY <1>0, <1>1, <1>2, <1>3, <2>2 DEF Placed, Early, Holding
    <2> QED BY <2>1, <2>3
  <1>7. WiresRight' /\ Alone' /\ \A v \in Uses \ (overlapped' \cup {u}) : Unhindered(v)'
    <2>1. call'[u].at \notin Unsent \cup {"paying"}
      BY <1>1 DEF Unsent, Early
    <2> QED BY <1>0, <1>1, <1>4, <1>5, <2>1, WiresStay, AloneStays, OthersUnhindered
  <1>8. Unhindered(u)'
    BY <1>1 DEF Unhindered
  <1>9. Covered'
    <2>1. ASSUME NEW i \in DOMAIN channels
          PROVE  /\ sold'[i] \in Nat /\ channels'[i].accepted \in Nat
                 /\ sold'[i] + OwedBy(u, i)' + channels[i].accepted
                       <= sold[i] + OwedBy(u, i) + channels'[i].accepted
      <3>1. sold[i] \in Nat /\ channels[i].accepted \in Nat
        BY <1>0, ChannelIsTyped
      <3>2. OwedBy(u, i)' = 0 /\ OwedBy(u, i) = 0
        BY <1>0, <1>1 DEF OwedBy
      <3>3. CASE i = n
        <4>1. sold'[i] = sold[i] + Price
              /\ channels'[i].accepted = channels[i].accepted + Price
          BY <1>3, <1>a, <3>3
        <4> HIDE DEF n
        <4> QED BY <1>n, <3>1, <3>2, <4>1
      <3>4. CASE i # n
        <4>1. channels'[i] = channels[i] /\ sold'[i] = sold[i]
          BY <1>2, <1>a, <3>4
        <4> HIDE DEF n
        <4> QED BY <3>1, <3>2, <4>1
      <3> QED BY <3>3, <3>4
    <2>2. call'[u].at # "idle" /\ DOMAIN channels' = DOMAIN channels
      BY <1>1, <1>2
    <2> QED BY <1>0, <1>1, <2>1, <2>2, CoveredStays
  <1>10. ReportsSigned'
    <2>1. UnreportedBy(u) = b - call[u].before
      BY <1>0 DEF UnreportedBy
    <2>2. UnreportedBy(u)' = c - call[u].before
      <3> HIDE DEF n, c, b
      <3> QED BY <1>0, <1>1, <1>3 DEF UnreportedBy
    <2>3. SignedInAll \in Nat /\ totals.paid \in Nat /\ totals' = totals
      BY <1>0, SignedIsNat DEF CallsTyped
    <2>4. SignedInAll' = SignedInAll + c - b
      <3>1. channels'[n].current \in Nat
            /\ \A j \in DOMAIN channels \ {n} : channels'[j].current = channels[j].current
        BY <1>n, <1>2, <1>3
      <3>2. SignedInAll' = SignedInAll + channels'[n].current - channels[n].current
        <4> HIDE DEF n
        <4> QED BY <1>0, <1>2, <3>1, SignedMoves
      <3> QED BY <1>3, <3>2
    <2>5. totals'.paid + UnreportedBy(u)' + SignedInAll
             = totals.paid + UnreportedBy(u) + SignedInAll'
          /\ totals'.paid + UnreportedBy(u)' + SignedInAll
                <= totals.paid + UnreportedBy(u) + SignedInAll'
      <3> HIDE DEF b, c, n
      <3> QED BY <1>n, <2>1, <2>2, <2>3, <2>4
    <2>6. overlapped' \cap StreamCalls = {} =>
             \A v \in Uses \ {u} : UnreportedBy(v)' = UnreportedBy(v)
      BY <1>0, <1>1, OthersSignNothing
    <2>7. call'[u].at # "idle" /\ call[u].at \notin {"refused", "failed"}
          /\ overlapped \subseteq overlapped'
      BY <1>0, <1>1
    <2> QED BY <1>0, <1>1, <1>4, <1>6, <2>5, <2>6, <2>7, SignedStays
  <1>11. LatestKept'
    <2>1. call'[u].at # "opened" /\ call[u].at # "opened" /\ call[u].at # "failed"
          /\ overlapped \subseteq overlapped' /\ session' = session
      BY <1>0, <1>1
    <2> QED BY <1>0, <1>1, <1>2, <1>4, <1>5, <2>1, LatestStays
  <1> QED BY <1>4, <1>6, <1>7, <1>8, <1>9, <1>10, <1>11 DEF CallsInv

(* A channel is added, with nothing signed or sold.                         *)
LEMMA ChannelOpensKeeps ==
    ASSUME CallsInv, NEW u \in Uses, ChannelOpens(u)
    PROVE  CallsInv'
  <1> DEFINE n == Len(channels) + 1
             z == [deposit |-> Deposit(u), current |-> 0, accepted |-> 0, open |-> TRUE]
             x == [call[u] EXCEPT !.at = "opened", !.ch = n]
  <1>0. CallsTyped /\ (\A v \in Uses : Placed(v)) /\ WiresRight /\ Alone /\ Covered
        /\ ReportsSigned /\ LatestKept /\ (\A v \in Uses \ overlapped : Unhindered(v))
        /\ call[u].at = "opening" /\ call[u].ch = 0 /\ Running(u)
        /\ UNCHANGED <<session, wire, totals, overlapped>>
        /\ channels' = Append(channels, z) /\ sold' = Append(sold, 0)
        /\ budget' = budget - Deposit(u) /\ Deposit(u) <= budget
    BY DEF CallsInv, ChannelOpens, Placed, Early, Running
  <1>n. channels \in Seq(ChannelType) /\ sold \in Seq(Nat) /\ Len(sold) = Len(channels)
        /\ Len(channels) \in Nat /\ n \in Nat /\ Deposit(u) \in Nat /\ Price \in Nat
        /\ budget \in Nat /\ session \in Nat /\ session <= Len(channels)
        /\ 0 + Price <= Deposit(u) /\ DOMAIN channels = 1..Len(channels)
    BY <1>0, Amounts DEF CallsTyped
  <1>1. /\ OtherUsesStay(u) /\ call'[u].ch = n /\ call'[u].at = "opened"
    <2>1. x \in CallType /\ x.ch = n /\ x.at = "opened"
      BY <1>0, <1>n, CallIsTyped DEF CallType, CallSteps
    <2>2. call \in [Uses -> CallType]
      BY <1>0 DEF CallsTyped
    <2>3. call' = [call EXCEPT ![u] = x]
      BY <2>2 DEF ChannelOpens
    <2> HIDE DEF x, n
    <2>4. call' \in [Uses -> CallType] /\ call'[u] = x
          /\ \A v \in Uses \ {u} : call'[v] = call[v]
      BY <2>1, <2>2, <2>3, UseMoves
    <2> QED BY <2>1, <2>4 DEF OtherUsesStay
  <1>2. /\ channels' \in Seq(ChannelType) /\ Len(channels') = n
        /\ DOMAIN channels' = DOMAIN channels \cup {n} /\ n \notin DOMAIN channels
        /\ channels'[n] = z /\ (\A j \in DOMAIN channels : channels'[j] = channels[j])
        /\ sold' \in Seq(Nat) /\ Len(sold') = n
        /\ sold'[n] = 0 /\ \A j \in DOMAIN channels : sold'[j] = sold[j]
    <2>1. z \in ChannelType
      BY <1>n DEF ChannelType
    <2> HIDE DEF z
    <2> QED BY <1>0, <1>n, <2>1
  <1>3. ChannelsGrow
    BY <1>0, <1>2, ChannelIsTyped DEF ChannelsGrow
  <1>4. CallsTyped'
    <2>1. IsFiniteSet(Started') /\ call' \in [Uses -> CallType]
      BY <1>0, <1>1, StartedStays DEF OtherUsesStay
    <2>2. budget' \in Nat
      BY <1>0, <1>n
    <2>3. \A j \in DOMAIN channels' : /\ channels'[j].accepted <= channels'[j].current
                                      /\ channels'[j].current <= channels'[j].deposit
      BY <1>0, <1>n, <1>2 DEF CallsTyped
    <2>4. session' \in 0..Len(channels')
      BY <1>0, <1>n, <1>2
    <2>5. wire' \subseteq [use : Uses, ch : DOMAIN channels', cumulative : Nat]
      BY <1>0, <1>2 DEF CallsTyped
    <2> HIDE DEF n, z
    <2> QED BY <1>0, <1>2, <2>1, <2>2, <2>3, <2>4, <2>5 DEF CallsTyped
  <1>6. (\A v \in Uses : Placed(v))'
    <2>1. ASSUME NEW v \in Uses \ {u} PROVE Placed(v)'
      BY <1>0, <1>1, <1>3, <1>4, PlacedStays DEF OtherUsesStay
    <2>3. Placed(u)'
      BY <1>1, <1>2 DEF Placed, Early, Holding
    <2> QED BY <2>1, <2>3
  <1>7. WiresRight' /\ Alone' /\ \A v \in Uses \ (overlapped' \cup {u}) : Unhindered(v)'
    <2>1. call[u].at \in Unsent
      BY <1>0 DEF Unsent, Early
    <2> QED BY <1>0, <1>1, <1>3, <1>4, <2>1, WiresStay, AloneStays, OthersUnhindered
  <1>8. Unhindered(u)'
    <2>1. channels'[n].current + Price <= channels'[n].deposit
      BY <1>n, <1>2
    <2> HIDE DEF n
    <2> QED BY <1>1, <2>1 DEF Unhindered
  <1>9. Covered'
    <2>1. ASSUME NEW i PROVE OwedIn(i)' = OwedIn(i)
      <3>1. OwedBy(u, i)' = 0 /\ OwedBy(u, i) = 0 /\ call'[u].at # "idle"
        BY <1>0, <1>1 DEF OwedBy
      <3>2. OwedIn(i)' = OwedIn(i) + OwedBy(u, i)' - OwedBy(u, i)
        BY <1>0, <1>1, <3>1, OwedMoves
      <3>3. OwedIn(i) \in Nat
        BY <1>0, OwedIsNat
      <3> QED BY <3>1, <3>2, <3>3
    <2>2. ASSUME NEW i, i = n PROVE OwedIn(i) = 0
      <3>1. \A v \in Started : Owed(i)[v] = 0
        BY <1>0, <1>2, <2>2 DEF Owed, Started, Placed, Holding
      <3> QED BY <1>0, <3>1, SumOfZeros DEF OwedIn, CallsTyped
    <2>3. ASSUME NEW i \in DOMAIN channels' PROVE sold'[i] + OwedIn(i)' <= channels'[i].accepted
      <3>1. CASE i = n
        <4>1. OwedIn(i)' = 0
          BY <2>1, <2>2, <3>1
        <4>2. sold'[i] = 0 /\ channels'[i].accepted = 0
          BY <1>2, <3>1
        <4> QED BY <4>1, <4>2
      <3>2. CASE i # n
        <4>1. i \in DOMAIN channels /\ sold'[i] = sold[i] /\ channels'[i] = channels[i]
          BY <1>2, <3>2
        <4>2. sold[i] + OwedIn(i) <= channels[i].accepted
          BY <1>0, <4>1 DEF Covered, OwedIn
        <4> QED BY <2>1, <4>1, <4>2
      <3> QED BY <3>1, <3>2
    <2> QED BY <2>3 DEF Covered, OwedIn
  <1>10. ReportsSigned'
    <2>1. UnreportedBy(u)' = 0 /\ UnreportedBy(u) = 0
      BY <1>0, <1>1 DEF UnreportedBy
    <2>2. SignedInAll' = SignedInAll
      <3>1. z.current = 0
        OBVIOUS
      <3> HIDE DEF z
      <3> QED BY <1>0, <3>1, SignedAdded
    <2>3. SignedInAll \in Nat /\ totals.paid \in Nat /\ totals' = totals
      BY <1>0, SignedIsNat DEF CallsTyped
    <2>4. totals'.paid + UnreportedBy(u)' + SignedInAll
             = totals.paid + UnreportedBy(u) + SignedInAll'
          /\ totals'.paid + UnreportedBy(u)' + SignedInAll
                <= totals.paid + UnreportedBy(u) + SignedInAll'
      BY <2>1, <2>2, <2>3
    <2>5. overlapped' \cap StreamCalls = {} =>
             \A v \in Uses \ {u} : UnreportedBy(v)' = UnreportedBy(v)
      BY <1>0, <1>1, OthersSignNothing
    <2>6. call'[u].at # "idle" /\ call[u].at \notin {"refused", "failed"}
          /\ overlapped \subseteq overlapped'
      BY <1>0, <1>1
    <2> QED BY <1>0, <1>1, <1>4, <1>6, <2>4, <2>5, <2>6, SignedStays
  <1>11. LatestKept'
    <2> SUFFICES ASSUME overlapped = {}, \A v \in Uses : call'[v].at # "failed"
                 PROVE  /\ session = n - 1
                        /\ \A v \in Uses \ {u} : call'[v].at # "opened"
                        /\ \A i \in DOMAIN channels' \ {n} :
                              \E v \in Uses : /\ call'[v].ch = i + 1
                                              /\ Needed(v) > channels'[i].deposit
                                                               - channels'[i].current
      BY <1>0, <1>1, <1>2 DEF LatestKept
    <2>1. \A v \in Uses : call[v].at # "failed"
      BY <1>0, <1>1 DEF OtherUsesStay
    <2>2. \A v \in Uses : call[v].at # "opened"
      BY <1>0 DEF Alone, Running
    <2>3. session = Len(channels)
      BY <1>0, <2>1, <2>2 DEF LatestKept
    <2>4. \A v \in Uses \ {u} : call'[v].at # "opened"
      BY <1>1, <2>2 DEF OtherUsesStay
    <2>5. ASSUME NEW i \in DOMAIN channels
          PROVE  \E v \in Uses : /\ call'[v].ch = i + 1
                                 /\ Needed(v) > channels'[i].deposit - channels'[i].current
      <3>1. channels'[i] = channels[i] /\ i \in Nat \ {0}
        BY <1>0, <1>2, ChannelIsTyped
      <3>2. CASE i = Len(channels)
        <4>1. session # 0 /\ ~HasRoom(u, session)
          BY <1>0, <2>3, <3>1, <3>2 DEF Unhindered
        <4>2. Needed(u) > channels[i].deposit - channels[i].current
          <5>1. ~(channels[i].deposit - channels[i].current >= Needed(u))
            BY <2>3, <3>2, <4>1 DEF HasRoom
          <5>2. channels[i].deposit \in Nat /\ channels[i].current \in Nat /\ Needed(u) \in Nat
            BY <1>0, ChannelIsTyped, Amounts
          <5> QED BY <5>1, <5>2
        <4> QED BY <1>1, <3>1, <3>2, <4>2
      <3>3. CASE i # Len(channels)
        <4>1. PICK v \in Uses : /\ call[v].ch = i + 1
                                /\ Needed(v) > channels[i].deposit - channels[i].current
          BY <1>0, <2>1, <3>3 DEF LatestKept
        <4>2. v # u
          BY <1>0, <3>1, <4>1
        <4> QED BY <1>1, <3>1, <4>1, <4>2 DEF OtherUsesStay
      <3> QED BY <3>2, <3>3
    <2>6. session = n - 1
      BY <1>n, <2>3
    <2> QED BY <1>2, <2>4, <2>5, <2>6
  <1> QED BY <1>4, <1>6, <1>7, <1>8, <1>9, <1>10, <1>11 DEF CallsInv

-----------------------------------------------------------------------------
(* The other steps: a tool is called, a verdict, a loss, a channel ends.    *)

LEMMA ToolCalledKeeps ==
    ASSUME CallsInv, NEW u \in Uses, ToolCalled(u)
    PROVE  CallsInv'
  <1>0. CallsTyped /\ (\A v \in Uses : Placed(v)) /\ WiresRight /\ Alone /\ Covered
        /\ ReportsSigned /\ LatestKept /\ (\A v \in Uses \ overlapped : Unhindered(v))
        /\ call[u].at = "idle" /\ call[u].ch = 0 /\ Goes(u, "probing")
        /\ UNCHANGED <<channels, session, budget, wire, totals, sold>>
    BY DEF CallsInv, ToolCalled, NoCall
  <1>1. /\ OtherUsesStay(u) /\ call'[u].at = "probing" /\ call'[u].ch = 0
    BY <1>0, GoesIs DEF CallSteps
  <1>2. overlapped \subseteq overlapped' /\ overlapped' \subseteq Uses
    BY <1>0 DEF ToolCalled, CallsTyped
  <1>3. ChannelsGrow
    BY <1>0, NothingGrows
  <1>4. CallsTyped'
    <2>1. IsFiniteSet(Started') /\ call' \in [Uses -> CallType]
      BY <1>0, <1>1, StartedStays DEF OtherUsesStay
    <2> QED BY <1>0, <1>2, <2>1 DEF CallsTyped
  <1>6. (\A v \in Uses : Placed(v))'
    <2>1. ASSUME NEW v \in Uses \ {u} PROVE Placed(v)'
      BY <1>0, <1>1, <1>3, <1>4, PlacedStays DEF OtherUsesStay
    <2>2. Placed(u)'
      BY <1>1 DEF Placed, Early, Holding
    <2> QED BY <2>1, <2>2
  <1>7. WiresRight'
    <2>1. call[u].at \in Unsent
      BY <1>0 DEF Unsent, Early
    <2> QED BY <1>0, <1>1, <1>3, <1>4, <2>1, WiresStay
  <1>8. Alone'
    <2> SUFFICES ASSUME NEW v \in Uses, NEW w \in Uses, Running(v)', Running(w)', v # w
                 PROVE  v \in overlapped'
      BY DEF Alone
    <2>1. \A p \in Uses \ {u} : Running(p)' = Running(p)
      BY <1>1 DEF Running, OtherUsesStay
    <2>2. CASE v # u /\ w # u
      BY <1>0, <1>2, <2>1, <2>2 DEF Alone
    <2>3. CASE v = u \/ w = u
      <3>1. \E p \in Uses : Running(p)
        BY <2>1, <2>3
      <3>2. overlapped' = overlapped \cup {u} \cup {p \in Uses : Running(p)}
        BY <3>1 DEF ToolCalled
      <3> QED BY <2>1, <2>3, <3>2
    <2> QED BY <2>2, <2>3
  <1>9. \A v \in Uses \ overlapped' : Unhindered(v)'
    <2>1. Unhindered(u)'
      BY <1>1 DEF Unhindered
    <2>2. ASSUME NEW v \in Uses \ (overlapped' \cup {u}) PROVE Unhindered(v)'
      <3>1. call'[v] = call[v] /\ Unhindered(v)
        BY <1>0, <1>1, <1>2 DEF OtherUsesStay
      <3> QED BY <1>0, <3>1 DEF Unhindered, HasRoom
    <2> QED BY <2>1, <2>2
  <1>10. Covered'
    <2>1. ASSUME NEW i \in DOMAIN channels
          PROVE  /\ sold'[i] \in Nat /\ channels'[i].accepted \in Nat
                 /\ sold'[i] + OwedBy(u, i)' + channels[i].accepted
                       <= sold[i] + OwedBy(u, i) + channels'[i].accepted
      <3>1. sold[i] \in Nat /\ channels[i].accepted \in Nat
        BY <1>0, ChannelIsTyped
      <3>2. OwedBy(u, i)' = 0 /\ OwedBy(u, i) = 0
        BY <1>0, <1>1 DEF OwedBy
      <3> QED BY <1>0, <3>1, <3>2
    <2>2. call'[u].at # "idle" /\ DOMAIN channels' = DOMAIN channels
      BY <1>0, <1>1
    <2> QED BY <1>0, <1>1, <2>1, <2>2, CoveredStays
  <1>11. ReportsSigned'
    <2>1. UnreportedBy(u)' = 0 /\ UnreportedBy(u) = 0
      BY <1>0, <1>1 DEF UnreportedBy
    <2>2. SignedInAll' = SignedInAll /\ totals' = totals
      BY <1>0 DEF SignedInAll, SignerTotals
    <2>3. SignedInAll \in Nat /\ totals.paid \in Nat
      BY <1>0, SignedIsNat DEF CallsTyped
    <2>4. totals'.paid + UnreportedBy(u)' + SignedInAll
             = totals.paid + UnreportedBy(u) + SignedInAll'
          /\ totals'.paid + UnreportedBy(u)' + SignedInAll
                <= totals.paid + UnreportedBy(u) + SignedInAll'
      BY <2>1, <2>2, <2>3
    <2>5. \A v \in Uses \ {u} : UnreportedBy(v)' = UnreportedBy(v)
      BY <1>0, <1>1 DEF UnreportedBy, OtherUsesStay
    <2>6. call'[u].at # "idle" /\ call[u].at \notin {"refused", "failed"}
      BY <1>0, <1>1
    <2> QED BY <1>0, <1>1, <1>2, <1>4, <1>6, <2>4, <2>5, <2>6, SignedStays
  <1>12. LatestKept'
    <2>1. call'[u].at # "opened" /\ call[u].at # "opened" /\ call[u].at # "failed"
          /\ DOMAIN channels' = DOMAIN channels /\ Len(channels') = Len(channels)
          /\ session' = session
      BY <1>0, <1>1
    <2> QED BY <1>0, <1>1, <1>2, <1>3, <1>4, <2>1, LatestStays
  <1> QED BY <1>4, <1>6, <1>7, <1>8, <1>9, <1>10, <1>11, <1>12 DEF CallsInv

(* The uses stay where they are.                                            *)
LEMMA IdleKeeps ==
    ASSUME CallsInv, UNCHANGED <<call, session, budget, totals, sold, overlapped>>,
           wire' \subseteq wire, channels' \in Seq(ChannelType), Len(channels') = Len(channels),
           DOMAIN channels' = DOMAIN channels, ChannelsGrow,
           \A i \in DOMAIN channels : /\ channels'[i].current = channels[i].current
                                      /\ channels'[i].accepted <= channels'[i].current,
           \A v \in Uses \ overlapped, w \in wire' :
              call[v].at = "paying" /\ w.use = v =>
                 channels'[call[v].ch].accepted <= call[v].before
    PROVE  CallsInv'
  <1>0. CallsTyped /\ (\A v \in Uses : Placed(v)) /\ WiresRight /\ Alone /\ Covered
        /\ ReportsSigned /\ LatestKept /\ (\A v \in Uses \ overlapped : Unhindered(v))
    BY DEF CallsInv
  <1>1. \A i \in DOMAIN channels : /\ channels'[i].deposit = channels[i].deposit
                                   /\ channels'[i].current = channels[i].current
                                   /\ channels[i].accepted <= channels'[i].accepted
                                   /\ channels'[i].open => channels[i].open
    BY DEF ChannelsGrow
  <1>2. CallsTyped'
    <2>1. Started' = Started
      BY DEF Started
    <2>2. \A i \in DOMAIN channels' : /\ channels'[i].accepted <= channels'[i].current
                                      /\ channels'[i].current <= channels'[i].deposit
      BY <1>0, <1>1 DEF CallsTyped
    <2> QED BY <1>0, <2>1, <2>2 DEF CallsTyped
  <1>3. (\A v \in Uses : Placed(v))'
    BY <1>0, <1>2, PlacedStays
  <1>4. WiresRight'
    <2> SUFFICES ASSUME NEW w \in wire PROVE WireRight(w)'
      BY DEF WiresRight
    <2>1. WireRight(w) /\ w.ch \in DOMAIN channels
      BY <1>0 DEF WiresRight, CallsTyped
    <2> QED BY <1>1, <2>1 DEF WireRight
  <1>5. Alone'
    BY <1>0 DEF Alone, Running
  <1>6. Covered'
    <2> SUFFICES ASSUME NEW i \in DOMAIN channels
                 PROVE  sold[i] + OwedIn(i)' <= channels'[i].accepted
      BY DEF Covered, OwedIn
    <2>1. OwedIn(i)' = OwedIn(i)
      BY DEF OwedIn, Owed, Started
    <2>2. sold[i] + OwedIn(i) <= channels[i].accepted
      BY <1>0 DEF Covered, OwedIn
    <2>3. sold[i] \in Nat /\ OwedIn(i) \in Nat /\ channels[i].accepted \in Nat
          /\ channels'[i].accepted \in Nat
      BY <1>0, <1>2, ChannelIsTyped, ChannelIsTypedThen, OwedIsNat
    <2>4. channels[i].accepted <= channels'[i].accepted
      BY <1>1
    <2> QED BY <2>1, <2>2, <2>3, <2>4
  <1>7. ReportsSigned'
    <2>1. ASSUME NEW v \in Uses PROVE UnreportedBy(v)' = UnreportedBy(v)
      BY <1>0, <1>1 DEF UnreportedBy, Placed, Holding
    <2>2. Unreported' = Unreported
      BY <2>1 DEF Unreported
    <2>3. SignerTotals' = SignerTotals
      BY <1>1 DEF SignerTotals
    <2>4. SignedInAll' = SignedInAll
      BY <2>3 DEF SignedInAll
    <2>5. Started' = Started /\ NoneFailed' = NoneFailed
      BY DEF Started, NoneFailed
    <2> QED BY <1>0, <2>2, <2>4, <2>5 DEF ReportsSigned
  <1>8. \A v \in Uses \ overlapped' : Unhindered(v)'
    <2> SUFFICES ASSUME NEW v \in Uses \ overlapped PROVE Unhindered(v)'
      OBVIOUS
    <2> DEFINE n == call[v].ch
    <2>1. Unhindered(v) /\ Placed(v)
      BY <1>0
    <2>2. call[v].at = "opening" => session = 0 \/ ~HasRoom(v, session)'
      <3>1. session # 0 => session \in DOMAIN channels
        BY <1>0 DEF CallsTyped
      <3> QED BY <1>1, <2>1, <3>1 DEF Unhindered, HasRoom
    <2>3. call[v].at \in {"opened", "asking", "paying", "refused", "limit"} => n \in DOMAIN channels
      BY <2>1 DEF Placed, Holding
    <2>4. call[v].at \in {"opened", "asking"} =>
             channels'[n].current + Price <= channels'[n].deposit
      BY <1>1, <2>1, <2>3 DEF Unhindered
    <2>5. call[v].at = "paying" =>
             /\ call[v].voucher <= channels'[n].deposit
             /\ \A w \in wire' : w.ch = n /\ w.use # v => w.cumulative <= call[v].before
             /\ \A w \in wire' : w.use = v => channels'[n].accepted <= call[v].before
      BY <1>1, <2>1, <2>3 DEF Unhindered
    <2>6. call[v].at \in {"refused", "limit"} => ~channels'[n].open
      BY <1>1, <2>1, <2>3 DEF Unhindered
    <2> QED BY <2>2, <2>4, <2>5, <2>6 DEF Unhindered
  <1>9. LatestKept'
    <2> SUFFICES ASSUME overlapped = {}, \A v \in Uses : call[v].at # "failed"
                 PROVE  /\ (\A v \in Uses : call[v].at # "opened") => session = Len(channels)
                        /\ \A v \in Uses : call[v].at = "opened" =>
                              call[v].ch = Len(channels) /\ session = Len(channels) - 1
                        /\ \A i \in DOMAIN channels \ {Len(channels)} :
                              \E v \in Uses : /\ call[v].ch = i + 1
                                              /\ Needed(v) > channels'[i].deposit
                                                               - channels'[i].current
      BY DEF LatestKept
    <2> QED BY <1>0, <1>1 DEF LatestKept
  <1> QED BY <1>2, <1>3, <1>4, <1>5, <1>6, <1>7, <1>8, <1>9 DEF CallsInv

LEMMA LossKeeps ==
    ASSUME CallsInv, NEW w \in wire, VerifyLost(w)
    PROVE  CallsInv'
  <1>1. CallsTyped /\ \A v \in Uses \ overlapped : Unhindered(v)
    BY DEF CallsInv
  <1>2. wire' \subseteq wire
        /\ UNCHANGED <<channels, session, budget, call, totals, sold, overlapped>>
    BY DEF VerifyLost
  <1>3. channels' \in Seq(ChannelType) /\ ChannelsGrow
        /\ \A i \in DOMAIN channels : /\ channels'[i].current = channels[i].current
                                      /\ channels'[i].accepted <= channels'[i].current
    BY <1>1, <1>2, NothingGrows DEF CallsTyped
  <1>4. \A v \in Uses \ overlapped, m \in wire' :
           call[v].at = "paying" /\ m.use = v => channels'[call[v].ch].accepted <= call[v].before
    BY <1>1, <1>2 DEF Unhindered
  <1> QED BY <1>2, <1>3, <1>4, IdleKeeps

LEMMA EndKeeps ==
    ASSUME CallsInv, NEW i \in DOMAIN channels, ChannelEnds(i)
    PROVE  CallsInv'
  <1> DEFINE y == [channels[i] EXCEPT !.open = FALSE]
  <1>1. CallsTyped /\ (\A v \in Uses \ overlapped : Unhindered(v)) /\ \A v \in Uses : Placed(v)
    BY DEF CallsInv
  <1>2. UNCHANGED <<session, budget, call, wire, totals, sold, overlapped>>
    BY DEF ChannelEnds
  <1>3. y \in ChannelType /\ y.deposit = channels[i].deposit
        /\ y.current = channels[i].current /\ y.accepted = channels[i].accepted /\ ~y.open
    BY <1>1, ChannelIsTyped DEF ChannelType
  <1>4. channels' = [channels EXCEPT ![i] = y]
    BY <1>1 DEF ChannelEnds, CallsTyped
  <1>5. channels[i].accepted <= channels[i].current /\ channels[i].current <= channels[i].deposit
        /\ channels[i].current \in Nat /\ channels[i].accepted \in Nat
    BY <1>1, ChannelIsTyped DEF CallsTyped
  <1>a. channels[i].accepted <= y.accepted /\ channels[i].current <= y.current
        /\ y.accepted <= y.current /\ y.current <= y.deposit
    BY <1>3, <1>5
  <1> HIDE DEF y
  <1>6. /\ channels' \in Seq(ChannelType) /\ Len(channels') = Len(channels)
        /\ DOMAIN channels' = DOMAIN channels
        /\ channels'[i] = y /\ (\A j \in DOMAIN channels \ {i} : channels'[j] = channels[j])
        /\ ChannelsGrow
        /\ \A j \in DOMAIN channels' : /\ channels'[j].accepted <= channels'[j].current
                                       /\ channels'[j].current <= channels'[j].deposit
    BY <1>1, <1>3, <1>4, <1>a, ChannelGoesOn
  <1>7. \A j \in DOMAIN channels : /\ channels'[j].current = channels[j].current
                                   /\ channels'[j].accepted = channels[j].accepted
    BY <1>3, <1>6
  <1>8. \A v \in Uses \ overlapped, m \in wire' :
           call[v].at = "paying" /\ m.use = v => channels'[call[v].ch].accepted <= call[v].before
    BY <1>1, <1>2, <1>7 DEF Unhindered, Placed, Holding
  <1> QED BY <1>2, <1>6, <1>7, <1>8, IdleKeeps

(* What the facilitator takes as it comes.                                  *)
LEMMA TakenWhere ==
    ASSUME CallsTyped, WiresRight, NEW w \in wire
    PROVE  /\ w.use \in Uses /\ w.ch \in DOMAIN channels /\ w.cumulative \in Nat
           /\ w.cumulative <= channels[w.ch].current
           /\ channels[w.ch].current \in Nat /\ channels[w.ch].accepted \in Nat
           /\ channels[w.ch].deposit \in Nat /\ Price \in Nat /\ Price > 0
           /\ channels[w.ch].accepted <= channels[w.ch].current
           /\ channels[w.ch].current <= channels[w.ch].deposit
           /\ Verdict(channels[w.ch], w.cumulative) = "ok" =>
                 channels[w.ch].accepted + Price <= w.cumulative
  <1>1. w.use \in Uses /\ w.ch \in DOMAIN channels /\ w.cumulative \in Nat
    BY DEF CallsTyped
  <1>2. channels[w.ch].current \in Nat /\ channels[w.ch].accepted \in Nat
        /\ channels[w.ch].deposit \in Nat /\ Price \in Nat /\ Price > 0
    BY <1>1, ChannelIsTyped, Amounts
  <1>3. w.cumulative <= channels[w.ch].current
    BY DEF WiresRight, WireRight
  <1>4. channels[w.ch].accepted <= channels[w.ch].current
        /\ channels[w.ch].current <= channels[w.ch].deposit
    BY <1>1 DEF CallsTyped
  <1>5. Verdict(channels[w.ch], w.cumulative) = "ok" =>
           ~(w.cumulative - channels[w.ch].accepted < Price)
    BY DEF Verdict
  <1>6. Verdict(channels[w.ch], w.cumulative) = "ok" =>
           channels[w.ch].accepted + Price <= w.cumulative
    BY <1>1, <1>2, <1>5
  <1> QED BY <1>1, <1>2, <1>3, <1>4, <1>6

LEMMA AcceptedMoves ==
    ASSUME CallsTyped, WiresRight, NEW w \in wire,
           Verdict(channels[w.ch], w.cumulative) = "ok", Verified(w)
    PROVE  /\ channels' \in Seq(ChannelType) /\ Len(channels') = Len(channels)
           /\ DOMAIN channels' = DOMAIN channels /\ ChannelsGrow
           /\ channels'[w.ch].accepted = w.cumulative
           /\ channels'[w.ch].current = channels[w.ch].current
           /\ \A j \in DOMAIN channels \ {w.ch} : channels'[j] = channels[j]
           /\ \A j \in DOMAIN channels : /\ channels'[j].current = channels[j].current
                                         /\ channels'[j].accepted <= channels'[j].current
                                         /\ channels'[j].current <= channels'[j].deposit
  <1> DEFINE n == w.ch
             y == [channels[n] EXCEPT !.accepted = w.cumulative]
  <1>1. n \in DOMAIN channels /\ w.cumulative \in Nat
        /\ w.cumulative <= channels[n].current /\ channels[n].current <= channels[n].deposit
        /\ channels[n].accepted + Price <= w.cumulative
        /\ channels[n].accepted \in Nat /\ Price \in Nat /\ channels[n].current \in Nat
    BY TakenWhere
  <1>2. y \in ChannelType /\ y.deposit = channels[n].deposit
        /\ y.current = channels[n].current /\ y.accepted = w.cumulative
        /\ y.open = channels[n].open
    BY <1>1, ChannelIsTyped DEF ChannelType
  <1>3. channels' = [channels EXCEPT ![n] = y]
    BY DEF CallsTyped, Verified
  <1>4. channels[n].accepted <= y.accepted /\ channels[n].current <= y.current
        /\ y.accepted <= y.current /\ y.current <= y.deposit
    BY <1>1, <1>2
  <1> HIDE DEF y, n
  <1>5. /\ channels' \in Seq(ChannelType) /\ Len(channels') = Len(channels)
        /\ DOMAIN channels' = DOMAIN channels
        /\ channels'[n] = y /\ (\A j \in DOMAIN channels \ {n} : channels'[j] = channels[j])
        /\ ChannelsGrow
        /\ \A j \in DOMAIN channels' : /\ channels'[j].accepted <= channels'[j].current
                                       /\ channels'[j].current <= channels'[j].deposit
    BY <1>1, <1>2, <1>3, <1>4, ChannelGoesOn
  <1>6. ASSUME NEW j \in DOMAIN channels PROVE channels'[j].current = channels[j].current
    <2>1. CASE j = n
      BY <1>2, <1>5, <2>1
    <2>2. CASE j # n
      BY <1>5, <2>2
    <2> QED BY <2>1, <2>2
  <1> QED BY <1>2, <1>5, <1>6 DEF n

(* A verdict that nobody waits for.                                         *)
LEMMA LateVerdictKeeps ==
    ASSUME CallsInv, NEW w \in wire, Verified(w), call[w.use].at # "paying"
    PROVE  CallsInv'
  <1>1. CallsTyped /\ WiresRight /\ (\A v \in Uses \ overlapped : Unhindered(v))
        /\ \A v \in Uses : Placed(v)
    BY DEF CallsInv
  <1>2. wire' \subseteq wire
        /\ UNCHANGED <<session, budget, call, totals, sold, overlapped>>
    BY DEF Verified
  <1>3. CASE Verdict(channels[w.ch], w.cumulative) = "ok"
    <2>2. /\ channels' \in Seq(ChannelType) /\ Len(channels') = Len(channels)
          /\ DOMAIN channels' = DOMAIN channels /\ ChannelsGrow
          /\ channels'[w.ch].accepted = w.cumulative
          /\ (\A j \in DOMAIN channels \ {w.ch} : channels'[j] = channels[j])
          /\ \A j \in DOMAIN channels : /\ channels'[j].current = channels[j].current
                                        /\ channels'[j].accepted <= channels'[j].current
      BY <1>1, <1>3, AcceptedMoves
    <2>3. ASSUME NEW v \in Uses \ overlapped, NEW m \in wire', call[v].at = "paying", m.use = v
          PROVE  channels'[call[v].ch].accepted <= call[v].before
      <3>1. call[v].ch \in DOMAIN channels /\ channels[call[v].ch].accepted <= call[v].before
        BY <1>1, <1>2, <2>3 DEF Unhindered, Placed, Holding
      <3>2. w.ch = call[v].ch => w.cumulative <= call[v].before
        BY <1>1, <2>3 DEF Unhindered
      <3> QED BY <2>2, <3>1, <3>2
    <2> QED BY <1>2, <2>2, <2>3, IdleKeeps
  <1>4. CASE Verdict(channels[w.ch], w.cumulative) # "ok"
    <2>1. channels' = channels
      BY <1>4 DEF Verified
    <2>2. channels' \in Seq(ChannelType) /\ ChannelsGrow
          /\ \A i \in DOMAIN channels : /\ channels'[i].current = channels[i].current
                                        /\ channels'[i].accepted <= channels'[i].current
      BY <1>1, <2>1, NothingGrows DEF CallsTyped
    <2>3. \A v \in Uses \ overlapped, m \in wire' :
             call[v].at = "paying" /\ m.use = v => channels'[call[v].ch].accepted <= call[v].before
      BY <1>1, <1>2, <2>1 DEF Unhindered
    <2> QED BY <1>2, <2>1, <2>2, <2>3, IdleKeeps
  <1> QED BY <1>3, <1>4

(* A voucher is accepted while its sender waits.                            *)
LEMMA AcceptedKeeps ==
    ASSUME CallsInv, NEW w \in wire, NEW u \in Uses, u = w.use, NEW n, n = w.ch,
           Verified(w), call[u].at = "paying", Verdict(channels[n], w.cumulative) = "ok"
    PROVE  CallsInv'
  <1>0. CallsTyped /\ (\A v \in Uses : Placed(v)) /\ WiresRight /\ Alone /\ Covered
        /\ ReportsSigned /\ LatestKept /\ (\A v \in Uses \ overlapped : Unhindered(v))
        /\ Goes(u, "accepted") /\ wire' = wire \ {w} /\ Running(u)
        /\ UNCHANGED <<session, budget, totals, sold, overlapped>>
    BY DEF CallsInv, Verified, Running
  <1>n. /\ n \in DOMAIN channels /\ w.cumulative \in Nat
        /\ channels[n].accepted + Price <= w.cumulative /\ call[u].ch = n
        /\ channels[n].accepted \in Nat /\ Price \in Nat
    <2>1. call[u].ch = n
      BY <1>0 DEF WiresRight, WireRight
    <2> QED BY <1>0, <2>1, TakenWhere
  <1>1. /\ OtherUsesStay(u) /\ call'[u].at = "accepted" /\ call'[u].ch = call[u].ch
        /\ call'[u].voucher = call[u].voucher /\ call'[u].before = call[u].before
    BY <1>0, GoesIs DEF CallSteps
  <1>2. /\ channels' \in Seq(ChannelType) /\ Len(channels') = Len(channels)
        /\ DOMAIN channels' = DOMAIN channels /\ ChannelsGrow
        /\ channels'[n].accepted = w.cumulative
        /\ channels'[n].current = channels[n].current
        /\ (\A j \in DOMAIN channels \ {n} : channels'[j] = channels[j])
        /\ \A j \in DOMAIN channels : /\ channels'[j].current = channels[j].current
                                      /\ channels'[j].accepted <= channels'[j].current
                                      /\ channels'[j].current <= channels'[j].deposit
    BY <1>0, AcceptedMoves
  <1>4. CallsTyped'
    <2>1. IsFiniteSet(Started') /\ call' \in [Uses -> CallType]
      BY <1>0, <1>1, StartedStays DEF OtherUsesStay
    <2>2. wire' \subseteq [use : Uses, ch : DOMAIN channels, cumulative : Nat]
      BY <1>0 DEF CallsTyped
    <2> QED BY <1>0, <1>2, <2>1, <2>2 DEF CallsTyped
  <1>6. (\A v \in Uses : Placed(v))'
    <2>1. ASSUME NEW v \in Uses \ {u} PROVE Placed(v)'
      BY <1>0, <1>1, <1>2, <1>4, PlacedStays DEF OtherUsesStay
    <2>2. call[u].before <= channels[n].current
      BY <1>0, <1>n DEF Placed
    <2>3. Placed(u)'
      BY <1>1, <1>2, <1>n, <2>2 DEF Placed, Early, Holding
    <2> QED BY <2>1, <2>3
  <1>7. WiresRight' /\ Alone' /\ \A v \in Uses \ (overlapped' \cup {u}) : Unhindered(v)'
    <2>1. call'[u].at \notin Unsent \cup {"paying"} /\ wire' \subseteq wire
      BY <1>0, <1>1 DEF Unsent, Early
    <2> QED BY <1>0, <1>1, <1>2, <1>4, <2>1, WiresStay, AloneStays, OthersUnhindered
  <1>8. Unhindered(u)'
    BY <1>1 DEF Unhindered
  <1>9. Covered'
    <2>1. ASSUME NEW i \in DOMAIN channels
          PROVE  /\ sold'[i] \in Nat /\ channels'[i].accepted \in Nat
                 /\ sold'[i] + OwedBy(u, i)' + channels[i].accepted
                       <= sold[i] + OwedBy(u, i) + channels'[i].accepted
      <3>1. sold[i] \in Nat /\ channels[i].accepted \in Nat /\ sold' = sold
        BY <1>0, ChannelIsTyped
      <3>2. OwedBy(u, i) = 0
        BY DEF OwedBy
      <3>3. CASE i = n
        <4>1. OwedBy(u, i)' = Price /\ channels'[i].accepted = w.cumulative
          BY <1>1, <1>2, <1>n, <3>3 DEF OwedBy
        <4> QED BY <1>n, <3>1, <3>2, <3>3, <4>1
      <3>4. CASE i # n
        <4>1. OwedBy(u, i)' = 0 /\ channels'[i] = channels[i]
          BY <1>1, <1>2, <1>n, <3>4 DEF OwedBy
        <4> QED BY <3>1, <3>2, <4>1
      <3> QED BY <3>3, <3>4
    <2>2. call'[u].at # "idle" /\ DOMAIN channels' = DOMAIN channels
      BY <1>1, <1>2
    <2> QED BY <1>0, <1>1, <2>1, <2>2, CoveredStays
  <1>10. ReportsSigned'
    <2>1. UnreportedBy(u)' = UnreportedBy(u)
      BY <1>1, <1>2, <1>n DEF UnreportedBy
    <2>2. SignedInAll' = SignedInAll
      <3>1. SignerTotals' = SignerTotals
        BY <1>2 DEF SignerTotals
      <3> QED BY <1>2, <3>1 DEF SignedInAll
    <2>3. SignedInAll \in Nat /\ totals.paid \in Nat /\ totals' = totals
          /\ UnreportedBy(u) \in Nat
      BY <1>0, SignedIsNat, UnreportedIsNat DEF CallsTyped
    <2>4. totals'.paid + UnreportedBy(u)' + SignedInAll
             = totals.paid + UnreportedBy(u) + SignedInAll'
          /\ totals'.paid + UnreportedBy(u)' + SignedInAll
                <= totals.paid + UnreportedBy(u) + SignedInAll'
      BY <2>1, <2>2, <2>3
    <2>5. overlapped' \cap StreamCalls = {} =>
             \A v \in Uses \ {u} : UnreportedBy(v)' = UnreportedBy(v)
      BY <1>0, <1>1, OthersSignNothing
    <2>6. call'[u].at # "idle" /\ call[u].at \notin {"refused", "failed"}
          /\ overlapped \subseteq overlapped'
      BY <1>0, <1>1
    <2> QED BY <1>0, <1>1, <1>4, <1>6, <2>4, <2>5, <2>6, SignedStays
  <1>11. LatestKept'
    <2>1. call'[u].at # "opened" /\ call[u].at # "opened" /\ call[u].at # "failed"
          /\ overlapped \subseteq overlapped' /\ session' = session
      BY <1>0, <1>1
    <2> QED BY <1>0, <1>1, <1>2, <1>4, <2>1, LatestStays
  <1> QED BY <1>4, <1>6, <1>7, <1>8, <1>9, <1>10, <1>11 DEF CallsInv

(* A voucher is refused while its sender waits.                             *)
LEMMA RefusedKeeps ==
    ASSUME CallsInv, NEW w \in wire, NEW u \in Uses, u = w.use, NEW n, n = w.ch,
           Verified(w), call[u].at = "paying", Verdict(channels[n], w.cumulative) # "ok"
    PROVE  CallsInv'
  <1>0. CallsTyped /\ (\A v \in Uses : Placed(v)) /\ ReportsSigned /\ LatestKept
        /\ (\A v \in Uses \ overlapped : Unhindered(v)) /\ WiresRight
        /\ Goes(u, "refused") /\ wire' = wire \ {w} /\ Running(u)
        /\ UNCHANGED <<channels, session, budget, totals, sold, overlapped>>
    BY DEF CallsInv, Verified, Running
  <1>n. n \in DOMAIN channels /\ call[u].ch = n /\ call[u].voucher = w.cumulative
        /\ call[u].voucher = call[u].before + Price
    BY <1>0, TakenWhere DEF WiresRight, WireRight, Placed
  <1>1. /\ OtherUsesStay(u) /\ call'[u].at = "refused" /\ call'[u].ch = call[u].ch
        /\ call'[u].voucher = call[u].voucher /\ call'[u].before = call[u].before
    BY <1>0, GoesIs DEF CallSteps, Outcomes
  <1>2. Placed(u)'
    BY <1>0, <1>1, <1>n DEF Placed, Early, Holding
  <1>3. /\ CallsTyped' /\ (\A v \in Uses : Placed(v))' /\ WiresRight' /\ Alone' /\ Covered'
        /\ \A v \in Uses \ (overlapped' \cup {u}) : Unhindered(v)'
        /\ \A v \in Uses \ {u} : UnreportedBy(v)' = UnreportedBy(v)
        /\ SignedInAll' = SignedInAll /\ ChannelsGrow
    <2>1. session' \in 0..Len(channels) /\ totals' \in [paid : Nat, payments : Nat]
          /\ wire' \subseteq wire
      BY <1>0 DEF CallsTyped
    <2>2. call'[u].at # "idle" /\ call'[u].at \notin Unsent \cup {"paying"}
          /\ call'[u].at # "accepted"
      BY <1>1 DEF Unsent, Early
    <2> QED BY <1>0, <1>1, <1>2, <2>1, <2>2, QuietKeeps
  <1>4. u \notin overlapped => Unhindered(u)'
    <2> SUFFICES ASSUME u \notin overlapped, channels[n].open PROVE FALSE
      BY <1>0, <1>1, <1>n DEF Unhindered
    <2>1. channels[n].accepted <= call[u].before /\ call[u].voucher <= channels[n].deposit
      BY <1>0, <1>n DEF Unhindered
    <2>2. channels[n].accepted \in Nat /\ channels[n].deposit \in Nat /\ call[u].before \in Nat
          /\ Price \in Nat /\ Price > 0 /\ w.cumulative \in Nat
      BY <1>0, <1>n, ChannelIsTyped, CallIsTyped, Amounts, TakenWhere
    <2>3. /\ ~(w.cumulative <= channels[n].accepted)
          /\ ~(w.cumulative - channels[n].accepted < Price)
          /\ ~(w.cumulative > channels[n].deposit)
      BY <1>n, <2>1, <2>2
    <2>4. Verdict(channels[n], w.cumulative) = "ok"
      BY <2>3 DEF Verdict
    <2> QED BY <2>4
  <1>5. ReportsSigned'
    <2>1. UnreportedBy(u)' = 0 /\ UnreportedBy(u) \in Nat /\ SignedInAll \in Nat
          /\ totals.paid \in Nat
      BY <1>0, <1>1, UnreportedIsNat, SignedIsNat DEF UnreportedBy, CallsTyped
    <2>2. totals'.paid + UnreportedBy(u)' + SignedInAll
             <= totals.paid + UnreportedBy(u) + SignedInAll'
      BY <1>0, <1>3, <2>1
    <2>3. call[u].at \notin {"refused", "failed"} /\ call'[u].at # "idle"
          /\ call'[u].at = "refused"
      BY <1>1
    <2> QED BY <1>0, <1>1, <1>3, <2>2, <2>3, SignedStays
  <1>6. LatestKept'
    <2>1. call[u].at # "failed" /\ call'[u].at # "opened" /\ call[u].at # "opened"
      BY <1>1
    <2> QED BY <1>0, <1>1, <1>3, <2>1, LatestStays
  <1> QED BY <1>0, <1>3, <1>4, <1>5, <1>6 DEF CallsInv

(* The invariant holds at the start,                                        *)
LEMMA CallsStart == CallsInit => CallsInv
  <1> SUFFICES ASSUME CallsInit PROVE CallsInv
    OBVIOUS
  <1>1. \A u \in Uses : call[u] = NoCall /\ ~Running(u)
    BY DEF CallsInit, NoCall, Running
  <1>2. Started = {} /\ DOMAIN channels = {} /\ Len(channels) = 0
    BY <1>1 DEF Started, NoCall, CallsInit
  <1>3. CallsTyped
    <2>1. call \in [Uses -> CallType]
      BY DEF CallsInit, NoCall, CallType, CallSteps
    <2>2. budget \in Nat /\ IsFiniteSet(Started)
      BY <1>2, CallsAssumption, FS_EmptySet DEF CallsInit
    <2> QED BY <1>2, <2>1, <2>2 DEF CallsTyped, CallsInit
  <1>4. \A u \in Uses : Placed(u) /\ Unhindered(u)
    BY <1>1 DEF Placed, Unhindered, NoCall, Early, Holding
  <1>5. WiresRight /\ Alone /\ Covered
    BY <1>1, <1>2 DEF WiresRight, Alone, Covered, CallsInit
  <1>6. ReportsSigned
    BY <1>2, SumOfNone DEF ReportsSigned, SignedInAll, CallsInit
  <1>7. LatestKept
    BY <1>1, <1>2 DEF LatestKept, NoCall, CallsInit
  <1> QED BY <1>3, <1>4, <1>5, <1>6, <1>7 DEF CallsInv

(* every step keeps it,                                                     *)
LEMMA CallsKept == CallsInv /\ [CallsNext]_callsVars => CallsInv'
  <1> SUFFICES ASSUME CallsInv, [CallsNext]_callsVars PROVE CallsInv'
    OBVIOUS
  <1>1. ASSUME NEW u \in Uses, UseStep(u) PROVE CallsInv'
    BY <1>1, ToolCalledKeeps, ProbedKeeps, ChannelOpensKeeps, SessionSetKeeps, SignsCallKeeps,
       SignsSliceKeeps, ReportsKeep, ServesKeeps, RefusalsKeep DEF UseStep
  <1>2. ASSUME NEW w \in wire, Verified(w) PROVE CallsInv'
    <2>1. w.use \in Uses
      BY DEF CallsInv, CallsTyped
    <2>2. CASE call[w.use].at # "paying"
      BY <1>2, <2>2, LateVerdictKeeps
    <2>3. CASE call[w.use].at = "paying" /\ Verdict(channels[w.ch], w.cumulative) = "ok"
      BY <1>2, <2>1, <2>3, AcceptedKeeps
    <2>4. CASE call[w.use].at = "paying" /\ Verdict(channels[w.ch], w.cumulative) # "ok"
      BY <1>2, <2>1, <2>4, RefusedKeeps
    <2> QED BY <2>2, <2>3, <2>4
  <1>3. ASSUME NEW w \in wire, VerifyLost(w) PROVE CallsInv'
    BY <1>3, LossKeeps
  <1>4. ASSUME NEW i \in DOMAIN channels, ChannelEnds(i) PROVE CallsInv'
    BY <1>4, EndKeeps
  <1>5. CASE UNCHANGED callsVars
    <2>1. UNCHANGED <<channels, session, budget, call, wire, totals, sold, overlapped>>
      BY <1>5 DEF callsVars
    <2>2. CallsTyped /\ \A v \in Uses \ overlapped : Unhindered(v)
      BY DEF CallsInv
    <2>3. channels' \in Seq(ChannelType) /\ ChannelsGrow
          /\ \A i \in DOMAIN channels : /\ channels'[i].current = channels[i].current
                                        /\ channels'[i].accepted <= channels'[i].current
      BY <2>1, <2>2, NothingGrows DEF CallsTyped
    <2>4. \A v \in Uses \ overlapped, m \in wire' :
             call[v].at = "paying" /\ m.use = v => channels'[call[v].ch].accepted <= call[v].before
      BY <2>1, <2>2 DEF Unhindered
    <2> QED BY <2>1, <2>3, <2>4, IdleKeeps
  <1> QED BY <1>1, <1>2, <1>3, <1>4, <1>5 DEF CallsNext

(* and it gives the property.                                               *)
LEMMA InvMeansCallsAddUp == CallsInv => CallsAddUp
  <1> SUFFICES ASSUME CallsInv PROVE CallsAddUp
    OBVIOUS
  <1>0. CallsTyped /\ (\A v \in Uses : Placed(v)) /\ Covered /\ ReportsSigned /\ LatestKept
        /\ (\A v \in Uses \ overlapped : Unhindered(v))
    BY DEF CallsInv
  <1>1. NeverSoldShort
    <2> SUFFICES ASSUME NEW i \in DOMAIN channels PROVE sold[i] <= channels[i].accepted
      BY DEF NeverSoldShort
    <2>1. sold[i] + OwedIn(i) <= channels[i].accepted
      BY <1>0 DEF Covered, OwedIn
    <2>2. OwedIn(i) \in Nat /\ sold[i] \in Nat /\ channels[i].accepted \in Nat
      BY <1>0, OwedIsNat, ChannelIsTyped
    <2> QED BY <2>1, <2>2
  <1>2. TotalsAreSigned
    <2> SUFFICES ASSUME overlapped \cap StreamCalls = {}
                 PROVE  /\ totals.paid <= SignedInAll
                        /\ (\A u \in Uses : call[u].at \in {"idle", "policy", "served"})
                              => totals.paid = SignedInAll
      BY DEF TotalsAreSigned
    <2>1. UnreportedIn \in Nat /\ totals.paid \in Nat /\ SignedInAll \in Nat
      BY <1>0, UnreportedIsNat, SignedIsNat DEF UnreportedIn, CallsTyped
    <2>2. totals.paid + UnreportedIn <= SignedInAll
          /\ (NoneFailed => totals.paid + UnreportedIn = SignedInAll)
      BY <1>0 DEF ReportsSigned, UnreportedIn
    <2>3. ASSUME \A u \in Uses : call[u].at \in {"idle", "policy", "served"}
          PROVE  totals.paid = SignedInAll
      <3>1. \A u \in Started : Unreported[u] = 0
        BY <2>3 DEF Unreported, UnreportedBy, Started
      <3>2. UnreportedIn = 0
        BY <1>0, <3>1, SumOfZeros DEF UnreportedIn, CallsTyped
      <3>3. NoneFailed
        BY <2>3 DEF NoneFailed
      <3> QED BY <2>1, <2>2, <3>2, <3>3
    <2>4. totals.paid <= SignedInAll
      BY <2>1, <2>2
    <2> QED BY <2>3, <2>4
  <1>3. OnlyOverlapHurts
    <2>1. \A u \in Uses \ overlapped :
             call[u].at \in {"refused", "limit"} => ~channels[call[u].ch].open
      BY <1>0 DEF Unhindered
    <2>2. ASSUME overlapped = {}, NEW u \in Uses, NEW i \in DOMAIN channels \ {call[u].ch},
                 call[u].at = "opened", HasRoom(u, i), \A v \in Uses : call[v].at # "failed"
          PROVE  \E v \in Uses : call[v].ch = i + 1 /\ Needed(v) > Needed(u)
      <3>1. i # Len(channels)
        BY <1>0, <2>2 DEF LatestKept
      <3>2. PICK v \in Uses : /\ call[v].ch = i + 1
                              /\ Needed(v) > channels[i].deposit - channels[i].current
        BY <1>0, <2>2, <3>1 DEF LatestKept
      <3>3. channels[i].deposit \in Nat /\ channels[i].current \in Nat
            /\ Needed(u) \in Nat /\ Needed(v) \in Nat
        BY <1>0, ChannelIsTyped, Amounts
      <3>4. channels[i].deposit - channels[i].current >= Needed(u)
        BY <2>2 DEF HasRoom
      <3>5. Needed(v) > Needed(u)
        BY <3>2, <3>3, <3>4
      <3> QED BY <3>2, <3>5
    <2> QED BY <2>1, <2>2 DEF OnlyOverlapHurts
  <1> QED BY <1>1, <1>2, <1>3 DEF CallsAddUp

(* For any calls and streams of an assistant, overlapping, failing and lost as
   they may: the seller, the facilitator and the assistant's totals agree on
   what was paid, and a use that no other overlaps is not hindered.         *)
THEOREM CallsAlwaysAddUp == CallsSpec => []CallsAddUp
  <1>1. CallsSpec => []CallsInv
    BY CallsStart, CallsKept, PTL DEF CallsSpec
  <1> QED BY <1>1, InvMeansCallsAddUp, PTL

-----------------------------------------------------------------------------
(* What the console shows (Console).                                        *)

EventKinds == {"opened", "topped_up", "accepted", "claimed", "closed"}

Emitted == [type : EventKinds, amount : Nat, ts : Nat \ {0}]

Channel == [deposit : Nat, accepted : Nat, claimed : Nat, open : BOOLEAN]

Cuts == [ts : Nat, base : Nat]

(* Payments of the first n events.                                          *)
PaidIn(list, n) == Cardinality({i \in 1..n : list[i].type = "accepted"})

LEMMA OfInterval ==
    ASSUME NEW n \in Nat, NEW S, S \subseteq 1..n
    PROVE  IsFiniteSet(S) /\ Cardinality(S) \in Nat
<1>1. IsFiniteSet(1..n)
      BY FS_Interval
<1>2. IsFiniteSet(S)
      BY <1>1, FS_Subset
<1>3. QED
      BY <1>2, FS_CardinalityType

LEMMA PaidInIsNat ==
    ASSUME NEW list, NEW n \in Nat
    PROVE  PaidIn(list, n) \in Nat
<1> DEFINE S == {i \in 1..n : list[i].type = "accepted"}
<1>1. S \subseteq 1..n
      OBVIOUS
<1> HIDE DEF S
<1>3. Cardinality(S) \in Nat
      BY <1>1, OfInterval
<1>2. QED
      BY <1>3 DEF PaidIn, S

LEMMA PaidInGrows ==
    ASSUME NEW list, NEW n \in Nat, NEW m \in Nat, m <= n
    PROVE  PaidIn(list, m) <= PaidIn(list, n)
<1> DEFINE S == {i \in 1..m : list[i].type = "accepted"}
           T == {i \in 1..n : list[i].type = "accepted"}
<1>1. T \subseteq 1..n /\ S \subseteq T /\ S \subseteq 1..n
      OBVIOUS
<1> HIDE DEF S, T
<1>2. Cardinality(S) <= Cardinality(T)
      BY <1>1, OfInterval, FS_Subset
<1>3. QED
      BY <1>2 DEF PaidIn, S, T

LEMMA PaidInNext ==
    ASSUME NEW list, NEW n \in Nat \ {0}
    PROVE  PaidIn(list, n) = PaidIn(list, n - 1) + (IF list[n].type = "accepted" THEN 1 ELSE 0)
<1> DEFINE S == {i \in 1..(n - 1) : list[i].type = "accepted"}
           T == {i \in 1..n : list[i].type = "accepted"}
<1>1. S \subseteq 1..(n - 1) /\ n \notin S /\ n - 1 \in Nat
      OBVIOUS
<1>2. T = IF list[n].type = "accepted" THEN S \cup {n} ELSE S
      OBVIOUS
<1> HIDE DEF S, T
<1>3. Cardinality(S) \in Nat /\ Cardinality(S \cup {n}) = Cardinality(S) + 1
      BY <1>1, OfInterval, FS_AddElement
<1>4. Cardinality(T) = Cardinality(S) + (IF list[n].type = "accepted" THEN 1 ELSE 0)
      BY <1>2, <1>3
<1>5. QED
      BY <1>4 DEF PaidIn, S, T

LEMMA PaidInStays ==
    ASSUME NEW list, NEW longer, NEW n \in Nat, \A i \in 1..n : longer[i] = list[i]
    PROVE  PaidIn(longer, n) = PaidIn(list, n)
<1>1. {i \in 1..n : longer[i].type = "accepted"} = {i \in 1..n : list[i].type = "accepted"}
      OBVIOUS
<1>2. QED
      BY <1>1 DEF PaidIn

(* Payments among the events of a batch.                                    *)
CountsIn(list, b) == Cardinality({n \in DOMAIN b : list[b[n]].type = "accepted"})

LEMMA CountsInNone ==
    ASSUME NEW list
    PROVE  CountsIn(list, <<>>) = 0
<1>1. {n \in DOMAIN <<>> : list[<<>>[n]].type = "accepted"} = {}
      OBVIOUS
<1>2. QED
      BY <1>1, FS_EmptySet DEF CountsIn

LEMMA CountsInIsNat ==
    ASSUME NEW list, NEW S, NEW b \in Seq(S)
    PROVE  CountsIn(list, b) \in Nat
<1>1. Len(b) \in Nat /\ DOMAIN b = 1..Len(b)
      OBVIOUS
<1> DEFINE A == {n \in DOMAIN b : list[b[n]].type = "accepted"}
<1>2. A \subseteq 1..Len(b)
      BY <1>1
<1> HIDE DEF A
<1>3. Cardinality(A) \in Nat
      BY <1>1, <1>2, OfInterval
<1>4. QED
      BY <1>3 DEF CountsIn, A

LEMMA CountsInAppended ==
    ASSUME NEW list, NEW S, NEW b \in Seq(S), NEW i \in S
    PROVE  CountsIn(list, Append(b, i))
             = CountsIn(list, b) + (IF list[i].type = "accepted" THEN 1 ELSE 0)
<1> DEFINE l == Len(b)
           A == {n \in DOMAIN b : list[b[n]].type = "accepted"}
           c == Append(b, i)
           B == {n \in DOMAIN c : list[c[n]].type = "accepted"}
<1>1. l \in Nat /\ DOMAIN b = 1..l /\ DOMAIN c = 1..(l + 1)
      OBVIOUS
<1>2. \A n \in 1..l : c[n] = b[n]
      OBVIOUS
<1>3. c[l + 1] = i
      OBVIOUS
<1> HIDE DEF l, c
<1>4. A \subseteq 1..l /\ l + 1 \notin A
      BY <1>1
<1>5. B = IF list[i].type = "accepted" THEN A \cup {l + 1} ELSE A
      BY <1>1, <1>2, <1>3
<1> HIDE DEF A, B
<1>6. Cardinality(A) \in Nat /\ Cardinality(A \cup {l + 1}) = Cardinality(A) + 1
      BY <1>1, <1>4, OfInterval, FS_AddElement
<1>7. Cardinality(B) = Cardinality(A) + (IF list[i].type = "accepted" THEN 1 ELSE 0)
      BY <1>5, <1>6
<1>8. QED
      BY <1>7 DEF CountsIn, A, B, c

LEMMA CountsInStays ==
    ASSUME NEW list, NEW longer, NEW b, \A n \in DOMAIN b : longer[b[n]] = list[b[n]]
    PROVE  CountsIn(longer, b) = CountsIn(list, b)
<1>1. {n \in DOMAIN b : longer[b[n]].type = "accepted"}
        = {n \in DOMAIN b : list[b[n]].type = "accepted"}
      OBVIOUS
<1>2. QED
      BY <1>1 DEF CountsIn

-----------------------------------------------------------------------------
(* The reducer.                                                             *)

LEMMA EventsApply ==
    ASSUME NEW ch, NEW e
    PROVE  /\ e.type = "opened" =>
                 apply(ch, e) = [Known(ch) EXCEPT !.deposit = e.amount, !.open = TRUE]
           /\ e.type = "topped_up" => apply(ch, e) = [Known(ch) EXCEPT !.deposit = e.amount]
           /\ e.type = "accepted" =>
                 apply(ch, e) = [Known(ch) EXCEPT !.accepted = Max2(@, e.amount)]
           /\ e.type = "claimed" =>
                 apply(ch, e) = [Known(ch) EXCEPT !.claimed = ClaimedOf(Known(ch), e.amount)]
           /\ e.type = "closed" => apply(ch, e) = [Known(ch) EXCEPT !.open = FALSE]
  BY Zenon DEF apply

(* The recursion behind FoldLeft(apply, v, b), which takes the last first.  *)
FoldsUp(v, b, S, it) ==
    it = [s \in SUBSET S |-> IF s = {} THEN v ELSE apply(it[s \ {Max(s)}], b[Max(s)])]

FoldOf(v, b, S) == CHOOSE it : FoldsUp(v, b, S, it)

LEMMA FoldUnfolds ==
    ASSUME NEW v, NEW b
    PROVE  FoldLeft(apply, v, b) = FoldOf(v, b, DOMAIN b)[DOMAIN b]
  BY DEF FoldLeft, MapThenFoldSet, FoldOf, FoldsUp

LEMMA LatestIsIn ==
    ASSUME NEW S \in SUBSET Nat, IsFiniteSet(S), S # {}
    PROVE  Max(S) \in S /\ S \ {Max(S)} # S /\ \A y \in S : Max(S) >= y
<1>1. \E x \in S : \A y \in S : x >= y
  <2> DEFINE B == {T \in SUBSET S : T # {} /\ ~\E x \in T : \A y \in T : x >= y}
  <2> SUFFICES ASSUME B # {} PROVE FALSE
      OBVIOUS
  <2>1. PICK T \in B : \A U \in SUBSET T : U # T => U \notin B
    <3>1. B \subseteq SUBSET S
          OBVIOUS
    <3> HIDE DEF B
    <3>2. QED
          BY <3>1, SmallestSet
  <2>2. PICK t \in T : TRUE
        OBVIOUS
  <2> DEFINE U == T \ {t}
  <2>3. U \notin B
        BY <2>1, <2>2
  <2>4. CASE U = {}
    <3>1. \A y \in T : t >= y
          BY <2>2, <2>4
    <3>2. QED
          BY <2>2, <3>1
  <2>5. CASE U # {}
    <3>1. PICK x \in U : \A y \in U : x >= y
          BY <2>3, <2>5
    <3>2. x \in Nat /\ t \in Nat /\ \A y \in T : y \in Nat
          OBVIOUS
    <3>3. CASE x >= t
          BY <3>1, <3>2, <3>3
    <3>4. CASE t >= x
      <4>1. \A y \in U : t >= y
            BY <3>1, <3>2, <3>4
      <4>2. QED
            BY <2>2, <3>2, <4>1
    <3>5. QED
          BY <3>2, <3>3, <3>4
  <2>6. QED
        BY <2>4, <2>5
<1>2. Max(S) \in S /\ \A y \in S : Max(S) >= y
      BY <1>1, Zenon DEF Max
<1>3. QED
      BY <1>2

LEMMA FoldsAgree ==
    ASSUME NEW v, NEW b, NEW S \in SUBSET Nat, IsFiniteSet(S), NEW T \in SUBSET S,
           NEW i, FoldsUp(v, b, S, i), NEW j, FoldsUp(v, b, T, j)
    PROVE  \A s \in SUBSET T : i[s] = j[s]
<1> DEFINE B == {s \in SUBSET T : i[s] # j[s]}
<1> SUFFICES ASSUME B # {} PROVE FALSE
    OBVIOUS
<1>1. PICK s \in B : \A u \in SUBSET s : u # s => u \notin B
  <2>1. B \subseteq SUBSET S
        OBVIOUS
  <2> HIDE DEF B
  <2>2. QED
        BY <2>1, SmallestSet
<1> DEFINE u == s \ {Max(s)}
<1>2. s \in SUBSET S /\ s \in SUBSET T /\ s \in SUBSET Nat
      OBVIOUS
<1>3. /\ i[s] = IF s = {} THEN v ELSE apply(i[u], b[Max(s)])
      /\ j[s] = IF s = {} THEN v ELSE apply(j[u], b[Max(s)])
      BY <1>2 DEF FoldsUp
<1>4. s # {}
      BY <1>1, <1>3
<1>5. u \in SUBSET s /\ u # s
  <2>1. IsFiniteSet(s)
        BY <1>2, FS_Subset
  <2>2. QED
        BY <1>2, <1>4, <2>1, LatestIsIn
<1>6. i[u] = j[u]
      BY <1>1, <1>5
<1>7. QED
      BY <1>1, <1>3, <1>6

(* The recursion is well founded.                                           *)
LEMMA FoldExists ==
    ASSUME NEW v, NEW b, NEW S \in SUBSET Nat, IsFiniteSet(S)
    PROVE  FoldsUp(v, b, S, FoldOf(v, b, S))
<1> DEFINE Good(T) == FoldsUp(v, b, T, FoldOf(v, b, T))
           B == {T \in SUBSET S : ~Good(T)}
<1> SUFFICES ASSUME B # {} PROVE FALSE
    OBVIOUS
<1>1. PICK T \in B : \A U \in SUBSET T : U # T => U \notin B
  <2>1. B \subseteq SUBSET S
        OBVIOUS
  <2> HIDE DEF B
  <2>2. QED
        BY <2>1, SmallestSet
<1>2. \A U \in SUBSET T : U # T => Good(U)
      BY <1>1
<1>3. \A s \in SUBSET T : s \in SUBSET Nat /\ IsFiniteSet(s)
  <2>1. \A s \in SUBSET T : s \in SUBSET S
        OBVIOUS
  <2>2. QED
        BY <2>1, FS_Subset
<1> HIDE DEF Good
<1> DEFINE Value(u) == FoldOf(v, b, u)[u]
           Rest(s) == s \ {Max(s)}
           it == [s \in SUBSET T |-> IF s = {} THEN v ELSE apply(Value(Rest(s)), b[Max(s)])]
<1>4. ASSUME NEW s \in SUBSET T, s # {}
      PROVE  Rest(s) \in SUBSET s /\ Rest(s) # s
      BY <1>3, <1>4, LatestIsIn
<1> HIDE DEF Rest
<1>5. ASSUME NEW s \in SUBSET T, s # {}
      PROVE  it[Rest(s)] = Value(Rest(s))
  <2> DEFINE u == Rest(s)
  <2>1. u \in SUBSET T /\ u # T
        BY <1>4, <1>5
  <2> HIDE DEF u
  <2>2. it[u] = IF u = {} THEN v ELSE apply(Value(Rest(u)), b[Max(u)])
        BY <2>1
  <2>3. FoldsUp(v, b, u, FoldOf(v, b, u))
        BY <1>2, <2>1 DEF Good
  <2>4. Value(u) = IF u = {} THEN v ELSE apply(FoldOf(v, b, u)[Rest(u)], b[Max(u)])
        BY <2>3 DEF FoldsUp, Rest
  <2>5. ASSUME u # {}
        PROVE  FoldOf(v, b, u)[Rest(u)] = Value(Rest(u))
    <3> DEFINE w == Rest(u)
    <3>1. w \in SUBSET u /\ w \in SUBSET T /\ w # T
          BY <1>4, <2>1, <2>5
    <3>2. FoldsUp(v, b, w, FoldOf(v, b, w))
          BY <1>2, <3>1 DEF Good
    <3>3. IsFiniteSet(u) /\ u \in SUBSET Nat
          BY <1>3, <2>1
    <3> HIDE DEF w
    <3>4. w \in SUBSET w
          OBVIOUS
    <3> DEFINE i == FoldOf(v, b, u)
               j == FoldOf(v, b, w)
    <3>7. FoldsUp(v, b, u, i) /\ FoldsUp(v, b, w, j)
          BY <2>3, <3>2
    <3> HIDE DEF i, j, it, Value, B
    <3>8. \A x \in SUBSET w : i[x] = j[x]
          BY <3>1, <3>3, <3>7, FoldsAgree
    <3>5. FoldOf(v, b, u)[w] = FoldOf(v, b, w)[w]
          BY <3>4, <3>8 DEF i, j
    <3>6. QED
          BY <3>5 DEF w, Value
  <2>6. QED
        BY <2>2, <2>4, <2>5 DEF u
<1>6. FoldsUp(v, b, T, it)
      BY <1>4, <1>5 DEF FoldsUp, Rest
<1>7. Good(T)
  <2> HIDE DEF it
  <2>1. QED
        BY <1>6 DEF Good, FoldOf
<1>8. QED
      BY <1>1, <1>7 DEF Good

LEMMA KnownIsKnown ==
    ASSUME NEW c \in Channel
    PROVE  Known(c) = c /\ c # None
  BY NoneAssumption DEF Known, Channel

LEMMA EventApplied ==
    ASSUME NEW ch, Known(ch) \in Channel, NEW e \in Emitted
    PROVE  LET k == Known(ch)
               r == apply(ch, e)
           IN  /\ r \in Channel
               /\ IF e.type = "accepted" THEN r.accepted = Max2(k.accepted, e.amount)
                                         ELSE r.accepted = k.accepted
               /\ e.type \in {"opened", "accepted"} => r.claimed = k.claimed
               /\ e.type = "opened" => r.deposit = e.amount /\ r.open = TRUE
               /\ e.type = "accepted" => r.deposit = k.deposit /\ r.open = k.open
<1> DEFINE k == Known(ch)
           r == apply(ch, e)
<1>1. k \in Channel /\ e.amount \in Nat /\ e.type \in EventKinds
      BY DEF Emitted
<1>2. CASE e.type = "opened"
  <2>1. r = [k EXCEPT !.deposit = e.amount, !.open = TRUE]
        BY <1>2, EventsApply
  <2> HIDE DEF k, r
  <2>2. QED
        BY <1>1, <1>2, <2>1 DEF Channel, k, r
<1>3. CASE e.type = "topped_up"
  <2>1. r = [k EXCEPT !.deposit = e.amount]
        BY <1>3, EventsApply
  <2> HIDE DEF k, r
  <2>2. QED
        BY <1>1, <1>3, <2>1 DEF Channel, k, r
<1>4. CASE e.type = "accepted"
  <2>1. r = [k EXCEPT !.accepted = Max2(@, e.amount)]
        BY <1>4, EventsApply
  <2>2. Max2(k.accepted, e.amount) \in Nat
        BY <1>1 DEF Max2, Channel
  <2> DEFINE m == Max2(k.accepted, e.amount)
  <2>4. r = [k EXCEPT !.accepted = m]
        BY <2>1
  <2> HIDE DEF k, r, m
  <2>3. QED
        BY <1>1, <1>4, <2>4, <2>2 DEF Channel, k, r, m
<1>5. CASE e.type = "claimed"
  <2>1. r = [k EXCEPT !.claimed = ClaimedOf(k, e.amount)]
        BY <1>5, EventsApply
  <2> DEFINE m == ClaimedOf(k, e.amount)
  <2>2. m \in Nat
        BY <1>1 DEF ClaimedOf, Min2, Channel
  <2>4. r = [k EXCEPT !.claimed = m]
        BY <2>1
  <2> HIDE DEF k, r, m
  <2>3. QED
        BY <1>1, <1>5, <2>4, <2>2 DEF Channel, k, r
<1>6. CASE e.type = "closed"
  <2>1. r = [k EXCEPT !.open = FALSE]
        BY <1>6, EventsApply
  <2> HIDE DEF k, r
  <2>2. QED
        BY <1>1, <1>6, <2>1 DEF Channel, k, r
<1>7. QED
      BY <1>1, <1>2, <1>3, <1>4, <1>5, <1>6 DEF EventKinds

(* What the events of b made of the channel c is r.                         *)
Made(r, c, b) ==
    /\ r \in Channel
    /\ r.accepted >= c.accepted
    /\ \A n \in DOMAIN b : b[n].type = "accepted" => r.accepted >= b[n].amount
    /\ \/ r.accepted = c.accepted
       \/ \E n \in DOMAIN b : b[n].type = "accepted" /\ r.accepted = b[n].amount
    /\ (\A n \in DOMAIN b : b[n].type \in {"opened", "accepted"}) =>
          /\ r.claimed = c.claimed
          /\ \/ /\ r.deposit = c.deposit /\ r.open = c.open
                /\ \A n \in DOMAIN b : b[n].type # "opened"
             \/ /\ \E n \in DOMAIN b : b[n].type = "opened" /\ r.deposit = b[n].amount
                /\ r.open = TRUE

LEMMA BatchApplied ==
    ASSUME NEW v, Known(v) \in Channel, NEW b \in Seq(Emitted), b # <<>>
    PROVE  Made(FoldLeft(apply, v, b), Known(v), b)
<1> DEFINE n == Len(b)
           it == FoldOf(v, b, 1..n)
           At(k) == it[1..k]
           c == Known(v)
           Right(k) ==
              LET r == Known(At(k)) IN
              /\ r \in Channel
              /\ r.accepted >= c.accepted
              /\ \A i \in 1..k : b[i].type = "accepted" => r.accepted >= b[i].amount
              /\ \/ r.accepted = c.accepted
                 \/ \E i \in 1..k : b[i].type = "accepted" /\ r.accepted = b[i].amount
              /\ (\A i \in 1..k : b[i].type \in {"opened", "accepted"}) =>
                    /\ r.claimed = c.claimed
                    /\ \/ /\ r.deposit = c.deposit /\ r.open = c.open
                          /\ \A i \in 1..k : b[i].type # "opened"
                       \/ /\ \E i \in 1..k : b[i].type = "opened" /\ r.deposit = b[i].amount
                          /\ r.open = TRUE
<1>1. n \in Nat \ {0} /\ DOMAIN b = 1..n
      OBVIOUS
<1>2. FoldsUp(v, b, 1..n, it)
      BY <1>1, FS_Interval, FoldExists
<1>3. \A i \in 1..n : b[i] \in Emitted
      OBVIOUS
<1> HIDE DEF it, n
<1>4. At(0) = v
  <2>1. (1..0) = {} /\ {} \in SUBSET (1..n)
        OBVIOUS
  <2>2. it[{}] = v
        BY <1>2, <2>1 DEF FoldsUp
  <2>3. QED
        BY <2>1, <2>2
<1>5. ASSUME NEW k \in 1..n
      PROVE  At(k) = apply(At(k - 1), b[k])
  <2> HIDE DEF At, Right
  <2>1. (1..k) \in SUBSET (1..n) /\ (1..k) # {} /\ (1..k) \ {k} = 1..(k - 1)
    <3>1. k \in Nat /\ k >= 1 /\ k <= n
          BY <1>1
    <3>2. k \in 1..k /\ \A x \in 1..k : x \in 1..n
          BY <1>1, <3>1
    <3>3. \A x : x \in 1..k /\ x # k <=> x \in 1..(k - 1)
          BY <3>1
    <3>4. QED
          BY <3>2, <3>3
  <2>2. Max(1..k) = k
    <3>1. k \in 1..k /\ \A y \in 1..k : k >= y
          BY <1>1
    <3>2. \A x \in 1..k : (\A y \in 1..k : x >= y) => x = k
          BY <1>1
    <3>3. QED
          BY <3>1, <3>2 DEF Max
  <2>3. it[1..k] = apply(it[(1..k) \ {Max(1..k)}], b[Max(1..k)])
        BY <1>2, <2>1 DEF FoldsUp
  <2>4. QED
        BY <2>1, <2>2, <2>3 DEF At
<1> HIDE DEF At
<1>6. Right(0)
  <2>1. Known(At(0)) = c /\ (1..0) = {} /\ c \in Channel
        BY <1>4
  <2>2. c.accepted \in Nat
        BY <2>1 DEF Channel
  <2> HIDE DEF c
  <2>3. QED
        BY <2>1, <2>2
<1>7. ASSUME NEW k \in 1..n, Right(k - 1)
      PROVE  Right(k) /\ At(k) \in Channel
  <2> DEFINE p == Known(At(k - 1))
             q == At(k)
             e == b[k]
  <2>1. p \in Channel /\ e \in Emitted /\ q = apply(At(k - 1), e)
        BY <1>3, <1>5, <1>7
  <2>2. /\ q \in Channel
        /\ IF e.type = "accepted" THEN q.accepted = Max2(p.accepted, e.amount)
                                  ELSE q.accepted = p.accepted
        /\ e.type \in {"opened", "accepted"} => q.claimed = p.claimed
        /\ e.type = "opened" => q.deposit = e.amount /\ q.open = TRUE
        /\ e.type = "accepted" => q.deposit = p.deposit /\ q.open = p.open
    <3> DEFINE ch == At(k - 1)
    <3>1. Known(ch) \in Channel /\ e \in Emitted /\ q = apply(ch, e) /\ p = Known(ch)
          BY <2>1
    <3> HIDE DEF ch, p, q, e, Right
    <3>2. QED
          BY <3>1, EventApplied
  <2>3. Known(q) = q
        BY <2>2, KnownIsKnown
  <2>4. 1..k = (1..(k - 1)) \cup {k} /\ k \in Nat
        BY <1>1
  <2>5. p.accepted \in Nat /\ q.accepted \in Nat /\ c.accepted \in Nat /\ e.amount \in Nat
    <3>1. c \in Channel
          OBVIOUS
    <3> HIDE DEF p, q, c, e
    <3>2. QED
          BY <2>1, <2>2, <3>1 DEF Channel, Emitted
  <2>6. \A i \in 1..(k - 1) : b[i].amount \in Nat
    <3> HIDE DEF p, q, e, Right
    <3>1. \A i \in 1..(k - 1) : i \in 1..n
          BY <1>1, <1>7
    <3>2. \A i \in 1..(k - 1) : b[i] \in Emitted
          BY <1>3, <3>1
    <3>3. \A y \in Emitted : y.amount \in Nat
          BY DEF Emitted
    <3>4. QED
          BY <3>2, <3>3
  <2>7. /\ p.accepted >= c.accepted
        /\ \A i \in 1..(k - 1) : b[i].type = "accepted" => p.accepted >= b[i].amount
        /\ \/ p.accepted = c.accepted
           \/ \E i \in 1..(k - 1) : b[i].type = "accepted" /\ p.accepted = b[i].amount
        BY <1>7
  <2>8. (\A i \in 1..(k - 1) : b[i].type \in {"opened", "accepted"}) =>
                    /\ p.claimed = c.claimed
                    /\ \/ /\ p.deposit = c.deposit /\ p.open = c.open
                          /\ \A i \in 1..(k - 1) : b[i].type # "opened"
                       \/ /\ \E i \in 1..(k - 1) : b[i].type = "opened" /\ p.deposit = b[i].amount
                          /\ p.open = TRUE
        BY <1>7
  <2> HIDE DEF p, q, c, Right
  <2>9. q.accepted >= p.accepted /\ (e.type = "accepted" => q.accepted >= e.amount)
        /\ (q.accepted = p.accepted \/ (e.type = "accepted" /\ q.accepted = e.amount))
        BY <2>2, <2>5 DEF Max2
  <2>10. /\ q.accepted >= c.accepted
         /\ \A i \in 1..k : b[i].type = "accepted" => q.accepted >= b[i].amount
         /\ \/ q.accepted = c.accepted
            \/ \E i \in 1..k : b[i].type = "accepted" /\ q.accepted = b[i].amount
        BY <2>4, <2>5, <2>6, <2>7, <2>9
  <2>11. ASSUME \A i \in 1..k : b[i].type \in {"opened", "accepted"}
         PROVE  /\ q.claimed = c.claimed
                /\ \/ /\ q.deposit = c.deposit /\ q.open = c.open
                      /\ \A i \in 1..k : b[i].type # "opened"
                   \/ /\ \E i \in 1..k : b[i].type = "opened" /\ q.deposit = b[i].amount
                      /\ q.open = TRUE
    <3>1. e.type = "opened" \/ e.type = "accepted"
          BY <2>4, <2>11
    <3>2. CASE e.type = "opened"
          BY <2>2, <2>4, <2>8, <2>11, <3>2
    <3>3. CASE e.type = "accepted"
          BY <2>2, <2>4, <2>8, <2>11, <3>3
    <3>4. QED
          BY <3>1, <3>2, <3>3
  <2>12. QED
        BY <2>2, <2>3, <2>10, <2>11 DEF Right, q
<1> HIDE DEF Right
<1>8. \A k \in 0..n : Right(k)
  <2> DEFINE B == {k \in 0..n : ~Right(k)}
  <2> SUFFICES ASSUME B # {} PROVE FALSE
      OBVIOUS
  <2>1. B \in SUBSET Nat
        OBVIOUS
  <2>2. PICK m \in B : \A k \in B : m <= k
    <3> HIDE DEF B
    <3>1. QED
          BY <2>1, LeastOf
  <2>3. m \in 0..n /\ ~Right(m) /\ m # 0
        BY <1>6, <2>2
  <2>4. m \in 1..n /\ m - 1 \in 0..n /\ m - 1 < m
        BY <1>1, <2>3
  <2>5. Right(m - 1)
        BY <2>2, <2>4
  <2>6. QED
        BY <1>7, <2>3, <2>4, <2>5
<1>9. Right(n) /\ At(n) \in Channel
  <2>1. n \in 1..n /\ n - 1 \in 0..n
        BY <1>1
  <2>2. QED
        BY <1>7, <1>8, <2>1
<1>10. FoldLeft(apply, v, b) = At(n)
      BY <1>1, FoldUnfolds DEF At, it
<1>11. Known(At(n)) = At(n)
      BY <1>9, KnownIsKnown
<1>12. QED
      BY <1>1, <1>9, <1>10, <1>11 DEF Made, Right

-----------------------------------------------------------------------------
(* The server and its events.                                               *)

Opening == {"opened", "topped_up"}

(* What changes by a difference, or must not come too late.                 *)
Changing == {"topped_up", "claimed", "closed"}

(* But for the payments, c is the channel as it was after event n.          *)
Follows(list, c, n) ==
    /\ \E d \in 1..n : /\ list[d].type \in Opening /\ c.deposit = list[d].amount
                       /\ \A j \in (d + 1)..n : list[j].type \notin Opening
    /\ \E k \in 0..n : /\ k = 0 \/ list[k].type = "claimed"
                       /\ c.claimed = PaidIn(list, k)
                       /\ \A j \in (k + 1)..n : list[j].type # "claimed"
    /\ c.open = (\A j \in 1..n : list[j].type # "closed")

Told(list) ==
    /\ list \in Seq(Emitted)
    /\ \A i, j \in DOMAIN list : i <= j => list[i].ts <= list[j].ts
    /\ \A j \in DOMAIN list : /\ list[j].type = "opened" <=> j = 1
                              /\ list[j].type = "accepted" => list[j].amount = PaidIn(list, j)

ServerRight ==
    IF log = <<>> THEN server = None
    ELSE /\ server \in Channel /\ server.accepted = PaidIn(log, Len(log))
         /\ Follows(log, server, Len(log))

LEMMA FollowsStays ==
    ASSUME NEW list, NEW longer, NEW n \in Nat, \A i \in 1..n : longer[i] = list[i],
           NEW c, Follows(list, c, n)
    PROVE  Follows(longer, c, n)
<1>1. \E d \in 1..n : /\ longer[d].type \in Opening /\ c.deposit = longer[d].amount
                      /\ \A j \in (d + 1)..n : longer[j].type \notin Opening
  <2>1. PICK d \in 1..n : /\ list[d].type \in Opening /\ c.deposit = list[d].amount
                          /\ \A j \in (d + 1)..n : list[j].type \notin Opening
        BY DEF Follows
  <2>2. \A j \in (d + 1)..n : j \in 1..n
        OBVIOUS
  <2>3. QED
        BY <2>1, <2>2
<1>2. \E k \in 0..n : /\ k = 0 \/ longer[k].type = "claimed"
                      /\ c.claimed = PaidIn(longer, k)
                      /\ \A j \in (k + 1)..n : longer[j].type # "claimed"
  <2>1. PICK k \in 0..n : /\ k = 0 \/ list[k].type = "claimed"
                          /\ c.claimed = PaidIn(list, k)
                          /\ \A j \in (k + 1)..n : list[j].type # "claimed"
        BY DEF Follows
  <2>2. \A j \in (k + 1)..n : j \in 1..n
        OBVIOUS
  <2>3. k # 0 => longer[k].type = list[k].type
        OBVIOUS
  <2>4. PaidIn(longer, k) = PaidIn(list, k)
        BY PaidInStays
  <2>5. QED
        BY <2>1, <2>2, <2>3, <2>4
<1>3. c.open = (\A j \in 1..n : longer[j].type # "closed")
      BY DEF Follows
<1>4. QED
      BY <1>1, <1>2, <1>3 DEF Follows

(* Two channels that follow the same events are the same.                   *)
LEMMA FollowsOnce ==
    ASSUME NEW list, NEW n \in Nat, NEW c, Follows(list, c, n), NEW d, Follows(list, d, n)
    PROVE  c.deposit = d.deposit /\ c.claimed = d.claimed /\ c.open = d.open
<1>1. c.deposit = d.deposit
  <2>1. PICK i \in 1..n : /\ list[i].type \in Opening /\ c.deposit = list[i].amount
                          /\ \A j \in (i + 1)..n : list[j].type \notin Opening
        BY DEF Follows
  <2>2. PICK k \in 1..n : /\ list[k].type \in Opening /\ d.deposit = list[k].amount
                          /\ \A j \in (k + 1)..n : list[j].type \notin Opening
        BY DEF Follows
  <2>3. i = k
    <3>1. CASE i < k
          BY <2>1, <2>2, <3>1
    <3>2. CASE k < i
          BY <2>1, <2>2, <3>2
    <3>3. QED
          BY <3>1, <3>2
  <2>4. QED
        BY <2>1, <2>2, <2>3
<1>2. c.claimed = d.claimed
  <2>1. PICK i \in 0..n : /\ i = 0 \/ list[i].type = "claimed"
                          /\ c.claimed = PaidIn(list, i)
                          /\ \A j \in (i + 1)..n : list[j].type # "claimed"
        BY DEF Follows
  <2>2. PICK k \in 0..n : /\ k = 0 \/ list[k].type = "claimed"
                          /\ d.claimed = PaidIn(list, k)
                          /\ \A j \in (k + 1)..n : list[j].type # "claimed"
        BY DEF Follows
  <2>3. i = k
    <3>1. CASE i < k
          BY <2>1, <2>2, <3>1
    <3>2. CASE k < i
          BY <2>1, <2>2, <3>2
    <3>3. QED
          BY <3>1, <3>2
  <2>4. QED
        BY <2>1, <2>2, <2>3
<1>3. c.open = d.open
      BY DEF Follows
<1>4. QED
      BY <1>1, <1>2, <1>3

(* Where nothing changes but the payments, it is followed further.          *)
LEMMA FollowsFurther ==
    ASSUME NEW list, NEW m \in Nat, NEW n \in Nat, m <= n, NEW c, Follows(list, c, m),
           \A j \in (m + 1)..n : list[j].type \notin Opening \cup Changing
    PROVE  Follows(list, c, n)
<1>1. \A j \in (m + 1)..n : /\ list[j].type \notin Opening /\ list[j].type # "claimed"
                            /\ list[j].type # "closed"
      BY DEF Changing
<1>2. \A j \in 1..n : j \in 1..m \/ j \in (m + 1)..n
      OBVIOUS
<1>3. \E d \in 1..n : /\ list[d].type \in Opening /\ c.deposit = list[d].amount
                      /\ \A j \in (d + 1)..n : list[j].type \notin Opening
  <2>1. PICK d \in 1..m : /\ list[d].type \in Opening /\ c.deposit = list[d].amount
                          /\ \A j \in (d + 1)..m : list[j].type \notin Opening
        BY DEF Follows
  <2>2. \A j \in (d + 1)..n : j \in (d + 1)..m \/ j \in (m + 1)..n
        OBVIOUS
  <2>3. QED
        BY <1>1, <2>1, <2>2
<1>4. \E k \in 0..n : /\ k = 0 \/ list[k].type = "claimed"
                      /\ c.claimed = PaidIn(list, k)
                      /\ \A j \in (k + 1)..n : list[j].type # "claimed"
  <2>1. PICK k \in 0..m : /\ k = 0 \/ list[k].type = "claimed"
                          /\ c.claimed = PaidIn(list, k)
                          /\ \A j \in (k + 1)..m : list[j].type # "claimed"
        BY DEF Follows
  <2>2. \A j \in (k + 1)..n : j \in (k + 1)..m \/ j \in (m + 1)..n
        OBVIOUS
  <2>3. QED
        BY <1>1, <2>1, <2>2
<1>5. c.open = (\A j \in 1..n : list[j].type # "closed")
  <2>1. \A j \in 1..m : j \in 1..n
        OBVIOUS
  <2>2. c.open = (\A j \in 1..m : list[j].type # "closed")
        BY DEF Follows
  <2>3. (\A j \in 1..m : list[j].type # "closed") <=> (\A j \in 1..n : list[j].type # "closed")
        BY <1>1, <1>2, <2>1
  <2>4. QED
        BY <2>2, <2>3
<1>6. QED
      BY <1>3, <1>4, <1>5 DEF Follows

(* Only the three matter.                                                   *)
LEMMA FollowsAlike ==
    ASSUME NEW list, NEW n, NEW c, Follows(list, c, n), NEW d,
           d.deposit = c.deposit, d.claimed = c.claimed, d.open = c.open
    PROVE  Follows(list, d, n)
  BY DEF Follows

(* Of what was opened first, and did not change, this is known.             *)
LEMMA FollowsOpening ==
    ASSUME NEW list, Told(list), NEW n \in Nat, n >= 1, n <= Len(list),
           \A j \in 1..n : list[j].type \notin Changing,
           NEW c, c.deposit = list[1].amount, c.claimed = 0, c.open = TRUE
    PROVE  Follows(list, c, n)
<1>1. \A j \in 1..n : list[j].type = "opened" <=> j = 1
      BY DEF Told
<1>2. \A j \in 1..n : /\ list[j].type # "claimed" /\ list[j].type # "closed"
                      /\ list[j].type \in Opening <=> j = 1
      BY <1>1 DEF Changing, Opening
<1>3. PaidIn(list, 0) = 0
  <2>1. {i \in 1..0 : list[i].type = "accepted"} = {}
        OBVIOUS
  <2>2. QED
        BY <2>1, FS_EmptySet DEF PaidIn
<1>4. 1 \in 1..n /\ 0 \in 0..n /\ (\A j \in (0 + 1)..n : j \in 1..n)
      /\ (\A j \in (1 + 1)..n : j \in 1..n /\ j # 1)
      OBVIOUS
<1>5. \E d \in 1..n : /\ list[d].type \in Opening /\ c.deposit = list[d].amount
                      /\ \A j \in (d + 1)..n : list[j].type \notin Opening
      BY <1>2, <1>4
<1>6. \E k \in 0..n : /\ k = 0 \/ list[k].type = "claimed"
                      /\ c.claimed = PaidIn(list, k)
                      /\ \A j \in (k + 1)..n : list[j].type # "claimed"
      BY <1>2, <1>3, <1>4
<1>7. QED
      BY <1>2, <1>5, <1>6 DEF Follows

LEMMA ToldFurther ==
    ASSUME NEW list, Told(list), NEW e \in Emitted,
           \A i \in DOMAIN list : list[i].ts <= e.ts,
           e.type = "opened" <=> list = <<>>,
           e.type = "accepted" => e.amount = PaidIn(list, Len(list)) + 1
    PROVE  /\ Told(Append(list, e)) /\ Len(Append(list, e)) = Len(list) + 1
           /\ \A i \in 1..Len(list) : Append(list, e)[i] = list[i]
           /\ Append(list, e)[Len(list) + 1] = e
<1> DEFINE l == Len(list)
           longer == Append(list, e)
<1>1. list \in Seq(Emitted) /\ l \in Nat /\ DOMAIN list = 1..l
      BY DEF Told
<1>2. longer \in Seq(Emitted) /\ DOMAIN longer = 1..(l + 1) /\ Len(longer) = l + 1
      BY <1>1
<1>3. \A i \in 1..l : longer[i] = list[i]
      BY <1>1
<1>4. longer[l + 1] = e
      BY <1>1
<1>5. list = <<>> <=> l = 0
      BY <1>1
<1>6. \A j \in 1..l : PaidIn(longer, j) = PaidIn(list, j)
  <2> HIDE DEF l, longer
  <2> TAKE j \in 1..l
  <2>1. j \in Nat /\ \A i \in 1..j : longer[i] = list[i]
        BY <1>1, <1>3
  <2>2. QED
        BY <2>1, PaidInStays
<1>7. PaidIn(longer, l + 1) = PaidIn(list, l) + (IF e.type = "accepted" THEN 1 ELSE 0)
  <2>1. PaidIn(longer, l) = PaidIn(list, l)
        BY <1>1, <1>3, PaidInStays
  <2> HIDE DEF l, longer
  <2>2. PaidIn(longer, l + 1)
          = PaidIn(longer, l) + (IF longer[l + 1].type = "accepted" THEN 1 ELSE 0)
    <3>1. l + 1 \in Nat \ {0} /\ (l + 1) - 1 = l
          BY <1>1
    <3>2. QED
          BY <3>1, PaidInNext
  <2>3. QED
        BY <1>4, <2>1, <2>2
<1>8. PaidIn(list, l) \in Nat
      BY <1>1, PaidInIsNat
<1> HIDE DEF l, longer
<1>9. e.ts \in Nat /\ \A i \in 1..l : list[i].ts \in Nat
  <2>1. \A i \in 1..l : list[i] \in Emitted
        BY <1>1 DEF l
  <2>2. QED
        BY <2>1 DEF Emitted
<1>10. \A i, j \in DOMAIN longer : i <= j => longer[i].ts <= longer[j].ts
  <2>1. \A i \in 1..l : list[i].ts <= e.ts
        BY <1>1
  <2>2. \A i, j \in 1..l : i <= j => list[i].ts <= list[j].ts
        BY <1>1 DEF Told
  <2>3. \A i \in 1..(l + 1) : i \in 1..l \/ i = l + 1
        BY <1>1
  <2> SUFFICES ASSUME NEW i \in 1..(l + 1), NEW j \in 1..(l + 1), i <= j
               PROVE  longer[i].ts <= longer[j].ts
      BY <1>2
  <2>4. CASE j \in 1..l
    <3>1. i \in 1..l
          BY <2>3, <2>4, <1>1
    <3>2. QED
          BY <1>3, <2>2, <2>4, <3>1
  <2>5. CASE j = l + 1 /\ i \in 1..l
        BY <1>3, <1>4, <2>1, <2>5
  <2>6. CASE j = l + 1 /\ i = l + 1
        BY <1>4, <1>9, <2>6
  <2>7. QED
        BY <2>3, <2>4, <2>5, <2>6
<1>11. \A j \in DOMAIN longer : /\ longer[j].type = "opened" <=> j = 1
                                /\ longer[j].type = "accepted" =>
                                      longer[j].amount = PaidIn(longer, j)
  <2>1. \A j \in 1..(l + 1) : j \in 1..l \/ j = l + 1
        BY <1>1
  <2>2. \A j \in 1..l : /\ list[j].type = "opened" <=> j = 1
                        /\ list[j].type = "accepted" => list[j].amount = PaidIn(list, j)
        BY <1>1 DEF Told
  <2>3. e.type = "opened" <=> l + 1 = 1
        BY <1>1, <1>5
  <2>4. e.type = "accepted" => e.amount = PaidIn(longer, l + 1)
        BY <1>7 DEF l
  <2>5. QED
        BY <1>2, <1>3, <1>4, <1>6, <2>1, <2>2, <2>3, <2>4
<1>12. QED
      BY <1>2, <1>3, <1>4, <1>10, <1>11 DEF Told, l, longer

LEMMA PaidOfLonger ==
    ASSUME NEW list, NEW longer, NEW l \in Nat, NEW e, longer[l + 1] = e,
           \A i \in 1..l : longer[i] = list[i]
    PROVE  PaidIn(longer, l + 1) = PaidIn(list, l) + (IF e.type = "accepted" THEN 1 ELSE 0)
<1>1. PaidIn(longer, l) = PaidIn(list, l)
      BY PaidInStays
<1>2. l + 1 \in Nat \ {0} /\ (l + 1) - 1 = l
      OBVIOUS
<1>3. PaidIn(longer, l + 1)
        = PaidIn(longer, l) + (IF longer[l + 1].type = "accepted" THEN 1 ELSE 0)
      BY <1>2, PaidInNext
<1>4. QED
      BY <1>1, <1>3

(* What an event does to the channel.                                       *)
LEMMA FollowsNext ==
    ASSUME NEW list, NEW longer, NEW l \in Nat, NEW e, longer[l + 1] = e,
           \A i \in 1..l : longer[i] = list[i],
           NEW c, Follows(list, c, l), c.accepted = PaidIn(list, l), NEW d,
           e.type = "topped_up" => d.deposit = e.amount /\ d.claimed = c.claimed /\ d.open = c.open,
           e.type = "accepted" => d.deposit = c.deposit /\ d.claimed = c.claimed /\ d.open = c.open,
           e.type = "claimed" => d.deposit = c.deposit /\ d.claimed = c.accepted /\ d.open = c.open,
           e.type = "closed" => d.deposit = c.deposit /\ d.claimed = c.claimed /\ d.open = FALSE,
           e.type \in EventKinds \ {"opened"}
    PROVE  Follows(longer, d, l + 1)
<1> DEFINE n == l + 1
<1>1. n \in 1..n /\ n \in 0..n /\ (\A j \in 1..l : j \in 1..n) /\ (\A j \in 0..l : j \in 0..n)
      /\ (\A j \in 1..n : j \in 1..l \/ j = n) /\ longer[n] = e
      /\ (\A i \in 0..n : \A j \in (i + 1)..n : j \in (i + 1)..l \/ j = n) /\ (n + 1)..n = {}
      /\ (\A i \in 0..l : \A j \in (i + 1)..l : j \in 1..l)
      OBVIOUS
<1>2. Follows(longer, c, l)
      BY FollowsStays
<1>3. PICK i \in 1..l : /\ longer[i].type \in Opening /\ c.deposit = longer[i].amount
                        /\ \A j \in (i + 1)..l : longer[j].type \notin Opening
      BY <1>2 DEF Follows
<1>4. PICK k \in 0..l : /\ k = 0 \/ longer[k].type = "claimed"
                        /\ c.claimed = PaidIn(longer, k)
                        /\ \A j \in (k + 1)..l : longer[j].type # "claimed"
      BY <1>2 DEF Follows
<1>5. c.open = (\A j \in 1..l : longer[j].type # "closed")
      BY <1>2 DEF Follows
<1>6. PaidIn(longer, n) = PaidIn(list, l) + (IF e.type = "accepted" THEN 1 ELSE 0)
      BY PaidOfLonger
<1>7. PaidIn(list, l) \in Nat
      BY PaidInIsNat
<1> HIDE DEF n
<1>8. \E x \in 1..n : /\ longer[x].type \in Opening /\ d.deposit = longer[x].amount
                      /\ \A j \in (x + 1)..n : longer[j].type \notin Opening
  <2>1. CASE e.type = "topped_up"
    <3>1. longer[n].type \in Opening /\ d.deposit = longer[n].amount
          BY <1>1, <2>1 DEF Opening
    <3>2. QED
          BY <1>1, <3>1
  <2>2. CASE e.type # "topped_up"
    <3>1. e.type \notin Opening /\ d.deposit = c.deposit
          BY <2>2 DEF Opening, EventKinds
    <3>2. i \in 0..n /\ i \in 1..n
          BY <1>1
    <3>3. \A j \in (i + 1)..n : longer[j].type \notin Opening
          BY <1>1, <1>3, <3>1, <3>2
    <3>4. QED
          BY <1>3, <3>1, <3>2, <3>3
  <2>3. QED
        BY <2>1, <2>2
<1>9. \E x \in 0..n : /\ x = 0 \/ longer[x].type = "claimed"
                      /\ d.claimed = PaidIn(longer, x)
                      /\ \A j \in (x + 1)..n : longer[j].type # "claimed"
  <2>1. CASE e.type = "claimed"
    <3>1. longer[n].type = "claimed" /\ d.claimed = PaidIn(longer, n)
          BY <1>1, <1>6, <1>7, <2>1
    <3>2. QED
          BY <1>1, <3>1
  <2>2. CASE e.type # "claimed"
    <3>1. d.claimed = c.claimed /\ k \in 0..n
          BY <1>1, <2>2 DEF EventKinds
    <3>2. \A j \in (k + 1)..n : longer[j].type # "claimed"
          BY <1>1, <1>4, <2>2, <3>1
    <3>3. QED
          BY <1>4, <3>1, <3>2
  <2>3. QED
        BY <2>1, <2>2
<1>10. d.open = (\A j \in 1..n : longer[j].type # "closed")
  <2>1. CASE e.type = "closed"
        BY <1>1, <2>1
  <2>2. CASE e.type # "closed"
    <3>1. d.open = c.open
          BY <2>2 DEF EventKinds
    <3>2. (\A j \in 1..l : longer[j].type # "closed")
            <=> (\A j \in 1..n : longer[j].type # "closed")
          BY <1>1, <2>2
    <3>3. QED
          BY <1>5, <3>1, <3>2
  <2>3. QED
        BY <2>1, <2>2
<1>11. QED
      BY <1>8, <1>9, <1>10 DEF Follows, n

ServerInv == Told(log) /\ ServerRight

LEMMA TimeIsLatest ==
    ASSUME Told(log)
    PROVE  Time \in Nat \ {0} /\ \A i \in DOMAIN log : log[i].ts <= Time
<1>1. log \in Seq(Emitted) /\ Len(log) \in Nat /\ DOMAIN log = 1..Len(log)
      BY DEF Told
<1>2. CASE log = <<>>
      BY <1>2 DEF Time
<1>3. CASE log # <<>>
  <2>1. Len(log) \in DOMAIN log /\ Time = log[Len(log)].ts
        BY <1>1, <1>3 DEF Time, Last
  <2>2. log[Len(log)] \in Emitted
        BY <1>1, <2>1
  <2>3. \A i \in DOMAIN log : i <= Len(log)
        BY <1>1
  <2>4. QED
        BY <2>1, <2>2, <2>3 DEF Told, Emitted
<1>4. QED
      BY <1>2, <1>3

(* The log grows by an event that is later than those before.               *)
Grows ==
    \E e \in Emitted : /\ log' = Append(log, e) /\ e.ts >= Time
                       /\ UNCHANGED <<feedVars, accountVars>>

LEMMA EmitsEvent ==
    ASSUME NEW type \in EventKinds, NEW amount \in Nat, NEW next,
           ServerInv, Emits(type, amount, next)
    PROVE  /\ Grows /\ server' = next
           /\ \E ts \in Nat \ {0} : /\ \A i \in DOMAIN log : log[i].ts <= ts
                                    /\ log' = Append(log, [type |-> type, amount |-> amount,
                                                           ts |-> ts])
<1>1. Time \in Nat \ {0} /\ \A i \in DOMAIN log : log[i].ts <= Time
      BY TimeIsLatest DEF ServerInv
<1>2. PICK ts \in {Time, Time + 1} :
         log' = Append(log, [type |-> type, amount |-> amount, ts |-> ts])
      BY DEF Emits
<1>3. ts \in Nat \ {0} /\ ts >= Time
      BY <1>1
<1>4. \A i \in DOMAIN log : log[i].ts \in Nat
  <2>1. log \in Seq(Emitted)
        BY DEF ServerInv, Told
  <2>2. \A i \in DOMAIN log : log[i] \in Emitted
        BY <2>1
  <2>3. QED
        BY <2>2 DEF Emitted
<1>5. \A i \in DOMAIN log : log[i].ts <= ts
      BY <1>1, <1>3, <1>4
<1>6. [type |-> type, amount |-> amount, ts |-> ts] \in Emitted
      BY <1>3 DEF Emitted
<1>7. server' = next /\ UNCHANGED <<feedVars, accountVars>>
      BY DEF Emits
<1>8. QED
      BY <1>2, <1>3, <1>5, <1>6, <1>7 DEF Grows

ServerNext == ServerOpens \/ ServerTopsUp \/ ServerAccepts \/ ServerClaims \/ ServerCloses

LEMMA ServerSteps ==
    ASSUME ServerInv, ServerNext
    PROVE  ServerInv' /\ Grows
<1> DEFINE l == Len(log)
<1>1. Told(log) /\ log \in Seq(Emitted) /\ l \in Nat
      BY DEF ServerInv, Told
<1>2. log = <<>> <=> server = None
  <2>1. log # <<>> => server \in Channel
        BY DEF ServerInv, ServerRight
  <2>2. QED
        BY <2>1, KnownIsKnown DEF ServerInv, ServerRight
<1>3. log = <<>> => l = 0
      BY <1>1
<1>4. PaidIn(log, l) \in Nat
      BY <1>1, PaidInIsNat
<1>5. server # None => /\ server \in Channel /\ server.accepted = PaidIn(log, l)
                       /\ Follows(log, server, l) /\ log # <<>>
      BY <1>2 DEF ServerInv, ServerRight
<1>13. \A longer, e : /\ longer[l + 1] = e
                      /\ \A i \in 1..l : longer[i] = log[i]
                      => PaidIn(longer, l + 1)
                           = PaidIn(log, l) + (IF e.type = "accepted" THEN 1 ELSE 0)
  <2> HIDE DEF l
  <2>1. QED
        BY <1>1, PaidOfLonger
(* The step with its event and the channel after it.                        *)
<1>6. ASSUME NEW type \in EventKinds, NEW amount \in Nat, NEW next \in Channel,
             Emits(type, amount, next),
             type = "opened" <=> log = <<>>,
             type = "accepted" => amount = PaidIn(log, l) + 1,
             next.accepted = PaidIn(log, l) + (IF type = "accepted" THEN 1 ELSE 0),
             \A longer, e : /\ longer[l + 1] = e /\ e.type = type /\ e.amount = amount
                            /\ \A i \in 1..l : longer[i] = log[i]
                            => Follows(longer, next, l + 1)
      PROVE  ServerInv' /\ Grows
  <2>1. PICK ts \in Nat \ {0} :
             /\ \A i \in DOMAIN log : log[i].ts <= ts
             /\ log' = Append(log, [type |-> type, amount |-> amount, ts |-> ts])
        BY <1>6, EmitsEvent
  <2>2. Grows /\ server' = next
        BY <1>6, EmitsEvent
  <2> DEFINE e == [type |-> type, amount |-> amount, ts |-> ts]
  <2>3. e \in Emitted /\ e.type = type /\ e.amount = amount /\ e.ts = ts
        BY DEF Emitted
  <2> HIDE DEF e
  <2>4. log' = Append(log, e)
        BY <2>1 DEF e
  <2>5. /\ Told(log') /\ Len(log') = l + 1
        /\ \A i \in 1..l : log'[i] = log[i]
        /\ log'[l + 1] = e
    <3>1. /\ \A i \in DOMAIN log : log[i].ts <= e.ts
          /\ e.type = "opened" <=> log = <<>>
          /\ e.type = "accepted" => e.amount = PaidIn(log, Len(log)) + 1
          BY <1>6, <2>1, <2>3
    <3>2. QED
          BY <1>1, <2>3, <2>4, <3>1, ToldFurther
  <2>6. Follows(log', next, l + 1)
        BY <1>6, <2>3, <2>5
  <2>7. PaidIn(log', l + 1) = next.accepted
    <3>1. PaidIn(log', l + 1) = PaidIn(log, l) + (IF e.type = "accepted" THEN 1 ELSE 0)
          BY <1>13, <2>5
    <3>2. QED
          BY <1>6, <2>3, <3>1
  <2>8. QED
        BY <1>6, <2>2, <2>5, <2>6, <2>7 DEF ServerInv, ServerRight
<1> HIDE DEF l
<1>7. CASE ServerOpens
  <2>1. PICK d \in Deposits : server = None /\
            Emits("opened", d, [deposit |-> d, accepted |-> 0, claimed |-> 0, open |-> TRUE])
        BY <1>7 DEF ServerOpens
  <2> DEFINE next == [deposit |-> d, accepted |-> 0, claimed |-> 0, open |-> TRUE]
  <2>2. d \in Nat /\ l = 0 /\ log = <<>>
        BY <1>2, <1>3, <2>1, ConsoleAssumption
  <2>3. next \in Channel /\ next.accepted = 0 /\ next.deposit = d /\ next.claimed = 0
        /\ next.open = TRUE
        BY <2>2 DEF Channel
  <2>4. \A list : PaidIn(list, 0) = 0
    <3>1. \A list : {i \in 1..0 : list[i].type = "accepted"} = {}
          OBVIOUS
    <3>2. QED
          BY <3>1, FS_EmptySet DEF PaidIn
  <2> HIDE DEF next
  <2>5. ASSUME NEW longer, NEW e, longer[l + 1] = e, e.type = "opened", e.amount = d
        PROVE  Follows(longer, next, l + 1)
    <3>1. 1..(l + 1) = {1} /\ 0 \in 0..(l + 1) /\ (1 + 1)..(l + 1) = {} /\ (0 + 1)..(l + 1) = {1}
          BY <2>2
    <3>2. longer[1].type = "opened" /\ longer[1].amount = d
          BY <2>2, <2>5
    <3>3. \E x \in 1..(l + 1) : /\ longer[x].type \in Opening /\ next.deposit = longer[x].amount
                                /\ \A j \in (x + 1)..(l + 1) : longer[j].type \notin Opening
          BY <2>3, <3>1, <3>2 DEF Opening
    <3>4. \E x \in 0..(l + 1) : /\ x = 0 \/ longer[x].type = "claimed"
                                /\ next.claimed = PaidIn(longer, x)
                                /\ \A j \in (x + 1)..(l + 1) : longer[j].type # "claimed"
          BY <2>3, <2>4, <3>1, <3>2
    <3>5. next.open = (\A j \in 1..(l + 1) : longer[j].type # "closed")
          BY <2>3, <3>1, <3>2
    <3>6. QED
          BY <3>3, <3>4, <3>5 DEF Follows
  <2>6. "opened" \in EventKinds /\ Emits("opened", d, next)
        BY <2>1 DEF EventKinds, next
  <2>7. PaidIn(log, l) = 0
        BY <2>2, <2>4
  <2>8. QED
        BY <1>6, <2>2, <2>3, <2>5, <2>6, <2>7
<1>8. CASE ServerTopsUp
  <2>1. PICK d \in Deposits : /\ server # None
                              /\ Emits("topped_up", d, [server EXCEPT !.deposit = d])
        BY <1>8 DEF ServerTopsUp
  <2> DEFINE next == [server EXCEPT !.deposit = d]
  <2>2. d \in Nat /\ log # <<>> /\ server \in Channel
        BY <1>5, <2>1, ConsoleAssumption
  <2>3. next \in Channel /\ next.accepted = server.accepted /\ next.deposit = d
        /\ next.claimed = server.claimed /\ next.open = server.open
        BY <2>2 DEF Channel
  <2> HIDE DEF next
  <2>4. \A longer, e : /\ longer[l + 1] = e /\ e.type = "topped_up" /\ e.amount = d
                       /\ \A i \in 1..l : longer[i] = log[i]
                       => Follows(longer, next, l + 1)
        BY <1>1, <1>5, <2>1, <2>3, FollowsNext DEF EventKinds, l
  <2>5. "topped_up" \in EventKinds /\ Emits("topped_up", d, next)
        BY <2>1 DEF EventKinds, next
  <2>6. QED
        BY <1>4, <1>5, <1>6, <2>1, <2>2, <2>3, <2>4, <2>5
<1>9. CASE ServerAccepts
  <2>1. /\ server # None
        /\ Emits("accepted", server.accepted + 1, [server EXCEPT !.accepted = @ + 1])
        BY <1>9 DEF ServerAccepts
  <2> DEFINE next == [server EXCEPT !.accepted = @ + 1]
             d == server.accepted + 1
  <2>2. d \in Nat /\ log # <<>> /\ server \in Channel /\ d = PaidIn(log, l) + 1
        BY <1>4, <1>5, <2>1
  <2>3. next \in Channel /\ next.accepted = d /\ next.deposit = server.deposit
        /\ next.claimed = server.claimed /\ next.open = server.open
        BY <2>2 DEF Channel
  <2>5. "accepted" \in EventKinds /\ Emits("accepted", d, next)
        BY <2>1 DEF EventKinds
  <2> HIDE DEF next, d
  <2>4. \A longer, e : /\ longer[l + 1] = e /\ e.type = "accepted" /\ e.amount = d
                       /\ \A i \in 1..l : longer[i] = log[i]
                       => Follows(longer, next, l + 1)
        BY <1>1, <1>5, <2>1, <2>3, FollowsNext DEF EventKinds, l
  <2>6. QED
        BY <1>4, <1>5, <1>6, <2>1, <2>2, <2>3, <2>4, <2>5
<1>10. CASE ServerClaims
  <2>1. /\ server # None /\ server.claimed < server.accepted
        /\ Emits("claimed", server.accepted - server.claimed,
                 [server EXCEPT !.claimed = server.accepted])
        BY <1>10 DEF ServerClaims
  <2> DEFINE next == [server EXCEPT !.claimed = server.accepted]
             d == server.accepted - server.claimed
  <2>2. d \in Nat /\ log # <<>> /\ server \in Channel
        BY <1>5, <2>1 DEF Channel
  <2>3. next \in Channel /\ next.accepted = server.accepted /\ next.deposit = server.deposit
        /\ next.claimed = server.accepted /\ next.open = server.open
        BY <2>2 DEF Channel
  <2>5. "claimed" \in EventKinds /\ Emits("claimed", d, next)
        BY <2>1 DEF EventKinds
  <2> HIDE DEF next, d
  <2>4. \A longer, e : /\ longer[l + 1] = e /\ e.type = "claimed" /\ e.amount = d
                       /\ \A i \in 1..l : longer[i] = log[i]
                       => Follows(longer, next, l + 1)
        BY <1>1, <1>5, <2>1, <2>3, FollowsNext DEF EventKinds, l
  <2>6. QED
        BY <1>4, <1>5, <1>6, <2>1, <2>2, <2>3, <2>4, <2>5
<1>11. CASE ServerCloses
  <2>1. /\ server # None
        /\ Emits("closed", 0, [server EXCEPT !.open = FALSE])
        BY <1>11 DEF ServerCloses
  <2> DEFINE next == [server EXCEPT !.open = FALSE]
             d == 0
  <2>2. d \in Nat /\ log # <<>> /\ server \in Channel
        BY <1>5, <2>1
  <2>3. next \in Channel /\ next.accepted = server.accepted /\ next.deposit = server.deposit
        /\ next.claimed = server.claimed /\ next.open = FALSE
        BY <2>2 DEF Channel
  <2>5. "closed" \in EventKinds /\ Emits("closed", d, next)
        BY <2>1 DEF EventKinds
  <2> HIDE DEF next, d
  <2>4. \A longer, e : /\ longer[l + 1] = e /\ e.type = "closed" /\ e.amount = d
                       /\ \A i \in 1..l : longer[i] = log[i]
                       => Follows(longer, next, l + 1)
        BY <1>1, <1>5, <2>1, <2>3, FollowsNext DEF EventKinds, l
  <2>6. QED
        BY <1>4, <1>5, <1>6, <2>1, <2>2, <2>3, <2>4, <2>5
<1>12. QED
      BY <1>7, <1>8, <1>9, <1>10, <1>11 DEF ServerNext

-----------------------------------------------------------------------------
(* The stream, the requests and what is shown.                              *)

Buffered == {buffer[n] : n \in DOMAIN buffer}

StreamTyped ==
    /\ pos \in Nat /\ far \in Nat /\ pos <= far /\ far <= Len(log)
    /\ seen \subseteq 1..far
    /\ buffer \in Seq(Nat) /\ Buffered \subseteq seen
    /\ upto \in Nat /\ missed \in Nat /\ upto <= Len(log) /\ missed <= Len(log)

ShownTyped ==
    /\ cut = None \/ cut \in Cuts
    /\ lastTs \in Nat /\ local \in Nat
    /\ view = None \/ (view \in Channel /\ view.accepted <= PaidIn(log, Len(log)) /\ log # <<>>)
    /\ stats = None \/ (stats \in [data : Nat, at : Nat] /\ stats.at <= local)

RequestRight(r) ==
    /\ DOMAIN r = {"kind", "asked", "answer"}
    /\ r.kind \in {"list", "refresh"} /\ r.asked \in Nat /\ r.asked <= Len(log)
    /\ r.kind = "refresh" => r.asked > 0
    /\ r.answer # None => LET c == r.answer.state IN
          /\ r.answer.at \in Nat \ {0} /\ r.asked <= r.answer.at /\ r.answer.at <= Len(log)
          /\ c \in Channel /\ c.accepted = PaidIn(log, r.answer.at)
          /\ Follows(log, c, r.answer.at)

RequestsRight == \A r \in requests : RequestRight(r)

PollRight(p) ==
    /\ DOMAIN p = {"by", "answer"}
    /\ p.answer # None => /\ p.answer.at \in Nat /\ p.answer.at <= Len(log)
                          /\ p.answer.payments = PaidIn(log, p.answer.at)

PollsRight == \A p \in polls : PollRight(p)

Hidden(j) == cut # None /\ log[j].ts <= cut.ts

(* The cut only moves forward.                                              *)
CutRight ==
    /\ lastTs <= Time
    /\ cut # None => /\ cut.ts <= Time /\ (lastTs = 0 \/ cut.ts <= lastTs)
                     /\ \A j \in Buffered : ~Hidden(j)

(* What was delivered was seen, or is hidden, but for a beginning skipped.  *)
DeliveredFrom(m) == m <= Replay /\ \A j \in (m + 1)..far : j \in seen \/ Hidden(j)

Delivered == \E m \in 0..pos : DeliveredFrom(m)

(* Answer and stream together count what was delivered.                     *)
CountRight ==
    even /\ stats # None =>
        /\ cut # None => stats.data >= cut.base
        /\ stats.data + (local - stats.at) + CountsIn(log, buffer) = PaidIn(log, far)

Passed(j) == j <= upto \/ j <= missed

(* A change delivered is on its way to the screen, or an answer shows it.   *)
ChangesCovered ==
    \A j \in 1..far : log[j].type \in Changing =>
        \/ j \in Buffered \/ Passed(j)
        \/ \E r \in requests : r.kind = "refresh" /\ r.asked >= j

PaymentsCovered ==
    \A j \in 1..far : log[j].type = "accepted" =>
        \/ j \in Buffered \/ Passed(j)
        \/ view # None /\ view.accepted >= log[j].amount

AnswersShown == upto > 0 => view # None /\ view.accepted >= PaidIn(log, upto)

(* The opening comes first, with all that follows it in one batch.          *)
OpeningFirst ==
    /\ 1 \in Buffered => /\ Head(buffer) = 1
                         /\ missed > 1 \/ \A j \in 1..far : j \in Buffered
    /\ missed = 0 /\ upto = 0 /\ view = None => far = 0 \/ 1 \in Buffered

Refreshing == \E r \in requests : r.kind = "refresh"

(* A change that is still to come to the screen.                            *)
ChangeDue == \E j \in 1..Len(log) : log[j].type \in Changing /\ (j \in Buffered \/ j > far)

(* But for payments the view is that of the last answer, unless more comes. *)
ViewRight ==
    view # None /\ upto >= missed =>
        Refreshing \/ ChangeDue \/ Follows(log, view, Max2(upto, 1))

FeedInv ==
    /\ ServerInv
    /\ StreamTyped /\ ShownTyped /\ RequestsRight /\ PollsRight
    /\ CutRight /\ Delivered /\ CountRight
    /\ ChangesCovered /\ PaymentsCovered /\ AnswersShown /\ OpeningFirst /\ ViewRight

LEMMA LogIs ==
    ASSUME Told(log)
    PROVE  /\ log \in Seq(Emitted) /\ Len(log) \in Nat /\ DOMAIN log = 1..Len(log)
           /\ \A j \in 1..Len(log) : log[j] \in Emitted /\ log[j].ts \in Nat \ {0}
                                     /\ log[j].amount \in Nat /\ log[j].ts <= Time
           /\ \A j \in 1..Len(log) : /\ log[j].type = "opened" <=> j = 1
                                     /\ log[j].type = "accepted" => log[j].amount = PaidIn(log, j)
           /\ \A i, j \in 1..Len(log) : i <= j => log[i].ts <= log[j].ts
           /\ Time \in Nat \ {0}
           /\ Replay \in Nat /\ Replay <= Len(log)
<1>1. log \in Seq(Emitted) /\ Len(log) \in Nat /\ DOMAIN log = 1..Len(log)
      BY DEF Told
<1>2. \A j \in 1..Len(log) : log[j] \in Emitted
      BY <1>1
<1>3. \A j \in 1..Len(log) : log[j].ts \in Nat \ {0} /\ log[j].amount \in Nat
      BY <1>2 DEF Emitted
<1>4. RECENT \in Nat \ {0}
      BY ConsoleAssumption
<1>5. Replay \in Nat /\ Replay <= Len(log)
      BY <1>1, <1>4 DEF Replay, Max2
<1>6. QED
      BY <1>1, <1>2, <1>3, <1>5, TimeIsLatest DEF Told

LEMMA FeedBegins == ConsoleInit => FeedInv
<1> SUFFICES ASSUME ConsoleInit PROVE FeedInv
    OBVIOUS
<1>1. log = <<>> /\ server = None /\ Len(log) = 0 /\ Told(log)
  <2>1. <<>> \in Seq(Emitted) /\ DOMAIN <<>> = {}
        OBVIOUS
  <2>2. QED
        BY <2>1 DEF ConsoleInit, Told
<1>2. pos = 0 /\ far = 0 /\ seen = {} /\ buffer = <<>> /\ upto = 0 /\ missed = 0 /\ cut = None
      /\ lastTs = 0 /\ local = 0 /\ view = None /\ stats = None /\ polls = {}
      /\ requests = {[kind |-> "list", asked |-> 0, answer |-> None]} /\ even = FALSE
      BY DEF ConsoleInit
<1>3. Buffered = {}
      BY <1>2 DEF Buffered
<1>4. ServerInv
      BY <1>1 DEF ServerInv, ServerRight
<1>5. StreamTyped
      BY <1>1, <1>2, <1>3 DEF StreamTyped
<1>6. ShownTyped
      BY <1>1, <1>2 DEF ShownTyped
<1>7. RequestsRight /\ PollsRight
      BY <1>1, <1>2 DEF RequestsRight, PollsRight, RequestRight
<1>8. CutRight
      BY <1>2, TimeIsLatest, <1>1 DEF CutRight
<1>9. Delivered
  <2>1. 0 \in 0..pos /\ (0 + 1)..far = {} /\ 0 <= Replay
        BY <1>1, <1>2, LogIs
  <2>2. QED
        BY <2>1 DEF Delivered, DeliveredFrom
<1>10. CountRight /\ ChangesCovered /\ PaymentsCovered /\ AnswersShown /\ OpeningFirst /\ ViewRight
      BY <1>2, <1>3 DEF CountRight, ChangesCovered, PaymentsCovered, AnswersShown, OpeningFirst,
                        ViewRight
<1>11. QED
      BY <1>4, <1>5, <1>6, <1>7, <1>8, <1>9, <1>10 DEF FeedInv

(* An event emitted is not delivered yet.                                   *)
LEMMA GrowingKeeps ==
    ASSUME FeedInv, Grows, ServerInv'
    PROVE  FeedInv'
<1> DEFINE l == Len(log)
<1>1. PICK e \in Emitted : log' = Append(log, e) /\ e.ts >= Time
      BY DEF Grows
<1>2. UNCHANGED <<feedVars, accountVars>>
      BY DEF Grows
<1>3. UNCHANGED <<pos, seen, buffer, cut, requested, view, local, lastTs, stats, requests,
                  polls, far, upto, missed, even>>
      BY <1>2 DEF feedVars
<1>4. Told(log) /\ Told(log')
      BY DEF FeedInv, ServerInv
<1>5. l \in Nat /\ log' # <<>> /\ Len(log') = l + 1 /\ \A i \in 1..l : log'[i] = log[i]
  <2>1. log \in Seq(Emitted)
        BY <1>4, LogIs
  <2>2. QED
        BY <1>1, <2>1
<1>6. Time' >= Time /\ Time' \in Nat /\ Time \in Nat
  <2>1. Time' = e.ts
    <3>1. log \in Seq(Emitted)
          BY <1>4, LogIs
    <3>2. log'[l + 1] = e
          BY <1>1, <3>1
    <3>3. QED
          BY <1>5, <3>2 DEF Time, Last
  <2>2. e.ts \in Nat
        BY DEF Emitted
  <2>3. QED
        BY <1>1, <1>4, <2>1, <2>2, LogIs
<1>7. Replay' >= Replay /\ Replay \in Nat /\ Replay' \in Nat
      BY <1>5, ConsoleAssumption DEF Replay, Max2
<1>8. \A n \in 0..l : PaidIn(log', n) = PaidIn(log, n)
  <2> TAKE n \in 0..l
  <2>1. n \in Nat /\ \A i \in 1..n : log'[i] = log[i]
        BY <1>5
  <2> HIDE DEF l
  <2>2. QED
        BY <2>1, PaidInStays
<1>9. \A n \in 0..l : \A c : Follows(log, c, n) => Follows(log', c, n)
  <2> TAKE n \in 0..l
  <2>1. n \in Nat /\ \A i \in 1..n : log'[i] = log[i]
        BY <1>5
  <2> HIDE DEF l
  <2>2. QED
        BY <2>1, FollowsStays
<1>10. /\ PaidIn(log', l + 1) >= PaidIn(log, l)
       /\ PaidIn(log, l) \in Nat /\ PaidIn(log', l + 1) \in Nat
  <2>1. l + 1 \in Nat /\ l <= l + 1
        BY <1>5
  <2> HIDE DEF l
  <2>2. /\ PaidIn(log', l + 1) >= PaidIn(log', l)
        /\ PaidIn(log', l + 1) \in Nat /\ PaidIn(log, l) \in Nat /\ PaidIn(log', l) \in Nat
        BY <1>5, <2>1, PaidInGrows, PaidInIsNat
  <2>3. PaidIn(log', l) = PaidIn(log, l)
        BY <1>5, <1>8
  <2>4. QED
        BY <2>2, <2>3
<1>11. StreamTyped /\ ShownTyped /\ RequestsRight /\ PollsRight
       /\ CutRight /\ Delivered /\ CountRight
       /\ ChangesCovered /\ PaymentsCovered /\ AnswersShown /\ OpeningFirst /\ ViewRight
      BY DEF FeedInv
<1>12. Buffered' = Buffered
      BY <1>3 DEF Buffered
<1>13. /\ pos \in Nat /\ far \in Nat /\ pos <= far /\ far <= l /\ seen \subseteq 1..far
       /\ Buffered \subseteq 1..far /\ upto \in 0..l
      BY <1>5, <1>11 DEF StreamTyped
<1>14. \A j \in 1..far : log'[j] = log[j]
      BY <1>5, <1>13
<1>15. \A j \in 1..far : Hidden(j)' <=> Hidden(j)
      BY <1>3, <1>14 DEF Hidden
<1>20. StreamTyped'
      BY <1>3, <1>5, <1>11, <1>12 DEF StreamTyped
<1>21. ShownTyped'
  <2>1. CASE view = None
        BY <1>3, <1>11, <2>1 DEF ShownTyped
  <2>2. CASE view # None
    <3>1. view \in Channel /\ view.accepted <= PaidIn(log, l)
          BY <1>11, <2>2 DEF ShownTyped
    <3>2. view.accepted <= PaidIn(log', l + 1)
          BY <1>10, <3>1 DEF Channel
    <3>3. QED
          BY <1>3, <1>5, <1>11, <3>1, <3>2 DEF ShownTyped
  <2>3. QED
        BY <2>1, <2>2
<1>22. RequestsRight'
  <2>1. ASSUME NEW r \in requests PROVE RequestRight(r)'
    <3>1. RequestRight(r)
          BY <1>11 DEF RequestsRight
    <3>2. QED
          BY <1>5, <1>8, <1>9, <3>1 DEF RequestRight
  <2>2. QED
        BY <1>3, <2>1 DEF RequestsRight
<1>23. PollsRight'
  <2>1. ASSUME NEW p \in polls PROVE PollRight(p)'
    <3>1. PollRight(p)
          BY <1>11 DEF PollsRight
    <3>2. QED
          BY <1>5, <1>8, <3>1 DEF PollRight
  <2>2. QED
        BY <1>3, <2>1 DEF PollsRight
<1>24. CutRight'
  <2>1. lastTs \in Nat /\ (cut # None => cut.ts \in Nat)
        BY <1>11 DEF ShownTyped, Cuts
  <2>2. \A j \in Buffered : Hidden(j)' <=> Hidden(j)
        BY <1>13, <1>15
  <2>3. QED
        BY <1>3, <1>6, <1>11, <1>12, <2>1, <2>2 DEF CutRight
<1>25. Delivered'
  <2>1. PICK m \in 0..pos : DeliveredFrom(m)
        BY <1>11 DEF Delivered
  <2>2. \A j \in (m + 1)..far : j \in 1..far
        BY <1>13
  <2>3. m <= Replay'
        BY <1>7, <1>13, <2>1 DEF DeliveredFrom
  <2>4. \A j \in (m + 1)..far : j \in seen \/ Hidden(j)'
        BY <1>15, <2>1, <2>2 DEF DeliveredFrom
  <2>5. QED
        BY <1>3, <2>3, <2>4 DEF Delivered, DeliveredFrom
<1>26. CountRight'
  <2>1. PaidIn(log', far) = PaidIn(log, far)
        BY <1>8, <1>13
  <2>2. CountsIn(log', buffer) = CountsIn(log, buffer)
    <3>1. \A n \in DOMAIN buffer : log'[buffer[n]] = log[buffer[n]]
          BY <1>13, <1>14 DEF Buffered
    <3>2. QED
          BY <3>1, CountsInStays
  <2>3. QED
        BY <1>3, <1>11, <2>1, <2>2 DEF CountRight
<1>27. ChangesCovered'
      BY <1>3, <1>11, <1>12, <1>14 DEF ChangesCovered, Passed
<1>28. PaymentsCovered'
      BY <1>3, <1>11, <1>12, <1>14 DEF PaymentsCovered, Passed
<1>29. AnswersShown'
  <2>1. PaidIn(log', upto) = PaidIn(log, upto)
        BY <1>8, <1>13
  <2>2. QED
        BY <1>3, <1>11, <2>1 DEF AnswersShown
<1>30. OpeningFirst'
      BY <1>3, <1>11, <1>12 DEF OpeningFirst
<1>31. ViewRight'
  <2> SUFFICES ASSUME view # None, upto >= missed
               PROVE  (Refreshing \/ ChangeDue \/ Follows(log, view, Max2(upto, 1)))'
      BY <1>3 DEF ViewRight
  <2>1. Refreshing => Refreshing'
        BY <1>3 DEF Refreshing
  <2>2. ChangeDue => ChangeDue'
    <3> SUFFICES ASSUME NEW j \in 1..l, log[j].type \in Changing, j \in Buffered \/ j > far
                 PROVE  ChangeDue'
        BY DEF ChangeDue
    <3>1. j \in 1..(l + 1) /\ log'[j] = log[j]
          BY <1>5
    <3>2. QED
          BY <1>3, <1>5, <1>12, <3>1 DEF ChangeDue
  <2>3. Max2(upto, 1) \in 0..l
    <3>1. log # <<>> /\ log \in Seq(Emitted)
          BY <1>4, <1>11, LogIs DEF ShownTyped
    <3>2. l >= 1
          BY <3>1
    <3>3. QED
          BY <1>13, <3>2 DEF Max2
  <2>4. Follows(log, view, Max2(upto, 1)) => Follows(log', view, Max2(upto, 1))
        BY <1>9, <2>3
  <2>5. Max2(upto', 1) = Max2(upto, 1) /\ view' = view
        BY <1>3
  <2>6. Follows(log, view, Max2(upto, 1)) => Follows(log, view, Max2(upto, 1))'
        BY <2>4, <2>5
  <2>7. QED
        BY <1>11, <2>1, <2>2, <2>6 DEF ViewRight
<1>32. QED
      BY <1>20, <1>21, <1>22, <1>23, <1>24, <1>25, <1>26, <1>27, <1>28, <1>29, <1>30, <1>31
      DEF FeedInv

-----------------------------------------------------------------------------
(* The steps of the console.                                                *)

Stays == UNCHANGED <<server, log>>

Parts ==
    /\ ServerInv /\ Told(log)
    /\ StreamTyped /\ ShownTyped /\ RequestsRight /\ PollsRight
    /\ CutRight /\ Delivered /\ CountRight
    /\ ChangesCovered /\ PaymentsCovered /\ AnswersShown /\ OpeningFirst /\ ViewRight
    /\ Len(log) \in Nat /\ Replay \in Nat /\ Replay <= Len(log)

LEMMA PartsOf == ASSUME FeedInv PROVE Parts
  BY LogIs DEF FeedInv, ServerInv, Parts

LEMMA LargestOfThree ==
    ASSUME NEW a \in Nat, NEW b \in Nat, NEW c \in Nat
    PROVE  LET m == Max({a, b, c})
           IN  m \in Nat /\ m >= a /\ m >= b /\ m >= c /\ (m = a \/ m = b \/ m = c)
<1> DEFINE S == {a, b, c}
<1>1. S \in SUBSET Nat /\ S # {} /\ a \in S /\ b \in S /\ c \in S
      OBVIOUS
<1>2. IsFiniteSet(S)
  <2>1. S = ({a} \cup {b}) \cup {c}
        OBVIOUS
  <2>2. IsFiniteSet({a} \cup {b})
        BY FS_Singleton, FS_AddElement
  <2>3. QED
        BY <2>1, <2>2, FS_AddElement
<1>3. \A x \in S : x = a \/ x = b \/ x = c
      OBVIOUS
<1> HIDE DEF S
<1>4. Max(S) \in S /\ \A y \in S : Max(S) >= y
      BY <1>1, <1>2, LatestIsIn
<1>5. QED
      BY <1>1, <1>3, <1>4 DEF S

(* What may be missed is never less.                                        *)
LEMMA MissesMore ==
    ASSUME StreamTyped, Len(log) \in Nat, NEW n \in Nat, n <= Len(log), Misses(n)
    PROVE  /\ upto' = 0 /\ missed' \in Nat /\ missed' <= Len(log)
           /\ missed' >= missed /\ missed' >= upto /\ missed' >= n
           /\ missed' = 0 => missed = 0 /\ upto = 0 /\ n = 0
           /\ \A j \in Nat : Passed(j) => j <= missed'
<1>1. upto' = 0 /\ missed' = Max({missed, upto, n})
      BY DEF Misses
<1>2. missed \in Nat /\ upto \in Nat /\ missed <= Len(log) /\ upto <= Len(log)
      BY DEF StreamTyped
<1> DEFINE m == Max({missed, upto, n})
<1>3. m \in Nat /\ m >= missed /\ m >= upto /\ m >= n /\ (m = missed \/ m = upto \/ m = n)
      BY <1>2, LargestOfThree
<1>4. missed' = m
      BY <1>1
<1> HIDE DEF m
<1>5. /\ missed' \in Nat /\ missed' >= missed /\ missed' >= upto /\ missed' >= n
      /\ missed' = missed \/ missed' = upto \/ missed' = n
      BY <1>3, <1>4
<1>6. missed' <= Len(log)
      BY <1>2, <1>5
<1>7. missed' = 0 => missed = 0 /\ upto = 0 /\ n = 0
      BY <1>2, <1>5
<1>8. \A j \in Nat : Passed(j) => j <= missed'
      BY <1>2, <1>5 DEF Passed
<1>9. QED
      BY <1>1, <1>5, <1>6, <1>7, <1>8

LEMMA ServerStays ==
    ASSUME Parts, Stays
    PROVE  /\ ServerInv' /\ Told(log') /\ Len(log') = Len(log) /\ Replay' = Replay /\ Time' = Time
           /\ log' = log
  BY DEF Parts, Stays, ServerInv, ServerRight, Told, Replay, Time

LEMMA RequestsStay ==
    ASSUME Parts, Stays, \A r \in requests' : r \in requests \/ RequestRight(r)
    PROVE  RequestsRight'
<1>1. log' = log /\ Len(log') = Len(log)
      BY DEF Stays
<1>2. ASSUME NEW r, RequestRight(r) PROVE RequestRight(r)'
      BY <1>1, <1>2 DEF RequestRight
<1>3. QED
      BY <1>2 DEF Parts, RequestsRight

LEMMA PollsStay ==
    ASSUME Parts, Stays, \A p \in polls' : p \in polls \/ PollRight(p)
    PROVE  PollsRight'
<1>1. log' = log /\ Len(log') = Len(log)
      BY DEF Stays
<1>2. ASSUME NEW p, PollRight(p) PROVE PollRight(p)'
      BY <1>1, <1>2 DEF PollRight
<1>3. QED
      BY <1>2 DEF Parts, PollsRight

(* The statistics asked for are no matter of the channel.                   *)
LEMMA PollsKeep ==
    ASSUME FeedInv, Stays, \A p \in polls' : p \in polls \/ PollRight(p),
           UNCHANGED <<pos, seen, buffer, cut, requested, view, local, lastTs, stats, requests,
                       far, upto, missed, even>>
    PROVE  FeedInv'
<1>1. Parts
      BY PartsOf
<1>2. ServerInv' /\ Len(log') = Len(log) /\ Replay' = Replay /\ Time' = Time /\ log' = log
      BY <1>1, ServerStays
<1>3. RequestsRight' /\ PollsRight'
      BY <1>1, RequestsStay, PollsStay
<1>4. Buffered' = Buffered
      BY DEF Buffered
<1>5. StreamTyped' /\ ShownTyped'
      BY <1>1, <1>2, <1>4 DEF Parts, StreamTyped, ShownTyped
<1>6. CutRight' /\ Delivered'
      BY <1>1, <1>2, <1>4 DEF Parts, CutRight, Delivered, DeliveredFrom, Hidden
<1>7. CountRight'
      BY <1>1, <1>2, <1>4 DEF Parts, CountRight
<1>8. ChangesCovered' /\ PaymentsCovered' /\ AnswersShown' /\ OpeningFirst'
      BY <1>1, <1>2, <1>4 DEF Parts, ChangesCovered, PaymentsCovered, AnswersShown, OpeningFirst,
                              Passed
<1>9. ViewRight'
      BY <1>1, <1>2, <1>4 DEF Parts, ViewRight, Refreshing, ChangeDue
<1>10. QED
      BY <1>2, <1>3, <1>5, <1>6, <1>7, <1>8, <1>9 DEF FeedInv

LEMMA AppendedIs ==
    ASSUME NEW S, NEW b \in Seq(S), NEW i \in S
    PROVE  LET c == Append(b, i)
           IN  /\ c \in Seq(S)
               /\ {c[n] : n \in DOMAIN c} = {b[n] : n \in DOMAIN b} \cup {i}
               /\ Head(c) = IF b = <<>> THEN i ELSE Head(b)
<1> DEFINE c == Append(b, i)
           l == Len(b)
<1>1. l \in Nat /\ DOMAIN b = 1..l /\ DOMAIN c = 1..(l + 1) /\ c \in Seq(S)
      OBVIOUS
<1>2. (\A n \in 1..l : c[n] = b[n]) /\ c[l + 1] = i
      OBVIOUS
<1>3. b = <<>> <=> l = 0
      OBVIOUS
<1>4. Head(c) = c[1] /\ Head(b) = b[1]
      OBVIOUS
<1> HIDE DEF c, l
<1>5. \A n \in 1..(l + 1) : n \in 1..l \/ n = l + 1
      BY <1>1
<1>6. {c[n] : n \in DOMAIN c} = {b[n] : n \in DOMAIN b} \cup {i}
  <2>1. \A x : x \in {c[n] : n \in DOMAIN c} => x \in {b[n] : n \in DOMAIN b} \cup {i}
        BY <1>1, <1>2, <1>5
  <2>2. \A n \in 1..l : n \in 1..(l + 1)
        BY <1>1
  <2>3. \A x : x \in {b[n] : n \in DOMAIN b} \cup {i} => x \in {c[n] : n \in DOMAIN c}
        BY <1>1, <1>2, <2>2
  <2>4. QED
        BY <2>1, <2>3
<1>7. Head(c) = IF b = <<>> THEN i ELSE Head(b)
      BY <1>1, <1>2, <1>3, <1>4
<1>8. QED
      BY <1>1, <1>6, <1>7 DEF c

LEMMA PushesKeeps ==
    ASSUME FeedInv, Pushes
    PROVE  FeedInv'
<1> DEFINE i == pos + 1
<1>1. Parts /\ Stays
      BY PartsOf DEF Pushes, Stays
<1>2. /\ pos < Len(log) /\ pos' = i /\ far' = Max2(far, i)
      /\ UNCHANGED <<cut, requested, view, local, lastTs, stats, requests, polls>>
      BY DEF Pushes
<1>3. ServerInv' /\ Len(log') = Len(log) /\ Replay' = Replay /\ Time' = Time /\ log' = log
      BY <1>1, ServerStays
<1>4. RequestsRight' /\ PollsRight'
      BY <1>1, <1>2, RequestsStay, PollsStay
<1>5. /\ pos \in Nat /\ far \in Nat /\ pos <= far /\ far <= Len(log) /\ Len(log) \in Nat
      /\ seen \subseteq 1..far /\ buffer \in Seq(Nat) /\ Buffered \subseteq seen
      /\ upto \in Nat /\ missed \in Nat /\ upto <= Len(log) /\ missed <= Len(log)
      BY <1>1 DEF Parts, StreamTyped
<1>6. i \in Nat \ {0} /\ i <= Len(log) /\ i <= far + 1 /\ far' >= i /\ far' >= far /\ far' \in Nat
      /\ far' <= Len(log) /\ (i <= far => far' = far) /\ (i > far => far' = i /\ i = far + 1)
      BY <1>2, <1>5 DEF Max2
<1>7. PICK m \in 0..pos : DeliveredFrom(m)
      BY <1>1 DEF Parts, Delivered
<1>8. ShownTyped'
      BY <1>1, <1>2, <1>3 DEF Parts, ShownTyped
<1>9. ASSUME i \in seen \/ Hidden(i), i <= far
      PROVE  FeedInv'
  <2>1. UNCHANGED <<seen, buffer, upto, missed, even, far>>
        BY <1>6, <1>9 DEF Pushes, Hidden, NothingMissed
  <2>2. Buffered' = Buffered
        BY <2>1 DEF Buffered
  <2>3. StreamTyped'
        BY <1>2, <1>3, <1>5, <1>6, <2>1, <2>2 DEF StreamTyped
  <2>4. Delivered'
    <3>1. m \in 0..pos'
          BY <1>2, <1>5
    <3>2. DeliveredFrom(m)'
          BY <1>2, <1>3, <1>7, <2>1 DEF DeliveredFrom, Hidden
    <3>3. QED
          BY <3>1, <3>2 DEF Delivered
  <2>5. CutRight' /\ CountRight'
        BY <1>1, <1>2, <1>3, <2>1, <2>2 DEF Parts, CutRight, CountRight, Hidden
  <2>6. ChangesCovered' /\ PaymentsCovered' /\ AnswersShown' /\ OpeningFirst'
        BY <1>1, <1>2, <1>3, <2>1, <2>2
        DEF Parts, ChangesCovered, PaymentsCovered, AnswersShown, OpeningFirst, Passed
  <2>7. ViewRight'
        BY <1>1, <1>2, <1>3, <2>1, <2>2 DEF Parts, ViewRight, Refreshing, ChangeDue
  <2>8. QED
        BY <1>3, <1>4, <1>8, <2>3, <2>4, <2>5, <2>6, <2>7 DEF FeedInv
<1>10. ASSUME i \in seen \/ Hidden(i), i > far
       PROVE  FeedInv'
  <2>1. far' = i /\ i \notin seen /\ Hidden(i) /\ i = far + 1
        BY <1>5, <1>6, <1>10
  <2>2. UNCHANGED <<seen, buffer>> /\ Misses(i) /\ even' = FALSE
    <3>1. ~(i <= far)
          BY <1>5, <1>6, <1>10
    <3>2. QED
          BY <2>1, <3>1 DEF Pushes, Hidden
  <2>3. upto' = 0 /\ missed' \in Nat /\ missed' <= Len(log) /\ missed' >= missed /\ missed' >= i
        BY <1>1, <1>6, <2>2, MissesMore DEF Parts
  <2>4. Buffered' = Buffered
        BY <2>2 DEF Buffered
  <2>5. StreamTyped'
        BY <1>2, <1>3, <1>5, <1>6, <2>1, <2>2, <2>3, <2>4 DEF StreamTyped
  <2>6. Delivered'
    <3>1. m \in 0..pos' /\ m <= Replay'
          BY <1>2, <1>3, <1>5, <1>7 DEF DeliveredFrom
    <3>2. ASSUME NEW j \in (m + 1)..far' PROVE j \in seen' \/ Hidden(j)'
      <4>1. j \in (m + 1)..far \/ j = i
            BY <1>5, <1>7, <2>1
      <4>2. j \in seen \/ Hidden(j)
            BY <1>7, <2>1, <4>1 DEF DeliveredFrom
      <4>3. QED
            BY <1>2, <1>3, <2>2, <4>2 DEF Hidden
    <3>3. QED
          BY <3>1, <3>2 DEF Delivered, DeliveredFrom
  <2>7. CutRight' /\ CountRight'
        BY <1>1, <1>2, <1>3, <2>2, <2>4 DEF Parts, CutRight, CountRight, Hidden
  <2>8. ChangesCovered' /\ PaymentsCovered'
    <3>1. \A j \in 1..far' : Passed(j)'
          BY <1>6, <2>1, <2>3 DEF Passed
    <3>2. QED
          BY <3>1 DEF ChangesCovered, PaymentsCovered
  <2>9. AnswersShown'
        BY <2>3 DEF AnswersShown
  <2>10. OpeningFirst'
    <3>1. 1 \in Buffered' => Head(buffer') = 1 /\ missed' > 1
      <4>1. 1 \in Buffered => far >= 1 /\ Head(buffer) = 1
            BY <1>1, <1>5 DEF Parts, OpeningFirst
      <4>2. QED
            BY <1>5, <2>1, <2>2, <2>3, <2>4, <4>1
    <3>2. missed' # 0
          BY <1>6, <2>3
    <3>3. QED
          BY <3>1, <3>2 DEF OpeningFirst
  <2>11. ViewRight'
    <3>1. ~(upto' >= missed')
          BY <1>6, <2>3
    <3>2. QED
          BY <3>1 DEF ViewRight
  <2>12. QED
        BY <1>3, <1>4, <1>8, <2>5, <2>6, <2>7, <2>8, <2>9, <2>10, <2>11 DEF FeedInv
<1>11. ASSUME i \notin seen, ~Hidden(i)
       PROVE  FeedInv'
  <2>1. i = far + 1 /\ far' = i
    <3>1. CASE i <= far
      <4>1. i \in (m + 1)..far
            BY <1>5, <1>6, <1>7, <3>1
      <4>2. QED
            BY <1>7, <1>11, <4>1 DEF DeliveredFrom
    <3>2. QED
          BY <1>5, <1>6, <3>1
  <2>2. /\ seen' = seen \cup {i} /\ buffer' = Append(buffer, i)
        /\ UNCHANGED <<upto, missed, even>>
        BY <1>11 DEF Pushes, Hidden, NothingMissed
  <2>3. /\ buffer' \in Seq(Nat) /\ Buffered' = Buffered \cup {i}
        /\ Head(buffer') = IF buffer = <<>> THEN i ELSE Head(buffer)
    <3>1. i \in Nat
          BY <1>6
    <3> HIDE DEF i
    <3>2. LET c == Append(buffer, i)
          IN  /\ c \in Seq(Nat)
              /\ {c[n] : n \in DOMAIN c} = {buffer[n] : n \in DOMAIN buffer} \cup {i}
              /\ Head(c) = IF buffer = <<>> THEN i ELSE Head(buffer)
          BY <1>5, <3>1, AppendedIs
    <3>3. QED
          BY <2>2, <3>2 DEF Buffered
  <2>4. StreamTyped'
        BY <1>2, <1>3, <1>5, <1>6, <2>1, <2>2, <2>3 DEF StreamTyped
  <2>5. Delivered'
    <3>1. m \in 0..pos' /\ m <= Replay'
          BY <1>2, <1>3, <1>5, <1>7 DEF DeliveredFrom
    <3>2. ASSUME NEW j \in (m + 1)..far' PROVE j \in seen' \/ Hidden(j)'
      <4>1. j \in (m + 1)..far \/ j = i
            BY <1>5, <1>7, <2>1
      <4>2. j \in seen' \/ Hidden(j)
            BY <1>7, <2>2, <4>1 DEF DeliveredFrom
      <4>3. QED
            BY <1>2, <1>3, <4>2 DEF Hidden
    <3>3. QED
          BY <3>1, <3>2 DEF Delivered, DeliveredFrom
  <2>6. CutRight'
    <3>1. \A j \in Buffered' : ~Hidden(j)'
      <4>1. cut # None => \A j \in Buffered : ~Hidden(j)
            BY <1>1 DEF Parts, CutRight
      <4>2. QED
            BY <1>2, <1>3, <1>11, <2>3, <4>1 DEF Hidden
    <3>2. QED
          BY <1>1, <1>2, <1>3, <3>1 DEF Parts, CutRight
  <2>7. CountRight'
    <3>1. CountsIn(log, buffer')
            = CountsIn(log, buffer) + (IF log[i].type = "accepted" THEN 1 ELSE 0)
          BY <1>5, <1>6, <2>2, CountsInAppended
    <3>2. PaidIn(log, i) = PaidIn(log, far) + (IF log[i].type = "accepted" THEN 1 ELSE 0)
      <4> HIDE DEF i
      <4>1. i - 1 = far
            BY <1>5, <2>1
      <4>2. QED
            BY <1>6, <4>1, PaidInNext
    <3>3. PaidIn(log, far) \in Nat /\ CountsIn(log, buffer) \in Nat
          BY <1>5, PaidInIsNat, CountsInIsNat
    <3>4. stats # None => stats.data \in Nat /\ stats.at \in Nat /\ local \in Nat
          BY <1>1 DEF Parts, ShownTyped
    <3> HIDE DEF i
    <3>5. even /\ stats # None =>
             /\ cut # None => stats.data >= cut.base
             /\ stats.data + (local - stats.at) + CountsIn(log, buffer) = PaidIn(log, far)
          BY <1>1 DEF Parts, CountRight
    <3>6. even /\ stats # None =>
             stats.data + (local - stats.at) + CountsIn(log, buffer') = PaidIn(log, i)
          BY <3>1, <3>2, <3>3, <3>4, <3>5
    <3>7. QED
          BY <1>2, <1>3, <2>1, <2>2, <3>5, <3>6 DEF CountRight
  <2>8. ChangesCovered' /\ PaymentsCovered'
    <3>1. \A j \in 1..far' : j \in 1..far \/ j \in Buffered'
          BY <1>5, <2>1, <2>3
    <3>2. \A j : Passed(j)' <=> Passed(j)
          BY <2>2 DEF Passed
    <3>3. ChangesCovered'
          BY <1>1, <1>2, <1>3, <2>3, <3>1, <3>2 DEF Parts, ChangesCovered
    <3>4. PaymentsCovered'
          BY <1>1, <1>2, <1>3, <2>3, <3>1, <3>2 DEF Parts, PaymentsCovered
    <3>5. QED
          BY <3>3, <3>4
  <2>9. AnswersShown'
        BY <1>1, <1>2, <1>3, <2>2 DEF Parts, AnswersShown
  <2>10. OpeningFirst'
    <3>1. ASSUME 1 \in Buffered
          PROVE  Head(buffer') = 1 /\ (missed' > 1 \/ \A j \in 1..far' : j \in Buffered')
      <4>1. buffer # <<>>
            BY <3>1 DEF Buffered
      <4>2. Head(buffer) = 1 /\ (missed > 1 \/ \A j \in 1..far : j \in Buffered)
            BY <1>1, <3>1 DEF Parts, OpeningFirst
      <4>3. \A j \in 1..far' : j \in 1..far \/ j = i
            BY <1>5, <2>1
      <4>4. QED
            BY <2>2, <2>3, <4>1, <4>2, <4>3
    <3>2. ASSUME i = 1
          PROVE  Head(buffer') = 1 /\ \A j \in 1..far' : j \in Buffered'
      <4>1. Buffered = {} /\ far' = 1
            BY <1>5, <2>1, <3>2
      <4>2. buffer = <<>>
        <5>1. buffer # <<>> => 1 \in DOMAIN buffer
              BY <1>5
        <5>2. QED
              BY <4>1, <5>1 DEF Buffered
      <4>3. QED
            BY <2>3, <3>2, <4>1, <4>2
    <3>3. far = 0 => i = 1
          BY <2>1
    <3>4. missed = 0 /\ upto = 0 /\ view = None => far = 0 \/ 1 \in Buffered
          BY <1>1 DEF Parts, OpeningFirst
    <3> HIDE DEF i
    <3>5. QED
          BY <1>2, <2>2, <2>3, <3>1, <3>2, <3>3, <3>4 DEF OpeningFirst
  <2>11. ViewRight'
    <3>1. ChangeDue => ChangeDue'
      <4>1. \A j \in 1..Len(log) : j > far => j = i \/ j > far'
            BY <1>5, <2>1
      <4>2. QED
            BY <1>3, <2>3, <4>1 DEF ChangeDue
    <3>2. QED
          BY <1>1, <1>2, <1>3, <2>2, <3>1 DEF Parts, ViewRight, Refreshing
  <2>12. QED
        BY <1>3, <1>4, <1>8, <2>4, <2>5, <2>6, <2>7, <2>8, <2>9, <2>10, <2>11 DEF FeedInv
<1>12. QED
      BY <1>5, <1>6, <1>9, <1>10, <1>11

LEMMA ReconnectsKeeps ==
    ASSUME FeedInv, Reconnects
    PROVE  FeedInv'
<1>1. Parts /\ Stays
      BY PartsOf DEF Reconnects, Stays
<1>2. /\ pos' = Replay /\ far' = Max2(far, Replay)
      /\ UNCHANGED <<seen, buffer, cut, requested, view, local, lastTs, stats, requests, polls>>
      BY DEF Reconnects
<1>3. ServerInv' /\ Len(log') = Len(log) /\ Replay' = Replay /\ Time' = Time /\ log' = log
      BY <1>1, ServerStays
<1>4. RequestsRight' /\ PollsRight'
      BY <1>1, <1>2, RequestsStay, PollsStay
<1>5. /\ pos \in Nat /\ far \in Nat /\ pos <= far /\ far <= Len(log) /\ Len(log) \in Nat
      /\ seen \subseteq 1..far /\ buffer \in Seq(Nat) /\ Buffered \subseteq seen
      /\ upto \in Nat /\ missed \in Nat /\ upto <= Len(log) /\ missed <= Len(log)
      /\ Replay \in Nat /\ Replay <= Len(log)
      BY <1>1 DEF Parts, StreamTyped
<1>6. Buffered' = Buffered
      BY <1>2 DEF Buffered
<1>7. ShownTyped' /\ CutRight'
      BY <1>1, <1>2, <1>3, <1>6 DEF Parts, ShownTyped, CutRight, Hidden
<1>8. PICK m \in 0..pos : DeliveredFrom(m)
      BY <1>1 DEF Parts, Delivered
<1>9. CASE Replay > far
  <2>1. far' = Replay
        BY <1>2, <1>5, <1>9 DEF Max2
  <2>2. Misses(Replay) /\ even' = FALSE
        BY <1>9 DEF Reconnects
  <2>3. upto' = 0 /\ missed' \in Nat /\ missed' <= Len(log) /\ missed' >= Replay
        BY <1>1, <1>5, <2>2, MissesMore DEF Parts
  <2>4. StreamTyped'
        BY <1>2, <1>3, <1>5, <1>6, <1>9, <2>1, <2>3 DEF StreamTyped
  <2>5. Delivered'
    <3>1. Replay \in 0..Replay /\ (Replay + 1)..Replay = {} /\ Replay <= Replay
          BY <1>5
    <3>2. QED
          BY <1>2, <1>3, <2>1, <3>1 DEF Delivered, DeliveredFrom
  <2>6. CountRight'
        BY <2>2 DEF CountRight
  <2>7. ChangesCovered' /\ PaymentsCovered'
    <3>1. \A j \in 1..far' : Passed(j)'
          BY <1>5, <2>1, <2>3 DEF Passed
    <3>2. QED
          BY <3>1 DEF ChangesCovered, PaymentsCovered
  <2>8. AnswersShown'
        BY <2>3 DEF AnswersShown
  <2>9. OpeningFirst'
    <3>1. 1 \in Buffered' => Head(buffer') = 1 /\ missed' > 1
      <4>1. 1 \in Buffered => far >= 1 /\ Head(buffer) = 1
            BY <1>1, <1>5 DEF Parts, OpeningFirst
      <4>2. QED
            BY <1>2, <1>5, <1>6, <1>9, <2>3, <4>1
    <3>2. missed' # 0
          BY <1>5, <1>9, <2>3
    <3>3. QED
          BY <3>1, <3>2 DEF OpeningFirst
  <2>10. ViewRight'
    <3>1. ~(upto' >= missed')
          BY <1>5, <1>9, <2>3
    <3>2. QED
          BY <3>1 DEF ViewRight
  <2>11. QED
        BY <1>3, <1>4, <1>7, <2>4, <2>5, <2>6, <2>7, <2>8, <2>9, <2>10 DEF FeedInv
<1>10. CASE ~(Replay > far)
  <2>1. far' = far
        BY <1>2, <1>5, <1>10 DEF Max2
  <2>2. UNCHANGED <<upto, missed, even>>
        BY <1>10 DEF Reconnects, NothingMissed
  <2>3. StreamTyped'
        BY <1>2, <1>3, <1>5, <1>6, <1>10, <2>1, <2>2 DEF StreamTyped
  <2>4. Delivered'
    <3>1. m \in 0..pos'
          BY <1>2, <1>5, <1>8 DEF DeliveredFrom
    <3>2. DeliveredFrom(m)'
          BY <1>2, <1>3, <1>8, <2>1 DEF DeliveredFrom, Hidden
    <3>3. QED
          BY <3>1, <3>2 DEF Delivered
  <2>5. CountRight'
        BY <1>1, <1>2, <1>3, <2>1, <2>2 DEF Parts, CountRight
  <2>6. ChangesCovered' /\ PaymentsCovered' /\ AnswersShown' /\ OpeningFirst'
        BY <1>1, <1>2, <1>3, <1>6, <2>1, <2>2
        DEF Parts, ChangesCovered, PaymentsCovered, AnswersShown, OpeningFirst, Passed
  <2>7. ViewRight'
        BY <1>1, <1>2, <1>3, <1>6, <2>1, <2>2 DEF Parts, ViewRight, Refreshing, ChangeDue
  <2>8. QED
        BY <1>3, <1>4, <1>7, <2>3, <2>4, <2>5, <2>6, <2>7 DEF FeedInv
<1>11. QED
      BY <1>9, <1>10

LEMMA AnsweredIs ==
    ASSUME NEW r, DOMAIN r = {"kind", "asked", "answer"}, NEW a
    PROVE  LET s == [r EXCEPT !.answer = a]
           IN  DOMAIN s = DOMAIN r /\ s.kind = r.kind /\ s.asked = r.asked /\ s.answer = a
  OBVIOUS

LEMMA PollAnsweredIs ==
    ASSUME NEW p, DOMAIN p = {"by", "answer"}, NEW a
    PROVE  LET q == [p EXCEPT !.answer = a]
           IN  DOMAIN q = DOMAIN p /\ q.answer = a
  OBVIOUS

LEMMA StatsKeep ==
    ASSUME FeedInv,
           \/ \E by \in {"poll", "clear"} : StatsAsked(by)
           \/ \E p \in polls : StatsAnswered(p) \/ StatsLost(p)
    PROVE  FeedInv'
<1>1. Parts
      BY PartsOf
<1>2. CASE \E by \in {"poll", "clear"} : StatsAsked(by)
  <2>1. PICK by \in {"poll", "clear"} : StatsAsked(by)
        BY <1>2
  <2>2. PollRight([by |-> by, answer |-> None])
        BY DEF PollRight
  <2>3. Stays /\ polls' = polls \cup {[by |-> by, answer |-> None]}
        /\ UNCHANGED <<pos, seen, buffer, cut, requested, view, local, lastTs, stats, requests,
                       far, upto, missed, even>>
        BY <2>1 DEF StatsAsked, Stays
  <2>4. \A p \in polls' : p \in polls \/ PollRight(p)
        BY <2>2, <2>3
  <2>5. QED
        BY <2>3, <2>4, PollsKeep
<1>3. CASE \E p \in polls : StatsAnswered(p)
  <2>1. PICK p \in polls : StatsAnswered(p)
        BY <1>3
  <2> DEFINE a == [payments |-> Payments(Len(log)), at |-> Len(log)]
             q == [p EXCEPT !.answer = a]
  <2>2. Stays /\ polls' = (polls \ {p}) \cup {q}
        /\ UNCHANGED <<pos, seen, buffer, cut, requested, view, local, lastTs, stats, requests,
                       far, upto, missed, even>>
        BY <2>1 DEF StatsAnswered, Stays
  <2>3. DOMAIN p = {"by", "answer"}
        BY <1>1, <2>1 DEF Parts, PollsRight, PollRight
  <2>4. DOMAIN q = DOMAIN p /\ q.answer = a
        BY <2>3, PollAnsweredIs
  <2>5. a.at = Len(log) /\ a.payments = PaidIn(log, Len(log))
        BY DEF Payments, PaidIn
  <2>6. Len(log) \in Nat
        BY <1>1 DEF Parts
  <2> HIDE DEF q, a
  <2>7. PollRight(q)
        BY <2>3, <2>4, <2>5, <2>6 DEF PollRight
  <2>8. \A x \in polls' : x \in polls \/ PollRight(x)
        BY <2>2, <2>7
  <2>9. QED
        BY <2>2, <2>8, PollsKeep
<1>4. CASE \E p \in polls : StatsLost(p)
  <2>1. PICK p \in polls : StatsLost(p)
        BY <1>4
  <2>2. Stays /\ polls' = polls \ {p}
        /\ UNCHANGED <<pos, seen, buffer, cut, requested, view, local, lastTs, stats, requests,
                       far, upto, missed, even>>
        BY <2>1 DEF StatsLost, Stays
  <2>3. \A x \in polls' : x \in polls \/ PollRight(x)
        BY <2>2
  <2>4. QED
        BY <2>2, <2>3, PollsKeep
<1>5. QED
      BY <1>2, <1>3, <1>4

LEMMA StatsAppliedKeeps ==
    ASSUME FeedInv, NEW p \in polls, StatsApplied(p)
    PROVE  FeedInv'
<1>1. Parts /\ Stays
      BY PartsOf DEF StatsApplied, Stays
<1>2. /\ p.answer # None /\ polls' = polls \ {p}
      /\ stats' = [data |-> p.answer.payments, at |-> local]
      /\ even' = (/\ p.answer.at = far /\ buffer = <<>>
                  /\ cut # None => p.answer.payments >= cut.base)
      /\ UNCHANGED <<pos, seen, buffer, cut, requested, view, local, lastTs, requests,
                     far, upto, missed>>
      BY DEF StatsApplied
<1>3. ServerInv' /\ Len(log') = Len(log) /\ Replay' = Replay /\ Time' = Time /\ log' = log
      BY <1>1, ServerStays
<1>4. RequestsRight' /\ PollsRight'
      BY <1>1, <1>2, RequestsStay, PollsStay
<1>5. Buffered' = Buffered
      BY <1>2 DEF Buffered
<1>6. /\ p.answer.at \in Nat /\ p.answer.payments = PaidIn(log, p.answer.at)
      /\ PaidIn(log, p.answer.at) \in Nat
      BY <1>1, <1>2, PaidInIsNat DEF Parts, PollsRight, PollRight
<1>7. local \in Nat
      BY <1>1 DEF Parts, ShownTyped
<1>8. stats' \in [data : Nat, at : Nat] /\ stats'.at = local /\ stats'.data = p.answer.payments
      BY <1>2, <1>6, <1>7
<1>9. StreamTyped' /\ CutRight' /\ Delivered'
      BY <1>1, <1>2, <1>3, <1>5
      DEF Parts, StreamTyped, CutRight, Delivered, DeliveredFrom, Hidden
<1>10. ShownTyped'
      BY <1>1, <1>2, <1>3, <1>7, <1>8 DEF Parts, ShownTyped
<1>11. CountRight'
  <2> SUFFICES ASSUME even'
               PROVE  /\ cut' # None => stats'.data >= cut'.base
                      /\ stats'.data + (local' - stats'.at) + CountsIn(log', buffer')
                            = PaidIn(log', far')
      BY DEF CountRight
  <2>1. p.answer.at = far /\ buffer = <<>> /\ (cut # None => p.answer.payments >= cut.base)
        BY <1>2
  <2>2. CountsIn(log, <<>>) = 0
        BY CountsInNone
  <2>3. QED
        BY <1>2, <1>3, <1>6, <1>7, <1>8, <2>1, <2>2
<1>12. ChangesCovered' /\ PaymentsCovered' /\ AnswersShown' /\ OpeningFirst'
      BY <1>1, <1>2, <1>3, <1>5
      DEF Parts, ChangesCovered, PaymentsCovered, AnswersShown, OpeningFirst, Passed
<1>13. ViewRight'
      BY <1>1, <1>2, <1>3, <1>5 DEF Parts, ViewRight, Refreshing, ChangeDue
<1>14. QED
      BY <1>3, <1>4, <1>9, <1>10, <1>11, <1>12, <1>13 DEF FeedInv

LEMMA RequestAnsweredKeeps ==
    ASSUME FeedInv, NEW r \in requests, RequestAnswered(r)
    PROVE  FeedInv'
<1> DEFINE a == [state |-> server, at |-> Len(log)]
           s == [r EXCEPT !.answer = a]
<1>1. Parts /\ Stays
      BY PartsOf DEF RequestAnswered, Stays
<1>2. /\ server # None /\ requests' = (requests \ {r}) \cup {s}
      /\ UNCHANGED <<pos, seen, buffer, cut, requested, view, local, lastTs, stats, polls,
                     far, upto, missed, even>>
      BY DEF RequestAnswered
<1>3. ServerInv' /\ Len(log') = Len(log) /\ Replay' = Replay /\ Time' = Time /\ log' = log
      BY <1>1, ServerStays
<1>4. DOMAIN r = {"kind", "asked", "answer"} /\ RequestRight(r)
      BY <1>1 DEF Parts, RequestsRight, RequestRight
<1>5. DOMAIN s = DOMAIN r /\ s.kind = r.kind /\ s.asked = r.asked /\ s.answer = a
      BY <1>4, AnsweredIs
<1>6. a.state = server /\ a.at = Len(log)
      OBVIOUS
<1>7. /\ server \in Channel /\ server.accepted = PaidIn(log, Len(log))
      /\ Follows(log, server, Len(log)) /\ Len(log) \in Nat \ {0}
  <2>1. log # <<>>
        BY <1>1, <1>2 DEF Parts, ServerInv, ServerRight
  <2>2. Len(log) \in Nat \ {0}
    <3>1. log \in Seq(Emitted)
          BY <1>1 DEF Parts, Told
    <3>2. QED
          BY <2>1, <3>1
  <2>3. QED
        BY <1>1, <2>1, <2>2 DEF Parts, ServerInv, ServerRight
<1> HIDE DEF s, a
<1>8. RequestRight(s)
      BY <1>4, <1>5, <1>6, <1>7 DEF RequestRight
<1>9. RequestsRight' /\ PollsRight'
      BY <1>1, <1>2, <1>8, RequestsStay, PollsStay
<1>10. Buffered' = Buffered
      BY <1>2 DEF Buffered
<1>11. StreamTyped' /\ ShownTyped' /\ CutRight' /\ Delivered' /\ CountRight'
      BY <1>1, <1>2, <1>3, <1>10
      DEF Parts, StreamTyped, ShownTyped, CutRight, Delivered, DeliveredFrom, Hidden, CountRight
<1>12. \A x \in requests : \E y \in requests' : y.kind = x.kind /\ y.asked = x.asked
      BY <1>2, <1>5
<1>13. ChangesCovered'
      BY <1>1, <1>2, <1>3, <1>10, <1>12 DEF Parts, ChangesCovered, Passed
<1>14. PaymentsCovered' /\ AnswersShown' /\ OpeningFirst'
      BY <1>1, <1>2, <1>3, <1>10 DEF Parts, PaymentsCovered, AnswersShown, OpeningFirst, Passed
<1>15. ViewRight'
  <2>1. Refreshing => Refreshing'
        BY <1>12 DEF Refreshing
  <2>2. QED
        BY <1>1, <1>2, <1>3, <1>10, <2>1 DEF Parts, ViewRight, ChangeDue
<1>16. QED
      BY <1>3, <1>9, <1>11, <1>13, <1>14, <1>15 DEF FeedInv

LEMMA RequestLostKeeps ==
    ASSUME FeedInv, NEW r \in requests, RequestLost(r)
    PROVE  FeedInv'
<1>1. Parts /\ Stays
      BY PartsOf DEF RequestLost, Stays
<1>2. /\ requests' = requests \ {r} /\ Misses(r.asked)
      /\ UNCHANGED <<pos, seen, buffer, cut, requested, view, local, lastTs, stats, polls,
                     far, even>>
      BY DEF RequestLost
<1>3. ServerInv' /\ Len(log') = Len(log) /\ Replay' = Replay /\ Time' = Time /\ log' = log
      BY <1>1, ServerStays
<1>4. /\ r.asked \in Nat /\ r.asked <= Len(log) /\ (r.kind = "refresh" => r.asked > 0)
      BY <1>1 DEF Parts, RequestsRight, RequestRight
<1>5. /\ upto' = 0 /\ missed' \in Nat /\ missed' <= Len(log) /\ missed' >= missed
      /\ missed' >= r.asked /\ (missed' = 0 => missed = 0 /\ upto = 0 /\ r.asked = 0)
      /\ \A j \in Nat : Passed(j) => j <= missed'
      BY <1>1, <1>2, <1>4, MissesMore DEF Parts
<1>6. /\ far \in Nat /\ missed \in Nat /\ upto \in Nat
      BY <1>1 DEF Parts, StreamTyped
<1>7. RequestsRight' /\ PollsRight'
      BY <1>1, <1>2, RequestsStay, PollsStay
<1>8. Buffered' = Buffered
      BY <1>2 DEF Buffered
<1>9. StreamTyped' /\ ShownTyped' /\ CutRight' /\ Delivered' /\ CountRight'
  <2>1. StreamTyped'
        BY <1>1, <1>2, <1>3, <1>5, <1>8 DEF Parts, StreamTyped
  <2>2. QED
        BY <1>1, <1>2, <1>3, <1>8, <2>1
        DEF Parts, ShownTyped, CutRight, Delivered, DeliveredFrom, Hidden, CountRight
<1>10. \A j \in 1..far : Passed(j) => Passed(j)'
      BY <1>5, <1>6 DEF Passed
<1>11. ChangesCovered'
  <2> SUFFICES ASSUME NEW j \in 1..far, log[j].type \in Changing,
                      j \notin Buffered, ~Passed(j)'
               PROVE  \E x \in requests' : x.kind = "refresh" /\ x.asked >= j
      BY <1>2, <1>3, <1>8 DEF ChangesCovered
  <2>1. PICK x \in requests : x.kind = "refresh" /\ x.asked >= j
        BY <1>1, <1>10 DEF Parts, ChangesCovered
  <2>2. x # r
        BY <1>4, <1>5, <1>6, <2>1 DEF Passed
  <2>3. QED
        BY <1>2, <2>1, <2>2
<1>12. PaymentsCovered'
      BY <1>1, <1>2, <1>3, <1>8, <1>10 DEF Parts, PaymentsCovered
<1>13. AnswersShown'
      BY <1>5 DEF AnswersShown
<1>14. OpeningFirst'
      BY <1>1, <1>2, <1>5, <1>6, <1>8 DEF Parts, OpeningFirst
<1>15. ViewRight'
  <2> SUFFICES ASSUME view # None, upto' >= missed'
               PROVE  Refreshing' \/ ChangeDue' \/ Follows(log', view', Max2(upto', 1))
      BY <1>2, <1>3 DEF ViewRight
  <2>1. missed' = 0 /\ missed = 0 /\ upto = 0 /\ r.asked = 0
        BY <1>5
  <2>2. r.kind # "refresh"
        BY <1>4, <2>1
  <2>3. Refreshing => Refreshing'
        BY <1>2, <2>2 DEF Refreshing
  <2>4. ChangeDue => ChangeDue'
        BY <1>2, <1>3, <1>8 DEF ChangeDue
  <2>5. Refreshing \/ ChangeDue \/ Follows(log, view, Max2(0, 1))
        BY <1>1, <2>1 DEF Parts, ViewRight
  <2>6. QED
        BY <1>2, <1>3, <1>5, <2>3, <2>4, <2>5
<1>16. QED
      BY <1>3, <1>7, <1>9, <1>11, <1>12, <1>13, <1>14, <1>15 DEF FeedInv

LEMMA SnapshotIs ==
    ASSUME NEW ch, Known(ch) \in Channel, NEW c \in Channel
    PROVE  LET s == Snapshot(ch, c)
           IN  /\ s \in Channel /\ s.deposit = c.deposit /\ s.claimed = c.claimed
               /\ s.open = c.open
               /\ s.accepted >= c.accepted /\ s.accepted >= Known(ch).accepted
               /\ s.accepted = c.accepted \/ s.accepted = Known(ch).accepted
<1> DEFINE k == Known(ch)
           m == Max2(c.accepted, k.accepted)
           s == Snapshot(ch, c)
<1>1. k.accepted \in Nat /\ c.accepted \in Nat
      BY DEF Channel
<1>2. m \in Nat /\ m >= c.accepted /\ m >= k.accepted /\ (m = c.accepted \/ m = k.accepted)
      BY <1>1 DEF Max2
<1>3. s = [c EXCEPT !.accepted = m]
      BY DEF Snapshot
<1> HIDE DEF m, k, s
<1>4. /\ s \in Channel /\ s.deposit = c.deposit /\ s.claimed = c.claimed
      /\ s.open = c.open /\ s.accepted = m
      BY <1>2, <1>3 DEF Channel
<1>5. QED
      BY <1>2, <1>4 DEF k, s

LEMMA AnswerAppliedKeeps ==
    ASSUME FeedInv, NEW r \in requests, AnswerApplied(r)
    PROVE  FeedInv'
<1>1. Parts /\ Stays
      BY PartsOf DEF AnswerApplied, Stays
<1>2. /\ r.answer # None /\ requests' = requests \ {r}
      /\ UNCHANGED <<pos, seen, buffer, cut, local, lastTs, stats, polls, far, even>>
      BY DEF AnswerApplied
<1>3. ServerInv' /\ Len(log') = Len(log) /\ Replay' = Replay /\ Time' = Time /\ log' = log
      BY <1>1, ServerStays
<1>4. RequestsRight' /\ PollsRight'
      BY <1>1, <1>2, RequestsStay, PollsStay
<1>5. Buffered' = Buffered
      BY <1>2 DEF Buffered
<1>6. CutRight' /\ Delivered' /\ CountRight'
      BY <1>1, <1>2, <1>3, <1>5
      DEF Parts, CutRight, Delivered, DeliveredFrom, Hidden, CountRight
<1>7. ASSUME r.kind = "list", UNCHANGED <<view, upto, missed>>
      PROVE  FeedInv'
  <2>1. StreamTyped' /\ ShownTyped'
        BY <1>1, <1>2, <1>3, <1>5, <1>7 DEF Parts, StreamTyped, ShownTyped
  <2>2. \A x \in requests : x.kind = "refresh" => x \in requests'
        BY <1>2, <1>7
  <2>3. ChangesCovered'
        BY <1>1, <1>2, <1>3, <1>5, <1>7, <2>2 DEF Parts, ChangesCovered, Passed
  <2>4. PaymentsCovered' /\ AnswersShown' /\ OpeningFirst'
        BY <1>1, <1>2, <1>3, <1>5, <1>7
        DEF Parts, PaymentsCovered, AnswersShown, OpeningFirst, Passed
  <2>5. ViewRight'
    <3>1. Refreshing => Refreshing'
          BY <2>2 DEF Refreshing
    <3>2. QED
          BY <1>1, <1>2, <1>3, <1>5, <1>7, <3>1 DEF Parts, ViewRight, ChangeDue
  <2>6. QED
        BY <1>3, <1>4, <1>6, <2>1, <2>3, <2>4, <2>5 DEF FeedInv
<1>8. ASSUME ~(r.kind = "list" /\ cut # None /\ ~r.answer.state.open)
      PROVE  FeedInv'
  <2> DEFINE c == r.answer.state
             n == r.answer.at
             l == Len(log)
  <2>1. view' = Snapshot(view, c) /\ upto' = n /\ missed' = Max2(missed, upto)
        BY <1>8 DEF AnswerApplied
  <2>2. /\ n \in Nat \ {0} /\ r.asked \in Nat /\ r.asked <= n /\ n <= l /\ c \in Channel
        /\ c.accepted = PaidIn(log, n) /\ Follows(log, c, n)
        BY <1>1, <1>2 DEF Parts, RequestsRight, RequestRight
  <2>3. /\ upto \in Nat /\ missed \in Nat /\ upto <= l /\ missed <= l /\ far \in Nat /\ l \in Nat
        BY <1>1 DEF Parts, StreamTyped
  <2>4. /\ view = None \/ (view \in Channel /\ view.accepted <= PaidIn(log, l) /\ log # <<>>)
        BY <1>1 DEF Parts, ShownTyped
  <2>5. emptyChannel \in Channel /\ emptyChannel.accepted = 0
        BY DEF Channel, emptyChannel
  <2>6. /\ Known(view) \in Channel /\ (view # None => Known(view) = view)
        /\ (view = None => Known(view) = emptyChannel)
        BY <2>4, <2>5 DEF Known
  <2>7. PaidIn(log, n) <= PaidIn(log, l) /\ PaidIn(log, l) \in Nat /\ PaidIn(log, n) \in Nat
    <3> HIDE DEF n, l
    <3>1. QED
          BY <2>2, <2>3, PaidInGrows, PaidInIsNat
  <2> HIDE DEF c, n, l
  <2>8. /\ view' \in Channel /\ view'.deposit = c.deposit /\ view'.claimed = c.claimed
        /\ view'.open = c.open
        /\ view'.accepted >= c.accepted /\ view'.accepted >= Known(view).accepted
        /\ view'.accepted = c.accepted \/ view'.accepted = Known(view).accepted
        BY <2>1, <2>2, <2>6, SnapshotIs
  <2>9. /\ missed' \in Nat /\ missed' >= missed /\ missed' >= upto /\ missed' <= l
        BY <2>1, <2>3 DEF Max2
  <2>10. view' # None
        BY <2>8, KnownIsKnown
  <2>11. StreamTyped'
        BY <1>1, <1>2, <1>3, <1>5, <2>1, <2>2, <2>9 DEF Parts, StreamTyped, l
  <2>12. ShownTyped'
    <3>1. view'.accepted <= PaidIn(log, l)
          BY <2>2, <2>4, <2>5, <2>6, <2>7, <2>8
    <3>2. log # <<>>
          BY <2>2, <2>3 DEF l
    <3>3. QED
          BY <1>1, <1>2, <1>3, <2>8, <3>1, <3>2 DEF Parts, ShownTyped, l
  <2>13. \A j \in 1..far : Passed(j) => Passed(j)'
        BY <2>3, <2>9 DEF Passed
  <2>14. ChangesCovered'
    <3> SUFFICES ASSUME NEW j \in 1..far, log[j].type \in Changing,
                        j \notin Buffered, ~Passed(j)'
                 PROVE  \E x \in requests' : x.kind = "refresh" /\ x.asked >= j
        BY <1>2, <1>3, <1>5 DEF ChangesCovered
    <3>1. PICK x \in requests : x.kind = "refresh" /\ x.asked >= j
          BY <1>1, <2>13 DEF Parts, ChangesCovered
    <3>2. x # r
      <4>1. ~(j <= n)
            BY <2>1 DEF Passed
      <4>2. QED
            BY <2>2, <2>3, <3>1, <4>1
    <3>3. QED
          BY <1>2, <3>1, <3>2
  <2>15. PaymentsCovered'
    <3>1. ASSUME NEW j \in 1..far, log[j].type = "accepted", view # None,
                 view.accepted >= log[j].amount
          PROVE  view'.accepted >= log[j].amount
      <4>1. log[j].amount \in Nat
        <5>1. j \in 1..Len(log)
              BY <1>1, <2>3 DEF Parts, StreamTyped
        <5>2. Told(log)
              BY <1>1 DEF Parts
        <5>3. QED
              BY <5>1, <5>2, LogIs
      <4>2. view.accepted \in Nat /\ view'.accepted \in Nat /\ view'.accepted >= view.accepted
            BY <2>4, <2>6, <2>8, <3>1 DEF Channel
      <4>3. QED
            BY <3>1, <4>1, <4>2
    <3>2. QED
          BY <1>1, <1>2, <1>3, <1>5, <2>10, <2>13, <3>1 DEF Parts, PaymentsCovered
  <2>16. AnswersShown'
        BY <1>3, <2>1, <2>2, <2>8, <2>10 DEF AnswersShown
  <2>17. OpeningFirst'
    <3>1. upto' # 0
          BY <2>1, <2>2
    <3>2. QED
          BY <1>1, <1>2, <1>5, <2>3, <2>9, <3>1 DEF Parts, OpeningFirst
  <2>18. ViewRight'
    <3>1. Max2(upto', 1) = n
          BY <2>1, <2>2 DEF Max2
    <3>2. \A d : d.deposit = c.deposit /\ d.claimed = c.claimed /\ d.open = c.open
                 => Follows(log, d, n)
          BY <2>2, FollowsAlike
    <3>3. Follows(log, view', n)
          BY <2>8, <3>2
    <3>4. Follows(log', view', Max2(upto', 1))
          BY <1>3, <3>1, <3>3
    <3>5. QED
          BY <3>4 DEF ViewRight
  <2>19. QED
        BY <1>3, <1>4, <1>6, <2>11, <2>12, <2>14, <2>15, <2>16, <2>17, <2>18 DEF FeedInv
<1>9. QED
  <2>1. CASE r.kind = "list" /\ cut # None /\ ~r.answer.state.open
        BY <1>7, <2>1 DEF AnswerApplied
  <2>2. QED
        BY <1>8, <2>1

(* The batch is of the log, and not empty.                                  *)
LEMMA BatchIs ==
    ASSUME Parts, buffer # <<>>
    PROVE  /\ DOMAIN Batch = DOMAIN buffer /\ Batch \in Seq(Emitted) /\ Batch # <<>>
           /\ \A n \in DOMAIN buffer : Batch[n] = log[buffer[n]] /\ buffer[n] \in 1..far
           /\ Last(Batch).ts \in Nat /\ Last(Batch).ts <= Time
           /\ \E n \in DOMAIN buffer : Last(Batch) = log[buffer[n]]
           /\ far >= 1
<1>1. /\ buffer \in Seq(Nat) /\ Buffered \subseteq 1..far /\ far \in Nat /\ far <= Len(log)
      /\ Len(log) \in Nat /\ Told(log)
      BY DEF Parts, StreamTyped
<1>2. \A n \in DOMAIN buffer : buffer[n] \in 1..far
      BY <1>1 DEF Buffered
<1>3. \A j \in 1..far : j \in 1..Len(log)
      BY <1>1
<1>4. \A j \in 1..far : log[j] \in Emitted /\ log[j].ts \in Nat /\ log[j].ts <= Time
      BY <1>1, <1>3, LogIs
<1>5. \A n \in DOMAIN buffer : Batch[n] = log[buffer[n]] /\ Batch[n] \in Emitted
      BY <1>2, <1>4 DEF Batch
<1> DEFINE l == Len(buffer)
<1>6. l \in Nat \ {0} /\ DOMAIN buffer = 1..l
      BY <1>1
<1>7. DOMAIN Batch = 1..l
      BY <1>6 DEF Batch
<1> HIDE DEF l
<1>8. Batch = [n \in 1..l |-> Batch[n]]
      BY <1>6 DEF Batch
<1>9. Batch \in [1..l -> Emitted]
      BY <1>5, <1>6, <1>8
<1>10. Batch \in Seq(Emitted) /\ Len(Batch) = l /\ Batch # <<>>
      BY <1>6, <1>7, <1>9
<1>11. Last(Batch) = Batch[l] /\ l \in DOMAIN buffer
      BY <1>6, <1>10 DEF Last
<1>12. far >= 1
      BY <1>1, <1>2, <1>11
<1>13. QED
      BY <1>2, <1>4, <1>5, <1>6, <1>7, <1>10, <1>11, <1>12

LEMMA FlushesKeeps ==
    ASSUME FeedInv, Flushes
    PROVE  FeedInv'
<1> DEFINE l == Len(log)
<1>1. Parts /\ Stays
      BY PartsOf DEF Flushes, Stays
<1>2. /\ buffer # <<>> /\ view' = FoldLeft(apply, view, Batch) /\ lastTs' = Last(Batch).ts
      /\ local' = local + Cardinality({n \in DOMAIN buffer : Batch[n].type = "accepted"})
      /\ buffer' = <<>>
      /\ UNCHANGED <<pos, seen, cut, stats, polls, even, far>>
      BY DEF Flushes
<1>3. ServerInv' /\ Len(log') = Len(log) /\ Replay' = Replay /\ Time' = Time /\ log' = log
      BY <1>1, ServerStays
<1>4. /\ DOMAIN Batch = DOMAIN buffer /\ Batch \in Seq(Emitted) /\ Batch # <<>>
      /\ \A n \in DOMAIN buffer : Batch[n] = log[buffer[n]] /\ buffer[n] \in 1..far
      /\ Last(Batch).ts \in Nat /\ Last(Batch).ts <= Time
      /\ \E n \in DOMAIN buffer : Last(Batch) = log[buffer[n]]
      /\ far >= 1
      BY <1>1, <1>2, BatchIs
<1>5. /\ far \in Nat /\ far <= l /\ l \in Nat /\ upto \in Nat /\ missed \in Nat
      /\ upto <= l /\ missed <= l /\ buffer \in Seq(Nat) /\ Told(log)
      BY <1>1 DEF Parts, StreamTyped
<1>6. \A j \in 1..far : /\ j \in 1..l /\ log[j].amount \in Nat
                        /\ log[j].type = "opened" <=> j = 1
                        /\ log[j].type = "accepted" => log[j].amount = PaidIn(log, j)
                        /\ log[j] \in Emitted
  <2>1. \A j \in 1..far : j \in 1..l
        BY <1>5
  <2>2. QED
        BY <1>5, <2>1, LogIs
<1>7. \A j \in 1..far : PaidIn(log, j) <= PaidIn(log, l)
  <2> HIDE DEF l
  <2>1. QED
        BY <1>5, <1>6, PaidInGrows
<1>8. view = None \/ (view \in Channel /\ view.accepted <= PaidIn(log, l))
      BY <1>1 DEF Parts, ShownTyped
<1>9. emptyChannel \in Channel /\ emptyChannel.accepted = 0 /\ emptyChannel.claimed = 0
      BY DEF Channel, emptyChannel
<1> DEFINE k == Known(view)
           v == FoldLeft(apply, view, Batch)
<1>10. k \in Channel /\ (view # None => k = view) /\ (view = None => k = emptyChannel)
      BY <1>8, <1>9 DEF Known
<1>11. Made(v, k, Batch)
      BY <1>4, <1>10, BatchApplied
<1>12. PaidIn(log, l) \in Nat
  <2> HIDE DEF l
  <2>1. QED
        BY <1>5, PaidInIsNat
<1>13. view' = v
      BY <1>2
<1> HIDE DEF v, l
<1>14. /\ v \in Channel /\ v.accepted \in Nat /\ v.accepted >= k.accepted
       /\ \A j \in Buffered : log[j].type = "accepted" => v.accepted >= log[j].amount
       /\ v.accepted <= PaidIn(log, l) /\ v # None
  <2>1. v \in Channel /\ v.accepted >= k.accepted /\ v.accepted \in Nat
        BY <1>11 DEF Made, Channel
  <2>2. \A n \in DOMAIN buffer :
           log[buffer[n]].type = "accepted" => v.accepted >= log[buffer[n]].amount
        BY <1>4, <1>11 DEF Made
  <2>3. v.accepted <= PaidIn(log, l)
    <3>1. CASE v.accepted = k.accepted
          BY <1>8, <1>9, <1>10, <1>12, <3>1
    <3>2. CASE \E n \in DOMAIN Batch : Batch[n].type = "accepted" /\ v.accepted = Batch[n].amount
          BY <1>4, <1>6, <1>7, <3>2
    <3>3. QED
          BY <1>11, <3>1, <3>2 DEF Made
  <2>4. QED
        BY <2>1, <2>2, <2>3, KnownIsKnown DEF Buffered
<1>15. Buffered' = {} /\ Buffered \subseteq 1..far
  <2>1. DOMAIN <<>> = {}
        OBVIOUS
  <2>2. QED
        BY <1>2, <1>4, <2>1 DEF Buffered
<1>16. log # <<>>
      BY <1>4, <1>5 DEF l
<1>17. Misses(missed) \/ (UNCHANGED <<upto, missed>> /\ Head(buffer) >= missed)
  <2>1. Head(buffer) \in Nat
    <3>1. 1 \in DOMAIN buffer /\ Head(buffer) = buffer[1]
          BY <1>2, <1>5
    <3>2. QED
          BY <1>4, <3>1
  <2>2. QED
        BY <1>5, <2>1 DEF Flushes, NothingMissed
<1>18. ASSUME Misses(missed), Head(buffer) < missed
       PROVE  upto' < missed'
  <2>1. Head(buffer) \in Nat
    <3>1. 1 \in DOMAIN buffer /\ Head(buffer) = buffer[1]
          BY <1>2, <1>5
    <3>2. QED
          BY <1>4, <3>1
  <2>2. missed' >= missed /\ upto' = 0 /\ missed' \in Nat
        BY <1>1, <1>5, <1>18, MissesMore DEF Parts, l
  <2>3. QED
        BY <1>5, <1>18, <2>1, <2>2
<1>19. /\ upto' \in Nat /\ missed' \in Nat /\ upto' <= l /\ missed' <= l
       /\ missed' >= missed /\ (upto' = 0 \/ upto' = upto)
       /\ \A j \in Nat : Passed(j) => Passed(j)'
       /\ missed' = 0 => missed = 0 /\ upto' = upto
  <2>1. CASE Misses(missed)
    <3>1. /\ upto' = 0 /\ missed' \in Nat /\ missed' <= Len(log)
          /\ missed' >= missed
          /\ missed' = 0 => missed = 0 /\ upto = 0
          /\ \A j \in Nat : Passed(j) => j <= missed'
          BY <1>1, <1>5, <2>1, MissesMore DEF Parts, l
    <3>2. QED
          BY <1>5, <3>1 DEF Passed, l
  <2>2. CASE UNCHANGED <<upto, missed>>
        BY <1>5, <2>2 DEF Passed
  <2>3. QED
        BY <1>17, <2>1, <2>2
<1> DEFINE q == [kind |-> "refresh", asked |-> far, answer |-> None]
<1>20. RequestRight(q)
  <2>1. DOMAIN q = {"kind", "asked", "answer"} /\ q.kind = "refresh" /\ q.asked = far
        /\ q.answer = None
        OBVIOUS
  <2> HIDE DEF q
  <2>2. QED
        BY <1>4, <1>5, <2>1 DEF RequestRight, l
<1>21. requests' = requests \cup {q} \/ requests' = requests
      BY DEF Flushes
<1>22. ASSUME NEW j \in Buffered, log[j].type \in Changing
       PROVE  q \in requests' /\ q.kind = "refresh" /\ q.asked >= j
  <2>1. PICK n \in DOMAIN buffer : buffer[n] = j
        BY DEF Buffered
  <2>2. Refreshes(buffer[n])
        BY <1>22, <2>1 DEF Refreshes, Changing
  <2>3. q \in requests'
        BY <2>2 DEF Flushes
  <2>4. j \in Nat /\ j <= far
        BY <1>5, <1>15
  <2>5. QED
        BY <1>5, <2>3, <2>4
<1> HIDE DEF q
<1>23. RequestsRight' /\ PollsRight'
      BY <1>1, <1>2, <1>20, <1>21, RequestsStay, PollsStay
<1>24. StreamTyped'
  <2>1. <<>> \in Seq(Nat)
        OBVIOUS
  <2>2. QED
        BY <1>1, <1>2, <1>3, <1>15, <1>19, <2>1 DEF Parts, StreamTyped, l
<1>25. Cardinality({n \in DOMAIN buffer : Batch[n].type = "accepted"}) = CountsIn(log, buffer)
  <2>1. {n \in DOMAIN buffer : Batch[n].type = "accepted"}
          = {n \in DOMAIN buffer : log[buffer[n]].type = "accepted"}
        BY <1>4
  <2>2. QED
        BY <2>1 DEF CountsIn
<1>26. local' = local + CountsIn(log, buffer) /\ CountsIn(log, buffer) \in Nat
      BY <1>2, <1>5, <1>25, CountsInIsNat
<1>27. /\ local \in Nat /\ local' \in Nat
       /\ stats # None => stats.data \in Nat /\ stats.at \in Nat /\ stats.at <= local
  <2>1. local \in Nat /\ (stats = None \/ (stats \in [data : Nat, at : Nat] /\ stats.at <= local))
        BY <1>1 DEF Parts, ShownTyped
  <2>2. QED
        BY <1>26, <2>1
<1>28. ShownTyped'
  <2>1. stats = None \/ (stats \in [data : Nat, at : Nat] /\ stats.at <= local')
        BY <1>1, <1>26, <1>27 DEF Parts, ShownTyped
  <2>2. QED
        BY <1>1, <1>2, <1>3, <1>4, <1>13, <1>14, <1>16, <1>27, <2>1 DEF Parts, ShownTyped, l
<1>29. CutRight'
  <2>1. cut # None => cut.ts \in Nat /\ cut.ts <= Time
        BY <1>1 DEF Parts, CutRight, ShownTyped, Cuts
  <2>2. cut # None => cut.ts <= lastTs'
    <3>1. PICK n \in DOMAIN buffer : Last(Batch) = log[buffer[n]]
          BY <1>4
    <3>2. cut # None => ~(log[buffer[n]].ts <= cut.ts)
          BY <1>1, <3>1 DEF Parts, CutRight, Hidden, Buffered
    <3>3. QED
          BY <1>2, <1>4, <2>1, <3>1, <3>2
  <2>3. QED
        BY <1>2, <1>3, <1>4, <1>15, <2>1, <2>2 DEF CutRight
<1>30. Delivered'
      BY <1>1, <1>2, <1>3 DEF Parts, Delivered, DeliveredFrom, Hidden
<1>31. CountRight'
  <2>1. CountsIn(log, <<>>) = 0
        BY CountsInNone
  <2>2. even /\ stats # None =>
          /\ cut # None => stats.data >= cut.base
          /\ stats.data + (local - stats.at) + CountsIn(log, buffer) = PaidIn(log, far)
        BY <1>1 DEF Parts, CountRight
  <2>3. even /\ stats # None =>
          stats.data + (local' - stats.at) + 0 = PaidIn(log, far)
        BY <1>26, <1>27, <2>2
  <2>4. QED
        BY <1>2, <1>3, <2>1, <2>2, <2>3 DEF CountRight
<1>32. ChangesCovered'
  <2> SUFFICES ASSUME NEW j \in 1..far, log[j].type \in Changing, ~Passed(j)'
               PROVE  \E x \in requests' : x.kind = "refresh" /\ x.asked >= j
      BY <1>2, <1>3 DEF ChangesCovered
  <2>1. CASE j \in Buffered
        BY <1>22, <2>1
  <2>2. CASE j \notin Buffered
    <3>1. ~Passed(j)
          BY <1>5, <1>19
    <3>2. QED
          BY <1>1, <1>21, <2>2, <3>1 DEF Parts, ChangesCovered
  <2>3. QED
        BY <2>1, <2>2
<1>33. PaymentsCovered'
  <2> SUFFICES ASSUME NEW j \in 1..far, log[j].type = "accepted", ~Passed(j)'
               PROVE  v.accepted >= log[j].amount
      BY <1>2, <1>3, <1>13, <1>14 DEF PaymentsCovered
  <2>1. CASE j \in Buffered
        BY <1>14, <2>1
  <2>2. CASE j \notin Buffered
    <3>1. ~Passed(j)
          BY <1>5, <1>19
    <3>2. view # None /\ view.accepted >= log[j].amount
          BY <1>1, <2>2, <3>1 DEF Parts, PaymentsCovered
    <3>3. k.accepted \in Nat
          BY <1>10 DEF Channel
    <3>4. k.accepted >= log[j].amount
          BY <1>10, <3>2
    <3>5. QED
          BY <1>6, <1>14, <3>3, <3>4
  <2>3. QED
        BY <2>1, <2>2
<1>34. AnswersShown'
  <2> SUFFICES ASSUME upto' > 0
               PROVE  v.accepted >= PaidIn(log, upto)
    <3>1. upto' > 0 => upto' = upto
          BY <1>19
    <3>2. QED
          BY <1>3, <1>13, <1>14, <3>1 DEF AnswersShown
  <2>1. upto > 0
        BY <1>5, <1>19
  <2>2. view # None /\ view.accepted >= PaidIn(log, upto)
        BY <1>1, <2>1 DEF Parts, AnswersShown
  <2>3. k.accepted \in Nat /\ PaidIn(log, upto) \in Nat /\ k.accepted >= PaidIn(log, upto)
        BY <1>5, <1>10, <2>2, PaidInIsNat DEF Channel
  <2>4. QED
        BY <1>14, <2>3
<1>35. OpeningFirst'
      BY <1>13, <1>14, <1>15 DEF OpeningFirst
<1>36. ViewRight'
  <2> SUFFICES ASSUME upto' >= missed', ~Refreshing', ~ChangeDue'
               PROVE  Follows(log, v, Max2(upto, 1))
    <3>1. upto' >= missed' => upto' = upto
      <4>1. ~(upto' < missed') => UNCHANGED <<upto, missed>>
            BY <1>18 DEF Flushes, NothingMissed
      <4>2. QED
            BY <1>19, <4>1
    <3>2. QED
          BY <1>3, <1>13, <3>1 DEF ViewRight
  <2>1. UNCHANGED <<upto, missed>> /\ upto >= missed /\ ~(Head(buffer) < missed)
        BY <1>18, <1>19 DEF Flushes, NothingMissed
  <2>2. \A j \in Buffered : log[j].type \notin Changing
        BY <1>22 DEF Refreshing
  <2>3. ~Refreshing
        BY <1>21 DEF Refreshing
  <2>4. \A j \in 1..l : j > far => log[j].type \notin Changing
        BY <1>2, <1>3 DEF ChangeDue, l
  <2>5. ~ChangeDue
        BY <2>2, <2>4 DEF ChangeDue, l
  <2>6. \A n \in DOMAIN Batch : Batch[n].type \in {"opened", "accepted"}
    <3> TAKE n \in DOMAIN Batch
    <3>1. buffer[n] \in Buffered /\ Batch[n] = log[buffer[n]] /\ Batch[n] \in Emitted
          BY <1>4, <1>6 DEF Buffered
    <3>2. Batch[n].type \in EventKinds /\ Batch[n].type \notin Changing
          BY <2>2, <3>1 DEF Emitted
    <3>3. QED
          BY <3>2 DEF EventKinds, Changing
  <2>7. /\ v.claimed = k.claimed
        /\ \/ /\ v.deposit = k.deposit /\ v.open = k.open
              /\ \A n \in DOMAIN Batch : Batch[n].type # "opened"
           \/ /\ \E n \in DOMAIN Batch : Batch[n].type = "opened" /\ v.deposit = Batch[n].amount
              /\ v.open = TRUE
        BY <1>11, <2>6 DEF Made
  <2>8. ASSUME 1 \in Buffered
        PROVE  \A j \in 1..l : log[j].type \notin Changing
    <3>1. Head(buffer) = 1 /\ (missed > 1 \/ \A j \in 1..far : j \in Buffered)
          BY <1>1, <2>8 DEF Parts, OpeningFirst
    <3>2. \A j \in 1..far : j \in Buffered
          BY <1>5, <2>1, <3>1
    <3>3. \A j \in 1..l : j \in 1..far \/ j > far
          BY <1>5
    <3>4. QED
          BY <2>2, <2>4, <3>2, <3>3
  <2>9. (\E n \in DOMAIN Batch : Batch[n].type = "opened" /\ v.deposit = Batch[n].amount)
           => 1 \in Buffered /\ v.deposit = log[1].amount
    <3> SUFFICES ASSUME NEW n \in DOMAIN Batch, Batch[n].type = "opened",
                        v.deposit = Batch[n].amount
                 PROVE  1 \in Buffered /\ v.deposit = log[1].amount
        OBVIOUS
    <3>1. Batch[n] = log[buffer[n]] /\ buffer[n] \in 1..far
          BY <1>4
    <3>2. buffer[n] = 1
          BY <1>6, <3>1
    <3>3. QED
          BY <1>4, <3>1, <3>2 DEF Buffered
  <2> DEFINE x == Max2(upto, 1)
  <2>10. x \in Nat /\ x >= 1 /\ x <= l
    <3>1. l >= 1
          BY <1>4, <1>5
    <3>2. QED
          BY <1>5, <3>1 DEF Max2
  <2> HIDE DEF x
  <2>11. ASSUME 1 \in Buffered, v.deposit = log[1].amount, v.open = TRUE, v.claimed = 0
         PROVE  Follows(log, v, x)
    <3>1. \A j \in 1..x : log[j].type \notin Changing
      <4>1. \A j \in 1..x : j \in 1..l
            BY <1>5, <2>10
      <4>2. QED
            BY <2>8, <2>11, <4>1
    <3>2. QED
          BY <1>5, <2>10, <2>11, <3>1, FollowsOpening DEF l
  <2>12. CASE view # None
    <3>1. Follows(log, view, x)
          BY <1>1, <2>1, <2>3, <2>5, <2>12 DEF Parts, ViewRight, x
    <3>2. CASE v.deposit = k.deposit /\ v.open = k.open
          BY <1>10, <2>7, <2>12, <3>1, <3>2, FollowsAlike DEF x
    <3>3. CASE /\ \E n \in DOMAIN Batch : Batch[n].type = "opened" /\ v.deposit = Batch[n].amount
               /\ v.open = TRUE
      <4>1. 1 \in Buffered /\ v.deposit = log[1].amount
            BY <2>9, <3>3
      <4>2. PICK i \in 0..x : /\ i = 0 \/ log[i].type = "claimed"
                              /\ view.claimed = PaidIn(log, i)
            BY <3>1 DEF Follows
      <4>3. i = 0
        <5>1. i # 0 => i \in 1..l
              BY <1>5, <2>10, <4>2
        <5>2. QED
              BY <2>8, <4>1, <4>2, <5>1 DEF Changing
      <4>4. view.claimed = 0
        <5>1. {y \in 1..0 : log[y].type = "accepted"} = {}
              OBVIOUS
        <5>2. QED
              BY <4>2, <4>3, <5>1, FS_EmptySet DEF PaidIn
      <4>5. QED
            BY <1>10, <2>7, <2>11, <2>12, <3>3, <4>1, <4>4 DEF x
    <3>4. QED
          BY <2>7, <3>2, <3>3
  <2>13. CASE view = None
    <3>1. upto = 0 /\ missed = 0
      <4>1. ~(upto > 0)
            BY <1>1, <2>13 DEF Parts, AnswersShown
      <4>2. QED
            BY <1>5, <2>1, <4>1
    <3>2. 1 \in Buffered
      <4>1. far # 0
            BY <1>4, <1>5
      <4>2. QED
            BY <1>1, <2>13, <3>1, <4>1 DEF Parts, OpeningFirst
    <3>3. \E n \in DOMAIN Batch : Batch[n].type = "opened"
      <4>1. PICK n \in DOMAIN buffer : buffer[n] = 1
            BY <3>2 DEF Buffered
      <4>2. n \in DOMAIN Batch /\ Batch[n].type = "opened"
            BY <1>4, <1>6, <4>1
      <4>3. QED
            BY <4>2
    <3>4. v.deposit = log[1].amount /\ v.open = TRUE /\ v.claimed = 0
          BY <1>9, <1>10, <2>7, <2>9, <2>13, <3>3
    <3>5. QED
          BY <2>11, <3>2, <3>4 DEF x
  <2>14. QED
        BY <2>12, <2>13 DEF x
<1>37. QED
      BY <1>3, <1>23, <1>24, <1>28, <1>29, <1>30, <1>31, <1>32, <1>33, <1>34, <1>35, <1>36
      DEF FeedInv

LEMMA ClearsKeeps ==
    ASSUME FeedInv, NEW p \in polls, Clears(p)
    PROVE  FeedInv'
<1>1. Parts /\ Stays
      BY PartsOf DEF Clears, Stays
<1> DEFINE ts == IF lastTs = 0 THEN Time ELSE lastTs
           base == p.answer.payments
<1>2. /\ p.answer # None /\ polls' = polls \ {p} /\ Misses(far)
      /\ cut' = [ts |-> ts, base |-> base] /\ buffer' = <<>> /\ view' = None
      /\ local' = 0 /\ stats' = [data |-> base, at |-> 0] /\ even' = (p.answer.at = far)
      /\ UNCHANGED <<pos, seen, lastTs, requests, far>>
      BY DEF Clears, Reset
<1>3. ServerInv' /\ Len(log') = Len(log) /\ Replay' = Replay /\ Time' = Time /\ log' = log
      BY <1>1, ServerStays
<1>4. RequestsRight' /\ PollsRight'
      BY <1>1, <1>2, RequestsStay, PollsStay
<1>5. /\ far \in Nat /\ far <= Len(log) /\ missed \in Nat /\ upto \in Nat
      BY <1>1 DEF Parts, StreamTyped
<1>6. /\ upto' = 0 /\ missed' \in Nat /\ missed' <= Len(log) /\ missed' >= far
      BY <1>1, <1>2, <1>5, MissesMore DEF Parts
<1>7. base \in Nat /\ base = PaidIn(log, p.answer.at)
      BY <1>1, <1>2, PaidInIsNat DEF Parts, PollsRight, PollRight
<1>8. /\ lastTs \in Nat /\ lastTs <= Time /\ Time \in Nat \ {0}
      /\ cut # None => cut.ts \in Nat /\ cut.ts <= Time /\ (lastTs = 0 \/ cut.ts <= lastTs)
      BY <1>1, LogIs DEF Parts, ShownTyped, CutRight, Cuts
<1>9. ts \in Nat /\ ts <= Time /\ (lastTs = 0 \/ ts <= lastTs) /\ (cut # None => cut.ts <= ts)
      BY <1>8
<1> HIDE DEF ts, base
<1>10. cut' \in Cuts /\ cut'.ts = ts /\ cut'.base = base
      BY <1>2, <1>7, <1>9 DEF Cuts
<1>11. cut' # None
      BY <1>10, NoneAssumption DEF Cuts
<1>12. stats' \in [data : Nat, at : Nat] /\ stats'.at = 0 /\ stats'.data = base
      BY <1>2, <1>7
<1>13. Buffered' = {}
  <2>1. DOMAIN <<>> = {}
        OBVIOUS
  <2>2. QED
        BY <1>2, <2>1 DEF Buffered
<1>14. StreamTyped'
  <2>1. <<>> \in Seq(Nat)
        OBVIOUS
  <2>2. QED
        BY <1>1, <1>2, <1>3, <1>6, <1>13, <2>1 DEF Parts, StreamTyped
<1>15. ShownTyped'
      BY <1>2, <1>8, <1>10, <1>12 DEF ShownTyped
<1>16. CutRight'
      BY <1>2, <1>3, <1>8, <1>9, <1>10, <1>13 DEF CutRight
<1>17. Delivered'
  <2>1. PICK m \in 0..pos : DeliveredFrom(m)
        BY <1>1 DEF Parts, Delivered
  <2>2. \A j \in (m + 1)..far : Hidden(j) => Hidden(j)'
    <3>1. ASSUME NEW j \in (m + 1)..far, Hidden(j) PROVE Hidden(j)'
      <4>1. log[j].ts \in Nat
        <5>1. j \in 1..Len(log)
              BY <1>1, <1>5, <2>1 DEF Parts, StreamTyped
        <5>2. QED
              BY <1>1, <5>1, LogIs DEF Parts
      <4>2. cut # None /\ log[j].ts <= cut.ts
            BY <3>1 DEF Hidden
      <4>3. log[j].ts <= ts
            BY <1>8, <1>9, <4>1, <4>2
      <4>4. QED
            BY <1>3, <1>10, <1>11, <4>3 DEF Hidden
    <3>2. QED
          BY <3>1
  <2>3. DeliveredFrom(m)'
        BY <1>2, <1>3, <2>1, <2>2 DEF DeliveredFrom
  <2>4. QED
        BY <1>2, <2>1, <2>3 DEF Delivered
<1>18. CountRight'
  <2>1. CountsIn(log, <<>>) = 0
        BY CountsInNone
  <2>2. even' => base = PaidIn(log, far)
        BY <1>2, <1>7
  <2>3. QED
        BY <1>2, <1>3, <1>7, <1>10, <1>12, <2>1, <2>2 DEF CountRight
<1>19. ChangesCovered' /\ PaymentsCovered'
  <2>1. \A j \in 1..far' : Passed(j)'
        BY <1>2, <1>5, <1>6 DEF Passed
  <2>2. QED
        BY <2>1 DEF ChangesCovered, PaymentsCovered
<1>20. AnswersShown' /\ ViewRight'
      BY <1>2, <1>6 DEF AnswersShown, ViewRight
<1>21. OpeningFirst'
      BY <1>2, <1>5, <1>6, <1>13 DEF OpeningFirst
<1>22. QED
      BY <1>3, <1>4, <1>14, <1>15, <1>16, <1>17, <1>18, <1>19, <1>20, <1>21 DEF FeedInv

LEMMA StartsOverKeeps ==
    ASSUME FeedInv, NEW kept \in SUBSET requests, StartsOver(kept),
           polls' \subseteq polls,
           \/ cut' = None /\ lastTs' = lastTs
           \/ cut' = cut /\ lastTs' = 0
    PROVE  FeedInv'
<1> DEFINE q == [kind |-> "list", asked |-> Replay, answer |-> None]
<1>1. Parts /\ Stays
      BY PartsOf DEF StartsOver, Stays
<1>2. /\ pos' = Replay /\ far' = Replay /\ seen' = {} /\ buffer' = <<>>
      /\ view' = None /\ local' = 0 /\ stats' = None /\ requests' = kept \cup {q}
      /\ upto' = 0 /\ missed' = Replay /\ even' = FALSE
      BY DEF StartsOver
<1>3. ServerInv' /\ Len(log') = Len(log) /\ Replay' = Replay /\ Time' = Time /\ log' = log
      BY <1>1, ServerStays
<1>4. Replay \in Nat /\ Replay <= Len(log) /\ Len(log) \in Nat
      BY <1>1 DEF Parts
<1>5. RequestRight(q)
  <2>1. DOMAIN q = {"kind", "asked", "answer"} /\ q.kind = "list" /\ q.asked = Replay
        /\ q.answer = None
        OBVIOUS
  <2> HIDE DEF q
  <2>2. QED
        BY <1>4, <2>1 DEF RequestRight
<1> HIDE DEF q
<1>6. RequestsRight' /\ PollsRight'
      BY <1>1, <1>2, <1>5, RequestsStay, PollsStay
<1>7. Buffered' = {}
  <2>1. DOMAIN <<>> = {}
        OBVIOUS
  <2>2. QED
        BY <1>2, <2>1 DEF Buffered
<1>8. StreamTyped'
  <2>1. <<>> \in Seq(Nat)
        OBVIOUS
  <2>2. QED
        BY <1>2, <1>3, <1>4, <1>7, <2>1 DEF StreamTyped
<1>9. /\ lastTs \in Nat /\ lastTs <= Time /\ Time \in Nat \ {0}
      /\ cut = None \/ cut \in Cuts
      /\ cut # None => cut.ts <= Time
      BY <1>1, LogIs DEF Parts, ShownTyped, CutRight
<1>10. ShownTyped'
      BY <1>2, <1>9 DEF ShownTyped
<1>11. CutRight'
      BY <1>2, <1>3, <1>7, <1>9 DEF CutRight
<1>12. Delivered'
  <2>1. Replay \in 0..Replay /\ (Replay + 1)..Replay = {} /\ Replay <= Replay
        BY <1>4
  <2>2. QED
        BY <1>2, <1>3, <2>1 DEF Delivered, DeliveredFrom
<1>13. CountRight' /\ AnswersShown' /\ ViewRight'
      BY <1>2 DEF CountRight, AnswersShown, ViewRight
<1>14. ChangesCovered' /\ PaymentsCovered'
  <2>1. \A j \in 1..far' : Passed(j)'
        BY <1>2, <1>4 DEF Passed
  <2>2. QED
        BY <2>1 DEF ChangesCovered, PaymentsCovered
<1>15. OpeningFirst'
      BY <1>2, <1>7 DEF OpeningFirst
<1>16. QED
      BY <1>3, <1>6, <1>8, <1>10, <1>11, <1>12, <1>13, <1>14, <1>15 DEF FeedInv

LEMMA ShowsAllKeeps ==
    ASSUME FeedInv, ShowsAll
    PROVE  FeedInv'
<1>1. StartsOver(Asked("refresh")) /\ cut' = None /\ lastTs' = lastTs /\ polls' \subseteq polls
      BY DEF ShowsAll
<1>2. Asked("refresh") \in SUBSET requests
      BY DEF Asked
<1>3. QED
      BY <1>1, <1>2, StartsOverKeeps

LEMMA ReloadsKeeps ==
    ASSUME FeedInv, Reloads
    PROVE  FeedInv'
<1>1. StartsOver({}) /\ cut' = cut /\ lastTs' = 0 /\ polls' = {}
      BY DEF Reloads
<1>2. {} \in SUBSET requests
      OBVIOUS
<1>3. QED
      BY <1>1, <1>2, StartsOverKeeps

-----------------------------------------------------------------------------
(* The account looked at.                                                   *)

Looked == [epoch : Nat, addr : Addresses]

(* An answer is of an account looked at by now; what is shown of one is its
   own, and what was read of the one looked at is shown.                    *)
LookingInv ==
    /\ watched \in Looked
    /\ \A r \in reads : r.key \in Looked /\ r.key.epoch <= watched.epoch
                        /\ DOMAIN r = {"key", "at"}
    /\ accountRead.status # "loading" =>
          accountRead.key \in Looked /\ accountRead.key.epoch <= watched.epoch
    /\ AccountIsChosen

LEMMA LookingBegins == ConsoleInit => LookingInv
<1> SUFFICES ASSUME ConsoleInit PROVE LookingInv
    OBVIOUS
<1>1. watched \in Looked /\ reads = {} /\ account = None /\ accountRead.status = "loading"
      BY DEF ConsoleInit, Looked
<1>2. accountRead # [key |-> watched, status |-> "found"]
      /\ accountRead # [key |-> watched, status |-> "missing"]
      BY <1>1
<1>3. QED
      BY <1>1, <1>2 DEF LookingInv, AccountIsChosen

(* Of a read that is answered while its account is looked at.               *)
LEMMA ReadEndsRight ==
    ASSUME LookingInv, NEW r \in reads, NEW acc, NEW read, ReadEnds(r, acc, read),
           acc \in {None, watched.addr},
           \/ read.status = "loading" \/ read = accountRead
           \/ read.key \in Looked /\ read.key.epoch <= watched.epoch,
           read = [key |-> watched, status |-> "found"] => acc = watched.addr,
           read = [key |-> watched, status |-> "missing"] => acc = None
    PROVE  LookingInv'
  BY DEF LookingInv, ReadEnds, AccountIsChosen

LEMMA FailureIs ==
    ASSUME LookingInv, NEW r \in reads
    PROVE  /\ \/ Failure(r) = accountRead
              \/ Failure(r).key \in Looked /\ Failure(r).key.epoch <= watched.epoch
           /\ \A status \in {"found", "missing"} :
                 Failure(r) = [key |-> watched, status |-> status]
                    => accountRead = [key |-> watched, status |-> status]
<1>1. CASE accountRead = Status(r, "found")
      BY <1>1 DEF Failure
<1>2. CASE accountRead # Status(r, "found")
  <2>1. Failure(r) = [key |-> r.key, status |-> "error"]
        BY <1>2 DEF Failure, Status
  <2>2. \A status \in {"found", "missing"} :
           [key |-> r.key, status |-> "error"] # [key |-> watched, status |-> status]
    <3> TAKE status \in {"found", "missing"}
    <3> DEFINE a == [key |-> r.key, status |-> "error"]
               b == [key |-> watched, status |-> status]
    <3>1. a.status = "error" /\ b.status # "error"
          OBVIOUS
    <3>2. QED
          BY <3>1
  <2>3. Failure(r).key = r.key
        BY <2>1
  <2>4. QED
        BY <2>1, <2>2, <2>3 DEF LookingInv
<1>3. QED
      BY <1>1, <1>2

LEMMA LookingKeeps ==
    ASSUME LookingInv, AccountNext
    PROVE  LookingInv'
<1>1. /\ watched \in Looked /\ watched.epoch \in Nat /\ watched.addr \in Addresses
      BY DEF LookingInv, Looked
<1>2. CASE \E addr \in Addresses : Looks(addr)
  <2>1. PICK addr \in Addresses : /\ watched' = [epoch |-> watched.epoch + 1, addr |-> addr]
                                  /\ account' = None /\ UNCHANGED <<accountRead, reads>>
        BY <1>2 DEF Looks
  <2>2. watched' \in Looked /\ watched'.epoch = watched.epoch + 1
        BY <1>1, <2>1 DEF Looked
  <2>3. \A e \in Looked : e.epoch \in Nat
        BY DEF Looked
  <2>4. \A status \in {"found", "missing"} :
           accountRead # [key |-> watched', status |-> status]
    <3> SUFFICES ASSUME NEW status \in {"found", "missing"},
                        accountRead = [key |-> watched', status |-> status]
                 PROVE  FALSE
        OBVIOUS
    <3>1. accountRead.key = watched' /\ accountRead.status # "loading"
          OBVIOUS
    <3>2. accountRead.key.epoch <= watched.epoch
          BY <3>1 DEF LookingInv
    <3>3. QED
          BY <1>1, <2>2, <3>1, <3>2
  <2>5. \A r \in reads : r.key.epoch <= watched'.epoch
        BY <1>1, <2>2, <2>3 DEF LookingInv
  <2>6. accountRead.status # "loading" => accountRead.key.epoch <= watched'.epoch
        BY <1>1, <2>2, <2>3 DEF LookingInv
  <2>7. QED
        BY <2>1, <2>2, <2>4, <2>5, <2>6 DEF LookingInv, AccountIsChosen
<1>3. CASE AccountAsked
  <2>1. reads' = reads \cup {[key |-> watched, at |-> "asked"]}
        /\ UNCHANGED <<watched, account, accountRead>>
        BY <1>3 DEF AccountAsked
  <2>2. \A r \in reads' : r.key \in Looked /\ r.key.epoch <= watched.epoch
                          /\ DOMAIN r = {"key", "at"}
        BY <1>1, <2>1 DEF LookingInv
  <2>3. QED
        BY <2>1, <2>2 DEF LookingInv, AccountIsChosen
<1>4. ASSUME NEW r \in reads,
             ReadStopped(r) \/ AccountMissing(r) \/ ReadFails(r)
             \/ HeadersArrive(r) \/ BodyArrives(r) \/ BodyBreaks(r)
      PROVE  LookingInv'
  <2>1. /\ account \in {None, watched.addr}
        /\ accountRead = [key |-> watched, status |-> "found"] => account = watched.addr
        /\ accountRead = [key |-> watched, status |-> "missing"] => account = None
        /\ r.key \in Looked /\ r.key.epoch <= watched.epoch /\ DOMAIN r = {"key", "at"}
        BY DEF LookingInv, AccountIsChosen
  <2>2. ASSUME NEW status \in {"found", "missing"}
        PROVE  /\ Status(r, status).key = r.key
               /\ \A s : Status(r, status) = [key |-> watched, status |-> s] => s = status
    <3> DEFINE a == [key |-> r.key, status |-> status]
    <3>1. a.key = r.key /\ a.status = status
          OBVIOUS
    <3>2. \A s : a = [key |-> watched, status |-> s] => a.status = s
          OBVIOUS
    <3>3. QED
          BY <3>1, <3>2 DEF Status
  <2>3. CASE ReadStopped(r)
        BY <2>1, <2>3, ReadEndsRight DEF ReadStopped
  <2>4. CASE AccountMissing(r)
    <3>1. ReadEnds(r, None, Status(r, "missing"))
          BY <2>4 DEF AccountMissing
    <3>2. Status(r, "missing") # [key |-> watched, status |-> "found"]
          BY <2>2
    <3>3. Status(r, "missing").key = r.key
          BY <2>2
    <3>4. QED
          BY <2>1, <3>1, <3>2, <3>3, ReadEndsRight
  <2>5. CASE ReadFails(r) \/ BodyBreaks(r)
    <3>1. ReadEnds(r, account, Failure(r))
          BY <2>5 DEF ReadFails, BodyBreaks
    <3>2. QED
          BY <2>1, <3>1, FailureIs, ReadEndsRight
  <2>6. CASE HeadersArrive(r)
    <3>1. reads' = (reads \ {r}) \cup {[r EXCEPT !.at = "body"]}
          /\ UNCHANGED <<watched, account, accountRead>>
          BY <2>6 DEF HeadersArrive
    <3>2. [r EXCEPT !.at = "body"].key = r.key /\ DOMAIN [r EXCEPT !.at = "body"] = {"key", "at"}
          BY <2>1
    <3>3. \A x \in reads' : x.key \in Looked /\ x.key.epoch <= watched.epoch
                            /\ DOMAIN x = {"key", "at"}
          BY <2>1, <3>1, <3>2 DEF LookingInv
    <3>4. QED
          BY <3>1, <3>3 DEF LookingInv, AccountIsChosen
  <2>7. CASE BodyArrives(r)
    <3>1. ReadEnds(r, r.key.addr, Status(r, "found")) /\ r.key = watched
          BY <2>7 DEF BodyArrives, Stopped
    <3>2. Status(r, "found") # [key |-> watched, status |-> "missing"]
          BY <2>2
    <3>3. Status(r, "found").key = r.key
          BY <2>2
    <3>4. QED
          BY <2>1, <3>1, <3>2, <3>3, ReadEndsRight
  <2>8. QED
        BY <1>4, <2>3, <2>4, <2>5, <2>6, <2>7
<1>5. QED
      BY <1>2, <1>3, <1>4 DEF AccountNext

-----------------------------------------------------------------------------
ConsoleInv == FeedInv /\ LookingInv

LEMMA ConsoleSteps ==
    ASSUME ConsoleInv, [ConsoleNext]_consoleVars
    PROVE  ConsoleInv'
<1>1. FeedInv /\ LookingInv
      BY DEF ConsoleInv
<1>2. ASSUME FeedNext PROVE ConsoleInv'
  <2>1. ASSUME FeedInv', UNCHANGED accountVars PROVE ConsoleInv'
        BY <1>1, <2>1 DEF ConsoleInv, LookingInv, AccountIsChosen, accountVars
  <2>2. CASE ServerNext
    <3>1. ServerInv' /\ Grows
          BY <1>1, <2>2, ServerSteps DEF FeedInv
    <3>2. FeedInv' /\ UNCHANGED accountVars
          BY <1>1, <3>1, GrowingKeeps DEF Grows
    <3>3. QED
          BY <2>1, <3>2
  <2>3. CASE Pushes \/ Flushes \/ Reconnects \/ Reloads \/ ShowsAll
    <3>1. FeedInv'
          BY <1>1, <2>3, PushesKeeps, FlushesKeeps, ReconnectsKeeps, ReloadsKeeps, ShowsAllKeeps
    <3>2. UNCHANGED accountVars
          BY <2>3 DEF Pushes, Flushes, Reconnects, Reloads, ShowsAll
    <3>3. QED
          BY <2>1, <3>1, <3>2
  <2>4. CASE \E r \in requests : RequestAnswered(r) \/ AnswerApplied(r) \/ RequestLost(r)
    <3>1. FeedInv'
          BY <1>1, <2>4, RequestAnsweredKeeps, AnswerAppliedKeeps, RequestLostKeeps
    <3>2. UNCHANGED accountVars
          BY <2>4 DEF RequestAnswered, AnswerApplied, RequestLost
    <3>3. QED
          BY <2>1, <3>1, <3>2
  <2>5. CASE \/ \E by \in {"poll", "clear"} : StatsAsked(by)
             \/ \E p \in polls : StatsAnswered(p) \/ StatsLost(p)
    <3>1. FeedInv'
          BY <1>1, <2>5, StatsKeep
    <3>2. UNCHANGED accountVars
          BY <2>5 DEF StatsAsked, StatsAnswered, StatsLost
    <3>3. QED
          BY <2>1, <3>1, <3>2
  <2>6. CASE \E p \in polls : StatsApplied(p) \/ Clears(p)
    <3>1. FeedInv'
          BY <1>1, <2>6, StatsAppliedKeeps, ClearsKeeps
    <3>2. UNCHANGED accountVars
          BY <2>6 DEF StatsApplied, Clears
    <3>3. QED
          BY <2>1, <3>1, <3>2
  <2>7. QED
        BY <1>2, <2>2, <2>3, <2>4, <2>5, <2>6, Zenon DEF FeedNext, ServerNext
<1>3. ASSUME UNCHANGED <<server, log, feedVars>> PROVE FeedInv'
  <2>1. Stays /\ UNCHANGED <<pos, seen, buffer, cut, requested, view, local, lastTs, stats,
                             requests, far, upto, missed, even>>
        /\ UNCHANGED polls
        BY <1>3 DEF Stays, feedVars
  <2>2. \A p \in polls' : p \in polls
        BY <2>1
  <2>3. QED
        BY <1>1, <2>1, <2>2, PollsKeep
<1>4. ASSUME AccountNext PROVE ConsoleInv'
  <2>1. UNCHANGED <<server, log, feedVars>>
        BY <1>4 DEF AccountNext, Looks, AccountAsked, ReadStopped, AccountMissing, ReadFails,
                    HeadersArrive, BodyArrives, BodyBreaks, ReadEnds
  <2>2. QED
        BY <1>1, <1>3, <1>4, <2>1, LookingKeeps DEF ConsoleInv
<1>5. ASSUME UNCHANGED consoleVars PROVE ConsoleInv'
  <2>1. UNCHANGED <<server, log, feedVars>> /\ UNCHANGED accountVars
        BY <1>5 DEF consoleVars
  <2>2. LookingInv'
        BY <1>1, <2>1 DEF LookingInv, AccountIsChosen, accountVars
  <2>3. QED
        BY <1>3, <2>1, <2>2 DEF ConsoleInv
<1>6. QED
      BY <1>2, <1>4, <1>5 DEF ConsoleNext

(* The last payment among the events is the number of them.                 *)
LEMMA AllPaid ==
    ASSUME NEW list, Told(list), NEW n \in Nat, n <= Len(list), PaidIn(list, n) # 0
    PROVE  \E m \in 1..n : list[m].type = "accepted" /\ list[m].amount = PaidIn(list, n)
<1> DEFINE A == {i \in 1..n : list[i].type = "accepted"}
<1>1. A \in SUBSET Nat /\ A \subseteq 1..n
      OBVIOUS
<1>2. IsFiniteSet(A)
  <2> HIDE DEF A
  <2>1. QED
        BY <1>1, OfInterval
<1>3. A # {}
  <2>1. Cardinality(A) # 0
        BY DEF PaidIn
  <2> HIDE DEF A
  <2>2. QED
        BY <2>1, FS_EmptySet
<1> DEFINE m == Max(A)
<1>4. m \in A /\ \A y \in A : m >= y
  <2> HIDE DEF A
  <2>1. QED
        BY <1>1, <1>2, <1>3, LatestIsIn
<1> HIDE DEF m
<1>5. m \in 1..n /\ list[m].type = "accepted"
      BY <1>4
<1>6. A = {i \in 1..m : list[i].type = "accepted"}
      BY <1>4, <1>5
<1>7. PaidIn(list, m) = PaidIn(list, n)
      BY <1>6 DEF PaidIn
<1>8. m \in DOMAIN list
  <2>1. list \in Seq(Emitted)
        BY DEF Told
  <2>2. DOMAIN list = 1..Len(list) /\ Len(list) \in Nat
        BY <2>1
  <2>3. QED
        BY <1>5, <2>2
<1>9. list[m].amount = PaidIn(list, m)
      BY <1>5, <1>8 DEF Told
<1>10. QED
      BY <1>5, <1>7, <1>9

LEMMA ViewIsServer ==
    ASSUME FeedInv
    PROVE  ViewAgrees
<1> SUFFICES ASSUME pos = Len(log), buffer = <<>>, requests = {}, view # None, upto >= missed
             PROVE  view = server
    BY DEF ViewAgrees, Quiet
<1> DEFINE l == Len(log)
           x == Max2(upto, 1)
<1>1. Parts
      BY PartsOf
<1>2. /\ far \in Nat /\ pos <= far /\ far <= l /\ l \in Nat /\ upto \in Nat /\ missed \in Nat
      /\ upto <= l /\ missed <= l /\ Told(log)
      BY <1>1 DEF Parts, StreamTyped
<1>3. far = l
      BY <1>2
<1>4. Buffered = {}
  <2>1. DOMAIN <<>> = {}
        OBVIOUS
  <2>2. QED
        BY <2>1 DEF Buffered
<1>5. /\ view \in Channel /\ view.accepted <= PaidIn(log, l) /\ log # <<>>
      BY <1>1 DEF Parts, ShownTyped
<1>6. l >= 1
  <2>1. log \in Seq(Emitted)
        BY <1>2 DEF Told
  <2>2. QED
        BY <1>5, <2>1
<1>7. x \in Nat /\ x >= 1 /\ x >= upto /\ x <= l
      BY <1>2, <1>6 DEF Max2
<1>8. server \in Channel /\ server.accepted = PaidIn(log, l) /\ Follows(log, server, l)
      BY <1>1, <1>5 DEF Parts, ServerInv, ServerRight
<1>9. ~Refreshing
      BY DEF Refreshing
<1>10. ~ChangeDue
  <2>1. \A j \in 1..Len(log) : ~(j > far)
        BY <1>2, <1>3
  <2>2. QED
        BY <1>4, <2>1 DEF ChangeDue
<1>11. Follows(log, view, x)
       BY <1>1, <1>9, <1>10 DEF Parts, ViewRight
<1>12. \A j \in (x + 1)..l : log[j].type \notin Opening \cup Changing
  <2> TAKE j \in (x + 1)..l
  <2>1. j \in 1..far /\ j # 1 /\ ~(j <= upto) /\ ~(j <= missed) /\ j \in 1..Len(log)
        BY <1>2, <1>3, <1>7
  <2>2. log[j].type \notin Changing
        BY <1>1, <1>4, <2>1 DEF Parts, ChangesCovered, Passed
  <2>3. log[j].type # "opened"
        BY <1>2, <2>1, LogIs
  <2>4. QED
        BY <2>2, <2>3 DEF Opening, Changing
<1>13. view.deposit = server.deposit /\ view.claimed = server.claimed /\ view.open = server.open
  <2> HIDE DEF l, x
  <2>1. Follows(log, view, l)
        BY <1>2, <1>7, <1>11, <1>12, FollowsFurther
  <2>2. QED
        BY <1>2, <1>8, <2>1, FollowsOnce
<1>14. view.accepted = PaidIn(log, l)
  <2>1. PaidIn(log, l) \in Nat /\ PaidIn(log, upto) \in Nat /\ view.accepted \in Nat
    <3> HIDE DEF l
    <3>1. QED
          BY <1>2, <1>5, PaidInIsNat DEF Channel
  <2>2. CASE PaidIn(log, l) = 0
        BY <1>5, <2>1, <2>2
  <2>3. CASE PaidIn(log, l) # 0
    <3>1. PICK m \in 1..l : log[m].type = "accepted" /\ log[m].amount = PaidIn(log, l)
          BY <1>2, <2>3, AllPaid
    <3>2. Passed(m) \/ view.accepted >= log[m].amount
          BY <1>1, <1>3, <1>4, <3>1 DEF Parts, PaymentsCovered
    <3>3. CASE Passed(m)
      <4>1. m \in Nat /\ m <= upto /\ upto > 0
            BY <1>2, <3>1, <3>3 DEF Passed
      <4>2. log[m].amount = PaidIn(log, m)
            BY <1>2, <3>1, LogIs
      <4>3. PaidIn(log, m) <= PaidIn(log, upto)
            BY <1>2, <4>1, PaidInGrows
      <4>4. view.accepted >= PaidIn(log, upto)
            BY <1>1, <4>1 DEF Parts, AnswersShown
      <4>5. QED
            BY <1>5, <2>1, <3>1, <4>2, <4>3, <4>4
    <3>4. QED
          BY <1>5, <2>1, <3>1, <3>2, <3>3
  <2>4. QED
        BY <2>2, <2>3
<1>15. QED
       BY <1>5, <1>8, <1>13, <1>14 DEF Channel

LEMMA CountersAdd ==
    ASSUME FeedInv
    PROVE  CountersAreRight
<1> SUFFICES ASSUME stats # None, even, buffer = <<>>
             PROVE  Total = Payments(far) - (IF cut = None THEN 0 ELSE cut.base)
    BY DEF CountersAreRight
<1> DEFINE b == IF cut = None THEN 0 ELSE cut.base
<1>1. Parts
      BY PartsOf
<1>2. stats.data \in Nat /\ stats.at \in Nat /\ stats.at <= local /\ local \in Nat /\ b \in Nat
      BY <1>1 DEF Parts, ShownTyped, Cuts
<1>3. CountsIn(log, <<>>) = 0
      BY CountsInNone
<1>4. /\ stats.data >= b
      /\ stats.data + (local - stats.at) + 0 = PaidIn(log, far)
      BY <1>1, <1>2, <1>3 DEF Parts, CountRight
<1>5. Payments(far) = PaidIn(log, far)
      BY DEF Payments, PaidIn
<1>6. Total = Max2(0, stats.data - b) + Max2(0, local - stats.at)
      BY DEF Total
<1> HIDE DEF b
<1>7. Max2(0, stats.data - b) = stats.data - b /\ Max2(0, local - stats.at) = local - stats.at
      BY <1>2, <1>4 DEF Max2
<1>8. Total = Payments(far) - b
      BY <1>2, <1>4, <1>5, <1>6, <1>7
<1>9. QED
      BY <1>8 DEF b

(* When all is delivered, the channel shown is the server's; the counters add
   up to the payments flushed; and the account shown is the one looked at -
   however the answers come in, with every replay, cut and reload
   (useFeed.ts, store.ts).                                                  *)
THEOREM ShownAlwaysTrue == ConsoleSpec => []ShownIsTrue
<1>1. ConsoleInit => ConsoleInv
      BY FeedBegins, LookingBegins DEF ConsoleInv
<1>2. ConsoleInv /\ [ConsoleNext]_consoleVars => ConsoleInv'
      BY ConsoleSteps
<1>3. ConsoleInv => ShownIsTrue
      BY ViewIsServer, CountersAdd DEF ConsoleInv, LookingInv, ShownIsTrue
<1>4. QED
      BY <1>1, <1>2, <1>3, PTL DEF ConsoleSpec
=============================================================================
