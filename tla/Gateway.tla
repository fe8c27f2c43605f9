-------------------------------- MODULE Gateway --------------------------------
(***************************************************************************)
(* One paid request: the buyer's client (x402Fetch and streamPaid of       *)
(* packages/sdk, x402.ts), the middleware before a seller's handler        *)
(* (packages/meter, meter.ts, which reaches the facilitator over HTTP; its *)
(* twin backend/src/x402/meter.ts calls the verifier in process), and the  *)
(* facilitator's POST /verify and /settle.                                 *)
(*                                                                         *)
(* All channel payments come from one ChannelSigner.  A body is the        *)
(* sequence of the pieces the handler writes, its hash is that sequence.   *)
(* What /verify checks of a voucher beyond its total is in Facilitator.    *)
(***************************************************************************)
EXTENDS Integers, Sequences, FiniteSets, Functions

CONSTANTS
    Requests,       \* requests, of any client
    Demo,           \* those to the facilitator's own resources, metered in process
    Sliced,         \* those to a resource sold by the token or the second
    UnitPrice,      \* of every resource
    SliceUnits,     \* units in a slice
    ChannelDeposit,
    MaxPieces,      \* pieces of one body
    MaxLost,        \* calls of the facilitator that get no answer
    NoCode

(* What a request may be answered with.                                     *)
Codes == {"PAYMENT_REQUIRED", "PAYMENT_MALFORMED", "VOUCHER_NOT_INCREASING",
          "VOUCHER_UNDERPAID", "CHANNEL_EXHAUSTED", "ACCOUNT_FROZEN", "CHAIN_UNAVAILABLE",
          "RATE_LIMITED", "FACILITATOR_UNAVAILABLE", "INTERNAL"}

ASSUME GatewayAssumption ==
    /\ Demo \subseteq Requests /\ Sliced \subseteq Requests
    /\ {UnitPrice, SliceUnits} \subseteq Nat \ {0}
    /\ {ChannelDeposit, MaxPieces, MaxLost} \subseteq Nat
    /\ NoCode \notin Codes

VARIABLES
    kit,        \* reinkey(): [at, exact]: how far it is, whether exact is offered
    exactOn,    \* whether the facilitator has the scheme exact
    signedTotal,     \* ChannelSigner.cumulative
    accepted,   \* lastAccepted of the channel
    request     \* by request: [at, client, header, code, pieces, seen]

VARIABLES       \* ghosts
    payments,   \* what was paid: [by, amount]
    attested,   \* by request: bodies attested to its receipt
    lost        \* requests one of whose calls got no answer

gatewayVars == <<kit, exactOn, signedTotal, accepted, request, payments, attested, lost>>

NoHeader == [scheme |-> "none", total |-> 0]

NewRequest == [at |-> "new", client |-> "none", header |-> NoHeader, code |-> NoCode,
               pieces |-> <<>>, seen |-> <<>>]

Proceeds(r, at) == request' = [request EXCEPT ![r].at = at]

(* What the payment of a request must be worth: the first slice.            *)
chargeFor(r) == IF r \in Sliced THEN UnitPrice * SliceUnits ELSE UnitPrice

(* The offer names the unit price and the slice; exact is offered where the
   facilitator has it.                                                      *)
Offer(r) == [amount  |-> UnitPrice, slice |-> IF r \in Sliced THEN SliceUnits ELSE 1,
             schemes |-> {"channel"} \cup (IF kit.exact THEN {"exact"} ELSE {})]

(* This facilitator's own resources: ExactVerifier is not enabled.          *)
DemoOffer(r) == [Offer(r) EXCEPT !.schemes = {"channel"}]

OfferOf(r) == IF r \in Demo THEN DemoOffer(r) ELSE Offer(r)

-----------------------------------------------------------------------------
(* reinkey() learns of /supported what it needs; where the contracts are not
   told there nor by its options, of /demo/info.                            *)

(* The kinds GET /supported tells of.                                       *)
Kinds == {"channel"} \cup (IF exactOn THEN {"exact"} ELSE {})

Supported ==
    /\ kit.at = "off"
    /\ \/ \E at \in {"ready", "asking"} : kit' = [at |-> at, exact |-> "exact" \in Kinds]
       \/ kit' = [kit EXCEPT !.at = "failed"]
    /\ UNCHANGED <<exactOn, signedTotal, accepted, request, payments, attested, lost>>

DemoInfo ==
    /\ kit.at = "asking"
    /\ \E at \in {"ready", "failed"} : kit' = [kit EXCEPT !.at = at]
    /\ UNCHANGED <<exactOn, signedTotal, accepted, request, payments, attested, lost>>

-----------------------------------------------------------------------------
(* The buyer's client.                                                      *)

(* The first request goes without a payment, or with one of a client that
   is not ours: garbled, or of the scheme exact.                            *)
Probes(r, client) ==
    /\ request[r].at = "new"
    /\ r \in Demo \/ kit.at = "ready"
    /\ request' = [request EXCEPT ![r].client = client, ![r].at = "arrived",
                       ![r].header.scheme = IF client \in {"x402Fetch", "streamPaid"} THEN "none"
                                            ELSE client]
    /\ UNCHANGED <<kit, exactOn, signedTotal, accepted, payments, attested, lost>>

(* x402Fetch pays req.amount, streamPaid as many units as the slice has.    *)
Asks(r) == OfferOf(r).amount * (IF request[r].client = "streamPaid" THEN OfferOf(r).slice ELSE 1)

(* ChannelSigner.next: the total grows with each voucher that is signed,
   also where it will be refused.                                           *)
Signs(amount) ==
    /\ signedTotal + amount <= ChannelDeposit
    /\ signedTotal' = signedTotal + amount

PaysNow(r) ==
    /\ request[r].at = "answered" /\ request[r].code = "PAYMENT_REQUIRED"
    /\ request[r].client \in {"x402Fetch", "streamPaid"}
    /\ Signs(Asks(r))
    /\ request' = [request EXCEPT ![r].at = "arrived", ![r].code = NoCode,
                                  ![r].header = [scheme |-> "channel", total |-> signedTotal']]
    /\ UNCHANGED <<kit, exactOn, accepted, payments, attested, lost>>

(* CHANNEL_EXHAUSTED: it signs nothing and gives up.                        *)
GivesUp(r) ==
    /\ request[r].at = "answered" /\ request[r].code = "PAYMENT_REQUIRED"
    /\ request[r].client \in {"x402Fetch", "streamPaid"}
    /\ signedTotal + Asks(r) > ChannelDeposit
    /\ request' = [request EXCEPT ![r].at = "over", ![r].code = "CHANNEL_EXHAUSTED"]
    /\ UNCHANGED <<kit, exactOn, signedTotal, accepted, payments, attested, lost>>

-----------------------------------------------------------------------------
(* The middleware.                                                          *)

AnswersWith(r, code) == request' = [request EXCEPT ![r].at = "answered", ![r].code = code]

(* Without a payment, or with one that cannot be decoded, the offers.       *)
Unpaid(r) ==
    /\ request[r].at = "arrived" /\ request[r].header.scheme \in {"none", "garbled"}
    /\ AnswersWith(r, IF request[r].header.scheme = "none" THEN "PAYMENT_REQUIRED"
                  ELSE "PAYMENT_MALFORMED")
    /\ UNCHANGED <<kit, exactOn, signedTotal, accepted, payments, attested, lost>>

Offered(r) == r \notin Demo /\ Unpaid(r)

DemoOffered(r) == r \in Demo /\ Unpaid(r)

(* The payment goes to the facilitator.                                     *)
AsksFacilitator(r) ==
    /\ request[r].at = "arrived" /\ request[r].header.scheme \in {"channel", "exact"}
    /\ r \notin Demo
    /\ IF request[r].header.scheme \notin Offer(r).schemes
       THEN AnswersWith(r, "PAYMENT_MALFORMED")
       ELSE Proceeds(r, "verify")
    /\ UNCHANGED <<kit, exactOn, signedTotal, accepted, payments, attested, lost>>

(* call(): no answer within timeoutMs, before the facilitator acted or after. *)
CallFails(r) ==
    /\ request[r].at \in {"verify", "verified", "settle", "settled"}
    /\ Cardinality(lost) < MaxLost
    /\ AnswersWith(r, "FACILITATOR_UNAVAILABLE")
    /\ lost' = lost \cup {r}
    /\ UNCHANGED <<kit, exactOn, signedTotal, accepted, payments, attested>>

(* Mutant: an exact payment is taken for made once it is verified.          *)
ReceiptComes_unsettled(r) ==
    /\ request[r].at = "verified"
    /\ Proceeds(r, "paid")
    /\ UNCHANGED <<kit, exactOn, signedTotal, accepted, payments, attested, lost>>

(* The answer is a receipt.  An exact payment is settled then.              *)
ReceiptComes(r) ==
    /\ request[r].at = "verified"
    /\ Proceeds(r, IF request[r].header.scheme = "exact" THEN "settle" ELSE "paid")
    /\ UNCHANGED <<kit, exactOn, signedTotal, accepted, payments, attested, lost>>

SettlementComes(r) ==
    /\ request[r].at = "settled"
    /\ Proceeds(r, "paid")
    /\ UNCHANGED <<kit, exactOn, signedTotal, accepted, payments, attested, lost>>

(* A refusal: with the offers where another payment may help (402, or
   PAYMENT_MALFORMED), as it is otherwise.                                  *)
RefusalComes(r) ==
    /\ request[r].at = "refused"
    /\ Proceeds(r, "answered")
    /\ UNCHANGED <<kit, exactOn, signedTotal, accepted, payments, attested, lost>>

(* attest: the body's hash goes to the receipt, nobody waits for it.        *)
Attests(r, body) == [attested EXCEPT ![r] = @ \cup {body}]

(* next(), once.                                                            *)
Handles(r) ==
    /\ request[r].at = "paid"
    /\ Proceeds(r, "serving")
    /\ UNCHANGED <<kit, exactOn, signedTotal, accepted, payments, attested, lost>>

(* The twin calls next() inside the try: what a handler throws at once is
   answered like a payment's error.                                         *)
DemoThrows(r) ==
    /\ r \in Demo /\ request[r].at = "serving" /\ request[r].pieces = <<>>
    /\ request' = [request EXCEPT ![r].at = "served", ![r].code = "INTERNAL",
                                  ![r].pieces = <<"text">>, ![r].seen = <<"text">>]
    /\ attested' = IF r \in Sliced THEN attested ELSE Attests(r, <<"text">>)
    /\ UNCHANGED <<kit, exactOn, signedTotal, accepted, payments, lost>>

-----------------------------------------------------------------------------
(* The handler's response.                                                  *)

(* push() copies a string or a Buffer; a bare Uint8Array is sent but not
   seen.                                                                    *)
Captured(seen, piece) == IF piece = "bytes" THEN seen ELSE Append(seen, piece)

Writes(r, piece) ==
    /\ request[r].at = "serving" /\ Len(request[r].pieces) < MaxPieces
    /\ request' = [request EXCEPT ![r].pieces = Append(@, piece),
                                  ![r].seen = Captured(@, piece)]
    /\ UNCHANGED <<kit, exactOn, signedTotal, accepted, payments, attested, lost>>

(* A channel receipt has an id; the body of a stream is no document.        *)
Finishes(r, piece) ==
    /\ request[r].at = "serving"
    /\ request' = [request EXCEPT ![r].at = "served", ![r].pieces = Append(@, piece),
                                  ![r].seen = Captured(@, piece)]
    /\ attested' = IF r \notin Sliced /\ request[r].header.scheme = "channel"
                   THEN Attests(r, request'[r].seen) ELSE attested
    /\ UNCHANGED <<kit, exactOn, signedTotal, accepted, payments, lost>>

-----------------------------------------------------------------------------
(* The facilitator.                                                         *)

(* What the verifier says of a voucher.                                     *)
TotalVerdict(r) ==
    LET total == request[r].header.total IN
    IF total <= accepted THEN "VOUCHER_NOT_INCREASING"
    ELSE IF total - accepted < chargeFor(r) THEN "VOUCHER_UNDERPAID"
    ELSE "ok"

Accepts(r) ==
    /\ accepted' = request[r].header.total
    /\ payments' = payments \cup {[by |-> r, amount |-> request[r].header.total - accepted]}

Refuses(r, code) ==
    /\ request' = [request EXCEPT ![r].at = "refused", ![r].code = code]
    /\ UNCHANGED <<accepted, payments>>

(* Reasons that do not depend on the total.                                 *)
OtherReasons == {"ACCOUNT_FROZEN", "CHAIN_UNAVAILABLE", "RATE_LIMITED"}

(* POST /verify: a voucher is accepted here, an exact payment looked at.    *)
FacilitatorVerifies(r) ==
    /\ request[r].at = "verify"
    /\ IF request[r].header.scheme = "exact"
       THEN \/ exactOn /\ Proceeds(r, "verified") /\ UNCHANGED <<accepted, payments>>
            \/ Refuses(r, "PAYMENT_MALFORMED")
       ELSE \/ TotalVerdict(r) = "ok" /\ Accepts(r) /\ Proceeds(r, "verified")
            \/ TotalVerdict(r) # "ok" /\ Refuses(r, TotalVerdict(r))
            \/ \E code \in OtherReasons : Refuses(r, code)
    /\ UNCHANGED <<kit, exactOn, signedTotal, attested, lost>>

(* POST /settle, where a facilitator has the scheme exact: the money moves. *)
FacilitatorSettles(r) ==
    /\ request[r].at = "settle"
    /\ \/ /\ payments' = payments \cup {[by |-> r, amount |-> chargeFor(r)]}
          /\ Proceeds(r, "settled")
          /\ UNCHANGED accepted
       \/ Refuses(r, "PAYMENT_MALFORMED")
    /\ UNCHANGED <<kit, exactOn, signedTotal, attested, lost>>

(* The twin asks the verifier itself, whose errors keep their status.       *)
DemoVerifies(r) ==
    /\ request[r].at = "arrived" /\ request[r].header.scheme \in {"channel", "exact"}
    /\ r \in Demo
    /\ IF request[r].header.scheme \notin DemoOffer(r).schemes
       THEN Refuses(r, "PAYMENT_MALFORMED")
       ELSE \/ TotalVerdict(r) = "ok" /\ Accepts(r) /\ Proceeds(r, "paid")
            \/ TotalVerdict(r) # "ok" /\ Refuses(r, TotalVerdict(r))
            \/ \E code \in OtherReasons : Refuses(r, code)
    /\ UNCHANGED <<kit, exactOn, signedTotal, attested, lost>>

-----------------------------------------------------------------------------
GatewayInit ==
    /\ kit = [at |-> "off", exact |-> FALSE]
    /\ exactOn \in BOOLEAN
    /\ signedTotal = 0 /\ accepted = 0
    /\ request = [r \in Requests |-> NewRequest]
    /\ payments = {} /\ lost = {}
    /\ attested = [r \in Requests |-> {}]

Clients == {"x402Fetch", "streamPaid", "garbled", "exact"}

Pieces == {"text", "bytes"}

GatewayNext ==
    \/ Supported \/ DemoInfo
    \/ \E r \in Requests :
          \/ \E client \in Clients : Probes(r, client)
          \/ PaysNow(r) \/ GivesUp(r)
          \/ Offered(r) \/ DemoOffered(r) \/ AsksFacilitator(r) \/ DemoVerifies(r)
          \/ ReceiptComes(r) \/ SettlementComes(r) \/ RefusalComes(r) \/ CallFails(r)
          \/ Handles(r) \/ DemoThrows(r)
          \/ \E piece \in Pieces : Writes(r, piece) \/ Finishes(r, piece)
          \/ FacilitatorVerifies(r) \/ FacilitatorSettles(r)

GatewaySpec == GatewayInit /\ [][GatewayNext]_gatewayVars

-----------------------------------------------------------------------------
(* Properties.                                                              *)

PaymentsOf(r) == {p \in payments : p.by = r}

(* A handler runs after its own payment, made once and worth the charge;
   money is taken for nothing only where a call of the facilitator was lost. *)
ServedForPayment ==
    \A r \in Requests :
        /\ Cardinality(PaymentsOf(r)) <= 1
        /\ request[r].at \in {"paid", "serving", "served"} =>
              \E p \in PaymentsOf(r) : p.amount >= chargeFor(r)
        /\ request[r].at \in {"refused", "answered", "over"} /\ PaymentsOf(r) # {} => r \in lost

SignedBetween(low, high) ==
    {r \in Requests : request[r].header.total > low /\ request[r].header.total <= high}

AskedBy == [r \in Requests |-> Asks(r)]

(* Who pays what the offer says is not told that it is too little, nor that
   his total is old unless a later voucher of his came first; and pays more
   only for vouchers that were refused or are under way: a voucher whose
   request failed is paid with the next.                                    *)
OfferIsEnough ==
    \A r \in Requests :
        /\ request[r].code = "VOUCHER_UNDERPAID" => r \in Sliced /\ request[r].client = "x402Fetch"
        /\ request[r].code = "VOUCHER_NOT_INCREASING" =>
              \E q \in Requests \ {r} : /\ request[q].header.total > request[r].header.total
                                       /\ PaymentsOf(q) # {}
        /\ request[r].header.scheme = "channel" =>
              \A p \in PaymentsOf(r) :
                  LET total == request[r].header.total IN
                  p.amount = SumFunctionOnSet(AskedBy, SignedBetween(total - p.amount, total))

(* What is attested to a receipt is the whole body of its own response, once
   (meter.ts:57), unless the handler writes bare bytes.                     *)
BodyIsAttested ==
    \A r \in Requests :
        /\ attested[r] # {} => request[r].at = "served" /\ PaymentsOf(r) # {}
        /\ request[r].at = "served" /\ r \notin Sliced /\ request[r].header.scheme = "channel"
              => /\ Cardinality(attested[r]) = 1
                 /\ (\A i \in DOMAIN request[r].pieces : request[r].pieces[i] # "bytes")
                       => attested[r] = {request[r].pieces}

(* A request is served for the payment it was offered for.                  *)
PaidAsOffered == ServedForPayment /\ OfferIsEnough /\ BodyIsAttested
=============================================================================
