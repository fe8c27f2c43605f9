------------------------------- MODULE PaidCalls -------------------------------
(***************************************************************************)
(* Paid calls of an assistant: the MCP server (packages/mcp: sessionFor,   *)
(* reinkey_call, reinkey_stream), the buyer's x402Fetch and ChannelSigner  *)
(* (packages/sdk), a seller behind the metering middleware (packages/meter)*)
(* and the facilitator's POST /verify.  The tools of one assistant run     *)
(* concurrently: every await below lets the others go on.                  *)
(*                                                                         *)
(* One seller.  A call first asks for the price, gets itself a session (a  *)
(* channel, opened by a transaction if need be), asks again, signs, and    *)
(* sends the voucher; the seller has it verified and serves the call.  The *)
(* slices of a stream after the first are those of PaidStreams; here a     *)
(* stream counts for what it does to the signer and to the totals.         *)
(***************************************************************************)
EXTENDS Integers, Sequences, FiniteSets, Functions

CONSTANTS
    Calls,          \* uses of reinkey_call, one each
    StreamCalls,    \* uses of reinkey_stream, one each
    Price,          \* req.amount, and the amount of a slice
    Seconds,        \* reinkey_stream: seconds, each a slice
    DEPOSIT,        \* REINKEY_SESSION_DEPOSIT
    SessionCalls,   \* the calls a deposit must be enough for (20)
    Budget,         \* what the account's policy still lets it spend
    Lossy           \* TRUE: requests and answers may get lost

ASSUME CallsAssumption ==
    /\ Calls \cap StreamCalls = {}
    /\ Price \in Nat \ {0} /\ Seconds \in Nat \ {0}
    /\ DEPOSIT \in Nat \ {0} /\ SessionCalls \in Nat \ {0} /\ Budget \in Nat
    /\ Seconds <= SessionCalls
    /\ Lossy \in BOOLEAN

VARIABLES
    channels,       \* the channels opened, each with its signer and its cached state
    session,        \* sessions.get(payee): the latest channel returned, 0 if none
    budget,         \* what is left of Budget
    call,           \* by use: where it is
    wire,           \* vouchers on their way from the seller to POST /verify
    totals          \* totals.paid and totals.payments

VARIABLES           \* ghosts
    sold,           \* by channel: the price of all it served
    overlapped      \* uses during which another one was running too

callsVars == <<channels, session, budget, call, wire, totals, sold, overlapped>>

Uses == Calls \cup StreamCalls

NoCall == [at |-> "idle", ch |-> 0, voucher |-> 0, before |-> 0, slices |-> 0]

Running(u) == call[u].at \notin {"idle", "served", "refused", "limit", "policy", "failed"}

Goes(u, at) == call' = [call EXCEPT ![u].at = at]

-----------------------------------------------------------------------------
(* The MCP server.                                                          *)

(* A tool is called: requirement() sends the request unpaid.                *)
ToolCalled(u) ==
    /\ call[u] = NoCall
    /\ Goes(u, "probing")
    /\ overlapped' = IF \E v \in Uses : Running(v)
                     THEN overlapped \cup {u} \cup {v \in Uses : Running(v)}
                     ELSE overlapped
    /\ UNCHANGED <<channels, session, budget, wire, totals, sold>>

(* What sessionFor() is asked to find room for.                             *)
Needed(u) == IF u \in StreamCalls THEN Price * Seconds ELSE Price

(* Mutant: any rest of the deposit will do.                                 *)
HasRoom_any(u, ch) == channels[ch].deposit - channels[ch].current > 0

(* existing.deposit - existing.signer.current >= price                      *)
HasRoom(u, ch) == channels[ch].deposit - channels[ch].current >= Needed(u)

(* The price is known: sessionFor() takes the open session or opens one.    *)
Probed(u) ==
    /\ call[u].at = "probing"
    /\ call' = IF session # 0 /\ HasRoom(u, session)
               THEN [call EXCEPT ![u].at = "asking", ![u].ch = session]
               ELSE [call EXCEPT ![u].at = "opening"]
    /\ UNCHANGED <<channels, session, budget, wire, totals, sold, overlapped>>

Deposit(u) ==
    IF Needed(u) * SessionCalls > DEPOSIT THEN Needed(u) * SessionCalls ELSE DEPOSIT

(* account.openChannel(): the account's policy lets the deposit pass.  The
   transaction is on chain before its sender learns of it.                  *)
ChannelOpens(u) ==
    /\ call[u].at = "opening"
    /\ Deposit(u) <= budget
    /\ budget' = budget - Deposit(u)
    /\ channels' = Append(channels, [deposit |-> Deposit(u), current |-> 0,
                                     accepted |-> 0, open |-> TRUE])
    /\ sold' = Append(sold, 0)
    /\ call' = [call EXCEPT ![u].at = "opened", ![u].ch = Len(channels) + 1]
    /\ UNCHANGED <<session, wire, totals, overlapped>>

(* The policy refuses the deposit.                                          *)
OpenRefused(u) ==
    /\ call[u].at = "opening"
    /\ Deposit(u) > budget
    /\ Goes(u, "policy")
    /\ UNCHANGED <<channels, session, budget, wire, totals, sold, overlapped>>

(* sessions.set(payee, s), whatever was there                               *)
SessionSet(u) ==
    /\ call[u].at = "opened"
    /\ session' = call[u].ch
    /\ Goes(u, "asking")
    /\ UNCHANGED <<channels, budget, wire, totals, sold, overlapped>>

-----------------------------------------------------------------------------
(* The buyer: x402Fetch, and streamPaid as far as its first slice.          *)

(* signer.next(amount)                                                      *)
Signed(ch, cumulative) == channels' = [channels EXCEPT ![ch].current = cumulative]

(* The second 402 is read, the voucher signed and sent with the request.    *)
SignsCall(u) ==
    LET ch == call[u].ch
        c == channels[ch].current + Price IN
    /\ call[u].at = "asking"
    /\ c <= channels[ch].deposit
    /\ Signed(ch, c)
    /\ call' = [call EXCEPT ![u].at = "paying", ![u].voucher = c,
                            ![u].before = channels[ch].current]
    /\ wire' = wire \cup {[use |-> u, ch |-> ch, cumulative |-> c]}
    /\ UNCHANGED <<session, budget, totals, sold, overlapped>>

(* The rest of the deposit is gone since sessionFor() looked: signer.at()
   throws VoucherLimitError.                                                *)
LimitReached(u) ==
    /\ call[u].at = "asking"
    /\ channels[call[u].ch].current + Price > channels[call[u].ch].deposit
    /\ Goes(u, "limit")
    /\ UNCHANGED <<channels, session, budget, wire, totals, sold, overlapped>>

(* payment-required of the stream: the voucher goes to the facilitator at
   once.  A total the signer has left behind is an exception, one beyond the
   deposit ends the stream.                                                 *)
SignsSlice(u) ==
    LET ch == call[u].ch
        c == channels[ch].accepted + Price IN
    /\ call[u].at = "streaming" /\ call[u].slices < Seconds
    /\ c \in channels[ch].current..channels[ch].deposit
    /\ channels[ch].open
    /\ channels' = [channels EXCEPT ![ch].current = c, ![ch].accepted = c]
    /\ sold' = [sold EXCEPT ![ch] = @ + Price]
    /\ call' = [call EXCEPT ![u].slices = @ + 1]
    /\ UNCHANGED <<session, budget, wire, totals, overlapped>>

(* Mutant: every slice counts as paid, the refused ones too.                *)
StreamEnds_whole(u) ==
    /\ call[u].at = "streaming"
    /\ Goes(u, "served")
    /\ totals' = [paid |-> totals.paid + Price * Seconds,
                  payments |-> totals.payments + call[u].slices]
    /\ UNCHANGED <<channels, session, budget, wire, sold, overlapped>>

(* The stream is over: stopped after its seconds, or ended on the way.      *)
StreamEnds(u) ==
    /\ call[u].at = "streaming"
    /\ Goes(u, "served")
    /\ totals' = [paid |-> totals.paid + channels[call[u].ch].current - call[u].before,
                  payments |-> totals.payments + call[u].slices]
    /\ UNCHANGED <<channels, session, budget, wire, sold, overlapped>>

(* An exception ends reinkey_stream without its totals: the connection fails,
   or a payment-required asks for less than was signed meanwhile.           *)
StreamThrows(u) ==
    /\ call[u].at = "streaming"
    /\ Lossy \/ channels[call[u].ch].accepted + Price < channels[call[u].ch].current
    /\ Goes(u, "failed")
    /\ UNCHANGED <<channels, session, budget, wire, totals, sold, overlapped>>

-----------------------------------------------------------------------------
(* The facilitator: POST /verify, with ChannelVerifier.accept reduced to the
   channel's counters.                                                      *)

Verdict(ch, c) ==
    IF ~ch.open THEN "closed"
    ELSE IF c <= ch.accepted THEN "not increasing"
    ELSE IF c - ch.accepted < Price THEN "underpaid"
    ELSE IF c > ch.deposit THEN "exhausted"
    ELSE "ok"

(* The verdict reaches the middleware unless it has given up: the call is
   served, or the 402 goes back.                                            *)
Verified(w) ==
    LET ok == Verdict(channels[w.ch], w.cumulative) = "ok" IN
    /\ wire' = wire \ {w}
    /\ channels' = IF ok THEN [channels EXCEPT ![w.ch].accepted = w.cumulative] ELSE channels
    /\ IF call[w.use].at = "paying"
       THEN Goes(w.use, IF ok THEN "accepted" ELSE "refused")
       ELSE UNCHANGED call
    /\ UNCHANGED <<session, budget, totals, sold, overlapped>>

(* The request is lost, or the facilitator cannot read the chain (503).     *)
VerifyLost(w) ==
    /\ Lossy
    /\ wire' = wire \ {w}
    /\ UNCHANGED <<channels, session, budget, call, totals, sold, overlapped>>

(* The channel ends: closed on chain, or too close to its expiry.           *)
ChannelEnds(ch) ==
    /\ Lossy
    /\ channels[ch].open
    /\ channels' = [channels EXCEPT ![ch].open = FALSE]
    /\ UNCHANGED <<session, budget, call, wire, totals, sold, overlapped>>

-----------------------------------------------------------------------------
(* The seller: meter() calls next() once, after the verdict.                *)

(* Mutant: the handler does not wait for the verdict.                       *)
Serves_unverified(u) ==
    /\ call[u].at = "paying"
    /\ sold' = [sold EXCEPT ![call[u].ch] = @ + Price]
    /\ Goes(u, "answered")
    /\ UNCHANGED <<channels, session, budget, wire, totals, overlapped>>

(* A call is answered, a stream opens its session and delivers.             *)
Serves(u) ==
    /\ call[u].at = "accepted"
    /\ sold' = [sold EXCEPT ![call[u].ch] = @ + Price]
    /\ call' = IF u \in StreamCalls
               THEN [call EXCEPT ![u].at = "streaming", ![u].slices = 1]
               ELSE [call EXCEPT ![u].at = "answered"]
    /\ UNCHANGED <<channels, session, budget, wire, totals, overlapped>>

(* The answer arrives: totals of the conversation.                          *)
Returns(u) ==
    /\ call[u].at = "answered"
    /\ Goes(u, "served")
    /\ totals' = [paid |-> totals.paid + Price, payments |-> totals.payments + 1]
    /\ UNCHANGED <<channels, session, budget, wire, sold, overlapped>>

(* AbortSignal.timeout of the middleware (503 FACILITATOR_UNAVAILABLE): the
   verdict may still come, or have been given.                              *)
MeterTimesOut(u) ==
    /\ Lossy
    /\ call[u].at \in {"paying", "accepted"}
    /\ Goes(u, "failed")
    /\ UNCHANGED <<channels, session, budget, wire, totals, sold, overlapped>>

(* A request of the buyer, or its answer, is lost: the tool returns an error,
   also where the transaction that opens a channel went through.            *)
BuyerFails(u) ==
    /\ Lossy
    /\ call[u].at \in {"probing", "opening", "opened", "asking", "answered"}
    /\ Goes(u, "failed")
    /\ UNCHANGED <<channels, session, budget, wire, totals, sold, overlapped>>

-----------------------------------------------------------------------------
CallsInit ==
    /\ channels = <<>> /\ session = 0 /\ budget = Budget
    /\ call = [u \in Uses |-> NoCall]
    /\ wire = {}
    /\ totals = [paid |-> 0, payments |-> 0]
    /\ sold = <<>> /\ overlapped = {}

UseStep(u) ==
    \/ ToolCalled(u) \/ Probed(u) \/ ChannelOpens(u) \/ OpenRefused(u) \/ SessionSet(u)
    \/ SignsCall(u) \/ LimitReached(u) \/ SignsSlice(u) \/ StreamEnds(u)
    \/ StreamThrows(u)
    \/ Serves(u) \/ Returns(u) \/ MeterTimesOut(u) \/ BuyerFails(u)

CallsNext ==
    \/ \E u \in Uses : UseStep(u)
    \/ \E w \in wire : Verified(w) \/ VerifyLost(w)
    \/ \E ch \in DOMAIN channels : ChannelEnds(ch)

CallsSpec == CallsInit /\ [][CallsNext]_callsVars

-----------------------------------------------------------------------------
(* Properties.                                                              *)

Outcomes == {"served", "refused", "limit", "policy", "failed"}

(* Every variable keeps its type; the signer never leads the deposit, the
   facilitator never the signer.                                            *)
CallsTypeOK ==
    /\ \A i \in DOMAIN channels :
          /\ channels[i].accepted \in 0..channels[i].current
          /\ channels[i].current \in 0..channels[i].deposit
          /\ channels[i].open \in BOOLEAN
    /\ session \in 0..Len(channels)
    /\ budget \in 0..Budget
    /\ \A u \in Uses : call[u].at \in Outcomes \cup
          {"idle", "probing", "opening", "opened", "asking", "paying", "accepted",
           "answered", "streaming"}
    /\ \A w \in wire : w.ch \in DOMAIN channels /\ w.cumulative <= channels[w.ch].current
    /\ DOMAIN sold = DOMAIN channels

(* A seller is never short of what he served: whatever is lost, late or
   overtaken, each call he served raised lastAccepted by its price.         *)
NeverSoldShort ==
    \A i \in DOMAIN channels : sold[i] <= channels[i].accepted

(* Nothing goes wrong for a use that no other overlapped, whatever became of
   the vouchers signed before it: while its channel is open it is refused
   neither by the signer's limit nor by the facilitator, since its own voucher
   covers all the earlier ones.  And where none overlap, none opens a channel
   beside one with room, unless a tool did not learn of that one, or a use
   that needed more has left it behind (packages/mcp/src/index.ts:104: one
   transaction opens a session where there is none or its deposit does not
   suffice).  With two uses at once, both past sessionFor(), either happens. *)
OnlyOverlapHurts ==
    /\ \A u \in Uses \ overlapped :
          call[u].at \in {"refused", "limit"} => ~channels[call[u].ch].open
    /\ overlapped = {} =>
          \A u \in Uses : \A i \in DOMAIN channels \ {call[u].ch} :
              call[u].at = "opened" /\ channels[i].open /\ HasRoom(u, i) =>
                 \E v \in Uses : \/ call[v].at = "failed"
                                \/ (call[v].ch = i + 1 /\ Needed(v) > Needed(u))

SignerTotals == [i \in DOMAIN channels |-> channels[i].current]

SignedInAll == SumFunctionOnSet(SignerTotals, DOMAIN channels)

(* What reinkey_budget tells of the conversation (totals.paid) is what was
   signed, if every use so far was served and a stream ran by itself;
   failed ones leave it below, as they are not counted.                     *)
TotalsAreSigned ==
    overlapped \cap StreamCalls = {} =>
        /\ totals.paid <= SignedInAll
        /\ (\A u \in Uses : call[u].at \in {"idle", "policy", "served"})
              => totals.paid = SignedInAll

(* The three who keep count of a payment agree - the seller's sales are within
   what the facilitator accepted, and the assistant reports what its signer
   signed - and calls that do not overlap do not hinder each other.         *)
CallsAddUp == NeverSoldShort /\ TotalsAreSigned /\ OnlyOverlapHurts
=============================================================================
