------------------------------ MODULE Playground ------------------------------
(***************************************************************************)
(* The playground of the landing page (Playground.tsx): a reducer that     *)
(* plays account, channel, facilitator and seller, driven by clicks and    *)
(* two timers.  Its README asks that it stay the same as the account, the  *)
(* channel contract and the facilitator.                                   *)
(***************************************************************************)
EXTENDS Integers, Sequences

CONSTANTS
    PerTxCap, DailyCap, \* POLICY
    Request, Slice,     \* PRICE
    SliceTokens,        \* SLICE_TOKENS
    PAGE_DEPOSIT, BIG_DEPOSIT,
    Counts,             \* calls a click on the order book makes: 1 or 100
    TextTokens,         \* tokens of the chat's answer
    MaxLines,           \* MAX_LINES
    MaxId,              \* lines explored
    Nothing

ASSUME PlaygroundAssumption ==
    /\ {Request, Slice, SliceTokens, PAGE_DEPOSIT, TextTokens, MaxLines} \subseteq Nat \ {0}
    /\ PAGE_DEPOSIT <= PerTxCap /\ PerTxCap < BIG_DEPOSIT /\ Counts \subseteq Nat \ {0}

VARIABLES
    channel,    \* Nothing or its deposit, cumulative, claimed, sinceClaim
    tally,      \* spentToday, vouchers, txs, paid
    lines,      \* the trace, newest first
    nextId,
    pending,    \* Nothing or the line and the operation on its way to the chain
    stream      \* Nothing or the answer of the chat as far as it came

playVars == <<channel, tally, lines, nextId, pending, stream>>

Busy == pending # Nothing \/ (stream # Nothing /\ stream.status = "streaming")

(* addLine, patchLine: the trace keeps the newest MAX_LINES.                *)
Added(ls, status) ==
    SubSeq(<<[id |-> nextId, status |-> status]>> \o ls, 1,
           IF Len(ls) < MaxLines THEN Len(ls) + 1 ELSE MaxLines)

Patched(ls, id, status) ==
    [i \in DOMAIN ls |-> IF ls[i].id = id THEN [ls[i] EXCEPT !.status = status] ELSE ls[i]]

Adds(status) ==
    /\ nextId < MaxId
    /\ lines' = Added(lines, status)
    /\ nextId' = nextId + 1

(* The account's verdict: payee, one transfer, one day.                     *)
Authorized(op, amount) ==
    /\ op # "drain"
    /\ amount <= PerTxCap
    /\ tally.spentToday + amount <= DailyCap

Amount(op) == IF op = "big" THEN BIG_DEPOSIT ELSE PAGE_DEPOSIT

NothingToClaim == channel = Nothing \/ channel.cumulative = channel.claimed

-----------------------------------------------------------------------------
(* Clicks.                                                                  *)

ChainClicked(op) ==
    /\ ~Busy
    /\ IF op = "claim" /\ NothingToClaim
       THEN Adds("info") /\ UNCHANGED pending
       ELSE Adds("pending") /\ pending' = [line |-> nextId, op |-> op]
    /\ UNCHANGED <<channel, tally, stream>>

(* So many calls of the order book: a voucher each, as far as the deposit
   goes.                                                                    *)
BookClicked(count) ==
    LET room == (channel.deposit - channel.cumulative) \div Request
        n == IF count < room THEN count ELSE room
    IN  /\ ~Busy /\ channel # Nothing
        /\ channel' = [channel EXCEPT !.cumulative = @ + n * Request, !.sinceClaim = @ + n]
        /\ tally' = [tally EXCEPT !.vouchers = @ + n, !.paid = @ + n * Request]
        /\ IF n = 0 \/ n = count
           THEN Adds(IF n = 0 THEN "deny" ELSE "ok")
           ELSE /\ nextId + 1 < MaxId
                /\ lines' = SubSeq(<<[id |-> nextId + 1, status |-> "deny"]>>
                                   \o Added(lines, "ok"), 1,
                                   IF Len(lines) + 2 <= MaxLines THEN Len(lines) + 2
                                   ELSE MaxLines)
                /\ nextId' = nextId + 2
        /\ UNCHANGED <<pending, stream>>

NoChannel ==
    /\ ~Busy /\ channel = Nothing
    /\ Adds("deny")
    /\ UNCHANGED <<channel, tally, pending, stream>>

(* With reduced motion all the ticks of the chat follow in the same step.   *)
ChatClicked ==
    /\ ~Busy /\ channel # Nothing
    /\ Adds("pending")
    /\ stream' = [shown |-> 0, paidThrough |-> 0, slices |-> 0,
                  firstVoucher |-> tally.vouchers + 1, line |-> nextId,
                  status |-> "streaming"]
    /\ UNCHANGED <<channel, tally, pending>>

(* Also while something is under way; the timers end with it.               *)
ResetClicked ==
    /\ channel' = Nothing /\ pending' = Nothing /\ stream' = Nothing
    /\ tally' = [spentToday |-> 0, vouchers |-> 0, txs |-> 0, paid |-> 0]
    /\ lines' = <<>> /\ nextId' = 1

-----------------------------------------------------------------------------
(* Timers.                                                                  *)

(* What was sent to the chain has its result: refused in simulation, or a
   transaction more.                                                        *)
Settles ==
    /\ pending # Nothing
    /\ pending' = Nothing
    /\ \/ /\ pending.op = "claim"
          /\ channel' = [channel EXCEPT !.claimed = channel.cumulative, !.sinceClaim = 0]
          /\ tally' = [tally EXCEPT !.txs = @ + 1]
          /\ lines' = Patched(lines, pending.line, "ok")
       \/ /\ pending.op # "claim" /\ ~Authorized(pending.op, Amount(pending.op))
          /\ lines' = Patched(lines, pending.line, "deny")
          /\ UNCHANGED <<channel, tally>>
       \/ /\ pending.op # "claim" /\ Authorized(pending.op, Amount(pending.op))
          /\ channel' = IF channel = Nothing
                        THEN [deposit |-> Amount(pending.op), cumulative |-> 0,
                              claimed |-> 0, sinceClaim |-> 0]
                        ELSE [channel EXCEPT !.deposit = @ + Amount(pending.op)]
          /\ tally' = [tally EXCEPT !.txs = @ + 1, !.spentToday = @ + Amount(pending.op)]
          /\ lines' = Patched(lines, pending.line, "ok")
    /\ UNCHANGED <<nextId, stream>>

(* Plausible bug: the next slice is due one token late.                     *)
SliceEnds_late(st) == st.shown > st.paidThrough

(* What is paid for has been shown.                                         *)
SliceEnds(st) == st.shown = st.paidThrough

(* A voucher for the next slice, or the end in mid-sentence.                *)
Exhausted == channel.cumulative + Slice > channel.deposit

Cut ==
    /\ stream # Nothing /\ stream.status = "streaming"
    /\ SliceEnds(stream) /\ Exhausted
    /\ stream' = [stream EXCEPT !.status = "cut"]
    /\ lines' = Patched(lines, stream.line, "deny")
    /\ UNCHANGED <<channel, tally, nextId, pending>>

ChatTicks ==
    LET pays == SliceEnds(stream)
        through == IF stream.paidThrough + SliceTokens < TextTokens
                   THEN stream.paidThrough + SliceTokens ELSE TextTokens
        done == stream.shown + 1 >= TextTokens
    IN  /\ stream # Nothing /\ stream.status = "streaming"
        /\ ~(pays /\ Exhausted)
        /\ IF pays
           THEN /\ channel' = [channel EXCEPT !.cumulative = @ + Slice, !.sinceClaim = @ + 1]
                /\ tally' = [tally EXCEPT !.vouchers = @ + 1, !.paid = @ + Slice]
           ELSE UNCHANGED <<channel, tally>>
        /\ stream' = [stream EXCEPT !.shown = @ + 1,
                                    !.paidThrough = IF pays THEN through ELSE @,
                                    !.slices = IF pays THEN @ + 1 ELSE @,
                                    !.status = IF done THEN "done" ELSE "streaming"]
        /\ lines' = Patched(lines, stream.line, IF done THEN "ok" ELSE "pending")
        /\ UNCHANGED <<nextId, pending>>

-----------------------------------------------------------------------------
PlayInit ==
    /\ channel = Nothing /\ pending = Nothing /\ stream = Nothing
    /\ tally = [spentToday |-> 0, vouchers |-> 0, txs |-> 0, paid |-> 0]
    /\ lines = <<>> /\ nextId = 1

PlayNext ==
    \/ \E op \in {"open", "big", "drain", "claim"} : ChainClicked(op)
    \/ \E n \in Counts : BookClicked(n)
    \/ NoChannel \/ ChatClicked \/ ResetClicked
    \/ Settles \/ Cut \/ ChatTicks

PlaySpec == PlayInit /\ [][PlayNext]_playVars

-----------------------------------------------------------------------------
(* Properties.                                                              *)

Line(id) == {i \in DOMAIN lines : lines[i].id = id}

(* The numbers of the page belong together: what left the account is in the
   channel, what was paid was signed and is covered, the trace has one line
   without a result while something is under way, and the chat has shown no
   token that no voucher paid for.                                          *)
PageAddsUp ==
    /\ tally.spentToday <= DailyCap
    /\ tally.spentToday = IF channel = Nothing THEN 0 ELSE channel.deposit
    /\ tally.paid = IF channel = Nothing THEN 0 ELSE channel.cumulative
    /\ channel # Nothing =>
         /\ channel.claimed <= channel.cumulative /\ channel.cumulative <= channel.deposit
         /\ channel.sinceClaim <= tally.vouchers
         /\ channel.sinceClaim = 0 <=> channel.claimed = channel.cumulative
    /\ {i \in DOMAIN lines : lines[i].status = "pending"}
         = IF pending # Nothing THEN Line(pending.line)
           ELSE IF Busy THEN Line(stream.line) ELSE {}
    /\ Busy => lines # <<>> /\ Head(lines).status = "pending"
    /\ stream # Nothing =>
         /\ stream.shown <= stream.slices * SliceTokens
         /\ stream.firstVoucher + stream.slices <= tally.vouchers + 1
         /\ stream.status = "cut" => stream.shown < TextTokens

(* The channel of the page as an escrow: what a voucher has not promised yet
   may still be promised; nobody closes it.                                 *)
Escrow == INSTANCE EscrowChannel WITH
    Channels <- {1},
    phase <- [c \in {1} |-> IF channel = Nothing THEN "none" ELSE "open"],
    escrow <- [c \in {1} |-> IF channel = Nothing THEN 0 ELSE channel.deposit - channel.claimed],
    paid <- [c \in {1} |-> IF channel = Nothing THEN 0 ELSE channel.claimed],
    refunded <- [c \in {1} |-> 0],
    authorised <- [c \in {1} |-> IF channel = Nothing THEN {} ELSE 1..channel.cumulative]

(* The page plays the product (landing-page/README.md:14): its channel takes
   the steps the contract's channel takes, until the visitor starts over, and
   its numbers add up.                                                      *)
PlaygroundIsTheProduct ==
    /\ Escrow!EscrowInit
    /\ [][/\ PageAddsUp'
          /\ channel' \notin {channel, Nothing} => Escrow!EscrowNext]_playVars
=============================================================================
