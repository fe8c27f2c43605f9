------------------------------- MODULE MCClients -------------------------------
(***************************************************************************)
(* The programs around the facilitator, for TLC: the paid calls of an      *)
(* assistant, the submission of transactions, the console with its owner's *)
(* forms and the playground.  They share no state, so each is explored     *)
(* with the others at rest; so are, inside them, the three accounts that   *)
(* pay for transactions, the channels, the counters and the account of the *)
(* console, and the form of an account and the one that creates it.        *)
(***************************************************************************)
EXTENDS PaidCalls, Submission, Console, Playground, Owner, Workspaces, Board, TLC

CONSTANTS c1, c2, s1, i1, i2, f1, k1, w1, w2, a1, a2, o1, o2, b1, b2, n1

TwoCalls == {c1, c2}
OneStream == {s1}
TwoInvocations == {i1, i2}
OneProof == {i2}
OneFreeze == {f1}
OneClaim == {k1}
TwoWalletOps == {w1, w2}
OneOwnerOp == {w1}
TwoAddresses == {a1, a2}
TwoDeposits == {1, 2}
OneOrMany == {1, 5}
TwoWallets == {o1, o2}
TwoAccounts == {b1, b2}
OneNew == {n1}
TwoCaps == {1, 2}

(* What the live page is told of: two channels, two streams on one of them, a
   claim told twice and another.                                            *)
EventOf(type) ==
    [type |-> type, ch |-> NoTx, unit |-> NoTx, tx |-> NoTx, stream |-> NoTx, covered |-> 0,
     why |-> NoTx, amount |-> 1, ts |-> 0]

LiveEvents ==
    {EventOf(type) : type \in {"swapped", "chain", "exact", "tick"}}
    \cup {[EventOf("rejected") EXCEPT !.why = why] : why \in {"chain", "exhausted", "other"}}
    \cup {[EventOf("accepted") EXCEPT !.ch = p[1], !.unit = p[2]] :
             p \in {<<k1, "second">>, <<k1, "token">>, <<f1, "second">>}}
    \cup {[EventOf("claimed") EXCEPT !.ch = p[1], !.tx = p[2], !.covered = p[3]] :
             p \in {<<k1, w1, 0>>, <<k1, w1, 2>>, <<f1, w2, 1>>}}
    \cup {[EventOf("started") EXCEPT !.ch = k1, !.unit = "second", !.stream = st] : st \in {i1, i2}}
    \cup {[EventOf("ended") EXCEPT !.stream = st, !.why = "exhausted", !.amount = 3] : st \in {i1, i2}}

(* What of the workspaces is not of the wallet, which the owner's forms have too. *)
placeVars == <<navVars, keptVars, adding, picking, budgets>>

vars == <<callsVars, subVars, consoleVars, playVars, ownerVars, placeVars, screenVars>>

TypeOK == CallsTypeOK /\ SubTypeOK /\ ConsoleTypeOK

(* The account that is looked at first tells whether the workspaces are explored. *)
WorkIsOn ==
    /\ watching = b2
    /\ owned[b1].policy.caps = 1 /\ owned[b1].policy.pairs = "none" /\ owned[b1].writes = <<>>

BoardRests == BoardInit /\ pages.account = a1

Init ==
    /\ CallsInit /\ SubInit /\ ConsoleInit /\ PlayInit
    /\ OwnerInit /\ owned[b2].policy.caps = 1
    /\ \A b \in Owned : owned[b].policy.expires = 0 <=> owned[b].policy.pairs = "none"
    /\ BoardRests
    /\ WorkInit
    /\ IF WorkIsOn THEN ~remembered /\ \A i \in DOMAIN stored.profiles : stored.profiles[i].address = o1
       ELSE nav = Bare /\ stored = [profiles |-> <<>>, onboarded |-> FALSE]

ConsoleRests == ConsoleInit /\ watched.addr = a1

OwnerRests ==
    /\ ~remembered /\ watching = b1 /\ owned[b1].policy.caps = 1 /\ owned[b1].policy.pairs = "none"
    /\ OwnerInit /\ owned[b1].policy.expires = 0

(* The two calls are alike: c1 is the first.  Two uses run at once.         *)
CallsStep ==
    /\ SubInit /\ ConsoleRests /\ PlayInit /\ OwnerRests /\ BoardRests
    /\ CallsNext
    /\ call'[c2].at # "idle" => call'[c1].at # "idle"
    /\ Cardinality({u \in Uses : Running(u)})' <= 2
    /\ UNCHANGED <<subVars, consoleVars, playVars, ownerVars, placeVars, screenVars>>

PlayStep ==
    /\ CallsInit /\ SubInit /\ ConsoleRests /\ OwnerRests /\ BoardRests
    /\ PlayNext
    /\ UNCHANGED <<callsVars, subVars, consoleVars, ownerVars, placeVars, screenVars>>

(* The relayer's account, with two senders, a proof before the other operation;
   the facilitator's; and a wallet's.                                       *)
RelayerStep ==
    /\ SubNext
    /\ \A o \in Ops \ Invocations : op'[o] = NoOp
    /\ others' + Cardinality({o \in Invocations : op'[o] # NoOp}) <= 2
    /\ op'[i2].at \in {"proving", "proof", "watching"} => op'[i1] = NoOp

FacilitatorStep == SubNext /\ others' = 0 /\ \A o \in Ops \ Own : op'[o] = NoOp

WalletStep == SubNext /\ others' = 0 /\ \A o \in Ops \ WalletOps : op'[o] = NoOp

SubmissionStep ==
    /\ CallsInit /\ ConsoleRests /\ PlayInit /\ OwnerRests /\ BoardRests
    /\ RelayerStep \/ FacilitatorStep \/ WalletStep
    /\ UNCHANGED <<callsVars, consoleVars, playVars, ownerVars, placeVars, screenVars>>

(* A second interruption of the console comes when all is quiet.            *)
OneByOne(quiet) == turns' # turns => turns.reloads + turns.clears = 0 \/ (quiet /\ polls = {})

(* What is shown of the channel: events a millisecond apart, no counters.   *)
ViewStep ==
    /\ FeedNext
    /\ OneByOne(Quiet)
    /\ Cardinality(requests') <= 2
    /\ \A p \in polls' : p.by = "clear"
    /\ \A i \in DOMAIN log' : log'[i].ts = i + 1

(* The counters: events that count or do not, nothing asked about the channel
   is answered.                                                             *)
CountersStep ==
    /\ FeedNext
    /\ OneByOne(pos = Len(log) /\ buffer = <<>>)
    /\ \A r \in requests : r \in requests' \/ turns' # turns
    /\ \A r \in requests' : r.answer = None
    /\ log' # <<>> => Head(log') = [type |-> "opened", amount |-> 2, ts |-> 2]
    /\ \A i \in DOMAIN log' : log'[i].type \in {"opened", "accepted"} /\ log'[i].ts <= 3

(* The account at first tells which part of the console is explored.        *)
ConsoleStep ==
    /\ CallsInit /\ SubInit /\ PlayInit /\ OwnerRests /\ BoardRests
    /\ \/ watched = [epoch |-> 0, addr |-> a1] /\ accountRead.key = None /\ reads = {} /\ ViewStep
       \/ watched = [epoch |-> 0, addr |-> a2] /\ accountRead.key = None /\ reads = {} /\ CountersStep
       \/ log = <<>> /\ polls = {} /\ turns.reloads = 0 /\ turns.clears = 0 /\ AccountNext
    /\ UNCHANGED <<callsVars, subVars, playVars, ownerVars, placeVars, screenVars>>

(* Two writes to the account b1 (one if it does not trade), and another account
   looked at once; of the fields one is edited, with the owner's wallet.
   What the account is at first tells this part from the next.              *)
EditorStep ==
    /\ owned[b1].policy.caps = 2 \/ owned[b1].writes # <<>>
    /\ OwnerNext
    /\ creator'.step = "closed" /\ watching' \in Owned
    /\ wallet.restoring => ~wallet'.restoring
    /\ wallet'.address \in {NoWallet, OwnerOf} /\ connects' = {}
    /\ count'.sends + count'.foreign <= IF owned[b2].policy.pairs = "none" THEN 1 ELSE 2
    /\ count'.foreign # count.foreign => owned'[b2] = owned[b2] /\ editor.of = b1
    /\ Cardinality(sent') <= 1 /\ Cardinality(fetches') <= 1
    /\ ledger' # ledger => \E s \in sent : s.at = "health"
    /\ watching' # watching => watching = b1
    /\ editor'.of # Nothing0 => Cardinality(editor'.edited) <= 1

(* One account is created, by the owner of another or with no account.      *)
CreatorStep ==
    /\ owned[b1].policy.caps = 1 /\ owned[b1].policy.pairs = "none"
    /\ OwnerNext
    /\ \A b \in Owned : owned'[b] = owned[b]
    /\ ledger' = 0 /\ sent' = {}
    /\ editor'.of # Nothing0 => editor'.edited = {}
    /\ count'.sends <= 1 /\ Cardinality(fetches') <= 1
    /\ watching' # watching => watching = b1 /\ watching' = n1
    /\ watching # b2

OwnerStep ==
    /\ CallsInit /\ SubInit /\ ConsoleRests /\ PlayInit /\ BoardRests
    /\ (remembered /\ EditorStep) \/ CreatorStep
    /\ UNCHANGED <<callsVars, subVars, consoleVars, playVars, placeVars, screenVars>>

(* Where one is: back and forth, from a link.                               *)
PlacesStep ==
    /\ visited[1] # Bare
    /\ WorkNext
    /\ Len(kept'.profiles) <= 2
    /\ UNCHANGED <<walletVars, budgets>>

(* Who one is: only forward, from the welcome; the other tab writes once, or
   this one is loaded again.                                                *)
WelcomeStep ==
    /\ visited[1] = Bare
    /\ WorkNext
    /\ Len(kept'.profiles) <= 2 /\ budgets'.elsewhere + budgets'.loads <= 1
    /\ nav' \in {Bare, [Bare EXCEPT !.view = "float"]} \cup {PlaceOf(p) : p \in Profile}
    /\ here' >= here

WorkStep ==
    /\ CallsInit /\ SubInit /\ ConsoleRests /\ PlayInit /\ BoardRests /\ WorkIsOn
    /\ PlacesStep \/ WelcomeStep
    /\ UNCHANGED <<callsVars, subVars, consoleVars, playVars, ownedVars, readVars, formVars, count, secrets, untold, screenVars>>

(* The live page: events; or the agent; or the ledger.                      *)
BoardStep ==
    /\ CallsInit /\ SubInit /\ ConsoleRests /\ PlayInit /\ OwnerRests
    /\ \/ PagesInit /\ process.run = NoRun /\ inquiry = NoTx /\ EventStep
       \/ PagesInit /\ (\A n \in DOMAIN told : told[n].type \in {"log", "exited"}) /\ AgentStep
       \/ told = <<>> /\ process.run = NoRun /\ inquiry = NoTx /\ LedgerStep
    /\ UNCHANGED <<callsVars, subVars, consoleVars, playVars, ownerVars, placeVars>>

Next == CallsStep \/ SubmissionStep \/ ConsoleStep \/ PlayStep \/ OwnerStep \/ WorkStep \/ BoardStep

Spec == Init /\ [][Next]_vars

-----------------------------------------------------------------------------
(* The pages of the console show what is: the list of addresses is the one
   the user made, the address bar is where he went, and the lists of the live
   page tell each event once, in its order.                                 *)
PagesShowWhatIs ==
    [][/\ UNCHANGED screenVars \/ (BoardIsTrue' /\ StepsStay)
       /\ (ProfilesAreKept /\ WelcomedOnce)' /\ StepsAreSmall]_<<workVars, screenVars>>
=============================================================================
