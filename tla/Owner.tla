--------------------------------- MODULE Owner ---------------------------------
(***************************************************************************)
(* The owner before the console (app.mandate, AccountAdmin.tsx): the view  *)
(* of his account, read every few seconds (useFeed.ts, ReinsView.tsx), the *)
(* form that changes its policy or freezes it, and the one that creates an *)
(* account with a new agent's key.                                         *)
(*                                                                         *)
(* A policy has the fields the forms treat differently: "caps" stands for  *)
(* the caps and payees one types, "pairs" for the permission to trade,     *)
(* "expires" for the ledger it ends at, "rest" for what no form has.  How  *)
(* a transaction is sent is in Submission.                                 *)
(***************************************************************************)
EXTENDS Integers, Sequences, FiniteSets, SequencesExt, Wallet

CONSTANTS
    Owned,          \* accounts there are at the start
    Fresh,          \* accounts that may be created, and their agents' keys
    OwnerOf,        \* the wallet that owns those of Owned
    Caps,           \* what can be typed for the caps and payees
    Nothing0,       \* no account, no result
    DAY,            \* LEDGERS_PER_DAY
    MaxLedger,
    MaxSaves,       \* times a form is sent
    MaxForeign,     \* writes of others: another tab, the controller
    MaxPolls        \* readings of the account

ASSUME OwnerAssumption ==
    /\ OwnerOf \in Wallets /\ Owned \cap Fresh = {}
    /\ Nothing0 \notin Owned \cup Fresh
    /\ {DAY, MaxLedger, MaxSaves, MaxForeign, MaxPolls} \subseteq Nat

(* null is no account.                                                      *)
ASSUME NothingAssumption ==
    Nothing0 \notin [of : Owned \cup Fresh, frozen : BOOLEAN, delegated : BOOLEAN, writes : Seq(Nat),
                     policy : [caps : Caps \cup {1}, pairs : {"none", "own", "default"},
                               expires : Nat, rest : Owned \cup Fresh \cup {"other"}]]

VARIABLES
    owned,      \* the chain: by account, [policy, frozen, delegated, writes]
    ledger,     \* the latest
    watching,   \* the address that is looked at
    fetches,    \* readings under way: [id, at, answer], by the effect of this address
    shown,      \* state.account with the status: [account, status]
    editor,     \* PolicyEditor
    sent,       \* its run()s under way, also of editors that are gone
    creator,    \* CreateAccount
    creating    \* its submit()s under way

VARIABLES       \* ghosts
    count,      \* [polls, sends, foreign]
    secrets,    \* agents' keys whose secret was shown
    untold      \* those of creations that ended in an error, or in no form

ownedVars == <<owned, ledger>>
readVars == <<watching, fetches, shown>>
formVars == <<editor, sent, creator, creating>>
ownerVars == <<ownedVars, readVars, formVars, count, secrets, untold, walletVars>>

AllOwned == Owned \cup Fresh

(* Forms are numbered in the order they appear.                             *)
NoEditor(no) == [of |-> Nothing0, no |-> no]

(* useState: the fields are filled when the form appears.                   *)
NewEditor(snapshot, no) ==
    [of |-> snapshot.of, no |-> no, busy |-> FALSE,
     caps |-> snapshot.policy.caps, dex |-> snapshot.policy.pairs # "none", days |-> 0,
     edited |-> {}, mount |-> Len(snapshot.writes)]

NewCreator(place, no) == [at |-> place, no |-> no, step |-> "closed", made |-> Nothing0]

-----------------------------------------------------------------------------
(* The view (ReinsView.tsx).                                                *)

(* The page without an account has the form that creates one elsewhere.     *)
Place(status) == IF status = "missing" THEN "alone" ELSE "below"

Keyed(form, of) == form.of = of

(* The form of the account appears with it, and goes with it; the other
   begins anew where its place on the page changes.                         *)
Renders(snapshot, status) ==
    /\ shown' = [account |-> snapshot, status |-> status]
    /\ editor' = IF snapshot = Nothing0 THEN NoEditor(editor.no)
                 ELSE IF Keyed(editor, snapshot.of) THEN editor
                 ELSE NewEditor(snapshot, editor.no + 1)
    /\ creator' = IF creator.at = Place(status) THEN creator
                  ELSE NewCreator(Place(status), creator.no + 1)

(* Another address: the readings are given up and the account is gone.      *)
Watches(a) ==
    /\ a # watching
    /\ watching' = a
    /\ fetches' = {}
    /\ Renders(Nothing0, "reading")
    /\ UNCHANGED <<ownedVars, sent, creating, count, secrets, untold, walletVars>>

-----------------------------------------------------------------------------
(* pollAccount.  A reading does not wait for the one before.                *)

PollAsked ==
    /\ count.polls < MaxPolls
    /\ fetches' = fetches \cup {[id |-> count.polls, at |-> "sent", answer |-> Nothing0]}
    /\ count' = [count EXCEPT !.polls = @ + 1]
    /\ UNCHANGED <<ownedVars, watching, shown, formVars, secrets, untold, walletVars>>

(* GET /accounts/:addr.  An account that cannot be read is answered like one
   that is not there (accounts.controller.ts:36).                           *)
AccountAnswered(p) ==
    /\ p.at = "sent"
    /\ \E answer \in {owned[watching], Nothing0} :
          /\ owned[watching] = Nothing0 => answer = Nothing0
          /\ fetches' = (fetches \ {p}) \cup {[p EXCEPT !.at = "answered", !.answer = answer]}
    /\ UNCHANGED <<ownedVars, watching, shown, formVars, count, secrets, untold, walletVars>>

(* A failure of the network leaves what was shown.                          *)
PollEnds(p) ==
    /\ fetches' = fetches \ {p}
    /\ \/ p.at = "answered" /\ Renders(p.answer, IF p.answer = Nothing0 THEN "missing" ELSE "found")
       \/ p.at = "sent" /\ Renders(shown.account, IF shown.status = "found" THEN "found" ELSE "error")
    /\ UNCHANGED <<ownedVars, watching, sent, creating, count, secrets, untold, walletVars>>

-----------------------------------------------------------------------------
(* PolicyEditor.                                                            *)

(* Without the owner's wallet, or once the account is delegated, there is no
   form.                                                                    *)
Editable ==
    /\ editor.of # Nothing0
    /\ ~shown.account.delegated
    /\ wallet.address = OwnerOf

EditsCaps(c) ==
    /\ Editable /\ editor.caps # c
    /\ editor' = [editor EXCEPT !.caps = c, !.edited = @ \cup {"caps"}]
    /\ UNCHANGED <<ownedVars, readVars, sent, creator, creating, count, secrets, untold, walletVars>>

EditsDex ==
    /\ Editable
    /\ editor' = [editor EXCEPT !.dex = ~@, !.edited = @ \cup {"pairs"}]
    /\ UNCHANGED <<ownedVars, readVars, sent, creator, creating, count, secrets, untold, walletVars>>

EditsDays ==
    /\ Editable
    /\ editor' = [editor EXCEPT !.days = 1 - @, !.edited = @ \cup {"expires"}]
    /\ UNCHANGED <<ownedVars, readVars, sent, creator, creating, count, secrets, untold, walletVars>>

(* run(): the work goes on with what was there at the click.                *)
RunStarts(method, at, policy) ==
    /\ Editable /\ ~editor.busy
    /\ count.sends < MaxSaves
    /\ editor' = [editor EXCEPT !.busy = TRUE]
    /\ sent' = sent \cup {[at |-> at, method |-> method, on |-> shown.account.of, by |-> wallet.address,
                           policy |-> policy, form |-> editor, read |-> Len(shown.account.writes)]}
    /\ count' = [count EXCEPT !.sends = @ + 1]
    /\ UNCHANGED <<ownedVars, readVars, creator, creating, secrets, untold, walletVars>>

(* Mutant: whoever may trade may trade the default pairs.                   *)
NextPolicy_default ==
    [shown.account.policy EXCEPT !.caps = editor.caps,
                                 !.pairs = IF editor.dex THEN "default" ELSE "none"]

(* save(): what was typed, and the rest as it was read.                     *)
NextPolicy ==
    LET p == shown.account.policy IN
    [p EXCEPT !.caps = editor.caps,
              !.pairs = IF ~editor.dex THEN "none" ELSE IF @ = "none" THEN "default" ELSE @]

SavePressed ==
    RunStarts("set_policy", IF editor.days > 0 THEN "health" ELSE "send", NextPolicy)

(* The button says what it does.                                            *)
FreezePressed ==
    RunStarts(IF shown.account.frozen THEN "unfreeze" ELSE "freeze", "send", shown.account.policy)

NowAt(s, at) == sent' = (sent \ {s}) \cup {[s EXCEPT !.at = at]}

(* latestLedger(): the term is extended from now, or from its end.          *)
HealthComes(s) ==
    /\ s.at = "health"
    /\ sent' = (sent \ {s}) \cup {[s EXCEPT !.at = "send",
                 !.policy.expires = (IF ledger > @ THEN ledger ELSE @) + s.form.days * DAY]}
    /\ UNCHANGED <<ownedVars, readVars, editor, creator, creating, count, secrets, untold, walletVars>>

(* The contract asks for the owner, or for its controller once it has one.  *)
Written(a, by, value) == owned' = [owned EXCEPT ![a] =
    [value EXCEPT !.writes = Append(@, by)]]

OwnerSigned(s) == s.by = OwnerOf /\ ~owned[s.on].delegated

RunApplied(s) ==
    /\ s.at \in {"send", "unconfirmed"}
    /\ OwnerSigned(s)
    /\ Written(s.on, s.form.no,
               IF s.method = "set_policy" THEN [owned[s.on] EXCEPT !.policy = s.policy]
               ELSE [owned[s.on] EXCEPT !.frozen = (s.method = "freeze")])
    /\ sent' = (sent \ {s}) \cup (IF s.at = "send" THEN {[s EXCEPT !.at = "applied"]} ELSE {})
    /\ UNCHANGED <<ledger, readVars, editor, creator, creating, count, secrets, untold, walletVars>>

(* It is confirmed or refused, or not heard of again and may yet be applied:
   an error or done, and not busy, where the form is still there.           *)
RunEnds(s) ==
    /\ s.at # "unconfirmed"
    /\ \/ sent' = sent \ {s}
       \/ s.at = "send" /\ NowAt(s, "unconfirmed")
    /\ editor' = IF editor.of # Nothing0 /\ editor.no = s.form.no
                 THEN [editor EXCEPT !.busy = FALSE] ELSE editor
    /\ UNCHANGED <<ownedVars, readVars, creator, creating, count, secrets, untold, walletVars>>

-----------------------------------------------------------------------------
(* CreateAccount.                                                           *)

CreateOpened ==
    /\ creator.step = "closed" /\ creator.made = Nothing0
    /\ creator' = [creator EXCEPT !.step = "open"]
    /\ UNCHANGED <<ownedVars, readVars, editor, sent, creating, count, secrets, untold, walletVars>>

CreateCancelled ==
    /\ creator.step = "open"
    /\ creator' = [creator EXCEPT !.step = "closed"]
    /\ UNCHANGED <<ownedVars, readVars, editor, sent, creating, count, secrets, untold, walletVars>>

NewCreation(at, by) == [at |-> at, by |-> by, form |-> creator.no, new |-> Nothing0]

Proceeding(c, d) == creating' = (creating \ {c}) \cup {d}

(* submit(): the wallet is connected first where none is.                   *)
CreatePressed ==
    /\ creator.step = "open"
    /\ count.sends < MaxSaves
    /\ creator' = [creator EXCEPT !.step = "busy"]
    /\ \/ /\ wallet.address # NoWallet
          /\ creating' = creating \cup {NewCreation("health", wallet.address)}
          /\ UNCHANGED walletVars
       \/ /\ wallet.address = NoWallet
          /\ ConnectAsked("create")
          /\ creating' = creating \cup {NewCreation("connect", NoWallet)}
    /\ count' = [count EXCEPT !.sends = @ + 1]
    /\ UNCHANGED <<ownedVars, readVars, editor, sent, secrets, untold>>

CreateConnected(c, w) ==
    /\ c.at = "connect"
    /\ Connected("create", w)
    /\ Proceeding(c, [c EXCEPT !.at = "health", !.by = w])
    /\ UNCHANGED <<ownedVars, readVars, editor, sent, creator, count, secrets, untold>>

(* setState() of a form that is gone does nothing.                          *)
There(c) == creator.no = c.form

Frees(c) == creator' = IF There(c) THEN [creator EXCEPT !.step = "open"] ELSE creator

CreateNotConnected(c) ==
    /\ c.at = "connect"
    /\ ConnectFails("create")
    /\ creating' = creating \ {c}
    /\ Frees(c)
    /\ UNCHANGED <<ownedVars, readVars, editor, sent, count, secrets, untold>>

(* The ledger is known; a new key is made for the agent, in the browser.    *)
KeyMade(c, k) ==
    /\ c.at = "health"
    /\ owned[k] = Nothing0 /\ k \notin untold /\ \A d \in creating : d.new # k
    /\ Proceeding(c, [c EXCEPT !.at = "send", !.new = k])
    /\ UNCHANGED <<ownedVars, readVars, editor, sent, creator, count, secrets, untold, walletVars>>

(* createAccount(): the wallet's owner, the policy that was typed.          *)
CreateApplied(c) ==
    /\ c.at \in {"send", "unconfirmed"}
    /\ owned' = [owned EXCEPT ![c.new] =
          [of |-> c.new, frozen |-> FALSE, delegated |-> FALSE, writes |-> <<>>,
           policy |-> [caps |-> 1, pairs |-> "none", expires |-> ledger + DAY, rest |-> c.new]]]
    /\ creating' = (creating \ {c}) \cup (IF c.at = "send" THEN {[c EXCEPT !.at = "applied"]} ELSE {})
    /\ UNCHANGED <<ledger, readVars, editor, sent, creator, count, secrets, untold, walletVars>>

(* Mutant: only what is confirmed is shown.                                 *)
HasResult_confirmed(c) == c.at = "applied"

(* Its address is the result of the simulation too: what was sent is shown,
   confirmed or not, with the secret of its agent.                          *)
HasResult(c) == c.at \in {"send", "applied"}

CreateEnds(c) ==
    /\ c.at \in {"send", "applied"}
    /\ creating' = (creating \ {c}) \cup (IF c.at = "send" THEN {[c EXCEPT !.at = "unconfirmed"]} ELSE {})
    /\ IF There(c) /\ HasResult(c)
       THEN /\ creator' = [creator EXCEPT !.step = "closed", !.made = c.new]
            /\ secrets' = secrets \cup {c.new}
       ELSE UNCHANGED <<creator, secrets>>
    /\ untold' = IF There(c) THEN untold ELSE untold \cup {c.new}
    /\ UNCHANGED <<ownedVars, readVars, editor, sent, count, walletVars>>

(* No ledger, a refusal of the wallet, a simulation or a poll that fails: an
   error.  The account may be there, or come, all the same.                 *)
CreateFails(c) ==
    /\ c.at \in {"health", "send", "applied"}
    /\ creating' = (creating \ {c}) \cup (IF c.at = "send" THEN {[c EXCEPT !.at = "unconfirmed"]} ELSE {})
    /\ Frees(c)
    /\ untold' = untold \cup {c.new}
    /\ UNCHANGED <<ownedVars, readVars, editor, sent, count, secrets, walletVars>>

-----------------------------------------------------------------------------
LedgerPasses ==
    /\ ledger < MaxLedger
    /\ ledger' = ledger + 1
    /\ UNCHANGED <<owned, readVars, formVars, count, secrets, untold, walletVars>>

(* Another tab of the owner, or his hand-over and the controller.           *)
OthersWrite(a) ==
    /\ owned[a] # Nothing0 /\ count.foreign < MaxForeign
    /\ \E value \in {[owned[a] EXCEPT !.policy.rest = "other"], [owned[a] EXCEPT !.policy.caps = 1],
                     [owned[a] EXCEPT !.frozen = ~@], [owned[a] EXCEPT !.delegated = TRUE]} :
          Written(a, 0, value)
    /\ count' = [count EXCEPT !.foreign = @ + 1]
    /\ UNCHANGED <<ledger, readVars, formVars, secrets, untold, walletVars>>

WalletMoves ==
    /\ WalletNext
    /\ UNCHANGED <<ownedVars, readVars, formVars, count, secrets, untold>>

OwnerInit ==
    /\ \E caps \in [Owned -> Caps], pairs \in {"none", "own"}, expires \in {0, 2 * DAY} :
          owned = [a \in AllOwned |->
             IF a \in Fresh THEN Nothing0
             ELSE [of |-> a, frozen |-> FALSE, delegated |-> FALSE, writes |-> <<>>,
                   policy |-> [caps |-> caps[a], pairs |-> pairs, expires |-> expires, rest |-> a]]]
    /\ ledger = 0
    /\ watching \in AllOwned
    /\ fetches = {} /\ shown = [account |-> Nothing0, status |-> "reading"]
    /\ editor = NoEditor(0) /\ sent = {}
    /\ creator = NewCreator(Place("reading"), 0) /\ creating = {}
    /\ count = [polls |-> 0, sends |-> 0, foreign |-> 0]
    /\ secrets = {} /\ untold = {}
    /\ WalletInit

OwnerNext ==
    \/ \E a \in AllOwned : Watches(a) \/ OthersWrite(a)
    \/ PollAsked
    \/ \E p \in fetches : AccountAnswered(p) \/ PollEnds(p)
    \/ (\E c \in Caps : EditsCaps(c)) \/ EditsDex \/ EditsDays
    \/ SavePressed \/ FreezePressed
    \/ \E s \in sent : HealthComes(s) \/ RunApplied(s) \/ RunEnds(s)
    \/ CreateOpened \/ CreateCancelled \/ CreatePressed
    \/ \E c \in creating :
          \/ \E w \in Wallets : CreateConnected(c, w)
          \/ CreateNotConnected(c)
          \/ \E k \in Fresh : KeyMade(c, k)
          \/ CreateApplied(c) \/ CreateEnds(c) \/ CreateFails(c)
    \/ LedgerPasses
    \/ WalletMoves

OwnerSpec == OwnerInit /\ [][OwnerNext]_ownerVars

-----------------------------------------------------------------------------
(* Properties.                                                              *)

(* Nobody else has written since the form was filled, and its last own write
   had been read at the click.                                              *)
UpToDate(s) ==
    LET writes == owned[s.on].writes IN
    /\ s.read = Len(writes)
    /\ \A i \in (s.form.mount + 1)..Len(writes) : writes[i] = s.form.no

(* A form that was up to date changes what its owner edited in it, on the
   account he looks at, and nothing else; it never shortens the term.       *)
ChangesOnly(s) ==
    LET old == owned[s.on]
        new == owned'[s.on] IN
    /\ \A a \in AllOwned \ {s.on} : owned'[a] = owned[a]
    /\ s.method = "set_policy" =>
          /\ new.frozen = old.frozen
          /\ \A f \in DOMAIN old.policy :
                f \notin s.form.edited => new.policy[f] = old.policy[f]
          /\ new.policy.expires >= old.policy.expires
    /\ s.method # "set_policy" => new.policy = old.policy /\ new.frozen # old.frozen

(* The secret of an agent whose account was created was shown, unless the
   creation ended in an error or its form went from the page meanwhile.     *)
SecretsAreShown ==
    \A k \in Fresh :
        owned[k] # Nothing0 =>
            \/ k \in secrets \cup untold
            \/ \E c \in creating : c.new = k /\ c.at # "unconfirmed"

(* The forms do to the account what their owner sees and edits in them.     *)
OwnerIsObeyed ==
    [][/\ \A s \in sent : s \notin sent' /\ owned' # owned /\ UpToDate(s) => ChangesOnly(s)
       /\ SecretsAreShown']_ownerVars
=============================================================================
