------------------------------- MODULE Workspaces -------------------------------
(***************************************************************************)
(* Who one is in the console (app.mandate): the addresses that are kept in *)
(* the browser's storage (lib/workspace.ts), the place in its address bar  *)
(* (lib/useView.ts), and the pages that change both - the switcher, the    *)
(* welcome, the bar of an address (Dashboard.tsx).  A tab and its user;    *)
(* another tab of his has the same storage.                                *)
(***************************************************************************)
EXTENDS Integers, Sequences, FiniteSets, SequencesExt, Wallet

CONSTANTS
    Addrs,          \* addresses that are looked at, the wallets' among them
    Nowhere,        \* no address, no page of the welcome
    MaxVisits,      \* entries of the tab's history
    MaxElsewhere,   \* what the other tab saves or removes
    MaxLoads        \* times the tab is loaded again

ASSUME WorkspacesAssumption ==
    /\ Wallets \subseteq Addrs /\ Nowhere \notin Addrs
    /\ MaxVisits \in Nat \ {0} /\ {MaxElsewhere, MaxLoads} \subseteq Nat

VARIABLES
    visited,    \* the tab's history: [view, account, seller]
    here,       \* where in it the address bar is
    current,    \* the ref of useView
    stored,     \* localStorage: [profiles, onboarded]
    kept,       \* the state of useWorkspaces
    adding,     \* Dashboard
    picking,    \* Onboarding.open
    elsewhere   \* the state of the other tab

VARIABLES       \* ghosts
    mine,       \* profiles the user saved and did not remove, as he knows from this tab
    written,    \* whether the other tab wrote last
    budgets     \* [elsewhere, loads]

navVars == <<visited, here, current>>
keptVars == <<stored, kept, elsewhere, mine, written>>
workVars == <<navVars, keptVars, adding, picking, budgets, walletVars>>

Roles == {"agent", "seller"}

(* Profiles are told apart by role and address.                             *)
Profile == [role : Roles, address : Addrs]

Bare == [view |-> "live", account |-> Nowhere, seller |-> Nowhere]

(* What a shared link opens: read() knows the views and what an address is. *)
Links == {Bare} \cup [view : {"reins"}, account : Addrs, seller : {Nowhere}]

nav == visited[here]

-----------------------------------------------------------------------------
(* useView.                                                                 *)

(* update(): the patch is put over the ref, and pushed; what was ahead of it
   in the history is gone.                                                  *)
Navigates(patch) ==
    /\ here < MaxVisits
    /\ LET next == [f \in DOMAIN current |-> IF f \in DOMAIN patch THEN patch[f] ELSE current[f]] IN
       /\ current' = next
       /\ visited' = Append(SubSeq(visited, 1, here), next)
    /\ here' = here + 1

(* Mutant: the ref stays where it was.                                      *)
PopsTo_shown(n) == here' = n /\ UNCHANGED <<visited, current>>

(* popstate                                                                 *)
PopsTo(n) == here' = n /\ current' = visited[n] /\ UNCHANGED visited

-----------------------------------------------------------------------------
(* useWorkspaces.                                                           *)

(* initial(): who has profiles has been welcomed.                           *)
Initial(storage) ==
    [profiles |-> storage.profiles, onboarded |-> storage.onboarded \/ storage.profiles # <<>>]

Without(profiles, p) == SelectSeq(profiles, LAMBDA q : q # p)

(* add(): to the front, once; and written.                                  *)
AddsProfile(p) ==
    LET next == <<p>> \o Without(kept.profiles, p) IN
    /\ kept' = [profiles |-> next, onboarded |-> TRUE]
    /\ stored' = [profiles |-> next, onboarded |-> TRUE]
    /\ mine' = mine \cup {p} /\ written' = FALSE
    /\ UNCHANGED elsewhere

Removes(p) ==
    LET next == Without(kept.profiles, p) IN
    /\ kept' = [kept EXCEPT !.profiles = next]
    /\ stored' = [stored EXCEPT !.profiles = next]
    /\ mine' = mine \ {p} /\ written' = FALSE
    /\ UNCHANGED elsewhere

Dismisses ==
    /\ kept' = [kept EXCEPT !.onboarded = TRUE]
    /\ stored' = [stored EXCEPT !.onboarded = TRUE]
    /\ UNCHANGED <<elsewhere, mine, written>>

-----------------------------------------------------------------------------
(* The page (Dashboard.tsx).                                                *)

(* The welcome: at a first visit without a link, or to add an address.      *)
Welcomes == (~kept.onboarded /\ nav = Bare) \/ adding

(* Its open form goes with it.                                              *)
Keeps(open) == picking' = IF Welcomes' THEN open ELSE Nowhere

(* The first profile whose address the bar has, in its role; of two, one.   *)
IsAt(p) == p.address = IF p.role = "agent" THEN nav.account ELSE nav.seller

activeProfile == {p \in ToSet(kept.profiles) : IsAt(p)}

(* Without one, what the bar has is offered to be saved.                    *)
unsaved ==
    IF activeProfile # {} THEN {}
    ELSE IF nav.account # Nowhere THEN {[role |-> "agent", address |-> nav.account]}
    ELSE IF nav.seller # Nowhere THEN {[role |-> "seller", address |-> nav.seller]}
    ELSE {}

(* openProfile                                                              *)
PlaceOf(p) ==
    IF p.role = "agent" THEN [view |-> "reins", account |-> p.address, seller |-> Nowhere]
    ELSE [view |-> "meter", account |-> Nowhere, seller |-> p.address]

Picks(p) == AddsProfile(p) /\ Navigates(PlaceOf(p)) /\ adding' = FALSE /\ picking' = Nowhere

(* The switcher: a profile is opened; an open welcome stays.                *)
ProfileOpened(p) ==
    /\ p \in ToSet(kept.profiles)
    /\ Navigates(PlaceOf(p))
    /\ UNCHANGED <<keptVars, adding, budgets, walletVars>>
    /\ Keeps(picking)

ExampleShown ==
    /\ Dismisses
    /\ Navigates(Bare)
    /\ adding' = FALSE /\ picking' = Nowhere
    /\ UNCHANGED <<budgets, walletVars>>

AddPressed ==
    /\ ~adding
    /\ adding' = TRUE
    /\ UNCHANGED <<navVars, keptVars, picking, budgets, walletVars>>

RemovePressed(p) ==
    /\ p \in ToSet(kept.profiles)
    /\ Removes(p)
    /\ UNCHANGED <<navVars, adding, budgets, walletVars>>
    /\ Keeps(picking)

SaveAddressPressed ==
    /\ \E p \in unsaved : Picks(p)
    /\ UNCHANGED <<budgets, walletVars>>

(* The rail: another view of the same addresses.                            *)
ViewChosen(v) ==
    /\ Navigates([view |-> v])
    /\ UNCHANGED <<keptVars, adding, budgets, walletVars>>
    /\ Keeps(picking)

(* The bar of an address, in the view it belongs to.                        *)
AddressChosen(a) ==
    /\ ~Welcomes
    /\ \/ nav.view = "reins" /\ Navigates([account |-> a])
       \/ nav.view = "meter" /\ Navigates([seller |-> a])
    /\ UNCHANGED <<keptVars, adding, picking, budgets, walletVars>>

(* Back and forward.                                                        *)
HistoryMoves(n) ==
    /\ n \in DOMAIN visited /\ n # here
    /\ PopsTo(n)
    /\ UNCHANGED <<keptVars, adding, budgets, walletVars>>
    /\ Keeps(picking)

-----------------------------------------------------------------------------
(* The welcome (Onboarding.tsx).                                            *)

RoleOpened(r) ==
    /\ Welcomes /\ picking # r
    /\ picking' = r
    /\ UNCHANGED <<navVars, keptVars, adding, budgets, walletVars>>

AddressTyped(a) ==
    /\ Welcomes /\ picking \in Roles
    /\ Picks([role |-> picking, address |-> a])
    /\ UNCHANGED <<budgets, walletVars>>

FloatChosen ==
    /\ Welcomes
    /\ Dismisses
    /\ Navigates([view |-> "float"])
    /\ adding' = FALSE /\ picking' = Nowhere
    /\ UNCHANGED <<budgets, walletVars>>

(* A seller's address may come from the wallet.                             *)
WelcomeConnects ==
    /\ Welcomes /\ picking = "seller"
    /\ ~wallet.connecting
    /\ ConnectAsked("welcome")
    /\ UNCHANGED <<navVars, keptVars, adding, picking, budgets>>

(* then(onPick), wherever the user has gone since.                          *)
WelcomeConnected(w) ==
    /\ Connected("welcome", w)
    /\ Picks([role |-> "seller", address |-> w])
    /\ UNCHANGED budgets

WelcomeNotConnected ==
    /\ ConnectFails("welcome")
    /\ UNCHANGED <<navVars, keptVars, adding, picking, budgets>>

-----------------------------------------------------------------------------
(* The tab is loaded again; what was under way is gone.                     *)
TabLoads ==
    /\ budgets.loads < MaxLoads
    /\ budgets' = [budgets EXCEPT !.loads = @ + 1]
    /\ kept' = Initial(stored)
    /\ mine' = (IF written THEN ToSet(stored.profiles) ELSE mine) /\ written' = FALSE
    /\ current' = nav
    /\ adding' = FALSE /\ picking' = Nowhere
    /\ wallet' = [address |-> NoWallet, connecting |-> FALSE, restoring |-> remembered]
    /\ connects' = {} /\ leaving' = FALSE
    /\ UNCHANGED <<visited, here, stored, elsewhere, remembered, visits>>

(* The other tab writes what it knows.                                      *)
OtherTab(p) ==
    /\ budgets.elsewhere < MaxElsewhere
    /\ budgets' = [budgets EXCEPT !.elsewhere = @ + 1]
    /\ elsewhere' = IF Contains(elsewhere, p) THEN Without(elsewhere, p) ELSE <<p>> \o elsewhere
    /\ stored' = [stored EXCEPT !.profiles = elsewhere']
    /\ written' = TRUE
    /\ UNCHANGED <<navVars, kept, mine, adding, picking, walletVars>>

WorkInit ==
    /\ \E link \in Links : visited = <<link>> /\ current = link
    /\ here = 1
    /\ \E profiles \in {<<>>} \cup {<<p>> : p \in Profile}, onboarded \in BOOLEAN :
          /\ stored = [profiles |-> profiles, onboarded |-> onboarded]
          /\ kept = Initial(stored)
          /\ elsewhere = profiles /\ mine = ToSet(profiles)
    /\ written = FALSE
    /\ adding = FALSE /\ picking = Nowhere
    /\ budgets = [elsewhere |-> 0, loads |-> 0]
    /\ WalletInit

WorkNext ==
    \/ \E p \in Profile : ProfileOpened(p) \/ RemovePressed(p) \/ OtherTab(p)
    \/ ExampleShown \/ AddPressed \/ SaveAddressPressed \/ FloatChosen
    \/ \E v \in {"live", "meter", "reins", "float"} : ViewChosen(v)
    \/ \E a \in Addrs \cup {Nowhere} : AddressChosen(a)
    \/ \E n \in 1..MaxVisits : HistoryMoves(n)
    \/ \E r \in Roles : RoleOpened(r)
    \/ \E a \in Addrs : AddressTyped(a)
    \/ WelcomeConnects \/ WelcomeNotConnected
    \/ \E w \in Wallets : WelcomeConnected(w)
    \/ TabLoads

WorkSpec == WorkInit /\ [][WorkNext]_workVars

-----------------------------------------------------------------------------
(* Properties.                                                              *)

(* The list has what the user saved and did not remove, each once, in
   whatever order; and storage has it too, so that it is there after the tab
   is loaded again - unless another tab has written since, which knows only
   its own.                                                                 *)
ProfilesAreKept ==
    /\ ToSet(kept.profiles) = mine /\ IsInjective(kept.profiles)
    /\ ~written => stored.profiles = kept.profiles

(* Whoever was welcomed is not again, whatever he removes and wherever he
   goes; a link with an address is not covered by the welcome.              *)
WelcomedOnce ==
    ~adding /\ Welcomes => mine = {} /\ ~kept.onboarded /\ nav.account = Nowhere

(* One step moves through the history or changes, of the place that is
   shown, what was asked for: a view leaves the addresses, an address the
   view and the other's address - also after going back and forth
   (useView.ts:30).                                                         *)
StepsAreSmall ==
    here' # here /\ visited' # visited =>
        LET changed == {f \in DOMAIN Bare : nav'[f] # nav[f]} IN
        \/ Cardinality(changed) <= 1
        \/ nav' = Bare \/ \E p \in Profile : nav' = PlaceOf(p)
=============================================================================
