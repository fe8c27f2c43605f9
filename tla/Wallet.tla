--------------------------------- MODULE Wallet ---------------------------------
(***************************************************************************)
(* The wallet of the console (app.mandate/lib/wallet.ts): it is remembered *)
(* in the browser's storage, restored silently, connected and disconnected *)
(* by calls of the wallet kit, each of which may end after the next began. *)
(***************************************************************************)
LOCAL INSTANCE Integers

CONSTANTS
    Wallets,        \* addresses of the user's wallets
    NoWallet,
    MaxTurns        \* times he connects or disconnects

ASSUME WalletAssumption == NoWallet \notin Wallets /\ MaxTurns \in Nat

VARIABLES
    wallet,     \* useWallet: [address, connecting, restoring]
    connects,   \* connect() under way, by what called it: "switcher", "panel", "create"
    leaving,    \* whether disconnect() is under way
    remembered, \* localStorage
    visits      \* ghost: how often he connected or disconnected

walletVars == <<wallet, connects, leaving, remembered, visits>>

(* A wallet that is remembered is asked for its address at the start.       *)
WalletInit ==
    /\ remembered \in BOOLEAN
    /\ wallet = [address |-> NoWallet, connecting |-> FALSE, restoring |-> remembered]
    /\ connects = {} /\ leaving = FALSE
    /\ visits = 0

(* The address comes whatever was done meanwhile; a failure is not told.    *)
WalletRestored ==
    /\ wallet.restoring
    /\ \E w \in Wallets \cup {wallet.address} :
          wallet' = [wallet EXCEPT !.restoring = FALSE, !.address = w]
    /\ UNCHANGED <<connects, leaving, remembered, visits>>

ConnectAsked(by) ==
    /\ by \notin connects
    /\ visits < MaxTurns
    /\ wallet' = [wallet EXCEPT !.connecting = TRUE]
    /\ connects' = connects \cup {by}
    /\ visits' = visits + 1
    /\ UNCHANGED <<leaving, remembered>>

(* The buttons are there while no wallet is connected; but for that of the
   switcher they are off while one connects.                                *)
ConnectPressed(by) ==
    /\ wallet.address = NoWallet
    /\ by # "switcher" => ~wallet.connecting
    /\ ConnectAsked(by)

(* The user chooses a wallet; storage may be closed.                        *)
Connected(by, w) ==
    /\ by \in connects
    /\ wallet' = [wallet EXCEPT !.address = w, !.connecting = FALSE]
    /\ connects' = connects \ {by}
    /\ remembered' = TRUE
    /\ UNCHANGED <<leaving, visits>>

(* He closes the window, or the kit fails: whatever was connected is gone.  *)
ConnectFails(by) ==
    /\ by \in connects
    /\ wallet' = [wallet EXCEPT !.address = NoWallet, !.connecting = FALSE]
    /\ connects' = connects \ {by}
    /\ UNCHANGED <<leaving, remembered, visits>>

(* (One at a time here.)                                                    *)
DisconnectPressed ==
    /\ wallet.address # NoWallet /\ ~leaving
    /\ visits < MaxTurns
    /\ leaving' = TRUE
    /\ remembered' = FALSE
    /\ visits' = visits + 1
    /\ UNCHANGED <<wallet, connects>>

Disconnected ==
    /\ leaving
    /\ wallet' = [wallet EXCEPT !.address = NoWallet, !.connecting = FALSE]
    /\ leaving' = FALSE
    /\ UNCHANGED <<connects, remembered, visits>>

WalletNext ==
    \/ WalletRestored
    \/ \E by \in {"switcher", "panel"} :
          \/ ConnectPressed(by) \/ ConnectFails(by)
          \/ \E w \in Wallets : Connected(by, w)
    \/ DisconnectPressed \/ Disconnected
=============================================================================
