------------------------------ MODULE Submission ------------------------------
(***************************************************************************)
(* How operations get on chain: invokeWithAuth of the SDK (packages/sdk,   *)
(* soroban.ts), whose transactions a relayer account pays for;             *)
(* StellarChain.claim and setFrozen of the facilitator, which share its    *)
(* account and take turns in a queue; and what the owner does in the       *)
(* console (app.mandate, lib/account.ts and lib/chain.ts), signed and paid *)
(* for by the wallet that several tabs may share.  The network, its RPC    *)
(* node and the other users of an account act between any two of their     *)
(* calls.                                                                  *)
(*                                                                         *)
(* An operation carries the signed authorisation of an account; a          *)
(* transaction carries an operation, a sequence number of the account that *)
(* pays and the time after which no ledger may include it.                 *)
(* Time passes in ticks of some twenty seconds.                            *)
(***************************************************************************)
EXTENDS Integers, Sequences, FiniteSets

CONSTANTS
    Invocations,    \* calls of invokeWithAuth, paid for by the relayer
    Proofs,         \* those with submitOnFailure
    Freezes,        \* calls of setFrozen, paid for by the facilitator
    ClaimCalls,     \* calls of chain.claim, paid for by the facilitator
    WalletOps,      \* uses of the console's invoke, createAccount, invokeAsOwner
    OwnerOps,       \* those of invokeAsOwner, with an authorisation to sign
    Attempts,       \* attempts of invokeWithAuth (3)
    TxLife,         \* setTimeout(60), in ticks
    AuthLife,       \* authValidLedgers, in ticks
    MaxOthers,      \* transactions of other processes on the relayer account
    MaxNow,         \* ticks explored
    Unreliable      \* TRUE: answers get lost, the node lags, networks drop

ASSUME SubmissionAssumption ==
    /\ Proofs \subseteq Invocations
    /\ Invocations \cap Freezes = {} /\ Invocations \cap ClaimCalls = {}
    /\ Freezes \cap ClaimCalls = {}
    /\ OwnerOps \subseteq WalletOps
    /\ WalletOps \cap (Invocations \cup Freezes \cup ClaimCalls) = {}
    /\ Attempts \in Nat \ {0} /\ TxLife \in Nat \ {0, 1} /\ AuthLife \in Nat
    /\ MaxOthers \in Nat /\ MaxNow \in Nat
    /\ Unreliable \in BOOLEAN
    /\ "other" \notin Invocations \cup Freezes \cup ClaimCalls \cup WalletOps

Own == Freezes \cup ClaimCalls
Ops == Invocations \cup Own \cup WalletOps
Accounts == {"relayer", "facilitator", "wallet"}

VARIABLES
    now,        \* the network's time
    sequence,   \* by account: transactions included so far
    flying,     \* transactions the network has and has not included
    results,    \* transactions included, with their success
    visible,    \* those of them the RPC node has ingested
    op,         \* by operation: where its call is
    queue,      \* StellarChain.queue: own operations, first the running one
    others      \* transactions of other processes so far

VARIABLES       \* ghosts
    overlooked, \* operations given up while their transaction could count
    collided    \* operations that met another one's sequence number

subVars == <<now, sequence, flying, results, visible, op, queue, others, overlooked, collided>>

Payer(o) ==
    IF o \in Own THEN "facilitator"
    ELSE IF o \in WalletOps THEN "wallet"
    ELSE "relayer"

NoOp == [at |-> "idle", try |-> 1, seq |-> 0, until |-> 0, auth |-> 0, since |-> 0]

Moves(o, at) == op' = [op EXCEPT ![o].at = at]

(* The next own operation starts when the one before has settled, whichever
   way: run.catch(() => undefined).                                         *)
Leaves(o) == queue' = IF o \in Own THEN Tail(queue) ELSE queue

Ends(o, outcome) == op' = [op EXCEPT ![o] = [NoOp EXCEPT !.at = outcome]] /\ Leaves(o)

-----------------------------------------------------------------------------
(* The caller.                                                              *)

(* Mutant: no queue.                                                        *)
MayRun_anytime(o) == TRUE

MayRun(o) == o \in Own => Head(queue) = o

Requested(o) ==
    /\ op[o] = NoOp
    /\ Moves(o, "called")
    /\ queue' = IF o \in Own THEN Append(queue, o) ELSE queue
    /\ UNCHANGED <<now, sequence, flying, results, visible, others, overlooked, collided>>

(* The recording simulation, the signature over the authorisation entry with
   its nonce and last ledger, the enforcing simulation.                     *)
Authorises(o) ==
    /\ op[o].at = "called" /\ MayRun(o) /\ o \notin WalletOps
    /\ op' = [op EXCEPT ![o].at = "ready", ![o].auth = now + AuthLife]
    /\ UNCHANGED <<now, sequence, flying, results, visible, queue, others, overlooked, collided>>

(* A simulation refuses: the call throws.  With submitOnFailure, what is
   refused is signed all the same, with the resources a probe needs.        *)
Refused(o) ==
    /\ op[o].at = "called" /\ MayRun(o) /\ o \notin WalletOps
    /\ \/ Ends(o, "failed")
       \/ /\ o \in Proofs
          /\ op' = [op EXCEPT ![o].at = "proving", ![o].auth = now + AuthLife]
          /\ UNCHANGED queue
    /\ UNCHANGED <<now, sequence, flying, results, visible, others, overlooked, collided>>

(* How long a transaction of this operation may be included.                *)
Life(o) == IF o \in ClaimCalls \cup WalletOps THEN 2 * TxLife ELSE TxLife

KnownSequence(acct) == Cardinality({t \in visible : t.acct = acct})

(* getAccount and build: the number follows the last one the node knows.
   (The transactions of this model are all an account ever sends.)          *)
Builds(o) ==
    /\ op[o].at \in {"ready", "proving"}
    /\ op' = [op EXCEPT ![o].at = IF @ = "ready" THEN "built" ELSE "proof",
                        ![o].seq = KnownSequence(Payer(o)) + 1, ![o].until = now + Life(o)]
    /\ UNCHANGED <<now, sequence, flying, results, visible, queue, others, overlooked, collided>>

(* The console reads the sequence number before anything else.              *)
SourceRead(o) ==
    /\ op[o].at = "called" /\ o \in WalletOps
    /\ op' = [op EXCEPT ![o].at = "read", ![o].seq = KnownSequence("wallet") + 1,
                        ![o].auth = now + AuthLife]
    /\ UNCHANGED <<now, sequence, flying, results, visible, queue, others, overlooked, collided>>

(* The transaction is built, after the wallet has signed the authorisation
   where there is one: the user takes his time.                             *)
Prepared(o) ==
    /\ op[o].at = "read"
    /\ op' = [op EXCEPT ![o].at = "signing", ![o].until = now + Life(o),
                        ![o].auth = IF o \in OwnerOps THEN @ ELSE now + Life(o)]
    /\ UNCHANGED <<now, sequence, flying, results, visible, queue, others, overlooked, collided>>

(* The wallet signs, however old the transaction is.                        *)
WalletSigns(o) ==
    /\ op[o].at = "signing"
    /\ Moves(o, "built")
    /\ UNCHANGED <<now, sequence, flying, results, visible, queue, others, overlooked, collided>>

(* A simulation refuses, or the user does.                                  *)
WalletRefuses(o) ==
    /\ op[o].at \in {"read", "signing"}
    /\ Ends(o, "failed")
    /\ UNCHANGED <<now, sequence, flying, results, visible, others, overlooked, collided>>

Tx(o) == [op |-> o, acct |-> Payer(o), try |-> op[o].try, seq |-> op[o].seq,
          until |-> op[o].until, auth |-> op[o].auth]

BadSequence(o) == op[o].seq # sequence[Payer(o)] + 1

(* A transaction of the same account waits already: TRY_AGAIN_LATER.        *)
Occupied(o) == \E t \in flying : t.acct = Payer(o)

(* status ERROR: tx_bad_seq starts the next attempt of invokeWithAuth, all
   else throws.  TRY_AGAIN_LATER throws in the contract client only.        *)
SendRefused(o) ==
    /\ op[o].at \in {"built", "proof"}
    /\ BadSequence(o) \/ now > op[o].until \/ (o \in ClaimCalls /\ Occupied(o))
    /\ IF BadSequence(o) /\ op[o].at = "built" /\ o \in Invocations /\ op[o].try < Attempts
       THEN /\ op' = [op EXCEPT ![o].at = "ready", ![o].try = @ + 1]
            /\ UNCHANGED queue
       ELSE Ends(o, "failed")
    /\ collided' = IF now > op[o].until THEN collided ELSE collided \cup {o}
    /\ UNCHANGED <<now, sequence, flying, results, visible, others, overlooked>>

(* status PENDING, or TRY_AGAIN_LATER, which is polled for like PENDING.    *)
Sends(o) ==
    /\ op[o].at \in {"built", "proof"}
    /\ ~BadSequence(o) /\ now <= op[o].until
    /\ IF Occupied(o)
       THEN /\ o \notin ClaimCalls
            /\ collided' = collided \cup {o}
            /\ UNCHANGED flying
       ELSE /\ flying' = flying \cup {Tx(o)}
            /\ UNCHANGED collided
    /\ op' = [op EXCEPT ![o].at = IF @ = "built" THEN "polling" ELSE "watching",
                        ![o].since = now]
    /\ UNCHANGED <<now, sequence, results, visible, queue, others, overlooked>>

OfThisTry(o) == {r \in visible : r.op = o /\ r.try = op[o].try}

(* pollTransaction finds it.  doClaim does not ask whether it succeeded; the
   success of what a simulation refused is an error of its own.             *)
Found(o) ==
    /\ op[o].at \in {"polling", "watching"}
    /\ \E r \in OfThisTry(o) :
          Ends(o, IF op[o].at = "polling"
                  THEN IF r.ok \/ o \in ClaimCalls THEN "ok" ELSE "failed"
                  ELSE IF r.ok THEN "diverged" ELSE "proven")
    /\ UNCHANGED <<now, sequence, flying, results, visible, others, overlooked, collided>>

(* Mutant: a poll that finds nothing is the last one.                       *)
Patient_once(o) == FALSE

(* 60 polls a second apart, 40 in setFrozen, 30 for a proof; 30 polls two
   seconds apart in the console, whose transaction lives twice as long; the
   contract client's last as long as its transaction.                       *)
Patient(o) ==
    IF op[o].at = "watching" THEN now < op[o].since + 1
    ELSE IF o \in Freezes THEN now < op[o].since + TxLife - 1
    ELSE IF o \in WalletOps THEN now < op[o].since + TxLife
    ELSE now <= op[o].since + Life(o)

(* What the caller is told when it has polled enough.                       *)
GivenUp(o) ==
    IF op[o].at = "watching" THEN "proven"
    ELSE IF o \in WalletOps THEN "unconfirmed"
    ELSE "failed"

(* All polls find nothing: the next attempt, with the signed operation of
   the first and a new sequence number, or the end.                         *)
NotFound(o) ==
    /\ op[o].at \in {"polling", "watching"}
    /\ OfThisTry(o) = {} /\ ~Patient(o)
    /\ IF op[o].at = "polling" /\ o \in Invocations /\ op[o].try < Attempts
       THEN /\ op' = [op EXCEPT ![o].at = "ready", ![o].try = @ + 1]
            /\ UNCHANGED queue
       ELSE Ends(o, GivenUp(o))
    /\ overlooked' = IF \E r \in results \ visible : r.op = o
                     THEN overlooked \cup {o} ELSE overlooked
    /\ UNCHANGED <<now, sequence, flying, results, visible, others, collided>>

(* A call to the node fails: the exception ends the call wherever it is.    *)
AnswerLost(o) ==
    /\ Unreliable
    /\ op[o].at \in {"called", "ready", "proving", "read", "built", "proof", "polling",
                     "watching"}
    /\ MayRun(o)
    /\ \/ Ends(o, "lost") /\ UNCHANGED flying
       \/ /\ op[o].at \in {"built", "proof"}
          /\ ~BadSequence(o) /\ ~Occupied(o) /\ now <= op[o].until
          /\ flying' = flying \cup {Tx(o)}
          /\ Ends(o, "lost")
    /\ UNCHANGED <<now, sequence, results, visible, others, overlooked, collided>>

-----------------------------------------------------------------------------
(* The network.                                                             *)

(* Mutant: each attempt signs an authorisation of its own.                  *)
Spent_perTry(t) == \E r \in results : r.op = t.op /\ r.try = t.try /\ r.ok

(* The nonce of the operation's authorisation has been used.                *)
Spent(t) == \E r \in results : r.op = t.op /\ r.ok

(* A ledger includes a transaction; its call fails when the authorisation is
   used or out of date, or when the contract refuses it now.                *)
Included(t) ==
    /\ t.seq = sequence[t.acct] + 1 /\ now <= t.until
    /\ \E ok \in BOOLEAN :
          /\ ok => ~Spent(t) /\ now <= t.auth
          /\ results' = results \cup {[op |-> t.op, acct |-> t.acct, try |-> t.try, ok |-> ok]}
    /\ sequence' = [sequence EXCEPT ![t.acct] = @ + 1]
    /\ flying' = flying \ {t}
    /\ UNCHANGED <<now, visible, op, queue, others, overlooked, collided>>

(* It is dropped: out of date, overtaken, or for want of room.              *)
Dropped(t) ==
    /\ now > t.until \/ t.seq # sequence[t.acct] + 1 \/ Unreliable
    /\ flying' = flying \ {t}
    /\ UNCHANGED <<now, sequence, results, visible, op, queue, others, overlooked, collided>>

(* The node ingests what was included.                                      *)
Ingested ==
    /\ visible # results
    /\ visible' = results
    /\ UNCHANGED <<now, sequence, flying, results, op, queue, others, overlooked, collided>>

(* Another process has the relayer pay.                                     *)
OtherIncluded ==
    /\ others < MaxOthers
    /\ others' = others + 1
    /\ sequence' = [sequence EXCEPT !["relayer"] = @ + 1]
    /\ results' = results \cup {[op |-> "other", acct |-> "relayer", try |-> others + 1,
                                 ok |-> TRUE]}
    /\ UNCHANGED <<now, flying, visible, op, queue, overlooked, collided>>

(* A reliable node knows the ledgers up to now.                             *)
Ticks ==
    /\ now < MaxNow
    /\ Unreliable \/ visible = results
    /\ now' = now + 1
    /\ UNCHANGED <<sequence, flying, results, visible, op, queue, others, overlooked, collided>>

-----------------------------------------------------------------------------
SubInit ==
    /\ now = 0 /\ sequence = [a \in Accounts |-> 0]
    /\ flying = {} /\ results = {} /\ visible = {}
    /\ op = [o \in Ops |-> NoOp]
    /\ queue = <<>> /\ others = 0
    /\ overlooked = {} /\ collided = {}

OpStep(o) ==
    \/ Requested(o) \/ Authorises(o) \/ Refused(o) \/ Builds(o) \/ SendRefused(o)
    \/ SourceRead(o) \/ Prepared(o) \/ WalletSigns(o) \/ WalletRefuses(o)
    \/ Sends(o) \/ Found(o) \/ NotFound(o) \/ AnswerLost(o)

SubNext ==
    \/ \E o \in Ops : OpStep(o)
    \/ \E t \in flying : Included(t) \/ Dropped(t)
    \/ Ingested \/ OtherIncluded \/ Ticks

SubSpec == SubInit /\ [][SubNext]_subVars

-----------------------------------------------------------------------------
(* Properties.                                                              *)

AppliedBy(o) == {r \in results : r.op = o /\ r.ok}

SubTypeOK ==
    /\ now \in 0..MaxNow
    /\ \A o \in Ops : /\ op[o].try \in 1..Attempts
                      /\ op[o].seq \in 0..Cardinality(results) + 1
    /\ visible \subseteq results
    /\ \A a \in Accounts : sequence[a] = Cardinality({r \in results : r.acct = a})
    /\ \A i, j \in DOMAIN queue : queue[i] = queue[j] => i = j
    /\ others \in 0..MaxOthers

(* However often invokeWithAuth sends an operation again, and whatever became
   of the attempts before, the chain applies it once (soroban.ts:199: the
   signed authorisation is used again on purpose).                          *)
AppliedOnce(o) == Cardinality(AppliedBy(o)) <= 1

(* The queue keeps the facilitator's transactions out of each other's way:
   one meets a used sequence number or another one pending only after a call
   before it ended without its result.                                      *)
QueueAvoidsCollisions ==
    \A o \in collided \cap Own : \E p \in Own \ {o} : op[p].at \in {"failed", "lost"}

(* A call that reports success was applied, one that throws was not and will
   not be - but for a node that has not seen the ledger that includes it, a
   claim, whose result nobody reads, and the two that poll for less time than
   their transaction lives: setFrozen (stellar.chain.ts:332, 374), and the
   failed transaction of submitOnFailure, given up as a proof of the refusal
   (soroban.ts:187-190).  The console polls for less time, too, and says
   neither (lib/account.ts:248).  Nothing is applied twice, nor are the
   facilitator's transactions in each other's way.                          *)
ReportedIsTrue ==
    /\ \A o \in Ops :
          /\ AppliedOnce(o)
          /\ op[o].at = "ok" /\ o \notin ClaimCalls => AppliedBy(o) # {}
          /\ op[o].at = "failed" /\ AppliedBy(o) # {} => o \in overlooked \cup Freezes
    /\ QueueAvoidsCollisions
=============================================================================
