---------------------------------- MODULE Desk ----------------------------------
(***************************************************************************)
(* What the dashboard is told of the agents: AgentRunner                   *)
(* (demo/controls.module.ts) starts an agent as a process and passes on    *)
(* its output and its end; agents tell POST /v1/report of their            *)
(* transactions (agents/common.ts), which asks the chain before it tells   *)
(* the dashboard (audit/report.controller.ts).                             *)
(***************************************************************************)
EXTENDS Integers, Sequences, FiniteSets, SequencesExt

CONSTANTS
    Txs,            \* transactions of the account
    Alien,          \* transactions that do not name the account
    SwapReports,    \* transactions reported with kind "swap" and details
    Reports,        \* calls of POST /v1/report, one each
    POLL_ATTEMPTS,
    MAX_REPORTED,
    MaxRuns,        \* agents started
    MaxRestarts     \* of the backend

ASSUME DeskAssumption ==
    /\ Alien \subseteq Txs /\ SwapReports \subseteq Txs
    /\ {POLL_ATTEMPTS, MAX_REPORTED} \subseteq Nat \ {0}
    /\ {MaxRuns, MaxRestarts} \subseteq Nat

VARIABLES
    outcome,    \* by transaction, as the RPC node knows it: "NOT_FOUND", "SUCCESS", "FAILED"
    polling,    \* by report: [at, tx, tries]
    reported,   \* ReportController.reported, oldest first
    current,    \* AgentRunner.current: the run, 0 if none
    process,    \* by run: "none", "alive", "gone"
    restarts

VARIABLES       \* ghosts
    told,       \* what the dashboard was told of transactions, in order
    forgotten,  \* keys that reported no longer holds
    exits,      \* by run: how many times agent.exited was emitted
    trouble     \* runs whose process could not be started or killed

reportVars == <<outcome, polling, reported, told, forgotten>>
runVars == <<current, process, exits, trouble>>
deskVars == <<reportVars, runVars, restarts>>

Runs == 1..MaxRuns

NoPoll == [at |-> "idle", tx |-> CHOOSE t \in Txs : TRUE, tries |-> 0]

-----------------------------------------------------------------------------
(* The transaction is on the chain, and the node has seen it.               *)
Applied(t) ==
    /\ outcome[t] = "NOT_FOUND"
    /\ \E o \in {"SUCCESS", "FAILED"} : outcome' = [outcome EXCEPT ![t] = o]
    /\ UNCHANGED <<polling, reported, told, forgotten, runVars, restarts>>

-----------------------------------------------------------------------------
(* ReportController.report.                                                 *)

ReportSent(r, t) ==
    /\ polling[r].at = "idle"
    /\ polling' = [polling EXCEPT ![r] = [at |-> "polling", tx |-> t, tries |-> 0]]
    /\ UNCHANGED <<outcome, reported, told, forgotten, runVars, restarts>>

Answers(r, code) == polling' = [polling EXCEPT ![r].at = code, ![r].tries = 0]

(* NOT_FOUND is asked again a second later, POLL_ATTEMPTS times in all.     *)
StatusUnknown(r) ==
    /\ polling[r].at = "polling" /\ outcome[polling[r].tx] = "NOT_FOUND"
    /\ IF polling[r].tries + 1 < POLL_ATTEMPTS
       THEN polling' = [polling EXCEPT ![r].tries = @ + 1]
       ELSE Answers(r, "REPORT_NOT_VERIFIED")
    /\ UNCHANGED <<outcome, reported, told, forgotten, runVars, restarts>>

(* The node fails: CHAIN_UNAVAILABLE.                                       *)
StatusFails(r) ==
    /\ polling[r].at = "polling"
    /\ Answers(r, "CHAIN_UNAVAILABLE")
    /\ UNCHANGED <<outcome, reported, told, forgotten, runVars, restarts>>

TypeFor(t) == IF outcome[t] = "SUCCESS" THEN "dex.swapped" ELSE "chain.rejected"

(* A success is reported as a swap only; nobody else's transaction is.      *)
Acceptable(t) == t \notin Alien /\ (outcome[t] = "SUCCESS" => t \in SwapReports)

(* Mutant: the pair is not remembered.                                      *)
KeptWith_not(key) == reported

(* once(): the oldest pair makes room.                                      *)
KeptWith(key) ==
    Append(IF Len(reported) >= MAX_REPORTED THEN Tail(reported) ELSE reported, key)

StatusFound(r) ==
    LET t == polling[r].tx
        key == <<TypeFor(t), t>> IN
    /\ polling[r].at = "polling" /\ outcome[t] # "NOT_FOUND"
    /\ \/ /\ ~Acceptable(t)
          /\ Answers(r, "REPORT_NOT_VERIFIED")
          /\ UNCHANGED <<reported, told, forgotten>>
       \/ /\ Acceptable(t) /\ Contains(reported, key)
          /\ Answers(r, "DUPLICATE")
          /\ UNCHANGED <<reported, told, forgotten>>
       \/ /\ Acceptable(t) /\ ~Contains(reported, key)
          /\ Answers(r, "ok")
          /\ reported' = KeptWith(key)
          /\ forgotten' = forgotten \cup (ToSet(reported) \ ToSet(KeptWith(key)))
          /\ told' = Append(told, key)
    /\ UNCHANGED <<outcome, runVars, restarts>>

-----------------------------------------------------------------------------
(* AgentRunner.                                                             *)

(* A second agent is refused (AGENT_BUSY).  The process starts, or its error
   event ends the run before it has begun.                                  *)
AgentStarts(n) ==
    /\ current = 0 /\ process[n] = "none"
    /\ \A m \in Runs : m < n => process[m] # "none"
    /\ current' = n
    /\ \/ process' = [process EXCEPT ![n] = "alive"] /\ UNCHANGED trouble
       \/ process' = [process EXCEPT ![n] = "gone"] /\ trouble' = trouble \cup {n}
    /\ UNCHANGED <<reportVars, exits, restarts>>

(* Mutant: done() does not ask whether the run is over already.             *)
StillRuns_always(n) == TRUE

(* this.current?.runId === runId                                            *)
StillRuns(n) == current = n

(* done: of the exit event, and of the error event.                         *)
Done(n) ==
    IF StillRuns(n)
    THEN current' = 0 /\ exits' = [exits EXCEPT ![n] = @ + 1]
    ELSE UNCHANGED <<current, exits>>

(* The exit event: the agent has finished, or MAX_RUN_MS have passed.       *)
AgentExits(n) ==
    /\ process[n] = "alive"
    /\ process' = [process EXCEPT ![n] = "gone"]
    /\ Done(n)
    /\ UNCHANGED <<reportVars, trouble, restarts>>

(* The error event: it could not be started, or not be killed; then it lives
   on, and its exit comes later.                                            *)
AgentErrs(n) ==
    /\ process[n] # "none"
    /\ process[n] = "gone" => n \in trouble /\ current = n
    /\ trouble' = trouble \cup {n}
    /\ Done(n)
    /\ UNCHANGED <<reportVars, process, restarts>>

(* The backend stops, taking its agent with it, or the agent is orphaned.   *)
DeskRestarts ==
    /\ restarts < MaxRestarts
    /\ restarts' = restarts + 1
    /\ polling' = [r \in Reports |-> IF polling[r].at = "polling"
                                     THEN [polling[r] EXCEPT !.at = "lost", !.tries = 0]
                                     ELSE polling[r]]
    /\ reported' = <<>> /\ forgotten' = forgotten \cup ToSet(reported)
    /\ current' = 0
    /\ process' = [n \in Runs |-> IF process[n] = "alive" THEN "gone" ELSE process[n]]
    /\ UNCHANGED <<outcome, told, exits, trouble>>

-----------------------------------------------------------------------------
DeskInit ==
    /\ outcome = [t \in Txs |-> "NOT_FOUND"]
    /\ polling = [r \in Reports |-> NoPoll]
    /\ reported = <<>> /\ told = <<>> /\ forgotten = {}
    /\ current = 0 /\ process = [n \in Runs |-> "none"]
    /\ exits = [n \in Runs |-> 0] /\ trouble = {}
    /\ restarts = 0

DeskNext ==
    \/ \E t \in Txs : Applied(t)
    \/ \E r \in Reports : \/ \E t \in Txs : ReportSent(r, t)
                          \/ StatusUnknown(r) \/ StatusFails(r) \/ StatusFound(r)
    \/ \E n \in Runs : AgentStarts(n) \/ AgentExits(n) \/ AgentErrs(n)
    \/ DeskRestarts

DeskSpec == DeskInit /\ [][DeskNext]_deskVars

-----------------------------------------------------------------------------
(* Properties.                                                              *)

ToldOf(key) == {i \in DOMAIN told : told[i] = key}

(* However many report a transaction at once, the dashboard is told of it
   once, as what the chain says it is, and only if it names the account; a
   second time only after the pair was pushed out or the backend restarted
   (report.controller.ts:43).  A reporter who is refused as the second is
   right to be: the first was told.                                         *)
TransactionsToldOnce ==
    /\ \A i \in DOMAIN told :
          LET key == told[i] IN
          /\ key[2] \notin Alien /\ key[1] = TypeFor(key[2])
          /\ Cardinality(ToldOf(key)) > 1 => key \in forgotten
    /\ \A r \in Reports :
          polling[r].at = "DUPLICATE" => \E i \in DOMAIN told : told[i][2] = polling[r].tx

(* Of a run's end it is told once, also where exit and error both come, and
   while one runs no other does - but for one that could not be killed.     *)
RunsToldOnce ==
    /\ \A n \in Runs :
          /\ exits[n] =< 1
          /\ process[n] = "gone" /\ restarts = 0 /\ n \notin trouble => exits[n] = 1
          /\ process[n] = "alive" => current = n \/ n \in trouble
    /\ current # 0 => exits[current] = 0

(* The dashboard is told everything once.                                   *)
ToldOnce == TransactionsToldOnce /\ RunsToldOnce
=============================================================================
