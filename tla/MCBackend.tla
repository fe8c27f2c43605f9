------------------------------- MODULE MCBackend -------------------------------
(***************************************************************************)
(* The facilitator for TLC with the services of the backend beside it:     *)
(* what a seller asks for a request, what sellers read of their sales, what*)
(* the dashboard is told of the agents.  They share no state, so each is   *)
(* explored with the others at rest.                                       *)
(***************************************************************************)
EXTENDS MCFacilitator, Reports, Gateway

CONSTANTS p1, p2, t1, t2, t3, q1, q2, q3

TwoSellers == {p1, p2}
ThreeTxs == {t1, t2, t3}
OneAlien == {t2}
OneSwap == {t3}
ThreeReports == 1..3
ThreeRequests == {q1, q2, q3}
OneToken == {q2}
OneDemo == {q3}

BackendInit == Init /\ SalesInit /\ DeskInit /\ GatewayInit

FacilitatorRests == Init

GatewayRests == GatewayInit /\ ~exactOn

FacilitatorStep ==
    /\ SalesInit /\ DeskInit /\ GatewayRests
    /\ Next
    /\ UNCHANGED <<salesVars, deskVars, gatewayVars>>

(* The catalogue and the report: nothing of one is written while the other
   is explored, and only the reporter has claims, of two payments.          *)
SalesStep ==
    /\ FacilitatorRests /\ DeskInit /\ GatewayRests
    /\ SalesNext
    /\ \/ /\ rows = <<>> /\ report = NoReport
          /\ UNCHANGED <<claimed, inFlight, report>>
       \/ /\ resource.payTo = NoPayTo /\ \A s \in Sellers : unlisted[s] = 0
          /\ UNCHANGED <<resource, unlisted>>
          /\ claimed'[p2] = 0 /\ TotalAccepted' <= 2
    /\ UNCHANGED <<vars, deskVars, gatewayVars>>

(* The reports, sent in turn, two at once, and the agents.                  *)
DeskStep ==
    /\ FacilitatorRests /\ SalesInit /\ GatewayRests
    /\ DeskNext
    /\ \/ /\ \A n \in Runs : process[n] = "none"
          /\ UNCHANGED runVars
          /\ \A r, q \in Reports :
                r < q /\ polling[r].at = "idle" /\ polling'[r].at = "idle"
                   => polling'[q] = polling[q]
          /\ outcome' # outcome =>
                \E r \in Reports : polling[r].at = "polling" /\ outcome'[polling[r].tx] # "NOT_FOUND"
          /\ Cardinality({r \in Reports : polling'[r].at = "polling"}) <= 2
          /\ polling'[3].at # "idle" => polling'[3].tx = polling'[1].tx
       \/ /\ \A t \in Txs : outcome[t] = "NOT_FOUND"
          /\ \A r \in Reports : polling[r].at = "idle"
          /\ UNCHANGED reportVars
    /\ UNCHANGED <<vars, salesVars, gatewayVars>>

(* Two of the three requests: a plain one, one of a token's seller, one to
   the facilitator's own resources.                                         *)
GatewayStep ==
    /\ FacilitatorRests /\ SalesInit /\ DeskInit
    /\ GatewayNext
    /\ Cardinality({r \in Requests : request'[r].at # "new"}) <= 2
    /\ UNCHANGED <<vars, salesVars, deskVars>>

BackendNext == FacilitatorStep \/ SalesStep \/ DeskStep \/ GatewayStep

BackendSpec == BackendInit /\ [][BackendNext]_<<vars, salesVars, deskVars, gatewayVars>>
=============================================================================
