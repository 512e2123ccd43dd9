------------------------------ MODULE MCNetwork ------------------------------
(* Three parts whose peers are reached over a network and which share      *)
(* nothing: the webhooks and the event streams of the API, and the         *)
(* authority set with a consensus round.  A behaviour is one of one of     *)
(* them.  Four validators, one of whom may be faulty.                      *)
EXTENDS WebhookDelivery, EventStream, Governance

CONSTANTS s1, e1, e2, c1, c2, k1, k2, t1, t2, a, b, c

TwoTopics == {{t1}, {Every}}

VARIABLE which

mcVars == <<which, vars, streamVars, governanceVars>>

MCInit ==
    /\ which \in {"webhook", "stream", "governance"}
    /\ Init /\ StreamInit /\ GovernanceInit

MCNext ==
    \/ which = "webhook" /\ Next /\ UNCHANGED <<which, streamVars, governanceVars>>
    \/ which = "stream" /\ StreamNext /\ UNCHANGED <<which, vars, governanceVars>>
    \/ which = "governance" /\ GovernanceNext /\ UNCHANGED <<which, vars, streamVars>>

RoundVotes(ty) == which = "governance" /\ Votes(ty) /\ UNCHANGED <<which, vars, streamVars>>

MCFairness == Fairness /\ \A ty \in Types : WF_mcVars(RoundVotes(ty))

MCSpec == MCInit /\ [][MCNext]_mcVars /\ MCFairness

(* The promises to whoever waits: the deliveries, and the round.           *)
RoundDecides == which = "governance" => Decides
=============================================================================
