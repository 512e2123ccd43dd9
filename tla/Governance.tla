------------------------------ MODULE Governance ------------------------------
(***************************************************************************)
(* The authority set and the state of a consensus round: objects of        *)
(* crates/governance that do not call each other, side by side.            *)
(***************************************************************************)
EXTENDS AuthoritySet, Consensus

governanceVars == <<setVars, roundVars>>

GovernanceInit == SetInit /\ RoundInit

GovernanceNext ==
    \/ SetNext /\ UNCHANGED roundVars
    \/ RoundNext /\ UNCHANGED setVars

\* External: what the round may count on.
Votes(ty) == HonestVote(ty) /\ UNCHANGED setVars

GovernanceSpec == GovernanceInit /\ [][GovernanceNext]_governanceVars /\ \A ty \in Types : WF_governanceVars(Votes(ty))

-----------------------------------------------------------------------------
(* The types of both. *)
GovernanceTypeOK == SetTypeOK /\ RoundTypeOK
=============================================================================
