-------------------------- MODULE MCKycOrchestrator --------------------------
(* KycOrchestrator with the basic tier and interchangeable workflows.        *)
EXTENDS KycOrchestrator, TLC
CONSTANTS u1, u2, w1, w2
MCVerifications == {"age_check", "identity_check"}
MCRequired == "basic" :> {"age_check"}
MCSymmetry == Permutations(Users) \cup Permutations(Ids)
=============================================================================
