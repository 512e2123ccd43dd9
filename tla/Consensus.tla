------------------------------ MODULE Consensus ------------------------------
(***************************************************************************)
(* crates/governance/src/consensus.rs: the ConsensusState of one validator,*)
(* which on_message() drives by counting.  It does not look at the sender, *)
(* the view or the sequence number of a message.                           *)
(*                                                                         *)
(* The validators and the network are external: each validator sends its   *)
(* Prepare, PreCommit and Commit for a view, a message may arrive late, in *)
(* any order, or more than once, and any one may ask for a new view.       *)
(***************************************************************************)
EXTENDS Integers

CONSTANTS
    validator_count,
    MaxResets,      \* ViewChange and NewView messages: a bound
    MaxRepeats      \* messages in a round that repeat one or belong elsewhere

ASSUME ConsensusAssumption ==
    /\ validator_count \in Nat \ {0}
    /\ MaxResets \in Nat /\ MaxRepeats \in Nat

VARIABLES
    current_view,
    prepared, committed,
    prepare_count, precommit_count, commit_count,
    \* histories
    votes,          \* of each type, how many validators' votes of this round were counted
    repeats,        \* messages counted in this round that were no such message
    resets          \* rounds given up

roundVars == <<current_view, prepared, committed, prepare_count, precommit_count, commit_count,
               votes, repeats, resets>>

Types == {"Prepare", "PreCommit", "Commit"}

NoVotes == [ty \in Types |-> 0]

RoundInit ==
    /\ current_view = 0
    /\ prepared = FALSE /\ committed = FALSE
    /\ prepare_count = 0 /\ precommit_count = 0 /\ commit_count = 0
    /\ votes = NoVotes /\ repeats = 0 /\ resets = 0

\* Mutant: one vote too many.
quorum_size_more == (validator_count * 2) \div 3 + 2

quorum_size == (validator_count * 2) \div 3 + 1

max_byzantine == (validator_count - 1) \div 3

\* It looks at the counters and flags on_message() has just changed.
check_phase(was_prepared, was_committed) ==
    /\ prepared' = (was_prepared \/ prepare_count' >= quorum_size)
    /\ committed' = (was_committed \/ (precommit_count' >= quorum_size /\ prepared'))

\* A Prepare, PreCommit or Commit is counted, whatever it is about.
Count(ty) ==
    /\ prepare_count' = prepare_count + (IF ty = "Prepare" THEN 1 ELSE 0)
    /\ precommit_count' = precommit_count + (IF ty = "PreCommit" THEN 1 ELSE 0)
    /\ commit_count' = commit_count + (IF ty = "Commit" THEN 1 ELSE 0)
    /\ check_phase(prepared, committed)
    /\ UNCHANGED <<current_view, resets>>

\* One more validator's message of this type, for this round, arrives.
Vote(ty) ==
    /\ votes[ty] < validator_count
    /\ Count(ty)
    /\ votes' = [votes EXCEPT ![ty] = @ + 1]
    /\ UNCHANGED repeats

\* A message that was counted before, or that belongs to another round.
Repeat(ty) ==
    /\ repeats < MaxRepeats
    /\ Count(ty)
    /\ repeats' = repeats + 1
    /\ UNCHANGED votes

\* Mutant: the counter of precommits survives.
reset_round_partly == prepare_count' = 0 /\ precommit_count' = precommit_count /\ commit_count' = 0

reset_round == prepare_count' = 0 /\ precommit_count' = 0 /\ commit_count' = 0

\* ViewChange and NewView: one message is enough to give up the round.
NewRound ==
    /\ resets < MaxResets
    /\ current_view' \in {current_view, current_view + 1}
    /\ reset_round
    /\ check_phase(FALSE, FALSE)
    /\ votes' = NoVotes /\ repeats' = 0
    /\ resets' = resets + 1

RoundNext ==
    \/ \E ty \in Types : Vote(ty) \/ Repeat(ty)
    \/ NewRound

\* The votes that arrive in the end: those of the validators that are not faulty.
HonestVote(ty) == votes[ty] < validator_count - max_byzantine /\ Vote(ty)
-----------------------------------------------------------------------------
RoundTypeOK ==
    /\ current_view \in 0 .. MaxResets
    /\ prepared \in BOOLEAN /\ committed \in BOOLEAN
    /\ prepare_count \in Nat /\ precommit_count \in Nat /\ commit_count \in Nat
    /\ votes \in [Types -> 0 .. validator_count]
    /\ repeats \in 0 .. MaxRepeats /\ resets \in 0 .. MaxResets

(* What the flags mean: that a quorum of validators voted in this round,   *)
(* less as many as messages were counted that had no business in it.  The  *)
(* round is only as safe as its deduplication, which is the caller's       *)
(* (consensus.rs:116).                                                     *)
FlagsMeanQuorums ==
    /\ prepared => votes["Prepare"] >= quorum_size - repeats
    /\ committed => /\ prepared
                    /\ votes["PreCommit"] >= quorum_size - repeats

(* A round nobody gives up is committed once the honest votes have arrived,*)
(* in whatever order: precommits that came before the last Prepare count.  *)
Decides == <>(committed \/ resets > 0)
=============================================================================
