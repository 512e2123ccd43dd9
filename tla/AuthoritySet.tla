----------------------------- MODULE AuthoritySet -----------------------------
(***************************************************************************)
(* crates/governance/src/authority.rs: the set of authority nodes.  A node *)
(* is known by its DID, which register() keeps unique; it is Active, since *)
(* no operation changes a status.  remove() and rotate() take an id, which *)
(* within the set stands for the DID; an id that is not there, and any     *)
(* other refusal, changes nothing.                                         *)
(***************************************************************************)
EXTENDS Integers, FiniteSets, Functions

CONSTANTS
    Nodes,          \* the DIDs
    Weights,        \* a node may have
    min_nodes, max_nodes,
    MaxEpoch        \* a bound

ASSUME AuthoritySetAssumption ==
    /\ IsFiniteSet(Nodes)
    /\ Weights \subseteq Nat
    /\ min_nodes \in Nat /\ max_nodes \in Nat
    /\ MaxEpoch \in Nat

VARIABLES
    nodes,          \* DID -> weight
    epoch,
    reached         \* history: the set once had min_nodes nodes

setVars == <<nodes, epoch, reached>>

SetInit == nodes = <<>> /\ epoch = 0 /\ reached = (min_nodes = 0)

Size(ns) == Cardinality(DOMAIN ns)

With(ns, d, w) == [e \in DOMAIN ns \cup {d} |-> IF e = d THEN w ELSE ns[e]]

WithoutNode(ns, d) == Restrict(ns, DOMAIN ns \ {d})

MayRegister(ns, d) == Size(ns) < max_nodes /\ d \notin DOMAIN ns

\* Mutant: off by one.
MayRemoveLast(ns, d) == d \in DOMAIN ns /\ Size(ns) >= min_nodes

MayRemove(ns, d) == d \in DOMAIN ns /\ Size(ns) > min_nodes

Become(ns) ==
    /\ nodes' = ns
    /\ reached' = (reached \/ Size(ns) >= min_nodes)

RegisterNode(d, w) ==
    /\ MayRegister(nodes, d)
    /\ Become(With(nodes, d, w))
    /\ UNCHANGED epoch

RemoveNode(d) ==
    /\ MayRemove(nodes, d)
    /\ Become(WithoutNode(nodes, d))
    /\ UNCHANGED epoch

\* The old node is gone when register() refuses the new one, and the call fails.
Rotate(d, new, w) ==
    /\ MayRemove(nodes, d) /\ epoch < MaxEpoch
    /\ LET kept == WithoutNode(nodes, d)
       IN  IF MayRegister(kept, new)
           THEN Become(With(kept, new, w)) /\ epoch' = epoch + 1
           ELSE Become(kept) /\ UNCHANGED epoch

SetNext == \E d \in Nodes :
    \/ RemoveNode(d)
    \/ \E w \in Weights : RegisterNode(d, w) \/ \E new \in Nodes : Rotate(d, new, w)

Weight(S) == FoldFunctionOnSet(+, 0, nodes, S)

\* Mutant: two thirds are enough.
IsQuorumTwoThirds(S) == Weight(DOMAIN nodes) # 0 /\ Weight(S) >= (Weight(DOMAIN nodes) * 2) \div 3

\* is_quorum_reached() of the weight of the nodes S
IsQuorum(S) == Weight(DOMAIN nodes) # 0 /\ Weight(S) >= (Weight(DOMAIN nodes) * 2) \div 3 + 1
-----------------------------------------------------------------------------
SetTypeOK ==
    /\ DOMAIN nodes \subseteq Nodes /\ nodes \in [DOMAIN nodes -> Weights]
    /\ epoch \in 0 .. MaxEpoch /\ reached \in BOOLEAN

(* Once min_nodes nodes are registered there are never fewer, and never    *)
(* more than max_nodes, even after a rotation that lost its old node and   *)
(* was refused its new one (authority.rs:131).                             *)
SizeKept ==
    /\ reached => Size(nodes) >= min_nodes
    /\ Size(nodes) <= max_nodes

(* Any two quorums share more than a third of the weight, and the nodes    *)
(* together make one as soon as they have any weight (authority.rs:157).   *)
QuorumsShare ==
    LET total == Weight(DOMAIN nodes)
        quorums == {S \in SUBSET DOMAIN nodes : IsQuorum(S)}
    IN  /\ total # 0 => DOMAIN nodes \in quorums
        /\ \A Q, R \in quorums : 3 * Weight(Q \cap R) > total

(* However rotations fail, a set that has reached its size keeps it, and   *)
(* the epoch counts the rotations that exchanged one node for another: a   *)
(* rotation that lost its old node and failed leaves it (authority.rs:133).*)
RotationsSound ==
    [][/\ SizeKept'
       /\ epoch' # epoch => /\ epoch' = epoch + 1
                            /\ Size(nodes') = Size(nodes)
                            /\ Cardinality(DOMAIN nodes' \ DOMAIN nodes) <= 1]_setVars
=============================================================================
