----------------------------- MODULE MCSessions -----------------------------
(* Instances of Sessions for TLC. *)
EXTENDS Sessions, FiniteSets, TLC

CONSTANTS alice, bob

\* Every block that can be told from the others, and headers that are absent,
\* blank, right, wrong or repeated, one of the two at a time.
MCAllBlocks ==
  {b \in Blocks :
     /\ b.block # "filled" => b.header /\ b.proxy /\ b.named /\ b.environ = Secret
                              /\ b.require /\ b.bind
     /\ ~b.proxy => b.named /\ b.environ = Secret}

MCAllRequests ==
  [proxy: {<< >>, <<Empty>>, <<Wrong>>, <<Secret>>, <<Secret, Secret>>}, identity: {<<alice>>}]
    \cup [proxy: {<<Secret>>}, identity: {<< >>, <<Empty>>, <<bob>>, <<alice, bob>>}]

\* Blocks that load, without a proxy header, for the runs about interleavings;
\* and requests of two users and of somebody whom the proxy does not name.
MCGoodBlocks ==
  {b \in Blocks : b.block = "filled" /\ b.header /\ ~b.proxy /\ b.named /\ b.environ = None}

MCUsers == [proxy: {<< >>}, identity: {<< >>, <<alice>>, <<bob>>}]

MCBlocks   == MCAllBlocks \cup MCGoodBlocks
MCRequests == MCAllRequests \cup MCUsers

\* Interleavings of two streams and two posts are explored with plain headers
\* under the blocks without a proxy header; everything else with one of each.
MCBounded ==
  \/ /\ block \in MCGoodBlocks
     /\ \A s \in Streams : opener[s] \in MCUsers
     /\ \A p \in Posts : post[p].from \in MCUsers
  \/ /\ Cardinality({s \in Streams : stream[s] # "idle"}) <= 1
     /\ Cardinality({p \in Posts : post[p].at # "idle"}) <= 1

MCSymmetry == Permutations(Streams) \cup Permutations(Posts)
=============================================================================
