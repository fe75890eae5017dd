----------------------------- MODULE MCPeerSync -----------------------------
(* Small instances of PeerSync for TLC.                                    *)
EXTENDS PeerSync, TLC

CONSTANTS n1, n2, n3, c1, c2, on, off

\* Every node is trusted by every other from the start.
AllTrusting == {p \in Node \X Node : p[1] # p[2]}
\* A chain of trust n1 -> n2 -> n3: n1 hears of n3 only through n2.
ChainTrusting == {<<n1, n2>>, <<n2, n3>>}
NoTrusting == {}

\* An edit of capability c and availability a about node n.
Edit(n, cs, a) == [caps |-> [NoFacts.caps EXCEPT ![n] = cs],
                   avail |-> [NoFacts.avail EXCEPT ![n] = a]]

\* Both nodes observe n1, and n1 also bumps its version without a fact.
PairUpdates == (n1 :> {Edit(n1, {c1}, on), NoFacts}) @@
               (n2 :> {Edit(n1, {c2}, off), Edit(n2, {c1}, NoStatus)})

\* Only n1 reports on n1; n2 just bumps its version.
OwnUpdates == (n1 :> {Edit(n1, {}, on), Edit(n1, {}, off)}) @@ (n2 :> {NoFacts})

\* Every node observes the same thing.
SameUpdates == [n \in Node |-> {Edit(n1, {c1}, on)}]

KeySymmetry == Permutations(Key)
=============================================================================
