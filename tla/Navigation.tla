----------------------------- MODULE Navigation -----------------------------
(***************************************************************************)
(* The Hybrid Navigator (navigation/): which provider, on which node, is   *)
(* to do a piece of work. It keeps no state: it looks at a snapshot of the *)
(* ecosystem, rejects what may not be used and ranks the rest.             *)
(*                                                                         *)
(* A snapshot is the sequence of what the nodes offer, one record for each *)
(* capability of each provider of each node, in the order in which the     *)
(* dictionaries of the ecosystem registry are walked. Node and provider    *)
(* ids are numbers, since ties are broken by the order of the ids; None is *)
(* an optional constraint that is not given.                               *)
(***************************************************************************)
EXTENDS Integers, Sequences, SequencesExt, FiniteSets, Functions

(* A list that is filtered or sorted is given by which places of the list  *)
(* are kept and by their order; both are sets, which says what the result  *)
(* is without saying how it is computed.                                   *)

\* The values of s at the places in I, ordered by the pairs in R.
Arranged(s, I, R) ==
    [n \in 1 .. Cardinality(I) |->
        s[CHOOSE i \in I : Cardinality({j \in I : <<j, i>> \in R}) = n - 1]]

\* The same in the order they have in s.
Selected(s, I) == Arranged(s, I, {p \in I \X I : p[1] < p[2]})

\* Tuples compare from the left.
LessThan(x, y) ==
    \E n \in DOMAIN x : x[n] < y[n] /\ \A m \in 1 .. n - 1 : x[m] = y[m]

-----------------------------------------------------------------------------

None == 0
Id == Nat \ {None}

NodeState == {"known", "available", "unavailable", "stale"}
AvailabilityStatus == {"registered", "available", "unavailable"}
NotGiven == "any"     \* a required state or status that is not given

\* NavigationConstraints
Constraints ==
    [preferred_node : Id \cup {None},
     preferred_provider : Id \cup {None},
     local_only : BOOLEAN,
     remote_allowed : BOOLEAN,
     required_node_state : NodeState \cup {NotGiven},
     required_provider_status : AvailabilityStatus \cup {NotGiven}]

\* NavigationConstraints(): what a step says that says nothing.
NoConstraints ==
    [preferred_node |-> None, preferred_provider |-> None,
     local_only |-> FALSE, remote_allowed |-> TRUE,
     required_node_state |-> NotGiven, required_provider_status |-> NotGiven]

\* NavigationCandidate
Candidate(Capability) ==
    [node : Id, provider : Id, capability : Capability, is_local : BOOLEAN,
     node_state : NodeState, provider_status : AvailabilityStatus,
     availability : AvailabilityStatus]

NoCandidate == [node |-> None]

\* The dictionaries of a snapshot are keyed by these.
SameOffer(c, d) == c.node = d.node /\ c.provider = d.provider /\ c.capability = d.capability

\* The candidates for a capability, in the order of the snapshot.
DiscoverCandidates(snapshot, capability) ==
    Selected(snapshot, {n \in DOMAIN snapshot : snapshot[n].capability = capability})

-----------------------------------------------------------------------------
(* Filtering.                                                              *)

\* What a candidate has to pass, in the order of the checks.
Checks(c, k) ==
    << c.node_state # "unavailable",
       c.node_state # "stale",
       c.provider_status # "unavailable",
       c.availability # "unavailable",
       k.local_only => c.is_local,
       ~k.remote_allowed => c.is_local,
       k.required_node_state \in {NotGiven, c.node_state},
       k.required_provider_status \in {NotGiven, c.provider_status} >>

Eligible(c, k) == \A n \in DOMAIN Checks(c, k) : Checks(c, k)[n]

\* The reason a candidate is rejected for: the number of the first check that
\* it fails.
Reason(c, k) == SelectInSeq(Checks(c, k), LAMBDA passed : ~passed)

-----------------------------------------------------------------------------
(* Ranking.                                                                *)

Preference(wanted) == IF wanted THEN 0 ELSE 1

\* Mutant: ties are left to the order in which the nodes were registered.
RankingKeyWithoutIds(c, k) ==
    << Preference(k.preferred_node = c.node),
       Preference(k.preferred_provider = c.provider),
       Preference(c.is_local) >>

\* The key of a candidate: the lower, the better.
RankingKey(c, k) ==
    << Preference(k.preferred_node = c.node),
       Preference(k.preferred_provider = c.provider),
       Preference(c.is_local),
       c.node, c.provider >>

\* sorted() is stable: equal keys keep their order. The pairs of candidates of
\* which the first one comes first.
Before(cs, k) ==
    {p \in (DOMAIN cs) \X (DOMAIN cs) :
        LET x == RankingKey(cs[p[1]], k)
            y == RankingKey(cs[p[2]], k)
        IN  LessThan(x, y) \/ (~LessThan(y, x) /\ p[1] < p[2])}

\* NavigationPolicyEvaluator.evaluate
Evaluate(cs, k) ==
    LET eligible == {n \in DOMAIN cs : Eligible(cs[n], k)}
        ranked   == Arranged(cs, eligible, Before(cs, k))
        failed   == Selected(cs, DOMAIN cs \ eligible)
    IN  [selected     |-> IF ranked = <<>> THEN NoCandidate ELSE Head(ranked),
         alternatives |-> IF ranked = <<>> THEN <<>> ELSE Tail(ranked),
         rejected     |-> [n \in DOMAIN failed |->
                              [candidate |-> failed[n], reason |-> Reason(failed[n], k)]]]

\* HybridNavigator.navigate, for a request [capability, constraints].
NavigateIn(snapshot, request) ==
    Evaluate(DiscoverCandidates(snapshot, request.capability), request.constraints)

-----------------------------------------------------------------------------
(* What a caller may rely on, in terms of the candidates as a set: the     *)
(* documentation of the constraints (navigation/models.py 23-46) and of    *)
(* the evaluation pipeline (policy.py 34-37).                              *)

\* A candidate that may be used and meets the constraints.
Usable(c, k) ==
    /\ c.node_state \in {"known", "available"}
    /\ c.provider_status # "unavailable"
    /\ c.availability # "unavailable"
    /\ k.local_only \/ ~k.remote_allowed => c.is_local
    /\ k.required_node_state # NotGiven => c.node_state = k.required_node_state
    /\ k.required_provider_status # NotGiven => c.provider_status = k.required_provider_status

\* The usable candidates among which the choice remains when the best of S on
\* one preference are kept, if there are any.
Narrow(S, Wanted(_)) == IF \E c \in S : Wanted(c) THEN {c \in S : Wanted(c)} ELSE S

\* Preferred node, then preferred provider, then the local node, then the
\* lowest node id and the lowest provider id.
Favourites(S, k) ==
    LET onNode     == Narrow(S, LAMBDA c : c.node = k.preferred_node)
        byProvider == Narrow(onNode, LAMBDA c : c.provider = k.preferred_provider)
        local      == Narrow(byProvider, LAMBDA c : c.is_local)
        lowest     == {c \in local : \A d \in local : c.node <= d.node}
    IN  {c \in lowest : \A d \in lowest : c.provider <= d.provider}

\* The result selects the best usable one of the candidates cs, or nothing if
\* nothing is usable. The alternatives are what would be selected next if those
\* before were gone. Every other candidate is rejected for a reason that
\* applies. A descriptor may list a capability twice; then the selection is
\* among its own alternatives.
AccountsFor(cs, k, result) ==
    LET usable == {c \in Range(cs) : Usable(c, k)}
        others == result.alternatives
    IN  /\ Favourites(usable, k) = {result.selected} \ {NoCandidate}
        /\ usable = ({result.selected} \ {NoCandidate}) \cup Range(others)
        /\ \A n \in DOMAIN others :
              Favourites({others[m] : m \in n .. Len(others)}, k) = {others[n]}
        /\ {r.candidate : r \in Range(result.rejected)} = Range(cs) \ usable
        /\ Cardinality(Favourites(usable, k)) + Len(others) + Len(result.rejected) = Len(cs)
        /\ \A r \in Range(result.rejected) : ~Checks(r.candidate, k)[r.reason]
=============================================================================
