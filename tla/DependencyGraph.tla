-------------------------- MODULE DependencyGraph --------------------------
(***************************************************************************)
(* DependencyGraph: who depends on whom.  A graph is a record of the two   *)
(* adjacency maps the class keeps; a URI the code has no entry for has the *)
(* empty set here.                                                         *)
(***************************************************************************)
EXTENDS Naturals, FiniteSets

CONSTANT Uri

ASSUME UriAssumption == IsFiniteSet(Uri)

Graph == [ deps : [ Uri -> SUBSET Uri ], dependents : [ Uri -> SUBSET Uri ] ]

NoEdges == [ deps |-> [ v \in Uri |-> {} ], dependents |-> [ v \in Uri |-> {} ] ]

\* The new list replaces the previous one; a document does not depend on itself.
setDependencies(g, u, list) ==
  LET next   == list \ { u }
      cut(d) == IF d \in g.deps[u] THEN g.dependents[d] \ { u } ELSE g.dependents[d]
  IN  [ deps |-> [ g.deps EXCEPT ![u] = next ],
        dependents |-> [ d \in Uri |-> IF d \in next THEN cut(d) \cup { u } ELSE cut(d) ] ]

\* Mutant: only the documents that name `u' themselves.
DirectDependents(g, u) == g.dependents[u] \ { u }

\* The breadth-first search, a wave at a time.
transitiveDependents(g, u) ==
  LET reached[n \in 0..Cardinality(Uri)] ==
        IF n = 0 THEN { u }
        ELSE LET before == reached[n - 1]
             IN  before \cup UNION { g.dependents[v] : v \in before }
  IN  reached[Cardinality(Uri)] \ { u }

\* Outgoing edges go, and incoming ones.
remove(g, u) ==
  LET h == setDependencies(g, u, {})
  IN  [ deps |-> [ v \in Uri |-> IF v \in h.dependents[u] THEN h.deps[v] \ { u }
                                                          ELSE h.deps[v] ],
        dependents |-> [ h.dependents EXCEPT ![u] = {} ] ]

\* What is meant by a dependency, told from the lists the clients gave alone:
\* `v' depends on `u' when every set that holds `v' and is closed under the
\* lists holds `u'.
DependsOn(g, v, u) ==
  \A S \in SUBSET Uri :
    (v \in S /\ \A w \in S : g.deps[w] \subseteq S) => u \in S
=============================================================================
