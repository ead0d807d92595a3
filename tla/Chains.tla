-------------------------------- MODULE Chains --------------------------------
(* Concepts of a repository's own graph of meaning that extend each other    *)
(* (internal/publisher/manifest/chains.go): a chain must not return to a     *)
(* concept, must not be too long, and each reference in it must lead to a    *)
(* concept of the graph or, at a commit, to another graph.                   *)
EXTENDS Naturals, FiniteSets

CONSTANTS
    Concept,    \* 1 .. n, in the order of the file
    Taking,     \* those that may have a values-of
    Unknown,    \* an id that is no concept of the graph
    MaxChain    \* the longest chain (50 in the code)

VARIABLES
    extends,  \* the reference of each concept
    values,   \* the values-of of each that may have one
    named,    \* is the address of this graph known?
    nth,      \* the concept that is judged
    findings  \* what was found of it: "extends", "values"

chainsVars == <<extends, values, named, nth, findings>>

\* A bare id, an address of this graph, and addresses of others: at a commit,
\* without one, or with a pin that is no commit.
Reference ==
    [form : {"none", "commit", "unpinned", "badly_pinned", "malformed"}, id : {Unknown}]
    \cup [form : {"id"}, id : Concept \cup {Unknown}] \cup [form : {"own"}, id : {2}]

ChainsTypeOK ==
    /\ extends \in [Concept -> Reference] /\ values \in [Taking -> Reference] /\ named \in BOOLEAN
    /\ nth \in Nat /\ findings \subseteq Concept \X {"extends", "values"}

Init ==
    /\ extends \in [Concept -> Reference] /\ values \in [Taking -> Reference] /\ named \in BOOLEAN
    /\ nth = 1 /\ findings = {}

-----------------------------------------------------------------------------
(* The algorithm *)

\* What a reference reaches.  Without the address of the graph an unpinned one
\* is not judged: the manifest has a finding of its own.
Resolve(r) ==
    CASE r.form = "commit" \/ (r.form \in {"unpinned", "own"} /\ ~named) -> "outside"
      [] r.form \in {"id", "own"} /\ (r.form = "own" => named) /\ r.id \in Concept -> "concept"
      [] OTHER -> "error"

\* Where lineage is in a chain: at a concept, after others.
Place == [current : Concept, seen : SUBSET Concept]
Onward(at) == [current |-> extends[at.current].id, seen |-> at.seen \cup {at.current}]

\* A mutant of Problem: the concept itself is counted.
ProblemTooSoon(start) ==
    LET Walk[at \in Place] ==
            \/ at.current \in at.seen
            \/ /\ extends[at.current].form # "none"
               /\ \/ Cardinality(at.seen) + 1 >= MaxChain
                  \/ Resolve(extends[at.current]) = "error"
                  \/ Resolve(extends[at.current]) = "concept" /\ Walk[Onward(at)]
    IN  Walk[[current |-> start, seen |-> {}]]

\* lineage: is anything wrong with the chain that begins at a concept?
Problem(start) ==
    LET Walk[at \in Place] ==
            \/ at.current \in at.seen
            \/ /\ extends[at.current].form # "none"
               /\ \/ Cardinality(at.seen) + 1 > MaxChain
                  \/ Resolve(extends[at.current]) = "error"
                  \/ Resolve(extends[at.current]) = "concept" /\ Walk[Onward(at)]
    IN  Walk[[current |-> start, seen |-> {}]]

\* One concept of the file: its own chain, and the chain of its values-of.
Judge ==
    /\ nth \in Concept /\ nth' = nth + 1
    /\ findings' = findings
         \cup (IF Problem(nth) THEN {<<nth, "extends">>} ELSE {})
         \cup (IF nth \in Taking /\ values[nth].form # "none"
                  /\ (\/ Resolve(values[nth]) = "error"
                      \/ Resolve(values[nth]) = "concept" /\ Problem(values[nth].id))
               THEN {<<nth, "values">>} ELSE {})
    /\ UNCHANGED <<extends, values, named>>

Next == Judge
Spec == Init /\ [][Next]_chainsVars

-----------------------------------------------------------------------------
(* What it promises *)

\* A reference the Directory would follow, to a concept here or to a commit.
Here(r) == r.form \in {"id", "own"} /\ r.id \in Concept /\ (r.form = "own" => named)
Beyond(r) == r.form = "commit" \/ (r.form \in {"own", "unpinned"} /\ ~named)

\* The concepts that a concept extends, directly or not.
Extended(some) == {extends[a].id : a \in {a \in some : Here(extends[a])}}
Ancestors(c) ==
    LET Within[n \in Nat] == IF n = 0 THEN {} ELSE Extended({c} \cup Within[n - 1])
    IN  Within[Cardinality(Concept)]

\* A chain with an end, without a break, and of at most MaxChain concepts.
Sound(c) ==
    /\ \A a \in {c} \cup Ancestors(c) :
          /\ a \notin Ancestors(a)
          /\ extends[a].form # "none" => Here(extends[a]) \/ Beyond(extends[a])
    /\ Cardinality(Ancestors(c)) + Cardinality({a \in {c} \cup Ancestors(c) : Beyond(extends[a])}) <= MaxChain

\* Every concept, and every values-of, is found wrong exactly when its chain
\* is, whichever concepts were judged before: a graph without findings has no
\* concept whose meaning is never reached (chains.go:10-15).
ChainsAreJudged ==
    \A c \in 1 .. nth - 1 :
        /\ <<c, "extends">> \in findings <=> ~Sound(c)
        /\ <<c, "values">> \in findings <=>
              /\ c \in Taking /\ values[c].form # "none"
              /\ ~(Beyond(values[c]) \/ (Here(values[c]) /\ Sound(values[c].id)))
=============================================================================
