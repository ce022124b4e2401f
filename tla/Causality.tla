----------------------------- MODULE Causality -----------------------------
(***************************************************************************)
(* Vector clocks and the causal graph (src/vclock.js): what the event bus   *)
(* computes with them, for a fixed set of nodes.  A clock is a function     *)
(* that is 0 where the object of the code has no entry.                     *)
(***************************************************************************)
EXTENDS Naturals, FiniteSets

CONSTANT Nodes

VClocks == [Nodes -> Nat]

Zero == [n \in Nodes |-> 0]

Larger(a, b) == IF a >= b THEN a ELSE b

update(a, b) == [n \in Nodes |-> Larger(a[n], b[n])]

compare(a, b) ==
    LET aLtB == \E n \in Nodes : a[n] < b[n]
        bLtA == \E n \in Nodes : b[n] < a[n]
    IN  CASE ~aLtB /\ ~bLtA -> "equal"
          [] aLtB /\ ~bLtA  -> "before"
          [] bLtA /\ ~aLtB  -> "after"
          [] OTHER          -> "concurrent"

Before(e, f) == e.id # f.id /\ compare(e.vclock, f.vclock) = "before"

\* Seeded bug: transitive ancestors are not pruned.
AllAncestors(events, e) == {a \in events : Before(a, e)}

\* buildCausalGraph: an ancestor is a direct parent unless another one is between.
\* An event without a vclock counts as one with Zero, so it is before every event
\* that has one, although src/vclock.js:103-104 calls it concurrent with everything.
DirectParents(events, e) ==
    LET ancestors == {a \in events : Before(a, e)}
    IN  {c \in ancestors : ~ \E o \in ancestors : Before(c, o) /\ Before(o, e)}

\* The graph that results, by ids, from parent to child.
Edges(events) == UNION {{<<a.id, e.id>> : a \in DirectParents(events, e)} : e \in events}

-----------------------------------------------------------------------------
\* For the properties: a path leads from x to y, that is, y is in every set of ids
\* that holds what x points to and, with an id, what that points to.
Leads(edges, ids, x, y) ==
    \A S \in SUBSET ids :
        (\A g \in edges : g[1] \in S \cup {x} => g[2] \in S) => y \in S
=============================================================================
