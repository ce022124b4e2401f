------------------------------ MODULE MCReads ------------------------------
(* Model-checking instance of Reads: one document with an event d of the    *)
(* bus and an event e posted by a client, a CRDT message c, any other x;    *)
(* filters that are served by each of the indexes or by none.               *)
EXTENDS Reads, Sequences, TLC

CONSTANTS a, b, c, d, e, x

MCAuthor == (c :> a) @@ (d :> a) @@ (e :> b) @@ (x :> a)

By(field, op, value) == [field |-> field, op |-> op, value |-> value]

MCFilters ==
    LET Recent == By("lamport", "gt", 1) IN
    {<<Recent>>, <<By("type", "eq", "general"), By("synced", "eq", FALSE)>>,
     <<By("sender", "ne", a), By("synced", "eq", TRUE)>>,
     <<Recent, By("sender", "eq", b), By("synced", "ne", TRUE)>>}
    \cup {<<By("synced", "eq", v)>> : v \in BOOLEAN}
=============================================================================
