------------------------------ MODULE MCStore ------------------------------
(* Model-checking instances of Store, and the replay loop of Store._load    *)
(* written as the loop it is, to be compared with Wal!Replay.               *)
EXTENDS Store, TLC, SequencesExt

Symmetry == Permutations(Ids) \cup Permutations(Types)

\* One iteration of the loop of Store._load.
ReplayEntry(ms, e) ==
    CASE e.kind = "save" /\ e.id \notin DOMAIN ms -> Put(ms, e.id, e.msg)
      [] e.kind = "delete" -> Without(ms, e.ids)
      [] OTHER -> ms

\* What Replay says of the log in one formula is what the loop computes.
ReplayIsLoop == Durable = FoldLeft(ReplayEntry, Loaded, wal)
=============================================================================
