------------------------------- MODULE AppendLog -------------------------------
(***************************************************************************)
(* What a lineage log promises its readers: the list of readable entries   *)
(* only ever grows at its end, loses at most unacknowledged entries from   *)
(* its end in a failure, and shrinks otherwise only by compaction.  A log  *)
(* that was compacted is owed again only when it was synced again.         *)
(***************************************************************************)
EXTENDS LineageEntries

VARIABLES visible,     \* the entries a reader gets
          acked,       \* the entries acknowledged as durable
          rewritten    \* the log was compacted and not synced since

vars == <<visible, acked, rewritten>>

Init == visible = <<>> /\ acked = {} /\ rewritten = FALSE

\* Entries become readable, and readable entries become acknowledged.
Grow(old, new) ==
    /\ IsPrefix(old, new)
    /\ acked \subseteq acked'
    /\ acked' \subseteq ToSet(new)
    /\ rewritten' => rewritten

\* A failure takes entries from the end, none of them acknowledged unless the
\* log was rewritten.
Lose(old, new) ==
    /\ IsPrefix(new, old)
    /\ acked' = IF rewritten THEN acked \cap ToSet(new) ELSE acked
    /\ acked' \subseteq ToSet(new)
    /\ rewritten' => rewritten

\* What compaction removes is no longer owed.
Compact(old, new) ==
    /\ new = Compacted(old)
    /\ acked' = acked \cap ToSet(new)
    /\ rewritten'

\* The bound names have TLC evaluate the readable entries once in each state.
Next ==
    \E old \in {visible}, new \in {visible'} :
        Grow(old, new) \/ Lose(old, new) \/ Compact(old, new)

Spec == Init /\ [][Next]_vars
===============================================================================
