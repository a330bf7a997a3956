----------------------------- MODULE TreeHeads -----------------------------
(***************************************************************************)
(* The tree heads a witness keeps one of per log, and the order that       *)
(* Merkle consistency proofs (golang.org/x/mod/sumdb/tlog) put on them.    *)
(* The order is a parameter: what the witness and its store are right      *)
(* about does not depend on how a proof is computed, only on proofs being  *)
(* composable, which is what a collision-resistant hash gives.             *)
(***************************************************************************)

CONSTANTS
    Origins,        \* the logs, by checkpoint origin
    Heads,          \* tree heads (a tree size and a root hash)
    Follows(_, _),  \* Follows(a, b): head a is head b or a proven extension of it
    NoNote          \* no note is held for an origin

ASSUME FollowsAssumption ==
    /\ \A a, b \in Heads : Follows(a, b) \in BOOLEAN
    /\ \A a \in Heads : Follows(a, a)
    /\ \A a, b, c \in Heads : Follows(a, b) /\ Follows(b, c) => Follows(a, c)

ASSUME NoNoteAssumption == NoNote \notin Heads

\* What is held per origin: the head of a cosigned note, or nothing.
Views == [Origins -> Heads \cup {NoNote}]

Nothing == [o \in Origins |-> NoNote]

\* new may be held, or shown to a client, where old was before.
Extends(new, old) == old # NoNote => new # NoNote /\ Follows(new, old)

ExtendsAll(new, old) == \A o \in Origins : Extends(new[o], old[o])

\* Two heads a client may be shown of one log.
Agree(a, b) == Follows(a, b) \/ Follows(b, a)

\* The view states once updates are stored over it (MemStore.PutBatch; the maps
\* PutBatch and All build).
Merge(states, updates) ==
    [o \in Origins |-> IF updates[o] # NoNote THEN updates[o] ELSE states[o]]
=============================================================================
