-------------------------- MODULE CheckpointRules --------------------------
(***************************************************************************)
(* What addToPool decides about a request from the head the store has for  *)
(* its log, apart from pools and goroutines: the size it reports and the   *)
(* consistency checks.                                                     *)
(***************************************************************************)
EXTENDS Naturals, TreeHeads

CONSTANTS
    SizeOf(_),     \* the tree size of a head
    EmptyHead      \* size 0 with the hash of the empty tree

ASSUME HeadsAssumption ==
    /\ \A h \in Heads : SizeOf(h) \in Nat
    /\ EmptyHead \in Heads /\ SizeOf(EmptyHead) = 0
    /\ \A h \in Heads : SizeOf(h) > 0 => Follows(h, EmptyHead)

\* The proof a request carries: none, the one a log computed for its own tree, or
\* any other sequence of hashes.
Proofs == {"none", "log", "other"}

\* Mutation: every submission is a first sighting.
SizeHeldNone(prev) == 0

\* The size of the stored head, 0 when there is none.
SizeHeld(prev) == IF prev = NoNote THEN 0 ELSE SizeOf(prev)

\* The consistency checks, against the stored head.  A proof that a log computed
\* for its own tree verifies exactly if the new head extends the stored one
\* (tlog.CheckTree); no other proof does.
Consistent(prev, r) ==
    CASE SizeOf(r.head) = 0 -> r.proof = "none" /\ r.head = EmptyHead
      [] SizeOf(r.head) # 0 /\ r.old = SizeOf(r.head) -> r.proof = "none" /\ r.head = prev
      [] SizeOf(r.head) # 0 /\ r.old # SizeOf(r.head) /\ r.old = 0 -> r.proof = "none"
      [] OTHER -> r.proof = "log" /\ Follows(r.head, prev)

\* The answer of a witness that does nothing else at the time.
Verdict(prev, r) ==
    CASE r.old > SizeOf(r.head) -> 400
      [] r.old <= SizeOf(r.head) /\ r.old # SizeHeld(prev) -> 409
      [] r.old <= SizeOf(r.head) /\ r.old = SizeHeld(prev) /\ ~Consistent(prev, r) -> 422
      [] OTHER -> 200
=============================================================================
