--------------------------- MODULE ConsistentView ---------------------------
(***************************************************************************)
(* What the witness promises its clients, with no storage, threads, keys   *)
(* or crashes in it: there is one view of every log, it only ever moves    *)
(* to heads that extend it, and every cosignature that leaves the device   *)
(* is of the view as it is at that moment.                                 *)
(*                                                                         *)
(* This is the goal of internal/state/ROLLBACK.md ("storage replay or      *)
(* rollback must not induce a split view, even across boots") as a state   *)
(* machine.  RollbackStore and Witness are shown to implement it.          *)
(***************************************************************************)
EXTENDS TreeHeads

VARIABLES
    view,      \* the committed head of every log
    released   \* for every log, the heads whose cosignatures left the device

viewVars == <<view, released>>

ViewTypeOK ==
    /\ view \in Views
    /\ released \in [Origins -> SUBSET Heads]

ViewInit ==
    /\ view = Nothing
    /\ released = [o \in Origins |-> {}]

\* The view of some logs moves on.
Advance ==
    /\ view' \in Views
    /\ ExtendsAll(view', view)
    /\ UNCHANGED released

\* Cosignatures of the current view of the logs in os are handed out.
Release(os) ==
    /\ \A o \in os : view[o] # NoNote
    /\ released' = [o \in Origins |-> IF o \in os THEN released[o] \cup {view[o]}
                                                  ELSE released[o]]
    /\ UNCHANGED view

ViewNext == Advance \/ \E os \in SUBSET Origins : Release(os)

ViewSpec == ViewInit /\ [][ViewNext]_viewVars

\* Whatever was cosigned for a log is part of the view of it.
ReleasedInView ==
    \A o \in Origins : \A h \in released[o] : Extends(view[o], h)

\* No split view: any two heads cosigned for one log are consistent.
NoSplitView ==
    \A o \in Origins : \A a, b \in released[o] : Agree(a, b)
=============================================================================
