------------------------------ MODULE BringUp ------------------------------
(***************************************************************************)
(* A unit over its life: boots of the RPMB provisioner and of the witness  *)
(* firmware alternate on one unit and one card, and the fuses are burned   *)
(* at some point between them.  Of the witness firmware this is storage    *)
(* bring-up (newStorage, newRPMBAnchor and main up to state.Open) and then *)
(* the anchor calls of a store that serves, over the frame protocol of     *)
(* RpmbAnchor with its lost, stale and repeated frames.                    *)
(***************************************************************************)
EXTENDS RpmbProvision, RpmbAnchor

VARIABLES
    mode        \* the witness firmware: "off", "probe", "open", "protected" (a
                \* store over the anchor), "halted" (that store after an anchor
                \* error), "ram" (no rollback protection), "fatal"

bringUpVars == <<allVars, hostVars, mode>>

BringUpInit ==
    /\ ProvisionerInit
    /\ host = Unused /\ draws = 0 /\ sent = {} /\ seen = {}
    /\ mode = "off"

\* degrade: RAM only, or nothing at all on a fused unit.
Degrade == mode' = IF secure THEN "fatal" ELSE "ram"

\* The microSD or the eMMC is not detected, or a key cannot be derived.
NoStorage ==
    /\ at = "off" /\ mode = "off"
    /\ Degrade
    /\ UNCHANGED <<allVars, hostVars>>

\* The unauthenticated counter read that tells whether a key is programmed.
ProbeRpmb ==
    /\ at = "off" /\ mode = "off"
    /\ WriteRPMB(FetchRequest("counter", 0)) \/ ReadRPMB
    /\ mode' = "probe"
    /\ UNCHANGED <<provisionerVars, hostVars>>

\* The probe is not answered, or the card has no key.
ProbeFails ==
    /\ mode = "probe"
    /\ Degrade
    /\ ReadRPMB
    /\ UNCHANGED <<provisionerVars, hostVars>>

\* state.Open reads the anchor, under the key the unit derives in this boot.
OpenStore ==
    /\ mode = "probe"
    /\ pending # NoFrame /\ pending.result = "ok"
    /\ Anchor(Derived)
    /\ mode' = "open"
    /\ UNCHANGED provisionerVars

\* An anchor that cannot be read stops the firmware, one that cannot be written
\* halts the store.
AnchorFails ==
    /\ mode \in {"open", "protected"}
    /\ ExchangeFails
    /\ mode' = IF mode = "open" THEN "fatal" ELSE "halted"
    /\ UNCHANGED provisionerVars

\* A response that passes.  SetAnchor's refusal of a record is an error as well.
AnchorGoesOn ==
    /\ mode \in {"open", "protected"}
    /\ \E r \in Incoming : Receive(r)
    /\ mode' = IF host'.out = "error" THEN "halted" ELSE "protected"
    /\ UNCHANGED provisionerVars

\* Open's recovery or a commit advances the anchor.
AdvanceAnchor ==
    /\ mode = "protected"
    /\ \E next \in Candidates : SetAnchor(Derived, next)
    /\ UNCHANGED <<provisionerVars, mode>>

\* A write request of the anchor is delivered to the card once more.
RedeliverWrite ==
    /\ mode # "off"
    /\ \E req \in sent : Redeliver(req)
    /\ UNCHANGED <<provisionerVars, mode>>

SwitchOff ==
    /\ mode # "off"
    /\ mode' = "off"
    /\ PowerCut
    /\ UNCHANGED provisionerVars

BringUpNext ==
    \/ mode = "off" /\ ProvisionerNext /\ UNCHANGED <<hostVars, mode>>
    \/ NoStorage \/ ProbeRpmb \/ ProbeFails \/ OpenStore
    \/ AnchorFails \/ AnchorGoesOn \/ AdvanceAnchor \/ RedeliverWrite
    \/ SwitchOff

BringUpSpec == BringUpInit /\ [][BringUpNext]_bringUpVars

-----------------------------------------------------------------------------
(* Properties *)

\* A fused unit serves only over an anchor in a card that holds its own key: not
\* from RAM when storage fails, and not over a card that was programmed elsewhere
\* or before the fuses were burned, although the probe accepts both (newStorage).
FusedServesProtected ==
    secure /\ mode \in {"protected", "halted", "ram"} => mode # "ram" /\ key = UnitKey
=============================================================================
