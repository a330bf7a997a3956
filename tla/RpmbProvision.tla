--------------------------- MODULE RpmbProvision ---------------------------
(***************************************************************************)
(* The RPMB provisioner (fw/rpmb-provision): it probes the card, programs  *)
(* the key of the unit if none is programmed and the boot is clean and     *)
(* secure, and reports what it found.  Programming cannot be undone, the   *)
(* probe is not authenticated, and power or the transport may fail at any  *)
(* point, after which the operator boots the provisioner again.  Burning   *)
(* the fuses, also once and for all, may happen before or between boots.   *)
(***************************************************************************)
EXTENDS RpmbCard

CONSTANTS
    DevKey,     \* the key every unit that is not fused derives
    ZeroKey     \* the key the probe is initialised with

ASSUME ProvisionerAssumption ==
    /\ {DevKey, ZeroKey} \subseteq Keys
    /\ UnitKey # DevKey /\ UnitKey # ZeroKey

VARIABLES
    at,         \* "off", the response awaited ("probe", "diagnose", "program",
                \* "verify"), or "done"
    secure,     \* SNVS is secure: the fuses are burned
    clean,      \* HAB reports a clean boot
    outcome     \* what the status says: "none", "inconclusive", "foreign", "matches",
                \* "refused", "failed" or "success"

provisionerVars == <<at, secure, clean, outcome>>
allVars == <<cardVars, provisionerVars>>

\* A card is new, or was programmed before it came to this unit.
ProvisionerInit ==
    /\ \E k \in Keys \cup {NoKey} : k # UnitKey /\ CardInit(k)
    /\ at = "off"
    /\ secure \in BOOLEAN
    /\ clean = FALSE
    /\ outcome = "none"

-----------------------------------------------------------------------------
\* A request goes out and is executed, or is lost.  Responses are of this exchange:
\* a stale answer to the unauthenticated probe is not modelled.
Exchange(req, next) ==
    /\ WriteRPMB(req) \/ ReadRPMB
    /\ at' = next

\* The probe starts: a counter read that nothing authenticates.
Boot(isClean) ==
    /\ at = "off"
    /\ clean' = isClean
    /\ Exchange(FetchRequest("counter", 0), "probe")
    /\ UNCHANGED <<secure, outcome>>

\* The eMMC is not detected: the status says so and no request is sent.
NoCard(isClean) ==
    /\ at = "off"
    /\ clean' = isClean
    /\ at' = "done"
    /\ outcome' = "inconclusive"
    /\ UNCHANGED <<cardVars, secure>>

Finish(out) ==
    /\ at' = "done"
    /\ outcome' = out
    /\ ReadRPMB
    /\ UNCHANGED <<secure, clean>>

\* The key devicekey.Derive returns.
Derived == IF secure THEN UnitKey ELSE DevKey

\* No response that counts, or a derivation that failed or gave a DEV key: the
\* state of the card stays in doubt.
Inconclusive ==
    /\ at \in {"probe", "diagnose"}
    /\ Finish("inconclusive")

\* The probe was answered by a card that has a key: find out whose.
ProbeProgrammed ==
    /\ at = "probe"
    /\ pending # NoFrame /\ pending.result = "ok"
    /\ secure
    /\ Exchange(FetchRequest("counter", 1), "diagnose")
    /\ UNCHANGED <<secure, clean, outcome>>

\* Mutation: the counter is read without authentication.
DiagnoseAnyMac ==
    /\ at = "diagnose"
    /\ pending # NoFrame
    /\ Finish("matches")

Diagnose ==
    /\ at = "diagnose"
    /\ pending # NoFrame
    /\ Finish(IF pending.mac = Derived THEN "matches" ELSE "foreign")

\* The card has no key, and none is programmed: the boot is not clean or not
\* secure, or the derivation failed.
RefuseToProgram ==
    /\ at = "probe"
    /\ pending # NoFrame /\ pending.result = "keyNotYetProgrammed"
    /\ Finish("refused")

\* Mutation: the boot is not looked at.
ProgramKeyAlways ==
    /\ at = "probe"
    /\ pending # NoFrame /\ pending.result = "keyNotYetProgrammed"
    /\ Exchange(ProgramRequest(Derived), "program")
    /\ UNCHANGED <<secure, clean, outcome>>

\* The card has no key: program the derived one.
ProgramKey ==
    /\ at = "probe"
    /\ pending # NoFrame /\ pending.result = "keyNotYetProgrammed"
    /\ clean /\ secure
    /\ Exchange(ProgramRequest(Derived), "program")
    /\ UNCHANGED <<secure, clean, outcome>>

\* ProgramKey was acknowledged: read the counter under the new key.
Verify ==
    /\ at = "program"
    /\ pending # NoFrame /\ pending.result = "ok"
    /\ Exchange(FetchRequest("counter", 2), "verify")
    /\ UNCHANGED <<secure, clean, outcome>>

\* Programming or verification was not answered as it should be.
ProgramFails ==
    /\ at \in {"program", "verify"}
    /\ Finish("failed")

Succeed ==
    /\ at = "verify"
    /\ pending # NoFrame /\ pending.mac = Derived
    /\ Finish("success")

PowerOff ==
    /\ at # "off"
    /\ ReadRPMB
    /\ at' = "off"
    /\ outcome' = "none"
    /\ UNCHANGED <<secure, clean>>

BurnFuses ==
    /\ at = "off"
    /\ secure' = TRUE
    /\ UNCHANGED <<cardVars, at, clean, outcome>>

ProvisionerNext ==
    \/ \E isClean \in BOOLEAN : Boot(isClean) \/ NoCard(isClean)
    \/ Inconclusive \/ ProbeProgrammed \/ Diagnose
    \/ RefuseToProgram \/ ProgramKey \/ Verify \/ ProgramFails \/ Succeed
    \/ PowerOff \/ BurnFuses

ProvisionerSpec == ProvisionerInit /\ [][ProvisionerNext]_allVars

-----------------------------------------------------------------------------
(* Properties *)

\* The status an operator decides by is true of the card: success and "already
\* programmed" mean the key of this unit, "foreign" another one, a refusal none,
\* also when an earlier boot was cut between programming and verifying.
StatusTruthful ==
    /\ outcome \in {"success", "matches"} => key = UnitKey
    /\ outcome = "foreign" => key \notin {UnitKey, NoKey}
    /\ outcome = "refused" => key = NoKey

\* The one-way step is taken only in a clean boot of a fused unit, and only with
\* the key of that unit: not the key of the probe, not a DEV key, never twice.
KeyProgrammedOnce ==
    [][key' # key => key = NoKey /\ key' = UnitKey /\ secure /\ clean]_allVars
=============================================================================
