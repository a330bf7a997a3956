--------------------------- MODULE AnchorRegister ---------------------------
(***************************************************************************)
(* What internal/state's Anchor interface promises the store: a record     *)
(* that only advances, a SetAnchor that reports success only if its record *)
(* is the one stored, and may have stored it although it reports an error, *)
(* and an Anchor that returns the record as it is.  RollbackStore is built *)
(* on this promise (its SetAnchor and SetAnchorFails); RpmbAnchor keeps it.*)
(***************************************************************************)
EXTENDS Naturals

CONSTANTS
    Registers,  \* the records, with fields gen and bound
    Empty       \* the record of a fresh unit

VARIABLES
    stored,     \* the record
    call,       \* "none", "get" or "set": the call under way or just returned
    asked,      \* the record SetAnchor was asked to store
    value,      \* the record Anchor returned
    result      \* "none", "busy", "ok" or "error"

registerVars == <<stored, call, asked, value, result>>

RegisterInit ==
    /\ stored = Empty
    /\ call = "none" /\ asked = Empty /\ value = Empty /\ result = "none"

BeginGet ==
    /\ result # "busy"
    /\ call' = "get" /\ asked' = Empty /\ value' = Empty /\ result' = "busy"
    /\ UNCHANGED stored

BeginSet(next) ==
    /\ result # "busy"
    /\ call' = "set" /\ asked' = next /\ value' = Empty /\ result' = "busy"
    /\ UNCHANGED stored

\* The record asked for is stored; only a bound one that advances ever is.
Land ==
    /\ result = "busy" /\ call = "set"
    /\ asked.bound /\ asked.gen > stored.gen
    /\ stored' = asked
    /\ UNCHANGED <<call, asked, value, result>>

ReturnOk ==
    /\ result = "busy"
    /\ \/ call = "set" /\ stored = asked /\ UNCHANGED value
       \/ call = "get" /\ value' = stored
    /\ result' = "ok"
    /\ UNCHANGED <<stored, call, asked>>

ReturnError ==
    /\ result = "busy"
    /\ result' = "error"
    /\ UNCHANGED <<stored, call, asked, value>>

\* The caller loses power.
Reset ==
    /\ call' = "none" /\ asked' = Empty /\ value' = Empty /\ result' = "none"
    /\ UNCHANGED stored

RegisterNext ==
    BeginGet \/ (\E next \in Registers : BeginSet(next)) \/ Land \/ ReturnOk \/ ReturnError \/ Reset

RegisterSpec == RegisterInit /\ [][RegisterNext]_registerVars
=============================================================================
