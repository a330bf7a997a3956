------------------------------ MODULE RpmbCard ------------------------------
(***************************************************************************)
(* The eMMC RPMB partition as internal/rpmbtest models it: a key that is   *)
(* programmed once, a write counter, the sector that holds the anchor      *)
(* record, and the response staged for the host to fetch.                  *)
(*                                                                         *)
(* A MAC is the key it was made with, and NoKey stands for none: a frame   *)
(* verifies exactly if it carries the verifier's key.  Only the anchor's   *)
(* sector is ever accessed, so addresses are left out.                     *)
(***************************************************************************)
EXTENDS Naturals

CONSTANTS
    Hashes,     \* blob digests
    NoHash,     \* the digest field of a blank record
    Keys,       \* RPMB authentication keys
    UnitKey,    \* the key a fused unit derives from its hardware-unique key
    NoKey,      \* no key programmed; no MAC
    NoFrame,    \* no response staged
    MaxGen      \* the largest uint32, of generations and of the write counter

ASSUME CardAssumption ==
    /\ MaxGen \in Nat
    /\ UnitKey \in Keys /\ NoKey \notin Keys /\ NoHash \notin Hashes

VARIABLES
    key,        \* FakeCard.key, NoKey while it is not programmed
    counter,    \* FakeCard.counter
    record,     \* the anchor record in FakeCard.sectors
    pending     \* FakeCard.pending

cardVars == <<key, counter, record, pending>>

Records == [gen: 0..MaxGen, hash: Hashes \cup {NoHash}, bound: BOOLEAN]
Blank == [gen |-> 0, hash |-> NoHash, bound |-> FALSE]

\* A uint32 increment.
Inc(n) == IF n = MaxGen THEN 0 ELSE n + 1

CardInit(k) ==
    /\ key = k
    /\ counter = 0
    /\ record = Blank
    /\ pending = NoFrame

\* A response to a request of kind req, signed by the card once it has a key.
Response(req, result, nonce, ctr, rec, mac) ==
    [req |-> req, result |-> result, nonce |-> nonce, counter |-> ctr,
     rec |-> rec, mac |-> mac]

ErrFrame(req, result) == Response(req.req, result, req.nonce, 0, Blank, key)

\* Requests, as the host's driver builds them.
ProgramRequest(k) == [req |-> "program", nonce |-> 0, counter |-> 0, rec |-> Blank, mac |-> k]
FetchRequest(req, nonce) == [req |-> req, nonce |-> nonce, counter |-> 0, rec |-> Blank, mac |-> NoKey]
WriteRequest(rec, ctr, mac) == [req |-> "write", nonce |-> 0, counter |-> ctr, rec |-> rec, mac |-> mac]

-----------------------------------------------------------------------------
\* The key travels in the MAC field and is programmed once.
StageKeyProgram(req) ==
    /\ key' = IF key = NoKey THEN req.mac ELSE key
    /\ pending' = IF key = NoKey THEN Response("program", "ok", 0, 0, Blank, NoKey)
                  ELSE ErrFrame(req, "generalFailure")
    /\ UNCHANGED <<counter, record>>

StageCounterRead(req) ==
    /\ pending' = IF key = NoKey THEN ErrFrame(req, "keyNotYetProgrammed")
                  ELSE Response("counter", "ok", req.nonce, counter, Blank, key)
    /\ UNCHANGED <<key, counter, record>>

\* Mutation: the write counter of a request is not compared.
WriteResultAnyCounter(req) == IF req.mac # key THEN "authenticationFailure" ELSE "ok"

\* A write needs a MAC that verifies and the current counter.
WriteResult(req) ==
    CASE key = NoKey -> "keyNotYetProgrammed"
      [] key # NoKey /\ req.mac # key -> "authenticationFailure"
      [] key # NoKey /\ req.mac = key /\ req.counter # counter -> "counterFailure"
      [] OTHER -> "ok"

\* The response to a write names the new counter, not the data.
StageWrite(req) ==
    /\ IF WriteResult(req) = "ok"
       THEN /\ record' = req.rec
            /\ counter' = Inc(counter)
            /\ pending' = Response("write", "ok", 0, Inc(counter), Blank, key)
       ELSE /\ pending' = ErrFrame(req, WriteResult(req))
            /\ UNCHANGED <<counter, record>>
    /\ UNCHANGED key

StageRead(req) ==
    /\ pending' = IF key = NoKey THEN ErrFrame(req, "keyNotYetProgrammed")
                  ELSE Response("read", "ok", req.nonce, 0, record, key)
    /\ UNCHANGED <<key, counter, record>>

\* WriteRPMB: the card consumes a request and stages its response.
WriteRPMB(req) ==
    \/ req.req = "program" /\ StageKeyProgram(req)
    \/ req.req = "counter" /\ StageCounterRead(req)
    \/ req.req = "write" /\ StageWrite(req)
    \/ req.req = "read" /\ StageRead(req)

\* ReadRPMB: the staged response is fetched, once.
ReadRPMB == pending' = NoFrame /\ UNCHANGED <<key, counter, record>>
=============================================================================
