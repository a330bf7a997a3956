--------------------------- MODULE BringUpProofs ---------------------------
(***************************************************************************)
(* Proofs about BringUp, the life of a unit and its card.  They come in    *)
(* two parts.  What is said about the key of the card holds whatever the   *)
(* transport does.  What is said about the counter and the record, and the *)
(* refinement of AnchorRegister, holds unless a lost write request is      *)
(* delivered after all ("late"), where MCRpmbAnchor_late refutes it.       *)
(***************************************************************************)
EXTENDS BringUp, TLAPS

-----------------------------------------------------------------------------
(* The key of the card *)

KeyTypeOK ==
    /\ key \in Keys \cup {NoKey}
    /\ at \in {"off", "probe", "diagnose", "program", "verify", "done"}
    /\ secure \in BOOLEAN
    /\ mode \in {"off", "probe", "open", "protected", "halted", "ram", "fatal"}
    /\ host = [key |-> host.key, at |-> host.at, op |-> host.op, next |-> host.next,
               cur |-> host.cur, req |-> host.req, out |-> host.out]

\* What the response the provisioner awaits says about the card, at each of its steps.
ProvisionerInv ==
    /\ at # "off" => mode = "off"
    /\ outcome # "none" => at = "done"
    /\ at \in {"diagnose", "program", "verify"} => secure
    /\ at = "probe" /\ pending # NoFrame =>
          /\ pending.result = "ok" => key # NoKey
          /\ pending.result = "keyNotYetProgrammed" => key = NoKey
    /\ at \in {"diagnose", "verify"} =>
          key # NoKey /\ (pending # NoFrame => pending.mac = key)
    /\ at = "program" /\ pending # NoFrame /\ pending.result = "ok" => key = UnitKey
    /\ StatusTruthful

\* What the firmware knows about the card: it calls the anchor only if the card has
\* a key, with the key it derives, and serves only once that was the card's.
FirmwareInv ==
    /\ mode = "probe" /\ pending # NoFrame /\ pending.result = "ok" => key # NoKey
    /\ mode \in {"open", "protected", "halted"} => key # NoKey /\ host.key = Derived
    /\ mode \in {"protected", "halted"} => key = Derived
    /\ mode = "ram" => ~secure
    /\ mode \notin {"open", "protected"} => host.at = "idle"
    /\ host.at # "idle" => host.out = "busy"

\* Every response of the card to the anchor carries the card's key, and the one
\* the anchor awaits is among them.
FramesInv ==
    /\ seen # {} \/ sent # {} => key # NoKey
    /\ \A r \in seen : r.mac = key
    /\ \A q \in sent : q.req = "write"
    /\ host.at # "idle" => pending \in seen \cup {NoFrame}

KeyInv == KeyTypeOK /\ ProvisionerInv /\ FirmwareInv /\ FramesInv

-----------------------------------------------------------------------------
(* The counter and the record *)

HostTypeOK ==
    /\ counter \in 0..MaxGen
    /\ record \in Records
    /\ draws \in Nat
    /\ host.at \in {"idle", "read", "counter", "write"}
    /\ host.op \in {"none", "get", "set"}
    /\ host.next \in Records
    /\ host.out \in {"none", "busy", "ok", "error"}

\* How far the call under way has come.
CallInv ==
    /\ host.at = "idle" <=> host.out # "busy"
    /\ host.op = "none" => host.at = "idle"
    /\ host.at \in {"counter", "write"} => host.op = "set"
    /\ host.at # "idle" => host.req.req = host.at
    /\ host.at \in {"read", "counter"} => host.req.nonce = draws
    /\ host.at = "counter" =>
          host.next.bound /\ host.next.gen > record.gen
    /\ host.at = "write" =>
          \/ record = host.next
          \/ host.req.counter = counter /\ counter < MaxGen

\* What a response that passes, perhaps a stale one, tells: a read the record and a
\* counter read the counter of now, and no write response is ahead of the counter.
ResponseInv ==
    \A r \in seen : r.result = "ok" =>
        /\ r.req \in {"read", "counter"} => r.nonce \in 0..draws
        /\ r.req = "read" /\ host.at = "read" /\ r.nonce = draws => r.rec = record
        /\ r.req = "counter" /\ host.at = "counter" /\ r.nonce = draws => r.counter = counter
        /\ r.req = "write" => r.counter \in 0..counter

ProtocolInv ==
    /\ HostTypeOK
    /\ CallInv
    /\ ResponseInv
    /\ CounterWithinGenerations
    /\ SuccessMeansAnchored

-----------------------------------------------------------------------------
(* What the card does *)

\* The card answers a counter read whether it has a key or not, and changes nothing.
LEMMA ProbeAnswered ==
    ASSUME NEW n, WriteRPMB(FetchRequest("counter", n))
    PROVE  /\ UNCHANGED <<key, counter, record>>
           /\ pending'.mac = key
           /\ pending'.result = (IF key = NoKey THEN "keyNotYetProgrammed" ELSE "ok")
BY DEF WriteRPMB, FetchRequest, StageKeyProgram, StageCounterRead, StageWrite, StageRead,
       ErrFrame, Response

\* The key is programmed into a card that has none.
LEMMA KeyProgrammed ==
    ASSUME NEW k, WriteRPMB(ProgramRequest(k)), key = NoKey
    PROVE  /\ key' = k
           /\ UNCHANGED <<counter, record>>
BY DEF WriteRPMB, ProgramRequest, StageKeyProgram, StageCounterRead, StageWrite, StageRead

\* No other request changes the key, and every answer to one is signed with it.
LEMMA KeyStays ==
    ASSUME NEW req, req.req \in {"read", "counter", "write"}, WriteRPMB(req)
    PROVE  key' = key /\ pending'.mac = key
BY DEF WriteRPMB, StageKeyProgram, StageCounterRead, StageWrite, StageRead, ErrFrame, Response

\* A request of the anchor that is executed adds its response to those seen.
LEMMA SendKeepsFrames ==
    ASSUME NEW req, req.req \in {"read", "counter", "write"}, Send(req),
           key # NoKey, FramesInv
    PROVE  /\ key' = key
           /\ \A r \in seen' : r.mac = key'
           /\ \A q \in sent' : q.req = "write"
           /\ pending' \in seen' \cup {NoFrame}
<1>1. CASE WriteRPMB(req) /\ seen' = seen \cup {pending'}
  BY <1>1, KeyStays DEF Send, FramesInv
<1>2. CASE ReadRPMB /\ UNCHANGED seen
  BY <1>2 DEF Send, FramesInv, ReadRPMB
<1> QED  BY <1>1, <1>2 DEF Send

-----------------------------------------------------------------------------
(* The key of the card: induction *)

LEMMA KeyInitInv == BringUpInit => KeyInv
<1> SUFFICES ASSUME BringUpInit PROVE KeyInv  OBVIOUS
<1>1. KeyTypeOK
  BY CardAssumption DEF BringUpInit, ProvisionerInit, CardInit, KeyTypeOK, Unused
<1>2. ProvisionerInv /\ FirmwareInv /\ FramesInv
  BY DEF BringUpInit, ProvisionerInit, CardInit, Unused, ProvisionerInv, FirmwareInv, FramesInv,
         StatusTruthful
<1> QED  BY <1>1, <1>2 DEF KeyInv

\* A step of the provisioner.
LEMMA ProvisionerKeepsKeyInv ==
    ASSUME KeyInv, mode = "off", ProvisionerNext, UNCHANGED <<hostVars, mode>>
    PROVE  KeyInv'
<1> USE DEF KeyInv, KeyTypeOK, hostVars
<1>1. UNCHANGED <<host, draws, sent, seen, mode>> /\ host.at = "idle"
  BY DEF FirmwareInv
<1>2. ASSUME NEW isClean \in BOOLEAN, Boot(isClean) \/ NoCard(isClean)
      PROVE  KeyInv'
  BY <1>1, <1>2, ProbeAnswered
  DEF Boot, NoCard, Exchange, ReadRPMB, cardVars, ProvisionerInv, FirmwareInv, FramesInv, StatusTruthful
<1>3. CASE Inconclusive \/ ProgramFails
  BY <1>1, <1>3 DEF Inconclusive, ProgramFails, Finish, ReadRPMB, ProvisionerInv, FirmwareInv,
     FramesInv, StatusTruthful
<1>4. CASE ProbeProgrammed \/ Verify
  BY <1>1, <1>4, ProbeAnswered, CardAssumption
  DEF ProbeProgrammed, Verify, Exchange, ReadRPMB, ProvisionerInv, FirmwareInv, FramesInv, StatusTruthful
<1>5. CASE Diagnose \/ RefuseToProgram \/ Succeed
  BY <1>1, <1>5 DEF Diagnose, RefuseToProgram, Succeed, Finish, ReadRPMB, Derived, ProvisionerInv,
     FirmwareInv, FramesInv, StatusTruthful
<1>6. CASE ProgramKey
  BY <1>1, <1>6, KeyProgrammed, CardAssumption
  DEF ProgramKey, Exchange, ReadRPMB, Derived, ProvisionerInv, FirmwareInv, FramesInv, StatusTruthful
<1>7. CASE PowerOff \/ BurnFuses
  BY <1>1, <1>7 DEF PowerOff, BurnFuses, ReadRPMB, cardVars, ProvisionerInv, FirmwareInv, FramesInv,
     StatusTruthful
<1> QED  BY <1>2, <1>3, <1>4, <1>5, <1>6, <1>7 DEF ProvisionerNext

\* What the anchor is handed is a response the card signed for it.
LEMMA IncomingSeen ==
    ASSUME FramesInv, host.at # "idle", NEW r \in Incoming
    PROVE  r \in seen
BY DEF Incoming, FramesInv

\* The requests of the anchor, and what sending them leaves alone.
LEMMA FetchSent ==
    ASSUME NEW req \in {"read", "counter"}, SendFetch(req), key # NoKey, FramesInv
    PROVE  /\ key' = key
           /\ \A r \in seen' : r.mac = key'
           /\ \A q \in sent' : q.req = "write"
           /\ pending' \in seen' \cup {NoFrame}
<1>1. Send(FetchRequest(req, draws'))  BY DEF SendFetch
<1>2. FetchRequest(req, draws').req \in {"read", "counter", "write"}  BY DEF FetchRequest
<1> QED  BY <1>1, <1>2, SendKeepsFrames

\* A write request the card sees adds to the frames only what its key made.
LEMMA WriteSent ==
    ASSUME NEW r, SendWrite(r), key # NoKey, FramesInv
    PROVE  /\ key' = key
           /\ \A q \in seen' : q.mac = key'
           /\ \A q \in sent' : q.req = "write"
           /\ pending' \in seen' \cup {NoFrame}
<1> DEFINE req == WriteRequest(host.next, r.counter, host.key)
<1>1. Send(req)  BY DEF SendWrite
<1>2. req.req \in {"read", "counter", "write"}  BY DEF WriteRequest
<1> QED  BY <1>1, <1>2, SendKeepsFrames

\* A step of the witness firmware.
LEMMA FirmwareKeepsKeyInv ==
    ASSUME KeyInv,
           \/ NoStorage \/ ProbeRpmb \/ ProbeFails \/ OpenStore
           \/ AnchorFails \/ AnchorGoesOn \/ AdvanceAnchor \/ RedeliverWrite
           \/ SwitchOff
    PROVE  KeyInv'
<1> USE DEF KeyInv, KeyTypeOK, provisionerVars
<1>1. CASE NoStorage
  BY <1>1 DEF NoStorage, Degrade, allVars, cardVars, hostVars, ProvisionerInv, FirmwareInv, FramesInv,
     StatusTruthful
<1>2. CASE ProbeRpmb
  BY <1>2, ProbeAnswered DEF ProbeRpmb, ReadRPMB, hostVars, ProvisionerInv, FirmwareInv, FramesInv,
     StatusTruthful
<1>3. CASE ProbeFails
  BY <1>3 DEF ProbeFails, Degrade, ReadRPMB, hostVars, ProvisionerInv, FirmwareInv, FramesInv,
     StatusTruthful
<1>4. CASE OpenStore
  <2>1. SendFetch("read") /\ key # NoKey
    BY <1>4 DEF OpenStore, Anchor, Call, FirmwareInv
  <2>2. at' = at /\ outcome' = outcome /\ secure' = secure /\ mode = "probe" /\ mode' = "open"
    BY <1>4 DEF OpenStore
  <2>3. host' = [key |-> Derived, at |-> "read", op |-> "get", next |-> Blank, cur |-> Blank,
                 req |-> FetchRequest("read", draws'), out |-> "busy"]
    BY <1>4 DEF OpenStore, Anchor, Call
  <2> QED
    BY <2>1, <2>2, <2>3, FetchSent DEF Derived, ProvisionerInv, FirmwareInv, FramesInv, StatusTruthful
<1>5. CASE AnchorFails
  BY <1>5 DEF AnchorFails, ExchangeFails, ReadRPMB, Return, Derived, ProvisionerInv, FirmwareInv, FramesInv,
     StatusTruthful
<1>6. CASE AnchorGoesOn
  <2>1. PICK r \in Incoming : Receive(r)
    BY <1>6 DEF AnchorGoesOn
  <2>2. /\ at' = at /\ outcome' = outcome /\ secure' = secure
        /\ mode \in {"open", "protected"} /\ mode' \in {"protected", "halted"}
        /\ host'.out # "error" => mode' = "protected"
    BY <1>6 DEF AnchorGoesOn
  <2>3. r \in seen /\ host.at # "idle"
    BY <2>1, IncomingSeen DEF Receive
  <2>4. key # NoKey /\ key = Derived
    BY <2>1, <2>2, <2>3 DEF Receive, Accepts, FirmwareInv, FramesInv
  <2>5. CASE AnchorReturns(r) \/ SetReturns \/ RefuseSet(r)
    <3>1. /\ UNCHANGED <<key, draws, sent, seen>> /\ pending' = NoFrame
          /\ host'.at = "idle" /\ host'.key = host.key
          /\ host' = [key |-> host'.key, at |-> host'.at, op |-> host'.op, next |-> host'.next,
                      cur |-> host'.cur, req |-> host'.req, out |-> host'.out]
      BY <2>5 DEF AnchorReturns, SetReturns, RefuseSet, Return, ReadRPMB
    <3> QED  BY <2>2, <2>4, <3>1 DEF Derived, ProvisionerInv, FirmwareInv, FramesInv, StatusTruthful
  <2>6. CASE FetchCounter(r) \/ SendWrite(r)
    <3>1. /\ key' = key
          /\ \A q \in seen' : q.mac = key'
          /\ \A q \in sent' : q.req = "write"
          /\ pending' \in seen' \cup {NoFrame}
      <4>1. CASE FetchCounter(r)  BY <2>4, <4>1, FetchSent DEF FetchCounter
      <4>2. CASE SendWrite(r)  BY <2>4, <4>2, WriteSent
      <4> QED  BY <2>6, <4>1, <4>2
    <3>2. /\ host'.key = host.key /\ host'.out = host.out
          /\ host' = [key |-> host'.key, at |-> host'.at, op |-> host'.op, next |-> host'.next,
                      cur |-> host'.cur, req |-> host'.req, out |-> host'.out]
      BY <2>6 DEF FetchCounter, SendWrite
    <3> QED  BY <2>2, <2>3, <2>4, <3>1, <3>2 DEF Derived, ProvisionerInv, FirmwareInv, FramesInv, StatusTruthful
  <2> QED  BY <2>1, <2>5, <2>6 DEF Receive
<1>7. CASE AdvanceAnchor
  <2>1. PICK next \in Candidates : SetAnchor(Derived, next)
    BY <1>7 DEF AdvanceAnchor
  <2>2. SendFetch("read") /\ key # NoKey
    BY <1>7, <2>1 DEF AdvanceAnchor, SetAnchor, Call, FirmwareInv
  <2>3. at' = at /\ outcome' = outcome /\ secure' = secure /\ mode = "protected" /\ mode' = mode
    BY <1>7 DEF AdvanceAnchor
  <2>4. host' = [key |-> Derived, at |-> "read", op |-> "set", next |-> next, cur |-> Blank,
                 req |-> FetchRequest("read", draws'), out |-> "busy"]
    BY <2>1 DEF SetAnchor, Call
  <2> QED
    BY <2>2, <2>3, <2>4, FetchSent DEF Derived, ProvisionerInv, FirmwareInv, FramesInv, StatusTruthful
<1>8. CASE RedeliverWrite
  <2>1. PICK req \in sent : Redeliver(req)
    BY <1>8 DEF RedeliverWrite
  <2>2. key' = key /\ pending'.mac = key /\ key # NoKey
    BY <2>1, KeyStays DEF Redeliver, FramesInv
  <2>3. UNCHANGED <<host, draws, sent, at, outcome, secure, mode>> /\ seen' = seen \cup {pending'}
    BY <1>8, <2>1 DEF RedeliverWrite, Redeliver
  <2>4. mode # "off"
    BY <1>8 DEF RedeliverWrite
  <2> QED  BY <2>2, <2>3, <2>4 DEF Derived, ProvisionerInv, FirmwareInv, FramesInv, StatusTruthful
<1>9. CASE SwitchOff
  BY <1>9 DEF SwitchOff, PowerCut, Unused, ReadRPMB, ProvisionerInv, FirmwareInv, FramesInv, StatusTruthful
<1> QED  BY <1>1, <1>2, <1>3, <1>4, <1>5, <1>6, <1>7, <1>8, <1>9

\* The firmware never changes the key.
LEMMA FirmwareKeepsKey ==
    ASSUME KeyInv,
           \/ NoStorage \/ ProbeRpmb \/ ProbeFails \/ OpenStore
           \/ AnchorFails \/ AnchorGoesOn \/ AdvanceAnchor \/ RedeliverWrite
           \/ SwitchOff
    PROVE  key' = key
<1>1. FramesInv /\ FirmwareInv  BY DEF KeyInv
<1>2. ASSUME NEW req \in {"read", "counter"}, SendFetch(req)
      PROVE  key' = key
  <2>1. FetchRequest(req, draws').req \in {"read", "counter", "write"}  BY DEF FetchRequest
  <2> QED  BY <1>2, <2>1, KeyStays DEF SendFetch, Send, ReadRPMB
<1>3. ASSUME NEW r, SendWrite(r)
      PROVE  key' = key
  <2>1. WriteRequest(host.next, r.counter, host.key).req \in {"read", "counter", "write"}
    BY DEF WriteRequest
  <2> QED  BY <1>3, <2>1, KeyStays DEF SendWrite, Send, ReadRPMB
<1>4. ASSUME NEW r, Receive(r)
      PROVE  key' = key
  BY <1>2, <1>3, <1>4 DEF Receive, AnchorReturns, RefuseSet, FetchCounter, SetReturns, ReadRPMB
<1>5. CASE NoStorage \/ ProbeRpmb \/ ProbeFails \/ SwitchOff
  BY <1>5, ProbeAnswered DEF NoStorage, ProbeRpmb, ProbeFails, SwitchOff, PowerCut, ReadRPMB, allVars, cardVars
<1>6. CASE OpenStore \/ AdvanceAnchor
  BY <1>2, <1>6 DEF OpenStore, AdvanceAnchor, Anchor, SetAnchor, Call
<1>7. CASE AnchorFails \/ AnchorGoesOn
  BY <1>4, <1>7 DEF AnchorFails, ExchangeFails, AnchorGoesOn, ReadRPMB
<1>8. CASE RedeliverWrite
  BY <1>1, <1>8, KeyStays DEF RedeliverWrite, Redeliver, FramesInv
<1> QED  BY <1>5, <1>6, <1>7, <1>8

\* Every step of the bring-up keeps KeyInv: one case per action.
LEMMA KeyInductive == KeyInv /\ [BringUpNext]_bringUpVars => KeyInv'
<1> SUFFICES ASSUME KeyInv, [BringUpNext]_bringUpVars PROVE KeyInv'  OBVIOUS
<1>1. CASE UNCHANGED bringUpVars
  BY <1>1 DEF bringUpVars, allVars, cardVars, provisionerVars, hostVars, KeyInv, KeyTypeOK, ProvisionerInv,
     FirmwareInv, FramesInv, StatusTruthful, Derived
<1>2. CASE BringUpNext
  BY <1>2, ProvisionerKeepsKeyInv, FirmwareKeepsKeyInv DEF BringUpNext
<1> QED  BY <1>1, <1>2

\* What is true of the key of the card, of the two programs that use it and of the
\* frames between them, in every life of the unit: the provisioner's exchanges may
\* lose frames, the anchor's may also repeat them and deliver them late.
THEOREM KeyInvariant == BringUpSpec => []KeyInv
BY KeyInitInv, KeyInductive, PTL DEF BringUpSpec

\* The status of the provisioner is true of the card in every life of the unit,
\* whatever frames the provisioner loses and wherever it is cut (StatusTruthful).
THEOREM BringUpStatusTruthful == BringUpSpec => []StatusTruthful
<1>1. KeyInv => StatusTruthful  BY DEF KeyInv, ProvisionerInv
<1> QED  BY <1>1, KeyInvariant, PTL

\* A fused unit serves only over a card that holds its own key (FusedServesProtected).
THEOREM BringUpFusedServesProtected == BringUpSpec => []FusedServesProtected
<1>1. KeyInv => FusedServesProtected
  BY DEF KeyInv, FirmwareInv, FusedServesProtected, Derived
<1> QED  BY <1>1, KeyInvariant, PTL

\* The key is programmed once, in a clean and secure boot of the provisioner, and
\* is that of the unit (KeyProgrammedOnce).
THEOREM BringUpKeyProgrammedOnce == BringUpSpec => KeyProgrammedOnce
<1>1. KeyInv /\ [BringUpNext]_bringUpVars =>
          [key' # key => key = NoKey /\ key' = UnitKey /\ secure /\ clean]_allVars
  <2> SUFFICES ASSUME KeyInv, BringUpNext, key' # key
               PROVE  key = NoKey /\ key' = UnitKey /\ secure /\ clean
    BY DEF bringUpVars, allVars, cardVars
  <2>1. mode = "off" /\ ProvisionerNext
    BY FirmwareKeepsKey DEF BringUpNext
  <2>2. CASE ProgramKey
    BY <2>2, KeyProgrammed DEF ProgramKey, Exchange, ReadRPMB, Derived, KeyInv, ProvisionerInv
  <2>3. ~ProgramKey => key' = key
    BY <2>1, ProbeAnswered DEF ProvisionerNext, Boot, NoCard, Inconclusive, ProbeProgrammed, Diagnose,
       RefuseToProgram, Verify, ProgramFails, Succeed, PowerOff, BurnFuses, Exchange, Finish, ReadRPMB,
       cardVars
  <2> QED  BY <2>2, <2>3
<1> QED  BY <1>1, KeyInvariant, PTL DEF BringUpSpec, KeyProgrammedOnce

-----------------------------------------------------------------------------
(* The counter and the record: what requests and responses tell *)

LEMMA WriteResultOk ==
    ASSUME NEW req
    PROVE  WriteResult(req) = "ok" <=> key # NoKey /\ req.mac = key /\ req.counter = counter
BY DEF WriteResult

\* A fetch draws a nonce, and its response tells the record or the counter of now.
LEMMA FetchTells ==
    ASSUME NEW kind \in {"read", "counter"}, SendFetch(kind), key # NoKey
    PROVE  /\ draws' = draws + 1
           /\ UNCHANGED <<counter, record>>
           /\ \A r \in seen' : \/ r \in seen
                               \/ /\ r.req = kind /\ r.result = "ok" /\ r.nonce = draws'
                                  /\ kind = "read" => r.rec = record
                                  /\ kind = "counter" => r.counter = counter
<1> DEFINE req == FetchRequest(kind, draws')
<1>1. draws' = draws + 1 /\ Send(req)  BY DEF SendFetch
<1>2. CASE WriteRPMB(req) /\ seen' = seen \cup {pending'}
  <2>1. CASE kind = "read"
    BY <1>1, <1>2, <2>1 DEF WriteRPMB, FetchRequest, StageKeyProgram, StageCounterRead, StageWrite, StageRead,
       Response
  <2>2. CASE kind = "counter"
    BY <1>1, <1>2, <2>2 DEF WriteRPMB, FetchRequest, StageKeyProgram, StageCounterRead, StageWrite, StageRead,
       Response
  <2> QED  BY <2>1, <2>2
<1>3. CASE ReadRPMB /\ UNCHANGED seen
  BY <1>1, <1>3 DEF ReadRPMB
<1> QED  BY <1>1, <1>2, <1>3 DEF Send

\* A write under the current counter and key is executed, or lost.
LEMMA WriteTells ==
    ASSUME NEW r, SendWrite(r), r.counter = counter, host.key = key, key # NoKey
    PROVE  \/ /\ record' = host.next /\ counter' = Inc(counter)
              /\ \A q \in seen' : \/ q \in seen
                                  \/ q.req = "write" /\ q.result = "ok" /\ q.counter = Inc(counter)
           \/ UNCHANGED <<counter, record, seen>>
<1> DEFINE req == WriteRequest(host.next, r.counter, host.key)
<1>1. Send(req)  BY DEF SendWrite
<1>2. WriteResult(req) = "ok" /\ req.rec = host.next /\ req.req = "write"
  BY WriteResultOk DEF WriteRequest
<1>3. CASE WriteRPMB(req) /\ seen' = seen \cup {pending'}
  <2>1. StageWrite(req)  BY <1>2, <1>3 DEF WriteRPMB
  <2> QED  BY <1>2, <1>3, <2>1 DEF StageWrite, Response
<1>4. CASE ReadRPMB /\ UNCHANGED seen
  BY <1>4 DEF ReadRPMB
<1> QED  BY <1>1, <1>3, <1>4 DEF Send

\* A write request that is delivered again is refused.
LEMMA DuplicateRefused ==
    ASSUME NEW req, Redeliver(req), req.req = "write", "late" \notin Faults
    PROVE  /\ UNCHANGED <<counter, record, host, draws>>
           /\ \A q \in seen' : q \in seen \/ q.result # "ok"
<1>1. StageWrite(req) /\ req.counter # counter  BY DEF Redeliver, WriteRPMB
<1>2. WriteResult(req) # "ok"  BY <1>1, WriteResultOk
<1>3. UNCHANGED <<counter, record>> /\ pending'.result # "ok"
  BY <1>1, <1>2 DEF StageWrite, ErrFrame, Response
<1> QED  BY <1>3 DEF Redeliver

\* A response that passes tells the truth about the card, stale or not: a read the
\* record, a counter read the counter, and a write response that this write landed.
LEMMA AcceptedTells ==
    ASSUME KeyInv, ProtocolInv, host.at # "idle", NEW r \in Incoming, Accepts(r)
    PROVE  /\ key = host.key
           /\ host.at = "read" => r.rec = record
           /\ host.at = "counter" => r.counter = counter
           /\ host.at = "write" => record = host.next
<1> USE DEF ProtocolInv, HostTypeOK
<1>1. r \in seen  BY IncomingSeen DEF KeyInv
<1>2. r.req = host.at /\ r.result = "ok" /\ r.mac = host.key
  BY DEF Accepts, CallInv
<1>3. key = host.key  BY <1>1, <1>2 DEF KeyInv, FramesInv
<1>4. host.at \in {"read", "counter"} => r.nonce = draws
  BY DEF Accepts, CallInv
<1>5. ASSUME host.at = "write"
      PROVE  record = host.next
  <2>1. r.counter = Inc(host.req.counter) /\ r.counter \in 0..counter
    BY <1>1, <1>2, <1>5 DEF Accepts, CallInv, ResponseInv
  <2>2. ~(host.req.counter = counter /\ counter < MaxGen)
    BY <2>1, CardAssumption DEF Inc
  <2> QED  BY <1>5, <2>2 DEF CallInv
<1> QED  BY <1>1, <1>2, <1>3, <1>4, <1>5 DEF ResponseInv

-----------------------------------------------------------------------------
(* The counter and the record: induction *)

LEMMA ProtocolInitInv == BringUpInit => ProtocolInv
<1> SUFFICES ASSUME BringUpInit PROVE ProtocolInv  OBVIOUS
<1>1. counter = 0 /\ record = Blank /\ draws = 0 /\ seen = {} /\ host = Unused
  BY DEF BringUpInit, ProvisionerInit, CardInit
<1>2. Blank \in Records  BY CardAssumption DEF Blank, Records
<1>3. HostTypeOK  BY <1>1, <1>2, CardAssumption DEF HostTypeOK, Unused
<1>4. CounterWithinGenerations  BY <1>1 DEF CounterWithinGenerations, Blank
<1>5. CallInv /\ ResponseInv /\ SuccessMeansAnchored
  BY <1>1 DEF CallInv, ResponseInv, SuccessMeansAnchored, Unused
<1> QED  BY <1>3, <1>4, <1>5 DEF ProtocolInv

\* The provisioner changes neither the counter nor the record.
LEMMA ProvisionerKeepsRecord ==
    ASSUME KeyInv, ProvisionerNext
    PROVE  UNCHANGED <<counter, record>>
<1>1. CASE ProgramKey
  BY <1>1, KeyProgrammed DEF ProgramKey, Exchange, ReadRPMB, KeyInv, ProvisionerInv
<1>2. CASE ~ProgramKey
  BY <1>2, ProbeAnswered DEF ProvisionerNext, Boot, NoCard, Inconclusive, ProbeProgrammed, Diagnose,
     RefuseToProgram, Verify, ProgramFails, Succeed, PowerOff, BurnFuses, Exchange, Finish, ReadRPMB,
     cardVars
<1> QED  BY <1>1, <1>2

\* A call begins.
LEMMA CallKeepsProtocol ==
    ASSUME ProtocolInv, key # NoKey, NEW k, NEW op \in {"get", "set"}, NEW next \in Records,
           Call(k, op, next)
    PROVE  ProtocolInv'
<1> USE DEF ProtocolInv, HostTypeOK
<1>1. /\ SendFetch("read") /\ host.at = "idle"
      /\ host' = [key |-> k, at |-> "read", op |-> op, next |-> next, cur |-> Blank,
                  req |-> FetchRequest("read", draws'), out |-> "busy"]
  BY DEF Call
<1>2. HostTypeOK' /\ CounterWithinGenerations' /\ SuccessMeansAnchored'
  BY <1>1, FetchTells DEF CounterWithinGenerations, SuccessMeansAnchored
<1>3. CallInv'
  BY <1>1 DEF CallInv, FetchRequest
<1>4. ResponseInv'
  BY <1>1, FetchTells DEF ResponseInv
<1> QED  BY <1>2, <1>3, <1>4

\* A call returns, or the power is cut: the card is as it was, and the host idle.
LEMMA IdleKeepsProtocol ==
    ASSUME ProtocolInv, UNCHANGED <<counter, record, draws, seen>>,
           host'.at = "idle", host'.op \in {"none", "get", "set"}, host'.next \in Records,
           host'.out \in {"none", "ok", "error"},
           host'.op = "set" /\ host'.out = "ok" => record = host'.next
    PROVE  ProtocolInv'
BY DEF ProtocolInv, HostTypeOK, CounterWithinGenerations, SuccessMeansAnchored, CallInv, ResponseInv

\* The anchor goes on with a response that passes.
LEMMA ReceiveKeepsProtocol ==
    ASSUME KeyInv, ProtocolInv, mode \in {"open", "protected"},
           NEW r \in Incoming, Receive(r)
    PROVE  ProtocolInv'
<1> USE DEF ProtocolInv, HostTypeOK
<1>1. host.at # "idle" /\ Accepts(r)  BY DEF Receive
<1>2. /\ key # NoKey /\ key = host.key
      /\ host.at = "read" => r.rec = record
      /\ host.at = "counter" => r.counter = counter
      /\ host.at = "write" => record = host.next
  BY <1>1, AcceptedTells DEF KeyInv, FirmwareInv
<1>3. host = [key |-> host.key, at |-> host.at, op |-> host.op, next |-> host.next,
              cur |-> host.cur, req |-> host.req, out |-> host.out]
  BY DEF KeyInv, KeyTypeOK
<1>4. CASE AnchorReturns(r) \/ RefuseSet(r) \/ SetReturns
  <2>1. /\ UNCHANGED <<counter, record, draws, seen>>
        /\ host'.at = "idle" /\ host'.op = host.op /\ host'.next = host.next
        /\ host'.out \in {"ok", "error"}
        /\ host'.op = "set" /\ host'.out = "ok" => record = host'.next
    BY <1>2, <1>3, <1>4 DEF AnchorReturns, RefuseSet, SetReturns, Return, ReadRPMB
  <2> QED  BY <2>1, IdleKeepsProtocol
<1>5. CASE FetchCounter(r)
  <2>1. /\ SendFetch("counter") /\ host.at = "read" /\ host.op = "set"
        /\ host.next.bound /\ host.next.gen > record.gen
    BY <1>2, <1>5 DEF FetchCounter, Refuses, Records
  <2>2. /\ host'.at = "counter" /\ host'.op = host.op /\ host'.next = host.next
        /\ host'.out = host.out /\ host'.req = FetchRequest("counter", draws')
    BY <1>3, <1>5 DEF FetchCounter
  <2>3. HostTypeOK' /\ CounterWithinGenerations' /\ SuccessMeansAnchored'
    BY <1>1, <1>2, <2>1, <2>2, FetchTells DEF CounterWithinGenerations, SuccessMeansAnchored, CallInv
  <2>4. CallInv'
    BY <1>1, <1>2, <2>1, <2>2, FetchTells DEF CallInv, FetchRequest
  <2>5. ResponseInv'
    BY <1>2, <2>1, <2>2, FetchTells DEF ResponseInv
  <2> QED  BY <2>3, <2>4, <2>5
<1>6. CASE SendWrite(r)
  <2>1. /\ host.at = "counter" /\ host.op = "set" /\ draws' = draws
        /\ host.next.bound /\ host.next.gen > record.gen
    BY <1>6 DEF SendWrite, CallInv
  <2>2. /\ host'.at = "write" /\ host'.op = host.op /\ host'.next = host.next
        /\ host'.out = host.out /\ host'.req = WriteRequest(host.next, r.counter, host.key)
    BY <1>3, <1>6 DEF SendWrite
  <2>3. host'.req.req = "write" /\ host'.req.counter = counter
    BY <1>2, <2>1, <2>2 DEF WriteRequest
  <2>4. /\ counter \in Nat /\ record.gen \in Nat /\ host.next.gen \in 0..MaxGen
        /\ counter < MaxGen /\ counter < host.next.gen /\ Inc(counter) = counter + 1
    BY <2>1, CardAssumption DEF CounterWithinGenerations, Inc, Records
  <2>5. CASE /\ record' = host.next /\ counter' = Inc(counter)
             /\ \A q \in seen' : \/ q \in seen
                                 \/ q.req = "write" /\ q.result = "ok" /\ q.counter = Inc(counter)
    <3>1. HostTypeOK' /\ CounterWithinGenerations' /\ SuccessMeansAnchored'
      BY <2>1, <2>2, <2>4, <2>5, CardAssumption DEF CounterWithinGenerations, SuccessMeansAnchored
    <3>2. CallInv'
      BY <1>1, <2>1, <2>2, <2>3, <2>5 DEF CallInv
    <3>3. ResponseInv'
      BY <2>1, <2>2, <2>4, <2>5 DEF ResponseInv
    <3> QED  BY <3>1, <3>2, <3>3
  <2>6. CASE UNCHANGED <<counter, record, seen>>
    <3>1. HostTypeOK' /\ CounterWithinGenerations' /\ SuccessMeansAnchored'
      BY <1>1, <2>1, <2>2, <2>6 DEF CounterWithinGenerations, SuccessMeansAnchored, CallInv
    <3>2. CallInv'
      BY <1>1, <2>1, <2>2, <2>3, <2>4, <2>6 DEF CallInv
    <3>3. ResponseInv'
      BY <2>1, <2>2, <2>6 DEF ResponseInv
    <3> QED  BY <3>1, <3>2, <3>3
  <2> QED  BY <1>2, <1>6, <2>1, <2>5, <2>6, WriteTells
<1> QED  BY <1>4, <1>5, <1>6 DEF Receive

\* The sector of a new card reads as a record.
LEMMA BlankIsRecord == Blank \in Records
BY CardAssumption DEF Blank, Records

\* What SetAnchor is called with are records.
LEMMA CandidatesAreRecords == Candidates \subseteq Records
BY DEF Candidates, Records

\* Every step keeps ProtocolInv while no held-back request is executed.
LEMMA ProtocolInductive ==
    ASSUME KeyInv, ProtocolInv, [BringUpNext]_bringUpVars, "late" \notin Faults
    PROVE  ProtocolInv'
<1> USE DEF ProtocolInv
<1>1. ASSUME UNCHANGED <<counter, record, host, draws, seen>>
      PROVE  ProtocolInv'
  BY <1>1 DEF HostTypeOK, CallInv, ResponseInv, CounterWithinGenerations, SuccessMeansAnchored
<1>2. CASE mode = "off" /\ ProvisionerNext /\ UNCHANGED <<hostVars, mode>>
  BY <1>1, <1>2, ProvisionerKeepsRecord DEF hostVars
<1>3. CASE NoStorage \/ ProbeRpmb \/ ProbeFails \/ UNCHANGED bringUpVars
  BY <1>1, <1>3, ProbeAnswered DEF NoStorage, ProbeRpmb, ProbeFails, ReadRPMB, bringUpVars, allVars, cardVars,
     hostVars
<1>4. CASE OpenStore
  BY <1>4, BlankIsRecord, CallKeepsProtocol DEF OpenStore, Anchor, KeyInv, FirmwareInv
<1>5. CASE AdvanceAnchor
  BY <1>5, CandidatesAreRecords, CallKeepsProtocol DEF AdvanceAnchor, SetAnchor, KeyInv, FirmwareInv
<1>6. CASE AnchorFails
  <2>1. /\ UNCHANGED <<counter, record, draws, seen>>
        /\ host'.at = "idle" /\ host'.op = host.op /\ host'.next = host.next /\ host'.out = "error"
    BY <1>6 DEF AnchorFails, ExchangeFails, Return, ReadRPMB, KeyInv, KeyTypeOK
  <2>2. /\ host'.op \in {"none", "get", "set"} /\ host'.next \in Records
        /\ host'.out \in {"none", "ok", "error"} /\ host'.out # "ok"
    BY <2>1 DEF HostTypeOK
  <2> QED  BY <2>1, <2>2, IdleKeepsProtocol
<1>7. CASE AnchorGoesOn
  BY <1>7, ReceiveKeepsProtocol DEF AnchorGoesOn
<1>8. CASE RedeliverWrite
  <2>1. PICK req \in sent : Redeliver(req)
    BY <1>8 DEF RedeliverWrite
  <2>2. req.req = "write"  BY DEF KeyInv, FramesInv
  <2> QED
    BY <2>1, <2>2, DuplicateRefused
    DEF HostTypeOK, CallInv, ResponseInv, CounterWithinGenerations, SuccessMeansAnchored
<1>9. CASE SwitchOff
  <2>1. UNCHANGED <<counter, record, draws, seen>> /\ host' = Unused
    BY <1>9 DEF SwitchOff, PowerCut, ReadRPMB
  <2> QED  BY <2>1, BlankIsRecord, IdleKeepsProtocol DEF Unused
<1> QED  BY <1>2, <1>3, <1>4, <1>5, <1>6, <1>7, <1>8, <1>9 DEF BringUpNext

\* What SetAnchor and readAnchor rely on holds between any two frames when no held
\* back request is delivered to a later one: the answer in hand belongs to the call,
\* and the counter moves with the record.
THEOREM ProtocolInvariant ==
    ASSUME "late" \notin Faults
    PROVE  BringUpSpec => [](KeyInv /\ ProtocolInv)
<1>1. KeyInv /\ ProtocolInv /\ [BringUpNext]_bringUpVars => ProtocolInv'
  BY ProtocolInductive
<1> QED  BY <1>1, KeyInitInv, KeyInductive, ProtocolInitInv, PTL DEF BringUpSpec

\* The write counter of the card stays within the generations, so it does not wrap
\* before the store halts (CounterWithinGenerations).
THEOREM BringUpCounterWithinGenerations ==
    ASSUME "late" \notin Faults
    PROVE  BringUpSpec => []CounterWithinGenerations
<1>1. KeyInv /\ ProtocolInv => CounterWithinGenerations  BY DEF ProtocolInv
<1> QED  BY <1>1, ProtocolInvariant, PTL

\* SetAnchor reports success only if the card holds exactly its record: what
\* MCRpmbAnchor_late refutes has late delivery as its only cause (SuccessMeansAnchored).
THEOREM BringUpSuccessMeansAnchored ==
    ASSUME "late" \notin Faults
    PROVE  BringUpSpec => []SuccessMeansAnchored
<1>1. KeyInv /\ ProtocolInv => SuccessMeansAnchored  BY DEF ProtocolInv
<1> QED  BY <1>1, ProtocolInvariant, PTL

-----------------------------------------------------------------------------
(* The anchor implements the register *)

\* A step that changes neither the record nor what the caller sees.
LEMMA RegisterStutters ==
    ASSUME record' = record, host'.op = host.op, host'.next = host.next, host'.out = host.out,
           host'.cur = host.cur \/ host.out # "ok"
    PROVE  UNCHANGED Register!registerVars
BY DEF Register!registerVars

\* Every response that passes is a step of the register, or none.
LEMMA ReceiveRefines ==
    ASSUME KeyInv, ProtocolInv, mode \in {"open", "protected"},
           NEW r \in Incoming, Receive(r)
    PROVE  [Register!RegisterNext]_(Register!registerVars)
<1> USE DEF ProtocolInv, HostTypeOK
<1>1. host.at # "idle" /\ Accepts(r) /\ host.out = "busy"  BY DEF Receive, CallInv
<1>2. /\ key # NoKey /\ key = host.key
      /\ host.at = "read" => r.rec = record
      /\ host.at = "counter" => r.counter = counter
      /\ host.at = "write" => record = host.next
  BY <1>1, AcceptedTells DEF KeyInv, FirmwareInv
<1>3. host = [key |-> host.key, at |-> host.at, op |-> host.op, next |-> host.next,
              cur |-> host.cur, req |-> host.req, out |-> host.out]
  BY DEF KeyInv, KeyTypeOK
<1>4. CASE AnchorReturns(r)
  <2>1. /\ record' = record /\ host.op = "get"
        /\ host'.op = host.op /\ host'.next = host.next /\ host'.out = "ok" /\ host'.cur = record
    BY <1>2, <1>3, <1>4 DEF AnchorReturns, ReadRPMB
  <2>2. Register!ReturnOk
    BY <1>1, <2>1 DEF Register!ReturnOk
  <2> QED  BY <2>2 DEF Register!RegisterNext
<1>5. CASE RefuseSet(r)
  <2>1. record' = record /\ host'.op = host.op /\ host'.next = host.next /\ host'.out = "error"
    BY <1>3, <1>5 DEF RefuseSet, Return, ReadRPMB
  <2>2. Register!ReturnError
    BY <1>1, <2>1 DEF Register!ReturnError
  <2> QED  BY <2>2 DEF Register!RegisterNext
<1>6. CASE SetReturns
  <2>1. /\ record' = record /\ host.op = "set" /\ record = host.next
        /\ host'.op = host.op /\ host'.next = host.next /\ host'.out = "ok"
    BY <1>2, <1>3, <1>6 DEF SetReturns, Return, ReadRPMB, CallInv
  <2>2. Register!ReturnOk
    BY <1>1, <2>1 DEF Register!ReturnOk
  <2> QED  BY <2>2 DEF Register!RegisterNext
<1>7. CASE FetchCounter(r)
  <2>1. record' = record /\ host'.op = host.op /\ host'.next = host.next /\ host'.out = host.out
    BY <1>2, <1>3, <1>7, FetchTells DEF FetchCounter
  <2> QED  BY <1>1, <2>1, RegisterStutters
<1>8. CASE SendWrite(r)
  <2>1. /\ host.at = "counter" /\ host.op = "set" /\ host.next.bound /\ host.next.gen > record.gen
        /\ host'.op = host.op /\ host'.next = host.next /\ host'.out = host.out
    BY <1>3, <1>8 DEF SendWrite, CallInv
  <2>2. CASE record' = host.next
    <3>1. Register!Land
      BY <1>1, <2>1, <2>2 DEF Register!Land
    <3> QED  BY <3>1 DEF Register!RegisterNext
  <2>3. CASE record' = record
    BY <1>1, <2>1, <2>3, RegisterStutters
  <2> QED  BY <1>2, <1>8, <2>1, <2>2, <2>3, WriteTells
<1> QED  BY <1>4, <1>5, <1>6, <1>7, <1>8 DEF Receive

\* A call begins.
LEMMA CallRefines ==
    ASSUME ProtocolInv, key # NoKey, NEW k, NEW op \in {"get", "set"}, NEW next \in Records,
           op = "get" => next = Blank, Call(k, op, next)
    PROVE  Register!RegisterNext
<1>1. /\ SendFetch("read") /\ host.out # "busy"
      /\ host'.op = op /\ host'.next = next /\ host'.out = "busy"
  BY DEF Call, ProtocolInv, CallInv
<1>2. record' = record  BY <1>1, FetchTells
<1>3. CASE op = "get"
  <2>1. Register!BeginGet  BY <1>1, <1>2, <1>3 DEF Register!BeginGet
  <2> QED  BY <2>1 DEF Register!RegisterNext
<1>4. CASE op = "set"
  <2>1. Register!BeginSet(next)  BY <1>1, <1>2, <1>4 DEF Register!BeginSet
  <2> QED  BY <2>1 DEF Register!RegisterNext
<1> QED  BY <1>3, <1>4

\* Every step is a step of AnchorRegister or leaves its variables alone.
LEMMA BringUpStepRefines ==
    ASSUME KeyInv, ProtocolInv, [BringUpNext]_bringUpVars, "late" \notin Faults
    PROVE  [Register!RegisterNext]_(Register!registerVars)
<1>1. CASE mode = "off" /\ ProvisionerNext /\ UNCHANGED <<hostVars, mode>>
  BY <1>1, ProvisionerKeepsRecord, RegisterStutters DEF hostVars
<1>2. CASE NoStorage \/ ProbeRpmb \/ ProbeFails \/ UNCHANGED bringUpVars
  BY <1>2, ProbeAnswered, RegisterStutters
  DEF NoStorage, ProbeRpmb, ProbeFails, ReadRPMB, bringUpVars, allVars, cardVars, hostVars
<1>3. CASE OpenStore
  BY <1>3, BlankIsRecord, CallRefines DEF OpenStore, Anchor, KeyInv, FirmwareInv
<1>4. CASE AdvanceAnchor
  BY <1>4, CandidatesAreRecords, CallRefines DEF AdvanceAnchor, SetAnchor, KeyInv, FirmwareInv
<1>5. CASE AnchorFails
  <2>1. /\ record' = record /\ host.out = "busy"
        /\ host'.op = host.op /\ host'.next = host.next /\ host'.out = "error"
    BY <1>5 DEF AnchorFails, ExchangeFails, Return, ReadRPMB, KeyInv, KeyTypeOK, FirmwareInv
  <2>2. Register!ReturnError  BY <2>1 DEF Register!ReturnError
  <2> QED  BY <2>2 DEF Register!RegisterNext
<1>6. CASE AnchorGoesOn
  BY <1>6, ReceiveRefines DEF AnchorGoesOn
<1>7. CASE RedeliverWrite
  <2>1. PICK req \in sent : Redeliver(req)  BY <1>7 DEF RedeliverWrite
  <2>2. req.req = "write"  BY DEF KeyInv, FramesInv
  <2> QED  BY <2>1, <2>2, DuplicateRefused, RegisterStutters
<1>8. CASE SwitchOff
  <2>1. record' = record /\ host' = Unused  BY <1>8 DEF SwitchOff, PowerCut, ReadRPMB
  <2>2. Register!Reset  BY <2>1 DEF Register!Reset, Unused
  <2> QED  BY <2>2 DEF Register!RegisterNext
<1> QED  BY <1>1, <1>2, <1>3, <1>4, <1>5, <1>6, <1>7, <1>8 DEF BringUpNext

\* Over the life of a unit the frame protocol keeps the promise the store is built
\* on, whatever is lost, stale or repeated (ImplementsAnchorRegister).
THEOREM BringUpImplementsAnchorRegister ==
    ASSUME "late" \notin Faults
    PROVE  BringUpSpec => ImplementsAnchorRegister
<1>1. BringUpInit => Register!RegisterInit
  BY DEF BringUpInit, ProvisionerInit, CardInit, Unused, Register!RegisterInit
<1>2. KeyInv /\ ProtocolInv /\ [BringUpNext]_bringUpVars
          => [Register!RegisterNext]_(Register!registerVars)
  BY BringUpStepRefines
<1> QED
  BY <1>1, <1>2, ProtocolInvariant, PTL DEF BringUpSpec, ImplementsAnchorRegister, Register!RegisterSpec
=============================================================================
