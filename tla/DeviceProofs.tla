---------------------------- MODULE DeviceProofs ----------------------------
(***************************************************************************)
(* Proofs about Device: the witness over the store, through crashes and    *)
(* reboots.  The proofs of the two parts are taken as they are.  Every     *)
(* step of the unit is a step of the store, and keeps the invariant of the *)
(* witness, and what is proved here is what ties one to the other.  As in  *)
(* RollbackStoreProofs, Planted = {} says that no other firmware has       *)
(* sealed blobs with the key of this unit.                                 *)
(***************************************************************************)
EXTENDS Device, RollbackStoreProofs

WP == INSTANCE WitnessProofs WITH released <- left

-----------------------------------------------------------------------------
(* The inductive invariant *)

\* While no store is up, nothing of the witness is.
RamInv ==
    ~Serving =>
        /\ signer = NoSigner /\ epoch = 0 /\ mu = "free" /\ seq = "stopped"
        /\ pool = [o \in Origins |-> None] /\ inSeq = [o \in Origins |-> None]
        /\ client = [c \in Clients |-> W!Idle]

\* A PutBatch under way is the sequencer's, with what it signed.
CommitInv ==
    /\ pc \in {"save", "anchor", "publish"} => seq = "put" /\ job.updates = W!SignedStates
    /\ seq = "put" => W!SignedStates # Nothing

\* What Retire will let out, the store has let out, and is still serving.
RetireInv ==
    seq = "retire" /\ W!SignedStates # Nothing =>
        /\ ~halted
        /\ \A o \in Origins : W!SignedStates[o] # NoNote => W!SignedStates[o] \in released[o]

LeftInv == \A o \in Origins : left[o] \subseteq released[o]

\* No blob brings another head of the empty tree back into memory.
SealedEmptyInv ==
    \A b \in sealed : \A o \in Origins : b.states[o] # NoNote => WP!EmptyOK(b.states[o])

DeviceInv ==
    /\ TypeOK /\ JobInv /\ StoreInv
    /\ WP!WitnessInv
    /\ RamInv /\ CommitInv /\ RetireInv /\ LeftInv /\ SealedEmptyInv

-----------------------------------------------------------------------------
(* The witness of Device and the one the lemmas of WitnessProofs are about *)

\* The assumptions of WitnessProofs are those of Device.
LEMMA WitnessAssumptions ==
    /\ WP!FollowsAssumption /\ WP!NoNoteAssumption /\ WP!HeadsAssumption
    /\ WP!RequestsAssumption /\ WP!WitnessSentinels /\ WP!WitnessBounds /\ WP!EntrySentinel
<1>1. WP!FollowsAssumption /\ WP!NoNoteAssumption
  BY FollowsAssumption, NoNoteAssumption DEF WP!FollowsAssumption, WP!NoNoteAssumption
<1>2. WP!HeadsAssumption /\ WP!WitnessSentinels /\ WP!WitnessBounds
  BY DeviceAssumption DEF WP!HeadsAssumption, WP!WitnessSentinels, WP!WitnessBounds,
     W!HeadsAssumption, W!WitnessSentinels, W!WitnessBounds
<1>3. WP!RequestsAssumption
  BY DeviceAssumption DEF WP!RequestsAssumption, W!RequestsAssumption, WP!Proofs, W!Proofs
<1>4. WP!EntrySentinel
  BY DeviceAssumption DEF WP!EntrySentinel, W!EntrySentinel, WP!Entries, W!Entries, WP!Codes, W!Codes
<1> QED  BY <1>1, <1>2, <1>3, <1>4

\* The two instances of Witness, W and WP, have the same operators.
LEMMA SameOperators ==
    /\ W!SignedStates = WP!SignedStates
    /\ W!Idle = WP!Idle
    /\ WP!Nothing = Nothing /\ WP!Views = Views
BY DEF W!SignedStates, WP!SignedStates, W!Idle, WP!Idle, WP!Nothing, Nothing, WP!Views, Views

\* W and WP count alike.
LEMMA SameCardinality ==
    ASSUME NEW S
    PROVE  W!Cardinality(S) = WP!Cardinality(S)
BY DEF W!Cardinality, WP!Cardinality

\* W and WP bound the same pool.
LEMMA SamePoolSize == W!PoolSize = WP!PoolSize
BY SameCardinality DEF W!PoolSize, WP!PoolSize

\* W and WP state the same property of waiting handlers.
LEMMA SameWaitersTracked == W!WaitersTracked <=> WP!WaitersTracked
BY SameCardinality DEF W!WaitersTracked, WP!WaitersTracked

\* SetSigner and ClearSigner are the same steps in W and WP.
LEMMA SameSignerSteps == W!SignerNext <=> WP!SignerNext
BY DEF W!SignerNext, WP!SignerNext, W!AddEpoch, WP!AddEpoch, W!StoreSigner, WP!StoreSigner

\* AddCheckpoint up to addToPool is the same steps in W and WP.
LEMMA SameHandlerSteps ==
    ASSUME NEW c
    PROVE  /\ W!CheckRequest(c) <=> WP!CheckRequest(c)
           /\ W!LoadEpoch(c) <=> WP!LoadEpoch(c)
           /\ \A r : W!LoadSigner(c, r) <=> WP!LoadSigner(c, r)
BY DEF W!CheckRequest, WP!CheckRequest, W!LoadEpoch, WP!LoadEpoch, W!LoadSigner, WP!LoadSigner,
       W!Answer, WP!Answer, W!Idle, WP!Idle

\* addToPool is the same step in W and WP.
LEMMA SameAddToPool ==
    ASSUME NEW c
    PROVE  W!AddToPool(c) <=> WP!AddToPool(c)
<1>1. W!JoinPending(c) <=> WP!JoinPending(c)
  BY DEF W!JoinPending, WP!JoinPending, W!Pending, WP!Pending, W!Matches, WP!Matches, W!Wait, WP!Wait
<1>2. W!Admit(c) <=> WP!Admit(c)
  BY SamePoolSize DEF W!Admit, WP!Admit, W!Pending, WP!Pending, W!Latest, WP!Latest,
     W!SizeHeld, WP!SizeHeld, W!Consistent, WP!Consistent, W!NewEntry, WP!NewEntry, W!Wait, WP!Wait
<1>3. W!Refuse(c) <=> WP!Refuse(c)
  BY SamePoolSize DEF W!Refuse, WP!Refuse, W!Pending, WP!Pending, W!Matches, WP!Matches,
     W!Latest, WP!Latest, W!SizeHeld, WP!SizeHeld, W!Consistent, WP!Consistent, W!AnswerConflict,
     WP!AnswerConflict, W!AnswerFull, WP!AnswerFull, W!Answer, WP!Answer, W!Idle, WP!Idle,
     W!poolVars, WP!poolVars
<1> QED  BY <1>1, <1>2, <1>3 DEF W!AddToPool, WP!AddToPool

\* The sequencer is the same steps in W and WP.
LEMMA SameSequencerSteps ==
    /\ W!RunSequencer <=> WP!RunSequencer
    /\ W!Rotate <=> WP!Rotate
    /\ W!Sign <=> WP!Sign
    /\ W!PutSucceeds <=> WP!PutSucceeds
    /\ W!PutFails <=> WP!PutFails
    /\ W!Retire <=> WP!Retire
<1>1. (W!RunSequencer <=> WP!RunSequencer) /\ (W!Rotate <=> WP!Rotate)
  BY DEF W!RunSequencer, WP!RunSequencer, W!Rotate, WP!Rotate
<1>2. W!Sign <=> WP!Sign
  BY DEF W!Sign, WP!Sign, W!SignNothing, WP!SignNothing, W!SignBatch, WP!SignBatch, W!Current, WP!Current,
     W!Batch, WP!Batch, W!SetPoolResult, WP!SetPoolResult, W!SetResults, WP!SetResults
<1>3. W!PutSucceeds <=> WP!PutSucceeds
  BY DEF W!PutSucceeds, WP!PutSucceeds, W!SignedStates, WP!SignedStates, W!Merge, WP!Merge
<1>4. W!PutFails <=> WP!PutFails
  BY DEF W!PutFails, WP!PutFails, W!SetPoolResult, WP!SetPoolResult, W!SetResults, WP!SetResults
<1>5. W!Retire <=> WP!Retire
  BY DEF W!Retire, WP!Retire, W!Close, WP!Close, W!Cosig, WP!Cosig, W!Idle, WP!Idle, W!SignedStates,
     WP!SignedStates
<1> QED  BY <1>1, <1>2, <1>3, <1>4, <1>5

\* The results of WitnessProofs that are used below.
LEMMA WitnessKept == WP!WitnessInv /\ [WP!WitnessNext]_(WP!witnessVars) => WP!WitnessInv'
BY WP!WitnessInductive, WitnessAssumptions

\* A witness that has not started satisfies its invariant.
LEMMA RestIsInv == WP!AtRest => WP!WitnessInv
BY WP!AtRestInv, WitnessAssumptions

\* The same after a step.
LEMMA RestIsInvNext == WP!AtRest' => WP!WitnessInv'
BY RestIsInv, PTL

\* What the sequencer hands to PutBatch extends what the store holds.
LEMMA SignedIsExtension ==
    ASSUME WP!WitnessInv, seq = "put"
    PROVE  /\ W!SignedStates \in Views
           /\ ExtendsAll(Merge(mem, W!SignedStates), mem)
           /\ \A o \in Origins : W!SignedStates[o] # NoNote => WP!EmptyOK(W!SignedStates[o])
<1>1. /\ WP!SignedStates \in WP!Views
      /\ WP!ExtendsAll(WP!Merge(mem, WP!SignedStates), mem)
      /\ \A o \in Origins : WP!SignedStates[o] # NoNote =>
            inSeq[o] # None /\ WP!SignedStates[o] = inSeq[o].head
  BY WP!SignedExtends, WitnessAssumptions
<1>2. \A o \in Origins : inSeq[o] # None => WP!EmptyOK(inSeq[o].head)
  BY DEF WP!WitnessInv, WP!EmptyInv
<1>3. WP!Merge(mem, WP!SignedStates) = Merge(mem, WP!SignedStates)
  BY DEF WP!Merge, Merge
<1>4. ExtendsAll(Merge(mem, WP!SignedStates), mem)
  BY <1>1, <1>3 DEF WP!ExtendsAll, ExtendsAll, WP!Extends, Extends
<1> QED  BY <1>1, <1>2, <1>4, SameOperators

-----------------------------------------------------------------------------
(* The steps of the unit *)

\* While the unit is up its steps are steps of the witness.
LEMMA RunningStep ==
    ASSUME ServeStep \/ AskHalted \/ BeginPut \/ PutStep \/ PutReturnsNil \/ PutReturnsError
    PROVE  [WP!WitnessNext]_(WP!witnessVars)
<1>1. CASE ServeStep
  BY <1>1, SameSignerSteps, SameHandlerSteps, SameAddToPool, SameSequencerSteps
  DEF ServeStep, WP!WitnessNext, WP!ServeNext, WP!ClientNext, WP!SequencerNext
<1>2. CASE AskHalted
  BY <1>2, SameHandlerSteps, SameSequencerSteps
  DEF AskHalted, WP!WitnessNext, WP!ServeNext, WP!ClientNext, WP!SequencerNext
<1>3. CASE PutReturnsNil \/ PutReturnsError
  BY <1>3, SameSequencerSteps DEF PutReturnsNil, PutReturnsError, WP!WitnessNext, WP!SequencerNext, WP!Put
<1>4. CASE BeginPut
  BY <1>4 DEF BeginPut, PutBatch, ramVars, WP!witnessVars
<1>5. CASE PutStep
  <2>1. CASE pc' = "ready"
    BY <1>5, <2>1, SameSequencerSteps DEF PutStep, WP!WitnessNext, WP!SequencerNext, WP!Put
  <2>2. CASE pc' # "ready"
    BY <1>5, <2>2 DEF PutStep, SaveBlob, AnchorBlob, ramVars, WP!witnessVars
  <2> QED  BY <2>1, <2>2
<1> QED  BY <1>1, <1>2, <1>3, <1>4, <1>5

\* Handlers, and the sequencer outside PutBatch, leave the store alone.
LEMMA StoreIdle ==
    ASSUME ServeStep \/ AskHalted
    PROVE  UNCHANGED vars
<1>1. UNCHANGED <<mem, halted>>
  <2>1. CASE ServeStep
    BY <2>1 DEF ServeStep, W!SignerNext, W!AddEpoch, W!StoreSigner, W!LoadSigner, W!LoadEpoch, W!AddToPool,
       W!RunSequencer, W!Rotate, W!Retire
  <2>2. CASE AskHalted
    BY <2>2 DEF AskHalted, W!Sign, W!CheckRequest
  <2> QED  BY <2>1, <2>2
<1> QED  BY <1>1 DEF ServeStep, AskHalted, storeOnlyVars, vars

\* Every step of the unit is a step of its store, or leaves the store alone.
LEMMA DeviceStepOfStore ==
    ASSUME WP!WitnessInv, UnitStep \/ ReplaceSlot \/ UNCHANGED deviceVars
    PROVE  [Next]_vars
<1>1. CASE BootStep
  BY <1>1 DEF BootStep, Next
<1>2. CASE ServeStep \/ AskHalted
  BY <1>2, StoreIdle
<1>3. CASE BeginPut
  <2>1. PICK nonce \in Nonces : PutBatch(W!SignedStates, nonce)
    BY <1>3 DEF BeginPut
  <2>2. W!SignedStates \in Views
    BY <1>3, SignedIsExtension DEF BeginPut
  <2> QED  BY <2>1, <2>2 DEF Next
<1>4. CASE PutStep \/ PutReturnsNil \/ PutReturnsError \/ PowerLoss
  BY <1>4 DEF PutStep, PutReturnsNil, PutReturnsError, PowerLoss, Next
<1>5. CASE ReplaceSlot
  BY <1>5 DEF ReplaceSlot, Next
<1>6. CASE UNCHANGED deviceVars
  BY <1>6 DEF deviceVars
<1> QED  BY <1>1, <1>2, <1>3, <1>4, <1>5, <1>6 DEF UnitStep

-----------------------------------------------------------------------------
(* The induction *)

\* The store's part of the invariant.
LEMMA StoreKept ==
    ASSUME Planted = {}, DeviceInv, UnitStep \/ ReplaceSlot \/ UNCHANGED deviceVars
    PROVE  TypeOK' /\ JobInv' /\ StoreInv'
BY DeviceStepOfStore, TypeInductive, StoreInductive DEF DeviceInv

\* Open puts a sealed blob into memory, or nothing.
LEMMA OpenedIsSealed ==
    ASSUME DeviceInv, NEW readable \in SUBSET Slots, Open(readable)
    PROVE  \A o \in Origins : mem'[o] # NoNote => WP!EmptyOK(mem'[o])
<1> DEFINE blob == Load(readable)
<1>1. mem = Nothing  BY DEF Open, DeviceInv, StoreInv, LiveInv
<1>2. blob \in sealed \cup {NoBlob}
  BY LoadFromCard DEF DeviceInv, StoreInv, CardInv, Slots
<1>3. mem' = mem \/ (blob # NoBlob /\ mem' = blob.states)
  BY DEF Open, OpenFresh, OpenMatch, OpenRecover, OpenHalts, BootDecision
<1> QED  BY <1>1, <1>2, <1>3 DEF Nothing, DeviceInv, SealedEmptyInv, WP!EmptyOK

\* Open changes the store only, and nothing of the witness runs yet.
LEMMA BootPreserves ==
    ASSUME Planted = {}, DeviceInv, BootStep
    PROVE  DeviceInv'
<1>1. TypeOK' /\ JobInv' /\ StoreInv'  BY StoreKept DEF UnitStep
<1>2. ~Serving /\ UNCHANGED <<signer, epoch, mu, pool, inSeq, seq, client, left, sealed, released>>
  BY DEF BootStep, OpenFails, Reanchor, Open, Serving, ramVars
<1>3. /\ signer' = NoSigner /\ epoch' = 0 /\ mu' = "free" /\ seq' = "stopped"
      /\ pool' = [o \in Origins |-> None] /\ inSeq' = [o \in Origins |-> None]
      /\ client' = [c \in Clients |-> W!Idle]
  BY <1>2 DEF DeviceInv, RamInv
<1>4. \A o \in Origins : mem'[o] # NoNote => WP!EmptyOK(mem'[o])
  <2>1. CASE OpenFails \/ Reanchor
    <3>1. mem' = mem  BY <2>1 DEF OpenFails, Reanchor
    <3> QED  BY <3>1 DEF DeviceInv, WP!WitnessInv, WP!EmptyInv, WP!EmptyOK
  <2> QED  BY <2>1, OpenedIsSealed DEF BootStep
<1>5. left \in [Origins -> SUBSET Heads]
  BY DEF DeviceInv, WP!WitnessInv, WP!WitnessTypeOK
<1>6. WP!AtRest'
  BY <1>1, <1>2, <1>3, <1>4, <1>5, SameOperators DEF WP!AtRest, TypeOK, WP!EmptyOK, W!Idle, WP!Idle
<1>7. RamInv' /\ CommitInv' /\ RetireInv'
  <2>1. pc' \in {"fatal", "reanchor", "ready"}
    BY DEF BootStep, OpenFails, Reanchor, Open, OpenFresh, OpenMatch, OpenRecover, OpenHalts
  <2> QED  BY <1>3, <2>1 DEF RamInv, CommitInv, RetireInv, W!Idle
<1>8. LeftInv' /\ SealedEmptyInv'
  BY <1>2 DEF DeviceInv, LeftInv, SealedEmptyInv, WP!EmptyOK
<1> QED  BY <1>1, <1>6, <1>7, <1>8, RestIsInvNext DEF DeviceInv

\* A power loss forgets the witness and keeps the card and the anchor.
LEMMA PowerLossPreserves ==
    ASSUME Planted = {}, DeviceInv, PowerLoss
    PROVE  DeviceInv'
<1>1. TypeOK' /\ JobInv' /\ StoreInv'  BY StoreKept DEF UnitStep
<1>2. /\ signer' = NoSigner /\ epoch' = 0 /\ mu' = "free" /\ seq' = "stopped"
      /\ pool' = [o \in Origins |-> None] /\ inSeq' = [o \in Origins |-> None]
      /\ client' = [c \in Clients |-> W!Idle]
      /\ pc' = "off" /\ mem' = Nothing /\ UNCHANGED <<left, sealed, released>>
  BY DEF PowerLoss, Crash
<1>3. left \in [Origins -> SUBSET Heads]
  BY DEF DeviceInv, WP!WitnessInv, WP!WitnessTypeOK
<1>4. WP!AtRest'
  BY <1>1, <1>2, <1>3, SameOperators DEF WP!AtRest, TypeOK, Nothing, W!Idle, WP!Idle
<1>5. RamInv' /\ CommitInv' /\ RetireInv'
  BY <1>2 DEF RamInv, CommitInv, RetireInv, W!Idle
<1>6. LeftInv' /\ SealedEmptyInv'
  BY <1>2 DEF DeviceInv, LeftInv, SealedEmptyInv, WP!EmptyOK
<1> QED  BY <1>1, <1>4, <1>5, <1>6, RestIsInvNext DEF DeviceInv

\* What every step while the unit is up keeps.
LEMMA RunningPreserves ==
    ASSUME Planted = {}, DeviceInv,
           ServeStep \/ AskHalted \/ BeginPut \/ PutStep \/ PutReturnsNil \/ PutReturnsError
    PROVE  /\ TypeOK' /\ JobInv' /\ StoreInv' /\ WP!WitnessInv' /\ RamInv'
<1>1. WP!WitnessInv'
  BY RunningStep, WitnessKept DEF DeviceInv
<1>2. Serving'
  BY StoreIdle DEF ServeStep, AskHalted, BeginPut, PutStep, PutReturnsNil, PutReturnsError, PutBatch, SaveBlob,
     AnchorBlob, Publish, PutBatchRefused, PutBatchExhausted, Serving, vars
<1> QED  BY <1>1, <1>2, StoreKept DEF RamInv, UnitStep

\* A step that changes neither what is signed nor the store.
LEMMA SignedSamePreserves ==
    ASSUME DeviceInv, UNCHANGED vars, left' = left, W!SignedStates' = W!SignedStates,
           seq' = seq \/ (seq \notin {"put", "retire"} /\ seq' \notin {"put", "retire"})
    PROVE  CommitInv' /\ RetireInv' /\ LeftInv' /\ SealedEmptyInv'
BY DEF DeviceInv, vars, CommitInv, RetireInv, LeftInv, SealedEmptyInv, WP!EmptyOK, Nothing

\* Steps of the witness that do not call the store leave it alone.
LEMMA ServePreserves ==
    ASSUME Planted = {}, DeviceInv, ServeStep
    PROVE  DeviceInv'
<1>1. TypeOK' /\ JobInv' /\ StoreInv' /\ WP!WitnessInv' /\ RamInv'
  BY RunningPreserves
<1>2. UNCHANGED vars  BY StoreIdle
<1>3. CASE W!SignerNext \/ W!RunSequencer
            \/ \E c \in Clients : (\E r \in Requests : W!LoadSigner(c, r)) \/ W!LoadEpoch(c)
  <2>1. UNCHANGED <<inSeq, left>> /\ (seq' = seq \/ (seq = "stopped" /\ seq' = "idle"))
    BY <1>3 DEF W!SignerNext, W!AddEpoch, W!StoreSigner, W!LoadSigner, W!LoadEpoch, W!RunSequencer
  <2>2. W!SignedStates' = W!SignedStates  BY <2>1 DEF W!SignedStates
  <2> QED  BY <1>1, <1>2, <2>1, <2>2, SignedSamePreserves DEF DeviceInv
<1>4. ASSUME NEW c \in Clients, W!AddToPool(c)
      PROVE  DeviceInv'
  <2>1. UNCHANGED <<seq, left>>  BY <1>4 DEF W!AddToPool
  <2>2. WP!SignedStates' = WP!SignedStates
    BY <1>4, SameAddToPool, WP!SignedKept, WitnessAssumptions DEF DeviceInv
  <2>3. W!SignedStates' = W!SignedStates
    BY <2>2 DEF W!SignedStates, WP!SignedStates
  <2> QED  BY <1>1, <1>2, <2>1, <2>3, SignedSamePreserves DEF DeviceInv
<1>5. CASE W!Rotate
  <2>1. seq = "idle" /\ seq' = "rotated" /\ left' = left  BY <1>5 DEF W!Rotate
  <2> QED
    BY <1>1, <1>2, <2>1
    DEF DeviceInv, vars, CommitInv, RetireInv, LeftInv, SealedEmptyInv, WP!EmptyOK, Nothing
<1>6. CASE W!Retire
  <2>1. /\ seq = "retire" /\ seq' = "idle"
        /\ left' = [o \in Origins |-> left[o] \cup ({W!SignedStates[o]} \ {NoNote})]
    BY <1>6 DEF W!Retire
  <2>2. \A o \in Origins : W!SignedStates[o] # NoNote => W!SignedStates[o] \in released[o]
    BY <2>1 DEF DeviceInv, RetireInv, Nothing
  <2>3. LeftInv'
    BY <1>2, <2>1, <2>2 DEF DeviceInv, LeftInv, vars
  <2> QED
    BY <1>1, <1>2, <2>1, <2>3 DEF DeviceInv, vars, CommitInv, RetireInv, SealedEmptyInv, WP!EmptyOK
<1> QED  BY <1>3, <1>4, <1>5, <1>6 DEF ServeStep

\* Steps that ask Halted wait for the store's mutex.
LEMMA AskHaltedPreserves ==
    ASSUME Planted = {}, DeviceInv, AskHalted
    PROVE  DeviceInv'
<1>1. TypeOK' /\ JobInv' /\ StoreInv' /\ WP!WitnessInv' /\ RamInv'
  BY RunningPreserves
<1>2. UNCHANGED vars /\ pc = "ready"  BY StoreIdle DEF AskHalted
<1>3. CASE \E c \in Clients : W!CheckRequest(c)
  <2>1. UNCHANGED <<inSeq, left, seq>>  BY <1>3 DEF W!CheckRequest
  <2>2. W!SignedStates' = W!SignedStates  BY <2>1 DEF W!SignedStates
  <2> QED  BY <1>1, <1>2, <2>1, <2>2, SignedSamePreserves DEF DeviceInv
<1>4. CASE W!Sign
  <2>1. left' = left /\ seq' \in {"put", "retire"}
    BY <1>4 DEF W!Sign, W!SignNothing, W!SignBatch
  <2>2. IF seq' = "put" THEN WP!SignedStates' # WP!Nothing ELSE WP!SignedStates' = WP!Nothing
    BY <1>4, SameSequencerSteps, WP!SignedOrNot, WitnessAssumptions DEF DeviceInv
  <2>3. IF seq' = "put" THEN W!SignedStates' # Nothing ELSE W!SignedStates' = Nothing
    BY <2>2 DEF W!SignedStates, WP!SignedStates, WP!Nothing, Nothing
  <2> QED
    BY <1>1, <1>2, <2>1, <2>3
    DEF DeviceInv, vars, CommitInv, RetireInv, LeftInv, SealedEmptyInv, WP!EmptyOK, Nothing
<1> QED  BY <1>3, <1>4 DEF AskHalted

\* PutBatch begins with a batch that extends the store.
LEMMA BeginPutPreserves ==
    ASSUME Planted = {}, DeviceInv, BeginPut
    PROVE  DeviceInv'
<1>1. TypeOK' /\ JobInv' /\ StoreInv' /\ WP!WitnessInv' /\ RamInv'
  BY RunningPreserves
<1>2. PICK nonce \in Nonces : PutBatch(W!SignedStates, nonce)
  BY DEF BeginPut
<1>3. /\ seq = "put" /\ UNCHANGED <<seq, inSeq, left, released>> /\ pc' = "save"
      /\ job'.updates = W!SignedStates
      /\ sealed' = sealed \cup {Seal(Succ(gen), Merge(mem, W!SignedStates), nonce)}
  BY <1>2 DEF BeginPut, PutBatch, ramVars
<1>4. W!SignedStates' = W!SignedStates  BY <1>3 DEF W!SignedStates
<1>5. \A o \in Origins : mem[o] # NoNote => WP!EmptyOK(mem[o])
  BY DEF DeviceInv, WP!WitnessInv, WP!EmptyInv
<1>6. \A o \in Origins : W!SignedStates[o] # NoNote => WP!EmptyOK(W!SignedStates[o])
  BY <1>3, SignedIsExtension DEF DeviceInv
<1>7. \A o \in Origins : LET h == Merge(mem, W!SignedStates)[o]
                        IN  h # NoNote => WP!EmptyOK(h)
  BY <1>5, <1>6 DEF Merge
<1>8. SealedEmptyInv'
  BY <1>3, <1>7 DEF DeviceInv, SealedEmptyInv, Seal, WP!EmptyOK
<1> QED  BY <1>1, <1>3, <1>4, <1>8 DEF DeviceInv, CommitInv, RetireInv, LeftInv

\* PutBatch returned an error.
LEMMA FailurePreserves ==
    ASSUME DeviceInv, W!PutFails, UNCHANGED <<sealed, released>>, pc' = "ready"
    PROVE  CommitInv' /\ RetireInv' /\ LeftInv' /\ SealedEmptyInv'
<1>1. seq' = "retire" /\ left' = left  BY DEF W!PutFails
<1>2. WP!SignedStates' = WP!Nothing
  BY SameSequencerSteps, WP!FailedLeavesNothing, WitnessAssumptions DEF DeviceInv
<1>3. W!SignedStates' = Nothing
  BY <1>2 DEF W!SignedStates, WP!SignedStates, WP!Nothing, Nothing
<1> QED
  BY <1>1, <1>3 DEF DeviceInv, CommitInv, RetireInv, LeftInv, SealedEmptyInv, WP!EmptyOK, Nothing

\* The writes of PutBatch and its two returns.
LEMMA PutPreserves ==
    ASSUME Planted = {}, DeviceInv, PutStep \/ PutReturnsNil \/ PutReturnsError
    PROVE  DeviceInv'
<1>1. TypeOK' /\ JobInv' /\ StoreInv' /\ WP!WitnessInv' /\ RamInv'
  BY RunningPreserves
<1>2. CASE PutReturnsError \/ (PutStep /\ pc' = "ready")
  <2>1. W!PutFails /\ UNCHANGED <<sealed, released>> /\ pc' = "ready"
    BY <1>2 DEF PutReturnsError, PutStep, SaveBlob, AnchorBlob, PutBatchRefused, PutBatchExhausted, vars
  <2> QED  BY <1>1, <2>1, FailurePreserves DEF DeviceInv
<1>3. CASE PutStep /\ pc' # "ready"
  <2>1. /\ pc \in {"save", "anchor"} /\ pc' \in {"anchor", "publish"} /\ seq = "put"
        /\ UNCHANGED <<seq, inSeq, left, job, sealed, released, halted>>
    BY <1>3 DEF PutStep, SaveBlob, AnchorBlob, ramVars
  <2>2. W!SignedStates' = W!SignedStates  BY <2>1 DEF W!SignedStates
  <2> QED
    BY <1>1, <2>1, <2>2 DEF DeviceInv, CommitInv, RetireInv, LeftInv, SealedEmptyInv, WP!EmptyOK, Nothing
<1>4. CASE PutReturnsNil
  <2>1. /\ pc = "publish" /\ pc' = "ready" /\ seq = "put" /\ seq' = "retire"
        /\ UNCHANGED <<inSeq, left, sealed, halted>>
        /\ released' = [o \in Origins |-> released[o] \cup ({job.updates[o]} \ {NoNote})]
    BY <1>4 DEF PutReturnsNil, Publish, W!PutSucceeds
  <2>2. W!SignedStates' = W!SignedStates  BY <2>1 DEF W!SignedStates
  <2>3. ~halted /\ job.updates = W!SignedStates
    BY <2>1 DEF DeviceInv, StoreInv, LiveInv, CommitInv
  <2>4. \A o \in Origins : /\ released[o] \subseteq released'[o]
                           /\ W!SignedStates[o] # NoNote => W!SignedStates[o] \in released'[o]
    BY <2>1, <2>3
  <2> QED
    BY <1>1, <2>1, <2>2, <2>3, <2>4
    DEF DeviceInv, CommitInv, RetireInv, LeftInv, SealedEmptyInv, WP!EmptyOK
<1> QED  BY <1>2, <1>3, <1>4

\* A slot replaced while the unit is off is a matter of the store alone.
LEMMA ReplacePreserves ==
    ASSUME Planted = {}, DeviceInv, ReplaceSlot \/ UNCHANGED deviceVars
    PROVE  DeviceInv'
<1>1. TypeOK' /\ JobInv' /\ StoreInv'  BY StoreKept
<1>2. /\ UNCHANGED <<signer, epoch, mu, pool, inSeq, seq, client, left>>
      /\ UNCHANGED <<anchor, sealed, pc, mem, gen, halted, job, released>>
  BY DEF ReplaceSlot, Tamper, deviceVars, vars, ramVars
<1>3. WP!WitnessInv'
  BY <1>2, WitnessKept DEF DeviceInv, WP!witnessVars
<1>4. W!SignedStates' = W!SignedStates  BY <1>2 DEF W!SignedStates
<1>5. RamInv'  BY <1>2 DEF DeviceInv, RamInv, Serving, W!Idle
<1>6. CommitInv' /\ RetireInv' /\ LeftInv' /\ SealedEmptyInv'
  BY <1>2, <1>4 DEF DeviceInv, CommitInv, RetireInv, LeftInv, SealedEmptyInv, WP!EmptyOK, Nothing
<1> QED  BY <1>1, <1>3, <1>5, <1>6 DEF DeviceInv

\* Every step of the unit, and every slot replaced, keeps DeviceInv.
LEMMA DeviceInductive ==
    ASSUME Planted = {}
    PROVE  DeviceInv /\ [DeviceNext]_deviceVars => DeviceInv'
BY BootPreserves, ServePreserves, AskHaltedPreserves, BeginPutPreserves, PutPreserves,
   PowerLossPreserves, ReplacePreserves DEF DeviceNext, UnitStep

\* DeviceInv holds of a unit that is off for the first time.
LEMMA DeviceInitInv == DeviceInit => DeviceInv
<1> SUFFICES ASSUME DeviceInit PROVE DeviceInv  OBVIOUS
<1>1. TypeOK /\ JobInv /\ StoreInv  BY TypeInit, StoreInit DEF DeviceInit
<1>2. WP!WitnessInit
  BY DEF DeviceInit, W!WitnessInit, WP!WitnessInit, W!Idle, WP!Idle, W!Nothing, WP!Nothing
<1>3. WP!WitnessInv  BY <1>2, WP!WitnessInitInv, WitnessAssumptions
<1>4. RamInv /\ CommitInv /\ RetireInv /\ LeftInv /\ SealedEmptyInv
  BY DEF DeviceInit, Init, W!WitnessInit, RamInv, CommitInv, RetireInv, LeftInv, SealedEmptyInv
<1> QED  BY <1>1, <1>3, <1>4 DEF DeviceInv

\* The invariant holds of every life of a unit whose key no other firmware has used,
\* under every combination of the modelled faults.
THEOREM DeviceInvariant ==
    ASSUME Planted = {}
    PROVE  DeviceSpec => []DeviceInv
<1>1. DeviceInv /\ [DeviceNext]_deviceVars => DeviceInv'  BY DeviceInductive
<1> QED  BY <1>1, DeviceInitInv, PTL DEF DeviceSpec

-----------------------------------------------------------------------------
(* What follows from it *)

\* The unit drives its store as RollbackStore assumes, so what is proved of the
\* store holds in the unit: PutBatch is called with views and extensions only.
THEOREM DeviceImplementsStore ==
    ASSUME Planted = {}
    PROVE  DeviceSpec => Spec
<1>1. DeviceInit => Init  BY DEF DeviceInit
<1>2. DeviceInv /\ [DeviceNext]_deviceVars => [Next]_vars
  BY DeviceStepOfStore DEF DeviceInv, DeviceNext
<1> QED  BY <1>1, <1>2, DeviceInvariant, PTL DEF DeviceSpec, Spec

\* What the sequencer hands PutBatch is not empty and extends what the store holds,
\* although it was checked a rotation and a signing earlier (BatchExtendsStore).
THEOREM DeviceBatchExtendsStore ==
    ASSUME Planted = {}
    PROVE  DeviceSpec => []BatchExtendsStore
<1>1. DeviceInv => BatchExtendsStore
  BY SignedIsExtension DEF DeviceInv, CommitInv, BatchExtendsStore
<1> QED  BY <1>1, DeviceInvariant, PTL

\* Every handler that waits is on exactly one entry, through commits of several
\* steps, failed ones and power losses (NobodyLost).
THEOREM DeviceNobodyLost ==
    ASSUME Planted = {}
    PROVE  DeviceSpec => []NobodyLost
<1>1. WP!WitnessInv => WP!WaitersTracked  BY WP!WaitersCounted, WitnessAssumptions
<1>2. DeviceInv => NobodyLost
  BY <1>1, SameWaitersTracked DEF DeviceInv, NobodyLost
<1> QED  BY <1>2, DeviceInvariant, PTL

\* Whatever left the unit is known to every boot that serves, also one of a card
\* whose slots were replaced (AnswersSurviveReboot).
THEOREM DeviceAnswersSurviveReboot ==
    ASSUME Planted = {}
    PROVE  DeviceSpec => []AnswersSurviveReboot
<1>1. DeviceInv /\ ServesCommitted => AnswersSurviveReboot
  BY DEF DeviceInv, LeftInv, ServesCommitted, AnswersSurviveReboot
<1>2. Spec => []ServesCommitted  BY StoreServesCommitted
<1> QED  BY <1>1, <1>2, DeviceInvariant, DeviceImplementsStore, PTL

\* Every step of the unit is a step of ConsistentView, of the view that is anchored
\* and of the cosignatures that left.
LEMMA DeviceStepRefines ==
    ASSUME Planted = {}, DeviceInv, [DeviceNext]_deviceVars
    PROVE  [DeviceView!ViewNext]_(DeviceView!viewVars)
<1>1. CASE left' = left
  <2>1. View!ViewNext \/ UNCHANGED <<Anchored, released>>
    BY DeviceStepOfStore, StoreStepRefines DEF DeviceInv, DeviceNext, View!viewVars
  <2>2. CASE View!Advance
    <3>1. DeviceView!Advance
      BY <1>1, <2>2 DEF View!Advance, DeviceView!Advance, View!Views, DeviceView!Views,
         View!ExtendsAll, DeviceView!ExtendsAll, View!Extends, DeviceView!Extends
    <3> QED  BY <3>1 DEF DeviceView!ViewNext
  <2>3. CASE Anchored' = Anchored
    BY <1>1, <2>3 DEF DeviceView!viewVars
  <2> QED  BY <2>1, <2>2, <2>3 DEF View!ViewNext, View!Release
<1>2. CASE left' # left
  <2>1. ServeStep /\ W!Retire
    BY <1>2 DEF DeviceNext, UnitStep, ReplaceSlot, BootStep, ServeStep, AskHalted, BeginPut, PutStep,
       PutReturnsNil, PutReturnsError, PowerLoss, deviceVars, W!SignerNext, W!AddEpoch, W!StoreSigner,
       W!LoadSigner, W!LoadEpoch, W!AddToPool, W!RunSequencer, W!Rotate, W!Sign, W!CheckRequest,
       W!PutSucceeds, W!PutFails
  <2>2. /\ seq = "retire" /\ UNCHANGED vars
        /\ left' = [o \in Origins |-> left[o] \cup ({W!SignedStates[o]} \ {NoNote})]
    BY <2>1, StoreIdle DEF W!Retire
  <2> DEFINE os == {o \in Origins : W!SignedStates[o] # NoNote}
  <2>3. PICK p \in Origins : W!SignedStates[p] # NoNote
    <3>1. ASSUME \A o \in Origins : W!SignedStates[o] = NoNote
          PROVE  FALSE
      <4>1. left \in [Origins -> SUBSET Heads]
        BY DEF DeviceInv, WP!WitnessInv, WP!WitnessTypeOK
      <4>2. left' = left  BY <2>2, <3>1, <4>1
      <4> QED  BY <1>2, <4>2
    <3> QED  BY <3>1
  <2>4. ~halted /\ pc = "ready"
    <3>1. W!SignedStates # Nothing  BY <2>3 DEF Nothing
    <3>2. Serving  BY <2>1 DEF ServeStep
    <3> QED  BY <2>2, <3>1, <3>2 DEF DeviceInv, RetireInv, CommitInv, Serving
  <2>5. mem = Anchored  BY <2>4 DEF DeviceInv, StoreInv, LiveInv
  <2>6. \A o \in os : Anchored[o] = W!SignedStates[o]
    <3>1. \A o \in Origins : WP!SignedStates[o] # NoNote => mem[o] = WP!SignedStates[o]
      BY <2>2 DEF DeviceInv, WP!WitnessInv, WP!PendingExtendsStore
    <3> QED  BY <2>5, <3>1, SameOperators
  <2>7. left' = [o \in Origins |-> IF o \in os THEN left[o] \cup {Anchored[o]} ELSE left[o]]
    <3>1. \A o \in Origins : left[o] \cup ({W!SignedStates[o]} \ {NoNote}) =
              IF o \in os THEN left[o] \cup {Anchored[o]} ELSE left[o]
      BY <2>6
    <3> QED  BY <2>2, <3>1
  <2>8. DeviceView!Release(os)
    BY <2>2, <2>6, <2>7 DEF DeviceView!Release, vars, Anchored
  <2> QED  BY <2>8 DEF DeviceView!ViewNext
<1> QED  BY <1>1, <1>2

\* The promise end to end: the cosignatures that leave the unit are of the anchored
\* view, which only moves forward, through concurrent submissions, failed writes,
\* crashes inside a commit, reboots and replaced slots (DeviceKeepsPromise).
THEOREM DeviceIsConsistent ==
    ASSUME Planted = {}
    PROVE  DeviceSpec => DeviceKeepsPromise
<1>1. DeviceInit => DeviceView!ViewInit
  BY DEF DeviceInit, Init, W!WitnessInit, Fresh, Anchored, DeviceView!ViewInit, DeviceView!Nothing, Nothing
<1>2. DeviceInv /\ [DeviceNext]_deviceVars => [DeviceView!ViewNext]_(DeviceView!viewVars)
  BY DeviceStepRefines
<1> QED
  BY <1>1, <1>2, DeviceInvariant, PTL DEF DeviceSpec, DeviceKeepsPromise, DeviceView!ViewSpec

-----------------------------------------------------------------------------
(* The card, as long as nobody replaces its slots *)

\* The slots are as save left them until somebody replaces one.
LEMMA SlotsUntilReplaced ==
    ASSUME Planted = {}
    PROVE  DeviceSpec => [](~replaced => SlotsInv)
<1>1. DeviceInit => SlotsInv
  BY DEF DeviceInit, Init, Fresh, SlotsInv
<1>2. ASSUME DeviceInv, [DeviceNext]_deviceVars, ~replaced => SlotsInv, ~replaced'
      PROVE  SlotsInv'
  <2>1. (UnitStep \/ UNCHANGED deviceVars) /\ ~replaced
    BY <1>2 DEF DeviceNext, ReplaceSlot, deviceVars
  <2>2. [Next]_vars  BY <1>2, <2>1, DeviceStepOfStore DEF DeviceInv
  <2>3. pc = "off" => card' = card
    BY <2>1, StoreIdle DEF UnitStep, BootStep, OpenFails, Open, Reanchor, BeginPut, PutBatch, PutStep,
       SaveBlob, AnchorBlob, PutReturnsNil, Publish, PutReturnsError, PutBatchRefused,
       PutBatchExhausted, PowerLoss, Crash, deviceVars, vars
  <2> QED  BY <1>2, <2>1, <2>2, <2>3, SlotsKept DEF DeviceInv
<1>3. DeviceInv /\ [DeviceNext]_deviceVars /\ (~replaced => SlotsInv) => (~replaced => SlotsInv)'
  BY <1>2
<1> QED  BY <1>1, <1>3, DeviceInvariant, PTL DEF DeviceSpec

\* Until somebody replaces a slot the anchored blob is on the card, whatever writes
\* of PutBatch and Open fail or are cut off (CommittedBlobKept).
THEOREM DeviceKeepsCommittedBlob ==
    ASSUME Planted = {}
    PROVE  DeviceSpec => []CommittedBlobKept
<1>1. DeviceInv /\ (~replaced => SlotsInv) => CommittedBlobKept
  BY SlotsAlternate
  DEF DeviceInv, TypeOK, Anchors, Gens, SlotsInv, CommittedBlobOnCard, CommittedBlobKept
<1> QED  BY <1>1, SlotsUntilReplaced, DeviceInvariant, PTL

\* Until somebody replaces a slot, a boot that can read its slots does not halt by
\* Open's decision, whichever step of PutBatch the power loss hit (RebootResolves).
\* An anchor that cannot be read, or a failed re-anchoring, still stops the unit.
THEOREM DeviceRebootResolves ==
    ASSUME Planted = {}, "slotRead" \notin Faults
    PROVE  DeviceSpec => RebootResolves
<1>1. DeviceInv /\ (~replaced => SlotsInv) /\ [DeviceNext]_deviceVars =>
          [~replaced => BootResolves]_deviceVars
  <2> SUFFICES ASSUME DeviceInv, SlotsInv, [DeviceNext]_deviceVars
               PROVE  BootResolves
    OBVIOUS
  <2>1. [Next]_vars  BY DeviceStepOfStore DEF DeviceInv, DeviceNext
  <2> QED  BY <2>1, BootIsResolved DEF DeviceInv
<1> QED  BY <1>1, SlotsUntilReplaced, DeviceInvariant, PTL DEF DeviceSpec, RebootResolves
=============================================================================
