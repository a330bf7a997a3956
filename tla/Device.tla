------------------------------- MODULE Device -------------------------------
(***************************************************************************)
(* The running unit: the witness of Witness over the store of              *)
(* RollbackStore, through crashes and reboots, with a card whose slots are *)
(* replaced while the unit is off.  Each side meets the other as it is:    *)
(* PutBatch is not one step but the save, anchor and publish steps of the  *)
(* store, under the store's mutex, and what PutBatch is asked to commit is *)
(* what the sequencer signed.                                              *)
(*                                                                         *)
(* The two share the stored heads (mem) and the halted flag.  The signing  *)
(* key and everything else of the witness is in RAM and lost in a crash.   *)
(* GET requests are left out here: what they show is ServedIsAnchored's    *)
(* subject in RollbackStore.                                               *)
(***************************************************************************)
EXTENDS RollbackStore

CONSTANTS
    SizeOf(_), EmptyHead, Requests, Clients, Signers, NoSigner, None,
    MaxPoolSize, MaxEpoch, MayStop   \* as in Witness

VARIABLES
    signer, epoch, mu, pool, inSeq, seq, client,   \* as in Witness
    left,      \* history: for every log, the heads whose cosignatures left the unit
    replaced   \* history: whether anybody has replaced a slot

W == INSTANCE Witness WITH released <- left

\* What Witness and CheckpointRules assume of their constants.
ASSUME DeviceAssumption ==
    /\ W!HeadsAssumption /\ W!RequestsAssumption /\ W!WitnessSentinels /\ W!WitnessBounds
    /\ W!EntrySentinel

ramVars == <<signer, epoch, mu, pool, inSeq, seq, client>>
storeOnlyVars == <<card, anchor, sealed, pc, gen, job, released>>
deviceVars == <<vars, ramVars, left, replaced>>

DeviceInit == Init /\ W!WitnessInit /\ replaced = FALSE

-----------------------------------------------------------------------------
\* main opens the store before it starts anything else.
BootStep ==
    /\ OpenFails \/ Reanchor \/ \E readable \in SUBSET Slots : Open(readable)
    /\ UNCHANGED <<ramVars, left>>

\* Handlers, the sequencer and the provisioning server while the unit is up.  Get
\* and All are answered from mem even while PutBatch holds the store's mutex.
ServeStep ==
    /\ Serving
    /\ \/ W!SignerNext
       \/ \E c \in Clients : \/ \E r \in Requests : W!LoadSigner(c, r)
                             \/ W!LoadEpoch(c) \/ W!AddToPool(c)
       \/ W!RunSequencer \/ W!Rotate \/ W!Retire
    /\ UNCHANGED storeOnlyVars

\* Halted takes the store's mutex, so who asks it waits for a PutBatch under way.
AskHalted ==
    /\ pc = "ready"
    /\ W!Sign \/ \E c \in Clients : W!CheckRequest(c)
    /\ UNCHANGED storeOnlyVars

\* The sequencer calls PutBatch with the states it signed.
BeginPut ==
    /\ seq = "put"
    /\ \E nonce \in Nonces : PutBatch(W!SignedStates, nonce)
    /\ UNCHANGED <<ramVars, left>>

\* A step of PutBatch after which it goes on, or has returned an error.
PutStep ==
    /\ seq = "put"
    /\ SaveBlob \/ AnchorBlob
    /\ IF pc' = "ready" THEN W!PutFails ELSE UNCHANGED <<ramVars, left>>

PutReturnsNil == Publish /\ W!PutSucceeds

PutReturnsError == (PutBatchRefused \/ PutBatchExhausted) /\ W!PutFails

\* Power loss or reset, at any point: callers that waited get no answer.
PowerLoss ==
    /\ Crash
    /\ signer' = NoSigner /\ epoch' = 0 /\ mu' = "free"
    /\ pool' = [o \in Origins |-> None] /\ inSeq' = [o \in Origins |-> None]
    /\ seq' = "stopped"
    /\ client' = [c \in Clients |-> W!Idle]
    /\ UNCHANGED left

UnitStep ==
    \/ BootStep \/ ServeStep \/ AskHalted
    \/ BeginPut \/ PutStep \/ PutReturnsNil \/ PutReturnsError
    \/ PowerLoss

\* Whoever holds the card puts an earlier blob or nothing into a slot.
ReplaceSlot ==
    /\ \E s \in Slots, blob \in sealed \cup Planted \cup {NoBlob} : Tamper(s, blob)
    /\ replaced' = TRUE
    /\ UNCHANGED <<ramVars, left>>

DeviceNext == (UnitStep /\ UNCHANGED replaced) \/ ReplaceSlot

DeviceSpec == DeviceInit /\ [][DeviceNext]_deviceVars

-----------------------------------------------------------------------------
(* Properties *)

DeviceView == INSTANCE ConsistentView WITH view <- Anchored, released <- left

\* The unit keeps the promise end to end: the cosignatures its HTTP handlers return
\* are of the one anchored view, which only moves forward, through concurrent
\* submissions, failed writes, crashes inside a commit, reboots and replaced slots.
DeviceKeepsPromise == DeviceView!ViewSpec

\* RollbackStore takes for granted that PutBatch is given extensions of what it
\* holds.  The witness checked them one rotation and one signing earlier, against
\* a store that other batches, recoveries and reboots have moved since.
BatchExtendsStore ==
    seq = "put" /\ pc = "ready" =>
        /\ W!SignedStates # Nothing
        /\ ExtendsAll(Merge(mem, W!SignedStates), mem)

\* Every handler that waits is on one entry that will be closed, also after a full
\* pool, a commit in several steps, a failed one and a power loss (WaitersTracked).
NobodyLost == W!WaitersTracked

\* A cosignature that left the unit is known to every later boot that serves, so
\* the next head of its log is checked against it, whatever was put on the card.
AnswersSurviveReboot ==
    Serving /\ ~halted =>
        \A o \in Origins : \A h \in left[o] : Extends(mem[o], h)

\* Until somebody replaces a slot, the anchored blob is on the card: no failed or
\* torn write of a commit touches it (CommittedBlobOnCard).
CommittedBlobKept == ~replaced => CommittedBlobOnCard

\* Until somebody replaces a slot, Open never decides to halt, whichever step the
\* power was cut at and whichever write failed (ROLLBACK.md, crash matrix and soft
\* failures).  An anchor that cannot be read or re-anchored still stops the unit.
RebootResolves == [][~replaced => BootResolves]_deviceVars
=============================================================================
