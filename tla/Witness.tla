------------------------------ MODULE Witness ------------------------------
(***************************************************************************)
(* The witness of internal/witness: HTTP handler goroutines that run       *)
(* AddCheckpoint, the sequencer goroutine that signs and commits one pool  *)
(* of checkpoints per tick, and the provisioning goroutine that exchanges  *)
(* the signer under all of them.                                           *)
(*                                                                         *)
(* A step is a stretch of code between two points where another goroutine  *)
(* can be observed: an atomic load or store, or a section under poolMu.    *)
(* Sections under w.mu span steps, so that lock is state.  The store       *)
(* is the Store interface: PutBatch commits all of a batch or none of it,  *)
(* and an error may leave the store halted (RollbackStore has the detail). *)
(* A checkpoint text is a head and the extension lines after it; bytes,    *)
(* metrics and log lines are left out.                                     *)
(***************************************************************************)
EXTENDS Naturals, FiniteSets, CheckpointRules

CONSTANTS
    Requests,      \* the add-checkpoint requests clients send
    Clients,       \* HTTP handler goroutines
    Signers,       \* signers (*CosignatureSigner pointers) that get installed
    NoSigner,      \* the nil signer
    None,          \* no pool entry, no request, no cosignature
    MaxPoolSize,   \* maxPoolSize
    MaxEpoch,      \* bound: how often the signer changes
    MayStop        \* the sequencer's context may be cancelled

ASSUME RequestsAssumption ==
    \A r \in Requests : /\ r.origin \in Origins /\ r.head \in Heads
                        /\ r.old \in Nat /\ r.proof \in Proofs

ASSUME WitnessSentinels == NoSigner \notin Signers /\ None \notin Requests

ASSUME WitnessBounds == MaxPoolSize \in Nat /\ MaxEpoch \in Nat /\ MayStop \in BOOLEAN

\* Status codes; 0 is an entry whose result was never set.
Codes == {0, 200, 400, 409, 422, 429, 500, 503}

\* Pool entries.
Entries ==
    [head: Heads, ext: {r.ext : r \in Requests}, signer: Signers, epoch: 0..MaxEpoch,
     code: Codes, waiters: SUBSET Clients]

Cosigs == [head: Heads, ext: {r.ext : r \in Requests}, signer: Signers]

Sizes == {SizeOf(h) : h \in Heads}

\* What a handler goroutine has in hand, and its last answer.
Handlers ==
    [at: {"idle", "loaded", "parsed", "candidate", "wait", "done"},
     req: Requests \cup {None}, signer: Signers \cup {NoSigner}, epoch: 0..MaxEpoch,
     code: Codes, latest: Sizes, sig: Cosigs \cup {None}]

\* A nil pointer is no pool entry.
ASSUME EntrySentinel == None \notin Entries

VARIABLES
    signer,    \* Witness.signer
    epoch,     \* Witness.epoch
    mu,        \* who holds Witness.mu: "free", "admin" or "sequencer"
    pool,      \* currentPool.entries: the entry of each origin
    inSeq,     \* inSequencing
    seq,       \* the sequencer: "stopped", "idle", "rotated", "put" or "retire"
    mem,       \* the store's head of each origin
    halted,    \* the store's Halted()
    client,    \* what each handler goroutine is doing, and its last answer
    released   \* history: for every log, the heads whose cosignatures left

poolVars == <<pool, inSeq>>
storeVars == <<mem, halted>>
signerVars == <<signer, epoch>>
witnessVars == <<signer, epoch, mu, pool, inSeq, seq, mem, halted, client, released>>

Idle == [at |-> "idle", req |-> None, signer |-> NoSigner, epoch |-> 0,
         code |-> 0, latest |-> 0, sig |-> None]

\* The cosignature over a checkpoint text by a signer.
Cosig(head, ext, s) == [head |-> head, ext |-> ext, signer |-> s]

WitnessInit ==
    /\ signer = NoSigner
    /\ epoch = 0
    /\ mu = "free"
    /\ pool = [o \in Origins |-> None]
    /\ inSeq = [o \in Origins |-> None]
    /\ seq = "stopped"
    /\ mem = Nothing
    /\ halted = FALSE
    /\ client = [c \in Clients |-> Idle]
    /\ released = [o \in Origins |-> {}]

-----------------------------------------------------------------------------
(* SetSigner and ClearSigner: two atomics, written one after the other while *)
(* w.mu is held.  s is NoSigner for ClearSigner.                             *)

\* Mutation: the signer is exchanged without w.mu.
StoreSignerUnlocked(s) ==
    /\ mu # "admin"
    /\ epoch < MaxEpoch
    /\ signer' = s
    /\ mu' = "admin"
    /\ UNCHANGED <<epoch, pool, inSeq, seq, mem, halted, client, released>>

StoreSigner(s) ==
    /\ mu = "free"
    /\ epoch < MaxEpoch
    /\ signer' = s
    /\ mu' = "admin"
    /\ UNCHANGED <<epoch, pool, inSeq, seq, mem, halted, client, released>>

AddEpoch ==
    /\ mu = "admin"
    /\ epoch' = epoch + 1
    /\ mu' = "free"
    /\ UNCHANGED <<signer, pool, inSeq, seq, mem, halted, client, released>>

-----------------------------------------------------------------------------
(* AddCheckpoint *)

Answer(c, code) == client' = [client EXCEPT ![c] = [Idle EXCEPT !.at = "done", !.code = code]]

\* Mutation: a nil signer is not noticed.
LoadAnySigner(c, r) ==
    /\ client[c].at \in {"idle", "done"}
    /\ client' = [client EXCEPT ![c] =
                      [Idle EXCEPT !.at = "loaded", !.req = r, !.signer = signer]]
    /\ UNCHANGED <<signer, epoch, mu, pool, inSeq, seq, mem, halted, released>>

\* A request arrives and the handler loads the signer.
LoadSigner(c, r) ==
    /\ client[c].at \in {"idle", "done"}
    /\ IF signer = NoSigner
       THEN Answer(c, 503)
       ELSE client' = [client EXCEPT ![c] =
                          [Idle EXCEPT !.at = "loaded", !.req = r, !.signer = signer]]
    /\ UNCHANGED <<signer, epoch, mu, pool, inSeq, seq, mem, halted, released>>

\* The Halted check, then parsing.  A request whose old size is above that of its
\* checkpoint also stands for the ones that do not parse.
CheckRequest(c) ==
    /\ client[c].at = "loaded"
    /\ \/ halted /\ Answer(c, 503)
       \/ /\ ~halted
          /\ client[c].req.old > SizeOf(client[c].req.head)
          /\ Answer(c, 400)
       \/ /\ ~halted
          /\ client[c].req.old <= SizeOf(client[c].req.head)
          /\ client' = [client EXCEPT ![c].at = "parsed"]
    /\ UNCHANGED <<signer, epoch, mu, pool, inSeq, seq, mem, halted, released>>

LoadEpoch(c) ==
    /\ client[c].at = "parsed"
    /\ client' = [client EXCEPT ![c].at = "candidate", ![c].epoch = epoch]
    /\ UNCHANGED <<signer, epoch, mu, pool, inSeq, seq, mem, halted, released>>

\* Mutation: every submission is a first sighting.
LatestUnknown(o) == 0

\* The size the store has for an origin, 0 when it knows none.
Latest(o) == SizeHeld(mem[o])

\* Mutation: the conflict does not tell the size.
AnswerConflictBare(c) ==
    client' = [client EXCEPT ![c] = [Idle EXCEPT !.at = "done", !.code = 409]]

\* The conflict answer carries the size the store has.
AnswerConflict(c) ==
    client' = [client EXCEPT ![c] = [Idle EXCEPT !.at = "done", !.code = 409,
                                                 !.latest = Latest(client[c].req.origin)]]

\* Mutation: the batch being sequenced is forgotten.
PendingInPool(o) == pool[o]

\* The entry a candidate for an origin meets: the current pool's before that of
\* the batch being sequenced.
Pending(o) == IF pool[o] # None THEN pool[o] ELSE inSeq[o]

\* Mutation: heads are compared, texts are not.
MatchesHead(e, c) ==
    /\ e.signer = client[c].signer /\ e.epoch = client[c].epoch
    /\ e.head = client[c].req.head

\* matchPending: the same text, from a handler that saw the same signer.
Matches(e, c) ==
    /\ e.signer = client[c].signer /\ e.epoch = client[c].epoch
    /\ e.head = client[c].req.head /\ e.ext = client[c].req.ext

PoolSize == Cardinality({o \in Origins : pool[o] # None})

NewEntry(c) ==
    [head |-> client[c].req.head, ext |-> client[c].req.ext,
     signer |-> client[c].signer, epoch |-> client[c].epoch,
     code |-> 0, waiters |-> {c}]

Wait(c) == client' = [client EXCEPT ![c].at = "wait"]

\* Mutation: at the limit a handler waits for room.
AnswerFullWaits(c) == Wait(c)

\* The pool has no room for another log.
AnswerFull(c) == Answer(c, 429)

\* matchPending joins the pending entry of the origin.
JoinPending(c) ==
    LET o == client[c].req.origin
    IN  /\ Pending(o) # None
        /\ Matches(Pending(o), c)
        /\ IF pool[o] # None
           THEN pool' = [pool EXCEPT ![o].waiters = @ \cup {c}] /\ UNCHANGED inSeq
           ELSE inSeq' = [inSeq EXCEPT ![o].waiters = @ \cup {c}] /\ UNCHANGED pool
        /\ Wait(c)

Admit(c) ==
    LET r == client[c].req
    IN  /\ Pending(r.origin) = None
        /\ PoolSize < MaxPoolSize
        /\ r.old = Latest(r.origin)
        /\ Consistent(mem[r.origin], r)
        /\ pool' = [pool EXCEPT ![r.origin] = NewEntry(c)]
        /\ Wait(c)
        /\ UNCHANGED inSeq

Refuse(c) ==
    LET r == client[c].req
        e == Pending(r.origin)
    IN  /\ \/ e # None /\ ~Matches(e, c) /\ AnswerConflict(c)
           \/ e = None /\ PoolSize >= MaxPoolSize /\ AnswerFull(c)
           \/ /\ e = None /\ PoolSize < MaxPoolSize
              /\ r.old # Latest(r.origin)
              /\ AnswerConflict(c)
           \/ /\ e = None /\ PoolSize < MaxPoolSize
              /\ r.old = Latest(r.origin)
              /\ ~Consistent(mem[r.origin], r)
              /\ Answer(c, 422)
        /\ UNCHANGED poolVars

\* addToPool, all of it under poolMu.
AddToPool(c) ==
    /\ client[c].at = "candidate"
    /\ JoinPending(c) \/ Admit(c) \/ Refuse(c)
    /\ UNCHANGED <<signer, epoch, mu, seq, mem, halted, released>>

\* GET /<origin-hash>/checkpoint: the stored note, halted or not.
Checkpoint(o) ==
    /\ mem[o] # NoNote
    /\ released' = [released EXCEPT ![o] = @ \cup {mem[o]}]
    /\ UNCHANGED <<signer, epoch, mu, pool, inSeq, seq, mem, halted, client>>

-----------------------------------------------------------------------------
(* The sequencer *)

Batch == {o \in Origins : inSeq[o] # None}

\* The results sequencePool sets one by one: codes[o] for the entry of origin o.
SetResults(entries, codes) ==
    [o \in Origins |-> IF entries[o] = None THEN None
                       ELSE [entries[o] EXCEPT !.code = codes[o]]]

\* setPoolResult: one result for the whole pool.
SetPoolResult(entries, code) == SetResults(entries, [o \in Origins |-> code])

\* close(done) of every entry: the handlers waiting on one return its result.
Close(entries) ==
    client' = [c \in Clients |->
        IF \E o \in Origins : entries[o] # None /\ c \in entries[o].waiters
        THEN LET e == entries[CHOOSE o \in Origins :
                                entries[o] # None /\ c \in entries[o].waiters]
             IN  IF e.code = 200
                 THEN [client[c] EXCEPT !.at = "done", !.code = 200,
                                        !.sig = Cosig(e.head, e.ext, e.signer)]
                 ELSE [Idle EXCEPT !.at = "done", !.code = e.code]
        ELSE client[c]]

RunSequencer ==
    /\ seq = "stopped"
    /\ seq' = "idle"
    /\ UNCHANGED <<signer, epoch, mu, pool, inSeq, mem, halted, client, released>>

\* Mutation: the pool is dropped and its waiters are not told.
StopPoolsSilently ==
    /\ seq = "idle"
    /\ MayStop
    /\ pool' = [o \in Origins |-> None]
    /\ seq' = "stopped"
    /\ UNCHANGED <<signer, epoch, mu, inSeq, mem, halted, client, released>>

\* The context is done: whoever waits is told so, and the pool is dropped.
StopPools ==
    /\ seq = "idle"
    /\ MayStop
    /\ Close(SetPoolResult(pool, 503))
    /\ pool' = [o \in Origins |-> None]
    /\ seq' = "stopped"
    /\ UNCHANGED <<signer, epoch, mu, inSeq, mem, halted, released>>

\* A tick: the pool becomes the batch.  A tick that finds no entry does nothing.
Rotate ==
    /\ seq = "idle"
    /\ \E o \in Origins : pool[o] # None
    /\ inSeq' = pool
    /\ pool' = [o \in Origins |-> None]
    /\ seq' = "rotated"
    /\ UNCHANGED <<signer, epoch, mu, mem, halted, client, released>>

\* The entries whose candidate saw the signer that is installed now.
Current == {o \in Batch : inSeq[o].signer = signer /\ inSeq[o].epoch = epoch}

\* Mutation: the sequencer waits for a signer.
SignNothingAwaitsSigner ==
    /\ mu = "free"
    /\ signer # NoSigner
    /\ halted \/ Current = {}
    /\ inSeq' = SetPoolResult(inSeq, 503)
    /\ seq' = "retire"
    /\ UNCHANGED mu

\* sequencePool up to PutBatch.  Nothing to commit: no signer, a halted store, no
\* current entry, or a signature that failed, which fails the whole batch.
SignNothing ==
    /\ mu = "free"
    /\ \/ /\ signer = NoSigner \/ halted \/ Current = {}
          /\ inSeq' = SetPoolResult(inSeq, 503)
       \/ /\ signer # NoSigner /\ ~halted /\ Current # {}
          /\ inSeq' = SetPoolResult(inSeq, 500)
    /\ seq' = "retire"
    /\ UNCHANGED mu

SignBatch ==
    /\ mu = "free"
    /\ signer # NoSigner /\ ~halted /\ Current # {}
    /\ inSeq' = SetResults(inSeq, [o \in Origins |-> IF o \in Current THEN 200 ELSE 503])
    /\ seq' = "put"
    /\ mu' = "sequencer"

Sign ==
    /\ seq = "rotated"
    /\ SignNothing \/ SignBatch
    /\ UNCHANGED <<signer, epoch, pool, mem, halted, client, released>>

\* The heads PutBatch is given.
SignedStates ==
    [o \in Origins |-> IF inSeq[o] # None /\ inSeq[o].code = 200
                       THEN inSeq[o].head ELSE NoNote]

\* PutBatch returns nil: the batch is in the store, and w.mu is unlocked.
PutSucceeds ==
    /\ seq = "put"
    /\ mem' = Merge(mem, SignedStates)
    /\ mu' = "free"
    /\ seq' = "retire"
    /\ UNCHANGED <<signer, epoch, pool, inSeq, halted, client, released>>

\* Mutation: a failed commit is not reported.
PutFailsSilently ==
    /\ seq = "put"
    /\ halted' \in BOOLEAN
    /\ mu' = "free"
    /\ seq' = "retire"
    /\ UNCHANGED <<signer, epoch, pool, inSeq, mem, client, released>>

\* PutBatch returns an error: every caller of the batch is told.
PutFails ==
    /\ seq = "put"
    /\ halted' \in BOOLEAN
    /\ inSeq' = SetPoolResult(inSeq, 500)
    /\ mu' = "free"
    /\ seq' = "retire"
    /\ UNCHANGED <<signer, epoch, pool, mem, client, released>>

Put == PutSucceeds \/ PutFails

\* The batch is retired before its callers can submit their next checkpoint.
Retire ==
    /\ seq = "retire"
    /\ Close(inSeq)
    /\ inSeq' = [o \in Origins |-> None]
    /\ released' = [o \in Origins |->
          released[o] \cup ({SignedStates[o]} \ {NoNote})]
    /\ seq' = "idle"
    /\ UNCHANGED <<signer, epoch, mu, pool, mem, halted>>

-----------------------------------------------------------------------------
SignerNext == AddEpoch \/ \E s \in Signers \cup {NoSigner} : StoreSigner(s)

ClientNext(c) ==
    \/ \E r \in Requests : LoadSigner(c, r)
    \/ CheckRequest(c)
    \/ LoadEpoch(c)
    \/ AddToPool(c)

SequencerNext == RunSequencer \/ StopPools \/ Rotate \/ Sign \/ Put \/ Retire

ServeNext == (\E c \in Clients : ClientNext(c)) \/ (\E o \in Origins : Checkpoint(o))

WitnessNext == SignerNext \/ ServeNext \/ SequencerNext

WitnessSpec == WitnessInit /\ [][WitnessNext]_witnessVars

-----------------------------------------------------------------------------
(* Properties *)

WitnessTypeOK ==
    /\ signer \in Signers \cup {NoSigner}
    /\ epoch \in 0..MaxEpoch
    /\ mu \in {"free", "admin", "sequencer"}
    /\ pool \in [Origins -> Entries \cup {None}]
    /\ inSeq \in [Origins -> Entries \cup {None}]
    /\ seq \in {"stopped", "idle", "rotated", "put", "retire"}
    /\ mem \in Views
    /\ halted \in BOOLEAN
    /\ client \in [Clients -> Handlers]
    /\ released \in [Origins -> SUBSET Heads]

View == INSTANCE ConsistentView WITH view <- mem

\* The witness keeps the promise: a batch moves the view forward only, although
\* its entries were checked against the store one pool rotation and one commit
\* earlier, and answers and GET responses cosign only the view as it is.
ImplementsConsistentView == View!ViewSpec

\* What was checked when a candidate was admitted still holds when the batch is
\* committed: an origin is pending in one place only, so nothing else can have
\* moved the stored head under an admitted entry (addToPool, sequence).
PendingExtendsStore ==
    \A o \in Origins :
        /\ pool[o] # None => inSeq[o] = None /\ Extends(pool[o].head, mem[o])
        /\ inSeq[o] # None /\ seq # "retire" => Extends(inSeq[o].head, mem[o])
        /\ SignedStates[o] # NoNote /\ seq = "retire" =>
              mem[o] = SignedStates[o]

\* A handler returns a real status, and 200 only with the cosignature over its own
\* text by the signer it started with, also when it joined the entry of another.
AnswersSound ==
    \A c \in Clients :
        client[c].at = "done" =>
            /\ client[c].code # 0
            /\ client[c].code = 200 =>
                  client[c].sig = Cosig(client[c].req.head, client[c].req.ext, client[c].signer)

\* A waiting handler is on exactly one entry that will be closed, and entries hold
\* no other handlers: joining, rotation, retirement and stopping lose nobody.
WaitersTracked ==
    \A c \in Clients :
        Cardinality({o \in Origins : pool[o] # None /\ c \in pool[o].waiters})
          + Cardinality({o \in Origins : inSeq[o] # None /\ c \in inSeq[o].waiters})
        = IF client[c].at = "wait" THEN 1 ELSE 0

\* Once SetSigner or ClearSigner has returned, no signing can still be using an
\* earlier signer: what is signed and not yet committed is of the installed one.
SignerInUseIsInstalled ==
    seq = "put" => \A o \in Batch : inSeq[o].code = 200 =>
                      inSeq[o].signer = signer /\ inSeq[o].epoch = epoch

\* Every submission is answered: no handler waits forever on the sequencer, on the
\* signer lock or on an entry, however signer changes and failures fall.
RequestsAnswered ==
    \A c \in Clients : client[c].at = "loaded" ~> client[c].at = "done"
=============================================================================
