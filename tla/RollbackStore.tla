--------------------------- MODULE RollbackStore ---------------------------
(***************************************************************************)
(* The rollback-protected checkpoint store of internal/state: one          *)
(* encrypted and authenticated blob per generation, written to two         *)
(* alternating microSD slots, whose generation and digest are then         *)
(* recorded in a monotonic anchor (an eMMC RPMB sector).                   *)
(*                                                                         *)
(* The model keeps every step of a commit and of the boot decision, the    *)
(* power cut between any two of them, the write that reports an error and  *)
(* did or did not land, and storage whose slots are replaced by any blob   *)
(* the unit ever sealed.  It abstracts a note to the tree head it          *)
(* cosigns, a digest to the blob it identifies, AES-GCM to "only sealed    *)
(* blobs open" and a random nonce to one never drawn before.               *)
(***************************************************************************)
EXTENDS Naturals, TreeHeads

CONSTANTS
    BadNote,        \* a note that does not restore under the origin it is filed under
    Nonces,         \* the nonces a Seal may draw
    NoBlob,         \* slot contents that do not load: blank, torn or not authentic
    MaxGen,         \* the largest generation, ^uint32(0) in the code
    Planted,        \* authentic blobs this unit did not seal (shared test key, unfused)
    Faults          \* which of the faults below may occur

Slots == {0, 1}
Gens == 0..MaxGen
Blobs == [gen: Gens, states: [Origins -> Heads \cup {NoNote, BadNote}], nonce: Nonces]
Anchors == [gen: Gens, hash: Blobs \cup {NoBlob}, bound: BOOLEAN]

ASSUME SentinelAssumption ==
    /\ BadNote \notin Heads /\ NoNote # BadNote
    /\ NoBlob \notin Blobs

\* Like ^uint32(0), the largest generation is odd: it is written to slot 1.
ASSUME MaxGenAssumption == MaxGen \in Nat /\ MaxGen % 2 = 1

ASSUME FaultsAssumption ==
    Faults \subseteq {"tamper",     \* a slot is replaced while the unit is off
                      "slotRead",   \* a slot cannot be read at boot
                      "slotWrite",  \* a slot write reports an error
                      "anchorRead", \* the anchor cannot be read at boot
                      "anchorWrite"} \* an anchor write reports an error

ASSUME PlantedAssumption == Planted \subseteq Blobs

VARIABLES
    card,      \* the blob each microSD slot holds
    anchor,    \* the anchor record
    sealed,    \* every blob this unit ever sealed and issued to the card
    pc,        \* where the firmware is: "off", "reanchor" (in Open), "ready",
               \* "save", "anchor", "publish" (in PutBatch), "fatal" (Open failed)
    mem,       \* RollbackStore.mem: the head held for each origin
    gen,       \* RollbackStore.gen
    halted,    \* RollbackStore.halted
    job,       \* the blob being committed and the updates it carries
    released   \* history: the heads whose cosignatures PutBatch allowed out

vars == <<card, anchor, sealed, pc, mem, gen, halted, job, released>>

NoJob == [blob |-> NoBlob, updates |-> Nothing]
Fresh == [gen |-> 0, hash |-> NoBlob, bound |-> FALSE]

TypeOK ==
    /\ card \in [Slots -> Blobs \cup {NoBlob}]
    /\ anchor \in Anchors
    /\ sealed \subseteq Blobs
    /\ pc \in {"off", "reanchor", "ready", "save", "anchor", "publish", "fatal"}
    /\ mem \in Views
    /\ gen \in Gens
    /\ halted \in BOOLEAN
    /\ job \in [blob: Blobs \cup {NoBlob}, updates: Views]
    /\ released \in [Origins -> SUBSET Heads]

\* A unit that was never used: blank card, all-zero anchor record.
Init ==
    /\ card = [s \in Slots |-> NoBlob]
    /\ anchor = Fresh
    /\ sealed = {}
    /\ pc = "off"
    /\ mem = Nothing
    /\ gen = 0
    /\ halted = FALSE
    /\ job = NoJob
    /\ released = [o \in Origins |-> {}]

-----------------------------------------------------------------------------
(* blob.go *)

\* Mutation: one slot for every generation.
OneSlot(g) == 0

\* The slot a generation is written to.
SlotOf(g) == g % 2

\* Mutation: a generation is skipped.
SkipGeneration(g) == IF g = MaxGen THEN 0 ELSE g + 2

\* A uint32 increment.
Succ(g) == IF g = MaxGen THEN 0 ELSE g + 1

\* load: the valid slot with the highest generation; slot 0 wins a tie.  A slot
\* that cannot be read is skipped like one that does not authenticate.
Load(readable) ==
    LET valid == {s \in readable : card[s] # NoBlob}
    IN  CASE 1 \in valid /\ (0 \in valid => card[1].gen > card[0].gen) -> card[1]
          [] 0 \in valid /\ ~(1 \in valid /\ card[1].gen > card[0].gen) -> card[0]
          [] OTHER -> NoBlob

\* What a slot may hold once a write to it failed or was cut by a power loss.
AfterTornWrite(blob) ==
    {[card EXCEPT ![SlotOf(blob.gen)] = c] : c \in {card[SlotOf(blob.gen)], blob, NoBlob}}

\* save, up to the write: the blob that binds states to generation g.
Seal(g, states, nonce) == [gen |-> g, states |-> states, nonce |-> nonce]

-----------------------------------------------------------------------------
(* anchor.go, anchor_mem.go, anchor_rpmb.go *)

AnchorFor(blob) == [gen |-> blob.gen, hash |-> blob, bound |-> TRUE]

\* SetAnchor refuses an unbound record and one that does not advance.
Advances(next) == next.bound /\ next.gen > anchor.gen

SetAnchor(next) ==
    /\ Advances(next)
    /\ anchor' = next

\* SetAnchor returned an error: the record was refused, or the authenticated
\* write failed before or after it reached the medium.
SetAnchorFails(next) ==
    /\ "anchorWrite" \in Faults \/ ~Advances(next)
    /\ anchor' \in {anchor} \cup {n \in {next} : Advances(n)}

-----------------------------------------------------------------------------
(* store.go: the boot decision *)

\* Mutation: notes are not validated.
AdmitAnything(states) == TRUE

\* admit restores every note, or none if one of them does not restore.
Admissible(states) == \A o \in Origins : states[o] # BadNote

\* Mutation: the anchored digest is not compared.
MatchesGeneration(blob) == anchor.bound

MatchesAnchor(blob) == anchor.bound /\ blob = anchor.hash

AheadByOne(blob) == anchor.gen # MaxGen /\ blob.gen = Succ(anchor.gen)

BootDecision(blob) ==
    CASE blob = NoBlob ->
            IF anchor.gen = 0 /\ ~anchor.bound THEN "fresh" ELSE "missing"
      [] blob # NoBlob /\ blob.gen = anchor.gen ->
            IF MatchesAnchor(blob) THEN "match" ELSE "mismatch"
      [] blob # NoBlob /\ blob.gen # anchor.gen /\ AheadByOne(blob) -> "recover"
      [] OTHER -> "tampered"   \* a gap above the anchor, or a rollback below it

\* Open could not read the anchor: the firmware stops here.
OpenFails ==
    /\ pc = "off"
    /\ "anchorRead" \in Faults
    /\ pc' = "fatal"
    /\ UNCHANGED <<card, anchor, sealed, mem, gen, halted, job, released>>

OpenFresh(blob) ==
    /\ BootDecision(blob) = "fresh"
    /\ pc' = "ready"
    /\ UNCHANGED <<mem, gen, halted, job>>

OpenMatch(blob) ==
    /\ BootDecision(blob) = "match"
    /\ Admissible(blob.states)
    /\ pc' = "ready"
    /\ mem' = blob.states
    /\ gen' = blob.gen
    /\ UNCHANGED <<halted, job>>

\* The blob is admitted before the anchor advances; Reanchor is the next step.
OpenRecover(blob) ==
    /\ BootDecision(blob) = "recover"
    /\ Admissible(blob.states)
    /\ pc' = "reanchor"
    /\ mem' = blob.states
    /\ gen' = blob.gen
    /\ job' = [NoJob EXCEPT !.blob = blob]
    /\ UNCHANGED halted

OpenHalts(blob) ==
    /\ \/ BootDecision(blob) \in {"missing", "mismatch", "tampered"}
       \/ BootDecision(blob) \in {"match", "recover"} /\ ~Admissible(blob.states)
    /\ pc' = "ready"
    /\ halted' = TRUE
    /\ gen' = IF BootDecision(blob) \in {"match", "recover"} THEN blob.gen ELSE 0
    /\ UNCHANGED <<mem, job>>

\* Open up to its SetAnchor call, when the slots in readable can be read.
Open(readable) ==
    /\ pc = "off"
    /\ readable = Slots \/ "slotRead" \in Faults
    /\ LET blob == Load(readable)
       IN  OpenFresh(blob) \/ OpenMatch(blob) \/ OpenRecover(blob) \/ OpenHalts(blob)
    /\ UNCHANGED <<card, anchor, sealed, released>>

\* The rest of Open on the recovery branch.
Reanchor ==
    /\ pc = "reanchor"
    /\ \/ SetAnchor(AnchorFor(job.blob)) /\ UNCHANGED halted
       \/ SetAnchorFails(AnchorFor(job.blob)) /\ halted' = TRUE
    /\ pc' = "ready"
    /\ job' = NoJob
    /\ UNCHANGED <<card, sealed, mem, gen, released>>

-----------------------------------------------------------------------------
(* store.go: PutBatch *)

\* ErrHalted, or an error before the slot write was issued (encode, nonce,
\* oversize blob): nothing changes and a store that was serving keeps serving.
PutBatchRefused ==
    /\ pc = "ready"
    /\ halted \/ gen # MaxGen
    /\ UNCHANGED vars

\* The generation counter is exhausted: halt rather than wrap.
PutBatchExhausted ==
    /\ pc = "ready"
    /\ ~halted
    /\ gen = MaxGen
    /\ halted' = TRUE
    /\ UNCHANGED <<card, anchor, sealed, pc, mem, gen, job, released>>

\* Mutation: the blob carries the updates and none of the logs held before.
PutBatchForgets(updates, nonce) ==
    /\ pc = "ready" /\ ~halted /\ gen # MaxGen /\ updates # Nothing
    /\ ExtendsAll(Merge(mem, updates), mem)
    /\ \A b \in sealed : b.nonce # nonce
    /\ LET blob == Seal(Succ(gen), updates, nonce)
       IN  sealed' = sealed \cup {blob} /\ job' = [blob |-> blob, updates |-> updates]
    /\ pc' = "save"
    /\ UNCHANGED <<card, anchor, mem, gen, halted, released>>

\* PutBatch up to the slot write: seal the next generation and issue the write.
\* The witness submits only heads it checked against those the store holds.
PutBatch(updates, nonce) ==
    /\ pc = "ready"
    /\ ~halted
    /\ gen # MaxGen
    /\ updates # Nothing
    /\ ExtendsAll(Merge(mem, updates), mem)
    /\ \A b \in sealed : b.nonce # nonce
    /\ LET blob == Seal(Succ(gen), Merge(mem, updates), nonce)
       IN  /\ sealed' = sealed \cup {blob}
           /\ job' = [blob |-> blob, updates |-> updates]
    /\ pc' = "save"
    /\ UNCHANGED <<card, anchor, mem, gen, halted, released>>

\* Mutation: the cosignatures are let out once the blob is written.
SaveBlobPublishes ==
    /\ pc = "save"
    /\ card' = [card EXCEPT ![SlotOf(job.blob.gen)] = job.blob]
    /\ pc' = "publish"
    /\ UNCHANGED <<anchor, sealed, mem, gen, halted, job, released>>

\* S1: the slot write completes, or reports an error and leaves the slot unknown.
SaveBlob ==
    /\ pc = "save"
    /\ \/ /\ card' = [card EXCEPT ![SlotOf(job.blob.gen)] = job.blob]
          /\ pc' = "anchor"
          /\ UNCHANGED <<halted, job>>
       \/ /\ "slotWrite" \in Faults
          /\ card' \in AfterTornWrite(job.blob)
          /\ pc' = "ready"
          /\ halted' = TRUE
          /\ job' = NoJob
    /\ UNCHANGED <<anchor, sealed, mem, gen, released>>

\* Mutation: a failed anchor write does not halt the store.
AnchorBlobKeepsServing ==
    /\ pc = "anchor"
    /\ \/ SetAnchor(AnchorFor(job.blob)) /\ pc' = "publish" /\ UNCHANGED job
       \/ SetAnchorFails(AnchorFor(job.blob)) /\ pc' = "ready" /\ job' = NoJob
    /\ UNCHANGED <<card, sealed, mem, gen, halted, released>>

\* S2: the anchor advances, or the store halts.
AnchorBlob ==
    /\ pc = "anchor"
    /\ \/ /\ SetAnchor(AnchorFor(job.blob))
          /\ pc' = "publish"
          /\ UNCHANGED <<halted, job>>
       \/ /\ SetAnchorFails(AnchorFor(job.blob))
          /\ pc' = "ready"
          /\ halted' = TRUE
          /\ job' = NoJob
    /\ UNCHANGED <<card, sealed, mem, gen, released>>

\* Mutation: RAM keeps only the logs of the last batch.
PublishReplaces ==
    /\ pc = "publish"
    /\ mem' = job.updates
    /\ gen' = job.blob.gen
    /\ released' = [o \in Origins |-> released[o] \cup ({job.updates[o]} \ {NoNote})]
    /\ pc' = "ready"
    /\ job' = NoJob
    /\ UNCHANGED <<card, anchor, sealed, halted>>

\* S3: the new state becomes visible and PutBatch returns nil, upon which the
\* caller releases the cosignatures of the batch.
Publish ==
    /\ pc = "publish"
    /\ mem' = Merge(mem, job.updates)
    /\ gen' = job.blob.gen
    /\ released' = [o \in Origins |-> released[o] \cup ({job.updates[o]} \ {NoNote})]
    /\ pc' = "ready"
    /\ job' = NoJob
    /\ UNCHANGED <<card, anchor, sealed, halted>>

-----------------------------------------------------------------------------
(* The environment *)

\* Power loss or reset: RAM is gone, and a slot write under way is torn.
Crash ==
    /\ pc # "off"
    /\ card' \in IF pc = "save" THEN AfterTornWrite(job.blob) ELSE {card}
    /\ pc' = "off"
    /\ mem' = Nothing
    /\ gen' = 0
    /\ halted' = FALSE
    /\ job' = NoJob
    /\ UNCHANGED <<anchor, sealed, released>>

\* While the unit is off a slot is rolled back, exchanged or erased.  Slots are
\* read only by Open, so tampering while it runs adds no behaviour.
Tamper(s, blob) ==
    /\ pc = "off"
    /\ "tamper" \in Faults
    /\ card' = [card EXCEPT ![s] = blob]
    /\ UNCHANGED <<anchor, sealed, pc, mem, gen, halted, job, released>>

Next ==
    \/ OpenFails
    \/ \E readable \in SUBSET Slots : Open(readable)
    \/ Reanchor
    \/ PutBatchRefused
    \/ PutBatchExhausted
    \/ \E updates \in Views, nonce \in Nonces : PutBatch(updates, nonce)
    \/ SaveBlob
    \/ AnchorBlob
    \/ Publish
    \/ Crash
    \/ \E s \in Slots, blob \in sealed \cup Planted \cup {NoBlob} : Tamper(s, blob)

Spec == Init /\ [][Next]_vars

-----------------------------------------------------------------------------
(* Properties *)

\* The view of the logs that the anchor pins.
Anchored == IF anchor.bound THEN anchor.hash.states ELSE Nothing

\* The store is up and GET requests are answered from mem.
Serving == pc \in {"ready", "save", "anchor", "publish"}

View == INSTANCE ConsistentView WITH view <- Anchored

\* The store implements the promise: the anchored view is the one view that only
\* moves forward, and PutBatch lets a cosignature out only of that view, through
\* power cuts at every step, failed writes and slots put back (Open, PutBatch).
ImplementsConsistentView == View!ViewSpec

\* No two cosignatures ever let out for one log are inconsistent, whatever the
\* card was made to hold between boots (Open's boot decision, PutBatch's order).
NoSplitView == View!NoSplitView

\* A store that is not halted holds exactly what is anchored, except inside the
\* commit that just advanced the anchor, and so knows all it ever let out: this
\* is what the witness checks the next head of every log against.
ServesCommitted ==
    Serving /\ ~halted =>
        /\ pc # "publish" => mem = Anchored /\ gen = anchor.gen
        /\ ExtendsAll(Anchored, mem)
        /\ \A o \in Origins : \A h \in released[o] : Extends(mem[o], h)

\* ROLLBACK.md: the blob of the anchored generation is durably on the card.  A
\* commit, torn or not, must never touch the slot that holds it (save, A/B slots).
CommittedBlobOnCard ==
    anchor.bound => \E s \in Slots : card[s] = anchor.hash

\* Open's decision is to serve or to recover, not to halt.
BootResolves == pc = "off" /\ pc' # "off" => ~halted'

\* A note that does not restore is never anchored and never served, even out of
\* an authentic blob at the right generation (admit runs before SetAnchor).
BadNoteNeverAdopted ==
    \A o \in Origins : mem[o] # BadNote /\ Anchored[o] # BadNote

\* ROLLBACK.md, Invariant: "Every cosignature for state generation g is released
\* to a client only after ... the RPMB anchor contains (g, SHA-256(blob))", here
\* of the notes the monitoring endpoint reads out of mem, halted or not.
ServedIsAnchored == Serving => ExtendsAll(Anchored, mem)

-----------------------------------------------------------------------------
(* The inductive invariant behind these properties, for a unit whose key no  *)
(* other firmware has used (Planted = {}).                                   *)

\* The anchor names a blob of its own generation that this unit sealed.
AnchorInv ==
    IF anchor.bound THEN anchor.hash \in sealed /\ anchor.hash.gen = anchor.gen
                    ELSE anchor.gen = 0

\* No sealed blob is more than one generation ahead of the anchor, and every one
\* that is ahead extends the anchored view: adopting any of them is safe.
SealedInv ==
    \A b \in sealed :
        /\ Admissible(b.states)
        /\ 0 < b.gen /\ b.gen <= anchor.gen + 1
        /\ b.gen = anchor.gen + 1 => ExtendsAll(b.states, Anchored)

CardInv == \A s \in Slots : card[s] \in sealed \cup {NoBlob}

\* All that was let out is part of the anchored view, hence consistent.
ReleasedInv == View!ReleasedInView /\ View!NoSplitView

\* What RAM holds at each point of Open and PutBatch, relative to the anchor.
LiveInv ==
    /\ pc = "off" => mem = Nothing /\ gen = 0 /\ ~halted
    /\ pc \in {"ready", "save", "anchor"} /\ ~halted =>
          mem = Anchored /\ gen = anchor.gen
    /\ pc \in {"reanchor", "save", "anchor", "publish"} =>
          ~halted /\ job.blob \in sealed
    /\ pc \in {"reanchor", "save", "anchor"} => job.blob.gen = anchor.gen + 1
    /\ pc \in {"save", "anchor", "publish"} => job.blob.states = Merge(mem, job.updates)
    /\ pc = "reanchor" => mem = job.blob.states /\ gen = job.blob.gen
    /\ pc = "publish" =>
          /\ anchor = AnchorFor(job.blob) /\ ExtendsAll(Anchored, mem)
          /\ \A o \in Origins : \A h \in released[o] : Extends(mem[o], h)

StoreInv == AnchorInv /\ SealedInv /\ CardInv /\ ReleasedInv /\ LiveInv
=============================================================================
