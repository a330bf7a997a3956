------------------------ MODULE RollbackStoreProofs ------------------------
(***************************************************************************)
(* Proofs about RollbackStore, for any set of logs and heads, any largest  *)
(* generation, any number of seals and any combination of faults.          *)
(***************************************************************************)
EXTENDS RollbackStore, TLAPS

-----------------------------------------------------------------------------
(* Type correctness *)

\* The steps of Open and PutBatch that follow a seal or a load have its blob.
JobInv == pc \in {"reanchor", "save", "anchor", "publish"} => job.blob \in Blobs

\* load returns what one of the slots holds.
LEMMA LoadFromCard ==
    ASSUME NEW readable \in SUBSET Slots
    PROVE  Load(readable) \in {card[0], card[1], NoBlob}
BY DEF Load

\* What load returns is a blob or none.
LEMMA LoadType ==
    ASSUME TypeOK, NEW readable \in SUBSET Slots
    PROVE  Load(readable) \in Blobs \cup {NoBlob}
BY LoadFromCard DEF TypeOK, Slots

\* A blob without a bad note carries a view.
LEMMA AdmissibleView ==
    ASSUME NEW b \in Blobs, Admissible(b.states)
    PROVE  b.states \in Views
BY DEF Blobs, Admissible, Views

\* The next generation is a generation.
LEMMA SuccType ==
    ASSUME NEW g \in Gens, g # MaxGen
    PROVE  Succ(g) = g + 1 /\ Succ(g) \in Gens
BY MaxGenAssumption DEF Succ, Gens

\* The generation of a store that loaded nothing is a generation.
LEMMA ZeroType == 0 \in Gens
BY MaxGenAssumption DEF Gens

\* Updates stored over a view give a view.
LEMMA MergeType ==
    ASSUME NEW m \in Views, NEW u \in Views
    PROVE  Merge(m, u) \in Views
BY DEF Merge, Views

\* Empty memory and the absence of a commit have their types.
LEMMA NothingType == Nothing \in Views /\ NoJob \in [blob: Blobs \cup {NoBlob}, updates: Views]
BY DEF Nothing, Views, NoJob

\* A torn slot leaves slots that hold a blob or nothing.
LEMMA TornType ==
    ASSUME TypeOK, NEW b \in Blobs, NEW c \in AfterTornWrite(b)
    PROVE  c \in [Slots -> Blobs \cup {NoBlob}]
BY DEF TypeOK, AfterTornWrite

\* The record that binds a blob is an anchor record.
LEMMA AnchorForType ==
    ASSUME NEW b \in Blobs
    PROVE  AnchorFor(b) \in Anchors
BY DEF AnchorFor, Anchors, Blobs

\* The type invariant and JobInv hold together along every step of the store.
LEMMA TypeInductive ==
    TypeOK /\ JobInv /\ [Next]_vars => TypeOK' /\ JobInv'
<1> SUFFICES ASSUME TypeOK, JobInv, [Next]_vars PROVE TypeOK' /\ JobInv'
    OBVIOUS
<1> USE DEF TypeOK, JobInv
<1>1. CASE OpenFails
    BY <1>1 DEF OpenFails
<1>2. ASSUME NEW readable \in SUBSET Slots, Open(readable)
      PROVE  TypeOK' /\ JobInv'
    <2> DEFINE blob == Load(readable)
    <2>1. blob \in Blobs \cup {NoBlob}
        BY LoadType
    <2>2. CASE OpenFresh(blob)
        BY <1>2, <2>2 DEF Open, OpenFresh
    <2>3. ASSUME BootDecision(blob) \in {"match", "recover"}
          PROVE  blob \in Blobs /\ blob.gen \in Gens
        BY <2>1, <2>3 DEF BootDecision, Blobs
    <2>4. CASE OpenMatch(blob)
        BY <1>2, <2>3, <2>4, AdmissibleView DEF Open, OpenMatch
    <2>5. CASE OpenRecover(blob)
        BY <1>2, <2>3, <2>5, AdmissibleView, NothingType DEF Open, OpenRecover, NoJob
    <2>6. CASE OpenHalts(blob)
        BY <1>2, <2>3, <2>6, ZeroType DEF Open, OpenHalts
    <2> QED
        BY <1>2, <2>2, <2>4, <2>5, <2>6 DEF Open
<1>3. CASE Reanchor
    BY <1>3, NothingType, AnchorForType DEF Reanchor, SetAnchor, SetAnchorFails
<1>4. CASE PutBatchRefused
    BY <1>4 DEF PutBatchRefused, vars
<1>5. CASE PutBatchExhausted
    BY <1>5 DEF PutBatchExhausted
<1>6. ASSUME NEW updates \in Views, NEW nonce \in Nonces, PutBatch(updates, nonce)
      PROVE  TypeOK' /\ JobInv'
    <2> DEFINE blob == Seal(Succ(gen), Merge(mem, updates), nonce)
    <2>1. blob \in Blobs
        <3>1. Succ(gen) \in Gens
            BY <1>6, SuccType DEF PutBatch
        <3>2. Merge(mem, updates) \in [Origins -> Heads \cup {NoNote, BadNote}]
            BY MergeType DEF Views
        <3> QED
            BY <3>1, <3>2 DEF Seal, Blobs
    <2> QED
        BY <1>6, <2>1 DEF PutBatch
<1>7. CASE SaveBlob
    BY <1>7, TornType, NothingType DEF SaveBlob
<1>8. CASE AnchorBlob
    BY <1>8, NothingType, AnchorForType DEF AnchorBlob, SetAnchor, SetAnchorFails
<1>9. CASE Publish
    <2>1. released' \in [Origins -> SUBSET Heads]
        BY <1>9 DEF Publish, Views
    <2>2. gen' \in Gens
        BY <1>9 DEF Publish, Blobs
    <2> QED
        BY <1>9, <2>1, <2>2, MergeType, NothingType DEF Publish
<1>10. CASE Crash
    <2>1. card' \in [Slots -> Blobs \cup {NoBlob}]
        <3>1. CASE pc = "save"
            <4>1. job.blob \in Blobs /\ card' \in AfterTornWrite(job.blob)
                BY <1>10, <3>1 DEF Crash
            <4> QED
                BY <4>1, TornType
        <3>2. CASE pc # "save"
            BY <1>10, <3>2 DEF Crash
        <3> QED
            BY <3>1, <3>2
    <2> QED
        BY <1>10, <2>1, NothingType, ZeroType DEF Crash
<1>11. ASSUME NEW s \in Slots, NEW blob \in sealed \cup Planted \cup {NoBlob}, Tamper(s, blob)
       PROVE  TypeOK' /\ JobInv'
    BY <1>11, PlantedAssumption DEF Tamper
<1>12. CASE UNCHANGED vars
    BY <1>12 DEF vars
<1> QED
    BY <1>1, <1>2, <1>3, <1>4, <1>5, <1>6, <1>7, <1>8, <1>9, <1>10, <1>11, <1>12 DEF Next

\* A unit that was never used is in a state of the right type.
LEMMA TypeInit == Init => TypeOK /\ JobInv
<1>1. Fresh \in Anchors
    BY ZeroType DEF Fresh, Anchors
<1> QED
    BY <1>1, ZeroType, NothingType DEF Init, TypeOK, JobInv

\* Every variable of the store keeps its type through commits, boots, crashes,
\* failed writes and tampering: in particular the generation stays a uint32 and
\* RAM never holds a note that did not restore.
THEOREM TypeCorrect == Spec => []TypeOK
BY TypeInit, TypeInductive, PTL DEF Spec

-----------------------------------------------------------------------------
(* The order on views *)

\* What replaces a head that replaced another may replace it too.
LEMMA ExtendsTransitive ==
    ASSUME NEW a \in Heads \cup {NoNote}, NEW b \in Heads \cup {NoNote},
           NEW c \in Heads \cup {NoNote}, Extends(a, b), Extends(b, c)
    PROVE  Extends(a, c)
BY FollowsAssumption, NoNoteAssumption DEF Extends

\* A view may stay as it is.
LEMMA ExtendsReflexive ==
    ASSUME NEW v \in Views
    PROVE  ExtendsAll(v, v)
BY FollowsAssumption DEF ExtendsAll, Extends, Views

\* The anchored view is a view: the anchor names an admissible blob.
LEMMA AnchoredType ==
    ASSUME TypeOK, AnchorInv, SealedInv
    PROVE  Anchored \in Views
<1>1. CASE anchor.bound
    <2>1. anchor.hash \in sealed /\ anchor.hash \in Blobs
        BY <1>1 DEF AnchorInv, TypeOK
    <2> QED
        BY <1>1, <2>1, AdmissibleView DEF SealedInv, Anchored
<1>2. CASE ~anchor.bound
    BY <1>2, NothingType DEF Anchored
<1> QED
    BY <1>1, <1>2

\* ReleasedInv in terms of this module's own Extends and Agree.
LEMMA ReleasedInvMeaning ==
    ReleasedInv <=>
        /\ \A o \in Origins : \A h \in released[o] : Extends(Anchored[o], h)
        /\ \A o \in Origins : \A a, b \in released[o] : Agree(a, b)
BY DEF ReleasedInv, View!ReleasedInView, View!NoSplitView, View!Extends, Extends,
       View!Agree, Agree

-----------------------------------------------------------------------------
(* The part of the invariant about durable state *)

DurableInv == AnchorInv /\ SealedInv /\ CardInv /\ ReleasedInv

\* Steps that leave the anchor and the sealed blobs alone and put only sealed
\* blobs, or nothing, into slots.
LEMMA DurableFrame ==
    ASSUME DurableInv, UNCHANGED <<anchor, sealed, released>>,
           \A s \in Slots : card'[s] \in sealed \cup {NoBlob}
    PROVE  DurableInv' /\ Anchored' = Anchored
<1>1. Anchored' = Anchored
    BY DEF Anchored
<1>2. ReleasedInv'
    BY <1>1 DEF DurableInv, ReleasedInv, View!ReleasedInView, View!NoSplitView,
                View!Extends, View!Agree
<1> QED
    BY <1>1, <1>2 DEF DurableInv, AnchorInv, SealedInv, CardInv

\* An anchor write, landed or not, of a sealed blob one generation ahead: the
\* anchored view moves forward to it and nothing is ahead of the anchor then.
LEMMA DurableAnchor ==
    ASSUME TypeOK, DurableInv,
           NEW b \in sealed, b.gen = anchor.gen + 1,
           anchor' \in {anchor, AnchorFor(b)},
           UNCHANGED <<card, sealed, released>>
    PROVE  /\ DurableInv'
           /\ ExtendsAll(Anchored', Anchored)
           /\ anchor' = AnchorFor(b) => Anchored' = b.states /\ Anchored' \in Views
<1>0. b \in Blobs /\ b.gen \in Nat /\ anchor.gen \in Nat /\ Anchored \in Views
    BY AnchoredType DEF TypeOK, DurableInv, Blobs, Anchors, Gens
<1>1. CASE anchor' = anchor
    <2>1. Anchored' = Anchored
        BY <1>1 DEF Anchored
    <2>2. ExtendsAll(Anchored', Anchored)
        BY <1>0, <2>1, ExtendsReflexive
    <2>3. DurableInv'
        BY <1>1, DurableFrame DEF DurableInv, CardInv
    <2>4. ASSUME anchor' = AnchorFor(b)
          PROVE  FALSE
        BY <1>0, <1>1, <2>4 DEF AnchorFor
    <2> QED
        BY <2>2, <2>3, <2>4
<1>2. CASE anchor' = AnchorFor(b)
    <2>1. Anchored' = b.states /\ anchor'.gen = b.gen /\ anchor'.bound /\ anchor'.hash = b
        BY <1>2 DEF Anchored, AnchorFor
    <2>2. b.states \in Views /\ ExtendsAll(b.states, Anchored)
        BY <1>0, AdmissibleView DEF DurableInv, SealedInv
    <2>3. AnchorInv' /\ CardInv'
        BY <2>1 DEF DurableInv, AnchorInv, CardInv
    <2>4. SealedInv'
        <3> SUFFICES ASSUME NEW c \in sealed
                     PROVE  /\ Admissible(c.states)
                            /\ 0 < c.gen /\ c.gen <= anchor'.gen + 1
                            /\ c.gen = anchor'.gen + 1 => ExtendsAll(c.states, Anchored')
            BY DEF SealedInv, Admissible, ExtendsAll, Extends
        <3>1. c.gen \in Nat /\ 0 < c.gen /\ c.gen <= anchor.gen + 1 /\ Admissible(c.states)
            BY DEF DurableInv, SealedInv, TypeOK, Blobs, Gens
        <3>2. c.gen <= anchor'.gen + 1 /\ c.gen # anchor'.gen + 1
            BY <1>0, <2>1, <3>1
        <3> QED
            BY <3>1, <3>2
    <2>5. ReleasedInv'
        <3>1. ASSUME NEW o \in Origins, NEW h \in released[o]
              PROVE  Extends(Anchored'[o], h)
            <4>1. Extends(Anchored[o], h) /\ Extends(Anchored'[o], Anchored[o])
                BY <2>1, <2>2, <3>1, ReleasedInvMeaning DEF DurableInv, ExtendsAll
            <4>2. h \in Heads /\ Anchored[o] \in Heads \cup {NoNote}
                  /\ Anchored'[o] \in Heads \cup {NoNote}
                BY <1>0, <2>1, <2>2, <3>1 DEF TypeOK, Views
            <4> QED
                BY <4>1, <4>2, ExtendsTransitive
        <3>2. \A o \in Origins : \A x, y \in released[o] : Agree(x, y)
            BY ReleasedInvMeaning DEF DurableInv
        <3> QED
            BY <3>1, <3>2 DEF ReleasedInv, View!ReleasedInView, View!NoSplitView,
                View!Extends, Extends, View!Agree, Agree
    <2> QED
        BY <2>1, <2>2, <2>3, <2>4, <2>5 DEF DurableInv
<1> QED
    BY <1>1, <1>2

-----------------------------------------------------------------------------
(* The inductive invariant *)

\* Slots that hold sealed blobs still do after a write of one, torn or not.
LEMMA TornSlots ==
    ASSUME TypeOK, CardInv, NEW b \in sealed,
           card' \in AfterTornWrite(b) \/ card' = [card EXCEPT ![SlotOf(b.gen)] = b]
    PROVE  \A s \in Slots : card'[s] \in sealed \cup {NoBlob}
<1>1. card \in [Slots -> Blobs \cup {NoBlob}]
    BY DEF TypeOK
<1>2. PICK c : card' = [card EXCEPT ![SlotOf(b.gen)] = c]
               /\ c \in {card[SlotOf(b.gen)], b, NoBlob}
    BY DEF AfterTornWrite
<1> SUFFICES ASSUME NEW s \in Slots PROVE card'[s] \in sealed \cup {NoBlob}
    OBVIOUS
<1>3. card'[s] \in {card[s], b, NoBlob}
    BY <1>1, <1>2
<1> QED
    BY <1>3 DEF CardInv

\* What a boot may find: nothing, or a sealed blob, which is then decided on.
LEMMA BootFacts ==
    ASSUME TypeOK, DurableInv, NEW readable \in SUBSET Slots,
           NEW blob, blob = Load(readable)
    PROVE  /\ BootDecision(blob) = "fresh" => ~anchor.bound /\ anchor.gen = 0
           /\ BootDecision(blob) = "match" => anchor.bound /\ blob = anchor.hash
                                              /\ blob.gen = anchor.gen
           /\ BootDecision(blob) = "recover" => blob \in sealed
                                                /\ blob.gen = anchor.gen + 1
<1>1. blob \in sealed \cup {NoBlob}
    BY LoadFromCard DEF DurableInv, CardInv, Slots
<1>2. anchor.gen \in Gens
    BY DEF TypeOK, Anchors
<1>3. BootDecision(blob) = "fresh" => ~anchor.bound /\ anchor.gen = 0
    BY DEF BootDecision
<1>4. BootDecision(blob) = "match" => anchor.bound /\ blob = anchor.hash
                                      /\ blob.gen = anchor.gen
    BY DEF BootDecision, MatchesAnchor
<1>5. BootDecision(blob) = "recover" => blob # NoBlob /\ anchor.gen # MaxGen
                                        /\ blob.gen = Succ(anchor.gen)
    BY DEF BootDecision, AheadByOne
<1> QED
    BY <1>1, <1>2, <1>3, <1>4, <1>5, SuccType

\* Open decides on sealed blobs only, and brings up a store that holds the
\* anchored view, one that is about to anchor what it holds, or a halted one.
LEMMA OpenPreserves ==
    ASSUME TypeOK, StoreInv, NEW readable \in SUBSET Slots, Open(readable)
    PROVE  StoreInv'
<1> DEFINE blob == Load(readable)
<1>1. DurableInv
    BY DEF StoreInv, DurableInv
<1>2. DurableInv' /\ Anchored' = Anchored
    BY <1>1, DurableFrame DEF Open, DurableInv, CardInv
<1>3. LiveInv'
    <2>1. CASE OpenFresh(blob)
        <3>1. pc' = "ready" /\ Anchored = Nothing /\ anchor.gen = 0
            BY <1>1, <2>1, BootFacts DEF OpenFresh, Anchored
        <3>2. mem = Nothing /\ gen = 0
            BY DEF Open, StoreInv, LiveInv
        <3> QED
            BY <1>2, <2>1, <3>1, <3>2 DEF OpenFresh, Open, LiveInv
    <2>2. CASE OpenMatch(blob)
        <3>1. pc' = "ready" /\ mem' = Anchored /\ gen' = anchor.gen
            BY <1>1, <2>2, BootFacts DEF OpenMatch, Anchored
        <3> QED
            BY <1>2, <2>2, <3>1 DEF Open, LiveInv
    <2>3. CASE OpenRecover(blob)
        <3>1. blob \in sealed /\ blob.gen = anchor.gen + 1
            BY <1>1, <2>3, BootFacts DEF OpenRecover
        <3>2. pc' = "reanchor" /\ job'.blob = blob /\ mem' = blob.states /\ gen' = blob.gen
            BY <2>3 DEF OpenRecover, NoJob
        <3>3. ~halted'
            BY <2>3 DEF OpenRecover, Open, StoreInv, LiveInv
        <3> QED
            BY <1>2, <3>1, <3>2, <3>3 DEF Open, LiveInv
    <2>4. CASE OpenHalts(blob)
        BY <2>4 DEF OpenHalts, LiveInv
    <2> QED
        BY <2>1, <2>2, <2>3, <2>4 DEF Open
<1> QED
    BY <1>2, <1>3 DEF StoreInv, DurableInv

\* The blob PutBatch seals is one generation ahead and extends the anchored view.
LEMMA PutBatchPreserves ==
    ASSUME TypeOK, StoreInv, NEW updates \in Views, NEW nonce \in Nonces,
           PutBatch(updates, nonce)
    PROVE  StoreInv'
<1> DEFINE blob == Seal(Succ(gen), Merge(mem, updates), nonce)
<1>1. mem = Anchored /\ gen = anchor.gen /\ anchor.gen \in Nat /\ pc = "ready" /\ ~halted
    BY DEF PutBatch, StoreInv, LiveInv, TypeOK, Anchors, Gens
<1>2. blob.gen = anchor.gen + 1 /\ blob.states = Merge(mem, updates)
    BY <1>1, SuccType DEF PutBatch, Seal, TypeOK
<1>3. /\ Anchored' = Anchored
      /\ sealed' = sealed \cup {blob} /\ job'.blob = blob /\ job'.updates = updates
      /\ pc' = "save"
      /\ UNCHANGED <<card, anchor, mem, gen, halted, released>>
    BY DEF PutBatch, Anchored
<1>4. AnchorInv' /\ CardInv'
    BY <1>3 DEF StoreInv, AnchorInv, CardInv
<1>5. SealedInv'
    <2>1. Admissible(blob.states)
        <3>1. Merge(mem, updates) \in Views
            BY MergeType DEF TypeOK
        <3> QED
            BY <1>2, <3>1, SentinelAssumption DEF Views, Admissible
    <2>2. ExtendsAll(blob.states, Anchored)
        BY <1>1, <1>2 DEF PutBatch
    <2>3. ASSUME NEW b \in sealed'
          PROVE  /\ Admissible(b.states)
                 /\ 0 < b.gen /\ b.gen <= anchor.gen + 1
                 /\ b.gen = anchor.gen + 1 => ExtendsAll(b.states, Anchored)
        <3>1. CASE b = blob
            BY <1>1, <1>2, <2>1, <2>2, <3>1
        <3>2. CASE b \in sealed
            BY <3>2 DEF StoreInv, SealedInv
        <3> QED
            BY <1>3, <2>3, <3>1, <3>2
    <2> QED
        BY <1>3, <2>3 DEF SealedInv, Admissible, ExtendsAll, Extends
<1>6. ReleasedInv'
    BY <1>3 DEF StoreInv, ReleasedInv, View!ReleasedInView, View!NoSplitView,
                View!Extends, View!Agree
<1>7. LiveInv'
    <2>1. halted' = FALSE
        BY <1>1, <1>3 DEF TypeOK
    <2> QED
        BY <1>1, <1>2, <1>3, <2>1 DEF LiveInv
<1> QED
    BY <1>4, <1>5, <1>6, <1>7 DEF StoreInv

\* PutBatch releases the cosignatures of the anchored view, never of another one.
LEMMA PublishPreserves ==
    ASSUME TypeOK, StoreInv, Publish
    PROVE  StoreInv'
<1>1. /\ Anchored' = Anchored
      /\ Anchored = Merge(mem, job.updates)
      /\ anchor.gen = job.blob.gen
    BY DEF Publish, StoreInv, LiveInv, Anchored, AnchorFor
<1>2. AnchorInv' /\ SealedInv' /\ CardInv'
    BY <1>1 DEF Publish, StoreInv, AnchorInv, SealedInv, CardInv
<1>3. Anchored \in Views
    BY AnchoredType DEF StoreInv
<1>4. ASSUME NEW o \in Origins, NEW h \in released'[o]
      PROVE  h \in released[o] \/ (h = Anchored[o] /\ h \in Heads)
    BY <1>1, <1>3, <1>4 DEF Publish, Merge, Views
<1>5. \A o \in Origins : \A h \in released[o] : Extends(Anchored[o], h) /\ h \in Heads
    BY ReleasedInvMeaning DEF StoreInv, TypeOK
<1>6. \A o \in Origins : \A a, b \in released[o] : Agree(a, b)
    BY ReleasedInvMeaning DEF StoreInv
<1>7. \A o \in Origins : \A h \in released'[o] : Extends(Anchored[o], h) /\ h \in Heads
    BY <1>4, <1>5, FollowsAssumption, NoNoteAssumption DEF Extends
<1>8. ASSUME NEW o \in Origins, NEW a \in released'[o], NEW b \in released'[o]
      PROVE  Agree(a, b)
    <2>1. CASE a \in released[o] /\ b \in released[o]
        BY <1>6, <2>1
    <2>2. CASE a = Anchored[o]
        BY <1>7, <1>8, <2>2, NoNoteAssumption DEF Extends, Agree
    <2>3. CASE b = Anchored[o]
        BY <1>7, <1>8, <2>3, NoNoteAssumption DEF Extends, Agree
    <2> QED
        BY <1>4, <1>8, <2>1, <2>2, <2>3
<1>9. ReleasedInv'
    BY <1>1, <1>7, <1>8 DEF ReleasedInv, View!ReleasedInView, View!NoSplitView,
                View!Extends, Extends, View!Agree, Agree
<1>10. LiveInv'
    BY <1>1 DEF Publish, StoreInv, LiveInv
<1> QED
    BY <1>2, <1>9, <1>10 DEF StoreInv

\* An anchor write that succeeded, or failed having landed or not, of the blob
\* that Open recovers or PutBatch committed to the card.
LEMMA AnchorOutcome ==
    ASSUME TypeOK, StoreInv, pc \in {"reanchor", "anchor"},
           SetAnchor(AnchorFor(job.blob)) \/ SetAnchorFails(AnchorFor(job.blob)),
           UNCHANGED <<card, sealed, released>>
    PROVE  /\ DurableInv'
           /\ ExtendsAll(Anchored', Anchored)
           /\ anchor' = AnchorFor(job.blob) =>
                  Anchored' = job.blob.states /\ Anchored' \in Views
           /\ job.blob.gen = anchor.gen + 1
<1>1. job.blob \in sealed /\ job.blob.gen = anchor.gen + 1 /\ DurableInv
    BY DEF StoreInv, LiveInv, DurableInv
<1>2. anchor' \in {anchor, AnchorFor(job.blob)}
    BY DEF SetAnchor, SetAnchorFails
<1> QED
    BY <1>1, <1>2, DurableAnchor

\* The rest of Open: the recovered blob becomes the anchored one, or the store halts.
LEMMA ReanchorPreserves ==
    ASSUME TypeOK, StoreInv, Reanchor
    PROVE  StoreInv'
<1>1. /\ DurableInv'
      /\ anchor' = AnchorFor(job.blob) => Anchored' = job.blob.states
    BY AnchorOutcome DEF Reanchor
<1>2. mem' = job.blob.states /\ gen' = job.blob.gen /\ pc' = "ready"
    BY DEF Reanchor, StoreInv, LiveInv
<1>3. CASE SetAnchor(AnchorFor(job.blob))
    <2>1. anchor' = AnchorFor(job.blob) /\ anchor'.gen = job.blob.gen
        BY <1>3 DEF SetAnchor, AnchorFor
    <2>2. LiveInv'
        BY <1>1, <1>2, <2>1 DEF LiveInv
    <2> QED
        BY <1>1, <2>2 DEF StoreInv, DurableInv
<1>4. CASE halted' = TRUE
    BY <1>1, <1>2, <1>4 DEF StoreInv, DurableInv, LiveInv
<1> QED
    BY <1>3, <1>4 DEF Reanchor

\* S2 moves the anchor to the blob of the commit, or the store halts.
LEMMA AnchorBlobPreserves ==
    ASSUME TypeOK, StoreInv, AnchorBlob
    PROVE  StoreInv'
<1>1. /\ DurableInv'
      /\ ExtendsAll(Anchored', Anchored)
      /\ anchor' = AnchorFor(job.blob) => Anchored' = job.blob.states
    BY AnchorOutcome DEF AnchorBlob
<1>2. CASE SetAnchor(AnchorFor(job.blob)) /\ pc' = "publish" /\ UNCHANGED <<halted, job>>
    <2>1. mem = Anchored /\ ~halted /\ job.blob \in sealed
          /\ job.blob.states = Merge(mem, job.updates)
        BY DEF AnchorBlob, StoreInv, LiveInv
    <2>2. \A o \in Origins : \A h \in released[o] : Extends(mem[o], h)
        BY <2>1, ReleasedInvMeaning DEF StoreInv
    <2>3. halted' = FALSE
        BY <1>2, <2>1 DEF TypeOK
    <2>4. LiveInv'
        BY <1>1, <1>2, <2>1, <2>2, <2>3
        DEF AnchorBlob, LiveInv, SetAnchor, AnchorFor, ExtendsAll, Extends
    <2> QED
        BY <1>1, <2>4 DEF StoreInv, DurableInv
<1>3. CASE pc' = "ready" /\ halted' = TRUE
    BY <1>1, <1>3 DEF StoreInv, DurableInv, LiveInv
<1> QED
    BY <1>2, <1>3 DEF AnchorBlob

\* S1 puts the sealed blob, a torn one or nothing new into its slot.
LEMMA SaveBlobPreserves ==
    ASSUME TypeOK, StoreInv, SaveBlob
    PROVE  StoreInv'
<1>1. job.blob \in sealed /\ DurableInv
    BY DEF SaveBlob, StoreInv, LiveInv, DurableInv
<1>2. \A s \in Slots : card'[s] \in sealed \cup {NoBlob}
    BY <1>1, TornSlots DEF SaveBlob, DurableInv
<1>3. DurableInv' /\ Anchored' = Anchored
    BY <1>1, <1>2, DurableFrame DEF SaveBlob
<1>4. LiveInv'
    <2>1. CASE pc' = "anchor" /\ UNCHANGED <<halted, job>>
        BY <1>3, <2>1 DEF SaveBlob, StoreInv, LiveInv
    <2>2. CASE pc' = "ready" /\ halted' = TRUE
        BY <2>2 DEF LiveInv
    <2> QED
        BY <2>1, <2>2 DEF SaveBlob
<1> QED
    BY <1>3, <1>4 DEF StoreInv, DurableInv

\* A power cut loses RAM and at most the slot under write.
LEMMA CrashPreserves ==
    ASSUME TypeOK, StoreInv, Crash
    PROVE  StoreInv'
<1>1. \A s \in Slots : card'[s] \in sealed \cup {NoBlob}
    <2>1. CASE pc = "save"
        BY <2>1, TornSlots DEF Crash, StoreInv, LiveInv
    <2>2. CASE pc # "save"
        BY <2>2 DEF Crash, StoreInv, CardInv
    <2> QED
        BY <2>1, <2>2
<1>2. DurableInv'
    BY <1>1, DurableFrame DEF Crash, StoreInv, DurableInv
<1>3. LiveInv'
    BY DEF Crash, LiveInv
<1> QED
    BY <1>2, <1>3 DEF StoreInv, DurableInv

\* The invariant is kept by every step, when only this unit has sealed blobs.
LEMMA StoreInductive ==
    ASSUME Planted = {}
    PROVE  TypeOK /\ StoreInv /\ [Next]_vars => StoreInv'
<1> SUFFICES ASSUME TypeOK, StoreInv, [Next]_vars PROVE StoreInv'
    OBVIOUS
<1>0. ASSUME UNCHANGED <<anchor, sealed, released, pc, mem, gen, halted, job>>,
             \A s \in Slots : card'[s] \in sealed \cup {NoBlob}
      PROVE  StoreInv'
    <2>1. DurableInv' /\ Anchored' = Anchored
        BY <1>0, DurableFrame DEF StoreInv, DurableInv
    <2>2. LiveInv'
        BY <1>0, <2>1 DEF StoreInv, LiveInv, AnchorFor, ExtendsAll, Extends, Merge
    <2> QED
        BY <2>1, <2>2 DEF StoreInv, DurableInv
<1>1. CASE OpenFails
    <2>1. DurableInv'
        BY <1>1, DurableFrame DEF OpenFails, StoreInv, DurableInv, CardInv
    <2>2. LiveInv'
        BY <1>1 DEF OpenFails, LiveInv
    <2> QED
        BY <2>1, <2>2 DEF StoreInv, DurableInv
<1>2. ASSUME NEW readable \in SUBSET Slots, Open(readable)
      PROVE  StoreInv'
    BY <1>2, OpenPreserves
<1>3. CASE Reanchor
    BY <1>3, ReanchorPreserves
<1>4. CASE PutBatchRefused \/ UNCHANGED vars
    BY <1>0, <1>4 DEF PutBatchRefused, vars, StoreInv, CardInv
<1>5. CASE PutBatchExhausted
    <2>1. DurableInv'
        BY <1>5, DurableFrame DEF PutBatchExhausted, StoreInv, DurableInv, CardInv
    <2>2. LiveInv'
        BY <1>5 DEF PutBatchExhausted, LiveInv
    <2> QED
        BY <2>1, <2>2 DEF StoreInv, DurableInv
<1>6. ASSUME NEW updates \in Views, NEW nonce \in Nonces, PutBatch(updates, nonce)
      PROVE  StoreInv'
    BY <1>6, PutBatchPreserves
<1>7. CASE SaveBlob
    BY <1>7, SaveBlobPreserves
<1>8. CASE AnchorBlob
    BY <1>8, AnchorBlobPreserves
<1>9. CASE Publish
    BY <1>9, PublishPreserves
<1>10. CASE Crash
    BY <1>10, CrashPreserves
<1>11. ASSUME NEW s \in Slots, NEW blob \in sealed \cup Planted \cup {NoBlob}, Tamper(s, blob)
       PROVE  StoreInv'
    <2>1. \A t \in Slots : card'[t] \in sealed \cup {NoBlob}
        BY <1>11 DEF Tamper, TypeOK, StoreInv, CardInv
    <2> QED
        BY <1>0, <1>11, <2>1 DEF Tamper
<1> QED
    BY <1>1, <1>2, <1>3, <1>4, <1>5, <1>6, <1>7, <1>8, <1>9, <1>10, <1>11 DEF Next

\* A unit that was never used satisfies the invariant.
LEMMA StoreInit == Init => StoreInv
<1> SUFFICES ASSUME Init PROVE StoreInv
    OBVIOUS
<1>1. AnchorInv /\ SealedInv /\ CardInv
    BY DEF Init, Fresh, AnchorInv, SealedInv, CardInv, Slots
<1>2. ReleasedInv
    BY ReleasedInvMeaning DEF Init
<1>3. LiveInv
    BY DEF Init, LiveInv
<1> QED
    BY <1>1, <1>2, <1>3 DEF StoreInv

\* The inductive invariant holds of every behaviour of a unit whose state key no
\* other firmware has used, under every combination of the modelled faults.
THEOREM StoreInvariant ==
    ASSUME Planted = {}
    PROVE  Spec => []StoreInv
<1>1. Init => StoreInv
    BY StoreInit
<1>2. TypeOK /\ StoreInv /\ [Next]_vars => StoreInv'
    BY StoreInductive
<1> QED
    BY <1>1, <1>2, TypeCorrect, PTL DEF Spec

-----------------------------------------------------------------------------
(* What follows from it *)

\* No split view: whatever blobs the card is made to hold between boots, whichever
\* write fails and wherever power is cut, no two cosignatures that PutBatch let out
\* for one log are inconsistent.
THEOREM StoreNoSplitView ==
    ASSUME Planted = {}
    PROVE  Spec => []NoSplitView
<1>1. StoreInv => NoSplitView
    BY DEF StoreInv, ReleasedInv, NoSplitView
<1> QED
    BY <1>1, StoreInvariant, PTL

\* A store that is not halted serves the anchored view and holds, for every log, a
\* head that extends every head it ever let out (ROLLBACK.md, Invariant).
THEOREM StoreServesCommitted ==
    ASSUME Planted = {}
    PROVE  Spec => []ServesCommitted
<1>1. TypeOK /\ StoreInv => ServesCommitted
    <2> SUFFICES ASSUME TypeOK, StoreInv, Serving, ~halted
                 PROVE  /\ pc # "publish" => mem = Anchored /\ gen = anchor.gen
                        /\ ExtendsAll(Anchored, mem)
                        /\ \A o \in Origins : \A h \in released[o] : Extends(mem[o], h)
        BY DEF ServesCommitted
    <2>1. CASE pc = "publish"
        BY <2>1 DEF StoreInv, LiveInv
    <2>2. CASE pc # "publish"
        <3>1. mem = Anchored /\ gen = anchor.gen
            BY <2>2 DEF Serving, StoreInv, LiveInv
        <3>2. Anchored \in Views
            BY AnchoredType DEF StoreInv
        <3> QED
            BY <3>1, <3>2, ExtendsReflexive, ReleasedInvMeaning DEF StoreInv
    <2> QED
        BY <2>1, <2>2
<1> QED
    BY <1>1, StoreInvariant, TypeCorrect, PTL

\* Every step of the store is a step of ConsistentView, or leaves it unchanged.
LEMMA StoreStepRefines ==
    ASSUME Planted = {}
    PROVE  TypeOK /\ StoreInv /\ [Next]_vars => [View!ViewNext]_(View!viewVars)
<1> SUFFICES ASSUME TypeOK, StoreInv, [Next]_vars
             PROVE  View!ViewNext \/ UNCHANGED <<Anchored, released>>
    BY DEF View!viewVars
<1>1. ASSUME pc \in {"reanchor", "anchor"},
             SetAnchor(AnchorFor(job.blob)) \/ SetAnchorFails(AnchorFor(job.blob)),
             UNCHANGED <<card, sealed, released>>
      PROVE  View!ViewNext \/ UNCHANGED <<Anchored, released>>
    <2>1. CASE anchor' = anchor
        BY <1>1, <2>1 DEF Anchored
    <2>2. CASE anchor' = AnchorFor(job.blob)
        <3>1. Anchored' \in Views /\ ExtendsAll(Anchored', Anchored)
            BY <1>1, <2>2, AnchorOutcome
        <3>2. View!Advance
            BY <1>1, <3>1 DEF View!Advance, View!Views, Views, View!ExtendsAll, ExtendsAll,
                              View!Extends, Extends
        <3> QED
            BY <3>2 DEF View!ViewNext
    <2> QED
        BY <1>1, <2>1, <2>2 DEF SetAnchor, SetAnchorFails
<1>2. CASE Reanchor \/ AnchorBlob
    BY <1>1, <1>2 DEF Reanchor, AnchorBlob
<1>3. CASE Publish
    <2> DEFINE os == {o \in Origins : job.updates[o] # NoNote}
    <2>1. Anchored = Merge(mem, job.updates) /\ Anchored' = Anchored
        BY <1>3 DEF Publish, StoreInv, LiveInv, Anchored, AnchorFor
    <2>2. \A o \in os : Anchored[o] = job.updates[o]
        BY <2>1 DEF Merge
    <2>3. released' = [o \in Origins |-> IF o \in os THEN released[o] \cup {Anchored[o]}
                                                     ELSE released[o]]
        <3>1. \A o \in Origins : released[o] \cup ({job.updates[o]} \ {NoNote}) =
                  IF o \in os THEN released[o] \cup {Anchored[o]} ELSE released[o]
            BY <2>2
        <3> QED
            BY <1>3, <3>1 DEF Publish
    <2>4. View!Release(os)
        BY <2>1, <2>2, <2>3 DEF View!Release
    <2> QED
        BY <2>4 DEF View!ViewNext
<1>4. CASE UNCHANGED <<anchor, released>>
    BY <1>4 DEF Anchored
<1> QED
    BY <1>2, <1>3, <1>4 DEF Next, OpenFails, Open, PutBatchRefused, PutBatchExhausted,
                           PutBatch, SaveBlob, Crash, Tamper, vars

\* The store keeps the promise of ConsistentView: the anchored view is the one view
\* that only moves forward, across boots, and only it is let out.
THEOREM StoreImplementsConsistentView ==
    ASSUME Planted = {}
    PROVE  Spec => ImplementsConsistentView
<1>1. Init => View!ViewInit
    BY DEF Init, Fresh, Anchored, View!ViewInit, View!Nothing, Nothing
<1>2. TypeOK /\ StoreInv /\ [Next]_vars => [View!ViewNext]_(View!viewVars)
    BY StoreStepRefines
<1> QED
    BY <1>1, <1>2, TypeCorrect, StoreInvariant, PTL
    DEF Spec, ImplementsConsistentView, View!ViewSpec

-----------------------------------------------------------------------------
(* Notes that do not restore *)

\* What admit let through: the anchored blob, and every blob on its way to the
\* anchor, restores note by note.
AdmittedInv ==
    /\ anchor.bound => anchor.hash \in Blobs /\ Admissible(anchor.hash.states)
    /\ pc \in {"reanchor", "save", "anchor", "publish"} => Admissible(job.blob.states)

\* Only an admitted blob is handed to SetAnchor, by Open or by PutBatch.
LEMMA AdmittedInductive ==
    TypeOK /\ JobInv /\ AdmittedInv /\ [Next]_vars => AdmittedInv'
<1> SUFFICES ASSUME TypeOK, JobInv, AdmittedInv, [Next]_vars PROVE AdmittedInv'
    OBVIOUS
<1> USE DEF AdmittedInv
<1>1. ASSUME NEW readable \in SUBSET Slots, Open(readable)
      PROVE  AdmittedInv'
    BY <1>1 DEF Open, OpenFresh, OpenMatch, OpenRecover, OpenHalts, NoJob, Admissible
<1>2. CASE Reanchor \/ AnchorBlob
    <2>1. job.blob \in Blobs /\ Admissible(job.blob.states)
        BY <1>2 DEF Reanchor, AnchorBlob, JobInv
    <2>2. anchor' \in {anchor, AnchorFor(job.blob)}
        BY <1>2 DEF Reanchor, AnchorBlob, SetAnchor, SetAnchorFails
    <2>3. anchor'.bound => anchor'.hash \in Blobs /\ Admissible(anchor'.hash.states)
        BY <2>1, <2>2 DEF AnchorFor
    <2>4. pc' \in {"ready", "publish"} /\ (pc' = "publish" => job' = job)
        BY <1>2 DEF Reanchor, AnchorBlob
    <2> QED
        BY <2>1, <2>3, <2>4 DEF Admissible
<1>3. ASSUME NEW updates \in Views, NEW nonce \in Nonces, PutBatch(updates, nonce)
      PROVE  AdmittedInv'
    <2>1. job'.blob.states = Merge(mem, updates) /\ anchor' = anchor
        BY <1>3 DEF PutBatch, Seal
    <2>2. Merge(mem, updates) \in Views
        BY MergeType DEF TypeOK
    <2>3. \A o \in Origins : job'.blob.states[o] # BadNote
        BY <2>1, <2>2, SentinelAssumption DEF Views
    <2> QED
        BY <2>1, <2>3 DEF Admissible
<1>4. CASE OpenFails \/ PutBatchRefused \/ PutBatchExhausted \/ UNCHANGED vars
    BY <1>4 DEF OpenFails, PutBatchRefused, PutBatchExhausted, vars, Admissible
<1>5. CASE SaveBlob \/ Publish \/ Crash
    BY <1>5 DEF SaveBlob, Publish, Crash, Admissible
<1>6. ASSUME NEW s \in Slots, NEW blob \in sealed \cup Planted \cup {NoBlob}, Tamper(s, blob)
      PROVE  AdmittedInv'
    BY <1>6 DEF Tamper, Admissible
<1> QED
    BY <1>1, <1>2, <1>3, <1>4, <1>5, <1>6 DEF Next

\* A note that does not restore is neither served nor anchored, even when other
\* firmware with the same key sealed it and the card was made to hold it at the
\* generation Open expects: no assumption on Planted is needed.
THEOREM StoreNeverAdoptsBadNote == Spec => []BadNoteNeverAdopted
<1>1. Init => AdmittedInv
    BY DEF Init, AdmittedInv, Fresh
<1>2. TypeOK /\ AdmittedInv => BadNoteNeverAdopted
    <2> SUFFICES ASSUME TypeOK, AdmittedInv, NEW o \in Origins
                 PROVE  mem[o] # BadNote /\ Anchored[o] # BadNote
        BY DEF BadNoteNeverAdopted
    <2>1. mem[o] # BadNote
        BY SentinelAssumption DEF TypeOK, Views
    <2>2. Anchored[o] # BadNote
        BY SentinelAssumption DEF AdmittedInv, Anchored, Admissible, Nothing
    <2> QED
        BY <2>1, <2>2
<1> QED
    BY <1>1, <1>2, TypeInit, TypeInductive, AdmittedInductive, PTL DEF Spec

-----------------------------------------------------------------------------
(* The slots, as long as nobody replaces them *)

\* Every blob sits in the slot of its generation, the anchored one among them,
\* and so does the blob an anchor write is about to bind.
SlotsInv ==
    /\ \A s \in Slots : card[s] # NoBlob => SlotOf(card[s].gen) = s
    /\ anchor.bound => card[SlotOf(anchor.gen)] = anchor.hash
    /\ pc \in {"reanchor", "anchor"} => card[SlotOf(job.blob.gen)] = job.blob

\* Successive generations go to different slots.
LEMMA SlotsAlternate ==
    ASSUME NEW g \in Nat
    PROVE  SlotOf(g) \in Slots /\ SlotOf(g + 1) \in Slots /\ SlotOf(g + 1) # SlotOf(g)
BY DEF SlotOf, Slots

\* A write of a blob, torn or not, disturbs only the slot of its generation.
LEMMA WriteSlots ==
    ASSUME TypeOK, NEW b \in Blobs,
           card' \in AfterTornWrite(b) \/ card' = [card EXCEPT ![SlotOf(b.gen)] = b]
    PROVE  \A s \in Slots :
               /\ card'[s] \in {card[s], b, NoBlob}
               /\ s # SlotOf(b.gen) => card'[s] = card[s]
               /\ card'[s] = b => card[s] = b \/ s = SlotOf(b.gen)
<1>1. card \in [Slots -> Blobs \cup {NoBlob}]
    BY DEF TypeOK
<1>2. PICK c : card' = [card EXCEPT ![SlotOf(b.gen)] = c]
               /\ c \in {card[SlotOf(b.gen)], b, NoBlob}
    BY DEF AfterTornWrite
<1> QED
    BY <1>1, <1>2

\* A commit or a power cut leaves the anchored blob in its slot: the write goes
\* to the other one.
LEMMA WriteKeepsSlots ==
    ASSUME TypeOK, StoreInv, SlotsInv, pc = "save", UNCHANGED anchor,
           card' \in AfterTornWrite(job.blob)
               \/ card' = [card EXCEPT ![SlotOf(job.blob.gen)] = job.blob]
    PROVE  /\ \A s \in Slots : card'[s] # NoBlob => SlotOf(card'[s].gen) = s
           /\ anchor'.bound => card'[SlotOf(anchor'.gen)] = anchor'.hash
<1>1. job.blob \in Blobs /\ job.blob.gen = anchor.gen + 1 /\ anchor.gen \in Nat
    BY DEF StoreInv, LiveInv, TypeOK, Anchors, Gens
<1>2. SlotOf(anchor.gen) \in Slots /\ SlotOf(anchor.gen) # SlotOf(job.blob.gen)
    BY <1>1, SlotsAlternate
<1>3. \A s \in Slots : /\ card'[s] \in {card[s], job.blob, NoBlob}
                       /\ s # SlotOf(job.blob.gen) => card'[s] = card[s]
                       /\ card'[s] = job.blob => card[s] = job.blob \/ s = SlotOf(job.blob.gen)
    BY <1>1, WriteSlots
<1>4. job.blob # NoBlob
    BY <1>1, SentinelAssumption
<1> QED
    BY <1>1, <1>2, <1>3, <1>4 DEF SlotsInv

\* A step that does not change the card behind the unit's back leaves the anchored
\* blob where save put it.
LEMMA SlotsKept ==
    ASSUME TypeOK, StoreInv, SlotsInv, [Next]_vars, pc = "off" => card' = card
    PROVE  SlotsInv'
<1>1. ASSUME NEW readable \in SUBSET Slots, Open(readable)
      PROVE  SlotsInv'
    <2> DEFINE blob == Load(readable)
    <2>1. UNCHANGED <<card, anchor>>
        BY <1>1 DEF Open
    <2>2. CASE OpenRecover(blob)
        <3>1. blob # NoBlob /\ blob \in {card[0], card[1]}
            BY <2>2, LoadFromCard DEF OpenRecover, BootDecision
        <3>2. card[SlotOf(blob.gen)] = blob
            BY <3>1 DEF SlotsInv, Slots
        <3> QED
            BY <2>1, <2>2, <3>2 DEF OpenRecover, NoJob, SlotsInv
    <2>3. CASE pc' = "ready"
        BY <2>1, <2>3 DEF SlotsInv
    <2> QED
        BY <1>1, <2>2, <2>3 DEF Open, OpenFresh, OpenMatch, OpenHalts
<1>2. CASE Reanchor \/ AnchorBlob
    <2>1. card[SlotOf(job.blob.gen)] = job.blob /\ card' = card
        BY <1>2 DEF Reanchor, AnchorBlob, SlotsInv
    <2>2. anchor' \in {anchor, AnchorFor(job.blob)} /\ pc' \in {"ready", "publish"}
        BY <1>2 DEF Reanchor, AnchorBlob, SetAnchor, SetAnchorFails
    <2> QED
        BY <2>1, <2>2 DEF SlotsInv, AnchorFor
<1>3. CASE SaveBlob
    <2>1. /\ \A s \in Slots : card'[s] # NoBlob => SlotOf(card'[s].gen) = s
          /\ anchor'.bound => card'[SlotOf(anchor'.gen)] = anchor'.hash
        BY <1>3, WriteKeepsSlots DEF SaveBlob
    <2>2. pc' = "anchor" => card'[SlotOf(job'.blob.gen)] = job'.blob
        <3>1. job.blob.gen = anchor.gen + 1 /\ anchor.gen \in Nat
            BY <1>3 DEF SaveBlob, StoreInv, LiveInv, TypeOK, Anchors, Gens
        <3>2. SlotOf(job.blob.gen) \in Slots
            BY <3>1, SlotsAlternate
        <3> QED
            BY <1>3, <3>2 DEF SaveBlob, TypeOK
    <2>3. pc' # "reanchor"
        BY <1>3 DEF SaveBlob
    <2> QED
        BY <2>1, <2>2, <2>3 DEF SlotsInv
<1>4. CASE Crash
    <2>1. pc' = "off" /\ anchor' = anchor
        BY <1>4 DEF Crash
    <2>2. CASE pc = "save"
        BY <1>4, <2>1, <2>2, WriteKeepsSlots DEF Crash, SlotsInv
    <2>3. CASE pc # "save"
        BY <1>4, <2>1, <2>3 DEF Crash, SlotsInv
    <2> QED
        BY <2>2, <2>3
<1>5. CASE UNCHANGED <<card, anchor>> /\ pc' \notin {"reanchor", "anchor"}
    BY <1>5 DEF SlotsInv
<1>6. CASE UNCHANGED <<card, anchor, pc, job>>
    BY <1>6 DEF SlotsInv
<1> QED
    BY <1>1, <1>2, <1>3, <1>4, <1>5, <1>6 DEF Next, OpenFails, PutBatchRefused,
        PutBatchExhausted, PutBatch, Publish, Tamper, vars

\* With nobody to replace slots that is every step.
LEMMA SlotsInductive ==
    ASSUME "tamper" \notin Faults
    PROVE  TypeOK /\ StoreInv /\ SlotsInv /\ [Next]_vars => SlotsInv'
<1>1. ASSUME [Next]_vars, pc = "off" PROVE card' = card
    BY <1>1 DEF Next, OpenFails, Open, Reanchor, PutBatchRefused, PutBatchExhausted, PutBatch,
        SaveBlob, AnchorBlob, Publish, Crash, Tamper, vars
<1> QED
    BY <1>1, SlotsKept

\* The slots of a unit that is used as the code intends, at every moment.
LEMMA SlotsInvariant ==
    ASSUME Planted = {}, "tamper" \notin Faults
    PROVE  Spec => [](TypeOK /\ StoreInv /\ SlotsInv)
<1>1. Init => SlotsInv
    BY DEF Init, Fresh, SlotsInv
<1>2. TypeOK /\ StoreInv /\ SlotsInv /\ [Next]_vars => SlotsInv'
    BY SlotsInductive
<1> QED
    BY <1>1, <1>2, TypeCorrect, StoreInvariant, PTL DEF Spec

\* Once a generation is anchored its blob is on the card at every moment, through
\* failed writes and power cuts at any step, until the next one is anchored: a
\* commit never touches the slot that holds it, whatever MaxGen is.
THEOREM StoreKeepsCommittedBlob ==
    ASSUME Planted = {}, "tamper" \notin Faults
    PROVE  Spec => []CommittedBlobOnCard
<1>1. TypeOK /\ SlotsInv => CommittedBlobOnCard
    BY SlotsAlternate DEF TypeOK, Anchors, Gens, SlotsInv, CommittedBlobOnCard
<1> QED
    BY <1>1, SlotsInvariant, PTL

-----------------------------------------------------------------------------
(* Boots *)

\* The boot decision on an undisturbed card: nothing on a unit never anchored,
\* else the anchored blob or the one generation that follows it.
LEMMA BootServes ==
    ASSUME TypeOK, StoreInv, SlotsInv, NEW blob, blob = Load(Slots)
    PROVE  \/ BootDecision(blob) = "fresh"
           \/ BootDecision(blob) \in {"match", "recover"} /\ Admissible(blob.states)
<1>1. anchor.gen \in Nat /\ anchor.gen <= MaxGen /\ MaxGen \in Nat
    BY MaxGenAssumption DEF TypeOK, Anchors, Gens
<1>2. \A s \in Slots : card[s] # NoBlob =>
          /\ card[s] \in sealed /\ card[s].gen \in Nat /\ Admissible(card[s].states)
          /\ 0 < card[s].gen /\ card[s].gen <= anchor.gen + 1 /\ card[s].gen <= MaxGen
          /\ card[s].gen % 2 = s
    BY DEF StoreInv, CardInv, SealedInv, SlotsInv, SlotOf, TypeOK, Blobs, Gens
<1>3. NoBlob \notin sealed
    BY SentinelAssumption DEF TypeOK
<1>4. ASSUME blob # NoBlob, blob.gen = anchor.gen + 1, blob.gen <= MaxGen
      PROVE  BootDecision(blob) = "recover"
    BY <1>1, <1>4 DEF BootDecision, AheadByOne, Succ
<1>5. CASE ~anchor.bound
    <2>1. anchor.gen = 0
        BY <1>5 DEF StoreInv, AnchorInv
    <2>2. card[0] = NoBlob
        BY <1>2, <2>1 DEF Slots
    <2>3. blob = card[1]
        BY <2>2 DEF Load, Slots
    <2>4. card[1] # NoBlob => card[1].gen = anchor.gen + 1
        BY <1>2, <2>1 DEF Slots
    <2>5. card[1] = NoBlob => BootDecision(blob) = "fresh"
        BY <1>5, <2>1, <2>3 DEF BootDecision
    <2> QED
        BY <1>2, <1>4, <2>3, <2>4, <2>5 DEF Slots
<1>6. CASE anchor.bound
    <2> DEFINE here == SlotOf(anchor.gen)
               other == 1 - here
    <2>1. here \in Slots /\ other \in Slots /\ here # other /\ here = anchor.gen % 2
          /\ Slots = {here, other}
        BY <1>1 DEF Slots, SlotOf
    <2>2. card[here] = anchor.hash /\ card[here] # NoBlob /\ card[here].gen = anchor.gen
        BY <1>3, <1>6 DEF StoreInv, AnchorInv, SlotsInv
    <2>3. card[other] # NoBlob => card[other].gen # anchor.gen
        BY <1>1, <1>2, <2>1
    <2>4. CASE card[other] # NoBlob /\ card[other].gen > anchor.gen
        <3>1. card[other].gen = anchor.gen + 1 /\ card[other].gen <= MaxGen
            BY <1>1, <1>2, <2>1, <2>4
        <3>2. blob = card[other]
            BY <1>1, <1>2, <2>1, <2>2, <2>4, <3>1 DEF Load, Slots
        <3> QED
            BY <1>2, <1>4, <2>1, <2>4, <3>1, <3>2
    <2>5. CASE ~(card[other] # NoBlob /\ card[other].gen > anchor.gen)
        <3>1. card[other] # NoBlob => card[other].gen < anchor.gen
            BY <1>1, <1>2, <2>1, <2>3, <2>5
        <3>2. blob = card[here]
            BY <1>1, <1>2, <2>1, <2>2, <3>1 DEF Load, Slots
        <3>3. BootDecision(blob) = "match"
            BY <1>6, <2>2, <3>2 DEF BootDecision, MatchesAnchor
        <3> QED
            BY <1>2, <2>1, <2>2, <3>2, <3>3
    <2> QED
        BY <2>4, <2>5
<1> QED
    BY <1>5, <1>6

\* A boot of a card whose slots nobody replaced, and that can be read, does not halt.
LEMMA BootIsResolved ==
    ASSUME "slotRead" \notin Faults, TypeOK, StoreInv, SlotsInv, [Next]_vars
    PROVE  BootResolves
<1> SUFFICES ASSUME pc = "off", pc' # "off" PROVE ~halted'
    BY DEF BootResolves
<1>1. ~halted
    BY DEF StoreInv, LiveInv
<1>2. CASE OpenFails
    BY <1>1, <1>2 DEF OpenFails
<1>3. ASSUME NEW readable \in SUBSET Slots, Open(readable)
      PROVE  ~halted'
    <2>1. readable = Slots
        BY <1>3 DEF Open
    <2>2. ~OpenHalts(Load(readable))
        BY <2>1, BootServes DEF OpenHalts
    <2> QED
        BY <1>1, <1>3, <2>2 DEF Open, OpenFresh, OpenMatch, OpenRecover
<1> QED
    BY <1>2, <1>3 DEF Next, Reanchor, PutBatchRefused, PutBatchExhausted, PutBatch,
        SaveBlob, AnchorBlob, Publish, Crash, Tamper, vars

\* A power cut at any point of a commit or of a boot, and any failed slot or anchor
\* write, is resolved by Open's next decision: it is to serve or to recover, whether
\* or not the interrupted write reached the medium (ROLLBACK.md, crash matrix).
\* Whether the anchor can then be read and advanced is another matter.
THEOREM StoreRebootResolves ==
    ASSUME Planted = {}, "tamper" \notin Faults, "slotRead" \notin Faults
    PROVE  Spec => [][BootResolves]_vars
<1>1. TypeOK /\ StoreInv /\ SlotsInv /\ [Next]_vars => [BootResolves]_vars
    BY BootIsResolved
<1> QED
    BY <1>1, SlotsInvariant, PTL DEF Spec
=============================================================================
