# A verification of vitrum

vitrum is a bare-metal tlog witness: it cosigns checkpoints of transparency
logs and promises never to cosign two views of one log that contradict each
other, through crashes, failing storage and microSD cards put back to an older
content. This directory states that promise and the promises of the parts it
rests on in TLA+, checks them with TLC on small instances, and proves the safety
of the store, the witness, the unit made of both, the key exchange, the anchor
protocol, the provisioning client, the feeder, the log ring and the LEDs for every
size with TLAPS. Blob contents, the request format, the scripts and liveness are
checked with TLC.

`PROJECT.json` maps every definition to the lines it models and lists the runs,
the hazards, the mutations and the theorems.

## Inventory of the system

### Rollback-protected store (`internal/state`)

State: two microSD slots, each holding one sealed blob (generation, notes per
origin); an anchor record (generation, digest of the blob, bound or not) in an
RPMB sector; in RAM the notes (`mem`), the generation and the `halted` flag.

Operations: `Open` (reads the anchor, loads the best valid slot, decides: fresh,
match, recover an interrupted commit, halt), `PutBatch` (seal, write the slot
(S1), advance the anchor (S2), make visible and return (S3)), `Get`, `All`,
`Halted`, `Generation`.

Hard: power loss between and during the writes; writes that report an error and
landed or not; slots rolled back, exchanged or erased between boots; several
authentic blobs for one generation; the last generation.

Correct if: nothing leaves of a generation that is not anchored; a running store
knows everything it ever let out; a power cut alone never stops the witness; a
failed write is resolved by a reboot; a note that does not restore is not adopted.

### Witness core (`internal/witness/witness.go`, `http.go`)

State: the store; the signer and its epoch (two atomics written under `mu`); the
pool of admitted checkpoints and the batch being sequenced (under `poolMu`).

Goroutines: one per HTTP request (`AddCheckpoint`: load signer, check halted,
parse, load epoch, `addToPool`, wait), one sequencer (rotate the pool, sign,
`PutBatch`, retire), and the SSH sessions (`SetSigner`, `ClearSigner`). On a unit
the store is the rollback-protected one, whose `PutBatch` takes several writes
and whose `Halted` waits for the same mutex.

Hard: what a handler loaded is stale when it is used; what was checked at
admission is committed a pool rotation later; handlers wait without a timeout on
entries that only the sequencer closes; joining an entry already decided; the
pool limit; key rotation at any moment; a commit that fails after signing.

Correct if: every commit moves every log forward only; an answer 200 carries the
cosignature over the caller's own text; no handler is lost or waits forever; once
`SetSigner` returned nothing signs with an earlier key.

### Provisioning server (`internal/provision`)

State: the owned private key, under `Server.mu`. Operations: `provision`,
`deprovision`, `settime`, `status`, one goroutine per SSH session.

Hard: two sessions exchange the key while the sequencer signs; the replaced key
is overwritten in place; lock order `Server.mu` then `Witness.mu`.

Correct if: a key is never overwritten while it is in use; no key is left behind
that nothing will destroy; sessions finish.

### RPMB anchor and card (`anchor_rpmb.go`, `internal/rpmbtest`)

State: the card's key, write counter, anchor sector and staged response; in the
driver the request that waits for its response. Operations: `Anchor` (one
authenticated read), `SetAnchor` (read, compare, fetch the counter, write).

Hard: a request or a response is lost, so that an error says nothing about what
landed; earlier responses and requests turn up again; the write counter is finite.

Correct if: it is the register the store assumes: the record only advances, and
success means that exactly this record is stored.

### Bring-up and RPMB provisioner (`fw/vitrum/main.go`, `fw/rpmb-provision`)

State: the fuses, the card's one-time key, the outcome an operator reads. Two
firmwares boot in turn on one unit and probe the card without authentication.

Hard: programming is irreversible and may be cut before it is verified; the probe
passes for a card programmed with another key; development keys before fusing.

Correct if: the outcome is true of the card; only the key of a fused unit is ever
programmed, once; a fused unit never serves without its own anchor.

### Provisioning client (`cmd/vitrum/provision.go`)

State: the pin file, two connections in a row. `provision` sets the clock (the
reply may be lost, since the clock of the connection jumps), dials again, verifies
the clock, uploads the seed and compares the verifier. `deprovision` dials once.

Hard: runs race over the pin file; another host answers the second dial; a settime
that never arrived looks like one whose reply was lost; a reboot or the clock jump
of another run cuts a connection between two commands.

Correct if: commands go only to the pinned host, a pin stays, and success means
that the clock is set.

### Feeder (`cmd/vitrum/feed.go`, `client.go`)

State of a run: the witness key and the checkpoint it read. It submits the
checkpoint as a first sighting, and on 409 once more with a proof from the size the
witness told it.

Hard: both things it read, and the size it is told, are stale when it uses them;
other hosts feed the same log; its timeout leaves a handler behind that still
submits; the log grows, the key changes, commits fail.

Correct if: an honest feed is never at fault; one retry is enough unless something
interfered; a host that keeps feeding gets there.

### Scripted clients and the test log (`selftest.go`, `record.go`, `internal/testlog`)

`selftest` takes a fresh witness through five submissions and stops at the first
unexpected answer. `record` writes submissions and expected statuses down for the
fixture test to replay.

Correct if: selftest passes on a fresh witness and on no other, and a recorded
manifest replays.

### Blob layout and request format (`blob.go`, `wire.go`, `parseRequest`)

Pure functions: what a slot contains, where it is, what any contents of it load as;
a request body and what the witness reads of it.

Hard: length fields that wrap, truncate or turn negative in a 32-bit int; a write
cut in the middle of a slot; a device that is just too small.

Correct if: what is written reads back, anything else is refused without a panic,
and slots overlap neither one another nor the boot image.

### Log ring and LEDs (`logz.go` of both firmwares, `fw/vitrum/main.go`)

State: a ring of lines and a count; when each LED last changed. Correct if: `/logz`
shows the newest lines in order; the LEDs tell halted, provisioned and
unprovisioned units apart.

### The rest

| Part | Source | State and behaviour | Here |
|---|---|---|---|
| Health page | `fw/vitrum/main.go` | reads store, witness and keys | not modelled: read-only; the feeder's read of the key from it is `FetchKey` |
| Device keys, HAB | `fw/internal` | register reads, key derivation, names of events | not modelled: no protocol state |
| `keygen`, `hostkey`, table of logs, flags | `cmd/vitrum`, `internal/config` | file and flag handling | not modelled |
| Network stack, interrupts | `fw` | drivers | not modelled |

### How the parts interact

    HTTP handlers --AddCheckpoint--> pool --sequencer--> Store.PutBatch
         ^                                   |                |
         +------- close(entry.done) ---------+         slot write, SetAnchor
    SSH sessions --SetSigner/ClearSigner--> signer, epoch (Witness.mu)
         ^                                     SetAnchor --frames--> RPMB card
    vitrum provision, deprovision                                      ^
                                         rpmb-provision --key, once ---+
    vitrum feed, selftest --POST add-checkpoint--> HTTP handlers

The witness sees the store as an interface whose `PutBatch` commits all of a
batch or nothing. The store sees the witness as a caller that submits only heads
that extend the ones the store holds; that is the conjunct
`ExtendsAll(Merge(mem, updates), mem)` of `PutBatch` in `RollbackStore`. `Witness`
shows it as `PendingExtendsStore` for the interface, and `Device`, where the two
are composed, as `BatchExtendsStore` for what the sequencer really hands over. The
store sees the anchor as `AnchorRegister`: its `SetAnchor` and `SetAnchorFails`
allow what that register does, and `BringUp` shows that the frame protocol
implements the register on any card a unit may find.

## Modules

| Module | Models | Uses |
|---|---|---|
| `TreeHeads` | heads per origin and the order consistency proofs put on them, as parameters | |
| `ConsistentView` | the abstract promise: one view that only moves forward, and only it is released | `TreeHeads` |
| `RollbackStore` | `internal/state`: `Open`, `PutBatch`, slots, anchor, faults | instance of `ConsistentView` |
| `RollbackStoreProofs` | theorems about it | `RollbackStore`, `TLAPS` |
| `CheckpointRules` | what `addToPool` decides from the stored head | extends `TreeHeads` |
| `Witness` | `internal/witness`: handlers, sequencer, signer | extends `CheckpointRules`, instance of `ConsistentView` |
| `Device` | the witness over the store, with crashes and reboots | extends `RollbackStore`, instance of `Witness` and of `ConsistentView` |
| `Feeder` | `vitrum feed` on several hosts against the witness | extends `Witness` |
| `Provision` | `internal/provision` composed with the witness | extends `Witness` |
| `AnchorRegister` | the abstract promise of the `Anchor` interface | |
| `RpmbCard` | the RPMB partition, as `internal/rpmbtest` models it | |
| `RpmbAnchor` | `RPMBAnchor` over the card and a faulty transport | extends `RpmbCard`, instance of `AnchorRegister` |
| `RpmbProvision` | `fw/rpmb-provision` over the card | extends `RpmbCard` |
| `BringUp` | `newStorage`, `main` up to `Open` and the anchor calls after it, alternating with the provisioner | extends `RpmbProvision` and `RpmbAnchor` |
| `ProvisionClient` | `vitrum provision` and `deprovision` with host-key pinning | |
| `BlobCodec` | `blob.go`: `encode`, `decode`, the slot, `slotLBA` | |
| `StateCard` | a card under `Save` and `loadSlot`, byte by byte: cut writes, overwritten bytes | extends `BlobCodec` |
| `WireFormat` | `EncodeAddCheckpoint`, `parseRequest`, a body posted | |
| `LogRing` | `logRing` of both firmwares | |
| `StatusLed` | `statusLED`, `cosignLED` | |
| `Scripts` | `selftest` and replayed `record` manifests against a witness, the test log | extends `CheckpointRules` |
| `MCRollbackStore`, `MCDevice`, `MCWitness`, `MCFeeder`, `MCProvision`, `MCRpmbAnchor`, `MCBringUp`, `MCProvisionClient` | instances for TLC | |
| `WitnessProofs` | theorems about `Witness` | `Witness`, `TLAPS` |
| `DeviceProofs` | theorems about `Device`, from those about its two parts | `Device`, `RollbackStoreProofs`, instance of `WitnessProofs` |
| `FeederProofs` | theorems about `Feeder` | `Feeder`, `WitnessProofs` |
| `ProvisionProofs` | theorems about `Provision` | `Provision`, `WitnessProofs` |
| `BringUpProofs` | theorems about `BringUp`, and so about `RpmbAnchor` and `RpmbProvision` | `BringUp`, `TLAPS` |
| `ProvisionClientProofs` | theorems about `ProvisionClient` | `ProvisionClient`, `TLAPS` |
| `AlgorithmsProofs` | theorems about the five small parts | `StateCard`, `WireFormat`, `LogRing`, `StatusLed`, `Scripts`, `TLAPS` |
| `MCAlgorithms` | instance of the small parts for TLC, one at a time | extends the five of them |

### RollbackStore and the code

`pc` says where the firmware is: `off`, inside `Open` before its `SetAnchor`
(`reanchor`), serving (`ready`), inside `PutBatch` before the slot write, the
anchor write and the in-RAM update (`save`, `anchor`, `publish`), or stopped
because `Open` returned an error (`fatal`). `PutBatch` holds the store's mutex, so
one commit at a time is all there is; readers are not blocked and see `mem`.

* `Open` is one step up to `SetAnchor`, with one sub-action per branch of the
  switch; `Reanchor` is the rest. Its gap and rollback branches both halt and
  are one decision, `tampered`.
* `PutBatch`, `SaveBlob`, `AnchorBlob`, `Publish` are the stretches of `PutBatch`
  between two effects on a medium. `PutBatchRefused` is every early return that
  changes nothing.
* A failed or interrupted slot write leaves the old blob, the new one or
  something that does not load. A failed anchor write landed or not.
* `Crash` may come at any moment. `Tamper` replaces a slot by anything ever
  sealed, or erases it, while the unit is off. Slots are read by `Open` only, so
  replacing them at other times gives no further behaviour.
* Cryptography is perfect: only sealed blobs open, a digest stands for its blob,
  a nonce is never drawn twice. `Planted` holds authentic blobs of other firmware
  with the same key, which units without burned fuses must reckon with.
* `released` is history: the heads whose cosignatures a returning `PutBatch` lets
  the caller hand out.

### Witness and the code

A step is a stretch of code between two points where another goroutine can be
observed: each atomic load and store, each section under `poolMu`. Sections under
`Witness.mu` span several of them, so that lock is the variable `mu`.

* `LoadSigner`, `CheckRequest`, `LoadEpoch`, `AddToPool` are `AddCheckpoint`; the
  signer and the epoch are loaded in two steps as in the code. `AddToPool` is
  `JoinPending` (matchPending), `Admit`, or `Refuse` with the code's statuses.
* `Rotate`, `Sign`, `Put`, `Retire` are one tick of the sequencer, `StopPools` the
  end of its context. `Put` may fail and may leave the store halted.
* A checkpoint text is a head and extension lines. A proof is `none`, `log` (what a
  log computed for its own tree, which verifies exactly if the new head extends
  the stored one) or `other` (any other hashes, which never verify).
* `PutBatch` is the `Store` interface's: everything or an error. The store starts
  empty; what a boot restores is `RollbackStore`'s and `Device`'s subject.

### Device and the code

`Device` runs the actions of `Witness` over the state of `RollbackStore`; the two
share `mem` and `halted`, and nothing else. `PutBatch` is the store's own steps
(`BeginPut`, `PutStep`, `PutReturnsNil`, `PutReturnsError`), with handlers running
in between. `Halted` takes the store's mutex, so the steps that ask it
(`CheckRequest`, `Sign`) wait for a commit under way, while `Get` and `All` are
answered (`ServeStep`). `PowerLoss` clears the witness and leaves the card and the
anchor as they are; the next boot opens the store before anything else starts.
While the unit is off `ReplaceSlot` puts an earlier blob, or nothing, into a slot, and
the history variable `replaced` remembers that somebody did. The cosignatures that
left are `left`, filled where handlers return. `RebootResolves` is about what `Open`
decides: an anchor that cannot be read, or a re-anchoring that fails, still stops
the unit, as the code intends. GET requests are
left out: what they show is the subject of `ServedIsAnchored`.

### Feeder and the code

A run is the stretches of `cmdFeed` between two requests: `FetchKey` (`/healthz`),
`FetchCheckpoint`, `SubmitFirst`, then `SubmitAgain`, `Ahead` or `ReadAnswer`. A
submission is a handler of `Witness` starting. `Fail` is any failed request and the
30 s timeout: the run ends, the handler goes on. The log is honest: its checkpoints
are one chain, and `Grow` publishes the next one at any time. A run started with
`-witness-key` holds a key from before; the other runs have the same behaviour when
the key changes after `FetchKey`. `disturbed` is history: another submission, a key
change or a halt came between.

### Provision and the code

`BuildKey`/`CallDeprovision`, `LockServer`, `CallStoreSigner`, `CallAddEpoch`,
`ReplacePriv` are the stretches of `provision` and `deprovision`. The two middle
ones are the actions of `Witness` called with both locks held. A signer stands
for its key slice: every session builds new ones.

### RpmbCard, RpmbAnchor and the code

A MAC is the key it was made with, and a frame verifies exactly if it carries the
verifier's key. The store's one sector is all that is accessed, so addresses are
left out. `WriteRPMB` dispatches to one operator per `stage` function of the
fake card. The driver `github.com/usbarmory/rpmb` is external and modelled from
its use: a fresh nonce per read, and a response counts only with the right kind,
MAC and result and with its nonce, or for a write with the counter plus one.

`Call` is `Anchor` and the read `SetAnchor` begins with; `Receive` is the code up
to the next request or the return. `Anchor` and `SetAnchor` take the key they are
called with: `BringUp` calls them with the key the unit derives, on whatever card
is there. `ExchangeFails` is every error return of an exchange. `Faults` selects
what the transport may do: lose either direction (`lost`), hand over earlier
responses (`stale`), repeat a write request the card can no longer execute
(`duplicate`), execute a held-back one (`late`). `PowerCut` clears the host and
the staged response at any time.

### RpmbProvision, BringUp and the code

Each action is the code between two exchanges with the card. Any exchange may go
unanswered. The card starts without a key or with one programmed
elsewhere; the fuses are burned at most once, while the unit is off. `Derived` is
the unit's key on a fused unit and the development key before. `degrade` is
`Degrade`: RAM only before fusing, fatal after it. Once the store is open the
firmware reads and advances the anchor through `RpmbAnchor`'s actions until it is
switched off or the store halts.

### ProvisionClient and the code

A step is the code between two effects another run or host can observe: the dial,
creating the pin file (`O_EXCL`) and writing it, `settime`, `verifyClock`, the
command. Any host may answer a dial. `Honest` hosts report the verifier of the key
they got; the others report something else. A host may reboot at any time, which
loses its clock and its connections (`alive`). A `settime` that moves the clock from
the epoch wedges every connection to the host, other runs' too; only `settime`
itself has a timeout, so a wedged run ends when its operator ends it (`Aborted`).

### BlobCodec, StateCard, WireFormat, LogRing, StatusLed, Scripts and the code

`BlobCodec` has the functions of `blob.go` as operators. It keeps bytes and
arithmetic and makes both smaller: a byte has `Base` values, uint16 and uint32 have
`ShortLen` and `LongLen` bytes, and an int is as wide as a uint32, as on the
firmware's 32-bit ARM. A byte of ciphertext is known by its seal and its place, so
that pieces of two writes do not open. An index outside a slice is the outcome
`panic`. `Entries` and `decode` are the loops of the code, as functions of the turn.

`StateCard` is a card with these slots on it. `Save` writes the first `k` bytes of a
slot, all of them or up to where the power failed; `Corrupt` puts any byte where a
header is and any ciphertext byte ever made, or none, where ciphertext is. `saved`
and `latest` remember what was written, completely or not. `RollbackStore` has a slot
as one of the blobs saved or nothing; `SlotsReadBack` is the reason it may.

`WireFormat` has a body as a sequence of lines, each an old size, a hash in the
encoder's or another accepted spelling, a blank, or something else; a client posts an
encoded request or somebody posts anything. `LogRing` has one action, `Log`, a call of
`Write`. `StatusLed` has the two cases of `statusLED`'s `select`: `TickStep` and,
between ticks, `PulseStep`; it counts time in 25 ms.

`Scripts` has a witness that answers by `CheckpointRules` and is nothing but its view.
`Selftest` and `Replay` start a script, `Submit` takes it one submission on,
`SubmitError` is a submission that fails with the head stored or not, and other
clients are cosigned for at any time (`OtherSubmits`), except during a replay, which
has a witness of its own. A selftest may be run again and again on one witness.

### Definitions marked "Mutation"

An operator commented "Mutation:" is the definition after it with one plausible
mistake. No specification uses it; put in the place of the original it makes
TLC violate the property that `PROJECT.json` pairs it with, which shows that the
property depends on that line of the code.

## Runs

| Run | Question and result |
|---|---|
| `store_adversary` | Two logs, every fault together. The inductive invariant, no split view, a serving store holds what is anchored, and the refinement of `ConsistentView`: hold. |
| `store_planted` | Foreign blobs under the same key: a note that does not restore is neither served nor anchored. Holds. |
| `store_served` | ROLLBACK.md's invariant for what the monitoring endpoint reads. Violated; see below. |
| `device` | The witness over the store, with failing writes, power loss, reboots and slots replaced while the unit is off: what leaves the unit is of the anchored view and known to every later boot that serves, the sequencer hands the store only extensions, nobody is lost; and until a slot is replaced the committed blob stays on the card and no boot decides to halt. Holds. |
| `witness` | Two handlers with every kind of request for two logs, two signers, stop and restart: answers are sound, admitted entries still extend the store when committed, nobody is lost, only the installed signer signs, and the refinement of `ConsistentView`. Holds. |
| `feed` | Two hosts feed one growing log through conflicts, timeouts, key changes and failed commits: no request is at fault, one retry is enough unless something interfered. Holds. |
| `feed_live` | Every submission is answered, and a host that keeps feeding gets the last checkpoint cosigned once log, key and store rest. Holds under the fairness below. |
| `provision_sessions` | Two sessions and the sequencer: no overwritten key signs, no key is orphaned, every session finishes. Holds. |
| `bring_up` | Provisioner and firmware in turn on one unit, cut anywhere, then the anchor over lost, stale and repeated frames: the reported outcome is true, the key is programmed once and only by a clean boot of a fused unit, a fused unit serves only over its own anchor, the refinement of `AnchorRegister`, and the write counter stays within the generations. Holds. |
| `rpmb_late` | ROLLBACK.md's claim about held-back requests. Violated; see below. |
| `provision_client` | Two runs and two hosts race over one pin file through reboots and wedged connections: commands go to the pinned host, a pin stays, success means a set clock. Holds. |
| `algorithms` | The small parts, one at a time: whatever happened to a card, its slots load as a blob that was saved or not at all and never panic, and nothing outside them is written; requests round-trip, `/logz` shows the newest lines, the LEDs tell the states apart, selftest passes once, manifests replay. Holds. |

### The disagreement `store_served` shows

ROLLBACK.md says that every cosignature of generation g is released only after
the anchor holds g. `Open` restores the notes of an interrupted commit into RAM
before it advances the anchor. When that anchor write fails the store halts, but
the notes stay, and `Witness.Checkpoint`, which does not look at `Halted`, hands
out their cosignatures while the anchor is still at g-1. The comment of `Open`
leaves it to callers to "additionally refuse to serve". All other properties
count as released only what `PutBatch` returned nil for.

### The disagreement `rpmb_late` shows

ROLLBACK.md explains why no dummy write is made at boot: the response counter is
compared, and a held-back request "can only advance the hardware write counter
and push the system toward a halt". A write response names the counter and not
the data, and `SetAnchor` does not read the sector back. When the request of an
interrupted `SetAnchor` is executed in the place of a later one under the same
counter, the later call gets the response it expects and returns nil, while the
anchor contains the earlier record. The other properties of the anchor, and the
store's properties that rest on `AnchorRegister`, assume that this does not happen.

### Bounds, and why they are enough

* `MaxGen` is 3, odd like `^uint32(0)`, so the last generation falls on slot 1 as
  in the code. Three commits use slots 1, 0, 1, so a slot is overwritten with an
  older generation left in the other, and the exhausted counter is reached.
* Three nonces bound how many blobs are ever sealed. They let two blobs of one
  generation exist besides the one before it, which is what a replayed
  interrupted commit needs. In `device` they are two, next to two handlers and every
  replacement of a slot: two blobs of one generation, one of which came to nothing and
  is put back later, or two generations to roll back between. A boot that does not
  compare the digest is caught there (the mutant of `AnswersSurviveReboot`).
* Heads are a head and its two mutually inconsistent extensions (the store), or
  the empty tree, a wrong empty tree, a head, a fork of it and an extension (the
  witness): the smallest sets with agreement, growth and a fork. `device` and the
  feeder use those of them that their clients can send.
* The pool limit is 1 in `device` and `feed`, so that with two logs in `device` a
  handler meets a full pool, and 2 in `witness`, so that one batch holds both logs.
  Two handlers let one wait and the other join, conflict or be refused.
* `MaxEpoch` bounds signer changes: 1 is install (`device`, where every boot starts
  without a key), 2 is install and replace (the feeder), 3 is install, remove and put
  back the same signer (`witness`), or three changes by two racing sessions.
* The fed log has two checkpoints: a run may hold either while the witness holds
  none, the first or the second. Liveness is checked with one host; the handlers
  its abandoned requests leave behind are its rivals.
* For the frames, `MaxGen` is 2 with two digests, and `MaxDraws` is 7 in `bring_up`
  (5 in `rpmb_late`): two complete `SetAnchor` calls, or an interrupted one and its
  successor, and a read. The counter reaches its maximum.
* The card's key is the unit's, the development key, the probe's zero key or
  another. Two runs of the client and two hosts, one of them honest, make every
  race over the pin file.
* `BlobCodec` has bytes of 8 values and slots of 24: fields overflow, a length is
  negative as an int, and a note fills a slot exactly. On one device of `StateCard`
  (`Devices`) two steps are taken, each a save cut at any byte or a byte overwritten;
  the first may save any map (`StateMaps`) of up to two of five origins with four
  notes, empty ones and ones that look like lengths among them; one of four small maps
  may be followed by another, under three `Generations`, two of which share a slot. One nonce is the
  worst case: seals then differ only in what they should. One step is taken on every
  other device, with block sizes that divide a slot and that do not, with room for
  both slots, one or none, with an offset or without.
* Requests have two `OldSizes`, two `Hashes`, proofs up to `MaxProofLines` of 2 and
  two `Notes`, one with blank lines and a hash in it; other bodies have up to
  `MaxBodyLines` of 5 lines of seven kinds (`Lines`).
* The log ring of 4 lines goes round three times. The LEDs are watched for
  24 ticks with every answer of the witness and a pulse or none between, two periods
  of the slowest indication. The heads of `Scripts` are those of all prefixes of the two
  trees selftest uses, for both its logs and without a bound on steps.

Nonces, digests, handlers, hosts, signers and client runs are symmetric where a run
checks safety only.

### Fairness

Handlers, the sequencer and sessions keep running once they started: no code path
in them waits on the network between the modelled steps. `Sign`, `LockServer` and
`CallStoreSigner` wait for a `sync.Mutex`, which is starvation-free, hence strong
fairness. The ticker keeps ticking, hence weak fairness on `Rotate`. New sessions
have no fairness. A started feed goes on, and hosts start it again and again; the
command submits once and does not do that by itself, so `FeedConverges` speaks of
hosts that keep feeding. Its premise is
that from some point on a key is installed, the store is not halted and nothing
fails: neither the network nor a signature nor a commit. The firmware runs the sequencer with
`context.Background()`, so the liveness runs do not cancel it (`MayStop` is
FALSE); with a cancelled context a handler admitted after the stop waits until
the sequencer is run again. `SessionsFinish` excepts the states where the bound
on signer changes, not the code, holds a session back.

## Proofs

Each theorem holds for every value of the constants that satisfies the module's
assumptions: any sets of origins, heads, handlers, hosts, sessions, keys and
nonces, any order on heads that is reflexive and transitive, any pool limit and
any bound on generations, signer changes and exchanges. Every proof has the same shape: an
inductive invariant made of named parts, one lemma per action, and the properties
read off the invariant or off one step. TLC checked each invariant on the
instances of the runs before it was proved.

### The store (`RollbackStoreProofs`)

* `TypeCorrect` and `StoreNeverAdoptsBadNote`: also with foreign blobs (`Planted`).
* `StoreInvariant`, `StoreNoSplitView`, `StoreServesCommitted` and
  `StoreImplementsConsistentView`: for `Planted = {}`, a unit whose state key no
  other firmware has used. Without it they are false, as ROLLBACK.md says of units
  before fusing.
* `StoreKeepsCommittedBlob` assumes besides that nobody replaces slots, and
  `StoreRebootResolves` that slots can be read: halting is what the store must do
  when they are replaced or unreadable. The latter is about `Open`'s decision; an
  anchor that cannot be read or advanced still stops the unit.

`NoSplitView` is not inductive: a boot may adopt a blob one generation ahead of
the anchor, and nothing in `NoSplitView` says that such a blob extends what was
released. `StoreInv` adds what makes every adoption safe, as five named parts:

* `AnchorInv`: the anchor names a sealed blob of its own generation;
* `SealedInv`: no sealed blob is more than one generation ahead of the anchor, and
  every one that is extends the anchored view, also those left by interrupted
  commits that nobody remembers;
* `CardInv`: slots hold sealed blobs or nothing that loads;
* `ReleasedInv`: whatever was released is part of the anchored view;
* `LiveInv`: how RAM and the commit under way relate to the anchor at each `pc`.

The key step is an anchor write (`DurableAnchor`): the anchored view moves to a
blob that extends it, and no blob is ahead of the new anchor, since all were at
most at its generation. Type correctness needs `JobInv` besides (a commit under
way has an admissible blob); it is proved together with `TypeOK`. `AdmittedInv`
(what is anchored, or on its way to the anchor, went through `admit`) is for bad
notes. For the slots it is `SlotsInv`: every blob sits in the slot of its
generation, the anchored one among them; successive generations alternate, so a
torn write of the next one does not touch it, and `load` finds it or its successor.

### The witness (`WitnessProofs`)

`WitnessTypeCorrect`, `WitnessPendingExtendsStore`, `WitnessSignerInUse`,
`WitnessAnswersSound`, `WitnessWaitersTracked` and
`WitnessImplementsConsistentView`, without assumptions beyond the module's.

`WitnessInv` has, besides the properties: who holds `w.mu` and where (`LockInv`);
what a handler carries at each of its steps (`HandlerInv`); that entries hold
exactly the handlers that wait, with the text and the epoch of the entry
(`WaiterInv`), so that what is cosigned for the entry is cosigned for each of them;
that a batch exists only between rotation and retirement, signed with the installed
signer and complete before it is closed (`BatchInv`); and that no head of size 0
other than the empty tree was admitted (`EmptyInv`), without which an admission from
size 0 would not extend the store. `WaitersTracked` counts entries; the proof shows
that at most one entry has a given waiter and derives the cardinalities.

### The unit (`DeviceProofs`)

For `Planted = {}`: `DeviceBatchExtendsStore`, `DeviceNobodyLost`,
`DeviceAnswersSurviveReboot` and `DeviceIsConsistent`, slots replaced while the unit
is off included. `DeviceKeepsCommittedBlob` and, if slots can be read,
`DeviceRebootResolves` hold until somebody replaces one: `SlotsInv` is kept by every
other step (`SlotsKept`).
`DeviceImplementsStore` (`DeviceSpec => Spec`) discharges what `RollbackStore`
assumes of its caller, so the store's theorems hold of the unit.

`DeviceInv` is the two parts' invariants and four that tie them: nothing of the
witness is up while the store is not (`RamInv`), a `PutBatch` under way is the
sequencer's and has what it signed (`CommitInv`), what `Retire` will let out the
store has released and still serves (`RetireInv`), and what left is part of what was
released (`LeftInv`). `SealedEmptyInv` carries `EmptyInv` through a reboot.

### Keys (`ProvisionProofs`)

`ProvisionImplementsWitness`: with sessions, the witness still takes only the steps
of `Witness`, so its theorems hold. `ProvisionNeverSignsWithZeroedKey` and
`ProvisionOnlyInstalledKeyLives` follow from ownership: a live key belongs to the
server or to one session (`LiveInv`), the installed signer is the server's or that
of the session in `SetSigner` (`OwnerInv`), and one session at most is there
(`ServerInv`). With `SignerInUseIsInstalled` no overwritten key is in use.

### Anchor protocol and bring-up (`BringUpProofs`)

With any of the transport faults modelled (the provisioner's exchanges lose frames, the
anchor's also repeat them and deliver them late): `BringUpStatusTruthful`,
`BringUpFusedServesProtected`, `BringUpKeyProgrammedOnce`. `KeyInv` says what the
response each firmware awaits tells about the card's key, and that every frame the
card ever sent the anchor carries that key, stale ones included.

When no request is executed late (`"late" \notin Faults`):
`BringUpCounterWithinGenerations`, `BringUpSuccessMeansAnchored` and
`BringUpImplementsAnchorRegister`. `rpmb_late` shows that the assumption is needed.
`ProtocolInv` says that a response with the nonce awaited is of now (`ResponseInv`),
and that while a write is awaited either the record has landed or the request is
still the one for the card's counter (`CallInv`). The write response that passes
is then the one of this request.

### Provisioning client (`ProvisionClientProofs`)

`ClientCommandsOnlyToPinned`, `ClientPinIsForGood`, `ClientProvisionedHasClock`. An
empty pin file belongs to the one run that created it, and a run past its check has
the pinned host (`PinInv`); a connection that is still up leads to a host that has
not rebooted since its clock was verified (`ClockInv`).

### Feeder (`FeederProofs`)

The log is honest: `ChainAssumption` says that its checkpoints are in order and that
it has one tree per size. `FeedNeverAtFault`: everything in the pools and in the
store is a published checkpoint (`HonestInv`), so the proof a run sends verifies.
`FeedOneRetryIsEnough` assumes that the sequencer is not stopped (the firmware runs
it with `context.Background()`) and that the pool has room for an entry
(`maxPoolSize` is 256). `CalmInv` says, of a run that nothing interfered with, that
nobody else has a submission for the log under way, that the installed key is the one
it read, and that its handler carries its request and is answered with a cosignature under that
key, a conflict with the size the store has, or a failed commit.

### The small parts (`AlgorithmsProofs`)

`RingShowsNewest`: each of the newest lines is at its number modulo the size
(`RingInv`), and lines less than a round apart have different places.
`LedShowsState`: while a unit is halted the last toggle was at the last multiple of
150 ms since the halt was seen; otherwise blue's toggles keep within 500 ms at every
unprovisioned tick, and switch it (`LedInv`).

What recursive functions compute needs induction, and the library's induction
theorems take an operator the provers cannot instantiate. `LeastNumber` gets around
it: a non-empty set of numbers has a least member, which follows from the
well-foundedness of `<` alone, and so `Numbers`, induction over a *set* of numbers. A
definition by recursion is first shown to have the function it chooses (`PowDefined`,
`UintSums`, `EntriesUnfold`, `DecodeTurns`), one turn at a time.

`DecodeOfEncode`: reading a number back gives it (`UintOfPut`), for any base and width
it fits; the byte order is total and transitive, so every finite set of origins can be
sorted (`SortedOrder`); one turn of `decode` takes exactly the entry `encode` wrote off
the payload (`EntryIsRead`), so after `i` turns it has read the first `i` origins.

`SlotsAlwaysReadBack` and `SlotsAlwaysApart` rest on `CardInv`. `SlotsReadBack` alone
is not inductive: it speaks of what loads now, and a cut write or a replaced byte makes
new mixtures of what did not load before. `CardInv` says of every byte of the card what
it can be: a byte in a header, and elsewhere nothing or a byte of the ciphertext of
some blob saved, and that the slot of a `latest` blob is what `Save` made of it, byte
for byte. From the first, whatever `loadSlot` opens begins with a byte of some blob's
seal, with that blob's text and generation (`LoadsSavedOnly`); from the second, the
slot loads (`SavedLoads`). The assumptions are the code's: a slot has room for a header
and a tag, twice its size fits the length field, generations fit theirs, and state maps
are finite.

`RequestsAlwaysRoundTrip` follows `parseRequest` over the lines an encoded request has:
its first blank line is the encoder's, because no proof line is blank, whatever blank
lines the note has. The other half takes an accepted body apart in the same way.

`SelftestOnlyOnce` and `ManifestsReplay` rest on `ScriptInv`: the view only grows from
where a script began, the script's own logs hold what its answered submissions left
there as long as nobody interfered, and after a selftest that passed the witness holds
three records of its log or more, so that the first submission of the next one is a
conflict. For a
replay it says which of the two heads is held after each step of a manifest.

### Only model-checked

* Liveness: `RequestsAnswered`, `SessionsFinish`, `FeedConverges`. Fairness and
  `ENABLED` are beyond the prover.
* `ServedIsAnchored` is false, and `SuccessMeansAnchored` is with late requests: the
  two disagreements above.

## Not modelled

* Device keys and the HAB report (`fw/internal`): register reads, a key derivation
  and a table of names, without state. What depends on them is in `BringUp`: fused
  or not, a clean boot or not.
* `keygen`, `hostkey`, the table of known logs, flags: they read and write files.
* SSH and HTTP: headers, the limit on the body, the origin hash in the path. The
  routes call `AddCheckpoint` and `Checkpoint`, which are modelled.
* The health page and metrics read and count, and decide nothing.
* The network stack, interrupts and the block drivers; a driver call succeeds or fails.
* The LEDs while the clock jumps, and late ticks: `StatusLed` ticks exactly every period,
  the code compares wall times.
* Stale frames for the provisioner: its probe is not authenticated, and an old answer to
  it would be believed. Its exchanges only lose frames.
* `record` of a log that is empty when first seen: the tree-size-0 proof cannot be
  computed once it has grown, and if it has not, the stale step is answered 200 and
  not 409. `ManifestReplays` is stated for the other logs.
* Cryptography is perfect throughout, and hashes do not collide.

## Plan

The modules are complete, and every safety property a run checks and that holds is
proved, for all values of the constants under the assumptions above. A change to the code starts at the definition
`PROJECT.json` maps to its lines: TLC says whether the properties survive on the
instances, and the lemma named after the action is where its proof has to be mended.
