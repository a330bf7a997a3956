----------------------------- MODULE StateCard -----------------------------
(***************************************************************************)
(* The microSD card under internal/state/blob.go, byte by byte: Save       *)
(* writes the slot of its generation, a power cut may end any write at any *)
(* byte, and the card is in other hands at times.  RollbackStore takes a   *)
(* slot for one of the blobs saved or for nothing; this is why it may.     *)
(***************************************************************************)
EXTENDS BlobCodec

CONSTANTS
    Devices,        \* cards (what Info tells) and where the slots begin on them
    Generations,    \* what is saved: generations, nonces and states
    Nonces,
    StateMaps

\* generation is a uint32; the keys and values of a state map are byte strings.
ASSUME CardAssumption ==
    /\ Devices \subseteq [blockSize: Int, blocks: Nat, offset: Nat]
    /\ Generations \subseteq 0..(Pow[LongLen] - 1) /\ Nonces \subseteq Bytes
    /\ \A m \in StateMaps :
          /\ IsFiniteSet(DOMAIN m) /\ DOMAIN m \subseteq Seq(Bytes)
          /\ m = [o \in DOMAIN m |-> m[o]] /\ \A o \in DOMAIN m : m[o] \in Seq(Bytes)

VARIABLES
    device,    \* the card
    disk,      \* its bytes
    saved,     \* history: every blob whose write was begun
    latest     \* history: for a slot {b} if blob b was written to it completely and
               \* nobody touched it since, and {} otherwise

cardVars == <<device, disk, saved, latest>>

SlotLBA(slot) == slotLBA(device.blockSize, device.blocks, device.offset, slot)

Ciphertext(b) == Seal(b.nonce, encode(b.states).bytes, genAAD(b.gen))

\* Bytes to put where ciphertext is: some that was made, or none.
Ciphers == {ZeroByte} \cup UNION {{Ciphertext(b)[i] : i \in DOMAIN Ciphertext(b)} : b \in saved}

ReadBlocks(lba) == [i \in 1..SlotSize |-> disk[lba * device.blockSize + i - 1]]

\* WriteBlocks, ended after k bytes.
WriteBlocks(lba, buf, k) ==
    LET start == lba * device.blockSize
    IN  disk' = [p \in DOMAIN disk |->
                    IF p \in start..(start + k - 1) THEN buf[p - start + 1] ELSE disk[p]]

\* The slot of a byte, and its place in it, from 1 on.
SlotOf(p) == (p - device.offset) \div SlotSize
InSlot(p) == ((p - device.offset) % SlotSize) + 1

\* Whether it is a byte of a slot.
OfSlots(p) == p \in device.offset..(device.offset + 2 * SlotSize - 1)

\* A card nothing was saved on.
CardInit ==
    /\ device \in Devices
    /\ disk = [p \in 0..(device.blockSize * device.blocks - 1) |->
                  IF OfSlots(p) /\ InSlot(p) <= HeaderLen THEN 0 ELSE ZeroByte]
    /\ saved = {} /\ latest = [s \in 0..1 |-> {}]

\* Save, on a device it accepts and with states that fit.
Save(gen, nonce, states, k) ==
    LET b == [gen |-> gen, nonce |-> nonce, states |-> states]
        contents == save(gen, nonce, states)
        slot == gen % 2
    IN  /\ contents.outcome = "ok" /\ SlotLBA(slot).outcome = "ok"
        /\ WriteBlocks(SlotLBA(slot).lba, contents.buf, k)
        /\ saved' = saved \cup {b}
        /\ latest' = [latest EXCEPT ![slot] = IF k = SlotSize THEN {b} ELSE {}]
        /\ UNCHANGED device

\* A byte of a slot is lost or replaced, but nobody makes ciphertext without the key.
Corrupt(p) ==
    /\ OfSlots(p)
    /\ \E c \in IF InSlot(p) <= HeaderLen THEN Bytes ELSE Ciphers :
          disk' = [disk EXCEPT ![p] = c]
    /\ latest' = [latest EXCEPT ![SlotOf(p)] = {}]
    /\ UNCHANGED <<device, saved>>

CardNext ==
    \/ \E gen \in Generations, nonce \in Nonces, states \in StateMaps, k \in 0..SlotSize :
          Save(gen, nonce, states, k)
    \/ \E p \in DOMAIN disk : Corrupt(p)

CardSpec == CardInit /\ [][CardNext]_cardVars

\* loadSlot
Load(slot) ==
    IF SlotLBA(slot).outcome # "ok" THEN Failed("error")
    ELSE loadSlot(ReadBlocks(SlotLBA(slot).lba))

-----------------------------------------------------------------------------
(* Properties *)

\* What Load finds for a blob.
Loaded(b) == [outcome |-> "ok", states |-> b.states, gen |-> b.gen]

\* Whatever happened to a card, a slot loads as a blob that was saved, states and
\* generation of the same one, or not at all, and loadSlot never leaves the slot (blob.go,
\* "a blob cannot be relabeled without detection").  A blob whose write was not cut
\* loads, origin for origin, until its slot is written again: no save harms the other
\* slot ("the previous generation remains loadable").
SlotsReadBack ==
    \A s \in 0..1 :
        /\ Load(s).outcome = "error" \/ \E b \in saved : Load(s) = Loaded(b)
        /\ \A b \in latest[s] : Load(s) = Loaded(b)

\* Of a device they accept, Save and Load use the first SlotSize bytes from the offset
\* on for the one slot and the next for the other, all on the device, and with room for
\* the second there is room for the first; on no device is anything written below the
\* offset, where the boot image is, or past the slots (slotLBA).
SlotsApart ==
    /\ \A s \in 0..1 :
          SlotLBA(s).outcome = "ok" =>
              /\ SlotLBA(s).lba * device.blockSize = device.offset + s * SlotSize
              /\ device.offset + (s + 1) * SlotSize <= device.blockSize * device.blocks
              /\ SlotLBA(0).outcome = "ok"
    /\ \A p \in DOMAIN disk : OfSlots(p) \/ disk[p] = ZeroByte
=============================================================================
