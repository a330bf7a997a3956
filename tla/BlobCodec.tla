----------------------------- MODULE BlobCodec -----------------------------
(***************************************************************************)
(* The slot format of internal/state/blob.go, in bytes of a smaller base   *)
(* and with narrower length fields: what Save puts into a slot, what       *)
(* loadSlot makes of any contents of it, and where the slots are.          *)
(*                                                                         *)
(* An outcome is "ok", "error" or "panic" (slice out of bounds).  int has  *)
(* the width of the uint32 fields: the firmware is built for 32-bit ARM.   *)
(* A byte of ciphertext is known by the seal that made it and its place.   *)
(***************************************************************************)
EXTENDS Integers, Sequences, FiniteSets

CONSTANTS
    Base,          \* values of a byte
    ShortLen,      \* bytes of a uint16
    LongLen,       \* bytes of a uint32: generation, blob length, note length
    TagLen,        \* tagLen
    SlotSize       \* SlotSize

\* Base to the power n.
Pow[n \in Nat] == IF n = 0 THEN 1 ELSE Base * Pow[n - 1]

ASSUME WidthsAssumption ==
    /\ Base \in Nat /\ Base > 1 /\ Base % 2 = 0
    /\ ShortLen \in Nat \ {0} /\ LongLen \in Nat \ {0} /\ TagLen \in Nat \ {0}
    /\ SlotSize \in Nat /\ 2 * SlotSize < Pow[LongLen]

Bytes == 0..(Base - 1)

\* binary.LittleEndian, w bytes wide: converting to the unsigned type truncates.
PutUint(v, w) == [i \in 1..w |-> (v \div Pow[i - 1]) % Base]

Uint(b, w) ==
    LET low[n \in 0..w] == IF n = 0 THEN 0 ELSE low[n - 1] + b[n] * Pow[n - 1]
    IN  low[w]

\* int(x) of a uint32 where int has 32 bits.
Signed(x) == IF 2 * x >= Pow[LongLen] THEN x - Pow[LongLen] ELSE x

-----------------------------------------------------------------------------
(* encode and decode: a map from origins to notes, both byte sequences *)

Failed(outcome) == [outcome |-> outcome, states |-> <<>>]

\* The byte order of slices.Sorted.
Before(a, b) ==
    \E i \in 1..Len(b) :
        /\ \A j \in 1..(i - 1) : j <= Len(a) /\ a[j] = b[j]
        /\ i > Len(a) \/ a[i] < b[i]

\* slices.Sorted
Sorted(S) ==
    CHOOSE s \in [1..Cardinality(S) -> S] :
        /\ \A o \in S : \E i \in DOMAIN s : s[i] = o
        /\ \A i, j \in DOMAIN s : i < j => Before(s[i], s[j])

Entry(o, note) == PutUint(Len(o), ShortLen) \o o \o PutUint(Len(note), LongLen) \o note

\* The entries one after the other, in the order of their origins.
Entries(states) ==
    LET origins == Sorted(DOMAIN states)
        n == Len(origins)
        from[i \in 1..(n + 1)] ==
            IF i > n THEN <<>> ELSE Entry(origins[i], states[origins[i]]) \o from[i + 1]
    IN  from[1]

encode(states) ==
    IF \E o \in DOMAIN states : Len(o) >= Pow[ShortLen] \/ Len(states[o]) >= Pow[LongLen]
    THEN [outcome |-> "error", bytes |-> <<>>]
    ELSE [outcome |-> "ok", bytes |-> Entries(states)]

\* A turn of the loop takes the first entry off the payload, if there is one.  An entry
\* for an origin met before replaces its note.
decodeEntry(d) ==
    LET payload == d.payload
        originLen == Uint(payload, ShortLen)
        p1 == SubSeq(payload, ShortLen + 1, Len(payload))
        p2 == SubSeq(p1, originLen + 1, Len(p1))
        noteLen == Signed(Uint(p2, LongLen))
        p3 == SubSeq(p2, LongLen + 1, Len(p2))
        origin == SubSeq(p1, 1, originLen)
    IN  IF d.outcome # "ok" \/ payload = <<>>
        THEN d
        ELSE IF \/ Len(payload) < ShortLen
                \/ Len(p1) < originLen + LongLen
                \/ Len(p3) < noteLen
        THEN [d EXCEPT !.outcome = "error"]
        ELSE IF noteLen < 0
        THEN [d EXCEPT !.outcome = "panic"]
        ELSE [outcome |-> "ok",
              payload |-> SubSeq(p3, noteLen + 1, Len(p3)),
              states |-> [o \in DOMAIN d.states \cup {origin} |->
                             IF o = origin THEN SubSeq(p3, 1, noteLen) ELSE d.states[o]]]

\* An entry takes bytes off, so there are no more turns than bytes.
decode(payload) ==
    LET loop[n \in 0..Len(payload)] ==
            IF n = 0 THEN [outcome |-> "ok", payload |-> payload, states |-> <<>>]
            ELSE decodeEntry(loop[n - 1])
        last == loop[Len(payload)]
    IN  IF last.outcome = "ok" THEN [outcome |-> "ok", states |-> last.states]
        ELSE Failed(last.outcome)

-----------------------------------------------------------------------------
(* The slot: magic, generation, length, nonce, ciphertext, zeros.  Magic and *)
(* nonce are one byte each.                                                  *)

Magic == 1
HeaderLen == 2 + 2 * LongLen
GenAt == 1
LengthAt == GenAt + LongLen
NonceAt == LengthAt + LongLen

ASSUME SlotSizeAssumption == SlotSize >= HeaderLen + TagLen

CipherByte(nonce, aad, text, i) == [nonce |-> nonce, aad |-> aad, text |-> text, i |-> i]

ZeroByte == CipherByte(0, <<>>, <<>>, 0)

\* aead.Seal: as long as the text and a tag.
Seal(nonce, text, aad) == [i \in 1..(Len(text) + TagLen) |-> CipherByte(nonce, aad, text, i)]

\* Mutation: the generation is not authenticated.
genAADNone(gen) == <<>>

genAAD(gen) == PutUint(gen, LongLen)

\* aead.Open gives a text only for the bytes of one seal with this nonce and aad.
Opens(nonce, ciphertext, aad) ==
    ciphertext = Seal(nonce, ciphertext[1].text, aad)

\* save up to WriteBlocks: the contents of the slot, or an error.
save(gen, nonce, states) ==
    LET plaintext == encode(states)
        ciphertext == Seal(nonce, plaintext.bytes, genAAD(gen))
        header == <<Magic>> \o PutUint(gen, LongLen) \o PutUint(Len(ciphertext), LongLen) \o <<nonce>>
    IN  IF plaintext.outcome # "ok" \/ HeaderLen + Len(ciphertext) > SlotSize
        THEN [outcome |-> "error", buf |-> <<>>]
        ELSE [outcome |-> "ok",
              buf |-> [i \in 1..SlotSize |->
                          CASE i <= HeaderLen -> header[i]
                            [] i > HeaderLen /\ i <= HeaderLen + Len(ciphertext) ->
                                  ciphertext[i - HeaderLen]
                            [] OTHER -> ZeroByte]]

\* The bounds of the length field.
BadLength(length) == Signed(length) < TagLen \/ Signed(length) > SlotSize - HeaderLen

\* loadSlot, from the contents of the slot on.
loadSlot(buf) ==
    LET gen == Uint(SubSeq(buf, GenAt + 1, HeaderLen), LongLen)
        length == Uint(SubSeq(buf, LengthAt + 1, HeaderLen), LongLen)
        nonce == buf[NonceAt + 1]
        end == HeaderLen + Signed(length)
        ciphertext == SubSeq(buf, HeaderLen + 1, end)
        states == decode(ciphertext[1].text)
    IN  CASE buf[1] # Magic \/ BadLength(length) -> Failed("error")
          [] buf[1] = Magic /\ ~BadLength(length) /\ (end < HeaderLen \/ end > SlotSize) -> Failed("panic")
          [] OTHER -> IF ciphertext = <<>> \/ ~Opens(nonce, ciphertext, genAAD(gen))
                      THEN Failed("error")
                      ELSE [outcome |-> states.outcome, states |-> states.states, gen |-> gen]

-----------------------------------------------------------------------------
(* slotLBA *)

\* Mutation: the start of the slot is compared with the end of the device.
TooSmallForStart(slotOffset, blockSize, blocks) == slotOffset \div blockSize > blocks

\* The whole slot has to fit.
TooSmall(slotOffset, blockSize, blocks) == (slotOffset + SlotSize) \div blockSize > blocks

slotLBA(blockSize, blocks, offset, slot) ==
    LET slotOffset == offset + slot * SlotSize
    IN  IF blockSize <= 0
        THEN [outcome |-> "error"]
        ELSE IF SlotSize % blockSize # 0 \/ offset % blockSize # 0
                  \/ TooSmall(slotOffset, blockSize, blocks)
             THEN [outcome |-> "error"]
             ELSE [outcome |-> "ok", lba |-> slotOffset \div blockSize]
=============================================================================
