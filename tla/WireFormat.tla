----------------------------- MODULE WireFormat -----------------------------
(***************************************************************************)
(* The add-checkpoint request body: what EncodeAddCheckpoint of the client *)
(* writes and what parseRequest of the witness reads.                      *)
(*                                                                         *)
(* A body is the sequence of its lines, the last of them without a newline *)
(* after it.  A line has a kind and, if it stands for one, a value: an old *)
(* size or a hash in the form the encoder writes ("old", "hash"), a hash   *)
(* in another form base64 decodes to it ("otherHash"), or nothing ("").    *)
(***************************************************************************)
EXTENDS Naturals, Sequences, SequencesExt

CONSTANTS
    MaxProofLines,   \* maxProofLines
    OldSizes,        \* the old sizes, hashes and notes a client sends
    Hashes,
    Notes,
    Lines,           \* the lines of anything else that is posted
    MaxBodyLines     \* bound: how many of them

Line(kind, value) == [kind |-> kind, value |-> value]

Blank == Line("", 0)

\* A signed note is not empty.
ASSUME WireAssumption ==
    /\ MaxProofLines \in Nat /\ MaxBodyLines \in Nat
    /\ \A n \in Notes : n \in Seq(Lines) /\ n # <<>> /\ n # <<Blank>>

\* Proofs within maxProofLines: those of every tree of up to 2^62 leaves.
Requests == [old: OldSizes, proof: BoundedSeq(Hashes, MaxProofLines), note: Notes]

EncodeAddCheckpoint(r) ==
    <<Line("old", r.old)>>
      \o [i \in DOMAIN r.proof |-> Line("hash", r.proof[i])]
      \o <<Blank>> \o r.note

Malformed == [ok |-> FALSE]

\* Mutation: the limit is one line lower.
TooManyLinesEarly(n) == n >= MaxProofLines

\* More proof lines than the protocol allows.
TooManyLines(n) == n > MaxProofLines

\* bytes.Cut fails on the last line of a body, so it is neither the old size nor the
\* blank line; the note is everything after the first blank line.
parseRequest(body) ==
    LET blank == SelectInSeq(Tail(body), LAMBDA l : l = Blank) + 1
        proof == SubSeq(body, 2, blank - 1)
        rest == SubSeq(body, blank + 1, Len(body))
    IN  IF \/ Len(body) < 2 \/ body[1].kind # "old"
           \/ blank = 1 \/ blank = Len(body)
           \/ \E i \in DOMAIN proof : proof[i].kind \notin {"hash", "otherHash"}
           \/ TooManyLines(Len(proof))
           \/ rest = <<Blank>>
        THEN Malformed
        ELSE [ok |-> TRUE,
              r |-> [old |-> body[1].value,
                     proof |-> [i \in DOMAIN proof |-> proof[i].value],
                     note |-> rest]]

-----------------------------------------------------------------------------
(* A body on its way *)

VARIABLES
    body,    \* what is posted
    meant    \* history: the request if a client encoded one, or none: {r} or {}

wireVars == <<body, meant>>

WireInit == body = <<>> /\ meant = {}

\* submit of the client.
SendRequest(r) == body' = EncodeAddCheckpoint(r) /\ meant' = {r}

\* Anything else on the endpoint.
SendOther(b) == body' = b /\ meant' = {}

WireNext ==
    \/ \E r \in Requests : SendRequest(r)
    \/ \E b \in BoundedSeq(Lines, MaxBodyLines) : SendOther(b)

WireSpec == WireInit /\ [][WireNext]_wireVars

-----------------------------------------------------------------------------
(* Properties *)

\* The witness reads the request the client meant, up to the longest proof allowed;
\* and of any body it accepts, encoding what it read gives a body it reads the same
\* (EncodeAddCheckpoint, parseRequest).
RequestsRoundTrip ==
    LET p == parseRequest(body)
    IN  /\ \A r \in meant : p = [ok |-> TRUE, r |-> r]
        /\ p.ok => parseRequest(EncodeAddCheckpoint(p.r)) = p
=============================================================================
