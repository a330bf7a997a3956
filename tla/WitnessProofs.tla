--------------------------- MODULE WitnessProofs ---------------------------
(***************************************************************************)
(* Proofs about Witness, for any number of handler goroutines, logs,       *)
(* heads, requests and signers, any pool size and any number of signer     *)
(* changes.                                                                *)
(***************************************************************************)
EXTENDS Witness, FiniteSetTheorems, TLAPS

-----------------------------------------------------------------------------
(* The inductive invariant *)

\* The sequencer holds w.mu exactly while it commits.
LockInv ==
    /\ mu = "sequencer" <=> seq = "put"
    /\ mu = "admin" => epoch < MaxEpoch

\* What a handler has in hand between its steps, and what it has answered.
HandlerOK(h) ==
    /\ h.at \in {"loaded", "parsed", "candidate", "wait"} =>
          h.req \in Requests /\ h.signer \in Signers
    /\ h.at \in {"parsed", "candidate"} => h.req.old <= SizeOf(h.req.head)
    /\ h.at = "done" =>
          /\ h.code # 0
          /\ h.code = 200 => h.sig = Cosig(h.req.head, h.req.ext, h.signer)

HandlerInv == \A c \in Clients : HandlerOK(client[c])

\* A handler on an entry of a pool waits for it, and for that text by that signer.
OnEntry(entries, c, o) == entries[o] # None /\ c \in entries[o].waiters

TracksWaiters(entries) ==
    \A c \in Clients, o \in Origins : OnEntry(entries, c, o) =>
        /\ client[c].at = "wait" /\ client[c].req.origin = o
        /\ Matches(entries[o], c)

\* Entries hold the handlers that wait, all of them and no others.
WaiterInv ==
    /\ TracksWaiters(pool)
    /\ TracksWaiters(inSeq)
    /\ \A c \in Clients : client[c].at = "wait" =>
          OnEntry(pool, c, client[c].req.origin) \/ OnEntry(inSeq, c, client[c].req.origin)

\* There is a batch only between a rotation and its retirement, it is signed with
\* the installed signer, and every entry has its result before it is closed.
BatchInv ==
    /\ seq \in {"stopped", "idle"} => \A o \in Origins : inSeq[o] = None
    /\ seq \in {"put", "retire"} => \A o \in Origins : inSeq[o] # None => inSeq[o].code # 0
    /\ SignerInUseIsInstalled

\* The empty tree has one head: no other head of size 0 was ever admitted.
EmptyOK(h) == SizeOf(h) = 0 => h = EmptyHead

EmptyInv ==
    \A o \in Origins : /\ mem[o] # NoNote => EmptyOK(mem[o])
                       /\ pool[o] # None => EmptyOK(pool[o].head)
                       /\ inSeq[o] # None => EmptyOK(inSeq[o].head)

WitnessInv ==
    /\ WitnessTypeOK /\ LockInv /\ HandlerInv /\ WaiterInv /\ BatchInv
    /\ EmptyInv /\ PendingExtendsStore

-----------------------------------------------------------------------------
(* Operators *)

\* An idle handler, and one that answers without a cosignature, are handlers.
LEMMA IdleType == Idle \in Handlers /\ HandlerOK(Idle) /\ Idle.at = "idle"
<1>1. 0 \in Sizes
    BY HeadsAssumption DEF Sizes
<1> QED
    BY <1>1, WitnessBounds DEF Idle, Handlers, HandlerOK, Codes

\* The answers that carry no cosignature, and the one of them with a size.
Answered(code) == [Idle EXCEPT !.at = "done", !.code = code]

Conflicted(code, size) == [Idle EXCEPT !.at = "done", !.code = code, !.latest = size]

\* An answer without a cosignature is a handler that is done.
LEMMA AnsweredType ==
    ASSUME NEW code \in Codes \ {0, 200}
    PROVE  Answered(code) \in Handlers /\ HandlerOK(Answered(code)) /\ Answered(code).at = "done"
<1>1. Answered(code) \in Handlers /\ Answered(code).at = "done" /\ Answered(code).code = code
    BY IdleType DEF Answered, Handlers
<1> QED
    BY <1>1 DEF HandlerOK

\* So is a conflict with the size of the stored head.
LEMMA ConflictedType ==
    ASSUME NEW code \in Codes \ {0, 200}, NEW size \in Sizes
    PROVE  LET h == Conflicted(code, size)
           IN  h \in Handlers /\ HandlerOK(h) /\ h.at = "done"
<1> DEFINE h == Conflicted(code, size)
<1>1. h \in Handlers /\ h.at = "done" /\ h.code = code
    BY IdleType DEF Conflicted, Handlers
<1> QED
    BY <1>1 DEF HandlerOK

\* The answer that carries one.
Cosigned(h, sig) == [h EXCEPT !.at = "done", !.code = 200, !.sig = sig]

\* So is an answer 200, for the request and under the signer it began with.
LEMMA CosignedType ==
    ASSUME NEW h \in Handlers, NEW sig \in Cosigs
    PROVE  /\ Cosigned(h, sig) \in Handlers
           /\ Cosigned(h, sig).at = "done" /\ Cosigned(h, sig).code = 200
           /\ Cosigned(h, sig).req = h.req /\ Cosigned(h, sig).signer = h.signer
           /\ Cosigned(h, sig).sig = sig
<1>1. 200 \in Codes
    BY DEF Codes
<1> QED
    BY <1>1 DEF Cosigned, Handlers

\* The size a conflict reports is the size of a head.
LEMMA LatestType ==
    ASSUME WitnessTypeOK, NEW o \in Origins
    PROVE  Latest(o) \in Sizes
BY HeadsAssumption DEF WitnessTypeOK, Views, Latest, SizeHeld, Sizes

\* addToPool's checks let in only heads that may replace the stored one.
LEMMA ConsistentExtends ==
    ASSUME NEW r \in Requests, NEW prev \in Heads \cup {NoNote},
           prev # NoNote => EmptyOK(prev),
           r.old = SizeHeld(prev), r.old <= SizeOf(r.head), Consistent(prev, r)
    PROVE  Extends(r.head, prev) /\ EmptyOK(r.head)
<1>1. r.head \in Heads /\ r.old \in Nat /\ SizeOf(r.head) \in Nat /\ r.head # NoNote
    BY RequestsAssumption, HeadsAssumption, NoNoteAssumption
<1>2. prev # NoNote => prev \in Heads /\ SizeOf(prev) \in Nat /\ r.old = SizeOf(prev)
    BY HeadsAssumption DEF SizeHeld
<1>3. CASE SizeOf(r.head) = 0
    <2>1. r.head = EmptyHead /\ r.old = 0
        BY <1>1, <1>3 DEF Consistent
    <2>2. prev # NoNote => prev = EmptyHead
        BY <1>2, <2>1 DEF EmptyOK
    <2> QED
        BY <2>1, <2>2, <1>1, FollowsAssumption DEF Extends, EmptyOK
<1>4. CASE SizeOf(r.head) # 0
    <2>1. EmptyOK(r.head)
        BY <1>4 DEF EmptyOK
    <2>2. CASE r.old = SizeOf(r.head)
        BY <1>1, <1>4, <2>1, <2>2, FollowsAssumption DEF Consistent, Extends
    <2>3. CASE r.old # SizeOf(r.head) /\ r.old = 0
        <3>1. prev # NoNote => prev = EmptyHead
            BY <1>2, <2>3 DEF EmptyOK
        <3> QED
            BY <1>1, <1>4, <2>1, <3>1, HeadsAssumption DEF Extends
    <2>4. CASE r.old # SizeOf(r.head) /\ r.old # 0
        BY <1>1, <1>4, <2>1, <2>4 DEF Consistent, Extends
    <2> QED
        BY <2>2, <2>3, <2>4
<1> QED
    BY <1>3, <1>4

\* The fields that a result leaves alone.
LEMMA ResultFields ==
    ASSUME NEW e \in Entries, NEW code \in Codes, NEW f, f = [e EXCEPT !.code = code]
    PROVE  /\ f \in Entries /\ f # None
           /\ f.head = e.head /\ f.ext = e.ext /\ f.signer = e.signer
           /\ f.epoch = e.epoch /\ f.waiters = e.waiters /\ f.code = code
<1>1. f \in Entries
    BY DEF Entries
<1>2. /\ f.head = e.head /\ f.ext = e.ext /\ f.signer = e.signer
      /\ f.epoch = e.epoch /\ f.waiters = e.waiters /\ f.code = code
    BY DEF Entries
<1> QED
    BY <1>1, <1>2, EntrySentinel

\* Results are set on entries, and change nothing else of them.
LEMMA ResultsType ==
    ASSUME NEW entries \in [Origins -> Entries \cup {None}],
           NEW codes \in [Origins -> Codes], NEW told, told = SetResults(entries, codes)
    PROVE  /\ told \in [Origins -> Entries \cup {None}]
           /\ \A o \in Origins :
                 /\ told[o] = None <=> entries[o] = None
                 /\ entries[o] # None =>
                       /\ told[o].head = entries[o].head /\ told[o].ext = entries[o].ext
                       /\ told[o].signer = entries[o].signer
                       /\ told[o].epoch = entries[o].epoch
                       /\ told[o].waiters = entries[o].waiters /\ told[o].code = codes[o]
<1>1. \A o \in Origins : told[o] = IF entries[o] = None THEN None
                                   ELSE [entries[o] EXCEPT !.code = codes[o]]
    BY DEF SetResults
<1>2. ASSUME NEW o \in Origins, entries[o] # None
      PROVE  /\ told[o] \in Entries /\ told[o] # None
             /\ told[o].head = entries[o].head /\ told[o].ext = entries[o].ext
             /\ told[o].signer = entries[o].signer
             /\ told[o].epoch = entries[o].epoch
             /\ told[o].waiters = entries[o].waiters /\ told[o].code = codes[o]
    <2>1. told[o] = [entries[o] EXCEPT !.code = codes[o]] /\ entries[o] \in Entries
          /\ codes[o] \in Codes
        BY <1>1, <1>2
    <2> QED
        BY <2>1, ResultFields
<1>3. told = [o \in Origins |-> told[o]]
    BY DEF SetResults
<1>4. \A o \in Origins : told[o] \in Entries \cup {None} /\ (told[o] = None <=> entries[o] = None)
    BY <1>1, <1>2
<1> QED
    BY <1>2, <1>3, <1>4

\* Closing the entries of a pool answers the handlers on it, with the result and
\* the text of their own entry, and nobody else.
LEMMA CloseAnswers ==
    ASSUME WitnessTypeOK, HandlerInv,
           NEW entries \in [Origins -> Entries \cup {None}], TracksWaiters(entries),
           \A o \in Origins : entries[o] # None => entries[o].code # 0,
           Close(entries)
    PROVE  /\ client' \in [Clients -> Handlers]
           /\ \A c \in Clients :
                 /\ (\E o \in Origins : OnEntry(entries, c, o)) => client'[c].at = "done"
                 /\ (\A o \in Origins : ~OnEntry(entries, c, o)) => client'[c] = client[c]
                 /\ HandlerOK(client'[c])
<1> DEFINE On(c, o) == entries[o] # None /\ c \in entries[o].waiters
           Place(c) == CHOOSE o \in Origins : On(c, o)
           Given(c) == LET e == entries[Place(c)]
                       IN  IF e.code = 200
                           THEN [client[c] EXCEPT !.at = "done", !.code = 200,
                                                  !.sig = Cosig(e.head, e.ext, e.signer)]
                           ELSE [Idle EXCEPT !.at = "done", !.code = e.code]
<1>1. ASSUME NEW c \in Clients, \E o \in Origins : On(c, o)
      PROVE  Given(c) \in Handlers /\ Given(c).at = "done" /\ HandlerOK(Given(c))
    <2>1. Place(c) \in Origins /\ On(c, Place(c))
        BY <1>1, Zenon
    <2> DEFINE e == entries[Place(c)]
    <2>2. e \in Entries /\ e.code # 0 /\ e.code \in Codes
        BY <2>1 DEF Entries
    <2>3. client[c] \in Handlers /\ client[c].at = "wait" /\ client[c].req \in Requests
        BY <2>1, <1>1 DEF WitnessTypeOK, TracksWaiters, OnEntry, HandlerInv, HandlerOK
    <2>4. e.head = client[c].req.head /\ e.ext = client[c].req.ext /\ e.signer = client[c].signer
        BY <2>1, <1>1 DEF TracksWaiters, OnEntry, Matches
    <2>0. Given(c) = IF e.code = 200
                     THEN [client[c] EXCEPT !.at = "done", !.code = 200,
                                            !.sig = Cosig(e.head, e.ext, e.signer)]
                     ELSE [Idle EXCEPT !.at = "done", !.code = e.code]
        OBVIOUS
    <2> HIDE DEF e, Place, Given
    <2>5. CASE e.code = 200
        <3>1. Cosig(e.head, e.ext, e.signer) \in Cosigs
            BY <2>2 DEF Cosig, Cosigs, Entries
        <3>2. Given(c) = Cosigned(client[c], Cosig(e.head, e.ext, e.signer))
            BY <2>0, <2>5 DEF Cosigned
        <3> QED
            BY <2>3, <2>4, <3>1, <3>2, CosignedType DEF HandlerOK
    <2>6. CASE e.code # 200
        <3>1. Given(c) = Answered(e.code)
            BY <2>0, <2>6 DEF Answered
        <3> QED
            BY <2>2, <2>6, <3>1, AnsweredType
    <2> QED
        BY <2>5, <2>6
<1>2. \A c \in Clients : client'[c] = IF \E o \in Origins : On(c, o) THEN Given(c) ELSE client[c]
    BY DEF Close
<1>3. client' = [c \in Clients |-> client'[c]]
    BY DEF Close
<1> HIDE DEF Given
<1>4. \A c \in Clients : client'[c] \in Handlers
    BY <1>1, <1>2 DEF WitnessTypeOK
<1> QED
    BY <1>1, <1>2, <1>3, <1>4 DEF OnEntry, HandlerInv

-----------------------------------------------------------------------------
(* Steps of one handler *)

\* A handler that neither was waiting nor starts to.
LEMMA HandlerMoves ==
    ASSUME WitnessInv, NEW c \in Clients, NEW h \in Handlers, HandlerOK(h),
           client[c].at # "wait", h.at # "wait", client' = [client EXCEPT ![c] = h],
           UNCHANGED <<signer, epoch, mu, pool, inSeq, seq, mem, halted, released>>
    PROVE  WitnessInv'
<1>1. client \in [Clients -> Handlers]
    BY DEF WitnessInv, WitnessTypeOK
<1>2. client' \in [Clients -> Handlers] /\ client'[c] = h
      /\ \A d \in Clients \ {c} : client'[d] = client[d]
    BY <1>1
<1>3. WitnessTypeOK'
    BY <1>2 DEF WitnessInv, WitnessTypeOK
<1>4. HandlerInv'
    BY <1>2 DEF WitnessInv, HandlerInv, HandlerOK
<1>5. WaiterInv'
    BY <1>2 DEF WitnessInv, WaiterInv, TracksWaiters, OnEntry, Matches
<1>6. LockInv' /\ BatchInv' /\ EmptyInv' /\ PendingExtendsStore'
    BY DEF WitnessInv, LockInv, BatchInv, SignerInUseIsInstalled, Batch, EmptyInv, EmptyOK,
           PendingExtendsStore, SignedStates, Extends
<1> QED
    BY <1>3, <1>4, <1>5, <1>6 DEF WitnessInv

\* An answer without a cosignature, of a handler that was not waiting.
LEMMA AnswerStep ==
    ASSUME WitnessInv, NEW c \in Clients, NEW code \in Codes \ {0, 200},
           Answer(c, code), client[c].at # "wait",
           UNCHANGED <<signer, epoch, mu, pool, inSeq, seq, mem, halted, released>>
    PROVE  WitnessInv'
<1> DEFINE h == Answered(code)
<1>1. h \in Handlers /\ HandlerOK(h) /\ h.at # "wait"
    BY AnsweredType
<1>2. client' = [client EXCEPT ![c] = h]
    BY DEF Answer, Answered
<1> HIDE DEF h
<1> QED
    BY <1>1, <1>2, HandlerMoves

\* What a handler that read a request holds.
LEMMA LoadedType ==
    ASSUME NEW r \in Requests, NEW s \in Signers
    PROVE  LET h == [Idle EXCEPT !.at = "loaded", !.req = r, !.signer = s]
           IN  h \in Handlers /\ HandlerOK(h) /\ h.at = "loaded"
<1> DEFINE h == [Idle EXCEPT !.at = "loaded", !.req = r, !.signer = s]
<1>1. h \in Handlers /\ h.at = "loaded" /\ h.req = r /\ h.signer = s
    BY IdleType DEF Handlers
<1> HIDE DEF h
<1>2. HandlerOK(h)
    BY <1>1 DEF HandlerOK
<1> QED
    BY <1>1, <1>2 DEF h

\* AddCheckpoint up to addToPool.
LEMMA LoadSignerPreserves ==
    ASSUME WitnessInv, NEW c \in Clients, NEW r \in Requests, LoadSigner(c, r)
    PROVE  WitnessInv'
<1>1. client[c].at # "wait"
    BY DEF LoadSigner
<1>2. CASE signer = NoSigner
    <2>1. 503 \in Codes \ {0, 200}
        BY DEF Codes
    <2> QED
        BY <1>1, <1>2, <2>1, AnswerStep DEF LoadSigner
<1>3. CASE signer # NoSigner
    <2> DEFINE h == [Idle EXCEPT !.at = "loaded", !.req = r, !.signer = signer]
    <2>1. h \in Handlers /\ HandlerOK(h) /\ h.at = "loaded"
        BY <1>3, LoadedType DEF WitnessInv, WitnessTypeOK
    <2>2. client' = [client EXCEPT ![c] = h]
        BY <1>3 DEF LoadSigner
    <2> HIDE DEF h
    <2> QED
        BY <1>1, <2>1, <2>2, HandlerMoves DEF LoadSigner
<1> QED
    BY <1>2, <1>3

\* Halted and the parsed sizes: the handler goes on or answers.
LEMMA CheckRequestPreserves ==
    ASSUME WitnessInv, NEW c \in Clients, CheckRequest(c)
    PROVE  WitnessInv'
<1>1. client[c].at = "loaded" /\ client[c] \in Handlers /\ HandlerOK(client[c])
      /\ client \in [Clients -> Handlers]
    BY DEF CheckRequest, WitnessInv, WitnessTypeOK, HandlerInv
<1>2. ASSUME NEW code \in {400, 503}, Answer(c, code)
      PROVE  WitnessInv'
    <2>1. code \in Codes \ {0, 200}
        BY <1>2 DEF Codes
    <2> QED
        BY <1>1, <1>2, <2>1, AnswerStep DEF CheckRequest
<1>3. ASSUME client[c].req.old <= SizeOf(client[c].req.head),
             client' = [client EXCEPT ![c].at = "parsed"]
      PROVE  WitnessInv'
    <2> DEFINE h == [client[c] EXCEPT !.at = "parsed"]
    <2>1. h \in Handlers /\ h.at = "parsed" /\ h.req = client[c].req
          /\ h.signer = client[c].signer
        BY <1>1 DEF Handlers
    <2>2. client' = [client EXCEPT ![c] = h]
        BY <1>1, <1>3
    <2> HIDE DEF h
    <2>3. HandlerOK(h)
        BY <1>1, <1>3, <2>1 DEF HandlerOK
    <2> QED
        BY <1>1, <2>1, <2>2, <2>3, HandlerMoves DEF CheckRequest
<1> QED
    BY <1>2, <1>3 DEF CheckRequest

\* The handler loads the epoch and nothing else changes.
LEMMA LoadEpochPreserves ==
    ASSUME WitnessInv, NEW c \in Clients, LoadEpoch(c)
    PROVE  WitnessInv'
<1> DEFINE h == [client[c] EXCEPT !.at = "candidate", !.epoch = epoch]
<1>1. client[c].at = "parsed" /\ client[c] \in Handlers /\ HandlerOK(client[c])
      /\ epoch \in 0..MaxEpoch /\ client \in [Clients -> Handlers]
    BY DEF LoadEpoch, WitnessInv, WitnessTypeOK, HandlerInv
<1>2. h \in Handlers /\ h.at = "candidate" /\ h.req = client[c].req
      /\ h.signer = client[c].signer
    BY <1>1 DEF Handlers
<1>3. client' = [client EXCEPT ![c] = h]
    BY <1>1 DEF LoadEpoch
<1> HIDE DEF h
<1>4. HandlerOK(h)
    BY <1>1, <1>2 DEF HandlerOK
<1> QED
    BY <1>1, <1>2, <1>3, <1>4, HandlerMoves DEF LoadEpoch

\* addToPool turns a candidate away: nothing but its handler changes.
LEMMA RefusePreserves ==
    ASSUME WitnessInv, NEW c \in Clients, AddToPool(c), Refuse(c)
    PROVE  WitnessInv'
<1>1. client[c].at = "candidate" /\ client[c].req.origin \in Origins
      /\ UNCHANGED <<signer, epoch, mu, pool, inSeq, seq, mem, halted, released>>
    BY RequestsAssumption
    DEF AddToPool, Refuse, poolVars, WitnessInv, HandlerInv, HandlerOK
<1>2. CASE AnswerConflict(c)
    <2> DEFINE h == Conflicted(409, Latest(client[c].req.origin))
    <2>1. Latest(client[c].req.origin) \in Sizes
        BY <1>1, LatestType DEF WitnessInv
    <2>2. 409 \in Codes \ {0, 200}
        BY DEF Codes
    <2>3. h \in Handlers /\ HandlerOK(h) /\ h.at = "done"
        BY <2>1, <2>2, ConflictedType
    <2>4. client' = [client EXCEPT ![c] = h]
        BY <1>2 DEF AnswerConflict, Conflicted
    <2> HIDE DEF h
    <2> QED
        BY <1>1, <2>3, <2>4, HandlerMoves
<1>3. ASSUME NEW code \in {422, 429}, Answer(c, code)
      PROVE  WitnessInv'
    <2>1. code \in Codes \ {0, 200}
        BY <1>3 DEF Codes
    <2> QED
        BY <1>1, <1>3, <2>1, AnswerStep
<1> QED
    BY <1>2, <1>3 DEF Refuse, AnswerFull

-----------------------------------------------------------------------------
(* Handlers that start to wait *)

\* A candidate that waits keeps what it holds, and no other handler changes.
LEMMA WaitHandlers ==
    ASSUME WitnessInv, NEW c \in Clients, client[c].at = "candidate", Wait(c)
    PROVE  /\ client' \in [Clients -> Handlers] /\ HandlerInv'
           /\ client'[c].at = "wait" /\ client'[c].req = client[c].req
           /\ client'[c].signer = client[c].signer /\ client'[c].epoch = client[c].epoch
           /\ \A d \in Clients \ {c} : client'[d] = client[d]
<1> DEFINE h == [client[c] EXCEPT !.at = "wait"]
<1>1. client \in [Clients -> Handlers] /\ client[c] \in Handlers /\ HandlerOK(client[c])
    BY DEF WitnessInv, WitnessTypeOK, HandlerInv
<1>2. h \in Handlers /\ h.at = "wait" /\ h.req = client[c].req /\ h.signer = client[c].signer
      /\ h.epoch = client[c].epoch
    BY <1>1 DEF Handlers
<1>3. client' = [client EXCEPT ![c] = h]
    BY <1>1 DEF Wait
<1> HIDE DEF h
<1>4. HandlerOK(h)
    BY <1>1, <1>2 DEF HandlerOK
<1>5. client'[c] = h /\ \A d \in Clients \ {c} : client'[d] = client[d]
    BY <1>1, <1>3
<1>6. HandlerInv'
    BY <1>4, <1>5 DEF WitnessInv, HandlerInv, HandlerOK
<1> QED
    BY <1>1, <1>2, <1>3, <1>5, <1>6

\* One more handler on an entry changes nothing else of it.
LEMMA JoinEntries ==
    ASSUME NEW entries \in [Origins -> Entries \cup {None}], NEW o \in Origins,
           entries[o] # None, NEW c \in Clients
    PROVE  LET joined == [entries EXCEPT ![o].waiters = @ \cup {c}]
           IN  /\ joined \in [Origins -> Entries \cup {None}]
               /\ \A p \in Origins \ {o} : joined[p] = entries[p]
               /\ joined[o] \in Entries /\ joined[o] # None
               /\ joined[o].waiters = entries[o].waiters \cup {c}
               /\ joined[o].head = entries[o].head /\ joined[o].ext = entries[o].ext
               /\ joined[o].signer = entries[o].signer /\ joined[o].epoch = entries[o].epoch
               /\ joined[o].code = entries[o].code
<1> DEFINE e == [entries[o] EXCEPT !.waiters = @ \cup {c}]
           joined == [entries EXCEPT ![o].waiters = @ \cup {c}]
<1>1. entries[o] \in Entries
    OBVIOUS
<1>2. /\ e \in Entries /\ e.waiters = entries[o].waiters \cup {c}
      /\ e.head = entries[o].head /\ e.ext = entries[o].ext
      /\ e.signer = entries[o].signer /\ e.epoch = entries[o].epoch
      /\ e.code = entries[o].code
    BY <1>1 DEF Entries
<1>3. joined = [entries EXCEPT ![o] = e]
    OBVIOUS
<1> HIDE DEF e, joined
<1>4. joined[o] = e /\ joined \in [Origins -> Entries \cup {None}]
      /\ \A p \in Origins \ {o} : joined[p] = entries[p]
    BY <1>2, <1>3
<1> QED
    BY <1>2, <1>4, EntrySentinel DEF joined

\* matchPending: the candidate joins an entry of its text.
LEMMA JoinPreserves ==
    ASSUME WitnessInv, NEW c \in Clients, AddToPool(c), JoinPending(c)
    PROVE  WitnessInv'
<1> DEFINE o == client[c].req.origin
<1>0. client[c].at = "candidate" /\ o \in Origins /\ Wait(c)
      /\ UNCHANGED <<signer, epoch, mu, seq, mem, halted, released>>
    BY RequestsAssumption DEF AddToPool, JoinPending, WitnessInv, HandlerInv, HandlerOK
<1>1. /\ client' \in [Clients -> Handlers] /\ HandlerInv'
      /\ client'[c].at = "wait" /\ client'[c].req = client[c].req
      /\ client'[c].signer = client[c].signer /\ client'[c].epoch = client[c].epoch
      /\ \A d \in Clients \ {c} : client'[d] = client[d]
    BY <1>0, WaitHandlers
<1>2. pool \in [Origins -> Entries \cup {None}] /\ inSeq \in [Origins -> Entries \cup {None}]
    BY DEF WitnessInv, WitnessTypeOK
<1> HIDE DEF o
<1>3. CASE pool[o] # None
    <2>1. pool' = [pool EXCEPT ![o].waiters = @ \cup {c}] /\ inSeq' = inSeq /\ Matches(pool[o], c)
        BY <1>3 DEF JoinPending, Pending, o
    <2>2. /\ pool' \in [Origins -> Entries \cup {None}]
          /\ \A p \in Origins \ {o} : pool'[p] = pool[p]
          /\ pool'[o] # None /\ pool'[o].waiters = pool[o].waiters \cup {c}
          /\ pool'[o].head = pool[o].head /\ pool'[o].ext = pool[o].ext
          /\ pool'[o].signer = pool[o].signer /\ pool'[o].epoch = pool[o].epoch
        BY <1>0, <1>2, <1>3, <2>1, JoinEntries
    <2>3. WitnessTypeOK' /\ LockInv'
        BY <1>0, <1>1, <2>1, <2>2 DEF WitnessInv, WitnessTypeOK, LockInv
    <2>4. WaiterInv'
        <3>0. \A d \in Clients, p \in Origins :
                 /\ OnEntry(pool, d, p)' => OnEntry(pool, d, p) \/ (d = c /\ p = o)
                 /\ OnEntry(pool, d, p) => OnEntry(pool, d, p)'
                 /\ OnEntry(pool, d, p) => d # c
            BY <1>0, <2>2, <1>3 DEF WitnessInv, WaiterInv, TracksWaiters, OnEntry
        <3>1. TracksWaiters(pool)'
            <4> SUFFICES ASSUME NEW d \in Clients, NEW p \in Origins, OnEntry(pool, d, p)'
                         PROVE  /\ client'[d].at = "wait" /\ client'[d].req.origin = p
                                /\ Matches(pool[p], d)'
                BY DEF TracksWaiters
            <4>1. CASE d = c /\ p = o
                BY <1>1, <2>1, <2>2, <4>1 DEF Matches, o
            <4>2. CASE OnEntry(pool, d, p)
                <5>1. d # c /\ client[d].at = "wait" /\ client[d].req.origin = p
                      /\ Matches(pool[p], d)
                    BY <3>0, <4>2 DEF WitnessInv, WaiterInv, TracksWaiters
                <5> QED
                    BY <1>1, <2>2, <5>1 DEF Matches
            <4> QED
                BY <3>0, <4>1, <4>2
        <3>2. TracksWaiters(inSeq)'
            BY <1>0, <1>1, <2>1 DEF WitnessInv, WaiterInv, TracksWaiters, OnEntry, Matches
        <3>3. ASSUME NEW d \in Clients, client'[d].at = "wait"
              PROVE  OnEntry(pool, d, client[d].req.origin)' \/ OnEntry(inSeq, d, client[d].req.origin)'
            <4>1. CASE d = c
                BY <1>1, <2>2, <4>1 DEF OnEntry, o
            <4>2. CASE d # c
                <5>1. client'[d] = client[d] /\ client[d].req.origin \in Origins
                    BY <1>1, <3>3, <4>2, RequestsAssumption DEF WitnessInv, HandlerInv, HandlerOK
                <5>2. \/ OnEntry(pool, d, client[d].req.origin)
                      \/ OnEntry(inSeq, d, client[d].req.origin)
                    BY <3>3, <5>1 DEF WitnessInv, WaiterInv
                <5> QED
                    BY <2>1, <3>0, <5>1, <5>2 DEF OnEntry
            <4> QED
                BY <4>1, <4>2
        <3> QED
            BY <3>1, <3>2, <3>3 DEF WaiterInv
    <2>5. BatchInv'
        BY <1>0, <2>1 DEF WitnessInv, BatchInv, SignerInUseIsInstalled, Batch
    <2>6. EmptyInv' /\ PendingExtendsStore'
        BY <1>0, <1>3, <2>1, <2>2
        DEF WitnessInv, EmptyInv, EmptyOK, PendingExtendsStore, SignedStates, Extends
    <2> QED
        BY <1>1, <2>3, <2>4, <2>5, <2>6 DEF WitnessInv
<1>4. CASE pool[o] = None
    <2>1. inSeq' = [inSeq EXCEPT ![o].waiters = @ \cup {c}] /\ pool' = pool
          /\ Matches(inSeq[o], c) /\ inSeq[o] # None
        BY <1>4 DEF JoinPending, Pending, o
    <2>2. /\ inSeq' \in [Origins -> Entries \cup {None}]
          /\ \A p \in Origins \ {o} : inSeq'[p] = inSeq[p]
          /\ inSeq'[o] # None /\ inSeq'[o].waiters = inSeq[o].waiters \cup {c}
          /\ inSeq'[o].head = inSeq[o].head /\ inSeq'[o].ext = inSeq[o].ext
          /\ inSeq'[o].signer = inSeq[o].signer /\ inSeq'[o].epoch = inSeq[o].epoch
          /\ inSeq'[o].code = inSeq[o].code
        BY <1>0, <1>2, <2>1, JoinEntries
    <2>3. WitnessTypeOK' /\ LockInv'
        BY <1>0, <1>1, <2>1, <2>2 DEF WitnessInv, WitnessTypeOK, LockInv
    <2>4. WaiterInv'
        <3>0. \A d \in Clients, p \in Origins :
                 /\ OnEntry(inSeq, d, p)' => OnEntry(inSeq, d, p) \/ (d = c /\ p = o)
                 /\ OnEntry(inSeq, d, p) => OnEntry(inSeq, d, p)'
                 /\ OnEntry(inSeq, d, p) => d # c
            BY <1>0, <2>1, <2>2 DEF WitnessInv, WaiterInv, TracksWaiters, OnEntry
        <3>1. TracksWaiters(inSeq)'
            <4> SUFFICES ASSUME NEW d \in Clients, NEW p \in Origins, OnEntry(inSeq, d, p)'
                         PROVE  /\ client'[d].at = "wait" /\ client'[d].req.origin = p
                                /\ Matches(inSeq[p], d)'
                BY DEF TracksWaiters
            <4>1. CASE d = c /\ p = o
                BY <1>1, <2>1, <2>2, <4>1 DEF Matches, o
            <4>2. CASE OnEntry(inSeq, d, p)
                <5>1. d # c /\ client[d].at = "wait" /\ client[d].req.origin = p
                      /\ Matches(inSeq[p], d)
                    BY <3>0, <4>2 DEF WitnessInv, WaiterInv, TracksWaiters
                <5> QED
                    BY <1>1, <2>2, <5>1 DEF Matches
            <4> QED
                BY <3>0, <4>1, <4>2
        <3>2. TracksWaiters(pool)'
            BY <1>0, <1>1, <2>1 DEF WitnessInv, WaiterInv, TracksWaiters, OnEntry, Matches
        <3>3. ASSUME NEW d \in Clients, client'[d].at = "wait"
              PROVE  OnEntry(pool, d, client[d].req.origin)' \/ OnEntry(inSeq, d, client[d].req.origin)'
            <4>1. CASE d = c
                BY <1>1, <2>2, <4>1 DEF OnEntry, o
            <4>2. CASE d # c
                <5>1. client'[d] = client[d] /\ client[d].req.origin \in Origins
                    BY <1>1, <3>3, <4>2, RequestsAssumption DEF WitnessInv, HandlerInv, HandlerOK
                <5>2. \/ OnEntry(pool, d, client[d].req.origin)
                      \/ OnEntry(inSeq, d, client[d].req.origin)
                    BY <3>3, <5>1 DEF WitnessInv, WaiterInv
                <5> QED
                    BY <2>1, <3>0, <5>1, <5>2 DEF OnEntry
            <4> QED
                BY <4>1, <4>2
        <3> QED
            BY <3>1, <3>2, <3>3 DEF WaiterInv
    <2>5. BatchInv'
        BY <1>0, <2>1, <2>2 DEF WitnessInv, BatchInv, SignerInUseIsInstalled, Batch
    <2>6. \A p \in Origins : SignedStates'[p] = SignedStates[p]
        BY <2>1, <2>2 DEF SignedStates
    <2>7. EmptyInv'
        BY <1>0, <2>1, <2>2 DEF WitnessInv, EmptyInv, EmptyOK
    <2>8. PendingExtendsStore'
        BY <1>0, <1>4, <2>1, <2>2, <2>6 DEF WitnessInv, PendingExtendsStore, Extends
    <2> QED
        BY <1>1, <2>3, <2>4, <2>5, <2>7, <2>8 DEF WitnessInv
<1> QED
    BY <1>3, <1>4

\* A candidate of a log with nothing pending, checked against the stored head.
LEMMA AdmitPreserves ==
    ASSUME WitnessInv, NEW c \in Clients, AddToPool(c), Admit(c)
    PROVE  WitnessInv'
<1> DEFINE r == client[c].req
           o == r.origin
           e == NewEntry(c)
<1>0. /\ client[c].at = "candidate" /\ r \in Requests /\ o \in Origins
      /\ client[c].signer \in Signers /\ client[c] \in Handlers
      /\ r.head \in Heads /\ r.old <= SizeOf(r.head) /\ Wait(c)
      /\ UNCHANGED <<signer, epoch, mu, inSeq, seq, mem, halted, released>>
    BY RequestsAssumption
    DEF AddToPool, Admit, WitnessInv, HandlerInv, HandlerOK, WitnessTypeOK
<1>1. /\ client' \in [Clients -> Handlers] /\ HandlerInv'
      /\ client'[c].at = "wait" /\ client'[c].req = client[c].req
      /\ client'[c].signer = client[c].signer /\ client'[c].epoch = client[c].epoch
      /\ \A d \in Clients \ {c} : client'[d] = client[d]
    BY <1>0, WaitHandlers
<1>2. /\ e \in Entries /\ e.head = r.head /\ e.ext = r.ext /\ e.signer = client[c].signer
      /\ e.epoch = client[c].epoch /\ e.waiters = {c} /\ e # None
    <2>1. 0 \in Codes
        BY DEF Codes
    <2>2. client[c].epoch \in 0..MaxEpoch /\ r.ext \in {q.ext : q \in Requests}
        BY <1>0 DEF Handlers
    <2> HIDE DEF r
    <2>3. e \in Entries
        BY <1>0, <2>1, <2>2 DEF NewEntry, Entries, r
    <2> QED
        BY <2>3, EntrySentinel DEF NewEntry, r
<1>3. pool[o] = None /\ inSeq[o] = None /\ pool' = [pool EXCEPT ![o] = e]
    BY DEF Admit, Pending
<1>4. Extends(r.head, mem[o]) /\ EmptyOK(r.head)
    <2>1. mem[o] \in Heads \cup {NoNote} /\ (mem[o] # NoNote => EmptyOK(mem[o]))
        BY <1>0 DEF WitnessInv, WitnessTypeOK, Views, EmptyInv
    <2>2. r.old = SizeHeld(mem[o]) /\ Consistent(mem[o], r)
        BY DEF Admit, Latest
    <2> HIDE DEF r, o
    <2> QED
        BY <1>0, <2>1, <2>2, ConsistentExtends
<1> HIDE DEF r, o, e
<1>5. /\ pool' \in [Origins -> Entries \cup {None}] /\ pool'[o] = e
      /\ \A p \in Origins \ {o} : pool'[p] = pool[p]
    BY <1>0, <1>2, <1>3 DEF WitnessInv, WitnessTypeOK
<1>6. WitnessTypeOK' /\ LockInv'
    BY <1>0, <1>1, <1>5 DEF WitnessInv, WitnessTypeOK, LockInv
<1>7. WaiterInv'
    <2>1. TracksWaiters(pool)'
        BY <1>0, <1>1, <1>2, <1>5
        DEF WitnessInv, WaiterInv, TracksWaiters, OnEntry, Matches, r, o
    <2>2. TracksWaiters(inSeq)'
        BY <1>0, <1>1 DEF WitnessInv, WaiterInv, TracksWaiters, OnEntry, Matches
    <2>3. \A d \in Clients : client'[d].at = "wait" =>
             OnEntry(pool, d, client[d].req.origin)' \/ OnEntry(inSeq, d, client[d].req.origin)'
        BY <1>0, <1>1, <1>2, <1>3, <1>5 DEF WitnessInv, WaiterInv, OnEntry, r, o
    <2> QED
        BY <2>1, <2>2, <2>3 DEF WaiterInv
<1>8. BatchInv'
    BY <1>0 DEF WitnessInv, BatchInv, SignerInUseIsInstalled, Batch
<1>9. EmptyInv'
    BY <1>0, <1>2, <1>4, <1>5 DEF WitnessInv, EmptyInv, EmptyOK
<1>10. PendingExtendsStore'
    BY <1>0, <1>2, <1>3, <1>4, <1>5 DEF WitnessInv, PendingExtendsStore, SignedStates, Extends
<1> QED
    BY <1>1, <1>6, <1>7, <1>8, <1>9, <1>10 DEF WitnessInv

-----------------------------------------------------------------------------
(* The signer and the sequencer *)

\* The provisioning server's two steps wait for a commit under way.
LEMMA SignerPreserves ==
    ASSUME WitnessInv, SignerNext
    PROVE  WitnessInv'
<1>1. CASE AddEpoch
    <2>1. epoch \in 0..MaxEpoch /\ epoch < MaxEpoch /\ seq # "put"
        BY <1>1 DEF AddEpoch, WitnessInv, WitnessTypeOK, LockInv
    <2>2. epoch' \in 0..MaxEpoch
        BY <1>1, <2>1, WitnessBounds DEF AddEpoch
    <2>3. WitnessTypeOK' /\ LockInv' /\ BatchInv'
        BY <1>1, <2>1, <2>2
        DEF AddEpoch, WitnessInv, WitnessTypeOK, LockInv, BatchInv, SignerInUseIsInstalled
    <2>4. HandlerInv' /\ WaiterInv'
        BY <1>1
        DEF AddEpoch, WitnessInv, HandlerInv, HandlerOK, WaiterInv, TracksWaiters, OnEntry, Matches
    <2>5. EmptyInv' /\ PendingExtendsStore'
        BY <1>1
        DEF AddEpoch, WitnessInv, EmptyInv, EmptyOK, PendingExtendsStore, SignedStates, Extends
    <2> QED
        BY <2>3, <2>4, <2>5 DEF WitnessInv
<1>2. ASSUME NEW s \in Signers \cup {NoSigner}, StoreSigner(s)
      PROVE  WitnessInv'
    <2>1. seq # "put"
        BY <1>2 DEF StoreSigner, WitnessInv, LockInv
    <2>2. WitnessTypeOK' /\ LockInv' /\ BatchInv'
        BY <1>2, <2>1
        DEF StoreSigner, WitnessInv, WitnessTypeOK, LockInv, BatchInv, SignerInUseIsInstalled
    <2>3. HandlerInv' /\ WaiterInv'
        BY <1>2
        DEF StoreSigner, WitnessInv, HandlerInv, HandlerOK, WaiterInv, TracksWaiters, OnEntry, Matches
    <2>4. EmptyInv' /\ PendingExtendsStore'
        BY <1>2
        DEF StoreSigner, WitnessInv, EmptyInv, EmptyOK, PendingExtendsStore, SignedStates, Extends
    <2> QED
        BY <2>2, <2>3, <2>4 DEF WitnessInv
<1> QED
    BY <1>1, <1>2 DEF SignerNext

\* A GET changes nothing but what has left.
LEMMA CheckpointPreserves ==
    ASSUME WitnessInv, NEW o \in Origins, Checkpoint(o)
    PROVE  WitnessInv'
<1>1. released' \in [Origins -> SUBSET Heads]
    BY DEF Checkpoint, WitnessInv, WitnessTypeOK, Views
<1>2. WitnessTypeOK' /\ LockInv' /\ BatchInv'
    BY <1>1 DEF Checkpoint, WitnessInv, WitnessTypeOK, LockInv, BatchInv,
                SignerInUseIsInstalled, Batch
<1>3. HandlerInv' /\ WaiterInv'
    BY DEF Checkpoint, WitnessInv, HandlerInv, HandlerOK, WaiterInv, TracksWaiters, OnEntry, Matches
<1>4. EmptyInv' /\ PendingExtendsStore'
    BY DEF Checkpoint, WitnessInv, EmptyInv, EmptyOK, PendingExtendsStore, SignedStates, Extends
<1> QED
    BY <1>2, <1>3, <1>4 DEF WitnessInv

\* The sequencer starts, or a tick turns the pool into the batch.
LEMMA RotatePreserves ==
    ASSUME WitnessInv, RunSequencer \/ Rotate
    PROVE  WitnessInv'
<1>1. seq \in {"stopped", "idle"} /\ \A o \in Origins : inSeq[o] = None
    BY DEF RunSequencer, Rotate, WitnessInv, BatchInv
<1>2. CASE RunSequencer
    <2>1. WitnessTypeOK' /\ LockInv' /\ BatchInv'
        BY <1>1, <1>2 DEF RunSequencer, WitnessInv, WitnessTypeOK, LockInv, BatchInv,
                          SignerInUseIsInstalled
    <2>2. HandlerInv' /\ WaiterInv'
        BY <1>2
        DEF RunSequencer, WitnessInv, HandlerInv, HandlerOK, WaiterInv, TracksWaiters, OnEntry, Matches
    <2>3. EmptyInv' /\ PendingExtendsStore'
        BY <1>1, <1>2
        DEF RunSequencer, WitnessInv, EmptyInv, EmptyOK, PendingExtendsStore, SignedStates, Extends
    <2> QED
        BY <2>1, <2>2, <2>3 DEF WitnessInv
<1>3. CASE Rotate
    <2>1. WitnessTypeOK' /\ LockInv' /\ BatchInv'
        BY <1>3 DEF Rotate, WitnessInv, WitnessTypeOK, LockInv, BatchInv, SignerInUseIsInstalled
    <2>2. HandlerInv'
        BY <1>3 DEF Rotate, WitnessInv, HandlerInv, HandlerOK
    <2>3. WaiterInv'
        BY <1>1, <1>3, RequestsAssumption
        DEF Rotate, WitnessInv, HandlerInv, HandlerOK, WaiterInv, TracksWaiters, OnEntry, Matches
    <2>4. EmptyInv' /\ PendingExtendsStore'
        BY <1>3
        DEF Rotate, WitnessInv, EmptyInv, EmptyOK, PendingExtendsStore, SignedStates, Extends
    <2> QED
        BY <2>1, <2>2, <2>3, <2>4 DEF WitnessInv
<1> QED
    BY <1>2, <1>3

\* Setting the results of the batch: whoever waits waits on for the same text.
LEMMA ResultsKeep ==
    ASSUME WitnessInv, NEW codes \in [Origins -> Codes], inSeq' = SetResults(inSeq, codes),
           UNCHANGED <<pool, mem, client>>
    PROVE  /\ inSeq' \in [Origins -> Entries \cup {None}]
           /\ \A o \in Origins : /\ inSeq'[o] = None <=> inSeq[o] = None
                                 /\ inSeq[o] # None =>
                                       /\ inSeq'[o].head = inSeq[o].head
                                       /\ inSeq'[o].signer = inSeq[o].signer
                                       /\ inSeq'[o].epoch = inSeq[o].epoch
                                       /\ inSeq'[o].code = codes[o]
           /\ HandlerInv' /\ WaiterInv' /\ EmptyInv'
<1>1. inSeq \in [Origins -> Entries \cup {None}]
    BY DEF WitnessInv, WitnessTypeOK
<1>2. /\ inSeq' \in [Origins -> Entries \cup {None}]
      /\ \A o \in Origins : inSeq'[o] = None <=> inSeq[o] = None
    BY <1>1, ResultsType
<1>3. \A o \in Origins : inSeq[o] # None =>
         /\ inSeq'[o].head = inSeq[o].head /\ inSeq'[o].ext = inSeq[o].ext
         /\ inSeq'[o].signer = inSeq[o].signer /\ inSeq'[o].epoch = inSeq[o].epoch
         /\ inSeq'[o].waiters = inSeq[o].waiters /\ inSeq'[o].code = codes[o]
    BY <1>1, ResultsType
<1>4. HandlerInv'
    BY DEF WitnessInv, HandlerInv, HandlerOK
<1>5. WaiterInv'
    <2>1. TracksWaiters(pool)'
        BY DEF WitnessInv, WaiterInv, TracksWaiters, OnEntry, Matches
    <2>2. TracksWaiters(inSeq)'
        BY <1>2, <1>3 DEF WitnessInv, WaiterInv, TracksWaiters, OnEntry, Matches
    <2>3. \A d \in Clients : client[d].at = "wait" => client[d].req.origin \in Origins
        BY RequestsAssumption DEF WitnessInv, HandlerInv, HandlerOK
    <2> QED
        BY <1>2, <1>3, <2>1, <2>2, <2>3 DEF WitnessInv, WaiterInv, OnEntry
<1>6. EmptyInv'
    BY <1>2, <1>3 DEF WitnessInv, EmptyInv, EmptyOK
<1> QED
    BY <1>2, <1>3, <1>4, <1>5, <1>6

\* sequencePool up to PutBatch.
LEMMA SignPreserves ==
    ASSUME WitnessInv, Sign
    PROVE  WitnessInv'
<1>0. seq = "rotated" /\ mu = "free" /\ UNCHANGED <<signer, epoch, pool, mem, halted, client, released>>
    BY DEF Sign, SignNothing, SignBatch
<1>1. \A o \in Origins : /\ pool[o] # None => inSeq[o] = None /\ Extends(pool[o].head, mem[o])
                         /\ inSeq[o] # None => Extends(inSeq[o].head, mem[o])
    BY <1>0 DEF WitnessInv, PendingExtendsStore
<1>2. CASE SignNothing
    <2>1. PICK code \in {500, 503} : inSeq' = SetResults(inSeq, [o \in Origins |-> code])
        BY <1>2 DEF SignNothing, SetPoolResult
    <2> DEFINE codes == [o \in Origins |-> code]
    <2>2. codes \in [Origins -> Codes] /\ \A o \in Origins : codes[o] = code
        BY DEF Codes
    <2> HIDE DEF codes
    <2>3. /\ inSeq' \in [Origins -> Entries \cup {None}]
          /\ \A o \in Origins : /\ inSeq'[o] = None <=> inSeq[o] = None
                                /\ inSeq[o] # None => inSeq'[o].code = codes[o]
          /\ HandlerInv' /\ WaiterInv' /\ EmptyInv'
        BY <1>0, <2>1, <2>2, ResultsKeep DEF codes
    <2>4. \A o \in Origins : inSeq'[o] # None => inSeq'[o].code # 0 /\ inSeq'[o].code # 200
        BY <2>2, <2>3
    <2>5. seq' = "retire" /\ mu' = "free"
        BY <1>0, <1>2 DEF SignNothing
    <2>6. WitnessTypeOK' /\ LockInv' /\ BatchInv'
        BY <1>0, <2>3, <2>4, <2>5
        DEF WitnessInv, WitnessTypeOK, LockInv, BatchInv, SignerInUseIsInstalled
    <2>7. PendingExtendsStore'
        BY <1>0, <1>1, <2>3, <2>4, <2>5 DEF PendingExtendsStore, SignedStates, Extends
    <2> QED
        BY <2>3, <2>6, <2>7 DEF WitnessInv
<1>3. CASE SignBatch
    <2> DEFINE codes == [o \in Origins |-> IF o \in Current THEN 200 ELSE 503]
    <2>1. inSeq' = SetResults(inSeq, codes) /\ seq' = "put" /\ mu' = "sequencer"
        BY <1>3 DEF SignBatch
    <2>2. codes \in [Origins -> Codes]
        BY DEF Codes
    <2>3. \A o \in Origins : codes[o] # 0 /\ (codes[o] = 200 => o \in Current)
        OBVIOUS
    <2> HIDE DEF codes
    <2>4. /\ inSeq' \in [Origins -> Entries \cup {None}]
          /\ \A o \in Origins : /\ inSeq'[o] = None <=> inSeq[o] = None
                                /\ inSeq[o] # None =>
                                      /\ inSeq'[o].head = inSeq[o].head
                                      /\ inSeq'[o].signer = inSeq[o].signer
                                      /\ inSeq'[o].epoch = inSeq[o].epoch
                                      /\ inSeq'[o].code = codes[o]
          /\ HandlerInv' /\ WaiterInv' /\ EmptyInv'
        BY <1>0, <2>1, <2>2, ResultsKeep
    <2>5. WitnessTypeOK' /\ LockInv'
        BY <1>0, <2>1, <2>4 DEF WitnessInv, WitnessTypeOK, LockInv
    <2>6. BatchInv'
        BY <1>0, <2>1, <2>3, <2>4 DEF BatchInv, SignerInUseIsInstalled, Batch, Current
    <2>7. PendingExtendsStore'
        BY <1>0, <1>1, <2>1, <2>4 DEF PendingExtendsStore, Extends
    <2> QED
        BY <2>4, <2>5, <2>6, <2>7 DEF WitnessInv
<1> QED
    BY <1>2, <1>3 DEF Sign

\* PutBatch returned an error.
LEMMA PutFailsPreserves ==
    ASSUME WitnessInv, PutFails
    PROVE  WitnessInv'
<1> DEFINE codes == [o \in Origins |-> 500]
<1>0. /\ seq = "put" /\ seq' = "retire" /\ mu' = "free" /\ halted' \in BOOLEAN
      /\ UNCHANGED <<signer, epoch, pool, mem, client, released>>
      /\ inSeq' = SetResults(inSeq, codes)
    BY DEF PutFails, SetPoolResult
<1>1. codes \in [Origins -> Codes] /\ \A o \in Origins : codes[o] = 500
    BY DEF Codes
<1> HIDE DEF codes
<1>2. /\ inSeq' \in [Origins -> Entries \cup {None}]
      /\ \A o \in Origins : /\ inSeq'[o] = None <=> inSeq[o] = None
                            /\ inSeq[o] # None => inSeq'[o].code = codes[o]
      /\ HandlerInv' /\ WaiterInv' /\ EmptyInv'
    BY <1>0, <1>1, ResultsKeep
<1>3. \A o \in Origins : inSeq'[o] # None => inSeq'[o].code # 0 /\ inSeq'[o].code # 200
    BY <1>1, <1>2
<1>4. WitnessTypeOK' /\ LockInv' /\ BatchInv'
    BY <1>0, <1>2, <1>3
    DEF WitnessInv, WitnessTypeOK, LockInv, BatchInv, SignerInUseIsInstalled
<1>5. PendingExtendsStore'
    BY <1>0, <1>2, <1>3 DEF WitnessInv, PendingExtendsStore, SignedStates, Extends
<1> QED
    BY <1>2, <1>4, <1>5 DEF WitnessInv

\* What PutBatch is given extends what the store holds, log by log.
LEMMA SignedExtends ==
    ASSUME WitnessInv, seq = "put"
    PROVE  /\ SignedStates \in Views
           /\ \A o \in Origins : SignedStates[o] # NoNote =>
                 /\ inSeq[o] # None /\ SignedStates[o] = inSeq[o].head
                 /\ Extends(SignedStates[o], mem[o])
           /\ Merge(mem, SignedStates) \in Views
           /\ ExtendsAll(Merge(mem, SignedStates), mem)
<1>1. \A o \in Origins : inSeq[o] # None => inSeq[o].head \in Heads /\ Extends(inSeq[o].head, mem[o])
    BY DEF WitnessInv, WitnessTypeOK, Entries, PendingExtendsStore
<1>2. SignedStates \in Views
    BY <1>1 DEF SignedStates, Views
<1>3. \A o \in Origins : SignedStates[o] # NoNote =>
         inSeq[o] # None /\ SignedStates[o] = inSeq[o].head /\ Extends(SignedStates[o], mem[o])
    BY <1>1 DEF SignedStates
<1>4. mem \in Views
    BY DEF WitnessInv, WitnessTypeOK
<1>5. Merge(mem, SignedStates) \in Views
    BY <1>2, <1>4 DEF Merge, Views
<1>6. \A o \in Origins : mem[o] \in Heads \cup {NoNote} /\ Extends(mem[o], mem[o])
    BY <1>4, FollowsAssumption DEF Views, Extends
<1>7. ExtendsAll(Merge(mem, SignedStates), mem)
    BY <1>3, <1>6 DEF ExtendsAll, Merge
<1> QED
    BY <1>2, <1>3, <1>5, <1>7

\* PutBatch returned nil.
LEMMA PutSucceedsPreserves ==
    ASSUME WitnessInv, PutSucceeds
    PROVE  WitnessInv'
<1>0. /\ seq = "put" /\ seq' = "retire" /\ mu' = "free"
      /\ mem' = Merge(mem, SignedStates)
      /\ UNCHANGED <<signer, epoch, pool, inSeq, halted, client, released>>
    BY DEF PutSucceeds
<1>1. SignedStates' = SignedStates
    BY <1>0 DEF SignedStates
<1>2. mem' \in Views
    BY <1>0, SignedExtends
<1>3. \A o \in Origins : /\ SignedStates[o] # NoNote =>
                               mem'[o] = SignedStates[o] /\ inSeq[o] # None
                               /\ SignedStates[o] = inSeq[o].head
                         /\ SignedStates[o] = NoNote => mem'[o] = mem[o]
    BY <1>0, SignedExtends DEF Merge
<1>4. WitnessTypeOK' /\ LockInv' /\ BatchInv'
    BY <1>0, <1>2
    DEF WitnessInv, WitnessTypeOK, LockInv, BatchInv, SignerInUseIsInstalled
<1>5. HandlerInv' /\ WaiterInv'
    BY <1>0 DEF WitnessInv, HandlerInv, HandlerOK, WaiterInv, TracksWaiters, OnEntry, Matches
<1>6. EmptyInv'
    BY <1>0, <1>3 DEF WitnessInv, EmptyInv, EmptyOK
<1>7. PendingExtendsStore'
    BY <1>0, <1>1, <1>3 DEF WitnessInv, PendingExtendsStore, Extends
<1> QED
    BY <1>4, <1>5, <1>6, <1>7 DEF WitnessInv

\* The batch is done: its handlers return, and those on the new pool wait on.
LEMMA RetirePreserves ==
    ASSUME WitnessInv, Retire
    PROVE  WitnessInv'
<1>0. /\ seq = "retire" /\ seq' = "idle" /\ inSeq' = [o \in Origins |-> None]
      /\ UNCHANGED <<signer, epoch, mu, pool, mem, halted>> /\ Close(inSeq)
    BY DEF Retire
<1>1. /\ client' \in [Clients -> Handlers]
      /\ \A c \in Clients :
            /\ (\E o \in Origins : OnEntry(inSeq, c, o)) => client'[c].at = "done"
            /\ (\A o \in Origins : ~OnEntry(inSeq, c, o)) => client'[c] = client[c]
            /\ HandlerOK(client'[c])
    BY <1>0, CloseAnswers DEF WitnessInv, WitnessTypeOK, WaiterInv, BatchInv
<1>2. released' \in [Origins -> SUBSET Heads]
    BY DEF Retire, WitnessInv, WitnessTypeOK, SignedStates, Entries
<1>3. WitnessTypeOK' /\ LockInv' /\ BatchInv'
    BY <1>0, <1>1, <1>2
    DEF WitnessInv, WitnessTypeOK, LockInv, BatchInv, SignerInUseIsInstalled
<1>4. HandlerInv'
    BY <1>1 DEF HandlerInv, HandlerOK
<1>5. \A c \in Clients, o, p \in Origins : OnEntry(pool, c, o) => ~OnEntry(inSeq, c, p)
    BY DEF WitnessInv, WaiterInv, TracksWaiters, OnEntry, PendingExtendsStore
<1>6. WaiterInv'
    <2>1. TracksWaiters(pool)'
        <3> SUFFICES ASSUME NEW c \in Clients, NEW o \in Origins, OnEntry(pool, c, o)
                     PROVE  /\ client'[c].at = "wait" /\ client'[c].req.origin = o
                            /\ Matches(pool[o], c)'
            BY <1>0 DEF TracksWaiters, OnEntry
        <3>1. client'[c] = client[c]
            BY <1>1, <1>5
        <3> QED
            BY <1>0, <3>1 DEF WitnessInv, WaiterInv, TracksWaiters, Matches
    <2>2. TracksWaiters(inSeq)'
        BY <1>0 DEF TracksWaiters, OnEntry
    <2>3. ASSUME NEW c \in Clients, client'[c].at = "wait"
          PROVE  OnEntry(pool, c, client[c].req.origin)'
        <3>1. client'[c] = client[c] /\ \A o \in Origins : ~OnEntry(inSeq, c, o)
            BY <1>1, <2>3
        <3>2. client[c].req.origin \in Origins
            BY <2>3, <3>1, RequestsAssumption DEF WitnessInv, HandlerInv, HandlerOK
        <3> QED
            BY <1>0, <2>3, <3>1, <3>2 DEF WitnessInv, WaiterInv, OnEntry
    <2> QED
        BY <2>1, <2>2, <2>3 DEF WaiterInv
<1>7. EmptyInv' /\ PendingExtendsStore'
    BY <1>0 DEF WitnessInv, EmptyInv, EmptyOK, PendingExtendsStore, SignedStates, Extends
<1> QED
    BY <1>3, <1>4, <1>6, <1>7 DEF WitnessInv

\* The context is done: the handlers on the pool are told.
LEMMA StopPreserves ==
    ASSUME WitnessInv, StopPools
    PROVE  WitnessInv'
<1> DEFINE codes == [o \in Origins |-> 503]
<1> DEFINE told == SetResults(pool, codes)
<1>0. /\ seq = "idle" /\ seq' = "stopped" /\ pool' = [o \in Origins |-> None]
      /\ UNCHANGED <<signer, epoch, mu, inSeq, mem, halted, released>> /\ Close(told)
    BY DEF StopPools, SetPoolResult
<1>1. \A o \in Origins : inSeq[o] = None
    BY <1>0 DEF WitnessInv, BatchInv
<1>2. codes \in [Origins -> Codes] /\ \A o \in Origins : codes[o] = 503
    BY DEF Codes
<1>3. pool \in [Origins -> Entries \cup {None}]
    BY DEF WitnessInv, WitnessTypeOK
<1>12. told = SetResults(pool, codes)
    OBVIOUS
<1> HIDE DEF codes, told
<1>4. /\ told \in [Origins -> Entries \cup {None}]
      /\ \A o \in Origins : told[o] = None <=> pool[o] = None
    BY <1>2, <1>3, <1>12, ResultsType
<1>5. \A o \in Origins : pool[o] # None =>
         /\ told[o].head = pool[o].head /\ told[o].ext = pool[o].ext
         /\ told[o].signer = pool[o].signer /\ told[o].epoch = pool[o].epoch
         /\ told[o].waiters = pool[o].waiters /\ told[o].code = 503
    BY <1>2, <1>3, <1>12, ResultsType
<1>6. TracksWaiters(told) /\ \A o \in Origins : told[o] # None => told[o].code # 0
    BY <1>4, <1>5 DEF WitnessInv, WaiterInv, TracksWaiters, OnEntry, Matches
<1>7. /\ client' \in [Clients -> Handlers]
      /\ \A c \in Clients :
            /\ (\E o \in Origins : OnEntry(told, c, o)) => client'[c].at = "done"
            /\ (\A o \in Origins : ~OnEntry(told, c, o)) => client'[c] = client[c]
            /\ HandlerOK(client'[c])
    BY <1>0, <1>4, <1>6, CloseAnswers DEF WitnessInv
<1>8. WitnessTypeOK' /\ LockInv' /\ BatchInv'
    BY <1>0, <1>1, <1>7
    DEF WitnessInv, WitnessTypeOK, LockInv, BatchInv, SignerInUseIsInstalled
<1>9. HandlerInv'
    BY <1>7 DEF HandlerInv, HandlerOK
<1>10. WaiterInv'
    <2>1. \A c \in Clients : client'[c].at # "wait"
        <3> SUFFICES ASSUME NEW c \in Clients, client'[c].at = "wait" PROVE FALSE
            OBVIOUS
        <3>1. client'[c] = client[c] /\ \A o \in Origins : ~OnEntry(told, c, o)
            BY <1>7
        <3>2. client[c].req.origin \in Origins
            BY <3>1, RequestsAssumption DEF WitnessInv, HandlerInv, HandlerOK
        <3> QED
            BY <1>1, <1>4, <1>5, <3>1, <3>2 DEF WitnessInv, WaiterInv, OnEntry
    <2> QED
        BY <1>0, <1>1, <2>1 DEF WaiterInv, TracksWaiters, OnEntry
<1>11. EmptyInv' /\ PendingExtendsStore'
    BY <1>0, <1>1 DEF WitnessInv, EmptyInv, EmptyOK, PendingExtendsStore, SignedStates, Extends
<1> QED
    BY <1>8, <1>9, <1>10, <1>11 DEF WitnessInv

-----------------------------------------------------------------------------
(* The invariant *)

\* What was signed stays what was signed while other handlers join.
LEMMA SignedKept ==
    ASSUME WitnessInv, NEW c \in Clients, AddToPool(c)
    PROVE  SignedStates' = SignedStates
<1>1. CASE inSeq' = inSeq
    BY <1>1 DEF SignedStates
<1>2. CASE inSeq' # inSeq
    <2> DEFINE o == client[c].req.origin
    <2>1. /\ JoinPending(c) /\ o \in Origins
          /\ inSeq' = [inSeq EXCEPT ![o].waiters = @ \cup {c}] /\ inSeq[o] # None
        BY <1>2, RequestsAssumption DEF AddToPool, Admit, Refuse, poolVars, JoinPending, Pending,
            WitnessInv, HandlerInv, HandlerOK
    <2>2. inSeq \in [Origins -> Entries \cup {None}]
        BY DEF WitnessInv, WitnessTypeOK
    <2>3. \A p \in Origins : /\ inSeq'[p] = None <=> inSeq[p] = None
                             /\ inSeq[p] # None => /\ inSeq'[p].head = inSeq[p].head
                                                   /\ inSeq'[p].code = inSeq[p].code
        BY <2>1, <2>2, JoinEntries
    <2> QED
        BY <2>3 DEF SignedStates
<1> QED
    BY <1>1, <1>2

\* A batch that goes to PutBatch has something signed in it, and one that does
\* not has nothing.
LEMMA SignedOrNot ==
    ASSUME WitnessInv, Sign
    PROVE  IF seq' = "put" THEN SignedStates' # Nothing ELSE SignedStates' = Nothing
<1>1. UNCHANGED <<pool, mem, client>>
    BY DEF Sign
<1>2. CASE SignNothing
    <2>1. PICK code \in {503, 500} : inSeq' = SetResults(inSeq, [o \in Origins |-> code])
        BY <1>2 DEF SignNothing, SetPoolResult
    <2>2. [o \in Origins |-> code] \in [Origins -> Codes]
        BY DEF Codes
    <2>3. \A o \in Origins : inSeq'[o] # None => inSeq'[o].code = code /\ code # 200
        BY <1>1, <2>1, <2>2, ResultsKeep
    <2>4. SignedStates' = Nothing
        BY <2>3 DEF SignedStates, Nothing
    <2> QED
        BY <1>2, <2>4 DEF SignNothing
<1>3. CASE SignBatch
    <2> DEFINE codes == [o \in Origins |-> IF o \in Current THEN 200 ELSE 503]
    <2>1. codes \in [Origins -> Codes]
        BY DEF Codes
    <2>2. PICK o \in Current : o \in Origins /\ inSeq[o] # None
        BY <1>3 DEF SignBatch, Current, Batch
    <2>3. inSeq'[o] # None /\ inSeq'[o].code = codes[o] /\ inSeq'[o].head = inSeq[o].head
        BY <1>1, <1>3, <2>1, <2>2, ResultsKeep DEF SignBatch
    <2>4. inSeq[o].head \in Heads
        BY <2>2 DEF WitnessInv, WitnessTypeOK, Entries
    <2>5. SignedStates'[o] \in Heads
        BY <2>2, <2>3, <2>4 DEF SignedStates
    <2>6. SignedStates' # Nothing
        BY <2>2, <2>5, NoNoteAssumption DEF Nothing
    <2> QED
        BY <1>3, <2>6 DEF SignBatch
<1> QED
    BY <1>2, <1>3 DEF Sign

\* A commit that failed leaves nothing that would be let out.
LEMMA FailedLeavesNothing ==
    ASSUME WitnessInv, PutFails
    PROVE  SignedStates' = Nothing
<1>1. UNCHANGED <<pool, mem, client>> /\ inSeq' = SetResults(inSeq, [o \in Origins |-> 500])
    BY DEF PutFails, SetPoolResult
<1>2. [o \in Origins |-> 500] \in [Origins -> Codes]
    BY DEF Codes
<1>3. \A o \in Origins : inSeq'[o] # None => inSeq'[o].code = 500
    BY <1>1, <1>2, ResultsKeep
<1> QED
    BY <1>3 DEF SignedStates, Nothing

\* Every step of the handlers, of the sequencer and of the signer keeps it.
LEMMA WitnessInductive == WitnessInv /\ [WitnessNext]_witnessVars => WitnessInv'
<1> SUFFICES ASSUME WitnessInv, [WitnessNext]_witnessVars PROVE WitnessInv'
    OBVIOUS
<1>1. CASE SignerNext
    BY <1>1, SignerPreserves
<1>2. ASSUME NEW c \in Clients, ClientNext(c)
      PROVE  WitnessInv'
    <2>1. CASE AddToPool(c)
        BY <2>1, JoinPreserves, AdmitPreserves, RefusePreserves DEF AddToPool
    <2> QED
        BY <1>2, <2>1, LoadSignerPreserves, CheckRequestPreserves, LoadEpochPreserves DEF ClientNext
<1>3. ASSUME NEW o \in Origins, Checkpoint(o)
      PROVE  WitnessInv'
    BY <1>3, CheckpointPreserves
<1>4. CASE SequencerNext
    BY <1>4, RotatePreserves, StopPreserves, SignPreserves, PutSucceedsPreserves,
       PutFailsPreserves, RetirePreserves DEF SequencerNext, Put
<1>5. CASE UNCHANGED witnessVars
    <2>1. WitnessTypeOK' /\ LockInv' /\ BatchInv'
        BY <1>5 DEF witnessVars, WitnessInv, WitnessTypeOK, LockInv, BatchInv,
                    SignerInUseIsInstalled, Batch
    <2>2. HandlerInv' /\ WaiterInv'
        BY <1>5 DEF witnessVars, WitnessInv, HandlerInv, HandlerOK, WaiterInv, TracksWaiters,
                    OnEntry, Matches
    <2>3. EmptyInv' /\ PendingExtendsStore'
        BY <1>5 DEF witnessVars, WitnessInv, EmptyInv, EmptyOK, PendingExtendsStore,
                    SignedStates, Extends
    <2> QED
        BY <2>1, <2>2, <2>3 DEF WitnessInv
<1> QED
    BY <1>1, <1>2, <1>3, <1>4, <1>5 DEF WitnessNext, ServeNext

\* Nothing is under way, and the store holds what it may.
AtRest ==
    /\ signer = NoSigner /\ epoch = 0 /\ mu = "free" /\ seq = "stopped"
    /\ pool = [o \in Origins |-> None] /\ inSeq = [o \in Origins |-> None]
    /\ client = [c \in Clients |-> Idle]
    /\ mem \in Views /\ halted \in BOOLEAN /\ released \in [Origins -> SUBSET Heads]
    /\ \A o \in Origins : mem[o] # NoNote => EmptyOK(mem[o])

\* A witness that has not started satisfies WitnessInv.
LEMMA AtRestInv == AtRest => WitnessInv
<1> SUFFICES ASSUME AtRest PROVE WitnessInv
    OBVIOUS
<1>1. \A o \in Origins : pool[o] = None /\ inSeq[o] = None
    BY DEF AtRest
<1>2. \A c \in Clients : client[c] = Idle
    BY DEF AtRest
<1>3. WitnessTypeOK
    <2>1. client \in [Clients -> Handlers]
        BY IdleType DEF AtRest
    <2>2. epoch \in 0..MaxEpoch
        BY WitnessBounds DEF AtRest
    <2>3. /\ pool \in [Origins -> Entries \cup {None}]
          /\ inSeq \in [Origins -> Entries \cup {None}]
        BY DEF AtRest
    <2> QED
        BY <2>1, <2>2, <2>3 DEF AtRest, WitnessTypeOK
<1>4. LockInv /\ BatchInv
    BY <1>1 DEF AtRest, LockInv, BatchInv, SignerInUseIsInstalled
<1>5. HandlerInv
    BY <1>2, IdleType DEF HandlerInv
<1>6. WaiterInv
    BY <1>1, <1>2, IdleType DEF WaiterInv, TracksWaiters, OnEntry
<1>7. EmptyInv /\ PendingExtendsStore
    BY <1>1 DEF AtRest, EmptyInv, PendingExtendsStore, SignedStates
<1> QED
    BY <1>3, <1>4, <1>5, <1>6, <1>7 DEF WitnessInv

\* A witness that just started, over a store that holds nothing.
LEMMA WitnessInitInv == WitnessInit => WitnessInv
BY AtRestInv DEF WitnessInit, AtRest, Nothing, Views

\* The inductive invariant holds of every interleaving of any number of handlers
\* with the sequencer and with signer changes.
THEOREM WitnessInvariant == WitnessSpec => []WitnessInv
BY WitnessInitInv, WitnessInductive, PTL DEF WitnessSpec

\* Every variable of the witness keeps its type: every entry carries a head, a
\* signer that was installed and a status the code knows.
THEOREM WitnessTypeCorrect == WitnessSpec => []WitnessTypeOK
<1>1. WitnessInv => WitnessTypeOK
    BY DEF WitnessInv
<1> QED
    BY <1>1, WitnessInvariant, PTL

\* An entry that passed addToPool's checks still extends the stored head when its
\* batch is signed and committed, and a log is pending in one place only.
THEOREM WitnessPendingExtendsStore == WitnessSpec => []PendingExtendsStore
<1>1. WitnessInv => PendingExtendsStore
    BY DEF WitnessInv
<1> QED
    BY <1>1, WitnessInvariant, PTL

\* What is signed and not yet committed is signed by the installed signer, however
\* SetSigner and ClearSigner fall: they wait for w.mu, which sequencePool holds.
THEOREM WitnessSignerInUse == WitnessSpec => []SignerInUseIsInstalled
<1>1. WitnessInv => SignerInUseIsInstalled
    BY DEF WitnessInv, BatchInv
<1> QED
    BY <1>1, WitnessInvariant, PTL

\* Every handler that returns has a real status, and 200 only with the cosignature
\* over its own text by the signer it loaded, whichever entry it joined.
THEOREM WitnessAnswersSound == WitnessSpec => []AnswersSound
<1>1. WitnessInv => AnswersSound
    BY DEF WitnessInv, HandlerInv, HandlerOK, AnswersSound
<1> QED
    BY <1>1, WitnessInvariant, PTL

\* The entries of a pool that a handler is on: the one of its log, or none.
LEMMA PlacesCounted ==
    ASSUME WitnessInv, NEW c \in Clients, NEW entries, TracksWaiters(entries)
    PROVE  LET places == {o \in Origins : entries[o] # None /\ c \in entries[o].waiters}
               here == client[c].req.origin
           IN  /\ OnEntry(entries, c, here) /\ here \in Origins => Cardinality(places) = 1
               /\ (\A o \in Origins : ~OnEntry(entries, c, o)) => Cardinality(places) = 0
<1> DEFINE places == {o \in Origins : entries[o] # None /\ c \in entries[o].waiters}
           here == client[c].req.origin
<1>1. ASSUME OnEntry(entries, c, here), here \in Origins
      PROVE  Cardinality(places) = 1
    <2>1. places = {here}
        BY <1>1 DEF TracksWaiters, OnEntry
    <2> QED
        BY <2>1, FS_Singleton
<1>2. ASSUME \A o \in Origins : ~OnEntry(entries, c, o)
      PROVE  Cardinality(places) = 0
    <2>1. places = {}
        BY <1>2 DEF OnEntry
    <2> QED
        BY <2>1, FS_EmptySet
<1> QED
    BY <1>1, <1>2

\* A handler that waits is on exactly one entry, of the pool or of the batch, and
\* one that does not is on none: nobody is lost and nobody answered twice, for any
\* number of handlers and logs.
LEMMA WaitersCounted == WitnessInv => WaitersTracked
<1> SUFFICES ASSUME WitnessInv, NEW c \in Clients
             PROVE  Cardinality({o \in Origins : pool[o] # None /\ c \in pool[o].waiters})
                      + Cardinality({o \in Origins : inSeq[o] # None /\ c \in inSeq[o].waiters})
                    = IF client[c].at = "wait" THEN 1 ELSE 0
    BY DEF WaitersTracked
<1> DEFINE inPool == {o \in Origins : pool[o] # None /\ c \in pool[o].waiters}
           inBatch == {o \in Origins : inSeq[o] # None /\ c \in inSeq[o].waiters}
           here == client[c].req.origin
<1>1. TracksWaiters(pool) /\ TracksWaiters(inSeq)
    BY DEF WitnessInv, WaiterInv
<1>2. /\ OnEntry(pool, c, here) /\ here \in Origins => Cardinality(inPool) = 1
      /\ (\A o \in Origins : ~OnEntry(pool, c, o)) => Cardinality(inPool) = 0
    BY <1>1, PlacesCounted
<1>3. /\ OnEntry(inSeq, c, here) /\ here \in Origins => Cardinality(inBatch) = 1
      /\ (\A o \in Origins : ~OnEntry(inSeq, c, o)) => Cardinality(inBatch) = 0
    BY <1>1, PlacesCounted
<1>4. \A o, p \in Origins : OnEntry(pool, c, o) => ~OnEntry(inSeq, c, p)
    BY DEF WitnessInv, WaiterInv, TracksWaiters, OnEntry, PendingExtendsStore
<1> HIDE DEF inPool, inBatch
<1>5. CASE client[c].at = "wait"
    <2>1. here \in Origins /\ (OnEntry(pool, c, here) \/ OnEntry(inSeq, c, here))
        BY <1>5, RequestsAssumption DEF WitnessInv, HandlerInv, HandlerOK, WaiterInv
    <2>2. \/ Cardinality(inPool) = 1 /\ Cardinality(inBatch) = 0
          \/ Cardinality(inPool) = 0 /\ Cardinality(inBatch) = 1
        BY <1>2, <1>3, <1>4, <2>1
    <2> QED
        BY <1>5, <2>2 DEF inPool, inBatch
<1>6. CASE client[c].at # "wait"
    <2>1. \A o \in Origins : ~OnEntry(pool, c, o) /\ ~OnEntry(inSeq, c, o)
        BY <1>1, <1>6 DEF TracksWaiters
    <2>2. Cardinality(inPool) = 0 /\ Cardinality(inBatch) = 0
        BY <1>2, <1>3, <2>1
    <2> QED
        BY <1>6, <2>2 DEF inPool, inBatch
<1> QED
    BY <1>5, <1>6

\* Joining, rotation, retirement and stopping lose no handler.
THEOREM WitnessWaitersTracked == WitnessSpec => []WaitersTracked
BY WaitersCounted, WitnessInvariant, PTL

-----------------------------------------------------------------------------
(* The promise *)

\* Every step of the witness is a step of ConsistentView, or leaves it unchanged.
LEMMA WitnessStepRefines ==
    WitnessInv /\ [WitnessNext]_witnessVars => [View!ViewNext]_(View!viewVars)
<1> SUFFICES ASSUME WitnessInv, [WitnessNext]_witnessVars
             PROVE  View!ViewNext \/ UNCHANGED <<mem, released>>
    BY DEF View!viewVars
<1>1. CASE PutSucceeds
    <2>1. mem' \in Views /\ ExtendsAll(mem', mem) /\ UNCHANGED released
        BY <1>1, SignedExtends DEF PutSucceeds
    <2>2. View!Advance
        BY <2>1 DEF View!Advance, View!Views, Views, View!ExtendsAll, ExtendsAll,
                    View!Extends, Extends
    <2> QED
        BY <2>2 DEF View!ViewNext
<1>2. CASE Retire
    <2> DEFINE os == {o \in Origins : SignedStates[o] # NoNote}
    <2>1. \A o \in os : mem[o] = SignedStates[o]
        BY <1>2 DEF Retire, WitnessInv, PendingExtendsStore
    <2>2. \A o \in Origins : released[o] \cup ({SignedStates[o]} \ {NoNote}) =
              IF o \in os THEN released[o] \cup {mem[o]} ELSE released[o]
        BY <2>1
    <2>3. released' = [o \in Origins |-> IF o \in os THEN released[o] \cup {mem[o]}
                                                     ELSE released[o]]
        BY <1>2, <2>2 DEF Retire
    <2>4. View!Release(os)
        BY <1>2, <2>1, <2>3 DEF View!Release, Retire
    <2> QED
        BY <2>4 DEF View!ViewNext
<1>3. ASSUME NEW o \in Origins, Checkpoint(o)
      PROVE  View!ViewNext
    <2>1. released' = [p \in Origins |-> IF p \in {o} THEN released[p] \cup {mem[p]}
                                                      ELSE released[p]]
        BY <1>3 DEF Checkpoint, WitnessInv, WitnessTypeOK
    <2>2. View!Release({o})
        BY <1>3, <2>1 DEF View!Release, Checkpoint
    <2> QED
        BY <2>2 DEF View!ViewNext
<1>4. CASE UNCHANGED <<mem, released>>
    BY <1>4
<1> QED
    BY <1>1, <1>2, <1>3, <1>4 DEF WitnessNext, SignerNext, AddEpoch, StoreSigner, ServeNext,
        ClientNext, LoadSigner, CheckRequest, LoadEpoch, AddToPool, SequencerNext, RunSequencer,
        StopPools, Rotate, Sign, Put, PutFails, witnessVars

\* The witness keeps the promise of ConsistentView over a store whose PutBatch is
\* atomic: its stored heads only move forward, and only they are cosigned.
THEOREM WitnessImplementsConsistentView == WitnessSpec => ImplementsConsistentView
<1>1. WitnessInit => View!ViewInit
    BY DEF WitnessInit, View!ViewInit, View!Nothing, Nothing
<1> QED
    BY <1>1, WitnessStepRefines, WitnessInvariant, PTL
    DEF WitnessSpec, ImplementsConsistentView, View!ViewSpec
=============================================================================
