---------------------------- MODULE FeederProofs ----------------------------
(***************************************************************************)
(* Proofs about Feeder, for any number of hosts, handler goroutines and    *)
(* signers and a log of any length.                                        *)
(***************************************************************************)
EXTENDS Feeder, WitnessProofs

-----------------------------------------------------------------------------
(* What is true of the requests *)

\* The checkpoints the log has published so far.
Published == {Chain[i] : i \in 1..tip}

\* What cmdFeed builds: a published checkpoint, an old size it does not exceed, and
\* the proof between the two that the witness expects.
HonestRequest(r) ==
    /\ r.origin = LogOrigin /\ r.head \in Published
    /\ r.old \in 0..SizeOf(r.head) /\ r.proof = ProofFrom(r.old, r.head)

AtFault == {400, 422}

InHand == {"loaded", "parsed", "candidate", "wait"}

HonestHandler(h) ==
    /\ h.at \in InHand => HonestRequest(h.req)
    /\ h.code \notin AtFault

HonestEntry(e) == e # None => e.head \in Published /\ e.code \notin AtFault

HonestInv ==
    /\ \A c \in Clients : HonestHandler(client[c])
    /\ \A o \in Origins :
          /\ HonestEntry(pool[o]) /\ HonestEntry(inSeq[o])
          /\ mem[o] \in Published \cup {NoNote}

Runs ==
    [at: Ended \cup {"keyed", "fetched", "first", "second"}, key: Signers \cup {NoSigner},
     head: Heads \cup {None}, handler: Clients \cup {None}, code: Codes]

\* A run past the log's endpoint has a checkpoint, one past its submission a handler
\* that no other run reads from.
RunsInv ==
    /\ tip \in DOMAIN Chain
    /\ feeder \in [Feeders -> Runs]
    /\ \A f \in Feeders :
          /\ feeder[f].at \in {"fetched", "first", "second"} => feeder[f].head \in Published
          /\ feeder[f].at \in {"first", "second"} => feeder[f].handler \in Clients
          /\ feeder[f].at \notin {"first", "second"} => feeder[f].handler = None
    /\ \A f, g \in Feeders :
          f # g /\ feeder[f].handler # None => feeder[f].handler # feeder[g].handler

HonestFeedInv == WitnessInv /\ RunsInv /\ HonestInv

-----------------------------------------------------------------------------
(* What is true of a run nothing interfered with *)

Calm(f) == feeder[f].at \notin Ended /\ ~disturbed[f]

\* An answer h that a run gets by no fault of another one: a conflict the first time
\* only, and with the size the store has.
FitAnswer(run, h, s, size) ==
    \/ h.code = 500
    \/ h.code = 200 /\ h.sig = Cosig(run.head, "", s)
    \/ h.code = 409 /\ run.at = "first" /\ h.latest = size

\* Its handler h carries its request under the signer s of epoch e, while the store
\* has size, and gets a fit answer.
Carried(run, h, s, e, size) ==
    /\ h.at # "idle"
    /\ h.at \in InHand => h.req.head = run.head /\ h.req.ext = "" /\ h.signer = s
    /\ h.at \in {"candidate", "wait"} => h.epoch = e
    /\ h.at \in {"loaded", "parsed", "candidate"} /\ run.at = "second" => h.req.old = size
    /\ h.at = "done" => FitAnswer(run, h, s, size)

\* What the sequencer did to its entry.
BatchSigned == seq \in {"put", "retire"} /\ inSeq[LogOrigin] # None

Served(f) ==
    /\ Carried(feeder[f], client[feeder[f].handler], signer, epoch, Latest(LogOrigin))
    /\ client[feeder[f].handler].at = "wait" /\ BatchSigned =>
          inSeq[LogOrigin].code \in {200, 500}

CalmRun(f) ==
    /\ ~Contended(f)
    /\ signer # NoSigner /\ feeder[f].key = signer
    /\ feeder[f].at # "keyed" => Latest(LogOrigin) <= SizeOf(feeder[f].head)
    /\ feeder[f].at \in {"first", "second"} => Served(f)

\* No other log is fed, so only this one has entries.
CalmInv ==
    /\ disturbed \in [Feeders -> BOOLEAN]
    /\ \A o \in Origins \ {LogOrigin} : pool[o] = None
    /\ \A f \in Feeders : Calm(f) => CalmRun(f)
    /\ UndisturbedFeedCosigned

-----------------------------------------------------------------------------
(* Operators *)

LEMMA PublishedHeads ==
    ASSUME tip \in DOMAIN Chain
    PROVE  /\ Published \subseteq Heads /\ Chain[tip] \in Published
           /\ \A h \in Published :
                 /\ SizeOf(h) \in Nat /\ SizeOf(h) <= SizeOf(Chain[tip])
                 /\ SizeOf(h) = 0 => h = EmptyHead
           /\ \A h \in Published : \E i \in DOMAIN Chain : i <= tip /\ h = Chain[i]
<1>1. Chain \in Seq(Heads) /\ DOMAIN Chain = 1..Len(Chain) /\ Len(Chain) \in Nat
      /\ tip \in 1..Len(Chain)
    BY FeederAssumption
<1>2. \A i \in 1..tip : i \in DOMAIN Chain /\ i <= tip /\ Chain[i] \in Heads
    BY <1>1
<1>3. \A i \in 1..tip : SizeOf(Chain[i]) \in Nat /\ SizeOf(Chain[i]) <= SizeOf(Chain[tip])
                         /\ (SizeOf(Chain[i]) = 0 => Chain[i] = EmptyHead)
    <2> SUFFICES ASSUME NEW i \in 1..tip
                 PROVE  SizeOf(Chain[i]) \in Nat /\ SizeOf(Chain[i]) <= SizeOf(Chain[tip])
                        /\ (SizeOf(Chain[i]) = 0 => Chain[i] = EmptyHead)
        OBVIOUS
    <2>1. SizeOf(Chain[i]) \in Nat /\ SizeOf(Chain[tip]) \in Nat
        BY <1>1, <1>2, HeadsAssumption
    <2>2. i < tip \/ i = tip
        BY <1>1
    <2> QED
        BY <1>1, <1>2, <2>1, <2>2, ChainAssumption
<1>4. tip \in 1..tip
    BY <1>1
<1> QED
    BY <1>2, <1>3, <1>4 DEF Published

\* Of two published checkpoints the larger follows the smaller, and there is one of
\* each size.
LEMMA PublishedInOrder ==
    ASSUME tip \in DOMAIN Chain, NEW a \in Published, NEW b \in Published
    PROVE  /\ SizeOf(b) < SizeOf(a) => Follows(a, b)
           /\ SizeOf(a) = SizeOf(b) => a = b
<1>1. PICK i \in DOMAIN Chain : a = Chain[i]
    BY PublishedHeads
<1>2. PICK j \in DOMAIN Chain : b = Chain[j]
    BY PublishedHeads
<1>3. i \in Nat /\ j \in Nat
    <2>1. DOMAIN Chain = 1..Len(Chain) /\ Len(Chain) \in Nat
        BY FeederAssumption
    <2> QED
        BY <2>1
<1>4. SizeOf(a) \in Nat /\ SizeOf(b) \in Nat
    BY PublishedHeads
<1> QED
    BY <1>1, <1>2, <1>3, <1>4, ChainAssumption

\* What the command sends, once it has the size the store holds, passes the checks.
LEMMA HonestConsistent ==
    ASSUME tip \in DOMAIN Chain, NEW r, HonestRequest(r),
           NEW prev \in Published \cup {NoNote}, r.old = SizeHeld(prev)
    PROVE  Consistent(prev, r)
<1>1. /\ r.head \in Published /\ SizeOf(r.head) \in Nat /\ r.old \in Nat
      /\ r.old <= SizeOf(r.head)
      /\ SizeOf(r.head) = 0 => r.head = EmptyHead
    <2>1. r.head \in Published /\ r.old \in 0..SizeOf(r.head)
        BY DEF HonestRequest
    <2>2. SizeOf(r.head) \in Nat /\ (SizeOf(r.head) = 0 => r.head = EmptyHead)
        BY <2>1, PublishedHeads
    <2> QED
        BY <2>1, <2>2
<1>2. r.proof = IF r.old > 0 /\ r.old < SizeOf(r.head) THEN "log" ELSE "none"
    BY DEF HonestRequest, ProofFrom
<1>3. r.old # 0 => prev \in Published /\ r.old = SizeOf(prev)
    BY DEF SizeHeld
<1>4. CASE SizeOf(r.head) = 0
    BY <1>1, <1>2, <1>4 DEF Consistent
<1>5. CASE SizeOf(r.head) # 0 /\ r.old = SizeOf(r.head)
    <2>1. r.head = prev
        BY <1>1, <1>3, <1>5, PublishedInOrder
    <2> QED
        BY <1>1, <1>2, <1>5, <2>1 DEF Consistent
<1>6. CASE SizeOf(r.head) # 0 /\ r.old # SizeOf(r.head) /\ r.old = 0
    BY <1>1, <1>2, <1>6 DEF Consistent
<1>7. CASE SizeOf(r.head) # 0 /\ r.old # SizeOf(r.head) /\ r.old # 0
    <2>1. Follows(r.head, prev) /\ r.proof = "log"
        BY <1>1, <1>2, <1>3, <1>7, PublishedInOrder
    <2> QED
        BY <1>1, <1>7, <2>1 DEF Consistent
<1> QED
    BY <1>4, <1>5, <1>6, <1>7

-----------------------------------------------------------------------------
(* No step of the witness finds fault with an honest request *)

LEMMA AnsweredHonest ==
    ASSUME NEW code \in Codes \ AtFault
    PROVE  HonestHandler(Answered(code))
<1>1. Answered(code).at = "done" /\ Answered(code).code = code
    BY IdleType DEF Answered, Handlers
<1> QED
    BY <1>1 DEF HonestHandler, InHand

\* A conflict is not the feed's fault.
LEMMA ConflictedHonest ==
    ASSUME NEW code \in Codes \ AtFault, NEW size
    PROVE  HonestHandler(Conflicted(code, size))
<1>1. Conflicted(code, size).at = "done" /\ Conflicted(code, size).code = code
    BY IdleType DEF Conflicted, Handlers
<1> QED
    BY <1>1 DEF HonestHandler, InHand

\* A step during which the log publishes nothing, seen through its outcome.
LEMMA HonestAfter ==
    ASSUME tip' = tip, \A d \in Clients : HonestHandler(client'[d]),
           \A o \in Origins : /\ HonestEntry(pool'[o]) /\ HonestEntry(inSeq'[o])
                             /\ mem'[o] \in Published \cup {NoNote}
    PROVE  HonestInv'
<1>1. Published' = Published
    BY DEF Published
<1>2. ASSUME NEW d \in Clients
      PROVE  HonestHandler(client[d])'
    BY <1>1 DEF HonestHandler, HonestRequest
<1>3. ASSUME NEW o \in Origins
      PROVE  (HonestEntry(pool[o]) /\ HonestEntry(inSeq[o]) /\ mem[o] \in Published \cup {NoNote})'
    BY <1>1 DEF HonestEntry
<1> QED
    BY <1>2, <1>3 DEF HonestInv

\* A step that touches one handler, and neither pools nor store.
LEMMA HonestMoves ==
    ASSUME HonestFeedInv, NEW c \in Clients, NEW h, HonestHandler(h),
           client' = [client EXCEPT ![c] = h], UNCHANGED <<pool, inSeq, mem, tip>>
    PROVE  HonestInv'
<1>1. client \in [Clients -> Handlers]
    BY DEF HonestFeedInv, WitnessInv, WitnessTypeOK
<1>2. \A d \in Clients : client'[d] = IF d = c THEN h ELSE client[d]
    BY <1>1
<1>3. \A d \in Clients : HonestHandler(client'[d])
    BY <1>2 DEF HonestFeedInv, HonestInv
<1> QED
    BY <1>3, HonestAfter DEF HonestFeedInv, HonestInv

\* Parsing refuses no request of the feed: it never sends an old size above its head's.
LEMMA CheckRequestHonest ==
    ASSUME HonestFeedInv, NEW c \in Clients, CheckRequest(c), UNCHANGED feedVars
    PROVE  HonestInv'
<1>1. /\ client \in [Clients -> Handlers] /\ client[c] \in Handlers /\ client[c].at = "loaded"
      /\ HonestHandler(client[c]) /\ UNCHANGED <<pool, inSeq, mem, tip>>
    BY DEF CheckRequest, feedVars, HonestFeedInv, WitnessInv, WitnessTypeOK, HonestInv
<1>2. ~(client[c].req.old > SizeOf(client[c].req.head))
    <2>1. HonestRequest(client[c].req)
        BY <1>1 DEF HonestHandler, InHand
    <2>2. SizeOf(client[c].req.head) \in Nat /\ client[c].req.old \in 0..SizeOf(client[c].req.head)
        BY <2>1, PublishedHeads DEF HonestRequest, HonestFeedInv, RunsInv
    <2> QED
        BY <2>2
<1>3. CASE Answer(c, 503)
    <2>1. 503 \in Codes \ AtFault
        BY DEF Codes, AtFault
    <2>2. client' = [client EXCEPT ![c] = Answered(503)]
        BY <1>3 DEF Answer, Answered
    <2> QED
        BY <1>1, <2>1, <2>2, AnsweredHonest, HonestMoves
<1>4. CASE client' = [client EXCEPT ![c].at = "parsed"]
    <2> DEFINE h == [client[c] EXCEPT !.at = "parsed"]
    <2>1. h.at = "parsed" /\ h.req = client[c].req /\ h.code = client[c].code
        BY <1>1 DEF Handlers
    <2>2. client' = [client EXCEPT ![c] = h]
        BY <1>1, <1>4
    <2> HIDE DEF h
    <2>3. HonestHandler(h)
        BY <1>1, <2>1 DEF HonestHandler, InHand
    <2> QED
        BY <1>1, <2>2, <2>3, HonestMoves
<1> QED
    BY <1>2, <1>3, <1>4 DEF CheckRequest

\* Loading the epoch decides nothing about the request.
LEMMA LoadEpochHonest ==
    ASSUME HonestFeedInv, NEW c \in Clients, LoadEpoch(c), UNCHANGED feedVars
    PROVE  HonestInv'
<1> DEFINE h == [client[c] EXCEPT !.at = "candidate", !.epoch = epoch]
<1>1. /\ client \in [Clients -> Handlers] /\ client[c] \in Handlers /\ client[c].at = "parsed"
      /\ HonestHandler(client[c]) /\ UNCHANGED <<pool, inSeq, mem, tip>>
    BY DEF LoadEpoch, feedVars, HonestFeedInv, WitnessInv, WitnessTypeOK, HonestInv
<1>2. h.at = "candidate" /\ h.req = client[c].req /\ h.code = client[c].code
    BY <1>1 DEF Handlers
<1>3. client' = [client EXCEPT ![c] = h]
    BY <1>1 DEF LoadEpoch
<1> HIDE DEF h
<1>4. HonestHandler(h)
    BY <1>1, <1>2 DEF HonestHandler, InHand
<1> QED
    BY <1>1, <1>3, <1>4, HonestMoves

\* addToPool answers a candidate of the command 409 or 429, and never 422.
LEMMA RefuseHonest ==
    ASSUME HonestFeedInv, NEW c \in Clients, AddToPool(c), Refuse(c), UNCHANGED feedVars
    PROVE  HonestInv'
<1>1. client[c].at = "candidate" /\ HonestRequest(client[c].req)
      /\ UNCHANGED <<pool, inSeq, mem, tip>>
    BY DEF AddToPool, Refuse, poolVars, feedVars, HonestFeedInv, HonestInv, HonestHandler, InHand
<1>2. client[c].req.origin \in Origins /\ mem[client[c].req.origin] \in Published \cup {NoNote}
      /\ tip \in DOMAIN Chain
    BY <1>1, FeederAssumption DEF HonestRequest, HonestFeedInv, HonestInv, RunsInv
<1>3. \/ AnswerConflict(c)
      \/ AnswerFull(c)
    <2>1. ~(/\ client[c].req.old = Latest(client[c].req.origin)
            /\ ~Consistent(mem[client[c].req.origin], client[c].req))
        BY <1>1, <1>2, HonestConsistent DEF Latest
    <2> QED
        BY <2>1 DEF Refuse
<1>4. CASE AnswerConflict(c)
    <2>1. 409 \in Codes \ AtFault
        BY DEF Codes, AtFault
    <2>2. client' = [client EXCEPT ![c] = Conflicted(409, Latest(client[c].req.origin))]
        BY <1>4 DEF AnswerConflict, Conflicted
    <2> QED
        BY <1>1, <2>1, <2>2, ConflictedHonest, HonestMoves
<1>5. CASE AnswerFull(c)
    <2>1. 429 \in Codes \ AtFault
        BY DEF Codes, AtFault
    <2>2. client' = [client EXCEPT ![c] = Answered(429)]
        BY <1>5 DEF AnswerFull, Answer, Answered
    <2> QED
        BY <1>1, <2>1, <2>2, AnsweredHonest, HonestMoves
<1> QED
    BY <1>3, <1>4, <1>5

\* A handler that waits has not been answered.
LEMMA WaitHonest ==
    ASSUME HonestFeedInv, NEW c \in Clients, client[c].at = "candidate", Wait(c)
    PROVE  \A d \in Clients : HonestHandler(client'[d])
<1> DEFINE h == [client[c] EXCEPT !.at = "wait"]
<1>1. client \in [Clients -> Handlers] /\ client[c] \in Handlers
    BY DEF HonestFeedInv, WitnessInv, WitnessTypeOK
<1>2. h.at = "wait" /\ h.req = client[c].req /\ h.code = client[c].code
    BY <1>1 DEF Handlers
<1>3. client' = [client EXCEPT ![c] = h]
    BY <1>1 DEF Wait
<1> HIDE DEF h
<1>4. HonestHandler(h)
    BY <1>2 DEF HonestFeedInv, HonestInv, HonestHandler, InHand
<1>5. \A d \in Clients : client'[d] = IF d = c THEN h ELSE client[d]
    BY <1>1, <1>3
<1> QED
    BY <1>4, <1>5 DEF HonestFeedInv, HonestInv

\* A handler joins an entry for the text of its own request.
LEMMA JoinHonest ==
    ASSUME HonestFeedInv, NEW c \in Clients, AddToPool(c), JoinPending(c), UNCHANGED feedVars
    PROVE  HonestInv'
<1> DEFINE o == client[c].req.origin
<1>1. /\ client[c].at = "candidate" /\ o \in Origins /\ Wait(c) /\ UNCHANGED <<mem, tip>>
      /\ pool \in [Origins -> Entries \cup {None}] /\ inSeq \in [Origins -> Entries \cup {None}]
    BY RequestsAssumption
    DEF AddToPool, JoinPending, feedVars, HonestFeedInv, WitnessInv, WitnessTypeOK, HandlerInv, HandlerOK
<1>2. \A d \in Clients : HonestHandler(client'[d])
    BY <1>1, WaitHonest
<1> HIDE DEF o
<1>3. CASE pool[o] # None
    <2>1. pool' = [pool EXCEPT ![o].waiters = @ \cup {c}] /\ inSeq' = inSeq
        BY <1>3 DEF JoinPending, o
    <2>2. /\ \A p \in Origins \ {o} : pool'[p] = pool[p]
          /\ pool'[o].head = pool[o].head /\ pool'[o].code = pool[o].code
        BY <1>1, <1>3, <2>1, JoinEntries
    <2>3. \A p \in Origins : HonestEntry(pool'[p])
        BY <1>3, <2>2 DEF HonestEntry, HonestFeedInv, HonestInv
    <2> QED
        BY <1>1, <1>2, <2>1, <2>3, HonestAfter DEF HonestFeedInv, HonestInv
<1>4. CASE pool[o] = None
    <2>1. inSeq' = [inSeq EXCEPT ![o].waiters = @ \cup {c}] /\ pool' = pool /\ inSeq[o] # None
        BY <1>4 DEF JoinPending, Pending, o
    <2>2. /\ \A p \in Origins \ {o} : inSeq'[p] = inSeq[p]
          /\ inSeq'[o].head = inSeq[o].head /\ inSeq'[o].code = inSeq[o].code
        BY <1>1, <2>1, JoinEntries
    <2>3. \A p \in Origins : HonestEntry(inSeq'[p])
        BY <2>1, <2>2 DEF HonestEntry, HonestFeedInv, HonestInv
    <2> QED
        BY <1>1, <1>2, <2>1, <2>3, HonestAfter DEF HonestFeedInv, HonestInv
<1> QED
    BY <1>3, <1>4

\* What is admitted is a checkpoint of the log.
LEMMA AdmitHonest ==
    ASSUME HonestFeedInv, NEW c \in Clients, AddToPool(c), Admit(c), UNCHANGED feedVars
    PROVE  HonestInv'
<1> DEFINE o == client[c].req.origin
<1>1. /\ client[c].at = "candidate" /\ o \in Origins /\ Wait(c)
      /\ UNCHANGED <<inSeq, mem, tip>>
      /\ pool \in [Origins -> Entries \cup {None}]
      /\ pool' = [pool EXCEPT ![o] = NewEntry(c)]
    BY RequestsAssumption
    DEF AddToPool, Admit, feedVars, HonestFeedInv, WitnessInv, WitnessTypeOK, HandlerInv, HandlerOK
<1>2. \A d \in Clients : HonestHandler(client'[d])
    BY <1>1, WaitHonest
<1>3. client[c].req.head \in Published
    BY <1>1 DEF HonestFeedInv, HonestInv, HonestHandler, HonestRequest, InHand
<1>4. NewEntry(c).head = client[c].req.head /\ NewEntry(c).code = 0
    BY DEF NewEntry
<1>5. HonestEntry(NewEntry(c))
    BY <1>3, <1>4 DEF HonestEntry, AtFault
<1> HIDE DEF o
<1>6. \A p \in Origins : HonestEntry(pool'[p])
    BY <1>1, <1>5 DEF HonestFeedInv, HonestInv
<1> QED
    BY <1>1, <1>2, <1>6, HonestAfter DEF HonestFeedInv, HonestInv

\* What close(done) hands the waiting handlers.
LEMMA CloseHonest ==
    ASSUME HonestFeedInv, NEW entries \in [Origins -> Entries \cup {None}],
           \A o \in Origins : HonestEntry(entries[o]), Close(entries)
    PROVE  \A c \in Clients : HonestHandler(client'[c])
<1> SUFFICES ASSUME NEW c \in Clients PROVE HonestHandler(client'[c])
    OBVIOUS
<1>0. client[c] \in Handlers
    BY DEF HonestFeedInv, WitnessInv, WitnessTypeOK
<1> DEFINE On(o) == entries[o] # None /\ c \in entries[o].waiters
           Place == CHOOSE o \in Origins : On(o)
           e == entries[Place]
           sig == Cosig(e.head, e.ext, e.signer)
<1>1. client'[c] = IF \E o \in Origins : On(o)
                   THEN IF e.code = 200 THEN Cosigned(client[c], sig) ELSE Answered(e.code)
                   ELSE client[c]
    BY DEF Close, Cosigned, Answered
<1>2. ASSUME \E o \in Origins : On(o)
      PROVE  e \in Entries /\ e.code \in Codes \ AtFault
    <2>1. Place \in Origins /\ On(Place)
        BY <1>2, Zenon
    <2> HIDE DEF Place
    <2> QED
        BY <2>1 DEF HonestEntry, Entries
<1>3. e \in Entries => sig \in Cosigs
    BY DEF Cosig, Cosigs, Entries
<1> HIDE DEF e, sig, On
<1>4. CASE ~(\E o \in Origins : On(o))
    BY <1>1, <1>4 DEF HonestFeedInv, HonestInv
<1>5. CASE (\E o \in Origins : On(o)) /\ e.code = 200
    <2>1. Cosigned(client[c], sig).at = "done" /\ Cosigned(client[c], sig).code = 200
        BY <1>0, <1>2, <1>3, <1>5, CosignedType
    <2> QED
        BY <1>1, <1>5, <2>1 DEF HonestHandler, InHand, AtFault
<1>6. CASE (\E o \in Origins : On(o)) /\ e.code # 200
    BY <1>1, <1>2, <1>6, AnsweredHonest
<1> QED
    BY <1>4, <1>5, <1>6

\* The results the sequencer sets are 200, 500 and 503.
LEMMA ResultsHonest ==
    ASSUME HonestFeedInv, NEW entries \in [Origins -> Entries \cup {None}],
           \A o \in Origins : HonestEntry(entries[o]),
           NEW codes \in [Origins -> Codes \ AtFault], NEW told, told = SetResults(entries, codes)
    PROVE  told \in [Origins -> Entries \cup {None}] /\ \A o \in Origins : HonestEntry(told[o])
<1>1. codes \in [Origins -> Codes]
    OBVIOUS
<1>2. /\ told \in [Origins -> Entries \cup {None}]
      /\ \A o \in Origins :
            /\ told[o] = None <=> entries[o] = None
            /\ entries[o] # None => told[o].head = entries[o].head /\ told[o].code = codes[o]
    BY <1>1, ResultsType
<1> QED
    BY <1>2 DEF HonestEntry

\* A tick that fails is the witness's fault, not the feed's.
LEMMA PoolResultHonest ==
    ASSUME HonestFeedInv, NEW entries \in [Origins -> Entries \cup {None}],
           \A o \in Origins : HonestEntry(entries[o]), NEW code \in {500, 503},
           NEW told, told = SetPoolResult(entries, code)
    PROVE  told \in [Origins -> Entries \cup {None}] /\ \A o \in Origins : HonestEntry(told[o])
<1>1. [o \in Origins |-> code] \in [Origins -> Codes \ AtFault]
    BY DEF Codes, AtFault
<1> QED
    BY <1>1, ResultsHonest DEF SetPoolResult

\* The sequencer stores only checkpoints of the log.
LEMMA SequencerHonest ==
    ASSUME HonestFeedInv, SequencerNext, UNCHANGED feedVars
    PROVE  HonestInv'
<1>1. /\ pool \in [Origins -> Entries \cup {None}] /\ inSeq \in [Origins -> Entries \cup {None}]
      /\ tip' = tip
      /\ \A c \in Clients : HonestHandler(client[c])
      /\ \A o \in Origins : HonestEntry(pool[o]) /\ HonestEntry(inSeq[o])
                            /\ mem[o] \in Published \cup {NoNote}
    BY DEF feedVars, HonestFeedInv, WitnessInv, WitnessTypeOK, HonestInv
<1>2. HonestEntry(None)
    BY DEF HonestEntry
<1>3. CASE RunSequencer
    BY <1>1, <1>3, HonestAfter DEF RunSequencer
<1>4. CASE StopPools
    <2> DEFINE told == SetPoolResult(pool, 503)
    <2>1. told \in [Origins -> Entries \cup {None}] /\ \A o \in Origins : HonestEntry(told[o])
        BY <1>1, PoolResultHonest
    <2>2. Close(told) /\ UNCHANGED <<inSeq, mem>> /\ \A o \in Origins : pool'[o] = None
        BY <1>4 DEF StopPools
    <2> HIDE DEF told
    <2>3. \A c \in Clients : HonestHandler(client'[c])
        BY <2>1, <2>2, CloseHonest
    <2> QED
        BY <1>1, <1>2, <2>2, <2>3, HonestAfter
<1>5. CASE Rotate
    BY <1>1, <1>2, <1>5, HonestAfter DEF Rotate
<1>6. CASE Sign
    <2>1. \A o \in Origins : HonestEntry(inSeq'[o])
        <3>1. CASE SignNothing
            BY <1>1, <3>1, PoolResultHonest DEF SignNothing
        <3>2. CASE SignBatch
            <4> DEFINE codes == [o \in Origins |-> IF o \in Current THEN 200 ELSE 503]
            <4>1. codes \in [Origins -> Codes \ AtFault]
                BY DEF Codes, AtFault
            <4>2. inSeq' = SetResults(inSeq, codes)
                BY <3>2 DEF SignBatch
            <4> HIDE DEF codes
            <4> QED
                BY <1>1, <4>1, <4>2, ResultsHonest
        <3> QED
            BY <1>6, <3>1, <3>2 DEF Sign
    <2> QED
        BY <1>1, <1>6, <2>1, HonestAfter DEF Sign
<1>7. CASE PutSucceeds
    <2>1. \A o \in Origins : mem'[o] = IF SignedStates[o] # NoNote THEN SignedStates[o] ELSE mem[o]
        BY <1>7 DEF PutSucceeds, Merge
    <2>2. \A o \in Origins : SignedStates[o] \in Published \cup {NoNote}
        BY <1>1 DEF SignedStates, HonestEntry
    <2> QED
        BY <1>1, <1>7, <2>1, <2>2, HonestAfter DEF PutSucceeds
<1>8. CASE PutFails
    <2>1. \A o \in Origins : HonestEntry(inSeq'[o])
        BY <1>1, <1>8, PoolResultHonest DEF PutFails
    <2> QED
        BY <1>1, <1>8, <2>1, HonestAfter DEF PutFails
<1>9. CASE Retire
    <2>1. \A c \in Clients : HonestHandler(client'[c])
        BY <1>1, <1>9, CloseHonest DEF Retire
    <2> QED
        BY <1>1, <1>2, <1>9, <2>1, HonestAfter DEF Retire
<1> QED
    BY <1>3, <1>4, <1>5, <1>6, <1>7, <1>8, <1>9 DEF SequencerNext, Put

\* Every step of the witness keeps HonestInv.
LEMMA WitnessStepHonest ==
    ASSUME HonestFeedInv, WitnessStep
    PROVE  HonestInv'
<1>1. CASE SignerNext
    <2>1. UNCHANGED <<client, pool, inSeq, mem, tip>>
        BY <1>1 DEF SignerNext, AddEpoch, StoreSigner, WitnessStep, feedVars
    <2> QED
        BY <2>1, HonestAfter DEF HonestFeedInv, HonestInv
<1>2. CASE \E c \in Clients : HandlerStep(c)
    BY <1>2, CheckRequestHonest, LoadEpochHonest, RefuseHonest, JoinHonest, AdmitHonest
    DEF WitnessStep, HandlerStep, AddToPool
<1> QED
    BY <1>1, <1>2, SequencerHonest DEF WitnessStep

-----------------------------------------------------------------------------
(* Steps of the command *)

\* How an answer ends a run, with its code, and with its checkpoint too.
Over(at, code) == [Run(at) EXCEPT !.code = code]

OverCosigned(head, code) == [Run("cosigned") EXCEPT !.head = head, !.code = code]

\* A run that ended, or has its key, has no handler.
LEMMA RunType ==
    ASSUME NEW at \in Ended \cup {"keyed"}
    PROVE  Run(at) \in Runs /\ Run(at).at = at /\ Run(at).handler = None
BY DEF Run, Runs, Codes

\* A run that read the key holds it.
LEMMA KeyedType ==
    ASSUME NEW key \in Signers
    PROVE  LET r == [Run("keyed") EXCEPT !.key = key]
           IN  r \in Runs /\ r.at = "keyed" /\ r.handler = None /\ r.key = key
BY RunType DEF Runs

\* A run that ended has the status it got.
LEMMA OverType ==
    ASSUME NEW at \in Ended, NEW code \in Codes
    PROVE  LET r == Over(at, code)
           IN  r \in Runs /\ r.at = at /\ r.handler = None /\ r.code = code
BY RunType DEF Over, Runs

\* So has one that ended with its checkpoint cosigned.
LEMMA OverCosignedType ==
    ASSUME NEW head \in Heads, NEW code \in Codes
    PROVE  LET r == OverCosigned(head, code)
           IN  r \in Runs /\ r.at = "cosigned" /\ r.handler = None
<1>1. "cosigned" \in Ended
    BY DEF Ended
<1>2. Run("cosigned") \in Runs /\ Run("cosigned").at = "cosigned" /\ Run("cosigned").handler = None
    BY <1>1, RunType
<1> QED
    BY <1>2 DEF OverCosigned, Runs

\* One run moves, and takes no handler another one reads from.
LEMMA RunMoves ==
    ASSUME RunsInv, NEW f \in Feeders, NEW r \in Runs, feeder' = [feeder EXCEPT ![f] = r],
           tip' = tip,
           r.at \in {"fetched", "first", "second"} => r.head \in Published,
           r.at \in {"first", "second"} => r.handler \in Clients,
           r.at \notin {"first", "second"} => r.handler = None,
           r.handler # None => \A g \in Feeders \ {f} : feeder[g].handler # r.handler
    PROVE  /\ RunsInv' /\ feeder'[f] = r
           /\ \A g \in Feeders \ {f} : feeder'[g] = feeder[g]
<1>1. feeder' \in [Feeders -> Runs] /\ feeder'[f] = r
      /\ \A g \in Feeders \ {f} : feeder'[g] = feeder[g]
    BY DEF RunsInv
<1>2. Published' = Published
    BY DEF Published
<1> QED
    BY <1>1, <1>2 DEF RunsInv

\* A run that ends, or starts: it reads from no handler.
LEMMA RunDropped ==
    ASSUME RunsInv, NEW f \in Feeders, NEW r \in Runs, feeder' = [feeder EXCEPT ![f] = r],
           tip' = tip, r.at \in Ended \cup {"keyed"}, r.handler = None
    PROVE  /\ RunsInv' /\ feeder'[f] = r
           /\ \A g \in Feeders \ {f} : feeder'[g] = feeder[g]
<1>1. r.at \notin {"fetched", "first", "second"}
    BY DEF Ended
<1> QED
    BY <1>1, RunMoves

\* A step of the feeder alone keeps WitnessInv.
LEMMA WitnessUnchanged == WitnessInv /\ UNCHANGED witnessVars => WitnessInv'
BY WitnessInductive

\* The log may grow at any time.
LEMMA GrowHonest ==
    ASSUME HonestFeedInv, Grow
    PROVE  HonestFeedInv'
<1>1. tip' \in DOMAIN Chain /\ Published \subseteq Published' /\ UNCHANGED <<witnessVars, feeder>>
    <2>1. DOMAIN Chain = 1..Len(Chain) /\ Len(Chain) \in Nat
        BY FeederAssumption
    <2>2. tip \in 1..Len(Chain) /\ tip < Len(Chain) /\ tip' = tip + 1
        BY <2>1 DEF Grow, HonestFeedInv, RunsInv
    <2>3. tip' \in 1..Len(Chain) /\ 1..tip \subseteq 1..tip'
        BY <2>1, <2>2
    <2> QED
        BY <2>1, <2>3 DEF Grow, Published
<1>2. WitnessInv'
    BY <1>1, WitnessUnchanged DEF HonestFeedInv
<1>3. RunsInv'
    BY <1>1 DEF HonestFeedInv, RunsInv
<1>4. HonestInv'
    <2>1. UNCHANGED <<client, pool, inSeq, mem>>
        BY <1>1 DEF witnessVars
    <2>2. ASSUME NEW c \in Clients PROVE HonestHandler(client[c])'
        BY <1>1, <2>1 DEF HonestFeedInv, HonestInv, HonestHandler, HonestRequest
    <2>3. ASSUME NEW o \in Origins
          PROVE  (/\ HonestEntry(pool[o]) /\ HonestEntry(inSeq[o])
                  /\ mem[o] \in Published \cup {NoNote})'
        BY <1>1, <2>1 DEF HonestFeedInv, HonestInv, HonestEntry
    <2> QED
        BY <2>2, <2>3 DEF HonestInv
<1> QED
    BY <1>2, <1>3, <1>4 DEF HonestFeedInv

\* A request of the command is honest and one of Requests.
LEMMA FeedRequestHonest ==
    ASSUME tip \in DOMAIN Chain, NEW head \in Published, NEW old \in 0..SizeOf(head),
           NEW proof, proof = ProofFrom(old, head)
    PROVE  LET r == FeedRequest(old, head, proof)
           IN  r \in Requests /\ HonestRequest(r)
<1>1. PICK i \in DOMAIN Chain : head = Chain[i]
    BY PublishedHeads
<1>2. proof \in {"none", "log"}
    BY DEF ProofFrom
<1>3. FeedRequest(old, head, proof) \in Requests
    BY <1>1, <1>2, FeedRequestsAssumption
<1> QED
    BY <1>3 DEF HonestRequest, FeedRequest

\* submit: what the handler has in hand afterwards, and who reads from it.
LEMMA SubmitHonest ==
    ASSUME HonestFeedInv, NEW f \in Feeders, NEW at \in {"first", "second"},
           feeder[f].head \in Published, NEW old \in 0..SizeOf(feeder[f].head),
           NEW proof, proof = ProofFrom(old, feeder[f].head),
           SubmitBody(f, at, old, proof), UNCHANGED tip
    PROVE  HonestFeedInv'
<1>1. PICK c \in FreeHandlers(f) :
          /\ LoadSigner(c, FeedRequest(old, feeder[f].head, proof))
          /\ feeder' = [feeder EXCEPT ![f].at = at, ![f].handler = c]
    BY DEF SubmitBody
<1>2. c \in Clients /\ \A g \in Feeders \ {f} : feeder[g].handler # c
    BY DEF FreeHandlers
<1> DEFINE r == FeedRequest(old, feeder[f].head, proof)
           run == [feeder[f] EXCEPT !.at = at, !.handler = c]
<1>3. r \in Requests /\ HonestRequest(r)
    BY FeedRequestHonest DEF HonestFeedInv, RunsInv
<1>4. feeder \in [Feeders -> Runs] /\ feeder[f] \in Runs
    BY DEF HonestFeedInv, RunsInv
<1>5. run \in Runs /\ run.at = at /\ run.handler = c /\ run.head = feeder[f].head
    BY <1>2, <1>4 DEF Runs
<1>6. feeder' = [feeder EXCEPT ![f] = run]
    BY <1>1, <1>4
<1>7. LoadSigner(c, r)
    BY <1>1
<1> HIDE DEF r, run
<1>8. RunsInv'
    BY <1>2, <1>5, <1>6, RunMoves DEF HonestFeedInv
<1>9. WitnessInv'
    BY <1>2, <1>3, <1>7, LoadSignerPreserves DEF HonestFeedInv
<1>10. HonestInv'
    <2>1. UNCHANGED <<pool, inSeq, mem, tip>>
        BY <1>7 DEF LoadSigner
    <2>2. CASE signer = NoSigner
        <3>1. 503 \in Codes \ AtFault
            BY DEF Codes, AtFault
        <3>2. client' = [client EXCEPT ![c] = Answered(503)]
            BY <1>7, <2>2 DEF LoadSigner, Answer, Answered
        <3> QED
            BY <1>2, <2>1, <3>1, <3>2, AnsweredHonest, HonestMoves
    <2>3. CASE signer # NoSigner
        <3> DEFINE h == [Idle EXCEPT !.at = "loaded", !.req = r, !.signer = signer]
        <3>1. h.req = r /\ h.code = Idle.code /\ Idle.code = 0
            BY IdleType DEF Handlers, Idle
        <3>2. client' = [client EXCEPT ![c] = h]
            BY <1>7, <2>3 DEF LoadSigner
        <3> HIDE DEF h
        <3>3. HonestHandler(h)
            BY <1>3, <3>1 DEF HonestHandler, AtFault
        <3> QED
            BY <1>2, <2>1, <3>2, <3>3, HonestMoves
    <2> QED
        BY <2>2, <2>3
<1> QED
    BY <1>8, <1>9, <1>10 DEF HonestFeedInv

\* A run that reads its answer lets the handler go.
LEMMA ReturnHonest ==
    ASSUME HonestFeedInv, NEW c \in Clients, client[c].at = "done", HandlerReturns(c),
           UNCHANGED <<signer, epoch, mu, pool, inSeq, seq, mem, halted, released, tip>>
    PROVE  WitnessInv' /\ HonestInv'
<1>1. client' = [client EXCEPT ![c] = Idle] /\ Idle.at = "idle" /\ Idle.code = 0
    BY DEF HandlerReturns, Idle
<1>2. WitnessInv'
    BY <1>1, IdleType, HandlerMoves DEF HonestFeedInv
<1>3. HonestHandler(Idle)
    BY <1>1 DEF HonestHandler, InHand, AtFault
<1> QED
    BY <1>1, <1>2, <1>3, HonestMoves

\* Every step of a run keeps the invariant, one case per request.
LEMMA FeederStepHonest ==
    ASSUME HonestFeedInv, NEW f \in Feeders, FeederStep(f) \/ Fail(f)
    PROVE  HonestFeedInv'
<1>0. feeder \in [Feeders -> Runs] /\ feeder[f] \in Runs /\ tip \in DOMAIN Chain /\ RunsInv
    BY DEF HonestFeedInv, RunsInv
<1>1. ASSUME UNCHANGED <<witnessVars, tip>>, RunsInv' PROVE HonestFeedInv'
    <2>1. WitnessInv'
        BY <1>1, WitnessUnchanged DEF HonestFeedInv
    <2>2. HonestInv'
        BY <1>1, HonestAfter DEF witnessVars, HonestFeedInv, HonestInv
    <2> QED
        BY <1>1, <2>1, <2>2 DEF HonestFeedInv
<1>2. CASE FetchKey(f)
    <2> DEFINE r == IF signer = NoSigner THEN Run("off") ELSE [Run("keyed") EXCEPT !.key = signer]
    <2>1. signer \in Signers \cup {NoSigner}
        BY DEF HonestFeedInv, WitnessInv, WitnessTypeOK
    <2>2. r \in Runs /\ r.at \in Ended \cup {"keyed"} /\ r.handler = None
        BY <2>1, RunType, KeyedType DEF Ended
    <2>3. feeder' = [feeder EXCEPT ![f] = r] /\ UNCHANGED <<witnessVars, tip>>
        BY <1>2 DEF FetchKey
    <2> HIDE DEF r
    <2> QED
        BY <1>0, <1>1, <2>2, <2>3, RunDropped
<1>3. CASE FetchCheckpoint(f)
    <2> DEFINE r == [feeder[f] EXCEPT !.at = "fetched", !.head = Chain[tip]]
    <2>1. Chain[tip] \in Heads /\ Chain[tip] \in Published
        BY <1>0, PublishedHeads
    <2>2. r \in Runs /\ r.at = "fetched" /\ r.head = Chain[tip] /\ r.handler = feeder[f].handler
        BY <1>0, <2>1 DEF Runs
    <2>3. feeder' = [feeder EXCEPT ![f] = r] /\ UNCHANGED <<witnessVars, tip>>
        BY <1>0, <1>3 DEF FetchCheckpoint
    <2>4. r.handler = None
        BY <1>0, <1>3, <2>2 DEF RunsInv, FetchCheckpoint
    <2> HIDE DEF r
    <2> QED
        BY <1>0, <1>1, <2>1, <2>2, <2>3, <2>4, RunMoves
<1>4. CASE SubmitFirst(f)
    <2>1. feeder[f].head \in Published /\ SizeOf(feeder[f].head) \in Nat
        BY <1>0, <1>4, PublishedHeads DEF SubmitFirst, RunsInv
    <2>2. 0 \in 0..SizeOf(feeder[f].head) /\ ProofFrom(0, feeder[f].head) = "none"
        BY <2>1 DEF ProofFrom
    <2> QED
        BY <1>4, <2>1, <2>2, SubmitHonest DEF SubmitFirst
<1>5. CASE SubmitAgain(f)
    <2> DEFINE latest == client[feeder[f].handler].latest
    <2>1. feeder[f].at = "first" /\ feeder[f].handler \in Clients /\ feeder[f].head \in Published
        BY <1>0, <1>5 DEF SubmitAgain, RunsInv
    <2>2. SizeOf(feeder[f].head) \in Nat
        BY <1>0, <2>1, PublishedHeads
    <2>3. latest \in Nat
        <3>1. latest \in Sizes
            BY <2>1 DEF HonestFeedInv, WitnessInv, WitnessTypeOK, Handlers
        <3> QED
            BY <3>1, HeadsAssumption DEF Sizes
    <2>4. latest <= SizeOf(feeder[f].head) /\ UNCHANGED tip
          /\ SubmitBody(f, "second", latest, ProofFrom(latest, feeder[f].head))
        BY <1>5 DEF SubmitAgain
    <2> HIDE DEF latest
    <2>5. latest \in 0..SizeOf(feeder[f].head)
        BY <2>2, <2>3, <2>4
    <2> QED
        BY <2>1, <2>4, <2>5, SubmitHonest
<1>6. CASE Ahead(f)
    <2>1. /\ feeder[f].handler \in Clients /\ client[feeder[f].handler].at = "done"
          /\ HandlerReturns(feeder[f].handler)
          /\ UNCHANGED <<signer, epoch, mu, pool, inSeq, seq, mem, halted, released, tip>>
        BY <1>0, <1>6 DEF Ahead, RunsInv
    <2>2. WitnessInv' /\ HonestInv'
        BY <2>1, ReturnHonest
    <2>3. feeder' = [feeder EXCEPT ![f] = Over("ahead", 409)]
        BY <1>6 DEF Ahead, End, Over
    <2>4. "ahead" \in Ended /\ 409 \in Codes
        BY DEF Ended, Codes
    <2>5. /\ Over("ahead", 409) \in Runs /\ Over("ahead", 409).at \in Ended
          /\ Over("ahead", 409).handler = None
        BY <2>4, OverType
    <2>6. RunsInv'
        BY <1>0, <2>1, <2>3, <2>5, RunDropped
    <2> QED
        BY <2>2, <2>6 DEF HonestFeedInv
<1>7. CASE ReadAnswer(f)
    <2> DEFINE answer == client[feeder[f].handler]
    <2>1. /\ feeder[f].handler \in Clients /\ answer.at = "done" /\ feeder[f].head \in Published
          /\ HandlerReturns(feeder[f].handler)
          /\ UNCHANGED <<signer, epoch, mu, pool, inSeq, seq, mem, halted, released, tip>>
        BY <1>0, <1>7 DEF ReadAnswer, RunsInv
    <2>2. WitnessInv' /\ HonestInv'
        BY <2>1, ReturnHonest
    <2>3. answer.code \in Codes /\ 200 \in Codes /\ feeder[f].head \in Heads
        BY <1>0, <2>1, PublishedHeads DEF HonestFeedInv, WitnessInv, WitnessTypeOK, Handlers, Codes
    <2>4. \/ feeder' = [feeder EXCEPT ![f] = Over("refused", answer.code)]
          \/ feeder' = [feeder EXCEPT ![f] = OverCosigned(feeder[f].head, 200)]
          \/ feeder' = [feeder EXCEPT ![f] = Over("badkey", 200)]
        BY <1>7 DEF ReadAnswer, End, Over, OverCosigned
    <2>5. {"refused", "badkey", "cosigned"} \subseteq Ended
        BY DEF Ended
    <2> HIDE DEF answer
    <2>6. RunsInv'
        BY <1>0, <2>1, <2>3, <2>4, <2>5, OverType, OverCosignedType, RunDropped
    <2> QED
        BY <2>2, <2>6 DEF HonestFeedInv
<1>8. CASE Fail(f)
    <2>1. feeder' = [feeder EXCEPT ![f] = Over("off", 0)] /\ UNCHANGED <<witnessVars, tip>>
        BY <1>8 DEF Fail, End, Over
    <2>2. "off" \in Ended /\ 0 \in Codes
        BY DEF Ended, Codes
    <2>3. Over("off", 0) \in Runs /\ Over("off", 0).at \in Ended /\ Over("off", 0).handler = None
        BY <2>2, OverType
    <2> QED
        BY <1>0, <1>1, <2>1, <2>3, RunDropped
<1> QED
    BY <1>2, <1>3, <1>4, <1>5, <1>6, <1>7, <1>8 DEF FeederStep

\* Every step keeps HonestFeedInv.
LEMMA HonestFeedInductive == HonestFeedInv /\ [FeedNext]_allVars => HonestFeedInv'
<1> SUFFICES ASSUME HonestFeedInv, [FeedNext]_allVars PROVE HonestFeedInv'
    OBVIOUS
<1>1. CASE WitnessStep
    <2>1. WitnessNext /\ UNCHANGED feedVars
        BY <1>1 DEF WitnessStep, HandlerStep, WitnessNext, ServeNext, ClientNext
    <2>2. WitnessInv'
        BY <2>1, WitnessInductive DEF HonestFeedInv
    <2>3. RunsInv'
        BY <2>1 DEF feedVars, HonestFeedInv, RunsInv, Published
    <2> QED
        BY <1>1, <2>2, <2>3, WitnessStepHonest DEF HonestFeedInv
<1>2. CASE UNCHANGED allVars
    <2>1. UNCHANGED <<witnessVars, tip, feeder>>
        BY <1>2 DEF allVars
    <2>2. WitnessInv'
        BY <2>1, WitnessUnchanged DEF HonestFeedInv
    <2>3. RunsInv'
        BY <2>1 DEF HonestFeedInv, RunsInv, Published
    <2>4. HonestInv'
        BY <2>1, HonestAfter DEF witnessVars, HonestFeedInv, HonestInv
    <2> QED
        BY <2>2, <2>3, <2>4 DEF HonestFeedInv
<1> QED
    BY <1>1, <1>2, GrowHonest, FeederStepHonest DEF FeedNext

\* HonestFeedInv holds before the first run.
LEMMA HonestFeedInitInv == FeedInit => HonestFeedInv
<1> SUFFICES ASSUME FeedInit PROVE HonestFeedInv
    OBVIOUS
<1>1. WitnessInv
    BY WitnessInitInv DEF FeedInit
<1>2. RunsInv
    <2>1. DOMAIN Chain = 1..Len(Chain) /\ Len(Chain) \in Nat /\ Len(Chain) > 0
        BY FeederAssumption
    <2>2. tip \in DOMAIN Chain
        BY <2>1 DEF FeedInit
    <2>3. Run("off") \in Runs /\ Run("off").at = "off" /\ Run("off").handler = None
        BY RunType DEF Ended
    <2> QED
        BY <2>2, <2>3 DEF FeedInit, RunsInv
<1>3. HonestInv
    <2>1. Idle.at = "idle" /\ Idle.code = 0
        BY DEF Idle
    <2>2. HonestHandler(Idle) /\ HonestEntry(None)
        BY <2>1 DEF HonestHandler, HonestEntry, InHand, AtFault
    <2> QED
        BY <2>2 DEF FeedInit, WitnessInit, Nothing, HonestInv
<1> QED
    BY <1>1, <1>2, <1>3 DEF HonestFeedInv

\* Whatever cmdFeed has in flight is honest, and so is what the witness made of it.
THEOREM HonestFeedInvariant == FeedSpec => []HonestFeedInv
BY HonestFeedInitInv, HonestFeedInductive, PTL DEF FeedSpec

\* No request of cmdFeed is ever answered 400 or 422, whatever size the witness
\* reported while other hosts moved it (HonestFeedNeverAtFault).
THEOREM FeedNeverAtFault == FeedSpec => []HonestFeedNeverAtFault
<1>1. HonestFeedInv => HonestFeedNeverAtFault
    BY DEF HonestFeedInv, HonestInv, HonestHandler, AtFault, HonestFeedNeverAtFault
<1> QED
    BY <1>1, HonestFeedInvariant, PTL

-----------------------------------------------------------------------------
(* A run nothing interferes with *)

\* A run that is calm and is calm again after the step.
Steady(f) ==
    /\ Calm(f) /\ CalmRun(f) /\ ~Contended(f)'
    /\ signer' = signer /\ epoch' = epoch

\* What Watch records.
LEMMA WatchTells ==
    ASSUME CalmInv, Watch, NEW f \in Feeders
    PROVE  /\ disturbed' \in [Feeders -> BOOLEAN]
           /\ Calm(f)' /\ feeder[f].at \in Ended => ~Contended(f)'
           /\ Calm(f)' /\ feeder[f].at \notin Ended => Steady(f)
           /\ /\ feeder'[f].at \in {"ahead", "badkey", "refused"} /\ ~disturbed'[f]
              /\ feeder[f].at \notin Ended
              => Calm(f) /\ CalmRun(f)
           /\ /\ feeder'[f].at \in {"ahead", "badkey", "refused"} /\ ~disturbed'[f]
              /\ feeder[f].at \in Ended
              => ~disturbed[f]
<1> DEFINE ended == feeder[f].at \in Ended
           starts == ended /\ feeder'[f].at \notin Ended
<1>1. disturbed' \in [Feeders -> BOOLEAN]
    BY DEF Watch
<1>2. disturbed'[f] <=>
          /\ feeder'[f].at \notin {"off", "cosigned"}
          /\ \/ ~starts /\ disturbed[f]
             \/ (starts \/ ~ended) /\ Contended(f)'
             \/ ~ended /\ signerVars' # signerVars
    BY DEF Watch
<1>3. {"off", "cosigned", "ahead", "badkey", "refused"} \subseteq Ended
    BY DEF Ended
<1>4. Calm(f) => CalmRun(f)
    BY DEF CalmInv
<1>5. Calm(f)' <=> feeder'[f].at \notin Ended /\ ~disturbed'[f]
    BY DEF Calm
<1>6. signerVars' = signerVars => signer' = signer /\ epoch' = epoch
    BY DEF signerVars
<1>7. ~disturbed'[f] /\ feeder'[f].at \notin {"off", "cosigned"} /\ ~ended =>
          ~disturbed[f] /\ ~Contended(f)' /\ signerVars' = signerVars
    BY <1>2
<1>8. Calm(f)' => feeder'[f].at \notin {"off", "cosigned"}
    BY <1>3, <1>5
<1>9. Calm(f)' /\ ended => ~Contended(f)'
    BY <1>2, <1>5, <1>8
<1>10. Calm(f)' /\ ~ended => Steady(f)
    BY <1>4, <1>5, <1>6, <1>7, <1>8 DEF Steady, Calm
<1>11. feeder'[f].at \in {"ahead", "badkey", "refused"} /\ ~disturbed'[f] /\ ~ended
          => Calm(f) /\ CalmRun(f)
    BY <1>4, <1>7 DEF Calm
<1>12. feeder'[f].at \in {"ahead", "badkey", "refused"} /\ ~disturbed'[f] /\ ended
          => ~disturbed[f]
    BY <1>2, <1>3
<1> QED
    BY <1>1, <1>9, <1>10, <1>11, <1>12

\* A calm run's log is not pending, or its own handler waits for what is.
LEMMA CalmPending ==
    ASSUME HonestFeedInv, NEW f \in Feeders, Calm(f), CalmRun(f)
    PROVE  /\ ~halted
           /\ \/ pool[LogOrigin] = None /\ inSeq[LogOrigin] = None
              \/ /\ feeder[f].at \in {"first", "second"}
                 /\ client[feeder[f].handler].at = "wait"
                 /\ \/ inSeq[LogOrigin] = None
                    \/ pool[LogOrigin] = None /\ OnEntry(inSeq, feeder[f].handler, LogOrigin)
<1>1. /\ LogOrigin \in Origins
      /\ pool \in [Origins -> Entries \cup {None}] /\ inSeq \in [Origins -> Entries \cup {None}]
      /\ pool[LogOrigin] # None => inSeq[LogOrigin] = None
    BY FeederAssumption DEF HonestFeedInv, WitnessInv, WitnessTypeOK, PendingExtendsStore
<1>2. ~halted /\ (Pending(LogOrigin) = None \/ feeder[f].handler \in Pending(LogOrigin).waiters)
    BY DEF CalmRun, Contended
<1>3. CASE Pending(LogOrigin) = None
    BY <1>1, <1>2, <1>3 DEF Pending
<1>4. CASE Pending(LogOrigin) # None
    <2>1. Pending(LogOrigin) \in Entries
        BY <1>1, <1>4 DEF Pending
    <2>2. feeder[f].handler \in Clients
        BY <1>2, <1>4, <2>1 DEF Entries
    <2>3. feeder[f].at \in {"first", "second"}
        BY <2>2, FeederAssumption DEF HonestFeedInv, RunsInv
    <2>4. \/ inSeq[LogOrigin] = None /\ OnEntry(pool, feeder[f].handler, LogOrigin)
          \/ pool[LogOrigin] = None /\ OnEntry(inSeq, feeder[f].handler, LogOrigin)
        BY <1>1, <1>2, <1>4 DEF Pending, OnEntry
    <2>5. client[feeder[f].handler].at = "wait"
        BY <1>1, <2>2, <2>4 DEF HonestFeedInv, WitnessInv, WaiterInv, TracksWaiters
    <2> QED
        BY <1>2, <2>3, <2>4, <2>5
<1> QED
    BY <1>3, <1>4

\* A step of the handler of a run, which then has h in hand.
LEMMA SteadyMoved ==
    ASSUME NEW f \in Feeders, Steady(f), feeder'[f] = feeder[f],
           feeder[f].at \in {"first", "second"}, NEW h, client'[feeder[f].handler] = h,
           mem'[LogOrigin] = mem[LogOrigin],
           Carried(feeder[f], h, signer, epoch, Latest(LogOrigin)),
           h.at = "wait" /\ BatchSigned' => inSeq'[LogOrigin].code \in {200, 500}
    PROVE  CalmRun(f)'
<1>1. Latest(LogOrigin)' = Latest(LogOrigin)
    BY DEF Latest, SizeHeld
<1>2. CalmRun(f) /\ ~Contended(f)' /\ signer' = signer /\ epoch' = epoch
    BY DEF Steady
<1>3. Served(f)'
    BY <1>1, <1>2 DEF Served
<1> QED
    BY <1>1, <1>2, <1>3 DEF CalmRun

\* Steps that leave the run, its handler and its log alone.
LEMMA SteadyKept ==
    ASSUME NEW f \in Feeders, Steady(f), feeder'[f] = feeder[f],
           feeder[f].at \in {"first", "second"} =>
               client'[feeder[f].handler] = client[feeder[f].handler],
           mem'[LogOrigin] = mem[LogOrigin],
           BatchSigned' => BatchSigned /\ inSeq'[LogOrigin].code = inSeq[LogOrigin].code
    PROVE  CalmRun(f)'
<1>1. CASE feeder[f].at \in {"first", "second"}
    <2>1. Served(f)
        BY <1>1 DEF Steady, CalmRun
    <2> QED
        BY <1>1, <2>1, SteadyMoved DEF Served
<1>2. CASE feeder[f].at \notin {"first", "second"}
    <2>1. Latest(LogOrigin)' = Latest(LogOrigin)
        BY DEF Latest, SizeHeld
    <2> QED
        BY <1>2, <2>1 DEF Steady, CalmRun
<1> QED
    BY <1>1, <1>2

-----------------------------------------------------------------------------
(* Steps of the witness under a calm run *)

LEMMA SteadySigner ==
    ASSUME NEW f \in Feeders, Steady(f), SignerNext, UNCHANGED feedVars
    PROVE  CalmRun(f)'
<1>1. UNCHANGED <<client, inSeq, seq, mem, feeder>>
    BY DEF SignerNext, AddEpoch, StoreSigner, feedVars
<1> QED
    BY <1>1, SteadyKept DEF BatchSigned

\* A handler's step is nothing to a run that reads from another one.
LEMMA SteadyOther ==
    ASSUME HonestFeedInv, NEW f \in Feeders, Steady(f), NEW c \in Clients, HandlerStep(c),
           UNCHANGED feedVars, c # feeder[f].handler
    PROVE  CalmRun(f)'
<1>1. client \in [Clients -> Handlers] /\ inSeq \in [Origins -> Entries \cup {None}]
      /\ LogOrigin \in Origins
    BY FeederAssumption DEF HonestFeedInv, WitnessInv, WitnessTypeOK
<1>2. feeder'[f] = feeder[f] /\ UNCHANGED <<mem, seq>>
    BY DEF feedVars, HandlerStep, CheckRequest, LoadEpoch, AddToPool
<1>3. feeder[f].at \in {"first", "second"} =>
          client'[feeder[f].handler] = client[feeder[f].handler]
    <2>1. feeder[f].at \in {"first", "second"} => feeder[f].handler \in Clients
        BY DEF HonestFeedInv, RunsInv
    <2>2. \A d \in Clients \ {c} : client'[d] = client[d]
        BY <1>1 DEF HandlerStep, CheckRequest, LoadEpoch, AddToPool, JoinPending, Admit, Refuse,
                    Answer, AnswerConflict, AnswerFull, Wait
    <2> QED
        BY <2>1, <2>2
<1>4. BatchSigned' => BatchSigned /\ inSeq'[LogOrigin].code = inSeq[LogOrigin].code
    <2>1. CASE inSeq' = inSeq
        BY <1>2, <2>1 DEF BatchSigned
    <2>2. CASE inSeq' # inSeq
        <3> DEFINE o == client[c].req.origin
        <3>1. client[c].at = "candidate" /\ JoinPending(c)
            BY <2>2 DEF HandlerStep, CheckRequest, LoadEpoch, AddToPool, Admit, Refuse, poolVars
        <3>2. o \in Origins
            BY <3>1, RequestsAssumption DEF HonestFeedInv, WitnessInv, HandlerInv, HandlerOK
        <3>3. inSeq[o] # None /\ inSeq' = [inSeq EXCEPT ![o].waiters = @ \cup {c}]
            BY <2>2, <3>1 DEF JoinPending, Pending
        <3> HIDE DEF o
        <3>4. /\ \A p \in Origins \ {o} : inSeq'[p] = inSeq[p]
              /\ inSeq'[o].code = inSeq[o].code
            BY <1>1, <3>2, <3>3, JoinEntries
        <3> QED
            BY <1>1, <1>2, <3>3, <3>4 DEF BatchSigned
    <2> QED
        BY <2>1, <2>2
<1> QED
    BY <1>2, <1>3, <1>4, SteadyKept

\* The handler of a calm run gets its request into the pool, or a conflict the first
\* time: nobody else's entry is in its way, and the pool has room.
LEMMA SteadyOwn ==
    ASSUME HonestFeedInv, CalmInv, MaxPoolSize > 0,
           NEW f \in Feeders, Steady(f), HandlerStep(feeder[f].handler),
           feeder[f].at \in {"first", "second"}, UNCHANGED feedVars
    PROVE  CalmRun(f)'
<1> DEFINE c == feeder[f].handler
           size == Latest(LogOrigin)
<1>1. /\ c \in Clients /\ client \in [Clients -> Handlers] /\ client[c] \in Handlers
      /\ HonestHandler(client[c]) /\ LogOrigin \in Origins
      /\ feeder'[f] = feeder[f] /\ tip \in DOMAIN Chain
    BY FeederAssumption
    DEF HonestFeedInv, WitnessInv, WitnessTypeOK, HonestInv, RunsInv, feedVars
<1>2. Carried(feeder[f], client[c], signer, epoch, size) /\ Calm(f) /\ CalmRun(f)
    BY DEF Steady, CalmRun, Served
<1>3. ~halted /\ (client[c].at # "wait" => pool[LogOrigin] = None /\ inSeq[LogOrigin] = None)
    BY <1>2, CalmPending
<1>4. HandlerStep(c)
    OBVIOUS
<1>5. mem' = mem /\ client[c].at \in {"loaded", "parsed", "candidate"}
    BY <1>4 DEF HandlerStep, CheckRequest, LoadEpoch, AddToPool
<1>6. HonestRequest(client[c].req) /\ client[c].req.origin = LogOrigin
    BY <1>1, <1>5 DEF HonestHandler, InHand, HonestRequest
<1>7. client[c].req.old \in Nat /\ SizeOf(client[c].req.head) \in Nat
      /\ client[c].req.old <= SizeOf(client[c].req.head)
    <2>1. SizeOf(client[c].req.head) \in Nat /\ client[c].req.old \in 0..SizeOf(client[c].req.head)
        BY <1>1, <1>6, PublishedHeads DEF HonestRequest
    <2> QED
        BY <2>1
<1> HIDE DEF c, size
<1>8. CASE CheckRequest(c)
    <2> DEFINE h == [client[c] EXCEPT !.at = "parsed"]
    <2>1. h.at = "parsed" /\ h.req = client[c].req /\ h.signer = client[c].signer
        BY <1>1 DEF Handlers
    <2>2. client' = [client EXCEPT ![c].at = "parsed"] /\ client[c].at = "loaded"
        BY <1>3, <1>7, <1>8 DEF CheckRequest
    <2>3. client'[c] = h
        BY <1>1, <2>2
    <2> HIDE DEF h
    <2>4. Carried(feeder[f], h, signer, epoch, size)
        BY <1>2, <2>1, <2>2 DEF Carried, InHand
    <2> QED
        BY <1>1, <1>5, <2>1, <2>3, <2>4, SteadyMoved DEF c, size
<1>9. CASE LoadEpoch(c)
    <2> DEFINE h == [client[c] EXCEPT !.at = "candidate", !.epoch = epoch]
    <2>1. h.at = "candidate" /\ h.req = client[c].req /\ h.signer = client[c].signer
          /\ h.epoch = epoch
        BY <1>1 DEF Handlers
    <2>2. client'[c] = h /\ client[c].at = "parsed"
        BY <1>1, <1>9 DEF LoadEpoch
    <2> HIDE DEF h
    <2>3. Carried(feeder[f], h, signer, epoch, size)
        BY <1>2, <2>1, <2>2 DEF Carried, InHand
    <2> QED
        BY <1>1, <1>5, <2>1, <2>2, <2>3, SteadyMoved DEF c, size
<1>10. CASE AddToPool(c)
    <2>1. client[c].at = "candidate" /\ Pending(LogOrigin) = None
          /\ pool[LogOrigin] = None /\ inSeq[LogOrigin] = None
        BY <1>3, <1>10 DEF AddToPool, Pending
    <2>2. PoolSize = 0
        <3>1. {o \in Origins : pool[o] # None} = {}
            BY <2>1 DEF CalmInv
        <3> QED
            BY <3>1, FS_EmptySet DEF PoolSize
    <2>3. PoolSize < MaxPoolSize /\ ~(PoolSize >= MaxPoolSize)
        BY <2>2, WitnessBounds
    <2>4. client[c].req.old = size => Consistent(mem[LogOrigin], client[c].req)
        <3>1. mem[LogOrigin] \in Published \cup {NoNote}
            BY <1>1 DEF HonestFeedInv, HonestInv
        <3> QED
            BY <1>1, <1>6, <3>1, HonestConsistent DEF Latest, size
    <2>5. \/ Wait(c) /\ inSeq' = inSeq
          \/ AnswerConflict(c) /\ client[c].req.old # size
        BY <1>6, <1>10, <2>1, <2>3, <2>4 DEF AddToPool, JoinPending, Admit, Refuse, size
    <2>6. CASE Wait(c) /\ inSeq' = inSeq
        <3> DEFINE h == [client[c] EXCEPT !.at = "wait"]
        <3>1. h.at = "wait" /\ h.req = client[c].req /\ h.signer = client[c].signer
              /\ h.epoch = client[c].epoch
            BY <1>1 DEF Handlers
        <3>2. client'[c] = h
            BY <1>1, <2>6 DEF Wait
        <3> HIDE DEF h
        <3>3. Carried(feeder[f], h, signer, epoch, size)
            BY <1>2, <2>1, <3>1 DEF Carried, InHand
        <3>4. ~BatchSigned'
            BY <2>1, <2>6 DEF BatchSigned
        <3> QED
            BY <1>1, <1>5, <3>1, <3>2, <3>3, <3>4, SteadyMoved DEF c, size
    <2>7. CASE AnswerConflict(c) /\ client[c].req.old # size
        <3>1. feeder[f].at = "first"
            BY <1>2, <2>1, <2>7 DEF Carried, c
        <3> DEFINE h == Conflicted(409, size)
        <3>2. h.at = "done" /\ h.code = 409 /\ h.latest = size
            <4>1. \A code : LET k == Conflicted(code, size)
                            IN  k.at = "done" /\ k.code = code /\ k.latest = size
                BY IdleType DEF Conflicted, Handlers
            <4> QED
                BY <4>1
        <3>3. client'[c] = h
            BY <1>1, <1>6, <2>7 DEF AnswerConflict, Conflicted, size
        <3> HIDE DEF h
        <3>4. Carried(feeder[f], h, signer, epoch, size)
            BY <3>1, <3>2 DEF Carried, FitAnswer, InHand
        <3> QED
            BY <1>1, <1>5, <3>2, <3>3, <3>4, SteadyMoved DEF c, size
    <2> QED
        BY <2>5, <2>6, <2>7
<1> QED
    BY <1>4, <1>8, <1>9, <1>10 DEF HandlerStep

\* The sequencer passes by a run whose entry is not in the batch.
LEMMA SteadyAside ==
    ASSUME HonestFeedInv, NEW f \in Feeders, Steady(f), SequencerNext, MayStop = FALSE,
           UNCHANGED feedVars, inSeq[LogOrigin] = None
    PROVE  CalmRun(f)'
<1>1. /\ LogOrigin \in Origins /\ feeder'[f] = feeder[f]
      /\ inSeq \in [Origins -> Entries \cup {None}] /\ client \in [Clients -> Handlers]
    BY FeederAssumption DEF HonestFeedInv, WitnessInv, WitnessTypeOK, feedVars
<1>2. mem'[LogOrigin] = mem[LogOrigin]
    BY <1>1 DEF SequencerNext, RunSequencer, StopPools, Rotate, Sign, Put, PutSucceeds, PutFails,
                Retire, Merge, SignedStates
<1>3. ~BatchSigned'
    BY <1>1 DEF SequencerNext, RunSequencer, StopPools, Rotate, Sign, SignNothing, SignBatch, Put,
                PutSucceeds, PutFails, Retire, SetPoolResult, SetResults, BatchSigned
<1>4. feeder[f].at \in {"first", "second"} =>
          client'[feeder[f].handler] = client[feeder[f].handler]
    <2> SUFFICES ASSUME feeder[f].at \in {"first", "second"}
                 PROVE  client'[feeder[f].handler] = client[feeder[f].handler]
        OBVIOUS
    <2>1. feeder[f].handler \in Clients
        BY DEF HonestFeedInv, RunsInv
    <2>2. CASE client' = client
        BY <2>2
    <2>3. CASE client' # client
        <3>1. Close(inSeq)
            BY <2>3 DEF SequencerNext, RunSequencer, StopPools, Rotate, Sign, Put, PutSucceeds,
                        PutFails, Retire
        <3>2. \A o \in Origins : ~(inSeq[o] # None /\ feeder[f].handler \in inSeq[o].waiters)
            <4> SUFFICES ASSUME NEW o \in Origins, OnEntry(inSeq, feeder[f].handler, o)
                         PROVE  FALSE
                BY DEF OnEntry
            <4>1. client[feeder[f].handler].at = "wait"
                  /\ client[feeder[f].handler].req.origin = o
                BY <2>1 DEF HonestFeedInv, WitnessInv, WaiterInv, TracksWaiters
            <4>2. o = LogOrigin
                BY <2>1, <4>1 DEF HonestFeedInv, HonestInv, HonestHandler, HonestRequest, InHand
            <4> QED
                BY <4>2 DEF OnEntry
        <3> QED
            BY <2>1, <3>1, <3>2 DEF Close
    <2> QED
        BY <2>2, <2>3
<1> QED
    BY <1>1, <1>2, <1>3, <1>4, SteadyKept

\* What close(done) hands a handler whose entry is that of origin o.
LEMMA CloseOwn ==
    ASSUME HonestFeedInv, NEW entries \in [Origins -> Entries \cup {None}], TracksWaiters(entries),
           NEW c \in Clients, NEW o \in Origins, OnEntry(entries, c, o), Close(entries)
    PROVE  LET e == entries[o]
           IN  client'[c] = IF e.code = 200
                            THEN Cosigned(client[c], Cosig(e.head, e.ext, e.signer))
                            ELSE Answered(e.code)
<1> DEFINE On(p) == entries[p] # None /\ c \in entries[p].waiters
           Place == CHOOSE p \in Origins : On(p)
<1>1. \E p \in Origins : On(p)
    BY DEF OnEntry
<1>2. client'[c] = LET e == entries[Place]
                   IN  IF e.code = 200
                       THEN Cosigned(client[c], Cosig(e.head, e.ext, e.signer))
                       ELSE Answered(e.code)
    BY <1>1 DEF Close, Cosigned, Answered
<1>3. Place \in Origins /\ On(Place)
    BY <1>1, Zenon
<1> HIDE DEF Place
<1>4. Place = o
    <2>1. client[c].req.origin = Place
        BY <1>3 DEF TracksWaiters, OnEntry
    <2>2. client[c].req.origin = o
        BY DEF TracksWaiters
    <2> QED
        BY <2>1, <2>2
<1> QED
    BY <1>2, <1>4

\* The sequencer commits the entry of a calm run under the signer the run read, or
\* fails to: it finds the entry current.
LEMMA SteadyInBatch ==
    ASSUME HonestFeedInv, NEW f \in Feeders, Steady(f), SequencerNext, MayStop = FALSE,
           UNCHANGED feedVars, inSeq[LogOrigin] # None
    PROVE  CalmRun(f)'
<1> DEFINE c == feeder[f].handler
           o == LogOrigin
           h == client[c]
           e == inSeq[o]
           size == Latest(LogOrigin)
<1>1. /\ o \in Origins /\ feeder'[f] = feeder[f]
      /\ inSeq \in [Origins -> Entries \cup {None}] /\ client \in [Clients -> Handlers]
      /\ e \in Entries /\ e # None /\ TracksWaiters(inSeq)
    BY FeederAssumption DEF HonestFeedInv, WitnessInv, WitnessTypeOK, WaiterInv, feedVars
<1>2. /\ ~halted /\ feeder[f].at \in {"first", "second"} /\ h.at = "wait"
      /\ OnEntry(inSeq, c, o) /\ Served(f) /\ signer # NoSigner
    BY CalmPending DEF Steady, CalmRun
<1>3. c \in Clients /\ h \in Handlers
    BY <1>1, <1>2 DEF HonestFeedInv, RunsInv
<1>4. Carried(feeder[f], h, signer, epoch, size) /\ (BatchSigned => e.code \in {200, 500})
    BY <1>2 DEF Served
<1>5. /\ e.signer = signer /\ e.epoch = epoch /\ e.head = feeder[f].head /\ e.ext = ""
      /\ h.signer = signer /\ h.req.head = feeder[f].head /\ h.req.ext = ""
    <2>1. Matches(inSeq[o], c)
        BY <1>1, <1>2, <1>3 DEF TracksWaiters
    <2>2. /\ e.signer = h.signer /\ e.epoch = h.epoch
          /\ e.head = h.req.head /\ e.ext = h.req.ext
        BY <2>1 DEF Matches
    <2> HIDE DEF c, o, h, e, size
    <2>3. /\ h.req.head = feeder[f].head /\ h.req.ext = "" /\ h.signer = signer
          /\ h.epoch = epoch
        BY <1>2, <1>4 DEF Carried, InHand
    <2> QED
        BY <2>2, <2>3
<1>6. o \in Current
    BY <1>1, <1>5 DEF Current, Batch
<1> HIDE DEF c, o, h, e, size
<1>7. ASSUME client' = client, mem'[o] = mem[o], BatchSigned' => inSeq'[o].code \in {200, 500}
      PROVE  CalmRun(f)'
    BY <1>1, <1>2, <1>4, <1>7, SteadyMoved DEF c, o, h, size
<1>8. CASE RunSequencer \/ Rotate
    BY <1>7, <1>8 DEF RunSequencer, Rotate, BatchSigned
<1>9. CASE Sign
    <2>1. inSeq'[o].code \in {200, 500}
        <3>1. CASE SignNothing
            <4>1. inSeq' = SetPoolResult(inSeq, 500)
                BY <1>2, <1>6, <3>1 DEF SignNothing
            <4>2. [p \in Origins |-> 500] \in [Origins -> Codes]
                BY DEF Codes
            <4> QED
                BY <1>1, <4>1, <4>2, ResultsType DEF SetPoolResult, e
        <3>2. CASE SignBatch
            <4> DEFINE codes == [p \in Origins |-> IF p \in Current THEN 200 ELSE 503]
            <4>1. codes \in [Origins -> Codes] /\ codes[o] = 200
                BY <1>1, <1>6 DEF Codes
            <4>2. inSeq' = SetResults(inSeq, codes)
                BY <3>2 DEF SignBatch
            <4> HIDE DEF codes
            <4> QED
                BY <1>1, <4>1, <4>2, ResultsType DEF e
        <3> QED
            BY <1>9, <3>1, <3>2 DEF Sign
    <2> QED
        BY <1>7, <1>9, <2>1 DEF Sign
<1>10. CASE PutSucceeds
    <2>1. client' = client /\ inSeq' = inSeq /\ e.code \in {200, 500}
        BY <1>1, <1>4, <1>10 DEF PutSucceeds, BatchSigned, e, o
    <2>2. mem'[o] = mem[o] \/ mem'[o] = e.head
        BY <1>1, <1>10 DEF PutSucceeds, Merge, SignedStates, e
    <2>3. CASE mem'[o] = mem[o]
        BY <1>7, <2>1, <2>3 DEF e
    <2>4. CASE mem'[o] = e.head
        <3>1. e.head \in Heads /\ SizeOf(e.head) \in Nat /\ e.head # NoNote
            BY <1>1, HeadsAssumption, NoNoteAssumption DEF Entries
        <3>2. Latest(LogOrigin)' = SizeOf(feeder[f].head)
            BY <1>5, <2>4, <3>1 DEF Latest, SizeHeld, o
        <3>3. Latest(LogOrigin)' <= SizeOf(feeder[f].head)
            <4>1. SizeOf(feeder[f].head) \in Nat
                BY <1>5, <3>1
            <4> QED
                BY <3>2, <4>1
        <3>4. Carried(feeder[f], h, signer, epoch, Latest(LogOrigin)')
            BY <1>2, <1>4 DEF Carried
        <3>5. Served(f)'
            BY <1>1, <2>1, <3>4 DEF Served, Steady, h, c, e, o
        <3> QED
            BY <1>1, <3>3, <3>5 DEF Steady, CalmRun
    <2> QED
        BY <2>2, <2>3, <2>4
<1>11. CASE PutFails
    <2>1. inSeq' = SetPoolResult(inSeq, 500) /\ client' = client /\ mem' = mem
        BY <1>11 DEF PutFails
    <2>2. [p \in Origins |-> 500] \in [Origins -> Codes]
        BY DEF Codes
    <2>3. inSeq'[o].code = 500
        BY <1>1, <2>1, <2>2, ResultsType DEF SetPoolResult, e
    <2> QED
        BY <1>7, <2>1, <2>3
<1>12. CASE Retire
    <2>1. Close(inSeq) /\ mem' = mem /\ ~BatchSigned' /\ e.code \in {200, 500}
        BY <1>1, <1>4, <1>12 DEF Retire, BatchSigned, e, o
    <2> DEFINE sig == Cosig(e.head, e.ext, e.signer)
    <2>2. client'[c] = IF e.code = 200 THEN Cosigned(h, sig) ELSE Answered(e.code)
        BY <1>1, <1>2, <1>3, <2>1, CloseOwn DEF e, h
    <2>3. sig \in Cosigs /\ sig = Cosig(feeder[f].head, "", signer)
        BY <1>1, <1>5 DEF Cosig, Cosigs, Entries
    <2> HIDE DEF sig
    <2>4. CASE e.code = 200
        <3> DEFINE k == Cosigned(h, sig)
        <3>0. sig \in Cosigs
            BY <2>3
        <3>1. k.at = "done" /\ k.code = 200 /\ k.sig = sig
            BY <1>3, <3>0, CosignedType
        <3>2. client'[c] = k
            BY <2>2, <2>4
        <3> HIDE DEF k
        <3>3. FitAnswer(feeder[f], k, signer, size)
            <4>1. k.code = 200 /\ k.sig = Cosig(feeder[f].head, "", signer)
                BY <2>3, <3>1
            <4> QED
                BY <4>1, Zenon DEF FitAnswer
        <3>4. Carried(feeder[f], k, signer, epoch, size)
            BY <3>1, <3>3 DEF Carried, InHand
        <3> QED
            BY <1>1, <1>2, <2>1, <3>2, <3>4, SteadyMoved DEF c, size
    <2>5. CASE e.code = 500
        <3> DEFINE k == Answered(e.code)
        <3>1. k.at = "done" /\ k.code = e.code
            BY IdleType DEF Answered, Handlers
        <3>2. client'[c] = k
            BY <2>2, <2>5
        <3> HIDE DEF k
        <3>3. Carried(feeder[f], k, signer, epoch, size)
            BY <2>5, <3>1 DEF Carried, FitAnswer, InHand
        <3> QED
            BY <1>1, <1>2, <2>1, <3>2, <3>3, SteadyMoved DEF c, size
    <2> QED
        BY <2>1, <2>4, <2>5
<1> QED
    BY <1>8, <1>9, <1>10, <1>11, <1>12 DEF SequencerNext, StopPools, Put

-----------------------------------------------------------------------------
(* Steps of the command under a calm run *)

\* A run moves alone.
LEMMA OthersRest ==
    ASSUME HonestFeedInv, NEW g \in Feeders, FeederStep(g) \/ Fail(g)
    PROVE  \A f \in Feeders \ {g} : feeder'[f] = feeder[f]
<1>0. feeder \in [Feeders -> Runs]
    BY DEF HonestFeedInv, RunsInv
<1>1. CASE FetchKey(g) \/ FetchCheckpoint(g)
    BY <1>0, <1>1 DEF FetchKey, FetchCheckpoint
<1>2. CASE SubmitFirst(g) \/ SubmitAgain(g)
    BY <1>0, <1>2 DEF SubmitFirst, SubmitAgain, SubmitBody
<1>3. CASE Ahead(g) \/ Fail(g)
    BY <1>0, <1>3 DEF Ahead, Fail, End
<1>4. CASE ReadAnswer(g)
    <2>1. \/ feeder' = [feeder EXCEPT ![g] = Over("refused", client[feeder[g].handler].code)]
          \/ feeder' = [feeder EXCEPT ![g] = OverCosigned(feeder[g].head, 200)]
          \/ feeder' = [feeder EXCEPT ![g] = Over("badkey", 200)]
        BY <1>4 DEF ReadAnswer, End, Over, OverCosigned
    <2> QED
        BY <1>0, <2>1
<1> QED
    BY <1>1, <1>2, <1>3, <1>4 DEF FeederStep

\* What other hosts and the log do is nothing to it: no other run uses its handler.
LEMMA SteadyBystander ==
    ASSUME HonestFeedInv, NEW f \in Feeders, Steady(f),
           Grow \/ \E g \in Feeders \ {f} : FeederStep(g) \/ Fail(g)
    PROVE  CalmRun(f)'
<1>0. /\ feeder \in [Feeders -> Runs] /\ client \in [Clients -> Handlers]
      /\ feeder[f].at \in {"first", "second"} => feeder[f].handler \in Clients
    BY DEF HonestFeedInv, RunsInv, WitnessInv, WitnessTypeOK
<1>1. CASE Grow
    <2>1. UNCHANGED <<client, inSeq, seq, mem, feeder>>
        BY <1>1 DEF Grow, witnessVars
    <2> QED
        BY <2>1, SteadyKept DEF BatchSigned
<1>2. CASE \E g \in Feeders \ {f} : FeederStep(g) \/ Fail(g)
    <2>1. PICK g \in Feeders \ {f} : FeederStep(g) \/ Fail(g)
        BY <1>2
    <2>2. feeder'[f] = feeder[f]
        BY <2>1, OthersRest
    <2>3. UNCHANGED <<inSeq, seq, mem>>
        BY <2>1 DEF FeederStep, FetchKey, FetchCheckpoint, SubmitFirst, SubmitAgain, SubmitBody,
                    LoadSigner, Ahead, ReadAnswer, Fail, witnessVars
    <2>4. feeder[f].at \in {"first", "second"} =>
              client'[feeder[f].handler] = client[feeder[f].handler]
        <3> SUFFICES ASSUME feeder[f].at \in {"first", "second"}
                     PROVE  client'[feeder[f].handler] = client[feeder[f].handler]
            OBVIOUS
        <3>1. feeder[f].handler \in Clients /\ feeder[f].handler # None
            BY <1>0, FeederAssumption
        <3>2. CASE client' = client
            BY <3>2
        <3>3. CASE \E c \in FreeHandlers(g) : \E r : LoadSigner(c, r)
            <4>0. PICK c \in FreeHandlers(g) : \E r : LoadSigner(c, r)
                BY <3>3
            <4>1. PICK r : LoadSigner(c, r)
                BY <4>0
            <4>2. feeder[f].handler # c
                BY DEF FreeHandlers
            <4>3. \A d \in Clients \ {c} : client'[d] = client[d]
                BY <1>0, <4>1 DEF LoadSigner, Answer
            <4> QED
                BY <3>1, <4>2, <4>3
        <3>4. CASE HandlerReturns(feeder[g].handler)
            <4>1. feeder[f].handler # feeder[g].handler
                BY <3>1 DEF HonestFeedInv, RunsInv
            <4> QED
                BY <1>0, <3>1, <3>4, <4>1 DEF HandlerReturns
        <3> QED
            BY <2>1, <3>2, <3>3, <3>4
            DEF FeederStep, FetchKey, FetchCheckpoint, SubmitFirst, SubmitAgain, SubmitBody,
                Ahead, ReadAnswer, Fail, witnessVars
    <2> QED
        BY <2>2, <2>3, <2>4, SteadyKept DEF BatchSigned
<1> QED
    BY <1>1, <1>2

\* submit: the handler loads the signer whose key the run read.
LEMMA SteadySubmit ==
    ASSUME HonestFeedInv, NEW f \in Feeders, Steady(f), feeder[f].at # "keyed",
           NEW at \in {"first", "second"}, NEW old, NEW proof,
           at = "second" => old = Latest(LogOrigin), SubmitBody(f, at, old, proof)
    PROVE  CalmRun(f)'
<1>1. PICK c \in FreeHandlers(f) :
          /\ LoadSigner(c, FeedRequest(old, feeder[f].head, proof))
          /\ feeder' = [feeder EXCEPT ![f].at = at, ![f].handler = c]
    BY DEF SubmitBody
<1>2. /\ feeder \in [Feeders -> Runs] /\ client \in [Clients -> Handlers] /\ c \in Clients
    BY DEF HonestFeedInv, RunsInv, WitnessInv, WitnessTypeOK, FreeHandlers
<1>3. /\ feeder'[f].at = at /\ feeder'[f].handler = c /\ feeder'[f].head = feeder[f].head
      /\ feeder'[f].key = feeder[f].key
    BY <1>1, <1>2 DEF Runs
<1>4. /\ signer # NoSigner /\ feeder[f].key = signer /\ signer' = signer /\ epoch' = epoch
      /\ ~Contended(f)' /\ Latest(LogOrigin) <= SizeOf(feeder[f].head)
    BY DEF Steady, CalmRun
<1>5. Latest(LogOrigin)' = Latest(LogOrigin)
    BY <1>1 DEF LoadSigner, Latest, SizeHeld
<1> DEFINE r == FeedRequest(old, feeder[f].head, proof)
           h == [Idle EXCEPT !.at = "loaded", !.req = r, !.signer = signer]
<1>6. r.head = feeder[f].head /\ r.ext = "" /\ r.old = old
    BY DEF FeedRequest
<1>7. h.at = "loaded" /\ h.req = r /\ h.signer = signer
    BY IdleType DEF Handlers
<1>8. client'[c] = h
    BY <1>1, <1>2, <1>4 DEF LoadSigner
<1> HIDE DEF r, h
<1>9. Carried(feeder'[f], h, signer, epoch, Latest(LogOrigin))
    BY <1>3, <1>6, <1>7 DEF Carried, InHand
<1>10. Served(f)'
    BY <1>3, <1>4, <1>5, <1>7, <1>8, <1>9 DEF Served
<1> QED
    BY <1>3, <1>4, <1>5, <1>10 DEF CalmRun

\* A calm run goes on as such, and if it ends without its cosignature, it is the
\* commit that failed.
LEMMA CalmStep ==
    ASSUME HonestFeedInv, CalmInv, Watch, NEW f \in Feeders, FeederStep(f) \/ Fail(f)
    PROVE  /\ Calm(f)' => CalmRun(f)'
           /\ /\ feeder'[f].at \in {"ahead", "badkey", "refused"} /\ feeder'[f].code # 500
              => disturbed'[f]
<1>0. feeder \in [Feeders -> Runs] /\ feeder[f] \in Runs /\ tip \in DOMAIN Chain
    BY DEF HonestFeedInv, RunsInv
<1>1. {"off", "cosigned", "ahead", "badkey", "refused"} = Ended
    BY DEF Ended
<1>2. /\ Calm(f)' /\ feeder[f].at \in Ended => ~Contended(f)'
      /\ Calm(f)' /\ feeder[f].at \notin Ended => Steady(f)
      /\ /\ feeder'[f].at \in {"ahead", "badkey", "refused"} /\ ~disturbed'[f]
         /\ feeder[f].at \notin Ended
         => CalmRun(f)
    BY WatchTells
<1>3. feeder'[f].at \in Ended => ~Calm(f)'
    BY DEF Calm
<1>4. CASE FetchKey(f)
    <2>1. feeder[f].at \in Ended /\ signer' = signer /\ signer \in Signers \cup {NoSigner}
        BY <1>4 DEF FetchKey, witnessVars, HonestFeedInv, WitnessInv, WitnessTypeOK
    <2>2. CASE signer = NoSigner
        <3>1. feeder'[f].at = "off"
            BY <1>0, <1>1, <1>4, <2>2, RunType DEF FetchKey
        <3> QED
            BY <1>1, <1>3, <3>1
    <2>3. CASE signer # NoSigner
        <3>1. feeder'[f].at = "keyed" /\ feeder'[f].key = signer
            BY <1>0, <1>4, <2>1, <2>3, KeyedType DEF FetchKey
        <3> QED
            BY <1>2, <2>1, <2>3, <3>1 DEF CalmRun
    <2> QED
        BY <2>2, <2>3
<1>5. CASE FetchCheckpoint(f)
    <2>1. /\ feeder[f].at = "keyed" /\ UNCHANGED witnessVars
          /\ feeder' = [feeder EXCEPT ![f].at = "fetched", ![f].head = Chain[tip]]
        BY <1>5 DEF FetchCheckpoint
    <2>2. feeder'[f].at = "fetched" /\ feeder'[f].head = Chain[tip]
          /\ feeder'[f].key = feeder[f].key
        BY <1>0, <2>1 DEF Runs
    <2>3. Latest(LogOrigin)' = Latest(LogOrigin)
        BY <2>1 DEF witnessVars, Latest, SizeHeld
    <2>4. Latest(LogOrigin) <= SizeOf(Chain[tip])
        <3>1. mem[LogOrigin] \in Published \cup {NoNote}
            BY FeederAssumption DEF HonestFeedInv, HonestInv
        <3>2. SizeOf(Chain[tip]) \in Nat
            BY <1>0, PublishedHeads
        <3>3. mem[LogOrigin] \in Published => SizeOf(mem[LogOrigin]) <= SizeOf(Chain[tip])
            BY <1>0, PublishedHeads
        <3> QED
            BY <3>1, <3>2, <3>3 DEF Latest, SizeHeld
    <2>5. Calm(f)' => Steady(f)
        BY <1>1, <1>2, <2>1
    <2> QED
        BY <2>2, <2>3, <2>4, <2>5 DEF Steady, CalmRun
<1>6. CASE SubmitFirst(f)
    <2>1. feeder[f].at = "fetched" /\ SubmitBody(f, "first", 0, "none")
        BY <1>6 DEF SubmitFirst
    <2>2. Calm(f)' => CalmRun(f)'
        BY <1>1, <1>2, <2>1, SteadySubmit
    <2>3. feeder'[f].at = "first"
        BY <1>0, <2>1 DEF SubmitBody, Runs
    <2> QED
        BY <2>2, <2>3
<1>7. CASE SubmitAgain(f)
    <2> DEFINE h == client[feeder[f].handler]
               p == ProofFrom(h.latest, feeder[f].head)
    <2>1. feeder[f].at = "first" /\ h.at = "done" /\ h.code = 409
          /\ SubmitBody(f, "second", h.latest, p)
        BY <1>7 DEF SubmitAgain
    <2>2. Steady(f) => h.latest = Latest(LogOrigin)
        <3> SUFFICES ASSUME Steady(f) PROVE h.latest = Latest(LogOrigin)
            OBVIOUS
        <3>1. Carried(feeder[f], h, signer, epoch, Latest(LogOrigin))
            BY <2>1 DEF Steady, CalmRun, Served
        <3> HIDE DEF h
        <3>2. FitAnswer(feeder[f], h, signer, Latest(LogOrigin))
            BY <2>1, <3>1 DEF Carried
        <3> QED
            BY <2>1, <3>2 DEF FitAnswer
    <2> HIDE DEF h, p
    <2>3. Calm(f)' => CalmRun(f)'
        BY <1>1, <1>2, <2>1, <2>2, SteadySubmit
    <2>4. feeder'[f].at = "second"
        BY <1>0, <2>1 DEF SubmitBody, Runs
    <2> QED
        BY <2>3, <2>4
<1>8. CASE Ahead(f)
    <2> DEFINE h == client[feeder[f].handler]
    <2>1. feeder[f].at = "first" /\ h.at = "done" /\ h.code = 409
          /\ h.latest > SizeOf(feeder[f].head) /\ End(f, "ahead", 409)
        BY <1>8 DEF Ahead
    <2>2. feeder'[f].at = "ahead"
        <3>1. Over("ahead", 409).at = "ahead"
            BY OverType DEF Ended, Codes
        <3> QED
            BY <1>0, <2>1, <3>1 DEF End, Over
    <2>3. ~CalmRun(f)
        <3> SUFFICES ASSUME CalmRun(f) PROVE FALSE
            OBVIOUS
        <3>1. /\ Carried(feeder[f], h, signer, epoch, Latest(LogOrigin))
              /\ Latest(LogOrigin) <= SizeOf(feeder[f].head)
            BY <2>1 DEF CalmRun, Served
        <3>2. SizeOf(feeder[f].head) \in Nat
            <4>1. feeder[f].head \in Published
                BY <2>1 DEF HonestFeedInv, RunsInv
            <4> QED
                BY <1>0, <4>1, PublishedHeads
        <3>3. Latest(LogOrigin) \in Nat
            BY LatestType, FeederAssumption, HeadsAssumption DEF HonestFeedInv, WitnessInv, Sizes
        <3> HIDE DEF h
        <3>4. FitAnswer(feeder[f], h, signer, Latest(LogOrigin))
            BY <2>1, <3>1 DEF Carried
        <3>5. h.latest = Latest(LogOrigin)
            BY <2>1, <3>4 DEF FitAnswer
        <3> QED
            BY <2>1, <3>1, <3>2, <3>3, <3>5
    <2> QED
        BY <1>1, <1>2, <1>3, <2>1, <2>2, <2>3
<1>9. CASE ReadAnswer(f)
    <2> DEFINE h == client[feeder[f].handler]
    <2>1. /\ feeder[f].at \in {"first", "second"} /\ h.at = "done"
          /\ ~(feeder[f].at = "first" /\ h.code = 409)
          /\ \/ h.code # 200 /\ feeder' = [feeder EXCEPT ![f] = Over("refused", h.code)]
             \/ feeder' = [feeder EXCEPT ![f] = OverCosigned(feeder[f].head, 200)]
             \/ /\ h.code = 200 /\ h.sig # Cosig(feeder[f].head, "", feeder[f].key)
                /\ feeder' = [feeder EXCEPT ![f] = Over("badkey", 200)]
        BY <1>9 DEF ReadAnswer, End, Over, OverCosigned
    <2>2. /\ CalmRun(f) =>
                /\ feeder[f].key = signer
                /\ Carried(feeder[f], h, signer, epoch, Latest(LogOrigin))
          /\ h.code \in Codes /\ 200 \in Codes /\ feeder[f].head \in Heads
        <3>1. feeder[f].handler \in Clients /\ feeder[f].head \in Published
            BY <2>1 DEF HonestFeedInv, RunsInv
        <3>2. feeder[f].head \in Heads
            BY <1>0, <3>1, PublishedHeads
        <3>3. h \in Handlers
            BY <3>1 DEF HonestFeedInv, WitnessInv, WitnessTypeOK
        <3>4. CalmRun(f) =>
                  /\ feeder[f].key = signer
                  /\ Carried(feeder[f], h, signer, epoch, Latest(LogOrigin))
            BY <2>1 DEF CalmRun, Served
        <3> HIDE DEF h
        <3>5. h.code \in Codes /\ 200 \in Codes
            BY <3>3 DEF Handlers, Codes
        <3> QED
            BY <3>2, <3>4, <3>5
    <2>3. feeder[f].at \notin Ended
        BY <1>1, <2>1
    <2> HIDE DEF h
    <2>4. CalmRun(f) => FitAnswer(feeder[f], h, signer, Latest(LogOrigin))
        BY <2>1, <2>2 DEF Carried
    <2>5. CASE h.code # 200 /\ feeder' = [feeder EXCEPT ![f] = Over("refused", h.code)]
        <3>1. feeder'[f].at = "refused" /\ feeder'[f].code = h.code
            BY <1>0, <1>1, <2>2, <2>5, OverType
        <3>2. CalmRun(f) => h.code = 500
            BY <2>1, <2>4, <2>5 DEF FitAnswer
        <3> QED
            BY <1>1, <1>2, <1>3, <2>3, <3>1, <3>2
    <2>6. CASE feeder' = [feeder EXCEPT ![f] = OverCosigned(feeder[f].head, 200)]
        <3>1. feeder'[f].at = "cosigned"
            BY <1>0, <2>2, <2>6, OverCosignedType
        <3> QED
            BY <1>1, <1>3, <3>1
    <2>7. CASE /\ h.code = 200 /\ h.sig # Cosig(feeder[f].head, "", feeder[f].key)
               /\ feeder' = [feeder EXCEPT ![f] = Over("badkey", 200)]
        <3>1. feeder'[f].at = "badkey"
            BY <1>0, <1>1, <2>2, <2>7, OverType
        <3>2. ~CalmRun(f)
            <4> SUFFICES ASSUME CalmRun(f) PROVE FALSE
                OBVIOUS
            <4>1. h.code = 200 /\ h.sig # Cosig(feeder[f].head, "", feeder[f].key)
                BY <2>7
            <4>2. h.code # 500 /\ h.code # 409
                <5>1. h.code = 200
                    BY <2>7
                <5> QED
                    BY <5>1
            <4>3. FitAnswer(feeder[f], h, signer, Latest(LogOrigin)) /\ feeder[f].key = signer
                BY <2>2, <2>4
            <4>4. h.sig = Cosig(feeder[f].head, "", signer)
                BY <4>2, <4>3, Zenon DEF FitAnswer
            <4> QED
                BY <4>1, <4>3, <4>4, Zenon
        <3> QED
            BY <1>1, <1>2, <1>3, <2>3, <3>1, <3>2
    <2> QED
        BY <2>1, <2>5, <2>6, <2>7
<1>10. CASE Fail(f)
    <2>1. feeder' = [feeder EXCEPT ![f] = Over("off", 0)]
        BY <1>10 DEF Fail, End, Over
    <2>2. Over("off", 0).at = "off"
        BY OverType DEF Ended, Codes
    <2>3. feeder'[f].at = "off"
        BY <1>0, <2>1, <2>2
    <2> QED
        BY <1>1, <1>3, <2>3
<1> QED
    BY <1>4, <1>5, <1>6, <1>7, <1>8, <1>9, <1>10 DEF FeederStep

\* Only the log that is fed gets an entry.
LEMMA OneLogOnly ==
    ASSUME HonestFeedInv, CalmInv, FeedNext, NEW o \in Origins \ {LogOrigin}
    PROVE  pool'[o] = None
<1>1. pool \in [Origins -> Entries \cup {None}] /\ pool[o] = None /\ LogOrigin \in Origins
    BY FeederAssumption DEF HonestFeedInv, WitnessInv, WitnessTypeOK, CalmInv
<1>2. ASSUME NEW c \in Clients, HandlerStep(c)
      PROVE  pool'[o] = None
    <2>1. CASE pool' = pool
        BY <1>1, <2>1
    <2>2. CASE pool' # pool
        <3>1. client[c].at = "candidate" /\ (JoinPending(c) \/ Admit(c))
            BY <1>2, <2>2 DEF HandlerStep, CheckRequest, LoadEpoch, AddToPool, Refuse, poolVars
        <3>2. client[c].req.origin = LogOrigin
            BY <3>1 DEF HonestFeedInv, HonestInv, HonestHandler, HonestRequest, InHand
        <3> QED
            BY <1>1, <3>1, <3>2 DEF JoinPending, Admit
    <2> QED
        BY <2>1, <2>2
<1>3. CASE SignerNext \/ SequencerNext
    BY <1>1, <1>3 DEF SignerNext, AddEpoch, StoreSigner, SequencerNext, RunSequencer, StopPools,
                      Rotate, Sign, Put, PutSucceeds, PutFails, Retire
<1>4. CASE Grow \/ \E f \in Feeders : FeederStep(f) \/ Fail(f)
    BY <1>1, <1>4 DEF Grow, FeederStep, FetchKey, FetchCheckpoint, SubmitFirst, SubmitAgain, SubmitBody,
                      LoadSigner, Ahead, ReadAnswer, Fail, witnessVars
<1> QED
    BY <1>2, <1>3, <1>4 DEF FeedNext, WitnessStep

\* Every step keeps CalmInv, witness and feeder alike.
LEMMA CalmInductive ==
    ASSUME MayStop = FALSE, MaxPoolSize > 0, HonestFeedInv, CalmInv, [FeedNext]_allVars
    PROVE  CalmInv'
<1>1. CASE UNCHANGED allVars
    <2>1. UNCHANGED <<signer, epoch, pool, inSeq, seq, mem, halted, client, feeder, disturbed>>
        BY <1>1 DEF allVars, witnessVars
    <2>2. ASSUME NEW f \in Feeders, Calm(f)' PROVE CalmRun(f)'
        <3>1. Calm(f) /\ CalmRun(f)
            BY <2>1, <2>2 DEF CalmInv, Calm
        <3>2. ~Contended(f)'
            BY <2>1, <3>1 DEF CalmRun, Contended, Pending
        <3>3. Steady(f)
            BY <2>1, <3>1, <3>2 DEF Steady
        <3> QED
            BY <2>1, <3>3, SteadyKept DEF BatchSigned
    <2> QED
        BY <2>1, <2>2 DEF CalmInv, UndisturbedFeedCosigned
<1>2. CASE FeedNext
    <2>1. Watch /\ (WitnessStep \/ Grow \/ \E f \in Feeders : FeederStep(f) \/ Fail(f))
        BY <1>2 DEF FeedNext
    <2>2. disturbed' \in [Feeders -> BOOLEAN]
        BY <2>1 DEF Watch
    <2>3. \A o \in Origins \ {LogOrigin} : pool'[o] = None
        BY <1>2, OneLogOnly
    <2>4. ASSUME NEW f \in Feeders, feeder'[f] = feeder[f]
          PROVE  /\ feeder'[f].at \in {"ahead", "badkey", "refused"} /\ feeder'[f].code # 500
                 => disturbed'[f]
        <3>1. {"ahead", "badkey", "refused"} \subseteq Ended
            BY DEF Ended
        <3>2. /\ feeder'[f].at \in {"ahead", "badkey", "refused"} /\ ~disturbed'[f]
              /\ feeder[f].at \in Ended
              => ~disturbed[f]
            BY <2>1, WatchTells
        <3>3. feeder[f].at \in {"ahead", "badkey", "refused"} /\ feeder[f].code # 500
              => disturbed[f]
            BY DEF CalmInv, UndisturbedFeedCosigned
        <3> QED
            BY <2>4, <3>1, <3>2, <3>3
    <2>5. ASSUME NEW f \in Feeders, feeder'[f] = feeder[f], Calm(f)'
          PROVE  Steady(f)
        <3>1. feeder[f].at \notin Ended
            BY <2>5 DEF Calm
        <3> QED
            BY <2>1, <2>5, <3>1, WatchTells
    <2>6. CASE WitnessStep
        <3>1. UNCHANGED feedVars /\ (SignerNext \/ SequencerNext \/ \E c \in Clients : HandlerStep(c))
            BY <2>6 DEF WitnessStep
        <3>2. \A f \in Feeders : feeder'[f] = feeder[f]
            BY <3>1 DEF feedVars
        <3>3. ASSUME NEW f \in Feeders, Calm(f)' PROVE CalmRun(f)'
            <4>1. Steady(f)
                BY <2>5, <3>2, <3>3
            <4>2. CASE SignerNext
                BY <3>1, <4>1, <4>2, SteadySigner
            <4>3. CASE SequencerNext
                BY <3>1, <4>1, <4>3, SteadyAside, SteadyInBatch
            <4>4. ASSUME NEW c \in Clients, HandlerStep(c) PROVE CalmRun(f)'
                <5>1. CASE c # feeder[f].handler
                    BY <3>1, <4>1, <4>4, <5>1, SteadyOther
                <5>2. CASE c = feeder[f].handler
                    <6>1. feeder[f].at \in {"first", "second"}
                        BY <5>2, FeederAssumption DEF HonestFeedInv, RunsInv
                    <6> QED
                        BY <3>1, <4>1, <4>4, <5>2, <6>1, SteadyOwn
                <5> QED
                    BY <5>1, <5>2
            <4> QED
                BY <3>1, <4>2, <4>3, <4>4
        <3>4. UndisturbedFeedCosigned'
            BY <2>4, <3>2 DEF UndisturbedFeedCosigned
        <3> QED
            BY <2>2, <2>3, <3>3, <3>4 DEF CalmInv
    <2>7. CASE Grow
        <3>1. \A f \in Feeders : feeder'[f] = feeder[f]
            BY <2>7 DEF Grow
        <3>2. ASSUME NEW f \in Feeders, Calm(f)' PROVE CalmRun(f)'
            BY <2>5, <2>7, <3>1, <3>2, SteadyBystander
        <3>3. UndisturbedFeedCosigned'
            BY <2>4, <3>1 DEF UndisturbedFeedCosigned
        <3> QED
            BY <2>2, <2>3, <3>2, <3>3 DEF CalmInv
    <2>8. ASSUME NEW g \in Feeders, FeederStep(g) \/ Fail(g) PROVE CalmInv'
        <3>1. \A f \in Feeders \ {g} : feeder'[f] = feeder[f]
            BY <2>8, OthersRest
        <3>2. ASSUME NEW f \in Feeders, Calm(f)' PROVE CalmRun(f)'
            <4>1. CASE f = g
                BY <2>1, <2>8, <3>2, <4>1, CalmStep
            <4>2. CASE f # g
                BY <2>5, <2>8, <3>1, <3>2, <4>2, SteadyBystander
            <4> QED
                BY <4>1, <4>2
        <3>3. UndisturbedFeedCosigned'
            <4> SUFFICES ASSUME NEW f \in Feeders
                         PROVE  /\ feeder'[f].at \in {"ahead", "badkey", "refused"}
                                /\ feeder'[f].code # 500
                                => disturbed'[f]
                BY DEF UndisturbedFeedCosigned
            <4>1. CASE f = g
                BY <2>1, <2>8, <4>1, CalmStep
            <4>2. CASE f # g
                BY <2>4, <3>1, <4>2
            <4> QED
                BY <4>1, <4>2
        <3> QED
            BY <2>2, <2>3, <3>2, <3>3 DEF CalmInv
    <2> QED
        BY <2>1, <2>6, <2>7, <2>8
<1> QED
    BY <1>1, <1>2

\* One retry is enough: a run of cmdFeed that ends without its cosignature, other than
\* by its network or a failed commit, was overtaken.  The firmware never cancels the
\* sequencer's context, and its pool has room for a log (UndisturbedFeedCosigned).
THEOREM FeedOneRetryIsEnough ==
    ASSUME MayStop = FALSE, MaxPoolSize > 0
    PROVE  FeedSpec => []UndisturbedFeedCosigned
<1>1. FeedInit => CalmInv
    <2> SUFFICES ASSUME FeedInit PROVE CalmInv
        OBVIOUS
    <2>1. "off" \in Ended
        BY DEF Ended
    <2>2. \A f \in Feeders : feeder[f].at = "off"
        BY <2>1, RunType DEF FeedInit
    <2> QED
        BY <2>1, <2>2 DEF FeedInit, WitnessInit, CalmInv, Calm, UndisturbedFeedCosigned
<1>2. HonestFeedInv /\ CalmInv /\ [FeedNext]_allVars => CalmInv'
    BY CalmInductive
<1>3. CalmInv => UndisturbedFeedCosigned
    BY DEF CalmInv
<1> QED
    BY <1>1, <1>2, <1>3, HonestFeedInvariant, PTL DEF FeedSpec
=============================================================================
