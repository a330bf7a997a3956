------------------------------- MODULE Feeder -------------------------------
(***************************************************************************)
(* `vitrum feed` (cmd/vitrum/feed.go) against the witness: several hosts   *)
(* feed the checkpoints of one growing log.  A run of the command reads    *)
(* the witness key from /healthz, reads the log's checkpoint, submits it   *)
(* as a first sighting, and on a conflict submits it once more from the    *)
(* size the witness reported.  It then verifies the cosignature with the   *)
(* key it read.  Its HTTP client gives up after 30 s; the handler it was   *)
(* talking to does not notice and goes on.                                 *)
(*                                                                         *)
(* The log is honest: its checkpoints form one chain.  Its checkpoint and  *)
(* proof endpoints are read over the network and may fail.                 *)
(***************************************************************************)
EXTENDS Witness, Sequences

CONSTANTS
    Feeders,    \* hosts that run the command, over and over
    LogOrigin,  \* the origin of the log
    Chain       \* the checkpoints the log publishes, in order

ASSUME FeederAssumption ==
    /\ LogOrigin \in Origins /\ None \notin Clients
    /\ Chain \in Seq(Heads) /\ Len(Chain) > 0

\* The log is honest: it only grows, and has one tree of each size.
ASSUME ChainAssumption ==
    /\ \A i, j \in DOMAIN Chain :
          /\ i < j => Follows(Chain[j], Chain[i]) /\ SizeOf(Chain[i]) <= SizeOf(Chain[j])
          /\ SizeOf(Chain[i]) = SizeOf(Chain[j]) => Chain[i] = Chain[j]
    /\ \A i \in DOMAIN Chain : SizeOf(Chain[i]) = 0 => Chain[i] = EmptyHead

\* A request of the command.
FeedRequest(old, head, proof) ==
    [origin |-> LogOrigin, old |-> old, head |-> head, ext |-> "", proof |-> proof]

\* Requests has whatever the command may send.
ASSUME FeedRequestsAssumption ==
    \A i \in DOMAIN Chain : \A old \in 0..SizeOf(Chain[i]), proof \in {"none", "log"} :
        FeedRequest(old, Chain[i], proof) \in Requests

VARIABLES
    tip,        \* index in Chain of the log's latest checkpoint
    feeder,     \* where each run is and what it holds
    disturbed   \* history: something other than this run touched what it relies on

feedVars == <<tip, feeder>>
allVars == <<witnessVars, tip, feeder, disturbed>>

\* No run, or one that ended with no answer from the witness ("off"), or how the
\* answer ended it.
Ended == {"off", "ahead", "refused", "badkey", "cosigned"}

\* A run that holds nothing, or that has ended.
Run(at) == [at |-> at, key |-> NoSigner, head |-> None, handler |-> None, code |-> 0]

FeedInit ==
    /\ WitnessInit
    /\ tip = 1
    /\ feeder = [f \in Feeders |-> Run("off")]
    /\ disturbed = [f \in Feeders |-> FALSE]

-----------------------------------------------------------------------------
\* The log publishes its next checkpoint.
Grow ==
    /\ tip < Len(Chain)
    /\ tip' = tip + 1
    /\ UNCHANGED <<witnessVars, feeder>>

\* The command starts and asks /healthz for the witness key, which ends it when the
\* witness has none.
FetchKey(f) ==
    /\ feeder[f].at \in Ended
    /\ feeder' = [feeder EXCEPT ![f] =
                     IF signer = NoSigner THEN Run("off")
                     ELSE [Run("keyed") EXCEPT !.key = signer]]
    /\ UNCHANGED <<witnessVars, tip>>

\* logClient.checkpoint: the latest checkpoint, under the log's own key.
FetchCheckpoint(f) ==
    /\ feeder[f].at = "keyed"
    /\ feeder' = [feeder EXCEPT ![f].at = "fetched", ![f].head = Chain[tip]]
    /\ UNCHANGED <<witnessVars, tip>>

\* A handler goroutine no other run is reading from.
FreeHandlers(f) ==
    {c \in Clients : /\ client[c].at \in {"idle", "done"}
                     /\ \A g \in Feeders \ {f} : feeder[g].handler # c}

\* witnessClient.submit: the request reaches a handler.
SubmitBody(f, at, old, proof) ==
    \E c \in FreeHandlers(f) :
        /\ LoadSigner(c, FeedRequest(old, feeder[f].head, proof))
        /\ feeder' = [feeder EXCEPT ![f].at = at, ![f].handler = c]

\* The proof a run asks the log for: none from 0, and none to the size itself.
ProofFrom(latest, head) == IF latest > 0 /\ latest < SizeOf(head) THEN "log" ELSE "none"

SubmitFirst(f) ==
    /\ feeder[f].at = "fetched"
    /\ SubmitBody(f, "first", 0, "none")
    /\ UNCHANGED tip

\* Mutation: the reported size is not compared with the checkpoint's.
SubmitAgainUnchecked(f) ==
    /\ feeder[f].at = "first"
    /\ client[feeder[f].handler].at = "done"
    /\ client[feeder[f].handler].code = 409
    /\ LET latest == client[feeder[f].handler].latest
       IN  SubmitBody(f, "second", latest, ProofFrom(latest, feeder[f].head))
    /\ UNCHANGED tip

\* Mutation: the second request is built like the first.
SubmitAgainFromZero(f) ==
    /\ feeder[f].at = "first"
    /\ client[feeder[f].handler].at = "done"
    /\ client[feeder[f].handler].code = 409
    /\ client[feeder[f].handler].latest <= SizeOf(feeder[f].head)
    /\ SubmitBody(f, "second", 0, "none")
    /\ UNCHANGED tip

\* A conflict: the run asks the log for a proof from the reported size, unless it
\* needs none, and submits again.
SubmitAgain(f) ==
    /\ feeder[f].at = "first"
    /\ client[feeder[f].handler].at = "done"
    /\ client[feeder[f].handler].code = 409
    /\ LET latest == client[feeder[f].handler].latest
       IN  /\ latest <= SizeOf(feeder[f].head)
           /\ SubmitBody(f, "second", latest, ProofFrom(latest, feeder[f].head))
    /\ UNCHANGED tip

End(f, at, code) == feeder' = [feeder EXCEPT ![f] = [Run(at) EXCEPT !.code = code]]

\* The handler goroutine has written its answer and is gone.
HandlerReturns(c) == client' = [client EXCEPT ![c] = Idle]

\* The conflict shows a witness that is ahead of the checkpoint.
Ahead(f) ==
    /\ feeder[f].at = "first"
    /\ client[feeder[f].handler].at = "done"
    /\ client[feeder[f].handler].code = 409
    /\ client[feeder[f].handler].latest > SizeOf(feeder[f].head)
    /\ End(f, "ahead", 409)
    /\ HandlerReturns(feeder[f].handler)
    /\ UNCHANGED <<signer, epoch, mu, pool, inSeq, seq, mem, halted, released, tip>>

\* Every other answer, and the second one, ends the run.  verifyCosignature opens
\* the checkpoint with the cosignature under the key the run read.
ReadAnswer(f) ==
    /\ feeder[f].at \in {"first", "second"}
    /\ LET answer == client[feeder[f].handler]
       IN  /\ answer.at = "done"
           /\ ~(feeder[f].at = "first" /\ answer.code = 409)
           /\ \/ answer.code # 200 /\ End(f, "refused", answer.code)
              \/ /\ answer.code = 200
                 /\ answer.sig = Cosig(feeder[f].head, "", feeder[f].key)
                 /\ feeder' = [feeder EXCEPT ![f] = [Run("cosigned") EXCEPT
                                  !.head = feeder[f].head, !.code = 200]]
              \/ /\ answer.code = 200
                 /\ answer.sig # Cosig(feeder[f].head, "", feeder[f].key)
                 /\ End(f, "badkey", 200)
    /\ HandlerReturns(feeder[f].handler)
    /\ UNCHANGED <<signer, epoch, mu, pool, inSeq, seq, mem, halted, released, tip>>

\* The network fails, the proof cannot be built or 30 s are over: the run ends, the
\* handler it was waiting for does not.
Fail(f) ==
    /\ feeder[f].at \notin Ended
    /\ End(f, "off", 0)
    /\ UNCHANGED <<witnessVars, tip>>

-----------------------------------------------------------------------------
\* Another submission for the log is with the witness, or the store is halted.
Contended(f) ==
    \/ halted
    \/ Pending(LogOrigin) # None /\ feeder[f].handler \notin Pending(LogOrigin).waiters

\* The history of each run since it started.
Watch ==
    disturbed' = [f \in Feeders |->
        LET ended == feeder[f].at \in Ended
            starts == ended /\ feeder'[f].at \notin Ended
        IN  /\ feeder'[f].at \notin {"off", "cosigned"}
            /\ \/ ~starts /\ disturbed[f]
               \/ (starts \/ ~ended) /\ Contended(f)'
               \/ ~ended /\ signerVars' # signerVars]

HandlerStep(c) == CheckRequest(c) \/ LoadEpoch(c) \/ AddToPool(c)

\* The witness without clients of its own.
WitnessStep ==
    /\ SignerNext \/ SequencerNext \/ \E c \in Clients : HandlerStep(c)
    /\ UNCHANGED feedVars

FeederStep(f) ==
    \/ FetchKey(f) \/ FetchCheckpoint(f) \/ SubmitFirst(f)
    \/ SubmitAgain(f) \/ Ahead(f) \/ ReadAnswer(f)

FeedNext == (WitnessStep \/ Grow \/ \E f \in Feeders : FeederStep(f) \/ Fail(f)) /\ Watch

FeedSpec == FeedInit /\ [][FeedNext]_allVars

\* A handler and the sequencer keep running once they started, SetSigner ends, and
\* sync.Mutex starves nobody, so the sequencer gets w.mu between signer changes.  A
\* started command goes on, and the hosts start it again and again.
FeedFairness ==
    /\ \A c \in Clients : WF_allVars(HandlerStep(c) /\ UNCHANGED feedVars /\ Watch)
    /\ WF_allVars((AddEpoch \/ RunSequencer \/ Rotate \/ Put \/ Retire)
                  /\ UNCHANGED feedVars /\ Watch)
    /\ SF_allVars(Sign /\ UNCHANGED feedVars /\ Watch)
    /\ \A f \in Feeders : WF_allVars(FeederStep(f) /\ Watch)

FairFeedSpec == FeedSpec /\ FeedFairness

-----------------------------------------------------------------------------
(* Properties *)

\* A feed of an honest log is never at fault: whatever the witness reports while
\* other feeds move it, the request built from it is neither malformed nor
\* inconsistent (the latest > cp.N check and the proof condition of cmdFeed).
HonestFeedNeverAtFault ==
    \A c \in Clients : client[c].code \notin {400, 422}

\* One retry is enough: a run that ends without its cosignature, other than by its
\* network or a failed commit, was overtaken by another submission, a key change or
\* a halt.  In particular a witness ahead of the log means a stale checkpoint.
UndisturbedFeedCosigned ==
    \A f \in Feeders :
        /\ feeder[f].at \in {"ahead", "badkey", "refused"}
        /\ feeder[f].code # 500
        => disturbed[f]

\* Nothing is refused by chance for ever: once the log and the key rest and nothing
\* fails any more, some run gets the log's last checkpoint cosigned, although the
\* requests that earlier runs abandoned are still served and still in its way.
FeedConverges ==
    /\ <>[](signer # NoSigner /\ ~halted)
    /\ <>[][/\ \A f \in Feeders : ~Fail(f)
            /\ ~PutFails
            /\ ~(Sign /\ \E o \in Origins : inSeq'[o] # None /\ inSeq'[o].code = 500)]_allVars
    => <>(\E f \in Feeders : feeder[f].at = "cosigned" /\ feeder[f].head = Chain[tip])
=============================================================================
