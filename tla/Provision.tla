----------------------------- MODULE Provision -----------------------------
(***************************************************************************)
(* The provisioning server of internal/provision composed with the         *)
(* witness it keys: concurrent SSH sessions that install a new key, or     *)
(* remove the installed one, and destroy the key it replaces, while the    *)
(* sequencer signs with it.                                                *)
(*                                                                         *)
(* A signer stands for its private key: provision builds a new key slice   *)
(* and a new signer over it in every session, even from the same seed.     *)
(* Sessions that end before they touch the key (bad usage, bad seed,       *)
(* status) leave no trace here; the clock that settime sets is left out.   *)
(***************************************************************************)
EXTENDS Witness

CONSTANTS
    Sessions   \* SSH session goroutines

ASSUME SessionsAssumption == None \notin Sessions

VARIABLES
    srvMu,     \* the session that holds Server.mu, or None
    priv,      \* Server.priv: the signer whose key the server owns
    zeroed,    \* the keys whose bytes were overwritten
    minted,    \* the keys sessions have built
    session    \* what each session is doing, and for which key (NoSigner: deprovision)

keyVars == <<srvMu, priv, zeroed, minted, session>>
provisionVars == <<witnessVars, keyVars>>

Rest == [at |-> "idle", key |-> NoSigner]

ProvisionInit ==
    /\ WitnessInit
    /\ srvMu = None
    /\ priv = NoSigner
    /\ zeroed = {}
    /\ minted = {}
    /\ session = [s \in Sessions |-> Rest]

\* provision has read its seed and built a key that nobody else has.
BuildKey(s, key) ==
    /\ session[s].at = "idle"
    /\ key \notin minted
    /\ minted' = minted \cup {key}
    /\ session' = [session EXCEPT ![s] = [at |-> "lock", key |-> key]]
    /\ UNCHANGED <<witnessVars, srvMu, priv, zeroed>>

\* deprovision is called.
CallDeprovision(s) ==
    /\ session[s].at = "idle"
    /\ session' = [session EXCEPT ![s] = [at |-> "lock", key |-> NoSigner]]
    /\ UNCHANGED <<witnessVars, srvMu, priv, zeroed, minted>>

\* Mutation: sessions do not exclude each other.
EnterServer(s) ==
    /\ session[s].at = "lock"
    /\ srvMu' = s
    /\ session' = [session EXCEPT ![s].at = "store"]
    /\ UNCHANGED <<witnessVars, priv, zeroed, minted>>

\* Mutation: the old key is destroyed before the signer is exchanged.
LockServerAndZero(s) ==
    /\ session[s].at = "lock"
    /\ srvMu = None
    /\ srvMu' = s
    /\ zeroed' = zeroed \cup ({priv} \ {NoSigner})
    /\ session' = [session EXCEPT ![s].at = "store"]
    /\ UNCHANGED <<witnessVars, priv, minted>>

LockServer(s) ==
    /\ session[s].at = "lock"
    /\ srvMu = None
    /\ srvMu' = s
    /\ session' = [session EXCEPT ![s].at = "store"]
    /\ UNCHANGED <<witnessVars, priv, zeroed, minted>>

\* SetSigner or ClearSigner, in the two steps Witness gives them.
CallStoreSigner(s) ==
    /\ session[s].at = "store"
    /\ StoreSigner(session[s].key)
    /\ session' = [session EXCEPT ![s].at = "epoch"]
    /\ UNCHANGED <<srvMu, priv, zeroed, minted>>

CallAddEpoch(s) ==
    /\ session[s].at = "epoch"
    /\ AddEpoch
    /\ session' = [session EXCEPT ![s].at = "zero"]
    /\ UNCHANGED <<srvMu, priv, zeroed, minted>>

\* Mutation: the server is not unlocked.
ReplacePrivLocked(s) ==
    /\ session[s].at = "zero"
    /\ zeroed' = zeroed \cup ({priv} \ {NoSigner})
    /\ priv' = session[s].key
    /\ session' = [session EXCEPT ![s] = Rest]
    /\ UNCHANGED <<witnessVars, srvMu, minted>>

\* zero(s.priv), take ownership of the new key, unlock, reply.
ReplacePriv(s) ==
    /\ session[s].at = "zero"
    /\ zeroed' = zeroed \cup ({priv} \ {NoSigner})
    /\ priv' = session[s].key
    /\ srvMu' = None
    /\ session' = [session EXCEPT ![s] = Rest]
    /\ UNCHANGED <<witnessVars, minted>>

SessionNext(s) ==
    \/ \E key \in Signers : BuildKey(s, key)
    \/ CallDeprovision(s)
    \/ LockServer(s)
    \/ CallStoreSigner(s)
    \/ CallAddEpoch(s)
    \/ ReplacePriv(s)

ProvisionNext ==
    \/ \E s \in Sessions : SessionNext(s)
    \/ (ServeNext \/ SequencerNext) /\ UNCHANGED keyVars

\* Server.mu and Witness.mu starve nobody, and a session that holds one goes on.
ProvisionFairness ==
    /\ \A s \in Sessions :
          /\ SF_provisionVars(LockServer(s))
          /\ SF_provisionVars(CallStoreSigner(s))
          /\ WF_provisionVars(CallAddEpoch(s))
          /\ WF_provisionVars(ReplacePriv(s))
    /\ SF_provisionVars(Sign /\ UNCHANGED keyVars)
    /\ WF_provisionVars((RunSequencer \/ Rotate \/ Put \/ Retire) /\ UNCHANGED keyVars)

ProvisionSpec == ProvisionInit /\ [][ProvisionNext]_provisionVars

FairProvisionSpec == ProvisionSpec /\ ProvisionFairness

-----------------------------------------------------------------------------
(* Properties *)

\* The key a batch is being signed with is never overwritten before the batch is
\* done, and no batch is started with a key that was: SetSigner and ClearSigner
\* serialize with the sequencer, and zero comes after them.
NeverSignsWithZeroedKey ==
    seq = "put" => \A o \in Batch : inSeq[o].code = 200 => inSeq[o].signer \notin zeroed

\* Between sessions the only live key is the installed one, and the server owns
\* it: racing sessions never leave a key behind that nothing will destroy, nor
\* destroy the one in use (provision keeps both under one lock).
OnlyInstalledKeyLives ==
    srvMu = None =>
        /\ priv = signer
        /\ minted \ (zeroed \cup {session[s].key : s \in Sessions}) = {signer} \ {NoSigner}

\* A session that asked for a key change gets its reply: the two locks are always
\* taken in the same order and the sequencer lets go of w.mu.  The bound on signer
\* changes may hold a session back, nothing else.
SessionsFinish ==
    \A s \in Sessions : session[s].at = "lock" ~>
        session[s].at = "idle" \/ epoch = MaxEpoch
=============================================================================
