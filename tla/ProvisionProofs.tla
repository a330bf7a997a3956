-------------------------- MODULE ProvisionProofs --------------------------
(***************************************************************************)
(* Proofs about Provision, for any number of concurrent sessions and any   *)
(* number of keys, over any witness that WitnessProofs covers.             *)
(***************************************************************************)
EXTENDS Provision, WitnessProofs

-----------------------------------------------------------------------------
(* The inductive invariant *)

Keys == Signers \cup {NoSigner}

KeyTypeOK ==
    /\ srvMu \in Sessions \cup {None}
    /\ priv \in Keys
    /\ zeroed \subseteq Signers /\ minted \subseteq Signers
    /\ session \in [Sessions -> [at: {"idle", "lock", "store", "epoch", "zero"}, key: Keys]]

\* The sessions in SetSigner, in ClearSigner or past them hold Server.mu.
HoldsServer(s) == session[s].at \in {"store", "epoch", "zero"}

ServerInv ==
    /\ \A s \in Sessions : HoldsServer(s) <=> srvMu = s
    /\ \A s \in Sessions : session[s].at = "idle" => session[s].key = NoSigner

\* The installed signer is the key the server owns, or the one it is about to own.
OwnerInv ==
    /\ (\A s \in Sessions : session[s].at \notin {"epoch", "zero"}) => signer = priv
    /\ \A s \in Sessions : session[s].at \in {"epoch", "zero"} => signer = session[s].key

\* A key has one owner, the server or a session, until its bytes are overwritten.
LiveInv ==
    /\ zeroed \subseteq minted
    /\ priv # NoSigner => priv \in minted \ zeroed
    /\ \A s \in Sessions : session[s].key # NoSigner =>
          session[s].key \in minted \ zeroed /\ session[s].key # priv
    /\ \A s, t \in Sessions : s # t /\ session[s].key # NoSigner => session[s].key # session[t].key
    /\ \A k \in minted : k \in zeroed \/ k = priv \/ \E s \in Sessions : k = session[s].key

KeyInv == KeyTypeOK /\ ServerInv /\ OwnerInv /\ LiveInv

\* Fields of a session that moves on, and of the others.
LEMMA SessionMoves ==
    ASSUME KeyTypeOK, NEW s \in Sessions, NEW label \in {"store", "epoch", "zero"},
           session' = [session EXCEPT ![s].at = label]
    PROVE  /\ session' \in [Sessions -> [at: {"idle", "lock", "store", "epoch", "zero"}, key: Keys]]
           /\ session'[s].at = label
           /\ \A t \in Sessions : session'[t].key = session[t].key
           /\ \A t \in Sessions \ {s} : session'[t] = session[t]
BY DEF KeyTypeOK

\* A session starts over, with a key or with none.
LEMMA SessionStarts ==
    ASSUME KeyTypeOK, NEW s \in Sessions, NEW label \in {"idle", "lock"}, NEW k \in Keys,
           session' = [session EXCEPT ![s] = [at |-> label, key |-> k]]
    PROVE  /\ session' \in [Sessions -> [at: {"idle", "lock", "store", "epoch", "zero"}, key: Keys]]
           /\ session'[s].at = label /\ session'[s].key = k
           /\ \A t \in Sessions \ {s} : session'[t] = session[t]
BY DEF KeyTypeOK

\* provision builds a key that nobody has, or deprovision is called.
LEMMA StartPreserves ==
    ASSUME KeyInv, NEW s \in Sessions,
           CallDeprovision(s) \/ \E key \in Signers : BuildKey(s, key)
    PROVE  KeyInv'
<1>1. PICK k \in Keys :
          /\ session' = [session EXCEPT ![s] = [at |-> "lock", key |-> k]]
          /\ k # NoSigner => k \notin minted
          /\ minted' = minted \cup ({k} \ {NoSigner})
          /\ session[s].at = "idle" /\ UNCHANGED <<signer, srvMu, priv, zeroed>>
    BY WitnessSentinels DEF CallDeprovision, BuildKey, witnessVars, Keys
<1>2. /\ session' \in [Sessions -> [at: {"idle", "lock", "store", "epoch", "zero"}, key: Keys]]
      /\ session'[s].at = "lock" /\ session'[s].key = k
      /\ \A t \in Sessions \ {s} : session'[t] = session[t]
    BY <1>1, SessionStarts DEF KeyInv
<1>3. KeyTypeOK' /\ ServerInv' /\ OwnerInv'
    BY <1>1, <1>2 DEF KeyInv, KeyTypeOK, ServerInv, HoldsServer, OwnerInv, Keys
<1>4. session[s].key = NoSigner /\ NoSigner \notin minted
    BY <1>1, WitnessSentinels DEF KeyInv, ServerInv, KeyTypeOK
<1>5. LiveInv'
    BY <1>1, <1>2, <1>4 DEF KeyInv, KeyTypeOK, LiveInv
<1> QED
    BY <1>3, <1>5 DEF KeyInv

\* A session takes Server.mu.
LEMMA LockServerPreserves ==
    ASSUME KeyInv, NEW s \in Sessions, LockServer(s)
    PROVE  KeyInv'
<1>1. /\ session' \in [Sessions -> [at: {"idle", "lock", "store", "epoch", "zero"}, key: Keys]]
      /\ session'[s].at = "store"
      /\ \A t \in Sessions : session'[t].key = session[t].key
      /\ \A t \in Sessions \ {s} : session'[t] = session[t]
    BY SessionMoves DEF KeyInv, LockServer
<1>2. srvMu = None /\ srvMu' = s /\ UNCHANGED <<signer, priv, zeroed, minted>>
    BY DEF LockServer, witnessVars
<1>3. \A t \in Sessions : ~HoldsServer(t)
    BY <1>2, SessionsAssumption DEF KeyInv, ServerInv
<1>4. KeyTypeOK' /\ ServerInv' /\ OwnerInv'
    BY <1>1, <1>2, <1>3 DEF KeyInv, KeyTypeOK, ServerInv, HoldsServer, OwnerInv
<1>5. LiveInv'
    BY <1>1, <1>2 DEF KeyInv, LiveInv
<1> QED
    BY <1>4, <1>5 DEF KeyInv

\* SetSigner and ClearSigner, in their two steps.
LEMMA SetSignerPreserves ==
    ASSUME KeyInv, NEW s \in Sessions, CallStoreSigner(s) \/ CallAddEpoch(s)
    PROVE  KeyInv'
<1>1. \A t \in Sessions : HoldsServer(t) => t = s
    BY DEF KeyInv, ServerInv, HoldsServer, CallStoreSigner, CallAddEpoch
<1>2. /\ session' \in [Sessions -> [at: {"idle", "lock", "store", "epoch", "zero"}, key: Keys]]
      /\ session'[s].at \in {"epoch", "zero"} /\ HoldsServer(s)
      /\ \A t \in Sessions : session'[t].key = session[t].key
      /\ \A t \in Sessions \ {s} : session'[t] = session[t]
    BY SessionMoves DEF KeyInv, CallStoreSigner, CallAddEpoch, HoldsServer
<1>3. signer' = session[s].key /\ UNCHANGED <<srvMu, priv, zeroed, minted>>
    BY DEF KeyInv, OwnerInv, CallStoreSigner, StoreSigner, CallAddEpoch, AddEpoch
<1>4. KeyTypeOK' /\ ServerInv' /\ OwnerInv'
    BY <1>1, <1>2, <1>3 DEF KeyInv, KeyTypeOK, ServerInv, HoldsServer, OwnerInv
<1>5. LiveInv'
    BY <1>2, <1>3 DEF KeyInv, LiveInv
<1> QED
    BY <1>4, <1>5 DEF KeyInv

\* The replaced key is overwritten, and the server owns the installed one.
LEMMA ReplacePrivPreserves ==
    ASSUME KeyInv, NEW s \in Sessions, ReplacePriv(s)
    PROVE  KeyInv'
<1>1. \A t \in Sessions : HoldsServer(t) => t = s
    BY DEF KeyInv, ServerInv, HoldsServer, ReplacePriv
<1>2. /\ session' \in [Sessions -> [at: {"idle", "lock", "store", "epoch", "zero"}, key: Keys]]
      /\ session'[s].at = "idle" /\ session'[s].key = NoSigner
      /\ \A t \in Sessions \ {s} : session'[t] = session[t]
    BY SessionStarts DEF KeyInv, ReplacePriv, Rest, Keys
<1>3. /\ session[s].at = "zero" /\ srvMu' = None /\ signer' = signer
      /\ zeroed' = zeroed \cup ({priv} \ {NoSigner}) /\ priv' = session[s].key
      /\ minted' = minted /\ signer = session[s].key
    BY DEF KeyInv, OwnerInv, ReplacePriv, witnessVars
<1>4. KeyTypeOK'
    BY <1>2, <1>3 DEF KeyInv, KeyTypeOK, Keys
<1>5. ServerInv' /\ OwnerInv'
    BY <1>1, <1>2, <1>3, SessionsAssumption DEF KeyInv, ServerInv, HoldsServer, OwnerInv
<1>6. LiveInv'
    BY <1>2, <1>3 DEF KeyInv, LiveInv, KeyTypeOK
<1> QED
    BY <1>4, <1>5, <1>6 DEF KeyInv

\* The handlers and the sequencer do not touch keys.
LEMMA ServingKeepsSigner ==
    ASSUME ServeNext \/ SequencerNext
    PROVE  signer' = signer
BY DEF ServeNext, ClientNext, LoadSigner, CheckRequest, LoadEpoch, AddToPool, Checkpoint,
       SequencerNext, RunSequencer, StopPools, Rotate, Sign, Put, PutSucceeds, PutFails, Retire

\* The invariant is kept by every step of sessions and witness.
LEMMA KeyInductive == KeyInv /\ [ProvisionNext]_provisionVars => KeyInv'
<1> SUFFICES ASSUME KeyInv, [ProvisionNext]_provisionVars PROVE KeyInv'
    OBVIOUS
<1>1. ASSUME NEW s \in Sessions, SessionNext(s)
      PROVE  KeyInv'
    BY <1>1, StartPreserves, LockServerPreserves, SetSignerPreserves, ReplacePrivPreserves
    DEF SessionNext
<1>2. CASE UNCHANGED <<signer, keyVars>>
    BY <1>2 DEF keyVars, KeyInv, KeyTypeOK, ServerInv, HoldsServer, OwnerInv, LiveInv
<1> QED
    BY <1>1, <1>2, ServingKeepsSigner DEF ProvisionNext, provisionVars, witnessVars

\* A unit that just booted has no key.
LEMMA KeyInit == ProvisionInit => KeyInv
<1> SUFFICES ASSUME ProvisionInit PROVE KeyInv
    OBVIOUS
<1>1. \A s \in Sessions : session[s].at = "idle" /\ session[s].key = NoSigner
    BY DEF ProvisionInit, Rest
<1>2. KeyTypeOK
    BY DEF ProvisionInit, Rest, KeyTypeOK, Keys
<1>3. ServerInv /\ OwnerInv /\ LiveInv
    BY <1>1, SessionsAssumption
    DEF ProvisionInit, WitnessInit, ServerInv, HoldsServer, OwnerInv, LiveInv
<1> QED
    BY <1>2, <1>3 DEF KeyInv

-----------------------------------------------------------------------------
(* Theorems *)

\* The sessions drive the witness as Witness says its signer may change: SetSigner
\* and ClearSigner one at a time, each in its two steps.  All that WitnessProofs
\* shows therefore holds with the provisioning server in place.
THEOREM ProvisionImplementsWitness == ProvisionSpec => WitnessSpec
<1>1. ProvisionInit => WitnessInit
    BY DEF ProvisionInit
<1>2. KeyInv /\ [ProvisionNext]_provisionVars => [WitnessNext]_witnessVars
    <2> SUFFICES ASSUME KeyInv, [ProvisionNext]_provisionVars
                 PROVE  WitnessNext \/ UNCHANGED witnessVars
        OBVIOUS
    <2>1. ASSUME NEW s \in Sessions, SessionNext(s)
          PROVE  WitnessNext \/ UNCHANGED witnessVars
        <3>1. session[s].key \in Signers \cup {NoSigner}
            BY DEF KeyInv, KeyTypeOK, Keys
        <3>2. CASE CallStoreSigner(s) \/ CallAddEpoch(s)
            BY <3>1, <3>2 DEF CallStoreSigner, CallAddEpoch, WitnessNext, SignerNext
        <3> QED
            BY <2>1, <3>2 DEF SessionNext, BuildKey, CallDeprovision, LockServer, ReplacePriv
    <2> QED
        BY <2>1 DEF ProvisionNext, WitnessNext, provisionVars
<1> QED
    BY <1>1, <1>2, KeyInit, KeyInductive, PTL DEF ProvisionSpec, WitnessSpec

\* What is true of the keys, their owners and the locks at every moment.
THEOREM ProvisionInvariant == ProvisionSpec => [](KeyInv /\ WitnessInv)
BY KeyInit, KeyInductive, ProvisionImplementsWitness, WitnessInvariant, PTL DEF ProvisionSpec

\* No batch is signed with key bytes that were overwritten, and no key is overwritten
\* while a batch signed with it is being committed, with any number of sessions that
\* replace keys under the sequencer.
THEOREM ProvisionNeverSignsWithZeroedKey == ProvisionSpec => []NeverSignsWithZeroedKey
<1>1. KeyInv /\ WitnessInv => NeverSignsWithZeroedKey
    <2> SUFFICES ASSUME KeyInv, WitnessInv, seq = "put", NEW o \in Batch, inSeq[o].code = 200
                 PROVE  inSeq[o].signer \notin zeroed
        BY DEF NeverSignsWithZeroedKey
    <2>1. inSeq[o].signer = signer
        BY DEF WitnessInv, BatchInv, SignerInUseIsInstalled
    <2>2. signer \notin zeroed
        BY WitnessSentinels DEF KeyInv, KeyTypeOK, OwnerInv, LiveInv
    <2> QED
        BY <2>1, <2>2
<1> QED
    BY <1>1, ProvisionInvariant, PTL

\* Whenever no session is inside the server, every key ever built is overwritten, in
\* the hands of a session, or the installed one, which the server owns.
THEOREM ProvisionOnlyInstalledKeyLives == ProvisionSpec => []OnlyInstalledKeyLives
<1>1. KeyInv => OnlyInstalledKeyLives
    <2> SUFFICES ASSUME KeyInv, srvMu = None
                 PROVE  /\ priv = signer
                        /\ minted \ (zeroed \cup {session[s].key : s \in Sessions})
                               = {signer} \ {NoSigner}
        BY DEF OnlyInstalledKeyLives
    <2>1. priv = signer
        BY SessionsAssumption DEF KeyInv, ServerInv, HoldsServer, OwnerInv
    <2>2. \A k \in minted : k # NoSigner
        BY WitnessSentinels DEF KeyInv, KeyTypeOK
    <2>3. priv # NoSigner => /\ priv \in minted /\ priv \notin zeroed
                             /\ \A s \in Sessions : session[s].key # priv
        BY DEF KeyInv, LiveInv
    <2>4. \A k \in minted : k \in zeroed \/ k = priv \/ \E s \in Sessions : k = session[s].key
        BY DEF KeyInv, LiveInv
    <2> QED
        BY <2>1, <2>2, <2>3, <2>4
<1> QED
    BY <1>1, ProvisionInvariant, PTL
=============================================================================
