----------------------------- MODULE RpmbAnchor -----------------------------
(***************************************************************************)
(* internal/state's RPMBAnchor: Anchor and SetAnchor as exchanges of       *)
(* authenticated frames with the card, over a transport that loses         *)
(* requests and responses, delivers responses and requests again, and is   *)
(* cut by power loss.                                                      *)
(*                                                                         *)
(* The driver (github.com/usbarmory/rpmb) is modelled from how it is used: *)
(* a read is one exchange with a fresh nonce, a write is an exchange that  *)
(* fetches the counter and one that writes under it, and a response counts *)
(* only if its MAC, its result and its nonce or counter are right.         *)
(***************************************************************************)
EXTENDS RpmbCard

CONSTANTS
    Faults,     \* which of the faults below may occur
    MaxDraws    \* bound: how many nonces are drawn

ASSUME RpmbAnchorAssumption ==
    /\ MaxDraws \in Nat
    /\ Faults \subseteq {"lost",      \* a request or a response is lost
                         "stale",     \* an earlier response is delivered
                         "duplicate", \* a write request is delivered again
                         "late"}      \* a lost write request is delivered after all

VARIABLES
    host,       \* the call under way or the last one
    draws,      \* nonces drawn so far; each is the number of its draw
    sent,       \* the write requests ever sent
    seen        \* the responses the card ever signed

hostVars == <<host, draws, sent, seen>>
rpmbVars == <<cardVars, hostVars>>

\* key: the key the driver was given; at: the response awaited; op: the call; next:
\* SetAnchor's argument; cur: the record read; req: the request in flight; out: how
\* the call stands.
Unused == [key |-> NoKey, at |-> "idle", op |-> "none", next |-> Blank, cur |-> Blank,
           req |-> NoFrame, out |-> "none"]

RpmbInit ==
    /\ CardInit(UnitKey)
    /\ host = Unused
    /\ draws = 0
    /\ sent = {}
    /\ seen = {}

-----------------------------------------------------------------------------
\* A request goes out: the card executes it, or it is lost on the way.
Send(req) ==
    /\ \/ WriteRPMB(req) /\ seen' = seen \cup {pending'}
       \/ "lost" \in Faults /\ ReadRPMB /\ UNCHANGED seen
    /\ sent' = IF req.req = "write" THEN sent \cup {req} ELSE sent

\* A counter read or a data read goes out with a fresh nonce.
SendFetch(req) ==
    /\ draws < MaxDraws
    /\ draws' = draws + 1
    /\ Send(FetchRequest(req, draws'))

\* Anchor, or the Anchor call that SetAnchor starts with.
Call(k, op, next) ==
    /\ host.at = "idle"
    /\ SendFetch("read")
    /\ host' = [key |-> k, at |-> "read", op |-> op, next |-> next, cur |-> Blank,
                req |-> FetchRequest("read", draws'), out |-> "busy"]

Anchor(k) == Call(k, "get", Blank)

SetAnchor(k, next) == Call(k, "set", next)

Return(out) == host' = [host EXCEPT !.at = "idle", !.req = NoFrame, !.out = out]

\* What the host may be handed as a response.
Incoming == ({pending} \ {NoFrame}) \cup (IF "stale" \in Faults THEN seen ELSE {})

\* Mutation: the write counter of a response is not compared.
AcceptsAnyCounter(r) ==
    /\ r.req = host.req.req /\ r.result = "ok" /\ r.mac = host.key
    /\ host.req.req # "write" => r.nonce = host.req.nonce

\* Mutation: the MAC of a response is not verified.
AcceptsAnyMac(r) ==
    /\ r.req = host.req.req /\ r.result = "ok"
    /\ IF host.req.req = "write" THEN r.counter = Inc(host.req.counter)
                                 ELSE r.nonce = host.req.nonce

\* The driver's checks of a response.
Accepts(r) ==
    /\ r.req = host.req.req /\ r.result = "ok" /\ r.mac = host.key
    /\ IF host.req.req = "write" THEN r.counter = Inc(host.req.counter)
                                 ELSE r.nonce = host.req.nonce

\* No response, or one that does not pass: the call returns an error.
ExchangeFails ==
    /\ host.at # "idle"
    /\ \/ pending = NoFrame \/ "lost" \in Faults
       \/ \E r \in Incoming : ~Accepts(r)
    /\ ReadRPMB
    /\ Return("error")
    /\ UNCHANGED <<draws, sent, seen>>

\* Anchor returns the record it read.
AnchorReturns(r) ==
    /\ host.at = "read" /\ host.op = "get"
    /\ ReadRPMB
    /\ host' = [host EXCEPT !.at = "idle", !.req = NoFrame, !.cur = r.rec, !.out = "ok"]
    /\ UNCHANGED <<draws, sent, seen>>

\* SetAnchor refuses an unbound record and one that does not advance.
Refuses(next, cur) == ~next.bound \/ next.gen <= cur.gen

RefuseSet(r) ==
    /\ host.at = "read" /\ host.op = "set"
    /\ Refuses(host.next, r.rec)
    /\ ReadRPMB
    /\ Return("error")
    /\ UNCHANGED <<draws, sent, seen>>

\* Write fetches the counter.
FetchCounter(r) ==
    /\ host.at = "read" /\ host.op = "set"
    /\ ~Refuses(host.next, r.rec)
    /\ SendFetch("counter")
    /\ host' = [host EXCEPT !.at = "counter", !.cur = r.rec, !.req = FetchRequest("counter", draws')]

\* Write sends the record under that counter.
SendWrite(r) ==
    /\ host.at = "counter"
    /\ LET req == WriteRequest(host.next, r.counter, host.key)
       IN  Send(req) /\ host' = [host EXCEPT !.at = "write", !.req = req]
    /\ UNCHANGED draws

SetReturns ==
    /\ host.at = "write"
    /\ ReadRPMB
    /\ Return("ok")
    /\ UNCHANGED <<draws, sent, seen>>

\* The host is handed a response that passes.
Receive(r) ==
    /\ host.at # "idle"
    /\ Accepts(r)
    /\ AnchorReturns(r) \/ RefuseSet(r) \/ FetchCounter(r) \/ SendWrite(r) \/ SetReturns

-----------------------------------------------------------------------------
\* A write request reaches the card again, or late.  Duplicates are of requests
\* the card has executed or can no longer execute.
Redeliver(req) ==
    /\ \/ "duplicate" \in Faults /\ req.counter # counter
       \/ "late" \in Faults
    /\ WriteRPMB(req)
    /\ seen' = seen \cup {pending'}
    /\ UNCHANGED <<host, draws, sent>>

PowerCut ==
    /\ ReadRPMB
    /\ host' = Unused
    /\ UNCHANGED <<draws, sent, seen>>

\* The records a caller may pass.
Candidates == [gen: 0..MaxGen, hash: Hashes, bound: BOOLEAN]

RpmbNext ==
    \/ Anchor(UnitKey) \/ \E next \in Candidates : SetAnchor(UnitKey, next)
    \/ ExchangeFails
    \/ \E r \in Incoming : Receive(r)
    \/ \E req \in sent : Redeliver(req)
    \/ PowerCut

RpmbSpec == RpmbInit /\ [][RpmbNext]_rpmbVars

-----------------------------------------------------------------------------
(* Properties *)

Register == INSTANCE AnchorRegister WITH
    Registers <- Records, Empty <- Blank, stored <- record,
    call <- host.op, asked <- host.next, result <- host.out,
    value <- IF host.op = "get" /\ host.out = "ok" THEN host.cur ELSE Blank

\* The frame protocol keeps the promise the store is built on: the record only
\* advances, an error leaves it at the old or the new one, and success means that
\* exactly this record is stored, whatever is lost, stale or repeated.
ImplementsAnchorRegister == Register!RegisterSpec

\* The write counter stays at or below the generation, so that it cannot wrap and
\* make an old write request current again before the store halts for want of
\* generations (RPMBAnchor consumes one increment per generation at most).
CounterWithinGenerations == counter <= record.gen

\* ROLLBACK.md on write requests that are held back: they "can only advance the
\* hardware write counter and push the system toward a halt".  So SetAnchor must
\* not report success unless the anchor contains exactly its record.
SuccessMeansAnchored ==
    host.op = "set" /\ host.out = "ok" => record = host.next
=============================================================================
