------------------------------ MODULE Scripts ------------------------------
(***************************************************************************)
(* The two command-line tools that take a witness through a fixed list of  *)
(* submissions: `vitrum selftest`, which stops at the first answer that is *)
(* not the expected one, and `vitrum record`, which writes submissions and *)
(* expected answers down for the fixture test to replay against a witness  *)
(* of its own.  A witness that is selftested also has other clients; it    *)
(* answers by CheckpointRules and is nothing but the view it holds.        *)
(* Cosignatures are left to Witness.                                       *)
(***************************************************************************)
EXTENDS CheckpointRules, Sequences

CONSTANTS
    SelftestOrigin,    \* config.SelftestOrigin
    UnknownOrigin      \* unknown.invalid/log

ScriptLogs == {SelftestOrigin, UnknownOrigin}

ASSUME ScriptOrigins == ScriptLogs \subseteq Origins /\ SelftestOrigin # UnknownOrigin

\* testlog.Log is the sequence of its records; Checkpoint signs its size and root.
AppendRecords(log, records) == log \o records

TreeHead(log) == [size |-> Len(log), hash |-> log]

\* ProveTree refuses the empty tree; for others it gives a proof, which connects the
\* heads of one log.
ProveTree(newer, older) == IF older < 1 \/ older > newer THEN "error" ELSE "log"

\* A submission, the status it has to get, and the size its answer has to tell, if
\* that is looked at (latest is empty or a singleton).
Step(origin, old, proof, head, status) ==
    [origin |-> origin, old |-> old, proof |-> proof, head |-> head,
     status |-> status, latest |-> {}]

-----------------------------------------------------------------------------
(* cmdSelftest *)

Log3 == AppendRecords(<<>>, <<"a", "b", "c">>)
Log5 == AppendRecords(Log3, <<"d", "e">>)
Fork7 == AppendRecords(<<>>, <<"a", "b", "X", "d", "e", "f", "g">>)

\* Their heads, and what tlog makes of them: the log grows and the fork is none of it.
ASSUME SelftestHeads ==
    /\ \A t \in {Log3, Log5, Fork7} : TreeHead(t) \in Heads /\ SizeOf(TreeHead(t)) = Len(t)
    /\ Follows(TreeHead(Log5), TreeHead(Log3)) /\ ~Follows(TreeHead(Fork7), TreeHead(Log5))

\* The fork is signed with the key of the log, and proved by the fork.
SelftestSteps ==
    <<Step(SelftestOrigin, 0, "none", TreeHead(Log3), 200),
      [Step(SelftestOrigin, 0, "none", TreeHead(Log3), 409) EXCEPT !.latest = {3}],
      Step(SelftestOrigin, 3, ProveTree(5, 3), TreeHead(Log5), 200),
      Step(SelftestOrigin, 5, ProveTree(7, 5), TreeHead(Fork7), 422),
      Step(UnknownOrigin, 0, "none", TreeHead(Log3), 200)>>

-----------------------------------------------------------------------------
(* cmdRecord *)

\* Mutation: the proof is written down as it was computed.
TamperedNot(proof) == proof

\* bad[0][0] ^= 0xff
Tampered(proof) == "other"

\* The manifest for a log first seen at head cp1 and, once it grew or the wait was
\* over, at head cp2; no manifest if the proof cannot be computed.
Record(origin, cp1, cp2) ==
    LET n1 == SizeOf(cp1)
        proof == ProveTree(SizeOf(cp2), n1)
        first == Step(origin, 0, "none", cp1, 200)
        resubmit == Step(origin, n1, "none", cp1, 200)
        badproof == Step(origin, n1, Tampered(proof), cp2, 422)
        grow == Step(origin, n1, proof, cp2, 200)
        stale == Step(origin, 0, "none", cp1, 409)
    IN  IF SizeOf(cp2) > n1
        THEN [written |-> proof # "error", steps |-> <<first, resubmit, badproof, grow, stale>>]
        ELSE [written |-> TRUE, steps |-> <<first, resubmit, stale>>]

-----------------------------------------------------------------------------
(* A script against a witness *)

VARIABLES
    view,     \* the heads the witness holds
    tool,     \* what was started last: "none", "selftest" or "replay"
    script,   \* its submissions
    done,     \* how many of them were answered as expected
    failed,   \* it stopped at another answer
    began,    \* history: the view when it started
    alone,    \* history: no error since then, and nobody else cosigned for in its logs
    tested    \* history: an earlier selftest of this witness passed

scriptVars == <<view, tool, script, done, failed, began, alone, tested>>

Passed == ~failed /\ done = Len(script)
Running == ~failed /\ done < Len(script)

ScriptInit ==
    /\ view = Nothing /\ began = Nothing
    /\ tool = "none" /\ script = <<>> /\ done = 0
    /\ failed = FALSE /\ alone = TRUE /\ tested = FALSE

Begin(name, steps, v, before) ==
    /\ ~Running
    /\ tool' = name /\ script' = steps /\ done' = 0
    /\ view' = v /\ began' = v
    /\ failed' = FALSE /\ alone' = TRUE /\ tested' = before

\* cmdSelftest, against the witness as it is.
Selftest == Begin("selftest", SelftestSteps, view, tested \/ (tool = "selftest" /\ Passed))

\* The fixture test, with the manifest of a log whose second head follows its first,
\* against a fresh witness.
Replay(origin, cp1, cp2) ==
    LET m == Record(origin, cp1, cp2)
    IN  Follows(cp2, cp1) /\ m.written /\ Begin("replay", m.steps, Nothing, FALSE)

\* What the witness holds once it answered s.
Stored(s) ==
    IF Verdict(view[s.origin], s) = 200 THEN [view EXCEPT ![s.origin] = s.head] ELSE view

\* One submission: the script goes on if the answer is the expected one.
Submit ==
    LET s == script[done + 1]
        held == view[s.origin]
        expected == Verdict(held, s) = s.status /\ s.latest \subseteq {SizeHeld(held)}
    IN  /\ Running
        /\ view' = Stored(s)
        /\ done' = IF expected THEN done + 1 ELSE done
        /\ failed' = ~expected
        /\ UNCHANGED <<tool, script, began, alone, tested>>

\* The submission ends in an error (no answer, a failing store, a cosignature that
\* does not verify), before the witness stored the head or after it.
SubmitError ==
    /\ tool = "selftest" /\ Running
    /\ view' \in {view, Stored(script[done + 1])}
    /\ failed' = TRUE /\ alone' = FALSE
    /\ UNCHANGED <<tool, script, done, began, tested>>

\* Another client of the witness is cosigned for.
OtherSubmits(origin, head, proof) ==
    LET r == [old |-> SizeHeld(view[origin]), proof |-> proof, head |-> head]
    IN  /\ tool # "replay"
        /\ Verdict(view[origin], r) = 200
        /\ view' = [view EXCEPT ![origin] = head]
        /\ alone' = (alone /\ origin \notin ScriptLogs)
        /\ UNCHANGED <<tool, script, done, failed, began, tested>>

ScriptNext ==
    \/ Selftest
    \/ \E o \in Origins, cp1, cp2 \in Heads : Replay(o, cp1, cp2)
    \/ Submit
    \/ SubmitError
    \/ \E o \in Origins, h \in Heads, p \in Proofs : OtherSubmits(o, h, p)

ScriptSpec == ScriptInit /\ [][ScriptNext]_scriptVars

-----------------------------------------------------------------------------
(* Properties *)

\* selftest passes exactly against a witness with nothing of its two logs, so never
\* twice, whoever else submits meanwhile (PRODUCTION_SETUP.md: "Do not rerun selftest
\* after a reboot"): the run after one that passed ends at its first submission and
\* changes nothing.  Whatever the witness held, a run only extends it.
SelftestPassesOnce ==
    tool = "selftest" =>
        /\ Passed => \A o \in ScriptLogs : SizeHeld(began[o]) = 0
        /\ failed /\ alone => \E o \in ScriptLogs : SizeHeld(began[o]) # 0
        /\ tested => done = 0 /\ (alone => \A o \in ScriptLogs : view[o] = began[o])
        /\ ExtendsAll(view, began)

\* A manifest replayed in order against a fresh witness gives the statuses it lists
\* (record.go, fixtureManifest), for every log that is not empty when first seen.
ManifestReplays == tool = "replay" /\ SizeOf(script[1].head) > 0 => ~failed
=============================================================================
