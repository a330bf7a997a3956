-------------------------- MODULE ProvisionClient --------------------------
(***************************************************************************)
(* The provision and deprovision commands of cmd/vitrum, run by several    *)
(* operators at once against hosts that share an address.  provision dials *)
(* twice, once to set the clock over a connection whose reply may never    *)
(* come, once to verify the clock and upload the seed; both pin the host   *)
(* key on first use in a file that every run reads and one run creates.    *)
(* A host may reboot at any time, which loses its clock and its            *)
(* connections, and a clock that jumps from the epoch wedges every         *)
(* connection to its host.  What a host does with a command is Provision.  *)
(***************************************************************************)
CONSTANTS
    Runs,       \* runs of the command
    Hosts,      \* hosts that may answer, by host key
    Honest,     \* the hosts that report the verifier of the key they got
    NoPin,      \* there is no pin file
    EmptyPin,   \* the pin file was created and not yet written
    NoHost      \* not connected

ASSUME ClientAssumption ==
    /\ Honest \subseteq Hosts
    /\ NoPin \notin Hosts /\ EmptyPin \notin Hosts /\ NoPin # EmptyPin
    /\ NoHost \notin Hosts

VARIABLES
    pin,        \* the -hostkey file
    run,        \* what each run does, with which flags, to which host it is connected
    clock,      \* the hosts whose clock is right
    reached     \* history: the hosts each run has given a command

clientVars == <<pin, run, clock, reached>>

\* cmd is the command; tofu and setTime are flags; timeSent: settime is behind the
\* run; alive: the connection was neither wedged nor lost.
ClientInit ==
    /\ pin \in {NoPin} \cup Hosts
    /\ run \in [Runs -> [cmd: {"provision", "deprovision"}, at: {"dial"}, tofu: BOOLEAN,
                         setTime: BOOLEAN, timeSent: {FALSE}, host: {NoHost}, alive: {TRUE}]]
    /\ \A r \in Runs : run[r].setTime => run[r].cmd = "provision"
    /\ clock = {}
    /\ reached = [r \in Runs |-> {}]

Goto(r, label) == run' = [run EXCEPT ![r].at = label]

\* log.Fatal: the process ends.  Its connections go with it.
Fail(r) == Goto(r, "failed")

\* Where a run goes once it is connected to host h.
Connected(r, h) ==
    run' = [run EXCEPT ![r].host = h,
                       ![r].at = IF ~run[r].setTime THEN "command"
                                 ELSE IF run[r].timeSent THEN "verify" ELSE "settime"]

\* The runs in rs lose their connections.
CutOff(runs, rs) == [r \in Runs |-> [runs[r] EXCEPT !.alive = @ /\ r \notin rs]]

\* The runs that are connected to a host.
ConnectedTo(h) ==
    {r \in Runs : run[r].host = h /\ run[r].at \in {"create", "write", "settime", "verify", "command"}}

-----------------------------------------------------------------------------
(* exec of the host: settime and status.  provision and deprovision: Provision. *)

ExecSetTime(h) == clock' = clock \cup {h}

\* The time that status reports is the time of the client, give or take.
ExecStatus(h) == h \in clock

-----------------------------------------------------------------------------
(* dialPinned and dialTOFU *)

\* Mutation: any host key passes.
AcceptsAny(h) == TRUE

\* ssh.FixedHostKey.
AcceptsHost(h) == pin = h

\* The pin file is read and parsed, and host h answers the dial.
DialPinned(r, h) ==
    /\ run[r].at = "dial"
    /\ pin # NoPin
    /\ IF pin # EmptyPin /\ AcceptsHost(h) THEN Connected(r, h) ELSE Fail(r)
    /\ UNCHANGED <<pin, clock, reached>>

\* There is no pin file: without -tofu the run ends, with it any host will do.
DialTOFU(r, h) ==
    /\ run[r].at = "dial"
    /\ pin = NoPin
    /\ IF run[r].tofu THEN run' = [run EXCEPT ![r].at = "create", ![r].host = h]
                      ELSE Fail(r)
    /\ UNCHANGED <<pin, clock, reached>>

\* Mutation: an existing file is truncated.
CreatePinTruncating(r) ==
    /\ run[r].at = "create"
    /\ pin' = EmptyPin /\ Goto(r, "write")
    /\ UNCHANGED <<clock, reached>>

\* OpenFile with O_EXCL: the file another run created in the meantime stays.
CreatePin(r) ==
    /\ run[r].at = "create"
    /\ IF pin = NoPin THEN pin' = EmptyPin /\ Goto(r, "write")
                      ELSE Fail(r) /\ UNCHANGED pin
    /\ UNCHANGED <<clock, reached>>

\* The presented key is written, or the file is removed again.
WritePin(r) ==
    /\ run[r].at = "write"
    /\ \/ pin' = run[r].host /\ Connected(r, run[r].host)
       \/ pin' = NoPin /\ Fail(r)
    /\ UNCHANGED <<clock, reached>>

-----------------------------------------------------------------------------
(* cmdProvision and cmdDeprovision *)

\* The connection is given up and a second one is dialled.
DialAgain(runs, r) ==
    [runs EXCEPT ![r].at = "dial", ![r].timeSent = TRUE, ![r].host = NoHost, ![r].alive = TRUE]

\* settime arrives: a clock that was not set jumps, and the jump wedges every
\* connection to the host, so that no reply may come.
SetTime(r) ==
    /\ run[r].at = "settime" /\ run[r].alive
    /\ LET h == run[r].host
       IN  /\ ExecSetTime(h)
           /\ reached' = [reached EXCEPT ![r] = @ \cup {h}]
           /\ run' = DialAgain(CutOff(run, IF h \in clock THEN {} ELSE ConnectedTo(h)), r)
    /\ UNCHANGED pin

\* settime never arrives, and the wait for its reply ends after 3 s.
SetTimeLost(r) ==
    /\ run[r].at = "settime"
    /\ run' = DialAgain(run, r)
    /\ UNCHANGED <<pin, clock, reached>>

\* verifyClock asks the host for its time.
VerifyClock(r) ==
    /\ run[r].at = "verify" /\ run[r].alive
    /\ IF ExecStatus(run[r].host) THEN Goto(r, "command") ELSE Fail(r)
    /\ UNCHANGED <<pin, clock, reached>>

\* Mutation: the seed is uploaded over a connection of its own.
SendCommandRedials(r) ==
    /\ run[r].at = "command"
    /\ reached' = [reached EXCEPT ![r] = @ \cup {run[r].host}]
    /\ IF run[r].host \in Honest THEN Goto(r, "success") ELSE Fail(r)
    /\ UNCHANGED <<pin, clock>>

\* deprovision, or the seed: the verifier the host reports for it is compared.
SendCommand(r) ==
    /\ run[r].at = "command" /\ run[r].alive
    /\ reached' = [reached EXCEPT ![r] = @ \cup {run[r].host}]
    /\ IF run[r].cmd = "deprovision" \/ run[r].host \in Honest
       THEN Goto(r, "success") ELSE Fail(r)
    /\ UNCHANGED <<pin, clock>>

\* The host refuses the command or resets the connection, or the operator kills a
\* run, at any point: sshRun has no timeout, so a wedged one stays until then.
Aborted(r) ==
    /\ run[r].at \notin {"success", "failed"}
    /\ Fail(r)
    /\ UNCHANGED <<pin, clock, reached>>

-----------------------------------------------------------------------------
\* A host reboots.
Reboot(h) ==
    /\ clock' = clock \ {h}
    /\ run' = CutOff(run, ConnectedTo(h))
    /\ UNCHANGED <<pin, reached>>

ClientNext ==
    \/ \E r \in Runs :
        \/ \E h \in Hosts : DialPinned(r, h) \/ DialTOFU(r, h)
        \/ CreatePin(r) \/ WritePin(r)
        \/ SetTime(r) \/ SetTimeLost(r) \/ VerifyClock(r) \/ SendCommand(r)
        \/ Aborted(r)
    \/ \E h \in Hosts : Reboot(h)

ClientSpec == ClientInit /\ [][ClientNext]_clientVars

-----------------------------------------------------------------------------
(* Properties *)

\* The seed and every other command go to the pinned host and to no other, whoever
\* answers either dial and whichever of the racing runs created the pin file
\* (dialPinned, dialTOFU).
CommandsOnlyToPinned == \A r \in Runs : reached[r] \subseteq {pin}

\* dial's comment: "an existing pin is never overwritten", by no run, not even by
\* one that found no file when it started, or that removes what it failed to write.
PinIsForGood == [][(pin \in Hosts) => pin' = pin]_clientVars

\* A run that set out to set the clock ends well only on a host whose clock is right
\* at that moment: a settime that never arrived and one whose reply was lost look
\* the same, and a host that rebooted after it was verified has lost its clock
\* again (verifyClock "backstops settime's lost-reply assumption").
ProvisionedHasClock ==
    [][\A r \in Runs :
          run[r].setTime /\ run[r].at # "success" /\ run'[r].at = "success"
          => run[r].host \in clock']_clientVars
=============================================================================
