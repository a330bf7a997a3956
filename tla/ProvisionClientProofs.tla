----------------------- MODULE ProvisionClientProofs -----------------------
(***************************************************************************)
(* Proofs about ProvisionClient, for any number of concurrent runs of the  *)
(* commands and any hosts that answer at the address.                      *)
(***************************************************************************)
EXTENDS ProvisionClient, TLAPS

\* The states of a run that is past the host key check.
Trusting == {"settime", "verify", "command"}

RunStates ==
    [cmd: {"provision", "deprovision"},
     at: Trusting \cup {"dial", "create", "write", "success", "failed"},
     tofu: BOOLEAN, setTime: BOOLEAN, timeSent: BOOLEAN, host: Hosts \cup {NoHost},
     alive: BOOLEAN]

ClientTypeOK ==
    /\ pin \in Hosts \cup {NoPin, EmptyPin}
    /\ run \in [Runs -> RunStates]
    /\ clock \subseteq Hosts
    /\ reached \in [Runs -> SUBSET Hosts]

\* The pin file is empty while the one run that created it writes it; runs past
\* the check, and commands that were given, mean that the file names their host.
PinInv ==
    /\ \A r \in Runs : run[r].at \in {"create", "write"} => run[r].host \in Hosts
    /\ \A r \in Runs : run[r].at = "write" => pin = EmptyPin
    /\ \A r, q \in Runs : run[r].at = "write" /\ run[q].at = "write" => r = q
    /\ \A r \in Runs : run[r].at \in Trusting => run[r].host = pin /\ pin \in Hosts
    /\ \A r \in Runs : reached[r] \subseteq {pin}

\* A connection that is still up leads to a host that has not rebooted since the
\* run looked at its clock.
ClockInv ==
    \A r \in Runs : run[r].at = "command" /\ run[r].setTime /\ run[r].alive =>
        run[r].host \in clock

ClientInv == ClientTypeOK /\ PinInv /\ ClockInv

\* Whatever a step does to the runs' connections leaves where they are alone.
LEMMA CutOffKeeps ==
    ASSUME ClientTypeOK, NEW rs
    PROVE  /\ CutOff(run, rs) \in [Runs -> RunStates]
           /\ \A r \in Runs : /\ CutOff(run, rs)[r].at = run[r].at
                              /\ CutOff(run, rs)[r].host = run[r].host
                              /\ CutOff(run, rs)[r].setTime = run[r].setTime
                              /\ CutOff(run, rs)[r].alive => run[r].alive /\ r \notin rs
BY DEF ClientTypeOK, CutOff, RunStates

\* Giving up a connection puts one run back to dialling and leaves the others alone.
LEMMA DialAgainRuns ==
    ASSUME NEW runs \in [Runs -> RunStates], NEW r \in Runs
    PROVE  /\ DialAgain(runs, r) \in [Runs -> RunStates]
           /\ DialAgain(runs, r)[r].at = "dial"
           /\ \A q \in Runs \ {r} : DialAgain(runs, r)[q] = runs[q]
<1> DEFINE again == [runs[r] EXCEPT !.at = "dial", !.timeSent = TRUE, !.host = NoHost,
                                    !.alive = TRUE]
<1>1. again \in RunStates /\ again.at = "dial"
    BY DEF RunStates
<1>2. DialAgain(runs, r) = [runs EXCEPT ![r] = again]
    BY DEF DialAgain, RunStates
<1> QED
    BY <1>1, <1>2

\* Every way a run starts satisfies the invariant.
LEMMA ClientInitInv == ClientInit => ClientInv
<1> SUFFICES ASSUME ClientInit PROVE ClientInv
    OBVIOUS
<1>1. ClientTypeOK
    BY DEF ClientInit, ClientTypeOK, RunStates
<1>2. PinInv /\ ClockInv
    BY DEF ClientInit, PinInv, ClockInv, Trusting
<1> QED
    BY <1>1, <1>2 DEF ClientInv

\* The invariant is kept by every step of every run and by reboots.
LEMMA ClientInductive == ClientInv /\ [ClientNext]_clientVars => ClientInv'
<1> SUFFICES ASSUME ClientInv, [ClientNext]_clientVars PROVE ClientInv'
    OBVIOUS
<1> USE DEF ClientInv
<1>1. ASSUME NEW r \in Runs, NEW h \in Hosts, DialPinned(r, h) \/ DialTOFU(r, h)
      PROVE  ClientInv'
    <2>1. ClientTypeOK'
        BY <1>1 DEF DialPinned, DialTOFU, Connected, Fail, Goto, ClientTypeOK, RunStates, Trusting
    <2>2. PinInv'
        BY <1>1, ClientAssumption
        DEF DialPinned, DialTOFU, Connected, Fail, Goto, AcceptsHost, ClientTypeOK, RunStates, PinInv, Trusting
    <2>3. ClockInv'
        BY <1>1 DEF DialPinned, DialTOFU, Connected, Fail, Goto, ClientTypeOK, RunStates, ClockInv
    <2> QED
        BY <2>1, <2>2, <2>3
<1>2. ASSUME NEW r \in Runs, CreatePin(r)
      PROVE  ClientInv'
    <2>1. ClientTypeOK'
        BY <1>2 DEF CreatePin, Fail, Goto, ClientTypeOK, RunStates, Trusting
    <2>2. PinInv'
        BY <1>2, ClientAssumption DEF CreatePin, Fail, Goto, ClientTypeOK, RunStates, PinInv, Trusting
    <2>3. ClockInv'
        BY <1>2 DEF CreatePin, Fail, Goto, ClientTypeOK, RunStates, ClockInv
    <2> QED
        BY <2>1, <2>2, <2>3
<1>3. ASSUME NEW r \in Runs, WritePin(r)
      PROVE  ClientInv'
    <2>0. run[r].host \in Hosts /\ pin = EmptyPin /\ (\A q \in Runs : reached[q] = {})
        BY <1>3, ClientAssumption DEF WritePin, PinInv, ClientTypeOK
    <2>1. ClientTypeOK'
        BY <1>3, <2>0 DEF WritePin, Connected, Fail, Goto, ClientTypeOK, RunStates, Trusting
    <2>2. PinInv'
        BY <1>3, <2>0, ClientAssumption
        DEF WritePin, Connected, Fail, Goto, ClientTypeOK, RunStates, PinInv, Trusting
    <2>3. ClockInv'
        BY <1>3 DEF WritePin, Connected, Fail, Goto, ClientTypeOK, RunStates, ClockInv
    <2> QED
        BY <2>1, <2>2, <2>3
<1>4. ASSUME NEW r \in Runs, SetTime(r)
      PROVE  ClientInv'
    <2> DEFINE h == run[r].host
               cut == CutOff(run, IF h \in clock THEN {} ELSE ConnectedTo(h))
    <2>1. run' = DialAgain(cut, r) /\ clock' = clock \cup {h} /\ pin' = pin
          /\ reached' = [reached EXCEPT ![r] = @ \cup {h}] /\ h = pin /\ pin \in Hosts
        BY <1>4 DEF SetTime, ExecSetTime, PinInv, Trusting
    <2>2. ClientTypeOK'
        BY <2>1, CutOffKeeps, DialAgainRuns DEF ClientTypeOK
    <2>3. \A q \in Runs : /\ q # r => run'[q] = cut[q]
                          /\ q = r => run'[q].at = "dial"
        BY <2>1, CutOffKeeps, DialAgainRuns
    <2>4. PinInv'
        BY <2>1, <2>3, CutOffKeeps DEF PinInv, ClientTypeOK, Trusting
    <2>5. ClockInv'
        BY <2>1, <2>3, CutOffKeeps DEF ClockInv
    <2> QED
        BY <2>2, <2>4, <2>5
<1>5. ASSUME NEW r \in Runs, SetTimeLost(r)
      PROVE  ClientInv'
    <2>1. ClientTypeOK'
        BY <1>5, DialAgainRuns DEF SetTimeLost, ClientTypeOK
    <2>2. /\ run'[r].at = "dial" /\ (\A q \in Runs \ {r} : run'[q] = run[q])
          /\ UNCHANGED <<pin, clock, reached>>
        BY <1>5, DialAgainRuns DEF SetTimeLost, ClientTypeOK
    <2>3. PinInv'
        BY <2>2 DEF PinInv, Trusting
    <2>4. ClockInv'
        BY <2>2 DEF ClockInv
    <2> QED
        BY <2>1, <2>3, <2>4
<1>6. ASSUME NEW r \in Runs, VerifyClock(r) \/ SendCommand(r) \/ Aborted(r)
      PROVE  ClientInv'
    <2>1. ClientTypeOK'
        <3>1. run' \in [Runs -> RunStates]
            BY <1>6 DEF VerifyClock, SendCommand, Aborted, Fail, Goto, ClientTypeOK, RunStates, Trusting
        <3>2. reached' \in [Runs -> SUBSET Hosts]
            BY <1>6 DEF VerifyClock, SendCommand, Aborted, ClientTypeOK, PinInv, Trusting
        <3> QED
            BY <1>6, <3>1, <3>2 DEF VerifyClock, SendCommand, Aborted, ClientTypeOK
    <2>2. PinInv'
        <3>1. /\ run[r].at \notin {"command", "verify"} => run'[r].at = "failed"
              /\ run'[r].at \in {"command", "success", "failed"} /\ run'[r].host = run[r].host
              /\ \A q \in Runs \ {r} : run'[q] = run[q]
            BY <1>6 DEF VerifyClock, SendCommand, Aborted, Fail, Goto, ClientTypeOK, RunStates
        <3>2. /\ pin' = pin
              /\ \A q \in Runs : reached'[q] = reached[q] \/ reached'[q] = reached[q] \cup {pin}
            BY <1>6 DEF VerifyClock, SendCommand, Aborted, ClientTypeOK, PinInv, Trusting
        <3> QED
            BY <3>1, <3>2 DEF PinInv, Trusting
    <2>3. ClockInv'
        BY <1>6
        DEF VerifyClock, ExecStatus, SendCommand, Aborted, Fail, Goto, ClientTypeOK, RunStates, ClockInv
    <2> QED
        BY <2>1, <2>2, <2>3
<1>7. ASSUME NEW h \in Hosts, Reboot(h)
      PROVE  ClientInv'
    <2>1. ClientTypeOK'
        BY <1>7, CutOffKeeps DEF Reboot, ClientTypeOK
    <2>2. PinInv'
        BY <1>7, CutOffKeeps DEF Reboot, PinInv
    <2>3. ClockInv'
        BY <1>7, CutOffKeeps DEF Reboot, ConnectedTo, ClockInv
    <2> QED
        BY <2>1, <2>2, <2>3
<1>8. CASE UNCHANGED clientVars
    BY <1>8 DEF clientVars, ClientTypeOK, PinInv, ClockInv
<1> QED
    BY <1>1, <1>2, <1>3, <1>4, <1>5, <1>6, <1>7, <1>8 DEF ClientNext

\* What is true of the runs, the pin file and the clocks at every moment.
THEOREM ClientInvariant == ClientSpec => []ClientInv
BY ClientInitInv, ClientInductive, PTL DEF ClientSpec

\* Every command, the seed included, went to the host that the pin file names,
\* whichever of any number of racing runs created the file and whoever answered
\* their dials (dialPinned, dialTOFU).
THEOREM ClientCommandsOnlyToPinned == ClientSpec => []CommandsOnlyToPinned
<1>1. ClientInv => CommandsOnlyToPinned
    BY DEF ClientInv, PinInv, CommandsOnlyToPinned
<1> QED
    BY <1>1, ClientInvariant, PTL

\* A pin that names a host is never replaced or removed by any run.
THEOREM ClientPinIsForGood == ClientSpec => PinIsForGood
<1>1. ClientInv /\ [ClientNext]_clientVars => [(pin \in Hosts) => pin' = pin]_clientVars
    BY ClientAssumption
    DEF ClientInv, PinInv, ClientNext, clientVars, DialPinned, DialTOFU, CreatePin, WritePin,
        SetTime, SetTimeLost, VerifyClock, SendCommand, Aborted, Reboot
<1> QED
    BY <1>1, ClientInvariant, PTL DEF ClientSpec, PinIsForGood

\* A run that set out to set the clock reports success only while the clock of its
\* host is right, through settimes that never arrived, replies that were lost and
\* reboots between any two steps (verifyClock).
THEOREM ClientProvisionedHasClock == ClientSpec => ProvisionedHasClock
<1>1. ASSUME ClientInv, [ClientNext]_clientVars, NEW r \in Runs,
             run[r].setTime, run[r].at # "success", run'[r].at = "success"
      PROVE  run[r].host \in clock'
    <2>1. ASSUME NEW q \in Runs, NEW h \in Hosts, DialPinned(q, h) \/ DialTOFU(q, h)
          PROVE  run'[r].at # "success"
        BY <1>1, <2>1 DEF ClientInv, ClientTypeOK, RunStates, DialPinned, DialTOFU, Fail, Goto,
            Connected
    <2>2. ASSUME NEW q \in Runs, CreatePin(q) \/ WritePin(q) \/ VerifyClock(q) \/ Aborted(q)
          PROVE  run'[r].at # "success"
        BY <1>1, <2>2 DEF ClientInv, ClientTypeOK, RunStates, CreatePin, WritePin, VerifyClock,
            Aborted, Fail, Goto, Connected
    <2>3. ASSUME NEW q \in Runs, SetTime(q) \/ SetTimeLost(q)
          PROVE  run'[r].at # "success"
        BY <1>1, <2>3, CutOffKeeps, DialAgainRuns
        DEF ClientInv, ClientTypeOK, SetTime, SetTimeLost
    <2>4. ASSUME NEW h \in Hosts, Reboot(h)
          PROVE  run'[r].at # "success"
        BY <1>1, <2>4, CutOffKeeps DEF ClientInv, Reboot
    <2>5. ASSUME NEW q \in Runs, SendCommand(q)
          PROVE  run[r].host \in clock'
        <3>1. q = r
            BY <1>1, <2>5 DEF ClientInv, ClientTypeOK, RunStates, SendCommand, Fail, Goto
        <3> QED
            BY <1>1, <2>5, <3>1 DEF ClientInv, ClockInv, SendCommand
    <2>6. CASE UNCHANGED clientVars
        BY <1>1, <2>6 DEF clientVars
    <2> QED
        BY <1>1, <2>1, <2>2, <2>3, <2>4, <2>5, <2>6 DEF ClientNext
<1>2. ClientInv /\ [ClientNext]_clientVars =>
          [\A r \in Runs : run[r].setTime /\ run[r].at # "success" /\ run'[r].at = "success"
                           => run[r].host \in clock']_clientVars
    BY <1>1
<1> QED
    BY <1>2, ClientInvariant, PTL DEF ClientSpec, ProvisionedHasClock
=============================================================================
