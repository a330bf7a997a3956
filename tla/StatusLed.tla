----------------------------- MODULE StatusLed -----------------------------
(***************************************************************************)
(* statusLED and cosignLED of fw/vitrum/main.go: what the two LEDs of a    *)
(* unit show of the witness.  Time is counted in units of 25 ms, a tick of *)
(* the loop is two of them, and pulses come between ticks.                 *)
(***************************************************************************)
EXTENDS Integers

VARIABLES
    led,           \* the local variables of statusLED
    time,          \* when the last tick was
    witness,       \* what Halted and Provisioned answered then
    haltSeen,      \* history: the first tick that saw the halt
    lastPulse,     \* history: when the last pulse came
    blueChanged    \* history: the last tick that switched blue

ledVars == <<led, time, witness, haltSeen, lastPulse, blueChanged>>

PulseTime == 4     \* 100 ms
HaltTime == 6      \* 150 ms
BlueTime == 20     \* 500 ms

LedOff ==
    [blue |-> FALSE, white |-> FALSE, halted |-> FALSE, haltOn |-> FALSE,
     lastBlueToggle |-> 0, lastHaltToggle |-> 0, whiteUntil |-> 0]

\* A pulse is taken from cosignPulse, whose one place cosignLED fills on a POST
\* that was answered 200 unless it is taken.
CosignPulse(l, now) == [l EXCEPT !.whiteUntil = now + PulseTime]

ShowHalt(l, now) ==
    LET toggles == l.halted /\ now - l.lastHaltToggle >= HaltTime
        on == IF toggles THEN ~l.haltOn ELSE ~l.halted \/ l.haltOn
    IN  [l EXCEPT !.halted = TRUE, !.haltOn = on, !.blue = on, !.white = on,
                  !.lastHaltToggle = IF toggles \/ ~l.halted THEN now ELSE @]

ShowWitness(l, now, provisioned) ==
    LET toggles == ~provisioned /\ now - l.lastBlueToggle >= BlueTime
    IN  [l EXCEPT !.blue = provisioned \/ (IF toggles THEN ~@ ELSE @),
                  !.white = now < l.whiteUntil,
                  !.lastBlueToggle = IF toggles THEN now ELSE @]

\* Mutation: the loop goes on to the other indications.
TickFallsThrough(l, now, halted, provisioned) ==
    IF halted THEN ShowWitness(ShowHalt(l, now), now, provisioned)
    ELSE ShowWitness(l, now, provisioned)

Tick(l, now, halted, provisioned) ==
    IF halted THEN ShowHalt(l, now) ELSE ShowWitness(l, now, provisioned)

LedInit ==
    /\ led = LedOff
    /\ time = 0
    /\ witness = [halted |-> FALSE, provisioned |-> FALSE]
    /\ haltSeen = 0 /\ blueChanged = 0
    /\ lastPulse = -PulseTime

\* A pulse between two ticks.
PulseStep ==
    /\ led' = CosignPulse(led, time + 1)
    /\ lastPulse' = time + 1
    /\ UNCHANGED <<time, witness, haltSeen, blueChanged>>

\* A tick.  A store that halted stays so until the next boot.
TickStep(halted, provisioned) ==
    /\ witness.halted => halted
    /\ time' = time + 2
    /\ witness' = [halted |-> halted, provisioned |-> provisioned]
    /\ led' = Tick(led, time', halted, provisioned)
    /\ haltSeen' = IF halted /\ ~witness.halted THEN time' ELSE haltSeen
    /\ blueChanged' = IF led'.blue # led.blue THEN time' ELSE blueChanged
    /\ UNCHANGED lastPulse

LedNext == PulseStep \/ \E halted, provisioned \in BOOLEAN : TickStep(halted, provisioned)

LedSpec == LedInit /\ [][LedNext]_ledVars

-----------------------------------------------------------------------------
(* Properties *)

\* The LEDs tell the states of a unit apart.  Once it is halted both blink together
\* from the first tick that saw it, changing every 150 ms, whatever else happens
\* ("Halt takes precedence over all other indications").  Before, white is on for
\* the two ticks after a cosignature and at no other time, and blue is on while the
\* unit is provisioned and was switched within the last 500 ms while it is not.
LedsTellState ==
    /\ witness.halted =>
          /\ led.blue = led.white
          /\ led.blue <=> ((time - haltSeen) \div HaltTime) % 2 = 0
    /\ ~witness.halted =>
          /\ lastPulse < time => (led.white <=> time - lastPulse < PulseTime)
          /\ witness.provisioned => led.blue
          /\ ~witness.provisioned /\ time >= BlueTime => time - blueChanged < BlueTime
=============================================================================
