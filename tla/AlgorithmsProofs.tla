-------------------------- MODULE AlgorithmsProofs --------------------------
(***************************************************************************)
(* Theorems about the log ring, the status LEDs, the blob codec and the    *)
(* card under it, the scripted clients and the request format, for rings,  *)
(* runs and state maps of any size, any tree heads and any device.         *)
(***************************************************************************)
EXTENDS StateCard, WireFormat, LogRing, StatusLed, Scripts, SequenceTheorems, FiniteSetTheorems,
        WellFoundedInduction, TLAPS

\* Induction, in the form the provers can use: a non-empty set of numbers has a least one.
LEMMA LeastNumber ==
    ASSUME NEW T, T \subseteq Nat, T # {}
    PROVE  \E m \in T : \A n \in T : m <= n
<1>1. PICK m \in T : \A n \in T : ~(<<n, m>> \in OpToRel(<, Nat))
    BY WFMin, NatLessThanWellFounded, Zenon
<1>2. \A n \in T : ~(n < m)
    BY <1>1, Zenon DEF OpToRel
<1> QED
    BY <1>2

\* And so what holds of 0, and of n + 1 when it holds of n, holds of every number.
LEMMA Numbers ==
    ASSUME NEW T, 0 \in T, \A n \in Nat : n \in T => n + 1 \in T
    PROVE  \A n \in Nat : n \in T
<1> SUFFICES ASSUME NEW k \in Nat, k \notin T PROVE FALSE
    OBVIOUS
<1> DEFINE U == {n \in Nat : n \notin T}
<1>1. U \subseteq Nat /\ U # {}
    BY Zenon
<1> HIDE DEF U
<1>2. PICK m \in U : \A n \in U : m <= n
    BY <1>1, LeastNumber
<1>3. m \in Nat /\ m \notin T
    BY DEF U
<1>4. m # 0 /\ m - 1 \in Nat /\ (m - 1) + 1 = m
    BY <1>3
<1>5. m - 1 \in T
    <2> SUFFICES ASSUME m - 1 \notin T PROVE FALSE
        OBVIOUS
    <2>1. m - 1 \in U
        BY <1>4 DEF U
    <2>2. m <= m - 1
        BY <1>2, <2>1
    <2> QED
        BY <1>3, <2>2
<1> QED
    BY <1>3, <1>4, <1>5

\* A stretch of a sequence.
LEMMA Stretch ==
    ASSUME NEW S, NEW s \in Seq(S), NEW from \in Nat \ {0}, NEW n \in Nat, NEW to \in Nat,
           to = from + n - 1, to <= Len(s)
    PROVE  /\ SubSeq(s, from, to) \in Seq(S) /\ Len(SubSeq(s, from, to)) = n
           /\ \A i \in 1..n : SubSeq(s, from, to)[i] = s[from + i - 1]
<1>1. from \in Int /\ to \in Int /\ \A i \in from..to : s[i] \in S
    OBVIOUS
<1>2. (IF from <= to THEN to - from + 1 ELSE 0) = n /\ to - from + 1 = n
    OBVIOUS
<1> QED
    BY <1>1, <1>2, SubSeqProperties

-----------------------------------------------------------------------------
(* The log ring *)

\* Each of the newest lines is in its place: line i lives at i % logRingLines.
RingInv ==
    /\ logged \in Seq(Messages)
    /\ ring.n = Len(logged)
    /\ DOMAIN ring.lines = 0..(LogRingLines - 1)
    /\ ring = [lines |-> ring.lines, n |-> ring.n]
    /\ \A i \in 1..Len(logged) :
          i > Len(logged) - LogRingLines => ring.lines[(i - 1) % LogRingLines] = logged[i]

\* Two lines less than a round apart have different places.
LEMMA PlacesApart ==
    ASSUME NEW a \in Nat, NEW b \in Nat, a < b, b < a + LogRingLines
    PROVE  a % LogRingLines # b % LogRingLines
<1> DEFINE m == LogRingLines
<1>1. m \in Nat /\ m > 0
    BY LogRingLinesAssumption
<1> HIDE DEF m
<1>2. PICK p \in Int, q \in Int : a = p * m + (a % m) /\ b = q * m + (b % m)
    <2>1. /\ a = (a \div m) * m + (a % m) /\ a \div m \in Int
          /\ b = (b \div m) * m + (b % m) /\ b \div m \in Int
        BY <1>1
    <2> QED
        BY <2>1
<1> SUFFICES ASSUME a % m = b % m PROVE FALSE
    BY DEF m
<1>3. b - a = (q - p) * m
    BY <1>1, <1>2
<1>4. q - p < 1
    BY <1>1, <1>3 DEF m
<1>5. q - p > 0
    BY <1>1, <1>3
<1> QED
    BY <1>4, <1>5

\* Write puts a line where the oldest one was, and the others stay.
LEMMA WriteKeepsNewest ==
    ASSUME RingInv, NEW line \in Messages, Log(line)
    PROVE  RingInv'
<1> DEFINE n == Len(logged)
           m == LogRingLines
<1>1. m \in Nat /\ m > 0 /\ n \in Nat
    BY LogRingLinesAssumption DEF RingInv
<1>2. /\ logged' = Append(logged, line) /\ logged' \in Seq(Messages) /\ Len(logged') = n + 1
      /\ logged'[n + 1] = line /\ \A i \in 1..n : logged'[i] = logged[i]
    BY DEF Log, RingInv
<1>3. /\ ring' = [lines |-> [ring.lines EXCEPT ![n % m] = line], n |-> n + 1]
      /\ ring'.lines = [ring.lines EXCEPT ![n % m] = line] /\ ring'.n = n + 1
      /\ DOMAIN ring'.lines = 0..(m - 1)
    BY DEF Log, Write, RingInv
<1>4. ASSUME NEW k \in Nat
      PROVE  k % m \in 0..(m - 1)
    BY <1>1
<1>5. ASSUME NEW i \in 1..(n + 1), i > n + 1 - m
      PROVE  ring'.lines[(i - 1) % m] = logged'[i]
    <2>1. CASE i = n + 1
        BY <1>1, <1>2, <1>3, <1>4, <2>1 DEF RingInv
    <2>2. CASE i # n + 1
        <3>1. i \in 1..n /\ i > n - m /\ i - 1 \in Nat /\ i - 1 < n /\ n < i - 1 + m
            BY <1>1, <1>5, <2>2
        <3>2. (i - 1) % m # n % m
            BY <1>1, <3>1, PlacesApart
        <3>3. ring'.lines[(i - 1) % m] = ring.lines[(i - 1) % m]
            BY <1>3, <1>4, <3>1, <3>2 DEF RingInv
        <3> QED
            BY <1>2, <3>1, <3>3 DEF RingInv
    <2> QED
        BY <2>1, <2>2
<1>6. ring' = [lines |-> ring'.lines, n |-> ring'.n]
    BY <1>3
<1>7. \A i \in 1..Len(logged') :
          i > Len(logged') - LogRingLines => ring'.lines[(i - 1) % LogRingLines] = logged'[i]
    <2> SUFFICES ASSUME NEW i \in 1..Len(logged'), i > Len(logged') - LogRingLines
                 PROVE  ring'.lines[(i - 1) % LogRingLines] = logged'[i]
        OBVIOUS
    <2>1. i \in 1..(n + 1) /\ i > n + 1 - m
        BY <1>1, <1>2
    <2> QED
        BY <1>5, <2>1
<1> QED
    BY <1>2, <1>3, <1>6, <1>7 DEF RingInv

\* ServeHTTP reads the newest lines from their places.
LEMMA ServesNewest == RingInv => LogzShowsNewest
<1> SUFFICES ASSUME RingInv PROVE LogzShowsNewest  OBVIOUS
<1> DEFINE n == Len(logged)
           m == LogRingLines
           first == IF n > m THEN n - m + 1 ELSE 1
<1>1. m \in Nat /\ m > 0 /\ n \in Nat /\ logged \in Seq(Messages) /\ ring.n = n
    BY LogRingLinesAssumption DEF RingInv
<1>2. Start(n) = first - 1 /\ first \in Nat /\ first >= 1 /\ first <= n + 1 /\ first > n - m
    BY <1>1 DEF Start
<1>3. ServeHTTP(ring) = [i \in 1..(n - (first - 1)) |-> ring.lines[((first - 1) + i - 1) % m]]
    BY <1>1, <1>2 DEF ServeHTTP
<1>4. SubSeq(logged, first, n) = [i \in 1..(n - first + 1) |-> logged[i + first - 1]]
    <2>1. /\ SubSeq(logged, first, n) \in Seq(Messages)
          /\ Len(SubSeq(logged, first, n)) = n - first + 1
          /\ \A i \in 1..(n - first + 1) : SubSeq(logged, first, n)[i] = logged[first + i - 1]
        <3>1. first \in Int /\ n \in Int /\ \A i \in first..n : logged[i] \in Messages
            BY <1>1, <1>2
        <3> HIDE DEF first, n, m
        <3>2. (IF first <= n THEN n - first + 1 ELSE 0) = n - first + 1
            BY <1>1, <1>2
        <3> QED
            BY <3>1, <3>2, SubSeqProperties
    <2>2. \A i \in 1..(n - first + 1) : first + i - 1 = i + first - 1
        BY <1>1, <1>2
    <2> HIDE DEF first, n, m
    <2> QED
        BY <2>1, <2>2
<1>5. ASSUME NEW i \in 1..(n - first + 1)
      PROVE  ring.lines[((first - 1) + i - 1) % m] = logged[i + first - 1]
    <2>1. i + first - 1 \in 1..n /\ i + first - 1 > n - m /\ (i + first - 1) - 1 = (first - 1) + i - 1
        BY <1>1, <1>2
    <2> QED
        BY <2>1 DEF RingInv
<1>6. n - (first - 1) = n - first + 1
    BY <1>1, <1>2
<1> HIDE DEF n, m, first
<1>7. ServeHTTP(ring) = SubSeq(logged, first, n)
    BY <1>3, <1>4, <1>5, <1>6
<1> QED
    BY <1>7 DEF LogzShowsNewest, n, m, first

\* The newest lines are in their places, however many were logged.
THEOREM RingInvariant == RingSpec => []RingInv
<1>1. RingInit => RingInv
    BY LogRingLinesAssumption DEF RingInit, RingInv, EmptyRing
<1>2. RingInv /\ [RingNext]_ringVars => RingInv'
    BY WriteKeepsNewest DEF RingNext, ringVars, RingInv
<1> QED
    BY <1>1, <1>2, PTL DEF RingSpec

\* /logz shows the newest lines in order and no others, for a ring of any size and
\* any number of lines (Write and ServeHTTP of logRing).
THEOREM RingShowsNewest == RingSpec => []LogzShowsNewest
BY RingInvariant, ServesNewest, PTL

-----------------------------------------------------------------------------
(* The LEDs *)

Leds ==
    [blue: BOOLEAN, white: BOOLEAN, halted: BOOLEAN, haltOn: BOOLEAN,
     lastBlueToggle: Nat, lastHaltToggle: Nat, whiteUntil: Nat]

LedTypeOK ==
    /\ led \in Leds
    /\ witness \in [halted: BOOLEAN, provisioned: BOOLEAN]
    /\ time \in Nat /\ haltSeen \in Nat /\ blueChanged \in Nat
    /\ lastPulse \in Int

\* Ticks come at even times and pulses at odd ones.  While it blinks, a halt toggled
\* last at the last multiple of 150 ms since it was seen; blue is never left longer
\* than 500 ms at an unprovisioned tick, and its own toggles switch it.
LedInv ==
    /\ LedTypeOK
    /\ time % 2 = 0
    /\ lastPulse <= time + 1
    /\ led.whiteUntil = lastPulse + PulseTime
    /\ led.halted = witness.halted
    /\ witness.halted =>
          /\ haltSeen <= time /\ haltSeen % 2 = 0
          /\ led.lastHaltToggle = haltSeen + HaltTime * ((time - haltSeen) \div HaltTime)
          /\ led.haltOn <=> ((time - haltSeen) \div HaltTime) % 2 = 0
    /\ led.lastBlueToggle <= time /\ led.lastBlueToggle % 2 = 0
    /\ led.lastBlueToggle # 0 => led.lastBlueToggle <= blueChanged
    /\ blueChanged <= time
    /\ ~witness.halted /\ ~witness.provisioned => time - led.lastBlueToggle < BlueTime
    /\ LedsTellState

\* A pulse prolongs white, from the next tick on.
LEMMA PulseKeepsInv == LedInv /\ PulseStep => LedInv'
<1> SUFFICES ASSUME LedInv, PulseStep PROVE LedInv'  OBVIOUS
<1>1. /\ led' = [led EXCEPT !.whiteUntil = time + 5] /\ lastPulse' = time + 1 /\ led \in Leds
      /\ UNCHANGED <<time, witness, haltSeen, blueChanged>> /\ time \in Nat
    BY DEF PulseStep, CosignPulse, PulseTime, LedInv, LedTypeOK
<1>2. /\ led' \in Leds /\ led'.whiteUntil = time + 5 /\ led'.blue = led.blue
      /\ led'.white = led.white /\ led'.halted = led.halted /\ led'.haltOn = led.haltOn
      /\ led'.lastBlueToggle = led.lastBlueToggle /\ led'.lastHaltToggle = led.lastHaltToggle
    BY <1>1 DEF Leds
<1> QED
    BY <1>1, <1>2 DEF LedInv, LedTypeOK, LedsTellState, PulseTime, HaltTime, BlueTime

\* What ShowHalt makes of l at time t: both LEDs show haltOn.
HaltResult(r, l, t) ==
    /\ r \in Leds /\ r.halted /\ (r.blue <=> r.haltOn) /\ (r.white <=> r.haltOn)
    /\ r.whiteUntil = l.whiteUntil /\ r.lastBlueToggle = l.lastBlueToggle
    /\ ~l.halted => r.haltOn /\ r.lastHaltToggle = t
    /\ l.halted /\ t - l.lastHaltToggle >= 6 => (r.haltOn <=> ~l.haltOn) /\ r.lastHaltToggle = t
    /\ l.halted /\ ~(t - l.lastHaltToggle >= 6) =>
          (r.haltOn <=> l.haltOn) /\ r.lastHaltToggle = l.lastHaltToggle

\* ShowHalt does that.
LEMMA HaltShown ==
    ASSUME NEW l \in Leds, NEW t \in Nat
    PROVE  HaltResult(ShowHalt(l, t), l, t)
<1> DEFINE r == ShowHalt(l, t)  toggles == l.halted /\ t - l.lastHaltToggle >= 6
           on == IF toggles THEN ~l.haltOn ELSE ~l.halted \/ l.haltOn
           last == IF toggles \/ ~l.halted THEN t ELSE l.lastHaltToggle
<1>1. r = [l EXCEPT !.halted = TRUE, !.haltOn = on, !.blue = on, !.white = on,
                    !.lastHaltToggle = last]
    BY DEF ShowHalt, HaltTime
<1>2. on \in BOOLEAN
    OBVIOUS
<1>3. last \in Nat
    BY DEF Leds
<1> HIDE DEF on, last, r
<1>4. /\ r \in Leds /\ r.halted = TRUE /\ r.blue = on /\ r.white = on /\ r.haltOn = on
      /\ r.lastHaltToggle = last
      /\ r.whiteUntil = l.whiteUntil /\ r.lastBlueToggle = l.lastBlueToggle
    BY <1>1, <1>2, <1>3 DEF Leds
<1> QED
    BY <1>4, Zenon DEF HaltResult, on, last, r

\* The first tick that sees a halt starts the blinking, the others go on with it.
LEMMA HaltTickKeepsInv ==
    ASSUME LedInv, NEW provisioned \in BOOLEAN, TickStep(TRUE, provisioned)
    PROVE  LedInv'
<1> DEFINE d == time - haltSeen
           e == time' - haltSeen'
<1>1. /\ LedTypeOK /\ time' = time + 2 /\ witness' = [halted |-> TRUE, provisioned |-> provisioned]
      /\ led' = ShowHalt(led, time + 2) /\ lastPulse' = lastPulse
      /\ haltSeen' = IF witness.halted THEN haltSeen ELSE time + 2
      /\ blueChanged' = IF led'.blue # led.blue THEN time + 2 ELSE blueChanged
      /\ led.halted = witness.halted
    BY DEF LedInv, LedTypeOK, TickStep, Tick
<1>2. HaltResult(led', led, time + 2)
    <2>1. led \in Leds /\ time + 2 \in Nat
        BY <1>1 DEF LedTypeOK
    <2> QED
        BY <1>1, <2>1, HaltShown
<1>3. /\ haltSeen' \in Nat /\ haltSeen' <= time' /\ haltSeen' % 2 = 0
      /\ led'.lastHaltToggle = haltSeen' + 6 * (e \div 6)
      /\ led'.haltOn <=> (e \div 6) % 2 = 0
    <2>1. CASE ~witness.halted
        <3>1. haltSeen' = time + 2 /\ e = 0 /\ (time + 2) % 2 = 0 /\ time + 2 \in Nat
            BY <1>1, <2>1 DEF LedInv, LedTypeOK
        <3>2. led'.lastHaltToggle = time + 2 /\ led'.haltOn
            BY <1>1, <1>2, <2>1 DEF HaltResult
        <3> QED
            BY <1>1, <3>1, <3>2
    <2>2. CASE witness.halted
        <3>0. led.halted
            BY <1>1, <2>2
        <3>1. haltSeen' = haltSeen /\ d \in Nat /\ d % 2 = 0 /\ e = d + 2
              /\ haltSeen \in Nat /\ time \in Nat /\ haltSeen <= time /\ haltSeen % 2 = 0
            BY <1>1, <2>2 DEF LedInv, LedTypeOK
        <3>2. /\ led.lastHaltToggle = haltSeen + 6 * (d \div 6)
              /\ led.haltOn <=> (d \div 6) % 2 = 0
            BY <2>2 DEF LedInv, HaltTime
        <3>3. CASE (time + 2) - led.lastHaltToggle >= 6
            <4>1. /\ e \div 6 = (d \div 6) + 1 /\ time + 2 = haltSeen + 6 * (e \div 6)
                  /\ (d \div 6) % 2 = 0 <=> ~((e \div 6) % 2 = 0)
                BY <3>1, <3>2, <3>3
            <4>2. led'.lastHaltToggle = time + 2
                BY <1>2, <3>0, <3>3 DEF HaltResult
            <4>3. led'.haltOn <=> ~led.haltOn
                BY <1>2, <3>0, <3>3 DEF HaltResult
            <4> QED
                BY <1>1, <3>1, <3>2, <4>1, <4>2, <4>3
        <3>4. CASE ~((time + 2) - led.lastHaltToggle >= 6)
            <4>1. e \div 6 = d \div 6
                BY <3>1, <3>2, <3>4
            <4>2. led'.lastHaltToggle = led.lastHaltToggle
                BY <1>2, <3>0, <3>4 DEF HaltResult
            <4>3. led'.haltOn <=> led.haltOn
                BY <1>2, <3>0, <3>4 DEF HaltResult
            <4> QED
                BY <1>1, <3>1, <3>2, <4>1, <4>2, <4>3
        <3> QED
            BY <3>3, <3>4
    <2> QED
        BY <2>1, <2>2
<1>4. LedTypeOK'
    BY <1>1, <1>2, <1>3 DEF HaltResult, LedTypeOK
<1>5. /\ led'.lastBlueToggle <= time' /\ led'.lastBlueToggle % 2 = 0
      /\ led'.lastBlueToggle # 0 => led'.lastBlueToggle <= blueChanged'
      /\ blueChanged' <= time' /\ time' % 2 = 0
      /\ lastPulse' <= time' + 1 /\ led'.whiteUntil = lastPulse' + PulseTime
    BY <1>1, <1>2 DEF HaltResult, LedInv, LedTypeOK, Leds
<1>6. witness'.halted = TRUE /\ led'.halted = TRUE /\ led'.blue = led'.white
    <2>1. led'.blue \in BOOLEAN /\ led'.white \in BOOLEAN /\ led'.halted \in BOOLEAN
        BY <1>2 DEF HaltResult, Leds
    <2>2. (led'.blue <=> led'.white) /\ led'.halted
        BY <1>2 DEF HaltResult
    <2> QED
        BY <1>1, <2>1, <2>2
<1>7. led'.blue <=> (e \div 6) % 2 = 0
    BY <1>2, <1>3 DEF HaltResult
<1> QED
    BY <1>3, <1>4, <1>5, <1>6, <1>7 DEF LedInv, LedsTellState, HaltTime

\* What ShowWitness makes of l at time t: blue blinks unless provisioned.
WitnessResult(r, l, t, provisioned) ==
    LET toggles == ~provisioned /\ t - l.lastBlueToggle >= 20
    IN  /\ r \in Leds /\ (r.white <=> t < l.whiteUntil)
        /\ r.whiteUntil = l.whiteUntil /\ r.halted = l.halted
        /\ r.lastBlueToggle = IF toggles THEN t ELSE l.lastBlueToggle
        /\ provisioned => r.blue
        /\ toggles => r.blue # l.blue

\* ShowWitness does that.
LEMMA WitnessShown ==
    ASSUME NEW l \in Leds, NEW t \in Nat, NEW provisioned \in BOOLEAN
    PROVE  WitnessResult(ShowWitness(l, t, provisioned), l, t, provisioned)
<1> DEFINE r == ShowWitness(l, t, provisioned)
           toggles == ~provisioned /\ t - l.lastBlueToggle >= 20
           blue == provisioned \/ (IF toggles THEN ~l.blue ELSE l.blue)
           white == t < l.whiteUntil
           last == IF toggles THEN t ELSE l.lastBlueToggle
<1>1. r = [l EXCEPT !.blue = blue, !.white = white, !.lastBlueToggle = last]
    BY DEF ShowWitness, BlueTime
<1>2. blue \in BOOLEAN /\ white \in BOOLEAN /\ l.blue \in BOOLEAN
    BY DEF Leds
<1>3. last \in Nat
    BY DEF Leds
<1>4. (provisioned => blue) /\ (toggles => blue # l.blue)
    BY <1>2
<1> HIDE DEF blue, white, last, r
<1>5. /\ r \in Leds /\ r.blue = blue /\ r.white = white /\ r.lastBlueToggle = last
      /\ r.whiteUntil = l.whiteUntil /\ r.halted = l.halted
    BY <1>1, <1>2, <1>3 DEF Leds
<1> QED
    BY <1>4, <1>5, Zenon DEF WitnessResult, white, last, r

\* A tick of a unit that is not halted.
LEMMA WitnessTickKeepsInv ==
    ASSUME LedInv, NEW provisioned \in BOOLEAN, TickStep(FALSE, provisioned)
    PROVE  LedInv'
<1>1. /\ LedTypeOK /\ time' = time + 2 /\ witness' = [halted |-> FALSE, provisioned |-> provisioned]
      /\ led' = ShowWitness(led, time + 2, provisioned)
      /\ UNCHANGED <<lastPulse, haltSeen>>
      /\ blueChanged' = IF led'.blue # led.blue THEN time + 2 ELSE blueChanged
      /\ ~witness.halted /\ led.halted = FALSE
    BY DEF LedInv, LedTypeOK, TickStep, Tick
<1>2. WitnessResult(led', led, time + 2, provisioned)
    <2>1. led \in Leds /\ time + 2 \in Nat
        BY <1>1 DEF LedTypeOK
    <2> QED
        BY <1>1, <2>1, WitnessShown
<1>3. LedTypeOK'
    BY <1>1, <1>2 DEF WitnessResult, LedTypeOK
<1>4. /\ led'.lastBlueToggle <= time' /\ led'.lastBlueToggle % 2 = 0
      /\ led'.lastBlueToggle # 0 => led'.lastBlueToggle <= blueChanged'
      /\ blueChanged' <= time' /\ time' % 2 = 0
      /\ ~provisioned => time' - led'.lastBlueToggle < BlueTime
    BY <1>1, <1>2 DEF WitnessResult, LedInv, LedTypeOK, Leds, BlueTime
<1>5. /\ lastPulse' <= time' + 1 /\ led'.whiteUntil = lastPulse' + PulseTime
      /\ lastPulse' < time' => (led'.white <=> time' - lastPulse' < PulseTime)
    BY <1>1, <1>2 DEF WitnessResult, LedInv, LedTypeOK, PulseTime
<1>6. ~provisioned /\ time' >= BlueTime => time' - blueChanged' < BlueTime
    BY <1>1, <1>2, <1>3, <1>4 DEF WitnessResult, LedTypeOK, Leds, BlueTime
<1>7. witness'.halted = FALSE /\ witness'.provisioned = provisioned
    BY <1>1
<1>8. led'.halted = FALSE /\ (provisioned => led'.blue)
    BY <1>1, <1>2 DEF WitnessResult
<1> QED
    BY <1>3, <1>4, <1>5, <1>6, <1>7, <1>8 DEF LedInv, LedsTellState

\* The LEDs show the state of the witness at every tick.
THEOREM LedInvariant == LedSpec => []LedInv
<1>1. LedInit => LedInv
    BY DEF LedInit, LedOff, Leds, LedInv, LedTypeOK, LedsTellState, PulseTime, HaltTime, BlueTime
<1>2. LedInv /\ [LedNext]_ledVars => LedInv'
    <2>1. LedInv /\ UNCHANGED ledVars => LedInv'
        BY DEF LedInv, LedTypeOK, LedsTellState, ledVars
    <2> QED
        BY <2>1, PulseKeepsInv, HaltTickKeepsInv, WitnessTickKeepsInv DEF LedNext
<1> QED
    BY <1>1, <1>2, PTL DEF LedSpec

\* Halted, provisioned and unprovisioned units look different, and a cosignature shows
\* for two ticks, however long the unit runs (statusLED).
THEOREM LedShowsState == LedSpec => []LedsTellState
<1>1. LedInv => LedsTellState
    BY DEF LedInv
<1> QED
    BY <1>1, LedInvariant, PTL

-----------------------------------------------------------------------------
(* The numbers of the slot format *)

\* The powers of the base are what their recursion says.
LEMMA PowDefined == Pow = [n \in Nat |-> IF n = 0 THEN 1 ELSE Base * Pow[n - 1]]
<1> DEFINE Good(f, k) == f = [n \in 0..k |-> IF n = 0 THEN 1 ELSE Base * f[n - 1]]
           T == {k \in Nat : \E f : Good(f, k)}
<1>1. 0 \in T
    <2>1. Good([n \in 0..0 |-> 1], 0)
        OBVIOUS
    <2> QED
        BY <2>1, Zenon
<1>2. ASSUME NEW k \in Nat, k \in T PROVE k + 1 \in T
    <2>1. PICK f : Good(f, k)
        BY <1>2
    <2> DEFINE g == [n \in 0..(k + 1) |-> IF n <= k THEN f[n] ELSE Base * f[k]]
    <2>2. Good(g, k + 1)
        <3>1. ASSUME NEW n \in 0..(k + 1) PROVE g[n] = IF n = 0 THEN 1 ELSE Base * g[n - 1]
            BY <2>1
        <3> QED
            BY <3>1
    <2>3. k + 1 \in Nat
        OBVIOUS
    <2> HIDE DEF g, Good
    <2> QED
        BY <2>2, <2>3, Zenon
<1>3. \A k \in Nat : k \in T
    <2> HIDE DEF T
    <2> QED
        BY <1>1, <1>2, Numbers
<1> DEFINE F == [k \in Nat |-> CHOOSE f : Good(f, k)]
           P == [n \in Nat |-> F[n][n]]
<1>4. \A k \in Nat : Good(F[k], k)
    <2> HIDE DEF Good
    <2> QED
        BY <1>3, Zenon
<1>5. ASSUME NEW k \in Nat PROVE \A j \in 0..k : F[k + 1][j] = F[k][j]
    <2> DEFINE U == {j \in Nat : j <= k => F[k + 1][j] = F[k][j]}
    <2>0. k + 1 \in Nat
        OBVIOUS
    <2>1. /\ F[k] = [n \in 0..k |-> IF n = 0 THEN 1 ELSE Base * F[k][n - 1]]
          /\ F[k + 1] = [n \in 0..(k + 1) |-> IF n = 0 THEN 1 ELSE Base * F[k + 1][n - 1]]
        BY <1>4, <2>0, Zenon
    <2> HIDE DEF F
    <2>2. 0 \in U
        BY <2>1
    <2>3. ASSUME NEW j \in Nat, j \in U PROVE j + 1 \in U
        <3> SUFFICES ASSUME j + 1 <= k PROVE F[k + 1][j + 1] = F[k][j + 1]
            OBVIOUS
        <3>1. F[k + 1][j] = F[k][j]
            BY <2>3
        <3>2. F[k][j + 1] = Base * F[k][j] /\ F[k + 1][j + 1] = Base * F[k + 1][j]
            BY <2>1
        <3> QED
            BY <3>1, <3>2
    <2>4. \A j \in Nat : j \in U
        <3> HIDE DEF U
        <3> QED
            BY <2>2, <2>3, Numbers
    <2> QED
        BY <2>4
<1>6. P = [n \in Nat |-> IF n = 0 THEN 1 ELSE Base * P[n - 1]]
    <2>1. ASSUME NEW n \in Nat PROVE P[n] = IF n = 0 THEN 1 ELSE Base * P[n - 1]
        <3>1. F[n] = [m \in 0..n |-> IF m = 0 THEN 1 ELSE Base * F[n][m - 1]]
            BY <1>4, Zenon
        <3>2. P[n] = F[n][n]
            OBVIOUS
        <3>3. CASE n = 0
            <4> HIDE DEF F, P
            <4> QED
                BY <3>1, <3>2, <3>3
        <3>4. CASE n # 0
            <4>1. n - 1 \in Nat /\ (n - 1) + 1 = n /\ n - 1 \in 0..(n - 1)
                BY <3>4
            <4>2. F[(n - 1) + 1][n - 1] = F[n - 1][n - 1]
                BY <1>5, <4>1, Zenon
            <4>3. P[n - 1] = F[n - 1][n - 1]
                BY <4>1
            <4> HIDE DEF F, P
            <4>4. F[n][n] = Base * F[n][n - 1]
                BY <3>1, <3>4
            <4> QED
                BY <3>2, <3>4, <4>1, <4>2, <4>3, <4>4
        <3> QED
            BY <3>3, <3>4
    <2> HIDE DEF F
    <2>2. P = [n \in Nat |-> P[n]]
        BY DEF P
    <2> HIDE DEF P
    <2> QED
        BY <2>1, <2>2
<1> HIDE DEF P
<1> QED
    BY <1>6, Zenon DEF Pow

\* So they are positive, and each is the one before times the base.
LEMMA PowValues ==
    /\ Pow[0] = 1
    /\ \A n \in Nat : Pow[n] \in Nat /\ Pow[n] > 0 /\ Pow[n + 1] = Base * Pow[n]
<1>1. Base \in Nat /\ Base > 1
    BY WidthsAssumption
<1> DEFINE T == {n \in Nat : Pow[n] \in Nat /\ Pow[n] > 0}
<1>2. Pow[0] = 1
    BY PowDefined
<1>3. ASSUME NEW n \in Nat PROVE Pow[n + 1] = Base * Pow[n]
    <2>1. n + 1 \in Nat /\ n + 1 # 0 /\ (n + 1) - 1 = n
        OBVIOUS
    <2> QED
        BY <2>1, PowDefined
<1>4. ASSUME NEW n \in Nat, n \in T PROVE n + 1 \in T
    <2>1. Base * Pow[n] \in Nat /\ Base * Pow[n] > 0
        BY <1>1, <1>4
    <2> QED
        BY <1>3, <1>4, <2>1
<1>5. \A n \in Nat : n \in T
    <2>1. 0 \in T
        BY <1>2
    <2> HIDE DEF T
    <2> QED
        BY <1>4, <2>1, Numbers
<1> QED
    BY <1>2, <1>3, <1>5

\* Uint adds up the bytes, each with its weight.
LEMMA UintSums ==
    ASSUME NEW b, NEW w \in Nat
    PROVE  \E low : /\ low[0] = 0 /\ Uint(b, w) = low[w]
                    /\ \A n \in 1..w : low[n] = low[n - 1] + b[n] * Pow[n - 1]
<1> DEFINE Good(f, k) == f = [n \in 0..k |-> IF n = 0 THEN 0 ELSE f[n - 1] + b[n] * Pow[n - 1]]
           T == {k \in Nat : \E f : Good(f, k)}
<1>1. 0 \in T
    <2>1. Good([n \in 0..0 |-> 0], 0)
        OBVIOUS
    <2> QED
        BY <2>1, Zenon
<1>2. ASSUME NEW k \in Nat, k \in T PROVE k + 1 \in T
    <2>1. PICK f : Good(f, k)
        BY <1>2
    <2> DEFINE g == [n \in 0..(k + 1) |-> IF n <= k THEN f[n] ELSE f[k] + b[k + 1] * Pow[k]]
    <2>2. Good(g, k + 1)
        <3>1. ASSUME NEW n \in 0..(k + 1)
              PROVE  g[n] = IF n = 0 THEN 0 ELSE g[n - 1] + b[n] * Pow[n - 1]
            <4>1. CASE n <= k
                BY <2>1, <4>1
            <4>2. CASE n = k + 1
                <5>1. n - 1 = k /\ n # 0 /\ ~(n <= k) /\ k \in 0..(k + 1) /\ k <= k
                    BY <4>2
                <5> QED
                    BY <4>2, <5>1, Zenon
            <4> QED
                BY <4>1, <4>2
        <3> QED
            BY <3>1
    <2>3. k + 1 \in Nat
        OBVIOUS
    <2> HIDE DEF g, Good
    <2> QED
        BY <2>2, <2>3, Zenon
<1>3. w \in T
    <2> HIDE DEF T
    <2> QED
        BY <1>1, <1>2, Numbers
<1> DEFINE low == CHOOSE f : Good(f, w)
<1>4. Uint(b, w) = low[w]
    BY Zenon DEF Uint
<1>5. Good(low, w)
    <2> HIDE DEF Good
    <2> QED
        BY <1>3, Zenon
<1> HIDE DEF low
<1>6. /\ low[0] = 0
      /\ \A n \in 1..w : low[n] = low[n - 1] + b[n] * Pow[n - 1]
    BY <1>5
<1> QED
    BY <1>4, <1>6

\* A digit more: what v is modulo the next power.
LEMMA NextDigit ==
    ASSUME NEW v \in Nat, NEW a \in Nat, a > 0
    PROVE  /\ (v \div a) \in Nat
           /\ v % (Base * a) = (v % a) + ((v \div a) % Base) * a
<1> DEFINE q == v \div a
           r == v % a
           s == q \div Base
           t == q % Base
<1>0. Base \in Nat /\ Base > 1
    BY WidthsAssumption
<1>1. q \in Nat /\ r \in Nat /\ r < a /\ v = q * a + r
    OBVIOUS
<1> HIDE DEF q, r
<1>2. s \in Nat /\ t \in Nat /\ t < Base /\ q = s * Base + t
    BY <1>0, <1>1
<1> HIDE DEF s, t
<1> DEFINE m == Base * a
           u == r + t * a
<1>3. m \in Nat /\ m > 0 /\ u \in Nat
    BY <1>0, <1>1, <1>2
<1>4. u < m
    <2>1. t * a + a <= Base * a
        <3>1. t + 1 <= Base
            BY <1>0, <1>2
        <3>2. (t + 1) * a <= Base * a
            BY <1>0, <1>2, <3>1
        <3> QED
            BY <1>2, <3>2
    <2> DEFINE x == t * a
    <2>2. x \in Nat
        BY <1>2
    <2> HIDE DEF x
    <2>3. x + a <= m => r + x < m
        BY <1>1, <1>3, <2>2
    <2> QED
        BY <2>1, <2>3 DEF x
<1>5. v = s * m + u
    <2>1. q * a = (s * Base + t) * a
        BY <1>2
    <2>2. (s * Base + t) * a = s * (Base * a) + t * a
        <3>1. \A x, y \in Nat : (x + y) * a = x * a + y * a
            OBVIOUS
        <3>2. \A x, y \in Nat : (x * y) * a = x * (y * a)
            OBVIOUS
        <3>3. s * Base \in Nat
            BY <1>0, <1>2
        <3> QED
            BY <1>0, <1>2, <3>1, <3>2, <3>3, Zenon
    <2> QED
        BY <1>0, <1>1, <1>2, <2>1, <2>2
<1> HIDE DEF m, u
<1>6. (s * m + u) % m = u
    BY <1>2, <1>3, <1>4
<1>7. v % m = u
    BY <1>5, <1>6
<1> QED
    BY <1>1, <1>7, Zenon DEF m, u, q, r, t

\* A sum of bytes is below the power of its width.
LEMMA UintRange ==
    ASSUME NEW b, NEW w \in Nat, \A i \in 1..w : b[i] \in Bytes
    PROVE  Uint(b, w) \in Nat /\ Uint(b, w) < Pow[w]
<1>1. PICK low : /\ low[0] = 0 /\ Uint(b, w) = low[w]
                 /\ \A n \in 1..w : low[n] = low[n - 1] + b[n] * Pow[n - 1]
    BY UintSums
<1> DEFINE T == {n \in Nat : n <= w => low[n] \in Nat /\ low[n] < Pow[n]}
<1>2. 0 \in T
    BY <1>1, PowValues
<1>3. ASSUME NEW n \in Nat, n \in T PROVE n + 1 \in T
    <2> SUFFICES ASSUME n + 1 <= w PROVE low[n + 1] \in Nat /\ low[n + 1] < Pow[n + 1]
        OBVIOUS
    <2>1. n + 1 \in 1..w /\ (n + 1) - 1 = n
        OBVIOUS
    <2>2. low[n + 1] = low[n] + b[n + 1] * Pow[n]
        BY <1>1, <2>1
    <2> DEFINE l == low[n]
               c == b[n + 1]
               p == Pow[n]
    <2>3. l \in Nat /\ l < p /\ p \in Nat /\ c \in Nat /\ c <= Base - 1 /\ Base \in Nat /\ Base > 1
        BY <1>3, <2>1, PowValues, WidthsAssumption DEF Bytes
    <2>4. Pow[n + 1] = Base * p
        BY PowValues
    <2> HIDE DEF l, c, p
    <2>5. c * p <= (Base - 1) * p /\ c * p \in Nat
        BY <2>3
    <2>6. (Base - 1) * p = Base * p - p
        BY <2>3
    <2>7. l + c * p \in Nat /\ l + c * p < Base * p
        BY <2>3, <2>5, <2>6
    <2> QED
        BY <2>2, <2>4, <2>7 DEF l, c, p
<1>4. w \in T
    <2> HIDE DEF T
    <2> QED
        BY <1>2, <1>3, Numbers
<1> QED
    BY <1>1, <1>4

\* PutUint fills its width with bytes.
LEMMA PutUintBytes ==
    ASSUME NEW v \in Nat, NEW w \in Nat
    PROVE  PutUint(v, w) \in Seq(Bytes) /\ Len(PutUint(v, w)) = w
<1>1. ASSUME NEW i \in 1..w PROVE (v \div Pow[i - 1]) % Base \in Bytes
    <2> DEFINE a == Pow[i - 1]
    <2>1. a \in Nat /\ a > 0
        BY PowValues
    <2> HIDE DEF a
    <2>2. v \div a \in Nat
        BY <2>1
    <2> QED
        BY <2>1, <2>2, WidthsAssumption DEF Bytes, a
<1> QED
    BY <1>1 DEF PutUint

\* Reading what PutUint wrote gives the number back, if it fits the width.
LEMMA UintOfPut ==
    ASSUME NEW w \in Nat, NEW v \in Nat, v < Pow[w],
           NEW b, \A i \in 1..w : b[i] = PutUint(v, w)[i]
    PROVE  Uint(b, w) = v
<1>1. PICK low : /\ low[0] = 0 /\ Uint(b, w) = low[w]
                 /\ \A n \in 1..w : low[n] = low[n - 1] + b[n] * Pow[n - 1]
    BY UintSums
<1> DEFINE T == {n \in Nat : n <= w => low[n] = v % Pow[n]}
<1>2. 0 \in T
    BY <1>1, PowValues
<1>3. ASSUME NEW n \in Nat, n \in T PROVE n + 1 \in T
    <2> SUFFICES ASSUME n + 1 <= w PROVE low[n + 1] = v % Pow[n + 1]
        OBVIOUS
    <2>1. n + 1 \in 1..w /\ (n + 1) - 1 = n
        OBVIOUS
    <2>2. low[n + 1] = low[n] + b[n + 1] * Pow[n]
        BY <1>1, <2>1
    <2>3. b[n + 1] = (v \div Pow[n]) % Base
        BY <2>1 DEF PutUint
    <2>4. low[n] = v % Pow[n]
        BY <1>3
    <2>5. Pow[n] \in Nat /\ Pow[n] > 0 /\ Pow[n + 1] = Base * Pow[n]
        BY PowValues
    <2>6. v % (Base * Pow[n]) = (v % Pow[n]) + ((v \div Pow[n]) % Base) * Pow[n]
        BY <2>5, NextDigit
    <2> QED
        BY <2>2, <2>3, <2>4, <2>5, <2>6, Zenon
<1>4. w \in T
    <2> HIDE DEF T
    <2> QED
        BY <1>2, <1>3, Numbers
<1>5. v % Pow[w] = v
    <2>1. ASSUME NEW p \in Nat, v < p PROVE v % p = v
        BY <2>1
    <2> QED
        BY <2>1, PowValues
<1> QED
    BY <1>1, <1>4, <1>5

-----------------------------------------------------------------------------
(* encode and decode *)

\* The order of origins is total:
LEMMA BeforeTotal ==
    ASSUME NEW a \in Seq(Bytes), NEW b \in Seq(Bytes), a # b
    PROVE  Before(a, b) \/ Before(b, a)
<1> DEFINE D == {i \in Nat : i >= 1 /\ (i <= Len(a) \/ i <= Len(b))
                               /\ (i > Len(a) \/ i > Len(b) \/ a[i] # b[i])}
<1>1. D # {}
    <2> SUFFICES ASSUME D = {} PROVE FALSE
        OBVIOUS
    <2>0. Len(a) \in Nat /\ Len(b) \in Nat
        OBVIOUS
    <2>1. Len(a) = Len(b)
        <3>1. CASE Len(a) < Len(b)
            <4>1. Len(a) + 1 \in D
                BY <2>0, <3>1
            <4> QED
                BY <4>1
        <3>2. CASE Len(b) < Len(a)
            <4>1. Len(b) + 1 \in D
                BY <2>0, <3>2
            <4> QED
                BY <4>1
        <3> QED
            BY <2>0, <3>1, <3>2
    <2>2. \A i \in 1..Len(a) : a[i] = b[i]
        <3> TAKE i \in 1..Len(a)
        <3>1. i \notin D
            OBVIOUS
        <3> QED
            BY <2>0, <3>1
    <2> QED
        BY <2>1, <2>2, SeqEqual
<1>2. D \subseteq Nat
    OBVIOUS
<1>3. PICK m \in D : \A n \in D : m <= n
    <2> HIDE DEF D
    <2> QED
        BY <1>1, <1>2, LeastNumber
<1>4. ASSUME NEW j \in 1..(m - 1)
      PROVE  j <= Len(a) /\ j <= Len(b) /\ a[j] = b[j]
    <2>1. j \notin D
        BY <1>3
    <2> QED
        BY <1>3, <2>1
<1>5. m \in Nat /\ m >= 1 /\ (m <= Len(a) \/ m <= Len(b)) /\ (m > Len(a) \/ m > Len(b) \/ a[m] # b[m])
    OBVIOUS
<1> HIDE DEF D
<1>6. Len(a) \in Nat /\ Len(b) \in Nat
    OBVIOUS
<1>7. CASE m > Len(a)
    <2>1. m \in 1..Len(b)
        BY <1>5, <1>6, <1>7
    <2> QED
        BY <1>4, <1>7, <2>1 DEF Before
<1>8. CASE m > Len(b)
    <2>1. m \in 1..Len(a)
        BY <1>5, <1>6, <1>8
    <2> QED
        BY <1>4, <1>8, <2>1 DEF Before
<1>9. CASE m <= Len(a) /\ m <= Len(b)
    <2>1. m \in 1..Len(a) /\ m \in 1..Len(b) /\ a[m] # b[m]
        BY <1>5, <1>6, <1>9
    <2>2. a[m] \in Int /\ b[m] \in Int
        BY <2>1, WidthsAssumption, SMTT(30) DEF Bytes
    <2>3. a[m] < b[m] \/ b[m] < a[m]
        BY <2>1, <2>2
    <2> QED
        BY <1>4, <2>1, <2>3 DEF Before
<1> QED
    BY <1>5, <1>6, <1>7, <1>8, <1>9

\* No origin is before itself,
LEMMA BeforeStrict ==
    ASSUME NEW a \in Seq(Bytes)
    PROVE  ~Before(a, a)
<1>1. \A i \in 1..Len(a) : a[i] \in Int
    BY WidthsAssumption DEF Bytes
<1> QED
    BY <1>1 DEF Before

\* and the order is transitive.
LEMMA BeforeChain ==
    ASSUME NEW a \in Seq(Bytes), NEW b \in Seq(Bytes), NEW c \in Seq(Bytes),
           Before(a, b), Before(b, c)
    PROVE  Before(a, c)
<1>0. /\ Len(a) \in Nat /\ Len(b) \in Nat /\ Len(c) \in Nat
      /\ \A i \in 1..Len(a) : a[i] \in Int
      /\ \A i \in 1..Len(b) : b[i] \in Int
      /\ \A i \in 1..Len(c) : c[i] \in Int
    BY WidthsAssumption DEF Bytes
<1>1. PICK i \in 1..Len(b) : /\ \A j \in 1..(i - 1) : j <= Len(a) /\ a[j] = b[j]
                             /\ i > Len(a) \/ a[i] < b[i]
    BY DEF Before
<1>2. PICK k \in 1..Len(c) : /\ \A j \in 1..(k - 1) : j <= Len(b) /\ b[j] = c[j]
                             /\ k > Len(b) \/ b[k] < c[k]
    BY DEF Before
<1>3. CASE i < k
    <2>1. i \in 1..Len(c) /\ i \in 1..(k - 1)
        BY <1>0, <1>3
    <2>2. b[i] = c[i]
        BY <1>2, <2>1
    <2>3. \A j \in 1..(i - 1) : j <= Len(a) /\ a[j] = c[j]
        <3> TAKE j \in 1..(i - 1)
        <3>1. j \in 1..(k - 1)
            BY <1>3
        <3> QED
            BY <1>1, <1>2, <3>1
    <2> QED
        BY <1>1, <2>1, <2>2, <2>3 DEF Before
<1>4. CASE i = k
    <2>1. \A j \in 1..(i - 1) : j <= Len(a) /\ a[j] = c[j]
        BY <1>1, <1>2, <1>4
    <2>2. b[i] < c[i]
        BY <1>0, <1>2, <1>4
    <2>3. i > Len(a) \/ a[i] < c[i]
        BY <1>0, <1>1, <1>2, <1>4, <2>2, SMTT(30)
    <2> QED
        BY <1>4, <2>1, <2>3 DEF Before
<1>5. CASE i > k
    <2>1. k \in 1..(i - 1) /\ k <= Len(b)
        BY <1>0, <1>5
    <2>2. a[k] = b[k] /\ k <= Len(a)
        BY <1>1, <2>1
    <2>3. b[k] < c[k]
        BY <1>2, <1>0, <2>1
    <2>4. \A j \in 1..(k - 1) : j <= Len(a) /\ a[j] = c[j]
        <3> TAKE j \in 1..(k - 1)
        <3>1. j \in 1..(i - 1)
            BY <1>5
        <3> QED
            BY <1>1, <1>2, <3>1
    <2> QED
        BY <2>2, <2>3, <2>4 DEF Before
<1> QED
    BY <1>3, <1>4, <1>5

\* So a finite set of origins has a last one,
LEMMA LastOrigin ==
    ASSUME NEW S, S \subseteq Seq(Bytes), IsFiniteSet(S), S # {}
    PROVE  \E m \in S : \A o \in S \ {m} : Before(o, m)
<1> DEFINE HasLast(X) == \E m \in X : \A o \in X \ {m} : Before(o, m)
           T == {n \in Nat : \A X \in SUBSET Seq(Bytes) :
                    IsFiniteSet(X) /\ Cardinality(X) = n /\ X # {} => HasLast(X)}
<1>1. 0 \in T
    BY FS_EmptySet
<1>2. ASSUME NEW n \in Nat, n \in T PROVE n + 1 \in T
    <2>0. n + 1 \in Nat
        OBVIOUS
    <2> SUFFICES ASSUME NEW X \in SUBSET Seq(Bytes), IsFiniteSet(X), Cardinality(X) = n + 1, X # {}
                 PROVE  HasLast(X)
        BY <2>0, Zenon
    <2>1. PICK x \in X : TRUE
        OBVIOUS
    <2> DEFINE Y == X \ {x}
    <2>2. IsFiniteSet(Y) /\ Cardinality(Y) = n
        <3>1. IsFiniteSet(X \ {x}) /\ Cardinality(X \ {x}) = Cardinality(X) - 1
            BY FS_RemoveElement, Zenon
        <3> QED
            BY <3>1
    <2>3. CASE Y = {}
        BY <2>3
    <2>4. CASE Y # {}
        <3>1. HasLast(Y)
            <4>1. Y \in SUBSET Seq(Bytes)
                OBVIOUS
            <4> HIDE DEF Y, HasLast
            <4> QED
                BY <1>2, <2>2, <2>4, <4>1
        <3>2. PICK m \in Y : \A o \in Y \ {m} : Before(o, m)
            BY <3>1
        <3>3. m # x /\ m \in Seq(Bytes) /\ x \in Seq(Bytes)
            OBVIOUS
        <3>4. CASE Before(x, m)
            <4>1. \A o \in X \ {m} : Before(o, m)
                BY <3>2, <3>4
            <4> QED
                BY <4>1
        <3>5. CASE Before(m, x)
            <4>1. ASSUME NEW o \in X \ {x} PROVE Before(o, x)
                <5>1. CASE o = m
                    BY <3>5, <5>1
                <5>2. CASE o # m
                    <6>1. Before(o, m) /\ o \in Seq(Bytes)
                        BY <3>2, <5>2
                    <6> QED
                        BY <3>3, <3>5, <6>1, BeforeChain
                <5> QED
                    BY <5>1, <5>2
            <4> QED
                BY <4>1
        <3> QED
            BY <3>3, <3>4, <3>5, BeforeTotal
    <2> QED
        BY <2>3, <2>4
<1>3. \A n \in Nat : n \in T
    <2> HIDE DEF T
    <2> QED
        BY <1>1, <1>2, Numbers
<1>4. Cardinality(S) \in Nat
    BY FS_CardinalityType
<1>5. Cardinality(S) \in T /\ S \in SUBSET Seq(Bytes)
    BY <1>3, <1>4
<1> HIDE DEF HasLast
<1>6. HasLast(S)
    BY <1>5
<1> QED
    BY <1>6 DEF HasLast

InOrder(s, S) ==
    /\ \A o \in S : \E i \in DOMAIN s : s[i] = o
    /\ \A i, j \in DOMAIN s : i < j => Before(s[i], s[j])

\* and can be sorted.
LEMMA SortedOrder ==
    ASSUME NEW S, S \subseteq Seq(Bytes), IsFiniteSet(S)
    PROVE  Sorted(S) \in [1..Cardinality(S) -> S] /\ InOrder(Sorted(S), S)
<1> DEFINE CanSort(X) == \E s \in [1..Cardinality(X) -> X] : InOrder(s, X)
           T == {n \in Nat : \A X \in SUBSET Seq(Bytes) :
                    IsFiniteSet(X) /\ Cardinality(X) = n => CanSort(X)}
<1>1. 0 \in T
    <2> SUFFICES ASSUME NEW X \in SUBSET Seq(Bytes), IsFiniteSet(X), Cardinality(X) = 0
                 PROVE  CanSort(X)
        OBVIOUS
    <2>1. X = {}
        BY FS_EmptySet
    <2>2. [i \in 1..0 |-> <<>>] \in [1..Cardinality(X) -> X] /\ InOrder([i \in 1..0 |-> <<>>], X)
        BY <2>1 DEF InOrder
    <2> QED
        BY <2>2
<1>2. ASSUME NEW n \in Nat, n \in T PROVE n + 1 \in T
    <2> SUFFICES ASSUME NEW X \in SUBSET Seq(Bytes), IsFiniteSet(X), Cardinality(X) = n + 1
                 PROVE  CanSort(X)
        OBVIOUS
    <2>1. X # {}
        BY FS_EmptySet
    <2>2. PICK m \in X : \A o \in X \ {m} : Before(o, m)
        BY <2>1, LastOrigin
    <2> DEFINE Y == X \ {m}
    <2>3. IsFiniteSet(Y) /\ Cardinality(Y) = n /\ Y \in SUBSET Seq(Bytes)
        <3>1. IsFiniteSet(X \ {m}) /\ Cardinality(X \ {m}) = Cardinality(X) - 1
            BY FS_RemoveElement, Zenon
        <3> QED
            BY <3>1
    <2>4. CanSort(Y)
        <3> HIDE DEF Y, CanSort
        <3> QED
            BY <1>2, <2>3
    <2>5. PICK s \in [1..n -> Y] : InOrder(s, Y)
        BY <2>3, <2>4
    <2> DEFINE t == [i \in 1..(n + 1) |-> IF i <= n THEN s[i] ELSE m]
    <2>6. t \in [1..(n + 1) -> X]
        BY <2>5
    <2>7. \A o \in X : \E i \in DOMAIN t : t[i] = o
        <3> TAKE o \in X
        <3>1. CASE o = m
            <4>1. n + 1 \in DOMAIN t /\ t[n + 1] = m
                OBVIOUS
            <4> QED
                BY <3>1, <4>1
        <3>2. CASE o # m
            <4>1. PICK i \in 1..n : s[i] = o
                BY <2>5, <3>2 DEF InOrder
            <4>2. i \in DOMAIN t /\ t[i] = o
                BY <4>1
            <4> QED
                BY <4>2
        <3> QED
            BY <3>1, <3>2
    <2>8. ASSUME NEW i \in DOMAIN t, NEW j \in DOMAIN t, i < j PROVE Before(t[i], t[j])
        <3>1. CASE j <= n
            BY <2>5, <2>8, <3>1 DEF InOrder
        <3>2. CASE j = n + 1
            <4>1. t[j] = m /\ t[i] = s[i] /\ s[i] \in X \ {m}
                BY <2>5, <2>8, <3>2
            <4> QED
                BY <2>2, <4>1
        <3> QED
            BY <3>1, <3>2
    <2> HIDE DEF t
    <2> QED
        BY <2>6, <2>7, <2>8 DEF InOrder
<1>3. \A n \in Nat : n \in T
    <2> HIDE DEF T
    <2> QED
        BY <1>1, <1>2, Numbers
<1>4. Cardinality(S) \in Nat
    BY FS_CardinalityType
<1>5. Cardinality(S) \in T /\ S \in SUBSET Seq(Bytes)
    BY <1>3, <1>4
<1>6. CanSort(S)
    <2> HIDE DEF CanSort
    <2> QED
        BY <1>5
<1> QED
    BY <1>6, Zenon DEF Sorted, InOrder

\* Two sequences put together come apart again.
LEMMA CutApart ==
    ASSUME NEW S, NEW a \in Seq(S), NEW c \in Seq(S)
    PROVE  /\ a \o c \in Seq(S) /\ Len(a \o c) = Len(a) + Len(c)
           /\ \A i \in 1..Len(a) : (a \o c)[i] = a[i]
           /\ SubSeq(a \o c, 1, Len(a)) = a
           /\ SubSeq(a \o c, Len(a) + 1, Len(a \o c)) = c
<1> DEFINE s == a \o c
<1>0. Len(a) \in Nat /\ Len(c) \in Nat
    OBVIOUS
<1>1. /\ s \in Seq(S) /\ Len(s) = Len(a) + Len(c)
      /\ \A i \in 1..(Len(a) + Len(c)) : s[i] = IF i <= Len(a) THEN a[i] ELSE c[i - Len(a)]
    BY ConcatProperties
<1> HIDE DEF s
<1>2. \A i \in 1..Len(a) : s[i] = a[i]
    BY <1>0, <1>1
<1>3. \A i \in 1..Len(c) : s[(Len(a) + 1) + i - 1] = c[i]
    <2> TAKE i \in 1..Len(c)
    <2> DEFINE j == (Len(a) + 1) + i - 1
    <2>1. j \in 1..(Len(a) + Len(c)) /\ ~(j <= Len(a)) /\ j - Len(a) = i
        BY <1>0
    <2> HIDE DEF j
    <2>2. s[j] = c[i]
        BY <1>1, <2>1
    <2> QED
        BY <2>2 DEF j
<1>4. SubSeq(s, 1, Len(a)) = a
    <2>1. /\ SubSeq(s, 1, Len(a)) \in Seq(S) /\ Len(SubSeq(s, 1, Len(a))) = Len(a)
          /\ \A i \in 1..Len(a) : SubSeq(s, 1, Len(a))[i] = s[1 + i - 1]
        <3>1. 1 \in Nat \ {0} /\ Len(a) = 1 + Len(a) - 1 /\ Len(a) <= Len(s)
            BY <1>0, <1>1
        <3> QED
            BY <1>0, <1>1, <3>1, Stretch
    <2>2. \A i \in 1..Len(a) : SubSeq(s, 1, Len(a))[i] = a[i]
        <3> TAKE i \in 1..Len(a)
        <3>1. 1 + i - 1 = i
            OBVIOUS
        <3> QED
            BY <1>2, <2>1, <3>1
    <2> QED
        BY <2>1, <2>2, SeqEqual
<1>5. SubSeq(s, Len(a) + 1, Len(s)) = c
    <2>1. /\ SubSeq(s, Len(a) + 1, Len(s)) \in Seq(S) /\ Len(SubSeq(s, Len(a) + 1, Len(s))) = Len(c)
          /\ \A i \in 1..Len(c) : SubSeq(s, Len(a) + 1, Len(s))[i] = s[(Len(a) + 1) + i - 1]
        <3>1. Len(a) + 1 \in Nat \ {0} /\ Len(s) = (Len(a) + 1) + Len(c) - 1 /\ Len(s) \in Nat /\ Len(s) <= Len(s)
            BY <1>0, <1>1
        <3> QED
            BY <1>0, <1>1, <3>1, Stretch
    <2>2. \A i \in 1..Len(c) : SubSeq(s, Len(a) + 1, Len(s))[i] = c[i]
        BY <1>3, <2>1
    <2> QED
        BY <2>1, <2>2, SeqEqual
<1> QED
    BY <1>1, <1>2, <1>4, <1>5 DEF s

\* The same for bytes.
LEMMA BytesApart ==
    ASSUME NEW a \in Seq(Bytes), NEW c \in Seq(Bytes)
    PROVE  /\ a \o c \in Seq(Bytes) /\ Len(a \o c) = Len(a) + Len(c)
           /\ \A i \in 1..Len(a) : (a \o c)[i] = a[i]
           /\ SubSeq(a \o c, 1, Len(a)) = a
           /\ SubSeq(a \o c, Len(a) + 1, Len(a \o c)) = c
    BY CutApart

\* The second follows the first.
LEMMA BytesFollow ==
    ASSUME NEW a \in Seq(Bytes), NEW c \in Seq(Bytes)
    PROVE  \A i \in 1..Len(c) : (a \o c)[Len(a) + i] = c[i]
<1> TAKE i \in 1..Len(c)
<1>1. Len(a) \in Nat /\ Len(c) \in Nat
    OBVIOUS
<1>2. /\ Len(a) + i \in 1..(Len(a) + Len(c)) /\ ~(Len(a) + i <= Len(a))
      /\ (Len(a) + i) - Len(a) = i
    BY <1>1
<1>3. \A j \in 1..(Len(a) + Len(c)) : (a \o c)[j] = IF j <= Len(a) THEN a[j] ELSE c[j - Len(a)]
    BY ConcatProperties
<1> QED
    BY <1>2, <1>3

\* It does not matter which of three sequences are put together first.
LEMMA BytesAssociative ==
    \A x, y, z \in Seq(Bytes) : (x \o y) \o z = x \o (y \o z)
    BY ConcatAssociative

\* What the widths are.
LEMMA WidthFacts ==
    /\ Base \in Nat /\ Base > 1 /\ ShortLen \in Nat /\ ShortLen > 0 /\ LongLen \in Nat /\ LongLen > 0
    /\ TagLen \in Nat /\ TagLen > 0 /\ SlotSize \in Nat /\ 2 * SlotSize < Pow[LongLen]
    /\ Pow[ShortLen] \in Nat /\ Pow[LongLen] \in Nat
    BY WidthsAssumption, PowValues

\* An entry is as long as its fields.
LEMMA EntryParts ==
    ASSUME NEW o \in Seq(Bytes), NEW note \in Seq(Bytes)
    PROVE  /\ PutUint(Len(o), ShortLen) \in Seq(Bytes) /\ Len(PutUint(Len(o), ShortLen)) = ShortLen
           /\ PutUint(Len(note), LongLen) \in Seq(Bytes) /\ Len(PutUint(Len(note), LongLen)) = LongLen
           /\ Entry(o, note) \in Seq(Bytes)
           /\ Len(Entry(o, note)) = ShortLen + Len(o) + LongLen + Len(note)
<1> DEFINE A == PutUint(Len(o), ShortLen)
           B == PutUint(Len(note), LongLen)
<1>1. A \in Seq(Bytes) /\ Len(A) = ShortLen /\ B \in Seq(Bytes) /\ Len(B) = LongLen
    <2>1. Len(o) \in Nat /\ Len(note) \in Nat
        OBVIOUS
    <2> QED
        BY <2>1, WidthFacts, PutUintBytes
<1>2. Entry(o, note) = ((A \o o) \o B) \o note
    BY DEF Entry
<1> HIDE DEF A, B
<1>3. /\ A \o o \in Seq(Bytes) /\ (A \o o) \o B \in Seq(Bytes) /\ ((A \o o) \o B) \o note \in Seq(Bytes)
      /\ Len(((A \o o) \o B) \o note) = ShortLen + Len(o) + LongLen + Len(note)
    <2>1. A \o o \in Seq(Bytes) /\ Len(A \o o) = ShortLen + Len(o)
        BY <1>1, BytesApart
    <2>2. (A \o o) \o B \in Seq(Bytes) /\ Len((A \o o) \o B) = ShortLen + Len(o) + LongLen
        <3>1. (A \o o) \o B \in Seq(Bytes) /\ Len((A \o o) \o B) = Len(A \o o) + Len(B)
            BY <1>1, <2>1, BytesApart, Zenon
        <3> QED
            BY <1>1, <2>1, <3>1
    <2>3. ((A \o o) \o B) \o note \in Seq(Bytes)
          /\ Len(((A \o o) \o B) \o note) = ShortLen + Len(o) + LongLen + Len(note)
        <3>1. /\ ((A \o o) \o B) \o note \in Seq(Bytes)
              /\ Len(((A \o o) \o B) \o note) = Len((A \o o) \o B) + Len(note)
            BY <2>2, BytesApart, Zenon
        <3> QED
            BY <2>2, <3>1
    <2> QED
        BY <2>1, <2>2, <2>3
<1> QED
    BY <1>1, <1>2, <1>3, Zenon DEF A, B

\* What decodeEntry cuts off an entry and what follows it, field by field.
LEMMA EntrySplit ==
    ASSUME NEW o \in Seq(Bytes), NEW note \in Seq(Bytes), NEW rest \in Seq(Bytes)
    PROVE  Entry(o, note) \o rest =
              PutUint(Len(o), ShortLen) \o (o \o (PutUint(Len(note), LongLen) \o (note \o rest)))
<1> DEFINE A == PutUint(Len(o), ShortLen)
           B == PutUint(Len(note), LongLen)
           X == A \o o
           U == note \o rest
<1>1. A \in Seq(Bytes) /\ B \in Seq(Bytes)
    BY EntryParts
<1>2. Entry(o, note) = (X \o B) \o note
    BY DEF Entry
<1> HIDE DEF A, B
<1>3. X \in Seq(Bytes) /\ U \in Seq(Bytes)
    BY <1>1, BytesApart
<1>4. X \o B \in Seq(Bytes) /\ B \o U \in Seq(Bytes)
    <2> HIDE DEF X, U
    <2> QED
        BY <1>1, <1>3, BytesApart
<1>5. ((X \o B) \o note) \o rest = (X \o B) \o U
    <2> DEFINE Y == X \o B
    <2>1. Y \in Seq(Bytes)
        BY <1>4
    <2> HIDE DEF Y
    <2>2. (Y \o note) \o rest = Y \o (note \o rest)
        BY <2>1, BytesAssociative, Zenon
    <2> QED
        BY <2>2, Zenon DEF Y
<1>6. (X \o B) \o U = X \o (B \o U)
    <2> HIDE DEF X, U
    <2>1. X \in Seq(Bytes) /\ B \in Seq(Bytes) /\ U \in Seq(Bytes)
        BY <1>1, <1>3, Zenon
    <2>2. \A x, y, z \in Seq(Bytes) : (x \o y) \o z = x \o (y \o z)
        BY BytesAssociative, Zenon
    <2> QED
        BY <2>1, <2>2, SMTT(30)
<1>7. (A \o o) \o (B \o U) = A \o (o \o (B \o U))
    <2> DEFINE V == B \o U
    <2>1. V \in Seq(Bytes)
        BY <1>4
    <2> HIDE DEF V
    <2>2. (A \o o) \o V = A \o (o \o V)
        BY <1>1, <2>1, BytesAssociative, SMTT(30)
    <2> QED
        BY <2>2, Zenon DEF V
<1> QED
    BY <1>2, <1>5, <1>6, <1>7, Zenon DEF A, B

\* Where decode is: what is left of the payload and what it has read.
Left(payload, st) == [outcome |-> "ok", payload |-> payload, states |-> st]

WithNote(st, o, note) == [x \in DOMAIN st \cup {o} |-> IF x = o THEN note ELSE st[x]]

\* The loop body reads the entry encode wrote and leaves the others.
LEMMA EntryIsRead ==
    ASSUME NEW o \in Seq(Bytes), NEW note \in Seq(Bytes), NEW rest \in Seq(Bytes), NEW st,
           Len(o) < Pow[ShortLen], 2 * Len(note) < Pow[LongLen]
    PROVE  decodeEntry(Left(Entry(o, note) \o rest, st)) = Left(rest, WithNote(st, o, note))
<1> DEFINE A == PutUint(Len(o), ShortLen)
           B == PutUint(Len(note), LongLen)
           payload == Entry(o, note) \o rest
           p1 == o \o (B \o (note \o rest))
           p2 == B \o (note \o rest)
           p3 == note \o rest
           d == [outcome |-> "ok", payload |-> payload, states |-> st]
<1>1. A \in Seq(Bytes) /\ Len(A) = ShortLen /\ B \in Seq(Bytes) /\ Len(B) = LongLen /\ payload = A \o p1
    <2>1. /\ PutUint(Len(o), ShortLen) \in Seq(Bytes) /\ Len(PutUint(Len(o), ShortLen)) = ShortLen
          /\ PutUint(Len(note), LongLen) \in Seq(Bytes) /\ Len(PutUint(Len(note), LongLen)) = LongLen
        BY EntryParts
    <2>2. Entry(o, note) \o rest =
             PutUint(Len(o), ShortLen) \o (o \o (PutUint(Len(note), LongLen) \o (note \o rest)))
        BY EntrySplit
    <2> QED
        BY <2>1, <2>2, Zenon
<1>2. p3 \in Seq(Bytes) /\ p2 \in Seq(Bytes) /\ p1 \in Seq(Bytes)
    <2>1. p3 \in Seq(Bytes)
        BY BytesApart, Zenon
    <2>2. p2 \in Seq(Bytes)
        BY <1>1, <2>1, BytesApart, Zenon
    <2>3. p1 \in Seq(Bytes)
        BY <2>2, BytesApart, Zenon
    <2> QED
        BY <2>1, <2>2, <2>3
<1>3. /\ payload \in Seq(Bytes) /\ Len(payload) = ShortLen + Len(p1)
      /\ \A i \in 1..ShortLen : payload[i] = A[i]
      /\ SubSeq(payload, ShortLen + 1, Len(payload)) = p1
    <2>1. /\ A \o p1 \in Seq(Bytes) /\ Len(A \o p1) = Len(A) + Len(p1)
          /\ \A i \in 1..Len(A) : (A \o p1)[i] = A[i]
          /\ SubSeq(A \o p1, Len(A) + 1, Len(A \o p1)) = p1
        <3> HIDE DEF p1, A
        <3> QED
            BY <1>1, <1>2, BytesApart, Zenon
    <2> HIDE DEF p1, A, payload
    <2> QED
        BY <1>1, <2>1
<1>4. /\ Len(p1) = Len(o) + Len(p2) /\ SubSeq(p1, 1, Len(o)) = o
      /\ SubSeq(p1, Len(o) + 1, Len(p1)) = p2
    <2>1. p1 = o \o p2
        OBVIOUS
    <2>2. /\ Len(o \o p2) = Len(o) + Len(p2) /\ SubSeq(o \o p2, 1, Len(o)) = o
          /\ SubSeq(o \o p2, Len(o) + 1, Len(o \o p2)) = p2
        <3> HIDE DEF p2
        <3> QED
            BY <1>2, BytesApart, Zenon
    <2> QED
        BY <2>1, <2>2, Zenon
<1>5. /\ Len(p2) = LongLen + Len(p3) /\ \A i \in 1..LongLen : p2[i] = B[i]
      /\ SubSeq(p2, LongLen + 1, Len(p2)) = p3
    <2>1. p2 = B \o p3
        OBVIOUS
    <2>2. /\ Len(B \o p3) = Len(B) + Len(p3) /\ \A i \in 1..Len(B) : (B \o p3)[i] = B[i]
          /\ SubSeq(B \o p3, Len(B) + 1, Len(B \o p3)) = p3
        <3> HIDE DEF p3, B
        <3> QED
            BY <1>1, <1>2, BytesApart, Zenon
    <2> HIDE DEF p2, p3, B
    <2> QED
        BY <1>1, <2>1, <2>2
<1>6. /\ Len(p3) = Len(note) + Len(rest) /\ SubSeq(p3, 1, Len(note)) = note
      /\ SubSeq(p3, Len(note) + 1, Len(p3)) = rest
    BY BytesApart, Zenon
<1>7. Uint(payload, ShortLen) = Len(o)
    <2>1. \A i \in 1..ShortLen : payload[i] = PutUint(Len(o), ShortLen)[i]
        BY <1>3
    <2> HIDE DEF payload
    <2>2. Len(o) \in Nat /\ ShortLen \in Nat
        BY WidthFacts
    <2> QED
        BY <2>1, <2>2, UintOfPut
<1>8. Signed(Uint(p2, LongLen)) = Len(note)
    <2>1. \A i \in 1..LongLen : p2[i] = PutUint(Len(note), LongLen)[i]
        BY <1>5
    <2> HIDE DEF p2
    <2>2. Len(note) \in Nat /\ LongLen \in Nat /\ Len(note) < Pow[LongLen]
        BY WidthFacts
    <2>3. Uint(p2, LongLen) = Len(note)
        BY <2>1, <2>2, UintOfPut
    <2> QED
        BY <2>2, <2>3, WidthFacts DEF Signed
<1>9. d.outcome = "ok" /\ d.payload = payload /\ d.states = st
    OBVIOUS
<1> HIDE DEF d, payload, p1, p2, p3, A, B
<1>10. /\ Len(payload) >= ShortLen /\ Len(p1) >= Len(o) + LongLen /\ Len(p3) >= Len(note)
       /\ Len(payload) # 0 /\ Len(note) >= 0 /\ Len(note) \in Nat /\ Len(o) \in Nat
       /\ Len(payload) \in Nat /\ Len(p1) \in Nat /\ Len(p2) \in Nat /\ Len(p3) \in Nat
    <2>1. Len(note) \in Nat /\ Len(rest) \in Nat /\ Len(o) \in Nat
        OBVIOUS
    <2>2. Len(p3) \in Nat /\ Len(p2) \in Nat /\ Len(p1) \in Nat /\ Len(payload) \in Nat
        BY <1>2, <1>3
    <2> QED
        BY <1>3, <1>4, <1>5, <1>6, <2>1, <2>2, WidthFacts, SMTT(30)
<1>11. payload # <<>>
    BY <1>10
<1>12. /\ ~(Len(payload) < ShortLen) /\ ~(Len(p1) < Len(o) + LongLen) /\ ~(Len(p3) < Len(note))
       /\ ~(Len(note) < 0)
    BY <1>10, WidthFacts, SMTT(30)
<1>13. decodeEntry(d) =
          [outcome |-> "ok", payload |-> SubSeq(p3, Len(note) + 1, Len(p3)),
           states |-> [x \in DOMAIN st \cup {SubSeq(p1, 1, Len(o))} |->
                          IF x = SubSeq(p1, 1, Len(o)) THEN SubSeq(p3, 1, Len(note)) ELSE st[x]]]
    <2>1. SubSeq(d.payload, ShortLen + 1, Len(d.payload)) = p1
        BY <1>3, <1>9
    <2>2. Uint(d.payload, ShortLen) = Len(o)
        BY <1>7, <1>9
    <2> QED
        BY <1>4, <1>5, <1>8, <1>9, <1>11, <1>12, <2>1, <2>2, ZenonT(40) DEF decodeEntry
<1>14. decodeEntry(d) = [outcome |-> "ok", payload |-> rest,
               states |-> [x \in DOMAIN st \cup {o} |-> IF x = o THEN note ELSE st[x]]]
    BY <1>4, <1>6, <1>13, Zenon
<1> QED
    BY <1>14, Zenon DEF d, payload, WithNote, Left

\* encode writes an entry and then the others.
LEMMA EntriesUnfold ==
    ASSUME NEW m, Len(Sorted(DOMAIN m)) \in Nat
    PROVE  LET origins == Sorted(DOMAIN m)
               n == Len(origins)
           IN  \E from : /\ Entries(m) = from[1] /\ from[n + 1] = <<>>
                         /\ \A i \in 1..n : from[i] = Entry(origins[i], m[origins[i]]) \o from[i + 1]
<1> DEFINE origins == Sorted(DOMAIN m)
           n == Len(origins)
           E(i) == Entry(origins[i], m[origins[i]])
           Good(f, k) == f = [i \in ((n + 1) - k)..(n + 1) |-> IF i > n THEN <<>> ELSE E(i) \o f[i + 1]]
           T == {k \in Nat : \E f : Good(f, k)}
<1>0. n \in Nat
    OBVIOUS
<1> HIDE DEF E, n
<1>1. 0 \in T
    <2>1. ASSUME NEW i \in ((n + 1) - 0)..(n + 1) PROVE i > n
        BY <1>0
    <2>2. Good([i \in ((n + 1) - 0)..(n + 1) |-> <<>>], 0)
        BY <2>1
    <2> HIDE DEF Good
    <2> QED
        BY <2>2, Zenon
<1>2. ASSUME NEW k \in Nat, k \in T PROVE k + 1 \in T
    <2>1. PICK f : Good(f, k)
        BY <1>2
    <2> DEFINE j == (n + 1) - (k + 1)
               g == [i \in j..(n + 1) |-> IF i > j THEN f[i] ELSE E(j) \o f[j + 1]]
    <2>2. ASSUME NEW i \in j..(n + 1)
          PROVE  g[i] = IF i > n THEN <<>> ELSE E(i) \o g[i + 1]
        <3>0. j \in Int /\ i \in Int
            BY <1>0
        <3>1. CASE i > j
            <4>1. i \in ((n + 1) - k)..(n + 1)
                BY <1>0, <3>1
            <4>2. f[i] = IF i > n THEN <<>> ELSE E(i) \o f[i + 1]
                BY <2>1, <4>1
            <4>3. g[i] = f[i] /\ (~(i > n) => g[i + 1] = f[i + 1])
                BY <1>0, <3>0, <3>1
            <4> QED
                BY <4>2, <4>3, Zenon
        <3>2. CASE i = j
            <4>1. j <= n /\ ~(j > n) /\ j + 1 > j /\ j \in j..(n + 1) /\ j + 1 \in j..(n + 1) /\ ~(j > j)
                BY <1>0
            <4> HIDE DEF j
            <4>2. g[j] = E(j) \o f[j + 1] /\ g[j + 1] = f[j + 1]
                BY <4>1, Zenon
            <4> HIDE DEF g
            <4> QED
                BY <3>2, <4>1, <4>2
        <3> QED
            BY <3>0, <3>1, <3>2
    <2>3. Good(g, k + 1)
        <3>1. g = [i \in j..(n + 1) |-> g[i]]
            OBVIOUS
        <3> HIDE DEF g
        <3> QED
            BY <2>2, <3>1
    <2>4. k + 1 \in Nat
        OBVIOUS
    <2> HIDE DEF g, Good
    <2> QED
        BY <2>3, <2>4, Zenon
<1>3. n \in T
    <2> HIDE DEF T
    <2> QED
        BY <1>0, <1>1, <1>2, Numbers
<1> DEFINE Is(f) == f = [i \in 1..(n + 1) |-> IF i > n THEN <<>> ELSE E(i) \o f[i + 1]]
           from == CHOOSE f : Is(f)
<1>4. \E f : Is(f)
    <2>1. PICK f : Good(f, n)
        BY <1>3
    <2>2. (n + 1) - n = 1
        BY <1>0
    <2>3. Is(f)
        BY <2>1, <2>2, Zenon
    <2> QED
        BY <2>3, Zenon
<1>5. Is(from)
    <2> HIDE DEF Is
    <2> QED
        BY <1>4, Zenon
<1>6. Entries(m) = from[1]
    BY Zenon DEF Entries, E, n
<1> HIDE DEF from
<1>7. from[n + 1] = <<>> /\ \A i \in 1..n : from[i] = E(i) \o from[i + 1]
    <2>1. \A i \in 1..(n + 1) : from[i] = IF i > n THEN <<>> ELSE E(i) \o from[i + 1]
        BY <1>5, Zenon
    <2>2. n + 1 \in 1..(n + 1) /\ n + 1 > n /\ \A i \in 1..n : i \in 1..(n + 1) /\ ~(i > n)
        BY <1>0
    <2> QED
        BY <2>1, <2>2, Zenon
<1>8. /\ Entries(m) = from[1] /\ from[n + 1] = <<>>
      /\ \A i \in 1..n : from[i] = Entry(origins[i], m[origins[i]]) \o from[i + 1]
    BY <1>6, <1>7, Zenon DEF E
<1> HIDE DEF origins
<1> SUFFICES \E f : /\ Entries(m) = f[1] /\ f[n + 1] = <<>>
                    /\ \A i \in 1..n : f[i] = Entry(origins[i], m[origins[i]]) \o f[i + 1]
    BY DEF n, origins
<1> QED
    BY <1>8, Zenon

\* The turns of decode.
LEMMA DecodeTurns ==
    ASSUME NEW payload, Len(payload) \in Nat
    PROVE  \E loop :
              /\ loop[0] = [outcome |-> "ok", payload |-> payload, states |-> <<>>]
              /\ \A n \in 1..Len(payload) : loop[n] = decodeEntry(loop[n - 1])
              /\ loop[Len(payload)].outcome = "ok" =>
                    decode(payload) = [outcome |-> "ok", states |-> loop[Len(payload)].states]
<1> DEFINE start == [outcome |-> "ok", payload |-> payload, states |-> <<>>]
           Good(f, k) == f = [n \in 0..k |-> IF n = 0 THEN start ELSE decodeEntry(f[n - 1])]
           T == {k \in Nat : \E f : Good(f, k)}
<1> HIDE DEF start
<1>1. 0 \in T
    <2>1. Good([n \in 0..0 |-> start], 0)
        OBVIOUS
    <2> QED
        BY <2>1, Zenon
<1>2. ASSUME NEW k \in Nat, k \in T PROVE k + 1 \in T
    <2>1. PICK f : Good(f, k)
        BY <1>2
    <2> DEFINE g == [n \in 0..(k + 1) |-> IF n <= k THEN f[n] ELSE decodeEntry(f[k])]
    <2>2. ASSUME NEW n \in 0..(k + 1)
          PROVE  g[n] = IF n = 0 THEN start ELSE decodeEntry(g[n - 1])
        <3>1. CASE n <= k
            BY <2>1, <3>1
        <3>2. CASE n = k + 1
            <4>1. n - 1 = k /\ n # 0 /\ ~(n <= k) /\ k \in 0..(k + 1) /\ k <= k
                BY <3>2
            <4> QED
                BY <4>1, Zenon
        <3> QED
            BY <3>1, <3>2
    <2>3. Good(g, k + 1)
        <3>1. g = [n \in 0..(k + 1) |-> g[n]]
            OBVIOUS
        <3> HIDE DEF g
        <3> QED
            BY <2>2, <3>1
    <2>4. k + 1 \in Nat
        OBVIOUS
    <2> HIDE DEF g, Good
    <2> QED
        BY <2>3, <2>4, Zenon
<1>3. Len(payload) \in T
    <2> HIDE DEF T
    <2> QED
        BY <1>1, <1>2, Numbers
<1> DEFINE loop == CHOOSE f : Good(f, Len(payload))
<1>4. Good(loop, Len(payload))
    <2> HIDE DEF Good
    <2> QED
        BY <1>3, Zenon
<1>5. decode(payload) = IF loop[Len(payload)].outcome = "ok" THEN [outcome |-> "ok", states |-> loop[Len(payload)].states]
                        ELSE Failed(loop[Len(payload)].outcome)
    BY Zenon DEF decode, start
<1> HIDE DEF loop
<1>6. loop[0] = start /\ \A n \in 1..Len(payload) : loop[n] = decodeEntry(loop[n - 1])
    BY <1>4
<1> QED
    BY <1>5, <1>6, Zenon DEF start

\* What the state maps are: finitely many origins with their notes.
IsStateMap(m) ==
    /\ IsFiniteSet(DOMAIN m) /\ DOMAIN m \subseteq Seq(Bytes)
    /\ m = [o \in DOMAIN m |-> m[o]] /\ \A o \in DOMAIN m : m[o] \in Seq(Bytes)

\* The parts of an encoding: from[i] is what begins at the entry of origin i.
IsEncoding(m, n, origins, from) ==
    /\ n \in Nat /\ origins \in [1..n -> DOMAIN m]
    /\ \A x \in DOMAIN m : \E i \in 1..n : origins[i] = x
    /\ Entries(m) = from[1] /\ from[n + 1] = <<>>
    /\ \A i \in 1..n : from[i] = Entry(origins[i], m[origins[i]]) \o from[i + 1]

\* Every state map has them.
LEMMA EncodingExists ==
    ASSUME NEW m, IsStateMap(m)
    PROVE  \E n, origins, from : IsEncoding(m, n, origins, from)
<1> DEFINE S == DOMAIN m
           origins == Sorted(S)
           c == Cardinality(S)
<1>1. S \subseteq Seq(Bytes) /\ IsFiniteSet(S)
    BY DEF IsStateMap
<1>2. c \in Nat
    BY <1>1, FS_CardinalityType
<1>3. origins \in [1..c -> S] /\ \A x \in S : \E i \in DOMAIN origins : origins[i] = x
    <2> HIDE DEF S
    <2> QED
        BY <1>1, SortedOrder DEF InOrder
<1>4. Len(origins) = c
    <2> HIDE DEF origins, c
    <2>1. origins \in Seq(S) /\ DOMAIN origins = 1..c
        BY <1>2, <1>3
    <2> QED
        BY <1>2, <2>1
<1>5. PICK from : /\ Entries(m) = from[1] /\ from[c + 1] = <<>>
                  /\ \A i \in 1..c : from[i] = Entry(origins[i], m[origins[i]]) \o from[i + 1]
    <2>1. Len(Sorted(DOMAIN m)) \in Nat
        BY <1>2, <1>4
    <2>2. \E f : /\ Entries(m) = f[1] /\ f[Len(origins) + 1] = <<>>
                 /\ \A i \in 1..Len(origins) : f[i] = Entry(origins[i], m[origins[i]]) \o f[i + 1]
        BY <2>1, EntriesUnfold, Zenon
    <2> HIDE DEF origins, c
    <2> QED
        BY <1>4, <2>2, Zenon
<1>6. \A x \in S : \E i \in 1..c : origins[i] = x
    BY <1>3
<1> HIDE DEF origins, c
<1>7. IsEncoding(m, c, origins, from)
    BY <1>2, <1>3, <1>5, <1>6 DEF IsEncoding
<1> QED
    BY <1>7, Zenon

\* They are bytes, and get shorter entry by entry.
LEMMA EncodingLengths ==
    ASSUME NEW m, IsStateMap(m), NEW n, NEW origins, NEW from, IsEncoding(m, n, origins, from)
    PROVE  /\ \A i \in 1..(n + 1) :
                 from[i] \in Seq(Bytes) /\ Len(from[i]) >= (n + 1) - i /\ Len(from[i]) <= Len(from[1])
           /\ \A i \in 1..n : Len(m[origins[i]]) <= Len(from[i])
<1>0. n \in Nat /\ from[n + 1] = <<>>
    BY DEF IsEncoding
<1>1. ASSUME NEW i \in 1..n, from[i + 1] \in Seq(Bytes)
      PROVE  /\ from[i] \in Seq(Bytes) /\ Len(from[i]) >= Len(from[i + 1]) + 1
             /\ Len(m[origins[i]]) <= Len(from[i])
    <2> DEFINE o == origins[i]
               note == m[o]
               e == Entry(o, note)
               rest == from[i + 1]
    <2>1. o \in Seq(Bytes) /\ note \in Seq(Bytes)
        BY DEF IsEncoding, IsStateMap
    <2>2. from[i] = e \o rest
        BY DEF IsEncoding
    <2> HIDE DEF o, note
    <2>3. e \in Seq(Bytes) /\ Len(e) = ShortLen + Len(o) + LongLen + Len(note)
        BY <2>1, EntryParts
    <2>4. Len(o) \in Nat /\ Len(note) \in Nat
        BY <2>1
    <2> HIDE DEF e, rest
    <2>5. e \o rest \in Seq(Bytes) /\ Len(e \o rest) = Len(e) + Len(rest)
        BY <1>1, <2>3, BytesApart DEF rest
    <2>6. Len(rest) \in Nat
        BY <1>1 DEF rest
    <2>7. Len(e \o rest) >= Len(rest) + 1 /\ Len(note) <= Len(e \o rest)
        BY <2>3, <2>4, <2>5, <2>6, WidthFacts
    <2> QED
        BY <2>2, <2>5, <2>7 DEF rest, note, o
<1> DEFINE T == {k \in Nat : k <= n => from[(n + 1) - k] \in Seq(Bytes) /\ Len(from[(n + 1) - k]) >= k}
<1>2. 0 \in T
    <2>1. (n + 1) - 0 = n + 1
        BY <1>0
    <2>2. from[(n + 1) - 0] = <<>>
        BY <1>0, <2>1
    <2>3. <<>> \in Seq(Bytes) /\ Len(<<>>) >= 0
        OBVIOUS
    <2> QED
        BY <2>2, <2>3, Zenon
<1>3. ASSUME NEW k \in Nat, k \in T PROVE k + 1 \in T
    <2> SUFFICES ASSUME k + 1 <= n
                 PROVE  from[(n + 1) - (k + 1)] \in Seq(Bytes) /\ Len(from[(n + 1) - (k + 1)]) >= k + 1
        OBVIOUS
    <2> DEFINE i == (n + 1) - (k + 1)
    <2>1. i \in 1..n /\ i + 1 = (n + 1) - k
        BY <1>0
    <2>2. from[i + 1] \in Seq(Bytes) /\ Len(from[i + 1]) >= k
        BY <1>0, <1>3, <2>1
    <2> HIDE DEF i
    <2>3. from[i] \in Seq(Bytes) /\ Len(from[i]) >= Len(from[i + 1]) + 1
        BY <1>1, <2>1, <2>2
    <2>4. Len(from[i]) \in Nat /\ Len(from[i + 1]) \in Nat
        BY <2>2, <2>3
    <2>5. Len(from[i]) >= k + 1
        BY <2>2, <2>3, <2>4
    <2> QED
        BY <2>3, <2>5 DEF i
<1>4. \A k \in Nat : k \in T
    <2> HIDE DEF T
    <2> QED
        BY <1>2, <1>3, Numbers
<1>5. ASSUME NEW i \in 1..(n + 1) PROVE from[i] \in Seq(Bytes) /\ Len(from[i]) >= (n + 1) - i
    <2>1. (n + 1) - i \in Nat /\ (n + 1) - i <= n /\ (n + 1) - ((n + 1) - i) = i
        BY <1>0
    <2>2. (n + 1) - i \in T
        BY <1>4, <2>1
    <2> QED
        BY <2>1, <2>2
<1> DEFINE U == {k \in Nat : k <= n => Len(from[k + 1]) <= Len(from[1])}
<1>6. 0 \in U
    <2>1. 1 \in 1..(n + 1) /\ 0 + 1 = 1
        BY <1>0
    <2>2. Len(from[1]) \in Nat
        BY <1>5, <2>1
    <2> QED
        BY <2>1, <2>2
<1>7. ASSUME NEW k \in Nat, k \in U PROVE k + 1 \in U
    <2> SUFFICES ASSUME k + 1 <= n PROVE Len(from[(k + 1) + 1]) <= Len(from[1])
        OBVIOUS
    <2>1. k + 1 \in 1..n /\ (k + 1) + 1 \in 1..(n + 1) /\ k + 1 \in 1..(n + 1) /\ 1 \in 1..(n + 1) /\ k <= n
        BY <1>0
    <2>2. Len(from[(k + 1) + 1]) \in Nat /\ Len(from[k + 1]) \in Nat /\ Len(from[1]) \in Nat
        BY <1>5, <2>1
    <2>3. Len(from[k + 1]) >= Len(from[(k + 1) + 1]) + 1
        BY <1>1, <1>5, <2>1
    <2>4. Len(from[k + 1]) <= Len(from[1])
        BY <1>7, <2>1
    <2> QED
        BY <2>2, <2>3, <2>4
<1>8. \A k \in Nat : k \in U
    <2> HIDE DEF U
    <2> QED
        BY <1>6, <1>7, Numbers
<1>9. ASSUME NEW i \in 1..(n + 1) PROVE Len(from[i]) <= Len(from[1])
    <2>1. i - 1 \in Nat /\ i - 1 <= n /\ (i - 1) + 1 = i
        BY <1>0
    <2>2. i - 1 \in U
        BY <1>8, <2>1
    <2> QED
        BY <2>1, <2>2
<1>10. ASSUME NEW i \in 1..n PROVE Len(m[origins[i]]) <= Len(from[i])
    <2>1. i + 1 \in 1..(n + 1)
        BY <1>0
    <2> QED
        BY <1>1, <1>5, <2>1
<1> QED
    BY <1>5, <1>9, <1>10

\* What encode wrote, decode reads, for every map of states that fits: no combination of
\* lengths makes one entry run into the next, and the order of the origins does not
\* matter (encode, decode).
THEOREM DecodeOfEncode ==
    ASSUME NEW m, IsStateMap(m), encode(m).outcome = "ok", 2 * Len(encode(m).bytes) < Pow[LongLen]
    PROVE  /\ encode(m).bytes \in Seq(Bytes)
           /\ decode(encode(m).bytes) = [outcome |-> "ok", states |-> m]
<1> DEFINE text == encode(m).bytes
<1>1. PICK n, origins, from : IsEncoding(m, n, origins, from)
    BY EncodingExists
<1>2. /\ text = Entries(m)
      /\ \A o \in DOMAIN m : ~(Len(o) >= Pow[ShortLen]) /\ ~(Len(m[o]) >= Pow[LongLen])
    BY DEF encode
<1>3. text = from[1] /\ n \in Nat
    BY <1>1, <1>2 DEF IsEncoding
<1>4. /\ \A i \in 1..(n + 1) :
            from[i] \in Seq(Bytes) /\ Len(from[i]) >= (n + 1) - i /\ Len(from[i]) <= Len(from[1])
      /\ \A i \in 1..n : Len(m[origins[i]]) <= Len(from[i])
    BY <1>1, EncodingLengths
<1> DEFINE N == Len(text)
<1>5. text \in Seq(Bytes) /\ N \in Nat /\ N >= n /\ 2 * N < Pow[LongLen]
    <2>1. 1 \in 1..(n + 1) /\ (n + 1) - 1 = n
        BY <1>3
    <2>2. from[1] \in Seq(Bytes) /\ Len(from[1]) >= n
        BY <1>4, <2>1
    <2> HIDE DEF text
    <2> QED
        BY <1>3, <2>2 DEF text
<1> HIDE DEF text
<1>6. PICK loop : /\ loop[0] = [outcome |-> "ok", payload |-> text, states |-> <<>>]
                  /\ \A i \in 1..N : loop[i] = decodeEntry(loop[i - 1])
                  /\ loop[N].outcome = "ok" =>
                        decode(text) = [outcome |-> "ok", states |-> loop[N].states]
    BY <1>5, DecodeTurns
<1> HIDE DEF N
<1> DEFINE Read(k) == [x \in {origins[i] : i \in 1..k} |-> m[x]]
           Turn(k) == Left(from[k + 1], Read(k))
           T == {k \in Nat : k <= n => loop[k] = Turn(k)}
<1>7. 0 \in T
    <2>1. Read(0) = <<>>
        OBVIOUS
    <2>2. from[0 + 1] = text
        BY <1>3
    <2> HIDE DEF Read
    <2> QED
        BY <1>6, <2>1, <2>2 DEF Left
<1>8. ASSUME NEW k \in Nat, k \in T PROVE k + 1 \in T
    <2> SUFFICES ASSUME k + 1 <= n PROVE loop[k + 1] = Turn(k + 1)
        OBVIOUS
    <2>1. k + 1 \in 1..n /\ k + 1 \in 1..(n + 1) /\ (k + 1) + 1 \in 1..(n + 1) /\ k + 1 \in 1..N /\ (k + 1) - 1 = k /\ k <= n
        BY <1>3, <1>5
    <2> DEFINE o == origins[k + 1]
               note == m[o]
               rest == from[(k + 1) + 1]
    <2>2. loop[k] = Turn(k)
        BY <1>8, <2>1
    <2>3. loop[k + 1] = decodeEntry(Turn(k))
        BY <1>6, <2>1, <2>2
    <2>4. o \in DOMAIN m /\ o \in Seq(Bytes) /\ note \in Seq(Bytes) /\ rest \in Seq(Bytes)
        BY <1>1, <1>4, <2>1 DEF IsEncoding, IsStateMap
    <2>5. from[k + 1] = Entry(o, note) \o rest
        BY <1>1, <2>1 DEF IsEncoding
    <2>6. Len(o) < Pow[ShortLen] /\ 2 * Len(note) < Pow[LongLen]
        <3>1. Len(o) \in Nat /\ Len(note) \in Nat
            BY <2>4
        <3>2. ~(Len(o) >= Pow[ShortLen])
            BY <1>2, <2>4
        <3>3. Len(note) <= Len(from[k + 1]) /\ Len(from[k + 1]) <= Len(from[1])
            BY <1>4, <2>1
        <3>4. Len(from[1]) = N
            BY <1>3 DEF N
        <3>5. Len(from[k + 1]) \in Nat
            BY <1>4, <2>1
        <3>6. Len(note) <= N /\ N \in Nat /\ 2 * N < Pow[LongLen]
            BY <1>5, <3>1, <3>3, <3>4, <3>5
        <3>7. Len(o) < Pow[ShortLen]
            BY <3>1, <3>2, WidthFacts
        <3>8. 2 * Len(note) < Pow[LongLen]
            <4> HIDE DEF note
            <4> QED
                BY <3>1, <3>6, WidthFacts
        <3> QED
            BY <3>7, <3>8
    <2> HIDE DEF o, note, rest
    <2>7. decodeEntry(Left(Entry(o, note) \o rest, Read(k))) = Left(rest, WithNote(Read(k), o, note))
        <3>1. o \in Seq(Bytes) /\ note \in Seq(Bytes) /\ rest \in Seq(Bytes)
            BY <2>4
        <3>2. Len(o) < Pow[ShortLen] /\ 2 * Len(note) < Pow[LongLen]
            BY <2>6
        <3> HIDE DEF Read
        <3>3. \A st : decodeEntry(Left(Entry(o, note) \o rest, st)) = Left(rest, WithNote(st, o, note))
            BY <3>1, <3>2, EntryIsRead
        <3> QED
            BY <3>3, Zenon
    <2>8. WithNote(Read(k), o, note) = Read(k + 1)
        <3>1. {origins[i] : i \in 1..(k + 1)} = {origins[i] : i \in 1..k} \cup {o}
            <4>1. \A i \in 1..(k + 1) : i \in 1..k \/ i = k + 1
                OBVIOUS
            <4>2. k + 1 \in 1..(k + 1) /\ \A i \in 1..k : i \in 1..(k + 1)
                OBVIOUS
            <4> QED
                BY <4>1, <4>2, Zenon DEF o
        <3>2. DOMAIN Read(k) = {origins[i] : i \in 1..k}
            OBVIOUS
        <3> QED
            BY <3>1, <3>2 DEF note, WithNote
    <2> HIDE DEF Read
    <2> QED
        BY <2>3, <2>5, <2>7, <2>8, Zenon DEF rest
<1>9. loop[n] = Turn(n)
    <2>1. n \in T
        <3> HIDE DEF T
        <3> QED
            BY <1>3, <1>7, <1>8, Numbers
    <2> QED
        BY <1>3, <2>1
<1>10. Turn(n) = [outcome |-> "ok", payload |-> <<>>, states |-> m]
    <2>1. {origins[i] : i \in 1..n} = DOMAIN m
        BY <1>1 DEF IsEncoding
    <2>2. Read(n) = m
        BY <2>1 DEF IsStateMap
    <2>3. from[n + 1] = <<>>
        BY <1>1 DEF IsEncoding
    <2> HIDE DEF Read
    <2> QED
        BY <2>2, <2>3 DEF Left
<1> DEFINE last == [outcome |-> "ok", payload |-> <<>>, states |-> m]
           U == {k \in Nat : n + k <= N => loop[n + k] = last}
<1>11. 0 \in U
    <2>1. n + 0 = n
        BY <1>3
    <2> HIDE DEF Turn, last
    <2> QED
        BY <1>9, <1>10, <2>1 DEF last
<1>12. ASSUME NEW k \in Nat, k \in U PROVE k + 1 \in U
    <2> SUFFICES ASSUME n + (k + 1) <= N PROVE loop[n + (k + 1)] = last
        OBVIOUS
    <2>1. n + (k + 1) \in 1..N /\ (n + (k + 1)) - 1 = n + k /\ n + k <= N
        BY <1>3, <1>5
    <2>2. loop[n + (k + 1)] = decodeEntry(loop[n + k])
        BY <1>6, <2>1
    <2>3. loop[n + k] = last
        BY <1>12, <2>1
    <2>4. last.payload = <<>>
        OBVIOUS
    <2> HIDE DEF last
    <2>5. decodeEntry(last) = last
        BY <2>4, Zenon DEF decodeEntry
    <2> QED
        BY <2>2, <2>3, <2>5
<1>13. loop[N] = last
    <2>1. N - n \in Nat /\ n + (N - n) = N /\ N <= N
        BY <1>3, <1>5
    <2>2. N - n \in U
        <3> HIDE DEF U
        <3> QED
            BY <1>11, <1>12, <2>1, Numbers
    <2> HIDE DEF last
    <2> QED
        BY <2>1, <2>2
<1>14. decode(text) = [outcome |-> "ok", states |-> m]
    BY <1>6, <1>13
<1> QED
    BY <1>5, <1>14 DEF text

-----------------------------------------------------------------------------
(* A slot *)

\* A blob that was saved: it fits a slot.
IsBlob(b) ==
    /\ b = [gen |-> b.gen, nonce |-> b.nonce, states |-> b.states]
    /\ b.gen \in Nat /\ b.gen < Pow[LongLen] /\ b.nonce \in Bytes
    /\ IsStateMap(b.states)
    /\ encode(b.states).outcome = "ok"
    /\ HeaderLen + Len(Seal(b.nonce, encode(b.states).bytes, genAAD(b.gen))) <= SlotSize

\* A byte of its ciphertext.
CipherOf(b, i) == CipherByte(b.nonce, genAAD(b.gen), encode(b.states).bytes, i)

\* The places of the header.
LEMMA HeaderFacts ==
    /\ HeaderLen \in Nat /\ HeaderLen = 2 + 2 * LongLen /\ GenAt = 1 /\ LengthAt = 1 + LongLen
    /\ NonceAt = 1 + 2 * LongLen /\ LongLen \in Nat /\ LongLen > 0
    /\ SlotSize \in Nat /\ TagLen \in Nat /\ TagLen > 0 /\ SlotSize >= HeaderLen + TagLen
    BY WidthFacts, SlotSizeAssumption DEF HeaderLen, GenAt, LengthAt, NonceAt

\* genAAD tells generations apart.
LEMMA GenAADTells ==
    ASSUME NEW g \in Nat, NEW h \in Nat, g < Pow[LongLen], h < Pow[LongLen], genAAD(g) = genAAD(h)
    PROVE  g = h
<1>1. PutUint(g, LongLen) = PutUint(h, LongLen)
    BY DEF genAAD
<1>2. Uint(PutUint(g, LongLen), LongLen) = g
    BY UintOfPut, WidthFacts
<1>3. Uint(PutUint(h, LongLen), LongLen) = h
    BY UintOfPut, WidthFacts
<1> QED
    BY <1>1, <1>2, <1>3

\* A ciphertext, byte by byte.
LEMMA SealLen ==
    ASSUME NEW nonce, NEW aad, NEW text \in Seq(Bytes)
    PROVE  /\ Len(Seal(nonce, text, aad)) = Len(text) + TagLen
           /\ DOMAIN Seal(nonce, text, aad) = 1..(Len(text) + TagLen)
           /\ \A i \in 1..(Len(text) + TagLen) : Seal(nonce, text, aad)[i] = CipherByte(nonce, aad, text, i)
<1>1. Len(text) + TagLen \in Nat
    BY WidthFacts
<1>2. Seal(nonce, text, aad) = [i \in 1..(Len(text) + TagLen) |-> CipherByte(nonce, aad, text, i)]
    BY Zenon DEF Seal
<1> QED
    BY <1>1, <1>2

\* The text of a blob is short and decodes to its states.
LEMMA BlobText ==
    ASSUME NEW b, IsBlob(b)
    PROVE  LET text == encode(b.states).bytes
           IN  /\ text \in Seq(Bytes) /\ HeaderLen + Len(text) + TagLen <= SlotSize
               /\ decode(text) = [outcome |-> "ok", states |-> b.states]
<1> DEFINE m == b.states
           text == encode(m).bytes
           c == Seal(b.nonce, text, genAAD(b.gen))
<1>1. IsStateMap(m) /\ encode(m).outcome = "ok" /\ HeaderLen + Len(c) <= SlotSize
    BY DEF IsBlob
<1>2. PICK n, origins, from : IsEncoding(m, n, origins, from)
    BY <1>1, EncodingExists
<1>3. text = from[1] /\ n \in Nat
    BY <1>1, <1>2 DEF IsEncoding, encode
<1>4. text \in Seq(Bytes)
    <2>1. 1 \in 1..(n + 1)
        BY <1>3
    <2>2. from[1] \in Seq(Bytes)
        BY <1>1, <1>2, <2>1, EncodingLengths
    <2> QED
        BY <1>3, <2>2
<1>5. Len(c) = Len(text) + TagLen
    <2> HIDE DEF text
    <2> QED
        BY <1>4, SealLen
<1>6. HeaderLen + Len(text) + TagLen <= SlotSize /\ Len(text) \in Nat
    <2> HIDE DEF text, c
    <2>1. Len(text) \in Nat
        BY <1>4
    <2> QED
        BY <1>1, <1>5, <2>1, HeaderFacts
<1>7. 2 * Len(text) < Pow[LongLen]
    <2> HIDE DEF text
    <2> QED
        BY <1>6, HeaderFacts, WidthFacts
<1>8. decode(text) = [outcome |-> "ok", states |-> m]
    BY <1>1, <1>7, DecodeOfEncode
<1> QED
    BY <1>4, <1>6, <1>8

\* What a slot may hold: header bytes, then bytes of ciphertexts made before or others.
SlotOfBlobs(buf, blobs) ==
    /\ \A i \in 1..HeaderLen : buf[i] \in Bytes
    /\ \A i \in (HeaderLen + 1)..SlotSize :
          buf[i] = ZeroByte \/ \E b \in blobs, j \in Nat : buf[i] = CipherOf(b, j)

\* The number at some place of the header.
LEMMA HeaderNumber ==
    ASSUME NEW buf, \A i \in 1..HeaderLen : buf[i] \in Bytes,
           NEW at \in {GenAt, LengthAt}
    PROVE  /\ \A i \in 1..LongLen : SubSeq(buf, at + 1, HeaderLen)[i] = buf[at + i]
           /\ Uint(SubSeq(buf, at + 1, HeaderLen), LongLen) \in Nat
           /\ Uint(SubSeq(buf, at + 1, HeaderLen), LongLen) < Pow[LongLen]
<1> DEFINE s == SubSeq(buf, at + 1, HeaderLen)
<1>0. at \in Nat /\ at >= 1 /\ at + LongLen + 1 <= HeaderLen /\ at + 1 \in Int /\ HeaderLen \in Int
    BY HeaderFacts
<1>1. \A i \in (at + 1)..HeaderLen : buf[i] \in Bytes
    BY <1>0, HeaderFacts
<1>2. \A i \in 1..(HeaderLen - (at + 1) + 1) : SubSeq(buf, at + 1, HeaderLen)[i] = buf[(at + 1) + i - 1]
    BY <1>0, <1>1, SubSeqProperties
<1>3. \A i \in 1..LongLen : s[i] = buf[at + i]
    <2> TAKE i \in 1..LongLen
    <2>1. i \in 1..(HeaderLen - (at + 1) + 1) /\ (at + 1) + i - 1 = at + i
        BY <1>0, HeaderFacts
    <2> QED
        BY <1>2, <2>1
<1> HIDE DEF s
<1>4. \A i \in 1..LongLen : s[i] \in Bytes
    <2> TAKE i \in 1..LongLen
    <2>1. at + i \in 1..HeaderLen
        BY <1>0, HeaderFacts
    <2> QED
        BY <1>3, <2>1
<1>5. Uint(s, LongLen) \in Nat /\ Uint(s, LongLen) < Pow[LongLen]
    BY <1>4, HeaderFacts, UintRange
<1> QED
    BY <1>3, <1>5 DEF s

\* Such a slot loads as one of the blobs, or not at all.
LEMMA LoadsSavedOnly ==
    ASSUME NEW buf, NEW blobs, SlotOfBlobs(buf, blobs), \A b \in blobs : IsBlob(b)
    PROVE  loadSlot(buf).outcome = "error" \/ \E b \in blobs : loadSlot(buf) = Loaded(b)
<1> DEFINE gen == Uint(SubSeq(buf, GenAt + 1, HeaderLen), LongLen)
           length == Uint(SubSeq(buf, LengthAt + 1, HeaderLen), LongLen)
           nonce == buf[NonceAt + 1]
           end == HeaderLen + Signed(length)
           ciphertext == SubSeq(buf, HeaderLen + 1, end)
           aad == genAAD(gen)
           text == ciphertext[1].text
<1>1. /\ gen \in Nat /\ gen < Pow[LongLen]
      /\ length \in Nat /\ length < Pow[LongLen]
    BY HeaderNumber DEF SlotOfBlobs
<1>2. loadSlot(buf) =
         CASE buf[1] # Magic \/ BadLength(length) -> Failed("error")
           [] buf[1] = Magic /\ ~BadLength(length) /\ (end < HeaderLen \/ end > SlotSize) -> Failed("panic")
           [] OTHER -> IF ciphertext = <<>> \/ ~Opens(nonce, ciphertext, aad)
                       THEN Failed("error")
                       ELSE [outcome |-> decode(text).outcome, states |-> decode(text).states, gen |-> gen]
    BY Zenon DEF loadSlot
<1>3. Failed("error").outcome = "error"
    BY DEF Failed
<1> HIDE DEF gen, length, nonce
<1>4. Signed(length) \in Int
    BY <1>1, WidthFacts DEF Signed
<1>5. CASE buf[1] # Magic \/ BadLength(length)
    BY <1>2, <1>3, <1>5
<1>6. CASE ~(buf[1] # Magic \/ BadLength(length))
    <2>1. TagLen <= Signed(length) /\ Signed(length) <= SlotSize - HeaderLen
        BY <1>4, <1>6, HeaderFacts DEF BadLength
    <2>2. ~(end < HeaderLen) /\ ~(end > SlotSize) /\ end \in Nat /\ end >= HeaderLen + 1
        BY <1>4, <2>1, HeaderFacts
    <2>3. ciphertext[1] = buf[HeaderLen + 1] /\ 1 \in DOMAIN ciphertext
        <3> DEFINE S == {buf[i] : i \in (HeaderLen + 1)..end}
                   k == HeaderLen + 1
        <3>1. \A i \in k..end : buf[i] \in S
            OBVIOUS
        <3>2. k \in Int /\ end \in Int /\ 1 \in 1..(end - k + 1) /\ k + 1 - 1 = k
            BY <2>2, HeaderFacts
        <3> HIDE DEF S, k, end
        <3>3. /\ SubSeq(buf, k, end) \in Seq(S)
              /\ Len(SubSeq(buf, k, end)) = IF k <= end THEN end - k + 1 ELSE 0
              /\ \A i \in 1..(end - k + 1) : SubSeq(buf, k, end)[i] = buf[k + i - 1]
            BY <3>1, <3>2, SubSeqProperties
        <3>4. SubSeq(buf, k, end)[1] = buf[k] /\ 1 \in DOMAIN SubSeq(buf, k, end)
            BY <3>2, <3>3
        <3> QED
            BY <3>4 DEF k
    <2>4. loadSlot(buf) = IF ciphertext = <<>> \/ ~Opens(nonce, ciphertext, aad)
                          THEN Failed("error")
                          ELSE [outcome |-> decode(text).outcome, states |-> decode(text).states, gen |-> gen]
        <3> HIDE DEF end, ciphertext, text, aad
        <3> QED
            BY <1>2, <1>6, <2>2
    <2> HIDE DEF ciphertext, aad, end
    <2>5. CASE ciphertext = <<>> \/ ~Opens(nonce, ciphertext, aad)
        BY <1>3, <2>4, <2>5
    <2>6. CASE Opens(nonce, ciphertext, aad) /\ ciphertext # <<>>
        <3> DEFINE c == ciphertext[1]
        <3>1. ciphertext = [i \in 1..(Len(text) + TagLen) |-> CipherByte(nonce, aad, text, i)]
            BY <2>6 DEF Opens, Seal
        <3>2. c = CipherByte(nonce, aad, text, 1)
            <4> HIDE DEF text
            <4>1. DOMAIN ciphertext = 1..(Len(text) + TagLen)
                BY <3>1
            <4> QED
                BY <2>3, <3>1, <4>1
        <3>3. c = ZeroByte \/ \E b \in blobs, j \in Nat : c = CipherOf(b, j)
            <4>1. HeaderLen + 1 \in (HeaderLen + 1)..SlotSize
                BY HeaderFacts
            <4> QED
                BY <2>3, <4>1 DEF SlotOfBlobs
        <3> HIDE DEF c, text
        <3>4. c # ZeroByte
            BY <3>2 DEF ZeroByte, CipherByte
        <3>5. PICK b \in blobs, j \in Nat : c = CipherOf(b, j)
            BY <3>3, <3>4
        <3>6. text = encode(b.states).bytes /\ aad = genAAD(b.gen)
            BY <3>2, <3>5 DEF CipherOf, CipherByte
        <3>7. IsBlob(b)
            OBVIOUS
        <3>8. decode(text) = [outcome |-> "ok", states |-> b.states]
            BY <3>6, <3>7, BlobText
        <3>9. gen = b.gen
            <4>1. b.gen \in Nat /\ b.gen < Pow[LongLen]
                BY <3>7 DEF IsBlob
            <4>2. genAAD(gen) = genAAD(b.gen)
                BY <3>6 DEF aad
            <4> QED
                BY <1>1, <4>1, <4>2, GenAADTells
        <3>10. loadSlot(buf) = [outcome |-> decode(text).outcome, states |-> decode(text).states, gen |-> gen]
            BY <2>4, <2>6
        <3>11. loadSlot(buf) = Loaded(b)
            BY <3>8, <3>9, <3>10 DEF Loaded
        <3> QED
            BY <3>11
    <2> QED
        BY <2>5, <2>6
<1> QED
    BY <1>5, <1>6

\* What Save writes for a blob, place for place.
LEMMA SavedSlot ==
    ASSUME NEW b, IsBlob(b)
    PROVE  LET buf == save(b.gen, b.nonce, b.states).buf
               length == Len(encode(b.states).bytes) + TagLen
           IN  /\ length \in Nat /\ length >= TagLen /\ HeaderLen + length <= SlotSize
               /\ save(b.gen, b.nonce, b.states).outcome = "ok"
               /\ buf[1] = Magic /\ buf[NonceAt + 1] = b.nonce
               /\ \A i \in 1..LongLen : /\ buf[GenAt + i] = PutUint(b.gen, LongLen)[i]
                                        /\ buf[LengthAt + i] = PutUint(length, LongLen)[i]
               /\ \A i \in 1..HeaderLen : buf[i] \in Bytes
               /\ \A i \in 1..length : buf[HeaderLen + i] = CipherOf(b, i)
               /\ \A i \in (HeaderLen + length + 1)..SlotSize : buf[i] = ZeroByte
<1> DEFINE text == encode(b.states).bytes
           length == Len(text) + TagLen
           c == Seal(b.nonce, text, genAAD(b.gen))
           G == PutUint(b.gen, LongLen)
           P == PutUint(Len(c), LongLen)
           header == <<Magic>> \o G \o P \o <<b.nonce>>
           contents == [i \in 1..SlotSize |->
                          CASE i <= HeaderLen -> header[i]
                            [] i > HeaderLen /\ i <= HeaderLen + Len(c) -> c[i - HeaderLen]
                            [] OTHER -> ZeroByte]
<1>1. /\ b.gen \in Nat /\ b.nonce \in Bytes /\ encode(b.states).outcome = "ok"
      /\ HeaderLen + Len(c) <= SlotSize
    BY DEF IsBlob
<1>2. text \in Seq(Bytes) /\ HeaderLen + Len(text) + TagLen <= SlotSize
    BY BlobText
<1>3. save(b.gen, b.nonce, b.states) =
         IF encode(b.states).outcome # "ok" \/ HeaderLen + Len(c) > SlotSize
         THEN [outcome |-> "error", buf |-> <<>>]
         ELSE [outcome |-> "ok", buf |-> contents]
    BY Zenon DEF save
<1> HIDE DEF text
<1>4. Len(text) \in Nat /\ length \in Nat /\ length >= TagLen /\ HeaderLen + length <= SlotSize
    BY <1>2, HeaderFacts
<1>5. Len(c) = length /\ \A i \in 1..length : c[i] = CipherByte(b.nonce, genAAD(b.gen), text, i)
    BY <1>2, SealLen
<1> HIDE DEF c, length
<1>6. G \in Seq(Bytes) /\ Len(G) = LongLen /\ P \in Seq(Bytes) /\ Len(P) = LongLen
    BY <1>1, <1>4, <1>5, PutUintBytes, HeaderFacts
<1> HIDE DEF G, P
<1>7. Magic \in Bytes
    BY WidthsAssumption DEF Magic, Bytes
<1>8. /\ header \in Seq(Bytes) /\ Len(header) = HeaderLen /\ header[1] = Magic
      /\ header[NonceAt + 1] = b.nonce
      /\ \A i \in 1..LongLen : header[GenAt + i] = G[i] /\ header[LengthAt + i] = P[i]
    <2> DEFINE A == <<Magic>> \o G
               B == A \o P
    <2>1. A \in Seq(Bytes) /\ Len(A) = 1 + LongLen /\ A[1] = Magic /\ \A i \in 1..LongLen : A[1 + i] = G[i]
        BY <1>6, <1>7, HeaderFacts
    <2> HIDE DEF A
    <2>2. /\ B \in Seq(Bytes) /\ Len(B) = 1 + 2 * LongLen
          /\ \A i \in 1..(1 + LongLen) : B[i] = A[i]
          /\ \A i \in 1..LongLen : B[1 + LongLen + i] = P[i]
        <3>1. Len(A) \in Nat /\ Len(P) \in Nat /\ LongLen \in Nat
            BY <2>1, <1>6, HeaderFacts
        <3>2. /\ B \in Seq(Bytes) /\ Len(B) = Len(A) + Len(P)
              /\ \A i \in 1..Len(A) : B[i] = A[i]
              /\ \A i \in 1..Len(P) : B[Len(A) + i] = P[i]
            BY <1>6, <2>1, BytesApart, BytesFollow
        <3> HIDE DEF B
        <3>3. (1 + LongLen) + LongLen = 1 + 2 * LongLen
            BY <3>1
        <3> QED
            BY <1>6, <2>1, <3>2, <3>3
    <2> HIDE DEF B
    <2>3. header = B \o <<b.nonce>>
        BY Zenon DEF A, B
    <2>4. /\ header \in Seq(Bytes) /\ Len(header) = 2 + 2 * LongLen
          /\ \A i \in 1..(1 + 2 * LongLen) : header[i] = B[i]
          /\ header[2 + 2 * LongLen] = b.nonce
        <3>1. Len(B) \in Nat /\ LongLen \in Nat /\ (1 + 2 * LongLen) + 1 = 2 + 2 * LongLen
            BY <2>2, HeaderFacts
        <3>2. /\ B \o <<b.nonce>> \in Seq(Bytes) /\ Len(B \o <<b.nonce>>) = Len(B) + 1
              /\ \A i \in 1..Len(B) : (B \o <<b.nonce>>)[i] = B[i]
              /\ (B \o <<b.nonce>>)[Len(B) + 1] = b.nonce
            BY <1>1, <2>2, <3>1
        <3> HIDE DEF header
        <3> QED
            BY <2>2, <2>3, <3>1, <3>2
    <2> HIDE DEF header
    <2>5. header[1] = Magic
        BY <2>1, <2>2, <2>4, HeaderFacts
    <2>6. ASSUME NEW i \in 1..LongLen PROVE header[GenAt + i] = G[i] /\ header[LengthAt + i] = P[i]
        <3>1. /\ GenAt + i = 1 + i /\ 1 + i \in 1..(1 + LongLen) /\ 1 + i \in 1..(1 + 2 * LongLen)
              /\ LengthAt + i = 1 + LongLen + i /\ 1 + LongLen + i \in 1..(1 + 2 * LongLen)
            BY HeaderFacts
        <3> QED
            BY <2>1, <2>2, <2>4, <3>1
    <2>7. NonceAt + 1 = 2 + 2 * LongLen /\ HeaderLen = 2 + 2 * LongLen
        BY HeaderFacts
    <2> QED
        BY <2>4, <2>5, <2>6, <2>7
<1> HIDE DEF header
<1>9. /\ \A i \in 1..HeaderLen : contents[i] = header[i]
      /\ \A i \in 1..length : contents[HeaderLen + i] = c[i]
      /\ \A i \in (HeaderLen + length + 1)..SlotSize : contents[i] = ZeroByte
    <2>1. ASSUME NEW i \in 1..HeaderLen PROVE contents[i] = header[i]
        <3>1. i \in 1..SlotSize /\ i <= HeaderLen /\ ~(i > HeaderLen) /\ HeaderLen + Len(c) \in Int
            BY <1>4, <1>5, HeaderFacts
        <3> QED
            BY <3>1
    <2>2. ASSUME NEW i \in 1..length PROVE contents[HeaderLen + i] = c[i]
        <3>1. /\ HeaderLen + i \in 1..SlotSize /\ ~(HeaderLen + i <= HeaderLen) /\ HeaderLen + i > HeaderLen
              /\ HeaderLen + i <= HeaderLen + length /\ (HeaderLen + i) - HeaderLen = i
            BY <1>4, HeaderFacts
        <3> QED
            BY <1>5, <3>1
    <2>3. ASSUME NEW i \in (HeaderLen + length + 1)..SlotSize PROVE contents[i] = ZeroByte
        <3>1. i \in 1..SlotSize /\ ~(i <= HeaderLen) /\ ~(i <= HeaderLen + length)
            BY <1>4, HeaderFacts
        <3> QED
            BY <1>5, <3>1
    <2> QED
        BY <2>1, <2>2, <2>3
<1> HIDE DEF contents
<1>10. save(b.gen, b.nonce, b.states) = [outcome |-> "ok", buf |-> contents]
    BY <1>1, <1>3, <1>4, <1>5, HeaderFacts
<1>11. save(b.gen, b.nonce, b.states).buf = contents /\ save(b.gen, b.nonce, b.states).outcome = "ok"
    BY <1>10
<1>12. contents[1] = Magic /\ contents[NonceAt + 1] = b.nonce
    <2>1. 1 \in 1..HeaderLen /\ NonceAt + 1 \in 1..HeaderLen
        BY HeaderFacts
    <2> QED
        BY <1>8, <1>9, <2>1
<1>13. ASSUME NEW i \in 1..LongLen
       PROVE  contents[GenAt + i] = PutUint(b.gen, LongLen)[i] /\ contents[LengthAt + i] = PutUint(length, LongLen)[i]
    <2>1. GenAt + i \in 1..HeaderLen /\ LengthAt + i \in 1..HeaderLen
        BY HeaderFacts
    <2> QED
        BY <1>5, <1>8, <1>9, <2>1 DEF G, P
<1>14. \A i \in 1..HeaderLen : contents[i] \in Bytes
    BY <1>8, <1>9
<1>15. \A i \in 1..length : contents[HeaderLen + i] = CipherOf(b, i)
    BY <1>5, <1>9 DEF CipherOf, text
<1> HIDE DEF contents
<1> QED
    BY <1>4, <1>9, <1>11, <1>12, <1>13, <1>14, <1>15 DEF length, text

\* A slot with these contents loads as the blob.
LEMMA SavedLoads ==
    ASSUME NEW b, IsBlob(b), NEW buf,
           \A i \in 1..SlotSize : buf[i] = save(b.gen, b.nonce, b.states).buf[i]
    PROVE  loadSlot(buf) = Loaded(b)
<1> DEFINE text == encode(b.states).bytes
           L == Len(text) + TagLen
           W == save(b.gen, b.nonce, b.states).buf
           gen == Uint(SubSeq(buf, GenAt + 1, HeaderLen), LongLen)
           length == Uint(SubSeq(buf, LengthAt + 1, HeaderLen), LongLen)
           nonce == buf[NonceAt + 1]
           end == HeaderLen + Signed(length)
           ciphertext == SubSeq(buf, HeaderLen + 1, end)
           aad == genAAD(gen)
<1>1. /\ L \in Nat /\ L >= TagLen /\ HeaderLen + L <= SlotSize
      /\ W[1] = Magic /\ W[NonceAt + 1] = b.nonce
      /\ \A i \in 1..LongLen : W[GenAt + i] = PutUint(b.gen, LongLen)[i] /\ W[LengthAt + i] = PutUint(L, LongLen)[i]
      /\ \A i \in 1..HeaderLen : W[i] \in Bytes
      /\ \A i \in 1..L : W[HeaderLen + i] = CipherOf(b, i)
    BY SavedSlot
<1>2. text \in Seq(Bytes) /\ decode(text) = [outcome |-> "ok", states |-> b.states]
    BY BlobText
<1>3. b.gen \in Nat /\ b.gen < Pow[LongLen] /\ 2 * L < Pow[LongLen]
    <2>1. b.gen \in Nat /\ b.gen < Pow[LongLen]
        BY DEF IsBlob
    <2> HIDE DEF L, W
    <2>2. 2 * L < Pow[LongLen]
        BY <1>1, HeaderFacts, WidthFacts
    <2> QED
        BY <2>1, <2>2
<1>4. loadSlot(buf) =
         CASE buf[1] # Magic \/ BadLength(length) -> Failed("error")
           [] buf[1] = Magic /\ ~BadLength(length) /\ (end < HeaderLen \/ end > SlotSize) -> Failed("panic")
           [] OTHER -> IF ciphertext = <<>> \/ ~Opens(nonce, ciphertext, aad)
                       THEN Failed("error")
                       ELSE [outcome |-> decode(ciphertext[1].text).outcome,
                             states |-> decode(ciphertext[1].text).states, gen |-> gen]
    BY Zenon DEF loadSlot
<1>5. \A i \in 1..SlotSize : buf[i] = W[i]
    OBVIOUS
<1> HIDE DEF W, L, text
<1>6. \A i \in 1..HeaderLen : buf[i] \in Bytes /\ buf[i] = W[i]
    BY <1>1, <1>5, HeaderFacts
<1>7. gen = b.gen
    <2> DEFINE s == SubSeq(buf, GenAt + 1, HeaderLen)
    <2>1. \A i \in 1..LongLen : s[i] = buf[GenAt + i]
        BY <1>6, HeaderNumber
    <2>2. ASSUME NEW i \in 1..LongLen PROVE s[i] = PutUint(b.gen, LongLen)[i]
        <3>1. GenAt + i \in 1..HeaderLen
            BY HeaderFacts
        <3> QED
            BY <1>1, <1>6, <2>1, <3>1
    <2> HIDE DEF s
    <2>3. Uint(s, LongLen) = b.gen
        BY <1>3, <2>2, HeaderFacts, UintOfPut
    <2> QED
        BY <2>3 DEF s
<1>8. length = L
    <2> DEFINE s == SubSeq(buf, LengthAt + 1, HeaderLen)
    <2>1. \A i \in 1..LongLen : s[i] = buf[LengthAt + i]
        BY <1>6, HeaderNumber
    <2>2. ASSUME NEW i \in 1..LongLen PROVE s[i] = PutUint(L, LongLen)[i]
        <3>1. LengthAt + i \in 1..HeaderLen
            BY HeaderFacts
        <3> QED
            BY <1>1, <1>6, <2>1, <3>1
    <2> HIDE DEF s
    <2>3. L < Pow[LongLen]
        BY <1>1, <1>3, WidthFacts
    <2>4. Uint(s, LongLen) = L
        BY <1>1, <2>2, <2>3, HeaderFacts, UintOfPut
    <2> QED
        BY <2>4 DEF s
<1> HIDE DEF gen, length
<1>9. Signed(length) = L
    BY <1>1, <1>3, <1>8, WidthFacts DEF Signed
<1>10. end = HeaderLen + L /\ ~BadLength(length) /\ buf[1] = Magic /\ nonce = b.nonce
    <2>1. 1 \in 1..HeaderLen /\ NonceAt + 1 \in 1..HeaderLen
        BY HeaderFacts
    <2> QED
        BY <1>1, <1>6, <1>9, <2>1, HeaderFacts DEF BadLength
<1> HIDE DEF nonce
<1>11. ciphertext = Seal(b.nonce, text, genAAD(b.gen))
    <2> DEFINE k == HeaderLen + 1
               e == HeaderLen + L
               S == {buf[i] : i \in k..e}
               C == SubSeq(buf, k, e)
               D == Seal(b.nonce, text, genAAD(b.gen))
    <2>1. \A i \in k..e : buf[i] \in S
        OBVIOUS
    <2>2. k \in Int /\ e \in Int /\ k <= e /\ e - k + 1 = L
        BY <1>1, HeaderFacts
    <2> HIDE DEF S
    <2>3. /\ C \in Seq(S) /\ Len(C) = IF k <= e THEN e - k + 1 ELSE 0
          /\ \A i \in 1..(e - k + 1) : C[i] = buf[k + i - 1]
        <3> HIDE DEF k, e
        <3> QED
            BY <2>1, <2>2, SubSeqProperties
    <2>4. Len(C) = L /\ \A i \in 1..L : C[i] = buf[k + i - 1]
        <3> HIDE DEF C, k, e
        <3> QED
            BY <2>2, <2>3
    <2>5. D = [i \in 1..L |-> CipherOf(b, i)]
        BY Zenon DEF Seal, CipherOf, L, text
    <2>6. \A i \in 1..L : C[i] = CipherOf(b, i)
        <3> TAKE i \in 1..L
        <3>1. k + i - 1 = HeaderLen + i /\ HeaderLen + i \in 1..SlotSize
            BY <1>1, HeaderFacts
        <3> HIDE DEF C, k, e
        <3>2. C[i] = buf[k + i - 1] /\ buf[HeaderLen + i] = W[HeaderLen + i]
            BY <1>5, <2>4, <3>1
        <3>3. W[HeaderLen + i] = CipherOf(b, i)
            BY <1>1
        <3> QED
            BY <3>1, <3>2, <3>3
    <2>7. C = [i \in 1..L |-> CipherOf(b, i)]
        <3> HIDE DEF C, k, e
        <3>1. DOMAIN C = 1..L /\ C = [i \in DOMAIN C |-> C[i]]
            BY <2>3, <2>4
        <3> QED
            BY <2>6, <3>1, Zenon
    <2> HIDE DEF C, D
    <2>8. C = D
        BY <2>5, <2>7
    <2>9. ciphertext = C
        BY <1>10 DEF C
    <2> QED
        BY <2>8, <2>9 DEF D
<1>12. ciphertext[1].text = text /\ ciphertext # <<>>
    <2> HIDE DEF ciphertext
    <2>1. 1 \in 1..(Len(text) + TagLen)
        BY <1>1, HeaderFacts DEF L
    <2>2. ciphertext[1] = CipherByte(b.nonce, genAAD(b.gen), text, 1) /\ DOMAIN ciphertext # {}
        BY <1>2, <1>11, <2>1, SealLen
    <2> QED
        BY <2>2 DEF CipherByte
<1>13. Opens(nonce, ciphertext, aad)
    <2> HIDE DEF ciphertext
    <2> QED
        BY <1>7, <1>10, <1>11, <1>12 DEF Opens
<1>14. ~(end < HeaderLen \/ end > SlotSize)
    BY <1>1, <1>10, HeaderFacts
<1> HIDE DEF end, ciphertext, aad
<1>15. loadSlot(buf) = [outcome |-> decode(text).outcome, states |-> decode(text).states, gen |-> b.gen]
    BY <1>4, <1>7, <1>10, <1>12, <1>13, <1>14
<1> QED
    BY <1>2, <1>15 DEF Loaded

-----------------------------------------------------------------------------
(* The card *)

\* Where a slot begins.
SlotStart(s) == device.offset + s * SlotSize

\* A byte a card may hold at place p: something other than ciphertext only in a header,
\* and no ciphertext that was not made for some blob that was saved.
IsCardByte(p, x) ==
    IF OfSlots(p) /\ InSlot(p) <= HeaderLen THEN x \in Bytes
    ELSE \/ x = ZeroByte
         \/ OfSlots(p) /\ \E b \in saved, j \in Nat : x = CipherOf(b, j)

\* A slot holds all that was written for a blob.
SlotHolds(s, b) ==
    /\ SlotLBA(s).outcome = "ok"
    /\ \A i \in 1..SlotSize : disk[SlotStart(s) + i - 1] = save(b.gen, b.nonce, b.states).buf[i]

\* The inductive invariant.
CardInv ==
    /\ device \in Devices
    /\ DOMAIN disk = 0..(device.blockSize * device.blocks - 1)
    /\ \A b \in saved : IsBlob(b)
    /\ \A p \in DOMAIN disk : IsCardByte(p, disk[p])
    /\ DOMAIN latest = 0..1
    /\ \A s \in 0..1 : \A b \in latest[s] : b \in saved /\ SlotHolds(s, b)

\* What Info tells of a device, and the offset.
LEMMA DeviceFacts ==
    ASSUME device \in Devices
    PROVE  device.blockSize \in Int /\ device.blocks \in Nat /\ device.offset \in Nat
    BY CardAssumption

\* A device that has room for a slot has it where the slot is, and room for the first.
LEMMA SlotFits ==
    ASSUME device \in Devices, NEW slot \in 0..1, SlotLBA(slot).outcome = "ok"
    PROVE  /\ SlotLBA(slot).lba * device.blockSize = SlotStart(slot)
           /\ SlotStart(slot) + SlotSize <= device.blockSize * device.blocks
           /\ SlotLBA(0).outcome = "ok"
<1> DEFINE b == device.blockSize
           s == SlotSize
           n == device.blocks
           offset == device.offset
           at == offset + slot * s
<1>1. s \in Nat /\ b \in Int /\ n \in Nat /\ offset \in Nat /\ slot \in Nat
    BY HeaderFacts, DeviceFacts
<1>2. /\ b > 0 /\ s % b = 0 /\ offset % b = 0 /\ ~((at + s) \div b > n)
      /\ SlotLBA(slot).lba = at \div b
    BY <1>1 DEF SlotLBA, slotLBA, TooSmall
<1> HIDE DEF b, s, n, offset
<1>3. PICK p \in Nat, q \in Nat : offset = p * b /\ s = q * b
    <2>1. /\ offset = (offset \div b) * b + (offset % b) /\ offset \div b \in Nat
          /\ s = (s \div b) * b + (s % b) /\ s \div b \in Nat
        BY <1>1, <1>2
    <2>2. offset = (offset \div b) * b /\ s = (s \div b) * b
        BY <1>1, <1>2, <2>1
    <2> QED
        BY <2>1, <2>2
<1>4. ASSUME NEW k \in Nat
      PROVE  (k * b) \div b = k
    BY <1>1, <1>2
<1> DEFINE l == IF slot = 0 THEN p ELSE p + q
<1>5. /\ at = l * b /\ at + s = (l + q) * b /\ l \in Nat
      /\ offset + 0 * s = p * b /\ (offset + 0 * s) + s = (p + q) * b
    <2>1. CASE slot = 0
        BY <1>1, <1>3, <2>1
    <2>2. CASE slot = 1
        BY <1>1, <1>3, <2>2
    <2> QED
        BY <2>1, <2>2
<1> HIDE DEF l, at
<1>6. at \div b = l /\ (at + s) \div b = l + q /\ ((offset + 0 * s) + s) \div b = p + q
    BY <1>3, <1>4, <1>5
<1>7. l + q <= n /\ p + q <= n
    <2>1. l + q <= n
        BY <1>1, <1>2, <1>3, <1>5, <1>6
    <2>2. p <= l
        BY <1>3 DEF l
    <2> QED
        BY <1>1, <1>3, <1>5, <2>1, <2>2
<1>8. (l + q) * b <= n * b
    BY <1>1, <1>2, <1>3, <1>5, <1>7
<1>9. SlotLBA(0).outcome = "ok"
    <2>1. ~(((offset + 0 * s) + s) \div b > n)
        BY <1>1, <1>3, <1>6, <1>7
    <2> QED
        BY <1>1, <1>2, <2>1 DEF SlotLBA, slotLBA, TooSmall, b, s, n, offset
<1>10. n * b = b * n
    BY <1>1
<1>11. SlotLBA(slot).lba * b = at /\ at + s <= b * n
    BY <1>2, <1>5, <1>6, <1>8, <1>10
<1> QED
    BY <1>9, <1>11 DEF at, b, s, n, offset, SlotStart

\* The bytes of the slots and their places.
LEMMA SlotPlaces ==
    ASSUME device \in Devices, NEW s \in 0..1, NEW i \in 1..SlotSize
    PROVE  LET p == SlotStart(s) + i - 1
           IN  p \in Nat /\ OfSlots(p) /\ SlotOf(p) = s /\ InSlot(p) = i
<1> DEFINE p == SlotStart(s) + i - 1
           z == SlotSize
           d == p - device.offset
<1>1. device.offset \in Nat /\ z \in Nat /\ z > 0 /\ i <= z /\ i \in Nat /\ i >= 1
    BY HeaderFacts, DeviceFacts
<1>2. d = s * z + (i - 1) /\ p \in Nat /\ p = device.offset + d /\ i - 1 \in 0..(z - 1)
    <2>1. s * z \in Nat
        BY <1>1
    <2> QED
        BY <1>1, <2>1 DEF SlotStart
<1> HIDE DEF p, d, z
<1>3. CASE s = 0
    <2>1. d = i - 1 /\ d \in 0..(z - 1)
        BY <1>1, <1>2, <1>3
    <2>2. d \div z = 0 /\ d % z = d
        BY <1>1, <2>1
    <2>3. (d % z) + 1 = i
        BY <1>1, <2>1, <2>2
    <2>4. p \in device.offset..(device.offset + 2 * z - 1)
        BY <1>1, <1>2, <2>1
    <2> QED
        BY <1>2, <1>3, <2>2, <2>3, <2>4 DEF p, d, z, OfSlots, SlotOf, InSlot
<1>4. CASE s = 1
    <2>1. d = z + (i - 1) /\ d \in Nat
        BY <1>1, <1>2, <1>4
    <2>2. d \div z = 1 /\ d % z = i - 1
        BY <1>1, <1>2, <2>1
    <2>3. (d % z) + 1 = i
        BY <1>1, <2>1, <2>2
    <2>4. p \in device.offset..(device.offset + 2 * z - 1)
        BY <1>1, <1>2, <2>1
    <2> QED
        BY <1>2, <1>4, <2>2, <2>3, <2>4 DEF p, d, z, OfSlots, SlotOf, InSlot
<1> QED
    BY <1>3, <1>4

\* A byte of the slots is in one of the two.
LEMMA SlotOfByte ==
    ASSUME device \in Devices, NEW p \in Int, OfSlots(p)
    PROVE  SlotOf(p) \in 0..1
<1> DEFINE z == SlotSize
           d == p - device.offset
<1>1. device.offset \in Nat /\ z \in Nat /\ z > 0
    BY HeaderFacts, DeviceFacts
<1>2. d \in Nat /\ d < 2 * z
    BY <1>1 DEF OfSlots
<1> HIDE DEF d, z
<1>3. d \div z \in 0..1
    BY <1>1, <1>2
<1> QED
    BY <1>3 DEF d, z, SlotOf

\* A slot that fits is on the disk.
LEMMA SlotOnDisk ==
    ASSUME CardInv, NEW s \in 0..1, SlotLBA(s).outcome = "ok", NEW i \in 1..SlotSize
    PROVE  SlotStart(s) + i - 1 \in DOMAIN disk
<1>1. device \in Devices /\ DOMAIN disk = 0..(device.blockSize * device.blocks - 1)
    BY DEF CardInv
<1>2. SlotStart(s) + SlotSize <= device.blockSize * device.blocks
    BY <1>1, SlotFits
<1>3. device.blockSize * device.blocks \in Int /\ SlotStart(s) \in Nat /\ SlotSize \in Nat
    BY <1>1, DeviceFacts, HeaderFacts DEF SlotStart
<1> QED
    BY <1>1, <1>2, <1>3

\* A blob that Save accepts.
LEMMA SavedIsBlob ==
    ASSUME NEW gen \in Generations, NEW nonce \in Nonces, NEW states \in StateMaps,
           save(gen, nonce, states).outcome = "ok"
    PROVE  IsBlob([gen |-> gen, nonce |-> nonce, states |-> states])
<1> DEFINE text == encode(states).bytes
           c == Seal(nonce, text, genAAD(gen))
<1>1. gen \in Nat /\ gen < Pow[LongLen] /\ nonce \in Bytes /\ IsStateMap(states)
    BY CardAssumption, WidthFacts DEF IsStateMap
<1>2. encode(states).outcome = "ok" /\ ~(HeaderLen + Len(c) > SlotSize)
    <2> HIDE DEF c
    <2>1. save(gen, nonce, states).outcome # "error" 
        OBVIOUS
    <2> QED
        BY <2>1 DEF save, c
<1>3. text \in Seq(Bytes)
    <2>1. PICK n, origins, from : IsEncoding(states, n, origins, from)
        BY <1>1, <1>2, EncodingExists
    <2>2. text = from[1] /\ 1 \in 1..(n + 1)
        BY <1>2, <2>1 DEF IsEncoding, encode
    <2>3. from[1] \in Seq(Bytes)
        BY <1>1, <1>2, <2>1, <2>2, EncodingLengths
    <2> QED
        BY <2>2, <2>3
<1>4. HeaderLen + Len(c) <= SlotSize
    <2>1. Len(c) = Len(text) + TagLen /\ Len(text) \in Nat
        BY <1>3, SealLen
    <2> HIDE DEF c, text
    <2> QED
        BY <1>2, <2>1, HeaderFacts
<1> QED
    BY <1>1, <1>2, <1>4 DEF IsBlob

\* What is on the card may be there whatever is saved later.
LEMMA CardBytesStay ==
    ASSUME NEW p, NEW x, IsCardByte(p, x), device' = device, saved \subseteq saved'
    PROVE  IsCardByte(p, x)'
<1>1. (OfSlots(p)' <=> OfSlots(p)) /\ InSlot(p)' = InSlot(p)
    BY DEF OfSlots, InSlot
<1> QED
    BY <1>1 DEF IsCardByte

\* An empty card satisfies it.
LEMMA CardStart == CardInit => CardInv
<1> SUFFICES ASSUME CardInit PROVE CardInv
    OBVIOUS
<1>1. /\ device \in Devices /\ saved = {} /\ DOMAIN latest = 0..1
      /\ \A s \in 0..1 : latest[s] = {}
      /\ DOMAIN disk = 0..(device.blockSize * device.blocks - 1)
    BY DEF CardInit
<1>2. ASSUME NEW p \in DOMAIN disk PROVE IsCardByte(p, disk[p])
    <2>1. disk[p] = IF OfSlots(p) /\ InSlot(p) <= HeaderLen THEN 0 ELSE ZeroByte
        BY DEF CardInit
    <2>2. 0 \in Bytes
        BY WidthsAssumption DEF Bytes
    <2> QED
        BY <2>1, <2>2 DEF IsCardByte
<1> QED
    BY <1>1, <1>2 DEF CardInv

\* A write of a blob, ended anywhere, leaves nothing on the card but blobs, and the
\* other slot as it was.
LEMMA SaveKeepsInv ==
    ASSUME CardInv, NEW gen \in Generations, NEW nonce \in Nonces, NEW states \in StateMaps,
           NEW k \in 0..SlotSize, Save(gen, nonce, states, k)
    PROVE  CardInv'
<1> DEFINE b == [gen |-> gen, nonce |-> nonce, states |-> states]
           buf == save(gen, nonce, states).buf
           slot == gen % 2
           start == SlotStart(slot)
<1>1. /\ save(gen, nonce, states).outcome = "ok" /\ SlotLBA(slot).outcome = "ok"
      /\ WriteBlocks(SlotLBA(slot).lba, buf, k)
      /\ saved' = saved \cup {b} /\ device' = device
      /\ latest' = [latest EXCEPT ![slot] = IF k = SlotSize THEN {b} ELSE {}]
    BY DEF Save
<1>2. IsBlob(b)
    BY <1>1, SavedIsBlob
<1>3. /\ device \in Devices /\ DOMAIN disk = 0..(device.blockSize * device.blocks - 1)
      /\ \A p \in DOMAIN disk : IsCardByte(p, disk[p])
      /\ DOMAIN latest = 0..1
    BY DEF CardInv
<1>4. slot \in 0..1
    BY CardAssumption, WidthFacts
<1>5. SlotLBA(slot).lba * device.blockSize = start
    BY <1>1, <1>3, <1>4, SlotFits
<1>6. disk' = [p \in DOMAIN disk |-> IF p \in start..(start + k - 1) THEN buf[p - start + 1] ELSE disk[p]]
    BY <1>1, <1>5 DEF WriteBlocks
<1>7. start \in Nat /\ k \in Nat /\ k <= SlotSize /\ SlotSize \in Nat
    BY <1>3, <1>4, DeviceFacts, HeaderFacts DEF SlotStart
<1>8. DOMAIN disk' = DOMAIN disk /\ \A p \in DOMAIN disk : p \in Int
    BY <1>3, <1>6
<1>9. ASSUME NEW s PROVE SlotStart(s)' = SlotStart(s) /\ SlotLBA(s)' = SlotLBA(s)
    BY <1>1 DEF SlotStart, SlotLBA
<1>10. b \in saved' /\ saved \subseteq saved'
    BY <1>1
<1>11. ASSUME NEW p \in start..(start + k - 1), NEW x, x = buf[p - start + 1]
       PROVE  IsCardByte(p, x)'
    <2> DEFINE i == p - start + 1
    <2>1. i \in 1..SlotSize /\ start + i - 1 = p /\ p \in Int
        BY <1>7
    <2> HIDE DEF i, start, slot
    <2>2. OfSlots(p) /\ InSlot(p) = i
        BY <1>3, <1>4, <2>1, SlotPlaces DEF start
    <2>3. /\ \A n \in 1..HeaderLen : buf[n] \in Bytes
          /\ Len(encode(states).bytes) + TagLen \in Nat
          /\ \A n \in 1..(Len(encode(states).bytes) + TagLen) : buf[HeaderLen + n] = CipherOf(b, n)
          /\ \A n \in (HeaderLen + (Len(encode(states).bytes) + TagLen) + 1)..SlotSize : buf[n] = ZeroByte
        <3>1. b.gen = gen /\ b.nonce = nonce /\ b.states = states
            OBVIOUS
        <3> HIDE DEF b
        <3> QED
            BY <1>2, <3>1, SavedSlot
    <2> DEFINE L == Len(encode(states).bytes) + TagLen
    <2> HIDE DEF b, buf, L
    <2>4. IF i <= HeaderLen THEN buf[i] \in Bytes
          ELSE buf[i] = ZeroByte \/ \E j \in Nat : buf[i] = CipherOf(b, j)
        <3>0. HeaderLen \in Nat /\ L \in Nat
            BY <2>3, HeaderFacts DEF L
        <3>1. CASE i <= HeaderLen
            <4>1. i \in 1..HeaderLen
                BY <2>1, <3>0, <3>1
            <4> QED
                BY <2>3, <3>1, <4>1
        <3>2. CASE ~(i <= HeaderLen) /\ i <= HeaderLen + L
            <4>1. i - HeaderLen \in 1..L /\ HeaderLen + (i - HeaderLen) = i /\ i - HeaderLen \in Nat
                BY <2>1, <3>0, <3>2
            <4>2. buf[i] = CipherOf(b, i - HeaderLen)
                <5>1. buf[HeaderLen + (i - HeaderLen)] = CipherOf(b, i - HeaderLen)
                    BY <2>3, <4>1 DEF L
                <5> QED
                    BY <4>1, <5>1
            <4> QED
                BY <3>2, <4>1, <4>2
        <3>3. CASE ~(i <= HeaderLen) /\ ~(i <= HeaderLen + L)
            <4>1. i \in (HeaderLen + L + 1)..SlotSize
                BY <2>1, <3>0, <3>3
            <4>2. buf[i] = ZeroByte
                BY <2>3, <4>1 DEF L
            <4> QED
                BY <3>3, <4>2
        <3> QED
            BY <3>1, <3>2, <3>3
    <2>5. (OfSlots(p)' <=> OfSlots(p)) /\ InSlot(p)' = InSlot(p)
        BY <1>1 DEF OfSlots, InSlot
    <2>6. x = buf[i]
        BY <1>11 DEF i
    <2>7. CASE i <= HeaderLen
        BY <2>2, <2>4, <2>5, <2>6, <2>7 DEF IsCardByte
    <2>8. CASE ~(i <= HeaderLen)
        BY <1>10, <2>2, <2>4, <2>5, <2>6, <2>8 DEF IsCardByte
    <2> QED
        BY <2>7, <2>8
<1>12. ASSUME NEW p \in DOMAIN disk, NEW x, x = disk'[p] PROVE IsCardByte(p, x)'
    <2> HIDE DEF b, buf, start, slot
    <2>2. CASE p \in start..(start + k - 1)
        <3>1. x = buf[p - start + 1]
            BY <1>6, <1>12, <2>2
        <3> QED
            BY <1>11, <2>2, <3>1
    <2>3. CASE p \notin start..(start + k - 1)
        <3>1. x = disk[p]
            BY <1>6, <1>12, <2>3
        <3>2. IsCardByte(p, x)
            BY <1>3, <3>1
        <3> QED
            BY <1>1, <1>10, <3>2, CardBytesStay
    <2> QED
        BY <2>2, <2>3
<1>13. ASSUME NEW s \in 0..1, NEW c \in latest'[s] PROVE c \in saved' /\ SlotHolds(s, c)'
    <2>1. CASE s = slot
        <3>1. k = SlotSize /\ c = b
            BY <1>1, <1>3, <1>4, <2>1
        <3>2. b.gen = gen /\ b.nonce = nonce /\ b.states = states
            OBVIOUS
        <3> HIDE DEF b, slot, start, buf
        <3>3. SlotLBA(s)'.outcome = "ok" /\ SlotStart(s)' = start
            BY <1>1, <1>9, <2>1 DEF start
        <3>4. ASSUME NEW i \in 1..SlotSize PROVE disk'[start + i - 1] = buf[i]
            <4>1. start + i - 1 \in start..(start + k - 1) /\ (start + i - 1) - start + 1 = i
                BY <1>7, <3>1
            <4>2. start + i - 1 \in DOMAIN disk
                BY <1>1, <1>4, SlotOnDisk DEF start
            <4> QED
                BY <1>6, <4>1, <4>2
        <3>5. SlotHolds(s, b)'
            BY <3>2, <3>3, <3>4 DEF SlotHolds, buf
        <3> QED
            BY <1>10, <3>1, <3>5
    <2>2. CASE s # slot
        <3> HIDE DEF b, slot, start, buf
        <3>1. c \in latest[s]
            BY <1>1, <1>3, <1>4, <2>2
        <3>2. c \in saved /\ SlotHolds(s, c)
            BY <3>1 DEF CardInv
        <3>3. SlotLBA(s).outcome = "ok"
            BY <3>2 DEF SlotHolds
        <3>4. ASSUME NEW i \in 1..SlotSize PROVE disk'[SlotStart(s) + i - 1] = disk[SlotStart(s) + i - 1]
            <4> DEFINE p == SlotStart(s) + i - 1
            <4>1. p \in DOMAIN disk
                BY <3>3, SlotOnDisk
            <4>2. SlotOf(p) = s
                BY <1>3, SlotPlaces
            <4> HIDE DEF p
            <4>3. p \notin start..(start + k - 1)
                <5> SUFFICES ASSUME p \in start..(start + k - 1) PROVE FALSE
                    OBVIOUS
                <5> DEFINE n == p - start + 1
                <5>1. n \in 1..SlotSize /\ start + n - 1 = p
                    BY <1>7
                <5> HIDE DEF n
                <5>2. SlotOf(start + n - 1) = slot
                    BY <1>3, <1>4, <5>1, SlotPlaces DEF start
                <5> QED
                    BY <2>2, <4>2, <5>1, <5>2
            <4> QED
                BY <1>6, <4>1, <4>3 DEF p
        <3>5. SlotHolds(s, c)'
            BY <1>9, <3>2, <3>4 DEF SlotHolds
        <3> QED
            BY <1>10, <3>2, <3>5
    <2> QED
        BY <2>1, <2>2
<1>14. \A c \in saved' : IsBlob(c)
    BY <1>1, <1>2 DEF CardInv
<1>15. /\ device' \in Devices /\ DOMAIN latest' = 0..1
       /\ DOMAIN disk' = 0..(device'.blockSize * device'.blocks - 1)
    BY <1>1, <1>3, <1>8
<1> QED
    <2>1. \A p \in DOMAIN disk' : IsCardByte(p, disk[p])'
        BY <1>8, <1>12 DEF IsCardByte
    <2> QED
        BY <1>13, <1>14, <1>15, <2>1 DEF CardInv

\* Nor does a byte in other hands.
LEMMA CorruptKeepsInv ==
    ASSUME CardInv, NEW p \in DOMAIN disk, Corrupt(p)
    PROVE  CardInv'
<1>1. PICK c \in IF InSlot(p) <= HeaderLen THEN Bytes ELSE Ciphers : disk' = [disk EXCEPT ![p] = c]
    BY DEF Corrupt
<1>2. OfSlots(p) /\ latest' = [latest EXCEPT ![SlotOf(p)] = {}] /\ device' = device /\ saved' = saved
    BY DEF Corrupt
<1>3. /\ device \in Devices /\ DOMAIN disk = 0..(device.blockSize * device.blocks - 1)
      /\ \A q \in DOMAIN disk : IsCardByte(q, disk[q])
      /\ \A b \in saved : IsBlob(b)
      /\ DOMAIN latest = 0..1
    BY DEF CardInv
<1>4. SlotOf(p) \in 0..1
    <2>1. p \in Int
        BY <1>3
    <2> QED
        BY <1>2, <1>3, <2>1, SlotOfByte
<1>5. IsCardByte(p, c)
    <2>1. CASE InSlot(p) <= HeaderLen
        BY <1>1, <1>2, <2>1 DEF IsCardByte
    <2>2. CASE ~(InSlot(p) <= HeaderLen)
        <3>1. c = ZeroByte \/ \E b \in saved : \E i \in DOMAIN Ciphertext(b) : c = Ciphertext(b)[i]
            BY <1>1, <2>2 DEF Ciphers
        <3>2. ASSUME NEW b \in saved, NEW i \in DOMAIN Ciphertext(b), c = Ciphertext(b)[i]
              PROVE  \E j \in Nat : c = CipherOf(b, j)
            <4> DEFINE text == encode(b.states).bytes
            <4>1. text \in Seq(Bytes)
                BY <1>3, BlobText
            <4> HIDE DEF text
            <4>2. Ciphertext(b) = Seal(b.nonce, text, genAAD(b.gen))
                BY Zenon DEF Ciphertext, text
            <4>3. /\ DOMAIN Ciphertext(b) = 1..(Len(text) + TagLen)
                  /\ \A j \in 1..(Len(text) + TagLen) : Ciphertext(b)[j] = CipherByte(b.nonce, genAAD(b.gen), text, j)
                BY <4>1, <4>2, SealLen
            <4>4. c = CipherByte(b.nonce, genAAD(b.gen), text, i) /\ i \in Nat
                BY <3>2, <4>3
            <4> QED
                BY <4>4 DEF CipherOf, text
        <3> QED
            BY <1>2, <2>2, <3>1, <3>2 DEF IsCardByte
    <2> QED
        BY <2>1, <2>2
<1>6. DOMAIN disk' = DOMAIN disk /\ disk'[p] = c /\ \A q \in DOMAIN disk : q # p => disk'[q] = disk[q]
    BY <1>1
<1>7. ASSUME NEW q \in DOMAIN disk, NEW x, x = disk'[q] PROVE IsCardByte(q, x)'
    <2>1. IsCardByte(q, x)
        BY <1>3, <1>5, <1>6, <1>7
    <2> QED
        BY <1>2, <2>1, CardBytesStay
<1>8. ASSUME NEW s PROVE SlotStart(s)' = SlotStart(s) /\ SlotLBA(s)' = SlotLBA(s)
    BY <1>2 DEF SlotStart, SlotLBA
<1>9. ASSUME NEW s \in 0..1, NEW b \in latest'[s] PROVE b \in saved' /\ SlotHolds(s, b)'
    <2>1. s # SlotOf(p) /\ b \in latest[s]
        BY <1>2, <1>3, <1>4
    <2>2. b \in saved /\ SlotHolds(s, b)
        BY <2>1 DEF CardInv
    <2>3. SlotLBA(s).outcome = "ok"
        BY <2>2 DEF SlotHolds
    <2>4. ASSUME NEW i \in 1..SlotSize PROVE disk'[SlotStart(s) + i - 1] = disk[SlotStart(s) + i - 1]
        <3> DEFINE q == SlotStart(s) + i - 1
        <3>1. q \in DOMAIN disk
            BY <2>3, SlotOnDisk
        <3>2. SlotOf(q) = s
            BY <1>3, SlotPlaces
        <3> HIDE DEF q
        <3>3. q # p
            BY <2>1, <3>2
        <3> QED
            BY <1>6, <3>1, <3>3 DEF q
    <2>5. SlotHolds(s, b)'
        BY <1>8, <2>2, <2>4 DEF SlotHolds
    <2> QED
        BY <1>2, <2>2, <2>5
<1>10. /\ device' \in Devices /\ DOMAIN latest' = 0..1 /\ \A b \in saved' : IsBlob(b)
       /\ DOMAIN disk' = 0..(device'.blockSize * device'.blocks - 1)
    BY <1>2, <1>3, <1>6
<1> QED
    <2>1. \A q \in DOMAIN disk' : IsCardByte(q, disk[q])'
        BY <1>6, <1>7 DEF IsCardByte
    <2> QED
        BY <1>9, <1>10, <2>1 DEF CardInv

\* A card holds nothing but headers and ciphertexts Save made, whatever the order of saves,
\* power cuts and corruptions, and a blob written completely is there byte for byte (Save).
THEOREM CardInvariant == CardSpec => []CardInv
<1>1. CardInv /\ [CardNext]_cardVars => CardInv'
    <2> SUFFICES ASSUME CardInv, [CardNext]_cardVars PROVE CardInv'
        OBVIOUS
    <2>1. CASE UNCHANGED cardVars
        BY <2>1 DEF cardVars, CardInv, IsCardByte, SlotHolds, SlotStart, SlotLBA, OfSlots, InSlot
    <2>2. ASSUME NEW gen \in Generations, NEW nonce \in Nonces, NEW states \in StateMaps,
                 NEW k \in 0..SlotSize, Save(gen, nonce, states, k)
          PROVE  CardInv'
        BY <2>2, SaveKeepsInv
    <2>3. ASSUME NEW p \in DOMAIN disk, Corrupt(p) PROVE CardInv'
        BY <2>3, CorruptKeepsInv
    <2> QED
        BY <2>1, <2>2, <2>3 DEF CardNext
<1> QED
    BY <1>1, CardStart, PTL DEF CardSpec

\* Whatever was written to a card, wherever the writes were cut and whoever had the card
\* in between, a slot loads as a blob that was saved or as an error, and the last blob
\* written completely to an untouched slot loads (Save, Load and loadSlot), for every
\* device, width of the fields, generation and map of states.
THEOREM SlotsAlwaysReadBack == CardSpec => []SlotsReadBack
<1>1. CardInv => SlotsReadBack
    <2> SUFFICES ASSUME CardInv, NEW s \in 0..1
                 PROVE  /\ Load(s).outcome = "error" \/ \E b \in saved : Load(s) = Loaded(b)
                        /\ \A b \in latest[s] : Load(s) = Loaded(b)
        BY DEF SlotsReadBack
    <2>1. CASE SlotLBA(s).outcome # "ok"
        <3>1. Load(s).outcome = "error"
            BY <2>1 DEF Load, Failed
        <3>2. latest[s] = {}
            BY <2>1 DEF CardInv, SlotHolds
        <3> QED
            BY <3>1, <3>2
    <2>2. CASE SlotLBA(s).outcome = "ok"
        <3> DEFINE buf == ReadBlocks(SlotLBA(s).lba)
        <3>1. Load(s) = loadSlot(buf)
            BY <2>2 DEF Load
        <3>2. device \in Devices /\ \A b \in saved : IsBlob(b)
            BY DEF CardInv
        <3>3. SlotLBA(s).lba * device.blockSize = SlotStart(s)
            BY <2>2, <3>2, SlotFits
        <3>4. \A i \in 1..SlotSize : buf[i] = disk[SlotStart(s) + i - 1]
            BY <3>3 DEF ReadBlocks
        <3> HIDE DEF buf
        <3>5. ASSUME NEW i \in 1..SlotSize
              PROVE  IF i <= HeaderLen THEN buf[i] \in Bytes
                     ELSE buf[i] = ZeroByte \/ \E b \in saved, j \in Nat : buf[i] = CipherOf(b, j)
            <4> DEFINE p == SlotStart(s) + i - 1
            <4>1. p \in DOMAIN disk
                BY <2>2, SlotOnDisk
            <4>2. OfSlots(p) /\ InSlot(p) = i
                BY <3>2, SlotPlaces
            <4>3. buf[i] = disk[p]
                BY <3>4
            <4> HIDE DEF p
            <4>4. IsCardByte(p, buf[i])
                BY <4>1, <4>3 DEF CardInv
            <4> QED
                BY <4>2, <4>4 DEF IsCardByte
        <3>6. SlotOfBlobs(buf, saved)
            <4>1. ASSUME NEW i \in 1..HeaderLen PROVE buf[i] \in Bytes
                <5>1. i \in 1..SlotSize /\ i <= HeaderLen
                    BY HeaderFacts
                <5> QED
                    BY <3>5, <5>1
            <4>2. ASSUME NEW i \in (HeaderLen + 1)..SlotSize
                  PROVE  buf[i] = ZeroByte \/ \E b \in saved, j \in Nat : buf[i] = CipherOf(b, j)
                <5>1. i \in 1..SlotSize /\ ~(i <= HeaderLen)
                    BY HeaderFacts
                <5> QED
                    BY <3>5, <5>1
            <4> QED
                BY <4>1, <4>2 DEF SlotOfBlobs
        <3>7. loadSlot(buf).outcome = "error" \/ \E b \in saved : loadSlot(buf) = Loaded(b)
            BY <3>2, <3>6, LoadsSavedOnly
        <3>8. ASSUME NEW b \in latest[s] PROVE loadSlot(buf) = Loaded(b)
            <4>1. b \in saved /\ SlotHolds(s, b)
                BY DEF CardInv
            <4>2. \A i \in 1..SlotSize : buf[i] = save(b.gen, b.nonce, b.states).buf[i]
                BY <3>4, <4>1 DEF SlotHolds
            <4> QED
                BY <3>2, <4>1, <4>2, SavedLoads
        <3> QED
            BY <3>1, <3>7, <3>8
    <2> QED
        BY <2>1, <2>2
<1> QED
    BY <1>1, CardInvariant, PTL

\* On any device slotLBA accepts a slot of, the slot lies inside the device where it
\* should, and nothing outside the slots is ever written (Save, slotLBA), for every block
\* size, device size and offset.
THEOREM SlotsAlwaysApart == CardSpec => []SlotsApart
<1>1. CardInv => SlotsApart
    <2> SUFFICES ASSUME CardInv PROVE SlotsApart
        OBVIOUS
    <2>1. device \in Devices
        BY DEF CardInv
    <2>2. ASSUME NEW s \in 0..1, SlotLBA(s).outcome = "ok"
          PROVE  /\ SlotLBA(s).lba * device.blockSize = device.offset + s * SlotSize
                 /\ device.offset + (s + 1) * SlotSize <= device.blockSize * device.blocks
                 /\ SlotLBA(0).outcome = "ok"
        <3>1. /\ SlotLBA(s).lba * device.blockSize = SlotStart(s)
              /\ SlotStart(s) + SlotSize <= device.blockSize * device.blocks
              /\ SlotLBA(0).outcome = "ok"
            BY <2>1, <2>2, SlotFits
        <3>2. SlotStart(s) + SlotSize = device.offset + (s + 1) * SlotSize
            BY <2>1, DeviceFacts, HeaderFacts DEF SlotStart
        <3> QED
            BY <3>1, <3>2 DEF SlotStart
    <2>3. ASSUME NEW p \in DOMAIN disk PROVE OfSlots(p) \/ disk[p] = ZeroByte
        BY DEF CardInv, IsCardByte
    <2> QED
        BY <2>2, <2>3 DEF SlotsApart
<1> QED
    BY <1>1, CardInvariant, PTL

-----------------------------------------------------------------------------
(* The scripted clients *)

\* The only head of size 0 a witness holds is that of the empty tree.
EmptyHeld(v) ==
    \A o \in Origins : v[o] \in Heads /\ SizeOf(v[o]) = 0 => v[o] = EmptyHead

\* A view a witness may get to from the view old.
Grown(new, old) ==
    /\ new \in Views /\ EmptyHeld(new)
    /\ \A o \in Origins : Extends(new[o], old[o]) /\ SizeHeld(old[o]) <= SizeHeld(new[o])

\* The heads of the selftest log.
Held3 == TreeHead(Log3)
Held5 == TreeHead(Log5)

ScriptTypeOK ==
    /\ view \in Views /\ began \in Views /\ done \in Nat
    /\ tool \in {"none", "selftest", "replay"}
    /\ failed \in BOOLEAN /\ alone \in BOOLEAN /\ tested \in BOOLEAN

\* How far a selftest came, and what that says of the view it began with.
SelftestInv ==
    /\ script = SelftestSteps /\ done <= 5
    /\ Grown(view, began)
    /\ done > 0 => SizeHeld(began[SelftestOrigin]) = 0 /\ SizeHeld(view[SelftestOrigin]) >= 3
    /\ done = 5 => SizeHeld(began[UnknownOrigin]) = 0
    /\ tested => SizeHeld(began[SelftestOrigin]) >= 3
    /\ alone =>
          /\ done = 0 => view[SelftestOrigin] = began[SelftestOrigin]
          /\ done \in {1, 2} => view[SelftestOrigin] = Held3
          /\ done \in {3, 4, 5} => view[SelftestOrigin] = Held5
          /\ done < 5 => view[UnknownOrigin] = began[UnknownOrigin]
          /\ failed => \/ done = 0 /\ SizeHeld(began[SelftestOrigin]) # 0
                       \/ done = 4 /\ SizeHeld(began[UnknownOrigin]) # 0

\* The head a replay leaves after n submissions.
HeldAfter(n, cp1, cp2) == IF n = 0 THEN NoNote ELSE IF n >= 4 THEN cp2 ELSE cp1

\* How far the replay of the manifest of a log came.
ReplayedFrom(o, cp1, cp2) ==
    /\ Follows(cp2, cp1) /\ Record(o, cp1, cp2).written
    /\ script = Record(o, cp1, cp2).steps
    /\ SizeOf(cp1) > 0 =>
          /\ ~failed /\ done <= Len(script)
          /\ view[o] = HeldAfter(done, cp1, cp2)

ScriptInv ==
    /\ ScriptTypeOK /\ EmptyHeld(view)
    /\ tested => SizeHeld(view[SelftestOrigin]) >= 3
    /\ tool = "none" => script = <<>>
    /\ tool = "selftest" => SelftestInv
    /\ tool = "replay" =>
          ~tested /\ \E o \in Origins, cp1, cp2 \in Heads : ReplayedFrom(o, cp1, cp2)

\* What is accepted over a view makes it grow.
LEMMA AcceptedGrows ==
    ASSUME NEW v \in Views, EmptyHeld(v), NEW o \in Origins, NEW r, r.head \in Heads, r.old \in Nat,
           Verdict(v[o], r) = 200
    PROVE  Grown([v EXCEPT ![o] = r.head], v)
<1> DEFINE h == r.head
           prev == v[o]
           new == [v EXCEPT ![o] = h]
<1>1. prev \in Heads \cup {NoNote} /\ h \in Heads /\ h # NoNote /\ SizeOf(h) \in Nat
    BY HeadsAssumption, NoNoteAssumption DEF Views
<1>2. new \in Views /\ new[o] = h /\ \A p \in Origins \ {o} : new[p] = v[p]
    BY <1>1 DEF Views
<1>3. SizeHeld(prev) \in Nat /\ (prev \in Heads => SizeHeld(prev) = SizeOf(prev))
    BY <1>1, HeadsAssumption, NoNoteAssumption DEF SizeHeld
<1>4. r.old <= SizeOf(h) /\ r.old = SizeHeld(prev) /\ Consistent(prev, r)
    BY <1>1, <1>3 DEF Verdict
<1>5. SizeOf(h) = 0 => h = EmptyHead
    BY <1>4 DEF Consistent
<1>6. Extends(h, prev)
    <2> SUFFICES ASSUME prev \in Heads PROVE Follows(h, prev)
        BY <1>1 DEF Extends
    <2>1. CASE SizeOf(h) = 0
        <3>1. SizeOf(prev) = 0
            BY <1>1, <1>3, <1>4, <2>1
        <3> QED
            BY <1>5, <2>1, <3>1, FollowsAssumption DEF EmptyHeld
    <2>2. CASE SizeOf(h) # 0 /\ r.old = SizeOf(h)
        BY <1>1, <1>4, <2>2, FollowsAssumption DEF Consistent
    <2>3. CASE SizeOf(h) # 0 /\ r.old # SizeOf(h) /\ r.old = 0
        <3>1. prev = EmptyHead /\ SizeOf(h) > 0
            BY <1>1, <1>3, <1>4, <2>3 DEF EmptyHeld
        <3> QED
            BY <1>1, <3>1, HeadsAssumption
    <2>4. CASE SizeOf(h) # 0 /\ r.old # SizeOf(h) /\ r.old # 0
        BY <1>4, <2>4 DEF Consistent
    <2> QED
        BY <2>1, <2>2, <2>3, <2>4
<1>7. SizeHeld(prev) <= SizeHeld(h)
    BY <1>1, <1>3, <1>4 DEF SizeHeld
<1>8. EmptyHeld(new)
    BY <1>2, <1>5 DEF EmptyHeld
<1>9. ASSUME NEW p \in Origins
      PROVE  Extends(new[p], v[p]) /\ SizeHeld(v[p]) <= SizeHeld(new[p])
    <2>1. CASE p = o
        BY <1>2, <1>6, <1>7, <2>1
    <2>2. CASE p # o
        <3>1. new[p] = v[p] /\ v[p] \in Heads \cup {NoNote}
            BY <1>2, <2>2 DEF Views
        <3>2. Extends(v[p], v[p])
            BY <3>1, FollowsAssumption DEF Extends
        <3>3. SizeHeld(v[p]) \in Nat
            BY <3>1, HeadsAssumption DEF SizeHeld
        <3> QED
            BY <3>1, <3>2, <3>3
    <2> QED
        BY <2>1, <2>2
<1> QED
    BY <1>2, <1>8, <1>9 DEF Grown

\* Growing is transitive, and reflexive for views that hold no other empty head.
LEMMA GrownTwice ==
    ASSUME NEW a \in Views, NEW b \in Views, NEW c \in Views, Grown(b, a), Grown(c, b)
    PROVE  Grown(c, a)
<1> SUFFICES ASSUME NEW o \in Origins
             PROVE  Extends(c[o], a[o]) /\ SizeHeld(a[o]) <= SizeHeld(c[o])
    BY DEF Grown
<1>1. {a[o], b[o], c[o]} \subseteq Heads \cup {NoNote}
    BY DEF Views
<1>2. Extends(b[o], a[o]) /\ Extends(c[o], b[o])
    BY DEF Grown
<1>3. Extends(c[o], a[o])
    BY <1>1, <1>2, FollowsAssumption DEF Extends
<1>4. \A h \in Heads \cup {NoNote} : SizeHeld(h) \in Nat
    BY HeadsAssumption DEF SizeHeld
<1>5. SizeHeld(a[o]) <= SizeHeld(b[o]) /\ SizeHeld(b[o]) <= SizeHeld(c[o])
    BY DEF Grown
<1> QED
    BY <1>1, <1>3, <1>4, <1>5

\* Holding what one holds is growth too.
LEMMA GrownSame ==
    ASSUME NEW v \in Views, EmptyHeld(v)
    PROVE  Grown(v, v)
<1> SUFFICES ASSUME NEW o \in Origins
             PROVE  Extends(v[o], v[o]) /\ SizeHeld(v[o]) <= SizeHeld(v[o])
    BY DEF Grown
<1>1. v[o] \in Heads \cup {NoNote}
    BY DEF Views
<1>2. SizeHeld(v[o]) \in Nat
    BY <1>1, HeadsAssumption DEF SizeHeld
<1> QED
    BY <1>1, <1>2, FollowsAssumption DEF Extends

\* A submission makes the view grow, whatever the answer.
LEMMA StoredGrows ==
    ASSUME view \in Views, EmptyHeld(view), NEW s, s.origin \in Origins, s.head \in Heads, s.old \in Nat
    PROVE  /\ Grown(Stored(s), view)
           /\ \A o \in Origins \ {s.origin} : Stored(s)[o] = view[o]
           /\ Verdict(view[s.origin], s) = 200 => Stored(s)[s.origin] = s.head
           /\ Verdict(view[s.origin], s) # 200 => Stored(s) = view
<1>1. CASE Verdict(view[s.origin], s) = 200
    <2>1. Stored(s) = [view EXCEPT ![s.origin] = s.head]
        BY <1>1 DEF Stored
    <2>2. Grown([view EXCEPT ![s.origin] = s.head], view)
        BY <1>1, AcceptedGrows
    <2>3. /\ \A o \in Origins \ {s.origin} : Stored(s)[o] = view[o]
          /\ Stored(s)[s.origin] = s.head
        BY <2>1 DEF Views
    <2> QED
        BY <1>1, <2>1, <2>2, <2>3
<1>2. CASE Verdict(view[s.origin], s) # 200
    BY <1>2, GrownSame DEF Stored
<1> QED
    BY <1>1, <1>2

\* The submissions of selftest.
LEMMA SelftestScript ==
    /\ Len(SelftestSteps) = 5
    /\ SelftestSteps[1] = Step(SelftestOrigin, 0, "none", Held3, 200)
    /\ SelftestSteps[2] = [Step(SelftestOrigin, 0, "none", Held3, 409) EXCEPT !.latest = {3}]
    /\ SelftestSteps[3] = Step(SelftestOrigin, 3, "log", Held5, 200)
    /\ SelftestSteps[4] = Step(SelftestOrigin, 5, "log", TreeHead(Fork7), 422)
    /\ SelftestSteps[5] = Step(UnknownOrigin, 0, "none", Held3, 200)
BY DEF SelftestSteps, ProveTree, Held3, Held5

\* The sizes of the heads of the script.
LEMMA SelftestSizes ==
    /\ {Held3, Held5, TreeHead(Fork7)} \subseteq Heads
    /\ SizeOf(Held3) = 3 /\ SizeOf(Held5) = 5 /\ SizeOf(TreeHead(Fork7)) = 7
<1>1. Len(Log3) = 3 /\ Len(Log5) = 5 /\ Len(Fork7) = 7
    BY DEF Log3, Log5, Fork7, AppendRecords
<1> QED
    BY <1>1, SelftestHeads DEF Held3, Held5

\* Their fields.
LEMMA SelftestFields ==
    /\ \A i \in 1..5 : /\ SelftestSteps[i].origin = IF i = 5 THEN UnknownOrigin ELSE SelftestOrigin
                       /\ SelftestSteps[i].head \in Heads /\ SelftestSteps[i].old \in Nat
                       /\ SelftestSteps[i].latest = IF i = 2 THEN {3} ELSE {}
    /\ SelftestSteps[1].head = Held3 /\ SelftestSteps[3].head = Held5
    /\ SelftestSteps[1].status = 200 /\ SelftestSteps[2].status = 409
    /\ SelftestSteps[3].status = 200 /\ SelftestSteps[4].status = 422 /\ SelftestSteps[5].status = 200
<1>1. \A i \in 1..5 : i = 1 \/ i = 2 \/ i = 3 \/ i = 4 \/ i = 5
    OBVIOUS
<1> QED
    BY <1>1, SelftestScript, SelftestSizes DEF Step

\* The answers to them, from what the witness holds of their log.
LEMMA SelftestVerdicts ==
    ASSUME NEW p \in Heads \cup {NoNote}
    PROVE  /\ \A i \in {1, 2, 5} :
                  Verdict(p, SelftestSteps[i]) = IF SizeHeld(p) = 0 THEN 200 ELSE 409
           /\ SizeHeld(Held3) = 3 /\ SizeHeld(Held5) = 5
           /\ p = Held3 => Verdict(p, SelftestSteps[3]) = 200
           /\ p = Held5 => Verdict(p, SelftestSteps[4]) = 422
<1>1. SizeHeld(p) \in Nat /\ SizeHeld(Held3) = 3 /\ SizeHeld(Held5) = 5
    BY SelftestSizes, HeadsAssumption, NoNoteAssumption DEF SizeHeld
<1>2. ASSUME NEW i \in {1, 2, 5}
      PROVE  Verdict(p, SelftestSteps[i]) = IF SizeHeld(p) = 0 THEN 200 ELSE 409
    <2>1. LET r == SelftestSteps[i] IN r.old = 0 /\ r.head = Held3 /\ r.proof = "none"
        BY SelftestScript DEF Step
    <2> QED
        BY <1>1, <2>1, SelftestSizes DEF Verdict, Consistent
<1>3. p = Held3 => Verdict(p, SelftestSteps[3]) = 200
    <2>1. LET r == SelftestSteps[3] IN r.old = 3 /\ r.head = Held5 /\ r.proof = "log"
        BY SelftestScript DEF Step
    <2>2. Follows(Held5, Held3)
        BY SelftestHeads DEF Held3, Held5
    <2> QED
        BY <1>1, <2>1, <2>2, SelftestSizes DEF Verdict, Consistent
<1>4. p = Held5 => Verdict(p, SelftestSteps[4]) = 422
    <2>1. LET r == SelftestSteps[4] IN r.old = 5 /\ r.head = TreeHead(Fork7) /\ r.proof = "log"
        BY SelftestScript DEF Step
    <2>2. ~Follows(TreeHead(Fork7), Held5)
        BY SelftestHeads DEF Held5
    <2> QED
        BY <1>1, <2>1, <2>2, SelftestSizes DEF Verdict, Consistent
<1> QED
    BY <1>1, <1>2, <1>3, <1>4

\* A view that grew keeps what an unfinished run says of the view it began with.
LEMMA SelftestViewGrows ==
    ASSUME ScriptInv, tool = "selftest", NEW v \in Views, Grown(v, view)
    PROVE  /\ Grown(v, began)
           /\ done > 0 => SizeHeld(v[SelftestOrigin]) >= 3
           /\ tested => SizeHeld(v[SelftestOrigin]) >= 3
           /\ SizeHeld(v[SelftestOrigin]) \in Nat /\ SizeHeld(view[SelftestOrigin]) \in Nat
<1>1. Grown(v, began)
    BY GrownTwice DEF ScriptInv, ScriptTypeOK, SelftestInv
<1>2. /\ \A h \in Heads \cup {NoNote} : SizeHeld(h) \in Nat
      /\ SelftestOrigin \in Origins
    BY HeadsAssumption, ScriptOrigins DEF SizeHeld, ScriptLogs
<1>3. SizeHeld(v[SelftestOrigin]) \in Nat /\ SizeHeld(view[SelftestOrigin]) \in Nat
    BY <1>2 DEF Views, ScriptInv, ScriptTypeOK
<1>4. SizeHeld(view[SelftestOrigin]) <= SizeHeld(v[SelftestOrigin])
    BY <1>2 DEF Grown
<1> QED
    BY <1>1, <1>3, <1>4 DEF ScriptInv, SelftestInv

\* Selftest starts from any view.
LEMMA SelftestKeepsInv == ScriptInv /\ Selftest => ScriptInv'
<1> SUFFICES ASSUME ScriptInv, Selftest PROVE ScriptInv'  OBVIOUS
<1>1. /\ tool' = "selftest" /\ script' = SelftestSteps /\ done' = 0 /\ view' = view
      /\ began' = view /\ failed' = FALSE /\ alone' = TRUE
      /\ tested' = (tested \/ (tool = "selftest" /\ Passed))
    BY DEF Selftest, Begin
<1>2. tested' => SizeHeld(view[SelftestOrigin]) >= 3
    <2>1. tool = "selftest" /\ Passed => done = 5
        BY SelftestScript DEF Passed, ScriptInv, SelftestInv
    <2>2. tool = "selftest" /\ Passed => SizeHeld(view[SelftestOrigin]) >= 3
        BY <2>1 DEF ScriptInv, SelftestInv
    <2>3. tested => SizeHeld(view[SelftestOrigin]) >= 3
        BY DEF ScriptInv
    <2> QED
        BY <1>1, <2>2, <2>3, Zenon
<1>3. ScriptTypeOK' /\ EmptyHeld(view')
    BY <1>1 DEF ScriptInv, ScriptTypeOK
<1>4. Grown(view', began')
    BY <1>1, GrownSame DEF ScriptInv, ScriptTypeOK
<1>5. SelftestInv'
    BY <1>1, <1>2, <1>4 DEF SelftestInv
<1> QED
    BY <1>1, <1>2, <1>3, <1>5 DEF ScriptInv

\* A replay starts with a witness of its own.
LEMMA ReplayKeepsInv ==
    ASSUME ScriptInv, NEW o \in Origins, NEW cp1 \in Heads, NEW cp2 \in Heads, Replay(o, cp1, cp2)
    PROVE  ScriptInv'
<1>1. /\ tool' = "replay" /\ script' = Record(o, cp1, cp2).steps /\ done' = 0 /\ view' = Nothing
      /\ began' = Nothing /\ failed' = FALSE /\ alone' = TRUE /\ tested' = FALSE
      /\ Follows(cp2, cp1) /\ Record(o, cp1, cp2).written
    BY DEF Replay, Begin
<1>2. Nothing \in Views /\ EmptyHeld(Nothing) /\ Nothing[o] = NoNote
    BY NoNoteAssumption DEF Nothing, Views, EmptyHeld
<1>3. ScriptTypeOK' /\ EmptyHeld(view')
    BY <1>1, <1>2 DEF ScriptTypeOK
<1>4. Len(script') >= 0
    BY <1>1 DEF Record
<1>5. ReplayedFrom(o, cp1, cp2)'
    BY <1>1, <1>2, <1>4 DEF ReplayedFrom, HeldAfter
<1> QED
    BY <1>1, <1>3, <1>5 DEF ScriptInv

\* Where a selftest that has not ended is.
LEMMA SelftestRunning ==
    ASSUME ScriptInv, tool = "selftest", Running
    PROVE  done \in 0..4 /\ ~failed /\ script = SelftestSteps
<1>1. done \in Nat /\ script = SelftestSteps
    BY DEF ScriptInv, ScriptTypeOK, SelftestInv
<1>2. ~failed /\ done < Len(script)
    BY DEF Running
<1> QED
    BY <1>1, <1>2, SelftestScript

\* A submission of selftest: the five of them, expected or not.
LEMMA SelftestSubmitKeepsInv ==
    ASSUME ScriptInv, tool = "selftest", Submit
    PROVE  ScriptInv'
<1> DEFINE S == SelftestOrigin
           U == UnknownOrigin
           s == SelftestSteps[done + 1]
           code == Verdict(view[s.origin], s)
           expected == code = s.status /\ s.latest \subseteq {SizeHeld(view[s.origin])}
<1>1. done \in 0..4 /\ ~failed
    BY SelftestRunning DEF Submit
<1>2. /\ view' = Stored(s) /\ UNCHANGED <<tool, script, began, alone, tested>>
      /\ expected => done' = done + 1 /\ failed' = FALSE
      /\ ~expected => done' = done /\ failed' = TRUE
    <2>1. script = SelftestSteps
        BY SelftestRunning DEF Submit
    <2>2. /\ view' = Stored(s) /\ UNCHANGED <<tool, script, began, alone, tested>>
          /\ done' = (IF expected THEN done + 1 ELSE done) /\ failed' = ~expected
        BY <2>1 DEF Submit
    <2> QED
        BY <2>2
<1>3. S \in Origins /\ U \in Origins /\ S # U
    BY ScriptOrigins DEF ScriptLogs
<1>4. /\ s.origin = IF done = 4 THEN U ELSE S
      /\ s.head \in Heads /\ s.old \in Nat /\ s.latest = IF done = 1 THEN {3} ELSE {}
    <2> DEFINE i == done + 1
    <2>1. i \in 1..5 /\ (i = 5 <=> done = 4) /\ (i = 2 <=> done = 1)
        BY <1>1
    <2> HIDE DEF i
    <2>2. /\ SelftestSteps[i].origin = IF i = 5 THEN U ELSE S
          /\ SelftestSteps[i].head \in Heads /\ SelftestSteps[i].old \in Nat
          /\ SelftestSteps[i].latest = IF i = 2 THEN {3} ELSE {}
        BY <2>1, SelftestFields, ZenonT(30)
    <2>3. (i = 5) = (done = 4) /\ (i = 2) = (done = 1)
        BY <2>1
    <2>4. SelftestSteps[i] = s
        BY DEF i
    <2> QED
        BY <2>2, <2>3, <2>4, Zenon
<1>5. /\ view \in Views /\ EmptyHeld(view) /\ SelftestInv /\ began \in Views
      /\ view[S] \in Heads \cup {NoNote} /\ view[U] \in Heads \cup {NoNote}
    BY <1>3 DEF ScriptInv, ScriptTypeOK, Views
<1>6. /\ Grown(view', view)
      /\ \A o \in Origins \ {s.origin} : view'[o] = view[o]
      /\ code = 200 => view'[s.origin] = s.head
      /\ code # 200 => view' = view
    <2>1. s.origin \in Origins
        BY <1>3, <1>4
    <2> HIDE DEF s
    <2> QED
        BY <1>2, <1>4, <1>5, <2>1, StoredGrows
<1>7. /\ view' \in Views /\ EmptyHeld(view') /\ Grown(view', began)
      /\ done > 0 => SizeHeld(view'[S]) >= 3
      /\ tested => SizeHeld(view'[S]) >= 3
    BY <1>6, SelftestViewGrows DEF Grown
<1>8. /\ SizeHeld(began[S]) \in Nat /\ SizeHeld(view[S]) \in Nat /\ SizeHeld(began[S]) <= SizeHeld(view[S])
      /\ SizeHeld(began[U]) \in Nat /\ SizeHeld(view[U]) \in Nat /\ SizeHeld(began[U]) <= SizeHeld(view[U])
    <2>1. \A h \in Heads \cup {NoNote} : SizeHeld(h) \in Nat
        BY HeadsAssumption DEF SizeHeld
    <2> QED
        BY <1>3, <1>5, <2>1 DEF SelftestInv, Grown, Views
<1>9. ScriptTypeOK'
    <2> HIDE DEF expected
    <2>1. done' \in {done, done + 1} /\ failed' \in BOOLEAN
        BY <1>2, Zenon
    <2>2. done' \in Nat
        BY <1>1, <2>1
    <2> QED
        BY <1>2, <1>7, <2>1, <2>2 DEF ScriptInv, ScriptTypeOK
<1>10. SelftestInv'
    <2> HIDE DEF s, code, expected
    <2>0. /\ script' = SelftestSteps /\ done' \in 0..5 /\ done' <= done + 1
          /\ tested' => SizeHeld(began'[S]) >= 3
        BY <1>1, <1>2, <1>5 DEF SelftestInv
    <2>1. CASE done = 0
        <3>1. s.origin = S /\ s.head = Held3 /\ s.status = 200 /\ s.latest = {}
              /\ code = IF SizeHeld(view[S]) = 0 THEN 200 ELSE 409
            BY <1>1, <1>4, <1>5, <2>1, SelftestFields, SelftestVerdicts DEF s, code
        <3>2. expected <=> SizeHeld(view[S]) = 0
            BY <3>1 DEF expected
        <3>3. view'[U] = view[U]
            BY <1>3, <1>6, <3>1
        <3>4. expected => view'[S] = Held3 /\ SizeHeld(view'[S]) = 3
            BY <1>5, <1>6, <3>1, <3>2, SelftestVerdicts
        <3>5. ~expected => view' = view
            BY <1>6, <3>1, <3>2
        <3> QED
            BY <1>2, <1>5, <1>7, <1>8, <2>0, <2>1, <3>2, <3>3, <3>4, <3>5 DEF SelftestInv
    <2>2. CASE done = 1
        <3>1. s.origin = S /\ s.status = 409 /\ s.latest = {3}
              /\ code = IF SizeHeld(view[S]) = 0 THEN 200 ELSE 409
            BY <1>1, <1>4, <1>5, <2>2, SelftestFields, SelftestVerdicts DEF s, code
        <3>2. code = 409 /\ view' = view
            BY <1>5, <1>6, <1>8, <2>2, <3>1 DEF SelftestInv
        <3>3. alone => expected
            BY <1>5, <2>2, <3>1, <3>2, SelftestVerdicts DEF expected, SelftestInv
        <3> QED
            BY <1>2, <1>5, <1>7, <2>0, <2>2, <3>2, <3>3 DEF SelftestInv
    <2>3. CASE done = 2
        <3>1. s.origin = S /\ s.head = Held5 /\ s.status = 200 /\ s.latest = {}
              /\ (view[S] = Held3 => code = 200)
            BY <1>1, <1>4, <1>5, <2>3, SelftestFields, SelftestVerdicts DEF s, code
        <3>2. view'[U] = view[U]
            BY <1>3, <1>6, <3>1
        <3>3. alone => expected /\ view'[S] = Held5
            BY <1>5, <1>6, <2>3, <3>1 DEF expected, SelftestInv
        <3> QED
            BY <1>2, <1>5, <1>7, <2>0, <2>3, <3>2, <3>3 DEF SelftestInv
    <2>4. CASE done = 3
        <3>1. s.origin = S /\ s.status = 422 /\ s.latest = {} /\ (view[S] = Held5 => code = 422)
            BY <1>1, <1>4, <1>5, <2>4, SelftestFields, SelftestVerdicts DEF s, code
        <3>2. alone => expected /\ view' = view
            BY <1>5, <1>6, <2>4, <3>1 DEF expected, SelftestInv
        <3> QED
            BY <1>2, <1>5, <1>7, <2>0, <2>4, <3>2 DEF SelftestInv
    <2>5. CASE done = 4
        <3>1. s.origin = U /\ s.status = 200 /\ s.latest = {}
              /\ code = IF SizeHeld(view[U]) = 0 THEN 200 ELSE 409
            BY <1>1, <1>4, <1>5, <2>5, SelftestFields, SelftestVerdicts DEF s, code
        <3>2. expected <=> SizeHeld(view[U]) = 0
            BY <3>1 DEF expected
        <3>3. view'[S] = view[S]
            BY <1>3, <1>6, <3>1
        <3>4. ~expected => view' = view
            BY <1>6, <3>1, <3>2
        <3> QED
            BY <1>2, <1>5, <1>7, <1>8, <2>0, <2>5, <3>2, <3>3, <3>4 DEF SelftestInv
    <2> QED
        BY <1>1, <2>1, <2>2, <2>3, <2>4, <2>5
<1> QED
    BY <1>2, <1>7, <1>9, <1>10 DEF ScriptInv

\* An error ends selftest, with or without the head stored.
LEMMA SubmitErrorKeepsInv == ScriptInv /\ SubmitError => ScriptInv'
<1> SUFFICES ASSUME ScriptInv, SubmitError PROVE ScriptInv'  OBVIOUS
<1> DEFINE s == SelftestSteps[done + 1]
<1>1. /\ tool = "selftest" /\ view' \in {view, Stored(s)} /\ failed' = TRUE /\ alone' = FALSE
      /\ UNCHANGED <<tool, script, done, began, tested>>
    BY DEF SubmitError, ScriptInv, SelftestInv
<1>2. s.origin \in Origins /\ s.head \in Heads /\ s.old \in Nat
    <2>1. done + 1 \in 1..5
        BY SelftestRunning DEF SubmitError
    <2>2. SelftestOrigin \in Origins /\ UnknownOrigin \in Origins
        BY ScriptOrigins DEF ScriptLogs
    <2> QED
        BY <2>1, <2>2, SelftestFields
<1> HIDE DEF s
<1>3. Grown(view', view) /\ view' \in Views /\ EmptyHeld(view')
    <2>1. Grown(Stored(s), view) /\ Grown(view, view)
        BY <1>2, StoredGrows, GrownSame DEF ScriptInv, ScriptTypeOK
    <2> QED
        BY <1>1, <2>1 DEF Grown
<1>4. /\ Grown(view', began) /\ (done > 0 => SizeHeld(view'[SelftestOrigin]) >= 3)
      /\ tested => SizeHeld(view'[SelftestOrigin]) >= 3
    BY <1>1, <1>3, SelftestViewGrows
<1>5. SelftestInv'
    BY <1>1, <1>4 DEF ScriptInv, SelftestInv
<1>6. ScriptTypeOK'
    BY <1>1, <1>3 DEF ScriptInv, ScriptTypeOK
<1> QED
    BY <1>1, <1>3, <1>4, <1>5, <1>6 DEF ScriptInv

\* Other clients only make the view grow.
LEMMA OtherSubmitsKeepsInv ==
    ASSUME ScriptInv, NEW o \in Origins, NEW h \in Heads, NEW p \in Proofs, OtherSubmits(o, h, p)
    PROVE  ScriptInv'
<1> DEFINE r == [old |-> SizeHeld(view[o]), proof |-> p, head |-> h]
<1>1. /\ tool # "replay" /\ Verdict(view[o], r) = 200 /\ view' = [view EXCEPT ![o] = h]
      /\ alone' = (alone /\ o \notin ScriptLogs)
      /\ UNCHANGED <<tool, script, done, failed, began, tested>>
    BY DEF OtherSubmits
<1>2. r.head = h /\ r.old = SizeHeld(view[o]) /\ r.old \in Nat /\ view \in Views /\ EmptyHeld(view)
    BY HeadsAssumption DEF ScriptInv, ScriptTypeOK, Views, SizeHeld
<1>3. Grown(view', view) /\ view' \in Views /\ EmptyHeld(view')
    <2> HIDE DEF r
    <2>1. r.head \in Heads /\ r.old \in Nat /\ view \in Views /\ EmptyHeld(view)
        BY <1>2
    <2>2. Verdict(view[o], r) = 200
        BY <1>1
    <2>3. Grown([view EXCEPT ![o] = r.head], view)
        BY <2>1, <2>2, AcceptedGrows
    <2> QED
        BY <1>1, <1>2, <2>3 DEF Grown
<1>4. ScriptTypeOK'
    BY <1>1, <1>3 DEF ScriptInv, ScriptTypeOK
<1>5. tested => SizeHeld(view'[SelftestOrigin]) >= 3
    <2>1. /\ SelftestOrigin \in Origins /\ SizeHeld(view[SelftestOrigin]) <= SizeHeld(view'[SelftestOrigin])
          /\ SizeHeld(view[SelftestOrigin]) \in Nat /\ SizeHeld(view'[SelftestOrigin]) \in Nat
        <3>1. \A x \in Heads \cup {NoNote} : SizeHeld(x) \in Nat
            BY HeadsAssumption DEF SizeHeld
        <3> QED
            BY <1>2, <1>3, <3>1, ScriptOrigins DEF ScriptLogs, Grown, Views
    <2> QED
        BY <2>1 DEF ScriptInv
<1>6. tool = "selftest" => SelftestInv'
    <2> SUFFICES ASSUME tool = "selftest" PROVE SelftestInv'  OBVIOUS
    <2>1. /\ Grown(view', began) /\ (done > 0 => SizeHeld(view'[SelftestOrigin]) >= 3)
        BY <1>3, SelftestViewGrows
    <2>2. alone' => /\ alone /\ view'[SelftestOrigin] = view[SelftestOrigin]
                    /\ view'[UnknownOrigin] = view[UnknownOrigin]
        <3>1. alone' => alone /\ o \notin ScriptLogs
            BY <1>1, Zenon
        <3>2. o \notin ScriptLogs => /\ view'[SelftestOrigin] = view[SelftestOrigin]
                                     /\ view'[UnknownOrigin] = view[UnknownOrigin]
            BY <1>1, <1>2, ScriptOrigins DEF ScriptLogs, Views
        <3> QED
            BY <3>1, <3>2
    <2> QED
        BY <1>1, <2>1, <2>2 DEF ScriptInv, SelftestInv
<1> QED
    BY <1>1, <1>3, <1>4, <1>5, <1>6 DEF ScriptInv

\* The submissions of a manifest, and for a log that was not empty the answers to them.
LEMMA ManifestSteps ==
    ASSUME NEW o \in Origins, NEW cp1 \in Heads, NEW cp2 \in Heads,
           Follows(cp2, cp1), Record(o, cp1, cp2).written
    PROVE  LET steps == Record(o, cp1, cp2).steps
           IN  /\ Len(steps) \in Nat
               /\ \A i \in 1..Len(steps) :
                     /\ steps[i].origin = o /\ steps[i].head \in Heads /\ steps[i].old \in Nat
                     /\ steps[i].latest = {}
                     /\ SizeOf(cp1) > 0 =>
                           /\ Verdict(HeldAfter(i - 1, cp1, cp2), steps[i]) = steps[i].status
                           /\ HeldAfter(i, cp1, cp2) =
                                 IF steps[i].status = 200 THEN steps[i].head
                                                          ELSE HeldAfter(i - 1, cp1, cp2)
<1> DEFINE n1 == SizeOf(cp1)
           steps == Record(o, cp1, cp2).steps
<1>1. /\ n1 \in Nat /\ SizeOf(cp2) \in Nat /\ SizeHeld(cp1) = n1 /\ SizeHeld(cp2) = SizeOf(cp2)
      /\ SizeHeld(NoNote) = 0
    BY HeadsAssumption, NoNoteAssumption DEF SizeHeld
<1>2. HeldAfter(0, cp1, cp2) = NoNote /\ HeldAfter(1, cp1, cp2) = cp1 /\ HeldAfter(2, cp1, cp2) = cp1
      /\ HeldAfter(3, cp1, cp2) = cp1 /\ HeldAfter(4, cp1, cp2) = cp2 /\ HeldAfter(5, cp1, cp2) = cp2
    BY DEF HeldAfter
<1> DEFINE s1 == Step(o, 0, "none", cp1, 200)
           s2 == Step(o, n1, "none", cp1, 200)
           s3 == Step(o, n1, "other", cp2, 422)
           s4 == Step(o, n1, "log", cp2, 200)
           s5 == Step(o, 0, "none", cp1, 409)
<1>3. ASSUME n1 > 0
      PROVE  /\ Verdict(NoNote, s1) = 200 /\ Verdict(cp1, s2) = 200 /\ Verdict(cp1, s5) = 409
             /\ SizeOf(cp2) > n1 => /\ Verdict(cp1, s3) = 422 /\ Verdict(cp1, s4) = 200
                                    /\ Verdict(cp2, s5) = 409
    <2>1. Verdict(NoNote, s1) = 200
        BY <1>1, <1>3 DEF Step, Verdict, Consistent
    <2>2. Verdict(cp1, s2) = 200
        BY <1>1, <1>3 DEF Step, Verdict, Consistent
    <2>3. Verdict(cp1, s5) = 409 /\ (SizeOf(cp2) > n1 => Verdict(cp2, s5) = 409)
        BY <1>1, <1>3 DEF Step, Verdict
    <2>4. SizeOf(cp2) > n1 => Verdict(cp1, s3) = 422
        BY <1>1, <1>3 DEF Step, Verdict, Consistent
    <2>5. SizeOf(cp2) > n1 => Verdict(cp1, s4) = 200
        BY <1>1, <1>3 DEF Step, Verdict, Consistent
    <2> QED
        BY <2>1, <2>2, <2>3, <2>4, <2>5
<1>4. /\ s1.origin = o /\ s1.head = cp1 /\ s1.old \in Nat /\ s1.latest = {} /\ s1.status = 200
      /\ s2.origin = o /\ s2.head = cp1 /\ s2.old \in Nat /\ s2.latest = {} /\ s2.status = 200
      /\ s3.origin = o /\ s3.head = cp2 /\ s3.old \in Nat /\ s3.latest = {} /\ s3.status = 422
      /\ s4.origin = o /\ s4.head = cp2 /\ s4.old \in Nat /\ s4.latest = {} /\ s4.status = 200
      /\ s5.origin = o /\ s5.head = cp1 /\ s5.old \in Nat /\ s5.latest = {} /\ s5.status = 409
    BY <1>1 DEF Step
<1>5. CASE SizeOf(cp2) > n1
    <2>1. ProveTree(SizeOf(cp2), n1) = "log"
        BY <1>5 DEF Record, ProveTree
    <2>2. steps = <<s1, s2, s3, s4, s5>>
        BY <1>5, <2>1 DEF Record, Tampered
    <2> HIDE DEF s1, s2, s3, s4, s5, steps, n1
    <2>3. Len(steps) = 5 /\ steps[1] = s1 /\ steps[2] = s2 /\ steps[3] = s3 /\ steps[4] = s4
          /\ steps[5] = s5 /\ \A i \in 1..5 : i = 1 \/ i = 2 \/ i = 3 \/ i = 4 \/ i = 5
        BY <2>2
    <2> QED
        BY <1>2, <1>3, <1>4, <1>5, <2>3 DEF steps, n1
<1>6. CASE ~(SizeOf(cp2) > n1)
    <2>1. steps = <<s1, s2, s5>>
        BY <1>6 DEF Record
    <2> HIDE DEF s1, s2, s3, s4, s5, steps, n1
    <2>2. Len(steps) = 3 /\ steps[1] = s1 /\ steps[2] = s2 /\ steps[3] = s5
          /\ \A i \in 1..3 : i = 1 \/ i = 2 \/ i = 3
        BY <2>1
    <2> QED
        BY <1>2, <1>3, <1>4, <2>2 DEF steps, n1
<1> QED
    BY <1>5, <1>6

\* A submission of a manifest.
LEMMA ReplaySubmitKeepsInv ==
    ASSUME ScriptInv, tool = "replay", Submit
    PROVE  ScriptInv'
<1>1. PICK o \in Origins, cp1 \in Heads, cp2 \in Heads : ReplayedFrom(o, cp1, cp2)
    BY DEF ScriptInv
<1> DEFINE s == script[done + 1]
           expected == Verdict(view[s.origin], s) = s.status /\ s.latest \subseteq {SizeHeld(view[s.origin])}
<1>2. /\ view' = Stored(s) /\ UNCHANGED <<tool, script, began, alone, tested>>
      /\ done' = (IF expected THEN done + 1 ELSE done) /\ failed' = ~expected
    BY DEF Submit
<1>3. done \in Nat /\ done < Len(script) /\ Len(script) \in Nat
    BY <1>1, ManifestSteps DEF Submit, Running, ScriptInv, ScriptTypeOK, ReplayedFrom
<1>4. /\ s.origin = o /\ s.head \in Heads /\ s.old \in Nat /\ s.latest = {}
      /\ SizeOf(cp1) > 0 =>
            /\ Verdict(HeldAfter(done, cp1, cp2), s) = s.status
            /\ HeldAfter(done + 1, cp1, cp2) =
                  IF s.status = 200 THEN s.head ELSE HeldAfter(done, cp1, cp2)
    <2> DEFINE i == done + 1
    <2>1. i \in 1..Len(script) /\ i - 1 = done
        BY <1>3
    <2> HIDE DEF i
    <2>2. /\ script[i].origin = o /\ script[i].head \in Heads /\ script[i].old \in Nat
          /\ script[i].latest = {}
          /\ SizeOf(cp1) > 0 =>
                /\ Verdict(HeldAfter(i - 1, cp1, cp2), script[i]) = script[i].status
                /\ HeldAfter(i, cp1, cp2) =
                      IF script[i].status = 200 THEN script[i].head ELSE HeldAfter(i - 1, cp1, cp2)
        <3>1. /\ Follows(cp2, cp1) /\ Record(o, cp1, cp2).written
              /\ script = Record(o, cp1, cp2).steps
            BY <1>1 DEF ReplayedFrom
        <3>2. \A j \in 1..Len(script) :
                 /\ script[j].origin = o /\ script[j].head \in Heads /\ script[j].old \in Nat
                 /\ script[j].latest = {}
                 /\ SizeOf(cp1) > 0 =>
                       /\ Verdict(HeldAfter(j - 1, cp1, cp2), script[j]) = script[j].status
                       /\ HeldAfter(j, cp1, cp2) =
                             IF script[j].status = 200 THEN script[j].head
                                                       ELSE HeldAfter(j - 1, cp1, cp2)
            BY <3>1, ManifestSteps
        <3> QED
            BY <2>1, <3>2, Zenon
    <2> QED
        BY <2>1, <2>2 DEF i
<1> HIDE DEF s
<1>5. /\ Grown(view', view) /\ view \in Views
      /\ Verdict(view[o], s) = 200 => view'[o] = s.head
      /\ Verdict(view[o], s) # 200 => view' = view
    BY <1>2, <1>4, StoredGrows DEF ScriptInv, ScriptTypeOK
<1>6. ReplayedFrom(o, cp1, cp2)'
    <2>1. ASSUME SizeOf(cp1) > 0
          PROVE  ~failed' /\ done' <= Len(script) /\ view'[o] = HeldAfter(done', cp1, cp2)
        <3>1. view[o] = HeldAfter(done, cp1, cp2)
            BY <1>1, <2>1 DEF ReplayedFrom
        <3>2. expected
            BY <1>4, <2>1, <3>1
        <3>3. done' = done + 1 /\ ~failed'
            BY <1>2, <3>2
        <3>4. view'[o] = HeldAfter(done + 1, cp1, cp2)
            BY <1>4, <1>5, <2>1, <3>1
        <3> QED
            BY <1>3, <3>3, <3>4
    <2> QED
        BY <1>1, <1>2, <2>1 DEF ReplayedFrom
<1>7. ScriptTypeOK' /\ EmptyHeld(view')
    <2> HIDE DEF expected
    <2>1. done' \in Nat /\ failed' \in BOOLEAN
        BY <1>2, <1>3
    <2> QED
        BY <1>2, <1>5, <2>1 DEF ScriptInv, ScriptTypeOK, Grown
<1> QED
    BY <1>2, <1>6, <1>7 DEF ScriptInv

\* What the scripts have come to says what the witness held, whoever else submits.
THEOREM ScriptInvariant == ScriptSpec => []ScriptInv
<1>1. ScriptInit => ScriptInv
    <2>1. Nothing \in Views /\ EmptyHeld(Nothing)
        BY NoNoteAssumption DEF EmptyHeld, Nothing, Views
    <2> SUFFICES ASSUME ScriptInit PROVE ScriptInv  OBVIOUS
    <2>2. view \in Views /\ began \in Views /\ EmptyHeld(view) /\ ~tested
        BY <2>1, Zenon DEF ScriptInit
    <2>3. ScriptTypeOK
        BY <2>2 DEF ScriptInit, ScriptTypeOK
    <2> QED
        BY <2>2, <2>3 DEF ScriptInit, ScriptInv
<1>2. ScriptInv /\ [ScriptNext]_scriptVars => ScriptInv'
    <2> SUFFICES ASSUME ScriptInv, [ScriptNext]_scriptVars PROVE ScriptInv'  OBVIOUS
    <2>1. CASE Submit
        <3>1. tool # "none"
            BY <2>1 DEF Submit, Running, ScriptInv, ScriptTypeOK
        <3> QED
            BY <2>1, <3>1, SelftestSubmitKeepsInv, ReplaySubmitKeepsInv DEF ScriptInv, ScriptTypeOK
    <2>2. CASE UNCHANGED scriptVars
        BY <2>2 DEF scriptVars, ScriptInv, ScriptTypeOK, SelftestInv, ReplayedFrom
    <2> QED
        BY <2>1, <2>2, SelftestKeepsInv, ReplayKeepsInv, SubmitErrorKeepsInv, OtherSubmitsKeepsInv
           DEF ScriptNext
<1> QED
    BY <1>1, <1>2, PTL DEF ScriptSpec

\* selftest passes exactly against a witness with nothing of its two logs and so never
\* twice, whatever other clients and errors come between (cmdSelftest, addToPool).
THEOREM SelftestOnlyOnce == ScriptSpec => []SelftestPassesOnce
<1>1. ScriptInv => SelftestPassesOnce
    <2> SUFFICES ASSUME ScriptInv, tool = "selftest" PROVE SelftestPassesOnce
        BY DEF SelftestPassesOnce
    <2>1. SelftestInv /\ began \in Views /\ ScriptLogs \subseteq Origins
        BY ScriptOrigins DEF ScriptInv, ScriptTypeOK
    <2>2. Passed => done = 5
        BY <2>1, SelftestScript DEF Passed, SelftestInv
    <2>3. Passed => \A o \in ScriptLogs : SizeHeld(began[o]) = 0
        BY <2>1, <2>2 DEF SelftestInv, ScriptLogs
    <2>4. failed /\ alone => \E o \in ScriptLogs : SizeHeld(began[o]) # 0
        BY <2>1 DEF SelftestInv, ScriptLogs
    <2>5. tested => done = 0 /\ (alone => \A o \in ScriptLogs : view[o] = began[o])
        BY <2>1 DEF SelftestInv, ScriptLogs, ScriptInv, ScriptTypeOK
    <2>6. ExtendsAll(view, began)
        BY <2>1 DEF SelftestInv, Grown, ExtendsAll
    <2> QED
        BY <2>3, <2>4, <2>5, <2>6 DEF SelftestPassesOnce
<1> QED
    BY <1>1, ScriptInvariant, PTL

\* The manifest of any log that was not empty when first seen, however far it grew
\* while it was recorded, replays as it says (cmdRecord).
THEOREM ManifestsReplay == ScriptSpec => []ManifestReplays
<1>1. ScriptInv => ManifestReplays
    <2> SUFFICES ASSUME ScriptInv, tool = "replay", SizeOf(script[1].head) > 0 PROVE ~failed
        BY DEF ManifestReplays
    <2>1. PICK o \in Origins, cp1 \in Heads, cp2 \in Heads : ReplayedFrom(o, cp1, cp2)
        BY DEF ScriptInv
    <2>2. script[1].head = cp1
        BY <2>1 DEF ReplayedFrom, Record, Step
    <2> QED
        BY <2>1, <2>2 DEF ReplayedFrom
<1> QED
    BY <1>1, ScriptInvariant, PTL

-----------------------------------------------------------------------------
(* The request format *)

\* The first blank line of some lines is the one with none before it.
LEMMA FirstBlank ==
    ASSUME NEW s, NEW k \in 1..Len(s), Len(s) \in Nat, s[k] = Blank, \A i \in 1..(k - 1) : s[i] # Blank
    PROVE  SelectInSeq(s, LAMBDA l : l = Blank) = k
<1> DEFINE I == {i \in 1..Len(s) : s[i] = Blank}
<1>1. k \in I /\ \A i \in I : k <= i
    OBVIOUS
<1>2. \A x \in I : (\A y \in I : x <= y) => x = k
    BY <1>1
<1> HIDE DEF I
<1>3. Min(I) = k
    BY <1>1, <1>2 DEF Min
<1>4. SelectInSeq(s, LAMBDA l : l = Blank) = IF I # {} THEN Min(I) ELSE 0
    BY DEF SelectInSeq, I
<1> QED
    BY <1>1, <1>3, <1>4

\* What parseRequest finds of the first blank line in any body.
LEMMA BlankFound ==
    ASSUME NEW s, Len(s) \in Nat
    PROVE  LET k == SelectInSeq(s, LAMBDA l : l = Blank)
           IN  k \in 0..Len(s)
<1> DEFINE I == {i \in 1..Len(s) : s[i] = Blank}
<1>1. SelectInSeq(s, LAMBDA l : l = Blank) = IF I # {} THEN Min(I) ELSE 0
    BY DEF SelectInSeq
<1>2. CASE I = {}
    BY <1>1, <1>2
<1>3. CASE I # {}
    <2>1. PICK m \in I : \A i \in I : m <= i
        <3>1. I \subseteq Nat
            OBVIOUS
        <3> HIDE DEF I
        <3> QED
            BY <1>3, <3>1, LeastNumber
    <2>2. Min(I) \in I
        BY <2>1 DEF Min
    <2> QED
        BY <1>1, <1>3, <2>2
<1> QED
    BY <1>2, <1>3

\* The lines of r: the old size, the proof, a blank line and the note.
LinesOf(b, r) ==
    LET n == Len(r.proof)
    IN  /\ Len(b) = n + 2 + Len(r.note)
        /\ b[1] = Line("old", r.old)
        /\ \A i \in 1..n : b[i + 1] = Line("hash", r.proof[i])
        /\ b[n + 2] = Blank
        /\ \A i \in 1..Len(r.note) : b[n + 2 + i] = r.note[i]
        /\ \E T : b \in Seq(T)

\* EncodeAddCheckpoint writes them.
LEMMA EncodedLines ==
    ASSUME NEW H, NEW L, NEW r, r.proof \in Seq(H), r.note \in Seq(L)
    PROVE  LinesOf(EncodeAddCheckpoint(r), r)
<1> DEFINE T == L \cup {Blank, Line("old", r.old)} \cup {Line("hash", h) : h \in H}
           n == Len(r.proof)
           a1 == <<Line("old", r.old)>>
           a2 == [i \in DOMAIN r.proof |-> Line("hash", r.proof[i])]
           a3 == <<Blank>>
           b == EncodeAddCheckpoint(r)
<1>1. n \in Nat /\ DOMAIN r.proof = 1..n /\ \A i \in 1..n : r.proof[i] \in H
    OBVIOUS
<1>2. a1 \in Seq(T) /\ Len(a1) = 1 /\ a1[1] = Line("old", r.old)
    <2>1. Line("old", r.old) \in T
        OBVIOUS
    <2> HIDE DEF T
    <2> QED
        BY <2>1
<1>3. a2 \in Seq(T) /\ Len(a2) = n /\ \A i \in 1..n : a2[i] = Line("hash", r.proof[i])
    <2>1. \A i \in 1..n : Line("hash", r.proof[i]) \in T
        BY <1>1
    <2> HIDE DEF T
    <2>2. a2 = [i \in 1..n |-> Line("hash", r.proof[i])]
        BY <1>1
    <2>3. a2 \in [1..n -> T]
        BY <2>1, <2>2
    <2> QED
        BY <1>1, <2>2, <2>3
<1>4. a3 \in Seq(T) /\ Len(a3) = 1 /\ a3[1] = Blank
    <2>1. Blank \in T
        OBVIOUS
    <2> HIDE DEF T
    <2> QED
        BY <2>1
<1>5. r.note \in Seq(T)
    <2>1. L \subseteq T
        OBVIOUS
    <2> HIDE DEF T
    <2> QED
        BY <2>1
<1>6. b = ((a1 \o a2) \o a3) \o r.note
    BY DEF EncodeAddCheckpoint
<1> HIDE DEF T, a1, a2, a3, b
<1> DEFINE c == a1 \o a2
           d == c \o a3
<1>7. /\ c \in Seq(T) /\ Len(c) = 1 + n /\ c[1] = Line("old", r.old)
      /\ \A i \in 1..n : c[i + 1] = Line("hash", r.proof[i])
    <2>1. /\ c \in Seq(T) /\ Len(c) = 1 + n
          /\ \A i \in 1..(1 + n) : c[i] = IF i <= 1 THEN a1[i] ELSE a2[i - 1]
        <3>1. /\ c \in Seq(T) /\ Len(c) = Len(a1) + Len(a2)
              /\ \A i \in 1..(Len(a1) + Len(a2)) :
                    c[i] = IF i <= Len(a1) THEN a1[i] ELSE a2[i - Len(a1)]
            <4>1. a1 \in Seq(T) /\ a2 \in Seq(T)
                BY <1>2, <1>3
            <4> QED
                BY <4>1, ConcatProperties, Zenon
        <3> HIDE DEF c
        <3> QED
            BY <1>2, <1>3, <3>1
    <2>2. \A i \in 1..n : i + 1 \in 1..(1 + n) /\ ~(i + 1 <= 1) /\ (i + 1) - 1 = i
        BY <1>1
    <2> HIDE DEF c
    <2> QED
        BY <1>1, <1>2, <1>3, <2>1, <2>2
<1> HIDE DEF c
<1>8. /\ d \in Seq(T) /\ Len(d) = n + 2 /\ d[1] = Line("old", r.old)
      /\ \A i \in 1..n : d[i + 1] = Line("hash", r.proof[i])
      /\ d[n + 2] = Blank
    <2>1. /\ d \in Seq(T) /\ Len(d) = 1 + n + 1
          /\ \A i \in 1..(1 + n + 1) : d[i] = IF i <= 1 + n THEN c[i] ELSE a3[i - (1 + n)]
        <3>1. /\ d \in Seq(T) /\ Len(d) = Len(c) + Len(a3)
              /\ \A i \in 1..(Len(c) + Len(a3)) :
                    d[i] = IF i <= Len(c) THEN c[i] ELSE a3[i - Len(c)]
            BY <1>4, <1>7, ConcatProperties
        <3> HIDE DEF d
        <3> QED
            BY <1>4, <1>7, <3>1
    <2>2. /\ \A i \in 0..n : i + 1 \in 1..(1 + n + 1) /\ i + 1 <= 1 + n
          /\ n + 2 \in 1..(1 + n + 1) /\ ~(n + 2 <= 1 + n) /\ (n + 2) - (1 + n) = 1 /\ 1 + n + 1 = n + 2
        BY <1>1
    <2> HIDE DEF d
    <2>3. \A i \in 0..n : d[i + 1] = c[i + 1]
        BY <2>1, <2>2
    <2>4. d[n + 2] = Blank
        BY <1>4, <2>1, <2>2
    <2>5. 0 \in 0..n /\ 0 + 1 = 1 /\ 1..n \subseteq 0..n
        BY <1>1
    <2> QED
        BY <1>7, <2>1, <2>2, <2>3, <2>4, <2>5
<1> HIDE DEF d
<1>9. b = d \o r.note
    BY <1>6 DEF c, d
<1> DEFINE k == Len(r.note)
<1>0. k \in Nat
    OBVIOUS
<1>10. /\ b \in Seq(T) /\ Len(b) = n + 2 + k
       /\ \A i \in 1..(n + 2 + k) : b[i] = IF i <= n + 2 THEN d[i] ELSE r.note[i - (n + 2)]
    <2>1. /\ b \in Seq(T) /\ Len(b) = Len(d) + Len(r.note)
          /\ \A i \in 1..(Len(d) + Len(r.note)) :
                b[i] = IF i <= Len(d) THEN d[i] ELSE r.note[i - Len(d)]
        BY <1>5, <1>8, <1>9, ConcatProperties
    <2> HIDE DEF n, k
    <2> QED
        BY <1>5, <1>8, <2>1 DEF k
<1>11. /\ \A i \in 1..(n + 2) : b[i] = d[i]
       /\ \A i \in 1..k : b[n + 2 + i] = r.note[i]
    <2> HIDE DEF n, k
    <2>1. /\ \A i \in 1..(n + 2) : i \in 1..(n + 2 + k) /\ i <= n + 2
          /\ \A i \in 1..k : /\ n + 2 + i \in 1..(n + 2 + k) /\ ~(n + 2 + i <= n + 2)
                             /\ (n + 2 + i) - (n + 2) = i
        BY <1>0, <1>1
    <2> QED
        BY <1>10, <2>1
<1>12. 1 \in 1..(n + 2) /\ n + 2 \in 1..(n + 2) /\ \A i \in 1..n : i + 1 \in 1..(n + 2)
    BY <1>1
<1>13. /\ b[1] = Line("old", r.old) /\ b[n + 2] = Blank
       /\ \A i \in 1..n : b[i + 1] = Line("hash", r.proof[i])
    BY <1>8, <1>11, <1>12
<1> QED
    BY <1>10, <1>11, <1>13 DEF b, LinesOf

\* The client's request is read as it was meant.
LEMMA EncodedIsRead ==
    ASSUME NEW H, NEW L, NEW r, r = [old |-> r.old, proof |-> r.proof, note |-> r.note],
           r.proof \in Seq(H), Len(r.proof) <= MaxProofLines,
           r.note \in Seq(L), r.note # <<>>, r.note # <<Blank>>
    PROVE  parseRequest(EncodeAddCheckpoint(r)) = [ok |-> TRUE, r |-> r]
<1> DEFINE b == EncodeAddCheckpoint(r)
           n == Len(r.proof)
           k == Len(r.note)
           t == Tail(b)
           blank == SelectInSeq(t, LAMBDA l : l = Blank) + 1
           proof == SubSeq(b, 2, blank - 1)
           rest == SubSeq(b, blank + 1, Len(b))
<1>0. LinesOf(b, r)
    BY EncodedLines, Zenon
<1>1. n \in Nat /\ k \in Nat /\ k > 0 /\ MaxProofLines \in Nat
    BY WireAssumption, EmptySeq
<1>2. /\ Len(b) = n + 2 + k /\ b[1] = Line("old", r.old) /\ b[n + 2] = Blank
      /\ \A i \in 1..n : b[i + 1] = Line("hash", r.proof[i])
      /\ \A i \in 1..k : b[n + 2 + i] = r.note[i]
    BY <1>0 DEF LinesOf
<1>3. PICK T : b \in Seq(T)
    BY <1>0 DEF LinesOf
<1> HIDE DEF b
<1>4. Len(t) = n + 1 + k /\ \A i \in 1..(n + 1 + k) : t[i] = b[i + 1]
    <2>1. b # <<>>
        BY <1>1, <1>2, <1>3
    <2>2. Len(t) = Len(b) - 1 /\ \A i \in 1..Len(t) : t[i] = b[i + 1]
        BY <1>3, <2>1, HeadTailProperties, Zenon
    <2> HIDE DEF t, n, k
    <2> QED
        BY <1>1, <1>2, <2>2
<1>5. blank = n + 2
    <2>1. /\ n + 1 \in 1..Len(t) /\ Len(t) \in Nat /\ t[n + 1] = Blank
          /\ \A i \in 1..((n + 1) - 1) : t[i] # Blank
        <3> HIDE DEF n, k, t
        <3>1. /\ n + 1 \in 1..(n + 1 + k) /\ (n + 1) + 1 = n + 2 /\ (n + 1) - 1 = n
              /\ \A i \in 1..n : i \in 1..(n + 1 + k)
            BY <1>1
        <3>2. \A h : Line("hash", h) # Blank
            BY DEF Line, Blank
        <3>3. n + 1 \in 1..Len(t) /\ Len(t) \in Nat /\ t[n + 1] = Blank
            BY <1>1, <1>2, <1>4, <3>1, SMTT(30)
        <3>4. \A i \in 1..n : t[i] = Line("hash", r.proof[i])
            BY <1>2, <1>4, <3>1
        <3> QED
            BY <3>1, <3>2, <3>3, <3>4, Zenon
    <2> HIDE DEF t, n, k
    <2>2. SelectInSeq(t, LAMBDA l : l = Blank) = n + 1
        BY <2>1, FirstBlank
    <2> QED
        BY <1>1, <2>2
<1> HIDE DEF blank
<1>6. /\ Len(proof) = n /\ DOMAIN proof = 1..n
      /\ \A i \in 1..n : proof[i] = Line("hash", r.proof[i])
    <2> HIDE DEF n, k
    <2> DEFINE u == SubSeq(b, 2, n + 1)
    <2>1. /\ n + 1 \in Nat /\ n + 1 = 2 + n - 1 /\ n + 1 <= Len(b) /\ (n + 2) - 1 = n + 1
          /\ \A i \in 1..n : 2 + i - 1 = i + 1
        BY <1>1, <1>2, SMTT(30)
    <2>2. u \in Seq(T) /\ Len(u) = n /\ \A i \in 1..n : u[i] = b[2 + i - 1]
        BY <1>1, <1>3, <2>1, Stretch, SMTT(30)
    <2>3. proof = u
        BY <1>5, <2>1
    <2> HIDE DEF u, proof
    <2>4. DOMAIN u = 1..n
        BY <2>2
    <2> QED
        BY <1>2, <2>1, <2>2, <2>3, <2>4
<1>7. rest = r.note
    <2> HIDE DEF n, k
    <2> DEFINE from == n + 3
               to == n + 2 + k
               u == SubSeq(b, from, to)
    <2>0. Len(b) = n + 2 + k
        BY <1>2
    <2>1. /\ from \in Nat \ {0} /\ to \in Nat /\ to = from + k - 1
          /\ to = Len(b) /\ to <= Len(b) /\ (n + 2) + 1 = from
        BY <1>1, <2>0
    <2>2. \A i \in 1..k : from + i - 1 = n + 2 + i
        BY <1>1
    <2> HIDE DEF from, to
    <2>3. u \in Seq(T) /\ Len(u) = k /\ \A i \in 1..k : u[i] = b[from + i - 1]
        BY <1>1, <1>3, <2>1, Stretch, SMTT(30)
    <2>4. rest = u
        BY <1>5, <2>1
    <2> HIDE DEF u
    <2>5. Len(u) = k /\ \A i \in 1..k : u[i] = r.note[i]
        BY <1>2, <2>2, <2>3
    <2>6. u \in Seq(T \cup L) /\ r.note \in Seq(T \cup L)
        BY <2>3
    <2> QED
        BY <2>4, <2>5, <2>6, SeqEqual DEF k
<1> DEFINE bad == \/ Len(b) < 2 \/ b[1].kind # "old"
                  \/ blank = 1 \/ blank = Len(b)
                  \/ \E i \in DOMAIN proof : proof[i].kind \notin {"hash", "otherHash"}
                  \/ TooManyLines(Len(proof))
                  \/ rest = <<Blank>>
           read == [old |-> b[1].value, proof |-> [i \in DOMAIN proof |-> proof[i].value],
                    note |-> rest]
<1>8. parseRequest(b) = IF bad THEN Malformed ELSE [ok |-> TRUE, r |-> read]
    BY DEF parseRequest, blank
<1> HIDE DEF proof, rest
<1>9. ~bad
    <2> HIDE DEF n, k
    <2>1. ~(Len(b) < 2) /\ blank # 1 /\ blank # Len(b)
        BY <1>1, <1>2, <1>5
    <2>2. b[1].kind = "old" /\ \A i \in DOMAIN proof : proof[i].kind = "hash"
        BY <1>2, <1>6 DEF Line
    <2>3. ~TooManyLines(Len(proof))
        BY <1>1, <1>6 DEF TooManyLines, n
    <2> QED
        BY <1>7, <2>1, <2>2, <2>3
<1>10. read = r
    <2>1. b[1].value = r.old
        BY <1>2 DEF Line
    <2>2. [i \in DOMAIN proof |-> proof[i].value] = r.proof
        <3>1. \A i \in 1..n : proof[i].value = r.proof[i]
            BY <1>6 DEF Line
        <3>2. r.proof = [i \in 1..n |-> r.proof[i]]
            OBVIOUS
        <3> HIDE DEF n
        <3> QED
            BY <1>6, <3>1, <3>2
    <2> QED
        BY <1>7, <2>1, <2>2
<1> QED
    BY <1>8, <1>9, <1>10 DEF b

\* Of an accepted body, what was read is a request that a client could have sent.
LEMMA AcceptedIsRequest ==
    ASSUME NEW S, NEW b \in Seq(S), parseRequest(b).ok
    PROVE  LET p == parseRequest(b)
           IN  /\ p = [ok |-> TRUE, r |-> p.r]
               /\ p.r = [old |-> p.r.old, proof |-> p.r.proof, note |-> p.r.note]
               /\ (\E H : p.r.proof \in Seq(H)) /\ Len(p.r.proof) <= MaxProofLines
               /\ p.r.note \in Seq(S) /\ p.r.note # <<>> /\ p.r.note # <<Blank>>
<1> DEFINE t == Tail(b)
           blank == SelectInSeq(t, LAMBDA l : l = Blank) + 1
           proof == SubSeq(b, 2, blank - 1)
           rest == SubSeq(b, blank + 1, Len(b))
           bad == \/ Len(b) < 2 \/ b[1].kind # "old"
                  \/ blank = 1 \/ blank = Len(b)
                  \/ \E i \in DOMAIN proof : proof[i].kind \notin {"hash", "otherHash"}
                  \/ TooManyLines(Len(proof))
                  \/ rest = <<Blank>>
           values == [i \in DOMAIN proof |-> proof[i].value]
           read == [old |-> b[1].value, proof |-> values, note |-> rest]
<1>1. parseRequest(b) = IF bad THEN Malformed ELSE [ok |-> TRUE, r |-> read]
    BY DEF parseRequest
<1>2. ~bad
    <2> HIDE DEF bad, read
    <2>1. bad => parseRequest(b) = Malformed
        BY <1>1
    <2>2. Malformed.ok = FALSE
        BY DEF Malformed
    <2> QED
        BY <2>1, <2>2
<1>3. Len(b) \in Nat /\ Len(b) >= 2 /\ b # <<>>
    <2>1. ~(Len(b) < 2)
        BY <1>2, Zenon
    <2> QED
        BY <2>1
<1>4. Len(t) = Len(b) - 1
    BY <1>3, HeadTailProperties, Zenon
<1>5. blank \in 2..(Len(b) - 1)
    <2>1. Len(t) \in Nat
        BY <1>3, <1>4
    <2> HIDE DEF t
    <2>2. blank - 1 \in 0..Len(t) /\ blank \in Nat
        <3>1. SelectInSeq(t, LAMBDA l : l = Blank) \in 0..Len(t)
            BY <2>1, BlankFound
        <3> QED
            BY <2>1, <3>1
    <2>3. blank # 1 /\ blank # Len(b)
        BY <1>2
    <2> HIDE DEF blank
    <2> QED
        BY <1>3, <1>4, <2>2, <2>3
<1> HIDE DEF blank
<1> DEFINE n == blank - 2
           to == blank - 1
           k == Len(b) - blank
           from == blank + 1
<1>6. proof \in Seq(S) /\ Len(proof) = n /\ n \in Nat
    <2>1. n \in Nat /\ to \in Nat /\ to = 2 + n - 1 /\ to <= Len(b) /\ 2 \in Nat \ {0}
        BY <1>3, <1>5
    <2> HIDE DEF n, to
    <2>2. SubSeq(b, 2, to) \in Seq(S) /\ Len(SubSeq(b, 2, to)) = n
        BY <2>1, Stretch
    <2> QED
        BY <2>1, <2>2 DEF to
<1>7. rest \in Seq(S) /\ Len(rest) = k /\ k > 0
    <2>1. /\ k \in Nat /\ k > 0 /\ from \in Nat \ {0} /\ Len(b) = from + k - 1
          /\ Len(b) <= Len(b) /\ Len(b) \in Nat
        BY <1>3, <1>5
    <2> HIDE DEF k, from
    <2>2. SubSeq(b, from, Len(b)) \in Seq(S) /\ Len(SubSeq(b, from, Len(b))) = k
        BY <2>1, Stretch
    <2> QED
        BY <2>1, <2>2 DEF from
<1>8. Len(proof) <= MaxProofLines /\ rest # <<Blank>>
    <2>1. ~TooManyLines(Len(proof)) /\ rest # <<Blank>>
        BY <1>2
    <2> HIDE DEF proof, rest, n
    <2> QED
        BY <1>6, <2>1, WireAssumption DEF TooManyLines
<1>9. rest # <<>>
    <2> HIDE DEF rest, k
    <2> QED
        BY <1>7
<1>10. parseRequest(b) = [ok |-> TRUE, r |-> read]
    BY <1>1, <1>2, Zenon
<1> HIDE DEF proof, rest, n, bad
<1>11. (\E H : values \in Seq(H)) /\ Len(values) = n
    <2> DEFINE H == {proof[i].value : i \in 1..n}
    <2>1. values = [i \in 1..n |-> proof[i].value]
        BY <1>6
    <2>2. values \in [1..n -> H]
        BY <2>1
    <2> HIDE DEF H, values
    <2>3. values \in Seq(H) /\ Len(values) = n
        BY <1>6, <2>2
    <2> QED
        BY <2>3
<1> HIDE DEF values
<1>12. read = [old |-> read.old, proof |-> read.proof, note |-> read.note]
       /\ read.proof = values /\ read.note = rest
    OBVIOUS
<1> HIDE DEF read
<1>13. parseRequest(b).r = read
    BY <1>10
<1> QED
    BY <1>6, <1>7, <1>8, <1>9, <1>10, <1>11, <1>12, <1>13

\* A body that was accepted is read the same once encoded again.
LEMMA ReencodedIsRead ==
    ASSUME NEW S, NEW b \in Seq(S), parseRequest(b).ok
    PROVE  parseRequest(EncodeAddCheckpoint(parseRequest(b).r)) = parseRequest(b)
<1> DEFINE r == parseRequest(b).r
<1>1. /\ parseRequest(b) = [ok |-> TRUE, r |-> r]
      /\ r = [old |-> r.old, proof |-> r.proof, note |-> r.note]
      /\ (\E H : r.proof \in Seq(H)) /\ Len(r.proof) <= MaxProofLines
      /\ r.note \in Seq(S) /\ r.note # <<>> /\ r.note # <<Blank>>
    BY AcceptedIsRequest
<1> HIDE DEF r
<1>2. PICK H : r.proof \in Seq(H)
    BY <1>1
<1>3. parseRequest(EncodeAddCheckpoint(r)) = [ok |-> TRUE, r |-> r]
    BY <1>1, <1>2, EncodedIsRead
<1> QED
    BY <1>1, <1>3 DEF r

\* The witness reads every request a client encodes as it was meant, whatever the old
\* size, the hashes and the note and up to the longest proof, and every body it accepts
\* as it would read the client's encoding of it (EncodeAddCheckpoint, parseRequest).
THEOREM RequestsAlwaysRoundTrip == WireSpec => []RequestsRoundTrip
<1>1. WireInit => RequestsRoundTrip
    <2> SUFFICES ASSUME WireInit PROVE RequestsRoundTrip  OBVIOUS
    <2>1. Len(body) < 2 /\ meant = {}
        BY DEF WireInit
    <2>2. parseRequest(body) = Malformed
        BY <2>1 DEF parseRequest
    <2> QED
        BY <2>1, <2>2 DEF RequestsRoundTrip, Malformed
<1>2. ASSUME NEW r \in Requests, SendRequest(r)
      PROVE  RequestsRoundTrip'
    <2>1. /\ r = [old |-> r.old, proof |-> r.proof, note |-> r.note]
          /\ r.proof \in Seq(Hashes) /\ Len(r.proof) <= MaxProofLines /\ r.note \in Notes
        <3>1. r = [old |-> r.old, proof |-> r.proof, note |-> r.note] /\ r.note \in Notes
              /\ r.proof \in BoundedSeq(Hashes, MaxProofLines)
            BY DEF Requests
        <3>2. PICK m \in 0..MaxProofLines : r.proof \in [1..m -> Hashes]
            BY <3>1 DEF BoundedSeq, SeqOf
        <3>3. m \in Nat /\ m <= MaxProofLines
            BY <3>2, WireAssumption
        <3>4. r.proof \in Seq(Hashes) /\ Len(r.proof) = m
            BY <3>2, <3>3
        <3> QED
            BY <3>1, <3>3, <3>4
    <2>2. r.note \in Seq(Lines) /\ r.note # <<>> /\ r.note # <<Blank>>
        BY <2>1, WireAssumption
    <2>3. parseRequest(EncodeAddCheckpoint(r)) = [ok |-> TRUE, r |-> r]
        BY <2>1, <2>2, EncodedIsRead, Zenon
    <2>4. body' = EncodeAddCheckpoint(r) /\ meant' = {r}
        BY <1>2 DEF SendRequest
    <2>5. parseRequest(body') = [ok |-> TRUE, r |-> r] /\ parseRequest(body').r = r
        BY <2>3, <2>4
    <2>6. parseRequest(EncodeAddCheckpoint(parseRequest(body').r)) = parseRequest(body')
        BY <2>3, <2>5
    <2> QED
        BY <2>4, <2>5, <2>6, Zenon DEF RequestsRoundTrip
<1>3. ASSUME NEW b \in BoundedSeq(Lines, MaxBodyLines), SendOther(b)
      PROVE  RequestsRoundTrip'
    <2>1. b \in Seq(Lines)
        <3>1. PICK m \in 0..MaxBodyLines : b \in [1..m -> Lines]
            BY DEF BoundedSeq, SeqOf
        <3>2. m \in Nat
            BY <3>1, WireAssumption
        <3> QED
            BY <3>1, <3>2
    <2>2. body' = b /\ meant' = {}
        BY <1>3 DEF SendOther
    <2>3. parseRequest(b).ok => parseRequest(EncodeAddCheckpoint(parseRequest(b).r)) = parseRequest(b)
        BY <2>1, ReencodedIsRead
    <2> QED
        BY <2>2, <2>3, Zenon DEF RequestsRoundTrip
<1>4. RequestsRoundTrip /\ UNCHANGED wireVars => RequestsRoundTrip'
    BY Zenon DEF wireVars, RequestsRoundTrip
<1>5. RequestsRoundTrip /\ [WireNext]_wireVars => RequestsRoundTrip'
    BY <1>2, <1>3, <1>4 DEF WireNext
<1> QED
    BY <1>1, <1>5, PTL DEF WireSpec
=============================================================================
