---------------------------- MODULE MCAlgorithms ----------------------------
(***************************************************************************)
(* The small parts of the system, each of them alone from its initial      *)
(* states: the card, the request format, the log ring, the LEDs and the    *)
(* scripted clients.                                                       *)
(***************************************************************************)
EXTENDS StateCard, WireFormat, LogRing, StatusLed, Scripts

VARIABLE part   \* the part that runs and, for the card, how many steps it has left

\* Origins and notes: empty ones, ones whose bytes look like lengths, one whose
\* length does not fit its field, and a note that fills a slot.
SomeOrigins == {<<>>, <<1>>, <<1, 0>>, <<0, 2>>, [i \in 1..Base |-> 1]}
SomeNotes == {<<>>, <<0>>, <<1, 1, 0>>, [i \in 1..(SlotSize - HeaderLen - TagLen - 4) |-> 2]}

SomeStates == UNION {[S -> SomeNotes] : S \in {T \in SUBSET SomeOrigins : Cardinality(T) <= 2}}

ShortStates ==
    UNION {[S -> {<<>>, <<1, 1, 0>>}] : S \in {{}, {<<1>>}}} \cup {(<<>> :> <<>>) @@ (<<1>> :> <<0>>)}

\* Two generations of a slot and one of the other, on either side of a byte.
SomeGenerations == {Base - 1, Base, Base + 1}

\* Devices of block sizes that divide a slot and that do not, with and without room
\* for the slots, and one with a boot image to try everything on.
SomeDevices ==
    {[blockSize |-> b, blocks |-> n, offset |-> o] :
        b \in {-1, 0, 1, 5, 8, SlotSize}, n \in {0, 1, 2, 3, 6, 7, 47, 48, 55, 56}, o \in {0, 4, 8}}
OneDevice == [blockSize |-> 4, blocks |-> 14, offset |-> 8]
AllDevices == SomeDevices \cup {OneDevice}

SomeLines ==
    {Line("old", 0), Line("old", 2), Line("other", 0), Line("hash", 1), Line("hash", 2),
     Line("otherHash", 1), Blank}

SomeNoteLines == {<<Line("other", 0)>>, <<Line("other", 0), Blank, Line("hash", 1), Blank>>}

\* The prefixes of the two trees selftest uses are all the heads there are.
ScriptTrees == {SubSeq(Log5, 1, n) : n \in 0..5} \cup {SubSeq(Fork7, 1, n) : n \in 0..7}
ScriptHeads == {TreeHead(t) : t \in ScriptTrees}
EmptyTree == TreeHead(<<>>)
MCSizeOf(h) == h.size
MCFollows(a, b) == IsPrefix(b.hash, a.hash)

\* How long the LEDs are watched, in units of 25 ms: more than two periods of the
\* slowest indication.  The log ring goes round three times.
LedTicks == 48
MaxLogged == 3 * LogRingLines

Parts ==
    \/ part \in [name: {"card"}, left: {2}] /\ device = OneDevice
    \/ part \in [name: {"place"}, left: {1}]
    \/ part \in [name: {"wire", "log", "led", "script"}] /\ device = OneDevice

allVars == <<part, cardVars, wireVars, ringVars, ledVars, scriptVars>>

Init == CardInit /\ WireInit /\ RingInit /\ LedInit /\ ScriptInit /\ Parts

\* Every state map is saved once, the small ones are saved over one another and everywhere.
CardStep ==
    LET maps == IF part.name = "card" /\ saved = {} THEN StateMaps ELSE ShortStates
    IN  /\ part.left > 0
        /\ \A b \in saved : b.states \in ShortStates
        /\ \/ \E g \in Generations, n \in Nonces, m \in maps, k \in 0..SlotSize : Save(g, n, m, k)
           \/ \E p \in DOMAIN disk : Corrupt(p)
        /\ part' = [part EXCEPT !.left = @ - 1]

\* Nothing carries over from one body to the next, so one is posted.
Next ==
    \/ /\ part.name \in {"card", "place"}
       /\ CardStep
       /\ UNCHANGED <<wireVars, ringVars, ledVars, scriptVars>>
    \/ /\ part.name = "wire" /\ body = <<>>
       /\ WireNext
       /\ UNCHANGED <<part, cardVars, ringVars, ledVars, scriptVars>>
    \/ /\ part.name = "log" /\ Len(logged) < MaxLogged
       /\ RingNext
       /\ UNCHANGED <<part, cardVars, wireVars, ledVars, scriptVars>>
    \/ /\ part.name = "led" /\ time < LedTicks
       /\ LedNext
       /\ UNCHANGED <<part, cardVars, wireVars, ringVars, scriptVars>>
    \/ /\ part.name = "script"
       /\ ScriptNext
       /\ UNCHANGED <<part, cardVars, wireVars, ringVars, ledVars>>
    \/ UNCHANGED allVars

Spec == Init /\ [][Next]_allVars
=============================================================================
