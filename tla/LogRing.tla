------------------------------ MODULE LogRing ------------------------------
(***************************************************************************)
(* logRing of both firmware images: the newest lines of the log, for       *)
(* /logz.  Write and ServeHTTP run under one mutex, so a value of the ring *)
(* is all a reader can see.                                                *)
(***************************************************************************)
EXTENDS Naturals, Sequences

CONSTANTS
    LogRingLines,   \* logRingLines
    Messages        \* what is logged

ASSUME LogRingLinesAssumption == LogRingLines \in Nat \ {0}

VARIABLES
    ring,     \* logRing: lines and n
    logged    \* history: every line since the first statement of main

ringVars == <<ring, logged>>

NoLine == ""

EmptyRing == [lines |-> [i \in 0..(LogRingLines - 1) |-> NoLine], n |-> 0]

Write(r, line) ==
    [lines |-> [r.lines EXCEPT ![r.n % LogRingLines] = line], n |-> r.n + 1]

\* Mutation: a ring that has just become full is read from its second line.
StartEarly(n) == IF n >= LogRingLines THEN n - LogRingLines + 1 ELSE 0

\* The oldest line still in the ring.
Start(n) == IF n > LogRingLines THEN n - LogRingLines ELSE 0

ServeHTTP(r) ==
    [i \in 1..(r.n - Start(r.n)) |-> r.lines[(Start(r.n) + i - 1) % LogRingLines]]

RingInit == ring = EmptyRing /\ logged = <<>>

\* The log package calls Write with one line at a time.
Log(line) == ring' = Write(ring, line) /\ logged' = Append(logged, line)

RingNext == \E line \in Messages : Log(line)

RingSpec == RingInit /\ [][RingNext]_ringVars

-----------------------------------------------------------------------------
(* Properties *)

\* /logz shows the newest lines in the order they were logged, all that fit and no
\* others, however often the ring went round (Write, ServeHTTP).
LogzShowsNewest ==
    LET n == Len(logged)
        first == IF n > LogRingLines THEN n - LogRingLines + 1 ELSE 1
    IN  ServeHTTP(ring) = SubSeq(logged, first, n)
=============================================================================
