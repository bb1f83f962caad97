------------------------------ MODULE TimeSync ------------------------------
(***************************************************************************)
(* The clock offset of shared/src/timesync.ts, which the overlay and the   *)
(* judges' pages add to their clocks: the median over a window of PING and *)
(* PONG exchanges without those that took longest.  The window is emptied  *)
(* whenever a connection opens, so its samples are of one server; they are *)
(* of one skew too while nobody sets a clock.                              *)
(*                                                                         *)
(* Instants are integers; delays are multiples of four, so that the halves *)
(* (of an offset, of a median) are too.                                    *)
(***************************************************************************)
EXTENDS Integers, FiniteSets, SequencesExt

CONSTANTS Capacity,      \* OffsetTracker.CAPACITY
          TrimWorst,     \* OffsetTracker.TRIM_WORST
          Delays,        \* of a message, in either direction
          Skews          \* server clock minus client clock

ASSUME TrackerAssumption == TrimWorst \in Nat /\ Capacity \in Nat /\ TrimWorst < Capacity
ASSUME DelayAssumption == Delays \subseteq {4 * n : n \in 0..100} /\ Skews \subseteq Int

ComputeSample(t0, t1, t2, t3) ==
  [roundTrip |-> t3 - t0 - (t2 - t1), offset |-> (t1 - t0 + (t2 - t3)) \div 2]

\* An exchange that starts at the client's instant 0; the server answers after a step.
Exchanged(up, down, skew) ==
  ComputeSample(0, up + skew, up + skew + 1, up + 1 + down)

Pushed(window, sample) ==
  LET longer == Append(window, sample)
  IN IF Len(longer) > Capacity THEN Tail(longer) ELSE longer

\* The rank of the sample i among those of I when Less orders them, in order of
\* arrival where it does not.
Rank(I, i, Less(_, _)) ==
  Cardinality({j \in I : Less(j, i) \/ (~Less(i, j) /\ j < i)})

Median(window, I) ==
  LET n == Cardinality(I)
      At(k) == window[CHOOSE i \in I :
                  Rank(I, i, LAMBDA a, b : window[a].offset < window[b].offset) = k].offset
  IN IF n % 2 = 1 THEN At(n \div 2) ELSE (At(n \div 2 - 1) + At(n \div 2)) \div 2

\* Seeded fault: the comparison is swapped, the fastest exchanges are dropped.
KeptSlowest(window) ==
  LET I == DOMAIN window
  IN IF Len(window) <= TrimWorst THEN I
     ELSE {i \in I : Rank(I, i, LAMBDA a, b : window[b].roundTrip < window[a].roundTrip)
                       < Len(window) - TrimWorst}

\* The samples whose median is taken: all, or all but the worst.  That is so from
\* TrimWorst + 1 samples on and not, as the class's comment has it, once the window
\* is full: see OffsetTracker.
Kept(window) ==
  LET I == DOMAIN window
  IN IF Len(window) <= TrimWorst THEN I
     ELSE {i \in I : Rank(I, i, LAMBDA a, b : window[a].roundTrip < window[b].roundTrip)
                       < Len(window) - TrimWorst}

\* activeOffsetMs of a window that is not empty.
ActiveOffset(window) == Median(window, Kept(window))
----------------------------------------------------------------------------
Samples(skew) == {Exchanged(up, down, skew) : up \in Delays, down \in Delays}
Windows(skew) == UNION {[1..n -> Samples(skew)] : n \in 1..Capacity}

\* What the active offset may be off by.
Errors == UNION {{ActiveOffset(w) - skew : w \in Windows(skew)} : skew \in Skews}

\* The active offset of a window is wrong by at most half the longest round trip
\* that is kept, and replies that were slow in one direction do not move it at all
\* while there are no more of them than are trimmed.
SoundWindow(w, skew) ==
  LET error == ActiveOffset(w) - skew
      slow == {i \in DOMAIN w : w[i].offset # skew}
  IN /\ \E i \in Kept(w) : /\ 2 * error <= w[i].roundTrip
                           /\ -2 * error <= w[i].roundTrip
     /\ (Cardinality(slow) <= TrimWorst /\ Len(w) > TrimWorst
           /\ \A i \in slow, j \in DOMAIN w \ slow : w[j].roundTrip < w[i].roundTrip)
          => error = 0

\* The errors that no unsound window leads to.
SoundErrors ==
  {e \in Errors : \A skew \in Skews : \A w \in Windows(skew) :
     ActiveOffset(w) - skew = e => SoundWindow(w, skew)}
=============================================================================
