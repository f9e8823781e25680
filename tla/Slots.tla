-------------------------------- MODULE Slots --------------------------------
(***************************************************************************)
(* What withPosterCaptureSlot promises its callers: Max slots, given out   *)
(* in the order the callers came. A caller waits only while every slot is  *)
(* taken, and a slot that comes free goes straight to the first in line.   *)
(***************************************************************************)
EXTENDS Naturals, Sequences, FiniteSets

CONSTANTS
    Callers,
    Max         \* the slots: posterMaxConcurrency

VARIABLES
    holders,    \* the callers that have a slot
    line        \* those that wait for one, in the order they came

vars == <<holders, line>>

Absent(k) == k \notin holders /\ \A i \in 1..Len(line) : line[i] # k

Enter(k) ==
    /\ Absent(k)
    /\ \/ /\ Cardinality(holders) < Max
          /\ line = <<>>
          /\ holders' = holders \cup {k}
          /\ UNCHANGED line
       \/ /\ Cardinality(holders) = Max
          /\ line' = Append(line, k)
          /\ UNCHANGED holders

Leave(k) ==
    /\ k \in holders
    /\ \/ /\ line = <<>>
          /\ holders' = holders \ {k}
          /\ UNCHANGED line
       \/ /\ line # <<>>
          /\ holders' = (holders \ {k}) \cup {Head(line)}
          /\ line' = Tail(line)

Init == holders = {} /\ line = <<>>

Next == \E k \in Callers : Enter(k) \/ Leave(k)

Spec == Init /\ [][Next]_vars
=============================================================================
