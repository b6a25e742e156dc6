------------------------------ MODULE Vacancy ------------------------------
(***************************************************************************)
(* What one evaluation makes of a room's vacancy (observations/derived.py, *)
(* _vacancy), as functions of the occupancy, which is "occupied", "empty"  *)
(* or the reason it cannot be read, of the moment the room has been empty  *)
(* since, or None, and of the time.                                        *)
(***************************************************************************)
EXTENDS Integers

CONSTANT None    \* Python's None

\* Mutant: a clock that has gone backwards is not noticed.
SinceUnguarded(occ, last, time) ==
    IF occ = "occupied" \/ last = None THEN time ELSE last

\* Mutant: a room that becomes occupied does not restart the count.
SinceFirst(occ, last, time) == IF last = None \/ time < last THEN time ELSE last

\* Since when the room has been empty, for an occupancy that can be read.
Since(occ, last, time) ==
    IF occ = "occupied" \/ last = None \/ time < last THEN time ELSE last

\* Mutant: an unreadable occupancy keeps the count going.
MemoryKept(occ, last, time) ==
    IF occ = "occupied" THEN None ELSE IF occ = "empty" THEN Since(occ, last, time) ELSE last

\* The memory _vacancy hands back: counting only while seen empty.
Memory(occ, last, time) ==
    IF occ = "empty" THEN Since(occ, last, time) ELSE None

\* The observation it hands back: seconds, or the reason there are none.
UnoccupiedFor(occ, last, time) ==
    IF occ \in {"occupied", "empty"} THEN time - Since(occ, last, time) ELSE occ

=============================================================================
