---------------------------- MODULE VacancyClock ----------------------------
(***************************************************************************)
(* How long a room has been empty (observations/derived.py): the vacancy   *)
(* clock, advanced by every evaluation, and the wake-up that brings the    *)
(* next evaluation when no sensor will.                                    *)
(*                                                                         *)
(* The code is two pure functions, _vacancy and next_wake_up; what the     *)
(* first makes of one evaluation is module Vacancy.  The caller            *)
(* that keeps their memory, evaluates on every change and on a timer, and  *)
(* reads the host's clock is modelled here as they require it: evaluations *)
(* may also come for reasons of their own, and the clock may be corrected. *)
(***************************************************************************)
EXTENDS Vacancy, FiniteSetsExt

CONSTANTS
    Duration,    \* durations the rules wait for
    Reason,      \* why occupancy cannot be read
    MaxTime,     \* bound: the latest time of the host's clock
    MaxCorrections \* bound: how often that clock is corrected

ASSUME ClockAssumption ==
    /\ Duration \subseteq Nat
    /\ MaxTime \in Nat /\ MaxCorrections \in Nat
    /\ None \notin Int /\ None \notin Reason /\ None \notin {"occupied", "empty"}
    /\ Reason \cap Int = {} /\ Reason \cap {"occupied", "empty"} = {}

VARIABLES
    now,       \* the host's clock
    occupancy, \* what the occupancy sensor says
    since,     \* VacancyState.unoccupied_since
    reading,   \* unoccupied_for as last derived: a number or a reason
    wakeUp,    \* when the timer is set for
    pending,   \* a change has not been evaluated yet
    corrections, \* times the clock was corrected
    seen,      \* history: the occupancy of the latest evaluation
    watched,   \* history: time passed while every evaluation saw it empty
    gained     \* history: time the clock was put forward by meanwhile

vars == <<now, occupancy, since, reading, wakeUp, pending, corrections, seen, watched, gained>>

Time == 0..MaxTime
Occupancy == {"occupied", "empty"} \cup Reason

Init ==
    /\ now \in Time
    /\ occupancy \in Occupancy
    /\ since = None /\ reading = None /\ wakeUp = None
    /\ pending = TRUE
    /\ corrections = 0
    /\ seen = None /\ watched = 0 /\ gained = 0

-----------------------------------------------------------------------------
Boundaries(start) == {start + d : d \in Duration}

\* Mutant: only the first boundary of all is ever waited for.
FirstWakeUp(start, time) ==
    IF start = None \/ Duration = {} \/ Min(Boundaries(start)) =< time
    THEN None ELSE Min(Boundaries(start))

\* Mutant: the last boundary still ahead is waited for.
LastWakeUp(start, time) ==
    LET ahead == IF start = None THEN {} ELSE {t \in Boundaries(start) : t > time}
    IN  IF ahead = {} THEN None ELSE Max(ahead)

\* next_wake_up: the earliest boundary still ahead.
NextWakeUp(start, time) ==
    LET ahead == IF start = None THEN {} ELSE {t \in Boundaries(start) : t > time}
    IN  IF ahead = {} THEN None ELSE Min(ahead)

-----------------------------------------------------------------------------
\* derive_observations, then next_wake_up on the memory it returns.
Evaluate ==
    /\ reading' = UnoccupiedFor(occupancy, since, now)
    /\ since' = Memory(occupancy, since, now)
    /\ wakeUp' = NextWakeUp(since', now)
    /\ pending' = FALSE
    /\ seen' = occupancy
    /\ watched' = IF seen = "empty" /\ occupancy = "empty" THEN watched ELSE 0
    /\ gained' = IF seen = "empty" /\ occupancy = "empty" THEN gained ELSE 0
    /\ UNCHANGED <<now, occupancy, corrections>>

TimerDue == wakeUp # None /\ wakeUp =< now

Sense(occ) ==
    /\ occ # occupancy
    /\ occupancy' = occ
    /\ pending' = TRUE
    /\ UNCHANGED <<now, since, reading, wakeUp, corrections, seen, watched, gained>>

Tick ==
    /\ now < MaxTime
    /\ now' = now + 1
    /\ watched' = IF seen = "empty" THEN watched + 1 ELSE 0
    /\ UNCHANGED <<occupancy, since, reading, wakeUp, pending, corrections, seen, gained>>

\* The host's clock is put right, backwards or forwards.
Correct(time) ==
    /\ time # now /\ corrections < MaxCorrections
    /\ now' = time
    /\ corrections' = corrections + 1
    /\ gained' = IF seen = "empty" /\ time > now THEN gained + (time - now) ELSE gained
    /\ UNCHANGED <<occupancy, since, reading, wakeUp, pending, seen, watched>>

\* The room's memory does not outlive the process.
Restart ==
    /\ since' = None /\ reading' = None /\ wakeUp' = None
    /\ pending' = TRUE
    /\ seen' = None /\ watched' = 0 /\ gained' = 0
    /\ UNCHANGED <<now, occupancy, corrections>>

Next ==
    \/ Evaluate
    \/ \E occ \in Occupancy : Sense(occ)
    \/ Tick
    \/ \E time \in Time : Correct(time)
    \/ Restart

Spec == Init /\ [][Next]_vars

\* Time passes, and a change or a due timer is evaluated.
Fairness ==
    /\ WF_vars(Tick)
    /\ WF_vars((pending \/ TimerDue) /\ Evaluate)

FairSpec == Spec /\ Fairness

-----------------------------------------------------------------------------
(* Type invariant.                                                         *)
TypeOK ==
    /\ now \in Time
    /\ occupancy \in Occupancy
    /\ since \in Time \cup {None}
    /\ reading \in Nat \cup Reason \cup {None}
    /\ wakeUp \in Nat \cup {None}
    /\ pending \in BOOLEAN
    /\ corrections \in 0..MaxCorrections
    /\ seen \in Occupancy \cup {None}
    /\ watched \in Nat /\ gained \in Nat

(* The count never runs ahead of what was seen: unoccupied_for is at most  *)
(* the time that passed since the room was first seen empty with every     *)
(* evaluation since finding it readable and empty, and what the clock was  *)
(* put forward by in that time; a clock put back adds nothing and takes    *)
(* nothing below zero (_vacancy: an unreadable occupancy stops the clock   *)
(* and clears it).                                                         *)
NeverOvercounts == reading \in Int => 0 =< reading /\ reading =< watched + gained

(* The inductive invariant behind it.  The room counts exactly while it    *)
(* was last seen empty, and its count, were it read now, would not exceed  *)
(* the time it was watched for and what the clock gained.                  *)
ClockInv ==
    /\ NeverOvercounts
    /\ since # None <=> seen = "empty"
    /\ since # None => now - since =< watched + gained
    /\ reading \in Int => seen \in {"occupied", "empty"}
    /\ reading \in Int /\ seen = "occupied" => reading = 0

(* The timer is set for the next duration not yet reached, and for no      *)
(* other: every duration longer than the reading is at or after it, and it *)
(* is off when the room is not counting or past them all (next_wake_up).   *)
WakesForNextDuration ==
    /\ \A d \in Duration :
          since # None /\ reading < d => wakeUp # None /\ wakeUp =< since + d
    /\ wakeUp # None =>
          since # None /\ \E d \in Duration : reading < d /\ wakeUp = since + d

(* A room that stays empty is seen to have been empty for every duration a *)
(* rule waits for, though no sensor changes when it has (next_wake_up).    *)
DurationsObserved ==
    \A start \in Time, d \in Duration :
        (since = start /\ start + d =< MaxTime)
            ~> (since # start \/ (reading \in Int /\ reading >= d))

=============================================================================
