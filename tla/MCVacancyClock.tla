--------------------------- MODULE MCVacancyClock ---------------------------
(* An instance of VacancyClock for TLC: three durations, one of them zero. *)
EXTENDS VacancyClock

MCDuration == {0, 2, 3}
=============================================================================
