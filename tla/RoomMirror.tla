----------------------------- MODULE RoomMirror -----------------------------
(***************************************************************************)
(* What the hub promises of its rooms and their devices, without forms,    *)
(* listeners, tasks, locks or areas: every room has a device of its name.  *)
(* The devices may lag behind, and the hub knows when they may (stale);    *)
(* while it is active they catch up, all of them in one step.              *)
(***************************************************************************)
CONSTANTS Id, Name

VARIABLES
    title,   \* room -> its name
    shown,   \* room -> the name on its device
    stale,   \* whether the devices may lag behind the rooms
    active   \* whether the hub is meant to keep up

vars == <<title, shown, stale, active>>

Names == UNION {[S -> Name] : S \in SUBSET Id}

Init ==
    /\ title = [i \in {} |-> i] /\ shown = title
    /\ stale = TRUE /\ active = TRUE

\* Rooms are added, renamed and removed; a device goes with its room.
Edit ==
    /\ title' \in Names
    /\ shown' = [i \in DOMAIN shown \cap DOMAIN title' |-> shown[i]]
    /\ stale' = TRUE
    /\ UNCHANGED active

\* Every device is brought up to date.
Sync ==
    /\ active
    /\ shown' = title
    /\ UNCHANGED <<title, stale, active>>

\* The hub comes to rest, which it may do only with nothing to catch up on.
Rest ==
    /\ shown = title
    /\ stale' = FALSE
    /\ UNCHANGED <<title, shown, active>>

\* A restart, a reload, or the user enabling or disabling the hub.
Disturb ==
    /\ stale' = TRUE
    /\ active' \in BOOLEAN
    /\ UNCHANGED <<title, shown>>

Next == Edit \/ Sync \/ Rest \/ Disturb

Safety == Init /\ [][Next]_vars
Spec == Safety /\ WF_vars(Sync)
=============================================================================
