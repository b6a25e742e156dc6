----------------------------- MODULE InputKeys -----------------------------
(***************************************************************************)
(* The inputs of a house and of a room (inputs.py): which are whose, and   *)
(* which hold several entities.                                            *)
(***************************************************************************)

SharedInputs == {"outdoor_temperature", "outdoor_humidity", "outdoor_air_quality",
                 "rain_risk", "away"}
RoomInputs == {"indoor_temperature", "indoor_co2", "occupancy", "window_contacts",
               "lights", "fan", "hvac"}
Inputs == SharedInputs \cup RoomInputs

\* The inputs built into groups, and those that hold several entities.
GroupInputs == {"window_contacts", "lights"}
MultipleInputs == GroupInputs \cup {"away"}

=============================================================================
