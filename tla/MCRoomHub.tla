----------------------------- MODULE MCRoomHub -----------------------------
(* Instances of RoomHub for TLC.                                           *)
EXTENDS RoomHub, TLC

CONSTANTS office, study, OFFICE, i1, i2, x, f1, f2, a, b

\* Two areas named "office" and "study".
MCAreaName == (a :> office) @@ (b :> study)
MCOneAreaName == a :> office
MCNoAreaName == [y \in {} |-> y]

\* "office" and "OFFICE" are the same name to normalize_name.
MCSpeltName == (office :> office) @@ (OFFICE :> office)
MCSameName == (office :> office) @@ (study :> study)
MCSharedName == office :> office

Rooms == Permutations({i1, i2})
Forms == Permutations({f1, f2})
RoomsAndForms == Rooms \cup Forms
=============================================================================
