---------------------------- MODULE MCInputForms ----------------------------
(* An instance of InputForms for TLC: two thermometers and a contact, of   *)
(* which one thermometer and the contact belong to one device.             *)
EXTENDS InputForms, TLC

CONSTANTS f1, f2, a, b, d, t1, t2, w, p

MCDomain == [e \in Entity |-> CASE e = w -> "binary_sensor" [] e = p -> "person" [] OTHER -> "sensor"]
MCDevice == [e \in Entity |-> IF e \in {t2, w} THEN d ELSE NoDevice]
MCOriginalClass == [e \in Entity |-> IF e \in {t1, t2} THEN "temperature" ELSE NoClass]

At(area, class, status) == [area |-> area, class |-> class, status |-> status]

\* The first thermometer comes and goes, the second is moved out of the area
\* of its device, put in it by hand, or hidden; the contact is one only once
\* its user says so.
MCEntries ==
    (t1 :> {At(a, NoClass, "shown"), At(a, NoClass, "disabled")})
    @@ (t2 :> {At(NoArea, NoClass, "shown"), At(b, NoClass, "shown"),
               At(a, NoClass, "shown"), At(NoArea, NoClass, "hidden")})
    @@ (w :> {At(NoArea, NoClass, "shown"), At(NoArea, "window", "shown")})
    @@ (p :> {At(NoArea, NoClass, "shown")})

NoEdit == NoInputs
MCRoomEdits ==
    {NoEdit, "indoor_temperature" :> {}, "indoor_temperature" :> {t1, Blank},
     "window_contacts" :> {Blank},
     ("indoor_temperature" :> {}) @@ ("window_contacts" :> {})}
MCSharedEdits == {NoEdit, "away" :> {p}, "away" :> {}}

AnyForm == Permutations(Form)
=============================================================================
