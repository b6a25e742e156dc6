---------------------------- MODULE MCRoomAdvice ----------------------------
(* Houses for TLC: which entities there are, what they may report and what *)
(* may be configured.  Each .cfg picks one house.                          *)
EXTENDS RoomAdvice

Plain(texts) == {Texts(t) : t \in texts}

\* Degrees as the model counts them.
C(degrees) == 9 * degrees
F(degrees) == 5 * degrees

\* Two away sources, two windows and a rain risk, the forms with repeats and
\* with cleared fields.
CloseEntity == {"alarm", "phone", "w1", "w2", "rain"}
CloseDomain ==
    [alarm |-> "alarm_control_panel", phone |-> "person",
     w1 |-> "binary_sensor", w2 |-> "binary_sensor", rain |-> "switch"]
CloseReports ==
    [alarm |-> Plain({"armed_away", "armed_home", "unavailable"}),
     phone |-> Plain({"home", "not_home", "unknown"}),
     w1 |-> Plain({"on", "off", "unavailable"}), w2 |-> Plain({"on", "off", "no state"}),
     rain |-> Plain({"on", "unavailable"})]
CloseShared ==
    {[away |-> <<"alarm", "phone", "alarm">>, rain_risk |-> <<"rain">>],
     [away |-> <<Blank, "phone">>, rain_risk |-> <<>>]}
CloseRoom ==
    {[window_contacts |-> <<"w1", "w2", "w1">>], [window_contacts |-> <<Blank>>]}

\* Guards of every kind: a single sensor read two ways, a thermostat, someone
\* in the room who may also be away, a group of lights, and a weather entity
\* behind the dew point.
Weather(number, unit, humidity) ==
    [text |-> "sunny", number |-> number, unit |-> unit, humidity |-> humidity, action |-> None]
Thermostat(action) == [Texts("heat") EXCEPT !.action = action]

GuardEntity == {"weather", "climate", "someone", "l1", "l2"}
GuardDomain ==
    [weather |-> "weather", climate |-> "climate", someone |-> "person",
     l1 |-> "light", l2 |-> "switch"]
GuardReports ==
    [weather |-> {Texts("unavailable"), Weather(C(20), "C", 50), Weather(C(20), "C", 90),
                 Weather(C(20), "C", None)},
     climate |-> {Thermostat(action) : action \in {"heating", "idle", None}},
     someone |-> Plain({"home", "not_home", "unavailable"}),
     l1 |-> Plain({"off", "unavailable"}), l2 |-> Plain({"on", "off", "odd"})]
GuardShared ==
    {[outdoor_temperature |-> <<"weather">>, outdoor_humidity |-> <<"weather">>],
     [outdoor_temperature |-> <<"weather">>, away |-> <<"someone">>]}
GuardRoom ==
    {[hvac |-> <<"climate">>, occupancy |-> <<"someone">>, lights |-> <<"l1", "l2">>],
     [lights |-> <<"l2", Blank, "l2">>]}

\* Instruments in two units, what they report when they are wrong, and
\* someone who is in a room when a tracker puts them anywhere at all.
Sensor(number, unit) ==
    [text |-> "reading", number |-> number, unit |-> unit, humidity |-> None, action |-> None]

DerivedEntity == {"indoor", "outdoor", "weather", "humidity", "someone"}
DerivedDomain ==
    [indoor |-> "sensor", outdoor |-> "sensor", weather |-> "weather", humidity |-> "sensor",
     someone |-> "person"]
DerivedReports ==
    [indoor |-> {Sensor(C(25), "C"), Sensor(F(68), "F"), Sensor(F(68), None)},
     outdoor |-> {Sensor(C(15), "C"), Sensor(F(50), "F"), Sensor(C(-300), "C"),
                  Sensor(NotANumber, "C"), Sensor(20, "rainbows")},
     weather |-> {Weather(F(50), "F", 80), Weather(None, "F", None), Weather(F(10), None, 0)},
     humidity |-> {Sensor(80, "%"), Sensor(1, "ratio"), Sensor(0, "%")},
     someone |-> Plain({"Work", "not_home", "unavailable"})]
DerivedShared ==
    {[outdoor_temperature |-> <<"outdoor">>, outdoor_humidity |-> <<"humidity">>],
     [outdoor_temperature |-> <<"weather">>, outdoor_humidity |-> <<"weather">>],
     [outdoor_humidity |-> <<"humidity">>]}
DerivedRoom ==
    {[indoor_temperature |-> <<"indoor">>, occupancy |-> <<"someone">>],
     [indoor_co2 |-> <<"indoor">>]}
DerivedPoles == {<<C(10), 80>>}
=============================================================================
