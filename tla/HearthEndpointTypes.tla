------------------------- MODULE HearthEndpointTypes -------------------------
(***************************************************************************)
(* The endpoint classes, each by what its setters, its attributeChangeCB(),*)
(* its hearthOnReconciled() and its command handlers do with its cached    *)
(* fields.  HearthEndpoints says how a field and an attribute then change. *)
(***************************************************************************)
EXTENDS Integers, Sequences, SequencesExt

Bit == {0, 1}
Null == -1             \* a value no setter sends; a field never set
Value == Bit \cup {Null}
Nothing == <<>>        \* the function of no field

All(F, v) == [f \in F |-> v]
Caches(F) == {All(F, 0), All(F, 1)}

\* One write of a setter.  It is left out when the cache already holds `to`
\* ("equal"), or holds it and has the field's flag up ("written"); it carries
\* w beside the cached values of `also`; an OK puts `to` into the cache.
Write(skip, to, w, also) == [skip |-> skip, to |-> to, w |-> w, also |-> also]

Set(f, v)       == Write("equal", f :> v, f :> v, {})
SetOnce(f, v)   == Write("written", f :> v, f :> v, {})
SetAlways(f, v) == Write("never", f :> v, f :> v, {})
Resend(F)       == Write("never", Nothing, Nothing, F)

Ask(w)          == Write("never", Nothing, w, {})

Setters(F) == {<<Set(f, v)>> : f \in F, v \in Bit}
Senders(F) == {<<SetAlways(f, v)>> : f \in F, v \in Bit}

\* A class with fields F and an attribute for each, whose begin() leaves one of
\* the caches `begin` and whose endpoint the co-processor creates with `fresh`.
Class(F, begin, fresh) ==
  [begin     |-> begin,           \* what begin() leaves in the fields
   fresh     |-> fresh,           \* attribute -> its value on a new endpoint
   shows     |-> [f \in F |-> f], \* field -> the attribute it mirrors
   groups    |-> {{f} : f \in F}, \* fields no setter relates
   calls     |-> Setters(F),      \* what a setter call sends
   hears     |-> Nothing,         \* attribute -> field attributeChangeCB() sets
   vetoes    |-> {},              \* of these, those a handler can keep out
   changes   |-> {},              \* attributes a controller or firmware changes
   flagged   |-> {},              \* fields with a "has been set" flag
   marks     |-> {},              \* flagged by a report too
   noted     |-> {},              \* flagged by a call that writes nothing too
   push      |-> <<>>,            \* what hearthOnReconciled() sends again
   ifWritten |-> {},              \* of that, what is sent only once written
   forgets   |-> {},              \* flags hearthOnReconciled() takes down
   sticks    |-> {},              \* flags nothing takes down
   forwards  |-> {},              \* commands of a controller the class notes
   keeps     |-> {}]              \* attributes that outlive a reboot

Listens(c, F) == [c EXCEPT !.hears = [f \in F |-> f], !.changes = F]
Vetoes(c, F)  == [Listens(c, F) EXCEPT !.vetoes = F]

\* A class that does what a does and what b does, with the fields of both.
Merge(a, b) ==
  [begin     |-> {x @@ y : x \in a.begin, y \in b.begin},
   fresh     |-> a.fresh @@ b.fresh,
   shows     |-> a.shows @@ b.shows,
   groups    |-> a.groups \cup b.groups,
   calls     |-> a.calls \cup b.calls,
   hears     |-> a.hears @@ b.hears,
   vetoes    |-> a.vetoes \cup b.vetoes,
   changes   |-> a.changes \cup b.changes,
   flagged   |-> a.flagged \cup b.flagged,
   marks     |-> a.marks \cup b.marks,
   noted     |-> a.noted \cup b.noted,
   push      |-> a.push \o b.push,
   ifWritten |-> a.ifWritten \cup b.ifWritten,
   forgets   |-> a.forgets \cup b.forgets,
   sticks    |-> a.sticks \cup b.sticks,
   forwards  |-> a.forwards \cup b.forwards,
   keeps     |-> a.keeps \cup b.keeps]

-----------------------------------------------------------------------------
(* Lights and switches: every field is an argument of begin(), and the     *)
(* sketch's handler decides whether a report reaches the cache.            *)

Actuator(F) == Vetoes(Class(F, Caches(F), All(F, 0)), F)

OnOffLight     == Actuator({"onOff"})
OnOffPlugin    == Actuator({"onOff"})
MountedOnOffControl == Actuator({"onOff"})

DimmableLight  == Actuator({"onOff", "brightness"})
DimmablePlugin == Actuator({"onOff", "level"})
MountedDimmableLoadControl == Actuator({"onOff", "brightness"})

ColorTemperatureLight == Actuator({"onOff", "brightness", "mireds"})

HSV == {"hue", "sat", "value"}

\* setColorHSV(): a write for each component that differs, each on its own.
SetHSV(h, s, v) == <<Set("hue", h), Set("sat", s), Set("value", v)>>

Colors == {SetHSV(0, 0, 1), SetHSV(1, 1, 0)}

ColorLight ==
  [Actuator({"onOff"} \cup HSV) EXCEPT
     !.groups = {{"onOff"}, HSV},
     !.calls = Setters({"onOff"}) \cup Colors]

\* The brightness and the colour's value are one attribute; a report of it
\* reaches the colour only.
SetBrightness(v) == Write("equal", "brightness" :> v, "value" :> v, {})

EnhancedColorLight ==
  LET base == Actuator({"onOff", "mireds"} \cup HSV)
  IN [base EXCEPT
        !.begin = {"brightness" :> b @@ c : b \in Bit, c \in @},
        !.shows = "brightness" :> "value" @@ base.shows,
        !.calls = Setters({"onOff", "mireds"})
                  \cup {<<SetBrightness(v)>> : v \in Bit}
                  \cup Colors,
        !.groups = {{"onOff"}, {"mireds"}, HSV \cup {"brightness"}}]

-----------------------------------------------------------------------------
(* Fans: the speed is one field, reported by two attributes.  A silent     *)
(* setSpeedPercent() writes both and returns the second write's result.    *)
(* PercentCurrent follows PercentSetting.                                  *)

FanFields == {"mode", "percent"}

Fan ==
  LET SetSpeed(v) == Write("equal", "percent" :> v, "setting" :> v, {})
      SetSilently(v) == <<Ask("setting" :> v),
                          Write("never", "percent" :> v, "current" :> v, {})>>
  IN [Class(FanFields, Caches(FanFields),
            All({"mode", "setting", "current"}, 0)) EXCEPT
        !.shows = "mode" :> "mode" @@ "percent" :> "setting",
        !.calls = Setters({"mode"}) \cup {<<SetSpeed(v)>> : v \in Bit}
                                    \cup {SetSilently(v) : v \in Bit},
        !.hears = "mode" :> "mode" @@ "setting" :> "percent"
                                   @@ "current" :> "percent",
        !.vetoes = {"mode", "setting", "current"},
        !.changes = {"mode", "setting"}]

AirPurifier   == Fan
ExtractorHood == Fan

\* The status is one attribute of two halves: setOperationalState() sends one
\* with the other as it is cached, setOperationalStatus() both.
CoverStatus ==
  LET F == {"opLift", "opTilt"}
      Half(f, v) == <<Write("equal", f :> v, f :> v, F \ {f})>>
      Both(l, t) == LET s == "opLift" :> l @@ "opTilt" :> t
                    IN <<Write("equal", s, s, {})>>
  IN [Listens(Class(F, {All(F, 0)}, All(F, 0)), F) EXCEPT
        !.groups = {F},
        !.calls = {Half(f, v) : f \in F, v \in Bit}
                  \cup {Both(l, t) : l \in Bit, t \in Bit}]

CoverFields == {"lift", "tilt", "targetLift", "targetTilt", "type"}

\* begin() puts the targets where the cover is; no handler sees the type.
WindowCovering ==
  LET base == Class(CoverFields, Caches(CoverFields), All(CoverFields, 0))
  IN Merge(CoverStatus, [Vetoes(base, CoverFields) EXCEPT !.vetoes = @ \ {"type"}])

-----------------------------------------------------------------------------
(* Climate and water. *)

OffMode == 0
AutoMode == 1

\* A thermostat takes the modes its control sequence and its AUTO setting
\* allow; its setpoints start as the co-processor's do (cooling the higher).
Climate(begin, F) == Class(F, {begin}, begin)

ThermostatSeed == "mode" :> OffMode @@ "local" :> 0 @@ "cool" :> 1 @@ "heat" :> 0

SetBoth == <<Set("cool", 1), Set("heat", 0)>>

Thermostat ==
  LET F == DOMAIN ThermostatSeed
  IN [Vetoes(Climate(ThermostatSeed, F), F) EXCEPT
        !.calls = Setters(F) \cup {SetBoth},
        !.groups = {{"local"}, {"mode", "cool", "heat"}}]

RoomAirConditioner ==
  LET F == DOMAIN ThermostatSeed
      on == Listens(Class({"onOff"}, Caches({"onOff"}), All({"onOff"}, 0)), {"onOff"})
  IN Merge(on, Listens(Climate(ThermostatSeed, F), F))

PumpLimits  == {"maxPressure", "maxSpeed", "maxFlow"}
PumpEffects == {"effectiveMode", "effectiveControl"}

Pump ==
  LET zero == PumpLimits \cup PumpEffects \cup {"opMode"}
      base == Merge(Class({"onOff"}, Caches({"onOff"}), All({"onOff"}, 0)),
                    Class(zero, {All(zero, 0)},
                          All(PumpLimits, Null) @@ All(zero, 0)))
  IN [Listens(base, {"onOff", "opMode"} \cup PumpEffects) EXCEPT
        !.calls = Setters({"onOff", "opMode"} \cup PumpLimits)]

-----------------------------------------------------------------------------
(* Appliances. *)

\* A list a setter always sends, kept to be sent again at every reconcile.
Lists(F) == [Class(F, {All(F, Null)}, All(F, Null)) EXCEPT
               !.calls = Senders(F),
               !.push = SetToSeq({Resend({f}) : f \in F})]

\* A mode a controller's ChangeToMode picks, if the sketch's handler allows it;
\* none of its reports reaches the class.
Chosen(F) == [Class(F, {All(F, 0)}, All(F, 0)) EXCEPT
                !.calls = {},
                !.forwards = {[to |-> f :> v, w |-> f :> v] : f \in F, v \in Bit}]

\* A state only the sketch reports, never a report of the co-processor.
Told(F) == Class(F, {All(F, 0)}, All(F, 0))

ModeSelect == Merge(Lists({"modes"}), Listens(Told({"mode"}), {"mode"}))

Cooktop == [Vetoes(Told({"onOff"}), {"onOff"}) EXCEPT
              !.calls = {<<Set("onOff", 0)>>}]

\* The limits and the setpoint are arguments of begin(), unknown to the new
\* endpoint, and sent again in this order at every reconcile.
CabinetArgs(setpoint) ==
  "min" :> 0 @@ "max" :> 1 @@ "step" :> 1 @@ "setpoint" :> setpoint

CabinetNumber ==
  LET F == DOMAIN CabinetArgs(0)
  IN [Listens(Class(F, {CabinetArgs(s) : s \in Bit}, All(F, Null)), F) EXCEPT
        !.groups = {{"step"}, {"min", "max", "setpoint"}},
        !.push = <<Resend({"min"}), Resend({"max"}), Resend({"step"}),
                   Resend({"setpoint"})>>]

\* List 0 has both levels, list 1 has level 0 alone.
LevelFields == {"levels", "level"}

CabinetLevel ==
  LET base == Class(LevelFields, {"levels" :> l @@ "level" :> 0 : l \in Bit},
                    All(LevelFields, Null))
  IN [Listens(base, {"level"}) EXCEPT
        !.groups = {LevelFields},
        !.calls = Senders({"levels"}) \cup Setters({"level"}),
        !.push = <<Resend({"levels"}), Resend({"level"})>>]

\* A cabinet a refrigerator owns has modes of its own.
OwnedCabinet == Merge(CabinetLevel, Merge(Lists({"fridgeModes"}), Chosen({"mode"})))

CookSurface ==
  Merge(CabinetNumber, Listens(Told({"onOff"}), {"onOff"}))

FridgeModes == Merge(Lists({"modes"}), Chosen({"mode"}))

SetAlarmState(v) == <<Ask("alarm" :> v)>>

Refrigerator == [FridgeModes EXCEPT !.calls = @ \cup {SetAlarmState(v) : v \in Bit},
                                    !.fresh = "alarm" :> 0 @@ @]

OperationalStateEndpoint == Told({"opState"})
LaundryWasher == OperationalStateEndpoint
LaundryDryer  == OperationalStateEndpoint
Dishwasher    == OperationalStateEndpoint

CavityModes == Merge(Lists({"ovenModes"}), Chosen({"mode"}))

OvenCavity == Merge(CabinetNumber, Merge(CavityModes, Told({"opState"})))

MicrowaveOven == Merge(OperationalStateEndpoint, Lists({"modes"}))

VacuumModes == Merge(Lists({"runModes", "cleanModes"}),
                     Chosen({"runMode", "cleanMode"}))

RoboticVacuum == Merge(OperationalStateEndpoint, VacuumModes)

\* begin(locked) is sent at every reconcile.
DoorLock ==
  LET F == {"lockState"}
  IN [Listens(Class(F, Caches(F), All(F, Null)), F) EXCEPT
        !.changes = {}, !.push = <<Resend(F)>>]

\* With a level the state is sent whatever the cache holds.
WaterValve ==
  LET F == {"valveState"}
  IN [Listens(Told(F), F) EXCEPT !.changes = {}, !.calls = Setters(F) \cup Senders(F)]

-----------------------------------------------------------------------------
(* Sensors and alarms: nothing but the sketch changes what they report.     *)

\* The value is an argument of begin(); its report reaches the cache unless
\* the sketch's handler keeps it out, always, or never.
Sensor(f)      == [Actuator({f}) EXCEPT !.changes = {}]
Gauge(f)       == [Sensor(f) EXCEPT !.vetoes = {}, !.fresh = All({f}, Null)]
DeafGauge(f)   == [Gauge(f) EXCEPT !.hears = Nothing]

ContactSensor       == Sensor("contact")
RainSensor          == Sensor("rain")
WaterLeakDetector   == Sensor("leak")
WaterFreezeDetector == Sensor("freeze")
OccupancySensor     == Sensor("occupancy")
FlowSensor          == Gauge("flow")
LightSensor         == Gauge("illuminance")
AirQualitySensor    == Gauge("airQuality")
PressureSensor      == Gauge("pressure")
HumiditySensor      == Gauge("humidity")
TemperatureSensor   == DeafGauge("temperature")

PowerFields == {"chargeLevel", "percentRemaining", "replacementNeeded"}

PowerSource == [Listens(Told(PowerFields), PowerFields) EXCEPT !.changes = {}]

\* completeSelfTest() ends the test, which no field shows.
CompleteSelfTest == <<Ask("selfTest" :> 0)>>

AlarmFields == {"smokeState", "coState", "batteryAlert", "deviceMuted",
                "hardwareFault", "endOfService", "interconnectSmoke",
                "interconnectCO", "contamination", "sensitivity"}

SmokeCOAlarm == [Told(AlarmFields) EXCEPT !.fresh = "selfTest" :> 0 @@ @,
                                          !.calls = @ \cup {CompleteSelfTest}]

GenericSwitch == [Class({}, {Nothing}, "presses" :> 0) EXCEPT
                    !.groups = {{}}, !.calls = {<<Ask("presses" :> 1)>>}]

\* Fields with a "has been set" flag, which makes the first write go out even
\* if it equals what the cache began with.
Flagged(F) == [Class(F, {All(F, 0)}, All(F, Null)) EXCEPT
                 !.calls = {<<SetOnce(f, v)>> : f \in F, v \in Bit},
                 !.flagged = F]

\* Samples: the flag goes down at a reconcile, so the next one is written.
Sampled(F)    == [Flagged(F) EXCEPT !.forgets = F]

\* Configuration: once written it is sent again at every reconcile, in order.
Configured(s) == [Flagged(ToSet(s)) EXCEPT
                    !.ifWritten = ToSet(s),
                    !.push = [i \in DOMAIN s |-> Resend({s[i]})]]

\* The co-processor keeps the selection and the switch over a reboot.
ChimeFields == {"selectedChime", "enabled"}

ChimeSounds == Lists({"sounds"})

Chime == Merge([Flagged(ChimeFields) EXCEPT !.keeps = ChimeFields], ChimeSounds)

-----------------------------------------------------------------------------
(* Energy. *)

Power  == {"voltage", "activeCurrent", "activePower"}
Totals == {"energyImported", "energyExported"}

\* pushMeasurements() sends three samples in one line.
PushMeasurements(v) == <<Write("never", All(Power, v), All(Power, v), {})>>

\* Power samples, and the running totals of energy where the variant has them.
Measurement(enabled) ==
  Merge([Sampled(Power \cup {"frequency"}) EXCEPT
           !.groups = {Power, {"frequency"}},
           !.calls = @ \cup {PushMeasurements(v) : v \in Bit}],
        [Class(Totals, {All(Totals, 0)}, All(Totals, Null)) EXCEPT
           !.calls = IF enabled THEN Senders(Totals) ELSE {}])

ElectricalSensor == Measurement(TRUE)
ElectricalMeter  == Measurement(TRUE)
HeatPump         == Measurement(TRUE)
SolarPower       == Measurement(FALSE)

Online == 0
Active == 1

EsaConfiguration == <<"esaType", "canGenerate", "absMin", "absMax">>

DemConfiguration == Configured(EsaConfiguration)

\* An accepted PowerAdjust or its cancellation sets the state on both sides;
\* endAdjustment() is setESAState(Online).
DemState(controllable) ==
  LET Adjusted(v) == [to |-> "esaState" :> v, w |-> "esaState" :> v]
  IN [Sampled({"esaState", "optOut"}) EXCEPT
        !.calls = @ \cup {<<Ask("energyUse" :> v)>> : v \in Bit},
        !.fresh = "energyUse" :> Null @@ @,
        !.forwards = IF controllable
                       THEN {Adjusted(v) : v \in {Online, Active}} ELSE {}]

DemControl(controllable) ==
  Merge(DemConfiguration,
        Merge([Lists({"capability"}) EXCEPT !.calls = IF controllable THEN @ ELSE {}],
              DemState(controllable)))

DeviceEnergyManagement == DemControl(TRUE)
ReportOnlyManagement   == DemControl(FALSE)

\* The readings are samples, heard too; the capacity and the charge state are
\* written if they differ from the cache and sent again once a setter was called.
BatteryReadings == {"batVoltage", "batPercent", "batTime", "batTimeToFull",
                    "batCurrent"}
BatteryState    == <<"batCapacity", "batChargeState">>

Battery ==
  LET state == ToSet(BatteryState)
  IN [Listens(Merge(Sampled(BatteryReadings), Configured(BatteryState)),
            BatteryReadings \cup state) EXCEPT
        !.marks = BatteryReadings,
        !.noted = state,
        !.calls = {<<SetOnce(f, v)>> : f \in BatteryReadings, v \in Bit}
                  \cup Setters(state)]

BatteryStorage == Merge(Battery, Merge(Measurement(TRUE), DemControl(TRUE)))

\* Every setter sends the whole identity; none does before a threshold is set.
MeterFields == {"meterType", "pod", "serial", "protocol", "threshold"}

SendIdentity(skip, f, v) == <<Write(skip, f :> v, f :> v, MeterFields \ {f})>>

ElectricalUtilityMeter ==
  LET F == MeterFields \ {"threshold"}
  IN [Class(MeterFields, {"threshold" :> Null @@ All(F, 0)},
            All(MeterFields, Null)) EXCEPT
        !.groups = {{f, "threshold"} : f \in F},
        !.calls = {SendIdentity("written", f, v) : f \in F, v \in Bit}
                  \cup {SendIdentity("equal", "threshold", v) : v \in Bit},
        !.flagged = F,
        !.push = <<Resend(MeterFields)>>]

\* setLocalTemperature()'s flag is raised by a report too and stays up.
HeaterSeed == "mode" :> AutoMode @@ "heatSetpoint" :> 0

HeaterThermostat ==
  Vetoes(Merge(Climate(HeaterSeed, DOMAIN HeaterSeed),
               [Flagged({"local"}) EXCEPT !.marks = {"local"}, !.sticks = {"local"}]),
         {"mode", "heatSetpoint", "local"})

HeaterModes == Merge(Lists({"modes"}), Chosen({"heaterMode"}))

\* endBoost() ends the boost, which no field shows.
HeaterManagement ==
  LET tank == Merge(Configured(<<"heaterTypes", "tankVolume">>),
                    Sampled({"heatDemand", "estHeatRequired", "tankPercentage"}))
  IN [tank EXCEPT !.fresh = "boost" :> 0 @@ @,
                  !.calls = @ \cup {<<Ask("boost" :> 0)>>}]

WaterHeater ==
  Merge(Merge(HeaterManagement, HeaterModes),
        Merge(HeaterThermostat, Measurement(TRUE)))

Evse == Merge(Configured(<<"circuitCapacity">>), Sampled({"supplyState", "faultState"}))

-----------------------------------------------------------------------------

Catalogue ==
  [OnOffLight |-> OnOffLight, OnOffPlugin |-> OnOffPlugin,
   MountedOnOffControl |-> MountedOnOffControl,
   DimmableLight |-> DimmableLight, DimmablePlugin |-> DimmablePlugin,
   MountedDimmableLoadControl |-> MountedDimmableLoadControl,
   ColorTemperatureLight |-> ColorTemperatureLight, ColorLight |-> ColorLight,
   EnhancedColorLight |-> EnhancedColorLight,
   Fan |-> Fan, AirPurifier |-> AirPurifier, ExtractorHood |-> ExtractorHood,
   WindowCovering |-> WindowCovering, Thermostat |-> Thermostat,
   RoomAirConditioner |-> RoomAirConditioner, Pump |-> Pump,
   ModeSelect |-> ModeSelect, Cooktop |-> Cooktop,
   CabinetNumber |-> CabinetNumber, CabinetLevel |-> CabinetLevel,
   OwnedCabinet |-> OwnedCabinet, CookSurface |-> CookSurface,
   Refrigerator |-> Refrigerator, LaundryWasher |-> LaundryWasher,
   LaundryDryer |-> LaundryDryer, Dishwasher |-> Dishwasher,
   OvenCavity |-> OvenCavity, MicrowaveOven |-> MicrowaveOven,
   RoboticVacuum |-> RoboticVacuum, DoorLock |-> DoorLock,
   WaterValve |-> WaterValve, ContactSensor |-> ContactSensor,
   RainSensor |-> RainSensor, WaterLeakDetector |-> WaterLeakDetector,
   WaterFreezeDetector |-> WaterFreezeDetector,
   OccupancySensor |-> OccupancySensor, FlowSensor |-> FlowSensor,
   LightSensor |-> LightSensor, AirQualitySensor |-> AirQualitySensor,
   PressureSensor |-> PressureSensor, HumiditySensor |-> HumiditySensor,
   TemperatureSensor |-> TemperatureSensor, PowerSource |-> PowerSource,
   SmokeCOAlarm |-> SmokeCOAlarm, GenericSwitch |-> GenericSwitch,
   Chime |-> Chime, ElectricalSensor |-> ElectricalSensor,
   ElectricalMeter |-> ElectricalMeter, HeatPump |-> HeatPump,
   SolarPower |-> SolarPower, DeviceEnergyManagement |-> DeviceEnergyManagement,
   ReportOnlyManagement |-> ReportOnlyManagement,
   BatteryStorage |-> BatteryStorage,
   ElectricalUtilityMeter |-> ElectricalUtilityMeter,
   WaterHeater |-> WaterHeater, Evse |-> Evse]

\* What a setter makes sure of before its first write: `to` is what the call
\* sets, `after` the cache with it, `mode` and the others the cached values.
Permits(name, to, cache, wrote) ==
  LET after == to @@ cache
  IN /\ name = "Thermostat" /\ "mode" \notin DOMAIN to /\ cache.mode = AutoMode =>
          after.cool > after.heat
     /\ name \in {"CabinetNumber", "CookSurface", "OvenCavity"}
        /\ "setpoint" \in DOMAIN to =>
          to.setpoint \in cache.min .. cache.max
     /\ name \in {"CabinetLevel", "OwnedCabinet"} /\ "level" \in DOMAIN to =>
          (cache.levels = 1 => to.level = 0)
     /\ name \in {"Fan", "AirPurifier", "ExtractorHood"} /\ "percent" \in DOMAIN to =>
          to.percent # cache.percent
     /\ name = "ElectricalUtilityMeter" /\ "threshold" \notin DOMAIN to =>
          cache.threshold # Null

-----------------------------------------------------------------------------
(* What is true of every class of the catalogue, and all that is used of it *)
(* in the proofs.  The catalogue is one finite record: TLC evaluates this.  *)

Writes(c) == UNION {ToSet(s) : s \in c.calls \cup {c.push}}

\* The attributes the command of a write carries.
Carries(c, p) == DOMAIN p.w \cup {c.shows[f] : f \in p.also}

\* The fields that mirror one of the attributes A.
Showing(c, A) == {f \in DOMAIN c.shows : c.shows[f] \in A}

Heard(c) == {c.hears[a] : a \in DOMAIN c.hears}

\* Fields that hold a value from begin() on.
Seeded(c) == {f \in DOMAIN c.shows : \A b \in c.begin : b[f] # Null}

\* Flags that speak of the co-processor, and of these the ones whose field it
\* is sent again.
Vouched(c) == c.flagged \ (c.noted \cup c.sticks)
Resent(c)  == {f \in Vouched(c) : f \notin c.forgets /\ c.shows[f] \notin c.keeps}

WellTyped(c) ==
  LET F == DOMAIN c.shows
      A == DOMAIN c.fresh
      H == DOMAIN c.hears
  IN /\ c.begin \subseteq [F -> Value] /\ c.fresh \in [A -> Value]
     /\ c.shows \in [F -> A]
     /\ c.hears \in [H -> F] /\ H \subseteq A /\ IsFiniteSet(H)
     /\ c.changes \subseteq A /\ c.keeps \subseteq A /\ c.vetoes \subseteq H
     /\ c.flagged \subseteq F
     /\ c.marks \cup c.noted \cup c.sticks \cup c.forgets \subseteq c.flagged
     /\ \A s \in c.calls \cup {c.push} : s \in Seq(Writes(c))
     /\ \A p \in Writes(c) \cup c.forwards :
          /\ DOMAIN p.to \subseteq F /\ \A f \in DOMAIN p.to : p.to[f] \in Bit
          /\ DOMAIN p.w \subseteq A /\ \A a \in DOMAIN p.w : p.w[a] \in Bit

\* The attribute whose report reaches a field is the one the field mirrors.
Straight(c, a) == c.shows[c.hears[a]] = a

\* A write whose OK puts into each field what its attribute was sent.
Plain(c, p) ==
  /\ \A f \in DOMAIN p.to : c.shows[f] \in DOMAIN p.w /\ p.w[c.shows[f]] = p.to[f]
  /\ \A a \in DOMAIN p.w \cap DOMAIN c.hears : Straight(c, a)

\* Two writes of which the first sends a value and the second, to attributes no
\* field mirrors, puts it into the field.
Follows(c, q, p) ==
  /\ Plain(c, q) /\ q.to = Nothing
  /\ q.skip = "never" /\ p.skip = "never"
  /\ p.also = {}
  /\ Showing(c, DOMAIN p.w) = {}
  /\ \A a \in DOMAIN p.w \cap DOMAIN c.hears :
       c.hears[a] \in DOMAIN p.to /\ p.w[a] = p.to[c.hears[a]]
  /\ \A f \in DOMAIN p.to :
       /\ c.shows[f] \in DOMAIN q.w /\ q.w[c.shows[f]] = p.to[f]
       /\ f \notin c.flagged /\ c.shows[f] \notin c.keeps
       /\ \A g \in c.forwards : f \notin DOMAIN g.to

WritesWell(c) ==
  /\ \A p \in Writes(c) :
       /\ p.also \subseteq DOMAIN c.shows
       /\ Carries(c, p) # {}
       /\ \A g \in p.also : /\ c.shows[g] \notin DOMAIN p.w
                            /\ Showing(c, {c.shows[g]}) = {g}
  /\ \A s \in c.calls :
       /\ s # <<>>
       /\ \/ \A i \in DOMAIN s : Plain(c, s[i])
          \/ Len(s) = 2 /\ Follows(c, s[1], s[2])
  /\ \A p \in ToSet(c.push) : p.skip = "never" /\ p.to = Nothing /\ p.w = Nothing

\* A report reaches a field that began with a value; an attribute that reports
\* into a field of another is changed by a write alone.
ReportsWell(c) ==
  /\ Heard(c) \cup Showing(c, DOMAIN c.hears) \subseteq Seeded(c)
  /\ Showing(c, c.keeps) \cap Heard(c) = {}
  /\ \A a \in DOMAIN c.hears :
       Straight(c, a) \/ (a \notin c.changes /\ Showing(c, {a}) = {})

ForwardsWell(c) ==
  \A g \in c.forwards :
    /\ DOMAIN g.w \cap DOMAIN c.hears = {}
    /\ Showing(c, DOMAIN g.w) = DOMAIN g.to
    /\ DOMAIN g.to \cap Heard(c) = {}
    /\ \A f \in DOMAIN g.to : g.w[c.shows[f]] = g.to[f] /\ c.shows[f] \notin c.keeps
    /\ \A p \in Writes(c) : DOMAIN g.to \cap p.also = {}
    /\ DOMAIN g.to \cap c.flagged \subseteq c.forgets

FlagsWell(c) ==
  /\ c.marks \ c.sticks \subseteq c.forgets
  /\ \A f \in Vouched(c) :
       /\ f \in Resent(c) => \E p \in ToSet(c.push) : f \in p.also
       /\ \A a \in DOMAIN c.hears : c.hears[a] = f => a \notin c.vetoes /\ Straight(c, a)
       /\ c.shows[f] \in c.changes => f \in Heard(c)
       /\ \A p \in Writes(c) : c.shows[f] \in Carries(c, p) => f \in DOMAIN p.to \cup p.also

\* What is sent beside a field that was written has a value: it is in the cache
\* from begin() on, or the setters make sure of it.
BesideWell(name, c) ==
  /\ \A p \in ToSet(c.push) : \A f \in p.also \cap Resent(c), g \in p.also :
       /\ g \in c.ifWritten => g = f
       /\ g \in Seeded(c) \/ (name = "ElectricalUtilityMeter" /\ g = "threshold")
  /\ name = "ElectricalUtilityMeter" =>
       \A s \in c.calls : \A p, q \in ToSet(s) :
         "threshold" \in DOMAIN p.to => DOMAIN q.to \cap Resent(c) = {}

WellFormed(name) ==
  LET c == Catalogue[name]
  IN /\ WellTyped(c) /\ WritesWell(c) /\ ReportsWell(c) /\ ForwardsWell(c)
     /\ FlagsWell(c) /\ BesideWell(name, c)

WellFormedCatalogue == \A name \in DOMAIN Catalogue : WellFormed(name)

ASSUME CatalogueAssumption == WellFormedCatalogue
==============================================================================
