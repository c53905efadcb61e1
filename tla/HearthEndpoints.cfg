SPECIFICATION EPSpec
CONSTANTS
  SetterCalls = 2
  Events = 1
  Faults = 1
  Classes = {"OnOffLight", "DimmableLight", "ColorTemperatureLight", "ColorLight",
    "EnhancedColorLight", "Fan", "WindowCovering", "Thermostat",
    "RoomAirConditioner", "Pump", "ModeSelect", "Cooktop", "OwnedCabinet",
    "CookSurface", "Refrigerator", "OvenCavity", "MicrowaveOven",
    "RoboticVacuum", "DoorLock", "WaterValve", "ContactSensor", "FlowSensor",
    "TemperatureSensor", "PowerSource", "SmokeCOAlarm", "GenericSwitch", "Chime",
    "ElectricalSensor", "SolarPower", "ReportOnlyManagement", "BatteryStorage",
    "ElectricalUtilityMeter", "WaterHeater", "Evse"}
INVARIANTS Agree WrittenMeansHeld PushedHolds
CHECK_DEADLOCK FALSE
