SPECIFICATION TrackerSpec
CONSTANTS
    Instances = {"device", "mqtt"}
    Codes = {"lost", "timeout"}
    SilencedCodes = {"timeout"}
    None = None
    Recovered = Recovered
    Debounce = 1
    Escalation = 2
    Retention = 1
    MaxTime = 3
    MaxAlerts = 4
CHECK_DEADLOCK FALSE
INVARIANTS
    Protocol
PROPERTIES
    NoFlapAlert
