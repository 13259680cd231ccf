SPECIFICATION GatewaySpec
CONSTANTS
    port = port
    led = led
    Devices <- MCDevices
    Serial = {port}
    Reconnect = TRUE
    Main = Main
    Callback = Callback
    Consumer = Consumer
    NoDevice = NoDevice
    MaxLaunches = 2
    MaxRequests = 1
    MaxData = 1
    MaxFaults = 1
CHECK_DEADLOCK FALSE
INVARIANTS
    NothingBehind
PROPERTIES
    RecoversUnlessOvertaken
    StopReturnsUnlessHeld
