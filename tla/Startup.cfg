SPECIFICATION StartupSpec
CONSTANTS
    Procs = {p1, p2}
    Ports = {8080, 50415, 51000}
    OldDefault = 8080
    Default = 50415
    NoPort = 0
    BadPort = 99999
    MaxLaunches = 2
    MaxSaves = 1
    PrivateIPs = {"private1", "private2"}
    PublicIPs = {"public"}
    AnyHost = "0.0.0.0"
    Localhost = "127.0.0.1"
    OtherHosts = {"169.254.0.1"}
    NoAddress = "None"
    Machines <- MCMachines
INVARIANTS
    ConfigIsWhole
    ServesChosenPort
    BestAdapterShown
    AddressesReach
CHECK_DEADLOCK FALSE
