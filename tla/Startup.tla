------------------------------- MODULE Startup -------------------------------
(***************************************************************************)
(* The start of a tray process, from the configuration to the addresses it *)
(* shows: TrayApplication.__init__ (src/app/tray.py), which composes       *)
(* ConfigFile and LanDiscovery, and the second reading of the file by the  *)
(* lifespan it then starts.                                                *)
(***************************************************************************)
EXTENDS ConfigFile, LanDiscovery

CONSTANT Machines   \* the machines the processes may be started on

\* What a machine is made of: the file an older install has left, the environment, the
\* hosts in the settings, and what each source of addresses yields.
MachineFields == {"config", "env", "launches", "httpHost", "udpHost", "override",
                  "windows", "route", "sock"}

ASSUME StartupAssumption ==
    \A m \in Machines :
        /\ DOMAIN m = MachineFields
        /\ m.httpHost \in Addresses /\ m.udpHost \in Addresses
        /\ m.windows.rows \in Seq(Rows) /\ m.route.rows \in Seq(Rows)

VARIABLES
    machine,        \* the machine of this behaviour
    network         \* the endpoint_status of the last start

startupVars == <<vars, machine, network>>

NotYet == EndpointStatus(Localhost, Localhost, <<>>, {})

StartupInit ==
    /\ machine \in Machines
    /\ config = machine.config /\ env = machine.env /\ launches = machine.launches
    /\ Init
    /\ network = NotYet

Config == /\ \E p \in Procs : ConfigStep(p)
          /\ UNCHANGED <<machine, network>>

\* discover_lan_ipv4 and endpoint_status; an override nobody can use ends the start.
Discover(p) ==
    /\ pc[p] = "loaded"
    /\ LET m == machine IN
       IF m.override # NoAddress /\ ~Usable(m.override)
       THEN Goto(p, "down") /\ UNCHANGED network
       ELSE /\ network' = EndpointStatus(m.httpHost, m.udpHost,
                             Discovered(m.override, m.windows, m.route, m.sock),
                             DiscoveryWarnings(m.override, m.windows, m.route, m.sock))
            /\ Goto(p, "loadingAgain")
    /\ UNCHANGED <<files, env, local, launches, saves, wanted, raced, machine>>

StartupNext == Config \/ \E p \in Procs : Discover(p)

StartupSpec == StartupInit /\ [][StartupNext]_startupVars

----------------------------------------------------------------------------
(* Properties.                                                             *)

\* What makes one adapter preferable: "prefer a real private-network adapter with the
\* lowest route cost" (network.py).
Preferable(a, b) ==
    IF a.virtual # b.virtual THEN b.virtual
    ELSE IF (a.ip \in PrivateIPs) # (b.ip \in PrivateIPs) THEN a.ip \in PrivateIPs
    ELSE a.metric < b.metric

\* The address that is announced is usable, and among the rows of the source it came
\* from, each address counted as it was first listed, no row is preferable to its own;
\* an override is announced as it is, and without any row nothing is.
BestAdapterShown ==
    LET rows == IF Candidates(machine.windows) # <<>> THEN machine.windows.rows
                ELSE IF Candidates(machine.route) # <<>> THEN machine.route.rows
                ELSE SocketCandidates(machine.sock)
        first == {i \in DOMAIN rows : /\ Usable(rows[i].ip)
                                      /\ \A j \in 1..i - 1 : rows[j].ip # rows[i].ip} IN
    network # NotYet =>
        IF machine.override # NoAddress THEN network.primary = machine.override
        ELSE IF first = {} THEN network.primary = NoAddress
        ELSE \E i \in first : /\ rows[i].ip = network.primary
                              /\ \A j \in first : ~Preferable(rows[j], rows[i])

\* The addresses a machine has, as far as its sources can tell: all of them, whichever
\* the discovery asks or prefers.
Known(m) ==
    IF m.override # NoAddress THEN {m.override}
    ELSE {m.sock} \cup
         {row.ip : row \in UNION {Range(r.rows) : r \in {r \in {m.windows, m.route} : r.ok}}}

\* Another device that uses address a gets to a socket bound to host.
Reaches(host, a) == Usable(a) /\ host \in {AnyHost, a}

\* If any known address, or the bind host itself, lets other devices reach the socket,
\* such an address is announced, to open (HTTP) and to enter in the game (UDP), however
\* many of the sources failed or came back empty; none is announced otherwise.  "No
\* usable LAN IPv4 address was detected" is said exactly if none is known.  And where
\* none is announced, a warning says why (endpoint_status), but for a host of OtherHosts,
\* which is taken as it is (config.py) and about which the code says nothing.
AddressesReach ==
    network # NotYet =>
        /\ \A s \in {[host |-> machine.httpHost, shown |-> network.network, why |-> "HTTP loopback"],
                    [host |-> machine.udpHost, shown |-> network.target, why |-> "UDP loopback"]} :
              LET reaching == {a \in Known(machine) \cup {s.host} : Reaches(s.host, a)} IN
              IF reaching # {} THEN s.shown \in reaching
              ELSE /\ s.shown = NoAddress
                   /\ s.host \in OtherHosts \/ network.warnings \cap {s.why, "no address"} # {}
        /\ "no address" \in network.warnings <=> \A a \in Known(machine) : ~Usable(a)
=============================================================================
