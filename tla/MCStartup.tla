------------------------------ MODULE MCStartup ------------------------------
(* One machine with two tray processes on one folder, from every configuration; and   *)
(* machines with one start and every list of adapters that tie, repeat or are unusable. *)
EXTENDS Startup
Row(a, v, m) == [ip |-> a, virtual |-> v, metric |-> m]
MCRows == {Row("private1", TRUE, 1), Row("private1", FALSE, 2), Row("private2", FALSE, 2),
           Row("public", FALSE, 1), Row("169.254.0.1", FALSE, 1)}
Failed == [ok |-> FALSE, rows |-> <<>>]
Yields(n) == {[ok |-> TRUE, rows |-> r] : r \in SeqOf(MCRows, n)}
Adapters ==
    [windows : Yields(3), route : {Failed}, sock : {"127.0.0.1"}]
    \cup [windows : {Failed} \cup Yields(0), route : {Failed} \cup Yields(2),
              sock : {"private2", "127.0.0.1"}]
Hosts == {"0.0.0.0", "127.0.0.1", "private2", "169.254.0.1"}
Bound == [httpHost : Hosts, udpHost : Hosts]
Machine(c, e, l, b, o, a) ==
    [config |-> c, env |-> e, launches |-> l, httpHost |-> b.httpHost, udpHost |-> b.udpHost,
     override |-> o, windows |-> a.windows, route |-> a.route, sock |-> a.sock]
Everywhere == [httpHost |-> "0.0.0.0", udpHost |-> "0.0.0.0"]
OneAdapter == [windows |-> [ok |-> TRUE, rows |-> <<Row("private1", FALSE, 1)>>],
               route |-> Failed, sock |-> "127.0.0.1"]
OneLaunch == [p \in Procs |-> IF p = CHOOSE q \in Procs : TRUE THEN 1 ELSE 0]
MCMachines ==
    {Machine(c, e, [p \in Procs |-> MaxLaunches], Everywhere, "None", OneAdapter) :
        c \in Configs \cup {Missing, Half}, e \in {NoPort, Default, BadPort}}
    \cup {Machine(Defaults, NoPort, OneLaunch, b, o, a) :
        b \in Bound, o \in {"None"}, a \in Adapters}
    \cup {Machine(Defaults, NoPort, OneLaunch, b, o, OneAdapter) :
        b \in Bound, o \in {"public", "private2", "169.254.0.1"}}
=============================================================================
