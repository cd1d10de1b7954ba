----------------------------- MODULE LanDiscovery -----------------------------
(***************************************************************************)
(* The choice of the LAN address (src/app/network.py): where candidates    *)
(* come from, how they are ranked, and which addresses the service then    *)
(* tells the user to open or to enter in the game.                         *)
(*                                                                         *)
(* A command's result is a record: whether it could be used at all, and    *)
(* the rows read from it.  A row is an address, whether its adapter looks  *)
(* virtual, and its metric.                                                *)
(***************************************************************************)
EXTENDS Integers, FiniteSetsExt, SequencesExt

CONSTANTS
    PrivateIPs,     \* RFC 1918
    PublicIPs,      \* other addresses a host may have in a LAN
    AnyHost,        \* 0.0.0.0
    Localhost,      \* 127.0.0.1 or localhost
    OtherHosts,     \* any other text: the rest of loopback, link-local, multicast, IPv6, names
    NoAddress       \* None

ASSUME AddressAssumption ==
    /\ {AnyHost, Localhost, NoAddress} \cap (PrivateIPs \cup PublicIPs) = {}
    /\ OtherHosts \cap (PrivateIPs \cup PublicIPs \cup {AnyHost, Localhost, NoAddress}) = {}
    /\ NoAddress \notin {AnyHost, Localhost}

Addresses == PrivateIPs \cup PublicIPs \cup {AnyHost, Localhost} \cup OtherHosts
Rows == [ip : Addresses, virtual : BOOLEAN, metric : Int]

\* _validated_address
Usable(a) == a \in PrivateIPs \cup PublicIPs

\* Mutant: a private address comes first whatever its adapter is.
PrivateFirst(c) == <<IF c.ip \in PrivateIPs THEN 0 ELSE 1, IF c.virtual THEN 1 ELSE 0, c.metric>>

\* _candidate_rank
Rank(c) == <<IF c.virtual THEN 1 ELSE 0, IF c.ip \in PrivateIPs THEN 0 ELSE 1, c.metric>>

\* Tuples are compared from the left.
Less(s, t) == \E i \in 1..3 : s[i] < t[i] /\ \A j \in 1..i - 1 : s[j] = t[j]

\* The place of set that has n - 1 others before it; order is a set of pairs.
Nth(set, order, n) == CHOOSE i \in set : Cardinality({j \in set : <<j, i>> \in order}) = n - 1

\* The elements of s at the places in set, in that order.
Pick(s, set, order) == [n \in 1..Cardinality(set) |-> s[Nth(set, order, n)]]

Pairs(s) == (DOMAIN s) \X (DOMAIN s)
AsListed(s) == {p \in Pairs(s) : p[1] < p[2]}

\* sort() is stable.
ByRank(s) ==
    {p \in Pairs(s) : LET a == Rank(s[p[1]])
                          b == Rank(s[p[2]])
                      IN  Less(a, b) \/ (a = b /\ p[1] < p[2])}

\* _windows_candidates, _route_print_candidates: rows with an unusable address are left out.
Candidates(result) ==
    IF result.ok
    THEN Pick(result.rows, {i \in DOMAIN result.rows : Usable(result.rows[i].ip)},
              AsListed(result.rows))
    ELSE <<>>

\* _socket_route_candidate
SocketCandidates(a) ==
    IF Usable(a) THEN << [ip |-> a, virtual |-> FALSE, metric |-> 0] >> ELSE <<>>

\* The places of s whose address no earlier one has.
Firsts(s) == {i \in DOMAIN s : \A j \in 1..i - 1 : s[j].ip # s[i].ip}

\* _deduplicate: the first of each address.
Deduplicate(s) == Pick(s, Firsts(s), AsListed(s))

Sorted(s) == Pick(s, DOMAIN s, ByRank(s))

\* Mutant: only a source that failed is made up for, not one that found nothing.
FoundAfterFailure(windows, route, sock) ==
    IF windows.ok THEN Candidates(windows)
    ELSE IF route.ok THEN Candidates(route)
    ELSE SocketCandidates(sock)

\* The first source that has candidates.
Found(windows, route, sock) ==
    IF Candidates(windows) # <<>> THEN Candidates(windows)
    ELSE IF Candidates(route) # <<>> THEN Candidates(route)
    ELSE SocketCandidates(sock)

\* discover_lan_ipv4; an override that is no usable address raises ValueError.
Discovered(override, windows, route, sock) ==
    IF override # NoAddress
    THEN << [ip |-> override, virtual |-> FALSE, metric |-> 0] >>
    ELSE Sorted(Deduplicate(Found(windows, route, sock)))

\* The warnings of the discovery itself: a source that failed, unless the route table
\* made up for it, the socket, and a virtual adapter.
DiscoveryWarnings(override, windows, route, sock) ==
    LET chosen == Discovered(override, windows, route, sock)
        detailed == Candidates(windows) # <<>>
        table == ~detailed /\ Candidates(route) # <<>> IN
    IF override # NoAddress THEN {"not private" : a \in {override} \ PrivateIPs}
    ELSE {"windows" : r \in {r \in {windows} : ~r.ok /\ ~table}}
         \cup {"route" : r \in {r \in {route} : ~r.ok /\ ~detailed}}
         \cup {"socket" : a \in {a \in {sock} : ~detailed /\ ~table /\ Usable(a)}}
         \cup {"virtual" : c \in {c \in Range(chosen) : c = chosen[1] /\ c.virtual}}

\* endpoint_status: the address that reaches a socket bound to host.
Shown(host, primary) ==
    IF host = AnyHost THEN primary
    ELSE IF Usable(host) THEN host
    ELSE NoAddress

EndpointStatus(httpHost, udpHost, candidates, warnings) ==
    LET primary == IF candidates = <<>> THEN NoAddress ELSE candidates[1].ip IN
    [primary |-> primary,
     local |-> httpHost \in {AnyHost, Localhost},
     network |-> Shown(httpHost, primary),
     target |-> Shown(udpHost, primary),
     warnings |-> warnings
        \cup {"HTTP loopback" : h \in {httpHost} \cap {Localhost}}
        \cup {"UDP loopback" : h \in {udpHost} \cap {Localhost}}
        \cup {"no address" : a \in {primary} \cap {NoAddress}}]
=============================================================================
