------------------------------- MODULE MCTraffic -------------------------------
(* The modules on the path of a request for model checking: listeners, sessions,   *)
(* policy, upstreams and cache.  They share no state: a behaviour is about one      *)
(* part, chosen in the initial state, which uses as many of the variables           *)
(* v1 .. v10 as its module has and leaves the others alone.  CacheFlow is the part  *)
(* with variables of its own.                                                       *)
EXTENDS CacheFlow, Integers, Sequences, FiniteSets, TLC

CONSTANTS
  None,    \* an absent value
  Parts    \* the parts of this run

VARIABLES part, v1, v2, v3, v4, v5, v6, v7, v8, v9, v10

slots == <<v1, v2, v3, v4, v5, v6, v7, v8, v9, v10>>
all == <<part, vars, slots>>

Seqs(S, n) == UNION {[1 .. k -> S] : k \in 0 .. n}

(***************************************************************************)
(* CacheValues                                                             *)
(***************************************************************************)
Soa(t, n) == [ttl |-> t, minimum |-> n]
Msg(code, answers, authorities) ==
  [truncated |-> FALSE, code |-> code, answers |-> answers, authorities |-> authorities]

ValueMessages ==
  {Msg("noerror", {2, 4}, {}), Msg("noerror", {}, {Soa(6, 2)}), Msg("noerror", {}, {}),
   Msg("nxdomain", {}, {Soa(2, 5)}), Msg("servfail", {}, {}), Msg("refused", {}, {}),
   [Msg("noerror", {2}, {}) EXCEPT !.truncated = TRUE]}

Pool(o, m, n) ==
  [enabled |-> TRUE, optimistic |-> o, answerTtl |-> 1, maxAge |-> m, negativeMaxAge |-> n]

ValueSettings ==
  {[pools |-> p, failureTtl |-> 1, negativeTtlMax |-> n,
    override |-> [enabled |-> TRUE, min |-> 2, max |-> 3]] :
     p \in {<<Pool(TRUE, 3, 1), Pool(TRUE, 1, 0)>>, <<Pool(FALSE, 1, 1)>>}, n \in {0, 3}}

(***************************************************************************)
(* PolicyPlan                                                              *)
(***************************************************************************)
Subnet(f, b, l) == [fam |-> f, bits |-> b, len |-> l]
PlanEcs(s, m) == [source |-> s, mode |-> m, custom |-> Subnet("v4", 9, 9)]
PlanRequest(l, route, client, addr, ecs, n) ==
  [listener |-> l, route |-> route, client |-> client, addr |-> addr, ecs |-> ecs, name |-> n]

PlanRequests ==
  {PlanRequest("udp", None, None, [fam |-> f, bits |-> b], None, n) :
     f \in {"v4"}, b \in 0 .. 2, n \in {"n1", "n2"}}
  \union {PlanRequest("udp", None, None, [fam |-> "mapped", bits |-> 0], None, "n1")}
  \union {PlanRequest("doh", p, "id1", [fam |-> "v4", bits |-> 3], e, "n1") :
            p \in {"/a", "/b"}, e \in {None, Subnet("v4", 1, 1)}}

PlanRule(k, res, sel, up, ecs) ==
  [kind |-> k, res |-> res, selector |-> sel, upstream |-> up, ecs |-> ecs]
PlanClient(n, ids, nets, s, cache, ecs) ==
  [name |-> n, ids |-> ids, nets |-> nets, strategy |-> s, cache |-> cache, ecs |-> ecs]
PlanStrategy(d, rules, cache, ecs) ==
  [default |-> d, rules |-> rules, cache |-> cache, ecs |-> ecs]

PlanConfigs ==
  LET g == PlanEcs("global", "client") IN
  {[listeners |-> [l \in {"udp", "doh"} |->
       IF l = "udp" THEN [kind |-> "stream", strategy |-> "s1", hosts |-> None]
       ELSE [kind |-> "doh", routes |-> [p \in {"/a", "/b"} |->
                                           IF p = "/a" THEN "s1" ELSE "s2"]]],
    strategies |-> [s \in {"s1", "s2"} |->
       IF s = "s1"
       THEN PlanStrategy("u1", <<PlanRule("set", "set", sel, "g", g),
                                 PlanRule("hosts", "hosts", None, None, g)>>, None, g)
       ELSE PlanStrategy("u1", <<>>, TRUE, PlanEcs("strategy", "disabled"))],
    clients |-> <<PlanClient("c1", {"id1"}, {Subnet("v4", 0, 2)}, None, TRUE,
                             PlanEcs("client", "client")),
                  PlanClient("c2", {}, {Subnet("v4", 0, 1)}, "s2", None, g)>>,
    globalCache |-> TRUE, resources |-> {"hosts", "set"},
    upstreamEcs |-> [u \in {"u1"} |-> PlanEcs("upstream", "client")],
    members |-> [u \in {"g"} |-> m]] :
      sel \in {None, "x"}, m \in {{None}, {None, PlanEcs("upstream", "disabled")}}}

PlanContents ==
  {[map |-> FALSE, names |-> [x \in {None} |-> s]] : s \in {{}, {"n1"}}}
  \union {[map |-> TRUE, names |-> [x \in {"x"} |-> {"n1"}]]}

(***************************************************************************)
(* DohRequest                                                              *)
(***************************************************************************)
HttpFaults == {"method", "host", "no_dns", "bad_wire"}

DohPart(head, body, fault, close, route, forwarded) ==
  [head |-> head, body |-> body, fault |-> fault, close |-> close, route |-> route,
   forwarded |-> forwarded]
Forwarded == [none |-> [has |-> "none"], bad |-> [has |-> "unreadable"],
              chain |-> [has |-> "chain", chain |-> <<"c", "p">>]]

DohFirsts ==
  {DohPart(1, b, f, c, TRUE, Forwarded.chain) :
     b \in {0, 1}, f \in HttpFaults \union {"none"}, c \in BOOLEAN}
  \union {DohPart(1, 1, "none", FALSE, r, Forwarded[w]) :
            r \in BOOLEAN, w \in {"none", "bad", "chain"}}
  \union {DohPart(h, 1, "none", FALSE, TRUE, Forwarded.chain) : h \in {2, 6, 7}}
DohSeconds ==
  {DohPart(1, 1, "none", FALSE, TRUE, Forwarded.none),
   DohPart(1, 0, "no_dns", FALSE, TRUE, Forwarded.chain)}

DohSetups ==
  {[source |-> s, trusted |-> trusted, tls |-> tls, onMissing |-> "reject",
    onInvalid |-> "use_peer", proxy |-> IF s = "proxy_protocol" THEN p ELSE 0,
    proxyGood |-> good, requests |-> <<a, b>>] :
     s \in {"peer", "forwarded", "proxy_protocol"}, trusted \in BOOLEAN,
     tls \in BOOLEAN, p \in {2, 4}, good \in BOOLEAN, a \in DohFirsts, b \in DohSeconds}

(***************************************************************************)
(* SocketBinding                                                           *)
(***************************************************************************)
Socket(o, t, a) ==
  [owner |-> o, transport |-> t, kind |-> IF t = "Udp" THEN "Udp" ELSE "Tcp", address |-> a]

SocketPlans ==
  {[owned |-> 1, entries |-> <<Socket("l1", "Udp", "a"), Socket("l1", "Tcp", "a")>>],
   [owned |-> 1, entries |-> <<Socket("l2", "Udp", "a"), Socket("l2", "Doh", "a")>>],
   [owned |-> 1, entries |-> <<Socket("l1", "Tcp", "any")>>],
   [owned |-> 1, entries |-> <<Socket("l2", "Udp", "a")>>],
   [owned |-> 2, entries |-> <<Socket("l1", "Udp", "b")>>]}

(***************************************************************************)
(* NameRules: patterns, rule lists, hosts files                            *)
(***************************************************************************)
A == <<"a">>
B == <<"b">>
Star == <<"*">>

Patterns ==
  Seqs({"a", "b", ".", "*", "?", "^", "$", "\\"}, 3)
  \union {<<"a", "*", x, "a">> : x \in {"a", "b", ".", "?"}}
  \union {<<"[">> \o p \o <<"]">> : p \in Seqs({"a", "b", "-", "^"}, 3)}
  \union {<<"a", "?", "a", "?">> \o p : p \in Seqs({"a", "b", "$"}, 3)}
PatternTexts == Seqs({"a", "b"}, 3)

QueryNames == {<<A>>, <<B>>, <<A, B>>, <<B, B>>, <<B, A>>, <<A, B, A>>}
\* Rules and host fields are numbered: their values have no common type.
NumberedRules ==
  LET exact(v) == [kind |-> "exact", value |-> v]
      suffix(v) == [kind |-> "suffix", value |-> v]
      keyword(v) == [kind |-> "keyword", value |-> v]
      regex(v) == [kind |-> "regex", value |-> v]
  IN <<exact(<<A>>), exact(<<A, B>>), exact(<<>>), suffix(<<B>>), suffix(<<A, B>>),
       suffix(<<Star, A>>), keyword(<<"a">>), keyword(<<"b", ".">>), keyword(<<>>),
       regex(<<"^", "a">>), regex(<<"b", "$">>), regex(<<"(">>), regex(<<"\\">>)>>
RuleList(numbers) == [i \in DOMAIN numbers |-> NumberedRules[numbers[i]]]
RuleNumbers == Seqs(DOMAIN NumberedRules, 3)

Address(k, n) == [kind |-> k, value |-> n]
HostLines ==
  {[address |-> x, names |-> n] :
     x \in {Address("v4", 1), Address("v6", 1), Address("bad", 0)},
     n \in {<<>>, <<(<<A>>)>>, <<(<<Star, A>>)>>, <<(<<A>>), (<<B, A>>)>>,
            <<(<<Star, B, A>>)>>, <<(<<Star>>)>>}}
NumberedValues ==
  <<(<<>>), <<Address("v4", 1)>>, <<Address("v6", 1)>>,
    <<Address("v4", 1), Address("v4", 2)>>, <<Address("cname", <<B>>)>>>>
HostEntries ==
  [name : {<<A>>, <<Star, A>>}, enable : BOOLEAN,
   records : Seqs([type : {"A", "AAAA", "CNAME"}, values : DOMAIN NumberedValues], 1)]
HostNumbers == {s \in Seqs(HostEntries, 2) : Len(s) = 2 => s[1].name # s[2].name}
HostJson(entries) ==
  [i \in DOMAIN entries |->
     [entries[i] EXCEPT !.records =
        [j \in DOMAIN @ |-> [@[j] EXCEPT !.values = NumberedValues[@]]]]]
HostQueries == {<<A>>, <<B, A>>, <<A, B, A>>, <<Star, A>>, <<B>>}

(***************************************************************************)
(* The parts, on their small instances                                     *)
(***************************************************************************)
Values == INSTANCE CacheValues
  WITH Messages <- ValueMessages, Settings <- ValueSettings, MaxClock <- 6,
       setting <- v1, now <- v2, entry <- v3, file <- v4, origin <- v5

Plan == INSTANCE PolicyPlan
  WITH Requests <- PlanRequests, Configs <- PlanConfigs, Contents <- PlanContents,
       MaxOpen <- 1, MaxCached <- 1, MaxRefreshes <- 1,
       conf <- v1, content <- v2, open <- v3, cached <- v4, refreshes <- v5

Groups == INSTANCE UpstreamGroups
  WITH Members <- {1, 2}, Weight <- <<2, 1>>, Backups <- {1},
       Replies <- {"positive", "nodata", "nxdomain", "http503", "bad_wire"},
       MaxPicks <- 3, MaxOthers <- 1,
       mode <- v1, reply <- v2, selector <- v3, req <- v4, late <- v5

\* Three members of one group, for the order of their turns.
Turns == INSTANCE UpstreamGroups
  WITH Members <- {1, 2, 3}, Weight <- <<2, 1, 1>>, Backups <- {}, Replies <- {"positive"},
       MaxPicks <- 8, MaxOthers <- 1,
       mode <- v1, reply <- v2, selector <- v3, req <- v4, late <- v5

Hosts == INSTANCE UpstreamAddresses
  WITH Callers <- {"c1", "c2"}, Hosts <- {1, 2}, Ttls <- {1, 3}, MaxTtl <- 2,
       MaxClients <- 1, MaxTime <- 2, MaxCalls <- 1,
       now <- v1, entry <- v2, permit <- v3, caller <- v4, pool <- v5

Tunnel == INSTANCE UpstreamTunnel
  WITH MaxDomain <- 2, HeaderSize <- 2, MaxBody <- 2, MaxExtra <- 1, MaxChunk <- 3,
       conf <- v1, conn <- v2

Doh == INSTANCE DohRequest
  WITH MaxHead <- 6, MaxPost <- 4, MaxChunk <- 3, MaxProxy <- 3,
       Addresses <- {"c", "d", "p"}, TrustedProxies <- {"p"},
       setup <- v1, wire <- v2, front <- v3, events <- v4

Framing == INSTANCE TcpFrames
  WITH Frames <- {0, 1, 2}, PrefixBytes <- 2, MaxFrames <- 2, MaxGiveUps <- 1,
       stream <- v1, giveUps <- v2

Binding == INSTANCE SocketBinding
  WITH Plans <- SocketPlans, MaxSockets <- 4, MaxBindFaults <- 1,
       os <- v1, active <- v2, candidate <- v3, draining <- v4, faults <- v5

\* Sessions: the liveness of these parts is checked on smaller instances.
Inbound == INSTANCE InboundSessions
  WITH SessionSlots <- {1, 2}, SessionLimit <- 2, Capacity <- 1, MaxReads <- 2,
       MaxAccepts <- 2,
       listener <- v1, runtime <- v2, session <- v3, written <- v4,
       trace <- v5, owners <- v6, report <- v7

Events == INSTANCE EventStream
  WITH ChunksOf <- [t \in 1 .. 3 |-> IF t = 2 THEN 2 ELSE 1], MaxTx <- 3,
       ChannelCapacity <- 1, ReplayLimit <- 2, QueueLimit <- 3, MaxStreamFaults <- 1,
       MaxRestarts <- 1, MaxRetention <- 1,
       store <- v1, read <- v2, replay <- v3, conn <- v4, browser <- v5, mishaps <- v6

Web == INSTANCE WebSessions
  WITH Users <- {"u1"}, Peers <- {"p1"}, MaxToken <- 2, AbsoluteTtl <- 5, IdleTtl <- 2,
       AccessTtl <- 3, RenewWindow <- 1, TicketTtl <- 1, GlobalCapacity <- 2,
       UserCapacity <- 1, TicketCapacity <- 1, SessionTickets <- 1,
       ConnectionCapacity <- 1, SessionConnections <- 1, IdleBeats <- 1,
       AttemptLimit <- 2, AttemptWindow <- 1, MaxNow <- 3, MaxReconciles <- 1,
       now <- v1, data <- v2, issued <- v3, users <- v4, stored <- v5, handler <- v6,
       attempts <- v7, peer <- v8, permits <- v9, reconciles <- v10

\* Algorithms: the input is in v1 .. v3 and never changes.
Names == INSTANCE NameRules
  WITH MaxRules <- 2, MaxSelectors <- 2, MaxProgram <- 5, MaxRecords <- 2, MaxNames <- 2

Given(a, b, c) == v1 = a /\ v2 = b /\ v3 = c

AlgorithmInput ==
  \/ part = "regex" /\ \E p \in Patterns, t \in PatternTexts : Given(p, t, 0)
  \/ part = "rules" /\ \E r \in RuleNumbers, n \in QueryNames : Given(RuleList(r), n, 0)
  \/ part = "hosts" /\ \E s \in Seqs(HostLines, 2), n \in HostQueries : Given(s, <<>>, n)
  \/ part = "json" /\ \E s \in HostNumbers, n \in {<<A>>, <<B, A>>} : Given(<<>>, HostJson(s), n)
  \/ part = "wild" /\ \E s, t \in Seqs(HostLines, 1), n \in HostQueries : Given(s, t, n)
  \/ part = "paths" /\ \E s, t \in Doh!Templates : Given(s, t, 0)

(***************************************************************************)
(* The sum of the parts                                                    *)
(***************************************************************************)
Idle8 == v8 = 0 /\ v9 = 0 /\ v10 = 0
Idle7 == v7 = 0 /\ Idle8
Idle6 == v6 = 0 /\ Idle7
Idle5 == v5 = 0 /\ Idle6
Idle4 == v4 = 0 /\ Idle5
Idle3 == v3 = 0 /\ Idle4

Rest3 == UNCHANGED <<v3, v4, v5, v6, v7, v8, v9, v10>>
Rest4 == UNCHANGED <<v4, v5, v6, v7, v8, v9, v10>>
Rest5 == UNCHANGED <<v5, v6, v7, v8, v9, v10>>
Rest6 == UNCHANGED <<v6, v7, v8, v9, v10>>
Rest7 == UNCHANGED <<v7, v8, v9, v10>>

TrafficInit ==
  /\ part \in Parts
  /\ Init
  /\ \/ part = "flow" /\ Given(0, 0, 0) /\ Idle4
     \/ AlgorithmInput /\ Idle4
     \/ part = "values" /\ Values!ValuesInit /\ Idle6
     \/ part = "plan" /\ Plan!PlanInit /\ Idle6
     \/ part = "groups" /\ Groups!GroupInit /\ Idle6
     \/ part = "turns" /\ Turns!GroupInit /\ Idle6
     \/ part = "addresses" /\ Hosts!AddressInit /\ Idle6
     \/ part = "tunnel" /\ Tunnel!TunnelInit /\ Idle3
     \/ part = "doh" /\ (\E s \in DohSetups : Doh!DohStart(s)) /\ Idle5
     \/ part = "frames" /\ Framing!FramesInit /\ Idle3
     \/ part = "sockets" /\ Binding!BindInit /\ Idle6
     \/ part = "trace" /\ Given(0, 0, 0) /\ v4 = 0 /\ Inbound!TraceInit /\ Idle8
     \/ part = "inbound" /\ Inbound!InboundInit /\ Idle5
     \/ part = "stream" /\ Events!StreamInit /\ Idle7
     \/ part = "web" /\ Web!WebInit

TrafficNext ==
  /\ UNCHANGED part
  /\ \/ part = "flow" /\ Next /\ UNCHANGED slots
     \/ /\ UNCHANGED vars
        /\ \/ part = "values" /\ Values!ValuesNext /\ Rest6
           \/ part = "plan" /\ Plan!PlanNext /\ Rest6
           \/ part = "groups" /\ Groups!GroupNext /\ Rest6
           \/ part = "turns" /\ Turns!GroupNext /\ Rest6
           \/ part = "addresses" /\ Hosts!AddressNext /\ Rest6
           \/ part = "tunnel" /\ Tunnel!TunnelNext /\ Rest3
           \/ part = "doh" /\ Doh!DohNext /\ Rest5
           \/ part = "frames" /\ Framing!FramesNext /\ Rest3
           \/ part = "sockets" /\ Binding!BindNext /\ Rest6
           \/ part = "trace" /\ Inbound!TraceNext /\ UNCHANGED <<v1, v2, v3, v4, v8, v9, v10>>
           \/ part = "inbound" /\ Inbound!InboundNext /\ Rest5
           \/ part = "stream" /\ Events!StreamNext /\ Rest7
           \/ part = "web" /\ Web!WebNext

\* Nothing tells the requests apart.
Symmetric == Permutations(Requests)

TrafficSpec == TrafficInit /\ [][TrafficNext]_all

(***************************************************************************)
(* Properties: what the modules state, for the part a behaviour is about   *)
(***************************************************************************)

\* Type correctness of the part.
TrafficTypeOK ==
  CASE part = "flow" -> FlowTypeOK
    [] part = "values" -> Values!ValuesTypeOK
    [] part = "plan" -> Plan!PlanTypeOK
    [] part = "groups" -> Groups!GroupTypeOK
    [] part = "turns" -> Turns!GroupTypeOK
    [] part = "addresses" -> Hosts!AddressTypeOK
    [] part = "tunnel" -> Tunnel!TunnelTypeOK
    [] part = "doh" -> Doh!DohTypeOK
    [] part = "frames" -> Framing!FramesTypeOK
    [] part = "sockets" -> Binding!BindTypeOK
    [] part = "trace" -> Inbound!TraceTypeOK
    [] part = "inbound" -> Inbound!InboundTypeOK
    [] part = "stream" -> Events!StreamTypeOK
    [] part = "web" -> Web!WebTypeOK
    [] OTHER -> TRUE

\* The cache serves what a request is entitled to: an expired record is never revived
\* by a snapshot and a negative answer ends with its SOA (CacheValues), and an answer
\* found under a key is one the request itself would have been given (PolicyPlan).
CacheIsHonest ==
  CASE part = "values" -> Values!NeverRevived /\ Values!NegativeEndsWithRecord
    [] part = "plan" -> Plan!CachedIsOwn
    [] OTHER -> TRUE

\* A group answers with what its members' replies deserve in every order of arrival,
\* smooth weighted round robin gives each member its share, and every response that
\* comes after the answer is handed to the late sink (UpstreamGroups).
AnswersAreEarned ==
  CASE part = "groups" -> Groups!AnswerIsDeserved /\ Groups!NoResponseIsLost
    [] part = "turns" -> Turns!RoundRobinIsFair
    [] OTHER -> TRUE

\* The compiled forms of names decide as the texts do: patterns, the three rule file
\* formats, the rule index, the readers of hosts files and the precedence of exact
\* names (NameRules), and overlapping DoH paths (DohRequest).
NamesAreExact ==
  CASE part = "regex" -> Names!RegexIsExact(v1, v2)
    [] part = "rules" -> Names!FormatsAgree(v1) /\ Names!MatchIsDeserved(v1, v2)
    [] part \in {"hosts", "json"} -> Names!HostsReadersAgree(v1, v2, v3)
    [] part = "wild" -> Names!ExactHidesWildcards(v1, v2, v3)
    [] part = "paths" -> Doh!OverlapIsExact(v1, v2)
    [] OTHER -> TRUE

\* However bytes are cut into reads, framing and tunnels stay aligned and bodies whole
\* (UpstreamTunnel, DohRequest, TcpFrames); resolved addresses, permits, pooled clients
\* and sockets are the ones in use (UpstreamAddresses, SocketBinding).
TransportIsExact ==
  CASE part = "addresses" -> Hosts!CachedIsFresh /\ Hosts!PermitIsLive /\ Hosts!PoolIsConsistent
    [] part = "tunnel" ->
         Tunnel!NameIsResolvedInPlace /\ Tunnel!TunnelIsAligned /\ Tunnel!BodyIsWhole
    [] part = "doh" -> Doh!EventIsVerdict /\ Doh!TlsSeesItsFirstByte
    [] part = "frames" -> Framing!FramesAreWhole
    [] part = "sockets" -> Binding!OpenIsHeld
    [] OTHER -> TRUE

\* Sessions hold what they are charged for and see what they are due: the guards of a
\* listener's requests, the outcome its traces report and the grace of a retirement
\* (InboundSessions), the gapless event stream (EventStream), the access tokens of a
\* session and the permits of its connections (WebSessions).  The report of a request
\* is made by its last owner and is final (InboundSessions).
SessionsAreSound ==
  CASE part = "trace" -> Inbound!ReportIsFinal
    [] part = "inbound" -> /\ Inbound!GuardsAreHeld /\ Inbound!DeliveryIsTrue
                           /\ Inbound!RetirementIsGraceful
    [] part = "stream" -> Events!StreamIsGapless
    [] part = "web" -> Web!AccessIndexIsSound /\ Web!ConnectionsAreCounted
    [] OTHER -> TRUE

\* What a step may not do: replace a fresh record by one that is not better or give an
\* answer up without a newer record (CacheFlow), look an address up that is known
\* (UpstreamAddresses), or exchange the socket of an endpoint both plans have
\* (SocketBinding).
StepsAreJustified ==
  [][CASE part = "flow" -> GivesUpForNewer /\ KeepsFresh
       [] part = "addresses" -> Hosts!LooksUpIfNeeded
       [] part = "sockets" -> Binding!KeepsSockets
       [] OTHER -> TRUE]_all

\* dns/policy.rs: a restored record answers stale only within the window of the pool that
\* is asked (CacheValues).
PoolWindowIsKept == part = "values" => Values!PoolWindowIsKept

===============================================================================
