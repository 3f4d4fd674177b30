-------------------------------- MODULE MCData --------------------------------
(* The modules about stored data, configuration and work for model checking.       *)
(* They share no state: a behaviour is about one part, chosen in the initial state, *)
(* which uses as many of the variables v1 .. v14 as its module has and leaves the    *)
(* others alone.  StatsStorage and SingleFlight have variables of their own.        *)
EXTENDS StatsStorage, SingleFlight, Integers, Sequences, FiniteSets, TLC

CONSTANTS
  None,    \* an absent value
  Parts    \* the parts of this run

VARIABLES part, v1, v2, v3, v4, v5, v6, v7, v8, v9, v10, v11, v12, v13, v14

slots == <<v1, v2, v3, v4, v5, v6, v7, v8, v9, v10, v11, v12, v13, v14>>
all == <<part, statsVars, vars, slots>>

(***************************************************************************)
(* ProcessStart                                                            *)
(***************************************************************************)
StartConf(bytes, inWork, webui, origins, logs) ==
  [bytes |-> bytes, inWork |-> inWork, webui |-> webui, origin |-> origins, secrets |-> TRUE,
   logs |-> logs, owned |-> 1, size |-> "fits", valid |-> TRUE]
StartConfs ==
  {StartConf("a", FALSE, TRUE, TRUE, 1), StartConf("b", FALSE, FALSE, TRUE, 1),
   StartConf("a", TRUE, TRUE, TRUE, 2), StartConf("b", FALSE, TRUE, FALSE, 1)}

StartArguments ==
  {<<"run">>, <<"validate", "--config", "c">>, <<"--config">>, <<"run", "--help">>}

StartDisk(work, target, journal, layout, version) ==
  [work |-> work, target |-> target, temps |-> {}, lockFile |-> journal, journal |-> journal,
   database |-> [layout |-> layout, version |-> version,
                 rows |-> IF layout = "v2" THEN 1 ELSE 0]]
StartDisks ==
  {StartDisk("absent", None, FALSE, "empty", FALSE),
   StartDisk("directory", "a", TRUE, "v2", TRUE),
   StartDisk("directory", "link", FALSE, "v2", TRUE),
   StartDisk("directory", None, FALSE, "legacy", FALSE),
   StartDisk("link", "b", FALSE, "foreign", FALSE)}

(***************************************************************************)
(* RequestBoundary                                                         *)
(***************************************************************************)
PlainRequest ==
  [route |-> "apply", http11 |-> TRUE, head |-> "ok", declared |-> TRUE, size |-> 1,
   origin |-> TRUE, token |-> TRUE, module |-> "dns", changes |-> <<"dns">>,
   confirmations |-> <<>>, null |-> FALSE]

ApiRequestSet ==
  {[PlainRequest EXCEPT !.route = r] :
     r \in {"apply", "operation", "setup", "unknown", "module_validate"}}
  \union {[PlainRequest EXCEPT !.http11 = FALSE], [PlainRequest EXCEPT !.head = "uri"],
          [PlainRequest EXCEPT !.head = "headers"], [PlainRequest EXCEPT !.origin = FALSE],
          [PlainRequest EXCEPT !.token = FALSE], [PlainRequest EXCEPT !.null = TRUE],
          [PlainRequest EXCEPT !.changes = <<>>]}
  \union {[PlainRequest EXCEPT !.route = r, !.declared = d, !.size = n] :
            r \in {"restore", "search"}, d \in BOOLEAN, n \in {2, 3}}
  \union {[PlainRequest EXCEPT !.route = "module_apply", !.module = m, !.changes = s] :
            m \in {"logs", "other"}, s \in {<<"dns">>, <<"dns", "logs">>}}
  \union {[PlainRequest EXCEPT !.confirmations = s] :
            s \in {<<"rename", "rename">>, <<"rename", "rebind">>,
                   <<"rename", "rename", "rename">>}}

(***************************************************************************)
(* ConfigEdit: documents, submitted changes and externally edited files    *)
(***************************************************************************)
Own(v) == [v |-> v, s |-> "own"]

EditDocument(secret) ==
  [m \in {"upstreams", "strategy", "hosts", "outbound", "rule_set", "clients", "dns",
          "listener"} |->
     CASE m = "upstreams" ->
            <<[name |-> Own(<<"a">>), type |-> Own(<<"hosts">>), hosts |-> Own(<<"a">>)],
              [name |-> Own(<<"b">>), type |-> Own(<<"doh">>), proxy |-> Own(<<"o">>)],
              [name |-> Own(<<"g">>), type |-> Own(<<"group">>),
               upstreams |-> Own(<<"a", "b">>)]>>
       [] m = "strategy" ->
            <<[name |-> Own(<<"s">>), default_upstream |-> Own(<<"g">>),
               rule_set |-> Own(<<"r", "sel">>), rule_upstream |-> Own(<<"b">>)]>>
       [] m = "hosts" ->
            <<[name |-> Own(<<"a">>), type |-> Own(<<"const">>), hosts |-> Own(<<"a">>)]>>
       [] m = "outbound" -> <<[name |-> Own(<<"o">>), proxy_url |-> Own(secret)]>>
       [] m = "rule_set" ->
            <<[name |-> Own(<<"r">>), type |-> Own(<<"remote">>), proxy |-> Own(<<"o">>)]>>
       [] m = "clients" ->
            <<[name |-> Own(<<"c">>), client_id |-> Own(<<"id">>), strategy |-> Own(<<"s">>)]>>
       [] m = "dns" -> <<>>
       [] OTHER ->
            <<[name |-> Own(<<"l">>), type |-> Own(<<"udp">>), strategy |-> Own(<<"s">>),
               hosts |-> Own(<<"a">>)]>>]

EditDocuments == {EditDocument(s) : s \in {<<"inline", "h", "p">>, <<"env", "E">>}}

Update(m, o, v) == [module |-> m, action |-> "update", original |-> o, value |-> v]
Create(m, v) == [module |-> m, action |-> "create", original |-> "", value |-> v]

EditChanges(masked) ==
  {Update("upstreams", "a", [name |-> <<n>>, type |-> <<"hosts">>, hosts |-> <<t>>]) :
     n \in {"a", "b", "x"}, t \in {"a", "z"}}
  \union {Update("upstreams", "b", [name |-> <<n>>, type |-> <<"doh">>, proxy |-> <<"o">>]) :
            n \in {"a", "b"}}
  \union {Update("upstreams", "g", [name |-> <<"g">>, type |-> <<"group">>, upstreams |-> ms]) :
            ms \in {<<"b">>, <<"g">>}}
  \union {Update("strategy", "s", [name |-> <<n>>, default_upstream |-> <<u>>]) :
            n \in {"s", "t"}, u \in {"a", "x"}}
  \union {Update("hosts", "a", [name |-> <<"h">>, type |-> <<"const">>, hosts |-> <<"a">>])}
  \union {Update("outbound", "o", [name |-> <<n>>, proxy_url |-> p]) :
            n \in {"o", "q"}, p \in {<<"inline", "h", masked>>, <<"env", "E">>,
                                     <<"inline", "h", "new">>, <<"inline", "h2", "new">>}}
  \union {Create("outbound", [name |-> <<"o3">>, proxy_url |-> <<"inline", "h", "new">>])}
  \union {Update("rule_set", "r", [name |-> <<n>>, type |-> <<"remote">>, proxy |-> <<"o">>,
                                   auto_update |-> <<b>>]) :
            n \in {"r", "rr"}, b \in {"true"}}
  \union {Update("clients", "c", [name |-> <<"c2">>, strategy |-> <<"s">>]),
          Create("dns", [cache |-> <<"on">>]), Create("dns", [ecs |-> <<"on">>]),
          Create("clients", [name |-> <<"c">>, client_id |-> <<"id2">>, strategy |-> <<"s">>])}

EditExternals ==
  {[EditDocument(<<"inline", "h", "p">>) EXCEPT
      !["outbound"] = @ \o more, !["upstreams"][2]["name"] = Own(<<n>>),
      !["upstreams"][3]["upstreams"] = Own(<<"a", n>>),
      !["strategy"][1]["rule_upstream"] = Own(<<n>>),
      !["rule_set"] = <<[name |-> Own(<<"r">>), type |-> Own(<<"remote">>),
                         proxy |-> Own(<<"o">>), auto_update |-> Own(<<b>>)]>>,
      !["clients"][1]["client_id"] = Own(<<i>>), !["dns"] = dns] :
     more \in {<<>>, <<[name |-> Own(<<"o2">>), proxy_url |-> Own(<<"inline", "h", "p2">>)]>>},
     n \in {"b", "y"}, b \in {"true", "false"}, i \in {"id", "id3"},
     dns \in {<<>>, <<[cache |-> Own(<<"on">>)]>>}}

(***************************************************************************)
(* ConfigValidation: a valid configuration, and its variations one aspect  *)
(* at a time                                                               *)
(***************************************************************************)
ResourceDef(n, k, auto, interval) ==
  [name |-> n, kind |-> k, text |-> "t", path |-> "p", url |-> "http", auto_update |-> auto,
   interval |-> interval, proxy |-> None]
UdpListener(n, addresses, port) ==
  [kind |-> "udp", name |-> n, addresses |-> addresses, port |-> port, strategy |-> "s",
   hosts |-> None]
RuleDef(set, hosts, upstream) ==
  [rule_set |-> set, hosts |-> hosts, upstream |-> upstream, ecs |-> None]
StrategyDef(rules) ==
  [name |-> "s", rules |-> rules, default_upstream |-> "a", ecs |-> None]
HostsUpstream(n) == [kind |-> "hosts", name |-> n, format |-> "json"]

BaseConfiguration ==
  [upstreams |-> <<HostsUpstream("a")>>,
   strategies |-> <<StrategyDef(<<RuleDef(None, "h", None)>>)>>,
   hosts |-> <<ResourceDef("h", "const", FALSE, None)>>,
   outbounds |-> <<[name |-> "o", sources |-> [k \in {"env"} |-> "E"], secret |-> "socks5h"]>>,
   rule_sets |-> <<ResourceDef("r", "remote", FALSE, None)>>,
   listeners |-> <<UdpListener("l", <<"127.0.0.1">>, 1)>>, clients |-> <<>>,
   webui |-> [enable |-> TRUE, port |-> 2, address |-> "127.0.0.1", origin |-> TRUE],
   paths |-> [source |-> <<"e", "c.yaml">>, work |-> <<"w">>, statistics |-> <<"s.db">>,
              snapshot |-> <<"c.snap">>, records |-> <<"d">>, logs |-> <<"f.log">>]]

\* Groups that name each other, themselves, or an address source that needs one of them.
Member(n, w) == [name |-> n, weight |-> w]
MemberLists ==
  {<<Member("a", 1)>>, <<Member("b", 1)>>, <<Member("c", 1)>>,
   <<Member("a", 1), Member("c", 1)>>, <<Member("a", 2)>>}
Group(n, members, mode, fallbacks, fallbackMode, fallbackTimeout) ==
  [kind |-> "group", name |-> n, upstreams |-> members, mode |-> mode, timeout |-> 1,
   fallbacks |-> fallbacks, fallback_mode |-> fallbackMode,
   fallback_timeout |-> fallbackTimeout]
AnyGroup(n) ==
  {Group(n, ms, mode, fb, fm, ft) :
     ms \in MemberLists, mode \in {"parallel", "round_robin"},
     fb \in {None, <<>>} \union MemberLists, fm \in {None, "parallel"}, ft \in {None, 1}}
PlainGroup(n) ==
  {IF fb = None THEN Group(n, ms, "parallel", None, None, None)
   ELSE Group(n, ms, "parallel", fb, "parallel", 1) :
     ms \in MemberLists, fb \in {None} \union MemberLists}
DohUpstream(n) ==
  [kind : {"doh"}, name : {n}, scheme : {"https"}, bootstrap : {None, "a", "b", "c", "x"},
   connect_ip : BOOLEAN, proxy : {None, "o"}]

UpstreamAspect ==
  {[BaseConfiguration EXCEPT !.upstreams = <<HostsUpstream("a"), u, v>>] :
     u \in PlainGroup("b") \union DohUpstream("b"),
     v \in PlainGroup("c") \union DohUpstream("c")}
  \union {[BaseConfiguration EXCEPT !.upstreams = <<HostsUpstream("a"), u>>] :
            u \in AnyGroup("b")}

SomeNames == {None, "", "h", "a", "?"}
RuleAspect ==
  {[BaseConfiguration EXCEPT !.strategies = <<StrategyDef(<<RuleDef(s, h, u)>>)>>] :
     s \in {None} \union [base : {"r", "x", ""}, selector : {None, "", "?", "t"}],
     h \in SomeNames, u \in SomeNames}

Addresses ==
  {<<"0.0.0.0">>, <<"127.0.0.1">>, <<"::">>, <<"127.0.0.1", "::">>, <<"::1">>, <<>>,
   <<"::", "::">>}
BindAspect ==
  {[BaseConfiguration EXCEPT
      !.listeners = <<UdpListener("l", a, 1), [UdpListener("m", b, p) EXCEPT !.kind = k]>>,
      !.webui.port = w, !.webui.address = m] :
     m \in {"127.0.0.1", "::"},
     a \in Addresses, b \in Addresses, p \in {0, 1, 2}, k \in {"udp", "tcp"}, w \in {1, 2}}

EndpointAspect ==
  {[BaseConfiguration EXCEPT !.listeners =
      <<[kind |-> "doh", name |-> "l", routes |-> <<[path |-> "/d", strategy |-> "s"]>>,
         endpoints |-> <<[name |-> "e", addresses |-> <<"0.0.0.0">>, port |-> 3, tls |-> t,
                          cert |-> x, key |-> y,
                          client_ip |-> [source |-> so, header |-> h, trusted |-> tr,
                                         policies |-> po]]>>]>>] :
     t \in {"terminate", "external"}, x \in BOOLEAN, y \in BOOLEAN,
     so \in {"peer", "forwarded_header", "proxy_protocol"}, h \in BOOLEAN, tr \in BOOLEAN,
     po \in BOOLEAN}

ClientDef(n, id, ips) == [name |-> n, client_id |-> id, ips |-> ips, strategy |-> None]
ClientAspect ==
  {[BaseConfiguration EXCEPT
      !.clients = <<ClientDef("c", "i", <<"n1">>), ClientDef(n, id, ips)>>] :
     n \in {"c", "d", "?"}, id \in {"i", "j", "?"}, ips \in {<<>>, <<"n1">>, <<"n2">>}}

SomePaths ==
  {<<"s">>, <<"..", "w">>, <<"s", "t">>, <<"..", "c.yaml">>, <<".", "config.yaml">>,
   <<"s", "..", "t">>}
PathAspect ==
  {[BaseConfiguration EXCEPT !.paths =
      [source |-> <<"e", "c.yaml">>, work |-> w, statistics |-> a, snapshot |-> b,
       records |-> c, logs |-> l]] :
     w \in {<<"w">>, <<>>}, a \in SomePaths, b \in SomePaths, c \in SomePaths,
     l \in {<<"f.log">>, <<"s">>}}

ResourceAspect ==
  {[BaseConfiguration EXCEPT !.hosts = <<ResourceDef("h", k, a, i)>>,
      !.rule_sets = <<[ResourceDef("r", l, b, j) EXCEPT !.proxy = p]>>] :
     k \in {"const", "file"}, l \in {"const", "file", "remote"}, a \in BOOLEAN,
     b \in BOOLEAN, i \in {None, 0, 5}, j \in {None, 0, 5}, p \in {None, "o", "x"}}

OutboundAspect ==
  {[BaseConfiguration EXCEPT
      !.outbounds = <<[name |-> "o", sources |-> f, secret |-> x]>>] :
     f \in UNION {[S -> {"", "?", "v"}] : S \in SUBSET {"env", "file", "url"}},
     x \in {"socks5", "unreadable"}}

AllConfigurations ==
  UpstreamAspect \union RuleAspect \union BindAspect \union EndpointAspect
  \union ClientAspect \union PathAspect \union ResourceAspect \union OutboundAspect

(***************************************************************************)
(* The parts, on their small instances                                     *)
(***************************************************************************)
StatsDays == [e \in {"e1", "e2", "e3"} |-> IF e = "e1" THEN 1 ELSE 2]

Setup == INSTANCE SetupCommit
  WITH Bases <- {"a", "b"}, Initial <- "a", Users <- {"u1", "u2"}, MaxEdits <- 1,
       MaxCrashes <- 2, MaxFaults <- 1,
       file <- v1, stages <- v2, journal <- v3, lock <- v4, boot <- v5, active <- v6,
       auth <- v7, req <- v8, commit <- v9, attempt <- v10, edits <- v11, crashes <- v12,
       faults <- v13, granted <- v14

Tasks == INSTANCE ServiceTasks
  WITH Endpoints <- {1, 2, 3}, OwnerOf <- [e \in 1 .. 3 |-> IF e < 3 THEN "l1" ELSE "l2"],
       Resources <- {}, RestartLimit <- 1, MaxServiceRevision <- 2,
       MaxReloadFailures <- 2, MaxTaskFaults <- 2,
       tasks <- v1, service <- v2, active <- v3, offer <- v4, report <- v5, trouble <- v6

\* The same for the resources, whose workers outlive reloads, with the endpoints left out.
Workers == INSTANCE ServiceTasks
  WITH Endpoints <- {}, OwnerOf <- <<>>, Resources <- {1, 2}, RestartLimit <- 0,
       MaxServiceRevision <- 3, MaxReloadFailures <- 2, MaxTaskFaults <- 0,
       tasks <- v1, service <- v2, active <- v3, offer <- v4, report <- v5, trouble <- v6

Refresh == INSTANCE ResourceRefresh
  WITH Configs <- {<<"u1", "a">>, <<"u1", "b">>, <<"u2", "a">>}, MaxOrigin <- 2,
       MaxScope <- 2, MaxEpoch <- 2, UpdateInterval <- 1, MaxDelay <- 2,
       MaxRefreshFaults <- 1,
       kind <- v1, origin <- v2, pair <- v3, active <- v4, cand <- v5, job <- v6,
       scope <- v7, upset <- v8

Process == INSTANCE ProcessStart
  WITH Processes <- {"p1", "p2"}, Confs <- StartConfs, Disks <- StartDisks,
       Arguments <- StartArguments, MaxIncidents <- 1, MaxReloads <- 2,
       conf <- v1, disk <- v2, proc <- v3, ports <- v4, incidents <- v5

Paging == INSTANCE DetailQuery
  WITH PageDays <- {1, 2}, PageKeys <- {1, 2}, PageSize <- 1, MaxPerDay <- 2,
       MaxRevisions <- 1,
       stored <- v1, asked <- v2, shown <- v3, published <- v4, hidden <- v5

Shards == INSTANCE DetailShards
  WITH Records <- {"r1"}, RecordDay <- [r \in {"r1"} |-> 1],
       MaxDay <- 2, KeepDays <- 1,
       GraceDays <- 1, QueueCapacity <- 1, BatchSize <- 1, MaxLeases <- 1,
       MaxShardFaults <- 1, MaxShardKills <- 1,
       disk <- v1, proc <- v2, sent <- v3, queue <- v4, work <- v5, lease <- v6,
       reader <- v7, keeper <- v8, mishap <- v9

View == INSTANCE RetentionView
  WITH Policies <- {[days |-> 1, grace |-> 2 - n, size |-> n] : n \in {1, 2}},
       MaxRetention <- 3, LastDay <- 2, MaxDayBytes <- 2, MaxApplies <- 1,
       MaxViewTroubles <- 1,
       today <- v1, files <- v2, sql <- v3, scheduler <- v4, config <- v5, status <- v6,
       preview <- v7, troubles <- v8, store <- v9

Edit == INSTANCE ConfigEdit
  WITH Documents <- EditDocuments, Changes <- EditChanges("FLUXDNS_REDACTED_SECRET"),
       Externals <- EditExternals, MaxChanges <- 4, MaxSubmitted <- 2, MaxEdits <- 1,
       doc <- v1, last <- v2, edits <- v3

Reads == INSTANCE ConfigReads
  WITH MaxGeneration <- 1, MaxFileEdits <- 1,
       store <- v1, served <- v2, files <- v3, page <- v4, diff <- v5

Boundary == INSTANCE RequestBoundary
  WITH Connections <- {1, 2}, RequestPermits <- 1, JsonLimit <- 1, MutationLimit <- 2,
       MaxChangesInOne <- 2, MaxConfirmations <- 2, ApiRequests <- ApiRequestSet,
       MaxSends <- 3, MaxExpiries <- 1,
       line <- v1, blocking <- v2, op <- v3, sends <- v4, expiries <- v5

Metrics == INSTANCE MetricsWindow
  WITH Identities <- {"i1", "i2"}, MinuteSeconds <- 2, TrendMinutes <- 1,
       OnlineWindow <- 2, MaxOnline <- 1, MaxLate <- 1, MaxElapsed <- 6, MaxRequests <- 2,
       elapsed <- v1, buckets <- v2, online <- v3, gapUntil <- v4, recorder <- v5,
       counted <- v6, seen <- v7, page <- v8, cursor <- v9

Sampling == INSTANCE Telemetry
  WITH Capacity <- 2,
       LogConfigs <- {[enable |-> e, level |-> 2, path |-> "a"] : e \in BOOLEAN},
       Durations <- {1, 3}, Outcomes <- {"Success"}, CacheStatuses <- {"Miss"},
       Reports <- {[state |-> "Degraded", gap |-> TRUE]}, CounterLimit <- 2,
       MaxItems <- 2, MaxChanges <- 1, MaxOutputFaults <- 1,
       writer <- v1, flush <- v2, registry <- v3, sampler <- v4, logging <- v5,
       health <- v6, sink <- v7, used <- v8, phase <- v9

\* Algorithms: the input is in v1 .. v3 and never changes.
Validation == INSTANCE ConfigValidation
  WITH Configurations <- AllConfigurations, conf <- v1,
       FractionDigits <- 2, MaxSeconds <- 100, MaxNumber <- 20000

(***************************************************************************)
(* Inputs of the algorithms                                                *)
(***************************************************************************)
NoBlocks ==
  [global |-> [ttl |-> None, ecs |-> None, cache |-> None],
   strategy |-> [ttl |-> None, ecs |-> None, rule |-> None, cache |-> None],
   client |-> [ttl |-> None, ecs |-> None, cache |-> None], upstream |-> None]

EcsInputs ==
  {[NoBlocks EXCEPT !.global.ecs = g, !.strategy.ecs = s, !.strategy.rule = r,
                    !.client.ecs = c, !.upstream = u] :
     g \in Validation!EcsBlocks("global"), s \in Validation!EcsBlocks("strategy"),
     r \in Validation!EcsBlocks("rule"), c \in Validation!EcsBlocks("client"),
     u \in Validation!EcsBlocks("upstream")}

CacheInputs ==
  {[NoBlocks EXCEPT !.global.cache = g, !.strategy.cache = s, !.client.cache = c] :
     g \in {None} \union [enabled : BOOLEAN, optimistic : Validation!Optimistics],
     s \in Validation!CacheBlocks,
     c \in {b \in Validation!CacheBlocks :
              b = None \/ b.optimistic = None \/ b.optimistic.enabled}}

DurationInputs ==
  LET units == {1, 10, Validation!Second, 60 * Validation!Second}
      parts == {c \in [whole : 0 .. 2, digits : 0 .. 3, fraction : {0, 1, 7, 10, 99},
                       unit : units] : c.fraction < 10^c.digits}
  IN {<<c>> : c \in parts} \union {<<c, d>> : c \in parts, d \in {e \in parts : e.whole = 1}}

Given(a, b, c) == v1 = a /\ v2 = b /\ v3 = c

AlgorithmInput ==
  \/ part = "ecs" /\ \E x \in EcsInputs : Given(x, 0, 0)
  \/ part = "blocks" /\ \E x \in CacheInputs : Given(x, 0, 0)
  \/ part = "duration" /\ \E x \in DurationInputs : Given(x, 0, 0)
  \/ part = "validate" /\ \E x \in AllConfigurations : Given(x, 0, 0)
  \/ part = "readings" /\ \E r \in {d \in Paging!DetailRecord : Paging!Projected(d)},
                            f \in Paging!OneField : Given(r, f, 0)

(***************************************************************************)
(* The sum of the parts                                                    *)
(***************************************************************************)
Idle14 == v14 = 0
Idle13 == v13 = 0 /\ Idle14
Idle12 == v12 = 0 /\ Idle13
Idle11 == v11 = 0 /\ Idle12
Idle10 == v10 = 0 /\ Idle11
Idle9 == v9 = 0 /\ Idle10
Idle8 == v8 = 0 /\ Idle9
Idle7 == v7 = 0 /\ Idle8
Idle6 == v6 = 0 /\ Idle7
Idle5 == v5 = 0 /\ Idle6
Idle4 == v4 = 0 /\ Idle5

Rest4 == UNCHANGED <<v4, v5, v6, v7, v8, v9, v10, v11, v12, v13, v14>>
Rest5 == UNCHANGED <<v5, v6, v7, v8, v9, v10, v11, v12, v13, v14>>
Rest6 == UNCHANGED <<v6, v7, v8, v9, v10, v11, v12, v13, v14>>
Rest7 == UNCHANGED <<v7, v8, v9, v10, v11, v12, v13, v14>>
Rest9 == UNCHANGED <<v9, v10, v11, v12, v13, v14>>
Rest10 == UNCHANGED <<v10, v11, v12, v13, v14>>

\* Bounds on what goes wrong in one behaviour.
MaxMishaps == 2     \* faults and kills of the shards together
MaxTroubles == 2    \* faults and failed reloads of the tasks together
MaxReloadTries == 4 \* the revisions of the workers and their failed reloads
MaxGone == 1        \* days that are retired or reclaimed while pages are read
MaxStored == 3      \* rows that are stored while pages are read
MaxChanged == 1     \* origins of a resource that change
MaxViewChanges == 1 \* troubles and applied policies of the retention together

\* Reloads are followed in behaviours of one process, without a fault.
Undisturbed == v5'.mishaps + v5'.again = 0 /\ \E p \in DOMAIN v3' : v3'[p].at = "args"

DataInit ==
  /\ part \in Parts
  /\ StatsInit /\ Init
  /\ \/ part \in {"stats", "flight"} /\ Given(0, 0, 0) /\ Idle4
     \/ AlgorithmInput /\ Idle4
     \/ part = "setup" /\ Setup!Init
     \/ part = "tasks" /\ Tasks!TasksInit /\ Idle7
     \/ part = "workers" /\ Workers!TasksInit /\ v3.of[1] = {1, 2} /\ Idle7
     \/ part = "refresh" /\ Refresh!RefreshInit /\ Idle9
     \/ part = "start" /\ Process!StartInit /\ Idle6
        /\ (v1["p2"].bytes = "a" => v1["p1"].bytes = "a") \* one of two mirrored starts
     \/ part = "shards" /\ Shards!ShardInit /\ v1.files = {1} /\ Idle10
     \/ part = "paging" /\ Paging!PagingInit /\ Idle6
     \/ part = "retention" /\ View!ViewInit /\ Idle10
     \/ part = "edit" /\ Edit!EditInit /\ Idle4
     \/ part = "reads" /\ Reads!ReadsInit /\ Idle6
     \/ part = "boundary" /\ Boundary!BoundaryInit /\ Idle6
     \/ part = "metrics" /\ Metrics!MetricsInit /\ Idle10
     \/ part = "telemetry" /\ Sampling!TelemetryInit /\ Idle10

DataNext ==
  /\ UNCHANGED part
  /\ \/ part = "stats" /\ StatsNext /\ UNCHANGED <<vars, slots>>
     \/ part = "flight" /\ Next /\ UNCHANGED <<statsVars, slots>>
     \/ /\ UNCHANGED <<statsVars, vars>>
        /\ \/ part = "setup" /\ Setup!Next
           \/ part = "tasks" /\ Tasks!TasksNext /\ Rest7
              /\ v6'.faults + v6'.reloads <= MaxTroubles
           \/ part = "workers" /\ Workers!TasksNext /\ Rest7
              /\ v3'.rev + v6'.reloads <= MaxReloadTries
           \/ part = "refresh" /\ Refresh!RefreshNext /\ Rest9
              /\ Cardinality({c \in DOMAIN v2' : v2'[c] > 1}) <= MaxChanged
           \/ part = "start" /\ Process!StartNext /\ Rest6
              /\ (v5'.reloads > 0 => Undisturbed)
           \/ part = "shards" /\ Shards!ShardNext /\ Rest10 /\ v9'.faults + v9'.kills <= MaxMishaps
           \/ part = "paging" /\ Paging!PagingNext /\ Rest6
              /\ v4' + Cardinality(v5') <= MaxGone /\ Cardinality(v1') <= MaxStored
           \/ part = "retention" /\ View!ViewNext /\ Rest10
              /\ v8' + v5'.revision <= MaxViewChanges
           \/ part = "edit" /\ Edit!EditNext /\ Rest4
           \/ part = "reads" /\ Reads!ReadsNext /\ Rest6
           \/ part = "boundary" /\ Boundary!BoundaryNext /\ Rest6
           \/ part = "metrics" /\ Metrics!MetricsNext /\ Rest10
           \/ part = "telemetry" /\ Sampling!TelemetryNext /\ Rest10

DataSpec == DataInit /\ [][DataNext]_all

(***************************************************************************)
(* Properties: what the modules state, for the part a behaviour is about   *)
(***************************************************************************)

\* Type correctness of the part.
DataTypeOK ==
  CASE part = "stats" -> StatsTypeOK
    [] part = "flight" -> TypeOK
    [] part = "setup" -> Setup!TypeOK
    [] part = "tasks" -> Tasks!TasksTypeOK
    [] part = "workers" -> Workers!TasksTypeOK
    [] part = "refresh" -> Refresh!RefreshTypeOK
    [] part = "start" -> Process!StartTypeOK
    [] part = "shards" -> Shards!ShardsTypeOK
    [] part = "paging" -> Paging!PagingTypeOK
    [] part = "retention" -> View!ViewTypeOK
    [] part = "edit" -> Edit!EditTypeOK
    [] part = "reads" -> Reads!ReadsTypeOK
    [] part = "boundary" -> Boundary!BoundaryTypeOK
    [] part = "metrics" -> Metrics!MetricsTypeOK
    [] part = "telemetry" -> Sampling!TelemetryTypeOK
    [] OTHER -> TRUE


\* An edit is applied as submitted, keeps every reference and rewrites only what its
\* preview listed (ConfigEdit); a page shows one document and a comparison the one that
\* was asked for (ConfigReads); a command is applied once however often it is sent, and
\* every path to a handler has the same limits (RequestBoundary).  The user who was let in
\* by the setup stays the user of every later process, and a start is refused only after
\* an edit, wherever a crash or a failing file operation fell (SetupCommit).
EditsAreSafe ==
  CASE part = "setup" -> Setup!SetupIsDurable /\ Setup!RefusedOnlyAfterEdit
    [] part = "edit" -> /\ Edit!EditKeepsReferences /\ Edit!EditIsApplied
                        /\ Edit!RewrittenWasListed /\ Edit!AdoptedIsExternal
    [] part = "reads" ->
         Reads!PageIsOneDocument /\ Reads!ComparedIsExpected /\ Reads!OwnWritesAreKnown
    [] part = "boundary" -> Boundary!AppliedOnce /\ Boundary!LimitsAgree
    [] OTHER -> TRUE

\* What is validated can be built and means what the levels say: groups, members,
\* stores, ECS, cache blocks and durations (ConfigValidation).
ConfigurationMeansOneThing ==
  CASE part = "ecs" -> Validation!EcsFollowsPriority(v1)
    [] part = "blocks" -> Validation!ShownCacheIsEffective(v1)
    [] part = "duration" -> Validation!DurationIsExact(v1)
    [] part = "validate" ->
         Validation!ValidatedBuilds /\ Validation!MembersAreKnown /\ Validation!StoresAreApart
    [] OTHER -> TRUE

\* Every listener and resource has its worker and the shutdown report adds up
\* (ServiceTasks); a resource serves its own source and rests whole (ResourceRefresh); a
\* process serves all of its endpoints or none and its copy is its source (ProcessStart).
WorkIsOwned ==
  CASE part = "tasks" -> Tasks!ListenersAreServed /\ Tasks!ReportAddsUp
    [] part = "workers" -> Workers!EveryResourceHasOneWorker /\ Workers!SchedulesRun
    [] part = "refresh" -> Refresh!OwnSource /\ Refresh!RestIsWhole
    [] part = "start" ->
         Process!ServesWholeOrNothing /\ Process!CopyIsSource /\ Process!LogsFollowReload
    [] OTHER -> TRUE

\* What a flush reported as committed stays counted while its day is kept
\* (StatsStorage); the minute series and the online set are those of the requests
\* (MetricsWindow); an accepted log item is kept in order until it is written, and the
\* dimensions of the registry agree (Telemetry).
CountsAreExact ==
  CASE part = "stats" -> ReportedIsCounted
    [] part = "metrics" -> Metrics!SeriesIsExact /\ Metrics!OnlineIsExact
    [] part = "telemetry" ->
         Sampling!AcceptedIsKept /\ Sampling!FinalFlushIsWhole /\ Sampling!DimensionsAgree
    [] OTHER -> TRUE

\* What a step may not do: let a second first user in (SetupCommit), hand out a page with a
\* record below the watermark (DetailShards), publish bytes the resource's own route did
\* not serve (ResourceRefresh), replace a published copy or a foreign database
\* (ProcessStart), write a line the current log configuration excludes (Telemetry).
StepsAreAllowed ==
  [][CASE part = "setup" -> Setup!LetsOneIn
       [] part = "shards" -> Shards!ShowsVisible
       [] part = "refresh" -> Refresh!PublishesServed
       [] part = "start" -> Process!KeepsFiles
       [] part = "telemetry" -> Sampling!WritesAdmitted
       [] OTHER -> TRUE]_all

\* ports/cache.rs: the loads of the store are the promises of the CacheStore trait
\* (SingleFlight: ImplementsContract, for the part that has loads).
LoadsAreContract ==
  /\ part = "flight" => Contract!Init
  /\ [][part = "flight" => [Contract!Next]_(Contract!vars)]_all

\* config/edit.rs: the secret of an accepted outbound is the one that was sent
\* (ConfigEdit).
SecretsAreWritten == part = "edit" => Edit!SecretsAreWritten

\* management/config_mutation.rs: an operation that was accepted is carried out, whatever
\* becomes of its request (RequestBoundary).
AcceptedIsStarted == part = "boundary" => Boundary!AcceptedIsStarted

===============================================================================
