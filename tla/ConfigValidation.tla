--------------------------- MODULE ConfigValidation ---------------------------
(***************************************************************************)
(* What validation promises the code behind it (config/validate.rs,        *)
(* config/contract.rs, config/resolve.rs against upstream/registry.rs,     *)
(* dns/policy.rs and runtime/bind.rs).  A configuration that validates is  *)
(* resolved with `expect`s, built into connectors and groups and bound to  *)
(* sockets; the collections are checked one by one, the graph by a         *)
(* depth-first search and the paths by their text.                         *)
(*                                                                         *)
(* Behind that: how settings of several levels become the setting of a     *)
(* request (config/resolve.rs, the option types and the duration syntax of *)
(* config/model.rs, the selections of policy/plan.rs, and what             *)
(* management/config_query.rs shows as effective).                         *)
(*                                                                         *)
(* conf is one configuration.  Names are strings; "" stands for a blank    *)
(* one, "?" for one with a forbidden character; an absent option is None.  *)
(***************************************************************************)
EXTENDS Integers, Sequences, FiniteSets, SequencesExt

CONSTANTS
    Configurations, \* configurations somebody may write
    None,           \* an absent option
    FractionDigits, \* digits of a fraction, 9 in the code; a second has 10^FractionDigits ticks
    MaxSeconds,     \* u64::MAX in the code
    MaxNumber       \* largest intermediate number, u128::MAX in the code

VARIABLE conf

NamesOf(items) == {items[i].name : i \in DOMAIN items}

Unique(s) == \A i, j \in DOMAIN s : s[i] = s[j] => i = j

Field(items, f) == [i \in DOMAIN items |-> items[i][f]]

(* validate_name, and ConfigId::new for the resolved one *)
ValidName(n) == n \notin {"", "?"}

NamedWell(items) == Unique(Field(items, "name")) /\ \A n \in NamesOf(items) : ValidName(n)

-----------------------------------------------------------------------------
(* Upstreams *)

(* validate_group_members *)
ValidateGroupMembers(members, mode) ==
    /\ members # <<>>
    /\ Unique(Field(members, "name"))
    /\ \A i \in DOMAIN members :
        /\ members[i].name # "" /\ members[i].weight > 0
        /\ mode \in {"parallel", "failover"} => members[i].weight = 1

(* validate_upstream *)
ValidateUpstream(u) ==
    CASE u.kind = "hosts" -> u.format \in {"json", "hosts"}
      [] u.kind = "doh" ->
            /\ u.scheme \in {"http", "https"}
            /\ ~(u.bootstrap # None /\ u.connect_ip)
      [] u.kind = "group" ->
            /\ ValidateGroupMembers(u.upstreams, u.mode)
            /\ u.timeout > 0
            /\ IF u.fallbacks = None
               THEN u.fallback_mode = None /\ u.fallback_timeout = None
               ELSE /\ u.fallback_mode # None
                    /\ u.fallback_timeout # None /\ u.fallback_timeout > 0
                    /\ ValidateGroupMembers(u.fallbacks, u.fallback_mode)

MembersOf(u) == u.upstreams \o (IF u.fallbacks = None THEN <<>> ELSE u.fallbacks)

(* The edges of validate_upstream_cycles *)
EdgesOf(u) ==
    CASE u.kind = "doh" -> {u.bootstrap} \ {None}
      [] u.kind = "group" -> NamesOf(MembersOf(u))
      [] OTHER -> {}

UpstreamNamed(c, n) == LET i == CHOOSE j \in DOMAIN c.upstreams : c.upstreams[j].name = n
                       IN  c.upstreams[i]

(* visit: colours 1 and 2, s = [open, done, cycle]; a node that is still open
   when it is met again closes a cycle *)
RECURSIVE Visit(_, _, _)
Visit(c, n, s) ==
    CASE n \in s.open -> [s EXCEPT !.cycle = TRUE]
      [] n \in s.done -> s
      [] OTHER ->
            LET edges == SetToSeq({e \in EdgesOf(UpstreamNamed(c, n)) : e \in NamesOf(c.upstreams)})
                after == FoldLeft(LAMBDA acc, e : Visit(c, e, acc),
                                  [s EXCEPT !.open = @ \union {n}], edges)
            IN  [after EXCEPT !.open = @ \ {n}, !.done = @ \union {n}]

(* validate_upstream_cycles *)
ValidateUpstreamCycles(c) ==
    LET none == [open |-> {}, done |-> {}, cycle |-> FALSE]
    IN  ~FoldLeft(LAMBDA s, n : Visit(c, n, s), none, SetToSeq(NamesOf(c.upstreams))).cycle

-----------------------------------------------------------------------------
(* Strategies, rules, references *)

(* validate_hosts_resource: a file that is refreshed needs an interval (in ms) *)
ValidateHostsResource(h) ==
    IF h.kind = "const" THEN h.text # ""
    ELSE h.path # "" /\ (h.auto_update => h.interval \notin {None, 0})

(* validate_rule_set *)
ValidateRuleSet(r) ==
    CASE r.kind = "const" -> r.text # ""
      [] r.kind = "file" -> r.path # "" /\ (r.auto_update => r.interval \notin {None, 0})
      [] r.kind = "remote" -> r.url = "http" /\ (r.auto_update => r.interval \notin {None, 0})

(* validate_outbound and inline_proxy_url_error: sources maps the sources given
   (env, file, url) to their text, "?" a text of the wrong form *)
ValidateOutbound(o) ==
    /\ Cardinality({k \in DOMAIN o.sources : o.sources[k] # ""}) = 1
    /\ \A k \in DOMAIN o.sources : k \in {"env", "file"} => o.sources[k] # ""
    /\ \A k \in DOMAIN o.sources : k \in {"env", "url"} => o.sources[k] # "?"

(* validate_ecs *)
ValidateEcs(e) == e = None \/ (e.mode = "custom" <=> e.custom_ip # None)

(* validate_strategy.  A rule set is referred to as [base, selector]. *)
ValidateStrategy(s) ==
    /\ s.rules # <<>> /\ s.default_upstream # "" /\ ValidateEcs(s.ecs)
    /\ \A i \in DOMAIN s.rules :
        LET r     == s.rules[i]
            set   == r.rule_set # None /\ r.rule_set.base # ""
            hosts == r.hosts \notin {None, ""}
        IN  /\ set # hosts
            /\ set => r.upstream \notin {None, ""}
            /\ hosts => r.upstream = None
            /\ ValidateEcs(r.ecs)

(* check_rule_set_selector; normalize_rule_set_selector refuses "" and "?" *)
CheckRuleSetSelector(c, ref) ==
    /\ ref.base \in NamesOf(c.rule_sets)
    /\ ref.selector = None \/ ValidName(ref.selector)

(* validate_references *)
ValidateReferences(c) ==
    LET refers(n, items) == n = None \/ n \in NamesOf(items)
    IN  /\ \A i \in DOMAIN c.listeners :
            LET l == c.listeners[i]
            IN  IF l.kind = "doh"
                THEN \A j \in DOMAIN l.routes : l.routes[j].strategy \in NamesOf(c.strategies)
                ELSE l.strategy \in NamesOf(c.strategies) /\ refers(l.hosts, c.hosts)
        /\ \A i \in DOMAIN c.upstreams :
            LET u == c.upstreams[i]
            IN  CASE u.kind = "doh" -> refers(u.bootstrap, c.upstreams) /\ refers(u.proxy, c.outbounds)
                  [] u.kind = "group" -> NamesOf(MembersOf(u)) \subseteq NamesOf(c.upstreams)
                  [] OTHER -> TRUE
        /\ \A i \in DOMAIN c.strategies :
            /\ c.strategies[i].default_upstream \in NamesOf(c.upstreams)
            /\ \A j \in DOMAIN c.strategies[i].rules :
                LET r == c.strategies[i].rules[j]
                IN  /\ refers(r.hosts, c.hosts) /\ refers(r.upstream, c.upstreams)
                    /\ r.rule_set = None \/ CheckRuleSetSelector(c, r.rule_set)
        /\ \A i \in DOMAIN c.rule_sets : refers(c.rule_sets[i].proxy, c.outbounds)

-----------------------------------------------------------------------------
(* Listeners and sockets *)

(* validate_client_ip *)
ValidateClientIp(k) ==
    CASE k.source = "peer" -> ~k.header /\ ~k.trusted /\ ~k.policies
      [] k.source = "forwarded_header" -> k.header /\ k.trusted
      [] k.source = "proxy_protocol" -> k.trusted /\ ~k.header /\ ~k.policies

(* The tls.mode check of an endpoint *)
ValidateTls(e) == IF e.tls = "terminate" THEN e.cert /\ e.key ELSE ~e.cert /\ ~e.key

(* validate_addresses and validate_port *)
ValidateSocket(addresses, port) == addresses # <<>> /\ Unique(addresses) /\ port # 0

(* The listeners of validate_collections; overlapping paths are in DohRequest *)
ValidateListener(l) ==
    IF l.kind = "doh"
    THEN /\ l.routes # <<>> /\ Unique(Field(l.routes, "path"))
         /\ l.endpoints # <<>> /\ NamedWell(l.endpoints)
         /\ \A i \in DOMAIN l.endpoints :
                LET e == l.endpoints[i]
                IN  ValidateSocket(e.addresses, e.port) /\ ValidateTls(e) /\ ValidateClientIp(e.client_ip)
    ELSE ValidateSocket(l.addresses, l.port) /\ l.strategy # "" /\ l.hosts # ""

Family(a) == IF a \in {"::", "::1"} THEN "v6" ELSE "v4"

Unspecified(a) == a \in {"0.0.0.0", "::"}

(* addresses_overlap *)
AddressesOverlap(a, b) ==
    Family(a) = Family(b) /\ (a = b \/ Unspecified(a) \/ Unspecified(b))

(* push_bind_entries: one entry per address, IPv6 ones for IPv6 only *)
Entries(protocol, addresses, port) ==
    [i \in DOMAIN addresses |-> [protocol |-> protocol, address |-> addresses[i], port |-> port,
                                 v6_only |-> Family(addresses[i]) = "v6"]]

(* build_resource_bind_plan: the plan ... *)
BindPlan(c) ==
    FlattenSeq([i \in DOMAIN c.listeners |->
        LET l == c.listeners[i]
        IN  IF l.kind = "doh"
            THEN FlattenSeq([j \in DOMAIN l.endpoints |->
                    Entries("tcp", l.endpoints[j].addresses, l.endpoints[j].port)])
            ELSE Entries(l.kind, l.addresses, l.port)])

(* ... and its conflicts, the management endpoint included *)
BindConflict(c) ==
    LET plan == BindPlan(c)
    IN  \/ \E i, j \in DOMAIN plan :
            /\ i < j
            /\ plan[i].protocol = plan[j].protocol /\ plan[i].port = plan[j].port
            /\ AddressesOverlap(plan[i].address, plan[j].address)
        \/ /\ c.webui.enable
           /\ \E i \in DOMAIN plan :
                /\ plan[i].protocol = "tcp" /\ plan[i].port = c.webui.port
                /\ AddressesOverlap(plan[i].address, c.webui.address)

-----------------------------------------------------------------------------
(* Clients and paths (config/contract.rs) *)

(* ConfigV2::validate, the clients *)
ValidateClients(c) ==
    /\ NamedWell(c.clients)
    /\ Unique(Field(c.clients, "client_id"))
    /\ Unique(FlattenSeq(Field(c.clients, "ips")))
    /\ \A i \in DOMAIN c.clients :
        /\ ValidName(c.clients[i].client_id)
        /\ c.clients[i].strategy = None \/ c.clients[i].strategy \in NamesOf(c.strategies)

(* lexical_normalize; a path is a sequence of components below the root *)
Normalize(path) ==
    FoldLeft(LAMBDA out, p :
        CASE p = "." -> out
          [] p = ".." -> IF out = <<>> THEN <<>> ELSE Front(out)
          [] OTHER -> Append(out, p), <<>>, path)

(* paths_overlap *)
PathsOverlap(a, b) == IsPrefix(a, b) \/ IsPrefix(b, a)

(* resolve_paths, relative to the directory of the source *)
ResolvePaths(c) ==
    LET p          == c.paths
        work       == Normalize(Front(p.source) \o p.work)
        in(path)   == Normalize(work \o path)
        files      == {in(p.statistics), in(p.snapshot)}
        protected  == {Normalize(p.source), Append(work, "config.yaml"), in(p.logs)}
    IN  /\ \A f \in files : /\ ~PathsOverlap(f, in(p.records))
                            /\ \A q \in protected : ~PathsOverlap(f, q)
        /\ ~PathsOverlap(in(p.statistics), in(p.snapshot))
        /\ \A q \in protected : ~PathsOverlap(q, in(p.records))

(* validate_startup *)
ValidateStartup(c) ==
    /\ c.listeners # <<>> /\ c.upstreams # <<>> /\ c.strategies # <<>>
    /\ c.webui.port # 0
    /\ c.webui.enable => c.webui.origin

(* ConfigV2::validate and resolve_paths *)
Validated(c) ==
    /\ ValidateStartup(c)
    /\ \A items \in {c.listeners, c.upstreams, c.strategies, c.hosts, c.outbounds, c.rule_sets} :
        NamedWell(items)
    /\ \A i \in DOMAIN c.listeners : ValidateListener(c.listeners[i])
    /\ \A i \in DOMAIN c.upstreams : ValidateUpstream(c.upstreams[i])
    /\ \A i \in DOMAIN c.strategies : ValidateStrategy(c.strategies[i])
    /\ \A i \in DOMAIN c.hosts : ValidateHostsResource(c.hosts[i])
    /\ \A i \in DOMAIN c.rule_sets : ValidateRuleSet(c.rule_sets[i])
    /\ \A i \in DOMAIN c.outbounds : ValidateOutbound(c.outbounds[i])
    /\ ValidateReferences(c)
    /\ ValidateUpstreamCycles(c)
    /\ ~BindConflict(c)
    /\ ValidateClients(c)
    /\ ResolvePaths(c)

-----------------------------------------------------------------------------
(* What is built from a validated configuration *)

(* resolve_config_v2: the names and selectors it `expect`s *)
Resolves(c) ==
    /\ \A items \in {c.listeners, c.upstreams, c.strategies, c.hosts, c.outbounds, c.rule_sets, c.clients} :
        \A n \in NamesOf(items) : ValidName(n)
    /\ \A i \in DOMAIN c.upstreams :
        c.upstreams[i].kind = "group" => \A n \in NamesOf(MembersOf(c.upstreams[i])) : ValidName(n)
    /\ \A i \in DOMAIN c.strategies :
        /\ ValidName(c.strategies[i].default_upstream)
        /\ \A j \in DOMAIN c.strategies[i].rules :
            LET r == c.strategies[i].rules[j]
            IN  /\ \A n \in {r.hosts, r.upstream} \ {None} : ValidName(n)
                /\ r.rule_set # None => /\ ValidName(r.rule_set.base)
                                        /\ r.rule_set.selector # None => ValidName(r.rule_set.selector)

(* source_kind and resolve: a secret has one source *)
SecretReadable(o) ==
    \E k \in {"env", "file", "url"} : DOMAIN o.sources = {k} /\ o.sources[k] # ""

(* proxy_scheme as validate_secret_refs and OutboundProfile read it; the secret
   of an outbound is its proxy's scheme or "unreadable" *)
SchemeOf(c, proxy) ==
    LET i == CHOOSE j \in DOMAIN c.outbounds : c.outbounds[j].name = proxy
    IN  c.outbounds[i].secret

(* validate_secret_refs: checked when the runtime is prepared, not at loading *)
ValidateSecretRefs(c) ==
    /\ \A i \in DOMAIN c.outbounds :
        SecretReadable(c.outbounds[i]) /\ c.outbounds[i].secret \in {"socks5", "socks5h"}
    /\ \A i \in DOMAIN c.upstreams :
        LET u == c.upstreams[i]
        IN  ~(u.kind = "doh" /\ u.bootstrap # None /\ u.proxy # None /\ SchemeOf(c, u.proxy) = "socks5h")

(* build_resource_workers: a worker's interval in seconds is positive *)
WorkersBuild(c) ==
    \A r \in ToSet(c.hosts) \union ToSet(c.rule_sets) :
        (r.kind # "const" /\ r.auto_update) => r.interval # None

(* from_resolved_with_outbounds: the transport of a direct upstream *)
TransportBuilds(c, u) ==
    u.kind = "doh" /\ u.proxy # None =>
        /\ u.proxy \in NamesOf(c.outbounds)
        /\ ~(SchemeOf(c, u.proxy) = "socks5h" /\ u.bootstrap # None)

(* build_connectors, for the direct upstreams *)
RegistryBuilds(c) ==
    LET direct == {i \in DOMAIN c.upstreams : c.upstreams[i].kind # "group"}
    IN  /\ Unique(Field(c.outbounds, "name"))
        /\ \A i, j \in direct : c.upstreams[i].name = c.upstreams[j].name => i = j
        /\ \A i \in direct :
            /\ c.upstreams[i].kind = "doh" => c.upstreams[i].scheme \in {"http", "https"}
            /\ TransportBuilds(c, c.upstreams[i])

(* build_group_executor and group_member_exchanges: b = [groups, building, ok].
   A group is built once, its nested groups before it; all holds the direct
   upstreams and the groups built so far. *)
RECURSIVE BuildGroup(_, _, _)
BuildGroup(c, n, b) ==
    IF ~b.ok \/ n \in b.groups THEN b
    ELSE IF n \in b.building THEN [b EXCEPT !.ok = FALSE]
    ELSE LET u      == UpstreamNamed(c, n)
             member(acc, m) ==
                IF m.name \notin NamesOf(c.upstreams) THEN [acc EXCEPT !.ok = FALSE]
                ELSE IF UpstreamNamed(c, m.name).kind = "group" THEN BuildGroup(c, m.name, acc)
                ELSE acc
             built  == FoldLeft(member, [b EXCEPT !.building = @ \union {n}], MembersOf(u))
             whole  == /\ u.upstreams # <<>> /\ u.timeout > 0
                       /\ u.fallbacks \notin {None, <<>>} =>
                            u.fallback_mode # None /\ u.fallback_timeout # None
         IN  [built EXCEPT !.building = @ \ {n}, !.ok = @ /\ whole,
                           !.groups = IF built.ok /\ whole THEN @ \union {n} ELSE @]

GroupNames(c) == {u.name : u \in {v \in ToSet(c.upstreams) : v.kind = "group"}}

(* UpstreamRuntime::from_registry *)
GroupsBuild(c) ==
    FoldLeft(LAMBDA b, n : BuildGroup(c, n, b),
             [groups |-> {}, building |-> {}, ok |-> Unique(Field(c.upstreams, "name"))],
             SetToSeq(GroupNames(c))).ok

(* collect_group_member_ecs: w = [visited, members] *)
RECURSIVE Collect(_, _, _)
Collect(c, n, w) ==
    IF n \in w.visited THEN w
    ELSE FoldLeft(LAMBDA acc, m :
            IF UpstreamNamed(c, m.name).kind = "group" THEN Collect(c, m.name, acc)
            ELSE [acc EXCEPT !.members = @ \union {m.name}],
            [w EXCEPT !.visited = @ \union {n}], MembersOf(UpstreamNamed(c, n)))

CollectedMembers(c, n) == Collect(c, n, [visited |-> {}, members |-> {}]).members

(* The addresses a bound socket receives on *)
Receives(e) ==
    CASE e.address = "0.0.0.0" -> {"10.0.0.1", "127.0.0.1"}
      [] e.address = "::" -> {"::1"} \union (IF e.v6_only THEN {} ELSE {"10.0.0.1", "127.0.0.1"})
      [] OTHER -> {e.address}

(* bind_with_previous without a previous set: every entry gets its socket *)
Binds(c) ==
    LET plan == BindPlan(c)
    IN  \A i, j \in DOMAIN plan :
            (i # j /\ plan[i].protocol = plan[j].protocol /\ plan[i].port = plan[j].port)
                => Receives(plan[i]) \intersect Receives(plan[j]) = {}

(* ManagementServer::bind leaves IPV6_V6ONLY to the system, which receives IPv4
   on an IPv6 wildcard as well; the TCP sockets of DNS it would collide with *)
ManagementCollides(c) ==
    LET own  == [address |-> c.webui.address, v6_only |-> FALSE]
        plan == ToSet(BindPlan(c))
    IN  {e \in plan : /\ c.webui.enable /\ e.protocol = "tcp" /\ e.port = c.webui.port
                       /\ Receives(e) \intersect Receives(own) # {}}

ConfInit == conf \in Configurations

-----------------------------------------------------------------------------
(* A configuration that passes validation, and the check of its secrets when a
   runtime is prepared, is built: nothing the resolver expects is missing,
   every connector and every group comes into being (a cycle through fallbacks
   or bootstraps would stop it half way), and every socket of the plan can be
   bound beside the others.  The management socket can be bound beside them
   too, unless it is the IPv6 wildcard and the other an IPv4 socket: overlaps
   are looked for within a family (addresses_overlap). *)
ValidatedBuilds ==
    Validated(conf) =>
        /\ Resolves(conf)
        /\ ValidateSecretRefs(conf) => RegistryBuilds(conf)
        /\ GroupsBuild(conf)
        /\ WorkersBuild(conf)
        /\ Binds(conf)
        /\ \A e \in ManagementCollides(conf) :
              conf.webui.address = "::" /\ Family(e.address) = "v4"

(* The direct upstreams an execution of group n can reach *)
Reachable(c, n) ==
    LET step(S) == S \union {m \in NamesOf(c.upstreams) : \E g \in S \intersect GroupNames(c) :
                                m \in NamesOf(MembersOf(UpstreamNamed(c, g)))}
    IN  FoldLeft(LAMBDA S, i : step(S), {n}, c.upstreams) \ GroupNames(c)

(* Every upstream an execution of a group may reach, through nested groups and
   fallbacks, is among the members whose client subnets are compared and which
   get a query of their own (collect_group_member_ecs): otherwise a fallback
   member would be asked with the subnet of another one. *)
MembersAreKnown ==
    Validated(conf) => \A n \in GroupNames(conf) : CollectedMembers(conf, n) = Reachable(conf, n)

(* Two files the service writes, or a file it writes and one it must not touch,
   are never one another nor one inside the other, whatever "." and ".." the
   configuration spells them with. *)
StoresAreApart ==
    Validated(conf) =>
        LET p     == conf.paths
            at(q) == Normalize(Front(p.source) \o p.work \o q)
            kept  == <<at(p.statistics), at(p.snapshot), at(p.records), Normalize(p.source), at(p.logs)>>
            apart(a, b) == \E i \in DOMAIN a \intersect DOMAIN b : a[i] # b[i]
        IN  \A i, j \in DOMAIN kept : (i < j /\ i <= 3) => apart(kept[i], kept[j])

-----------------------------------------------------------------------------
(* Levels of settings.  A block is absent (None) or a record whose fields may be
   absent.  The values of min, max and the ECS prefix name the level that set
   them. *)

Levels == {"global", "strategy", "rule", "client", "upstream"}

-----------------------------------------------------------------------------
(* The option types of config/model.rs *)

TtlBlocks(level) ==
    {None} \union [enabled : {None, TRUE, FALSE}, min : {None, level}, max : {None, level}]

EcsBlocks(level) ==
    {None} \union [mode : {"disabled", "client"}, custom : {None}] \union [mode : {"custom"}, custom : {level}]

Optimistics == [enabled : BOOLEAN, maxAge : 1..2, negative : 0..2]

(* validate_cache_override: a block says whether it enables *)
CacheBlocks == {None} \union [enabled : BOOLEAN, optimistic : {None} \union Optimistics]

-----------------------------------------------------------------------------
(* config/resolve.rs *)

ResolveTtl(block, parent, source) ==
    IF block = None THEN parent
    ELSE [enabled |-> IF block.enabled = None THEN parent.enabled ELSE block.enabled,
          min     |-> IF block.min = None THEN parent.min ELSE block.min,
          max     |-> IF block.max = None THEN parent.max ELSE block.max,
          source  |-> source]

NoTtl == [enabled |-> FALSE, min |-> None, max |-> None, source |-> "default"]

ResolveEcs(block, parent, source) ==
    IF block = None THEN parent
    ELSE [mode |-> block.mode, custom |-> IF block.mode = "custom" THEN block.custom ELSE None,
          source |-> source]

NoEcs == [mode |-> "disabled", custom |-> None, source |-> "default"]

(* The window of negative answers is never longer than that of positive ones *)
ResolveOptimistic(o) ==
    [o EXCEPT !.negative = IF o.negative < o.maxAge THEN o.negative ELSE o.maxAge]

ResolveCache(block, parent, source) ==
    IF block = None THEN None
    ELSE [enabled    |-> block.enabled,
          optimistic |-> IF block.optimistic = None THEN parent ELSE ResolveOptimistic(block.optimistic),
          source     |-> source]

(* resolve_dns_v2: an absent global cache has the defaults of its type *)
ResolveDns(g) ==
    [cache |-> [enabled    |-> IF g.cache = None THEN FALSE ELSE g.cache.enabled,
                optimistic |-> ResolveOptimistic(IF g.cache = None
                                                 THEN [enabled |-> FALSE, maxAge |-> 1, negative |-> 1]
                                                 ELSE g.cache.optimistic)],
     ttl   |-> ResolveTtl(g.ttl, NoTtl, "global"),
     ecs   |-> ResolveEcs(g.ecs, NoEcs, "global")]

ResolveStrategy(s, dns) ==
    LET ecs == ResolveEcs(s.ecs, dns.ecs, "strategy")
    IN  [ecs   |-> ecs,
         rule  |-> ResolveEcs(s.rule, ecs, "rule"),
         cache |-> ResolveCache(s.cache, dns.cache.optimistic, "strategy"),
         ttl   |-> ResolveTtl(s.ttl, dns.ttl, "strategy")]

(* resolve_client_v2: over the global level, not over the client's strategy *)
ResolveClient(c, dns) ==
    [ecs   |-> ResolveEcs(c.ecs, dns.ecs, "client"),
     cache |-> ResolveCache(c.cache, dns.cache.optimistic, "client"),
     ttl   |-> ResolveTtl(c.ttl, dns.ttl, "client")]

ResolveUpstream(block, dns) == ResolveEcs(block, dns.ecs, "upstream")

ResolveConfig(blocks) ==
    LET dns == ResolveDns(blocks.global)
    IN  [dns      |-> dns,
         strategy |-> ResolveStrategy(blocks.strategy, dns),
         client   |-> ResolveClient(blocks.client, dns),
         upstream |-> ResolveUpstream(blocks.upstream, dns)]

-----------------------------------------------------------------------------
(* policy/plan.rs: the settings of a request of the client, by its strategy *)

SelectEcs_ClientFirst(ecs, client, upstream) ==
    IF client.source = "client" THEN client
    ELSE IF ecs.source \in {"rule", "strategy"} THEN ecs ELSE upstream

SelectEcs(ecs, client, upstream) ==
    IF ecs.source \in {"rule", "strategy"} THEN ecs
    ELSE IF client.source = "client" THEN client ELSE upstream

(* select_cache: one pool, by the first level that has a block *)
SelectCache(r) ==
    LET pool(c, name) == IF c.enabled THEN [pool |-> name, optimistic |-> c.optimistic]
                         ELSE [pool |-> "disabled", optimistic |-> None]
    IN  CASE r.client.cache # None -> pool(r.client.cache, "client")
          [] r.strategy.cache # None -> pool(r.strategy.cache, "strategy")
          [] OTHER -> pool(r.dns.cache, "global")

-----------------------------------------------------------------------------
(* management/config_query.rs: effective_values *)

(* The cache field of a strategy *)
StrategyCacheShown(r) ==
    IF r.strategy.cache = None THEN <<r.dns.cache.enabled, "global">>
    ELSE <<r.strategy.cache.enabled, r.strategy.cache.source>>

(* The cache field of a client that names its strategy *)
ClientCacheShown(r) ==
    IF r.client.cache # None THEN <<r.client.cache.enabled, r.client.cache.source>>
    ELSE StrategyCacheShown(r)

-----------------------------------------------------------------------------
(* config/model.rs: durations.  A text is a sequence of components
   [whole, digits, fraction, unit]: fraction is the number written with that
   many digits after the point, none for 0 digits; a unit is its ticks. *)

Second == 10^FractionDigits

FractionScale(digits) == 10^(FractionDigits - digits)

(* One component in ticks, or None when a number grows too large *)
Component(c) ==
    LET whole    == c.whole * c.unit
        scaled   == c.fraction * c.unit * FractionScale(c.digits)
    IN  IF c.digits > FractionDigits \/ whole > MaxNumber \/ scaled > MaxNumber THEN None
        ELSE whole + (IF c.digits = 0 THEN 0 ELSE scaled \div Second)

ParseDuration(text) ==
    LET add(total, c) ==
            IF total = None \/ Component(c) = None \/ total + Component(c) > MaxNumber THEN None
            ELSE total + Component(c)
        total == FoldLeft(add, 0, text)
    IN  IF text = <<>> \/ total = None \/ total > MaxSeconds * Second THEN None ELSE total

(* serialize_duration: all of it in the smallest unit *)
SerializeDuration(ticks) == <<[whole |-> ticks, digits |-> 0, fraction |-> 0, unit |-> 1]>>

-----------------------------------------------------------------------------
(* The first block in the order of priority, of the levels that have one *)
FirstBlock(blocks) ==
    LET present == {i \in DOMAIN blocks : blocks[i] # None}
    IN  IF present = {} THEN None ELSE blocks[CHOOSE i \in present : \A j \in present : i <= j]

(* A request's ECS is the block of the highest level that has one, in the order
   rule, strategy, client, upstream, global, and off without any, although
   each level was resolved over its own parent and the choice is made by the
   source the result remembers (resolve_ecs, select_ecs). *)
EcsFollowsPriority(blocks) ==
    LET r     == ResolveConfig(blocks)
        ecs   == SelectEcs(r.strategy.rule, r.client.ecs, r.upstream)
        block == FirstBlock(<<blocks.strategy.rule, blocks.strategy.ecs, blocks.client.ecs, blocks.upstream, blocks.global.ecs>>)
    IN  IF block = None THEN ecs.mode = "disabled"
        ELSE ecs.mode = block.mode /\ ecs.custom = block.custom

(* The pages of a strategy and of a client show for the cache what their
   requests get, the level it comes from included, and an optimistic window
   never serves negative answers longer than positive ones (select_cache,
   effective_values, resolve_optimistic). *)
ShownCacheIsEffective(blocks) ==
    LET r == ResolveConfig(blocks)
        c == SelectCache(r)
    IN  /\ ClientCacheShown(r)[1] = (c.pool # "disabled")
        /\ c.pool # "disabled" =>
            /\ ClientCacheShown(r)[2] = c.pool
            /\ c.optimistic.negative <= c.optimistic.maxAge
        /\ blocks.client.cache = None => ClientCacheShown(r) = StrategyCacheShown(r)

(* A duration is refused or read to less than a tick per component below what
   is written, never wrapped, whatever the digits of its fractions, and what is
   written back reads the same (parse_duration, serialize_duration). *)
DurationIsExact(text) ==
    LET ticks == ParseDuration(text)
        power == 10^FractionDigits
        exact == FoldLeft(LAMBDA sum, c : sum + (c.whole * power
                            + (IF c.digits = 0 THEN 0 ELSE c.fraction * 10^(FractionDigits - c.digits))) * c.unit, 0, text)
    IN  ticks # None =>
            /\ ticks * power <= exact /\ exact < (ticks + Len(text)) * power
            /\ ticks \div Second <= MaxSeconds
            /\ ParseDuration(SerializeDuration(ticks)) = ticks
=============================================================================
