------------------------------ MODULE PolicyPlan ------------------------------
(***************************************************************************)
(* What the policy decides for a request, and under which key the answer   *)
(* is cached: route and client matching (policy/route.rs,                  *)
(* policy/client.rs), rules, cache pool and client subnet (policy/plan.rs), *)
(* the upstream query and the fast and resolved cache keys (dns/policy.rs). *)
(* Resources are refreshed while requests are under way; every request     *)
(* works on the policy state it loaded first.                              *)
(*                                                                         *)
(* An address is a family, "v4", "v6" or "mapped" (an IPv4-mapped IPv6     *)
(* address), and a number of two bits; a network keeps the first len bits. *)
(* Digests are injective, so a fingerprint is the record of its inputs.    *)
(***************************************************************************)
EXTENDS Integers, Sequences, FiniteSets, SequencesExt

CONSTANTS
    Requests,      \* the requests: [listener, route, client, addr, ecs, name]
    Configs,       \* the configurations that may be running
    Contents,      \* the contents a resource may be refreshed to; names without a selector are under None
    None,          \* no value (a model value)
    MaxOpen,       \* bound on requests under way
    MaxCached,     \* bound on cached answers; a fuller cache evicts one
    MaxRefreshes   \* bound on refreshes

VARIABLES
    conf,        \* the running configuration
    content,     \* resource -> content, the policy state in force
    open,        \* requests that missed the cache: [request, content, key]
    cached,      \* answers: [key, to, subnets], what each was fetched with
    refreshes

planVars == <<conf, content, open, cached, refreshes>>

-----------------------------------------------------------------------------
(* policy/client.rs *)

(* normalize_client_addr *)
NormalizeClientAddr(a) == IF a.fam = "mapped" THEN [a EXCEPT !.fam = "v4"] ELSE a

Network(a, len) == [fam |-> a.fam, bits |-> a.bits \div 2^(2 - len), len |-> len]

Holds(net, a) == Network(a, net.len) = net

(* ClientIndex::build: no empty rule, no name, id or network twice *)
ClientIndexBuilds(clients) ==
    /\ \A i \in DOMAIN clients : clients[i].ids # {} \/ clients[i].nets # {}
    /\ \A i, j \in DOMAIN clients : i # j =>
        /\ clients[i].name # clients[j].name
        /\ clients[i].ids \intersect clients[j].ids = {}
        /\ clients[i].nets \intersect clients[j].nets = {}

(* The networks sorted by descending prefix length *)
Cidrs(clients) ==
    SetToSortSeq(UNION {{[net |-> n, rule |-> i] : n \in clients[i].nets} : i \in DOMAIN clients},
                 LAMBDA x, y : x.net.len > y.net.len
                               \/ (x.net.len = y.net.len /\ x.rule < y.rule))

(* The networks that contain the address, longest first *)
CidrsOf(clients, addr) ==
    IF addr = None THEN <<>>
    ELSE SelectSeq(Cidrs(clients), LAMBDA x : Holds(x.net, NormalizeClientAddr(addr)))

MatchBy(byId, byNet) ==
    IF byId # {} THEN [kind |-> "id", rule |-> CHOOSE i \in byId : TRUE]
    ELSE IF byNet # <<>> THEN [kind |-> "cidr", rule |-> Head(byNet).rule]
    ELSE [kind |-> "unknown", rule |-> 0]

(* match_client: the exact id, else the first network that contains the address *)
MatchClient(clients, r) ==
    MatchBy({i \in DOMAIN clients : r.client \in clients[i].ids}, CidrsOf(clients, r.addr))

(* cache_digest: of the identity that matched *)
CacheDigest(m, r) ==
    CASE m.kind = "id" -> <<"id", r.client>>
      [] m.kind = "cidr" -> <<"ip", NormalizeClientAddr(r.addr)>>
      [] OTHER -> None

-----------------------------------------------------------------------------
(* policy/route.rs *)

(* RouteIndex::build: every strategy a listener names exists *)
RouteIndexBuilds(c) ==
    \A l \in DOMAIN c.listeners :
        LET x == c.listeners[l]
        IN  IF x.kind = "stream" THEN x.strategy \in DOMAIN c.strategies
            ELSE \A p \in DOMAIN x.routes : x.routes[p] \in DOMAIN c.strategies

SelectStream(c, r) ==
    IF r.listener \in DOMAIN c.listeners /\ c.listeners[r.listener].kind = "stream"
    THEN [strategy |-> c.listeners[r.listener].strategy,
          hosts |-> c.listeners[r.listener].hosts]
    ELSE [strategy |-> None, hosts |-> None]

SelectDoh(c, r) ==
    IF /\ r.listener \in DOMAIN c.listeners
       /\ c.listeners[r.listener].kind = "doh"
       /\ r.route \in DOMAIN c.listeners[r.listener].routes
    THEN [strategy |-> c.listeners[r.listener].routes[r.route], hosts |-> None]
    ELSE [strategy |-> None, hosts |-> None]

-----------------------------------------------------------------------------
(* policy/plan.rs *)

(* select_cache: the client's cache, else the strategy's, else the global one *)
SelectCache(c, client, strategy, digest) ==
    IF client # None /\ client.cache # None
    THEN IF client.cache /\ digest # None
         THEN [namespace |-> <<"client", digest, strategy>>]
         ELSE [namespace |-> None]
    ELSE IF c.strategies[strategy].cache # None
    THEN [namespace |-> IF c.strategies[strategy].cache
                        THEN <<"strategy", strategy>> ELSE None]
    ELSE [namespace |-> IF c.globalCache THEN <<"global">> ELSE None]

(* prepare_context: no qname is looked at.  A request whose route or strategy
   is not known has no context and is answered SERVFAIL. *)
ContextFor(c, r, routing, match) ==
    LET client   == IF match.rule = 0 THEN None ELSE c.clients[match.rule]
        strategy == IF client # None /\ client.strategy # None
                    THEN client.strategy ELSE routing.strategy
    IN  IF routing.strategy = None \/ strategy \notin DOMAIN c.strategies
        THEN [valid |-> FALSE]
        ELSE [valid |-> TRUE, listener |-> r.listener, route |-> r.route,
              hosts |-> routing.hosts, client |-> client, strategy |-> strategy,
              cache |-> SelectCache(c, client, strategy, CacheDigest(match, r))]

PrepareContext(c, r) ==
    ContextFor(c, r, IF r.route # None THEN SelectDoh(c, r) ELSE SelectStream(c, r),
               MatchClient(c.clients, r))

(* Whether a rule's resource knows the name; a rule set with selectors is
   asked for the selector the rule names. *)
Hits(res, selector, name) ==
    IF res.map THEN selector \in DOMAIN res.names /\ name \in res.names[selector]
    ELSE name \in res.names[None]

(* validate_rule_set_selectors, and the same conditions at evaluation *)
SelectorFits(rule, res) ==
    IF rule.selector = None THEN ~res.map
    ELSE res.map /\ rule.selector \in DOMAIN res.names

(* evaluate_rules: the listener's hosts, then the rules in order.  A rule set
   without the selector the rule names fails the request there. *)
EvaluateRules(c, res, ctx, name) ==
    LET s     == c.strategies[ctx.strategy]
        fits  == [i \in DOMAIN s.rules |->
                    s.rules[i].kind = "hosts" \/ SelectorFits(s.rules[i], res[s.rules[i].res])]
        stops == {i \in DOMAIN s.rules :
                    ~fits[i] \/ Hits(res[s.rules[i].res], s.rules[i].selector, name)}
        first == CHOOSE i \in stops : \A j \in stops : i <= j
        rule  == s.rules[first]
    IN  IF ctx.hosts # None /\ Hits(res[ctx.hosts], None, name)
        THEN [valid |-> TRUE, hosts |-> ctx.hosts, upstream |-> s.default, ecs |-> s.ecs]
        ELSE IF stops = {}
        THEN [valid |-> TRUE, hosts |-> None, upstream |-> s.default, ecs |-> s.ecs]
        ELSE IF ~fits[first] THEN [valid |-> FALSE]
        ELSE [valid |-> TRUE, hosts |-> IF rule.kind = "hosts" THEN rule.res ELSE None,
              upstream |-> IF rule.kind = "set" /\ rule.upstream # None
                           THEN rule.upstream ELSE s.default,
              ecs |-> rule.ecs]

(* select_ecs: rule or strategy, then client, then upstream, then global *)
SelectEcs(c, strategyEcs, client, upstream) ==
    IF strategyEcs.source \in {"rule", "strategy"} THEN strategyEcs
    ELSE IF client # None /\ client.ecs.source = "client" THEN client.ecs
    ELSE IF upstream \in DOMAIN c.upstreamEcs THEN c.upstreamEcs[upstream]
    ELSE strategyEcs

(* evaluate_route *)
WithEcs(c, ctx, d) ==
    IF d.valid THEN [d EXCEPT !.ecs = SelectEcs(c, @, ctx.client, d.upstream)] ELSE d

EvaluateRoute(c, res, ctx, name) == WithEcs(c, ctx, EvaluateRules(c, res, ctx, name))

-----------------------------------------------------------------------------
(* dns/policy.rs *)

(* normalize_client_subnet and client_address_subnet.  A mapped address is an
   IPv6 address here, whose first bits are the same for all of them. *)
ClientAddressSubnet(a) ==
    IF a.fam = "mapped" THEN [fam |-> "v6", bits |-> 0, len |-> 1] ELSE Network(a, 1)

RequestSubnet(r) ==
    IF r.ecs # None THEN Network(r.ecs, r.ecs.len)
    ELSE IF r.addr # None THEN ClientAddressSubnet(r.addr) ELSE None

(* effective_upstream_query: the subnet that goes to the upstream *)
EffectiveSubnet(ecs, r) ==
    CASE ecs.mode = "disabled" -> None
      [] ecs.mode = "custom" -> ecs.custom
      [] ecs.mode = "client" -> RequestSubnet(r)

(* prepare_query: the query of every member a target reaches.  c.members maps
   a group to its members' own settings (None inherits the request's). *)
MemberSubnets(c, upstream, ecs, r) ==
    IF ecs.source \in {"default", "global"} /\ upstream \in DOMAIN c.members
    THEN {EffectiveSubnet(IF m = None THEN ecs ELSE m, r) : m \in c.members[upstream]}
    ELSE {EffectiveSubnet(ecs, r)}

(* fast_cache_strategies: no target of the strategy is a group with a member
   that has a subnet setting of its own *)
FastCacheEligible(c, ctx) ==
    LET s == c.strategies[ctx.strategy]
        targets == {s.default}
            \union {s.rules[i].upstream : i \in {j \in DOMAIN s.rules : s.rules[j].upstream # None}}
    IN  /\ ctx.cache.namespace # None
        /\ \A t \in targets : t \in DOMAIN c.members => c.members[t] = {None}

(* cache_semantics_fingerprint: the configuration, the context and the content
   of every resource *)

CacheSemanticsFingerprint(c, res, ctx) ==
    [base |-> c, listener |-> ctx.listener, route |-> ctx.route, strategy |-> ctx.strategy,
     client |-> IF ctx.client = None THEN None ELSE ctx.client.name, content |-> res]

(* build_cache_key: an injective encoding of its parts (cache/key.rs) *)
BuildCacheKey(namespace, r, dimensions) ==
    [namespace |-> namespace, name |-> r.name, dimensions |-> dimensions]

(* fast_cache_key, with request_policy_fingerprint *)
FastCacheKey(c, res, ctx, r) ==
    BuildCacheKey(ctx.cache.namespace, r,
        [mode |-> "fast", policy |-> CacheSemanticsFingerprint(c, res, ctx),
         request |-> RequestSubnet(r), target |-> None, ecs |-> None])

(* cache_key_for_query *)
ResolvedCacheKey(c, res, ctx, r, upstream, subnet) ==
    BuildCacheKey(ctx.cache.namespace, r,
        [mode |-> "resolved", policy |-> CacheSemanticsFingerprint(c, res, ctx),
         request |-> None, target |-> upstream, ecs |-> subnet])

(* The whole decision for a request under one policy state: whether the name
   goes to an upstream, what is sent to every member there, and the key.  A
   group whose members are asked differently is not cached. *)
UpstreamPlan(c, res, r, ctx, d, fast, subnets) ==
    [to |-> d.upstream, subnets |-> subnets,
     key |-> IF ctx.cache.namespace = None \/ Cardinality(subnets) > 1 THEN None
             ELSE IF fast # None THEN fast
             ELSE ResolvedCacheKey(c, res, ctx, r, d.upstream, CHOOSE x \in subnets : TRUE)]

PlanByRoute(c, res, r, ctx, d, fast) ==
    IF ~d.valid THEN [to |-> "servfail", key |-> fast]
    ELSE IF d.hosts # None THEN [to |-> d.hosts, key |-> fast]
    ELSE UpstreamPlan(c, res, r, ctx, d, fast, MemberSubnets(c, d.upstream, d.ecs, r))

PlanInContext(c, res, r, ctx) ==
    IF ~ctx.valid THEN [to |-> "servfail", key |-> None]
    ELSE PlanByRoute(c, res, r, ctx, EvaluateRoute(c, res, ctx, r.name),
                     IF FastCacheEligible(c, ctx) THEN FastCacheKey(c, res, ctx, r) ELSE None)

Plan(c, res, r) == PlanInContext(c, res, r, PrepareContext(c, r))

-----------------------------------------------------------------------------
(* validate_rule_set_selectors when a configuration is built *)
SelectorsFit(c, res) ==
    \A s \in DOMAIN c.strategies : \A i \in DOMAIN c.strategies[s].rules :
        LET rule == c.strategies[s].rules[i]
        IN  rule.kind = "set" => SelectorFits(rule, res[rule.res])

(* build_with_resources *)
PolicyBuilds(c, res) ==
    RouteIndexBuilds(c) /\ ClientIndexBuilds(c.clients) /\ SelectorsFit(c, res)

PlanInit ==
    /\ conf \in Configs
    /\ content \in [conf.resources -> Contents]
    /\ PolicyBuilds(conf, content)
    /\ open = {}
    /\ cached = {}
    /\ refreshes = 0

(* resolve_with_metadata up to the upstream: a request without a usable cached
   answer freezes its plan under the policy state it loaded *)
Ask(r) ==
    LET p == Plan(conf, content, r)
    IN  /\ Cardinality(open) < MaxOpen
        /\ p.key # None /\ p.to \notin conf.resources \union {"servfail"}
        /\ ~\E a \in cached : a.key = p.key
        /\ open' = open \union {[request |-> r, content |-> content, key |-> p.key]}
        /\ UNCHANGED <<conf, content, cached, refreshes>>

(* The answer arrives and is stored under the key frozen at the start *)
Answer(o) ==
    LET p == Plan(conf, o.content, o.request)
    IN  /\ o \in open
        /\ open' = open \ {o}
        /\ \E kept \in SUBSET {a \in cached : a.key # o.key} :
            /\ Cardinality(kept) < MaxCached
            /\ cached' = kept \union {[key |-> o.key, to |-> p.to, subnets |-> p.subnets]}
        /\ UNCHANGED <<conf, content, refreshes>>

(* replace_hosts_resource and replace_rule_set_resource with their content hash.
   A refreshed rule set is not held against the rules that name its selectors. *)
Replace(resource, new) ==
    /\ refreshes < MaxRefreshes
    /\ refreshes' = refreshes + 1
    /\ content' = [content EXCEPT ![resource] = new]
    /\ UNCHANGED <<conf, open, cached>>

PlanNext ==
    \/ \E r \in Requests : Ask(r)
    \/ \E o \in open : Answer(o)
    \/ \E resource \in conf.resources, new \in Contents : Replace(resource, new)

PlanSpec == PlanInit /\ [][PlanNext]_planVars

-----------------------------------------------------------------------------
(* Types of the variables. *)
PlanTypeOK ==
    /\ conf \in Configs /\ content \in [conf.resources -> Contents]
    /\ Cardinality(open) <= MaxOpen
    /\ Cardinality(cached) <= MaxCached
    /\ refreshes \in 0..MaxRefreshes

(* A cached answer is the answer: whenever the key a request is looked up with
   in the current policy state holds a record, that record was fetched from the
   upstream, and with the client subnets, that the current rules, resources
   and client settings choose for this very request; so a name moved to a hosts
   file, a refreshed rule set, another client or another subnet never meets an
   answer meant for someone else (fast_cache_key leaves the target and the
   subnet out and relies on the fingerprints). *)
CachedIsOwn ==
    \A r \in Requests :
        LET p == Plan(conf, content, r)
        IN  \A a \in cached :
                a.key = p.key => p.to = a.to /\ p.subnets = a.subnets
=============================================================================
