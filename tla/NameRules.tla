------------------------------- MODULE NameRules -------------------------------
(***************************************************************************)
(* The name matchers a request is tried against: rule sets                 *)
(* (resource/rules.rs), hosts resources (resource/hosts.rs, the answers of *)
(* dns/handler.rs) and the second hosts reader of hosts upstreams          *)
(* (dns/hosts.rs, upstream/hosts.rs).                                      *)
(*                                                                         *)
(* A text is a sequence of characters, a name a sequence of labels, a      *)
(* label a text; <<>> is a name that does not parse and a first label      *)
(* <<"*">> a wildcard.  A result is [ok |-> TRUE, ...] or [ok |-> FALSE].  *)
(* The root name, upper case and line lengths are left out.                *)
(***************************************************************************)
EXTENDS Integers, Sequences, FiniteSets, SequencesExt

CONSTANTS
    MaxRules,      \* RuleLimits::max_rules
    MaxSelectors,  \* RuleLimits::max_selectors
    MaxProgram,    \* RuleLimits::max_regex_program
    MaxRecords,    \* HostsLimits::max_records and MAX_HOSTS_ENTRIES
    MaxNames       \* HostsLimits::max_names

Failed == [ok |-> FALSE]

IsWildcard(name) == name # <<>> /\ name[1] = <<"*">>

(* CanonicalDomain::parse: a wildcard needs a name behind it *)
ParsesAsDomain(name) ==
    /\ name # <<>> /\ name # << <<"*">> >>
    /\ \A i \in DOMAIN name : i > 1 => name[i] # <<"*">>

TextOf(name) == FlattenSeq([i \in DOMAIN name |-> IF i = 1 THEN name[i] ELSE <<".">> \o name[i]])

-----------------------------------------------------------------------------
(* Regular expressions *)

Program(tokens, anchoredStart, anchoredEnd) ==
    [ok |-> TRUE, tokens |-> tokens, start |-> anchoredStart, end |-> anchoredEnd]

Refused(error) == [ok |-> FALSE, error |-> error]

(* is_escaped: an odd number of backslashes in front *)
IsEscaped(chars, position) ==
    LET run == {n \in 0..(position - 1) : \A k \in 1..n : chars[position - k] = "\\"}
    IN (CHOOSE n \in run : \A m \in run : m <= n) % 2 = 1

(* The characters of the patterns in the order of their codes *)
Characters == <<"$", "(", ")", "*", "+", "-", ".", "?", "[", "\\", "]", "^", "a", "b", "w", "{", "|">>

Rank(c) == CHOOSE i \in DOMAIN Characters : Characters[i] = c

CharAt(chars, i) == IF i \in DOMAIN chars THEN chars[i] ELSE "end"

RECURSIVE ParseClass(_, _, _, _)
(* The loop of parse_class from `position`, and its closing check *)
ParseClass(chars, position, end, ranges) ==
    IF position < end /\ chars[position] # "]" THEN
        LET at == IF chars[position] = "\\" THEN position + 1 ELSE position
            ranged == CharAt(chars, at + 1) = "-" /\ CharAt(chars, at + 2) # "]"
            last == CharAt(chars, at + 2)
        IN CASE CharAt(chars, at) = "end" -> Failed
             [] ranged /\ (last = "end" \/ Rank(chars[at]) > Rank(last)) -> Failed
             [] ranged -> ParseClass(chars, at + 3, end, ranges \cup {<<chars[at], last>>})
             [] OTHER -> ParseClass(chars, at + 1, end, ranges \cup {<<chars[at], chars[at]>>})
    ELSE IF ranges = {} \/ position >= end \/ chars[position] # "]" THEN Failed
    ELSE [ok |-> TRUE, ranges |-> ranges, next |-> position + 1]

ClassAtom(class, negated) ==
    IF ~class.ok THEN Refused("invalid")
    ELSE [ok |-> TRUE, next |-> class.next,
          atom |-> [kind |-> "class", ranges |-> class.ranges, negated |-> negated]]

(* One atom of compile: the atom and where it ends, or the error.  \d and  *)
(* \s are classes of characters the patterns here do not have.             *)
ParseAtom(chars, position, end) ==
    LET c == chars[position]
        negated == CharAt(chars, position + 1) = "^"
        escaped == CharAt(chars, position + 1)
    IN CASE c \in {"^", "$", "(", ")", "|"} -> Refused("unsupported")
         [] c = "." -> [ok |-> TRUE, atom |-> [kind |-> "any"], next |-> position + 1]
         [] c = "[" -> ClassAtom(ParseClass(chars, IF negated THEN position + 2 ELSE position + 1, end, {}),
                                 negated)
         [] c = "\\" /\ escaped = "end" -> Refused("invalid")
         [] c = "\\" /\ escaped = "w" ->
                [ok |-> TRUE, next |-> position + 2,
                 atom |-> [kind |-> "class", ranges |-> {<<"a", "w">>}, negated |-> FALSE]]
         [] c = "\\" -> [ok |-> TRUE, atom |-> [kind |-> "literal", char |-> escaped], next |-> position + 2]
         [] OTHER -> [ok |-> TRUE, atom |-> [kind |-> "literal", char |-> c], next |-> position + 1]

RECURSIVE CompileFrom(_, _, _, _)
RECURSIVE Quantified(_, _, _, _)
(* The loop of CompiledRegex::compile *)
CompileFrom(chars, position, end, tokens) ==
    IF position < end THEN Quantified(chars, ParseAtom(chars, position, end), end, tokens)
    ELSE IF tokens = <<>> THEN Refused("invalid") ELSE [ok |-> TRUE, tokens |-> tokens]
(* The quantifier behind an atom of the loop *)
Quantified(chars, atom, end, tokens) ==
    LET mark == CharAt(chars, atom.next)
    IN CASE ~atom.ok -> atom
         [] mark = "{" -> Refused("unsupported")
         [] Len(tokens) >= MaxProgram -> Refused("too_large")
         [] OTHER -> CompileFrom(chars, IF mark \in {"*", "+", "?"} THEN atom.next + 1 ELSE atom.next, end,
                                 Append(tokens, [atom |-> atom.atom, many |-> mark \in {"*", "+"},
                                                 min |-> IF mark \in {"*", "?"} THEN 0 ELSE 1]))

(* The pattern between its anchors *)
Anchored(chars, start, end) ==
    LET Built(body) == IF body.ok THEN Program(body.tokens, start, end) ELSE body
    IN Built(CompileFrom(chars, IF start THEN 2 ELSE 1, IF end THEN Len(chars) ELSE Len(chars) + 1, <<>>))

(* CompiledRegex::compile *)
Compile(chars) ==
    IF chars = <<>> THEN Refused("invalid")
    ELSE Anchored(chars, CharAt(chars, 1) = "^",
                  CharAt(chars, Len(chars)) = "$" /\ ~IsEscaped(chars, Len(chars)))

(* atom_matches *)
AtomMatches(atom, c) ==
    CASE atom.kind = "any" -> TRUE
      [] atom.kind = "literal" -> atom.char = c
      [] OTHER -> (\E r \in atom.ranges : Rank(c) \in Rank(r[1])..Rank(r[2])) # atom.negated

(* How far a token may reach from a position, greedily *)
Longest(token, position, text) ==
    LET counts == {n \in 0..(Len(text) - position + 1) :
                        /\ token.many \/ n <= 1
                        /\ \A k \in 0..(n - 1) : AtomMatches(token.atom, text[position + k])}
    IN CHOOSE n \in counts : \A m \in counts : m <= n

RECURSIVE MatchHere_MemoByChar(_, _, _, _, _)
RECURSIVE TryCounts_MemoByChar(_, _, _, _, _, _)
MatchHere_MemoByChar(program, token, position, text, failed) ==
    IF token > Len(program.tokens)
    THEN [found |-> ~program.end \/ position = Len(text) + 1, failed |-> failed]
    ELSE IF position \in failed THEN [found |-> FALSE, failed |-> failed]
    ELSE TryCounts_MemoByChar(program, token, position, text, failed,
                              Longest(program.tokens[token], position, text))
TryCounts_MemoByChar(program, token, position, text, failed, count) ==
    IF count < program.tokens[token].min THEN [found |-> FALSE, failed |-> failed \cup {position}]
    ELSE LET rest == MatchHere_MemoByChar(program, token + 1, position + count, text, failed)
         IN IF rest.found THEN rest
            ELSE TryCounts_MemoByChar(program, token, position, text, rest.failed, count - 1)

RECURSIVE MatchHere(_, _, _, _, _)
RECURSIVE TryCounts(_, _, _, _, _, _)
(* match_here: the memo `failed` is threaded through the search *)
MatchHere(program, token, position, text, failed) ==
    IF token > Len(program.tokens)
    THEN [found |-> ~program.end \/ position = Len(text) + 1, failed |-> failed]
    ELSE IF <<token, position>> \in failed THEN [found |-> FALSE, failed |-> failed]
    ELSE TryCounts(program, token, position, text, failed,
                   Longest(program.tokens[token], position, text))
(* Its loop over the counts, from the greatest down to the token's minimum *)
TryCounts(program, token, position, text, failed, count) ==
    IF count < program.tokens[token].min
    THEN [found |-> FALSE, failed |-> failed \cup {<<token, position>>}]
    ELSE LET rest == MatchHere(program, token + 1, position + count, text, failed)
         IN IF rest.found THEN rest
            ELSE TryCounts(program, token, position, text, rest.failed, count - 1)

(* CompiledRegex::is_match: a new memo for every start *)
IsMatch(program, text) ==
    \E start \in IF program.start THEN {1} ELSE 1..(Len(text) + 1) :
        MatchHere(program, 1, start, text, {}).found

-----------------------------------------------------------------------------
(* Rule sets.  A rule is [kind, value]: "exact" and "suffix" hold a name,  *)
(* "keyword" and "regex" a text.                                           *)

EmptyIndex == [ok |-> TRUE, exact |-> {}, suffix |-> {}, keywords |-> {}, regex |-> <<>>,
               count |-> 0, skipped |-> 0]

(* bump_rule_count after an insertion *)
Bumped(index, changed) ==
    IF index.count >= MaxRules THEN Refused("too_many") ELSE [changed EXCEPT !.count = @ + 1]

(* add_regex *)
AddRegex(index, program) ==
    IF program.ok THEN Bumped(index, [index EXCEPT !.regex = Append(@, program)]) ELSE program

(* add_domain and add_keyword: a set knows its members *)
AddTo(index, field, value) ==
    IF value \in index[field] THEN index ELSE Bumped(index, [index EXCEPT ![field] = @ \cup {value}])

(* add_domain, add_keyword, add_regex *)
AddRule(index, rule) ==
    CASE ~index.ok -> index
      [] rule.kind = "regex" -> AddRegex(index, Compile(rule.value))
      [] rule.kind = "keyword" ->
            IF rule.value = <<>> THEN Refused("keyword") ELSE AddTo(index, "keywords", rule.value)
      [] OTHER -> IF ~ParsesAsDomain(rule.value) \/ IsWildcard(rule.value) THEN Refused("domain")
                  ELSE AddTo(index, rule.kind, rule.value)

AddRules(index, rules) == FoldLeft(AddRule, index, rules)

(* parse_clash_with_limits: keywords are an unknown rule type there *)
ParseClash(lines) ==
    FoldLeft(LAMBDA index, line : IF index.ok /\ line.kind = "keyword" THEN Refused("type")
                                  ELSE AddRule(index, line), EmptyIndex, lines)

(* add_json_fields: the fields one after the other *)
AddJsonFields(index, rules) ==
    FoldLeft(LAMBDA built, kind : AddRules(built, SelectSeq(rules, LAMBDA r : r.kind = kind)),
             index, <<"exact", "suffix", "keyword", "regex">>)

(* parse_json_with_limits, a document of the four fields *)
ParseLegacy(rules) == IF rules = <<>> THEN Refused("missing") ELSE AddJsonFields(EmptyIndex, rules)

(* parse_json_with_limits, a sing-box document *)
ParseSingBox(version, groups) ==
    LET NotEmpty(index) == IF index.ok /\ index.count = 0 THEN Refused("missing") ELSE index
    IN IF version \notin 1..5 THEN Refused("version")
       ELSE NotEmpty(FoldLeft(AddJsonFields, EmptyIndex, groups))

(* The domain types of parse_dat_site *)
KindOfDat(kind) == CASE kind = 0 -> "keyword" [] kind = 1 -> "regex" [] kind = 2 -> "suffix" [] OTHER -> "exact"

(* parse_dat_site: an unsupported expression is counted, not refused *)
ParseDatSite(domains) ==
    LET Lenient(index, d, added) ==
            IF d.kind = 1 /\ added = Refused("unsupported") THEN [index EXCEPT !.skipped = @ + 1] ELSE added
        Add(index, d) ==
            CASE ~index.ok -> index
              [] d.kind > 3 -> Refused("type")
              [] OTHER -> Lenient(index, d, AddRule(index, [kind |-> KindOfDat(d.kind), value |-> d.value]))
    IN FoldLeft(Add, EmptyIndex, domains)

(* parse_dat_with_limits: a site per selector, the rules of all of them    *)
(* within the limit; a field that is not whole ends the reading            *)
ParseDat(fields) ==
    LET AddSite(built, selector, site) ==
            CASE ~site.ok -> site
              [] selector = "" \/ selector \in DOMAIN built.selectors -> Refused("selector")
              [] Cardinality(DOMAIN built.selectors) >= MaxSelectors -> Refused("selectors")
              [] built.count + site.count > MaxRules -> Refused("too_many")
              [] OTHER -> [ok |-> TRUE, count |-> built.count + site.count,
                           selectors |-> [s \in DOMAIN built.selectors \cup {selector} |->
                                             IF s = selector THEN site ELSE built.selectors[s]]]
        Read(built, f) ==
            CASE ~built.ok -> built
              [] ~f.whole -> Refused("dat")
              [] ~f.site -> built
              [] OTHER -> AddSite(built, f.selector, ParseDatSite(f.domains))
        NotEmpty(all) == IF all.ok /\ DOMAIN all.selectors = {} THEN Refused("dat") ELSE all
    IN NotEmpty(FoldLeft(Read, [ok |-> TRUE, count |-> 0, selectors |-> [s \in {} |-> EmptyIndex]], fields))

(* RuleIndex::matches *)
Matches(index, name) ==
    LET text == TextOf(name)
        starts == {s \in 1..Len(name) : SubSeq(name, s, Len(name)) \in index.suffix}
    IN CASE name \in index.exact -> [kind |-> "exact"]
         [] starts # {} -> [kind |-> "suffix",
                            labels |-> Len(name) - (CHOOSE s \in starts : \A t \in starts : s <= t) + 1]
         [] \E k \in index.keywords : \E i \in DOMAIN text : IsPrefix(k, SubSeq(text, i, Len(text))) ->
                [kind |-> "keyword"]
         [] \E i \in DOMAIN index.regex : IsMatch(index.regex[i], text) -> [kind |-> "regex"]
         [] OTHER -> [kind |-> "none"]

-----------------------------------------------------------------------------
(* Hosts resources.  A record is [kind, value], an address one of "v4_..." *)
(* or "v6_..." kind: [kind |-> "v4", value |-> ...].                       *)

EmptyHosts == [ok |-> TRUE, owners |-> <<>>, count |-> 0]

OwnerNames(index) == {index.owners[i].name : i \in DOMAIN index.owners}

(* HostsIndex::records, of either map *)
RecordsOf(index, name) ==
    IF name \in OwnerNames(index)
    THEN (CHOOSE o \in ToSet(index.owners) : o.name = name).records ELSE <<>>

(* HostsIndex::insert; the two maps are told apart by the owner name *)
Insert(index, name, record) ==
    LET records == RecordsOf(index, name)
        fresh == name \notin OwnerNames(index)
        cname == record.kind = "cname"
    IN CASE ~index.ok -> index
         [] ~ParsesAsDomain(name) -> Refused("name")
         [] fresh /\ Len(index.owners) >= MaxNames -> Refused("names")
         [] \E r \in ToSet(records) : (r.kind = "cname") # cname -> Refused("conflict")
         [] cname /\ \E r \in ToSet(records) : r # record -> Refused("conflict")
         [] record \in ToSet(records) -> index
         [] index.count >= MaxRecords -> Refused("records")
         [] fresh -> [index EXCEPT !.owners = Append(@, [name |-> name, records |-> <<record>>]),
                                   !.count = @ + 1]
         [] OTHER -> [index EXCEPT !.count = @ + 1,
                                   !.owners = [i \in DOMAIN @ |-> IF @[i].name = name
                                        THEN [@[i] EXCEPT !.records = Append(@, record)] ELSE @[i]]]

(* parse_hosts_with_limits: a line is an address and its names *)
ParseHosts(lines) ==
    FoldLeft(LAMBDA index, line :
                CASE ~index.ok -> index
                  [] line.address.kind = "bad" -> Refused("address")
                  [] line.names = <<>> -> Refused("name")
                  [] OTHER -> FoldLeft(LAMBDA built, name : Insert(built, name, line.address),
                                       index, line.names),
             EmptyHosts, lines)

(* parse_json_with_limits: an entry is a name, whether it is on, and its   *)
(* records by type                                                         *)
ParseJsonHosts(entries) ==
    LET Value(built, name, type, value) ==
            CASE ~built.ok -> built
              [] type \notin {"A", "AAAA", "CNAME"} -> Refused("type")
              [] type # "CNAME" /\ value.kind # (IF type = "A" THEN "v4" ELSE "v6") -> Refused("json")
              [] OTHER -> Insert(built, name, value)
        Typed(built, name, field) ==
            FoldLeft(LAMBDA b, value : Value(b, name, field.type, value), built, field.values)
        Entry(built, e) ==
            CASE ~built.ok \/ ~e.enable -> built
              [] ~ParsesAsDomain(e.name) -> Refused("name")
              [] OTHER -> FoldLeft(LAMBDA b, field : Typed(b, e.name, field), built, e.records)
    IN FoldLeft(Entry, EmptyHosts, entries)

(* HostsIndex::lookup: the exact name, else the longest wildcard above it *)
Lookup(index, name) ==
    LET above == {s \in 2..Len(name) : << <<"*">> >> \o SubSeq(name, s, Len(name)) \in OwnerNames(index)}
    IN CASE ~IsWildcard(name) /\ name \in OwnerNames(index) -> RecordsOf(index, name)
         [] IsWildcard(name) \/ above = {} -> <<>>
         [] OTHER -> RecordsOf(index, << <<"*">> >> \o
                        SubSeq(name, CHOOSE s \in above : \A t \in above : s <= t, Len(name)))

(* The record types a question of a type is answered with *)
KindAnswering(type) ==
    CASE type = "A" -> "v4" [] type = "AAAA" -> "v6" [] type = "CNAME" -> "cname" [] OTHER -> "nothing"

(* resource_answers: an exact owner in any index hides every wildcard *)
ResourceAnswers(indexes, name, type) ==
    LET exact == \E i \in DOMAIN indexes : RecordsOf(indexes[i], name) # <<>>
        found == [i \in DOMAIN indexes |-> IF exact THEN RecordsOf(indexes[i], name)
                                           ELSE Lookup(indexes[i], name)]
    IN [known |-> \E i \in DOMAIN found : found[i] # <<>>,
        answers |-> SelectSeq(FlattenSeq(found), LAMBDA r : r.kind = KindAnswering(type))]

(* HostsCore::resolve and the hosts step of the policy core *)
HostsResponse(found) ==
    [code |-> IF found.answers = <<>> /\ ~found.known THEN "NXDOMAIN" ELSE "NOERROR",
     answers |-> found.answers]

-----------------------------------------------------------------------------
(* The hosts upstream: its own table *)

(* HostsTable::parse *)
ParseTable(lines) ==
    LET Add(table, name, address) ==
            LET held == IF name \in DOMAIN table.entries THEN table.entries[name] ELSE <<>>
            IN CASE ~table.ok -> table
                 [] name = <<>> -> Refused("name")
                 [] address \in ToSet(held) -> table
                 [] table.count + 1 > MaxRecords -> Refused("entries")
                 [] OTHER -> [ok |-> TRUE, count |-> table.count + 1,
                              entries |-> [n \in DOMAIN table.entries \cup {name} |->
                                    IF n = name THEN Append(held, address) ELSE table.entries[n]]]
    IN FoldLeft(LAMBDA table, line :
                    CASE ~table.ok -> table
                      [] line.address.kind = "bad" -> Refused("address")
                      [] line.names = <<>> -> Refused("name")
                      [] OTHER -> FoldLeft(LAMBDA t, name : Add(t, name, line.address), table, line.names),
                [ok |-> TRUE, count |-> 0, entries |-> [n \in {} |-> <<>>]], lines)

(* parse_json_hosts: checked, then written out as lines and parsed *)
ParseJsonTable(entries) ==
    LET Wrong(field) ==
            \/ field.type \notin {"A", "AAAA"} \/ field.values = <<>>
            \/ \E v \in ToSet(field.values) : v.kind # (IF field.type = "A" THEN "v4" ELSE "v6")
        LinesOf(e) == FlattenSeq([f \in DOMAIN e.records |->
                        [v \in DOMAIN e.records[f].values |->
                            [address |-> e.records[f].values[v], names |-> <<e.name>>]]])
    IN IF \E e \in ToSet(entries) : ~e.enable \/ e.records = <<>> \/ \E f \in ToSet(e.records) : Wrong(f)
       THEN Refused("json")
       ELSE ParseTable(FlattenSeq([i \in DOMAIN entries |-> LinesOf(entries[i])]))

(* HostsTable::lookup and HostsExchange::response *)
TableResponse(table, name, type) ==
    LET held == IF name \in DOMAIN table.entries THEN table.entries[name] ELSE <<>>
        answers == IF type \in {"A", "AAAA"}
                   THEN SelectSeq(held, LAMBDA a : a.kind = KindAnswering(type)) ELSE <<>>
    IN [code |-> IF answers # <<>> \/ held # <<>> THEN "NOERROR" ELSE "NXDOMAIN",
        answers |-> answers]

-----------------------------------------------------------------------------
(* Properties *)

(* The positions a program can be at after its tokens, from a set of starts *)
Reached(program, text) ==
    FoldLeft(LAMBDA at, token :
                {q \in 1..(Len(text) + 1) : \E p \in at :
                    /\ q - p >= token.min /\ (token.many \/ q - p <= 1)
                    /\ \A k \in p..(q - 1) : AtomMatches(token.atom, text[k])},
             IF program.start THEN {1} ELSE 1..(Len(text) + 1), program.tokens)

(* The backtracking matcher with its memo of failed positions (match_here) *)
(* finds a match exactly when the expression has one: the memo never cuts  *)
(* off a search that could still succeed.                                  *)
RegexIsExact(pattern, text) ==
    LET program == Compile(pattern)
        ends == Reached(program, text)
    IN program.ok => (IsMatch(program, text)
                        <=> IF program.end THEN Len(text) + 1 \in ends ELSE ends # {})

AsDat(rules) ==
    [i \in DOMAIN rules |->
        [value |-> rules[i].value,
         kind |-> CASE rules[i].kind = "keyword" -> 0 [] rules[i].kind = "regex" -> 1
                    [] rules[i].kind = "suffix" -> 2 [] OTHER -> 3]]

(* A list of rules means the same in every format the loader reads: as     *)
(* Clash lines, as JSON fields, as a sing-box rule and as a DAT site it is *)
(* accepted alike and builds the same index, but for the expressions the   *)
(* DAT reader skips and the keywords Clash does not know.                  *)
FormatsAgree(rules) ==
    LET Agree(json, sing, dat, clash) ==
            /\ json.ok = sing.ok /\ (json.ok => sing = json)
            /\ json.ok => dat.ok /\ dat.selectors["s"] = json /\ dat.count = json.count
            /\ dat.ok /\ dat.selectors["s"].skipped = 0 => json.ok
            /\ (\A i \in DOMAIN rules : rules[i].kind # "keyword") =>
                    clash.ok = json.ok /\ (json.ok => clash = json)
    IN rules # <<>> =>
        Agree(ParseLegacy(rules), ParseSingBox(1, <<rules>>),
              ParseDat(<<[whole |-> TRUE, site |-> TRUE, selector |-> "s", domains |-> AsDat(rules)]>>),
              ParseClash(rules))

(* Whether one rule covers a name, as the formats' documentation has it *)
Covers(rule, name) ==
    CASE rule.kind = "exact" -> rule.value = name
      [] rule.kind = "suffix" -> IsSuffix(rule.value, name)
      [] rule.kind = "keyword" -> \E i \in 0..Len(TextOf(name)) :
                                     IsPrefix(rule.value, SubSeq(TextOf(name), i + 1, Len(TextOf(name))))
      [] OTHER -> IsMatch(Compile(rule.value), TextOf(name))

(* An accepted rule set matches a name exactly when one of its rules covers *)
(* it, the kinds tried in their order and the longest suffix reported       *)
(* (RuleIndex::matches).                                                    *)
MatchIsDeserved(rules, name) ==
    LET Deserved(result, covering) ==
            /\ result.kind = "none" <=> covering = {}
            /\ \A i \in covering :
                /\ rules[i].kind = "exact" => result.kind = "exact"
                /\ rules[i].kind = "suffix" =>
                     \/ result.kind = "exact"
                     \/ result.kind = "suffix" /\ result.labels >= Len(rules[i].value)
                /\ rules[i].kind = "keyword" => result.kind # "regex"
            /\ result.kind # "none" => \E i \in covering : rules[i].kind = result.kind
        Checked(index) ==
            index.ok => Deserved(Matches(index, name), {i \in DOMAIN rules : Covers(rules[i], name)})
    IN Checked(ParseLegacy(rules))

(* The two readers of hosts data agree: what a hosts upstream accepts as a *)
(* file, and what it accepts as JSON, a hosts rule answers alike, but for  *)
(* the names only a wildcard covers, which the table does not know.        *)
HostsReadersAgree(lines, entries, name) ==
    LET Agree(index, table) ==
            /\ index.ok => table.ok
            /\ index.ok /\ (RecordsOf(index, name) # <<>> \/ Lookup(index, name) = <<>>) =>
                \A type \in {"A", "AAAA", "TXT"} :
                    TableResponse(table, name, type) = HostsResponse(ResourceAnswers(<<index>>, name, type))
    IN /\ Agree(ParseHosts(lines), ParseTable(lines))
       /\ LET table == ParseJsonTable(entries) IN table.ok => Agree(ParseJsonHosts(entries), table)

(* Over several hosts resources a name one of them owns is answered from    *)
(* its owners alone: a wildcard of another resource adds nothing            *)
(* (resource_answers).                                                      *)
ExactHidesWildcards(first, second, name) ==
    LET indexes == <<ParseHosts(first), ParseHosts(second)>>
        Owned == ToSet(RecordsOf(indexes[1], name)) \cup ToSet(RecordsOf(indexes[2], name))
    IN (indexes[1].ok /\ indexes[2].ok /\ Owned # {}) =>
        \A type \in {"A", "AAAA"} :
            ToSet(ResourceAnswers(indexes, name, type).answers)
                = {r \in Owned : r.kind = KindAnswering(type)}
================================================================================
