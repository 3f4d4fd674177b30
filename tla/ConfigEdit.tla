------------------------------ MODULE ConfigEdit ------------------------------
(***************************************************************************)
(* Edits of the configuration document through the management API          *)
(* (config/edit.rs, config/source_edit.rs, the secret forms of             *)
(* config/model.rs): a batch of creations and updates, all located by the  *)
(* names of the active document, is merged into the source tree, renamed   *)
(* resources are followed by every typed reference, and the candidate is   *)
(* validated as a whole.                                                   *)
(*                                                                         *)
(* A document maps a module to a sequence of items; an item maps a field   *)
(* to a leaf [v, s]: a value, always a sequence of strings, and the way it *)
(* is written in the source.  Parsing forgets the writing and adds the     *)
(* defaults; serialising writes canonically and masks inline passwords.    *)
(***************************************************************************)
EXTENDS Integers, Sequences, FiniteSets, SequencesExt

CONSTANTS
    Documents,   \* documents the service may start with
    Changes,     \* changes a user may submit
    Externals,   \* documents another program may leave in the file
    MaxChanges,  \* changes in a batch (128 in the code)
    MaxSubmitted, \* bound on the changes a user submits together
    MaxEdits     \* bound on accepted edits

VARIABLES
    doc,    \* the active document
    last,   \* the last accepted edit: [before, batch, external]
    edits   \* accepted edits

editVars == <<doc, last, edits>>

Modules == {"listener", "upstreams", "strategy", "hosts", "outbound", "rule_set", "clients", "dns"}

(* Modules that hold one value and no names: dns, statistics and logs *)
Single == {"dns"}

Leaf(v) == [v |-> v, s |-> "canonical"]

Masked == "FLUXDNS_REDACTED_SECRET"

-----------------------------------------------------------------------------
(* config/model.rs *)

(* serde defaults: fields a source may leave out *)
Defaults(m) ==
    IF m = "rule_set" THEN [k \in {"auto_update"} |-> <<"false">>] ELSE <<>>

(* The typed value of an item *)
Parse(m, item) ==
    [k \in DOMAIN item \union DOMAIN Defaults(m) |->
        IF k \in DOMAIN item THEN item[k].v ELSE Defaults(m)[k]]

(* redact_inline_url.  A secret is <<"inline", address, password>> or a
   reference <<"env", name>>. *)
RedactInlineUrl(v) ==
    IF v[1] = "inline" /\ v[3] # "" THEN [v EXCEPT ![3] = Masked] ELSE v

(* Serialize: what to_value and the management API see of a typed value *)
ShownAs(k, v) == IF k = "proxy_url" THEN RedactInlineUrl(v) ELSE v
Serialize(p) == [k \in DOMAIN p |-> Leaf(ShownAs(k, p[k]))]

(* restore_redacted_url: the stored password for a masked one, when both are
   inline and scheme, host and port agree *)
RestoreRedactedUrl(v, original) ==
    IF /\ v[1] = "inline" /\ v[3] = Masked
       /\ original[1] = "inline" /\ original[2] = v[2] /\ original[3] # ""
    THEN original ELSE v

-----------------------------------------------------------------------------
(* config/edit.rs *)

Named(d, m, name) == {i \in DOMAIN d[m] : m \notin Single /\ d[m][i]["name"].v = <<name>>}

IndexOf(d, m, name) == CHOOSE i \in Named(d, m, name) : TRUE

IsUpdate(c) == c.action = "update"

(* expand_redacted_changes: an update of an outbound gets its password back *)
Expand(d, c) ==
    IF c.module = "outbound" /\ IsUpdate(c) /\ Named(d, "outbound", c.original) # {}
    THEN [c EXCEPT !.value["proxy_url"] =
            RestoreRedactedUrl(@, d["outbound"][IndexOf(d, "outbound", c.original)]["proxy_url"].v)]
    ELSE c

(* ... and is refused when the mask cannot be replaced *)
Restorable(d, c) ==
    (c.module = "outbound" /\ IsUpdate(c) /\ Named(d, "outbound", c.original) # {})
        => LET v == Expand(d, c).value["proxy_url"] IN ~(v[1] = "inline" /\ v[3] = Masked)

NameOf(c) == IF c.module \in Single THEN "" ELSE c.value["name"][1]

(* resource: an update names an item of the active document *)
Found(d, c) == IsUpdate(c) => Named(d, c.module, c.original) # {}

(* The key a change touches *)
TargetOf(c) == <<c.module, IF IsUpdate(c) THEN c.original ELSE NameOf(c)>>

(* The typed value of a change; a client keeps its client_id unless told otherwise *)
ValueOf(d, c) ==
    IF c.module = "clients" /\ IsUpdate(c) /\ "client_id" \notin DOMAIN c.value
    THEN [k \in DOMAIN c.value \union {"client_id"} |->
            IF k = "client_id"
            THEN d["clients"][IndexOf(d, "clients", c.original)]["client_id"].v
            ELSE c.value[k]]
    ELSE c.value

(* merge_changed: only the fields that differ are written *)
MergeChanged(source, old, new) ==
    LET removed == DOMAIN old \ DOMAIN new
        written == {k \in DOMAIN new : k \notin DOMAIN old \/ old[k] # new[k]}
    IN  [k \in (DOMAIN source \ removed) \union written |->
            IF k \in written THEN new[k] ELSE source[k]]

(* One change applied to the tree; positions come from the active document d *)
ApplyChange(d, tree, c) ==
    LET m == c.module
        new == Serialize(ValueOf(d, c))
        merged(item) == MergeChanged(item, Serialize(Parse(m, item)), new)
    IN  IF m \in Single
        THEN [tree EXCEPT ![m] = <<merged(IF @ = <<>> THEN <<>> ELSE Head(@))>>]
        ELSE IF IsUpdate(c)
        THEN [tree EXCEPT ![m][IndexOf(d, m, c.original)] = merged(@)]
        ELSE [tree EXCEPT ![m] = Append(@, new)]

ApplyChanges(d, batch) ==
    FoldLeft(LAMBDA tree, c : ApplyChange(d, tree, c), d, batch)

(* The renames of a batch: <<module, old name>> -> new name *)
Renames(batch) ==
    LET renaming == {c \in ToSet(batch) : IsUpdate(c) /\ c.original # NameOf(c)}
    IN  [k \in {TargetOf(c) : c \in renaming} |->
            NameOf(CHOOSE c \in renaming : TargetOf(c) = k)]

(* The fields of an item that are references, by its variant, and the module
   each one refers to (rewrite_references).  Inline hosts text is no reference. *)
References(m, item) ==
    LET fields ==
        CASE m = "listener" -> {"strategy", "hosts"}
          [] m = "upstreams" /\ item["type"].v = <<"doh">> -> {"bootstrap", "proxy"}
          [] m = "upstreams" /\ item["type"].v = <<"group">> -> {"upstreams", "fallbacks"}
          [] m = "strategy" -> {"default_upstream", "hosts", "rule_upstream", "rule_set"}
          [] m = "rule_set" /\ item["type"].v = <<"remote">> -> {"proxy"}
          [] m = "clients" -> {"strategy"}
          [] OTHER -> {}
    IN  [k \in fields \intersect DOMAIN item |->
            CASE k \in {"strategy", "hosts", "rule_set"} -> k
              [] k = "proxy" -> "outbound"
              [] OTHER -> "upstreams"]

(* A reference renamed once; a rule set's selector stays *)
RenameRef(v, module, field, renames) ==
    [j \in DOMAIN v |->
        IF (field = "rule_set" => j = 1) /\ <<module, v[j]>> \in DOMAIN renames
        THEN renames[<<module, v[j]>>] ELSE v[j]]

(* rewrite_references *)
RewriteReferences(tree, renames) ==
    [m \in Modules |-> [i \in DOMAIN tree[m] |->
        LET item == tree[m][i]
            refs == References(m, item)
        IN  [k \in DOMAIN item |->
                IF k \in DOMAIN refs /\ RenameRef(item[k].v, refs[k], k, renames) # item[k].v
                THEN Leaf(RenameRef(item[k].v, refs[k], k, renames))
                ELSE item[k]]]]

(* The names a reference holds *)
Targets(field, v) == IF field = "rule_set" THEN {v[1]} ELSE ToSet(v)

(* validate_references *)
ReferencesExist(d) ==
    \A m \in Modules : \A i \in DOMAIN d[m] :
        LET refs == References(m, d[m][i])
        IN  \A k \in DOMAIN refs : \A t \in Targets(k, d[m][i][k].v) : Named(d, refs[k], t) # {}

(* Names are unique in their module (validate_collections) *)
NamesUnique(d) ==
    \A m \in Modules \ Single : \A i, j \in DOMAIN d[m] :
        d[m][i]["name"].v = d[m][j]["name"].v => i = j

(* validate_upstream_cycles: no set of upstreams each of which refers to
   another one of the set, by bootstrap or membership *)
NoUpstreamCycle(d) ==
    ~\E S \in (SUBSET DOMAIN d["upstreams"]) \ {{}} : \A i \in S :
        LET item == d["upstreams"][i]
        IN  \E k \in DOMAIN References("upstreams", item) \ {"proxy"} : \E j \in S :
                d["upstreams"][j]["name"].v[1] \in ToSet(item[k].v)

(* ConfigV2::parse as far as edits can break it *)
Valid(d) == NamesUnique(d) /\ ReferencesExist(d) /\ NoUpstreamCycle(d)

(* build_candidate: the intended tree.  edit_document writes it into the
   source text and is checked to give back this very tree, or refuses. *)
Intended(d, batch) == RewriteReferences(ApplyChanges(d, batch), Renames(batch))

Acceptable(d, batch) ==
    /\ Len(batch) \in 1..MaxChanges
    /\ \A i \in DOMAIN batch : Restorable(d, batch[i]) /\ Found(d, batch[i])
    /\ \A i, j \in DOMAIN batch : TargetOf(batch[i]) = TargetOf(batch[j]) => i = j
    /\ Valid(Intended(d, [i \in DOMAIN batch |-> Expand(d, batch[i])]))

-----------------------------------------------------------------------------
(* management/config_query.rs and config_query/external.rs *)

(* module_references: the references a module's page lists.  Every optional
   field that is there is one, except in hosts, outbound and settings. *)
ModuleReferences(d, m) ==
    LET listed ==
        CASE m = "listener" -> {"strategy", "hosts"}
          [] m = "upstreams" -> {"bootstrap", "proxy", "upstreams", "fallbacks"}
          [] m = "strategy" -> {"default_upstream", "rule_set", "hosts", "rule_upstream"}
          [] m = "rule_set" -> {"proxy"}
          [] m = "clients" -> {"strategy"}
          [] OTHER -> {}
    IN  {[from |-> d[m][i]["name"].v[1], field |-> k, to |-> d[m][i][k].v] :
            <<i, k>> \in {<<j, f>> \in (DOMAIN d[m]) \X listed : f \in DOMAIN d[m][j]}}

NamesIn(d, m) == IF m \in Single THEN {""} ELSE {d[m][i]["name"].v[1] : i \in DOMAIN d[m]}

(* The serialised value of a resource, <<>> for none.  Settings always have one. *)
Shown(d, m, name) ==
    CASE m \in Single -> Serialize(Parse(m, IF d[m] = <<>> THEN <<>> ELSE Head(d[m])))
      [] Named(d, m, name) # {} -> Serialize(Parse(m, d[m][IndexOf(d, m, name)]))
      [] OTHER -> <<>>

(* append_resources: pairs by name, from either side *)
PairedNames(a, e, m) == NamesIn(a, m) \union NamesIn(e, m)

(* external_diff, append: the pairs whose serialised values differ *)
ExternalDiff(a, e) ==
    {x \in UNION {{[module |-> m, name |-> n, active |-> Shown(a, m, n), external |-> Shown(e, m, n)] :
                    n \in PairedNames(a, e, m)} : m \in Modules} :
        x.active # x.external}

(* externalAdoptionItem: an external value is submitted as an update of its
   namesake or as a creation; what only the active side has is left alone, and
   so is the client_id of a client *)
AdoptionItem(x) ==
    LET known == x.module \notin Single /\ x.active # <<>>
        sent  == IF known /\ x.module = "clients" THEN DOMAIN x.external \ {"client_id"}
                 ELSE DOMAIN x.external
    IN  [module   |-> x.module,
         action   |-> IF known THEN "update" ELSE "create",
         original |-> IF known THEN x.name ELSE "",
         value    |-> [k \in sent |-> x.external[k].v]]

AdoptionItems(diff) == {AdoptionItem(x) : x \in {y \in diff : y.module \in Single \/ y.external # <<>>}}

-----------------------------------------------------------------------------
EditInit ==
    /\ doc \in Documents
    /\ Valid(doc)
    /\ last = [before |-> doc, batch |-> <<>>, external |-> <<>>]
    /\ edits = 0

(* validate_edit and begin_apply: expand, build, publish *)
Submit(batch, external) ==
    LET expanded == [i \in DOMAIN batch |-> Expand(doc, batch[i])]
    IN  /\ edits < MaxEdits
        /\ Acceptable(doc, batch)
        /\ doc' = Intended(doc, expanded)
        /\ last' = [before |-> doc, batch |-> batch, external |-> external]
        /\ edits' = edits + 1

SubmitEdit == \E batch \in UNION {[1..n -> Changes] : n \in 1..MaxSubmitted} : Submit(batch, <<>>)

(* The differences to a valid external document, as many as a reply holds, are
   adopted together *)
AdoptExternal(e) ==
    /\ Valid(e)
    /\ Cardinality(ExternalDiff(doc, e)) <= MaxChanges
    /\ Submit(SetToSeq(AdoptionItems(ExternalDiff(doc, e))), e)

EditNext == SubmitEdit \/ \E e \in Externals : AdoptExternal(e)

EditSpec == EditInit /\ [][EditNext]_editVars

-----------------------------------------------------------------------------
(* The document is valid and every secret has one of its forms. *)
EditTypeOK ==
    /\ DOMAIN doc = Modules /\ edits \in 0..MaxEdits
    /\ Valid(doc)
    /\ \A i \in DOMAIN doc["outbound"] : doc["outbound"][i]["proxy_url"].v[1] \in {"inline", "env"}

Touched(m, name) == \E i \in DOMAIN last.batch : TargetOf(last.batch[i]) = <<m, name>>

(* Where a reference points: positions do not change, names may *)
Pointees(d, m, field, v) ==
    {IndexOf(d, m, t) : t \in Targets(field, v)}

(* Whatever a batch renames, and be it two names exchanged, a resource the
   batch does not edit keeps pointing at the very resources it pointed at, and
   everything else in it stays exactly as it was written, inline hosts text
   that happens to look like a name included (rewrite_references maps old
   names to new ones once, by the variant's typed fields). *)
EditKeepsReferences ==
    \A m \in Modules \ Single : \A i \in DOMAIN last.before[m] :
        LET b    == last.before[m][i]
            a    == doc[m][i]
            refs == References(m, b)
        IN  ~Touched(m, b["name"].v[1]) =>
                /\ DOMAIN a = DOMAIN b
                /\ \A k \in DOMAIN b :
                    IF k \in DOMAIN refs
                    THEN Pointees(doc, refs[k], k, a[k].v)
                            = Pointees(last.before, refs[k], k, b[k].v)
                    ELSE a[k] = b[k]

(* Whatever an edit rewrites in a resource it does not name was listed before
   as a reference to a renamed resource (module_references and
   rewrite_references walk the same fields). *)
RewrittenWasListed ==
    \A m \in Modules \ Single : \A i \in DOMAIN last.before[m] :
        LET b == last.before[m][i]
        IN  ~Touched(m, b["name"].v[1]) =>
                \A k \in {f \in DOMAIN b : doc[m][i][f] # b[f]} :
                    \E r \in ModuleReferences(last.before, m) :
                        /\ r.from = b["name"].v[1] /\ r.field = k
                        /\ \E t \in Targets(k, r.to) : \E x \in DOMAIN Renames(last.batch) : x[2] = t

(* Adopting all differences to an external document leaves none that a page
   would show, except what a reply does not offer: resources that only the
   active document has and the identifier of a known client (external_diff,
   externalAdoptionItem, build_candidate). *)
AdoptedIsExternal ==
    last.external # <<>> =>
        \A m \in Modules : \A n \in NamesIn(last.external, m) :
            LET kept == IF m = "clients" /\ n \in NamesIn(last.before, m) THEN {"client_id"} ELSE {}
                now  == Shown(doc, m, n)
                want == Shown(last.external, m, n)
            IN  /\ DOMAIN now = DOMAIN want
                /\ \A k \in DOMAIN now \ kept : now[k] = want[k]

(* The item an accepted change stands in *)
PlaceOf(c) ==
    IF IsUpdate(c) THEN IndexOf(last.before, c.module, c.original)
    ELSE IndexOf(doc, c.module, NameOf(c))

(* After an accepted edit the pages show what was submitted: the written item
   has the fields the user sent and no others, each with the value sent as the
   API shows it, and a secret whose shown value the user left alone is the very
   one that was stored (merge_changed writes only what differs between two
   serialised values, expand_redacted_changes restores what was masked). *)
EditIsApplied ==
    \A j \in DOMAIN last.batch :
        LET c == last.batch[j]
        IN  c.module \notin Single =>
                LET a == Parse(c.module, doc[c.module][PlaceOf(c)])
                    refs == DOMAIN References(c.module, doc[c.module][PlaceOf(c)])
                    sent == ValueOf(last.before, c)
                IN  /\ DOMAIN a = DOMAIN sent \union DOMAIN Defaults(c.module)
                    /\ \A k \in DOMAIN sent \ refs : ShownAs(k, a[k]) = ShownAs(k, sent[k])
                    /\ (c.module = "outbound" /\ IsUpdate(c)) =>
                        LET b == last.before["outbound"][PlaceOf(c)]["proxy_url"].v
                        IN  sent["proxy_url"] = RedactInlineUrl(b) => a["proxy_url"] = b

(* "A re-entered secret is written as the new value" and "the placeholder is
   never stored as a password": an outbound of an accepted batch holds the
   secret that was sent, or the stored one in place of the mask
   (expand_redacted_changes, merge_changed, SecretRefDto::serialize). *)
SecretsAreWritten ==
    \A j \in DOMAIN last.batch :
        LET c == last.batch[j]
        IN  c.module = "outbound" =>
                LET v == doc["outbound"][PlaceOf(c)]["proxy_url"].v
                IN  v[Len(v)] # Masked /\ v = Expand(last.before, c).value["proxy_url"]

=============================================================================
