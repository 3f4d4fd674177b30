---------------------------- MODULE DohRequest ----------------------------
(***************************************************************************)
(* How a DoH session turns the bytes of one connection into requests       *)
(* (backend/src/transport/doh.rs, config/doh_route.rs): the PROXY header   *)
(* and the TLS upgrade in front, the HTTP/1.x requests behind them, their  *)
(* route and the address of their client.  Bytes are counted; a request is *)
(* its length and the first thing that is wrong with it.                   *)
(***************************************************************************)
EXTENDS Integers, Sequences, FiniteSets, SequencesExt

CONSTANTS
    MaxHead,       \* MAX_DOH_REQUEST_HEAD_BYTES
    MaxPost,       \* MAX_DOH_POST_BODY_BYTES
    MaxChunk,      \* DOH_READ_CHUNK_BYTES
    MaxProxy,      \* MAX_PROXY_V2_BYTES
    HttpFaults,    \* the faults of the requests in this instance
    Addresses,     \* client addresses; those in TrustedProxies are proxies
    TrustedProxies

\* "\r\n\r\n"
Terminator == 4

MaxBuffer == MaxHead + MaxPost

VARIABLES
    setup,   \* the endpoint's settings and what the client will send
    wire,    \* bytes taken from the socket and bytes drained from the buffer
    front,   \* PROXY header and TLS progress
    events   \* what receive has returned so far

dohVars == <<setup, wire, front, events>>

-----------------------------------------------------------------------------
(* Requests.                                                               *)

\* In the order the code looks for them.  The head faults are found as soon
\* as the head is complete, the others when the body is there too.
HeadFaults == {"non_ascii", "fields_too_long", "request_line", "method", "version",
               "target_too_long", "header_line", "duplicate_header", "transfer_encoding",
               "expect", "host", "post_too_large"}
BodyFaults == {"target", "get_with_body", "no_dns", "duplicate_dns", "bad_dns",
               "dns_too_long", "no_length", "media_type", "empty_post", "bad_wire"}

\* The DohHttpError of a fault.
HttpError(fault) ==
    CASE fault = "method"            -> "MethodNotAllowed"
      [] fault = "target_too_long"   -> "UriTooLong"
      [] fault = "dns_too_long"      -> "UriTooLong"
      [] fault = "transfer_encoding" -> "UnsupportedTransferEncoding"
      [] fault = "expect"            -> "UnsupportedExpectation"
      [] fault = "host"              -> "InvalidHost"
      [] fault = "post_too_large"    -> "PayloadTooLarge"
      [] fault = "no_dns"            -> "MissingDnsParameter"
      [] fault = "duplicate_dns"     -> "DuplicateDnsParameter"
      [] fault = "bad_dns"           -> "InvalidDnsParameter"
      [] fault = "no_length"         -> "MissingContentLength"
      [] fault = "media_type"        -> "UnsupportedMediaType"
      [] fault \in {"empty_post", "bad_wire"} -> "InvalidDnsWire"
      [] OTHER                       -> "Malformed"

\* A forwarded header: absent, unreadable, or a chain of addresses.
Chains == UNION {[1..n -> Addresses] : n \in 1..2}
Forwarded == {[has |-> "none"], [has |-> "unreadable"]}
               \cup {[has |-> "chain", chain |-> c] : c \in Chains}

HttpRequest == [head : Nat, body : Nat, fault : HttpFaults \cup {"none"},
                close : BOOLEAN, route : BOOLEAN, forwarded : Forwarded]

Size(r) == r.head + Terminator + r.body

\* try_parse_request on the first n bytes of what the client sends from r on:
\* more bytes are needed, an error, or a request and the bytes it takes.
TryParseRequest(r, n) ==
    IF n < r.head + Terminator
    THEN IF n > MaxHead THEN [is |-> "error", error |-> "Malformed"]
                        ELSE [is |-> "more"]
    ELSE IF r.head > MaxHead THEN [is |-> "error", error |-> "Malformed"]
    ELSE IF r.fault \in HeadFaults THEN [is |-> "error", error |-> HttpError(r.fault)]
    ELSE IF n < Size(r) THEN [is |-> "more"]
    ELSE IF r.fault \in BodyFaults THEN [is |-> "error", error |-> HttpError(r.fault)]
    ELSE [is |-> "request", taken |-> Size(r)]

-----------------------------------------------------------------------------
(* The client's address.                                                   *)

Sources == {"peer", "forwarded", "proxy_protocol"}

PeerIsTrusted == setup.source = "peer" \/ setup.trusted

\* The last address of the chain that is not one of our proxies, or the
\* first address when all of them are.
SelectForwardedClient(chain) ==
    LET open == SelectSeq(Reverse(chain), LAMBDA a : a \notin TrustedProxies)
    IN IF open = <<>> THEN Head(chain) ELSE Head(open)

\* The client of a request, or "refused", when its chain names the given one.
ResolveClientFrom(r, named) ==
    LET otherwise(disposition) == IF disposition = "use_peer" THEN "peer" ELSE "refused"
    IN CASE setup.source = "peer" -> "peer"
         [] setup.source # "peer" /\ ~setup.trusted -> "refused"
         [] setup.source = "proxy_protocol" /\ setup.trusted ->
                IF front.client THEN "announced" ELSE "refused"
         [] OTHER ->
                CASE r.forwarded.has = "none"       -> otherwise(setup.onMissing)
                  [] r.forwarded.has = "unreadable" -> otherwise(setup.onInvalid)
                  [] OTHER -> named

ResolveClient(r) == ResolveClientFrom(r, SelectForwardedClient(r.forwarded.chain))

-----------------------------------------------------------------------------
(* The session.                                                            *)

Setups == [source : Sources, trusted : BOOLEAN, tls : BOOLEAN,
           onMissing : {"reject", "use_peer"}, onInvalid : {"reject", "use_peer"},
           proxy : 0..MaxProxy + 1, proxyGood : BOOLEAN, requests : Seq(HttpRequest)]

DohTypeOK ==
    /\ setup \in Setups
    /\ wire \in [taken : Nat, drained : Nat, open : BOOLEAN]
    /\ front \in [tls : BOOLEAN, proxyDone : BOOLEAN, client : BOOLEAN, early : Nat]
    /\ \A i \in 1..Len(events) : events[i].is \in {"request", "error"}

\* A new session; `s` is the endpoint's settings and the client's input.
DohStart(s) ==
    /\ setup = s
    /\ wire = [taken |-> 0, drained |-> 0, open |-> TRUE]
    /\ front = [tls |-> FALSE, proxyDone |-> s.source # "proxy_protocol",
                client |-> FALSE, early |-> 0]
    /\ events = <<>>

Buffered == wire.taken - wire.drained

\* The bytes the client sends in all.
Total == FoldSeq(LAMBDA r, sum : Size(r) + sum, setup.proxy, setup.requests)

\* The request whose bytes are at the front of the buffer.
Current == setup.requests[Len(events) + 1]
HasCurrent == Len(events) < Len(setup.requests)

\* An HttpError that closes: the buffer is cleared.
FailWith(error) ==
    /\ events' = Append(events, [is |-> "error", error |-> error])
    /\ wire' = [wire EXCEPT !.drained = wire.taken, !.open = FALSE]
    /\ UNCHANGED <<setup, front>>

RejectPeer ==
    /\ wire.open
    /\ ~PeerIsTrusted
    /\ FailWith("Malformed")

Trusting == wire.open /\ PeerIsTrusted

\* The material is handed to the connection, which reads the client's TLS
\* messages itself: what is already in the buffer is not seen by it.
StartTls ==
    /\ Trusting
    /\ setup.tls /\ ~front.tls /\ front.proxyDone
    /\ front' = [front EXCEPT !.tls = TRUE, !.early = Buffered]
    /\ UNCHANGED <<setup, wire, events>>

TlsFails ==
    /\ Trusting
    /\ setup.tls /\ ~front.tls /\ front.proxyDone
    /\ wire' = [wire EXCEPT !.open = FALSE]
    /\ UNCHANGED <<setup, front, events>>

InFront == Trusting /\ ~front.proxyDone

\* parse_proxy_header over the buffered bytes.
ProxyComplete ==
    /\ InFront
    /\ setup.proxyGood /\ setup.proxy <= MaxProxy
    /\ Buffered >= setup.proxy
    /\ wire' = [wire EXCEPT !.drained = @ + setup.proxy]
    /\ front' = [front EXCEPT !.proxyDone = TRUE, !.client = TRUE]
    /\ UNCHANGED <<setup, events>>

\* A header that is wrong is refused when it is complete at the latest, one
\* that is too long when its length is known.
ProxyRejected ==
    /\ InFront
    /\ \/ ~setup.proxyGood /\ Buffered > 0
       \/ setup.proxy > MaxProxy /\ Buffered > 0
    /\ FailWith("Malformed")

\* The header is read byte by byte.
ProxyReadLimit == 1

ProxyRead ==
    /\ InFront
    /\ Buffered < setup.proxy
    /\ Buffered < MaxProxy
    /\ \E n \in 1..ProxyReadLimit :
         /\ wire.taken + n <= Total
         /\ Buffered + n <= MaxProxy
         /\ wire' = [wire EXCEPT !.taken = @ + n]
    /\ UNCHANGED <<setup, front, events>>

ProxyEof ==
    /\ InFront
    /\ Buffered < setup.proxy
    /\ FailWith("Malformed")

Serving == Trusting /\ front.proxyDone /\ (setup.tls => front.tls)

\* Where the current request starts in what the client sends.
StartOfCurrent == FoldSeq(LAMBDA r, sum : Size(r) + sum, setup.proxy,
                          SubSeq(setup.requests, 1, Len(events)))

\* Bytes that do not start at a request are no request line.
Parsed ==
    CASE Buffered = 0 \/ ~HasCurrent -> [is |-> "more"]
      [] Buffered > 0 /\ HasCurrent /\ wire.drained # StartOfCurrent ->
             [is |-> "error", error |-> "Malformed"]
      [] OTHER -> TryParseRequest(Current, Buffered)

Consumed(r) == Size(r)

\* A complete request: unknown route, refused client, or a request for the
\* core.  Its bytes leave the buffer first.
ReturnRequest ==
    /\ Serving
    /\ Parsed.is = "request"
    /\ LET r == Current
           client == ResolveClient(r)
           event == CASE ~r.route -> [is |-> "error", error |-> "NotFound"]
                      [] r.route /\ client = "refused" ->
                             [is |-> "error", error |-> "Malformed"]
                      [] OTHER -> [is |-> "request", client |-> client]
           close == IF r.route /\ client = "refused" THEN TRUE ELSE r.close
       IN /\ events' = Append(events, event)
          /\ wire' = [wire EXCEPT !.drained = @ + Consumed(r), !.open = ~close]
    /\ UNCHANGED <<setup, front>>

ReturnError ==
    /\ Serving
    /\ Parsed.is = "error"
    /\ FailWith(Parsed.error)

ReadChunk ==
    /\ Serving
    /\ Parsed.is = "more"
    /\ Buffered < MaxBuffer
    /\ \E n \in 1..MaxChunk :
         /\ wire.taken + n <= Total
         /\ Buffered + n <= MaxBuffer
         /\ wire' = [wire EXCEPT !.taken = @ + n]
    /\ UNCHANGED <<setup, front, events>>

\* The buffer is full, or the chunk does not fit any more.
BufferFull ==
    /\ Serving
    /\ Parsed.is = "more"
    /\ \/ Buffered >= MaxBuffer
       \/ \E n \in 1..MaxChunk : wire.taken + n <= Total /\ Buffered + n > MaxBuffer
    /\ FailWith("PayloadTooLarge")

\* End of the stream between requests is clean, inside one it is an error;
\* both, like a read error or the read deadline, end the session.
EndOfStream ==
    /\ Serving
    /\ Parsed.is = "more"
    /\ wire' = [wire EXCEPT !.open = FALSE]
    /\ UNCHANGED <<setup, front, events>>

DohNext ==
    \/ RejectPeer \/ StartTls \/ TlsFails
    \/ ProxyComplete \/ ProxyRejected \/ ProxyRead \/ ProxyEof
    \/ ReturnRequest \/ ReturnError \/ ReadChunk \/ BufferFull \/ EndOfStream

-----------------------------------------------------------------------------
(* Properties.                                                             *)

\* A request that stays clear of the limits however its bytes are cut.
Comfortable(r) == r.head + Terminator <= MaxHead /\ Size(r) + MaxChunk <= MaxBuffer

\* The address next to our own proxies, seen from the server; a chain of
\* nothing but proxies counts from its far end.
NearestUntrusted(chain) ==
    LET open == {i \in 1..Len(chain) : chain[i] \notin TrustedProxies}
    IN chain[IF open = {} THEN 1 ELSE CHOOSE i \in open : \A j \in open : j <= i]

Verdict(r) ==
    LET client == ResolveClientFrom(r, NearestUntrusted(r.forwarded.chain))
    IN CASE r.fault # "none" -> [is |-> "error", error |-> HttpError(r.fault)]
         [] r.fault = "none" /\ ~r.route -> [is |-> "error", error |-> "NotFound"]
         [] r.fault = "none" /\ r.route /\ client = "refused" ->
                [is |-> "error", error |-> "Malformed"]
         [] OTHER -> [is |-> "request", client |-> client]

(* The i-th event of a session is the verdict on the i-th request alone,   *)
(* its client the nearest untrusted address: where the chunks were cut and *)
(* what was pipelined behind it makes no difference, as long as the        *)
(* requests stay clear of the size limits.                                 *)
EventIsVerdict ==
    front.proxyDone /\ PeerIsTrusted /\ (\A i \in 1..Len(setup.requests) :
                                           Comfortable(setup.requests[i])) =>
        \A i \in 1..Len(events) : events[i] = Verdict(setup.requests[i])

(* The bytes behind a PROXY header belong to the TLS handshake: not one of *)
(* them is in the session's buffer when the connection is upgraded.        *)
TlsSeesItsFirstByte == front.early = 0

-----------------------------------------------------------------------------
(* Routes.  A path is the sequence of its segments; a template is a path   *)
(* in which at most one segment is the client id.                          *)

IdSegment == "{client_id}"

ValidTemplate(t) ==
    /\ t # <<>>
    /\ Cardinality({i \in 1..Len(t) : t[i] = IdSegment}) <= 1

IdAt(t) == IF \E i \in 1..Len(t) : t[i] = IdSegment
           THEN CHOOSE i \in 1..Len(t) : t[i] = IdSegment ELSE 0

\* A template that ends in the id also accepts the path without it; the
\* path without the only segment is "/".
BarePath(t) ==
    IF IdAt(t) # Len(t) THEN <<>>
    ELSE IF Len(t) = 1 THEN <<"">> ELSE Front(t)

\* DohPathPattern::matches.
Matches(t, path) ==
    IF IdAt(t) = 0 THEN path = t
    ELSE \/ BarePath(t) # <<>> /\ path = BarePath(t)
         \/ /\ Len(path) = Len(t)
            /\ \A i \in 1..Len(t) : IF i = IdAt(t) THEN path[i] # "" ELSE path[i] = t[i]

PathVariants(t) == {t} \cup IF BarePath(t) = <<>> THEN {} ELSE {BarePath(t)}

VariantsOverlap(left, right) ==
    /\ Len(left) = Len(right)
    /\ \A i \in 1..Len(left) :
         \/ left[i] = IdSegment /\ right[i] = IdSegment
         \/ left[i] = IdSegment /\ right[i] # ""
         \/ right[i] = IdSegment /\ left[i] # ""
         \/ left[i] = right[i]

Overlaps(s, t) == \E l \in PathVariants(s), r \in PathVariants(t) : VariantsOverlap(l, r)

Segments == {"a", "b", ""}
Paths == UNION {[1..n -> Segments] : n \in 1..3}
Templates == {t \in UNION {[1..n -> Segments \cup {IdSegment}] : n \in 1..3} : ValidTemplate(t)}

(* Two routes are reported as overlapping exactly when some path would     *)
(* match both of them, so that a configuration that is accepted never      *)
(* leaves the choice of a strategy to the order of its routes.             *)
OverlapIsExact(s, t) ==
    Overlaps(s, t) <=> \E path \in Paths : Matches(s, path) /\ Matches(t, path)
=============================================================================
