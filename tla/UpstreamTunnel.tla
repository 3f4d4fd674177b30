---------------------------- MODULE UpstreamTunnel ----------------------------
(***************************************************************************)
(* One HTTP request of a DoH upstream, from its configuration to its       *)
(* response: where the name of the server is resolved, the transport that  *)
(* upstream/registry.rs builds, the SOCKS5 handshake over a byte stream    *)
(* (outbound.rs, socks5.rs) and the reading of a response with a           *)
(* Content-Length in arbitrary chunks (http.rs, reqwest_http.rs).          *)
(*                                                                         *)
(* Bytes are counted, not spelled out: the peer's side of the stream is a  *)
(* sequence of frames with their lengths, and the client consumes counts.  *)
(***************************************************************************)
EXTENDS Integers, Sequences, FiniteSets, FiniteSetsExt, SequencesExt

CONSTANTS MaxDomain,     \* longest domain in a reply of the proxy
          HeaderSize,    \* bytes of a HTTP header
          MaxBody,       \* MAX_DOH_RESPONSE_BODY_BYTES
          MaxExtra,      \* cap on what the peer sends beyond its body
          MaxChunk       \* READ_CHUNK_BYTES

VARIABLES conf,      \* the configuration of the upstream
          conn       \* the connection

tunnelVars == <<conf, conn>>

Configurations ==
    [https : BOOLEAN, proxy : {"none", "socks5", "socks5h", "missing"},
     bootstrap : BOOLEAN, connectIp : BOOLEAN, credentials : BOOLEAN]

(***************************************************************************)
(* Building the connector                                                  *)
(***************************************************************************)
\* from_resolved_with_outbounds: what the registry refuses.
Refused(c) == c.proxy = "missing" \/ (c.proxy = "socks5h" /\ c.bootstrap)

\* The transport it chooses.
Transport(c) ==
    CASE c.https -> "reqwest"
      [] c.proxy = "none" -> "direct"
      [] OTHER -> "socks"

\* OutboundProfile::target
NameResolution(c) ==
    CASE c.connectIp -> "bypass"
      [] c.proxy = "socks5h" -> "remote"
      [] OTHER -> "local"

\* proxy_remote_dns: the scheme of the proxy URL handed to the HTTP client.
ProxyRemoteDns(c) == c.proxy = "socks5h" /\ ~c.connectIp

\* Where each transport really has the name resolved: by the bootstrap
\* lookup, by the system, by the proxy, or not at all.
ResolvedBy(c) ==
    CASE c.connectIp /\ ~ProxyRemoteDns(c) -> "nobody"
      [] Transport(c) = "reqwest" /\ ProxyRemoteDns(c) -> "proxy"
      [] Transport(c) = "socks" /\ NameResolution(c) = "remote" -> "proxy"
      [] c.bootstrap -> "bootstrap"
      [] OTHER -> "system"

(***************************************************************************)
(* The SOCKS5 handshake                                                    *)
(***************************************************************************)
AddressLength(type, n) ==
    CASE type = "v4" -> 4
      [] type = "v6" -> 16
      [] type = "domain" -> 1 + n

\* Version, reply, reserved, type, address and port.
ConnectReply(type, n, ok) == [size |-> 4 + AddressLength(type, n) + 2, type |-> type, n |-> n, ok |-> ok]

\* read_connect_response: what is read after the first four bytes.
Remaining(type, n) ==
    CASE type = "v4" -> 6
      [] type = "v6" -> 18
      [] OTHER -> 1 + (n + 2)

\* sent counts the bytes of the proxy, taken those the client has read.
Start == [at |-> "start", sent |-> 0, taken |-> 0, reply |-> "none",
          body |-> 0, length |-> 0, total |-> 0, got |-> 0, header |-> 0]

Fail(c, why) == [c EXCEPT !.at = "failed", !.reply = why]

TunnelInit ==
    /\ conf \in Configurations
    /\ conn = Start

Connect ==
    /\ conn.at = "start"
    /\ conn' = IF Refused(conf) THEN Fail(conn, "config")
               ELSE [conn EXCEPT !.at = IF Transport(conf) = "socks" THEN "method" ELSE "request"]
    /\ UNCHANGED conf

\* The proxy picks a method; a method that was not offered ends the handshake.
ProxyMethod ==
    /\ conn.at = "method"
    /\ \E m \in {"none", "password", "refused"} :
          conn' = LET read == [conn EXCEPT !.sent = @ + 2, !.taken = @ + 2]
                  IN CASE m = "none" -> [read EXCEPT !.at = "connect"]
                       [] m = "password" /\ conf.credentials -> [read EXCEPT !.at = "auth"]
                       [] OTHER -> Fail(read, "proxy")
    /\ UNCHANGED conf

ProxyAuth ==
    /\ conn.at = "auth"
    /\ \E ok \in BOOLEAN :
          conn' = LET read == [conn EXCEPT !.sent = @ + 2, !.taken = @ + 2]
                  IN IF ok THEN [read EXCEPT !.at = "connect"]
                     ELSE Fail(read, "proxy")
    /\ UNCHANGED conf

\* parse_connect_response takes the frame that read_connect_response cut out.
ProxyConnect ==
    /\ conn.at = "connect"
    /\ \E type \in {"v4", "v6", "domain"}, n \in 1 .. MaxDomain, ok \in BOOLEAN :
          LET f == ConnectReply(type, n, ok)
              read == [conn EXCEPT !.sent = @ + f.size, !.taken = @ + 4 + Remaining(type, n)]
          IN conn' = IF ok THEN [read EXCEPT !.at = "request"] ELSE Fail(read, "proxy")
    /\ UNCHANGED conf

(***************************************************************************)
(* Reading the response                                                    *)
(***************************************************************************)
\* The peer answers with a header that announces length bytes and sends total.
\* A header without a length, with two or with a transfer encoding is refused
\* (parse_headers); this happens when the header is complete.
Respond ==
    /\ conn.at = "request"
    /\ \E length \in 0 .. MaxBody + 1, total \in 0 .. HeaderSize + MaxBody + MaxExtra, ok \in BOOLEAN :
          conn' = [conn EXCEPT !.at = "reading", !.length = length, !.total = total,
                               !.header = IF ok THEN 1 ELSE 0]
    /\ UNCHANGED conf

End == HeaderSize + conn.length

AtEof(got) == "protocol"

\* What a chunk that takes the buffer from `before' to `after' bytes leads to:
\* the header is parsed with the chunk that completes it; only the SOCKS
\* transport refuses bytes beyond the body in that same chunk, and both do in
\* a later one.
AfterChunk(before, after) ==
    CASE after < HeaderSize -> "more"
      [] before < HeaderSize /\ conn.header = 0 -> "protocol"
      [] before < HeaderSize /\ conn.length > MaxBody -> "exhausted"
      [] before < HeaderSize /\ Transport(conf) = "direct" /\ after > End -> "ok"
      [] after > End -> "protocol"
      [] after = End -> "ok"
      [] OTHER -> "more"

\* read_response, read_response_stream
ReadChunk(n) ==
    /\ conn.at = "reading"
    /\ Transport(conf) # "reqwest"
    /\ n <= conn.total - conn.got
    /\ LET after == conn.got + n
           next == AfterChunk(conn.got, after)
       IN conn' = CASE next = "more" -> [conn EXCEPT !.got = after]
                    [] next = "ok" -> [conn EXCEPT !.got = after, !.at = "done", !.reply = "ok",
                                                   !.body = Min({after, End}) - HeaderSize]
                    [] OTHER -> Fail([conn EXCEPT !.got = after], next)
    /\ UNCHANGED conf

ReadEof ==
    /\ conn.at = "reading"
    /\ Transport(conf) # "reqwest"
    /\ conn.got = conn.total
    /\ conn' = IF AtEof(conn.got) = "ok"
               THEN [conn EXCEPT !.at = "done", !.reply = "ok", !.body = conn.got - HeaderSize]
               ELSE Fail(conn, AtEof(conn.got))
    /\ UNCHANGED conf

\* With reqwest the framing is the client's; the announced length and the
\* bytes read are bounded.
ReqwestBody ==
    /\ conn.at = "reading"
    /\ Transport(conf) = "reqwest"
    /\ LET whole == conn.total >= End
       IN conn' = CASE conn.length > MaxBody -> Fail(conn, "exhausted")
                    [] conn.header = 0 \/ ~whole -> Fail(conn, "unavailable")
                    [] OTHER -> [conn EXCEPT !.at = "done", !.reply = "ok", !.body = conn.length,
                                             !.got = End]
    /\ UNCHANGED conf

\* Every wait ends with the deadline, a cancellation or a broken connection.
Interrupted ==
    /\ conn.at \in {"method", "auth", "connect", "request", "reading"}
    /\ conn' = Fail(conn, "interrupted")
    /\ UNCHANGED conf

TunnelNext ==
    \/ Connect \/ ProxyMethod \/ ProxyAuth \/ ProxyConnect \/ Respond
    \/ \E n \in 1 .. MaxChunk : ReadChunk(n)
    \/ ReadEof \/ ReqwestBody \/ Interrupted

TunnelSpec == TunnelInit /\ [][TunnelNext]_tunnelVars

-----------------------------------------------------------------------------
\* Every variable has its type.
TunnelTypeOK ==
    /\ conf \in Configurations
    /\ conn.at \in {"start", "method", "auth", "connect", "request", "reading", "done", "failed"}
    /\ conn.got \in 0 .. conn.total

\* The name of a server is resolved where its configuration says, by either
\* transport: never locally when the proxy is to do it, by nobody when the
\* address is fixed (OutboundProfile::target, proxy_remote_dns,
\* request_addresses).
NameIsResolvedInPlace ==
    ~Refused(conf) =>
        ResolvedBy(conf) = (CASE conf.connectIp -> "nobody"
                              [] conf.proxy = "socks5h" -> "proxy"
                              [] conf.bootstrap -> "bootstrap"
                              [] OTHER -> "system")

\* The HTTP request starts exactly where the handshake ended: the client has
\* read every byte the proxy sent for it and none of the tunnel's
\* (read_connect_response, parse_connect_response).
TunnelIsAligned ==
    conn.at \in {"request", "reading", "done"} => conn.taken = conn.sent

\* A response is delivered with exactly the announced number of bytes, which
\* the peer has really sent and the DNS limit allows, however it was cut into
\* chunks; a peer that stops early never yields a shorter body
\* (read_response, read_response_stream).
BodyIsWhole ==
    conn.at = "done" =>
        /\ conn.body = conn.length
        /\ conn.length <= MaxBody
        /\ conn.total >= End
=============================================================================
