--------------------------- MODULE UpstreamClient ---------------------------
(***************************************************************************)
(* One call of the inference client, by ParseDocument with a document or   *)
(* by TestConnection without: the allow list, the requests of a redirect   *)
(* chain and what each of them carries, and the error the caller gets.     *)
(*                                                                         *)
(* The chain is followed by net/http, which asks CheckRedirect before each *)
(* further request.  What it sends again on a redirect is external to the  *)
(* code; what it may send at all is the code's.                            *)
(***************************************************************************)
EXTENDS Integers, FiniteSets

CONSTANTS
    Hosts,          \* host names
    Ports,          \* port numbers a URL or an allow list entry can name
    MaxRedirects,   \* maxUpstreamRedirects
    MaxBody         \* maxUpstreamResponseBytes

NoPort == 0

ASSUME ClientAssumption ==
    /\ Ports \subseteq Nat \ {NoPort}
    /\ MaxRedirects \in Nat \ {0}
    /\ MaxBody \in Nat

VARIABLES
    conf,       \* the configuration, fixed while the process runs
    purpose,    \* "parse" a document, or "test" the connection
    phase,      \* where the call is
    hops,       \* how many requests have been sent
    here,       \* where the last request went, or the next is to go
    document,   \* that request carries the document
    token,      \* that request carries the token
    got,        \* the response that ended the chain
    outcome     \* what the caller gets

callVars == <<conf, purpose, phase, hops, here, document, token, got, outcome>>

\* "http" is any scheme but https.
Target == [scheme : {"http", "https"}, host : Hosts, port : Ports \cup {NoPort}]

\* An entry of PII_MASKER_ALLOW_HOSTS: a host, or a host and a port.
Entry == [host : Hosts, port : Ports \cup {NoPort}]

Configuration ==
    [base : Target, entries : SUBSET Entry, auth : {"bearer", "x-api-key"}]

\* 200 is any status below 400 that is no redirect net/http follows, 409 and
\* 503 are any other error.
Status == {200, 400, 401, 403, 404, 409, 413, 415, 422, 429, 500, 503}

\* A body of some size, of which reading may break off.
Response == [status : Status, size : 0 .. MaxBody + 2,
             readable : BOOLEAN, json : BOOLEAN]

NoResponse == [status |-> 200, size |-> 0, readable |-> FALSE, json |-> FALSE]

Error(code, retryable) == [code |-> code, retryable |-> retryable]
Pending == Error("none", FALSE)
Success == Error("ok", FALSE)

Phase == {"idle", "check", "send", "await", "done"}

ClientTypeOK ==
    /\ conf \in Configuration
    /\ purpose \in {"parse", "test"}
    /\ phase \in Phase
    /\ hops \in 0 .. MaxRedirects
    /\ here \in Target
    /\ document \in BOOLEAN /\ token \in BOOLEAN
    /\ got \in Response
    /\ outcome.retryable \in BOOLEAN

Idle(c, p) ==
    /\ conf = c
    /\ purpose = p
    /\ phase = "idle"
    /\ hops = 0
    /\ here = c.base
    /\ document = FALSE /\ token = FALSE
    /\ got = NoResponse
    /\ outcome = Pending

-----------------------------------------------------------------------------
(* Where a request may go.                                                 *)

\* normalizeAllowHosts and allowedHosts: without entries, the host of the
\* base URL on any port.
Allowed(c) ==
    IF c.entries # {} THEN c.entries
    ELSE {[host |-> c.base.host, port |-> NoPort]}

\* An entry without a port stands for the host on every port, one with a
\* port only for URLs that name that port.
HostAllowed(t, c) == [host |-> t.host, port |-> t.port] \in Allowed(c)
                     \/ [host |-> t.host, port |-> NoPort] \in Allowed(c)

\* Wrong on purpose: a downgrade is only refused when the host changes too.
RefusalOfStrangers(t) ==
    IF hops >= MaxRedirects THEN "too_many"
    ELSE IF conf.base.scheme = "https" /\ t.scheme # "https" /\ t.host # here.host
      THEN "downgrade"
    ELSE IF ~HostAllowed(t, conf) THEN "blocked"
    ELSE "none"

\* Wrong on purpose: the host that redirects is checked, not the target.
RefusalOfSource(t) ==
    IF hops >= MaxRedirects THEN "too_many"
    ELSE IF conf.base.scheme = "https" /\ t.scheme # "https" THEN "downgrade"
    ELSE IF ~HostAllowed(here, conf) THEN "blocked"
    ELSE "none"

\* CheckRedirect: why the redirect to t is not followed.  The first request
\* went to the base URL.
Refusal(t) ==
    IF hops >= MaxRedirects THEN "too_many"
    ELSE IF conf.base.scheme = "https" /\ t.scheme # "https" THEN "downgrade"
    ELSE IF ~HostAllowed(t, conf) THEN "blocked"
    ELSE "none"

-----------------------------------------------------------------------------
(* What went wrong, for the caller.                                        *)

ClassifyRequestError(cause) ==
    CASE cause = "blocked" -> Error("upstream_host_not_allowed", FALSE)
      [] cause = "timeout" -> Error("network_timeout", TRUE)
      [] cause = "dns" -> Error("dns_error", FALSE)
      [] cause = "tls_hostname" -> Error("tls_hostname_error", FALSE)
      [] cause = "tls_ca" -> Error("tls_untrusted_ca", FALSE)
      [] OTHER -> Error("network_error", TRUE)

ClassifyHTTPError(status) ==
    CASE status = 400 -> Error("bad_request", FALSE)
      [] status \in {401, 403} -> Error("auth_failed", FALSE)
      [] status = 404 -> Error("not_found", FALSE)
      [] status = 429 -> Error("rate_limited", TRUE)
      [] status = 413 -> Error("file_too_large", FALSE)
      [] status = 415 -> Error("unsupported_media_type", FALSE)
      [] status >= 500 -> Error("server_error", TRUE)
      [] OTHER -> Error("unexpected_status", FALSE)

\* One byte more than the cap, so that a body that fills it is told from one
\* that was cut short.
BytesRead(r) == IF r.size > MaxBody + 1 THEN MaxBody + 1 ELSE r.size

\* A JSON text that was cut short is none.
Decodes(r) == r.json /\ BytesRead(r) = r.size

\* performParseRequest, once it has a response.
ParseOutcome(r) ==
    IF ~r.readable THEN Error("response_read_failed", TRUE)
    ELSE IF r.status >= 400 THEN ClassifyHTTPError(r.status)
    ELSE IF BytesRead(r) > MaxBody THEN Error("response_too_large", FALSE)
    ELSE IF ~Decodes(r) THEN Error("decode_failed", FALSE)
    ELSE Success

\* TestConnection sends no document, so a request that is refused for that
\* shows that the endpoint is there.
TestOutcome(r) ==
    IF r.status >= 400 /\ r.status \notin {400, 415, 422}
      THEN ClassifyHTTPError(r.status)
      ELSE Success

-----------------------------------------------------------------------------
(* The call.                                                               *)

GoTo(p) ==
    /\ phase' = p
    /\ UNCHANGED <<conf, purpose, hops, here, document, token, got, outcome>>

EndCall(result) ==
    /\ phase' = "done"
    /\ outcome' = result
    /\ UNCHANGED <<conf, purpose, hops, here, document, token, got>>

BeginCall == phase = "idle" /\ GoTo("check")

\* checkHostAllowed, before the body is built.
CheckHost ==
    /\ phase = "check"
    /\ IF HostAllowed(here, conf)
         THEN /\ phase' = "send"
              /\ document' = (purpose = "parse")
              /\ token' = TRUE
              /\ UNCHANGED <<conf, purpose, hops, here, got, outcome>>
         ELSE EndCall(ClassifyRequestError("blocked"))

Send ==
    /\ phase = "send"
    /\ phase' = "await"
    /\ hops' = hops + 1
    /\ UNCHANGED <<conf, purpose, here, document, token, got, outcome>>

\* The connection cannot be made, or breaks; the client's timeout passes;
\* the caller gives up.
TransportFails ==
    /\ \/ phase = "send"
          /\ \E cause \in {"dns", "tls_hostname", "tls_ca"} :
                EndCall(ClassifyRequestError(cause))
       \/ phase \in {"send", "await"}
          /\ \E cause \in {"timeout", "broken", "cancelled"} :
                EndCall(ClassifyRequestError(cause))

\* What net/http sends again: the body on 307 and 308 as long as no earlier
\* redirect has dropped it, the Authorization header as long as the host is
\* the same, any other header always.
Redirect(kept, t) ==
    /\ phase = "await"
    /\ IF Refusal(t) # "none"
         THEN EndCall(ClassifyRequestError(Refusal(t)))
         ELSE /\ phase' = "send"
              /\ here' = t
              /\ document' = (document /\ kept)
              /\ token' = (token /\ (conf.auth = "x-api-key" \/ t.host = conf.base.host))
              /\ UNCHANGED <<conf, purpose, hops, got, outcome>>

Answered(r) ==
    /\ phase = "await"
    /\ phase' = "done"
    /\ got' = r
    /\ outcome' = IF purpose = "parse" THEN ParseOutcome(r) ELSE TestOutcome(r)
    /\ UNCHANGED <<conf, purpose, hops, here, document, token>>

\* The next call starts from nothing but the configuration.
Reset ==
    /\ phase' = "idle"
    /\ hops' = 0
    /\ here' = conf.base
    /\ document' = FALSE /\ token' = FALSE
    /\ got' = NoResponse
    /\ outcome' = Pending
    /\ UNCHANGED <<conf, purpose>>

CallStep(responses) ==
    \/ CheckHost \/ Send \/ TransportFails
    \/ \E kept \in BOOLEAN, t \in Target : Redirect(kept, t)
    \/ \E r \in responses : Answered(r)

-----------------------------------------------------------------------------
(* Properties.                                                             *)

\* README: requests to hosts off the list are blocked before they are sent,
\* and neither the document nor the token follows a redirect to one.  An
\* entry with a port allows that port only, and an empty list still allows
\* no host but the configured one (hostAllowed, CheckRedirect).
AllowedHostsOnly ==
    hops > 0 =>
        \/ conf.entries = {} /\ here.host = conf.base.host
        \/ \E e \in conf.entries :
              e.host = here.host /\ (e.port = NoPort \/ e.port = here.port)

\* README: a call that began on https never goes on in clear text, on the
\* same host or another, however long the chain (checkRedirectScheme).
NeverInTheClear ==
    hops > 0 /\ conf.base.scheme = "https" => here.scheme = "https"

\* A body past the cap has an error of its own: it is neither taken for an
\* answer nor for malformed output, and an error status outranks it (the
\* comments at maxUpstreamResponseBytes and in performParseRequest).
CutShortIsNamed ==
    (phase = "done" /\ purpose = "parse" /\ got.readable) =>
        /\ outcome.code \in {"ok", "decode_failed"} => got.size <= MaxBody
        /\ outcome.code = "response_too_large" =>
              got.size > MaxBody /\ got.status < 400

=============================================================================
