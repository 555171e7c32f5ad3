--------------------------- MODULE Authentication ---------------------------
(***************************************************************************)
(* Logging in to a PostgreSQL server: pgexporter_server_authenticate and   *)
(* the server it talks to. TLS is off, tried or required; the server asks  *)
(* for nothing, for the password or for SCRAM-SHA-256, or for something    *)
(* pgexporter does not know. Cryptography is symbolic: a key is made of    *)
(* what it is derived from, and equal only to one derived from the same.   *)
(***************************************************************************)
EXTENDS Naturals, Sequences

CONSTANTS
    Setups,           \* the server's and pgexporter's configurations
    MaxIterations     \* SCRAM_MAX_ITERATIONS

VARIABLES
    login,            \* the configuration
    apc, spc,         \* where pgexporter and the server are
    c_ssl, s_ssl,     \* whether each end encrypts
    up, down,         \* messages to the server and from it
    socket,           \* the descriptor is open
    ssl, fd,          \* what the caller is given
    result,           \* AUTH_SUCCESS, AUTH_BAD_PASSWORD, AUTH_ERROR
    admitted          \* the server let the user in

vars == << login, apc, spc, c_ssl, s_ssl, up, down, socket, ssl, fd, result, admitted >>

given == << ssl, fd >>

----------------------------------------------------------------------------
(* Messages and keys.                                                      *)

NotYet == "not yet"

Msg(t, v, e) == [tag |-> t, val |-> v, tls |-> e]

\* The authentication requests PostgreSQL knows, and an AuthenticationOk with an error right
\* behind it; get_auth_type accepts three.
Method    == {"trust", "password", "scram", "md5", "gss", "ok then error"}
Supported == {"trust", "password", "scram"}

\* scram_parse_iterations.
IterationsValid(i) == 0 < i /\ i <= MaxIterations

\* sasl_prep: control characters, broken UTF-8 and overlong passwords are refused.
PasswordValid(p) == p # "unprintable"

\* salted_password, stored_key and the messages both sides have seen.
Salted(p, s)             == << "salted", p, s.salt, s.iterations >>
AuthMessage(first, s)    == << first, s, "c=biws" >>
Proof(p, first, s)       == << "proof", Salted(p, s), AuthMessage(first, s) >>
Signature(p, first, s)   == << "signature", Salted(p, s), AuthMessage(first, s) >>

\* The answer to the first message of the client: nonce, salt and iterations, or an error.
ServerFirst == [nonce |-> login.nonce, salt |-> "salt", iterations |-> login.iterations]

Send(t, v)  == up' = Append(up, Msg(t, v, c_ssl))
Reply(t, v) == down' = Append(down, Msg(t, v, s_ssl))

Has(t)       == down # << >> /\ Head(down).tag = t /\ Head(down).tls = c_ssl
Asked(t)     == up # << >> /\ Head(up).tag = t /\ Head(up).tls = s_ssl

Init ==
    /\ login \in Setups
    /\ apc = "connect" /\ spc = "listening"
    /\ c_ssl = FALSE /\ s_ssl = FALSE
    /\ up = << >> /\ down = << >>
    /\ socket = FALSE
    /\ ssl = FALSE /\ fd = FALSE
    /\ result = NotYet
    /\ admitted = FALSE

----------------------------------------------------------------------------
(* pgexporter.                                                             *)

\* Fault: a login that failed keeps its connection.
EndKeepsOpen(r) ==
    /\ result' = r
    /\ apc' = "over"
    /\ ssl' = (r = "success" /\ c_ssl) /\ fd' = (r = "success")
    /\ UNCHANGED socket

\* The three ends of pgexporter_server_authenticate: the caller gets the connection, or
\* it is closed.
End(r) ==
    /\ result' = r
    /\ apc' = "over"
    /\ ssl' = (r = "success" /\ c_ssl) /\ fd' = (r = "success")
    /\ socket' = (r = "success")

Go(at) == apc' = at /\ UNCHANGED << socket, result, given >>

Take == down' = Tail(down)

\* Connect; tls = on needs a CA file; unless TLS is off it is asked for.
AConnect ==
    /\ apc = "connect"
    /\ IF login.tls = "on" /\ ~ login.ca
         THEN End("error") /\ UNCHANGED << up, c_ssl >>
         ELSE /\ socket' = TRUE
              /\ IF login.tls = "off" THEN apc' = "startup" /\ UNCHANGED up
                   ELSE apc' = "ssl" /\ Send("SSLRequest", NotYet)
              /\ UNCHANGED << c_ssl, given, result >>
    /\ UNCHANGED << login, spc, s_ssl, down, admitted >>

AConnectFails ==
    /\ apc = "connect"
    /\ End("error")
    /\ UNCHANGED << login, spc, c_ssl, s_ssl, up, down, admitted >>

\* Fault: tls = on falls back as tls = try does.
ASslFallsBack ==
    /\ apc = "ssl"
    /\ down # << >>
    /\ Take
    /\ IF Head(down).tag = "S" THEN Go("handshake") ELSE Go("startup")
    /\ UNCHANGED << login, spc, c_ssl, s_ssl, up, admitted >>

\* The byte the server answers with: tls = on insists, tls = try falls back.
ASsl ==
    /\ apc = "ssl"
    /\ down # << >>
    /\ Take
    /\ IF Head(down).tag = "S" THEN Go("handshake")
         ELSE IF login.tls = "on" THEN End("error") ELSE Go("startup")
    /\ UNCHANGED << login, spc, c_ssl, s_ssl, up, admitted >>

\* create_ssl_client, SSL_connect: with a CA file the certificate must be signed by it.
AHandshake ==
    /\ apc = "handshake"
    /\ IF login.ca => login.genuine
         THEN c_ssl' = TRUE /\ Go("startup")
         ELSE End("error") /\ UNCHANGED c_ssl
    /\ UNCHANGED << login, spc, s_ssl, up, down, admitted >>

AStartup ==
    /\ apc = "startup"
    /\ Send("startup", "user and database")
    /\ Go("method")
    /\ UNCHANGED << login, spc, c_ssl, s_ssl, down, admitted >>

\* Fault: what is not asked for in one of the three ways counts as nothing asked for.
AMethodTrustsUnknown ==
    /\ apc = "method"
    /\ Has("auth")
    /\ Take
    /\ IF Head(down).val \in {"password", "scram"} THEN Go(Head(down).val) ELSE End("success")
    /\ UNCHANGED << login, spc, c_ssl, s_ssl, up, admitted >>

\* Fault: a request that is not understood is skipped.
AMethodSkipsUnknown ==
    /\ apc = "method"
    /\ Has("auth")
    /\ Take
    /\ LET m == Head(down).val
       IN  CASE m = "trust"                -> End("success")
             [] m \in {"password", "scram"} -> Go(m)
             [] OTHER                      -> Go("method")
    /\ UNCHANGED << login, spc, c_ssl, s_ssl, up, admitted >>

\* get_auth_type: what is not one of the three ends the login.
AMethod ==
    /\ apc = "method"
    /\ Has("auth")
    /\ Take
    /\ LET m == Head(down).val
       IN  CASE m \notin Supported        -> End("error")
             [] m = "trust"                -> End("success")
             [] m \in {"password", "scram"} -> Go(m)
    /\ UNCHANGED << login, spc, c_ssl, s_ssl, up, admitted >>

\* Anything else the server may say: an error response, noise of another encryption.
AOther(t) ==
    /\ down # << >>
    /\ ~ Has(t)
    /\ Take
    /\ End(IF apc = "password sent" THEN "bad password" ELSE "error")
    /\ UNCHANGED << login, spc, c_ssl, s_ssl, up, admitted >>

\* server_password.
APassword ==
    /\ apc = "password"
    /\ Send("password", login.password)
    /\ Go("password sent")
    /\ UNCHANGED << login, spc, c_ssl, s_ssl, down, admitted >>

APasswordOk ==
    /\ apc = "password sent"
    /\ Has("ok")
    /\ Take
    /\ End("success")
    /\ UNCHANGED << login, spc, c_ssl, s_ssl, up, admitted >>

\* server_scram256.
AFirst ==
    /\ apc = "scram"
    /\ IF PasswordValid(login.password)
         THEN Send("first", "client nonce") /\ Go("continue")
         ELSE End("error") /\ UNCHANGED up
    /\ UNCHANGED << login, spc, c_ssl, s_ssl, down, admitted >>

\* get_scram_attribute, scram_parse_iterations, client_proof.
AProof ==
    /\ apc = "continue"
    /\ Has("continue")
    /\ Take
    /\ LET s == Head(down).val
       IN  IF IterationsValid(s.iterations)
             THEN Send("proof", Proof(login.password, "client nonce", s)) /\ Go("final")
             ELSE End("error") /\ UNCHANGED up
    /\ UNCHANGED << login, spc, c_ssl, s_ssl, admitted >>

\* Fault: the server's signature is not looked at.
AFinalUnchecked ==
    /\ apc = "final"
    /\ Has("final")
    /\ Take
    /\ End("success")
    /\ UNCHANGED << login, spc, c_ssl, s_ssl, up, admitted >>

\* server_signature: the server must know the password too.
AFinal ==
    /\ apc = "final"
    /\ Has("final")
    /\ Take
    /\ End(IF Head(down).val = Signature(login.password, "client nonce", ServerFirst)
             THEN "success" ELSE "bad password")
    /\ UNCHANGED << login, spc, c_ssl, s_ssl, up, admitted >>

\* The connection ends while an answer is awaited.
AEof ==
    /\ apc \in {"ssl", "method", "continue", "final"}
    /\ down = << >>
    /\ spc = "closed"
    /\ End("error")
    /\ UNCHANGED << login, spc, c_ssl, s_ssl, up, down, admitted >>

\* server_password uses the message before it looks at the status of the read: the
\* process ends, and its descriptors with it.
ACrash ==
    /\ apc = "password sent"
    /\ down = << >>
    /\ spc = "closed"
    /\ apc' = "crashed"
    /\ socket' = FALSE
    /\ UNCHANGED << login, spc, c_ssl, s_ssl, up, down, given, result, admitted >>

Waiting == [method |-> "auth", continue |-> "continue", final |-> "final"]

Client ==
    \/ AConnect \/ ASsl \/ AHandshake \/ AStartup \/ AMethod
    \/ APassword \/ APasswordOk \/ AFirst \/ AProof \/ AFinal \/ AEof \/ ACrash
    \/ apc \in DOMAIN Waiting /\ AOther(Waiting[apc])
    \/ apc = "password sent" /\ AOther("ok")

----------------------------------------------------------------------------
(* The server, as far as pgexporter can tell.                              *)

SGo(at) == spc' = at
SLeave  == UNCHANGED << login, apc, c_ssl, socket, given, result >>

SSsl ==
    /\ spc = "listening" /\ Asked("SSLRequest")
    /\ up' = Tail(up)
    /\ down' = Append(down, Msg(IF login.server_tls THEN "S" ELSE "N", NotYet, FALSE))
    /\ s_ssl' = login.server_tls
    /\ SLeave /\ UNCHANGED << spc, admitted >>

SStartup ==
    /\ spc = "listening" /\ Asked("startup")
    /\ up' = Tail(up)
    /\ Reply("auth", login.method)
    /\ admitted' = (login.method = "trust")
    /\ SGo(IF login.method = "trust" THEN "serving" ELSE login.method)
    /\ SLeave /\ UNCHANGED s_ssl

SPassword ==
    /\ spc = "password" /\ Asked("password")
    /\ up' = Tail(up)
    /\ admitted' = (Head(up).val = login.user_password)
    /\ Reply(IF admitted' THEN "ok" ELSE "error", NotYet)
    /\ SGo(IF admitted' THEN "serving" ELSE "closed")
    /\ SLeave /\ UNCHANGED s_ssl

SFirst ==
    /\ spc = "scram" /\ Asked("first")
    /\ up' = Tail(up)
    /\ Reply("continue", ServerFirst)
    /\ SGo("proof")
    /\ SLeave /\ UNCHANGED << s_ssl, admitted >>

\* A server that knows the password; an impostor lets anybody in.
SProof ==
    /\ spc = "proof" /\ Asked("proof")
    /\ up' = Tail(up)
    /\ admitted' = (Head(up).val = Proof(login.user_password, "client nonce", ServerFirst)
                      \/ login.impostor)
    /\ IF admitted' THEN Reply("final", Signature(login.user_password, "client nonce", ServerFirst))
                    ELSE Reply("error", NotYet)
    /\ SGo(IF admitted' THEN "serving" ELSE "closed")
    /\ SLeave /\ UNCHANGED s_ssl

\* An error, or the end of the connection, at any moment.
SFails ==
    /\ spc \notin {"closed", "serving"}
    /\ \/ Reply("error", NotYet) /\ apc # "connect"
       \/ UNCHANGED down
    /\ SGo("closed")
    /\ SLeave /\ UNCHANGED << up, s_ssl, admitted >>

Server == SSsl \/ SStartup \/ SPassword \/ SFirst \/ SProof

Next == Client \/ AConnectFails \/ Server \/ SFails

\* pgexporter has no timeout here: it goes on when the server does.
Spec == Init /\ [][Next]_vars /\ WF_vars(Client) /\ WF_vars(Server)

----------------------------------------------------------------------------

TypeOK ==
    /\ apc \in {"connect", "ssl", "handshake", "startup", "method", "password", "password sent",
                "scram", "continue", "final", "over", "crashed"}
    /\ spc \in {"listening", "password", "scram", "md5", "gss", "ok then error", "proof", "serving",
                "closed"}
    /\ \A b \in {c_ssl, s_ssl, socket, ssl, fd, admitted} : b \in BOOLEAN
    /\ result \in {NotYet, "success", "bad password", "error"}

\* With tls = on nothing about the user crosses the wire in clear, and only a server
\* with a certificate of the CA gets to see it, whatever the server answers when.
TlsRequired ==
    login.tls = "on" =>
        /\ \A i \in DOMAIN up : up[i].tag # "SSLRequest" => up[i].tls
        /\ result = "success" => ssl /\ login.genuine

\* A login with SCRAM succeeds only with a server that knows the password itself, also
\* when the server would let anybody in.
ServerKnowsPassword ==
    result = "success" /\ login.method = "scram" => login.user_password = login.password

\* A login that succeeded is one the server agrees with: it has let the user in and both
\* ends encrypt or neither does.
SuccessIsMutual == result = "success" => admitted /\ c_ssl = s_ssl

\* A login that failed leaves nothing open and gives nothing out; one that succeeded
\* gives its connection to the caller.
NothingLeaks ==
    /\ apc = "over" => (socket <=> fd) /\ (fd <=> result = "success")
    /\ ssl => fd

\* The login ends, whatever the server answers or whenever it hangs up.
LoginEnds == apc = "connect" ~> apc \in {"over", "crashed"}

=============================================================================
