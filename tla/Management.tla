----------------------------- MODULE Management -----------------------------
(***************************************************************************)
(* Remote management: pgexporter-cli logs in to the management port with   *)
(* SCRAM-SHA-256, a child of the main process answers the login and then   *)
(* passes one command on to the Unix domain socket, where the event loop   *)
(* of the main process reads it and runs it, itself or in another child.   *)
(* Clients may fall silent or go away at any moment.                       *)
(***************************************************************************)
EXTENDS Naturals, Sequences

CONSTANTS
    Session,          \* one client, its child and its command each
    Setups            \* what the sessions are like

VARIABLES
    setup,            \* setup[s]: certificates, passwords, command, patience
    cpc, rpc, mpc,    \* where client, child and main process are
    ctls, rtls,       \* whether client and child encrypt
    c2r, r2c,         \* messages between client and child, not read yet
    r2m, m2r,         \* messages between child and main process, not read yet
    conn,             \* conn[s]: who has the connection to the Unix domain socket
    ran,              \* ran[s]: the commands run for s
    got               \* got[s]: the answers the client read

vars == << setup, cpc, rpc, mpc, ctls, rtls, c2r, r2c, r2m, m2r, conn, ran, got >>

client == << cpc, ctls, got >>
child  == << rpc, rtls >>
main   == << mpc, conn, ran >>
wires  == << c2r, r2c, r2m, m2r >>

----------------------------------------------------------------------------

InMain  == {"shutdown", "ping", "reset", "reload", "conf ls"}
Forked  == {"status", "status details", "conf get", "conf set"}
Command == InMain \cup Forked \cup {"unknown"}

None == "none"
Idle == << "idle" >>

\* An answer names its command; whatever else it holds, it says whether it went well.
Outcome(c) == CASE c \in {"reload"} \cup Forked -> {"ok", "error"}
                [] c = "unknown"                -> {"error"}
                [] OTHER                        -> {"ok"}

Knows(s) == setup[s].client_password = setup[s].admin_password

Msg(t, e, v) == [tag |-> t, tls |-> e, val |-> v]

ToChild(s, t, v)  == c2r' = [c2r EXCEPT ![s] = Append(@, Msg(t, ctls'[s], v))]
ToClient(s, t, v) == r2c' = [r2c EXCEPT ![s] = Append(@, Msg(t, rtls[s], v))]

\* A message is read in the mode it was written in: anything else is noise.
ClientHas(s, t) == r2c[s] # << >> /\ Head(r2c[s]).tag = t
ChildHas(s, t)  == c2r[s] # << >> /\ Head(c2r[s]).tag = t
ClientReads(s)  == r2c' = [r2c EXCEPT ![s] = Tail(@)]
ChildReads(s)   == c2r' = [c2r EXCEPT ![s] = Tail(@)]

ClientAt(s, a, b) == cpc[s] = a /\ cpc' = [cpc EXCEPT ![s] = b]
ChildAt(s, a, b)  == rpc[s] = a /\ rpc' = [rpc EXCEPT ![s] = b]

ClientOver == {"done", "failed", "bad password"}
Login      == {"hello", "startup", "first", "proof"}

Init ==
    /\ setup \in Setups
    /\ cpc = [s \in Session |-> "start"]
    /\ rpc = [s \in Session |-> "hello"]
    /\ mpc = Idle
    /\ ctls = [s \in Session |-> FALSE]
    /\ rtls = [s \in Session |-> FALSE]
    /\ c2r = [s \in Session |-> << >>]
    /\ r2c = [s \in Session |-> << >>]
    /\ r2m = [s \in Session |-> << >>]
    /\ m2r = [s \in Session |-> << >>]
    /\ conn = [s \in Session |-> "none"]
    /\ ran = [s \in Session |-> << >>]
    /\ got = [s \in Session |-> << >>]

----------------------------------------------------------------------------
(* The client.                                                             *)

\* With a key only its owner may read, and a certificate, the client asks for TLS.
ClientHello(s) ==
    /\ UNCHANGED ctls
    /\ \/ /\ setup[s].client_tls
          /\ ClientAt(s, "start", "ssl")
          /\ ToChild(s, "ssl", None)
       \/ /\ ~ setup[s].client_tls
          /\ ClientAt(s, "start", "sasl")
          /\ ToChild(s, "startup", None)
    /\ UNCHANGED << setup, got, child, main, r2c, r2m, m2r >>

\* Fault: TLS is taken for granted once it was asked for.
ClientStartupAlways(s) ==
    /\ ClientAt(s, "ssl", "sasl")
    /\ ClientHas(s, "S") \/ ClientHas(s, "N")
    /\ ctls' = [ctls EXCEPT ![s] = TRUE]
    /\ ClientReads(s)
    /\ ToChild(s, "startup", None)
    /\ UNCHANGED << setup, got, child, main, r2m, m2r >>

\* 'S': go on with TLS; anything else: go on without.
ClientStartup(s) ==
    /\ ClientAt(s, "ssl", "sasl")
    /\ ClientHas(s, "S") \/ ClientHas(s, "N")
    /\ ctls' = [ctls EXCEPT ![s] = ClientHas(s, "S")]
    /\ ClientReads(s)
    /\ ToChild(s, "startup", None)
    /\ UNCHANGED << setup, got, child, main, r2m, m2r >>

ClientFirst(s) ==
    /\ ClientAt(s, "sasl", "continue")
    /\ ClientHas(s, "sasl")
    /\ UNCHANGED ctls
    /\ ClientReads(s)
    /\ ToChild(s, "first", None)
    /\ UNCHANGED << setup, got, child, main, r2m, m2r >>

ClientProof(s) ==
    /\ ClientAt(s, "continue", "final")
    /\ ClientHas(s, "continue")
    /\ UNCHANGED ctls
    /\ ClientReads(s)
    /\ ToChild(s, "proof", setup[s].client_password)
    /\ UNCHANGED << setup, got, child, main, r2m, m2r >>

\* Fault: the signature of the server is not compared.
SignatureNotCompared(s) == TRUE

\* The server proves that it knows the password as well; some other client may not care.
SignatureMatches(s) == setup[s].stranger = "client" \/ Head(r2c[s]).val = setup[s].client_password

\* The last message of the login may come alone (then the one after it is read too),
\* with the next one, or, without TLS, with a part of it.
ClientFinal(s) ==
    /\ cpc[s] = "final"
    /\ ClientHas(s, "final")
    /\ \/ /\ ~ SignatureMatches(s)
          /\ cpc' = [cpc EXCEPT ![s] = "bad password"]
          /\ ClientReads(s)
       \/ /\ SignatureMatches(s)
          /\ cpc' = [cpc EXCEPT ![s] = "extra"]
          /\ ClientReads(s)
       \/ /\ SignatureMatches(s) /\ ~ ctls[s] /\ Len(r2c[s]) > 1
          /\ cpc' = [cpc EXCEPT ![s] = "request"]
          /\ \E rest \in {<< >>, << Msg("rest", FALSE, None) >>} :
                r2c' = [r2c EXCEPT ![s] = rest \o Tail(Tail(@))]
    /\ UNCHANGED << setup, ctls, got, child, main, c2r, r2m, m2r >>

ClientExtra(s) ==
    /\ ClientAt(s, "extra", "request")
    /\ ClientHas(s, "ok")
    /\ ClientReads(s)
    /\ UNCHANGED << setup, ctls, got, child, main, c2r, r2m, m2r >>

ClientCommand(s) ==
    /\ ClientAt(s, "request", "answer")
    /\ UNCHANGED ctls
    /\ ToChild(s, "command", setup[s].command)
    /\ UNCHANGED << setup, got, child, main, r2c, r2m, m2r >>

ClientAnswer(s) ==
    /\ ClientAt(s, "answer", "done")
    /\ ClientHas(s, "answer")
    /\ got' = [got EXCEPT ![s] = Append(@, Head(r2c[s]).val)]
    /\ ClientReads(s)
    /\ UNCHANGED << setup, ctls, child, main, c2r, r2m, m2r >>

\* A refusal, noise, or the end of the connection.
ClientFails(s) ==
    /\ cpc[s] \in {"ssl", "sasl", "continue", "final", "extra", "answer"}
    /\ \/ ClientHas(s, "refused")
       \/ ClientHas(s, "rest")
       \/ r2c[s] = << >> /\ rpc[s] = "gone"
    /\ cpc' = [cpc EXCEPT ![s] = "failed"]
    /\ UNCHANGED << setup, ctls, got, child, main, wires >>

\* The client is stopped by its user.
ClientLeaves(s) ==
    /\ cpc[s] \notin ClientOver
    /\ cpc' = [cpc EXCEPT ![s] = "failed"]
    /\ UNCHANGED << setup, ctls, got, child, main, wires >>

ClientStep(s) ==
    \/ ClientHello(s) \/ ClientStartup(s) \/ ClientFirst(s) \/ ClientProof(s)
    \/ ClientFinal(s) \/ ClientExtra(s) \/ ClientCommand(s) \/ ClientAnswer(s)
    \/ ClientFails(s)

----------------------------------------------------------------------------
(* The child that serves the management port.                              *)

\* An SSL request is answered and another request read.
ChildTls(s) ==
    /\ ChildAt(s, "hello", "startup")
    /\ ChildHas(s, "ssl")
    /\ ChildReads(s)
    /\ ToClient(s, IF setup[s].server_tls THEN "S" ELSE "N", None)
    /\ rtls' = [rtls EXCEPT ![s] = setup[s].server_tls]
    /\ UNCHANGED << setup, client, main, r2m, m2r >>

Refuse(s) ==
    /\ rpc' = [rpc EXCEPT ![s] = "gone"]
    /\ ToClient(s, "refused", None)

\* The user must be an admin: only then there is a password to ask for.
ChildStartup(s) ==
    /\ rpc[s] \in {"hello", "startup"}
    /\ ChildHas(s, "startup")
    /\ ChildReads(s)
    /\ \/ /\ setup[s].admin_password # None
          /\ rpc' = [rpc EXCEPT ![s] = "first"]
          /\ ToClient(s, "sasl", None)
       \/ setup[s].admin_password = None /\ Refuse(s)
    /\ UNCHANGED << setup, rtls, client, main, r2m, m2r >>

ChildContinue(s) ==
    /\ ChildAt(s, "first", "proof")
    /\ ChildHas(s, "first")
    /\ ChildReads(s)
    /\ ToClient(s, "continue", None)
    /\ UNCHANGED << setup, rtls, client, main, r2m, m2r >>

\* Fault: the received proof is only checked for its presence.
ProofPresent(s) == c2r[s] # << >>

\* Some other server may accept any proof.
ProofMatches(s) == setup[s].stranger = "server" \/ Head(c2r[s]).val = setup[s].admin_password

ChildFinal(s) ==
    /\ rpc[s] = "proof"
    /\ ChildHas(s, "proof")
    /\ ChildReads(s)
    /\ \/ /\ ProofMatches(s)
          /\ rpc' = [rpc EXCEPT ![s] = "success"]
          /\ ToClient(s, "final", setup[s].admin_password)
       \/ ~ ProofMatches(s) /\ Refuse(s)
    /\ UNCHANGED << setup, rtls, client, main, r2m, m2r >>

ChildSuccess(s) ==
    /\ ChildAt(s, "success", "connect")
    /\ ToClient(s, "ok", None)
    /\ UNCHANGED << setup, rtls, client, main, c2r, r2m, m2r >>

\* Fault: the end of the connection is taken for an interruption.
ChildGivesUpRetried(s) ==
    /\ rpc[s] \in Login
    /\ c2r[s] = << >>
    /\ cpc[s] \in ClientOver
    /\ UNCHANGED vars

\* The client has gone. Nothing else ends the wait: the reads of the login are given
\* authentication_timeout, but an expired timeout is EAGAIN (or SSL_ERROR_WANT_READ), after
\* which they read again, and SSL_accept is given none.
ChildGivesUp(s) ==
    /\ rpc[s] \in Login
    /\ c2r[s] = << >>
    /\ cpc[s] \in ClientOver
    /\ Refuse(s)
    /\ UNCHANGED << setup, rtls, client, main, c2r, r2m, m2r >>

\* The Unix domain socket first, then the command of the client.
ChildConnect(s) ==
    /\ rpc[s] = "connect"
    /\ IF mpc = << "stopped" >>
         THEN rpc' = [rpc EXCEPT ![s] = "gone"] /\ UNCHANGED conn
         ELSE /\ rpc' = [rpc EXCEPT ![s] = "command"]
              /\ conn' = [conn EXCEPT ![s] = "queued"]
    /\ UNCHANGED << setup, rtls, client, mpc, ran, wires >>

ChildForward(s) ==
    /\ ChildAt(s, "command", "answer")
    /\ ChildHas(s, "command")
    /\ ChildReads(s)
    /\ r2m' = [r2m EXCEPT ![s] = Append(@, Head(c2r[s]).val)]
    /\ UNCHANGED << setup, rtls, client, main, r2c, m2r >>

ChildNoCommand(s) ==
    /\ ChildAt(s, "command", "gone")
    /\ c2r[s] = << >>
    /\ cpc[s] \in ClientOver
    /\ UNCHANGED << setup, rtls, client, main, wires >>

ChildReturn(s) ==
    /\ ChildAt(s, "answer", "gone")
    /\ m2r[s] # << >>
    /\ m2r' = [m2r EXCEPT ![s] = Tail(@)]
    /\ ToClient(s, "answer", Head(m2r[s]))
    /\ UNCHANGED << setup, rtls, client, main, c2r, r2m >>

ChildNoAnswer(s) ==
    /\ ChildAt(s, "answer", "gone")
    /\ m2r[s] = << >>
    /\ conn[s] = "closed"
    /\ UNCHANGED << setup, rtls, client, main, wires >>

ChildStep(s) ==
    \/ ChildTls(s) \/ ChildStartup(s) \/ ChildContinue(s) \/ ChildFinal(s)
    \/ ChildSuccess(s) \/ ChildGivesUp(s) \/ ChildConnect(s) \/ ChildForward(s)
    \/ ChildNoCommand(s) \/ ChildReturn(s) \/ ChildNoAnswer(s)

----------------------------------------------------------------------------
(* The main process.                                                       *)

Answer(s, c, r) == m2r' = [m2r EXCEPT ![s] = Append(@, [command |-> c, result |-> r])]

\* accept_mgt_cb waits for the command.
Accept(s) ==
    /\ mpc = Idle
    /\ conn[s] = "queued"
    /\ mpc' = << "reading", s >>
    /\ conn' = [conn EXCEPT ![s] = "main"]
    /\ UNCHANGED << setup, client, child, ran, wires >>

MainHas(s) == mpc = << "reading", s >> /\ r2m[s] # << >>

Run(s, c) == ran' = [ran EXCEPT ![s] = Append(@, c)]

\* Fault: the request stays where it was read.
RunHereAgain(s) ==
    /\ MainHas(s)
    /\ LET c == Head(r2m[s]) IN
         /\ c \in InMain \ {"shutdown"}
         /\ Run(s, c)
         /\ \E r \in Outcome(c) : Answer(s, c, r)
    /\ UNCHANGED << setup, client, child, mpc, conn, c2r, r2c, r2m >>

\* In the event loop itself.
RunHere(s) ==
    /\ MainHas(s)
    /\ LET c == Head(r2m[s]) IN
         /\ c \in InMain \ {"shutdown"}
         /\ Run(s, c)
         /\ \E r \in Outcome(c) : Answer(s, c, r)
    /\ r2m' = [r2m EXCEPT ![s] = Tail(@)]
    /\ mpc' = Idle
    /\ conn' = [conn EXCEPT ![s] = "closed"]
    /\ UNCHANGED << setup, client, child, c2r, r2c >>

\* The answer goes out, then the loop is left: who waits in the queue is cut off.
RunShutdown(s) ==
    /\ MainHas(s)
    /\ Head(r2m[s]) = "shutdown"
    /\ Run(s, "shutdown")
    /\ Answer(s, "shutdown", "ok")
    /\ r2m' = [r2m EXCEPT ![s] = Tail(@)]
    /\ mpc' = << "stopped" >>
    /\ conn' = [t \in Session |-> IF t = s \/ conn[t] = "queued" THEN "closed" ELSE conn[t]]
    /\ UNCHANGED << setup, client, child, c2r, r2c >>

\* Fault: the worker answers the request its parent read last.
RunForkedElsewhere(s) ==
    /\ MainHas(s)
    /\ LET c == Head(r2m[s]) IN
         /\ c \in Forked
         /\ conn' = [conn EXCEPT ![s] = "worker"]
         /\ Run(s, c)
         /\ Answer(s, "conf get", "ok")
    /\ r2m' = [r2m EXCEPT ![s] = Tail(@)]
    /\ mpc' = Idle
    /\ UNCHANGED << setup, client, child, c2r, r2c >>

\* fork() and, in the worker, status, details, conf get or conf set.
RunForked(s) ==
    /\ MainHas(s)
    /\ LET c == Head(r2m[s]) IN
         /\ c \in Forked
         /\ \/ /\ conn' = [conn EXCEPT ![s] = "worker"]
               /\ Run(s, c)
               /\ UNCHANGED m2r
            \/ /\ conn' = [conn EXCEPT ![s] = "closed"]
               /\ Answer(s, c, "error")
               /\ UNCHANGED ran
    /\ r2m' = [r2m EXCEPT ![s] = Tail(@)]
    /\ mpc' = Idle
    /\ UNCHANGED << setup, client, child, c2r, r2c >>

Unknown(s) ==
    /\ MainHas(s)
    /\ Head(r2m[s]) = "unknown"
    /\ Answer(s, "unknown", "error")
    /\ r2m' = [r2m EXCEPT ![s] = Tail(@)]
    /\ mpc' = Idle
    /\ conn' = [conn EXCEPT ![s] = "closed"]
    /\ UNCHANGED << setup, client, child, ran, c2r, r2c >>

\* Fault: the end of the connection is taken for an interruption.
NoRequestRetried(s) ==
    /\ mpc = << "reading", s >>
    /\ r2m[s] = << >>
    /\ rpc[s] = "gone"
    /\ UNCHANGED vars

\* The other end has gone: bad payload.
NoRequest(s) ==
    /\ mpc = << "reading", s >>
    /\ r2m[s] = << >>
    /\ rpc[s] = "gone"
    /\ mpc' = Idle
    /\ conn' = [conn EXCEPT ![s] = "closed"]
    /\ UNCHANGED << setup, client, child, ran, wires >>

\* The worker answers, or it dies.
Worker(s) ==
    /\ conn[s] = "worker"
    /\ conn' = [conn EXCEPT ![s] = "closed"]
    /\ \/ \E r \in Outcome(ran[s][1]) : Answer(s, ran[s][1], r)
       \/ UNCHANGED m2r
    /\ UNCHANGED << setup, client, child, mpc, ran, c2r, r2c, r2m >>

MainStep(s) ==
    \/ Accept(s) \/ RunHere(s) \/ RunShutdown(s) \/ RunForked(s) \/ Unknown(s)
    \/ NoRequest(s)

Next == \E s \in Session :
    \/ ClientStep(s) \/ ClientLeaves(s) \/ ChildStep(s) \/ MainStep(s) \/ Worker(s)

Spec == Init /\ [][Next]_vars

\* Processes take their steps; a client does unless it is a silent one.
FairSpec ==
    /\ Spec
    /\ \A s \in Session :
         /\ WF_vars(~ setup[s].silent /\ ClientStep(s))
         /\ WF_vars(ChildStep(s))
         /\ WF_vars(MainStep(s))
         /\ WF_vars(Worker(s))

----------------------------------------------------------------------------

TypeOK ==
    /\ setup \in Setups
    /\ cpc \in [Session -> {"start", "ssl", "sasl", "continue", "final", "extra", "request",
                            "answer"} \cup ClientOver]
    /\ rpc \in [Session -> Login \cup {"success", "connect", "command", "answer", "gone"}]
    /\ mpc \in {Idle, << "stopped" >>} \cup ({"reading"} \X Session)
    /\ ctls \in [Session -> BOOLEAN]
    /\ rtls \in [Session -> BOOLEAN]
    /\ conn \in [Session -> {"none", "queued", "main", "worker", "closed"}]
    /\ \A s \in Session : ran[s] \in {<< >>, << setup[s].command >>}
    /\ \A s \in Session : \A i \in DOMAIN got[s] : got[s][i].result \in Outcome(got[s][i].command)

\* Only somebody who gave the password of an admin gets a command run.
AuthorisedOnly == \A s \in Session : ran[s] # << >> => Knows(s) \/ setup[s].stranger = "server"

\* The client sends its command only to a server that proved it has the password,
\* also when the server it reached accepts anybody.
ServerProved ==
    \A s \in Session :
        cpc[s] \in {"request", "answer", "done"} => Knows(s) \/ setup[s].stranger = "client"

\* What is on the wire was written in the mode in which it will be read: both ends
\* switch to TLS at the same message or neither does.
SameMode ==
    \A s \in Session :
        /\ rpc[s] \notin {"hello", "gone"} =>
             \A i \in DOMAIN c2r[s] : c2r[s][i].tls = rtls[s]
        /\ cpc[s] \notin {"start", "ssl"} \cup ClientOver =>
             \A i \in DOMAIN r2c[s] : r2c[s][i].tag # "rest" => r2c[s][i].tls = ctls[s]

\* The answer a client reads is the answer to its own command, which was run once if it
\* went well, although the main process and its workers serve several at a time.
AnswerIsOwn ==
    \A s \in Session : \A i \in DOMAIN got[s] :
        /\ got[s][i].command = setup[s].command
        /\ got[s][i].result = "ok" => ran[s] = << setup[s].command >>

\* The event loop is given back: a client can keep the main process waiting only if it
\* is an admin that logged in and then sends nothing.
MainReturns ==
    (\A s \in Session : setup[s].silent => ~ Knows(s)) /\ mpc[1] = "reading" ~> mpc[1] # "reading"

\* The child of a client ends, whatever becomes of the login and of the other sessions, unless
\* an admin that sends no command keeps the main process; the child of a client that falls
\* silent ends when that client goes, and not before.
ChildEnds ==
    \A s \in Session :
        (/\ ~ setup[s].silent \/ cpc[s] \in ClientOver
         /\ \A t \in Session : setup[t].silent => ~ Knows(t))
            ~> rpc[s] = "gone"
=============================================================================
