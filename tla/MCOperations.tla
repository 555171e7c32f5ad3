---------------------------- MODULE MCOperations ----------------------------
(* Operations on small instances.                                          *)
EXTENDS Operations, TLC

CONSTANTS p1, p2, s1, s2, r1, r2, r3, r4, w1, w2

\* Processes that share everything, a port with or without a lock file, or a port that is one
\* thing to one and another to the other; in the background or not; without
\* metrics; with a console.
Configured(pf, m, c, h, b, j, r, d) ==
    [pidfile |-> pf, metrics |-> m, console |-> c, history |-> h, bridge |-> b, json |-> j,
     management |-> r, dir |-> "/tmp", daemon |-> d]

SomeConfigs ==
    { Configured("a", "5001", "none", "none", "none", "none", "5002", TRUE),
      Configured("b", "5001", "5004", "none", "5003", "none", "none", FALSE),
      Configured("c", "none", "none", "5002", "5003", "5005", "none", FALSE) }

\* A client with or without the password, or not an admin; a slow one; with TLS on both
\* sides or one; a strange client or server. Beside it somebody with another command.
Client(ct, st, ap, c, silent, stranger) ==
    [client_tls |-> ct, server_tls |-> st, client_password |-> "x", admin_password |-> ap,
     command |-> c, silent |-> silent, stranger |-> stranger]

SomeClients ==
    { (s1 :> a) @@ (s2 :> b) :
        a \in { Client(TRUE, t, p, "reload", FALSE, "nobody") :
                  t \in BOOLEAN, p \in {"x", "y", "none"} }
              \cup { Client(TRUE, TRUE, p, "reload", TRUE, "nobody") : p \in {"x", "y"} }
              \cup { Client(FALSE, FALSE, "y", "conf get", FALSE, w) : w \in {"client", "server"} },
        b \in { Client(FALSE, TRUE, "x", c, FALSE, "nobody") :
                  c \in {"shutdown", "status", "unknown"} } }

\* Four runs of the admin tool that may overlap, or come one after the other; on a disk
\* that may be full.
Task(c, u, p, a, f) == [command |-> c, user |-> u, password |-> p, alone |-> a, full |-> f]

SomeTasks ==
    { (r1 :> Task("master-key", "u", "x", FALSE, FALSE)) @@ (r2 :> b) @@ (r3 :> c) @@ (r4 :> d) :
        b \in { Task("add", "u", "x", FALSE, FALSE), Task("master-key", "u", "x", FALSE, FALSE) },
        c \in { Task("add", "v", "x", FALSE, FALSE), Task("update", "u", "y", FALSE, TRUE),
                Task("master-key", "u", "x", FALSE, FALSE) },
        d \in { Task("remove", "v", "y", FALSE, FALSE), Task("update", "v", "y", FALSE, FALSE) } }
    \cup
    { (r1 :> Task("master-key", "u", "x", TRUE, FALSE)) @@ (r2 :> Task("add", "u", "x", TRUE, TRUE))
        @@ (r3 :> c) @@ (r4 :> Task(k, u, "z", TRUE, TRUE)) :
        c \in { Task("add", "u", "y", TRUE, FALSE), Task("add", "v", "y", TRUE, TRUE),
                Task("update", "u", "y", TRUE, TRUE) },
        k \in {"remove", "update", "add"}, u \in {"u", "v"} }

\* TLS off, tried or required, with a CA or without; each method; passwords that match,
\* differ or cannot be used; iterations below, within and above the limit; an impostor.
Login(t, m, p, i, o) ==
    [tls |-> t[1], ca |-> t[2], genuine |-> t[3], server_tls |-> t[4], method |-> m, password |-> p,
     user_password |-> "x", iterations |-> i, impostor |-> o, nonce |-> "combined"]

Tls == { t \in {"off", "try", "on"} \X BOOLEAN \X BOOLEAN \X BOOLEAN :
           /\ t[1] = "off" => t[2] /\ t[3] /\ t[4]
           /\ (t[2] /\ t[4]) \/ t[3] }

SomeLogins ==
    { Login(t, m, "x", 1, FALSE) : t \in Tls, m \in {"trust", "password", "scram", "md5", "ok then error"} }
    \cup { Login(t, "password", "y", 1, FALSE) : t \in Tls }
    \cup { Login(<< "try", FALSE, TRUE, s >>, "scram", p, i, o) :
             s \in BOOLEAN, p \in {"x", "y", "unprintable"}, i \in 0..3, o \in BOOLEAN }

\* A fixed name, with rotation or without, or a name for each hour and rotation; dumps of
\* messages or processes that are killed.
SomeLogs ==
    { [mode |-> m, by_hour |-> n[1], rotate |-> n[2], debug5 |-> o = "debug5", kills |-> o = "kills"] :
        m \in {"append", "create"}, n \in {<< FALSE, FALSE >>, << FALSE, TRUE >>, << TRUE, TRUE >>},
        o \in {"debug5", "kills"} }
=============================================================================
