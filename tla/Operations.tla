----------------------------- MODULE Operations -----------------------------
(***************************************************************************)
(* What happens around the metrics: starting and stopping processes        *)
(* (Daemon), commands over the management port (Management), the master    *)
(* key and the users (Admin), logging in to a server (Authentication) and  *)
(* the log (Logging). They share no state; "part" says which one a         *)
(* behaviour is about.                                                     *)
(***************************************************************************)
EXTENDS Naturals, Sequences, FiniteSets

CONSTANTS
    Proc, Config,                        \* Daemon
    Session, Clients,                    \* Management
    Runs, Tasks, NumberOfUsers,          \* Admin
    Logins, MaxIterations,               \* Authentication
    Writer, Logs, MaxLines, MaxHour      \* Logging

VARIABLES
    part,
    conf, mode, step, forked, file, listener, kid,
    setup, cpc, rpc, mpc, ctls, rtls, c2r, r2c, r2m, m2r, conn, ran, got,
    task, pc, dir, data, input, output, buffer, secret, intruded, cut,
    login, apc, spc, c_ssl, s_ssl, up, down, socket, ssl, fd, result, admitted,
    logconf, log_lock, rotation, hour, log_file, lines, said, wpc

D == INSTANCE Daemon
M == INSTANCE Management WITH Setups <- Clients
A == INSTANCE Admin WITH Run <- Runs, Commands <- Tasks
S == INSTANCE Authentication WITH Setups <- Logins
L == INSTANCE Logging WITH Setups <- Logs

\* What the constants of Daemon are: a file that is not there has no owner, and a
\* configuration with bridge_json has bridge (pgexporter_validate_configuration).
ASSUME DaemonAssumption ==
    /\ "nobody" \notin Proc
    /\ \A c \in Config : c.json # "none" => c.bridge # "none"

\* What the constants of Admin are: the commands it has; no run is called like a name that
\* is not there or a line that is broken.
ASSUME AdminAssumption ==
    /\ {"none", "cut", "joined"} \cap Runs = {}
    /\ \A t \in Tasks : \A r \in Runs :
          /\ t[r].command \in {"master-key", "add", "update", "remove"}
          /\ t[r].alone \in BOOLEAN

\* What the constants of Logging are: a free lock has no owner.
ASSUME LogAssumption ==
    /\ L!Free \notin Writer
    /\ Logs \subseteq [mode : {"append", "create"}, by_hour : BOOLEAN, rotate : BOOLEAN,
                       debug5 : BOOLEAN, kills : BOOLEAN]
    /\ MaxLines \in Nat /\ MaxHour \in Nat

\* What the constants of Authentication are.
ASSUME LoginAssumption ==
    \A s \in Logins : s.method \in S!Method /\ s.server_tls \in BOOLEAN

\* What the constants of Management are.
ASSUME ClientAssumption ==
    \A c \in Clients : \A s \in Session :
        c[s].command \in M!Command /\ c[s].server_tls \in BOOLEAN

DaemonVars     == << conf, mode, step, forked, file, listener, kid >>
ManagementVars == << setup, cpc, rpc, mpc, ctls, rtls, c2r, r2c, r2m, m2r, conn, ran, got >>
AdminVars      == << task, pc, dir, data, input, output, buffer, secret, intruded, cut >>
LoginVars      == << login, apc, spc, c_ssl, s_ssl, up, down, socket, ssl, fd, result, admitted >>
LogVars        == << logconf, log_lock, rotation, hour, log_file, lines, said, wpc >>

vars == << part, DaemonVars, ManagementVars, AdminVars, LoginVars, LogVars >>

\* The parts that are not looked at stay in one of their initial states.
OnlyIn(p, setups) == IF part = p THEN setups ELSE {CHOOSE c \in setups : TRUE}

Init ==
    /\ part \in {"daemon", "management", "admin", "login", "log"}
    /\ conf    \in IF part = "daemon" THEN [Proc -> Config]
                   ELSE {[p \in Proc |-> CHOOSE c \in Config : TRUE]}
    /\ setup   \in OnlyIn("management", Clients)
    /\ task    \in OnlyIn("admin", Tasks)
    /\ login   \in OnlyIn("login", Logins)
    /\ logconf \in OnlyIn("log", Logs)
    /\ D!Init /\ M!Init /\ A!Init /\ S!Init /\ L!Init

ManagementStep(X) ==
    part = "management" /\ X /\ UNCHANGED << part, DaemonVars, AdminVars, LoginVars, LogVars >>

LoginStep(X) ==
    part = "login" /\ X /\ UNCHANGED << part, DaemonVars, ManagementVars, AdminVars, LogVars >>

LogStep(X) ==
    part = "log" /\ X /\ UNCHANGED << part, DaemonVars, ManagementVars, AdminVars, LoginVars >>

Next ==
    \/ part = "daemon" /\ D!Next /\ UNCHANGED << part, ManagementVars, AdminVars, LoginVars, LogVars >>
    \/ part = "admin"  /\ A!Next /\ UNCHANGED << part, DaemonVars, ManagementVars, LoginVars, LogVars >>
    \/ ManagementStep(M!Next)
    \/ LoginStep(S!Next)
    \/ LogStep(L!Next)

\* The fairness of Management, Authentication and Logging.
Spec ==
    /\ Init /\ [][Next]_vars
    /\ \A s \in Session :
         /\ WF_vars(ManagementStep(~ setup[s].silent /\ M!ClientStep(s)))
         /\ WF_vars(ManagementStep(M!ChildStep(s)))
         /\ WF_vars(ManagementStep(M!MainStep(s)))
         /\ WF_vars(ManagementStep(M!Worker(s)))
    /\ WF_vars(LoginStep(S!Client)) /\ WF_vars(LoginStep(S!Server))
    /\ \A w \in Writer : WF_vars(LogStep(L!Writes(w)))

\* Of processes that share a pidfile or a port at most one serves; the others take nothing
\* away from it; the pidfile names it; orderly stops leave no pidfile and no lock file, and
\* a port only to a child that is still there (Daemon).
InstancesApart ==
    D!TypeOK /\ D!OneServes /\ D!ServingKeepsItsOwn /\ D!PidfileNamesServer /\ D!NothingLeftBehind

\* Commands are run for admins only, and sent only to a server that has the password; both
\* ends switch to TLS at the same message; a client reads the answer to its own command
\* (Management).
SessionSound ==
    M!TypeOK /\ M!AuthorisedOnly /\ M!ServerProved /\ M!SameMode /\ M!AnswerIsOwn

\* With tls = on nothing crosses the wire in clear; SCRAM succeeds only with a server that
\* knows the password; a login that succeeded is one the server agrees with, and one that
\* failed leaves nothing open (Authentication).
LoginSound ==
    S!TypeOK /\ S!TlsRequired /\ S!ServerKnowsPassword /\ S!SuccessIsMutual /\ S!NothingLeaks

\* A master key is never taken away or exchanged, and it is whole but while a run that was
\* disturbed has still to write it; every entry of the users file can be decrypted, and runs
\* one after the other keep one entry for each user and touch the one they are about only,
\* but for what a write that came out short leaves (Admin).
SecretsKept ==
    /\ [](A!TypeOK /\ A!KeyIsWhole /\ A!EntriesReadable /\ A!OneEntryEach)
    /\ A!KeyKept /\ A!OthersKept

\* Lines of different processes do not run into each other, and with log_mode = append no
\* line is lost (Logging).
LogKept == [](L!TypeOK /\ L!LinesWhole) /\ L!AppendKeeps

\* The event loop is given back after a command, the child of a management client ends, a
\* login ends, and nobody waits for the lock of the log for ever (Management,
\* Authentication, Logging).
EverybodyEnds ==
    /\ M!MainReturns
    /\ part = "management" => M!ChildEnds
    /\ part = "login" => S!LoginEnds
    /\ part = "log" => L!Logged
=============================================================================
