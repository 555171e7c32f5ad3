----------------------------- MODULE Processes -----------------------------
(***************************************************************************)
(* What the processes do to the structure they share: the server           *)
(* connections whose descriptors live in it (Connections), and the         *)
(* configuration while it is changed and reloaded (Configuration). They    *)
(* share no state; "part" says which one a behaviour is about.             *)
(***************************************************************************)
EXTENDS Connections

CONSTANTS Setter, Scopes, Probe, MaxEdits      \* Configuration

VARIABLES part, scope, file, certs, edits, config, foreign, mixed, job

C == INSTANCE Configuration

ASSUME ProcessesAssumption ==
    MaxEdits \in Nat /\ Probe \subseteq C!Key /\ "main" \notin Setter

connections   == << setup, cache_lock, servers, fds, role, pc, at >>
configuration == << scope, file, certs, edits, config, foreign, mixed, job >>

\* The part that is not looked at stays in one of its initial states.
OnlyIn(p, setups) == IF part = p THEN setups ELSE {CHOOSE c \in setups : TRUE}

PartInit ==
    /\ part \in {"connections", "configuration"}
    /\ setup \in OnlyIn("connections", Setups)
    /\ scope \in OnlyIn("configuration", Scopes)
    /\ Init /\ C!Init

PartNext ==
    \/ part = "connections" /\ Next /\ UNCHANGED << part, configuration >>
    \/ part = "configuration" /\ C!Next /\ UNCHANGED << part, connections >>

PartSpec == PartInit /\ [][PartNext]_<< part, connections, configuration >>

\* As long as the lock keeps the children apart each descriptor is used by the child that
\* opened it, the client's own is not touched, nothing stays open and nothing is lost, and
\* the metrics of extensions are read from "postgres" (Connections).
DescriptorsSound ==
    /\ TypeOK /\ OwnWhenExclusive /\ ClientKept
    /\ NothingLeftOpen /\ NoDescriptorLeak /\ ExtensionsInPostgres

\* The values of the running configuration are ones that could be started with, however
\* changes and reloads overlap, and so are its users and servers together unless two
\* transfers overlapped (Configuration).
RunningIsValid == part = "configuration" => C!TypeOK /\ C!ValuesValid /\ C!RunningIsValid

\* What was bound at the start stays as it is, a transfer of its own takes no server away,
\* and a "conf set" brings in its own key and otherwise what it copied, which is all
\* there was unless somebody wrote meanwhile (Configuration).
ChangesContained ==
    /\ [](part = "configuration" => C!StructuralFixed /\ C!CopyIsFaithful)
    /\ C!ServersStay /\ C!SetTouchesOnlyItsKey

\* A reload does what a restart does, but for the fields it leaves (Configuration).
ReloadLikeRestart == C!ReloadLikeRestart

\* The transfer of a structure is atomic (Configuration).
TransferIsAtomic == C!TransferIsAtomic
=============================================================================
