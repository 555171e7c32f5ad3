--------------------------- MODULE Configuration ---------------------------
(***************************************************************************)
(* The running configuration: how it is read, validated, reloaded and      *)
(* changed.                                                                *)
(*                                                                         *)
(* struct configuration lives in shared memory. The main process fills it  *)
(* at start-up and replaces it on SIGHUP or "conf reload"; "conf set" is   *)
(* served by a child, which copies the whole structure, changes one value, *)
(* validates the copy and transfers all of it back, while others do the    *)
(* same. A value is one of a few abstract ones; which key is converted     *)
(* how, copied, transferred, reported or refused is the code's.            *)
(***************************************************************************)
EXTENDS ConfigurationFile

CONSTANTS
    Setter,            \* children that serve "conf set"
    Scopes,            \* what happens in a behaviour: edits of the "file" and reloads, one
                       \* "set" of any key, a race of "sets", a race of one with "reloads"
    Probe,             \* the keys that are set or edited in the races
    MaxEdits           \* bound: edits of the configuration files

VARIABLES
    scope,
    file,              \* pgexporter.conf: the text of each key, and the servers
    certs,             \* the certificate files exist
    edits,
    config,            \* the structure in shared memory
    foreign,           \* the processes that have no mapping for the query trees it points to
    mixed,             \* the last transfer began before another one had ended
    job                \* what each setter and the main process are doing

vars == << scope, file, certs, edits, config, foreign, mixed, job >>

----------------------------------------------------------------------------
(* Validation.                                                             *)

EnumsValid(c) ==
    \A k \in {"log_level", "log_type", "log_mode"} : c.g[k] # "invalid"

PortsValid(c) ==
    /\ c.g.metrics # "default" \/ c.g.bridge # "default"
    /\ c.g.bridge_json # "default" =>
          c.g.bridge # "default" /\ c.g.bridge_json_cache_max_size # "zero"

\* The users file knows user a; its other version knows user b too.
KnownUser(u, users) == u = "a" \/ (u = "b" /\ users = "b")

ServersValid(c) ==
    /\ Len(c.servers) > 0
    /\ \A i \in DOMAIN c.servers :
          /\ c.servers[i].host # "default"
          /\ c.servers[i].port # "default"
          /\ c.servers[i].type # "invalid"
          /\ \/ c.servers[i].type = "b"                       \* SERVER_TYPE_PROMETHEUS
             \/ KnownUser(c.servers[i].user, c.g.users)

Valid(c) ==
    /\ c.g.host # "default"
    /\ c.g.unix_socket_dir \notin {"default", "invalid"}
    /\ PortsValid(c)
    /\ EnumsValid(c)
    /\ c.g.users # "default"
    /\ ServersValid(c)

\* A certificate, key or CA file that is set and missing disables all three.
Certs(g, ca, cert, key) ==
    IF ~ certs /\ \E k \in {ca, cert, key} : g[k] # "default"
      THEN [k \in DOMAIN g |-> IF k \in {ca, cert, key} THEN "default" ELSE g[k]]
      ELSE g

\* What validation rewrites: a backlog below 16 ("a"), a query timeout below 50 ms ("a"),
\* missing certificates.
Normalise(c) ==
    LET g1 == [c.g EXCEPT !.backlog = IF @ = "a" THEN "default" ELSE @,
                          !.metrics_query_timeout = IF @ = "a" THEN "b" ELSE @]
        g2 == Certs(g1, "metrics_ca_file", "metrics_cert_file", "metrics_key_file")
    IN  [c EXCEPT !.g = Certs(g2, "history_ca_file", "history_cert_file",
                                  "history_key_file")]

\* What a reload reads: the file, the users, the admins and the metrics.
Load(f) ==
    LET c == ReadFile(f) IN
    [c EXCEPT !.g = [@ EXCEPT !.users = f.users, !.admins = "a",
                              !.prometheus = "a", !.metric_names = "a"]]

\* Start-up reads the alert definitions as well.
StartUp(f) ==
    LET c == Load(f) IN
    Normalise([c EXCEPT !.g = [@ EXCEPT !.alert_definitions =
                  IF c.g.alerts \in {"default", "b"} THEN "default" ELSE "a"]])

----------------------------------------------------------------------------
(* The transfer of one structure to another. It goes through the fields in *)
(* order and without a lock, while other processes read them or transfer a *)
(* structure of their own. A block is what is transferred in one step.     *)

SameServer(s, t) == s.host = t.host /\ s.port = t.port

RestartRequired(live, new) ==
    \/ \E k \in RestartKeys : live.g[k] # new.g[k]
    \/ Len(live.servers) > Len(new.servers)
    \/ \E i \in DOMAIN live.servers :
          i \in DOMAIN new.servers /\ ~ SameServer(live.servers[i], new.servers[i])

Transferred(live, new) ==
    (DOMAIN live.g \ (NotTransferred \cup LogGroup))
        \cup (IF \E k \in LogTriggers : live.g[k] # new.g[k] THEN LogGroup ELSE {})

\* copy_server zeroes the entry before it fills it.
NoServer == [k \in SKey |-> "default"]

Write(live, new, b) ==
    LET moved == BlockKeys(b) \cap Transferred(live, new)
        gone  == Cleared(b)
    IN  [ g       |-> [k \in DOMAIN live.g |->
                         IF k \in gone THEN "default" ELSE IF k \in moved THEN new.g[k] ELSE live.g[k]],
          servers |-> CASE b = "clear_servers" -> [i \in DOMAIN live.servers |-> NoServer]
                        [] b = "servers"       -> new.servers
                        [] OTHER               -> live.servers ]

Process == Setter \cup {"main"}

\* The processes in the middle of a transfer.
Transferring == {p \in Process : job[p].pc \in Blocks}

Goto(p, at) == job' = [job EXCEPT ![p].pc = at]

\* A process without work. "alone" says that nobody else has written since it began.
Idle == [pc |-> "idle", copy |-> << >>, new |-> << >>, request |-> << >>,
         old |-> "default", answer |-> "none", alone |-> FALSE]

\* Ends the work of p, with an answer for a setter.
Finish(p, at, a) ==
    job' = [job EXCEPT ![p] = [Idle EXCEPT !.pc = at, !.request = job[p].request,
                                           !.answer = a]]

\* The main process goes back to its loop.
End(p, a) == Finish(p, IF p = "main" THEN "idle" ELSE "done", a)

\* Fault: the transfer goes on although a restart is required.
CheckNothing(p) ==
    /\ job[p].pc = "check"
    /\ Goto(p, "values")
    /\ mixed' = (Transferring # {})
    /\ UNCHANGED << scope, file, certs, edits, config, foreign >>

\* The beginning of transfer_configuration.
Check(p) ==
    /\ job[p].pc = "check"
    /\ IF RestartRequired(config, job[p].new)
         THEN End(p, "restart") /\ UNCHANGED mixed
         ELSE Goto(p, "values") /\ mixed' = (Transferring # {})
    /\ UNCHANGED << scope, file, certs, edits, config, foreign >>

\* The rest of it. The query trees are copied into memory that p maps for them, and
\* the pointers go into shared memory: no other process has that mapping, but for those
\* that p forks from now on.
TransferBlock(p) ==
    /\ job[p].pc \in Blocks
    /\ config' = Write(config, job[p].new, job[p].pc)
    /\ foreign' = IF job[p].pc = "metrics" THEN Process \ {p} ELSE foreign
    /\ job' = [q \in Process |->
                 IF q # p THEN [job[q] EXCEPT !.alone = FALSE]
                 ELSE IF p = "main" /\ job[p].pc = "alerts" THEN Idle
                 ELSE [job[p] EXCEPT !.pc = After(job[p].pc)]]
    /\ UNCHANGED << scope, file, certs, edits, mixed >>

\* A process that follows pointers it has no mapping for may end there; it may also
\* find something else mapped at the address, and go on.
Dies(p) ==
    /\ job[p].pc \in {"copy_metrics", "metrics"}
    /\ p \in foreign
    /\ Finish(p, "died", "none")
    /\ UNCHANGED << scope, file, certs, edits, config, foreign, mixed >>

----------------------------------------------------------------------------
(* conf set.                                                               *)

Blank == [g |-> [k \in Field |-> "default"], servers |-> << >>]

Copied(c, live, b) ==
    LET taken == CopyKeys(b) \ NotCopied
    IN  [ g       |-> [k \in DOMAIN c.g |-> IF k \in taken THEN live.g[k] ELSE c.g[k]],
          servers |-> IF b = "copy_servers" THEN live.servers ELSE c.servers ]

\* Texts a conversion refuses.
Refused(kind, text) ==
    \/ kind \in {"bytes", "time", "endpoints"} /\ text = "bad"
    \/ kind \in {"int", "bool", "enum", "backend", "title", "tlsmode"}
          /\ text \in {"bad", "empty"}

SetValue(k, text) ==
    IF k \in ZeroWhenEmpty /\ text = "empty" THEN "zero" ELSE Stored(GlobalKeys[k], text)

\* The definitions under a new metrics_path are read at once and follow the ones there are.
SetGlobal(c, k, text) ==
    [c EXCEPT !.g = IF k = "metrics_path" /\ text # "empty"
                      THEN [@ EXCEPT ![k] = SetValue(k, text),
                                     !.prometheus = "b", !.metric_names = "b"]
                      ELSE [@ EXCEPT ![k] = SetValue(k, text)]]

SetServer(c, i, k, text) ==
    [c EXCEPT !.servers[i][k] = Stored(ServerKeys[k], text)]

\* The answer to a request of setter p, and what it transfers.
Request == [server : {0, 1}, key : Key \cup SKey \cup {"?"}, text : Text]

Known(r) == IF r.server = 0 THEN r.key \in SettableKeys ELSE r.key \in SettableServerKeys
Kind(r)  == IF r.server = 0 THEN GlobalKeys[r.key] ELSE ServerKeys[r.key]

\* A metrics_path whose definitions cannot be parsed.
Unreadable(r) == r.server = 0 /\ r.key = "metrics_path" /\ r.text = "bad"

Changed(c, r) == IF r.server = 0 THEN SetGlobal(c, r.key, r.text)
                                 ELSE SetServer(c, r.server, r.key, r.text)

\* get_config_value_str: what is reported before and after; an empty string compares
\* as a change.
Shown(c, r) ==
    CASE r.server # 0                  -> c.servers[r.server][r.key]
      [] r.key = "bridge_endpoints"    -> "default"
      [] OTHER                         -> c.g[r.key]

Answer(old, new, r) ==
    IF old = new /\ (Kind(r) \in {"string", "dir"} => new # "default") /\ Kind(r) # "endpoints"
      THEN "no_change" ELSE "success"

\* The main process forks a child for the command; the child has its mappings.
SetStart(p, r) ==
    /\ job[p].pc = "idle"
    /\ job["main"].pc \notin {"died", "exited"}
    /\ job' = [job EXCEPT ![p] = [Idle EXCEPT !.pc = "copy_values", !.copy = Blank,
                                              !.request = r, !.alone = (Transferring = {})]]
    /\ foreign' = IF "main" \in foreign THEN foreign \cup {p} ELSE foreign \ {p}
    /\ UNCHANGED << scope, file, certs, edits, config, mixed >>

\* It copies the configuration, which others may be writing.
SetCopy(p) ==
    /\ job[p].pc \in CopyBlocks
    /\ job' = [job EXCEPT ![p] = [@ EXCEPT !.pc   = AfterCopy(job[p].pc),
                                           !.copy = Copied(job[p].copy, config, job[p].pc)]]
    /\ UNCHANGED << scope, file, certs, edits, config, foreign, mixed >>

\* The copy with the new value, as validation leaves it.
Candidate(p) == Normalise(Changed(job[p].copy, job[p].request))

\* Fault: the copy is not validated.
AcceptableUnvalidated(p) == ~ Unreadable(job[p].request)

Acceptable(p) == ~ Unreadable(job[p].request) /\ Valid(Candidate(p))

\* It converts the text and validates the copy.
SetValidate(p) ==
    LET r  == job[p].request
        ok == Known(r) /\ ~ Refused(Kind(r), r.text)
    IN  /\ job[p].pc = "validate"
        /\ \/ ~ Known(r) /\ End(p, "unknown")
           \/ Known(r) /\ ~ ok /\ End(p, "invalid")
           \/ ok /\ ~ Acceptable(p) /\ End(p, "failed")
           \/ /\ ok /\ Acceptable(p)
              /\ job' = [job EXCEPT ![p] = [@ EXCEPT !.pc = "check", !.new = Candidate(p),
                                                     !.old = Shown(config, r),
                                                     !.alone = FALSE]]
        /\ UNCHANGED << scope, file, certs, edits, config, foreign, mixed >>

SetAnswer(p) ==
    /\ job[p].pc = "answer"
    /\ End(p, Answer(job[p].old, Shown(config, job[p].request), job[p].request))
    /\ UNCHANGED << scope, file, certs, edits, config, foreign, mixed >>

----------------------------------------------------------------------------
(* The files, the main process.                                            *)

\* Behaviours in which the files stay as they are and nobody reloads.
SetsOnly == scope \in {"set", "sets"}

\* SIGHUP or "conf reload": a structure of its own is read and validated; a file
\* that does not validate ends the reload, two servers of one name end the process.
ReloadRead ==
    /\ ~ SetsOnly
    /\ job["main"].pc = "idle"
    /\ \/ file.names = "duplicate" /\ Finish("main", "exited", "none")
       \/ /\ file.names = "distinct"
          /\ file.g.metrics_path # "bad"
          /\ Valid(Load(file))
          /\ job' = [job EXCEPT !["main"].pc = "check", !["main"].new = Normalise(Load(file))]
    /\ UNCHANGED << scope, file, certs, edits, config, foreign, mixed >>

Edit(f) ==
    /\ ~ SetsOnly
    /\ edits < MaxEdits
    /\ edits' = edits + 1
    /\ file' = f
    /\ UNCHANGED << scope, certs, config, foreign, mixed, job >>

EditKey(k, text)    == k \in Key /\ Edit([file EXCEPT !.g[k] = text])
EditServer(k, text) == file.servers # << >> /\ Edit([file EXCEPT !.servers[1][k] = text])
EditUsers           == Edit([file EXCEPT !.users = "b"])
EditNames(n)        == Edit([file EXCEPT !.names = n])
AddServer    == Len(file.servers) = 1 /\ Edit([file EXCEPT !.servers = @ \o @])
RemoveServer == file.servers # << >> /\ Edit([file EXCEPT !.servers = Tail(@)])

CertsRemoved ==
    /\ scope \in {"file", "set"}
    /\ certs
    /\ certs' = FALSE
    /\ UNCHANGED << scope, file, edits, config, foreign, mixed, job >>

Init ==
    /\ scope \in Scopes
    /\ file = StartFile
    /\ certs = TRUE
    /\ edits = 0
    /\ config = StartUp(StartFile)
    /\ foreign = {}
    /\ mixed = FALSE
    /\ job = [p \in Process |-> Idle]

\* One setter asks for anything; in a race two ask for a probed key, or one while the
\* main process reloads.
SomeSet(p) ==
    \/ /\ scope = "set"
       /\ \A q \in Setter : job[q].pc = "idle"
       /\ \E r \in Request : SetStart(p, r)
    \/ /\ scope \in {"sets", "reloads"}
       /\ scope = "reloads" => \A q \in Setter : job[q].pc = "idle"
       /\ \E k \in Probe : SetStart(p, [server |-> 0, key |-> k, text |-> "b"])

\* One edit of anything, or several of a probed key, the users and the servers.
SomeEdit ==
    \/ scope = "file" /\ edits = 0 /\ \E k \in Key, text \in Text : EditKey(k, text)
    \/ scope = "file" /\ \E k \in Probe : EditKey(k, "b")
    \/ scope = "file" /\ edits = 0 /\ \E k \in SKey, text \in Text : EditServer(k, text)
    \/ scope \in {"file", "reloads"} /\ (AddServer \/ RemoveServer)
    \/ scope = "file" /\ \E n \in {"reserved", "duplicate"} : EditNames(n)
    \/ scope = "reloads" /\ EditServer("user", "b")
    \/ scope \in {"file", "reloads"} /\ EditUsers

SetterStep(p) == SomeSet(p) \/ SetCopy(p) \/ SetValidate(p) \/ SetAnswer(p)

Next ==
    \/ \E p \in Setter : SetterStep(p)
    \/ \E p \in Process : Check(p) \/ TransferBlock(p) \/ Dies(p)
    \/ ReloadRead
    \/ SomeEdit \/ CertsRemoved

Spec == Init /\ [][Next]_vars

----------------------------------------------------------------------------

\* The servers of the longest file; a structure has a value for every key.
Structure(c) ==
    /\ c.g \in [Field -> Value]
    /\ c.servers \in Seq([SKey -> Value])
    /\ Len(c.servers) \in 0..2

\* Where a process has a structure to transfer.
Decided == Blocks \cup {"check", "answer"}

TypeOK ==
    /\ scope \in Scopes
    /\ certs \in BOOLEAN
    /\ edits \in 0..MaxEdits
    /\ Structure(config)
    /\ foreign \subseteq Process
    /\ mixed \in BOOLEAN
    /\ \A p \in Process :
          /\ job[p].pc \in CopyBlocks \cup Decided \cup {"idle", "validate", "done", "died", "exited"}
          /\ job[p].pc \in CopyBlocks \cup {"validate"} => Structure(job[p].copy)
          /\ job[p].pc \in Decided => Structure(job[p].new)

\* A list of the structure is zeroed and not filled again yet.
Unfilled(list) == \E p \in Process : job[p].pc = list

\* However changes and reloads overlap, what validation asks of each value and of each
\* server is true of the running configuration at every moment, but for a list that is
\* being written: copies that are torn or stale, and transfers that interleave, bring
\* in no value that was not validated.
ValuesValid ==
    /\ config.g.host # "default"
    /\ config.g.unix_socket_dir \notin {"default", "invalid"}
    /\ PortsValid(config)
    /\ EnumsValid(config)
    /\ config.g.users # "default" \/ Unfilled("users")
    /\ \/ Unfilled("servers")
       \/ /\ config.servers # << >>
          /\ \A i \in DOMAIN config.servers :
                /\ config.servers[i].host # "default"
                /\ config.servers[i].port # "default"
                /\ config.servers[i].type # "invalid"

\* Validation also asks that the user of each server is known. A transfer that began
\* when no other was under way leaves a structure that validation accepts as a whole,
\* whatever was set, edited and reloaded before and however torn the copy was that it
\* began with.
RunningIsValid == Transferring = {} /\ ~ mixed => Valid(config)

\* transfer_configuration would "atomically decide whether the live configuration can
\* accept the change" and "apply changes" (configuration.c:2697 and 3495): once everybody
\* has come to its end the running configuration is one that validation accepts.
TransferIsAtomic ==
    Transferring = {} /\ (\A p \in Process : job[p].pc # "died") => Valid(config)

\* However sets and reloads overlap, and although what was checked may have changed
\* when the transfer gets to it, the structure goes on saying what the process acted on
\* when it started, and where its first server is.
StructuralFixed ==
    /\ \A k \in BoundAtStart : config.g[k] = AtStart.g[k]
    /\ Unfilled("servers") \/ SameServer(config.servers[1], AtStart.servers[1])

\* A server is taken away by no transfer that ran alone.
ServersStay == [][~ mixed => Len(config'.servers) >= Len(config.servers)]_config

\* The fields outside the key of a request that a "conf set" may move: the names of the
\* metrics, the definitions under a new metrics_path, certificates that are gone.
SideEffects(r) ==
    {"metric_names"}
        \cup (IF r.key = "metrics_path" THEN {"prometheus"} ELSE {})
        \cup (IF certs THEN {} ELSE {"metrics_cert_file", "metrics_key_file", "metrics_ca_file"})

\* The certificates of the history port are neither copied nor transferred.
NeverSet == {"history_cert_file", "history_key_file", "history_ca_file"}

\* The copy a "conf set" works on leaves nothing out but those and the names of the
\* metrics: unless somebody writes meanwhile it is the running configuration.
CopyIsFaithful ==
    \A p \in Setter : job[p].pc = "validate" /\ job[p].alone =>
        /\ job[p].copy.servers = config.servers
        /\ \A k \in Field \ (NeverSet \cup {"metric_names"}) : job[p].copy.g[k] = config.g[k]

\* All of the structure goes through the copy and the transfer of a "conf set". A field
\* that is not the one it was asked for it leaves alone, or sets to what it was when it
\* was copied: that is how far a change of somebody else can be undone.
SetTouchesOnlyItsKey ==
    [][ \A p \in Setter :
          job[p].pc \in Blocks /\ job'[p] # job[p] =>
              LET r == job[p].request
                  c == job[p].copy
              IN  /\ \A k \in Field :
                        \/ config'.g[k] \in {config.g[k], c.g[k]}
                        \/ r.server = 0 /\ k = r.key
                        \/ k \in SideEffects(r) \cup Cleared(job[p].pc)
                  /\ job[p].pc = "servers" =>
                        /\ DOMAIN config'.servers = DOMAIN c.servers
                        /\ \A i \in DOMAIN c.servers, k \in SKey :
                              config'.servers[i][k] = c.servers[i][k] \/ (r.server = i /\ k = r.key)
      ]_<< config, job >>

\* A reload that no other transfer overlaps makes everything else what a restart would
\* make it, whatever was set or reloaded before, and the query trees are those of the
\* main process again. (A certificate that vanishes between the reading and the
\* transfer is noticed by the next reload.)
ReloadLikeRestart ==
    [][ job["main"].pc = "alerts" /\ job'["main"].pc = "idle" /\ ~ mixed =>
          /\ \A k \in Field \ NotLikeRestart : config'.g[k] = job["main"].new.g[k]
          /\ config'.servers = job["main"].new.servers
          /\ "main" \notin foreign'
      ]_<< config, job >>

=============================================================================
