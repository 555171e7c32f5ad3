------------------------------- MODULE Admin -------------------------------
(***************************************************************************)
(* pgexporter-admin: the master key and the users file. A run of the tool  *)
(* is one command; runs may fail, be killed between any two steps, and     *)
(* overlap. A file is an inode with lines and a directory maps names to    *)
(* inodes, because the temporary files are shared by name.                 *)
(***************************************************************************)
EXTENDS Naturals, Sequences

CONSTANTS
    Run,              \* the runs of the tool
    Commands,         \* what each run is asked to do
    NumberOfUsers     \* NUMBER_OF_USERS

VARIABLES
    task,             \* task[r]: the command of the run
    pc,               \* pc[r]: where it is
    dir,              \* dir[name]: the inode a name stands for
    data,             \* data[i]: the lines of an inode
    input, output,    \* the inodes a run has open
    buffer,           \* what a run has read or is about to write
    secret,           \* the master key a run read when it started
    intruded,         \* a run removed a temporary file that was not its own
    cut               \* the runs whose writing to a users file came out short

vars == << task, pc, dir, data, input, output, buffer, secret, intruded, cut >>

----------------------------------------------------------------------------

Name  == {"users", "users.tmp", "key", "key.tmp"}
None  == "none"
Inode == Run \cup {"old"}         \* a run makes at most one file

Over     == {"done", "failed", "killed"}
AtWork   == {r \in Run : pc[r] \notin Over \cup {"idle"}}
Goto(r, at) == pc' = [pc EXCEPT ![r] = at]

\* An entry of the users file, encrypted under the master key.
Entry(r) == [user |-> task[r].user, password |-> task[r].password, key |-> secret[r]]

\* pgexporter_get_master_key_and_salt: both lines must be there.
HasKey    == dir["key"] # None /\ Len(data[dir["key"]]) = 1
MasterKey == data[dir["key"]][1]

Knows(lines, u) == \E i \in DOMAIN lines : lines[i].user = u

\* What a write at the beginning of a file leaves in it.
Overlay(new, old) == new \o SubSeq(old, Len(new) + 1, Len(old))

\* On a full disk the lines that come first are there, and perhaps a piece of the next one,
\* which nobody can decrypt.
Broken    == {"cut", "joined"}
Torn(e)   == [e EXCEPT !.key = "cut"]
Joined(e) == [e EXCEPT !.key = "joined"]

Short(lines) ==
    UNION {{ [i \in 1..(n - 1) |-> lines[i]],
             [i \in 1..n |-> IF i = n THEN Torn(lines[i]) ELSE lines[i]] } : n \in 1..Len(lines)}

\* fputs() and fclose(), whose results are not looked at.
Put(r, lines) ==
    \/ /\ data' = [data EXCEPT ![output[r]] = Overlay(lines, @)]
       /\ UNCHANGED cut
    \/ /\ task[r].full
       /\ \E part \in Short(lines) : data' = [data EXCEPT ![output[r]] = Overlay(part, @)]
       /\ cut' = cut \cup {r}

\* A line at the end; it becomes part of a line that has no end.
Added(lines, e) ==
    LET n == Len(lines)
    IN  IF n > 0 /\ lines[n].key = "cut"
          THEN [lines EXCEPT ![n] = IF e.key = "cut" THEN lines[n] ELSE Joined(lines[n])]
          ELSE Append(lines, e)

Init ==
    /\ task \in Commands
    /\ pc = [r \in Run |-> "idle"]
    /\ dir = [n \in Name |-> None]
    /\ data = [i \in Inode |-> << >>]
    /\ input = [r \in Run |-> None]
    /\ output = [r \in Run |-> None]
    /\ buffer = [r \in Run |-> << >>]
    /\ secret = [r \in Run |-> None]
    /\ intruded = FALSE
    /\ cut = {}

\* main: one command; the commands on users read the key first (all but removing).
Start(r) ==
    /\ pc[r] = "idle"
    /\ task[r].alone => AtWork = {}
    /\ \A q \in AtWork : ~ task[q].alone
    /\ Goto(r, CASE task[r].command = "master-key"            -> "key_check"
                 [] task[r].command \in {"add", "update"}     -> IF HasKey THEN task[r].command ELSE "failed"
                 [] task[r].command = "remove"                -> "remove")
    /\ secret' = [secret EXCEPT ![r] = IF HasKey THEN MasterKey ELSE None]
    /\ UNCHANGED << task, dir, data, input, output, buffer, intruded, cut >>

Killed(r) ==
    /\ r \in AtWork
    /\ Goto(r, "killed")
    /\ UNCHANGED << task, dir, data, input, output, buffer, secret, intruded, cut >>

\* A failing run removes the temporary file by its name, whoever made it.
Unlink(r, n) ==
    /\ dir' = [dir EXCEPT ![n] = None]
    /\ intruded' = (intruded \/ dir[n] \notin {None, output[r]})

----------------------------------------------------------------------------
(* master_key.                                                             *)

KeyCheck(r) ==
    /\ pc[r] = "key_check"
    /\ IF dir["key"] # None
         THEN Goto(r, "failed") /\ Unlink(r, "key.tmp")
         ELSE Goto(r, "key_create") /\ UNCHANGED << dir, intruded >>
    /\ UNCHANGED << task, data, input, output, buffer, secret, cut >>

\* Fault: the file is made under its final name.
KeyCreateInPlace(r) ==
    /\ pc[r] = "key_create"
    /\ dir["key"] = None
    /\ dir' = [dir EXCEPT !["key"] = r]
    /\ output' = [output EXCEPT ![r] = r]
    /\ Goto(r, "key_write")
    /\ UNCHANGED << task, data, input, buffer, secret, intruded, cut >>

\* open() with O_CREAT and O_EXCL.
KeyCreate(r) ==
    /\ pc[r] = "key_create"
    /\ IF dir["key.tmp"] # None
         THEN Goto(r, "failed") /\ Unlink(r, "key.tmp") /\ UNCHANGED output
         ELSE /\ dir' = [dir EXCEPT !["key.tmp"] = r]
              /\ output' = [output EXCEPT ![r] = r]
              /\ Goto(r, "key_write")
              /\ UNCHANGED intruded
    /\ UNCHANGED << task, data, input, buffer, secret, cut >>

\* The key is asked for, checked (is_valid_key), written with its salt and synced.
KeyWrite(r) ==
    /\ pc[r] = "key_write"
    /\ \/ /\ data' = [data EXCEPT ![output[r]] = << r >>]
          /\ Goto(r, "key_link")
          /\ UNCHANGED << dir, intruded >>
       \/ Goto(r, "failed") /\ Unlink(r, "key.tmp") /\ UNCHANGED data
    /\ UNCHANGED << task, input, output, buffer, secret, cut >>

\* Fault: rename() instead of link().
KeyLinkReplaces(r) ==
    /\ pc[r] = "key_link"
    /\ IF dir["key.tmp"] = None
         THEN Goto(r, "failed") /\ UNCHANGED dir
         ELSE dir' = [dir EXCEPT !["key"] = dir["key.tmp"]] /\ Goto(r, "key_unlink")
    /\ UNCHANGED << task, data, input, output, buffer, secret, intruded, cut >>

\* link() fails when the key exists, and when the temporary file is gone.
KeyLink(r) ==
    /\ pc[r] = "key_link"
    /\ IF dir["key"] # None \/ dir["key.tmp"] = None
         THEN Goto(r, "failed") /\ Unlink(r, "key.tmp")
         ELSE /\ dir' = [dir EXCEPT !["key"] = dir["key.tmp"]]
              /\ Goto(r, "key_unlink")
              /\ UNCHANGED intruded
    /\ UNCHANGED << task, data, input, output, buffer, secret, cut >>

KeyUnlink(r) ==
    /\ pc[r] = "key_unlink"
    /\ Unlink(r, "key.tmp")
    /\ Goto(r, "done")
    /\ UNCHANGED << task, data, input, output, buffer, secret, cut >>

----------------------------------------------------------------------------
(* add_user: the file is opened for appending and made if it is not there. *)

AddOpen(r) ==
    /\ pc[r] = "add"
    /\ LET i == IF dir["users"] = None THEN r ELSE dir["users"]
       IN  /\ dir' = [dir EXCEPT !["users"] = i]
           /\ output' = [output EXCEPT ![r] = i]
           /\ buffer' = [buffer EXCEPT ![r] = data[i]]
    /\ Goto(r, "add_check")
    /\ UNCHANGED << task, data, input, secret, intruded, cut >>

\* Fault: an entry that is there already is not looked for.
AddCheckOnlyNumber(r) ==
    /\ pc[r] = "add_check"
    /\ Goto(r, IF Len(buffer[r]) > NumberOfUsers THEN "failed" ELSE "add_append")
    /\ UNCHANGED << task, dir, data, input, output, buffer, secret, intruded, cut >>

AddCheck(r) ==
    /\ pc[r] = "add_check"
    /\ Goto(r, IF Knows(buffer[r], task[r].user) \/ Len(buffer[r]) > NumberOfUsers
                 THEN "failed" ELSE "add_append")
    /\ UNCHANGED << task, dir, data, input, output, buffer, secret, intruded, cut >>

\* The password is asked for and encrypted; one write at the end of the file, and nobody
\* looks whether it arrived.
AddAppend(r) ==
    /\ pc[r] = "add_append"
    /\ \/ /\ data' = [data EXCEPT ![output[r]] = Added(@, Entry(r))]
          /\ Goto(r, "done")
          /\ UNCHANGED cut
       \/ /\ task[r].full
          /\ \/ data' = [data EXCEPT ![output[r]] = Added(@, Torn(Entry(r)))]
             \/ UNCHANGED data
          /\ Goto(r, "done")
          /\ cut' = cut \cup {r}
       \/ Goto(r, "failed") /\ UNCHANGED << data, cut >>
    /\ UNCHANGED << task, dir, input, output, buffer, secret, intruded >>

----------------------------------------------------------------------------
(* update_user and remove_user: the file is rewritten under another name.  *)

\* Fault: the users file itself is rewritten.
RewriteOpenInPlace(r) ==
    /\ pc[r] \in {"update", "remove"}
    /\ dir["users"] # None
    /\ input' = [input EXCEPT ![r] = dir["users"]]
    /\ output' = [output EXCEPT ![r] = dir["users"]]
    /\ buffer' = [buffer EXCEPT ![r] = data[dir["users"]]]
    /\ data' = [data EXCEPT ![dir["users"]] = << >>]
    /\ Goto(r, "rewrite")
    /\ UNCHANGED << task, dir, secret, intruded, cut >>

\* fopen() with "w+" empties a temporary file that is there. (Without a users file
\* remove_user goes to the removal of the temporary file with a name that was never set,
\* which is none of the names here.)
RewriteOpen(r) ==
    /\ pc[r] \in {"update", "remove"}
    /\ IF dir["users"] = None
         THEN Goto(r, "failed") /\ UNCHANGED << dir, data, input, output, buffer >>
         ELSE LET i == IF dir["users.tmp"] = None THEN r ELSE dir["users.tmp"]
              IN  /\ dir' = [dir EXCEPT !["users.tmp"] = i]
                  /\ data' = [data EXCEPT ![i] = << >>]
                  /\ input' = [input EXCEPT ![r] = dir["users"]]
                  /\ output' = [output EXCEPT ![r] = i]
                  /\ buffer' = [buffer EXCEPT ![r] = data[dir["users"]]]
                  /\ Goto(r, "rewrite")
    /\ UNCHANGED << task, secret, intruded, cut >>

\* The lines that are not about u, in their order (a set of one sequence).
Without(lines, u) ==
    LET keep     == {i \in DOMAIN lines : lines[i].user # u}
        Order(n) == {f \in [1..n -> keep] :
                       /\ \A i, j \in 1..n : i < j => f[i] < f[j]
                       /\ \A k \in keep : \E i \in 1..n : f[i] = k}
    IN  UNION {{[i \in 1..n |-> lines[f[i]]] : f \in Order(n)} : n \in 0..Len(lines)}

\* What the loop over the lines puts out: the entry with the new password, or without
\* the user; an entry that cannot be encrypted is kept.
Rewritten(r) ==
    LET Mine(e) == e.user = task[r].user
        New(e)  == IF Mine(e) THEN Entry(r) ELSE e
    IN  IF task[r].command = "remove"
          THEN Without(buffer[r], task[r].user)
          ELSE {[i \in DOMAIN buffer[r] |-> New(buffer[r][i])], buffer[r]}

Rewrite(r) ==
    /\ pc[r] = "rewrite"
    /\ \/ /\ Knows(buffer[r], task[r].user)
          /\ \E lines \in Rewritten(r) : Put(r, lines)
          /\ Goto(r, "rename")
          /\ UNCHANGED << dir, intruded >>
       \/ /\ ~ Knows(buffer[r], task[r].user)
          /\ Put(r, buffer[r])
          /\ Unlink(r, "users.tmp")
          /\ Goto(r, "failed")
    /\ UNCHANGED << task, input, output, buffer, secret >>

\* The result of rename() is not looked at.
Rename(r) ==
    /\ pc[r] = "rename"
    /\ dir' = IF dir["users.tmp"] = None THEN dir
                ELSE [dir EXCEPT !["users"] = dir["users.tmp"], !["users.tmp"] = None]
    /\ Goto(r, "done")
    /\ UNCHANGED << task, data, input, output, buffer, secret, intruded, cut >>

Step(r) ==
    \/ Start(r) \/ KeyCheck(r) \/ KeyCreate(r) \/ KeyWrite(r) \/ KeyLink(r) \/ KeyUnlink(r)
    \/ AddOpen(r) \/ AddCheck(r) \/ AddAppend(r)
    \/ RewriteOpen(r) \/ Rewrite(r) \/ Rename(r)

Next == \E r \in Run : Step(r) \/ Killed(r)

Spec == Init /\ [][Next]_vars

----------------------------------------------------------------------------

Users == IF dir["users"] = None THEN << >> ELSE data[dir["users"]]

TypeOK ==
    /\ pc \in [Run -> Over \cup {"idle", "key_check", "key_create", "key_write", "key_link",
                                 "key_unlink", "add", "add_check", "add_append",
                                 "update", "remove", "rewrite", "rename"}]
    /\ dir \in [Name -> Inode \cup {None}]
    /\ input \in [Run -> Inode \cup {None}]
    /\ output \in [Run -> Inode \cup {None}]
    /\ intruded \in BOOLEAN
    /\ cut \subseteq Run
    /\ \A r \in Run : pc[r] \in {"key_write", "key_link", "add_append", "rename"} => output[r] # None

\* A master key that is there is never taken away or exchanged, whatever runs overlap
\* or are killed: what is encrypted under it can be decrypted.
KeyKept == [][dir["key"] # None => dir'["key"] = dir["key"]]_vars

\* A master key that is there is whole, although another run may find or remove the
\* temporary file at any moment. Only after a failing run removed the temporary file of
\* another one may a third link a file that is not written yet: then its writer is about
\* to write it, or has ended before it could.
KeyIsWhole ==
    dir["key"] # None =>
        \/ HasKey
        \/ intruded /\ pc[dir["key"]] \in {"key_write", "failed", "killed"}

\* Every entry of the users file can be decrypted: keys and entries may be made by runs
\* that overlap, fail and are killed. Only a write that came out short leaves lines that
\* cannot.
EntriesReadable ==
    dir["key"] # None /\ HasKey =>
        \A i \in DOMAIN Users :
            Users[i].key = MasterKey \/ (Users[i].key \in Broken /\ cut # {})

\* Runs that do not overlap keep one entry for each user, unless a write came out short.
OneEntryEach ==
    (\A r \in Run : task[r].alone) /\ cut = {} =>
        \A i, j \in DOMAIN Users : Users[i].user = Users[j].user => i = j

\* With runs that do not overlap, a step changes or removes no entry but the one of the
\* user it was asked to, wherever earlier runs were killed; but a run whose writing came
\* out short renames what there is over the users file, and what is missing in it is lost.
OthersKept ==
    [][(\A r \in Run : task[r].alone) =>
         \A i \in DOMAIN Users :
            \/ Users[i].key \in Broken
            \/ \E j \in DOMAIN Users' : Users'[j] = Users[i]
            \/ \E r \in Run : pc[r] = "rename" /\ (task[r].user = Users[i].user \/ r \in cut)]_vars

=============================================================================
