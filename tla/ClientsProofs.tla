--------------------------- MODULE ClientsProofs ---------------------------
(***************************************************************************)
(* Proofs about the clients' side: installing, updating, disabling and     *)
(* removing plugins leaves what is published fit to run, whatever fails or *)
(* is killed; and what GtkClientProofs and QtClientProofs prove of the two *)
(* clients, stated for the specification that TLC checks.                  *)
(***************************************************************************)
EXTENDS MCClients, FiniteSetTheorems, TLAPS

-----------------------------------------------------------------------------
(***************************************************************************)
(* The inductive invariant.                                                *)
(***************************************************************************)

\* Where a client holds the lock: it builds and publishes, undoes that, sweeps what
\* it replaced, removes, or stops a process.
Building == {"aside", "place", "build", "manifest", "service", "record"}
Undoing == {"unrecord", "unservice", "unmanifest", "rmvenv", "rmtarget", "putback"}
Removing == {"rmmanifest", "rmsource", "rmservice", "rmvenvs", "rmrecord", "reenable"}
Stopping == {"pid", "from", "pidfd", "recheck", "signal", "wait"}
Changing == Building \cup Undoing \cup {"sweep"} \cup Removing
Locked == Changing \cup {"owner"} \cup Stopping
Waiting == {"idle", "prepare", "ask", "commit", "remove", "disable", "enable"}

Environment == [id : Ids, commit : Nat, extra : Nat]
InstallRecord == [venv : Environment, at : Nat]
Files == [manifest : [Ids -> Environment \cup {None}], service : Environment \cup {None},
          record : [Ids -> InstallRecord \cup {None}]]
Venv == [path : Environment, build : Nat, whole : BOOLEAN]
Disk == [files : Files, src : [Ids -> Nat \cup {None}], venvs : SUBSET Venv,
         disabled : SUBSET Ids, head : Nat, built : Nat, damaged : SUBSET Ids,
         torn : SUBSET Ids]
Process == [path : Environment \cup {None}, build : Nat \cup {None}, pid : Nat,
            state : {"starting", "running", "dead", "other"}, pardon : BOOLEAN]
Procs == [all : Seq(Process), owner : Nat \cup {None}, wrong : BOOLEAN]
Ops == {"install", "update", "remove", "enable", "disable"}
Command == [op : Ops, id : Ids]
Client == [pc : Waiting \cup Locked, plan : Seq(Command), op : Ops \cup {None},
           id : Ids \cup {None}, commit : Nat \cup {None}, previous : InstallRecord \cup {None},
           before : Files \cup {None}, aside : Nat \cup {None}, venv : Environment \cup {None},
           roots : SUBSET Environment, kept : SUBSET Environment, own : Nat \cup {None},
           pid : Nat \cup {None}, fd : Nat \cup {None}]

PluginTyped ==
    /\ disk \in Disk /\ cl \in [Clients -> Client] /\ lock \in Clients \cup {None}
    /\ procs \in Procs

\* The lock is held by the client that changes something.  A client that has not
\* begun to build has no environment of its own, and has failed to remove none.
Named(s) ==
    /\ s.pc # "idle" => s.id \in Ids
    /\ s.pc \in {"prepare", "ask", "commit"} \cup Building \cup {"sweep"} => s.commit \in Nat
    /\ s.pc \in Waiting \cup {"aside", "place"} \cup Removing => s.venv = None
    /\ s.pc \in Waiting => s.kept = {}
Holding == \A c \in Clients : Named(cl[c]) /\ (cl[c].pc \in Locked <=> lock = c)

\* An environment that can be run, files that name no other unless the plugin is torn,
\* and records of a plugin's own environments.
Whole(v) == \E w \in disk.venvs : w.path = v /\ w.whole
CanRun(f) ==
    /\ \A i \in Ids : f.manifest[i] # None /\ f.manifest[i].id \notin disk.torn => Whole(f.manifest[i])
    /\ f.service # None /\ f.service.id \notin disk.torn => Whole(f.service)
    /\ \A i \in Ids : f.record[i] # None => f.record[i].venv.id = i

\* New environments get a path of their own.
Fresh == disk.built >= 1 /\ \A w \in disk.venvs : w.path.extra < disk.built

TornIsDamaged == disk.torn \subseteq disk.damaged

Manifest(i) == disk.files.manifest[i]
Service == disk.files.service
Gone(i) == Record(i) = None /\ Manifest(i) = None
One == \A i, k \in Ids : i # k => Gone(i) \/ Gone(k)

\* Of the client that holds the lock: no other plugin has the bus name.
Alone(s) == s.pc \in Changing => \A i \in Ids \ {s.id} : Gone(i)

\* What was published before a commit can still be run, and is not the new
\* environment, which is whole before it is published.
Keeps(s) ==
    s.pc \in Building \cup Undoing =>
        /\ s.before \in Files /\ CanRun(s.before)
        /\ \A i \in Ids : s.before.manifest[i] # None /\ s.before.manifest[i].id \notin disk.torn =>
               s.before.manifest[i] # s.venv
        /\ s.before.service # None /\ s.before.service.id \notin disk.torn =>
               s.before.service # s.venv
        /\ s.before.service # None => s.before.service.id \in disk.damaged \cup {s.id}
        /\ \A i \in Ids \ {s.id} : s.before.record[i] = None /\ s.before.manifest[i] = None
Builds(s) ==
    /\ s.pc \in {"build", "manifest", "service", "record", "sweep"} \cup Undoing =>
           s.venv \in Environment /\ s.venv.id = s.id
    /\ s.pc = "build" => \E w \in disk.venvs : w.path = s.venv
    /\ s.pc \in {"manifest", "service", "record", "sweep", "unrecord", "unservice", "unmanifest"} =>
           Whole(s.venv)
    /\ s.pc \in {"rmtarget", "putback"} /\ s.id \notin disk.damaged =>
           \A w \in disk.venvs : w.path # s.venv
Publishes(s) ==
    /\ s.pc \in Building \cup {"unrecord", "unservice", "unmanifest"} =>
           disk.files.record = s.before.record
    /\ s.pc \in {"aside", "place", "build", "manifest"} => Manifest(s.id) = s.before.manifest[s.id]
    /\ s.pc \in {"aside", "place", "build", "manifest", "service", "unmanifest"} =>
           Service = s.before.service
    /\ s.pc \in {"rmvenv", "rmtarget", "putback"} /\ s.id \notin disk.torn =>
           /\ disk.files.record = s.before.record /\ Service = s.before.service
           /\ Manifest(s.id) = s.before.manifest[s.id]
    /\ s.pc \in {"service", "record", "sweep"} => Manifest(s.id) = s.venv
    /\ s.pc \in {"record", "sweep"} => Service = s.venv
    /\ s.pc = "sweep" => Record(s.id) # None /\ Record(s.id).venv = s.venv
    /\ s.pc \in Removing \ {"rmmanifest"} => Manifest(s.id) = None
    /\ s.pc \in {"rmvenvs", "rmrecord", "reenable"} => Service = None
    /\ s.pc = "reenable" => Record(s.id) = None

\* The directories of the plugin that is being changed.
Places(s) ==
    /\ s.pc \in Building \cup {"sweep"} \cup Removing => \A r \in s.roots : r.id = s.id
    /\ s.pc \in Building \cup {"sweep"} => PluginVenvs(s.id) \subseteq s.roots \cup {s.venv}
    /\ s.pc \in {"build", "manifest", "service", "record", "sweep"} =>
           disk.src[s.id] = s.commit /\ s.venv.commit = s.commit
    /\ s.pc \in Removing => PluginVenvs(s.id) \subseteq s.roots /\ s.roots # {}
    /\ s.pc = "rmrecord" => PluginVenvs(s.id) \subseteq s.kept
    /\ s.pc = "reenable" /\ s.id \notin disk.damaged => PluginVenvs(s.id) = {}
    /\ s.pc \in Changing /\ s.kept # {} => s.id \in disk.damaged

\* Manifest, service, record, checkout and environments of a plugin agree.
Agreed(i, f, src, paths) ==
    IF f.record[i] = None
      THEN /\ f.manifest[i] = None /\ paths = {}
           /\ f.service # None => f.service.id # i
      ELSE LET v == f.record[i].venv
           IN  f.manifest[i] = v /\ f.service = v /\ paths = {v} /\ src = v.commit
AgreedNow(i) == Agreed(i, disk.files, disk.src[i], PluginVenvs(i))

\* So they did before the commit, which puts everything back if it fails.
AgreedBefore(s) ==
    s.pc \in Building \cup Undoing /\ s.id \notin disk.damaged =>
        Agreed(s.id, s.before, IF s.pc = "aside" THEN disk.src[s.id] ELSE s.aside,
               PluginVenvs(s.id) \ {s.venv})

Work(s) ==
    Alone(s) /\ Keeps(s) /\ Builds(s) /\ Publishes(s) /\ Places(s) /\ AgreedBefore(s)

\* All plugins agree but those that are being changed, or were left half changed.
Agreement ==
    \A i \in Ids \ disk.damaged :
        (\A c \in Clients : lock = c /\ cl[c].id = i => cl[c].pc \notin Changing) => AgreedNow(i)

\* The bus name has one owner, and process ids are unique.
All == DOMAIN procs.all
State(i) == procs.all[i].state
Bus ==
    /\ ~procs.wrong
    /\ procs.owner # None => procs.owner \in All
    /\ \A i \in All : State(i) = "running" <=> procs.owner = i
    /\ \A i \in All : State(i) = "starting" => procs.owner = None
    /\ \A i, k \in All : State(i) = "starting" /\ State(k) = "starting" => i = k
    /\ \A i, k \in All : Alive(i) /\ Alive(k) /\ procs.all[i].pid = procs.all[k].pid => i = k

\* The process runs code that is there, of an enabled plugin, or is excused.
Fine(i) ==
    State(i) \in {"starting", "running"} /\ ~procs.all[i].pardon =>
        /\ procs.all[i].path.id \notin disk.disabled
        /\ \E v \in disk.venvs : v.build = procs.all[i].build
AllFine == \A i \in All : Fine(i)

\* Of the client that holds the lock: what it has to stop, and how far it is.
Stops(s) ==
    /\ s.pc \in Building \cup {"sweep", "owner"} /\ s.roots = {} => AllFine
    /\ s.pc \in Stopping =>
           /\ s.own \in All /\ State(s.own) \in {"running", "dead"}
           /\ \A i \in All \ {s.own} : Fine(i)
    /\ s.pc \in Stopping \ {"pid"} => s.pid = procs.all[s.own].pid
    /\ s.pc \in {"pidfd", "recheck"} /\ Alive(s.own) => procs.all[s.own].path \in s.roots
    /\ s.pc = "recheck" => s.fd \in All /\ (Alive(s.own) => s.fd = s.own)
    /\ s.pc = "signal" => s.fd = s.own /\ procs.all[s.own].path \in s.roots

PluginInv ==
    /\ PluginTyped /\ Holding /\ Fresh /\ TornIsDamaged /\ CanRun(disk.files) /\ One
    /\ Agreement /\ Bus
    /\ lock = None => AllFine
    /\ \A c \in Clients : lock = c => Work(cl[c]) /\ Stops(cl[c])

-----------------------------------------------------------------------------
(***************************************************************************)
(* Records: what a change of one field does to the others.                 *)
(***************************************************************************)

LEMMA NoneApart ==
    /\ None \notin Environment /\ None \notin InstallRecord /\ None \notin Nat
    /\ None \notin Ids /\ None \notin Clients
BY PluginAssumption DEF Environment, InstallRecord

SameDirs(d, e) == e.src = d.src /\ e.venvs = d.venvs /\ e.built = d.built
SameRest(d, e) == e.disabled = d.disabled /\ e.damaged = d.damaged /\ e.torn = d.torn

\* Or a plugin is damaged, but not torn.
HurtsOnly(d, e, id) ==
    e.disabled = d.disabled /\ e.damaged \in {d.damaged, d.damaged \cup {id}} /\ e.torn = d.torn

LEMMA DiskFields ==
    ASSUME PluginTyped
    PROVE  /\ disk.files \in Files /\ disk.src \in [Ids -> Nat \cup {None}]
           /\ disk.venvs \in SUBSET Venv /\ disk.built \in Nat /\ disk.head \in Nat
           /\ disk.disabled \in SUBSET Ids /\ disk.damaged \in SUBSET Ids /\ disk.torn \in SUBSET Ids
           /\ \A i \in Ids : /\ Manifest(i) \in Environment \cup {None}
                             /\ Record(i) \in InstallRecord \cup {None}
           /\ Service \in Environment \cup {None}
BY DEF PluginTyped, Disk, Files, Manifest, Record, Service

LEMMA DamagedDisk ==
    ASSUME NEW d \in Disk, NEW id \in Ids, NEW e, e = Damaged(d, id)
    PROVE  /\ e \in Disk /\ SameDirs(d, e) /\ e.files = d.files /\ e.disabled = d.disabled
           /\ e.damaged = d.damaged \cup {id} /\ e.torn = d.torn
<1>1. PICK x : x = d.damaged \cup {id}
  OBVIOUS
<1>2. x \in SUBSET Ids
  BY <1>1 DEF Disk
<1>3. e = [d EXCEPT !.damaged = x]
  BY <1>1 DEF Damaged
<1> QED
  BY <1>1, <1>2, <1>3 DEF Disk, SameDirs

LEMMA TornDisk ==
    ASSUME NEW d \in Disk, NEW id \in Ids, NEW e, e = Torn(d, id)
    PROVE  /\ e \in Disk /\ SameDirs(d, e) /\ e.files = d.files /\ e.disabled = d.disabled
           /\ e.damaged = d.damaged \cup {id} /\ e.torn = d.torn \cup {id}
<1>1. PICK x, y : x = d.damaged \cup {id} /\ y = d.torn \cup {id}
  OBVIOUS
<1>2. x \in SUBSET Ids /\ y \in SUBSET Ids
  BY <1>1 DEF Disk
<1>3. e = [d EXCEPT !.damaged = x, !.torn = y]
  BY <1>1 DEF Torn
<1> QED
  BY <1>1, <1>2, <1>3 DEF Disk, SameDirs

LEMMA MendedDisk ==
    ASSUME NEW d \in Disk, NEW s \in Client, NEW e, e = Mended(d, s)
    PROVE  /\ e \in Disk /\ e.files = d.files /\ e.torn = d.torn \ {s.id}
           /\ s.kept = {} => e.damaged = d.damaged \ {s.id}
           /\ s.kept # {} => e.damaged = d.damaged
           /\ e.disabled = d.disabled /\ SameDirs(d, e)
<1>1. PICK x, y : /\ x = (IF s.kept = {} THEN d.damaged \ {s.id} ELSE d.damaged)
                  /\ y = d.torn \ {s.id}
  OBVIOUS
<1>2. x \in SUBSET Ids /\ y \in SUBSET Ids
  BY <1>1 DEF Disk
<1>3. e = [d EXCEPT !.damaged = x, !.torn = y]
  BY <1>1 DEF Mended
<1> QED
  BY <1>1, <1>2, <1>3 DEF Disk, SameDirs

\* A client moves on, and keeps what it knows.
Knows(s, t) ==
    /\ t.id = s.id /\ t.commit = s.commit /\ t.before = s.before /\ t.aside = s.aside
    /\ t.venv = s.venv /\ t.roots = s.roots /\ t.kept = s.kept
    /\ t.own = s.own /\ t.pid = s.pid /\ t.fd = s.fd

\* What one change of a client's record leaves of its type.
LEMMA ClientUpdates ==
    ASSUME NEW u \in Client
    PROVE  /\ \A x \in Waiting \cup Locked : [u EXCEPT !.pc = x] \in Client
           /\ \A x \in Files : [u EXCEPT !.before = x] \in Client
           /\ \A x \in InstallRecord \cup {None} : [u EXCEPT !.previous = x] \in Client
           /\ \A x \in Nat : [u EXCEPT !.pid = x] \in Client
           /\ \A x \in SUBSET Environment : [u EXCEPT !.roots = x] \in Client
           /\ \A x \in Ops : [u EXCEPT !.op = x] \in Client
           /\ \A x \in Ids : [u EXCEPT !.id = x] \in Client
           /\ \A x \in Nat : [u EXCEPT !.commit = x] \in Client
           /\ \A x \in Nat \cup {None} : [u EXCEPT !.aside = x] \in Client
           /\ \A x \in Environment : [u EXCEPT !.venv = x] \in Client
           /\ \A x \in Nat \cup {None} : [u EXCEPT !.own = x] \in Client
           /\ \A x \in Nat : [u EXCEPT !.fd = x] \in Client
<1>1. DOMAIN u = {"pc", "plan", "op", "id", "commit", "previous", "before", "aside", "venv",
                  "roots", "kept", "own", "pid", "fd"}
  BY DEF Client
<1>2. ASSUME NEW x \in Waiting \cup Locked PROVE [u EXCEPT !.pc = x] \in Client
  <2>1. [u EXCEPT !.pc = x]
        = [pc |-> x, plan |-> u.plan, op |-> u.op, id |-> u.id, commit |-> u.commit,
           previous |-> u.previous, before |-> u.before, aside |-> u.aside,
           venv |-> u.venv, roots |-> u.roots, kept |-> u.kept, own |-> u.own,
           pid |-> u.pid, fd |-> u.fd]
    BY <1>1
  <2> QED
    BY <1>2, <2>1 DEF Client
<1>3. ASSUME NEW x \in Files PROVE [u EXCEPT !.before = x] \in Client
  <2>1. [u EXCEPT !.before = x]
        = [pc |-> u.pc, plan |-> u.plan, op |-> u.op, id |-> u.id, commit |-> u.commit,
           previous |-> u.previous, before |-> x, aside |-> u.aside, venv |-> u.venv,
           roots |-> u.roots, kept |-> u.kept, own |-> u.own, pid |-> u.pid, fd |-> u.fd]
    BY <1>1
  <2> QED
    BY <1>3, <2>1 DEF Client
<1>4. ASSUME NEW x \in InstallRecord \cup {None} PROVE [u EXCEPT !.previous = x] \in Client
  <2>1. [u EXCEPT !.previous = x]
        = [pc |-> u.pc, plan |-> u.plan, op |-> u.op, id |-> u.id, commit |-> u.commit,
           previous |-> x, before |-> u.before, aside |-> u.aside, venv |-> u.venv,
           roots |-> u.roots, kept |-> u.kept, own |-> u.own, pid |-> u.pid, fd |-> u.fd]
    BY <1>1
  <2> QED
    BY <1>4, <2>1 DEF Client
<1>5. ASSUME NEW x \in Nat PROVE [u EXCEPT !.pid = x] \in Client
  <2>1. [u EXCEPT !.pid = x]
        = [pc |-> u.pc, plan |-> u.plan, op |-> u.op, id |-> u.id, commit |-> u.commit,
           previous |-> u.previous, before |-> u.before, aside |-> u.aside,
           venv |-> u.venv, roots |-> u.roots, kept |-> u.kept, own |-> u.own, pid |-> x,
           fd |-> u.fd]
    BY <1>1
  <2> QED
    BY <1>5, <2>1 DEF Client
<1>6. ASSUME NEW x \in SUBSET Environment PROVE [u EXCEPT !.roots = x] \in Client
  <2>1. [u EXCEPT !.roots = x]
        = [pc |-> u.pc, plan |-> u.plan, op |-> u.op, id |-> u.id, commit |-> u.commit,
           previous |-> u.previous, before |-> u.before, aside |-> u.aside,
           venv |-> u.venv, roots |-> x, kept |-> u.kept, own |-> u.own, pid |-> u.pid,
           fd |-> u.fd]
    BY <1>1
  <2> QED
    BY <1>6, <2>1 DEF Client
<1>7. ASSUME NEW x \in Ops PROVE [u EXCEPT !.op = x] \in Client
  <2>1. [u EXCEPT !.op = x]
        = [pc |-> u.pc, plan |-> u.plan, op |-> x, id |-> u.id, commit |-> u.commit,
           previous |-> u.previous, before |-> u.before, aside |-> u.aside,
           venv |-> u.venv, roots |-> u.roots, kept |-> u.kept, own |-> u.own,
           pid |-> u.pid, fd |-> u.fd]
    BY <1>1
  <2> QED
    BY <1>7, <2>1 DEF Client
<1>8. ASSUME NEW x \in Ids PROVE [u EXCEPT !.id = x] \in Client
  <2>1. [u EXCEPT !.id = x]
        = [pc |-> u.pc, plan |-> u.plan, op |-> u.op, id |-> x, commit |-> u.commit,
           previous |-> u.previous, before |-> u.before, aside |-> u.aside,
           venv |-> u.venv, roots |-> u.roots, kept |-> u.kept, own |-> u.own,
           pid |-> u.pid, fd |-> u.fd]
    BY <1>1
  <2> QED
    BY <1>8, <2>1 DEF Client
<1>9. ASSUME NEW x \in Nat PROVE [u EXCEPT !.commit = x] \in Client
  <2>1. [u EXCEPT !.commit = x]
        = [pc |-> u.pc, plan |-> u.plan, op |-> u.op, id |-> u.id, commit |-> x,
           previous |-> u.previous, before |-> u.before, aside |-> u.aside,
           venv |-> u.venv, roots |-> u.roots, kept |-> u.kept, own |-> u.own,
           pid |-> u.pid, fd |-> u.fd]
    BY <1>1
  <2> QED
    BY <1>9, <2>1 DEF Client
<1>10. ASSUME NEW x \in Nat \cup {None} PROVE [u EXCEPT !.aside = x] \in Client
  <2>1. [u EXCEPT !.aside = x]
        = [pc |-> u.pc, plan |-> u.plan, op |-> u.op, id |-> u.id, commit |-> u.commit,
           previous |-> u.previous, before |-> u.before, aside |-> x, venv |-> u.venv,
           roots |-> u.roots, kept |-> u.kept, own |-> u.own, pid |-> u.pid, fd |-> u.fd]
    BY <1>1
  <2> QED
    BY <1>10, <2>1 DEF Client
<1>11. ASSUME NEW x \in Environment PROVE [u EXCEPT !.venv = x] \in Client
  <2>1. [u EXCEPT !.venv = x]
        = [pc |-> u.pc, plan |-> u.plan, op |-> u.op, id |-> u.id, commit |-> u.commit,
           previous |-> u.previous, before |-> u.before, aside |-> u.aside, venv |-> x,
           roots |-> u.roots, kept |-> u.kept, own |-> u.own, pid |-> u.pid, fd |-> u.fd]
    BY <1>1
  <2> QED
    BY <1>11, <2>1 DEF Client
<1>12. ASSUME NEW x \in Nat \cup {None} PROVE [u EXCEPT !.own = x] \in Client
  <2>1. [u EXCEPT !.own = x]
        = [pc |-> u.pc, plan |-> u.plan, op |-> u.op, id |-> u.id, commit |-> u.commit,
           previous |-> u.previous, before |-> u.before, aside |-> u.aside,
           venv |-> u.venv, roots |-> u.roots, kept |-> u.kept, own |-> x, pid |-> u.pid,
           fd |-> u.fd]
    BY <1>1
  <2> QED
    BY <1>12, <2>1 DEF Client
<1>13. ASSUME NEW x \in Nat PROVE [u EXCEPT !.fd = x] \in Client
  <2>1. [u EXCEPT !.fd = x]
        = [pc |-> u.pc, plan |-> u.plan, op |-> u.op, id |-> u.id, commit |-> u.commit,
           previous |-> u.previous, before |-> u.before, aside |-> u.aside,
           venv |-> u.venv, roots |-> u.roots, kept |-> u.kept, own |-> u.own,
           pid |-> u.pid, fd |-> x]
    BY <1>1
  <2> QED
    BY <1>13, <2>1 DEF Client
<1> QED
  BY <1>2, <1>3, <1>4, <1>5, <1>6, <1>7, <1>8, <1>9, <1>10, <1>11, <1>12, <1>13

LEMMA Moves ==
    ASSUME PluginTyped, NEW c \in Clients, NEW pc \in Waiting \cup Locked, To(c, pc)
    PROVE  \E t \in Client : cl' = [cl EXCEPT ![c] = t] /\ t.pc = pc /\ Knows(cl[c], t)
<1>1. PICK t : t = [cl[c] EXCEPT !.pc = pc]
  OBVIOUS
<1>2. cl[c] \in Client
  BY DEF PluginTyped
<1>3. t \in Client /\ t.pc = pc /\ Knows(cl[c], t)
  BY <1>1, <1>2, SMTT(30) DEF Client, Knows
<1>4. cl' = [cl EXCEPT ![c] = t]
  BY <1>1 DEF To
<1> QED
  BY <1>3, <1>4

LEMMA Rests ==
    ASSUME PluginTyped, NEW c \in Clients, Ends(c)
    PROVE  \E t \in Client : cl' = [cl EXCEPT ![c] = t] /\ t.pc = "idle" /\ t.venv = None /\ t.kept = {}
<1>1. PICK t : t = Resting(cl[c].plan)
  OBVIOUS
<1>2. cl[c].plan \in Seq(Command)
  BY DEF PluginTyped, Client
<1>3. t \in Client /\ t.pc = "idle" /\ t.venv = None /\ t.kept = {}
  BY <1>1, <1>2 DEF Client, Resting, Waiting
<1>4. cl' = [cl EXCEPT ![c] = t]
  BY <1>1 DEF Ends
<1> QED
  BY <1>3, <1>4

-----------------------------------------------------------------------------
(***************************************************************************)
(* The client that holds the lock.                                         *)
(***************************************************************************)

LEMMA HolderKnows ==
    ASSUME PluginInv, NEW c \in Clients, cl[c].pc \in Locked
    PROVE  /\ lock = c /\ cl[c] \in Client /\ Named(cl[c]) /\ cl[c].id \in Ids
           /\ Work(cl[c]) /\ Stops(cl[c])
           /\ \A i \in Ids \ disk.damaged :
                  (cl[c].pc \in Changing => i # cl[c].id) => AgreedNow(i)
<1>1. lock = c /\ cl[c] \in Client /\ Named(cl[c]) /\ Work(cl[c]) /\ Stops(cl[c])
  BY DEF PluginInv, PluginTyped, Holding
<1>2. cl[c].id \in Ids
  BY <1>1 DEF Named, Locked, Changing, Building, Undoing, Removing, Stopping
<1> QED
  BY <1>1, <1>2 DEF PluginInv, Agreement

\* It goes on.
LEMMA HolderKeeps ==
    ASSUME PluginInv, NEW c \in Clients, cl[c].pc \in Locked,
           NEW t \in Client, cl' = [cl EXCEPT ![c] = t], t.pc \in Locked, Named(t),
           UNCHANGED <<lock, procs>>, disk' \in Disk,
           Fresh', TornIsDamaged', CanRun(disk.files)', One',
           \A i \in Ids \ disk'.damaged : (t.pc \in Changing => i # t.id) => AgreedNow(i)',
           Work(t)', Stops(t)'
    PROVE  PluginInv'
<1>1. lock = c /\ lock' = c
  BY HolderKnows
<1>2. /\ cl' \in [Clients -> Client] /\ cl'[c] = t
      /\ \A b \in Clients : b # c => cl'[b] = cl[b]
  BY DEF PluginInv, PluginTyped
<1>3. PluginTyped'
  BY <1>2 DEF PluginInv, PluginTyped
<1>4. Holding'
  BY <1>1, <1>2 DEF PluginInv, Holding, Named
<1>5. Agreement'
  BY <1>1, <1>2 DEF Agreement
<1>6. Bus'
  BY DEF PluginInv, Bus, All, State, Alive
<1>7. (\A b \in Clients : lock = b => Work(cl[b]) /\ Stops(cl[b]))'
  BY <1>1, <1>2
<1> QED
  BY <1>1, <1>3, <1>4, <1>5, <1>6, <1>7, NoneApart DEF PluginInv

-----------------------------------------------------------------------------
(***************************************************************************)
(* Publishing, and what undoes it.                                         *)
(***************************************************************************)

\* A file is written or removed; nothing else changes.
Writing ==
    {<<"manifest", "service">>, <<"service", "record">>, <<"record", "sweep">>,
     <<"unrecord", "unservice">>, <<"unservice", "unmanifest">>, <<"unmanifest", "rmvenv">>,
     <<"rmmanifest", "rmsource">>, <<"rmservice", "rmvenvs">>}

LEMMA FileKeeps ==
    ASSUME PluginInv, NEW c \in Clients, NEW s \in Client, s = cl[c],
           NEW t \in Client, cl' = [cl EXCEPT ![c] = t], Knows(s, t),
           <<s.pc, t.pc>> \in Writing,
           UNCHANGED <<lock, procs>>, disk' \in Disk,
           SameDirs(disk, disk'), SameRest(disk, disk'),
           \A i \in Ids \ {s.id} : Gone(i)',
           CanRun(disk.files)',
           Service' # None => Service'.id \in disk.damaged \cup {s.id},
           Publishes(t)'
    PROVE  PluginInv'
<1> USE DEF Building, Undoing, Removing, Stopping
<1>1. s.pc \in Changing /\ t.pc \in Changing /\ s.pc \in Locked /\ t.pc \in Locked
  BY DEF Writing, Locked, Changing
<1>2. /\ Named(s) /\ s.id \in Ids /\ Work(s) /\ Stops(s)
      /\ \A i \in Ids \ disk.damaged : i # s.id => AgreedNow(i)
  BY <1>1, HolderKnows
<1>3. Named(t)
  BY <1>2 DEF Named, Knows, Writing, Waiting
<1>4. Fresh' /\ TornIsDamaged' /\ One'
  BY DEF PluginInv, Fresh, TornIsDamaged, One, SameDirs, SameRest
<1>5. \A i \in Ids \ disk'.damaged : i # t.id => AgreedNow(i)'
  <2> SUFFICES ASSUME NEW i \in Ids \ disk.damaged, i # s.id PROVE AgreedNow(i)'
    BY DEF Knows, SameRest
  <2>1. AgreedNow(i) /\ Gone(i) /\ Gone(i)'
    BY <1>1, <1>2 DEF Work, Alone
  <2>2. Service' # None => Service'.id # i
    OBVIOUS
  <2> QED
    BY <2>1, <2>2 DEF AgreedNow, Agreed, Gone, Record, Manifest, Service, PluginVenvs, SameDirs
<1>6. Alone(t)' /\ Keeps(t)' /\ Builds(t)'
  BY <1>2 DEF Writing, Work, Alone, Keeps, CanRun, Whole, Builds, Knows, SameDirs, SameRest
<1>7. Places(t)' /\ AgreedBefore(t)'
  BY <1>2 DEF Writing, Work, Places, AgreedBefore, PluginVenvs, Knows, SameDirs, SameRest, Changing
<1>8. Stops(t)'
  BY <1>2 DEF Writing, Stops, AllFine, All, Fine, State, Knows, SameDirs, SameRest
<1> QED
  BY <1>1, <1>3, <1>4, <1>5, <1>6, <1>7, <1>8, HolderKeeps DEF Work

LEMMA PublishManifestKeeps ==
    ASSUME PluginInv, NEW c \in Clients, PublishManifest(c)
    PROVE  PluginInv'
<1> USE DEF Building, Undoing, Removing
<1>1. PICK s \in Client : s = cl[c] /\ s.pc = "manifest"
  BY DEF PluginInv, PluginTyped, PublishManifest, Steps, At
<1>2. s.id \in Ids /\ Work(s) /\ \A i \in Ids \ disk.damaged : i # s.id => AgreedNow(i)
  BY <1>1, HolderKnows DEF Locked, Changing
<1>3. PICK t \in Client : cl' = [cl EXCEPT ![c] = t] /\ t.pc = "service" /\ Knows(s, t)
  BY <1>1, Moves DEF PluginInv, PublishManifest, Steps, Locked, Changing
<1>4. /\ UNCHANGED <<lock, procs>> /\ disk' \in Disk
      /\ SameDirs(disk, disk') /\ SameRest(disk, disk')
      /\ disk'.files.manifest = [disk.files.manifest EXCEPT ![s.id] = s.venv]
      /\ disk'.files.service = disk.files.service
      /\ disk'.files.record = disk.files.record
  <2>1. UNCHANGED <<lock, procs>> /\ disk' = [disk EXCEPT !.files.manifest[s.id] = s.venv]
    BY <1>1 DEF PublishManifest, Steps
  <2>2. disk \in Disk /\ s.venv \in Environment
    BY <1>1, <1>2 DEF PluginInv, PluginTyped, Work, Keeps, Builds
  <2> QED
    BY <1>2, <2>1, <2>2 DEF Disk, Files, SameDirs, SameRest
<1>5. disk.files \in Files /\ Alone(s) /\ Keeps(s) /\ Builds(s) /\ Publishes(s)
  BY <1>2, DiskFields DEF PluginInv, Work
<1>6. \A i \in Ids \ {s.id} : Gone(i)'
  BY <1>1, <1>4, <1>5 DEF Alone, Keeps, Changing, Gone, Record, Manifest, Files
<1>7. CanRun(disk.files)'
  BY <1>1, <1>2, <1>4, <1>5 DEF PluginInv, CanRun, Whole, Keeps, Builds, SameDirs, SameRest, Files
<1>8. Service' # None => Service'.id \in disk.damaged \cup {s.id}
  BY <1>1, <1>2, <1>4, <1>5 DEF Keeps, Builds, Publishes, Service, Alone, AgreedNow, Agreed, Gone, Record, Changing, Files
<1>9. Publishes(t)'
  BY <1>1, <1>2, <1>3, <1>4, <1>5, NoneApart
     DEF Keeps, Publishes, Knows, Manifest, Service, Record, Files, SameRest
<1> QED
  BY <1>1, <1>3, <1>4, <1>6, <1>7, <1>8, <1>9, FileKeeps DEF Writing

LEMMA PublishServiceKeeps ==
    ASSUME PluginInv, NEW c \in Clients, PublishService(c)
    PROVE  PluginInv'
<1> USE DEF Building, Undoing, Removing
<1>1. PICK s \in Client : s = cl[c] /\ s.pc = "service"
  BY DEF PluginInv, PluginTyped, PublishService, Steps, At
<1>2. s.id \in Ids /\ Work(s) /\ \A i \in Ids \ disk.damaged : i # s.id => AgreedNow(i)
  BY <1>1, HolderKnows DEF Locked, Changing
<1>3. PICK t \in Client : cl' = [cl EXCEPT ![c] = t] /\ t.pc = "record" /\ Knows(s, t)
  BY <1>1, Moves DEF PluginInv, PublishService, Steps, Locked, Changing
<1>4. /\ UNCHANGED <<lock, procs>> /\ disk' \in Disk
      /\ SameDirs(disk, disk') /\ SameRest(disk, disk')
      /\ disk'.files.manifest = disk.files.manifest
      /\ disk'.files.service = s.venv
      /\ disk'.files.record = disk.files.record
  <2>1. UNCHANGED <<lock, procs>> /\ disk' = [disk EXCEPT !.files.service = s.venv]
    BY <1>1 DEF PublishService, Steps
  <2>2. disk \in Disk /\ s.venv \in Environment
    BY <1>1, <1>2 DEF PluginInv, PluginTyped, Work, Keeps, Builds
  <2> QED
    BY <1>2, <2>1, <2>2 DEF Disk, Files, SameDirs, SameRest
<1>5. disk.files \in Files /\ Alone(s) /\ Keeps(s) /\ Builds(s) /\ Publishes(s)
  BY <1>2, DiskFields DEF PluginInv, Work
<1>6. \A i \in Ids \ {s.id} : Gone(i)'
  BY <1>1, <1>4, <1>5 DEF Alone, Keeps, Changing, Gone, Record, Manifest, Files
<1>7. CanRun(disk.files)'
  BY <1>1, <1>2, <1>4, <1>5 DEF PluginInv, CanRun, Whole, Keeps, Builds, SameDirs, SameRest, Files
<1>8. Service' # None => Service'.id \in disk.damaged \cup {s.id}
  BY <1>1, <1>2, <1>4, <1>5 DEF Keeps, Builds, Publishes, Service, Alone, AgreedNow, Agreed, Gone, Record, Changing, Files
<1>9. Publishes(t)'
  BY <1>1, <1>2, <1>3, <1>4, <1>5, NoneApart
     DEF Keeps, Publishes, Knows, Manifest, Service, Record, Files, SameRest
<1> QED
  BY <1>1, <1>3, <1>4, <1>6, <1>7, <1>8, <1>9, FileKeeps DEF Writing

LEMMA SaveRecordKeeps ==
    ASSUME PluginInv, NEW c \in Clients, SaveRecord(c)
    PROVE  PluginInv'
<1> USE DEF Building, Undoing, Removing
<1>1. PICK s \in Client : s = cl[c] /\ s.pc = "record"
  BY DEF PluginInv, PluginTyped, SaveRecord, Steps, At
<1>2. s.id \in Ids /\ Work(s) /\ \A i \in Ids \ disk.damaged : i # s.id => AgreedNow(i)
  BY <1>1, HolderKnows DEF Locked, Changing
<1>3. PICK t \in Client : cl' = [cl EXCEPT ![c] = t] /\ t.pc = "sweep" /\ Knows(s, t)
  BY <1>1, Moves DEF PluginInv, SaveRecord, Steps, Locked, Changing
<1>4. /\ UNCHANGED <<lock, procs>> /\ disk' \in Disk
      /\ SameDirs(disk, disk') /\ SameRest(disk, disk')
      /\ disk'.files.manifest = disk.files.manifest
      /\ disk'.files.service = disk.files.service
      /\ disk'.files.record = [disk.files.record EXCEPT ![s.id] = [venv |-> s.venv, at |-> disk.built]]
  <2>1. UNCHANGED <<lock, procs>> /\ disk' = [disk EXCEPT !.files.record[s.id] = [venv |-> s.venv, at |-> disk.built]]
    BY <1>1 DEF SaveRecord, Steps
  <2>2. disk \in Disk /\ s.venv \in Environment
    BY <1>1, <1>2 DEF PluginInv, PluginTyped, Work, Keeps, Builds
  <2> QED
    BY <1>2, <2>1, <2>2 DEF Disk, Files, InstallRecord, SameDirs, SameRest
<1>5. disk.files \in Files /\ Alone(s) /\ Keeps(s) /\ Builds(s) /\ Publishes(s)
  BY <1>2, DiskFields DEF PluginInv, Work
<1>6. \A i \in Ids \ {s.id} : Gone(i)'
  BY <1>1, <1>4, <1>5 DEF Alone, Keeps, Changing, Gone, Record, Manifest, Files
<1>7. CanRun(disk.files)'
  BY <1>1, <1>2, <1>4, <1>5 DEF PluginInv, CanRun, Whole, Keeps, Builds, SameDirs, SameRest, Files
<1>8. Service' # None => Service'.id \in disk.damaged \cup {s.id}
  BY <1>1, <1>2, <1>4, <1>5 DEF Keeps, Builds, Publishes, Service, Alone, AgreedNow, Agreed, Gone, Record, Changing, Files
<1>9. Publishes(t)'
  <2>1. disk'.files.record[s.id] = [venv |-> s.venv, at |-> disk.built]
    BY <1>2, <1>4, <1>5 DEF Files
  <2>2. s.venv \in Environment /\ disk.built \in Nat
    BY <1>1, <1>5, DiskFields DEF PluginInv, Builds
  <2>3. disk'.files.record[s.id] # None /\ disk'.files.record[s.id].venv = s.venv
    BY <2>1, <2>2, PluginAssumption DEF Environment
  <2> QED
    BY <1>1, <1>3, <1>4, <1>5, <2>3 DEF Publishes, Knows, Manifest, Service, Record
<1> QED
  BY <1>1, <1>3, <1>4, <1>6, <1>7, <1>8, <1>9, FileKeeps DEF Writing

LEMMA UnrecordKeeps ==
    ASSUME PluginInv, NEW c \in Clients, Unrecord(c)
    PROVE  PluginInv'
<1> USE DEF Building, Undoing, Removing
<1>1. PICK s \in Client : s = cl[c] /\ s.pc = "unrecord"
  BY DEF PluginInv, PluginTyped, Unrecord, Steps, At
<1>2. s.id \in Ids /\ Work(s) /\ \A i \in Ids \ disk.damaged : i # s.id => AgreedNow(i)
  BY <1>1, HolderKnows DEF Locked, Changing
<1>3. PICK t \in Client : cl' = [cl EXCEPT ![c] = t] /\ t.pc = "unservice" /\ Knows(s, t)
  BY <1>1, Moves DEF PluginInv, Unrecord, Steps, Locked, Changing
<1>4. /\ UNCHANGED <<lock, procs>> /\ disk' \in Disk
      /\ SameDirs(disk, disk') /\ SameRest(disk, disk')
      /\ disk'.files.manifest = disk.files.manifest
      /\ disk'.files.service = disk.files.service
      /\ disk'.files.record = s.before.record
  <2>1. UNCHANGED <<lock, procs>> /\ disk' = [disk EXCEPT !.files.record = s.before.record]
    BY <1>1 DEF Unrecord, Steps
  <2>2. disk \in Disk /\ s.before \in Files
    BY <1>1, <1>2 DEF PluginInv, PluginTyped, Work, Keeps, Builds
  <2> QED
    BY <1>2, <2>1, <2>2 DEF Disk, Files, SameDirs, SameRest
<1>5. disk.files \in Files /\ Alone(s) /\ Keeps(s) /\ Builds(s) /\ Publishes(s)
  BY <1>2, DiskFields DEF PluginInv, Work
<1>6. \A i \in Ids \ {s.id} : Gone(i)'
  BY <1>1, <1>4, <1>5 DEF Alone, Keeps, Changing, Gone, Record, Manifest, Files
<1>7. CanRun(disk.files)'
  BY <1>1, <1>2, <1>4, <1>5 DEF PluginInv, CanRun, Whole, Keeps, Builds, SameDirs, SameRest, Files
<1>8. Service' # None => Service'.id \in disk.damaged \cup {s.id}
  <2>1. \A i \in Ids \ disk.damaged : i # s.id => Gone(i) /\ AgreedNow(i)
    BY <1>1, <1>2, <1>5 DEF Alone, Changing
  <2>2. \A i \in Ids \ disk.damaged : i # s.id => (Service # None => Service.id # i)
    BY <2>1 DEF AgreedNow, Agreed, Gone, Record, Service
  <2>3. Service' = Service /\ (Service # None => Service.id \in Ids)
    BY <1>4, <1>5 DEF Service, Files, Environment
  <2> QED
    BY <2>2, <2>3
<1>9. Publishes(t)'
  BY <1>1, <1>2, <1>3, <1>4, <1>5, NoneApart
     DEF Keeps, Publishes, Knows, Manifest, Service, Record, Files, SameRest
<1> QED
  BY <1>1, <1>3, <1>4, <1>6, <1>7, <1>8, <1>9, FileKeeps DEF Writing

LEMMA UnserviceKeeps ==
    ASSUME PluginInv, NEW c \in Clients, Unservice(c)
    PROVE  PluginInv'
<1> USE DEF Building, Undoing, Removing
<1>1. PICK s \in Client : s = cl[c] /\ s.pc = "unservice"
  BY DEF PluginInv, PluginTyped, Unservice, Steps, At
<1>2. s.id \in Ids /\ Work(s) /\ \A i \in Ids \ disk.damaged : i # s.id => AgreedNow(i)
  BY <1>1, HolderKnows DEF Locked, Changing
<1>3. PICK t \in Client : cl' = [cl EXCEPT ![c] = t] /\ t.pc = "unmanifest" /\ Knows(s, t)
  BY <1>1, Moves DEF PluginInv, Unservice, Steps, Locked, Changing
<1>4. /\ UNCHANGED <<lock, procs>> /\ disk' \in Disk
      /\ SameDirs(disk, disk') /\ SameRest(disk, disk')
      /\ disk'.files.manifest = disk.files.manifest
      /\ disk'.files.service = s.before.service
      /\ disk'.files.record = disk.files.record
  <2>1. UNCHANGED <<lock, procs>> /\ disk' = [disk EXCEPT !.files.service = s.before.service]
    BY <1>1 DEF Unservice, Steps
  <2>2. disk \in Disk /\ s.before \in Files
    BY <1>1, <1>2 DEF PluginInv, PluginTyped, Work, Keeps, Builds
  <2> QED
    BY <1>2, <2>1, <2>2 DEF Disk, Files, SameDirs, SameRest
<1>5. disk.files \in Files /\ Alone(s) /\ Keeps(s) /\ Builds(s) /\ Publishes(s)
  BY <1>2, DiskFields DEF PluginInv, Work
<1>6. \A i \in Ids \ {s.id} : Gone(i)'
  BY <1>1, <1>4, <1>5 DEF Alone, Keeps, Changing, Gone, Record, Manifest, Files
<1>7. CanRun(disk.files)'
  BY <1>1, <1>2, <1>4, <1>5 DEF PluginInv, CanRun, Whole, Keeps, Builds, SameDirs, SameRest, Files
<1>8. Service' # None => Service'.id \in disk.damaged \cup {s.id}
  BY <1>1, <1>2, <1>4, <1>5 DEF Keeps, Builds, Publishes, Service, Alone, AgreedNow, Agreed, Gone, Record, Changing, Files
<1>9. Publishes(t)'
  BY <1>1, <1>2, <1>3, <1>4, <1>5, NoneApart
     DEF Keeps, Publishes, Knows, Manifest, Service, Record, Files, SameRest
<1> QED
  BY <1>1, <1>3, <1>4, <1>6, <1>7, <1>8, <1>9, FileKeeps DEF Writing

LEMMA UnmanifestKeeps ==
    ASSUME PluginInv, NEW c \in Clients, Unmanifest(c)
    PROVE  PluginInv'
<1> USE DEF Building, Undoing, Removing
<1>1. PICK s \in Client : s = cl[c] /\ s.pc = "unmanifest"
  BY DEF PluginInv, PluginTyped, Unmanifest, Steps, At
<1>2. s.id \in Ids /\ Work(s) /\ \A i \in Ids \ disk.damaged : i # s.id => AgreedNow(i)
  BY <1>1, HolderKnows DEF Locked, Changing
<1>3. PICK t \in Client : cl' = [cl EXCEPT ![c] = t] /\ t.pc = "rmvenv" /\ Knows(s, t)
  BY <1>1, Moves DEF PluginInv, Unmanifest, Steps, Locked, Changing
<1>4. /\ UNCHANGED <<lock, procs>> /\ disk' \in Disk
      /\ SameDirs(disk, disk') /\ SameRest(disk, disk')
      /\ disk'.files.manifest = s.before.manifest
      /\ disk'.files.service = disk.files.service
      /\ disk'.files.record = disk.files.record
  <2>1. UNCHANGED <<lock, procs>> /\ disk' = [disk EXCEPT !.files.manifest = s.before.manifest]
    BY <1>1 DEF Unmanifest, Steps
  <2>2. disk \in Disk /\ s.before \in Files
    BY <1>1, <1>2 DEF PluginInv, PluginTyped, Work, Keeps, Builds
  <2> QED
    BY <1>2, <2>1, <2>2 DEF Disk, Files, SameDirs, SameRest
<1>5. disk.files \in Files /\ Alone(s) /\ Keeps(s) /\ Builds(s) /\ Publishes(s)
  BY <1>2, DiskFields DEF PluginInv, Work
<1>6. \A i \in Ids \ {s.id} : Gone(i)'
  BY <1>1, <1>4, <1>5 DEF Alone, Keeps, Changing, Gone, Record, Manifest, Files
<1>7. CanRun(disk.files)'
  BY <1>1, <1>2, <1>4, <1>5 DEF PluginInv, CanRun, Whole, Keeps, Builds, SameDirs, SameRest, Files
<1>8. Service' # None => Service'.id \in disk.damaged \cup {s.id}
  BY <1>1, <1>2, <1>4, <1>5 DEF Keeps, Builds, Publishes, Service, Alone, AgreedNow, Agreed, Gone, Record, Changing, Files
<1>9. Publishes(t)'
  BY <1>1, <1>2, <1>3, <1>4, <1>5, NoneApart
     DEF Keeps, Publishes, Knows, Manifest, Service, Record, Files, SameRest
<1> QED
  BY <1>1, <1>3, <1>4, <1>6, <1>7, <1>8, <1>9, FileKeeps DEF Writing

LEMMA RemoveManifestKeeps ==
    ASSUME PluginInv, NEW c \in Clients, RemoveManifest(c)
    PROVE  PluginInv'
<1> USE DEF Building, Undoing, Removing
<1>1. PICK s \in Client : s = cl[c] /\ s.pc = "rmmanifest"
  BY DEF PluginInv, PluginTyped, RemoveManifest, Steps, At
<1>2. s.id \in Ids /\ Work(s) /\ \A i \in Ids \ disk.damaged : i # s.id => AgreedNow(i)
  BY <1>1, HolderKnows DEF Locked, Changing
<1>3. PICK t \in Client : cl' = [cl EXCEPT ![c] = t] /\ t.pc = "rmsource" /\ Knows(s, t)
  BY <1>1, Moves DEF PluginInv, RemoveManifest, Steps, Locked, Changing
<1>4. /\ UNCHANGED <<lock, procs>> /\ disk' \in Disk
      /\ SameDirs(disk, disk') /\ SameRest(disk, disk')
      /\ disk'.files.manifest = [disk.files.manifest EXCEPT ![s.id] = None]
      /\ disk'.files.service = disk.files.service
      /\ disk'.files.record = disk.files.record
  <2>1. UNCHANGED <<lock, procs>> /\ disk' = [disk EXCEPT !.files.manifest[s.id] = None]
    BY <1>1 DEF RemoveManifest, Steps
  <2>2. disk \in Disk 
    BY <1>1, <1>2 DEF PluginInv, PluginTyped, Work, Keeps, Builds
  <2> QED
    BY <1>2, <2>1, <2>2 DEF Disk, Files, SameDirs, SameRest
<1>5. disk.files \in Files /\ Alone(s) /\ Keeps(s) /\ Builds(s) /\ Publishes(s)
  BY <1>2, DiskFields DEF PluginInv, Work
<1>6. \A i \in Ids \ {s.id} : Gone(i)'
  BY <1>1, <1>4, <1>5 DEF Alone, Keeps, Changing, Gone, Record, Manifest, Files
<1>7. CanRun(disk.files)'
  BY <1>1, <1>2, <1>4, <1>5 DEF PluginInv, CanRun, Whole, Keeps, Builds, SameDirs, SameRest, Files
<1>8. Service' # None => Service'.id \in disk.damaged \cup {s.id}
  <2>1. \A i \in Ids \ disk.damaged : i # s.id => Gone(i) /\ AgreedNow(i)
    BY <1>1, <1>2, <1>5 DEF Alone, Changing
  <2>2. \A i \in Ids \ disk.damaged : i # s.id => (Service # None => Service.id # i)
    BY <2>1 DEF AgreedNow, Agreed, Gone, Record, Service
  <2>3. Service' = Service /\ (Service # None => Service.id \in Ids)
    BY <1>4, <1>5 DEF Service, Files, Environment
  <2> QED
    BY <2>2, <2>3
<1>9. Publishes(t)'
  BY <1>1, <1>2, <1>3, <1>4, <1>5, NoneApart
     DEF Keeps, Publishes, Knows, Manifest, Service, Record, Files, SameRest
<1> QED
  BY <1>1, <1>3, <1>4, <1>6, <1>7, <1>8, <1>9, FileKeeps DEF Writing

LEMMA RemoveServiceKeeps ==
    ASSUME PluginInv, NEW c \in Clients, RemoveService(c)
    PROVE  PluginInv'
<1> USE DEF Building, Undoing, Removing
<1>1. PICK s \in Client : s = cl[c] /\ s.pc = "rmservice"
  BY DEF PluginInv, PluginTyped, RemoveService, Steps, At
<1>2. s.id \in Ids /\ Work(s) /\ \A i \in Ids \ disk.damaged : i # s.id => AgreedNow(i)
  BY <1>1, HolderKnows DEF Locked, Changing
<1>3. PICK t \in Client : cl' = [cl EXCEPT ![c] = t] /\ t.pc = "rmvenvs" /\ Knows(s, t)
  BY <1>1, Moves DEF PluginInv, RemoveService, Steps, Locked, Changing
<1>4. /\ UNCHANGED <<lock, procs>> /\ disk' \in Disk
      /\ SameDirs(disk, disk') /\ SameRest(disk, disk')
      /\ disk'.files.manifest = disk.files.manifest
      /\ disk'.files.service = None
      /\ disk'.files.record = disk.files.record
  <2>1. UNCHANGED <<lock, procs>> /\ disk' = [disk EXCEPT !.files.service = None]
    BY <1>1 DEF RemoveService, Steps
  <2>2. disk \in Disk 
    BY <1>1, <1>2 DEF PluginInv, PluginTyped, Work, Keeps, Builds
  <2> QED
    BY <1>2, <2>1, <2>2 DEF Disk, Files, SameDirs, SameRest
<1>5. disk.files \in Files /\ Alone(s) /\ Keeps(s) /\ Builds(s) /\ Publishes(s)
  BY <1>2, DiskFields DEF PluginInv, Work
<1>6. \A i \in Ids \ {s.id} : Gone(i)'
  BY <1>1, <1>4, <1>5 DEF Alone, Keeps, Changing, Gone, Record, Manifest, Files
<1>7. CanRun(disk.files)'
  BY <1>1, <1>2, <1>4, <1>5 DEF PluginInv, CanRun, Whole, Keeps, Builds, SameDirs, SameRest, Files
<1>8. Service' # None => Service'.id \in disk.damaged \cup {s.id}
  BY <1>1, <1>2, <1>4, <1>5 DEF Keeps, Builds, Publishes, Service, Alone, AgreedNow, Agreed, Gone, Record, Changing, Files
<1>9. Publishes(t)'
  BY <1>1, <1>2, <1>3, <1>4, <1>5, NoneApart
     DEF Keeps, Publishes, Knows, Manifest, Service, Record, Files, SameRest
<1> QED
  BY <1>1, <1>3, <1>4, <1>6, <1>7, <1>8, <1>9, FileKeeps DEF Writing

-----------------------------------------------------------------------------
(***************************************************************************)
(* The checkouts and the environments.                                     *)
(***************************************************************************)

\* A directory of the plugin is moved, made or deleted; no file changes.
Working ==
    {<<"aside", "place">>, <<"place", "build">>, <<"build", "manifest">>, <<"sweep", "sweep">>,
     <<"rmvenv", "rmtarget">>, <<"rmtarget", "putback">>, <<"rmsource", "rmservice">>,
     <<"rmvenvs", "rmvenvs">>, <<"rmvenvs", "rmrecord">>}

LEMMA DirectoryKeeps ==
    ASSUME PluginInv, NEW c \in Clients, NEW s \in Client, s = cl[c],
           NEW t \in Client, cl' = [cl EXCEPT ![c] = t],
           t.id = s.id, t.before = s.before, t.roots = s.roots, t.commit = s.commit,
           <<s.pc, t.pc>> \in Working, t.pc = "place" => t.venv = None,
           t.pc \in {"sweep"} \cup Removing => t.venv = s.venv,
           UNCHANGED <<lock, procs>>, disk' \in Disk, disk'.files = disk.files,
           HurtsOnly(disk, disk', s.id),
           \A i \in Ids \ {s.id} : disk'.src[i] = disk.src[i] /\ PluginVenvs(i)' = PluginVenvs(i),
           t.pc \in Building \cup {"sweep"} /\ s.roots = {} =>
               \A v \in disk.venvs : \E w \in disk'.venvs : w.build = v.build,
           Fresh', CanRun(disk.files)', Keeps(t)', Builds(t)', Places(t)', AgreedBefore(t)'
    PROVE  PluginInv'
<1> USE DEF Building, Undoing, Removing, Stopping
<1>1. s.pc \in Changing /\ t.pc \in Changing /\ s.pc \in Locked /\ t.pc \in Locked
  BY DEF Working, Locked, Changing
<1>2. /\ Named(s) /\ s.id \in Ids /\ Work(s) /\ Stops(s)
      /\ \A i \in Ids \ disk.damaged : i # s.id => AgreedNow(i)
  BY <1>1, HolderKnows
<1>3. Named(t)
  BY <1>2 DEF Named, Working, Waiting
<1>4. One' /\ TornIsDamaged'
  BY DEF PluginInv, One, Gone, Record, Manifest, TornIsDamaged, HurtsOnly
<1>5. \A i \in Ids \ disk'.damaged : i # t.id => AgreedNow(i)'
  BY <1>2 DEF AgreedNow, HurtsOnly
<1>6. Alone(t)' /\ Publishes(t)'
  BY <1>1, <1>2 DEF Working, Work, Alone, Publishes, Gone, Record, Manifest, Service, HurtsOnly
<1>7. Stops(t)'
  <2>1. t.pc \notin Stopping \cup {"owner"} /\ procs' = procs
    BY DEF Working
  <2>2. ASSUME t.pc \in Building \cup {"sweep"}, t.roots = {} PROVE AllFine'
    <3>1. AllFine
      BY <1>2, <2>2 DEF Working, Stops
    <3> QED
      BY <2>1, <2>2, <3>1 DEF AllFine, All, Fine, State, HurtsOnly
  <2> QED
    BY <2>1, <2>2 DEF Stops
<1> QED
  BY <1>1, <1>3, <1>4, <1>5, <1>6, <1>7, HolderKeeps DEF Work

LEMMA AsideKeeps ==
    ASSUME PluginInv, NEW c \in Clients, Aside(c)
    PROVE  PluginInv'
<1> USE DEF Building, Undoing, Removing
<1>1. PICK s \in Client : s = cl[c] /\ s.pc = "aside"
  BY DEF PluginInv, PluginTyped, Aside, Steps, At
<1>2. s.id \in Ids /\ Work(s) /\ Named(s) /\ s.venv = None
  BY <1>1, HolderKnows DEF Locked, Changing, Named
<1>3. disk.src[s.id] \in Nat \cup {None}
  BY <1>2, DiskFields DEF PluginInv
<1>4. PICK t : t = [s EXCEPT !.pc = "place", !.aside = disk.src[s.id]]
  OBVIOUS
<1>5. /\ t \in Client /\ t.pc = "place" /\ t.id = s.id /\ t.before = s.before /\ t.roots = s.roots
      /\ t.commit = s.commit /\ t.venv = None /\ t.aside = disk.src[s.id] /\ t.kept = s.kept
  <2>1. "place" \in Waiting \cup Locked
    BY DEF Locked, Changing
  <2>2. t \in Client
    <3>1. PICK u : u = [s EXCEPT !.pc = "place"]
      OBVIOUS
    <3>2. u \in Client
      BY <1>1, <2>1, <3>1 DEF Client
    <3>3. t = [u EXCEPT !.aside = disk.src[s.id]]
      BY <1>4, <3>1
    <3> QED
      BY <1>3, <3>2, <3>3, ClientUpdates
  <2> QED
    BY <1>1, <1>2, <1>4, <2>2 DEF Client
<1>6. cl' = [cl EXCEPT ![c] = t]
  BY <1>1, <1>4 DEF Aside
<1>7. /\ UNCHANGED <<lock, procs>> /\ disk' \in Disk /\ SameRest(disk, disk')
      /\ disk'.files = disk.files /\ disk'.venvs = disk.venvs /\ disk'.built = disk.built
      /\ \A i \in Ids \ {s.id} : disk'.src[i] = disk.src[i]
  <2>1. UNCHANGED <<lock, procs>> /\ disk' = [disk EXCEPT !.src[s.id] = None]
    BY <1>1 DEF Aside, Steps
  <2>2. disk \in Disk
    BY DEF PluginInv, PluginTyped
  <2> QED
    BY <1>2, <2>1, <2>2 DEF Disk, SameRest
<1>8. \A i \in Ids : PluginVenvs(i)' = PluginVenvs(i)
  BY <1>7 DEF PluginVenvs
<1>9. Fresh' /\ CanRun(disk.files)'
  BY <1>7 DEF PluginInv, Fresh, CanRun, Whole, SameRest
<1>10. Keeps(t)' /\ Builds(t)'
  BY <1>1, <1>2, <1>5, <1>7 DEF Work, Keeps, Builds, CanRun, Whole, SameRest
<1>11. Places(t)' /\ AgreedBefore(t)'
  <2>1. Places(t)'
    BY <1>1, <1>2, <1>5, <1>7, <1>8 DEF Work, Places, SameRest, Changing
  <2>2. AgreedBefore(t)'
    BY <1>1, <1>2, <1>5, <1>7, <1>8 DEF Work, AgreedBefore, SameRest
  <2> QED
    BY <2>1, <2>2
<1> QED
  BY <1>1, <1>5, <1>6, <1>7, <1>8, <1>9, <1>10, <1>11, DirectoryKeeps DEF Working, SameRest, HurtsOnly

LEMMA PlaceKeeps ==
    ASSUME PluginInv, NEW c \in Clients, Place(c)
    PROVE  PluginInv'
<1> USE DEF Building, Undoing, Removing
<1>1. PICK s \in Client : s = cl[c] /\ s.pc = "place"
  BY DEF PluginInv, PluginTyped, Place, Steps, At
<1>2. s.id \in Ids /\ Work(s) /\ Named(s) /\ s.venv = None /\ s.commit \in Nat
  BY <1>1, HolderKnows DEF Locked, Changing, Named
<1>3. /\ disk \in Disk /\ disk.built \in Nat /\ disk.venvs \in SUBSET Venv /\ Fresh
      /\ disk.files \in Files
  BY DiskFields DEF PluginInv, PluginTyped
<1>4. PICK v : v = NewVenvPath(s.id, s.commit)
  OBVIOUS
<1>5. /\ v \in Environment /\ v.id = s.id /\ v.commit = s.commit /\ v.extra <= disk.built
      /\ \A w \in disk.venvs : w.path # v
  <2>1. \A w \in disk.venvs : w.path \in Environment /\ w.path.extra < disk.built
    BY <1>3 DEF Venv, Fresh
  <2>2. CASE Path(s.id, s.commit, 0) \in PluginVenvs(s.id)
    <3>1. v = [id |-> s.id, commit |-> s.commit, extra |-> disk.built]
      BY <1>4, <2>2 DEF NewVenvPath, Path
    <3> QED
      BY <1>2, <1>3, <2>1, <3>1 DEF Environment
  <2>3. CASE Path(s.id, s.commit, 0) \notin PluginVenvs(s.id)
    <3>1. v = [id |-> s.id, commit |-> s.commit, extra |-> 0]
      BY <1>4, <2>3 DEF NewVenvPath, Path
    <3>2. \A w \in disk.venvs : w.path = v => v \in PluginVenvs(s.id)
      BY <3>1 DEF PluginVenvs
    <3> QED
      BY <1>2, <1>3, <2>3, <3>1, <3>2 DEF Environment, Path
  <2> QED
    BY <2>2, <2>3
<1>6. PICK t : t = [s EXCEPT !.pc = "build", !.venv = v]
  OBVIOUS
<1>7. /\ t \in Client /\ t.pc = "build" /\ t.id = s.id /\ t.before = s.before /\ t.roots = s.roots
      /\ t.commit = s.commit /\ t.venv = v /\ t.aside = s.aside /\ t.kept = s.kept
  <2>1. "build" \in Waiting \cup Locked
    BY DEF Locked, Changing
  <2>2. t \in Client
    <3>1. PICK u : u = [s EXCEPT !.pc = "build"]
      OBVIOUS
    <3>2. u \in Client
      BY <1>1, <2>1, <3>1, ClientUpdates
    <3>3. t = [u EXCEPT !.venv = v]
      BY <1>6, <3>1
    <3> QED
      BY <1>5, <3>2, <3>3, ClientUpdates
  <2> QED
    BY <1>1, <1>6, <2>2 DEF Client
<1>8. cl' = [cl EXCEPT ![c] = t]
  BY <1>1, <1>4, <1>6 DEF Place
<1>9. PICK new : new = [path |-> v, build |-> disk.built, whole |-> FALSE]
  OBVIOUS
<1>10. /\ UNCHANGED <<lock, procs>> /\ disk' \in Disk /\ SameRest(disk, disk')
       /\ disk'.files = disk.files /\ disk'.venvs = disk.venvs \cup {new}
       /\ disk'.built = disk.built + 1 /\ disk'.src[s.id] = s.commit
       /\ \A i \in Ids \ {s.id} : disk'.src[i] = disk.src[i]
  <2>1. /\ UNCHANGED <<lock, procs>>
        /\ disk' = [disk EXCEPT !.src[s.id] = s.commit, !.built = @ + 1,
                                !.venvs = @ \cup {new}]
    BY <1>1, <1>4, <1>9 DEF Place, Steps
  <2>2. disk.venvs \cup {new} \in SUBSET Venv /\ disk.built + 1 \in Nat
    <3>1. new \in Venv
      BY <1>3, <1>5, <1>9 DEF Venv
    <3> QED
      BY <1>3, <3>1
  <2>3. PICK vs \in SUBSET Venv, n \in Nat : vs = disk.venvs \cup {new} /\ n = disk.built + 1
    BY <2>2
  <2>4. disk' = [disk EXCEPT !.src[s.id] = s.commit, !.built = n, !.venvs = vs]
    BY <2>1, <2>3
  <2> QED
    <3>1. disk' \in Disk
      BY <1>2, <1>3, <2>3, <2>4 DEF Disk
    <3> QED
      BY <1>2, <1>3, <2>1, <2>3, <2>4, <3>1 DEF Disk, SameRest
<1>11. /\ new.path = v /\ new.build = disk.built
       /\ \A i \in Ids \ {s.id} : PluginVenvs(i)' = PluginVenvs(i)
       /\ PluginVenvs(s.id)' = PluginVenvs(s.id) \cup {v} /\ v \notin PluginVenvs(s.id)
  <2>1. new.path = v /\ new.build = disk.built /\ new.path.id = s.id
    BY <1>5, <1>9
  <2> QED
    BY <1>5, <1>10, <2>1 DEF PluginVenvs
<1>12. Fresh'
  BY <1>3, <1>5, <1>10, <1>11 DEF Fresh, Venv, Environment
<1>13. \A e : Whole(e) => Whole(e)' /\ e # v
  BY <1>5, <1>10 DEF Whole
<1>14. CanRun(disk.files)'
  BY <1>3, <1>10, <1>13 DEF PluginInv, CanRun, SameRest
<1>15. Keeps(t)'
  BY <1>1, <1>2, <1>7, <1>10, <1>13 DEF Work, Keeps, CanRun, SameRest
<1>16. Builds(t)'
  BY <1>5, <1>7, <1>10, <1>11 DEF Builds
<1>17. Places(t)'
  <2>1. PluginVenvs(s.id) \subseteq s.roots
    <3>1. PluginVenvs(s.id) \subseteq s.roots \cup {None}
      BY <1>1, <1>2 DEF Work, Places
    <3>2. \A e \in PluginVenvs(s.id) : e \in Environment
      BY <1>3 DEF PluginVenvs, Venv
    <3> QED
      BY <3>1, <3>2, NoneApart
  <2> QED
    BY <1>1, <1>2, <1>5, <1>7, <1>10, <1>11, <2>1 DEF Work, Places, SameRest, Changing
<1>18. AgreedBefore(t)'
  <2>1. PluginVenvs(s.id)' \ {v} = PluginVenvs(s.id) \ {s.venv}
    <3>1. \A e \in PluginVenvs(s.id) : e \in Environment
      BY <1>3 DEF PluginVenvs, Venv
    <3> QED
      BY <1>2, <1>11, <3>1, NoneApart
  <2> QED
    BY <1>1, <1>2, <1>7, <1>10, <2>1 DEF Work, AgreedBefore, SameRest
<1> QED
  BY <1>1, <1>7, <1>8, <1>10, <1>11, <1>12, <1>14, <1>15, <1>16, <1>17, <1>18, DirectoryKeeps
     DEF Working, SameRest, HurtsOnly

LEMMA VenvsChange ==
    ASSUME PluginTyped, NEW vs \in SUBSET Venv, disk' = [disk EXCEPT !.venvs = vs]
    PROVE  /\ disk' \in Disk /\ SameRest(disk, disk') /\ disk'.files = disk.files
           /\ disk'.src = disk.src /\ disk'.built = disk.built /\ disk'.venvs = vs
BY DEF PluginTyped, Disk, SameRest

LEMMA SourceChange ==
    ASSUME PluginTyped, NEW id \in Ids, NEW x \in Nat \cup {None},
           disk' = [disk EXCEPT !.src[id] = x]
    PROVE  /\ disk' \in Disk /\ SameRest(disk, disk') /\ disk'.files = disk.files
           /\ disk'.built = disk.built /\ disk'.venvs = disk.venvs
           /\ disk'.src[id] = x /\ \A i \in Ids \ {id} : disk'.src[i] = disk.src[i]
BY DEF PluginTyped, Disk, SameRest

LEMMA BuildKeeps ==
    ASSUME PluginInv, NEW c \in Clients, Build(c)
    PROVE  PluginInv'
<1> USE DEF Building, Undoing, Removing
<1>1. PICK s \in Client : s = cl[c] /\ s.pc = "build"
  BY DEF PluginInv, PluginTyped, Build, Steps, At
<1>2. s.id \in Ids /\ Work(s)
  BY <1>1, HolderKnows DEF Locked, Changing
<1>3. PICK t \in Client : cl' = [cl EXCEPT ![c] = t] /\ t.pc = "manifest" /\ Knows(s, t)
  BY <1>1, Moves DEF PluginInv, Build, Steps, Locked, Changing
<1>4. PICK vs : vs = {IF v.path = s.venv THEN [v EXCEPT !.whole = TRUE] ELSE v : v \in disk.venvs}
  OBVIOUS
<1>5. /\ vs \in SUBSET Venv
      /\ \A v \in disk.venvs : \E w \in vs :
             w.path = v.path /\ w.build = v.build /\ (v.whole \/ v.path = s.venv => w.whole)
      /\ \A w \in vs : \E v \in disk.venvs : w.path = v.path
  <2>1. \A v \in disk.venvs : /\ v \in Venv /\ [v EXCEPT !.whole = TRUE] \in Venv
                              /\ [v EXCEPT !.whole = TRUE].path = v.path
                              /\ [v EXCEPT !.whole = TRUE].build = v.build
                              /\ [v EXCEPT !.whole = TRUE].whole
    BY DiskFields DEF PluginInv, Venv
  <2>2. vs \in SUBSET Venv
    BY <1>4, <2>1
  <2>3. \A v \in disk.venvs : (IF v.path = s.venv THEN [v EXCEPT !.whole = TRUE] ELSE v) \in vs
    BY <1>4
  <2>4. \A w \in vs : \E v \in disk.venvs :
            w = (IF v.path = s.venv THEN [v EXCEPT !.whole = TRUE] ELSE v)
    BY <1>4
  <2>5. \A v \in disk.venvs : \E w \in vs :
             w.path = v.path /\ w.build = v.build /\ (v.whole \/ v.path = s.venv => w.whole)
    <3> SUFFICES ASSUME NEW v \in disk.venvs
                 PROVE  \E w \in vs : w.path = v.path /\ w.build = v.build
                                      /\ (v.whole \/ v.path = s.venv => w.whole)
      OBVIOUS
    <3>1. CASE v.path = s.venv
      <4>1. [v EXCEPT !.whole = TRUE] \in vs
        BY <2>3, <3>1
      <4> QED
        BY <2>1, <4>1
    <3>2. CASE v.path # s.venv
      <4>1. v \in vs
        BY <2>3, <3>2
      <4> QED
        BY <3>2, <4>1
    <3> QED
      BY <3>1, <3>2
  <2>6. \A w \in vs : \E v \in disk.venvs : w.path = v.path
    BY <2>1, <2>4
  <2> QED
    BY <2>2, <2>5, <2>6
<1>6. disk' = [disk EXCEPT !.venvs = vs] /\ UNCHANGED <<lock, procs>>
  BY <1>1, <1>4 DEF Build, Steps
<1>7. /\ disk' \in Disk /\ SameRest(disk, disk') /\ disk'.files = disk.files
      /\ disk'.src = disk.src /\ disk'.built = disk.built /\ disk'.venvs = vs
  BY <1>5, <1>6, VenvsChange DEF PluginInv
<1>8. \A i \in Ids : PluginVenvs(i)' = PluginVenvs(i)
  <2> SUFFICES ASSUME NEW i \in Ids, NEW e
               PROVE  e \in PluginVenvs(i)' <=> e \in PluginVenvs(i)
    BY DEF PluginVenvs
  <2>1. e \in PluginVenvs(i) <=> \E v \in disk.venvs : v.path = e /\ e.id = i
    BY DEF PluginVenvs
  <2>2. e \in PluginVenvs(i)' <=> \E v \in vs : v.path = e /\ e.id = i
    BY <1>7 DEF PluginVenvs
  <2> QED
    BY <1>5, <2>1, <2>2
<1>9. \A e : (Whole(e) => Whole(e)') /\ (e = s.venv /\ (\E w \in disk.venvs : w.path = e) => Whole(e)')
  BY <1>5, <1>7 DEF Whole
<1>10. Fresh' /\ CanRun(disk.files)'
  BY <1>5, <1>7, <1>9 DEF PluginInv, Fresh, CanRun, SameRest
<1>11. Keeps(t)'
  BY <1>1, <1>2, <1>3, <1>7, <1>9 DEF Work, Keeps, CanRun, Knows, SameRest
<1>12. Builds(t)'
  BY <1>1, <1>2, <1>3, <1>9 DEF Work, Builds, Knows
<1>13. Places(t)' /\ AgreedBefore(t)'
  <2>1. Places(t)'
    BY <1>1, <1>2, <1>3, <1>7, <1>8 DEF Work, Places, Knows, SameRest, Changing
  <2>2. AgreedBefore(t)'
    BY <1>1, <1>2, <1>3, <1>7, <1>8 DEF Work, AgreedBefore, Knows, SameRest
  <2> QED
    BY <2>1, <2>2
<1>14. \A v \in disk.venvs : \E w \in disk'.venvs : w.build = v.build
  BY <1>5, <1>7
<1> QED
  BY <1>1, <1>3, <1>6, <1>7, <1>8, <1>10, <1>11, <1>12, <1>13, <1>14, DirectoryKeeps
     DEF Working, Knows, SameRest, HurtsOnly

LEMMA RemoveBuildKeeps ==
    ASSUME PluginInv, NEW c \in Clients, RemoveBuild(c)
    PROVE  PluginInv'
<1> USE DEF Building, Undoing, Removing
<1>1. PICK s \in Client : s = cl[c] /\ s.pc = "rmvenv"
  BY DEF PluginInv, PluginTyped, RemoveBuild, Steps, At
<1>2. s.id \in Ids /\ Work(s)
  BY <1>1, HolderKnows DEF Locked, Changing
<1>3. PICK t \in Client : cl' = [cl EXCEPT ![c] = t] /\ t.pc = "rmtarget" /\ Knows(s, t)
  BY <1>1, Moves DEF PluginInv, RemoveBuild, Steps, Locked, Changing
<1>4. PICK vs : vs = {v \in disk.venvs : v.path # s.venv}
  OBVIOUS
<1>5. vs \in SUBSET Venv /\ vs \in SUBSET disk.venvs
  BY <1>4, DiskFields DEF PluginInv
<1>6. disk' = [disk EXCEPT !.venvs = vs] /\ UNCHANGED <<lock, procs>>
  BY <1>1, <1>4 DEF RemoveBuild, Steps
<1>7. /\ disk' \in Disk /\ SameRest(disk, disk') /\ disk'.files = disk.files
      /\ disk'.src = disk.src /\ disk'.built = disk.built /\ disk'.venvs = vs
  BY <1>5, <1>6, VenvsChange DEF PluginInv
<1>8. \A i \in Ids : PluginVenvs(i)' = PluginVenvs(i) \ {s.venv}
  BY <1>4, <1>7 DEF PluginVenvs
<1>9. \A i \in Ids \ {s.id} : PluginVenvs(i)' = PluginVenvs(i)
  <2>1. s.venv.id = s.id
    BY <1>1, <1>2 DEF Work, Builds
  <2> QED
    BY <1>8, <2>1 DEF PluginVenvs
<1>10. \A e : Whole(e) /\ e # s.venv => Whole(e)'
  BY <1>4, <1>7 DEF Whole
<1>11. Fresh'
  BY <1>5, <1>7 DEF PluginInv, Fresh
<1>12. CanRun(disk.files)'
  <2>1. \A i \in Ids : Manifest(i) # None /\ Manifest(i).id \notin disk.torn => Manifest(i) # s.venv
    BY <1>1, <1>2 DEF Work, Alone, Changing, Gone, Keeps, Builds, Publishes
  <2>2. Service # None /\ Service.id \notin disk.torn => Service # s.venv
    BY <1>1, <1>2 DEF Work, Keeps, Builds, Publishes
  <2> QED
    BY <1>7, <1>10, <2>1, <2>2 DEF PluginInv, CanRun, Manifest, Service, SameRest
<1>13. Keeps(t)'
  BY <1>1, <1>2, <1>3, <1>7, <1>10 DEF Work, Keeps, CanRun, Knows, SameRest
<1>14. Builds(t)'
  BY <1>1, <1>2, <1>3, <1>4, <1>7 DEF Work, Builds, Knows
<1>15. Places(t)' /\ AgreedBefore(t)'
  BY <1>1, <1>2, <1>3, <1>7, <1>8 DEF Work, Places, AgreedBefore, Knows, SameRest, Changing
<1> QED
  BY <1>1, <1>3, <1>6, <1>7, <1>9, <1>11, <1>12, <1>13, <1>14, <1>15, DirectoryKeeps
     DEF Working, Knows, SameRest, HurtsOnly

LEMMA RemoveTargetKeeps ==
    ASSUME PluginInv, NEW c \in Clients, RemoveTarget(c) \/ RemoveSource(c)
    PROVE  PluginInv'
<1> USE DEF Building, Undoing, Removing
<1>1. PICK s \in Client : s = cl[c] /\ s.pc \in {"rmtarget", "rmsource"}
  BY DEF PluginInv, PluginTyped, RemoveTarget, RemoveSource, Steps, At
<1>2. s.id \in Ids /\ Work(s)
  BY <1>1, HolderKnows DEF Locked, Changing
<1>3. PICK t \in Client : /\ cl' = [cl EXCEPT ![c] = t] /\ Knows(s, t)
                          /\ <<s.pc, t.pc>> \in {<<"rmtarget", "putback">>, <<"rmsource", "rmservice">>}
  <2>1. CASE RemoveTarget(c)
    BY <1>1, <2>1, Moves DEF PluginInv, RemoveTarget, Steps, At, Locked, Changing
  <2>2. CASE RemoveSource(c)
    BY <1>1, <2>2, Moves DEF PluginInv, RemoveSource, Steps, At, Locked, Changing
  <2> QED
    BY <2>1, <2>2
<1>4. disk' = [disk EXCEPT !.src[s.id] = None] /\ UNCHANGED <<lock, procs>>
  BY <1>1 DEF RemoveTarget, RemoveSource, Steps
<1>5. /\ disk' \in Disk /\ SameRest(disk, disk') /\ disk'.files = disk.files
      /\ disk'.built = disk.built /\ disk'.venvs = disk.venvs
      /\ \A i \in Ids \ {s.id} : disk'.src[i] = disk.src[i]
  BY <1>2, <1>4, SourceChange DEF PluginInv
<1>6. \A i \in Ids : PluginVenvs(i)' = PluginVenvs(i)
  BY <1>5 DEF PluginVenvs
<1>7. Fresh' /\ CanRun(disk.files)'
  BY <1>5 DEF PluginInv, Fresh, CanRun, Whole, SameRest
<1>8. Keeps(t)' /\ Builds(t)'
  BY <1>2, <1>3, <1>5 DEF Work, Keeps, Builds, CanRun, Whole, Knows, SameRest
<1>9. Places(t)' /\ AgreedBefore(t)'
  BY <1>2, <1>3, <1>5, <1>6 DEF Work, Places, AgreedBefore, Knows, SameRest, Changing
<1> QED
  BY <1>1, <1>3, <1>4, <1>5, <1>6, <1>7, <1>8, <1>9, DirectoryKeeps DEF Working, Knows, SameRest, HurtsOnly

\* A half removed environment keeps its path and its build.
LEMMA HalfRemovedVenvs ==
    ASSUME NEW venvs \in SUBSET Venv, NEW path, NEW vs, vs = HalfRemoved(venvs, path)
    PROVE  /\ vs \in SUBSET Venv
           /\ \A v \in venvs : \E w \in vs : w.path = v.path /\ w.build = v.build
           /\ \A w \in vs : \E v \in venvs : w.path = v.path
           /\ \A v \in venvs : v.path # path => v \in vs
<1>1. \A v \in venvs : /\ v \in Venv /\ [v EXCEPT !.whole = FALSE] \in Venv
                       /\ [v EXCEPT !.whole = FALSE].path = v.path
                       /\ [v EXCEPT !.whole = FALSE].build = v.build
  BY DEF Venv
<1>2. \A v \in venvs : (IF v.path = path THEN [v EXCEPT !.whole = FALSE] ELSE v) \in vs
  BY DEF HalfRemoved
<1>3. \A w \in vs : \E v \in venvs : w = (IF v.path = path THEN [v EXCEPT !.whole = FALSE] ELSE v)
  BY DEF HalfRemoved
<1>4. vs \in SUBSET Venv /\ \A w \in vs : \E v \in venvs : w.path = v.path
  <2> SUFFICES ASSUME NEW w \in vs PROVE w \in Venv /\ \E v \in venvs : w.path = v.path
    OBVIOUS
  <2>1. PICK v \in venvs : w = (IF v.path = path THEN [v EXCEPT !.whole = FALSE] ELSE v)
    BY <1>3
  <2> QED
    BY <1>1, <2>1
<1>5. \A v \in venvs : v.path # path => v \in vs
  BY <1>2
<1>6. \A v \in venvs : \E w \in vs : w.path = v.path /\ w.build = v.build
  <2> SUFFICES ASSUME NEW v \in venvs PROVE \E w \in vs : w.path = v.path /\ w.build = v.build
    OBVIOUS
  <2>1. CASE v.path = path
    <3>1. [v EXCEPT !.whole = FALSE] \in vs
      BY <1>2, <2>1
    <3> QED
      BY <1>1, <3>1
  <2>2. CASE v.path # path
    BY <1>5, <2>2
  <2> QED
    BY <2>1, <2>2
<1> QED
  BY <1>4, <1>5, <1>6

\* So the plugins' environments are where they were, and the plugin is damaged.
LEMMA HalfRemovedDisk ==
    ASSUME PluginTyped, NEW id \in Ids, NEW path,
           disk' = Damaged([disk EXCEPT !.venvs = HalfRemoved(@, path)], id)
    PROVE  /\ disk' \in Disk /\ disk'.files = disk.files /\ disk'.src = disk.src
           /\ disk'.built = disk.built /\ disk'.disabled = disk.disabled
           /\ disk'.damaged = disk.damaged \cup {id} /\ disk'.torn = disk.torn
           /\ \A i \in Ids : PluginVenvs(i)' = PluginVenvs(i)
           /\ \A v \in disk.venvs : \E w \in disk'.venvs : w.path = v.path /\ w.build = v.build
           /\ \A w \in disk'.venvs : \E v \in disk.venvs : w.path = v.path
           /\ \A e : Whole(e) /\ e # path => Whole(e)'
<1>1. PICK vs : vs = HalfRemoved(disk.venvs, path)
  OBVIOUS
<1>2. disk \in Disk /\ disk.venvs \in SUBSET Venv
  BY DiskFields DEF PluginTyped
<1>3. /\ vs \in SUBSET Venv
      /\ \A v \in disk.venvs : \E w \in vs : w.path = v.path /\ w.build = v.build
      /\ \A w \in vs : \E v \in disk.venvs : w.path = v.path
      /\ \A v \in disk.venvs : v.path # path => v \in vs
  BY <1>1, <1>2, HalfRemovedVenvs
<1>4. PICK d : d = [disk EXCEPT !.venvs = vs]
  OBVIOUS
<1>5. /\ d \in Disk /\ d.files = disk.files /\ d.src = disk.src /\ d.built = disk.built
      /\ d.venvs = vs /\ SameRest(disk, d)
  BY <1>2, <1>3, <1>4 DEF Disk, SameRest
<1>6. disk' = Damaged(d, id)
  BY <1>1, <1>4
<1>7. /\ disk' \in Disk /\ SameDirs(d, disk') /\ disk'.files = d.files
      /\ disk'.disabled = d.disabled /\ disk'.damaged = d.damaged \cup {id} /\ disk'.torn = d.torn
  BY <1>5, <1>6, DamagedDisk
<1>8. disk'.venvs = vs
  BY <1>5, <1>7 DEF SameDirs
<1>9. \A i \in Ids : PluginVenvs(i)' = PluginVenvs(i)
  <2> SUFFICES ASSUME NEW i \in Ids, NEW e
               PROVE  e \in PluginVenvs(i)' <=> e \in PluginVenvs(i)
    BY DEF PluginVenvs
  <2>1. e \in PluginVenvs(i) <=> \E v \in disk.venvs : v.path = e /\ e.id = i
    BY DEF PluginVenvs
  <2>2. e \in PluginVenvs(i)' <=> \E v \in vs : v.path = e /\ e.id = i
    BY <1>8 DEF PluginVenvs
  <2> QED
    BY <1>3, <2>1, <2>2
<1>10. \A e : Whole(e) /\ e # path => Whole(e)'
  BY <1>3, <1>8 DEF Whole
<1> QED
  BY <1>3, <1>5, <1>7, <1>8, <1>9, <1>10 DEF SameDirs, SameRest

LEMMA BuildStaysKeeps ==
    ASSUME PluginInv, NEW c \in Clients, BuildStays(c)
    PROVE  PluginInv'
<1> USE DEF Building, Undoing, Removing
<1>1. PICK s \in Client : s = cl[c] /\ s.pc = "rmvenv"
  BY DEF PluginInv, PluginTyped, BuildStays, At
<1>2. s.id \in Ids /\ Work(s)
  BY <1>1, HolderKnows DEF Locked, Changing
<1>3. PICK t \in Client : cl' = [cl EXCEPT ![c] = t] /\ t.pc = "rmtarget" /\ Knows(s, t)
  BY <1>1, Moves DEF PluginInv, BuildStays, Locked, Changing
<1>4. /\ UNCHANGED <<lock, procs>>
      /\ disk' = Damaged([disk EXCEPT !.venvs = HalfRemoved(@, s.venv)], s.id)
  BY <1>1 DEF BuildStays
<1>5. /\ disk' \in Disk /\ disk'.files = disk.files /\ disk'.src = disk.src
      /\ disk'.built = disk.built /\ disk'.disabled = disk.disabled
      /\ disk'.damaged = disk.damaged \cup {s.id} /\ disk'.torn = disk.torn
      /\ \A i \in Ids : PluginVenvs(i)' = PluginVenvs(i)
      /\ \A w \in disk'.venvs : \E v \in disk.venvs : w.path = v.path
      /\ \A e : Whole(e) /\ e # s.venv => Whole(e)'
  BY <1>2, <1>4, HalfRemovedDisk DEF PluginInv
<1>6. Fresh'
  BY <1>5 DEF PluginInv, Fresh
<1>7. CanRun(disk.files)'
  <2>1. \A i \in Ids : Manifest(i) # None /\ Manifest(i).id \notin disk.torn => Manifest(i) # s.venv
    BY <1>1, <1>2 DEF Work, Alone, Changing, Gone, Keeps, Builds, Publishes
  <2>2. Service # None /\ Service.id \notin disk.torn => Service # s.venv
    BY <1>1, <1>2 DEF Work, Keeps, Builds, Publishes
  <2> QED
    BY <1>5, <2>1, <2>2 DEF PluginInv, CanRun, Manifest, Service
<1>8. Keeps(t)' /\ Builds(t)'
  BY <1>1, <1>2, <1>3, <1>5 DEF Work, Keeps, Builds, CanRun, Knows
<1>9. Places(t)' /\ AgreedBefore(t)'
  BY <1>2, <1>3, <1>5 DEF Work, Places, AgreedBefore, Knows, Changing
<1> QED
  BY <1>1, <1>3, <1>4, <1>5, <1>6, <1>7, <1>8, <1>9, DirectoryKeeps
     DEF Working, Knows, HurtsOnly

\* The checkout stays.
LEMMA TargetStaysKeeps ==
    ASSUME PluginInv, NEW c \in Clients, TargetStays(c) \/ SourceStays(c)
    PROVE  PluginInv'
<1> USE DEF Building, Undoing, Removing
<1>1. PICK s \in Client : s = cl[c] /\ s.pc \in {"rmtarget", "rmsource"}
  BY DEF PluginInv, PluginTyped, TargetStays, SourceStays, At
<1>2. s.id \in Ids /\ Work(s)
  BY <1>1, HolderKnows DEF Locked, Changing
<1>3. PICK t \in Client : /\ cl' = [cl EXCEPT ![c] = t] /\ Knows(s, t)
                          /\ <<s.pc, t.pc>> \in {<<"rmtarget", "putback">>, <<"rmsource", "rmservice">>}
  <2>1. CASE TargetStays(c)
    BY <1>1, <2>1, Moves DEF PluginInv, TargetStays, At, Locked, Changing
  <2>2. CASE SourceStays(c)
    BY <1>1, <2>2, Moves DEF PluginInv, SourceStays, At, Locked, Changing
  <2> QED
    BY <2>1, <2>2
<1>4. UNCHANGED <<lock, procs>> /\ disk' \in {disk, Damaged(disk, s.id)} /\ disk \in Disk
  BY <1>1 DEF TargetStays, SourceStays, PluginInv, PluginTyped
<1>5. /\ disk' \in Disk /\ disk'.files = disk.files /\ disk'.src = disk.src
      /\ disk'.built = disk.built /\ disk'.venvs = disk.venvs /\ HurtsOnly(disk, disk', s.id)
  <2>1. CASE disk' = disk
    BY <1>4, <2>1 DEF HurtsOnly
  <2>2. CASE disk' = Damaged(disk, s.id)
    BY <1>2, <1>4, <2>2, DamagedDisk DEF HurtsOnly, SameDirs
  <2> QED
    BY <1>4, <2>1, <2>2
<1>6. \A i \in Ids : PluginVenvs(i)' = PluginVenvs(i)
  BY <1>5 DEF PluginVenvs
<1>7. Fresh' /\ CanRun(disk.files)'
  BY <1>5 DEF PluginInv, Fresh, CanRun, Whole, HurtsOnly
<1>8. Keeps(t)' /\ Builds(t)'
  BY <1>2, <1>3, <1>5 DEF Work, Keeps, Builds, CanRun, Whole, Knows, HurtsOnly
<1>9. Places(t)' /\ AgreedBefore(t)'
  BY <1>2, <1>3, <1>5, <1>6 DEF Work, Places, AgreedBefore, Knows, HurtsOnly, Changing
<1> QED
  BY <1>1, <1>3, <1>4, <1>5, <1>6, <1>7, <1>8, <1>9, DirectoryKeeps DEF Working, Knows

LEMMA OldStaysKeeps ==
    ASSUME PluginInv, NEW c \in Clients, OldStays(c)
    PROVE  PluginInv'
<1> USE DEF Building, Undoing, Removing
<1>1. PICK s \in Client : s = cl[c] /\ s.pc \in {"sweep", "rmvenvs"}
  BY DEF PluginInv, PluginTyped, OldStays
<1>2. s.id \in Ids /\ Work(s) /\ Named(s)
  BY <1>1, HolderKnows DEF Locked, Changing
<1>3. PICK v \in Old(s) :
          /\ cl' = [cl EXCEPT ![c].kept = @ \cup {v.path}]
          /\ disk' = Damaged([disk EXCEPT !.venvs = HalfRemoved(@, v.path)], s.id)
  BY <1>1 DEF OldStays
<1>4. UNCHANGED <<lock, procs>> /\ v \in Venv /\ v.path \in s.roots /\ v.path # s.venv
  BY DiskFields DEF OldStays, Old, PluginInv
<1>5. PICK k : k = s.kept \cup {v.path}
  OBVIOUS
<1>6. PICK t : t = [s EXCEPT !.kept = k]
  OBVIOUS
<1>7. /\ t \in Client /\ t.pc = s.pc /\ t.id = s.id /\ t.before = s.before /\ t.roots = s.roots
      /\ t.commit = s.commit /\ t.venv = s.venv /\ t.kept = k
  <2>1. k \in SUBSET Environment
    BY <1>1, <1>4, <1>5 DEF Client, Venv
  <2>2. t \in Client
    BY <1>1, <1>6, <2>1, SMTT(60) DEF Client
  <2> QED
    BY <1>1, <1>6, <2>2 DEF Client
<1>8. cl' = [cl EXCEPT ![c] = t]
  BY <1>1, <1>3, <1>5, <1>6
<1>9. /\ disk' \in Disk /\ disk'.files = disk.files /\ disk'.src = disk.src
      /\ disk'.built = disk.built /\ disk'.disabled = disk.disabled
      /\ disk'.damaged = disk.damaged \cup {s.id} /\ disk'.torn = disk.torn
      /\ \A i \in Ids : PluginVenvs(i)' = PluginVenvs(i)
      /\ \A x \in disk.venvs : \E w \in disk'.venvs : w.path = x.path /\ w.build = x.build
      /\ \A w \in disk'.venvs : \E x \in disk.venvs : w.path = x.path
      /\ \A e : Whole(e) /\ e # v.path => Whole(e)'
  BY <1>2, <1>3, HalfRemovedDisk DEF PluginInv
<1>10. Fresh'
  BY <1>9 DEF PluginInv, Fresh
<1>11. CanRun(disk.files)'
  <2>1. \A i \in Ids \ {s.id} : Gone(i)
    BY <1>1, <1>2 DEF Work, Alone, Changing
  <2>2. CASE s.pc = "sweep"
    <3>1. Manifest(s.id) = s.venv /\ Service = s.venv /\ Whole(s.venv)'
      BY <1>2, <1>4, <1>9, <2>2 DEF Work, Publishes, Builds
    <3> QED
      BY <1>2, <1>9, <2>1, <3>1 DEF PluginInv, CanRun, Gone, Manifest, Service
  <2>3. CASE s.pc = "rmvenvs"
    <3>1. Manifest(s.id) = None /\ Service = None
      BY <1>2, <2>3 DEF Work, Publishes
    <3> QED
      BY <1>2, <1>9, <2>1, <3>1 DEF PluginInv, CanRun, Gone, Manifest, Service
  <2> QED
    BY <1>1, <2>2, <2>3
<1>12. Keeps(t)' /\ AgreedBefore(t)' /\ Builds(t)'
  BY <1>1, <1>2, <1>4, <1>7, <1>9 DEF Work, Keeps, AgreedBefore, Builds
<1>13. Places(t)'
  BY <1>1, <1>2, <1>7, <1>9 DEF Work, Places
<1> QED
  BY <1>1, <1>4, <1>7, <1>8, <1>9, <1>10, <1>11, <1>12, <1>13, DirectoryKeeps
     DEF Working, HurtsOnly

LEMMA RemoveVenvsKeeps ==
    ASSUME PluginInv, NEW c \in Clients, RemoveVenvs(c)
    PROVE  PluginInv'
<1> USE DEF Building, Undoing, Removing
<1>1. PICK s \in Client : s = cl[c] /\ s.pc = "rmvenvs"
  BY DEF PluginInv, PluginTyped, RemoveVenvs, Steps, At
<1>2. s.id \in Ids /\ Work(s) /\ s.venv = None
  BY <1>1, HolderKnows DEF Locked, Changing, Named
<1>3. UNCHANGED <<lock, procs>>
  BY DEF RemoveVenvs, Steps
<1>4. disk.files \in Files /\ \A i \in Ids : Manifest(i) = None
  BY <1>1, <1>2, DiskFields DEF PluginInv, Work, Alone, Changing, Gone, Publishes
<1>5. CASE Old(s) = {}
  <2>1. To(c, "rmrecord") /\ disk' = disk
    BY <1>1, <1>5 DEF RemoveVenvs
  <2>2. PICK t \in Client : cl' = [cl EXCEPT ![c] = t] /\ t.pc = "rmrecord" /\ Knows(s, t)
    BY <1>1, <2>1, Moves DEF PluginInv, Locked, Changing
  <2>3. PluginVenvs(s.id) \subseteq s.kept
    <3>1. PluginVenvs(s.id) \subseteq s.roots
      BY <1>1, <1>2 DEF Work, Places
    <3>2. \A e \in PluginVenvs(s.id) : \E v \in disk.venvs : v.path = e /\ v \in Venv
      BY DiskFields DEF PluginInv, PluginVenvs
    <3> QED
      BY <1>2, <1>5, <3>1, <3>2, NoneApart DEF Old, Venv
  <2>4. PluginVenvs(s.id)' = PluginVenvs(s.id)
    BY <2>1 DEF PluginVenvs
  <2>5. Places(t)' /\ AgreedBefore(t)' /\ Keeps(t)' /\ Builds(t)'
    BY <1>1, <1>2, <2>1, <2>2, <2>3, <2>4
       DEF Work, Places, AgreedBefore, Keeps, Builds, Knows, Changing
  <2>6. /\ disk' \in Disk /\ SameRest(disk, disk') /\ Fresh' /\ CanRun(disk.files)'
        /\ \A i \in Ids : PluginVenvs(i)' = PluginVenvs(i)
    BY <2>1 DEF PluginInv, PluginTyped, SameRest, Fresh, CanRun, Whole, PluginVenvs
  <2> QED
    BY <1>1, <1>3, <2>1, <2>2, <2>5, <2>6, DirectoryKeeps DEF Working, Knows, SameRest, HurtsOnly
<1>6. CASE Old(s) # {}
  <2>1. PICK v \in disk.venvs : disk' = [disk EXCEPT !.venvs = @ \ {v}] /\ v.path \in s.roots
    BY <1>1, <1>6 DEF RemoveVenvs, Old
  <2>2. cl' = [cl EXCEPT ![c] = s]
    <3>1. cl' = cl
      BY <1>1, <1>6 DEF RemoveVenvs
    <3> QED
      BY <1>1, <3>1 DEF PluginInv, PluginTyped
  <2>3. PICK vs : vs = disk.venvs \ {v}
    OBVIOUS
  <2>4. vs \in SUBSET Venv /\ vs \in SUBSET disk.venvs /\ disk' = [disk EXCEPT !.venvs = vs]
    BY <2>1, <2>3, DiskFields DEF PluginInv
  <2>5. /\ disk' \in Disk /\ SameRest(disk, disk') /\ disk'.files = disk.files
        /\ disk'.src = disk.src /\ disk'.built = disk.built /\ disk'.venvs = vs
    BY <2>4, VenvsChange DEF PluginInv
  <2>6. Fresh' /\ CanRun(disk.files)'
    BY <1>1, <1>2, <1>4, <2>4, <2>5
       DEF PluginInv, Fresh, CanRun, Manifest, Work, Publishes, Service
  <2>7. \A i \in Ids : PluginVenvs(i)' \subseteq PluginVenvs(i)
    BY <2>4, <2>5 DEF PluginVenvs
  <2>8. \A i \in Ids \ {s.id} : PluginVenvs(i)' = PluginVenvs(i)
    <3>1. v.path.id = s.id
      BY <1>1, <1>2, <2>1 DEF Work, Places
    <3> QED
      BY <2>3, <2>5, <3>1 DEF PluginVenvs
  <2>9. Places(s)' /\ AgreedBefore(s)' /\ Keeps(s)' /\ Builds(s)'
    BY <1>1, <1>2, <2>5, <2>7 DEF Work, Places, AgreedBefore, Keeps, Builds, SameRest
  <2> QED
    BY <1>1, <1>3, <2>2, <2>5, <2>6, <2>8, <2>9, DirectoryKeeps DEF Working, SameRest, HurtsOnly
<1> QED
  BY <1>5, <1>6

LEMMA SweepKeeps ==
    ASSUME PluginInv, NEW c \in Clients, Sweep(c)
    PROVE  PluginInv'
<1> USE DEF Building, Undoing, Removing
<1>1. PICK s \in Client : s = cl[c] /\ s.pc = "sweep"
  BY DEF PluginInv, PluginTyped, Sweep, Steps, At
<1>2. /\ s.id \in Ids /\ Work(s) /\ Stops(s) /\ Named(s)
      /\ \A i \in Ids \ disk.damaged : i # s.id => AgreedNow(i)
  BY <1>1, HolderKnows DEF Locked, Changing
<1>3. UNCHANGED <<lock, procs>>
  BY DEF Sweep, Steps
<1>4. /\ disk.files \in Files /\ Manifest(s.id) = s.venv /\ Service = s.venv /\ Whole(s.venv)
      /\ Record(s.id) # None /\ Record(s.id).venv = s.venv
      /\ s.venv \in Environment /\ s.venv.id = s.id
      /\ PluginVenvs(s.id) \subseteq s.roots \cup {s.venv} /\ \A r \in s.roots : r.id = s.id
      /\ disk.src[s.id] = s.venv.commit /\ \A i \in Ids \ {s.id} : Gone(i)
  BY <1>1, <1>2, DiskFields DEF PluginInv, Work, Alone, Changing, Publishes, Builds, Places
<1>5. CASE Old(s) = {}
  <2>1. To(c, "owner") /\ disk' = Mended(disk, s)
    BY <1>1, <1>5 DEF Sweep
  <2>2. PICK t \in Client : cl' = [cl EXCEPT ![c] = t] /\ t.pc = "owner" /\ Knows(s, t)
    BY <1>1, <2>1, Moves DEF PluginInv, Locked
  <2>3. /\ disk' \in Disk /\ disk'.files = disk.files /\ disk'.torn = disk.torn \ {s.id}
        /\ s.kept = {} => disk'.damaged = disk.damaged \ {s.id}
        /\ s.kept # {} => disk'.damaged = disk.damaged
        /\ disk'.disabled = disk.disabled /\ SameDirs(disk, disk')
    <3>1. disk \in Disk
      BY DEF PluginInv, PluginTyped
    <3> QED
      BY <1>1, <2>1, <3>1, MendedDisk
  <2>4. \A i \in Ids : PluginVenvs(i)' = PluginVenvs(i)
    BY <2>3 DEF PluginVenvs, SameDirs
  <2>5. s.kept = {} => PluginVenvs(s.id) = {s.venv}
    <3>1. s.kept = {} => \A e \in PluginVenvs(s.id) : e = s.venv
      <4>1. \A e \in PluginVenvs(s.id) : \E v \in disk.venvs : v.path = e
        BY DEF PluginVenvs
      <4> QED
        BY <1>4, <1>5, <4>1 DEF Old
    <3>2. s.venv \in PluginVenvs(s.id)
      BY <1>4 DEF Whole, PluginVenvs
    <3> QED
      BY <3>1, <3>2
  <2>6. \A i \in Ids \ disk'.damaged : AgreedNow(i)'
    <3>1. s.kept = {} => AgreedNow(s.id)'
      BY <1>2, <1>4, <2>3, <2>4, <2>5
         DEF AgreedNow, Agreed, Manifest, Service, Record, SameDirs
    <3>2. \A i \in Ids \ disk.damaged : i # s.id => AgreedNow(i)'
      BY <1>2, <2>3, <2>4 DEF AgreedNow, SameDirs
    <3>3. s.kept # {} => s.id \in disk.damaged
      BY <1>1, <1>2 DEF Work, Places, Changing
    <3> QED
      BY <2>3, <3>1, <3>2, <3>3
  <2>7. Fresh' /\ TornIsDamaged' /\ CanRun(disk.files)' /\ One'
    <3>1. Fresh' /\ TornIsDamaged' /\ One'
      BY <2>3 DEF PluginInv, Fresh, TornIsDamaged, One, Gone, Record, Manifest, SameDirs
    <3>2. \A e : Whole(e) => Whole(e)'
      BY <2>3 DEF Whole, SameDirs
    <3>3. CanRun(disk.files)'
      BY <1>4, <2>3, <3>2 DEF PluginInv, CanRun, Manifest, Service, Gone
    <3> QED
      BY <3>1, <3>3
  <2>8. Work(t)' /\ Named(t)
    BY <1>1, <1>2, <2>2
       DEF Work, Alone, Changing, Keeps, Builds, Publishes, Places, AgreedBefore, Named, Waiting, Knows
  <2>9. Stops(t)'
    BY <1>1, <1>2, <1>3, <2>2, <2>3
       DEF Stops, Stopping, AllFine, All, Fine, State, Knows, SameDirs
  <2> QED
    BY <1>1, <1>3, <2>2, <2>3, <2>6, <2>7, <2>8, <2>9, HolderKeeps DEF Locked, Changing
<1>6. CASE Old(s) # {}
  <2>1. PICK v \in disk.venvs : /\ disk' = [disk EXCEPT !.venvs = @ \ {v}]
                                /\ v.path \in s.roots \ {s.venv}
    BY <1>1, <1>6 DEF Sweep, Old
  <2>2. cl' = [cl EXCEPT ![c] = s]
    <3>1. cl' = cl
      BY <1>1, <1>6 DEF Sweep
    <3> QED
      BY <1>1, <3>1 DEF PluginInv, PluginTyped
  <2>3. PICK vs : vs = disk.venvs \ {v}
    OBVIOUS
  <2>4. vs \in SUBSET Venv /\ vs \in SUBSET disk.venvs /\ disk' = [disk EXCEPT !.venvs = vs]
    BY <2>1, <2>3, DiskFields DEF PluginInv
  <2>5. /\ disk' \in Disk /\ SameRest(disk, disk') /\ disk'.files = disk.files
        /\ disk'.src = disk.src /\ disk'.built = disk.built /\ disk'.venvs = vs
    BY <2>4, VenvsChange DEF PluginInv
  <2>6. Fresh' /\ Whole(s.venv)'
    BY <1>4, <2>1, <2>3, <2>4, <2>5 DEF PluginInv, Fresh, Whole
  <2>7. CanRun(disk.files)'
    BY <1>4, <2>5, <2>6 DEF PluginInv, CanRun, Manifest, Service, Gone
  <2>8. \A i \in Ids : PluginVenvs(i)' \subseteq PluginVenvs(i)
    BY <2>4, <2>5 DEF PluginVenvs
  <2>9. \A i \in Ids \ {s.id} : PluginVenvs(i)' = PluginVenvs(i)
    BY <1>4, <2>1, <2>3, <2>5 DEF PluginVenvs
  <2>10. Places(s)' /\ AgreedBefore(s)' /\ Keeps(s)' /\ Builds(s)'
    BY <1>1, <1>2, <1>4, <2>5, <2>6, <2>8 DEF Work, Places, AgreedBefore, Keeps, Builds, SameRest
  <2> QED
    BY <1>1, <1>3, <2>1, <2>2, <2>5, <2>6, <2>7, <2>9, <2>10, DirectoryKeeps DEF Working, SameRest, HurtsOnly
<1> QED
  BY <1>5, <1>6

-----------------------------------------------------------------------------
(***************************************************************************)
(* The end of a removal, and a commit that fails.                          *)
(***************************************************************************)

LEMMA RemoveRecordKeeps ==
    ASSUME PluginInv, NEW c \in Clients, RemoveRecord(c)
    PROVE  PluginInv'
<1> USE DEF Building, Undoing, Removing, Stopping
<1>1. PICK s \in Client : s = cl[c] /\ s.pc = "rmrecord"
  BY DEF PluginInv, PluginTyped, RemoveRecord, Steps, At
<1>2. /\ s.id \in Ids /\ Work(s) /\ Named(s)
      /\ \A i \in Ids \ disk.damaged : i # s.id => AgreedNow(i)
  BY <1>1, HolderKnows DEF Locked, Changing
<1>3. PICK t \in Client : cl' = [cl EXCEPT ![c] = t] /\ t.pc = "reenable" /\ Knows(s, t)
  BY <1>1, Moves DEF PluginInv, RemoveRecord, Steps, Locked, Changing
<1>4. PICK d : d = [disk EXCEPT !.files.record[s.id] = None]
  OBVIOUS
<1>5. disk \in Disk /\ disk.files \in Files
  BY DiskFields DEF PluginInv, PluginTyped
<1>6. UNCHANGED <<lock, procs>> /\ disk' = Mended(d, s)
  BY <1>1, <1>4 DEF RemoveRecord, Steps
<1>7. /\ disk' \in Disk /\ SameDirs(disk, disk') /\ disk'.torn = disk.torn \ {s.id}
      /\ s.kept = {} => disk'.damaged = disk.damaged \ {s.id}
      /\ s.kept # {} => disk'.damaged = disk.damaged
      /\ disk'.files.manifest = disk.files.manifest /\ disk'.files.service = disk.files.service
      /\ disk'.files.record = [disk.files.record EXCEPT ![s.id] = None]
  <2>1. /\ d \in Disk /\ SameDirs(disk, d) /\ SameRest(disk, d)
        /\ d.files.manifest = disk.files.manifest /\ d.files.service = disk.files.service
        /\ d.files.record = [disk.files.record EXCEPT ![s.id] = None]
    BY <1>2, <1>4, <1>5 DEF Disk, Files, SameDirs, SameRest
  <2>2. /\ disk' \in Disk /\ disk'.files = d.files /\ disk'.torn = d.torn \ {s.id}
        /\ s.kept = {} => disk'.damaged = d.damaged \ {s.id}
        /\ s.kept # {} => disk'.damaged = d.damaged
        /\ disk'.disabled = d.disabled /\ SameDirs(d, disk')
    BY <1>1, <1>6, <2>1, MendedDisk
  <2> QED
    BY <2>1, <2>2 DEF SameDirs, SameRest
<1>8. \A i \in Ids : PluginVenvs(i)' = PluginVenvs(i)
  BY <1>7 DEF PluginVenvs, SameDirs
<1>9. \A i \in Ids : Gone(i)'
  BY <1>1, <1>2, <1>5, <1>7 DEF Work, Alone, Changing, Publishes, Gone, Record, Manifest, Files
<1>10. Fresh' /\ TornIsDamaged' /\ One' /\ CanRun(disk.files)'
  <2>1. Fresh' /\ TornIsDamaged' /\ One'
    BY <1>7, <1>9 DEF PluginInv, Fresh, TornIsDamaged, One, SameDirs
  <2>2. Service' = None
    BY <1>1, <1>2, <1>7 DEF Work, Publishes, Service
  <2> QED
    BY <1>9, <2>1, <2>2 DEF CanRun, Gone, Record, Manifest, Service
<1>11. \A i \in Ids \ disk'.damaged : i # s.id => AgreedNow(i)'
  BY <1>2, <1>5, <1>7, <1>8 DEF AgreedNow, Agreed, Files, SameDirs
<1>12. Work(t)' /\ Named(t)
  BY <1>1, <1>2, <1>3, <1>7, <1>8, <1>9
     DEF Work, Alone, Changing, Keeps, Builds, Publishes, Places, AgreedBefore, Named, Waiting,
         Knows, Gone, Record, Manifest, Service
<1>13. Stops(t)'
  BY <1>3 DEF Stops
<1> QED
  BY <1>1, <1>3, <1>6, <1>7, <1>10, <1>11, <1>12, <1>13, HolderKeeps DEF Locked, Changing, Knows

LEMMA ReenableKeeps ==
    ASSUME PluginInv, NEW c \in Clients, Reenable(c)
    PROVE  PluginInv'
<1> USE DEF Building, Undoing, Removing, Stopping
<1>1. PICK s \in Client : s = cl[c] /\ s.pc = "reenable"
  BY DEF PluginInv, PluginTyped, Reenable, Steps, At
<1>2. /\ s.id \in Ids /\ Work(s) /\ Named(s)
      /\ \A i \in Ids \ disk.damaged : i # s.id => AgreedNow(i)
  BY <1>1, HolderKnows DEF Locked, Changing
<1>3. PICK t \in Client : cl' = [cl EXCEPT ![c] = t] /\ t.pc = "owner" /\ Knows(s, t)
  BY <1>1, Moves DEF PluginInv, Reenable, Steps, Locked
<1>4. PICK x : x = disk.disabled \ {s.id}
  OBVIOUS
<1>5. disk \in Disk /\ x \in SUBSET Ids
  BY <1>4, DiskFields DEF PluginInv, PluginTyped
<1>6. UNCHANGED <<lock, procs>> /\ disk' = [disk EXCEPT !.disabled = x]
  BY <1>1, <1>4 DEF Reenable, Steps
<1>7. /\ disk' \in Disk /\ SameDirs(disk, disk') /\ disk'.damaged = disk.damaged
      /\ disk'.files = disk.files /\ disk'.torn = disk.torn
  BY <1>5, <1>6 DEF Disk, SameDirs
<1>8. \A i \in Ids : PluginVenvs(i)' = PluginVenvs(i)
  BY <1>7 DEF PluginVenvs, SameDirs
<1>9. Fresh' /\ TornIsDamaged' /\ One' /\ CanRun(disk.files)'
  BY <1>7 DEF PluginInv, Fresh, TornIsDamaged, One, CanRun, Whole, Gone, Record, Manifest, SameDirs
<1>10. \A i \in Ids \ disk'.damaged : AgreedNow(i)'
  <2>1. s.id \notin disk.damaged => AgreedNow(s.id)'
    BY <1>1, <1>2, <1>7, <1>8
       DEF Work, Publishes, Places, AgreedNow, Agreed, Manifest, Service, Record
  <2> QED
    BY <1>2, <1>7, <1>8, <2>1 DEF AgreedNow, SameDirs
<1>11. Work(t)' /\ Named(t)
  BY <1>2, <1>3
     DEF Work, Alone, Changing, Keeps, Builds, Publishes, Places, AgreedBefore, Named, Waiting, Knows
<1>12. Stops(t)'
  BY <1>1, <1>2, <1>3 DEF Stops, Work, Places, Knows
<1> QED
  BY <1>1, <1>3, <1>6, <1>7, <1>9, <1>10, <1>11, <1>12, HolderKeeps DEF Locked, Changing

LEMMA FailsKeeps ==
    ASSUME PluginInv, NEW c \in Clients, Fails(c)
    PROVE  PluginInv'
<1> USE DEF Building, Undoing, Removing, Stopping
<1>1. PICK s \in Client : s = cl[c] /\ s.pc \in {"build", "manifest", "service", "record"}
  BY DEF PluginInv, PluginTyped, Fails
<1>2. /\ s.id \in Ids /\ Work(s) /\ Named(s)
      /\ \A i \in Ids \ disk.damaged : i # s.id => AgreedNow(i)
  BY <1>1, HolderKnows DEF Locked, Changing
<1>3. PICK t \in Client : /\ cl' = [cl EXCEPT ![c] = t] /\ Knows(s, t)
                          /\ t.pc = IF s.pc = "build" THEN "rmvenv" ELSE "unrecord"
  BY <1>1, Moves DEF PluginInv, Fails, At, Locked, Changing
<1>4. UNCHANGED <<disk, lock, procs>> /\ disk' \in Disk
  BY DEF Fails, PluginInv, PluginTyped
<1>5. \A i \in Ids : PluginVenvs(i)' = PluginVenvs(i)
  BY <1>4 DEF PluginVenvs
<1>6. Fresh' /\ TornIsDamaged' /\ One' /\ CanRun(disk.files)'
  BY <1>4 DEF PluginInv, Fresh, TornIsDamaged, One, CanRun, Whole, Gone, Record, Manifest
<1>7. \A i \in Ids \ disk'.damaged : i # s.id => AgreedNow(i)'
  BY <1>2, <1>4, <1>5 DEF AgreedNow
<1>8. Alone(t)' /\ Publishes(t)'
  BY <1>1, <1>2, <1>3, <1>4 DEF Work, Alone, Changing, Publishes, Gone, Record, Manifest, Service, Knows
<1>9. Keeps(t)' /\ Builds(t)'
  BY <1>1, <1>2, <1>3, <1>4 DEF Work, Keeps, Builds, CanRun, Whole, Knows
<1>10. Places(t)' /\ AgreedBefore(t)'
  BY <1>1, <1>2, <1>3, <1>4, <1>5 DEF Work, Places, AgreedBefore, Knows, Changing
<1>11. Stops(t)' /\ Named(t)
  BY <1>1, <1>2, <1>3 DEF Stops, Named, Waiting, Knows
<1> QED
  BY <1>1, <1>3, <1>4, <1>6, <1>7, <1>8, <1>9, <1>10, <1>11, HolderKeeps
     DEF Locked, Changing, Knows, Work

\* A file cannot be put back, or a backup not be removed: the plugin is torn.
LEMMA TornKeeps ==
    ASSUME PluginInv, NEW c \in Clients, NEW s \in Client, s = cl[c],
           s.pc \in {"record", "unrecord", "unservice", "unmanifest"},
           NEW t \in Client, cl' = [cl EXCEPT ![c] = t], t.pc = "rmvenv", Knows(s, t),
           UNCHANGED <<lock, procs>>, disk' \in Disk, SameDirs(disk, disk'),
           disk'.disabled = disk.disabled, disk'.damaged = disk.damaged \cup {s.id},
           disk'.torn = disk.torn \cup {s.id},
           disk'.files.manifest = disk.files.manifest, disk'.files.service = disk.files.service,
           \A i \in Ids : \/ Record(i)' = Record(i)
                          \/ i = s.id /\ Record(i)' # None /\ Record(i)'.venv.id = i
    PROVE  PluginInv'
<1> USE DEF Building, Undoing, Removing, Stopping
<1>1. s.pc \in Changing /\ t.pc \in Changing /\ s.pc \in Locked /\ t.pc \in Locked
  BY DEF Locked, Changing
<1>2. /\ Named(s) /\ s.id \in Ids /\ Work(s) /\ Stops(s)
      /\ \A i \in Ids \ disk.damaged : i # s.id => AgreedNow(i)
  BY <1>1, HolderKnows
<1>3. Named(t)
  BY <1>2 DEF Named, Knows, Waiting
<1>4. \A i \in Ids \ {s.id} : Gone(i) /\ Gone(i)'
  BY <1>1, <1>2 DEF Work, Alone, Gone, Record, Manifest
<1>5. \A i \in Ids : PluginVenvs(i)' = PluginVenvs(i)
  BY DEF PluginVenvs, SameDirs
<1>6. Fresh' /\ TornIsDamaged' /\ One'
  BY <1>4 DEF PluginInv, Fresh, TornIsDamaged, One, SameDirs
<1>7. \A e : Whole(e) => Whole(e)'
  BY DEF Whole, SameDirs
<1>8. CanRun(disk.files)'
  <2>1. \A i \in Ids : Record(i)' # None => Record(i)'.venv.id = i
    BY DEF PluginInv, CanRun, Record
  <2>2. /\ \A i \in Ids : Manifest(i)' # None /\ Manifest(i)'.id \notin disk'.torn => Whole(Manifest(i))'
        /\ Service' # None /\ Service'.id \notin disk'.torn => Whole(Service)'
    BY <1>7 DEF PluginInv, CanRun, Manifest, Service
  <2> QED
    BY <2>1, <2>2 DEF CanRun, Record, Manifest, Service
<1>9. \A i \in Ids \ disk'.damaged : i # t.id => AgreedNow(i)'
  BY <1>2, <1>5 DEF AgreedNow, Agreed, Record, Knows, SameDirs
<1>10. Alone(t)' /\ Publishes(t)' /\ AgreedBefore(t)'
  BY <1>4 DEF Alone, Publishes, AgreedBefore, Knows
<1>11. Keeps(t)' /\ Builds(t)'
  BY <1>2, <1>7 DEF Work, Keeps, Builds, CanRun, Knows
<1>12. Places(t)' /\ Stops(t)'
  BY <1>2 DEF Places, Stops, Knows
<1> QED
  BY <1>1, <1>3, <1>6, <1>8, <1>9, <1>10, <1>11, <1>12, HolderKeeps DEF Work

LEMMA RestoreFailsKeeps ==
    ASSUME PluginInv, NEW c \in Clients, RestoreFails(c)
    PROVE  PluginInv'
<1>1. PICK s \in Client : s = cl[c] /\ s.pc \in {"unrecord", "unservice", "unmanifest"}
  BY DEF PluginInv, PluginTyped, RestoreFails
<1>2. s.id \in Ids /\ disk \in Disk
  BY <1>1, HolderKnows DEF Locked, Changing, Undoing, PluginInv, PluginTyped
<1>3. PICK t \in Client : cl' = [cl EXCEPT ![c] = t] /\ t.pc = "rmvenv" /\ Knows(s, t)
  BY <1>1, Moves DEF PluginInv, RestoreFails, Locked, Changing, Undoing
<1>4. UNCHANGED <<lock, procs>> /\ disk' = Torn(disk, s.id)
  BY <1>1 DEF RestoreFails
<1>5. /\ disk' \in Disk /\ SameDirs(disk, disk') /\ disk'.files = disk.files
      /\ disk'.disabled = disk.disabled /\ disk'.damaged = disk.damaged \cup {s.id}
      /\ disk'.torn = disk.torn \cup {s.id}
  BY <1>2, <1>4, TornDisk
<1> QED
  BY <1>1, <1>3, <1>4, <1>5, TornKeeps DEF Record

LEMMA BackupStaysKeeps ==
    ASSUME PluginInv, NEW c \in Clients, BackupStays(c)
    PROVE  PluginInv'
<1>1. PICK s \in Client : s = cl[c] /\ s.pc = "record"
  BY DEF PluginInv, PluginTyped, BackupStays, At
<1>2. /\ s.id \in Ids /\ disk \in Disk /\ disk.files \in Files /\ disk.built \in Nat
      /\ s.venv \in Environment /\ s.venv.id = s.id
  BY <1>1, HolderKnows, DiskFields DEF Locked, Changing, Building, PluginInv, PluginTyped, Work, Builds
<1>3. PICK t \in Client : cl' = [cl EXCEPT ![c] = t] /\ t.pc = "rmvenv" /\ Knows(s, t)
  BY <1>1, Moves DEF PluginInv, BackupStays, Locked, Changing, Undoing
<1>4. PICK rec : rec = [venv |-> s.venv, at |-> disk.built]
  OBVIOUS
<1>5. rec \in InstallRecord /\ rec.venv = s.venv /\ rec # None
  <2>1. rec \in InstallRecord /\ rec.venv = s.venv
    BY <1>2, <1>4 DEF InstallRecord
  <2> QED
    BY <2>1, NoneApart
<1>6. PICK d : d = [disk EXCEPT !.files.record[s.id] = rec]
  OBVIOUS
<1>7. UNCHANGED <<lock, procs>> /\ disk' = Torn(d, s.id)
  BY <1>1, <1>4, <1>6 DEF BackupStays
<1>8. /\ d \in Disk /\ SameDirs(disk, d) /\ SameRest(disk, d)
      /\ d.files.manifest = disk.files.manifest /\ d.files.service = disk.files.service
      /\ d.files.record = [disk.files.record EXCEPT ![s.id] = rec]
  BY <1>2, <1>5, <1>6 DEF Disk, Files, SameDirs, SameRest
<1>9. /\ disk' \in Disk /\ SameDirs(d, disk') /\ disk'.files = d.files
      /\ disk'.disabled = d.disabled /\ disk'.damaged = d.damaged \cup {s.id}
      /\ disk'.torn = d.torn \cup {s.id}
  BY <1>2, <1>7, <1>8, TornDisk
<1>10. \A i \in Ids : \/ Record(i)' = Record(i)
                      \/ i = s.id /\ Record(i)' # None /\ Record(i)'.venv.id = i
  BY <1>2, <1>5, <1>8, <1>9 DEF Record, Files
<1>11. /\ SameDirs(disk, disk') /\ disk'.disabled = disk.disabled
       /\ disk'.damaged = disk.damaged \cup {s.id} /\ disk'.torn = disk.torn \cup {s.id}
       /\ disk'.files.manifest = disk.files.manifest /\ disk'.files.service = disk.files.service
  BY <1>8, <1>9 DEF SameDirs, SameRest
<1>12. UNCHANGED <<lock, procs>> /\ disk' \in Disk
  BY <1>7, <1>9
<1> HIDE DEF Torn
<1> QED
  BY <1>1, <1>3, <1>10, <1>11, <1>12, TornKeeps

-----------------------------------------------------------------------------
(***************************************************************************)
(* The lock is released.                                                   *)
(***************************************************************************)

\* Only excuses change.
LEMMA PardonedProcs ==
    ASSUME PluginTyped, NEW ok \in BOOLEAN, procs' = Pardoned(ok)
    PROVE  /\ procs' \in Procs /\ procs'.owner = procs.owner /\ procs'.wrong = procs.wrong
           /\ All' = All
           /\ \A i \in All : /\ procs'.all[i].state = procs.all[i].state
                             /\ procs'.all[i].path = procs.all[i].path
                             /\ procs'.all[i].build = procs.all[i].build
                             /\ procs'.all[i].pid = procs.all[i].pid
                             /\ procs'.all[i].pardon =
                                    (procs.all[i].pardon \/ ~ok \/ procs.all[i].state = "starting")
<1>1. procs \in Procs /\ procs.all \in Seq(Process) /\ \A i \in All : procs.all[i] \in Process
  BY DEF PluginTyped, Procs, All
<1>2. PICK q : q = [i \in All |-> [procs.all[i] EXCEPT !.pardon =
                       procs.all[i].pardon \/ ~ok \/ procs.all[i].state = "starting"]]
  OBVIOUS
<1>3. procs' = [procs EXCEPT !.all = q]
  BY <1>2 DEF Pardoned, All
<1>4. \A i \in All : /\ q[i] \in Process
                     /\ q[i].state = procs.all[i].state /\ q[i].path = procs.all[i].path
                     /\ q[i].build = procs.all[i].build /\ q[i].pid = procs.all[i].pid
                     /\ q[i].pardon =
                            (procs.all[i].pardon \/ ~ok \/ procs.all[i].state = "starting")
  BY <1>1, <1>2 DEF Process
<1>5. q \in Seq(Process) /\ DOMAIN q = All
  <2>1. DOMAIN q = 1 .. Len(procs.all) /\ DOMAIN q = All /\ Len(procs.all) \in Nat
    BY <1>1, <1>2 DEF All
  <2> QED
    BY <1>2, <1>4, <2>1
<1>6. procs' \in Procs /\ procs'.all = q /\ procs'.owner = procs.owner /\ procs'.wrong = procs.wrong
  BY <1>1, <1>3, <1>5 DEF Procs
<1> QED
  BY <1>4, <1>5, <1>6 DEF All

LEMMA PardonedBus ==
    ASSUME PluginTyped, Bus, NEW ok \in BOOLEAN, procs' = Pardoned(ok)
    PROVE  Bus'
<1>1. /\ All' = All /\ procs'.owner = procs.owner /\ procs'.wrong = procs.wrong
      /\ \A i \in All : State(i)' = State(i) /\ Alive(i)' = Alive(i)
                        /\ procs'.all[i].pid = procs.all[i].pid
  BY PardonedProcs DEF State, Alive
<1> QED
  BY <1>1 DEF Bus

LEMMA ReleaseKeeps ==
    ASSUME PluginInv, NEW c \in Clients, cl[c].pc \in Locked, Ends(c), lock' = None,
           NEW ok \in BOOLEAN, procs' = Pardoned(ok), disk' \in Disk,
           Fresh', TornIsDamaged', CanRun(disk.files)', One',
           \A i \in Ids \ disk'.damaged : AgreedNow(i)', AllFine'
    PROVE  PluginInv'
<1>1. PICK t \in Client : cl' = [cl EXCEPT ![c] = t] /\ t.pc = "idle" /\ t.venv = None /\ t.kept = {}
  BY Rests DEF PluginInv
<1>2. lock = c /\ lock' \notin Clients
  BY HolderKnows, NoneApart
<1>3. /\ cl' \in [Clients -> Client] /\ cl'[c] = t
      /\ \A b \in Clients : b # c => cl'[b] = cl[b]
  BY <1>1 DEF PluginInv, PluginTyped
<1>4. procs' \in Procs /\ Bus'
  BY PardonedProcs, PardonedBus DEF PluginInv
<1>5. PluginTyped'
  BY <1>3, <1>4 DEF PluginTyped
<1>6. Holding'
  <2>1. Named(t) /\ t.pc \notin Locked
    BY <1>1 DEF Named, Locked, Changing, Building, Undoing, Removing, Stopping
  <2> QED
    BY <1>2, <1>3, <2>1 DEF PluginInv, Holding, Named
<1>7. Agreement'
  BY DEF Agreement
<1> QED
  BY <1>2, <1>4, <1>5, <1>6, <1>7 DEF PluginInv

\* Everything that runs is excused.
LEMMA ExcusedFine ==
    ASSUME PluginTyped, procs' = Pardoned(FALSE)
    PROVE  AllFine'
BY PardonedProcs DEF AllFine, Fine, State

LEMMA StoppedKeeps ==
    ASSUME PluginInv, NEW c \in Clients, cl[c].pc \in {"owner"} \cup Stopping,
           NEW ok \in BOOLEAN, Ends(c), lock' = None, procs' = Pardoned(ok), UNCHANGED disk,
           ok => \A i \in All : State(i) = "running" => Fine(i)
    PROVE  PluginInv'
<1>1. cl[c].pc \in Locked /\ cl[c].pc \notin Changing
  BY DEF Locked, Changing, Building, Undoing, Removing, Stopping
<1>2. \A i \in Ids \ disk.damaged : AgreedNow(i)
  BY <1>1, HolderKnows
<1>3. \A i \in Ids \ disk'.damaged : AgreedNow(i)'
  BY <1>2 DEF AgreedNow, PluginVenvs
<1>4. disk' \in Disk /\ Fresh' /\ TornIsDamaged' /\ CanRun(disk.files)' /\ One'
  BY DEF PluginInv, PluginTyped, Fresh, TornIsDamaged, CanRun, Whole, One, Gone, Record, Manifest
<1>5. AllFine'
  <2>1. CASE ~ok
    <3>1. ok = FALSE
      BY <2>1
    <3> QED
      BY <3>1, ExcusedFine DEF PluginInv
  <2>2. CASE ok
    <3>1. PluginTyped
      BY DEF PluginInv
    <3>2. ASSUME NEW i \in All PROVE Fine(i)'
      <4>1. /\ procs'.all[i].state = procs.all[i].state
            /\ procs'.all[i].path = procs.all[i].path
            /\ procs'.all[i].build = procs.all[i].build
            /\ ~procs'.all[i].pardon => ~procs.all[i].pardon /\ procs.all[i].state # "starting"
        BY <3>1, PardonedProcs
      <4> QED
        BY <2>2, <4>1 DEF Fine, State
    <3>3. All' = All
      BY <3>1, PardonedProcs
    <3> QED
      BY <3>2, <3>3 DEF AllFine
  <2> QED
    BY <2>1, <2>2
<1> QED
  BY <1>1, <1>3, <1>4, <1>5, ReleaseKeeps

LEMMA PutBackKeeps ==
    ASSUME PluginInv, NEW c \in Clients, PutBack(c)
    PROVE  PluginInv'
<1> USE DEF Building, Undoing, Removing
<1>1. PICK s \in Client : s = cl[c] /\ s.pc = "putback"
  BY DEF PluginInv, PluginTyped, PutBack, At
<1>2. /\ s.id \in Ids /\ Work(s) /\ s.aside \in Nat \cup {None}
      /\ \A i \in Ids \ disk.damaged : i # s.id => AgreedNow(i)
  BY <1>1, HolderKnows DEF Locked, Changing, Client
<1>3. /\ Ends(c) /\ lock' = None /\ procs' = Pardoned(FALSE)
      /\ disk' = IF s.aside = None THEN disk ELSE [disk EXCEPT !.src[s.id] = s.aside]
  BY <1>1 DEF PutBack
<1>4. /\ disk' \in Disk /\ SameRest(disk, disk') /\ disk'.files = disk.files
      /\ disk'.built = disk.built /\ disk'.venvs = disk.venvs
      /\ s.aside # None => disk'.src[s.id] = s.aside
      /\ \A i \in Ids \ {s.id} : disk'.src[i] = disk.src[i]
  <2>1. CASE s.aside = None
    BY <1>3, <2>1 DEF PluginInv, PluginTyped, SameRest
  <2>2. CASE s.aside # None
    BY <1>2, <1>3, <2>2, SourceChange DEF PluginInv
  <2> QED
    BY <2>1, <2>2
<1>5. \A i \in Ids : PluginVenvs(i)' = PluginVenvs(i)
  BY <1>4 DEF PluginVenvs
<1>6. Fresh' /\ TornIsDamaged' /\ CanRun(disk.files)' /\ One' /\ AllFine'
  BY <1>3, <1>4, ExcusedFine
     DEF PluginInv, Fresh, TornIsDamaged, CanRun, Whole, One, Gone, Record, Manifest, SameRest
<1>7. ASSUME s.id \notin disk.damaged PROVE AgreedNow(s.id)'
  <2>1. PluginVenvs(s.id) \ {s.venv} = PluginVenvs(s.id)
    BY <1>1, <1>2, <1>7 DEF Work, Builds, PluginVenvs
  <2>2. Agreed(s.id, s.before, s.aside, PluginVenvs(s.id))
    BY <1>1, <1>2, <1>7, <2>1 DEF Work, AgreedBefore
  <2>3. /\ disk.files.record = s.before.record /\ disk.files.service = s.before.service
        /\ disk.files.manifest[s.id] = s.before.manifest[s.id]
    BY <1>1, <1>2, <1>7 DEF PluginInv, TornIsDamaged, Work, Publishes, Manifest, Service
  <2>4. /\ disk.files.record[s.id] # None => s.aside # None
    <3>1. disk.files.record[s.id] # None => s.aside = disk.files.record[s.id].venv.commit
      BY <2>2, <2>3 DEF Agreed
    <3>2. disk.files.record[s.id] \in InstallRecord \cup {None}
      BY <1>2, DiskFields DEF PluginInv, Record
    <3> QED
      BY <3>1, <3>2, NoneApart DEF InstallRecord, Environment
  <2> QED
    BY <1>2, <1>4, <1>5, <2>2, <2>3, <2>4 DEF AgreedNow, Agreed
<1>8. \A i \in Ids \ disk'.damaged : AgreedNow(i)'
  BY <1>2, <1>4, <1>5, <1>7 DEF AgreedNow, SameRest
<1> QED
  BY <1>1, <1>3, <1>4, <1>6, <1>8, ReleaseKeeps DEF Locked, Changing

\* Stopped half way: the plugin is left as it is.
LEMMA HalfWayKeeps ==
    ASSUME PluginInv, NEW c \in Clients, cl[c].pc \in Locked, Ends(c), lock' = None,
           procs' = Pardoned(FALSE), disk' = Damaged(disk, cl[c].id)
    PROVE  PluginInv'
<1>1. PICK id \in Ids : /\ id = cl[c].id
                        /\ \A i \in Ids \ disk.damaged : i # id => AgreedNow(i)
  BY HolderKnows
<1>4. /\ disk' \in Disk /\ SameDirs(disk, disk') /\ disk'.damaged = disk.damaged \cup {id}
      /\ disk'.files = disk.files /\ disk'.torn = disk.torn
  BY <1>1, DamagedDisk DEF PluginInv, PluginTyped
<1>5. Fresh' /\ TornIsDamaged' /\ CanRun(disk.files)' /\ One' /\ AllFine'
  BY <1>4, ExcusedFine
     DEF PluginInv, Fresh, TornIsDamaged, CanRun, Whole, One, Gone, Record, Manifest, SameDirs
<1>6. \A i \in Ids \ disk'.damaged : AgreedNow(i)'
  BY <1>1, <1>4 DEF AgreedNow, PluginVenvs, SameDirs
<1> QED
  BY <1>4, <1>5, <1>6, ReleaseKeeps

LEMMA RemovalFailsKeeps ==
    ASSUME PluginInv, NEW c \in Clients, RemovalFails(c) \/ PlaceFails(c) \/ PutBackFails(c)
    PROVE  PluginInv'
<1>1. cl[c].pc \in Locked
  BY DEF RemovalFails, PlaceFails, PutBackFails, At, Locked, Changing, Building, Undoing, Removing
<1> QED
  BY <1>1, HalfWayKeeps DEF RemovalFails, PlaceFails, PutBackFails

\* The first move fails, or the last save: the plugin is as it was, or gone.
LEMMA AsideFailsKeeps ==
    ASSUME PluginInv, NEW c \in Clients, AsideFails(c) \/ ReenableFails(c)
    PROVE  PluginInv'
<1> USE DEF Building, Undoing, Removing
<1>1. PICK s \in Client : s = cl[c] /\ s.pc \in {"aside", "reenable"}
  BY DEF PluginInv, PluginTyped, AsideFails, ReenableFails, At
<1>2. /\ s.id \in Ids /\ Work(s) /\ Named(s) /\ cl[c].pc \in Locked
      /\ \A i \in Ids \ disk.damaged : i # s.id => AgreedNow(i)
  BY <1>1, HolderKnows DEF Locked, Changing
<1>3. Ends(c) /\ lock' = None /\ procs' = Pardoned(FALSE) /\ UNCHANGED disk
  BY DEF AsideFails, ReenableFails
<1>4. /\ disk' \in Disk /\ Fresh' /\ TornIsDamaged' /\ CanRun(disk.files)' /\ One' /\ AllFine'
  BY <1>3, ExcusedFine
     DEF PluginInv, PluginTyped, Fresh, TornIsDamaged, CanRun, Whole, One, Gone, Record, Manifest
<1>5. ASSUME s.id \notin disk.damaged PROVE AgreedNow(s.id)
  <2>1. CASE s.pc = "aside"
    <3>1. PluginVenvs(s.id) \ {s.venv} = PluginVenvs(s.id)
      <4>1. \A e \in PluginVenvs(s.id) : e \in Environment
        BY DiskFields DEF PluginInv, PluginVenvs, Venv
      <4>2. s.venv = None
        BY <1>2, <2>1 DEF Named
      <4> QED
        BY <4>1, <4>2, NoneApart
    <3>2. Agreed(s.id, s.before, disk.src[s.id], PluginVenvs(s.id))
      BY <1>2, <1>5, <2>1, <3>1 DEF Work, AgreedBefore
    <3>3. /\ disk.files.record = s.before.record /\ disk.files.service = s.before.service
          /\ disk.files.manifest[s.id] = s.before.manifest[s.id]
      BY <1>2, <2>1 DEF Work, Publishes, Manifest, Service
    <3> QED
      BY <3>2, <3>3 DEF AgreedNow, Agreed
  <2>2. CASE s.pc = "reenable"
    BY <1>2, <1>5, <2>2 DEF Work, Publishes, Places, AgreedNow, Agreed, Manifest, Service, Record
  <2> QED
    BY <1>1, <2>1, <2>2
<1>6. \A i \in Ids \ disk'.damaged : AgreedNow(i)'
  BY <1>2, <1>3, <1>5 DEF AgreedNow, PluginVenvs
<1> QED
  BY <1>2, <1>3, <1>4, <1>6, ReleaseKeeps

-----------------------------------------------------------------------------
(***************************************************************************)
(* Stopping the process.                                                   *)
(***************************************************************************)

\* The next question is asked.
LEMMA StopperGoesOn ==
    ASSUME PluginInv, NEW c \in Clients, NEW s \in Client, s = cl[c],
           s.pc \in {"owner"} \cup Stopping,
           NEW t \in Client, cl' = [cl EXCEPT ![c] = t], t.pc \in Stopping, t.id = s.id,
           UNCHANGED <<disk, lock, procs>>, Stops(t)
    PROVE  PluginInv'
<1>1. /\ s.pc \in Locked /\ s.pc \notin Changing /\ t.pc \in Locked /\ t.pc \notin Changing
      /\ t.pc \notin Building \cup Undoing \cup {"sweep", "owner"} \cup Removing
  BY DEF Locked, Changing, Building, Undoing, Removing, Stopping
<1>2. Named(s) /\ s.id \in Ids /\ \A i \in Ids \ disk.damaged : AgreedNow(i)
  BY <1>1, HolderKnows
<1>3. Named(t)
  BY <1>2 DEF Named, Stopping, Building, Removing, Waiting
<1>4. \A i \in Ids \ disk'.damaged : AgreedNow(i)'
  BY <1>2 DEF AgreedNow, PluginVenvs
<1>5. disk' \in Disk /\ Fresh' /\ TornIsDamaged' /\ CanRun(disk.files)' /\ One'
  BY DEF PluginInv, PluginTyped, Fresh, TornIsDamaged, CanRun, Whole, One, Gone, Record, Manifest
<1>6. Work(t)'
  BY <1>1 DEF Work, Alone, Changing, Keeps, Builds, Publishes, Places, AgreedBefore,
              Building, Undoing, Removing, Stopping
<1>7. Stops(t)'
  BY DEF Stops, AllFine, All, Fine, State, Alive
<1> QED
  BY <1>1, <1>3, <1>4, <1>5, <1>6, <1>7, HolderKeeps

LEMMA StopOwnerKeeps ==
    ASSUME PluginInv, NEW c \in Clients, StopOwner(c)
    PROVE  PluginInv'
<1>1. PICK s \in Client : s = cl[c] /\ s.pc = "owner"
  BY DEF PluginInv, PluginTyped, StopOwner, At
<1>2. Stops(s) /\ Bus
  BY <1>1, HolderKnows DEF Locked, PluginInv
<1>3. CASE s.roots = {} \/ procs.owner = None
  <2>1. Ends(c) /\ lock' = None /\ procs' = Pardoned(TRUE) /\ UNCHANGED disk
    BY <1>1, <1>3 DEF StopOwner, Stopped
  <2>2. \A i \in All : State(i) = "running" => Fine(i)
    <3>1. CASE s.roots = {}
      BY <1>1, <1>2, <3>1 DEF Stops, AllFine
    <3>2. CASE procs.owner = None
      <4>1. \A i \in All : i \in Nat
        BY DEF PluginInv, PluginTyped, Procs, All
      <4> QED
        BY <1>2, <3>2, <4>1, NoneApart DEF Bus
    <3> QED
      BY <1>3, <3>1, <3>2
  <2> QED
    BY <1>1, <2>1, <2>2, StoppedKeeps
<1>4. CASE ~(s.roots = {} \/ procs.owner = None)
  <2>1. PICK t : t = [s EXCEPT !.pc = "pid", !.own = procs.owner]
    OBVIOUS
  <2>2. UNCHANGED <<disk, lock, procs>> /\ cl' = [cl EXCEPT ![c] = t]
    BY <1>1, <1>4, <2>1 DEF StopOwner, Asks
  <2>3. procs.owner \in Nat \cup {None} /\ procs.owner \in All /\ State(procs.owner) = "running"
    BY <1>2, <1>4 DEF PluginInv, PluginTyped, Procs, Bus
  <2>4. t \in Client /\ t.pc = "pid" /\ t.own = procs.owner /\ t.id = s.id
    <3>1. "pid" \in Waiting \cup Locked
      BY DEF Locked, Stopping
    <3>2. PICK u : u = [s EXCEPT !.pc = "pid"]
      OBVIOUS
    <3>3. u \in Client /\ u.pc = "pid" /\ u.id = s.id
      BY <1>1, <3>1, <3>2, SMTT(30) DEF Client
    <3>4. t = [u EXCEPT !.own = procs.owner]
      BY <2>1, <3>2
    <3>5. t \in Client
      BY <2>3, <3>3, <3>4, ClientUpdates
    <3>6. t.pc = u.pc /\ t.own = procs.owner /\ t.id = u.id
      BY <3>3, <3>4 DEF Client
    <3> QED
      BY <3>3, <3>5, <3>6
  <2>5. \A i \in All \ {procs.owner} : Fine(i)
    BY <1>2, <1>4 DEF Bus, Fine
  <2>6. Stops(t)
    BY <2>3, <2>4, <2>5 DEF Stops, Stopping, Building
  <2> QED
    BY <1>1, <2>2, <2>4, <2>6, StopperGoesOn DEF Stopping
<1> QED
  BY <1>3, <1>4

\* The stopper is done: the process it was after has ended, or it says it failed.
LEMMA StopperEnds ==
    ASSUME PluginInv, NEW c \in Clients, cl[c].pc \in Stopping, NEW ok \in BOOLEAN,
           Stopped(c, ok), ok => State(cl[c].own) # "running"
    PROVE  PluginInv'
<1>1. \A i \in All : i # cl[c].own => Fine(i)
  BY HolderKnows DEF Locked, Stops
<1>2. Ends(c) /\ lock' = None /\ procs' = Pardoned(ok) /\ UNCHANGED disk
  BY DEF Stopped
<1> QED
  BY <1>1, <1>2, StoppedKeeps

LEMMA StopPidKeeps ==
    ASSUME PluginInv, NEW c \in Clients, StopPid(c)
    PROVE  PluginInv'
<1>1. PICK s \in Client : s = cl[c] /\ s.pc = "pid"
  BY DEF PluginInv, PluginTyped, StopPid, At
<1>2. Stops(s) /\ s.pc \in Stopping
  BY <1>1, HolderKnows DEF Locked, Stopping
<1>3. CASE ~Alive(s.own)
  BY <1>1, <1>2, <1>3, StopperEnds DEF StopPid, Alive, State
<1>4. CASE Alive(s.own)
  <2>1. PICK n : n = procs.all[s.own].pid
    OBVIOUS
  <2>2. n \in Nat
    <3>1. s.own \in All
      BY <1>2 DEF Stops
    <3>2. procs.all[s.own] \in Process
      BY <3>1 DEF PluginInv, PluginTyped, Procs, All
    <3> QED
      BY <2>1, <3>2 DEF Process
  <2>3. PICK t : t = [s EXCEPT !.pc = "from", !.pid = n]
    OBVIOUS
  <2>4. UNCHANGED <<disk, lock, procs>> /\ cl' = [cl EXCEPT ![c] = t]
    BY <1>1, <1>4, <2>1, <2>3 DEF StopPid, Asks
  <2>5. t \in Client /\ t.pc = "from" /\ t.own = s.own /\ t.id = s.id /\ t.pid = n
    <3>1. "from" \in Waiting \cup Locked
      BY DEF Locked, Stopping
    <3>2. PICK u : u = [s EXCEPT !.pc = "from"]
      OBVIOUS
    <3>3. u \in Client /\ u.pc = "from" /\ u.id = s.id /\ u.own = s.own
      BY <1>1, <3>1, <3>2, SMTT(30) DEF Client
    <3>4. t = [u EXCEPT !.pid = n]
      BY <2>3, <3>2
    <3>5. u \in Client
      BY <3>3
    <3>6. \A x \in Nat : [u EXCEPT !.pid = x] \in Client
      BY <3>5, ClientUpdates
    <3>7. t \in Client
      BY <2>2, <3>4, <3>6
    <3> QED
      BY <3>3, <3>4, <3>7 DEF Client
  <2>6. Stops(t)
    BY <1>1, <1>2, <2>1, <2>5 DEF Stops, Stopping, Building
  <2> QED
    BY <1>1, <1>2, <2>4, <2>5, <2>6, StopperGoesOn DEF Stopping
<1> QED
  BY <1>3, <1>4

LEMMA RunsFromKeeps ==
    ASSUME PluginInv, NEW c \in Clients, RunsFrom(c)
    PROVE  PluginInv'
<1>1. PICK s \in Client : s = cl[c] /\ s.pc = "from"
  BY DEF PluginInv, PluginTyped, RunsFrom, At
<1>2. Stops(s) /\ s.pc \in Stopping /\ Bus
  BY <1>1, HolderKnows DEF Locked, Stopping, PluginInv
<1>3. CASE ~\E i \in WithPid(s.pid) : procs.all[i].path \in s.roots
  BY <1>1, <1>2, <1>3, StopperEnds DEF RunsFrom
<1>4. CASE \E i \in WithPid(s.pid) : procs.all[i].path \in s.roots
  <2>1. PICK t : t = [s EXCEPT !.pc = "pidfd"]
    OBVIOUS
  <2>2. UNCHANGED <<disk, lock, procs>> /\ cl' = [cl EXCEPT ![c] = t]
    BY <1>1, <1>4, <2>1 DEF RunsFrom, Asks
  <2>3. t \in Client /\ t.pc = "pidfd" /\ Knows(s, t)
    BY <1>1, <2>1, SMTT(30) DEF Client, Knows, Locked, Stopping
  <2>4. Alive(s.own) => procs.all[s.own].path \in s.roots
    BY <1>1, <1>2, <1>4 DEF Stops, Stopping, WithPid, Bus, All
  <2>5. Stops(t)
    BY <1>1, <1>2, <2>3, <2>4 DEF Stops, Stopping, Building, Knows
  <2> QED
    BY <1>1, <1>2, <2>2, <2>3, <2>5, StopperGoesOn DEF Stopping, Knows
<1> QED
  BY <1>3, <1>4

LEMMA OpenPidfdKeeps ==
    ASSUME PluginInv, NEW c \in Clients, OpenPidfd(c)
    PROVE  PluginInv'
<1>1. PICK s \in Client : s = cl[c] /\ s.pc = "pidfd"
  BY DEF PluginInv, PluginTyped, OpenPidfd, At
<1>2. Stops(s) /\ s.pc \in Stopping /\ Bus
  BY <1>1, HolderKnows DEF Locked, Stopping, PluginInv
<1>3. CASE WithPid(s.pid) = {}
  <2>1. State(s.own) # "running"
    BY <1>1, <1>2, <1>3 DEF Stops, Stopping, WithPid, All, State, Alive
  <2> QED
    BY <1>1, <1>2, <1>3, <2>1, StopperEnds DEF OpenPidfd
<1>4. CASE WithPid(s.pid) # {}
  <2>1. PICK i \in WithPid(s.pid) :
            UNCHANGED <<disk, lock, procs>> /\ cl' = [cl EXCEPT ![c] = [s EXCEPT !.pc = "recheck", !.fd = i]]
    BY <1>1, <1>4 DEF OpenPidfd, Asks
  <2>2. /\ i \in All /\ i \in Nat /\ (Alive(s.own) => i = s.own)
    BY <1>1, <1>2 DEF WithPid, All, Stops, Stopping, Bus, PluginInv, PluginTyped, Procs
  <2>3. PICK t : t = [s EXCEPT !.pc = "recheck", !.fd = i]
    OBVIOUS
  <2>4. /\ t \in Client /\ t.pc = "recheck" /\ t.own = s.own /\ t.id = s.id /\ t.pid = s.pid
        /\ t.fd = i /\ t.roots = s.roots
    <3>1. "recheck" \in Waiting \cup Locked
      BY DEF Locked, Stopping
    <3>2. PICK u : u = [s EXCEPT !.pc = "recheck"]
      OBVIOUS
    <3>3. u \in Client /\ u.pc = "recheck" /\ Knows(s, u)
      BY <1>1, <3>1, <3>2 DEF Client, Knows
    <3>4. t = [u EXCEPT !.fd = i]
      BY <2>3, <3>2
    <3>5. i \in Nat
      BY <2>2
    <3>6. t \in Client
      BY <3>3, <3>4, <3>5, ClientUpdates
    <3> QED
      BY <3>3, <3>4, <3>6 DEF Client, Knows
  <2>5. Stops(t)
    BY <1>1, <1>2, <2>2, <2>4 DEF Stops, Stopping, Building
  <2> QED
    BY <1>1, <1>2, <2>1, <2>3, <2>4, <2>5, StopperGoesOn DEF Stopping
<1> QED
  BY <1>3, <1>4

LEMMA RecheckKeeps ==
    ASSUME PluginInv, NEW c \in Clients, Recheck(c)
    PROVE  PluginInv'
<1>1. PICK s \in Client : s = cl[c] /\ s.pc = "recheck"
  BY DEF PluginInv, PluginTyped, Recheck, At
<1>2. Stops(s) /\ s.pc \in Stopping /\ Bus
  BY <1>1, HolderKnows DEF Locked, Stopping, PluginInv
<1>3. CASE procs.owner # s.own
  <2>1. State(s.own) # "running"
    BY <1>2, <1>3 DEF Stops, Bus
  <2> QED
    BY <1>1, <1>2, <1>3, <2>1, StopperEnds DEF Recheck, StillOwner
<1>4. CASE procs.owner = s.own
  <2>1. PICK t : t = [s EXCEPT !.pc = "signal"]
    OBVIOUS
  <2>2. UNCHANGED <<disk, lock, procs>> /\ cl' = [cl EXCEPT ![c] = t]
    BY <1>1, <1>4, <2>1 DEF Recheck, StillOwner, Asks
  <2>3. t \in Client /\ t.pc = "signal" /\ Knows(s, t)
    BY <1>1, <2>1, SMTT(30) DEF Client, Knows, Locked, Stopping
  <2>4. s.fd = s.own /\ procs.all[s.own].path \in s.roots
    <3>1. State(s.own) = "running"
      BY <1>2, <1>4 DEF Stops, Bus
    <3> QED
      BY <1>1, <1>2, <3>1 DEF Stops, State, Alive
  <2>5. Stops(t)
    BY <1>1, <1>2, <2>3, <2>4 DEF Stops, Stopping, Building, Knows
  <2> QED
    BY <1>1, <1>2, <2>2, <2>3, <2>5, StopperGoesOn DEF Stopping, Knows
<1> QED
  BY <1>3, <1>4

\* The process that is signalled runs what was replaced.
LEMMA TerminateKeeps ==
    ASSUME PluginInv, NEW c \in Clients, Terminate(c)
    PROVE  PluginInv'
<1>1. PICK s \in Client : s = cl[c] /\ s.pc = "signal"
  BY DEF PluginInv, PluginTyped, Terminate, At
<1>2. Stops(s) /\ s.pc \in Stopping /\ Bus
  BY <1>1, HolderKnows DEF Locked, Stopping, PluginInv
<1>3. s.fd = s.own /\ procs.all[s.fd].path \in s.roots
  BY <1>1, <1>2 DEF Stops
<1>4. CASE ~Alive(s.fd)
  <2>1. State(s.own) # "running"
    BY <1>3, <1>4 DEF Alive, State
  <2> QED
    BY <1>1, <1>2, <1>4, <2>1, StopperEnds DEF Terminate
<1>5. CASE Alive(s.fd)
  <2>1. PICK t \in Client : cl' = [cl EXCEPT ![c] = t] /\ t.pc = "wait" /\ Knows(s, t)
    BY <1>1, <1>5, Moves DEF PluginInv, Terminate, Locked, Stopping
  <2>2. UNCHANGED <<disk, lock>> /\ procs' = [procs EXCEPT !.wrong = FALSE]
    BY <1>1, <1>2, <1>3, <1>5 DEF Terminate, Bus
  <2>3. procs' = procs
    BY <1>2, <2>2 DEF PluginInv, PluginTyped, Procs, Bus
  <2>4. Stops(t)
    BY <1>1, <1>2, <2>1 DEF Stops, Stopping, Building, Knows
  <2> QED
    BY <1>1, <1>2, <2>1, <2>2, <2>3, <2>4, StopperGoesOn DEF Stopping, Knows
<1> QED
  BY <1>4, <1>5

LEMMA WaitKeeps ==
    ASSUME PluginInv, NEW c \in Clients, Wait(c) \/ StopFails(c)
    PROVE  PluginInv'
<1>1. CASE Wait(c)
  <2>1. cl[c].pc \in Stopping /\ Bus
    BY <1>1 DEF Wait, At, Stopping, PluginInv
  <2>2. PICK ok \in BOOLEAN : Stopped(c, ok) /\ (ok => procs.owner # cl[c].own)
    BY <1>1 DEF Wait
  <2>3. procs.owner # cl[c].own => State(cl[c].own) # "running"
    <3>1. cl[c].own \in All
      BY <2>1, HolderKnows DEF Stops, Locked
    <3> QED
      BY <2>1, <3>1 DEF Bus
  <2> QED
    BY <2>1, <2>2, <2>3, StopperEnds
<1>2. CASE StopFails(c)
  <2>1. cl[c].pc \in {"owner"} \cup Stopping
    BY <1>2 DEF StopFails, Stopping
  <2> QED
    BY <1>2, <2>1, StoppedKeeps DEF StopFails
<1> QED
  BY <1>1, <1>2

-----------------------------------------------------------------------------
(***************************************************************************)
(* A client that does not hold the lock.                                   *)
(***************************************************************************)

\* It takes the lock.
LEMMA TakeKeeps ==
    ASSUME PluginInv, NEW c \in Clients, cl[c].pc \notin Locked, lock = None, lock' = c,
           NEW t \in Client, cl' = [cl EXCEPT ![c] = t], t.pc \in Locked, Named(t),
           UNCHANGED procs, disk' \in Disk, disk'.files = disk.files,
           SameDirs(disk, disk'), disk'.damaged = disk.damaged, disk'.torn = disk.torn, Work(t)', Stops(t)'
    PROVE  PluginInv'
<1>1. /\ cl' \in [Clients -> Client] /\ cl'[c] = t
      /\ \A b \in Clients : b # c => cl'[b] = cl[b]
  BY DEF PluginInv, PluginTyped
<1>2. PluginTyped'
  BY <1>1 DEF PluginInv, PluginTyped
<1>3. Holding'
  BY <1>1, NoneApart DEF PluginInv, Holding, Named
<1>4. Fresh' /\ TornIsDamaged' /\ CanRun(disk.files)' /\ One'
  BY DEF PluginInv, Fresh, TornIsDamaged, CanRun, Whole, One, Gone, Record, Manifest, SameDirs
<1>5. \A i \in Ids \ disk.damaged : AgreedNow(i)
  BY NoneApart DEF PluginInv, Agreement
<1>6. \A i \in Ids \ disk'.damaged : AgreedNow(i)'
  BY <1>5 DEF AgreedNow, PluginVenvs, SameDirs
<1>7. Agreement'
  BY <1>6 DEF Agreement
<1>8. Bus'
  BY DEF PluginInv, Bus, All, State, Alive
<1>9. (\A b \in Clients : lock = b => Work(cl[b]) /\ Stops(cl[b]))'
  BY <1>1
<1> QED
  BY <1>2, <1>3, <1>4, <1>7, <1>8, <1>9, NoneApart DEF PluginInv

\* What it knows then.
LEMMA TakerKnows ==
    ASSUME PluginInv, lock = None
    PROVE  /\ AllFine /\ \A i \in Ids \ disk.damaged : AgreedNow(i)
           /\ \A i \in Ids : /\ PluginVenvs(i) \in SUBSET Environment
                             /\ RecordVenv(i) \in SUBSET Environment
                             /\ \A v \in PluginVenvs(i) \cup RecordVenv(i) : v.id = i
<1>1. AllFine /\ \A i \in Ids \ disk.damaged : AgreedNow(i)
  BY NoneApart DEF PluginInv, Agreement
<1>2. ASSUME NEW i \in Ids
      PROVE  /\ PluginVenvs(i) \in SUBSET Environment /\ RecordVenv(i) \in SUBSET Environment
             /\ \A v \in PluginVenvs(i) \cup RecordVenv(i) : v.id = i
  <2>1. PluginVenvs(i) \in SUBSET Environment /\ \A v \in PluginVenvs(i) : v.id = i
    BY DiskFields DEF PluginInv, PluginVenvs, Venv
  <2>2. RecordVenv(i) \in SUBSET Environment /\ \A v \in RecordVenv(i) : v.id = i
    <3>1. Record(i) \in InstallRecord \cup {None} /\ (Record(i) # None => Record(i).venv.id = i)
      BY DiskFields DEF PluginInv, CanRun, Record
    <3> QED
      BY <3>1 DEF RecordVenv, InstallRecord
  <2> QED
    BY <2>1, <2>2
<1> QED
  BY <1>1, <1>2

LEMMA CommitTakes ==
    ASSUME PluginInv, NEW c \in Clients, Commit(c), Unchanged(c)
    PROVE  PluginInv'
<1> USE DEF Building, Undoing, Removing, Stopping
<1>1. PICK s \in Client : s = cl[c] /\ s.pc = "commit"
  BY DEF PluginInv, PluginTyped, Commit, At
<1>2. /\ Named(s) /\ s.id \in Ids /\ s.commit \in Nat /\ s.venv = None /\ s.kept = {}
      /\ s.pc \notin Locked
  BY <1>1 DEF PluginInv, Holding, Named, Waiting, Locked, Changing
<1>3. PICK roots : roots = PluginVenvs(s.id) \cup RecordVenv(s.id)
  OBVIOUS
<1>4. PICK t : t = [s EXCEPT !.pc = "aside", !.before = disk.files, !.roots = roots]
  OBVIOUS
<1>5. lock = None /\ lock' = c /\ UNCHANGED <<disk, procs>> /\ cl' = [cl EXCEPT ![c] = t]
  BY <1>1, <1>3, <1>4 DEF Commit
<1>6. /\ roots \in SUBSET Environment /\ \A r \in roots : r.id = s.id
      /\ AllFine /\ \A i \in Ids \ disk.damaged : AgreedNow(i)
      /\ PluginVenvs(s.id) \in SUBSET Environment /\ disk.files \in Files
  BY <1>2, <1>3, <1>5, TakerKnows, DiskFields DEF PluginInv
<1>7. /\ t \in Client /\ t.pc = "aside" /\ t.before = disk.files /\ t.roots = roots
      /\ t.id = s.id /\ t.commit = s.commit /\ t.venv = None /\ t.kept = {}
  <2>1. "aside" \in Waiting \cup Locked
    BY DEF Locked, Changing
  <2>2. PICK u : u = [s EXCEPT !.pc = "aside"]
    OBVIOUS
  <2>3. /\ u \in Client /\ u.pc = "aside" /\ u.id = s.id /\ u.commit = s.commit /\ u.venv = None
        /\ u.kept = {}
    BY <1>1, <1>2, <2>1, <2>2, SMTT(30) DEF Client
  <2>4. PICK f, w : f \in Files /\ f = disk.files /\ w = [u EXCEPT !.before = f]
    BY <1>6
  <2>5. /\ w \in Client /\ w.pc = "aside" /\ w.before = disk.files /\ w.id = s.id
        /\ w.commit = s.commit /\ w.venv = None /\ w.kept = {}
    <3>1. \A x \in Files : [u EXCEPT !.before = x] \in Client
      BY <2>3, ClientUpdates
    <3>2. w \in Client
      BY <2>4, <3>1
    <3> QED
      BY <2>3, <2>4, <3>2 DEF Client
  <2>6. t = [w EXCEPT !.roots = roots]
    BY <1>4, <2>2, <2>4
  <2> QED
    BY <1>6, <2>5, <2>6, SMTT(30) DEF Client
<1>8. \A i \in Ids \ {s.id} : Gone(i)
  BY <1>1 DEF Unchanged, BusNameFree, Gone, Manifest
<1>9. Service # None => Service.id \in disk.damaged \cup {s.id}
  <2>1. \A i \in Ids \ disk.damaged : i # s.id => (Service # None => Service.id # i)
    BY <1>6, <1>8 DEF AgreedNow, Agreed, Gone, Record, Service
  <2>2. Service # None => Service.id \in Ids
    BY <1>6 DEF Service, Files, Environment
  <2> QED
    BY <2>1, <2>2
<1>10. \A i \in Ids : PluginVenvs(i)' = PluginVenvs(i)
  BY <1>5 DEF PluginVenvs
<1>11. Alone(t)' /\ Keeps(t)' /\ Builds(t)' /\ Publishes(t)'
  <2>1. Alone(t)' /\ Builds(t)' /\ Publishes(t)'
    BY <1>5, <1>7, <1>8 DEF Alone, Changing, Builds, Publishes, Gone, Record, Manifest, Service
  <2>2. CanRun(disk.files)'
    BY <1>5 DEF PluginInv, CanRun, Whole
  <2>3. Keeps(t)'
    BY <1>5, <1>6, <1>7, <1>8, <1>9, <2>2 DEF Keeps, Gone, Record, Manifest, Service
  <2> QED
    BY <2>1, <2>3
<1>12. Places(t)'
  BY <1>2, <1>3, <1>6, <1>7, <1>10 DEF Places
<1>13. AgreedBefore(t)'
  <2>1. PluginVenvs(s.id) \ {None} = PluginVenvs(s.id)
    BY <1>6, NoneApart
  <2> QED
    BY <1>2, <1>5, <1>6, <1>7, <1>10, <2>1 DEF AgreedBefore, AgreedNow
<1>14. Stops(t)' /\ Named(t)
  BY <1>2, <1>5, <1>6, <1>7 DEF Stops, AllFine, All, Fine, State, Named, Waiting
<1>15. /\ disk' \in Disk /\ disk'.files = disk.files /\ SameDirs(disk, disk')
      /\ disk'.damaged = disk.damaged /\ disk'.torn = disk.torn
  BY <1>5 DEF PluginInv, PluginTyped, SameDirs
<1> QED
  BY <1>1, <1>2, <1>5, <1>7, <1>11, <1>12, <1>13, <1>14, <1>15, TakeKeeps
     DEF Locked, Changing, Work

LEMMA RemoveTakes ==
    ASSUME PluginInv, NEW c \in Clients, Remove(c), Record(cl[c].id) # None
    PROVE  PluginInv'
<1> USE DEF Building, Undoing, Removing, Stopping
<1>1. PICK s \in Client : s = cl[c] /\ s.pc = "remove"
  BY DEF PluginInv, PluginTyped, Remove, At
<1>2. Named(s) /\ s.id \in Ids /\ s.kept = {} /\ s.venv = None /\ s.pc \notin Locked
  BY <1>1 DEF PluginInv, Holding, Named, Waiting, Locked, Changing
<1>3. PICK roots : roots = PluginVenvs(s.id) \cup RecordVenv(s.id)
  OBVIOUS
<1>4. PICK t : t = [s EXCEPT !.pc = "rmmanifest", !.roots = roots]
  OBVIOUS
<1>5. lock = None /\ lock' = c /\ UNCHANGED <<disk, procs>> /\ cl' = [cl EXCEPT ![c] = t]
  BY <1>1, <1>3, <1>4 DEF Remove
<1>6. roots \in SUBSET Environment /\ roots # {} /\ \A r \in roots : r.id = s.id
  BY <1>1, <1>2, <1>3, <1>5, TakerKnows DEF RecordVenv
<1>7. /\ t \in Client /\ t.pc = "rmmanifest" /\ t.roots = roots /\ t.id = s.id
      /\ t.kept = {} /\ t.venv = None
  <2>1. "rmmanifest" \in Waiting \cup Locked
    BY DEF Locked, Changing
  <2>2. PICK u : u = [s EXCEPT !.pc = "rmmanifest"]
    OBVIOUS
  <2>3. u \in Client /\ u.pc = "rmmanifest" /\ u.id = s.id /\ u.kept = {} /\ u.venv = None
    BY <1>1, <1>2, <2>1, <2>2 DEF Client
  <2>4. t = [u EXCEPT !.roots = roots]
    BY <1>4, <2>2
  <2>5. t \in Client
    BY <1>6, <2>3, <2>4, ClientUpdates
  <2>6. t.pc = u.pc /\ t.roots = roots /\ t.id = u.id /\ t.kept = u.kept /\ t.venv = u.venv
    BY <2>3, <2>4 DEF Client
  <2> QED
    BY <2>3, <2>5, <2>6
<1>8. \A i \in Ids \ {s.id} : Gone(i)
  BY <1>1, <1>2 DEF PluginInv, One, Gone
<1>9. \A i \in Ids : PluginVenvs(i)' = PluginVenvs(i)
  BY <1>5 DEF PluginVenvs
<1>10. Alone(t)' /\ Keeps(t)' /\ Builds(t)' /\ Publishes(t)' /\ AgreedBefore(t)'
  BY <1>5, <1>7, <1>8
     DEF Alone, Keeps, Builds, Publishes, AgreedBefore, Gone, Record, Manifest
<1>11. Places(t)'
  BY <1>2, <1>3, <1>6, <1>7, <1>9 DEF Places
<1>12. Stops(t)' /\ Named(t)
  BY <1>2, <1>7 DEF Stops, Named, Waiting
<1>13. /\ disk' \in Disk /\ disk'.files = disk.files /\ SameDirs(disk, disk')
      /\ disk'.damaged = disk.damaged /\ disk'.torn = disk.torn
  BY <1>5 DEF PluginInv, PluginTyped, SameDirs
<1> QED
  BY <1>1, <1>2, <1>5, <1>7, <1>10, <1>11, <1>12, <1>13, TakeKeeps DEF Locked, Changing, Work

LEMMA DisableTakes ==
    ASSUME PluginInv, NEW c \in Clients, SetEnabled(c), cl[c].op # "enable", Record(cl[c].id) # None
    PROVE  PluginInv'
<1> USE DEF Building, Undoing, Removing, Stopping
<1>1. PICK s \in Client : s = cl[c] /\ s.pc \in {"enable", "disable"}
  BY DEF PluginInv, PluginTyped, SetEnabled
<1>2. Named(s) /\ s.id \in Ids /\ s.pc \notin Locked
  BY <1>1 DEF PluginInv, Holding, Named, Waiting, Locked, Changing
<1>3. PICK roots : roots = RecordVenv(s.id)
  OBVIOUS
<1>4. PICK t : t = [s EXCEPT !.pc = "owner", !.roots = roots]
  OBVIOUS
<1>5. PICK x : x = disk.disabled \cup {s.id}
  OBVIOUS
<1>6. /\ lock = None /\ lock' = c /\ UNCHANGED procs /\ cl' = [cl EXCEPT ![c] = t]
      /\ disk' = [disk EXCEPT !.disabled = x]
  BY <1>1, <1>3, <1>4, <1>5 DEF SetEnabled
<1>7. roots \in SUBSET Environment /\ roots # {}
  BY <1>1, <1>2, <1>3, <1>6, TakerKnows DEF RecordVenv
<1>8. t \in Client /\ t.pc = "owner" /\ t.roots = roots /\ t.id = s.id
  <2>1. "owner" \in Waiting \cup Locked
    BY DEF Locked
  <2>2. PICK u : u = [s EXCEPT !.pc = "owner"]
    OBVIOUS
  <2>3. u \in Client /\ u.pc = "owner" /\ u.id = s.id
    BY <1>1, <2>1, <2>2, SMTT(30) DEF Client
  <2>4. t = [u EXCEPT !.roots = roots]
    BY <1>4, <2>2
  <2>5. t \in Client
    BY <1>7, <2>3, <2>4, ClientUpdates
  <2>6. t.pc = u.pc /\ t.roots = roots /\ t.id = u.id
    BY <2>3, <2>4 DEF Client
  <2> QED
    BY <2>3, <2>5, <2>6
<1>9. /\ disk' \in Disk /\ disk'.files = disk.files /\ SameDirs(disk, disk')
      /\ disk'.damaged = disk.damaged /\ disk'.torn = disk.torn
  <2>1. disk \in Disk /\ x \in SUBSET Ids
    BY <1>2, <1>5, DiskFields DEF PluginInv, PluginTyped
  <2> QED
    BY <1>6, <2>1 DEF Disk, SameDirs
<1>10. Work(t)'
  BY <1>8 DEF Work, Alone, Changing, Keeps, Builds, Publishes, Places, AgreedBefore
<1>11. Stops(t)' /\ Named(t)
  BY <1>2, <1>7, <1>8 DEF Stops, Named, Waiting
<1> QED
  BY <1>1, <1>2, <1>6, <1>8, <1>9, <1>10, <1>11, TakeKeeps DEF Locked

\* What the holder relies on is on the disk, and stands while that does not change.
LEMMA WorkStands ==
    ASSUME NEW s, Work(s), UNCHANGED disk
    PROVE  Work(s)'
<1>1. Alone(s)' /\ Publishes(s)'
  BY DEF Work, Alone, Publishes, Gone, Record, Manifest, Service
<1>2. Keeps(s)' /\ Builds(s)'
  BY DEF Work, Keeps, Builds, CanRun, Whole
<1>3. PluginVenvs(s.id)' = PluginVenvs(s.id)
  BY DEF PluginVenvs
<1>4. Places(s)'
  BY <1>3 DEF Work, Places
<1>5. AgreedBefore(s)'
  BY <1>3 DEF Work, AgreedBefore
<1> QED
  BY <1>1, <1>2, <1>4, <1>5 DEF Work

\* It asks, waits or gives up: nothing of the plugins changes.
LEMMA FreeKeeps ==
    ASSUME PluginInv, NEW c \in Clients, cl[c].pc \notin Locked,
           NEW t \in Client, cl' = [cl EXCEPT ![c] = t], t.pc \notin Locked, Named(t),
           UNCHANGED <<disk, lock, procs>>
    PROVE  PluginInv'
<1>1. /\ cl' \in [Clients -> Client] /\ cl'[c] = t
      /\ \A b \in Clients : b # c => cl'[b] = cl[b]
  BY DEF PluginInv, PluginTyped
<1>2. PluginTyped'
  BY <1>1 DEF PluginInv, PluginTyped
<1>3. Holding' /\ lock # c
  BY <1>1 DEF PluginInv, Holding, Named
<1>4. Fresh' /\ TornIsDamaged' /\ CanRun(disk.files)' /\ One'
  BY DEF PluginInv, Fresh, TornIsDamaged, CanRun, Whole, One, Gone, Record, Manifest
<1>5. \A i \in Ids : AgreedNow(i) => AgreedNow(i)'
  BY DEF AgreedNow, PluginVenvs
<1>6. Agreement'
  BY <1>1, <1>3, <1>5 DEF PluginInv, Agreement
<1>7. Bus' /\ (AllFine => AllFine')
  BY DEF PluginInv, Bus, AllFine, Fine, All, State, Alive
<1>8. (\A b \in Clients : lock = b => Work(cl[b]) /\ Stops(cl[b]))'
  <2> SUFFICES ASSUME NEW b \in Clients, lock = b, b # c, cl'[b] = cl[b]
               PROVE  (Work(cl[b]) /\ Stops(cl[b]))'
    BY <1>1, <1>3
  <2>1. PICK s : s = cl[b]
    OBVIOUS
  <2>2. Work(s) /\ Stops(s)
    BY <2>1 DEF PluginInv
  <2>3. Work(s)'
    BY <2>2, WorkStands
  <2>4. Stops(s)'
    BY <2>2 DEF Stops, AllFine, Fine, All, State, Alive
  <2> QED
    BY <2>1, <2>3, <2>4
<1> QED
  BY <1>2, <1>3, <1>4, <1>6, <1>7, <1>8 DEF PluginInv

LEMMA FreeEnds ==
    ASSUME PluginInv, NEW c \in Clients, cl[c].pc \notin Locked, Ends(c),
           UNCHANGED <<disk, lock, procs>>
    PROVE  PluginInv'
<1>1. PICK t \in Client : cl' = [cl EXCEPT ![c] = t] /\ t.pc = "idle" /\ t.venv = None /\ t.kept = {}
  BY Rests DEF PluginInv
<1>2. t.pc \notin Locked /\ Named(t)
  BY <1>1 DEF Locked, Changing, Building, Undoing, Removing, Stopping, Named
<1> QED
  BY <1>1, <1>2, FreeKeeps

\* Waiting clients do not hold the lock.
LEMMA WaitingIsFree == Waiting \cap Locked = {}
BY DEF Waiting, Locked, Changing, Building, Undoing, Removing, Stopping

LEMMA FreeMoves ==
    ASSUME PluginInv, NEW c \in Clients, cl[c].pc \in Waiting,
           NEW t \in Client, cl' = [cl EXCEPT ![c] = t], t.pc \in Waiting,
           t.pc # "idle" => t.id \in Ids,
           t.pc \in {"prepare", "ask", "commit"} => t.commit \in Nat, t.venv = None, t.kept = {},
           UNCHANGED <<disk, lock, procs>>
    PROVE  PluginInv'
<1>1. Named(t) /\ cl[c].pc \notin Locked /\ t.pc \notin Locked
  BY WaitingIsFree DEF Named, Waiting, Building
<1> QED
  BY <1>1, FreeKeeps

LEMMA BeginKeeps ==
    ASSUME PluginInv, NEW c \in Clients, Begin(c)
    PROVE  PluginInv'
<1>1. PICK s \in Client : s = cl[c] /\ s.pc = "idle" /\ s.plan # <<>> /\ s.plan \in Seq(Command)
  BY DEF PluginInv, PluginTyped, Client, Begin, Steps, At
<1>2. PICK o, rest : o = Head(s.plan) /\ rest = Tail(s.plan)
  OBVIOUS
<1>3. o \in Command /\ rest \in Seq(Command)
  BY <1>1, <1>2
<1>4. o.op \in Ops /\ o.id \in Ids /\ disk.head \in Nat
  BY <1>3, DiskFields DEF Command, PluginInv
<1>5. PICK u0 : u0 = Resting(rest)
  OBVIOUS
<1>6. u0 \in Client /\ u0.pc = "idle" /\ u0.venv = None /\ u0.kept = {}
  BY <1>3, <1>5 DEF Client, Resting, Waiting
<1>7. PICK u1 : u1 = [u0 EXCEPT !.op = o.op]
  OBVIOUS
<1>8. u1 \in Client /\ u1.venv = None /\ u1.kept = {}
  <2>1. u1 \in Client
    BY <1>4, <1>6, <1>7, ClientUpdates
  <2> QED
    BY <1>6, <1>7, <2>1 DEF Client
<1>9. PICK u : u = [u1 EXCEPT !.id = o.id]
  OBVIOUS
<1>10. u \in Client /\ u.id = o.id /\ u.venv = None /\ u.kept = {}
  <2>1. u \in Client
    BY <1>4, <1>8, <1>9, ClientUpdates
  <2> QED
    BY <1>8, <1>9, <2>1 DEF Client
<1>11. u = [Resting(rest) EXCEPT !.op = o.op, !.id = o.id]
  BY <1>5, <1>7, <1>9
<1>12. ASSUME NEW n \in Nat, cl' = [cl EXCEPT ![c] = [u EXCEPT !.pc = "prepare", !.commit = n]]
       PROVE  PluginInv'
  <2>1. PICK w : w = [u EXCEPT !.pc = "prepare"]
    OBVIOUS
  <2>2. "prepare" \in Waiting \cup Locked
    BY DEF Waiting
  <2>3. w \in Client /\ w.pc = "prepare" /\ w.id = o.id /\ w.venv = None /\ w.kept = {}
    <3>1. w \in Client
      BY <1>10, <2>1, <2>2, ClientUpdates
    <3> QED
      BY <1>10, <2>1, <3>1 DEF Client
  <2>4. PICK t : t = [w EXCEPT !.commit = n]
    OBVIOUS
  <2>5. /\ t \in Client /\ t.pc = "prepare" /\ t.id = o.id /\ t.venv = None /\ t.commit = n
        /\ t.kept = {}
    <3>1. t \in Client
      BY <1>12, <2>3, <2>4, ClientUpdates
    <3> QED
      BY <2>3, <2>4, <3>1 DEF Client
  <2>6. cl' = [cl EXCEPT ![c] = t] /\ cl[c].pc \in Waiting /\ UNCHANGED <<disk, lock, procs>>
    BY <1>1, <1>12, <2>1, <2>4 DEF Waiting, Begin, Steps
  <2> QED
    BY <1>4, <2>5, <2>6, FreeMoves DEF Waiting
<1>13. CASE o.op = "install"
  <2>1. PICK n \in 1 .. disk.head : cl' = [cl EXCEPT ![c] = [u EXCEPT !.pc = "prepare", !.commit = n]]
    BY <1>1, <1>2, <1>11, <1>13 DEF Begin
  <2>2. n \in Nat
    BY <1>4
  <2> QED
    BY <1>12, <2>1, <2>2
<1>14. CASE o.op = "update"
  <2>1. CASE Record(o.id) = None \/ Record(o.id).venv.commit = disk.head
    <3>1. cl' = [cl EXCEPT ![c] = u0] /\ cl[c].pc \in Waiting /\ UNCHANGED <<disk, lock, procs>>
      BY <1>1, <1>2, <1>5, <1>14, <2>1 DEF Begin, Waiting, Steps
    <3> QED
      BY <1>6, <3>1, FreeMoves DEF Waiting
  <2>2. CASE ~(Record(o.id) = None \/ Record(o.id).venv.commit = disk.head)
    <3>1. cl' = [cl EXCEPT ![c] = [u EXCEPT !.pc = "prepare", !.commit = disk.head]]
      BY <1>1, <1>2, <1>11, <1>14, <2>2 DEF Begin
    <3> QED
      BY <1>4, <1>12, <3>1
  <2> QED
    BY <2>1, <2>2
<1>15. CASE o.op \notin {"install", "update"}
  <2>1. PICK t : t = [u EXCEPT !.pc = o.op]
    OBVIOUS
  <2>2. cl' = [cl EXCEPT ![c] = t] /\ cl[c].pc \in Waiting /\ UNCHANGED <<disk, lock, procs>>
    BY <1>1, <1>2, <1>11, <1>15, <2>1 DEF Begin, Waiting, Steps
  <2>3. o.op \in Waiting /\ o.op \notin {"prepare", "ask", "commit"}
    BY <1>4, <1>15 DEF Waiting, Ops
  <2>4. o.op \in Waiting \cup Locked
    BY <2>3
  <2>5. t \in Client /\ t.pc = o.op /\ t.id = o.id /\ t.venv = None /\ t.kept = {}
    <3>1. t \in Client
      BY <1>10, <2>1, <2>4, ClientUpdates
    <3> QED
      BY <1>10, <2>1, <3>1 DEF Client
  <2> QED
    BY <1>4, <2>2, <2>3, <2>5, FreeMoves
<1> QED
  BY <1>13, <1>14, <1>15

LEMMA PrepareKeeps ==
    ASSUME PluginInv, NEW c \in Clients, Prepare(c)
    PROVE  PluginInv'
<1>1. PICK s \in Client : s = cl[c] /\ s.pc = "prepare"
  BY DEF PluginInv, PluginTyped, Prepare, Steps, At
<1>2. /\ Named(s) /\ s.id \in Ids /\ s.commit \in Nat /\ s.venv = None /\ s.kept = {}
      /\ s.pc \notin Locked
  BY <1>1, WaitingIsFree DEF PluginInv, Holding, Named, Waiting
<1>3. UNCHANGED <<disk, lock, procs>>
  BY DEF Prepare, Steps
<1>4. CASE ~BusNameFree(s.id)
  BY <1>1, <1>2, <1>3, <1>4, FreeEnds DEF Prepare
<1>5. CASE BusNameFree(s.id)
  <2>1. PICK rec \in InstallRecord \cup {None} : rec = Record(s.id)
    BY <1>2, DiskFields DEF PluginInv
  <2>2. PICK u : u = [s EXCEPT !.pc = "ask"]
    OBVIOUS
  <2>3. /\ u \in Client /\ u.pc = "ask" /\ u.id = s.id /\ u.commit = s.commit /\ u.venv = None
        /\ u.kept = {}
    <3>1. "ask" \in Waiting \cup Locked
      BY DEF Waiting
    <3>2. u \in Client
      BY <1>1, <2>2, <3>1, SMTT(30) DEF Client
    <3> QED
      BY <1>1, <1>2, <2>2, <3>2, SMTT(30) DEF Client
  <2>4. PICK t : t = [u EXCEPT !.previous = rec]
    OBVIOUS
  <2>5. t \in Client
    <3>1. \A x \in InstallRecord \cup {None} : [u EXCEPT !.previous = x] \in Client
      BY <2>3, ClientUpdates
    <3> QED
      BY <2>1, <2>4, <3>1
  <2>6. t.pc = "ask" /\ t.id = s.id /\ t.commit = s.commit /\ t.venv = None /\ t.kept = {}
    BY <2>3, <2>4 DEF Client
  <2>7. cl' = [cl EXCEPT ![c] = t]
    BY <1>1, <1>5, <2>1, <2>2, <2>4 DEF Prepare
  <2> QED
    BY <1>1, <1>2, <1>3, <2>5, <2>6, <2>7, FreeMoves DEF Waiting
<1> QED
  BY <1>4, <1>5

LEMMA AnswerKeeps ==
    ASSUME PluginInv, NEW c \in Clients, Answer(c) \/ GiveUp(c)
    PROVE  PluginInv'
<1>1. /\ UNCHANGED <<disk, lock, procs>> /\ cl[c].pc \in Waiting /\ cl[c].pc \notin Locked
      /\ Ends(c) \/ (To(c, "commit") /\ cl[c].pc = "ask")
  BY WaitingIsFree DEF Answer, GiveUp, Steps, At, Waiting
<1>2. CASE Ends(c)
  BY <1>1, <1>2, FreeEnds
<1>3. CASE To(c, "commit") /\ cl[c].pc = "ask"
  <2>1. PICK t \in Client : cl' = [cl EXCEPT ![c] = t] /\ t.pc = "commit" /\ Knows(cl[c], t)
    BY <1>3, Moves DEF PluginInv, Waiting
  <2>2. t.id \in Ids /\ t.commit \in Nat /\ t.venv = None /\ t.kept = {}
    BY <1>3, <2>1 DEF PluginInv, Holding, Named, Knows, Waiting
  <2> QED
    BY <1>1, <2>1, <2>2, FreeMoves DEF Waiting
<1> QED
  BY <1>1, <1>2, <1>3

LEMMA CommitKeeps ==
    ASSUME PluginInv, NEW c \in Clients, Commit(c)
    PROVE  PluginInv'
<1>1. CASE ~Unchanged(c)
  <2>1. Ends(c) /\ UNCHANGED <<disk, lock, procs>> /\ cl[c].pc \notin Locked
    BY <1>1, WaitingIsFree DEF Commit, At, Waiting
  <2> QED
    BY <2>1, FreeEnds
<1> QED
  BY <1>1, CommitTakes

LEMMA RemoveKeeps ==
    ASSUME PluginInv, NEW c \in Clients, Remove(c)
    PROVE  PluginInv'
<1>1. CASE Record(cl[c].id) = None
  <2>1. Ends(c) /\ UNCHANGED <<disk, lock, procs>> /\ cl[c].pc \notin Locked
    BY <1>1, WaitingIsFree DEF Remove, At, Waiting
  <2> QED
    BY <2>1, FreeEnds
<1> QED
  BY <1>1, RemoveTakes

\* It changes a setting while nobody holds the lock, and is done.
LEMMA UnlockedEnds ==
    ASSUME PluginInv, NEW c \in Clients, cl[c].pc \notin Locked, Ends(c), lock = None, lock' = None,
           procs' \in Procs, Bus', AllFine', disk' \in Disk, disk'.files = disk.files,
           SameDirs(disk, disk'), disk'.damaged = disk.damaged, disk'.torn = disk.torn
    PROVE  PluginInv'
<1>1. PICK t \in Client : cl' = [cl EXCEPT ![c] = t] /\ t.pc = "idle" /\ t.venv = None /\ t.kept = {}
  BY Rests DEF PluginInv
<1>2. /\ cl' \in [Clients -> Client] /\ cl'[c] = t
      /\ \A b \in Clients : b # c => cl'[b] = cl[b]
  BY <1>1 DEF PluginInv, PluginTyped
<1>3. PluginTyped'
  BY <1>2 DEF PluginTyped
<1>4. Holding'
  <2>1. Named(t) /\ t.pc \notin Locked
    BY <1>1 DEF Named, Locked, Changing, Building, Undoing, Removing, Stopping
  <2> QED
    BY <1>2, <2>1, NoneApart DEF PluginInv, Holding, Named
<1>5. Fresh' /\ TornIsDamaged' /\ CanRun(disk.files)' /\ One'
  BY DEF PluginInv, Fresh, TornIsDamaged, CanRun, Whole, One, Gone, Record, Manifest, SameDirs
<1>6. \A i \in Ids \ disk.damaged : AgreedNow(i)
  BY TakerKnows
<1>7. \A i \in Ids \ disk'.damaged : AgreedNow(i)'
  BY <1>6 DEF AgreedNow, PluginVenvs, SameDirs
<1> QED
  BY <1>3, <1>4, <1>5, <1>7, NoneApart DEF PluginInv, Agreement

LEMMA SettingsFailKeeps ==
    ASSUME PluginInv, NEW c \in Clients, SettingsFail(c)
    PROVE  PluginInv'
<1>1. Ends(c) /\ UNCHANGED <<disk, lock, procs>> /\ cl[c].pc \notin Locked
  BY WaitingIsFree DEF SettingsFail, Waiting
<1> QED
  BY <1>1, FreeEnds

LEMMA SetEnabledKeeps ==
    ASSUME PluginInv, NEW c \in Clients, SetEnabled(c)
    PROVE  PluginInv'
<1>1. PICK s \in Client : s = cl[c] /\ s.pc \in {"enable", "disable"}
  BY DEF PluginInv, PluginTyped, SetEnabled
<1>2. s.id \in Ids /\ s.pc \notin Locked
  BY <1>1, WaitingIsFree DEF PluginInv, Holding, Named, Waiting
<1>3. lock = None /\ AllFine /\ Bus /\ disk \in Disk /\ disk.disabled \in SUBSET Ids /\ procs \in Procs
  BY TakerKnows, DiskFields DEF SetEnabled, PluginInv, PluginTyped
<1>4. CASE s.op = "enable"
  <2>1. PICK x \in SUBSET Ids : x = disk.disabled \ {s.id}
    BY <1>3
  <2>2. Ends(c) /\ UNCHANGED <<lock, procs>> /\ disk' = [disk EXCEPT !.disabled = x]
    BY <1>1, <1>4, <2>1 DEF SetEnabled
  <2>3. /\ disk' \in Disk /\ disk'.files = disk.files /\ SameDirs(disk, disk')
        /\ disk'.damaged = disk.damaged /\ disk'.torn = disk.torn /\ disk'.disabled = x
    BY <1>3, <2>2 DEF Disk, SameDirs
  <2>4. Bus' /\ AllFine'
    BY <1>3, <2>1, <2>2, <2>3 DEF Bus, AllFine, Fine, All, State, Alive, SameDirs
  <2> QED
    BY <1>1, <1>2, <1>3, <2>2, <2>3, <2>4, UnlockedEnds
<1>5. CASE s.op # "enable" /\ Record(s.id) = None
  <2>1. PICK x \in SUBSET Ids : x = disk.disabled \cup {s.id}
    BY <1>2, <1>3
  <2>2. /\ Ends(c) /\ lock' = lock /\ procs' = Pardoned(FALSE)
        /\ disk' = [disk EXCEPT !.disabled = x]
    BY <1>1, <1>5, <2>1 DEF SetEnabled
  <2>3. /\ disk' \in Disk /\ disk'.files = disk.files /\ SameDirs(disk, disk')
        /\ disk'.damaged = disk.damaged /\ disk'.torn = disk.torn
    BY <1>3, <2>2 DEF Disk, SameDirs
  <2>4. procs' \in Procs /\ Bus' /\ AllFine'
    BY <1>3, <2>2, PardonedProcs, PardonedBus, ExcusedFine DEF PluginInv
  <2> QED
    BY <1>1, <1>2, <1>3, <2>2, <2>3, <2>4, UnlockedEnds
<1> QED
  BY <1>1, <1>4, <1>5, DisableTakes

LEMMA CrashKeeps ==
    ASSUME PluginInv, NEW c \in Clients, Crash(c)
    PROVE  PluginInv'
<1>1. Ends(c)
  BY DEF Crash
<1>2. CASE cl[c].pc \in Locked
  <2>1. lock = c
    BY <1>2, HolderKnows
  <2> QED
    BY <1>1, <1>2, <2>1, HalfWayKeeps DEF Crash, Damaged
<1>3. CASE cl[c].pc \notin Locked
  <2>1. lock # c /\ disk \in Disk
    BY <1>3 DEF PluginInv, PluginTyped, Holding
  <2>2. lock' = lock /\ procs' = procs /\ disk' = [disk EXCEPT !.damaged = disk.damaged]
    BY <2>1 DEF Crash
  <2>3. disk' = disk
    BY <2>1, <2>2 DEF Disk
  <2> QED
    BY <1>1, <1>3, <2>2, <2>3, FreeEnds
<1> QED
  BY <1>2, <1>3

-----------------------------------------------------------------------------
(***************************************************************************)
(* The processes.                                                          *)
(***************************************************************************)

LEMMA ProcessesKeep ==
    ASSUME PluginInv, UNCHANGED <<disk, cl, lock>>, procs' \in Procs, Bus', All \subseteq All',
           \A i \in All : /\ procs'.all[i].path = procs.all[i].path
                          /\ procs'.all[i].build = procs.all[i].build
                          /\ procs'.all[i].pid = procs.all[i].pid
                          /\ procs'.all[i].pardon = procs.all[i].pardon
                          /\ \/ State(i)' = State(i)
                             \/ State(i)' = "dead"
                             \/ State(i) = "starting" /\ State(i)' = "running",
           \A i \in All' \ All : Fine(i)'
    PROVE  PluginInv'
<1>1. PluginTyped' /\ Holding'
  BY DEF PluginInv, PluginTyped, Holding
<1>2. Fresh' /\ TornIsDamaged' /\ CanRun(disk.files)' /\ One'
  BY DEF PluginInv, Fresh, TornIsDamaged, CanRun, Whole, One, Gone, Record, Manifest
<1>3. \A i \in Ids : AgreedNow(i) => AgreedNow(i)'
  BY DEF AgreedNow, PluginVenvs
<1>4. Agreement'
  BY <1>3 DEF PluginInv, Agreement
<1>5. \A i \in All : (Fine(i) => Fine(i)') /\ (Alive(i)' => Alive(i))
  BY DEF Fine, State, Alive
<1>6. AllFine => AllFine'
  BY <1>5 DEF AllFine
<1>7. ASSUME NEW b \in Clients, lock = b PROVE (Work(cl[b]) /\ Stops(cl[b]))'
  <2>1. PICK s : s = cl[b]
    OBVIOUS
  <2>2. Work(s) /\ Stops(s)
    BY <1>7, <2>1 DEF PluginInv
  <2>3. Work(s)'
    BY <2>2, WorkStands
  <2>4. Stops(s)'
    <3>1. CASE s.pc \notin Stopping
      BY <1>6, <2>2, <3>1 DEF Stops, Stopping
    <3>2. CASE s.pc \in Stopping
      <4>1. s.own \in All /\ s.own \in All' /\ State(s.own)' \in {"running", "dead"}
        BY <2>2, <3>2 DEF Stops
      <4>2. \A i \in All' \ {s.own} : Fine(i)'
        BY <1>5, <2>2, <3>2 DEF Stops
      <4>3. s.pc \notin Building \cup {"sweep", "owner"}
        BY <3>2 DEF Stopping, Building
      <4> QED
        BY <1>5, <2>2, <3>2, <4>1, <4>2, <4>3 DEF Stops
    <3> QED
      BY <3>1, <3>2
  <2> QED
    BY <2>1, <2>3, <2>4
<1> QED
  BY <1>1, <1>2, <1>4, <1>6, <1>7 DEF PluginInv

LEMMA AppendedProcs ==
    ASSUME PluginTyped, NEW p \in Process, procs' = [procs EXCEPT !.all = Append(@, p)]
    PROVE  /\ procs' \in Procs /\ procs'.owner = procs.owner /\ procs'.wrong = procs.wrong
           /\ \E n \in Nat : /\ n \notin All /\ All' = All \cup {n} /\ procs'.all[n] = p
                             /\ \A i \in All : procs'.all[i] = procs.all[i]
<1>1. procs \in Procs /\ procs.all \in Seq(Process)
  BY DEF PluginTyped, Procs
<1>2. PICK q : q = Append(procs.all, p)
  OBVIOUS
<1>3. procs' = [procs EXCEPT !.all = q] /\ q \in Seq(Process)
  BY <1>1, <1>2
<1>4. procs' \in Procs /\ procs'.owner = procs.owner /\ procs'.wrong = procs.wrong /\ procs'.all = q
  BY <1>1, <1>3 DEF Procs
<1>5. PICK n \in Nat : n = Len(procs.all) + 1
  BY <1>1
<1>6. /\ n \notin DOMAIN procs.all /\ DOMAIN q = DOMAIN procs.all \cup {n} /\ q[n] = p
      /\ \A i \in DOMAIN procs.all : q[i] = procs.all[i]
  BY <1>1, <1>2, <1>5
<1> QED
  BY <1>4, <1>6 DEF All

LEMMA StartedBus ==
    ASSUME PluginTyped, Bus, NEW p \in Process, procs' = [procs EXCEPT !.all = Append(@, p)],
           WithPid(p.pid) = {}, p.state \in {"starting", "other"},
           p.state = "starting" => procs.owner = None /\ \A i \in All : State(i) # "starting"
    PROVE  Bus'
<1>1. /\ procs' \in Procs /\ procs'.owner = procs.owner /\ procs'.wrong = procs.wrong
  BY AppendedProcs
<1>2. PICK n \in Nat : /\ n \notin All /\ All' = All \cup {n} /\ procs'.all[n] = p
                       /\ \A i \in All : procs'.all[i] = procs.all[i]
  BY AppendedProcs
<1>3. \A i \in All : State(i)' = State(i) /\ Alive(i)' = Alive(i)
  BY <1>2 DEF State, Alive
<1>4. State(n)' = p.state /\ \A i \in All : Alive(i) => procs.all[i].pid # p.pid
  BY <1>2 DEF State, WithPid, All
<1>5. procs.owner # n
  BY <1>2, NoneApart DEF Bus
<1>6. (procs.owner # None => procs.owner \in All)'
  BY <1>1, <1>2 DEF Bus
<1>7. (\A i \in All : State(i) = "running" <=> procs.owner = i)'
  <2>1. \A i \in All : State(i)' = "running" <=> procs.owner' = i
    BY <1>1, <1>3 DEF Bus
  <2>2. State(n)' # "running" /\ procs'.owner # n
    BY <1>1, <1>4, <1>5
  <2> QED
    BY <1>1, <1>2, <2>1, <2>2
<1>8. /\ (\A i \in All : State(i) = "starting" => procs.owner = None)'
      /\ (\A i, k \in All : State(i) = "starting" /\ State(k) = "starting" => i = k)'
  BY <1>1, <1>2, <1>3, <1>4 DEF Bus
<1>9. (\A i, k \in All : Alive(i) /\ Alive(k) /\ procs.all[i].pid = procs.all[k].pid => i = k)'
  <2>1. ASSUME NEW i \in All', NEW k \in All', Alive(i)', Alive(k)', i # k
        PROVE  procs'.all[i].pid # procs'.all[k].pid
    <3>1. CASE i \in All /\ k \in All
      BY <1>2, <1>3, <2>1, <3>1 DEF Bus
    <3>2. CASE i = n
      BY <1>2, <1>3, <1>4, <2>1, <3>2
    <3>3. CASE k = n
      BY <1>2, <1>3, <1>4, <2>1, <3>3
    <3> QED
      BY <1>2, <2>1, <3>1, <3>2, <3>3
  <2> QED
    BY <2>1
<1> QED
  BY <1>1, <1>6, <1>7, <1>8, <1>9 DEF Bus

LEMMA StartedKeeps ==
    ASSUME PluginInv, UNCHANGED <<disk, cl, lock>>,
           NEW path \in Environment \cup {None}, NEW build \in Nat \cup {None},
           NEW state \in {"starting", "other"}, NEW pardon \in BOOLEAN,
           Started(path, build, state, pardon),
           state = "starting" =>
               /\ procs.owner = None /\ \A i \in All : State(i) # "starting"
               /\ (~pardon => path.id \notin disk.disabled) /\ \E v \in disk.venvs : v.build = build
    PROVE  PluginInv'
<1>1. PICK pid \in 1 .. 2 :
          /\ WithPid(pid) = {}
          /\ procs' = [procs EXCEPT !.all = Append(@, [path |-> path, build |-> build, pid |-> pid,
                                                      state |-> state, pardon |-> pardon])]
  BY DEF Started
<1>2. PICK p : p = [path |-> path, build |-> build, pid |-> pid, state |-> state, pardon |-> pardon]
  OBVIOUS
<1>3. /\ p \in Process /\ p.pid = pid /\ p.state = state /\ p.path = path /\ p.build = build
      /\ p.pardon = pardon
  BY <1>1, <1>2 DEF Process
<1>4. procs' = [procs EXCEPT !.all = Append(@, p)] /\ PluginTyped /\ Bus
  BY <1>1, <1>2 DEF PluginInv
<1>5. procs' \in Procs
  BY <1>3, <1>4, AppendedProcs
<1>6. PICK n \in Nat : /\ n \notin All /\ All' = All \cup {n} /\ procs'.all[n] = p
                       /\ \A i \in All : procs'.all[i] = procs.all[i]
  BY <1>3, <1>4, AppendedProcs
<1>7. Bus'
  BY <1>1, <1>3, <1>4, StartedBus
<1>8. Fine(n)'
  BY <1>3, <1>6 DEF Fine, State
<1>9. \A i \in All : State(i)' = State(i)
  BY <1>6 DEF State
<1> QED
  BY <1>5, <1>6, <1>7, <1>8, <1>9, ProcessesKeep

LEMMA ActivateKeeps ==
    ASSUME PluginInv, Activate
    PROVE  PluginInv'
<1>1. PICK v \in disk.venvs, pardon \in BOOLEAN :
          /\ Started(v.path, v.build, "starting", pardon)
          /\ ~pardon => v.path.id \notin disk.disabled
  <2>1. PICK v \in disk.venvs : Started(v.path, v.build, "starting", v.path.id \in disk.disabled)
    BY DEF Activate
  <2>2. PICK b : b = (v.path.id \in disk.disabled)
    OBVIOUS
  <2>3. Started(v.path, v.build, "starting", b)
    BY <2>1, <2>2, Zenon
  <2>4. b \in BOOLEAN
    BY <2>2
  <2>5. ~b => v.path.id \notin disk.disabled
    BY <2>2, Zenon
  <2> QED
    BY <2>3, <2>4, <2>5, Zenon
<1>2. v \in Venv
  BY DiskFields DEF PluginInv
<1>3. v.path \in Environment /\ v.build \in Nat
  BY <1>2 DEF Venv
<1>4. /\ UNCHANGED <<disk, cl, lock>> /\ procs.owner = None
      /\ \A i \in All : State(i) # "starting"
  BY DEF Activate, All, State
<1> QED
  BY <1>1, <1>3, <1>4, StartedKeeps

LEMMA StrangerKeeps ==
    ASSUME PluginInv, Stranger
    PROVE  PluginInv'
<1>1. UNCHANGED <<disk, cl, lock>> /\ Started(None, None, "other", FALSE)
  BY DEF Stranger
<1> QED
  BY <1>1, StartedKeeps

\* A process goes on to another state; the owner of the name may change with it.
LEMMA StateChange ==
    ASSUME PluginTyped, NEW i \in All, NEW x \in {"running", "dead"},
           NEW o \in Nat \cup {None}, procs' = [procs EXCEPT !.all[i].state = x, !.owner = o]
    PROVE  /\ procs' \in Procs /\ procs'.owner = o /\ procs'.wrong = procs.wrong /\ All' = All
           /\ State(i)' = x /\ \A k \in All : k # i => State(k)' = State(k)
           /\ \A k \in All : /\ procs'.all[k].path = procs.all[k].path
                             /\ procs'.all[k].build = procs.all[k].build
                             /\ procs'.all[k].pid = procs.all[k].pid
                             /\ procs'.all[k].pardon = procs.all[k].pardon
<1>1. procs \in Procs /\ procs.all \in Seq(Process) /\ \A k \in All : procs.all[k] \in Process
  BY DEF PluginTyped, Procs, All
<1>2. PICK p : p = [procs.all[i] EXCEPT !.state = x]
  OBVIOUS
<1>3. /\ p \in Process /\ p.state = x /\ p.path = procs.all[i].path /\ p.build = procs.all[i].build
      /\ p.pid = procs.all[i].pid /\ p.pardon = procs.all[i].pardon
  BY <1>1, <1>2 DEF Process
<1>4. PICK q : q = [procs.all EXCEPT ![i] = p]
  OBVIOUS
<1>5. /\ q \in Seq(Process) /\ DOMAIN q = All /\ q[i] = p
      /\ \A k \in All : k # i => q[k] = procs.all[k]
  BY <1>1, <1>3, <1>4 DEF All
<1>6. procs' = [procs EXCEPT !.all = q, !.owner = o]
  BY <1>2, <1>4
<1>7. procs' \in Procs /\ procs'.all = q /\ procs'.owner = o /\ procs'.wrong = procs.wrong
  BY <1>1, <1>5, <1>6 DEF Procs
<1> QED
  BY <1>3, <1>5, <1>7 DEF All, State

LEMMA TakeNameKeeps ==
    ASSUME PluginInv, TakeName
    PROVE  PluginInv'
<1>1. PICK i \in All : /\ State(i) = "starting"
                       /\ procs' = [procs EXCEPT !.all[i].state = "running", !.owner = i]
  BY DEF TakeName, All, State
<1>2. UNCHANGED <<disk, cl, lock>> /\ PluginTyped /\ Bus /\ i \in Nat
  BY DEF TakeName, PluginInv, PluginTyped, Procs, All
<1>3. /\ procs' \in Procs /\ procs'.owner = i /\ procs'.wrong = procs.wrong /\ All' = All
      /\ State(i)' = "running" /\ \A k \in All : k # i => State(k)' = State(k)
      /\ \A k \in All : /\ procs'.all[k].path = procs.all[k].path
                        /\ procs'.all[k].build = procs.all[k].build
                        /\ procs'.all[k].pid = procs.all[k].pid
                        /\ procs'.all[k].pardon = procs.all[k].pardon
  BY <1>1, <1>2, StateChange
<1>4. \A k \in All : k # i => State(k) \notin {"starting", "running"}
  <2>1. \A k \in All : k \in Nat
    BY DEF PluginInv, PluginTyped, Procs, All
  <2>2. procs.owner = None
    BY <1>1, <1>2 DEF Bus
  <2> QED
    BY <1>1, <1>2, <2>1, <2>2, NoneApart DEF Bus
<1>5. \A k \in All : Alive(k)' = Alive(k)
  BY <1>1, <1>3 DEF Alive, State
<1>6. Bus'
  <2>1. (\A k \in All : State(k) = "running" <=> procs.owner = k)'
    BY <1>3, <1>4
  <2>2. (\A k \in All : State(k) # "starting")'
    BY <1>3, <1>4
  <2>3. (\A j, k \in All : Alive(j) /\ Alive(k) /\ procs.all[j].pid = procs.all[k].pid => j = k)'
    <3>1. \A j, k \in All : Alive(j) /\ Alive(k) /\ procs.all[j].pid = procs.all[k].pid => j = k
      BY <1>2 DEF Bus
    <3> QED
      BY <1>3, <1>5, <3>1
  <2> QED
    BY <1>2, <1>3, <2>1, <2>2, <2>3 DEF Bus
<1>7. \A k \in All : \/ State(k)' = State(k)
                     \/ State(k)' = "dead"
                     \/ State(k) = "starting" /\ State(k)' = "running"
  BY <1>1, <1>3
<1> QED
  BY <1>2, <1>3, <1>6, <1>7, ProcessesKeep

LEMMA ExitKeeps ==
    ASSUME PluginInv, Exit
    PROVE  PluginInv'
<1>1. PICK i \in All :
          procs' = [procs EXCEPT !.all[i].state = "dead", !.owner = IF @ = i THEN None ELSE @]
  BY DEF Exit, All
<1>2. PICK o : o = IF procs.owner = i THEN None ELSE procs.owner
  OBVIOUS
<1>3. UNCHANGED <<disk, cl, lock>> /\ PluginTyped /\ Bus /\ o \in Nat \cup {None}
  BY <1>2 DEF Exit, PluginInv, PluginTyped, Procs
<1>4. procs' = [procs EXCEPT !.all[i].state = "dead", !.owner = o]
  BY <1>1, <1>2
<1>5. /\ procs' \in Procs /\ procs'.owner = o /\ procs'.wrong = procs.wrong /\ All' = All
      /\ State(i)' = "dead" /\ \A k \in All : k # i => State(k)' = State(k)
      /\ \A k \in All : /\ procs'.all[k].path = procs.all[k].path
                        /\ procs'.all[k].build = procs.all[k].build
                        /\ procs'.all[k].pid = procs.all[k].pid
                        /\ procs'.all[k].pardon = procs.all[k].pardon
  BY <1>3, <1>4, StateChange
<1>6. \A k \in All : Alive(k)' => Alive(k) /\ k # i
  BY <1>5 DEF Alive, State
<1>7. Bus'
  <2>1. \A k \in All : k # None
    BY <1>3, NoneApart DEF PluginTyped, Procs, All
  <2>2. (\A k \in All : State(k) = "running" <=> procs.owner = k)'
    BY <1>2, <1>3, <1>5, <2>1 DEF Bus
  <2>3. /\ (procs.owner # None => procs.owner \in All)'
        /\ (\A k \in All : State(k) = "starting" => procs.owner = None)'
        /\ (\A j, k \in All : State(j) = "starting" /\ State(k) = "starting" => j = k)'
    BY <1>2, <1>3, <1>5 DEF Bus
  <2>4. (\A j, k \in All : Alive(j) /\ Alive(k) /\ procs.all[j].pid = procs.all[k].pid => j = k)'
    BY <1>3, <1>5, <1>6 DEF Bus
  <2> QED
    BY <1>3, <1>5, <2>2, <2>3, <2>4 DEF Bus
<1>8. \A k \in All : State(k)' = State(k) \/ State(k)' = "dead"
  BY <1>5
<1> QED
  BY <1>3, <1>5, <1>7, <1>8, ProcessesKeep

-----------------------------------------------------------------------------
(***************************************************************************)
(* The theorem.                                                            *)
(***************************************************************************)

LEMMA PluginStep ==
    ASSUME PluginInv, Next
    PROVE  PluginInv'
<1>1. ASSUME NEW c \in Clients, ClientStep(c) PROVE PluginInv'
  BY <1>1, BeginKeeps, PrepareKeeps, AnswerKeeps, CommitKeeps, AsideKeeps, PlaceKeeps, BuildKeeps,
     PublishManifestKeeps, PublishServiceKeeps, SaveRecordKeeps, FailsKeeps, UnrecordKeeps,
     UnserviceKeeps, UnmanifestKeeps, RemoveBuildKeeps, RemoveTargetKeeps, PutBackKeeps, SweepKeeps,
     RemoveKeeps, RemoveManifestKeeps, RemoveServiceKeeps, RemoveVenvsKeeps, RemoveRecordKeeps,
     ReenableKeeps, RemovalFailsKeeps, SetEnabledKeeps, StopOwnerKeeps, StopPidKeeps, RunsFromKeeps,
     OpenPidfdKeeps, RecheckKeeps, TerminateKeeps, WaitKeeps, AsideFailsKeeps, BackupStaysKeeps,
     RestoreFailsKeeps, BuildStaysKeeps, TargetStaysKeeps, OldStaysKeeps, SettingsFailKeeps
     DEF ClientStep
<1> QED
  BY <1>1, CrashKeeps, ActivateKeeps, TakeNameKeeps, ExitKeeps, StrangerKeeps DEF Next

LEMMA PluginStutter ==
    ASSUME PluginInv, UNCHANGED pluginVars
    PROVE  PluginInv'
<1>1. UNCHANGED <<disk, cl, lock, procs>>
  BY DEF pluginVars
<1>2. procs' \in Procs /\ Bus'
  BY <1>1 DEF PluginInv, PluginTyped, Bus, All, State, Alive
<1>3. All' = All /\ \A i \in All : State(i)' = State(i)
  BY <1>1 DEF All, State
<1> QED
  BY <1>1, <1>2, <1>3, ProcessesKeep

LEMMA PluginInit ==
    ASSUME Init
    PROVE  PluginInv
<1>1. PICK plan \in Plans :
          LET d == IF plan.installed THEN Installed("p") ELSE Empty
          IN  /\ disk = [files |-> d.files, src |-> d.src, venvs |-> d.venvs, disabled |-> {},
                         head |-> plan.head, built |-> 1, damaged |-> {}, torn |-> {}]
              /\ cl = [c \in Clients |-> Resting(plan.ops[c])]
  BY DEF Init
<1>2. lock = None /\ procs = [all |-> <<>>, owner |-> None, wrong |-> FALSE]
  BY DEF Init
<1>3. plan.head \in Nat /\ plan.ops \in [Clients -> Seq(Command)]
  BY PluginAssumption DEF Command, Ops
<1>4. PICK v \in Environment : v = Path("p", 1, 0)
  BY DEF Environment, Path, Ids
<1>5. v.id = "p" /\ v.commit = 1 /\ v.extra = 0 /\ v # None
  BY <1>4, NoneApart DEF Path
<1>6. PICK rec \in InstallRecord : rec = [venv |-> v, at |-> 0] /\ rec.venv = v /\ rec # None
  <2>1. PICK rec : rec = [venv |-> v, at |-> 0]
    OBVIOUS
  <2>2. v \in Environment
    BY <1>4
  <2> HIDE <1>4
  <2>3. rec \in InstallRecord /\ rec.venv = v
    BY <2>1, <2>2 DEF InstallRecord
  <2> QED
    BY <2>1, <2>3, NoneApart
<1>7. PICK w \in Venv : w = [path |-> v, build |-> 0, whole |-> TRUE] /\ w.path = v /\ w.whole
  <2>1. PICK w : w = [path |-> v, build |-> 0, whole |-> TRUE]
    OBVIOUS
  <2>2. v \in Environment
    BY <1>4
  <2> HIDE <1>4
  <2>3. w \in Venv /\ w.path = v /\ w.whole
    BY <2>1, <2>2 DEF Venv
  <2> QED
    BY <2>1, <2>3
<1>8. disk.built = 1 /\ disk.head = plan.head /\ disk.disabled = {} /\ disk.damaged = {}
  BY <1>1
<1>9. \/ /\ disk.venvs = {} /\ disk.files = Nothing /\ disk.src = [i \in Ids |-> None]
      \/ /\ disk.venvs = {w} /\ disk.src = [i \in Ids |-> IF i = "p" THEN 1 ELSE None]
         /\ disk.files = [manifest |-> [Nothing.manifest EXCEPT !["p"] = v], service |-> v,
                          record |-> [Nothing.record EXCEPT !["p"] = rec]]
  BY <1>1, <1>4, <1>6, <1>7 DEF Installed, Empty
<1>10. /\ DOMAIN disk.files.manifest = Ids /\ DOMAIN disk.files.record = Ids
       /\ \/ /\ disk.venvs = {} /\ disk.files.service = None
             /\ \A i \in Ids : /\ disk.files.manifest[i] = None /\ disk.files.record[i] = None
                               /\ disk.src[i] = None
          \/ /\ disk.venvs = {w} /\ disk.files.service = v
             /\ \A i \in Ids \ {"p"} : disk.files.manifest[i] = None /\ disk.files.record[i] = None
             /\ disk.files.manifest["p"] = v /\ disk.files.record["p"] = rec /\ disk.src["p"] = 1
  BY <1>9 DEF Nothing, Ids
<1>11. disk.files \in Files /\ disk.src \in [Ids -> Nat \cup {None}] /\ disk.venvs \in SUBSET Venv
  <2>1. CASE disk.files = Nothing /\ disk.venvs = {} /\ disk.src = [i \in Ids |-> None]
    BY <2>1 DEF Nothing, Files
  <2>2. CASE /\ disk.venvs = {w} /\ disk.src = [i \in Ids |-> IF i = "p" THEN 1 ELSE None]
             /\ disk.files = [manifest |-> [Nothing.manifest EXCEPT !["p"] = v], service |-> v,
                              record |-> [Nothing.record EXCEPT !["p"] = rec]]
    <3>1. /\ [Nothing.manifest EXCEPT !["p"] = v] \in [Ids -> Environment \cup {None}]
          /\ [Nothing.record EXCEPT !["p"] = rec] \in [Ids -> InstallRecord \cup {None}]
      BY DEF Nothing, Ids
    <3> QED
      BY <2>2, <3>1 DEF Files
  <2> QED
    BY <1>9, <2>1, <2>2
<1>12. PICK f \in Files, sr \in [Ids -> Nat \cup {None}], vs \in SUBSET Venv :
           disk = [files |-> f, src |-> sr, venvs |-> vs, disabled |-> {}, head |-> plan.head,
                   built |-> 1, damaged |-> {}, torn |-> {}]
  <2>1. PICK f, sr, vs : disk = [files |-> f, src |-> sr, venvs |-> vs, disabled |-> {},
                                 head |-> plan.head, built |-> 1, damaged |-> {}, torn |-> {}]
    BY <1>1
  <2>2. f = disk.files /\ sr = disk.src /\ vs = disk.venvs
    BY <2>1
  <2> QED
    BY <1>11, <2>1, <2>2
<1>13. disk \in Disk
  BY <1>3, <1>12 DEF Disk
<1>14. /\ cl \in [Clients -> Client]
       /\ \A c \in Clients : cl[c].pc = "idle" /\ cl[c].venv = None /\ cl[c].kept = {}
  <2>1. \A c \in Clients : plan.ops[c] \in Seq(Command) /\ cl[c] = Resting(plan.ops[c])
    BY <1>1, <1>3
  <2>2. \A q \in Seq(Command) : /\ Resting(q) \in Client /\ Resting(q).pc = "idle"
                                /\ Resting(q).venv = None /\ Resting(q).kept = {}
    BY DEF Resting, Client, Waiting
  <2>3. cl = [c \in Clients |-> Resting(plan.ops[c])]
    BY <1>1
  <2> QED
    BY <2>1, <2>2, <2>3
<1>15. procs \in Procs /\ All = {} /\ procs.owner = None /\ procs.wrong = FALSE
  BY <1>2 DEF Procs, All
<1>16. PluginTyped /\ Holding
  <2>1. "idle" \notin Locked /\ None \notin Clients
    BY WaitingIsFree, NoneApart DEF Waiting
  <2>2. \A c \in Clients : Named(cl[c])
    BY <1>14 DEF Named, Building, Removing
  <2> QED
    BY <1>2, <1>13, <1>14, <1>15, <2>1, <2>2 DEF PluginTyped, Holding
<1>17. Fresh /\ TornIsDamaged /\ One
  BY <1>5, <1>7, <1>8, <1>10, <1>12 DEF Fresh, TornIsDamaged, One, Gone, Record, Manifest, Ids
<1>18. CanRun(disk.files)
  BY <1>5, <1>6, <1>7, <1>10 DEF CanRun, Whole, Ids
<1>19. Agreement
  <2>1. ASSUME NEW i \in Ids PROVE AgreedNow(i)
    <3>1. CASE disk.venvs = {}
      <4>1. PluginVenvs(i) = {}
        BY <3>1 DEF PluginVenvs
      <4> QED
        BY <1>10, <3>1, <4>1 DEF AgreedNow, Agreed
    <3>2. CASE disk.venvs = {w} /\ i = "p"
      <4>1. PluginVenvs(i) = {v}
        BY <1>5, <1>7, <3>2 DEF PluginVenvs
      <4> QED
        BY <1>5, <1>6, <1>10, <3>2, <4>1 DEF AgreedNow, Agreed
    <3>3. CASE disk.venvs = {w} /\ i # "p"
      <4>1. PluginVenvs(i) = {}
        BY <1>5, <1>7, <3>3 DEF PluginVenvs
      <4> QED
        BY <1>5, <1>10, <3>3, <4>1 DEF AgreedNow, Agreed
    <3> QED
      BY <1>10, <3>1, <3>2, <3>3
  <2> QED
    BY <2>1 DEF Agreement
<1>20. Bus /\ AllFine
  BY <1>15 DEF Bus, AllFine
<1> QED
  BY <1>2, <1>16, <1>17, <1>18, <1>19, <1>20, NoneApart DEF PluginInv

LEMMA PluginSafe ==
    ASSUME PluginInv
    PROVE  Runnable /\ OneName /\ Agree /\ OldCodeGone
<1>1. Runnable
  BY DEF PluginInv, CanRun, Whole, Runnable
<1>2. OneName
  <2>1. PICK S : S = {i \in Ids : Record(i) # None \/ disk.files.manifest[i] # None}
    OBVIOUS
  <2>2. \A i, k \in S : i = k
    BY <2>1 DEF PluginInv, One, Gone, Manifest
  <2>3. CASE S = {}
    BY <2>1, <2>3, FS_EmptySet DEF OneName
  <2>4. CASE S # {}
    <3>1. PICK x : S = {x}
      BY <2>2, <2>4
    <3>2. Cardinality({x}) = 1
      BY FS_Singleton
    <3>3. Cardinality(S) <= 1
      BY <3>1, <3>2
    <3> QED
      BY <2>1, <3>3 DEF OneName
  <2> QED
    BY <2>3, <2>4
<1>3. Agree
  <2> SUFFICES ASSUME lock = None, NEW i \in Ids \ disk.damaged PROVE AgreedNow(i)
    BY DEF Agree, AgreedNow, Agreed, Record
  <2> QED
    BY TakerKnows
<1>4. OldCodeGone
  <2>1. ~procs.wrong
    BY DEF PluginInv, Bus
  <2>2. ASSUME lock = None, NEW i \in All, procs.all[i].state = "running", ~procs.all[i].pardon
        PROVE  /\ procs.all[i].path.id \notin disk.disabled
               /\ \E v \in disk.venvs : v.build = procs.all[i].build
    BY <2>2, TakerKnows DEF AllFine, Fine, State
  <2> QED
    BY <2>1, <2>2 DEF OldCodeGone, All
<1> QED
  BY <1>1, <1>2, <1>3, <1>4

\* Whatever two clients install, update, disable and remove at once, and wherever a step of
\* one of them fails or it is killed: what is published can be run, except of a plugin that is
\* torn, because undoing a failed commit() failed too, or its backups could not be removed; no
\* two plugins have one bus name; between operations the files of every plugin agree that is
\* not damaged, which is one that a failing move, removal or restoration or a killed client
\* left half changed, until its next change succeeds; and no replaced or disabled code runs but
\* what is excused: what an operation said it could not stop or failed before stopping, what
\* had not taken its name, and what was called while disabled (plugin_manager.py,
\* plugin_stopper.py).
THEOREM PluginsStaySound == ClientsSpec => []PluginsSound
<1> DEFINE Inv == Is("plugins") => PluginInv
<1>1. ClientsInit => Inv
  BY PluginInit DEF ClientsInit, Is
<1>2. Inv /\ [ClientsNext]_clientsVars => Inv'
  <2> SUFFICES ASSUME Inv, [ClientsNext]_clientsVars, Is("plugins")' PROVE PluginInv'
    OBVIOUS
  <2>1. Is("plugins") /\ PluginInv
    BY DEF ClientsNext, clientsVars, Is
  <2>2. CASE ClientsNext
    <3>1. Next
      BY <2>1, <2>2 DEF ClientsNext, Is
    <3> QED
      BY <2>1, <3>1, PluginStep
  <2>3. CASE UNCHANGED clientsVars
    BY <2>1, <2>3, PluginStutter DEF clientsVars, pluginVars
  <2> QED
    BY <2>2, <2>3
<1>3. Inv => PluginsSound
  BY PluginSafe DEF PluginsSound
<1> QED
  BY <1>1, <1>2, <1>3, PTL DEF ClientsSpec

-----------------------------------------------------------------------------
(***************************************************************************)
(* The GTK client and the Qt client.                                       *)
(***************************************************************************)

\* While the GTK client runs, the run's behaviour is one of its module.
LEMMA GtkRuns == ClientsSpec /\ Is("gtk") => Gtk!SafetySpec /\ []Is("gtk")
  <1> DEFINE On == Is("gtk")
  <1>1. ClientsInit /\ On => Gtk!Init
    BY DEF ClientsInit, Is
  <1>2. On /\ [ClientsNext]_clientsVars => [Gtk!Next]_Gtk!gtkVars /\ On'
    BY DEF ClientsNext, clientsVars, Is, Gtk!gtkVars
  <1> HIDE DEF On
  <1>3. ClientsSpec /\ On => []On /\ [][Gtk!Next]_Gtk!gtkVars
    BY <1>2, PTL DEF ClientsSpec
  <1>4. ClientsSpec /\ On => Gtk!SafetySpec /\ []On
    BY <1>1, <1>3, PTL DEF ClientsSpec, Gtk!SafetySpec
  <1> QED BY <1>4 DEF On

\* The same of the Qt client.
LEMMA QtRuns == ClientsSpec /\ Is("qt") => Qt!SafetySpec /\ []Is("qt")
  <1> DEFINE On == Is("qt")
  <1>1. ClientsInit /\ On => Qt!Init
    BY DEF ClientsInit, Is
  <1>2. On /\ [ClientsNext]_clientsVars => [Qt!Next]_Qt!clientVars /\ On'
    BY DEF ClientsNext, clientsVars, Is, Qt!clientVars
  <1> HIDE DEF On
  <1>3. ClientsSpec /\ On => []On /\ [][Qt!Next]_Qt!clientVars
    BY <1>2, PTL DEF ClientsSpec
  <1>4. ClientsSpec /\ On => Qt!SafetySpec /\ []On
    BY <1>1, <1>3, PTL DEF ClientsSpec, Qt!SafetySpec
  <1> QED BY <1>4 DEF On

\* Which client runs does not change.
LEMMA OtherRuns ==
    /\ ClientsSpec /\ ~Is("gtk") => []~Is("gtk")
    /\ ClientsSpec /\ ~Is("qt") => []~Is("qt")
  <1> DEFINE G == Is("gtk")
             Q == Is("qt")
  <1>1. [ClientsNext]_clientsVars => (G' <=> G) /\ (Q' <=> Q)
    BY DEF ClientsNext, clientsVars, Is
  <1> HIDE DEF G, Q
  <1>2. (ClientsSpec /\ ~G => []~G) /\ (ClientsSpec /\ ~Q => []~Q)
    BY <1>1, PTL DEF ClientsSpec
  <1> QED BY <1>2 DEF G, Q

\* While the GTK client runs, a switch shows the choice that the daemon carried out, whatever
\* settings were read before it, until somebody changes it or the save of any switch fails
\* (which shows all of them from the last status again), and the rules shown are no older than
\* the revision acknowledged (SavedChoice.resolve(), NotificationRules).
THEOREM ChoicesStand == ClientsSpec => []SavedChoiceStands
  <1>1. Gtk!SafetySpec => []Gtk!ChoiceStands
    BY Gtk!GtkChoiceStands, ClientsAssumption DEF Gtk!NoneIsNew
  <1>2. (Is("gtk") => Gtk!ChoiceStands) => SavedChoiceStands
    BY DEF SavedChoiceStands
  <1> QED BY <1>1, <1>2, GtkRuns, OtherRuns, PTL

\* While the Qt client runs, tones reach the daemon in the order they were pressed, once, and
\* only for the call that was on screen when they were pressed (KeypadTones).
THEOREM TonesArrive == ClientsSpec => []TonesReachTheirCall
  <1>1. Qt!SafetySpec => []Qt!TonesAsPressed
    BY Qt!QtTones, ClientsAssumption, PluginAssumption DEF Qt!NoneIsNew
  <1>2. (Is("qt") => Qt!TonesAsPressed) => TonesReachTheirCall
    BY DEF TonesReachTheirCall
  <1> QED BY <1>1, <1>2, QtRuns, OtherRuns, PTL

\* What a view of either client may no longer show is gone, and no answer that was on its way
\* brings it back: a closed page, a locked storage, another epoch of the contacts, photos
\* switched off, an older search, another phone (BridgeController and its models, CoalescedRead,
\* PhoneCard, CallsPage and RunningCalls).
THEOREM WithdrawnStaysGone == ClientsSpec => []ViewsForget
  <1>1. Qt!SafetySpec => []Qt!Forgets
    BY Qt!QtForgets, ClientsAssumption, PluginAssumption DEF Qt!NoneIsNew
  <1>2. Gtk!SafetySpec => []Gtk!Forgets
    BY Gtk!GtkForgets, ClientsAssumption DEF Gtk!NoneIsNew
  <1>3. (Is("qt") => Qt!Forgets) /\ (Is("gtk") => Gtk!Forgets) => ViewsForget
    BY DEF ViewsForget
  <1> QED BY <1>1, <1>2, <1>3, QtRuns, GtkRuns, OtherRuns, PTL

=============================================================================
