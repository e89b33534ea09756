---------------------------- MODULE PluginManager ----------------------------
(***************************************************************************)
(* Installing, updating, disabling and removing plugins                    *)
(* (src/src/blueferry/plugin_manager.py, plugin_stopper.py, and the        *)
(* commands of cli_plugins.py that call them).                             *)
(*                                                                         *)
(* Several clients change the same directory, one at a time under a file   *)
(* lock; each of them may be killed between any two changes of the disk.   *)
(* Every change may fail, those that undo another too: most raise, and     *)
(* rmtree(ignore_errors=True) leaves the directory and says nothing.  A    *)
(* plugin's process is started by D-Bus from the service file, and goes on *)
(* when the code it runs is deleted.                                       *)
(***************************************************************************)
EXTENDS Naturals, Sequences, FiniteSets

CONSTANTS
    Plans,          \* what the clients do, what is installed, and what goes wrong
    MaxProcs,       \* processes started
    None

VARIABLES
    disk,           \* the plugins' directory, the service file and the settings
    cl,             \* the clients
    lock,           \* which client holds plugins/.lock
    procs,          \* processes ever started, and who owns the bus name
    left            \* how many failures and crashes are left

pluginVars == <<disk, cl, lock, procs, left>>

\* Two plugins whose names make the same bus name.
Ids == {"p", "q"}
Clients == {"a", "b"}

\* None is nothing else; a plan has commands, and there is a first commit.
ASSUME PluginAssumption ==
    /\ None \notin Ids \cup Clients /\ None \notin Nat
    /\ None \notin [id : Ids, commit : Nat, extra : Nat]
    /\ None \notin [venv : [id : Ids, commit : Nat, extra : Nat], at : Nat]
    /\ \A plan \in Plans :
           /\ plan.head \in Nat
           /\ plan.ops \in [Clients ->
                 Seq([op : {"install", "update", "remove", "enable", "disable"}, id : Ids])]

Use(k) == left[k] > 0 /\ left' = [left EXCEPT ![k] = @ - 1]

\* What has been published: the manifest and the record of each plugin, and the service file.
Nothing == [manifest |-> [i \in Ids |-> None], service |-> None, record |-> [i \in Ids |-> None]]

\* A virtual environment is a path, which tells plugin and commit, and what was built there.
Path(id, commit, extra) == [id |-> id, commit |-> commit, extra |-> extra]

Installed(id) ==
    LET v == Path(id, 1, 0)
    IN [files |-> [manifest |-> [Nothing.manifest EXCEPT ![id] = v], service |-> v,
                   record |-> [Nothing.record EXCEPT ![id] = [venv |-> v, at |-> 0]]],
        src |-> [i \in Ids |-> IF i = id THEN 1 ELSE None],
        venvs |-> {[path |-> v, build |-> 0, whole |-> TRUE]}]

Empty == [files |-> Nothing, src |-> [i \in Ids |-> None], venvs |-> {}]

Resting(plan) ==
    [pc |-> "idle", plan |-> plan, op |-> None, id |-> None, commit |-> None, previous |-> None,
     before |-> None, aside |-> None, venv |-> None, roots |-> {}, kept |-> {}, own |-> None,
     pid |-> None, fd |-> None]

\* damaged: plugins left half changed; torn: those of them whose files could not be put back
\* after a commit that failed, or whose backups could not be removed after one that did not.
Init ==
    /\ \E plan \in Plans :
           LET d == IF plan.installed THEN Installed("p") ELSE Empty
           IN /\ disk = [files |-> d.files, src |-> d.src, venvs |-> d.venvs, disabled |-> {},
                         head |-> plan.head, built |-> 1, damaged |-> {}, torn |-> {}]
              /\ cl = [c \in Clients |-> Resting(plan.ops[c])]
              /\ left = [fail |-> plan.fail, crash |-> plan.crash, strangers |-> plan.strangers]
    /\ lock = None
    /\ procs = [all |-> <<>>, owner |-> None, wrong |-> FALSE]

-----------------------------------------------------------------------------
At(c, pc) == cl[c].pc = pc
To(c, pc) == cl' = [cl EXCEPT ![c].pc = pc]
Ends(c) == cl' = [cl EXCEPT ![c] = Resting(@.plan)]
Steps(c, pc) == At(c, pc) /\ UNCHANGED <<lock, procs, left>>
Damaged(d, id) == [d EXCEPT !.damaged = @ \cup {id}]
Torn(d, id) == [d EXCEPT !.damaged = @ \cup {id}, !.torn = @ \cup {id}]

\* A change that succeeds mends the plugin, but for what it could not remove.
Mended(d, s) ==
    [d EXCEPT !.damaged = IF s.kept = {} THEN @ \ {s.id} ELSE @, !.torn = @ \ {s.id}]

\* rmtree(ignore_errors=True) that fails removes a part of an environment.
HalfRemoved(venvs, path) == {IF v.path = path THEN [v EXCEPT !.whole = FALSE] ELSE v : v \in venvs}

\* An InstallRecord: which environment, and when it was installed.
Record(id) == disk.files.record[id]
RecordVenv(id) == IF Record(id) = None THEN {} ELSE {Record(id).venv}
PluginVenvs(id) == {v.path : v \in {w \in disk.venvs : w.path.id = id}}

\* _check_bus_name(): the records, and the manifests that can be discovered.
BusNameFree(id) == \A i \in Ids \ {id} : Record(i) = None /\ disk.files.manifest[i] = None

Alive(i) == procs.all[i].state # "dead"
WithPid(pid) == {i \in DOMAIN procs.all : Alive(i) /\ procs.all[i].pid = pid}

\* Processes that took no name before the question was asked, or that an operation says it
\* could not stop, or that a failed or killed one did not come to stop.
Pardoned(ok) ==
    LET excused(p) == [p EXCEPT !.pardon = p.pardon \/ ~ok \/ p.state = "starting"]
    IN [procs EXCEPT !.all = [i \in DOMAIN procs.all |-> excused(procs.all[i])]]

(***************************************************************************)
(* prepare() and the confirmation.                                         *)
(***************************************************************************)

\* The next command; update looks first whether there is anything newer, without the lock.
Begin(c) ==
    /\ Steps(c, "idle") /\ cl[c].plan # <<>>
    /\ LET o == Head(cl[c].plan)
           s == [Resting(Tail(cl[c].plan)) EXCEPT !.op = o.op, !.id = o.id]
           idle == Resting(Tail(cl[c].plan))
       IN CASE o.op = "install" -> \E n \in 1 .. disk.head :
                   cl' = [cl EXCEPT ![c] = [s EXCEPT !.pc = "prepare", !.commit = n]]
            [] o.op = "update" ->
                   cl' = [cl EXCEPT ![c] = IF Record(o.id) = None \/ Record(o.id).venv.commit = disk.head
                                           THEN idle
                                           ELSE [s EXCEPT !.pc = "prepare", !.commit = disk.head]]
            [] OTHER -> cl' = [cl EXCEPT ![c] = [s EXCEPT !.pc = o.op]]
    /\ UNCHANGED disk

\* Under the lock for the whole of it; nothing but the checkout is written.
Prepare(c) ==
    /\ Steps(c, "prepare") /\ lock = None
    /\ IF BusNameFree(cl[c].id)
       THEN cl' = [cl EXCEPT ![c].pc = "ask", ![c].previous = Record(cl[c].id)]
       ELSE Ends(c)
    /\ UNCHANGED disk

\* discard(), or confirmed
Answer(c) == Steps(c, "ask") /\ (To(c, "commit") \/ Ends(c)) /\ UNCHANGED disk

\* _locked(): the wait for another client's change is bounded.
GiveUp(c) ==
    /\ cl[c].pc \in {"prepare", "commit", "remove", "disable", "enable"} /\ lock # None
    /\ Ends(c) /\ UNCHANGED <<disk, lock, procs, left>>

-----------------------------------------------------------------------------
(***************************************************************************)
(* commit().                                                               *)
(***************************************************************************)

\* A variant of Unchanged: the check made while preparing is thought to be enough.
UnchangedSincePrepare(c) == TRUE

Unchanged(c) == Record(cl[c].id) = cl[c].previous /\ BusNameFree(cl[c].id)

Commit(c) ==
    /\ At(c, "commit") /\ lock = None /\ UNCHANGED <<disk, procs, left>>
    /\ IF Unchanged(c)
       THEN /\ lock' = c
            /\ cl' = [cl EXCEPT ![c].pc = "aside", ![c].before = disk.files,
                                ![c].roots = PluginVenvs(cl[c].id) \cup RecordVenv(cl[c].id)]
       ELSE Ends(c) /\ UNCHANGED lock

\* The old checkout is moved aside, the new one takes its place.
Aside(c) ==
    /\ Steps(c, "aside")
    /\ cl' = [cl EXCEPT ![c].pc = "place", ![c].aside = disk.src[cl[c].id]]
    /\ disk' = [disk EXCEPT !.src[cl[c].id] = None]

\* _new_venv_path(): a path that does not exist
NewVenvPath(id, commit) ==
    LET base == Path(id, commit, 0)
    IN IF base \in PluginVenvs(id) THEN Path(id, commit, disk.built) ELSE base

\* Neither move is in a try: the checkout that was moved aside stays there.
AsideFails(c) ==
    /\ At(c, "aside") /\ Use("fail")
    /\ Ends(c) /\ lock' = None /\ procs' = Pardoned(FALSE) /\ UNCHANGED disk

PlaceFails(c) ==
    /\ At(c, "place") /\ Use("fail")
    /\ Ends(c) /\ lock' = None /\ procs' = Pardoned(FALSE) /\ disk' = Damaged(disk, cl[c].id)

Place(c) ==
    /\ Steps(c, "place")
    /\ LET s == cl[c]
           v == NewVenvPath(s.id, s.commit)
       IN /\ cl' = [cl EXCEPT ![c].pc = "build", ![c].venv = v]
          /\ disk' = [disk EXCEPT !.src[s.id] = s.commit, !.built = @ + 1,
                                  !.venvs = @ \cup {[path |-> v, build |-> disk.built, whole |-> FALSE]}]

\* venv, pip and the check of what they installed
Build(c) ==
    /\ Steps(c, "build") /\ To(c, "manifest")
    /\ disk' = [disk EXCEPT !.venvs = {IF v.path = cl[c].venv THEN [v EXCEPT !.whole = TRUE] ELSE v : v \in @}]

PublishManifest(c) ==
    /\ Steps(c, "manifest") /\ To(c, "service")
    /\ disk' = [disk EXCEPT !.files.manifest[cl[c].id] = cl[c].venv]

PublishService(c) ==
    /\ Steps(c, "service") /\ To(c, "record")
    /\ disk' = [disk EXCEPT !.files.service = cl[c].venv]

\* _save_records(): from here on the installation counts.
SaveRecord(c) ==
    /\ Steps(c, "record") /\ To(c, "sweep")
    /\ disk' = [disk EXCEPT !.files.record[cl[c].id] = [venv |-> cl[c].venv, at |-> disk.built]]

\* A step of commit()'s try fails: a file that was not yet written, or before anything was.
Fails(c) ==
    /\ cl[c].pc \in {"build", "manifest", "service", "record"} /\ Use("fail")
    /\ To(c, IF At(c, "build") THEN "rmvenv" ELSE "unrecord")
    /\ UNCHANGED <<disk, lock, procs>>

\* The record is saved, but a backup cannot be removed: commit() takes the build away again.
BackupStays(c) ==
    /\ At(c, "record") /\ Use("fail") /\ To(c, "rmvenv") /\ UNCHANGED <<lock, procs>>
    /\ disk' = Torn([disk EXCEPT !.files.record[cl[c].id] = [venv |-> cl[c].venv, at |-> disk.built]],
                    cl[c].id)

\* _restore_on_failure(), in reverse; then the build and the checkout
Unrecord(c) ==
    /\ Steps(c, "unrecord") /\ To(c, "unservice")
    /\ disk' = [disk EXCEPT !.files.record = cl[c].before.record]

Unservice(c) ==
    /\ Steps(c, "unservice") /\ To(c, "unmanifest")
    /\ disk' = [disk EXCEPT !.files.service = cl[c].before.service]

Unmanifest(c) ==
    /\ Steps(c, "unmanifest") /\ To(c, "rmvenv")
    /\ disk' = [disk EXCEPT !.files.manifest = cl[c].before.manifest]

\* A file cannot be put back: neither are those that were to follow.
RestoreFails(c) ==
    /\ cl[c].pc \in {"unrecord", "unservice", "unmanifest"} /\ Use("fail")
    /\ To(c, "rmvenv") /\ disk' = Torn(disk, cl[c].id) /\ UNCHANGED <<lock, procs>>

RemoveBuild(c) ==
    /\ Steps(c, "rmvenv") /\ To(c, "rmtarget")
    /\ disk' = [disk EXCEPT !.venvs = {v \in @ : v.path # cl[c].venv}]

RemoveTarget(c) ==
    /\ Steps(c, "rmtarget") /\ To(c, "putback")
    /\ disk' = [disk EXCEPT !.src[cl[c].id] = None]

BuildStays(c) ==
    /\ At(c, "rmvenv") /\ Use("fail") /\ To(c, "rmtarget") /\ UNCHANGED <<lock, procs>>
    /\ disk' = Damaged([disk EXCEPT !.venvs = HalfRemoved(@, cl[c].venv)], cl[c].id)

\* The new checkout stays where the old one belongs.
TargetStays(c) ==
    /\ At(c, "rmtarget") /\ Use("fail") /\ To(c, "putback") /\ UNCHANGED <<lock, procs>>
    /\ disk' = Damaged(disk, cl[c].id)

PutBack(c) ==
    /\ At(c, "putback") /\ Ends(c) /\ lock' = None /\ procs' = Pardoned(FALSE) /\ UNCHANGED left
    /\ cl[c].aside = None \/ disk.src[cl[c].id] = None
    /\ disk' = IF cl[c].aside = None THEN disk ELSE [disk EXCEPT !.src[cl[c].id] = cl[c].aside]

\* os.replace() onto a directory that is not empty, or any other failure of it
PutBackFails(c) ==
    /\ At(c, "putback") /\ cl[c].aside # None
    /\ IF disk.src[cl[c].id] # None THEN UNCHANGED left ELSE Use("fail")
    /\ Ends(c) /\ lock' = None /\ procs' = Pardoned(FALSE) /\ disk' = Damaged(disk, cl[c].id)

\* The environments that were there before go one by one; then the old process.
Old(s) == {v \in disk.venvs : v.path \in s.roots \ (s.kept \cup {s.venv})}

Sweep(c) ==
    /\ Steps(c, "sweep")
    /\ IF Old(cl[c]) = {}
       THEN To(c, "owner") /\ disk' = Mended(disk, cl[c])
       ELSE \E v \in Old(cl[c]) : disk' = [disk EXCEPT !.venvs = @ \ {v}] /\ UNCHANGED cl

\* One of them stays, half removed; so it is in remove().
OldStays(c) ==
    /\ cl[c].pc \in {"sweep", "rmvenvs"} /\ Use("fail") /\ UNCHANGED <<lock, procs>>
    /\ \E v \in Old(cl[c]) :
           /\ cl' = [cl EXCEPT ![c].kept = @ \cup {v.path}]
           /\ disk' = Damaged([disk EXCEPT !.venvs = HalfRemoved(@, v.path)], cl[c].id)

-----------------------------------------------------------------------------
(***************************************************************************)
(* remove() and set_enabled().                                             *)
(***************************************************************************)
Remove(c) ==
    /\ At(c, "remove") /\ lock = None /\ UNCHANGED <<disk, procs, left>>
    /\ IF Record(cl[c].id) = None THEN Ends(c) /\ UNCHANGED lock
       ELSE /\ lock' = c
            /\ cl' = [cl EXCEPT ![c].pc = "rmmanifest",
                                ![c].roots = PluginVenvs(cl[c].id) \cup RecordVenv(cl[c].id)]

RemoveManifest(c) ==
    /\ Steps(c, "rmmanifest") /\ To(c, "rmsource")
    /\ disk' = [disk EXCEPT !.files.manifest[cl[c].id] = None]

RemoveSource(c) ==
    /\ Steps(c, "rmsource") /\ To(c, "rmservice")
    /\ disk' = [disk EXCEPT !.src[cl[c].id] = None]

SourceStays(c) ==
    /\ At(c, "rmsource") /\ Use("fail") /\ To(c, "rmservice") /\ UNCHANGED <<disk, lock, procs>>

RemoveService(c) ==
    /\ Steps(c, "rmservice") /\ To(c, "rmvenvs")
    /\ disk' = [disk EXCEPT !.files.service = None]

RemoveVenvs(c) ==
    /\ Steps(c, "rmvenvs")
    /\ IF Old(cl[c]) = {} THEN To(c, "rmrecord") /\ UNCHANGED disk
       ELSE \E v \in Old(cl[c]) : disk' = [disk EXCEPT !.venvs = @ \ {v}] /\ UNCHANGED cl

RemoveRecord(c) ==
    /\ Steps(c, "rmrecord") /\ To(c, "reenable")
    /\ disk' = Mended([disk EXCEPT !.files.record[cl[c].id] = None], cl[c])

Reenable(c) ==
    /\ Steps(c, "reenable") /\ To(c, "owner")
    /\ disk' = [disk EXCEPT !.disabled = @ \ {cl[c].id}]

\* A file cannot be removed: what is left stays, with the record.
RemovalFails(c) ==
    /\ cl[c].pc \in {"rmmanifest", "rmservice", "rmrecord"} /\ Use("fail")
    /\ Ends(c) /\ lock' = None /\ procs' = Pardoned(FALSE) /\ disk' = Damaged(disk, cl[c].id)

\* The settings cannot be saved: a plugin that was removed is not stopped then.
ReenableFails(c) ==
    /\ At(c, "reenable") /\ Use("fail")
    /\ Ends(c) /\ lock' = None /\ procs' = Pardoned(FALSE) /\ UNCHANGED disk

SettingsFail(c) ==
    /\ cl[c].pc \in {"enable", "disable"} /\ lock = None /\ Use("fail")
    /\ Ends(c) /\ UNCHANGED <<disk, lock, procs>>

\* Disabling a plugin without a record stops nothing, and says so (UNMANAGED).
SetEnabled(c) ==
    /\ cl[c].pc \in {"enable", "disable"} /\ lock = None /\ UNCHANGED left
    /\ LET s == cl[c]
       IN IF s.op = "enable"
          THEN /\ Ends(c) /\ UNCHANGED <<lock, procs>>
               /\ disk' = [disk EXCEPT !.disabled = @ \ {s.id}]
          ELSE /\ disk' = [disk EXCEPT !.disabled = @ \cup {s.id}]
               /\ IF Record(s.id) = None THEN Ends(c) /\ UNCHANGED lock /\ procs' = Pardoned(FALSE)
                  ELSE /\ lock' = c /\ UNCHANGED procs
                       /\ cl' = [cl EXCEPT ![c].pc = "owner", ![c].roots = RecordVenv(s.id)]

-----------------------------------------------------------------------------
(***************************************************************************)
(* BusPluginStopper.                                                       *)
(***************************************************************************)
Stopped(c, ok) == Ends(c) /\ lock' = None /\ procs' = Pardoned(ok) /\ UNCHANGED <<disk, left>>
Asks(c, s) == cl' = [cl EXCEPT ![c] = s] /\ UNCHANGED <<disk, lock, procs, left>>

\* owner(), where there is anything to stop
StopOwner(c) ==
    /\ At(c, "owner")
    /\ IF cl[c].roots = {} \/ procs.owner = None THEN Stopped(c, TRUE)
       ELSE Asks(c, [cl[c] EXCEPT !.pc = "pid", !.own = procs.owner])

StopPid(c) ==
    /\ At(c, "pid")
    /\ IF Alive(cl[c].own) THEN Asks(c, [cl[c] EXCEPT !.pc = "from", !.pid = procs.all[cl[c].own].pid])
       ELSE Stopped(c, TRUE)

\* runs_from(), on whatever has that process id now
RunsFrom(c) ==
    /\ At(c, "from")
    /\ IF \E i \in WithPid(cl[c].pid) : procs.all[i].path \in cl[c].roots
       THEN Asks(c, [cl[c] EXCEPT !.pc = "pidfd"])
       ELSE Stopped(c, FALSE)

OpenPidfd(c) ==
    /\ At(c, "pidfd")
    /\ IF WithPid(cl[c].pid) = {} THEN Stopped(c, TRUE)
       ELSE \E i \in WithPid(cl[c].pid) : Asks(c, [cl[c] EXCEPT !.pc = "recheck", !.fd = i])

\* A variant of StillOwner: the process that was found is the process that is meant.
StillOwnerAssumed(c) == TRUE

StillOwner(c) == procs.owner = cl[c].own

Recheck(c) ==
    /\ At(c, "recheck")
    /\ IF StillOwner(c) THEN Asks(c, [cl[c] EXCEPT !.pc = "signal"]) ELSE Stopped(c, TRUE)

Terminate(c) ==
    /\ At(c, "signal")
    /\ IF ~Alive(cl[c].fd) THEN Stopped(c, TRUE)
       ELSE /\ To(c, "wait") /\ UNCHANGED <<disk, lock, left>>
            /\ procs' = [procs EXCEPT !.wrong = @ \/ procs.all[cl[c].fd].path \notin cl[c].roots]

\* Until the name has another owner, or for STOP_WAIT_SEC
Wait(c) == At(c, "wait") /\ \E ok \in {FALSE, procs.owner # cl[c].own} : Stopped(c, ok)

\* The bus does not answer.
StopFails(c) ==
    /\ cl[c].pc \in {"owner", "pid", "recheck", "wait"} /\ Use("fail")
    /\ Ends(c) /\ lock' = None /\ procs' = Pardoned(FALSE) /\ UNCHANGED disk

-----------------------------------------------------------------------------
(***************************************************************************)
(* What the clients do not do themselves.                                  *)
(***************************************************************************)

\* A client is killed, and its lock goes with it.
Crash(c) ==
    /\ ~At(c, "idle") /\ Use("crash") /\ Ends(c)
    /\ lock' = IF lock = c THEN None ELSE lock
    /\ disk' = [disk EXCEPT !.damaged = IF lock = c THEN @ \cup {cl[c].id} ELSE @]
    /\ procs' = IF lock = c THEN Pardoned(FALSE) ELSE procs

Started(path, build, state, pardon) ==
    /\ Len(procs.all) < MaxProcs
    /\ \E pid \in 1 .. 2 :
           /\ WithPid(pid) = {}
           /\ procs' = [procs EXCEPT !.all = Append(@, [path |-> path, build |-> build, pid |-> pid,
                                                       state |-> state, pardon |-> pardon])]

\* D-Bus activation: somebody calls a plugin that does not run.  Whether it is enabled was
\* the caller's question, perhaps before it was disabled.
Activate ==
    /\ disk.files.service # None
    /\ procs.owner = None /\ \A i \in DOMAIN procs.all : procs.all[i].state # "starting"
    /\ \E v \in disk.venvs : v.path = disk.files.service /\ v.whole
                             /\ Started(v.path, v.build, "starting", v.path.id \in disk.disabled)
    /\ UNCHANGED <<disk, cl, lock, left>>

TakeName ==
    /\ \E i \in DOMAIN procs.all :
           /\ procs.all[i].state = "starting"
           /\ procs' = [procs EXCEPT !.all[i].state = "running", !.owner = i]
    /\ UNCHANGED <<disk, cl, lock, left>>

\* A process ends, asked to or not.
Exit ==
    /\ \E i \in DOMAIN procs.all :
           /\ Alive(i)
           /\ procs' = [procs EXCEPT !.all[i].state = "dead", !.owner = IF @ = i THEN None ELSE @]
    /\ UNCHANGED <<disk, cl, lock, left>>

\* A process that has nothing to do with any of this gets the number of one that ended.
Stranger ==
    /\ \E i \in DOMAIN procs.all : ~Alive(i)
    /\ Use("strangers") /\ Started(None, None, "other", FALSE) /\ UNCHANGED <<disk, cl, lock>>

-----------------------------------------------------------------------------
ClientStep(c) ==
    \/ Begin(c) \/ Prepare(c) \/ Answer(c) \/ GiveUp(c)
    \/ Commit(c) \/ Aside(c) \/ AsideFails(c) \/ Place(c) \/ PlaceFails(c) \/ Build(c)
    \/ PublishManifest(c) \/ PublishService(c) \/ SaveRecord(c) \/ Fails(c) \/ BackupStays(c)
    \/ Unrecord(c) \/ Unservice(c) \/ Unmanifest(c) \/ RestoreFails(c)
    \/ RemoveBuild(c) \/ BuildStays(c) \/ RemoveTarget(c) \/ TargetStays(c) \/ PutBack(c) \/ PutBackFails(c)
    \/ Sweep(c) \/ OldStays(c) \/ Remove(c) \/ RemoveManifest(c) \/ RemoveSource(c) \/ SourceStays(c)
    \/ RemoveService(c) \/ RemoveVenvs(c) \/ RemoveRecord(c) \/ Reenable(c) \/ ReenableFails(c)
    \/ RemovalFails(c) \/ SetEnabled(c) \/ SettingsFail(c)
    \/ StopOwner(c) \/ StopPid(c) \/ RunsFrom(c) \/ OpenPidfd(c) \/ Recheck(c) \/ Terminate(c)
    \/ Wait(c) \/ StopFails(c)

Next == (\E c \in Clients : ClientStep(c) \/ Crash(c)) \/ Activate \/ TakeName \/ Exit \/ Stranger

Spec == Init /\ [][Next]_pluginVars

-----------------------------------------------------------------------------
(***************************************************************************)
(* Properties.                                                             *)
(***************************************************************************)

\* Whatever is published can be run, at every moment: no crash, race or failed step leaves a
\* manifest or a service file that names an environment which is gone or half built.  The one
\* exception is a plugin that is torn: undoing a failed commit() failed as well, or commit()
\* undid what it had published; until the plugin is next installed or removed.
Runnable ==
    \A v \in ({disk.files.manifest[i] : i \in Ids} \cup {disk.files.service}) \ {None} :
        v.id \notin disk.torn => \E w \in disk.venvs : w.path = v /\ w.whole

\* No two plugins that share a bus name are ever installed, whatever clients do at once.
OneName == Cardinality({i \in Ids : Record(i) # None \/ disk.files.manifest[i] # None}) <= 1

\* Between operations a plugin's manifest, service, record, checkout and environments agree,
\* whatever step of commit()'s try failed and however clients raced.  The exceptions, until
\* the next change of the plugin succeeds and removes all it should: a client was killed
\* while changing it; the new checkout could not take the old one's place, or the old one
\* was not put back; a file could not be put back or removed; a directory that
\* rmtree(ignore_errors=True) was to remove stayed.
Agree ==
    lock = None => \A i \in Ids \ disk.damaged :
        IF Record(i) = None
        THEN /\ disk.files.manifest[i] = None /\ PluginVenvs(i) = {}
             /\ disk.files.service # None => disk.files.service.id # i
        ELSE LET v == Record(i).venv
             IN /\ disk.files.manifest[i] = v /\ disk.files.service = v
                /\ PluginVenvs(i) = {v} /\ disk.src[i] = v.commit

\* Between operations nothing runs code that is gone, or a plugin that is disabled, but what
\* an operation said it could not stop, or did not come to stop because it failed; what had
\* not yet taken its name; and what was called while it was disabled.  And SIGTERM goes only
\* to a process of the environments that were replaced.
OldCodeGone ==
    /\ ~procs.wrong
    /\ lock = None => \A i \in DOMAIN procs.all :
           LET p == procs.all[i]
           IN p.state = "running" /\ ~p.pardon =>
                  p.path.id \notin disk.disabled /\ \E v \in disk.venvs : v.build = p.build

=============================================================================
