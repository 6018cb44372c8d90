----------------------------- MODULE CorpusStore -----------------------------
(***************************************************************************)
(* The reusable corpus: efz_corpus_store over efz_fs, with the part of     *)
(* efz_corpus that decides when to save.  Several VMs may use the same     *)
(* directory, each with one campaign at a time; they know of each other    *)
(* only through the file system.  A VM may be killed, and any call of the  *)
(* file system may fail, between any two steps; the machine may lose its   *)
(* power, and with it everything that was not synced.                      *)
(*                                                                         *)
(* The file system.  A published entry is a directory with the files input *)
(* and metadata, made under a staging name and renamed to the hash of its  *)
(* input.  A file is whole on disk when it was fsynced, and reachable when *)
(* its directory was; a rename or mkdir is on disk when the directory it   *)
(* changed was synced.  What was not synced may or may not survive.  A     *)
(* directory sync that reports success is taken to cover what an earlier,  *)
(* failed one did not.                                                     *)
(*                                                                         *)
(* An abandoned staging directory is never read: restore/4 reports it and  *)
(* goes on.  It is forgotten here, and its identity serves again.          *)
(***************************************************************************)
EXTENDS Naturals, FiniteSets

CONSTANTS
    Vms,        \* virtual machines that use the directory
    Contents,   \* inputs, one entry name each
    Objects,    \* identities of staging directories, hence of entries
    Builds,     \* target identities a campaign may run with
    None,       \* no input, no object, no build
    Policies,   \* values of corpus_build_policy in this instance
    Preexists   \* whether the directory is there, on disk, to begin with

ASSUME CorpusAssumption ==
    /\ None \notin Contents \cup Objects \cup Builds
    /\ Policies \subseteq {"reject", "recalibrate"}
    /\ Preexists \in BOOLEAN

VARIABLES
    pc,        \* what the campaign of the VM is doing
    build,     \* the target identity it runs with
    policy,    \* its build policy
    active,    \* its queue
    todo,      \* names listed by restore and not yet loaded
    job,       \* the input being saved
    staging,   \* its staging directory
    found,     \* the entry whose record the save will return
    dir,       \* the corpus directory: absent, made, or durable
    visible,   \* entries by name, as every process sees them
    durable,   \* entries by name, as the synced directory has them
    files,     \* of every object: its files and their origin
    acked,     \* observer: the name and the entry of every {ok,Record}
    dirLost    \* observer: a power loss took the whole directory

campaign == <<build, policy, active, todo>>
writer == <<job, staging, found>>
disk == <<dir, visible, durable, files>>
observers == <<acked, dirLost>>
vars == <<pc, campaign, writer, disk, observers>>

FileState == {"none", "torn", "cached", "synced"}
Blank(b) == [input |-> "none", metadata |-> "none", named |-> FALSE, build |-> b]
Object == [input : FileState, metadata : FileState, named : BOOLEAN,
           build : Builds \cup {None}]

\* load_entry/3 accepts the entry.
Whole(o) == files[o].input \in {"cached", "synced"}
            /\ files[o].metadata \in {"cached", "synced"}
Unused == Objects \ ({staging[v] : v \in Vms} \cup {visible[c] : c \in Contents})

\* compatible/4
Compatible(v, o) == policy[v] = "recalibrate" \/ files[o].build = build[v]
Goto(v, place) == pc' = [pc EXCEPT ![v] = place]

\* {ok,Record}: only then does the input enter the queue.
Acknowledge(v) ==
    /\ acked' = acked \cup {<<job[v], found[v]>>}
    /\ active' = [active EXCEPT ![v] = @ \cup {job[v]}]
    /\ staging' = [staging EXCEPT ![v] = None]
    /\ job' = [job EXCEPT ![v] = None] /\ found' = [found EXCEPT ![v] = None]
    /\ Goto(v, "idle")

\* What is left of VM v when its campaign ends, and of its staging directory.
Stops(v) ==
    /\ Goto(v, "down")
    /\ build' = [build EXCEPT ![v] = None]
    /\ active' = [active EXCEPT ![v] = {}] /\ todo' = [todo EXCEPT ![v] = {}]
    /\ job' = [job EXCEPT ![v] = None] /\ found' = [found EXCEPT ![v] = None]
    /\ staging' = [staging EXCEPT ![v] = None]

\* Mutant: the directory is not synced.
SyncNothing == UNCHANGED durable

\* sync_dir(Dir): every change of the directory so far is on disk.
SyncDir == durable' = visible

Init ==
    /\ pc = [v \in Vms |-> "down"]
    /\ build = [v \in Vms |-> None] /\ policy \in [Vms -> Policies]
    /\ active = [v \in Vms |-> {}] /\ todo = [v \in Vms |-> {}]
    /\ job = [v \in Vms |-> None]
    /\ staging = [v \in Vms |-> None] /\ found = [v \in Vms |-> None]
    /\ dir = IF Preexists THEN "durable" ELSE "absent"
    /\ visible = [c \in Contents |-> None]
    /\ durable = [c \in Contents |-> None]
    /\ files = [o \in Objects |-> Blank(None)]
    /\ acked = {} /\ dirLost = FALSE

-----------------------------------------------------------------------------
(* A campaign starts: restore/4, then efz_corpus:init/1.                   *)

Start(v) ==
    /\ pc[v] = "down" /\ Goto(v, "restoring")
    /\ \E b \in Builds, p \in Policies :
           build' = [build EXCEPT ![v] = b] /\ policy' = [policy EXCEPT ![v] = p]
    /\ active' = [active EXCEPT ![v] = {}]
    /\ todo' = [todo EXCEPT ![v] = {c \in Contents : visible[c] # None}]
    /\ UNCHANGED <<writer, disk, observers>>

\* One entry that does not load, or is of another target, fails the start.
LoadEntry(v, c) ==
    /\ pc[v] = "restoring" /\ c \in todo[v]
    /\ IF Whole(visible[c]) /\ Compatible(v, visible[c])
         THEN /\ active' = [active EXCEPT ![v] = @ \cup {c}]
              /\ todo' = [todo EXCEPT ![v] = @ \ {c}] /\ UNCHANGED <<pc, build, writer>>
         ELSE Stops(v)
    /\ UNCHANGED <<policy, disk, observers>>

Restored(v) ==
    /\ pc[v] = "restoring" /\ todo[v] = {} /\ Goto(v, "idle")
    /\ UNCHANGED <<campaign, writer, disk, observers>>

-----------------------------------------------------------------------------
(* save/4 of a seed or of a discovery.  Inputs of the queue are not saved  *)
(* again (add_checked/3).                                                  *)

Save(v, c) ==
    /\ pc[v] = "idle" /\ c \notin active[v]
    /\ job' = [job EXCEPT ![v] = c] /\ Goto(v, "stat")
    /\ UNCHANGED <<campaign, staging, found, disk, observers>>

\* ensure_directory/1
StatDirectory(v) ==
    /\ pc[v] = "stat" /\ Goto(v, IF dir = "absent" THEN "mkdir" ELSE "lookup")
    /\ UNCHANGED <<campaign, writer, disk, observers>>

MakeDirectory(v) ==
    /\ pc[v] = "mkdir" /\ Goto(v, "sync_parent")
    /\ dir' = IF dir = "absent" THEN "made" ELSE dir
    /\ UNCHANGED <<campaign, writer, visible, durable, files, observers>>

SyncParent(v) ==
    /\ pc[v] = "sync_parent" /\ dir' = "durable" /\ Goto(v, "lookup")
    /\ UNCHANGED <<campaign, writer, visible, durable, files, observers>>

Lookup(v) ==
    /\ pc[v] = "lookup"
    /\ Goto(v, IF visible[job[v]] = None THEN "stage" ELSE "existing")
    /\ UNCHANGED <<campaign, writer, disk, observers>>

\* publish/4: the staging directory, its two files, and its own sync.
MakeStaging(v) ==
    /\ pc[v] = "stage" /\ Goto(v, "input")
    /\ \E o \in Unused :
           /\ staging' = [staging EXCEPT ![v] = o]
           /\ files' = [files EXCEPT ![o] = Blank(build[v])]
    /\ UNCHANGED <<campaign, job, found, dir, visible, durable, observers>>

\* Mutant: the metadata file is not fsynced.
WriteCached(v, file, next) ==
    /\ files' = [files EXCEPT ![staging[v]][file] =
                     IF file = "metadata" THEN "cached" ELSE "synced"]
    /\ Goto(v, next)

\* write_synced/2 is exclusive, and fsyncs before it closes.
WriteSynced(v, file, next) ==
    /\ files' = [files EXCEPT ![staging[v]][file] = "synced"] /\ Goto(v, next)

WriteInput(v) ==
    /\ pc[v] = "input" /\ WriteSynced(v, "input", "metadata")
    /\ UNCHANGED <<campaign, writer, dir, visible, durable, observers>>

WriteMetadata(v) ==
    /\ pc[v] = "metadata" /\ WriteSynced(v, "metadata", "seal")
    /\ UNCHANGED <<campaign, writer, dir, visible, durable, observers>>

SealStaging(v) ==
    /\ pc[v] = "seal" /\ Goto(v, "rename")
    /\ files' = [files EXCEPT ![staging[v]].named = TRUE]
    /\ UNCHANGED <<campaign, writer, dir, visible, durable, observers>>

\* Mutant: the rename replaces an entry of that name.
PublishOver(v) ==
    /\ pc[v] = "rename"
    /\ visible' = [visible EXCEPT ![job[v]] = staging[v]]
    /\ found' = [found EXCEPT ![v] = staging[v]] /\ Goto(v, "commit")
    /\ UNCHANGED <<campaign, job, staging, dir, durable, files, observers>>

\* The rename; a directory that is not empty is never replaced.
Publish(v) ==
    /\ pc[v] = "rename"
    /\ \/ /\ visible[job[v]] = None
          /\ visible' = [visible EXCEPT ![job[v]] = staging[v]]
          /\ found' = [found EXCEPT ![v] = staging[v]] /\ Goto(v, "commit")
       \/ /\ visible[job[v]] # None /\ Goto(v, "existing")
          /\ UNCHANGED <<visible, found>>
    /\ UNCHANGED <<campaign, job, staging, dir, durable, files, observers>>

Commit(v) ==
    /\ pc[v] = "commit" /\ SyncDir /\ Acknowledge(v)
    /\ UNCHANGED <<build, policy, todo, dir, visible, files, dirLost>>

\* Mutant: the winner's record is not compared with the campaign's identity.
ExistingOfAnyBuild(v) ==
    /\ pc[v] = "existing" /\ Whole(visible[job[v]])
    /\ found' = [found EXCEPT ![v] = visible[job[v]]] /\ Goto(v, "settle")
    /\ UNCHANGED <<campaign, job, staging, disk, observers>>

\* existing/4: somebody else's entry is read and compared before it counts.
Existing(v) ==
    /\ pc[v] = "existing" /\ Whole(visible[job[v]]) /\ Compatible(v, visible[job[v]])
    /\ found' = [found EXCEPT ![v] = visible[job[v]]] /\ Goto(v, "settle")
    /\ UNCHANGED <<campaign, job, staging, disk, observers>>

\* It may not be on disk yet: its publisher may have failed after the rename.
Settle(v) ==
    /\ pc[v] = "settle" /\ SyncDir
    /\ \/ /\ staging[v] = None /\ Acknowledge(v)
       \/ /\ staging[v] # None /\ Goto(v, "discard")
          /\ UNCHANGED <<active, writer, acked>>
    /\ UNCHANGED <<build, policy, todo, dir, visible, files, dirLost>>

\* The loser of the race removes its staging directory, and syncs again.
Discard(v) ==
    /\ pc[v] = "discard" /\ Goto(v, "commit")
    /\ staging' = [staging EXCEPT ![v] = None]
    /\ files' = [files EXCEPT ![staging[v]] = Blank(None)]
    /\ UNCHANGED <<campaign, job, found, dir, visible, durable, observers>>

-----------------------------------------------------------------------------
(* What goes wrong.                                                        *)

\* The VM is killed, a call of the file system fails, an existing entry is
\* not accepted: the campaign ends, and its staging directory stays behind.
Aborts(v) ==
    /\ pc[v] # "down" /\ Stops(v)
    /\ files' = [o \in Objects |->
                   IF o = staging[v] /\ \A c \in Contents : visible[c] # o
                     THEN Blank(None) ELSE files[o]]
    /\ UNCHANGED <<policy, dir, visible, durable, observers>>

\* What a power loss may leave of a file.
Remains(state, named) ==
    (IF named THEN {} ELSE {"none"}) \cup
    (IF state = "cached" THEN {"torn", "synced"} ELSE {state})

Survivors(o) ==
    [input : Remains(files[o].input, files[o].named),
     metadata : Remains(files[o].metadata, files[o].named),
     named : {TRUE}, build : {files[o].build}]

PowerLoss ==
    /\ pc' = [v \in Vms |-> "down"]
    /\ build' = [v \in Vms |-> None]
    /\ active' = [v \in Vms |-> {}] /\ todo' = [v \in Vms |-> {}]
    /\ job' = [v \in Vms |-> None] /\ found' = [v \in Vms |-> None]
    /\ staging' = [v \in Vms |-> None]
    /\ \/ \* The directory, and every entry of it that was synced, survive.
          /\ dir # "absent" /\ dir' = "durable" /\ UNCHANGED dirLost
          /\ \E lost \in SUBSET {c \in Contents : visible[c] # durable[c]} :
                 visible' = [c \in Contents |->
                     IF c \in lost THEN durable[c] ELSE visible[c]]
       \/ \* A directory whose parent was not synced may be gone.
          /\ dir # "durable" /\ dir' = "absent"
          /\ dirLost' = (dirLost \/ dir = "made")
          /\ visible' = [c \in Contents |-> None]
    /\ durable' = visible'
    /\ LET Entries == {visible'[c] : c \in Contents} \ {None}
       IN  \E left \in [Entries -> UNION {Survivors(o) : o \in Entries}] :
              /\ \A o \in Entries : left[o] \in Survivors(o)
              /\ files' = [o \in Objects |-> IF o \in Entries THEN left[o] ELSE Blank(None)]
    /\ UNCHANGED <<policy, acked>>

Next ==
    \/ \E v \in Vms :
        \/ Start(v) \/ Restored(v)
        \/ \E c \in Contents : LoadEntry(v, c) \/ Save(v, c)
        \/ StatDirectory(v) \/ MakeDirectory(v) \/ SyncParent(v) \/ Lookup(v)
        \/ MakeStaging(v) \/ WriteInput(v) \/ WriteMetadata(v) \/ SealStaging(v)
        \/ Publish(v) \/ Commit(v) \/ Existing(v) \/ Settle(v) \/ Discard(v)
        \/ Aborts(v)
    \/ PowerLoss

Spec == Init /\ [][Next]_vars

-----------------------------------------------------------------------------
Places == {"down", "restoring", "idle", "stat", "mkdir", "sync_parent", "lookup",
           "stage", "input", "metadata", "seal", "rename", "commit", "existing",
           "settle", "discard"}

TypeOK ==
    /\ pc \in [Vms -> Places]
    /\ build \in [Vms -> Builds \cup {None}] /\ policy \in [Vms -> Policies]
    /\ active \in [Vms -> SUBSET Contents] /\ todo \in [Vms -> SUBSET Contents]
    /\ job \in [Vms -> Contents \cup {None}]
    /\ staging \in [Vms -> Objects \cup {None}]
    /\ found \in [Vms -> Objects \cup {None}]
    /\ dir \in {"absent", "made", "durable"}
    /\ visible \in [Contents -> Objects \cup {None}]
    /\ durable \in [Contents -> Objects \cup {None}]
    /\ files \in [Objects -> Object]
    /\ acked \subseteq Contents \X Objects /\ dirLost \in BOOLEAN

Kept == \A a \in acked : visible[a[1]] = a[2] /\ Whole(a[2])

(* An acknowledged input is in the store, with the record that was         *)
(* acknowledged, after any number of crashes and whoever else saved the    *)
(* same input: unless the power loss took the corpus directory itself.     *)
AckedIsKept == dirLost \/ Kept

(* The same without the exception, as docs/corpus.md promises: "No success *)
(* is acknowledged before the sync", of the ancestors included.            *)
AckedSurvivesPowerLoss == Kept

(* Whoever reads the store at any moment, after any crash, finds under a   *)
(* content name a complete entry or none (rename after the syncs).         *)
WholeOrAbsent == \A c \in Contents : visible[c] # None => Whole(visible[c])

(* A published entry is never replaced; only a power loss can take back    *)
(* one that was not yet synced.                                            *)
EntriesAreImmutable ==
    [][~PowerLoss =>
           \A c \in Contents : visible[c] # None => visible'[c] = visible[c]]_vars

(* With corpus_build_policy reject a queue holds entries of its own target *)
(* only, those that another VM won the race for included.                  *)
QueueMatchesBuild ==
    \A v \in Vms : policy[v] = "reject" =>
        \A c \in active[v] : visible[c] # None /\ files[visible[c]].build = build[v]
=============================================================================
