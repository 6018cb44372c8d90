---------------------------- MODULE CorpusProofs ----------------------------
(* The corpus store keeps what it acknowledged: proofs.                    *)
EXTENDS CorpusStore, TLAPS

Preparing == {"input", "metadata", "seal", "rename"}
Finding == {"commit", "settle", "discard"}
Inside == Preparing \cup Finding \cup {"sync_parent", "lookup", "stage", "existing"}

\* The variables of a campaign agree with its place.
Desk ==
    \A v \in Vms :
        /\ pc[v] \in Inside \cup {"stat", "mkdir"} => job[v] # None
        /\ pc[v] \in Inside => dir # "absent"
        /\ pc[v] \in Preparing \cup {"discard"} => staging[v] # None
        /\ staging[v] # None => pc[v] \in Preparing \cup Finding \cup {"existing"}
        /\ pc[v] \in Finding => found[v] # None /\ visible[job[v]] = found[v]
        /\ pc[v] = "existing" => visible[job[v]] # None
        /\ todo[v] \subseteq {c \in Contents : visible[c] # None}

\* A staging directory belongs to one campaign, and to no name until it is
\* renamed; an entry has one name.
Private ==
    /\ \A v, w \in Vms : staging[v] # None /\ staging[v] = staging[w] => v = w
    /\ \A v \in Vms, c \in Contents :
           staging[v] # None /\ visible[c] = staging[v] => pc[v] = "commit"
    /\ \A c, d \in Contents : visible[c] # None /\ visible[c] = visible[d] => c = d

\* What is on disk of a staging directory, by the place of its writer.
Progress ==
    \A v \in Vms :
        /\ pc[v] \in {"metadata", "seal", "rename"} => files[staging[v]].input = "synced"
        /\ pc[v] \in {"seal", "rename"} => files[staging[v]].metadata = "synced"
        /\ pc[v] = "rename" => files[staging[v]].named
        /\ pc[v] \in Preparing => files[staging[v]].build = build[v]

OnDisk(o) == files[o].input = "synced" /\ files[o].metadata = "synced" /\ files[o].named

\* Whatever can be seen is on disk, but for its name.
Shelf ==
    /\ \A c \in Contents : visible[c] # None => OnDisk(visible[c])
    /\ \A c \in Contents : durable[c] # None => durable[c] = visible[c]
    /\ dir = "absent" => \A c \in Contents : visible[c] = None

\* And of what was acknowledged the name too.
Promises == ~dirLost => \A a \in acked : durable[a[1]] = a[2]

\* An entry that a strict campaign uses, or is about to, is of its build.
Kin ==
    \A v \in Vms : policy[v] = "reject" =>
        /\ \A c \in active[v] : visible[c] # None /\ files[visible[c]].build = build[v]
        /\ pc[v] \in Finding => files[visible[job[v]]].build = build[v]

Custody == TypeOK /\ Desk /\ Private /\ Progress /\ Shelf /\ Promises /\ Kin

-----------------------------------------------------------------------------
(* Initially, and after every step.                                        *)

LEMMA InitCustody == Init => Custody
<1> SUFFICES ASSUME Init PROVE Custody
  OBVIOUS
<1> USE CorpusAssumption DEF Init, Preparing, Finding, Inside
<1>1. TypeOK
  BY DEF TypeOK, Places, Blank, Object, FileState
<1>2. Desk /\ Private /\ Progress /\ Promises /\ Kin
  BY DEF Desk, Private, Progress, Promises, Kin
<1>3. Shelf
  BY DEF Shelf
<1> QED BY <1>1, <1>2, <1>3 DEF Custody

LEMMA StartKeeps ==
    ASSUME NEW v \in Vms, Custody, Start(v)
    PROVE  Custody'
<1> USE CorpusAssumption DEF Custody, Goto, campaign, writer, disk, observers, Places,
          Preparing, Finding, Inside
<1>1. TypeOK'
  BY DEF TypeOK, Desk, Start
<1>2. Desk' /\ Private' /\ Progress'
  BY DEF TypeOK, Desk, Private, Progress, Start
<1>3. Shelf' /\ Promises' /\ Kin'
  BY DEF TypeOK, Desk, Shelf, OnDisk, Promises, Kin, Start
<1> QED BY <1>1, <1>2, <1>3

LEMMA RestoredKeeps ==
    ASSUME NEW v \in Vms, Custody, Restored(v)
    PROVE  Custody'
<1> USE CorpusAssumption DEF Custody, Goto, campaign, writer, disk, observers, Places,
          Preparing, Finding, Inside
<1>1. TypeOK'
  BY DEF TypeOK, Desk, Restored
<1>2. Desk' /\ Private' /\ Progress'
  BY DEF TypeOK, Desk, Private, Progress, Restored
<1>3. Shelf' /\ Promises' /\ Kin'
  BY DEF TypeOK, Desk, Shelf, OnDisk, Promises, Kin, Restored
<1> QED BY <1>1, <1>2, <1>3

LEMMA LoadKeeps ==
    ASSUME NEW v \in Vms, NEW c \in Contents, Custody, LoadEntry(v, c)
    PROVE  Custody'
<1> USE CorpusAssumption DEF Custody, Goto, campaign, writer, disk, observers, Places,
          Preparing, Finding, Inside
<1>1. TypeOK'
  BY DEF TypeOK, Desk, LoadEntry, Compatible, Whole, Stops
<1>2. Desk'
  BY DEF TypeOK, Desk, LoadEntry, Compatible, Whole, Stops
<1>3. Private'
  BY DEF TypeOK, Desk, Private, LoadEntry, Compatible, Whole, Stops
<1>4. Progress'
  BY DEF TypeOK, Desk, Private, Progress, LoadEntry, Compatible, Whole, Stops
<1>5. Shelf'
  BY DEF TypeOK, Desk, Private, Progress, Shelf, OnDisk, LoadEntry, Compatible, Whole, Stops
<1>6. Promises'
  BY DEF TypeOK, Desk, Shelf, Promises, LoadEntry, Compatible, Whole, Stops
<1>7. Kin'
  BY DEF TypeOK, Desk, Private, Progress, Kin, LoadEntry, Compatible, Whole, Stops
<1> QED BY <1>1, <1>2, <1>3, <1>4, <1>5, <1>6, <1>7

LEMMA SaveKeeps ==
    ASSUME NEW v \in Vms, NEW c \in Contents, Custody, Save(v, c)
    PROVE  Custody'
<1> USE CorpusAssumption DEF Custody, Goto, campaign, writer, disk, observers, Places,
          Preparing, Finding, Inside
<1>1. TypeOK'
  BY DEF TypeOK, Desk, Save
<1>2. Desk' /\ Private' /\ Progress'
  BY DEF TypeOK, Desk, Private, Progress, Save
<1>3. Shelf' /\ Promises' /\ Kin'
  BY DEF TypeOK, Desk, Shelf, OnDisk, Promises, Kin, Save
<1> QED BY <1>1, <1>2, <1>3

LEMMA StatKeeps ==
    ASSUME NEW v \in Vms, Custody, StatDirectory(v)
    PROVE  Custody'
<1> USE CorpusAssumption DEF Custody, Goto, campaign, writer, disk, observers, Places,
          Preparing, Finding, Inside
<1>1. TypeOK'
  BY DEF TypeOK, Desk, StatDirectory
<1>2. Desk' /\ Private' /\ Progress'
  BY DEF TypeOK, Desk, Private, Progress, StatDirectory
<1>3. Shelf' /\ Promises' /\ Kin'
  BY DEF TypeOK, Desk, Shelf, OnDisk, Promises, Kin, StatDirectory
<1> QED BY <1>1, <1>2, <1>3

LEMMA MakeDirectoryKeeps ==
    ASSUME NEW v \in Vms, Custody, MakeDirectory(v)
    PROVE  Custody'
<1> USE CorpusAssumption DEF Custody, Goto, campaign, writer, disk, observers, Places,
          Preparing, Finding, Inside
<1>1. TypeOK'
  BY DEF TypeOK, Desk, MakeDirectory
<1>2. Desk' /\ Private' /\ Progress'
  BY DEF TypeOK, Desk, Private, Progress, MakeDirectory
<1>3. Shelf' /\ Promises' /\ Kin'
  BY DEF TypeOK, Desk, Shelf, OnDisk, Promises, Kin, MakeDirectory
<1> QED BY <1>1, <1>2, <1>3

LEMMA SyncParentKeeps ==
    ASSUME NEW v \in Vms, Custody, SyncParent(v)
    PROVE  Custody'
<1> USE CorpusAssumption DEF Custody, Goto, campaign, writer, disk, observers, Places,
          Preparing, Finding, Inside
<1>1. TypeOK'
  BY DEF TypeOK, Desk, SyncParent
<1>2. Desk' /\ Private' /\ Progress'
  BY DEF TypeOK, Desk, Private, Progress, SyncParent
<1>3. Shelf' /\ Promises' /\ Kin'
  BY DEF TypeOK, Desk, Shelf, OnDisk, Promises, Kin, SyncParent
<1> QED BY <1>1, <1>2, <1>3

LEMMA LookupKeeps ==
    ASSUME NEW v \in Vms, Custody, Lookup(v)
    PROVE  Custody'
<1> USE CorpusAssumption DEF Custody, Goto, campaign, writer, disk, observers, Places,
          Preparing, Finding, Inside
<1>1. TypeOK'
  BY DEF TypeOK, Desk, Lookup
<1>2. Desk' /\ Private' /\ Progress'
  BY DEF TypeOK, Desk, Private, Progress, Lookup
<1>3. Shelf' /\ Promises' /\ Kin'
  BY DEF TypeOK, Desk, Shelf, OnDisk, Promises, Kin, Lookup
<1> QED BY <1>1, <1>2, <1>3

LEMMA MakeStagingKeeps ==
    ASSUME NEW v \in Vms, Custody, MakeStaging(v)
    PROVE  Custody'
<1> USE CorpusAssumption DEF Custody, Goto, campaign, writer, disk, observers, Places,
          Preparing, Finding, Inside
<1>1. TypeOK'
  BY DEF TypeOK, Desk, MakeStaging, Unused, Blank, Object, FileState
<1>2. Desk'
  BY DEF TypeOK, Desk, MakeStaging, Unused, Blank
<1>3. Private'
  BY DEF TypeOK, Desk, Private, MakeStaging, Unused, Blank
<1>4. Progress'
  BY DEF TypeOK, Desk, Private, Progress, MakeStaging, Unused, Blank
<1>5. Shelf'
  BY DEF TypeOK, Desk, Private, Progress, Shelf, OnDisk, MakeStaging, Unused, Blank
<1>6. Promises'
  BY DEF TypeOK, Desk, Shelf, Promises, MakeStaging, Unused, Blank
<1>7. Kin'
  BY DEF TypeOK, Desk, Private, Progress, Kin, MakeStaging, Unused, Blank
<1> QED BY <1>1, <1>2, <1>3, <1>4, <1>5, <1>6, <1>7

LEMMA WriteInputKeeps ==
    ASSUME NEW v \in Vms, Custody, WriteInput(v)
    PROVE  Custody'
<1> USE CorpusAssumption DEF Custody, Goto, campaign, writer, disk, observers, Places,
          Preparing, Finding, Inside
<1>1. /\ files' \in [Objects -> Object] /\ staging[v] \in Objects
      /\ \A o \in Objects \ {staging[v]} : files'[o] = files[o]
      /\ files'[staging[v]].input = "synced"
      /\ files'[staging[v]].metadata = files[staging[v]].metadata /\ files'[staging[v]].named = files[staging[v]].named
      /\ files'[staging[v]].build = files[staging[v]].build
  <2> DEFINE new == [files[staging[v]] EXCEPT !.input = "synced"]
  <2>1. staging[v] \in Objects /\ files[staging[v]] \in Object
    BY DEF TypeOK, Desk, WriteInput
  <2>2. new \in Object /\ new.input = "synced"
    BY <2>1 DEF Object, FileState
  <2>3. new.metadata = files[staging[v]].metadata /\ new.named = files[staging[v]].named /\ new.build = files[staging[v]].build
    BY <2>1 DEF Object
  <2>4. files' = [files EXCEPT ![staging[v]] = new]
    BY <2>1 DEF WriteInput, WriteSynced, TypeOK
  <2> HIDE DEF new
  <2> QED BY <2>1, <2>2, <2>3, <2>4 DEF TypeOK
<1>2. TypeOK'
  BY <1>1 DEF TypeOK, WriteInput, WriteSynced
<1>3. Desk'
  BY <1>1 DEF TypeOK, Desk, WriteInput, WriteSynced
<1>4. Private'
  BY <1>1 DEF TypeOK, Desk, Private, WriteInput, WriteSynced
<1>5. Progress'
  BY <1>1 DEF TypeOK, Desk, Private, Progress, WriteInput, WriteSynced
<1>6. Shelf'
  BY <1>1 DEF TypeOK, Desk, Private, Progress, Shelf, OnDisk, WriteInput, WriteSynced
<1>7. Promises'
  BY <1>1 DEF Promises, WriteInput, WriteSynced
<1>8. Kin'
  BY <1>1 DEF TypeOK, Desk, Private, Kin, WriteInput, WriteSynced
<1> QED BY <1>2, <1>3, <1>4, <1>5, <1>6, <1>7, <1>8

LEMMA WriteMetadataKeeps ==
    ASSUME NEW v \in Vms, Custody, WriteMetadata(v)
    PROVE  Custody'
<1> USE CorpusAssumption DEF Custody, Goto, campaign, writer, disk, observers, Places,
          Preparing, Finding, Inside
<1>1. /\ files' \in [Objects -> Object] /\ staging[v] \in Objects
      /\ \A o \in Objects \ {staging[v]} : files'[o] = files[o]
      /\ files'[staging[v]].metadata = "synced"
      /\ files'[staging[v]].input = files[staging[v]].input /\ files'[staging[v]].named = files[staging[v]].named
      /\ files'[staging[v]].build = files[staging[v]].build
  <2> DEFINE new == [files[staging[v]] EXCEPT !.metadata = "synced"]
  <2>1. staging[v] \in Objects /\ files[staging[v]] \in Object
    BY DEF TypeOK, Desk, WriteMetadata
  <2>2. new \in Object /\ new.metadata = "synced"
    BY <2>1 DEF Object, FileState
  <2>3. new.input = files[staging[v]].input /\ new.named = files[staging[v]].named /\ new.build = files[staging[v]].build
    BY <2>1 DEF Object
  <2>4. files' = [files EXCEPT ![staging[v]] = new]
    BY <2>1 DEF WriteMetadata, WriteSynced, TypeOK
  <2> HIDE DEF new
  <2> QED BY <2>1, <2>2, <2>3, <2>4 DEF TypeOK
<1>2. TypeOK'
  BY <1>1 DEF TypeOK, WriteMetadata, WriteSynced
<1>3. Desk'
  BY <1>1 DEF TypeOK, Desk, WriteMetadata, WriteSynced
<1>4. Private'
  BY <1>1 DEF TypeOK, Desk, Private, WriteMetadata, WriteSynced
<1>5. Progress'
  BY <1>1 DEF TypeOK, Desk, Private, Progress, WriteMetadata, WriteSynced
<1>6. Shelf'
  BY <1>1 DEF TypeOK, Desk, Private, Progress, Shelf, OnDisk, WriteMetadata, WriteSynced
<1>7. Promises'
  BY <1>1 DEF Promises, WriteMetadata, WriteSynced
<1>8. Kin'
  BY <1>1 DEF TypeOK, Desk, Private, Kin, WriteMetadata, WriteSynced
<1> QED BY <1>2, <1>3, <1>4, <1>5, <1>6, <1>7, <1>8

LEMMA SealKeeps ==
    ASSUME NEW v \in Vms, Custody, SealStaging(v)
    PROVE  Custody'
<1> USE CorpusAssumption DEF Custody, Goto, campaign, writer, disk, observers, Places,
          Preparing, Finding, Inside
<1>1. /\ files' \in [Objects -> Object] /\ staging[v] \in Objects
      /\ \A o \in Objects \ {staging[v]} : files'[o] = files[o]
      /\ files'[staging[v]].named = TRUE
      /\ files'[staging[v]].input = files[staging[v]].input /\ files'[staging[v]].metadata = files[staging[v]].metadata
      /\ files'[staging[v]].build = files[staging[v]].build
  <2> DEFINE new == [files[staging[v]] EXCEPT !.named = TRUE]
  <2>1. staging[v] \in Objects /\ files[staging[v]] \in Object
    BY DEF TypeOK, Desk, SealStaging
  <2>2. new \in Object /\ new.named = TRUE
    BY <2>1 DEF Object, FileState
  <2>3. new.input = files[staging[v]].input /\ new.metadata = files[staging[v]].metadata /\ new.build = files[staging[v]].build
    BY <2>1 DEF Object
  <2>4. files' = [files EXCEPT ![staging[v]] = new]
    BY <2>1 DEF SealStaging, WriteSynced, TypeOK
  <2> HIDE DEF new
  <2> QED BY <2>1, <2>2, <2>3, <2>4 DEF TypeOK
<1>2. TypeOK'
  BY <1>1 DEF TypeOK, SealStaging
<1>3. Desk'
  BY <1>1 DEF TypeOK, Desk, SealStaging
<1>4. Private'
  BY <1>1 DEF TypeOK, Desk, Private, SealStaging
<1>5. Progress'
  BY <1>1 DEF TypeOK, Desk, Private, Progress, SealStaging
<1>6. Shelf'
  BY <1>1 DEF TypeOK, Desk, Private, Progress, Shelf, OnDisk, SealStaging
<1>7. Promises'
  BY <1>1 DEF Promises, SealStaging
<1>8. Kin'
  BY <1>1 DEF TypeOK, Desk, Private, Kin, SealStaging
<1> QED BY <1>2, <1>3, <1>4, <1>5, <1>6, <1>7, <1>8

LEMMA PublishKeeps ==
    ASSUME NEW v \in Vms, Custody, Publish(v)
    PROVE  Custody'
<1> USE CorpusAssumption DEF Custody, Goto, campaign, writer, disk, observers, Places,
          Preparing, Finding, Inside
<1>1. TypeOK'
  BY DEF TypeOK, Desk, Publish
<1>2. Desk'
  BY DEF TypeOK, Desk, Publish
<1>3. Private'
  BY DEF TypeOK, Desk, Private, Publish
<1>4. Progress'
  BY DEF TypeOK, Desk, Private, Progress, Publish
<1>5. Shelf'
  BY DEF TypeOK, Desk, Private, Progress, Shelf, OnDisk, Publish
<1>6. Promises'
  BY DEF TypeOK, Desk, Shelf, Promises, Publish
<1>7. Kin'
  <2> SUFFICES ASSUME NEW w \in Vms, (policy[w] = "reject")'
               PROVE  /\ (\A c \in active[w] : visible[c] # None /\ files[visible[c]].build = build[w])'
                      /\ (pc[w] \in Finding => files[visible[job[w]]].build = build[w])'
    BY DEF Kin
  <2>1. \A c \in Contents : visible[c] # None => visible'[c] = visible[c]
    BY DEF Publish, TypeOK
  <2>2. active[w] \subseteq Contents
    BY DEF TypeOK
  <2>3. (\A c \in active[w] : visible[c] # None /\ files[visible[c]].build = build[w])'
    BY <2>1, <2>2 DEF Kin, Publish
  <2>4. CASE w = v
    BY <2>3, <2>4 DEF Kin, Publish, TypeOK, Desk, Progress
  <2>5. CASE w # v
    BY <2>1, <2>3, <2>5 DEF Kin, Publish, TypeOK, Desk
  <2> QED BY <2>4, <2>5
<1> QED BY <1>1, <1>2, <1>3, <1>4, <1>5, <1>6, <1>7

LEMMA ExistingKeeps ==
    ASSUME NEW v \in Vms, Custody, Existing(v)
    PROVE  Custody'
<1> USE CorpusAssumption DEF Custody, Goto, campaign, writer, disk, observers, Places,
          Preparing, Finding, Inside
<1>1. TypeOK'
  <2>1. visible[job[v]] \in Objects \cup {None}
    BY DEF TypeOK, Desk, Existing
  <2> QED BY <2>1 DEF TypeOK, Existing
<1>2. Desk'
  <2>1. job[v] \in Contents
    BY DEF TypeOK, Desk, Existing
  <2>2. found'[v] = visible[job[v]] /\ visible[job[v]] # None
    BY <2>1 DEF Existing, Desk, TypeOK
  <2> QED BY <2>1, <2>2 DEF TypeOK, Desk, Existing
<1>3. Private'
  BY DEF TypeOK, Desk, Private, Existing
<1>4. Progress'
  BY DEF TypeOK, Desk, Private, Progress, Existing
<1>5. Shelf'
  BY DEF TypeOK, Desk, Private, Progress, Shelf, OnDisk, Existing
<1>6. Promises'
  BY DEF TypeOK, Desk, Shelf, Promises, Existing
<1>7. Kin'
  BY DEF TypeOK, Desk, Private, Progress, Kin, Existing, Compatible, Whole
<1> QED BY <1>1, <1>2, <1>3, <1>4, <1>5, <1>6, <1>7

LEMMA SettleKeeps ==
    ASSUME NEW v \in Vms, Custody, Settle(v)
    PROVE  Custody'
<1> USE CorpusAssumption DEF Custody, Goto, campaign, writer, disk, observers, Places,
          Preparing, Finding, Inside
<1>1. TypeOK'
  BY DEF TypeOK, Desk, Settle, SyncDir, Acknowledge
<1>2. Desk'
  BY DEF TypeOK, Desk, Settle, SyncDir, Acknowledge
<1>3. Private'
  BY DEF TypeOK, Desk, Private, Settle, SyncDir, Acknowledge
<1>4. Progress'
  BY DEF TypeOK, Desk, Private, Progress, Settle, SyncDir, Acknowledge
<1>5. Shelf'
  BY DEF TypeOK, Desk, Private, Progress, Shelf, OnDisk, Settle, SyncDir, Acknowledge
<1>6. Promises'
  BY DEF TypeOK, Desk, Shelf, Promises, Settle, SyncDir, Acknowledge
<1>7. Kin'
  BY DEF TypeOK, Desk, Private, Progress, Kin, Settle, SyncDir, Acknowledge
<1> QED BY <1>1, <1>2, <1>3, <1>4, <1>5, <1>6, <1>7

LEMMA DiscardKeeps ==
    ASSUME NEW v \in Vms, Custody, Discard(v)
    PROVE  Custody'
<1> USE CorpusAssumption DEF Custody, Goto, campaign, writer, disk, observers, Places,
          Preparing, Finding, Inside
<1>1. TypeOK'
  BY DEF TypeOK, Desk, Discard, Blank, Object, FileState
<1>2. Desk'
  BY DEF TypeOK, Desk, Discard, Blank
<1>3. Private'
  BY DEF TypeOK, Desk, Private, Discard, Blank
<1>4. Progress'
  BY DEF TypeOK, Desk, Private, Progress, Discard, Blank
<1>5. Shelf'
  BY DEF TypeOK, Desk, Private, Progress, Shelf, OnDisk, Discard, Blank
<1>6. Promises'
  BY DEF TypeOK, Desk, Shelf, Promises, Discard, Blank
<1>7. Kin'
  BY DEF TypeOK, Desk, Private, Progress, Kin, Discard, Blank
<1> QED BY <1>1, <1>2, <1>3, <1>4, <1>5, <1>6, <1>7

LEMMA CommitKeeps ==
    ASSUME NEW v \in Vms, Custody, Commit(v)
    PROVE  Custody'
<1> USE CorpusAssumption DEF Custody, Goto, campaign, writer, disk, observers, Places,
          Preparing, Finding, Inside
<1>1. TypeOK'
  BY DEF TypeOK, Desk, Commit, SyncDir, Acknowledge
<1>2. Desk'
  BY DEF TypeOK, Desk, Commit, SyncDir, Acknowledge
<1>3. Private'
  BY DEF TypeOK, Desk, Private, Commit, SyncDir, Acknowledge
<1>4. Progress'
  BY DEF TypeOK, Desk, Private, Progress, Commit, SyncDir, Acknowledge
<1>5. Shelf'
  BY DEF TypeOK, Desk, Private, Progress, Shelf, OnDisk, Commit, SyncDir, Acknowledge
<1>6. Promises'
  BY DEF TypeOK, Desk, Shelf, Promises, Commit, SyncDir, Acknowledge
<1>7. Kin'
  BY DEF TypeOK, Desk, Private, Progress, Kin, Commit, SyncDir, Acknowledge
<1> QED BY <1>1, <1>2, <1>3, <1>4, <1>5, <1>6, <1>7

LEMMA AbortKeeps ==
    ASSUME NEW v \in Vms, Custody, Aborts(v)
    PROVE  Custody'
<1> USE CorpusAssumption DEF Custody, Goto, campaign, writer, disk, observers, Places,
          Preparing, Finding, Inside
<1>1. TypeOK'
  BY DEF TypeOK, Desk, Aborts, Stops, Blank, Object, FileState
<1>2. Desk'
  BY DEF TypeOK, Desk, Aborts, Stops, Blank
<1>3. Private'
  BY DEF TypeOK, Desk, Private, Aborts, Stops, Blank
<1>4. Progress'
  BY DEF TypeOK, Desk, Private, Progress, Aborts, Stops, Blank
<1>5. Shelf'
  BY DEF TypeOK, Desk, Private, Progress, Shelf, OnDisk, Aborts, Stops, Blank
<1>6. Promises'
  BY DEF TypeOK, Desk, Shelf, Promises, Aborts, Stops, Blank
<1>7. Kin'
  BY DEF TypeOK, Desk, Private, Progress, Kin, Aborts, Stops, Blank
<1> QED BY <1>1, <1>2, <1>3, <1>4, <1>5, <1>6, <1>7

\* What was acknowledged is on disk, so a power loss changes no file of it.
LEMMA PowerLossKeeps ==
    ASSUME Custody, PowerLoss
    PROVE  Custody'
<1> USE CorpusAssumption DEF Custody, Preparing, Finding, Inside
<1> DEFINE Entries == {visible'[c] : c \in Contents} \ {None}
<1>1. /\ pc' = [v \in Vms |-> "down"] /\ build' = [v \in Vms |-> None]
      /\ active' = [v \in Vms |-> {}] /\ todo' = [v \in Vms |-> {}]
      /\ job' = [v \in Vms |-> None] /\ found' = [v \in Vms |-> None]
      /\ staging' = [v \in Vms |-> None] /\ durable' = visible'
      /\ policy' = policy /\ acked' = acked
  BY DEF PowerLoss
<1>2. \A c \in Contents : visible'[c] # None => visible'[c] = visible[c]
  BY DEF PowerLoss, Shelf
<1>3. /\ visible' \in [Contents -> Objects \cup {None}] /\ dir' \in {"absent", "durable"}
      /\ dirLost' \in BOOLEAN
  <2>1. visible' \in [Contents -> Objects \cup {None}]
    BY DEF PowerLoss, TypeOK
  <2>2. dir' \in {"absent", "durable"} /\ dirLost' \in BOOLEAN
    BY DEF PowerLoss, TypeOK
  <2> QED BY <2>1, <2>2
<1>4. \A o \in Entries : o \in Objects /\ OnDisk(o) /\ files[o] \in Object
  BY <1>2, <1>3 DEF Shelf, TypeOK
<1>5. PICK left \in [Entries -> UNION {Survivors(o) : o \in Entries}] :
          /\ \A o \in Entries : left[o] \in Survivors(o)
          /\ files' = [o \in Objects |-> IF o \in Entries THEN left[o] ELSE Blank(None)]
  BY DEF PowerLoss
<1>6. ASSUME NEW o \in Entries PROVE files'[o] = files[o]
  <2>1. files'[o] \in Survivors(o)
    BY <1>4, <1>5
  <2>2. /\ Remains(files[o].input, files[o].named) = {"synced"}
        /\ Remains(files[o].metadata, files[o].named) = {"synced"}
    BY <1>4 DEF OnDisk, Remains
  <2>3. files'[o] \in [input : {"synced"}, metadata : {"synced"}, named : {TRUE},
                      build : {files[o].build}]
    BY <2>1, <2>2 DEF Survivors
  <2>4. files[o] \in Object /\ OnDisk(o)
    BY <1>4
  <2>5. files[o] = [input |-> "synced", metadata |-> "synced", named |-> TRUE,
                    build |-> files[o].build]
    BY <2>4 DEF OnDisk, Object
  <2> QED BY <2>3, <2>5
<1>7. files' \in [Objects -> Object]
  BY <1>4, <1>5, <1>6 DEF Blank, Object, FileState
<1>8. TypeOK'
  BY <1>1, <1>3, <1>7 DEF TypeOK, Places
<1>9. Desk' /\ Private' /\ Progress' /\ Kin'
  BY <1>1, <1>2, <1>3 DEF Desk, Private, Progress, Kin, TypeOK
<1>10. Shelf'
  <2>1. \A c \in Contents : (visible[c] # None => OnDisk(visible[c]))'
    BY <1>2, <1>4, <1>6 DEF OnDisk, Shelf
  <2>2. dir' = "absent" => \A c \in Contents : visible'[c] = None
    BY DEF PowerLoss
  <2> QED BY <2>1, <2>2, <1>1 DEF Shelf
<1>11. Promises'
  <2> SUFFICES ASSUME ~dirLost', NEW a \in acked PROVE durable'[a[1]] = a[2]
    BY <1>1 DEF Promises
  <2>1. a[1] \in Contents /\ a[2] # None /\ ~dirLost
    BY DEF TypeOK, PowerLoss
  <2>2. durable[a[1]] = a[2] /\ visible[a[1]] = a[2]
    BY <2>1 DEF Promises, Shelf
  <2>3. dir # "absent"
    BY <2>1, <2>2 DEF Shelf
  <2>4. dir # "made" \/ dir' # "absent"
    BY DEF PowerLoss, TypeOK
  <2> QED BY <1>1, <2>1, <2>2, <2>3, <2>4 DEF PowerLoss, TypeOK
<1> QED BY <1>8, <1>9, <1>10, <1>11

LEMMA CustodyStep == Custody /\ [Next]_vars => Custody'
<1> SUFFICES ASSUME Custody, [Next]_vars PROVE Custody'
  OBVIOUS
<1>1. ASSUME NEW v \in Vms, Start(v) PROVE Custody'
  BY <1>1, StartKeeps
<1>2. ASSUME NEW v \in Vms, Restored(v) PROVE Custody'
  BY <1>2, RestoredKeeps
<1>3. ASSUME NEW v \in Vms, NEW c \in Contents, LoadEntry(v, c) PROVE Custody'
  BY <1>3, LoadKeeps
<1>4. ASSUME NEW v \in Vms, NEW c \in Contents, Save(v, c) PROVE Custody'
  BY <1>4, SaveKeeps
<1>5. ASSUME NEW v \in Vms, StatDirectory(v) PROVE Custody'
  BY <1>5, StatKeeps
<1>6. ASSUME NEW v \in Vms, MakeDirectory(v) PROVE Custody'
  BY <1>6, MakeDirectoryKeeps
<1>7. ASSUME NEW v \in Vms, SyncParent(v) PROVE Custody'
  BY <1>7, SyncParentKeeps
<1>8. ASSUME NEW v \in Vms, Lookup(v) PROVE Custody'
  BY <1>8, LookupKeeps
<1>9. ASSUME NEW v \in Vms, MakeStaging(v) PROVE Custody'
  BY <1>9, MakeStagingKeeps
<1>10. ASSUME NEW v \in Vms, WriteInput(v) PROVE Custody'
  BY <1>10, WriteInputKeeps
<1>11. ASSUME NEW v \in Vms, WriteMetadata(v) PROVE Custody'
  BY <1>11, WriteMetadataKeeps
<1>12. ASSUME NEW v \in Vms, SealStaging(v) PROVE Custody'
  BY <1>12, SealKeeps
<1>13. ASSUME NEW v \in Vms, Publish(v) PROVE Custody'
  BY <1>13, PublishKeeps
<1>14. ASSUME NEW v \in Vms, Existing(v) PROVE Custody'
  BY <1>14, ExistingKeeps
<1>15. ASSUME NEW v \in Vms, Settle(v) PROVE Custody'
  BY <1>15, SettleKeeps
<1>16. ASSUME NEW v \in Vms, Discard(v) PROVE Custody'
  BY <1>16, DiscardKeeps
<1>17. ASSUME NEW v \in Vms, Commit(v) PROVE Custody'
  BY <1>17, CommitKeeps
<1>18. ASSUME NEW v \in Vms, Aborts(v) PROVE Custody'
  BY <1>18, AbortKeeps
<1>19. CASE PowerLoss
  BY <1>19, PowerLossKeeps
<1>20. CASE UNCHANGED vars
  BY <1>20 DEF vars, campaign, writer, disk, observers, Custody, TypeOK, Desk, Private,
      Progress, Shelf, OnDisk, Promises, Kin
<1> QED BY <1>1, <1>2, <1>3, <1>4, <1>5, <1>6, <1>7, <1>8, <1>9, <1>10, <1>11, <1>12, <1>13, <1>14, <1>15, <1>16, <1>17, <1>18, <1>19, <1>20 DEF Next

-----------------------------------------------------------------------------
(* The store and its campaigns stay in good order, for any number of       *)
(* virtual machines, inputs, builds and crashes.                           *)
THEOREM CustodyHolds == Spec => []Custody
  BY InitCustody, CustodyStep, PTL DEF Spec

(* Every variable keeps its type.                                          *)
THEOREM StoreTyped == Spec => []TypeOK
<1>1. Custody => TypeOK BY DEF Custody
<1> QED BY <1>1, CustodyHolds, PTL

(* An acknowledged input survives every crash that leaves the directory.   *)
THEOREM AckedKept == Spec => []AckedIsKept
<1>1. Custody => AckedIsKept
  BY CorpusAssumption DEF Custody, AckedIsKept, Kept, Promises, Shelf, OnDisk, Whole, TypeOK
<1> QED BY <1>1, CustodyHolds, PTL

(* Under a content name there is a complete entry or none.                 *)
THEOREM EntriesWhole == Spec => []WholeOrAbsent
<1>1. Custody => WholeOrAbsent
  BY DEF Custody, WholeOrAbsent, Shelf, OnDisk, Whole
<1> QED BY <1>1, CustodyHolds, PTL

(* A strict campaign works with entries of its own build only.             *)
THEOREM QueueMatches == Spec => []QueueMatchesBuild
<1>1. Custody => QueueMatchesBuild
  BY DEF Custody, QueueMatchesBuild, Kin
<1> QED BY <1>1, CustodyHolds, PTL

(* No step but a power loss changes a published entry.                     *)
THEOREM EntriesStay == Spec => EntriesAreImmutable
<1> DEFINE Stays == ~PowerLoss =>
        \A c \in Contents : visible[c] # None => visible'[c] = visible[c]
<1>1. Custody /\ [Next]_vars => Stays
  BY DEF Next, vars, Custody, TypeOK, campaign, writer, disk, observers, Start, Restored, LoadEntry,
      Save, StatDirectory, MakeDirectory, SyncParent, Lookup, MakeStaging, WriteInput,
      WriteMetadata, SealStaging, Publish, Commit, Existing, Settle, Discard, Aborts
<1>2. [][Stays]_vars => EntriesAreImmutable
  BY PTL DEF EntriesAreImmutable
<1> QED BY <1>1, <1>2, CustodyHolds, PTL DEF Spec
=============================================================================
