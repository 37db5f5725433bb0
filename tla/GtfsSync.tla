------------------------------ MODULE GtfsSync ------------------------------
(***************************************************************************)
(* Import of static GTFS feeds: GtfsSyncService.import() with the services *)
(* it calls (GtfsDbService.tx, ZipFileService, WebResourceService,         *)
(* GtfsValidatorService and the interpolation post-processor).             *)
(*                                                                         *)
(* An importer is one running call of syncAllFeeds (a cron tick or a       *)
(* `cli sync`), which imports one feed after the other.  Importers on one  *)
(* host share the directory <tmpdir>/gtfs-import; all of them share the    *)
(* database: the rows of sync_lock, the partitions of each feed, and       *)
(* import_metadata.  One action is the code between two awaits, or one     *)
(* statement that the database executes atomically.                        *)
(*                                                                         *)
(* Data: an archive is a feed and the version of it that was published;    *)
(* its last-modified date, etag and hash are that version, and 0 is null.  *)
(* Of its files the model keeps the three whose absence the code tells     *)
(* apart; VACUUM changes no row and is left out.                           *)
(***************************************************************************)
EXTENDS Integers

CONSTANTS
  Feed,          \* feed codes that have a `gtfs.static` configuration
  Importer,      \* running calls of syncAllFeeds
  Host,          \* machines (or containers): one temporary directory each
  HostOf,        \* the host an importer runs on
  Served,        \* the headers a feed's server sends with its archive
  MaxVersion,    \* bound: how many versions of each archive are published
  ValidVersion,  \* the versions whose service dates pass the validator
  AllowForce,    \* whether `--force` is ever given
  FaultKinds,    \* the faults that may happen
  MaxFaults,     \* bound: how many times a step fails or a host crashes
  Nothing        \* no file, no row, nobody

Version == 1..MaxVersion
Header == {"lastModified", "etag"}
Fault == {"refused", "step", "finally", "crash"}
Archive == [feed : Feed, version : Version]
Metadata == [hash : 0..MaxVersion, lastModified : 0..MaxVersion,
             etag : 0..MaxVersion]

ASSUME HostAssumption == HostOf \in [Importer -> Host]
ASSUME ServedAssumption == Served \in [Feed -> SUBSET Header]
ASSUME VersionAssumption == MaxVersion \in Nat \ {0} /\ ValidVersion \subseteq Version
ASSUME FaultAssumption ==
  /\ AllowForce \in BOOLEAN
  /\ FaultKinds \subseteq Fault
  /\ MaxFaults \in Nat
ASSUME NothingAssumption ==
  Nothing \notin Feed \cup Archive \cup Metadata \cup Importer

(***************************************************************************)
(* agency.txt must be there or importRoutes throws, calendar.txt is what   *)
(* the validator reads, stop_times.txt stands for the files whose absence  *)
(* only empties their table.  They are imported in this order.             *)
(***************************************************************************)
File == {"agency", "calendar", "stop_times"}
Before(x) == CASE x = "agency" -> {}
               [] x = "calendar" -> {"agency"}
               [] x = "stop_times" -> {"agency", "calendar"}

Files == [File -> Archive \cup {Nothing}]
NoFiles == [x \in File |-> Nothing]

(* Where an importer is in import(): the step it takes next. *)
TryStage == {"head", "compare", "prepare", "mkdir", "download", "extract",
             "validate", "begin", "copy", "record", "interpolate"}
Stage == TryStage \cup {"idle", "release", "cleanup"}

ImporterState ==
  [stage    : Stage,
   feed     : Feed \cup {Nothing},
   force    : BOOLEAN,
   obtained : BOOLEAN,                    \* its own INSERT made the lock row
   resource : Metadata \cup {Nothing},    \* resourceMetadata, read once
   archive  : Archive \cup {Nothing},     \* the archive the GET returned
   done     : SUBSET File,                \* files extracted, then imported
   staged   : Files]                      \* rows written but not committed

Idle == [stage |-> "idle", feed |-> Nothing, force |-> FALSE,
         obtained |-> FALSE, resource |-> Nothing, archive |-> Nothing,
         done |-> {}, staged |-> NoFiles]

VARIABLES
  imp,           \* the state of each importer
  syncLock,      \* feed codes with a row in sync_lock
  tableLock,     \* who holds ACCESS EXCLUSIVE on a feed's partitions
  tables,        \* committed rows of each feed's partitions, by their origin
  metadata,      \* each feed's row of import_metadata
  interpolated,  \* whether the committed stop_times have been interpolated
  source,        \* the version each feed's server publishes now
  dirExists,     \* whether <tmpdir>/gtfs-import exists on a host
  dirFiles,      \* the files in it
  faultsLeft     \* how many faults may still happen

db == <<tables, metadata, interpolated, tableLock>>
dir == <<dirExists, dirFiles>>
world == <<source, faultsLeft>>
vars == <<imp, syncLock, db, dir, world>>

-----------------------------------------------------------------------------
Init ==
  /\ imp = [i \in Importer |-> Idle]
  /\ syncLock = {}
  /\ tableLock = [f \in Feed |-> Nothing]
  /\ tables = [f \in Feed |-> NoFiles]
  /\ metadata = [f \in Feed |-> Nothing]
  /\ interpolated = [f \in Feed |-> FALSE]
  /\ source = [f \in Feed |-> 1]
  /\ dirExists = [h \in Host |-> FALSE]
  /\ dirFiles = [h \in Host |-> NoFiles]
  /\ faultsLeft = MaxFaults

-----------------------------------------------------------------------------
(* Helpers: moving an importer on, the directory of its host. *)

At(i, s) == imp[i].stage = s
Goto(i, s) == imp' = [imp EXCEPT ![i].stage = s]

(* The try block is left: its variables are gone, the finally block runs. *)
Leave(i) == imp' = [imp EXCEPT ![i] = [Idle EXCEPT !.stage = "release",
                                                   !.feed = imp[i].feed,
                                                   !.obtained = imp[i].obtained]]
DirOf(i) == HostOf[i]

RemoveDir(h) ==
  /\ dirExists' = [dirExists EXCEPT ![h] = FALSE]
  /\ dirFiles' = [dirFiles EXCEPT ![h] = NoFiles]

MakeDir(h) ==
  /\ dirExists' = [dirExists EXCEPT ![h] = TRUE]
  /\ UNCHANGED dirFiles

Unlock(f) == tableLock' = [tableLock EXCEPT ![f] = Nothing]

(***************************************************************************)
(* What getResourceMetadata can answer for version v.  If the HEAD request *)
(* is refused, or neither header is sent, the archive is fetched and       *)
(* hashed; if that GET fails too, every field is null.                     *)
(***************************************************************************)
Hashed(h) == [hash |-> h, lastModified |-> 0, etag |-> 0]

Accepted(f, v) ==
  IF Served[f] = {} THEN Hashed(v)
  ELSE [hash |-> 0,
        lastModified |-> IF "lastModified" \in Served[f] THEN v ELSE 0,
        etag |-> IF "etag" \in Served[f] THEN v ELSE 0]

ResourceMetadata(f, v) ==
  {Accepted(f, v)}
    \cup (IF "refused" \in FaultKinds THEN {Hashed(v), Hashed(0)} ELSE {})

(* A mistaken isResourceNewer: the comparisons are the wrong way round. *)
IsResourceNewer_Reversed(r, current) ==
  IF current = Nothing THEN TRUE
  ELSE IF r.hash # 0 /\ current.hash # 0 THEN r.hash = current.hash
  ELSE IF r.lastModified # 0 THEN r.lastModified < current.lastModified
  ELSE IF r.etag # 0 THEN r.etag = current.etag
  ELSE TRUE

(* isResourceNewer: is the resource newer than what was last imported? *)
IsResourceNewer(r, current) ==
  IF current = Nothing THEN TRUE
  ELSE IF r.hash # 0 /\ current.hash # 0 THEN r.hash # current.hash
  ELSE IF r.lastModified # 0 THEN r.lastModified > current.lastModified
  ELSE IF r.etag # 0 THEN r.etag # current.etag
  ELSE TRUE

-----------------------------------------------------------------------------
(* The steps of import(). *)

(* A mistaken obtainSyncLock: INSERT ... ON CONFLICT DO NOTHING. *)
StartImport_IgnoresConflict(i, f, force) ==
  /\ At(i, "idle")
  /\ force => AllowForce
  /\ syncLock' = syncLock \cup {f}
  /\ imp' = [imp EXCEPT ![i] = [Idle EXCEPT !.stage = "head", !.feed = f,
                                            !.force = force, !.obtained = TRUE]]
  /\ UNCHANGED <<db, dir, world>>

(***************************************************************************)
(* obtainSyncLock: INSERT the feed's row.  On a conflict a forced import   *)
(* proceeds without it; any other throws SyncLockError before the try      *)
(* block, which changes nothing.                                           *)
(***************************************************************************)
StartImport(i, f, force) ==
  /\ At(i, "idle")
  /\ force => AllowForce
  /\ f \in syncLock => force
  /\ syncLock' = syncLock \cup {f}
  /\ imp' = [imp EXCEPT ![i] = [Idle EXCEPT !.stage = "head", !.feed = f,
                                            !.force = force,
                                            !.obtained = f \notin syncLock]]
  /\ UNCHANGED <<db, dir, world>>

(* HEAD (and perhaps GET); a forced import skips the comparison. *)
GetResourceMetadata(i) ==
  /\ At(i, "head")
  /\ \E r \in ResourceMetadata(imp[i].feed, source[imp[i].feed]) :
       imp' = [imp EXCEPT ![i].resource = r,
                          ![i].stage = IF imp[i].force THEN "prepare"
                                                       ELSE "compare"]
  /\ UNCHANGED <<syncLock, db, dir, world>>

(* A mistaken early return, outside the try block. *)
CompareMetadata_ReturnsEarly(i) ==
  /\ At(i, "compare")
  /\ IF IsResourceNewer(imp[i].resource, metadata[imp[i].feed])
     THEN Goto(i, "prepare")
     ELSE imp' = [imp EXCEPT ![i] = Idle]
  /\ UNCHANGED <<syncLock, db, dir, world>>

CompareMetadata(i) ==
  /\ At(i, "compare")
  /\ IF IsResourceNewer(imp[i].resource, metadata[imp[i].feed])
     THEN Goto(i, "prepare")
     ELSE Leave(i)
  /\ UNCHANGED <<syncLock, db, dir, world>>

(***************************************************************************)
(* existsSync and mkdirSync run in one go when the directory is absent;    *)
(* otherwise there is an await (the rm) between them, and mkdirSync throws *)
(* if the directory is back by then.                                       *)
(***************************************************************************)
PrepareDirectory(i) ==
  /\ At(i, "prepare")
  /\ \/ /\ ~dirExists[DirOf(i)]
        /\ MakeDir(DirOf(i))
        /\ Goto(i, "download")
     \/ /\ dirExists[DirOf(i)]
        /\ RemoveDir(DirOf(i))
        /\ Goto(i, "mkdir")
  /\ UNCHANGED <<syncLock, db, world>>

MakeDirectory(i) ==
  /\ At(i, "mkdir")
  /\ \/ /\ ~dirExists[DirOf(i)]
        /\ MakeDir(DirOf(i))
        /\ Goto(i, "download")
     \/ /\ dirExists[DirOf(i)]
        /\ Leave(i)
        /\ UNCHANGED dir
  /\ UNCHANGED <<syncLock, db, world>>

(* The GET of downloadAndExtract: what is published now, not at the HEAD. *)
StartDownload(i) ==
  LET f == imp[i].feed IN
  /\ At(i, "download")
  /\ imp' = [imp EXCEPT ![i].archive = [feed |-> f, version |-> source[f]],
                        ![i].stage = "extract"]
  /\ UNCHANGED <<syncLock, db, dir, world>>

(* The extractor creates the directories a file needs, then the file. *)
ExtractFile(i, x) ==
  /\ At(i, "extract")
  /\ x \notin imp[i].done
  /\ imp' = [imp EXCEPT ![i].done = @ \cup {x}]
  /\ dirExists' = [dirExists EXCEPT ![DirOf(i)] = TRUE]
  /\ dirFiles' = [dirFiles EXCEPT ![DirOf(i)][x] = imp[i].archive]
  /\ UNCHANGED <<syncLock, db, world>>

(* A mistaken extraction that resolves before every file is written. *)
FinishExtract_TooEarly(i) ==
  /\ At(i, "extract")
  /\ IF dirExists[DirOf(i)] THEN Goto(i, "validate") ELSE Leave(i)
  /\ UNCHANGED <<syncLock, db, dir, world>>

(* flattenDirectory reads the directory and throws if it is gone. *)
FinishExtract(i) ==
  /\ At(i, "extract")
  /\ imp[i].done = File
  /\ IF dirExists[DirOf(i)] THEN Goto(i, "validate") ELSE Leave(i)
  /\ UNCHANGED <<syncLock, db, dir, world>>

(***************************************************************************)
(* createPartitions changes no row; validateFeed needs a service date that *)
(* is not in the future, and finds none in a file that is missing.         *)
(***************************************************************************)
ValidateFeed(i) ==
  LET calendar == dirFiles[DirOf(i)]["calendar"] IN
  /\ At(i, "validate")
  /\ IF calendar # Nothing /\ calendar.version \in ValidVersion
     THEN Goto(i, "begin")
     ELSE Leave(i)
  /\ UNCHANGED <<syncLock, db, dir, world>>

(* BEGIN and the nine TRUNCATEs; the first waits for ACCESS EXCLUSIVE. *)
BeginImport(i) ==
  /\ At(i, "begin")
  /\ tableLock[imp[i].feed] = Nothing
  /\ tableLock' = [tableLock EXCEPT ![imp[i].feed] = i]
  /\ imp' = [imp EXCEPT ![i].stage = "copy", ![i].done = {},
                        ![i].staged = NoFiles]
  /\ UNCHANGED <<syncLock, tables, metadata, interpolated, dir, world>>

(***************************************************************************)
(* importGtfsFile: a missing file is skipped and its table stays empty,    *)
(* except that importRoutes, which comes before stop_times, throws when    *)
(* there is no agency row; the transaction is then rolled back.            *)
(***************************************************************************)
CopyFile(i, x) ==
  /\ At(i, "copy")
  /\ x \notin imp[i].done
  /\ Before(x) \subseteq imp[i].done
  /\ IF x = "stop_times" /\ imp[i].staged["agency"] = Nothing
     THEN Leave(i) /\ Unlock(imp[i].feed)
     ELSE /\ imp' = [imp EXCEPT ![i].done = @ \cup {x},
                                ![i].staged[x] = dirFiles[DirOf(i)][x]]
          /\ UNCHANGED tableLock
  /\ UNCHANGED <<syncLock, tables, metadata, interpolated, dir, world>>

Commit(i) ==
  LET f == imp[i].feed IN
  /\ tables' = [tables EXCEPT ![f] = imp[i].staged]
  /\ interpolated' = [interpolated EXCEPT ![f] = FALSE]

CommitImport(i) ==
  /\ At(i, "copy")
  /\ imp[i].done = File
  /\ Commit(i)
  /\ Unlock(imp[i].feed)
  /\ imp' = [imp EXCEPT ![i].stage = "record", ![i].archive = Nothing,
                        ![i].done = {}, ![i].staged = NoFiles]
  /\ UNCHANGED <<syncLock, metadata, dir, world>>

(* A mistaken upsert of what the server answers by now. *)
UpsertImportMetadata_Refetched(i) ==
  /\ At(i, "record")
  /\ metadata' = [metadata EXCEPT ![imp[i].feed] =
                                Accepted(imp[i].feed, source[imp[i].feed])]
  /\ Goto(i, "interpolate")
  /\ UNCHANGED <<syncLock, tables, interpolated, tableLock, dir, world>>

(* A mistaken upsert that binds the feed code to the etag. *)
UpsertImportMetadata_Swapped(i) ==
  /\ At(i, "record")
  /\ metadata' = [metadata EXCEPT ![imp[i].feed] =
                                [imp[i].resource EXCEPT !.etag = imp[i].feed]]
  /\ Goto(i, "interpolate")
  /\ UNCHANGED <<syncLock, tables, interpolated, tableLock, dir, world>>

(* A mistaken upsert that ends the import when the feed had a row already. *)
UpsertImportMetadata_ReturnsEarly(i) ==
  /\ At(i, "record")
  /\ metadata' = [metadata EXCEPT ![imp[i].feed] = imp[i].resource]
  /\ IF metadata[imp[i].feed] = Nothing
     THEN Goto(i, "interpolate") ELSE Leave(i)
  /\ UNCHANGED <<syncLock, tables, interpolated, tableLock, dir, world>>

(* upsertImportMetadata: a statement of its own, after the transaction. *)
UpsertImportMetadata(i) ==
  /\ At(i, "record")
  /\ metadata' = [metadata EXCEPT ![imp[i].feed] = imp[i].resource]
  /\ Goto(i, "interpolate")
  /\ UNCHANGED <<syncLock, tables, interpolated, tableLock, dir, world>>

(* The UPDATEs wait for an import that has truncated the partition. *)
Interpolate(i) ==
  /\ At(i, "interpolate")
  /\ tableLock[imp[i].feed] = Nothing
  /\ interpolated' = [interpolated EXCEPT ![imp[i].feed] = TRUE]
  /\ Leave(i)
  /\ UNCHANGED <<syncLock, tables, metadata, tableLock, dir, world>>

(* The finally block: DELETE by feed code, whoever inserted the row. *)
ReleaseSyncLock(i) ==
  /\ At(i, "release")
  /\ syncLock' = syncLock \ {imp[i].feed}
  /\ Goto(i, "cleanup")
  /\ UNCHANGED <<db, dir, world>>

CleanUp(i) ==
  /\ At(i, "cleanup")
  /\ RemoveDir(DirOf(i))
  /\ imp' = [imp EXCEPT ![i] = Idle]
  /\ UNCHANGED <<syncLock, db, world>>

-----------------------------------------------------------------------------
(* Faults. *)

Faulty(kind) ==
  /\ kind \in FaultKinds
  /\ faultsLeft > 0
  /\ faultsLeft' = faultsLeft - 1
  /\ UNCHANGED source

(* A mistaken db.tx that commits what was written so far. *)
FailStep_KeepsRows(i) ==
  LET f == imp[i].feed IN
  /\ Faulty("step")
  /\ imp[i].stage \in TryStage
  /\ Leave(i)
  /\ IF tableLock[f] = i THEN Unlock(f) ELSE UNCHANGED tableLock
  /\ IF At(i, "copy") THEN Commit(i) ELSE UNCHANGED <<tables, interpolated>>
  /\ UNCHANGED <<syncLock, metadata, dir>>

(***************************************************************************)
(* An awaited call of the try block rejects: a request, a file operation,  *)
(* a statement.  An open transaction is rolled back; if the statement was  *)
(* COMMIT, the database may have executed it all the same.                 *)
(***************************************************************************)
FailStep(i) ==
  LET f == imp[i].feed IN
  /\ Faulty("step")
  /\ imp[i].stage \in TryStage
  /\ Leave(i)
  /\ IF tableLock[f] = i THEN Unlock(f) ELSE UNCHANGED tableLock
  /\ \/ UNCHANGED <<tables, interpolated>>
     \/ At(i, "copy") /\ imp[i].done = File /\ Commit(i)
  /\ UNCHANGED <<syncLock, metadata, dir>>

(***************************************************************************)
(* A call of the finally block rejects: the rest of it is skipped.  The    *)
(* DELETE may have been executed or not.                                   *)
(***************************************************************************)
FailFinally(i) ==
  /\ Faulty("finally")
  /\ \/ At(i, "release") /\ syncLock' \in {syncLock, syncLock \ {imp[i].feed}}
     \/ At(i, "cleanup") /\ UNCHANGED syncLock
  /\ imp' = [imp EXCEPT ![i] = Idle]
  /\ UNCHANGED <<db, dir>>

(* The process or machine dies: its open transactions are rolled back. *)
Crash(h) ==
  /\ Faulty("crash")
  /\ \E i \in Importer : HostOf[i] = h /\ ~At(i, "idle")
  /\ imp' = [i \in Importer |-> IF HostOf[i] = h THEN Idle ELSE imp[i]]
  /\ tableLock' = [f \in Feed |->
                     IF \E i \in Importer : HostOf[i] = h /\ tableLock[f] = i
                     THEN Nothing ELSE tableLock[f]]
  /\ UNCHANGED <<syncLock, tables, metadata, interpolated, dir>>

(* The agency publishes a new archive. *)
Publish(f) ==
  /\ source[f] < MaxVersion
  /\ source' = [source EXCEPT ![f] = @ + 1]
  /\ UNCHANGED <<imp, syncLock, db, dir, faultsLeft>>

-----------------------------------------------------------------------------
(* What an importer does once it has started, without faults. *)
Continue(i) ==
  \/ GetResourceMetadata(i) \/ CompareMetadata(i)
  \/ PrepareDirectory(i) \/ MakeDirectory(i)
  \/ StartDownload(i) \/ FinishExtract(i) \/ ValidateFeed(i)
  \/ BeginImport(i) \/ CommitImport(i)
  \/ UpsertImportMetadata(i) \/ Interpolate(i)
  \/ ReleaseSyncLock(i) \/ CleanUp(i)
  \/ \E x \in File : ExtractFile(i, x) \/ CopyFile(i, x)

Next ==
  \/ \E i \in Importer :
       \/ \E f \in Feed, force \in BOOLEAN : StartImport(i, f, force)
       \/ Continue(i)
       \/ FailStep(i)
       \/ FailFinally(i)
  \/ \E h \in Host : Crash(h)
  \/ \E f \in Feed : Publish(f)

Spec == Init /\ [][Next]_vars

(***************************************************************************)
(* An import that has started goes on (the event loop and the database are *)
(* live), the database grants its locks in order, and the schedule runs a  *)
(* sync of every feed again and again.  Nothing forces a `--force`, a new  *)
(* archive or a fault.                                                     *)
(***************************************************************************)
Fairness ==
  /\ \A i \in Importer : WF_vars(Continue(i)) /\ SF_vars(BeginImport(i))
                            /\ SF_vars(Interpolate(i))
  /\ \A i \in Importer, f \in Feed : SF_vars(StartImport(i, f, FALSE))

FairSpec == Spec /\ Fairness

-----------------------------------------------------------------------------
(* Properties. *)

(* The variables have their types. *)
TypeOK ==
  /\ imp \in [Importer -> ImporterState]
  /\ syncLock \subseteq Feed
  /\ tableLock \in [Feed -> Importer \cup {Nothing}]
  /\ tables \in [Feed -> Files]
  /\ metadata \in [Feed -> Metadata \cup {Nothing}]
  /\ interpolated \in [Feed -> BOOLEAN]
  /\ source \in [Feed -> Version]
  /\ dirExists \in [Host -> BOOLEAN]
  /\ dirFiles \in [Host -> Files]
  /\ faultsLeft \in 0..MaxFaults

(* Every importer has the temporary directory to itself. *)
PrivateHosts == \A i, j \in Importer : HostOf[i] = HostOf[j] => i = j

InLockedSection(i) == imp[i].stage \in TryStage \cup {"release"}

(***************************************************************************)
(* Two importers that both obtained the lock never import the same feed at *)
(* the same time (sync_lock's primary key is the feed code).  It needs     *)
(* that releaseSyncLock deletes only the importer's own row.               *)
(***************************************************************************)
SyncLockExclusive ==
  \A i, j \in Importer :
    /\ imp[i].obtained /\ InLockedSection(i)
    /\ imp[j].obtained /\ InLockedSection(j)
    /\ imp[i].feed = imp[j].feed
    => i = j

Holds(rows, f, v) == rows = [x \in File |-> [feed |-> f, version |-> v]]

(***************************************************************************)
(* What a query sees of a feed is nothing, or one archive of this feed,    *)
(* whole: no failure, crash or concurrent import leaves a table empty or   *)
(* filled from another archive (importFromDirectory's transaction and the  *)
(* directory it reads).                                                    *)
(***************************************************************************)
TablesWhole ==
  \A f \in Feed : tables[f] = NoFiles
                  \/ \E v \in Version : Holds(tables[f], f, v)

(***************************************************************************)
(* import_metadata never claims more than the partitions hold: no version  *)
(* is recorded before its data, or newer data, is committed.  Otherwise    *)
(* isResourceNewer would skip a version that was never imported.           *)
(***************************************************************************)
MetadataBehindData ==
  \A f \in Feed : metadata[f] # Nothing =>
    \A x \in File :
      /\ tables[f][x] # Nothing
      /\ \A v \in {metadata[f].hash, metadata[f].lastModified, metadata[f].etag} :
           v <= tables[f][x].version

(***************************************************************************)
(* An import is skipped ("Feed is not newer") only when the partitions     *)
(* hold the version that the server offered, or a newer one.               *)
(***************************************************************************)
SkipOnlyWhenCurrent ==
  [][\A i \in Importer :
       /\ At(i, "compare") /\ imp'[i].stage = "release"
       /\ faultsLeft' = faultsLeft
       => \A v \in {imp[i].resource.hash, imp[i].resource.lastModified,
                    imp[i].resource.etag} :
            v <= tables[imp[i].feed]["stop_times"].version]_vars

(***************************************************************************)
(* The refinement: the version a feed's partitions hold is 0 when they are *)
(* empty, and -1, which FeedStore never serves, when they are not one      *)
(* whole archive of the feed.                                              *)
(***************************************************************************)
ServedVersion(f) ==
  IF tables[f] = NoFiles THEN 0
  ELSE IF \E v \in Version : Holds(tables[f], f, v)
       THEN tables[f]["stop_times"].version
       ELSE -1

RecordedVersion(f) ==
  IF metadata[f] = Nothing THEN 0
  ELSE LET claims == {metadata[f].hash, metadata[f].lastModified,
                      metadata[f].etag}
       IN  CHOOSE v \in claims : \A w \in claims : w <= v

Store == INSTANCE FeedStore WITH
  published <- source,
  served <- [f \in Feed |-> ServedVersion(f)],
  recorded <- [f \in Feed |-> RecordedVersion(f)]

(* The import, with all its failures and crashes, implements FeedStore. *)
ImplementsFeedStore == Store!Spec

(***************************************************************************)
(* The data of a feed comes from the URL configured for this feed, not     *)
(* from what another import left in the directory.                         *)
(***************************************************************************)
TablesFromOwnSource ==
  \A f \in Feed, x \in File :
    tables[f][x] # Nothing => tables[f][x].feed = f

(***************************************************************************)
(* Whatever happens to the directory, no feed is ever served without the   *)
(* agency every route refers to: an import that lost agency.txt on the way *)
(* must throw (importRoutes) and leave the previous data in place.         *)
(***************************************************************************)
ServedWithAgency ==
  \A f \in Feed : tables[f] # NoFiles => tables[f]["agency"] # Nothing

(* Nobody is importing feed f, and a sync whose requests are answered will
   find that it is not newer. *)
UpToDate(f) ==
  /\ \A i \in Importer : imp[i].feed # f
  /\ ~IsResourceNewer(Accepted(f, source[f]), metadata[f])

(***************************************************************************)
(* The stop times of a feed that the next sync will leave alone have been  *)
(* interpolated, as long as nothing has failed: every import that replaces *)
(* the rows comes to its post-processing before another one may skip it.   *)
(* After a failure between the two this need not be so: the metadata has   *)
(* been recorded by then, and post-processing is not made again.           *)
(***************************************************************************)
InterpolatedUnlessFault ==
  \A f \in Feed :
    faultsLeft = MaxFaults /\ UpToDate(f) => interpolated[f]

(* Every version that passes validation is imported, unless the agency
   replaces it first: the schedule keeps the data up to date. *)
PublishedEventuallyImported ==
  \A f \in Feed, v \in ValidVersion :
    source[f] = v ~> (Holds(tables[f], f, v) \/ source[f] > v)

(* A row of sync_lock is left behind: no import is there to delete it. *)
Abandoned(f) ==
  /\ f \in syncLock
  /\ \A i \in Importer : ~(imp[i].feed = f /\ InLockedSection(i))

(***************************************************************************)
(* Only a process that dies, or a DELETE that fails, leaves a row behind,  *)
(* which then keeps the schedule out for good: whichever step of import()  *)
(* fails, and wherever it returns early, it comes to the finally block.    *)
(***************************************************************************)
LockLeftOnlyByCrash ==
  [][\A f \in Feed :
       Abandoned(f)' /\ ~Abandoned(f)
       => \/ \E h \in Host : Crash(h)
          \/ \E i \in Importer : At(i, "release") /\ FailFinally(i)]_vars

(* Where no process dies, the lock of a feed never stays taken. *)
SyncLockEventuallyFree ==
  \A f \in Feed : f \in syncLock ~> f \notin syncLock
=============================================================================
