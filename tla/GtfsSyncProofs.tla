-------------------------- MODULE GtfsSyncProofs --------------------------
(***************************************************************************)
(* Proofs about GtfsSync for every set of feeds, importers and hosts, any  *)
(* number of published versions and any number of faults.                  *)
(*                                                                         *)
(* Last, what import_metadata claims of the data: no version is skipped    *)
(* that was not imported, and the import implements FeedStore, where the   *)
(* lock excludes (no --force) and each importer has its own directory; and *)
(* wherever nothing fails, no version is skipped that was not              *)
(* interpolated.                                                           *)
(***************************************************************************)
EXTENDS GtfsSync, TLAPS

LEMMA IdleType == Idle \in ImporterState
BY DEF Idle, ImporterState, Stage, Files, NoFiles

LEMMA ResourceType ==
  ASSUME NEW f \in Feed, NEW v \in Version
  PROVE  ResourceMetadata(f, v) \subseteq Metadata
BY VersionAssumption
   DEF ResourceMetadata, Accepted, Hashed, Metadata, Version

(* The importers are well typed, and one that is at work has a feed. *)
ImpTypeOK ==
  /\ imp \in [Importer -> ImporterState]
  /\ \A i \in Importer : imp[i].stage # "idle" => imp[i].feed \in Feed

(* What they share is well typed. *)
DbTypeOK ==
  /\ syncLock \subseteq Feed
  /\ tableLock \in [Feed -> Importer \cup {Nothing}]
  /\ tables \in [Feed -> Files]
  /\ metadata \in [Feed -> Metadata \cup {Nothing}]
  /\ interpolated \in [Feed -> BOOLEAN]

DirTypeOK ==
  /\ dirExists \in [Host -> BOOLEAN]
  /\ dirFiles \in [Host -> Files]

WorldTypeOK ==
  /\ source \in [Feed -> Version]
  /\ faultsLeft \in 0..MaxFaults

TypeInv == ImpTypeOK /\ DbTypeOK /\ DirTypeOK /\ WorldTypeOK

LEMMA TypeInvImpliesTypeOK == TypeInv => TypeOK
BY DEF TypeInv, ImpTypeOK, DbTypeOK, DirTypeOK, WorldTypeOK, TypeOK

(* One importer changes, into a well-typed state. *)
LEMMA ImporterSteps ==
  ASSUME ImpTypeOK, NEW i \in Importer, NEW r \in ImporterState,
         r.stage # "idle" => r.feed \in Feed,
         imp' = [imp EXCEPT ![i] = r]
  PROVE  ImpTypeOK'
BY DEF ImpTypeOK

LEMMA ImporterGoesTo ==
  ASSUME ImpTypeOK, NEW i \in Importer, NEW s \in Stage,
         imp[i].stage # "idle", Goto(i, s)
  PROVE  ImpTypeOK'
<1>1. [imp[i] EXCEPT !.stage = s] \in ImporterState
  BY DEF ImpTypeOK, ImporterState
<1>2. [imp[i] EXCEPT !.stage = s].feed \in Feed
  BY DEF ImpTypeOK, ImporterState
<1>3. imp' = [imp EXCEPT ![i] = [imp[i] EXCEPT !.stage = s]]
  BY DEF Goto, ImpTypeOK
<1> QED
  BY <1>1, <1>2, <1>3, ImporterSteps

LEMMA ImporterLeaves ==
  ASSUME ImpTypeOK, NEW i \in Importer, imp[i].stage # "idle", Leave(i)
  PROVE  ImpTypeOK'
<1> DEFINE r == [Idle EXCEPT !.stage = "release", !.feed = imp[i].feed,
                             !.obtained = imp[i].obtained]
<1>1. r \in ImporterState /\ r.feed \in Feed
  BY IdleType DEF ImpTypeOK, ImporterState, Idle, Stage
<1>2. imp' = [imp EXCEPT ![i] = r]
  BY DEF Leave
<1> QED
  BY <1>1, <1>2, ImporterSteps

LEMMA ImporterEnds ==
  ASSUME ImpTypeOK, NEW i \in Importer, imp' = [imp EXCEPT ![i] = Idle]
  PROVE  ImpTypeOK'
BY IdleType, ImporterSteps DEF Idle

LEMMA DirectoryType ==
  ASSUME DirTypeOK, NEW h \in Host
  PROVE  (MakeDir(h) => DirTypeOK') /\ (RemoveDir(h) => DirTypeOK')
BY DEF DirTypeOK, MakeDir, RemoveDir, Files, NoFiles

(* The parts of an importer's state that its steps rewrite together. *)
LEMMA ImporterUpdate ==
  ASSUME NEW r \in ImporterState, NEW s \in Stage,
         NEW a \in Archive \cup {Nothing},
         NEW d \in SUBSET File, NEW fs \in Files
  PROVE  /\ [r EXCEPT !.stage = s, !.done = d, !.staged = fs] \in ImporterState
         /\ [r EXCEPT !.stage = s, !.archive = a, !.done = d, !.staged = fs]
              \in ImporterState
BY DEF ImporterState

(* A busy importer's state. *)
LEMMA BusyState ==
  ASSUME ImpTypeOK, NEW i \in Importer, imp[i].stage # "idle"
  PROVE  imp[i] \in ImporterState /\ imp[i].feed \in Feed
BY DEF ImpTypeOK

(* A file is put where another was. *)
LEMMA FileType ==
  ASSUME NEW fs \in Files, NEW x \in File, NEW a \in Archive \cup {Nothing}
  PROVE  [fs EXCEPT ![x] = a] \in Files
BY DEF Files

-----------------------------------------------------------------------------
(* Every reachable state is well typed, and a busy importer has a feed. *)
LEMMA TypeInvInit == Init => TypeInv
BY IdleType, HostAssumption, FaultAssumption, VersionAssumption
   DEF Init, TypeInv, ImpTypeOK, DbTypeOK, DirTypeOK, WorldTypeOK,
       Files, NoFiles, Version, Idle

LEMMA TypeInvStep == TypeInv /\ [Next]_vars => TypeInv'
<1> SUFFICES ASSUME ImpTypeOK, DbTypeOK, DirTypeOK, WorldTypeOK, [Next]_vars
             PROVE  ImpTypeOK' /\ DbTypeOK' /\ DirTypeOK' /\ WorldTypeOK'
  BY DEF TypeInv
<1>d. UNCHANGED dir => DirTypeOK'
  BY DEF dir, DirTypeOK
<1>b. UNCHANGED <<syncLock, db>> => DbTypeOK'
  BY DEF db, DbTypeOK
<1>w. UNCHANGED world => WorldTypeOK'
  BY DEF world, WorldTypeOK
<1>h. \A i \in Importer : DirOf(i) \in Host
  BY HostAssumption DEF DirOf
<1>n. NoFiles \in Files
  BY DEF NoFiles, Files
<1>s. TryStage \subseteq Stage /\ {"release", "cleanup"} \subseteq Stage
  BY DEF Stage
<1>f. \A k : Faulty(k) => WorldTypeOK'
  BY FaultAssumption DEF Faulty, WorldTypeOK
<1>1. ASSUME NEW i \in Importer, NEW f \in Feed, NEW force \in BOOLEAN,
             StartImport(i, f, force)
      PROVE  ImpTypeOK' /\ DbTypeOK' /\ DirTypeOK' /\ WorldTypeOK'
  <2> DEFINE r == [Idle EXCEPT !.stage = "head", !.feed = f, !.force = force,
                               !.obtained = f \notin syncLock]
  <2>1. r \in ImporterState /\ r.feed \in Feed
    BY IdleType DEF ImporterState, Idle, Stage, TryStage
  <2>2. imp' = [imp EXCEPT ![i] = r]
    BY <1>1 DEF StartImport
  <2>3. ImpTypeOK'
    BY <2>1, <2>2, ImporterSteps
  <2>4. DbTypeOK'
    BY <1>1 DEF StartImport, DbTypeOK, db
  <2> QED
    BY <1>1, <2>3, <2>4, <1>d, <1>w DEF StartImport
<1>2. ASSUME NEW i \in Importer, GetResourceMetadata(i)
      PROVE  ImpTypeOK' /\ DbTypeOK' /\ DirTypeOK' /\ WorldTypeOK'
  <2>1. PICK r \in ResourceMetadata(imp[i].feed, source[imp[i].feed]) :
          imp' = [imp EXCEPT ![i].resource = r,
                             ![i].stage = IF imp[i].force THEN "prepare"
                                                          ELSE "compare"]
    BY <1>2 DEF GetResourceMetadata
  <2>2. imp[i].feed \in Feed /\ source[imp[i].feed] \in Version
    BY <1>2 DEF GetResourceMetadata, At, ImpTypeOK, WorldTypeOK
  <2>3. r \in Metadata
    BY <2>2, ResourceType
  <2> DEFINE q == [imp[i] EXCEPT !.resource = r,
                                 !.stage = IF imp[i].force THEN "prepare"
                                                           ELSE "compare"]
  <2>4. q \in ImporterState /\ q.feed \in Feed
    <3>1. imp[i] \in ImporterState
      BY DEF ImpTypeOK
    <3>2. (IF imp[i].force THEN "prepare" ELSE "compare") \in Stage
      BY DEF Stage, TryStage
    <3>3. q \in ImporterState
      BY <2>3, <3>1, <3>2 DEF ImporterState
    <3>4. q.feed = imp[i].feed
      BY <3>1 DEF ImporterState
    <3> QED
      BY <2>2, <3>3, <3>4
  <2>5. imp' = [imp EXCEPT ![i] = q]
    BY <2>1 DEF ImpTypeOK
  <2>6. ImpTypeOK'
    BY <2>4, <2>5, ImporterSteps
  <2> QED
    BY <1>2, <2>6, <1>b, <1>d, <1>w DEF GetResourceMetadata
<1>3. ASSUME NEW i \in Importer, CompareMetadata(i)
      PROVE  ImpTypeOK' /\ DbTypeOK' /\ DirTypeOK' /\ WorldTypeOK'
  <2>1. ImpTypeOK'
    BY <1>3, <1>s, ImporterGoesTo, ImporterLeaves
       DEF CompareMetadata, At, TryStage
  <2> QED
    BY <1>3, <2>1, <1>b, <1>d, <1>w DEF CompareMetadata
<1>4. ASSUME NEW i \in Importer, PrepareDirectory(i)
      PROVE  ImpTypeOK' /\ DbTypeOK' /\ DirTypeOK' /\ WorldTypeOK'
  <2>1. ImpTypeOK'
    BY <1>4, <1>s, ImporterGoesTo, ImporterLeaves
       DEF PrepareDirectory, At, TryStage
  <2>2. DirTypeOK'
    BY <1>4, <1>h, <1>d, DirectoryType DEF PrepareDirectory
  <2> QED
    BY <1>4, <2>1, <2>2, <1>b, <1>w DEF PrepareDirectory, db
<1>5. ASSUME NEW i \in Importer, MakeDirectory(i)
      PROVE  ImpTypeOK' /\ DbTypeOK' /\ DirTypeOK' /\ WorldTypeOK'
  <2>1. ImpTypeOK'
    BY <1>5, <1>s, ImporterGoesTo, ImporterLeaves
       DEF MakeDirectory, At, TryStage
  <2>2. DirTypeOK'
    BY <1>5, <1>h, <1>d, DirectoryType DEF MakeDirectory
  <2> QED
    BY <1>5, <2>1, <2>2, <1>b, <1>w DEF MakeDirectory, db
<1>6. ASSUME NEW i \in Importer, StartDownload(i)
      PROVE  ImpTypeOK' /\ DbTypeOK' /\ DirTypeOK' /\ WorldTypeOK'
  <2>1. imp[i].feed \in Feed
    BY <1>6 DEF StartDownload, At, ImpTypeOK
  <2>2. [feed |-> imp[i].feed, version |-> source[imp[i].feed]] \in Archive
    BY <2>1 DEF WorldTypeOK, Archive
  <2> DEFINE q == [imp[i] EXCEPT !.archive = [feed |-> imp[i].feed,
                                              version |-> source[imp[i].feed]],
                                 !.stage = "extract"]
  <2>3. q \in ImporterState /\ q.feed \in Feed
    BY <2>1, <2>2 DEF ImpTypeOK, ImporterState, Stage, TryStage
  <2>4. imp' = [imp EXCEPT ![i] = q]
    BY <1>6 DEF StartDownload, ImpTypeOK
  <2>5. ImpTypeOK'
    BY <2>3, <2>4, ImporterSteps
  <2> QED
    BY <1>6, <2>5, <1>b, <1>d, <1>w DEF StartDownload
<1>7. ASSUME NEW i \in Importer, NEW x \in File, ExtractFile(i, x)
      PROVE  ImpTypeOK' /\ DbTypeOK' /\ DirTypeOK' /\ WorldTypeOK'
  <2> DEFINE q == [imp[i] EXCEPT !.done = @ \cup {x}]
  <2>1. q \in ImporterState /\ q.feed \in Feed
    BY <1>7 DEF ExtractFile, At, ImpTypeOK, ImporterState
  <2>2. imp' = [imp EXCEPT ![i] = q]
    BY <1>7 DEF ExtractFile, ImpTypeOK
  <2>3. ImpTypeOK'
    BY <2>1, <2>2, ImporterSteps
  <2>4. imp[i].archive \in Archive \cup {Nothing}
    BY DEF ImpTypeOK, ImporterState
  <2>5. [dirFiles[DirOf(i)] EXCEPT ![x] = imp[i].archive] \in Files
    BY <2>4, <1>h, FileType DEF DirTypeOK
  <2>6. dirFiles' = [dirFiles EXCEPT ![DirOf(i)] =
                       [dirFiles[DirOf(i)] EXCEPT ![x] = imp[i].archive]]
    BY <1>7, <1>h DEF ExtractFile, DirTypeOK
  <2>7. DirTypeOK'
    BY <1>7, <2>5, <2>6, <1>h DEF ExtractFile, DirTypeOK
  <2> QED
    BY <1>7, <2>3, <2>7, <1>b, <1>w DEF ExtractFile
<1>8. ASSUME NEW i \in Importer, FinishExtract(i)
      PROVE  ImpTypeOK' /\ DbTypeOK' /\ DirTypeOK' /\ WorldTypeOK'
  <2>1. ImpTypeOK'
    BY <1>8, <1>s, ImporterGoesTo, ImporterLeaves
       DEF FinishExtract, At, TryStage
  <2> QED
    BY <1>8, <2>1, <1>b, <1>d, <1>w DEF FinishExtract
<1>9. ASSUME NEW i \in Importer, ValidateFeed(i)
      PROVE  ImpTypeOK' /\ DbTypeOK' /\ DirTypeOK' /\ WorldTypeOK'
  <2>1. ImpTypeOK'
    BY <1>9, <1>s, ImporterGoesTo, ImporterLeaves
       DEF ValidateFeed, At, TryStage
  <2> QED
    BY <1>9, <2>1, <1>b, <1>d, <1>w DEF ValidateFeed
<1>10. ASSUME NEW i \in Importer, BeginImport(i)
      PROVE  ImpTypeOK' /\ DbTypeOK' /\ DirTypeOK' /\ WorldTypeOK'
  <2> DEFINE q == [imp[i] EXCEPT !.stage = "copy", !.done = {},
                                 !.staged = NoFiles]
  <2>1. q \in ImporterState /\ q.feed \in Feed
    <3>1. imp[i] \in ImporterState /\ imp[i].feed \in Feed
      BY <1>10, BusyState DEF BeginImport, At
    <3>2. q \in ImporterState
      BY <3>1, <1>n, <1>s, ImporterUpdate DEF TryStage
    <3>3. q.feed = imp[i].feed
      BY <3>1 DEF ImporterState
    <3> QED
      BY <3>1, <3>2, <3>3
  <2>2. imp' = [imp EXCEPT ![i] = q]
    BY <1>10 DEF BeginImport, ImpTypeOK
  <2>3. ImpTypeOK'
    BY <2>1, <2>2, ImporterSteps
  <2>4. DbTypeOK'
    BY <1>10 DEF BeginImport, DbTypeOK
  <2> QED
    BY <1>10, <2>3, <2>4, <1>d, <1>w DEF BeginImport
<1>11. ASSUME NEW i \in Importer, NEW x \in File, CopyFile(i, x)
      PROVE  ImpTypeOK' /\ DbTypeOK' /\ DirTypeOK' /\ WorldTypeOK'
  <2>1. DbTypeOK'
    BY <1>11 DEF CopyFile, DbTypeOK, Unlock
  <2>2. CASE Leave(i)
    <3>1. ImpTypeOK'
      BY <1>11, <2>2, ImporterLeaves DEF CopyFile, At
    <3> QED
      BY <1>11, <2>1, <3>1, <1>d, <1>w DEF CopyFile
  <2>3. CASE imp' = [imp EXCEPT ![i].done = @ \cup {x},
                                ![i].staged[x] = dirFiles[DirOf(i)][x]]
    <3> DEFINE q == [imp[i] EXCEPT !.done = @ \cup {x},
                                   !.staged[x] = dirFiles[DirOf(i)][x]]
    <3>1. dirFiles[DirOf(i)][x] \in Archive \cup {Nothing}
      BY <1>h DEF DirTypeOK, Files
    <3>2. [imp[i].staged EXCEPT ![x] = dirFiles[DirOf(i)][x]] \in Files
      BY <3>1, FileType DEF ImpTypeOK, ImporterState
    <3>3. q \in ImporterState /\ q.feed \in Feed
      <4>1. imp[i] \in ImporterState /\ imp[i].feed \in Feed
        BY <1>11, BusyState DEF CopyFile, At
      <4>2. imp[i].done \cup {x} \in SUBSET File
        BY <4>1 DEF ImporterState
      <4>3. q \in ImporterState
        BY <3>2, <4>1, <4>2 DEF ImporterState
      <4>4. q.feed = imp[i].feed
        BY <4>1 DEF ImporterState
      <4> QED
        BY <4>1, <4>3, <4>4
    <3>4. imp' = [imp EXCEPT ![i] = q]
      BY <2>3 DEF ImpTypeOK
    <3>5. ImpTypeOK'
      BY <3>3, <3>4, ImporterSteps
    <3> QED
      BY <1>11, <2>1, <3>5, <1>d, <1>w DEF CopyFile
  <2> QED
    BY <1>11, <2>2, <2>3 DEF CopyFile
<1>12. ASSUME NEW i \in Importer, CommitImport(i)
      PROVE  ImpTypeOK' /\ DbTypeOK' /\ DirTypeOK' /\ WorldTypeOK'
  <2> DEFINE q == [imp[i] EXCEPT !.stage = "record", !.archive = Nothing,
                                 !.done = {}, !.staged = NoFiles]
  <2>1. q \in ImporterState /\ q.feed \in Feed
    <3>1. imp[i] \in ImporterState /\ imp[i].feed \in Feed
      BY <1>12, BusyState DEF CommitImport, At
    <3>2. q \in ImporterState
      BY <3>1, <1>n, <1>s, ImporterUpdate DEF TryStage
    <3>3. q.feed = imp[i].feed
      BY <3>1 DEF ImporterState
    <3> QED
      BY <3>1, <3>2, <3>3
  <2>2. imp' = [imp EXCEPT ![i] = q]
    BY <1>12 DEF CommitImport, ImpTypeOK
  <2>3. ImpTypeOK'
    BY <2>1, <2>2, ImporterSteps
  <2>4. DbTypeOK'
    BY <1>12 DEF CommitImport, Commit, Unlock, DbTypeOK, ImpTypeOK, ImporterState
  <2> QED
    BY <1>12, <2>3, <2>4, <1>d, <1>w DEF CommitImport
<1>13. ASSUME NEW i \in Importer, UpsertImportMetadata(i)
      PROVE  ImpTypeOK' /\ DbTypeOK' /\ DirTypeOK' /\ WorldTypeOK'
  <2>1. ImpTypeOK'
    BY <1>13, <1>s, ImporterGoesTo, ImporterLeaves
       DEF UpsertImportMetadata, At, TryStage
  <2>2. DbTypeOK'
    BY <1>13 DEF UpsertImportMetadata, DbTypeOK, ImpTypeOK, ImporterState
  <2> QED
    BY <1>13, <2>1, <2>2, <1>d, <1>w DEF UpsertImportMetadata
<1>14. ASSUME NEW i \in Importer, Interpolate(i)
      PROVE  ImpTypeOK' /\ DbTypeOK' /\ DirTypeOK' /\ WorldTypeOK'
  <2>1. ImpTypeOK'
    BY <1>14, <1>s, ImporterGoesTo, ImporterLeaves
       DEF Interpolate, At, TryStage
  <2>2. DbTypeOK'
    BY <1>14 DEF Interpolate, DbTypeOK
  <2> QED
    BY <1>14, <2>1, <2>2, <1>d, <1>w DEF Interpolate
<1>15. ASSUME NEW i \in Importer, ReleaseSyncLock(i)
      PROVE  ImpTypeOK' /\ DbTypeOK' /\ DirTypeOK' /\ WorldTypeOK'
  <2>1. ImpTypeOK'
    BY <1>15, <1>s, ImporterGoesTo, ImporterLeaves
       DEF ReleaseSyncLock, At, TryStage
  <2>2. DbTypeOK'
    BY <1>15 DEF ReleaseSyncLock, DbTypeOK, db
  <2> QED
    BY <1>15, <2>1, <2>2, <1>d, <1>w DEF ReleaseSyncLock
<1>16. ASSUME NEW i \in Importer, CleanUp(i)
      PROVE  ImpTypeOK' /\ DbTypeOK' /\ DirTypeOK' /\ WorldTypeOK'
  <2>1. ImpTypeOK'
    BY <1>16, ImporterEnds DEF CleanUp
  <2>2. DirTypeOK'
    BY <1>16, <1>h, DirectoryType DEF CleanUp
  <2> QED
    BY <1>16, <2>1, <2>2, <1>b, <1>w DEF CleanUp
<1>17. ASSUME NEW i \in Importer, FailStep(i)
      PROVE  ImpTypeOK' /\ DbTypeOK' /\ DirTypeOK' /\ WorldTypeOK'
  <2>1. ImpTypeOK'
    BY <1>17, ImporterLeaves DEF FailStep, TryStage
  <2>2. DbTypeOK'
    BY <1>17 DEF FailStep, Commit, Unlock, DbTypeOK, ImpTypeOK, ImporterState
  <2> QED
    BY <1>17, <2>1, <2>2, <1>d, <1>f DEF FailStep
<1>18. ASSUME NEW i \in Importer, FailFinally(i)
      PROVE  ImpTypeOK' /\ DbTypeOK' /\ DirTypeOK' /\ WorldTypeOK'
  <2>1. ImpTypeOK'
    BY <1>18, ImporterEnds DEF FailFinally
  <2>2. DbTypeOK'
    BY <1>18 DEF FailFinally, DbTypeOK, db
  <2> QED
    BY <1>18, <2>1, <2>2, <1>d, <1>f DEF FailFinally
<1>19. ASSUME NEW h \in Host, Crash(h)
      PROVE  ImpTypeOK' /\ DbTypeOK' /\ DirTypeOK' /\ WorldTypeOK'
  <2>1. ImpTypeOK'
    BY <1>19, IdleType DEF Crash, ImpTypeOK, Idle
  <2>2. DbTypeOK'
    BY <1>19 DEF Crash, DbTypeOK
  <2> QED
    BY <1>19, <2>1, <2>2, <1>d, <1>f DEF Crash
<1>20. ASSUME NEW f \in Feed, Publish(f)
      PROVE  ImpTypeOK' /\ DbTypeOK' /\ DirTypeOK' /\ WorldTypeOK'
  <2>1. WorldTypeOK'
    BY <1>20, VersionAssumption DEF Publish, WorldTypeOK, Version
  <2>2. ImpTypeOK'
    BY <1>20 DEF Publish, ImpTypeOK
  <2> QED
    BY <1>20, <2>1, <2>2, <1>b, <1>d DEF Publish
<1>21. CASE UNCHANGED vars
  <2>1. ImpTypeOK'
    BY <1>21 DEF vars, ImpTypeOK
  <2> QED
    BY <1>21, <2>1, <1>b, <1>d, <1>w DEF vars
<1> QED
  BY <1>1, <1>2, <1>3, <1>4, <1>5, <1>6, <1>7, <1>8, <1>9, <1>10, <1>11, <1>12, <1>13, <1>14, <1>15, <1>16, <1>17, <1>18, <1>19, <1>20, <1>21
     DEF Next, Continue

THEOREM TypeCorrect == Spec => []TypeOK
<1>1. TypeInv /\ [Next]_vars => TypeInv'
  BY TypeInvStep
<1> QED
  BY TypeInvInit, <1>1, TypeInvImpliesTypeOK, PTL DEF Spec

-----------------------------------------------------------------------------
(***************************************************************************)
(* Without --force the importers in the locked section of import() are     *)
(* pairwise at different feeds, and the row of each of these feeds is in   *)
(* sync_lock: only the importer whose INSERT made the row, and who is      *)
(* still in the section, deletes it.                                       *)
(***************************************************************************)
LockInv ==
  /\ \A i \in Importer : InLockedSection(i) => imp[i].feed \in syncLock
  /\ \A i, j \in Importer :
       InLockedSection(i) /\ InLockedSection(j) /\ imp[i].feed = imp[j].feed
       => i = j

LEMMA LockInvInit == Init => LockInv
BY DEF Init, LockInv, InLockedSection, Idle, TryStage

(* A step inside the section keeps it, whichever importer takes it. *)
LEMMA StaysInSection ==
  ASSUME LockInv, ImpTypeOK, NEW i \in Importer, InLockedSection(i),
         UNCHANGED syncLock,
         NEW r, r.feed = imp[i].feed, imp' = [imp EXCEPT ![i] = r]
  PROVE  LockInv'
BY DEF LockInv, ImpTypeOK, InLockedSection

(* An importer may drop out of the section and take its feed's row along. *)
LEMMA LeavesSection ==
  ASSUME LockInv, ImpTypeOK, NEW i \in Importer, InLockedSection(i),
         syncLock' \in {syncLock, syncLock \ {imp[i].feed}},
         NEW r, r.stage \notin TryStage \cup {"release"},
         imp' = [imp EXCEPT ![i] = r]
  PROVE  LockInv'
BY DEF LockInv, ImpTypeOK, InLockedSection

LEMMA LockInvStep ==
  ASSUME ~AllowForce, TypeInv, LockInv, [Next]_vars
  PROVE  LockInv'
<1>t. ImpTypeOK
  BY DEF TypeInv
<1>g. ASSUME NEW i \in Importer, NEW s, InLockedSection(i), Goto(i, s),
             UNCHANGED syncLock
      PROVE  LockInv'
  <2> DEFINE r == [imp[i] EXCEPT !.stage = s]
  <2>1. r.feed = imp[i].feed /\ imp' = [imp EXCEPT ![i] = r]
    BY <1>g, <1>t DEF Goto, ImpTypeOK, ImporterState
  <2> QED
    BY <2>1, <1>g, <1>t, StaysInSection
<1>l. ASSUME NEW i \in Importer, InLockedSection(i), Leave(i),
             UNCHANGED syncLock
      PROVE  LockInv'
  <2> DEFINE r == [Idle EXCEPT !.stage = "release", !.feed = imp[i].feed,
                               !.obtained = imp[i].obtained]
  <2>1. r.feed = imp[i].feed /\ imp' = [imp EXCEPT ![i] = r]
    BY <1>l DEF Leave, Idle
  <2> QED
    BY <2>1, <1>l, <1>t, StaysInSection
<1>1. ASSUME NEW i \in Importer, NEW f \in Feed, NEW force \in BOOLEAN,
             StartImport(i, f, force)
      PROVE  LockInv'
  <2> DEFINE r == [Idle EXCEPT !.stage = "head", !.feed = f, !.force = force,
                               !.obtained = f \notin syncLock]
  <2>1. /\ f \notin syncLock
        /\ syncLock' = syncLock \cup {f}
        /\ imp' = [imp EXCEPT ![i] = r]
        /\ ~InLockedSection(i)
    BY <1>1 DEF StartImport, At, InLockedSection, TryStage
  <2>2. r.feed = f
    BY DEF Idle
  <2> QED
    BY <2>1, <2>2, <1>t DEF LockInv, InLockedSection, ImpTypeOK
<1>2. ASSUME NEW i \in Importer, GetResourceMetadata(i)
      PROVE  LockInv'
  <2>1. PICK m \in ResourceMetadata(imp[i].feed, source[imp[i].feed]) :
          imp' = [imp EXCEPT ![i].resource = m,
                             ![i].stage = IF imp[i].force THEN "prepare"
                                                          ELSE "compare"]
    BY <1>2 DEF GetResourceMetadata
  <2> DEFINE r == [imp[i] EXCEPT !.resource = m,
                                 !.stage = IF imp[i].force THEN "prepare"
                                                           ELSE "compare"]
  <2>2. r.feed = imp[i].feed /\ imp' = [imp EXCEPT ![i] = r]
    BY <2>1, <1>t DEF ImpTypeOK, ImporterState
  <2> QED
    BY <1>2, <2>2, <1>t, StaysInSection
       DEF GetResourceMetadata, At, InLockedSection, TryStage
<1>3. ASSUME NEW i \in Importer, CompareMetadata(i)
      PROVE  LockInv'
  BY <1>3, <1>g, <1>l DEF CompareMetadata, At, InLockedSection, TryStage
<1>4. ASSUME NEW i \in Importer, PrepareDirectory(i)
      PROVE  LockInv'
  BY <1>4, <1>g, <1>l DEF PrepareDirectory, At, InLockedSection, TryStage
<1>5. ASSUME NEW i \in Importer, MakeDirectory(i)
      PROVE  LockInv'
  BY <1>5, <1>g, <1>l DEF MakeDirectory, At, InLockedSection, TryStage
<1>6. ASSUME NEW i \in Importer, FinishExtract(i)
      PROVE  LockInv'
  BY <1>6, <1>g, <1>l DEF FinishExtract, At, InLockedSection, TryStage
<1>7. ASSUME NEW i \in Importer, ValidateFeed(i)
      PROVE  LockInv'
  BY <1>7, <1>g, <1>l DEF ValidateFeed, At, InLockedSection, TryStage
<1>8. ASSUME NEW i \in Importer, UpsertImportMetadata(i)
      PROVE  LockInv'
  BY <1>8, <1>g, <1>l DEF UpsertImportMetadata, At, InLockedSection, TryStage
<1>9. ASSUME NEW i \in Importer, Interpolate(i)
      PROVE  LockInv'
  BY <1>9, <1>g, <1>l DEF Interpolate, At, InLockedSection, TryStage
<1>10. ASSUME NEW i \in Importer, StartDownload(i)
      PROVE  LockInv'
  <2> DEFINE r == [imp[i] EXCEPT !.archive = [feed |-> imp[i].feed,
                                              version |-> source[imp[i].feed]],
                                 !.stage = "extract"]
  <2>1. r.feed = imp[i].feed /\ imp' = [imp EXCEPT ![i] = r]
    BY <1>10, <1>t DEF StartDownload, ImpTypeOK, ImporterState
  <2> QED
    BY <1>10, <2>1, <1>t, StaysInSection
       DEF StartDownload, At, InLockedSection, TryStage
<1>11. ASSUME NEW i \in Importer, NEW x \in File, ExtractFile(i, x)
      PROVE  LockInv'
  <2> DEFINE r == [imp[i] EXCEPT !.done = @ \cup {x}]
  <2>1. r.feed = imp[i].feed /\ imp' = [imp EXCEPT ![i] = r]
    BY <1>11, <1>t DEF ExtractFile, ImpTypeOK, ImporterState
  <2> QED
    BY <1>11, <2>1, <1>t, StaysInSection
       DEF ExtractFile, At, InLockedSection, TryStage
<1>12. ASSUME NEW i \in Importer, BeginImport(i)
      PROVE  LockInv'
  <2> DEFINE r == [imp[i] EXCEPT !.stage = "copy", !.done = {},
                                 !.staged = NoFiles]
  <2>1. r.feed = imp[i].feed /\ imp' = [imp EXCEPT ![i] = r]
    BY <1>12, <1>t DEF BeginImport, ImpTypeOK, ImporterState
  <2> QED
    BY <1>12, <2>1, <1>t, StaysInSection
       DEF BeginImport, At, InLockedSection, TryStage
<1>13. ASSUME NEW i \in Importer, CommitImport(i)
      PROVE  LockInv'
  <2> DEFINE r == [imp[i] EXCEPT !.stage = "record", !.archive = Nothing,
                                 !.done = {}, !.staged = NoFiles]
  <2>1. r.feed = imp[i].feed /\ imp' = [imp EXCEPT ![i] = r]
    BY <1>13, <1>t DEF CommitImport, ImpTypeOK, ImporterState
  <2> QED
    BY <1>13, <2>1, <1>t, StaysInSection
       DEF CommitImport, At, InLockedSection, TryStage
<1>14. ASSUME NEW i \in Importer, NEW x \in File, CopyFile(i, x)
      PROVE  LockInv'
  <2>1. CASE Leave(i)
    BY <1>14, <2>1, <1>l DEF CopyFile, At, InLockedSection, TryStage
  <2>2. CASE imp' = [imp EXCEPT ![i].done = @ \cup {x},
                                ![i].staged[x] = dirFiles[DirOf(i)][x]]
    <3> DEFINE r == [imp[i] EXCEPT !.done = @ \cup {x},
                                   !.staged[x] = dirFiles[DirOf(i)][x]]
    <3>1. r.feed = imp[i].feed /\ imp' = [imp EXCEPT ![i] = r]
      BY <2>2, <1>t DEF ImpTypeOK, ImporterState
    <3> QED
      BY <1>14, <3>1, <1>t, StaysInSection
         DEF CopyFile, At, InLockedSection, TryStage
  <2> QED
    BY <1>14, <2>1, <2>2 DEF CopyFile
<1>15. ASSUME NEW i \in Importer, ReleaseSyncLock(i)
      PROVE  LockInv'
  <2> DEFINE r == [imp[i] EXCEPT !.stage = "cleanup"]
  <2>1. r.stage = "cleanup" /\ imp' = [imp EXCEPT ![i] = r]
    BY <1>15, <1>t DEF ReleaseSyncLock, Goto, ImpTypeOK, ImporterState
  <2> QED
    BY <1>15, <2>1, <1>t, LeavesSection
       DEF ReleaseSyncLock, At, InLockedSection, TryStage
<1>16. ASSUME NEW i \in Importer, CleanUp(i)
      PROVE  LockInv'
  BY <1>16, <1>t DEF CleanUp, At, LockInv, InLockedSection, ImpTypeOK, Idle, TryStage
<1>17. ASSUME NEW i \in Importer, FailStep(i)
      PROVE  LockInv'
  BY <1>17, <1>l DEF FailStep, InLockedSection
<1>18. ASSUME NEW i \in Importer, FailFinally(i)
      PROVE  LockInv'
  <2>0. Idle.stage \notin TryStage \cup {"release"}
    BY DEF Idle, TryStage
  <2>1. CASE At(i, "release")
    BY <1>18, <2>0, <2>1, <1>t, LeavesSection
       DEF FailFinally, At, InLockedSection, TryStage
  <2>2. CASE At(i, "cleanup")
    BY <1>18, <2>0, <2>2, <1>t
       DEF FailFinally, At, LockInv, InLockedSection, ImpTypeOK, TryStage
  <2> QED
    BY <1>18, <2>1, <2>2 DEF FailFinally
<1>19. ASSUME NEW h \in Host, Crash(h)
      PROVE  LockInv'
  BY <1>19, <1>t DEF Crash, LockInv, InLockedSection, ImpTypeOK, Idle, TryStage
<1>20. ASSUME NEW f \in Feed, Publish(f)
      PROVE  LockInv'
  BY <1>20 DEF Publish, LockInv, InLockedSection
<1>21. CASE UNCHANGED vars
  BY <1>21 DEF vars, LockInv, InLockedSection
<1> QED
  BY <1>1, <1>2, <1>3, <1>4, <1>5, <1>6, <1>7, <1>8, <1>9, <1>10, <1>11, <1>12, <1>13, <1>14, <1>15, <1>16, <1>17, <1>18, <1>19, <1>20, <1>21
     DEF Next, Continue

(***************************************************************************)
(* Unless --force is used, two imports of one feed never overlap.          *)
(***************************************************************************)
THEOREM LockExclusion ==
  ASSUME ~AllowForce
  PROVE  Spec => []SyncLockExclusive
<1>1. Init => TypeInv /\ LockInv
  BY TypeInvInit, LockInvInit
<1>2. TypeInv /\ LockInv /\ [Next]_vars => (TypeInv /\ LockInv)'
  BY TypeInvStep, LockInvStep
<1>3. LockInv => SyncLockExclusive
  BY DEF LockInv, SyncLockExclusive
<1> QED
  BY <1>1, <1>2, <1>3, PTL DEF Spec

-----------------------------------------------------------------------------
(* A step of an importer that stays in the section abandons no row. *)
LEMMA StaysWithTheRow ==
  ASSUME ImpTypeOK, NEW i \in Importer, InLockedSection(i),
         UNCHANGED syncLock,
         NEW r, r.feed = imp[i].feed, r.stage \in TryStage \cup {"release"},
         imp' = [imp EXCEPT ![i] = r],
         NEW f \in Feed, ~Abandoned(f)
  PROVE  ~Abandoned(f)'
BY DEF Abandoned, ImpTypeOK, InLockedSection

(* One that leaves the section abandons none but its own feed's. *)
LEMMA LeavesWithTheRow ==
  ASSUME ImpTypeOK, NEW i \in Importer,
         NEW f \in Feed, ~Abandoned(f),
         InLockedSection(i) => imp[i].feed # f \/ f \notin syncLock',
         syncLock' \subseteq syncLock,
         \A g \in syncLock \ syncLock' : g = imp[i].feed,
         NEW r, imp' = [imp EXCEPT ![i] = r]
  PROVE  ~Abandoned(f)'
BY DEF Abandoned, ImpTypeOK, InLockedSection

LEMMA StepAbandonsNone ==
  ASSUME TypeInv, Next, NEW f \in Feed, ~Abandoned(f), Abandoned(f)'
  PROVE  \/ \E h \in Host : Crash(h)
         \/ \E i \in Importer : At(i, "release") /\ FailFinally(i)
<1>t. ImpTypeOK
  BY DEF TypeInv
<1>g. ASSUME NEW i \in Importer, NEW s \in TryStage \cup {"release"},
             InLockedSection(i), Goto(i, s), UNCHANGED syncLock
      PROVE  FALSE
  <2> DEFINE r == [imp[i] EXCEPT !.stage = s]
  <2>1. /\ r.feed = imp[i].feed /\ r.stage = s
        /\ imp' = [imp EXCEPT ![i] = r]
    BY <1>g, <1>t DEF Goto, ImpTypeOK, ImporterState
  <2> QED
    BY <2>1, <1>g, <1>t, StaysWithTheRow
<1>l. ASSUME NEW i \in Importer, InLockedSection(i), Leave(i),
             UNCHANGED syncLock
      PROVE  FALSE
  <2> DEFINE r == [Idle EXCEPT !.stage = "release", !.feed = imp[i].feed,
                               !.obtained = imp[i].obtained]
  <2>1. /\ r.feed = imp[i].feed /\ r.stage = "release"
        /\ imp' = [imp EXCEPT ![i] = r]
    BY <1>l DEF Leave, Idle
  <2> QED
    BY <2>1, <1>l, <1>t, StaysWithTheRow
<1>1. ASSUME NEW i \in Importer, NEW g \in Feed, NEW force \in BOOLEAN,
             StartImport(i, g, force)
      PROVE  FALSE
  <2>1. /\ syncLock' = syncLock \cup {g}
        /\ imp'[i].feed = g /\ imp'[i].stage = "head"
        /\ \A k \in Importer \ {i} : imp'[k] = imp[k]
        /\ ~InLockedSection(i)
    BY <1>1, <1>t
       DEF StartImport, At, InLockedSection, TryStage, ImpTypeOK, Idle
  <2> QED
    BY <2>1 DEF Abandoned, InLockedSection, TryStage
<1>2. ASSUME NEW i \in Importer, GetResourceMetadata(i)
      PROVE  FALSE
  <2>1. PICK m \in ResourceMetadata(imp[i].feed, source[imp[i].feed]) :
          imp' = [imp EXCEPT ![i].resource = m,
                             ![i].stage = IF imp[i].force THEN "prepare"
                                                          ELSE "compare"]
    BY <1>2 DEF GetResourceMetadata
  <2> DEFINE r == [imp[i] EXCEPT !.resource = m,
                                 !.stage = IF imp[i].force THEN "prepare"
                                                           ELSE "compare"]
  <2>2. /\ r.feed = imp[i].feed /\ r.stage \in {"prepare", "compare"}
        /\ imp' = [imp EXCEPT ![i] = r]
    BY <2>1, <1>t DEF ImpTypeOK, ImporterState
  <2> QED
    BY <1>2, <2>2, <1>t, StaysWithTheRow
       DEF GetResourceMetadata, At, InLockedSection, TryStage
<1>3. ASSUME NEW i \in Importer, CompareMetadata(i)
      PROVE  FALSE
  BY <1>3, <1>g, <1>l DEF CompareMetadata, At, InLockedSection, TryStage
<1>4. ASSUME NEW i \in Importer, PrepareDirectory(i)
      PROVE  FALSE
  BY <1>4, <1>g, <1>l DEF PrepareDirectory, At, InLockedSection, TryStage
<1>5. ASSUME NEW i \in Importer, MakeDirectory(i)
      PROVE  FALSE
  BY <1>5, <1>g, <1>l DEF MakeDirectory, At, InLockedSection, TryStage
<1>6. ASSUME NEW i \in Importer, FinishExtract(i)
      PROVE  FALSE
  BY <1>6, <1>g, <1>l DEF FinishExtract, At, InLockedSection, TryStage
<1>7. ASSUME NEW i \in Importer, ValidateFeed(i)
      PROVE  FALSE
  BY <1>7, <1>g, <1>l DEF ValidateFeed, At, InLockedSection, TryStage
<1>8. ASSUME NEW i \in Importer, UpsertImportMetadata(i)
      PROVE  FALSE
  BY <1>8, <1>g, <1>l DEF UpsertImportMetadata, At, InLockedSection, TryStage
<1>9. ASSUME NEW i \in Importer, Interpolate(i)
      PROVE  FALSE
  BY <1>9, <1>g, <1>l DEF Interpolate, At, InLockedSection, TryStage
<1>10. ASSUME NEW i \in Importer, StartDownload(i)
      PROVE  FALSE
  <2> DEFINE r == [imp[i] EXCEPT !.archive = [feed |-> imp[i].feed,
                                              version |-> source[imp[i].feed]],
                                 !.stage = "extract"]
  <2>1. /\ r.feed = imp[i].feed /\ r.stage = "extract"
        /\ imp' = [imp EXCEPT ![i] = r]
    BY <1>10, <1>t DEF StartDownload, ImpTypeOK, ImporterState
  <2> QED
    BY <1>10, <2>1, <1>t, StaysWithTheRow
       DEF StartDownload, At, InLockedSection, TryStage
<1>11. ASSUME NEW i \in Importer, NEW x \in File, ExtractFile(i, x)
      PROVE  FALSE
  <2> DEFINE r == [imp[i] EXCEPT !.done = @ \cup {x}]
  <2>1. /\ r.feed = imp[i].feed /\ r.stage = imp[i].stage
        /\ imp' = [imp EXCEPT ![i] = r]
    BY <1>11, <1>t DEF ExtractFile, ImpTypeOK, ImporterState
  <2> QED
    BY <1>11, <2>1, <1>t, StaysWithTheRow
       DEF ExtractFile, At, InLockedSection, TryStage
<1>12. ASSUME NEW i \in Importer, BeginImport(i)
      PROVE  FALSE
  <2> DEFINE r == [imp[i] EXCEPT !.stage = "copy", !.done = {},
                                 !.staged = NoFiles]
  <2>1. /\ r.feed = imp[i].feed /\ r.stage = "copy"
        /\ imp' = [imp EXCEPT ![i] = r]
    BY <1>12, <1>t DEF BeginImport, ImpTypeOK, ImporterState
  <2> QED
    BY <1>12, <2>1, <1>t, StaysWithTheRow
       DEF BeginImport, At, InLockedSection, TryStage
<1>13. ASSUME NEW i \in Importer, CommitImport(i)
      PROVE  FALSE
  <2> DEFINE r == [imp[i] EXCEPT !.stage = "record", !.archive = Nothing,
                                 !.done = {}, !.staged = NoFiles]
  <2>1. /\ r.feed = imp[i].feed /\ r.stage = "record"
        /\ imp' = [imp EXCEPT ![i] = r]
    BY <1>13, <1>t DEF CommitImport, ImpTypeOK, ImporterState
  <2> QED
    BY <1>13, <2>1, <1>t, StaysWithTheRow
       DEF CommitImport, At, InLockedSection, TryStage
<1>14. ASSUME NEW i \in Importer, NEW x \in File, CopyFile(i, x)
      PROVE  FALSE
  <2>1. CASE Leave(i)
    BY <1>14, <2>1, <1>l DEF CopyFile, At, InLockedSection, TryStage
  <2>2. CASE imp' = [imp EXCEPT ![i].done = @ \cup {x},
                                ![i].staged[x] = dirFiles[DirOf(i)][x]]
    <3> DEFINE r == [imp[i] EXCEPT !.done = @ \cup {x},
                                   !.staged[x] = dirFiles[DirOf(i)][x]]
    <3>1. /\ r.feed = imp[i].feed /\ r.stage = imp[i].stage
          /\ imp' = [imp EXCEPT ![i] = r]
      BY <2>2, <1>t DEF ImpTypeOK, ImporterState
    <3> QED
      BY <1>14, <3>1, <1>t, StaysWithTheRow
         DEF CopyFile, At, InLockedSection, TryStage
  <2> QED
    BY <1>14, <2>1, <2>2 DEF CopyFile
<1>15. ASSUME NEW i \in Importer, ReleaseSyncLock(i)
      PROVE  FALSE
  <2> DEFINE r == [imp[i] EXCEPT !.stage = "cleanup"]
  <2>1. imp' = [imp EXCEPT ![i] = r] /\ syncLock' = syncLock \ {imp[i].feed}
    BY <1>15, <1>t DEF ReleaseSyncLock, Goto, ImpTypeOK
  <2> QED
    BY <2>1, <1>t, LeavesWithTheRow
<1>16. ASSUME NEW i \in Importer, CleanUp(i)
      PROVE  FALSE
  BY <1>16, <1>t, LeavesWithTheRow
     DEF CleanUp, At, InLockedSection, TryStage
<1>17. ASSUME NEW i \in Importer, FailStep(i)
      PROVE  FALSE
  BY <1>17, <1>l DEF FailStep, InLockedSection
<1>18. ASSUME NEW i \in Importer, FailFinally(i), ~At(i, "release")
      PROVE  FALSE
  BY <1>18, <1>t, LeavesWithTheRow
     DEF FailFinally, At, InLockedSection, TryStage
<1>19. ASSUME NEW g \in Feed, Publish(g)
      PROVE  FALSE
  BY <1>19 DEF Publish, Abandoned, InLockedSection
<1> QED
  BY <1>1, <1>2, <1>3, <1>4, <1>5, <1>6, <1>7, <1>8, <1>9, <1>10, <1>11, <1>12, <1>13, <1>14, <1>15, <1>16, <1>17, <1>18, <1>19
     DEF Next, Continue

(***************************************************************************)
(* No failing step and no early return of import() leaves a row of         *)
(* sync_lock behind: only a process that dies or a failing DELETE does,    *)
(* also with --force, where importers delete each other's rows.            *)
(***************************************************************************)
THEOREM LockGivenBack == Spec => LockLeftOnlyByCrash
<1>1. TypeInv /\ [Next]_vars =>
        [\A f \in Feed :
           Abandoned(f)' /\ ~Abandoned(f)
           => \/ \E h \in Host : Crash(h)
              \/ \E i \in Importer : At(i, "release") /\ FailFinally(i)]_vars
  BY StepAbandonsNone
<1>2. TypeInv /\ [Next]_vars => TypeInv'
  BY TypeInvStep
<1> QED
  BY TypeInvInit, <1>1, <1>2, PTL DEF Spec, LockLeftOnlyByCrash

-----------------------------------------------------------------------------
(***************************************************************************)
(* When no two importers share a temporary directory, the directory of an  *)
(* importer holds, from the end of its extraction on, the archive that the *)
(* importer downloaded and nothing else, and what a transaction has staged *)
(* is a part of it.  This needs neither the lock nor the absence of        *)
(* --force, of failures or of crashes.                                     *)
(***************************************************************************)
OwnFiles(i) ==
  LET files == dirFiles[HostOf[i]]
      own == /\ imp[i].archive \in Archive
             /\ imp[i].archive.feed = imp[i].feed
  IN  /\ imp[i].stage \in {"head", "compare", "prepare", "mkdir", "download"}
           => imp[i].done = {}
      /\ imp[i].stage = "extract" =>
           own /\ \A x \in imp[i].done : files[x] = imp[i].archive
      /\ imp[i].stage \in {"validate", "begin", "copy"} =>
           own /\ \A x \in File : files[x] = imp[i].archive
      /\ imp[i].stage = "copy" =>
           \A x \in imp[i].done : imp[i].staged[x] = imp[i].archive

WholeInv == TablesWhole /\ \A i \in Importer : OwnFiles(i)

LEMMA WholeInvInit == Init => WholeInv
BY DEF Init, WholeInv, TablesWhole, OwnFiles, Idle

(* A step of importer i touches no directory but its own. *)
LEMMA OthersKeepTheirFiles ==
  ASSUME PrivateHosts, ImpTypeOK, WholeInv, NEW i \in Importer, NEW r,
         imp' = [imp EXCEPT ![i] = r],
         \A h \in Host : h # HostOf[i] => dirFiles'[h] = dirFiles[h],
         OwnFiles(i)'
  PROVE  \A k \in Importer : OwnFiles(k)'
<1> SUFFICES ASSUME NEW k \in Importer, k # i
             PROVE  OwnFiles(k)'
  OBVIOUS
<1>1. imp'[k] = imp[k]
  BY DEF ImpTypeOK
<1>2. dirFiles'[HostOf[k]] = dirFiles[HostOf[k]]
  BY HostAssumption DEF PrivateHosts
<1>3. OwnFiles(k)
  BY DEF WholeInv
<1> QED
  BY <1>1, <1>2, <1>3 DEF OwnFiles

(* Whoever leaves the try block, or ends, claims nothing of a directory. *)
LEMMA LeavingKeepsFiles ==
  ASSUME PrivateHosts, ImpTypeOK, WholeInv, NEW i \in Importer,
         Leave(i) \/ imp' = [imp EXCEPT ![i] = Idle],
         \A h \in Host : h # HostOf[i] => dirFiles'[h] = dirFiles[h]
  PROVE  \A k \in Importer : OwnFiles(k)'
<1> DEFINE left == [Idle EXCEPT !.stage = "release", !.feed = imp[i].feed,
                              !.obtained = imp[i].obtained]
<1>0. left.stage = "release" /\ Idle.stage = "idle"
  BY IdleType DEF ImporterState, Idle
<1>1. PICK r : /\ imp' = [imp EXCEPT ![i] = r]
               /\ r.stage \in {"release", "idle"}
  <2>1. CASE Leave(i)
    <3>1. imp' = [imp EXCEPT ![i] = left]
      BY <2>1 DEF Leave
    <3> HIDE DEF left
    <3> QED
      BY <3>1, <1>0
  <2>2. CASE imp' = [imp EXCEPT ![i] = Idle]
    BY <2>2, <1>0
  <2> QED
    BY <2>1, <2>2
<1>2. imp'[i].stage \in {"release", "idle"}
  BY <1>1 DEF ImpTypeOK
<1>3. OwnFiles(i)'
  BY <1>2 DEF OwnFiles
<1> QED
  BY <1>1, <1>3, OthersKeepTheirFiles

LEMMA WholeInvStep ==
  ASSUME PrivateHosts, TypeInv, WholeInv, [Next]_vars
  PROVE  WholeInv'
<1>t. /\ ImpTypeOK
      /\ dirFiles \in [Host -> Files]
      /\ HostOf \in [Importer -> Host]
  BY HostAssumption DEF TypeInv, DirTypeOK
<1>w. UNCHANGED tables => TablesWhole'
  BY DEF WholeInv, TablesWhole
(* Going on to a stage that claims no more than the one before. *)
<1>g. ASSUME NEW i \in Importer, NEW s \in Stage, Goto(i, s),
             \A h \in Host : h # HostOf[i] => dirFiles'[h] = dirFiles[h],
             \/ s \in {"record", "interpolate", "release", "cleanup"}
             \/ /\ s \in {"compare", "prepare", "mkdir", "download"}
                /\ imp[i].stage \in {"head", "compare", "prepare", "mkdir"}
             \/ /\ s = "begin" /\ imp[i].stage = "validate"
                /\ UNCHANGED dirFiles
             \/ /\ s = "validate" /\ imp[i].stage = "extract"
                /\ imp[i].done = File /\ UNCHANGED dirFiles
      PROVE  \A k \in Importer : OwnFiles(k)'
  <2> DEFINE r == [imp[i] EXCEPT !.stage = s]
  <2>1. imp' = [imp EXCEPT ![i] = r]
    BY <1>g, <1>t DEF Goto, ImpTypeOK
  <2>2. /\ imp'[i].stage = s
        /\ imp'[i].done = imp[i].done
        /\ imp'[i].archive = imp[i].archive
        /\ imp'[i].feed = imp[i].feed
    BY <2>1, <1>t DEF ImpTypeOK, ImporterState
  <2>3. OwnFiles(i)
    BY DEF WholeInv
  <2>4. OwnFiles(i)'
    BY <1>g, <2>2, <2>3 DEF OwnFiles
  <2> QED
    BY <1>g, <2>1, <2>4, <1>t, OthersKeepTheirFiles
<1>l. ASSUME NEW i \in Importer, Leave(i), UNCHANGED dirFiles
      PROVE  \A k \in Importer : OwnFiles(k)'
  BY <1>l, <1>t, LeavingKeepsFiles
(* A commit replaces the tables by the archive. *)
<1>c. ASSUME NEW i \in Importer, At(i, "copy"), imp[i].done = File, Commit(i)
      PROVE  TablesWhole'
  <2>1. /\ imp[i].staged \in Files
        /\ imp[i].archive \in Archive
        /\ imp[i].archive.feed = imp[i].feed
        /\ \A x \in File : imp[i].staged[x] = imp[i].archive
        /\ imp[i].feed \in Feed
    BY <1>c, <1>t DEF WholeInv, OwnFiles, At, ImpTypeOK, ImporterState
  <2>2. PICK v \in Version :
          imp[i].archive = [feed |-> imp[i].feed, version |-> v]
    BY <2>1 DEF Archive
  <2>3. Holds(imp[i].staged, imp[i].feed, v)
    BY <2>1, <2>2 DEF Holds, Files
  <2> SUFFICES ASSUME NEW f \in Feed
               PROVE  tables'[f] = NoFiles
                      \/ \E u \in Version : Holds(tables'[f], f, u)
    BY DEF TablesWhole, Holds
  <2>4. tables \in [Feed -> Files]
    BY DEF TypeInv, DbTypeOK
  <2>5. CASE f = imp[i].feed
    BY <1>c, <2>3, <2>4, <2>5 DEF Commit
  <2>6. CASE f # imp[i].feed
    BY <1>c, <2>4, <2>6 DEF Commit, WholeInv, TablesWhole
  <2> QED
    BY <2>5, <2>6
<1>1. ASSUME NEW i \in Importer, NEW f \in Feed, NEW force \in BOOLEAN,
             StartImport(i, f, force)
      PROVE  WholeInv'
  <2> DEFINE r == [Idle EXCEPT !.stage = "head", !.feed = f, !.force = force,
                               !.obtained = f \notin syncLock]
  <2>1. imp' = [imp EXCEPT ![i] = r] /\ imp'[i] = r
    BY <1>1, <1>t DEF StartImport, ImpTypeOK
  <2>2. imp'[i].stage = "head" /\ imp'[i].done = {}
    <3>1. Idle \in ImporterState /\ Idle.done = {}
      BY IdleType DEF Idle
    <3> QED
      BY <2>1, <3>1 DEF ImporterState
  <2>3. OwnFiles(i)'
    BY <2>2 DEF OwnFiles
  <2> QED
    BY <1>1, <2>1, <2>3, <1>t, <1>w, OthersKeepTheirFiles
       DEF StartImport, WholeInv, db, dir
<1>2. ASSUME NEW i \in Importer, GetResourceMetadata(i)
      PROVE  WholeInv'
  <2>1. PICK m \in ResourceMetadata(imp[i].feed, source[imp[i].feed]) :
          imp' = [imp EXCEPT ![i].resource = m,
                             ![i].stage = IF imp[i].force THEN "prepare"
                                                          ELSE "compare"]
    BY <1>2 DEF GetResourceMetadata
  <2> DEFINE r == [imp[i] EXCEPT !.resource = m,
                                 !.stage = IF imp[i].force THEN "prepare"
                                                           ELSE "compare"]
  <2>2. imp' = [imp EXCEPT ![i] = r] /\ imp'[i] = r
    BY <2>1, <1>t DEF ImpTypeOK
  <2>3. OwnFiles(i) /\ imp[i] \in ImporterState
    BY <1>t DEF WholeInv, ImpTypeOK
  <2>4. imp'[i].stage \in {"prepare", "compare"} /\ imp'[i].done = {}
    <3>1. imp[i].done = {}
      BY <1>2, <2>3 DEF GetResourceMetadata, At, OwnFiles
    <3>2. r.stage \in {"prepare", "compare"} /\ r.done = imp[i].done
      BY <2>3 DEF ImporterState
    <3> QED
      BY <2>2, <3>1, <3>2
  <2>5. OwnFiles(i)'
    BY <2>4 DEF OwnFiles
  <2> QED
    BY <1>2, <2>2, <2>5, <1>t, <1>w, OthersKeepTheirFiles
       DEF GetResourceMetadata, WholeInv, db, dir
<1>3. ASSUME NEW i \in Importer, CompareMetadata(i)
      PROVE  WholeInv'
  <2>1. \A h \in Host : h # HostOf[i] => dirFiles'[h] = dirFiles[h]
    BY <1>3, <1>t DEF CompareMetadata, dir, DirOf, MakeDir, RemoveDir
  <2>2. \A k \in Importer : OwnFiles(k)'
    BY <1>3, <2>1, <1>t, <1>g, LeavingKeepsFiles
       DEF CompareMetadata, At, Stage, TryStage
  <2> QED
    BY <1>3, <2>2, <1>w DEF CompareMetadata, WholeInv, db
<1>4. ASSUME NEW i \in Importer, PrepareDirectory(i)
      PROVE  WholeInv'
  <2>1. \A h \in Host : h # HostOf[i] => dirFiles'[h] = dirFiles[h]
    BY <1>4, <1>t DEF PrepareDirectory, dir, DirOf, MakeDir, RemoveDir
  <2>2. \A k \in Importer : OwnFiles(k)'
    BY <1>4, <2>1, <1>t, <1>g, LeavingKeepsFiles
       DEF PrepareDirectory, At, Stage, TryStage
  <2> QED
    BY <1>4, <2>2, <1>w DEF PrepareDirectory, WholeInv, db
<1>5. ASSUME NEW i \in Importer, MakeDirectory(i)
      PROVE  WholeInv'
  <2>1. \A h \in Host : h # HostOf[i] => dirFiles'[h] = dirFiles[h]
    BY <1>5, <1>t DEF MakeDirectory, dir, DirOf, MakeDir, RemoveDir
  <2>2. \A k \in Importer : OwnFiles(k)'
    BY <1>5, <2>1, <1>t, <1>g, LeavingKeepsFiles
       DEF MakeDirectory, At, Stage, TryStage
  <2> QED
    BY <1>5, <2>2, <1>w DEF MakeDirectory, WholeInv, db
<1>6. ASSUME NEW i \in Importer, StartDownload(i)
      PROVE  WholeInv'
  <2> DEFINE r == [imp[i] EXCEPT !.archive = [feed |-> imp[i].feed,
                                              version |-> source[imp[i].feed]],
                                 !.stage = "extract"]
  <2>1. imp' = [imp EXCEPT ![i] = r] /\ imp'[i] = r
    BY <1>6, <1>t DEF StartDownload, ImpTypeOK
  <2>2. OwnFiles(i) /\ imp[i] \in ImporterState
    BY <1>t DEF WholeInv, ImpTypeOK
  <2>3. /\ imp'[i].stage = "extract" /\ imp'[i].done = {}
        /\ imp'[i].feed = imp[i].feed /\ imp[i].feed \in Feed
        /\ imp'[i].archive = [feed |-> imp[i].feed,
                              version |-> source[imp[i].feed]]
    <3>1. imp[i].stage = "download"
      BY <1>6 DEF StartDownload, At
    <3>2. imp[i].done = {}
      BY <2>2, <3>1 DEF OwnFiles
    <3>3. imp[i].feed \in Feed
      BY <3>1, <1>t DEF ImpTypeOK
    <3>4. /\ r.stage = "extract" /\ r.done = imp[i].done
          /\ r.feed = imp[i].feed
          /\ r.archive = [feed |-> imp[i].feed, version |-> source[imp[i].feed]]
      BY <2>2 DEF ImporterState
    <3> QED
      BY <2>1, <3>2, <3>3, <3>4
  <2>4. imp'[i].archive \in Archive /\ imp'[i].archive.feed = imp'[i].feed
    BY <2>3 DEF Archive, TypeInv, WorldTypeOK
  <2>9. OwnFiles(i)'
    BY <2>3, <2>4 DEF OwnFiles
  <2> QED
    BY <1>6, <2>1, <2>9, <1>t, <1>w, OthersKeepTheirFiles DEF StartDownload, WholeInv, db, dir, DirOf
<1>7. ASSUME NEW i \in Importer, NEW x \in File, ExtractFile(i, x)
      PROVE  WholeInv'
  <2> DEFINE r == [imp[i] EXCEPT !.done = @ \cup {x}]
  <2>1. imp' = [imp EXCEPT ![i] = r] /\ imp'[i] = r
    BY <1>7, <1>t DEF ExtractFile, ImpTypeOK
  <2>2. OwnFiles(i) /\ imp[i] \in ImporterState
    BY <1>t DEF WholeInv, ImpTypeOK
  <2>3. /\ imp'[i].stage = "extract" /\ imp'[i].done = imp[i].done \cup {x}
        /\ imp'[i].feed = imp[i].feed /\ imp'[i].archive = imp[i].archive
    BY <1>7, <2>1, <2>2 DEF ExtractFile, At, ImporterState
  <2>4. /\ dirFiles'[HostOf[i]] =
             [dirFiles[HostOf[i]] EXCEPT ![x] = imp[i].archive]
        /\ \A h \in Host : h # HostOf[i] => dirFiles'[h] = dirFiles[h]
    BY <1>7, <1>t DEF ExtractFile, DirOf
  <2>5. \A y \in imp'[i].done : dirFiles'[HostOf[i]][y] = imp[i].archive
    <3>1. dirFiles[HostOf[i]] \in Files /\ imp[i].done \subseteq File
      BY <1>t, <2>2 DEF ImporterState
    <3>2. \A y \in imp[i].done : dirFiles[HostOf[i]][y] = imp[i].archive
      BY <1>7, <2>2 DEF ExtractFile, At, OwnFiles
    <3> QED
      BY <2>3, <2>4, <3>1, <3>2 DEF Files
  <2>9. OwnFiles(i)' /\ \A h \in Host : h # HostOf[i] => dirFiles'[h] = dirFiles[h]
    BY <1>7, <2>2, <2>3, <2>4, <2>5 DEF OwnFiles, ExtractFile, At
  <2> QED
    BY <1>7, <2>1, <2>9, <1>t, <1>w, OthersKeepTheirFiles DEF ExtractFile, WholeInv, db, dir, DirOf
<1>8. ASSUME NEW i \in Importer, FinishExtract(i)
      PROVE  WholeInv'
  <2>1. \A k \in Importer : OwnFiles(k)'
    BY <1>8, <1>g, <1>l DEF FinishExtract, At, Stage, TryStage, dir
  <2> QED
    BY <1>8, <2>1, <1>w DEF FinishExtract, WholeInv, db
<1>9. ASSUME NEW i \in Importer, ValidateFeed(i)
      PROVE  WholeInv'
  <2>1. \A k \in Importer : OwnFiles(k)'
    BY <1>9, <1>g, <1>l DEF ValidateFeed, At, Stage, TryStage, dir
  <2> QED
    BY <1>9, <2>1, <1>w DEF ValidateFeed, WholeInv, db
<1>10. ASSUME NEW i \in Importer, BeginImport(i)
      PROVE  WholeInv'
  <2> DEFINE r == [imp[i] EXCEPT !.stage = "copy", !.done = {},
                                 !.staged = NoFiles]
  <2>1. imp' = [imp EXCEPT ![i] = r] /\ imp'[i] = r
    BY <1>10, <1>t DEF BeginImport, ImpTypeOK
  <2>2. OwnFiles(i) /\ imp[i] \in ImporterState
    BY <1>t DEF WholeInv, ImpTypeOK
  <2>3. /\ imp'[i].stage = "copy" /\ imp'[i].done = {}
        /\ imp'[i].feed = imp[i].feed /\ imp'[i].archive = imp[i].archive
    <3>1. /\ r.stage = "copy" /\ r.done = {}
          /\ r.feed = imp[i].feed /\ r.archive = imp[i].archive
      BY <2>2 DEF ImporterState
    <3> QED
      BY <2>1, <3>1
  <2>9. OwnFiles(i)'
    BY <1>10, <2>2, <2>3 DEF OwnFiles, BeginImport, At, dir
  <2> QED
    BY <1>10, <2>1, <2>9, <1>t, <1>w, OthersKeepTheirFiles DEF BeginImport, WholeInv, db, dir, DirOf
<1>11. ASSUME NEW i \in Importer, NEW x \in File, CopyFile(i, x)
      PROVE  WholeInv'
  <2>0. UNCHANGED <<tables, dirFiles>>
    BY <1>11 DEF CopyFile, dir
  <2>1. CASE Leave(i)
    BY <2>0, <2>1, <1>l, <1>w DEF WholeInv
  <2>2. CASE imp' = [imp EXCEPT ![i].done = @ \cup {x},
                                ![i].staged[x] = dirFiles[DirOf(i)][x]]
    <3> DEFINE r == [imp[i] EXCEPT !.done = @ \cup {x},
                                   !.staged[x] = dirFiles[DirOf(i)][x]]
    <3>1. imp' = [imp EXCEPT ![i] = r] /\ imp'[i] = r
      BY <2>2, <1>t DEF ImpTypeOK
    <3>2. OwnFiles(i) /\ imp[i] \in ImporterState /\ imp[i].stage = "copy"
      BY <1>11, <1>t DEF WholeInv, ImpTypeOK, CopyFile, At
    <3>3. /\ imp'[i].stage = "copy" /\ imp'[i].done = imp[i].done \cup {x}
          /\ imp'[i].feed = imp[i].feed /\ imp'[i].archive = imp[i].archive
          /\ imp'[i].staged = [imp[i].staged EXCEPT ![x] = dirFiles[HostOf[i]][x]]
      <4>1. /\ r.stage = imp[i].stage /\ r.done = imp[i].done \cup {x}
            /\ r.feed = imp[i].feed /\ r.archive = imp[i].archive
        BY <3>2 DEF ImporterState
      <4>2. r.staged = [imp[i].staged EXCEPT ![x] = dirFiles[HostOf[i]][x]]
        BY <3>2 DEF ImporterState, DirOf
      <4> QED
        BY <3>1, <3>2, <4>1, <4>2
    <3>4. imp[i].staged \in Files /\ imp[i].done \subseteq File
      BY <3>2 DEF ImporterState
    <3>5. \A y \in imp'[i].done : imp'[i].staged[y] = imp[i].archive
      BY <3>2, <3>3, <3>4 DEF OwnFiles, Files
    <3>6. OwnFiles(i)'
      BY <2>0, <3>2, <3>3, <3>5 DEF OwnFiles
    <3> QED
      BY <2>0, <3>1, <3>6, <1>t, <1>w, OthersKeepTheirFiles DEF WholeInv
  <2> QED
    BY <1>11, <2>1, <2>2 DEF CopyFile
<1>12. ASSUME NEW i \in Importer, CommitImport(i)
      PROVE  WholeInv'
  <2> DEFINE r == [imp[i] EXCEPT !.stage = "record", !.archive = Nothing,
                                 !.done = {}, !.staged = NoFiles]
  <2>1. imp' = [imp EXCEPT ![i] = r] /\ imp'[i] = r
    BY <1>12, <1>t DEF CommitImport, ImpTypeOK
  <2>2. imp'[i].stage = "record"
    BY <2>1, <1>t DEF ImpTypeOK, ImporterState
  <2>3. OwnFiles(i)'
    BY <2>2 DEF OwnFiles
  <2>4. TablesWhole'
    BY <1>12, <1>c DEF CommitImport
  <2> QED
    BY <1>12, <2>1, <2>3, <2>4, <1>t, OthersKeepTheirFiles
       DEF CommitImport, WholeInv, dir
<1>13. ASSUME NEW i \in Importer, UpsertImportMetadata(i)
      PROVE  WholeInv'
  <2>1. \A k \in Importer : OwnFiles(k)'
    BY <1>13, <1>g DEF UpsertImportMetadata, Stage, TryStage, dir
  <2> QED
    BY <1>13, <2>1, <1>w DEF UpsertImportMetadata, WholeInv, db
<1>14. ASSUME NEW i \in Importer, Interpolate(i)
      PROVE  WholeInv'
  <2>1. \A k \in Importer : OwnFiles(k)'
    BY <1>14, <1>l DEF Interpolate, dir
  <2> QED
    BY <1>14, <2>1, <1>w DEF Interpolate, WholeInv, db
<1>15. ASSUME NEW i \in Importer, ReleaseSyncLock(i)
      PROVE  WholeInv'
  <2>1. \A k \in Importer : OwnFiles(k)'
    BY <1>15, <1>g DEF ReleaseSyncLock, Stage, TryStage, dir
  <2> QED
    BY <1>15, <2>1, <1>w DEF ReleaseSyncLock, WholeInv, db
<1>16. ASSUME NEW i \in Importer, CleanUp(i)
      PROVE  WholeInv'
  <2>1. \A h \in Host : h # HostOf[i] => dirFiles'[h] = dirFiles[h]
    BY <1>16, <1>t DEF CleanUp, DirOf, RemoveDir
  <2> QED
    BY <1>16, <2>1, <1>t, <1>w, LeavingKeepsFiles DEF CleanUp, WholeInv, db
<1>17. ASSUME NEW i \in Importer, FailStep(i)
      PROVE  WholeInv'
  <2>1. \A k \in Importer : OwnFiles(k)'
    BY <1>17, <1>l DEF FailStep, dir
  <2> QED
    BY <1>17, <2>1, <1>w, <1>c DEF FailStep, WholeInv
<1>18. ASSUME NEW i \in Importer, FailFinally(i)
      PROVE  WholeInv'
  BY <1>18, <1>t, <1>w, LeavingKeepsFiles DEF FailFinally, WholeInv, db, dir
<1>19. ASSUME NEW h \in Host, Crash(h)
      PROVE  WholeInv'
  <2>1. \A k \in Importer : imp'[k] = Idle \/ imp'[k] = imp[k]
    BY <1>19 DEF Crash
  <2>2. \A k \in Importer : OwnFiles(k)'
    BY <1>19, <2>1 DEF Crash, WholeInv, OwnFiles, Idle, dir
  <2> QED
    BY <1>19, <2>2, <1>w DEF Crash, WholeInv
<1>20. ASSUME NEW f \in Feed, Publish(f)
      PROVE  WholeInv'
  <2>1. \A k \in Importer : OwnFiles(k)'
    BY <1>20 DEF Publish, WholeInv, OwnFiles, dir
  <2> QED
    BY <1>20, <2>1, <1>w DEF Publish, WholeInv, db
<1>21. CASE UNCHANGED vars
  <2>1. \A k \in Importer : OwnFiles(k)'
    BY <1>21 DEF vars, WholeInv, OwnFiles, dir
  <2> QED
    BY <1>21, <2>1, <1>w DEF vars, WholeInv, db
<1> QED
  BY <1>1, <1>2, <1>3, <1>4, <1>5, <1>6, <1>7, <1>8, <1>9, <1>10, <1>11, <1>12, <1>13, <1>14, <1>15, <1>16, <1>17, <1>18, <1>19, <1>20, <1>21
     DEF Next, Continue

(***************************************************************************)
(* When no two importers share a temporary directory, a feed's partitions  *)
(* are empty or hold one whole archive of this feed, with or without       *)
(* --force and whatever fails.                                             *)
(***************************************************************************)
THEOREM WholeArchives ==
  ASSUME PrivateHosts
  PROVE  Spec => []TablesWhole
<1>1. Init => TypeInv /\ WholeInv
  BY TypeInvInit, WholeInvInit
<1>2. TypeInv /\ WholeInv /\ [Next]_vars => (TypeInv /\ WholeInv)'
  BY TypeInvStep, WholeInvStep
<1>3. WholeInv => TablesWhole
  BY DEF WholeInv
<1> QED
  BY <1>1, <1>2, <1>3, PTL DEF Spec

-----------------------------------------------------------------------------
(* ServedWithAgency: what an open transaction has written by the time that *)
(* it has passed importRoutes, whoever wrote the directory meanwhile.      *)
OwnAgency(i) ==
  imp[i].stage = "copy" /\ "stop_times" \in imp[i].done =>
    "agency" \in imp[i].done /\ imp[i].staged["agency"] # Nothing

AgencyInv == ServedWithAgency /\ \A i \in Importer : OwnAgency(i)

(* A commit of all files replaces a feed's rows by rows with an agency.    *)
LEMMA CommitKeepsAgency ==
  ASSUME TypeInv, AgencyInv, NEW i \in Importer, At(i, "copy"), imp[i].done = File, Commit(i)
  PROVE  ServedWithAgency'
<1>1. tables \in [Feed -> Files] /\ imp[i].feed \in Feed /\ imp[i].staged["agency"] # Nothing
  BY DEF TypeInv, DbTypeOK, ImpTypeOK, AgencyInv, OwnAgency, At, File
<1>2. ASSUME NEW f \in Feed, tables'[f] # NoFiles PROVE tables'[f]["agency"] # Nothing
  <2>1. tables'[f] = IF f = imp[i].feed THEN imp[i].staged ELSE tables[f]
    BY <1>1 DEF Commit
  <2>2. tables[f] # NoFiles => tables[f]["agency"] # Nothing
    BY DEF AgencyInv, ServedWithAgency
  <2> QED
    BY <1>1, <1>2, <2>1, <2>2
<1> QED
  BY <1>2 DEF ServedWithAgency

LEMMA AgencyInvStep ==
  ASSUME TypeInv, AgencyInv, [Next]_vars
  PROVE  AgencyInv'
<1>t. /\ imp \in [Importer -> ImporterState]
      /\ tables \in [Feed -> Files]
      /\ \A k \in Importer : imp[k].stage # "idle" => imp[k].feed \in Feed
  BY DEF TypeInv, ImpTypeOK, DbTypeOK
<1>w. UNCHANGED tables => ServedWithAgency'
  BY DEF AgencyInv, ServedWithAgency
(* Only an importer in its transaction owes anything.                      *)
<1>k. ASSUME NEW i \in Importer, \A k \in Importer \ {i} : imp'[k] = imp[k],
             OwnAgency(i)'
      PROVE  \A k \in Importer : OwnAgency(k)'
  BY <1>k DEF AgencyInv, OwnAgency
<1>1. ASSUME NEW i \in Importer, NEW f \in Feed, NEW force \in BOOLEAN,
             StartImport(i, f, force)
      PROVE  AgencyInv'
  <2>1. /\ \A k \in Importer \ {i} : imp'[k] = imp[k]
        /\ imp'[i].stage = "head" /\ UNCHANGED tables
    BY <1>1, <1>t DEF StartImport, Idle, db
  <2>2. OwnAgency(i)'
    BY <2>1 DEF OwnAgency
  <2> QED
    BY <2>1, <2>2, <1>k, <1>w DEF AgencyInv
<1>2. ASSUME NEW i \in Importer, Continue(i), imp[i].stage \notin {"begin", "copy"}
      PROVE  AgencyInv'
  <2>r. imp[i] \in ImporterState
    BY <1>t
  <2>s. \A s \in {"prepare", "mkdir", "download", "validate", "begin", "interpolate", "cleanup"} :
          Goto(i, s) => imp'[i].stage # "copy"
    BY <1>t DEF Goto, ImporterState
  <2>l. Leave(i) => imp'[i].stage # "copy"
    BY <1>t DEF Leave, Idle
  <2>0. \A k \in Importer \ {i} : imp'[k] = imp[k]
    BY <1>2, <1>t
       DEF Continue, Goto, Leave, GetResourceMetadata, CompareMetadata,
           PrepareDirectory, MakeDirectory, StartDownload, FinishExtract,
           ValidateFeed, BeginImport, CommitImport, UpsertImportMetadata,
           Interpolate, ReleaseSyncLock, CleanUp, ExtractFile, CopyFile
  <2>u. UNCHANGED tables
    BY <1>2
       DEF Continue, At, GetResourceMetadata, CompareMetadata,
           PrepareDirectory, MakeDirectory, StartDownload, FinishExtract,
           ValidateFeed, BeginImport, CommitImport, UpsertImportMetadata,
           Interpolate, ReleaseSyncLock, CleanUp, ExtractFile, CopyFile, db
  <2>a. ASSUME GetResourceMetadata(i) \/ StartDownload(i)
        PROVE  imp'[i].stage # "copy"
    <3>1. CASE GetResourceMetadata(i)
      <4>1. PICK r \in ResourceMetadata(imp[i].feed, source[imp[i].feed]) :
              imp' = [imp EXCEPT ![i].resource = r,
                                 ![i].stage = IF imp[i].force THEN "prepare"
                                                              ELSE "compare"]
        BY <3>1, Zenon DEF GetResourceMetadata
      <4> QED
        BY <4>1, <1>t, <2>r DEF ImporterState
    <3>2. CASE StartDownload(i)
      BY <3>2, <1>t, <2>r DEF StartDownload, ImporterState
    <3> QED
      BY <2>a, <3>1, <3>2
  <2>b. ASSUME \/ CompareMetadata(i) \/ FinishExtract(i) \/ ValidateFeed(i)
               \/ UpsertImportMetadata(i) \/ Interpolate(i) \/ ReleaseSyncLock(i)
               \/ PrepareDirectory(i) \/ MakeDirectory(i)
        PROVE  imp'[i].stage # "copy"
    <3>1. \/ Leave(i)
          \/ \E s \in {"prepare", "mkdir", "download", "validate", "begin", "interpolate", "cleanup"} :
               Goto(i, s)
      BY <2>b, Zenon
         DEF CompareMetadata, FinishExtract, ValidateFeed, UpsertImportMetadata,
             Interpolate, ReleaseSyncLock, PrepareDirectory, MakeDirectory
    <3> QED
      BY <3>1, <2>s, <2>l
  <2>c. ASSUME CleanUp(i)
        PROVE  imp'[i].stage # "copy"
    BY <2>c, <1>t DEF CleanUp, Idle
  <2>d. ASSUME \E x \in File : ExtractFile(i, x)
        PROVE  imp'[i].stage # "copy"
    BY <2>d, <1>t, <2>r DEF ExtractFile, At, ImporterState
  <2>1. /\ \A k \in Importer \ {i} : imp'[k] = imp[k]
        /\ imp'[i].stage # "copy" /\ UNCHANGED tables
    BY <1>2, <2>0, <2>u, <2>a, <2>b, <2>c, <2>d
       DEF Continue, At, BeginImport, CommitImport, CopyFile
  <2>2. OwnAgency(i)'
    BY <2>1 DEF OwnAgency
  <2> QED
    BY <2>1, <2>2, <1>k, <1>w DEF AgencyInv
<1>3. ASSUME NEW i \in Importer, BeginImport(i)
      PROVE  AgencyInv'
  <2>1. /\ \A k \in Importer \ {i} : imp'[k] = imp[k]
        /\ imp'[i].done = {} /\ UNCHANGED tables
    BY <1>3, <1>t DEF BeginImport, ImporterState
  <2>2. OwnAgency(i)'
    BY <2>1 DEF OwnAgency
  <2> QED
    BY <2>1, <2>2, <1>k, <1>w DEF AgencyInv
<1>4. ASSUME NEW i \in Importer, NEW x \in File, CopyFile(i, x)
      PROVE  AgencyInv'
  <2>1. (\A k \in Importer \ {i} : imp'[k] = imp[k]) /\ UNCHANGED tables
    BY <1>4, <1>t DEF CopyFile, Leave
  <2>2. CASE x = "stop_times" /\ imp[i].staged["agency"] = Nothing
    <3>1. imp'[i].stage = "release"
      BY <1>4, <1>t, <2>2 DEF CopyFile, Leave, Idle
    <3>2. OwnAgency(i)'
      BY <3>1 DEF OwnAgency
    <3> QED
      BY <2>1, <3>2, <1>k, <1>w DEF AgencyInv
  <2>3. CASE ~(x = "stop_times" /\ imp[i].staged["agency"] = Nothing)
    <3> DEFINE r == [imp[i] EXCEPT !.done = @ \cup {x},
                                   !.staged[x] = dirFiles[DirOf(i)][x]]
    <3>1. imp' = [imp EXCEPT ![i] = r] /\ imp'[i] = r
      BY <1>4, <1>t, <2>3 DEF CopyFile
    <3>2. /\ imp'[i].done = imp[i].done \cup {x} /\ imp[i].staged \in Files
          /\ imp'[i].staged = [imp[i].staged EXCEPT ![x] = dirFiles[DirOf(i)][x]]
      BY <1>t, <3>1 DEF ImporterState
    <3>3. /\ imp[i].stage = "copy" /\ x \notin imp[i].done
          /\ x = "stop_times" => "agency" \in imp[i].done /\ imp[i].staged["agency"] # Nothing
      BY <1>4, <2>3 DEF CopyFile, At, Before
    <3>4. "stop_times" \in imp[i].done =>
            "agency" \in imp[i].done /\ imp[i].staged["agency"] # Nothing
      BY <3>3 DEF AgencyInv, OwnAgency
    <3>5. OwnAgency(i)'
      BY <3>2, <3>3, <3>4 DEF OwnAgency, Files
    <3> QED
      BY <2>1, <3>5, <1>k, <1>w DEF AgencyInv
  <2> QED
    BY <2>2, <2>3
<1>5. ASSUME NEW i \in Importer, CommitImport(i)
      PROVE  AgencyInv'
  <2>1. /\ \A k \in Importer \ {i} : imp'[k] = imp[k]
        /\ imp'[i].stage = "record"
    BY <1>5, <1>t DEF CommitImport, ImporterState
  <2>2. OwnAgency(i)'
    BY <2>1 DEF OwnAgency
  <2>3. ServedWithAgency'
    BY <1>5, CommitKeepsAgency DEF CommitImport
  <2> QED
    BY <2>1, <2>2, <2>3, <1>k DEF AgencyInv
<1>6. ASSUME NEW i \in Importer, Continue(i)
      PROVE  AgencyInv'
  <2>1. CASE imp[i].stage = "begin" \/ imp[i].stage = "copy"
    <3>1. \/ BeginImport(i) \/ CommitImport(i) \/ \E x \in File : CopyFile(i, x)
      BY <1>6, <2>1
         DEF Continue, At, GetResourceMetadata, CompareMetadata,
             PrepareDirectory, MakeDirectory, StartDownload, FinishExtract,
             ValidateFeed, UpsertImportMetadata, Interpolate, ReleaseSyncLock,
             CleanUp, ExtractFile
    <3> QED
      BY <3>1, <1>3, <1>4, <1>5
  <2> QED
    BY <1>2, <1>6, <2>1
(* A failure in the transaction rolls it back, or commits all of it.       *)
<1>7. ASSUME NEW i \in Importer, FailStep(i)
      PROVE  AgencyInv'
  <2>1. (\A k \in Importer \ {i} : imp'[k] = imp[k]) /\ imp'[i].stage = "release"
    BY <1>7, <1>t DEF FailStep, Leave, Idle
  <2>2. OwnAgency(i)'
    BY <2>1 DEF OwnAgency
  <2>3. ServedWithAgency'
    BY <1>7, <1>w, CommitKeepsAgency DEF FailStep
  <2> QED
    BY <2>1, <2>2, <2>3, <1>k DEF AgencyInv
<1>8. ASSUME NEW i \in Importer, FailFinally(i)
      PROVE  AgencyInv'
  <2>1. /\ \A k \in Importer \ {i} : imp'[k] = imp[k]
        /\ imp'[i].stage = "idle" /\ UNCHANGED tables
    BY <1>8, <1>t DEF FailFinally, Idle, db
  <2>2. OwnAgency(i)'
    BY <2>1 DEF OwnAgency
  <2> QED
    BY <2>1, <2>2, <1>k, <1>w DEF AgencyInv
<1>9. ASSUME NEW h \in Host, Crash(h)
      PROVE  AgencyInv'
  <2>1. /\ \A k \in Importer : imp'[k] = imp[k] \/ imp'[k].stage = "idle"
        /\ UNCHANGED tables
    BY <1>9, <1>t DEF Crash, Idle
  <2> QED
    BY <2>1, <1>w DEF AgencyInv, OwnAgency
<1>10. ASSUME UNCHANGED <<imp, tables>>
       PROVE  AgencyInv'
  BY <1>10 DEF AgencyInv, OwnAgency, ServedWithAgency
<1>11. ASSUME NEW f \in Feed, Publish(f)
       PROVE  AgencyInv'
  BY <1>10, <1>11 DEF Publish, db
<1>12. UNCHANGED vars => AgencyInv'
  BY <1>10 DEF vars, db
<1> QED
  BY <1>1, <1>6, <1>7, <1>8, <1>9, <1>11, <1>12 DEF Next

(***************************************************************************)
(* No feed is ever served without the agency that its routes refer to      *)
(* (importRoutes throws without one, and the transaction is rolled back),  *)
(* whatever other importers do to a directory that they share, with        *)
(* --force, and whatever fails or crashes.                                 *)
(***************************************************************************)
THEOREM ServedHaveAgency == Spec => []ServedWithAgency
<1>1. Init => TypeInv /\ AgencyInv
  BY TypeInvInit DEF Init, AgencyInv, ServedWithAgency, OwnAgency, Idle
<1>2. TypeInv /\ AgencyInv /\ [Next]_vars => (TypeInv /\ AgencyInv)'
  BY TypeInvStep, AgencyInvStep
<1> QED
  BY <1>1, <1>2, PTL DEF Spec, AgencyInv

-----------------------------------------------------------------------------
(* The data and what the metadata claims of it. *)

Claims(m) == {m.hash, m.lastModified, m.etag}

AtMost(m, v) == \A c \in Claims(m) : c <= v

(* A feed's data was published, and its metadata does not claim more. *)
FeedData(f) ==
  /\ ServedVersion(f) <= source[f]
  /\ metadata[f] # Nothing =>
       tables[f] # NoFiles /\ AtMost(metadata[f], ServedVersion(f))

(* The resource an importer has read the metadata of was published; each of
   its fields tells the same version, or nothing. *)
Resourced(i) ==
  imp[i].stage \in TryStage \ {"head"} =>
    /\ imp[i].resource \in Metadata
    /\ \E v \in 0..source[imp[i].feed] : Claims(imp[i].resource) \subseteq {0, v}

(* The archive came later, and later than what is served. *)
Archived(i) ==
  imp[i].stage \in {"extract", "validate", "begin", "copy"} =>
    /\ imp[i].archive.version <= source[imp[i].feed]
    /\ AtMost(imp[i].resource, imp[i].archive.version)
    /\ ServedVersion(imp[i].feed) <= imp[i].archive.version

Committed(i) ==
  imp[i].stage = "record" =>
    /\ tables[imp[i].feed] # NoFiles
    /\ AtMost(imp[i].resource, ServedVersion(imp[i].feed))

Own(i) == Resourced(i) /\ Archived(i) /\ Committed(i)

(***************************************************************************)
(* The lock keeps other importers of the feed from replacing the data      *)
(* between an importer's HEAD and its commit or its upsert, and the        *)
(* directory keeps its archive whole.                                      *)
(***************************************************************************)
DataInv ==
  /\ TypeInv /\ LockInv /\ WholeInv
  /\ \A f \in Feed : FeedData(f)
  /\ \A i \in Importer : Own(i)

-----------------------------------------------------------------------------
(* Whole rows have one version. *)
LEMMA WholeRows ==
  ASSUME NEW f \in Feed, NEW v \in Version, NEW rows, Holds(rows, f, v)
  PROVE  rows # NoFiles /\ rows["stop_times"].version = v
<1>1. rows["stop_times"] = [feed |-> f, version |-> v]
  BY DEF Holds, File
<1>2. [feed |-> f, version |-> v] # Nothing
  BY NothingAssumption DEF Archive
<1>3. NoFiles["stop_times"] = Nothing
  BY DEF NoFiles, File
<1> QED
  BY <1>1, <1>2, <1>3

(* A feed serves nothing, or its whole version. *)
LEMMA ServedCases ==
  ASSUME TablesWhole, NEW f \in Feed
  PROVE  \/ tables[f] = NoFiles /\ ServedVersion(f) = 0
         \/ /\ tables[f] # NoFiles
            /\ ServedVersion(f) \in Version
            /\ Holds(tables[f], f, ServedVersion(f))
<1>1. CASE tables[f] = NoFiles
  BY <1>1 DEF ServedVersion
<1>2. CASE tables[f] # NoFiles
  <2>1. PICK v \in Version : Holds(tables[f], f, v)
    BY <1>2 DEF TablesWhole
  <2> QED
    BY <2>1, WholeRows DEF ServedVersion
<1> QED
  BY <1>1, <1>2

LEMMA ServedType ==
  ASSUME TablesWhole, NEW f \in Feed
  PROVE  ServedVersion(f) \in 0..MaxVersion
BY ServedCases, VersionAssumption DEF Version

(* What a server answers tells the version it publishes, or nothing. *)
LEMMA ResourceClaims ==
  ASSUME NEW f \in Feed, NEW v \in Version, NEW m \in ResourceMetadata(f, v)
  PROVE  m \in Metadata /\ Claims(m) \subseteq {0, v}
<1>1. m \in Metadata
  BY ResourceType
<1>2. Claims(m) \subseteq {0, v}
  BY DEF ResourceMetadata, Accepted, Hashed, Claims
<1> QED
  BY <1>1, <1>2

-----------------------------------------------------------------------------
(* An importer that moves leaves what is true of the others. *)
LEMMA OthersKeepTheirOwn ==
  ASSUME ImpTypeOK, \A k \in Importer : Own(k), NEW i \in Importer, NEW r,
         imp' = [imp EXCEPT ![i] = r],
         UNCHANGED <<tables, source>>, Own(i)'
  PROVE  \A k \in Importer : Own(k)'
<1> SUFFICES ASSUME NEW k \in Importer, k # i
             PROVE  Own(k)'
  OBVIOUS
<1>1. imp'[k] = imp[k]
  BY DEF ImpTypeOK
<1>2. Own(k)
  OBVIOUS
<1> QED
  BY <1>1, <1>2 DEF Own, Resourced, Archived, Committed, ServedVersion

LEMMA FeedsKeepTheirData ==
  ASSUME \A f \in Feed : FeedData(f), UNCHANGED <<tables, metadata, source>>
  PROVE  \A f \in Feed : FeedData(f)'
BY DEF FeedData, ServedVersion

(* Outside the try block an importer claims nothing. *)
LEMMA NothingOutside ==
  ASSUME NEW i \in Importer, imp'[i].stage \notin TryStage \ {"head"}
  PROVE  Own(i)'
BY DEF Own, Resourced, Archived, Committed, TryStage

LEMMA LeavingKeepsOwn ==
  ASSUME ImpTypeOK, \A k \in Importer : Own(k), NEW i \in Importer,
         Leave(i) \/ imp' = [imp EXCEPT ![i] = Idle],
         UNCHANGED <<tables, source>>
  PROVE  \A k \in Importer : Own(k)'
<1>1. ASSUME NEW r, imp' = [imp EXCEPT ![i] = r], r.stage \notin TryStage
      PROVE  \A k \in Importer : Own(k)'
  <2>1. imp'[i].stage \notin TryStage \ {"head"}
    BY <1>1 DEF ImpTypeOK
  <2> QED
    BY <1>1, <2>1, NothingOutside, OthersKeepTheirOwn
<1>2. CASE Leave(i)
  <2> DEFINE r == [Idle EXCEPT !.stage = "release", !.feed = imp[i].feed,
                               !.obtained = imp[i].obtained]
  <2>1. imp' = [imp EXCEPT ![i] = r] /\ r.stage \notin TryStage
    BY <1>2 DEF Leave, Idle, TryStage
  <2> QED
    BY <1>1, <2>1
<1>3. CASE imp' = [imp EXCEPT ![i] = Idle]
  <2>1. Idle.stage \notin TryStage
    BY DEF Idle, TryStage
  <2> QED
    BY <1>1, <1>3, <2>1
<1> QED
  BY <1>2, <1>3

(* Going on to a stage that claims no more than the one before. *)
LEMMA GoingOnKeepsOwn ==
  ASSUME ImpTypeOK, \A k \in Importer : Own(k), NEW i \in Importer,
         NEW s \in Stage, Goto(i, s), UNCHANGED <<tables, source>>,
         \/ s \notin TryStage
         \/ /\ imp[i].stage \in TryStage \ {"head"}
            /\ s \in {"prepare", "mkdir", "download", "interpolate"}
         \/ /\ imp[i].stage \in {"extract", "validate"}
            /\ s \in {"validate", "begin"}
  PROVE  \A k \in Importer : Own(k)'
<1> DEFINE r == [imp[i] EXCEPT !.stage = s]
<1>1. imp' = [imp EXCEPT ![i] = r] /\ imp'[i] = r
  BY DEF Goto, ImpTypeOK
<1>2. /\ r.stage = s /\ r.feed = imp[i].feed
      /\ r.resource = imp[i].resource /\ r.archive = imp[i].archive
  BY DEF ImpTypeOK, ImporterState
<1>3. CASE s \notin TryStage
  BY <1>1, <1>2, <1>3, NothingOutside, OthersKeepTheirOwn
<1>4. CASE /\ imp[i].stage \in TryStage \ {"head"}
           /\ s \in {"prepare", "mkdir", "download", "interpolate"}
  <2>1. Own(i)'
    BY <1>1, <1>2, <1>4 DEF Own, Resourced, Archived, Committed
  <2> QED
    BY <1>1, <2>1, OthersKeepTheirOwn
<1>5. CASE /\ imp[i].stage \in {"extract", "validate"}
           /\ s \in {"validate", "begin"}
  <2>1. Own(i)'
    BY <1>1, <1>2, <1>5
       DEF Own, Resourced, Archived, Committed, TryStage, ServedVersion
  <2> QED
    BY <1>1, <2>1, OthersKeepTheirOwn
<1> QED
  BY <1>3, <1>4, <1>5

(***************************************************************************)
(* A commit puts the archive that the importer downloaded in the place of  *)
(* an older one, or of the same.                                           *)
(***************************************************************************)
LEMMA Replaced ==
  ASSUME DataInv, NEW i \in Importer, At(i, "copy"), imp[i].done = File,
         Commit(i), NEW f \in Feed, f = imp[i].feed
  PROVE  /\ imp[i].archive.version \in Version
         /\ tables'[f] # NoFiles
         /\ ServedVersion(f)' = imp[i].archive.version
         /\ \A g \in Feed \ {f} : tables'[g] = tables[g]
<1> DEFINE v == imp[i].archive.version
<1>1. /\ imp[i].staged \in Files
      /\ imp[i].archive \in Archive
      /\ imp[i].archive.feed = f
      /\ \A x \in File : imp[i].staged[x] = imp[i].archive
  BY DEF DataInv, TypeInv, WholeInv, OwnFiles, At, ImpTypeOK, ImporterState
<1>2. v \in Version /\ imp[i].archive = [feed |-> f, version |-> v]
  BY <1>1 DEF Archive
<1>3. Holds(imp[i].staged, f, v)
  BY <1>1, <1>2 DEF Holds, Files
<1>4. tables'[f] = imp[i].staged
  BY <1>1 DEF Commit, DataInv, TypeInv, DbTypeOK
<1>5. tables'[f] # NoFiles /\ tables'[f]["stop_times"].version = v
  BY <1>1, <1>2, <1>3, <1>4, WholeRows
<1>6. ServedVersion(f)' = v
  <2>1. Holds(tables'[f], f, v)
    BY <1>3, <1>4
  <2> QED
    BY <1>2, <1>5, <2>1 DEF ServedVersion
<1>7. \A g \in Feed \ {f} : tables'[g] = tables[g]
  BY DEF Commit, DataInv, TypeInv, DbTypeOK
<1> QED
  BY <1>1, <1>2, <1>5, <1>6, <1>7

(* After a commit, every feed's metadata still claims no more than its data;
   what the other importers rely on is of other feeds. *)
LEMMA CommitKeepsData ==
  ASSUME DataInv, NEW i \in Importer, At(i, "copy"), imp[i].done = File,
         Commit(i), UNCHANGED <<metadata, source>>
  PROVE  /\ \A g \in Feed : FeedData(g)'
         /\ \A k \in Importer \ {i} : imp'[k] = imp[k] => Own(k)'
<1>f. PICK f \in Feed : f = imp[i].feed
  BY DEF DataInv, TypeInv, ImpTypeOK, At
<1> DEFINE v == imp[i].archive.version
<1>r. /\ v \in Version
      /\ tables'[f] # NoFiles /\ ServedVersion(f)' = v
      /\ \A g \in Feed \ {f} : tables'[g] = tables[g]
  BY <1>f, Replaced
<1>o. /\ v <= source[f]
      /\ AtMost(imp[i].resource, v)
      /\ ServedVersion(f) <= v
  BY <1>f DEF DataInv, Own, Archived, At
<1>s. ServedVersion(f) \in 0..MaxVersion
  BY ServedType DEF DataInv, WholeInv
<1>1. ASSUME NEW g \in Feed
      PROVE  FeedData(g)'
  <2>0. FeedData(g)
    BY DEF DataInv
  <2>1. CASE g = f
    <3>1. source'[g] = source[g] /\ metadata'[g] = metadata[g]
      OBVIOUS
    <3>2. ASSUME metadata[f] # Nothing
          PROVE  AtMost(metadata[f], v)
      <4>1. metadata[f] \in Metadata
        BY <1>r, <3>2 DEF DataInv, TypeInv, DbTypeOK
      <4>2. Claims(metadata[f]) \subseteq Int
        BY <4>1 DEF Metadata, Claims
      <4>3. \A c \in Claims(metadata[f]) : c <= ServedVersion(f)
        BY <2>0, <2>1, <3>2 DEF FeedData, AtMost
      <4> QED
        BY <1>r, <1>o, <1>s, <4>2, <4>3 DEF AtMost, Version
    <3> QED
      BY <1>r, <1>o, <2>1, <3>1, <3>2 DEF FeedData
  <2>2. CASE g # f
    <3>1. ServedVersion(g)' = ServedVersion(g) /\ tables'[g] = tables[g]
      BY <1>r, <2>2 DEF ServedVersion
    <3> QED
      BY <2>0, <3>1 DEF FeedData
  <2> QED
    BY <2>1, <2>2
<1>2. ASSUME NEW k \in Importer, k # i, imp'[k] = imp[k]
      PROVE  Own(k)'
  <2>0. Own(k)
    BY DEF DataInv
  <2>1. CASE imp[k].stage \notin TryStage
    BY <1>2, <2>1, NothingOutside
  <2>2. CASE imp[k].stage \in TryStage
    <3>1. imp[k].feed \in Feed
      BY <2>2 DEF DataInv, TypeInv, ImpTypeOK, TryStage
    <3>2. imp[k].feed # f
      BY <1>2, <1>f, <2>2 DEF DataInv, LockInv, InLockedSection, At, TryStage
    <3>3. tables'[imp[k].feed] = tables[imp[k].feed]
      BY <1>r, <3>1, <3>2
    <3> QED
      BY <1>2, <2>0, <3>3 DEF Own, Resourced, Archived, Committed, ServedVersion
  <2> QED
    BY <2>1, <2>2
<1> QED
  BY <1>1, <1>2

-----------------------------------------------------------------------------
LEMMA DataInvInit == Init => DataInv
<1> SUFFICES ASSUME Init
             PROVE  DataInv
  OBVIOUS
<1>1. TypeInv /\ LockInv /\ WholeInv
  BY TypeInvInit, LockInvInit, WholeInvInit
<1>2. ASSUME NEW f \in Feed
      PROVE  FeedData(f)
  <2>1. tables[f] = NoFiles /\ metadata[f] = Nothing /\ source[f] = 1
    BY DEF Init
  <2>2. ServedVersion(f) = 0
    BY <2>1 DEF ServedVersion
  <2> QED
    BY <2>1, <2>2 DEF FeedData
<1>3. \A i \in Importer : Own(i)
  BY DEF Init, Own, Resourced, Archived, Committed, Idle, TryStage
<1> QED
  BY <1>1, <1>2, <1>3 DEF DataInv

LEMMA DataInvStep ==
  ASSUME PrivateHosts, ~AllowForce, DataInv, [Next]_vars
  PROVE  DataInv'
<1> DEFINE Goal == (\A g \in Feed : FeedData(g)') /\ \A k \in Importer : Own(k)'
<1>t. /\ ImpTypeOK /\ TablesWhole
      /\ source \in [Feed -> Version]
      /\ metadata \in [Feed -> Metadata \cup {Nothing}]
      /\ \A k \in Importer : Own(k)
      /\ \A g \in Feed : FeedData(g)
  BY DEF DataInv, TypeInv, WholeInv, WorldTypeOK, DbTypeOK
<1>f. UNCHANGED <<tables, metadata, source>> => \A g \in Feed : FeedData(g)'
  BY <1>t, FeedsKeepTheirData
<1>l. ASSUME NEW i \in Importer, UNCHANGED <<tables, source>>,
             Leave(i) \/ imp' = [imp EXCEPT ![i] = Idle]
      PROVE  \A k \in Importer : Own(k)'
  BY <1>l, <1>t, LeavingKeepsOwn
<1>g. ASSUME NEW i \in Importer, NEW s \in Stage, Goto(i, s),
             UNCHANGED <<tables, source>>,
             \/ s \notin TryStage
             \/ /\ imp[i].stage \in TryStage \ {"head"}
                /\ s \in {"prepare", "mkdir", "download", "interpolate"}
             \/ /\ imp[i].stage \in {"extract", "validate"}
                /\ s \in {"validate", "begin"}
      PROVE  \A k \in Importer : Own(k)'
  BY <1>g, <1>t, GoingOnKeepsOwn
<1>o. ASSUME NEW i \in Importer, NEW r, imp' = [imp EXCEPT ![i] = r],
             UNCHANGED <<tables, source>>, Own(i)'
      PROVE  \A k \in Importer : Own(k)'
  BY <1>o, <1>t, OthersKeepTheirOwn
<1>1. ASSUME NEW i \in Importer, NEW f \in Feed, NEW force \in BOOLEAN,
             StartImport(i, f, force)
      PROVE  Goal
  <2> DEFINE r == [Idle EXCEPT !.stage = "head", !.feed = f, !.force = force,
                               !.obtained = f \notin syncLock]
  <2>1. imp' = [imp EXCEPT ![i] = r] /\ imp'[i] = r
    BY <1>1, <1>t DEF StartImport, ImpTypeOK
  <2>2. r.stage = "head"
    BY DEF Idle
  <2>3. Own(i)'
    BY <2>1, <2>2, NothingOutside
  <2> QED
    BY <1>1, <2>1, <2>3, <1>f, <1>o DEF StartImport, db, world
<1>2. ASSUME NEW i \in Importer, GetResourceMetadata(i)
      PROVE  Goal
  <2>1. PICK m \in ResourceMetadata(imp[i].feed, source[imp[i].feed]) :
          imp' = [imp EXCEPT ![i].resource = m,
                             ![i].stage = IF imp[i].force THEN "prepare"
                                                          ELSE "compare"]
    BY <1>2 DEF GetResourceMetadata
  <2> DEFINE r == [imp[i] EXCEPT !.resource = m,
                                 !.stage = IF imp[i].force THEN "prepare"
                                                           ELSE "compare"]
  <2>2. imp' = [imp EXCEPT ![i] = r] /\ imp'[i] = r
    BY <2>1, <1>t DEF ImpTypeOK
  <2>3. /\ r.stage \in {"prepare", "compare"}
        /\ r.feed = imp[i].feed /\ r.resource = m
    BY <1>t DEF ImpTypeOK, ImporterState
  <2>4. imp[i].feed \in Feed /\ source[imp[i].feed] \in Version
    BY <1>2, <1>t DEF GetResourceMetadata, At, ImpTypeOK
  <2>5. m \in Metadata /\ Claims(m) \subseteq {0, source[imp[i].feed]}
    BY <2>4, ResourceClaims
  <2>6. source[imp[i].feed] \in 0..source[imp[i].feed]
    BY <2>4 DEF Version
  <2>7. source' = source
    BY <1>2 DEF GetResourceMetadata, world
  <2>8. Own(i)'
    BY <2>2, <2>3, <2>5, <2>6, <2>7 DEF Own, Resourced, Archived, Committed
  <2> QED
    BY <1>2, <2>2, <2>8, <1>f, <1>o DEF GetResourceMetadata, db, world
<1>3. ASSUME NEW i \in Importer, CompareMetadata(i)
      PROVE  Goal
  BY <1>3, <1>f, <1>g, <1>l DEF CompareMetadata, At, Stage, TryStage, db, world
<1>4. ASSUME NEW i \in Importer, PrepareDirectory(i)
      PROVE  Goal
  BY <1>4, <1>f, <1>g DEF PrepareDirectory, At, Stage, TryStage, db, world
<1>5. ASSUME NEW i \in Importer, MakeDirectory(i)
      PROVE  Goal
  BY <1>5, <1>f, <1>g, <1>l DEF MakeDirectory, At, Stage, TryStage, db, world
<1>6. ASSUME NEW i \in Importer, StartDownload(i)
      PROVE  Goal
  <2>f. PICK f \in Feed : f = imp[i].feed
    BY <1>6, <1>t DEF StartDownload, At, ImpTypeOK
  <2> DEFINE r == [imp[i] EXCEPT !.archive = [feed |-> f, version |-> source[f]],
                                 !.stage = "extract"]
  <2>1. imp' = [imp EXCEPT ![i] = r] /\ imp'[i] = r
    BY <1>6, <2>f, <1>t DEF StartDownload, ImpTypeOK
  <2>2. /\ r.stage = "extract" /\ r.feed = f /\ r.resource = imp[i].resource
        /\ r.archive.version = source[f]
    BY <2>f, <1>t DEF ImpTypeOK, ImporterState
  <2>3. /\ imp[i].resource \in Metadata
        /\ \E v \in 0..source[f] : Claims(imp[i].resource) \subseteq {0, v}
    BY <1>6, <2>f, <1>t DEF StartDownload, At, Own, Resourced, TryStage
  <2>4. source[f] \in Version
    BY <1>t
  <2>5. AtMost(imp[i].resource, source[f])
    BY <2>3, <2>4 DEF AtMost, Version
  <2>6. ServedVersion(f) <= source[f]
    BY <1>t DEF FeedData
  <2>7. UNCHANGED <<tables, metadata, source>>
    BY <1>6 DEF StartDownload, db, world
  <2>8. Resourced(i)'
    BY <2>1, <2>2, <2>3, <2>7 DEF Resourced
  <2>9. Archived(i)'
    <3>1. /\ imp'[i].feed = f /\ imp'[i].resource = imp[i].resource
          /\ imp'[i].archive.version = source[f]
      BY <2>1, <2>2
    <3>2. ServedVersion(f)' = ServedVersion(f) /\ source'[f] = source[f]
      BY <2>7 DEF ServedVersion
    <3> QED
      BY <2>4, <2>5, <2>6, <3>1, <3>2 DEF Archived, Version
  <2>10. Committed(i)'
    BY <2>1, <2>2 DEF Committed
  <2>11. Own(i)'
    BY <2>8, <2>9, <2>10 DEF Own
  <2> QED
    BY <2>1, <2>7, <2>11, <1>f, <1>o
<1>7. ASSUME NEW i \in Importer, NEW x \in File, ExtractFile(i, x)
      PROVE  Goal
  <2> DEFINE r == [imp[i] EXCEPT !.done = @ \cup {x}]
  <2>1. imp' = [imp EXCEPT ![i] = r] /\ imp'[i] = r
    BY <1>7, <1>t DEF ExtractFile, ImpTypeOK
  <2>2. /\ r.stage = imp[i].stage /\ r.feed = imp[i].feed
        /\ r.resource = imp[i].resource /\ r.archive = imp[i].archive
    BY <1>t DEF ImpTypeOK, ImporterState
  <2>3. UNCHANGED <<tables, metadata, source>>
    BY <1>7 DEF ExtractFile, db, world
  <2>4. Own(i)'
    BY <2>1, <2>2, <2>3, <1>t DEF Own, Resourced, Archived, Committed, ServedVersion
  <2> QED
    BY <2>1, <2>3, <2>4, <1>f, <1>o
<1>8. ASSUME NEW i \in Importer, FinishExtract(i)
      PROVE  Goal
  BY <1>8, <1>f, <1>g, <1>l DEF FinishExtract, At, Stage, TryStage, db, world
<1>9. ASSUME NEW i \in Importer, ValidateFeed(i)
      PROVE  Goal
  BY <1>9, <1>f, <1>g, <1>l DEF ValidateFeed, At, Stage, TryStage, db, world
<1>10. ASSUME NEW i \in Importer, BeginImport(i)
       PROVE  Goal
  <2> DEFINE r == [imp[i] EXCEPT !.stage = "copy", !.done = {},
                                 !.staged = NoFiles]
  <2>1. imp' = [imp EXCEPT ![i] = r] /\ imp'[i] = r
    BY <1>10, <1>t DEF BeginImport, ImpTypeOK
  <2>2. /\ r.stage = "copy" /\ r.feed = imp[i].feed
        /\ r.resource = imp[i].resource /\ r.archive = imp[i].archive
    BY <1>t DEF ImpTypeOK, ImporterState
  <2>3. UNCHANGED <<tables, metadata, source>>
    BY <1>10 DEF BeginImport, world
  <2>4. imp[i].stage = "begin"
    BY <1>10 DEF BeginImport, At
  <2>5. Own(i)'
    BY <2>1, <2>2, <2>3, <2>4, <1>t
       DEF Own, Resourced, Archived, Committed, ServedVersion, TryStage
  <2> QED
    BY <2>1, <2>3, <2>5, <1>f, <1>o
<1>11. ASSUME NEW i \in Importer, NEW x \in File, CopyFile(i, x)
       PROVE  Goal
  <2>0. UNCHANGED <<tables, metadata, source>>
    BY <1>11 DEF CopyFile, world
  <2>1. CASE Leave(i)
    BY <2>0, <2>1, <1>f, <1>l
  <2>2. CASE imp' = [imp EXCEPT ![i].done = @ \cup {x},
                                ![i].staged[x] = dirFiles[DirOf(i)][x]]
    <3> DEFINE r == [imp[i] EXCEPT !.done = @ \cup {x},
                                   !.staged[x] = dirFiles[DirOf(i)][x]]
    <3>1. imp' = [imp EXCEPT ![i] = r] /\ imp'[i] = r
      BY <2>2, <1>t DEF ImpTypeOK
    <3>2. /\ r.stage = imp[i].stage /\ r.feed = imp[i].feed
          /\ r.resource = imp[i].resource /\ r.archive = imp[i].archive
      BY <1>t DEF ImpTypeOK, ImporterState
    <3>3. Own(i)'
      BY <2>0, <3>1, <3>2, <1>t
         DEF Own, Resourced, Archived, Committed, ServedVersion
    <3> QED
      BY <2>0, <3>1, <3>3, <1>f, <1>o
  <2> QED
    BY <1>11, <2>1, <2>2 DEF CopyFile
<1>12. ASSUME NEW i \in Importer, CommitImport(i)
       PROVE  Goal
  <2>f. PICK f \in Feed : f = imp[i].feed
    BY <1>12, <1>t DEF CommitImport, At, ImpTypeOK
  <2> DEFINE r == [imp[i] EXCEPT !.stage = "record", !.archive = Nothing,
                                 !.done = {}, !.staged = NoFiles]
  <2>1. imp' = [imp EXCEPT ![i] = r] /\ imp'[i] = r
    BY <1>12, <1>t DEF CommitImport, ImpTypeOK
  <2>2. r.stage = "record" /\ r.feed = f /\ r.resource = imp[i].resource
    BY <2>f, <1>t DEF ImpTypeOK, ImporterState
  <2>3. /\ At(i, "copy") /\ imp[i].done = File /\ Commit(i)
        /\ UNCHANGED <<metadata, source>>
    BY <1>12 DEF CommitImport, world
  <2>4. /\ \A g \in Feed : FeedData(g)'
        /\ \A k \in Importer \ {i} : imp'[k] = imp[k] => Own(k)'
    BY <2>3, CommitKeepsData
  <2>5. /\ tables'[f] # NoFiles
        /\ ServedVersion(f)' = imp[i].archive.version
    BY <2>f, <2>3, Replaced
  <2>6. AtMost(imp[i].resource, imp[i].archive.version)
    BY <2>3, <1>t DEF Own, Archived, At
  <2>7. Committed(i)'
    BY <2>1, <2>2, <2>5, <2>6 DEF Committed
  <2>8. Resourced(i)'
    BY <2>1, <2>2, <2>3, <2>f, <1>t DEF Own, Resourced, At, TryStage
  <2>9. Archived(i)'
    BY <2>1, <2>2 DEF Archived
  <2>10. \A k \in Importer \ {i} : imp'[k] = imp[k]
    BY <2>1, <1>t DEF ImpTypeOK
  <2> QED
    BY <2>4, <2>7, <2>8, <2>9, <2>10 DEF Own
<1>13. ASSUME NEW i \in Importer, UpsertImportMetadata(i)
       PROVE  Goal
  <2>f. PICK f \in Feed : f = imp[i].feed
    BY <1>13, <1>t DEF UpsertImportMetadata, At, ImpTypeOK
  <2>1. UNCHANGED <<tables, source>> /\ imp[i].stage = "record"
        /\ Goto(i, "interpolate")
        /\ metadata' = [metadata EXCEPT ![f] = imp[i].resource]
    BY <1>13, <2>f DEF UpsertImportMetadata, At, world
  <2>2. \A k \in Importer : Own(k)'
    BY <2>1, <1>g DEF Stage, TryStage
  <2>3. tables[f] # NoFiles /\ AtMost(imp[i].resource, ServedVersion(f))
    BY <2>1, <2>f, <1>t DEF Own, Committed
  <2>4. ASSUME NEW g \in Feed
        PROVE  FeedData(g)'
    <3>1. FeedData(g) /\ tables'[g] = tables[g] /\ source'[g] = source[g]
      BY <2>1, <1>t
    <3>2. ServedVersion(g)' = ServedVersion(g)
      BY <2>1 DEF ServedVersion
    <3>3. metadata'[g] = IF g = f THEN imp[i].resource ELSE metadata[g]
      BY <2>1, <1>t
    <3> QED
      BY <2>3, <3>1, <3>2, <3>3 DEF FeedData
  <2> QED
    BY <2>2, <2>4
<1>14. ASSUME NEW i \in Importer, Interpolate(i)
       PROVE  Goal
  BY <1>14, <1>f, <1>l DEF Interpolate, world
<1>15. ASSUME NEW i \in Importer, ReleaseSyncLock(i)
       PROVE  Goal
  BY <1>15, <1>f, <1>g DEF ReleaseSyncLock, Stage, TryStage, db, world
<1>16. ASSUME NEW i \in Importer, CleanUp(i)
       PROVE  Goal
  BY <1>16, <1>f, <1>l DEF CleanUp, db, world
<1>17. ASSUME NEW i \in Importer, FailStep(i)
       PROVE  Goal
  <2>0. Leave(i) /\ UNCHANGED <<metadata, source>>
    BY <1>17 DEF FailStep, Faulty
  <2>1. CASE UNCHANGED tables
    BY <2>0, <2>1, <1>f, <1>l
  <2>2. CASE At(i, "copy") /\ imp[i].done = File /\ Commit(i)
    <3>1. /\ \A g \in Feed : FeedData(g)'
          /\ \A k \in Importer \ {i} : imp'[k] = imp[k] => Own(k)'
      BY <2>0, <2>2, CommitKeepsData
    <3>2. \A k \in Importer \ {i} : imp'[k] = imp[k]
      BY <2>0, <1>t DEF Leave, ImpTypeOK
    <3>3. imp'[i].stage = "release"
      BY <2>0, <1>t DEF Leave, ImpTypeOK, Idle
    <3>4. Own(i)'
      BY <3>3, NothingOutside DEF TryStage
    <3> QED
      BY <3>1, <3>2, <3>4
  <2> QED
    BY <1>17, <2>1, <2>2 DEF FailStep
<1>18. ASSUME NEW i \in Importer, FailFinally(i)
       PROVE  Goal
  BY <1>18, <1>f, <1>l DEF FailFinally, Faulty, db
<1>19. ASSUME NEW h \in Host, Crash(h)
       PROVE  Goal
  <2>0. UNCHANGED <<tables, metadata, source>>
    BY <1>19 DEF Crash, Faulty
  <2>1. ASSUME NEW k \in Importer
        PROVE  Own(k)'
    <3>1. imp'[k] = Idle \/ imp'[k] = imp[k]
      BY <1>19 DEF Crash
    <3>2. CASE imp'[k] = Idle
      BY <3>2, NothingOutside DEF Idle, TryStage
    <3>3. CASE imp'[k] = imp[k]
      BY <2>0, <3>3, <1>t DEF Own, Resourced, Archived, Committed, ServedVersion
    <3> QED
      BY <3>1, <3>2, <3>3
  <2> QED
    BY <2>0, <2>1, <1>f
<1>20. ASSUME NEW f \in Feed, Publish(f)
       PROVE  Goal
  <2>0. UNCHANGED <<imp, tables, metadata>>
    BY <1>20 DEF Publish, db
  <2>1. \A g \in Feed : source[g] \in Nat /\ source'[g] \in Nat /\ source[g] <= source'[g]
    BY <1>20, <1>t DEF Publish, Version
  <2>2. ASSUME NEW g \in Feed
        PROVE  FeedData(g)'
    <3>1. ServedVersion(g)' = ServedVersion(g) /\ ServedVersion(g) \in Nat
      BY <2>0, <1>t, ServedType, VersionAssumption DEF ServedVersion
    <3> QED
      BY <2>0, <2>1, <3>1, <1>t DEF FeedData
  <2>3. ASSUME NEW k \in Importer
        PROVE  Own(k)'
    <3>0. Own(k)
      BY <1>t
    <3>1. CASE imp[k].stage \notin TryStage
      BY <2>0, <3>1, NothingOutside
    <3>2. CASE imp[k].stage \in TryStage
      <4>1. imp[k].feed \in Feed
        BY <3>2, <1>t DEF ImpTypeOK, TryStage
      <4>2. PICK g \in Feed : g = imp[k].feed
        BY <4>1
      <4>3. Resourced(k)'
        BY <2>0, <2>1, <3>0, <4>2 DEF Own, Resourced
      <4>4. Archived(k)'
        <5>1. CASE imp[k].stage \notin {"extract", "validate", "begin", "copy"}
          BY <2>0, <5>1 DEF Archived
        <5>2. CASE imp[k].stage \in {"extract", "validate", "begin", "copy"}
          <6>1. imp[k].archive.version \in Nat
            BY <5>2 DEF DataInv, WholeInv, OwnFiles, Archive, Version
          <6> QED
            BY <2>0, <2>1, <3>0, <4>2, <5>2, <6>1 DEF Own, Archived, ServedVersion
        <5> QED
          BY <5>1, <5>2
      <4>5. Committed(k)'
        BY <2>0, <3>0 DEF Own, Committed, ServedVersion
      <4> QED
        BY <4>3, <4>4, <4>5 DEF Own
    <3> QED
      BY <3>1, <3>2
  <2> QED
    BY <2>2, <2>3
<1>21. ASSUME UNCHANGED vars
       PROVE  Goal
  <2>1. UNCHANGED <<imp, tables, metadata, source>>
    BY <1>21 DEF vars, db, world
  <2>2. \A k \in Importer : Own(k)'
    BY <2>1, <1>t DEF Own, Resourced, Archived, Committed, ServedVersion
  <2> QED
    BY <2>1, <2>2, <1>f
<1>22. Goal
  BY <1>1, <1>2, <1>3, <1>4, <1>5, <1>6, <1>7, <1>8, <1>9, <1>10, <1>11, <1>12, <1>13, <1>14, <1>15, <1>16, <1>17, <1>18, <1>19, <1>20, <1>21
     DEF Next, Continue
<1>23. TypeInv' /\ LockInv' /\ WholeInv'
  BY TypeInvStep, LockInvStep, WholeInvStep DEF DataInv
<1> QED
  BY <1>22, <1>23 DEF DataInv

-----------------------------------------------------------------------------
(* A whole feed has its version in every file. *)
LEMMA MetadataBehind == DataInv => MetadataBehindData
<1> SUFFICES ASSUME DataInv, NEW f \in Feed, metadata[f] # Nothing,
                    NEW x \in File
             PROVE  /\ tables[f][x] # Nothing
                    /\ \A v \in Claims(metadata[f]) : v <= tables[f][x].version
  BY DEF MetadataBehindData, Claims
<1>1. tables[f] # NoFiles /\ AtMost(metadata[f], ServedVersion(f))
  BY DEF DataInv, FeedData
<1>2. ServedVersion(f) \in Version /\ Holds(tables[f], f, ServedVersion(f))
  BY <1>1, ServedCases DEF DataInv, WholeInv
<1>3. tables[f][x] = [feed |-> f, version |-> ServedVersion(f)]
  BY <1>2 DEF Holds
<1>4. [feed |-> f, version |-> ServedVersion(f)] # Nothing
  BY <1>2, NothingAssumption DEF Archive
<1> QED
  BY <1>1, <1>3, <1>4 DEF AtMost

(***************************************************************************)
(* import_metadata never claims a version that is not in the partitions,   *)
(* unless --force is used or a directory is shared, whatever fails.        *)
(***************************************************************************)
THEOREM MetadataNeverAhead ==
  ASSUME PrivateHosts, ~AllowForce
  PROVE  Spec => []MetadataBehindData
<1>1. DataInv /\ [Next]_vars => DataInv'
  BY DataInvStep
<1> QED
  BY DataInvInit, <1>1, MetadataBehind, PTL DEF Spec

-----------------------------------------------------------------------------
(* A resource that is not newer than the metadata claims no more than it. *)
LEMMA NotNewer ==
  ASSUME NEW r \in Metadata, NEW m \in Metadata \cup {Nothing},
         ~IsResourceNewer(r, m), NEW n \in Nat,
         NEW v \in Nat, Claims(r) \subseteq {0, v},
         m # Nothing => AtMost(m, n)
  PROVE  m # Nothing /\ AtMost(r, n)
<1>1. m # Nothing /\ m \in Metadata
  BY DEF IsResourceNewer
<1>2. /\ r.hash \in {0, v} /\ r.lastModified \in {0, v} /\ r.etag \in {0, v}
      /\ m.hash <= n /\ m.lastModified <= n /\ m.etag <= n
  BY <1>1 DEF Claims, AtMost
<1>3. /\ m.hash \in Int /\ m.lastModified \in Int /\ m.etag \in Int
  BY <1>1 DEF Metadata
<1>4. \/ r.hash # 0 /\ r.hash = m.hash
      \/ r.lastModified # 0 /\ r.lastModified <= m.lastModified
      \/ r.etag # 0 /\ r.etag = m.etag
  BY <1>1, <1>2, <1>3 DEF IsResourceNewer
<1>5. v <= n
  BY <1>2, <1>3, <1>4
<1> QED
  BY <1>1, <1>2, <1>5 DEF AtMost, Claims

(* Only the comparison leads out of its stage without a fault. *)
LEMMA SkipsByComparing ==
  ASSUME TypeInv, [Next]_vars, NEW i \in Importer, At(i, "compare"),
         imp'[i].stage = "release", faultsLeft' = faultsLeft
  PROVE  CompareMetadata(i)
<1>t. imp \in [Importer -> ImporterState] /\ faultsLeft \in Int
  BY FaultAssumption DEF TypeInv, ImpTypeOK, WorldTypeOK
<1>n. \A kind : ~Faulty(kind)
  BY <1>t DEF Faulty
<1>1. imp'[i] # imp[i]
  BY DEF At
<1>2. ASSUME NEW j \in Importer, NEW f \in Feed, NEW force \in BOOLEAN,
             StartImport(j, f, force)
      PROVE  FALSE
  BY <1>1, <1>2, <1>t DEF StartImport, At
<1>3. ASSUME NEW j \in Importer, Continue(j)
      PROVE  CompareMetadata(i)
  <2>1. CASE j = i
    BY <1>3, <2>1
       DEF Continue, At, GetResourceMetadata, PrepareDirectory, MakeDirectory,
           StartDownload, FinishExtract, ValidateFeed, BeginImport,
           CommitImport, UpsertImportMetadata, Interpolate, ReleaseSyncLock,
           CleanUp, ExtractFile, CopyFile
  <2>2. CASE j # i
    <3>1. imp'[i] = imp[i]
      BY <1>3, <1>t, <2>2
         DEF Continue, Goto, Leave, GetResourceMetadata, CompareMetadata,
             PrepareDirectory, MakeDirectory, StartDownload, FinishExtract,
             ValidateFeed, BeginImport, CommitImport, UpsertImportMetadata,
             Interpolate, ReleaseSyncLock, CleanUp, ExtractFile, CopyFile
    <3> QED
      BY <1>1, <3>1
  <2> QED
    BY <2>1, <2>2
<1> QED
  BY <1>n, <1>1, <1>2, <1>3
     DEF Next, FailStep, FailFinally, Crash, Publish, vars

LEMMA SkipsCurrent ==
  ASSUME DataInv, [Next]_vars, NEW i \in Importer, At(i, "compare"),
         imp'[i].stage = "release", faultsLeft' = faultsLeft
  PROVE  \A v \in Claims(imp[i].resource) :
           v <= tables[imp[i].feed]["stop_times"].version
<1>f. PICK f \in Feed : f = imp[i].feed
  BY DEF DataInv, TypeInv, ImpTypeOK, At
<1>1. ~IsResourceNewer(imp[i].resource, metadata[f])
  <2>1. CompareMetadata(i)
    BY SkipsByComparing DEF DataInv
  <2> QED
    BY <1>f, <2>1 DEF CompareMetadata, Goto, DataInv, TypeInv, ImpTypeOK, ImporterState
<1>2. /\ imp[i].resource \in Metadata
      /\ metadata[f] \in Metadata \cup {Nothing}
      /\ source[f] \in Version
  BY <1>f DEF DataInv, Own, Resourced, At, TryStage, TypeInv, DbTypeOK, WorldTypeOK
<1>3. PICK v \in 0..source[f] : Claims(imp[i].resource) \subseteq {0, v}
  BY <1>f DEF DataInv, Own, Resourced, At, TryStage
<1>4. v \in Nat
  BY <1>2, <1>3 DEF Version
<1>5. metadata[f] # Nothing => AtMost(metadata[f], ServedVersion(f))
  BY DEF DataInv, FeedData
<1>6. ServedVersion(f) \in Nat
  BY ServedType, VersionAssumption DEF DataInv, WholeInv
<1>7. metadata[f] # Nothing /\ AtMost(imp[i].resource, ServedVersion(f))
  BY <1>1, <1>2, <1>3, <1>4, <1>5, <1>6, NotNewer
<1>8. tables[f] # NoFiles
  BY <1>7 DEF DataInv, FeedData
<1>9. tables[f]["stop_times"].version = ServedVersion(f)
  BY <1>8, ServedCases, WholeRows DEF DataInv, WholeInv
<1> QED
  BY <1>f, <1>7, <1>9 DEF AtMost

(***************************************************************************)
(* No import is skipped but one whose version, or a newer one, is in the   *)
(* partitions (isResourceNewer with what upsertImportMetadata recorded).   *)
(***************************************************************************)
THEOREM SkipsAreRight ==
  ASSUME PrivateHosts, ~AllowForce
  PROVE  Spec => SkipOnlyWhenCurrent
<1> DEFINE Skips == \A i \in Importer :
                      /\ At(i, "compare") /\ imp'[i].stage = "release"
                      /\ faultsLeft' = faultsLeft
                      => \A v \in {imp[i].resource.hash, imp[i].resource.lastModified,
                                   imp[i].resource.etag} :
                           v <= tables[imp[i].feed]["stop_times"].version
<1>1. DataInv /\ [Next]_vars => DataInv'
  BY DataInvStep
<1>2. DataInv /\ [Next]_vars => [Skips]_vars
  BY SkipsCurrent DEF Claims
<1> QED
  BY DataInvInit, <1>1, <1>2, PTL DEF Spec, SkipOnlyWhenCurrent

-----------------------------------------------------------------------------
(* What metadata records: the newest of its claims. *)
Recorded(m) ==
  IF m = Nothing THEN 0
  ELSE LET claims == {m.hash, m.lastModified, m.etag}
       IN  CHOOSE v \in claims : \A w \in claims : w <= v

LEMMA RecordedVersionOf == \A f \in Feed : RecordedVersion(f) = Recorded(metadata[f])
BY DEF RecordedVersion, Recorded

LEMMA RecordedIsClaimed ==
  ASSUME NEW m \in Metadata
  PROVE  Recorded(m) \in Claims(m)
<1>1. m.hash \in Int /\ m.lastModified \in Int /\ m.etag \in Int
  BY DEF Metadata
<1>2. \E v \in Claims(m) : \A w \in Claims(m) : w <= v
  BY <1>1 DEF Claims
<1>3. m # Nothing
  BY NothingAssumption
<1> QED
  BY <1>2, <1>3 DEF Recorded, Claims

LEMMA StoreInit == Init => Store!Init
<1> SUFFICES ASSUME Init
             PROVE  Store!Init
  OBVIOUS
<1>1. \A f \in Feed : ServedVersion(f) = 0 /\ RecordedVersion(f) = 0
  BY DEF Init, ServedVersion, RecordedVersion
<1> QED
  BY <1>1 DEF Init, Store!Init

(* What the store shows does not change when these variables do not. *)
LEMMA StoreStutters ==
  ASSUME UNCHANGED <<tables, metadata, source>>
  PROVE  UNCHANGED <<source, [f \in Feed |-> ServedVersion(f)],
                     [f \in Feed |-> RecordedVersion(f)]>>
BY DEF ServedVersion, RecordedVersion

(* A commit is Replace. *)
LEMMA CommitReplaces ==
  ASSUME DataInv, NEW i \in Importer, At(i, "copy"), imp[i].done = File,
         Commit(i), UNCHANGED <<metadata, source>>
  PROVE  Store!Next
<1>f. PICK f \in Feed : f = imp[i].feed
  BY DEF DataInv, TypeInv, ImpTypeOK, At
<1> DEFINE v == imp[i].archive.version
<1>1. /\ v \in Version /\ ServedVersion(f)' = v
      /\ \A g \in Feed \ {f} : tables'[g] = tables[g]
  BY <1>f, Replaced
<1>2. v <= source[f] /\ ServedVersion(f) <= v
  BY <1>f DEF DataInv, Own, Archived, At
<1>3. v \in 1..source[f]
  BY <1>1, <1>2 DEF Version, DataInv, TypeInv, WorldTypeOK
<1>4. \A g \in Feed \ {f} : ServedVersion(g)' = ServedVersion(g)
  BY <1>1 DEF ServedVersion
<1>5. [g \in Feed |-> ServedVersion(g)]' =
        [[g \in Feed |-> ServedVersion(g)] EXCEPT ![f] = v]
  BY <1>1, <1>4
<1>6. UNCHANGED [g \in Feed |-> RecordedVersion(g)]
  BY DEF RecordedVersion
<1>7. Store!Replace(f)
  BY <1>2, <1>3, <1>5, <1>6 DEF Store!Replace
<1> QED
  BY <1>7 DEF Store!Next

(* The upsert is Record. *)
LEMMA UpsertRecords ==
  ASSUME DataInv, NEW i \in Importer, UpsertImportMetadata(i)
  PROVE  Store!Next
<1>f. PICK f \in Feed : f = imp[i].feed
  BY DEF UpsertImportMetadata, DataInv, TypeInv, ImpTypeOK, At
<1> DEFINE m == imp[i].resource
<1>1. /\ metadata' = [metadata EXCEPT ![f] = m]
      /\ UNCHANGED <<tables, source>>
  BY <1>f DEF UpsertImportMetadata, world
<1>2. m \in Metadata /\ AtMost(m, ServedVersion(f))
  BY <1>f DEF UpsertImportMetadata, At, DataInv, Own, Resourced, Committed, TryStage
<1>3. metadata \in [Feed -> Metadata \cup {Nothing}]
  BY DEF DataInv, TypeInv, DbTypeOK
<1>4. metadata'[f] = m /\ \A g \in Feed \ {f} : metadata'[g] = metadata[g]
  BY <1>1, <1>3
<1>5. m.hash \in Nat /\ m.lastModified \in Nat /\ m.etag \in Nat
  BY <1>2 DEF Metadata
<1>6. \A g \in Feed : RecordedVersion(g)' = Recorded(metadata'[g])
  BY DEF RecordedVersion, Recorded
<1>7. RecordedVersion(f)' \in Claims(m)
  BY <1>2, <1>4, <1>6, RecordedIsClaimed
<1>8. ServedVersion(f) \in Nat
  BY ServedType, VersionAssumption DEF DataInv, WholeInv
<1>9. RecordedVersion(f)' \in 0..ServedVersion(f)
  BY <1>2, <1>5, <1>7, <1>8 DEF AtMost, Claims
<1>10. \A g \in Feed \ {f} : RecordedVersion(g)' = RecordedVersion(g)
  BY <1>4, <1>6, RecordedVersionOf
<1>11. [g \in Feed |-> RecordedVersion(g)]' =
         [[g \in Feed |-> RecordedVersion(g)] EXCEPT ![f] = RecordedVersion(f)']
  BY <1>10
<1>12. UNCHANGED [g \in Feed |-> ServedVersion(g)]
  BY <1>1 DEF ServedVersion
<1>13. Store!Record(f)
  BY <1>1, <1>9, <1>11, <1>12 DEF Store!Record
<1> QED
  BY <1>13 DEF Store!Next

LEMMA PublishPublishes ==
  ASSUME DataInv, NEW f \in Feed, Publish(f)
  PROVE  Store!Next
<1>1. UNCHANGED <<tables, metadata>>
  BY DEF Publish, db
<1>2. /\ UNCHANGED [g \in Feed |-> ServedVersion(g)]
      /\ UNCHANGED [g \in Feed |-> RecordedVersion(g)]
  BY <1>1 DEF ServedVersion, RecordedVersion
<1>3. Store!Publish(f)
  BY <1>2 DEF Publish, Store!Publish
<1> QED
  BY <1>3 DEF Store!Next

LEMMA StoreStep ==
  ASSUME DataInv, [Next]_vars
  PROVE  Store!Next \/ UNCHANGED <<source, [f \in Feed |-> ServedVersion(f)],
                                   [f \in Feed |-> RecordedVersion(f)]>>
<1>1. CASE UNCHANGED <<tables, metadata, source>>
  BY <1>1, StoreStutters
<1>2. ASSUME NEW i \in Importer, CommitImport(i)
      PROVE  Store!Next
  BY <1>2, CommitReplaces DEF CommitImport, world
<1>3. ASSUME NEW i \in Importer, FailStep(i), ~UNCHANGED tables
      PROVE  Store!Next
  BY <1>3, CommitReplaces DEF FailStep, Faulty
<1>4. ASSUME NEW i \in Importer, Continue(i), ~CommitImport(i),
             ~UpsertImportMetadata(i)
      PROVE  UNCHANGED <<tables, metadata, source>>
  BY <1>4
     DEF Continue, GetResourceMetadata, CompareMetadata, PrepareDirectory,
         MakeDirectory, StartDownload, FinishExtract, ValidateFeed,
         BeginImport, Interpolate, ReleaseSyncLock, CleanUp, ExtractFile,
         CopyFile, db, world
<1>5. ASSUME NEW i \in Importer, NEW f \in Feed, NEW force \in BOOLEAN,
             StartImport(i, f, force)
      PROVE  UNCHANGED <<tables, metadata, source>>
  BY <1>5 DEF StartImport, db, world
<1>6. ASSUME NEW i \in Importer, FailStep(i), UNCHANGED tables
      PROVE  UNCHANGED <<tables, metadata, source>>
  BY <1>6 DEF FailStep, Faulty
<1>7. ASSUME NEW i \in Importer, FailFinally(i)
      PROVE  UNCHANGED <<tables, metadata, source>>
  BY <1>7 DEF FailFinally, Faulty, db
<1>8. ASSUME NEW h \in Host, Crash(h)
      PROVE  UNCHANGED <<tables, metadata, source>>
  BY <1>8 DEF Crash, Faulty
<1>9. UNCHANGED vars => UNCHANGED <<tables, metadata, source>>
  BY DEF vars, db, world
<1> QED
  BY <1>1, <1>2, <1>3, <1>4, <1>5, <1>6, <1>7, <1>8, <1>9, UpsertRecords, PublishPublishes
     DEF Next

(***************************************************************************)
(* The import implements FeedStore: readers see a feed replaced in one     *)
(* step by a whole published version, never by an older one, and nothing   *)
(* is recorded ahead of it, whatever fails or crashes.                     *)
(***************************************************************************)
THEOREM ImportImplementsStore ==
  ASSUME PrivateHosts, ~AllowForce
  PROVE  Spec => ImplementsFeedStore
<1>1. DataInv /\ [Next]_vars => DataInv'
  BY DataInvStep
<1>2. DataInv /\ [Next]_vars =>
        [Store!Next]_<<source, [f \in Feed |-> ServedVersion(f)],
                       [f \in Feed |-> RecordedVersion(f)]>>
  BY StoreStep
<1> QED
  BY DataInvInit, StoreInit, <1>1, <1>2, PTL DEF Spec, ImplementsFeedStore, Store!Spec

-----------------------------------------------------------------------------
(* An importer is on its way to the post-processing of a feed. *)
AboutToInterpolate(i, f) ==
  imp[i].feed = f /\ imp[i].stage \in {"record", "interpolate"}

(***************************************************************************)
(* Before the first fault, rows that a sync could take for up to date and  *)
(* that are not interpolated have an importer that is about to do so.      *)
(***************************************************************************)
DutyInv ==
  faultsLeft = MaxFaults =>
    \A f \in Feed : metadata[f] # Nothing /\ ~interpolated[f] =>
      \E i \in Importer : AboutToInterpolate(i, f)

LEMMA DutyInvStep ==
  ASSUME TypeInv, DutyInv, [Next]_vars
  PROVE  DutyInv'
<1>t. /\ imp \in [Importer -> ImporterState]
      /\ metadata \in [Feed -> Metadata \cup {Nothing}]
      /\ interpolated \in [Feed -> BOOLEAN]
      /\ faultsLeft \in 0..MaxFaults
      /\ \A k \in Importer : imp[k].stage # "idle" => imp[k].feed \in Feed
  BY DEF TypeInv, ImpTypeOK, DbTypeOK, WorldTypeOK
<1>n. \A kind : Faulty(kind) => faultsLeft' # MaxFaults
  BY <1>t, FaultAssumption DEF Faulty
(* An importer that is not about to interpolate may do as it likes. *)
<1>k. ASSUME NEW i \in Importer, imp[i].stage \notin {"record", "interpolate"},
             \A k \in Importer \ {i} : imp'[k] = imp[k],
             UNCHANGED <<metadata, interpolated, faultsLeft>>
      PROVE  DutyInv'
  BY <1>k DEF DutyInv, AboutToInterpolate
<1>1. ASSUME NEW i \in Importer, NEW f \in Feed, NEW force \in BOOLEAN,
             StartImport(i, f, force)
      PROVE  DutyInv'
  <2>1. \A k \in Importer \ {i} : imp'[k] = imp[k]
    BY <1>1, <1>t DEF StartImport
  <2> QED
    BY <1>1, <2>1, <1>k DEF StartImport, At, db, world
<1>2. ASSUME NEW i \in Importer, Continue(i),
             imp[i].stage \notin {"copy", "record", "interpolate"}
      PROVE  DutyInv'
  <2>1. /\ \A k \in Importer \ {i} : imp'[k] = imp[k]
        /\ UNCHANGED <<metadata, interpolated, faultsLeft>>
    BY <1>2, <1>t
       DEF Continue, At, Goto, Leave, GetResourceMetadata, CompareMetadata,
           PrepareDirectory, MakeDirectory, StartDownload, FinishExtract,
           ValidateFeed, BeginImport, CommitImport, UpsertImportMetadata,
           Interpolate, ReleaseSyncLock, CleanUp, ExtractFile, CopyFile, db, world
  <2> QED
    BY <1>2, <2>1, <1>k
<1>3. ASSUME NEW i \in Importer, NEW x \in File, CopyFile(i, x)
      PROVE  DutyInv'
  <2>1. \A k \in Importer \ {i} : imp'[k] = imp[k]
    BY <1>3, <1>t DEF CopyFile, Leave
  <2> QED
    BY <1>3, <2>1, <1>k DEF CopyFile, At, world
<1>4. ASSUME NEW i \in Importer, CommitImport(i)
      PROVE  DutyInv'
  <2> DEFINE r == [imp[i] EXCEPT !.stage = "record", !.archive = Nothing,
                                 !.done = {}, !.staged = NoFiles]
  <2>f. PICK f \in Feed : f = imp[i].feed
    BY <1>4, <1>t DEF CommitImport, At
  <2>1. imp' = [imp EXCEPT ![i] = r] /\ imp'[i] = r
    BY <1>4, <1>t DEF CommitImport
  <2>2. r.stage = "record" /\ r.feed = f
    BY <2>f, <1>t DEF ImporterState
  <2>3. AboutToInterpolate(i, f)'
    BY <2>1, <2>2 DEF AboutToInterpolate
  <2>4. \A k \in Importer \ {i} : imp'[k] = imp[k]
    BY <2>1, <1>t
  <2>5. \A g \in Feed \ {f} : interpolated'[g] = interpolated[g]
    BY <1>4, <2>f, <1>t DEF CommitImport, Commit
  <2>6. imp[i].stage = "copy" /\ UNCHANGED <<metadata, faultsLeft>>
    BY <1>4 DEF CommitImport, At, world
  <2> QED
    BY <2>3, <2>4, <2>5, <2>6 DEF DutyInv, AboutToInterpolate
<1>5. ASSUME NEW i \in Importer, UpsertImportMetadata(i)
      PROVE  DutyInv'
  <2> DEFINE r == [imp[i] EXCEPT !.stage = "interpolate"]
  <2>f. PICK f \in Feed : f = imp[i].feed
    BY <1>5, <1>t DEF UpsertImportMetadata, At
  <2>1. imp' = [imp EXCEPT ![i] = r] /\ imp'[i] = r
    BY <1>5, <1>t DEF UpsertImportMetadata, Goto
  <2>2. r.stage = "interpolate" /\ r.feed = f
    BY <2>f, <1>t DEF ImporterState
  <2>3. AboutToInterpolate(i, f)'
    BY <2>1, <2>2 DEF AboutToInterpolate
  <2>4. \A k \in Importer \ {i} : imp'[k] = imp[k]
    BY <2>1, <1>t
  <2>5. \A g \in Feed \ {f} : metadata'[g] = metadata[g]
    BY <1>5, <2>f, <1>t DEF UpsertImportMetadata
  <2>6. UNCHANGED <<interpolated, faultsLeft>>
    BY <1>5 DEF UpsertImportMetadata, world
  <2>7. ASSUME NEW g \in Feed, g # f, AboutToInterpolate(i, g)
        PROVE  FALSE
    BY <2>f, <2>7 DEF AboutToInterpolate
  <2> QED
    BY <2>3, <2>4, <2>5, <2>6, <2>7 DEF DutyInv, AboutToInterpolate
<1>6. ASSUME NEW i \in Importer, Interpolate(i)
      PROVE  DutyInv'
  <2>f. PICK f \in Feed : f = imp[i].feed
    BY <1>6, <1>t DEF Interpolate, At
  <2>1. \A k \in Importer \ {i} : imp'[k] = imp[k]
    BY <1>6, <1>t DEF Interpolate, Leave
  <2>2. /\ interpolated'[f] = TRUE
        /\ \A g \in Feed \ {f} : interpolated'[g] = interpolated[g]
    BY <1>6, <2>f, <1>t DEF Interpolate
  <2>3. UNCHANGED <<metadata, faultsLeft>>
    BY <1>6 DEF Interpolate, world
  <2> QED
    BY <2>f, <2>1, <2>2, <2>3 DEF DutyInv, AboutToInterpolate
<1>7. ASSUME NEW i \in Importer, Continue(i)
      PROVE  DutyInv'
  <2>1. CASE imp[i].stage \notin {"copy", "record", "interpolate"}
    BY <1>2, <1>7, <2>1
  <2>2. CASE imp[i].stage \in {"copy", "record", "interpolate"}
    <3>1. \/ CommitImport(i) \/ UpsertImportMetadata(i) \/ Interpolate(i)
          \/ \E x \in File : CopyFile(i, x)
      BY <1>7, <2>2
         DEF Continue, At, GetResourceMetadata, CompareMetadata,
             PrepareDirectory, MakeDirectory, StartDownload, FinishExtract,
             ValidateFeed, BeginImport, ReleaseSyncLock, CleanUp, ExtractFile
    <3> QED
      BY <3>1, <1>3, <1>4, <1>5, <1>6
  <2> QED
    BY <2>1, <2>2
<1>8. ASSUME faultsLeft' # MaxFaults
      PROVE  DutyInv'
  BY <1>8 DEF DutyInv
<1>9. ASSUME UNCHANGED <<imp, metadata, interpolated, faultsLeft>>
      PROVE  DutyInv'
  BY <1>9 DEF DutyInv, AboutToInterpolate
<1>10. ASSUME NEW i \in Importer, FailStep(i) \/ FailFinally(i)
       PROVE  DutyInv'
  <2>1. Faulty("step") \/ Faulty("finally")
    BY <1>10 DEF FailStep, FailFinally
  <2> QED
    BY <2>1, <1>n, <1>8
<1>11. ASSUME NEW h \in Host, Crash(h)
       PROVE  DutyInv'
  <2>1. Faulty("crash")
    BY <1>11 DEF Crash
  <2> QED
    BY <2>1, <1>n, <1>8
<1>12. ASSUME NEW f \in Feed, Publish(f)
       PROVE  DutyInv'
  BY <1>9, <1>12 DEF Publish, db
<1>13. UNCHANGED vars => DutyInv'
  BY <1>9 DEF vars, db, world
<1> QED
  BY <1>1, <1>7, <1>10, <1>11, <1>12, <1>13 DEF Next

LEMMA DutyDone == DutyInv => InterpolatedUnlessFault
<1> SUFFICES ASSUME DutyInv, NEW f \in Feed, faultsLeft = MaxFaults, UpToDate(f)
             PROVE  interpolated[f]
  BY DEF InterpolatedUnlessFault
<1>1. metadata[f] # Nothing
  BY DEF UpToDate, IsResourceNewer
<1>2. \A i \in Importer : imp[i].feed # f
  BY DEF UpToDate
<1> QED
  BY <1>1, <1>2 DEF DutyInv, AboutToInterpolate

(***************************************************************************)
(* Until something fails, every feed that the next sync will leave alone   *)
(* has been interpolated, also with --force and with shared directories.   *)
(***************************************************************************)
THEOREM InterpolatedBeforeSkipped == Spec => []InterpolatedUnlessFault
<1>1. Init => TypeInv /\ DutyInv
  BY TypeInvInit DEF Init, DutyInv
<1>2. TypeInv /\ DutyInv /\ [Next]_vars => (TypeInv /\ DutyInv)'
  BY TypeInvStep, DutyInvStep
<1> QED
  BY <1>1, <1>2, DutyDone, PTL DEF Spec
=============================================================================
