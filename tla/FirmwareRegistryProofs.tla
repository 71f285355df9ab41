----------------------- MODULE FirmwareRegistryProofs -----------------------
(***************************************************************************)
(* For any set of versions, uploads, drops and downloads: a version that   *)
(* is listed has its file, and a download sends a complete image, unless   *)
(* some deletion was for it (for the second: or one of the two known ways  *)
(* to tear a file).                                                        *)
(*                                                                         *)
(* Neither is inductive: a row is inserted one or two steps after its file *)
(* has appeared.  IInv adds that the file of a registration under way is   *)
(* there too, and goes away only for a version that was deleted.  WholeInv *)
(* adds what is in the files, from the writer that creates an inode over   *)
(* the row that makes it visible to the two reads of a download.           *)
(***************************************************************************)
EXTENDS FirmwareRegistry, TLAPS

\* The file of version v exists, or a deletion of v is to blame.
Kept(v) == file[v] # NoFile \/ v \in deleted

RegistrationsHaveFiles ==
    /\ \A u \in Uploads : upc[u] \in {"copy", "insert"} => Kept(VersionOf[u])
    /\ wpc \in {"insert", "mark"} => taken \in Drops /\ Kept(VersionOf[taken])

Targets == \A u \in Uploads : upc[u] \in {"copy", "insert"} => target[u] \in Writers

DeletionsAreKnown == \A v \in Versions : deleting[v] > 0 => v \in deleted

Opened ==
    \A d \in Downloads :
        /\ dpc[d] = "open" => opened[d] \in Versions
        /\ dpc[d] = "copy" => opened[d] \in Writers

IInv ==
    /\ TypeOK
    /\ ListedHasFile
    /\ RegistrationsHaveFiles
    /\ Targets
    /\ DeletionsAreKnown
    /\ Opened

\* What ServedWhole excuses, of the inode i; once so, it stays so.
Fault(i) == VersionOf[i] \in rewritten \cup deleted \/ i \in hasty

\* An inode that nobody spoilt holds the image of the one who created it.
Whole(i) == content[i] = i \/ Fault(i)

Started(i) == i \in Uploads => upc[i] # "new"

\* The row of v is there or about to be inserted.
Registering(v) ==
    \/ v \in rows
    \/ \E u \in Uploads : upc[u] = "insert" /\ VersionOf[u] = v
    \/ wpc \in {"insert", "mark"} /\ VersionOf[taken] = v

\* A row must not make a file visible before it is complete.
FilesAreWhole ==
    \A v \in Versions : file[v] # NoFile =>
        /\ VersionOf[file[v]] = v /\ Started(file[v])
        /\ file[v] \in Drops \/ Registering(v) => Whole(file[v])

DropsAreWhole ==
    \A w \in Drops : /\ w \in incoming => drop[w] # "new"
                     /\ drop[w] = "whole" => Whole(w)

\* Two uploads of a version share an inode only when one truncated it.
UploadsAreApart ==
    \A u \in Uploads :
        /\ upc[u] = "new" => target[u] = NoFile
        /\ upc[u] # "new" =>
              /\ target[u] \in Writers /\ Started(target[u])
              /\ VersionOf[target[u]] = VersionOf[u]
              /\ target[u] # u => VersionOf[u] \in rewritten
              /\ \/ VersionOf[u] \in rewritten \cup deleted
                 \/ file[VersionOf[u]] = u \/ file[VersionOf[u]] \in Drops

ReadsAreWhole ==
    \A d \in Downloads :
        /\ dpc[d] = "open" => opened[d] \in rows \cup deleted
        /\ dpc[d] = "copy" => Started(opened[d]) /\ Whole(opened[d])
        /\ dpc[d] \in {"copy", "ok"} =>
              /\ opened[d] \in Writers
              /\ sent[d] = opened[d] \/ Fault(opened[d])

WholeInv == FilesAreWhole /\ DropsAreWhole /\ UploadsAreApart /\ ReadsAreWhole

\* At the start nothing is listed and nothing is under way.
LEMMA InitIInv == Init => IInv
  BY RegistryAssumption
  DEF Init, IInv, TypeOK, ListedHasFile, RegistrationsHaveFiles, Targets,
      DeletionsAreKnown, Opened, Writers

\* The steps of an upload: the file comes first, and a copy that breaks off
\* leaves it where it is.
LEMMA UploadKeepsIInv ==
  ASSUME IInv, NEW u \in Uploads, Upload(u)
  PROVE  IInv'
  <1> USE RegistryAssumption DEF IInv, Writers, table, disk, watcher, uploads, ota, bounds, history
  <1>1. CASE CreateFile(u)
    <2>1. VersionOf[u] \in Versions
      OBVIOUS
    <2>2. file'[VersionOf[u]] # NoFile /\ target'[u] \in Writers
      BY <1>1, <2>1 DEF CreateFile, TypeOK
    <2>3. \A v \in Versions : file[v] # NoFile => file'[v] # NoFile
      BY <1>1, <2>1 DEF CreateFile, TypeOK
    <2>4. TypeOK'
      BY <1>1, <2>1 DEF CreateFile, TypeOK
    <2>5. ListedHasFile' /\ RegistrationsHaveFiles' /\ Targets'
      BY <1>1, <2>2, <2>3
      DEF CreateFile, TypeOK, ListedHasFile, RegistrationsHaveFiles, Targets, Kept
    <2>6. DeletionsAreKnown' /\ Opened'
      BY <1>1 DEF CreateFile, DeletionsAreKnown, Opened
    <2>7. QED  BY <2>4, <2>5, <2>6
  <1>2. CASE CopyImage(u)
    <2>1. TypeOK'
      BY <1>2 DEF CopyImage, TypeOK, Targets
    <2>2. ListedHasFile' /\ RegistrationsHaveFiles' /\ Targets'
      BY <1>2 DEF CopyImage, TypeOK, ListedHasFile, RegistrationsHaveFiles, Targets, Kept
    <2>3. DeletionsAreKnown' /\ Opened'
      BY <1>2 DEF CopyImage, DeletionsAreKnown, Opened
    <2>4. QED  BY <2>1, <2>2, <2>3
  <1>3. CASE InsertUploaded(u)
    <2>1. TypeOK'
      BY <1>3 DEF InsertUploaded, TypeOK
    <2>2. ListedHasFile' /\ RegistrationsHaveFiles' /\ Targets'
      BY <1>3 DEF InsertUploaded, TypeOK, ListedHasFile, RegistrationsHaveFiles, Targets, Kept
    <2>3. DeletionsAreKnown' /\ Opened'
      BY <1>3 DEF InsertUploaded, DeletionsAreKnown, Opened
    <2>4. QED  BY <2>1, <2>2, <2>3
  <1>4. QED  BY <1>1, <1>2, <1>3 DEF Upload

\* The steps of the watcher and of those who drop files for it.
LEMMA WatcherKeepsIInv ==
  ASSUME IInv, Watcher \/ \E w \in Drops : Drop(w) \/ FillDrop(w) \/ FinishDrop(w)
  PROVE  IInv'
  <1> USE RegistryAssumption DEF IInv, Writers, table, disk, watcher, uploads, ota, bounds, history
  <1>1. ASSUME NEW w \in Drops, Drop(w) \/ FillDrop(w) \/ FinishDrop(w)
        PROVE  IInv'
    <2>1. TypeOK'
      BY <1>1 DEF Drop, FillDrop, FinishDrop, TypeOK
    <2>2. ListedHasFile' /\ RegistrationsHaveFiles' /\ Targets' /\ DeletionsAreKnown' /\ Opened'
      BY <1>1
      DEF Drop, FillDrop, FinishDrop, ListedHasFile, RegistrationsHaveFiles, Targets,
          DeletionsAreKnown, Opened, Kept
    <2>3. QED  BY <2>1, <2>2
  <1>2. ASSUME NEW w \in Drops, TakeDrop(w)
        PROVE  IInv'
    <2>1. VersionOf[w] \in Versions /\ w # NoFile
      OBVIOUS
    <2>2. /\ file'[VersionOf[w]] # NoFile
          /\ \A v \in Versions : file[v] # NoFile => file'[v] # NoFile
      BY <1>2, <2>1 DEF TakeDrop, TypeOK
    <2>3. TypeOK'
      BY <1>2, <2>1 DEF TakeDrop, TypeOK
    <2>4. ListedHasFile' /\ RegistrationsHaveFiles' /\ Targets'
      BY <1>2, <2>2
      DEF TakeDrop, TypeOK, ListedHasFile, RegistrationsHaveFiles, Targets, Kept
    <2>5. DeletionsAreKnown' /\ Opened'
      BY <1>2 DEF TakeDrop, DeletionsAreKnown, Opened
    <2>6. QED  BY <2>3, <2>4, <2>5
  <1>3. CASE InsertTaken
    <2>1. TypeOK'
      BY <1>3 DEF InsertTaken, TypeOK, RegistrationsHaveFiles
    <2>2. ListedHasFile' /\ RegistrationsHaveFiles' /\ Targets' /\ DeletionsAreKnown' /\ Opened'
      BY <1>3
      DEF InsertTaken, TypeOK, ListedHasFile, RegistrationsHaveFiles, Targets,
          DeletionsAreKnown, Opened, Kept
    <2>3. QED  BY <2>1, <2>2
  <1>4. CASE MarkTaken
    <2>1. TypeOK'
      BY <1>4 DEF MarkTaken, Mark, TypeOK
    <2>2. ListedHasFile' /\ RegistrationsHaveFiles' /\ Targets' /\ DeletionsAreKnown' /\ Opened'
      BY <1>4
      DEF MarkTaken, Mark, TypeOK, ListedHasFile, RegistrationsHaveFiles, Targets,
          DeletionsAreKnown, Opened, Kept
    <2>3. QED  BY <2>1, <2>2
  <1>5. QED  BY <1>1, <1>2, <1>3, <1>4 DEF Watcher

\* The requests of the web UI: only a deletion takes a file away.
LEMMA RequestKeepsIInv ==
  ASSUME IInv, NEW v \in Versions, SetLatest(v) \/ DeleteRow(v) \/ RemoveFile(v)
  PROVE  IInv'
  <1> USE RegistryAssumption DEF IInv, Writers, table, disk, watcher, uploads, ota, bounds, history
  <1>1. CASE SetLatest(v)
    <2>1. TypeOK'
      BY <1>1 DEF SetLatest, Count, Mark, TypeOK
    <2>2. ListedHasFile' /\ RegistrationsHaveFiles' /\ Targets' /\ DeletionsAreKnown' /\ Opened'
      BY <1>1
      DEF SetLatest, Count, Mark, ListedHasFile, RegistrationsHaveFiles, Targets,
          DeletionsAreKnown, Opened, Kept
    <2>3. QED  BY <2>1, <2>2
  <1>2. CASE DeleteRow(v)
    <2>1. TypeOK'
      BY <1>2 DEF DeleteRow, Count, TypeOK
    <2>2. ListedHasFile' /\ RegistrationsHaveFiles' /\ Targets' /\ DeletionsAreKnown' /\ Opened'
      BY <1>2
      DEF DeleteRow, Count, TypeOK, ListedHasFile, RegistrationsHaveFiles, Targets,
          DeletionsAreKnown, Opened, Kept
    <2>3. QED  BY <2>1, <2>2
  <1>3. CASE RemoveFile(v)
    <2>1. v \in deleted
      BY <1>3 DEF RemoveFile, DeletionsAreKnown
    <2>2. TypeOK'
      BY <1>3 DEF RemoveFile, TypeOK
    <2>3. \A x \in Versions \ {v} : file'[x] = file[x]
      BY <1>3 DEF RemoveFile, TypeOK
    <2>4. ListedHasFile' /\ RegistrationsHaveFiles'
      BY <1>3, <2>1, <2>3
      DEF RemoveFile, TypeOK, ListedHasFile, RegistrationsHaveFiles, Kept
    <2>5. Targets' /\ DeletionsAreKnown' /\ Opened'
      BY <1>3 DEF RemoveFile, TypeOK, Targets, DeletionsAreKnown, Opened
    <2>6. QED  BY <2>2, <2>4, <2>5
  <1>4. QED  BY <1>1, <1>2, <1>3

\* Downloads read, and a restart of the hub only ends what is under way.
LEMMA DownloadKeepsIInv ==
  ASSUME IInv, (\E d \in Downloads : Download(d)) \/ HubRestart
  PROVE  IInv'
  <1> USE RegistryAssumption DEF IInv, Writers, table, disk, watcher, uploads, ota, bounds, history
  <1>1. ASSUME NEW d \in Downloads, Download(d)
        PROVE  IInv'
    <2>1. ListedHasFile' /\ RegistrationsHaveFiles' /\ Targets' /\ DeletionsAreKnown'
      BY <1>1
      DEF Download, AskLatest, OpenFile, SendFile, ListedHasFile, RegistrationsHaveFiles,
          Targets, DeletionsAreKnown, Kept
    <2>2. CASE AskLatest(d)
      BY <2>1, <2>2 DEF AskLatest, TypeOK, Opened
    <2>3. CASE OpenFile(d)
      <3>1. dpc[d] = "open" => file[opened[d]] \in Writers \cup {NoFile}
        BY DEF Opened, TypeOK
      <3>2. TypeOK' /\ Opened'
        BY <2>3, <3>1 DEF OpenFile, TypeOK, Opened
      <3>3. QED  BY <2>1, <3>2
    <2>4. CASE SendFile(d)
      <3>1. content[opened[d]] \in Writers \cup {Torn} /\ sent[d] \in Writers \cup {Torn}
        BY <2>4 DEF SendFile, Opened, TypeOK
      <3>2. TypeOK' /\ Opened'
        BY <2>4, <3>1 DEF SendFile, TypeOK, Opened
      <3>3. QED  BY <2>1, <3>2
    <2>5. QED  BY <1>1, <2>2, <2>3, <2>4 DEF Download
  <1>2. CASE HubRestart
    <2>1. TypeOK'
      <3>1. orphaned' \subseteq Drops
        BY <1>2 DEF HubRestart, TypeOK, RegistrationsHaveFiles
      <3>2. QED  BY <1>2, <3>1 DEF HubRestart, TypeOK
    <2>2. ListedHasFile' /\ RegistrationsHaveFiles' /\ Targets'
      BY <1>2
      DEF HubRestart, TypeOK, ListedHasFile, RegistrationsHaveFiles, Targets, Kept
    <2>3. DeletionsAreKnown' /\ Opened'
      BY <1>2 DEF HubRestart, TypeOK, DeletionsAreKnown, Opened
    <2>4. QED  BY <2>1, <2>2, <2>3
  <1>3. QED  BY <1>1, <1>2

-----------------------------------------------------------------------------

\* IInv is inductive, so it holds in every reachable state.
THEOREM Invariance == Spec => []IInv
  <1>1. ASSUME IInv, [Next]_vars
        PROVE  IInv'
    <2>1. CASE Next
      BY <1>1, <2>1, UploadKeepsIInv, WatcherKeepsIInv, RequestKeepsIInv, DownloadKeepsIInv
      DEF Next
    <2>2. CASE UNCHANGED vars
      BY <1>1, <2>2
      DEF vars, table, disk, watcher, uploads, ota, bounds, history, IInv, TypeOK,
          ListedHasFile, RegistrationsHaveFiles, Targets, DeletionsAreKnown, Opened, Kept
    <2>3. QED  BY <1>1, <2>1, <2>2
  <1>2. QED  BY InitIInv, <1>1, PTL DEF Spec

\* Every variable keeps its type; at most one row is marked latest, and that
\* row exists (SetLatestFirmware, DeleteFirmware).
THEOREM TypeCorrect == Spec => []TypeOK
  <1>1. IInv => TypeOK
    BY DEF IInv
  <1>2. QED  BY Invariance, <1>1, PTL

\* A listed version has its file, whatever uploads that break off, the watcher,
\* set-latest requests and restarts do, unless a deletion was for it.
THEOREM RowsHaveFiles == Spec => []ListedHasFile
  <1>1. IInv => ListedHasFile
    BY DEF IInv
  <1>2. QED  BY Invariance, <1>1, PTL

-----------------------------------------------------------------------------
(* What a download sends.                                                   *)

\* History only grows.
LEMMA FaultStays ==
  ASSUME rewritten \subseteq rewritten', deleted \subseteq deleted', hasty \subseteq hasty', NEW i
  PROVE  /\ Fault(i) => Fault(i)'
         /\ Whole(i) /\ content'[i] = content[i] => Whole(i)'
  BY DEF Fault, Whole

LEMMA InitWhole == Init => WholeInv
  BY DEF Init, WholeInv, FilesAreWhole, DropsAreWhole, UploadsAreApart, ReadsAreWhole

\* The answers under way while no inode changes.
LEMMA ReadsFrame ==
  ASSUME ReadsAreWhole, UNCHANGED <<dpc, opened, sent, content>>,
         rewritten \subseteq rewritten', deleted \subseteq deleted', hasty \subseteq hasty',
         rows \subseteq rows' \cup deleted',
         \A u \in Uploads : upc[u] # "new" => upc'[u] # "new"
  PROVE  ReadsAreWhole'
  <1>1. ASSUME NEW i PROVE (Fault(i) => Fault(i)') /\ (Whole(i) => Whole(i)')
    BY FaultStays
  <1>2. ASSUME NEW i PROVE Started(i) => Started(i)'
    BY DEF Started
  <1>3. QED  BY <1>1, <1>2 DEF ReadsAreWhole

\* A step that creates, renames and writes no file.
LEMMA QuietKeepsWhole ==
  ASSUME WholeInv, ReadsAreWhole',
         UNCHANGED <<file, content, incoming, drop, target, hasty, rewritten>>,
         deleted \subseteq deleted',
         \A v \in Versions : Registering(v)' => Registering(v),
         \A u \in Uploads : upc'[u] = "new" <=> upc[u] = "new"
  PROVE  WholeInv'
  <1>1. ASSUME NEW i PROVE (Fault(i) => Fault(i)') /\ (Whole(i) => Whole(i)')
    BY FaultStays
  <1>2. ASSUME NEW i PROVE Started(i) => Started(i)'
    BY DEF Started
  <1>3. FilesAreWhole'
    BY <1>1, <1>2 DEF WholeInv, FilesAreWhole
  <1>4. DropsAreWhole'
    BY <1>1 DEF WholeInv, DropsAreWhole
  <1>5. UploadsAreApart'
    BY <1>2 DEF WholeInv, UploadsAreApart
  <1>6. QED  BY <1>3, <1>4, <1>5 DEF WholeInv

\* A new inode is torn, and its version is not registered; an old one is
\* truncated, and the version counts as rewritten.
LEMMA CreateFileKeepsWhole ==
  ASSUME IInv, WholeInv, NEW u \in Uploads, CreateFile(u)
  PROVE  WholeInv'
  <1> USE RegistryAssumption DEF WholeInv, Writers
  <1> DEFINE v == VersionOf[u]
  <1>0. PICK i \in Writers : i = IF file[v] = NoFile THEN u ELSE file[v]
    BY DEF IInv, TypeOK
  <1>1. /\ v \in Versions /\ upc[u] = "new"
        /\ upc' = [upc EXCEPT ![u] = "copy"]
        /\ file' = [file EXCEPT ![v] = i]
        /\ target' = [target EXCEPT ![u] = i]
        /\ content' = [content EXCEPT ![i] = Torn]
        /\ rewritten' = IF i = u THEN rewritten ELSE rewritten \cup {v}
        /\ UNCHANGED <<rows, latest, incoming, drop, taken, wpc, dpc, opened, sent, deleted, hasty>>
    BY <1>0 DEF CreateFile, IInv, TypeOK, table, watcher, ota
  <1>2. /\ upc'[u] = "copy" /\ \A x \in Uploads : x # u => upc'[x] = upc[x]
        /\ file'[v] = i /\ \A x \in Versions : x # v => file'[x] = file[x]
        /\ target'[u] = i /\ \A x \in Uploads : x # u => target'[x] = target[x]
        /\ \A j \in Writers : j # i => content'[j] = content[j]
    BY <1>1 DEF IInv, TypeOK
  <1>3. VersionOf[i] = v
    BY <1>0, <1>1 DEF FilesAreWhole
  <1>4. \/ i = u /\ file[v] = NoFile /\ ~Started(u) /\ u \notin Drops
        \/ i # u /\ file[v] = i /\ Started(i) /\ v \in rewritten'
    BY <1>0, <1>1 DEF FilesAreWhole, Started
  <1> HIDE DEF v
  <1>5. ASSUME NEW j PROVE Fault(j) => Fault(j)'
    BY <1>1 DEF Fault
  <1>6. ASSUME NEW j \in Writers, Whole(j), j = u => Started(u) PROVE Whole(j)'
    <2>1. CASE j # i
      BY <1>2, <1>5, <1>6, <2>1 DEF Whole
    <2>2. CASE j = i
      BY <1>3, <1>4, <1>6, <2>2 DEF Whole, Fault
    <2>3. QED  BY <2>1, <2>2
  <1>7. ASSUME NEW j PROVE Started(j) => Started(j)'
    BY <1>2 DEF Started
  <1>8. Started(i)'
    BY <1>2, <1>4, <1>7 DEF Started
  <1>9. \A x \in Versions : Registering(x)' => Registering(x)
    BY <1>1, <1>2 DEF Registering
  <1>10. file[v] = NoFile /\ Registering(v) => v \in deleted
    BY <1>1 DEF IInv, ListedHasFile, RegistrationsHaveFiles, Registering, Kept
  <1>11. FilesAreWhole'
    <2>1. ASSUME NEW x \in Versions, x # v, file'[x] # NoFile
          PROVE  /\ VersionOf[file'[x]] = x /\ Started(file[x])'
                 /\ file[x] \in Drops \/ Registering(x)' => Whole(file[x])'
      <3>1. file'[x] = file[x] /\ file[x] \in Writers /\ Started(file[x])
        BY <1>2, <2>1 DEF FilesAreWhole, IInv, TypeOK
      <3>2. QED  BY <1>6, <1>7, <1>9, <2>1, <3>1 DEF FilesAreWhole, Started, Whole, Fault
    <2>2. i \in Drops \/ Registering(v)' => Whole(i)'
      BY <1>1, <1>3, <1>4, <1>9, <1>10 DEF Whole, Fault
    <2>3. QED
      <3>1. ASSUME NEW x \in Versions, x # v PROVE file'[x] = file[x]
        BY <1>2, <3>1
      <3>2. QED  BY <1>2, <1>3, <1>8, <2>1, <2>2, <3>1 DEF FilesAreWhole, Started, Whole, Fault
  <1>12. DropsAreWhole'
    BY <1>1, <1>6 DEF DropsAreWhole
  <1>13. UploadsAreApart'
    <2> SUFFICES ASSUME NEW x \in Uploads
        PROVE  /\ upc'[x] = "new" => target'[x] = NoFile
               /\ upc'[x] # "new" =>
                    /\ target'[x] \in Writers /\ Started(target[x])'
                    /\ VersionOf[target'[x]] = VersionOf[x]
                    /\ target'[x] # x => VersionOf[x] \in rewritten'
                    /\ \/ VersionOf[x] \in rewritten' \cup deleted'
                       \/ file'[VersionOf[x]] = x \/ file'[VersionOf[x]] \in Drops
      BY DEF UploadsAreApart
    <2>1. CASE x = u
      BY <1>1, <1>2, <1>3, <1>4, <1>8, <2>1 DEF Started, v
    <2>2. CASE x # u
      <3>1. target'[x] = target[x] /\ upc'[x] = upc[x]
        BY <1>2, <2>2
      <3>2. VersionOf[x] \in rewritten => VersionOf[x] \in rewritten'
        BY <1>1
      <3>3. CASE VersionOf[x] = v
        <4>1. upc[x] # "new" => v \in rewritten' \cup deleted'
          BY <1>1, <1>4, <3>3 DEF UploadsAreApart
        <4>2. QED  BY <1>1, <1>2, <3>1, <3>2, <3>3, <4>1 DEF UploadsAreApart, Started
      <3>4. CASE VersionOf[x] # v
        <4>1. file'[VersionOf[x]] = file[VersionOf[x]]
          BY <1>2, <3>4
        <4>2. QED  BY <1>1, <1>2, <3>1, <3>2, <4>1 DEF UploadsAreApart, Started
      <3>5. QED  BY <3>3, <3>4
    <2>3. QED  BY <2>1, <2>2
  <1>14. ReadsAreWhole'
    BY <1>1, <1>5, <1>6, <1>7 DEF ReadsAreWhole, Started, Whole, Fault
  <1>15. QED  BY <1>11, <1>12, <1>13, <1>14

\* A copy that ends well makes its inode whole, unless two uploads met in it.
LEMMA CopyImageKeepsWhole ==
  ASSUME IInv, WholeInv, NEW u \in Uploads, CopyImage(u)
  PROVE  WholeInv'
  <1> USE RegistryAssumption DEF WholeInv, Writers
  <1> DEFINE v == VersionOf[u]
  <1>0. PICK i \in Writers : i = target[u]
    BY DEF CopyImage, UploadsAreApart
  <1>1. /\ upc[u] = "copy" /\ v \in Versions /\ VersionOf[i] = v /\ Started(i)
        /\ UNCHANGED <<rows, latest, file, incoming, drop, taken, wpc, target, dpc, opened, sent>>
        /\ UNCHANGED <<rewritten, deleted, hasty>>
    BY <1>0 DEF CopyImage, UploadsAreApart, table, watcher, ota, history
  <1>2. /\ upc'[u] \in {"insert", "failed"} /\ \A x \in Uploads : x # u => upc'[x] = upc[x]
        /\ \A j \in Writers : j # i => content'[j] = content[j]
        /\ \/ upc'[u] = "failed" /\ content' = content
           \/ /\ upc'[u] = "insert"
              /\ \E c \in (IF Alone(u) THEN {u} ELSE {u, Torn}) : content'[i] = c
    BY <1>0, <1>1 DEF CopyImage, IInv, TypeOK
  <1>3. ASSUME ~Fault(i) PROVE i = u /\ Alone(u)
    <2>1. v \notin rewritten
      BY <1>1, <1>3 DEF Fault
    <2>2. i = u
      BY <1>0, <1>1, <2>1 DEF UploadsAreApart
    <2>3. ASSUME NEW x \in Uploads \ {u}, target[x] = u PROVE FALSE
      <3>1. upc[x] # "new" /\ VersionOf[x] = v
        BY <2>3 DEF UploadsAreApart
      <3>2. QED  BY <2>1, <2>3, <3>1 DEF UploadsAreApart
    <2>4. QED  BY <1>0, <2>2, <2>3 DEF Alone
  <1>4. ASSUME NEW j PROVE /\ Fault(j) <=> Fault(j)'
                           /\ Started(j) => Started(j)'
    BY <1>1, <1>2 DEF Fault, Started
  <1>5. upc'[u] = "insert" => Whole(i)'
    BY <1>2, <1>3, <1>4 DEF Whole
  <1> HIDE DEF v
  <1>6. ASSUME NEW j \in Writers, Whole(j) PROVE Whole(j)'
    <2>1. CASE j # i
      BY <1>2, <1>4, <1>6, <2>1 DEF Whole
    <2>2. CASE j = i
      BY <1>2, <1>4, <1>5, <1>6, <2>2 DEF Whole
    <2>3. QED  BY <2>1, <2>2
  <1>7. FilesAreWhole'
    <2> SUFFICES ASSUME NEW x \in Versions, file[x] # NoFile
        PROVE  /\ VersionOf[file[x]] = x /\ Started(file[x])'
               /\ file[x] \in Drops \/ Registering(x)' => Whole(file[x])'
      BY <1>1 DEF FilesAreWhole, Started, Whole, Fault
    <2>1. file[x] \in Writers
      BY DEF IInv, TypeOK
    <2>2. Registering(x)' => Registering(x) \/ (x = v /\ upc'[u] = "insert")
      BY <1>1, <1>2 DEF Registering, v
    <2>3. CASE x = v /\ upc'[u] = "insert"
      <3>1. \/ v \in rewritten \cup deleted \/ file[v] = u \/ file[v] \in Drops
        BY <1>1 DEF UploadsAreApart, v
      <3>2. CASE v \in rewritten \cup deleted
        BY <1>1, <1>4, <2>1, <2>3, <3>2 DEF FilesAreWhole, Started, Whole, Fault
      <3>3. CASE file[v] = u /\ v \notin rewritten
        <4>1. i = u
          BY <1>0, <1>1, <3>3 DEF UploadsAreApart, v
        <4>2. QED  BY <1>1, <1>4, <1>5, <2>3, <3>3, <4>1 DEF FilesAreWhole, Started, Whole, Fault
      <3>4. CASE file[v] \in Drops
        BY <1>1, <1>4, <1>6, <2>1, <2>3, <3>4 DEF FilesAreWhole, Started, Whole, Fault
      <3>5. QED  BY <3>1, <3>2, <3>3, <3>4
    <2>4. CASE ~(x = v /\ upc'[u] = "insert")
      BY <1>1, <1>4, <1>6, <2>1, <2>2, <2>4 DEF FilesAreWhole, Started, Whole, Fault
    <2>5. QED  BY <2>3, <2>4
  <1>8. DropsAreWhole'
    BY <1>1, <1>6 DEF DropsAreWhole
  <1>9. UploadsAreApart'
    <2>1. \A x \in Uploads : upc'[x] = "new" <=> upc[x] = "new"
      BY <1>1, <1>2
    <2>2. QED  BY <1>1, <1>4, <2>1 DEF UploadsAreApart, Started
  <1>10. ReadsAreWhole'
    BY <1>1, <1>4, <1>6 DEF ReadsAreWhole
  <1>11. QED  BY <1>7, <1>8, <1>9, <1>10

\* Whoever drops a file completes it, wherever it was moved.
LEMMA DropKeepsWhole ==
  ASSUME IInv, WholeInv, NEW w \in Drops, Drop(w) \/ FillDrop(w) \/ FinishDrop(w)
  PROVE  WholeInv'
  <1> USE RegistryAssumption DEF WholeInv, Writers, table, watcher, uploads, ota, history
  <1>1. /\ UNCHANGED <<rows, file, taken, wpc, upc, target, dpc, opened, sent>>
        /\ UNCHANGED <<rewritten, deleted, hasty>>
    BY DEF Drop, FillDrop, FinishDrop
  <1>2. /\ \A x \in Drops : x # w => drop'[x] = drop[x] /\ (x \in incoming' <=> x \in incoming)
        /\ drop'[w] # "new"
        /\ \A j \in Writers : j # w => content'[j] = content[j]
    BY DEF Drop, FillDrop, FinishDrop, IInv, TypeOK
  <1>3. (content' = content /\ drop'[w] # "whole") \/ Whole(w)'
    <2>1. CASE Drop(w) \/ FillDrop(w)
      BY <2>1, <1>1 DEF Drop, FillDrop, IInv, TypeOK, DropsAreWhole, Whole, Fault
    <2>2. CASE FinishDrop(w) /\ \E u \in Uploads : target[u] = w
      <3>1. PICK u \in Uploads : target[u] = w
        BY <2>2
      <3>2. upc[u] # "new" /\ u # w
        BY <3>1 DEF UploadsAreApart
      <3>3. VersionOf[w] \in rewritten
        BY <3>1, <3>2 DEF UploadsAreApart
      <3>4. QED  BY <1>1, <3>3 DEF Whole, Fault
    <2>3. CASE FinishDrop(w) /\ ~\E u \in Uploads : target[u] = w
      BY <2>3 DEF FinishDrop, IInv, TypeOK, Whole
    <2>4. QED  BY <2>1, <2>2, <2>3
  <1>4. ASSUME NEW j PROVE (Fault(j) <=> Fault(j)') /\ (Started(j) <=> Started(j)')
    BY <1>1 DEF Fault, Started
  <1>5. ASSUME NEW j \in Writers, Whole(j) PROVE Whole(j)'
    BY <1>2, <1>3, <1>4, <1>5 DEF Whole
  <1>6. FilesAreWhole'
    <2>1. \A x \in Versions : Registering(x)' <=> Registering(x)
      BY <1>1 DEF Registering
    <2>2. \A x \in Versions : file[x] # NoFile => file[x] \in Writers
      BY DEF IInv, TypeOK
    <2>3. QED  BY <1>1, <1>4, <1>5, <2>1, <2>2 DEF FilesAreWhole, Started, Whole, Fault
  <1>7. DropsAreWhole'
    BY <1>2, <1>3, <1>5 DEF DropsAreWhole
  <1>8. UploadsAreApart'
    BY <1>1, <1>4 DEF UploadsAreApart
  <1>9. ReadsAreWhole'
    BY <1>1, <1>4, <1>5 DEF ReadsAreWhole
  <1>10. QED  BY <1>6, <1>7, <1>8, <1>9

\* The rename brings a file that is whole, or was taken in haste.
LEMMA TakeDropKeepsWhole ==
  ASSUME IInv, WholeInv, NEW w \in Drops, TakeDrop(w)
  PROVE  WholeInv'
  <1> USE RegistryAssumption DEF WholeInv, Writers
  <1> DEFINE v == VersionOf[w]
  <1>1. /\ v \in Versions /\ w \in incoming /\ drop[w] # "empty"
        /\ incoming' = incoming \ {w} /\ taken' = w
        /\ hasty' = IF drop[w] = "copying" THEN hasty \cup {w} ELSE hasty
        /\ UNCHANGED <<rows, content, drop, upc, target, dpc, opened, sent, rewritten, deleted>>
    BY DEF TakeDrop, table, uploads, ota
  <1>2. file'[v] = w /\ \A x \in Versions : x # v => file'[x] = file[x]
    BY <1>1 DEF TakeDrop, IInv, TypeOK
  <1>3. ASSUME NEW j PROVE /\ (Fault(j) => Fault(j)') /\ (Whole(j) => Whole(j)')
                           /\ Started(j) <=> Started(j)'
    BY <1>1, FaultStays DEF Started
  <1>4. Whole(w)'
    <2>1. drop[w] = "copying" \/ Whole(w)
      BY <1>1 DEF DropsAreWhole, IInv, TypeOK
    <2>2. QED  BY <1>1, <1>3, <2>1 DEF Whole, Fault
  <1>5. \A x \in Versions : x # v => (Registering(x)' => Registering(x))
    BY <1>1 DEF Registering, TakeDrop
  <1>6. Started(w)'
    BY DEF Started
  <1> HIDE DEF v
  <1>7. FilesAreWhole'
    <2> SUFFICES ASSUME NEW x \in Versions, file'[x] # NoFile
        PROVE  /\ VersionOf[file'[x]] = x /\ Started(file[x])'
               /\ file'[x] \in Drops \/ Registering(x)' => Whole(file[x])'
      BY DEF FilesAreWhole, Started, Whole, Fault
    <2>1. CASE x = v
      BY <1>2, <1>4, <1>6, <2>1 DEF v, Started, Whole, Fault
    <2>2. CASE x # v
      <3>1. /\ file'[x] = file[x] /\ VersionOf[file[x]] = x /\ Started(file[x])'
            /\ file[x] \in Drops \/ Registering(x)' => Whole(file[x])'
        BY <1>2, <1>3, <1>5, <2>2 DEF FilesAreWhole
      <3>2. QED  BY <3>1, <1>2, <2>2 DEF Started, Whole, Fault
    <2>3. QED  BY <2>1, <2>2
  <1>8. DropsAreWhole'
    BY <1>1, <1>3 DEF DropsAreWhole
  <1>9. UploadsAreApart'
    BY <1>1, <1>2, <1>3 DEF UploadsAreApart
  <1>10. ReadsAreWhole'
    BY <1>1, <1>3, ReadsFrame
  <1>11. QED  BY <1>7, <1>8, <1>9, <1>10

\* A file goes away for a version that was deleted.
LEMMA RemoveFileKeepsWhole ==
  ASSUME IInv, WholeInv, NEW v \in Versions, RemoveFile(v)
  PROVE  WholeInv'
  <1> USE DEF WholeInv, table, watcher, uploads, ota, history
  <1>1. /\ UNCHANGED <<rows, content, incoming, drop, taken, wpc, upc, target, dpc, opened, sent>>
        /\ UNCHANGED <<rewritten, deleted, hasty>>
        /\ v \in deleted
    BY DEF RemoveFile, IInv, DeletionsAreKnown
  <1>2. file'[v] = NoFile /\ \A x \in Versions : x # v => file'[x] = file[x]
    BY DEF RemoveFile, IInv, TypeOK
  <1>3. ASSUME NEW j PROVE (Whole(j) <=> Whole(j)') /\ (Started(j) <=> Started(j)')
    BY <1>1 DEF Whole, Fault, Started
  <1>4. \A x \in Versions : Registering(x)' <=> Registering(x)
    BY <1>1 DEF Registering
  <1>5. FilesAreWhole'
    <2> SUFFICES ASSUME NEW x \in Versions, file'[x] # NoFile
        PROVE  /\ VersionOf[file'[x]] = x /\ Started(file[x])'
               /\ file'[x] \in Drops \/ Registering(x)' => Whole(file[x])'
      BY DEF FilesAreWhole, Started, Whole, Fault
    <2>1. /\ file'[x] = file[x] /\ VersionOf[file[x]] = x /\ Started(file[x])'
          /\ file[x] \in Drops \/ Registering(x)' => Whole(file[x])'
      BY <1>2, <1>3, <1>4 DEF FilesAreWhole
    <2>2. QED  BY <2>1, <1>2 DEF Started, Whole, Fault
  <1>6. DropsAreWhole'
    BY <1>1, <1>3 DEF DropsAreWhole
  <1>7. UploadsAreApart'
    BY <1>1, <1>2, <1>3, RegistryAssumption DEF UploadsAreApart, Writers
  <1>8. ReadsAreWhole'
    BY <1>1, ReadsFrame
  <1>9. QED  BY <1>5, <1>6, <1>7, <1>8

\* Inserts, marks and the first half of a deletion.
LEMMA RowKeepsWhole ==
  ASSUME IInv, WholeInv,
         \/ \E u \in Uploads : InsertUploaded(u)
         \/ InsertTaken \/ MarkTaken
         \/ \E v \in Versions : SetLatest(v) \/ DeleteRow(v)
  PROVE  WholeInv'
  <1> USE DEF table, disk, watcher, uploads, ota, history
  <1>1. /\ UNCHANGED <<file, content, incoming, drop, target, hasty, rewritten, dpc, opened, sent>>
        /\ deleted \subseteq deleted' /\ rows \subseteq rows' \cup deleted'
    BY DEF InsertUploaded, InsertTaken, MarkTaken, SetLatest, DeleteRow
  <1>2. \A u \in Uploads : upc'[u] = "new" <=> upc[u] = "new"
    BY DEF InsertUploaded, InsertTaken, MarkTaken, SetLatest, DeleteRow, IInv, TypeOK
  <1>3. \A v \in Versions : Registering(v)' => Registering(v)
    <2>1. ASSUME NEW u \in Uploads, InsertUploaded(u), NEW v \in Versions, Registering(v)'
          PROVE  Registering(v)
      BY <2>1 DEF InsertUploaded, Registering, IInv, TypeOK
    <2>2. ASSUME InsertTaken \/ MarkTaken, NEW v \in Versions, Registering(v)'
          PROVE  Registering(v)
      BY <2>2 DEF InsertTaken, MarkTaken, Registering
    <2>3. ASSUME NEW x \in Versions, SetLatest(x) \/ DeleteRow(x), NEW v \in Versions, Registering(v)'
          PROVE  Registering(v)
      BY <2>3 DEF SetLatest, DeleteRow, Registering
    <2>4. QED  BY <2>1, <2>2, <2>3
  <1>4. ReadsAreWhole'
    BY <1>1, <1>2, ReadsFrame DEF WholeInv
  <1>5. QED  BY <1>1, <1>2, <1>3, <1>4, QuietKeepsWhole

\* What a download reads twice without a fault is the same image.
LEMMA DownloadKeepsWhole ==
  ASSUME IInv, WholeInv, NEW d \in Downloads, Download(d)
  PROVE  WholeInv'
  <1> USE DEF table, disk, watcher, uploads, history
  <1>1. /\ UNCHANGED <<rows, file, content, incoming, drop, taken, wpc, upc, target>>
        /\ UNCHANGED <<rewritten, deleted, hasty>>
    BY DEF Download, AskLatest, OpenFile, SendFile
  <1>2. ASSUME NEW j PROVE /\ (Fault(j) <=> Fault(j)') /\ (Whole(j) <=> Whole(j)')
                           /\ Started(j) <=> Started(j)'
    BY <1>1 DEF Fault, Whole, Started
  <1>3. \A v \in Versions : Registering(v)' <=> Registering(v)
    BY <1>1 DEF Registering
  <1>4. \A e \in Downloads : e # d =>
            dpc'[e] = dpc[e] /\ opened'[e] = opened[e] /\ sent'[e] = sent[e]
    BY DEF Download, AskLatest, OpenFile, SendFile, IInv, TypeOK
  <1>5. /\ dpc'[d] = "open" => opened'[d] \in rows \cup deleted
        /\ dpc'[d] = "copy" => Started(opened'[d]) /\ Whole(opened'[d])
        /\ dpc'[d] \in {"copy", "ok"} =>
              /\ opened'[d] \in Writers
              /\ sent'[d] = opened'[d] \/ Fault(opened'[d])
    <2>1. CASE AskLatest(d)
      BY <2>1 DEF AskLatest, IInv, TypeOK
    <2>2. CASE OpenFile(d)
      <3> DEFINE v == opened[d]
                 i == file[v]
      <3>1. /\ dpc[d] = "open" /\ v \in Versions /\ v \in rows \cup deleted
            /\ \/ dpc'[d] = "missing"
               \/ /\ i # NoFile /\ dpc'[d] = "copy"
                  /\ opened'[d] = i /\ sent'[d] = content[i]
        BY <2>2 DEF OpenFile, IInv, TypeOK, Opened, WholeInv, ReadsAreWhole
      <3>2. CASE dpc'[d] = "missing"
        BY <3>2
      <3>3. CASE i # NoFile /\ dpc'[d] = "copy" /\ opened'[d] = i /\ sent'[d] = content[i]
        <4>1. i \in Writers /\ VersionOf[i] = v /\ Started(i)
          BY <3>1, <3>3 DEF IInv, TypeOK, WholeInv, FilesAreWhole
        <4>2. Whole(i)
          BY <3>1, <3>3, <4>1 DEF WholeInv, FilesAreWhole, Registering, Whole, Fault
        <4>3. content[i] = i \/ Fault(i)
          BY <4>2 DEF Whole
        <4> HIDE DEF i
        <4>4. QED  BY <3>3, <4>1, <4>2, <4>3
      <3>4. QED  BY <3>1, <3>2, <3>3
    <2>3. CASE SendFile(d)
      <3>1. /\ dpc[d] = "copy" /\ opened' = opened /\ dpc'[d] \in {"ok", "error"}
            /\ content[opened[d]] = sent[d] => sent'[d] = sent[d]
        BY <2>3 DEF SendFile, IInv, TypeOK
      <3>2. /\ opened[d] \in Writers /\ Whole(opened[d])
            /\ sent[d] = opened[d] \/ Fault(opened[d])
        BY <3>1 DEF WholeInv, ReadsAreWhole
      <3>3. QED  BY <3>1, <3>2 DEF Whole
    <2>4. QED  BY <2>1, <2>2, <2>3 DEF Download
  <1>6. ReadsAreWhole'
    <2> SUFFICES ASSUME NEW e \in Downloads
        PROVE  /\ dpc'[e] = "open" => opened'[e] \in rows \cup deleted
               /\ dpc'[e] = "copy" => Started(opened'[e]) /\ Whole(opened'[e])
               /\ dpc'[e] \in {"copy", "ok"} =>
                     /\ opened'[e] \in Writers
                     /\ sent'[e] = opened'[e] \/ Fault(opened'[e])
      BY <1>1 DEF ReadsAreWhole, Started, Whole, Fault
    <2>1. QED  BY <1>4, <1>5 DEF WholeInv, ReadsAreWhole
  <1>7. QED  BY <1>1, <1>3, <1>6, QuietKeepsWhole

LEMMA RestartKeepsWhole == ASSUME IInv, WholeInv, HubRestart PROVE WholeInv'
  <1> USE DEF table, disk, history
  <1>1. /\ UNCHANGED <<rows, file, content, incoming, drop, target, opened, sent>>
        /\ UNCHANGED <<rewritten, deleted, hasty>> /\ wpc' = "poll"
    BY DEF HubRestart
  <1>2. \A u \in Uploads : /\ upc'[u] = "new" <=> upc[u] = "new"
                           /\ upc'[u] # "insert"
    BY DEF HubRestart
  <1>3. \A v \in Versions : Registering(v)' => Registering(v)
    BY <1>1, <1>2 DEF Registering
  <1>4. \A d \in Downloads : /\ dpc'[d] \notin {"open", "copy"}
                             /\ dpc'[d] = "ok" => dpc[d] = "ok"
    BY DEF HubRestart
  <1>5. ReadsAreWhole'
    BY <1>1, <1>4 DEF WholeInv, ReadsAreWhole, Fault
  <1>6. QED  BY <1>1, <1>2, <1>3, <1>5, QuietKeepsWhole

\* With IInv, WholeInv is inductive.
THEOREM FilesStayWhole == Spec => []WholeInv
  <1>1. ASSUME IInv, WholeInv, [Next]_vars
        PROVE  WholeInv'
    <2>1. ASSUME NEW u \in Uploads, Upload(u) PROVE WholeInv'
      BY <1>1, <2>1, CreateFileKeepsWhole, CopyImageKeepsWhole, RowKeepsWhole DEF Upload
    <2>2. ASSUME NEW w \in Drops, Drop(w) \/ FillDrop(w) \/ FinishDrop(w) PROVE WholeInv'
      BY <1>1, <2>2, DropKeepsWhole
    <2>3. CASE Watcher
      BY <1>1, <2>3, TakeDropKeepsWhole, RowKeepsWhole DEF Watcher
    <2>4. ASSUME NEW v \in Versions, SetLatest(v) \/ DeleteRow(v) \/ RemoveFile(v) PROVE WholeInv'
      BY <1>1, <2>4, RowKeepsWhole, RemoveFileKeepsWhole
    <2>5. ASSUME NEW d \in Downloads, Download(d) PROVE WholeInv'
      BY <1>1, <2>5, DownloadKeepsWhole
    <2>6. CASE HubRestart
      BY <1>1, <2>6, RestartKeepsWhole
    <2>7. CASE UNCHANGED vars
      <3> USE <2>7 DEF vars, table, disk, watcher, uploads, ota, history
      <3>1. \A v \in Versions : Registering(v)' <=> Registering(v)
        BY DEF Registering
      <3>2. ReadsAreWhole'
        BY <1>1, ReadsFrame DEF WholeInv
      <3>3. QED  BY <1>1, <3>1, <3>2, QuietKeepsWhole
    <2>8. QED  BY <1>1, <2>1, <2>2, <2>3, <2>4, <2>5, <2>6, <2>7 DEF Next
  <1>2. QED  BY Invariance, InitWhole, <1>1, PTL DEF Spec

\* A download logged as "ok" sent one complete image, unless its version was
\* uploaded again in place, taken half copied or deleted once: the row comes
\* after the file is complete (uploadFirmware, process, handleDownload).
THEOREM DownloadsAreWhole == Spec => []ServedWhole
  <1>1. WholeInv => ServedWhole
    <2> SUFFICES ASSUME WholeInv, NEW d \in Downloads, dpc[d] = "ok", sent[d] = Torn
                 PROVE  Fault(opened[d])
      BY DEF ServedWhole, Fault
    <2>1. QED  BY RegistryAssumption DEF WholeInv, ReadsAreWhole
  <1>2. QED  BY FilesStayWhole, <1>1, PTL
=============================================================================
